-------------------------- MODULE MCOperatorOverlap --------------------------
(***************************************************************************)
(* Instances of OperatorOverlap for TLC.                                   *)
(***************************************************************************)
EXTENDS OperatorOverlap, TLC

\* Every policy and peer have a name of their own.
DistinctNames == Policies \X Peers
DistinctPathName == [pq \in Policies \X Peers |-> pq]

SelectAll == [d \in Pods |-> Policies]

=============================================================================
