--------------------------- MODULE MCScionPathPolicy ---------------------------
(***************************************************************************)
(* Instances of ScionPathPolicy for TLC.                                   *)
(***************************************************************************)
EXTENDS ScionPathPolicy, TLC

\* Every policy and peer have a name of their own.
DistinctNames == Policies \X Peers
DistinctPathName == [pq \in Policies \X Peers |-> pq]

\* "a" with peer "b-to-c", and "a-to-b" with peer "c": one name for all.
OneName == {"path"}
OnePathName == [pq \in Policies \X Peers |-> "path"]

\* Every pod is in a namespace whose policies all select it.
SelectAll == [d \in Pods |-> Policies]

=============================================================================
