------------------------------- MODULE MCLoader -------------------------------
(***************************************************************************)
(* Instances of Loader for TLC.                                            *)
(***************************************************************************)
EXTENDS Loader, TLC

CONSTANTS h1, h2

\* One entry with a full HopFields.
OneEntry == {[hop |-> h1, pathLen |-> 256]}

=============================================================================
