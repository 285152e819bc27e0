------------------------------ MODULE MCPathCache ------------------------------
(***************************************************************************)
(* Instances of PathCache for TLC.                                         *)
(***************************************************************************)
EXTENDS PathCache, TLC

CONSTANTS a, b, d

\* Names of different lengths: one hop over d is longer than two over a, b.
Lengths == (a :> 1 @@ b :> 1 @@ d :> 3)
Ranks == (a :> 1 @@ b :> 2 @@ d :> 3)

\* No path, two of one length, and one of these with a shorter list.
Offered == {{}, {<<a, b>>, <<b, a>>}, {<<b, a>>, <<d>>}}

OneAS == [r \in Remotes |-> "as"]

=============================================================================
