------------------------------- MODULE PathIntent -------------------------------
(***************************************************************************)
(* What the operator promises a user of a ScionPathPolicy, and nothing of  *)
(* how: no caches, no queue, no versions.                                  *)
(*                                                                         *)
(* A policy appears, is put under the finalizer, is retired and vanishes.  *)
(* Paths are published for it only under the finalizer and are never taken *)
(* away while it lives.  It is reported Active only for destinations that  *)
(* are all served, and not any more once its deletion was asked for.       *)
(***************************************************************************)
CONSTANTS Policies, Peers

VARIABLES
    phase,      \* absent, plain, guarded (has the finalizer) or retired
    served,     \* the peers for which the policy owns a path
    claimed     \* the peers for which it is reported Active

intent == <<phase, served, claimed>>

IntentInit ==
    /\ phase = [p \in Policies |-> "absent"]
    /\ served = [p \in Policies |-> {}]
    /\ claimed = [p \in Policies |-> {}]

Appear(p) ==
    /\ phase[p] = "absent"
    /\ phase' = [phase EXCEPT ![p] = "plain"]
    /\ UNCHANGED <<served, claimed>>

Guard(p) ==
    /\ phase[p] = "plain"
    /\ phase' = [phase EXCEPT ![p] = "guarded"]
    /\ UNCHANGED <<served, claimed>>

\* A pass that was under way when the deletion was asked for may still
\* publish.  One object serves several peers when their names collide.
Serve(p, peers) ==
    /\ phase[p] \in {"guarded", "retired"}
    /\ served' = [served EXCEPT ![p] = @ \cup peers]
    /\ UNCHANGED <<phase, claimed>>

Claim(p, peers) ==
    /\ phase[p] = "guarded"
    /\ peers \subseteq served[p]
    /\ claimed' = [claimed EXCEPT ![p] = peers]
    /\ UNCHANGED <<phase, served>>

Retire(p) ==
    /\ phase[p] = "guarded"
    /\ phase' = [phase EXCEPT ![p] = "retired"]
    /\ UNCHANGED <<served, claimed>>

\* What a policy that vanishes owned is left to the garbage collector.
Vanish(p) ==
    /\ phase[p] \in {"plain", "retired"}
    /\ phase' = [phase EXCEPT ![p] = "absent"]
    /\ served' = [served EXCEPT ![p] = {}]
    /\ claimed' = [claimed EXCEPT ![p] = {}]

IntentNext ==
    \E p \in Policies :
        \/ Appear(p) \/ Guard(p) \/ Retire(p) \/ Vanish(p)
        \/ \E peers \in SUBSET Peers : Serve(p, peers) \/ Claim(p, peers)

IntentSpec == IntentInit /\ [][IntentNext]_intent

=============================================================================
