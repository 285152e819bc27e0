---------------------------- MODULE OperatorOverlap ----------------------------
(***************************************************************************)
(* Two operators on one cluster, A and B.                                  *)
(*                                                                         *)
(* Leader election is off unless the flag --leader-elect is given          *)
(* (cmd/main.go:71), and a rolling update starts the new process before it *)
(* stops the old one.  The work queue keeps two workers of one process off *)
(* the same key; nothing does so for two processes.  (With the flag the    *)
(* new process lists its caches once it leads and the old one is gone:     *)
(* that is Restart of ScionPathPolicy.)                                    *)
(*                                                                         *)
(* Each operator is an instance of ScionPathPolicy (by way of WakeUps, for *)
(* its lemmas) with caches, a queue and a worker of its own; they meet in  *)
(* the store alone.                                                        *)
(***************************************************************************)
EXTENDS ClusterApi

CONSTANTS
    Pods, Selects, DefaultPolicy, ClientWired,
    MaxPathWrites   \* bound: writes to one computed path

ASSUME SelectsAssumption == Selects \in [Pods -> SUBSET Policies]
ASSUME DefaultPolicyAssumption == DefaultPolicy \in Policies
ASSUME ClientWiredAssumption == ClientWired \in BOOLEAN
ASSUME MaxPathWritesAssumption == MaxPathWrites \in Nat

VARIABLES
    cacheA, peerCacheA, pathCacheA, queueA, podUpA,
    pcA, keyA, polA, snapA, todoA, allReadyA, fetchedA,
    cacheB, peerCacheB, pathCacheB, queueB, podUpB,
    pcB, keyB, polB, snapB, todoB, allReadyB, fetchedB

operatorA == <<cacheA, peerCacheA, pathCacheA, queueA, podUpA,
               pcA, keyA, polA, snapA, todoA, allReadyA, fetchedA>>
operatorB == <<cacheB, peerCacheB, pathCacheB, queueB, podUpB,
               pcB, keyB, polB, snapB, todoB, allReadyB, fetchedB>>
vars == <<apiVars, operatorA, operatorB>>

A == INSTANCE WakeUps WITH
        cache <- cacheA, peerCache <- peerCacheA, pathCache <- pathCacheA,
        queue <- queueA, podUp <- podUpA, pc <- pcA, key <- keyA, pol <- polA,
        snap <- snapA, todo <- todoA, allReady <- allReadyA, fetched <- fetchedA

B == INSTANCE WakeUps WITH
        cache <- cacheB, peerCache <- peerCacheB, pathCache <- pathCacheB,
        queue <- queueB, podUp <- podUpB, pc <- pcB, key <- keyB, pol <- polB,
        snap <- snapB, todo <- todoB, allReady <- allReadyB, fetched <- fetchedB

Init == A!Init /\ B!Init

\* A step of the environment is one of either instance.  With a cache that
\* stays behind, two operators may overwrite each other's path for ever.
Next ==
    /\ \/ A!Next /\ UNCHANGED operatorB
       \/ B!Next /\ UNCHANGED operatorA
    /\ \A n \in Names : pathVer'[n] <= MaxPathWrites

Spec == Init /\ [][Next]_vars

-----------------------------------------------------------------------------
(***************************************************************************)
(* What is left of the promises of one operator.                           *)
(***************************************************************************)

\* Each of the two has its own view of a consistent whole.
OverlapTypeOK == A!TypeOK /\ B!TypeOK

\* A policy that owns a path has the finalizer, whoever of the two wrote the
\* path, and although the other one may let the finalizer go meanwhile.
PublishedUnderFinalizer ==
    \A p \in Policies, n \in Names : OwnedBy(n, p) => policy[p].fin

Holds(pc, key, pol, p) ==
    pc # "idle" /\ key = p /\ pol.pref = policy[p].pref

\* Within an incarnation the Active condition moves only to the generation
\* that is in the store, and to the spec that one of the two worked from:
\* a slower operator cannot take a newer status back.
ActiveObservesStore ==
    [][\A p \in Policies :
            /\ Exists(policy[p]) /\ Exists(policy'[p])
            /\ policy'[p].uid = policy[p].uid
            /\ policy'[p].active # policy[p].active
            => /\ policy'[p].active = policy[p].gen
               /\ Holds(pcA, keyA, polA, p) \/ Holds(pcB, keyB, polB, p)]_vars

Late(pc, key, pol, p) ==
    pc = "publish" /\ key = p /\ pol.uid < policy[p].uid

\* A live policy loses a path that it owns in one way only: an operator that
\* still works on an erased incarnation of the same name writes it.
LostToLateWritesOnly ==
    [][\A p \in Policies, n \in Names :
            OwnedBy(n, p) /\ Exists(policy'[p]) /\ policy'[p].uid = policy[p].uid =>
                \/ OwnedBy(n, p)'
                \/ Late(pcA, keyA, polA, p)
                \/ Late(pcB, keyB, polB, p)]_vars

\* Two operators lose no wake-up either, but the one that follows a finalizer:
\* a policy with which neither has anything more to do is Active for its
\* generation and for the clusters that one of the two knows.
QuietIsSettled ==
    \A p \in Policies : Exists(policy[p]) /\ ~A!Pending(p) /\ ~B!Pending(p) =>
        /\ policy[p].fin /\ ~policy[p].deleting
        /\ \/ policy[p].active = 0
           \/ /\ policy[p].active = policy[p].gen
              /\ policy[p].dests \in {A!Known(peerCacheA), B!Known(peerCacheB)}

=============================================================================
