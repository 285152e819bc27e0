------------------------- MODULE OperatorOverlapProofs -------------------------
(***************************************************************************)
(* Proofs about OperatorOverlap, for every set of policies, peers and      *)
(* names and all bounds.  OperatorView proves of one operator what it      *)
(* guarantees to others and what it relies on; here the two are put        *)
(* together.                                                               *)
(***************************************************************************)
EXTENDS OperatorOverlap, TLAPS

\* The inductive invariant: what each of the two knows, and an orderly store.
OverlapInv ==
    /\ A!View
    /\ B!View
    /\ A!OrderlyStore

\* The inductive invariant behind QuietIsSettled: each of the two is woken by
\* what it has not seen, and what neither is to look at is at rest for one.
OverlapWakeInv ==
    /\ A!StoreInOrder
    /\ A!Watch
    /\ B!Watch
    /\ \A p \in Policies : Exists(policy[p]) =>
            A!Pending(p) \/ B!Pending(p) \/ A!AtRest(p) \/ B!AtRest(p)

-----------------------------------------------------------------------------
\* The layouts of the objects are the same to both.
LEMMA AbsentInA ==
    Absent \notin A!PolicyObj \cup A!PathObj \cup Clusters \cup Peers \cup Policies
BY AbsentAssumption DEF PolicyObj, PathObj, A!PolicyObj, A!PathObj

\* The same for B.
LEMMA AbsentInB ==
    Absent \notin B!PolicyObj \cup B!PathObj \cup Clusters \cup Peers \cup Policies
BY AbsentAssumption DEF PolicyObj, PathObj, B!PolicyObj, B!PathObj

\* What the lemmas of A and of B assume of the constants.
USE PathNameAssumption, NoPrefAssumption, MaxMovesAssumption, AbsentInA, AbsentInB,
    SelectsAssumption, DefaultPolicyAssumption, ClientWiredAssumption

\* What A guarantees is what B relies on, and the other way round.
LEMMA SharedByBoth ==
    /\ A!SharedStep <=> B!SharedStep
    /\ A!OrderlyStore <=> B!OrderlyStore
<1>1. A!PolicyObj = B!PolicyObj /\ A!PathObj = B!PathObj
  BY DEF A!PolicyObj, B!PolicyObj, A!PathObj, B!PathObj
<1>2. A!OrderlyStore <=> B!OrderlyStore
  BY DEF A!OrderlyStore, B!OrderlyStore, A!VersionsInOrder, B!VersionsInOrder,
         A!PublishedUnderFinalizer, B!PublishedUnderFinalizer, A!OwnedBy, B!OwnedBy,
         A!Exists, B!Exists
<1>3. A!OrderlyStore' <=> B!OrderlyStore'
  BY DEF A!OrderlyStore, B!OrderlyStore, A!VersionsInOrder, B!VersionsInOrder,
         A!PublishedUnderFinalizer, B!PublishedUnderFinalizer, A!OwnedBy, B!OwnedBy,
         A!Exists, B!Exists
<1> QED
  BY <1>1, <1>2, <1>3 DEF A!SharedStep, B!SharedStep, A!SharedCopy, B!SharedCopy,
     A!SharedPathCopy, B!SharedPathCopy, A!Current, B!Current, A!Exists, B!Exists

\* Both start from the store as it is.
LEMMA OverlapInvInit == Init => OverlapInv
BY A!ViewInit, B!ViewInit DEF Init, OverlapInv

\* A step of one keeps the view of that one, by its own lemma, and the view of
\* the other, by what the step guarantees.
LEMMA OverlapInvNext ==
    ASSUME OverlapInv, [Next]_vars
    PROVE  OverlapInv'
<1> USE DEF OverlapInv
<1>1. ASSUME A!Next, UNCHANGED operatorB
      PROVE  OverlapInv'
  <2>1. A!View' /\ A!SharedStep
    BY <1>1, A!ViewNext, A!StepIsShared
  <2>2. B!SharedStep /\ A!OrderlyStore'
    BY <2>1, SharedByBoth DEF A!SharedStep
  <2>3. B!ApiTypeOK'
    BY <2>1 DEF A!View, A!TypeOK, A!ApiTypeOK, B!ApiTypeOK, A!PolicyObj, B!PolicyObj,
                A!PathObj, B!PathObj
  <2>4. UNCHANGED B!operatorVars
    BY <1>1 DEF operatorB, B!operatorVars, B!informers, B!frame
  <2> QED
    BY <2>1, <2>2, <2>3, <2>4, B!ViewStays
<1>2. ASSUME B!Next, UNCHANGED operatorA
      PROVE  OverlapInv'
  <2>1. B!View' /\ B!SharedStep
    BY <1>2, SharedByBoth, B!ViewNext, B!StepIsShared
  <2>2. A!SharedStep
    BY <2>1, SharedByBoth
  <2>3. A!ApiTypeOK'
    BY <2>1 DEF B!View, B!TypeOK, A!ApiTypeOK, B!ApiTypeOK, A!PolicyObj, B!PolicyObj,
                A!PathObj, B!PathObj
  <2>4. UNCHANGED A!operatorVars
    BY <1>2 DEF operatorA, A!operatorVars, A!informers, A!frame
  <2> QED
    BY <2>1, <2>2, <2>3, <2>4, A!ViewStays DEF A!SharedStep
<1>3. ASSUME UNCHANGED vars
      PROVE  OverlapInv'
  <2>1. /\ UNCHANGED A!vars
        /\ UNCHANGED B!vars
    BY <1>3 DEF vars, operatorA, operatorB, apiVars, A!vars, B!vars, A!apiVars, B!apiVars,
                A!informers, B!informers, A!frame, B!frame
  <2> QED
    BY <2>1, SharedByBoth, A!ViewNext, B!ViewNext, A!StepIsShared DEF A!SharedStep
<1> QED
  BY <1>1, <1>2, <1>3 DEF Next

\* Whatever the two do to each other, each keeps a true view of the store.
THEOREM OverlapInvariance == Spec => []OverlapInv
BY OverlapInvInit, OverlapInvNext, PTL DEF Spec

\* The types of both, although each is surprised by the other's writes.
THEOREM OverlapTypeCorrect == Spec => []OverlapTypeOK
<1>1. OverlapInv => OverlapTypeOK
  BY DEF OverlapInv, OverlapTypeOK, A!View, B!View
<1> QED
  BY <1>1, OverlapInvariance, PTL

\* A path is owned only under the finalizer, whoever of the two wrote it.
THEOREM SharedFinalizerFirst == Spec => []PublishedUnderFinalizer
<1>1. OverlapInv => PublishedUnderFinalizer
  BY DEF OverlapInv, A!OrderlyStore, A!PublishedUnderFinalizer, PublishedUnderFinalizer,
         A!OwnedBy, OwnedBy, A!Exists, Exists
<1> QED
  BY <1>1, OverlapInvariance, PTL

\* A step of the two is a step of one of them.
LEMMA EitherMoves == [Next]_vars => [A!Next]_(A!vars) \/ [B!Next]_(B!vars)
BY DEF Next, vars, operatorA, apiVars, A!vars, A!apiVars, A!informers, A!frame

\* The Active condition moves to the generation that is in the store, and by
\* an operator that worked from the stored preference.
THEOREM SharedActiveIsCurrent == Spec => ActiveObservesStore
<1>1. ASSUME OverlapInv, [Next]_vars
      PROVE  \A p \in Policies :
                /\ Exists(policy[p]) /\ Exists(policy'[p])
                /\ policy'[p].uid = policy[p].uid
                /\ policy'[p].active # policy[p].active
                => /\ policy'[p].active = policy[p].gen
                   /\ Holds(pcA, keyA, polA, p) \/ Holds(pcB, keyB, polB, p)
  BY <1>1, EitherMoves, A!ActiveMove, B!ActiveMove
     DEF OverlapInv, Holds, Exists, A!Exists, B!Exists
<1> QED
  BY <1>1, OverlapInvariance, PTL DEF Spec, ActiveObservesStore

\* A live policy loses a path only to an operator that still writes for an
\* erased incarnation of it.
THEOREM OnlyLateWritesHurt == Spec => LostToLateWritesOnly
<1>1. ASSUME OverlapInv, [Next]_vars
      PROVE  \A p \in Policies, n \in Names :
                OwnedBy(n, p) /\ Exists(policy'[p]) /\ policy'[p].uid = policy[p].uid =>
                    \/ OwnedBy(n, p)'
                    \/ Late(pcA, keyA, polA, p)
                    \/ Late(pcB, keyB, polB, p)
  <2> SUFFICES ASSUME NEW p \in Policies, NEW n \in Names, OwnedBy(n, p), Exists(policy'[p]),
                      policy'[p].uid = policy[p].uid, ~OwnedBy(n, p)'
               PROVE  Late(pcA, keyA, polA, p) \/ Late(pcB, keyB, polB, p)
    OBVIOUS
  <2>1. /\ A!OwnedBy(n, p) /\ ~A!OwnedBy(n, p)'
        /\ B!OwnedBy(n, p) /\ ~B!OwnedBy(n, p)'
    BY <1>1 DEF OwnedBy, A!OwnedBy, B!OwnedBy, Exists, A!Exists, B!Exists
  <2> QED
    BY <1>1, <2>1, EitherMoves, A!PathLoss, B!PathLoss
       DEF OverlapInv, Late, Exists, A!Exists, B!Exists
<1> QED
  BY <1>1, OverlapInvariance, PTL DEF Spec, LostToLateWritesOnly

-----------------------------------------------------------------------------
(***************************************************************************)
(* Wake-ups.                                                               *)
(***************************************************************************)

\* What A's wake-ups rest on the store for is what B's do.
LEMMA SharedOrder ==
    /\ A!StoreInOrder <=> B!StoreInOrder
    /\ A!StoreInOrder' <=> B!StoreInOrder'
    /\ \A p \in Policies : A!Grows(p) <=> B!Grows(p)
BY DEF A!StoreInOrder, B!StoreInOrder, A!StoredInOrder, B!StoredInOrder, A!Grows, B!Grows,
       A!Exists, B!Exists

\* What is at rest for an operator stays so while nobody writes it.
LEMMA AtRestStays ==
    ASSUME NEW p \in Policies, UNCHANGED policy[p]
    PROVE  /\ UNCHANGED peerCacheA /\ A!AtRest(p) => A!AtRest(p)'
           /\ UNCHANGED peerCacheB /\ B!AtRest(p) => B!AtRest(p)'
BY DEF A!AtRest, B!AtRest, A!Known, B!Known

\* Nothing is there to be woken by at first.
LEMMA OverlapWakeInit == Init => OverlapWakeInv
BY A!WakeInvInit, B!WakeInvInit, SharedOrder
   DEF Init, OverlapWakeInv, A!WakeInv, B!WakeInv, A!Exists, Exists

\* A step of one handles each policy for that one, and takes nothing from what
\* the other is to be woken by.
LEMMA OverlapWakeNext ==
    ASSUME OverlapInv, OverlapInv', OverlapWakeInv, [Next]_vars
    PROVE  OverlapWakeInv'
<1>1. /\ A!View /\ A!TypeOK' /\ A!StoreInOrder /\ A!Watch
      /\ B!View /\ B!TypeOK' /\ B!StoreInOrder /\ B!Watch
  BY SharedOrder DEF OverlapInv, OverlapWakeInv, A!View, B!View
<1>2. ASSUME NEW p \in Policies, Exists(policy[p])
      PROVE  A!Pending(p) \/ B!Pending(p) \/ A!AtRest(p) \/ B!AtRest(p)
  BY <1>2 DEF OverlapWakeInv
<1>3. ASSUME A!Next, UNCHANGED operatorB
      PROVE  OverlapWakeInv'
  <2>1. /\ A!StoreInOrder' /\ A!Watch'
        /\ \A p \in Policies : A!Grows(p) /\ (Exists(policy'[p]) => A!Handles(p))
    BY <1>1, <1>3, A!OrderStays, A!WatchNext, A!StepGrows, A!StepHandles DEF Exists, A!Exists
  <2>2. UNCHANGED B!operatorVars /\ UNCHANGED peerCacheB
    BY <1>3 DEF operatorB, B!operatorVars, B!informers, B!frame
  <2>3. B!Watch' /\ \A p \in Policies : B!Pending(p) => B!Pending(p)'
    BY <1>1, <2>1, <2>2, SharedOrder, B!WatchStays
  <2>4. ASSUME NEW p \in Policies, Exists(policy'[p])
        PROVE  (A!Pending(p) \/ B!Pending(p) \/ A!AtRest(p) \/ B!AtRest(p))'
    <3>1. CASE UNCHANGED <<policy[p], peerCacheA>> /\ ~A!Pending(p)
      BY <1>2, <2>2, <2>3, <2>4, <3>1, AtRestStays DEF Exists
    <3> QED
      BY <2>1, <2>4, <3>1 DEF A!Handles
  <2> QED
    BY <2>1, <2>3, <2>4 DEF OverlapWakeInv, Exists
<1>4. ASSUME B!Next, UNCHANGED operatorA
      PROVE  OverlapWakeInv'
  <2>1. /\ B!StoreInOrder' /\ B!Watch'
        /\ \A p \in Policies : B!Grows(p) /\ (Exists(policy'[p]) => B!Handles(p))
    BY <1>1, <1>4, B!OrderStays, B!WatchNext, B!StepGrows, B!StepHandles DEF Exists, B!Exists
  <2>2. UNCHANGED A!operatorVars /\ UNCHANGED peerCacheA
    BY <1>4 DEF operatorA, A!operatorVars, A!informers, A!frame
  <2>3. A!Watch' /\ \A p \in Policies : A!Pending(p) => A!Pending(p)'
    BY <1>1, <2>1, <2>2, SharedOrder, A!WatchStays
  <2>4. ASSUME NEW p \in Policies, Exists(policy'[p])
        PROVE  (A!Pending(p) \/ B!Pending(p) \/ A!AtRest(p) \/ B!AtRest(p))'
    <3>1. CASE UNCHANGED <<policy[p], peerCacheB>> /\ ~B!Pending(p)
      BY <1>2, <2>2, <2>3, <2>4, <3>1, AtRestStays DEF Exists
    <3> QED
      BY <2>1, <2>4, <3>1 DEF B!Handles
  <2> QED
    BY <2>1, <2>3, <2>4, SharedOrder DEF OverlapWakeInv, Exists
<1>5. CASE UNCHANGED vars
  BY <1>5 DEF OverlapWakeInv, vars, operatorA, operatorB, apiVars, A!StoreInOrder,
     A!StoredInOrder, A!Watch, B!Watch, A!CacheBehind, B!CacheBehind, A!WorkerWoken,
     B!WorkerWoken, A!Pending, B!Pending, A!AtRest, B!AtRest, A!Wakes, B!Wakes, A!Known, B!Known,
     A!Exists, B!Exists, Exists
<1> QED
  BY <1>3, <1>4, <1>5 DEF Next

\* Two operators, and what each of them will still be woken by.
THEOREM OverlapWakeUps == Spec => []OverlapWakeInv
<1>1. OverlapInv /\ OverlapInv' /\ OverlapWakeInv /\ [Next]_vars => OverlapWakeInv'
  BY OverlapWakeNext
<1> QED
  BY <1>1, OverlapWakeInit, OverlapInvariance, PTL DEF Spec

\* A policy with which neither has anything more to do is settled for one of
\* them, or waits behind a finalizer just added.
THEOREM TogetherNoWakeUpLost == Spec => []QuietIsSettled
<1>1. OverlapWakeInv => QuietIsSettled
  <2> SUFFICES ASSUME OverlapWakeInv, NEW p \in Policies, Exists(policy[p]),
                      ~A!Pending(p), ~B!Pending(p)
               PROVE  /\ policy[p].fin /\ ~policy[p].deleting
                      /\ \/ policy[p].active = 0
                         \/ /\ policy[p].active = policy[p].gen
                            /\ policy[p].dests \in {A!Known(peerCacheA), B!Known(peerCacheB)}
    BY DEF QuietIsSettled
  <2>1. A!StoredInOrder(policy[p]) /\ (A!AtRest(p) \/ B!AtRest(p))
    BY DEF OverlapWakeInv, A!StoreInOrder, A!Exists, Exists
  <2> QED
    BY <2>1 DEF A!StoredInOrder, A!AtRest, B!AtRest
<1> QED
  BY <1>1, OverlapWakeUps, PTL

=============================================================================
