----------------------------- MODULE OperatorView -----------------------------
(***************************************************************************)
(* An operator that is not alone: what it knows of a store to which others *)
(* write, and what others may rely on when it writes.  OperatorOverlap     *)
(* composes two of these, and its proofs cite the lemmas of each.          *)
(***************************************************************************)
EXTENDS ScionPathPolicyProofs

(***************************************************************************)
(* What a copy tells.  It may be of an erased incarnation, finalizer and   *)
(* all, but not of one to come.                                            *)
(***************************************************************************)
SharedCopy(p, copy) ==
    /\ copy.rv <= policyVer[p] /\ copy.uid <= policyVer[p]
    /\ Current(p, copy) => policy[p] = copy
    /\ Exists(policy[p]) => copy.uid <= policy[p].uid
    /\ Exists(policy[p]) /\ policy[p].uid = copy.uid /\ copy.fin => policy[p].fin

SharedPathCopy(n, copy) ==
    /\ copy.rv <= pathVer[n]
    /\ Exists(computed[n]) /\ computed[n].rv = copy.rv => computed[n] = copy

View ==
    /\ TypeOK
    /\ \A p \in Policies : Exists(cache[p]) => SharedCopy(p, cache[p])
    /\ \A n \in Names : Exists(pathCache[n]) => SharedPathCopy(n, pathCache[n])
    /\ pc # "idle" => pol.fin /\ SharedCopy(key, pol)

OrderlyStore == VersionsInOrder /\ PublishedUnderFinalizer

\* What every step of an operator leaves to the others.
SharedStep ==
    /\ OrderlyStore'
    /\ \A p \in Policies : \A copy \in PolicyObj : SharedCopy(p, copy) => SharedCopy(p, copy)'
    /\ \A n \in Names : \A copy \in PathObj :
            SharedPathCopy(n, copy) => SharedPathCopy(n, copy)'

-----------------------------------------------------------------------------
(***************************************************************************)
(* The three ways in which a step changes policies or computed paths.      *)
(***************************************************************************)
Untouched == UNCHANGED <<policy, computed, policyVer, pathVer>>

\* A policy is created, revised within its incarnation, or erased.
WritesPolicy(p) ==
    /\ policyVer' = [policyVer EXCEPT ![p] = @ + 1]
    /\ \A r \in Policies \ {p} : policy'[r] = policy[r]
    /\ UNCHANGED <<computed, pathVer>>
    /\ Exists(policy'[p]) =>
        /\ policy'[p].rv = policyVer[p] + 1
        /\ \/ /\ ~Exists(policy[p])
              /\ policy'[p].uid = policyVer[p] + 1
           \/ /\ Exists(policy[p])
              /\ policy'[p].uid = policy[p].uid
              /\ policy[p].fin => policy'[p].fin

\* A path without its owner is collected.
CollectsPath(n) ==
    /\ UNCHANGED <<policy, policyVer, pathVer>>
    /\ \A m \in Names \ {n} : computed'[m] = computed[m]
    /\ computed'[n] = Absent
    /\ ~OwnedBy(n, computed[n].owner)

\* The worker writes a path that is new or was written for the same key.
WritesPath(n) ==
    /\ UNCHANGED <<policy, policyVer>>
    /\ \A m \in Names \ {n} : computed'[m] = computed[m]
    /\ pathVer' = [pathVer EXCEPT ![n] = @ + 1]
    /\ pc = "publish"
    /\ Exists(computed[n]) => computed[n].owner = key
    /\ Exists(computed'[n])
    /\ computed'[n].rv = pathVer[n] + 1
    /\ computed'[n].owner = key
    /\ computed'[n].uid = pol.uid

-----------------------------------------------------------------------------
(***************************************************************************)
(* Each of them leaves the store in order and the copies of others true.   *)
(***************************************************************************)
LEMMA PolicyWriteIsShared ==
    ASSUME TypeOK, TypeOK', OrderlyStore, NEW p \in Policies, WritesPolicy(p)
    PROVE  SharedStep
<1> USE DEF TypeOK, ApiTypeOK, WritesPolicy
<1>1. VersionsInOrder'
  BY DEF OrderlyStore, VersionsInOrder, Exists, PolicyObj, PathObj
<1>2. PublishedUnderFinalizer'
  <2> SUFFICES ASSUME NEW r \in Policies, NEW n \in Names, OwnedBy(n, r)'
               PROVE  policy'[r].fin
    BY DEF PublishedUnderFinalizer
  <2>1. computed[n].uid <= policyVer[r] /\ computed[n].uid \in Nat
    BY DEF OrderlyStore, VersionsInOrder, OwnedBy, Exists, PathObj
  <2>2. OwnedBy(n, r)
    BY <2>1 DEF OwnedBy, Exists
  <2> QED
    BY <2>2 DEF OrderlyStore, PublishedUnderFinalizer, OwnedBy, Exists
<1>3. ASSUME NEW r \in Policies, NEW copy \in PolicyObj, SharedCopy(r, copy)
      PROVE  SharedCopy(r, copy)'
  BY <1>3 DEF SharedCopy, Current, Exists, PolicyObj
<1>4. ASSUME NEW n \in Names, NEW copy \in PathObj, SharedPathCopy(n, copy)
      PROVE  SharedPathCopy(n, copy)'
  BY <1>4 DEF SharedPathCopy, Exists
<1> QED
  BY <1>1, <1>2, <1>3, <1>4 DEF SharedStep, OrderlyStore

\* Taking an orphan out of the store.
LEMMA CollectionIsShared ==
    ASSUME TypeOK, TypeOK', OrderlyStore, NEW n \in Names, CollectsPath(n)
    PROVE  SharedStep
<1> USE DEF TypeOK, ApiTypeOK, CollectsPath
<1>1. VersionsInOrder' /\ PublishedUnderFinalizer'
  BY DEF OrderlyStore, VersionsInOrder, PublishedUnderFinalizer, OwnedBy, Exists
<1>2. ASSUME NEW r \in Policies, NEW copy \in PolicyObj, SharedCopy(r, copy)
      PROVE  SharedCopy(r, copy)'
  BY <1>2 DEF SharedCopy, Current
<1>3. ASSUME NEW m \in Names, NEW copy \in PathObj, SharedPathCopy(m, copy)
      PROVE  SharedPathCopy(m, copy)'
  BY <1>3 DEF SharedPathCopy, Exists
<1> QED
  BY <1>1, <1>2, <1>3 DEF SharedStep, OrderlyStore

\* The path is owned only if the worker's incarnation is still there, and
\* that one has the finalizer by what the worker knows.
LEMMA PathWriteIsShared ==
    ASSUME View, TypeOK', OrderlyStore, NEW n \in Names, WritesPath(n)
    PROVE  SharedStep
<1> USE DEF TypeOK, ApiTypeOK, WritesPath
<1>1. key \in Policies /\ pol \in PolicyObj /\ pol.fin /\ SharedCopy(key, pol)
  BY DEF View
<1>2. VersionsInOrder'
  <2>1. ASSUME NEW m \in Names, Exists(computed'[m])
        PROVE  /\ computed'[m].rv <= pathVer'[m]
               /\ computed'[m].uid <= policyVer[computed'[m].owner]
    <3>1. CASE m = n
      BY <1>1, <3>1 DEF View, SharedCopy
    <3>2. CASE m # n
      BY <2>1, <3>2 DEF View, OrderlyStore, VersionsInOrder
    <3> QED
      BY <3>1, <3>2
  <2> QED
    BY <2>1 DEF OrderlyStore, VersionsInOrder, Exists
<1>3. PublishedUnderFinalizer'
  <2> SUFFICES ASSUME NEW r \in Policies, NEW m \in Names, OwnedBy(m, r)'
               PROVE  policy[r].fin
    BY DEF PublishedUnderFinalizer
  <2>1. CASE m = n
    BY <1>1, <2>1 DEF OwnedBy, SharedCopy
  <2>2. CASE m # n
    BY <2>2 DEF OrderlyStore, PublishedUnderFinalizer, OwnedBy
  <2> QED
    BY <2>1, <2>2
<1>4. ASSUME NEW r \in Policies, NEW copy \in PolicyObj, SharedCopy(r, copy)
      PROVE  SharedCopy(r, copy)'
  BY <1>4 DEF SharedCopy, Current
<1>5. ASSUME NEW m \in Names, NEW copy \in PathObj, SharedPathCopy(m, copy)
      PROVE  SharedPathCopy(m, copy)'
  BY <1>5 DEF SharedPathCopy, Exists, View, PathObj
<1> QED
  BY <1>2, <1>3, <1>4, <1>5 DEF SharedStep, OrderlyStore

\* Steps that leave policies and computed paths alone.
LEMMA UntouchedIsShared ==
    ASSUME OrderlyStore, Untouched
    PROVE  SharedStep
BY DEF OrderlyStore, Untouched, SharedStep, VersionsInOrder, PublishedUnderFinalizer, SharedCopy,
       SharedPathCopy, OwnedBy, Current

-----------------------------------------------------------------------------
(***************************************************************************)
(* What each step of the operator does to the store.                       *)
(***************************************************************************)
LEMMA UserWrites ==
    ASSUME TypeOK, UserStep \/ RotatePaths
    PROVE  Untouched \/ \E p \in Policies : WritesPolicy(p)
<1> USE DEF TypeOK, ApiTypeOK
<1>1. ASSUME NEW p \in Policies, NEW f \in Prefs \cup {NoPref}, CreatePolicy(p, f)
      PROVE  WritesPolicy(p)
  <2> DEFINE new == [uid |-> policyVer[p] + 1, rv |-> 0, gen |-> 1, pref |-> f,
                     deleting |-> FALSE, fin |-> FALSE, active |-> 0, dests |-> {}]
  <2>1. new \in PolicyObj /\ new.uid = policyVer[p] + 1
    BY DEF PolicyObj
  <2>2. StorePolicy(p, new) /\ ~Exists(policy[p]) /\ UNCHANGED <<computed, pathVer>>
    BY <1>1 DEF CreatePolicy
  <2> HIDE DEF new
  <2> QED
    BY <2>1, <2>2, StorePolicyStores DEF WritesPolicy
<1>2. ASSUME NEW p \in Policies, NEW f \in Prefs \cup {NoPref}, EditPolicy(p, f)
      PROVE  WritesPolicy(p)
  <2> DEFINE new == [policy[p] EXCEPT !.gen = @ + 1, !.pref = f]
  <2>1. policy[p] \in PolicyObj /\ policy[p].gen + 1 \in Nat
    BY <1>2 DEF EditPolicy, Exists, PolicyObj
  <2>2. new \in PolicyObj
    BY <2>1, EditedType
  <2>3. new.uid = policy[p].uid /\ new.fin = policy[p].fin
    BY <2>1 DEF PolicyObj
  <2>4. StorePolicy(p, new) /\ Exists(policy[p]) /\ UNCHANGED <<computed, pathVer>>
    BY <1>2 DEF EditPolicy
  <2> HIDE DEF new
  <2> QED
    BY <2>2, <2>3, <2>4, StorePolicyStores DEF WritesPolicy
<1>3. ASSUME NEW p \in Policies, DeletePolicy(p)
      PROVE  WritesPolicy(p)
  <2>1. CASE policy[p].fin
    <3> DEFINE new == [policy[p] EXCEPT !.gen = @ + 1, !.deleting = TRUE]
    <3>1. policy[p] \in PolicyObj /\ policy[p].gen + 1 \in Nat
      BY <1>3 DEF DeletePolicy, Exists, PolicyObj
    <3>2. new \in PolicyObj
      BY <3>1, RetiredType
    <3>3. new.uid = policy[p].uid /\ new.fin = policy[p].fin
      BY <3>1 DEF PolicyObj
    <3>4. StorePolicy(p, new) /\ Exists(policy[p]) /\ UNCHANGED <<computed, pathVer>>
      BY <1>3, <2>1 DEF DeletePolicy
    <3> HIDE DEF new
    <3> QED
      BY <3>2, <3>3, <3>4, StorePolicyStores DEF WritesPolicy
  <2>2. CASE ~policy[p].fin
    BY <1>3, <2>2 DEF DeletePolicy, ErasePolicy, Exists, WritesPolicy
  <2> QED
    BY <2>1, <2>2
<1> QED
  BY <1>1, <1>2, <1>3 DEF UserStep, PutPeer, RemovePeer, RotatePaths, Untouched

\* The first steps of Reconcile write one policy or nothing; a write made from a
\* stale copy is refused.
LEMMA StartWrites ==
    ASSUME View, NEW p \in Policies, Start(p)
    PROVE  Untouched \/ WritesPolicy(p)
<1> USE DEF TypeOK, ApiTypeOK
<1>1. CASE RemoveFinalizer(p)
  BY <1>1 DEF RemoveFinalizer, ErasePolicy, WritesPolicy, Exists, View
<1>2. CASE AddFinalizer(p)
  <2> DEFINE new == [cache[p] EXCEPT !.fin = TRUE]
  <2>1. cache[p] \in PolicyObj /\ policy[p] = cache[p] /\ Exists(policy[p])
    BY <1>2 DEF AddFinalizer, Exists, View, SharedCopy
  <2>2. new \in PolicyObj
    BY <2>1, GuardedType
  <2>3. new.uid = policy[p].uid /\ new.fin = TRUE
    BY <2>1 DEF PolicyObj
  <2>4. StorePolicy(p, new) /\ UNCHANGED <<computed, pathVer>>
    BY <1>2 DEF AddFinalizer
  <2> HIDE DEF new
  <2> QED
    BY <2>1, <2>2, <2>3, <2>4, StorePolicyStores DEF WritesPolicy, View
<1>3. CASE NothingToDo(p) \/ ListPeers(p)
  BY <1>3 DEF NothingToDo, ListPeers, apiVars, Untouched
<1> QED
  BY <1>1, <1>2, <1>3 DEF Start

\* The peer loop writes computed paths, the status update writes the policy.
LEMMA VisitWrites ==
    ASSUME View, Visit
    PROVE  Untouched \/ WritesPolicy(key) \/ \E n \in Names : WritesPath(n)
<1> USE DEF TypeOK, ApiTypeOK
<1>1. CASE MarkActive /\ Activated # pol
  <2>1. /\ key \in Policies /\ pol \in PolicyObj /\ policy[key] = pol /\ Exists(policy[key])
    BY <1>1 DEF MarkActive, View, SharedCopy, Current
  <2>2. pol.gen \in Nat /\ Known(snap) \in SUBSET Peers
    BY <2>1 DEF PolicyObj, Known, View
  <2>3. Activated \in PolicyObj
    BY <2>1, <2>2, ActivatedType DEF Activated
  <2>4. Activated.uid = pol.uid /\ Activated.fin = pol.fin
    BY <2>1 DEF Activated, PolicyObj
  <2>5. StorePolicy(key, Activated) /\ UNCHANGED <<computed, pathVer>>
    BY <1>1 DEF MarkActive
  <2> QED
    BY <2>1, <2>3, <2>4, <2>5, StorePolicyStores DEF WritesPolicy, View
<1>2. CASE CreatePath \/ UpdatePath
  <2>1. /\ pc = "publish" /\ StorePath(Target, Wanted(0))
        /\ UNCHANGED <<policy, policyVer>>
    BY <1>2 DEF CreatePath, UpdatePath, Published
  <2>2. /\ Wanted(0) \in PathObj /\ Target \in Names
        /\ Wanted(0).owner = key /\ Wanted(0).uid = pol.uid
    BY <2>1, PathNameAssumption DEF Wanted, Target, PathObj, PolicyObj, Answer, Exists, View
  <2>3. /\ \A m \in Names \ {Target} : computed'[m] = computed[m]
        /\ pathVer' = [pathVer EXCEPT ![Target] = @ + 1]
        /\ computed'[Target].rv = pathVer[Target] + 1
        /\ computed'[Target].owner = key /\ computed'[Target].uid = pol.uid
    BY <2>1, <2>2 DEF StorePath, PathObj, View
  <2>4. computed'[Target] \in PathObj
    BY <2>1, <2>2 DEF StorePath, PathObj, View
  <2>5. Exists(computed'[Target])
    BY <2>4, AbsentAssumption DEF Exists
  <2>6. Exists(computed[Target]) => computed[Target].owner = key
    <3>1. CASE CreatePath
      BY <3>1 DEF CreatePath, CanCreate
    <3>2. CASE UpdatePath
      <4>1. computed[Target] = pathCache[Target]
        BY <2>2, <3>2 DEF UpdatePath, CanUpdate, Mine, View, SharedPathCopy
      <4> QED
        BY <3>2, <4>1 DEF UpdatePath, CanUpdate, Mine
    <3> QED
      BY <1>2, <3>1, <3>2
  <2> QED
    BY <2>1, <2>2, <2>3, <2>5, <2>6 DEF WritesPath
<1>3. CASE ~(MarkActive /\ Activated # pol) /\ ~(CreatePath \/ UpdatePath)
  BY <1>3 DEF Visit, FetchReady, FetchPanics, KeepPath, Published, PublishRefused, AwaitPaths,
              MarkActive, StatusRefused, apiVars, Untouched
<1> QED
  BY <1>1, <1>2, <1>3

\* Every step falls under one of the three ways, or touches nothing.
LEMMA StoreWrites ==
    ASSUME View, [Next]_vars
    PROVE  \/ Untouched
           \/ \E p \in Policies : WritesPolicy(p)
           \/ \E n \in Names : CollectsPath(n) \/ WritesPath(n)
<1>1. CASE Environment
  BY <1>1, UserWrites DEF Environment, View
<1>2. ASSUME NEW n \in Names, Collect(n)
      PROVE  CollectsPath(n)
  BY <1>2 DEF Collect, CollectPath, CollectsPath, View, TypeOK, ApiTypeOK
<1>3. CASE Deliver \/ Resync \/ PodStep \/ Fault \/ UNCHANGED vars
  BY <1>3 DEF Deliver, DeliverPolicy, DeliverPeer, DeliverPath, Resync, PodStep, PodAddressed,
              PodDeleted, Fault, FetchNotReady, TransientError, Restart, vars, apiVars, Untouched
<1>4. CASE \E p \in Policies : Start(p)
  BY <1>4, StartWrites
<1>5. CASE Visit
  <2>1. Visit => key \in Policies
    BY DEF Visit, FetchReady, FetchPanics, CreatePath, KeepPath, UpdatePath, PublishRefused,
           AwaitPaths, MarkActive, StatusRefused, View, TypeOK
  <2> QED
    BY <1>5, <2>1, VisitWrites
<1> QED
  BY <1>1, <1>2, <1>3, <1>4, <1>5 DEF Next

-----------------------------------------------------------------------------
(***************************************************************************)
(* Rely and guarantee.                                                     *)
(***************************************************************************)

\* Guarantee: whatever the operator does, others keep what they know.
LEMMA StepIsShared ==
    ASSUME View, OrderlyStore, [Next]_vars
    PROVE  SharedStep
<1>1. TypeOK /\ TypeOK'
  BY TypeNext DEF View
<1> QED
  BY <1>1, StoreWrites, UntouchedIsShared, PolicyWriteIsShared, CollectionIsShared,
     PathWriteIsShared

\* Rely: the operator keeps what it knows while another one moves.
LEMMA ViewStays ==
    ASSUME View, SharedStep, ApiTypeOK', UNCHANGED operatorVars
    PROVE  View'
<1> USE DEF operatorVars, informers, frame
<1>1. TypeOK'
  BY DEF View, TypeOK, Exists
<1>2. ASSUME NEW p \in Policies, Exists(cache'[p])
      PROVE  SharedCopy(p, cache[p])'
  BY <1>2 DEF View, SharedStep, TypeOK, Exists
<1>3. ASSUME NEW n \in Names, Exists(pathCache'[n])
      PROVE  SharedPathCopy(n, pathCache[n])'
  BY <1>3 DEF View, SharedStep, TypeOK, Exists
<1>4. ASSUME pc' # "idle"
      PROVE  pol'.fin /\ SharedCopy(key, pol)'
  <2>1. key \in Policies /\ pol \in PolicyObj /\ pol.fin /\ SharedCopy(key, pol)
    BY <1>4 DEF View, TypeOK
  <2>2. SharedCopy(key, pol)'
    BY <2>1 DEF SharedStep, SharedCopy, Current
  <2> QED
    BY <2>1, <2>2
<1> QED
  BY <1>1, <1>2, <1>3, <1>4 DEF View, Exists

\* A copy fresh from the store is true.
LEMMA FreshIsShared ==
    ASSUME ApiTypeOK, VersionsInOrder
    PROVE  /\ \A p \in Policies : Exists(policy[p]) => SharedCopy(p, policy[p])
           /\ \A n \in Names : Exists(computed[n]) => SharedPathCopy(n, computed[n])
BY DEF ApiTypeOK, VersionsInOrder, SharedCopy, SharedPathCopy, Current, Exists, PolicyObj

\* At first the caches are what the store holds.
LEMMA ViewInit == Init => View /\ OrderlyStore
BY TypeInit DEF Init, ApiInit, View, OrderlyStore, VersionsInOrder, PublishedUnderFinalizer,
                OwnedBy, Exists

\* A cache moves to what the store holds, and the worker reads its caches.
LEMMA CopiesMove ==
    ASSUME TypeOK, [Next]_vars
    PROVE  /\ \A p \in Policies : cache'[p] \in {cache[p], policy[p]}
           /\ \A n \in Names : pathCache'[n] \in {pathCache[n], computed[n]}
           /\ \/ pc' = "idle"
              \/ pc # "idle" /\ key' = key /\ pol' = pol
              \/ \E p \in Policies : /\ key' = p
                                     /\ pol' = cache[p]
                                     /\ Exists(cache[p]) /\ cache[p].fin
<1> USE DEF TypeOK, informers, frame
<1>1. CASE Environment \/ Resync \/ PodStep \/ UNCHANGED vars \/ \E n \in Names : Collect(n)
  BY <1>1 DEF Environment, Collect, operatorVars, Resync, PodStep, PodAddressed, PodDeleted, vars
<1>2. CASE Deliver
  BY <1>2 DEF Deliver, DeliverPolicy, DeliverPeer, DeliverPath
<1>3. CASE \E p \in Policies : Start(p)
  BY <1>3 DEF Start, NothingToDo, RemoveFinalizer, AddFinalizer, ListPeers
<1>4. CASE Visit
  BY <1>4 DEF Visit, FetchReady, FetchPanics, CreatePath, KeepPath, UpdatePath, Published,
              PublishRefused, AwaitPaths, MarkActive, StatusRefused, Retry, Idle
<1>5. CASE Fault
  BY <1>5 DEF Fault, FetchNotReady, TransientError, Restart, Retry, Idle
<1> QED
  BY <1>1, <1>2, <1>3, <1>4, <1>5 DEF Next

\* An operator's own step keeps its view: what it wrote made its copies old, but
\* not wrong.
LEMMA ViewNext ==
    ASSUME View, OrderlyStore, [Next]_vars
    PROVE  View'
<1>1. TypeOK /\ TypeOK' /\ SharedStep
  BY TypeNext, StepIsShared DEF View
<1>2. /\ \A p \in Policies : Exists(policy[p]) => SharedCopy(p, policy[p])
      /\ \A n \in Names : Exists(computed[n]) => SharedPathCopy(n, computed[n])
  BY <1>1, FreshIsShared DEF OrderlyStore, TypeOK
<1>3. ASSUME NEW p \in Policies, Exists(cache'[p])
      PROVE  SharedCopy(p, cache[p])'
  <2>1. cache'[p] \in PolicyObj /\ SharedCopy(p, cache'[p])
    BY <1>1, <1>2, <1>3, CopiesMove DEF View, TypeOK, Exists
  <2> QED
    BY <1>1, <2>1 DEF SharedStep, SharedCopy, Current
<1>4. ASSUME NEW n \in Names, Exists(pathCache'[n])
      PROVE  SharedPathCopy(n, pathCache[n])'
  <2>1. pathCache'[n] \in PathObj /\ SharedPathCopy(n, pathCache'[n])
    BY <1>1, <1>2, <1>4, CopiesMove DEF View, TypeOK, Exists
  <2> QED
    BY <1>1, <2>1 DEF SharedStep, SharedPathCopy
<1>5. ASSUME pc' # "idle"
      PROVE  pol'.fin /\ SharedCopy(key, pol)'
  <2>1. key' \in Policies /\ pol' \in PolicyObj /\ pol'.fin /\ SharedCopy(key', pol')
    BY <1>1, <1>5, CopiesMove DEF View, TypeOK, Exists
  <2> QED
    BY <1>1, <2>1 DEF SharedStep, SharedCopy, Current
<1> QED
  BY <1>1, <1>3, <1>4, <1>5 DEF View, Exists

-----------------------------------------------------------------------------
(***************************************************************************)
(* What a single step may do to a live policy.                             *)
(***************************************************************************)

\* The view has it of every copy that a write from it is of the stored object.
LEMMA ViewIsTrue == View => TypeOK /\ TrueCopies
BY DEF View, TypeOK, TrueCopies, SharedCopy, Exists

\* A status is written from the stored object, and by the worker that holds
\* the key.
LEMMA ActiveMove ==
    ASSUME View, [Next]_vars, NEW p \in Policies, Exists(policy[p]), Exists(policy'[p]),
           policy'[p].active # policy[p].active
    PROVE  /\ policy'[p].active = policy[p].gen
           /\ pc # "idle" /\ key = p /\ pol.pref = policy[p].pref
<1>1. TypeOK /\ TrueCopies
  BY ViewIsTrue
<1>2. policy'[p] # policy[p]
  OBVIOUS
<1>3. MarkActive /\ p = key
  BY <1>1, <1>2, PolicyWrites, CreateStores, EditStores, DeleteStores, AddFinalizerStores,
     RemoveFinalizerStores
<1> QED
  BY <1>1, <1>3, MarkActiveStores DEF MarkActive

\* A path leaves its living owner only when this worker writes it for an
\* earlier incarnation.
LEMMA PathLoss ==
    ASSUME View, [Next]_vars, NEW p \in Policies, NEW n \in Names, OwnedBy(n, p),
           Exists(policy'[p]), policy'[p].uid = policy[p].uid, ~OwnedBy(n, p)'
    PROVE  pc = "publish" /\ key = p /\ pol.uid < policy[p].uid
<1>1. ~Untouched /\ \A r \in Policies : ~WritesPolicy(r)
  BY DEF Untouched, WritesPolicy, OwnedBy
<1>2. PICK m \in Names : CollectsPath(m) \/ WritesPath(m)
  BY <1>1, StoreWrites
<1>3. m = n
  BY <1>2 DEF CollectsPath, WritesPath, OwnedBy
<1>4. WritesPath(n)
  BY <1>2, <1>3 DEF CollectsPath, OwnedBy
<1>5. pc = "publish" /\ key = p /\ pol.uid # policy[p].uid
  BY <1>4 DEF WritesPath, OwnedBy
<1>6. pol.uid <= policy[p].uid /\ pol.uid \in Nat /\ policy[p].uid \in Nat
  BY <1>5 DEF View, SharedCopy, OwnedBy, TypeOK, ApiTypeOK, PolicyObj, Exists
<1> QED
  BY <1>5, <1>6

=============================================================================
