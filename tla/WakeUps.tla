-------------------------------- MODULE WakeUps --------------------------------
(***************************************************************************)
(* The operator loses no wake-up, be it alone or not: each of its steps    *)
(* leaves a policy pending, at rest, or as it was.                         *)
(*                                                                         *)
(* The argument.  A change that the predicate lets through is one to a uid *)
(* or a generation that the cache has not seen, and both only grow in the  *)
(* store: a policy that is pending for such a change stays pending until   *)
(* the watch delivers it, whatever else is written, by whomever.  A key    *)
(* leaves the queue for the worker, and the worker for the queue, for an   *)
(* erased policy, for one that has just got its finalizer, or for one that *)
(* is Active for its generation and for the peers listed; and if the known *)
(* peers are others by then, the key is in the queue again.                *)
(***************************************************************************)
EXTENDS OperatorView

(***************************************************************************)
(* The inductive invariant behind QuietIsSettled, on top of IndInv.        *)
(***************************************************************************)

\* A deletion and every edit leave the condition behind, and a condition is
\* only ever set under the finalizer.
StoredInOrder(object) ==
    /\ 0 < object.gen /\ object.active <= object.gen
    /\ object.active # 0 => object.fin
    /\ object.deleting => object.fin /\ object.active # object.gen

StoreInOrder == \A p \in Policies : Exists(policy[p]) => StoredInOrder(policy[p])

\* The cached copy is no newer than the store: an object that changes again
\* is unlike it for the predicate.
CacheBehind(p) ==
    /\ cache[p].deleting => cache[p].fin
    /\ Exists(policy[p]) /\ policy[p].uid = cache[p].uid => cache[p].gen <= policy[p].gen

\* The worker passes over policies that are being deleted, and a peer that
\* comes or goes while it is at work puts its key in the queue again.
WorkerWoken ==
    pc # "idle" =>
        /\ ~pol.deleting
        /\ Known(snap) # Known(peerCache) => key \in queue \/ Wakes(cache[key], policy[key])

Watch ==
    /\ \A p \in Policies : Exists(cache[p]) => CacheBehind(p)
    /\ WorkerWoken

\* The policy has what the operator can know of it, or was forgotten when its
\* finalizer was added.
AtRest(p) ==
    \/ policy[p].fin /\ ~policy[p].deleting /\ policy[p].active = 0
    \/ policy[p].active = policy[p].gen /\ policy[p].dests = Known(peerCache)

WakeInv ==
    /\ StoreInOrder
    /\ Watch
    /\ \A p \in Policies : Exists(policy[p]) => Pending(p) \/ AtRest(p)

-----------------------------------------------------------------------------
\* The store's side of a step: versions, uids and generations grow.
Grows(p) ==
    /\ policyVer[p] <= policyVer'[p]
    /\ Exists(policy'[p]) =>
        \/ /\ Exists(policy[p])
           /\ policy'[p].uid = policy[p].uid
           /\ policy[p].gen <= policy'[p].gen
        \/ policy'[p].uid = policyVer[p] + 1

\* The step leaves p to come, at rest, or as it was.
Handles(p) ==
    \/ Pending(p)'
    \/ AtRest(p)'
    \/ UNCHANGED <<policy[p], peerCache>> /\ ~Pending(p)

-----------------------------------------------------------------------------
(***************************************************************************)
(* How the store and the cached copies move.                               *)
(***************************************************************************)

\* The versions of a policy key are handed out in order.
LEMMA VersionGrows ==
    ASSUME TypeOK, [Next]_vars, NEW p \in Policies
    PROVE  policyVer[p] <= policyVer'[p]
<1> USE DEF TypeOK, ApiTypeOK
<1>1. ASSUME NEW r \in Policies, policyVer' = [policyVer EXCEPT ![r] = @ + 1]
      PROVE  policyVer[p] <= policyVer'[p]
  BY <1>1
<1>2. UNCHANGED policyVer => policyVer[p] <= policyVer'[p]
  OBVIOUS
<1>3. CASE Environment
  BY <1>1, <1>2, <1>3 DEF Environment, UserStep, CreatePolicy, EditPolicy, DeletePolicy, PutPeer,
     RemovePeer, RotatePaths, StorePolicy, ErasePolicy
<1>4. CASE (\E n \in Names : Collect(n)) \/ Deliver \/ Resync \/ PodStep \/ Fault \/ UNCHANGED vars
  BY <1>2, <1>4 DEF Collect, CollectPath, Deliver, DeliverPolicy, DeliverPeer, DeliverPath, Resync,
     PodStep, PodAddressed, PodDeleted, Fault, FetchNotReady, TransientError, Restart, vars, apiVars
<1>5. CASE \E r \in Policies : Start(r)
  BY <1>1, <1>2, <1>5 DEF Start, NothingToDo, RemoveFinalizer, AddFinalizer, ListPeers,
     StorePolicy, ErasePolicy, apiVars
<1>6. CASE Visit
  <2>1. MarkActive => key \in Policies
    BY DEF MarkActive
  <2> QED
    BY <1>1, <1>2, <1>6, <2>1 DEF Visit, FetchReady, FetchPanics, CreatePath, KeepPath, UpdatePath,
       Published, PublishRefused, AwaitPaths, MarkActive, StatusRefused, StorePolicy, apiVars
<1> QED
  BY <1>3, <1>4, <1>5, <1>6 DEF Next

\* A policy keeps its incarnation and never falls back to an earlier
\* generation, or it is created with a uid that nothing has seen.
LEMMA StepGrows ==
    ASSUME View, [Next]_vars, NEW p \in Policies
    PROVE  Grows(p)
<1>1. TypeOK /\ TrueCopies
  BY ViewIsTrue
<1>2. Exists(policy[p]) => policy[p].gen \in Nat
  BY <1>1 DEF TypeOK, ApiTypeOK, PolicyObj, Exists
<1> SUFFICES ASSUME Exists(policy'[p])
             PROVE  \/ /\ Exists(policy[p])
                       /\ policy'[p].uid = policy[p].uid
                       /\ policy[p].gen <= policy'[p].gen
                    \/ policy'[p].uid = policyVer[p] + 1
  BY <1>1, VersionGrows DEF Grows
<1>3. CASE policy'[p] = policy[p]
  BY <1>2, <1>3
<1>4. CASE policy'[p] # policy[p]
  <2>1. CASE \E f \in Prefs \cup {NoPref} : CreatePolicy(p, f) \/ EditPolicy(p, f)
    BY <1>1, <1>2, <2>1, CreateStores, EditStores
  <2>2. CASE DeletePolicy(p)
    BY <1>1, <1>2, <2>2, DeleteStores
  <2>3. CASE RemoveFinalizer(p)
    BY <1>1, <2>3, RemoveFinalizerStores
  <2>4. CASE AddFinalizer(p)
    BY <1>1, <1>2, <2>4, AddFinalizerStores
  <2>5. CASE MarkActive /\ p = key
    BY <1>1, <1>2, <2>5, MarkActiveStores
  <2> QED
    BY <1>1, <1>4, <2>1, <2>2, <2>3, <2>4, <2>5, PolicyWrites
<1> QED
  BY <1>3, <1>4

\* The stored objects stay in order.
LEMMA OrderStays ==
    ASSUME View, StoreInOrder, Watch, [Next]_vars
    PROVE  StoreInOrder'
<1>1. TypeOK /\ TrueCopies
  BY ViewIsTrue
<1> SUFFICES ASSUME NEW p \in Policies, Exists(policy'[p])
             PROVE  StoredInOrder(policy'[p])
  BY DEF StoreInOrder, Exists
<1>2. Exists(policy[p]) =>
        policy[p].gen \in Nat /\ policy[p].active \in Nat /\ StoredInOrder(policy[p])
  BY <1>1 DEF TypeOK, ApiTypeOK, PolicyObj, Exists, StoreInOrder
<1>3. CASE policy'[p] = policy[p]
  BY <1>2, <1>3
<1>4. CASE policy'[p] # policy[p]
  <2>1. ASSUME NEW f \in Prefs \cup {NoPref}, CreatePolicy(p, f)
        PROVE  StoredInOrder(policy'[p])
    BY <1>1, <2>1, CreateStores DEF StoredInOrder
  <2>2. ASSUME NEW f \in Prefs \cup {NoPref}, EditPolicy(p, f)
        PROVE  StoredInOrder(policy'[p])
    BY <1>1, <1>2, <2>2, EditStores DEF StoredInOrder
  <2>3. CASE DeletePolicy(p)
    BY <1>1, <1>2, <2>3, DeleteStores DEF StoredInOrder
  <2>4. CASE RemoveFinalizer(p)
    BY <1>1, <2>4, RemoveFinalizerStores
  <2>5. CASE AddFinalizer(p)
    BY <1>1, <1>2, <2>5, AddFinalizerStores DEF StoredInOrder
  <2>6. CASE MarkActive /\ p = key
    <3>1. pol.fin /\ ~pol.deleting
      BY <2>6 DEF MarkActive, View, Watch, WorkerWoken
    <3>2. /\ policy'[p].active = policy'[p].gen /\ policy'[p].gen = policy[p].gen
          /\ policy'[p].fin /\ ~policy'[p].deleting /\ Exists(policy[p])
      BY <1>1, <2>6, <3>1, MarkActiveStores
    <3> QED
      BY <1>2, <3>2 DEF StoredInOrder
  <2> QED
    BY <1>1, <1>4, <2>1, <2>2, <2>3, <2>4, <2>5, <2>6, PolicyWrites
<1> QED
  BY <1>3, <1>4

\* A cached copy stays what it is, or becomes the stored object while nothing
\* is written.
LEMMA CacheWrites ==
    ASSUME TypeOK, [Next]_vars, NEW p \in Policies
    PROVE  \/ cache'[p] = cache[p]
           \/ cache'[p] = policy[p] /\ UNCHANGED <<policy, policyVer>>
<1>1. CASE Environment \/ (\E n \in Names : Collect(n)) \/ Resync \/ PodStep \/ UNCHANGED vars
  BY <1>1 DEF Environment, operatorVars, Collect, Resync, PodStep, PodAddressed, PodDeleted, vars,
     informers
<1>2. CASE Deliver
  BY <1>2 DEF Deliver, DeliverPolicy, DeliverPeer, DeliverPath, apiVars, TypeOK
<1>3. CASE \E r \in Policies : Start(r)
  BY <1>3 DEF Start, NothingToDo, RemoveFinalizer, AddFinalizer, ListPeers, informers
<1>4. CASE Visit
  BY <1>4 DEF Visit, FetchReady, FetchPanics, CreatePath, KeepPath, UpdatePath, Published,
     PublishRefused, AwaitPaths, MarkActive, StatusRefused, informers
<1>5. CASE Fault
  BY <1>5 DEF Fault, FetchNotReady, TransientError, Restart, informers
<1> QED
  BY <1>1, <1>2, <1>3, <1>4, <1>5 DEF Next

\* A copy that stays where it is stays behind a store that grows, and what
\* the predicate was to let through it still does.
LEMMA BehindStays ==
    ASSUME View, TypeOK', NEW p \in Policies, Grows(p), UNCHANGED cache[p],
           Exists(cache[p]) => CacheBehind(p)
    PROVE  /\ Exists(cache[p]) => CacheBehind(p)'
           /\ Wakes(cache[p], policy[p]) => Wakes(cache[p], policy[p])'
<1> USE DEF Exists
<1>1. policyVer[p] \in Nat
  BY DEF View, TypeOK, ApiTypeOK
<1>2. Exists(policy[p]) => policy[p].gen \in Nat /\ policy[p].uid \in Nat
  BY DEF View, TypeOK, ApiTypeOK, PolicyObj
<1>3. Exists(policy'[p]) => policy'[p].gen \in Nat /\ policy'[p].uid \in Nat
  BY DEF TypeOK, ApiTypeOK, PolicyObj
<1>4. CASE ~Exists(cache[p])
  BY <1>4 DEF Wakes
<1>5. CASE Exists(cache[p])
  <2>1. /\ cache[p].gen \in Nat /\ cache[p].uid \in Nat /\ cache[p].uid <= policyVer[p]
        /\ CacheBehind(p)
    BY <1>5 DEF View, TypeOK, PolicyObj, SharedCopy
  <2>2. cache[p].uid # policyVer[p] + 1
    BY <1>1, <2>1
  <2>3. CASE ~Exists(policy'[p])
    BY <2>1, <2>3 DEF CacheBehind, Wakes
  <2>4. CASE Exists(policy'[p]) /\ policy'[p].uid # cache[p].uid
    BY <2>1, <2>4 DEF CacheBehind, Wakes
  <2>5. CASE Exists(policy'[p]) /\ policy'[p].uid = cache[p].uid
    <3>1. /\ Exists(policy[p]) /\ policy[p].uid = cache[p].uid
          /\ policy[p].gen <= policy'[p].gen
      BY <2>2, <2>5 DEF Grows
    <3>2. cache[p].gen <= policy[p].gen
      BY <2>1, <3>1 DEF CacheBehind
    <3>3. cache[p].gen <= policy'[p].gen
      BY <1>2, <1>3, <2>1, <2>5, <3>1, <3>2
    <3>4. cache[p].gen # policy[p].gen => cache[p].gen # policy'[p].gen
      BY <1>2, <1>3, <2>1, <2>5, <3>1, <3>2
    <3> QED
      BY <2>1, <2>5, <3>1, <3>3, <3>4 DEF CacheBehind, Wakes
  <2> QED
    BY <2>3, <2>4, <2>5
<1> QED
  BY <1>4, <1>5

\* So every copy stays behind the store, a fresh one included.
LEMMA CopiesStayBehind ==
    ASSUME View, StoreInOrder, Watch, [Next]_vars, NEW p \in Policies, Exists(cache'[p])
    PROVE  CacheBehind(p)'
<1>1. TypeOK /\ TypeOK' /\ Grows(p)
  BY TypeNext, StepGrows DEF View
<1>2. CASE cache'[p] = policy[p] /\ UNCHANGED <<policy, policyVer>>
  <2>1. Exists(policy[p]) /\ policy[p].gen \in Nat
    BY <1>1, <1>2 DEF TypeOK, ApiTypeOK, PolicyObj, Exists
  <2> QED
    BY <1>2, <2>1 DEF CacheBehind, StoreInOrder, StoredInOrder
<1>3. CASE cache'[p] = cache[p]
  BY <1>1, <1>3, BehindStays DEF Watch, Exists
<1> QED
  BY <1>1, <1>2, <1>3, CacheWrites

-----------------------------------------------------------------------------
(***************************************************************************)
(* Every step handles every policy.                                        *)
(***************************************************************************)

\* A user's write of a policy passes the predicate, however late its cached
\* copy is.
LEMMA UserWakes ==
    ASSUME View, Watch, NEW p \in Policies, Exists(policy'[p]),
           \/ \E f \in Prefs \cup {NoPref} : CreatePolicy(p, f) \/ EditPolicy(p, f)
           \/ DeletePolicy(p)
    PROVE  Wakes(cache[p], policy'[p])
<1>1. TypeOK /\ policyVer[p] \in Nat
  BY DEF View, TypeOK, ApiTypeOK
<1> SUFFICES ASSUME Exists(cache[p])
             PROVE  cache[p].uid # policy'[p].uid \/ cache[p].gen # policy'[p].gen
  BY DEF Wakes
<1>2. /\ CacheBehind(p) /\ cache[p].uid \in Nat /\ cache[p].gen \in Nat
      /\ cache[p].uid <= policyVer[p]
  BY <1>1 DEF Watch, View, SharedCopy, TypeOK, PolicyObj, Exists
<1>3. ASSUME NEW f \in Prefs \cup {NoPref}, CreatePolicy(p, f)
      PROVE  cache[p].uid # policy'[p].uid
  BY <1>1, <1>2, <1>3, CreateStores
<1>4. ASSUME Exists(policy[p]), policy'[p].uid = policy[p].uid,
             policy'[p].gen = policy[p].gen + 1
      PROVE  cache[p].uid # policy'[p].uid \/ cache[p].gen # policy'[p].gen
  <2>1. policy[p].gen \in Nat
    BY <1>1, <1>4 DEF TypeOK, ApiTypeOK, PolicyObj, Exists
  <2> QED
    BY <1>2, <1>4, <2>1 DEF CacheBehind
<1>5. ASSUME NEW f \in Prefs \cup {NoPref}, EditPolicy(p, f)
      PROVE  cache[p].uid # policy'[p].uid \/ cache[p].gen # policy'[p].gen
  BY <1>1, <1>4, <1>5, EditStores
<1>6. ASSUME DeletePolicy(p)
      PROVE  cache[p].uid # policy'[p].uid \/ cache[p].gen # policy'[p].gen
  BY <1>1, <1>4, <1>6, DeleteStores
<1> QED
  BY <1>3, <1>5, <1>6

\* A step that neither writes the policy nor tells the operator anything
\* handles it, if it leaves its key in the queue or with the worker.
LEMMA UntouchedIsHandled ==
    ASSUME NEW p \in Policies, UNCHANGED <<policy[p], cache[p], peerCache>>,
           p \in queue \/ p = key => p \in queue' \/ p = key'
    PROVE  Handles(p)
BY DEF Handles, Pending, Wakes, Exists

\* The step of an environment that the operator does not see.
LEMMA EnvironmentHandles ==
    ASSUME View, Watch, Environment, NEW p \in Policies, Exists(policy'[p])
    PROVE  Handles(p)
<1>1. UNCHANGED <<pc, queue, key, cache, peerCache>>
  BY DEF Environment, operatorVars, informers, frame
<1>2. CASE policy'[p] = policy[p]
  BY <1>1, <1>2, UntouchedIsHandled
<1>3. CASE policy'[p] # policy[p]
  <2>1. [Next]_vars /\ TypeOK
    BY DEF Next, View
  <2>2. ~RemoveFinalizer(p) /\ ~AddFinalizer(p)
    BY <1>1 DEF RemoveFinalizer, AddFinalizer, Take
  <2>3. ~(MarkActive /\ p = key)
    BY <1>1, AbsentAssumption DEF MarkActive, Idle
  <2>4. Wakes(cache[p], policy'[p])
    BY <1>3, <2>1, <2>2, <2>3, PolicyWrites, UserWakes
  <2> QED
    BY <1>1, <2>4 DEF Handles, Pending, Wakes, Exists
<1> QED
  BY <1>2, <1>3

\* What an informer delivers.
LEMMA DeliverHandles ==
    ASSUME View, Deliver, NEW p \in Policies
    PROVE  Handles(p)
<1>1. UNCHANGED policy /\ key' = key /\ queue \subseteq queue'
  BY DEF Deliver, DeliverPolicy, DeliverPeer, DeliverPath, apiVars, frame
<1>2. ASSUME NEW r \in Policies, DeliverPolicy(r), r # p
      PROVE  Handles(p)
  BY <1>1, <1>2, UntouchedIsHandled DEF DeliverPolicy, View, TypeOK
<1>3. CASE DeliverPolicy(p)
  <2>1. CASE Wakes(cache[p], policy[p])
    BY <1>3, <2>1 DEF DeliverPolicy, Handles, Pending
  <2>2. CASE ~Wakes(cache[p], policy[p])
    BY <1>1, <1>3, <2>2 DEF DeliverPolicy, Handles, Pending
  <2> QED
    BY <2>1, <2>2
<1>4. ASSUME NEW q \in Peers, DeliverPeer(q)
      PROVE  Handles(p)
  <2>1. CASE Exists(cache[p])
    BY <1>4, <2>1 DEF DeliverPeer, Handles, Pending, Known, View, TypeOK
  <2>2. CASE ~Exists(cache[p])
    BY <1>4, <2>2 DEF DeliverPeer, Handles, Pending, Wakes, Exists
  <2> QED
    BY <2>1, <2>2
<1>5. ASSUME NEW n \in Names, DeliverPath(n)
      PROVE  Handles(p)
  BY <1>1, <1>5, UntouchedIsHandled DEF DeliverPath
<1> QED
  BY <1>2, <1>3, <1>4, <1>5 DEF Deliver

\* A reconcile that begins, and one that ends with its first update.
LEMMA StartHandles ==
    ASSUME View, StoreInOrder, Watch, NEW r \in Policies, Start(r),
           NEW p \in Policies, Exists(policy'[p])
    PROVE  Handles(p)
<1>1. /\ key = Absent /\ key # p
      /\ UNCHANGED <<cache, peerCache>>
      /\ queue' = queue \ {r}
  BY AbsentAssumption DEF Start, NothingToDo, RemoveFinalizer, AddFinalizer, ListPeers, Take,
     informers, View, TypeOK
<1>2. TypeOK /\ TrueCopies
  BY ViewIsTrue
<1>3. CASE r # p
  <2>1. policy'[p] = policy[p]
    BY <1>2, <1>3, AddFinalizerStores, RemoveFinalizerStores
       DEF Start, NothingToDo, ListPeers, apiVars
  <2> QED
    BY <1>1, <1>3, <2>1, UntouchedIsHandled
<1>4. CASE r = p
  <2>1. CASE NothingToDo(p)
    <3>1. ~Exists(cache[p])
      BY <2>1 DEF NothingToDo, Watch, CacheBehind
    <3> QED
      BY <1>1, <3>1 DEF Handles, Pending, Wakes, Exists
  <2>2. CASE RemoveFinalizer(p)
    BY <1>2, <2>2, RemoveFinalizerStores
  <2>3. CASE AddFinalizer(p)
    <3>1. policy[p].active = 0
      BY <1>2, <2>3, AddFinalizerStores DEF StoreInOrder, StoredInOrder
    <3> QED
      BY <1>2, <2>3, <3>1, AddFinalizerStores DEF Handles, AtRest
  <2>4. CASE ListPeers(p)
    BY <2>4 DEF ListPeers, Handles, Pending
  <2> QED
    BY <1>4, <2>1, <2>2, <2>3, <2>4 DEF Start
<1> QED
  BY <1>3, <1>4

\* The worker's steps up to the status update.
LEMMA VisitHandles ==
    ASSUME View, TypeOK', Watch, Visit, NEW p \in Policies
    PROVE  Handles(p)
<1>1. UNCHANGED <<cache, peerCache>>
  BY DEF Visit, FetchReady, FetchPanics, CreatePath, KeepPath, UpdatePath, Published,
     PublishRefused, AwaitPaths, MarkActive, StatusRefused, informers
<1>2. CASE ~MarkActive
  <2>1. /\ UNCHANGED policy
        /\ \/ UNCHANGED <<queue, key>>
           \/ queue' = queue \cup {key}
    BY <1>2 DEF Visit, FetchReady, FetchPanics, CreatePath, KeepPath, UpdatePath, Published,
       PublishRefused, AwaitPaths, StatusRefused, Retry, apiVars
  <2> QED
    BY <1>1, <2>1, UntouchedIsHandled
<1>3. CASE MarkActive
  <2>1. TypeOK /\ TrueCopies /\ queue' = queue
    BY <1>3, ViewIsTrue DEF MarkActive
  <2>2. CASE p # key
    <3>1. policy'[p] = policy[p]
      BY <1>3, <2>1, <2>2, MarkActiveStores
    <3> QED
      BY <1>1, <2>1, <2>2, <3>1, UntouchedIsHandled
  <2>3. CASE p = key
    <3>1. /\ policy'[p].active = policy'[p].gen /\ policy'[p].dests = Known(snap)
          /\ Exists(policy[p]) /\ Exists(policy'[p])
          /\ policy'[p].uid = policy[p].uid /\ policy'[p].gen = policy[p].gen
      BY <1>3, <2>1, <2>3, MarkActiveStores
    <3>2. CASE Known(snap) = Known(peerCache)
      BY <1>1, <3>1, <3>2 DEF Handles, AtRest, Known
    <3>3. CASE p \in queue
      BY <2>1, <3>3 DEF Handles, Pending
    <3>4. CASE Wakes(cache[p], policy[p])
      BY <1>1, <3>1, <3>4 DEF Handles, Pending, Wakes, Exists
    <3> QED
      BY <1>3, <2>3, <3>2, <3>3, <3>4 DEF Watch, WorkerWoken, MarkActive
  <2> QED
    BY <2>2, <2>3
<1> QED
  BY <1>2, <1>3

\* Faults: what fails is called again, and a new process finds every policy.
LEMMA FaultHandles ==
    ASSUME View, Fault, NEW p \in Policies, Exists(policy'[p])
    PROVE  Handles(p)
<1>1. UNCHANGED policy
  BY DEF Fault, FetchNotReady, TransientError, Restart
<1>2. CASE Restart
  BY <1>1, <1>2 DEF Restart, Handles, Pending, Known, View, TypeOK, ApiTypeOK
<1>3. CASE TransientError \/ \E q \in Peers : FetchNotReady(q)
  <2>1. /\ UNCHANGED <<cache, peerCache>>
        /\ \/ UNCHANGED <<queue, key>>
           \/ queue' = queue \cup {key}
    BY <1>3 DEF FetchNotReady, TransientError, Retry, informers
  <2> QED
    BY <1>1, <2>1, UntouchedIsHandled
<1> QED
  BY <1>2, <1>3 DEF Fault

\* All of them.
LEMMA StepHandles ==
    ASSUME View, StoreInOrder, Watch, [Next]_vars, NEW p \in Policies, Exists(policy'[p])
    PROVE  Handles(p)
<1>1. CASE \/ \E n \in Names : Collect(n)
           \/ Resync \/ PodStep \/ UNCHANGED vars
  <2>1. /\ UNCHANGED <<policy, cache, peerCache, key>>
        /\ queue \subseteq queue'
    BY <1>1 DEF Collect, CollectPath, operatorVars, Resync, PodStep, PodAddressed, PodDeleted,
       vars, apiVars, informers, frame
  <2> QED
    BY <2>1, UntouchedIsHandled
<1>2. TypeOK'
  BY TypeNext DEF View
<1> QED
  BY <1>1, <1>2, EnvironmentHandles, DeliverHandles, StartHandles, VisitHandles, FaultHandles
     DEF Next

-----------------------------------------------------------------------------
(***************************************************************************)
(* Rely and guarantee.                                                     *)
(***************************************************************************)

\* A peer that the pass has not listed puts the key in the queue again, or
\* the policy itself is on its way to the operator.
LEMMA WorkerStaysWoken ==
    ASSUME View, Watch, [Next]_vars
    PROVE  WorkerWoken'
<1>1. TypeOK /\ TypeOK'
  BY TypeNext DEF View
<1> SUFFICES ASSUME pc' # "idle"
             PROVE  /\ ~pol'.deleting
                    /\ Known(snap') # Known(peerCache') =>
                            key' \in queue' \/ Wakes(cache'[key'], policy'[key'])
  BY DEF WorkerWoken, Known, Wakes, Exists
<1>2. CASE pc = "idle"
  <2>1. PICK r \in Policies : ListPeers(r)
    BY <1>2, AbsentAssumption
       DEF Next, Environment, operatorVars, Collect, Deliver, DeliverPolicy, DeliverPeer,
       DeliverPath, Resync, PodStep, PodAddressed, PodDeleted, Start, NothingToDo, RemoveFinalizer,
       AddFinalizer, Visit, FetchReady, FetchPanics, CreatePath, KeepPath, UpdatePath,
       PublishRefused, AwaitPaths, MarkActive, StatusRefused, Fault, FetchNotReady,
       TransientError, Restart, Retry, Idle, vars
  <2> QED
    BY <2>1 DEF ListPeers, informers
<1>3. CASE pc # "idle"
  <2>1. /\ key \in Policies /\ ~pol.deleting
        /\ \/ Known(snap) = Known(peerCache)
           \/ key \in queue \/ Wakes(cache[key], policy[key])
    BY <1>1, <1>3 DEF Watch, WorkerWoken, TypeOK
  <2>2. /\ UNCHANGED <<key, pol, snap>> /\ queue \subseteq queue'
        /\ \/ UNCHANGED peerCache
           \/ queue' = queue \cup Known(cache) /\ UNCHANGED cache
    BY <1>3 DEF Next, Environment, operatorVars, Collect, Deliver, DeliverPolicy, DeliverPeer,
       DeliverPath, Resync, PodStep, PodAddressed, PodDeleted, Start, Take, NothingToDo,
       RemoveFinalizer, AddFinalizer, ListPeers, Visit, FetchReady, FetchPanics, CreatePath,
       KeepPath, UpdatePath, Published, PublishRefused, AwaitPaths, MarkActive, StatusRefused,
       Fault, FetchNotReady, TransientError, Restart, Retry, Idle, vars, informers, frame
  <2>3. Wakes(cache[key], policy[key]) => key \in queue' \/ Wakes(cache'[key], policy'[key])
    <3>1. CASE cache'[key] = cache[key]
      BY <1>1, <2>1, <3>1, StepGrows, BehindStays DEF Watch, Wakes, Exists
    <3>2. CASE cache'[key] # cache[key]
      <4>1. DeliverPolicy(key)
        BY <1>3, <3>2 DEF Next, Environment, operatorVars, Collect, Deliver, DeliverPolicy,
           DeliverPeer, DeliverPath, Resync, PodStep, PodAddressed, PodDeleted, Start, Take,
           NothingToDo, RemoveFinalizer, AddFinalizer, ListPeers, Visit, FetchReady, FetchPanics,
           CreatePath, KeepPath, UpdatePath, Published, PublishRefused, AwaitPaths, MarkActive,
           StatusRefused, Fault, FetchNotReady, TransientError, Restart, Retry, Idle, vars,
           informers, View, TypeOK
      <4> QED
        BY <4>1 DEF DeliverPolicy
    <3> QED
      BY <3>1, <3>2
  <2>4. CASE UNCHANGED peerCache
    BY <2>1, <2>2, <2>3, <2>4 DEF Known
  <2>5. CASE queue' = queue \cup Known(cache) /\ UNCHANGED cache
    <3>1. CASE Exists(cache[key])
      BY <1>1, <2>1, <2>2, <2>5, <3>1 DEF Known, TypeOK
    <3>2. CASE ~Exists(cache[key])
      BY <2>1, <2>2, <2>5, <3>2 DEF Wakes, Exists
    <3> QED
      BY <3>1, <3>2
  <2> QED
    BY <2>2, <2>4, <2>5
<1> QED
  BY <1>2, <1>3

\* The operator's own step: it goes on watching.
LEMMA WatchNext ==
    ASSUME View, StoreInOrder, Watch, [Next]_vars
    PROVE  Watch'
BY CopiesStayBehind, WorkerStaysWoken DEF Watch, Exists

\* The step of another: what was on its way to the operator still is.
LEMMA WatchStays ==
    ASSUME View, TypeOK', Watch, \A p \in Policies : Grows(p), UNCHANGED operatorVars
    PROVE  /\ Watch'
           /\ \A p \in Policies : Pending(p) => Pending(p)'
<1>1. UNCHANGED <<pc, key, pol, snap, cache, peerCache, queue>>
  BY DEF operatorVars, informers, frame
<1>2. \A p \in Policies : Exists(cache[p]) => CacheBehind(p)
  BY DEF Watch
<1>3. \A p \in Policies : /\ Exists(cache[p]) => CacheBehind(p)'
                          /\ Wakes(cache[p], policy[p]) => Wakes(cache[p], policy[p])'
  BY <1>1, <1>2, BehindStays
<1>4. \A p \in Policies : Pending(p) => Pending(p)'
  BY <1>1, <1>3 DEF Pending
<1>5. pc # "idle" => key \in Policies
  BY DEF View, TypeOK
<1>6. WorkerWoken'
  BY <1>1, <1>3, <1>5 DEF Watch, WorkerWoken, Known
<1> QED
  BY <1>1, <1>3, <1>4, <1>6 DEF Watch, Exists

-----------------------------------------------------------------------------
(***************************************************************************)
(* One operator.                                                           *)
(***************************************************************************)

\* Nothing is cached before anything exists.
LEMMA WakeInvInit == Init => WakeInv
BY DEF Init, ApiInit, WakeInv, StoreInOrder, Watch, WorkerWoken, Exists

\* Every step keeps the invariant.
LEMMA WakeInvNext ==
    ASSUME View, WakeInv, [Next]_vars
    PROVE  WakeInv'
<1>1. StoreInOrder' /\ Watch'
  BY OrderStays, WatchNext DEF WakeInv
<1>2. ASSUME NEW p \in Policies, Exists(policy'[p])
      PROVE  Pending(p)' \/ AtRest(p)'
  <2>1. CASE UNCHANGED <<policy[p], peerCache>> /\ ~Pending(p)
    BY <1>2, <2>1 DEF WakeInv, AtRest, Known
  <2> QED
    BY <1>2, <2>1, StepHandles DEF WakeInv, Handles
<1> QED
  BY <1>1, <1>2 DEF WakeInv, Exists

\* The operator's wake-ups, with what it knows.
THEOREM WakeUpsInvariance == Spec => [](View /\ OrderlyStore /\ WakeInv)
<1>1. Init => View /\ OrderlyStore /\ WakeInv
  BY ViewInit, WakeInvInit
<1>2. View /\ OrderlyStore /\ WakeInv /\ [Next]_vars => (View /\ OrderlyStore /\ WakeInv)'
  BY ViewNext, StepIsShared, WakeInvNext DEF SharedStep
<1> QED
  BY <1>1, <1>2, PTL DEF Spec

\* A policy the operator has nothing more to do with is settled, or waits
\* behind a finalizer just added; a deletion is never forgotten.
THEOREM NoWakeUpLost == Spec => []QuietIsSettled
<1>1. WakeInv => QuietIsSettled
  <2> SUFFICES ASSUME WakeInv, NEW p \in Policies, Exists(policy[p]), ~Pending(p)
               PROVE  /\ policy[p].fin /\ ~policy[p].deleting
                      /\ \/ policy[p].active = 0
                         \/ policy[p].active = policy[p].gen /\ policy[p].dests = Known(peerCache)
    BY DEF QuietIsSettled
  <2>1. StoredInOrder(policy[p]) /\ AtRest(p)
    BY DEF WakeInv, StoreInOrder
  <2> QED
    BY <2>1 DEF StoredInOrder, AtRest
<1> QED
  BY <1>1, WakeUpsInvariance, PTL

=============================================================================
