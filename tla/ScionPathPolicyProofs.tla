------------------------- MODULE ScionPathPolicyProofs -------------------------
(***************************************************************************)
(* Proofs about ScionPathPolicy, for every set of policies, peers and      *)
(* names and every bound on the moves of the environment.                  *)
(***************************************************************************)
EXTENDS ScionPathPolicy, TLAPS

-----------------------------------------------------------------------------
(***************************************************************************)
(* The inductive invariant behind the safety properties.                   *)
(***************************************************************************)

\* Versions and uids are handed out in order, so a new one is unlike all
\* that any copy or owner reference holds.
VersionsInOrder ==
    /\ \A p \in Policies : Exists(policy[p]) =>
            policy[p].rv <= policyVer[p] /\ policy[p].uid <= policyVer[p]
    /\ \A n \in Names : Exists(computed[n]) =>
            computed[n].rv <= pathVer[n] /\ computed[n].uid <= policyVer[computed[n].owner]

\* A copy with the store's version is the stored object, and a copy that is
\* ready to be reconciled has its incarnation still in the store.
GoodCopy(p, copy) ==
    /\ copy.rv <= policyVer[p]
    /\ Current(p, copy) => policy[p] = copy
    /\ copy.fin /\ ~copy.deleting =>
            /\ Exists(policy[p])
            /\ policy[p].uid = copy.uid
            /\ policy[p].fin

\* A cached path of a living owner is still that owner's in the store,
\* though perhaps with other hop fields.
GoodPathCopy(n, copy) ==
    /\ copy.rv <= pathVer[n]
    /\ copy.uid <= policyVer[copy.owner]
    /\ Exists(computed[n]) /\ computed[n].rv = copy.rv => computed[n] = copy
    /\ Exists(policy[copy.owner]) /\ policy[copy.owner].uid = copy.uid => OwnedBy(n, copy.owner)

GoodCaches ==
    /\ \A p \in Policies : Exists(cache[p]) => GoodCopy(p, cache[p])
    /\ \A n \in Names : Exists(pathCache[n]) => GoodPathCopy(n, pathCache[n])

\* The worker's copy holds the lock: GoodCopy makes it a live incarnation.
HoldsFinalizer == pc # "idle" => pol.fin /\ ~pol.deleting /\ GoodCopy(key, pol)

Visited == {q \in Known(snap) \ todo : pc = "publish" => q # fetched.peer}

\* While every answer was a path, what was visited is published.
VisitedArePublished ==
    pc # "idle" /\ allReady => \A q \in Visited : OwnedBy(PathName[<<key, q>>], key)

IndInv ==
    /\ TypeOK
    /\ VersionsInOrder
    /\ GoodCaches
    /\ HoldsFinalizer
    /\ VisitedArePublished
    /\ PublishedUnderFinalizer
    /\ ActivePathsOwned

-----------------------------------------------------------------------------
(***************************************************************************)
(* Type correctness.                                                       *)
(***************************************************************************)

\* Storing a policy, with its next version, keeps the store's types.
LEMMA StorePolicyType ==
    ASSUME policy \in [Policies -> PolicyObj \cup {Absent}],
           policyVer \in [Policies -> Nat],
           NEW p \in Policies, NEW object \in PolicyObj,
           StorePolicy(p, object)
    PROVE  /\ policy' \in [Policies -> PolicyObj \cup {Absent}]
           /\ policyVer' \in [Policies -> Nat]
BY DEF StorePolicy, PolicyObj

\* What is in the store then: the object, but for its version.
LEMMA StorePolicyStores ==
    ASSUME policy \in [Policies -> PolicyObj \cup {Absent}],
           policyVer \in [Policies -> Nat],
           NEW p \in Policies, NEW object \in PolicyObj,
           StorePolicy(p, object)
    PROVE  /\ policy'[p] \in PolicyObj
           /\ Exists(policy'[p])
           /\ policy'[p].rv = policyVer[p] + 1
           /\ policy'[p].uid = object.uid
           /\ policy'[p].gen = object.gen
           /\ policy'[p].pref = object.pref
           /\ policy'[p].deleting = object.deleting
           /\ policy'[p].fin = object.fin
           /\ policy'[p].active = object.active
           /\ policy'[p].dests = object.dests
           /\ policyVer' = [policyVer EXCEPT ![p] = @ + 1]
           /\ \A r \in Policies \ {p} : policy'[r] = policy[r]
<1>1. policy'[p] = [object EXCEPT !.rv = policyVer[p] + 1]
  BY DEF StorePolicy
<1>2. policyVer[p] + 1 \in Nat
  OBVIOUS
<1>3. policy'[p] \in PolicyObj
  BY <1>1, <1>2 DEF PolicyObj
<1>4. Exists(policy'[p])
  BY <1>3, AbsentAssumption DEF Exists
<1> QED
  BY <1>1, <1>3, <1>4 DEF PolicyObj, StorePolicy

\* Storing a path keeps the store's types.
LEMMA StorePathType ==
    ASSUME computed \in [Names -> PathObj \cup {Absent}],
           pathVer \in [Names -> Nat],
           NEW n \in Names, NEW object \in PathObj,
           StorePath(n, object)
    PROVE  /\ computed' \in [Names -> PathObj \cup {Absent}]
           /\ pathVer' \in [Names -> Nat]
BY DEF StorePath, PathObj

\* So does erasing a policy.
LEMMA ErasePolicyType ==
    ASSUME policy \in [Policies -> PolicyObj \cup {Absent}],
           policyVer \in [Policies -> Nat],
           NEW p \in Policies,
           ErasePolicy(p)
    PROVE  /\ policy' \in [Policies -> PolicyObj \cup {Absent}]
           /\ policyVer' \in [Policies -> Nat]
BY DEF ErasePolicy

\* What users change in a policy is of the policy's type again.
LEMMA EditedType ==
    ASSUME NEW object \in PolicyObj, NEW g \in Nat, NEW f \in Prefs \cup {NoPref}
    PROVE  [object EXCEPT !.gen = g, !.pref = f] \in PolicyObj
BY Zenon DEF PolicyObj

\* A policy with a deletion mark is a policy.
LEMMA RetiredType ==
    ASSUME NEW object \in PolicyObj, NEW g \in Nat
    PROVE  [object EXCEPT !.gen = g, !.deleting = TRUE] \in PolicyObj
BY Zenon DEF PolicyObj

\* Users keep the store's types.
LEMMA UserStepType ==
    ASSUME ApiTypeOK, UserStep
    PROVE  ApiTypeOK'
<1> USE DEF ApiTypeOK, Move, Exists
<1>1. ASSUME NEW p \in Policies, NEW f \in Prefs \cup {NoPref}, CreatePolicy(p, f)
      PROVE  ApiTypeOK'
  <2> DEFINE new == [uid |-> policyVer[p] + 1, rv |-> 0, gen |-> 1, pref |-> f,
                     deleting |-> FALSE, fin |-> FALSE, active |-> 0, dests |-> {}]
  <2>1. new \in PolicyObj
    BY DEF PolicyObj
  <2> QED
    BY <1>1, <2>1, StorePolicyType DEF CreatePolicy
<1>2. ASSUME NEW p \in Policies, NEW f \in Prefs \cup {NoPref}, EditPolicy(p, f)
      PROVE  ApiTypeOK'
  <2>1. [policy[p] EXCEPT !.gen = @ + 1, !.pref = f] \in PolicyObj
    <3>1. policy[p] \in PolicyObj /\ policy[p].gen + 1 \in Nat
      BY <1>2 DEF EditPolicy, PolicyObj
    <3> QED
      BY <3>1, EditedType
  <2> QED
    BY <1>2, <2>1, StorePolicyType DEF EditPolicy
<1>3. ASSUME NEW p \in Policies, DeletePolicy(p)
      PROVE  ApiTypeOK'
  <2>1. [policy[p] EXCEPT !.gen = @ + 1, !.deleting = TRUE] \in PolicyObj
    <3>1. policy[p] \in PolicyObj /\ policy[p].gen + 1 \in Nat
      BY <1>3 DEF DeletePolicy, PolicyObj
    <3> QED
      BY <3>1, RetiredType
  <2> QED
    BY <1>3, <2>1, StorePolicyType, ErasePolicyType DEF DeletePolicy
<1>4. ASSUME NEW q \in Peers, NEW c \in Clusters, PutPeer(q, c)
      PROVE  ApiTypeOK'
  BY <1>4 DEF PutPeer
<1>5. ASSUME NEW q \in Peers, RemovePeer(q)
      PROVE  ApiTypeOK'
  BY <1>5 DEF RemovePeer
<1> QED
  BY <1>1, <1>2, <1>3, <1>4, <1>5 DEF UserStep

\* A policy with the finalizer is a policy.
LEMMA GuardedType ==
    ASSUME NEW object \in PolicyObj
    PROVE  [object EXCEPT !.fin = TRUE] \in PolicyObj
BY Zenon DEF PolicyObj

\* A policy with another status is a policy.
LEMMA ActivatedType ==
    ASSUME NEW object \in PolicyObj, NEW a \in Nat, NEW peers \in SUBSET Peers
    PROVE  [object EXCEPT !.active = a, !.dests = peers] \in PolicyObj
BY Zenon DEF PolicyObj

\* Every action of the operator keeps the types.
LEMMA TypeInit == Init => TypeOK
BY DEF Init, ApiInit, TypeOK, ApiTypeOK, NoPeers

\* Every step keeps the types.
LEMMA TypeNext ==
    ASSUME TypeOK, [Next]_vars
    PROVE  TypeOK'
<1> USE DEF TypeOK, Exists
<1>1. CASE Environment
  <2>1. CASE UserStep
    BY <1>1, <2>1, UserStepType DEF Environment, operatorVars, informers, frame
  <2>2. CASE RotatePaths
    BY <1>1, <2>2 DEF Environment, operatorVars, informers, frame, RotatePaths, Move, ApiTypeOK
  <2> QED
    BY <1>1, <2>1, <2>2 DEF Environment
<1>2. ASSUME NEW n \in Names, Collect(n)
      PROVE  TypeOK'
  BY <1>2 DEF Collect, CollectPath, operatorVars, informers, frame, ApiTypeOK
<1>3. CASE Deliver
  BY <1>3 DEF Deliver, DeliverPolicy, DeliverPeer, DeliverPath, apiVars, frame, ApiTypeOK, Known
<1>4. CASE Resync
  BY <1>4 DEF Resync, apiVars, informers, frame, ApiTypeOK, Known
<1>5. ASSUME NEW d \in Pods, PodAddressed(d) \/ PodDeleted(d)
      PROVE  TypeOK'
  <2>1. PodPolicies(d, cache) \subseteq Policies
    BY SelectsAssumption, DefaultPolicyAssumption DEF PodPolicies
  <2> QED
    BY <1>5, <2>1 DEF PodAddressed, PodDeleted, apiVars, informers, frame, ApiTypeOK
<1>6. ASSUME NEW p \in Policies, Start(p)
      PROVE  TypeOK'
  <2>1. CASE NothingToDo(p)
    BY <2>1 DEF NothingToDo, apiVars, informers, frame, ApiTypeOK
  <2>2. CASE RemoveFinalizer(p)
    BY <2>2, ErasePolicyType DEF RemoveFinalizer, informers, frame, ApiTypeOK
  <2>3. CASE AddFinalizer(p)
    <3>1. [cache[p] EXCEPT !.fin = TRUE] \in PolicyObj
      BY <2>3, GuardedType DEF AddFinalizer
    <3> QED
      BY <2>3, <3>1, StorePolicyType DEF AddFinalizer, informers, frame, ApiTypeOK
  <2>4. CASE ListPeers(p)
    <3>1. /\ todo' \subseteq {q \in Peers : Exists(snap'[q])}
          /\ snap' \in [Peers -> Clusters \cup {Absent}]
      BY <2>4 DEF ListPeers, Known
    <3>2. ApiTypeOK' /\ pc' # "publish"
      BY <2>4 DEF ListPeers, apiVars, ApiTypeOK
    <3> QED
      BY <2>4, <3>1, <3>2 DEF ListPeers, Take, informers
  <2> QED
    BY <1>6, <2>1, <2>2, <2>3, <2>4 DEF Start
<1>7. ASSUME pc = "publish", NEW v \in Nat
      PROVE  Wanted(v) \in PathObj /\ Target \in Names
  BY <1>7, PathNameAssumption DEF Wanted, Target, PathObj, PolicyObj, Answer
<1>8. CASE Visit
  <2>1. ASSUME NEW q \in Peers, FetchReady(q)
        PROVE  TypeOK'
    BY <2>1 DEF FetchReady, Callable, Answer, apiVars, informers, ApiTypeOK, PolicyObj
  <2>2. CASE FetchPanics \/ PublishRefused \/ AwaitPaths \/ StatusRefused
    BY <2>2 DEF FetchPanics, PublishRefused, AwaitPaths, StatusRefused, Retry, Idle, NoPeers,
                apiVars, informers, ApiTypeOK
  <2>3. CASE CreatePath
    BY <2>3, <1>7, StorePathType DEF CreatePath, Published, informers, ApiTypeOK
  <2>4. CASE KeepPath
    BY <2>4 DEF KeepPath, Published, informers, ApiTypeOK
  <2>5. CASE UpdatePath
    BY <2>5, <1>7, StorePathType DEF UpdatePath, Published, informers, ApiTypeOK
  <2>6. CASE MarkActive
    <3>1. pol \in PolicyObj /\ pol.gen \in Nat /\ key \in Policies
      BY <2>6 DEF MarkActive, PolicyObj
    <3>2. Activated \in PolicyObj
      BY <3>1, ActivatedType DEF Activated, Known
    <3> QED
      BY <2>6, <3>1, <3>2, StorePolicyType DEF MarkActive, Idle, NoPeers, informers, ApiTypeOK
  <2> QED
    BY <1>8, <2>1, <2>2, <2>3, <2>4, <2>5, <2>6 DEF Visit
<1>9. CASE Fault
  <2>1. ASSUME NEW q \in Peers, FetchNotReady(q)
        PROVE  TypeOK'
    <3>1. todo' \subseteq {r \in Peers : Exists(snap'[r])}
      BY <2>1 DEF FetchNotReady
    <3>2. ApiTypeOK' /\ pc' # "publish"
      BY <2>1 DEF FetchNotReady, Move, ApiTypeOK
    <3> QED
      BY <2>1, <3>1, <3>2 DEF FetchNotReady, informers
  <2>2. CASE TransientError
    BY <2>2 DEF TransientError, Move, Retry, Idle, NoPeers, informers, ApiTypeOK
  <2>3. CASE Restart
    <3>1. \A d \in podUp : PodPolicies(d, policy) \subseteq Policies
      BY SelectsAssumption, DefaultPolicyAssumption DEF PodPolicies
    <3> QED
      BY <2>3, <3>1 DEF Restart, Move, Idle, NoPeers, Known, ApiTypeOK
  <2> QED
    BY <1>9, <2>1, <2>2, <2>3 DEF Fault
<1>10. CASE UNCHANGED vars
  BY <1>10 DEF vars, apiVars, informers, frame, ApiTypeOK
<1> QED
  BY <1>1, <1>2, <1>3, <1>4, <1>5, <1>6, <1>8, <1>9, <1>10 DEF Next, PodStep

\* Every variable of the operator and of the store keeps its type.
THEOREM TypeCorrect == Spec => []TypeOK
BY TypeInit, TypeNext, PTL DEF Spec

-----------------------------------------------------------------------------
(***************************************************************************)
(* Steps of the store.  Whatever a step writes, it keeps what the copies   *)
(* of the caches and of the worker rely on.                                *)
(***************************************************************************)

\* Good copies stay good, and an owned path stays owned as long as its owner
\* lives.
KeepsCopies ==
    /\ VersionsInOrder'
    /\ PublishedUnderFinalizer'
    /\ \A p \in Policies : \A copy \in PolicyObj : GoodCopy(p, copy) => GoodCopy(p, copy)'
    /\ \A n \in Names : \A copy \in PathObj : GoodPathCopy(n, copy) => GoodPathCopy(n, copy)'
    /\ \A n \in Names : \A p \in Policies :
            OwnedBy(n, p) /\ Exists(policy'[p]) => OwnedBy(n, p)'

\* A write to a policy that stays the incarnation it was.
RevisesPolicy(p) ==
    /\ Exists(policy[p]) /\ Exists(policy'[p])
    /\ policyVer' = [policyVer EXCEPT ![p] = @ + 1]
    /\ \A r \in Policies \ {p} : policy'[r] = policy[r]
    /\ policy'[p].rv = policyVer[p] + 1
    /\ policy'[p].uid = policy[p].uid
    /\ policy[p].fin => policy'[p].fin
    /\ UNCHANGED <<computed, pathVer>>

\* A revision within an incarnation makes copies old, never wrong.
LEMMA ReviseKeeps ==
    ASSUME TypeOK, TypeOK', VersionsInOrder, PublishedUnderFinalizer,
           NEW p \in Policies, RevisesPolicy(p)
    PROVE  KeepsCopies
<1> USE DEF TypeOK, ApiTypeOK, RevisesPolicy
<1>0. \A n \in Names, r \in Policies : OwnedBy(n, r)' <=> OwnedBy(n, r)
  BY DEF OwnedBy, Exists
<1>1. VersionsInOrder'
  BY DEF VersionsInOrder, Exists, PolicyObj, PathObj
<1>2. PublishedUnderFinalizer'
  BY <1>0 DEF PublishedUnderFinalizer, OwnedBy, Exists
<1>3. ASSUME NEW r \in Policies, NEW copy \in PolicyObj, GoodCopy(r, copy)
      PROVE  GoodCopy(r, copy)'
  BY <1>3 DEF GoodCopy, Current, Exists, PolicyObj
<1>4. ASSUME NEW n \in Names, NEW copy \in PathObj, GoodPathCopy(n, copy)
      PROVE  GoodPathCopy(n, copy)'
  BY <1>4 DEF GoodPathCopy, OwnedBy, Exists, PathObj, PolicyObj
<1> QED
  BY <1>0, <1>1, <1>2, <1>3, <1>4 DEF KeepsCopies

\* A step that leaves policies and computed paths alone.
LEMMA QuietKeeps ==
    ASSUME VersionsInOrder, PublishedUnderFinalizer,
           UNCHANGED <<policy, computed, policyVer, pathVer>>
    PROVE  KeepsCopies
BY DEF KeepsCopies, VersionsInOrder, PublishedUnderFinalizer, GoodCopy, Current, GoodPathCopy,
       OwnedBy, Exists

\* A new incarnation: its uid is younger than every owner reference.
LEMMA CreateKeeps ==
    ASSUME TypeOK, TypeOK', VersionsInOrder, PublishedUnderFinalizer,
           NEW p \in Policies, NEW f \in Prefs \cup {NoPref}, CreatePolicy(p, f)
    PROVE  KeepsCopies
<1> DEFINE new == [uid |-> policyVer[p] + 1, rv |-> 0, gen |-> 1, pref |-> f,
                   deleting |-> FALSE, fin |-> FALSE, active |-> 0, dests |-> {}]
<1> USE DEF TypeOK, ApiTypeOK
<1>a. new \in PolicyObj /\ new.uid = policyVer[p] + 1
  BY DEF PolicyObj
<1>b. StorePolicy(p, new) /\ UNCHANGED <<computed, pathVer>> /\ ~Exists(policy[p])
  BY DEF CreatePolicy
<1> HIDE DEF new
<1>0. /\ policy'[p] # Absent
      /\ policy'[p].uid = policyVer[p] + 1
      /\ policy'[p].rv = policyVer[p] + 1
      /\ policyVer' = [policyVer EXCEPT ![p] = @ + 1]
      /\ \A r \in Policies \ {p} : policy'[r] = policy[r]
      /\ UNCHANGED <<computed, pathVer>>
      /\ policy[p] = Absent
  BY <1>a, <1>b, StorePolicyStores DEF Exists
<1> USE <1>0 DEF OwnedBy, Exists
<1>1. \A n \in Names, r \in Policies : OwnedBy(n, r)' => OwnedBy(n, r) /\ r # p
  BY DEF VersionsInOrder, PathObj
<1>2. VersionsInOrder'
  BY DEF VersionsInOrder, PolicyObj, PathObj
<1>3. PublishedUnderFinalizer'
  <2>1. \A r \in Policies, n \in Names : OwnedBy(n, r)' => policy[r].fin /\ policy'[r] = policy[r]
    BY <1>1 DEF PublishedUnderFinalizer
  <2> QED
    BY <2>1 DEF PublishedUnderFinalizer
<1>4. ASSUME NEW r \in Policies, NEW copy \in PolicyObj, GoodCopy(r, copy)
      PROVE  GoodCopy(r, copy)'
  BY <1>4 DEF GoodCopy, Current, PolicyObj
<1>5. ASSUME NEW n \in Names, NEW copy \in PathObj, GoodPathCopy(n, copy)
      PROVE  GoodPathCopy(n, copy)'
  BY <1>5 DEF GoodPathCopy, PathObj, PolicyObj
<1>6. \A n \in Names, r \in Policies : OwnedBy(n, r) => OwnedBy(n, r)'
  OBVIOUS
<1> QED
  BY <1>2, <1>3, <1>4, <1>5, <1>6 DEF KeepsCopies

\* A policy that goes: the copies of it that were ready to be reconciled
\* would break, so there must be none.
LEMMA EraseKeeps ==
    ASSUME TypeOK, TypeOK', VersionsInOrder, PublishedUnderFinalizer,
           NEW p \in Policies, ErasePolicy(p), UNCHANGED <<computed, pathVer>>
    PROVE  /\ VersionsInOrder'
           /\ PublishedUnderFinalizer'
           /\ \A r \in Policies : \A copy \in PolicyObj :
                  GoodCopy(r, copy) /\ (copy.fin /\ ~copy.deleting => r # p) => GoodCopy(r, copy)'
           /\ \A n \in Names : \A copy \in PathObj : GoodPathCopy(n, copy) => GoodPathCopy(n, copy)'
           /\ \A n \in Names : \A r \in Policies :
                  OwnedBy(n, r) /\ Exists(policy'[r]) => OwnedBy(n, r)'
<1> USE DEF TypeOK, ApiTypeOK, ErasePolicy, Exists, OwnedBy
<1>1. VersionsInOrder'
  BY DEF VersionsInOrder, PolicyObj, PathObj
<1>2. PublishedUnderFinalizer'
  BY DEF PublishedUnderFinalizer
<1>3. ASSUME NEW r \in Policies, NEW copy \in PolicyObj, GoodCopy(r, copy),
             copy.fin /\ ~copy.deleting => r # p
      PROVE  GoodCopy(r, copy)'
  BY <1>3 DEF GoodCopy, Current, PolicyObj
<1>4. ASSUME NEW n \in Names, NEW copy \in PathObj, GoodPathCopy(n, copy)
      PROVE  GoodPathCopy(n, copy)'
  BY <1>4 DEF GoodPathCopy, PathObj, PolicyObj
<1>5. \A n \in Names, r \in Policies : OwnedBy(n, r) /\ Exists(policy'[r]) => OwnedBy(n, r)'
  OBVIOUS
<1> QED
  BY <1>1, <1>2, <1>3, <1>4, <1>5

\* The worker writes a path for the live incarnation of its key over nothing
\* or over a path of the same key.
LEMMA StorePathKeeps ==
    ASSUME TypeOK, TypeOK', VersionsInOrder, PublishedUnderFinalizer,
           NEW n \in Names, NEW object \in PathObj, StorePath(n, object),
           UNCHANGED <<policy, policyVer>>,
           Exists(policy[object.owner]),
           policy[object.owner].uid = object.uid,
           policy[object.owner].fin,
           Exists(computed[n]) => computed[n].owner = object.owner
    PROVE  /\ KeepsCopies
           /\ OwnedBy(n, object.owner)'
<1> USE DEF TypeOK, ApiTypeOK, StorePath, Exists
<1>0. /\ computed'[n] # Absent
      /\ computed'[n].rv = pathVer[n] + 1
      /\ computed'[n].owner = object.owner
      /\ computed'[n].uid = object.uid
      /\ \A m \in Names \ {n} : computed'[m] = computed[m]
      /\ pathVer' = [pathVer EXCEPT ![n] = @ + 1]
      /\ object.owner \in Policies
      /\ UNCHANGED <<policy, policyVer>>
  BY AbsentAssumption DEF PathObj
<1> USE <1>0
<1> USE DEF OwnedBy
<1>1. OwnedBy(n, object.owner)'
  OBVIOUS
<1>2. \A m \in Names, r \in Policies : OwnedBy(m, r) => OwnedBy(m, r)'
  OBVIOUS
<1>3. VersionsInOrder'
  BY DEF VersionsInOrder, PolicyObj, PathObj
<1>4. PublishedUnderFinalizer'
  BY DEF PublishedUnderFinalizer
<1>5. ASSUME NEW r \in Policies, NEW copy \in PolicyObj, GoodCopy(r, copy)
      PROVE  GoodCopy(r, copy)'
  BY <1>5 DEF GoodCopy, Current
<1>6. ASSUME NEW m \in Names, NEW copy \in PathObj, GoodPathCopy(m, copy)
      PROVE  GoodPathCopy(m, copy)'
  BY <1>6 DEF GoodPathCopy, PathObj
<1> QED
  BY <1>1, <1>2, <1>3, <1>4, <1>5, <1>6 DEF KeepsCopies

\* The garbage collector takes nothing that a living policy owns.
LEMMA CollectKeeps ==
    ASSUME TypeOK, TypeOK', VersionsInOrder, PublishedUnderFinalizer,
           NEW n \in Names, CollectPath(n)
    PROVE  KeepsCopies
<1> USE DEF TypeOK, ApiTypeOK, CollectPath, Exists, OwnedBy
<1>1. VersionsInOrder'
  BY DEF VersionsInOrder
<1>2. PublishedUnderFinalizer'
  BY DEF PublishedUnderFinalizer
<1>3. ASSUME NEW r \in Policies, NEW copy \in PolicyObj, GoodCopy(r, copy)
      PROVE  GoodCopy(r, copy)'
  BY <1>3 DEF GoodCopy, Current
<1>4. ASSUME NEW m \in Names, NEW copy \in PathObj, GoodPathCopy(m, copy)
      PROVE  GoodPathCopy(m, copy)'
  BY <1>4 DEF GoodPathCopy, PathObj
<1>5. \A m \in Names, r \in Policies : OwnedBy(m, r) => OwnedBy(m, r)'
  OBVIOUS
<1> QED
  BY <1>1, <1>2, <1>3, <1>4, <1>5 DEF KeepsCopies

-----------------------------------------------------------------------------
(***************************************************************************)
(* From the store to the operator: when the caches, or the worker too,     *)
(* stay as they are while the store moves.                                 *)
(***************************************************************************)

\* No living policy gets a new destination in its condition.
KeepsDests ==
    \A p \in Policies : Exists(policy'[p]) =>
        \A q \in policy'[p].dests : Exists(policy[p]) /\ q \in policy[p].dests

\* Caches that stay as they are stay good.
LEMMA CachesStay ==
    ASSUME TypeOK, GoodCaches, KeepsCopies, UNCHANGED <<cache, pathCache>>
    PROVE  GoodCaches'
<1>1. ASSUME NEW p \in Policies, Exists(cache[p])
      PROVE  GoodCopy(p, cache[p])'
  <2>1. cache[p] \in PolicyObj
    BY <1>1 DEF TypeOK, Exists
  <2>2. GoodCopy(p, cache[p])
    BY <1>1 DEF GoodCaches
  <2> QED
    BY <2>1, <2>2 DEF KeepsCopies, GoodCopy, Current
<1>2. ASSUME NEW n \in Names, Exists(pathCache[n])
      PROVE  GoodPathCopy(n, pathCache[n])'
  <2>1. pathCache[n] \in PathObj
    BY <1>2 DEF TypeOK, Exists
  <2>2. GoodPathCopy(n, pathCache[n])
    BY <1>2 DEF GoodCaches
  <2> QED
    BY <2>1, <2>2 DEF KeepsCopies, GoodPathCopy, OwnedBy
<1> QED
  BY <1>1, <1>2 DEF GoodCaches, Exists

\* The worker's lock holds while others write.
LEMMA LockStays ==
    ASSUME TypeOK, HoldsFinalizer, KeepsCopies, pc # "idle", UNCHANGED <<key, pol>>
    PROVE  HoldsFinalizer'
<1>1. pol \in PolicyObj /\ key \in Policies /\ GoodCopy(key, pol) /\ pol.fin /\ ~pol.deleting
  BY DEF TypeOK, HoldsFinalizer
<1>2. GoodCopy(key, pol)'
  BY <1>1 DEF KeepsCopies, GoodCopy, Current
<1> QED
  BY <1>1, <1>2 DEF HoldsFinalizer

\* The worker's policy is in the store, with its finalizer.
LEMMA LockedIsLive ==
    ASSUME TypeOK, HoldsFinalizer, pc # "idle"
    PROVE  /\ key \in Policies
           /\ pol \in PolicyObj
           /\ Exists(policy[key])
           /\ policy[key].uid = pol.uid
           /\ policy[key].fin
BY DEF TypeOK, HoldsFinalizer, GoodCopy

\* A policy that is Active for served destinations stays so.
LEMMA ActiveStays ==
    ASSUME TypeOK, ActivePathsOwned, KeepsCopies, KeepsDests
    PROVE  ActivePathsOwned'
<1> SUFFICES ASSUME NEW p \in Policies, Exists(policy'[p]), NEW q \in policy'[p].dests
             PROVE  OwnedBy(PathName[<<p, q>>], p)'
  BY DEF ActivePathsOwned, Exists
<1>1. q \in Peers /\ OwnedBy(PathName[<<p, q>>], p)
  BY DEF KeepsDests, ActivePathsOwned, TypeOK, ApiTypeOK, PolicyObj, Exists
<1>2. PathName[<<p, q>>] \in Names
  BY <1>1, PathNameAssumption
<1> QED
  BY <1>1, <1>2 DEF KeepsCopies, Exists

\* What the worker has published stays published.
LEMMA VisitedStay ==
    ASSUME TypeOK, HoldsFinalizer, HoldsFinalizer', TypeOK', VisitedArePublished, KeepsCopies,
           pc # "idle", pc' # "idle", UNCHANGED <<key, pol>>,
           allReady' => allReady,
           NEW q \in Visited, allReady'
    PROVE  OwnedBy(PathName[<<key, q>>], key)'
<1>1. q \in Peers
  BY DEF Visited, Known, TypeOK
<1>2. PathName[<<key, q>>] \in Names /\ key \in Policies
  BY <1>1, LockedIsLive, PathNameAssumption
<1>3. Exists(policy'[key])
  BY DEF HoldsFinalizer, GoodCopy, Exists
<1>4. OwnedBy(PathName[<<key, q>>], key)
  BY DEF VisitedArePublished
<1> QED
  BY <1>2, <1>3, <1>4 DEF KeepsCopies, OwnedBy

\* The worker stays where it is.
LEMMA MemoryStays ==
    ASSUME IndInv, TypeOK', KeepsCopies, KeepsDests, GoodCaches', UNCHANGED <<pc, frame>>
    PROVE  IndInv'
<1> USE DEF IndInv
<1>1. ActivePathsOwned'
  BY ActiveStays
<1>2. HoldsFinalizer'
  BY LockStays DEF HoldsFinalizer, frame
<1>3. VisitedArePublished'
  <2> SUFFICES ASSUME pc' # "idle", allReady', NEW q \in Visited'
               PROVE  OwnedBy(PathName[<<key, q>>], key)'
    BY DEF VisitedArePublished
  <2>1. q \in Visited
    BY DEF Visited, Known, Exists, frame
  <2> QED
    BY <1>2, <2>1, VisitedStay DEF frame
<1> QED
  BY <1>1, <1>2, <1>3 DEF KeepsCopies

\* The worker is done with its key.
LEMMA IdleIsSafe ==
    ASSUME IndInv, TypeOK', KeepsCopies, KeepsDests, Idle, GoodCaches'
    PROVE  IndInv'
<1>1. ActivePathsOwned'
  BY ActiveStays DEF IndInv
<1> QED
  BY <1>1 DEF IndInv, KeepsCopies, Idle, HoldsFinalizer, VisitedArePublished

-----------------------------------------------------------------------------
(***************************************************************************)
(* The inductive invariant.                                                *)
(***************************************************************************)
LEMMA IndInvInit == Init => IndInv
<1> SUFFICES ASSUME Init
             PROVE  IndInv
  OBVIOUS
<1>1. TypeOK
  BY TypeInit
<1>2. /\ pc = "idle"
      /\ \A p \in Policies : policy[p] = Absent /\ cache[p] = Absent
      /\ \A n \in Names : computed[n] = Absent /\ pathCache[n] = Absent
  BY DEF Init, ApiInit
<1> QED
  BY <1>1, <1>2 DEF IndInv, VersionsInOrder, GoodCaches, HoldsFinalizer, VisitedArePublished,
                    PublishedUnderFinalizer, ActivePathsOwned, OwnedBy, Exists

\* A user's step keeps the copies good.
LEMMA UserStepKeeps ==
    ASSUME TypeOK, TypeOK', VersionsInOrder, PublishedUnderFinalizer, UserStep,
           \A p \in Policies : Exists(cache[p]) => GoodCopy(p, cache[p])
    PROVE  KeepsCopies /\ KeepsDests
<1> USE DEF TypeOK, ApiTypeOK
<1>1. ASSUME NEW p \in Policies, NEW f \in Prefs \cup {NoPref}, CreatePolicy(p, f)
      PROVE  KeepsCopies /\ KeepsDests
  <2> DEFINE new == [uid |-> policyVer[p] + 1, rv |-> 0, gen |-> 1, pref |-> f,
                     deleting |-> FALSE, fin |-> FALSE, active |-> 0, dests |-> {}]
  <2>1. new \in PolicyObj /\ new.dests = {}
    BY DEF PolicyObj
  <2>2. StorePolicy(p, new)
    BY <1>1 DEF CreatePolicy
  <2> HIDE DEF new
  <2>3. policy'[p].dests = {} /\ \A r \in Policies \ {p} : policy'[r] = policy[r]
    BY <2>1, <2>2, StorePolicyStores
  <2> QED
    BY <1>1, <2>3, CreateKeeps DEF KeepsDests
<1>2. ASSUME NEW p \in Policies, NEW object \in PolicyObj, Exists(policy[p]),
             StorePolicy(p, object), object.uid = policy[p].uid, object.fin = policy[p].fin,
             object.dests = policy[p].dests, UNCHANGED <<computed, pathVer>>
      PROVE  KeepsCopies /\ KeepsDests
  <2>1. RevisesPolicy(p)
    BY <1>2, StorePolicyStores DEF RevisesPolicy
  <2>2. KeepsDests
    BY <1>2, StorePolicyStores DEF KeepsDests
  <2> QED
    BY <2>1, <2>2, ReviseKeeps
<1>3. ASSUME NEW p \in Policies, NEW f \in Prefs \cup {NoPref}, EditPolicy(p, f)
      PROVE  KeepsCopies /\ KeepsDests
  <2> DEFINE new == [policy[p] EXCEPT !.gen = @ + 1, !.pref = f]
  <2>1. policy[p] \in PolicyObj /\ policy[p].gen + 1 \in Nat
    BY <1>3 DEF EditPolicy, Exists, PolicyObj
  <2>2. new \in PolicyObj
    BY <2>1, EditedType
  <2>3. new.uid = policy[p].uid /\ new.fin = policy[p].fin /\ new.dests = policy[p].dests
    BY <2>1 DEF PolicyObj
  <2>4. StorePolicy(p, new) /\ Exists(policy[p]) /\ UNCHANGED <<computed, pathVer>>
    BY <1>3 DEF EditPolicy
  <2> HIDE DEF new
  <2> QED
    BY <1>2, <2>2, <2>3, <2>4
<1>4. ASSUME NEW p \in Policies, DeletePolicy(p), policy[p].fin
      PROVE  KeepsCopies /\ KeepsDests
  <2> DEFINE new == [policy[p] EXCEPT !.gen = @ + 1, !.deleting = TRUE]
  <2>1. policy[p] \in PolicyObj /\ policy[p].gen + 1 \in Nat
    BY <1>4 DEF DeletePolicy, Exists, PolicyObj
  <2>2. new \in PolicyObj
    BY <2>1, RetiredType
  <2>3. new.uid = policy[p].uid /\ new.fin = policy[p].fin /\ new.dests = policy[p].dests
    BY <2>1 DEF PolicyObj
  <2>4. StorePolicy(p, new) /\ Exists(policy[p]) /\ UNCHANGED <<computed, pathVer>>
    BY <1>4 DEF DeletePolicy
  <2> HIDE DEF new
  <2> QED
    BY <1>2, <2>2, <2>3, <2>4
<1>5. ASSUME NEW p \in Policies, DeletePolicy(p), ~policy[p].fin
      PROVE  KeepsCopies /\ KeepsDests
  <2>1. ErasePolicy(p) /\ UNCHANGED <<computed, pathVer>>
    BY <1>5 DEF DeletePolicy
  <2>2. \A r \in Policies, copy \in PolicyObj :
            GoodCopy(r, copy) => (copy.fin /\ ~copy.deleting => r # p)
    BY <1>5 DEF GoodCopy
  <2>3. KeepsDests
    BY <2>1 DEF ErasePolicy, KeepsDests, Exists
  <2> QED
    BY <2>1, <2>2, <2>3, EraseKeeps DEF KeepsCopies
<1>6. ASSUME NEW q \in Peers, (\E c \in Clusters : PutPeer(q, c)) \/ RemovePeer(q)
      PROVE  KeepsCopies /\ KeepsDests
  BY <1>6, QuietKeeps DEF PutPeer, RemovePeer, KeepsDests
<1> QED
  BY <1>1, <1>3, <1>4, <1>5, <1>6 DEF UserStep

\* What the informers deliver is a good copy.
LEMMA FreshCopiesAreGood ==
    ASSUME VersionsInOrder, PublishedUnderFinalizer
    PROVE  /\ \A p \in Policies : Exists(policy[p]) /\ policy[p].fin => GoodCopy(p, policy[p])
           /\ \A p \in Policies : Exists(policy[p]) /\ ~policy[p].fin => GoodCopy(p, policy[p])
           /\ \A n \in Names : Exists(computed[n]) => GoodPathCopy(n, computed[n])
BY DEF VersionsInOrder, GoodCopy, GoodPathCopy, Current, OwnedBy, Exists

\* A delivery replaces a copy by a good one.
LEMMA DeliverKeeps ==
    ASSUME IndInv, TypeOK', Deliver
    PROVE  GoodCaches'
<1> USE DEF IndInv, TypeOK, ApiTypeOK, Exists
<1>q. KeepsCopies
  BY QuietKeeps DEF Deliver, DeliverPolicy, DeliverPeer, DeliverPath, apiVars
<1>1. ASSUME NEW p \in Policies, DeliverPolicy(p)
      PROVE  GoodCaches'
  BY <1>1, FreshCopiesAreGood
     DEF DeliverPolicy, apiVars, GoodCaches, GoodCopy, GoodPathCopy, Current, OwnedBy
<1>2. ASSUME NEW q \in Peers, DeliverPeer(q)
      PROVE  GoodCaches'
  BY <1>2, <1>q, CachesStay DEF DeliverPeer
<1>3. ASSUME NEW n \in Names, DeliverPath(n)
      PROVE  GoodCaches'
  BY <1>3, FreshCopiesAreGood
     DEF DeliverPath, apiVars, GoodCaches, GoodCopy, GoodPathCopy, Current, OwnedBy
<1> QED
  BY <1>1, <1>2, <1>3 DEF Deliver

\* Every step keeps the inductive invariant.
LEMMA IndInvNext ==
    ASSUME IndInv, [Next]_vars
    PROVE  IndInv'
<1> USE DEF IndInv
<1>t. TypeOK'
  BY TypeNext
<1>q. ASSUME UNCHANGED <<policy, computed, policyVer, pathVer>>
      PROVE  KeepsCopies /\ KeepsDests
  BY <1>q, QuietKeeps DEF KeepsDests
<1>c. ASSUME KeepsCopies, KeepsDests, UNCHANGED <<cache, pathCache, pc, frame>>
      PROVE  IndInv'
  BY <1>t, <1>c, CachesStay, MemoryStays
<1>i. ASSUME KeepsCopies, KeepsDests, UNCHANGED <<cache, pathCache>>, Idle
      PROVE  IndInv'
  BY <1>t, <1>i, CachesStay, IdleIsSafe
<1>1. CASE Environment
  <2>1. CASE UserStep
    BY <1>1, <1>t, <1>c, <2>1, UserStepKeeps DEF Environment, operatorVars, informers, GoodCaches
  <2>2. CASE RotatePaths
    BY <1>1, <1>c, <1>q, <2>2 DEF Environment, operatorVars, informers, RotatePaths
  <2> QED
    BY <1>1, <2>1, <2>2 DEF Environment
<1>2. ASSUME NEW n \in Names, Collect(n)
      PROVE  IndInv'
  <2>1. KeepsCopies /\ KeepsDests
    BY <1>2, <1>t, CollectKeeps DEF Collect, CollectPath, KeepsDests
  <2> QED
    BY <1>2, <1>c, <2>1 DEF Collect, operatorVars, informers
<1>3. CASE Deliver
  <2>1. KeepsCopies /\ KeepsDests /\ UNCHANGED <<pc, frame>>
    BY <1>3, <1>q DEF Deliver, DeliverPolicy, DeliverPeer, DeliverPath, apiVars
  <2> QED
    BY <1>3, <1>t, <2>1, DeliverKeeps, MemoryStays
<1>4. CASE Resync \/ PodStep \/ UNCHANGED vars
  BY <1>4, <1>c, <1>q
     DEF Resync, PodStep, PodAddressed, PodDeleted, vars, apiVars, informers, frame
<1>5. ASSUME NEW p \in Policies, Start(p)
      PROVE  IndInv'
  <2>1. CASE NothingToDo(p)
    BY <2>1, <1>c, <1>q DEF NothingToDo, apiVars, informers
  <2>2. CASE RemoveFinalizer(p)
    <3>1. /\ pc = "idle" /\ pc' = "idle"
          /\ ErasePolicy(p)
          /\ UNCHANGED <<computed, pathVer, cache, pathCache>>
          /\ cache[p].deleting
      BY <2>2 DEF RemoveFinalizer, Take, informers
    <3>2. KeepsDests
      BY <3>1 DEF ErasePolicy, KeepsDests, Exists, TypeOK, ApiTypeOK
    <3>3. GoodCaches'
      <4>1. ASSUME NEW r \in Policies, Exists(cache[r])
            PROVE  GoodCopy(r, cache[r])'
        <5>1. cache[r] \in PolicyObj /\ GoodCopy(r, cache[r])
          BY <4>1 DEF TypeOK, Exists, GoodCaches
        <5>2. cache[r].fin /\ ~cache[r].deleting => r # p
          BY <3>1
        <5> QED
          BY <1>t, <3>1, <5>1, <5>2, EraseKeeps DEF GoodCopy, Current
      <4>2. ASSUME NEW n \in Names, Exists(pathCache[n])
            PROVE  GoodPathCopy(n, pathCache[n])'
        <5>1. pathCache[n] \in PathObj /\ GoodPathCopy(n, pathCache[n])
          BY <4>2 DEF TypeOK, Exists, GoodCaches
        <5> QED
          BY <1>t, <3>1, <5>1, EraseKeeps DEF GoodPathCopy, OwnedBy
      <4> QED
        BY <3>1, <4>1, <4>2 DEF GoodCaches, Exists
    <3>4. ActivePathsOwned'
      <4> SUFFICES ASSUME NEW r \in Policies, Exists(policy'[r]), NEW q \in policy'[r].dests
                   PROVE  OwnedBy(PathName[<<r, q>>], r)'
        BY DEF ActivePathsOwned, Exists
      <4>1. q \in Peers /\ OwnedBy(PathName[<<r, q>>], r)
        BY <3>2, <1>t DEF KeepsDests, ActivePathsOwned, TypeOK, ApiTypeOK, PolicyObj, Exists
      <4>2. PathName[<<r, q>>] \in Names
        BY <4>1, PathNameAssumption
      <4> QED
        BY <1>t, <3>1, <4>1, <4>2, EraseKeeps DEF Exists
    <3>5. VersionsInOrder' /\ PublishedUnderFinalizer'
      BY <1>t, <3>1, EraseKeeps
    <3> QED
      BY <1>t, <3>1, <3>3, <3>4, <3>5 DEF HoldsFinalizer, VisitedArePublished
  <2>3. CASE AddFinalizer(p)
    <3> DEFINE new == [cache[p] EXCEPT !.fin = TRUE]
    <3>1. /\ cache[p] \in PolicyObj
          /\ policy[p] = cache[p] /\ Exists(policy[p])
          /\ StorePolicy(p, new)
          /\ UNCHANGED <<computed, pathVer, cache, pathCache, pc, frame>>
      BY <2>3 DEF AddFinalizer, TypeOK, Exists, GoodCaches, GoodCopy, Current, informers
    <3>2. new \in PolicyObj
      BY <3>1, GuardedType
    <3>3. new.uid = policy[p].uid /\ new.fin /\ new.dests = policy[p].dests
      BY <3>1 DEF PolicyObj
    <3> HIDE DEF new
    <3>4. RevisesPolicy(p) /\ KeepsDests
      BY <3>1, <3>2, <3>3, StorePolicyStores DEF RevisesPolicy, KeepsDests, TypeOK, ApiTypeOK
    <3> QED
      BY <1>c, <1>t, <3>1, <3>4, ReviseKeeps
  <2>4. CASE ListPeers(p)
    <3>1. KeepsCopies /\ KeepsDests /\ GoodCaches'
      BY <2>4, <1>q, CachesStay DEF ListPeers, apiVars, informers
    <3>2. HoldsFinalizer'
      BY <2>4, <3>1 DEF ListPeers, HoldsFinalizer, GoodCaches, informers
    <3>3. VisitedArePublished'
      BY <2>4 DEF ListPeers, VisitedArePublished, Visited, Known
    <3> QED
      BY <1>t, <3>1, <3>2, <3>3, ActiveStays DEF KeepsCopies
  <2> QED
    BY <1>5, <2>1, <2>2, <2>3, <2>4 DEF Start
<1>6. ASSUME pc = "publish", pc' = "next", KeepsCopies, KeepsDests,
             NEW n \in Names, n = Target, OwnedBy(n, key)',
             UNCHANGED <<key, pol, snap, todo, allReady, cache, pathCache>>
      PROVE  IndInv'
  <2>1. GoodCaches' /\ ActivePathsOwned' /\ HoldsFinalizer'
    BY <1>6, CachesStay, ActiveStays, LockStays
  <2>2. VisitedArePublished'
    <3> SUFFICES ASSUME allReady', NEW q \in Visited'
                 PROVE  OwnedBy(PathName[<<key, q>>], key)'
      BY DEF VisitedArePublished
    <3>1. CASE q = fetched.peer
      BY <1>6, <3>1 DEF Target, OwnedBy
    <3>2. CASE q # fetched.peer
      <4>1. q \in Visited
        BY <1>6, <3>2 DEF Visited, Known, Exists
      <4> QED
        BY <1>t, <1>6, <2>1, <4>1, VisitedStay
    <3> QED
      BY <3>1, <3>2
  <2> QED
    BY <1>t, <1>6, <2>1, <2>2 DEF KeepsCopies
<1>7. CASE Visit
  <2>1. ASSUME NEW q \in Peers, FetchReady(q)
        PROVE  IndInv'
    <3>1. KeepsCopies /\ KeepsDests /\ GoodCaches'
      BY <2>1, <1>q, CachesStay DEF FetchReady, apiVars, informers
    <3>2. HoldsFinalizer'
      BY <2>1, <3>1, LockStays DEF FetchReady
    <3>3. VisitedArePublished'
      <4> SUFFICES ASSUME allReady', NEW r \in Visited'
                   PROVE  OwnedBy(PathName[<<key, r>>], key)'
        BY DEF VisitedArePublished
      <4>1. r \in Visited
        BY <2>1 DEF FetchReady, Visited, Known, Exists
      <4> QED
        BY <1>t, <2>1, <3>1, <3>2, <4>1, VisitedStay DEF FetchReady
    <3> QED
      BY <1>t, <3>1, <3>2, <3>3, ActiveStays DEF KeepsCopies
  <2>2. CASE FetchPanics \/ PublishRefused \/ AwaitPaths \/ StatusRefused
    BY <2>2, <1>i, <1>q
       DEF FetchPanics, PublishRefused, AwaitPaths, StatusRefused, Retry, apiVars, informers
  <2>3. ASSUME pc = "publish"
        PROVE  /\ Wanted(0) \in PathObj /\ Target \in Names
               /\ Wanted(0).owner = key /\ Wanted(0).uid = pol.uid
    BY <2>3, PathNameAssumption DEF Wanted, Target, PathObj, PolicyObj, Answer, TypeOK, Exists
  <2>4. ASSUME pc = "publish", StorePath(Target, Wanted(0)), Published,
               Exists(computed[Target]) => computed[Target].owner = key
        PROVE  IndInv'
    <3>1. UNCHANGED <<policy, policyVer>> /\ KeepsDests
      BY <2>4 DEF Published, KeepsDests
    <3>2. KeepsCopies /\ \E n \in Names : n = Target /\ OwnedBy(n, key)'
      <4> PICK n \in Names : n = Target
        BY <2>3, <2>4
      <4> PICK object \in PathObj : object = Wanted(0)
        BY <2>3, <2>4
      <4>1. /\ StorePath(n, object)
            /\ object.owner = key /\ object.uid = pol.uid
            /\ Exists(computed[n]) => computed[n].owner = object.owner
        BY <2>3, <2>4
      <4>2. Exists(policy[key]) /\ policy[key].uid = pol.uid /\ policy[key].fin
        BY <2>4, LockedIsLive
      <4>3. KeepsCopies /\ OwnedBy(n, object.owner)'
        BY <1>t, <3>1, <4>1, <4>2, StorePathKeeps
      <4> QED
        BY <2>4, <4>1, <4>3 DEF OwnedBy, Published
    <3> QED
      BY <1>6, <2>4, <3>1, <3>2 DEF Published, informers
  <2>5. CASE CreatePath
    BY <2>4, <2>5 DEF CreatePath, CanCreate
  <2>6. CASE UpdatePath
    <3>1. computed[Target] = pathCache[Target]
      BY <2>3, <2>6 DEF UpdatePath, CanUpdate, Mine, GoodCaches, GoodPathCopy
    <3> QED
      BY <2>4, <2>6, <3>1 DEF UpdatePath, CanUpdate, Mine
  <2>7. CASE KeepPath
    <3> PICK n \in Names : n = Target
      BY <2>3, <2>7 DEF KeepPath
    <3>1. OwnedBy(n, key)
      BY <2>7, LockedIsLive
         DEF KeepPath, CanKeep, Mine, UpToDate, Wanted, GoodCaches, GoodPathCopy
    <3>2. OwnedBy(n, key)'
      BY <2>7, <3>1 DEF KeepPath, Published, OwnedBy
    <3> QED
      BY <2>7, <3>2, <1>6, <1>q DEF KeepPath, Published, informers
  <2>8. CASE MarkActive
    <3>1. CASE UNCHANGED <<policy, policyVer>>
      BY <2>8, <3>1, <1>i, <1>q DEF MarkActive, informers
    <3>2. CASE StorePolicy(key, Activated)
      <4> PICK k \in Policies : k = key
        BY <2>8, LockedIsLive DEF MarkActive
      <4>1. pol \in PolicyObj /\ policy[k] = pol /\ Exists(policy[k])
        BY <2>8, LockedIsLive DEF MarkActive, HoldsFinalizer, GoodCopy, Current
      <4>2. pol.gen \in Nat /\ Known(snap) \in SUBSET Peers
        BY <4>1 DEF PolicyObj, Known, TypeOK
      <4> PICK new \in PolicyObj : new = Activated
        BY <4>1, <4>2, ActivatedType DEF Activated
      <4>3. new.uid = pol.uid /\ new.fin = pol.fin /\ new.dests = Known(snap)
        BY <4>1 DEF Activated, PolicyObj
      <4>4. StorePolicy(k, new) /\ UNCHANGED <<computed, pathVer, cache, pathCache>> /\ Idle
        BY <2>8, <3>2 DEF MarkActive, informers
      <4>5. /\ RevisesPolicy(k)
            /\ policy'[k].dests = Known(snap)
            /\ \A r \in Policies \ {k} : policy'[r] = policy[r]
        BY <4>1, <4>3, <4>4, StorePolicyStores DEF RevisesPolicy, TypeOK, ApiTypeOK
      <4>6. KeepsCopies /\ GoodCaches'
        BY <1>t, <4>4, <4>5, ReviseKeeps, CachesStay
      <4>7. ActivePathsOwned'
        <5> SUFFICES ASSUME NEW r \in Policies, Exists(policy'[r]), NEW q \in policy'[r].dests
                     PROVE  OwnedBy(PathName[<<r, q>>], r)'
          BY DEF ActivePathsOwned, Exists
        <5>1. q \in Peers /\ PathName[<<r, q>>] \in Names
          BY <1>t, PathNameAssumption DEF TypeOK, ApiTypeOK, PolicyObj, Exists
        <5>2. OwnedBy(PathName[<<r, q>>], r)
          <6>1. CASE r = k
            BY <2>8, <4>5, <6>1 DEF MarkActive, VisitedArePublished, Visited
          <6>2. CASE r # k
            BY <4>5, <6>2 DEF ActivePathsOwned, Exists
          <6> QED
            BY <6>1, <6>2
        <5> QED
          BY <4>6, <5>1, <5>2 DEF KeepsCopies, Exists
      <4> QED
        BY <1>t, <4>4, <4>6, <4>7 DEF KeepsCopies, Idle, HoldsFinalizer, VisitedArePublished
    <3> QED
      BY <2>8, <3>1, <3>2 DEF MarkActive
  <2> QED
    BY <1>7, <2>1, <2>2, <2>5, <2>6, <2>7, <2>8 DEF Visit
<1>8. CASE Fault
  <2>1. ASSUME NEW q \in Peers, FetchNotReady(q)
        PROVE  IndInv'
    <3>1. KeepsCopies /\ KeepsDests /\ GoodCaches'
      BY <2>1, <1>q, CachesStay DEF FetchNotReady, informers
    <3>2. HoldsFinalizer'
      BY <2>1, <3>1, LockStays DEF FetchNotReady
    <3>3. VisitedArePublished'
      BY <2>1 DEF FetchNotReady, VisitedArePublished
    <3> QED
      BY <1>t, <3>1, <3>2, <3>3, ActiveStays DEF KeepsCopies
  <2>2. CASE TransientError
    BY <2>2, <1>i, <1>q DEF TransientError, Retry, informers
  <2>3. CASE Restart
    <3>1. GoodCaches'
      BY <2>3, FreshCopiesAreGood
         DEF Restart, GoodCaches, GoodCopy, GoodPathCopy, Current, OwnedBy, Exists
    <3> QED
      BY <1>t, <1>q, <2>3, <3>1, IdleIsSafe DEF Restart
  <2> QED
    BY <1>8, <2>1, <2>2, <2>3 DEF Fault
<1> QED
  BY <1>1, <1>2, <1>3, <1>4, <1>5, <1>7, <1>8 DEF Next

-----------------------------------------------------------------------------
(***************************************************************************)
(* What follows from it.                                                   *)
(***************************************************************************)

\* The inductive invariant holds in every state.
THEOREM Invariance == Spec => []IndInv
<1>1. IndInv /\ UNCHANGED vars => IndInv'
  BY IndInvNext
<1>2. IndInv /\ [Next]_vars => IndInv'
  BY IndInvNext
<1> QED
  BY IndInvInit, <1>2, PTL DEF Spec

\* The incarnation that the worker reconciles stays in the store until the
\* worker is done, whatever users do and however stale its copies are.
THEOREM Lock == Spec => []ReconcilesLivePolicy
<1>1. IndInv => ReconcilesLivePolicy
  BY LockedIsLive DEF IndInv, ReconcilesLivePolicy
<1> QED
  BY <1>1, Invariance, PTL

\* A destination that an Active condition counts has a computed path, owned
\* by the living incarnation of the policy.
THEOREM ActiveIsBacked == Spec => []ActivePathsOwned
<1>1. IndInv => ActivePathsOwned
  BY DEF IndInv
<1> QED
  BY <1>1, Invariance, PTL

\* Only policies under the finalizer own computed paths.
THEOREM FinalizerFirst == Spec => []PublishedUnderFinalizer
<1>1. IndInv => PublishedUnderFinalizer
  BY DEF IndInv
<1> QED
  BY <1>1, Invariance, PTL

\* Which steps write a path, and what is there before and after.
LEMMA PathWrites ==
    ASSUME IndInv, TypeOK', [Next]_vars, NEW n \in Names, computed'[n] # computed[n],
           Exists(computed'[n])
    PROVE  /\ pc = "publish"
           /\ computed'[n].owner = key
           /\ computed'[n].uid = pol.uid
           /\ Exists(computed[n]) => computed[n].owner = key
           /\ UNCHANGED policy
<1> USE DEF IndInv
<1>1. CASE CreatePath \/ UpdatePath
  <2>1. pc = "publish" /\ StorePath(Target, Wanted(0)) /\ UNCHANGED policy
    BY <1>1 DEF CreatePath, UpdatePath, Published
  <2>2. /\ Wanted(0) \in PathObj /\ Target \in Names
        /\ Wanted(0).owner = key /\ Wanted(0).uid = pol.uid
    BY <2>1, PathNameAssumption DEF Wanted, Target, PathObj, PolicyObj, Answer, TypeOK, Exists
  <2>3. n = Target
    BY <2>1 DEF StorePath, TypeOK, ApiTypeOK
  <2>4. computed'[n].owner = key /\ computed'[n].uid = pol.uid
    BY <2>1, <2>2, <2>3 DEF StorePath, TypeOK, ApiTypeOK, PathObj
  <2>5. Exists(computed[n]) => computed[n].owner = key
    <3>1. CASE CreatePath
      BY <2>3, <3>1 DEF CreatePath, CanCreate
    <3>2. CASE UpdatePath
      <4>1. computed[Target] = pathCache[Target]
        BY <2>2, <3>2 DEF UpdatePath, CanUpdate, Mine, GoodCaches, GoodPathCopy
      <4> QED
        BY <2>3, <3>2, <4>1 DEF UpdatePath, CanUpdate, Mine
    <3> QED
      BY <1>1, <3>1, <3>2
  <2> QED
    BY <2>1, <2>4, <2>5
<1>2. ASSUME NEW m \in Names, Collect(m)
      PROVE  FALSE
  BY <1>2 DEF Collect, CollectPath, TypeOK, ApiTypeOK, Exists
<1>3. CASE Environment
  BY <1>3 DEF Environment, UserStep, CreatePolicy, EditPolicy, DeletePolicy, PutPeer, RemovePeer,
              RotatePaths
<1>4. CASE Deliver \/ Resync \/ PodStep \/ UNCHANGED vars \/ Fault
  BY <1>4 DEF Deliver, DeliverPolicy, DeliverPeer, DeliverPath, Resync, PodStep, PodAddressed,
              PodDeleted, Fault, FetchNotReady, TransientError, Restart, vars, apiVars
<1>5. ASSUME NEW p \in Policies, Start(p)
      PROVE  FALSE
  BY <1>5 DEF Start, NothingToDo, RemoveFinalizer, AddFinalizer, ListPeers, apiVars
<1>6. CASE Visit
  <2>1. CASE CreatePath \/ UpdatePath
    BY <1>1, <2>1
  <2>2. CASE ~(CreatePath \/ UpdatePath)
    BY <1>6, <2>2 DEF Visit, FetchReady, FetchPanics, KeepPath, PublishRefused, AwaitPaths,
                      MarkActive, StatusRefused, apiVars
  <2> QED
    BY <2>1, <2>2
<1> QED
  BY <1>2, <1>3, <1>4, <1>5, <1>6 DEF Next

\* No path is ever written for an owner that is gone.
THEOREM LateWritesAreOwned == Spec => NoOrphanWrites
<1>1. ASSUME IndInv, [Next]_vars
      PROVE  \A n \in Names : Exists(computed'[n]) /\ computed'[n] # computed[n]
                 => OwnedBy(n, computed[n].owner)'
  <2> SUFFICES ASSUME NEW n \in Names, Exists(computed'[n]), computed'[n] # computed[n]
               PROVE  OwnedBy(n, computed[n].owner)'
    OBVIOUS
  <2>1. TypeOK'
    BY <1>1, TypeNext DEF IndInv
  <2>2. /\ pc = "publish" /\ computed'[n].owner = key /\ computed'[n].uid = pol.uid
        /\ UNCHANGED policy
    BY <1>1, <2>1, PathWrites
  <2>3. Exists(policy[key]) /\ policy[key].uid = pol.uid
    BY <1>1, <2>2, LockedIsLive DEF IndInv
  <2> QED
    BY <2>2, <2>3 DEF OwnedBy, Exists
<1> QED
  BY <1>1, Invariance, PTL DEF Spec, NoOrphanWrites

\* Where names collide, a path stays with the policy that created it.
THEOREM PathsKeepTheirOwner == Spec => NeverChangesHands
<1>1. ASSUME IndInv, [Next]_vars
      PROVE  \A n \in Names : Exists(computed[n]) /\ Exists(computed'[n])
                 => computed'[n].owner = computed[n].owner
  <2> SUFFICES ASSUME NEW n \in Names, Exists(computed[n]), Exists(computed'[n]),
                      computed'[n] # computed[n]
               PROVE  computed'[n].owner = computed[n].owner
    OBVIOUS
  <2>1. TypeOK'
    BY <1>1, TypeNext DEF IndInv
  <2> QED
    BY <1>1, <2>1, PathWrites
<1> QED
  BY <1>1, Invariance, PTL DEF Spec, NeverChangesHands

\* The store's policies after each kind of step, and what wrote them.
LEMMA PolicyWrites ==
    ASSUME TypeOK, [Next]_vars, NEW p \in Policies, policy'[p] # policy[p]
    PROVE  \/ \E f \in Prefs \cup {NoPref} : CreatePolicy(p, f) \/ EditPolicy(p, f)
           \/ DeletePolicy(p)
           \/ RemoveFinalizer(p)
           \/ AddFinalizer(p)
           \/ MarkActive /\ p = key
<1> USE DEF TypeOK, ApiTypeOK
<1>1. CASE Environment
  <2>1. ASSUME NEW r \in Policies, r # p,
               (\E f \in Prefs \cup {NoPref} : CreatePolicy(r, f) \/ EditPolicy(r, f))
                   \/ DeletePolicy(r)
        PROVE  FALSE
    BY <2>1 DEF CreatePolicy, EditPolicy, DeletePolicy, StorePolicy, ErasePolicy
  <2> QED
    BY <1>1, <2>1 DEF Environment, UserStep, PutPeer, RemovePeer, RotatePaths
<1>2. CASE (\E n \in Names : Collect(n)) \/ Deliver \/ Resync \/ PodStep \/ Fault \/ UNCHANGED vars
  BY <1>2 DEF Collect, CollectPath, Deliver, DeliverPolicy, DeliverPeer, DeliverPath, Resync,
              PodStep, PodAddressed, PodDeleted, Fault, FetchNotReady, TransientError, Restart,
              vars, apiVars
<1>3. ASSUME NEW r \in Policies, Start(r)
      PROVE  RemoveFinalizer(p) \/ AddFinalizer(p)
  BY <1>3 DEF Start, NothingToDo, RemoveFinalizer, AddFinalizer, ListPeers, StorePolicy,
              ErasePolicy, apiVars
<1>4. CASE Visit
  <2>1. MarkActive
    BY <1>4 DEF Visit, FetchReady, FetchPanics, CreatePath, KeepPath, UpdatePath, Published,
                PublishRefused, AwaitPaths, StatusRefused, apiVars
  <2> QED
    BY <2>1 DEF MarkActive, StorePolicy
<1> QED
  BY <1>1, <1>2, <1>3, <1>4 DEF Next

\* A copy that the store accepts a write from is the stored object.
TrueCopies ==
    /\ \A p \in Policies : Exists(cache[p]) /\ Current(p, cache[p]) => policy[p] = cache[p]
    /\ pc # "idle" /\ Current(key, pol) => policy[key] = pol

\* The invariant has this of every copy.
LEMMA CopiesAreTrue == IndInv => TypeOK /\ TrueCopies
BY DEF IndInv, GoodCaches, HoldsFinalizer, GoodCopy, TrueCopies

\* A status update is made from the stored object.
LEMMA MarkActiveStores ==
    ASSUME TypeOK, TrueCopies, MarkActive
    PROVE  /\ key \in Policies
           /\ pol \in PolicyObj
           /\ policy[key] = pol
           /\ Exists(policy[key]) /\ Exists(policy'[key])
           /\ policy'[key].uid = pol.uid
           /\ policy'[key].gen = pol.gen
           /\ policy'[key].fin = pol.fin
           /\ policy'[key].deleting = pol.deleting
           /\ policy'[key].active = pol.gen
           /\ policy'[key].dests = Known(snap)
           /\ \A r \in Policies \ {key} : policy'[r] = policy[r]
<1>1. /\ key \in Policies /\ pol \in PolicyObj /\ policy[key] = pol /\ Exists(policy[key])
      /\ policy \in [Policies -> PolicyObj \cup {Absent}]
      /\ policyVer \in [Policies -> Nat]
  BY DEF MarkActive, TypeOK, ApiTypeOK, TrueCopies, Current
<1>2. pol.gen \in Nat /\ Known(snap) \in SUBSET Peers
  BY <1>1 DEF PolicyObj, Known, TypeOK
<1>3. Activated \in PolicyObj
  BY <1>1, <1>2, ActivatedType DEF Activated
<1>4. /\ Activated.uid = pol.uid /\ Activated.gen = pol.gen /\ Activated.fin = pol.fin
      /\ Activated.deleting = pol.deleting /\ Activated.active = pol.gen
      /\ Activated.dests = Known(snap)
  BY <1>1 DEF Activated, PolicyObj
<1>5. CASE Activated = pol
  <2>1. UNCHANGED policy
    BY <1>5 DEF MarkActive
  <2> QED
    BY <1>1, <1>4, <1>5, <2>1 DEF Exists
<1>6. CASE Activated # pol
  <2>1. StorePolicy(key, Activated)
    BY <1>6 DEF MarkActive
  <2>2. /\ Exists(policy'[key])
        /\ policy'[key].uid = Activated.uid
        /\ policy'[key].gen = Activated.gen
        /\ policy'[key].fin = Activated.fin
        /\ policy'[key].deleting = Activated.deleting
        /\ policy'[key].active = Activated.active
        /\ policy'[key].dests = Activated.dests
        /\ \A r \in Policies \ {key} : policy'[r] = policy[r]
    BY <1>1, <1>3, <2>1, StorePolicyStores
  <2> QED
    BY <1>1, <1>4, <2>2
<1> QED
  BY <1>5, <1>6

\* It is made under the finalizer, and after every listed peer has its path.
LEMMA MarkActiveWrites ==
    ASSUME IndInv, MarkActive
    PROVE  /\ pol.fin /\ ~pol.deleting
           /\ \A q \in Known(snap) : OwnedBy(PathName[<<key, q>>], key)
BY DEF IndInv, HoldsFinalizer, MarkActive, VisitedArePublished, Visited

\* What the other writes of a policy store.
LEMMA CreateStores ==
    ASSUME TypeOK, NEW p \in Policies, NEW f \in Prefs \cup {NoPref}, CreatePolicy(p, f)
    PROVE  /\ ~Exists(policy[p]) /\ Exists(policy'[p])
           /\ policy'[p].uid = policyVer[p] + 1
           /\ policy'[p].gen = 1 /\ policy'[p].active = 0
           /\ ~policy'[p].fin /\ ~policy'[p].deleting /\ policy'[p].dests = {}
           /\ \A r \in Policies \ {p} : policy'[r] = policy[r]
           /\ UNCHANGED computed
<1> DEFINE new == [uid |-> policyVer[p] + 1, rv |-> 0, gen |-> 1, pref |-> f,
                   deleting |-> FALSE, fin |-> FALSE, active |-> 0, dests |-> {}]
<1>1. new \in PolicyObj
  BY DEF PolicyObj, TypeOK, ApiTypeOK
<1>2. /\ new.uid = policyVer[p] + 1 /\ new.gen = 1 /\ new.active = 0
      /\ ~new.fin /\ ~new.deleting /\ new.dests = {}
  OBVIOUS
<1>3. StorePolicy(p, new) /\ ~Exists(policy[p]) /\ UNCHANGED computed
  BY DEF CreatePolicy
<1> HIDE DEF new
<1> QED
  BY <1>1, <1>2, <1>3, StorePolicyStores DEF TypeOK, ApiTypeOK

\* An edit changes generation and preference only.
LEMMA EditStores ==
    ASSUME TypeOK, NEW p \in Policies, NEW f \in Prefs \cup {NoPref}, EditPolicy(p, f)
    PROVE  /\ Exists(policy[p]) /\ Exists(policy'[p])
           /\ policy'[p].uid = policy[p].uid
           /\ policy'[p].gen = policy[p].gen + 1
           /\ policy'[p].fin = policy[p].fin
           /\ policy'[p].deleting = policy[p].deleting
           /\ policy'[p].active = policy[p].active
           /\ policy'[p].dests = policy[p].dests
           /\ \A r \in Policies \ {p} : policy'[r] = policy[r]
           /\ UNCHANGED computed
<1> DEFINE new == [policy[p] EXCEPT !.gen = @ + 1, !.pref = f]
<1>1. policy[p] \in PolicyObj /\ policy[p].gen + 1 \in Nat
  BY DEF EditPolicy, Exists, PolicyObj, TypeOK, ApiTypeOK
<1>2. new \in PolicyObj
  BY <1>1, EditedType
<1>3. /\ new.uid = policy[p].uid /\ new.gen = policy[p].gen + 1
      /\ new.fin = policy[p].fin /\ new.deleting = policy[p].deleting
      /\ new.active = policy[p].active /\ new.dests = policy[p].dests
  BY <1>1 DEF PolicyObj
<1>4. StorePolicy(p, new) /\ Exists(policy[p]) /\ UNCHANGED computed
  BY DEF EditPolicy
<1> HIDE DEF new
<1> QED
  BY <1>2, <1>3, <1>4, StorePolicyStores DEF TypeOK, ApiTypeOK

\* A deletion marks a policy that has the finalizer, and erases any other.
LEMMA DeleteStores ==
    ASSUME TypeOK, NEW p \in Policies, DeletePolicy(p)
    PROVE  /\ Exists(policy[p]) /\ ~policy[p].deleting
           /\ policy[p].fin =>
                  /\ Exists(policy'[p])
                  /\ policy'[p].uid = policy[p].uid
                  /\ policy'[p].gen = policy[p].gen + 1
                  /\ policy'[p].fin /\ policy'[p].deleting
                  /\ policy'[p].active = policy[p].active
                  /\ policy'[p].dests = policy[p].dests
           /\ ~policy[p].fin => ~Exists(policy'[p])
           /\ \A r \in Policies \ {p} : policy'[r] = policy[r]
           /\ UNCHANGED computed
<1>1. CASE policy[p].fin
  <2> DEFINE new == [policy[p] EXCEPT !.gen = @ + 1, !.deleting = TRUE]
  <2>1. policy[p] \in PolicyObj /\ policy[p].gen + 1 \in Nat
    BY DEF DeletePolicy, Exists, PolicyObj, TypeOK, ApiTypeOK
  <2>2. new \in PolicyObj
    BY <2>1, RetiredType
  <2>3. /\ new.uid = policy[p].uid /\ new.gen = policy[p].gen + 1
        /\ new.fin = policy[p].fin /\ new.deleting = TRUE
        /\ new.active = policy[p].active /\ new.dests = policy[p].dests
    BY <2>1 DEF PolicyObj
  <2>4. StorePolicy(p, new) /\ Exists(policy[p]) /\ ~policy[p].deleting /\ UNCHANGED computed
    BY <1>1 DEF DeletePolicy
  <2> HIDE DEF new
  <2>5. /\ Exists(policy'[p])
        /\ policy'[p].uid = new.uid /\ policy'[p].gen = new.gen /\ policy'[p].fin = new.fin
        /\ policy'[p].deleting = new.deleting /\ policy'[p].active = new.active
        /\ policy'[p].dests = new.dests
        /\ \A r \in Policies \ {p} : policy'[r] = policy[r]
    BY <2>2, <2>4, StorePolicyStores DEF TypeOK, ApiTypeOK
  <2> QED
    BY <1>1, <2>3, <2>4, <2>5
<1>2. CASE ~policy[p].fin
  BY <1>2 DEF DeletePolicy, ErasePolicy, Exists, TypeOK, ApiTypeOK
<1> QED
  BY <1>1, <1>2

\* The finalizer goes to the incarnation that the cache has seen.
LEMMA AddFinalizerStores ==
    ASSUME TypeOK, TrueCopies, NEW p \in Policies, AddFinalizer(p)
    PROVE  /\ Exists(policy[p]) /\ ~policy[p].fin /\ ~policy[p].deleting
           /\ Exists(policy'[p])
           /\ policy'[p].uid = policy[p].uid
           /\ policy'[p].gen = policy[p].gen
           /\ policy'[p].fin
           /\ ~policy'[p].deleting
           /\ policy'[p].active = policy[p].active
           /\ policy'[p].dests = policy[p].dests
           /\ \A r \in Policies \ {p} : policy'[r] = policy[r]
           /\ UNCHANGED computed
<1> DEFINE new == [cache[p] EXCEPT !.fin = TRUE]
<1>1. /\ cache[p] \in PolicyObj
      /\ policy[p] = cache[p] /\ Exists(policy[p])
      /\ StorePolicy(p, new)
      /\ ~policy[p].fin /\ ~policy[p].deleting
      /\ UNCHANGED computed
  BY DEF AddFinalizer, TypeOK, Exists, TrueCopies, Current
<1>2. new \in PolicyObj
  BY <1>1, GuardedType
<1>3. /\ new.uid = policy[p].uid /\ new.gen = policy[p].gen /\ new.fin = TRUE
      /\ new.deleting = policy[p].deleting
      /\ new.active = policy[p].active /\ new.dests = policy[p].dests
  BY <1>1 DEF PolicyObj
<1> HIDE DEF new
<1> QED
  BY <1>1, <1>2, <1>3, StorePolicyStores DEF TypeOK, ApiTypeOK

\* Letting the finalizer go erases a policy that was marked.
LEMMA RemoveFinalizerStores ==
    ASSUME TypeOK, TrueCopies, NEW p \in Policies, RemoveFinalizer(p)
    PROVE  /\ Exists(policy[p]) /\ policy[p].deleting
           /\ ~Exists(policy'[p])
           /\ \A r \in Policies \ {p} : policy'[r] = policy[r]
           /\ UNCHANGED computed
BY DEF RemoveFinalizer, ErasePolicy, TypeOK, ApiTypeOK, Exists, TrueCopies, Current

\* Within an incarnation the Active condition moves only to the generation,
\* and the preference, that are in the store at that moment.
THEOREM ActiveIsCurrent == Spec => ActiveObservesStore
<1>1. ASSUME IndInv, [Next]_vars
      PROVE  \A p \in Policies :
                /\ Exists(policy[p]) /\ Exists(policy'[p])
                /\ policy'[p].uid = policy[p].uid
                /\ policy'[p].active # policy[p].active
                => policy'[p].active = policy[p].gen /\ policy[p].pref = pol.pref
  <2> SUFFICES ASSUME NEW p \in Policies, Exists(policy[p]), Exists(policy'[p]),
                      policy'[p].active # policy[p].active
               PROVE  policy'[p].active = policy[p].gen /\ policy[p].pref = pol.pref
    OBVIOUS
  <2>t. TypeOK'
    BY <1>1, TypeNext DEF IndInv
  <2>1. MarkActive /\ p = key
    BY <1>1, <2>t, PolicyWrites, CreateStores, EditStores, DeleteStores, AddFinalizerStores,
       RemoveFinalizerStores, CopiesAreTrue
  <2> QED
    BY <1>1, <2>1, MarkActiveStores, CopiesAreTrue
<1> QED
  BY <1>1, Invariance, PTL DEF Spec, ActiveObservesStore

-----------------------------------------------------------------------------
(***************************************************************************)
(* The operator implements PathIntent.                                     *)
(***************************************************************************)
SameIntent(p) ==
    /\ PhaseOf(p)' = PhaseOf(p)
    /\ ServedBy(p)' = ServedBy(p)
    /\ Claimed(p)' = Claimed(p)

\* An untouched policy looks the same, as long as it owns the same paths.
LEMMA UntouchedIntent ==
    ASSUME NEW p \in Policies, policy'[p] = policy[p],
           \A n \in Names : OwnedBy(n, p)' <=> OwnedBy(n, p)
    PROVE  SameIntent(p)
<1>1. \A q \in Peers : PathName[<<p, q>>] \in Names
  BY PathNameAssumption
<1>2. ServedBy(p)' = ServedBy(p)
  BY <1>1 DEF ServedBy
<1> QED
  BY <1>2 DEF SameIntent, PhaseOf, Claimed, Exists

\* A step that changes no policy's intent is a stutter of PathIntent.
LEMMA StutterIntent ==
    ASSUME \A p \in Policies : SameIntent(p)
    PROVE  UNCHANGED Intent!intent
BY DEF SameIntent, Intent!intent

\* Policies that are not written keep their paths when no path is written.
LEMMA OthersKeepIntent ==
    ASSUME NEW p \in Policies, \A r \in Policies \ {p} : policy'[r] = policy[r],
           UNCHANGED computed
    PROVE  \A r \in Policies \ {p} : SameIntent(r)
<1> TAKE r \in Policies \ {p}
<1>1. \A n \in Names : OwnedBy(n, r)' <=> OwnedBy(n, r)
  BY DEF OwnedBy, Exists
<1> QED
  BY <1>1, UntouchedIntent

\* A policy that stays the incarnation it was keeps its paths.
LEMMA SameServed ==
    ASSUME NEW p \in Policies, Exists(policy[p]), Exists(policy'[p]),
           policy'[p].uid = policy[p].uid, UNCHANGED computed
    PROVE  ServedBy(p)' = ServedBy(p)
BY DEF ServedBy, OwnedBy, Exists

\* The mapped step, from what it does to one policy.
LEMMA OneStep ==
    ASSUME NEW p \in Policies, \A r \in Policies \ {p} : SameIntent(r)
    PROVE  /\ [r \in Policies |-> PhaseOf(r)]' = [[r \in Policies |-> PhaseOf(r)] EXCEPT ![p] = PhaseOf(p)']
           /\ [r \in Policies |-> ServedBy(r)]' = [[r \in Policies |-> ServedBy(r)] EXCEPT ![p] = ServedBy(p)']
           /\ [r \in Policies |-> Claimed(r)]' = [[r \in Policies |-> Claimed(r)] EXCEPT ![p] = Claimed(p)']
           /\ PhaseOf(p)' = PhaseOf(p) => UNCHANGED [r \in Policies |-> PhaseOf(r)]
           /\ ServedBy(p)' = ServedBy(p) => UNCHANGED [r \in Policies |-> ServedBy(r)]
           /\ Claimed(p)' = Claimed(p) => UNCHANGED [r \in Policies |-> Claimed(r)]
BY DEF SameIntent

\* A write to a policy is a step of PathIntent.
LEMMA PolicyStepImplements ==
    ASSUME IndInv, TypeOK', [Next]_vars, NEW p \in Policies, policy'[p] # policy[p]
    PROVE  [Intent!IntentNext]_(Intent!intent)
<1> USE DEF Exists
<1>0. TypeOK /\ TrueCopies
  BY CopiesAreTrue
<1>1. ASSUME NEW f \in Prefs \cup {NoPref}, CreatePolicy(p, f)
      PROVE  Intent!Appear(p)
  <2>1. /\ PhaseOf(p) = "absent" /\ PhaseOf(p)' = "plain"
        /\ Claimed(p) = {} /\ Claimed(p)' = {}
    BY <1>1, CreateStores DEF PhaseOf, Claimed, IndInv
  <2>2. ServedBy(p) = {} /\ ServedBy(p)' = {}
    BY <1>1, CreateStores, PathNameAssumption
       DEF ServedBy, OwnedBy, IndInv, VersionsInOrder, TypeOK, ApiTypeOK, PathObj
  <2>3. \A r \in Policies \ {p} : SameIntent(r)
    BY <1>1, CreateStores, OthersKeepIntent DEF IndInv
  <2> QED
    BY <2>1, <2>2, <2>3, OneStep DEF Intent!Appear
<1>2. ASSUME NEW f \in Prefs \cup {NoPref}, EditPolicy(p, f)
      PROVE  UNCHANGED Intent!intent
  <2>1. SameIntent(p)
    BY <1>2, EditStores, SameServed DEF SameIntent, PhaseOf, Claimed, IndInv
  <2>2. \A r \in Policies \ {p} : SameIntent(r)
    BY <1>2, EditStores, OthersKeepIntent DEF IndInv
  <2> QED
    BY <2>1, <2>2, StutterIntent
<1>3. ASSUME ~Exists(policy'[p]), PhaseOf(p) \in {"plain", "retired"},
             \A r \in Policies \ {p} : SameIntent(r)
      PROVE  Intent!Vanish(p)
  <2>1. PhaseOf(p)' = "absent" /\ Claimed(p)' = {} /\ ServedBy(p)' = {}
    BY <1>3 DEF PhaseOf, Claimed, ServedBy, OwnedBy
  <2> QED
    BY <1>3, <2>1, OneStep DEF Intent!Vanish
<1>4. ASSUME DeletePolicy(p)
      PROVE  Intent!Retire(p) \/ Intent!Vanish(p) \/ UNCHANGED Intent!intent
  <2>1. \A r \in Policies \ {p} : SameIntent(r)
    BY <1>4, DeleteStores, OthersKeepIntent DEF IndInv
  <2>2. CASE policy[p].fin
    <3>1. /\ PhaseOf(p) = "guarded" /\ PhaseOf(p)' = "retired"
          /\ Claimed(p)' = Claimed(p) /\ ServedBy(p)' = ServedBy(p)
      BY <1>4, <2>2, DeleteStores, SameServed DEF PhaseOf, Claimed, IndInv
    <3> QED
      BY <2>1, <3>1, OneStep DEF Intent!Retire
  <2>3. CASE ~policy[p].fin
    <3>1. PhaseOf(p) = "plain" /\ ~Exists(policy'[p])
      BY <1>4, <2>3, DeleteStores DEF PhaseOf, IndInv
    <3> QED
      BY <1>3, <2>1, <3>1
  <2> QED
    BY <2>2, <2>3
<1>5. ASSUME RemoveFinalizer(p)
      PROVE  Intent!Vanish(p)
  <2>1. \A r \in Policies \ {p} : SameIntent(r)
    BY <1>5, <1>0, RemoveFinalizerStores, OthersKeepIntent
  <2>2. PhaseOf(p) = "retired" /\ ~Exists(policy'[p])
    BY <1>5, <1>0, RemoveFinalizerStores DEF PhaseOf
  <2> QED
    BY <1>3, <2>1, <2>2
<1>6. ASSUME AddFinalizer(p)
      PROVE  Intent!Guard(p)
  <2>1. \A r \in Policies \ {p} : SameIntent(r)
    BY <1>6, <1>0, AddFinalizerStores, OthersKeepIntent
  <2>2. /\ PhaseOf(p) = "plain" /\ PhaseOf(p)' = "guarded"
        /\ Claimed(p)' = Claimed(p) /\ ServedBy(p)' = ServedBy(p)
    BY <1>6, <1>0, AddFinalizerStores, SameServed DEF PhaseOf, Claimed
  <2> QED
    BY <2>1, <2>2, OneStep DEF Intent!Guard
<1>7. ASSUME MarkActive, p = key
      PROVE  Intent!Claim(p, Known(snap))
  <2>1. UNCHANGED computed
    BY <1>7 DEF MarkActive
  <2>2. \A r \in Policies \ {p} : SameIntent(r)
    BY <1>7, <1>0, <2>1, MarkActiveStores, OthersKeepIntent
  <2>3. /\ Exists(policy[p]) /\ Exists(policy'[p]) /\ policy'[p].uid = policy[p].uid
        /\ policy[p].fin /\ ~policy[p].deleting /\ policy'[p].fin /\ ~policy'[p].deleting
        /\ policy'[p].dests = Known(snap)
    BY <1>7, <1>0, MarkActiveStores, MarkActiveWrites
  <2>4. /\ PhaseOf(p) = "guarded" /\ PhaseOf(p)' = PhaseOf(p)
        /\ Claimed(p)' = Known(snap) /\ ServedBy(p)' = ServedBy(p)
    BY <2>1, <2>3, SameServed DEF PhaseOf, Claimed
  <2>5. Known(snap) \subseteq ServedBy(p)
    BY <1>7, MarkActiveWrites DEF ServedBy, Known, IndInv, TypeOK
  <2> QED
    BY <2>2, <2>4, <2>5, OneStep DEF Intent!Claim
<1>8. Known(snap) \in SUBSET Peers
  BY DEF Known, IndInv, TypeOK
<1> QED
  BY <1>1, <1>2, <1>4, <1>5, <1>6, <1>7, <1>8, <1>0, PolicyWrites DEF Intent!IntentNext

\* Writes of computed paths: the garbage collector and the worker.
LEMMA ComputedWrites ==
    ASSUME [Next]_vars, computed' # computed
    PROVE  \/ \E n \in Names : Collect(n)
           \/ CreatePath \/ UpdatePath
BY DEF Next, vars, Environment, UserStep, CreatePolicy, EditPolicy, DeletePolicy, PutPeer,
       RemovePeer,
       RotatePaths, Deliver, DeliverPolicy, DeliverPeer, DeliverPath, Resync, PodStep, PodAddressed,
       PodDeleted, Start, NothingToDo, RemoveFinalizer, AddFinalizer, ListPeers, Visit, FetchReady,
       FetchPanics, KeepPath, PublishRefused, AwaitPaths, MarkActive, StatusRefused, Fault,
       FetchNotReady, TransientError, Restart, apiVars

\* So is a write to a computed path.
LEMMA PathStepImplements ==
    ASSUME IndInv, TypeOK', [Next]_vars, UNCHANGED policy
    PROVE  [Intent!IntentNext]_(Intent!intent)
<1> USE DEF Exists
<1>1. CASE UNCHANGED computed
  <2>1. \A p \in Policies : SameIntent(p)
    BY <1>1, UntouchedIntent DEF OwnedBy
  <2> QED
    BY <2>1, StutterIntent
<1>2. ASSUME NEW n \in Names, Collect(n)
      PROVE  UNCHANGED Intent!intent
  <2>1. \A p \in Policies, m \in Names : OwnedBy(m, p)' <=> OwnedBy(m, p)
    BY <1>2 DEF Collect, CollectPath, OwnedBy, IndInv, TypeOK, ApiTypeOK
  <2> QED
    BY <2>1, UntouchedIntent, StutterIntent
<1>3. CASE CreatePath \/ UpdatePath
  <2>1. pc = "publish" /\ StorePath(Target, Wanted(0))
    BY <1>3 DEF CreatePath, UpdatePath
  <2>2. Target \in Names /\ Wanted(0) \in PathObj
    BY <2>1, PathNameAssumption
       DEF Wanted, Target, PathObj, PolicyObj, Answer, IndInv, TypeOK
  <2> PICK n \in Names : n = Target
    BY <2>2
  <2> PICK p \in Policies : p = key
    BY <2>1, LockedIsLive DEF IndInv
  <2>3. /\ \A m \in Names \ {n} : computed'[m] = computed[m]
        /\ computed'[n].owner = p /\ computed'[n].uid = policy[p].uid
        /\ Exists(computed'[n]) /\ Exists(policy[p])
    BY <2>1, <2>2, LockedIsLive, AbsentAssumption
       DEF StorePath, Wanted, PathObj, IndInv, TypeOK, ApiTypeOK
  <2>4. Exists(computed[n]) => computed[n].owner = p
    BY <1>3, <2>2 DEF CreatePath, CanCreate, UpdatePath, CanUpdate, Mine, IndInv, GoodCaches,
           GoodPathCopy
  <2>5. \A r \in Policies \ {p} : SameIntent(r)
    <3> TAKE r \in Policies \ {p}
    <3>1. \A m \in Names : OwnedBy(m, r)' <=> OwnedBy(m, r)
      BY <2>3, <2>4 DEF OwnedBy
    <3> QED
      BY <3>1, UntouchedIntent
  <2> DEFINE peers == {q \in Peers : PathName[<<p, q>>] = n}
  <2>6. /\ PhaseOf(p)' = PhaseOf(p)
        /\ Claimed(p)' = Claimed(p)
        /\ PhaseOf(p) \in {"guarded", "retired"}
    BY <2>1, LockedIsLive DEF PhaseOf, Claimed, IndInv
  <2>7. ServedBy(p)' = ServedBy(p) \cup peers
    BY <2>3, PathNameAssumption DEF ServedBy, OwnedBy
  <2>8. Intent!Serve(p, peers)
    BY <2>5, <2>6, <2>7, OneStep DEF Intent!Serve
  <2> QED
    BY <2>8 DEF Intent!IntentNext
<1> QED
  BY <1>1, <1>2, <1>3, ComputedWrites

\* What the user sees of the operator is a behaviour of PathIntent.
THEOREM Implementation == Spec => ImplementsIntent
<1>1. Init => Intent!IntentInit
  BY PathNameAssumption
     DEF Init, ApiInit, Intent!IntentInit, PhaseOf, ServedBy, Claimed, OwnedBy, Exists
<1>2. ASSUME IndInv, [Next]_vars
      PROVE  [Intent!IntentNext]_(Intent!intent)
  <2>1. TypeOK'
    BY <1>2, TypeNext DEF IndInv
  <2>2. CASE UNCHANGED policy
    BY <1>2, <2>1, <2>2, PathStepImplements
  <2>3. CASE policy' # policy
    <3> PICK p \in Policies : policy'[p] # policy[p]
      BY <1>2, <2>1, <2>3 DEF IndInv, TypeOK, ApiTypeOK
    <3> QED
      BY <1>2, <2>1, PolicyStepImplements
  <2> QED
    BY <2>2, <2>3
<1> QED
  BY <1>1, <1>2, Invariance, PTL DEF Spec, ImplementsIntent, Intent!IntentSpec

=============================================================================
