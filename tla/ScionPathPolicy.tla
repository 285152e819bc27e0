---------------------------- MODULE ScionPathPolicy ----------------------------
(***************************************************************************)
(* The operator: ScionPathPolicyReconciler, its three watches, and the     *)
(* informer caches it reads through (internal/controller/                  *)
(* scionpathpolicy_controller.go).                                         *)
(*                                                                         *)
(* One worker takes policy keys from a work queue and turns each policy    *)
(* into one ScionComputedPath per known peer cluster.  Every Get and List  *)
(* of the code reads a cache that lags behind the store; every write goes  *)
(* to the store and is refused when the copy it was made from is stale.    *)
(*                                                                         *)
(* Steps.  A reconcile is cut at the points where others can interfere     *)
(* with its result: the reads it starts from, each FetchPath, each         *)
(* CreateOrUpdate, and the status update.  Two cached reads with nothing   *)
(* but reads between them are one step, as is a cached read followed by    *)
(* the guarded write it feeds: reading earlier is no different from the    *)
(* watch delivering later.  Time is abstracted: a retry, with backoff or   *)
(* after 10 seconds, is a key that is in the queue again.                  *)
(***************************************************************************)
EXTENDS ClusterApi

CONSTANTS
    Pods,           \* pods of the operator's cluster
    Selects,        \* per pod, the policies of its namespace that select it
    DefaultPolicy,  \* the key kube-system/default-scion-policy
    ClientWired     \* the ScionClient field was set when the manager started

ASSUME SelectsAssumption == Selects \in [Pods -> SUBSET Policies]
ASSUME DefaultPolicyAssumption == DefaultPolicy \in Policies
ASSUME ClientWiredAssumption == ClientWired \in BOOLEAN

VARIABLES
    cache,      \* the policy informer's copies
    peerCache,  \* the peer informer's copies
    pathCache,  \* the computed path informer's copies
    queue,      \* keys waiting for the worker
    podUp,      \* the pods that have an address
    pc,         \* where the worker is: idle, in the peer loop, before a write
    key,        \* the key being reconciled
    pol,        \* its copy of the policy
    snap,       \* its copy of the peer list
    todo,       \* the listed peers not visited yet
    allReady,   \* allPathsReady
    fetched     \* the answer of FetchPath that is about to be published

informers == <<cache, peerCache, pathCache>>
frame == <<key, pol, snap, todo, allReady, fetched>>
vars == <<apiVars, informers, queue, podUp, pc, frame>>

NoPeers == [q \in Peers |-> Absent]

Answer == [peer: Peers, epoch: Nat]

TypeOK ==
    /\ ApiTypeOK
    /\ cache \in [Policies -> PolicyObj \cup {Absent}]
    /\ peerCache \in [Peers -> Clusters \cup {Absent}]
    /\ pathCache \in [Names -> PathObj \cup {Absent}]
    /\ queue \subseteq Policies
    /\ podUp \subseteq Pods
    /\ pc \in {"idle", "next", "publish"}
    /\ key \in IF pc = "idle" THEN {Absent} ELSE Policies
    /\ pol \in IF pc = "idle" THEN {Absent} ELSE PolicyObj
    /\ snap \in [Peers -> Clusters \cup {Absent}]
    /\ todo \subseteq {q \in Peers : Exists(snap[q])}
    /\ allReady \in BOOLEAN
    /\ fetched \in IF pc = "publish" THEN Answer ELSE {Absent}
    /\ pc = "publish" => pol.pref \in Prefs /\ Exists(snap[fetched.peer])

Init ==
    /\ ApiInit
    /\ cache = policy
    /\ peerCache = peer
    /\ pathCache = computed
    /\ queue = {}
    /\ podUp = {}
    /\ pc = "idle"
    /\ key = Absent
    /\ pol = Absent
    /\ snap = NoPeers
    /\ todo = {}
    /\ allReady = TRUE
    /\ fetched = Absent

-----------------------------------------------------------------------------
(***************************************************************************)
(* What the watches enqueue.                                               *)
(***************************************************************************)

\* GenerationChangedPredicate: creations and deletions pass, updates only
\* with another generation.
Wakes(old, new) ==
    \/ ~Exists(old)
    \/ ~Exists(new)
    \/ old.uid # new.uid
    \/ old.gen # new.gen

Known(objects) == {k \in DOMAIN objects : Exists(objects[k])}

\* podToPolicyMapper: the matching policies among those listed, or else the
\* default policy, whether that exists or not.
PodPolicies(d, listed) ==
    LET matching == Selects[d] \cap Known(listed)
    IN  IF matching = {} THEN {DefaultPolicy} ELSE matching

DeliverPolicy(p) ==
    /\ cache[p] # policy[p]
    /\ cache' = [cache EXCEPT ![p] = policy[p]]
    /\ queue' = IF Wakes(cache[p], policy[p]) THEN queue \cup {p} ELSE queue
    /\ UNCHANGED <<apiVars, peerCache, pathCache, podUp, pc, frame>>

DeliverPeer(q) ==
    /\ peerCache[q] # peer[q]
    /\ peerCache' = [peerCache EXCEPT ![q] = peer[q]]
    /\ queue' = queue \cup Known(cache)
    /\ UNCHANGED <<apiVars, cache, pathCache, podUp, pc, frame>>

\* Nothing watches the computed paths: their cache fills without a wake-up.
DeliverPath(n) ==
    /\ pathCache[n] # computed[n]
    /\ pathCache' = [pathCache EXCEPT ![n] = computed[n]]
    /\ UNCHANGED <<apiVars, cache, peerCache, queue, podUp, pc, frame>>

\* Every 10 hours an informer reports its objects as updated to themselves.
\* The predicates drop this for policies and pods; peers have no predicate.
Resync ==
    /\ Known(peerCache) # {}
    /\ queue' = queue \cup Known(cache)
    /\ UNCHANGED <<apiVars, informers, podUp, pc, frame>>

\* podIPAssignedPredicate lets a pod pass when it gets its address.
PodAddressed(d) ==
    /\ d \notin podUp
    /\ podUp' = podUp \cup {d}
    /\ queue' = queue \cup PodPolicies(d, cache)
    /\ UNCHANGED <<apiVars, informers, pc, frame>>

\* It has no DeleteFunc: every deletion passes, also of a pod that never had
\* an address.
PodDeleted(d) ==
    /\ podUp' = podUp \ {d}
    /\ queue' = queue \cup PodPolicies(d, cache)
    /\ UNCHANGED <<apiVars, informers, pc, frame>>

-----------------------------------------------------------------------------
(***************************************************************************)
(* Reconcile.                                                              *)
(***************************************************************************)

\* The store accepts an update or a status update made from this copy of p.
Current(p, copy) == Exists(policy[p]) /\ policy[p].rv = copy.rv

Idle ==
    /\ pc' = "idle"
    /\ key' = Absent
    /\ pol' = Absent
    /\ snap' = NoPeers
    /\ todo' = {}
    /\ allReady' = TRUE
    /\ fetched' = Absent

\* Variant: what went wrong is logged, and Reconcile returns nil.
GiveUp == UNCHANGED queue /\ Idle

\* Reconcile returns an error, or asks to be called again.
Retry == queue' = queue \cup {key} /\ Idle

Take(p) == pc = "idle" /\ p \in queue

NothingToDo(p) ==
    /\ Take(p)
    /\ Exists(cache[p]) => cache[p].deleting /\ ~cache[p].fin
    /\ queue' = queue \ {p}
    /\ UNCHANGED <<apiVars, informers, podUp, pc, frame>>

\* Variant: the deletion branch returns without removing the finalizer.
LeaveFinalizer(p) ==
    /\ Take(p)
    /\ Exists(cache[p]) /\ cache[p].deleting /\ cache[p].fin
    /\ queue' = queue \ {p}
    /\ UNCHANGED <<apiVars, informers, podUp, pc, frame>>

\* With its finalizer gone the store erases the deleted policy.  An update
\* refused as stale changes nothing: the key is back in the queue.
RemoveFinalizer(p) ==
    /\ Take(p)
    /\ Exists(cache[p]) /\ cache[p].deleting /\ cache[p].fin
    /\ Current(p, cache[p])
    /\ ErasePolicy(p)
    /\ queue' = queue \ {p}
    /\ UNCHANGED <<peer, computed, pathVer, epoch, moves, informers, podUp, pc, frame>>

\* Having added the finalizer, Reconcile returns without computing anything.
AddFinalizer(p) ==
    /\ Take(p)
    /\ Exists(cache[p]) /\ ~cache[p].deleting /\ ~cache[p].fin
    /\ Current(p, cache[p])
    /\ StorePolicy(p, [cache[p] EXCEPT !.fin = TRUE])
    /\ queue' = queue \ {p}
    /\ UNCHANGED <<peer, computed, pathVer, epoch, moves, informers, podUp, pc, frame>>

\* Variant: paths are computed whether or not the finalizer is there.
ListPeersAnyway(p) ==
    /\ Take(p)
    /\ Exists(cache[p]) /\ ~cache[p].deleting
    /\ pc' = "next"
    /\ key' = p
    /\ pol' = cache[p]
    /\ snap' = peerCache
    /\ todo' = Known(peerCache)
    /\ queue' = queue \ {p}
    /\ UNCHANGED <<apiVars, informers, podUp, allReady, fetched>>

ListPeers(p) ==
    /\ Take(p)
    /\ Exists(cache[p]) /\ ~cache[p].deleting /\ cache[p].fin
    /\ pc' = "next"
    /\ key' = p
    /\ pol' = cache[p]
    /\ snap' = peerCache
    /\ todo' = Known(peerCache)
    /\ queue' = queue \ {p}
    /\ UNCHANGED <<apiVars, informers, podUp, allReady, fetched>>

\* r.ScionClient.FetchPath(peer.Spec.RemoteAS, *policy.Spec.Preference)
Callable == ClientWired /\ pol.pref # NoPref

FetchReady(q) ==
    /\ pc = "next" /\ q \in todo /\ Callable
    /\ pc' = "publish"
    /\ todo' = todo \ {q}
    /\ fetched' = [peer |-> q, epoch |-> epoch]
    /\ UNCHANGED <<apiVars, informers, queue, podUp, key, pol, snap, allReady>>

FetchNotReady(q) ==
    /\ pc = "next" /\ q \in todo /\ Callable
    /\ Move
    /\ todo' = todo \ {q}
    /\ allReady' = FALSE
    /\ UNCHANGED <<policy, peer, computed, policyVer, pathVer, epoch,
                   informers, queue, podUp, pc, key, pol, snap, fetched>>

\* A nil ScionClient or a nil preference: the panic is recovered by
\* controller-runtime and counts as an error.
FetchPanics ==
    /\ pc = "next" /\ todo # {} /\ ~Callable
    /\ Retry
    /\ UNCHANGED <<apiVars, informers, podUp>>

\* FetchPath, CreateOrUpdate or the status update fails for reasons of the
\* network or of the server.
TransientError ==
    /\ pc # "idle"
    /\ (pc = "next" /\ todo # {}) => Callable
    /\ Move
    /\ Retry
    /\ UNCHANGED <<policy, peer, computed, policyVer, pathVer, epoch, informers, podUp>>

(***************************************************************************)
(* controllerutil.CreateOrUpdate on the computed path of this policy and   *)
(* peer: create it when the cache has none, write nothing when the cached  *)
(* copy is the wanted one, update it otherwise.  SetControllerReference    *)
(* refuses a path that another policy controls, and takes over one that an *)
(* earlier incarnation of this policy left behind.                         *)
(***************************************************************************)
Target == PathName[<<key, fetched.peer>>]

\* Variant: the peer is looked up again when its path is written.
WantedFromCache(rv) ==
    [rv |-> rv, owner |-> key, uid |-> pol.uid,
     cluster |-> peerCache[fetched.peer], pref |-> pol.pref, epoch |-> fetched.epoch]

Wanted(rv) ==
    [rv |-> rv, owner |-> key, uid |-> pol.uid,
     cluster |-> snap[fetched.peer], pref |-> pol.pref, epoch |-> fetched.epoch]

\* Variant: the owner reference is replaced without a look at the old one.
AnyonesPath(copy) == Exists(copy)

Mine(copy) == Exists(copy) /\ copy.owner = key

\* Variant: a path that is there is left as it is.
CreateOnly == Exists(pathCache[Target])

UpToDate == pathCache[Target] = Wanted(pathCache[Target].rv)

CanCreate == ~Exists(pathCache[Target]) /\ ~Exists(computed[Target])

CanKeep == Mine(pathCache[Target]) /\ UpToDate

CanUpdate ==
    /\ Mine(pathCache[Target]) /\ ~UpToDate
    /\ Exists(computed[Target]) /\ computed[Target].rv = pathCache[Target].rv

Published ==
    /\ pc' = "next"
    /\ fetched' = Absent
    /\ UNCHANGED <<policy, peer, policyVer, epoch, moves, informers, queue, podUp,
                   key, pol, snap, todo, allReady>>

CreatePath ==
    /\ pc = "publish"
    /\ CanCreate
    /\ StorePath(Target, Wanted(0))
    /\ Published

KeepPath ==
    /\ pc = "publish"
    /\ CanKeep
    /\ UNCHANGED <<computed, pathVer>>
    /\ Published

\* Variant: a path that differs is deleted, for the next pass to create.
DeletePath ==
    /\ pc = "publish"
    /\ CanUpdate
    /\ computed' = [computed EXCEPT ![Target] = Absent]
    /\ UNCHANGED pathVer
    /\ Published

UpdatePath ==
    /\ pc = "publish"
    /\ CanUpdate
    /\ StorePath(Target, Wanted(0))
    /\ Published

\* Variant: a failed write is logged and the loop goes on.
SkipRefused ==
    /\ pc = "publish"
    /\ ~CanCreate /\ ~CanKeep /\ ~CanUpdate
    /\ UNCHANGED <<computed, pathVer>>
    /\ Published

\* AlreadyExists, AlreadyOwned, NotFound or Conflict.
PublishRefused ==
    /\ pc = "publish"
    /\ ~CanCreate /\ ~CanKeep /\ ~CanUpdate
    /\ Retry
    /\ UNCHANGED <<apiVars, informers, podUp>>

-----------------------------------------------------------------------------
\* Some destination was not ready: no status, and again in 10 seconds.
AwaitPaths ==
    /\ pc = "next" /\ todo = {} /\ ~allReady
    /\ Retry
    /\ UNCHANGED <<apiVars, informers, podUp>>

Activated == [pol EXCEPT !.active = pol.gen, !.dests = Known(snap)]

\* Variant: the status is patched, which ignores the resourceVersion.
PatchActive ==
    /\ pc = "next" /\ todo = {} /\ allReady
    /\ Exists(policy[key])
    /\ StorePolicy(key, [policy[key] EXCEPT !.active = pol.gen, !.dests = Known(snap)])
    /\ Idle
    /\ UNCHANGED <<peer, computed, pathVer, epoch, moves, informers, queue, podUp>>

\* Variant: destinations that were not ready are forgotten.
MarkActiveEarly ==
    /\ pc = "next" /\ todo = {}
    /\ Current(key, pol)
    /\ StorePolicy(key, Activated)
    /\ Idle
    /\ UNCHANGED <<peer, computed, pathVer, epoch, moves, informers, queue, podUp>>

\* SetStatusCondition and Status().Update: the condition observes the
\* generation of the copy, and counts the listed peers.  When the update is
\* stored and only its response is lost, the key is retried: that is this
\* step with a Resync, or a Restart, after it.
MarkActive ==
    /\ pc = "next" /\ todo = {} /\ allReady
    /\ Current(key, pol)
    /\ IF Activated = pol
       THEN UNCHANGED <<policy, policyVer>>
       ELSE StorePolicy(key, Activated)
    /\ Idle
    /\ UNCHANGED <<peer, computed, pathVer, epoch, moves, informers, queue, podUp>>

StatusRefused ==
    /\ pc = "next" /\ todo = {} /\ allReady
    /\ ~Current(key, pol)
    /\ Retry
    /\ UNCHANGED <<apiVars, informers, podUp>>

\* The operator's process dies and starts anew: its caches are listed from
\* the store, and what it finds there counts as created.
Restart ==
    /\ Move
    /\ cache' = policy
    /\ peerCache' = peer
    /\ pathCache' = computed
    /\ queue' = Known(policy) \cup UNION {PodPolicies(d, policy) : d \in podUp}
    /\ Idle
    /\ UNCHANGED <<policy, peer, computed, policyVer, pathVer, epoch, podUp>>

-----------------------------------------------------------------------------
(***************************************************************************)
(* The specification.                                                      *)
(***************************************************************************)
Start(p) == NothingToDo(p) \/ RemoveFinalizer(p) \/ AddFinalizer(p) \/ ListPeers(p)

Visit == \/ \E q \in Peers : FetchReady(q)
         \/ FetchPanics
         \/ CreatePath \/ KeepPath \/ UpdatePath \/ PublishRefused
         \/ AwaitPaths \/ MarkActive \/ StatusRefused

Fault == \/ \E q \in Peers : FetchNotReady(q)
         \/ TransientError
         \/ Restart

Deliver == \/ \E p \in Policies : DeliverPolicy(p)
           \/ \E q \in Peers : DeliverPeer(q)
           \/ \E n \in Names : DeliverPath(n)

PodStep == \E d \in Pods : PodAddressed(d) \/ PodDeleted(d)

operatorVars == <<informers, queue, podUp, pc, frame>>

Environment == (UserStep \/ RotatePaths) /\ UNCHANGED operatorVars

Collect(n) == CollectPath(n) /\ UNCHANGED operatorVars

Next ==
    \/ Environment
    \/ \E n \in Names : Collect(n)
    \/ Deliver
    \/ Resync
    \/ PodStep
    \/ \E p \in Policies : Start(p)
    \/ Visit
    \/ Fault

Spec == Init /\ [][Next]_vars

(***************************************************************************)
(* Fairness.  Watches deliver what changed, the informers resync, a worker *)
(* that holds a key goes on, and the garbage collector runs.  The work     *)
(* queue hands out keys in the order they became due, so a key that is     *)
(* ready again and again is taken (strong fairness).  Users, rotations,    *)
(* pods and faults are under no obligation; the bound on moves makes the   *)
(* faults cease.                                                           *)
(***************************************************************************)
Fairness ==
    /\ \A p \in Policies : WF_vars(DeliverPolicy(p)) /\ SF_vars(Start(p))
    /\ \A q \in Peers : WF_vars(DeliverPeer(q))
    /\ \A n \in Names : WF_vars(DeliverPath(n)) /\ WF_vars(Collect(n))
    /\ WF_vars(Resync)
    /\ WF_vars(Visit)

FairSpec == Spec /\ Fairness

-----------------------------------------------------------------------------
(***************************************************************************)
(* Properties.                                                             *)
(***************************************************************************)

\* The finalizer is a lock: while the worker computes paths for a policy,
\* that very incarnation is in the store, whatever users delete or recreate
\* meanwhile and however stale the caches are.  Only the worker that holds
\* the key could let it go (RemoveFinalizer, lines 65-75).
ReconcilesLivePolicy ==
    pc # "idle" => /\ Exists(policy[key])
                   /\ policy[key].uid = pol.uid

\* A policy that was ever reported Active for a set of destinations has for
\* each of them a computed path, owned by its present incarnation: a status
\* written after a partial or an outdated pass does not get through.
ActivePathsOwned ==
    \A p \in Policies : Exists(policy[p]) =>
        \A q \in policy[p].dests : OwnedBy(PathName[<<p, q>>], p)

\* A policy that owns a path has the finalizer: it cannot be erased behind
\* the operator's back.
PublishedUnderFinalizer ==
    \A p \in Policies, n \in Names : OwnedBy(n, p) => policy[p].fin

\* No path is ever written for an owner that is already gone: orphans come
\* from deletions alone, never from a late write of the worker.
NoOrphanWrites ==
    [][\A n \in Names : Exists(computed'[n]) /\ computed'[n] # computed[n]
            => OwnedBy(n, computed[n].owner)']_vars

\* When names collide, a path never passes from one policy to another while
\* it exists (SetControllerReference and the resourceVersion check).
NeverChangesHands ==
    [][\A n \in Names : Exists(computed[n]) /\ Exists(computed'[n])
            => computed'[n].owner = computed[n].owner]_vars

\* Within an incarnation the Active condition moves only to the generation
\* that is in the store, and only with the spec the paths were computed for.
ActiveObservesStore ==
    [][\A p \in Policies :
            /\ Exists(policy[p]) /\ Exists(policy'[p])
            /\ policy'[p].uid = policy[p].uid
            /\ policy'[p].active # policy[p].active
            => policy'[p].active = policy[p].gen /\ policy[p].pref = pol.pref]_vars

\* The policy is queued, with the worker, or has a change on its way to the
\* operator that the predicate will let through.
Pending(p) == p \in queue \/ p = key \/ Wakes(cache[p], policy[p])

\* No wake-up is lost, but one: a policy with which the operator has nothing
\* more to do is Active for its generation and for the clusters that the
\* operator knows, or it waits behind a finalizer just added for an event
\* that the reconcile which added it does not ask for (lines 78-84).  No
\* deletion is ever forgotten.
QuietIsSettled ==
    \A p \in Policies : Exists(policy[p]) /\ ~Pending(p) =>
        /\ policy[p].fin /\ ~policy[p].deleting
        /\ \/ policy[p].active = 0
           \/ policy[p].active = policy[p].gen /\ policy[p].dests = Known(peerCache)

\* A deletion is not held up for ever: the operator lets every deleted
\* policy go, and never hangs on one that it cannot compute.
DeletionCompletes ==
    \A p \in Policies :
        (Exists(policy[p]) /\ policy[p].deleting)
            ~> ~(Exists(policy[p]) /\ policy[p].deleting)

\* The path in the store is the one the control service gives now.
Fresh(p, q) ==
    LET n == PathName[<<p, q>>]
    IN  /\ OwnedBy(n, p)
        /\ computed[n].cluster = peer[q]
        /\ computed[n].pref = policy[p].pref
        /\ computed[n].epoch = epoch

Settled(p) ==
    Exists(policy[p]) =>
        /\ ~policy[p].deleting
        /\ policy[p].pref # NoPref /\ Known(peer) # {} =>
               /\ policy[p].active = policy[p].gen
               /\ policy[p].dests = Known(peer)
               /\ \A q \in Known(peer) : Fresh(p, q)

\* After the last edit, rotation and fault, every policy ends Active for the
\* clusters there are, with fresh paths, and no orphan is left.  Since the
\* operator does not watch computed paths and no one reports a rotation,
\* this rests on the periodic resync of the peers.
Converges ==
    <>[](/\ \A p \in Policies : Settled(p)
         /\ \A n \in Names : Exists(computed[n]) => OwnedBy(n, computed[n].owner))

-----------------------------------------------------------------------------
(***************************************************************************)
(* The operator implements PathIntent.                                     *)
(***************************************************************************)
PhaseOf(p) ==
    CASE ~Exists(policy[p]) -> "absent"
      [] Exists(policy[p]) /\ policy[p].deleting -> "retired"
      [] Exists(policy[p]) /\ ~policy[p].deleting /\ policy[p].fin -> "guarded"
      [] Exists(policy[p]) /\ ~policy[p].deleting /\ ~policy[p].fin -> "plain"

ServedBy(p) == {q \in Peers : OwnedBy(PathName[<<p, q>>], p)}

Claimed(p) == IF Exists(policy[p]) THEN policy[p].dests ELSE {}

Intent == INSTANCE PathIntent WITH
    phase <- [p \in Policies |-> PhaseOf(p)],
    served <- [p \in Policies |-> ServedBy(p)],
    claimed <- [p \in Policies |-> Claimed(p)]

\* Behind caches that lag, faults and restarts, the user sees PathIntent:
\* paths only under the finalizer and never withdrawn from a live policy,
\* Active only for served destinations and not during deletion.
ImplementsIntent == Intent!IntentSpec

-----------------------------------------------------------------------------
(***************************************************************************)
(* Statements of the repository that the code does not meet.               *)
(***************************************************************************)

\* scionpathpolicy_controller_test.go:102: after the reconcile that adds the
\* finalizer a second one "proceeds to injection and sets status".  Here:
\* every policy that can be computed is Active in the end, or gone.
BecomesActive ==
    \A p \in Policies :
        (Exists(policy[p]) /\ policy[p].pref # NoPref)
            ~> (Exists(policy[p]) => policy[p].deleting \/ policy[p].active = policy[p].gen)

\* scionpathpolicy_controller.go:119-120: CreateOrUpdate "updates it if the
\* SCION path has rotated/changed".  Here: a policy that is Active for its
\* present generation has the paths of its present preference.
ActiveMeansPreferred ==
    \A p \in Policies :
        Exists(policy[p]) /\ policy[p].active = policy[p].gen =>
            \A q \in policy[p].dests : computed[PathName[<<p, q>>]].pref = policy[p].pref

=============================================================================
