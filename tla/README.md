# CilION in TLA+

CilION sends the traffic of Kubernetes pods over SCION paths. A user writes a
`ScionPathPolicy`; an operator computes one path per known peer cluster and
stores each as a `ScionComputedPath`; an agent on every node is to load those
paths into eBPF maps; two eBPF programs encapsulate frames that leave the node
and decapsulate those that come in.

This directory models the parts of that chain that have code: the operator's
reconciler, alone and beside a second one, the library that asks the SCION
daemon for paths and caches them, the agent's eBPF `Loader`, and the two
programs. Two links have no code yet: the operator's `FetchPath` is an interface
without an implementation, and the agent's reconciler is scaffolding.

## 1. The system

| Part | Source | State | Operations | Modelled by |
|---|---|---|---|---|
| Kubernetes API | `api/v1alpha1/*_types.go` (layouts) | policies, peers, computed paths, their resourceVersions | user edits, guarded writes, garbage collection | `ClusterApi` |
| Operator | `internal/controller/scionpathpolicy_controller.go` | informer caches, work queue, one running reconcile | watch events, `Reconcile` | `ScionPathPolicy`, `PathIntent` |
| Entry point | `cmd/main.go` | none | start, restart, leader election | `Init`, `Restart` of `ScionPathPolicy`; `OperatorOverlap` |
| SCION path library | `pkg/scion` | a map of paths, one connection to the daemon | `Get`, `Refresh`, queries, sorting | `PathCache`, `PathOrder` |
| Agent's Loader | `internal/bpf/loader.go`, `types.go` | object handles, one XDP link; in the kernel: qdiscs, filters, programs, maps | `Load`, `AttachTC`, `DetachTC`, `AttachXDP`, map updates, `Close` | `Loader` |
| Egress program | `bpf/tc_egress.c`, `maps.h` | none; reads two maps | one run per frame | `Datapath`, `Headers` |
| Ingress program | `bpf/xdp_ingress.c`, `scion_mac.h` | none; reads one map | one run per frame | `Datapath`, `Headers` |
| Peer and computed-path reconcilers | `internal/controller/scionclusterpeer_controller.go`, `scioncomputedpath_controller.go` | none | return at once | not modelled |
| Manifests, CRDs, e2e tests, generated bindings | `config`, `test`, `*_bpfel.go` | none | | not modelled |

How they interact. The operator reads through caches that the watches fill
late, and writes to the API server, which refuses a write made from a stale
copy. Users edit policies and peers at any time. Every computed path has a
controller reference to its policy; the garbage collector removes it when that
incarnation is gone. The Loader writes kernel maps that the running programs
read without any lock; filters outlive the process, XDP programs do not. The
goroutines that ask the path library share a map, without a lock, and one
connection, behind a `sync.Once`.

What is hard about it:

- the operator works from copies that may be arbitrarily old, while policies
  are edited, deleted and recreated under the same name; only the finalizer
  and the resourceVersion stand between a late pass and the new incarnation;
- passes fail in the middle, panic, or die with the process, and are retried;
- a wake-up that a predicate drops is not repaired by anything but a resync;
- names of computed paths are joined from two names, and can collide;
- two operators run at once during a rolling update unless leader election is
  asked for, and the lock that the finalizer gives to one of them is no lock
  against the other;
- callers of the path library store answers in another order than they got
  them, and a data race on the map may go unnoticed;
- a program holds a pointer into a map whose element is being replaced, and
  may be freed and filled again, between two of its reads;
- a handle that is overwritten is closed later, by a finalizer, behind the
  program's back; a filter of a dead process stays in force.

What makes each part correct:

- operator: paths are published only for a live incarnation and under its
  finalizer; a path never changes hands; Active is said only of what is there,
  for the stored generation; a deletion always completes; after the last
  change the paths become those of the present specs;
- two operators: what the finalizer and the resourceVersion still give, and in
  which one way a live policy can lose a path;
- path library: an answer is as new as the calls it overlapped, failures take
  nothing away, lists do not change their order, and every call ends;
- Loader: every running XDP program is held by exactly one link; `Close`
  leaves nothing behind; the routes of a dead process stay as they were until
  its filter is detached;
- programs: a frame grows by the headroom that was checked; replacing a policy or a
  path never lets a frame out in the clear; a frame is sent along one path,
  and one of its own pod's.

`PROJECT.json` lists the hazards line by line with the properties that cover
them.

## 2. Modules

```
ClusterApi ---- ScionPathPolicy ---- MCScionPathPolicy
                  |  INSTANCE PathIntent
                  +-- ScionPathPolicyProofs -- OperatorView -- WakeUps
                                                 |  INSTANCE twice, as A and as B
                                           OperatorOverlap -- MCOperatorOverlap
                                                 +-- OperatorOverlapProofs

PathOrder ----- PathCache ------ MCPathCache
  |                |
  PathOrderProofs -+-- PathCacheProofs

Loader ------- MCLoader          Headers
  |  \                              |
  |   LoaderProofs                  |
  +---------------- Datapath -------+---- MCDatapath
                      |  INSTANCE PodRouting
          LoaderProofs + Datapath ---- DatapathProofs
```

The modules of the system state it and its properties; the inductive invariants
are in the proof modules.

### ClusterApi: the store and its users

External except for the object layouts. A policy has a `uid` (incarnation), an
`rv` (resourceVersion), a generation, its preference, the deletion mark, the
finalizer, and the status as the pair of the generation its Active condition
observed and the destinations the condition's message counts (`dests`; the code
stores only the number). `StorePolicy` gives every change the next version of
its key. `CreatePolicy`, `EditPolicy`, `DeletePolicy`, `PutPeer`, `RemovePeer`,
`RotatePaths` are moves of the environment; `CollectPath` is the garbage
collector.

### ScionPathPolicy: the operator

`cache`, `peerCache`, `pathCache` are the informers' copies, `queue` the work
queue, and `pc`, `key`, `pol`, `snap`, `todo`, `allReady`, `fetched` the locals
of one running `Reconcile` (`key` to `fetched`: request, policy, peer list,
loop position, `allPathsReady`, the answer of `FetchPath`).

| Action | Code (`scionpathpolicy_controller.go`) |
|---|---|
| `DeliverPolicy`, `Wakes` | policy watch with `GenerationChangedPredicate`, :223-225 |
| `DeliverPeer`, `Resync` | peer watch, no predicate, :232-248 |
| `PodAddressed`, `PodDeleted`, `PodPolicies` | pod watch, predicate :164-179, mapper :181-221 |
| `NothingToDo`, `RemoveFinalizer`, `AddFinalizer` | :58-84 |
| `ListPeers` | :86-96 |
| `FetchReady`, `FetchNotReady`, `FetchPanics` | :98-108 |
| `CreatePath`, `KeepPath`, `UpdatePath`, `PublishRefused` | `CreateOrUpdate`, :110-138 |
| `AwaitPaths`, `MarkActive`, `StatusRefused` | :140-158 |
| `TransientError`, `Restart` | the error returns; the death of the process |

A reconcile is cut where others can interfere with it: its first reads, each
`FetchPath`, each `CreateOrUpdate`, the status update. Cached reads that follow
one another are one step, and so is a cached read with the guarded write it
feeds: the write succeeds only if nothing was written in between, and reading
earlier is the same as the watch delivering later. The watch jumps to the
present state; intermediate events that a slow informer would show one by one
lead only to further wake-ups. A retry with backoff or after ten seconds is a
key in the queue again.

`PathIntent` is what the operator promises, without caches, queue or versions:
a policy appears, is guarded, served, claimed Active for destinations that are
all served, retired, and vanishes. `ScionPathPolicy` implements it under the
mapping `PhaseOf`, `ServedBy`, `Claimed` (property `ImplementsIntent`).

`QuietIsSettled` says what may be when nothing moves: a policy that is not
queued, not with the worker and has no change under way that the predicate lets
through (`Pending`) is Active for its generation and the known clusters, or has
just been given its finalizer. That exception is the one lost wake-up of the
code (run `lost_wakeup`); the property says that there is no other, and that no
deletion is forgotten. It is what `Converges` and `DeletionCompletes` rest on,
without fairness.

### OperatorOverlap: two operators

`--leader-elect` is off by default (`cmd/main.go:71`), and a rolling update
starts the new process before it stops the old one. `A` and `B` are two
instances of `ScionPathPolicy`, each with caches, queue and worker of its own;
the store, the users and the garbage collector are shared. With the flag, which
`config/manager/manager.yaml` sets, the new process fills its caches only once
it leads and the old one is gone: that is `Restart`.

The instances are of `WakeUps`, which with `OperatorView` extends the operator
and its proofs: what one operator knows of a store to which others write
(`View`), what a step of it leaves to the others (`SharedStep`), and what wakes
it (`Watch`).

Four promises of one operator fail with two: `ReconcilesLivePolicy` (one lets
the finalizer go while the other computes), and with it `NoOrphanWrites`,
`ActivePathsOwned` and `ImplementsIntent` (a worker that still holds a copy of
an erased incarnation writes its path over that of the new one). The run states
what is left: paths only under the finalizer, Active only for the stored
generation, `LostToLateWritesOnly`: that late write is the only way in which a
live policy loses a path, and `QuietIsSettled`: between the two of them no
policy is forgotten.

### PathOrder and PathCache: the path library

| Action | Code (`pkg/scion`) |
|---|---|
| `Get`, `Return` | `PathCache.Get`, path_cache.go:29-36 |
| `Dial`, `HostReady` | `initOnce.Do`, host.go:49-52 |
| `Dialed`, `DialFails` | `initHostContext`, `mustInitHostContext`, host.go:54-96 |
| `QueryPaths`, `QueryFails` | `QueryPaths`, paths.go:89-134; the error branch, path_cache.go:20-23 |
| `BeginWrite`, `EndWrite` | the assignment, path_cache.go:25 |
| `BeginRead`, `EndRead` | the lookup, path_cache.go:34 |
| `Throw`, `Change` | the Go runtime's check of maps; the daemon |

An access to the map takes time. When two overlap and one is a write, the
runtime may notice (`Throw`) or not; then the write may be lost with any other
entries, and a read may give anything (`None` stands for it). A caller that met
a race, or whose call was under way when one damaged the map, is `raced`. `age`,
`began` and `oldest` are history: how many changes of the network an answer, or
a call, has seen.

`queryPaths` has its call of the daemon commented out and answers with nothing.
With `Stubbed` the model does just that; otherwise it answers what its signature
allows and its callers handle. The run takes the latter, with the empty answer
among the daemon's.

`PathOrder` has the order of `SortPartsPaths`: by the length of the joined
names, then alphabetically. A name is its length and its rank among names;
comparing the joined strings is comparing the lists of interfaces, because a
comma comes before every character of a name. `SortPartsPaths` is the set of all
lists that the sort may return, since `sort.Slice` is not stable.

### Loader: hooks, links and maps

Its caller is taken to be one goroutine that calls `Load` first and once, as
`New`'s comment asks; no code calls it yet. `loads` numbers the loads of all
processes; each load owns a set of TC maps and a set of XDP maps. A filter or a
program on an interface is named by its load. `xdpLink` is `l.xdpLink`, `stray`
the interfaces of links that it referred to before. `AttachTC` is two steps
(`AddQdisc`, then `AddFilter` or `FilterRefused`), as its two netlink calls are,
and an interface may go in between. `RouteAt` is the path that a pod's frames
get on an interface: by the filter there, the load it belongs to and that load's
maps. `LastKnownGood` says who may change it. `Finalize`, `Die`, `Vanish`, `Appear` are
the Go runtime, the operating system and the network.

### Headers and Datapath: the programs

`Headers` holds struct sizes as the compiler lays them out and the lengths the
programs compute. `Datapath` extends `Loader` with one egress frame in flight
and with ingress frames. The egress program is cut at its reads of the maps:
`LookupPolicy`, `LookupPath`, `ReadLength` (`path_len`, into `room`), `OpenRoom`
or `Shoot`, `WriteMac`, `WriteAddress`. Both maps are preallocated hash maps (`maps.h` sets no flags):
an update puts a new element in the place of the old one, and the next update
may fill the old one, to which the program still points. `id`, `entry` and
`linked` are what is behind the pointers. `writes`, `missing` and `paths` are
history variables that only properties read. A Loader step in `Datapath` is a
step of `Loader` with what it does to the pointers.

`PodRouting` is what a pod's frame may expect, without maps and pointers: it has
one fate; it goes in the clear only if the pod had no route at some time of its
way, is dropped only if it had one, and is sent with the whole header of one
route that was the pod's. The promise ends with the second change during its
way. `Datapath` implements it under the mapping `FateOf`, `paths` and `missing`,
`writes`, `Header` (property `ImplementsRouting`).

`xdp_ingress` has one lookup, and is one step. The MAC it compares with is the
one `calculate_scion_mac`, a stub, computes for every hop field: zeros.

Assumed of the compiled program: `path_len` is read once, into the local of
line 169. The check uses it in `ReadLength`, and the headroom is opened in
`OpenRoom`, after any number of writes to the entry; `GrowsAsChecked` compares
the two, and its mutant reads through the pointer again. The C sources do not compile as they are (`tc_egress.c:121-122` names
`scion` and `meta`, which are declared nowhere; `scion_mac.h` indexes a bit
field); the model takes the code as it reads otherwise.

## 3. Runs

Times are of one machine with two workers.

| Run | Question | Size |
|---|---|---|
| `safety` | one policy, two peers, four moves of the environment: the invariants, the action properties, `QuietIsSettled`, and `ImplementsIntent` | 702,704 states, 1 min |
| `shared_name` | two policies whose computed path has one name: who owns it, who is Active over it | 1,322,838 states, 1 min |
| `liveness` | one policy, one peer, one pod, four moves, under fairness: `DeletionCompletes`, `Converges` | 113,410 states, 30 s |
| `overlap` | two operators, one policy, one peer, three moves, three writes of the path: what is left of the operator's promises, `QuietIsSettled` | 2,262,330 states, 2 min |
| `path_cache` | two callers, two remotes of one AS, three sets of paths, one change: age of answers, failures, order, and that calls end | 447,108 states, 1 min |
| `hooks` | two interfaces, two loads (a death and a second process): links, `Close`, `LastKnownGood` | 15,284 states, 1 s |
| `packets` | a frame against two writes to the maps, with hooks coming and going, and `ImplementsRouting` | 3,248,234 states, 2 min |

The bounds, and why they are enough:

- `MaxMoves` bounds edits, faults, rotations and restarts together. Four are the
  length of the longest scenario we know to be dangerous (create, delete,
  recreate, and a fault), and every mutant of the code that breaks a property
  is caught within them. Two peers are needed for a loop that is left in the
  middle, one is enough for everything about wake-ups.
- In `overlap`, three moves are a creation, a deletion and a recreation, which
  with two operators need no fault to be dangerous: each of the four promises
  named above is violated within them. `MaxPathWrites = 3` is there because two
  operators with caches that lag may overwrite each other's path for ever.
- In `path_cache`, two callers make every race, one change tells older from
  newer answers, and two remotes show an entry lost to the write of another. Of
  the paths two have names of one length, and one has fewer hops but a longer
  name, so each part of the order matters.
- `MaxLoads = 2` gives a second process that finds the first one's filter.
  Two interfaces are needed for a link that another call overwrites.
- `MaxWrites = 2`: one write is what the properties tolerate, the second is the
  one that refills an element. Two entries differ in next hop, and a third is
  too long by one byte.

`CHECK_DEADLOCK FALSE` is set for the operators: once the moves are used up and
everything has settled, an operator without peers has nothing to do; and for
`path_cache`, where the process may have ended.

Five further runs end in a counterexample. Each shows that the code does not
do what the repository says of it; `PROJECT.json` quotes the sentence.

| Run | What happens |
|---|---|
| `lost_wakeup` | After adding the finalizer, `Reconcile` returns, and the update it made is filtered by the generation predicate. Without a peer or a pod event nothing wakes the operator again. |
| `stale_copy` | The preference goes from f1 to f2 and back while the path cache is behind: `CreateOrUpdate` compares with the old copy and writes nothing, and the policy is Active over f2's path. |
| `stray_link` | `AttachXDP` overwrites the handle of the first link, which is then closed by its finalizer. |
| `torn_entry` | Two updates between two reads: the MAC of one next hop, the address of another. |
| `xdp_key` | Updates go to the TC objects' map only; the ingress program drops every SCION frame for want of a key. |

Beyond these: the reconciler dereferences `spec.preference` (:98), which is
optional, so a policy without one panics in every pass over a peer
(`FetchPanics`); peers of one name in two namespaces share one computed path
(:111) while the status counts two; `GetFirstHop` (paths.go:85) returns the
AS of the first interface, which is the local one. An agent
that comes back does not "enforce that state in the kernel" (`policies.md:176`)
by calling `AttachTC`: where its dead predecessor left a filter it is refused,
and frames go by the dead process's maps, which nobody can write any more, until
`DetachTC` (`LastKnownGood`). `cmd/main.go` never sets
`ScionClient`. With `ClientWired = FALSE` every pass over a peer panics; the runs
take it as set, which is how the reconciler is meant to be used.

## 4. Fairness

`FairSpec` assumes that watches deliver what changed, informers resync, the
worker that holds a key goes on, and the garbage collector runs (weak
fairness), and that a key which is ready again and again is taken (strong
fairness; the work queue is first in, first out). Informers and the queue are
controller-runtime's and promise this. Nothing is assumed of users, rotations,
pods or faults; `MaxMoves` makes faults cease, as a promise of convergence has
to. `Converges` depends on the resync of the peers: the operator does not watch
the computed paths, and nothing tells it of a rotation. Loader and datapath have
no liveness: nothing in the repository drives them.

`CacheFairSpec` assumes weak fairness of what a goroutine does by itself or when
time is over (`Unaided`): the connection attempt fails after its second
(host.go:42), a query ends with the caller's context, the runtime schedules the
rest. It does not assume that the daemon ever answers, and `GetReturns` holds
without it.

`overlap` has no liveness: two operators whose path caches lag may overwrite
each other's path for ever, each with a hop field the other does not have.

## 5. Proofs

TLAPS proves the following for every value of the constants.

**ScionPathPolicyProofs.** The inductive invariant `IndInv` has, besides the
types:

- `VersionsInOrder`: versions and uids only grow, so a new one differs from all
  that any copy or owner reference holds;
- `GoodCaches`: a copy with the store's version is the stored object, and a
  copy with the finalizer and no deletion mark is of an incarnation that is
  still there, with its finalizer; a cached path of a living owner is still
  that owner's;
- `HoldsFinalizer`: the worker's copy is such a copy. This is the lock: only
  this worker could let the finalizer go, and it is busy;
- `VisitedArePublished`: while every answer was a path, the visited peers have
  theirs in the store;
- `PublishedUnderFinalizer`, `ActivePathsOwned`: two of the goals.

Without `GoodCopy`, a reconcile could start from a copy of an incarnation that
was erased, and every other conjunct falls. From `IndInv` follow
`ReconcilesLivePolicy`, `NoOrphanWrites`, `NeverChangesHands`,
`ActiveObservesStore`, and the refinement `Spec => Intent!IntentSpec`, action by
action.

**OperatorView, OperatorOverlapProofs.** `IndInv` is false with two operators,
because `GoodCopy` says of a copy with the finalizer that its incarnation is
still there. `View` has the weaker `SharedCopy`: a copy is of no incarnation
later than the stored one, is the stored object if the versions agree, and if
its incarnation is the stored one and it has the finalizer, so does the store.
The proof is by rely and guarantee. `StepIsShared`: every step of an operator
keeps what any copy says (`SharedStep`). `ViewStays`: an operator that stands
still keeps its `View` through such a step. `ViewNext`: it keeps it through its
own steps. `OperatorOverlapProofs` instantiates the three for A and for B; the
invariant is `View` of both and an orderly store. `ActiveMove` and `PathLoss`
then say what a single step may do to a live policy.

**WakeUps**, and its part of **OperatorOverlapProofs.** `NoWakeUpLost` is
`Spec => []QuietIsSettled`. The invariant `WakeInv` says of every policy that it
is `Pending` or `AtRest`, and needs three facts more to be inductive:

- `StoreInOrder`: a deletion and every edit leave the condition behind the
  generation. Otherwise a policy at rest could be edited without a wake-up;
- `CacheBehind`: the cached generation is no later than the stored one of the
  same incarnation. Otherwise a further edit could make the two equal, and the
  predicate would drop it;
- `WorkerWoken`: when the peers known are no longer those that the running pass
  has listed, its key is in the queue again. Otherwise a pass could end with a
  status that counts other clusters than there are.

`StepHandles` is the heart: each step of an operator leaves each policy pending,
at rest, or as it was. It assumes `View` and an orderly store, not `IndInv`, so
it holds for an operator that is not alone; `WatchStays` adds that what others
write takes no policy out of `Pending`. Hence `TogetherNoWakeUpLost`: after a
step of one operator a policy is pending or at rest for this one, or it is for
the other what it was.

**PathOrderProofs, PathCacheProofs.** `LessIsStrictTotal`: the comparison is a
strict total order on lists of interfaces; the proof of totality looks for the
first place where two lists differ. From it `SortedOnce`: two sorted lists of
one set of paths are equal, so an unstable sort cannot give two. `CacheInv` adds
to the types that a caller dials only while the connection is under way (and
that one does while it is: who waits for it, waits for someone at work), that
lists in the map came out of the sort (with `SortedOnce` this gives
`NoReshuffle`), that `oldest` is no later than the start of any call under way,
and that a caller that stored an answer finds one in the map, until it reads,
that is no older than `oldest`.

**LoaderProofs.** `HooksInv` adds to the types and `EveryLinkHeld` that an
overwritten link takes two calls of `AttachXDP`, that there is no link without
a call, and that filters belong to past loads (`Tidy`). It gives
`EveryLinkHeld` and `CloseDetaches`. `RoutesOutliveTheProcess` proves
`LastKnownGood` from it: no operation on hooks gives an interface with a filter
another one (`HooksLeaveFilters`), and map operations reach the last load's maps
only, while its process lives (`WritesStayAtHome`); what a filter of an earlier
load answers is therefore fixed.

**DatapathProofs.** The composition implements `LoaderSpec`, so `HooksInv` is at
hand. `FrameInv` follows a frame: the path that the maps have now has been
recorded (`Remembered`); what the program read was the maps' answer at some
time, until a second write (`PolicyRead`, `EntryRead`), and so are the parts of
the entry it has used (`PartsRead`). `Grown` carries the checked headroom from
the check to the opening. This gives `GrowsAsChecked` for any number of writes, and `NoGapOnReplacement` and `SentOnOwnPath` for the first write;
`torn_entry` shows that the second really breaks the latter. From `FrameInv`
also follows the refinement `Spec => Routing!RoutingSpec`
(`RoutingIsImplemented`), action by action: an arrival begins a frame's way, a
write to its program's maps changes the offer, a lookup that finds nothing lets
it out, `Shoot` drops it, the last write to its headers sends it; all other steps
are stutters.
Two theorems are about lengths alone: `StripsWhatWasOpened` (ingress takes off
what egress put on if and only if `path_len` counts the path meta header, which
`maps.h:12` does not mention) and `OuterLengthsExact`. `KeysAreAddresses` shows
that `IPToKey` gives no key to two addresses; for this reason pods stand for
their keys in `Loader`.

Assumptions: the named `ASSUME`s of the modules, which say that constants have
their types and that `Absent`, `None` and `NoPref` are none of the values. TLC
evaluates them on every run.

Only model-checked: `DeletionCompletes`, `Converges` and `GetReturns`. Liveness
under fairness is out of the prover's reach; what they rest on at any moment is
proved (`NoWakeUpLost`, `ConnectedOnce`), that the steps are then taken is
checked. The violation runs are TLC's alone.

## 6. What is left out

- Several workers: the manager starts controllers with one. The moment at which
  a leader loses its lease: controller-runtime ends the process before another
  one may lead.
- Users who edit or delete computed paths, or take finalizers off by hand.
  `specification.md` calls computed paths internal.
- Time: expiry, the ten-second requeue and the ten-hour resync are events that
  may happen at any time.
- Paths of removed peers, which the code keeps: it promises nothing about them.
- A status write that changes the destinations but not their number: the model
  stores it, the code would find nothing to write. One version more, with no
  further effect.
- A status update that the store takes and whose response is lost. The code
  retries the key, which `MarkActive` with a `Resync` or a `Restart` after it
  does as well.
- Errors of the cached `List` in the pod mapper (`:191`).
- The `-1` returns of `write_scion_headers` (`tc_egress.c:79-80`, `:89-90`,
  `:109-110`, `:127-129`): at least 72 bytes of headroom were opened before, so
  its headers lie within the frame, and the stub of the MAC computes without
  fail. The stub makes nothing of the key, so reading it is not a step.
- Contents of packets, the SCION headers (a TODO in `tc_egress.c`), the clamping
  of the MSS (a stub), several egress frames at once: programs share nothing but
  the maps, and a frame writes none. The MAC is zeros, as in the code.
- In `pkg/scion`: `QueryRawPaths` (the query without the map),
  `SortPartsPathsP` (the same order on pointers), path IDs (a hash of the name),
  `GetFirstHop`, the lookups of local addresses. Lost updates of entries are
  modelled, other memory damage of a data race is not.
- Peers and computed-path reconcilers, generated code, manifests: no state.

## 7. Plan

Done: ClusterApi, ScionPathPolicy, PathIntent; OperatorView, WakeUps and
OperatorOverlap; PathOrder and PathCache; Loader, Headers, Datapath, PodRouting;
their runs and proofs.

Next, in this order:

1. What two operators still promise of `PathIntent`: a weaker abstract
   specification, in which a late pass may take a path, and its refinement.
2. The operator's `FetchPath` on top of `PathCache`, once the code connects
   them: the epoch of `ScionPathPolicy` is then the age of an entry.
3. The agent: once `scioncomputedpath_controller.go` calls the Loader, the
   composition from policy to frame.
