-------------------------------- MODULE Loader --------------------------------
(***************************************************************************)
(* The agent's Loader (internal/bpf/loader.go) and what it leaves in the   *)
(* kernel: programs on the hooks of interfaces, and maps.                  *)
(*                                                                         *)
(* A process loads both programs once; each load makes kernel maps of its  *)
(* own, one set for the TC program and one for the XDP program.  A TC      *)
(* filter belongs to its interface and outlives the process; an XDP        *)
(* program stays attached for as long as someone holds its link.  The      *)
(* process may die at any point, and interfaces come and go.               *)
(*                                                                         *)
(* No code of the repository calls the Loader yet.  Its caller is taken to *)
(* be one goroutine that calls Load before the other methods, once.  A     *)
(* method that fails without having done anything is not a step.           *)
(***************************************************************************)
EXTENDS Naturals, FiniteSets

CONSTANTS
    Ifaces,     \* network interfaces
    Ips,        \* pod addresses
    Ids,        \* policy IDs
    Entries,    \* values of scion_path_cache, [hop, pathLen]
    Hops,       \* next hops: an address, its MAC, hop fields and a key
    None,
    MaxPods,    \* max_entries of pod_policy_map
    MaxPaths,   \* max_entries of scion_path_cache
    MaxLoads    \* bound: calls of Load, over all processes

Uint16 == 0 .. 65535

\* pathLen is the caller's word for the bytes of hop_fields in use.
ScionPathEntry == [hop: Hops, pathLen: Uint16]

ASSUME EntriesAssumption == Entries \subseteq ScionPathEntry
ASSUME NoneAssumption == None \notin Ifaces \cup Ids \cup ScionPathEntry
ASSUME CapacityAssumption == MaxPods \in Nat /\ MaxPaths \in Nat
ASSUME MaxLoadsAssumption == MaxLoads \in Nat

VARIABLES
    up,         \* the interfaces there are
    qdisc,      \* per interface: it has a clsact qdisc
    filter,     \* per interface: the load whose tc_egress filters it, or 0
    xdp,        \* per interface: the load whose xdp_ingress it runs, or 0
    podPolicy,  \* pod_policy_map of the TC objects, per load
    pathCache,  \* scion_path_cache of the TC and of the XDP objects, per load
    loads,      \* loads so far
    process,    \* the Loader of the present process: new, loaded or closed
    xdpLink,    \* the interface of the link in l.xdpLink, or None
    stray,      \* the interfaces of links that no variable refers to any more
    attaching,  \* AttachTC made sure of the qdisc of this interface, or None
    attempts    \* calls of AttachXDP on this Loader (history; 2 is 2 or more)

hooks == <<up, qdisc, filter, xdp>>
maps == <<podPolicy, pathCache>>
handles == <<xdpLink, stray, attempts>>
loaderVars == <<hooks, maps, loads, process, handles, attaching>>

Loads == 1 .. MaxLoads

LoaderTypeOK ==
    /\ up \subseteq Ifaces
    /\ qdisc \in [Ifaces -> BOOLEAN]
    /\ filter \in [Ifaces -> 0 .. MaxLoads]
    /\ xdp \in [Ifaces -> 0 .. MaxLoads]
    /\ podPolicy \in [Loads -> [Ips -> Ids \cup {None}]]
    /\ pathCache \in [{"tc", "xdp"} -> [Loads -> [Ids -> Entries \cup {None}]]]
    /\ loads \in 0 .. MaxLoads
    /\ process \in {"new", "loaded", "closed"}
    /\ process # "new" => loads > 0
    /\ xdpLink \in Ifaces \cup {None}
    /\ stray \subseteq Ifaces
    /\ attaching \in Ifaces \cup {None}
    /\ attempts \in 0 .. 2

LoaderInit ==
    /\ up = Ifaces
    /\ qdisc = [i \in Ifaces |-> FALSE]
    /\ filter = [i \in Ifaces |-> 0]
    /\ xdp = [i \in Ifaces |-> 0]
    /\ podPolicy = [g \in Loads |-> [ip \in Ips |-> None]]
    /\ pathCache = [object \in {"tc", "xdp"} |-> [g \in Loads |-> [id \in Ids |-> None]]]
    /\ loads = 0
    /\ process = "new"
    /\ xdpLink = None
    /\ stray = {}
    /\ attaching = None
    /\ attempts = 0

\* The Loader is loaded and no other method is under way.
Ready == process = "loaded" /\ attaching = None

-----------------------------------------------------------------------------
(***************************************************************************)
(* Attaching and detaching.                                                *)
(***************************************************************************)

\* When the second object cannot be loaded the first is closed again.
Load ==
    /\ process = "new"
    /\ loads < MaxLoads
    /\ loads' = loads + 1
    /\ process' = "loaded"
    /\ UNCHANGED <<hooks, maps, handles, attaching>>

\* AttachTC, first half: a qdisc that is there already will do.
AddQdisc(i) ==
    /\ Ready /\ i \in up
    /\ qdisc' = [qdisc EXCEPT ![i] = TRUE]
    /\ attaching' = i
    /\ UNCHANGED <<up, filter, xdp, maps, loads, process, handles>>

\* Variant: FilterReplace instead of FilterAdd.
ReplaceFilter ==
    /\ attaching \in up
    /\ qdisc[attaching]
    /\ filter' = [filter EXCEPT ![attaching] = loads]
    /\ attaching' = None
    /\ UNCHANGED <<up, qdisc, xdp, maps, loads, process, handles>>

\* AttachTC, second half: the handle and priority are fixed, and the kernel
\* refuses a second filter under them.
AddFilter ==
    /\ attaching \in up
    /\ qdisc[attaching]
    /\ filter[attaching] = 0
    /\ filter' = [filter EXCEPT ![attaching] = loads]
    /\ attaching' = None
    /\ UNCHANGED <<up, qdisc, xdp, maps, loads, process, handles>>

\* The interface has gone, a filter is there, or the kernel is out of
\* memory: AttachTC fails, and the qdisc stays.
FilterRefused ==
    /\ attaching # None
    /\ attaching' = None
    /\ UNCHANGED <<hooks, maps, loads, process, handles>>

\* Filters are found by name: those of other loads go too.  The qdisc stays.
DetachTC(i) ==
    /\ process # "new" /\ attaching = None
    /\ i \in up
    /\ filter' = [filter EXCEPT ![i] = 0]
    /\ UNCHANGED <<up, qdisc, xdp, maps, loads, process, handles, attaching>>

\* The link that l.xdpLink referred to is overwritten, whatever it was.
Overwritten == stray \cup ({xdpLink} \ {None})

CountAttempt == attempts' = IF attempts = 0 THEN 1 ELSE 2

\* Variant: the program is set on the interface by netlink, without a link.
SetXDP(i) ==
    /\ Ready /\ i \in up
    /\ xdp[i] = 0
    /\ xdp' = [xdp EXCEPT ![i] = loads]
    /\ CountAttempt
    /\ UNCHANGED <<up, qdisc, filter, maps, loads, process, xdpLink, stray, attaching>>

AttachXDP(i) ==
    /\ Ready /\ i \in up
    /\ xdp[i] = 0
    /\ xdp' = [xdp EXCEPT ![i] = loads]
    /\ xdpLink' = i
    /\ stray' = Overwritten
    /\ CountAttempt
    /\ UNCHANGED <<up, qdisc, filter, maps, loads, process, attaching>>

\* link.AttachXDP fails, as it does when the interface has a link already:
\* it returns a nil link, which is assigned before the error is looked at.
AttachXDPRefused(i) ==
    /\ Ready /\ i \in up
    /\ xdpLink' = None
    /\ stray' = Overwritten
    /\ CountAttempt
    /\ UNCHANGED <<hooks, maps, loads, process, attaching>>

\* A link without a reference is closed by its Go finalizer.
Finalize(i) ==
    /\ i \in stray
    /\ stray' = stray \ {i}
    /\ xdp' = [xdp EXCEPT ![i] = 0]
    /\ UNCHANGED <<up, qdisc, filter, maps, loads, process, xdpLink, attaching, attempts>>

\* Variant: Close closes the objects and not the link.
CloseObjects ==
    /\ Ready
    /\ process' = "closed"
    /\ UNCHANGED <<hooks, maps, loads, handles, attaching>>

Close ==
    /\ Ready
    /\ process' = "closed"
    /\ xdp' = [i \in Ifaces |-> IF i = xdpLink THEN 0 ELSE xdp[i]]
    /\ xdpLink' = None
    /\ UNCHANGED <<up, qdisc, filter, maps, loads, stray, attaching, attempts>>

\* The process ends, or is killed, and another one starts with New().
Die ==
    /\ process # "new"
    /\ process' = "new"
    /\ xdp' = [i \in Ifaces |-> 0]
    /\ xdpLink' = None
    /\ stray' = {}
    /\ attaching' = None
    /\ attempts' = 0
    /\ UNCHANGED <<up, qdisc, filter, maps, loads>>

\* An interface is removed with everything on it; a link to it is dead, and
\* nothing can be told from a dead link.
Vanish(i) ==
    /\ i \in up
    /\ up' = up \ {i}
    /\ qdisc' = [qdisc EXCEPT ![i] = FALSE]
    /\ filter' = [filter EXCEPT ![i] = 0]
    /\ xdp' = [xdp EXCEPT ![i] = 0]
    /\ xdpLink' = IF xdpLink = i THEN None ELSE xdpLink
    /\ stray' = stray \ {i}
    /\ UNCHANGED <<maps, loads, process, attaching, attempts>>

Appear(i) ==
    /\ i \notin up
    /\ up' = up \cup {i}
    /\ UNCHANGED <<qdisc, filter, xdp, maps, loads, process, handles, attaching>>

-----------------------------------------------------------------------------
(***************************************************************************)
(* Map operations.  They write the maps of the TC objects, and fail when a *)
(* key is new and the map is full, or is deleted and not there.            *)
(***************************************************************************)
Keys(map) == {k \in DOMAIN map : map[k] # None}

Fits(map, k, max) == k \in Keys(map) \/ Cardinality(Keys(map)) < max

UpdatePodPolicy(ip, id) ==
    /\ Ready
    /\ Fits(podPolicy[loads], ip, MaxPods)
    /\ podPolicy' = [podPolicy EXCEPT ![loads][ip] = id]
    /\ UNCHANGED <<hooks, pathCache, loads, process, handles, attaching>>

DeletePodPolicy(ip) ==
    /\ Ready
    /\ ip \in Keys(podPolicy[loads])
    /\ podPolicy' = [podPolicy EXCEPT ![loads][ip] = None]
    /\ UNCHANGED <<hooks, pathCache, loads, process, handles, attaching>>

\* Variant: PathLen is a byte, too narrow for a full HopFields.
UpdateWithByte(id, entry) ==
    /\ Ready
    /\ Fits(pathCache["tc"][loads], id, MaxPaths)
    /\ pathCache' = [pathCache EXCEPT !["tc"][loads][id] = [entry EXCEPT !.pathLen = @ % 256]]
    /\ UNCHANGED <<hooks, podPolicy, loads, process, handles, attaching>>

UpdateScionPath(id, entry) ==
    /\ Ready
    /\ Fits(pathCache["tc"][loads], id, MaxPaths)
    /\ pathCache' = [pathCache EXCEPT !["tc"][loads][id] = entry]
    /\ UNCHANGED <<hooks, podPolicy, loads, process, handles, attaching>>

DeleteScionPath(id) ==
    /\ Ready
    /\ id \in Keys(pathCache["tc"][loads])
    /\ pathCache' = [pathCache EXCEPT !["tc"][loads][id] = None]
    /\ UNCHANGED <<hooks, podPolicy, loads, process, handles, attaching>>

\* The path that the maps of load g have for address ip, or None.
PathOf(policyOf, cache, g, ip) ==
    IF policyOf[g][ip] = None THEN None ELSE cache["tc"][g][policyOf[g][ip]]

-----------------------------------------------------------------------------
Hooking ==
    \/ Load \/ AddFilter \/ FilterRefused \/ Close \/ Die
    \/ \E i \in Ifaces : \/ AddQdisc(i) \/ DetachTC(i)
                         \/ AttachXDP(i) \/ AttachXDPRefused(i) \/ Finalize(i)
                         \/ Vanish(i) \/ Appear(i)

Writing ==
    \/ \E ip \in Ips : DeletePodPolicy(ip) \/ \E id \in Ids : UpdatePodPolicy(ip, id)
    \/ \E id \in Ids : DeleteScionPath(id) \/ \E e \in Entries : UpdateScionPath(id, e)

LoaderNext == Hooking \/ Writing

LoaderSpec == LoaderInit /\ [][LoaderNext]_loaderVars

-----------------------------------------------------------------------------
(***************************************************************************)
(* Properties.                                                             *)
(***************************************************************************)

\* An XDP program that runs is one of the living process's, and is held by
\* exactly one link: the one in l.xdpLink or one that was overwritten.
EveryLinkHeld ==
    /\ \A i \in Ifaces : xdp[i] # 0 <=> i = xdpLink \/ i \in stray
    /\ xdpLink \notin stray
    /\ \A i \in Ifaces : xdp[i] # 0 => xdp[i] = loads /\ process # "new"

\* With one call of AttachXDP, Close leaves no XDP program behind, whatever
\* came between the two: interfaces that vanish, refused filters, writes.
CloseDetaches ==
    process = "closed" /\ attempts <= 1 => \A i \in Ifaces : xdp[i] = 0

\* The path that a frame from address ip is given on interface i.
RouteAt(i, ip) ==
    IF filter[i] = 0 THEN None ELSE PathOf(podPolicy, pathCache, filter[i], ip)

\* While an interface keeps a filter, the routes there change only by the
\* hand of the process that attached it.  Once that process is dead, they
\* are frozen: its last known good routes stay in force, whatever the next
\* processes load, attach and write, until one of them detaches the filter.
\* (policies.md:176 has a woken agent enforce its state in the kernel: it
\* cannot by AttachTC alone, which is refused for as long.)
LastKnownGood ==
    [][\A i \in Ifaces, ip \in Ips :
        /\ filter[i] # 0 /\ filter'[i] # 0
        /\ RouteAt(i, ip)' # RouteAt(i, ip)
        => process = "loaded" /\ filter[i] = loads]_loaderVars

\* loader.go:22-23: the Loader owns "the kernel link handles that keep the
\* programs attached".  Here: while it is loaded, an XDP program stays on an
\* interface that stays.
LinksKeepPrograms ==
    [][\A i \in up \cap up' :
        process = "loaded" /\ process' = "loaded" /\ xdp[i] # 0
            => xdp'[i] = xdp[i]]_loaderVars

=============================================================================
