------------------------------- MODULE Datapath -------------------------------
(***************************************************************************)
(* Packets meet the programs (bpf/tc_egress.c, bpf/xdp_ingress.c) while    *)
(* the agent's Loader attaches, detaches and writes the maps.              *)
(*                                                                         *)
(* One egress frame at a time, in the steps between which a writer on      *)
(* another CPU can come: a lookup gives a pointer into the map, and every  *)
(* read through it is a step.  Both maps are preallocated hash maps: a     *)
(* write to a key puts a new element in the place of the old one, and the  *)
(* old one, to which the program may still point, is free for the next     *)
(* write of any key.  An ingress frame is one step, having one lookup.     *)
(*                                                                         *)
(* A frame in flight holds its program and thereby the program's maps,     *)
(* also when the filter is removed or the process dies.                    *)
(***************************************************************************)
EXTENDS Loader, Headers

CONSTANTS
    Frames,     \* lengths of the egress frames
    WanFrames,  \* ingress frames
    MaxWrites   \* bound: map writes that fall into the run of a program

ASSUME FramesAssumption == Frames \subseteq Nat
ASSUME MaxWritesAssumption == MaxWrites \in Nat

VARIABLES
    at,         \* where the egress program is, or its verdict
    load,       \* the load that the frame's program belongs to
    src,        \* the frame's source address
    frame,      \* its length
    id,         \* the policy ID behind the pointer that the first lookup gave
    entry,      \* the entry behind the pointer that the second lookup gave
    linked,     \* the element pointed to is still in its map
    room,       \* encap_len: the headroom to open, then opened
    mac,        \* the next hop whose MAC was written
    dst,        \* the next hop whose address was written
    writes,     \* writes to the program's maps during its run (history)
    missing,    \* the maps had no path for src at some time of it (history)
    paths,      \* the entries that were src's path at some time of it (history)
    ingress     \* the last ingress frame and its verdict

view == <<id, entry, linked>>
headers == <<room, mac, dst>>
history == <<writes, missing, paths>>
egressVars == <<at, load, src, frame, view, headers, history>>
vars == <<loaderVars, egressVars, ingress>>

Verdicts == {"clear", "sent", "shot"}
Running == at \notin Verdicts

NoFrame == [frame |-> None, verdict |-> None]

DatapathTypeOK ==
    /\ LoaderTypeOK
    /\ at \in Verdicts \cup {"policy", "path", "length", "room", "mac", "dst"}
    /\ load \in 0 .. MaxLoads
    /\ Running => load \in 1 .. loads
    /\ src \in Ips \cup {None}
    /\ Running => src \in Ips
    /\ frame \in Nat
    /\ id \in Ids \cup {None}
    /\ at \in {"path", "length", "room", "mac", "dst"} => id \in Ids
    /\ entry \in Entries \cup {None}
    /\ at \in {"length", "room", "mac", "dst"} => entry \in Entries
    /\ linked \in BOOLEAN
    /\ room \in Nat
    /\ mac \in Hops \cup {None}
    /\ dst \in Hops \cup {None}
    /\ at \in {"dst", "sent"} => mac \in Hops
    /\ at = "sent" => dst \in Hops
    /\ writes \in 0 .. MaxWrites
    /\ missing \in BOOLEAN
    /\ paths \subseteq Entries
    /\ ingress \in {NoFrame} \cup [frame: WanFrames, verdict: {"pass", "drop", "inner"}]

Init ==
    /\ LoaderInit
    /\ at = "clear"
    /\ load = 0
    /\ src = None
    /\ frame = 0
    /\ id = None /\ entry = None /\ linked = FALSE
    /\ room = 0 /\ mac = None /\ dst = None
    /\ writes = 0 /\ missing = FALSE /\ paths = {}
    /\ ingress = NoFrame

-----------------------------------------------------------------------------
(***************************************************************************)
(* tc_egress.  Frames that are not IPv4 pass and are left out.             *)
(***************************************************************************)

\* parse_eth and parse_ipv4 find their headers; options are left out.
Parsed(n) == n >= EthHdr + IpHdr

Arrive(i, ip, n) ==
    /\ ~Running
    /\ filter[i] # 0
    /\ Parsed(n)
    /\ at' = "policy"
    /\ load' = filter[i]
    /\ src' = ip
    /\ frame' = n
    /\ id' = None /\ entry' = None /\ linked' = FALSE
    /\ room' = 0 /\ mac' = None /\ dst' = None
    /\ writes' = 0
    /\ LET now == PathOf(podPolicy, pathCache, filter[i], ip)
       IN  missing' = (now = None) /\ paths' = {now} \ {None}
    /\ UNCHANGED <<loaderVars, ingress>>

\* No policy: standard routing.
LookupPolicy ==
    /\ at = "policy"
    /\ id' = podPolicy[load][src]
    /\ at' = IF id' = None THEN "clear" ELSE "path"
    /\ linked' = (id' # None)
    /\ UNCHANGED <<loaderVars, load, src, frame, entry, headers, history, ingress>>

\* Variant: the path is looked up for the policy ID 0.
LookupDefault ==
    /\ at = "path"
    /\ entry' = pathCache["tc"][load][0]
    /\ at' = IF entry' = None THEN "clear" ELSE "length"
    /\ linked' = (entry' # None)
    /\ UNCHANGED <<loaderVars, load, src, frame, id, headers, history, ingress>>

\* Variant: a policy without a path drops the frame.
DropWithoutPath ==
    /\ at = "path"
    /\ entry' = pathCache["tc"][load][id]
    /\ at' = IF entry' = None THEN "shot" ELSE "length"
    /\ linked' = (entry' # None)
    /\ UNCHANGED <<loaderVars, load, src, frame, id, headers, history, ingress>>

\* A policy without a path: standard routing, too.
LookupPath ==
    /\ at = "path"
    /\ entry' = pathCache["tc"][load][id]
    /\ at' = IF entry' = None THEN "clear" ELSE "length"
    /\ linked' = (entry' # None)
    /\ UNCHANGED <<loaderVars, load, src, frame, id, headers, history, ingress>>

\* path_len is read once, into a local: what is written to the entry from
\* here on changes neither the length that was checked nor encap_len.  (The
\* MSS is not clamped yet: clamp_tcp_mss does nothing.)
ReadLength ==
    /\ at = "length"
    /\ entry.pathLen <= MaxPathLen
    /\ room' = EncapLen(entry.pathLen)
    /\ at' = "room"
    /\ UNCHANGED <<loaderVars, load, src, frame, view, mac, dst, history, ingress>>

\* Variant: path_len is read through the pointer again.
OpenAgain ==
    /\ at = "room"
    /\ frame' = frame + EncapLen(entry.pathLen)
    /\ at' = "mac"
    /\ UNCHANGED <<loaderVars, load, src, view, headers, history, ingress>>

\* Variant: the MAC is forgotten.
OpenForAddress ==
    /\ at = "room"
    /\ frame' = frame + room
    /\ at' = "dst"
    /\ UNCHANGED <<loaderVars, load, src, view, headers, history, ingress>>

OpenRoom ==
    /\ at = "room"
    /\ frame' = frame + room
    /\ at' = "mac"
    /\ UNCHANGED <<loaderVars, load, src, view, headers, history, ingress>>

\* The path is too long, or bpf_skb_adjust_room fails.
Shoot ==
    /\ \/ at = "length" /\ entry.pathLen > MaxPathLen
       \/ at = "room"
    /\ at' = "shot"
    /\ UNCHANGED <<loaderVars, load, src, frame, view, headers, history, ingress>>

\* write_scion_headers: the destination MAC, and the outer IPv4 header up to
\* its address.  At least 72 bytes of headroom were opened, so no header
\* falls outside of the frame, and the -1 returns are never taken.
WriteMac ==
    /\ at = "mac"
    /\ mac' = entry.hop
    /\ at' = "dst"
    /\ UNCHANGED <<loaderVars, load, src, frame, view, room, dst, history, ingress>>

\* Its address, and the rest, among it ComputedMac, which never fails and
\* makes nothing of the entry's key: reading that is not a step.
WriteAddress ==
    /\ at = "dst"
    /\ dst' = entry.hop
    /\ at' = "sent"
    /\ UNCHANGED <<loaderVars, load, src, frame, view, room, mac, history, ingress>>

-----------------------------------------------------------------------------
(***************************************************************************)
(* A map is written while the program runs: what its pointer points to.    *)
(***************************************************************************)

\* The program's maps are the Loader's, and a write to them is one more.
Noticed ==
    IF Running /\ load = loads
    THEN /\ writes < MaxWrites
         /\ writes' = writes + 1
         /\ LET now == PathOf(podPolicy', pathCache', load, src)
            IN  /\ missing' = (missing \/ now = None)
                /\ paths' = paths \cup ({now} \ {None})
    ELSE UNCHANGED history

PointsToId == at = "path" /\ load = loads

PointsToEntry == at \in {"length", "room", "mac", "dst"} /\ load = loads

\* The element taken out of the map keeps its content until another write
\* to that map fills it again.
PodWritten(ip, new) ==
    /\ IF PointsToId
       THEN IF linked
            THEN linked' = (ip # src) /\ UNCHANGED id
            ELSE UNCHANGED linked /\ id' \in {id, new}
       ELSE UNCHANGED <<id, linked>>
    /\ Noticed
    /\ UNCHANGED <<at, load, src, frame, entry, headers, ingress>>

PathWritten(key, new) ==
    /\ IF PointsToEntry
       THEN IF linked
            THEN linked' = (key # id) /\ UNCHANGED entry
            ELSE UNCHANGED linked /\ entry' \in {entry, new}
       ELSE UNCHANGED <<entry, linked>>
    /\ Noticed
    /\ UNCHANGED <<at, load, src, frame, id, headers, ingress>>

Write ==
    \/ \E ip \in Ips : \/ DeletePodPolicy(ip) /\ PodWritten(ip, id)
                       \/ \E new \in Ids : UpdatePodPolicy(ip, new) /\ PodWritten(ip, new)
    \/ \E key \in Ids : \/ DeleteScionPath(key) /\ PathWritten(key, entry)
                        \/ \E new \in Entries : UpdateScionPath(key, new) /\ PathWritten(key, new)

-----------------------------------------------------------------------------
(***************************************************************************)
(* xdp_ingress.  w is a frame: whether it is IPv4 and UDP to port 30041,   *)
(* its length, the counts in its headers, and the MAC of its current hop   *)
(* field.  The key is looked up in the map of the XDP object.              *)
(***************************************************************************)
LocalAsKey == 0

\* A header of size n at this offset lies within the frame.
Within(w, offset, n) == offset + n <= w.len

ScionOff(w) == EthHdr + w.ihl * 4 + UdpHdr

PathOff(w) == ScionOff(w) + ScionHdr + AddrHdr

\* The hop field that the path meta header points to.
HopOff(w) == PathOff(w) + MetaHdr + w.numInf * InfoField + w.curHf * HopField

WellFormed(w) ==
    /\ Within(w, ScionOff(w), ScionHdr)
    /\ Within(w, PathOff(w), MetaHdr)
    /\ Within(w, HopOff(w), HopField)
    /\ Within(w, EthHdr, StripLen(w.ihl, w.numInf, w.numHf))
    /\ Within(w, PathOff(w) + MetaHdr, InfoField)
    /\ Within(w, EthHdr + StripLen(w.ihl, w.numInf, w.numHf), IpHdr)

KeyLoaded(g) == LocalAsKey \in Ids /\ pathCache["xdp"][g][LocalAsKey] # None

\* calculate_scion_mac does not use the key yet: it gives zeros.
ComputedMac == 0

MacOk(w) == w.mac = ComputedMac

IngressVerdict(g, w) ==
    CASE ~w.scion -> "pass"
      [] w.scion /\ WellFormed(w) /\ KeyLoaded(g) /\ MacOk(w) -> "inner"
      [] OTHER -> "drop"

Ingress(i, w) ==
    /\ xdp[i] # 0
    /\ ingress' = [frame |-> w, verdict |-> IngressVerdict(xdp[i], w)]
    /\ UNCHANGED <<loaderVars, egressVars>>

-----------------------------------------------------------------------------
Egress ==
    \/ LookupPolicy \/ LookupPath \/ ReadLength \/ OpenRoom \/ Shoot
    \/ WriteMac \/ WriteAddress

Next ==
    \/ Hooking /\ UNCHANGED <<egressVars, ingress>>
    \/ Write
    \/ \E i \in Ifaces : \/ \E ip \in Ips, n \in Frames : Arrive(i, ip, n)
                         \/ \E w \in WanFrames : Ingress(i, w)
    \/ Egress

Spec == Init /\ [][Next]_vars

-----------------------------------------------------------------------------
(***************************************************************************)
(* Properties.                                                             *)
(***************************************************************************)

\* However the entry changes under the program's pointer once its length
\* was checked, the frame grows by exactly the headroom that was computed
\* then, which is that of a path that passed the check: 72 bytes and at most
\* 256 more.
GrowsAsChecked ==
    at \in {"mac", "dst", "sent"} =>
        /\ room \in EncapLen(0) .. EncapLen(MaxPathLen)
        /\ frame - room \in Frames

\* A frame leaves in the clear only if its pod had no path at some time of
\* the program's run: replacing a policy or a path opens no gap, unless a
\* second write to the maps comes during the run.
NoGapOnReplacement ==
    at = "clear" /\ load # 0 /\ writes <= 1 => missing

\* With at most one write during its run, a program sends the frame to the
\* next hop of a path that was the pod's, in the headroom that this path
\* needs: one entry, not parts of two.
SentOnOwnPath ==
    at = "sent" /\ writes <= 1 =>
        \E e \in paths : mac = e.hop /\ dst = e.hop /\ room = EncapLen(e.pathLen)

\* The frame, its verdict and what the maps answered during its way, as
\* PodRouting sees them.
FateOf ==
    CASE Running -> "underway"
      [] ~Running /\ load = 0 -> "none"
      [] ~Running /\ load # 0 -> IF at = "shot" THEN "dropped" ELSE at

Header(m, d, r) == [mac |-> m, address |-> d, room |-> r]

Routing == INSTANCE PodRouting WITH
    Routes <- Entries,
    HeaderOf <- [e \in Entries |-> Header(e.hop, e.hop, EncapLen(e.pathLen))],
    fate <- FateOf,
    offered <- paths \cup (IF missing THEN {None} ELSE {}),
    changes <- writes,
    header <- IF at = "sent" THEN Header(mac, dst, room) ELSE None

\* Behind maps whose elements are taken out and filled again under the
\* program's pointers, a pod sees PodRouting: each frame has one fate, and a
\* route that was the pod's accounts for it.
ImplementsRouting == Routing!RoutingSpec

\* reconciling.md:368: "The Agents instantly swap the byte arrays in the
\* eBPF maps".  Here: a frame's next-hop MAC and address are of one entry.
SwapIsInstant ==
    at = "sent" => mac = dst

\* policies.md:18, specification.md:16: the ingress program verifies the MAC,
\* "strips the SCION headers completely, and passes the pristine inner IP
\* packet up".  Here: it does for every frame that has a valid MAC, once the
\* agent has stored the key.
ValidFramesPass ==
    [][\A i \in Ifaces, w \in WanFrames :
        /\ Ingress(i, w)
        /\ w.scion /\ WellFormed(w) /\ MacOk(w)
        /\ pathCache["tc"][xdp[i]][LocalAsKey] # None
        => ingress'.verdict = "inner"]_vars

=============================================================================
