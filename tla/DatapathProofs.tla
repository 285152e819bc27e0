---------------------------- MODULE DatapathProofs ----------------------------
(***************************************************************************)
(* The egress program under concurrent writes of its maps, for every set   *)
(* of interfaces, addresses, policies, paths and frames, and any number of *)
(* writes.                                                                 *)
(*                                                                         *)
(* The argument.  The Loader keeps its own specification when packets are  *)
(* added, so its invariant is at hand.  Remembered says what the history   *)
(* variables are: the path that the maps have now has been recorded.  From *)
(* there the pointers are followed: until the second write an element      *)
(* taken out of its map keeps its content, so what the program reads has   *)
(* been recorded too.                                                      *)
(***************************************************************************)
EXTENDS Datapath, LoaderProofs

\* The Loader in the composition is the Loader by itself.
THEOREM LoaderInComposition == Spec => LoaderSpec
<1>1. Init => LoaderInit
  BY DEF Init
<1>2. [Next]_vars => [LoaderNext]_loaderVars
  <2> SUFFICES ASSUME Next PROVE LoaderNext \/ UNCHANGED loaderVars
    BY DEF vars
  <2>1. CASE Hooking
    BY <2>1 DEF LoaderNext
  <2>2. CASE Write
    BY <2>2 DEF Write, LoaderNext, Writing
  <2>3. ASSUME NEW i \in Ifaces, NEW ip \in Ips, NEW n \in Frames, Arrive(i, ip, n)
        PROVE  UNCHANGED loaderVars
    BY <2>3 DEF Arrive
  <2>4. ASSUME NEW i \in Ifaces, NEW w \in WanFrames, Ingress(i, w)
        PROVE  UNCHANGED loaderVars
    BY <2>4 DEF Ingress
  <2>5. CASE Egress
    BY <2>5 DEF Egress, LookupPolicy, LookupPath, ReadLength, OpenRoom, Shoot, WriteMac,
                   WriteAddress
  <2> QED
    BY <2>1, <2>2, <2>3, <2>4, <2>5 DEF Next
<1> QED
  BY <1>1, <1>2, PTL DEF Spec, LoaderSpec

\* Hence what is proved of the Loader holds under the datapath as well.
LEMMA HooksInComposition == Spec => []HooksInv
BY LoaderInComposition, HooksInvariance

-----------------------------------------------------------------------------
\* The path that the program's maps have for the frame now.
Now == PathOf(podPolicy, pathCache, load, src)

\* e, or the lack of it, was the answer of the maps at some time of the run.
Recorded(e) == IF e = None THEN missing ELSE e \in paths

Remembered == Running => Recorded(Now)

PolicyRead ==
    at = "path" =>
        /\ writes = 0 => linked /\ id = podPolicy[load][src]
        /\ writes <= 1 => Recorded(pathCache["tc"][load][id])

EntryRead ==
    at \in {"length", "room", "mac", "dst"} =>
        /\ writes = 0 => linked
        /\ writes <= 1 => entry \in paths

\* What has been read through the pointer so far is of the entry there.
PartsRead ==
    writes <= 1 =>
        /\ at \in {"room", "mac", "dst"} => room = EncapLen(entry.pathLen)
        /\ at = "dst" => mac = entry.hop

\* What was checked is what is opened: GrowsAsChecked, and what is between
\* the check and the opening.
Grown ==
    /\ at \in {"policy", "path", "length", "room"} => frame \in Frames
    /\ at \in {"room", "mac", "dst", "sent"} => room \in EncapLen(0) .. EncapLen(MaxPathLen)
    /\ GrowsAsChecked

FrameInv ==
    /\ DatapathTypeOK
    /\ Grown
    /\ Remembered
    /\ PolicyRead
    /\ EntryRead
    /\ PartsRead
    /\ NoGapOnReplacement
    /\ SentOnOwnPath

-----------------------------------------------------------------------------
\* No frame is under way at first.
LEMMA FrameInit == Init => FrameInv
<1> SUFFICES ASSUME Init PROVE FrameInv
  OBVIOUS
<1>1. LoaderTypeOK
  BY HooksInit DEF Init, HooksInv
<1>2. DatapathTypeOK
  <2>1. at = "clear" /\ load \in 0 .. MaxLoads /\ writes \in 0 .. MaxWrites /\ frame = 0 /\ room = 0
    BY MaxWritesAssumption, MaxLoadsAssumption DEF Init
  <2>2. /\ src = None /\ id = None /\ entry = None /\ linked = FALSE /\ mac = None /\ dst = None
        /\ missing = FALSE /\ paths = {} /\ ingress = NoFrame
    BY DEF Init
  <2> QED
    BY <1>1, <2>1, <2>2 DEF DatapathTypeOK, Running, Verdicts
<1>3. /\ Grown /\ Remembered /\ PolicyRead /\ EntryRead
      /\ PartsRead /\ NoGapOnReplacement /\ SentOnOwnPath
  BY DEF Init, Running, Verdicts, Grown, GrowsAsChecked, Remembered, PolicyRead, EntryRead,
         PartsRead, NoGapOnReplacement, SentOnOwnPath
<1> QED
  BY <1>2, <1>3 DEF FrameInv

\* The hooks change: the frame in flight keeps its program and its maps.
LEMMA FrameHooking ==
    ASSUME FrameInv, HooksInv', Hooking, UNCHANGED <<egressVars, ingress>>
    PROVE  FrameInv'
<1>1. UNCHANGED maps /\ (loads' = loads \/ loads' = loads + 1)
  BY DEF Hooking, Load, AddFilter, FilterRefused, Close, Die, AddQdisc, DetachTC, AttachXDP,
         AttachXDPRefused, Finalize, Vanish, Appear
<1>2. DatapathTypeOK'
  BY <1>1 DEF FrameInv, DatapathTypeOK, HooksInv, LoaderTypeOK, egressVars, view, headers, history,
              Running
<1>3. (/\ Grown /\ Remembered /\ PolicyRead /\ EntryRead
       /\ PartsRead /\ NoGapOnReplacement /\ SentOnOwnPath)'
  BY <1>1 DEF FrameInv, maps, egressVars, view, headers, history, Running, Grown, GrowsAsChecked,
              Remembered, Now, PathOf, Recorded, PolicyRead, EntryRead, PartsRead,
              NoGapOnReplacement, SentOnOwnPath
<1> QED
  BY <1>2, <1>3 DEF FrameInv

\* An ingress frame leaves the egress program alone.
LEMMA FrameIngress ==
    ASSUME FrameInv, NEW i \in Ifaces, NEW w \in WanFrames, Ingress(i, w)
    PROVE  FrameInv'
<1>1. UNCHANGED <<loaderVars, egressVars>>
  BY DEF Ingress
<1>2. ingress' \in [frame: WanFrames, verdict: {"pass", "drop", "inner"}]
  BY DEF Ingress, IngressVerdict
<1>3. DatapathTypeOK'
  BY <1>1, <1>2 DEF FrameInv, DatapathTypeOK, LoaderTypeOK, loaderVars, hooks, maps, handles,
                    egressVars, view, headers, history, Running
<1>4. (/\ Grown /\ Remembered /\ PolicyRead /\ EntryRead
       /\ PartsRead /\ NoGapOnReplacement /\ SentOnOwnPath)'
  BY <1>1 DEF FrameInv, loaderVars, maps, egressVars, view, headers, history, Running,
              Grown, GrowsAsChecked, Remembered, Now, PathOf, Recorded, PolicyRead, EntryRead,
              PartsRead, NoGapOnReplacement, SentOnOwnPath
<1> QED
  BY <1>3, <1>4 DEF FrameInv

\* A frame arrives with the path that its pod has at that moment.
LEMMA FrameArrive ==
    ASSUME FrameInv, HooksInv, NEW i \in Ifaces, NEW ip \in Ips, NEW n \in Frames, Arrive(i, ip, n)
    PROVE  FrameInv'
<1>1. UNCHANGED <<loaderVars, ingress>> /\ LoaderTypeOK /\ LoaderTypeOK'
  BY DEF Arrive, HooksInv, LoaderTypeOK, loaderVars, hooks, maps, handles
<1>2. load' \in 1 .. loads /\ load' \in Loads
  BY DEF Arrive, HooksInv, LoaderTypeOK, Tidy, Loads
<1>3. Now' \in Entries \cup {None}
  BY <1>1, <1>2 DEF Arrive, Now, PathOf, LoaderTypeOK, loaderVars, maps
<1>4. missing' = (Now' = None) /\ paths' = {Now'} \ {None}
  BY <1>1 DEF Arrive, Now, loaderVars, maps
<1>5. DatapathTypeOK'
  <2>1. missing' \in BOOLEAN /\ paths' \subseteq Entries
    BY <1>3, <1>4
  <2>2. frame' \in Nat /\ writes' \in 0 .. MaxWrites /\ src' \in Ips
    BY FramesAssumption, MaxWritesAssumption DEF Arrive
  <2>3. load' \in 0 .. MaxLoads /\ load' \in 1 .. loads'
    BY <1>1, <1>2 DEF Loads, loaderVars
  <2>4. at' = "policy" /\ id' = None /\ entry' = None /\ linked' = FALSE
        /\ room' = 0 /\ mac' = None /\ dst' = None /\ ingress' = ingress
    BY DEF Arrive
  <2> QED
    BY <1>1, <2>1, <2>2, <2>3, <2>4 DEF FrameInv, DatapathTypeOK
<1>6. Remembered'
  BY <1>4 DEF Remembered, Recorded
<1>7. (Grown /\ PolicyRead /\ EntryRead /\ PartsRead /\ NoGapOnReplacement /\ SentOnOwnPath)'
  BY DEF Arrive, Grown, GrowsAsChecked, PolicyRead, EntryRead, PartsRead,
         NoGapOnReplacement, SentOnOwnPath
<1> QED
  BY <1>5, <1>6, <1>7 DEF FrameInv

-----------------------------------------------------------------------------
\* What every step of the egress program has in common.
LEMMA EgressFrame ==
    ASSUME DatapathTypeOK, Running, UNCHANGED <<loaderVars, load, src, history, ingress>>
    PROVE  /\ LoaderTypeOK' /\ load' \in 0 .. MaxLoads /\ load' \in 1 .. loads' /\ src' \in Ips
           /\ writes' \in 0 .. MaxWrites /\ missing' \in BOOLEAN /\ paths' \subseteq Entries
           /\ ingress' = ingress
           /\ Now' = Now /\ Now \in Entries \cup {None}
           /\ Recorded(Now)' = Recorded(Now)
<1>1. load \in Loads
  BY DEF DatapathTypeOK, LoaderTypeOK, Loads
<1>2. Now \in Entries \cup {None}
  BY <1>1 DEF DatapathTypeOK, LoaderTypeOK, Now, PathOf
<1> QED
  BY <1>2 DEF DatapathTypeOK, LoaderTypeOK, loaderVars, hooks, maps, handles, history, Now, PathOf,
              Recorded

\* The first lookup reads an answer that the maps give now.
LEMMA FramePolicy ==
    ASSUME FrameInv, LookupPolicy
    PROVE  FrameInv'
<1> USE DEF FrameInv
<1>1. Running /\ UNCHANGED <<loaderVars, load, src, history, ingress>>
  BY DEF LookupPolicy, Running, Verdicts
<1>2. load \in Loads
  BY <1>1 DEF DatapathTypeOK, LoaderTypeOK, Loads
<1>3. id' \in Ids \cup {None} /\ linked' \in BOOLEAN
  BY <1>1, <1>2 DEF LookupPolicy, DatapathTypeOK, LoaderTypeOK
<1>4. CASE podPolicy[load][src] = None
  <2>1. at' = "clear" /\ id' = None
    BY <1>4 DEF LookupPolicy
  <2>2. missing'
    BY <1>1, <1>4 DEF Remembered, Recorded, Now, PathOf, history
  <2> QED
    BY <1>1, <1>3, <2>1, <2>2, EgressFrame, NoneAssumption
    DEF LookupPolicy, DatapathTypeOK, Running, Verdicts, headers, Grown, GrowsAsChecked, Remembered,
        PolicyRead, EntryRead, PartsRead, NoGapOnReplacement, SentOnOwnPath
<1>5. CASE podPolicy[load][src] # None
  <2>1. at' = "path" /\ id' = podPolicy[load][src] /\ linked' = TRUE /\ id' \in Ids
    BY <1>3, <1>5 DEF LookupPolicy
  <2>2. Now = pathCache["tc"][load][id']
    BY <1>5, <2>1 DEF Now, PathOf
  <2>3. PolicyRead'
    BY <1>1, <2>1, <2>2 DEF PolicyRead, Remembered, Recorded, history, loaderVars, maps
  <2>4. Remembered'
    BY <1>1, EgressFrame DEF Remembered
  <2> QED
    BY <1>1, <1>3, <2>1, <2>3, <2>4, EgressFrame
    DEF LookupPolicy, DatapathTypeOK, Running, Verdicts, headers, Grown, GrowsAsChecked,
        EntryRead, PartsRead, NoGapOnReplacement, SentOnOwnPath
<1> QED
  BY <1>4, <1>5

\* So does the second.
LEMMA FramePath ==
    ASSUME FrameInv, LookupPath
    PROVE  FrameInv'
<1> USE DEF FrameInv
<1>1. Running /\ UNCHANGED <<loaderVars, load, src, history, ingress>>
  BY DEF LookupPath, Running, Verdicts
<1>2. load \in Loads /\ id \in Ids
  BY <1>1 DEF LookupPath, DatapathTypeOK, LoaderTypeOK, Loads
<1>3. entry' = pathCache["tc"][load][id] /\ entry' \in Entries \cup {None} /\ linked' \in BOOLEAN
  BY <1>2 DEF LookupPath, DatapathTypeOK, LoaderTypeOK
<1>4. writes <= 1 => Recorded(entry')
  BY <1>3 DEF LookupPath, PolicyRead
<1>5. Remembered'
  BY <1>1, EgressFrame DEF Remembered
<1>6. CASE entry' = None
  <2>1. at' = "clear" /\ (writes' <= 1 => missing')
    BY <1>1, <1>4, <1>6 DEF LookupPath, Recorded, history
  <2> QED
    BY <1>1, <1>3, <1>5, <2>1, EgressFrame
    DEF LookupPath, DatapathTypeOK, Running, Verdicts, headers, Grown, GrowsAsChecked,
        PolicyRead, EntryRead, PartsRead, NoGapOnReplacement, SentOnOwnPath
<1>7. CASE entry' # None
  <2>1. /\ at' = "length" /\ linked' = TRUE /\ entry' \in Entries
        /\ writes' <= 1 => entry' \in paths'
    BY <1>1, <1>3, <1>4, <1>7 DEF LookupPath, Recorded, history
  <2> QED
    BY <1>1, <1>2, <1>3, <1>5, <2>1, EgressFrame
    DEF LookupPath, DatapathTypeOK, Running, Verdicts, headers, Grown, GrowsAsChecked,
        PolicyRead, EntryRead, PartsRead, NoGapOnReplacement, SentOnOwnPath
<1> QED
  BY <1>6, <1>7

\* An entry's fields.
LEMMA EntryFields ==
    ASSUME NEW e \in Entries
    PROVE  e.hop \in Hops /\ e.pathLen \in Nat
<1>1. e.hop \in Hops /\ e.pathLen \in Uint16
  BY EntriesAssumption DEF ScionPathEntry
<1>2. Uint16 \subseteq Nat
  BY DEF Uint16
<1> QED
  BY <1>1, <1>2

\* The headroom that a path of a legal length needs.
LEMMA RoomOfAPath ==
    ASSUME NEW n \in Nat, n <= MaxPathLen
    PROVE  EncapLen(n) \in EncapLen(0) .. EncapLen(MaxPathLen)
BY DEF EncapLen, MaxPathLen, IpHdr, UdpHdr, ScionHdr, AddrHdr, E2eExt

\* Opening the headroom and writing the headers read the entry only.
LEMMA FrameEncapsulation ==
    ASSUME FrameInv, ReadLength \/ OpenRoom \/ Shoot \/ WriteMac \/ WriteAddress
    PROVE  FrameInv'
<1> USE DEF FrameInv
<1>1. Running /\ UNCHANGED <<loaderVars, load, src, view, history, ingress>>
  BY DEF ReadLength, OpenRoom, Shoot, WriteMac, WriteAddress, Running, Verdicts, headers
<1>2. Remembered'
  BY <1>1, EgressFrame DEF Remembered
<1>3. at \in {"length", "room", "mac", "dst"} /\ id \in Ids /\ entry \in Entries
  BY DEF ReadLength, OpenRoom, Shoot, WriteMac, WriteAddress, DatapathTypeOK
<1>4. entry.pathLen \in Nat /\ entry.hop \in Hops
  BY <1>3, EntryFields
<1>5. EntryRead'
  BY <1>1, <1>3 DEF EntryRead, view, history
<1>6. CASE ReadLength
  <2>1. room' = EncapLen(entry'.pathLen) /\ room' \in EncapLen(0) .. EncapLen(MaxPathLen)
    BY <1>1, <1>4, <1>6, RoomOfAPath DEF ReadLength, view
  <2>2. room' \in Nat
    BY <1>4, <1>6 DEF ReadLength, EncapLen, IpHdr, UdpHdr, ScionHdr, AddrHdr, E2eExt
  <2>3. at' = "room" /\ frame' = frame /\ frame \in Frames
    BY <1>6 DEF ReadLength, Grown
  <2>4. Grown' /\ PartsRead'
    BY <2>1, <2>3 DEF Grown, GrowsAsChecked, PartsRead
  <2> QED
    BY <1>1, <1>2, <1>3, <1>5, <1>6, <2>2, <2>3, <2>4, EgressFrame
    DEF ReadLength, DatapathTypeOK, Running, Verdicts, view,
        PolicyRead, NoGapOnReplacement, SentOnOwnPath
<1>7. CASE OpenRoom
  <2>1. room' = room /\ room \in Nat /\ room \in EncapLen(0) .. EncapLen(MaxPathLen)
    BY <1>7 DEF OpenRoom, DatapathTypeOK, Grown, headers
  <2>2. at' = "mac" /\ frame \in Frames /\ frame \in Nat /\ frame' = frame + room
    BY <1>7, FramesAssumption DEF OpenRoom, Grown
  <2>3. frame' \in Nat /\ frame' - room' = frame
    BY <2>1, <2>2
  <2>4. Grown'
    BY <2>1, <2>2, <2>3 DEF Grown, GrowsAsChecked
  <2>5. PartsRead'
    BY <1>1, <1>7, <2>1, <2>2 DEF OpenRoom, PartsRead, view, history
  <2> QED
    BY <1>1, <1>2, <1>3, <1>5, <1>7, <2>2, <2>3, <2>4, <2>5, EgressFrame
    DEF OpenRoom, DatapathTypeOK, Running, Verdicts, view, headers,
        PolicyRead, NoGapOnReplacement, SentOnOwnPath
<1>8. CASE Shoot
  BY <1>1, <1>2, <1>3, <1>5, <1>8, EgressFrame
  DEF Shoot, DatapathTypeOK, Running, Verdicts, view, headers, Grown, GrowsAsChecked,
      PolicyRead, PartsRead, NoGapOnReplacement, SentOnOwnPath
<1>9. CASE WriteMac
  <2>1. at' = "dst" /\ PartsRead'
    BY <1>1, <1>9 DEF WriteMac, PartsRead, view, history
  <2> QED
    BY <1>1, <1>2, <1>3, <1>4, <1>5, <1>9, <2>1, EgressFrame
    DEF WriteMac, DatapathTypeOK, Running, Verdicts, view, Grown, GrowsAsChecked,
        PolicyRead, NoGapOnReplacement, SentOnOwnPath
<1>10. CASE WriteAddress
  <2>1. writes' <= 1 =>
          \E e \in paths' : mac' = e.hop /\ dst' = e.hop /\ room' = EncapLen(e.pathLen)
    BY <1>1, <1>3, <1>10 DEF WriteAddress, EntryRead, PartsRead, view, history
  <2>2. mac' \in Hops
    BY <1>10 DEF WriteAddress, DatapathTypeOK
  <2>3. at' = "sent" /\ SentOnOwnPath'
    BY <1>10, <2>1 DEF WriteAddress, SentOnOwnPath
  <2> QED
    BY <1>1, <1>2, <1>3, <1>4, <1>5, <1>10, <2>2, <2>3, EgressFrame
    DEF WriteAddress, DatapathTypeOK, Running, Verdicts, view, Grown, GrowsAsChecked,
        PolicyRead, PartsRead, NoGapOnReplacement
<1> QED
  BY <1>6, <1>7, <1>8, <1>9, <1>10

-----------------------------------------------------------------------------
\* A write leaves the maps of other loads alone, and one of the two maps.
LEMMA WriteIsLocal ==
    ASSUME HooksInv, Write
    PROVE  /\ loads \in Loads
           /\ UNCHANGED <<hooks, loads, process, handles, attaching>>
           /\ \A g \in Loads \ {loads} :
                podPolicy'[g] = podPolicy[g] /\ pathCache'["tc"][g] = pathCache["tc"][g]
           /\ \/ UNCHANGED pathCache /\ \E ip \in Ips, new \in Ids \cup {id} : PodWritten(ip, new)
              \/ /\ UNCHANGED podPolicy
                 /\ \E key \in Ids, new \in Entries \cup {entry} : PathWritten(key, new)
<1>1. podPolicy \in [Loads -> [Ips -> Ids \cup {None}]]
  BY DEF HooksInv, LoaderTypeOK
<1>2. pathCache \in [{"tc", "xdp"} -> [Loads -> [Ids -> Entries \cup {None}]]]
  BY DEF HooksInv, LoaderTypeOK
<1>3. ASSUME NEW ip \in Ips, NEW new \in Ids \cup {id}, PodWritten(ip, new),
             UpdatePodPolicy(ip, new) \/ DeletePodPolicy(ip)
      PROVE  /\ loads \in Loads
             /\ UNCHANGED <<hooks, pathCache, loads, process, handles, attaching>>
             /\ \A g \in Loads \ {loads} : podPolicy'[g] = podPolicy[g]
  <2>1. loads \in Loads /\ UNCHANGED <<hooks, pathCache, loads, process, handles, attaching>>
    BY <1>3 DEF UpdatePodPolicy, DeletePodPolicy, Ready, HooksInv, LoaderTypeOK, Loads
  <2>2. \E v : podPolicy' = [podPolicy EXCEPT ![loads][ip] = v]
    BY <1>3 DEF UpdatePodPolicy, DeletePodPolicy
  <2> QED
    BY <1>1, <2>1, <2>2
<1>4. ASSUME NEW key \in Ids, NEW new \in Entries \cup {entry}, PathWritten(key, new),
             UpdateScionPath(key, new) \/ DeleteScionPath(key)
      PROVE  /\ loads \in Loads
             /\ UNCHANGED <<hooks, podPolicy, loads, process, handles, attaching>>
             /\ \A g \in Loads \ {loads} : pathCache'["tc"][g] = pathCache["tc"][g]
  <2>1. loads \in Loads /\ UNCHANGED <<hooks, podPolicy, loads, process, handles, attaching>>
    BY <1>4 DEF UpdateScionPath, DeleteScionPath, Ready, HooksInv, LoaderTypeOK, Loads
  <2>2. \E v : pathCache' = [pathCache EXCEPT !["tc"][loads][key] = v]
    BY <1>4 DEF UpdateScionPath, DeleteScionPath
  <2> QED
    BY <1>2, <2>1, <2>2
<1> QED
  BY <1>3, <1>4 DEF Write

\* The history of a write, and the pointers.
LEMMA WriteIsNoticed ==
    ASSUME FrameInv, HooksInv, Write
    PROVE  /\ UNCHANGED <<at, load, src, frame, headers, ingress>>
           /\ Running /\ load = loads =>
                /\ writes < MaxWrites /\ writes' = writes + 1
                /\ missing' = (missing \/ Now' = None)
                /\ paths' = paths \cup ({Now'} \ {None})
           /\ ~(Running /\ load = loads) => UNCHANGED history
           /\ ~(Running /\ load = loads) => UNCHANGED view
BY WriteIsLocal
DEF PodWritten, PathWritten, PointsToId, PointsToEntry, Noticed, Now, view, Running, Verdicts

\* A write during the run is recorded before it can be read.
LEMMA FrameWrite ==
    ASSUME FrameInv, HooksInv, HooksInv', Write
    PROVE  FrameInv'
<1> USE DEF FrameInv
<1>1. UNCHANGED <<at, load, src, frame, room, mac, dst, ingress>>
  BY WriteIsNoticed DEF headers
<1>2. LoaderTypeOK /\ LoaderTypeOK'
  BY DEF HooksInv
<1>3. UNCHANGED loads
  BY WriteIsLocal
<1>4. CASE ~(Running /\ load = loads)
  <2>1. UNCHANGED <<view, history>>
    BY <1>4, WriteIsNoticed
  <2>2. Running => /\ podPolicy'[load] = podPolicy[load]
                   /\ pathCache'["tc"][load] = pathCache["tc"][load]
    BY <1>4, WriteIsLocal DEF DatapathTypeOK, LoaderTypeOK, Loads
  <2>3. Running => Now' = Now
    BY <1>1, <2>2 DEF Now, PathOf
  <2>4. Remembered' /\ PolicyRead'
    BY <1>1, <2>1, <2>2, <2>3 DEF Remembered, PolicyRead, Recorded, Running, Verdicts, view, history
  <2> QED
    BY <1>1, <1>2, <1>3, <2>1, <2>4
    DEF DatapathTypeOK, Running, Grown, GrowsAsChecked, EntryRead, PartsRead, NoGapOnReplacement,
        SentOnOwnPath, view, history
<1>5. CASE Running /\ load = loads
  <2>1. /\ writes \in Nat /\ writes' = writes + 1 /\ writes' \in 0 .. MaxWrites
        /\ missing' = (missing \/ Now' = None) /\ paths' = paths \cup ({Now'} \ {None})
    BY <1>5, WriteIsNoticed, MaxWritesAssumption DEF DatapathTypeOK
  <2>2. load \in Loads /\ src \in Ips
    BY <1>5, WriteIsLocal DEF DatapathTypeOK
  <2>3. Now' \in Entries \cup {None}
    BY <1>1, <1>2, <2>2 DEF Now, PathOf, LoaderTypeOK
  <2>4. Recorded(Now)'
    BY <2>1 DEF Recorded
  <2>5. \A e \in Entries \cup {None} : Recorded(e) => Recorded(e)'
    BY <2>1 DEF Recorded
  <2>6. DatapathTypeOK'
    <3>1. missing' \in BOOLEAN /\ paths' \subseteq Entries
      BY <2>1, <2>3 DEF DatapathTypeOK
    <3>2. /\ linked' \in BOOLEAN
          /\ id' \in Ids \cup {id} /\ entry' \in Entries \cup {entry}
      BY WriteIsLocal DEF PodWritten, PathWritten, DatapathTypeOK
    <3> QED
      BY <1>1, <1>2, <1>3, <2>1, <3>1, <3>2 DEF DatapathTypeOK, Running
  <2>7. PolicyRead'
    <3> SUFFICES ASSUME at = "path", writes = 0 PROVE Recorded(pathCache["tc"][load][id])'
      BY <1>1, <2>1 DEF PolicyRead
    <3>1. linked /\ id = podPolicy[load][src] /\ id \in Ids
      BY DEF PolicyRead, DatapathTypeOK
    <3>2. CASE UNCHANGED pathCache /\ \E ip \in Ips, new \in Ids \cup {id} : PodWritten(ip, new)
      <4>1. id' = id
        BY <1>5, <3>1, <3>2 DEF PodWritten, PointsToId
      <4>2. Recorded(pathCache["tc"][load][id])
        BY DEF PolicyRead
      <4>3. pathCache["tc"][load][id] \in Entries \cup {None}
        BY <1>2, <2>2, <3>1 DEF LoaderTypeOK
      <4> QED
        BY <1>1, <2>1, <3>2, <4>1, <4>2, <4>3 DEF Recorded
    <3>3. CASE /\ UNCHANGED podPolicy
               /\ \E key \in Ids, new \in Entries \cup {entry} : PathWritten(key, new)
      <4>1. id' = id
        BY <3>3 DEF PathWritten
      <4>2. Now' = pathCache'["tc"][load'][id']
        BY <1>1, <3>1, <3>3, <4>1, NoneAssumption DEF Now, PathOf
      <4> QED
        BY <2>4, <4>2 DEF Recorded
    <3> QED
      BY <3>2, <3>3, WriteIsLocal
  <2>8. EntryRead' /\ PartsRead'
    <3> SUFFICES ASSUME at \in {"length", "room", "mac", "dst"}, writes = 0 PROVE entry' = entry
      BY <1>1, <2>1 DEF EntryRead, PartsRead
    <3>1. linked
      BY DEF EntryRead
    <3> QED
      BY <3>1, WriteIsLocal DEF PodWritten, PathWritten
  <2>9. Remembered'
    BY <2>4 DEF Remembered
  <2> QED
    BY <1>1, <1>5, <2>6, <2>7, <2>8, <2>9
    DEF Grown, GrowsAsChecked, NoGapOnReplacement, SentOnOwnPath, Running, Verdicts
<1> QED
  BY <1>4, <1>5

-----------------------------------------------------------------------------
\* Every step of the composition, with the Loader's invariant at hand.
LEMMA FrameStep == FrameInv /\ HooksInv /\ HooksInv' /\ [Next]_vars => FrameInv'
<1> SUFFICES ASSUME FrameInv, HooksInv, HooksInv', [Next]_vars PROVE FrameInv'
  OBVIOUS
<1>1. CASE Hooking /\ UNCHANGED <<egressVars, ingress>>
  BY <1>1, FrameHooking
<1>2. CASE Write
  BY <1>2, FrameWrite
<1>3. CASE \E i \in Ifaces : \/ \E ip \in Ips, n \in Frames : Arrive(i, ip, n)
                             \/ \E w \in WanFrames : Ingress(i, w)
  BY <1>3, FrameArrive, FrameIngress
<1>4. CASE Egress
  BY <1>4, FramePolicy, FramePath, FrameEncapsulation DEF Egress
<1>5. CASE UNCHANGED vars
  BY <1>5
  DEF vars, loaderVars, hooks, maps, handles, egressVars, view, headers, history, FrameInv,
      DatapathTypeOK, LoaderTypeOK, Running, Grown, GrowsAsChecked, Remembered, Now, PathOf,
      Recorded, PolicyRead, EntryRead, PartsRead, NoGapOnReplacement, SentOnOwnPath
<1> QED
  BY <1>1, <1>2, <1>3, <1>4, <1>5 DEF Next

\* In every reachable state the frame has read what was there to read.
THEOREM FrameInvariance == Spec => []FrameInv
BY FrameInit, FrameStep, HooksInComposition, PTL DEF Spec

\* The egress program never goes on without a policy ID, an entry and, when
\* the frame is sent, both next-hop fields.
THEOREM DatapathTypeCorrect == Spec => []DatapathTypeOK
BY FrameInvariance, PTL DEF FrameInv

\* The frame grows by the headroom that was checked, and that is within its
\* bounds, whatever is written to the entry between the check of its length
\* and the end of the program.
THEOREM GrownAsChecked == Spec => []GrowsAsChecked
BY FrameInvariance, PTL DEF FrameInv, Grown

\* A single write during the run of the program lets no frame out in the
\* clear whose pod had a path before and after it.
THEOREM ReplacementHasNoGap == Spec => []NoGapOnReplacement
BY FrameInvariance, PTL DEF FrameInv

\* Until a second write during its run, the program uses one entry, and one
\* that was the pod's.
THEOREM SentOnOneOwnPath == Spec => []SentOnOwnPath
BY FrameInvariance, PTL DEF FrameInv

-----------------------------------------------------------------------------
(***************************************************************************)
(* The datapath implements PodRouting: what a step makes of the frame.     *)
(***************************************************************************)
Offered == paths \cup (IF missing THEN {None} ELSE {})

HeaderOf == [e \in Entries |-> Header(e.hop, e.hop, EncapLen(e.pathLen))]

HeaderShown == IF at = "sent" THEN Header(mac, dst, room) ELSE None

\* A step that leaves the frame's fate, offers and header alone is a stutter
\* of PodRouting.
LEMMA StutterRouting ==
    ASSUME UNCHANGED <<FateOf, Offered, writes, HeaderShown>>
    PROVE  UNCHANGED Routing!routing
BY DEF Routing!routing, Offered, HeaderShown

\* An arrival offers the path that the pod has at that moment.
LEMMA ArriveBegins ==
    ASSUME FrameInv', HooksInv', NEW i \in Ifaces, NEW ip \in Ips, NEW n \in Frames,
           Arrive(i, ip, n)
    PROVE  \E offer \in Routing!Offers : Routing!Begin(offer)
<1>1. ~Running /\ FateOf # "underway"
  BY DEF Arrive, FateOf, Running, Verdicts
<1>2. at' = "policy" /\ Running'
  BY DEF Arrive, Running, Verdicts
<1>3. Now' \in Routing!Offers
  <2>1. load' \in Loads /\ src' \in Ips /\ LoaderTypeOK'
    BY <1>2 DEF FrameInv, DatapathTypeOK, HooksInv, LoaderTypeOK, Loads
  <2> QED
    BY <2>1 DEF Now, PathOf, LoaderTypeOK, Routing!Offers
<1>4. missing' = (Now' = None) /\ paths' = {Now'} \ {None} /\ writes' = 0
  BY DEF Arrive, Now, loaderVars, maps
<1>5. Offered' = {Now'}
  BY <1>4 DEF Offered
<1>6. FateOf' = "underway" /\ HeaderShown' = None
  BY <1>2 DEF FateOf, HeaderShown
<1> QED
  BY <1>1, <1>3, <1>4, <1>5, <1>6 DEF Routing!Begin, Offered, HeaderShown

\* A write to the maps of the frame's program changes the offer, a write to
\* others is not seen.
LEMMA WriteChanges ==
    ASSUME FrameInv, FrameInv', HooksInv, HooksInv', Write
    PROVE  (\E offer \in Routing!Offers : Routing!Change(offer)) \/ UNCHANGED Routing!routing
<1>1. UNCHANGED <<at, load, src, mac, dst, room>>
  BY WriteIsNoticed DEF headers
<1>2. UNCHANGED <<FateOf, HeaderShown>>
  BY <1>1 DEF FateOf, HeaderShown, Running
<1>3. CASE Running /\ load = loads
  <2>1. /\ writes' = writes + 1 /\ missing' = (missing \/ Now' = None)
        /\ paths' = paths \cup ({Now'} \ {None})
    BY <1>3, WriteIsNoticed
  <2>2. Now' \in Routing!Offers
    <3>1. load' \in Loads /\ src' \in Ips /\ LoaderTypeOK'
      BY <1>1, <1>3, WriteIsLocal DEF FrameInv, DatapathTypeOK, HooksInv
    <3> QED
      BY <3>1 DEF Now, PathOf, LoaderTypeOK, Routing!Offers
  <2>3. Offered' = Offered \cup {Now'}
    BY <2>1 DEF Offered
  <2>4. FateOf = "underway"
    BY <1>3 DEF FateOf
  <2> QED
    BY <1>2, <2>1, <2>2, <2>3, <2>4 DEF Routing!Change, Offered, HeaderShown
<1>4. CASE ~(Running /\ load = loads)
  BY <1>2, <1>4, WriteIsNoticed, StutterRouting DEF history, Offered
<1> QED
  BY <1>3, <1>4

\* A lookup that finds nothing lets the frame out, and nothing was an offer.
LEMMA LookupsRoute ==
    ASSUME FrameInv, FrameInv', LookupPolicy \/ LookupPath
    PROVE  Routing!LeaveInClear \/ UNCHANGED Routing!routing
<1>1. /\ Running /\ UNCHANGED <<load, mac, dst, room, writes, missing, paths>>
      /\ at \in {"policy", "path"} /\ at' \in {"clear", "path", "length"}
  BY DEF LookupPolicy, LookupPath, Running, Verdicts, headers, history
<1>2. UNCHANGED <<Offered, writes, HeaderShown>> /\ FateOf = "underway"
  BY <1>1 DEF Offered, HeaderShown, FateOf
<1>3. CASE at' = "clear"
  <2>1. load' # 0
    BY <1>1 DEF FrameInv, DatapathTypeOK
  <2>2. FateOf' = "clear"
    BY <1>3, <2>1 DEF FateOf, Running, Verdicts
  <2>3. writes <= 1 => None \in Offered
    BY <1>1, <1>3, <2>1 DEF FrameInv, NoGapOnReplacement, Offered
  <2> QED
    BY <1>2, <2>2, <2>3 DEF Routing!LeaveInClear, Routing!Owed, Offered, HeaderShown
<1>4. CASE at' # "clear"
  BY <1>1, <1>2, <1>4, StutterRouting DEF FateOf, Running, Verdicts
<1> QED
  BY <1>3, <1>4

\* Opening the headroom and writing the MAC are not seen, the last write
\* sends the frame, and what is shot had a path.
LEMMA EncapsulationRoutes ==
    ASSUME FrameInv, FrameInv', ReadLength \/ OpenRoom \/ Shoot \/ WriteMac \/ WriteAddress
    PROVE  Routing!Send \/ Routing!Drop \/ UNCHANGED Routing!routing
<1>1. /\ Running /\ UNCHANGED <<load, writes, missing, paths>>
      /\ at \in {"length", "room", "mac", "dst"}
  BY DEF ReadLength, OpenRoom, Shoot, WriteMac, WriteAddress, Running, Verdicts, headers, history
<1>2. UNCHANGED <<Offered, writes>> /\ FateOf = "underway" /\ HeaderShown = None
  BY <1>1 DEF Offered, HeaderShown, FateOf
<1>3. load' # 0
  BY <1>1 DEF FrameInv, DatapathTypeOK
<1>4. CASE ReadLength \/ OpenRoom \/ WriteMac
  <2>1. at' \in {"room", "mac", "dst"}
    BY <1>4 DEF ReadLength, OpenRoom, WriteMac
  <2> QED
    BY <1>2, <2>1, StutterRouting DEF FateOf, HeaderShown, Running, Verdicts
<1>5. CASE Shoot
  <2>1. at' = "shot"
    BY <1>5 DEF Shoot
  <2>2. FateOf' = "dropped" /\ HeaderShown' = None
    BY <1>3, <2>1 DEF FateOf, HeaderShown, Running, Verdicts
  <2>3. writes <= 1 => Offered # {None}
    <3>1. writes <= 1 => entry \in paths /\ entry \in Entries
      BY <1>1 DEF FrameInv, EntryRead, DatapathTypeOK
    <3>2. None \notin Entries
      BY EntriesAssumption, NoneAssumption
    <3> QED
      BY <3>1, <3>2 DEF Offered
  <2> QED
    BY <1>2, <2>2, <2>3 DEF Routing!Drop, Routing!Owed, Offered, HeaderShown
<1>6. CASE WriteAddress
  <2>1. at' = "sent"
    BY <1>6 DEF WriteAddress
  <2>2. FateOf' = "sent" /\ HeaderShown' = Header(mac', dst', room')
    BY <1>3, <2>1 DEF FateOf, HeaderShown, Running, Verdicts
  <2>3. ASSUME writes <= 1
        PROVE  \E e \in Offered \ {None} : HeaderShown' = HeaderOf[e]
    <3>1. PICK e \in paths : mac' = e.hop /\ dst' = e.hop /\ room' = EncapLen(e.pathLen)
      BY <1>1, <2>1, <2>3 DEF FrameInv, SentOnOwnPath
    <3>2. e \in Entries /\ e \in Offered \ {None}
      BY EntriesAssumption, NoneAssumption DEF FrameInv, DatapathTypeOK, Offered
    <3> QED
      BY <2>2, <3>1, <3>2 DEF HeaderOf
  <2> QED
    BY <1>2, <2>2, <2>3 DEF Routing!Send, Routing!Owed, Offered, HeaderShown, HeaderOf
<1> QED
  BY <1>4, <1>5, <1>6

\* No frame has come at first.
LEMMA RoutingStart == Init => Routing!RoutingInit
BY DEF Init, Routing!RoutingInit, FateOf, Running, Verdicts

\* Every step of the datapath is one of PodRouting, or not seen by it.
LEMMA RoutingStep ==
    FrameInv /\ FrameInv' /\ HooksInv /\ HooksInv' /\ [Next]_vars
        => [Routing!RoutingNext]_(Routing!routing)
<1> SUFFICES ASSUME FrameInv, FrameInv', HooksInv, HooksInv', [Next]_vars
             PROVE  Routing!RoutingNext \/ UNCHANGED Routing!routing
  OBVIOUS
<1>1. ASSUME UNCHANGED egressVars PROVE UNCHANGED Routing!routing
  <2>1. UNCHANGED <<at, load, mac, dst, room, writes, missing, paths>>
    BY <1>1 DEF egressVars, headers, history
  <2> QED
    BY <2>1, StutterRouting DEF FateOf, Offered, HeaderShown, Running
<1>2. CASE Hooking /\ UNCHANGED <<egressVars, ingress>>
  BY <1>1, <1>2
<1>3. CASE Write
  BY <1>3, WriteChanges DEF Routing!RoutingNext
<1>4. ASSUME NEW i \in Ifaces, NEW ip \in Ips, NEW n \in Frames, Arrive(i, ip, n)
      PROVE  Routing!RoutingNext
  BY <1>4, ArriveBegins DEF Routing!RoutingNext
<1>5. ASSUME NEW i \in Ifaces, NEW w \in WanFrames, Ingress(i, w)
      PROVE  UNCHANGED Routing!routing
  BY <1>1, <1>5 DEF Ingress
<1>6. CASE Egress
  BY <1>6, LookupsRoute, EncapsulationRoutes DEF Egress, Routing!RoutingNext
<1>7. CASE UNCHANGED vars
  BY <1>1, <1>7 DEF vars
<1> QED
  BY <1>2, <1>3, <1>4, <1>5, <1>6, <1>7 DEF Next

\* tc_egress implements PodRouting: for every set of pods, policies and paths
\* and any number of writes that fall into its run, each frame has one fate,
\* and until the second such write a route that the pod had accounts for it.
THEOREM RoutingIsImplemented == Spec => ImplementsRouting
BY FrameInvariance, HooksInComposition, RoutingStart, RoutingStep, PTL
DEF Spec, ImplementsRouting, Routing!RoutingSpec

-----------------------------------------------------------------------------
\* xdp_ingress takes off as many bytes as tc_egress put on if and only if
\* path_len counts the 7 bytes of the path meta header too.
THEOREM StripsWhatWasOpened ==
    ASSUME NEW n \in Nat, NEW numInf \in Nat, NEW numHf \in Nat
    PROVE  StripLen(5, numInf, numHf) = EncapLen(n) <=> n = PathHdrLen(numInf, numHf)
BY DEF StripLen, EncapLen, PathHdrLen, IpHdr, UdpHdr, ScionHdr, AddrHdr, MetaHdr, InfoField,
       HopField, E2eExt

\* The 16-bit lengths of the outer headers are those of the frame, and fit
\* together, for every frame below 64 KiB and one Ethernet header.
THEOREM OuterLengthsExact ==
    ASSUME NEW n \in Nat, EthHdr + IpHdr <= n, n < 65536 + EthHdr
    PROVE  OuterTotLen(n) = n - EthHdr /\ OuterUdpLen(n) = OuterTotLen(n) - IpHdr
BY DEF OuterTotLen, OuterUdpLen, EthHdr, IpHdr

\* Division by a place value cuts a number at that place.
LEMMA CutAt ==
    ASSUME NEW m \in Nat, NEW low \in Nat, low < m, NEW high \in Nat
    PROVE  (low + m * high) \div m = high /\ (low + m * high) % m = low
<1> DEFINE n == low + m * high
           q == n \div m
           r == n % m
<1>1. m * high \in Nat /\ n \in Nat
  BY SMT
<1>2. q \in Nat /\ r \in 0 .. m - 1 /\ n = m * q + r
  BY SMT, <1>1
<1> HIDE DEF q, r
<1>3. ASSUME q < high PROVE FALSE
  <2>1. m * (q + 1) <= m * high
    BY SMT, <1>2, <1>3
  <2> QED
    BY SMT, <1>2, <2>1
<1>4. ASSUME q > high PROVE FALSE
  <2>1. m * (high + 1) <= m * q
    BY SMT, <1>2, <1>4
  <2> QED
    BY SMT, <1>2, <2>1
<1>5. q = high
  BY SMT, <1>2, <1>3, <1>4
<1>6. r = low
  BY SMT, <1>2, <1>5
<1> QED
  BY <1>5, <1>6 DEF q, r

\* IPFromKey is the inverse of IPToKey, so no two addresses share a key.
THEOREM KeysAreAddresses ==
    ASSUME NEW a \in Byte, NEW b \in Byte, NEW c \in Byte, NEW d \in Byte
    PROVE  IPFromKey(IPToKey(<<a, b, c, d>>)) = <<a, b, c, d>>
<1> DEFINE k == IPToKey(<<a, b, c, d>>)
           rest == c + 256 * d
           tail == b + 256 * rest
<1>1. /\ a \in Nat /\ b \in Nat /\ c \in Nat /\ d \in Nat
      /\ a < 256 /\ b < 256 /\ c < 256 /\ d < 256
  BY SMT DEF Byte
<1>2. rest \in Nat /\ tail \in Nat
  BY SMT, <1>1
<1>3. k % 256 = a /\ k \div 256 = tail
  <2>1. k = a + 256 * tail
    BY SMT, <1>1 DEF IPToKey
  <2> QED
    BY SMT, <1>1, <1>2, <2>1, CutAt
<1>4. k \div 65536 = rest
  <2> DEFINE two == a + 256 * b
  <2>1. two \in Nat /\ two < 65536 /\ k = two + 65536 * rest
    BY SMT, <1>1 DEF IPToKey
  <2> HIDE DEF two, k, rest
  <2> QED
    BY SMT, <1>2, <2>1, CutAt
<1>5. k \div 16777216 = d
  <2> DEFINE three == a + 256 * b + 65536 * c
  <2>1. three \in Nat /\ three < 16777216 /\ k = three + 16777216 * d
    BY SMT, <1>1 DEF IPToKey
  <2> HIDE DEF three, k
  <2> QED
    BY SMT, <1>1, <2>1, CutAt
<1>6. tail % 256 = b /\ rest % 256 = c
  BY SMT, <1>1, <1>2, CutAt
<1>7. d % 256 = d
  BY SMT, <1>1
<1> HIDE DEF k, rest, tail
<1> QED
  BY SMT, <1>3, <1>4, <1>5, <1>6, <1>7 DEF IPFromKey, k

=============================================================================
