----------------------------- MODULE LoaderProofs -----------------------------
(***************************************************************************)
(* The Loader's safety, for every set of interfaces, addresses and policy  *)
(* IDs, every capacity of the maps and every number of processes.          *)
(*                                                                         *)
(* Tidy is what the properties lack to be inductive: an overwritten link   *)
(* takes two calls of AttachXDP, there is no link without a call, and a    *)
(* filter belongs to a load that there was.                                *)
(***************************************************************************)
EXTENDS Loader, TLAPS

Tidy ==
    /\ attempts = 0 => xdpLink = None
    /\ attempts < 2 => stray = {}
    /\ process = "new" => xdpLink = None /\ stray = {}
    /\ process = "closed" => xdpLink = None
    /\ \A i \in Ifaces : filter[i] <= loads

HooksInv == LoaderTypeOK /\ EveryLinkHeld /\ Tidy

-----------------------------------------------------------------------------
\* A map stays a map when one of its keys is written.
LEMMA PodWriteTyped ==
    ASSUME podPolicy \in [Loads -> [Ips -> Ids \cup {None}]],
           NEW g \in Loads, NEW ip \in Ips, NEW v \in Ids \cup {None}
    PROVE  [podPolicy EXCEPT ![g][ip] = v] \in [Loads -> [Ips -> Ids \cup {None}]]
<1>1. [podPolicy[g] EXCEPT ![ip] = v] \in [Ips -> Ids \cup {None}]
  OBVIOUS
<1>2. [podPolicy EXCEPT ![g] = [podPolicy[g] EXCEPT ![ip] = v]]
        \in [Loads -> [Ips -> Ids \cup {None}]]
  BY <1>1
<1> QED
  BY <1>2

\* The same for the two caches of paths.
LEMMA PathWriteTyped ==
    ASSUME pathCache \in [{"tc", "xdp"} -> [Loads -> [Ids -> Entries \cup {None}]]],
           NEW g \in Loads, NEW id \in Ids, NEW v \in Entries \cup {None}
    PROVE  [pathCache EXCEPT !["tc"][g][id] = v]
             \in [{"tc", "xdp"} -> [Loads -> [Ids -> Entries \cup {None}]]]
<1> DEFINE tc == pathCache["tc"]
<1>1. tc \in [Loads -> [Ids -> Entries \cup {None}]]
  OBVIOUS
<1>2. [tc[g] EXCEPT ![id] = v] \in [Ids -> Entries \cup {None}]
  BY <1>1
<1>3. [tc EXCEPT ![g] = [tc[g] EXCEPT ![id] = v]] \in [Loads -> [Ids -> Entries \cup {None}]]
  BY <1>1, <1>2
<1> HIDE DEF tc
<1>4. [pathCache EXCEPT !["tc"] = [tc EXCEPT ![g] = [tc[g] EXCEPT ![id] = v]]]
        \in [{"tc", "xdp"} -> [Loads -> [Ids -> Entries \cup {None}]]]
  BY <1>3
<1> QED
  BY <1>4 DEF tc

-----------------------------------------------------------------------------
\* Nothing is attached at first.
LEMMA HooksInit == LoaderInit => HooksInv
BY NoneAssumption, MaxLoadsAssumption
DEF LoaderInit, HooksInv, LoaderTypeOK, EveryLinkHeld, Tidy, Loads

\* Map operations leave the hooks alone, and are made by a loaded process.
LEMMA WritingKeeps ==
    ASSUME HooksInv, Writing
    PROVE  HooksInv'
<1> USE DEF HooksInv, LoaderTypeOK
<1>1. loads \in Loads /\ process = "loaded"
  BY DEF Writing, Ready, UpdatePodPolicy, DeletePodPolicy, UpdateScionPath, DeleteScionPath, Loads
<1>2. UNCHANGED <<hooks, loads, process, handles, attaching>>
  BY DEF Writing, UpdatePodPolicy, DeletePodPolicy, UpdateScionPath, DeleteScionPath
<1>3. podPolicy' \in [Loads -> [Ips -> Ids \cup {None}]]
  <2>1. CASE \E ip \in Ips, v \in Ids \cup {None} :
               podPolicy' = [podPolicy EXCEPT ![loads][ip] = v]
    BY <1>1, <2>1, PodWriteTyped
  <2>2. CASE UNCHANGED podPolicy
    BY <2>2
  <2> QED
    BY <2>1, <2>2 DEF Writing, UpdatePodPolicy, DeletePodPolicy, UpdateScionPath, DeleteScionPath
<1>4. pathCache' \in [{"tc", "xdp"} -> [Loads -> [Ids -> Entries \cup {None}]]]
  <2>1. CASE \E id \in Ids, v \in Entries \cup {None} :
               pathCache' = [pathCache EXCEPT !["tc"][loads][id] = v]
    BY <1>1, <2>1, PathWriteTyped
  <2>2. CASE UNCHANGED pathCache
    BY <2>2
  <2> QED
    BY <2>1, <2>2 DEF Writing, UpdatePodPolicy, DeletePodPolicy, UpdateScionPath, DeleteScionPath
<1>5. LoaderTypeOK'
  BY <1>2, <1>3, <1>4 DEF hooks, handles
<1>6. EveryLinkHeld' /\ Tidy'
  BY <1>2 DEF hooks, handles, EveryLinkHeld, Tidy
<1> QED
  BY <1>5, <1>6

\* Every operation on hooks keeps the accounts of links and filters.
LEMMA HookingKeeps ==
    ASSUME HooksInv, Hooking
    PROVE  HooksInv'
<1> USE NoneAssumption, MaxLoadsAssumption
    DEF HooksInv, LoaderTypeOK, EveryLinkHeld, Tidy, Ready, hooks, maps, handles
<1>1. CASE Load
  BY <1>1 DEF Load
<1>2. CASE AddFilter
  BY <1>2 DEF AddFilter
<1>3. CASE FilterRefused
  BY <1>3 DEF FilterRefused
<1>4. CASE Close
  BY <1>4 DEF Close
<1>5. CASE Die
  BY <1>5 DEF Die
<1>6. ASSUME NEW i \in Ifaces, AddQdisc(i) PROVE HooksInv'
  BY <1>6 DEF AddQdisc
<1>7. ASSUME NEW i \in Ifaces, DetachTC(i) PROVE HooksInv'
  BY <1>7 DEF DetachTC
<1>8. ASSUME NEW i \in Ifaces, AttachXDP(i) PROVE HooksInv'
  BY <1>8 DEF AttachXDP, Overwritten, CountAttempt
<1>9. ASSUME NEW i \in Ifaces, AttachXDPRefused(i) PROVE HooksInv'
  BY <1>9 DEF AttachXDPRefused, Overwritten, CountAttempt
<1>10. ASSUME NEW i \in Ifaces, Finalize(i) PROVE HooksInv'
  BY <1>10 DEF Finalize
<1>11. ASSUME NEW i \in Ifaces, Vanish(i) PROVE HooksInv'
  BY <1>11 DEF Vanish
<1>12. ASSUME NEW i \in Ifaces, Appear(i) PROVE HooksInv'
  BY <1>12 DEF Appear
<1> QED
  BY <1>1, <1>2, <1>3, <1>4, <1>5, <1>6, <1>7, <1>8, <1>9, <1>10, <1>11, <1>12 DEF Hooking

\* So does every step of the Loader, writes to the maps among them.
LEMMA HooksStep == HooksInv /\ [LoaderNext]_loaderVars => HooksInv'
<1> SUFFICES ASSUME HooksInv, [LoaderNext]_loaderVars PROVE HooksInv'
  OBVIOUS
<1>1. CASE Hooking
  BY <1>1, HookingKeeps
<1>2. CASE Writing
  BY <1>2, WritingKeeps
<1>3. CASE UNCHANGED loaderVars
  BY <1>3 DEF loaderVars, hooks, maps, handles, HooksInv, LoaderTypeOK, EveryLinkHeld, Tidy
<1> QED
  BY <1>1, <1>2, <1>3 DEF LoaderNext

\* The accounts of links and filters are right in every reachable state.
THEOREM HooksInvariance == LoaderSpec => []HooksInv
BY HooksInit, HooksStep, PTL DEF LoaderSpec

\* Every state of hooks, links and maps is one that the Go types and the
\* kernel's tables can hold; a loaded process has a load of its own.
THEOREM LoaderTypeCorrect == LoaderSpec => []LoaderTypeOK
BY HooksInvariance, PTL DEF HooksInv

\* However calls of AttachXDP, failures, finalizers, deaths and vanishing
\* interfaces come, an XDP program that runs is held by exactly one link.
THEOREM LinksAreAccountedFor == LoaderSpec => []EveryLinkHeld
BY HooksInvariance, PTL DEF HooksInv

\* A caller that attaches XDP once is left with nothing after Close.
THEOREM CloseIsComplete == LoaderSpec => []CloseDetaches
<1>1. HooksInv => CloseDetaches
  BY NoneAssumption DEF HooksInv, LoaderTypeOK, EveryLinkHeld, Tidy, CloseDetaches
<1> QED
  BY <1>1, HooksInvariance, PTL

-----------------------------------------------------------------------------
\* Map operations reach the maps of the last load only, and only its own
\* process makes them.
LEMMA WritesStayAtHome ==
    ASSUME HooksInv, Writing
    PROVE  /\ process = "loaded" /\ UNCHANGED filter
           /\ \A g \in Loads \ {loads} :
                podPolicy'[g] = podPolicy[g] /\ pathCache'["tc"][g] = pathCache["tc"][g]
<1>1. podPolicy \in [Loads -> [Ips -> Ids \cup {None}]]
  BY DEF HooksInv, LoaderTypeOK
<1>2. pathCache \in [{"tc", "xdp"} -> [Loads -> [Ids -> Entries \cup {None}]]]
  BY DEF HooksInv, LoaderTypeOK
<1>3. process = "loaded" /\ UNCHANGED filter
  BY DEF Writing, Ready, UpdatePodPolicy, DeletePodPolicy, UpdateScionPath, DeleteScionPath, hooks
<1>4. \A g \in Loads \ {loads} : podPolicy'[g] = podPolicy[g]
  <2>1. CASE \E ip \in Ips, v \in Ids \cup {None} :
               podPolicy' = [podPolicy EXCEPT ![loads][ip] = v]
    BY <1>1, <2>1
  <2>2. CASE UNCHANGED podPolicy
    BY <2>2
  <2> QED
    BY <2>1, <2>2 DEF Writing, UpdatePodPolicy, DeletePodPolicy, UpdateScionPath, DeleteScionPath
<1>5. \A g \in Loads \ {loads} : pathCache'["tc"][g] = pathCache["tc"][g]
  <2>1. CASE \E id \in Ids, v \in Entries \cup {None} :
               pathCache' = [pathCache EXCEPT !["tc"][loads][id] = v]
    BY <1>2, <2>1
  <2>2. CASE UNCHANGED pathCache
    BY <2>2
  <2> QED
    BY <2>1, <2>2 DEF Writing, UpdatePodPolicy, DeletePodPolicy, UpdateScionPath, DeleteScionPath
<1> QED
  BY <1>3, <1>4, <1>5

\* Operations on hooks write no map, and leave a filter or take it away.
LEMMA HooksLeaveFilters ==
    ASSUME HooksInv, Hooking
    PROVE  UNCHANGED maps /\ \A i \in Ifaces : filter[i] # 0 => filter'[i] \in {0, filter[i]}
<1> DEFINE Left == /\ UNCHANGED maps
                   /\ \A i \in Ifaces : filter[i] # 0 => filter'[i] \in {0, filter[i]}
<1> USE DEF HooksInv, LoaderTypeOK, hooks
<1>1. CASE AddFilter
  BY <1>1 DEF AddFilter
<1>2. CASE Load \/ FilterRefused \/ Close \/ Die
  BY <1>2 DEF Load, FilterRefused, Close, Die
<1>3. ASSUME NEW i \in Ifaces, DetachTC(i) \/ Vanish(i) PROVE Left
  BY <1>3 DEF DetachTC, Vanish
<1>4. ASSUME NEW i \in Ifaces,
             AddQdisc(i) \/ AttachXDP(i) \/ AttachXDPRefused(i) \/ Finalize(i) \/ Appear(i)
      PROVE  Left
  BY <1>4 DEF AddQdisc, AttachXDP, AttachXDPRefused, Finalize, Appear
<1> QED
  BY <1>1, <1>2, <1>3, <1>4 DEF Hooking

\* What a process enforced outlives it: as long as the filter is there, no
\* later process changes a route of it, in whatever order the two write,
\* attach, fail and die.
THEOREM RoutesOutliveTheProcess == LoaderSpec => LastKnownGood
<1> DEFINE Frozen ==
             \A i \in Ifaces, ip \in Ips :
               /\ filter[i] # 0 /\ filter'[i] # 0
               /\ RouteAt(i, ip)' # RouteAt(i, ip)
               => process = "loaded" /\ filter[i] = loads
<1>1. HooksInv /\ [LoaderNext]_loaderVars => [Frozen]_loaderVars
  <2> SUFFICES ASSUME HooksInv, LoaderNext PROVE Frozen
    OBVIOUS
  <2> SUFFICES ASSUME NEW i \in Ifaces, NEW ip \in Ips, filter[i] # 0, filter'[i] # 0,
                      ~(process = "loaded" /\ filter[i] = loads)
               PROVE  RouteAt(i, ip)' = RouteAt(i, ip)
    OBVIOUS
  <2>1. filter[i] \in Loads
    BY DEF HooksInv, LoaderTypeOK, Loads
  <2>2. CASE Hooking
    BY <2>2, HooksLeaveFilters DEF RouteAt, PathOf, maps
  <2>3. CASE Writing
    <3>1. /\ filter' = filter
          /\ podPolicy'[filter[i]] = podPolicy[filter[i]]
          /\ pathCache'["tc"][filter[i]] = pathCache["tc"][filter[i]]
      BY <2>1, <2>3, WritesStayAtHome
    <3> QED
      BY <3>1 DEF RouteAt, PathOf
  <2> QED
    BY <2>2, <2>3 DEF LoaderNext
<1> QED
  BY <1>1, HooksInvariance, PTL DEF LoaderSpec, LastKnownGood

=============================================================================
