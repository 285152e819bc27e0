---------------------------- MODULE PathCacheProofs ----------------------------
(***************************************************************************)
(* Proofs of PathCache's safety for any number of callers, remotes, paths  *)
(* and changes of the network, whether queryPaths is a stub or not.        *)
(***************************************************************************)
EXTENDS PathCache, PathOrderProofs

-----------------------------------------------------------------------------
(***************************************************************************)
(* The inductive invariant behind the safety properties.                   *)
(***************************************************************************)

\* The connection is under way while a caller dials, or has ended the process.
Connecting ==
    /\ \A c \in Callers : at[c] = "dial" => host = "dialing"
    /\ process = "exited" => host = "dialing"

\* What is in the map, or about to be written to it, came out of the sort.
SortedEntry(entry) == entry.list \in SortPartsPaths(Range(entry.list))

AllSorted ==
    /\ \A r \in Remotes : cached[r] # None => SortedEntry(cached[r])
    /\ \A c \in Callers : at[c] \in {"write", "writing"} => SortedEntry(paths[c])

\* oldest is no later than the start of any call that is under way.
BeginsKnown ==
    /\ \A c \in Callers : began[c] <= changes
    /\ \A c, d \in UnderWay : oldest[c] <= began[d]

\* An answer is of the time of the query, and once it was written without a
\* race, the map has it or one that another call under way has put there.
AnswerIsNew ==
    /\ \A c \in Callers : at[c] \in {"write", "writing"} => paths[c].age >= began[c]
    /\ \A c \in Callers : at[c] \in {"read", "reading"} /\ ~failed[c] /\ ~raced[c] =>
            cached[remote[c]] # None /\ cached[remote[c]].age >= oldest[c]

CacheInv ==
    /\ CacheTypeOK
    /\ Connecting
    /\ OneConnection
    /\ AllSorted
    /\ BeginsKnown
    /\ AnswerIsNew
    /\ NotOlderThanOverlap

-----------------------------------------------------------------------------
\* A finite set of numbers that is not empty has a least one.
LEMMA LeastIsLeast ==
    ASSUME NEW S \in SUBSET Nat, S # {}
    PROVE  Least(S) \in S /\ \A m \in S : Least(S) <= m
BY LeastNumber DEF Least

\* A sorted list is a list of the paths it came from, all of them.
LEMMA SortedIsList ==
    ASSUME NEW P, P \subseteq Path, IsFiniteSet(P), NEW l \in SortPartsPaths(P)
    PROVE  /\ l \in Seq(Path)
           /\ Range(l) = P
<1>1. Cardinality(P) \in Nat
  BY FS_CardinalityType
<1>2. l \in [1 .. Cardinality(P) -> P] /\ Range(l) = P
  BY DEF SortPartsPaths
<1>3. l \in Seq(P)
  BY <1>1, <1>2
<1> QED
  BY <1>2, <1>3

\* What a query gives is one of the daemon's sets of paths, or empty.
LEMMA QueriedIsSet ==
    ASSUME CacheTypeOK, NEW r \in Remotes
    PROVE  Queried(r) \subseteq Path /\ IsFiniteSet(Queried(r))
<1>1. IsFiniteSet({})
  BY FS_EmptySet
<1>2. offer[IA[r]] \in Offers
  BY DEF CacheTypeOK, IAs
<1>3. offer[IA[r]] \subseteq Path /\ IsFiniteSet(offer[IA[r]])
  BY <1>2, OffersAssumption
<1> QED
  BY <1>1, <1>3 DEF Queried

\* The range of a list of paths is finite.
LEMMA ListRange ==
    ASSUME NEW l \in Seq(Path)
    PROVE  Range(l) \subseteq Path /\ IsFiniteSet(Range(l))
<1>1. Len(l) \in Nat /\ l \in [1 .. Len(l) -> Path]
  OBVIOUS
<1>2. l \in Surjection(1 .. Len(l), Range(l))
  BY <1>1 DEF Surjection, Range
<1>3. IsFiniteSet(1 .. Len(l))
  BY <1>1, FS_Interval
<1>4. IsFiniteSet(Range(l))
  BY <1>2, <1>3, FS_Surjection
<1> QED
  BY <1>1, <1>4 DEF Range

-----------------------------------------------------------------------------
\* Nothing is cached at first, and nobody is under way.
LEMMA InitCorrect == CacheInit => CacheInv
<1> SUFFICES ASSUME CacheInit PROVE CacheInv
  OBVIOUS
<1>1. CacheTypeOK
  BY MaxChangesAssumption DEF CacheInit, CacheTypeOK, Steps
<1> QED
  BY <1>1 DEF CacheInit, CacheInv, Connecting, OneConnection, AllSorted,
          BeginsKnown, AnswerIsNew, NotOlderThanOverlap, UnderWay

\* Types are kept.
LEMMA TypeStep ==
    ASSUME CacheTypeOK, [CacheNext]_vars
    PROVE  CacheTypeOK'
<1>1. ASSUME NEW c \in Callers, NEW r \in Remotes, Get(c, r)
      PROVE  CacheTypeOK'
  <2> DEFINE S == {changes} \cup {began[d] : d \in UnderWay}
  <2>1. S \in SUBSET (0 .. MaxChanges) /\ S # {}
    BY DEF CacheTypeOK, UnderWay
  <2>2. Least(S) \in 0 .. MaxChanges
    BY <2>1, LeastIsLeast, MaxChangesAssumption
  <2> HIDE DEF S
  <2>3. oldest' = [oldest EXCEPT ![c] = Least(S)]
    BY <1>1 DEF Get, S
  <2> QED
    BY <1>1, <2>2, <2>3, MaxChangesAssumption DEF CacheTypeOK, Get, Goto, Running, Steps
<1>2. ASSUME NEW c \in Callers, Dial(c)
      PROVE  CacheTypeOK'
  BY <1>2, MaxChangesAssumption DEF CacheTypeOK, Dial, Goto, Running, Steps, calls
<1>3. ASSUME NEW c \in Callers, Dialed(c)
      PROVE  CacheTypeOK'
  BY <1>3, MaxChangesAssumption DEF CacheTypeOK, Dialed, Goto, Running, Steps, calls
<1>4. ASSUME NEW c \in Callers, DialFails(c)
      PROVE  CacheTypeOK'
  BY <1>4, MaxChangesAssumption DEF CacheTypeOK, DialFails, Goto, Running, Steps, calls
<1>5. ASSUME NEW c \in Callers, HostReady(c)
      PROVE  CacheTypeOK'
  BY <1>5, MaxChangesAssumption DEF CacheTypeOK, HostReady, Goto, Running, Steps, calls
<1>6. ASSUME NEW c \in Callers, QueryPaths(c)
      PROVE  CacheTypeOK'
  <2>1. remote[c] \in Remotes
    BY <1>6 DEF CacheTypeOK, QueryPaths, Goto
  <2>2. PICK l \in SortPartsPaths(Queried(remote[c])) :
        paths' = [paths EXCEPT ![c] = [list |-> l, age |-> changes]]
    BY <1>6 DEF QueryPaths
  <2>3. l \in Seq(Path)
    BY <2>1, <2>2, QueriedIsSet, SortedIsList
  <2>4. changes \in Nat
    BY MaxChangesAssumption DEF CacheTypeOK
  <2>5. [list |-> l, age |-> changes] \in Entry
    BY <2>3, <2>4 DEF Entry
  <2> HIDE DEF Entry
  <2> QED
    BY <1>6, <2>2, <2>5 DEF CacheTypeOK, QueryPaths, Goto, Running, Steps
<1>7. ASSUME NEW c \in Callers, QueryFails(c)
      PROVE  CacheTypeOK'
  BY <1>7, MaxChangesAssumption DEF CacheTypeOK, QueryFails, Goto, Running, Steps, calls
<1>8. ASSUME NEW c \in Callers, BeginWrite(c)
      PROVE  CacheTypeOK'
  <2>1. raced' \in [Callers -> BOOLEAN]
    BY <1>8 DEF CacheTypeOK, BeginWrite, Writers, Readers
  <2> QED
    BY <1>8, <2>1 DEF CacheTypeOK, BeginWrite, Goto, Running, Steps
<1>9. ASSUME NEW c \in Callers, EndWrite(c)
      PROVE  CacheTypeOK'
  <2>1. remote[c] \in Remotes /\ paths[c] \in Entry
    BY <1>9 DEF CacheTypeOK, EndWrite, Goto
  <2>2. cached' \in [Remotes -> Entry \cup {None}]
    BY <1>9, <2>1 DEF CacheTypeOK, EndWrite, Stored
  <2>3. raced' \in [Callers -> BOOLEAN]
    BY <1>9 DEF CacheTypeOK, EndWrite, UnderWay
  <2> QED
    BY <1>9, <2>2, <2>3 DEF CacheTypeOK, EndWrite, Goto, Running, Steps
<1>10. ASSUME NEW c \in Callers, BeginRead(c)
      PROVE  CacheTypeOK'
  BY <1>10, MaxChangesAssumption DEF CacheTypeOK, BeginRead, Goto, Running, Steps, calls
<1>11. ASSUME NEW c \in Callers, EndRead(c)
      PROVE  CacheTypeOK'
  BY <1>11, MaxChangesAssumption DEF CacheTypeOK, EndRead, Goto, Running, Steps, calls
<1>12. ASSUME NEW c \in Callers, Throw(c)
      PROVE  CacheTypeOK'
  BY <1>12, MaxChangesAssumption DEF CacheTypeOK, Throw, Goto, Running, Steps, calls
<1>13. ASSUME NEW c \in Callers, Return(c)
      PROVE  CacheTypeOK'
  BY <1>13, MaxChangesAssumption DEF CacheTypeOK, Return, Goto, Running, Steps, calls
<1>14. ASSUME NEW ia \in IAs, NEW offered \in Offers, Change(ia, offered)
      PROVE  CacheTypeOK'
  BY <1>14, MaxChangesAssumption DEF CacheTypeOK, Change, Goto, Running, Steps, calls
<1>15. CASE UNCHANGED vars
  BY <1>15 DEF vars, calls, CacheTypeOK
<1> QED
  BY <1>1, <1>2, <1>3, <1>4, <1>5, <1>6, <1>7, <1>8, <1>9, <1>10, <1>11, <1>12, <1>13,
     <1>14, <1>15 DEF CacheNext, Proceed

\* One caller at most dials, and the daemon ends the process only then.
LEMMA ConnectionStep ==
    ASSUME CacheTypeOK, Connecting, OneConnection, [CacheNext]_vars
    PROVE  (Connecting /\ OneConnection)'
<1>1. ASSUME NEW c \in Callers, NEW r \in Remotes, Get(c, r)
      PROVE  (Connecting /\ OneConnection)'
  BY <1>1 DEF CacheTypeOK, Connecting, OneConnection, Get, Goto, Running, Steps, calls
<1>2. ASSUME NEW c \in Callers, Dial(c)
      PROVE  (Connecting /\ OneConnection)'
  BY <1>2 DEF CacheTypeOK, Connecting, OneConnection, Dial, Goto, Running, Steps, calls
<1>3. ASSUME NEW c \in Callers, Dialed(c)
      PROVE  (Connecting /\ OneConnection)'
  BY <1>3 DEF CacheTypeOK, Connecting, OneConnection, Dialed, Goto, Running, Steps, calls
<1>4. ASSUME NEW c \in Callers, DialFails(c)
      PROVE  (Connecting /\ OneConnection)'
  BY <1>4 DEF CacheTypeOK, Connecting, OneConnection, DialFails, Goto, Running, Steps, calls
<1>5. ASSUME NEW c \in Callers, HostReady(c)
      PROVE  (Connecting /\ OneConnection)'
  BY <1>5 DEF CacheTypeOK, Connecting, OneConnection, HostReady, Goto, Running, Steps, calls
<1>6. ASSUME NEW c \in Callers, QueryPaths(c)
      PROVE  (Connecting /\ OneConnection)'
  BY <1>6 DEF CacheTypeOK, Connecting, OneConnection, QueryPaths, Goto, Running, Steps, calls
<1>7. ASSUME NEW c \in Callers, QueryFails(c)
      PROVE  (Connecting /\ OneConnection)'
  BY <1>7 DEF CacheTypeOK, Connecting, OneConnection, QueryFails, Goto, Running, Steps, calls
<1>8. ASSUME NEW c \in Callers, BeginWrite(c)
      PROVE  (Connecting /\ OneConnection)'
  BY <1>8 DEF CacheTypeOK, Connecting, OneConnection, BeginWrite, Goto, Running, Steps, calls
<1>9. ASSUME NEW c \in Callers, EndWrite(c)
      PROVE  (Connecting /\ OneConnection)'
  BY <1>9 DEF CacheTypeOK, Connecting, OneConnection, EndWrite, Goto, Running, Steps, calls
<1>10. ASSUME NEW c \in Callers, BeginRead(c)
      PROVE  (Connecting /\ OneConnection)'
  BY <1>10 DEF CacheTypeOK, Connecting, OneConnection, BeginRead, Goto, Running, Steps, calls
<1>11. ASSUME NEW c \in Callers, EndRead(c)
      PROVE  (Connecting /\ OneConnection)'
  BY <1>11 DEF CacheTypeOK, Connecting, OneConnection, EndRead, Goto, Running, Steps, calls
<1>12. ASSUME NEW c \in Callers, Throw(c)
      PROVE  (Connecting /\ OneConnection)'
  BY <1>12 DEF CacheTypeOK, Connecting, OneConnection, Throw, Goto, Running, Steps, calls
<1>13. ASSUME NEW c \in Callers, Return(c)
      PROVE  (Connecting /\ OneConnection)'
  BY <1>13 DEF CacheTypeOK, Connecting, OneConnection, Return, Goto, Running, Steps, calls
<1>14. ASSUME NEW ia \in IAs, NEW offered \in Offers, Change(ia, offered)
      PROVE  (Connecting /\ OneConnection)'
  BY <1>14 DEF CacheTypeOK, Connecting, OneConnection, Change, Goto, Running, Steps, calls
<1>15. CASE UNCHANGED vars
  BY <1>15 DEF vars, calls, Connecting, OneConnection, Running
<1> QED
  BY <1>1, <1>2, <1>3, <1>4, <1>5, <1>6, <1>7, <1>8, <1>9, <1>10, <1>11, <1>12, <1>13,
     <1>14, <1>15 DEF CacheNext, Proceed

\* Only sorted lists reach the map.
LEMMA SortedStep ==
    ASSUME CacheTypeOK, AllSorted, [CacheNext]_vars
    PROVE  AllSorted'
<1>1. ASSUME NEW c \in Callers, NEW r \in Remotes, Get(c, r)
      PROVE  AllSorted'
  BY <1>1, NoneAssumption DEF CacheTypeOK, AllSorted, Get, Goto, Running, Steps, calls
<1>2. ASSUME NEW c \in Callers, Dial(c)
      PROVE  AllSorted'
  BY <1>2, NoneAssumption DEF CacheTypeOK, AllSorted, Dial, Goto, Running, Steps, calls
<1>3. ASSUME NEW c \in Callers, Dialed(c)
      PROVE  AllSorted'
  BY <1>3, NoneAssumption DEF CacheTypeOK, AllSorted, Dialed, Goto, Running, Steps, calls
<1>4. ASSUME NEW c \in Callers, DialFails(c)
      PROVE  AllSorted'
  BY <1>4, NoneAssumption DEF CacheTypeOK, AllSorted, DialFails, Goto, Running, Steps, calls
<1>5. ASSUME NEW c \in Callers, HostReady(c)
      PROVE  AllSorted'
  BY <1>5, NoneAssumption DEF CacheTypeOK, AllSorted, HostReady, Goto, Running, Steps, calls
<1>6. ASSUME NEW c \in Callers, QueryPaths(c)
      PROVE  AllSorted'
  <2>1. remote[c] \in Remotes
    BY <1>6 DEF CacheTypeOK, QueryPaths, Goto
  <2>2. PICK l \in SortPartsPaths(Queried(remote[c])) :
        paths' = [paths EXCEPT ![c] = [list |-> l, age |-> changes]]
    BY <1>6 DEF QueryPaths
  <2>3. Range(l) = Queried(remote[c])
    BY <2>1, <2>2, QueriedIsSet, SortedIsList
  <2>4. SortedEntry(paths'[c])
    BY <2>2, <2>3 DEF CacheTypeOK, SortedEntry
  <2> QED
    BY <1>6, <2>2, <2>4 DEF CacheTypeOK, AllSorted, QueryPaths, Goto, Running, SortedEntry
<1>7. ASSUME NEW c \in Callers, QueryFails(c)
      PROVE  AllSorted'
  BY <1>7, NoneAssumption DEF CacheTypeOK, AllSorted, QueryFails, Goto, Running, Steps, calls
<1>8. ASSUME NEW c \in Callers, BeginWrite(c)
      PROVE  AllSorted'
  BY <1>8, NoneAssumption DEF CacheTypeOK, AllSorted, BeginWrite, Goto, Running, Steps, calls
<1>9. ASSUME NEW c \in Callers, EndWrite(c)
      PROVE  AllSorted'
  <2>1. remote[c] \in Remotes /\ SortedEntry(paths[c])
    BY <1>9 DEF CacheTypeOK, AllSorted, EndWrite, Goto
  <2>2. \A r \in Remotes : cached'[r] # None => SortedEntry(cached'[r])
    BY <1>9, <2>1 DEF CacheTypeOK, AllSorted, EndWrite, Stored
  <2>3. \A d \in Callers : at'[d] \in {"write", "writing"} => SortedEntry(paths'[d])
    BY <1>9 DEF CacheTypeOK, AllSorted, EndWrite, Goto
  <2> QED
    BY <2>2, <2>3 DEF AllSorted, SortedEntry
<1>10. ASSUME NEW c \in Callers, BeginRead(c)
      PROVE  AllSorted'
  BY <1>10, NoneAssumption DEF CacheTypeOK, AllSorted, BeginRead, Goto, Running, Steps, calls
<1>11. ASSUME NEW c \in Callers, EndRead(c)
      PROVE  AllSorted'
  BY <1>11, NoneAssumption DEF CacheTypeOK, AllSorted, EndRead, Goto, Running, Steps, calls
<1>12. ASSUME NEW c \in Callers, Throw(c)
      PROVE  AllSorted'
  BY <1>12, NoneAssumption DEF CacheTypeOK, AllSorted, Throw, Goto, Running, Steps, calls
<1>13. ASSUME NEW c \in Callers, Return(c)
      PROVE  AllSorted'
  BY <1>13, NoneAssumption DEF CacheTypeOK, AllSorted, Return, Goto, Running, Steps, calls
<1>14. ASSUME NEW ia \in IAs, NEW offered \in Offers, Change(ia, offered)
      PROVE  AllSorted'
  BY <1>14, NoneAssumption DEF CacheTypeOK, AllSorted, Change, Goto, Running, Steps, calls
<1>15. CASE UNCHANGED vars
  BY <1>15 DEF vars, calls, AllSorted, SortedEntry
<1> QED
  BY <1>1, <1>2, <1>3, <1>4, <1>5, <1>6, <1>7, <1>8, <1>9, <1>10, <1>11, <1>12, <1>13,
     <1>14, <1>15 DEF CacheNext, Proceed

\* A call under way began no earlier than the others believe.
LEMMA BeginsStep ==
    ASSUME CacheTypeOK, BeginsKnown, [CacheNext]_vars
    PROVE  BeginsKnown'
<1>1. ASSUME NEW c \in Callers, NEW r \in Remotes, Get(c, r)
      PROVE  BeginsKnown'
  <2> DEFINE S == {changes} \cup {began[d] : d \in UnderWay}
  <2>1. S \in SUBSET Nat /\ S # {}
    BY MaxChangesAssumption DEF CacheTypeOK, UnderWay
  <2>2. /\ Least(S) \in Nat
        /\ Least(S) <= changes
        /\ \A d \in UnderWay : Least(S) <= began[d]
    BY <2>1, LeastIsLeast
  <2> HIDE DEF S
  <2>3. oldest' = [oldest EXCEPT ![c] = Least(S)]
    BY <1>1 DEF Get, S
  <2>4. /\ began' = [began EXCEPT ![c] = changes]
        /\ changes' = changes
        /\ at[c] = "idle"
        /\ at' = [at EXCEPT ![c] = "host"]
    BY <1>1 DEF Get, Goto
  <2>5. \A d \in UnderWay' : d = c \/ d \in UnderWay
    BY <2>4 DEF UnderWay, CacheTypeOK
  <2>6. \A d \in Callers : oldest[d] \in Nat /\ began[d] \in Nat
    BY MaxChangesAssumption DEF CacheTypeOK
  <2>7. ASSUME NEW d \in UnderWay', NEW e \in UnderWay'
        PROVE  oldest'[d] <= began'[e]
    <3>1. d \in Callers /\ e \in Callers
      BY DEF UnderWay
    <3>2. CASE d = c
      BY <2>2, <2>3, <2>4, <2>5, <3>1, <3>2 DEF CacheTypeOK
    <3>3. CASE d # c /\ e = c
      <4>1. oldest[d] <= began[d] /\ began[d] <= changes
        BY <2>5, <3>1, <3>3 DEF BeginsKnown
      <4>2. changes \in Nat
        BY MaxChangesAssumption DEF CacheTypeOK
      <4> QED
        BY <2>3, <2>4, <2>6, <3>1, <3>3, <4>1, <4>2 DEF CacheTypeOK
    <3>4. CASE d # c /\ e # c
      BY <2>3, <2>4, <2>5, <3>1, <3>4 DEF CacheTypeOK, BeginsKnown
    <3> QED
      BY <3>2, <3>3, <3>4
  <2>8. \A d \in Callers : began'[d] <= changes'
    BY <2>4, MaxChangesAssumption DEF CacheTypeOK, BeginsKnown
  <2> QED
    BY <2>7, <2>8 DEF BeginsKnown
<1>2. ASSUME NEW c \in Callers, Dial(c)
      PROVE  BeginsKnown'
  BY <1>2, MaxChangesAssumption DEF CacheTypeOK, BeginsKnown, UnderWay, Dial, Goto, Running, calls
<1>3. ASSUME NEW c \in Callers, Dialed(c)
      PROVE  BeginsKnown'
  BY <1>3, MaxChangesAssumption DEF CacheTypeOK, BeginsKnown, UnderWay, Dialed, Goto, Running,
     calls
<1>4. ASSUME NEW c \in Callers, DialFails(c)
      PROVE  BeginsKnown'
  BY <1>4, MaxChangesAssumption DEF CacheTypeOK, BeginsKnown, UnderWay, DialFails, Goto,
     Running, calls
<1>5. ASSUME NEW c \in Callers, HostReady(c)
      PROVE  BeginsKnown'
  BY <1>5, MaxChangesAssumption DEF CacheTypeOK, BeginsKnown, UnderWay, HostReady, Goto,
     Running, calls
<1>6. ASSUME NEW c \in Callers, QueryPaths(c)
      PROVE  BeginsKnown'
  BY <1>6, MaxChangesAssumption DEF CacheTypeOK, BeginsKnown, UnderWay, QueryPaths, Goto,
     Running, calls
<1>7. ASSUME NEW c \in Callers, QueryFails(c)
      PROVE  BeginsKnown'
  BY <1>7, MaxChangesAssumption DEF CacheTypeOK, BeginsKnown, UnderWay, QueryFails, Goto,
     Running, calls
<1>8. ASSUME NEW c \in Callers, BeginWrite(c)
      PROVE  BeginsKnown'
  BY <1>8, MaxChangesAssumption DEF CacheTypeOK, BeginsKnown, UnderWay, BeginWrite, Goto,
     Running, calls
<1>9. ASSUME NEW c \in Callers, EndWrite(c)
      PROVE  BeginsKnown'
  BY <1>9, MaxChangesAssumption DEF CacheTypeOK, BeginsKnown, UnderWay, EndWrite, Goto, Running,
     calls
<1>10. ASSUME NEW c \in Callers, BeginRead(c)
      PROVE  BeginsKnown'
  BY <1>10, MaxChangesAssumption DEF CacheTypeOK, BeginsKnown, UnderWay, BeginRead, Goto,
     Running, calls
<1>11. ASSUME NEW c \in Callers, EndRead(c)
      PROVE  BeginsKnown'
  BY <1>11, MaxChangesAssumption DEF CacheTypeOK, BeginsKnown, UnderWay, EndRead, Goto, Running,
     calls
<1>12. ASSUME NEW c \in Callers, Throw(c)
      PROVE  BeginsKnown'
  BY <1>12, MaxChangesAssumption DEF CacheTypeOK, BeginsKnown, UnderWay, Throw, Goto, Running,
     calls
<1>13. ASSUME NEW c \in Callers, Return(c)
      PROVE  BeginsKnown'
  BY <1>13, MaxChangesAssumption DEF CacheTypeOK, BeginsKnown, UnderWay, Return, Goto, Running,
     calls
<1>14. ASSUME NEW ia \in IAs, NEW offered \in Offers, Change(ia, offered)
      PROVE  BeginsKnown'
  BY <1>14, MaxChangesAssumption DEF CacheTypeOK, BeginsKnown, UnderWay, Change, Goto, Running,
     calls
<1>15. CASE UNCHANGED vars
  BY <1>15 DEF vars, calls, BeginsKnown, UnderWay
<1> QED
  BY <1>1, <1>2, <1>3, <1>4, <1>5, <1>6, <1>7, <1>8, <1>9, <1>10, <1>11, <1>12, <1>13,
     <1>14, <1>15 DEF CacheNext, Proceed

\* What is read back is at least as new as the oldest call it overlaps.
LEMMA AnswerStep ==
    ASSUME CacheTypeOK, BeginsKnown, AnswerIsNew, NotOlderThanOverlap, [CacheNext]_vars
    PROVE  (AnswerIsNew /\ NotOlderThanOverlap)'
<1>1. ASSUME NEW c \in Callers, NEW r \in Remotes, Get(c, r)
      PROVE  (AnswerIsNew /\ NotOlderThanOverlap)'
  BY <1>1, NoneAssumption DEF CacheTypeOK, AnswerIsNew, NotOlderThanOverlap, Get, Goto, Running,
     calls
<1>2. ASSUME NEW c \in Callers, Dial(c)
      PROVE  (AnswerIsNew /\ NotOlderThanOverlap)'
  BY <1>2, NoneAssumption DEF CacheTypeOK, AnswerIsNew, NotOlderThanOverlap, Dial, Goto,
     Running, calls
<1>3. ASSUME NEW c \in Callers, Dialed(c)
      PROVE  (AnswerIsNew /\ NotOlderThanOverlap)'
  BY <1>3, NoneAssumption DEF CacheTypeOK, AnswerIsNew, NotOlderThanOverlap, Dialed, Goto,
     Running, calls
<1>4. ASSUME NEW c \in Callers, DialFails(c)
      PROVE  (AnswerIsNew /\ NotOlderThanOverlap)'
  BY <1>4, NoneAssumption DEF CacheTypeOK, AnswerIsNew, NotOlderThanOverlap, DialFails, Goto,
     Running, calls
<1>5. ASSUME NEW c \in Callers, HostReady(c)
      PROVE  (AnswerIsNew /\ NotOlderThanOverlap)'
  BY <1>5, NoneAssumption DEF CacheTypeOK, AnswerIsNew, NotOlderThanOverlap, HostReady, Goto,
     Running, calls
<1>6. ASSUME NEW c \in Callers, QueryPaths(c)
      PROVE  (AnswerIsNew /\ NotOlderThanOverlap)'
  <2>1. \E l : paths' = [paths EXCEPT ![c] = [list |-> l, age |-> changes]]
    BY <1>6 DEF QueryPaths
  <2>2. paths'[c].age = changes /\ \A d \in Callers : d # c => paths'[d] = paths[d]
    BY <2>1 DEF CacheTypeOK
  <2> QED
    BY <1>6, <2>2 DEF CacheTypeOK, BeginsKnown, AnswerIsNew, NotOlderThanOverlap,
    QueryPaths,
              Goto, Running
<1>7. ASSUME NEW c \in Callers, QueryFails(c)
      PROVE  (AnswerIsNew /\ NotOlderThanOverlap)'
  BY <1>7, NoneAssumption DEF CacheTypeOK, AnswerIsNew, NotOlderThanOverlap, QueryFails, Goto,
     Running, calls
<1>8. ASSUME NEW c \in Callers, BeginWrite(c)
      PROVE  (AnswerIsNew /\ NotOlderThanOverlap)'
  <2>1. \A d \in Callers : raced[d] => raced'[d]
    BY <1>8 DEF BeginWrite
  <2> QED
    BY <1>8, <2>1 DEF CacheTypeOK, AnswerIsNew, NotOlderThanOverlap, BeginWrite, Goto,
       Running
<1>9. ASSUME NEW c \in Callers, EndWrite(c)
      PROVE  (AnswerIsNew /\ NotOlderThanOverlap)'
  <2>1. /\ c \in UnderWay /\ remote[c] \in Remotes /\ paths[c] \in Entry
        /\ at[c] = "writing" /\ at' = [at EXCEPT ![c] = "read"]
        /\ UNCHANGED <<remote, paths, failed, began, oldest>>
    BY <1>9 DEF CacheTypeOK, EndWrite, Goto, UnderWay
  <2>2. CASE cached' = Stored(c) /\ UNCHANGED raced
    <3>1. \A d \in UnderWay : paths[c].age >= oldest[d]
      <4>1. paths[c].age >= began[c] /\ paths[c].age \in Nat
        BY <2>1 DEF AnswerIsNew, UnderWay, Entry
      <4>2. \A d \in UnderWay : oldest[d] <= began[c] /\ oldest[d] \in Nat
        BY <2>1, MaxChangesAssumption DEF BeginsKnown, CacheTypeOK, UnderWay
      <4>3. began[c] \in Nat
        BY MaxChangesAssumption DEF CacheTypeOK
      <4> QED
        BY <4>1, <4>2, <4>3
    <3>2. \A r \in Remotes : cached'[r] = IF r = remote[c] THEN paths[c] ELSE cached[r]
      BY <2>1, <2>2 DEF Stored, CacheTypeOK
    <3>3. ASSUME NEW d \in Callers, at'[d] \in {"read", "reading"}, ~failed'[d], ~raced'[d]
       PROVE  cached'[remote'[d]] # None /\ cached'[remote'[d]].age >= oldest'[d]
      <4>1. d \in UnderWay /\ remote[d] \in Remotes
        BY <2>1, <3>3 DEF CacheTypeOK, UnderWay
      <4>2. CASE remote[d] = remote[c]
        BY <2>1, <3>1, <3>2, <4>1, <4>2, NoneAssumption
      <4>3. CASE remote[d] # remote[c]
        <5>1. d # c /\ at[d] \in {"read", "reading"}
          BY <2>1, <3>3, <4>3 DEF CacheTypeOK
        <5> QED
          BY <2>1, <2>2, <3>2, <3>3, <4>1, <4>3, <5>1 DEF AnswerIsNew
      <4> QED
        BY <4>2, <4>3
    <3> QED
      BY <2>1, <2>2, <3>3 DEF CacheTypeOK, AnswerIsNew, NotOlderThanOverlap
  <2>3. CASE raced' = [d \in Callers |-> raced[d] \/ d \in UnderWay]
    <3>1. \A d \in Callers : raced'[d] \/ at'[d] = "idle"
      BY <2>1, <2>3 DEF CacheTypeOK, UnderWay
    <3> QED
      BY <2>1, <3>1 DEF CacheTypeOK, AnswerIsNew, NotOlderThanOverlap
  <2> QED
    BY <1>9, <2>2, <2>3 DEF EndWrite
<1>10. ASSUME NEW c \in Callers, BeginRead(c)
      PROVE  (AnswerIsNew /\ NotOlderThanOverlap)'
  <2>1. \A d \in Callers : raced[d] => raced'[d]
    BY <1>10 DEF CacheTypeOK, BeginRead
  <2> QED
    BY <1>10, <2>1 DEF CacheTypeOK, AnswerIsNew, NotOlderThanOverlap, BeginRead, Goto,
       Running
<1>11. ASSUME NEW c \in Callers, EndRead(c)
      PROVE  (AnswerIsNew /\ NotOlderThanOverlap)'
  BY <1>11, NoneAssumption DEF CacheTypeOK, AnswerIsNew, NotOlderThanOverlap, EndRead, Goto,
     Running, calls
<1>12. ASSUME NEW c \in Callers, Throw(c)
      PROVE  (AnswerIsNew /\ NotOlderThanOverlap)'
  BY <1>12, NoneAssumption DEF CacheTypeOK, AnswerIsNew, NotOlderThanOverlap, Throw, Goto,
     Running, calls
<1>13. ASSUME NEW c \in Callers, Return(c)
      PROVE  (AnswerIsNew /\ NotOlderThanOverlap)'
  BY <1>13, NoneAssumption DEF CacheTypeOK, AnswerIsNew, NotOlderThanOverlap, Return, Goto,
     Running, calls
<1>14. ASSUME NEW ia \in IAs, NEW offered \in Offers, Change(ia, offered)
      PROVE  (AnswerIsNew /\ NotOlderThanOverlap)'
  BY <1>14, NoneAssumption DEF CacheTypeOK, AnswerIsNew, NotOlderThanOverlap, Change, Goto,
     Running, calls
<1>15. CASE UNCHANGED vars
  BY <1>15 DEF vars, calls, AnswerIsNew, NotOlderThanOverlap
<1> QED
  BY <1>1, <1>2, <1>3, <1>4, <1>5, <1>6, <1>7, <1>8, <1>9, <1>10, <1>11, <1>12, <1>13,
     <1>14, <1>15 DEF CacheNext, Proceed

-----------------------------------------------------------------------------
\* The inductive invariant holds in every state: lists, ages, connection.
THEOREM CacheInvariance == CacheSpec => []CacheInv
<1>1. CacheInv /\ [CacheNext]_vars => CacheInv'
  BY TypeStep, ConnectionStep, SortedStep, BeginsStep, AnswerStep DEF CacheInv
<1> QED
  BY <1>1, InitCorrect, PTL DEF CacheSpec

\* The cache, the callers and the connection keep their types.
THEOREM CacheTypeCorrect == CacheSpec => []CacheTypeOK
BY CacheInvariance, PTL DEF CacheInv

\* However many callers come first, one of them connects, the others wait for
\* it, and once the connection stands the process does not end for want of it.
THEOREM ConnectedOnce == CacheSpec => []OneConnection
BY CacheInvariance, PTL DEF CacheInv

\* A Get that met no race returns nothing older than the oldest call it met.
THEOREM AnswersAreNew == CacheSpec => []NotOlderThanOverlap
BY CacheInvariance, PTL DEF CacheInv

\* Nothing but the end of a write changes the map.
LEMMA OnlyEndWriteStores ==
    ASSUME [CacheNext]_vars
    PROVE  UNCHANGED cached \/ \E c \in Callers : EndWrite(c)
<1>1. ASSUME NEW c \in Callers, Proceed(c)
      PROVE  UNCHANGED cached \/ EndWrite(c)
  BY <1>1 DEF Proceed, Dial, Dialed, DialFails, HostReady, QueryPaths, QueryFails, BeginWrite,
        BeginRead, EndRead, Throw, Return
<1>2. ASSUME NEW c \in Callers, NEW r \in Remotes, Get(c, r)
      PROVE  UNCHANGED cached
  BY <1>2 DEF Get
<1>3. ASSUME NEW ia \in IAs, NEW offered \in Offers, Change(ia, offered)
      PROVE  UNCHANGED cached
  BY <1>3 DEF Change
<1>4. CASE UNCHANGED vars
  BY <1>4 DEF vars
<1> QED
  BY <1>1, <1>2, <1>3, <1>4 DEF CacheNext

\* Failing queries leave every remote's paths in the map.
THEOREM FallbackStays == CacheSpec => KeepsOldPaths
<1>1. ASSUME CacheInv, [CacheNext]_vars, NEW r \in Remotes, cached[r] # None, cached'[r] = None
      PROVE  \E c \in Writers : raced[c]
  <2>1. CASE UNCHANGED cached
    BY <1>1, <2>1
  <2>2. ASSUME NEW c \in Callers, EndWrite(c)
        PROVE  \E d \in Writers : raced[d]
    <3>1. remote[c] \in Remotes /\ paths[c] \in Entry /\ c \in Writers
      BY <1>1, <2>2 DEF CacheInv, CacheTypeOK, EndWrite, Goto, Writers
    <3>2. cached' # Stored(c)
      BY <1>1, <3>1, NoneAssumption DEF Stored, CacheInv, CacheTypeOK
    <3> QED
      BY <2>2, <3>1, <3>2 DEF EndWrite
  <2>3. UNCHANGED cached \/ \E c \in Callers : EndWrite(c)
    BY <1>1, OnlyEndWriteStores
  <2> QED
    BY <2>1, <2>2, <2>3
<1>2. CacheInv /\ [CacheNext]_vars =>
        [\A r \in Remotes : cached[r] # None /\ cached'[r] = None =>
            \E c \in Writers : raced[c]]_vars
  BY <1>1
<1> QED
  BY <1>2, CacheInvariance, PTL DEF CacheSpec, KeepsOldPaths

\* A remote's list changes only when its set of paths does.
THEOREM ListsStayPut == CacheSpec => NoReshuffle
<1>1. ASSUME CacheInv, CacheInv', NEW r \in Remotes, cached[r] # None, cached'[r] # None,
             Range(cached[r].list) = Range(cached'[r].list)
      PROVE  cached'[r].list = cached[r].list
  <2>1. cached[r].list \in Seq(Path)
    BY <1>1 DEF CacheInv, CacheTypeOK, Entry
  <2>2. Range(cached[r].list) \subseteq Path /\ IsFiniteSet(Range(cached[r].list))
    BY <2>1, ListRange
  <2>3. SortedEntry(cached[r]) /\ SortedEntry(cached'[r])
    BY <1>1 DEF CacheInv, AllSorted, SortedEntry
  <2>4. /\ cached[r].list \in SortPartsPaths(Range(cached[r].list))
        /\ cached'[r].list \in SortPartsPaths(Range(cached[r].list))
    BY <1>1, <2>3 DEF SortedEntry
  <2> QED
    BY <2>2, <2>4, SortedOnce
<1>2. CacheInv /\ CacheInv' /\ [CacheNext]_vars =>
        [\A r \in Remotes : cached[r] # None /\ cached'[r] # None =>
            (Range(cached[r].list) = Range(cached'[r].list) =>
                cached'[r].list = cached[r].list)]_vars
  BY <1>1
<1> QED
  BY <1>2, CacheInvariance, PTL DEF CacheSpec, NoReshuffle

=============================================================================
