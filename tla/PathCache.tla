------------------------------- MODULE PathCache -------------------------------
(***************************************************************************)
(* The path cache of pkg/scion (path_cache.go, paths.go) and the one       *)
(* connection to the SCION daemon that its queries share (host.go).        *)
(*                                                                         *)
(* Goroutines call Paths.Get.  The first of them connects to the daemon    *)
(* under a sync.Once, the others wait for it.  Each then asks for paths,   *)
(* stores them in a plain map and reads the map back; an error of the      *)
(* query is swallowed.  No lock guards the map: two accesses at once, one  *)
(* of them a write, end the process when the Go runtime notices, and       *)
(* otherwise may lose entries or misread one.                              *)
(*                                                                         *)
(* No code of the repository calls Get yet.  queryPaths (host.go:148-156)  *)
(* has its daemon call commented out and answers with no paths: that is    *)
(* Stubbed.  Otherwise it may answer whatever its signature allows, and    *)
(* its callers handle: the daemon's paths, or an error.                    *)
(***************************************************************************)
EXTENDS PathOrder

CONSTANTS
    Callers,    \* goroutines
    Remotes,    \* keys of the map: remote addresses
    IA,         \* the AS of each remote
    Offers,     \* sets of paths that the daemon may have for an AS
    Stubbed,    \* queryPaths asks nobody
    None,
    MaxChanges  \* bound: changes of what the daemon has

IAs == {IA[r] : r \in Remotes}

\* A list of paths with the number of changes the daemon had seen by then.
Entry == [list: Seq(Path), age: Nat]

ASSUME OffersAssumption == \A o \in Offers : IsFiniteSet(o) /\ o \subseteq Path
ASSUME IAAssumption == DOMAIN IA = Remotes
ASSUME StubbedAssumption == Stubbed \in BOOLEAN
ASSUME NoneAssumption == None \notin Entry \cup Remotes
ASSUME MaxChangesAssumption == MaxChanges \in Nat

VARIABLES
    process,    \* running, exited (os.Exit in host.go) or thrown (fatal error)
    host,       \* singletonHostContext: none, dialing (in initOnce) or ready
    offer,      \* per AS, the paths the daemon has
    changes,    \* how often that has changed
    cached,     \* PathCache.Paths: per remote, a list and its age, or None
    at,         \* where each caller is
    remote,     \* what it asks for
    paths,      \* its answer, from QueryPaths and then from the map
    failed,     \* its query failed
    raced,      \* a data race met its accesses, or damaged the map meanwhile
    began,      \* changes when it called (history)
    oldest      \* the least began among the calls it found under way (history)

calls == <<at, remote, paths, failed, raced, began, oldest>>
vars == <<process, host, offer, changes, cached, calls>>

Steps == {"idle", "host", "dial", "query", "write", "writing", "read", "reading", "done"}

CacheTypeOK ==
    /\ process \in {"running", "exited", "thrown"}
    /\ host \in {"none", "dialing", "ready"}
    /\ offer \in [IAs -> Offers]
    /\ changes \in 0 .. MaxChanges
    /\ cached \in [Remotes -> Entry \cup {None}]
    /\ at \in [Callers -> Steps]
    /\ remote \in [Callers -> Remotes \cup {None}]
    /\ paths \in [Callers -> Entry \cup {None}]
    /\ failed \in [Callers -> BOOLEAN]
    /\ raced \in [Callers -> BOOLEAN]
    /\ began \in [Callers -> 0 .. MaxChanges]
    /\ oldest \in [Callers -> 0 .. MaxChanges]
    /\ \A c \in Callers : at[c] # "idle" => remote[c] \in Remotes
    /\ \A c \in Callers : at[c] \in {"write", "writing"} => paths[c] \in Entry

CacheInit ==
    /\ process = "running"
    /\ host = "none"
    /\ offer \in [IAs -> Offers]
    /\ changes = 0
    /\ cached = [r \in Remotes |-> None]
    /\ at = [c \in Callers |-> "idle"]
    /\ remote = [c \in Callers |-> None]
    /\ paths = [c \in Callers |-> None]
    /\ failed = [c \in Callers |-> FALSE]
    /\ raced = [c \in Callers |-> FALSE]
    /\ began = [c \in Callers |-> 0]
    /\ oldest = [c \in Callers |-> 0]

Running == process = "running"

UnderWay == {c \in Callers : at[c] # "idle"}

Goto(c, from, to) ==
    /\ Running
    /\ at[c] = from
    /\ at' = [at EXCEPT ![c] = to]

-----------------------------------------------------------------------------
(***************************************************************************)
(* Get, Refresh and QueryPaths up to the answer of the daemon.             *)
(***************************************************************************)
Least(S) == CHOOSE n \in S : \A m \in S : n <= m

Get(c, r) ==
    /\ Goto(c, "idle", "host")
    /\ remote' = [remote EXCEPT ![c] = r]
    /\ began' = [began EXCEPT ![c] = changes]
    /\ oldest' = [oldest EXCEPT ![c] = Least({changes} \cup {began[d] : d \in UnderWay})]
    /\ UNCHANGED <<process, host, offer, changes, cached, paths, failed, raced>>

\* initOnce: the first caller runs mustInitHostContext.
Dial(c) ==
    /\ Goto(c, "host", "dial")
    /\ host = "none"
    /\ host' = "dialing"
    /\ UNCHANGED <<process, offer, changes, cached, remote, paths, failed, raced, began, oldest>>

\* Connect, LocalIA and UnderlayAnycast all answered.
Dialed(c) ==
    /\ Goto(c, "dial", "query")
    /\ host' = "ready"
    /\ UNCHANGED <<process, offer, changes, cached, remote, paths, failed, raced, began, oldest>>

\* Variant: without the timeout of a second, a silent daemon is waited for.
DialRefused(c) == FALSE

\* One of the three fails, or a second is over: os.Exit(1).
DialFails(c) ==
    /\ Running
    /\ at[c] = "dial"
    /\ process' = "exited"
    /\ UNCHANGED <<host, offer, changes, cached, calls>>

\* Variant: a flag that is set before the connection is there.
HostStarted(c) ==
    /\ Goto(c, "host", "query")
    /\ host # "none"
    /\ UNCHANGED <<process, host, offer, changes, cached, remote, paths, failed, raced, began,
                   oldest>>

HostReady(c) ==
    /\ Goto(c, "host", "query")
    /\ host = "ready"
    /\ UNCHANGED <<process, host, offer, changes, cached, remote, paths, failed, raced, began,
                   oldest>>

\* queryPaths
Queried(r) == IF Stubbed THEN {} ELSE offer[IA[r]]

QueryPaths(c) ==
    /\ Goto(c, "query", "write")
    /\ \E l \in SortPartsPaths(Queried(remote[c])) :
            paths' = [paths EXCEPT ![c] = [list |-> l, age |-> changes]]
    /\ UNCHANGED <<process, host, offer, changes, cached, remote, failed, raced, began, oldest>>

\* Variant: the error is not looked at, and no paths are stored.
IgnoreError(c) ==
    /\ Goto(c, "query", "write")
    /\ ~Stubbed
    /\ failed' = [failed EXCEPT ![c] = TRUE]
    /\ UNCHANGED <<process, host, offer, changes, cached, remote, paths, raced, began, oldest>>

\* Refresh returns nil for an error: Get goes on to what the map has.
QueryFails(c) ==
    /\ Goto(c, "query", "read")
    /\ ~Stubbed
    /\ failed' = [failed EXCEPT ![c] = TRUE]
    /\ UNCHANGED <<process, host, offer, changes, cached, remote, paths, raced, began, oldest>>

-----------------------------------------------------------------------------
(***************************************************************************)
(* The map.  An assignment and a lookup take time; the runtime looks for a *)
(* writer when either begins, without a lock of its own.                   *)
(***************************************************************************)
Writers == {c \in Callers : at[c] = "writing"}

Readers == {c \in Callers : at[c] = "reading"}

BeginWrite(c) ==
    /\ Goto(c, "write", "writing")
    /\ raced' = [d \in Callers |->
                    \/ raced[d]
                    \/ d \in Writers \cup Readers
                    \/ d = c /\ Writers \cup Readers # {}]
    /\ UNCHANGED <<process, host, offer, changes, cached, remote, paths, failed, began, oldest>>

Stored(c) == [cached EXCEPT ![remote[c]] = paths[c]]

\* Variant: an entry that is there stays.
StoreIfNew(c) ==
    /\ Goto(c, "writing", "read")
    /\ cached' = IF cached[remote[c]] = None THEN Stored(c) ELSE cached
    /\ UNCHANGED <<process, host, offer, changes, remote, paths, failed, raced, began, oldest>>

\* Two writes at once may also grow the map at once, and lose any entries.
EndWrite(c) ==
    /\ Goto(c, "writing", "read")
    /\ \/ cached' = Stored(c) /\ UNCHANGED raced
       \/ /\ raced[c]
          /\ \E lost \in SUBSET Remotes, map \in {cached, Stored(c)} :
                cached' = [r \in Remotes |-> IF r \in lost THEN None ELSE map[r]]
          /\ raced' = [d \in Callers |-> raced[d] \/ d \in UnderWay]
    /\ UNCHANGED <<process, host, offer, changes, remote, paths, failed, began, oldest>>

BeginRead(c) ==
    /\ Goto(c, "read", "reading")
    /\ raced' = [raced EXCEPT ![c] = @ \/ Writers # {}]
    /\ UNCHANGED <<process, host, offer, changes, cached, remote, paths, failed, began, oldest>>

\* None also stands for what else a race makes of the answer.
EndRead(c) ==
    /\ Goto(c, "reading", "done")
    /\ \/ paths' = [paths EXCEPT ![c] = cached[remote[c]]]
       \/ raced[c] /\ paths' = [paths EXCEPT ![c] = None]
    /\ UNCHANGED <<process, host, offer, changes, cached, remote, failed, raced, began, oldest>>

\* fatal error: concurrent map writes, or concurrent map read and map write.
Throw(c) ==
    /\ Running
    /\ \/ at[c] \in {"write", "read"} /\ Writers # {}
       \/ at[c] = "writing" /\ raced[c]
    /\ process' = "thrown"
    /\ UNCHANGED <<host, offer, changes, cached, calls>>

\* The caller has its answer, and forgets it.
Return(c) ==
    /\ Goto(c, "done", "idle")
    /\ remote' = [remote EXCEPT ![c] = None]
    /\ paths' = [paths EXCEPT ![c] = None]
    /\ failed' = [failed EXCEPT ![c] = FALSE]
    /\ raced' = [raced EXCEPT ![c] = FALSE]
    /\ began' = [began EXCEPT ![c] = 0]
    /\ oldest' = [oldest EXCEPT ![c] = 0]
    /\ UNCHANGED <<process, host, offer, changes, cached>>

\* Segments expire and are registered: the daemon has other paths.
Change(ia, offered) ==
    /\ changes < MaxChanges
    /\ offer[ia] # offered
    /\ offer' = [offer EXCEPT ![ia] = offered]
    /\ changes' = changes + 1
    /\ UNCHANGED <<process, host, cached, calls>>

-----------------------------------------------------------------------------
Proceed(c) ==
    \/ Dial(c) \/ Dialed(c) \/ DialFails(c) \/ HostReady(c)
    \/ QueryPaths(c) \/ QueryFails(c)
    \/ BeginWrite(c) \/ EndWrite(c) \/ BeginRead(c) \/ EndRead(c) \/ Throw(c)
    \/ Return(c)

CacheNext ==
    \/ \E c \in Callers : Proceed(c) \/ \E r \in Remotes : Get(c, r)
    \/ \E ia \in IAs, offered \in Offers : Change(ia, offered)

CacheSpec == CacheInit /\ [][CacheNext]_vars

\* What a goroutine does by itself, or when time is over.
Unaided(c) ==
    \/ Dial(c) \/ DialFails(c) \/ HostReady(c)
    \/ Stubbed /\ QueryPaths(c)
    \/ QueryFails(c)
    \/ BeginWrite(c) \/ EndWrite(c) \/ BeginRead(c) \/ EndRead(c)
    \/ Return(c)

\* Goroutines are scheduled, the connection attempt ends after a second, and
\* a query ends with the caller's context.  The daemon need never answer.
CacheFairSpec == CacheSpec /\ \A c \in Callers : WF_vars(Unaided(c))

-----------------------------------------------------------------------------
(***************************************************************************)
(* Properties.                                                             *)
(***************************************************************************)

\* The sync.Once does its work: there is one connection, nobody queries
\* before it stands, and once it stands the daemon cannot end the process.
\* Whoever waits for it waits for a caller that is at work on it.
OneConnection ==
    /\ \A c \in Callers : at[c] \notin {"idle", "host", "dial"} => host = "ready"
    /\ \A c, d \in Callers : at[c] = "dial" /\ at[d] = "dial" => c = d
    /\ process = "exited" => host # "ready"
    /\ Running /\ host = "dialing" => \E c \in Callers : at[c] = "dial"

\* Without a race, a Get whose own query succeeded returns paths at least as
\* new as the start of the oldest call that it found under way.  (Not as its
\* own start: a slower call may store an older answer over a newer one.)
NotOlderThanOverlap ==
    \A c \in Callers : at[c] = "done" /\ ~failed[c] /\ ~raced[c] =>
        paths[c] # None /\ paths[c].age >= oldest[c]

\* Errors of the daemon, however many, take no remote's paths out of the
\* map, so that a later Get falls back on them: only a data race does.
KeepsOldPaths ==
    [][\A r \in Remotes : cached[r] # None /\ cached'[r] = None =>
            \E c \in Writers : raced[c]]_vars

\* Users index the list: it stays as it is for as long as the daemon has the
\* same paths, in whatever order it gives them.
NoReshuffle ==
    [][\A r \in Remotes : cached[r] # None /\ cached'[r] # None =>
            (Range(cached[r].list) = Range(cached'[r].list) =>
                cached'[r].list = cached[r].list)]_vars

\* Every Get returns, or the process has ended: no caller waits for a
\* connection for ever.
GetReturns ==
    \A c \in Callers : at[c] # "idle" ~> at[c] = "idle" \/ ~Running

=============================================================================
