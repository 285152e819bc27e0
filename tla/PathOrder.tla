------------------------------- MODULE PathOrder -------------------------------
(***************************************************************************)
(* How pkg/scion/paths.go orders the paths to a remote AS.                 *)
(*                                                                         *)
(* A path is the list of the interfaces it passes.  Its Sorter is their    *)
(* names, joined by commas; paths are sorted by the length of that string, *)
(* and alphabetically among those of one length.  A comma precedes every   *)
(* character of a name (digits, letters, colon and minus), so comparing    *)
(* the strings is comparing the lists, interface by interface.             *)
(***************************************************************************)
EXTENDS Integers, Sequences, FiniteSets, Functions

CONSTANTS
    Interfaces, \* border interfaces, each with its AS
    NameLen,    \* characters of an interface's name
    NameRank    \* its place in the alphabetical order of names

ASSUME NameLenAssumption == NameLen \in [Interfaces -> Nat \ {0}]
ASSUME NameRankAssumption == NameRank \in Injection(Interfaces, Nat)

Path == Seq(Interfaces)

\* The characters of the Sorter: every name, and a comma before it, except
\* before the first.
Characters(p) ==
    UNION {{i} \X (0 .. NameLen[p[i]]) : i \in DOMAIN p} \ {<<1, 0>>}

SorterLen(p) == Cardinality(Characters(p))

\* The first place where the lists differ, or the end of the shorter one.
AgreeBelow(p, q, n) == \A i \in 1 .. n - 1 : p[i] = q[i]

Alphabetical(p, q) ==
    \E n \in 1 .. Len(q) :
        /\ n <= Len(p) + 1
        /\ AgreeBelow(p, q, n)
        /\ n <= Len(p) => NameRank[p[n]] < NameRank[q[n]]

\* Variant: paths of one length are left in any order.
ShorterOnly(p, q) == SorterLen(p) < SorterLen(q)

\* The argument of sort.Slice in SortPartsPaths.
Less(p, q) ==
    \/ SorterLen(p) < SorterLen(q)
    \/ SorterLen(p) = SorterLen(q) /\ Alphabetical(p, q)

\* What sort.Slice, which is not stable, may make of these paths.
SortPartsPaths(paths) ==
    {l \in [1 .. Cardinality(paths) -> paths] :
        /\ Range(l) = paths
        /\ \A i, j \in DOMAIN l : i < j => ~Less(l[j], l[i])}

=============================================================================
