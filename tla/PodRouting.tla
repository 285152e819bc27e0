------------------------------- MODULE PodRouting -------------------------------
(***************************************************************************)
(* What the egress program promises for each frame of a pod, and nothing   *)
(* of how: no maps, no pointers, no offsets.                               *)
(*                                                                         *)
(* While a frame is under way the pod is offered a route, or none, and the *)
(* offer may change.  The frame ends once.  It leaves in the clear only if *)
(* no route was an offer, it leaves encapsulated with the whole header of  *)
(* one route that was an offer, and it is dropped only if some route was.  *)
(* Nothing of this is promised to a frame whose offers changed twice.      *)
(***************************************************************************)
EXTENDS Naturals

CONSTANTS
    Routes,     \* what a pod can be offered
    None,       \* no route
    HeaderOf    \* [Routes -> headers]: what a route puts in front of a frame

VARIABLES
    fate,       \* none, underway, clear, sent or dropped
    offered,    \* the offers during the frame's way, None among them
    changes,    \* how often the agent changed something during it
    header      \* in front of the frame that was sent, else None

routing == <<fate, offered, changes, header>>

RoutingInit ==
    /\ fate = "none"
    /\ offered = {}
    /\ changes = 0
    /\ header = None

Offers == Routes \cup {None}

Begin(offer) ==
    /\ fate # "underway"
    /\ fate' = "underway"
    /\ offered' = {offer}
    /\ changes' = 0
    /\ header' = None

Change(offer) ==
    /\ fate = "underway"
    /\ offered' = offered \cup {offer}
    /\ changes' = changes + 1
    /\ UNCHANGED <<fate, header>>

\* The promise holds until the second change.
Owed == changes <= 1

LeaveInClear ==
    /\ fate = "underway"
    /\ Owed => None \in offered
    /\ fate' = "clear"
    /\ UNCHANGED <<offered, changes, header>>

Send ==
    /\ fate = "underway"
    /\ Owed => \E route \in offered \ {None} : header' = HeaderOf[route]
    /\ fate' = "sent"
    /\ UNCHANGED <<offered, changes>>

Drop ==
    /\ fate = "underway"
    /\ Owed => offered # {None}
    /\ fate' = "dropped"
    /\ UNCHANGED <<offered, changes, header>>

RoutingNext ==
    \/ \E offer \in Offers : Begin(offer) \/ Change(offer)
    \/ LeaveInClear \/ Send \/ Drop

RoutingSpec == RoutingInit /\ [][RoutingNext]_routing

=============================================================================
