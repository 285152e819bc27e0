------------------------------ MODULE ClusterApi ------------------------------
(***************************************************************************)
(* The Kubernetes API server, as far as cilion relies on it: the three     *)
(* kinds of objects the operator reads and writes (api/v1alpha1), the      *)
(* users who edit two of them, the garbage collector that removes the      *)
(* third, and the SCION control service whose paths rotate.                *)
(*                                                                         *)
(* Nothing of this module is code under src/ except the object layouts:    *)
(* the rules of the store (optimistic concurrency on resourceVersion,      *)
(* generation, finalizers, collection by owner UID) are those the          *)
(* reconciler calls on through controller-runtime's client.                *)
(***************************************************************************)
EXTENDS Naturals

CONSTANTS
    Policies,   \* keys (namespace/name) of ScionPathPolicy objects
    Peers,      \* keys (namespace/name) of ScionClusterPeer objects
    Clusters,   \* what a peer's spec describes: a remote AS with its pod CIDR
    Prefs,      \* values of spec.preference
    NoPref,     \* spec.preference left out (a nil pointer)
    Names,      \* keys of ScionComputedPath objects
    PathName,   \* the key computed for a policy and a peer
    Absent,     \* no object
    MaxMoves    \* bound: moves of the environment (edits, faults, restarts)

ASSUME PathNameAssumption == PathName \in [Policies \X Peers -> Names]
ASSUME NoPrefAssumption == NoPref \notin Prefs
ASSUME MaxMovesAssumption == MaxMoves \in Nat

(***************************************************************************)
(* A policy.  uid tells incarnations of one key apart, rv is the           *)
(* resourceVersion, active the observedGeneration of its Active condition  *)
(* (0: no such condition) and dests the destinations that the condition's  *)
(* message counts.                                                         *)
(***************************************************************************)
PolicyObj ==
    [uid: Nat, rv: Nat, gen: Nat, pref: Prefs \cup {NoPref},
     deleting: BOOLEAN, fin: BOOLEAN, active: Nat, dests: SUBSET Peers]

(***************************************************************************)
(* A computed path.  owner and uid are its controller reference (owner is  *)
(* PolicyRef too, they are never set apart), cluster the DestinationCIDR;  *)
(* NextHopIP and HopFields are what the control service answered for the   *)
(* cluster's AS and the preference at one epoch of the network.            *)
(***************************************************************************)
PathObj ==
    [rv: Nat, owner: Policies, uid: Nat,
     cluster: Clusters, pref: Prefs, epoch: Nat]

ASSUME AbsentAssumption == Absent \notin PolicyObj \cup PathObj \cup Clusters \cup Peers
                                        \cup Policies

VARIABLES
    policy,     \* [Policies -> PolicyObj or Absent]
    peer,       \* [Peers -> Clusters or Absent], a peer's spec
    computed,   \* [Names -> PathObj or Absent]
    policyVer,  \* the last resourceVersion given out for a policy key
    pathVer,    \* the last resourceVersion given out for a computed path key
    epoch,      \* how often the SCION paths have rotated
    moves       \* moves of the environment so far

apiVars == <<policy, peer, computed, policyVer, pathVer, epoch, moves>>

ApiTypeOK ==
    /\ policy \in [Policies -> PolicyObj \cup {Absent}]
    /\ peer \in [Peers -> Clusters \cup {Absent}]
    /\ computed \in [Names -> PathObj \cup {Absent}]
    /\ policyVer \in [Policies -> Nat]
    /\ pathVer \in [Names -> Nat]
    /\ epoch \in Nat
    /\ moves \in Nat

ApiInit ==
    /\ policy = [p \in Policies |-> Absent]
    /\ peer \in [Peers -> Clusters \cup {Absent}]
    /\ computed = [n \in Names |-> Absent]
    /\ policyVer = [p \in Policies |-> 0]
    /\ pathVer = [n \in Names |-> 0]
    /\ epoch = 0
    /\ moves = 0

Exists(object) == object # Absent

(***************************************************************************)
(* n is owned by the incarnation of p that the store holds now.            *)
(***************************************************************************)
OwnedBy(n, p) ==
    /\ Exists(computed[n])
    /\ computed[n].owner = p
    /\ Exists(policy[p])
    /\ computed[n].uid = policy[p].uid

Move == /\ moves < MaxMoves
        /\ moves' = moves + 1

-----------------------------------------------------------------------------
(***************************************************************************)
(* The store's side of a write to policy p: every change of an object      *)
(* takes the next resourceVersion of its key.                              *)
(***************************************************************************)
StorePolicy(p, object) ==
    /\ policyVer' = [policyVer EXCEPT ![p] = @ + 1]
    /\ policy' = [policy EXCEPT ![p] = [object EXCEPT !.rv = policyVer[p] + 1]]

StorePath(n, object) ==
    /\ pathVer' = [pathVer EXCEPT ![n] = @ + 1]
    /\ computed' = [computed EXCEPT ![n] = [object EXCEPT !.rv = pathVer[n] + 1]]

ErasePolicy(p) ==
    /\ policyVer' = [policyVer EXCEPT ![p] = @ + 1]
    /\ policy' = [policy EXCEPT ![p] = Absent]

-----------------------------------------------------------------------------
(***************************************************************************)
(* Users.  A changed spec raises the generation; so does the deletion      *)
(* timestamp, which the store sets instead of deleting while the object    *)
(* has a finalizer.  A change of metadata or status does not raise it.     *)
(***************************************************************************)
CreatePolicy(p, f) ==
    /\ ~Exists(policy[p])
    /\ Move
    /\ StorePolicy(p, [uid |-> policyVer[p] + 1, rv |-> 0, gen |-> 1, pref |-> f,
                       deleting |-> FALSE, fin |-> FALSE, active |-> 0, dests |-> {}])
    /\ UNCHANGED <<peer, computed, pathVer, epoch>>

EditPolicy(p, f) ==
    /\ Exists(policy[p])
    /\ Move
    /\ StorePolicy(p, [policy[p] EXCEPT !.gen = @ + 1, !.pref = f])
    /\ UNCHANGED <<peer, computed, pathVer, epoch>>

DeletePolicy(p) ==
    /\ Exists(policy[p])
    /\ ~policy[p].deleting
    /\ Move
    /\ IF policy[p].fin
       THEN StorePolicy(p, [policy[p] EXCEPT !.gen = @ + 1, !.deleting = TRUE])
       ELSE ErasePolicy(p)
    /\ UNCHANGED <<peer, computed, pathVer, epoch>>

PutPeer(q, c) ==
    /\ peer[q] # c
    /\ Move
    /\ peer' = [peer EXCEPT ![q] = c]
    /\ UNCHANGED <<policy, computed, policyVer, pathVer, epoch>>

RemovePeer(q) ==
    /\ Exists(peer[q])
    /\ Move
    /\ peer' = [peer EXCEPT ![q] = Absent]
    /\ UNCHANGED <<policy, computed, policyVer, pathVer, epoch>>

UserStep ==
    \/ \E p \in Policies : \/ \E f \in Prefs \cup {NoPref} : \/ CreatePolicy(p, f)
                                                            \/ EditPolicy(p, f)
                           \/ DeletePolicy(p)
    \/ \E q \in Peers : \/ \E c \in Clusters : PutPeer(q, c)
                        \/ RemovePeer(q)

(***************************************************************************)
(* Path segments expire and are registered anew: from now on the control   *)
(* service answers with other hop fields.                                  *)
(***************************************************************************)
RotatePaths ==
    /\ Move
    /\ epoch' = epoch + 1
    /\ UNCHANGED <<policy, peer, computed, policyVer, pathVer>>

(***************************************************************************)
(* The garbage collector deletes a computed path whose owning incarnation  *)
(* is gone.                                                                *)
(***************************************************************************)
CollectPath(n) ==
    /\ Exists(computed[n])
    /\ ~OwnedBy(n, computed[n].owner)
    /\ computed' = [computed EXCEPT ![n] = Absent]
    /\ UNCHANGED <<policy, peer, policyVer, pathVer, epoch, moves>>

=============================================================================
