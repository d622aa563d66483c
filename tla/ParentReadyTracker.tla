------------------------- MODULE ParentReadyTracker -------------------------
(***************************************************************************)
(* ParentReadyTracker (votor/src/consensus_pool/parent_ready_tracker.rs):  *)
(* which blocks may be the parent of a block in a slot, kept up to date as *)
(* notarize(-fallback) and skip certificates arrive in any order.          *)
(*                                                                         *)
(* A tracker is a record and its methods are operators on it.  The map     *)
(* from a slot to its status is flattened: the slots with a skip           *)
(* certificate, the notarized blocks, the pairs of slot and ready parent.  *)
(***************************************************************************)
EXTENDS VotorMessages

Tracker ==
    [root : Slot, highest : Slot, skip : SUBSET Slot, nf : SUBSET Block,
     ready : SUBSET ParentReady]

Ready(s, b) == [slot |-> s, parent |-> b]

(***************************************************************************)
(* A tracker started with parent ready r: the parent counts as notarized   *)
(* and the slots in between as skipped.                                    *)
(***************************************************************************)
NewTracker(root, r) ==
    [root |-> IF r.parent.slot < root THEN r.parent.slot ELSE root,
     highest |-> Larger(r.slot, root),
     skip |-> (r.parent.slot + 1)..(r.slot - 1),
     nf |-> {r.parent},
     ready |-> {Ready(s, r.parent) : s \in (r.parent.slot + 1)..r.slot}]

SkipOverGap(skip, s) ==    \* mutant: looks only at the slot just before
    {t \in Slot : t > s /\ (t > s + 1 => t - 1 \in skip)}

(***************************************************************************)
(* The slots reached from s when every slot in between is skipped.         *)
(***************************************************************************)
Connected(skip, s) ==
    {t \in Slot : t > s /\ \A u \in (s + 1)..(t - 1) : u \in skip}

Highest(old, reached) ==
    IF reached = {} THEN old
    ELSE Larger(old, CHOOSE s \in reached : \A u \in reached : u <= s)

Slots(R) == {r.slot : r \in R}

(***************************************************************************)
(* What a new notarized block makes ready.                                 *)
(***************************************************************************)
NewlyNotarized(t, b) ==
    IF b \in t.nf THEN {}
    ELSE {Ready(s, b) : s \in Connected(t.skip, b.slot)} \ t.ready

add_notar_fallback_or_stronger(t, b) ==
    [t EXCEPT !.nf = @ \cup {b},
              !.ready = @ \cup NewlyNotarized(t, b),
              !.highest = Highest(@, Slots(NewlyNotarized(t, b)))]

(***************************************************************************)
(* The parents that a skip of slot s carries over.                         *)
(***************************************************************************)
PotentialParents(t, s) ==
    {b \in t.nf : b.slot = s - 1}
    \cup When(s - 1 \in t.skip, {r.parent : r \in {r \in t.ready : r.slot = s - 1}})

(***************************************************************************)
(* What a skip certificate of slot s makes ready.                          *)
(***************************************************************************)
NewlySkipped(t, s) ==
    {Ready(u, b) : u \in Connected(t.skip, s), b \in PotentialParents(t, s)} \ t.ready

add_new_skip(t, s) ==
    [t EXCEPT !.skip = @ \cup {s},
              !.ready = @ \cup NewlySkipped(t, s),
              !.highest = IF PotentialParents(t, s) = {} THEN @
                          ELSE Highest(@, Connected(t.skip, s))]

set_tracker_root(t, root) ==
    [root |-> root, highest |-> t.highest,
     skip |-> {s \in t.skip : s >= root},
     nf |-> {b \in t.nf : b.slot >= root},
     ready |-> {r \in t.ready : r.slot >= root}]

(***************************************************************************)
(* block_production_parent: the parents to choose from, unless the window  *)
(* is over.  The code takes the lowest one.                                *)
(***************************************************************************)
MissedWindow(t, s) == t.highest > s

ProductionParents(t, s) == {r.parent : r \in {r \in t.ready : r.slot = s}}

NotifyLast(R) == {r \in R : (r.slot + 1) % WindowSize = 0}    \* mutant: last slot of the window

(***************************************************************************)
(* A ParentReady event is sent for the first slot of a window.             *)
(***************************************************************************)
Notify(R) == {r \in R : r.slot % WindowSize = 0}
=============================================================================
