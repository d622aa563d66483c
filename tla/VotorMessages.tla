--------------------------- MODULE VotorMessages ---------------------------
(***************************************************************************)
(* Slots, leader windows, blocks and votes of Alpenglow (votor-messages/   *)
(* src/vote.rs, runtime/src/leader_schedule_utils.rs), shared by the       *)
(* modules of the voting side and of the certificate side of Votor.        *)
(***************************************************************************)
EXTENDS Integers, FiniteSets

CONSTANTS
    Ids,        \* block ids
    NoId,       \* the block id of a vote on a slot
    MaxSlot,    \* bound on the slots considered
    WindowSize  \* NUM_CONSECUTIVE_LEADER_SLOTS

ASSUME WindowAssumption ==
    MaxSlot \in Nat /\ WindowSize \in Nat \ {0} /\ NoId \notin Ids

Slot == 0..MaxSlot

Block == [slot : Slot, id : Ids]

(***************************************************************************)
(* first_of_consecutive_leader_slots and last_of_consecutive_leader_slots. *)
(***************************************************************************)
FirstOfWindow(s) == s - (s % WindowSize)

LastOfWindow(s) == FirstOfWindow(s) + WindowSize - 1

(***************************************************************************)
(* votor-messages/src/vote.rs.  A vote on a slot and a vote on a block     *)
(* have the same shape; a vote on a slot has NoId for its block.           *)
(***************************************************************************)
Notarize(b) == [type |-> "Notarize", slot |-> b.slot, id |-> b.id]

NotarizeFallback(b) == [type |-> "NotarizeFallback", slot |-> b.slot, id |-> b.id]

Finalize(s) == [type |-> "Finalize", slot |-> s, id |-> NoId]

Skip(s) == [type |-> "Skip", slot |-> s, id |-> NoId]

SkipFallback(s) == [type |-> "SkipFallback", slot |-> s, id |-> NoId]

Vote == {Notarize(b) : b \in Block} \cup {NotarizeFallback(b) : b \in Block}
        \cup {Finalize(s) : s \in Slot} \cup {Skip(s) : s \in Slot}
        \cup {SkipFallback(s) : s \in Slot}

BlockOf(v) == [slot |-> v.slot, id |-> v.id]

ParentReady == [slot : Slot, parent : Block]

When(cond, S) == IF cond THEN S ELSE {}

Larger(a, b) == IF a >= b THEN a ELSE b
=============================================================================
