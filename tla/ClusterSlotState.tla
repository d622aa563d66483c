--------------------------- MODULE ClusterSlotState ---------------------------
(***************************************************************************)
(* The duplicate-slot state machine (core/src/repair/                      *)
(* cluster_slot_state_verifier.rs): how an event about a slot, compared    *)
(* with what the validator replayed, changes the fork choice and the set   *)
(* of slots to dump and repair.                                            *)
(*                                                                         *)
(* The structures the handlers share are one record s with the fields      *)
(*   fork_choice                the tree of HeaviestSubtree                *)
(*   duplicate_slots_tracker    the slots whose Duplicate event was seen   *)
(*   duplicate_confirmed_slots  the blocks the cluster duplicate confirmed *)
(*   epoch_slots_frozen_slots   the blocks the ancestor hashes sample told *)
(*   duplicate_slots_to_repair  the blocks to repair                       *)
(*   purge_repair_slot_counter  the dumps of each slot                     *)
(*   failed                     an assertion failed                        *)
(* A map from slots to hashes is the set of its blocks.  The status of a   *)
(* slot is the frozen block, Dead or Unprocessed.                          *)
(***************************************************************************)
EXTENDS HeaviestSubtree

Dead == <<"dead">>
Unprocessed == <<"unprocessed">>

IsFrozen(status) == status \notin {Dead, Unprocessed}

\* The entry of a slot in a map, as a set of at most one block.
Entry(m, slot) == {k \in m : SlotOf(k) = slot}

HashMapInsert(m, k) == (m \ Entry(m, SlotOf(k))) \cup {k}

(***************************************************************************)
(* The two state changes that matter; repairing and matching.              *)
(***************************************************************************)
MarkSlotDuplicate(s, k) ==
    [s EXCEPT !.failed = @ \/ ~MayMarkInvalid(s.fork_choice, k),
              !.fork_choice = mark_fork_invalid_candidate(@, k)]

RepairDuplicateConfirmedVersion(s, k) ==
    [s EXCEPT !.duplicate_slots_to_repair = HashMapInsert(@, k)]

DuplicateConfirmedSlotMatchesCluster(s, k) ==
    [s EXCEPT !.fork_choice = mark_fork_valid_candidate(@, k),
              !.duplicate_slots_to_repair = @ \ Entry(@, SlotOf(k)),
              !.purge_repair_slot_counter[SlotOf(k)] = 0]

check_duplicate_confirmed_hash_against_bank_status(s, confirmed, status) ==
    CASE status = Unprocessed -> s
      [] status = Dead -> RepairDuplicateConfirmedVersion(s, confirmed)
      [] status = confirmed -> DuplicateConfirmedSlotMatchesCluster(s, confirmed)
      [] OTHER -> RepairDuplicateConfirmedVersion(MarkSlotDuplicate(s, status), confirmed)

check_epoch_slots_hash_against_bank_status(s, sampled, status, is_popular_pruned) ==
    IF status = sampled THEN s
    ELSE LET marked == IF IsFrozen(status) /\ ~is_popular_pruned
                       THEN MarkSlotDuplicate(s, status) ELSE s
         IN  RepairDuplicateConfirmedVersion(marked, sampled)

(***************************************************************************)
(* The version the cluster confirmed: the local one when the fork choice   *)
(* has it confirmed, else the one the cluster's votes named.               *)
(***************************************************************************)
\* mutant: what the fork choice confirmed through a descendant is not asked
GossipOnly(s, slot, status) == Entry(s.duplicate_confirmed_slots, slot)

get_duplicate_confirmed_hash(s, slot, status) ==
    IF IsFrozen(status) /\ is_duplicate_confirmed(s.fork_choice, status)
    THEN {status} ELSE Entry(s.duplicate_confirmed_slots, slot)

(***************************************************************************)
(* The handlers.  A frozen or dead slot is compared with the confirmed     *)
(* version, or with the sampled one when none is confirmed.                *)
(***************************************************************************)
CompareReplayed(s, slot, status) ==
    LET confirmed == get_duplicate_confirmed_hash(s, slot, status)
        sampled == Entry(s.epoch_slots_frozen_slots, slot)
    IN  CASE confirmed # {} -> check_duplicate_confirmed_hash_against_bank_status(
                                   s, CHOOSE k \in confirmed : TRUE, status)
          [] confirmed = {} /\ sampled # {} -> check_epoch_slots_hash_against_bank_status(
                                   s, CHOOSE k \in sampled : TRUE, status, FALSE)
          [] OTHER -> s

\* mutant: a confirmation seen before the slot died is forgotten
DeadLater(s, slot) == s

on_dead_slot(s, slot) == CompareReplayed(s, slot, Dead)

on_frozen_slot(s, k) ==
    IF /\ get_duplicate_confirmed_hash(s, SlotOf(k), k) = {}
       /\ Entry(s.epoch_slots_frozen_slots, SlotOf(k)) = {}
       /\ SlotOf(k) \in s.duplicate_slots_tracker
    THEN MarkSlotDuplicate(s, k)
    ELSE CompareReplayed(s, SlotOf(k), k)

on_duplicate_confirmed(s, k, status) ==
    IF IsFrozen(status) /\ is_duplicate_confirmed(s.fork_choice, status) THEN s
    ELSE check_duplicate_confirmed_hash_against_bank_status(s, k, status)

on_duplicate(s, slot, status) ==
    LET seen == [s EXCEPT !.duplicate_slots_tracker = @ \cup {slot}]
    IN  IF /\ slot \notin s.duplicate_slots_tracker
           /\ IsFrozen(status)
           /\ get_duplicate_confirmed_hash(s, slot, status) = {}
        THEN MarkSlotDuplicate(seen, status)
        ELSE seen

on_epoch_slots_frozen(s, k, status, is_popular_pruned) ==
    LET told == [s EXCEPT !.epoch_slots_frozen_slots = HashMapInsert(@, k)]
    IN  IF \/ k \in s.epoch_slots_frozen_slots
           \/ ~is_popular_pruned /\ \/ get_duplicate_confirmed_hash(s, SlotOf(k), status) # {}
                                    \/ status = Unprocessed
        THEN told
        ELSE check_epoch_slots_hash_against_bank_status(told, k, status, is_popular_pruned)
=============================================================================
