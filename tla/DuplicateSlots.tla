--------------------------- MODULE DuplicateSlots ---------------------------
(***************************************************************************)
(* The fork choice and the duplicate-slot handling of one TowerBFT         *)
(* validator as ReplayStage (core/src/replay_stage.rs) drives them: blocks *)
(* are frozen or die, votes arrive, duplicate proofs, confirmations and    *)
(* ancestor samples come in any order, wrong versions are dumped and       *)
(* repaired, the root moves and the validator restarts.                    *)
(*                                                                         *)
(* The cluster (external) confirms the blocks of one chain, Chain, only;   *)
(* the other blocks are versions or forks that this validator may replay.  *)
(***************************************************************************)
EXTENDS ClusterSlotState

CONSTANTS
    Parent,         \* [block -> block], the root's parent is None
    Chain,          \* the blocks the cluster agrees on
    ProofSlots,     \* the slots for which a duplicate proof can turn up
    MAX_REPAIR_RETRY_LOOP_ATTEMPTS,
    MaxRestarts

ASSUME DuplicateAssumption ==
    /\ Chain \subseteq DOMAIN Parent
    /\ \A b \in DOMAIN Parent : Parent[b] # None => SlotOf(Parent[b]) < SlotOf(b)
    /\ \A b, c \in Chain : SlotOf(b) = SlotOf(c) => b = c
    /\ \A b \in Chain : Parent[b] # None => Parent[b] \in Chain

VARIABLES
    s,              \* the structures of ClusterSlotState
    banks,          \* the frozen blocks in bank_forks
    dead,           \* the blocks in bank_forks that failed to replay
    proofs,         \* the slots with a duplicate proof in the blockstore
    signals,        \* those whose signal ReplayStage has not processed
    gaveUp,         \* the validator exited: a slot could not be repaired
    restarts

vars == <<s, banks, dead, proofs, signals, gaveUp, restarts>>

Blocks == DOMAIN Parent
Slots == {SlotOf(b) : b \in Blocks}
Genesis == CHOOSE b \in Blocks : Parent[b] = None
Root == s.fork_choice.tree_root

NewState(tree) ==
    [fork_choice |-> tree, duplicate_slots_tracker |-> {}, duplicate_confirmed_slots |-> {},
     epoch_slots_frozen_slots |-> {}, duplicate_slots_to_repair |-> {},
     purge_repair_slot_counter |-> [n \in Slots |-> 0], failed |-> FALSE]

Init ==
    /\ s = NewState(new(Genesis))
    /\ banks = {Genesis}
    /\ dead = {}
    /\ proofs = {}
    /\ signals = {}
    /\ gaveUp = FALSE
    /\ restarts = 0

BankStatus(slot) ==
    IF slot \in {SlotOf(b) : b \in dead} THEN Dead
    ELSE IF Entry(banks, slot) # {} THEN CHOOSE b \in Entry(banks, slot) : TRUE
    ELSE Unprocessed

MayReplay(b) ==
    /\ Parent[b] \in banks
    /\ SlotOf(b) > SlotOf(Root)
    /\ BankStatus(SlotOf(b)) = Unprocessed

\* mutant: only the signal of a proof counts, not the stored one
SignalOnly(r, slot, status) == r

\* A stored proof whose slot was not seen by the state machine yet.
SeeStoredProof(r, slot, status) ==
    IF slot \in proofs \ r.duplicate_slots_tracker THEN on_duplicate(r, slot, status) ELSE r

Running == ~gaveUp /\ ~s.failed

BankFrozen(b) ==
    /\ Running
    /\ MayReplay(b)
    /\ banks' = banks \cup {b}
    /\ s' = SeeStoredProof(
                on_frozen_slot([s EXCEPT !.fork_choice = add_new_leaf_slot(@, b, Parent[b])], b),
                SlotOf(b), b)
    /\ UNCHANGED <<dead, proofs, signals, gaveUp, restarts>>

mark_hard_dead_slot(b) ==
    /\ Running
    /\ MayReplay(b)
    /\ b \notin Chain
    /\ dead' = dead \cup {b}
    /\ s' = SeeStoredProof(on_dead_slot(s, SlotOf(b)), SlotOf(b), Dead)
    /\ UNCHANGED <<banks, proofs, signals, gaveUp, restarts>>

\* The window service stores the proof and signals it once.
StoreDuplicateSlot(slot) ==
    /\ Running
    /\ slot \notin proofs
    /\ proofs' = proofs \cup {slot}
    /\ signals' = signals \cup {slot}
    /\ UNCHANGED <<s, banks, dead, gaveUp, restarts>>

process_duplicate_slots(slot) ==
    /\ Running
    /\ slot \in signals
    /\ signals' = signals \ {slot}
    /\ s' = IF slot <= SlotOf(Root) THEN s ELSE on_duplicate(s, slot, BankStatus(slot))
    /\ UNCHANGED <<banks, dead, proofs, gaveUp, restarts>>

Confirm(b, status) ==
    /\ Running
    /\ SlotOf(b) > SlotOf(Root)
    /\ b \notin s.duplicate_confirmed_slots
    /\ s' = on_duplicate_confirmed(
                [s EXCEPT !.duplicate_confirmed_slots = HashMapInsert(@, b)], b, status)
    /\ UNCHANGED <<banks, dead, proofs, signals, gaveUp, restarts>>

process_duplicate_confirmed_slots(b) == Confirm(b, BankStatus(SlotOf(b)))

mark_slots_duplicate_confirmed(b) == b \in banks /\ Confirm(b, b)

\* A sample for a pruned fork is about a slot that was not replayed.
process_ancestor_hashes_duplicate_slots(b, pruned) ==
    LET status == BankStatus(SlotOf(b))
    IN  /\ Running
        /\ SlotOf(b) > SlotOf(Root)
        /\ pruned => status = Unprocessed
        /\ s' = on_epoch_slots_frozen(s, b, status, pruned)
        /\ UNCHANGED <<banks, dead, proofs, signals, gaveUp, restarts>>

\* One validator's latest vote, as a replayed bank shows it.
AddVote(v, b) ==
    /\ Running
    /\ b \in banks
    /\ IsLaterVote(s.fork_choice, v, b)
    /\ s' = [s EXCEPT !.fork_choice = add_votes(@, [w \in {v} |-> b])]
    /\ UNCHANGED <<banks, dead, proofs, signals, gaveUp, restarts>>

DescendsFrom(b, k) ==
    LET above[c \in Blocks] == c = k \/ (Parent[c] # None /\ above[Parent[c]])
    IN  above[b]

(***************************************************************************)
(* Every slot to repair: its bank and the banks below it leave, unless the *)
(* bank is already the right one.  The fork choice keeps their blocks.     *)
(***************************************************************************)
dump_then_repair_correct_slots ==
    LET dumped == s.duplicate_slots_to_repair \ banks
        slots == {SlotOf(k) : k \in dumped}
        below == {b \in Blocks : \E c \in banks \cup dead : SlotOf(c) \in slots /\ DescendsFrom(b, c)
                                                          /\ SlotOf(c) > SlotOf(Root)}
        counter == [n \in Slots |-> s.purge_repair_slot_counter[n] + IF n \in slots THEN 1 ELSE 0]
    IN  /\ Running
        /\ s.duplicate_slots_to_repair # {}
        /\ IF \E n \in Slots : counter[n] > MAX_REPAIR_RETRY_LOOP_ATTEMPTS
           THEN gaveUp' = TRUE /\ UNCHANGED <<s, banks, dead>>
           ELSE /\ s' = [s EXCEPT !.duplicate_slots_to_repair = {},
                                  !.purge_repair_slot_counter = counter]
                /\ banks' = banks \ below
                /\ dead' = dead \ below
                /\ UNCHANGED gaveUp
        /\ UNCHANGED <<proofs, signals, restarts>>

\* The tower roots a block that is duplicate confirmed.
SetRoot(b) ==
    LET root == SlotOf(b)
    IN  /\ Running
        /\ b \in banks
        /\ root > SlotOf(Root)
        /\ is_duplicate_confirmed(s.fork_choice, b)
        /\ s' = [s EXCEPT !.fork_choice = set_tree_root(@, b),
                          !.duplicate_slots_tracker = {n \in @ : n >= root},
                          !.duplicate_confirmed_slots = {k \in @ : SlotOf(k) >= root},
                          !.epoch_slots_frozen_slots = {k \in @ : SlotOf(k) >= root}]
        /\ banks' = {k \in banks : DescendsFrom(k, b)}
        /\ dead' = {k \in dead : DescendsFrom(k, b)}
        /\ UNCHANGED <<proofs, signals, gaveUp, restarts>>

(***************************************************************************)
(* A restart keeps the blockstore: the frozen blocks are replayed again,   *)
(* and those with a duplicate proof above the root start out as no         *)
(* candidates.  Everything the cluster told is forgotten.                  *)
(***************************************************************************)
Restart ==
    LET tree == new_from_frozen_banks(Root, Parent, banks)
        duplicates == {b \in banks : SlotOf(b) \in proofs /\ SlotOf(b) > SlotOf(Root)}
    IN  /\ restarts < MaxRestarts
        /\ restarts' = restarts + 1
        /\ ~s.failed
        /\ s' = NewState(FoldLeft(mark_fork_invalid_candidate, tree,
                                  Reverse(Descending(duplicates))))
        /\ dead' = {}
        /\ signals' = {}
        /\ gaveUp' = FALSE
        /\ UNCHANGED <<banks, proofs>>

Next ==
    \/ \E b \in Blocks \ {Genesis} :
        \/ BankFrozen(b)
        \/ mark_hard_dead_slot(b)
        \/ SetRoot(b)
        \/ \E v \in Validators : AddVote(v, b)
    \/ \E b \in Chain \ {Genesis} :
        \/ process_duplicate_confirmed_slots(b)
        \/ mark_slots_duplicate_confirmed(b)
        \/ \E pruned \in BOOLEAN : process_ancestor_hashes_duplicate_slots(b, pruned)
    \/ \E slot \in ProofSlots : StoreDuplicateSlot(slot) \/ process_duplicate_slots(slot)
    \/ dump_then_repair_correct_slots
    \/ Restart

Spec == Init /\ [][Next]_vars

-----------------------------------------------------------------------------
(***************************************************************************)
(* No assertion of the fork choice fails: a fork with a duplicate          *)
(* confirmed block is never marked invalid, in whatever order proofs,      *)
(* confirmations and samples arrive; and the best block is one that the    *)
(* validator still has replayed, which select_forks unwraps, also right    *)
(* after a dump.                                                           *)
(***************************************************************************)
NoForkChoicePanic == ~s.failed /\ best_overall_slot(s.fork_choice) \in banks

\* The stake below a block, from the latest votes alone.
VotedBelow(k) ==
    LET t == s.fork_choice
    IN  MapThenSumSet(LAMBDA b : StakeOn(t.latest_votes, b), Subtree(t.fork_infos, k))

\* The walk from k to the candidate child with most votes, ties to the first.
GreedyBest(k) ==
    LET infos == s.fork_choice.fork_infos
        next(b) == {c \in infos[b].children :
                      /\ is_candidate(infos, c)
                      /\ \A o \in infos[b].children \ {c} :
                            is_candidate(infos, o) =>
                                \/ VotedBelow(c) > VotedBelow(o)
                                \/ VotedBelow(c) = VotedBelow(o) /\ Before(c, o)}
        walk[b \in DOMAIN infos] ==
            IF next(b) = {} THEN b ELSE walk[CHOOSE c \in next(b) : TRUE]
    IN  walk[k]

(***************************************************************************)
(* What the fork choice caches agrees with the latest votes: the stake of  *)
(* every subtree, moved by additions and subtractions with the weights of  *)
(* two epochs and aggregated along the touched ancestors only, is that of  *)
(* the validators whose latest vote lies in it; the best block of every    *)
(* candidate is the end of the greedy walk over those stakes; and the      *)
(* deepest block is one of greatest depth.  A new leaf updates the two     *)
(* with a shortcut, votes and marks by aggregating part of the tree.       *)
(***************************************************************************)
ForkChoiceAsDefined ==
    LET infos == s.fork_choice.fork_infos
        depth(b) == Cardinality(Ancestors(infos, b))
    IN  \A k \in DOMAIN infos :
            /\ infos[k].stake_voted_subtree = VotedBelow(k)
            /\ is_candidate(infos, k) => infos[k].best_slot = GreedyBest(k)
            /\ infos[k].deepest_slot \in Subtree(infos, k)
            /\ \A b \in Subtree(infos, k) : depth(b) <= depth(infos[k].deepest_slot)
            /\ infos[k].height = 1 + depth(infos[k].deepest_slot) - depth(k)

(***************************************************************************)
(* Once the cluster duplicate confirmed a version of a replayed slot: if   *)
(* it is the one replayed here, it is a candidate with all its ancestors;  *)
(* if another one was frozen or the slot is dead, the version is queued    *)
(* for repair and the frozen one is no candidate.  The order in which the  *)
(* confirmation, the replay and the duplicate proof came does not matter.  *)
(***************************************************************************)
AgreesWithCluster ==
    LET infos == s.fork_choice.fork_infos
    IN  \A b \in banks \cup dead, k \in s.duplicate_confirmed_slots :
            SlotOf(b) = SlotOf(k) =>
                IF b = k
                THEN \A a \in {b} \cup Ancestors(infos, b) :
                        is_candidate(infos, a) /\ infos[a].is_duplicate_confirmed
                ELSE /\ k \in s.duplicate_slots_to_repair
                     /\ b \in banks => ~is_candidate(infos, b)

(***************************************************************************)
(* Nothing below a slot with a processed duplicate proof is a candidate    *)
(* until the block is confirmed, or was sampled as the cluster's version,  *)
(* across freezing, dumping, rooting and restarts.                         *)
(***************************************************************************)
DuplicatesExcluded ==
    LET infos == s.fork_choice.fork_infos
    IN  \A b \in banks \ {Root} :
            \/ SlotOf(b) \notin proofs \ signals
            \/ infos[b].is_duplicate_confirmed
            \/ b \in s.epoch_slots_frozen_slots
            \/ \A d \in Subtree(infos, b) : ~is_candidate(infos, d)
=============================================================================
