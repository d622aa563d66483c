--------------------------- MODULE HeaviestSubtree ---------------------------
(***************************************************************************)
(* HeaviestSubtreeForkChoice (core/src/consensus/                          *)
(* heaviest_subtree_fork_choice.rs): the tree of frozen blocks from the    *)
(* root, with the stake that voted for each subtree and, kept up to date   *)
(* by every operation, the best and the deepest block below each block.    *)
(* A block is a pair of slot and hash; of two versions of a slot the one   *)
(* with the smaller hash comes first.                                      *)
(***************************************************************************)
EXTENDS Integers, FiniteSetsExt, SequencesExt

CONSTANTS
    Validators,
    StakeAt         \* [slot -> [validator -> stake in the epoch of the slot]]

None == <<>>        \* no block
NoSlot == -1

SlotOf(k) == k[1]

Before(k, l) == k[1] < l[1] \/ (k[1] = l[1] /\ k[2] < l[2])

\* The blocks of S as a sequence, greatest first.
Descending(S) ==
    LET sorted[T \in SUBSET S] ==
            IF T = {} THEN <<>>
            ELSE LET last == CHOOSE k \in T : \A l \in T \ {k} : Before(l, k)
                 IN  <<last>> \o sorted[T \ {last}]
    IN  sorted[S]

ForkInfo(k, parent, invalid, confirmed) ==
    [stake_voted_at |-> 0, stake_voted_subtree |-> 0, height |-> 1, best_slot |-> k,
     deepest_slot |-> k, parent |-> parent, children |-> {},
     latest_invalid_ancestor |-> invalid, is_duplicate_confirmed |-> confirmed]

new(root) ==
    [fork_infos |-> [k \in {root} |-> ForkInfo(root, None, NoSlot, TRUE)],
     latest_votes |-> [v \in Validators |-> None], tree_root |-> root]

contains_block(t, k) == k \in DOMAIN t.fork_infos

is_duplicate_confirmed(t, k) == contains_block(t, k) /\ t.fork_infos[k].is_duplicate_confirmed

is_candidate(infos, k) == infos[k].latest_invalid_ancestor = NoSlot

best_overall_slot(t) == t.fork_infos[t.tree_root].best_slot

(***************************************************************************)
(* The blocks above k, k not included, and those below it, k included.     *)
(***************************************************************************)
Ancestors(infos, k) ==
    LET above[b \in DOMAIN infos] ==
            LET p == infos[b].parent IN IF p = None THEN {} ELSE {p} \cup above[p]
    IN  IF k \in DOMAIN infos THEN above[k] ELSE {}

Subtree(infos, k) == {b \in DOMAIN infos : b = k \/ k \in Ancestors(infos, b)}

(***************************************************************************)
(* Ties go to the block that comes first; for the deepest to the heavier   *)
(* one before that.                                                        *)
(***************************************************************************)
Heavier(infos, k, l) ==
    LET a == infos[k].stake_voted_subtree
        b == infos[l].stake_voted_subtree
    IN  a > b \/ (a = b /\ Before(k, l))

Deeper(infos, k, l) ==
    \/ infos[k].height > infos[l].height
    \/ infos[k].height = infos[l].height /\ Heavier(infos, k, l)

Siblings(infos, k) == infos[infos[k].parent].children \ {k}

is_best_child(infos, k) ==
    infos[k].parent # None =>
        \A c \in Siblings(infos, k) : is_candidate(infos, c) => ~Heavier(infos, c, k)

is_deepest_child(infos, k) ==
    infos[k].parent # None => \A c \in Siblings(infos, k) : ~Deeper(infos, c, k)

(***************************************************************************)
(* A new leaf becomes the best block of the ancestors that had the best    *)
(* block of its parent, and the deepest one as far up as its branch is the *)
(* deepest.                                                                *)
(***************************************************************************)
propagate_best(infos, k, path) ==
    LET old == infos[infos[k].parent].best_slot
        up(s, a) ==
            IF s.go /\ infos[a].best_slot = old
            THEN [s EXCEPT !.infos[a].best_slot = k] ELSE [s EXCEPT !.go = FALSE]
    IN  FoldLeft(up, [infos |-> infos, go |-> is_best_child(infos, k)], path).infos

propagate_deepest(infos, k, path) ==
    LET up(s, a) ==
            IF s.go /\ is_deepest_child(s.infos, s.child)
            THEN [s EXCEPT !.infos[a].deepest_slot = k,
                           !.infos[a].height = s.infos[s.child].height + 1, !.child = a]
            ELSE [s EXCEPT !.go = FALSE]
    IN  FoldLeft(up, [infos |-> infos, child |-> k, go |-> TRUE], path).infos

propagate_new_leaf(infos, k) ==
    LET path == Descending(Ancestors(infos, k))
    IN  propagate_deepest(propagate_best(infos, k, path), k, path)

add_new_leaf_slot(t, k, parent) ==
    IF contains_block(t, k) THEN t
    ELSE LET leaf == ForkInfo(k, parent, t.fork_infos[parent].latest_invalid_ancestor, FALSE)
             infos == [b \in DOMAIN t.fork_infos \cup {k} |->
                          IF b = k THEN leaf
                          ELSE IF b = parent
                          THEN [t.fork_infos[b] EXCEPT !.children = @ \cup {k}]
                          ELSE t.fork_infos[b]]
         IN  [t EXCEPT !.fork_infos = propagate_new_leaf(infos, k)]

(***************************************************************************)
(* One block from its children.  Children that are no candidates count for *)
(* the stake and the height, not for the best block.                       *)
(***************************************************************************)
aggregate_slot(infos, k) ==
    LET cs == infos[k].children
        candidates == {c \in cs : is_candidate(infos, c)}
        heaviest == CHOOSE c \in candidates : \A o \in candidates \ {c} : Heavier(infos, c, o)
        deepest == CHOOSE c \in cs : \A o \in cs \ {c} : Deeper(infos, c, o)
        confirmed == \E c \in cs : infos[c].is_duplicate_confirmed
        stake == MapThenSumSet(LAMBDA c : infos[c].stake_voted_subtree, cs)
    IN  [infos EXCEPT ![k] = [@ EXCEPT
            !.stake_voted_subtree = infos[k].stake_voted_at + stake,
            !.height = 1 + IF cs = {} THEN 0 ELSE infos[deepest].height,
            !.best_slot = IF candidates = {} THEN k ELSE infos[heaviest].best_slot,
            !.deepest_slot = IF cs = {} THEN k ELSE infos[deepest].deepest_slot,
            !.is_duplicate_confirmed = @ \/ confirmed,
            !.latest_invalid_ancestor = IF confirmed THEN NoSlot ELSE @]]

aggregate_slots(infos, S) == FoldLeft(aggregate_slot, infos, Descending(S \cap DOMAIN infos))

(***************************************************************************)
(* A batch of votes, one per validator in it.  A vote below the root, or   *)
(* one that is not later than the validator's latest, is dropped; of two   *)
(* versions of a slot the smaller hash counts as the later vote.  The      *)
(* stake leaves the old vote's block with its weight in the old slot's     *)
(* epoch.  All stakes move before the ancestors are aggregated, greatest   *)
(* block first; a block that left the tree is skipped.                     *)
(***************************************************************************)
IsLaterVote(t, v, k) ==
    LET old == t.latest_votes[v]
    IN  /\ SlotOf(k) >= SlotOf(t.tree_root)
        /\ old # None => \/ SlotOf(k) > SlotOf(old)
                         \/ SlotOf(k) = SlotOf(old) /\ k[2] < old[2]

StakeOn(votes, k) ==
    MapThenSumSet(LAMBDA v : StakeAt[SlotOf(k)][v], {v \in DOMAIN votes : votes[v] = k})

\* mutant: the stake leaves with its weight in the new vote's epoch
MovedInNewEpoch(came, left, k) ==
    StakeOn(came, k)
        - MapThenSumSet(LAMBDA v : StakeAt[SlotOf(came[v])][v], {v \in DOMAIN left : left[v] = k})

StakeMoved(came, left, k) == StakeOn(came, k) - StakeOn(left, k)

add_votes(t, batch) ==
    LET newer == {v \in DOMAIN batch : IsLaterVote(t, v, batch[v])}
        came == [v \in newer |-> batch[v]]
        left == [v \in newer |-> t.latest_votes[v]]
        moved == [k \in DOMAIN t.fork_infos |->
                    LET stake == StakeMoved(came, left, k)
                    IN  [t.fork_infos[k] EXCEPT !.stake_voted_at = @ + stake,
                                                !.stake_voted_subtree = @ + stake]]
        touched == UNION {Ancestors(moved, came[v]) \cup Ancestors(moved, left[v]) : v \in newer}
    IN  [t EXCEPT !.latest_votes = [v \in Validators |-> IF v \in newer THEN batch[v] ELSE @[v]],
                  !.fork_infos = aggregate_slots(moved, touched)]

(***************************************************************************)
(* The fork from k on leaves the candidates (the code asserts that no      *)
(* block of it was confirmed), or comes back to them: then every block     *)
(* above k is confirmed too, by the aggregation.                           *)
(***************************************************************************)
mark_fork_invalid(info, slot) ==
    IF info.latest_invalid_ancestor < slot
    THEN [info EXCEPT !.latest_invalid_ancestor = slot] ELSE info

mark_fork_valid(info, k, slot) ==
    [info EXCEPT !.latest_invalid_ancestor = IF @ <= slot THEN NoSlot ELSE @,
                 !.is_duplicate_confirmed = @ \/ SlotOf(k) = slot]

MayMarkInvalid(t, k) == \A b \in Subtree(t.fork_infos, k) : ~t.fork_infos[b].is_duplicate_confirmed

mark_fork_invalid_candidate(t, k) ==
    LET below == Subtree(t.fork_infos, k)
        marked == [b \in DOMAIN t.fork_infos |->
                      IF b \in below THEN mark_fork_invalid(t.fork_infos[b], SlotOf(k))
                      ELSE t.fork_infos[b]]
    IN  [t EXCEPT !.fork_infos = aggregate_slots(marked, below \cup Ancestors(marked, k))]

mark_fork_valid_candidate(t, k) ==
    LET below == Subtree(t.fork_infos, k)
        marked == [b \in DOMAIN t.fork_infos |->
                      IF b \in below THEN mark_fork_valid(t.fork_infos[b], b, SlotOf(k))
                      ELSE t.fork_infos[b]]
    IN  [t EXCEPT !.fork_infos = aggregate_slots(marked, below \cup Ancestors(marked, k))]

set_tree_root(t, k) ==
    LET kept == Subtree(t.fork_infos, k)
    IN  [t EXCEPT !.tree_root = k,
                  !.fork_infos = [b \in kept |->
                      IF b = k THEN [t.fork_infos[b] EXCEPT !.parent = None]
                      ELSE t.fork_infos[b]]]

(***************************************************************************)
(* At startup: the frozen banks in slot order, then the known duplicates.  *)
(***************************************************************************)
new_from_frozen_banks(root, parents, frozen) ==
    FoldLeft(LAMBDA t, k : add_new_leaf_slot(t, k, parents[k]), new(root),
             Reverse(Descending(frozen \ {root})))
=============================================================================
