---------------------------- MODULE VoteHistory ----------------------------
(***************************************************************************)
(* The vote history of a validator (votor/src/vote_history.rs): which      *)
(* votes it has cast, what it has seen certified, and the root below which *)
(* it has forgotten everything.  A history is a record; the methods of     *)
(* VoteHistory are operators on it.  A hash map from a slot to a block id  *)
(* is the set of the blocks it holds.                                      *)
(***************************************************************************)
EXTENDS VotorMessages

History ==
    [root : Slot, voted : SUBSET Slot, voted_notar : SUBSET Block,
     voted_notar_fallback : SUBSET Block, voted_skip_fallback : SUBSET Slot,
     skipped : SUBSET Slot, its_over : SUBSET Slot, votes_cast : SUBSET Vote,
     notarized_blocks : SUBSET Block, parent_ready_slots : SUBSET ParentReady]

NewHistory(root) ==
    [root |-> root, voted |-> {}, voted_notar |-> {},
     voted_notar_fallback |-> {}, voted_skip_fallback |-> {},
     skipped |-> {}, its_over |-> {}, votes_cast |-> {},
     notarized_blocks |-> {}, parent_ready_slots |-> {}]

-----------------------------------------------------------------------------

(***************************************************************************)
(* Queries.  Each asserts that its slot is not below the root: see Known.  *)
(***************************************************************************)
Known(h, s) == s >= h.root

voted(h, s) == s \in h.voted

voted_notar(h, b) == b \in h.voted_notar

voted_notar_fallback(h, b) == b \in h.voted_notar_fallback

voted_skip_fallback(h, s) == s \in h.voted_skip_fallback

skipped(h, s) == s \in h.skipped

its_over(h, s) == s \in h.its_over

bad_window(h, s) ==
    \/ s \in h.skipped
    \/ \E b \in h.voted_notar_fallback : b.slot = s
    \/ s \in h.voted_skip_fallback

is_block_notarized(h, b) == b \in h.notarized_blocks

is_parent_ready(h, s, p) == [slot |-> s, parent |-> p] \in h.parent_ready_slots

(***************************************************************************)
(* Empty, or the set of the highest ready slot with its lowest parent.     *)
(***************************************************************************)
highest_parent_ready(h) ==
    LET Best(r) == \A q \in h.parent_ready_slots :
                       \/ q.slot < r.slot
                       \/ q.slot = r.slot /\ q.parent.slot >= r.parent.slot
    IN  {CHOOSE r \in h.parent_ready_slots : Best(r) : x \in h.parent_ready_slots}

votes_cast_since(h, s) == {v \in h.votes_cast : v.slot > s}

(***************************************************************************)
(* The assertions of add_vote: what must hold for the vote to be added.    *)
(***************************************************************************)
MayAdd(h, v) ==
    /\ Known(h, v.slot)
    /\ v.type = "Notarize" =>
           /\ ~voted(h, v.slot)
           /\ ~\E b \in h.voted_notar : b.slot = v.slot
    /\ v.type = "Finalize" => ~skipped(h, v.slot)
    /\ v.type \in {"NotarizeFallback", "SkipFallback"} =>
           voted(h, v.slot) /\ ~its_over(h, v.slot)

add_vote(h, v) ==
    [h EXCEPT
        !.voted = @ \cup When(v.type \in {"Notarize", "Skip"}, {v.slot}),
        !.voted_notar = @ \cup When(v.type = "Notarize", {BlockOf(v)}),
        !.voted_notar_fallback = @ \cup When(v.type = "NotarizeFallback", {BlockOf(v)}),
        !.voted_skip_fallback = @ \cup When(v.type = "SkipFallback", {v.slot}),
        !.skipped = @ \cup When(v.type \in {"Skip", "NotarizeFallback", "SkipFallback"}, {v.slot}),
        !.its_over = @ \cup When(v.type = "Finalize", {v.slot}),
        !.votes_cast = @ \cup {v}]

add_block_notarized(h, b) ==
    [h EXCEPT !.notarized_blocks = @ \cup When(b.slot >= h.root, {b})]

add_parent_ready(h, s, p) ==
    [h EXCEPT !.parent_ready_slots =
        @ \cup When(s >= h.root, {[slot |-> s, parent |-> p]})]

set_root(h, root) ==
    LET Recent(S) == {s \in S : s >= root}
        RecentOf(S) == {x \in S : x.slot >= root}
    IN  [root |-> root,
         voted |-> Recent(h.voted),
         voted_notar |-> RecentOf(h.voted_notar),
         voted_notar_fallback |-> RecentOf(h.voted_notar_fallback),
         voted_skip_fallback |-> Recent(h.voted_skip_fallback),
         skipped |-> Recent(h.skipped),
         its_over |-> Recent(h.its_over),
         votes_cast |-> RecentOf(h.votes_cast),
         notarized_blocks |-> RecentOf(h.notarized_blocks),
         parent_ready_slots |-> RecentOf(h.parent_ready_slots)]

initialize_genesis(h, genesis) ==
    IF genesis.slot < h.root
    THEN h
    ELSE LET g == set_root(h, genesis.slot)
         IN  [g EXCEPT !.voted = @ \cup {genesis.slot},
                       !.voted_notar = @ \cup {genesis},
                       !.notarized_blocks = @ \cup {genesis}]

(***************************************************************************)
(* The assertions of initialize_genesis: a history that reaches back to    *)
(* the genesis slot voted for and saw notarized no other block there.      *)
(***************************************************************************)
MayInitialize(h, genesis) ==
    genesis.slot >= h.root =>
        \A b \in h.voted_notar \cup h.notarized_blocks :
            b.slot = genesis.slot => b = genesis
=============================================================================
