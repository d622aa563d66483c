------------------------- MODULE SlotStakeCounters -------------------------
(***************************************************************************)
(* SlotStakeCounters (votor/src/consensus_pool/slot_stake_counters.rs):    *)
(* when is it safe for this validator, which has voted in a slot, to cast  *)
(* a fallback vote there as well.                                          *)
(***************************************************************************)
EXTENDS VotePool

Counters ==
    [my_first_vote : SUBSET Vote, skip_total : Nat, notarize_total : Nat,
     notarize_entry_total : [Ids -> Nat], top_notarized_stake : Nat,
     safe_to_notar_sent : SUBSET Ids, safe_to_skip_sent : BOOLEAN]

NewCounters ==
    [my_first_vote |-> {}, skip_total |-> 0, notarize_total |-> 0,
     notarize_entry_total |-> [i \in Ids |-> 0], top_notarized_stake |-> 0,
     safe_to_notar_sent |-> {}, safe_to_skip_sent |-> FALSE]

SumOfEntries(c, v, stake) ==    \* mutant: the old entry stays in the total
    c.notarize_total + stake

TotalWith(c, v, stake) ==
    c.notarize_total - c.notarize_entry_total[v.id] + stake

(***************************************************************************)
(* The stake of a vote replaces what was counted for it.                   *)
(***************************************************************************)
Count(c, v, stake) ==
    IF v.type = "Skip"
    THEN [c EXCEPT !.skip_total = stake]
    ELSE [c EXCEPT !.notarize_entry_total[v.id] = stake,
                   !.notarize_total = TotalWith(c, v, stake),
                   !.top_notarized_stake = Larger(@, stake)]

NoteOwn(c, v, own) ==
    [c EXCEPT !.my_first_vote = IF c.my_first_vote = {} THEN When(own, {v}) ELSE @]

NotarOnly(c, id) == AtLeast(c.notarize_entry_total[id], 40)    \* mutant: skips do not count

(***************************************************************************)
(* White paper v1.1 page 22: notar(b) >= 40%, or skip(s) + notar(b) >= 60% *)
(* and notar(b) >= 20%.                                                    *)
(***************************************************************************)
EnoughToNotar(c, id) ==
    LET notar == c.notarize_entry_total[id]
    IN  \/ AtLeast(notar, 40)
        \/ AtLeast(notar, 20) /\ AtLeast(c.skip_total + notar, 60)

is_safe_to_notar(c, id) ==
    /\ ~\E v \in c.my_first_vote : v.type = "Notarize" /\ v.id = id
    /\ EnoughToNotar(c, id)

is_safe_to_skip(c) ==
    /\ \E v \in c.my_first_vote : v.type = "Notarize"
    /\ AtLeast(c.skip_total + c.notarize_total - c.top_notarized_stake, 40)

MayAsk(c, own) == c.my_first_vote # {}

(***************************************************************************)
(* What becomes safe with the vote just counted.                           *)
(***************************************************************************)
SafeIds(c, own) ==
    {id \in Ids \ c.safe_to_notar_sent : MayAsk(c, own) /\ is_safe_to_notar(c, id)}

SafeSkip(c, own) == MayAsk(c, own) /\ ~c.safe_to_skip_sent /\ is_safe_to_skip(c)

Counted(c, v, stake, own) == NoteOwn(Count(c, v, stake), v, own)
=============================================================================
