---------------------------- MODULE VotingRules ----------------------------
(***************************************************************************)
(* What a validator may vote, given the votes it has cast: the rules that  *)
(* the asserts of VoteHistory::add_vote and the conditions of the event    *)
(* handler are there to keep, without histories, roots, queues and events. *)
(***************************************************************************)
EXTENDS SlotEntry

CONSTANTS
    Genesis,    \* the Alpenglow genesis block
    Parent      \* function from blocks to the parent of each

FirstInWindow(s) == s % WindowSize = 0 \/ s = 1

Consecutive(b) == Parent[b].slot + 1 = b.slot

InSlot(votes, s) == {v \in votes : v.slot = s}

HasCast(votes, s, types) == \E v \in InSlot(votes, s) : v.type \in types

FirstVoteTypes == {"Notarize", "Skip"}

(***************************************************************************)
(* A block that is not the first of its leader window follows the block of *)
(* the slot before, which this validator voted to notarize.                *)
(***************************************************************************)
Extends(votes, b) ==
    \/ FirstInWindow(b.slot)
    \/ Consecutive(b) /\ (Parent[b] = Genesis \/ Notarize(Parent[b]) \in votes)

FinalizeAnyway(votes, s) ==    \* mutant: a fallback vote does not rule out finalization
    ~HasCast(votes, s, {"Skip"})

OnlyNotarized(votes, s) == ~HasCast(votes, s, {"Skip", "NotarizeFallback", "SkipFallback"})

(***************************************************************************)
(* One first vote per slot.  A fallback vote comes after it, adds to it    *)
(* and rules out finalization; a vote to finalize comes after a vote to    *)
(* notarize the certified block, and rules out fallbacks.                  *)
(***************************************************************************)
MayCast(votes, v, certified) ==
    CASE v.type = "Notarize" ->
           ~HasCast(votes, v.slot, FirstVoteTypes) /\ Extends(votes, BlockOf(v))
      [] v.type = "Skip" ->
           ~HasCast(votes, v.slot, FirstVoteTypes)
      [] v.type = "NotarizeFallback" ->
           /\ HasCast(votes, v.slot, FirstVoteTypes)
           /\ ~HasCast(votes, v.slot, {"Finalize"})
           /\ Notarize(BlockOf(v)) \notin votes
      [] v.type = "SkipFallback" ->
           /\ HasCast(votes, v.slot, {"Notarize"})
           /\ ~HasCast(votes, v.slot, {"Finalize"})
      [] v.type = "Finalize" ->
           /\ \E b \in certified : b.slot = v.slot /\ Notarize(b) \in votes
           /\ OnlyNotarized(votes, v.slot)
=============================================================================
