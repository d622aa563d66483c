----------------------------- MODULE SlotEntry -----------------------------
(***************************************************************************)
(* The vote pool of the BLS signature verifier (bls-sigverify/src/         *)
(* vote_pool.rs): which votes of one validator for one slot may stand side *)
(* by side.  A vote that contradicts an earlier one is Invalid, and its    *)
(* sender is banned.                                                       *)
(*                                                                         *)
(* A SlotEntry has a field per kind of vote, indexed by rank; the fields   *)
(* of one rank are the set of the votes accepted from that validator.      *)
(***************************************************************************)
EXTENDS VotorMessages

MAX_NOTAR_FALLBACK_ENTRIES == 3

VoteTypes ==
    {"Notarize", "NotarizeFallback", "Finalize", "Skip", "SkipFallback", "Genesis"}

(***************************************************************************)
(* The kinds of votes that rule out a vote of the given kind, whatever the *)
(* blocks.                                                                 *)
(***************************************************************************)
Excludes(type) ==
    CASE type = "Skip" -> {"Notarize", "Finalize", "SkipFallback", "Genesis"}
      [] type = "SkipFallback" -> {"Finalize", "Skip", "Genesis"}
      [] type = "Finalize" -> {"Skip", "SkipFallback", "NotarizeFallback", "Genesis"}
      [] type = "Genesis" -> VoteTypes \ {"Genesis"}
      [] type = "Notarize" -> {"Skip", "Genesis"}
      [] type = "NotarizeFallback" -> {"Finalize", "Genesis"}

AnotherBlock(v, w) ==    \* mutant: both kinds of votes for one block
    v.type = w.type /\ v.type \in {"Notarize", "Genesis"} /\ v.id # w.id

(***************************************************************************)
(* Two votes on blocks that contradict each other because of the blocks.   *)
(***************************************************************************)
WrongBlock(v, w) ==
    \/ v.type = w.type /\ v.type \in {"Notarize", "Genesis"} /\ v.id # w.id
    \/ {v.type, w.type} = {"Notarize", "NotarizeFallback"} /\ v.id = w.id

Fallbacks(entry) == {v \in entry : v.type = "NotarizeFallback"}

Contradicts(entry, v) ==
    \/ \E w \in entry : w.type \in Excludes(v.type) \/ WrongBlock(v, w)
    \/ /\ v.type = "NotarizeFallback"
       /\ Cardinality(Fallbacks(entry)) >= MAX_NOTAR_FALLBACK_ENTRIES

(***************************************************************************)
(* The result of try_add_vote; the entry takes the vote if it is Ok.       *)
(***************************************************************************)
try_add_vote(entry, v) ==
    IF v.type = "NotarizeFallback" /\ v \in entry THEN "Duplicate"
    ELSE IF Contradicts(entry, v) THEN "Invalid"
    ELSE IF v \in entry THEN "Duplicate" ELSE "Ok"
=============================================================================
