------------------------------ MODULE VotePool ------------------------------
(***************************************************************************)
(* From votes to certificates and fallback events: VotePool (votor/src/    *)
(* consensus_pool/vote_pool.rs) with its AggregateAccumulators (votor/src/ *)
(* aggregate_accumulator.rs), and SlotStakeCounters (votor/src/            *)
(* consensus_pool/slot_stake_counters.rs).  Operators on their states.     *)
(*                                                                         *)
(* A certificate type has the shape of a vote: a type, a slot, a block id. *)
(* A signature is left out, and the validators behind a certificate are    *)
(* the ranks of the accumulators it was built from.                        *)
(***************************************************************************)
EXTENDS SlotEntry

CONSTANTS
    Validators,  \* the validators with stake, by rank
    Stake        \* the stake of a set of validators

(***************************************************************************)
(* The stake of a set is the sum of the stakes of its members.             *)
(***************************************************************************)
ASSUME StakeAssumption ==
    /\ Stake \in [SUBSET Validators -> Nat]
    /\ \A A, B \in SUBSET Validators :
           A \cap B = {} => Stake[A \cup B] = Stake[A] + Stake[B]
    /\ Stake[Validators] > 0

AtLeast(stake, percent) == 100 * stake >= percent * Stake[Validators]

Meets(c, stake) == AtLeast(stake, IF c.type = "FinalizeFast" THEN 80 ELSE 60)

Cert(type, v) == [v EXCEPT !.type = type]

CertType ==
    {v \in Vote : v.type # "SkipFallback"}
    \cup {Cert("FinalizeFast", v) : v \in {Notarize(b) : b \in Block}}

-----------------------------------------------------------------------------

Accumulator == [ranks : SUBSET Validators, stake : Nat]

NoVotes == [ranks |-> {}, stake |-> 0]

(***************************************************************************)
(* The sender of an aggregate has made sure that its ranks are new.        *)
(***************************************************************************)
add_aggregate(a, ranks) ==
    [ranks |-> a.ranks \cup ranks, stake |-> a.stake + Stake[ranks]]

add_own_vote_message(a, rank) ==
    IF rank \in a.ranks THEN a ELSE add_aggregate(a, {rank})

(***************************************************************************)
(* try_build_base2_cert, and try_build_base3_cert of a primary and a       *)
(* fallback accumulator: a set of at most one certificate.  A missing      *)
(* accumulator has no stake.                                               *)
(***************************************************************************)
Base2(c, a) == When(Meets(c, a.stake), {c})

FallbackOnly(c, a, f) == When(Meets(c, f.stake), {c})    \* mutant: forgets the primary

Base3(c, a, f) == When(Meets(c, a.stake + f.stake), {c})

(***************************************************************************)
(* The first of the certificates of block b that can be built, unless it   *)
(* or a stronger one is completed.                                         *)
(***************************************************************************)
NotarizeCert(acc, completed, v) ==
    LET fast == Cert("FinalizeFast", v)
        fallback == Cert("NotarizeFallback", v)
    IN  IF fast \in completed THEN {}
        ELSE IF Base2(fast, acc[v]) # {} THEN {fast}
        ELSE IF v \in completed THEN {}
        ELSE IF Base2(v, acc[v]) # {} THEN {v}
        ELSE When(fallback \notin completed /\ acc[fallback] # NoVotes,
                  Base3(fallback, acc[v], acc[fallback]))

NotarizeFallbackCert(acc, completed, v) ==
    When(\A type \in {"FinalizeFast", "Notarize", "NotarizeFallback"} :
             Cert(type, v) \notin completed,
         Base3(v, acc[Cert("Notarize", v)], acc[v]))

(***************************************************************************)
(* Both kinds of skip votes.                                               *)
(***************************************************************************)
SkipCert(acc, completed, s) ==
    When(Skip(s) \notin completed, Base3(Skip(s), acc[Skip(s)], acc[SkipFallback(s)]))

try_produce_cert(acc, completed, v) ==
    CASE v.type = "Notarize" -> NotarizeCert(acc, completed, v)
      [] v.type = "NotarizeFallback" -> NotarizeFallbackCert(acc, completed, v)
      [] v.type = "Finalize" -> When(v \notin completed, Base2(v, acc[v]))
      [] v.type \in {"Skip", "SkipFallback"} -> SkipCert(acc, completed, v.slot)

(***************************************************************************)
(* What the quorums of the cluster rule out, as they overlap in a correct  *)
(* validator: two notarized blocks in a slot, and in a slot that is        *)
(* finalized a skip certificate or any certificate of another block.       *)
(***************************************************************************)
BlocksOf(certs) == {c.id : c \in certs} \ {NoId}

Agreed(certs) ==
    \A s \in Slot :
        LET here == {c \in certs : c.slot = s}
        IN  /\ Cardinality(BlocksOf({c \in here : c.type \in {"Notarize", "FinalizeFast"}})) <= 1
            /\ (\E c \in here : c.type \in {"Finalize", "FinalizeFast"}) =>
                   Skip(s) \notin here /\ Cardinality(BlocksOf(here)) <= 1
=============================================================================
