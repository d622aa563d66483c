------------------------------ MODULE Cluster ------------------------------
(***************************************************************************)
(* Many validators that vote by the rules of module Voter, and the         *)
(* certificates their votes can become in the consensus pools (module      *)
(* VotePool).  A validator that is not correct may sign anything: it is    *)
(* behind every certificate, and every pool may have seen another vote of  *)
(* it.  A message may be late or lost: a validator may wait for ever with  *)
(* a vote it could cast.                                                   *)
(***************************************************************************)
EXTENDS SlotStakeCounters, VotingRules

CONSTANTS
    Correct         \* the validators that run this code

Faulty == Validators \ Correct

ASSUME FaultAssumption ==
    Correct \subseteq Validators /\ 5 * Stake[Faulty] < Stake[Validators]

(***************************************************************************)
(* The blocks that the leaders may build on the genesis block.             *)
(***************************************************************************)
ASSUME TreeAssumption ==
    /\ Genesis \in Block
    /\ DOMAIN Parent \subseteq Block
    /\ \A b \in DOMAIN Parent :
           Parent[b] \in DOMAIN Parent \cup {Genesis} /\ Parent[b].slot < b.slot

VARIABLES
    votes,          \* the votes of each correct validator
    certs           \* the certificates that some pool may have built from them

vars == <<votes, certs>>

By(vs, v) == {n \in Correct : v \in vs[n]}

(***************************************************************************)
(* The validators that may be behind a certificate.                        *)
(***************************************************************************)
Signers(vs, c) ==
    Faulty \cup
    CASE c.type \in {"Notarize", "FinalizeFast"} -> By(vs, Cert("Notarize", c))
      [] c.type = "NotarizeFallback" -> By(vs, Cert("Notarize", c)) \cup By(vs, c)
      [] c.type = "Finalize" -> By(vs, c)
      [] c.type = "Skip" -> By(vs, c) \cup By(vs, SkipFallback(c.slot))

CertificatesOf(vs) == {c \in CertType : Meets(c, Stake[Signers(vs, c)])}

Init ==
    /\ votes = [n \in Correct |-> {}]
    /\ certs = CertificatesOf(votes)

Notarized == {b \in DOMAIN Parent : Notarize(b) \in certs}

(***************************************************************************)
(* A pool counts one first vote of a faulty validator: those of F for the  *)
(* block, the others as skips.  Inside a leader window the parent must be  *)
(* certified.                                                              *)
(***************************************************************************)
Seen(b, F) ==
    [skip_total |-> Stake[By(votes, Skip(b.slot)) \cup (Faulty \ F)],
     notarize_entry_total |-> [i \in {b.id} |-> Stake[By(votes, Notarize(b)) \cup F]]]

AnyParent(b) ==    \* mutant: the parent is not asked for
    \E F \in SUBSET Faulty : EnoughToNotar(Seen(b, F), b.id)

SafeToNotar(b) ==
    /\ \E F \in SUBSET Faulty : EnoughToNotar(Seen(b, F), b.id)
    /\ FirstInWindow(b.slot) \/ NotarizeFallback(Parent[b]) \in certs

(***************************************************************************)
(* Whichever block has the most stake.                                     *)
(***************************************************************************)
NotFor(b) ==
    By(votes, Skip(b.slot)) \cup UNION {By(votes, Notarize(o)) : o \in {o \in Block : o.slot = b.slot /\ o # b}}

SafeToSkip(s) ==
    \A b \in Block : b.slot = s => AtLeast(Stake[NotFor(b) \cup Faulty], 40)

(***************************************************************************)
(* The parent of the first block of a window is certified, and the slots   *)
(* between them are skipped (module ParentReady).                          *)
(***************************************************************************)
ReadyFor(b) ==
    /\ Parent[b] = Genesis \/ NotarizeFallback(Parent[b]) \in certs
    /\ \A s \in (Parent[b].slot + 1)..(b.slot - 1) : Skip(s) \in certs

Cast(n, v) ==
    /\ v \notin votes[n]
    /\ MayCast(votes[n], v, Notarized)
    /\ v.type = "Notarize" /\ FirstInWindow(v.slot) => ReadyFor(BlockOf(v))
    /\ v.type = "NotarizeFallback" => SafeToNotar(BlockOf(v))
    /\ v.type = "SkipFallback" => SafeToSkip(v.slot)
    /\ votes' = [votes EXCEPT ![n] = @ \cup {v}]
    /\ certs' = CertificatesOf(votes')

VotedOn == {v \in Vote : v.slot > Genesis.slot /\ (v.id # NoId => BlockOf(v) \in DOMAIN Parent)}

Next == \E n \in Correct, v \in VotedOn : Cast(n, v)

Spec == Init /\ [][Next]_vars

-----------------------------------------------------------------------------

(***************************************************************************)
(* The quorums of the cluster agree, which the consensus pool relies on    *)
(* (module ConsensusPool): two blocks of a slot are never both notarized,  *)
(* and of a finalized slot neither a skip certificate nor a certificate of *)
(* another block exists, though the fallback votes let a validator sign    *)
(* for several blocks of a slot.                                           *)
(***************************************************************************)
QuorumsAgree == Agreed(certs)

(***************************************************************************)
(* A finalized block stays on the chain: every block that is certified in  *)
(* its slot or later, and so every block that is finalized later, descends *)
(* from it, also when leaders build on different parents, slots are        *)
(* skipped, and validators add fallback votes for blocks they did not      *)
(* vote for.                                                               *)
(***************************************************************************)
IsFinal(b) ==
    \/ Cert("FinalizeFast", Notarize(b)) \in certs
    \/ Finalize(b.slot) \in certs /\ b \in Notarized

(***************************************************************************)
(* b is o or a block below it: every set of blocks that contains o and the *)
(* parents of its members contains b.                                      *)
(***************************************************************************)
OnChain(b, o) ==
    \A S \in SUBSET (DOMAIN Parent \cup {Genesis}) :
        o \in S /\ (\A c \in S \cap DOMAIN Parent : Parent[c] \in S) => b \in S

FinalizedOnOneChain ==
    \A b, o \in DOMAIN Parent :
        IsFinal(b) /\ NotarizeFallback(o) \in certs /\ b.slot <= o.slot => OnChain(b, o)
=============================================================================
