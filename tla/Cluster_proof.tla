--------------------------- MODULE Cluster_proof ---------------------------
(***************************************************************************)
(* Proofs about Cluster, for any validators and stakes, any tree of blocks *)
(* and any length of a leader window.                                      *)
(***************************************************************************)
EXTENDS Cluster, FiniteSetTheorems, WellFoundedInduction, TLAPS

Total == Stake[Validators]

-----------------------------------------------------------------------------
(* Stake *)

LEMMA StakeType ==
    /\ \A A \in SUBSET Validators : Stake[A] \in Nat
    /\ Correct \subseteq Validators /\ Faulty \subseteq Validators
    /\ 5 * Stake[Faulty] < Total
    /\ \A A, B \in SUBSET Validators :
           A \cap B = {} => Stake[A \cup B] = Stake[A] + Stake[B]
  BY StakeAssumption, FaultAssumption DEF Faulty, Total

LEMMA StakeSubset ==
    ASSUME NEW B \in SUBSET Validators, NEW A \in SUBSET B
    PROVE  Stake[A] <= Stake[B]
<1>1. A \cup (B \ A) = B /\ A \cap (B \ A) = {}
  OBVIOUS
<1>2. Stake[B] = Stake[A] + Stake[B \ A]
  BY Zenon, <1>1, StakeType
<1> QED
  BY <1>2, StakeType

\* Sets of correct validators and the faulty ones share the total stake.
LEMMA StakeDisjoint ==
    ASSUME NEW A \in SUBSET Correct, NEW B \in SUBSET Correct, A \cap B = {}
    PROVE  Stake[A] + Stake[B] + Stake[Faulty] <= Total
<1>1. Stake[A \cup B] = Stake[A] + Stake[B]
  BY StakeType
<1>2. Stake[(A \cup B) \cup Faulty] = Stake[A \cup B] + Stake[Faulty]
  BY Zenon, StakeType DEF Faulty
<1>3. Stake[(A \cup B) \cup Faulty] <= Total
  BY StakeSubset, StakeType DEF Total
<1> QED
  BY <1>1, <1>2, <1>3, StakeType

\* A set of correct validators, with faulty ones.
LEMMA StakeWithFaulty ==
    ASSUME NEW A \in SUBSET Correct, NEW F \in SUBSET Faulty
    PROVE  /\ Stake[A \cup F] = Stake[A] + Stake[F]
           /\ Stake[F \cup A] = Stake[A] + Stake[F]
           /\ Stake[F] + Stake[Faulty \ F] = Stake[Faulty]
<1>1. A \cap F = {} /\ F \cap (Faulty \ F) = {}
      /\ F \cup (Faulty \ F) = Faulty /\ F \cup A = A \cup F
  BY DEF Faulty
<1> QED
  BY Zenon, <1>1, StakeType

LEMMA StakeEmpty == Stake[{}] = 0
<1>1. Stake[{} \cup {}] = Stake[{}] + Stake[{}]
  BY Zenon, StakeType
<1> QED
  BY <1>1, StakeType

-----------------------------------------------------------------------------
(* Votes and certificates *)

N(b) == By(votes, Notarize(b))

Fallback(b) == By(votes, NotarizeFallback(b))

Skippers(s) == By(votes, Skip(s))

LateSkippers(s) == By(votes, SkipFallback(s))

LEMMA BlockShape ==
    /\ \A b \in Block : b.slot \in Slot /\ b.id \in Ids /\ b.id # NoId
    /\ \A b \in Block : BlockOf(Notarize(b)) = b /\ BlockOf(NotarizeFallback(b)) = b
    /\ \A b, o \in Block : b.slot = o.slot /\ b.id = o.id => b = o
  BY WindowAssumption DEF Block, BlockOf, Notarize, NotarizeFallback

\* The certificates are those with the stake that their kind asks for.
CertMeans(vs, cs) ==
    /\ \A b \in Block :
         /\ Notarize(b) \in cs <=>
                AtLeast(Stake[By(vs, Notarize(b))] + Stake[Faulty], 60)
         /\ NotarizeFallback(b) \in cs <=>
                AtLeast(Stake[By(vs, Notarize(b)) \cup By(vs, NotarizeFallback(b))]
                            + Stake[Faulty], 60)
         /\ Cert("FinalizeFast", Notarize(b)) \in cs <=>
                AtLeast(Stake[By(vs, Notarize(b))] + Stake[Faulty], 80)
    /\ \A s \in Slot :
         /\ Finalize(s) \in cs <=> AtLeast(Stake[By(vs, Finalize(s))] + Stake[Faulty], 60)
         /\ Skip(s) \in cs <=>
                AtLeast(Stake[By(vs, Skip(s)) \cup By(vs, SkipFallback(s))]
                            + Stake[Faulty], 60)

LEMMA Certified ==
    ASSUME NEW vs
    PROVE  CertMeans(vs, CertificatesOf(vs))
<1>0. Faulty \in SUBSET Faulty /\ \A v : By(vs, v) \in SUBSET Correct
  BY DEF By
<1>1. ASSUME NEW b \in Block
      PROVE  /\ Notarize(b) \in CertType
             /\ NotarizeFallback(b) \in CertType
             /\ Cert("FinalizeFast", Notarize(b)) \in CertType
  BY DEF CertType, Vote, Notarize, NotarizeFallback
<1>2. ASSUME NEW s \in Slot
      PROVE  Finalize(s) \in CertType /\ Skip(s) \in CertType
  BY DEF CertType, Vote, Finalize, Skip
<1>3. ASSUME NEW b \in Block
      PROVE  /\ Signers(vs, Notarize(b)) = Faulty \cup By(vs, Notarize(b))
             /\ Signers(vs, NotarizeFallback(b)) =
                    Faulty \cup (By(vs, Notarize(b)) \cup By(vs, NotarizeFallback(b)))
             /\ Signers(vs, Cert("FinalizeFast", Notarize(b))) =
                    Faulty \cup By(vs, Notarize(b))
  <2>1. /\ Cert("Notarize", Notarize(b)) = Notarize(b)
        /\ Cert("Notarize", NotarizeFallback(b)) = Notarize(b)
        /\ Notarize(b).type = "Notarize"
        /\ NotarizeFallback(b).type = "NotarizeFallback"
        /\ Cert("FinalizeFast", Notarize(b)).type = "FinalizeFast"
    BY DEF Cert, Notarize, NotarizeFallback
  <2>2. /\ "NotarizeFallback" \notin {"Notarize", "FinalizeFast"}
        /\ "Notarize" \in {"Notarize", "FinalizeFast"}
        /\ "FinalizeFast" \in {"Notarize", "FinalizeFast"}
    OBVIOUS
  <2>3. Signers(vs, Notarize(b)) = Faulty \cup By(vs, Notarize(b))
    BY <2>1, <2>2 DEF Signers
  <2>4. Signers(vs, NotarizeFallback(b)) =
            Faulty \cup (By(vs, Notarize(b)) \cup By(vs, NotarizeFallback(b)))
    BY <2>1, <2>2 DEF Signers
  <2>5. Signers(vs, Cert("FinalizeFast", Notarize(b))) = Faulty \cup By(vs, Notarize(b))
    <3> DEFINE fast == [type |-> "FinalizeFast", slot |-> b.slot, id |-> b.id]
    <3>1. Cert("FinalizeFast", Notarize(b)) = fast
      BY DEF Cert, Notarize
    <3>2. Cert("Notarize", fast) = Notarize(b) /\ fast.type = "FinalizeFast"
      BY DEF Cert, Notarize
    <3> HIDE DEF fast
    <3> QED
      BY <3>1, <3>2, <2>2 DEF Signers
  <2> QED
    BY <2>3, <2>4, <2>5
<1>4. ASSUME NEW s \in Slot
      PROVE  /\ Signers(vs, Finalize(s)) = Faulty \cup By(vs, Finalize(s))
             /\ Signers(vs, Skip(s)) =
                    Faulty \cup (By(vs, Skip(s)) \cup By(vs, SkipFallback(s)))
  <2>1. Finalize(s).type = "Finalize" /\ Skip(s).type = "Skip" /\ Skip(s).slot = s
    BY DEF Finalize, Skip
  <2> QED
    BY <2>1 DEF Signers
<1>5. ASSUME NEW c \in CertType, NEW A \in SUBSET Correct, Signers(vs, c) = Faulty \cup A
      PROVE  c \in CertificatesOf(vs) <=>
                 AtLeast(Stake[A] + Stake[Faulty], IF c.type = "FinalizeFast" THEN 80 ELSE 60)
  BY Zenon, <1>0, <1>5, StakeWithFaulty DEF CertificatesOf, Meets
<1>6. ASSUME NEW b \in Block
      PROVE  /\ Notarize(b).type # "FinalizeFast"
             /\ NotarizeFallback(b).type # "FinalizeFast"
             /\ Cert("FinalizeFast", Notarize(b)).type = "FinalizeFast"
  BY DEF Cert, Notarize, NotarizeFallback
<1>7. ASSUME NEW s \in Slot
      PROVE  Finalize(s).type # "FinalizeFast" /\ Skip(s).type # "FinalizeFast"
  BY DEF Finalize, Skip
<1>8. ASSUME NEW b \in Block
      PROVE  /\ Notarize(b) \in CertificatesOf(vs) <=>
                AtLeast(Stake[By(vs, Notarize(b))] + Stake[Faulty], 60)
             /\ NotarizeFallback(b) \in CertificatesOf(vs) <=>
                AtLeast(Stake[By(vs, Notarize(b)) \cup By(vs, NotarizeFallback(b))]
                            + Stake[Faulty], 60)
             /\ Cert("FinalizeFast", Notarize(b)) \in CertificatesOf(vs) <=>
                AtLeast(Stake[By(vs, Notarize(b))] + Stake[Faulty], 80)
  <2>1. /\ By(vs, Notarize(b)) \in SUBSET Correct
        /\ By(vs, Notarize(b)) \cup By(vs, NotarizeFallback(b)) \in SUBSET Correct
    BY <1>0
  <2> QED
    BY <2>1, <1>1, <1>3, <1>5, <1>6
<1>9. ASSUME NEW s \in Slot
      PROVE  /\ Finalize(s) \in CertificatesOf(vs) <=>
                    AtLeast(Stake[By(vs, Finalize(s))] + Stake[Faulty], 60)
             /\ Skip(s) \in CertificatesOf(vs) <=>
                AtLeast(Stake[By(vs, Skip(s)) \cup By(vs, SkipFallback(s))]
                            + Stake[Faulty], 60)
  <2>1. /\ By(vs, Finalize(s)) \in SUBSET Correct
        /\ By(vs, Skip(s)) \cup By(vs, SkipFallback(s)) \in SUBSET Correct
    BY <1>0
  <2> QED
    BY <2>1, <1>2, <1>4, <1>5, <1>7
<1> QED
  BY <1>8, <1>9 DEF CertMeans

-----------------------------------------------------------------------------
(* The inductive invariant *)

(***************************************************************************)
(* What the votes of a correct validator say: one first vote per slot, and *)
(* a vote to finalize stands alone beside the vote for the notarized block.*)
(***************************************************************************)
Disciplined(mine) ==
    /\ \A b, o \in Block :
           Notarize(b) \in mine /\ Notarize(o) \in mine /\ b.slot = o.slot => b = o
    /\ \A b \in Block : Notarize(b) \in mine => Skip(b.slot) \notin mine
    /\ \A s \in Slot : Finalize(s) \in mine =>
           /\ \E b \in Notarized : b.slot = s /\ Notarize(b) \in mine
           /\ Skip(s) \notin mine /\ SkipFallback(s) \notin mine
           /\ \A b \in Block : b.slot = s => NotarizeFallback(b) \notin mine

(***************************************************************************)
(* What was true when it cast a vote, and stays true as votes are added.   *)
(***************************************************************************)
Justified(mine) ==
    /\ \A b \in Block : Notarize(b) \in mine =>
           /\ b \in DOMAIN Parent /\ b.slot > Genesis.slot
           /\ FirstInWindow(b.slot) => ReadyFor(b)
           /\ Extends(mine, b)
    /\ \A b \in Block : NotarizeFallback(b) \in mine => SafeToNotar(b)
    /\ \A s \in Slot : SkipFallback(s) \in mine => SafeToSkip(s)

VotesOk ==
    /\ votes \in [Correct -> SUBSET VotedOn]
    /\ certs = CertificatesOf(votes)

IInv == VotesOk /\ \A n \in Correct : Disciplined(votes[n]) /\ Justified(votes[n])

\* What the certificates and the sets of voters of the current state are.
LEMMA Sets ==
    ASSUME VotesOk
    PROVE  /\ CertMeans(votes, certs)
           /\ \A b \in Block : N(b) \in SUBSET Correct /\ Fallback(b) \in SUBSET Correct
           /\ \A s \in Slot : Skippers(s) \in SUBSET Correct /\ LateSkippers(s) \in SUBSET Correct
           /\ \A v : By(votes, v) \in SUBSET Correct
           /\ Notarized = {b \in DOMAIN Parent : Notarize(b) \in certs}
<1>1. CertMeans(votes, certs)
  BY Certified DEF VotesOk
<1> QED
  BY <1>1 DEF N, Fallback, Skippers, LateSkippers, By, Notarized

\* With more votes there is more stake behind everything.
LEMMA Monotone ==
    ASSUME NEW A \in SUBSET Correct, NEW B \in SUBSET Correct, A \subseteq B, NEW p \in Nat,
           AtLeast(Stake[A] + Stake[Faulty], p)
    PROVE  AtLeast(Stake[B] + Stake[Faulty], p)
<1>1. Stake[A] <= Stake[B] /\ Stake[A] \in Nat /\ Stake[B] \in Nat /\ Stake[Faulty] \in Nat
  BY StakeType, StakeSubset
<1>2. Stake[Validators] \in Nat
  BY StakeType
<1> QED
  BY <1>1, <1>2 DEF AtLeast

\* What EnoughToNotar asks of the stakes, when the faulty ones of F are
\* counted for the block and the others as skips.
Enough(n, k, f) ==
    \/ AtLeast(n + f, 40)
    \/ AtLeast(n + f, 20) /\ AtLeast(k + Stake[Faulty] - f + (n + f), 60)

LEMMA EnoughMeans ==
    ASSUME VotesOk, NEW b \in Block, NEW F \in SUBSET Faulty
    PROVE  EnoughToNotar(Seen(b, F), b.id) <=>
               Enough(Stake[N(b)], Stake[Skippers(b.slot)], Stake[F])
<1> DEFINE sk == Stake[By(votes, Skip(b.slot)) \cup (Faulty \ F)]
           no == Stake[By(votes, Notarize(b)) \cup F]
<1>1. Seen(b, F).skip_total = sk /\ Seen(b, F).notarize_entry_total[b.id] = no
  <2>1. Seen(b, F).skip_total = sk
    BY DEF Seen
  <2>2. Seen(b, F).notarize_entry_total = [i \in {b.id} |-> no]
    BY DEF Seen
  <2> HIDE DEF sk, no
  <2> QED
    BY <2>1, <2>2
<1>2. N(b) \in SUBSET Correct /\ Skippers(b.slot) \in SUBSET Correct
  BY Sets, BlockShape
<1>3. /\ no = Stake[N(b)] + Stake[F]
      /\ sk = Stake[Skippers(b.slot)] + Stake[Faulty \ F]
      /\ Stake[F] + Stake[Faulty \ F] = Stake[Faulty]
  BY Zenon, <1>2, StakeWithFaulty DEF N, Skippers
<1>4. /\ Stake[N(b)] \in Nat /\ Stake[F] \in Nat /\ Stake[Faulty] \in Nat
      /\ Stake[Faulty \ F] \in Nat /\ Stake[Skippers(b.slot)] \in Nat
  BY <1>2, StakeType
<1> HIDE DEF sk, no
<1>5. EnoughToNotar(Seen(b, F), b.id) <=>
          AtLeast(no, 40) \/ (AtLeast(no, 20) /\ AtLeast(sk + no, 60))
  BY <1>1 DEF EnoughToNotar
<1>6. sk + no = Stake[Skippers(b.slot)] + Stake[Faulty] - Stake[F] + (Stake[N(b)] + Stake[F])
  BY <1>3, <1>4
<1> QED
  BY <1>3, <1>5, <1>6 DEF Enough

-----------------------------------------------------------------------------
(* The invariant is inductive *)

\* As votes are added, certificates and justifications stay.
LEMMA Growing ==
    ASSUME VotesOk, VotesOk', \A n \in Correct : votes[n] \subseteq votes'[n]
    PROVE  /\ \A b \in Block : Notarize(b) \in certs => Notarize(b) \in certs'
           /\ Notarized \subseteq Notarized'
           /\ \A b \in DOMAIN Parent : ReadyFor(b) => ReadyFor(b)'
           /\ \A b \in DOMAIN Parent : SafeToNotar(b) => SafeToNotar(b)'
           /\ \A s \in Slot : SafeToSkip(s) => SafeToSkip(s)'
<1>1. CertMeans(votes, certs) /\ CertMeans(votes', certs')
  BY Certified DEF VotesOk
<1>2. \A v : /\ By(votes, v) \subseteq By(votes', v)
             /\ By(votes, v) \in SUBSET Correct /\ By(votes', v) \in SUBSET Correct
  BY DEF By
<1>3. ASSUME NEW b \in Block
      PROVE  /\ Notarize(b) \in certs => Notarize(b) \in certs'
             /\ NotarizeFallback(b) \in certs => NotarizeFallback(b) \in certs'
  <2>1. Notarize(b) \in certs => Notarize(b) \in certs'
    <3>1. /\ Notarize(b) \in certs <=> AtLeast(Stake[By(votes, Notarize(b))] + Stake[Faulty], 60)
          /\ Notarize(b) \in certs' <=> AtLeast(Stake[By(votes', Notarize(b))] + Stake[Faulty], 60)
      BY Zenon, <1>1 DEF CertMeans
    <3> QED
      BY <3>1, <1>2, Monotone
  <2> DEFINE A == By(votes, Notarize(b)) \cup By(votes, NotarizeFallback(b))
             B == By(votes', Notarize(b)) \cup By(votes', NotarizeFallback(b))
  <2>2. A \in SUBSET Correct /\ B \in SUBSET Correct /\ A \subseteq B
    BY <1>2
  <2>3. /\ NotarizeFallback(b) \in certs <=> AtLeast(Stake[A] + Stake[Faulty], 60)
        /\ NotarizeFallback(b) \in certs' <=> AtLeast(Stake[B] + Stake[Faulty], 60)
    BY <1>1 DEF CertMeans
  <2> HIDE DEF A, B
  <2> QED
    BY <2>1, <2>2, <2>3, Monotone
<1>4. ASSUME NEW s \in Slot, Skip(s) \in certs
      PROVE  Skip(s) \in certs'
  <2> DEFINE A == By(votes, Skip(s)) \cup By(votes, SkipFallback(s))
             B == By(votes', Skip(s)) \cup By(votes', SkipFallback(s))
  <2>1. A \in SUBSET Correct /\ B \in SUBSET Correct /\ A \subseteq B
    BY <1>2
  <2>2. /\ Skip(s) \in certs <=> AtLeast(Stake[A] + Stake[Faulty], 60)
        /\ Skip(s) \in certs' <=> AtLeast(Stake[B] + Stake[Faulty], 60)
    BY <1>1 DEF CertMeans
  <2> HIDE DEF A, B
  <2> QED
    BY <1>4, <2>1, <2>2, Monotone
<1>5. Notarized \subseteq Notarized'
  BY <1>3, TreeAssumption DEF Notarized
<1>6. ASSUME NEW b \in DOMAIN Parent
      PROVE  /\ b \in Block /\ Parent[b] \in Block /\ b.slot \in Slot /\ Parent[b].slot \in Slot
             /\ \A s \in (Parent[b].slot + 1)..(b.slot - 1) : s \in Slot
  <2>1. b \in Block /\ Parent[b] \in Block
    BY TreeAssumption
  <2>2. b.slot \in Slot /\ Parent[b].slot \in Slot
    BY <2>1, BlockShape
  <2> QED
    BY <2>1, <2>2, WindowAssumption DEF Slot
<1>7. ASSUME NEW b \in DOMAIN Parent, ReadyFor(b)
      PROVE  ReadyFor(b)'
  BY <1>3, <1>4, <1>6, <1>7 DEF ReadyFor
<1>8. ASSUME NEW b \in DOMAIN Parent, SafeToNotar(b)
      PROVE  SafeToNotar(b)'
  <2>1. FirstInWindow(b.slot) \/ NotarizeFallback(Parent[b]) \in certs'
    BY <1>3, <1>6, <1>8 DEF SafeToNotar
  <2>2. PICK F \in SUBSET Faulty : EnoughToNotar(Seen(b, F), b.id)
    BY <1>8 DEF SafeToNotar
  <2> DEFINE Sk(vs) == Stake[By(vs, Skip(b.slot)) \cup (Faulty \ F)]
             No(vs) == Stake[By(vs, Notarize(b)) \cup F]
             Is(vs) == \/ AtLeast(No(vs), 40)
                       \/ AtLeast(No(vs), 20) /\ AtLeast(Sk(vs) + No(vs), 60)
  <2>3. EnoughToNotar(Seen(b, F), b.id) <=> Is(votes)
    BY DEF EnoughToNotar, Seen
  <2>4. EnoughToNotar(Seen(b, F)', b.id) <=> Is(votes')
    BY DEF EnoughToNotar, Seen
  <2>5. /\ Sk(votes) <= Sk(votes') /\ No(votes) <= No(votes')
        /\ Sk(votes) \in Nat /\ Sk(votes') \in Nat /\ No(votes) \in Nat /\ No(votes') \in Nat
    <3>1. /\ By(votes', Skip(b.slot)) \cup (Faulty \ F) \in SUBSET Validators
          /\ By(votes', Notarize(b)) \cup F \in SUBSET Validators
          /\ By(votes, Skip(b.slot)) \cup (Faulty \ F)
                 \in SUBSET (By(votes', Skip(b.slot)) \cup (Faulty \ F))
          /\ By(votes, Notarize(b)) \cup F \in SUBSET (By(votes', Notarize(b)) \cup F)
      BY <1>2, StakeType
    <3>2. /\ By(votes, Skip(b.slot)) \cup (Faulty \ F) \in SUBSET Validators
          /\ By(votes, Notarize(b)) \cup F \in SUBSET Validators
      BY <1>2, StakeType
    <3> QED
      BY <3>1, <3>2, StakeSubset, StakeType
  <2> HIDE DEF Sk, No
  <2>6. Stake[Validators] \in Nat
    BY StakeType
  <2>7. Is(votes')
    BY <2>2, <2>3, <2>5, <2>6 DEF AtLeast
  <2> QED
    BY <2>1, <2>4, <2>7 DEF SafeToNotar
<1>9. ASSUME NEW s \in Slot, SafeToSkip(s)
      PROVE  SafeToSkip(s)'
  <2> SUFFICES ASSUME NEW b \in Block, b.slot = s
               PROVE  AtLeast(Stake[NotFor(b)' \cup Faulty], 40)
    BY DEF SafeToSkip
  <2>1. NotFor(b) \subseteq NotFor(b)' /\ NotFor(b)' \in SUBSET Correct
    BY <1>2 DEF NotFor
  <2>2. /\ NotFor(b) \cup Faulty \in SUBSET (NotFor(b)' \cup Faulty)
        /\ NotFor(b)' \cup Faulty \in SUBSET Validators
        /\ NotFor(b) \cup Faulty \in SUBSET Validators
    BY <2>1, StakeType
  <2>3. AtLeast(Stake[NotFor(b) \cup Faulty], 40)
    BY <1>9 DEF SafeToSkip
  <2>4. /\ Stake[NotFor(b) \cup Faulty] <= Stake[NotFor(b)' \cup Faulty]
        /\ Stake[NotFor(b) \cup Faulty] \in Nat /\ Stake[NotFor(b)' \cup Faulty] \in Nat
        /\ Stake[Validators] \in Nat
    BY <2>2, StakeSubset, StakeType
  <2> QED
    BY <2>3, <2>4 DEF AtLeast
<1> QED
  BY <1>3, <1>5, <1>7, <1>8, <1>9

\* What the rules of VotingRules say of a vote about to be cast.
Allowed(mine, v, certified) ==
    \/ \E b \in Block :
         /\ v = Notarize(b) /\ b \in DOMAIN Parent /\ b.slot > Genesis.slot
         /\ Skip(b.slot) \notin mine
         /\ \A o \in Block : o.slot = b.slot => Notarize(o) \notin mine
         /\ Extends(mine, b)
    \/ \E s \in Slot :
         /\ v = Skip(s)
         /\ \A o \in Block : o.slot = s => Notarize(o) \notin mine
    \/ \E b \in Block :
         /\ v = NotarizeFallback(b) /\ b \in DOMAIN Parent
         /\ Finalize(b.slot) \notin mine
    \/ \E s \in Slot : v = SkipFallback(s) /\ Finalize(s) \notin mine
    \/ \E s \in Slot :
         /\ v = Finalize(s)
         /\ \E b \in certified : b.slot = s /\ Notarize(b) \in mine
         /\ Skip(s) \notin mine /\ SkipFallback(s) \notin mine
         /\ \A b \in Block : b.slot = s => NotarizeFallback(b) \notin mine

LEMMA Rules ==
    ASSUME NEW mine \in SUBSET VotedOn, NEW certified, NEW v \in VotedOn,
           MayCast(mine, v, certified)
    PROVE  Allowed(mine, v, certified)
<1>1. ASSUME NEW types, NEW s, ~HasCast(mine, s, types), NEW w \in mine, w.slot = s
      PROVE  w.type \notin types
  BY <1>1 DEF HasCast, InSlot
<1>2. CASE \E b \in Block : v = Notarize(b)
  <2>1. PICK b \in Block : v = Notarize(b)
    BY <1>2
  <2>2. v.type = "Notarize" /\ v.slot = b.slot /\ v.id = b.id /\ BlockOf(v) = b
    BY <2>1, BlockShape DEF Notarize
  <2>3. ~HasCast(mine, b.slot, FirstVoteTypes) /\ Extends(mine, b)
    BY <2>2 DEF MayCast
  <2>4. b \in DOMAIN Parent /\ b.slot > Genesis.slot
    BY <2>2, BlockShape DEF VotedOn
  <2>5. Skip(b.slot) \notin mine
    BY <2>3, <1>1 DEF Skip, FirstVoteTypes
  <2>6. \A o \in Block : o.slot = b.slot => Notarize(o) \notin mine
    BY <2>3, <1>1 DEF Notarize, FirstVoteTypes
  <2> QED
    BY <2>1, <2>3, <2>4, <2>5, <2>6 DEF Allowed
<1>3. CASE \E s \in Slot : v = Skip(s)
  <2>1. PICK s \in Slot : v = Skip(s)
    BY <1>3
  <2>2. v.type = "Skip" /\ v.slot = s
    BY <2>1 DEF Skip
  <2>3. ~HasCast(mine, s, FirstVoteTypes)
    BY <2>2 DEF MayCast
  <2>4. \A o \in Block : o.slot = s => Notarize(o) \notin mine
    BY <2>3, <1>1 DEF Notarize, FirstVoteTypes
  <2> QED
    BY <2>1, <2>4 DEF Allowed
<1>4. CASE \E b \in Block : v = NotarizeFallback(b)
  <2>1. PICK b \in Block : v = NotarizeFallback(b)
    BY <1>4
  <2>2. v.type = "NotarizeFallback" /\ v.slot = b.slot /\ v.id = b.id /\ BlockOf(v) = b
    BY <2>1, BlockShape DEF NotarizeFallback
  <2>3. ~HasCast(mine, b.slot, {"Finalize"})
    BY <2>2 DEF MayCast
  <2>4. b \in DOMAIN Parent
    BY <2>2, BlockShape DEF VotedOn
  <2>5. Finalize(b.slot) \notin mine
    BY <2>3, <1>1 DEF Finalize
  <2> QED
    BY <2>1, <2>4, <2>5 DEF Allowed
<1>5. CASE \E s \in Slot : v = SkipFallback(s)
  <2>1. PICK s \in Slot : v = SkipFallback(s)
    BY <1>5
  <2>2. v.type = "SkipFallback" /\ v.slot = s
    BY <2>1 DEF SkipFallback
  <2>3. ~HasCast(mine, s, {"Finalize"})
    BY <2>2 DEF MayCast
  <2>4. Finalize(s) \notin mine
    BY <2>3, <1>1 DEF Finalize
  <2> QED
    BY <2>1, <2>4 DEF Allowed
<1>6. CASE \E s \in Slot : v = Finalize(s)
  <2>1. PICK s \in Slot : v = Finalize(s)
    BY <1>6
  <2>2. v.type = "Finalize" /\ v.slot = s
    BY <2>1 DEF Finalize
  <2>3. /\ \E b \in certified : b.slot = s /\ Notarize(b) \in mine
        /\ ~HasCast(mine, s, {"Skip", "NotarizeFallback", "SkipFallback"})
    BY <2>2 DEF MayCast, OnlyNotarized
  <2>4. Skip(s) \notin mine /\ SkipFallback(s) \notin mine
    BY <2>3, <1>1 DEF Skip, SkipFallback
  <2>5. \A b \in Block : b.slot = s => NotarizeFallback(b) \notin mine
    BY <2>3, <1>1 DEF NotarizeFallback
  <2> QED
    BY <2>1, <2>3, <2>4, <2>5 DEF Allowed
<1> QED
  BY <1>2, <1>3, <1>4, <1>5, <1>6 DEF VotedOn, Vote

LEMMA Kinds ==
    /\ \A b, o \in Block : /\ Notarize(b) = Notarize(o) => b = o
                           /\ NotarizeFallback(b) = NotarizeFallback(o) => b = o
                           /\ Notarize(b) # NotarizeFallback(o)
    /\ \A b \in Block, s \in Slot :
           /\ Notarize(b) \notin {Skip(s), SkipFallback(s), Finalize(s)}
           /\ NotarizeFallback(b) \notin {Skip(s), SkipFallback(s), Finalize(s)}
    /\ \A s, t \in Slot :
           /\ Skip(s) = Skip(t) => s = t
           /\ SkipFallback(s) = SkipFallback(t) => s = t
           /\ Finalize(s) = Finalize(t) => s = t
           /\ Skip(s) # SkipFallback(t) /\ Skip(s) # Finalize(t) /\ SkipFallback(s) # Finalize(t)
<1>1. ASSUME NEW b \in Block, NEW o \in Block
      PROVE  /\ Notarize(b) = Notarize(o) => b = o
             /\ NotarizeFallback(b) = NotarizeFallback(o) => b = o
             /\ Notarize(b) # NotarizeFallback(o)
  <2>1. /\ Notarize(b).slot = b.slot /\ Notarize(b).id = b.id
        /\ Notarize(o).slot = o.slot /\ Notarize(o).id = o.id
    BY DEF Notarize
  <2>2. /\ NotarizeFallback(b).slot = b.slot /\ NotarizeFallback(b).id = b.id
        /\ NotarizeFallback(o).slot = o.slot /\ NotarizeFallback(o).id = o.id
    BY DEF NotarizeFallback
  <2>3. Notarize(b).type # NotarizeFallback(o).type
    BY DEF Notarize, NotarizeFallback
  <2> QED
    BY <2>1, <2>2, <2>3, BlockShape
<1>2. ASSUME NEW b \in Block, NEW s \in Slot
      PROVE  /\ Notarize(b) \notin {Skip(s), SkipFallback(s), Finalize(s)}
             /\ NotarizeFallback(b) \notin {Skip(s), SkipFallback(s), Finalize(s)}
  BY DEF Notarize, NotarizeFallback, Skip, SkipFallback, Finalize
<1>3. ASSUME NEW s \in Slot, NEW t \in Slot
      PROVE  /\ Skip(s) = Skip(t) => s = t
             /\ SkipFallback(s) = SkipFallback(t) => s = t
             /\ Finalize(s) = Finalize(t) => s = t
             /\ Skip(s) # SkipFallback(t) /\ Skip(s) # Finalize(t) /\ SkipFallback(s) # Finalize(t)
  BY DEF Skip, SkipFallback, Finalize
<1> QED
  BY <1>1, <1>2, <1>3

LEMMA InitIInv == Init => IInv
<1> SUFFICES ASSUME Init PROVE IInv
  OBVIOUS
<1>1. VotesOk
  BY DEF Init, VotesOk
<1>2. \A n \in Correct : votes[n] = {}
  BY DEF Init
<1> QED
  BY <1>1, <1>2 DEF IInv, Disciplined, Justified

LEMMA NextIInv ==
    ASSUME IInv, NEW n \in Correct, NEW v \in VotedOn, Cast(n, v)
    PROVE  IInv'
<1> DEFINE mine == votes[n]
           new == votes[n] \cup {v}
<1>1. /\ votes \in [Correct -> SUBSET VotedOn] /\ VotesOk
      /\ \A m \in Correct : Disciplined(votes[m]) /\ Justified(votes[m])
  BY DEF IInv, VotesOk
<1>2. /\ votes' \in [Correct -> SUBSET VotedOn]
      /\ votes'[n] = new
      /\ \A m \in Correct \ {n} : votes'[m] = votes[m]
  BY <1>1 DEF Cast
<1>3. VotesOk'
  BY <1>2 DEF VotesOk, Cast
<1>4. \A m \in Correct : votes[m] \subseteq votes'[m]
  BY <1>2
<1>5. /\ Notarized \subseteq Notarized'
      /\ \A b \in DOMAIN Parent : ReadyFor(b) => ReadyFor(b)'
      /\ \A b \in DOMAIN Parent : SafeToNotar(b) => SafeToNotar(b)'
      /\ \A s \in Slot : SafeToSkip(s) => SafeToSkip(s)'
  BY <1>1, <1>3, <1>4, Growing
<1>6. mine \in SUBSET VotedOn /\ Disciplined(mine) /\ Justified(mine)
  BY <1>1
<1>7. MayCast(mine, v, Notarized)
  BY DEF Cast
<1> DEFINE
    IsNotarize(b) ==
        /\ v = Notarize(b) /\ b \in DOMAIN Parent /\ b.slot > Genesis.slot
        /\ Skip(b.slot) \notin mine
        /\ \A o \in Block : o.slot = b.slot => Notarize(o) \notin mine
        /\ Extends(mine, b)
    IsSkip(s) ==
        /\ v = Skip(s)
        /\ \A o \in Block : o.slot = s => Notarize(o) \notin mine
    IsFallback(b) ==
        /\ v = NotarizeFallback(b) /\ b \in DOMAIN Parent
        /\ Finalize(b.slot) \notin mine
    IsSkipFallback(s) == v = SkipFallback(s) /\ Finalize(s) \notin mine
    IsFinalize(s) ==
        /\ v = Finalize(s)
        /\ \E b \in Notarized : b.slot = s /\ Notarize(b) \in mine
        /\ Skip(s) \notin mine /\ SkipFallback(s) \notin mine
        /\ \A b \in Block : b.slot = s => NotarizeFallback(b) \notin mine
<1>8. \/ \E b \in Block : IsNotarize(b)
      \/ \E s \in Slot : IsSkip(s)
      \/ \E b \in Block : IsFallback(b)
      \/ \E s \in Slot : IsSkipFallback(s)
      \/ \E s \in Slot : IsFinalize(s)
  <2> HIDE DEF mine
  <2>1. Allowed(mine, v, Notarized)
    BY <1>6, <1>7, Rules
  <2> QED
    BY <2>1 DEF Allowed
\* One vote at a time: its kind decides which clause it can disturb.
<1>9. \A b, o \in Block :
          Notarize(b) \in new /\ Notarize(o) \in new /\ b.slot = o.slot => b = o
  BY <1>6, <1>8, Kinds DEF Disciplined
<1>10. \A b \in Block : Notarize(b) \in new => Skip(b.slot) \notin new
  BY <1>6, <1>8, Kinds, BlockShape DEF Disciplined
<1>11. \A s \in Slot : Finalize(s) \in new =>
           /\ \E b \in Notarized : b.slot = s /\ Notarize(b) \in new
           /\ Skip(s) \notin new /\ SkipFallback(s) \notin new
           /\ \A b \in Block : b.slot = s => NotarizeFallback(b) \notin new
  <2> SUFFICES ASSUME NEW s \in Slot, Finalize(s) \in new
               PROVE  /\ \E b \in Notarized : b.slot = s /\ Notarize(b) \in new
                      /\ Skip(s) \notin new /\ SkipFallback(s) \notin new
                      /\ \A b \in Block : b.slot = s => NotarizeFallback(b) \notin new
    OBVIOUS
  <2>1. CASE v = Finalize(s)
    <3>1. IsFinalize(s)
      BY <2>1, <1>8, Kinds
    <3> QED
      BY <3>1, <2>1, Kinds
  <2>2. CASE v # Finalize(s)
    <3>1. Finalize(s) \in mine
      BY <2>2
    <3>2. /\ \E b \in Notarized : b.slot = s /\ Notarize(b) \in mine
          /\ Skip(s) \notin mine /\ SkipFallback(s) \notin mine
          /\ \A b \in Block : b.slot = s => NotarizeFallback(b) \notin mine
      BY <3>1, <1>6 DEF Disciplined
    <3>3. \E b \in Block : b.slot = s /\ Notarize(b) \in mine
      BY <3>2, TreeAssumption DEF Notarized
    <3>4. v # Skip(s) /\ v # SkipFallback(s)
      BY <3>1, <3>3, <1>8, Kinds
    <3>5. \A b \in Block : b.slot = s => v # NotarizeFallback(b)
      BY <3>1, <1>8, Kinds
    <3> QED
      BY <3>2, <3>4, <3>5
  <2> QED
    BY <2>1, <2>2
<1>12. \A b \in Block : Extends(mine, b) => Extends(new, b)
  BY DEF Extends
<1>13. \A b \in Block : Notarize(b) \in new =>
           /\ b \in DOMAIN Parent /\ b.slot > Genesis.slot
           /\ FirstInWindow(b.slot) => ReadyFor(b)
           /\ Extends(new, b)
  <2> SUFFICES ASSUME NEW b \in Block, Notarize(b) \in new
               PROVE  /\ b \in DOMAIN Parent /\ b.slot > Genesis.slot
                      /\ FirstInWindow(b.slot) => ReadyFor(b)
                      /\ Extends(new, b)
    OBVIOUS
  <2>1. CASE v = Notarize(b)
    <3>1. IsNotarize(b)
      BY <2>1, <1>8, Kinds
    <3>2. v.type = "Notarize" /\ v.slot = b.slot /\ BlockOf(v) = b
      BY <2>1, BlockShape DEF Notarize
    <3>3. FirstInWindow(b.slot) => ReadyFor(b)
      BY <3>2 DEF Cast
    <3> QED
      BY <3>1, <3>3, <1>12
  <2>2. CASE Notarize(b) \in mine
    BY <2>2, <1>6, <1>12 DEF Justified
  <2> QED
    BY <2>1, <2>2
<1>14. \A b \in Block : NotarizeFallback(b) \in new => b \in DOMAIN Parent /\ SafeToNotar(b)
  <2> SUFFICES ASSUME NEW b \in Block, NotarizeFallback(b) \in new
               PROVE  b \in DOMAIN Parent /\ SafeToNotar(b)
    OBVIOUS
  <2>0. b \in DOMAIN Parent
    <3>1. NotarizeFallback(b) \in VotedOn
      BY <1>6
    <3>2. NotarizeFallback(b).id # NoId /\ BlockOf(NotarizeFallback(b)) = b
      BY BlockShape DEF NotarizeFallback
    <3> QED
      BY <3>1, <3>2 DEF VotedOn
  <2>1. CASE v = NotarizeFallback(b)
    <3>1. v.type = "NotarizeFallback" /\ BlockOf(v) = b
      BY <2>1, BlockShape DEF NotarizeFallback
    <3> QED
      BY <2>0, <3>1 DEF Cast
  <2>2. CASE NotarizeFallback(b) \in mine
    BY <2>0, <2>2, <1>6 DEF Justified
  <2> QED
    BY <2>1, <2>2
<1>15. \A s \in Slot : SkipFallback(s) \in new => SafeToSkip(s)
  <2> SUFFICES ASSUME NEW s \in Slot, SkipFallback(s) \in new
               PROVE  SafeToSkip(s)
    OBVIOUS
  <2>1. CASE v = SkipFallback(s)
    <3>1. v.type = "SkipFallback" /\ v.slot = s
      BY <2>1 DEF SkipFallback
    <3> QED
      BY <3>1 DEF Cast
  <2>2. CASE SkipFallback(s) \in mine
    BY <2>2, <1>6 DEF Justified
  <2> QED
    BY <2>1, <2>2
<1>16. Disciplined(new) /\ Justified(new)
  BY <1>9, <1>10, <1>11, <1>13, <1>14, <1>15 DEF Disciplined, Justified
\* The others did not vote, and their justifications stay.
<1>17. ASSUME NEW m \in Correct
       PROVE  Disciplined(votes'[m]) /\ Justified(votes'[m])
  BY <1>1, <1>2, <1>16
<1>18. ASSUME NEW m \in Correct
       PROVE  (Disciplined(votes[m]) /\ Justified(votes[m]))'
  <2> DEFINE w == votes'[m]
  <2>1. Disciplined(w) /\ Justified(w) /\ w \in SUBSET VotedOn
    BY <1>2, <1>17
  <2> HIDE DEF w
  <2>2. \A b \in Block : Notarize(b) \in w => b \in DOMAIN Parent
    BY <2>1 DEF Justified
  <2>3. \A b \in Block : NotarizeFallback(b) \in w => b \in DOMAIN Parent
    <3> SUFFICES ASSUME NEW b \in Block, NotarizeFallback(b) \in w
                 PROVE  b \in DOMAIN Parent
      OBVIOUS
    <3>1. NotarizeFallback(b).id # NoId /\ BlockOf(NotarizeFallback(b)) = b
      BY BlockShape DEF NotarizeFallback
    <3> QED
      BY <2>1, <3>1 DEF VotedOn
  <2>4. /\ \A b, o \in Block :
               Notarize(b) \in w /\ Notarize(o) \in w /\ b.slot = o.slot => b = o
        /\ \A b \in Block : Notarize(b) \in w => Skip(b.slot) \notin w
        /\ \A s \in Slot : Finalize(s) \in w =>
               /\ \E b \in Notarized' : b.slot = s /\ Notarize(b) \in w
               /\ Skip(s) \notin w /\ SkipFallback(s) \notin w
               /\ \A b \in Block : b.slot = s => NotarizeFallback(b) \notin w
    BY <2>1, <1>5 DEF Disciplined
  <2>5. /\ \A b \in Block : Notarize(b) \in w =>
               /\ b \in DOMAIN Parent /\ b.slot > Genesis.slot
               /\ FirstInWindow(b.slot) => ReadyFor(b)'
               /\ Extends(w, b)
        /\ \A b \in Block : NotarizeFallback(b) \in w => SafeToNotar(b)'
        /\ \A s \in Slot : SkipFallback(s) \in w => SafeToSkip(s)'
    BY <2>1, <2>2, <2>3, <1>5 DEF Justified
  <2>6. Disciplined(votes[m])'
    BY <2>4 DEF Disciplined, w
  <2>7. Justified(votes[m])'
    BY <2>5 DEF Justified, w
  <2> QED
    BY <2>6, <2>7
<1> QED
  BY <1>3, <1>18 DEF IInv

-----------------------------------------------------------------------------
(* What the certificates of a slot rule out *)

\* Two sets of correct validators that, each together with the faulty ones,
\* have shares of the stake that add up to 120% have a member in common.
LEMMA Overlap ==
    ASSUME NEW A \in SUBSET Correct, NEW B \in SUBSET Correct, A \cap B = {},
           NEW p \in Nat, NEW q \in Nat, p + q >= 120,
           AtLeast(Stake[A] + Stake[Faulty], p), AtLeast(Stake[B] + Stake[Faulty], q)
    PROVE  FALSE
<1>1. Stake[A] + Stake[B] + Stake[Faulty] <= Total
  BY StakeDisjoint
<1>2. /\ Stake[A] \in Nat /\ Stake[B] \in Nat /\ Stake[Faulty] \in Nat /\ Total \in Nat
      /\ 5 * Stake[Faulty] < Total
  BY StakeType DEF Total
<1>3. 100 * (Stake[A] + Stake[Faulty]) >= p * Total /\ 100 * (Stake[B] + Stake[Faulty]) >= q * Total
  BY DEF AtLeast, Total
<1>4. p * Total + q * Total >= 120 * Total
  <2>1. p * Total + q * Total = (p + q) * Total
    BY <1>2
  <2>2. PICK d \in Nat : p + q = 120 + d
    <3>1. p + q - 120 \in Nat
      OBVIOUS
    <3> QED
      BY <3>1
  <2>3. (120 + d) * Total = 120 * Total + d * Total /\ d * Total \in Nat
    BY <1>2
  <2> QED
    BY <1>2, <2>1, <2>2, <2>3
<1>5. p * Total \in Nat /\ q * Total \in Nat
  BY <1>2
<1> QED
  BY <1>1, <1>2, <1>3, <1>4, <1>5

\* Stronger certificates come with the weaker ones.
LEMMA Weaker ==
    ASSUME VotesOk, NEW b \in Block
    PROVE  /\ Cert("FinalizeFast", Notarize(b)) \in certs => Notarize(b) \in certs
           /\ Notarize(b) \in certs => NotarizeFallback(b) \in certs
<1>1. /\ CertMeans(votes, certs)
      /\ N(b) \in SUBSET Correct /\ Fallback(b) \in SUBSET Correct
  BY Sets
<1>2. /\ Notarize(b) \in certs <=> AtLeast(Stake[N(b)] + Stake[Faulty], 60)
      /\ NotarizeFallback(b) \in certs <=>
             AtLeast(Stake[N(b) \cup Fallback(b)] + Stake[Faulty], 60)
      /\ Cert("FinalizeFast", Notarize(b)) \in certs <=>
             AtLeast(Stake[N(b)] + Stake[Faulty], 80)
  BY <1>1 DEF CertMeans, N, Fallback
<1>3. Stake[N(b)] \in Nat /\ Stake[Faulty] \in Nat /\ Stake[Validators] \in Nat
  BY <1>1, StakeType
<1>4. AtLeast(Stake[N(b)] + Stake[Faulty], 80) => AtLeast(Stake[N(b)] + Stake[Faulty], 60)
  BY <1>3 DEF AtLeast
<1>5. AtLeast(Stake[N(b)] + Stake[Faulty], 60) =>
          AtLeast(Stake[N(b) \cup Fallback(b)] + Stake[Faulty], 60)
  BY <1>1, Monotone
<1> QED
  BY <1>2, <1>4, <1>5

\* The first votes of a slot exclude each other.
LEMMA FirstVotes ==
    ASSUME IInv, NEW b \in Block
    PROVE  /\ N(b) \cap Skippers(b.slot) = {}
           /\ \A o \in Block : o.slot = b.slot /\ o # b => N(b) \cap N(o) = {}
           /\ NotFor(b) \cap N(b) = {} /\ NotFor(b) \in SUBSET Correct
<1>1. N(b) \cap Skippers(b.slot) = {}
  BY DEF IInv, Disciplined, N, Skippers, By
<1>2. \A o \in Block : o.slot = b.slot /\ o # b => N(b) \cap N(o) = {}
  BY DEF IInv, Disciplined, N, By
<1>3. NotFor(b) \in SUBSET Correct
  BY DEF NotFor, By
<1>4. NotFor(b) = Skippers(b.slot) \cup UNION {N(o) : o \in {o \in Block : o.slot = b.slot /\ o # b}}
  BY DEF NotFor, N, Skippers
<1> QED
  BY <1>1, <1>2, <1>3, <1>4

LEMMA OneNotarized ==
    ASSUME IInv, NEW b \in Block, NEW o \in Block, b.slot = o.slot,
           Notarize(b) \in certs, Notarize(o) \in certs
    PROVE  b = o
<1>1. VotesOk
  BY DEF IInv
<1>2. N(b) \in SUBSET Correct /\ N(o) \in SUBSET Correct
  BY <1>1, Sets
<1>3. AtLeast(Stake[N(b)] + Stake[Faulty], 60) /\ AtLeast(Stake[N(o)] + Stake[Faulty], 60)
  BY Zenon, <1>1, Sets DEF CertMeans, N
<1> SUFFICES ASSUME b # o PROVE FALSE
  OBVIOUS
<1>4. N(b) \cap N(o) = {}
  BY FirstVotes
<1> QED
  BY <1>2, <1>3, <1>4, Overlap

\* With 80% behind a block there is not enough for any fallback vote in its
\* slot, other than for the block itself.
LEMMA NoFallback ==
    ASSUME IInv, NEW b \in Block, Cert("FinalizeFast", Notarize(b)) \in certs
    PROVE  /\ LateSkippers(b.slot) = {}
           /\ \A o \in Block : o.slot = b.slot /\ o # b => Fallback(o) = {}
<1>1. VotesOk
  BY DEF IInv
<1>2. AtLeast(Stake[N(b)] + Stake[Faulty], 80) /\ N(b) \in SUBSET Correct /\ b.slot \in Slot
  BY Zenon, <1>1, Sets, BlockShape DEF CertMeans, N
<1>3. ASSUME NEW n \in LateSkippers(b.slot)
      PROVE  FALSE
  <2>1. SafeToSkip(b.slot)
    BY <1>2, <1>3 DEF IInv, Justified, LateSkippers, By
  <2>2. AtLeast(Stake[NotFor(b) \cup Faulty], 40)
    BY <2>1 DEF SafeToSkip
  <2>3. NotFor(b) \in SUBSET Correct /\ NotFor(b) \cap N(b) = {}
    BY FirstVotes
  <2>4. Stake[NotFor(b) \cup Faulty] = Stake[NotFor(b)] + Stake[Faulty]
    BY Zenon, <2>3, StakeWithFaulty
  <2>5. AtLeast(Stake[NotFor(b)] + Stake[Faulty], 40) /\ N(b) \cap NotFor(b) = {}
    BY <2>2, <2>3, <2>4
  <2>6. NotFor(b) \in SUBSET Correct /\ 80 \in Nat /\ 40 \in Nat /\ 80 + 40 >= 120
    BY <2>3
  <2> QED
    BY <1>2, <2>5, <2>6, Overlap
<1>4. ASSUME NEW o \in Block, o.slot = b.slot, o # b, NEW n \in Fallback(o)
      PROVE  FALSE
  <2>1. SafeToNotar(o)
    BY <1>4 DEF IInv, Justified, Fallback, By
  <2>2. PICK F \in SUBSET Faulty : Enough(Stake[N(o)], Stake[Skippers(o.slot)], Stake[F])
    BY <2>1, <1>1, EnoughMeans DEF SafeToNotar
  <2> DEFINE A == N(o) \cup Skippers(b.slot)
  <2>3. /\ N(o) \in SUBSET Correct /\ Skippers(b.slot) \in SUBSET Correct
        /\ A \in SUBSET Correct
    BY <1>1, <1>2, Sets
  <2>4. N(b) \cap N(o) = {} /\ N(b) \cap A = {} /\ N(o) \cap Skippers(b.slot) = {}
    BY <1>4, FirstVotes
  <2>5. Stake[A] = Stake[N(o)] + Stake[Skippers(b.slot)]
    BY <2>3, <2>4, StakeType
  <2>6. /\ Stake[N(o)] \in Nat /\ Stake[Skippers(b.slot)] \in Nat /\ Stake[Faulty] \in Nat
        /\ Stake[F] \in Nat /\ Stake[Faulty] >= Stake[F] /\ Stake[Validators] \in Nat
    BY <2>3, StakeType, StakeSubset
  <2> HIDE DEF A
  <2>7. \/ AtLeast(Stake[N(o)] + Stake[Faulty], 40)
        \/ AtLeast(Stake[A] + Stake[Faulty], 60)
    <3> DEFINE n1 == Stake[N(o)]
               k == Stake[Skippers(b.slot)]
               x == Stake[F]
               f == Stake[Faulty]
    <3>1. AtLeast(n1 + x, 40) \/ AtLeast(k + f - x + (n1 + x), 60)
      BY <1>4, <2>2 DEF Enough
    <3>2. n1 \in Nat /\ k \in Nat /\ x \in Nat /\ f \in Nat /\ f >= x /\ Stake[A] = n1 + k
      BY <2>5, <2>6
    <3> HIDE DEF n1, k, x, f
    <3>3. AtLeast(n1 + x, 40) => AtLeast(n1 + f, 40)
      BY <2>6, <3>2 DEF AtLeast
    <3>4. k + f - x + (n1 + x) = Stake[A] + f
      BY <3>2
    <3> QED
      BY <3>1, <3>3, <3>4 DEF n1, f
  <2> QED
    BY <1>2, <2>3, <2>4, <2>7, Overlap
<1> QED
  BY <1>3, <1>4

\* What a finalized slot excludes.
Settled(b) ==
    /\ Notarize(b) \in certs
    /\ Skip(b.slot) \notin certs
    /\ \A o \in Block : o.slot = b.slot /\ NotarizeFallback(o) \in certs => o = b

LEMMA FastSettles ==
    ASSUME IInv, NEW b \in Block, Cert("FinalizeFast", Notarize(b)) \in certs
    PROVE  Settled(b)
<1>1. VotesOk
  BY DEF IInv
<1>2. /\ AtLeast(Stake[N(b)] + Stake[Faulty], 80) /\ N(b) \in SUBSET Correct /\ b.slot \in Slot
      /\ \A o \in Block : N(o) \in SUBSET Correct
      /\ Skippers(b.slot) \in SUBSET Correct
  BY Zenon, <1>1, Sets, BlockShape DEF CertMeans, N
<1>3. Notarize(b) \in certs
  BY <1>1, Weaker
<1>4. ASSUME Skip(b.slot) \in certs
      PROVE  FALSE
  <2>1. AtLeast(Stake[Skippers(b.slot) \cup LateSkippers(b.slot)] + Stake[Faulty], 60)
    BY Zenon, <1>1, <1>2, <1>4, Sets DEF CertMeans, Skippers, LateSkippers
  <2>2. Skippers(b.slot) \cup LateSkippers(b.slot) = Skippers(b.slot)
    BY NoFallback
  <2>3. N(b) \cap Skippers(b.slot) = {}
    BY FirstVotes
  <2>4. AtLeast(Stake[Skippers(b.slot)] + Stake[Faulty], 60)
    BY <2>1, <2>2
  <2> QED
    BY <1>2, <2>3, <2>4, Overlap
<1>5. ASSUME NEW o \in Block, o.slot = b.slot, o # b, NotarizeFallback(o) \in certs
      PROVE  FALSE
  <2>1. AtLeast(Stake[N(o) \cup Fallback(o)] + Stake[Faulty], 60)
    BY <1>1, <1>5, Sets DEF CertMeans, N, Fallback
  <2>2. N(o) \cup Fallback(o) = N(o)
    BY <1>5, NoFallback
  <2>3. N(b) \cap N(o) = {}
    BY <1>5, FirstVotes
  <2>4. AtLeast(Stake[N(o)] + Stake[Faulty], 60)
    BY Zenon, <2>1, <2>2
  <2> QED
    BY <1>2, <2>3, <2>4, Overlap
<1> QED
  BY <1>3, <1>4, <1>5 DEF Settled

\* Every quorum has a correct member.
LEMMA SomeoneCorrect ==
    ASSUME NEW A \in SUBSET Correct, NEW p \in Nat, p >= 20, AtLeast(Stake[A] + Stake[Faulty], p)
    PROVE  A # {}
<1>1. /\ Stake[Faulty] \in Nat /\ Total \in Nat
      /\ 5 * Stake[Faulty] < Total
  BY StakeType DEF Total
<1>2. p * Total >= 20 * Total
  <2>1. PICK d \in Nat : p = 20 + d
    <3>1. p - 20 \in Nat
      OBVIOUS
    <3> QED
      BY <3>1
  <2>2. (20 + d) * Total = 20 * Total + d * Total /\ d * Total \in Nat
    BY <1>1
  <2> QED
    BY <1>1, <2>1, <2>2
<1>3. p * Total \in Nat
  BY <1>1
<1> SUFFICES ASSUME A = {} PROVE FALSE
  OBVIOUS
<1>4. 100 * (0 + Stake[Faulty]) >= p * Total
  BY StakeEmpty DEF AtLeast, Total
<1> QED
  BY <1>1, <1>2, <1>3, <1>4

LEMMA SlowSettles ==
    ASSUME IInv, NEW s \in Slot, Finalize(s) \in certs
    PROVE  \E b \in Notarized : b.slot = s /\ Settled(b)
<1> DEFINE P == By(votes, Finalize(s))
<1>1. VotesOk
  BY DEF IInv
<1>2. AtLeast(Stake[P] + Stake[Faulty], 60) /\ P \in SUBSET Correct
  BY Zenon, <1>1, Sets DEF CertMeans
<1>3. \A n \in P : /\ n \in Correct
                   /\ \E b \in Notarized : b.slot = s /\ Notarize(b) \in votes[n]
                   /\ Skip(s) \notin votes[n] /\ SkipFallback(s) \notin votes[n]
                   /\ \A o \in Block : o.slot = s => NotarizeFallback(o) \notin votes[n]
  BY Zenon DEF IInv, Disciplined, By
<1> HIDE DEF P
<1>4. PICK n \in P : TRUE
  BY <1>2, SomeoneCorrect
<1>5. PICK b \in Notarized : b.slot = s
  BY <1>3, <1>4
<1>6. b \in Block /\ Notarize(b) \in certs /\ \A o \in Notarized : o \in Block /\ Notarize(o) \in certs
  BY <1>1, Sets, TreeAssumption
<1>7. P \subseteq N(b)
  BY <1>3, <1>5, <1>6, OneNotarized DEF N, By
<1>8. ASSUME Skip(s) \in certs
      PROVE  FALSE
  <2> DEFINE A == Skippers(s) \cup LateSkippers(s)
  <2>1. AtLeast(Stake[A] + Stake[Faulty], 60) /\ A \in SUBSET Correct
    BY Zenon, <1>1, <1>8, Sets DEF CertMeans, Skippers, LateSkippers
  <2>2. P \cap A = {}
    BY <1>3 DEF Skippers, LateSkippers, By
  <2> HIDE DEF A
  <2> QED
    BY <1>2, <2>1, <2>2, Overlap
<1>9. ASSUME NEW o \in Block, o.slot = s, o # b, NotarizeFallback(o) \in certs
      PROVE  FALSE
  <2> DEFINE A == N(o) \cup Fallback(o)
  <2>1. AtLeast(Stake[A] + Stake[Faulty], 60) /\ A \in SUBSET Correct
    BY <1>1, <1>9, Sets DEF CertMeans, N, Fallback
  <2>2. N(b) \cap N(o) = {}
    BY <1>5, <1>6, <1>9, FirstVotes
  <2>3. P \cap Fallback(o) = {}
    BY <1>3, <1>9 DEF Fallback, By
  <2>4. P \cap A = {}
    BY <1>7, <2>2, <2>3
  <2> HIDE DEF A
  <2> QED
    BY <1>2, <2>1, <2>4, Overlap
<1> QED
  BY <1>5, <1>6, <1>8, <1>9 DEF Settled

LEMMA AtMostOne ==
    ASSUME NEW S, \A x, y \in S : x = y
    PROVE  Cardinality(S) <= 1
<1>1. CASE S = {}
  BY <1>1, FS_EmptySet
<1>2. CASE S # {}
  <2>1. PICK x : S = {x}
    BY <1>2
  <2> QED
    BY <2>1, FS_Singleton
<1> QED
  BY <1>1, <1>2

\* The certificates of blocks.
LEMMA BlockCerts ==
    ASSUME VotesOk, NEW c \in certs, c.id # NoId
    PROVE  \E b \in Block :
             /\ b.slot = c.slot /\ b.id = c.id
             /\ NotarizeFallback(b) \in certs
             /\ c.type \in {"Notarize", "FinalizeFast"} => Notarize(b) \in certs
             /\ c.type = "FinalizeFast" => c = Cert("FinalizeFast", Notarize(b))
<1>1. c \in CertType
  BY DEF VotesOk, CertificatesOf
<1>2. CASE \E b \in Block : c = Notarize(b)
  <2>1. PICK b \in Block : c = Notarize(b)
    BY <1>2
  <2>2. c.type = "Notarize" /\ c.slot = b.slot /\ c.id = b.id
    BY <2>1 DEF Notarize
  <2> QED
    BY <2>1, <2>2, Weaker
<1>3. CASE \E b \in Block : c = NotarizeFallback(b)
  <2>1. PICK b \in Block : c = NotarizeFallback(b)
    BY <1>3
  <2>2. c.type = "NotarizeFallback" /\ c.slot = b.slot /\ c.id = b.id
    BY <2>1 DEF NotarizeFallback
  <2> QED
    BY <2>1, <2>2
<1>4. CASE \E b \in Block : c = Cert("FinalizeFast", Notarize(b))
  <2>1. PICK b \in Block : c = Cert("FinalizeFast", Notarize(b))
    BY <1>4
  <2>2. c.type = "FinalizeFast" /\ c.slot = b.slot /\ c.id = b.id
    BY <2>1 DEF Notarize, Cert
  <2> QED
    BY <2>1, <2>2, Weaker
<1>5. CASE \E s \in Slot : c \in {Finalize(s), Skip(s), SkipFallback(s)}
  BY <1>5 DEF Finalize, Skip, SkipFallback
<1> QED
  BY <1>1, <1>2, <1>3, <1>4, <1>5 DEF CertType, Vote

LEMMA IInvAgreed == IInv => QuorumsAgree
<1> SUFFICES ASSUME IInv, NEW s \in Slot
             PROVE  LET here == {c \in certs : c.slot = s}
                    IN  /\ Cardinality(BlocksOf({c \in here : c.type \in {"Notarize", "FinalizeFast"}})) <= 1
                        /\ (\E c \in here : c.type \in {"Finalize", "FinalizeFast"}) =>
                               Skip(s) \notin here /\ Cardinality(BlocksOf(here)) <= 1
  BY Zenon DEF QuorumsAgree, Agreed
<1> DEFINE here == {c \in certs : c.slot = s}
           strong == {c \in here : c.type \in {"Notarize", "FinalizeFast"}}
<1>1. VotesOk
  BY DEF IInv
<1>2. Cardinality(BlocksOf(strong)) <= 1
  <2> SUFFICES ASSUME NEW x \in BlocksOf(strong), NEW y \in BlocksOf(strong)
               PROVE  x = y
    BY AtMostOne
  <2>1. PICK b \in Block : b.slot = s /\ b.id = x /\ Notarize(b) \in certs
    BY <1>1, BlockCerts DEF BlocksOf
  <2>2. PICK o \in Block : o.slot = s /\ o.id = y /\ Notarize(o) \in certs
    BY <1>1, BlockCerts DEF BlocksOf
  <2> QED
    BY <2>1, <2>2, OneNotarized
<1>3. ASSUME NEW c \in here, c.type \in {"Finalize", "FinalizeFast"}
      PROVE  Skip(s) \notin here /\ Cardinality(BlocksOf(here)) <= 1
  <2>1. PICK b \in Block : b.slot = s /\ Settled(b)
    <3>1. CASE c.type = "FinalizeFast"
      <4>1. c.id # NoId
        <5>1. c \in CertType
          BY <1>1 DEF VotesOk, CertificatesOf
        <5>2. PICK b \in Block : c = Cert("FinalizeFast", Notarize(b))
          BY <3>1, <5>1 DEF CertType, Vote, Notarize, NotarizeFallback, Finalize, Skip, SkipFallback
        <5> QED
          BY <5>2, BlockShape DEF Cert, Notarize
      <4> QED
        BY <1>1, <3>1, <4>1, BlockCerts, FastSettles
    <3>2. CASE c.type = "Finalize"
      <4>1. c \in CertType
        BY <1>1 DEF VotesOk, CertificatesOf
      <4>2. c = Finalize(s)
        BY <3>2, <4>1 DEF CertType, Vote, Notarize, NotarizeFallback, Finalize, Skip, SkipFallback, Cert
      <4> QED
        BY <1>1, <4>2, SlowSettles, TreeAssumption DEF Notarized
    <3> QED
      BY <1>3, <3>1, <3>2
  <2>2. Skip(s) \notin here
    BY <2>1 DEF Settled
  <2>3. ASSUME NEW x \in BlocksOf(here)
        PROVE  x = b.id
    <3>1. PICK o \in Block : o.slot = s /\ o.id = x /\ NotarizeFallback(o) \in certs
      BY <1>1, BlockCerts DEF BlocksOf
    <3> QED
      BY <2>1, <3>1 DEF Settled
  <2> QED
    BY <2>2, <2>3, AtMostOne
<1> QED
  BY <1>2, <1>3

-----------------------------------------------------------------------------
(* Certified blocks form a chain *)

\* A certified block has a correct validator's first vote, and what that
\* validator knew of its parent and of the slots between them.
LEMMA CertifiedReady ==
    ASSUME IInv, NEW o \in Block, NotarizeFallback(o) \in certs
    PROVE  o \in DOMAIN Parent /\ o.slot > Genesis.slot /\ ReadyFor(o)
<1>1. VotesOk
  BY DEF IInv
<1>2. /\ AtLeast(Stake[N(o) \cup Fallback(o)] + Stake[Faulty], 60)
      /\ N(o) \in SUBSET Correct /\ Fallback(o) \in SUBSET Correct
      /\ N(o) \cup Fallback(o) \in SUBSET Correct
  BY Zenon, <1>1, Sets DEF CertMeans, N, Fallback
<1>3. \A n \in N(o) : /\ o \in DOMAIN Parent /\ o.slot > Genesis.slot
                      /\ FirstInWindow(o.slot) => ReadyFor(o)
                      /\ Extends(votes[n], o)
  BY Zenon DEF IInv, Justified, N, By
<1>4. \A n \in Fallback(o) : SafeToNotar(o)
  BY DEF IInv, Justified, Fallback, By
<1>5. N(o) # {}
  <2> SUFFICES ASSUME N(o) = {} PROVE FALSE
    OBVIOUS
  <2>1. PICK n \in Fallback(o) : TRUE
    BY <1>2, SomeoneCorrect
  <2>2. PICK F \in SUBSET Faulty : Enough(Stake[N(o)], Stake[Skippers(o.slot)], Stake[F])
    BY Zenon, <1>1, <1>4, <2>1, EnoughMeans DEF SafeToNotar
  <2>3. /\ Stake[F] \in Nat /\ Stake[Faulty] \in Nat /\ Stake[F] <= Stake[Faulty]
        /\ Stake[Validators] \in Nat /\ 5 * Stake[Faulty] < Stake[Validators]
    BY StakeType, StakeSubset DEF Total
  <2>4. AtLeast(0 + Stake[F], 40) \/ AtLeast(0 + Stake[F], 20)
    BY <2>2, StakeEmpty DEF Enough
  <2> QED
    BY <2>3, <2>4 DEF AtLeast
<1>6. PICK m \in N(o) : TRUE
  BY <1>5
<1>7. CASE FirstInWindow(o.slot)
  BY <1>3, <1>6, <1>7
<1>8. CASE ~FirstInWindow(o.slot)
  <2>1. o \in DOMAIN Parent /\ o.slot > Genesis.slot /\ Consecutive(o)
    BY <1>3, <1>6, <1>8 DEF Extends
  <2>2. Parent[o] \in Block /\ o.slot \in Nat /\ Parent[o].slot \in Nat
    BY <2>1, TreeAssumption, BlockShape, WindowAssumption DEF Slot
  <2>3. (Parent[o].slot + 1)..(o.slot - 1) = {}
    BY <2>1, <2>2 DEF Consecutive
  <2>4. Parent[o] = Genesis \/ NotarizeFallback(Parent[o]) \in certs
    <3>1. CASE Fallback(o) # {}
      BY <1>4, <1>8, <3>1 DEF SafeToNotar
    <3>2. CASE Fallback(o) = {} /\ Parent[o] # Genesis
      <4>1. N(o) \subseteq N(Parent[o])
        BY Zenon, <1>3, <1>8, <3>2 DEF Extends, N, By
      <4>2. N(Parent[o]) \cup Fallback(Parent[o]) \in SUBSET Correct
        BY <1>1, <2>2, Sets
      <4>3. N(o) \cup Fallback(o) \subseteq N(Parent[o]) \cup Fallback(Parent[o])
        BY <3>2, <4>1
      <4>4. AtLeast(Stake[N(Parent[o]) \cup Fallback(Parent[o])] + Stake[Faulty], 60)
        BY <1>2, <4>2, <4>3, Monotone
      <4> QED
        BY Zenon, <1>1, <2>2, <4>4, Sets DEF CertMeans, N, Fallback
    <3> QED
      BY <3>1, <3>2
  <2> QED
    BY <2>1, <2>3, <2>4 DEF ReadyFor
<1> QED
  BY <1>7, <1>8

\* A final block excludes a skip of its slot, and other blocks there.
LEMMA FinalSettled ==
    ASSUME IInv, NEW b \in DOMAIN Parent, IsFinal(b)
    PROVE  b \in Block /\ Settled(b)
<1>1. b \in Block /\ b.slot \in Slot
  BY TreeAssumption, BlockShape
<1>2. CASE Cert("FinalizeFast", Notarize(b)) \in certs
  BY <1>1, <1>2, FastSettles
<1>3. CASE Finalize(b.slot) \in certs /\ b \in Notarized
  <2>1. PICK o \in Notarized : o.slot = b.slot /\ Settled(o)
    BY <1>1, <1>3, SlowSettles
  <2>2. o \in Block /\ Notarize(o) \in certs /\ Notarize(b) \in certs
    BY <1>3, TreeAssumption DEF Notarized
  <2>3. o = b
    BY <1>1, <2>1, <2>2, OneNotarized
  <2> QED
    BY <1>1, <2>1, <2>3
<1> QED
  BY <1>2, <1>3 DEF IsFinal

\* Every non-empty set of blocks has one in a lowest slot.
LEMMA LowestBlock ==
    ASSUME NEW S \in SUBSET Block, S # {}
    PROVE  \E o \in S : \A c \in S : o.slot <= c.slot
<1> DEFINE T == {o.slot : o \in S}
           R == OpToRel(<, Nat)
<1>1. T \in SUBSET Nat /\ T # {}
  BY BlockShape, WindowAssumption DEF Slot
<1>2. IsWellFoundedOn(R, Nat)
  BY Zenon, NatLessThanWellFounded
<1> HIDE DEF T, R
<1>3. PICK x \in T : \A y \in T : ~(<<y, x>> \in R)
  BY Zenon, <1>1, <1>2, WFMin
<1>4. \A y \in T : ~(y < x)
  BY Zenon, <1>1, <1>3 DEF R, OpToRel
<1>5. PICK o \in S : o.slot = x
  BY DEF T
<1>6. ASSUME NEW c \in S
      PROVE  o.slot <= c.slot
  <2>1. c.slot \in T
    BY DEF T
  <2> QED
    <3>1. c.slot \in Nat /\ x \in Nat /\ ~(c.slot < x)
      BY Zenon, <1>1, <1>4, <2>1
    <3> QED
      BY <1>5, <3>1
<1> QED
  BY <1>6

LEMMA OnChainStep ==
    ASSUME NEW b, NEW o \in DOMAIN Parent
    PROVE  /\ OnChain(o, o)
           /\ Parent[o] \in DOMAIN Parent /\ OnChain(b, Parent[o]) => OnChain(b, o)
  BY DEF OnChain

LEMMA IInvChain == IInv => FinalizedOnOneChain
<1> SUFFICES ASSUME IInv, NEW b \in DOMAIN Parent, IsFinal(b)
             PROVE  \A o \in DOMAIN Parent :
                        NotarizeFallback(o) \in certs /\ b.slot <= o.slot => OnChain(b, o)
  BY DEF FinalizedOnOneChain
<1>1. b \in Block /\ Settled(b) /\ \A o \in DOMAIN Parent : o \in Block
  BY FinalSettled, TreeAssumption
\* A counterexample in the lowest slot.
<1> DEFINE Bad == {o \in DOMAIN Parent :
                       NotarizeFallback(o) \in certs /\ b.slot <= o.slot /\ ~OnChain(b, o)}
<1> SUFFICES ASSUME Bad # {} PROVE FALSE
  OBVIOUS
<1>2. PICK o \in Bad : \A c \in Bad : o.slot <= c.slot
  BY Zenon, <1>1, LowestBlock
<1> DEFINE p == Parent[o]
<1>3. /\ o \in DOMAIN Parent /\ o \in Block /\ NotarizeFallback(o) \in certs
      /\ b.slot <= o.slot /\ ~OnChain(b, o)
  BY Zenon, <1>1, <1>2
<1>4. o.slot > Genesis.slot /\ ReadyFor(o)
  BY Zenon, <1>3, CertifiedReady
<1>5. o # b
  BY <1>3, OnChainStep
<1>6. b.slot # o.slot
  BY Zenon, <1>1, <1>3, <1>5 DEF Settled
<1>7. /\ p \in DOMAIN Parent \cup {Genesis} /\ p \in Block /\ p.slot < o.slot
      /\ p.slot \in Nat /\ b.slot \in Nat /\ o.slot \in Nat /\ Genesis.slot \in Nat
  BY <1>1, <1>3, TreeAssumption, BlockShape, WindowAssumption DEF Slot
<1>8. CASE p.slot < b.slot
  <2>1. b.slot \in (p.slot + 1)..(o.slot - 1)
    BY <1>3, <1>6, <1>7, <1>8
  <2>2. Skip(b.slot) \in certs
    BY <1>4, <2>1 DEF ReadyFor
  <2> QED
    BY <1>1, <2>2 DEF Settled
<1>9. CASE p.slot >= b.slot
  <2>1. b.slot > Genesis.slot
    <3>1. NotarizeFallback(b) \in certs
      BY <1>1, Weaker DEF Settled, IInv
    <3> QED
      BY Zenon, <1>1, <3>1, CertifiedReady
  <2>2. p # Genesis
    BY <1>7, <1>9, <2>1
  <2>3. p \in DOMAIN Parent /\ NotarizeFallback(p) \in certs
    BY <1>4, <1>7, <2>2 DEF ReadyFor
  <2>4. p \notin Bad
    BY <1>2, <1>7
  <2>5. OnChain(b, p)
    BY <1>9, <2>3, <2>4
  <2> QED
    BY Zenon, <1>3, <2>3, <2>5, OnChainStep
<1> QED
  BY <1>7, <1>8, <1>9

-----------------------------------------------------------------------------
(* Theorems *)

LEMMA Inductive == Spec => []IInv
<1>1. IInv /\ [Next]_vars => IInv'
  <2> SUFFICES ASSUME IInv, [Next]_vars PROVE IInv'
    OBVIOUS
  <2>1. CASE Next
    BY <2>1, NextIInv DEF Next
  <2>2. CASE UNCHANGED vars
    <3>1. votes' = votes /\ certs' = certs
      BY <2>2 DEF vars
    <3>2. /\ VotesOk' <=> VotesOk
          /\ Notarized' = Notarized
          /\ \A b : ReadyFor(b)' <=> ReadyFor(b)
          /\ \A b : SafeToNotar(b)' <=> SafeToNotar(b)
          /\ \A s : SafeToSkip(s)' <=> SafeToSkip(s)
      BY <3>1 DEF VotesOk, Notarized, ReadyFor, SafeToNotar, SafeToSkip, Seen, NotFor
    <3>3. \A n : Disciplined(votes[n])' <=> Disciplined(votes[n])
      BY Zenon, <3>1, <3>2 DEF Disciplined
    <3>4. \A n : Justified(votes[n])' <=> Justified(votes[n])
      BY Zenon, <3>1, <3>2 DEF Justified
    <3> QED
      BY Zenon, <3>2, <3>3, <3>4 DEF IInv
  <2> QED
    BY <2>1, <2>2
<1> QED
  BY InitIInv, <1>1, PTL DEF Spec

(***************************************************************************)
(* In every cluster in which the faulty validators have less than 20% of   *)
(* the stake, no slot has two notarized blocks, and a finalized slot has   *)
(* no skip certificate and no certificate of another block: what the       *)
(* consensus pool takes for granted when it hands out certificates.        *)
(***************************************************************************)
THEOREM QuorumsAlwaysAgree == Spec => []QuorumsAgree
  BY Inductive, IInvAgreed, PTL

(***************************************************************************)
(* Safety of the voting rules: every block that is certified in the slot   *)
(* of a finalized block or later descends from it, for every tree of       *)
(* blocks, every length of a leader window and every distribution of       *)
(* stake, whichever votes are late or never cast.                          *)
(***************************************************************************)
THEOREM FinalizedBlocksFormAChain == Spec => []FinalizedOnOneChain
  BY Inductive, IInvChain, PTL
=============================================================================
