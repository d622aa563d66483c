---------------------- MODULE ConsensusPoolVotes_proof ----------------------
(***************************************************************************)
(* Proofs about the votes of ConsensusPool: which certificates are built   *)
(* from them and which fallback votes they make safe.                      *)
(***************************************************************************)
EXTENDS ConsensusPool_proof

-----------------------------------------------------------------------------
(* Stake *)

LEMMA StakeType ==
    /\ \A A \in SUBSET Validators : Stake[A] \in Nat
    /\ Stake[Validators] \in Nat
    /\ \A A, B \in SUBSET Validators :
           A \cap B = {} => Stake[A \cup B] = Stake[A] + Stake[B]
  BY Zenon, StakeAssumption

LEMMA StakeSubset ==
    ASSUME NEW B \in SUBSET Validators, NEW A \in SUBSET B
    PROVE  Stake[A] <= Stake[B]
<1>1. A \cup (B \ A) = B /\ A \cap (B \ A) = {}
  BY Zenon
<1>2. Stake[B] = Stake[A] + Stake[B \ A]
  BY Zenon, <1>1, StakeType
<1>3. Stake[A] \in Nat /\ Stake[B \ A] \in Nat
  BY Zenon, StakeType
<1> QED
  BY <1>2, <1>3

LEMMA StakeUnion ==
    ASSUME NEW A \in SUBSET Validators, NEW B \in SUBSET Validators
    PROVE  Stake[A \cup B] <= Stake[A] + Stake[B]
<1>1. A \cup B = A \cup (B \ A) /\ A \cap (B \ A) = {}
  BY Zenon
<1>2. Stake[A \cup B] = Stake[A] + Stake[B \ A]
  BY Zenon, <1>1, StakeType
<1>3. Stake[B \ A] <= Stake[B]
  BY Zenon, StakeSubset
<1> QED
  BY <1>2, <1>3, StakeType

LEMMA StakeEmpty == Stake[{}] = 0
<1>1. Stake[{} \cup {}] = Stake[{}] + Stake[{}]
  BY Zenon, StakeType
<1> QED
  BY <1>1, StakeType

\* More stake meets what less stake meets.
LEMMA MoreMeets ==
    ASSUME NEW x \in Int, NEW y \in Int, x <= y
    PROVE  /\ \A c : Meets(c, x) => Meets(c, y)
           /\ \A k \in Nat : AtLeast(x, k) => AtLeast(y, k)
<1> DEFINE T == Stake[Validators]
<1>0. T \in Nat
  BY Zenon, StakeType
<1>1. \A k \in Nat : AtLeast(x, k) => AtLeast(y, k)
  <2> SUFFICES ASSUME NEW k \in Nat, 100 * x >= k * T PROVE 100 * y >= k * T
    BY Zenon DEF AtLeast
  <2>1. k * T \in Int
    BY <1>0
  <2> DEFINE m == k * T
  <2> HIDE DEF m, T
  <2> QED
    BY <2>1 DEF m
<1>2. \A c : Meets(c, x) => Meets(c, y)
  BY Zenon, <1>1 DEF Meets
<1> QED
  BY Zenon, <1>1, <1>2

-----------------------------------------------------------------------------
(* Certificates and the votes they are built from *)

LEMMA CertOfCert ==
    ASSUME NEW c \in CertType, NEW type
    PROVE  Cert(type, c) = [type |-> type, slot |-> c.slot, id |-> c.id]
<1>1. c = [type |-> c.type, slot |-> c.slot, id |-> c.id]
  BY Zenon, CertShape
<1> QED
  BY <1>1 DEF Cert

VotesOf(c) ==
    CASE c.type \in {"Notarize", "FinalizeFast"} -> {Cert("Notarize", c)}
      [] c.type = "NotarizeFallback" -> {Cert("Notarize", c), c}
      [] c.type = "Finalize" -> {c}
      [] c.type = "Skip" -> {c, SkipFallback(c.slot)}

\* The stake of the accumulators behind a certificate.
Power(acc, c) ==
    CASE c.type \in {"Notarize", "FinalizeFast"} -> acc[Cert("Notarize", c)].stake
      [] c.type = "NotarizeFallback" -> acc[Cert("Notarize", c)].stake + acc[c].stake
      [] c.type = "Finalize" -> acc[c].stake
      [] c.type = "Skip" -> acc[c].stake + acc[SkipFallback(c.slot)].stake

LEMMA VotesOfCert ==
    ASSUME NEW c \in CertType
    PROVE  /\ VotesOf(c) \subseteq Vote
           /\ \A v \in VotesOf(c) : v.slot = c.slot
           /\ c.type \in {"Notarize", "NotarizeFallback", "FinalizeFast"} =>
                  /\ Cert("Notarize", c) = Notarize(BlockOf(c))
                  /\ Cert("Notarize", c) \in Vote
           /\ c.type \in {"NotarizeFallback", "Finalize", "Skip", "Notarize"} => c \in Vote
           /\ c.type = "Skip" => c = Skip(c.slot)
           /\ SkipFallback(c.slot) \in Vote
<1>1. \A type : Cert(type, c) = [type |-> type, slot |-> c.slot, id |-> c.id]
  BY Zenon, CertOfCert
<1>2. c.slot \in Slot
  BY Zenon, CertShape
<1>3. c.type \in {"Notarize", "NotarizeFallback", "FinalizeFast"} =>
          /\ Cert("Notarize", c) = Notarize(BlockOf(c)) /\ Cert("Notarize", c) \in Vote
  BY Zenon, <1>1, CertShape, Kinds DEF Notarize, BlockOf
<1>4. c.type \in {"NotarizeFallback", "Finalize", "Skip", "Notarize"} => c \in Vote
  <2>1. c.type # "FinalizeFast" => c \in Vote
    <3>1. \A b \in Block : Cert("FinalizeFast", Notarize(b)).type = "FinalizeFast"
      BY Kinds
    <3> QED
      BY Zenon, <3>1 DEF CertType
  <2> QED
    BY Zenon, <2>1
<1>5. c.type = "Skip" => c = Skip(c.slot)
  BY Zenon, <1>2, CertNamed
<1>6. SkipFallback(c.slot) \in Vote /\ SkipFallback(c.slot).slot = c.slot
  BY Zenon, <1>2, Kinds DEF SkipFallback
<1>7. Cert("Notarize", c).slot = c.slot
  BY <1>1
<1>8. c.type \in {"Notarize", "NotarizeFallback", "FinalizeFast", "Finalize", "Skip"}
  BY Zenon, CertShape
<1>9. VotesOf(c) \subseteq Vote /\ \A v \in VotesOf(c) : v.slot = c.slot
  <2>1. CASE c.type \in {"Notarize", "FinalizeFast"}
    BY Zenon, <2>1, <1>3, <1>7 DEF VotesOf
  <2>2. CASE c.type = "NotarizeFallback"
    BY Zenon, <2>2, <1>3, <1>4, <1>7 DEF VotesOf
  <2>3. CASE c.type = "Finalize"
    BY Zenon, <2>3, <1>4 DEF VotesOf
  <2>4. CASE c.type = "Skip"
    BY Zenon, <2>4, <1>4, <1>6 DEF VotesOf
  <2> QED
    BY Zenon, <1>8, <2>1, <2>2, <2>3, <2>4
<1> QED
  BY Zenon, <1>3, <1>4, <1>5, <1>6, <1>9

\* A certificate that is built has the stake in its accumulators.
LEMMA BuiltMeets ==
    ASSUME NEW acc, NEW completed, NEW v \in Vote, NEW c \in CertType,
           c \in try_produce_cert(acc, completed, v)
    PROVE  Meets(c, Power(acc, c))
<1>1. \A type : Cert(type, v) = [type |-> type, slot |-> v.slot, id |-> v.id]
  BY Zenon, CertOf
<1>2. \A type : Cert(type, c) = [type |-> type, slot |-> c.slot, id |-> c.id]
  BY Zenon, CertOfCert
<1>3. v = [type |-> v.type, slot |-> v.slot, id |-> v.id]
  BY Zenon, VoteShape
<1>4. CASE v.type = "Notarize"
  <2>1. c \in NotarizeCert(acc, completed, v)
    BY Zenon, <1>4 DEF try_produce_cert
  <2>2. \/ c = Cert("FinalizeFast", v) /\ Meets(c, acc[v].stake)
        \/ c = v /\ Meets(c, acc[v].stake)
        \/ c = Cert("NotarizeFallback", v)
           /\ Meets(c, acc[v].stake + acc[Cert("NotarizeFallback", v)].stake)
    BY Zenon, <2>1 DEF NotarizeCert, Base2, Base3, When
  <2>3. c.slot = v.slot /\ c.id = v.id /\ Cert("Notarize", c) = v
    BY <1>1, <1>2, <1>3, <1>4, <2>2
  <2>4. CASE c = Cert("FinalizeFast", v) /\ Meets(c, acc[v].stake)
    <3>1. c.type = "FinalizeFast"
      BY <1>1, <2>4
    <3> QED
      BY Zenon, <2>3, <2>4, <3>1 DEF Power
  <2>5. CASE c = v /\ Meets(c, acc[v].stake)
    <3>1. c.type = "Notarize"
      BY Zenon, <1>4, <2>5
    <3> QED
      BY Zenon, <2>3, <2>5, <3>1 DEF Power
  <2>6. CASE /\ c = Cert("NotarizeFallback", v)
             /\ Meets(c, acc[v].stake + acc[Cert("NotarizeFallback", v)].stake)
    <3>1. c.type = "NotarizeFallback"
      BY <1>1, <2>6
    <3> QED
      BY Zenon, <2>3, <2>6, <3>1 DEF Power
  <2> QED
    BY Zenon, <2>2, <2>4, <2>5, <2>6
<1>5. CASE v.type = "NotarizeFallback"
  <2>1. c \in NotarizeFallbackCert(acc, completed, v)
    BY Zenon, <1>5 DEF try_produce_cert
  <2>2. c = v /\ Meets(c, acc[Cert("Notarize", v)].stake + acc[v].stake)
    BY Zenon, <2>1 DEF NotarizeFallbackCert, Base3, When
  <2> QED
    BY Zenon, <1>5, <2>2 DEF Power
<1>6. CASE v.type = "Finalize"
  <2>1. c = v /\ Meets(c, acc[v].stake)
    BY Zenon, <1>6 DEF try_produce_cert, Base2, When
  <2> QED
    BY Zenon, <1>6, <2>1 DEF Power
<1>7. CASE v.type \in {"Skip", "SkipFallback"}
  <2>1. c \in SkipCert(acc, completed, v.slot)
    BY Zenon, <1>7 DEF try_produce_cert
  <2>2. c = Skip(v.slot) /\ Meets(c, acc[Skip(v.slot)].stake + acc[SkipFallback(v.slot)].stake)
    BY Zenon, <2>1 DEF SkipCert, Base3, When
  <2>3. c.type = "Skip" /\ c.slot = v.slot
    BY Zenon, <2>2 DEF Skip
  <2> QED
    BY Zenon, <2>2, <2>3 DEF Power
<1> QED
  BY Zenon, <1>4, <1>5, <1>6, <1>7, VoteShape

\* Once the accumulators of a certificate have the stake, the vote that filled
\* them builds it, unless it or a stronger one is there.
LEMMA MeetsBuilt ==
    ASSUME NEW acc \in [Vote -> Accumulator], NEW completed,
           NEW c \in CertType, NEW v \in VotesOf(c), Meets(c, Power(acc, c))
    PROVE  Stronger(c) \cap (completed \cup try_produce_cert(acc, completed, v)) # {}
<1> DEFINE D == completed \cup try_produce_cert(acc, completed, v)
<1>0. \A type : Cert(type, c) = [type |-> type, slot |-> c.slot, id |-> c.id]
  BY Zenon, CertOfCert
<1>1. v \in Vote /\ v.slot = c.slot
  BY Zenon, VotesOfCert
<1>2. \A type : Cert(type, v) = [type |-> type, slot |-> v.slot, id |-> v.id]
  BY Zenon, <1>1, CertOf
<1>3. c = [type |-> c.type, slot |-> c.slot, id |-> c.id]
  BY Zenon, CertShape
\* A notarize vote.
<1>4. ASSUME c.type \in {"Notarize", "NotarizeFallback", "FinalizeFast"}, v = Cert("Notarize", c)
      PROVE  Stronger(c) \cap D # {}
  <2> DEFINE fast == Cert("FinalizeFast", v)
             fallback == Cert("NotarizeFallback", v)
             new == NotarizeCert(acc, completed, v)
  <2>0. v.type = "Notarize" /\ v.id = c.id /\ v.slot = c.slot
    BY <1>0, <1>4
  <2>1. D = completed \cup new
    <3>1. try_produce_cert(acc, completed, v) = NotarizeCert(acc, completed, v)
      BY Zenon, <2>0 DEF try_produce_cert
    <3> QED
      BY Zenon, <3>1
  <2>2. /\ fast = Cert("FinalizeFast", c)
        /\ c.type = "FinalizeFast" => c = fast
        /\ c.type = "Notarize" => c = v
        /\ c.type = "NotarizeFallback" => c = fallback
    <3>1. fast = Cert("FinalizeFast", c)
      BY Zenon, <1>0, <1>2, <2>0
    <3>2. c.type = "FinalizeFast" => c = fast
      BY Zenon, <1>2, <1>3, <2>0
    <3>3. c.type = "Notarize" => c = v
      BY Zenon, <1>0, <1>3, <1>4
    <3>4. c.type = "NotarizeFallback" => c = fallback
      BY Zenon, <1>2, <1>3, <2>0
    <3> QED
      BY Zenon, <3>1, <3>2, <3>3, <3>4
  <2>3. fast.type = "FinalizeFast" /\ fallback.type = "NotarizeFallback"
    BY <1>2
  <2>4. new = IF fast \in completed THEN {}
              ELSE IF Meets(fast, acc[v].stake) THEN {fast}
              ELSE IF v \in completed THEN {}
              ELSE IF Meets(v, acc[v].stake) THEN {v}
              ELSE IF fallback \notin completed /\ acc[fallback] # NoVotes
                      /\ Meets(fallback, acc[v].stake + acc[fallback].stake)
                   THEN {fallback} ELSE {}
    BY Zenon DEF NotarizeCert, Base2, Base3, When
  <2> HIDE DEF fast, fallback, new, D
  <2>5. CASE c.type = "FinalizeFast"
    <3>1. Meets(fast, acc[v].stake)
      BY Zenon, <1>4, <2>2, <2>5 DEF Power
    <3>2. fast \in D
      BY Zenon, <2>1, <2>4, <3>1
    <3> QED
      BY Zenon, <2>2, <2>5, <3>2 DEF Stronger
  <2>6. CASE c.type = "Notarize"
    <3>1. Meets(v, acc[v].stake)
      BY Zenon, <1>4, <2>2, <2>6 DEF Power
    <3>2. fast \in D \/ v \in D
      BY Zenon, <2>1, <2>4, <3>1
    <3> QED
      BY Zenon, <2>2, <2>6, <3>2 DEF Stronger, When
  <2>7. CASE c.type = "NotarizeFallback"
    <3>1. Meets(fallback, acc[v].stake + acc[fallback].stake)
      BY Zenon, <1>4, <2>2, <2>7 DEF Power
    <3>2. fast \in D \/ v \in D \/ fallback \in D
      <4>1. CASE acc[fallback] # NoVotes
        BY Zenon, <2>1, <2>4, <3>1, <4>1
      <4>2. CASE acc[fallback] = NoVotes
        <5>1. acc[v].stake \in Nat /\ acc[fallback].stake = 0
          BY <1>1, <4>2 DEF Accumulator, NoVotes
        <5>2. Meets(v, acc[v].stake)
          BY <2>0, <2>3, <3>1, <5>1 DEF Meets
        <5> QED
          BY Zenon, <2>1, <2>4, <5>2
      <4> QED
        BY Zenon, <4>1, <4>2
    <3> QED
      BY Zenon, <1>4, <2>2, <2>7, <3>2 DEF Stronger, When
  <2> QED
    BY Zenon, <1>4, <2>5, <2>6, <2>7
<1>5. ASSUME c.type = "NotarizeFallback", v = c
      PROVE  Stronger(c) \cap D # {}
  <2>1. D = completed \cup NotarizeFallbackCert(acc, completed, c)
    <3>1. try_produce_cert(acc, completed, v) = NotarizeFallbackCert(acc, completed, v)
      BY Zenon, <1>5 DEF try_produce_cert
    <3> QED
      BY Zenon, <1>5, <3>1
  <2>2. Meets(c, acc[Cert("Notarize", c)].stake + acc[c].stake)
    BY Zenon, <1>5 DEF Power
  <2>3. Cert("NotarizeFallback", c) = c
    BY Zenon, <1>0, <1>3, <1>5
  <2>4. \/ c \in D \/ Cert("FinalizeFast", c) \in D \/ Cert("Notarize", c) \in D
    <3> HIDE DEF D
    <3> QED
      BY Zenon, <2>1, <2>2, <2>3 DEF NotarizeFallbackCert, Base3, When
  <2> HIDE DEF D
  <2> QED
    BY Zenon, <1>5, <2>4 DEF Stronger, When
<1>6. CASE c.type = "Finalize"
  <2>1. v = c /\ Meets(c, acc[c].stake)
    BY Zenon, <1>6 DEF Power, VotesOf
  <2>2. c \in D
    BY Zenon, <1>6, <2>1 DEF try_produce_cert, Base2, When
  <2> HIDE DEF D
  <2> QED
    BY Zenon, <2>2 DEF D, Stronger
<1>7. CASE c.type = "Skip"
  <2>1. v \in {c, SkipFallback(c.slot)} /\ Meets(c, acc[c].stake + acc[SkipFallback(c.slot)].stake)
    BY Zenon, <1>7 DEF Power, VotesOf
  <2>2. c = Skip(c.slot)
    BY Zenon, <1>7, VotesOfCert
  <2>3. v.type \in {"Skip", "SkipFallback"}
    BY <1>7, <2>1 DEF SkipFallback
  <2>4. D = completed \cup SkipCert(acc, completed, c.slot)
    <3>1. try_produce_cert(acc, completed, v) = SkipCert(acc, completed, v.slot)
      BY Zenon, <2>3 DEF try_produce_cert
    <3> QED
      BY Zenon, <1>1, <3>1
  <2> HIDE DEF D
  <2>5. c \in D
    <3> DEFINE s == c.slot
    <3>1. Meets(Skip(s), acc[Skip(s)].stake + acc[SkipFallback(s)].stake)
      BY Zenon, <2>1, <2>2
    <3>2. Skip(s) \in completed \cup SkipCert(acc, completed, s)
      BY Zenon, <3>1 DEF SkipCert, Base3, When
    <3> QED
      BY Zenon, <2>2, <2>4, <3>2
  <2> QED
    BY Zenon, <2>5 DEF D, Stronger
<1>8. c.type \in {"Notarize", "NotarizeFallback", "FinalizeFast", "Finalize", "Skip"}
  BY Zenon, CertShape
<1>9. CASE c.type \in {"Notarize", "FinalizeFast"}
  BY Zenon, <1>4, <1>9 DEF VotesOf
<1>10. CASE c.type = "NotarizeFallback"
  BY Zenon, <1>4, <1>5, <1>10 DEF VotesOf
<1> QED
  BY Zenon, <1>6, <1>7, <1>8, <1>9, <1>10

-----------------------------------------------------------------------------
(* The validators behind a certificate *)

\* The validators behind each vote, and those behind a certificate.
Voters == [v \in Vote |-> VotedBy(v)]

Back(V, c) ==
    CASE c.type \in {"Notarize", "FinalizeFast"} -> V[Cert("Notarize", c)]
      [] c.type = "NotarizeFallback" -> V[Cert("Notarize", c)] \cup V[c]
      [] c.type = "Finalize" -> V[c]
      [] c.type = "Skip" -> V[c] \cup V[SkipFallback(c.slot)]

LEMMA BackersBack ==
    ASSUME NEW c \in CertType
    PROVE  Backers(c) = Back(Voters, c) /\ Backers(c)' = Back(Voters', c)
<1>1. c.type \in {"Notarize", "NotarizeFallback", "FinalizeFast", "Finalize", "Skip"}
  BY Zenon, CertShape
<1>2. CASE c.type \in {"Notarize", "FinalizeFast"}
  BY Zenon, <1>2, VotesOfCert DEF Backers, Back, Voters
<1>3. CASE c.type = "NotarizeFallback"
  BY Zenon, <1>3, VotesOfCert DEF Backers, Back, Voters
<1>4. CASE c.type = "Finalize"
  BY Zenon, <1>4, VotesOfCert DEF Backers, Back, Voters
<1>5. CASE c.type = "Skip"
  BY Zenon, <1>5, VotesOfCert DEF Backers, Back, Voters
<1> QED
  BY Zenon, <1>1, <1>2, <1>3, <1>4, <1>5

LEMMA BackSets ==
    ASSUME NEW c \in CertType, NEW V \in [Vote -> SUBSET Validators]
    PROVE  /\ Back(V, c) \in SUBSET Validators
           /\ \A U \in [Vote -> SUBSET Validators] :
                  /\ (\A v \in VotesOf(c) : U[v] = V[v]) => Back(U, c) = Back(V, c)
                  /\ (\A v \in Vote : U[v] \subseteq V[v]) => Back(U, c) \subseteq Back(V, c)
<1>1. c.type \in {"Notarize", "NotarizeFallback", "FinalizeFast", "Finalize", "Skip"}
  BY Zenon, CertShape
<1>2. CASE c.type \in {"Notarize", "FinalizeFast"}
  BY Zenon, <1>2, VotesOfCert DEF Back, VotesOf
<1>3. CASE c.type = "NotarizeFallback"
  BY Zenon, <1>3, VotesOfCert DEF Back, VotesOf
<1>4. CASE c.type = "Finalize"
  BY Zenon, <1>4, VotesOfCert DEF Back, VotesOf
<1>5. CASE c.type = "Skip"
  BY Zenon, <1>5, VotesOfCert DEF Back, VotesOf
<1> QED
  BY Zenon, <1>1, <1>2, <1>3, <1>4, <1>5

\* The accumulators have at least the stake of the validators behind them, and
\* exactly that when they are exact and no validator is in two of them.
LEMMA BackPower ==
    ASSUME NEW c \in CertType, NEW V \in [Vote -> SUBSET Validators],
           NEW acc \in [Vote -> Accumulator],
           \A v \in VotesOf(c) : acc[v].stake >= Stake[V[v]]
    PROVE  /\ Power(acc, c) \in Nat
           /\ Stake[Back(V, c)] <= Power(acc, c)
           /\ /\ \A v \in VotesOf(c) : acc[v].stake = Stake[V[v]]
              /\ \A v, w \in VotesOf(c) : v # w => V[v] \cap V[w] = {}
              => Stake[Back(V, c)] = Power(acc, c)
<1>0. c.type \in {"Notarize", "NotarizeFallback", "FinalizeFast", "Finalize", "Skip"}
  BY Zenon, CertShape
<1>1. \A v \in Vote : V[v] \in SUBSET Validators /\ acc[v].stake \in Nat /\ Stake[V[v]] \in Nat
  BY Zenon, StakeType DEF Accumulator
<1>2. ASSUME NEW v \in Vote, Back(V, c) = V[v], Power(acc, c) = acc[v].stake, VotesOf(c) = {v}
      PROVE  /\ Power(acc, c) \in Nat
             /\ Stake[Back(V, c)] <= Power(acc, c)
             /\ /\ \A u \in VotesOf(c) : acc[u].stake = Stake[V[u]]
                /\ \A u, w \in VotesOf(c) : u # w => V[u] \cap V[w] = {}
                => Stake[Back(V, c)] = Power(acc, c)
  BY Zenon, <1>1, <1>2
<1>3. ASSUME NEW v \in Vote, NEW w \in Vote, v # w, Back(V, c) = V[v] \cup V[w],
             Power(acc, c) = acc[v].stake + acc[w].stake, VotesOf(c) = {v, w}
      PROVE  /\ Power(acc, c) \in Nat
             /\ Stake[Back(V, c)] <= Power(acc, c)
             /\ /\ \A u \in VotesOf(c) : acc[u].stake = Stake[V[u]]
                /\ \A u, x \in VotesOf(c) : u # x => V[u] \cap V[x] = {}
                => Stake[Back(V, c)] = Power(acc, c)
  <2>1. Stake[V[v] \cup V[w]] <= Stake[V[v]] + Stake[V[w]] /\ Stake[V[v] \cup V[w]] \in Nat
    BY Zenon, <1>1, StakeUnion, StakeType
  <2>2. V[v] \cap V[w] = {} => Stake[V[v] \cup V[w]] = Stake[V[v]] + Stake[V[w]]
    BY Zenon, <1>1, StakeType
  <2>3. acc[v].stake >= Stake[V[v]] /\ acc[w].stake >= Stake[V[w]]
    BY Zenon, <1>3
  <2>4. Power(acc, c) \in Nat /\ Stake[Back(V, c)] <= Power(acc, c)
    BY <1>1, <1>3, <2>1, <2>3
  <2>5. ASSUME \A u \in VotesOf(c) : acc[u].stake = Stake[V[u]],
               \A u, x \in VotesOf(c) : u # x => V[u] \cap V[x] = {}
        PROVE  Stake[Back(V, c)] = Power(acc, c)
    BY Zenon, <1>3, <2>2, <2>5
  <2> QED
    BY Zenon, <2>4, <2>5
<1>4. CASE c.type \in {"Notarize", "FinalizeFast"}
  <2>1. /\ Cert("Notarize", c) \in Vote /\ Back(V, c) = V[Cert("Notarize", c)]
        /\ Power(acc, c) = acc[Cert("Notarize", c)].stake /\ VotesOf(c) = {Cert("Notarize", c)}
    BY Zenon, <1>4, VotesOfCert DEF Back, Power, VotesOf
  <2> QED
    BY Zenon, <1>2, <2>1
<1>5. CASE c.type = "Finalize"
  <2>1. c \in Vote /\ Back(V, c) = V[c] /\ Power(acc, c) = acc[c].stake /\ VotesOf(c) = {c}
    BY Zenon, <1>5, VotesOfCert DEF Back, Power, VotesOf
  <2> QED
    BY Zenon, <1>2, <2>1
<1>6. CASE c.type = "NotarizeFallback"
  <2>1. /\ Cert("Notarize", c) \in Vote /\ c \in Vote
        /\ Back(V, c) = V[Cert("Notarize", c)] \cup V[c]
        /\ Power(acc, c) = acc[Cert("Notarize", c)].stake + acc[c].stake
        /\ VotesOf(c) = {Cert("Notarize", c), c}
    BY Zenon, <1>6, VotesOfCert DEF Back, Power, VotesOf
  <2>2. Cert("Notarize", c) # c
    BY <1>6, CertOfCert
  <2> QED
    BY Zenon, <1>3, <2>1, <2>2
<1>7. CASE c.type = "Skip"
  <2>1. /\ SkipFallback(c.slot) \in Vote /\ c \in Vote
        /\ Back(V, c) = V[c] \cup V[SkipFallback(c.slot)]
        /\ Power(acc, c) = acc[c].stake + acc[SkipFallback(c.slot)].stake
        /\ VotesOf(c) = {c, SkipFallback(c.slot)}
    BY Zenon, <1>7, VotesOfCert DEF Back, Power, VotesOf
  <2>2. SkipFallback(c.slot) # c
    BY <1>7 DEF SkipFallback
  <2> QED
    BY Zenon, <1>3, <2>1, <2>2
<1> QED
  BY Zenon, <1>0, <1>4, <1>5, <1>6, <1>7

-----------------------------------------------------------------------------
(* The votes of the pool *)

\* An accumulator from the root on has the validators whose vote was taken, with
\* their stake at least (more when an identity was switched), and no certificate
\* is missing.
VInv ==
    /\ me \in {Self, NoOne}
    /\ entries \in [Validators -> SUBSET Vote] /\ own \subseteq Vote
    /\ pool.acc \in [Vote -> Accumulator]
    /\ generated \subseteq CertType /\ switches \in Nat
    /\ \A v \in Vote :
           v.slot >= bankRoot =>
               pool.acc[v].ranks = VotedBy(v) /\ pool.acc[v].stake >= Stake[VotedBy(v)]
    /\ CertsComplete

\* Without a switch the own votes do not come from the network, no validator has
\* two votes that share a certificate, and the stake is exact.
Apart(S) ==
    \A v, w \in S :
        v.slot = w.slot =>
            /\ ~(v.type = "Skip" /\ w.type \in {"SkipFallback", "Notarize"})
            /\ v.type = "Notarize" /\ w.type = "Notarize" => v.id = w.id
            /\ ~(v.type = "Notarize" /\ w.type = "NotarizeFallback" /\ v.id = w.id)

Clean(m, E, O) ==
    /\ m = Self => E[Self] = {}
    /\ m = NoOne => O = {}
    /\ \A x \in Validators : Apart(E[x])
    /\ Apart(O)

SInv ==
    switches = 0 =>
        /\ Clean(me, entries, own)
        /\ \A v \in Vote : v.slot >= bankRoot => pool.acc[v].stake = Stake[VotedBy(v)]
        /\ CertsBacked

LEMMA VotersType == Voters \in [Vote -> SUBSET Validators] /\ Voters' \in [Vote -> SUBSET Validators]
  BY Zenon DEF Voters, VotedBy

LEMMA StrongerSlot ==
    ASSUME NEW c \in CertType
    PROVE  \A d \in Stronger(c) : d.slot = c.slot
  BY CertOfCert DEF Stronger, When

\* Pruning keeps what is of the new root or later.
LEMMA HandledFields ==
    ASSUME CInv, CInv', NEW p, IsPool(p), p.pruned = bankRoot, NEW new, Handled(p, new),
           p.acc \in [Vote -> Accumulator], p.completed \subseteq CertType
    PROVE  /\ bankRoot \in Int /\ bankRoot' \in Int /\ bankRoot' >= bankRoot
           /\ pool'.acc \in [Vote -> Accumulator]
           /\ \A v \in Vote : v.slot >= bankRoot' => pool'.acc[v] = p.acc[v]
           /\ \A c \in p.completed : c.slot >= bankRoot' => c \in pool'.completed
           /\ pool'.events = p.events /\ pool'.highest = p.highest
           /\ \A s \in Slot : s >= bankRoot' => pool'.counters[s] = p.counters[s]
           /\ p.counters \in [Slot -> Counters] => pool'.counters \in [Slot -> Counters]
           /\ \A b : b.slot >= bankRoot' => (b \in pool'.pending <=> b \in p.pending)
           /\ pool'.pending \subseteq p.pending
<1>1. bankRoot \in Int /\ bankRoot' \in Int
  BY DEF CInv, Slot
<1>2. bankRoot' >= bankRoot
  BY <1>1 DEF Handled
<1>3. pool' = maybe_prune(p, bankRoot')
  BY Zenon DEF Handled
<1>4. CASE bankRoot' <= p.pruned
  <2>1. pool' = p
    BY Zenon, <1>3, <1>4 DEF maybe_prune
  <2> QED
    BY Zenon, <1>1, <1>2, <2>1
<1>5. CASE ~(bankRoot' <= p.pruned)
  <2> DEFINE acc == [v \in Vote |-> IF v.slot >= bankRoot' THEN p.acc[v] ELSE NoVotes]
             counters == [s \in Slot |-> IF s >= bankRoot' THEN p.counters[s] ELSE NewCounters]
             completed == {c \in p.completed : c.slot >= bankRoot'}
             pending == {b \in p.pending : b.slot >= bankRoot'}
             tracker == set_tracker_root(p.tracker, bankRoot')
  <2>1. pool' = [p EXCEPT !.acc = acc, !.counters = counters, !.completed = completed,
                          !.pending = pending, !.tracker = tracker, !.pruned = bankRoot']
    BY Zenon, <1>3, <1>5 DEF maybe_prune
  <2>2. /\ acc \in [Vote -> Accumulator]
        /\ \A v \in Vote : v.slot >= bankRoot' => acc[v] = p.acc[v]
    BY Zenon DEF Accumulator, NoVotes
  <2>3. \A s \in Slot : s >= bankRoot' => counters[s] = p.counters[s]
    BY Zenon
  <2>4. p.counters \in [Slot -> Counters] => counters \in [Slot -> Counters]
    <3>1. NewCounters \in Counters
      BY Zenon DEF NewCounters, Counters
    <3> QED
      BY Zenon, <3>1
  <2>5. \A c \in p.completed : c.slot >= bankRoot' => c \in completed
    BY Zenon
  <2>6. (\A b : b.slot >= bankRoot' => (b \in pending <=> b \in p.pending)) /\ pending \subseteq p.pending
    BY Zenon
  <2> HIDE DEF acc, counters, completed, pending, tracker
  <2>7. /\ pool'.acc = acc /\ pool'.counters = counters /\ pool'.completed = completed
        /\ pool'.pending = pending /\ pool'.events = p.events /\ pool'.highest = p.highest
    BY Zenon, <2>1 DEF IsPool
  <2> QED
    BY Zenon, <1>1, <1>2, <2>2, <2>3, <2>4, <2>5, <2>6, <2>7
<1> QED
  BY Zenon, <1>4, <1>5

\* A message was handled that left the votes V behind the accumulators.
LEMMA HandledVInv ==
    ASSUME CInv, CInv', VInv, NEW p, IsPool(p), p.pruned = bankRoot, NEW new, Handled(p, new),
           p.acc \in [Vote -> Accumulator], p.completed \subseteq CertType,
           entries' \in [Validators -> SUBSET Vote], own' \subseteq Vote,
           generated' \subseteq CertType,
           \A v \in Vote : v.slot >= bankRoot =>
               p.acc[v].ranks = Voters'[v] /\ p.acc[v].stake >= Stake[Voters'[v]],
           \A c \in CertType : c.slot > bankRoot /\ Meets(c, Stake[Back(Voters', c)]) =>
               Stronger(c) \cap p.completed # {}
    PROVE  VInv'
<1>1. /\ bankRoot \in Int /\ bankRoot' \in Int /\ bankRoot' >= bankRoot
      /\ pool'.acc \in [Vote -> Accumulator]
      /\ \A v \in Vote : v.slot >= bankRoot' => pool'.acc[v] = p.acc[v]
      /\ \A c \in p.completed : c.slot >= bankRoot' => c \in pool'.completed
  BY Zenon, HandledFields
<1>2. \A v \in Vote : v.slot \in Int /\ VotedBy(v)' = Voters'[v]
  BY Zenon, VoteShape DEF Voters
<1>3. \A v \in Vote :
          v.slot >= bankRoot' =>
              pool'.acc[v].ranks = VotedBy(v)' /\ pool'.acc[v].stake >= Stake[VotedBy(v)']
  BY <1>1, <1>2
<1>4. CertsComplete'
  <2> SUFFICES ASSUME NEW c \in CertType, c.slot > pool'.pruned, Meets(c, Stake[Backers(c)'])
               PROVE  Stronger(c) \cap pool'.completed # {}
    BY Zenon DEF CertsComplete
  <2>1. pool'.pruned = bankRoot' /\ c.slot \in Int
    BY Zenon, CertShape DEF CInv
  <2>2. Meets(c, Stake[Back(Voters', c)]) /\ c.slot > bankRoot
    BY <1>1, <2>1, BackersBack
  <2>3. PICK d \in Stronger(c) : d \in p.completed
    BY Zenon, <2>2
  <2>4. d.slot = c.slot
    BY Zenon, StrongerSlot
  <2>5. c.slot >= bankRoot'
    BY <1>1, <2>1
  <2>6. d \in pool'.completed
    BY Zenon, <1>1, <2>3, <2>4, <2>5
  <2> QED
    BY Zenon, <2>6
<1>5. me' \in {Self, NoOne} /\ switches' \in Nat
  BY Zenon DEF Handled, VInv
<1> QED
  BY Zenon, <1>1, <1>3, <1>4, <1>5 DEF VInv

\* The pool when a vote was counted.
LEMMA VotedPool ==
    ASSUME CInv, VInv, NEW v \in Vote, NEW a \in Accumulator, NEW isOwn,
           NEW p, p = WithVote(pool, v, a, isOwn),
           NEW acc, acc = Put(pool.acc, v, a)
    PROVE  /\ IsPool(p) /\ p.pruned = bankRoot /\ p.acc = acc
           /\ acc \in [Vote -> Accumulator]
           /\ acc[v] = a /\ \A w \in Vote : w # v => acc[w] = pool.acc[w]
           /\ p.completed = pool.completed \cup NewCerts(pool, v, a)
           /\ pool.completed \subseteq CertType /\ p.completed \subseteq CertType
           /\ NewCerts(pool, v, a) \subseteq CertType
           /\ NewCerts(pool, v, a) = try_produce_cert(acc, pool.completed, v)
<1> DEFINE r == Voted(pool, v, a, isOwn)
<1>0. r = Voted(pool, v, a, isOwn) /\ IsPool(pool) /\ pool.pruned = bankRoot
      /\ pool.completed \subseteq CertType /\ pool.acc \in [Vote -> Accumulator]
  BY Zenon DEF CInv, VInv
<1> HIDE DEF r
<1>1. IsPool(r) /\ r.acc = acc /\ r.completed = pool.completed /\ r.pruned = pool.pruned
  BY <1>0, VotedFields
<1>2. \/ NewCerts(pool, v, a) = {} /\ p = r
      \/ \E c \in CertType : /\ NewCerts(pool, v, a) = {c}
                             /\ c.slot = v.slot /\ c \notin pool.completed
                             /\ p = insert_certificate(r, c)
  BY <1>0, VoteInserts
<1>3. /\ IsPool(p) /\ p.acc = acc /\ p.pruned = pool.pruned
      /\ p.completed = pool.completed \cup NewCerts(pool, v, a)
      /\ NewCerts(pool, v, a) \subseteq CertType
  <2>1. CASE NewCerts(pool, v, a) = {} /\ p = r
    BY Zenon, <1>1, <2>1
  <2>2. ASSUME NEW c \in CertType, NewCerts(pool, v, a) = {c}, p = insert_certificate(r, c)
        PROVE  /\ IsPool(p) /\ p.acc = acc /\ p.pruned = pool.pruned
               /\ p.completed = pool.completed \cup NewCerts(pool, v, a)
               /\ NewCerts(pool, v, a) \subseteq CertType
    <3>1. IsPool(p) /\ p.acc = r.acc /\ p.pruned = r.pruned /\ p.completed = r.completed \cup {c}
      BY <1>1, <2>2, InsertFields
    <3> QED
      BY Zenon, <1>1, <2>2, <3>1
  <2> QED
    BY Zenon, <1>2, <2>1, <2>2
<1>4. /\ acc \in [Vote -> Accumulator]
      /\ acc[v] = a /\ \A w \in Vote : w # v => acc[w] = pool.acc[w]
  BY Zenon, <1>0 DEF Put
<1>5. NewCerts(pool, v, a) = try_produce_cert(acc, pool.completed, v)
  BY Zenon DEF NewCerts, Put
<1> QED
  BY Zenon, <1>0, <1>3, <1>4, <1>5

\* A vote was counted for the validators that cast it.
LEMMA VoteVInv ==
    ASSUME CInv, CInv', VInv, NEW v \in Vote, v.slot >= bankRoot, NEW a \in Accumulator, NEW isOwn,
           Handled(WithVote(pool, v, a, isOwn), NewCerts(pool, v, a)),
           generated' = generated \cup NewCerts(pool, v, a),
           entries' \in [Validators -> SUBSET Vote], own' \subseteq Vote,
           a.ranks = Voters'[v], a.stake >= Stake[Voters'[v]],
           \A w \in Vote : w # v => Voters'[w] = Voters[w]
    PROVE  VInv'
<1> DEFINE p == WithVote(pool, v, a, isOwn)
           acc == Put(pool.acc, v, a)
<1>0. p = WithVote(pool, v, a, isOwn) /\ acc = Put(pool.acc, v, a)
      /\ Handled(p, NewCerts(pool, v, a))
  BY Zenon
<1> HIDE DEF p, acc
<1>1. /\ IsPool(p) /\ p.pruned = bankRoot /\ p.acc = acc
      /\ acc \in [Vote -> Accumulator]
      /\ acc[v] = a /\ \A w \in Vote : w # v => acc[w] = pool.acc[w]
      /\ p.completed = pool.completed \cup NewCerts(pool, v, a)
      /\ p.completed \subseteq CertType
      /\ NewCerts(pool, v, a) \subseteq CertType
      /\ NewCerts(pool, v, a) = try_produce_cert(acc, pool.completed, v)
  BY <1>0, VotedPool
<1>2. ASSUME NEW w \in Vote, w.slot >= bankRoot
      PROVE  acc[w].ranks = Voters'[w] /\ acc[w].stake >= Stake[Voters'[w]]
  <2>1. CASE w = v
    BY Zenon, <1>1, <2>1
  <2>2. CASE w # v
    <3>1. acc[w] = pool.acc[w] /\ Voters'[w] = VotedBy(w)
      BY Zenon, <1>1, <2>2 DEF Voters
    <3> QED
      BY Zenon, <1>2, <3>1 DEF VInv
  <2> QED
    BY Zenon, <2>1, <2>2
<1>3. ASSUME NEW c \in CertType, c.slot > bankRoot, Meets(c, Stake[Back(Voters', c)])
      PROVE  Stronger(c) \cap p.completed # {}
  <2>0. bankRoot \in Int /\ c.slot \in Int /\ pool.pruned = bankRoot
    BY CertShape DEF CInv, Slot
  <2>1. CASE v \in VotesOf(c)
    <3>1. \A w \in VotesOf(c) : acc[w].stake >= Stake[Voters'[w]]
      BY <1>2, <1>3, <2>0, VotesOfCert
    <3>2. Power(acc, c) \in Nat /\ Stake[Back(Voters', c)] <= Power(acc, c)
      BY Zenon, <1>1, <3>1, BackPower, VotersType
    <3>3. Stake[Back(Voters', c)] \in Nat
      BY Zenon, BackSets, VotersType, StakeType
    <3>4. Meets(c, Power(acc, c))
      BY <1>3, <3>2, <3>3, MoreMeets
    <3> QED
      BY <1>1, <2>1, <3>4, MeetsBuilt
  <2>2. CASE v \notin VotesOf(c)
    <3>1. \A w \in VotesOf(c) : Voters'[w] = Voters[w]
      BY Zenon, <2>2, VotesOfCert
    <3>2. Back(Voters', c) = Back(Voters, c)
      BY Zenon, <3>1, BackSets, VotersType
    <3>3. Meets(c, Stake[Backers(c)])
      BY Zenon, <1>3, <3>2, BackersBack
    <3>4. Stronger(c) \cap pool.completed # {}
      BY Zenon, <1>3, <2>0, <3>3 DEF VInv, CertsComplete
    <3> QED
      BY Zenon, <1>1, <3>4
  <2> QED
    BY Zenon, <2>1, <2>2
<1>4. generated' \subseteq CertType
  BY Zenon, <1>1 DEF VInv
<1>5. /\ p.acc \in [Vote -> Accumulator]
      /\ \A w \in Vote : w.slot >= bankRoot =>
             p.acc[w].ranks = Voters'[w] /\ p.acc[w].stake >= Stake[Voters'[w]]
  BY Zenon, <1>1, <1>2
<1> QED
  BY Zenon, <1>0, <1>1, <1>3, <1>4, <1>5, HandledVInv

-----------------------------------------------------------------------------
(* The steps that take votes *)

LEMMA InitVInv == Init => VInv /\ SInv
<1> SUFFICES ASSUME Init PROVE VInv /\ SInv
  BY Zenon
<1>1. PICK b \in Block : pool = NewPool(b)
  BY Zenon DEF Init
<1>2. pool.acc = [v \in Vote |-> NoVotes]
  BY Zenon, <1>1 DEF NewPool
<1>3. \A v \in Vote : VotedBy(v) = {}
  BY Zenon DEF Init, VotedBy
<1>4. \A v \in Vote : pool.acc[v].ranks = VotedBy(v) /\ pool.acc[v].stake = Stake[VotedBy(v)]
                      /\ pool.acc[v].stake >= Stake[VotedBy(v)]
  <2>1. \A v \in Vote : pool.acc[v].ranks = {} /\ pool.acc[v].stake = 0
    BY <1>2 DEF NoVotes
  <2>2. Stake[{}] = 0 /\ 0 >= 0
    BY StakeEmpty
  <2> QED
    BY Zenon, <1>3, <2>1, <2>2
<1>5. pool.acc \in [Vote -> Accumulator]
  BY <1>2 DEF NoVotes, Accumulator
<1>6. CertsComplete
  <2> SUFFICES ASSUME NEW c \in CertType, Meets(c, Stake[Backers(c)]) PROVE FALSE
    BY Zenon DEF CertsComplete
  <2>1. Voters = [v \in Vote |-> {}]
    BY Zenon, <1>3 DEF Voters
  <2>2. Back(Voters, c) = {}
    <3>1. c.type \in {"Notarize", "NotarizeFallback", "FinalizeFast", "Finalize", "Skip"}
      BY Zenon, CertShape
    <3> QED
      BY Zenon, <2>1, <3>1, VotesOfCert DEF Back
  <2>3. Meets(c, 0)
    BY Zenon, <2>2, BackersBack, StakeEmpty
  <2>4. Stake[Validators] \in Nat /\ Stake[Validators] > 0
    BY Zenon, StakeAssumption
  <2> QED
    BY <2>3, <2>4 DEF Meets, AtLeast
<1>7. Clean(me, entries, own)
  BY Zenon, PoolAssumption DEF Init, Clean, Apart
<1>8. CertsBacked
  BY Zenon DEF Init, CertsBacked
<1> QED
  BY Zenon, <1>4, <1>5, <1>6, <1>7, <1>8 DEF Init, VInv, SInv

\* Who has voted after the votes of some validators, and after an own one.
LEMMA VotersGrow ==
    ASSUME entries \in [Validators -> SUBSET Vote], own \subseteq Vote, NEW v \in Vote
    PROVE  /\ \A senders \in SUBSET Validators :
                  /\ entries' = [x \in Validators |-> entries[x] \cup When(x \in senders, {v})]
                  /\ own' = own
                  => /\ entries' \in [Validators -> SUBSET Vote]
                     /\ Voters'[v] = Voters[v] \cup senders
                     /\ \A w \in Vote : w # v => Voters'[w] = Voters[w]
           /\ own' = own \cup {v} /\ entries' = entries
                  => /\ Voters'[v] = Voters[v] \cup {Self}
                     /\ \A w \in Vote : w # v => Voters'[w] = Voters[w]
<1>1. ASSUME NEW senders \in SUBSET Validators,
             entries' = [x \in Validators |-> entries[x] \cup When(x \in senders, {v})],
             own' = own
      PROVE  /\ entries' \in [Validators -> SUBSET Vote]
             /\ Voters'[v] = Voters[v] \cup senders
             /\ \A w \in Vote : w # v => Voters'[w] = Voters[w]
  <2>1. \A x \in Validators : \A w : w \in entries'[x] <=> w \in entries[x] \/ (x \in senders /\ w = v)
    BY Zenon, <1>1 DEF When
  <2>2. VotedBy(v)' = VotedBy(v) \cup senders
    <3>1. \A x \in Validators : x \in VotedBy(v)' <=> x \in VotedBy(v) \/ x \in senders
      BY Zenon, <1>1, <2>1 DEF VotedBy
    <3>2. VotedBy(v)' \subseteq Validators /\ VotedBy(v) \subseteq Validators
      BY Zenon DEF VotedBy
    <3> QED
      BY Zenon, <3>1, <3>2
  <2>3. ASSUME NEW w \in Vote, w # v PROVE VotedBy(w)' = VotedBy(w)
    <3>1. \A x \in Validators : x \in VotedBy(w)' <=> x \in VotedBy(w)
      BY <1>1, <2>1, <2>3 DEF VotedBy
    <3>2. VotedBy(w)' \subseteq Validators /\ VotedBy(w) \subseteq Validators
      BY Zenon DEF VotedBy
    <3> QED
      BY Zenon, <3>1, <3>2
  <2>4. entries' \in [Validators -> SUBSET Vote]
    BY Zenon, <1>1 DEF When
  <2> QED
    BY Zenon, <2>2, <2>3, <2>4 DEF Voters
<1>2. ASSUME own' = own \cup {v}, entries' = entries
      PROVE  /\ Voters'[v] = Voters[v] \cup {Self}
             /\ \A w \in Vote : w # v => Voters'[w] = Voters[w]
  <2>1. VotedBy(v)' = VotedBy(v) \cup {Self}
    BY Zenon, <1>2, PoolAssumption DEF VotedBy
  <2>2. \A w \in Vote : w # v => VotedBy(w)' = VotedBy(w)
    BY Zenon, <1>2 DEF VotedBy
  <2> QED
    BY Zenon, <2>1, <2>2 DEF Voters
<1> QED
  BY Zenon, <1>1, <1>2

\* The accumulator with more validators.
LEMMA Aggregate ==
    ASSUME NEW a \in Accumulator, NEW S \in SUBSET Validators,
           a.stake >= Stake[a.ranks]
    PROVE  LET b == add_aggregate(a, S)
           IN  /\ b \in Accumulator /\ b.ranks = a.ranks \cup S
               /\ b.stake >= Stake[b.ranks]
               /\ a.stake = Stake[a.ranks] /\ a.ranks \cap S = {} => b.stake = Stake[b.ranks]
<1> DEFINE b == add_aggregate(a, S)
<1>1. a.ranks \in SUBSET Validators /\ a.stake \in Nat /\ Stake[S] \in Nat
  BY Zenon, StakeType DEF Accumulator
<1>2. b.ranks = a.ranks \cup S /\ b.stake = a.stake + Stake[S] /\ b = [ranks |-> b.ranks, stake |-> b.stake]
  BY Zenon DEF add_aggregate
<1>3. b \in Accumulator
  BY <1>1, <1>2 DEF Accumulator
<1>4. Stake[a.ranks \cup S] <= Stake[a.ranks] + Stake[S] /\ Stake[a.ranks] \in Nat
      /\ Stake[a.ranks \cup S] \in Nat
  BY Zenon, <1>1, StakeUnion, StakeType
<1>5. a.ranks \cap S = {} => Stake[a.ranks \cup S] = Stake[a.ranks] + Stake[S]
  BY Zenon, <1>1, StakeType
<1> HIDE DEF b
<1>6. b.stake >= Stake[b.ranks]
  BY <1>1, <1>2, <1>4
<1>7. a.stake = Stake[a.ranks] /\ a.ranks \cap S = {} => b.stake = Stake[b.ranks]
  BY Zenon, <1>2, <1>5
<1> QED
  BY Zenon, <1>2, <1>3, <1>6, <1>7 DEF b

LEMMA NextVInv ==
    ASSUME CInv, CInv', VInv, Next
    PROVE  VInv'
<1>0. /\ bankRoot \in Int /\ ArrivingVotes \subseteq Vote /\ IsPool(pool) /\ pool.pruned = bankRoot
      /\ pool.completed \subseteq CertType
      /\ entries \in [Validators -> SUBSET Vote] /\ own \subseteq Vote
      /\ pool.acc \in [Vote -> Accumulator] /\ generated \subseteq CertType
  BY DEF CInv, Slot, ArrivingVotes, VInv
<1>1. ASSUME NEW v \in ArrivingVotes, NEW senders \in SUBSET Validators, ReceiveVotes(v, senders)
      PROVE  VInv'
  <2> DEFINE a == add_aggregate(pool.acc[v], senders)
  <2>1. v \in Vote /\ v.slot >= bankRoot
        /\ Handled(WithVote(pool, v, a, FALSE), NewCerts(pool, v, a))
        /\ generated' = generated \cup NewCerts(pool, v, a)
    BY Zenon, <1>0, <1>1 DEF ReceiveVotes, AggregateVote
  <2>2. /\ entries' \in [Validators -> SUBSET Vote] /\ own' \subseteq Vote
        /\ Voters'[v] = Voters[v] \cup senders
        /\ \A w \in Vote : w # v => Voters'[w] = Voters[w]
    <3>1. /\ entries' = [x \in Validators |-> entries[x] \cup When(x \in senders, {v})]
          /\ own' = own
      BY Zenon, <1>1 DEF ReceiveVotes
    <3> QED
      BY Zenon, <1>0, <2>1, <3>1, VotersGrow
  <2>3. /\ pool.acc[v] \in Accumulator /\ pool.acc[v].ranks = Voters[v]
        /\ pool.acc[v].stake >= Stake[pool.acc[v].ranks]
    BY Zenon, <1>0, <2>1 DEF VInv, Voters
  <2>4. a \in Accumulator /\ a.ranks = Voters[v] \cup senders /\ a.stake >= Stake[a.ranks]
    BY Zenon, <2>3, Aggregate
  <2> HIDE DEF a
  <2>5. a.ranks = Voters'[v] /\ a.stake >= Stake[Voters'[v]]
    BY Zenon, <2>2, <2>4
  <2> QED
    BY Zenon, <2>1, <2>2, <2>4, <2>5, VoteVInv
<1>2. ASSUME NEW v \in ArrivingVotes, CastVote(v)
      PROVE  VInv'
  <2> DEFINE a == add_own_vote_message(pool.acc[v], me)
  <2>1. /\ v \in Vote /\ v.slot >= bankRoot /\ me = Self
        /\ Handled(OwnVoteMessage(pool, v, me), When(me \notin pool.acc[v].ranks, NewCerts(pool, v, a)))
        /\ generated' = generated \cup When(me \notin pool.acc[v].ranks, NewCerts(pool, v, a))
        /\ own' = own \cup {v} /\ entries' = entries
    BY Zenon, <1>0, <1>2 DEF CastVote
  <2>2. /\ Voters'[v] = Voters[v] \cup {Self}
        /\ \A w \in Vote : w # v => Voters'[w] = Voters[w]
    BY Zenon, <1>0, <2>1, VotersGrow
  <2>3. /\ pool.acc[v] \in Accumulator /\ pool.acc[v].ranks = Voters[v]
        /\ pool.acc[v].stake >= Stake[pool.acc[v].ranks]
    BY Zenon, <1>0, <2>1 DEF VInv, Voters
  <2>4. entries' \in [Validators -> SUBSET Vote] /\ own' \subseteq Vote
    BY Zenon, <1>0, <2>1
  <2>5. CASE me \in pool.acc[v].ranks
    <3>1. Handled(pool, {}) /\ generated' = generated
      BY Zenon, <2>1, <2>5, OwnVote DEF When
    <3>2. Voters' = Voters
      <4>1. \A w \in Vote : Voters'[w] = Voters[w]
        BY Zenon, <2>1, <2>2, <2>3, <2>5
      <4> QED
        BY <4>1, VotersType
    <3>3. \A w \in Vote : w.slot >= bankRoot =>
              pool.acc[w].ranks = Voters'[w] /\ pool.acc[w].stake >= Stake[Voters'[w]]
      BY Zenon, <3>2 DEF VInv, Voters
    <3>4. \A c \in CertType : c.slot > bankRoot /\ Meets(c, Stake[Back(Voters', c)]) =>
              Stronger(c) \cap pool.completed # {}
      BY Zenon, <1>0, <3>2, BackersBack DEF VInv, CertsComplete
    <3> QED
      BY Zenon, <1>0, <2>4, <3>1, <3>3, <3>4, HandledVInv
  <2>6. CASE me \notin pool.acc[v].ranks
    <3>1. /\ Handled(WithVote(pool, v, a, TRUE), NewCerts(pool, v, a))
          /\ generated' = generated \cup NewCerts(pool, v, a)
          /\ a = add_aggregate(pool.acc[v], {me})
      BY Zenon, <2>1, <2>6, OwnVote DEF When
    <3>2. {me} \in SUBSET Validators
      BY Zenon, <2>1, PoolAssumption
    <3>3. a \in Accumulator /\ a.ranks = Voters[v] \cup {me} /\ a.stake >= Stake[a.ranks]
      BY Zenon, <2>3, <3>1, <3>2, Aggregate
    <3> HIDE DEF a
    <3>4. a.ranks = Voters'[v] /\ a.stake >= Stake[Voters'[v]]
      BY Zenon, <2>1, <2>2, <3>3
    <3> QED
      BY Zenon, <2>1, <2>2, <2>4, <3>1, <3>3, <3>4, VoteVInv
  <2> QED
    BY Zenon, <2>5, <2>6
<1>3. ASSUME NEW c \in Certificates, ReceiveCertificate(c)
      PROVE  VInv'
  <2>1. c \in CertType /\ c.slot >= bankRoot /\ c \notin pool.completed
    BY Zenon, <1>3, PoolAssumption DEF ReceiveCertificate
  <2>2. ~(c.slot < bankRoot)
    BY <1>0, <2>1, CertShape
  <2>3. Handled(insert_certificate(pool, c), {c}) /\ UNCHANGED <<entries, own, generated>>
    BY Zenon, <1>3, <2>1, <2>2 DEF ReceiveCertificate, add_cert
  <2> DEFINE p == insert_certificate(pool, c)
  <2>4. p = insert_certificate(pool, c) /\ Handled(p, {c})
    BY Zenon, <2>3
  <2> HIDE DEF p
  <2>5. IsPool(p) /\ p.acc = pool.acc /\ p.completed = pool.completed \cup {c} /\ p.pruned = bankRoot
    BY <1>0, <2>4, InsertFields
  <2>6. Voters' = Voters
    BY Zenon, <2>3 DEF Voters, VotedBy
  <2>7. \A w \in Vote : w.slot >= bankRoot =>
            p.acc[w].ranks = Voters'[w] /\ p.acc[w].stake >= Stake[Voters'[w]]
    BY Zenon, <2>5, <2>6 DEF VInv, Voters
  <2>8. \A d \in CertType : d.slot > bankRoot /\ Meets(d, Stake[Back(Voters', d)]) =>
            Stronger(d) \cap p.completed # {}
    <3>1. \A d \in CertType : d.slot > bankRoot /\ Meets(d, Stake[Back(Voters', d)]) =>
              Stronger(d) \cap pool.completed # {}
      BY Zenon, <1>0, <2>6, BackersBack DEF VInv, CertsComplete
    <3> QED
      BY Zenon, <2>5, <3>1
  <2>9. /\ p.acc \in [Vote -> Accumulator] /\ p.completed \subseteq CertType
        /\ entries' \in [Validators -> SUBSET Vote] /\ own' \subseteq Vote
        /\ generated' \subseteq CertType
    BY Zenon, <1>0, <2>1, <2>3, <2>5
  <2> QED
    BY Zenon, <2>4, <2>5, <2>7, <2>8, <2>9, HandledVInv
<1>4. ASSUME pool'.acc = pool.acc, pool'.completed = pool.completed, pool'.pruned = pool.pruned,
             UNCHANGED <<entries, own, bankRoot, generated>>, me' \in {Self, NoOne},
             switches' \in Nat
      PROVE  VInv'
  <2>1. (\A v : VotedBy(v)' = VotedBy(v)) /\ (\A c : Backers(c)' = Backers(c))
    BY Zenon, <1>4 DEF VotedBy, Backers
  <2>2. CertsComplete'
    BY Zenon, <1>4, <2>1 DEF VInv, CertsComplete
  <2> QED
    BY Zenon, <1>4, <2>1, <2>2 DEF VInv
<1>5. ASSUME NEW full \in SUBSET pool.pending, ProcessPending(full)
      PROVE  VInv'
  <2> DEFINE asked == {Event("SafeToNotar", b.slot, b.id) : b \in Resolved(Taken(full))}
  <2>1. pool' = [pool EXCEPT !.pending = full, !.events = @ \cup asked]
        /\ UNCHANGED <<me, entries, own, bankRoot, generated, switches>>
    BY Zenon, <1>5 DEF ProcessPending
  <2> HIDE DEF asked
  <2>2. pool'.acc = pool.acc /\ pool'.completed = pool.completed /\ pool'.pruned = pool.pruned
    BY Zenon, <1>0, <2>1 DEF IsPool
  <2> QED
    BY Zenon, <1>4, <2>1, <2>2 DEF VInv
<1>6. ASSUME NEW b \in DOMAIN Parent, ReceiveBlock(b) PROVE VInv'
  BY Zenon, <1>4, <1>6 DEF ReceiveBlock, VInv
<1>7. CASE SwitchIdentity
  BY <1>4, <1>7 DEF SwitchIdentity, VInv
<1> QED
  BY Zenon, <1>1, <1>2, <1>3, <1>5, <1>6, <1>7 DEF Next

-----------------------------------------------------------------------------
(* Without a switch of the identity *)

\* Two votes that one validator may not cast have different validators.
Voting(E, O, v) == {x \in Validators : v \in E[x] \/ (x = Self /\ v \in O)}

LEMMA ApartVoters ==
    ASSUME NEW m \in {Self, NoOne}, NEW E, NEW O, Clean(m, E, O),
           NEW v, NEW w, v.slot = w.slot,
           \/ v.type = "Skip" /\ w.type \in {"SkipFallback", "Notarize"}
           \/ v.type = "Notarize" /\ w.type = "Notarize" /\ v.id # w.id
           \/ v.type = "Notarize" /\ w.type = "NotarizeFallback" /\ v.id = w.id
    PROVE  Voting(E, O, v) \cap Voting(E, O, w) = {}
<1> SUFFICES ASSUME NEW x \in Validators, x \in Voting(E, O, v), x \in Voting(E, O, w)
             PROVE  FALSE
  BY Zenon DEF Voting
<1>1. \A S : v \in S /\ w \in S => ~Apart(S)
  BY Zenon DEF Apart
<1>2. (v \in E[x] /\ w \in E[x]) \/ (v \in O /\ w \in O)
  BY Zenon DEF Voting, Clean
<1> QED
  BY Zenon, <1>1, <1>2 DEF Clean

LEMMA VotesApart ==
    ASSUME NEW m \in {Self, NoOne}, NEW E, NEW O, Clean(m, E, O), NEW c \in CertType,
           NEW v \in VotesOf(c), NEW w \in VotesOf(c), v # w
    PROVE  Voting(E, O, v) \cap Voting(E, O, w) = {}
<1>0. c.type \in {"Notarize", "NotarizeFallback", "FinalizeFast", "Finalize", "Skip"}
  BY Zenon, CertShape
<1>1. CASE c.type = "NotarizeFallback"
  <2>1. VotesOf(c) = {Cert("Notarize", c), c}
    BY Zenon, <1>1 DEF VotesOf
  <2>2. /\ Cert("Notarize", c).type = "Notarize" /\ Cert("Notarize", c).slot = c.slot
        /\ Cert("Notarize", c).id = c.id
    BY CertOfCert
  <2>3. Voting(E, O, Cert("Notarize", c)) \cap Voting(E, O, c) = {}
    BY Zenon, <1>1, <2>2, ApartVoters
  <2> QED
    BY <2>1, <2>3
<1>2. CASE c.type = "Skip"
  <2>1. VotesOf(c) = {c, SkipFallback(c.slot)}
    BY Zenon, <1>2 DEF VotesOf
  <2>2. SkipFallback(c.slot).type = "SkipFallback" /\ SkipFallback(c.slot).slot = c.slot
    BY Zenon DEF SkipFallback
  <2>3. Voting(E, O, c) \cap Voting(E, O, SkipFallback(c.slot)) = {}
    BY Zenon, <1>2, <2>2, ApartVoters
  <2> QED
    BY <2>1, <2>3
<1>3. CASE c.type \in {"Notarize", "FinalizeFast", "Finalize"}
  BY <1>3 DEF VotesOf
<1> QED
  BY Zenon, <1>0, <1>1, <1>2, <1>3

\* A vote that contradicts none of its slot may be added.
LEMMA ApartAdd ==
    ASSUME NEW S \in SUBSET Vote, Apart(S), NEW v \in Vote, NEW E,
           {w \in S : w.slot = v.slot} \ {v} \subseteq E, ~Contradicts(E, v)
    PROVE  Apart(S \cup {v})
<1>1. \A w \in S : w.slot = v.slot /\ w # v => w.type \notin Excludes(v.type) /\ ~WrongBlock(v, w)
  BY Zenon DEF Contradicts
<1>2. v.type \in {"Notarize", "NotarizeFallback", "Finalize", "Skip", "SkipFallback"}
  BY Zenon, VoteShape
<1>3. ASSUME NEW w \in S, w.slot = v.slot, w # v
      PROVE  /\ ~(v.type = "Skip" /\ w.type \in {"SkipFallback", "Notarize"})
             /\ ~(w.type = "Skip" /\ v.type \in {"SkipFallback", "Notarize"})
             /\ v.type = "Notarize" /\ w.type = "Notarize" => v.id = w.id
             /\ ~(v.type = "Notarize" /\ w.type = "NotarizeFallback" /\ v.id = w.id)
             /\ ~(w.type = "Notarize" /\ v.type = "NotarizeFallback" /\ v.id = w.id)
  <2>1. w.type \notin Excludes(v.type) /\ ~WrongBlock(v, w)
    BY Zenon, <1>1, <1>3
  <2>2. /\ Excludes("Skip") = {"Notarize", "Finalize", "SkipFallback", "Genesis"}
        /\ Excludes("SkipFallback") = {"Finalize", "Skip", "Genesis"}
        /\ Excludes("Notarize") = {"Skip", "Genesis"}
    BY Zenon DEF Excludes
  <2>3. /\ v.type = "Notarize" /\ w.type = "Notarize" => v.id = w.id
        /\ ~(v.type = "Notarize" /\ w.type = "NotarizeFallback" /\ v.id = w.id)
        /\ ~(w.type = "Notarize" /\ v.type = "NotarizeFallback" /\ v.id = w.id)
    BY Zenon, <2>1 DEF WrongBlock
  <2> QED
    BY Zenon, <2>1, <2>2, <2>3
<1> QED
  BY Zenon, <1>3 DEF Apart

LEMMA VoteSInv ==
    ASSUME CInv, CInv', VInv, SInv, NEW v \in Vote, v.slot >= bankRoot, NEW a \in Accumulator,
           NEW isOwn, Handled(WithVote(pool, v, a, isOwn), NewCerts(pool, v, a)),
           generated' = generated \cup NewCerts(pool, v, a),
           switches = 0, Clean(me', entries', own'),
           a.stake = Stake[Voters'[v]], Voters[v] \subseteq Voters'[v],
           \A w \in Vote : w # v => Voters'[w] = Voters[w]
    PROVE  SInv'
<1> DEFINE p == WithVote(pool, v, a, isOwn)
           acc == Put(pool.acc, v, a)
<1>0. p = WithVote(pool, v, a, isOwn) /\ acc = Put(pool.acc, v, a)
      /\ Handled(p, NewCerts(pool, v, a))
  BY Zenon
<1> HIDE DEF p, acc
<1>1. /\ IsPool(p) /\ p.pruned = bankRoot /\ p.acc = acc
      /\ acc \in [Vote -> Accumulator]
      /\ acc[v] = a /\ \A w \in Vote : w # v => acc[w] = pool.acc[w]
      /\ p.completed \subseteq CertType
      /\ NewCerts(pool, v, a) \subseteq CertType
      /\ NewCerts(pool, v, a) = try_produce_cert(acc, pool.completed, v)
  BY <1>0, VotedPool
<1>2. ASSUME NEW w \in Vote, w.slot >= bankRoot
      PROVE  acc[w].stake = Stake[Voters'[w]]
  <2>1. CASE w = v
    BY Zenon, <1>1, <2>1
  <2>2. CASE w # v
    <3>1. acc[w] = pool.acc[w] /\ Voters'[w] = VotedBy(w)
      BY Zenon, <1>1, <2>2 DEF Voters
    <3> QED
      BY Zenon, <1>2, <3>1 DEF SInv
  <2> QED
    BY Zenon, <2>1, <2>2
<1>3. /\ bankRoot \in Int /\ bankRoot' \in Int /\ bankRoot' >= bankRoot
      /\ \A w \in Vote : w.slot >= bankRoot' => pool'.acc[w] = p.acc[w]
  BY Zenon, <1>0, <1>1, HandledFields
<1>4. \A w \in Vote : w.slot \in Int /\ VotedBy(w)' = Voters'[w]
  BY Zenon, VoteShape DEF Voters
<1>5. \A w \in Vote : w.slot >= bankRoot' => pool'.acc[w].stake = Stake[VotedBy(w)']
  BY <1>1, <1>2, <1>3, <1>4
<1>6. ASSUME NEW c \in generated' PROVE Meets(c, Stake[Backers(c)'])
  <2>1. CASE c \in generated
    <3>1. c \in CertType /\ Meets(c, Stake[Back(Voters, c)])
      BY Zenon, <2>1, BackersBack DEF VInv, SInv, CertsBacked
    <3>2. \A w \in Vote : Voters[w] \subseteq Voters'[w]
      BY Zenon
    <3>3. Back(Voters, c) \subseteq Back(Voters', c) /\ Back(Voters', c) \in SUBSET Validators
      BY Zenon, <3>1, <3>2, BackSets, VotersType
    <3>4. /\ Stake[Back(Voters, c)] <= Stake[Back(Voters', c)]
          /\ Stake[Back(Voters, c)] \in Int /\ Stake[Back(Voters', c)] \in Int
      BY <3>3, StakeSubset, StakeType
    <3> QED
      BY Zenon, <3>1, <3>4, MoreMeets, BackersBack
  <2>2. CASE c \in NewCerts(pool, v, a)
    <3>1. c \in CertType /\ Meets(c, Power(acc, c)) /\ c.slot = v.slot
      <4>1. c \in CertType /\ c \in try_produce_cert(acc, pool.completed, v)
        BY Zenon, <1>1, <2>2
      <4> QED
        BY <4>1, BuiltMeets, OneCert
    <3>2. \A w \in VotesOf(c) : acc[w].stake = Stake[Voters'[w]]
      BY Zenon, <1>2, <3>1, VotesOfCert
    <3>3. \A w \in VotesOf(c) : acc[w].stake >= Stake[Voters'[w]]
      <4>1. \A w \in VotesOf(c) : acc[w].stake \in Nat
        BY Zenon, <1>1, <3>1, VotesOfCert DEF Accumulator
      <4> QED
        BY <3>2, <4>1
    <3>4. \A w, u \in VotesOf(c) : w # u => Voters'[w] \cap Voters'[u] = {}
      <4>1. \A w \in VotesOf(c) : Voters'[w] = Voting(entries', own', w)
        BY Zenon, <3>1, VotesOfCert DEF Voters, VotedBy, Voting
      <4>2. me' \in {Self, NoOne}
        BY Zenon DEF Handled, VInv
      <4> QED
        BY <3>1, <4>1, <4>2, VotesApart
    <3>5. Stake[Back(Voters', c)] = Power(acc, c)
      BY <1>1, <3>1, <3>2, <3>3, <3>4, BackPower, VotersType
    <3> QED
      BY Zenon, <3>1, <3>5, BackersBack
  <2> QED
    BY Zenon, <2>1, <2>2
<1> QED
  BY Zenon, <1>5, <1>6 DEF SInv, CertsBacked

\* Vote v was taken into accumulator a, which has the stake of its voters.
Took(v, a, isOwn) ==
    /\ v \in Vote /\ v.slot >= bankRoot /\ a \in Accumulator
    /\ Handled(WithVote(pool, v, a, isOwn), NewCerts(pool, v, a))
    /\ generated' = generated \cup NewCerts(pool, v, a)
    /\ Clean(me', entries', own')
    /\ a.stake = Stake[Voters'[v]] /\ Voters[v] \subseteq Voters'[v]
    /\ \A w \in Vote : w # v => Voters'[w] = Voters[w]
    /\ IF isOwn THEN v \notin own /\ own' = own \cup {v} ELSE own' = own

LEMMA VotesTaken ==
    ASSUME CInv, VInv, SInv, switches = 0, NEW v \in ArrivingVotes,
           NEW senders \in SUBSET Validators, ReceiveVotes(v, senders)
    PROVE  Took(v, add_aggregate(pool.acc[v], senders), FALSE)
<1>0. /\ bankRoot \in Int /\ ArrivingVotes \subseteq Vote /\ IsPool(pool) /\ pool.pruned = bankRoot
      /\ pool.completed \subseteq CertType
      /\ entries \in [Validators -> SUBSET Vote] /\ own \subseteq Vote /\ me \in {Self, NoOne}
      /\ pool.acc \in [Vote -> Accumulator] /\ generated \subseteq CertType /\ switches \in Nat
  BY DEF CInv, Slot, ArrivingVotes, VInv
<1> DEFINE a == add_aggregate(pool.acc[v], senders)
<1>1. v \in Vote /\ v.slot >= bankRoot /\ me \notin senders
      /\ Handled(WithVote(pool, v, a, FALSE), NewCerts(pool, v, a))
      /\ generated' = generated \cup NewCerts(pool, v, a)
  BY Zenon, <1>0 DEF ReceiveVotes, AggregateVote
<1>2. /\ entries' = [x \in Validators |-> entries[x] \cup When(x \in senders, {v})]
      /\ own' = own /\ me' = me
  BY Zenon DEF ReceiveVotes, Handled
<1>3. /\ Voters'[v] = Voters[v] \cup senders
      /\ \A w \in Vote : w # v => Voters'[w] = Voters[w]
  BY Zenon, <1>0, <1>1, <1>2, VotersGrow
<1>4. Clean(me, entries, own)
  BY Zenon DEF SInv
<1>5. \A x \in senders : v \notin entries[x] /\ ~Contradicts(EntryOf(x, v.slot), v)
  <2>1. \A x \in senders : try_add_vote(EntryOf(x, v.slot), v) = "Ok"
    BY Zenon DEF ReceiveVotes
  <2>2. \A x \in senders : v \notin EntryOf(x, v.slot) /\ ~Contradicts(EntryOf(x, v.slot), v)
    BY Zenon, <2>1 DEF try_add_vote
  <2> QED
    BY Zenon, <2>2 DEF EntryOf
<1>6. Clean(me', entries', own')
  <2>1. me = Self => entries'[Self] = {}
    BY Zenon, <1>1, <1>2, <1>4, PoolAssumption DEF Clean, When
  <2>2. ASSUME NEW x \in Validators PROVE Apart(entries'[x])
    <3>1. CASE x \in senders
      <4>1. entries'[x] = entries[x] \cup {v}
        BY Zenon, <1>2, <3>1 DEF When
      <4>2. {w \in entries[x] : w.slot = v.slot} \ {v} \subseteq EntryOf(x, v.slot)
        BY Zenon DEF EntryOf
      <4>3. entries[x] \in SUBSET Vote /\ Apart(entries[x])
        BY Zenon, <1>0, <1>4 DEF Clean
      <4> QED
        BY Zenon, <1>1, <1>5, <3>1, <4>1, <4>2, <4>3, ApartAdd
    <3>2. CASE x \notin senders
      <4>1. entries'[x] = entries[x]
        BY Zenon, <1>2, <3>2 DEF When
      <4> QED
        BY Zenon, <1>4, <4>1 DEF Clean
    <3> QED
      BY Zenon, <3>1, <3>2
  <2> QED
    BY Zenon, <1>2, <1>4, <2>1, <2>2 DEF Clean
<1>7. Voters[v] \cap senders = {}
  <2> SUFFICES ASSUME NEW x \in senders, x \in VotedBy(v) PROVE FALSE
    BY Zenon, <1>1 DEF Voters
  <2>1. v \notin entries[x]
    BY Zenon, <1>5
  <2>2. x = Self /\ v \in own
    BY Zenon, <2>1 DEF VotedBy
  <2> QED
    BY Zenon, <1>0, <1>1, <1>4, <2>2 DEF Clean
<1>8. /\ pool.acc[v] \in Accumulator /\ pool.acc[v].ranks = Voters[v]
      /\ pool.acc[v].stake >= Stake[pool.acc[v].ranks]
      /\ pool.acc[v].stake = Stake[pool.acc[v].ranks]
  BY Zenon, <1>0, <1>1 DEF VInv, SInv, Voters
<1>9. a \in Accumulator /\ a.ranks = Voters[v] \cup senders /\ a.stake = Stake[a.ranks]
  BY Zenon, <1>7, <1>8, Aggregate
<1> HIDE DEF a
<1>10. a.stake = Stake[Voters'[v]] /\ Voters[v] \subseteq Voters'[v]
  BY Zenon, <1>3, <1>9
<1>11. Took(v, a, FALSE)
  BY Zenon, <1>1, <1>2, <1>3, <1>6, <1>9, <1>10 DEF Took
<1> QED
  BY Zenon, <1>11 DEF a

LEMMA VoteTaken ==
    ASSUME CInv, VInv, SInv, switches = 0, NEW v \in ArrivingVotes, CastVote(v)
    PROVE  Took(v, add_own_vote_message(pool.acc[v], me), TRUE)
<1>0. /\ bankRoot \in Int /\ ArrivingVotes \subseteq Vote /\ IsPool(pool) /\ pool.pruned = bankRoot
      /\ pool.completed \subseteq CertType
      /\ entries \in [Validators -> SUBSET Vote] /\ own \subseteq Vote /\ me \in {Self, NoOne}
      /\ pool.acc \in [Vote -> Accumulator] /\ generated \subseteq CertType /\ switches \in Nat
  BY DEF CInv, Slot, ArrivingVotes, VInv
<1> DEFINE a == add_own_vote_message(pool.acc[v], me)
<1>1. /\ v \in Vote /\ v.slot >= bankRoot /\ me = Self /\ v \notin own /\ SelfConsistent(v)
      /\ Handled(OwnVoteMessage(pool, v, me), When(me \notin pool.acc[v].ranks, NewCerts(pool, v, a)))
      /\ generated' = generated \cup When(me \notin pool.acc[v].ranks, NewCerts(pool, v, a))
      /\ own' = own \cup {v} /\ entries' = entries /\ me' = me
  BY Zenon, <1>0 DEF CastVote, MayCast, Handled
<1>2. /\ Voters'[v] = Voters[v] \cup {Self}
      /\ \A w \in Vote : w # v => Voters'[w] = Voters[w]
  BY Zenon, <1>0, <1>1, VotersGrow
<1>3. /\ pool.acc[v] \in Accumulator /\ pool.acc[v].ranks = Voters[v]
      /\ pool.acc[v].stake >= Stake[pool.acc[v].ranks]
      /\ pool.acc[v].stake = Stake[pool.acc[v].ranks]
  BY Zenon, <1>0, <1>1 DEF VInv, SInv, Voters
<1>4. Clean(me, entries, own) /\ me # NoOne
  BY Zenon, <1>1, PoolAssumption DEF SInv
<1>5. me \notin pool.acc[v].ranks
  BY Zenon, <1>1, <1>3, <1>4 DEF Voters, VotedBy, Clean
<1>6. Clean(me', entries', own')
  <2>1. Apart(own \cup {v})
    <3> DEFINE E == ({w \in own : w.slot = v.slot} \cup EntryOf(Self, v.slot)) \ {v}
    <3>1. ~Contradicts(E, v)
      BY Zenon, <1>1 DEF SelfConsistent
    <3>2. {w \in own : w.slot = v.slot} \ {v} \subseteq E
      BY Zenon
    <3>3. own \in SUBSET Vote /\ Apart(own)
      BY Zenon, <1>0, <1>4 DEF Clean
    <3> HIDE DEF E
    <3> QED
      BY Zenon, <1>1, <3>1, <3>2, <3>3, ApartAdd
  <2> QED
    BY Zenon, <1>1, <1>4, <2>1 DEF Clean
<1>7. /\ Handled(WithVote(pool, v, a, TRUE), NewCerts(pool, v, a))
      /\ generated' = generated \cup NewCerts(pool, v, a)
      /\ a = add_aggregate(pool.acc[v], {me})
  BY Zenon, <1>1, <1>5, OwnVote DEF When
<1>8. {me} \in SUBSET Validators /\ pool.acc[v].ranks \cap {me} = {}
  BY Zenon, <1>1, <1>5, PoolAssumption
<1>9. a \in Accumulator /\ a.ranks = Voters[v] \cup {me} /\ a.stake = Stake[a.ranks]
  BY Zenon, <1>3, <1>7, <1>8, Aggregate
<1> HIDE DEF a
<1>10. a.stake = Stake[Voters'[v]] /\ Voters[v] \subseteq Voters'[v]
  BY Zenon, <1>1, <1>2, <1>9
<1>11. Took(v, a, TRUE)
  BY Zenon, <1>1, <1>2, <1>6, <1>7, <1>9, <1>10 DEF Took
<1> QED
  BY Zenon, <1>11 DEF a

LEMMA NextSInv ==
    ASSUME CInv, CInv', VInv, SInv, Next
    PROVE  SInv'
<1>0. /\ bankRoot \in Int /\ ArrivingVotes \subseteq Vote /\ IsPool(pool) /\ pool.pruned = bankRoot
      /\ pool.completed \subseteq CertType
      /\ entries \in [Validators -> SUBSET Vote] /\ own \subseteq Vote /\ me \in {Self, NoOne}
      /\ pool.acc \in [Vote -> Accumulator] /\ generated \subseteq CertType /\ switches \in Nat
  BY DEF CInv, Slot, ArrivingVotes, VInv
<1>1. ASSUME switches = 0, NEW v, NEW a, NEW isOwn, Took(v, a, isOwn)
      PROVE  SInv'
  BY Zenon, <1>1, VoteSInv DEF Took
<1>2. ASSUME switches = 0,
             \/ \E v \in ArrivingVotes, senders \in SUBSET Validators : ReceiveVotes(v, senders)
             \/ \E v \in ArrivingVotes : CastVote(v)
      PROVE  SInv'
  BY Zenon, <1>1, <1>2, VotesTaken, VoteTaken
<1>3. ASSUME UNCHANGED <<me, entries, own, generated>>, bankRoot' >= bankRoot, bankRoot' \in Int,
             \A v \in Vote : v.slot >= bankRoot' => pool'.acc[v] = pool.acc[v],
             switches = 0
      PROVE  SInv'
  <2>1. (\A v : VotedBy(v)' = VotedBy(v)) /\ (\A c : Backers(c)' = Backers(c))
    BY Zenon, <1>3 DEF VotedBy, Backers
  <2>2. \A v \in Vote : v.slot \in Int
    BY Zenon, VoteShape
  <2>3. \A v \in Vote : v.slot >= bankRoot' => pool'.acc[v].stake = Stake[VotedBy(v)']
    BY <1>0, <1>3, <2>1, <2>2 DEF SInv
  <2>4. CertsBacked'
    BY Zenon, <1>3, <2>1 DEF SInv, CertsBacked
  <2> QED
    BY Zenon, <1>3, <2>3, <2>4 DEF SInv
<1>4. ASSUME NEW c \in Certificates, ReceiveCertificate(c), switches = 0
      PROVE  SInv'
  <2>1. c \in CertType /\ c.slot >= bankRoot /\ c \notin pool.completed
    BY Zenon, <1>4, PoolAssumption DEF ReceiveCertificate
  <2>2. ~(c.slot < bankRoot)
    BY <1>0, <2>1, CertShape
  <2> DEFINE p == insert_certificate(pool, c)
  <2>3. Handled(p, {c}) /\ UNCHANGED <<entries, own, generated>> /\ me' = me
    BY Zenon, <1>4, <2>1, <2>2 DEF ReceiveCertificate, add_cert, Handled
  <2>4. p = insert_certificate(pool, c)
    BY Zenon
  <2> HIDE DEF p
  <2>5. IsPool(p) /\ p.acc = pool.acc /\ p.completed = pool.completed \cup {c} /\ p.pruned = bankRoot
    BY <1>0, <2>4, InsertFields
  <2>a. p.acc \in [Vote -> Accumulator] /\ p.completed \subseteq CertType
    BY Zenon, <1>0, <2>1, <2>5
  <2>6. /\ bankRoot' \in Int /\ bankRoot' >= bankRoot
        /\ \A v \in Vote : v.slot >= bankRoot' => pool'.acc[v] = p.acc[v]
    BY Zenon, <2>3, <2>5, <2>a, HandledFields
  <2> QED
    BY Zenon, <1>3, <1>4, <2>3, <2>5, <2>6
<1>5. ASSUME NEW full \in SUBSET pool.pending, ProcessPending(full), switches = 0
      PROVE  SInv'
  <2> DEFINE asked == {Event("SafeToNotar", b.slot, b.id) : b \in Resolved(Taken(full))}
  <2>1. pool' = [pool EXCEPT !.pending = full, !.events = @ \cup asked]
        /\ UNCHANGED <<me, entries, own, bankRoot, generated>>
    BY Zenon, <1>5 DEF ProcessPending
  <2> HIDE DEF asked
  <2>2. pool'.acc = pool.acc /\ bankRoot' >= bankRoot
    BY <1>0, <2>1 DEF IsPool
  <2> QED
    BY Zenon, <1>0, <1>3, <1>5, <2>1, <2>2
<1>6. ASSUME NEW b \in DOMAIN Parent, ReceiveBlock(b), switches = 0 PROVE SInv'
  <2>1. UNCHANGED <<me, entries, own, pool, bankRoot, generated>> /\ bankRoot' >= bankRoot
    BY <1>0, <1>6 DEF ReceiveBlock
  <2> QED
    BY Zenon, <1>0, <1>3, <1>6, <2>1
<1>7. CASE SwitchIdentity
  <2>1. switches' = switches + 1 /\ switches' # 0
    BY <1>0, <1>7 DEF SwitchIdentity
  <2> QED
    BY Zenon, <2>1 DEF SInv
<1>8. CASE switches # 0 /\ ~SwitchIdentity
  <2>1. switches' = switches
    BY Zenon, <1>8 DEF Next, ReceiveVotes, CastVote, ReceiveCertificate, ProcessPending, ReceiveBlock, Handled
  <2> QED
    BY Zenon, <1>8, <2>1 DEF SInv
<1> QED
  BY Zenon, <1>1, <1>2, <1>4, <1>5, <1>6, <1>7, <1>8 DEF Next

LEMMA AlwaysVInv == Spec => [](CInv /\ VInv /\ SInv)
<1>1. CInv /\ CInv' /\ VInv /\ SInv /\ [Next]_vars => VInv' /\ SInv'
  <2> SUFFICES ASSUME CInv, CInv', VInv, SInv, [Next]_vars PROVE VInv' /\ SInv'
    BY Zenon
  <2>1. CASE Next
    BY Zenon, <2>1, NextVInv, NextSInv
  <2>2. CASE UNCHANGED vars
    <3>1. UNCHANGED <<me, entries, own, pool, bankRoot, generated, switches>>
      BY Zenon, <2>2 DEF vars
    <3>2. (\A v : VotedBy(v)' = VotedBy(v)) /\ (\A c : Backers(c)' = Backers(c))
      BY Zenon, <3>1 DEF VotedBy, Backers
    <3>3. CertsComplete' <=> CertsComplete
      BY Zenon, <3>1, <3>2 DEF CertsComplete
    <3>4. CertsBacked' <=> CertsBacked
      BY Zenon, <3>1, <3>2 DEF CertsBacked
    <3>5. VInv'
      BY Zenon, <3>1, <3>2, <3>3 DEF VInv
    <3>6. SInv'
      BY Zenon, <3>1, <3>2, <3>4 DEF SInv
    <3> QED
      BY Zenon, <3>5, <3>6
  <2> QED
    BY Zenon, <2>1, <2>2
<1> QED
  BY InitVInv, AlwaysCInv, <1>1, PTL DEF Spec

(***************************************************************************)
(* try_produce_cert misses no certificate: whenever the distinct           *)
(* validators whose votes were taken carry the stake of a certificate, it  *)
(* or a stronger one is in the pool, in whatever batches and order votes   *)
(* and certificates came, and however often the identity was switched.     *)
(***************************************************************************)
THEOREM NoCertificateIsMissed == Spec => []CertsComplete
<1>1. VInv => CertsComplete
  BY Zenon DEF VInv
<1> QED
  BY AlwaysVInv, <1>1, PTL

(***************************************************************************)
(* As long as the identity of the machine is not switched, every           *)
(* certificate that the pool builds is backed by distinct validators with  *)
(* the stake it stands for: the accumulators count nobody twice, because   *)
(* the signature verifier has refused the votes that conflict.             *)
(***************************************************************************)
THEOREM BuiltCertificatesAreBacked == Spec => [](switches = 0 => CertsBacked)
<1>1. SInv => (switches = 0 => CertsBacked)
  BY Zenon DEF SInv
<1> QED
  BY AlwaysVInv, <1>1, PTL

-----------------------------------------------------------------------------
(* The counters behind the fallback votes *)

BlockIn(s, i) == [slot |-> s, id |-> i]

NotarOf(s, i) == Notarize(BlockIn(s, i))

NotarStake(V, s, i) == Stake[V[NotarOf(s, i)]]

NotarUnion(V, s) == UNION {V[NotarOf(s, i)] : i \in Ids}

FirstOf(O, s) == {v \in O : v.slot = s /\ v.type \in {"Notarize", "Skip"}}

\* The counters k of slot s count the votes V and know the own votes O.
Counts(k, V, O, s) ==
    /\ k.my_first_vote = FirstOf(O, s)
    /\ k.skip_total = Stake[V[Skip(s)]]
    /\ \A i \in Ids : k.notarize_entry_total[i] = NotarStake(V, s, i)
    /\ k.notarize_total = Stake[NotarUnion(V, s)]
    /\ \A i \in Ids : NotarStake(V, s, i) <= k.top_notarized_stake
    /\ k.top_notarized_stake = 0 \/ \E i \in Ids : k.top_notarized_stake = NotarStake(V, s, i)

LEMMA SameCounts ==
    ASSUME NEW c, NEW d, NEW V, NEW O, NEW s,
           d.my_first_vote = c.my_first_vote, d.skip_total = c.skip_total,
           d.notarize_total = c.notarize_total, d.notarize_entry_total = c.notarize_entry_total,
           d.top_notarized_stake = c.top_notarized_stake, Counts(c, V, O, s)
    PROVE  Counts(d, V, O, s)
  BY Zenon DEF Counts

\* Everything that is safe by the counters was noticed.
Settled(k) ==
    /\ \A i \in Ids : i \in k.safe_to_notar_sent <=> k.my_first_vote # {} /\ is_safe_to_notar(k, i)
    /\ k.safe_to_skip_sent <=> k.my_first_vote # {} /\ is_safe_to_skip(k)

LEMMA CountedFields ==
    ASSUME NEW k \in Counters, NEW v \in Vote, v.type \in {"Notarize", "Skip"},
           NEW stake \in Nat, NEW isOwn \in BOOLEAN, NEW c, c = Counted(k, v, stake, isOwn),
           v.type = "Notarize" => TotalWith(k, v, stake) \in Nat
    PROVE  /\ c \in Counters
           /\ c.my_first_vote = IF k.my_first_vote = {} THEN When(isOwn, {v}) ELSE k.my_first_vote
           /\ c.safe_to_notar_sent = k.safe_to_notar_sent
           /\ c.safe_to_skip_sent = k.safe_to_skip_sent
           /\ v.type = "Skip" =>
                  /\ c.skip_total = stake /\ c.notarize_total = k.notarize_total
                  /\ c.notarize_entry_total = k.notarize_entry_total
                  /\ c.top_notarized_stake = k.top_notarized_stake
           /\ v.type = "Notarize" =>
                  /\ c.skip_total = k.skip_total /\ c.notarize_total = TotalWith(k, v, stake)
                  /\ c.notarize_entry_total = Put(k.notarize_entry_total, v.id, stake)
                  /\ c.top_notarized_stake = Larger(k.top_notarized_stake, stake)
<1> DEFINE d == Count(k, v, stake)
           first == IF d.my_first_vote = {} THEN When(isOwn, {v}) ELSE d.my_first_vote
           entry == Put(k.notarize_entry_total, v.id, stake)
           total == TotalWith(k, v, stake)
           top == Larger(k.top_notarized_stake, stake)
<1>1. c = [d EXCEPT !.my_first_vote = first]
  BY Zenon DEF Counted, NoteOwn
<1>2. d = IF v.type = "Skip" THEN [k EXCEPT !.skip_total = stake]
          ELSE [k EXCEPT !.notarize_entry_total = entry, !.notarize_total = total,
                         !.top_notarized_stake = top]
  <2>1. k = [my_first_vote |-> k.my_first_vote, skip_total |-> k.skip_total,
             notarize_total |-> k.notarize_total, notarize_entry_total |-> k.notarize_entry_total,
             top_notarized_stake |-> k.top_notarized_stake,
             safe_to_notar_sent |-> k.safe_to_notar_sent, safe_to_skip_sent |-> k.safe_to_skip_sent]
    BY Zenon DEF Counters
  <2> QED
    BY Zenon, <2>1 DEF Count, Put
<1>3. v.type = "Notarize" => entry \in [Ids -> Nat] /\ total \in Nat /\ top \in Nat
  BY Zenon, VoteShape DEF Counters, Put, Larger
<1> HIDE DEF d, entry, total, top
<1>4. /\ d \in Counters /\ d.my_first_vote = k.my_first_vote
      /\ d.safe_to_notar_sent = k.safe_to_notar_sent /\ d.safe_to_skip_sent = k.safe_to_skip_sent
      /\ v.type = "Skip" =>
             /\ d.skip_total = stake /\ d.notarize_total = k.notarize_total
             /\ d.notarize_entry_total = k.notarize_entry_total
             /\ d.top_notarized_stake = k.top_notarized_stake
      /\ v.type = "Notarize" =>
             /\ d.skip_total = k.skip_total /\ d.notarize_total = total
             /\ d.notarize_entry_total = entry
             /\ d.top_notarized_stake = top
  BY Zenon, <1>2, <1>3 DEF Counters
<1>5. first \in SUBSET Vote
  BY Zenon, <1>4 DEF Counters, When
<1>6. first = IF k.my_first_vote = {} THEN When(isOwn, {v}) ELSE k.my_first_vote
  BY Zenon, <1>4
<1> HIDE DEF first
<1>7. /\ c \in Counters /\ c.my_first_vote = first
      /\ c.safe_to_notar_sent = d.safe_to_notar_sent /\ c.safe_to_skip_sent = d.safe_to_skip_sent
      /\ c.skip_total = d.skip_total /\ c.notarize_total = d.notarize_total
      /\ c.notarize_entry_total = d.notarize_entry_total
      /\ c.top_notarized_stake = d.top_notarized_stake
  BY Zenon, <1>1, <1>4, <1>5 DEF Counters
<1> QED
  BY Zenon, <1>4, <1>6, <1>7 DEF entry, total, top

LEMMA SentFields ==
    ASSUME NEW k \in Counters, NEW isOwn, NEW c, c = Sent(k, isOwn)
    PROVE  /\ c \in Counters
           /\ c.my_first_vote = k.my_first_vote /\ c.skip_total = k.skip_total
           /\ c.notarize_total = k.notarize_total
           /\ c.notarize_entry_total = k.notarize_entry_total
           /\ c.top_notarized_stake = k.top_notarized_stake
           /\ c.safe_to_notar_sent = k.safe_to_notar_sent \cup SafeIds(k, isOwn)
           /\ c.safe_to_skip_sent = (k.safe_to_skip_sent \/ SafeSkip(k, isOwn))
<1> DEFINE notar == k.safe_to_notar_sent \cup SafeIds(k, isOwn)
           skip == k.safe_to_skip_sent \/ SafeSkip(k, isOwn)
<1>1. c = [k EXCEPT !.safe_to_notar_sent = notar, !.safe_to_skip_sent = skip]
  BY Zenon DEF Sent
<1>2. notar \in SUBSET Ids /\ skip \in BOOLEAN
  BY Zenon DEF SafeIds, Counters
<1> HIDE DEF notar, skip
<1>3. /\ c \in Counters
      /\ c.my_first_vote = k.my_first_vote /\ c.skip_total = k.skip_total
      /\ c.notarize_total = k.notarize_total
      /\ c.notarize_entry_total = k.notarize_entry_total
      /\ c.top_notarized_stake = k.top_notarized_stake
      /\ c.safe_to_notar_sent = notar /\ c.safe_to_skip_sent = skip
  BY Zenon, <1>1, <1>2 DEF Counters
<1> QED
  BY Zenon, <1>3 DEF notar, skip

\* More stake, and what was safe stays safe.
LEMMA SettledStays ==
    ASSUME NEW k \in Counters, NEW c \in Counters, Settled(k), NEW isOwn,
           c.safe_to_notar_sent = k.safe_to_notar_sent,
           c.safe_to_skip_sent = k.safe_to_skip_sent,
           k.my_first_vote # {} => c.my_first_vote = k.my_first_vote,
           c.skip_total >= k.skip_total,
           \A i \in Ids : c.notarize_entry_total[i] >= k.notarize_entry_total[i],
           c.skip_total + c.notarize_total - c.top_notarized_stake
               >= k.skip_total + k.notarize_total - k.top_notarized_stake
    PROVE  Settled(Sent(c, isOwn))
<1> DEFINE d == Sent(c, isOwn)
<1>0. d = Sent(c, isOwn)
  BY Zenon
<1> HIDE DEF d
<1>1. /\ d \in Counters
      /\ d.my_first_vote = c.my_first_vote /\ d.skip_total = c.skip_total
      /\ d.notarize_total = c.notarize_total
      /\ d.notarize_entry_total = c.notarize_entry_total
      /\ d.top_notarized_stake = c.top_notarized_stake
      /\ d.safe_to_notar_sent = c.safe_to_notar_sent \cup SafeIds(c, isOwn)
      /\ d.safe_to_skip_sent = (c.safe_to_skip_sent \/ SafeSkip(c, isOwn))
  BY <1>0, SentFields
<1>2. (\A i : is_safe_to_notar(d, i) <=> is_safe_to_notar(c, i)) /\ (is_safe_to_skip(d) <=> is_safe_to_skip(c))
  BY Zenon, <1>1 DEF is_safe_to_notar, EnoughToNotar, is_safe_to_skip
<1>3. ASSUME NEW i \in Ids, k.my_first_vote # {}, is_safe_to_notar(k, i) PROVE is_safe_to_notar(c, i)
  <2> DEFINE x == k.notarize_entry_total[i]
             y == c.notarize_entry_total[i]
  <2>1. x \in Int /\ y \in Int /\ x <= y /\ k.skip_total \in Int /\ c.skip_total \in Int
    BY DEF Counters
  <2>2. AtLeast(x, 40) \/ (AtLeast(x, 20) /\ AtLeast(k.skip_total + x, 60))
    BY Zenon, <1>3 DEF is_safe_to_notar, EnoughToNotar
  <2> HIDE DEF x, y
  <2>3. AtLeast(x, 40) => AtLeast(y, 40)
    BY Zenon, <2>1, MoreMeets
  <2>4. AtLeast(x, 20) => AtLeast(y, 20)
    BY Zenon, <2>1, MoreMeets
  <2>5. AtLeast(k.skip_total + x, 60) => AtLeast(c.skip_total + y, 60)
    BY <2>1, MoreMeets
  <2>6. AtLeast(y, 40) \/ (AtLeast(y, 20) /\ AtLeast(c.skip_total + y, 60))
    BY Zenon, <2>2, <2>3, <2>4, <2>5
  <2> QED
    BY Zenon, <1>3, <2>6 DEF is_safe_to_notar, EnoughToNotar, y
<1>4. ASSUME k.my_first_vote # {}, is_safe_to_skip(k) PROVE is_safe_to_skip(c)
  <2> DEFINE x == k.skip_total + k.notarize_total - k.top_notarized_stake
             y == c.skip_total + c.notarize_total - c.top_notarized_stake
  <2>1. x \in Int /\ y \in Int /\ x <= y
    BY DEF Counters
  <2>2. AtLeast(x, 40)
    BY Zenon, <1>4 DEF is_safe_to_skip
  <2> HIDE DEF x, y
  <2>3. AtLeast(y, 40)
    BY <2>1, <2>2, MoreMeets
  <2> QED
    BY Zenon, <1>4, <2>3 DEF is_safe_to_skip, y
<1>5. ASSUME NEW i \in Ids
      PROVE  i \in d.safe_to_notar_sent <=> d.my_first_vote # {} /\ is_safe_to_notar(d, i)
  <2>1. i \in SafeIds(c, isOwn) <=>
            i \notin c.safe_to_notar_sent /\ c.my_first_vote # {} /\ is_safe_to_notar(c, i)
    BY Zenon DEF SafeIds, MayAsk
  <2>2. i \in k.safe_to_notar_sent => c.my_first_vote # {} /\ is_safe_to_notar(c, i)
    BY Zenon, <1>3 DEF Settled
  <2> QED
    BY Zenon, <1>1, <1>2, <2>1, <2>2
<1>6. d.safe_to_skip_sent <=> d.my_first_vote # {} /\ is_safe_to_skip(d)
  <2>1. SafeSkip(c, isOwn) <=> c.my_first_vote # {} /\ ~c.safe_to_skip_sent /\ is_safe_to_skip(c)
    BY Zenon DEF SafeSkip, MayAsk
  <2>2. k.safe_to_skip_sent => c.my_first_vote # {} /\ is_safe_to_skip(c)
    BY Zenon, <1>4 DEF Settled
  <2> QED
    BY Zenon, <1>1, <1>2, <2>1, <2>2
<1>7. Settled(d)
  BY Zenon, <1>5, <1>6 DEF Settled
<1> QED
  BY Zenon, <1>0, <1>7

LEMMA NotarVotes ==
    ASSUME NEW s \in Slot
    PROVE  /\ \A i \in Ids : /\ NotarOf(s, i) = [type |-> "Notarize", slot |-> s, id |-> i]
                             /\ NotarOf(s, i) \in Vote /\ BlockIn(s, i) \in Block
           /\ Skip(s) \in Vote
           /\ \A v \in Vote : v.slot = s =>
                  /\ v.type = "Notarize" => v.id \in Ids /\ v = NotarOf(s, v.id)
                  /\ v.type = "Skip" => v = Skip(s)
<1>1. ASSUME NEW i \in Ids
      PROVE  /\ NotarOf(s, i) = [type |-> "Notarize", slot |-> s, id |-> i]
             /\ NotarOf(s, i) \in Vote /\ BlockIn(s, i) \in Block
  <2>1. BlockIn(s, i) \in Block
    BY Zenon DEF BlockIn, Block
  <2>2. NotarOf(s, i) = [type |-> "Notarize", slot |-> s, id |-> i]
    BY Zenon DEF NotarOf, Notarize, BlockIn
  <2> QED
    BY Zenon, <2>1, <2>2, Kinds DEF NotarOf
<1>2. ASSUME NEW v \in Vote, v.slot = s
      PROVE  /\ v.type = "Notarize" => v.id \in Ids /\ v = NotarOf(s, v.id)
             /\ v.type = "Skip" => v = Skip(s)
  BY Zenon, <1>1, <1>2, VoteShape DEF Skip
<1> QED
  BY Zenon, <1>1, <1>2, Kinds

\* The votes of a slot for one more block.
LEMMA NotarTotal ==
    ASSUME NEW V \in [Vote -> SUBSET Validators], NEW s \in Slot, NEW j \in Ids,
           \A i \in Ids : i # j => V[NotarOf(s, i)] \cap V[NotarOf(s, j)] = {}
    PROVE  Stake[NotarUnion(V, s)]
               = Stake[UNION {V[NotarOf(s, i)] : i \in Ids \ {j}}] + NotarStake(V, s, j)
<1> DEFINE R == UNION {V[NotarOf(s, i)] : i \in Ids \ {j}}
           N == V[NotarOf(s, j)]
<1>1. \A i \in Ids : V[NotarOf(s, i)] \in SUBSET Validators
  BY Zenon, NotarVotes
<1>2. R \in SUBSET Validators /\ N \in SUBSET Validators /\ R \cap N = {}
  BY Zenon, <1>1
<1>3. NotarUnion(V, s) = R \cup N
  BY Zenon DEF NotarUnion
<1> HIDE DEF R, N
<1>4. Stake[R \cup N] = Stake[R] + Stake[N]
  BY Zenon, <1>2, StakeType
<1> QED
  BY Zenon, <1>3, <1>4 DEF R, N, NotarStake

\* Vote v, whose voters were V and are W, is counted; the own votes were O and are Q.
VoteStep(k, s, O, Q, V, W, v, isOwn) ==
    /\ V \in [Vote -> SUBSET Validators] /\ W \in [Vote -> SUBSET Validators]
    /\ Counts(k, V, O, s) /\ Settled(k)
    /\ v.type \in {"Notarize", "Skip"} /\ v.slot = s
    /\ V[v] \subseteq W[v] /\ \A w \in Vote : w # v => W[w] = V[w]
    /\ \A i, j \in Ids : i # j => W[NotarOf(s, i)] \cap W[NotarOf(s, j)] = {}
    /\ IF isOwn THEN FirstOf(O, s) = {} /\ FirstOf(Q, s) = {v}
                ELSE FirstOf(Q, s) = FirstOf(O, s)

Stepped(k, d, Q, W, s, ids, skip) ==
    /\ d \in Counters /\ Counts(d, W, Q, s) /\ Settled(d)
    /\ d.safe_to_notar_sent = k.safe_to_notar_sent \cup ids
    /\ d.safe_to_skip_sent <=> k.safe_to_skip_sent \/ skip
    /\ ids \subseteq Ids

LEMMA CountStep ==
    ASSUME NEW k \in Counters, NEW s \in Slot, NEW O, NEW Q, NEW V, NEW W,
           NEW v \in Vote, NEW isOwn \in BOOLEAN, VoteStep(k, s, O, Q, V, W, v, isOwn),
           NEW c, c = Counted(k, v, Stake[W[v]], isOwn),
           NEW d, d = Sent(c, isOwn)
    PROVE  Stepped(k, d, Q, W, s, SafeIds(c, isOwn), SafeSkip(c, isOwn))
<1>0. /\ V \in [Vote -> SUBSET Validators] /\ W \in [Vote -> SUBSET Validators]
      /\ Counts(k, V, O, s) /\ Settled(k)
      /\ v.type \in {"Notarize", "Skip"} /\ v.slot = s
      /\ V[v] \subseteq W[v] /\ \A w \in Vote : w # v => W[w] = V[w]
      /\ \A i, j \in Ids : i # j => W[NotarOf(s, i)] \cap W[NotarOf(s, j)] = {}
      /\ IF isOwn THEN FirstOf(O, s) = {} /\ FirstOf(Q, s) = {v}
                  ELSE FirstOf(Q, s) = FirstOf(O, s)
  BY Zenon DEF VoteStep
<1> USE <1>0
<1> DEFINE stake == Stake[W[v]]
<1>1. /\ stake \in Nat /\ Stake[V[v]] \in Nat /\ Stake[V[v]] <= stake
      /\ \A i \in Ids : NotarStake(V, s, i) \in Nat /\ NotarStake(W, s, i) \in Nat
  BY Zenon, NotarVotes, StakeType, StakeSubset DEF NotarStake
<1>2. /\ k.skip_total \in Nat /\ k.notarize_total \in Nat /\ k.top_notarized_stake \in Nat
      /\ k.notarize_entry_total \in [Ids -> Nat]
  BY Zenon DEF Counters
<1>3. ASSUME v.type = "Notarize"
      PROVE  /\ v.id \in Ids /\ v = NotarOf(s, v.id)
             /\ NotarStake(W, s, v.id) = stake /\ NotarStake(V, s, v.id) = Stake[V[v]]
             /\ \A i \in Ids : i # v.id => NotarStake(W, s, i) = NotarStake(V, s, i)
             /\ W[Skip(s)] = V[Skip(s)]
             /\ TotalWith(k, v, stake) = Stake[NotarUnion(W, s)]
             /\ TotalWith(k, v, stake) = k.notarize_total + stake - Stake[V[v]]
             /\ TotalWith(k, v, stake) \in Nat
  <2> DEFINE j == v.id
             R == UNION {V[NotarOf(s, i)] : i \in Ids \ {j}}
  <2>1. j \in Ids /\ v = NotarOf(s, j)
    BY Zenon, <1>3, NotarVotes
  <2>2. \A i \in Ids : i # j => W[NotarOf(s, i)] = V[NotarOf(s, i)]
    <3>1. \A i \in Ids : i # j => NotarOf(s, i) # v /\ NotarOf(s, i) \in Vote
      BY NotarVotes
    <3> QED
      BY Zenon, <3>1
  <2>3. Skip(s) # v /\ Skip(s) \in Vote
    BY <1>3, NotarVotes DEF Skip
  <2>4. R = UNION {W[NotarOf(s, i)] : i \in Ids \ {j}}
    BY Zenon, <2>2
  <2>5. Stake[NotarUnion(W, s)] = Stake[R] + stake
    <3>1. \A i \in Ids : i # j => W[NotarOf(s, i)] \cap W[NotarOf(s, j)] = {}
      BY Zenon, <2>1
    <3>2. Stake[NotarUnion(W, s)]
              = Stake[UNION {W[NotarOf(s, i)] : i \in Ids \ {j}}] + NotarStake(W, s, j)
      <4> HIDE DEF j
      <4> QED
        BY Zenon, <2>1, <3>1, NotarTotal
    <3> QED
      BY Zenon, <2>1, <2>4, <3>2 DEF NotarStake
  <2>6. Stake[NotarUnion(V, s)] = Stake[R] + Stake[V[v]]
    <3>1. \A i \in Ids : i # j => V[NotarOf(s, i)] \cap V[NotarOf(s, j)] = {}
      <4>1. \A i \in Ids : i # j => W[NotarOf(s, i)] \cap W[v] = {}
        BY Zenon, <2>1
      <4> HIDE DEF j
      <4> QED
        BY Zenon, <2>1, <2>2, <4>1
    <3>2. Stake[NotarUnion(V, s)] = Stake[R] + NotarStake(V, s, j)
      <4> HIDE DEF j
      <4> QED
        BY Zenon, <2>1, <3>1, NotarTotal
    <3> QED
      BY Zenon, <2>1, <3>2 DEF NotarStake
  <2>7. Stake[R] \in Nat
    <3>1. \A i \in Ids : V[NotarOf(s, i)] \in SUBSET Validators
      BY Zenon, NotarVotes
    <3>2. R \in SUBSET Validators
      BY Zenon, <3>1
    <3> QED
      BY Zenon, <3>2, StakeType
  <2>8. k.notarize_entry_total[j] = Stake[V[v]] /\ k.notarize_total = Stake[NotarUnion(V, s)]
    BY Zenon, <2>1 DEF Counts, NotarStake
  <2>9. TotalWith(k, v, stake) = k.notarize_total - Stake[V[v]] + stake
    BY Zenon, <2>8 DEF TotalWith
  <2>10. NotarStake(W, s, j) = stake /\ NotarStake(V, s, j) = Stake[V[v]]
    BY Zenon, <2>1 DEF NotarStake
  <2>11. \A i \in Ids : i # j => NotarStake(W, s, i) = NotarStake(V, s, i)
    BY Zenon, <2>2 DEF NotarStake
  <2>12. /\ TotalWith(k, v, stake) = Stake[NotarUnion(W, s)]
         /\ TotalWith(k, v, stake) = k.notarize_total + stake - Stake[V[v]]
         /\ TotalWith(k, v, stake) \in Nat
    <3> HIDE DEF R, stake, j
    <3> QED
      BY <1>1, <1>2, <2>5, <2>6, <2>7, <2>8, <2>9
  <2> QED
    BY Zenon, <2>1, <2>3, <2>10, <2>11, <2>12
<1>4. ASSUME v.type = "Skip"
      PROVE  /\ v = Skip(s)
             /\ \A i \in Ids : NotarStake(W, s, i) = NotarStake(V, s, i)
             /\ Stake[NotarUnion(W, s)] = Stake[NotarUnion(V, s)]
  <2>1. v = Skip(s)
    BY Zenon, <1>4, NotarVotes
  <2>2. \A i \in Ids : NotarOf(s, i) # v /\ NotarOf(s, i) \in Vote
    BY <1>4, NotarVotes
  <2>3. \A i \in Ids : W[NotarOf(s, i)] = V[NotarOf(s, i)]
    BY Zenon, <2>2
  <2>4. NotarUnion(W, s) = NotarUnion(V, s)
    BY Zenon, <2>3 DEF NotarUnion
  <2> QED
    BY Zenon, <2>1, <2>3, <2>4 DEF NotarStake
<1>5. c = Counted(k, v, stake, isOwn)
  BY Zenon
<1> HIDE DEF stake
<1>6. /\ c \in Counters
      /\ c.my_first_vote = IF k.my_first_vote = {} THEN When(isOwn, {v}) ELSE k.my_first_vote
      /\ c.safe_to_notar_sent = k.safe_to_notar_sent
      /\ c.safe_to_skip_sent = k.safe_to_skip_sent
      /\ v.type = "Skip" =>
             /\ c.skip_total = stake /\ c.notarize_total = k.notarize_total
             /\ c.notarize_entry_total = k.notarize_entry_total
             /\ c.top_notarized_stake = k.top_notarized_stake
      /\ v.type = "Notarize" =>
             /\ c.skip_total = k.skip_total /\ c.notarize_total = TotalWith(k, v, stake)
             /\ c.notarize_entry_total = Put(k.notarize_entry_total, v.id, stake)
             /\ c.top_notarized_stake = Larger(k.top_notarized_stake, stake)
  <2>1. /\ stake \in Nat /\ (v.type = "Notarize" => TotalWith(k, v, stake) \in Nat)
        /\ v.type \in {"Notarize", "Skip"}
    BY Zenon, <1>1, <1>3
  <2> HIDE <1>0
  <2> QED
    BY <1>5, <2>1, CountedFields, SMTT(30)
<1>7. k.my_first_vote = FirstOf(O, s) /\ c.my_first_vote = FirstOf(Q, s)
  BY Zenon, <1>6 DEF Counts, When
<1>10. /\ d \in Counters /\ (Counts(c, W, Q, s) => Counts(d, W, Q, s))
       /\ d.safe_to_notar_sent = c.safe_to_notar_sent \cup SafeIds(c, isOwn)
       /\ d.safe_to_skip_sent <=> c.safe_to_skip_sent \/ SafeSkip(c, isOwn)
       /\ SafeIds(c, isOwn) \subseteq Ids
  <2>1. /\ d \in Counters
        /\ d.my_first_vote = c.my_first_vote /\ d.skip_total = c.skip_total
        /\ d.notarize_total = c.notarize_total
        /\ d.notarize_entry_total = c.notarize_entry_total
        /\ d.top_notarized_stake = c.top_notarized_stake
        /\ d.safe_to_notar_sent = c.safe_to_notar_sent \cup SafeIds(c, isOwn)
        /\ d.safe_to_skip_sent = (c.safe_to_skip_sent \/ SafeSkip(c, isOwn))
    BY <1>6, SentFields
  <2>2. Counts(c, W, Q, s) => Counts(d, W, Q, s)
    BY Zenon, <2>1, SameCounts
  <2>3. SafeIds(c, isOwn) \subseteq Ids
    BY Zenon DEF SafeIds
  <2> QED
    BY Zenon, <2>1, <2>2, <2>3
<1>8. CASE v.type = "Notarize"
  <2> DEFINE top == k.top_notarized_stake
             j == v.id
             old == Stake[V[v]]
             new == Larger(top, stake)
  <2>0. /\ j \in Ids /\ NotarStake(W, s, j) = stake /\ NotarStake(V, s, j) = old
        /\ \A i \in Ids : i # j => NotarStake(W, s, i) = NotarStake(V, s, i)
        /\ old \in Int /\ stake \in Int /\ top \in Int /\ old <= stake
        /\ c.top_notarized_stake = new
    BY <1>1, <1>2, <1>3, <1>6, <1>8
  <2>1. \A i \in Ids : NotarStake(V, s, i) <= top
    BY Zenon DEF Counts
  <2>2. \A i \in Ids : c.notarize_entry_total[i] = NotarStake(W, s, i)
    <3>1. c.notarize_entry_total = [k.notarize_entry_total EXCEPT ![j] = stake]
      BY Zenon, <1>6, <1>8 DEF Put
    <3>2. \A i \in Ids : k.notarize_entry_total[i] = NotarStake(V, s, i)
      BY Zenon DEF Counts
    <3> HIDE DEF j
    <3> QED
      BY Zenon, <1>2, <2>0, <3>1, <3>2
  <2>3. top = 0 \/ \E i \in Ids : top = NotarStake(V, s, i)
    BY Zenon DEF Counts
  <2>4. new \in Int /\ top <= new /\ stake <= new /\ new - top <= stake - old /\ (new = top \/ new = stake)
    <3>1. old <= top
      BY Zenon, <2>0, <2>1
    <3> HIDE DEF old, top
    <3> QED
      BY <2>0, <3>1 DEF Larger
  <2> HIDE DEF old, new, top, j
  <2>5. \A i \in Ids : NotarStake(W, s, i) <= new
    BY <1>1, <2>0, <2>1, <2>4
  <2>6. new = 0 \/ \E i \in Ids : new = NotarStake(W, s, i)
    <3>1. CASE new = stake
      BY Zenon, <2>0, <3>1
    <3>2. CASE new = top /\ new # stake
      <4>1. CASE top = 0
        BY Zenon, <3>2, <4>1
      <4>2. ASSUME NEW i \in Ids, top = NotarStake(V, s, i)
            PROVE  new = NotarStake(W, s, i)
        <5>1. i = j => top = old
          BY Zenon, <2>0, <4>2
        <5>2. i # j
          BY <2>0, <2>4, <3>2, <5>1
        <5> QED
          BY Zenon, <2>0, <3>2, <4>2, <5>2
      <4> QED
        BY Zenon, <2>3, <4>1, <4>2
    <3> QED
      BY Zenon, <2>4, <3>1, <3>2
  <2>7. c.notarize_total = Stake[NotarUnion(W, s)]
        /\ c.notarize_total = k.notarize_total + stake - old
    BY Zenon, <1>3, <1>6, <1>8 DEF old
  <2>8. c.skip_total = k.skip_total /\ c.skip_total = Stake[W[Skip(s)]]
    BY Zenon, <1>3, <1>6, <1>8 DEF Counts
  <2>9. \A i \in Ids : c.notarize_entry_total[i] >= k.notarize_entry_total[i]
    <3>1. \A i \in Ids : k.notarize_entry_total[i] = NotarStake(V, s, i)
      BY Zenon DEF Counts
    <3>2. \A i \in Ids : NotarStake(W, s, i) >= NotarStake(V, s, i)
      BY <1>1, <2>0
    <3> QED
      BY Zenon, <2>2, <3>1, <3>2
  <2>10. c.skip_total + c.notarize_total - c.top_notarized_stake
             >= k.skip_total + k.notarize_total - k.top_notarized_stake
    BY <1>2, <2>0, <2>4, <2>7, <2>8 DEF top
  <2>11. Counts(c, W, Q, s)
    BY Zenon, <1>7, <2>0, <2>2, <2>5, <2>6, <2>7, <2>8 DEF Counts
  <2>12. c.skip_total >= k.skip_total
    BY <1>2, <2>8
  <2>13. Settled(d)
    BY Zenon, <1>6, <2>9, <2>10, <2>12, SettledStays
  <2> QED
    BY Zenon, <1>6, <1>10, <2>11, <2>13 DEF Stepped
<1>9. CASE v.type = "Skip"
  <2>1. c.skip_total = Stake[W[Skip(s)]] /\ k.skip_total = Stake[V[Skip(s)]]
    BY Zenon, <1>4, <1>6, <1>9 DEF Counts, stake
  <2>2. c.skip_total >= k.skip_total
    BY Zenon, <1>1, <1>4, <1>6, <1>9, <2>1
  <2>3. Counts(c, W, Q, s)
    BY Zenon, <1>4, <1>6, <1>7, <1>9, <2>1 DEF Counts
  <2>4. \A i \in Ids : c.notarize_entry_total[i] >= k.notarize_entry_total[i]
    BY <1>2, <1>6, <1>9
  <2>5. c.skip_total \in Int
    BY <1>1, <1>6, <1>9
  <2>6. c.skip_total + c.notarize_total - c.top_notarized_stake
             >= k.skip_total + k.notarize_total - k.top_notarized_stake
    BY <1>2, <1>6, <1>9, <2>2, <2>5
  <2>7. Settled(d)
    BY Zenon, <1>6, <2>2, <2>4, <2>6, SettledStays
  <2> QED
    BY Zenon, <1>6, <1>10, <2>3, <2>7 DEF Stepped
<1> QED
  BY Zenon, <1>8, <1>9

-----------------------------------------------------------------------------
(* The events that ask for fallback votes *)

High(h) == IF h = NotFinalized THEN 0 ELSE h \div 2

Passed(h, s) == s <= High(h)

\* The events E and the waiting blocks W are what the counters k of slot s asked
\* for, when h is the highest finalization.
Asked(k, E, W, h, s) ==
    /\ Event("SafeToSkip", s, NoId) \in E <=> k.safe_to_skip_sent
    /\ \A i \in Ids :
           LET raised == Event("SafeToNotar", s, i) \in E
               sent == i \in k.safe_to_notar_sent
           IN  IF FirstInWindow(s) THEN raised <=> sent
               ELSE /\ raised \/ BlockIn(s, i) \in W => sent
                    /\ sent => raised \/ BlockIn(s, i) \in W \/ Passed(h, s)

Inside == {b \in Block : ~FirstInWindow(b.slot)}

\* Without a switch the counters are the stake of the votes, and what they ask for
\* was raised or waits for its parent.
Good(k, V, O, E, W, h, s) == Counts(k, V, O, s) /\ Settled(k) /\ Asked(k, E, W, h, s)

KInv ==
    switches = 0 =>
        /\ pool.counters \in [Slot -> Counters]
        /\ pool.pending \cup waiting \subseteq Inside
        /\ \A s \in Slot :
               s >= bankRoot =>
                   Good(pool.counters[s], Voters, own, pool.events, pool.pending \cup waiting,
                        pool.highest, s)

LEMMA AskWhat ==
    ASSUME NEW s, NEW ids, NEW skip, NEW t
    PROVE  /\ \A i : Event("SafeToNotar", t, i) \in Ask(s, ids, skip)
                         <=> t = s /\ FirstInWindow(s) /\ i \in ids
           /\ Event("SafeToSkip", t, NoId) \in Ask(s, ids, skip) <=> t = s /\ skip
           /\ \A i : BlockIn(t, i) \in Wait(s, ids) <=> t = s /\ ~FirstInWindow(s) /\ i \in ids
<1>1. \A i : Event("SafeToNotar", t, i) \in Ask(s, ids, skip)
                 <=> t = s /\ FirstInWindow(s) /\ i \in ids
  BY Zenon DEF Ask, When, Event
<1>2. Event("SafeToSkip", t, NoId) \in Ask(s, ids, skip) <=> t = s /\ skip
  BY Zenon DEF Ask, When, Event
<1>3. \A i : BlockIn(t, i) \in Wait(s, ids) <=> t = s /\ ~FirstInWindow(s) /\ i \in ids
  BY Zenon DEF Wait, When, BlockIn
<1> QED
  BY Zenon, <1>1, <1>2, <1>3

LEMMA AskedMore ==
    ASSUME NEW s, NEW t, NEW k, NEW d, NEW E, NEW W, NEW h, NEW ids \in SUBSET Ids, NEW skip,
           Asked(k, E, W, h, t),
           t # s => d = k,
           t = s => /\ d.safe_to_notar_sent = k.safe_to_notar_sent \cup ids
                    /\ d.safe_to_skip_sent <=> k.safe_to_skip_sent \/ skip
    PROVE  Asked(d, E \cup Ask(s, ids, skip), W \cup Wait(s, ids), h, t)
<1> DEFINE D == E \cup Ask(s, ids, skip)
           X == W \cup Wait(s, ids)
<1>1. ASSUME NEW i
      PROVE  /\ Event("SafeToNotar", t, i) \in D
                    <=> Event("SafeToNotar", t, i) \in E \/ (t = s /\ FirstInWindow(s) /\ i \in ids)
             /\ BlockIn(t, i) \in X
                    <=> BlockIn(t, i) \in W \/ (t = s /\ ~FirstInWindow(s) /\ i \in ids)
  <2>1. Event("SafeToNotar", t, i) \in Ask(s, ids, skip) <=> t = s /\ FirstInWindow(s) /\ i \in ids
    BY Zenon, AskWhat
  <2>2. BlockIn(t, i) \in Wait(s, ids) <=> t = s /\ ~FirstInWindow(s) /\ i \in ids
    BY Zenon, AskWhat
  <2> QED
    BY Zenon, <2>1, <2>2
<1>2. Event("SafeToSkip", t, NoId) \in D <=> Event("SafeToSkip", t, NoId) \in E \/ (t = s /\ skip)
  BY AskWhat
<1> HIDE DEF D, X
<1>3. Event("SafeToSkip", t, NoId) \in D <=> d.safe_to_skip_sent
  <2>1. Event("SafeToSkip", t, NoId) \in E <=> k.safe_to_skip_sent
    BY Zenon DEF Asked
  <2> QED
    BY Zenon, <1>2, <2>1
<1>4. ASSUME NEW i \in Ids
      PROVE  IF FirstInWindow(t)
             THEN Event("SafeToNotar", t, i) \in D <=> i \in d.safe_to_notar_sent
             ELSE /\ Event("SafeToNotar", t, i) \in D \/ BlockIn(t, i) \in X
                         => i \in d.safe_to_notar_sent
                  /\ i \in d.safe_to_notar_sent
                         => \/ Event("SafeToNotar", t, i) \in D
                            \/ BlockIn(t, i) \in X \/ Passed(h, t)
  <2> DEFINE raised == Event("SafeToNotar", t, i) \in E
             more == Event("SafeToNotar", t, i) \in D
             b == BlockIn(t, i)
  <2>1. IF FirstInWindow(t) THEN raised <=> i \in k.safe_to_notar_sent
        ELSE /\ raised \/ b \in W => i \in k.safe_to_notar_sent
             /\ i \in k.safe_to_notar_sent => raised \/ b \in W \/ Passed(h, t)
    BY Zenon DEF Asked
  <2>2. /\ more <=> raised \/ (t = s /\ FirstInWindow(s) /\ i \in ids)
        /\ b \in X <=> b \in W \/ (t = s /\ ~FirstInWindow(s) /\ i \in ids)
    BY Zenon, <1>1
  <2>3. i \in d.safe_to_notar_sent <=> i \in k.safe_to_notar_sent \/ (t = s /\ i \in ids)
    BY Zenon
  <2> HIDE DEF raised, more, b
  <2>4. IF FirstInWindow(t) THEN more <=> i \in d.safe_to_notar_sent
        ELSE /\ more \/ b \in X => i \in d.safe_to_notar_sent
             /\ i \in d.safe_to_notar_sent => more \/ b \in X \/ Passed(h, t)
    BY Zenon, <2>1, <2>2, <2>3
  <2> QED
    BY Zenon, <2>4 DEF more, b
<1>5. Asked(d, D, X, h, t)
  BY Zenon, <1>3, <1>4 DEF Asked
<1> QED
  BY Zenon, <1>5 DEF D, X

LEMMA AskedSame ==
    ASSUME NEW s, NEW k, NEW E, NEW D, NEW W, NEW X, NEW h, NEW g, Asked(k, E, W, h, s),
           \A i : Event("SafeToNotar", s, i) \in D <=> Event("SafeToNotar", s, i) \in E,
           Event("SafeToSkip", s, NoId) \in D <=> Event("SafeToSkip", s, NoId) \in E,
           \A i \in Ids : BlockIn(s, i) \in X <=> BlockIn(s, i) \in W,
           Passed(h, s) => Passed(g, s)
    PROVE  Asked(k, D, X, g, s)
  BY Zenon DEF Asked

LEMMA CertEventsOther ==
    ASSUME NEW completed, NEW c, NEW s
    PROVE  /\ \A i : Event("SafeToNotar", s, i) \notin CertEvents(completed, c)
           /\ Event("SafeToSkip", s, NoId) \notin CertEvents(completed, c)
<1>1. \A e \in CertEvents(completed, c) : e.type \in {"Finalized", "FinalizedFast", "BlockNotarized"}
  BY DEF CertEvents, Event, When
<1>2. \A i : Event("SafeToNotar", s, i).type = "SafeToNotar" /\ Event("SafeToSkip", s, i).type = "SafeToSkip"
  BY Zenon DEF Event
<1> QED
  BY Zenon, <1>1, <1>2

\* The highest finalization.
LEMMA HighestType == CInv => pool.highest \in Int /\ (pool.highest = NotFinalized \/ pool.highest >= 0)
<1> SUFFICES ASSUME CInv PROVE pool.highest \in Int /\ (pool.highest = NotFinalized \/ pool.highest >= 0)
  BY Zenon
<1>1. TopRank(pool.events, pool.highest) /\ Finalizations(pool.events) \subseteq FinalEvent
  BY Zenon, FinalizedMeans DEF CInv
<1>2. ASSUME NEW x \in Ranks(pool.events) PROVE x \in Int /\ x >= 0
  <2>1. PICK e \in FinalEvent : x = Rank(e)
    BY Zenon, <1>1, <1>2 DEF Ranks
  <2>2. e.slot \in Nat
    BY <2>1 DEF FinalEvent, Event, Slot
  <2> QED
    BY <2>1, <2>2 DEF Rank, Fast, Slow
<1> QED
  BY <1>1, <1>2 DEF TopRank, NotFinalized

LEMMA HighGrows ==
    ASSUME NEW h \in Int, h = NotFinalized \/ h >= 0, NEW g \in Int, g >= h, NEW s \in Slot
    PROVE  Passed(h, s) => Passed(g, s)
<1>1. s \in Int /\ s >= 0
  BY DEF Slot
<1>2. CASE h = NotFinalized /\ g = NotFinalized
  BY Zenon, <1>2
<1>3. CASE h = NotFinalized /\ g # NotFinalized
  <2>1. g >= 0
    BY <1>3 DEF NotFinalized
  <2>2. g \div 2 \in Int /\ g \div 2 >= 0
    BY <2>1
  <2> QED
    BY <1>1, <1>3, <2>2 DEF High, Passed
<1>4. CASE h # NotFinalized
  <2>1. h >= 0 /\ g >= 0 /\ g # NotFinalized
    BY <1>4 DEF NotFinalized
  <2>2. h \div 2 \in Int /\ g \div 2 \in Int /\ h \div 2 <= g \div 2
    BY <2>1
  <2> QED
    BY <1>1, <1>4, <2>1, <2>2 DEF High, Passed
<1> QED
  BY Zenon, <1>2, <1>3, <1>4

LEMMA InsertHighest ==
    ASSUME NEW h \in Int, h = NotFinalized \/ h >= 0, NEW completed, NEW c \in CertType
    PROVE  highest_finalized(h, completed, c) \in Int /\ highest_finalized(h, completed, c) >= h
<1>1. c.slot \in Int
  BY Zenon, CertShape
<1> QED
  BY <1>1 DEF highest_finalized, Larger, Fast, Slow

LEMMA CountsSame ==
    ASSUME NEW k, NEW s, NEW V, NEW W, NEW O, NEW Q, Counts(k, V, O, s),
           \A i \in Ids : W[NotarOf(s, i)] = V[NotarOf(s, i)], W[Skip(s)] = V[Skip(s)],
           FirstOf(Q, s) = FirstOf(O, s)
    PROVE  Counts(k, W, Q, s)
<1>1. \A i \in Ids : NotarStake(W, s, i) = NotarStake(V, s, i)
  BY Zenon DEF NotarStake
<1>2. NotarUnion(W, s) = NotarUnion(V, s)
  BY Zenon DEF NotarUnion
<1> QED
  BY Zenon, <1>1, <1>2 DEF Counts

\* What handling a message leaves, before the pool is pruned.
LEMMA HandledKInv ==
    ASSUME CInv, CInv', NEW p, IsPool(p), p.pruned = bankRoot, NEW new, Handled(p, new),
           p.acc \in [Vote -> Accumulator], p.completed \subseteq CertType,
           p.counters \in [Slot -> Counters], p.pending \cup waiting \subseteq Inside,
           \A s \in Slot : s >= bankRoot =>
               Good(p.counters[s], Voters', own', p.events, p.pending \cup waiting, p.highest, s)
    PROVE  KInv'
<1>1. /\ bankRoot \in Int /\ bankRoot' \in Int /\ bankRoot' >= bankRoot
      /\ pool'.events = p.events /\ pool'.highest = p.highest
      /\ \A s \in Slot : s >= bankRoot' => pool'.counters[s] = p.counters[s]
      /\ pool'.counters \in [Slot -> Counters]
      /\ \A b : b.slot >= bankRoot' => (b \in pool'.pending <=> b \in p.pending)
      /\ pool'.pending \subseteq p.pending
  BY Zenon, HandledFields
<1>2. waiting' = waiting
  BY Zenon DEF Handled
<1>3. ASSUME NEW s \in Slot, s >= bankRoot'
      PROVE  Good(pool'.counters[s], Voters', own', pool'.events, pool'.pending \cup waiting',
                  pool'.highest, s)
  <2> DEFINE W == p.pending \cup waiting
             X == pool'.pending \cup waiting'
             k == p.counters[s]
  <2>1. s >= bankRoot
    BY <1>1, <1>3 DEF Slot
  <2>2. Good(k, Voters', own', p.events, W, p.highest, s)
    BY Zenon, <2>1
  <2>3. \A i \in Ids : BlockIn(s, i) \in X <=> BlockIn(s, i) \in W
    <3>1. \A i \in Ids : BlockIn(s, i).slot = s
      BY Zenon DEF BlockIn
    <3> QED
      BY Zenon, <1>1, <1>2, <1>3, <3>1
  <2> HIDE DEF W, X, k
  <2>4. Asked(k, p.events, W, p.highest, s)
    BY Zenon, <2>2 DEF Good
  <2>5. Asked(k, p.events, X, p.highest, s)
    BY Zenon, <2>3, <2>4, AskedSame
  <2>6. Good(k, Voters', own', p.events, X, p.highest, s)
    BY Zenon, <2>2, <2>5 DEF Good
  <2> QED
    BY Zenon, <1>1, <1>3, <2>6 DEF X, k
<1>4. pool'.pending \cup waiting' \subseteq Inside
  BY Zenon, <1>1, <1>2
<1> QED
  BY Zenon, <1>1, <1>3, <1>4 DEF KInv

\* A certificate is inserted into a pool whose counters are good.
LEMMA InsertGood ==
    ASSUME NEW r, IsPool(r), r.highest \in Int, r.highest = NotFinalized \/ r.highest >= 0,
           NEW c \in CertType, NEW p, p = insert_certificate(r, c), NEW s \in Slot,
           NEW k, NEW V, NEW O, NEW W, Good(k, V, O, r.events, W, r.highest, s)
    PROVE  Good(k, V, O, p.events, W, p.highest, s)
<1>1. /\ p.events = r.events \cup CertEvents(r.completed, c)
      /\ p.highest = highest_finalized(r.highest, r.completed, c)
  BY InsertFields
<1>2. p.highest \in Int /\ p.highest >= r.highest
  BY Zenon, <1>1, InsertHighest
<1>3. Passed(r.highest, s) => Passed(p.highest, s)
  BY Zenon, <1>2, HighGrows
<1>4. /\ \A i : Event("SafeToNotar", s, i) \in p.events <=> Event("SafeToNotar", s, i) \in r.events
      /\ Event("SafeToSkip", s, NoId) \in p.events <=> Event("SafeToSkip", s, NoId) \in r.events
  <2>1. \A i : Event("SafeToNotar", s, i) \notin CertEvents(r.completed, c)
    BY Zenon, CertEventsOther
  <2>2. Event("SafeToSkip", s, NoId) \notin CertEvents(r.completed, c)
    BY Zenon, CertEventsOther
  <2> QED
    BY Zenon, <1>1, <2>1, <2>2
<1>5. Asked(k, r.events, W, r.highest, s)
  BY Zenon DEF Good
<1>6. Asked(k, p.events, W, p.highest, s)
  BY Zenon, <1>3, <1>4, <1>5, AskedSame
<1> QED
  BY Zenon, <1>6 DEF Good

\* Pool r is p after counting vote v, when c are the counters with the vote.
CountedInto(p, v, isOwn, r, c) ==
    IF v.type \in {"Notarize", "Skip"}
    THEN /\ r.counters = Put(p.counters, v.slot, Sent(c, isOwn))
         /\ r.pending = p.pending \cup Wait(v.slot, SafeIds(c, isOwn))
         /\ r.events = p.events \cup Ask(v.slot, SafeIds(c, isOwn), SafeSkip(c, isOwn))
    ELSE r.counters = p.counters /\ r.pending = p.pending /\ r.events = p.events

\* The fields of the pool that counting a vote changes.
LEMMA VotedCounters ==
    ASSUME NEW p, IsPool(p), NEW v, NEW a, NEW isOwn, NEW r, r = Voted(p, v, a, isOwn),
           NEW c, c = Counted(p.counters[v.slot], v, a.stake, isOwn)
    PROVE  CountedInto(p, v, isOwn, r, c)
<1> DEFINE q == SetAcc(p, v, a)
<1>0. q = SetAcc(p, v, a)
  BY Zenon
<1>1. r = IF v.type \in {"Notarize", "Skip"} THEN CountVote(q, v, a.stake, isOwn) ELSE q
  BY Zenon DEF Voted, SetAcc
<1> HIDE DEF q
<1>2. /\ IsPool(q) /\ q.counters = p.counters /\ q.pending = p.pending /\ q.events = p.events
  BY <1>0, AccFields
<1>3. CASE v.type \in {"Notarize", "Skip"}
  <2>1. r = CountVote(q, v, a.stake, isOwn)
    BY Zenon, <1>1, <1>3
  <2>2. c = Counted(q.counters[v.slot], v, a.stake, isOwn)
    BY Zenon, <1>2
  <2>3. /\ r.counters = Put(q.counters, v.slot, Sent(c, isOwn))
        /\ r.pending = q.pending \cup Wait(v.slot, SafeIds(c, isOwn))
        /\ r.events = q.events \cup Ask(v.slot, SafeIds(c, isOwn), SafeSkip(c, isOwn))
    BY <1>2, <2>1, <2>2, CountFields
  <2> QED
    BY Zenon, <1>2, <1>3, <2>3 DEF CountedInto
<1>4. CASE v.type \notin {"Notarize", "Skip"}
  BY Zenon, <1>1, <1>2, <1>4 DEF CountedInto
<1> QED
  BY Zenon, <1>3, <1>4

\* The first own vote of a slot.
LEMMA FirstVote ==
    ASSUME NEW O \in SUBSET Vote, NEW v \in Vote, v \notin O, Apart(O \cup {v})
    PROVE  /\ v.type \in {"Notarize", "Skip"} =>
                  FirstOf(O, v.slot) = {} /\ FirstOf(O \cup {v}, v.slot) = {v}
           /\ \A s : s # v.slot \/ v.type \notin {"Notarize", "Skip"} =>
                  FirstOf(O \cup {v}, s) = FirstOf(O, s)
<1>1. ASSUME v.type \in {"Notarize", "Skip"}, NEW w \in O, w.slot = v.slot, w.type \in {"Notarize", "Skip"}
      PROVE  FALSE
  <2>1. /\ ~(v.type = "Skip" /\ w.type = "Notarize") /\ ~(w.type = "Skip" /\ v.type = "Notarize")
        /\ v.type = "Notarize" /\ w.type = "Notarize" => v.id = w.id
    BY Zenon, <1>1 DEF Apart
  <2>2. v.type = w.type
    BY Zenon, <1>1, <2>1
  <2>3. v.id = w.id
    BY Zenon, <1>1, <2>1, <2>2, VoteShape
  <2>4. v = w
    BY Zenon, <1>1, <2>2, <2>3, VoteShape
  <2> QED
    BY Zenon, <2>4
<1>2. ASSUME v.type \in {"Notarize", "Skip"}
      PROVE  FirstOf(O, v.slot) = {} /\ FirstOf(O \cup {v}, v.slot) = {v}
  BY Zenon, <1>1, <1>2 DEF FirstOf
<1>3. ASSUME NEW s, s # v.slot \/ v.type \notin {"Notarize", "Skip"}
      PROVE  FirstOf(O \cup {v}, s) = FirstOf(O, s)
  BY Zenon, <1>3 DEF FirstOf
<1> QED
  BY Zenon, <1>2, <1>3

LEMMA VoteKInv ==
    ASSUME CInv, CInv', VInv, VInv', KInv, switches = 0, NEW v \in Vote, v.slot >= bankRoot,
           NEW a \in Accumulator, NEW isOwn \in BOOLEAN,
           Handled(WithVote(pool, v, a, isOwn), NewCerts(pool, v, a)),
           Clean(me', entries', own'), a.stake = Stake[Voters'[v]], Voters[v] \subseteq Voters'[v],
           \A w \in Vote : w # v => Voters'[w] = Voters[w],
           IF isOwn THEN v \notin own /\ own' = own \cup {v} ELSE own' = own
    PROVE  KInv'
<1> DEFINE p == WithVote(pool, v, a, isOwn)
           r == Voted(pool, v, a, isOwn)
           c == Counted(pool.counters[v.slot], v, a.stake, isOwn)
           d == Sent(c, isOwn)
           ids == SafeIds(c, isOwn)
           skip == SafeSkip(c, isOwn)
           acc == Put(pool.acc, v, a)
           k == pool.counters[v.slot]
<1>0. /\ p = WithVote(pool, v, a, isOwn) /\ acc = Put(pool.acc, v, a)
      /\ Handled(p, NewCerts(pool, v, a)) /\ r = Voted(pool, v, a, isOwn)
      /\ c = Counted(k, v, a.stake, isOwn) /\ d = Sent(c, isOwn) /\ k = pool.counters[v.slot]
      /\ c = Counted(pool.counters[v.slot], v, a.stake, isOwn)
  BY Zenon
<1>1. /\ IsPool(pool) /\ pool.counters \in [Slot -> Counters] /\ pool.pending \cup waiting \subseteq Inside
      /\ \A s \in Slot : s >= bankRoot =>
             Good(pool.counters[s], Voters, own, pool.events, pool.pending \cup waiting,
                  pool.highest, s)
      /\ own \in SUBSET Vote
  BY Zenon DEF CInv, KInv, VInv
<1>2. v.slot \in Slot
  BY Zenon, VoteShape
<1>a. p = WithVote(pool, v, a, isOwn) /\ acc = Put(pool.acc, v, a)
  BY Zenon, <1>0
<1>b. r = Voted(pool, v, a, isOwn)
  BY Zenon, <1>0
<1>c. c = Counted(pool.counters[v.slot], v, a.stake, isOwn) /\ d = Sent(c, isOwn)
  BY Zenon, <1>0
<1>d. IsPool(pool) /\ pool.counters \in [Slot -> Counters]
  BY Zenon, <1>1
<1> HIDE DEF p, r, c, d, acc, k
<1>3. /\ IsPool(p) /\ p.pruned = bankRoot /\ p.acc = acc /\ acc \in [Vote -> Accumulator]
      /\ p.completed \subseteq CertType
  BY <1>a, VotedPool
<1>4. IsPool(r) /\ r.highest = pool.highest
  BY <1>b, <1>d, VotedFields
<1>5. IF v.type \in {"Notarize", "Skip"}
      THEN /\ r.counters = Put(pool.counters, v.slot, d)
           /\ r.pending = pool.pending \cup Wait(v.slot, ids)
           /\ r.events = pool.events \cup Ask(v.slot, ids, skip)
      ELSE r.counters = pool.counters /\ r.pending = pool.pending /\ r.events = pool.events
  <2>1. CountedInto(pool, v, isOwn, r, c)
    BY Zenon, <1>b, <1>c, <1>d, VotedCounters
  <2> QED
    BY Zenon, <1>c, <2>1 DEF CountedInto
<1>6. ASSUME v.type \in {"Notarize", "Skip"}
      PROVE  /\ d \in Counters /\ Counts(d, Voters', own', v.slot) /\ Settled(d)
             /\ d.safe_to_notar_sent = k.safe_to_notar_sent \cup ids
             /\ d.safe_to_skip_sent <=> k.safe_to_skip_sent \/ skip
             /\ ids \subseteq Ids
  <2>1. k \in Counters /\ Counts(k, Voters, own, v.slot) /\ Settled(k)
    BY Zenon, <1>0, <1>1, <1>2 DEF Good
  <2>2. \A i, j \in Ids : i # j => Voters'[NotarOf(v.slot, i)] \cap Voters'[NotarOf(v.slot, j)] = {}
    <3>1. ASSUME NEW i \in Ids
          PROVE  /\ NotarOf(v.slot, i) = [type |-> "Notarize", slot |-> v.slot, id |-> i]
                 /\ Voters'[NotarOf(v.slot, i)] = Voting(entries', own', NotarOf(v.slot, i))
      <4>1. /\ NotarOf(v.slot, i) = [type |-> "Notarize", slot |-> v.slot, id |-> i]
            /\ NotarOf(v.slot, i) \in Vote
        BY Zenon, <1>2, NotarVotes
      <4> QED
        BY Zenon, <4>1 DEF Voters, VotedBy, Voting
    <3>2. me' \in {Self, NoOne}
      BY Zenon DEF VInv
    <3> SUFFICES ASSUME NEW i \in Ids, NEW j \in Ids, i # j
                 PROVE  Voters'[NotarOf(v.slot, i)] \cap Voters'[NotarOf(v.slot, j)] = {}
      BY Zenon
    <3> DEFINE x == NotarOf(v.slot, i)
               y == NotarOf(v.slot, j)
    <3>3. /\ x.slot = y.slot /\ x.type = "Notarize" /\ y.type = "Notarize" /\ x.id # y.id
          /\ Voters'[x] = Voting(entries', own', x) /\ Voters'[y] = Voting(entries', own', y)
      <4>1. x = [type |-> "Notarize", slot |-> v.slot, id |-> i] /\ Voters'[x] = Voting(entries', own', x)
        BY Zenon, <3>1
      <4>2. y = [type |-> "Notarize", slot |-> v.slot, id |-> j] /\ Voters'[y] = Voting(entries', own', y)
        BY Zenon, <3>1
      <4> HIDE DEF x, y
      <4> QED
        BY Zenon, <4>1, <4>2
    <3> HIDE DEF x, y
    <3>4. Voting(entries', own', x) \cap Voting(entries', own', y) = {}
      BY Zenon, <3>2, <3>3, ApartVoters
    <3> QED
      BY Zenon, <3>3, <3>4 DEF x, y
  <2>3. IF isOwn THEN FirstOf(own, v.slot) = {} /\ FirstOf(own', v.slot) = {v}
                 ELSE FirstOf(own', v.slot) = FirstOf(own, v.slot)
    <3>1. CASE isOwn
      <4>1. v \notin own /\ own' = own \cup {v} /\ Apart(own \cup {v})
        BY Zenon, <3>1 DEF Clean
      <4> QED
        BY Zenon, <1>1, <1>6, <3>1, <4>1, FirstVote
    <3>2. CASE ~isOwn
      BY Zenon, <3>2
    <3> QED
      BY Zenon, <3>1, <3>2
  <2>4. c = Counted(k, v, Stake[Voters'[v]], isOwn)
    BY Zenon, <1>0
  <2>5. VoteStep(k, v.slot, own, own', Voters, Voters', v, isOwn)
    BY Zenon, <1>6, <2>1, <2>2, <2>3, VotersType DEF VoteStep
  <2>6. k \in Counters /\ v.slot \in Slot /\ d = Sent(c, isOwn)
    BY Zenon, <1>0, <1>2, <2>1
  <2>7. Stepped(k, d, own', Voters', v.slot, SafeIds(c, isOwn), SafeSkip(c, isOwn))
    BY Zenon, <2>4, <2>5, <2>6, CountStep
  <2> QED
    BY Zenon, <2>7 DEF Stepped
<1>7. ASSUME NEW s \in Slot, s # v.slot \/ v.type \notin {"Notarize", "Skip"},
             NEW x, Counts(x, Voters, own, s)
      PROVE  Counts(x, Voters', own', s)
  <2>1. \A i \in Ids : NotarOf(s, i) \in Vote /\ NotarOf(s, i) # v
    BY <1>7, NotarVotes
  <2>2. Skip(s) \in Vote /\ Skip(s) # v
    BY <1>7, NotarVotes DEF Skip
  <2>3. FirstOf(own', s) = FirstOf(own, s)
    <3>1. CASE isOwn
      <4>1. v \notin own /\ own' = own \cup {v} /\ Apart(own \cup {v})
        BY Zenon, <3>1 DEF Clean
      <4>2. \A u : u # v.slot \/ v.type \notin {"Notarize", "Skip"} =>
                FirstOf(own \cup {v}, u) = FirstOf(own, u)
        BY Zenon, <1>1, <4>1, FirstVote
      <4> QED
        BY Zenon, <1>7, <4>1, <4>2
    <3>2. CASE ~isOwn
      BY Zenon, <3>2
    <3> QED
      BY Zenon, <3>1, <3>2
  <2>4. Voters'[Skip(s)] = Voters[Skip(s)] /\ \A i \in Ids : Voters'[NotarOf(s, i)] = Voters[NotarOf(s, i)]
    BY Zenon, <2>1, <2>2
  <2> QED
    BY Zenon, <1>7, <2>3, <2>4, CountsSame
<1>8. /\ r.counters \in [Slot -> Counters]
      /\ \A s \in Slot : r.counters[s] = IF s = v.slot /\ v.type \in {"Notarize", "Skip"}
                                         THEN d ELSE pool.counters[s]
  <2>1. CASE v.type \in {"Notarize", "Skip"}
    <3>1. r.counters = Put(pool.counters, v.slot, d) /\ d \in Counters
      BY Zenon, <1>5, <1>6, <2>1
    <3> QED
      BY <1>2, <1>d, <2>1, <3>1 DEF Put
  <2>2. CASE v.type \notin {"Notarize", "Skip"}
    BY Zenon, <1>5, <1>d, <2>2
  <2> QED
    BY Zenon, <2>1, <2>2
<1>9. r.pending \cup waiting \subseteq Inside
  <2>1. CASE v.type \in {"Notarize", "Skip"}
    <3>1. Wait(v.slot, ids) \subseteq Inside
      BY <1>2, <1>6, <2>1 DEF Wait, When, Inside, Block
    <3> QED
      BY Zenon, <1>1, <1>5, <2>1, <3>1
  <2>2. CASE v.type \notin {"Notarize", "Skip"}
    BY Zenon, <1>1, <1>5, <2>2
  <2> QED
    BY Zenon, <2>1, <2>2
<1>10. ASSUME NEW s \in Slot, s >= bankRoot
       PROVE  Good(r.counters[s], Voters', own', r.events, r.pending \cup waiting, r.highest, s)
  <2> DEFINE x == pool.counters[s]
             W == pool.pending \cup waiting
  <2>1. Counts(x, Voters, own, s) /\ Settled(x) /\ Asked(x, pool.events, W, pool.highest, s)
    BY Zenon, <1>1, <1>10 DEF Good
  <2>2. CASE v.type \notin {"Notarize", "Skip"}
    BY Zenon, <1>4, <1>5, <1>7, <1>8, <2>1, <2>2 DEF Good
  <2>3. CASE v.type \in {"Notarize", "Skip"}
    <3>1. /\ r.events = pool.events \cup Ask(v.slot, ids, skip)
          /\ r.pending \cup waiting = W \cup Wait(v.slot, ids)
      BY Zenon, <1>5, <2>3
    <3> DEFINE y == r.counters[s]
    <3>2. /\ s # v.slot => y = x
          /\ s = v.slot => /\ y = d /\ x = k
                           /\ y.safe_to_notar_sent = x.safe_to_notar_sent \cup ids
                           /\ y.safe_to_skip_sent <=> x.safe_to_skip_sent \/ skip
      BY Zenon, <1>0, <1>6, <1>8, <2>3
    <3>3. ids \in SUBSET Ids
      BY Zenon, <1>6, <2>3
    <3> HIDE DEF x, y, W, ids, skip
    <3>4. Asked(y, pool.events \cup Ask(v.slot, ids, skip), W \cup Wait(v.slot, ids), pool.highest, s)
      BY Zenon, <2>1, <3>2, <3>3, AskedMore
    <3>5. Counts(y, Voters', own', s) /\ Settled(y)
      <4>1. CASE s = v.slot
        BY Zenon, <1>6, <2>3, <3>2, <4>1
      <4>2. CASE s # v.slot
        BY Zenon, <1>7, <2>1, <3>2, <4>2
      <4> QED
        BY Zenon, <4>1, <4>2
    <3>6. Good(y, Voters', own', r.events, r.pending \cup waiting, r.highest, s)
      BY Zenon, <1>4, <3>1, <3>4, <3>5 DEF Good
    <3> QED
      BY Zenon, <3>6 DEF y
  <2> QED
    BY Zenon, <2>2, <2>3
<1>11. /\ p.counters = r.counters /\ p.pending = r.pending
       /\ \A s \in Slot : s >= bankRoot =>
              Good(r.counters[s], Voters', own', p.events, r.pending \cup waiting, p.highest, s)
  <2>1. CASE p = r
    BY Zenon, <1>10, <2>1
  <2>2. ASSUME NEW e \in CertType, p = insert_certificate(r, e)
        PROVE  /\ p.counters = r.counters /\ p.pending = r.pending
               /\ \A s \in Slot : s >= bankRoot =>
                      Good(r.counters[s], Voters', own', p.events, r.pending \cup waiting, p.highest, s)
    <3>1. p.counters = r.counters /\ p.pending = r.pending
      BY <1>4, <2>2, InsertFields
    <3>2. r.highest \in Int /\ (r.highest = NotFinalized \/ r.highest >= 0)
      BY Zenon, <1>4, HighestType
    <3>3. ASSUME NEW s \in Slot, s >= bankRoot
          PROVE  Good(r.counters[s], Voters', own', p.events, r.pending \cup waiting, p.highest, s)
      <4> DEFINE x == r.counters[s]
                 W == r.pending \cup waiting
      <4>1. Good(x, Voters', own', r.events, W, r.highest, s)
        BY Zenon, <1>10, <3>3
      <4> HIDE DEF x, W
      <4>2. Good(x, Voters', own', p.events, W, p.highest, s)
        BY Zenon, <1>4, <2>2, <3>2, <4>1, InsertGood
      <4> QED
        BY Zenon, <4>2 DEF x, W
    <3> QED
      BY Zenon, <3>1, <3>3
  <2>3. p = r \/ \E e \in CertType : p = insert_certificate(r, e)
    BY <1>a, <1>b, VoteInserts
  <2> QED
    BY Zenon, <2>1, <2>2, <2>3
<1>12. /\ p.counters \in [Slot -> Counters] /\ p.pending \cup waiting \subseteq Inside
       /\ \A s \in Slot : s >= bankRoot =>
              Good(p.counters[s], Voters', own', p.events, p.pending \cup waiting, p.highest, s)
  BY Zenon, <1>8, <1>9, <1>11
<1> QED
  BY Zenon, <1>0, <1>3, <1>12, HandledKInv

LEMMA InitKInv == Init => KInv
<1> SUFFICES ASSUME Init PROVE KInv
  BY Zenon
<1>1. /\ pool.counters = [s \in Slot |-> NewCounters] /\ pool.pending = {} /\ waiting = {}
      /\ pool.events = {} /\ own = {} /\ pool.highest = NotFinalized
      /\ entries = [x \in Validators |-> {}]
  BY DEF Init, NewPool
<1>2. \A v \in Vote : Voters[v] = {}
  BY Zenon, <1>1 DEF Voters, VotedBy
<1>3. NewCounters \in Counters
  BY Zenon DEF NewCounters, Counters
<1>4. ASSUME NEW s \in Slot
      PROVE  Good(NewCounters, Voters, own, pool.events, pool.pending \cup waiting, pool.highest, s)
  <2>1. \A i \in Ids : Voters[NotarOf(s, i)] = {} /\ NotarStake(Voters, s, i) = 0
    BY Zenon, <1>2, NotarVotes, StakeEmpty DEF NotarStake
  <2>2. NotarUnion(Voters, s) = {} /\ Stake[NotarUnion(Voters, s)] = 0
    <3>1. NotarUnion(Voters, s) = {}
      BY Zenon, <2>1 DEF NotarUnion
    <3> QED
      BY Zenon, <3>1, StakeEmpty
  <2>3. Stake[Voters[Skip(s)]] = 0
    BY Zenon, <1>2, NotarVotes, StakeEmpty
  <2>4. FirstOf(own, s) = {}
    BY Zenon, <1>1 DEF FirstOf
  <2>5. Counts(NewCounters, Voters, own, s)
    <3>1. /\ NewCounters.my_first_vote = {} /\ NewCounters.skip_total = 0
          /\ NewCounters.notarize_total = 0 /\ NewCounters.top_notarized_stake = 0
          /\ \A i \in Ids : NewCounters.notarize_entry_total[i] = 0
      BY Zenon DEF NewCounters
    <3>2. \A i \in Ids : NotarStake(Voters, s, i) <= 0
      BY <2>1
    <3> QED
      BY Zenon, <2>1, <2>2, <2>3, <2>4, <3>1, <3>2 DEF Counts
  <2>6. Settled(NewCounters)
    BY Zenon DEF Settled, NewCounters
  <2>7. Asked(NewCounters, pool.events, pool.pending \cup waiting, pool.highest, s)
    BY Zenon, <1>1 DEF Asked, NewCounters
  <2> QED
    BY Zenon, <2>5, <2>6, <2>7 DEF Good
<1> QED
  BY Zenon, <1>1, <1>3, <1>4 DEF KInv

LEMMA NextKInv ==
    ASSUME CInv, CInv', VInv, VInv', SInv, KInv, Next
    PROVE  KInv'
<1>0. /\ bankRoot \in Int /\ IsPool(pool) /\ pool.pruned = bankRoot /\ pool.completed \subseteq CertType
      /\ pool.acc \in [Vote -> Accumulator] /\ switches \in Nat
  BY DEF CInv, Slot, VInv
<1>1. CASE switches' # 0
  BY Zenon, <1>1 DEF KInv
<1>2. CASE switches # 0 /\ switches' = 0
  <2>1. switches' \in {switches, switches + 1}
    BY Zenon, <1>2 DEF Next, ReceiveVotes, CastVote, ReceiveCertificate, ProcessPending, ReceiveBlock,
               SwitchIdentity, Handled
  <2> QED
    BY <1>0, <1>2, <2>1
<1>3. ASSUME switches = 0 PROVE KInv'
  <2>0. /\ pool.counters \in [Slot -> Counters] /\ pool.pending \cup waiting \subseteq Inside
        /\ \A s \in Slot : s >= bankRoot =>
               Good(pool.counters[s], Voters, own, pool.events, pool.pending \cup waiting,
                    pool.highest, s)
    BY Zenon, <1>3 DEF KInv
  <2>1. ASSUME NEW v, NEW a, NEW isOwn \in BOOLEAN, Took(v, a, isOwn)
        PROVE  KInv'
    BY Zenon, <1>3, <2>1, VoteKInv DEF Took
  <2>2. CASE \/ \E v \in ArrivingVotes, senders \in SUBSET Validators : ReceiveVotes(v, senders)
             \/ \E v \in ArrivingVotes : CastVote(v)
    BY Zenon, <1>3, <2>1, <2>2, VotesTaken, VoteTaken
  <2>3. ASSUME NEW c \in Certificates, ReceiveCertificate(c)
        PROVE  KInv'
    <3> DEFINE p == insert_certificate(pool, c)
    <3>1. c \in CertType /\ c.slot >= bankRoot /\ c \notin pool.completed
      BY Zenon, <2>3, PoolAssumption DEF ReceiveCertificate
    <3>2. ~(c.slot < bankRoot)
      BY <1>0, <3>1, CertShape
    <3>3. Handled(p, {c}) /\ UNCHANGED <<entries, own>>
      BY Zenon, <2>3, <3>1, <3>2 DEF ReceiveCertificate, add_cert
    <3>4. p = insert_certificate(pool, c)
      BY Zenon
    <3> HIDE DEF p
    <3>5. /\ IsPool(p) /\ p.acc = pool.acc /\ p.completed = pool.completed \cup {c}
          /\ p.pruned = bankRoot /\ p.counters = pool.counters /\ p.pending = pool.pending
      BY <1>0, <3>4, InsertFields
    <3>6. Voters' = Voters /\ own' = own
      BY Zenon, <3>3 DEF Voters, VotedBy
    <3>7. ASSUME NEW s \in Slot, s >= bankRoot
          PROVE  Good(p.counters[s], Voters', own', p.events, p.pending \cup waiting, p.highest, s)
      <4> DEFINE x == pool.counters[s]
                 W == pool.pending \cup waiting
      <4>1. Good(x, Voters, own, pool.events, W, pool.highest, s)
        BY Zenon, <2>0, <3>7
      <4>2. pool.highest \in Int /\ (pool.highest = NotFinalized \/ pool.highest >= 0)
        BY Zenon, HighestType
      <4> HIDE DEF x, W
      <4>3. Good(x, Voters, own, p.events, W, p.highest, s)
        BY Zenon, <1>0, <3>1, <3>4, <4>1, <4>2, InsertGood
      <4> QED
        BY Zenon, <3>5, <3>6, <4>3 DEF x, W
    <3>8. /\ p.acc \in [Vote -> Accumulator] /\ p.completed \subseteq CertType
          /\ p.counters \in [Slot -> Counters] /\ p.pending \cup waiting \subseteq Inside
      BY Zenon, <1>0, <2>0, <3>1, <3>5
    <3> QED
      BY Zenon, <3>3, <3>5, <3>7, <3>8, HandledKInv
  <2>4. ASSUME NEW full \in SUBSET pool.pending, ProcessPending(full)
        PROVE  KInv'
    <3> DEFINE R == Resolved(Taken(full))
               asked == {Event("SafeToNotar", b.slot, b.id) : b \in R}
    <3>1. /\ pool' = [pool EXCEPT !.pending = full, !.events = @ \cup asked]
          /\ waiting' = Taken(full) \ R
          /\ UNCHANGED <<entries, own, bankRoot>>
      BY Zenon, <2>4 DEF ProcessPending
    <3> HIDE DEF asked
    <3>2. /\ pool'.counters = pool.counters /\ pool'.highest = pool.highest
          /\ pool'.pending = full /\ pool'.events = pool.events \cup asked
      BY Zenon, <1>0, <3>1 DEF IsPool
    <3>3. Taken(full) = {b \in waiting \cup (pool.pending \ full) : ~Passed(pool.highest, b.slot)}
      <4>1. \A b \in waiting \cup (pool.pending \ full) : b.slot > HighestSlot <=> ~Passed(pool.highest, b.slot)
        <5>1. ASSUME NEW b \in waiting \cup (pool.pending \ full)
              PROVE  b.slot > HighestSlot <=> ~Passed(pool.highest, b.slot)
          <6>1. b.slot \in Int
            BY <2>0, <5>1 DEF Inside, Block, Slot
          <6>2. pool.highest \in Int /\ HighestSlot = High(pool.highest)
            BY Zenon, HighestType DEF HighestSlot, High
          <6>3. High(pool.highest) \in Int
            BY <6>2 DEF High
          <6> QED
            BY <6>1, <6>2, <6>3 DEF Passed
        <5> QED
          BY Zenon, <5>1
      <4> QED
        BY Zenon, <4>1 DEF Taken
    <3>4. R \subseteq Taken(full)
      BY Zenon DEF Resolved
    <3>5. Taken(full) \subseteq pool.pending \cup waiting
      BY Zenon, <3>3
    <3>6. ASSUME NEW s \in Slot, NEW i \in Ids
          PROVE  Event("SafeToNotar", s, i) \in asked <=> BlockIn(s, i) \in R
      <4>1. \A b \in R : b = BlockIn(b.slot, b.id)
        BY <2>0, <3>4, <3>5 DEF Inside, Block, BlockIn
      <4>2. \A b : b \in R => (Event("SafeToNotar", s, i) = Event("SafeToNotar", b.slot, b.id)
                                   <=> b = BlockIn(s, i))
        BY Zenon, <4>1 DEF Event, BlockIn
      <4> HIDE DEF R
      <4>3. Event("SafeToNotar", s, i) \in asked <=> \E b \in R : b = BlockIn(s, i)
        BY Zenon, <4>2 DEF asked
      <4> QED
        BY Zenon, <4>3
    <3>7. \A s : Event("SafeToSkip", s, NoId) \notin asked
      BY Zenon DEF asked, Event
    <3> HIDE DEF R
    <3>8. ASSUME NEW s \in Slot, s >= bankRoot
          PROVE  Good(pool.counters[s], Voters, own, pool'.events, full \cup waiting', pool.highest, s)
      <4> DEFINE k == pool.counters[s]
                 W == pool.pending \cup waiting
                 X == full \cup waiting'
                 E == pool.events
                 D == pool'.events
      <4>1. Good(k, Voters, own, E, W, pool.highest, s)
        BY Zenon, <2>0, <3>8
      <4>2. ASSUME NEW i \in Ids
            PROVE  /\ BlockIn(s, i) \in X => BlockIn(s, i) \in W
                   /\ BlockIn(s, i) \in R => BlockIn(s, i) \in W
                   /\ BlockIn(s, i) \in W => \/ BlockIn(s, i) \in X \/ BlockIn(s, i) \in R
                                             \/ Passed(pool.highest, s)
                   /\ Event("SafeToNotar", s, i) \in D
                          <=> Event("SafeToNotar", s, i) \in E \/ BlockIn(s, i) \in R
                   /\ BlockIn(s, i) \in W => ~FirstInWindow(s)
        <5> DEFINE b == BlockIn(s, i)
        <5>1. b.slot = s
          BY Zenon DEF BlockIn
        <5>2. b \in X => b \in W
          BY Zenon, <3>1, <3>5
        <5>3. b \in R => b \in W
          BY Zenon, <3>4, <3>5
        <5>4. b \in W => b \in X \/ b \in R \/ Passed(pool.highest, s)
          <6>1. b \in W /\ b \notin full /\ ~Passed(pool.highest, s) => b \in Taken(full)
            BY Zenon, <3>3, <5>1
          <6> QED
            BY Zenon, <3>1, <6>1
        <5>5. Event("SafeToNotar", s, i) \in D <=> Event("SafeToNotar", s, i) \in E \/ b \in R
          BY Zenon, <3>2, <3>6
        <5>6. b \in W => ~FirstInWindow(s)
          BY Zenon, <2>0, <5>1 DEF Inside
        <5> QED
          BY Zenon, <5>2, <5>3, <5>4, <5>5, <5>6
      <4>3. Event("SafeToSkip", s, NoId) \in D <=> Event("SafeToSkip", s, NoId) \in E
        BY Zenon, <3>2, <3>7
      <4> HIDE DEF k, W, X, E, D
      <4>4. Asked(k, E, W, pool.highest, s)
        BY Zenon, <4>1 DEF Good
      <4>5. ASSUME NEW i \in Ids
            PROVE  IF FirstInWindow(s)
                   THEN Event("SafeToNotar", s, i) \in D <=> i \in k.safe_to_notar_sent
                   ELSE /\ Event("SafeToNotar", s, i) \in D \/ BlockIn(s, i) \in X
                               => i \in k.safe_to_notar_sent
                        /\ i \in k.safe_to_notar_sent
                               => \/ Event("SafeToNotar", s, i) \in D
                                  \/ BlockIn(s, i) \in X \/ Passed(pool.highest, s)
        <5>1. IF FirstInWindow(s)
              THEN Event("SafeToNotar", s, i) \in E <=> i \in k.safe_to_notar_sent
              ELSE /\ Event("SafeToNotar", s, i) \in E \/ BlockIn(s, i) \in W
                          => i \in k.safe_to_notar_sent
                   /\ i \in k.safe_to_notar_sent
                          => \/ Event("SafeToNotar", s, i) \in E
                             \/ BlockIn(s, i) \in W \/ Passed(pool.highest, s)
          BY Zenon, <4>4 DEF Asked
        <5> QED
          BY Zenon, <4>2, <5>1
      <4>6. Asked(k, D, X, pool.highest, s)
        BY Zenon, <4>3, <4>4, <4>5 DEF Asked
      <4>7. Good(k, Voters, own, D, X, pool.highest, s)
        BY Zenon, <4>1, <4>6 DEF Good
      <4> QED
        BY Zenon, <4>7 DEF k, D, X
    <3>9. Voters' = Voters
      BY Zenon, <3>1 DEF Voters, VotedBy
    <3>10. full \cup waiting' \subseteq Inside
      BY Zenon, <2>0, <3>1, <3>5
    <3> QED
      BY Zenon, <2>0, <3>1, <3>2, <3>8, <3>9, <3>10 DEF KInv
  <2>5. ASSUME NEW b \in DOMAIN Parent, ReceiveBlock(b) PROVE KInv'
    <3>1. UNCHANGED <<entries, own, pool, bankRoot, waiting>>
      BY Zenon, <2>5 DEF ReceiveBlock
    <3>2. Voters' = Voters
      BY Zenon, <3>1 DEF Voters, VotedBy
    <3> QED
      BY Zenon, <2>0, <3>1, <3>2 DEF KInv
  <2>6. CASE SwitchIdentity
    <3>1. switches' # 0
      BY <1>0, <2>6 DEF SwitchIdentity
    <3> QED
      BY Zenon, <1>1, <3>1
  <2> QED
    BY Zenon, <2>2, <2>3, <2>4, <2>5, <2>6 DEF Next
<1> QED
  BY Zenon, <1>1, <1>2, <1>3

LEMMA AlwaysKInv == Spec => []KInv
<1>1. CInv /\ CInv' /\ VInv /\ VInv' /\ SInv /\ KInv /\ [Next]_vars => KInv'
  <2> SUFFICES ASSUME CInv, CInv', VInv, VInv', SInv, KInv, [Next]_vars PROVE KInv'
    BY Zenon
  <2>1. CASE Next
    BY Zenon, <2>1, NextKInv
  <2>2. CASE UNCHANGED vars
    <3>1. UNCHANGED <<entries, own, pool, bankRoot, waiting, switches>>
      BY Zenon, <2>2 DEF vars
    <3>2. Voters' = Voters
      BY Zenon, <3>1 DEF Voters, VotedBy
    <3> QED
      BY Zenon, <3>1, <3>2 DEF KInv
  <2> QED
    BY Zenon, <2>1, <2>2
<1> QED
  BY InitKInv, AlwaysVInv, <1>1, PTL DEF Spec

\* The counters say what the definitions say.
LEMMA SafeMeans ==
    ASSUME CInv, VInv, SInv, KInv, switches = 0, NEW s \in Slot, s > pool.pruned
    PROVE  LET k == pool.counters[s]
           IN  /\ Asked(k, pool.events, pool.pending \cup waiting, pool.highest, s)
               /\ \A i \in Ids : i \in k.safe_to_notar_sent <=> IsSafeToNotar(BlockIn(s, i))
               /\ k.safe_to_skip_sent <=>
                      /\ \E v \in OwnFirst(s) : v.type = "Notarize"
                      /\ \A top \in NotarStakes(s) :
                             (\A n \in NotarStakes(s) : n <= top) =>
                                 AtLeast(StakeOf(Skip(s)) + AllNotarStake(s) - top, 40)
<1> DEFINE k == pool.counters[s]
           top == k.top_notarized_stake
<1>1. s >= bankRoot
  BY DEF CInv, Slot
<1>2. /\ k \in Counters /\ Counts(k, Voters, own, s) /\ Settled(k)
      /\ Asked(k, pool.events, pool.pending \cup waiting, pool.highest, s)
  BY Zenon, <1>1 DEF KInv, Good
<1>3. own \subseteq Vote /\ Apart(own)
  BY Zenon DEF VInv, SInv, Clean
<1> HIDE DEF k
<1>4. k.my_first_vote = OwnFirst(s)
  BY Zenon, <1>2 DEF Counts, FirstOf, OwnFirst
<1>5. /\ Skip(s) \in Vote /\ StakeOf(Skip(s)) = k.skip_total
      /\ k.skip_total \in Nat /\ k.notarize_total \in Nat /\ top \in Nat
  BY Zenon, <1>2, NotarVotes DEF Counts, StakeOf, Voters, Counters
<1>6. ASSUME NEW i \in Ids
      PROVE  /\ NotarStake(Voters, s, i) = StakeOf(NotarOf(s, i))
             /\ NotarStake(Voters, s, i) = k.notarize_entry_total[i]
             /\ Voters[NotarOf(s, i)] = VotedBy(NotarOf(s, i))
             /\ k.notarize_entry_total[i] \in Nat
  <2>1. NotarOf(s, i) \in Vote
    BY Zenon, NotarVotes
  <2> QED
    BY Zenon, <1>2, <2>1 DEF NotarStake, StakeOf, Voters, Counts, Counters
<1>7. \A v, w \in OwnFirst(s) : v = w
  <2> SUFFICES ASSUME NEW v \in OwnFirst(s), NEW w \in OwnFirst(s) PROVE v = w
    BY Zenon
  <2>1. /\ v \in own /\ v \in Vote /\ w \in own /\ w \in Vote /\ v.slot = s /\ w.slot = s
        /\ v.type \in {"Notarize", "Skip"} /\ w.type \in {"Notarize", "Skip"}
    BY Zenon, <1>3 DEF OwnFirst
  <2>2. /\ ~(v.type = "Skip" /\ w.type = "Notarize") /\ ~(w.type = "Skip" /\ v.type = "Notarize")
        /\ v.type = "Notarize" /\ w.type = "Notarize" => v.id = w.id
    BY Zenon, <1>3, <2>1 DEF Apart
  <2>3. v.type = w.type
    BY Zenon, <2>1, <2>2
  <2>4. v.id = w.id
    BY Zenon, <2>1, <2>2, <2>3, VoteShape
  <2> QED
    BY Zenon, <2>1, <2>3, <2>4, VoteShape
<1>8. ASSUME NEW i \in Ids
      PROVE  i \in k.safe_to_notar_sent <=> IsSafeToNotar(BlockIn(s, i))
  <2> DEFINE b == BlockIn(s, i)
             n == k.notarize_entry_total[i]
             first == OwnFirst(s)
  <2>1. b.slot = s /\ Notarize(b) = NotarOf(s, i)
    BY Zenon DEF BlockIn, NotarOf
  <2>2. StakeOf(Notarize(b)) = n /\ n \in Nat
    BY Zenon, <1>6, <2>1
  <2>3. \A v \in first : (v.type = "Notarize" /\ v.id = i) <=> v = Notarize(b)
    <3>1. \A v \in first : v \in Vote /\ v.slot = s
      BY Zenon, <1>3 DEF OwnFirst
    <3>2. Notarize(b) = [type |-> "Notarize", slot |-> s, id |-> i]
      BY Zenon, <2>1, NotarVotes
    <3> QED
      BY <3>1, <3>2, VoteShape
  <2> HIDE DEF b, n, first
  <2>4. first \notin {{}, {Notarize(b)}}
            <=> first # {} /\ ~\E v \in first : v.type = "Notarize" /\ v.id = i
    <3>1. \A v, w \in first : v = w
      BY Zenon, <1>7 DEF first
    <3> QED
      BY Zenon, <2>3, <3>1
  <2>5. is_safe_to_notar(k, i) <=>
            /\ ~\E v \in first : v.type = "Notarize" /\ v.id = i
            /\ AtLeast(n, 40) \/ (AtLeast(n, 20) /\ AtLeast(k.skip_total + n, 60))
    BY Zenon, <1>4 DEF is_safe_to_notar, EnoughToNotar, n, first
  <2>6. k.skip_total + n = n + k.skip_total
    BY <1>5, <2>2
  <2>7. IsSafeToNotar(b) <=>
            /\ first \notin {{}, {Notarize(b)}}
            /\ AtLeast(n, 40) \/ (AtLeast(n, 20) /\ AtLeast(n + k.skip_total, 60))
    BY Zenon, <1>5, <2>1, <2>2 DEF IsSafeToNotar, first
  <2>8. i \in k.safe_to_notar_sent <=> first # {} /\ is_safe_to_notar(k, i)
    BY Zenon, <1>2, <1>4 DEF Settled, first
  <2>9. i \in k.safe_to_notar_sent <=> IsSafeToNotar(b)
    BY Zenon, <2>4, <2>5, <2>6, <2>7, <2>8
  <2> QED
    BY Zenon, <2>9 DEF b
<1>9. /\ \A x \in NotarStakes(s) : \E i \in Ids : x = NotarStake(Voters, s, i)
      /\ \A i \in Ids : NotarStake(Voters, s, i) \in NotarStakes(s)
      /\ AllNotarStake(s) = k.notarize_total
  <2>1. \A b \in Block : b.slot = s => b.id \in Ids /\ Notarize(b) = NotarOf(s, b.id)
    BY Zenon, Kinds DEF NotarOf, BlockIn
  <2>2. \A i \in Ids : /\ BlockIn(s, i) \in Block /\ BlockIn(s, i).slot = s
                       /\ Notarize(BlockIn(s, i)) = NotarOf(s, i)
    BY Zenon, NotarVotes DEF NotarOf, BlockIn
  <2>3. ASSUME NEW x \in NotarStakes(s) PROVE \E i \in Ids : x = NotarStake(Voters, s, i)
    <3>1. PICK b \in Block : b.slot = s /\ x = StakeOf(Notarize(b))
      BY Zenon, <2>3 DEF NotarStakes
    <3> QED
      BY Zenon, <1>6, <2>1, <3>1
  <2>4. ASSUME NEW i \in Ids PROVE NotarStake(Voters, s, i) \in NotarStakes(s)
    <3>1. NotarStake(Voters, s, i) = StakeOf(Notarize(BlockIn(s, i)))
      BY Zenon, <1>6, <2>2
    <3> QED
      BY Zenon, <2>2, <3>1 DEF NotarStakes
  <2>5. UNION {VotedBy(Notarize(b)) : b \in {b \in Block : b.slot = s}} = NotarUnion(Voters, s)
    <3> DEFINE A == UNION {VotedBy(Notarize(b)) : b \in {b \in Block : b.slot = s}}
    <3>1. ASSUME NEW x \in A PROVE x \in NotarUnion(Voters, s)
      <4>1. PICK b \in Block : b.slot = s /\ x \in VotedBy(Notarize(b))
        BY Zenon, <3>1
      <4>2. b.id \in Ids /\ x \in Voters[NotarOf(s, b.id)]
        BY Zenon, <1>6, <2>1, <4>1
      <4> QED
        BY Zenon, <4>2 DEF NotarUnion
    <3>2. ASSUME NEW x \in NotarUnion(Voters, s) PROVE x \in A
      <4>1. PICK i \in Ids : x \in Voters[NotarOf(s, i)]
        BY Zenon, <3>2 DEF NotarUnion
      <4>2. x \in VotedBy(Notarize(BlockIn(s, i)))
        BY Zenon, <1>6, <2>2, <4>1
      <4> QED
        BY Zenon, <2>2, <4>2
    <3> HIDE DEF A
    <3>3. A = NotarUnion(Voters, s)
      BY Zenon, <3>1, <3>2
    <3> QED
      BY Zenon, <3>3 DEF A
  <2>6. AllNotarStake(s) = k.notarize_total
    BY Zenon, <1>2, <2>5 DEF AllNotarStake, Counts
  <2> QED
    BY Zenon, <2>3, <2>4, <2>6
<1>10. k.safe_to_skip_sent <=>
           /\ \E v \in OwnFirst(s) : v.type = "Notarize"
           /\ \A t \in NotarStakes(s) :
                  (\A n \in NotarStakes(s) : n <= t) =>
                      AtLeast(StakeOf(Skip(s)) + AllNotarStake(s) - t, 40)
  <2> DEFINE first == OwnFirst(s)
             N == NotarStakes(s)
             rest(t) == AtLeast(StakeOf(Skip(s)) + AllNotarStake(s) - t, 40)
  <2>1. /\ \A i \in Ids : NotarStake(Voters, s, i) <= top
        /\ top = 0 \/ \E i \in Ids : top = NotarStake(Voters, s, i)
    BY Zenon, <1>2 DEF Counts
  <2>2. \A x \in N : x \in Nat /\ x <= top
    BY Zenon, <1>6, <1>9, <2>1
  <2>3. ASSUME NEW v \in first, v.type = "Notarize" PROVE top \in N
    <3>1. v.id \in Ids
      BY Zenon, <1>3, <2>3, VoteShape DEF OwnFirst
    <3>2. NotarStake(Voters, s, v.id) \in N /\ NotarStake(Voters, s, v.id) \in Nat
      BY Zenon, <1>6, <1>9, <3>1
    <3>3. CASE top = 0
      <4>1. NotarStake(Voters, s, v.id) <= 0
        BY Zenon, <2>1, <3>1, <3>3
      <4> QED
        BY <3>2, <3>3, <4>1
    <3>4. CASE \E i \in Ids : top = NotarStake(Voters, s, i)
      BY Zenon, <1>9, <3>4
    <3> QED
      BY Zenon, <2>1, <3>3, <3>4
  <2>4. k.safe_to_skip_sent <=> (\E v \in first : v.type = "Notarize") /\ rest(top)
    <3>1. StakeOf(Skip(s)) + AllNotarStake(s) - top
              = k.skip_total + k.notarize_total - k.top_notarized_stake
      BY Zenon, <1>5, <1>9
    <3>2. is_safe_to_skip(k) <=> (\E v \in first : v.type = "Notarize") /\ rest(top)
      BY Zenon, <1>4, <3>1 DEF is_safe_to_skip
    <3>3. k.safe_to_skip_sent <=> first # {} /\ is_safe_to_skip(k)
      BY Zenon, <1>2, <1>4 DEF Settled
    <3> QED
      BY Zenon, <3>2, <3>3
  <2> HIDE DEF rest, N, top, first
  <2>5. ASSUME NEW v \in first, v.type = "Notarize"
        PROVE  rest(top) <=> \A t \in N : (\A n \in N : n <= t) => rest(t)
    <3>1. top \in N
      BY Zenon, <2>3, <2>5
    <3>2. \A t \in N : (\A n \in N : n <= t) <=> t = top
      <4>1. \A t \in N : (\A n \in N : n <= t) => t = top
        <5>1. ASSUME NEW t \in N, \A n \in N : n <= t PROVE t = top
          <6>1. top <= t /\ t <= top /\ t \in Nat /\ top \in Nat
            BY Zenon, <2>2, <3>1, <5>1
          <6> QED
            BY <6>1
        <5> QED
          BY Zenon, <5>1
      <4> QED
        BY Zenon, <2>2, <4>1
    <3> QED
      BY Zenon, <3>1, <3>2
  <2>6. k.safe_to_skip_sent <=>
            /\ \E v \in first : v.type = "Notarize"
            /\ \A t \in N : (\A n \in N : n <= t) => rest(t)
    BY Zenon, <2>4, <2>5
  <2> QED
    BY Zenon, <2>6 DEF rest, N, first
<1> QED
  BY Zenon, <1>2, <1>8, <1>10 DEF k

(***************************************************************************)
(* SlotStakeCounters notices the moment at which a NotarizeFallback vote   *)
(* is safe, neither too early nor too late, whatever vote came last, and   *)
(* the service loses no block that waits for its parent.                   *)
(***************************************************************************)
THEOREM FallbackToNotarIsExact == Spec => []SafeToNotarAsDefined
<1>1. CInv /\ VInv /\ SInv /\ KInv => SafeToNotarAsDefined
  <2> SUFFICES ASSUME CInv, VInv, SInv, KInv, NEW b \in Block, b.slot > pool.pruned, switches = 0
               PROVE  LET raised == Event("SafeToNotar", b.slot, b.id) \in pool.events
                      IN  IF FirstInWindow(b.slot)
                          THEN raised <=> IsSafeToNotar(b)
                          ELSE /\ raised \/ b \in pool.pending \cup waiting => IsSafeToNotar(b)
                               /\ IsSafeToNotar(b) => \/ raised
                                                      \/ b \in pool.pending \cup waiting
                                                      \/ b.slot <= HighestSlot
    BY Zenon DEF SafeToNotarAsDefined
  <2> DEFINE s == b.slot
             i == b.id
             k == pool.counters[s]
  <2>1. s \in Slot /\ i \in Ids /\ b = BlockIn(s, i)
    BY Zenon, Kinds DEF BlockIn
  <2>2. /\ Asked(k, pool.events, pool.pending \cup waiting, pool.highest, s)
        /\ i \in k.safe_to_notar_sent <=> IsSafeToNotar(b)
    <3>1. s > pool.pruned
      BY Zenon
    <3> HIDE DEF s, i
    <3> QED
      BY Zenon, <2>1, <3>1, SafeMeans
  <2>3. Passed(pool.highest, s) <=> s <= HighestSlot
    BY Zenon DEF Passed, High, HighestSlot
  <2> HIDE DEF s, i, k
  <2>4. IF FirstInWindow(s)
        THEN Event("SafeToNotar", s, i) \in pool.events <=> i \in k.safe_to_notar_sent
        ELSE /\ Event("SafeToNotar", s, i) \in pool.events \/ b \in pool.pending \cup waiting
                    => i \in k.safe_to_notar_sent
             /\ i \in k.safe_to_notar_sent
                    => \/ Event("SafeToNotar", s, i) \in pool.events
                       \/ b \in pool.pending \cup waiting \/ Passed(pool.highest, s)
    BY Zenon, <2>1, <2>2 DEF Asked
  <2>5. IF FirstInWindow(s)
        THEN Event("SafeToNotar", s, i) \in pool.events <=> IsSafeToNotar(b)
        ELSE /\ Event("SafeToNotar", s, i) \in pool.events \/ b \in pool.pending \cup waiting
                    => IsSafeToNotar(b)
             /\ IsSafeToNotar(b)
                    => \/ Event("SafeToNotar", s, i) \in pool.events
                       \/ b \in pool.pending \cup waiting \/ s <= HighestSlot
    BY Zenon, <2>2, <2>3, <2>4
  <2> QED
    BY Zenon, <2>5 DEF s, i
<1> QED
  BY AlwaysVInv, AlwaysKInv, <1>1, PTL

(***************************************************************************)
(* The same for SkipFallback, as long as the identity of the machine is    *)
(* not switched.                                                           *)
(***************************************************************************)
THEOREM FallbackToSkipIsExact == Spec => [](switches = 0 => SafeToSkipAsDefined)
<1>1. CInv /\ VInv /\ SInv /\ KInv => (switches = 0 => SafeToSkipAsDefined)
  <2> SUFFICES ASSUME CInv, VInv, SInv, KInv, switches = 0, NEW s \in Slot, s > pool.pruned
               PROVE  Event("SafeToSkip", s, NoId) \in pool.events <=>
                          /\ \E v \in OwnFirst(s) : v.type = "Notarize"
                          /\ \A top \in NotarStakes(s) :
                                 (\A n \in NotarStakes(s) : n <= top) =>
                                     AtLeast(StakeOf(Skip(s)) + AllNotarStake(s) - top, 40)
    BY Zenon DEF SafeToSkipAsDefined
  <2> DEFINE k == pool.counters[s]
  <2>1. /\ Asked(k, pool.events, pool.pending \cup waiting, pool.highest, s)
        /\ k.safe_to_skip_sent <=>
               /\ \E v \in OwnFirst(s) : v.type = "Notarize"
               /\ \A top \in NotarStakes(s) :
                      (\A n \in NotarStakes(s) : n <= top) =>
                          AtLeast(StakeOf(Skip(s)) + AllNotarStake(s) - top, 40)
    BY Zenon, SafeMeans
  <2> HIDE DEF k
  <2>2. Event("SafeToSkip", s, NoId) \in pool.events <=> k.safe_to_skip_sent
    BY Zenon, <2>1 DEF Asked
  <2> QED
    BY Zenon, <2>1, <2>2
<1> QED
  BY AlwaysVInv, AlwaysKInv, <1>1, PTL

=============================================================================
