------------------------ MODULE ConsensusPool_proof ------------------------
(***************************************************************************)
(* Proofs about ConsensusPool, for any validators and stakes, any slots    *)
(* and any messages: the certificates of the pool, what it finalizes and   *)
(* what it tells the tracker of ready parents.                             *)
(***************************************************************************)
EXTENDS ConsensusPool, TLAPS

\* The records that the pool is made of.
IsTracker(t) ==
    t \in [root : {t.root}, highest : {t.highest}, skip : {t.skip}, nf : {t.nf},
           ready : {t.ready}]

IsPool(p) ==
    p \in [acc : {p.acc}, counters : {p.counters}, completed : {p.completed},
           highest : {p.highest}, pending : {p.pending}, events : {p.events},
           tracker : {p.tracker}, pruned : {p.pruned}]

FinalEvent ==
    {Event(type, s, id) : type \in {"Finalized", "FinalizedFast"}, s \in Slot, id \in Ids}

-----------------------------------------------------------------------------
(* The certificates of the pool *)

\* The pool keeps exactly the certificates from its root on, and its tracker and
\* its finalizations are those of the certificates.
CInv ==
    /\ IsPool(pool) /\ IsTracker(pool.tracker)
    /\ bankRoot \in Slot /\ pool.pruned = bankRoot /\ pool.tracker.root = bankRoot
    /\ certified \subseteq CertType
    /\ pool.completed = {c \in certified : c.slot >= bankRoot}
    /\ Finalizations(pool.events) \subseteq FinalEvent
    /\ FinalizedAsDefined
    /\ TrackerFollowsCertificates

LEMMA VoteShape ==
    \A v \in Vote :
        /\ v = [type |-> v.type, slot |-> v.slot, id |-> v.id]
        /\ v.slot \in Slot /\ v.slot \in Int
        /\ \/ v.type \in {"Notarize", "NotarizeFallback"} /\ v.id \in Ids /\ BlockOf(v) \in Block
           \/ v.type \in {"Finalize", "Skip", "SkipFallback"} /\ v.id = NoId
  BY DEF Vote, Notarize, NotarizeFallback, Finalize, Skip, SkipFallback, Block, BlockOf, Slot

LEMMA CertOf ==
    ASSUME NEW v \in Vote, NEW type
    PROVE  Cert(type, v) = [type |-> type, slot |-> v.slot, id |-> v.id]
<1>1. v = [type |-> v.type, slot |-> v.slot, id |-> v.id]
  BY VoteShape
<1> QED
  BY <1>1 DEF Cert

LEMMA Kinds ==
    /\ \A b \in Block :
           /\ Notarize(b) \in Vote /\ NotarizeFallback(b) \in Vote
           /\ Notarize(b) \in CertType /\ NotarizeFallback(b) \in CertType
           /\ Cert("FinalizeFast", Notarize(b)) \in CertType
           /\ Cert("FinalizeFast", Notarize(b)) = [type |-> "FinalizeFast", slot |-> b.slot, id |-> b.id]
           /\ b.slot \in Slot /\ b.id \in Ids /\ b = [slot |-> b.slot, id |-> b.id]
    /\ \A s \in Slot :
           /\ Finalize(s) \in Vote /\ Skip(s) \in Vote /\ SkipFallback(s) \in Vote
           /\ Finalize(s) \in CertType /\ Skip(s) \in CertType
<1>1. \A b \in Block : Notarize(b) \in Vote /\ NotarizeFallback(b) \in Vote
  BY DEF Vote
<1>2. \A s \in Slot : Finalize(s) \in Vote /\ Skip(s) \in Vote /\ SkipFallback(s) \in Vote
  BY DEF Vote
<1>3. \A b \in Block : b.slot \in Slot /\ b.id \in Ids /\ b = [slot |-> b.slot, id |-> b.id]
  BY DEF Block
<1>4. ASSUME NEW b \in Block
      PROVE  /\ Cert("FinalizeFast", Notarize(b)) \in CertType
             /\ Cert("FinalizeFast", Notarize(b))
                    = [type |-> "FinalizeFast", slot |-> b.slot, id |-> b.id]
  BY <1>1, <1>4, CertOf DEF CertType, Notarize
<1>5. \A b \in Block : Notarize(b) \in CertType /\ NotarizeFallback(b) \in CertType
  BY Zenon, <1>1 DEF CertType, Notarize, NotarizeFallback
<1>6. \A s \in Slot : Finalize(s) \in CertType /\ Skip(s) \in CertType
  BY <1>2 DEF CertType, Finalize, Skip
<1> QED
  BY <1>1, <1>2, <1>3, <1>4, <1>5, <1>6

LEMMA CertShape ==
    ASSUME NEW c \in CertType
    PROVE  /\ c = [type |-> c.type, slot |-> c.slot, id |-> c.id]
           /\ c.slot \in Slot /\ c.slot \in Int
           /\ \/ /\ c.type \in {"Notarize", "NotarizeFallback", "FinalizeFast"}
                 /\ c.id \in Ids /\ BlockOf(c) \in Block
              \/ c.type \in {"Finalize", "Skip"} /\ c.id = NoId
<1>1. CASE c \in Vote /\ c.type # "SkipFallback"
  BY <1>1, VoteShape
<1>2. CASE \E b \in Block : c = Cert("FinalizeFast", Notarize(b))
  <2>1. PICK b \in Block : c = [type |-> "FinalizeFast", slot |-> b.slot, id |-> b.id]
    BY <1>2, Kinds
  <2> QED
    BY <2>1, Kinds DEF BlockOf, Slot
<1> QED
  BY <1>1, <1>2 DEF CertType

\* A certificate is the one of its kind for its block or its slot.
LEMMA CertNamed ==
    ASSUME NEW c \in CertType
    PROVE  /\ \A b \in Block : c = Notarize(b) <=> c.type = "Notarize" /\ BlockOf(c) = b
           /\ \A b \in Block : c = NotarizeFallback(b) <=> c.type = "NotarizeFallback" /\ BlockOf(c) = b
           /\ \A b \in Block : c = Cert("FinalizeFast", Notarize(b))
                                   <=> c.type = "FinalizeFast" /\ BlockOf(c) = b
           /\ \A s \in Slot : c = Finalize(s) <=> c.type = "Finalize" /\ c.slot = s
           /\ \A s \in Slot : c = Skip(s) <=> c.type = "Skip" /\ c.slot = s
<1>1. c = [type |-> c.type, slot |-> c.slot, id |-> c.id]
  BY CertShape
<1>2. \A b \in Block : b = [slot |-> b.slot, id |-> b.id]
  BY Kinds
<1>3. ASSUME NEW b \in Block
      PROVE  /\ c = Notarize(b) <=> c.type = "Notarize" /\ BlockOf(c) = b
             /\ c = NotarizeFallback(b) <=> c.type = "NotarizeFallback" /\ BlockOf(c) = b
  BY <1>1, <1>2 DEF Notarize, NotarizeFallback, BlockOf
<1>4. ASSUME NEW b \in Block
      PROVE  c = Cert("FinalizeFast", Notarize(b)) <=> c.type = "FinalizeFast" /\ BlockOf(c) = b
  <2>1. Cert("FinalizeFast", Notarize(b)) = [type |-> "FinalizeFast", slot |-> b.slot, id |-> b.id]
    BY Kinds
  <2> QED
    BY <1>1, <1>2, <2>1 DEF BlockOf
<1>5. c.type \in {"Finalize", "Skip"} => c.id = NoId
  BY CertShape
<1>6. ASSUME NEW s \in Slot
      PROVE  /\ c = Finalize(s) <=> c.type = "Finalize" /\ c.slot = s
             /\ c = Skip(s) <=> c.type = "Skip" /\ c.slot = s
  BY <1>1, <1>5 DEF Finalize, Skip
<1> QED
  BY <1>3, <1>4, <1>6

\* A vote completes at most one certificate, a new one of its slot.
LEMMA OneCert ==
    ASSUME NEW acc, NEW completed, NEW v \in Vote
    PROVE  \/ try_produce_cert(acc, completed, v) = {}
           \/ \E c \in CertType : /\ try_produce_cert(acc, completed, v) = {c}
                                  /\ c.slot = v.slot /\ c \notin completed
<1>1. \A type : Cert(type, v) = [type |-> type, slot |-> v.slot, id |-> v.id]
  BY CertOf
<1>2. v.slot \in Slot /\ v = [type |-> v.type, slot |-> v.slot, id |-> v.id]
  BY VoteShape
<1>3. CASE v.type = "Notarize"
  <2>1. BlockOf(v) \in Block /\ v = Notarize(BlockOf(v))
    BY <1>2, <1>3, VoteShape DEF Notarize, BlockOf
  <2>2. /\ Cert("FinalizeFast", v) \in CertType /\ v \in CertType
        /\ Cert("NotarizeFallback", v) \in CertType
    <3>1. Cert("NotarizeFallback", v) = NotarizeFallback(BlockOf(v))
      BY <1>1 DEF NotarizeFallback, BlockOf
    <3> QED
      BY <2>1, <3>1, Kinds
  <2>3. Cert("FinalizeFast", v).slot = v.slot /\ Cert("NotarizeFallback", v).slot = v.slot
    BY <1>1
  <2>4. try_produce_cert(acc, completed, v) = NotarizeCert(acc, completed, v)
    BY <1>3 DEF try_produce_cert
  <2> QED
    BY <2>2, <2>3, <2>4 DEF NotarizeCert, Base2, Base3, When
<1>4. CASE v.type = "NotarizeFallback"
  <2>1. v \in CertType
    BY <1>4 DEF CertType
  <2>2. try_produce_cert(acc, completed, v) = NotarizeFallbackCert(acc, completed, v)
    BY <1>4 DEF try_produce_cert
  <2>3. Cert("NotarizeFallback", v) = v
    BY <1>1, <1>2, <1>4
  <2>4. v \notin completed \/ NotarizeFallbackCert(acc, completed, v) = {}
    BY <2>3 DEF NotarizeFallbackCert, When
  <2> QED
    BY <2>1, <2>2, <2>4 DEF NotarizeFallbackCert, Base3, When
<1>5. CASE v.type = "Finalize"
  <2>1. v \in CertType
    BY <1>5 DEF CertType
  <2>2. try_produce_cert(acc, completed, v) = When(v \notin completed, Base2(v, acc[v]))
    BY <1>5 DEF try_produce_cert
  <2> QED
    BY <2>1, <2>2 DEF Base2, When
<1>6. CASE v.type \in {"Skip", "SkipFallback"}
  <2>1. Skip(v.slot) \in CertType /\ Skip(v.slot).slot = v.slot
    BY <1>2, Kinds DEF Skip
  <2>2. try_produce_cert(acc, completed, v) = SkipCert(acc, completed, v.slot)
    BY <1>6 DEF try_produce_cert
  <2> QED
    BY <2>1, <2>2 DEF SkipCert, Base3, When
<1> QED
  BY <1>3, <1>4, <1>5, <1>6, VoteShape

-----------------------------------------------------------------------------
(* Inserting a certificate *)

LEMMA InsertFields ==
    ASSUME NEW p, IsPool(p), NEW c, NEW q, q = insert_certificate(p, c)
    PROVE  /\ IsPool(q)
           /\ q.completed = p.completed \cup {c}
           /\ q.tracker = Track(p.tracker, c)
           /\ q.events = p.events \cup CertEvents(p.completed, c)
           /\ q.highest = highest_finalized(p.highest, p.completed, c)
           /\ q.acc = p.acc /\ q.counters = p.counters /\ q.pending = p.pending
           /\ q.pruned = p.pruned
<1>1. q = [acc |-> p.acc, counters |-> p.counters, completed |-> p.completed \cup {c},
           highest |-> highest_finalized(p.highest, p.completed, c), pending |-> p.pending,
           events |-> p.events \cup CertEvents(p.completed, c),
           tracker |-> Track(p.tracker, c), pruned |-> p.pruned]
  BY Zenon DEF IsPool, insert_certificate
<1> QED
  BY <1>1 DEF IsPool

Rank(e) == IF e.type = "FinalizedFast" THEN Fast(e.slot) ELSE Slow(e.slot)

Ranks(E) == {Rank(e) : e \in Finalizations(E)}

\* The finalizations E are those of the certificates, and h is the highest.
Finals(E, certs) ==
    \A b \in Block :
        /\ Event("Finalized", b.slot, b.id) \in E <=>
               {Notarize(b), Finalize(b.slot)} \subseteq certs
        /\ Event("FinalizedFast", b.slot, b.id) \in E <=>
               Cert("FinalizeFast", Notarize(b)) \in certs

TopRank(E, h) ==
    IF Ranks(E) = {} THEN h = NotFinalized
    ELSE h \in Ranks(E) /\ \A r \in Ranks(E) : r <= h

LEMMA FinalizedMeans ==
    FinalizedAsDefined <=> Finals(pool.events, certified) /\ TopRank(pool.events, pool.highest)
  BY DEF FinalizedAsDefined, Finals, TopRank, Ranks, Rank

\* The blocks that become final are those whose second certificate c is.
LEMMA FinalizedSecond ==
    ASSUME NEW root \in Int, NEW certs \in SUBSET CertType,
           NEW completed, completed = {c \in certs : c.slot >= root},
           NEW c \in CertType, c.slot >= root
    PROVE  \A b : b \in FinalizedBlocks(completed, c) <=>
                    /\ b \in Block /\ b.slot = c.slot
                    /\ {Notarize(b), Finalize(b.slot)} \subseteq certs \cup {c}
                    /\ \/ c = Notarize(b) /\ Finalize(b.slot) \in certs
                       \/ c = Finalize(b.slot) /\ Notarize(b) \in certs
<1>1. Finalize(c.slot) \in completed <=> Finalize(c.slot) \in certs
  BY DEF Finalize
<1>2. CASE c.type = "Notarize"
  <2>1. BlockOf(c) \in Block /\ BlockOf(c).slot = c.slot /\ c = Notarize(BlockOf(c))
    BY <1>2, CertShape, CertNamed DEF BlockOf
  <2>2. FinalizedBlocks(completed, c) = When(Finalize(c.slot) \in completed, {BlockOf(c)})
    BY <1>2 DEF FinalizedBlocks, When
  <2>3. \A s : c # Finalize(s)
    BY <1>2 DEF Finalize
  <2>4. \A b \in Block : c = Notarize(b) => b = BlockOf(c)
    BY <1>2, CertNamed
  <2> QED
    BY <1>1, <2>1, <2>2, <2>3, <2>4 DEF When
<1>3. CASE c.type = "Finalize"
  <2>1. c = Finalize(c.slot) /\ c.slot \in Slot
    BY <1>3, CertShape, CertNamed
  <2> DEFINE N == {n \in completed : n.type = "Notarize" /\ n.slot = c.slot}
  <2>2. FinalizedBlocks(completed, c) = {BlockOf(n) : n \in N}
    BY <1>3 DEF FinalizedBlocks, When
  <2>3. ASSUME NEW n \in N
        PROVE  BlockOf(n) \in Block /\ n = Notarize(BlockOf(n)) /\ BlockOf(n).slot = c.slot /\ n \in certs
    <3>1. n \in CertType /\ n.type = "Notarize" /\ n.slot = c.slot /\ n \in certs
      OBVIOUS
    <3> QED
      BY <3>1, CertShape, CertNamed DEF BlockOf
  <2>4. ASSUME NEW b \in Block, b.slot = c.slot, Notarize(b) \in certs
        PROVE  \E n \in N : BlockOf(n) = b
    <3>1. Notarize(b).slot = c.slot /\ Notarize(b).type = "Notarize" /\ BlockOf(Notarize(b)) = b
      BY Zenon, <2>4, Kinds DEF Notarize, BlockOf
    <3>2. Notarize(b) \in N
      BY <2>4, <3>1
    <3> QED
      BY <3>1, <3>2
  <2>5. \A b : c # Notarize(b)
    BY <1>3 DEF Notarize
  <2> HIDE DEF N
  <2>6. ASSUME NEW b \in FinalizedBlocks(completed, c)
        PROVE  /\ b \in Block /\ b.slot = c.slot /\ Notarize(b) \in certs
    BY <2>2, <2>3
  <2>7. ASSUME NEW b \in Block, b.slot = c.slot, Notarize(b) \in certs
        PROVE  b \in FinalizedBlocks(completed, c)
    BY <2>2, <2>4, <2>7
  <2>8. \A s : c = Finalize(s) => c.slot = s
    BY DEF Finalize
  <2> QED
    BY <2>1, <2>5, <2>6, <2>7, <2>8
<1>4. CASE c.type \notin {"Notarize", "Finalize"}
  <2>1. FinalizedBlocks(completed, c) = {}
    BY <1>4 DEF FinalizedBlocks, When
  <2>2. (\A b : c # Notarize(b)) /\ (\A s : c # Finalize(s))
    BY <1>4 DEF Notarize, Finalize
  <2> QED
    BY <2>1, <2>2
<1> QED
  BY <1>2, <1>3, <1>4

\* The finalizations that certificate c adds.
LEMMA NewFinal ==
    ASSUME NEW root \in Int, NEW certs \in SUBSET CertType,
           NEW completed, completed = {c \in certs : c.slot >= root},
           NEW c \in CertType, c.slot >= root,
           NEW E, NEW h, Finalizations(E) \subseteq FinalEvent, Finals(E, certs), TopRank(E, h)
    PROVE  LET D == E \cup CertEvents(completed, c)
           IN  /\ Finalizations(D) \subseteq FinalEvent
               /\ Finals(D, certs \cup {c})
               /\ TopRank(D, highest_finalized(h, completed, c))
<1> DEFINE F == FinalizedBlocks(completed, c)
           D == E \cup CertEvents(completed, c)
           fast == When(c.type = "FinalizeFast", {Event("FinalizedFast", c.slot, c.id)})
           slow == {Event("Finalized", b.slot, b.id) : b \in F}
<1>1. \A b : b \in F <=>
                    /\ b \in Block /\ b.slot = c.slot
                    /\ {Notarize(b), Finalize(b.slot)} \subseteq certs \cup {c}
                    /\ \/ c = Notarize(b) /\ Finalize(b.slot) \in certs
                       \/ c = Finalize(b.slot) /\ Notarize(b) \in certs
  BY Zenon, FinalizedSecond
<1>2. c.slot \in Slot /\ c.slot \in Int
      /\ (c.type \in {"Notarize", "FinalizeFast"} => c.id \in Ids /\ BlockOf(c) \in Block)
  BY CertShape
<1>3. Finalizations(D) = Finalizations(E) \cup fast \cup slow
  BY DEF Finalizations, CertEvents, Event, When
<1>4. slow \subseteq FinalEvent
  BY <1>1, Kinds DEF FinalEvent
<1>5. fast \subseteq FinalEvent
  BY <1>2 DEF FinalEvent, When
<1>6. Finals(D, certs \cup {c})
  <2> SUFFICES ASSUME NEW b \in Block
               PROVE  /\ Event("Finalized", b.slot, b.id) \in D <=>
                             {Notarize(b), Finalize(b.slot)} \subseteq certs \cup {c}
                      /\ Event("FinalizedFast", b.slot, b.id) \in D <=>
                             Cert("FinalizeFast", Notarize(b)) \in certs \cup {c}
    BY DEF Finals
  <2>1. /\ Event("Finalized", b.slot, b.id) \in E <=> {Notarize(b), Finalize(b.slot)} \subseteq certs
        /\ Event("FinalizedFast", b.slot, b.id) \in E <=> Cert("FinalizeFast", Notarize(b)) \in certs
    BY DEF Finals
  <2>2. Event("Finalized", b.slot, b.id) \in D <=> Event("Finalized", b.slot, b.id) \in E \/ b \in F
    <3>1. ASSUME NEW o \in F, Event("Finalized", o.slot, o.id) = Event("Finalized", b.slot, b.id)
          PROVE  o = b
      <4>1. o \in Block /\ o.slot = b.slot /\ o.id = b.id
        BY <1>1, <3>1 DEF Event
      <4> QED
        BY <4>1, Kinds
    <3>2. Event("Finalized", b.slot, b.id) \in slow <=> b \in F
      BY Zenon, <3>1
    <3>3. Event("Finalized", b.slot, b.id) \in Finalizations({Event("Finalized", b.slot, b.id)})
      BY DEF Finalizations, Event
    <3>4. Event("Finalized", b.slot, b.id) \in D <=>
              Event("Finalized", b.slot, b.id) \in E \/ Event("Finalized", b.slot, b.id) \in slow
      BY DEF CertEvents, Event, When
    <3> QED
      BY <3>2, <3>4
  <2>3. Event("FinalizedFast", b.slot, b.id) \in D <=>
            Event("FinalizedFast", b.slot, b.id) \in E \/ (c.type = "FinalizeFast" /\ BlockOf(c) = b)
    <3>1. Event("FinalizedFast", b.slot, b.id) \in D <=>
              \/ Event("FinalizedFast", b.slot, b.id) \in E
              \/ Event("FinalizedFast", b.slot, b.id) \in fast
      BY Zenon DEF CertEvents, Event, When
    <3>2. Event("FinalizedFast", b.slot, b.id) \in fast <=> c.type = "FinalizeFast" /\ BlockOf(c) = b
      <4>1. b = [slot |-> b.slot, id |-> b.id]
        BY Kinds
      <4> QED
        BY <4>1 DEF Event, When, BlockOf
    <3> QED
      BY <3>1, <3>2
  <2>4. {Notarize(b), Finalize(b.slot)} \subseteq certs \cup {c} <=>
            {Notarize(b), Finalize(b.slot)} \subseteq certs \/ b \in F
    <3>1. Notarize(b) # Finalize(b.slot)
      BY DEF Notarize, Finalize
    <3>2. (c = Notarize(b) \/ c = Finalize(b.slot)) => b.slot = c.slot
      BY DEF Notarize, Finalize
    <3> HIDE DEF F
    <3> QED
      BY <1>1, <3>1, <3>2
  <2>5. c = Cert("FinalizeFast", Notarize(b)) <=> c.type = "FinalizeFast" /\ BlockOf(c) = b
    BY CertNamed
  <2> QED
    BY <2>1, <2>2, <2>3, <2>4, <2>5
<1>7. TopRank(D, highest_finalized(h, completed, c))
  <2>1. Ranks(D) = Ranks(E) \cup {Rank(e) : e \in fast} \cup {Rank(e) : e \in slow}
    <3> HIDE DEF D, fast, slow
    <3> QED
      BY <1>3 DEF Ranks
  <2>2. {Rank(e) : e \in fast} = When(c.type = "FinalizeFast", {Fast(c.slot)})
    <3>1. Rank(Event("FinalizedFast", c.slot, c.id)) = Fast(c.slot)
      BY DEF Rank, Event
    <3> QED
      BY <3>1 DEF When
  <2>3. {Rank(e) : e \in slow} = When(F # {}, {Slow(c.slot)})
    <3>1. \A b \in F : Rank(Event("Finalized", b.slot, b.id)) = Slow(c.slot)
      BY <1>1 DEF Rank, Event
    <3>2. {Rank(e) : e \in slow} = {Rank(Event("Finalized", b.slot, b.id)) : b \in F}
      <4> HIDE DEF F
      <4> QED
        OBVIOUS
    <3> HIDE DEF F, slow
    <3> QED
      BY <3>1, <3>2 DEF When
  <2>4. F # {} => c.type # "FinalizeFast"
    <3>1. (\A b : Notarize(b).type # "FinalizeFast") /\ (\A s : Finalize(s).type # "FinalizeFast")
      BY DEF Notarize, Finalize
    <3> HIDE DEF F
    <3> QED
      BY <1>1, <3>1
  <2>5. Fast(c.slot) \in Int /\ Slow(c.slot) \in Int
    BY <1>2 DEF Fast, Slow
  <2>6. Ranks(E) \subseteq Int
    <3>1. ASSUME NEW e \in Finalizations(E) PROVE Rank(e) \in Int
      BY <3>1 DEF FinalEvent, Event, Rank, Fast, Slow, Slot
    <3> QED
      BY <3>1 DEF Ranks
  <2>7. \A r \in Ranks(E) : r >= 0
    <3>1. ASSUME NEW e \in Finalizations(E) PROVE Rank(e) >= 0
      BY <3>1 DEF FinalEvent, Event, Rank, Fast, Slow, Slot
    <3> QED
      BY <3>1 DEF Ranks
  <2>8. Fast(c.slot) >= 0 /\ Slow(c.slot) >= 0
    BY <1>2 DEF Fast, Slow, Slot
  <2>9. ASSUME NEW x \in Int, x >= 0, Ranks(D) = Ranks(E) \cup {x}
        PROVE  TopRank(D, Larger(h, x))
    <3>1. CASE Ranks(E) = {}
      BY <2>9, <3>1 DEF TopRank, Larger, NotFinalized
    <3>2. CASE Ranks(E) # {}
      <4>1. h \in Ranks(E) /\ h \in Int /\ \A r \in Ranks(E) : r <= h
        BY <2>6, <3>2 DEF TopRank
      <4>2. Larger(h, x) \in Ranks(D) /\ Larger(h, x) >= h /\ Larger(h, x) >= x /\ Larger(h, x) \in Int
        BY <2>9, <4>1 DEF Larger
      <4>3. \A r \in Ranks(D) : r <= Larger(h, x)
        BY <2>6, <2>9, <4>1, <4>2
      <4> QED
        BY <4>2, <4>3 DEF TopRank
    <3> QED
      BY <3>1, <3>2
  <2> HIDE DEF F, fast, slow, D
  <2>10. CASE c.type = "FinalizeFast"
    <3>1. Ranks(D) = Ranks(E) \cup {Fast(c.slot)}
      BY <2>1, <2>2, <2>3, <2>4, <2>10 DEF When
    <3> QED
      BY <2>5, <2>8, <2>9, <2>10, <3>1 DEF highest_finalized
  <2>11. CASE c.type # "FinalizeFast" /\ F # {}
    <3>1. Ranks(D) = Ranks(E) \cup {Slow(c.slot)}
      BY <2>1, <2>2, <2>3, <2>11 DEF When
    <3> QED
      BY <2>5, <2>8, <2>9, <2>11, <3>1 DEF highest_finalized, F
  <2>12. CASE c.type # "FinalizeFast" /\ F = {}
    <3>1. Ranks(D) = Ranks(E)
      BY <2>1, <2>2, <2>3, <2>12 DEF When
    <3> QED
      BY <2>12, <3>1 DEF highest_finalized, F, TopRank
  <2> QED
    BY <2>10, <2>11, <2>12
<1>8. Finalizations(D) \subseteq FinalEvent
  BY Zenon, <1>3, <1>4, <1>5
<1> QED
  BY <1>6, <1>7, <1>8

\* Above the root the tracker knows what the certificates certify.
Follows(t, completed, root) ==
    /\ \A b \in Block :
           b.slot > root => (b \in t.nf <=> Stronger(NotarizeFallback(b)) \cap completed # {})
    /\ \A s \in Slot : s > root => (s \in t.skip <=> Skip(s) \in completed)

LEMMA StrongerBlock ==
    ASSUME NEW b \in Block, NEW c \in CertType
    PROVE  c \in Stronger(NotarizeFallback(b)) <=>
               /\ c.type \in {"Notarize", "NotarizeFallback", "FinalizeFast"}
               /\ BlockOf(c) = b
<1>1. NotarizeFallback(b) \in Vote
  BY Kinds
<1>2. /\ Cert("Notarize", NotarizeFallback(b)) = Notarize(b)
      /\ Cert("FinalizeFast", NotarizeFallback(b)) = Cert("FinalizeFast", Notarize(b))
  BY <1>1, CertOf, Kinds DEF Notarize, NotarizeFallback
<1>3. NotarizeFallback(b).type = "NotarizeFallback"
  BY DEF NotarizeFallback
<1>4. Stronger(NotarizeFallback(b))
          = {NotarizeFallback(b), Notarize(b), Cert("FinalizeFast", Notarize(b))}
  BY <1>2, <1>3 DEF Stronger, When
<1> QED
  BY <1>4, CertNamed

LEMMA TrackerFields ==
    ASSUME NEW t, IsTracker(t)
    PROVE  /\ \A b : LET u == add_notar_fallback_or_stronger(t, b)
                     IN  IsTracker(u) /\ u.root = t.root /\ u.nf = t.nf \cup {b} /\ u.skip = t.skip
           /\ \A s : LET u == add_new_skip(t, s)
                     IN  IsTracker(u) /\ u.root = t.root /\ u.nf = t.nf /\ u.skip = t.skip \cup {s}
<1>1. ASSUME NEW b
      PROVE  LET u == add_notar_fallback_or_stronger(t, b)
             IN  IsTracker(u) /\ u.root = t.root /\ u.nf = t.nf \cup {b} /\ u.skip = t.skip
  <2> DEFINE n == NewlyNotarized(t, b)
             h == Highest(t.highest, Slots(n))
  <2>1. add_notar_fallback_or_stronger(t, b)
            = [t EXCEPT !.nf = @ \cup {b}, !.ready = @ \cup n, !.highest = h]
    BY DEF add_notar_fallback_or_stronger
  <2> HIDE DEF n, h
  <2> QED
    BY Zenon, <2>1 DEF IsTracker
<1>2. ASSUME NEW s
      PROVE  LET u == add_new_skip(t, s)
             IN  IsTracker(u) /\ u.root = t.root /\ u.nf = t.nf /\ u.skip = t.skip \cup {s}
  <2> DEFINE n == NewlySkipped(t, s)
             h == IF PotentialParents(t, s) = {} THEN t.highest
                  ELSE Highest(t.highest, Connected(t.skip, s))
  <2>1. add_new_skip(t, s)
            = [t EXCEPT !.skip = @ \cup {s}, !.ready = @ \cup n, !.highest = h]
    BY DEF add_new_skip
  <2> HIDE DEF n, h
  <2> QED
    BY Zenon, <2>1 DEF IsTracker
<1> QED
  BY <1>1, <1>2

LEMMA TrackFollows ==
    ASSUME NEW t, IsTracker(t), NEW completed \in SUBSET CertType,
           NEW c \in CertType, t.root \in Int, Follows(t, completed, t.root)
    PROVE  /\ IsTracker(Track(t, c)) /\ Track(t, c).root = t.root
           /\ Follows(Track(t, c), completed \cup {c}, t.root)
<1> DEFINE u == Track(t, c)
           kinds == {"Notarize", "NotarizeFallback", "FinalizeFast"}
<1>1. \A b \in Block : \A d \in CertType :
          d \in Stronger(NotarizeFallback(b)) <=> d.type \in kinds /\ BlockOf(d) = b
  BY StrongerBlock
<1>2. \A s \in Slot : \A d \in CertType : d = Skip(s) <=> d.type = "Skip" /\ d.slot = s
  BY CertNamed
<1>3. c.slot \in Slot /\ c.slot \in Int /\ BlockOf(c).slot = c.slot
  BY Zenon, CertShape DEF BlockOf
<1>4. \A b \in Block : Stronger(NotarizeFallback(b)) \cap (completed \cup {c}) # {}
                         <=> \/ Stronger(NotarizeFallback(b)) \cap completed # {}
                             \/ c.type \in kinds /\ BlockOf(c) = b
  BY <1>1
<1>5. \A s \in Slot : Skip(s) \in completed \cup {c}
                        <=> Skip(s) \in completed \/ (c.type = "Skip" /\ c.slot = s)
  BY <1>2
<1>6. /\ IsTracker(u) /\ u.root = t.root
      /\ \A b \in Block : b.slot > t.root =>
             (b \in u.nf <=> b \in t.nf \/ (c.type \in kinds /\ BlockOf(c) = b))
      /\ \A s \in Slot : s > t.root =>
             (s \in u.skip <=> s \in t.skip \/ (c.type = "Skip" /\ c.slot = s))
  <2>1. CASE c.type \in kinds
    <3>1. u = NotarizedTracker(t, BlockOf(c))
      BY <2>1 DEF Track
    <3> QED
      BY <1>3, <2>1, <3>1, TrackerFields DEF NotarizedTracker
  <2>2. CASE c.type = "Skip"
    <3>1. u = SkippedTracker(t, c.slot)
      BY <2>2 DEF Track
    <3> QED
      BY <1>3, <2>2, <3>1, TrackerFields DEF SkippedTracker
  <2>3. CASE c.type \notin kinds \cup {"Skip"}
    BY <2>3 DEF Track
  <2> QED
    BY Zenon, <2>1, <2>2, <2>3
<1> HIDE DEF u
<1>7. Follows(u, completed \cup {c}, t.root)
  BY <1>4, <1>5, <1>6 DEF Follows
<1> QED
  BY <1>6, <1>7 DEF u

-----------------------------------------------------------------------------
(* The certificates of the pool are kept *)

\* What the certificates of pool p are made of, with the certificates certs.
Sound(p, certs, root) ==
    /\ IsPool(p) /\ IsTracker(p.tracker)
    /\ p.pruned = root /\ p.tracker.root = root
    /\ certs \subseteq CertType
    /\ p.completed = {c \in certs : c.slot >= root}
    /\ Finalizations(p.events) \subseteq FinalEvent
    /\ Finals(p.events, certs) /\ TopRank(p.events, p.highest)
    /\ Follows(p.tracker, p.completed, root)

LEMMA CInvSound == CInv <=> bankRoot \in Slot /\ Sound(pool, certified, bankRoot)
<1>1. TrackerFollowsCertificates <=> Follows(pool.tracker, pool.completed, pool.pruned)
  BY DEF TrackerFollowsCertificates, Follows
<1> QED
  BY <1>1, FinalizedMeans DEF CInv, Sound

LEMMA InsertSound ==
    ASSUME NEW p, NEW certs, NEW root \in Slot, Sound(p, certs, root),
           NEW c \in CertType, c.slot >= root
    PROVE  Sound(insert_certificate(p, c), certs \cup {c}, root)
<1> DEFINE q == insert_certificate(p, c)
<1>0. root \in Int
  BY DEF Slot
<1>1. /\ IsPool(q)
      /\ q.completed = p.completed \cup {c}
      /\ q.tracker = Track(p.tracker, c)
      /\ q.events = p.events \cup CertEvents(p.completed, c)
      /\ q.highest = highest_finalized(p.highest, p.completed, c)
      /\ q.pruned = p.pruned
  <2>1. IsPool(p)
    BY DEF Sound
  <2> HIDE DEF q
  <2>2. q = insert_certificate(p, c)
    BY DEF q
  <2> QED
    BY <2>1, <2>2, InsertFields
<1> HIDE DEF q
<1>2. /\ Finalizations(q.events) \subseteq FinalEvent
      /\ Finals(q.events, certs \cup {c})
      /\ TopRank(q.events, q.highest)
  <2>1. /\ certs \in SUBSET CertType
        /\ p.completed = {d \in certs : d.slot >= root}
        /\ Finalizations(p.events) \subseteq FinalEvent
        /\ Finals(p.events, certs) /\ TopRank(p.events, p.highest)
    BY DEF Sound
  <2> DEFINE C == p.completed
             E == p.events
             h == p.highest
  <2>2. LET D == E \cup CertEvents(C, c)
        IN  /\ Finalizations(D) \subseteq FinalEvent
            /\ Finals(D, certs \cup {c})
            /\ TopRank(D, highest_finalized(h, C, c))
    <3> HIDE DEF C, E, h
    <3> QED
      BY Zenon, <1>0, <2>1, NewFinal DEF C, E, h
  <2> QED
    BY Zenon, <1>1, <2>2
<1>3. /\ IsTracker(q.tracker) /\ q.tracker.root = root
      /\ Follows(q.tracker, q.completed, root)
  <2>1. /\ IsTracker(p.tracker) /\ p.completed \in SUBSET CertType /\ p.tracker.root = root
        /\ Follows(p.tracker, p.completed, p.tracker.root)
    BY DEF Sound
  <2>2. /\ IsTracker(Track(p.tracker, c)) /\ Track(p.tracker, c).root = p.tracker.root
        /\ Follows(Track(p.tracker, c), p.completed \cup {c}, p.tracker.root)
    BY Zenon, <1>0, <2>1, TrackFollows
  <2> QED
    BY <1>1, <2>1, <2>2
<1>4. q.completed = {d \in certs \cup {c} : d.slot >= root}
  BY <1>1 DEF Sound
<1> QED
  BY Zenon, <1>1, <1>2, <1>3, <1>4 DEF q, Sound

LEMMA PruneSound ==
    ASSUME NEW p, NEW certs, NEW old \in Slot, Sound(p, certs, old),
           NEW root \in Slot, root >= old
    PROVE  Sound(maybe_prune(p, root), certs, root)
<1>0. root \in Int /\ old \in Int /\ p.pruned = old
  BY DEF Slot, Sound
<1>1. CASE root <= p.pruned
  <2>1. root = old /\ maybe_prune(p, root) = p
    BY <1>0, <1>1 DEF maybe_prune
  <2> QED
    BY <2>1
<1>2. CASE ~(root <= p.pruned)
  <2> DEFINE q == maybe_prune(p, root)
             acc == [v \in Vote |-> IF v.slot >= root THEN p.acc[v] ELSE NoVotes]
             counters == [s \in Slot |-> IF s >= root THEN p.counters[s] ELSE NewCounters]
  <2>1. q = [acc |-> acc, counters |-> counters,
             completed |-> {c \in p.completed : c.slot >= root}, highest |-> p.highest,
             pending |-> {b \in p.pending : b.slot >= root}, events |-> p.events,
             tracker |-> set_tracker_root(p.tracker, root), pruned |-> root]
    BY Zenon, <1>2 DEF maybe_prune, Sound, IsPool
  <2> HIDE DEF acc, counters, q
  <2>2. /\ IsPool(q) /\ q.completed = {c \in p.completed : c.slot >= root}
        /\ q.highest = p.highest /\ q.events = p.events /\ q.pruned = root
        /\ q.tracker = set_tracker_root(p.tracker, root)
    BY <2>1 DEF IsPool
  <2>3. /\ IsTracker(q.tracker) /\ q.tracker.root = root
        /\ q.tracker.nf = {b \in p.tracker.nf : b.slot >= root}
        /\ q.tracker.skip = {s \in p.tracker.skip : s >= root}
    BY <2>2 DEF set_tracker_root, IsTracker
  <2>4. certs \subseteq CertType /\ \A c \in certs : c.slot \in Int
    BY CertShape DEF Sound
  <2>5. q.completed = {c \in certs : c.slot >= root}
    BY <1>0, <2>2, <2>4 DEF Sound
  <2>6. Follows(q.tracker, q.completed, root)
    <3>1. \A b \in Block : b.slot \in Int
      BY DEF Block, Slot
    <3>2. ASSUME NEW b \in Block, b.slot > root
          PROVE  /\ b \in q.tracker.nf <=> b \in p.tracker.nf
                 /\ Stronger(NotarizeFallback(b)) \cap q.completed
                        = Stronger(NotarizeFallback(b)) \cap p.completed
                 /\ b.slot > old
      <4>1. \A c \in p.completed : c \in Stronger(NotarizeFallback(b)) => c.slot = b.slot
        <5>1. p.completed \subseteq CertType
          BY DEF Sound
        <5> QED
          BY <5>1, StrongerBlock DEF BlockOf
      <4> QED
        BY <1>0, <2>2, <2>3, <3>1, <3>2, <4>1
    <3>3. ASSUME NEW s \in Slot, s > root
          PROVE  /\ s \in q.tracker.skip <=> s \in p.tracker.skip
                 /\ Skip(s) \in q.completed <=> Skip(s) \in p.completed
                 /\ s > old
      <4>1. s \in Int /\ Skip(s).slot = s
        BY DEF Slot, Skip
      <4> QED
        BY <1>0, <2>2, <2>3, <3>3, <4>1
    <3>4. Follows(p.tracker, p.completed, old)
      BY DEF Sound
    <3> QED
      BY <3>2, <3>3, <3>4 DEF Follows
  <2>7. Sound(q, certs, root)
    BY <2>2, <2>3, <2>4, <2>5, <2>6 DEF Sound
  <2> QED
    BY <2>7 DEF q
<1> QED
  BY <1>1, <1>2

-----------------------------------------------------------------------------
(* Counting a vote *)

\* What the counters k of slot s ask for.
Ask(s, ids, skip) ==
    When(FirstInWindow(s), {Event("SafeToNotar", s, i) : i \in ids})
    \cup When(skip, {Event("SafeToSkip", s, NoId)})

Wait(s, ids) == When(~FirstInWindow(s), {[slot |-> s, id |-> i] : i \in ids})

Sent(k, isOwn) ==
    [k EXCEPT !.safe_to_notar_sent = @ \cup SafeIds(k, isOwn),
              !.safe_to_skip_sent = @ \/ SafeSkip(k, isOwn)]

Put(f, x, y) == [f EXCEPT ![x] = y]

LEMMA CountFields ==
    ASSUME NEW p, IsPool(p), NEW v, NEW stake, NEW isOwn,
           NEW q, q = CountVote(p, v, stake, isOwn),
           NEW k, k = Counted(p.counters[v.slot], v, stake, isOwn)
    PROVE  /\ IsPool(q) /\ q.acc = p.acc /\ q.completed = p.completed
           /\ q.highest = p.highest /\ q.tracker = p.tracker /\ q.pruned = p.pruned
           /\ q.counters = Put(p.counters, v.slot, Sent(k, isOwn))
           /\ q.pending = p.pending \cup Wait(v.slot, SafeIds(k, isOwn))
           /\ q.events = p.events \cup Ask(v.slot, SafeIds(k, isOwn), SafeSkip(k, isOwn))
<1> DEFINE ids == SafeIds(k, isOwn)
           skip == SafeSkip(k, isOwn)
           sent == [k EXCEPT !.safe_to_notar_sent = @ \cup ids,
                             !.safe_to_skip_sent = @ \/ skip]
           wait == When(~FirstInWindow(v.slot), {[slot |-> v.slot, id |-> i] : i \in ids})
           notar == When(FirstInWindow(v.slot), {Event("SafeToNotar", v.slot, i) : i \in ids})
           late == When(skip, {Event("SafeToSkip", v.slot, NoId)})
<1>1. q = [p EXCEPT !.counters[v.slot] = sent, !.pending = @ \cup wait,
                    !.events = @ \cup notar \cup late]
  BY DEF CountVote
<1>2. /\ sent = Sent(k, isOwn) /\ wait = Wait(v.slot, ids)
      /\ notar \cup late = Ask(v.slot, ids, skip)
  BY DEF Sent, Wait, Ask
<1> HIDE DEF ids, skip, sent, wait, notar, late
<1>3. /\ IsPool(q) /\ q.acc = p.acc /\ q.completed = p.completed
      /\ q.highest = p.highest /\ q.tracker = p.tracker /\ q.pruned = p.pruned
      /\ q.counters = [p.counters EXCEPT ![v.slot] = sent]
      /\ q.pending = p.pending \cup wait
      /\ q.events = (p.events \cup notar) \cup late
  BY Zenon, <1>1 DEF IsPool
<1>4. (p.events \cup notar) \cup late = p.events \cup (notar \cup late)
  OBVIOUS
<1>5. [p.counters EXCEPT ![v.slot] = sent] = Put(p.counters, v.slot, sent)
  BY DEF Put
<1> QED
  BY <1>2, <1>3, <1>4, <1>5 DEF ids, skip

\* The pool with the votes a, before a certificate is inserted.
Voted(p, v, a, isOwn) ==
    LET q == [p EXCEPT !.acc[v] = a]
    IN  IF v.type \in {"Notarize", "Skip"} THEN CountVote(q, v, a.stake, isOwn) ELSE q

\* The finalizations are those of another set of events.
SameFinals(E, D) == Finalizations(E) = Finalizations(D)

LEMMA AskNoFinals ==
    ASSUME NEW E, NEW s, NEW ids, NEW skip
    PROVE  SameFinals(E \cup Ask(s, ids, skip), E)
  BY DEF SameFinals, Finalizations, Ask, Event, When

SetAcc(p, v, a) == [p EXCEPT !.acc[v] = a]

LEMMA AccFields ==
    ASSUME NEW p, IsPool(p), NEW v, NEW a, NEW q, q = SetAcc(p, v, a)
    PROVE  /\ IsPool(q) /\ q.acc = Put(p.acc, v, a) /\ q.completed = p.completed
           /\ q.highest = p.highest /\ q.tracker = p.tracker /\ q.pruned = p.pruned
           /\ q.counters = p.counters /\ q.pending = p.pending /\ q.events = p.events
  BY DEF IsPool, Put, SetAcc

LEMMA VotedFields ==
    ASSUME NEW p, IsPool(p), NEW v, NEW a, NEW isOwn,
           NEW r, r = Voted(p, v, a, isOwn)
    PROVE  /\ IsPool(r) /\ r.acc = Put(p.acc, v, a) /\ r.completed = p.completed
           /\ r.highest = p.highest /\ r.tracker = p.tracker /\ r.pruned = p.pruned
           /\ SameFinals(r.events, p.events)
<1> DEFINE q == SetAcc(p, v, a)
<1>0. q = SetAcc(p, v, a)
  OBVIOUS
<1>2. r = IF v.type \in {"Notarize", "Skip"} THEN CountVote(q, v, a.stake, isOwn) ELSE q
  BY DEF Voted, SetAcc
<1> HIDE DEF q
<1>1. /\ IsPool(q) /\ q.acc = Put(p.acc, v, a) /\ q.completed = p.completed
      /\ q.highest = p.highest /\ q.tracker = p.tracker /\ q.pruned = p.pruned
      /\ q.events = p.events
  BY <1>0, AccFields
<1>3. CASE v.type \in {"Notarize", "Skip"}
  <2>1. r = CountVote(q, v, a.stake, isOwn)
    BY <1>2, <1>3
  <2> DEFINE k == Counted(q.counters[v.slot], v, a.stake, isOwn)
  <2>0. k = Counted(q.counters[v.slot], v, a.stake, isOwn)
    OBVIOUS
  <2> HIDE DEF k
  <2>2. /\ IsPool(r) /\ r.acc = q.acc /\ r.completed = q.completed
        /\ r.highest = q.highest /\ r.tracker = q.tracker /\ r.pruned = q.pruned
        /\ r.events = q.events \cup Ask(v.slot, SafeIds(k, isOwn), SafeSkip(k, isOwn))
    BY <1>1, <2>0, <2>1, CountFields
  <2> QED
    BY <1>1, <2>2, AskNoFinals
<1>4. CASE v.type \notin {"Notarize", "Skip"}
  BY <1>1, <1>2, <1>4 DEF SameFinals
<1> QED
  BY <1>3, <1>4

\* A vote is counted, and the certificate it completes is inserted.
LEMMA VoteInserts ==
    ASSUME NEW p, NEW v \in Vote, NEW a, NEW isOwn,
           NEW r, r = Voted(p, v, a, isOwn)
    PROVE  \/ NewCerts(p, v, a) = {} /\ WithVote(p, v, a, isOwn) = r
           \/ \E c \in CertType : /\ NewCerts(p, v, a) = {c}
                                  /\ c.slot = v.slot /\ c \notin p.completed
                                  /\ WithVote(p, v, a, isOwn) = insert_certificate(r, c)
<1> DEFINE certs == NewCerts(p, v, a)
<1>1. \/ certs = {}
      \/ \E c \in CertType : certs = {c} /\ c.slot = v.slot /\ c \notin p.completed
  BY OneCert DEF NewCerts
<1>2. WithVote(p, v, a, isOwn)
          = IF certs = {} THEN r ELSE insert_certificate(r, CHOOSE c \in certs : TRUE)
  BY DEF WithVote, Voted
<1> HIDE DEF certs
<1>3. CASE certs = {}
  BY <1>2, <1>3 DEF certs
<1>4. ASSUME NEW c \in CertType, certs = {c}, c.slot = v.slot, c \notin p.completed
      PROVE  WithVote(p, v, a, isOwn) = insert_certificate(r, c)
  <2>1. (CHOOSE d \in certs : TRUE) = c
    BY <1>4
  <2> QED
    BY <1>2, <1>4, <2>1
<1> QED
  BY <1>1, <1>3, <1>4 DEF certs

LEMMA SoundSame ==
    ASSUME NEW p, NEW certs, NEW root, Sound(p, certs, root), NEW r, IsPool(r),
           r.completed = p.completed, r.highest = p.highest, r.tracker = p.tracker,
           r.pruned = p.pruned, SameFinals(r.events, p.events)
    PROVE  Sound(r, certs, root)
<1>1. \A e : e.type \in {"Finalized", "FinalizedFast"} => (e \in r.events <=> e \in p.events)
  BY DEF SameFinals, Finalizations
<1>2. \A s, i : /\ Event("Finalized", s, i) \in r.events <=> Event("Finalized", s, i) \in p.events
                /\ Event("FinalizedFast", s, i) \in r.events <=> Event("FinalizedFast", s, i) \in p.events
  BY <1>1 DEF Event
<1>3. Finals(r.events, certs)
  BY <1>2 DEF Finals, Sound
<1>4. Ranks(r.events) = Ranks(p.events)
  BY DEF Ranks, SameFinals
<1>5. TopRank(r.events, r.highest)
  BY <1>4 DEF TopRank, Sound
<1> QED
  BY <1>3, <1>5 DEF Sound, SameFinals

-----------------------------------------------------------------------------
(* Every step keeps the certificates of the pool *)

LEMMA InitCInv == Init => CInv
<1> SUFFICES ASSUME Init PROVE CInv
  OBVIOUS
<1>0. 0 \in Slot
  BY WindowAssumption DEF Slot
<1>1. PICK b \in Block : b.slot = 0 /\ pool = NewPool(b)
  BY DEF Init
<1> DEFINE t == NewTracker(b.slot, Ready(b.slot + 1, b))
<1>2. t = [root |-> 0, highest |-> t.highest, skip |-> {}, nf |-> {b}, ready |-> t.ready]
  <2>1. Ready(b.slot + 1, b).parent = b /\ Ready(b.slot + 1, b).slot = 1
    BY <1>1 DEF Ready
  <2>2. (0 + 1)..(1 - 1) = {}
    OBVIOUS
  <2> QED
    BY Zenon, <1>1, <2>1, <2>2 DEF NewTracker
<1> HIDE DEF t
<1>3. /\ IsPool(pool) /\ pool.completed = {} /\ pool.highest = NotFinalized
      /\ pool.events = {} /\ pool.tracker = t /\ pool.pruned = 0
  BY <1>1 DEF NewPool, IsPool, t
<1>4. IsTracker(t) /\ t.root = 0 /\ t.nf = {b} /\ t.skip = {}
  BY <1>2 DEF IsTracker
<1>5. Follows(pool.tracker, pool.completed, 0)
  BY <1>1, <1>3, <1>4 DEF Follows
<1>6. Finalizations(pool.events) = {} /\ Ranks(pool.events) = {}
  BY <1>3 DEF Finalizations, Ranks
<1>7. Sound(pool, certified, 0) /\ bankRoot = 0
  BY <1>3, <1>4, <1>5, <1>6 DEF Init, Sound, Finals, TopRank
<1> QED
  BY <1>0, <1>7, CInvSound

\* A message was handled.
LEMMA HandledCInv ==
    ASSUME bankRoot \in Slot, NEW p, NEW new, Sound(p, certified \cup new, bankRoot),
           Handled(p, new)
    PROVE  CInv'
<1>1. bankRoot' \in Slot /\ bankRoot' >= bankRoot
  <2>1. \A e \in FinalEvent : e.slot \in Slot
    BY DEF FinalEvent, Event
  <2>2. \A s \in Slots(Finalizations(p.events)) : s \in Slot
    BY <2>1 DEF Slots, Sound
  <2>3. bankRoot >= bankRoot
    BY DEF Slot
  <2>4. bankRoot' = bankRoot \/ (bankRoot' \in Slots(Finalizations(p.events)) /\ bankRoot' > bankRoot)
    BY DEF Handled
  <2>5. bankRoot' > bankRoot /\ bankRoot' \in Slot => bankRoot' >= bankRoot
    BY DEF Slot
  <2> QED
    BY <2>2, <2>3, <2>4, <2>5
<1>2. Sound(maybe_prune(p, bankRoot'), certified \cup new, bankRoot')
  BY <1>1, PruneSound
<1>3. Sound(pool', certified', bankRoot')
  BY <1>2 DEF Handled
<1>4. FinalizedAsDefined' <=> Finals(pool'.events, certified') /\ TopRank(pool'.events, pool'.highest)
  BY DEF FinalizedAsDefined, Finals, TopRank, Ranks, Rank
<1>5. TrackerFollowsCertificates' <=> Follows(pool'.tracker, pool'.completed, pool'.pruned)
  BY DEF TrackerFollowsCertificates, Follows
<1> QED
  BY <1>1, <1>3, <1>4, <1>5 DEF CInv, Sound

LEMMA VoteCInv ==
    ASSUME CInv, NEW v \in Vote, v.slot >= bankRoot, NEW a, NEW isOwn,
           Handled(WithVote(pool, v, a, isOwn), NewCerts(pool, v, a))
    PROVE  CInv'
<1>0. bankRoot \in Slot /\ Sound(pool, certified, bankRoot)
  BY CInvSound
<1> DEFINE r == Voted(pool, v, a, isOwn)
<1>r. r = Voted(pool, v, a, isOwn)
  OBVIOUS
<1> HIDE DEF r
<1>1. Sound(r, certified, bankRoot)
  <2>1. IsPool(pool)
    BY <1>0 DEF Sound
  <2>2. /\ IsPool(r) /\ r.completed = pool.completed
        /\ r.highest = pool.highest /\ r.tracker = pool.tracker /\ r.pruned = pool.pruned
        /\ SameFinals(r.events, pool.events)
    BY <1>r, <2>1, VotedFields
  <2> QED
    BY <1>0, <2>2, SoundSame
<1>2. \/ NewCerts(pool, v, a) = {} /\ WithVote(pool, v, a, isOwn) = r
      \/ \E c \in CertType : /\ NewCerts(pool, v, a) = {c}
                             /\ c.slot = v.slot /\ c \notin pool.completed
                             /\ WithVote(pool, v, a, isOwn) = insert_certificate(r, c)
  BY <1>r, VoteInserts
<1>3. Sound(WithVote(pool, v, a, isOwn), certified \cup NewCerts(pool, v, a), bankRoot)
  <2>1. CASE NewCerts(pool, v, a) = {} /\ WithVote(pool, v, a, isOwn) = r
    <3>1. certified \cup {} = certified
      OBVIOUS
    <3> QED
      BY <1>1, <2>1, <3>1
  <2>2. ASSUME NEW c \in CertType, NewCerts(pool, v, a) = {c}, c.slot = v.slot,
               WithVote(pool, v, a, isOwn) = insert_certificate(r, c)
        PROVE  Sound(WithVote(pool, v, a, isOwn), certified \cup NewCerts(pool, v, a), bankRoot)
    BY <1>0, <1>1, <2>2, InsertSound
  <2> QED
    BY Zenon, <1>2, <2>1, <2>2
<1> QED
  BY <1>0, <1>3, HandledCInv

\* An own vote that was counted before changes nothing.
LEMMA OwnVote ==
    ASSUME NEW v, NEW rank, NEW a, a = add_own_vote_message(pool.acc[v], rank)
    PROVE  /\ rank \in pool.acc[v].ranks =>
                  a = pool.acc[v] /\ OwnVoteMessage(pool, v, rank) = pool
           /\ rank \notin pool.acc[v].ranks =>
                  /\ a = add_aggregate(pool.acc[v], {rank})
                  /\ OwnVoteMessage(pool, v, rank) = WithVote(pool, v, a, TRUE)
<1>1. CASE rank \in pool.acc[v].ranks
  BY Zenon, <1>1 DEF add_own_vote_message, OwnVoteMessage
<1>2. CASE rank \notin pool.acc[v].ranks
  <2>1. a = add_aggregate(pool.acc[v], {rank}) /\ rank \in a.ranks
    BY Zenon, <1>2 DEF add_own_vote_message, add_aggregate
  <2>2. a # pool.acc[v]
    BY <1>2, <2>1
  <2>3. OwnVoteMessage(pool, v, rank)
            = IF a = pool.acc[v] THEN pool ELSE WithVote(pool, v, a, TRUE)
    BY DEF OwnVoteMessage
  <2> QED
    BY Zenon, <1>2, <2>1, <2>2, <2>3
<1> QED
  BY Zenon, <1>1, <1>2

LEMMA NextCInv ==
    ASSUME CInv, Next
    PROVE  CInv'
<1>0. bankRoot \in Slot /\ Sound(pool, certified, bankRoot) /\ IsPool(pool)
      /\ ArrivingVotes \subseteq Vote /\ certified \cup {} = certified
  BY CInvSound DEF ArrivingVotes, Sound
<1>1. ASSUME NEW v \in ArrivingVotes, NEW senders \in SUBSET Validators, ReceiveVotes(v, senders)
      PROVE  CInv'
  <2> DEFINE a == add_aggregate(pool.acc[v], senders)
  <2>1. v \in Vote /\ v.slot >= bankRoot
        /\ Handled(WithVote(pool, v, a, FALSE), NewCerts(pool, v, a))
    BY Zenon, <1>0, <1>1 DEF ReceiveVotes, AggregateVote
  <2> HIDE DEF a
  <2> QED
    BY Zenon, <2>1, VoteCInv
<1>2. ASSUME NEW v \in ArrivingVotes, CastVote(v)
      PROVE  CInv'
  <2> DEFINE a == add_own_vote_message(pool.acc[v], me)
  <2>1. v \in Vote /\ v.slot >= bankRoot
        /\ Handled(OwnVoteMessage(pool, v, me), When(me \notin pool.acc[v].ranks, NewCerts(pool, v, a)))
    BY Zenon, <1>0, <1>2 DEF CastVote
  <2>2. CASE me \in pool.acc[v].ranks
    <3>1. Handled(pool, {})
      BY Zenon, <2>1, <2>2, OwnVote DEF When
    <3> QED
      BY <1>0, <3>1, HandledCInv
  <2>3. CASE me \notin pool.acc[v].ranks
    <3>1. Handled(WithVote(pool, v, a, TRUE), NewCerts(pool, v, a))
      BY Zenon, <2>1, <2>3, OwnVote DEF When
    <3> HIDE DEF a
    <3> QED
      BY Zenon, <2>1, <3>1, VoteCInv
  <2> QED
    BY <2>2, <2>3
<1>3. ASSUME NEW c \in Certificates, ReceiveCertificate(c)
      PROVE  CInv'
  <2>1. c \in CertType /\ c.slot >= bankRoot /\ c \notin pool.completed
    BY <1>3, PoolAssumption DEF ReceiveCertificate
  <2>2. ~(c.slot < bankRoot)
    BY <1>0, <2>1, CertShape DEF Slot
  <2>3. Handled(insert_certificate(pool, c), {c})
    BY <1>3, <2>1, <2>2 DEF ReceiveCertificate, add_cert
  <2>4. Sound(insert_certificate(pool, c), certified \cup {c}, bankRoot)
    BY <1>0, <2>1, InsertSound
  <2> QED
    BY <1>0, <2>3, <2>4, HandledCInv
<1>4. ASSUME NEW full \in SUBSET pool.pending, ProcessPending(full)
      PROVE  CInv'
  <2> DEFINE asked == {Event("SafeToNotar", b.slot, b.id) : b \in Resolved(Taken(full))}
  <2>1. pool' = [pool EXCEPT !.pending = full, !.events = @ \cup asked]
        /\ bankRoot' = bankRoot /\ certified' = certified
    BY <1>4 DEF ProcessPending
  <2>2. SameFinals(pool.events \cup asked, pool.events)
    BY DEF SameFinals, Finalizations, Event
  <2> HIDE DEF asked
  <2>3. /\ IsPool(pool') /\ pool'.completed = pool.completed
        /\ pool'.highest = pool.highest /\ pool'.tracker = pool.tracker
        /\ pool'.pruned = pool.pruned /\ pool'.events = pool.events \cup asked
    BY Zenon, <1>0, <2>1 DEF IsPool
  <2>4. Sound(pool', certified', bankRoot')
    BY Zenon, <1>0, <2>1, <2>2, <2>3, SoundSame
  <2>5. FinalizedAsDefined' <=> Finals(pool'.events, certified') /\ TopRank(pool'.events, pool'.highest)
    BY Zenon DEF FinalizedAsDefined, Finals, TopRank, Ranks, Rank
  <2>6. TrackerFollowsCertificates' <=> Follows(pool'.tracker, pool'.completed, pool'.pruned)
    BY Zenon DEF TrackerFollowsCertificates, Follows
  <2> QED
    BY Zenon, <1>0, <2>1, <2>4, <2>5, <2>6 DEF CInv, Sound
<1>5. ASSUME UNCHANGED <<pool, bankRoot, certified>> PROVE CInv'
  BY Zenon, <1>5 DEF CInv, FinalizedAsDefined, TrackerFollowsCertificates
<1>6. ASSUME NEW b \in DOMAIN Parent, ReceiveBlock(b) PROVE CInv'
  BY <1>5, <1>6 DEF ReceiveBlock
<1>7. CASE SwitchIdentity
  BY <1>5, <1>7 DEF SwitchIdentity
<1> QED
  BY Zenon, <1>1, <1>2, <1>3, <1>4, <1>6, <1>7 DEF Next

LEMMA AlwaysCInv == Spec => []CInv
<1>1. CInv /\ [Next]_vars => CInv'
  <2> SUFFICES ASSUME CInv, [Next]_vars PROVE CInv'
    OBVIOUS
  <2>1. CASE Next
    BY <2>1, NextCInv
  <2>2. CASE UNCHANGED vars
    BY Zenon, <2>2 DEF vars, CInv, FinalizedAsDefined, TrackerFollowsCertificates
  <2> QED
    BY <2>1, <2>2
<1> QED
  BY InitCInv, <1>1, PTL DEF Spec

(***************************************************************************)
(* insert_certificate raises Finalized for a block exactly when both of    *)
(* its certificates were inserted, in whatever order they came and         *)
(* whatever was pruned in between, and FinalizedFast for a fast one; the   *)
(* highest finalization is the highest one ever reached.                   *)
(***************************************************************************)
THEOREM FinalizationsAreExact == Spec => []FinalizedAsDefined
<1>1. CInv => FinalizedAsDefined
  BY DEF CInv
<1> QED
  BY AlwaysCInv, <1>1, PTL

(***************************************************************************)
(* Above the root the parent-ready tracker knows the blocks and the slots  *)
(* that the completed certificates of the pool certify, and no others.     *)
(***************************************************************************)
THEOREM TrackerAgreesWithPool == Spec => []TrackerFollowsCertificates
<1>1. CInv => TrackerFollowsCertificates
  BY DEF CInv
<1> QED
  BY AlwaysCInv, <1>1, PTL

=============================================================================
