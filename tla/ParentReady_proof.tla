------------------------- MODULE ParentReady_proof -------------------------
(***************************************************************************)
(* Proofs about ParentReady and the tracker, for any number of slots and   *)
(* block ids and any length of a leader window.                            *)
(***************************************************************************)
EXTENDS ParentReady, WellFoundedInduction, TLAPS

\* The definition of parent ready over notarized blocks N and skipped slots K.
ReadyBy(s, b, N, K) ==
    /\ b \in N
    /\ b.slot < s
    /\ \A u \in (b.slot + 1)..(s - 1) : u \in K

\* From its root on, tracker t holds N, K and what they make ready.
Agrees(t, N, K) ==
    /\ \A b \in Block : b.slot >= t.root => (b \in t.nf <=> b \in N)
    /\ \A s \in Slot : s >= t.root => (s \in t.skip <=> s \in K)
    /\ \A r \in t.ready : r.slot >= t.root
    /\ \A s \in Slot, b \in Block :
           s >= t.root => (Ready(s, b) \in t.ready <=> ReadyBy(s, b, N, K))

-----------------------------------------------------------------------------
(* The operators of the tracker *)

\* A nonempty set of slots has a highest one.
LEMMA HighestSlot ==
    ASSUME NEW S, S \subseteq Slot, S # {}
    PROVE  \E s \in S : \A u \in S : u <= s
<1> DEFINE T == {MaxSlot - s : s \in S}
           R == OpToRel(<, Nat)
<1>0. \A s \in S : MaxSlot - s \in Nat
  BY WindowAssumption DEF Slot
<1>1. T \subseteq Nat /\ T # {}
  BY <1>0
<1>2. \E x \in T : \A y \in T : ~(<<y, x>> \in R)
  <2> HIDE DEF T, R
  <2>1. IsWellFoundedOn(R, Nat)
    BY Zenon, NatLessThanWellFounded DEF R
  <2> QED
    BY Zenon, <1>1, <2>1, WFMin
<1>3. \A x, y \in T : ~(<<y, x>> \in R) => x <= y
  BY <1>1 DEF OpToRel
<1>4. PICK x \in T : \A y \in T : x <= y
  BY Zenon, <1>2, <1>3
<1>5. PICK s \in S : x = MaxSlot - s
  BY <1>4
<1>6. \A u \in S : MaxSlot - s <= MaxSlot - u
  BY <1>4, <1>5
<1> QED
  BY <1>5, <1>6, WindowAssumption DEF Slot

LEMMA HighestType ==
    ASSUME NEW old \in Slot, NEW S, S \subseteq Slot
    PROVE  Highest(old, S) \in Slot
<1>1. CASE S = {}
  BY <1>1 DEF Highest
<1>2. CASE S # {}
  <2>1. (CHOOSE s \in S : \A u \in S : u <= s) \in S
    BY <1>2, HighestSlot
  <2> QED
    BY <1>2, <2>1 DEF Highest, Larger
<1> QED
  BY <1>1, <1>2

LEMMA ReadyRecord ==
    /\ \A s, b : Ready(s, b).slot = s /\ Ready(s, b).parent = b
    /\ \A s \in Slot, b \in Block : Ready(s, b) \in ParentReady
    /\ \A r \in ParentReady :
           r.slot \in Slot /\ r.parent \in Block /\ r = Ready(r.slot, r.parent)
    /\ \A s, u, b, c : Ready(s, b) = Ready(u, c) <=> (s = u /\ b = c)
  BY DEF Ready, ParentReady

LEMMA SlotsType ==
    ASSUME NEW R, R \subseteq ParentReady
    PROVE  Slots(R) \subseteq Slot
  BY DEF Slots, ParentReady

\* The two ways in which a block becomes the parent of a later slot.
LEMMA AddNotarized ==
    ASSUME NEW t \in Tracker, NEW N, NEW K, Agrees(t, N, K),
           NEW b \in Block, b.slot >= t.root
    PROVE  LET n == NewlyNotarized(t, b)
               a == add_notar_fallback_or_stronger(t, b)
           IN  /\ a \in Tracker
               /\ a.root = t.root
               /\ a.ready = t.ready \cup n
               /\ n \subseteq ParentReady
               /\ \A r \in n : r.slot > t.root /\ r \notin t.ready
               /\ Agrees(a, N \cup {b}, K)
<1> DEFINE n == NewlyNotarized(t, b)
           a == add_notar_fallback_or_stronger(t, b)
<1>0. b.slot \in Slot /\ t.root \in Slot /\ Slot \subseteq Int
  BY DEF Block, Tracker, Slot
<1>1. n \subseteq ParentReady /\ \A r \in n : r.slot > t.root /\ r \notin t.ready
  BY <1>0, ReadyRecord DEF NewlyNotarized, Connected
<1>2. a = [t EXCEPT !.nf = @ \cup {b}, !.ready = @ \cup n,
                    !.highest = Highest(@, Slots(n))]
  BY DEF add_notar_fallback_or_stronger
<1> HIDE DEF n, a
<1>3. Highest(t.highest, Slots(n)) \in Slot
  BY <1>1, HighestType, SlotsType DEF Tracker
<1>4. /\ a \in Tracker /\ a.root = t.root /\ a.ready = t.ready \cup n
      /\ a.nf = t.nf \cup {b} /\ a.skip = t.skip
  BY Zenon, <1>1, <1>2, <1>3 DEF Tracker
<1>5. \A s \in Slot, c \in Block : s >= t.root =>
          (Ready(s, c) \in a.ready <=> ReadyBy(s, c, N \cup {b}, K))
  <2> SUFFICES ASSUME NEW s \in Slot, NEW c \in Block, s >= t.root
               PROVE  Ready(s, c) \in a.ready <=> ReadyBy(s, c, N \cup {b}, K)
    OBVIOUS
  <2>1. CASE c # b
    BY <1>4, <2>1, ReadyRecord DEF n, NewlyNotarized, ReadyBy, Agrees
  <2>2. CASE c = b
    <3>1. Connected(t.skip, b.slot)
            = {u \in Slot : u > b.slot /\ \A v \in (b.slot + 1)..(u - 1) : v \in K}
      <4>1. ASSUME NEW u \in Slot, NEW v \in (b.slot + 1)..(u - 1)
            PROVE  v \in Slot /\ v >= t.root
        BY <1>0, <4>1, WindowAssumption DEF Slot
      <4> QED
        BY <4>1 DEF Connected, Agrees
    <3>2. ReadyBy(s, b, N \cup {b}, K) <=> s \in Connected(t.skip, b.slot)
      BY <1>0, <3>1 DEF ReadyBy
    <3>3. Ready(s, b) \in t.ready => s \in Connected(t.skip, b.slot)
      BY <1>0, <3>1 DEF Agrees, ReadyBy
    <3>4. CASE b \in t.nf
      <4>1. b \in N
        BY <3>4 DEF Agrees
      <4> QED
        BY <1>4, <2>2, <3>4, <4>1 DEF n, NewlyNotarized, Agrees, ReadyBy
    <3>5. CASE b \notin t.nf
      BY <1>4, <2>2, <3>2, <3>3, <3>5, ReadyRecord DEF n, NewlyNotarized
    <3> QED
      BY <3>4, <3>5
  <2> QED
    BY <2>1, <2>2
<1>6. Agrees(a, N \cup {b}, K)
  <2>1. \A c \in Block : c.slot >= a.root => (c \in a.nf <=> c \in N \cup {b})
    BY <1>4 DEF Agrees
  <2>2. \A s \in Slot : s >= a.root => (s \in a.skip <=> s \in K)
    BY <1>4 DEF Agrees
  <2>3. \A r \in a.ready : r.slot >= a.root
    <3>1. \A r \in n : r.slot \in Int /\ t.root \in Int
      BY Zenon, <1>0, <1>1, ReadyRecord
    <3> QED
      BY <1>1, <1>4, <3>1 DEF Agrees
  <2> QED
    BY Zenon, <1>4, <1>5, <2>1, <2>2, <2>3 DEF Agrees
<1> QED
  BY <1>1, <1>4, <1>6 DEF n, a

\* A skip of slot s carries the parents of s over to the slots after it.
LEMMA AddSkip ==
    ASSUME NEW t \in Tracker, NEW N, N \subseteq Block, NEW K, Agrees(t, N, K),
           NEW s \in Slot, s > t.root
    PROVE  LET n == NewlySkipped(t, s)
               a == add_new_skip(t, s)
           IN  /\ a \in Tracker
               /\ a.root = t.root
               /\ a.ready = t.ready \cup n
               /\ n \subseteq ParentReady
               /\ \A r \in n : r.slot > t.root /\ r \notin t.ready
               /\ Agrees(a, N, K \cup {s})
<1> DEFINE n == NewlySkipped(t, s)
           a == add_new_skip(t, s)
           P == PotentialParents(t, s)
           C == Connected(t.skip, s)
<1>0. s \in Int /\ t.root \in Int /\ t.root \in Slot /\ Slot \subseteq Int /\ s - 1 \in Slot /\ s - 1 >= t.root
  BY WindowAssumption DEF Tracker, Slot
<1>1. P = {b \in Block : ReadyBy(s, b, N, K)}
  <2>1. \A b \in Block : b.slot = s - 1 => (b \in t.nf <=> b \in N)
    BY <1>0 DEF Agrees
  <2>2. s - 1 \in t.skip <=> s - 1 \in K
    BY <1>0 DEF Agrees
  <2>3. \A b \in Block : Ready(s - 1, b) \in t.ready <=> ReadyBy(s - 1, b, N, K)
    BY <1>0 DEF Agrees
  <2>4. P = {b \in Block : \/ b \in t.nf /\ b.slot = s - 1
                           \/ s - 1 \in t.skip /\ Ready(s - 1, b) \in t.ready}
    <3>1. t.nf \subseteq Block /\ t.ready \subseteq ParentReady
      BY DEF Tracker
    <3>2. {r.parent : r \in {r \in t.ready : r.slot = s - 1}}
            = {b \in Block : Ready(s - 1, b) \in t.ready}
      BY <3>1, ReadyRecord
    <3> QED
      BY <3>1, <3>2 DEF PotentialParents, When
  <2>5. \A b \in Block : ReadyBy(s, b, N, K) <=>
            \/ b \in N /\ b.slot = s - 1
            \/ s - 1 \in K /\ ReadyBy(s - 1, b, N, K)
    <3> SUFFICES ASSUME NEW b \in Block
                 PROVE  ReadyBy(s, b, N, K) <=>
                            \/ b \in N /\ b.slot = s - 1
                            \/ s - 1 \in K /\ ReadyBy(s - 1, b, N, K)
      OBVIOUS
    <3>1. b.slot \in Int
      BY Zenon, <1>0 DEF Block
    <3>2. b.slot < s - 1 =>
              (b.slot + 1)..(s - 1) = (b.slot + 1)..((s - 1) - 1) \cup {s - 1}
      BY <1>0, <3>1
    <3>3. b.slot = s - 1 => (b.slot + 1)..(s - 1) = {}
      BY <1>0, <3>1
    <3> QED
      BY <1>0, <3>1, <3>2, <3>3 DEF ReadyBy
  <2> QED
    BY <2>1, <2>2, <2>3, <2>4, <2>5
<1>2. C = {u \in Slot : u > s /\ \A v \in (s + 1)..(u - 1) : v \in K}
  <2>1. ASSUME NEW u \in Slot, NEW v \in (s + 1)..(u - 1)
        PROVE  v \in Slot /\ v >= t.root
    BY <1>0, <2>1, WindowAssumption DEF Slot
  <2> QED
    BY <2>1 DEF Connected, Agrees
<1>3. n = {Ready(u, b) : u \in C, b \in P} \ t.ready
  BY DEF NewlySkipped
<1>4. a = [t EXCEPT !.skip = @ \cup {s}, !.ready = @ \cup n,
                    !.highest = IF P = {} THEN @ ELSE Highest(@, C)]
  BY DEF add_new_skip
<1> HIDE DEF n, a, P, C
<1>5. n \subseteq ParentReady /\ \A r \in n : r.slot > t.root /\ r \notin t.ready
  BY <1>0, <1>1, <1>2, <1>3, ReadyRecord
<1>6. Highest(t.highest, C) \in Slot
  BY <1>2, HighestType DEF Tracker
<1>7. /\ a \in Tracker /\ a.root = t.root /\ a.ready = t.ready \cup n
      /\ a.nf = t.nf /\ a.skip = t.skip \cup {s}
  BY Zenon, <1>4, <1>5, <1>6 DEF Tracker
<1>8. \A u \in Slot, b \in Block : ReadyBy(u, b, N, K \cup {s}) <=>
          ReadyBy(u, b, N, K) \/ (u \in C /\ b \in P)
  <2> SUFFICES ASSUME NEW u \in Slot, NEW b \in Block
               PROVE  ReadyBy(u, b, N, K \cup {s}) <=>
                          ReadyBy(u, b, N, K) \/ (u \in C /\ b \in P)
    OBVIOUS
  <2>1. b.slot \in Int /\ u \in Int
    BY Zenon, <1>0 DEF Block
  <2>2. CASE s \in (b.slot + 1)..(u - 1)
    <3>1. (b.slot + 1)..(u - 1) = (b.slot + 1)..(s - 1) \cup {s} \cup (s + 1)..(u - 1)
      BY <1>0, <2>1, <2>2
    <3>2. b.slot < s /\ s < u /\ b.slot < u
      BY <1>0, <2>1, <2>2
    <3>3. ReadyBy(u, b, N, K \cup {s}) <=> (u \in C /\ b \in P)
      <4>1. s \notin (b.slot + 1)..(s - 1) /\ s \notin (s + 1)..(u - 1)
        BY <1>0
      <4> QED
        BY <1>1, <1>2, <3>1, <3>2, <4>1 DEF ReadyBy
    <3>4. ReadyBy(u, b, N, K) => ReadyBy(u, b, N, K \cup {s})
      BY DEF ReadyBy
    <3> QED
      BY <3>3, <3>4
  <2>3. CASE s \notin (b.slot + 1)..(u - 1)
    <3>1. ReadyBy(u, b, N, K \cup {s}) <=> ReadyBy(u, b, N, K)
      BY <2>3 DEF ReadyBy
    <3>2. ~(u \in C /\ b \in P)
      BY <1>0, <1>1, <1>2, <2>1, <2>3 DEF ReadyBy
    <3> QED
      BY <3>1, <3>2
  <2> QED
    BY <2>2, <2>3
<1>9. \A u \in Slot, b \in Block : u >= t.root =>
          (Ready(u, b) \in a.ready <=> ReadyBy(u, b, N, K \cup {s}))
  <2>1. \A u \in Slot, b \in Block :
            Ready(u, b) \in a.ready <=> Ready(u, b) \in t.ready \/ (u \in C /\ b \in P)
    BY <1>3, <1>7, ReadyRecord
  <2> QED
    BY Zenon, <1>8, <2>1 DEF Agrees
<1>10. Agrees(a, N, K \cup {s})
  <2>1. \A u \in Slot : u >= a.root => (u \in a.skip <=> u \in K \cup {s})
    BY <1>7 DEF Agrees
  <2>2. \A r \in a.ready : r.slot >= a.root
    <3>1. \A r \in n : r.slot \in Int
      BY Zenon, <1>0, <1>5, ReadyRecord
    <3> QED
      BY <1>0, <1>5, <1>7, <3>1 DEF Agrees
  <2> QED
    BY Zenon, <1>7, <1>9, <2>1, <2>2 DEF Agrees
<1> QED
  BY <1>5, <1>7, <1>10 DEF n, a

\* Pruning keeps what the later slots need.
LEMMA Prune ==
    ASSUME NEW t \in Tracker, NEW N, NEW K, Agrees(t, N, K),
           NEW root \in Slot, root >= t.root
    PROVE  LET p == set_tracker_root(t, root)
           IN  /\ p \in Tracker
               /\ p.root = root
               /\ p.nf \subseteq t.nf
               /\ p.ready = {r \in t.ready : r.slot >= root}
               /\ Agrees(p, N, K)
<1> DEFINE p == set_tracker_root(t, root)
<1>1. /\ p \in Tracker /\ p.root = root
      /\ p.nf = {b \in t.nf : b.slot >= root}
      /\ p.skip = {s \in t.skip : s >= root}
      /\ p.ready = {r \in t.ready : r.slot >= root}
  BY DEF set_tracker_root, Tracker
<1> HIDE DEF p
<1>2. /\ \A s \in Slot : s >= root => s >= t.root
      /\ \A b \in Block : b.slot >= root => b.slot >= t.root
  BY WindowAssumption DEF Tracker, Slot, Block
<1>3. \A s \in Slot, b \in Block : s >= root =>
          (Ready(s, b) \in p.ready <=> ReadyBy(s, b, N, K))
  BY <1>1, <1>2, ReadyRecord DEF Agrees
<1>4. Agrees(p, N, K)
  BY <1>1, <1>2, <1>3 DEF Agrees
<1> QED
  BY <1>1, <1>4 DEF p

\* A tracker starts in agreement with the parent it is given.
LEMMA StartAgrees ==
    ASSUME NEW root \in Slot, NEW r \in ParentReady,
           root <= r.parent.slot, r.parent.slot < r.slot
    PROVE  LET t == NewTracker(root, r)
           IN  /\ t \in Tracker
               /\ t.root = root
               /\ t.nf = {r.parent}
               /\ Agrees(t, {r.parent}, (r.parent.slot + 1)..(r.slot - 1))
<1> DEFINE t == NewTracker(root, r)
           K == (r.parent.slot + 1)..(r.slot - 1)
<1>1. /\ r.slot \in Slot /\ r.parent \in Block /\ r.parent.slot \in Slot
      /\ MaxSlot \in Nat /\ Slot \subseteq Int
  BY WindowAssumption DEF ParentReady, Block, Slot
<1>2. K \subseteq Slot /\ (r.parent.slot + 1)..r.slot \subseteq Slot
  BY <1>1 DEF Slot
<1>3. ~(r.parent.slot < root)
  BY <1>1
<1>4. t = [root |-> root, highest |-> Larger(r.slot, root), skip |-> K,
           nf |-> {r.parent},
           ready |-> {Ready(s, r.parent) : s \in (r.parent.slot + 1)..r.slot}]
  BY <1>3 DEF NewTracker
<1>5. t.ready \subseteq ParentReady
  BY <1>1, <1>2, <1>4, ReadyRecord
<1> HIDE DEF t, K
<1>6. t \in Tracker
  BY <1>1, <1>2, <1>4, <1>5 DEF Tracker, Larger
<1>7. \A u \in (r.parent.slot + 1)..r.slot : u >= root
  BY <1>1
<1>8. \A s \in Slot, b \in Block : Ready(s, b) \in t.ready <=> ReadyBy(s, b, {r.parent}, K)
  <2> SUFFICES ASSUME NEW s \in Slot, NEW b \in Block
               PROVE  Ready(s, b) \in t.ready <=> ReadyBy(s, b, {r.parent}, K)
    OBVIOUS
  <2>1. Ready(s, b) \in t.ready <=> b = r.parent /\ s \in (r.parent.slot + 1)..r.slot
    BY <1>4, ReadyRecord
  <2>2. ASSUME NEW p \in Int, NEW q \in Int, NEW u \in Int, p < q
        PROVE  /\ p < u /\ u <= q <=> u \in (p + 1)..q
               /\ u <= q => (p + 1)..(u - 1) \subseteq (p + 1)..(q - 1)
               /\ u > q => q \in (p + 1)..(u - 1) /\ q \notin (p + 1)..(q - 1)
    BY <2>2
  <2>3. s \in Int /\ r.slot \in Int /\ r.parent.slot \in Int /\ r.parent.slot < r.slot
    BY Zenon, <1>1
  <2>4. /\ r.parent.slot < s /\ s <= r.slot <=> s \in (r.parent.slot + 1)..r.slot
        /\ s <= r.slot => (r.parent.slot + 1)..(s - 1) \subseteq K
        /\ s > r.slot => r.slot \in (r.parent.slot + 1)..(s - 1) /\ r.slot \notin K
    BY <2>2, <2>3 DEF K
  <2>5. s <= r.slot \/ s > r.slot
    BY <2>3
  <2> QED
    BY <2>1, <2>4, <2>5 DEF ReadyBy
<1>9. Agrees(t, {r.parent}, K)
  <2>1. \A b \in Block : b \in t.nf <=> b \in {r.parent}
    BY <1>4
  <2>2. \A s \in Slot : s \in t.skip <=> s \in K
    BY <1>4
  <2>3. \A q \in t.ready : q.slot >= t.root
    BY <1>4, <1>7, ReadyRecord
  <2> QED
    BY Zenon, <1>8, <2>1, <2>2, <2>3 DEF Agrees
<1> QED
  BY <1>4, <1>6, <1>9 DEF t, K

-----------------------------------------------------------------------------
(* The inductive invariant *)

\* The voting loop knows the ready parents of the first slots of windows.
NotifiedReady ==
    \A s \in Slot, b \in Block :
        s >= tracker.root /\ s % WindowSize = 0 =>
            (Ready(s, b) \in notified <=> Ready(s, b) \in tracker.ready)

\* The slot after a certified one is within the bound on the slots.
Bounded ==
    /\ genesis.slot < MaxSlot
    /\ bankRoot < MaxSlot
    /\ \A b \in tracker.nf : b.slot < MaxSlot

IInv ==
    /\ ReadyTypeOK
    /\ tracker.root = bankRoot
    /\ Bounded
    /\ Agrees(tracker, notarized, skips)
    /\ NotifiedReady
    /\ WindowsOnReadyParents

LEMMA InitTrackerIInv ==
    ASSUME NEW root \in Slot, NEW r \in ParentReady, InitTracker(root, r),
           events \subseteq ParentReady, genesis \in Block, genesis.slot < MaxSlot,
           phase \in {"Migration", "AlpenglowEnabled"}, kickedOff \in BOOLEAN
    PROVE  IInv
<1>1. /\ tracker \in Tracker /\ tracker.root = root /\ tracker.nf = {r.parent}
      /\ Agrees(tracker, notarized, skips)
  BY Zenon, StartAgrees DEF InitTracker
<1>2. /\ r.slot \in Slot /\ r.parent \in Block /\ r.parent.slot \in Slot
      /\ MaxSlot \in Nat /\ Slot \subseteq Int
  BY WindowAssumption DEF ParentReady, Block, Slot
<1>3. notarized \subseteq Block /\ skips \subseteq Slot
  <2>1. (r.parent.slot + 1)..(r.slot - 1) \subseteq Slot
    BY <1>2 DEF Slot
  <2> QED
    BY <1>2, <2>1 DEF InitTracker
<1>4. ReadyTypeOK
  BY Zenon, <1>1, <1>3 DEF InitTracker, ReadyTypeOK, Tracker
<1>5. Bounded
  BY <1>1, <1>2 DEF InitTracker, Bounded, Slot
<1> QED
  BY <1>1, <1>4, <1>5 DEF IInv, InitTracker, NotifiedReady, WindowsOnReadyParents

LEMMA InitIInv == Init => IInv
<1> SUFFICES ASSUME Init PROVE IInv
  OBVIOUS
<1>1. CASE InitEnabled
  <2>1. PICK root \in Slot, r \in ParentReady :
            /\ InitTracker(root, r)
            /\ events = {r}
            /\ genesis \in {g \in Block : g.slot = root
                                         /\ (r.parent.slot = root => g = r.parent)}
            /\ phase = "AlpenglowEnabled"
            /\ kickedOff = TRUE
    BY <1>1 DEF InitEnabled
  <2>2. genesis.slot < MaxSlot
    BY <2>1, WindowAssumption DEF InitTracker, ParentReady, Block, Slot
  <2> QED
    BY <2>1, <2>2, InitTrackerIInv
<1>2. CASE InitMigration
  <2>1. PICK b \in Block :
            /\ InitTracker(b.slot, Ready(b.slot + 1, b))
            /\ events = {}
            /\ genesis \in {g \in Block : g.slot \in b.slot..(MaxSlot - 1)
                                         /\ (g.slot = b.slot => g = b)}
            /\ phase = "Migration"
            /\ kickedOff = FALSE
    BY <1>2 DEF InitMigration
  <2>2. b.slot \in Slot /\ b.slot + 1 \in Slot /\ genesis.slot < MaxSlot
    BY <2>1, WindowAssumption DEF Block, Slot
  <2>3. Ready(b.slot + 1, b) \in ParentReady
    BY <2>2, ReadyRecord
  <2> QED
    BY Zenon, <2>1, <2>2, <2>3, InitTrackerIInv
<1> QED
  BY <1>1, <1>2 DEF Init

\* Where the root may move to.
LEMMA RootsType ==
    ASSUME IInv, NEW root \in Roots
    PROVE  root \in Slot /\ root >= bankRoot /\ root < MaxSlot
<1>1. /\ bankRoot \in Slot /\ bankRoot < MaxSlot /\ genesis.slot \in Slot
      /\ genesis.slot < MaxSlot /\ tracker.nf \subseteq Block
  BY DEF IInv, ReadyTypeOK, Bounded, Block, Tracker
<1>2. CASE root = bankRoot
  BY <1>1, <1>2 DEF Slot
<1>3. CASE root \in bankRoot..genesis.slot
  BY <1>1, <1>3, WindowAssumption DEF Slot
<1>4. CASE \E b \in tracker.nf : root = b.slot /\ root > bankRoot
  <2>1. PICK b \in tracker.nf : root = b.slot /\ root > bankRoot
    BY <1>4
  <2>2. b.slot \in Slot /\ b.slot < MaxSlot
    BY <1>1 DEF Block, IInv, Bounded
  <2> QED
    BY <1>1, <2>1, <2>2 DEF Slot
<1> QED
  BY <1>2, <1>3, <1>4 DEF Roots, Slots

\* Handling a certificate: t is the tracker before it is pruned.
LEMMA AcceptIInv ==
    ASSUME IInv, NEW t \in Tracker, NEW new, new \subseteq ParentReady,
           t.root = tracker.root, t.ready = tracker.ready \cup new,
           \A r \in new : r.slot > t.root /\ r \notin tracker.ready,
           Agrees(t, notarized', skips'),
           \A b \in t.nf : b.slot < MaxSlot,
           notarized \subseteq notarized', notarized' \subseteq Block,
           skips \subseteq skips', skips' \subseteq Slot,
           phase' \in {"Migration", "ReadyToEnable", "AlpenglowEnabled"},
           Accept(t, new)
    PROVE  IInv' /\ (events' \ events) \cap notified = {}
<1>1. bankRoot' \in Slot /\ bankRoot' >= bankRoot /\ bankRoot' < MaxSlot
  BY RootsType DEF Accept
<1>2. bankRoot \in Int /\ bankRoot' \in Int /\ tracker.root = bankRoot /\ Slot \subseteq Int
  BY <1>1 DEF IInv, ReadyTypeOK, Slot
<1>3. /\ tracker' \in Tracker /\ tracker'.root = bankRoot'
      /\ tracker'.nf \subseteq t.nf
      /\ \A r \in ParentReady :
             r \in tracker'.ready <=> r \in t.ready /\ r.slot >= bankRoot'
      /\ Agrees(tracker', notarized', skips')
  <2>1. CASE bankRoot' > t.root
    <3>1. tracker' = set_tracker_root(t, bankRoot') /\ bankRoot' >= t.root
      BY <1>2, <2>1 DEF Accept, maybe_prune
    <3> QED
      BY <1>1, <3>1, Prune
  <2>2. CASE ~(bankRoot' > t.root)
    <3>1. tracker' = t /\ bankRoot' = t.root
      BY <1>1, <1>2, <2>2 DEF Accept, maybe_prune
    <3> QED
      BY <3>1 DEF Agrees
  <2> QED
    BY <2>1, <2>2
<1>4. /\ events' = events \cup Notify(new) /\ notified' = notified \cup Notify(new)
      /\ UNCHANGED <<produced, windows, genesis, kickedOff, missed, found>>
      /\ Notify(new) \subseteq new
  BY DEF Accept, Notify
<1>5. ReadyTypeOK'
  BY <1>1, <1>3, <1>4 DEF IInv, ReadyTypeOK
<1>6. Bounded'
  BY Zenon, <1>1, <1>3, <1>4 DEF IInv, Bounded
<1>7. NotifiedReady'
  <2> SUFFICES ASSUME NEW s \in Slot, NEW b \in Block, s >= bankRoot', s % WindowSize = 0
               PROVE  Ready(s, b) \in notified' <=> Ready(s, b) \in tracker'.ready
    BY Zenon, <1>3 DEF NotifiedReady
  <2>1. s >= tracker.root
    BY <1>1, <1>2
  <2>2. Ready(s, b) \in notified <=> Ready(s, b) \in tracker.ready
    BY <2>1 DEF IInv, NotifiedReady
  <2>3. Ready(s, b) \in Notify(new) <=> Ready(s, b) \in new
    BY ReadyRecord DEF Notify
  <2>4. Ready(s, b) \in tracker'.ready <=> Ready(s, b) \in t.ready
    BY <1>3, ReadyRecord
  <2> QED
    BY <1>4, <2>2, <2>3, <2>4
<1>8. WindowsOnReadyParents'
  BY <1>4 DEF IInv, WindowsOnReadyParents, IsParentReady
<1>9. Notify(new) \cap notified = {}
  <2> SUFFICES ASSUME NEW r \in Notify(new) PROVE r \notin notified
    OBVIOUS
  <2>1. /\ r \in new /\ r \in ParentReady /\ r.slot % WindowSize = 0
        /\ r.slot \in Slot /\ r.parent \in Block /\ r = Ready(r.slot, r.parent)
    BY ReadyRecord DEF Notify
  <2>2. r.slot > tracker.root /\ r \notin tracker.ready
    BY <2>1
  <2>3. r.slot >= tracker.root
    <3>1. r.slot \in Int /\ tracker.root \in Int
      BY Zenon, <1>2, <2>1
    <3> QED
      BY <2>2, <3>1
  <2> QED
    BY <2>1, <2>2, <2>3 DEF IInv, NotifiedReady
<1> QED
  BY <1>3, <1>4, <1>5, <1>6, <1>7, <1>8, <1>9 DEF IInv

\* The loop produces on a parent the tracker holds.
LEMMA MainLoopIInv ==
    ASSUME IInv, MainLoop
    PROVE  IInv' /\ (events' \ events) \cap notified = {}
<1> DEFINE h == HighestPending
<1>1. /\ tracker \in Tracker /\ bankRoot \in Slot /\ events \subseteq ParentReady
      /\ produced \in Slot /\ genesis.slot \in Slot /\ bankRoot < MaxSlot
      /\ genesis.slot < MaxSlot /\ MaxSlot \in Nat
  BY WindowAssumption DEF IInv, ReadyTypeOK, Bounded, Block
<1>2. h \in Slot
  <2>1. Larger(genesis.slot, bankRoot) + 1 \in Slot
    BY <1>1 DEF Larger, Slot
  <2>2. Pending \subseteq Slot /\ Pending # {}
    BY <1>1, <2>1, SlotsType DEF Pending, When, MainLoop
  <2> QED
    BY <2>2, HighestSlot DEF HighestPending
<1>3. /\ events' = {} /\ produced' = Larger(h, produced)
      /\ found' \in BOOLEAN /\ kickedOff' \in BOOLEAN
      /\ UNCHANGED <<tracker, bankRoot, genesis, phase, notarized, skips, notified, missed>>
  BY DEF MainLoop
<1>4. \/ UNCHANGED windows
      \/ \E b \in ProductionParents(tracker, h) : windows' = windows \cup {Ready(h, b)}
  BY DEF MainLoop, LowestParents
<1> HIDE DEF h
<1>5. \A b \in ProductionParents(tracker, h) :
          b \in Block /\ Ready(h, b) \in tracker.ready /\ h >= tracker.root
  <2>1. tracker.ready \subseteq ParentReady
    BY <1>1 DEF Tracker
  <2> QED
    BY <2>1, ReadyRecord DEF ProductionParents, IInv, Agrees
<1>6. \A b \in ProductionParents(tracker, h) : IsParentReady(h, b)
  BY <1>2, <1>5 DEF IInv, Agrees, ReadyBy, IsParentReady
<1>7. WindowsOnReadyParents' /\ windows' \subseteq ParentReady
  <2>1. \A w \in windows' : w \in ParentReady /\ IsParentReady(w.slot, w.parent)
    BY <1>2, <1>4, <1>5, <1>6, ReadyRecord DEF IInv, ReadyTypeOK, WindowsOnReadyParents
  <2> QED
    BY <1>3, <2>1 DEF WindowsOnReadyParents, IsParentReady
<1>8. ReadyTypeOK'
  BY <1>2, <1>3, <1>7 DEF IInv, ReadyTypeOK, Larger
<1> QED
  BY <1>3, <1>7, <1>8 DEF IInv, Bounded, NotifiedReady, Agrees

\* Every step keeps the invariant and sends no event a second time.
LEMMA NextIInv ==
    ASSUME IInv, [Next]_vars
    PROVE  IInv' /\ ((events' \ events) \cap notified = {} \/ UNCHANGED vars)
<1>0. /\ tracker \in Tracker /\ Agrees(tracker, notarized, skips)
      /\ tracker.root = bankRoot /\ bankRoot \in Slot
      /\ notarized \subseteq Block /\ skips \subseteq Slot /\ genesis \in Block
      /\ genesis.slot < MaxSlot /\ \A b \in tracker.nf : b.slot < MaxSlot
  BY DEF IInv, ReadyTypeOK, Bounded
<1>1. ASSUME NEW b \in Block, NotarCertificate(b)
      PROVE  IInv' /\ (events' \ events) \cap notified = {}
  <2>1. b.slot >= tracker.root /\ b.slot < MaxSlot
    BY <1>0, <1>1, WindowAssumption DEF NotarCertificate, Block, Slot
  <2>2. (add_notar_fallback_or_stronger(tracker, b)).nf = tracker.nf \cup {b}
    BY <1>0 DEF add_notar_fallback_or_stronger, Tracker
  <2> DEFINE t == add_notar_fallback_or_stronger(tracker, b)
             new == NewlyNotarized(tracker, b)
  <2>3. /\ t \in Tracker /\ t.root = tracker.root /\ t.ready = tracker.ready \cup new
        /\ new \subseteq ParentReady
        /\ \A r \in new : r.slot > tracker.root /\ r \notin tracker.ready
        /\ Agrees(t, notarized \cup {b}, skips)
    BY Zenon, <1>0, <2>1, AddNotarized
  <2>4. /\ notarized' = notarized \cup {b} /\ skips' = skips /\ Accept(t, new)
        /\ phase' \in {"Migration", "ReadyToEnable", "AlpenglowEnabled"}
    BY <1>1 DEF NotarCertificate, IInv, ReadyTypeOK
  <2>5. \A c \in t.nf : c.slot < MaxSlot
    BY <1>0, <2>1, <2>2
  <2> HIDE DEF t, new
  <2> QED
    BY <1>0, <2>3, <2>4, <2>5, AcceptIInv
<1>2. ASSUME GenesisCertificate
      PROVE  IInv' /\ (events' \ events) \cap notified = {}
  <2>1. genesis.slot >= tracker.root
    BY <1>0, <1>2 DEF GenesisCertificate
  <2>2. (add_notar_fallback_or_stronger(tracker, genesis)).nf = tracker.nf \cup {genesis}
    BY <1>0 DEF add_notar_fallback_or_stronger, Tracker
  <2> DEFINE t == add_notar_fallback_or_stronger(tracker, genesis)
             new == NewlyNotarized(tracker, genesis)
  <2>3. /\ t \in Tracker /\ t.root = tracker.root /\ t.ready = tracker.ready \cup new
        /\ new \subseteq ParentReady
        /\ \A r \in new : r.slot > tracker.root /\ r \notin tracker.ready
        /\ Agrees(t, notarized \cup {genesis}, skips)
    BY Zenon, <1>0, <2>1, AddNotarized
  <2>4. /\ notarized' = notarized \cup {genesis} /\ skips' = skips /\ Accept(t, new)
        /\ phase' \in {"Migration", "ReadyToEnable", "AlpenglowEnabled"}
    BY <1>2 DEF GenesisCertificate, IInv, ReadyTypeOK
  <2>5. \A c \in t.nf : c.slot < MaxSlot
    BY <1>0, <2>1, <2>2
  <2> HIDE DEF t, new
  <2> QED
    BY Zenon, <1>0, <2>3, <2>4, <2>5, AcceptIInv
<1>3. ASSUME NEW s \in Slot, SkipCertificate(s)
      PROVE  IInv' /\ (events' \ events) \cap notified = {}
  <2>1. (add_new_skip(tracker, s)).nf = tracker.nf
    BY <1>0 DEF add_new_skip, Tracker
  <2> DEFINE t == add_new_skip(tracker, s)
             new == NewlySkipped(tracker, s)
  <2>2. /\ t \in Tracker /\ t.root = tracker.root /\ t.ready = tracker.ready \cup new
        /\ new \subseteq ParentReady
        /\ \A r \in new : r.slot > tracker.root /\ r \notin tracker.ready
        /\ Agrees(t, notarized, skips \cup {s})
    <3>1. s > tracker.root
      BY <1>3 DEF SkipCertificate
    <3> QED
      BY Zenon, <1>0, <3>1, AddSkip
  <2>3. /\ notarized' = notarized /\ skips' = skips \cup {s} /\ Accept(t, new)
        /\ phase' \in {"Migration", "ReadyToEnable", "AlpenglowEnabled"}
    BY <1>3 DEF SkipCertificate, IInv, ReadyTypeOK
  <2> HIDE DEF t, new
  <2>4. \A c \in t.nf : c.slot < MaxSlot
    BY <1>0, <2>1 DEF t
  <2> QED
    BY Zenon, <1>0, <2>2, <2>3, <2>4, AcceptIInv
<1>4. CASE GenesisMarker \/ EnableAlpenglow \/ UNCHANGED vars
  BY Zenon, <1>4 DEF GenesisMarker, EnableAlpenglow, vars, migration, IInv, ReadyTypeOK,
     Bounded, NotifiedReady, WindowsOnReadyParents, IsParentReady, Agrees
<1>5. CASE MainLoop
  BY <1>5, MainLoopIInv
<1> QED
  BY <1>1, <1>2, <1>3, <1>4, <1>5 DEF Next

-----------------------------------------------------------------------------
(* Theorems *)

LEMMA Inductive == Spec => []IInv
<1>1. IInv /\ [Next]_vars => IInv'
  BY NextIInv
<1> QED
  BY InitIInv, <1>1, PTL DEF Spec

-----------------------------------------------------------------------------
(* The leader of a ready slot finds a parent *)

\* The highest ready slot is above every notarized block the tracker holds.  The
\* root that Alpenglow sets is one of them, an event is of a slot after the
\* genesis block and still ready unless the root has passed it, and a pool that
\* has not kicked off knows the genesis block or missed its certificate.
LInv ==
    /\ \A b \in tracker.nf : tracker.highest > b.slot
    /\ bankRoot > genesis.slot => \E b \in tracker.nf : b.slot = bankRoot
    /\ \A r \in events : r.slot > genesis.slot /\ (r.slot >= bankRoot => r \in tracker.ready)
    /\ ~kickedOff /\ phase # "Migration" => missed \/ genesis \in notarized
    /\ LeaderFindsParent

LEMMA HighestGrows ==
    ASSUME NEW old \in Slot, NEW S, S \subseteq Slot
    PROVE  Highest(old, S) >= old /\ \A s \in S : Highest(old, S) >= s
<1>0. Slot \subseteq Int
  BY DEF Slot
<1>1. CASE S = {}
  BY <1>0, <1>1 DEF Highest
<1>2. CASE S # {}
  <2> DEFINE c == CHOOSE s \in S : \A u \in S : u <= s
  <2>1. c \in S /\ \A u \in S : u <= c
    BY <1>2, HighestSlot
  <2>2. Highest(old, S) = IF old >= c THEN old ELSE c
    BY <1>2 DEF Highest, Larger
  <2> HIDE DEF c
  <2> QED
    BY <1>0, <2>1, <2>2
<1> QED
  BY <1>1, <1>2

LEMMA InitLInv == Init => LInv
<1> SUFFICES ASSUME Init PROVE LInv
  OBVIOUS
<1>1. CASE InitEnabled
  <2>1. PICK root \in Slot, r \in ParentReady :
            /\ InitTracker(root, r)
            /\ events = {r}
            /\ genesis \in {g \in Block : g.slot = root
                                         /\ (r.parent.slot = root => g = r.parent)}
            /\ kickedOff = TRUE
    BY <1>1 DEF InitEnabled
  <2>2. /\ r.slot \in Int /\ r.parent.slot \in Int /\ root \in Int /\ r.parent \in Block
        /\ root <= r.parent.slot /\ r.parent.slot < r.slot /\ tracker = NewTracker(root, r)
        /\ genesis.slot = root /\ bankRoot = root /\ r = Ready(r.slot, r.parent)
    BY <2>1, ReadyRecord DEF InitTracker, ParentReady, Block, Slot
  <2>3. tracker.nf = {r.parent} /\ tracker.highest > r.parent.slot
    BY <2>2 DEF NewTracker, Larger
  <2>4. r \in tracker.ready
    BY <2>2 DEF NewTracker
  <2>5. found
    BY <2>1 DEF InitTracker
  <2> QED
    BY <2>1, <2>2, <2>3, <2>4, <2>5 DEF LInv, LeaderFindsParent
<1>2. CASE InitMigration
  <2>1. PICK b \in Block :
            /\ InitTracker(b.slot, Ready(b.slot + 1, b))
            /\ events = {}
            /\ genesis.slot \in b.slot..(MaxSlot - 1)
            /\ phase = "Migration"
    BY <1>2 DEF InitMigration
  <2> DEFINE r == Ready(b.slot + 1, b)
  <2>2. /\ b.slot \in Int /\ r.slot = b.slot + 1 /\ r.parent = b /\ tracker = NewTracker(b.slot, r)
        /\ bankRoot = b.slot /\ found
    BY <2>1, ReadyRecord DEF InitTracker, Block, Slot
  <2> HIDE DEF r
  <2>3. tracker.nf = {b} /\ tracker.highest > b.slot
    BY <2>2 DEF NewTracker, Larger
  <2>4. ~(bankRoot > genesis.slot)
    BY <2>1, <2>2
  <2> QED
    BY <2>1, <2>2, <2>3, <2>4 DEF LInv, LeaderFindsParent
<1> QED
  BY <1>1, <1>2 DEF Init

\* Handling a certificate: t is the tracker before it is pruned.
LEMMA AcceptLInv ==
    ASSUME IInv, LInv, NEW t \in Tracker, NEW new, new \subseteq ParentReady,
           t.root = tracker.root, t.ready = tracker.ready \cup new, tracker.nf \subseteq t.nf,
           \A b \in t.nf : t.highest > b.slot,
           \A r \in new : r.slot > genesis.slot,
           notarized \subseteq notarized',
           phase' = phase \/ genesis \in notarized',
           Accept(t, new)
    PROVE  LInv'
<1>1. bankRoot' \in Slot /\ bankRoot' >= bankRoot /\ bankRoot' < MaxSlot
  BY RootsType DEF Accept
<1>2. /\ bankRoot \in Int /\ bankRoot' \in Int /\ tracker.root = bankRoot /\ Slot \subseteq Int
      /\ genesis.slot \in Int
  BY <1>1 DEF IInv, ReadyTypeOK, Slot, Block
<1>3. /\ \A b : b \in tracker'.nf <=> (b \in t.nf /\ (bankRoot' > bankRoot => b.slot >= bankRoot'))
      /\ tracker'.highest = t.highest
      /\ \A r : r \in tracker'.ready <=> (r \in t.ready /\ (bankRoot' > bankRoot => r.slot >= bankRoot'))
  <2>1. CASE bankRoot' > t.root
    <3>1. tracker' = set_tracker_root(t, bankRoot')
      BY <2>1 DEF Accept, maybe_prune
    <3>2. bankRoot' > bankRoot
      BY <1>2, <2>1
    <3> QED
      BY <3>1, <3>2 DEF set_tracker_root
  <2>2. CASE ~(bankRoot' > t.root)
    <3>1. tracker' = t /\ ~(bankRoot' > bankRoot)
      BY <1>2, <2>2 DEF Accept, maybe_prune
    <3> QED
      BY <3>1
  <2> QED
    BY <2>1, <2>2
<1>4. /\ events' = events \cup Notify(new) /\ found
      /\ UNCHANGED <<genesis, kickedOff, missed, found>>
      /\ Notify(new) \subseteq new
  BY DEF Accept, Notify
<1>5. \A b \in tracker'.nf : tracker'.highest > b.slot
  BY <1>3
<1>6. ASSUME bankRoot' > genesis.slot PROVE \E b \in tracker'.nf : b.slot = bankRoot'
  <2>1. CASE bankRoot' = bankRoot
    <3>1. PICK b \in tracker.nf : b.slot = bankRoot
      BY <1>6, <2>1 DEF LInv
    <3> QED
      BY <1>2, <1>3, <2>1, <3>1
  <2>2. CASE bankRoot' # bankRoot
    <3>1. PICK b \in tracker.nf : b.slot = bankRoot'
      BY <1>2, <1>6, <2>2 DEF Accept, Roots, Slots
    <3> QED
      BY <1>2, <1>3, <3>1
  <2> QED
    BY <2>1, <2>2
<1>7. ASSUME NEW r \in events'
      PROVE  r.slot > genesis.slot /\ (r.slot >= bankRoot' => r \in tracker'.ready)
  <2>1. r.slot \in Int
    BY Zenon, <1>2, <1>4 DEF IInv, ReadyTypeOK, ParentReady
  <2>2. CASE r \in events
    BY <1>1, <1>2, <1>3, <2>1, <2>2 DEF LInv
  <2>3. CASE r \in new
    BY <1>2, <1>3, <2>1, <2>3
  <2> QED
    BY <1>4, <2>2, <2>3
<1>8. ~kickedOff' /\ phase' # "Migration" => missed' \/ genesis' \in notarized'
  BY <1>4 DEF LInv
<1> QED
  BY <1>4, <1>5, <1>6, <1>7, <1>8 DEF LInv, LeaderFindsParent

\* The loop: an event's slot is ready or the window is missed; the kick-off is
\* for a slot whose parent is certified, unless the certificate was missed.
LEMMA MainLoopLInv ==
    ASSUME IInv, LInv, MainLoop
    PROVE  LInv'
<1> DEFINE s == HighestPending
           parents == ProductionParents(tracker, s)
<1>1. /\ events' = {} /\ kickedOff' = (kickedOff \/ KickOff) /\ found
      /\ found' = (found /\ (Produces(s) => parents # {}))
      /\ UNCHANGED <<tracker, bankRoot, genesis, phase, notarized, missed>>
  BY DEF MainLoop
<1>2. /\ bankRoot \in Slot /\ events \subseteq ParentReady /\ genesis \in Block
      /\ genesis.slot \in Slot /\ bankRoot < MaxSlot /\ tracker.root = bankRoot
      /\ genesis.slot < MaxSlot /\ MaxSlot \in Nat /\ Slot \subseteq Int
      /\ tracker \in Tracker /\ tracker.highest \in Slot
      /\ bankRoot \in Int /\ genesis.slot \in Int /\ tracker.highest \in Int
  BY WindowAssumption DEF IInv, ReadyTypeOK, Bounded, Block, Slot, Tracker
<1>3. Larger(genesis.slot, bankRoot) + 1 \in Slot
  BY <1>2 DEF Larger, Slot
<1>4. s \in Pending /\ s \in Slot
  <2>1. Pending \subseteq Slot /\ Pending # {}
    BY <1>2, <1>3, SlotsType DEF Pending, When, MainLoop
  <2> QED
    BY <2>1, HighestSlot DEF HighestPending
<1> HIDE DEF s
<1>5. ASSUME NEW b \in Block, Ready(s, b) \in tracker.ready PROVE parents # {}
  BY <1>5, ReadyRecord DEF ProductionParents
<1>6. ASSUME NEW b \in tracker.nf, b.slot = s - 1, b.slot >= bankRoot PROVE parents # {}
  <2>1. b \in Block /\ b \in notarized
    BY <1>2, <1>6 DEF IInv, Agrees, Tracker
  <2>2. ReadyBy(s, b, notarized, skips)
    <3>0. s \in Int
      BY <1>2, <1>4
    <3>1. b.slot < s /\ (b.slot + 1)..(s - 1) = {}
      BY <1>6, <3>0
    <3> QED
      BY <2>1, <3>1 DEF ReadyBy
  <2>3. s >= tracker.root
    BY <1>2, <1>4, <1>6
  <2>4. Ready(s, b) \in tracker.ready
    BY <1>4, <2>1, <2>2, <2>3 DEF IInv, Agrees
  <2> QED
    BY <1>5, <2>1, <2>4
<1> HIDE DEF parents
<1>7. bankRoot > genesis.slot => tracker.highest > bankRoot
  BY DEF LInv
<1>8. ASSUME Produces(s), parents = {} PROVE missed /\ genesis \notin notarized
  <2>1. ~(tracker.highest > s)
    BY <1>8 DEF Produces, MissedWindow
  <2>2. CASE s \in Slots(events)
    <3>1. PICK r \in events : r.slot = s
      BY <2>2 DEF Slots
    <3>2. r \in ParentReady /\ r = Ready(s, r.parent) /\ r.parent \in Block
      BY <1>2, <3>1, ReadyRecord
    <3>3. s > genesis.slot /\ (s >= bankRoot => r \in tracker.ready)
      BY <3>1 DEF LInv
    <3>4. s >= bankRoot
      BY <1>2, <1>4, <1>7, <2>1, <3>3
    <3> QED
      BY <1>5, <1>8, <3>2, <3>3, <3>4
  <2>3. CASE KickOff /\ s = Larger(genesis.slot, bankRoot) + 1
    <3>1. CASE bankRoot > genesis.slot
      <4>1. PICK b \in tracker.nf : b.slot = bankRoot
        BY <3>1 DEF LInv
      <4>2. s - 1 = bankRoot
        BY <1>2, <2>3, <3>1 DEF Larger
      <4> QED
        BY <1>2, <1>6, <1>8, <4>1, <4>2
    <3>2. CASE ~(bankRoot > genesis.slot)
      <4>1. s - 1 = genesis.slot /\ genesis.slot >= bankRoot
        BY <1>2, <2>3, <3>2 DEF Larger
      <4>2. genesis \in notarized => genesis \in tracker.nf
        BY <1>2, <4>1 DEF IInv, Agrees
      <4>3. genesis \notin notarized
        BY <1>6, <1>8, <4>1, <4>2
      <4>4. ~kickedOff /\ phase # "Migration"
        BY <2>3 DEF KickOff
      <4> QED
        BY <4>3, <4>4 DEF LInv
    <3> QED
      BY <3>1, <3>2
  <2> QED
    BY <1>4, <2>2, <2>3 DEF Pending, When
<1>9. LeaderFindsParent'
  BY Zenon, <1>1, <1>8 DEF LeaderFindsParent
<1> QED
  BY Zenon, <1>1, <1>9 DEF LInv

LEMMA NextLInv ==
    ASSUME IInv, LInv, Next
    PROVE  LInv'
<1>0. /\ tracker \in Tracker /\ Agrees(tracker, notarized, skips)
      /\ tracker.root = bankRoot /\ bankRoot \in Slot
      /\ notarized \subseteq Block /\ genesis \in Block /\ genesis.slot \in Slot
      /\ tracker.highest \in Slot /\ tracker.nf \subseteq Block
      /\ genesis.slot < MaxSlot /\ Slot \subseteq Int /\ MaxSlot \in Nat
      /\ bankRoot \in Int /\ genesis.slot \in Int /\ tracker.highest \in Int
  BY WindowAssumption DEF IInv, ReadyTypeOK, Bounded, Block, Slot, Tracker
\* A notarized block makes the slot after it ready.
<1>1. ASSUME NEW b \in Block, b.slot >= bankRoot, b.slot >= genesis.slot, b.slot < MaxSlot,
             Accept(add_notar_fallback_or_stronger(tracker, b), NewlyNotarized(tracker, b)),
             notarized' = notarized \cup {b},
             phase' = phase \/ genesis \in notarized'
      PROVE  LInv'
  <2> DEFINE t == add_notar_fallback_or_stronger(tracker, b)
             new == NewlyNotarized(tracker, b)
  <2>1. /\ t \in Tracker /\ t.root = tracker.root /\ t.ready = tracker.ready \cup new
        /\ new \subseteq ParentReady
    BY <1>0, <1>1, AddNotarized
  <2>2. t.nf = tracker.nf \cup {b} /\ t.highest = Highest(tracker.highest, Slots(new))
    BY <1>0 DEF add_notar_fallback_or_stronger, Tracker
  <2>3. b.slot \in Slot /\ b.slot + 1 \in Slot /\ b.slot \in Int
    BY <1>0, <1>1 DEF Block, Slot
  <2>4. \A r \in new : r.slot > genesis.slot
    <3>1. \A r \in new : r.slot > b.slot /\ r.slot \in Int
      BY ReadyRecord DEF NewlyNotarized, Connected, Slot
    <3> QED
      BY <1>0, <1>1, <2>3, <3>1
  <2>5. \A c \in t.nf : t.highest > c.slot
    <3>1. Slots(new) \subseteq Slot
      BY <2>1, SlotsType
    <3>2. t.highest >= tracker.highest /\ \A u \in Slots(new) : t.highest >= u
      BY <1>0, <2>2, <3>1, HighestGrows
    <3>3. t.highest \in Int
      BY <2>1 DEF Tracker, Slot
    <3>4. \A c \in tracker.nf : t.highest > c.slot
      <4>1. \A c \in tracker.nf : c.slot \in Int /\ tracker.highest > c.slot
        BY Zenon, <1>0 DEF LInv, Block
      <4> QED
        BY <1>0, <3>2, <3>3, <4>1
    <3>5. b \notin tracker.nf => b.slot + 1 \in Slots(new)
      <4> SUFFICES ASSUME b \notin tracker.nf PROVE b.slot + 1 \in Slots(new)
        OBVIOUS
      <4>1. b \notin notarized
        BY <1>0, <1>1 DEF Agrees
      <4>2. b.slot + 1 >= tracker.root
        BY <1>0, <1>1, <2>3
      <4>3. Ready(b.slot + 1, b) \notin tracker.ready
        BY <1>0, <2>3, <4>1, <4>2 DEF Agrees, ReadyBy
      <4>4. b.slot + 1 \in Connected(tracker.skip, b.slot)
        <5>1. (b.slot + 1)..((b.slot + 1) - 1) = {} /\ b.slot + 1 > b.slot
          BY <1>0, <2>3
        <5> QED
          BY <2>3, <5>1 DEF Connected
      <4>5. Ready(b.slot + 1, b) \in new
        BY <4>3, <4>4 DEF NewlyNotarized
      <4> QED
        BY <4>5, ReadyRecord DEF Slots
    <3>6. t.highest > b.slot
      BY <1>0, <2>3, <3>2, <3>3, <3>4, <3>5
    <3> QED
      BY <2>2, <3>4, <3>6
  <2>6. tracker.nf \subseteq t.nf /\ Accept(t, new)
    BY <1>1, <2>2
  <2> HIDE DEF t, new
  <2> QED
    BY <1>1, <2>1, <2>4, <2>5, <2>6, AcceptLInv
<1>2. ASSUME NEW b \in Block, NotarCertificate(b) PROVE LInv'
  <2>1. b.slot \in (genesis.slot + 1)..(MaxSlot - 1) /\ b.slot >= bankRoot
    BY <1>0, <1>2 DEF NotarCertificate
  <2>2. b.slot >= bankRoot /\ b.slot >= genesis.slot /\ b.slot < MaxSlot
    BY <1>0, <2>1
  <2> QED
    BY <1>1, <1>2, <2>2 DEF NotarCertificate
<1>3. CASE GenesisCertificate
  <2>1. genesis.slot >= genesis.slot
    BY <1>0
  <2> QED
    BY <1>0, <1>1, <1>3, <2>1 DEF GenesisCertificate
<1>4. ASSUME NEW s \in Slot, SkipCertificate(s) PROVE LInv'
  <2> DEFINE t == add_new_skip(tracker, s)
             new == NewlySkipped(tracker, s)
             P == PotentialParents(tracker, s)
             C == Connected(tracker.skip, s)
  <2>1. s \in (genesis.slot + 1)..(MaxSlot - 1) /\ s > tracker.root /\ Accept(t, new)
        /\ notarized' = notarized /\ phase' = phase
    BY <1>4 DEF SkipCertificate
  <2>2. /\ t \in Tracker /\ t.root = tracker.root /\ t.ready = tracker.ready \cup new
        /\ new \subseteq ParentReady
    BY Zenon, <1>0, <2>1, AddSkip
  <2>3. t.nf = tracker.nf /\ t.highest = IF P = {} THEN tracker.highest ELSE Highest(tracker.highest, C)
    BY <1>0 DEF add_new_skip, Tracker
  <2>4. C \subseteq Slot /\ \A u \in C : u > s
    BY DEF Connected
  <2>5. \A r \in new : r.slot > genesis.slot
    <3>1. \A r \in new : r.slot \in C
      BY ReadyRecord DEF NewlySkipped
    <3> HIDE DEF t, new, P, C
    <3>2. s \in Int /\ genesis.slot \in Int /\ s > genesis.slot
      BY <1>0, <2>1
    <3>3. \A u \in C : u \in Int
      BY <2>4 DEF Slot
    <3>4. \A u \in C : u > genesis.slot
      BY <2>4, <3>2, <3>3
    <3> QED
      BY Zenon, <3>1, <3>4
  <2> HIDE DEF t, new, P, C
  <2>6. t.highest >= tracker.highest /\ t.highest \in Int
    <3>1. t.highest \in Int
      BY <2>2 DEF Tracker, Slot
    <3>2. Highest(tracker.highest, C) >= tracker.highest
      BY Zenon, <1>0, <2>4, HighestGrows
    <3>3. tracker.highest >= tracker.highest
      BY <1>0
    <3> QED
      BY <2>3, <3>1, <3>2, <3>3
  <2>7. \A c \in t.nf : t.highest > c.slot
    <3>1. \A c \in tracker.nf : c.slot \in Int /\ tracker.highest > c.slot
      BY Zenon, <1>0 DEF LInv, Block
    <3> QED
      BY <1>0, <2>3, <2>6, <3>1
  <2>8. tracker.nf \subseteq t.nf
    BY <2>3
  <2> QED
    BY <2>1, <2>2, <2>5, <2>7, <2>8, AcceptLInv
<1>5. CASE GenesisMarker \/ EnableAlpenglow
  <2>1. /\ UNCHANGED <<tracker, bankRoot, events, genesis, kickedOff, notarized, found>>
        /\ missed' \/ (missed' = missed /\ phase # "Migration")
        /\ missed => missed'
    BY <1>5 DEF GenesisMarker, EnableAlpenglow
  <2> QED
    BY <2>1 DEF LInv, LeaderFindsParent
<1>6. CASE MainLoop
  BY <1>6, MainLoopLInv
<1> QED
  BY <1>2, <1>3, <1>4, <1>5, <1>6 DEF Next

(***************************************************************************)
(* The `unreachable!` of add_produce_block_event is never reached by a     *)
(* validator that saw the genesis certificate or started after it: the     *)
(* leader of the highest ready slot always finds a parent, whatever was    *)
(* pruned between the event and the loop that takes it.                    *)
(***************************************************************************)
THEOREM LeadersFindParents == Spec => []LeaderFindsParent
<1>1. IInv /\ LInv /\ [Next]_vars => LInv'
  <2> SUFFICES ASSUME IInv, LInv, [Next]_vars PROVE LInv'
    OBVIOUS
  <2>1. CASE Next
    BY <2>1, NextLInv
  <2>2. CASE UNCHANGED vars
    BY <2>2 DEF vars, migration, LInv, LeaderFindsParent
  <2> QED
    BY <2>1, <2>2
<1>2. LInv => LeaderFindsParent
  BY DEF LInv
<1> QED
  BY InitLInv, Inductive, <1>1, <1>2, PTL DEF Spec

-----------------------------------------------------------------------------
(* What the invariant shows *)

(***************************************************************************)
(* The state of the pool thread keeps its types.                           *)
(***************************************************************************)
THEOREM ReadyTypeCorrect == Spec => []ReadyTypeOK
<1>1. IInv => ReadyTypeOK
  BY DEF IInv
<1> QED
  BY Inductive, <1>1, PTL

(***************************************************************************)
(* The tracker holds from its root on exactly the ready parents that the   *)
(* comment at the head of parent_ready_tracker.rs defines, for every order *)
(* of certificates and every pruning.                                      *)
(***************************************************************************)
THEOREM TrackerIsCorrect == Spec => []ReadyAsDefined
<1>1. IInv => ReadyAsDefined
  BY DEF IInv, Agrees, ReadyBy, ReadyAsDefined, IsParentReady
<1> QED
  BY Inductive, <1>1, PTL

(***************************************************************************)
(* The voting loop is told of every ready parent of the first slot of a    *)
(* window, and of nothing that is not ready.                               *)
(***************************************************************************)
THEOREM NotificationIsComplete == Spec => []EveryParentNotified
<1>1. IInv => EveryParentNotified
  BY DEF IInv, Agrees, ReadyBy, NotifiedReady, EveryParentNotified, IsParentReady
<1> QED
  BY Inductive, <1>1, PTL

(***************************************************************************)
(* A leader window is built on a parent that is ready by the definition.   *)
(***************************************************************************)
THEOREM ProductionIsOnReadyParents == Spec => []WindowsOnReadyParents
<1>1. IInv => WindowsOnReadyParents
  BY DEF IInv
<1> QED
  BY Inductive, <1>1, PTL

(***************************************************************************)
(* add_notar_fallback_or_stronger and add_new_skip send a ParentReady      *)
(* event once.                                                             *)
(***************************************************************************)
THEOREM EventsAreSentOnce == Spec => NotifiedOnce
<1>1. IInv /\ [Next]_vars => [(events' \ events) \cap notified = {}]_vars
  BY NextIInv
<1> QED
  BY Inductive, <1>1, PTL DEF Spec, NotifiedOnce
=============================================================================
