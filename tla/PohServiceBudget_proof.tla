------------------------ MODULE PohServiceBudget_proof ------------------------
(***************************************************************************)
(* Proofs about the record budget of PohService: what the receiver was      *)
(* promised when the channel admitted a record.                            *)
(***************************************************************************)
EXTENDS PohService_proof

USE ChannelAssumption, PohAssumption

(***************************************************************************)
(* The hashes of the slot suffice for the records that were admitted, when *)
(* a batch of hashes is not larger than the number of ticks of a slot.     *)
(***************************************************************************)

\* Records reserved, queued, received or about to be recorded.
ToRecord == Outstanding + (IF next # None THEN 1 ELSE 0)

\* In the last tick every record has a hash before the one that is the tick; the
\* tick before adds its own.  The channel is open only if there are enough for all
\* it can admit.
Budget(R, closed, load) ==
    R.bank # None =>
      /\ R.height = R.bank.max - 1 =>
           /\ load <= R.poh.left - 1
           /\ ~closed => R.poh.left > Capacity + TicksPerSlot
      /\ R.height = R.bank.max - 2 =>
           /\ load <= R.poh.left + HashesPerTick - 2
           /\ ~closed /\ R.poh.left = 1 => HashesPerTick >= Capacity + 2

\* Every record on its way is for the working bank.
Ours ==
    /\ \A r \in inflight \cup Queued : rec.bank # None /\ r.bank = rec.bank.id
    /\ rpc = "got" => rec.bank # None /\ got.bank = rec.bank.id
    /\ next # None => rec.bank # None /\ next.bank = rec.bank.id

\* A shut-down channel that try_recv found empty is drained.
ClosedDrained ==
    Closed => /\ rpc \in {"retry", "empty"} => inflight = {}
              /\ rpc = "empty" => chan = <<>>

\* Without a bank only hashing leaves the tick next, so a bank that the channel is
\* restarted for finds another hash.
RoomToStart ==
    /\ rec.bank = None /\ svc # "tick" => rec.poh.left >= 2
    /\ svc = "restart" => rec.poh.left >= 2 /\ rec.height < rec.bank.max - 1
    /\ svc = "tick" /\ ~Closed /\ rec.bank # None /\ rec.height = rec.bank.max - 2 =>
           HashesPerTick > Capacity + TicksPerSlot

BInv ==
    /\ svc # "failed"
    /\ connected => Budget(rec, Closed, ToRecord) /\ Ours /\ ClosedDrained /\ RoomToStart

\* The hashes left in the slot, one tick before the last one.
LEMMA LastButOne ==
    ASSUME NEW R, RecInv(R), R.bank # None, R.height = R.bank.max - 2
    PROVE  remaining_hashes_in_slot(R.poh) =
             IF TicksPerSlot = 1 THEN R.poh.left ELSE HashesPerTick + R.poh.left
<1>1. R.poh \in PohT /\ R.bank \in BankT /\ R.bank.max = MaxTickHeight(R.bank.slot)
  BY Zenon DEF RecInv, RecT, Working
<1>2. PICK k \in Nat : R.height = k * TicksPerSlot + R.poh.tick
  BY Zenon DEF RecInv, InPhase
<1> DEFINE t == R.poh.tick
           a == R.bank.slot + 1
           n == R.poh.left
           j == 2
           T == TicksPerSlot
<1>3. t \in 0..TicksPerSlot - 1 /\ a \in Nat /\ n \in Nat
  BY <1>1 DEF PohT, BankT
<1>4. CASE T = 1
  <2>1. SaturatingSub(TicksPerSlot, t + 1) = 0 /\ 0 * HashesPerTick + n = n
    BY <1>3, <1>4 DEF SaturatingSub
  <2> QED
    BY Zenon, <1>4, <2>1 DEF remaining_hashes_in_slot
<1>5. CASE T # 1
  <2>1. ShortOfEnd(T, a, k, t, j) /\ T \in Nat \ {0} /\ j \in 1..T /\ t \in 0..T - 1
    BY <1>1, <1>2, <1>3, <1>5 DEF MaxTickHeight, ShortOfEnd
  <2>2. t = T - j
    <3> HIDE DEF t, a, j, T
    <3> QED
      BY Zenon, <1>3, <2>1, PhaseOfEnd
  <2>3. SaturatingSub(TicksPerSlot, t + 1) = 1 /\ 1 * HashesPerTick + n = HashesPerTick + n
    BY <1>3, <1>5, <2>2 DEF SaturatingSub
  <2> QED
    BY Zenon, <1>5, <2>3 DEF remaining_hashes_in_slot
<1> QED
  BY Zenon, <1>4, <1>5

\* The channel stays open only while the slot has hashes for a full channel, for
\* its ticks, and on the hash path for another batch.
LEMMA StaysOpen ==
    ASSUME NEW x \in Nat
    PROVE  /\ ~should_shutdown(x) => x > Capacity + TicksPerSlot
           /\ ~should_shutdown(SaturatingSub(x, HashesPerBatch)) =>
                 x > Capacity + TicksPerSlot + HashesPerBatch
<1>1. ASSUME NEW y \in Nat, ~should_shutdown(y)
      PROVE  y > Capacity + TicksPerSlot
  BY <1>1 DEF should_shutdown, SaturatingSub
<1>2. SaturatingSub(x, HashesPerBatch) \in Nat
  BY DEF SaturatingSub
<1>3. ASSUME ~should_shutdown(SaturatingSub(x, HashesPerBatch))
      PROVE  x > Capacity + TicksPerSlot + HashesPerBatch
  <2>1. SaturatingSub(x, HashesPerBatch) > Capacity + TicksPerSlot
    BY Zenon, <1>1, <1>2, <1>3
  <2> QED
    BY <2>1 DEF SaturatingSub
<1> QED
  BY Zenon, <1>1, <1>3

\* A batch of hashes on an open channel takes less than what was set aside for
\* the ticks.
LEMMA BudgetHash ==
    ASSUME HashesPerBatch <= TicksPerSlot,
           NEW R, RecInv(R), NEW F, Hashed(R, F), NEW c \in BOOLEAN, NEW d \in BOOLEAN,
           NEW l \in Nat, l <= Capacity, c => l = 0, Budget(R, c, l),
           ~d => ~c /\ ~should_shutdown(AfterNextBatch(F.poh))
    PROVE  /\ Budget(F, d, l)
           /\ ~d /\ F.poh.left = 1 /\ F.bank # None /\ F.height = F.bank.max - 2 =>
                 HashesPerTick > Capacity + TicksPerSlot
<1> DEFINE n == R.poh.left
           f == F.poh.left
           x == remaining_hashes_in_slot(F.poh)
<1>1. n \in 1..HashesPerTick /\ f \in 1..HashesPerTick /\ f = n - Least(n - 1, HashesPerBatch)
      /\ F.height = R.height /\ F.bank = R.bank /\ RecInv(F)
  BY Zenon DEF Hashed, RecInv, RecT, PohT
<1>2. f >= 1 /\ f >= n - HashesPerBatch /\ f \in Nat /\ n \in Nat
  BY <1>1 DEF Least
<1>3. CASE F.bank # None /\ F.height = F.bank.max - 1
  <2>1. x = f
    BY Zenon, <1>1, <1>3, LastTick
  <2>2. ~d => f > Capacity + TicksPerSlot + HashesPerBatch
    BY Zenon, <1>2, <2>1, StaysOpen DEF AfterNextBatch
  <2>3. ~c => n > Capacity + TicksPerSlot
    BY Zenon, <1>1, <1>3 DEF Budget
  <2>4. l <= f - 1
    <3> HIDE DEF n, f
    <3> QED
      BY <1>2, <2>3
  <2>5. ~d => f > Capacity + TicksPerSlot
    <3> HIDE DEF f
    <3> QED
      BY <1>2, <2>2
  <2>6. F.height \in Nat /\ F.bank.max \in Nat
    BY Zenon, <1>1, <1>3 DEF RecInv, RecT, BankT
  <2>7. F.height # F.bank.max - 2
    BY <1>3, <2>6
  <2> QED
    BY Zenon, <2>4, <2>5, <2>7 DEF Budget
<1>4. CASE F.bank # None /\ F.height = F.bank.max - 2
  <2>1. x = IF TicksPerSlot = 1 THEN f ELSE HashesPerTick + f
    BY Zenon, <1>1, <1>4, LastButOne
  <2>2. x \in Nat
    BY <1>2, <2>1
  <2>3. ~d => x > Capacity + TicksPerSlot + HashesPerBatch
    BY Zenon, <2>2, StaysOpen DEF AfterNextBatch
  <2> HIDE DEF n, f, x
  <2>4. ~d /\ f = 1 => HashesPerTick > Capacity + TicksPerSlot /\ HashesPerTick >= Capacity + 2
    BY <2>1, <2>3
  <2>5. l <= f + HashesPerTick - 2
    BY <1>2
  <2>6. F.height \in Nat /\ F.bank.max \in Nat
    BY Zenon, <1>1, <1>4 DEF RecInv, RecT, BankT
  <2>7. F.height # F.bank.max - 1
    BY <1>4, <2>6
  <2> QED
    BY Zenon, <2>4, <2>5, <2>7 DEF Budget, f
<1> QED
  BY Zenon, <1>3, <1>4 DEF Budget

\* A record takes a hash and is one record less.
LEMMA BudgetRecord ==
    ASSUME NEW R, RecInv(R), NEW b, NEW r, Recorded(R, b, r), r.ok,
           NEW c \in BOOLEAN, NEW d \in BOOLEAN,
           NEW l \in Nat, l >= 1, l <= Capacity + 1, Budget(R, c, l),
           ~d => ~c /\ ~should_shutdown(remaining_hashes_in_slot(r.rec.poh))
    PROVE  Budget(r.rec, d, l - 1)
<1> DEFINE n == R.poh.left
           h == R.height
           m == R.bank.max
           F == r.rec
           f == F.poh.left
           g == F.height
           x == remaining_hashes_in_slot(F.poh)
<1>1. /\ R.bank # None /\ F.bank # None /\ F.bank.max = m /\ RecInv(F)
      /\ g = IF n = 1 THEN h + 1 ELSE h
      /\ f = IF n = 1 THEN HashesPerTick - 1 ELSE n - 1
  BY Zenon DEF Recorded
<1>2. n \in 1..HashesPerTick /\ f \in 1..HashesPerTick /\ h \in Nat /\ g \in Nat /\ m \in Nat
  BY Zenon, <1>1 DEF RecInv, RecT, PohT, BankT
<1>3. /\ h = m - 1 => l <= n - 1
      /\ h = m - 2 => l <= n + HashesPerTick - 2
  BY Zenon, <1>1 DEF Budget
<1>4. g = m - 1 => x = f
  BY Zenon, <1>1, LastTick
<1>5. g = m - 2 => x = IF TicksPerSlot = 1 THEN f ELSE HashesPerTick + f
  BY Zenon, <1>1, LastButOne
<1>6. ~d /\ x \in Nat => x > Capacity + TicksPerSlot
  BY Zenon, StaysOpen
<1> HIDE DEF n, h, m, f, g, x
<1>7. CASE g = m - 1
  <2>1. l - 1 <= f - 1
    BY <1>1, <1>2, <1>3, <1>7
  <2>2. ~d => f > Capacity + TicksPerSlot
    BY <1>2, <1>4, <1>6, <1>7
  <2>3. g # m - 2
    BY <1>2, <1>7
  <2> QED
    BY Zenon, <1>1, <2>1, <2>2, <2>3 DEF Budget, f, g
<1>8. CASE g = m - 2
  <2>1. l - 1 <= f + HashesPerTick - 2
    BY <1>1, <1>2, <1>3, <1>8
  <2>2. ~d /\ f = 1 => HashesPerTick >= Capacity + 2
    BY <1>2, <1>5, <1>6, <1>8
  <2>3. g # m - 1
    BY <1>2, <1>8
  <2> QED
    BY Zenon, <1>1, <2>1, <2>2, <2>3 DEF Budget, f, g
<1>9. CASE g # m - 1 /\ g # m - 2
  BY Zenon, <1>1, <1>9 DEF Budget, g
<1> QED
  BY Zenon, <1>7, <1>8, <1>9

\* A tick brings the hashes of the next one, and the last tick finds no record.
LEMMA BudgetTick ==
    ASSUME NEW R, RecInv(R), R.poh.left = 1, NEW l \in BOOLEAN, NEW T, T = tick(R, l),
           NEW c \in BOOLEAN, NEW k \in Nat, k <= Capacity, Budget(R, c, k),
           ~c /\ R.bank # None /\ R.height = R.bank.max - 2 =>
                HashesPerTick > Capacity + TicksPerSlot
    PROVE  /\ Budget(T, c, k)
           /\ R.bank # None /\ T.bank = None => k = 0
           /\ T.bank # None => T.bank.id = R.bank.id
           /\ T.poh.left >= 2
<1>1. /\ RecInv(T) /\ T.poh.left = HashesPerTick /\ T.height = R.height + 1
      /\ R.bank = None => T.bank = None
      /\ R.bank # None /\ R.height + 1 < R.bank.max =>
            T.bank # None /\ T.bank.id = R.bank.id /\ T.bank.max = R.bank.max
      /\ R.bank # None /\ R.height + 1 >= R.bank.max => T.bank = None
  <2>1. Ticked(R, T)
    BY Zenon, TickRec
  <2> QED
    BY Zenon, <2>1 DEF Ticked
<1>2. R.height \in Nat /\ HashesPerTick >= Capacity + 1 /\ HashesPerTick >= 2
  BY DEF RecInv, RecT
<1>3. CASE R.bank = None
  BY Zenon, <1>1, <1>2, <1>3 DEF Budget
<1>4. CASE R.bank # None /\ R.height + 1 >= R.bank.max
  <2>1. R.height < R.bank.max /\ R.bank.max \in Nat
    BY Zenon, <1>4 DEF RecInv, RecT, Working, BankT
  <2>2. R.height = R.bank.max - 1
    BY <1>2, <1>4, <2>1
  <2>3. k <= 1 - 1
    BY Zenon, <1>4, <2>2 DEF Budget
  <2> QED
    BY <1>1, <1>2, <1>4, <2>3 DEF Budget
<1>5. CASE R.bank # None /\ R.height + 1 < R.bank.max
  <2> DEFINE h == R.height
             m == R.bank.max
  <2>1. h \in Nat /\ m \in Nat
    BY Zenon, <1>5 DEF RecInv, RecT, BankT
  <2>2. T.bank.max = m /\ T.height = h + 1 /\ T.bank # None
    BY Zenon, <1>1, <1>5
  <2>3. ~c /\ h = m - 2 => HashesPerTick > Capacity + TicksPerSlot
    BY Zenon, <1>5
  <2> HIDE DEF h, m
  <2>4. /\ k <= HashesPerTick - 1 /\ k <= HashesPerTick + HashesPerTick - 2
        /\ HashesPerTick # 1
    BY <1>2
  <2>5. h + 1 = m - 1 => h = m - 2
    BY <2>1
  <2> QED
    BY Zenon, <1>1, <1>2, <1>5, <2>2, <2>3, <2>4, <2>5 DEF Budget
<1>6. \/ R.bank = None
      \/ R.bank # None /\ R.height + 1 >= R.bank.max
      \/ R.bank # None /\ R.height + 1 < R.bank.max
  <2>1. R.bank # None => R.bank.max \in Nat
    BY Zenon DEF RecInv, RecT, BankT
  <2> QED
    BY <1>2, <2>1
<1> QED
  BY Zenon, <1>3, <1>4, <1>5, <1>6

\* An open channel has hashes for all that it can admit.
LEMMA BudgetAdmit ==
    ASSUME NEW R, RecInv(R), NEW k, NEW l \in Nat, l <= Capacity + 1, Budget(R, FALSE, k)
    PROVE  Budget(R, FALSE, l)
<1>1. CASE R.bank = None
  BY Zenon, <1>1 DEF Budget
<1>2. CASE R.bank # None
  <2> DEFINE n == R.poh.left
             h == R.height
             m == R.bank.max
  <2>1. n \in 1..HashesPerTick
    BY Zenon DEF RecInv, RecT, PohT
  <2>2. /\ h = m - 1 => n > Capacity + TicksPerSlot
        /\ h = m - 2 => (n = 1 => HashesPerTick >= Capacity + 2)
    BY Zenon, <1>2 DEF Budget
  <2> HIDE DEF n, h, m
  <2>3. h = m - 1 => l <= n - 1
    BY <2>1, <2>2
  <2>4. h = m - 2 => l <= n + HashesPerTick - 2
    BY <2>1, <2>2
  <2> QED
    BY Zenon, <2>2, <2>3, <2>4 DEF Budget, n, h, m
<1> QED
  BY Zenon, <1>1, <1>2

\* A drained channel that is shut down is within the budget of any recorder, and
\* so is one that is opened when more than a tick and a hash are left.
LEMMA BudgetDrained ==
    ASSUME NEW R, RecInv(R)
    PROVE  /\ Budget(R, TRUE, 0)
           /\ R.bank # None /\ R.poh.left >= 2 /\ R.height < R.bank.max - 1 => Budget(R, FALSE, 0)
<1> DEFINE n == R.poh.left
           h == R.height
           m == R.bank.max
<1>1. n \in 1..HashesPerTick /\ h \in Nat
  BY Zenon DEF RecInv, RecT, PohT
<1>2. R.bank # None => m \in Nat
  BY Zenon DEF RecInv, RecT, BankT
<1> HIDE DEF n, h, m
<1>3. 0 <= n - 1 /\ 0 <= n + HashesPerTick - 2
  BY <1>1
<1>4. R.bank # None /\ h < m - 1 => h # m - 1
  BY <1>1, <1>2
<1>5. n >= 2 => n # 1
  BY <1>1
<1> QED
  BY Zenon, <1>3, <1>4, <1>5 DEF Budget, n, h, m

\* The channel bounds what is outstanding.
LEMMA OutstandingBound ==
    ASSUME IInv
    PROVE  /\ Outstanding \in Nat /\ Cardinality(inflight) \in Nat /\ Len(chan) \in Nat
           /\ connected => Outstanding <= Capacity
           /\ Outstanding = 0 <=> inflight = {} /\ chan = <<>> /\ rpc # "got"
<1>1. IsFiniteSet(inflight) /\ chan \in Seq(Record) /\ word \in Word
  BY Zenon DEF IInv, TypeOK, InflightOwned
<1>2. Cardinality(inflight) \in Nat /\ (Cardinality(inflight) = 0 <=> inflight = {})
  BY Zenon, <1>1, FS_CardinalityType, FS_EmptySet
<1>3. Len(chan) \in Nat /\ (Len(chan) = 0 <=> chan = <<>>)
  BY <1>1
<1>4. Got \in {0, 1} /\ (Got = 0 <=> rpc # "got")
  BY DEF Got
<1>5. Outstanding \in Nat /\ (Outstanding = 0 <=> inflight = {} /\ chan = <<>> /\ rpc # "got")
  BY <1>2, <1>3, <1>4 DEF Outstanding
<1>6. connected => Outstanding <= Capacity
  <2>1. connected => word.allowed + Outstanding <= Capacity
    BY Zenon DEF IInv, Conservation
  <2>2. word.allowed \in Nat
    BY <1>1 DEF Word
  <2> QED
    BY <1>5, <2>1, <2>2
<1> QED
  BY Zenon, <1>2, <1>3, <1>5, <1>6

\* A drained channel has nothing to record.
LEMMA NothingToRecord ==
    ASSUME SInv, rpc \in {"safe", "restart"}
    PROVE  inflight = {} /\ chan = <<>> /\ Outstanding = 0 /\ Queued = {} /\ Closed
<1>1. inflight = {} /\ chan = <<>> /\ Closed
  BY Zenon DEF SInv, IInv, SafeMeansDrained, Closed
<1> QED
  BY <1>1, OutstandingBound DEF SInv, Queued

\* Steps that leave the recorder and the records alone.
LEMMA Quiet ==
    ASSUME SInv, BInv, connected' => connected,
           UNCHANGED <<rec, inflight, chan, next, got>>,
           svc' = svc \/ (svc # "tick" /\ svc' \notin {"failed", "tick", "restart"}),
           rpc' = "got" <=> rpc = "got",
           \/ Closed' /\ rpc' = "idle"
           \/ Closed' = Closed /\ (rpc' = rpc \/ rpc' \notin {"retry", "empty"})
    PROVE  BInv'
<1>1. svc' # "failed"
  BY Zenon DEF BInv
<1> SUFFICES ASSUME connected' PROVE BInv'
  BY Zenon, <1>1 DEF BInv
<1>2. Budget(rec, Closed, ToRecord) /\ Ours /\ ClosedDrained /\ RoomToStart
  BY Zenon DEF BInv
<1>3. ToRecord' = ToRecord
  BY Zenon DEF ToRecord, Outstanding, Got
<1>4. Closed' \in BOOLEAN /\ Closed \in BOOLEAN /\ (Closed => Closed')
  BY Zenon DEF Closed
<1>5. Budget(rec, Closed', ToRecord)
  BY Zenon, <1>2, <1>4 DEF Budget
<1>6. Ours'
  BY Zenon, <1>2 DEF Ours, Queued
<1>7. ClosedDrained'
  BY Zenon, <1>2 DEF ClosedDrained
<1>8. RoomToStart'
  BY Zenon, <1>2, <1>4 DEF RoomToStart
<1> QED
  BY Zenon, <1>1, <1>3, <1>5, <1>6, <1>7, <1>8 DEF BInv

\* A step that drops the receiver ends the thread.
LEMMA Dropped ==
    ASSUME ~connected', svc' # "failed"
    PROVE  BInv'
  BY Zenon DEF BInv

\* Only an open channel admits a record, for the working bank; a push moves one.
LEMMA SendingB ==
    ASSUME SInv, SInv', BInv, NEW s \in Senders, Sending(s)
    PROVE  BInv'
<1>1. UNCHANGED <<svc, rec, next, got, connected, rpc>> /\ word'.bank = word.bank
  <2>1. UNCHANGED <<svc, rec, next, got>>
    BY Zenon DEF Sending, serviceVars
  <2>2. UNCHANGED <<connected, rpc>>
    BY Zenon DEF Sending, Call, SenderStep, Lock, Load, IncActive, CompareExchange, Undo, Push,
           PushDisconnected, DecActive, FailDisconnected, ReturnIndex, receiverVars
  <2>3. word' = word \/ (CompareExchange(s) /\ word' = Reserve(s))
    BY Zenon DEF Sending, Call, SenderStep, Lock, Load, IncActive, CompareExchange, Undo, Push,
           PushDisconnected, DecActive, FailDisconnected, ReturnIndex
  <2>4. word \in Word
    BY Zenon DEF SInv, IInv, TypeOK
  <2> QED
    BY Zenon, <2>1, <2>2, <2>3, <2>4 DEF Reserve, Word
<1> SUFFICES ASSUME connected PROVE BInv'
  BY Zenon, <1>1 DEF BInv
<1>2. Budget(rec, Closed, ToRecord) /\ Ours /\ ClosedDrained /\ RoomToStart /\ svc # "failed"
  BY Zenon DEF BInv
<1>3. Closed' = Closed /\ Closed \in BOOLEAN /\ RoomToStart'
  BY Zenon, <1>1, <1>2 DEF Closed, RoomToStart
<1>4. CASE UNCHANGED <<inflight, chan>>
  BY Zenon, <1>1, <1>3, <1>4, Quiet
<1>5. CASE CompareExchange(s) /\ word = seen[s]
  <2>1. pc[s] = "cas" /\ inflight' = inflight \cup Batch(s) /\ chan' = chan
    BY Zenon, <1>5 DEF CompareExchange
  <2>2. word.bank = arg[s].bank /\ arg[s].bank \in 1..MaxBank
    BY Zenon, <1>5, <2>1 DEF SInv, IInv, TypeOK, SeenAdmits
  <2>3. ~Closed /\ rec.bank # None /\ rec.bank.id = word.bank
    <3>1. ~Closed
      BY <2>2 DEF Closed, Disabled
    <3> QED
      BY Zenon, <3>1 DEF SInv, OpenForBank
  <2>4. Ours'
    <3>1. \A r \in Batch(s) : r.bank = rec.bank.id
      BY Zenon, <2>2, <2>3 DEF Batch
    <3> QED
      BY <1>1, <1>2, <2>1, <2>3, <3>1 DEF Ours, Queued
  <2>5. ToRecord' \in Nat /\ ToRecord' <= Capacity + 1
    <3>1. IsFiniteSet(inflight') /\ chan' \in Seq(Record) /\ word' \in Word
      BY Zenon DEF SInv, IInv, TypeOK, InflightOwned
    <3>2. Cardinality(inflight') \in Nat /\ Len(chan') \in Nat /\ Got' \in {0, 1}
      BY <3>1, FS_CardinalityType DEF Got
    <3>3. Outstanding' \in Nat
      BY <3>2 DEF Outstanding
    <3>4. word'.allowed \in Nat /\ word'.allowed + Outstanding' <= Capacity
      <4>1. connected' /\ Conservation'
        BY Zenon, <1>1 DEF SInv, IInv
      <4> QED
        BY <3>1, <4>1 DEF Conservation, Word
    <3> DEFINE x == Outstanding'
               a == word'.allowed
    <3>5. x \in Nat /\ a \in Nat /\ a + x <= Capacity
      BY Zenon, <3>3, <3>4
    <3>6. x <= Capacity
      <4> HIDE DEF x, a
      <4> QED
        BY <3>5
    <3> DEFINE e == IF next' # None THEN 1 ELSE 0
    <3>7. ToRecord' = x + e
      BY Zenon DEF ToRecord
    <3>8. e \in {0, 1}
      BY Zenon
    <3> HIDE DEF x, e
    <3> QED
      BY <3>5, <3>6, <3>7, <3>8
  <2>6. Budget(rec, FALSE, ToRecord')
    <3>1. Closed = FALSE
      BY Zenon, <1>3, <2>3
    <3>2. Budget(rec, FALSE, ToRecord)
      BY Zenon, <1>2, <3>1
    <3> QED
      BY Zenon, <2>5, <3>2, BudgetAdmit DEF SInv
  <2>7. Closed' = FALSE
    BY Zenon, <1>3, <2>3
  <2>8. Budget(rec, Closed, ToRecord)'
    BY Zenon, <1>1, <2>6, <2>7
  <2> QED
    BY Zenon, <1>1, <1>2, <1>3, <2>3, <2>4, <2>8 DEF BInv, ClosedDrained
<1>6. CASE Push(s)
  <2>1. PICK r \in inflight : chan' = Append(chan, r) /\ inflight' = inflight \ {r}
    BY Zenon, <1>6 DEF Push, Mine
  <2>2. IsFiniteSet(inflight) /\ chan \in Seq(Record) /\ r \in Record
    BY Zenon DEF SInv, IInv, TypeOK, InflightOwned
  <2>3. Cardinality(inflight') = Cardinality(inflight) - 1 /\ Len(chan') = Len(chan) + 1
        /\ Cardinality(inflight) \in Nat /\ Len(chan) \in Nat
    BY <2>1, <2>2, FS_RemoveElement, FS_CardinalityType
  <2>4. Outstanding' = Outstanding
    <3>1. Got' = Got /\ Got \in Nat
      BY Zenon, <1>1 DEF Got
    <3> QED
      BY <2>3, <3>1 DEF Outstanding
  <2>5. Budget(rec, Closed, ToRecord)'
    BY Zenon, <1>1, <1>2, <1>3, <2>4 DEF ToRecord
  <2>6. Queued' = Queued \cup {r}
    BY <2>1, <2>2 DEF Queued
  <2>7. Ours'
    BY Zenon, <1>1, <1>2, <2>1, <2>6 DEF Ours
  <2>8. ClosedDrained'
    BY Zenon, <1>1, <1>2, <1>3 DEF ClosedDrained
  <2> QED
    BY Zenon, <1>1, <1>2, <1>3, <2>5, <2>7, <2>8 DEF BInv
<1>7. UNCHANGED <<inflight, chan>> \/ (CompareExchange(s) /\ word = seen[s]) \/ Push(s)
  BY Zenon DEF Sending, Call, SenderStep, Lock, Load, IncActive, CompareExchange, Undo,
         PushDisconnected, DecActive, FailDisconnected, ReturnIndex
<1> QED
  BY Zenon, <1>4, <1>5, <1>6, <1>7

\* Steps of the loop that only close the channel or look at it.
LEMMA LoopB ==
    ASSUME SInv, BInv,
           \/ CheckExit \/ check_for_service_message \/ WaitOver \/ EndInner
           \/ AskActive \/ AskEmpty \/ Finish \/ DropUnprocessed \/ ReplayStep
    PROVE  BInv'
<1>1. CASE CheckExit \/ check_for_service_message
  <2>1. /\ UNCHANGED <<rec, inflight, chan, next, got, connected>>
        /\ svc \in {"top", "check"} /\ svc' \in {"check", "hash_recv"}
        /\ \/ Closed' /\ rpc' = "idle"
           \/ word' = word /\ rpc' = rpc
    BY <1>1 DEF CheckExit, check_for_service_message, StopRecords, ShutdownIf, Shutdown, Closed,
                SHUTDOWN, vars, receiverVars
  <2>2. rpc # "got"
    BY Zenon, <2>1 DEF SInv, Control, Receiving
  <2> QED
    BY Zenon, <2>1, <2>2, Quiet DEF Closed
<1>2. CASE WaitOver \/ EndInner
  <2>1. /\ UNCHANGED <<rec, inflight, chan, next, got, connected, word, rpc>>
        /\ svc \in {"wait_recv", "after"} /\ svc' \in {"after", "record", "leave", "top"}
    BY Zenon, <1>2 DEF WaitOver, EndInner, vars, receiverVars
  <2> QED
    BY Zenon, <2>1, Quiet DEF Closed
<1>3. CASE AskActive \/ AskEmpty
  <2>1. /\ UNCHANGED <<rec, inflight, chan, next, got, connected, word>>
        /\ rpc' \in {rpc, "isEmpty", "safe", "idle"}
        /\ svc \in {"after", "leave"} /\ svc' \in {svc, "done", "handle", "top", "hash_recv"}
    BY Zenon, <1>3 DEF AskActive, AskEmpty, Asking, SafeLoadActive, SafeIsEmpty, IfSafe, IfNot, channelVars,
                vars, receiverVars
  <2>2. rpc # "got"
    BY Zenon, <2>1 DEF SInv, Control, Receiving
  <2> QED
    BY Zenon, <2>1, <2>2, Quiet DEF Closed
<1>4. CASE Finish \/ DropUnprocessed
  <2>1. \/ ~connected' /\ svc' # "failed"
        \/ /\ UNCHANGED <<rec, inflight, chan, next, got, connected, word, rpc>>
           /\ svc = "done" /\ svc' = "handed"
    BY Zenon, <1>4 DEF Finish, DropUnprocessed, DropReceiver, vars, receiverVars
  <2> QED
    BY <2>1, Quiet, Dropped DEF Closed
<1>5. CASE ReplayStep
  <2>1. UNCHANGED <<rec, inflight, chan, next, got, connected, word, rpc, svc>>
    BY Zenon, <1>5 DEF ReplayStep, SendReset, SendSetBank, SetExit, SetShutdownPoh, Send, vars,
                receiverVars, serviceVars
  <2> QED
    BY Zenon, <2>1, Quiet DEF Closed
<1> QED
  BY Zenon, <1>1, <1>2, <1>3, <1>4, <1>5

\* record() finds the bank of the record, and a hash for it.
LEMMA Record1B ==
    ASSUME SInv, BInv, Record1
    PROVE  BInv'
<1>1. PICK l \in BOOLEAN :
        LET r == record(rec, next.bank, l)
        IN  /\ rec' = r.rec
            /\ IF r.ok THEN AfterRecord(r.rec.poh) ELSE DropReceiver
            /\ svc' = IF r.ok THEN "record_recv" ELSE "failed"
  BY Zenon DEF Record1
<1> DEFINE r == record(rec, next.bank, l)
           c == Closed
           d == Closed'
           k == ToRecord
<1>2. Recorded(rec, next.bank, r)
  BY Zenon, RecordRec DEF SInv
<1>3. /\ rec' = r.rec /\ svc = "record" /\ next' = None /\ UNCHANGED got
      /\ IF r.ok THEN AfterRecord(r.rec.poh) ELSE DropReceiver
      /\ svc' = IF r.ok THEN "record_recv" ELSE "failed"
  BY Zenon, <1>1 DEF Record1
<1> HIDE DEF r
<1>4. connected /\ next # None /\ rpc # "got"
  BY Zenon, <1>3 DEF SInv, Control, Receiving
<1>5. Budget(rec, c, k) /\ Ours /\ ClosedDrained
  BY Zenon, <1>4 DEF BInv
<1>6. rec.bank # None /\ next.bank = rec.bank.id
  BY Zenon, <1>4, <1>5 DEF Ours
<1>7. k \in Nat /\ k >= 1 /\ k <= Capacity + 1 /\ k = Outstanding + 1 /\ Outstanding \in Nat
  BY <1>4, OutstandingBound DEF SInv, ToRecord
<1>8. r.ok
  <2>1. rec.height < rec.bank.max /\ rec.height \in Nat /\ rec.bank.max \in Nat
    BY Zenon, <1>6 DEF SInv, RecInv, RecT, Working, BankT
  <2>2. rec.poh.left = 1 => rec.height # rec.bank.max - 1
    <3> HIDE DEF k
    <3> QED
      BY <1>5, <1>6, <1>7 DEF Budget
  <2>3. rec.poh.left = 1 => rec.height + 1 < rec.bank.max
    BY <2>1, <2>2
  <2> QED
    BY Zenon, <1>2, <1>6, <2>3 DEF Recorded
<1>9. AfterRecord(r.rec.poh) /\ svc' = "record_recv"
  BY Zenon, <1>3, <1>8
<1>10. /\ UNCHANGED <<inflight, chan, connected>>
       /\ \/ Closed' /\ rpc' = "idle"
          \/ word' = word /\ rpc' = rpc /\ ~should_shutdown(remaining_hashes_in_slot(r.rec.poh))
  BY <1>9 DEF AfterRecord, ShutdownIf, Shutdown, Closed, SHUTDOWN, vars, receiverVars
<1>11. c \in BOOLEAN /\ d \in BOOLEAN /\ (c => d)
       /\ (~d => ~c /\ ~should_shutdown(remaining_hashes_in_slot(r.rec.poh)))
  BY Zenon, <1>10 DEF Closed
<1>12. Budget(rec', d, k - 1)
  <2> HIDE DEF k, c, d
  <2>1. Budget(r.rec, d, k - 1)
    BY Zenon, <1>2, <1>5, <1>7, <1>8, <1>11, BudgetRecord DEF SInv
  <2> QED
    BY Zenon, <1>3, <2>1
<1>13. ToRecord' = k - 1
  <2>1. Outstanding' = Outstanding
    BY Zenon, <1>4, <1>10 DEF Outstanding, Got
  <2> QED
    BY <1>3, <1>7, <2>1 DEF ToRecord
<1>14. rec'.bank # None /\ rec'.bank.id = rec.bank.id
  BY Zenon, <1>2, <1>3, <1>8 DEF Recorded
<1>15. Ours'
  BY Zenon, <1>3, <1>4, <1>5, <1>10, <1>14 DEF Ours, Queued
<1>16. ClosedDrained' /\ RoomToStart'
  BY Zenon, <1>5, <1>9, <1>10, <1>14 DEF ClosedDrained, RoomToStart, Closed
<1> QED
  BY Zenon, <1>9, <1>12, <1>13, <1>15, <1>16 DEF BInv

\* try_recv moves a record from the channel to the thread.
LEMMA ReceiveB ==
    ASSUME SInv, BInv, Receive
    PROVE  BInv'
<1>1. /\ Receiving /\ UNCHANGED <<next, rec>>
      /\ TryRecv \/ LoadActive \/ Retry
      /\ got' = IF rpc' = "got" THEN Head(chan) ELSE got
      /\ svc' \in IF rpc' = "empty" THEN AfterEmpty ELSE {svc}
  BY Zenon DEF Receive
<1>2. svc' \in {"record_recv", "hash_recv", "wait_recv", "after", "hash"}
  BY Zenon, <1>1 DEF AfterEmpty, Receiving
<1>3. connected /\ rpc # "got" /\ svc \notin {"tick", "restart"}
  BY Zenon, <1>1 DEF SInv, Control, Receiving, TryRecv, LoadActive, Retry, BetweenCalls
<1>4. Budget(rec, Closed, ToRecord) /\ Ours /\ ClosedDrained /\ RoomToStart
  BY Zenon, <1>3 DEF BInv
<1>5. UNCHANGED <<word, connected, inflight>>
  BY Zenon, <1>1 DEF TryRecv, LoadActive, Retry, Take, TryRecvEmpty, channelVars
<1>6. Closed' = Closed /\ RoomToStart'
  BY Zenon, <1>1, <1>2, <1>3, <1>4, <1>5 DEF Closed, RoomToStart
<1>7. CASE Take
  <2>1. chan # <<>> /\ chan' = Tail(chan) /\ rpc' = "got" /\ chan \in Seq(Record) /\ got' = Head(chan)
    BY Zenon, <1>1, <1>7 DEF Take, SInv, IInv, TypeOK
  <2>2. Len(chan') = Len(chan) - 1 /\ Len(chan) \in Nat /\ Head(chan) \in Queued
        /\ Queued' \subseteq Queued
    BY <2>1 DEF Queued
  <2>3. Outstanding' = Outstanding
    <3>1. Cardinality(inflight) \in Nat /\ Got = 0 /\ Got' = 1
      BY Zenon, <1>3, <2>1, OutstandingBound DEF SInv, Got
    <3> QED
      BY <1>5, <2>2, <3>1 DEF Outstanding
  <2>4. Budget(rec, Closed, ToRecord)'
    BY Zenon, <1>1, <1>4, <1>6, <2>3 DEF ToRecord
  <2>5. Ours'
    BY Zenon, <1>1, <1>4, <1>5, <2>1, <2>2 DEF Ours
  <2>6. ClosedDrained'
    BY Zenon, <2>1 DEF ClosedDrained
  <2> QED
    BY Zenon, <1>2, <1>6, <2>4, <2>5, <2>6 DEF BInv
<1>8. CASE ~Take
  <2>1. /\ chan' = chan
        /\ \/ rpc' \in {"active", "try"}
           \/ rpc = "active" /\ active = 0 /\ rpc' = "retry"
           \/ rpc = "retry" /\ chan = <<>> /\ rpc' = "empty"
    BY Zenon, <1>1, <1>8 DEF TryRecv, LoadActive, Retry, TryRecvEmpty, AfterActive, channelVars
  <2>2. rpc' # "got" /\ Outstanding' = Outstanding
    BY Zenon, <1>3, <1>5, <2>1 DEF Outstanding, Got
  <2>3. Budget(rec, Closed, ToRecord)'
    BY Zenon, <1>1, <1>4, <1>6, <2>2 DEF ToRecord
  <2>4. Ours'
    BY <1>1, <1>4, <1>5, <2>1, <2>2 DEF Ours, Queued
  <2>5. ClosedDrained'
    BY Zenon, <1>4, <1>5, <1>6, <2>1, NobodyActive DEF ClosedDrained, SInv
  <2> QED
    BY Zenon, <1>2, <1>6, <2>3, <2>4, <2>5 DEF BInv
<1> QED
  BY Zenon, <1>7, <1>8

LEMMA ReceivedB ==
    ASSUME SInv, BInv, Received
    PROVE  BInv'
<1>1. /\ Receiving /\ OnReceivedRecord /\ UNCHANGED rec /\ next' = got
      /\ svc' \in {"record", "after"}
  BY Zenon DEF Received
<1>2. /\ word'.bank = word.bank /\ rpc = "got" /\ rpc' = "idle"
      /\ UNCHANGED <<connected, inflight, chan>>
  BY Zenon, <1>1, NoCarry DEF SInv, OnReceivedRecord
<1>3. connected /\ next = None /\ got # None /\ svc \notin {"tick", "restart"}
  BY Zenon, <1>1, <1>2 DEF SInv, Control, Receiving
<1>4. Budget(rec, Closed, ToRecord) /\ Ours /\ RoomToStart
  BY Zenon, <1>3 DEF BInv
<1>5. ToRecord' = ToRecord
  <2>1. Got = 1 /\ Got' = 0 /\ Cardinality(inflight) \in Nat /\ Len(chan) \in Nat
    BY Zenon, <1>2, OutstandingBound DEF SInv, Got
  <2>2. Outstanding = Outstanding' + 1 /\ Outstanding' \in Nat
    BY <1>2, <2>1 DEF Outstanding
  <2> QED
    BY <1>1, <1>3, <2>2 DEF ToRecord
<1>6. Closed' = Closed
  BY Zenon, <1>2 DEF Closed
<1>7. Budget(rec, Closed, ToRecord)'
  BY Zenon, <1>1, <1>4, <1>5, <1>6
<1>8. Ours' /\ ClosedDrained' /\ RoomToStart'
  BY Zenon, <1>1, <1>2, <1>3, <1>4, <1>6 DEF Ours, Queued, ClosedDrained, RoomToStart
<1> QED
  BY Zenon, <1>1, <1>7, <1>8 DEF BInv

\* Nothing is outstanding when a shut-down channel was found empty; on an open one
\* a batch takes no more than what was set aside for the ticks.
LEMMA HashB ==
    ASSUME HashesPerBatch <= TicksPerSlot, SInv, BInv, Hash
    PROVE  BInv'
<1> DEFINE p == PohHash(rec.poh)
           c == Closed
           d == Closed'
           k == ToRecord
<1>1. /\ svc = "hash" /\ rec' = [rec EXCEPT !.poh = p]
      /\ ShutdownIf(should_shutdown(AfterNextBatch(p)))
      /\ svc' = IF NeedsTick(p) THEN "tick" ELSE "hash_recv"
      /\ UNCHANGED <<next, got>>
  BY Zenon DEF Hash
<1>2. Hashed(rec, rec')
  BY Zenon, <1>1, HashRec DEF SInv
<1>3. connected /\ next = None /\ rpc = "empty"
  BY Zenon, <1>1 DEF SInv, Control
<1>4. Budget(rec, c, k) /\ Ours /\ ClosedDrained /\ RoomToStart
  BY <1>3 DEF BInv
<1>5. k = Outstanding /\ k \in Nat /\ k <= Capacity
  BY <1>3, OutstandingBound DEF SInv, ToRecord
<1>6. c => k = 0
  BY Zenon, <1>3, <1>4, <1>5, OutstandingBound DEF ClosedDrained, SInv
<1>7. /\ UNCHANGED <<inflight, chan, connected>>
      /\ \/ Closed' /\ rpc' = "idle"
         \/ word' = word /\ rpc' = rpc /\ ~should_shutdown(AfterNextBatch(p))
  BY <1>1 DEF ShutdownIf, Shutdown, Closed, SHUTDOWN, vars, receiverVars
<1>8. /\ rec'.poh = p /\ rec'.poh.left \in 1..HashesPerTick
      /\ rec'.bank = rec.bank /\ rec'.height = rec.height
  BY Zenon, <1>2 DEF Hashed, RecInv, RecT, PohT
<1>9. c \in BOOLEAN /\ d \in BOOLEAN /\ (~d => ~c /\ ~should_shutdown(AfterNextBatch(rec'.poh)))
  BY Zenon, <1>7, <1>8 DEF Closed
<1>10. /\ Budget(rec', d, k)
       /\ ~d /\ rec'.poh.left = 1 /\ rec'.bank # None /\ rec'.height = rec'.bank.max - 2 =>
             HashesPerTick > Capacity + TicksPerSlot
  <2> HIDE DEF c, d, k
  <2> QED
    BY <1>2, <1>4, <1>5, <1>6, <1>9, BudgetHash DEF SInv
<1>11. ToRecord' = k
  BY Zenon, <1>1, <1>3, <1>7 DEF ToRecord, Outstanding, Got
<1>12. Ours' /\ ClosedDrained'
  BY <1>1, <1>3, <1>4, <1>7, <1>8 DEF Ours, Queued, ClosedDrained, Closed
<1>13. RoomToStart'
  <2>1. svc' = "tick" <=> rec'.poh.left = 1
    BY <1>1, <1>8 DEF NeedsTick
  <2>2. svc' \in {"tick", "hash_recv"}
    BY Zenon, <1>1
  <2>3. rec'.poh.left # 1 => rec'.poh.left >= 2
    BY <1>8
  <2> QED
    BY Zenon, <1>10, <2>1, <2>2, <2>3 DEF RoomToStart
<1>14. svc' # "failed"
  BY Zenon, <1>1
<1> QED
  BY Zenon, <1>10, <1>11, <1>12, <1>13, <1>14 DEF BInv

\* The tick that ends the slot finds nothing on its way to the bank.
LEMMA TickB ==
    ASSUME SInv, BInv, Tick
    PROVE  BInv'
<1> DEFINE k == ToRecord
           c == Closed
<1>1. PICK l \in BOOLEAN : rec' = tick(rec, l)
  BY Zenon DEF Tick
<1>2. svc = "tick" /\ svc' = "after" /\ UNCHANGED <<vars, next, got>>
  BY Zenon DEF Tick
<1>3. UNCHANGED <<word, inflight, chan, connected, rpc>>
  BY Zenon, <1>2 DEF vars, receiverVars
<1>4. connected /\ next = None /\ rpc # "got" /\ rec.poh.left = 1
  BY Zenon, <1>2 DEF SInv, Control, Receiving
<1>5. Budget(rec, c, k) /\ Ours /\ ClosedDrained /\ RoomToStart /\ c \in BOOLEAN
  BY Zenon, <1>4 DEF BInv, Closed
<1>6. k = Outstanding /\ k \in Nat /\ k <= Capacity
  BY <1>4, OutstandingBound DEF SInv, ToRecord
<1>7. /\ Budget(rec', c, k)
      /\ rec.bank # None /\ rec'.bank = None => k = 0
      /\ rec'.bank # None => rec'.bank.id = rec.bank.id
      /\ rec'.poh.left >= 2
  <2>1. ~c /\ rec.bank # None /\ rec.height = rec.bank.max - 2 =>
           HashesPerTick > Capacity + TicksPerSlot
    BY Zenon, <1>2, <1>5 DEF RoomToStart
  <2> HIDE DEF k, c
  <2> QED
    BY <1>1, <1>4, <1>5, <1>6, <2>1, BudgetTick DEF SInv
<1>8. ToRecord' = k /\ Closed' = c
  BY Zenon, <1>2, <1>3 DEF ToRecord, Outstanding, Got, Closed
<1>9. Ours'
  <2>1. CASE rec'.bank = None /\ rec.bank # None
    <3>1. inflight = {} /\ chan = <<>>
      BY Zenon, <1>6, <1>7, <2>1, OutstandingBound DEF SInv
    <3> QED
      BY <1>2, <1>3, <1>4, <3>1 DEF Ours, Queued
  <2>2. CASE rec.bank = None
    <3>1. inflight = {} /\ Queued = {}
      BY Zenon, <1>5, <2>2 DEF Ours
    <3> QED
      BY Zenon, <1>2, <1>3, <1>4, <3>1 DEF Ours, Queued
  <2>3. CASE rec'.bank # None /\ rec.bank # None
    BY Zenon, <1>2, <1>3, <1>4, <1>5, <1>7, <2>3 DEF Ours, Queued
  <2> QED
    BY Zenon, <2>1, <2>2, <2>3
<1>10. ClosedDrained' /\ RoomToStart'
  BY Zenon, <1>2, <1>3, <1>5, <1>7 DEF ClosedDrained, RoomToStart, Closed
<1> QED
  BY Zenon, <1>2, <1>7, <1>8, <1>9, <1>10 DEF BInv

\* Messages are handled on a drained channel.
LEMMA HandleB ==
    ASSUME SInv, BInv, HandleReset \/ HandleSetBank \/ EndRestart
    PROVE  BInv'
<1>1. /\ svc \in {"handle", "restart"} /\ UNCHANGED <<next, got>>
      /\ svc = "restart" <=> EndRestart
  BY Zenon DEF HandleReset, HandleSetBank, EndRestart
<1>2. connected /\ next = None /\ rpc \in {"safe", "restart"}
  BY Zenon, <1>1 DEF SInv, Control
<1>3. inflight = {} /\ chan = <<>> /\ Outstanding = 0 /\ Queued = {} /\ Closed
  BY Zenon, <1>2, NothingToRecord
<1>4. RoomToStart
  BY Zenon, <1>2 DEF BInv
<1>5. HashesPerTick >= 2
  OBVIOUS
<1>6. ASSUME UNCHANGED <<inflight, chan>>, rpc' \notin {"got", "retry", "empty"}
      PROVE  ToRecord' = 0 /\ Ours' /\ ClosedDrained'
  <2>1. Outstanding' = Outstanding
    BY Zenon, <1>2, <1>6 DEF Outstanding, Got
  <2>2. Queued' = {}
    BY <1>3, <1>6 DEF Queued
  <2> QED
    BY <1>1, <1>2, <1>3, <1>6, <2>1, <2>2 DEF ToRecord, Ours, ClosedDrained
<1>7. CASE HandleReset
  <2>1. /\ rec' = reset(rec, msg.slot, msg.leader) /\ svc' = "top" /\ UNCHANGED vars
        /\ msg.kind = "Reset" /\ svc = "handle"
    BY Zenon, <1>7 DEF HandleReset
  <2>2. UNCHANGED <<inflight, chan, rpc>>
    BY Zenon, <2>1 DEF vars, receiverVars
  <2>3. msg \in Reset
    BY Zenon, <2>1 DEF SInv, PohTypeOK, Control, Message, SetBank
  <2>4. rec'.bank = None /\ rec'.poh.left = HashesPerTick
    BY Zenon, <2>1, <2>3, ResetRec DEF SInv, Reset
  <2>5. RoomToStart' /\ Budget(rec, Closed, ToRecord)'
    BY Zenon, <1>5, <2>1, <2>4 DEF RoomToStart, Budget
  <2> QED
    BY Zenon, <1>2, <1>6, <2>1, <2>2, <2>5 DEF BInv
<1>8. CASE HandleSetBank
  <2>1. PICK l \in BOOLEAN : rec' = set_bank(rec, msg.bank, msg.rehash, l)
    BY Zenon, <1>8 DEF HandleSetBank
  <2>2. svc = "handle" /\ msg.kind = "SetBank"
    BY Zenon, <1>8 DEF HandleSetBank
  <2>3. msg \in SetBank /\ MadeFor(rec, msg.bank) /\ rec.bank = None /\ RecInv(rec)
    BY Zenon, <1>2, <2>2 DEF SInv, PohTypeOK, Control, Messages, Message, Reset, Fits, MadeFor
  <2>4. BankSet(rec, msg.bank, rec')
    BY Zenon, <2>1, <2>3, SetBankRec DEF SetBank
  <2>5. /\ UNCHANGED <<inflight, chan, word>> /\ rpc' \in {rpc, "restart"}
        /\ svc' \in {"top", "restart"}
        /\ svc' = "restart" => should_restart(rec'.height, msg.bank.max)
    BY Zenon, <1>8, <2>3 DEF HandleSetBank, RestartLock, vars, receiverVars
  <2>6. Closed' = TRUE
    BY Zenon, <1>3, <2>5 DEF Closed
  <2>7. Budget(rec, Closed, ToRecord)'
    <3>1. Budget(rec', TRUE, 0)
      BY Zenon, <2>4, BudgetDrained DEF BankSet
    <3>2. ToRecord' = 0
      BY <1>2, <1>6, <2>5
    <3> QED
      BY Zenon, <2>6, <3>1, <3>2
  <2>8. rec'.poh.left >= 2
    <3>1. rec.poh.left >= 2
      BY Zenon, <1>4, <2>2, <2>3 DEF RoomToStart
    <3> QED
      BY <1>5, <2>4, <3>1 DEF BankSet
  <2>9. svc' = "restart" => rec'.height < rec'.bank.max - 1
    <3>1. rec'.height \in Nat /\ msg.bank.max \in Nat
      BY Zenon, <2>3, <2>4 DEF BankSet, RecInv, RecT, SetBank, BankT
    <3>2. ASSUME svc' = "restart"
          PROVE  rec'.height < msg.bank.max - 1 /\ rec'.height < msg.bank.max
      BY <2>5, <3>1, <3>2 DEF should_restart
    <3> QED
      BY Zenon, <2>4, <3>2 DEF BankSet
  <2>10. RoomToStart'
    BY Zenon, <2>5, <2>8, <2>9 DEF RoomToStart
  <2> QED
    BY Zenon, <1>2, <1>6, <2>5, <2>7, <2>10 DEF BInv
<1>9. CASE EndRestart
  <2>1. UNCHANGED <<rec, inflight, chan>> /\ rpc' = "idle" /\ svc' = "top" /\ svc = "restart"
    BY Zenon, <1>9 DEF EndRestart, RestartStore
  <2>2. rec.bank # None /\ rec.poh.left >= 2 /\ rec.height < rec.bank.max - 1
    BY Zenon, <1>4, <2>1 DEF RoomToStart, SInv, OpenForBank
  <2>3. Budget(rec, TRUE, 0) /\ Budget(rec, FALSE, 0)
    BY Zenon, <2>2, BudgetDrained DEF SInv
  <2>4. ToRecord' = 0 /\ Closed' \in BOOLEAN
    BY <1>6, <2>1 DEF Closed
  <2>5. Budget(rec, Closed, ToRecord)'
    BY Zenon, <2>1, <2>3, <2>4
  <2>6. RoomToStart'
    BY <2>1, <2>2 DEF RoomToStart
  <2> QED
    BY <1>6, <2>1, <2>5, <2>6 DEF BInv
<1> QED
  BY Zenon, <1>7, <1>8, <1>9

LEMMA NextBInv ==
    ASSUME HashesPerBatch <= TicksPerSlot, SInv, SInv', BInv, [PohNext]_pohVars
    PROVE  BInv'
<1>1. CASE UNCHANGED pohVars
  <2>1. UNCHANGED <<word, connected, inflight, chan, rpc>>
    BY Zenon, <1>1 DEF pohVars, vars, receiverVars
  <2>2. UNCHANGED <<rec, next, got, svc>>
    BY <1>1 DEF pohVars, serviceVars
  <2> QED
    BY <2>1, <2>2, Quiet DEF Closed
<1>2. CASE PohNext
  <2>1. CASE \E s \in Senders : Sending(s)
    BY Zenon, <2>1, SendingB
  <2>2. CASE Record1 \/ Receive \/ Received
    BY Zenon, <2>2, Record1B, ReceiveB, ReceivedB
  <2>3. CASE Hash \/ Tick
    BY Zenon, <2>3, HashB, TickB
  <2>4. CASE HandleReset \/ HandleSetBank \/ EndRestart
    BY Zenon, <2>4, HandleB
  <2>5. CASE \/ CheckExit \/ check_for_service_message \/ WaitOver \/ EndInner
             \/ AskActive \/ AskEmpty \/ Finish \/ DropUnprocessed \/ ReplayStep
    BY Zenon, <2>5, LoopB
  <2> QED
    BY Zenon, <1>2, <2>1, <2>2, <2>3, <2>4, <2>5 DEF PohNext, ServiceStep
<1> QED
  BY <1>1, <1>2

LEMMA InitBInv == PohInit => BInv
<1> SUFFICES ASSUME PohInit PROVE BInv
  BY Zenon
<1>1. /\ svc = "top" /\ next = None /\ inflight = {} /\ chan = <<>> /\ rpc = "idle"
      /\ rec.bank = None /\ rec.poh = PohReset
  BY Zenon DEF PohInit, Init
<1>2. rec.poh.left = HashesPerTick /\ HashesPerTick >= 2
  BY <1>1 DEF PohReset
<1>3. Budget(rec, Closed, ToRecord) /\ Ours /\ ClosedDrained /\ RoomToStart
  BY <1>1, <1>2 DEF Budget, Ours, Queued, ClosedDrained, RoomToStart
<1> QED
  BY Zenon, <1>1, <1>3 DEF BInv

\* What holds of the channel and the working bank for every batch size.
ServesWorkingBank ==
    /\ connected /\ word.bank # Disabled => rec.bank # None /\ rec.bank.id = word.bank
    /\ svc = "handed" => /\ word.bank = Disabled /\ inflight = {} /\ chan = <<>>
                         /\ next = None /\ rec.bank = None

\* The channel is open only for the working bank, whatever resets, banks, ticks
\* and exits come, and the receiver handed to the block creation loop is drained.
THEOREM ChannelServesWorkingBank == PohSpec => []ServesWorkingBank
<1>1. SInv => ServesWorkingBank
  <2> SUFFICES ASSUME SInv PROVE ServesWorkingBank
    BY Zenon
  <2>1. connected /\ word.bank # Disabled => rec.bank # None /\ rec.bank.id = word.bank
    BY Zenon DEF SInv, OpenForBank, Closed
  <2>2. ASSUME svc = "handed"
        PROVE  word.bank = Disabled /\ inflight = {} /\ chan = <<>> /\ next = None /\ rec.bank = None
    <3>1. rpc = "safe" /\ next = None /\ connected /\ shutdownPoh
      BY Zenon, <2>2 DEF SInv, Control
    <3>2. rec.bank = None
      BY Zenon, <3>1 DEF SInv, Messages
    <3> QED
      BY Zenon, <3>1, <3>2, NothingToRecord DEF Closed
  <2> QED
    BY Zenon, <2>1, <2>2 DEF ServesWorkingBank
<1> QED
  BY <1>1, AlwaysSInv, PTL

\* record() never fails for a record the channel admitted, and set_bank never
\* finds a bank, if one batch of hashes fits into what should_shutdown sets aside
\* for the ticks of the slot.
THEOREM AdmittedRecordsAreRecorded ==
    ASSUME HashesPerBatch <= TicksPerSlot
    PROVE  PohSpec => []NeverFails
<1>1. SInv /\ SInv' /\ BInv /\ [PohNext]_pohVars => BInv'
  BY Zenon, NextBInv
<1>2. BInv /\ ServesWorkingBank => NeverFails
  BY Zenon DEF BInv, ServesWorkingBank, NeverFails
<1>3. PohSpec => []BInv
  BY <1>1, InitBInv, AlwaysSInv, PTL DEF PohSpec
<1> QED
  BY <1>2, <1>3, ChannelServesWorkingBank, PTL
=============================================================================
