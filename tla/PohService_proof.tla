--------------------------- MODULE PohService_proof ---------------------------
(***************************************************************************)
(* Proofs about RecordChannels, for any number of senders, any capacity    *)
(* and any batch size; and about PohService, which is composed with it,    *)
(* for every setting of ticks, hashes and batches.                         *)
(***************************************************************************)
EXTENDS PohService, FiniteSetTheorems, TLAPS

-----------------------------------------------------------------------------
(* The record channel *)

\* active_senders counts the senders between their fetch_add and fetch_sub.
ActiveSet == {s \in Senders : pc[s] \in ActivePc}
ActiveCount == active = Cardinality(ActiveSet)

\* A reserved record belongs to a sender that is pushing.
InflightOwned ==
    /\ IsFiniteSet(inflight)
    /\ \A r \in inflight : pc[r.owner] = "push"

\* A sender about to reserve loaded a word that admits its call.
SeenAdmits ==
    \A s \in Senders : pc[s] \in {"inc", "cas"} =>
        seen[s].bank = arg[s].bank /\ arg[s].size <= seen[s].allowed

\* From the moment is_safe_to_restart() saw no active sender, nothing is in flight.
SafeMeansDrained ==
    /\ rpc \in {"isEmpty", "safe", "restart"} => word.bank = Disabled /\ inflight = {}
    /\ rpc \in {"safe", "restart"} => chan = <<>>

GoneMeansDropped == rpc = "gone" <=> ~connected

IInv ==
    /\ TypeOK
    /\ ActiveCount
    /\ InflightOwned
    /\ SeenAdmits
    /\ SafeMeansDrained
    /\ GoneMeansDropped
    /\ Conservation
    /\ OneBankAtATime

-----------------------------------------------------------------------------
(* Counting *)

\* A batch has as many records as the call asked for.
LEMMA BatchSize ==
    ASSUME NEW s \in Senders, TypeOK
    PROVE  IsFiniteSet(Batch(s)) /\ Cardinality(Batch(s)) = arg[s].size
<1> DEFINE n == arg[s].size
           f == [i \in 1..n |-> [owner |-> s, call |-> call[s], pos |-> i, bank |-> arg[s].bank]]
<1>1. n \in Nat /\ n >= 1
  BY DEF TypeOK
<1>2. f \in Bijection(1..n, Batch(s))
  BY DEF Batch, Bijection, Injection, Surjection, IsInjective
<1>3. IsFiniteSet(1..n) /\ Cardinality(1..n) = n
  <2>1. ASSUME NEW m \in Nat, m >= 1
        PROVE  IsFiniteSet(1..m) /\ Cardinality(1..m) = m
    <3>1. 1 \in Int /\ m \in Int /\ ~(1 > m) /\ m - 1 + 1 = m
      BY <2>1
    <3> QED
      BY Zenon, <3>1, FS_Interval
  <2> QED
    BY Zenon, <1>1, <2>1
<1>4. ExistsBijection(1..n, Batch(s))
  BY Zenon, <1>2 DEF ExistsBijection
<1> HIDE DEF n
<1>5. IsFiniteSet(Batch(s)) /\ Cardinality(Batch(s)) = n
  BY Zenon, <1>3, <1>4, FS_Bijection
<1> QED
  BY Zenon, <1>5 DEF n

\* The senders counted as active change by one when one of them enters or
\* leaves that part of its call, and not otherwise.
LEMMA ActiveSetStep ==
    ASSUME NEW s \in Senders, NEW l, TypeOK, pc' = [pc EXCEPT ![s] = l]
    PROVE  /\ IsFiniteSet(ActiveSet)
           /\ pc[s] \in ActivePc /\ l \notin ActivePc =>
                Cardinality(ActiveSet') = Cardinality(ActiveSet) - 1
           /\ pc[s] \notin ActivePc /\ l \in ActivePc =>
                Cardinality(ActiveSet') = Cardinality(ActiveSet) + 1
           /\ (pc[s] \in ActivePc <=> l \in ActivePc) => ActiveSet' = ActiveSet
<1>1. IsFiniteSet(ActiveSet)
  BY Zenon, ChannelAssumption, FS_Subset DEF ActiveSet
<1>2. pc' \in [Senders -> SenderPc \cup {l}] /\ \A t \in Senders : pc'[t] = IF t = s THEN l ELSE pc[t]
  BY Zenon DEF TypeOK
<1>3. CASE pc[s] \in ActivePc /\ l \notin ActivePc
  <2>1. ActiveSet' = ActiveSet \ {s} /\ s \in ActiveSet
    BY Zenon, <1>2, <1>3 DEF ActiveSet
  <2> QED
    BY Zenon, <1>1, <1>3, <2>1, FS_RemoveElement
<1>4. CASE pc[s] \notin ActivePc /\ l \in ActivePc
  <2>1. ActiveSet' = ActiveSet \cup {s} /\ s \notin ActiveSet
    BY Zenon, <1>2, <1>4 DEF ActiveSet
  <2> QED
    BY Zenon, <1>1, <1>4, <2>1, FS_AddElement
<1>5. CASE pc[s] \in ActivePc <=> l \in ActivePc
  <2>1. ActiveSet' = ActiveSet
    BY Zenon, <1>2, <1>5 DEF ActiveSet
  <2> QED
    BY Zenon, <1>1, <1>5, <2>1
<1> QED
  BY Zenon, <1>3, <1>4, <1>5

-----------------------------------------------------------------------------
(* Every sender step preserves the invariant *)

USE ChannelAssumption

\* Steps that change a sender's program counter, and neither the word, the
\* records nor the receiver.
LEMMA QuietStep ==
    ASSUME IInv, NEW s \in Senders, NEW l \in SenderPc, Goto(s, l),
           UNCHANGED <<word, chan, connected, inflight, rpc>>,
           pc[s] # "push", TypeOK', ActiveCount', SeenAdmits'
    PROVE  IInv'
<1>1. pc' = [pc EXCEPT ![s] = l]
  BY Zenon DEF Goto
<1>2. InflightOwned'
  BY Zenon, <1>1 DEF IInv, InflightOwned, TypeOK, Record
<1>3. SafeMeansDrained' /\ GoneMeansDropped'
  BY Zenon DEF IInv, SafeMeansDrained, GoneMeansDropped
<1>4. Conservation' /\ OneBankAtATime'
  BY Zenon DEF IInv, Conservation, OneBankAtATime, Outstanding, Got, Queued
<1> QED
  BY Zenon, <1>2, <1>3, <1>4 DEF IInv

\* Steps outside the counted part leave active_senders right.
LEMMA UncountedStep ==
    ASSUME TypeOK, ActiveCount, NEW s \in Senders, NEW l, Goto(s, l),
           pc[s] \notin ActivePc, l \notin ActivePc, UNCHANGED active
    PROVE  ActiveCount'
<1>1. ActiveSet' = ActiveSet
  BY Zenon, ActiveSetStep DEF Goto
<1> QED
  BY Zenon, <1>1 DEF ActiveCount

LEMMA CallStep ==
    ASSUME IInv, NEW s \in Senders, Call(s)
    PROVE  IInv'
<1>1. TypeOK'
  <2>1. pc' = [pc EXCEPT ![s] = "lock"] /\ call' = [call EXCEPT ![s] = @ + 1]
    BY Zenon DEF Call, Goto
  <2>2. pc' \in [Senders -> SenderPc] /\ call' \in [Senders -> Nat]
    BY <2>1 DEF IInv, TypeOK, SenderPc
  <2>3. arg' \in [Senders -> [bank : 1..MaxBank, size : 1..MaxBatch]]
    BY DEF IInv, TypeOK, Call
  <2> QED
    BY Zenon, <2>2, <2>3 DEF IInv, TypeOK, Call, receiverVars
<1>2. ActiveCount'
  BY Zenon, UncountedStep DEF IInv, Call, ActivePc
<1>3. SeenAdmits'
  BY Zenon DEF IInv, Call, Goto, SeenAdmits, TypeOK
<1> QED
  BY Zenon, <1>1, <1>2, <1>3, QuietStep DEF Call, SenderPc, receiverVars

LEMMA LockStep ==
    ASSUME IInv, NEW s \in Senders, Lock(s)
    PROVE  IInv'
<1>1. TypeOK'
  BY Zenon DEF IInv, TypeOK, Lock, Goto, SenderPc, receiverVars
<1>2. ActiveCount'
  BY Zenon, UncountedStep DEF IInv, Lock, ActivePc
<1>3. SeenAdmits'
  BY Zenon DEF IInv, Lock, Goto, SeenAdmits, TypeOK
<1> QED
  BY Zenon, <1>1, <1>2, <1>3, QuietStep DEF Lock, SenderPc, receiverVars

LEMMA LoadStep ==
    ASSUME IInv, NEW s \in Senders, Load(s)
    PROVE  IInv'
<1>1. CASE Refused(s)
  <2>1. TypeOK'
    BY Zenon, <1>1 DEF IInv, TypeOK, Load, Goto, Unlock, SenderPc, receiverVars
  <2>2. ActiveCount'
    BY Zenon, <1>1, UncountedStep DEF IInv, Load, ActivePc
  <2>3. SeenAdmits'
    BY Zenon, <1>1 DEF IInv, Load, Goto, SeenAdmits, TypeOK
  <2> QED
    BY Zenon, <1>1, <2>1, <2>2, <2>3, QuietStep DEF Load, SenderPc, receiverVars
<1>2. CASE ~Refused(s)
  <2>1. TypeOK'
    <3>1. pc' \in [Senders -> SenderPc]
      BY Zenon, <1>2 DEF IInv, TypeOK, Load, Goto, SenderPc
    <3>2. seen' \in [Senders -> Word]
      BY Zenon, <1>2 DEF IInv, TypeOK, Load
    <3> QED
      BY Zenon, <1>2, <3>1, <3>2 DEF IInv, TypeOK, Load, receiverVars
  <2>2. ActiveCount'
    BY Zenon, <1>2, UncountedStep DEF IInv, Load, ActivePc
  <2>3. SeenAdmits'
    <3>1. word.allowed \in Nat /\ arg[s].size \in Nat
      BY DEF IInv, TypeOK, Word
    <3>2. word.bank = arg[s].bank /\ arg[s].size <= word.allowed
      BY <1>2, <3>1 DEF Refused
    <3>3. \A t \in Senders : t # s => seen'[t] = seen[t] /\ pc'[t] = pc[t]
      BY Zenon, <1>2 DEF IInv, TypeOK, Load, Goto
    <3>4. seen'[s] = word /\ arg' = arg
      BY Zenon, <1>2 DEF IInv, TypeOK, Load
    <3> QED
      BY Zenon, <3>2, <3>3, <3>4 DEF IInv, SeenAdmits
  <2> QED
    BY Zenon, <1>2, <2>1, <2>2, <2>3, QuietStep DEF Load, SenderPc, receiverVars
<1> QED
  BY Zenon, <1>1, <1>2

LEMMA IncActiveStep ==
    ASSUME IInv, NEW s \in Senders, IncActive(s)
    PROVE  IInv'
<1>1. TypeOK'
  <2>1. active' \in Nat
    BY DEF IInv, TypeOK, IncActive
  <2>2. pc' \in [Senders -> SenderPc]
    BY Zenon DEF IInv, TypeOK, IncActive, Goto, SenderPc
  <2> QED
    BY Zenon, <2>1, <2>2 DEF IInv, TypeOK, IncActive, receiverVars
<1>2. ActiveCount'
  BY Zenon, ActiveSetStep DEF IInv, IncActive, Goto, ActiveCount, ActivePc
<1>3. SeenAdmits'
  BY Zenon DEF IInv, IncActive, Goto, SeenAdmits, TypeOK
<1> QED
  BY Zenon, <1>1, <1>2, <1>3, QuietStep DEF IncActive, SenderPc, receiverVars

\* A sender that is counted keeps active_senders above zero.
LEMMA ActivePositive ==
    ASSUME TypeOK, ActiveCount, NEW s \in Senders, pc[s] \in ActivePc
    PROVE  active >= 1
<1>1. s \in ActiveSet /\ IsFiniteSet(ActiveSet)
  BY Zenon, FS_Subset DEF ActiveSet
<1>2. Cardinality(ActiveSet) \in Nat /\ Cardinality(ActiveSet) # 0
  BY Zenon, <1>1, FS_CardinalityType, FS_EmptySet
<1> QED
  BY <1>2 DEF ActiveCount

LEMMA LeaveStep ==
    ASSUME IInv, NEW s \in Senders, Undo(s) \/ DecActive(s) \/ FailDisconnected(s)
    PROVE  IInv'
<1>1. PICK l \in {"lock", "index", "idle"} : Goto(s, l)
  BY Zenon DEF Undo, StartOver, DecActive, FailDisconnected
<1>2. pc[s] \in {"undo", "dec", "fail"} /\ active' = active - 1
  BY Zenon DEF Undo, StartOver, DecActive, FailDisconnected
<1>3. UNCHANGED <<word, chan, connected, inflight, txIndex, call, arg, seen, rpc,
                  lastBank, owed, pushed>>
  BY Zenon DEF Undo, DecActive, FailDisconnected, receiverVars
<1>4. txLock' \in {txLock, NoOwner}
  BY Zenon DEF Undo, StartOver, Unlock, DecActive, FailDisconnected
<1>5. active' \in Nat
  BY <1>2, ActivePositive DEF IInv, ActivePc, TypeOK
<1>6. TypeOK'
  BY Zenon, <1>1, <1>3, <1>4, <1>5 DEF IInv, TypeOK, Goto, SenderPc
<1>7. ActiveCount'
  BY Zenon, <1>1, <1>2, ActiveSetStep DEF IInv, Goto, ActiveCount, ActivePc
<1>8. SeenAdmits'
  BY Zenon, <1>1, <1>3 DEF IInv, Goto, SeenAdmits, TypeOK
<1> QED
  BY Zenon, <1>1, <1>2, <1>3, <1>6, <1>7, <1>8, QuietStep DEF SenderPc

LEMMA ReturnIndexStep ==
    ASSUME IInv, NEW s \in Senders, ReturnIndex(s)
    PROVE  IInv'
<1>1. TypeOK'
  BY DEF IInv, TypeOK, ReturnIndex, Goto, Unlock, SenderPc, receiverVars
<1>2. ActiveCount'
  BY Zenon, UncountedStep DEF IInv, ReturnIndex, ActivePc
<1>3. SeenAdmits'
  BY Zenon DEF IInv, ReturnIndex, Goto, SeenAdmits, TypeOK
<1> QED
  BY Zenon, <1>1, <1>2, <1>3, QuietStep DEF ReturnIndex, SenderPc, receiverVars

\* Steps that leave the senders counted as active alone
LEMMA CountedStep ==
    ASSUME TypeOK, ActiveCount, NEW s \in Senders, NEW l, Goto(s, l),
           pc[s] \in ActivePc, l \in ActivePc, UNCHANGED active
    PROVE  ActiveCount'
<1>1. ActiveSet' = ActiveSet
  BY Zenon, ActiveSetStep DEF Goto
<1> QED
  BY Zenon, <1>1 DEF ActiveCount

LEMMA CompareExchangeStep ==
    ASSUME IInv, NEW s \in Senders, CompareExchange(s)
    PROVE  IInv'
<1>1. CASE word # seen[s]
  <2>1. Goto(s, "undo") /\ UNCHANGED <<word, active, chan, connected, txIndex, txLock,
            call, arg, seen, inflight, rpc, lastBank, owed, pushed>> /\ pc[s] = "cas"
    BY Zenon, <1>1 DEF CompareExchange, receiverVars
  <2>2. TypeOK'
    BY Zenon, <2>1 DEF IInv, TypeOK, Goto, SenderPc
  <2>3. ActiveCount'
    BY Zenon, <2>1, CountedStep DEF IInv, ActivePc
  <2>4. SeenAdmits'
    BY Zenon, <2>1 DEF IInv, Goto, SeenAdmits, TypeOK
  <2> QED
    BY Zenon, <2>1, <2>2, <2>3, <2>4, QuietStep DEF SenderPc
<1>2. CASE word = seen[s]
  <2> DEFINE n == arg[s].size
  <2>1. /\ pc[s] = "cas" /\ Goto(s, "push")
        /\ word' = Reserve(s) /\ inflight' = inflight \cup Batch(s)
        /\ UNCHANGED <<active, chan, connected, txIndex, txLock, call, arg, seen,
                       rpc, lastBank, owed, pushed>>
    BY Zenon, <1>2 DEF CompareExchange, receiverVars
  <2>2. n \in 1..MaxBatch /\ arg[s].bank \in 1..MaxBank /\ word \in Word
    BY Zenon DEF IInv, TypeOK
  <2>3. word.bank = arg[s].bank /\ n <= word.allowed /\ word.bank # Disabled
    BY <1>2, <2>1, <2>2 DEF IInv, SeenAdmits, Disabled
  <2>4. word'.bank = word.bank /\ word'.allowed = word.allowed - n /\ word' \in Word
    BY <2>1, <2>2, <2>3 DEF Reserve, Word
  <2>5. Batch(s) \subseteq Record
    BY <2>2 DEF Batch, Record, IInv, TypeOK
  <2>6. TypeOK'
    BY Zenon, <2>1, <2>4, <2>5 DEF IInv, TypeOK, Goto, SenderPc
  <2>7. ActiveCount'
    BY Zenon, <2>1, CountedStep DEF IInv, ActivePc
  <2>8. /\ IsFiniteSet(Batch(s)) /\ Cardinality(Batch(s)) = n
        /\ \A r \in Batch(s) : r.owner = s /\ r.bank = arg[s].bank
    BY Zenon, BatchSize DEF IInv, Batch
  <2>9. inflight \cap Batch(s) = {}
    BY Zenon, <2>1, <2>8 DEF IInv, InflightOwned
  <2>10. /\ IsFiniteSet(inflight')
         /\ Cardinality(inflight') = Cardinality(inflight) + n
         /\ Cardinality(inflight) \in Nat
    <3>1. IsFiniteSet(inflight)
      BY Zenon DEF IInv, InflightOwned
    <3>2. Cardinality({}) = 0
      BY Zenon, FS_EmptySet
    <3>3. Cardinality(inflight) \in Nat
      BY Zenon, <3>1, FS_CardinalityType
    <3>4. /\ IsFiniteSet(inflight \cup Batch(s))
          /\ Cardinality(inflight \cup Batch(s)) =
               Cardinality(inflight) + Cardinality(Batch(s)) - Cardinality(inflight \cap Batch(s))
      BY Zenon, <3>1, <2>8, FS_Union
    <3>5. Cardinality(inflight \cap Batch(s)) = 0
      BY Zenon, <2>9, <3>2
    <3>6. n \in Nat
      BY <2>2
    <3>7. Cardinality(inflight \cup Batch(s)) = Cardinality(inflight) + n
      BY <2>8, <3>3, <3>4, <3>5, <3>6
    <3> QED
      BY Zenon, <2>1, <3>3, <3>4, <3>7
  <2>11. InflightOwned'
    BY <2>1, <2>8, <2>10 DEF IInv, InflightOwned, Goto, TypeOK, Record
  <2>12. SeenAdmits'
    BY Zenon, <2>1 DEF IInv, SeenAdmits, Goto, TypeOK
  <2>13. SafeMeansDrained' /\ GoneMeansDropped'
    BY Zenon, <2>1, <2>3 DEF IInv, SafeMeansDrained, GoneMeansDropped
  <2>14. Conservation'
    <3>1. Got \in Nat /\ Got' = Got /\ Len(chan) \in Nat /\ Len(chan') = Len(chan)
      BY <2>1 DEF Got, IInv, TypeOK
    <3>2. Outstanding' = Outstanding + n /\ Outstanding \in Nat
      BY <2>2, <2>10, <3>1 DEF Outstanding
    <3> QED
      BY <2>1, <2>2, <2>3, <2>4, <3>2 DEF IInv, Conservation, Word
  <2>15. OneBankAtATime'
    BY Zenon, <2>1, <2>3, <2>4, <2>8 DEF IInv, OneBankAtATime, Queued
  <2> QED
    BY Zenon, <2>6, <2>7, <2>11, <2>12, <2>13, <2>14, <2>15 DEF IInv
<1> QED
  BY Zenon, <1>1, <1>2

LEMMA PushStep ==
    ASSUME IInv, NEW s \in Senders, Push(s)
    PROVE  IInv'
<1>1. PICK r \in inflight :
        /\ r.owner = s /\ pc[s] = "push" /\ connected
        /\ chan' = Append(chan, r) /\ inflight' = inflight \ {r}
        /\ Goto(s, IF Mine(s) = {r} THEN "dec" ELSE "push")
        /\ pushed' = pushed + 1
        /\ UNCHANGED <<word, active, connected, txIndex, txLock, call, arg, seen,
                       rpc, lastBank, owed>>
  BY Zenon DEF Push, Mine, receiverVars
<1>2. r \in Record /\ chan \in Seq(Record)
  BY Zenon DEF IInv, TypeOK
<1>3. TypeOK'
  <2>1. chan' \in Seq(Record) /\ inflight' \in SUBSET Record /\ pushed' \in Nat
    BY <1>1, <1>2 DEF IInv, TypeOK
  <2>2. pc' \in [Senders -> SenderPc]
    BY Zenon, <1>1 DEF IInv, TypeOK, Goto, SenderPc
  <2> QED
    BY Zenon, <1>1, <2>1, <2>2 DEF IInv, TypeOK
<1>4. ActiveCount'
  BY Zenon, <1>1, CountedStep DEF IInv, ActivePc
<1>5. /\ IsFiniteSet(inflight') /\ Cardinality(inflight') = Cardinality(inflight) - 1
      /\ Cardinality(inflight) \in Nat
  BY Zenon, <1>1, FS_RemoveElement, FS_CardinalityType DEF IInv, InflightOwned
<1>6. InflightOwned'
  <2>1. CASE Mine(s) = {r}
    BY Zenon, <1>1, <1>5, <2>1 DEF IInv, InflightOwned, Goto, Mine, TypeOK, Record
  <2>2. CASE Mine(s) # {r}
    BY Zenon, <1>1, <1>5, <2>2 DEF IInv, InflightOwned, Goto, TypeOK, Record
  <2> QED
    BY Zenon, <2>1, <2>2
<1>7. SeenAdmits'
  BY Zenon, <1>1 DEF IInv, SeenAdmits, Goto, TypeOK
<1>8. SafeMeansDrained' /\ GoneMeansDropped'
  BY Zenon, <1>1 DEF IInv, SafeMeansDrained, GoneMeansDropped
<1>9. Conservation'
  <2>1. Got \in Nat /\ Got' = Got /\ Len(chan) \in Nat /\ Len(chan') = Len(chan) + 1
    BY <1>1, <1>2 DEF Got
  <2>2. Outstanding' = Outstanding
    BY <1>5, <2>1 DEF Outstanding
  <2> QED
    BY Zenon, <1>1, <2>2 DEF IInv, Conservation
<1>10. OneBankAtATime'
  <2>1. Queued' = Queued \cup {r}
    BY <1>1, <1>2 DEF Queued
  <2> QED
    BY Zenon, <1>1, <2>1 DEF IInv, OneBankAtATime
<1> QED
  BY Zenon, <1>3, <1>4, <1>6, <1>7, <1>8, <1>9, <1>10 DEF IInv

LEMMA PushDisconnectedStep ==
    ASSUME IInv, NEW s \in Senders, PushDisconnected(s)
    PROVE  IInv'
<1>1. /\ pc[s] = "push" /\ ~connected /\ inflight' = inflight \ Mine(s) /\ Goto(s, "fail")
      /\ UNCHANGED <<word, active, chan, connected, txIndex, txLock, call, arg, seen,
                     rpc, lastBank, owed, pushed>>
  BY Zenon DEF PushDisconnected, receiverVars
<1>2. TypeOK'
  BY Zenon, <1>1 DEF IInv, TypeOK, Goto, SenderPc
<1>3. ActiveCount'
  BY Zenon, <1>1, CountedStep DEF IInv, ActivePc
<1>4. InflightOwned'
  <2>1. IsFiniteSet(inflight')
    BY Zenon, <1>1, FS_Difference DEF IInv, InflightOwned
  <2> QED
    BY Zenon, <1>1, <2>1 DEF IInv, InflightOwned, Goto, Mine, TypeOK, Record
<1>5. SeenAdmits'
  BY Zenon, <1>1 DEF IInv, SeenAdmits, Goto, TypeOK
<1>6. SafeMeansDrained' /\ GoneMeansDropped' /\ Conservation' /\ OneBankAtATime'
  BY Zenon, <1>1 DEF IInv, SafeMeansDrained, GoneMeansDropped, Conservation, OneBankAtATime
<1> QED
  BY Zenon, <1>2, <1>3, <1>4, <1>5, <1>6 DEF IInv

LEMMA SenderPreserves ==
    ASSUME IInv, NEW s \in Senders, Call(s) \/ SenderStep(s)
    PROVE  IInv'
  BY Zenon, CallStep, LockStep, LoadStep, IncActiveStep, CompareExchangeStep, LeaveStep,
     PushStep, PushDisconnectedStep, ReturnIndexStep DEF SenderStep

-----------------------------------------------------------------------------
(* Every receiver step preserves the invariant *)

\* What the receiver's steps leave alone
LEMMA ReceiverFrame ==
    ASSUME IInv, UNCHANGED <<senderVars, active, inflight>>
    PROVE  ActiveCount' /\ InflightOwned' /\ SeenAdmits'
  BY Zenon DEF IInv, senderVars, ActiveCount, ActiveSet, InflightOwned, SeenAdmits

LEMMA TakeStep ==
    ASSUME IInv, Take, rpc \in {"idle", "empty", "safe", "try", "retry"}
    PROVE  IInv'
<1>1. /\ chan # <<>> /\ chan' = Tail(chan) /\ rpc' = "got"
      /\ UNCHANGED <<word, active, connected, txIndex, txLock, inflight, pushed,
                     pc, call, arg, seen, lastBank, owed>>
  BY Zenon DEF Take, senderVars
<1>2. chan \in Seq(Record) /\ chan' \in Seq(Record) /\ Len(chan) >= 1
      /\ Len(chan) \in Nat /\ Len(chan') = Len(chan) - 1
  BY <1>1 DEF IInv, TypeOK
<1>3. TypeOK'
  BY Zenon, <1>1, <1>2 DEF IInv, TypeOK, ReceiverPc
<1>4. ActiveCount' /\ InflightOwned' /\ SeenAdmits'
  BY Zenon, <1>1, ReceiverFrame DEF senderVars
<1>5. SafeMeansDrained' /\ GoneMeansDropped'
  BY Zenon, <1>1 DEF IInv, SafeMeansDrained, GoneMeansDropped
<1>6. Conservation'
  <2>1. Got = 0 /\ Got' = 1
    BY Zenon, <1>1 DEF Got
  <2>2. Cardinality(inflight) \in Nat /\ inflight' = inflight
    BY Zenon, <1>1, FS_CardinalityType DEF IInv, InflightOwned
  <2>3. Outstanding' = Outstanding
    BY <1>2, <2>1, <2>2 DEF Outstanding
  <2> QED
    BY Zenon, <1>1, <2>3 DEF IInv, Conservation
<1>7. OneBankAtATime'
  <2>1. Queued' \subseteq Queued
    BY <1>1, <1>2 DEF Queued
  <2> QED
    BY Zenon, <1>1, <2>1 DEF IInv, OneBankAtATime
<1> QED
  BY Zenon, <1>3, <1>4, <1>5, <1>6, <1>7 DEF IInv

\* Steps that only move the receiver, outside the restart sequence
LEMMA MoveStep ==
    ASSUME IInv, rpc \in {"idle", "empty", "safe", "try", "active", "retry", "isEmpty"},
           rpc' \in {"idle", "empty", "try", "active", "retry"},
           UNCHANGED <<channelVars, senderVars, lastBank>>, owed' \in {owed, inflight}
    PROVE  IInv'
<1>1. TypeOK'
  BY Zenon DEF IInv, TypeOK, channelVars, senderVars, ReceiverPc
<1>2. ActiveCount' /\ InflightOwned' /\ SeenAdmits'
  BY Zenon, ReceiverFrame DEF channelVars
<1>3. SafeMeansDrained' /\ GoneMeansDropped'
  BY Zenon DEF IInv, SafeMeansDrained, GoneMeansDropped, channelVars
<1>4. Conservation' /\ OneBankAtATime'
  <2>1. Got' = Got
    BY Zenon DEF Got
  <2> QED
    BY Zenon, <2>1 DEF IInv, Conservation, Outstanding, OneBankAtATime, Queued, channelVars
<1> QED
  BY Zenon, <1>1, <1>2, <1>3, <1>4 DEF IInv

LEMMA OnReceivedRecordStep ==
    ASSUME IInv, OnReceivedRecord
    PROVE  IInv'
<1>1. /\ rpc = "got" /\ rpc' = "idle"
      /\ UNCHANGED <<active, chan, connected, txIndex, txLock, inflight, pushed,
                     pc, call, arg, seen, lastBank, owed>>
  BY Zenon DEF OnReceivedRecord, senderVars
<1>2. connected
  BY Zenon, <1>1 DEF IInv, GoneMeansDropped
<1>3. Cardinality(inflight) \in Nat /\ Len(chan) \in Nat /\ word.allowed \in Nat /\ word \in Word
  BY FS_CardinalityType DEF IInv, InflightOwned, TypeOK, Word
<1>4. Outstanding' = Outstanding - 1 /\ Outstanding \in Nat /\ Outstanding >= 1
  BY <1>1, <1>3 DEF Outstanding, Got
<1>5. word.allowed < Capacity
  BY <1>2, <1>3, <1>4 DEF IInv, Conservation
<1>6. word' = [word EXCEPT !.allowed = @ + 1]
  BY Zenon, <1>5 DEF OnReceivedRecord
<1>7. word'.bank = word.bank /\ word'.allowed = word.allowed + 1 /\ word' \in Word
  BY <1>3, <1>5, <1>6 DEF Word
<1>8. TypeOK'
  BY Zenon, <1>1, <1>7 DEF IInv, TypeOK, ReceiverPc
<1>9. ActiveCount' /\ InflightOwned' /\ SeenAdmits'
  BY Zenon, <1>1, ReceiverFrame DEF senderVars
<1>10. SafeMeansDrained' /\ GoneMeansDropped'
  BY Zenon, <1>1 DEF IInv, SafeMeansDrained, GoneMeansDropped
<1>11. Conservation'
  BY <1>1, <1>3, <1>4, <1>7 DEF IInv, Conservation
<1>12. OneBankAtATime'
  BY Zenon, <1>1, <1>7 DEF IInv, OneBankAtATime, Queued
<1> QED
  BY Zenon, <1>8, <1>9, <1>10, <1>11, <1>12 DEF IInv

LEMMA ShutdownStep ==
    ASSUME IInv, Shutdown
    PROVE  IInv'
<1>1. /\ rpc \in {"idle", "empty", "safe"} /\ rpc' = "idle" /\ word' = SHUTDOWN
      /\ UNCHANGED <<active, chan, connected, txIndex, txLock, inflight, pushed,
                     pc, call, arg, seen, lastBank, owed>>
  BY Zenon DEF Shutdown, BetweenCalls, senderVars
<1>2. SHUTDOWN \in Word /\ SHUTDOWN.bank = Disabled /\ SHUTDOWN.allowed = 0
  BY DEF SHUTDOWN, Word, Disabled
<1>3. TypeOK'
  BY Zenon, <1>1, <1>2 DEF IInv, TypeOK, ReceiverPc
<1>4. ActiveCount' /\ InflightOwned' /\ SeenAdmits'
  BY Zenon, <1>1, ReceiverFrame DEF senderVars
<1>5. SafeMeansDrained' /\ GoneMeansDropped'
  BY Zenon, <1>1 DEF IInv, SafeMeansDrained, GoneMeansDropped
<1>6. Conservation'
  <2>1. Cardinality(inflight) \in Nat /\ Len(chan) \in Nat /\ word.allowed \in Nat
    BY FS_CardinalityType DEF IInv, InflightOwned, TypeOK, Word
  <2>2. Outstanding' = Outstanding /\ Outstanding \in Nat
    BY <1>1, <2>1 DEF Outstanding, Got
  <2> QED
    BY <1>1, <1>2, <2>1, <2>2 DEF IInv, Conservation
<1>7. OneBankAtATime'
  BY Zenon, <1>1, <1>2 DEF OneBankAtATime
<1> QED
  BY Zenon, <1>3, <1>4, <1>5, <1>6, <1>7 DEF IInv

LEMMA AskSafeStep ==
    ASSUME IInv, AskSafe
    PROVE  IInv'
<1>1. /\ rpc \in {"idle", "empty", "safe"} /\ rpc' = "isEmpty" /\ word.bank = Disabled /\ active = 0
      /\ UNCHANGED <<word, active, chan, connected, txIndex, txLock, inflight, pushed,
                     pc, call, arg, seen, lastBank, owed>>
  BY Zenon DEF AskSafe, SafeLoadActive, BetweenCalls, NoSenderActive, channelVars, senderVars
<1>2. inflight = {}
  <2>1. ASSUME NEW r \in inflight PROVE FALSE
    <3>1. r.owner \in Senders /\ pc[r.owner] \in ActivePc
      BY Zenon DEF IInv, InflightOwned, TypeOK, Record, ActivePc
    <3> QED
      BY <1>1, <3>1, ActivePositive DEF IInv
  <2> QED
    BY Zenon, <2>1
<1>3. TypeOK'
  BY Zenon, <1>1 DEF IInv, TypeOK, ReceiverPc
<1>4. ActiveCount' /\ InflightOwned' /\ SeenAdmits'
  BY Zenon, <1>1, ReceiverFrame DEF senderVars
<1>5. SafeMeansDrained' /\ GoneMeansDropped'
  BY Zenon, <1>1, <1>2 DEF IInv, SafeMeansDrained, GoneMeansDropped
<1>6. Conservation' /\ OneBankAtATime'
  BY Zenon, <1>1 DEF IInv, Conservation, Outstanding, Got, OneBankAtATime, Queued
<1> QED
  BY Zenon, <1>3, <1>4, <1>5, <1>6 DEF IInv

LEMMA SafeIsEmptyStep ==
    ASSUME IInv, SafeIsEmpty
    PROVE  IInv'
<1>1. CASE chan # <<>>
  BY Zenon, <1>1, MoveStep DEF SafeIsEmpty
<1>2. CASE chan = <<>>
  <2>1. /\ rpc = "isEmpty" /\ rpc' = "safe"
        /\ UNCHANGED <<word, active, chan, connected, txIndex, txLock, inflight, pushed,
                       pc, call, arg, seen, lastBank, owed>>
    BY Zenon, <1>2 DEF SafeIsEmpty, channelVars, senderVars
  <2>2. TypeOK'
    BY Zenon, <2>1 DEF IInv, TypeOK, ReceiverPc
  <2>3. ActiveCount' /\ InflightOwned' /\ SeenAdmits'
    BY Zenon, <2>1, ReceiverFrame DEF senderVars
  <2>4. SafeMeansDrained' /\ GoneMeansDropped'
    BY Zenon, <1>2, <2>1 DEF IInv, SafeMeansDrained, GoneMeansDropped
  <2>5. Conservation' /\ OneBankAtATime'
    BY Zenon, <2>1 DEF IInv, Conservation, Outstanding, Got, OneBankAtATime, Queued
  <2> QED
    BY Zenon, <2>2, <2>3, <2>4, <2>5 DEF IInv
<1> QED
  BY Zenon, <1>1, <1>2

LEMMA RestartLockStep ==
    ASSUME IInv, RestartLock
    PROVE  IInv'
<1>1. /\ rpc = "safe" /\ rpc' = "restart" /\ txIndex' = 0 /\ lastBank' \in lastBank + 1..MaxBank
      /\ txLock' \in {txLock, Receiver}
      /\ UNCHANGED <<word, active, chan, connected, inflight, pushed,
                     pc, call, arg, seen, owed>>
  BY Zenon DEF RestartLock, ResetIndex, senderVars
<1>2. TypeOK'
  <2>1. txLock' \in Senders \cup {Receiver, NoOwner} /\ lastBank' \in 0..MaxBank
    BY <1>1, ChannelAssumption DEF IInv, TypeOK
  <2> QED
    BY Zenon, <1>1, <2>1 DEF IInv, TypeOK, ReceiverPc
<1>3. ActiveCount' /\ InflightOwned' /\ SeenAdmits'
  BY Zenon, <1>1, ReceiverFrame DEF senderVars
<1>4. SafeMeansDrained' /\ GoneMeansDropped'
  BY Zenon, <1>1 DEF IInv, SafeMeansDrained, GoneMeansDropped
<1>5. Conservation' /\ OneBankAtATime'
  BY Zenon, <1>1 DEF IInv, Conservation, Outstanding, Got, OneBankAtATime, Queued
<1> QED
  BY Zenon, <1>2, <1>3, <1>4, <1>5 DEF IInv

LEMMA RestartStoreStep ==
    ASSUME IInv, RestartStore
    PROVE  IInv'
<1>1. /\ rpc = "restart" /\ rpc' = "idle" /\ pushed' = 0
      /\ word' = [bank |-> lastBank, allowed |-> Capacity]
      /\ txLock' \in {txLock, NoOwner}
      /\ UNCHANGED <<active, chan, connected, txIndex, inflight, lastBank,
                     pc, call, arg, seen, owed>>
  BY Zenon DEF RestartStore, RestartWord, senderVars
<1>2. inflight = {} /\ chan = <<>>
  BY Zenon, <1>1 DEF IInv, SafeMeansDrained
<1>3. TypeOK'
  <2>1. txLock' \in Senders \cup {Receiver, NoOwner} /\ lastBank \in 0..MaxBank
    BY Zenon, <1>1 DEF IInv, TypeOK
  <2>2. word' \in Word
    BY <1>1, <2>1 DEF Word, Disabled
  <2> QED
    BY Zenon, <1>1, <2>1, <2>2 DEF IInv, TypeOK, ReceiverPc
<1>4. ActiveCount' /\ InflightOwned' /\ SeenAdmits'
  BY Zenon, <1>1, ReceiverFrame DEF senderVars
<1>5. SafeMeansDrained' /\ GoneMeansDropped'
  BY Zenon, <1>1 DEF IInv, SafeMeansDrained, GoneMeansDropped
<1>6. Outstanding' = 0 /\ Queued' = {}
  BY <1>1, <1>2, FS_EmptySet DEF Outstanding, Got, Queued
<1>7. Conservation' /\ OneBankAtATime'
  BY <1>1, <1>2, <1>6 DEF Conservation, OneBankAtATime
<1> QED
  BY Zenon, <1>3, <1>4, <1>5, <1>7 DEF IInv

LEMMA DropReceiverStep ==
    ASSUME IInv, DropReceiver
    PROVE  IInv'
<1>1. /\ connected' = FALSE /\ chan' = <<>> /\ rpc' = "gone"
      /\ UNCHANGED <<word, active, txIndex, txLock, inflight, pushed,
                     pc, call, arg, seen, lastBank, owed>>
  BY Zenon DEF DropReceiver, senderVars
<1>2. TypeOK'
  <2>1. chan' \in Seq(Record)
    BY <1>1
  <2>2. connected' \in BOOLEAN /\ rpc' \in ReceiverPc
    BY Zenon, <1>1 DEF ReceiverPc
  <2> QED
    BY Zenon, <1>1, <2>1, <2>2 DEF IInv, TypeOK
<1>3. ActiveCount' /\ InflightOwned' /\ SeenAdmits'
  BY Zenon, <1>1, ReceiverFrame DEF senderVars
<1>4. SafeMeansDrained' /\ GoneMeansDropped' /\ Conservation' /\ OneBankAtATime'
  BY Zenon, <1>1 DEF SafeMeansDrained, GoneMeansDropped, Conservation, OneBankAtATime
<1> QED
  BY Zenon, <1>2, <1>3, <1>4 DEF IInv

LEMMA ReceiverPreserves ==
    ASSUME IInv, ReceiverStep \/ Shutdown \/ DropReceiver
    PROVE  IInv'
<1>1. CASE TryRecv
  BY Zenon, <1>1, TakeStep, MoveStep DEF TryRecv, TryRecvEmpty, BetweenCalls
<1>2. CASE LoadActive
  BY Zenon, <1>2, MoveStep DEF LoadActive, AfterActive
<1>3. CASE Retry
  BY Zenon, <1>3, TakeStep, MoveStep DEF Retry
<1> QED
  BY Zenon, <1>1, <1>2, <1>3, OnReceivedRecordStep, AskSafeStep, SafeIsEmptyStep,
     RestartLockStep, RestartStoreStep, ShutdownStep, DropReceiverStep DEF ReceiverStep

-----------------------------------------------------------------------------
(* The invariant *)

LEMMA InitIInv == Init => IInv
<1> SUFFICES ASSUME Init PROVE IInv
  BY Zenon
<1>1. TypeOK
  BY DEF Init, TypeOK, SHUTDOWN, Word, Disabled, SenderPc, ReceiverPc
<1>2. ActiveCount
  <2>1. ActiveSet = {}
    BY Zenon DEF Init, ActiveSet, ActivePc
  <2> QED
    BY Zenon, <2>1, FS_EmptySet DEF Init, ActiveCount
<1>3. InflightOwned /\ SeenAdmits /\ SafeMeansDrained /\ GoneMeansDropped
  BY Zenon, FS_EmptySet DEF Init, InflightOwned, SeenAdmits, SafeMeansDrained, GoneMeansDropped
<1>4. Conservation /\ OneBankAtATime
  BY FS_EmptySet DEF Init, SHUTDOWN, Conservation, Outstanding, Got, OneBankAtATime
<1> QED
  BY Zenon, <1>1, <1>2, <1>3, <1>4 DEF IInv

LEMMA NextIInv == IInv /\ [Next]_vars => IInv'
<1> SUFFICES ASSUME IInv, [Next]_vars PROVE IInv'
  BY Zenon
<1>1. CASE Next
  BY Zenon, <1>1, SenderPreserves, ReceiverPreserves DEF Next
<1>2. CASE UNCHANGED vars
  BY <1>2 DEF vars, senderVars, receiverVars, IInv, TypeOK, ActiveCount, ActiveSet,
     InflightOwned, SeenAdmits, SafeMeansDrained, GoneMeansDropped, Conservation,
     Outstanding, Got, OneBankAtATime, Queued
<1> QED
  BY Zenon, <1>1, <1>2

LEMMA AlwaysIInv == Spec => []IInv
  BY InitIInv, NextIInv, PTL DEF Spec

-----------------------------------------------------------------------------
(* What try_recv may miss *)

\* The records in flight belong to the current calls of their senders.
InflightCall == \A r \in inflight : r.call = call[r.owner]

\* A record that was in flight when try_recv began is never reserved again: its
\* call is over, or past the compare-exchange.
OwedOld ==
    \A r \in owed :
        /\ r.call <= call[r.owner]
        /\ r.call = call[r.owner] =>
               pc[r.owner] \in {"push", "dec", "index", "fail", "idle"}

\* Once no sender was active, what was in flight is queued; once the channel was
\* empty after that, it is received.
OwedDone ==
    /\ rpc \in {"retry", "empty"} => owed \cap inflight = {}
    /\ rpc = "empty" => owed \cap Queued = {}

HInv == InflightCall /\ OwedOld /\ OwedDone

\* Steps of a sender that do not touch the records
LEMMA QuietH ==
    ASSUME IInv, HInv, NEW s \in Senders, NEW l, Goto(s, l), pc[s] # "push",
           pc[s] \in {"dec", "index", "fail", "idle"} => l \in {"index", "idle"},
           UNCHANGED <<chan, inflight, call, rpc, owed>>
    PROVE  HInv'
<1>1. \A t \in Senders : pc'[t] = IF t = s THEN l ELSE pc[t]
  BY Zenon DEF IInv, TypeOK, Goto
<1>2. \A r \in owed : r.owner \in Senders
  BY Zenon DEF IInv, TypeOK, Record
<1>3. InflightCall' /\ OwedDone'
  BY Zenon DEF HInv, InflightCall, OwedDone, Queued
<1>4. OwedOld'
  BY Zenon, <1>1, <1>2 DEF HInv, OwedOld
<1> QED
  BY Zenon, <1>3, <1>4 DEF HInv

LEMMA SenderH ==
    ASSUME IInv, HInv, NEW s \in Senders, Call(s) \/ SenderStep(s)
    PROVE  HInv'
<1>0. \A r \in inflight \cup owed : r \in Record /\ r.owner \in Senders /\ r.call \in Nat
  BY Zenon DEF IInv, TypeOK, Record
<1>1. CASE Call(s)
  <2>1. /\ pc[s] = "idle" /\ Goto(s, "lock") /\ call' = [call EXCEPT ![s] = @ + 1]
        /\ UNCHANGED <<chan, inflight, rpc, owed>>
    BY Zenon, <1>1 DEF Call, receiverVars
  <2>2. /\ \A t \in Senders : pc'[t] = IF t = s THEN "lock" ELSE pc[t]
        /\ \A t \in Senders : call'[t] = IF t = s THEN call[t] + 1 ELSE call[t]
        /\ \A t \in Senders : call[t] \in Nat
    BY Zenon, <2>1 DEF IInv, TypeOK, Goto
  <2>3. InflightCall'
    BY Zenon, <1>0, <2>1, <2>2 DEF IInv, InflightOwned, HInv, InflightCall
  <2>4. OwedOld'
    <3> SUFFICES ASSUME NEW r \in owed
                 PROVE  /\ r.call <= call'[r.owner]
                        /\ r.call = call'[r.owner] =>
                               pc'[r.owner] \in {"push", "dec", "index", "fail", "idle"}
      BY Zenon, <2>1 DEF OwedOld
    <3>1. /\ r.call <= call[r.owner]
          /\ r.call = call[r.owner] => pc[r.owner] \in {"push", "dec", "index", "fail", "idle"}
      BY Zenon DEF HInv, OwedOld
    <3>2. CASE r.owner = s
      BY <1>0, <2>2, <3>1, <3>2
    <3>3. CASE r.owner # s
      BY Zenon, <1>0, <2>2, <3>1, <3>3
    <3> QED
      BY Zenon, <3>2, <3>3
  <2>5. OwedDone'
    BY Zenon, <2>1 DEF HInv, OwedDone, Queued
  <2> QED
    BY Zenon, <2>3, <2>4, <2>5 DEF HInv
<1>2. CASE Lock(s) \/ Load(s) \/ IncActive(s) \/ Undo(s)
  <2>1. PICK l : Goto(s, l)
    BY Zenon, <1>2 DEF Lock, Load, IncActive, Undo, StartOver
  <2> QED
    BY Zenon, <1>2, <2>1, QuietH DEF Lock, Load, IncActive, Undo, receiverVars
<1>3. CASE DecActive(s) \/ FailDisconnected(s) \/ ReturnIndex(s)
  <2>1. PICK l \in {"index", "idle"} : Goto(s, l)
    BY Zenon, <1>3 DEF DecActive, FailDisconnected, ReturnIndex
  <2> QED
    BY Zenon, <1>3, <2>1, QuietH DEF DecActive, FailDisconnected, ReturnIndex, receiverVars
<1>4. CASE CompareExchange(s) /\ word # seen[s]
  BY Zenon, <1>4, QuietH DEF CompareExchange, receiverVars
<1>5. CASE CompareExchange(s) /\ word = seen[s]
  <2>1. /\ pc[s] = "cas" /\ Goto(s, "push") /\ inflight' = inflight \cup Batch(s)
        /\ UNCHANGED <<chan, call, rpc, owed>>
    BY Zenon, <1>5 DEF CompareExchange, receiverVars
  <2>2. \A t \in Senders : pc'[t] = IF t = s THEN "push" ELSE pc[t]
    BY Zenon, <2>1 DEF IInv, TypeOK, Goto
  <2>3. \A r \in Batch(s) : r.owner = s /\ r.call = call[s]
    BY Zenon DEF Batch
  <2>4. InflightCall'
    BY Zenon, <2>1, <2>3 DEF HInv, InflightCall
  <2>5. OwedOld'
    BY Zenon, <1>0, <2>1, <2>2 DEF HInv, OwedOld
  <2>6. owed \cap Batch(s) = {}
    BY Zenon, <2>1, <2>3 DEF HInv, OwedOld
  <2>7. OwedDone'
    BY Zenon, <2>1, <2>6 DEF HInv, OwedDone, Queued
  <2> QED
    BY Zenon, <2>4, <2>5, <2>7 DEF HInv
<1>6. CASE Push(s)
  <2>1. PICK r \in inflight :
          /\ pc[s] = "push" /\ chan' = Append(chan, r) /\ inflight' = inflight \ {r}
          /\ Goto(s, IF Mine(s) = {r} THEN "dec" ELSE "push")
          /\ UNCHANGED <<call, rpc, owed>>
    BY Zenon, <1>6 DEF Push, Mine, receiverVars
  <2>2. Queued' = Queued \cup {r}
    <3>1. r \in Record /\ chan \in Seq(Record)
      BY Zenon DEF IInv, TypeOK
    <3> QED
      BY <2>1, <3>1 DEF Queued
  <2>3. \A t \in Senders : t # s => pc'[t] = pc[t]
    BY Zenon, <2>1 DEF IInv, TypeOK, Goto
  <2>4. pc'[s] \in {"push", "dec"}
    BY Zenon, <2>1 DEF IInv, TypeOK, Goto
  <2>5. InflightCall'
    BY Zenon, <2>1 DEF HInv, InflightCall
  <2>6. OwedOld'
    BY Zenon, <1>0, <2>1, <2>3, <2>4 DEF HInv, OwedOld
  <2>7. OwedDone'
    BY Zenon, <2>1, <2>2 DEF HInv, OwedDone
  <2> QED
    BY Zenon, <2>5, <2>6, <2>7 DEF HInv
<1>7. CASE PushDisconnected(s)
  <2>1. /\ inflight' = inflight \ Mine(s) /\ Goto(s, "fail")
        /\ UNCHANGED <<chan, call, rpc, owed>>
    BY Zenon, <1>7 DEF PushDisconnected, receiverVars
  <2>2. \A t \in Senders : pc'[t] = IF t = s THEN "fail" ELSE pc[t]
    BY Zenon, <2>1 DEF IInv, TypeOK, Goto
  <2>3. InflightCall' /\ OwedDone'
    BY Zenon, <2>1 DEF HInv, InflightCall, OwedDone, Queued
  <2>4. OwedOld'
    BY Zenon, <1>0, <2>1, <2>2 DEF HInv, OwedOld
  <2> QED
    BY Zenon, <2>3, <2>4 DEF HInv
<1> QED
  BY Zenon, <1>1, <1>2, <1>3, <1>4, <1>5, <1>6, <1>7 DEF SenderStep

\* Without an active sender nothing is in flight.
LEMMA NobodyActive ==
    ASSUME IInv, active = 0
    PROVE  inflight = {}
<1>1. ASSUME NEW r \in inflight PROVE FALSE
  <2>1. r.owner \in Senders /\ pc[r.owner] \in ActivePc
    BY Zenon DEF IInv, InflightOwned, TypeOK, Record, ActivePc
  <2> QED
    BY <2>1, ActivePositive DEF IInv
<1> QED
  BY Zenon, <1>1

LEMMA ReceiverH ==
    ASSUME IInv, HInv, ReceiverStep \/ Shutdown \/ DropReceiver
    PROVE  HInv'
<1>1. UNCHANGED <<pc, call, inflight>>
  BY Zenon DEF ReceiverStep, TryRecv, Take, TryRecvEmpty, LoadActive, Retry, OnReceivedRecord,
         AskSafe, SafeLoadActive, SafeIsEmpty, RestartLock, RestartStore, Shutdown, DropReceiver,
         channelVars, senderVars
<1>2. InflightCall'
  BY Zenon, <1>1 DEF HInv, InflightCall
<1>3. CASE owed' = owed /\ rpc' \notin {"retry", "empty"}
  BY Zenon, <1>1, <1>2, <1>3 DEF HInv, OwedOld, OwedDone
<1>4. CASE rpc \in BetweenCalls /\ TryRecvEmpty /\ owed' = inflight
  <2>1. rpc' = "active"
    BY Zenon, <1>4 DEF TryRecvEmpty
  <2>2. \A r \in inflight : r.call \in Nat /\ r.call = call[r.owner] /\ pc[r.owner] = "push"
    BY Zenon DEF IInv, TypeOK, Record, InflightOwned, HInv, InflightCall
  <2> QED
    BY <1>1, <1>2, <1>4, <2>1, <2>2 DEF HInv, OwedOld, OwedDone
<1>5. CASE LoadActive
  <2>1. owed' = owed /\ rpc' = AfterActive /\ UNCHANGED chan
    BY Zenon, <1>5 DEF LoadActive, channelVars
  <2>2. active = 0 => inflight = {}
    BY Zenon, NobodyActive
  <2>3. OwedDone'
    BY Zenon, <1>1, <2>1, <2>2 DEF OwedDone, AfterActive
  <2> QED
    BY Zenon, <1>1, <1>2, <2>1, <2>3 DEF HInv, OwedOld
<1>6. CASE Retry /\ rpc' = "empty"
  <2>1. rpc = "retry" /\ owed' = owed /\ chan' = <<>>
    BY Zenon, <1>6 DEF Retry, Take, channelVars
  <2>2. Queued' = {}
    BY <2>1 DEF Queued
  <2> QED
    BY Zenon, <1>1, <1>2, <1>6, <2>1, <2>2 DEF HInv, OwedOld, OwedDone
<1> QED
  BY Zenon, <1>3, <1>4, <1>5, <1>6
     DEF ReceiverStep, TryRecv, Take, TryRecvEmpty, Retry, OnReceivedRecord,
         AskSafe, SafeLoadActive, SafeIsEmpty, RestartLock, RestartStore, Shutdown, DropReceiver

LEMMA AlwaysHInv == Spec => []HInv
<1>1. Init => HInv
  BY Zenon DEF Init, HInv, InflightCall, OwedOld, OwedDone
<1>2. IInv /\ HInv /\ [Next]_vars => HInv'
  <2> SUFFICES ASSUME IInv, HInv, [Next]_vars PROVE HInv'
    BY Zenon
  <2>1. CASE Next
    BY Zenon, <2>1, SenderH, ReceiverH DEF Next
  <2>2. CASE UNCHANGED vars
    <3>1. InflightCall'
      BY Zenon, <2>2 DEF vars, senderVars, HInv, InflightCall
    <3>2. OwedOld'
      BY Zenon, <2>2 DEF vars, senderVars, receiverVars, HInv, OwedOld
    <3>3. OwedDone'
      BY Zenon, <2>2 DEF vars, senderVars, receiverVars, HInv, OwedDone, Queued
    <3> QED
      BY Zenon, <3>1, <3>2, <3>3 DEF HInv
  <2> QED
    BY Zenon, <2>1, <2>2
<1> QED
  BY <1>1, <1>2, AlwaysIInv, PTL DEF Spec

-----------------------------------------------------------------------------
(* The index and the position in the channel *)

HoldsPc == {"load", "inc", "cas", "undo", "push", "dec", "fail", "index"}

LockHolder ==
    TrackIndexes =>
        /\ \A s \in Senders : txLock = s <=> pc[s] \in HoldsPc
        /\ txLock = Receiver <=> rpc = "restart"

\* What the sender that holds the mutex has yet to add to the index
Due(s) == IF pc[s] \in {"push", "dec", "index"} THEN arg[s].size ELSE 0

Position ==
    TrackIndexes /\ connected =>
        /\ txLock = NoOwner => txIndex = pushed
        /\ \A s \in Senders : txLock = s => txIndex + Due(s) = pushed + Cardinality(Mine(s))
        /\ txLock = Receiver => txIndex = 0

PInv == LockHolder /\ Position

\* The sender that holds the mutex is the only one past its lock.
LEMMA OnlyHolder ==
    ASSUME PInv, TrackIndexes, NEW s \in Senders, pc[s] \in HoldsPc
    PROVE  /\ txLock = s /\ rpc # "restart" /\ s # NoOwner /\ s # Receiver
           /\ \A t \in Senders \ {s} : pc[t] \notin HoldsPc
  BY Zenon DEF PInv, LockHolder

\* A sender that is not pushing has no reserved records.
LEMMA NoneMine ==
    ASSUME IInv, NEW s \in Senders, pc[s] # "push"
    PROVE  Mine(s) = {} /\ Cardinality(Mine(s)) = 0
<1>1. Mine(s) = {}
  BY Zenon DEF IInv, InflightOwned, Mine
<1> QED
  BY Zenon, <1>1, FS_EmptySet

\* A step of the sender that holds the mutex and keeps it.
LEMMA KeepsLock ==
    ASSUME IInv, PInv, NEW s \in Senders, NEW l \in HoldsPc, Goto(s, l),
           pc[s] \in HoldsPc, UNCHANGED <<txLock, txIndex, rpc>>,
           connected' => connected,
           TrackIndexes /\ connected => txIndex + Due(s)' = pushed' + Cardinality(Mine(s)')
    PROVE  PInv'
<1>0. \A t \in Senders : pc'[t] = IF t = s THEN l ELSE pc[t]
  BY Zenon DEF IInv, TypeOK, Goto
<1> SUFFICES ASSUME TrackIndexes PROVE PInv'
  BY Zenon DEF PInv, LockHolder, Position
<1>1. /\ txLock = s /\ rpc # "restart" /\ s # NoOwner /\ s # Receiver
      /\ \A t \in Senders \ {s} : pc[t] \notin HoldsPc
  BY Zenon, OnlyHolder
<1>2. LockHolder'
  BY Zenon, <1>0, <1>1 DEF LockHolder
<1>3. Position'
  BY Zenon, <1>1 DEF Position
<1> QED
  BY Zenon, <1>2, <1>3 DEF PInv

\* A step of the sender that holds the mutex and releases it.
LEMMA ReleasesLock ==
    ASSUME IInv, PInv, NEW s \in Senders, NEW l \in {"idle", "lock"}, Goto(s, l),
           pc[s] \in HoldsPc, Unlock, UNCHANGED rpc,
           connected' => connected,
           TrackIndexes /\ connected => txIndex' = pushed'
    PROVE  PInv'
<1>0. \A t \in Senders : pc'[t] = IF t = s THEN l ELSE pc[t]
  BY Zenon DEF IInv, TypeOK, Goto
<1> SUFFICES ASSUME TrackIndexes PROVE PInv'
  BY Zenon DEF PInv, LockHolder, Position
<1>1. /\ txLock = s /\ rpc # "restart" /\ s # NoOwner /\ s # Receiver
      /\ \A t \in Senders \ {s} : pc[t] \notin HoldsPc
  BY Zenon, OnlyHolder
<1>2. txLock' = NoOwner /\ NoOwner \notin Senders /\ NoOwner # Receiver
  BY Zenon, ChannelAssumption DEF Unlock, NoOwner, Receiver
<1>3. LockHolder'
  BY Zenon, <1>0, <1>1, <1>2 DEF LockHolder, HoldsPc
<1>4. Position'
  BY Zenon, <1>2 DEF Position
<1> QED
  BY Zenon, <1>3, <1>4 DEF PInv

LEMMA GotoPc ==
    ASSUME IInv, NEW s \in Senders, NEW l, Goto(s, l)
    PROVE  pc'[s] = l /\ \A t \in Senders : t # s => pc'[t] = pc[t]
  BY Zenon DEF IInv, TypeOK, Goto

LEMMA SenderP ==
    ASSUME IInv, PInv, NEW s \in Senders, Call(s) \/ SenderStep(s)
    PROVE  PInv'
<1>0. txIndex \in Nat /\ pushed \in Nat /\ arg[s].size \in Nat
  BY DEF IInv, TypeOK
<1>p. TrackIndexes /\ connected /\ pc[s] \in HoldsPc =>
          txIndex + Due(s) = pushed + Cardinality(Mine(s))
  BY Zenon, OnlyHolder DEF PInv, Position
<1>m. pc[s] # "push" => Mine(s) = {} /\ Cardinality(Mine(s)) = 0
  BY Zenon, NoneMine
<1>1. CASE Call(s)
  <2>1. /\ pc[s] = "idle" /\ Goto(s, "lock") /\ \A t \in Senders : t # s => arg'[t] = arg[t]
        /\ UNCHANGED <<txLock, txIndex, connected, rpc, pushed, inflight>>
    BY Zenon, <1>1 DEF Call, receiverVars, IInv, TypeOK
  <2>g. pc'[s] = "lock" /\ \A t \in Senders : t # s => pc'[t] = pc[t]
    BY Zenon, <2>1, GotoPc
  <2>h. \A t \in Senders : pc'[t] \in HoldsPc <=> pc[t] \in HoldsPc
    BY <2>1, <2>g, Zenon DEF HoldsPc
  <2>2. LockHolder'
    BY Zenon, <2>1, <2>h DEF PInv, LockHolder
  <2>3. TrackIndexes => txLock # s
    BY Zenon, <2>1 DEF PInv, LockHolder, HoldsPc
  <2>5. \A t \in Senders : t # s => Due(t)' = Due(t) /\ Mine(t)' = Mine(t)
    BY <2>1, <2>g, Zenon DEF Due, Mine
  <2>4. Position'
    BY Zenon, <2>1, <2>3, <2>5 DEF PInv, Position
  <2> QED
    BY Zenon, <2>2, <2>4 DEF PInv
<1>2. CASE Lock(s)
  <2>1. /\ pc[s] = "lock" /\ Goto(s, "load")
        /\ UNCHANGED <<txIndex, connected, rpc, pushed, inflight, arg>>
    BY Zenon, <1>2 DEF Lock, receiverVars
  <2> SUFFICES ASSUME TrackIndexes PROVE PInv'
    BY Zenon DEF PInv, LockHolder, Position
  <2>2. txLock = NoOwner /\ txLock' = s /\ NoOwner \notin Senders /\ NoOwner # Receiver /\ s # Receiver
    BY Zenon, <1>2, ChannelAssumption DEF Lock, NoOwner, Receiver
  <2>g. pc'[s] = "load" /\ \A t \in Senders : t # s => pc'[t] = pc[t]
    BY Zenon, <2>1, GotoPc
  <2>h. pc'[s] \in HoldsPc /\ \A t \in Senders : pc[t] \notin HoldsPc
    BY Zenon, <2>2, <2>g DEF PInv, LockHolder, HoldsPc
  <2>i. rpc # "restart"
    BY Zenon, <2>2 DEF PInv, LockHolder
  <2>3. LockHolder'
    BY Zenon, <2>1, <2>2, <2>g, <2>h, <2>i DEF LockHolder
  <2>4. Due(s)' = 0 /\ Mine(s)' = Mine(s)
    BY <2>1, <2>g, Zenon DEF Due, Mine
  <2>5. connected => txIndex = pushed
    BY Zenon, <2>2 DEF PInv, Position
  <2>6. Position'
    BY Zenon, <1>0, <1>m, <2>1, <2>2, <2>4, <2>5 DEF Position
  <2> QED
    BY Zenon, <2>3, <2>6 DEF PInv
<1>3. CASE Load(s) /\ Refused(s)
  <2>1. /\ pc[s] = "load" /\ Goto(s, "idle") /\ Unlock
        /\ UNCHANGED <<txIndex, connected, rpc, pushed, inflight>>
    BY Zenon, <1>3 DEF Load, receiverVars
  <2>2. TrackIndexes /\ connected => txIndex = pushed
    BY <1>0, <1>p, <1>m, <2>1 DEF Due, HoldsPc
  <2> QED
    BY Zenon, <2>1, <2>2, ReleasesLock DEF HoldsPc
<1>4. CASE (Load(s) /\ ~Refused(s)) \/ IncActive(s) \/ (CompareExchange(s) /\ word # seen[s])
  <2>1. PICK l \in {"inc", "cas", "undo"} :
          /\ pc[s] \in {"load", "inc", "cas"} /\ Goto(s, l)
          /\ UNCHANGED <<txLock, txIndex, connected, rpc, pushed, inflight, arg>>
    BY Zenon, <1>4 DEF Load, IncActive, CompareExchange, receiverVars
  <2>g. pc'[s] = l
    BY Zenon, <2>1, GotoPc
  <2>2. Due(s)' = 0 /\ Due(s) = 0 /\ Mine(s)' = Mine(s)
    BY Zenon, <2>1, <2>g DEF Due, Mine
  <2>3. TrackIndexes /\ connected => txIndex + Due(s)' = pushed' + Cardinality(Mine(s)')
    BY Zenon, <1>p, <2>1, <2>2 DEF HoldsPc
  <2> QED
    BY Zenon, <2>1, <2>3, KeepsLock DEF HoldsPc
<1>5. CASE CompareExchange(s) /\ word = seen[s]
  <2>1. /\ pc[s] = "cas" /\ Goto(s, "push") /\ inflight' = inflight \cup Batch(s)
        /\ UNCHANGED <<txLock, txIndex, connected, rpc, pushed, arg>>
    BY Zenon, <1>5 DEF CompareExchange, receiverVars
  <2>2. Mine(s)' = Batch(s)
    BY Zenon, <1>m, <2>1 DEF Mine, Batch
  <2>3. Cardinality(Mine(s)') = arg[s].size
    BY Zenon, <2>2, BatchSize DEF IInv
  <2>g. pc'[s] = "push"
    BY Zenon, <2>1, GotoPc
  <2>4. Due(s) = 0 /\ Due(s)' = arg[s].size
    BY Zenon, <2>1, <2>g DEF Due
  <2>5. TrackIndexes /\ connected => txIndex + Due(s)' = pushed' + Cardinality(Mine(s)')
    BY <1>0, <1>p, <1>m, <2>1, <2>3, <2>4 DEF HoldsPc
  <2> QED
    BY Zenon, <2>1, <2>5, KeepsLock DEF HoldsPc
<1>6. CASE Undo(s)
  <2>1. /\ pc[s] = "undo" /\ Goto(s, "lock") /\ Unlock
        /\ UNCHANGED <<txIndex, connected, rpc, pushed, inflight>>
    BY Zenon, <1>6 DEF Undo, StartOver, receiverVars
  <2>2. TrackIndexes /\ connected => txIndex = pushed
    BY <1>0, <1>p, <1>m, <2>1 DEF Due, HoldsPc
  <2> QED
    BY Zenon, <2>1, <2>2, ReleasesLock DEF HoldsPc
<1>7. CASE Push(s)
  <2>1. PICK r \in inflight :
          /\ pc[s] = "push" /\ r.owner = s /\ inflight' = inflight \ {r}
          /\ Goto(s, IF Mine(s) = {r} THEN "dec" ELSE "push")
          /\ pushed' = pushed + 1
          /\ UNCHANGED <<txLock, txIndex, connected, rpc, arg>>
    BY Zenon, <1>7 DEF Push, Mine, receiverVars
  <2>2. IsFiniteSet(Mine(s)) /\ r \in Mine(s) /\ Mine(s)' = Mine(s) \ {r}
    BY Zenon, <2>1, FS_Subset DEF IInv, InflightOwned, Mine
  <2>3. Cardinality(Mine(s)') = Cardinality(Mine(s)) - 1 /\ Cardinality(Mine(s)) \in Nat
    BY Zenon, <2>2, FS_RemoveElement, FS_CardinalityType
  <2>g. pc'[s] = IF Mine(s) = {r} THEN "dec" ELSE "push"
    BY Zenon, <2>1, GotoPc
  <2>h. pc'[s] \in {"dec", "push"}
    BY Zenon, <2>g
  <2>4. Due(s) = arg[s].size /\ Due(s)' = arg[s].size
    BY Zenon, <2>1, <2>h DEF Due
  <2>5. TrackIndexes /\ connected => txIndex + Due(s)' = pushed' + Cardinality(Mine(s)')
    BY <1>0, <1>p, <2>1, <2>3, <2>4 DEF HoldsPc
  <2> QED
    BY Zenon, <2>1, <2>5, KeepsLock DEF HoldsPc
<1>8. CASE PushDisconnected(s)
  <2>1. /\ pc[s] = "push" /\ ~connected /\ Goto(s, "fail")
        /\ UNCHANGED <<txLock, txIndex, connected, rpc>>
    BY Zenon, <1>8 DEF PushDisconnected, receiverVars
  <2> QED
    BY Zenon, <2>1, KeepsLock DEF HoldsPc
<1>9. CASE DecActive(s)
  <2>1. /\ pc[s] = "dec" /\ Goto(s, "index")
        /\ UNCHANGED <<txLock, txIndex, connected, rpc, pushed, inflight, arg>>
    BY Zenon, <1>9 DEF DecActive, receiverVars
  <2>g. pc'[s] = "index"
    BY Zenon, <2>1, GotoPc
  <2>2. Due(s)' = Due(s) /\ Mine(s)' = Mine(s)
    BY Zenon, <2>1, <2>g DEF Due, Mine
  <2>3. TrackIndexes /\ connected => txIndex + Due(s)' = pushed' + Cardinality(Mine(s)')
    BY Zenon, <1>p, <2>1, <2>2 DEF HoldsPc
  <2> QED
    BY Zenon, <2>1, <2>3, KeepsLock DEF HoldsPc
<1>10. CASE FailDisconnected(s)
  <2>1. pc[s] = "fail" /\ Goto(s, "idle") /\ Unlock /\ UNCHANGED <<txIndex, connected, rpc, pushed>>
    BY Zenon, <1>10 DEF FailDisconnected, receiverVars
  <2>2. TrackIndexes /\ connected => txIndex = pushed
    BY <1>0, <1>p, <1>m, <2>1 DEF Due, HoldsPc
  <2> QED
    BY Zenon, <2>1, <2>2, ReleasesLock DEF HoldsPc
<1>11. CASE ReturnIndex(s)
  <2>1. /\ pc[s] = "index" /\ Goto(s, "idle") /\ Unlock
        /\ txIndex' = (IF TrackIndexes THEN txIndex + arg[s].size ELSE txIndex)
        /\ UNCHANGED <<connected, rpc, pushed>>
    BY Zenon, <1>11 DEF ReturnIndex, receiverVars
  <2>2. TrackIndexes /\ connected => txIndex' = pushed'
    BY <1>0, <1>p, <1>m, <2>1 DEF Due, HoldsPc
  <2> QED
    BY Zenon, <2>1, <2>2, ReleasesLock DEF HoldsPc
<1> QED
  BY Zenon, <1>1, <1>2, <1>3, <1>4, <1>5, <1>6, <1>7, <1>8, <1>9, <1>10, <1>11 DEF SenderStep

LEMMA ReceiverP ==
    ASSUME IInv, PInv, ReceiverStep \/ Shutdown \/ DropReceiver
    PROVE  PInv'
<1>0. UNCHANGED <<pc, arg, inflight>> /\ (connected' => connected) /\ rpc \in ReceiverPc
  <2>1. rpc \in ReceiverPc
    BY Zenon DEF IInv, TypeOK
  <2>2. CASE TryRecv \/ Retry \/ OnReceivedRecord \/ LoadActive
    BY <2>1, <2>2 DEF TryRecv, Take, TryRecvEmpty, LoadActive, Retry, OnReceivedRecord,
                      channelVars, senderVars
  <2>3. CASE AskSafe \/ SafeIsEmpty
    BY <2>1, <2>3 DEF AskSafe, SafeLoadActive, SafeIsEmpty, channelVars, senderVars
  <2>4. CASE RestartLock \/ RestartStore
    BY <2>1, <2>4 DEF RestartLock, RestartStore, senderVars
  <2>5. CASE Shutdown \/ DropReceiver
    BY <2>1, <2>5 DEF Shutdown, DropReceiver, senderVars
  <2> QED
    BY Zenon, <2>1, <2>2, <2>3, <2>4, <2>5 DEF ReceiverStep
<1>1. CASE RestartLock
  <2> SUFFICES ASSUME TrackIndexes PROVE PInv'
    BY Zenon DEF PInv, LockHolder, Position
  <2>1. /\ txLock = NoOwner /\ txLock' = Receiver /\ rpc' = "restart" /\ txIndex' = 0
        /\ NoOwner \notin Senders /\ Receiver \notin Senders /\ NoOwner # Receiver
    BY Zenon, <1>1, ChannelAssumption DEF RestartLock, ResetIndex, NoOwner, Receiver
  <2>2. LockHolder'
    BY Zenon, <1>0, <2>1 DEF PInv, LockHolder
  <2>3. Position'
    BY Zenon, <2>1 DEF Position
  <2> QED
    BY Zenon, <2>2, <2>3 DEF PInv
<1>2. CASE RestartStore
  <2> SUFFICES ASSUME TrackIndexes PROVE PInv'
    BY Zenon DEF PInv, LockHolder, Position
  <2>1. /\ rpc = "restart" /\ rpc' = "idle" /\ txLock' = NoOwner /\ pushed' = 0 /\ txIndex' = txIndex
        /\ NoOwner \notin Senders /\ Receiver \notin Senders /\ NoOwner # Receiver
    BY Zenon, <1>2, ChannelAssumption DEF RestartStore, NoOwner, Receiver
  <2>2. txLock = Receiver
    BY Zenon, <2>1 DEF PInv, LockHolder
  <2>3. LockHolder'
    BY Zenon, <1>0, <2>1, <2>2 DEF PInv, LockHolder
  <2>4. Position'
    BY Zenon, <1>0, <2>1, <2>2 DEF PInv, Position
  <2> QED
    BY Zenon, <2>3, <2>4 DEF PInv
<1>3. CASE UNCHANGED <<txLock, txIndex, pushed>> /\ rpc # "restart" /\ rpc' # "restart"
  <2>1. LockHolder'
    BY Zenon, <1>0, <1>3 DEF PInv, LockHolder
  <2>2. Position'
    BY Zenon, <1>0, <1>3 DEF PInv, Position, Due, Mine
  <2> QED
    BY Zenon, <2>1, <2>2 DEF PInv
<1>4. CASE TryRecv \/ LoadActive \/ Retry
  <2>1. UNCHANGED <<txLock, txIndex, pushed>> /\ rpc # "restart" /\ rpc' # "restart"
    BY Zenon, <1>4 DEF TryRecv, Take, TryRecvEmpty, LoadActive, AfterActive, Retry, BetweenCalls, channelVars
  <2> QED
    BY Zenon, <1>3, <2>1
<1>5. CASE OnReceivedRecord \/ AskSafe \/ SafeIsEmpty \/ Shutdown \/ DropReceiver
  <2>1. UNCHANGED <<txLock, txIndex, pushed>> /\ rpc # "restart" /\ rpc' # "restart"
    BY Zenon, <1>5 DEF OnReceivedRecord, AskSafe, SafeLoadActive, SafeIsEmpty, Shutdown, DropReceiver,
                BetweenCalls, channelVars
  <2> QED
    BY Zenon, <1>3, <2>1
<1> QED
  BY Zenon, <1>1, <1>2, <1>4, <1>5 DEF ReceiverStep

LEMMA AlwaysPInv == Spec => []PInv
<1>1. Init => PInv
  BY ChannelAssumption DEF Init, PInv, LockHolder, Position, HoldsPc, NoOwner, Receiver
<1>2. IInv /\ PInv /\ [Next]_vars => PInv'
  <2> SUFFICES ASSUME IInv, PInv, [Next]_vars PROVE PInv'
    BY Zenon
  <2>1. CASE Next
    BY Zenon, <2>1, SenderP, ReceiverP DEF Next
  <2>2. CASE UNCHANGED vars
    BY Zenon, <2>2 DEF vars, senderVars, receiverVars, PInv, LockHolder, Position, Due, Mine
  <2> QED
    BY Zenon, <2>1, <2>2
<1> QED
  BY <1>1, <1>2, AlwaysIInv, PTL DEF Spec

-----------------------------------------------------------------------------
(* The theorems *)

\* The state of the channel keeps its types: in particular the low bits of the
\* packed word stay within MAX_ALLOWED_INSERTIONS.
THEOREM TypeCorrect == Spec => []TypeOK
  BY AlwaysIInv, PTL DEF IInv

\* The room in the packed word and the outstanding records add up to the
\* capacity, so fetch_add in on_received_record() never carries into the bank
\* id and the push of a reserved record never finds the channel full.
THEOREM CapacityConserved == Spec => []Conservation
  BY AlwaysIInv, PTL DEF IInv

\* No record of an earlier bank is in the channel once restart() opened it for
\* another one, however the senders interleave with is_safe_to_restart().
THEOREM BanksSeparated == Spec => []OneBankAtATime
  BY AlwaysIInv, PTL DEF IInv

\* try_recv says Empty only after every record that had been admitted when the
\* call began was received: PoH does not tick past a record that was accepted
\* before, whichever senders are between their reservation and their push.
THEOREM EmptyMissesNothing == Spec => []EmptyMeansReceived
<1>1. HInv => EmptyMeansReceived
  BY Zenon DEF HInv, OwedDone, EmptyMeansReceived
<1> QED
  BY <1>1, AlwaysHInv, PTL

\* With tracked indexes, the index handed to a sender is the position of its
\* first transaction in the channel, although the index is added to only after
\* the push and reset by restart() in another thread.
THEOREM IndexesArePositions == Spec => []IndexIsPosition
<1>1. PInv => IndexIsPosition
  BY Zenon DEF PInv, Position, IndexIsPosition
<1> QED
  BY <1>1, AlwaysPInv, PTL

-----------------------------------------------------------------------------
(* The PoH service *)

(***************************************************************************)
(* The recorder.                                                           *)
(***************************************************************************)
PohT  == [left : 1..HashesPerTick, tick : 0..TicksPerSlot - 1]
BankT == [id : 1..MaxBank, slot : Nat, ticks : Nat, min : Nat, max : Nat]
RecT  == [poh : PohT, height : Nat, bank : BankT \cup {None}, cache : Seq(Nat),
          start : Nat, leader : BOOLEAN]

\* The cached ticks are the last ones, without a gap.
Gapless(R) == \A i \in DOMAIN R.cache : R.cache[i] = R.height - Len(R.cache) + i

\* The tick that Poh is in agrees with the tick height.
InPhase(R) == \E k \in Nat : R.height = k * TicksPerSlot + R.poh.tick

\* A working bank has been given every tick, and its slot is not over.
Working(R) ==
    /\ R.leader
    /\ R.cache = <<>>
    /\ R.bank.ticks = R.height
    /\ R.bank.min <= R.height /\ R.height < R.bank.max
    /\ R.bank.max = MaxTickHeight(R.bank.slot)

\* Without one, the ticks since the end of the start slot are cached.
Waiting(R) == R.leader => Gapless(R) /\ R.height = MaxTickHeight(R.start) + Len(R.cache)

RecInv(R) ==
    /\ R \in RecT
    /\ InPhase(R)
    /\ IF R.bank = None THEN Waiting(R) ELSE Working(R)

(***************************************************************************)
(* The service thread and the messages of replay.                          *)
(***************************************************************************)
Reset   == [kind : {"Reset"}, slot : Nat, leader : BOOLEAN]
SetBank == [kind : {"SetBank"}, rehash : BOOLEAN, bank : BankT]
Message == Reset \cup SetBank

Svc == {"top", "check", "hash_recv", "wait_recv", "record_recv", "record", "hash", "tick",
        "after", "leave", "handle", "restart", "done", "exited", "handed", "panicked", "failed"}

PohTypeOK ==
    /\ svc \in Svc
    /\ exiting \in BOOLEAN /\ pohExit \in BOOLEAN /\ shutdownPoh \in BOOLEAN
    /\ next \in Record \cup {None} /\ got \in Record \cup {None}
    /\ msg \in Message \cup {None} /\ queue \in Seq(Message)
    /\ pending \in Nat /\ banks \in 0..MaxBank

\* A bank that was made for this recorder, for a slot after its start slot.
MadeFor(R, b) ==
    /\ b \in BankT
    /\ R.bank = None /\ R.leader
    /\ b.slot > R.start
    /\ b.min = MaxTickHeight(R.start) /\ b.ticks = b.min
    /\ b.max = MaxTickHeight(b.slot)

Fits(R, m) == m.kind = "SetBank" => MadeFor(R, m.bank)

\* At most one message is on its way, and it still fits when it is handled.
Messages ==
    /\ queue # <<>> => /\ Len(queue) = 1 /\ msg = None /\ pending >= 1
                       /\ connected => Fits(rec, Head(queue))
    /\ msg # None => pending >= 1 /\ (connected /\ svc # "restart" => Fits(rec, msg))
    /\ shutdownPoh => queue = <<>> /\ msg = None /\ (connected => rec.bank = None)

\* Where the thread is tells where its receiver is.
Control ==
    /\ svc \in {"exited", "failed", "panicked"} <=> ~connected
    /\ svc \in {"top", "check", "leave", "done", "exited", "handed"} => msg = None
    /\ next # None => svc \in {"after", "record"}
    /\ svc = "record" => next # None
    /\ rpc \in {"try", "active", "retry", "got"} => Receiving
    /\ rpc = "got" => got # None
    /\ svc \in {"hash"} => rpc = "empty"
    /\ svc \in {"handle", "done", "handed"} => rpc = "safe"
    /\ svc \in {"leave", "done", "handed"} => exiting
    /\ svc = "handed" => shutdownPoh
    /\ svc = "handle" => msg # None
    /\ svc = "restart" <=> rpc = "restart"
    /\ svc = "tick" => rec.poh.left = 1

\* The channel is open for the working bank only, and closed while a message
\* or the exit waits and when the slot is about to end.
Closed == word.bank = Disabled

OpenForBank ==
    /\ msg # None \/ exiting => Closed
    /\ svc = "restart" =>
           /\ ~exiting /\ msg # None /\ rec.bank # None /\ rec.bank.id = lastBank
    /\ connected /\ ~Closed => rec.bank # None /\ rec.bank.id = word.bank
    /\ connected /\ svc = "tick" /\ ~Closed => rec.height < rec.bank.max - 1

SInv ==
    /\ IInv
    /\ PohTypeOK
    /\ RecInv(rec)
    /\ Messages
    /\ Control
    /\ OpenForBank

-----------------------------------------------------------------------------
(* Arithmetic *)

USE ChannelAssumption, PohAssumption

\* A product grows with its first factor.
LEMMA TimesGrows ==
    ASSUME NEW a \in Nat, NEW b \in Nat, NEW T \in Nat, a <= b
    PROVE  a * T \in Nat /\ b * T \in Nat /\ a * T <= b * T
<1>1. PICK d \in Nat : b = a + d
  <2>1. b - a \in Nat /\ b = a + (b - a)
    OBVIOUS
  <2> QED
    BY Zenon, <2>1
<1>2. b * T = a * T + d * T /\ a * T \in Nat /\ d * T \in Nat
  BY <1>1
<1> QED
  BY <1>2

\* The next multiple of T.
LEMMA TimesNext ==
    ASSUME NEW a \in Nat, NEW T \in Nat
    PROVE  (a + 1) * T = a * T + T /\ a * T \in Nat
  OBVIOUS

ShortOfEnd(T, a, k, r, j) == k * T + r = a * T - j

\* A height that is j short of the end of a slot is in the tick that is j short
\* of the last one.
LEMMA PhaseOfEnd ==
    ASSUME NEW T \in Nat \ {0}, NEW a \in Nat, NEW k \in Nat, NEW r \in 0..T - 1,
           NEW j \in 1..T, ShortOfEnd(T, a, k, r, j)
    PROVE  r = T - j
<1>1. a * T \in Nat /\ k * T \in Nat /\ k * T + r = a * T - j
  BY TimesGrows DEF ShortOfEnd
<1>2. CASE a <= k
  <2>1. a * T <= k * T
    BY Zenon, <1>2, TimesGrows
  <2> QED
    BY <1>1, <2>1
<1>3. CASE a >= k + 2
  <2>1. (k + 2) * T <= a * T /\ (k + 2) * T = k * T + T + T
    <3>1. (k + 1) * T = k * T + T
      BY Zenon, TimesNext
    <3>2. (k + 1 + 1) * T = (k + 1) * T + T /\ k + 1 + 1 = k + 2
      BY TimesNext
    <3>3. (k + 2) * T <= a * T
      BY <1>3, TimesGrows
    <3> QED
      BY Zenon, <3>1, <3>2, <3>3
  <2> QED
    BY <1>1, <2>1
<1>4. CASE a = k + 1
  <2>1. a * T = k * T + T
    BY Zenon, <1>4, TimesNext
  <2> QED
    BY <1>1, <2>1
<1> QED
  BY <1>2, <1>3, <1>4

\* The tick counter of Poh, one tick later.
LEMMA NextTick ==
    ASSUME NEW T \in Nat \ {0}, NEW r \in 0..T - 1
    PROVE  (r + 1) % T = IF r = T - 1 THEN 0 ELSE r + 1
<1>1. CASE r = T - 1
  BY <1>1
<1>2. CASE r # T - 1
  BY <1>2
<1> QED
  BY Zenon, <1>1, <1>2

\* The slot that PoH is in comes after a slot that is over.
LEMMA SlotAfter ==
    ASSUME NEW T \in Nat \ {0}, NEW h \in Nat, NEW s \in Nat, (s + 1) * T <= h
    PROVE  h \div T \in Nat /\ h \div T > s
<1> DEFINE q == h \div T
           r == h % T
<1>1. q \in Nat /\ r \in 0..T - 1 /\ h = q * T + r
  OBVIOUS
<1> HIDE DEF q, r
<1>2. CASE q <= s
  <2>1. q * T <= s * T /\ (s + 1) * T = s * T + T /\ s * T \in Nat /\ q * T \in Nat
    BY Zenon, <1>1, <1>2, TimesGrows, TimesNext
  <2> QED
    BY <1>1, <2>1
<1> QED
  BY <1>1, <1>2 DEF q

-----------------------------------------------------------------------------
(* PohRecorder *)

\* None is no bank, no message and no record.
LEMMA NoneIsNone == None \notin BankT /\ None \notin Message /\ None \notin Record
  BY Zenon DEF None, BankT, Message, Reset, SetBank, Record

\* What flush_cache is called with: the cached ticks continue the bank's.
Flushable(R) ==
    /\ R \in RecT
    /\ InPhase(R)
    /\ IF R.bank = None THEN Waiting(R)
       ELSE /\ R.leader
            /\ Gapless(R)
            /\ R.height = R.bank.ticks + Len(R.cache)
            /\ R.bank.min <= R.bank.ticks /\ R.bank.ticks <= R.bank.max
            /\ R.bank.max = MaxTickHeight(R.bank.slot)

\* The cached ticks that belong to the bank.
LEMMA FlushCount ==
    ASSUME NEW R, Flushable(R), R.bank # None
    PROVE  Cardinality({i \in DOMAIN R.cache : R.cache[i] <= R.bank.max})
             = IF R.height < R.bank.max THEN Len(R.cache) ELSE R.bank.max - R.bank.ticks
<1> DEFINE n == Len(R.cache)
           m == IF R.height < R.bank.max THEN n ELSE R.bank.max - R.bank.ticks
<1>1. R.bank \in BankT /\ R.cache \in Seq(Nat) /\ R.height \in Nat
  BY Zenon DEF Flushable, RecT
<1>2. R.bank.ticks \in Nat /\ R.bank.max \in Nat /\ n \in Nat /\ DOMAIN R.cache = 1..n
  BY <1>1 DEF BankT
<1>3. m \in 0..n
  BY <1>2, <1>1 DEF Flushable
<1>4. {i \in DOMAIN R.cache : R.cache[i] <= R.bank.max} = 1..m
  <2>1. ASSUME NEW i \in 1..n
        PROVE  i <= m <=> R.cache[i] <= R.bank.max
    <3> DEFINE x == R.cache[i]
               h == R.height
               k == R.bank.ticks
               e == R.bank.max
    <3>1. x = h - n + i /\ h = k + n
      BY Zenon, <1>1, <1>2 DEF Flushable, Gapless
    <3>2. /\ i \in Int /\ n \in Int /\ h \in Int /\ k \in Int /\ e \in Int /\ i <= n
          /\ m = IF h < e THEN n ELSE e - k
      BY <1>1, <1>2
    <3> HIDE DEF x, h, k, e, n, m
    <3>3. i <= m <=> x <= e
      BY <3>1, <3>2
    <3> QED
      BY <3>3 DEF x, e
  <2> QED
    BY <1>2, <1>3, <2>1
<1>5. Cardinality(1..m) = m
  <2>1. m \in Int /\ 1 \in Int /\ (1 > m => m = 0) /\ m - 1 + 1 = m
    BY <1>2, <1>3
  <2> HIDE DEF m
  <2> QED
    BY Zenon, <2>1, FS_Interval
<1> QED
  BY Zenon, <1>4, <1>5

\* flush_cache gives the bank the cached ticks up to its last one, and clears
\* a bank that has them all; the later ones stay in the cache for the next bank.
Flushed(R, F) ==
    /\ RecInv(F) /\ F.poh = R.poh /\ F.height = R.height
    /\ R.bank = None => F = R
    /\ R.bank # None /\ R.height < R.bank.max =>
           F.bank # None /\ F.bank.id = R.bank.id /\ F.bank.max = R.bank.max
    /\ R.bank # None /\ R.height >= R.bank.max => F.bank = None

LEMMA FlushRec ==
    ASSUME NEW R, Flushable(R), NEW t \in BOOLEAN, NEW l \in BOOLEAN,
           t /\ R.bank # None => R.height > R.bank.min
    PROVE  Flushed(R, flush_cache(R, t, l))
<1> DEFINE F == flush_cache(R, t, l)
<1> HIDE DEF F
<1> SUFFICES Flushed(R, F)
  BY Zenon DEF F
<1>1. CASE R.bank = None
  <2>1. F = R
    BY Zenon, <1>1 DEF flush_cache, FlushError, F
  <2> QED
    BY Zenon, <1>1, <2>1 DEF Flushable, RecInv, Flushed
<1>2. CASE R.bank # None
  <2> DEFINE c == Cardinality({i \in DOMAIN R.cache : R.cache[i] <= R.bank.max})
             G == [R EXCEPT !.bank.ticks = @ + c, !.cache = SubSeq(@, c + 1, Len(@))]
             B == [R.bank EXCEPT !.ticks = @ + c]
             s == SubSeq(R.cache, c + 1, Len(R.cache))
             n == Len(R.cache)
             h == R.height
             x == R.bank.max
             k == R.bank.ticks
  <2>1. R \in RecT /\ R.bank \in BankT /\ R.cache \in Seq(Nat) /\ R.height \in Nat
        /\ Len(R.cache) \in Nat /\ R.start \in Nat /\ R.leader = TRUE /\ R.poh \in PohT
    BY <1>2 DEF Flushable, RecT
  <2>2. /\ R.bank.id \in 1..MaxBank /\ R.bank.slot \in Nat /\ R.bank.ticks \in Nat
        /\ R.bank.min \in Nat /\ R.bank.max \in Nat
    BY Zenon, <2>1 DEF BankT
  <2>3. ~FlushError(R, t)
    BY <1>2, <2>1, <2>2 DEF FlushError, Flushable
  <2>4. F = IF R.height >= R.bank.max THEN ClearBank([G EXCEPT !.start = R.bank.slot], l) ELSE G
    BY Zenon, <2>3 DEF flush_cache, F
  <2>5. c = IF R.height < R.bank.max THEN Len(R.cache) ELSE R.bank.max - R.bank.ticks
    BY Zenon, <1>2, FlushCount
  <2>a. c = IF h < x THEN n ELSE x - k
    BY Zenon, <2>5
  <2>b. n \in Nat /\ h \in Nat /\ x \in Nat /\ k \in Nat /\ h = k + n /\ k <= x
    BY Zenon, <1>2, <2>1, <2>2 DEF Flushable
  <2> HIDE DEF c, n, h, x, k
  <2>6. c \in 0..n /\ c \in Nat
    BY <2>a, <2>b
  <2>7. s \in Seq(Nat) /\ Len(s) = n - c /\ \A i \in 1..Len(s) : s[i] = R.cache[c + i]
    <3>1. c + 1 \in Int /\ n \in Int /\ s = SubSeq(R.cache, c + 1, n)
      BY <2>b, <2>6 DEF n
    <3>a. \A i \in c + 1..n : R.cache[i] \in Nat
      <4>1. \A i \in c + 1..n : i \in 1..n
        BY <2>b, <2>6
      <4> QED
        BY <2>1, <4>1 DEF n
    <3>2. /\ s \in Seq(Nat)
          /\ Len(s) = IF c + 1 <= n THEN n - (c + 1) + 1 ELSE 0
          /\ \A i \in 1..n - (c + 1) + 1 : s[i] = R.cache[c + 1 + i - 1]
      BY <3>1, <3>a
    <3> HIDE DEF s
    <3>3. Len(s) = n - c
      BY <2>b, <2>6, <3>2
    <3>4. ASSUME NEW i \in 1..Len(s) PROVE s[i] = R.cache[c + i]
      <4>1. i \in 1..n - (c + 1) + 1 /\ c + 1 + i - 1 = c + i
        BY <2>b, <2>6, <3>3
      <4> QED
        BY <3>2, <4>1
    <3> QED
      BY Zenon, <3>2, <3>3, <3>4
  <2>8. B \in BankT /\ B.id = R.bank.id /\ B.slot = R.bank.slot /\ B.ticks = k + c
        /\ B.min = R.bank.min /\ B.max = x
    <3> HIDE DEF Flushable
    <3>1. k + c \in Nat /\ B = [R.bank EXCEPT !.ticks = k + c]
      BY <2>b, <2>6 DEF k
    <3> QED
      BY Zenon, <2>1, <2>2, <3>1 DEF BankT, x
  <2>9. G = [R EXCEPT !.bank = B, !.cache = s]
    BY Zenon, <2>1 DEF RecT
  <2> HIDE DEF B, s
  <2>10. /\ G \in RecT /\ G.poh = R.poh /\ G.height = R.height /\ G.bank = B /\ G.cache = s
         /\ G.start = R.start /\ G.leader = R.leader
    BY Zenon, <2>1, <2>7, <2>8, <2>9 DEF RecT
  <2> HIDE DEF G
  <2>11. B # None
    BY Zenon, <2>8, NoneIsNone
  <2>12. CASE R.height < R.bank.max
    <3>a. h < x
      BY Zenon, <2>12 DEF h, x
    <3>1. F = G /\ c = n
      <4>1. ~(R.height >= R.bank.max)
        BY <2>b, <3>a DEF h, x
      <4> QED
        BY Zenon, <2>4, <2>a, <3>a, <4>1
    <3>2. s = <<>> /\ B.ticks = R.height
      <4>1. Len(s) = 0 /\ B.ticks = h
        BY <2>b, <2>7, <2>8, <3>1
      <4> QED
        BY <2>7, <4>1 DEF h
    <3>3. Working(G)
      <4>1. R.bank.min <= h /\ h < x
        BY <1>2, <2>b, <2>2, <3>a DEF Flushable, k
      <4>2. R.bank.max = MaxTickHeight(R.bank.slot) /\ R.leader
        BY Zenon, <1>2, <2>1 DEF Flushable
      <4> QED
        BY Zenon, <2>8, <2>10, <3>2, <4>1, <4>2 DEF Working, h, x
    <3>4. InPhase(G)
      BY Zenon, <2>10 DEF Flushable, InPhase
    <3>5. RecInv(F)
      BY Zenon, <2>10, <2>11, <3>1, <3>3, <3>4 DEF RecInv
    <3> QED
      BY <1>2, <2>b, <2>8, <2>10, <2>11, <3>a, <3>1, <3>5 DEF h, x, Flushed
  <2>13. CASE R.height >= R.bank.max
    <3> DEFINE H == ClearBank([G EXCEPT !.start = R.bank.slot], l)
    <3>1. F = H /\ c = x - k
      <4>1. ~(h < x)
        BY <2>b, <2>13 DEF h, x
      <4> QED
        BY Zenon, <2>4, <2>a, <2>13, <4>1
    <3>2. /\ H \in RecT /\ H.poh = R.poh /\ H.height = R.height /\ H.bank = None /\ H.cache = s
          /\ H.start = R.bank.slot /\ H.leader = l
      BY Zenon, <2>2, <2>10 DEF ClearBank, RecT
    <3> HIDE DEF H
    <3>3. H.height = MaxTickHeight(H.start) + Len(H.cache)
      <4>1. h = x + Len(s)
        BY <2>b, <2>7, <3>1
      <4>2. MaxTickHeight(H.start) = x
        BY Zenon, <1>2, <3>2 DEF Flushable, x
      <4> QED
        BY Zenon, <3>2, <4>1, <4>2 DEF h
    <3>4. Gapless(H)
      <4>1. ASSUME NEW i \in 1..Len(s)
            PROVE  s[i] = R.height - Len(s) + i
        <5>1. c + i \in 1..n /\ i \in Int
          BY <2>b, <2>6, <2>7
        <5>2. R.cache[c + i] = h - n + (c + i)
          BY <1>2, <2>1, <5>1 DEF Flushable, Gapless, n, h
        <5>3. s[i] = h - n + (c + i)
          BY Zenon, <2>7, <5>2
        <5> QED
          BY <2>b, <2>6, <2>7, <5>1, <5>3 DEF h
      <4> QED
        BY <2>7, <3>2, <4>1 DEF Gapless
    <3>5. InPhase(H)
      BY Zenon, <3>2 DEF Flushable, InPhase
    <3>6. RecInv(F)
      BY Zenon, <3>1, <3>2, <3>3, <3>4, <3>5 DEF RecInv, Waiting
    <3> QED
      BY <1>2, <2>1, <2>2, <2>13, <3>1, <3>2, <3>6 DEF Flushed
  <2> QED
    BY <2>1, <2>2, <2>12, <2>13
<1> QED
  BY Zenon, <1>1, <1>2

\* A recorder that keeps the invariant can flush its cache.
LEMMA InvFlushable ==
    ASSUME NEW R, RecInv(R)
    PROVE  Flushable(R)
<1>1. CASE R.bank = None
  BY Zenon, <1>1 DEF RecInv, Flushable
<1>2. CASE R.bank # None
  <2>1. R \in RecT /\ InPhase(R) /\ Working(R) /\ R.bank \in BankT /\ R.height \in Nat
    BY Zenon, <1>2 DEF RecInv, RecT
  <2>2. R.bank.ticks \in Nat /\ R.bank.max \in Nat /\ R.bank.min \in Nat
    BY Zenon, <2>1 DEF BankT
  <2>3. Gapless(R) /\ Len(R.cache) = 0
    BY <2>1 DEF Working, Gapless
  <2> QED
    BY <1>2, <2>1, <2>2, <2>3 DEF Working, Flushable
<1> QED
  BY Zenon, <1>1, <1>2

\* MaxTickHeight of a slot is a tick height at which a slot ends.
LEMMA EndOfSlot ==
    ASSUME NEW s \in Nat
    PROVE  MaxTickHeight(s) \in Nat /\ MaxTickHeight(s) = (s + 1) * TicksPerSlot + 0
  BY TimesNext DEF MaxTickHeight

\* T is recorder R after a tick.
Ticked(R, T) ==
    /\ RecInv(T) /\ T.poh.left = HashesPerTick /\ T.height = R.height + 1
    /\ R.bank = None => T.bank = None /\ T.leader = R.leader /\ T.start = R.start
    /\ R.bank # None /\ R.height + 1 < R.bank.max =>
         T.bank # None /\ T.bank.id = R.bank.id /\ T.bank.max = R.bank.max
    /\ R.bank # None /\ R.height + 1 >= R.bank.max => T.bank = None

\* A tick raises the height by one and starts the next tick of PoH; it goes to
\* the bank, whose slot it may end, or to the cache of a leader.
LEMMA TickRec ==
    ASSUME NEW R, RecInv(R), R.poh.left = 1, NEW l \in BOOLEAN, NEW T, T = tick(R, l)
    PROVE  Ticked(R, T)
<1> DEFINE p == [left |-> HashesPerTick, tick |-> (R.poh.tick + 1) % TicksPerSlot]
           h == R.height + 1
           H == [R EXCEPT !.poh = p, !.height = h]
           s == Append(H.cache, H.height)
           A == [H EXCEPT !.cache = s]
<1>1. /\ R \in RecT /\ R.poh \in PohT /\ R.height \in Nat /\ R.bank \in BankT \cup {None}
      /\ R.cache \in Seq(Nat) /\ R.start \in Nat /\ R.leader \in BOOLEAN
      /\ R.poh.tick \in 0..TicksPerSlot - 1
  BY Zenon DEF RecInv, RecT, PohT
<1>2. (R.poh.tick + 1) % TicksPerSlot
        = IF R.poh.tick = TicksPerSlot - 1 THEN 0 ELSE R.poh.tick + 1
  BY Zenon, <1>1, NextTick
<1>3. p \in PohT /\ p.left = HashesPerTick
      /\ p.tick = IF R.poh.tick = TicksPerSlot - 1 THEN 0 ELSE R.poh.tick + 1
  BY <1>1, <1>2 DEF PohT
<1>4. PohTick(R.poh) = p
  BY Zenon DEF PohTick
<1>7. T = IF ~R.leader THEN H ELSE flush_cache(A, TRUE, l)
  BY <1>4 DEF tick
<1>a. h \in Nat
  BY <1>1
<1> HIDE DEF p, h
<1>5. /\ H \in RecT /\ H.poh = p /\ H.height = h /\ H.bank = R.bank
      /\ H.cache = R.cache /\ H.start = R.start /\ H.leader = R.leader
  BY Zenon, <1>1, <1>3, <1>a DEF RecT
<1> HIDE DEF H
<1>b. H.height = R.height + 1
  BY Zenon, <1>5 DEF h
<1>6. InPhase(H)
  <2>1. PICK k \in Nat : R.height = k * TicksPerSlot + R.poh.tick
    BY Zenon DEF RecInv, InPhase
  <2>2. (k + 1) * TicksPerSlot = k * TicksPerSlot + TicksPerSlot /\ k * TicksPerSlot \in Nat
    BY Zenon, TimesNext
  <2>3. CASE R.poh.tick = TicksPerSlot - 1
    <3>1. H.height = (k + 1) * TicksPerSlot + H.poh.tick /\ k + 1 \in Nat
      BY <1>1, <1>3, <1>5, <1>b, <2>1, <2>2, <2>3
    <3> QED
      BY Zenon, <3>1 DEF InPhase
  <2>4. CASE R.poh.tick # TicksPerSlot - 1
    <3>1. H.height = k * TicksPerSlot + H.poh.tick
      BY <1>1, <1>3, <1>5, <1>b, <2>1, <2>2, <2>4
    <3> QED
      BY Zenon, <3>1 DEF InPhase
  <2> QED
    BY Zenon, <2>3, <2>4
<1>8. CASE ~R.leader
  <2>1. R.bank = None
    BY Zenon, <1>8 DEF RecInv, Working
  <2>2. RecInv(H)
    BY Zenon, <1>5, <1>6, <1>8, <2>1 DEF RecInv, Waiting
  <2> QED
    BY Zenon, <1>3, <1>5, <1>b, <1>7, <1>8, <2>1, <2>2 DEF Ticked
<1>9. CASE R.leader
  <2>1. /\ A \in RecT /\ A.poh = p /\ A.height = R.height + 1 /\ A.bank = R.bank
        /\ A.cache = Append(R.cache, R.height + 1) /\ A.start = R.start /\ A.leader = R.leader
    <3>1. s \in Seq(Nat) /\ s = Append(R.cache, R.height + 1)
      BY <1>1, <1>a, <1>5, <1>b
    <3> HIDE DEF s
    <3> QED
      BY Zenon, <1>5, <1>b, <3>1 DEF RecT
  <2> HIDE DEF A
  <2>2. InPhase(A)
    BY Zenon, <1>5, <1>b, <1>6, <2>1 DEF InPhase
  <2>3. Len(A.cache) = Len(R.cache) + 1 /\ Len(R.cache) \in Nat
        /\ \A i \in 1..Len(R.cache) : A.cache[i] = R.cache[i]
        /\ A.cache[Len(R.cache) + 1] = R.height + 1 /\ DOMAIN A.cache = 1..Len(R.cache) + 1
    BY <1>1, <2>1
  <2>4. Gapless(R)
    BY Zenon, <1>9, <1>1, InvFlushable DEF Flushable, Waiting
  <2>5. Gapless(A)
    <3>1. ASSUME NEW i \in 1..Len(R.cache) + 1
          PROVE  A.cache[i] = A.height - Len(A.cache) + i
      <4>1. CASE i = Len(R.cache) + 1
        BY <1>1, <2>1, <2>3, <4>1
      <4>2. CASE i \in 1..Len(R.cache)
        <5>1. R.cache[i] = R.height - Len(R.cache) + i
          BY <1>1, <2>4, <4>2 DEF Gapless
        <5> QED
          BY <1>1, <2>1, <2>3, <4>2, <5>1
      <4> QED
        BY <2>3, <4>1, <4>2
    <3> QED
      BY <2>3, <3>1 DEF Gapless
  <2>6. CASE R.bank = None
    <3>1. Flushable(A)
      <4>1. MaxTickHeight(R.start) \in Nat /\ R.height = MaxTickHeight(R.start) + Len(R.cache)
        BY Zenon, <1>1, <1>9, <2>6, EndOfSlot DEF RecInv, Waiting
      <4>2. A.height = MaxTickHeight(A.start) + Len(A.cache)
        BY <1>1, <2>1, <2>3, <4>1
      <4> QED
        BY Zenon, <2>1, <2>2, <2>5, <2>6, <4>2 DEF Flushable, Waiting
    <3>a. A.bank = None /\ T = flush_cache(A, TRUE, l)
      BY Zenon, <1>7, <1>9, <2>1, <2>6
    <3>b. Flushed(A, flush_cache(A, TRUE, l))
      BY Zenon, <3>1, <3>a, FlushRec
    <3>2. RecInv(T) /\ T = A
      BY Zenon, <3>a, <3>b DEF Flushed
    <3> QED
      BY Zenon, <1>3, <2>1, <2>6, <3>a, <3>2 DEF Ticked
  <2>7. CASE R.bank # None
    <3>1. Working(R) /\ R.bank \in BankT /\ R.cache = <<>>
      BY Zenon, <1>1, <2>7 DEF RecInv, Working
    <3>2. R.bank.ticks \in Nat /\ R.bank.max \in Nat /\ R.bank.min \in Nat
      BY Zenon, <3>1 DEF BankT
    <3>3. Len(A.cache) = 1 /\ A.height > A.bank.min
      BY <1>1, <2>1, <2>3, <3>1, <3>2 DEF Working
    <3>4. Flushable(A)
      BY <1>1, <2>1, <2>2, <2>5, <2>7, <3>1, <3>2, <3>3 DEF Flushable, Working
    <3>5. /\ RecInv(T) /\ T.poh = A.poh /\ T.height = A.height
          /\ A.bank # None /\ A.height < A.bank.max =>
                T.bank # None /\ T.bank.id = A.bank.id /\ T.bank.max = A.bank.max
          /\ A.bank # None /\ A.height >= A.bank.max => T.bank = None
      <4>1. T = flush_cache(A, TRUE, l)
        BY Zenon, <1>7, <1>9
      <4>2. Flushed(A, flush_cache(A, TRUE, l))
        BY Zenon, <3>3, <3>4, FlushRec
      <4> QED
        BY Zenon, <4>1, <4>2 DEF Flushed
    <3> QED
      BY Zenon, <1>3, <2>1, <2>7, <3>5 DEF Ticked
  <2> QED
    BY Zenon, <2>6, <2>7
<1> QED
  BY Zenon, <1>1, <1>8, <1>9

\* PohRecorder::reset is ready to cache the ticks after the slot it is given.
LEMMA ResetRec ==
    ASSUME NEW R, RecInv(R), NEW s \in Nat, NEW l \in BOOLEAN, NEW F, F = reset(R, s, l)
    PROVE  RecInv(F) /\ F.bank = None /\ F.poh.left = HashesPerTick
<1>1. R \in RecT
  BY Zenon DEF RecInv
<1>2. MaxTickHeight(s) \in Nat /\ MaxTickHeight(s) = (s + 1) * TicksPerSlot + 0
  BY Zenon, EndOfSlot
<1>3. PohReset \in PohT /\ PohReset.tick = 0 /\ PohReset.left = HashesPerTick
  BY DEF PohReset, PohT
<1>4. /\ F \in RecT /\ F.poh = PohReset /\ F.height = MaxTickHeight(s) /\ F.bank = None
      /\ F.cache = <<>> /\ F.start = s /\ F.leader = l
  <2> DEFINE h == MaxTickHeight(s)
             e == <<>>
             P == [R EXCEPT !.poh = PohReset, !.cache = e, !.height = h]
  <2>1. F = [P EXCEPT !.bank = None, !.leader = l, !.start = s]
    BY Zenon, <1>1 DEF reset, ClearBank, reset_poh, RecT
  <2>a. h \in Nat /\ e \in Seq(Nat)
    BY <1>2
  <2> HIDE DEF h, e
  <2>2. /\ P \in RecT /\ P.poh = PohReset /\ P.height = h /\ P.cache = e
    BY Zenon, <1>1, <1>3, <2>a DEF RecT
  <2> HIDE DEF P
  <2>3. /\ F \in RecT /\ F.poh = P.poh /\ F.height = P.height /\ F.cache = P.cache
        /\ F.bank = None /\ F.start = s /\ F.leader = l
    BY Zenon, <2>1, <2>2 DEF RecT
  <2> QED
    BY Zenon, <2>2, <2>3 DEF h, e
<1>5. InPhase(F)
  <2>1. s + 1 \in Nat /\ F.height = (s + 1) * TicksPerSlot + F.poh.tick
    BY <1>2, <1>3, <1>4
  <2> QED
    BY Zenon, <2>1 DEF InPhase
<1>6. Waiting(F)
  <2>1. Len(F.cache) = 0 /\ DOMAIN F.cache = {}
    BY <1>4
  <2>2. F.height = MaxTickHeight(F.start) + 0
    BY <1>2, <1>4
  <2> QED
    BY Zenon, <2>1, <2>2 DEF Waiting, Gapless
<1> QED
  BY Zenon, <1>3, <1>4, <1>5, <1>6 DEF RecInv

BankSet(R, b, F) ==
    /\ RecInv(F)
    /\ F.poh.left = R.poh.left \/ F.poh.left = HashesPerTick
    /\ F.height < b.max => F.bank # None /\ F.bank.id = b.id /\ F.bank.max = b.max
    /\ F.height >= b.max => F.bank = None

\* set_bank gives such a bank the ticks since its parent, and becomes its
\* recorder unless they are all the bank has.
LEMMA SetBankRec ==
    ASSUME NEW R, RecInv(R), NEW b, MadeFor(R, b), NEW rehash \in BOOLEAN, NEW l \in BOOLEAN
    PROVE  BankSet(R, b, set_bank(R, b, rehash, l))
<1> DEFINE S == IF rehash THEN reset_poh(R, R.start) ELSE R
           B == [S EXCEPT !.bank = b]
<1>1. /\ R \in RecT /\ R.poh \in PohT /\ R.height \in Nat /\ R.cache \in Seq(Nat)
      /\ R.start \in Nat /\ R.leader = TRUE /\ InPhase(R) /\ Gapless(R)
      /\ R.height = MaxTickHeight(R.start) + Len(R.cache)
  BY Zenon DEF RecInv, RecT, MadeFor, Waiting
<1>2. MaxTickHeight(R.start) \in Nat /\ MaxTickHeight(R.start) = (R.start + 1) * TicksPerSlot + 0
  BY Zenon, <1>1, EndOfSlot
<1>3. PohReset \in PohT /\ PohReset.tick = 0 /\ PohReset.left = HashesPerTick
  BY DEF PohReset, PohT
<1>4. /\ S \in RecT /\ S.start = R.start /\ S.leader = TRUE /\ InPhase(S) /\ Gapless(S)
      /\ S.height = MaxTickHeight(R.start) + Len(S.cache) /\ S.poh \in {R.poh, PohReset}
  <2>1. CASE rehash
    <3> DEFINE h == MaxTickHeight(R.start)
               e == <<>>
               P == [R EXCEPT !.poh = PohReset, !.cache = e, !.height = h]
    <3>1. S = P
      BY Zenon, <2>1 DEF reset_poh
    <3>a. h \in Nat /\ e \in Seq(Nat)
      BY <1>2
    <3> HIDE DEF h, e
    <3>2. /\ P \in RecT /\ P.poh = PohReset /\ P.height = h /\ P.cache = e
          /\ P.start = R.start /\ P.leader = TRUE
      BY Zenon, <1>1, <1>3, <3>a DEF RecT
    <3> HIDE DEF P
    <3>3. InPhase(P)
      <4>1. R.start + 1 \in Nat /\ P.height = (R.start + 1) * TicksPerSlot + P.poh.tick
        BY <1>1, <1>2, <1>3, <3>2 DEF h
      <4> QED
        BY Zenon, <4>1 DEF InPhase
    <3>4. Gapless(P) /\ P.height = MaxTickHeight(R.start) + Len(P.cache)
      <4>1. Len(P.cache) = 0 /\ DOMAIN P.cache = {}
        BY <3>2 DEF e
      <4>2. P.height = MaxTickHeight(R.start) + 0
        BY <1>2, <3>2 DEF h
      <4> QED
        BY Zenon, <4>1, <4>2 DEF Gapless
    <3> HIDE DEF S
    <3> QED
      BY Zenon, <3>1, <3>2, <3>3, <3>4
  <2>2. CASE ~rehash
    BY Zenon, <1>1, <2>2
  <2> QED
    BY Zenon, <2>1, <2>2
<1>5. set_bank(R, b, rehash, l) = flush_cache(B, FALSE, l)
  BY Zenon DEF set_bank
<1> HIDE DEF S
<1>6. /\ B \in RecT /\ B.poh = S.poh /\ B.height = S.height /\ B.bank = b
      /\ B.cache = S.cache /\ B.start = S.start /\ B.leader = S.leader
  BY Zenon, <1>4 DEF RecT, MadeFor
<1> HIDE DEF B
<1>7. b # None /\ b.slot \in Nat /\ b.ticks \in Nat /\ b.max \in Nat /\ b.min \in Nat
  BY Zenon, NoneIsNone DEF MadeFor, BankT
<1>8. b.ticks <= b.max
  <2>1. R.start + 1 \in Nat /\ b.slot + 1 \in Nat /\ R.start + 1 <= b.slot + 1
    BY <1>1, <1>7 DEF MadeFor
  <2>2. (R.start + 1) * TicksPerSlot <= (b.slot + 1) * TicksPerSlot
    BY Zenon, <2>1, TimesGrows
  <2> QED
    BY Zenon, <2>2 DEF MadeFor, MaxTickHeight
<1>9. Flushable(B)
  <2>1. InPhase(B) /\ Gapless(B)
    BY Zenon, <1>4, <1>6 DEF InPhase, Gapless
  <2>2. B.height = b.ticks + Len(B.cache)
    BY Zenon, <1>4, <1>6 DEF MadeFor
  <2> QED
    BY <1>4, <1>6, <1>7, <1>8, <2>1, <2>2 DEF Flushable, MadeFor
<1>10. Flushed(B, flush_cache(B, FALSE, l))
  BY Zenon, <1>9, FlushRec
<1> QED
  BY Zenon, <1>3, <1>4, <1>5, <1>6, <1>7, <1>10 DEF Flushed, BankSet

\* Hashing changes nothing but the hashes left in the tick, and leaves one.
Hashed(R, F) ==
    /\ RecInv(F)
    /\ F.poh = PohHash(R.poh)
    /\ F.poh.left = R.poh.left - Least(R.poh.left - 1, HashesPerBatch)
    /\ F.poh.tick = R.poh.tick
    /\ F.height = R.height /\ F.bank = R.bank /\ F.leader = R.leader /\ F.start = R.start

LEMMA HashRec ==
    ASSUME NEW R, RecInv(R)
    PROVE  Hashed(R, [R EXCEPT !.poh = PohHash(R.poh)])
<1> DEFINE p == PohHash(R.poh)
           n == R.poh.left - Least(R.poh.left - 1, HashesPerBatch)
           F == [R EXCEPT !.poh = p]
<1>1. R \in RecT /\ R.poh \in PohT /\ R.poh.left \in 1..HashesPerTick
  BY Zenon DEF RecInv, RecT, PohT
<1>2. n \in 1..HashesPerTick
  BY <1>1 DEF Least
<1>3. p = [R.poh EXCEPT !.left = n]
  BY Zenon, <1>1 DEF PohHash, PohT
<1> HIDE DEF n
<1>4. p \in PohT /\ p.left = n /\ p.tick = R.poh.tick
  BY Zenon, <1>1, <1>2, <1>3 DEF PohT
<1> HIDE DEF p
<1>5. /\ F \in RecT /\ F.poh = p /\ F.height = R.height /\ F.bank = R.bank
      /\ F.cache = R.cache /\ F.leader = R.leader /\ F.start = R.start
  BY Zenon, <1>1, <1>4 DEF RecT
<1> HIDE DEF F
<1>6. InPhase(F)
  BY Zenon, <1>4, <1>5 DEF RecInv, InPhase
<1>7. (Working(R) => Working(F)) /\ (Waiting(R) => Waiting(F))
  BY Zenon, <1>5 DEF Working, Waiting, Gapless
<1>8. RecInv(F)
  BY Zenon, <1>5, <1>6, <1>7 DEF RecInv
<1>9. Hashed(R, F)
  BY Zenon, <1>4, <1>5, <1>8 DEF Hashed, p, n
<1> QED
  BY Zenon, <1>9 DEF F, p

\* record() keeps the invariant, and succeeds for the working bank unless it
\* has to end the bank's slot first.
Recorded(R, b, r) ==
    /\ RecInv(r.rec)
    /\ r.ok \in BOOLEAN
    /\ r.ok => /\ R.bank # None
               /\ r.rec.bank # None
               /\ r.rec.bank.id = R.bank.id
               /\ r.rec.bank.max = R.bank.max
               /\ r.rec.height = IF R.poh.left = 1 THEN R.height + 1 ELSE R.height
               /\ r.rec.poh.left = IF R.poh.left = 1 THEN HashesPerTick - 1 ELSE R.poh.left - 1
    /\ R.bank # None /\ R.bank.id = b /\ (R.poh.left = 1 => R.height + 1 < R.bank.max) => r.ok

\* The working bank of a recorder is open for records.
LEMMA NoRecordError ==
    ASSUME NEW R, RecInv(R), NEW b
    PROVE  RecordError(R, b) <=> R.bank = None \/ R.bank.id # b
<1>1. CASE R.bank # None
  <2>1. R.bank \in BankT /\ R.height \in Nat /\ Working(R)
    BY Zenon, <1>1 DEF RecInv, RecT
  <2>2. R.bank.min \in Nat /\ R.bank.max \in Nat
    BY Zenon, <2>1 DEF BankT
  <2> QED
    BY <1>1, <2>1, <2>2 DEF RecordError, FlushError, Working
<1>2. CASE R.bank = None
  BY Zenon, <1>2 DEF RecordError, FlushError
<1> QED
  BY Zenon, <1>1, <1>2

\* Flushing a recorder whose cache is in order.
LEMMA FlushAgain ==
    ASSUME NEW R, RecInv(R), NEW l \in BOOLEAN
    PROVE  Flushed(R, flush_cache(R, FALSE, l)) /\ (R.bank # None => R.height < R.bank.max)
  BY Zenon, InvFlushable, FlushRec DEF RecInv, Working

LEMMA RecordRec ==
    ASSUME NEW R, RecInv(R), NEW b, NEW l \in BOOLEAN
    PROVE  Recorded(R, b, record(R, b, l))
<1> DEFINE G == flush_cache(R, FALSE, l)
           T == IF R.poh.left = 1 THEN tick(G, l) ELSE R
           F == flush_cache(T, FALSE, l)
           ok == ~RecordError(R, b) /\ ~RecordError(T, b)
           E == [F EXCEPT !.poh.left = @ - 1]
<1>1. record(R, b, l) = [ok |-> ok, rec |-> IF ok THEN E ELSE F]
  BY Zenon DEF record
<1>2. Flushed(R, G) /\ (R.bank # None => R.height < R.bank.max)
  BY Zenon, FlushAgain
<1>a. R.poh \in PohT /\ R.poh.left \in 1..HashesPerTick /\ R.height \in Nat
  BY Zenon DEF RecInv, RecT, PohT
<1>b. R.bank # None => R.bank \in BankT /\ R.bank.max \in Nat
  BY Zenon DEF RecInv, RecT, BankT
<1>3. /\ RecInv(G) /\ G.poh = R.poh /\ G.height = R.height
      /\ R.bank = None => G.bank = None
      /\ R.bank # None => G.bank # None /\ G.bank.id = R.bank.id /\ G.bank.max = R.bank.max
  BY Zenon, <1>2 DEF Flushed
<1> HIDE DEF G
<1>4. /\ RecInv(T)
      /\ T.poh.left = IF R.poh.left = 1 THEN HashesPerTick ELSE R.poh.left
      /\ T.height = IF R.poh.left = 1 THEN R.height + 1 ELSE R.height
      /\ R.bank = None => T.bank = None
      /\ R.bank # None /\ T.height < R.bank.max =>
            T.bank # None /\ T.bank.id = R.bank.id /\ T.bank.max = R.bank.max
      /\ R.bank # None /\ ~(T.height < R.bank.max) => T.bank = None
  <2>1. CASE R.poh.left = 1
    <3> DEFINE U == tick(G, l)
    <3>1. T = U
      BY Zenon, <2>1
    <3> HIDE DEF T
    <3>2. /\ RecInv(U) /\ U.poh.left = HashesPerTick /\ U.height = G.height + 1
          /\ G.bank = None => U.bank = None /\ U.leader = G.leader /\ U.start = G.start
          /\ G.bank # None /\ G.height + 1 < G.bank.max =>
                U.bank # None /\ U.bank.id = G.bank.id /\ U.bank.max = G.bank.max
          /\ G.bank # None /\ G.height + 1 >= G.bank.max => U.bank = None
      <4>1. Ticked(G, U)
        BY Zenon, <1>3, <2>1, TickRec
      <4> QED
        BY Zenon, <4>1 DEF Ticked
    <3> HIDE DEF U
    <3> QED
      BY <1>a, <1>b, <1>3, <2>1, <3>1, <3>2
  <2>2. CASE R.poh.left # 1
    BY Zenon, <1>2, <2>2
  <2> QED
    BY Zenon, <2>1, <2>2
<1> HIDE DEF T
<1>5. Flushed(T, F) /\ (T.bank # None => T.height < T.bank.max)
  BY Zenon, <1>4, FlushAgain
<1> HIDE DEF F
<1>6. RecInv(F) /\ F.poh = T.poh /\ F.height = T.height
      /\ (T.bank # None => F.bank # None /\ F.bank.id = T.bank.id /\ F.bank.max = T.bank.max)
  BY Zenon, <1>5 DEF Flushed
<1>7. /\ E.poh.left = T.poh.left - 1 /\ E.height = F.height /\ E.bank = F.bank /\ RecInv(E)
  <2> DEFINE n == F.poh.left - 1
             p == [F.poh EXCEPT !.left = n]
  <2>1. F \in RecT /\ F.poh \in PohT /\ n \in 1..HashesPerTick
    <3>1. T.poh.left \in 2..HashesPerTick
      BY <1>a, <1>4
    <3> QED
      BY <1>6, <3>1 DEF RecInv, RecT
  <2>2. E = [F EXCEPT !.poh = p]
    BY Zenon, <2>1 DEF RecT
  <2>3. n = T.poh.left - 1
    BY Zenon, <1>6
  <2> HIDE DEF n
  <2>4. p \in PohT /\ p.left = n /\ p.tick = F.poh.tick
    BY Zenon, <2>1 DEF PohT
  <2> HIDE DEF p, E
  <2>5. /\ E \in RecT /\ E.poh = p /\ E.height = F.height /\ E.bank = F.bank
        /\ E.cache = F.cache /\ E.leader = F.leader /\ E.start = F.start
    BY Zenon, <2>1, <2>2, <2>4 DEF RecT
  <2>6. InPhase(E)
    BY Zenon, <1>6, <2>4, <2>5 DEF RecInv, InPhase
  <2>7. (Working(F) => Working(E)) /\ (Waiting(F) => Waiting(E))
    BY Zenon, <2>5 DEF Working, Waiting, Gapless
  <2> QED
    BY Zenon, <1>6, <2>3, <2>4, <2>5, <2>6, <2>7 DEF RecInv
<1> HIDE DEF E
<1>8. ok <=> R.bank # None /\ R.bank.id = b /\ T.bank # None /\ T.bank.id = b
  BY Zenon, <1>4, NoRecordError
<1>c. ok \in BOOLEAN
  BY Zenon
<1> HIDE DEF ok
<1> DEFINE r == record(R, b, l)
<1>9. (r.ok <=> ok) /\ r.ok \in BOOLEAN /\ r.rec = IF ok THEN E ELSE F
  <2>1. r.ok = ok /\ r.rec = IF ok THEN E ELSE F
    BY <1>1
  <2> QED
    BY Zenon, <1>c, <2>1
<1> HIDE DEF r
<1>10. Recorded(R, b, r)
  <2>1. RecInv(r.rec)
    BY Zenon, <1>6, <1>7, <1>9
  <2>2. CASE ok
    BY Zenon, <1>4, <1>5, <1>6, <1>7, <1>8, <1>9, <1>a, <2>1, <2>2 DEF Recorded
  <2>3. CASE ~ok
    BY Zenon, <1>2, <1>4, <1>8, <1>9, <1>a, <1>b, <2>1, <2>3 DEF Recorded
  <2> QED
    BY Zenon, <2>2, <2>3
<1> QED
  BY Zenon, <1>10 DEF r

-----------------------------------------------------------------------------
(* The service keeps the protocol of the channel *)

\* The one condition of the protocol that is not in the receiver's own methods:
\* it asks is_safe_to_restart() of a channel that it has shut down.
LEMMA ProtocolStep ==
    ASSUME SInv, PohNext
    PROVE  [Next]_vars
<1>1. CASE ReplayStep
  BY Zenon, <1>1 DEF ReplayStep, SendReset, SendSetBank, SetExit, SetShutdownPoh, Send
<1>2. ASSUME NEW s \in Senders, Sending(s)
      PROVE  Next
  BY Zenon, <1>2 DEF Sending, Next
<1>3. CASE CheckExit \/ check_for_service_message
  BY Zenon, <1>3 DEF CheckExit, check_for_service_message, ShutdownIf, StopRecords, Next
<1>4. CASE Record1
  BY Zenon, <1>4 DEF Record1, AfterRecord, ShutdownIf, Next
<1>5. CASE Receive \/ Received
  BY Zenon, <1>5 DEF Receive, Received, Next, ReceiverStep
<1>6. CASE WaitOver \/ Tick \/ EndInner \/ HandleReset
  BY Zenon, <1>6 DEF WaitOver, Tick, EndInner, HandleReset
<1>7. CASE Hash
  BY Zenon, <1>7 DEF Hash, ShutdownIf, Next
<1>8. CASE AskActive
  <2>1. CASE UNCHANGED vars
    BY Zenon, <2>1
  <2>2. CASE SafeLoadActive
    <3>1. Closed
      BY Zenon, <1>8 DEF AskActive, Asking, SInv, Control, OpenForBank
    <3> QED
      BY Zenon, <2>2, <3>1 DEF Closed, AskSafe, ReceiverStep, Next
  <2> QED
    BY Zenon, <1>8, <2>1, <2>2 DEF AskActive
<1>9. CASE AskEmpty
  BY Zenon, <1>9 DEF AskEmpty, ReceiverStep, Next
<1>10. CASE DropUnprocessed \/ Finish
  BY Zenon, <1>10 DEF DropUnprocessed, Finish, Next
<1>11. CASE HandleSetBank \/ EndRestart
  BY Zenon, <1>11 DEF HandleSetBank, EndRestart, ReceiverStep, Next
<1> QED
  BY Zenon, <1>1, <1>2, <1>3, <1>4, <1>5, <1>6, <1>7, <1>8, <1>9, <1>10, <1>11 DEF PohNext, ServiceStep

-----------------------------------------------------------------------------
(* Every step preserves the invariant *)

\* Senders reserve room in the word and leave its bank, and the receiver, alone.
LEMMA SendingStep ==
    ASSUME SInv, NEW s \in Senders, Sending(s), IInv'
    PROVE  SInv'
<1>1. word'.bank = word.bank /\ UNCHANGED <<connected, rpc, lastBank>>
  <2>1. CASE CompareExchange(s)
    <3>1. word \in Word
      BY Zenon DEF SInv, IInv, TypeOK
    <3>2. CASE word' = Reserve(s)
      BY Zenon, <2>1, <3>1, <3>2 DEF CompareExchange, Reserve, Word, receiverVars
    <3>3. CASE word' = word
      BY Zenon, <2>1, <3>3 DEF CompareExchange, receiverVars
    <3> QED
      BY Zenon, <2>1, <3>2, <3>3 DEF CompareExchange
  <2>2. CASE Call(s) \/ Lock(s) \/ Load(s) \/ IncActive(s) \/ Undo(s)
    BY Zenon, <2>2 DEF Call, Lock, Load, IncActive, Undo, receiverVars
  <2>3. CASE Push(s) \/ PushDisconnected(s) \/ DecActive(s) \/ FailDisconnected(s) \/ ReturnIndex(s)
    BY Zenon, <2>3 DEF Push, PushDisconnected, DecActive, FailDisconnected, ReturnIndex, receiverVars
  <2> QED
    BY Zenon, <2>1, <2>2, <2>3 DEF Sending, SenderStep
<1>2. UNCHANGED <<serviceVars, replayVars>>
  BY Zenon DEF Sending
<1>3. PohTypeOK' /\ RecInv(rec)' /\ Messages'
  BY Zenon, <1>1, <1>2 DEF SInv, PohTypeOK, Messages, serviceVars, replayVars
<1>4. Control' /\ OpenForBank'
  BY Zenon, <1>1, <1>2 DEF SInv, Control, OpenForBank, Closed, Receiving, serviceVars, replayVars
<1> QED
  BY Zenon, <1>3, <1>4 DEF SInv

\* Steps of the thread that neither touch the recorder nor the messages.
LEMMA Bystander ==
    ASSUME SInv, UNCHANGED <<rec, msg, replayVars>>, svc # "restart", svc' # "restart",
           connected' => connected
    PROVE  RecInv(rec)' /\ Messages'
  BY Zenon DEF SInv, Messages, replayVars

LEMMA CheckExitStep ==
    ASSUME SInv, CheckExit, IInv'
    PROVE  SInv'
<1>2. PohTypeOK'
  BY Zenon DEF SInv, PohTypeOK, CheckExit, replayVars, Svc
<1>3. connected' = connected /\ lastBank' = lastBank /\ rpc' \in {rpc, "idle"}
      /\ (Closed \/ exiting' => Closed') /\ (word' = word \/ Closed')
  BY DEF CheckExit, ShutdownIf, Shutdown, vars, receiverVars, Closed, SHUTDOWN
<1>1. RecInv(rec)' /\ Messages'
  BY Zenon, <1>3, Bystander DEF CheckExit
<1>4. Control'
  BY Zenon, <1>3 DEF SInv, Control, CheckExit, Receiving
<1>5. OpenForBank'
  BY Zenon, <1>3 DEF SInv, OpenForBank, Control, CheckExit, Closed, PohTypeOK
<1> QED
  BY Zenon, <1>1, <1>2, <1>4, <1>5 DEF SInv

LEMMA CheckMessageStep ==
    ASSUME SInv, check_for_service_message, IInv'
    PROVE  SInv'
<1>1. CASE queue = <<>>
  <2>1. UNCHANGED <<vars, msg, queue>>
    BY Zenon, <1>1 DEF check_for_service_message
  <2>2. RecInv(rec)' /\ Messages'
    BY Zenon, <2>1, Bystander DEF check_for_service_message, replayVars, vars
  <2>3. PohTypeOK'
    BY Zenon, <2>1 DEF SInv, PohTypeOK, check_for_service_message, Svc
  <2>4. Control' /\ OpenForBank'
    BY Zenon, <2>1 DEF SInv, Control, OpenForBank, Closed, Receiving, check_for_service_message, vars,
                receiverVars
  <2> QED
    BY Zenon, <2>2, <2>3, <2>4 DEF SInv
<1>2. CASE queue # <<>>
  <2>1. msg' = Head(queue) /\ queue' = Tail(queue) /\ Shutdown
    BY Zenon, <1>2 DEF check_for_service_message, StopRecords
  <2>2. /\ queue \in Seq(Message) /\ Len(queue) = 1 /\ pending >= 1
        /\ (connected => Fits(rec, Head(queue))) /\ Head(queue) \in Message
    BY <1>2 DEF SInv, Messages, PohTypeOK
  <2>3. queue' = <<>> /\ msg' \in Message
    BY <2>1, <2>2
  <2>4. PohTypeOK' /\ RecInv(rec)'
    BY <2>3 DEF SInv, PohTypeOK, check_for_service_message, Svc
  <2>6. Closed' /\ connected' = connected /\ rpc' = "idle"
    BY Zenon, <2>1 DEF Shutdown, Closed, SHUTDOWN
  <2>5. Messages'
    BY Zenon, <1>2, <2>1, <2>2, <2>3, <2>6 DEF SInv, Messages, check_for_service_message
  <2>7. Control' /\ OpenForBank'
    BY Zenon, <2>6 DEF SInv, Control, OpenForBank, Closed, Receiving, check_for_service_message
  <2> QED
    BY Zenon, <2>4, <2>5, <2>7 DEF SInv
<1> QED
  BY Zenon, <1>1, <1>2

LEMMA Record1Step ==
    ASSUME SInv, Record1, IInv'
    PROVE  SInv'
<1>1. PICK l \in BOOLEAN :
        LET r == record(rec, next.bank, l)
        IN  /\ rec' = r.rec
            /\ IF r.ok THEN AfterRecord(r.rec.poh) ELSE DropReceiver
            /\ svc' = IF r.ok THEN "record_recv" ELSE "failed"
  BY Zenon DEF Record1
<1> DEFINE r == record(rec, next.bank, l)
<1>2. Recorded(rec, next.bank, r)
  BY Zenon, RecordRec DEF SInv
<1>3. /\ rec' = r.rec /\ svc = "record" /\ next' = None /\ UNCHANGED <<exiting, got, msg, replayVars>>
      /\ IF r.ok THEN AfterRecord(r.rec.poh) ELSE DropReceiver
      /\ svc' = IF r.ok THEN "record_recv" ELSE "failed"
  BY Zenon, <1>1 DEF Record1
<1> HIDE DEF r
<1>4. PohTypeOK' /\ RecInv(rec)'
  BY Zenon, <1>2, <1>3 DEF SInv, PohTypeOK, Recorded, replayVars, Svc
<1>5. CASE r.ok
  <2>1. /\ svc' = "record_recv" /\ connected' = connected /\ lastBank' = lastBank
        /\ rpc' \in {rpc, "idle"} /\ (word' = word \/ Closed') /\ (Closed => Closed')
    BY <1>3, <1>5 DEF AfterRecord, ShutdownIf, Shutdown, vars, receiverVars, Closed, SHUTDOWN
  <2>2. rec.bank # None /\ rec'.bank # None /\ rec'.bank.id = rec.bank.id
    BY Zenon, <1>2, <1>3, <1>5 DEF Recorded
  <2>3. Messages'
    BY Zenon, <1>3, <2>1, <2>2 DEF SInv, Messages, Fits, MadeFor, replayVars
  <2>4. Control'
    BY Zenon, <1>3, <2>1 DEF SInv, Control, Receiving
  <2>5. OpenForBank'
    BY Zenon, <1>3, <2>1, <2>2 DEF SInv, OpenForBank, Closed
  <2> QED
    BY Zenon, <1>4, <2>3, <2>4, <2>5 DEF SInv
<1>6. CASE ~r.ok
  <2>1. svc' = "failed" /\ ~connected' /\ word' = word /\ rpc' = "gone"
    BY Zenon, <1>3, <1>6 DEF DropReceiver
  <2>2. Messages'
    BY Zenon, <1>3, <2>1 DEF SInv, Messages, replayVars
  <2>3. Control' /\ OpenForBank'
    BY Zenon, <1>3, <2>1 DEF SInv, Control, OpenForBank, Closed, Receiving
  <2> QED
    BY Zenon, <1>4, <2>2, <2>3 DEF SInv
<1> QED
  BY Zenon, <1>5, <1>6

\* A receive that found a record holds one of the queue.
LEMMA ReceiveStep ==
    ASSUME SInv, Receive, IInv'
    PROVE  SInv'
<1>1. /\ Receiving /\ UNCHANGED <<exiting, next, msg, rec, replayVars>>
      /\ TryRecv \/ LoadActive \/ Retry
      /\ got' = IF rpc' = "got" THEN Head(chan) ELSE got
      /\ svc' \in IF rpc' = "empty" THEN AfterEmpty ELSE {svc}
  BY Zenon DEF Receive
<1>2. /\ UNCHANGED <<word, connected, lastBank>>
      /\ rpc' \in {"got", "active", "try", "retry", "empty"}
      /\ rpc' = "got" => chan # <<>>
  BY Zenon, <1>1 DEF TryRecv, LoadActive, Retry, Take, TryRecvEmpty, AfterActive, channelVars
<1>3. svc' \in {"record_recv", "hash_recv", "wait_recv", "after", "hash"}
      /\ (rpc' # "empty" => svc' = svc) /\ (svc' = "hash" => rpc' = "empty")
  <2>1. AfterEmpty \subseteq {"after", "wait_recv", "hash"}
    BY Zenon, <1>1 DEF AfterEmpty, Receiving
  <2> QED
    BY Zenon, <1>1, <2>1 DEF Receiving
<1>4. got' \in Record \cup {None} /\ (rpc' = "got" => got' # None)
  <2>1. chan \in Seq(Record)
    BY Zenon DEF SInv, IInv, TypeOK
  <2> QED
    BY <1>1, <1>2, <2>1, NoneIsNone DEF SInv, PohTypeOK
<1>5. PohTypeOK'
  BY Zenon, <1>1, <1>3, <1>4 DEF SInv, PohTypeOK, Svc, replayVars
<1>6. RecInv(rec)' /\ Messages'
  BY Zenon, <1>1, <1>2, <1>3, Bystander DEF Receiving
<1>7. Control'
  BY Zenon, <1>1, <1>2, <1>3, <1>4 DEF SInv, Control, Receiving
<1>8. OpenForBank'
  BY Zenon, <1>1, <1>2, <1>3 DEF SInv, OpenForBank, Closed, Receiving
<1> QED
  BY Zenon, <1>5, <1>6, <1>7, <1>8 DEF SInv

\* on_received_record() gives the room back without a carry into the bank id.
LEMMA NoCarry ==
    ASSUME IInv, OnReceivedRecord
    PROVE  word'.bank = word.bank
<1>1. word \in Word /\ connected /\ rpc = "got"
  BY Zenon DEF IInv, TypeOK, GoneMeansDropped, OnReceivedRecord
<1>2. word.allowed + Outstanding <= Capacity /\ Outstanding \in Nat /\ Outstanding >= 1
  <2>1. IsFiniteSet(inflight) /\ chan \in Seq(Record) /\ word.allowed + Outstanding <= Capacity
    BY Zenon, <1>1 DEF IInv, TypeOK, InflightOwned, Conservation
  <2>2. Cardinality(inflight) \in Nat /\ Len(chan) \in Nat
    BY <2>1, FS_CardinalityType
  <2> QED
    BY <1>1, <2>1, <2>2 DEF Outstanding, Got
<1>3. word.allowed < Capacity
  BY <1>1, <1>2 DEF Word
<1> QED
  BY Zenon, <1>1, <1>3 DEF OnReceivedRecord, Word

LEMMA ReceivedStep ==
    ASSUME SInv, Received, IInv'
    PROVE  SInv'
<1>1. /\ Receiving /\ OnReceivedRecord /\ UNCHANGED <<exiting, msg, rec, replayVars>>
      /\ next' = got /\ got' = None
      /\ svc' = IF svc = "record_recv" THEN "record" ELSE "after"
  BY Zenon DEF Received
<1>2. word'.bank = word.bank /\ rpc' = "idle" /\ UNCHANGED <<connected, lastBank>>
  BY Zenon, <1>1, NoCarry DEF SInv, OnReceivedRecord
<1>3. PohTypeOK'
  BY Zenon, <1>1 DEF SInv, PohTypeOK, Svc, replayVars
<1>4. RecInv(rec)' /\ Messages'
  BY Zenon, <1>1, <1>2, Bystander DEF Receiving
<1>5. Control'
  BY <1>1, <1>2 DEF SInv, Control, Receiving, OnReceivedRecord
<1>6. OpenForBank'
  BY Zenon, <1>1, <1>2 DEF SInv, OpenForBank, Closed, Receiving
<1> QED
  BY Zenon, <1>3, <1>4, <1>5, <1>6 DEF SInv

\* Moves between the parts of the loop.
LEMMA LoopStep ==
    ASSUME SInv, WaitOver \/ EndInner, IInv'
    PROVE  SInv'
<1>1. /\ UNCHANGED <<vars, exiting, next, got, msg, rec, replayVars>>
      /\ svc \in {"wait_recv", "after"} /\ svc' \in {"after", "record", "leave", "top"}
      /\ svc = "wait_recv" => svc' = "after" /\ rpc = "empty"
      /\ svc = "after" =>
           /\ svc' = IF next # None THEN "record" ELSE IF exiting THEN "leave" ELSE "top"
           /\ next # None \/ msg = None
  BY Zenon DEF WaitOver, EndInner
<1>2. UNCHANGED <<word, connected, rpc, lastBank>>
  BY Zenon, <1>1 DEF vars, receiverVars
<1>3. PohTypeOK'
  BY Zenon, <1>1 DEF SInv, PohTypeOK, Svc, replayVars
<1>4. RecInv(rec)' /\ Messages'
  BY Zenon, <1>1, <1>2, Bystander
<1>5. Control'
  BY Zenon, <1>1, <1>2 DEF SInv, Control, Receiving
<1>6. OpenForBank'
  BY Zenon, <1>1, <1>2 DEF SInv, OpenForBank, Closed
<1> QED
  BY Zenon, <1>3, <1>4, <1>5, <1>6 DEF SInv

LEMMA AskStep ==
    ASSUME SInv, AskActive \/ AskEmpty, IInv'
    PROVE  SInv'
<1>1. /\ Asking /\ UNCHANGED <<exiting, next, got, msg, rec, replayVars>>
      /\ UNCHANGED <<word, connected, lastBank>>
      /\ \/ svc' = svc /\ rpc' = "isEmpty"
         \/ svc' = IfNot /\ rpc' \in {rpc, "idle"}
         \/ svc' = IfSafe /\ rpc' = "safe"
  BY Zenon DEF AskActive, AskEmpty, SafeLoadActive, SafeIsEmpty, channelVars, vars, receiverVars
<1>2. /\ svc \in {"after", "leave"} /\ svc' \in {svc, "hash_recv", "top", "handle", "done"}
      /\ next = None
      /\ svc' = "handle" => svc = "after" /\ msg # None
  BY Zenon, <1>1 DEF Asking, IfNot, IfSafe, SInv, Control
<1>3. PohTypeOK'
  BY Zenon, <1>1, <1>2 DEF SInv, PohTypeOK, Svc, replayVars
<1>4. RecInv(rec)' /\ Messages'
  BY Zenon, <1>1, <1>2, Bystander
<1>5. Control'
  BY Zenon, <1>1, <1>2 DEF SInv, Control, Receiving, IfNot, IfSafe
<1>6. OpenForBank'
  BY Zenon, <1>1, <1>2 DEF SInv, OpenForBank, Closed
<1> QED
  BY Zenon, <1>3, <1>4, <1>5, <1>6 DEF SInv

\* The end of the thread: the receiver is dropped or handed over.
LEMMA EndStep ==
    ASSUME SInv, Finish \/ DropUnprocessed, IInv'
    PROVE  SInv'
<1>1. /\ UNCHANGED <<exiting, next, got, rec, queue, pending, sent, banks, shutdownPoh>>
      /\ msg' \in {msg, None} /\ svc \in {"done", "handle"}
      /\ \/ /\ svc' \in {"exited", "panicked"} /\ ~connected' /\ rpc' = "gone"
            /\ UNCHANGED <<word, lastBank>>
         \/ /\ svc = "done" /\ svc' = "handed" /\ msg' = msg /\ shutdownPoh
            /\ UNCHANGED <<word, connected, rpc, lastBank>>
      /\ svc' = "exited" => svc = "done" /\ msg' = msg
      /\ pohExit' \in {pohExit, TRUE}
  BY Zenon DEF Finish, DropUnprocessed, DropReceiver, vars, receiverVars, replayVars
<1>2. PohTypeOK'
  BY Zenon, <1>1 DEF SInv, PohTypeOK, Svc
<1>3. RecInv(rec)' /\ Messages'
  BY <1>1 DEF SInv, Messages
<1>4. Control'
  BY <1>1 DEF SInv, Control, Receiving
<1>5. OpenForBank'
  BY <1>1 DEF SInv, OpenForBank, Closed
<1> QED
  BY Zenon, <1>2, <1>3, <1>4, <1>5 DEF SInv

\* In the last tick of the working bank's slot the hashes left in the slot are
\* those left in the tick.
LEMMA LastTick ==
    ASSUME NEW R, RecInv(R), R.bank # None, R.height = R.bank.max - 1
    PROVE  R.poh.tick = TicksPerSlot - 1 /\ remaining_hashes_in_slot(R.poh) = R.poh.left
<1>1. R.poh \in PohT /\ R.bank \in BankT /\ R.bank.max = MaxTickHeight(R.bank.slot)
  BY Zenon DEF RecInv, RecT, Working
<1>2. PICK k \in Nat : R.height = k * TicksPerSlot + R.poh.tick
  BY Zenon DEF RecInv, InPhase
<1> DEFINE t == R.poh.tick
           a == R.bank.slot + 1
           n == R.poh.left
           j == 1
           T == TicksPerSlot
<1>3. t \in 0..TicksPerSlot - 1 /\ a \in Nat /\ n \in Nat
  BY <1>1 DEF PohT, BankT
<1>4. ShortOfEnd(T, a, k, t, j) /\ T \in Nat \ {0} /\ j \in 1..T /\ t \in 0..T - 1
  BY <1>1, <1>2, <1>3 DEF MaxTickHeight, ShortOfEnd
<1>5. t = T - j
  <2> HIDE DEF t, a, j, T
  <2> QED
    BY Zenon, <1>3, <1>4, PhaseOfEnd
<1>6. SaturatingSub(TicksPerSlot, t + 1) = 0
  BY <1>5 DEF SaturatingSub
<1>7. 0 * HashesPerTick + n = n
  BY <1>3
<1> QED
  BY Zenon, <1>5, <1>6, <1>7 DEF remaining_hashes_in_slot

\* A bank still fits while PoH hashes and ticks without a bank.
LEMMA StillFits ==
    ASSUME NEW R, NEW F, NEW m, Fits(R, m),
           F.bank = R.bank \/ R.bank # None,
           R.bank = None => F.leader = R.leader /\ F.start = R.start
    PROVE  Fits(F, m)
  BY Zenon DEF Fits, MadeFor

\* The batch that leaves only the tick of the slot's end finds the channel shut
\* down, or shuts it down.
LEMMA HashStep ==
    ASSUME SInv, Hash, IInv'
    PROVE  SInv'
<1> DEFINE p == PohHash(rec.poh)
<1>1. /\ svc = "hash" /\ rec' = [rec EXCEPT !.poh = p]
      /\ ShutdownIf(should_shutdown(AfterNextBatch(p)))
      /\ svc' = IF NeedsTick(p) THEN "tick" ELSE "hash_recv"
      /\ UNCHANGED <<exiting, next, got, msg, replayVars>>
  BY Zenon DEF Hash
<1>2. Hashed(rec, rec')
  BY Zenon, <1>1, HashRec DEF SInv
<1>3. connected' = connected /\ lastBank' = lastBank /\ rpc' \in {rpc, "idle"}
      /\ (Closed => Closed') /\ (word' = word \/ Closed')
  BY <1>1 DEF ShutdownIf, Shutdown, vars, receiverVars, Closed, SHUTDOWN
<1>4. /\ rec'.poh = p /\ RecInv(rec') /\ rec'.height = rec.height /\ rec'.bank = rec.bank
      /\ rec'.leader = rec.leader /\ rec'.start = rec.start
  BY Zenon, <1>2 DEF Hashed
<1>5. PohTypeOK'
  BY Zenon, <1>1 DEF SInv, PohTypeOK, Svc, replayVars
<1>6. Messages'
  <2>1. ASSUME NEW m, Fits(rec, m)
        PROVE  Fits(rec', m)
    BY Zenon, <1>4, <2>1, StillFits
  <2> QED
    BY Zenon, <1>1, <1>3, <1>4, <2>1 DEF SInv, Messages, replayVars
<1>7. Control'
  BY Zenon, <1>1, <1>3, <1>4 DEF SInv, Control, Receiving, NeedsTick
<1>8. CASE rec.bank # None /\ rec.height = rec.bank.max - 1 /\ svc' = "tick"
  <2>1. p.left = 1 /\ remaining_hashes_in_slot(p) = 1
    BY Zenon, <1>1, <1>4, <1>8, LastTick DEF NeedsTick
  <2>2. should_shutdown(AfterNextBatch(p))
    BY <2>1 DEF should_shutdown, AfterNextBatch, SaturatingSub
  <2>3. Closed'
    BY <1>1, <2>2 DEF ShutdownIf, Shutdown, Closed, SHUTDOWN
  <2> QED
    BY Zenon, <1>1, <1>3, <1>4, <1>5, <1>6, <1>7, <2>3 DEF SInv, OpenForBank, Closed
<1>9. CASE ~(rec.bank # None /\ rec.height = rec.bank.max - 1 /\ svc' = "tick")
  <2>1. rec.bank # None => rec.height < rec.bank.max /\ rec.height \in Nat /\ rec.bank.max \in Nat
    BY Zenon DEF SInv, RecInv, RecT, BankT, Working
  <2>2. OpenForBank'
    BY <1>1, <1>3, <1>4, <1>9, <2>1 DEF SInv, OpenForBank, Closed
  <2> QED
    BY Zenon, <1>4, <1>5, <1>6, <1>7, <2>2 DEF SInv
<1> QED
  BY Zenon, <1>8, <1>9

LEMMA TickStep ==
    ASSUME SInv, Tick, IInv'
    PROVE  SInv'
<1>1. PICK l \in BOOLEAN : rec' = tick(rec, l)
  BY Zenon DEF Tick
<1>2. svc = "tick" /\ svc' = "after" /\ UNCHANGED <<vars, exiting, next, got, msg, replayVars>>
  BY Zenon DEF Tick
<1>3. UNCHANGED <<word, connected, rpc, lastBank>>
  BY Zenon, <1>2 DEF vars, receiverVars
<1>4. RecInv(rec) /\ rec.poh.left = 1
  BY Zenon, <1>2 DEF SInv, Control
<1>5. /\ RecInv(rec')
      /\ rec.bank = None => rec'.bank = None /\ rec'.leader = rec.leader /\ rec'.start = rec.start
      /\ rec.bank # None /\ rec.height + 1 < rec.bank.max =>
             rec'.bank # None /\ rec'.bank.id = rec.bank.id
  <2>1. Ticked(rec, rec')
    BY Zenon, <1>1, <1>4, TickRec
  <2> QED
    BY Zenon, <2>1 DEF Ticked
<1>6. PohTypeOK'
  BY Zenon, <1>2 DEF SInv, PohTypeOK, Svc, replayVars
<1>7. Messages'
  <2>1. ASSUME NEW m, Fits(rec, m)
        PROVE  Fits(rec', m)
    BY Zenon, <1>5, <2>1, StillFits
  <2> QED
    BY Zenon, <1>2, <1>3, <1>5, <2>1 DEF SInv, Messages, replayVars
<1>8. Control'
  BY Zenon, <1>2, <1>3 DEF SInv, Control, Receiving
<1>9. OpenForBank'
  <2>1. rec.bank # None => rec.height \in Nat /\ rec.bank.max \in Nat
    BY Zenon, <1>4 DEF RecInv, RecT, BankT
  <2> QED
    BY <1>2, <1>3, <1>5, <2>1 DEF SInv, OpenForBank, Closed
<1> QED
  BY Zenon, <1>5, <1>6, <1>7, <1>8, <1>9 DEF SInv

\* A message is handled on a drained channel.
LEMMA HandleResetStep ==
    ASSUME SInv, HandleReset, IInv'
    PROVE  SInv'
<1>1. /\ svc = "handle" /\ ~exiting /\ msg.kind = "Reset" /\ rec' = reset(rec, msg.slot, msg.leader)
      /\ msg' = None /\ pending' = pending - 1 /\ svc' = "top"
      /\ UNCHANGED <<vars, exiting, next, got, queue, sent, banks, pohExit, shutdownPoh>>
  BY Zenon DEF HandleReset, DropGuard
<1>2. UNCHANGED <<word, connected, rpc, lastBank>>
  BY Zenon, <1>1 DEF vars, receiverVars
<1>3. msg # None /\ msg \in Reset /\ queue = <<>> /\ ~shutdownPoh /\ Closed /\ pending >= 1
  BY Zenon, <1>1 DEF SInv, PohTypeOK, Control, Messages, Message, SetBank, OpenForBank
<1>4. RecInv(rec')
  BY Zenon, <1>1, <1>3, ResetRec DEF SInv, Reset
<1>5. PohTypeOK'
  BY <1>1, <1>3 DEF SInv, PohTypeOK, Svc
<1>6. Messages'
  BY Zenon, <1>1, <1>3 DEF Messages
<1>7. Control'
  BY Zenon, <1>1, <1>2, <1>3 DEF SInv, Control, Receiving
<1>8. OpenForBank'
  BY Zenon, <1>1, <1>2, <1>3 DEF SInv, OpenForBank, Closed
<1> QED
  BY Zenon, <1>4, <1>5, <1>6, <1>7, <1>8 DEF SInv

LEMMA HandleSetBankStep ==
    ASSUME SInv, HandleSetBank, IInv'
    PROVE  SInv'
<1>1. PICK l \in BOOLEAN : rec' = set_bank(rec, msg.bank, msg.rehash, l)
  BY Zenon DEF HandleSetBank
<1>2. /\ svc = "handle" /\ ~exiting /\ msg.kind = "SetBank"
      /\ UNCHANGED <<exiting, next, got, queue, sent, banks, pohExit, shutdownPoh>>
  BY Zenon DEF HandleSetBank
<1>3. /\ msg # None /\ msg \in SetBank /\ queue = <<>> /\ ~shutdownPoh /\ Closed /\ pending >= 1
      /\ connected /\ MadeFor(rec, msg.bank) /\ rec.bank = None /\ next = None /\ rpc = "safe"
  BY Zenon, <1>2 DEF SInv, PohTypeOK, Control, Messages, Message, Reset, OpenForBank, Fits, MadeFor
<1>4. BankSet(rec, msg.bank, rec')
  BY Zenon, <1>1, <1>3, SetBankRec DEF SInv, SetBank
<1>5. RecInv(rec') /\ rec'.height \in Nat /\ msg.bank.max \in Nat
  BY Zenon, <1>3, <1>4 DEF BankSet, RecInv, RecT, SetBank, BankT
<1>6. CASE should_restart(rec'.height, msg.bank.max)
  <2>1. /\ UNCHANGED <<word, connected, msg, pending>> /\ lastBank' = msg.bank.id
        /\ svc' = "restart" /\ rpc' = "restart"
    BY Zenon, <1>3, <1>6 DEF HandleSetBank, RestartLock
  <2>2. rec'.bank # None /\ rec'.bank.id = msg.bank.id
    BY <1>4, <1>5, <1>6 DEF BankSet, should_restart
  <2>3. PohTypeOK' /\ Messages'
    BY Zenon, <1>2, <1>3, <2>1 DEF SInv, PohTypeOK, Svc, Messages
  <2>4. Control'
    BY Zenon, <1>2, <1>3, <2>1 DEF SInv, Control, Receiving
  <2>5. OpenForBank'
    BY Zenon, <1>2, <1>3, <2>1, <2>2 DEF SInv, OpenForBank, Closed
  <2> QED
    BY Zenon, <1>5, <2>3, <2>4, <2>5 DEF SInv
<1>7. CASE ~should_restart(rec'.height, msg.bank.max)
  <2>1. UNCHANGED vars /\ msg' = None /\ pending' = pending - 1 /\ svc' = "top"
    BY Zenon, <1>3, <1>7 DEF HandleSetBank, DropGuard
  <2>2. UNCHANGED <<word, connected, rpc, lastBank>>
    BY Zenon, <2>1 DEF vars, receiverVars
  <2>3. PohTypeOK' /\ Messages'
    BY <1>2, <1>3, <2>1 DEF SInv, PohTypeOK, Svc, Messages
  <2>4. Control'
    BY Zenon, <1>2, <1>3, <2>1, <2>2 DEF SInv, Control, Receiving
  <2>5. OpenForBank'
    BY Zenon, <1>2, <1>3, <2>1, <2>2 DEF SInv, OpenForBank, Closed
  <2> QED
    BY Zenon, <1>5, <2>3, <2>4, <2>5 DEF SInv
<1> QED
  BY Zenon, <1>6, <1>7

LEMMA EndRestartStep ==
    ASSUME SInv, EndRestart, IInv'
    PROVE  SInv'
<1>1. /\ svc = "restart" /\ word'.bank = lastBank /\ rpc' = "idle" /\ UNCHANGED <<connected, lastBank>>
      /\ msg' = None /\ pending' = pending - 1 /\ svc' = "top"
      /\ UNCHANGED <<exiting, next, got, rec, queue, sent, banks, pohExit, shutdownPoh>>
  BY Zenon DEF EndRestart, RestartStore, RestartWord, DropGuard
<1>2. /\ msg # None /\ queue = <<>> /\ ~shutdownPoh /\ pending >= 1 /\ ~exiting /\ next = None
      /\ rec.bank # None /\ rec.bank.id = lastBank
  BY Zenon, <1>1 DEF SInv, Control, Messages, OpenForBank
<1>3. PohTypeOK' /\ RecInv(rec)' /\ Messages'
  BY <1>1, <1>2 DEF SInv, PohTypeOK, Svc, Messages
<1>4. Control' /\ OpenForBank'
  BY Zenon, <1>1, <1>2 DEF SInv, Control, OpenForBank, Closed, Receiving
<1> QED
  BY Zenon, <1>3, <1>4 DEF SInv

\* Replay sends a message only when none is pending, and makes a bank for the
\* slot that PoH is in, which is after the start slot.
LEMMA SendStep ==
    ASSUME SInv, NEW m \in Message, Fits(rec, m), pending = 0, ~shutdownPoh, Send(m),
           banks' \in 0..MaxBank, IInv'
    PROVE  SInv'
<1>1. UNCHANGED <<vars, serviceVars, pohExit, shutdownPoh>> /\ pending' = pending + 1
      /\ (queue' = queue \/ queue' = Append(queue, m))
  BY Zenon DEF Send
<1>2. UNCHANGED <<word, connected, rpc, lastBank>>
  BY Zenon, <1>1 DEF vars, receiverVars
<1>3. queue = <<>> /\ msg = None
  BY DEF SInv, Messages
<1>4. queue' \in Seq(Message) /\ (queue' # <<>> => Len(queue') = 1 /\ Head(queue') = m)
  <2>1. <<>> \in Seq(Message)
    OBVIOUS
  <2>2. /\ Append(<<>>, m) \in Seq(Message) /\ Len(Append(<<>>, m)) = 1
        /\ Head(Append(<<>>, m)) = m
    BY <2>1
  <2> QED
    BY Zenon, <1>1, <1>3, <2>1, <2>2
<1>5. PohTypeOK' /\ RecInv(rec)'
  BY <1>1, <1>4 DEF SInv, PohTypeOK, serviceVars
<1>6. Messages'
  BY <1>1, <1>2, <1>3, <1>4 DEF SInv, Messages, serviceVars
<1>7. Control' /\ OpenForBank'
  BY Zenon, <1>1, <1>2 DEF SInv, Control, OpenForBank, Closed, Receiving, serviceVars
<1> QED
  BY Zenon, <1>5, <1>6, <1>7 DEF SInv

LEMMA ReplayStepKeeps ==
    ASSUME SInv, ReplayStep, IInv'
    PROVE  SInv'
<1>1. CASE SendReset
  <2>1. PICK slot \in 0..MaxSlot, l \in BOOLEAN :
           Send([kind |-> "Reset", slot |-> slot, leader |-> l])
    BY Zenon, <1>1 DEF SendReset
  <2> DEFINE m == [kind |-> "Reset", slot |-> slot, leader |-> l]
  <2>2. m \in Message /\ Fits(rec, m)
    BY DEF Message, Reset, Fits
  <2>3. pending = 0 /\ ~shutdownPoh /\ banks' \in 0..MaxBank
    BY Zenon, <1>1 DEF SendReset, SInv, PohTypeOK
  <2> QED
    BY Zenon, <2>1, <2>2, <2>3, SendStep
<1>2. CASE SendSetBank
  <2> DEFINE slot == rec.height \div TicksPerSlot
             b == Bank(banks + 1, slot, rec.start)
  <2>1. PICK rehash \in BOOLEAN : Send([kind |-> "SetBank", rehash |-> rehash, bank |-> b])
    BY Zenon, <1>2 DEF SendSetBank
  <2> DEFINE m == [kind |-> "SetBank", rehash |-> rehash, bank |-> b]
  <2>2. /\ rec.bank = None /\ rec.leader /\ pending = 0 /\ ~shutdownPoh /\ banks + 1 \in 1..MaxBank
        /\ banks' \in 0..MaxBank
    BY <1>2 DEF SendSetBank, NoBankComing, SInv, PohTypeOK
  <2>3. rec.height \in Nat /\ rec.start \in Nat
        /\ rec.height = MaxTickHeight(rec.start) + Len(rec.cache) /\ Len(rec.cache) \in Nat
    BY <2>2 DEF SInv, RecInv, RecT, Waiting
  <2>4. slot \in Nat /\ slot > rec.start
    <3>1. (rec.start + 1) * TicksPerSlot <= rec.height
      BY <2>3, EndOfSlot DEF MaxTickHeight
    <3> QED
      BY Zenon, <2>3, <3>1, SlotAfter
  <2>5. MaxTickHeight(slot) \in Nat /\ MaxTickHeight(rec.start) \in Nat
    <3> HIDE DEF slot
    <3> QED
      BY Zenon, <2>3, <2>4, EndOfSlot
  <2>6. b \in BankT /\ MadeFor(rec, b)
    <3> HIDE DEF slot
    <3> QED
      BY Zenon, <2>2, <2>3, <2>4, <2>5 DEF Bank, BankT, MadeFor
  <2>7. m \in Message /\ Fits(rec, m)
    <3> HIDE DEF b
    <3> QED
      BY Zenon, <2>6 DEF Message, SetBank, Fits
  <2> QED
    <3> HIDE DEF b
    <3> QED
      BY Zenon, <2>1, <2>2, <2>7, SendStep
<1>3. CASE SetExit \/ SetShutdownPoh
  <2>1. /\ UNCHANGED <<vars, serviceVars, queue, pending, sent, banks>>
        /\ pohExit' \in {pohExit, TRUE} /\ shutdownPoh' \in {shutdownPoh, TRUE}
        /\ shutdownPoh' # shutdownPoh => rec.bank = None /\ pending = 0
    BY Zenon, <1>3 DEF SetExit, SetShutdownPoh, NoBankComing
  <2>2. UNCHANGED <<word, connected, rpc, lastBank>>
    BY Zenon, <2>1 DEF vars, receiverVars
  <2>3. PohTypeOK' /\ RecInv(rec)'
    BY Zenon, <2>1 DEF SInv, PohTypeOK, serviceVars
  <2>4. Messages'
    BY <2>1, <2>2 DEF SInv, Messages, serviceVars
  <2>a. UNCHANGED <<svc, rec, msg, exiting, next, got>>
    BY Zenon, <2>1 DEF serviceVars, vars, receiverVars
  <2>5. shutdownPoh => shutdownPoh'
    BY <1>3 DEF SetExit, SetShutdownPoh, SInv, PohTypeOK
  <2>6. Control'
    BY Zenon, <2>2, <2>5, <2>a DEF SInv, Control, Receiving
  <2>7. OpenForBank'
    BY Zenon, <2>2, <2>a DEF SInv, OpenForBank, Closed
  <2> QED
    BY Zenon, <2>3, <2>4, <2>6, <2>7 DEF SInv
<1> QED
  BY Zenon, <1>1, <1>2, <1>3 DEF ReplayStep

LEMMA InitSInv == PohInit => SInv
<1> SUFFICES ASSUME PohInit PROVE SInv
  BY Zenon
<1>1. IInv
  BY Zenon, InitIInv DEF PohInit
<1> DEFINE h == MaxTickHeight(0)
           e == <<>>
<1>2. h \in Nat /\ h = (0 + 1) * TicksPerSlot + 0 /\ e \in Seq(Nat) /\ Len(e) = 0
  BY EndOfSlot
<1>3. PohReset \in PohT /\ PohReset.tick = 0
  BY DEF PohReset, PohT
<1>4. rec = [poh |-> PohReset, height |-> h, bank |-> None, cache |-> e, start |-> 0, leader |-> FALSE]
  BY Zenon DEF PohInit
<1>5. RecInv(rec)
  <2> HIDE DEF h, e
  <2>1. rec \in RecT
    BY Zenon, <1>2, <1>3, <1>4 DEF RecT
  <2>2. rec.height = (0 + 1) * TicksPerSlot + rec.poh.tick /\ 0 + 1 \in Nat
    BY <1>2, <1>3, <1>4
  <2>3. InPhase(rec)
    BY Zenon, <2>2 DEF InPhase
  <2>4. rec.bank = None /\ rec.leader = FALSE
    BY Zenon, <1>4
  <2> QED
    BY Zenon, <2>1, <2>3, <2>4 DEF RecInv, Waiting
<1>6. PohTypeOK /\ Messages
  <2>1. svc = "top" /\ exiting = FALSE /\ next = None /\ got = None /\ msg = None /\ queue = <<>>
        /\ pending = 0 /\ banks = 0 /\ pohExit = FALSE /\ shutdownPoh = FALSE
    BY Zenon DEF PohInit
  <2>2. queue \in Seq(Message) /\ 0 \in 0..MaxBank
    BY <2>1
  <2>3. PohTypeOK
    BY Zenon, <2>1, <2>2 DEF PohTypeOK, Svc
  <2>4. Messages
    BY Zenon, <2>1 DEF Messages
  <2> QED
    BY Zenon, <2>3, <2>4
<1>7. Control /\ OpenForBank
  BY Zenon DEF PohInit, Init, Control, OpenForBank, Closed, SHUTDOWN, Receiving
<1> QED
  BY Zenon, <1>1, <1>5, <1>6, <1>7 DEF SInv

LEMMA NextSInv == SInv /\ [PohNext]_pohVars => SInv'
<1> SUFFICES ASSUME SInv, [PohNext]_pohVars PROVE SInv'
  BY Zenon
<1>1. CASE UNCHANGED pohVars
  <2>1. IInv'
    BY Zenon, <1>1, NextIInv DEF SInv, pohVars
  <2>2. UNCHANGED <<word, connected, rpc, lastBank>>
    BY Zenon, <1>1 DEF pohVars, vars, receiverVars
  <2>3. UNCHANGED <<serviceVars, replayVars>>
    BY Zenon, <1>1 DEF pohVars
  <2>4. PohTypeOK' /\ RecInv(rec)' /\ Messages'
    BY Zenon, <2>2, <2>3 DEF SInv, PohTypeOK, Messages, serviceVars, replayVars
  <2>5. Control' /\ OpenForBank'
    BY Zenon, <2>2, <2>3 DEF SInv, Control, OpenForBank, Closed, Receiving, serviceVars, replayVars
  <2> QED
    BY Zenon, <2>1, <2>4, <2>5 DEF SInv
<1>2. CASE PohNext
  <2>1. IInv'
    BY Zenon, <1>2, ProtocolStep, NextIInv DEF SInv
  <2>2. CASE ReplayStep
    BY Zenon, <2>1, <2>2, ReplayStepKeeps
  <2>3. CASE \E s \in Senders : Sending(s)
    BY Zenon, <2>1, <2>3, SendingStep
  <2>4. CASE CheckExit \/ check_for_service_message
    BY Zenon, <2>1, <2>4, CheckExitStep, CheckMessageStep
  <2>5. CASE Record1 \/ Receive \/ Received
    BY Zenon, <2>1, <2>5, Record1Step, ReceiveStep, ReceivedStep
  <2>6. CASE WaitOver \/ EndInner \/ AskActive \/ AskEmpty
    BY Zenon, <2>1, <2>6, LoopStep, AskStep
  <2>7. CASE Hash \/ Tick
    BY Zenon, <2>1, <2>7, HashStep, TickStep
  <2>8. CASE DropUnprocessed \/ Finish
    BY Zenon, <2>1, <2>8, EndStep
  <2>9. CASE HandleReset \/ HandleSetBank \/ EndRestart
    BY Zenon, <2>1, <2>9, HandleResetStep, HandleSetBankStep, EndRestartStep
  <2> QED
    BY Zenon, <1>2, <2>2, <2>3, <2>4, <2>5, <2>6, <2>7, <2>8, <2>9 DEF PohNext, ServiceStep
<1> QED
  BY Zenon, <1>1, <1>2

LEMMA AlwaysSInv == PohSpec => []SInv
  BY InitSInv, NextSInv, PTL DEF PohSpec

-----------------------------------------------------------------------------
(* The theorems *)

\* The PoH service is a client that keeps the protocol of the record channel: it
\* restarts the channel only after is_safe_to_restart() held on one it had shut
\* down.  So everything proved of the channel holds in the service.
THEOREM ServiceKeepsProtocol == PohSpec => ChannelProtocol
<1>1. PohInit => Init
  BY Zenon DEF PohInit
<1>2. SInv /\ [PohNext]_pohVars => [Next]_vars
  <2> SUFFICES ASSUME SInv, [PohNext]_pohVars PROVE [Next]_vars
    BY Zenon
  <2>1. CASE PohNext
    BY Zenon, <2>1, ProtocolStep
  <2>2. CASE UNCHANGED pohVars
    BY Zenon, <2>2 DEF pohVars
  <2> QED
    BY Zenon, <2>1, <2>2
<1> QED
  BY <1>1, <1>2, AlwaysSInv, PTL DEF PohSpec, ChannelProtocol, Spec

\* However ticks, resets and new banks interleave, the working bank has every tick
\* up to the tick height, and the cache has no gap as long as there is a next
\* leader slot.
THEOREM TicksAreContiguous == PohSpec => []TicksContiguous
<1>1. SInv => TicksContiguous
  <2> SUFFICES ASSUME SInv PROVE TicksContiguous
    BY Zenon
  <2>1. CASE rec.bank = None
    BY Zenon, <2>1 DEF SInv, RecInv, Waiting, Gapless, TicksContiguous
  <2>2. CASE rec.bank # None
    <3>1. rec.cache = <<>> /\ rec.bank.ticks = rec.height /\ rec.height \in Nat
      BY Zenon, <2>2 DEF SInv, RecInv, Working, RecT
    <3>2. rec.height = rec.bank.ticks + Len(rec.cache)
      BY <3>1
    <3>3. \A i \in DOMAIN rec.cache : rec.cache[i] = rec.height - Len(rec.cache) + i
      BY <3>1
    <3> QED
      BY Zenon, <3>2, <3>3 DEF TicksContiguous
  <2> QED
    BY Zenon, <2>1, <2>2
<1> QED
  BY <1>1, AlwaysSInv, PTL
=============================================================================
