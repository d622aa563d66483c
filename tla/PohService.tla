------------------------------ MODULE PohService ------------------------------
(***************************************************************************)
(* The PoH thread of poh/src/poh_service.rs (tick_producer), composed with *)
(* the record channel it drains, the PohRecorder and Poh it drives, and    *)
(* the PohController through which replay resets it or hands it a bank.    *)
(*                                                                         *)
(* The senders and every access to the channel are the actions of          *)
(* RecordChannels.  PohRecorder is mutated by this thread only, under its  *)
(* write lock, so one of its methods is one step.  Hash values, entries    *)
(* and wall-clock pacing are left out; the hash budget of the slot, the    *)
(* tick heights and the tick cache are kept.                               *)
(***************************************************************************)
EXTENDS RecordChannels

CONSTANTS
    TicksPerSlot,
    HashesPerTick,
    HashesPerBatch,
    MaxSlot,        \* bound on the slots replay resets to
    MaxTick,        \* bound on the tick height that hashing reaches
    MaxMessages     \* bound on the messages replay sends

ASSUME PohAssumption ==
    /\ TicksPerSlot \in Nat \ {0} /\ HashesPerBatch \in Nat \ {0}
    /\ MaxSlot \in Nat /\ MaxTick \in Nat /\ MaxMessages \in Nat
    \* a whole tick has room for the records the channel holds
    /\ HashesPerTick \in Nat /\ HashesPerTick > Capacity

VARIABLES
    svc,        \* where tick_producer is
    exiting,    \* should_exit
    next,       \* next_record
    got,        \* the record try_recv is about to return
    msg,        \* service_message: the guard being held
    rec,        \* PohRecorder, with its Poh
    queue,      \* the channel of PohController
    pending,    \* pending_message
    sent,       \* messages sent so far
    banks,      \* banks created so far; their ids count up
    pohExit,    \* poh_exit
    shutdownPoh \* MigrationStatus::shutdown_poh

serviceVars == <<svc, exiting, next, got, msg, rec>>
replayVars  == <<queue, pending, sent, banks, pohExit, shutdownPoh>>
pohVars     == <<vars, serviceVars, replayVars>>

\* No record, no bank, no message
None == [none |-> TRUE]

-----------------------------------------------------------------------------
(* Poh: entry/src/poh.rs *)

PohReset == [left |-> HashesPerTick, tick |-> 0]

Least(a, b) == IF a < b THEN a ELSE b
SaturatingSub(a, b) == IF a > b THEN a - b ELSE 0

\* hash(max_num_hashes) stops one hash short of the tick
PohHash(p) == [p EXCEPT !.left = @ - Least(@ - 1, HashesPerBatch)]

\* tick_number is only ever used modulo ticks_per_slot
PohTick(p) ==
    IF p.left # 1 THEN [p EXCEPT !.left = @ - 1]
    ELSE [left |-> HashesPerTick, tick |-> (p.tick + 1) % TicksPerSlot]

remaining_hashes_in_slot(p) ==
    SaturatingSub(TicksPerSlot, p.tick + 1) * HashesPerTick + p.left

\* Mutant: the hashes that the ticks need are forgotten
ForgetTicks(remaining) == remaining < Capacity

should_shutdown(remaining) == SaturatingSub(remaining, TicksPerSlot) <= Capacity

-----------------------------------------------------------------------------
(* PohRecorder: poh/src/poh_recorder.rs.  R is the recorder; l says whether *)
(* the schedule has a next leader slot when the bank is cleared.            *)

MaxTickHeight(slot) == (slot + 1) * TicksPerSlot

Bank(id, slot, parent) ==
    [id |-> id, slot |-> slot, ticks |-> MaxTickHeight(parent),
     min |-> MaxTickHeight(parent), max |-> MaxTickHeight(slot)]

\* clear_bank(true)
ClearBank(R, l) == [R EXCEPT !.bank = None, !.leader = l]

\* The early returns of flush_cache
FlushError(R, tick) ==
    \/ R.bank = None
    \/ R.height < R.bank.min
    \/ tick /\ R.height = R.bank.min

\* register_tick and send of the cached ticks up to the bank's last one
flush_cache(R, tick, l) ==
    IF FlushError(R, tick) THEN R
    ELSE LET count == Cardinality({i \in DOMAIN R.cache : R.cache[i] <= R.bank.max})
             F == [R EXCEPT !.bank.ticks = @ + count,
                            !.cache = SubSeq(@, count + 1, Len(@))]
         IN  IF R.height >= R.bank.max
               THEN ClearBank([F EXCEPT !.start = R.bank.slot], l)
               ELSE F

\* Without a next leader slot the tick is not cached
tick(R, l) ==
    LET T == [R EXCEPT !.poh = PohTick(@)]
        H == [T EXCEPT !.height = @ + 1]
    IN  IF R.poh.left # 1 THEN T
        ELSE IF ~R.leader THEN H
        ELSE flush_cache([H EXCEPT !.cache = Append(@, H.height)], TRUE, l)

\* One round of the loop in record()
RecordError(R, b) == FlushError(R, FALSE) \/ R.height >= R.bank.max \/ R.bank.id # b

\* record(): the recorder after it, and whether it returned Ok; it ticks first
\* when the next hash has to be a tick
record(R, b, l) ==
    LET T == IF R.poh.left = 1 THEN tick(flush_cache(R, FALSE, l), l) ELSE R
        F == flush_cache(T, FALSE, l)
        ok == ~RecordError(R, b) /\ ~RecordError(T, b)
    IN  [ok |-> ok, rec |-> IF ok THEN [F EXCEPT !.poh.left = @ - 1] ELSE F]

\* Mutant: the cached ticks survive a reset
KeepCache(R, slot) ==
    [R EXCEPT !.poh = PohReset, !.height = MaxTickHeight(slot)]

\* reset_poh: the tick height is that of the end of the start slot
reset_poh(R, slot) ==
    [R EXCEPT !.poh = PohReset, !.cache = <<>>, !.height = MaxTickHeight(slot)]

reset(R, slot, l) == [ClearBank(reset_poh(R, slot), l) EXCEPT !.start = slot]

\* set_bank: a bank with another hashes_per_tick restarts PoH at the parent
set_bank(R, bank, rehash, l) ==
    LET S == IF rehash THEN reset_poh(R, R.start) ELSE R
    IN  flush_cache([S EXCEPT !.bank = bank], FALSE, l)

-----------------------------------------------------------------------------
PohInit ==
    /\ Init
    /\ svc = "top" /\ exiting = FALSE /\ next = None /\ got = None /\ msg = None
    /\ rec = [poh |-> PohReset, height |-> MaxTickHeight(0), bank |-> None,
              cache |-> <<>>, start |-> 0, leader |-> FALSE]
    /\ queue = <<>> /\ pending = 0 /\ sent = 0 /\ banks = 0
    /\ pohExit = FALSE /\ shutdownPoh = FALSE

(* Replay, the one user of PohController: replay_stage.rs *)

\* send_message(); send() fails once the receiver of messages is dropped
Send(m) ==
    /\ sent < MaxMessages
    /\ sent' = sent + 1
    /\ pending' = pending + 1
    /\ queue' = IF svc \in {"exited", "handed", "panicked", "failed"} THEN queue
                ELSE Append(queue, m)
    /\ UNCHANGED <<vars, serviceVars, pohExit, shutdownPoh>>

SendReset ==
    /\ pending = 0 /\ ~shutdownPoh
    /\ \E slot \in 0..MaxSlot, l \in BOOLEAN : Send([kind |-> "Reset", slot |-> slot, leader |-> l])
    /\ UNCHANGED banks

\* !tpu_has_bank && !has_pending_message()
NoBankComing == rec.bank = None /\ pending = 0

\* maybe_start_leader: a bank for the slot PoH is in, on top of the start bank
SendSetBank ==
    /\ NoBankComing /\ ~shutdownPoh
    /\ rec.leader /\ banks < MaxBank
    /\ banks' = banks + 1
    /\ \E rehash \in BOOLEAN :
          Send([kind |-> "SetBank", rehash |-> rehash,
                bank |-> Bank(banks + 1, rec.height \div TicksPerSlot, rec.start)])

SetExit ==
    /\ ~pohExit
    /\ pohExit' = TRUE
    /\ UNCHANGED <<vars, serviceVars, queue, pending, sent, banks, shutdownPoh>>

\* enable_alpenglow: only when its reset has been handled and no bank is set
SetShutdownPoh ==
    /\ ~shutdownPoh /\ NoBankComing
    /\ shutdownPoh' = TRUE
    /\ UNCHANGED <<vars, serviceVars, queue, pending, sent, banks, pohExit>>

ReplayStep == SendReset \/ SendSetBank \/ SetExit \/ SetShutdownPoh

-----------------------------------------------------------------------------
(* tick_producer *)

\* Mutant: the records are not held back while a message waits
KeepOpen == UNCHANGED vars

\* Shut the channel down if c, and leave it alone otherwise
ShutdownIf(c) == IF c THEN Shutdown ELSE UNCHANGED vars

\* The head of the outer loop: the exit signals, once seen, stay seen
CheckExit ==
    /\ svc = "top"
    /\ exiting' = (exiting \/ pohExit \/ shutdownPoh)
    /\ ShutdownIf(exiting')
    /\ svc' = "check"
    /\ UNCHANGED <<next, got, msg, rec, replayVars>>

StopRecords == Shutdown

check_for_service_message ==
    /\ svc = "check"
    /\ IF queue = <<>> THEN UNCHANGED <<vars, msg, queue>>
       ELSE msg' = Head(queue) /\ queue' = Tail(queue) /\ StopRecords
    /\ svc' = "hash_recv"
    /\ UNCHANGED <<exiting, next, got, rec, pending, sent, banks, pohExit, shutdownPoh>>

AfterRecord(p) == ShutdownIf(should_shutdown(remaining_hashes_in_slot(p)))

\* record_or_hash with a record: record it; an error is a panic
Record1 ==
    /\ svc = "record"
    /\ \E l \in BOOLEAN :
         LET r == record(rec, next.bank, l)
         IN  /\ rec' = r.rec
             /\ IF r.ok THEN AfterRecord(r.rec.poh) ELSE DropReceiver
             /\ svc' = IF r.ok THEN "record_recv" ELSE "failed"
    /\ next' = None
    /\ UNCHANGED <<exiting, got, msg, replayVars>>

Receiving == svc \in {"record_recv", "hash_recv", "wait_recv"}

\* When try_recv says Empty: leave the record loop, hash or wait for the
\* wall clock, or wait on
AfterEmpty ==
    CASE svc = "record_recv" -> {"after"}
      [] svc = "hash_recv"   -> {"wait_recv"} \cup
            IF rec.bank # None \/ rec.height < MaxTick THEN {"hash"} ELSE {}
      [] svc = "wait_recv"   -> {"wait_recv"}

Receive ==
    /\ Receiving
    /\ TryRecv \/ LoadActive \/ Retry
    /\ got' = IF rpc' = "got" THEN Head(chan) ELSE got
    /\ svc' \in IF rpc' = "empty" THEN AfterEmpty ELSE {svc}
    /\ UNCHANGED <<exiting, next, msg, rec, replayVars>>

Received ==
    /\ Receiving
    /\ OnReceivedRecord
    /\ next' = got /\ got' = None
    /\ svc' = IF svc = "record_recv" THEN "record" ELSE "after"
    /\ UNCHANGED <<exiting, msg, rec, replayVars>>

\* The wall clock has caught up with PoH
WaitOver ==
    /\ svc = "wait_recv" /\ rpc = "empty"
    /\ svc' = "after"
    /\ UNCHANGED <<vars, exiting, next, got, msg, rec, replayVars>>

\* Mutant: the last hash before a tick is waited for
TickAtZero(p) == p.left = 0

NeedsTick(p) == p.left = 1

AfterNextBatch(p) == SaturatingSub(remaining_hashes_in_slot(p), HashesPerBatch)

\* Shut down if one more batch would take the hashes the records need
Hash ==
    /\ svc = "hash"
    /\ LET p == PohHash(rec.poh)
       IN  /\ rec' = [rec EXCEPT !.poh = p]
           /\ ShutdownIf(should_shutdown(AfterNextBatch(p)))
           /\ svc' = IF NeedsTick(p) THEN "tick" ELSE "hash_recv"
    /\ UNCHANGED <<exiting, next, got, msg, replayVars>>

Tick ==
    /\ svc = "tick"
    /\ \E l \in BOOLEAN : rec' = tick(rec, l)
    /\ svc' = "after"
    /\ UNCHANGED <<vars, exiting, next, got, msg, replayVars>>

\* The end of the inner loop: go round again with a record, leave without one
\* and without a message
EndInner ==
    /\ svc = "after" /\ (next # None \/ msg = None)
    /\ svc' = IF next # None THEN "record" ELSE IF exiting THEN "leave" ELSE "top"
    /\ UNCHANGED <<vars, exiting, next, got, msg, rec, replayVars>>

\* can_process_service_message with a message, and the exit test of the outer
\* loop, ask is_safe_to_restart()
Asking == \/ svc = "after" /\ next = None /\ msg # None
          \/ svc = "leave"
IfSafe == IF svc = "leave" THEN "done" ELSE "handle"
IfNot  == IF svc = "leave" THEN "top" ELSE "hash_recv"

AskActive ==
    /\ Asking /\ rpc # "isEmpty"
    /\ \/ SafeLoadActive /\ UNCHANGED svc
       \/ ~NoSenderActive /\ svc' = IfNot /\ UNCHANGED vars
    /\ UNCHANGED <<exiting, next, got, msg, rec, replayVars>>

AskEmpty ==
    /\ Asking /\ SafeIsEmpty
    /\ svc' = IF rpc' = "safe" THEN IfSafe ELSE IfNot
    /\ UNCHANGED <<exiting, next, got, msg, rec, replayVars>>

\* Mutant: the pending count is not decremented
StillPending == UNCHANGED pending

\* The guard is dropped after its message was taken
DropGuard == pending' = pending - 1

\* A message found while exiting is not processed: its guard is dropped, and
\* Drop panics
DropUnprocessed ==
    /\ svc = "handle" /\ exiting
    /\ DropReceiver
    /\ msg' = None /\ svc' = "panicked"
    /\ UNCHANGED <<exiting, next, got, rec, replayVars>>

HandleReset ==
    /\ svc = "handle" /\ ~exiting /\ msg.kind = "Reset"
    /\ rec' = reset(rec, msg.slot, msg.leader)
    /\ msg' = None /\ DropGuard /\ svc' = "top"
    /\ UNCHANGED <<vars, exiting, next, got, queue, sent, banks, pohExit, shutdownPoh>>

should_restart(height, max) == height < max - 1

\* The channel is restarted unless only the last tick of the slot is left.
\* set_bank asserts that there is no bank.
HandleSetBank ==
    /\ svc = "handle" /\ ~exiting /\ msg.kind = "SetBank"
    /\ \E l \in BOOLEAN : rec' = set_bank(rec, msg.bank, msg.rehash, l)
    /\ IF rec.bank # None
         THEN DropReceiver /\ svc' = "failed" /\ UNCHANGED <<msg, pending>>
       ELSE IF should_restart(rec'.height, msg.bank.max)
         THEN /\ RestartLock /\ lastBank' = msg.bank.id
              /\ svc' = "restart" /\ UNCHANGED <<msg, pending>>
         ELSE UNCHANGED vars /\ msg' = None /\ DropGuard /\ svc' = "top"
    /\ UNCHANGED <<exiting, next, got, queue, sent, banks, pohExit, shutdownPoh>>

EndRestart ==
    /\ svc = "restart"
    /\ RestartStore
    /\ msg' = None /\ DropGuard /\ svc' = "top"
    /\ UNCHANGED <<exiting, next, got, rec, queue, sent, banks, pohExit, shutdownPoh>>

\* PohService::new after tick_producer returned: exit, or pass the receiver to
\* the block creation loop
Finish ==
    /\ svc = "done"
    /\ IF pohExit \/ ~shutdownPoh
         THEN DropReceiver /\ pohExit' = TRUE /\ svc' = "exited"
         ELSE UNCHANGED <<vars, pohExit>> /\ svc' = "handed"
    /\ UNCHANGED <<exiting, next, got, msg, rec, queue, pending, sent, banks, shutdownPoh>>

ServiceStep ==
    \/ CheckExit \/ check_for_service_message \/ Record1 \/ Receive \/ Received
    \/ WaitOver \/ Hash \/ Tick \/ EndInner \/ AskActive \/ AskEmpty
    \/ DropUnprocessed \/ HandleReset \/ HandleSetBank \/ EndRestart \/ Finish

Sending(s) ==
    /\ Call(s) \/ SenderStep(s)
    /\ UNCHANGED <<serviceVars, replayVars>>

PohNext == ServiceStep \/ ReplayStep \/ \E s \in Senders : Sending(s)

PohSpec == PohInit /\ [][PohNext]_pohVars

\* Threads are scheduled, and the wall clock advances: a wait for it ends, and
\* PoH is behind it again and again
PohFairness ==
    /\ WF_pohVars(ServiceStep)
    /\ SF_pohVars(WaitOver) /\ SF_pohVars(Receive /\ svc' = "hash")
    /\ \A s \in Senders : WF_pohVars(SenderStep(s) /\ UNCHANGED <<serviceVars, replayVars>>)

FairPohSpec == PohSpec /\ PohFairness

-----------------------------------------------------------------------------
(* Properties *)

\* PohRecorder::record never fails for a record the channel admitted, and
\* set_bank never finds a bank set: its bank is still the working bank, and the
\* slot has hashes left for it, whatever senders, ticks and messages do.  The
\* channel is open only for the working bank, and the receiver handed to the block
\* creation loop is drained and shut down, as that loop asserts.
NeverFails ==
    /\ svc # "failed"
    /\ connected /\ word.bank # Disabled => rec.bank # None /\ rec.bank.id = word.bank
    /\ svc = "handed" => /\ word.bank = Disabled /\ inflight = {} /\ chan = <<>>
                         /\ next = None /\ rec.bank = None

\* The working bank has been given every tick of its slot, and of the slots
\* skipped before it, once and in order: as long as there is a next leader slot
\* the cache holds the ticks up to the tick height without a gap, also those
\* made after the bank's last one while its message waited.
TicksContiguous ==
    /\ rec.leader =>
           \A i \in DOMAIN rec.cache : rec.cache[i] = rec.height - Len(rec.cache) + i
    /\ rec.bank # None => rec.height = rec.bank.ticks + Len(rec.cache)

\* The service is a client that keeps the protocol of the channel.
ChannelProtocol == Spec

\* A guard is never dropped with its message unprocessed (the panic in
\* PohServiceMessageGuard::drop).
GuardsProcessed == svc # "panicked"

\* Every message is handled, unless the service is told to exit: replay's spin
\* on has_pending_message() comes to an end.
MessagesHandled == pending > 0 ~> pending = 0 \/ exiting

\* A bank does not stay the working bank forever: its slot is ticked to the end.
BankEnds == rec.bank # None ~> rec.bank = None \/ exiting
=============================================================================
