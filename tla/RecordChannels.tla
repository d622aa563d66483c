----------------------------- MODULE RecordChannels -----------------------------
(***************************************************************************)
(* The record channel of poh/src/record_channels.rs: transaction           *)
(* processing threads reserve room in a packed atomic word and then push   *)
(* their records; the PoH thread receives them, gives the room back, and   *)
(* can shut the channel down and restart it for another bank.              *)
(*                                                                         *)
(* One action is one atomic operation on shared memory.  A record carries  *)
(* one transaction.  The receiver is any client that keeps the protocol of *)
(* the two in the tree (poh_service.rs, block_creation_loop.rs): it        *)
(* restarts only after is_safe_to_restart() held on a shut-down channel.   *)
(***************************************************************************)
EXTENDS Naturals, Sequences, FiniteSets

CONSTANTS
    Senders,        \* threads that hold a clone of RecordSender
    Capacity,       \* MAX_ALLOWED_INSERTIONS: the low bits of the word hold 0..Capacity
    MaxBank,        \* bank ids are 1..MaxBank; the bound on restarts
    MaxBatch,       \* bound on the records of one try_send_batch
    MaxCalls,       \* bound on the calls one sender makes
    TrackIndexes    \* does transaction_indexes exist?

Receiver == "receiver"
NoOwner  == "nobody"

ASSUME ChannelAssumption ==
    /\ IsFiniteSet(Senders) /\ Receiver \notin Senders /\ NoOwner \notin Senders
    /\ Capacity \in Nat \ {0}
    /\ MaxBank \in Nat \ {0} /\ MaxBatch \in Nat \ {0} /\ MaxCalls \in Nat
    /\ TrackIndexes \in BOOLEAN

\* DISABLED_BANK_ID, the largest value of the bank id bits
Disabled == MaxBank + 1
SHUTDOWN == [bank |-> Disabled, allowed |-> 0]

Record == [owner : Senders, call : Nat, pos : Nat, bank : 1..MaxBank]
Word   == [bank : 0..Disabled, allowed : 0..Capacity]

VARIABLES
    word,       \* bank_id_allowed_insertions
    active,     \* active_senders
    chan,       \* the bounded crossbeam channel
    connected,  \* has the receiver not been dropped?
    txIndex,    \* the transaction index behind transaction_indexes
    txLock,     \* who holds its mutex
    pc,         \* where each sender is in try_send
    call,       \* calls a sender has begun
    arg,        \* the bank id and number of records of its call
    seen,       \* the word it loaded
    inflight,   \* records reserved and not yet pushed
    rpc,        \* where the receiver is
    lastBank,   \* the last bank the channel was restarted for
    owed,       \* history: records in flight or queued when try_recv began
    pushed      \* history: transactions pushed since the last restart

senderVars   == <<pc, call, arg, seen>>
receiverVars == <<rpc, lastBank, owed>>
vars == <<word, active, chan, connected, txIndex, txLock, senderVars,
          inflight, receiverVars, pushed>>

SenderPc   == {"idle", "lock", "load", "inc", "cas", "undo", "push", "dec", "fail", "index"}
ReceiverPc == {"idle", "try", "active", "retry", "empty", "got", "isEmpty", "safe",
               "restart", "gone"}
\* The receiver is in none of its methods; the last try_recv said Empty, or the
\* last is_safe_to_restart() said yes
BetweenCalls == {"idle", "empty", "safe"}
\* Between its fetch_add and its fetch_sub on active_senders
ActivePc   == {"cas", "undo", "push", "dec", "fail"}
TypeOK ==
    /\ word \in Word
    /\ active \in Nat
    /\ chan \in Seq(Record)
    /\ connected \in BOOLEAN
    /\ txIndex \in Nat
    /\ txLock \in Senders \cup {Receiver, NoOwner}
    /\ pc \in [Senders -> SenderPc]
    /\ call \in [Senders -> Nat]
    /\ arg \in [Senders -> [bank : 1..MaxBank, size : 1..MaxBatch]]
    /\ seen \in [Senders -> Word]
    /\ inflight \in SUBSET Record
    /\ rpc \in ReceiverPc
    /\ lastBank \in 0..MaxBank
    /\ owed \in SUBSET Record
    /\ pushed \in Nat

Init ==
    /\ word = SHUTDOWN
    /\ active = 0
    /\ chan = <<>>
    /\ connected = TRUE
    /\ txIndex = 0
    /\ txLock = NoOwner
    /\ pc = [s \in Senders |-> "idle"]
    /\ call = [s \in Senders |-> 0]
    /\ arg = [s \in Senders |-> [bank |-> 1, size |-> 1]]
    /\ seen = [s \in Senders |-> SHUTDOWN]
    /\ inflight = {}
    /\ rpc = "idle"
    /\ lastBank = 0
    /\ owed = {}
    /\ pushed = 0

-----------------------------------------------------------------------------
(* RecordSender::try_send (a batch of one) and try_send_batch *)

Goto(s, l) == pc' = [pc EXCEPT ![s] = l]
Unlock == txLock' = NoOwner
Mine(s) == {r \in inflight : r.owner = s}

Call(s) ==
    /\ pc[s] = "idle" /\ call[s] < MaxCalls
    /\ \E b \in 1..MaxBank, n \in 1..MaxBatch :
          arg' = [arg EXCEPT ![s] = [bank |-> b, size |-> n]]
    /\ call' = [call EXCEPT ![s] = @ + 1]
    /\ Goto(s, "lock")
    /\ UNCHANGED <<word, active, chan, connected, txIndex, txLock, seen, inflight,
                   receiverVars, pushed>>

Lock(s) ==
    /\ pc[s] = "lock"
    /\ IF TrackIndexes THEN txLock = NoOwner /\ txLock' = s ELSE UNCHANGED txLock
    /\ Goto(s, "load")
    /\ UNCHANGED <<word, active, chan, connected, txIndex, call, arg, seen, inflight,
                   receiverVars, pushed>>

\* The loaded word refuses the call: Shutdown, InactiveBankId or Full
Refused(s) ==
    \/ word.bank = Disabled
    \/ word.bank # arg[s].bank
    \/ word.allowed < arg[s].size

Load(s) ==
    /\ pc[s] = "load"
    /\ IF Refused(s)
         THEN Goto(s, "idle") /\ Unlock /\ UNCHANGED seen
         ELSE Goto(s, "inc") /\ seen' = [seen EXCEPT ![s] = word] /\ UNCHANGED txLock
    /\ UNCHANGED <<word, active, chan, connected, txIndex, call, arg, inflight,
                   receiverVars, pushed>>

IncActive(s) ==
    /\ pc[s] = "inc"
    /\ active' = active + 1
    /\ Goto(s, "cas")
    /\ UNCHANGED <<word, chan, connected, txIndex, txLock, call, arg, seen, inflight,
                   receiverVars, pushed>>

Batch(s) ==
    [owner : {s}, call : {call[s]}, pos : 1..arg[s].size, bank : {arg[s].bank}]

\* Mutant: a batch takes the room of one record only
ReserveOne(s) == [word EXCEPT !.allowed = @ - 1]

\* The word with the room of the batch taken away
Reserve(s) == [word EXCEPT !.allowed = @ - arg[s].size]

CompareExchange(s) ==
    /\ pc[s] = "cas"
    /\ IF word = seen[s]
         THEN /\ word' = Reserve(s)
              /\ inflight' = inflight \cup Batch(s)
              /\ Goto(s, "push")
         ELSE Goto(s, "undo") /\ UNCHANGED <<word, inflight>>
    /\ UNCHANGED <<active, chan, connected, txIndex, txLock, call, arg, seen,
                   receiverVars, pushed>>

\* Mutants: the value loaded before is tried again; the sender stays active
NoReload(s) == Goto(s, "inc") /\ active' = active - 1 /\ UNCHANGED txLock
StaysActive(s) == Goto(s, "lock") /\ Unlock /\ UNCHANGED active

\* A failed CAS: stop being active, drop the mutex guard, start over
StartOver(s) == Goto(s, "lock") /\ Unlock /\ active' = active - 1

Undo(s) ==
    /\ pc[s] = "undo"
    /\ StartOver(s)
    /\ UNCHANGED <<word, chan, connected, txIndex, call, arg, seen, inflight,
                   receiverVars, pushed>>

\* The crossbeam try_send of the next record of the batch
Push(s) ==
    /\ pc[s] = "push" /\ connected
    /\ \E r \in Mine(s) :
          /\ \A q \in Mine(s) : r.pos <= q.pos
          /\ chan' = Append(chan, r)
          /\ inflight' = inflight \ {r}
          /\ Goto(s, IF Mine(s) = {r} THEN "dec" ELSE "push")
    /\ pushed' = pushed + 1
    /\ UNCHANGED <<word, active, connected, txIndex, txLock, call, arg, seen,
                   receiverVars>>

PushDisconnected(s) ==
    /\ pc[s] = "push" /\ ~connected
    /\ inflight' = inflight \ Mine(s)
    /\ Goto(s, "fail")
    /\ UNCHANGED <<word, active, chan, connected, txIndex, txLock, call, arg, seen,
                   receiverVars, pushed>>

DecActive(s) ==
    /\ pc[s] = "dec"
    /\ active' = active - 1
    /\ Goto(s, "index")
    /\ UNCHANGED <<word, chan, connected, txIndex, txLock, call, arg, seen, inflight,
                   receiverVars, pushed>>

\* Err(Disconnected) also drops the mutex guard
FailDisconnected(s) ==
    /\ pc[s] = "fail"
    /\ active' = active - 1
    /\ Unlock
    /\ Goto(s, "idle")
    /\ UNCHANGED <<word, chan, connected, txIndex, call, arg, seen, inflight,
                   receiverVars, pushed>>

ReturnIndex(s) ==
    /\ pc[s] = "index"
    /\ txIndex' = IF TrackIndexes THEN txIndex + arg[s].size ELSE txIndex
    /\ Unlock
    /\ Goto(s, "idle")
    /\ UNCHANGED <<word, active, chan, connected, call, arg, seen, inflight,
                   receiverVars, pushed>>

SenderStep(s) ==
    \/ Lock(s) \/ Load(s) \/ IncActive(s) \/ CompareExchange(s) \/ Undo(s)
    \/ Push(s) \/ PushDisconnected(s) \/ DecActive(s) \/ FailDisconnected(s)
    \/ ReturnIndex(s)

-----------------------------------------------------------------------------
(* RecordReceiver *)

channelVars == <<word, active, chan, connected, txIndex, txLock, inflight, pushed>>
Queued == {chan[i] : i \in 1..Len(chan)}

\* A crossbeam receive that finds a record; on_received_record() follows
Take ==
    /\ chan # <<>>
    /\ chan' = Tail(chan)
    /\ rpc' = "got"
    /\ UNCHANGED <<word, active, connected, txIndex, txLock, inflight, pushed,
                   senderVars, lastBank, owed>>

\* try_recv: the first receive of its loop, of a new call or of one that spins
TryRecvEmpty ==
    /\ chan = <<>>
    /\ rpc' = "active"
    /\ UNCHANGED <<channelVars, senderVars, lastBank>>

TryRecv ==
    \/ rpc \in BetweenCalls /\ Take
    \/ rpc \in BetweenCalls /\ TryRecvEmpty /\ owed' = inflight
    \/ rpc = "try" /\ Take
    \/ rpc = "try" /\ TryRecvEmpty /\ UNCHANGED owed

\* Mutant: the channel is not looked at again once no sender is active
NoRecheck == IF active # 0 THEN "try" ELSE "empty"

\* Spin while a sender is active, then look at the channel once more
AfterActive == IF active # 0 THEN "try" ELSE "retry"

LoadActive ==
    /\ rpc = "active"
    /\ rpc' = AfterActive
    /\ UNCHANGED <<channelVars, senderVars, lastBank, owed>>

Retry ==
    /\ rpc = "retry"
    /\ \/ Take
       \/ /\ chan = <<>>
          /\ rpc' = "empty"
          /\ UNCHANGED <<channelVars, senderVars, lastBank, owed>>

\* fetch_add(1) on the packed word: a carry out of the low bits would change
\* the bank id, and wraps at 64 bits
OnReceivedRecord ==
    /\ rpc = "got"
    /\ word' = IF word.allowed < Capacity
                 THEN [word EXCEPT !.allowed = @ + 1]
                 ELSE [bank |-> (word.bank + 1) % (Disabled + 1), allowed |-> 0]
    /\ rpc' = "idle"
    /\ UNCHANGED <<active, chan, connected, txIndex, txLock, inflight, pushed,
                   senderVars, lastBank, owed>>

Shutdown ==
    /\ rpc \in BetweenCalls
    /\ word' = SHUTDOWN
    /\ rpc' = "idle"
    /\ UNCHANGED <<active, chan, connected, txIndex, txLock, inflight, pushed,
                   senderVars, lastBank, owed>>

\* Mutant: is_safe_to_restart() forgets the senders
SenderMayBeActive == TRUE

NoSenderActive == active = 0

\* is_safe_to_restart() reads active_senders first ...
SafeLoadActive ==
    /\ rpc \in BetweenCalls
    /\ NoSenderActive
    /\ rpc' = "isEmpty"
    /\ UNCHANGED <<channelVars, senderVars, lastBank, owed>>

\* ... and then asks whether the channel is empty
SafeIsEmpty ==
    /\ rpc = "isEmpty"
    /\ rpc' = IF chan = <<>> THEN "safe" ELSE "idle"
    /\ UNCHANGED <<channelVars, senderVars, lastBank, owed>>

\* Mutant: the index goes on from the last bank
SameIndex == txIndex
ResetIndex == 0
RestartWord == [bank |-> lastBank, allowed |-> Capacity]

\* restart(): takes the mutex, if there is one, and resets the index ...
RestartLock ==
    /\ rpc = "safe"
    /\ IF TrackIndexes THEN txLock = NoOwner /\ txLock' = Receiver ELSE UNCHANGED txLock
    /\ txIndex' = ResetIndex
    /\ \E b \in lastBank + 1..MaxBank : lastBank' = b
    /\ rpc' = "restart"
    /\ UNCHANGED <<word, active, chan, connected, inflight, pushed, senderVars, owed>>

\* ... stores the new word and drops the mutex after that
RestartStore ==
    /\ rpc = "restart"
    /\ word' = RestartWord
    /\ txLock' = IF TrackIndexes THEN NoOwner ELSE txLock
    /\ pushed' = 0
    /\ rpc' = "idle"
    /\ UNCHANGED <<active, chan, connected, txIndex, inflight, senderVars, lastBank, owed>>

\* The receiver is dropped: its thread returned, or it panicked
DropReceiver ==
    /\ rpc \in BetweenCalls
    /\ connected' = FALSE
    /\ chan' = <<>>
    /\ rpc' = "gone"
    /\ UNCHANGED <<word, active, txIndex, txLock, inflight, pushed, senderVars,
                   lastBank, owed>>

\* What makes the answer worth having: the channel is shut down
AskSafe == word.bank = Disabled /\ SafeLoadActive

ReceiverStep ==
    \/ TryRecv \/ LoadActive \/ Retry \/ OnReceivedRecord
    \/ AskSafe \/ SafeIsEmpty \/ RestartLock \/ RestartStore

Next ==
    \/ \E s \in Senders : Call(s) \/ SenderStep(s)
    \/ ReceiverStep \/ Shutdown \/ DropReceiver

Spec == Init /\ [][Next]_vars

\* Threads are scheduled, and the PoH loop calls try_recv and
\* is_safe_to_restart again and again
Fairness ==
    /\ \A s \in Senders : WF_vars(SenderStep(s))
    /\ WF_vars(ReceiverStep)
    /\ SF_vars(TryRecv) /\ SF_vars(AskSafe)

FairSpec == Spec /\ Fairness

-----------------------------------------------------------------------------
(* Properties *)

Got == IF rpc = "got" THEN 1 ELSE 0
Outstanding == Cardinality(inflight) + Len(chan) + Got

\* While the channel is open, the room left in the packed word, the records
\* reserved but not pushed, the queued ones and the one just received add up
\* to the capacity; after a shutdown they never exceed it.  So the fetch_add
\* of on_received_record() never carries into the bank id, and the crossbeam
\* channel is never full when a sender that reserved room pushes.
Conservation ==
    connected =>
      /\ word.bank # Disabled => word.allowed + Outstanding = Capacity
      /\ word.allowed + Outstanding <= Capacity

\* Every record that is reserved or queued belongs to the bank the
\* channel is open for: restart() never lets a record of the old bank through
\* to the new one, which PohRecorder::record would answer with an error.
OneBankAtATime ==
    connected /\ word.bank # Disabled =>
      \A r \in inflight \cup Queued : r.bank = word.bank

\* try_recv reports Empty only when every record that was admitted before the
\* call began has been received: PoH never hashes past an admitted record.
EmptyMeansReceived ==
    connected /\ rpc = "empty" => owed \cap (inflight \cup Queued) = {}

\* With tracked indexes, whenever the mutex is free the index equals the number
\* of transactions pushed for this bank: the index a sender is given is the
\* position of its first transaction in the channel.
IndexIsPosition ==
    TrackIndexes /\ connected /\ txLock = NoOwner => txIndex = pushed

\* Every try_send returns, whatever the CAS retries and the mutex do.
EveryCallReturns ==
    \A s \in Senders : pc[s] = "lock" ~> pc[s] = "idle"

\* After a shutdown the channel is drained until is_safe_to_restart() holds.
ShutdownLeadsToSafe ==
    word.bank = Disabled ~> rpc \in {"safe", "gone"} \/ word.bank # Disabled
=============================================================================
