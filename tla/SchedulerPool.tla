---------------------------- MODULE SchedulerPool ----------------------------
(***************************************************************************)
(* The unified scheduler at work in block verification (unified-scheduler- *)
(* pool/src/lib.rs, runtime/src/installed_scheduler_pool.rs).  Replay      *)
(* takes a scheduler from the pool for a bank, sends it the transactions   *)
(* of the block, and waits for their result.  A scheduler has a thread     *)
(* that runs a SchedulingStateMachine and handler threads that execute the *)
(* tasks.  The cleaner thread of the pool takes schedulers back from banks *)
(* that are idle for too long, and drops idle and trashed ones.            *)
(*                                                                         *)
(* Calls that block (end_session and the joining of threads) hold the      *)
(* write lock of the bank's scheduler and take several steps: up to the    *)
(* first wait, and from each wait on.  What a call does between two waits  *)
(* sends one message at most, and reads what nobody else may write.        *)
(***************************************************************************)
EXTENDS SchedulingStateMachine, SequencesExt

CONSTANTS
    Bank,
    Scheduler,          \* ids of schedulers that may be spawned: 1..n
    Handler,            \* handler threads of a scheduler
    MaxUsageQueueCount, \* more loaded usage queues make a scheduler overgrown
    MaySend(_),         \* bound: the lock contexts of a task
    None

VARIABLES
    banks,      \* the SchedulerStatus of each bank, and where replay is with it
    idle,       \* scheduler_inners
    trashed,    \* trashed_scheduler_inners
    listeners,  \* banks with a registered timeout listener
    manager,    \* the ThreadManager of each scheduler, and its channels
    thread,     \* the scheduler thread of each scheduler
    channel,    \* the chained channels to the handlers, one pair per session
    handler,    \* the handler threads
    call,       \* the blocking call of the replay thread and of the cleaner
    tasks,      \* history: each task, its bank and its outcome
    panicked    \* history: an assert, unwrap, expect or unreachable was hit

pool == <<idle, trashed, listeners>>
vars == <<banks, pool, manager, thread, channel, handler, call, tasks, panicked>>

Actor == {"replay", "cleaner"}

NoCall == [op |-> "none", bank |-> None, scheduler |-> None, step |-> "none"]

NotSpawned ==
    [spawned |-> FALSE, joined |-> FALSE, stored |-> None, new |-> <<>>,
     results |-> <<>>, loaded |-> {}]

NewThread(result) ==
    [phase |-> "open", ending |-> FALSE, result |-> result,
     machine |-> NewMachine("Fifo", Cardinality(Task) + 1, NoLimit),
     finishedBlocked |-> <<>>, finishedIdle |-> <<>>]

NewHandler(b) == [state |-> "waits", context |-> b, session |-> 1, task |-> None,
                  aux |-> FALSE]

NoChannels == [main |-> <<>>, aux |-> <<>>]

Init ==
    /\ banks = [b \in Bank |-> [status |-> "Unavailable", scheduler |-> None,
                                result |-> None, replay |-> "new"]]
    /\ idle = <<>>
    /\ trashed = {}
    /\ listeners = {}
    /\ manager = [s \in Scheduler |-> NotSpawned]
    /\ thread = [s \in Scheduler |-> NewThread("Ok")]
    /\ channel = [s \in Scheduler |-> <<NoChannels>>]
    /\ handler = [s \in Scheduler |-> [h \in Handler |-> NewHandler(None)]]
    /\ call = [x \in Actor |-> NoCall]
    /\ tasks = [t \in Task |-> [bank |-> None, contexts |-> None, outcome |-> None]]
    /\ panicked = FALSE

Exited(s) == thread[s].phase = "exited"

(***************************************************************************)
(* The bank's lock is held by a blocking call.                             *)
(***************************************************************************)
Busy(b) == \E x \in Actor : call[x].bank = b

Payload(t) == [kind |-> "Payload", task |-> t]
Control(kind) == [kind |-> kind]
Open(b, result) == [kind |-> "OpenSubchannel", bank |-> b, result |-> result]

-----------------------------------------------------------------------------
(* The pool. *)

Unspawned == {s \in Scheduler : ~manager[s].spawned}

(***************************************************************************)
(* do_take_resumed_scheduler: the scheduler returned last, whose thread is *)
(* told to start a session, or a new one.                                  *)
(***************************************************************************)
take_scheduler(b, result, s) ==
    \/ /\ idle # <<>>
       /\ s = Last(idle)
       /\ idle' = Front(idle)
       /\ manager' = [manager EXCEPT ![s].new = Append(@, Open(b, result))]
       /\ panicked' = (panicked \/ Exited(s) \/ manager[s].joined
                                \/ manager[s].stored # None)
       /\ UNCHANGED <<thread, handler>>
    \/ /\ idle = <<>>
       /\ Unspawned # {}
       /\ s = CHOOSE u \in Unspawned : \A v \in Unspawned : u <= v
       /\ manager' = [manager EXCEPT ![s].spawned = TRUE]
       /\ thread' = [thread EXCEPT ![s] = NewThread(result)]
       /\ handler' = [handler EXCEPT ![s] = [h \in Handler |-> NewHandler(b)]]
       /\ UNCHANGED <<idle, panicked>>

(***************************************************************************)
(* The replay thread is in no call, and not about to send for another bank. *)
(***************************************************************************)
ReplayAt(b) ==
    /\ call["replay"] = NoCall
    /\ \A o \in Bank \ {b} : banks[o].replay # "sending"

(***************************************************************************)
(* BankForks::insert.                                                      *)
(***************************************************************************)
Insert(b) ==
    /\ ReplayAt(b)
    /\ banks[b].replay = "new"
    /\ \E s \in Scheduler :
          /\ take_scheduler(b, "Ok", s)
          /\ banks' = [banks EXCEPT ![b].status = "Active", ![b].scheduler = s,
                                    ![b].replay = "open"]
    /\ listeners' = listeners \cup {b}
    /\ UNCHANGED <<trashed, channel, call, tasks>>

PoolAny(s, m) ==    \* mutant: an aborted scheduler is not trashed
    IF Cardinality(m.loaded) > MaxUsageQueueCount
    THEN trashed' = trashed \cup {s} /\ UNCHANGED idle
    ELSE idle' = Append(idle, s) /\ UNCHANGED trashed

return_scheduler(s, m) ==
    IF m.joined \/ Cardinality(m.loaded) > MaxUsageQueueCount
    THEN trashed' = trashed \cup {s} /\ UNCHANGED idle
    ELSE idle' = Append(idle, s) /\ UNCHANGED trashed

(***************************************************************************)
(* The end of a call, with the thread manager m: a pause leaves the result *)
(* with the scheduler, a termination or a timeout takes it and returns the *)
(* scheduler.  A listener that fired is gone; that of a terminated bank    *)
(* will do nothing, and is forgotten.                                      *)
(***************************************************************************)
Return(x, c, m) ==
    LET b == c.bank
        s == c.scheduler
    IN  /\ call' = [call EXCEPT ![x] = NoCall]
        /\ CASE c.op \in {"complete", "stale"} ->
                  /\ manager' = [manager EXCEPT ![s] = [m EXCEPT !.stored = None]]
                  /\ return_scheduler(s, m)
                  /\ banks' = [banks EXCEPT
                         ![b].status = IF c.op = "stale" THEN "Stale" ELSE "Unavailable",
                         ![b].scheduler = None,
                         ![b].result = m.stored,
                         ![b].replay = IF c.op = "stale" THEN @ ELSE "completed"]
                  /\ panicked' = (panicked \/ m.stored = None)
                  /\ listeners' = listeners \ {b}
             [] c.op = "pause" ->
                  /\ manager' = [manager EXCEPT ![s] = m]
                  /\ banks' = [banks EXCEPT ![b].replay = "paused"]
                  /\ panicked' = (panicked \/ m.stored = None)
                  /\ UNCHANGED pool
             [] c.op = "recover" ->
                  /\ manager' = [manager EXCEPT ![s] = m]
                  /\ banks' = [banks EXCEPT ![b].replay = "dead"]
                  /\ panicked' = (panicked \/ m.stored # "Err")
                  /\ UNCHANGED pool
             [] c.op = "discard" ->
                  /\ manager' = [manager EXCEPT ![s] = m]
                  /\ panicked' = (panicked \/ m.stored # "Ok")
                  /\ UNCHANGED <<pool, banks>>

StartCall(x, op, b, step) ==
    call' = [call EXCEPT ![x] = [op |-> op, bank |-> b, scheduler |-> banks[b].scheduler,
                                 step |-> step]]

(***************************************************************************)
(* do_end_session: nothing is left to do if the threads are joined or the  *)
(* result is stored already; a failure to send tells of an abort.          *)
(***************************************************************************)
EndSession(x, op, b) ==
    LET s == banks[b].scheduler
        m == manager[s]
        ended == m.joined \/ m.stored # None
    IN  CASE ended -> Return(x, [op |-> op, bank |-> b, scheduler |-> s], m)
          [] ~ended /\ Exited(s) ->
               /\ StartCall(x, op, b, "join and receive")
               /\ UNCHANGED <<banks, pool, manager, panicked>>
          [] OTHER ->
               /\ StartCall(x, op, b, "receive")
               /\ manager' = [manager EXCEPT ![s].new = Append(@, Control("CloseSubchannel"))]
               /\ UNCHANGED <<banks, pool, panicked>>

-----------------------------------------------------------------------------
(* Replay. *)

NextTask == CHOOSE t \in Task : /\ tasks[t].bank = None
                                /\ \A o \in Task : tasks[o].bank = None => t <= o

(***************************************************************************)
(* with_active_scheduler: a stale bank takes a scheduler again, with the   *)
(* result it had so far.  The listener is registered under the read lock   *)
(* that is held until the transaction is sent.                             *)
(***************************************************************************)
Resume(b) ==
    /\ ReplayAt(b)
    /\ ~Busy(b)
    /\ banks[b].replay = "open"
    /\ banks[b].status = "Stale"
    /\ banks[b].result = "Ok"
    /\ \E t \in Task : tasks[t].bank = None
    /\ \E s \in Scheduler :
          /\ take_scheduler(b, banks[b].result, s)
          /\ banks' = [banks EXCEPT ![b].status = "Active", ![b].scheduler = s,
                                    ![b].result = None, ![b].replay = "sending"]
    /\ listeners' = listeners \cup {b}
    /\ UNCHANGED <<trashed, channel, call, tasks>>

(***************************************************************************)
(* schedule_execution: the task is created, its usage queues loaded, and   *)
(* sent.  Sending fails when the scheduler thread has exited.              *)
(***************************************************************************)
Schedule(b, cs) ==
    /\ ReplayAt(b)
    /\ ~Busy(b)
    /\ banks[b].replay \in {"open", "sending"}
    /\ banks[b].status = "Active"
    /\ \E t \in Task : tasks[t].bank = None
    /\ LET s == banks[b].scheduler
       IN  IF Exited(s)
           THEN /\ banks' = [banks EXCEPT ![b].replay = "failed"]
                /\ UNCHANGED <<manager, tasks>>
           ELSE /\ manager' = [manager EXCEPT ![s].new = Append(@, Payload(NextTask)),
                                              ![s].loaded = @ \cup Locked(cs)]
                /\ tasks' = [tasks EXCEPT ![NextTask] =
                                 [bank |-> b, contexts |-> cs, outcome |-> None]]
                /\ banks' = [banks EXCEPT ![b].replay = "open"]
    /\ UNCHANGED <<pool, thread, channel, handler, call, panicked>>

ScheduleStaleAborted(b) ==
    /\ ReplayAt(b)
    /\ ~Busy(b)
    /\ banks[b].replay = "open"
    /\ banks[b].status = "Stale"
    /\ banks[b].result = "Err"
    /\ banks' = [banks EXCEPT ![b].replay = "failed"]
    /\ UNCHANGED <<pool, manager, thread, channel, handler, call, tasks, panicked>>

(***************************************************************************)
(* retrieve_error_after_schedule_failure: the lock was released since the  *)
(* failure, and the cleaner may have come between.                         *)
(***************************************************************************)
RetrieveError(b) ==
    /\ ReplayAt(b)
    /\ ~Busy(b)
    /\ banks[b].replay = "failed"
    /\ \/ /\ banks[b].status = "Active"
          /\ StartCall("replay", "recover", b, "join and receive")
          /\ UNCHANGED <<banks, panicked>>
       \/ /\ banks[b].status # "Active"
          /\ banks' = [banks EXCEPT ![b].replay = "dead"]
          /\ panicked' = (panicked \/ ~(banks[b].status = "Stale" /\ banks[b].result = "Err"))
          /\ UNCHANGED call
    /\ UNCHANGED <<pool, manager, thread, channel, handler, tasks>>

(***************************************************************************)
(* register_recent_blockhash at the last tick: wait_for_paused_scheduler.  *)
(***************************************************************************)
Pause(b) ==
    /\ ReplayAt(b)
    /\ ~Busy(b)
    /\ banks[b].replay = "open"
    /\ \/ /\ banks[b].status = "Active"
          /\ EndSession("replay", "pause", b)
       \/ /\ banks[b].status # "Active"
          /\ banks' = [banks EXCEPT ![b].replay = "paused"]
          /\ UNCHANGED <<pool, manager, call, panicked>>
    /\ UNCHANGED <<thread, channel, handler, tasks>>

(***************************************************************************)
(* wait_for_scheduler_termination, to freeze or purge the bank, or when it *)
(* is dropped.                                                             *)
(***************************************************************************)
Complete(b) ==
    /\ ReplayAt(b)
    /\ ~Busy(b)
    /\ banks[b].replay \in {"open", "paused", "dead"}
    /\ \/ /\ banks[b].status = "Active"
          /\ EndSession("replay", "complete", b)
       \/ /\ banks[b].status = "Stale"
          /\ banks' = [banks EXCEPT ![b].status = "Unavailable", ![b].replay = "completed"]
          /\ UNCHANGED <<pool, manager, call, panicked>>
    /\ UNCHANGED <<thread, channel, handler, tasks>>

-----------------------------------------------------------------------------
(* The cleaner thread.  Any listener may expire, any idle scheduler be old.  *)
(* A listener does nothing to a bank that is not active.                     *)

Timeout(b) ==
    /\ call["cleaner"] = NoCall
    /\ ~Busy(b)
    /\ banks[b].replay # "sending"
    /\ b \in listeners
    /\ banks[b].status = "Active"
    /\ EndSession("cleaner", "stale", b)
    /\ UNCHANGED <<thread, channel, handler, tasks>>

(***************************************************************************)
(* disconnect_new_task_sender, in the drop of a ThreadManager that is not  *)
(* joined; the drop then joins the threads.                                *)
(***************************************************************************)
Disconnect(s) ==
    /\ call' = [call EXCEPT !["cleaner"] = [op |-> "discard", bank |-> None, scheduler |-> s,
                                            step |-> "join and receive"]]
    /\ panicked' = (panicked \/ manager[s].stored # None \/ Exited(s))
    /\ manager' = [manager EXCEPT ![s].new = Append(@, Control("Disconnect"))]

DropIdle(s) ==
    /\ call["cleaner"] = NoCall
    /\ s \in Range(idle)
    /\ idle' = SelectSeq(idle, LAMBDA o : o # s)
    /\ Disconnect(s)
    /\ UNCHANGED <<banks, trashed, listeners, thread, channel, handler, tasks>>

DropTrashed(s) ==
    /\ call["cleaner"] = NoCall
    /\ s \in trashed
    /\ trashed' = trashed \ {s}
    /\ IF manager[s].joined THEN UNCHANGED <<call, manager, panicked>> ELSE Disconnect(s)
    /\ UNCHANGED <<banks, idle, listeners, thread, channel, handler, tasks>>

-----------------------------------------------------------------------------
(* The steps of a blocking call, from its waits on. *)

At(x, step) == call[x].step = step

Goto(x, step) == call' = [call EXCEPT ![x].step = step]

(***************************************************************************)
(* The first result in the channel is put in the thread manager.           *)
(***************************************************************************)
Stored(m) == [m EXCEPT !.stored = Head(m.results), !.results = Tail(@)]

ReceiveResult(x) ==
    /\ At(x, "receive")
    /\ LET s == call[x].scheduler
           m == manager[s]
       IN  /\ m.results # <<>>
           /\ IF Head(m.results) = "Err"
              THEN /\ manager' = [manager EXCEPT ![s] = Stored(m)]
                   /\ Goto(x, "join")
                   /\ UNCHANGED <<banks, pool, panicked>>
              ELSE Return(x, call[x], Stored(m))
    /\ UNCHANGED <<thread, channel, handler, tasks>>

(***************************************************************************)
(* ensure_join_threads: the channels go with the threads, and a call that  *)
(* did not receive the result yet does so unless another had joined them.  *)
(***************************************************************************)
Join(x) ==
    /\ At(x, "join") \/ At(x, "join and receive")
    /\ LET s == call[x].scheduler
           m == manager[s]
           receives == At(x, "join and receive") /\ ~m.joined
       IN  /\ Exited(s)
           /\ \A h \in Handler : handler[s][h].state = "exited"
           /\ receives => m.results # <<>>
           /\ Return(x, call[x], [IF receives THEN Stored(m) ELSE m EXCEPT !.joined = TRUE])
           /\ channel' = [channel EXCEPT ![s] = <<NoChannels>>]
           /\ handler' = [handler EXCEPT ![s] = [h \in Handler |->
                             [NewHandler(None) EXCEPT !.state = "exited"]]]
    /\ UNCHANGED <<thread, tasks>>

CallStep(x) == ReceiveResult(x) \/ Join(x)

-----------------------------------------------------------------------------
(* The scheduler thread: one message of its select_biased per step. *)

Current(s) == Len(channel[s])

FinishAtOnce(th) ==    \* mutant: the session does not wait for its active tasks
    th.ending

can_finish_session(th) == th.ending /\ has_no_active_task(th.machine)

(***************************************************************************)
(* Nobody looks at the state of a thread that left its loop.               *)
(***************************************************************************)
Aborted(phase) == [NewThread("Ok") EXCEPT !.phase = phase]

(***************************************************************************)
(* The end of a round of the loop: the thread sends its result when it     *)
(* aborts, and when the session is finished and it waits for the next one. *)
(***************************************************************************)
Conclude(s, th, m, aborts) ==
    LET phase == CASE aborts -> "aborting"
                   [] ~aborts /\ can_finish_session(th) -> "between"
                   [] OTHER -> "open"
    IN  /\ thread' = [thread EXCEPT ![s] =
              IF aborts THEN Aborted("aborting")
                        ELSE [th EXCEPT !.phase = phase, !.ending = @ /\ phase # "between"]]
        /\ manager' = [manager EXCEPT ![s] =
              IF phase # "open" THEN [m EXCEPT !.results = Append(@, th.result)] ELSE m]

(***************************************************************************)
(* After the result is sent the receivers and senders of an aborted thread *)
(* are dropped.  The handlers still get what is in the main channel, but   *)
(* the auxiliary one comes after its disconnection.  What its tasks lock   *)
(* and which queues are loaded does not matter any more.                   *)
(***************************************************************************)
ThreadExit(s) ==
    /\ thread[s].phase = "aborting"
    /\ thread' = [thread EXCEPT ![s] = Aborted("exited")]
    /\ manager' = [manager EXCEPT ![s].new = <<>>, ![s].loaded = {}]
    /\ channel' = [channel EXCEPT ![s][Current(s)].aux = <<>>]
    /\ tasks' = [t \in Task |-> IF \E b \in Bank : banks[b].scheduler = s /\ tasks[t].bank = b
                               THEN [tasks[t] EXCEPT !.contexts = None]
                               ELSE tasks[t]]
    /\ UNCHANGED <<banks, pool, handler, call, panicked>>

(***************************************************************************)
(* A finished task: descheduled, and its error aborts the scheduler.       *)
(***************************************************************************)
ThreadFinished(s, via) ==
    /\ thread[s].phase = "open"
    /\ thread[s][via] # <<>>
    /\ via = "finishedIdle" => /\ thread[s].finishedBlocked = <<>>
                               /\ thread[s].machine.unblocked_task_queue = <<>>
                               /\ manager[s].new = <<>>
    /\ LET done == Head(thread[s][via])
           th == [thread[s] EXCEPT ![via] = Tail(@)]
           cs == tasks[done.task].contexts
       IN  /\ \E order \in ContextOrders(cs) :
                  Conclude(s, [th EXCEPT !.machine = deschedule_task(@, done.task, cs, order),
                                         !.result = IF done.outcome = "Err" THEN "Err" ELSE @],
                           manager[s], done.outcome = "Err")
           /\ tasks' = [tasks EXCEPT ![done.task].contexts = None]
    /\ UNCHANGED <<banks, pool, channel, handler, call, panicked>>

ThreadUnblocked(s) ==
    /\ thread[s].phase = "open"
    /\ thread[s].finishedBlocked = <<>>
    /\ HasNextUnblocked(thread[s].machine)
    /\ thread' = [thread EXCEPT ![s].machine = schedule_next_unblocked_task(@)]
    /\ channel' = [channel EXCEPT ![s][Current(s)].main =
                      Append(@, Payload(Head(thread[s].machine.unblocked_task_queue)))]
    /\ UNCHANGED <<banks, pool, manager, handler, call, tasks, panicked>>

(***************************************************************************)
(* A message of new_task_receiver during a session.  Any but these, or one *)
(* after CloseSubchannel, is unreachable.                                  *)
(***************************************************************************)
ThreadNew(s) ==
    /\ thread[s].phase = "open"
    /\ thread[s].finishedBlocked = <<>>
    /\ thread[s].machine.unblocked_task_queue = <<>>
    /\ manager[s].new # <<>>
    /\ LET message == Head(manager[s].new)
           m == [manager[s] EXCEPT !.new = Tail(@)]
           th == thread[s]
       IN  /\ panicked' = (panicked \/ th.ending \/ message.kind = "OpenSubchannel")
           /\ CASE message.kind = "Payload" ->
                     LET next == schedule_or_buffer_task(th.machine, message.task,
                                     tasks[message.task].contexts, th.ending)
                     IN  /\ Conclude(s, [th EXCEPT !.machine = next], m, FALSE)
                         /\ channel' = IF next.running_task_count > th.machine.running_task_count
                                       THEN [channel EXCEPT ![s][Current(s)].aux =
                                                Append(@, message.task)]
                                       ELSE channel
                [] message.kind = "CloseSubchannel" ->
                     Conclude(s, [th EXCEPT !.ending = TRUE], m, FALSE) /\ UNCHANGED channel
                [] OTHER -> Conclude(s, th, m, TRUE) /\ UNCHANGED channel
    /\ UNCHANGED <<banks, pool, handler, call, tasks>>

(***************************************************************************)
(* A message between two sessions.  A new session chains the handlers to   *)
(* new channels, with one message for each of them.                        *)
(***************************************************************************)
Chain(b) == [kind |-> "ContextAndChannels", bank |-> b]

ThreadOpen(s) ==
    /\ thread[s].phase = "between"
    /\ manager[s].new # <<>>
    /\ LET message == Head(manager[s].new)
           m == [manager[s] EXCEPT !.new = Tail(@)]
           th == thread[s]
       IN  /\ panicked' = (panicked \/ message.kind \notin {"OpenSubchannel", "Disconnect"})
           /\ IF message.kind = "OpenSubchannel"
              THEN /\ Conclude(s, [th EXCEPT !.result = message.result], m, FALSE)
                   /\ channel' = [channel EXCEPT ![s] =
                         Append([@ EXCEPT ![Current(s)].main =
                                    @ \o [h \in 1..Cardinality(Handler) |-> Chain(message.bank)]],
                                NoChannels)]
              ELSE Conclude(s, [th EXCEPT !.result = "Ok"], m, TRUE) /\ UNCHANGED channel
    /\ UNCHANGED <<banks, pool, handler, call, tasks>>

ThreadStep(s) ==
    \/ \E via \in {"finishedBlocked", "finishedIdle"} : ThreadFinished(s, via)
    \/ ThreadUnblocked(s)
    \/ ThreadNew(s)
    \/ ThreadOpen(s)
    \/ ThreadExit(s)

-----------------------------------------------------------------------------
(* The handler threads. *)

LeakedSender(s, session) ==    \* mutant: a sender outlives the scheduler thread
    session < Current(s)

(***************************************************************************)
(* The sender of a session's main channel is dropped for the one of the    *)
(* next session, or with the scheduler thread.                             *)
(***************************************************************************)
Disconnected(s, session) == Exited(s) \/ session < Current(s)

KeepContext(me, b) ==    \* mutant: the bank of the first session is kept
    me

SwitchTo(me, b) == [me EXCEPT !.context = b]

(***************************************************************************)
(* select_biased of the handler: a task from the main channel, the switch  *)
(* to the channels of the next session, the exit when the main channel is  *)
(* disconnected, or else a task from the auxiliary channel.  The channels  *)
(* of a session are gone when the last handler has left them.              *)
(***************************************************************************)
HandlerTake(s, h) ==
    LET me == handler[s][h]
        main == channel[s][me.session].main
        aux == channel[s][me.session].aux
        Receive(field) == channel' = [channel EXCEPT ![s][me.session][field] = Tail(@)]
        Become(new) == handler' = [handler EXCEPT ![s][h] = new]
        slower == {o \in Handler \ {h} : handler[s][o].session <= me.session}
    IN  /\ manager[s].spawned
        /\ me.state = "waits"
        /\ \/ /\ main # <<>>
              /\ Head(main).kind = "Payload"
              /\ Receive("main")
              /\ Become([me EXCEPT !.state = "executes", !.task = Head(main).task])
           \/ /\ main # <<>>
              /\ Head(main).kind = "ContextAndChannels"
              /\ IF slower # {}
                 THEN /\ Receive("main")
                      /\ Become([SwitchTo(me, Head(main).bank) EXCEPT !.session = @ + 1])
                 ELSE /\ channel' = [channel EXCEPT ![s] = Tail(@)]
                      /\ handler' = [handler EXCEPT ![s] = [o \in Handler |->
                             IF o = h THEN SwitchTo(me, Head(main).bank)
                                      ELSE [@[o] EXCEPT !.session = @ - 1]]]
           \/ /\ main = <<>>
              /\ Disconnected(s, me.session)
              /\ Become([me EXCEPT !.state = "exited"])
              /\ UNCHANGED channel
           \/ /\ main = <<>>
              /\ ~Disconnected(s, me.session)
              /\ aux # <<>>
              /\ Receive("aux")
              /\ Become([me EXCEPT !.state = "executes", !.task = Head(aux), !.aux = TRUE])
        /\ UNCHANGED <<banks, pool, manager, thread, call, tasks, panicked>>

(***************************************************************************)
(* The task is executed and returned; the handler exits when nobody        *)
(* receives it.  A handler that panics takes the whole process down: the   *)
(* validator's panic hook exits.                                           *)
(***************************************************************************)
HandlerFinish(s, h, outcome) ==
    LET me == handler[s][h]
        via == IF me.aux THEN "finishedIdle" ELSE "finishedBlocked"
    IN  /\ me.state = "executes"
        /\ tasks' = [tasks EXCEPT ![me.task].outcome = outcome]
        /\ handler' = [handler EXCEPT ![s][h].task = None, ![s][h].aux = FALSE,
                                      ![s][h].state = IF Exited(s) THEN "exited" ELSE "waits"]
        /\ thread' = IF thread[s].phase \in {"aborting", "exited"} THEN thread
                     ELSE [thread EXCEPT ![s][via] =
                              Append(@, [task |-> me.task, outcome |-> outcome])]
        /\ UNCHANGED <<banks, pool, manager, channel, call, panicked>>

Outcome == {"Ok", "Err"}

HandlerStep(s, h) ==
    HandlerTake(s, h) \/ \E outcome \in Outcome : HandlerFinish(s, h, outcome)

-----------------------------------------------------------------------------

(***************************************************************************)
(* Every bank that got a scheduler is completed; an idle validator.        *)
(***************************************************************************)
Done ==
    /\ \A b \in Bank : banks[b].replay \in {"new", "completed"}
    /\ \A x \in Actor : call[x] = NoCall
    /\ UNCHANGED vars

Next ==
    \/ \E b \in Bank :
          \/ Insert(b) \/ Resume(b) \/ ScheduleStaleAborted(b) \/ RetrieveError(b)
          \/ Pause(b) \/ Complete(b) \/ Timeout(b)
          \/ \E cs \in LockContexts : MaySend(cs) /\ Schedule(b, cs)
    \/ \E s \in Scheduler :
          \/ DropIdle(s) \/ DropTrashed(s) \/ ThreadStep(s)
          \/ \E h \in Handler : HandlerStep(s, h)
    \/ \E x \in Actor : CallStep(x)
    \/ Done

Spec == Init /\ [][Next]_vars

-----------------------------------------------------------------------------

(***************************************************************************)
(* A handler executes a task in the context of the task's own bank: the    *)
(* chained channel switches every handler, however late it is, before it   *)
(* gives it a task of the next session.                                    *)
(***************************************************************************)
RightContext ==
    \A s \in Scheduler, h \in Handler :
        handler[s][h].state = "executes" =>
            handler[s][h].context = tasks[handler[s][h].task].bank

SentTo(b) == {t \in Task : tasks[t].bank = b}

(***************************************************************************)
(* The result taken from the scheduler of a bank is the outcome of the     *)
(* block: Ok only when every task sent for the bank was executed and none  *)
(* failed, Err only when one failed, over all the sessions of the bank and *)
(* whoever ended them ("otherwise verification outcome could differ").     *)
(***************************************************************************)
ResultIsOutcome ==
    \A b \in Bank :
        /\ banks[b].result = "Ok" => \A t \in SentTo(b) : tasks[t].outcome = "Ok"
        /\ banks[b].result = "Err" => \E t \in SentTo(b) : tasks[t].outcome = "Err"

(***************************************************************************)
(* A scheduler in the pool is ready for a session of any bank: its thread  *)
(* and handlers live, no result is left over, and no task of an earlier    *)
(* bank is in its channels or its state machine.  No scheduler is in two   *)
(* places.                                                                 *)
(***************************************************************************)
Installed == {banks[b].scheduler : b \in Bank} \ {None}

PooledAreReady ==
    /\ \A s \in Range(idle) :
          /\ thread[s].phase = "between"
          /\ ~manager[s].joined /\ manager[s].stored = None
          /\ manager[s].new = <<>> /\ manager[s].results = <<>>
          /\ Pristine(thread[s].machine)
          /\ \A h \in Handler : handler[s][h].state = "waits"
          /\ \A i \in DOMAIN channel[s] :
                channel[s][i].aux = <<>>
                /\ \A j \in DOMAIN channel[s][i].main :
                       channel[s][i].main[j].kind # "Payload"
    /\ IsInjective(idle)
    /\ Range(idle) \cap (trashed \cup Installed) = {} /\ trashed \cap Installed = {}

ThreadsStep ==
    \/ \E x \in Actor : CallStep(x)
    \/ \E s \in Scheduler : ThreadStep(s) \/ \E h \in Handler : HandlerStep(s, h)

(***************************************************************************)
(* end_session, the recovery of an error and the joining of threads do not *)
(* block for ever, whatever failed: while one of them waits, some thread   *)
(* can go on, and each step of a thread uses up a message.  Nor is an      *)
(* assert, unwrap, expect or unreachable of the pool, the threads or       *)
(* BankWithScheduler reached: the messages of a session come in order, a   *)
(* result is there when it is taken and only then, and only an aborted     *)
(* scheduler fails to take a transaction.                                  *)
(***************************************************************************)
NobodyStuck ==
    /\ ~panicked
    /\ (\E x \in Actor : call[x] # NoCall) => ENABLED ThreadsStep
=============================================================================
