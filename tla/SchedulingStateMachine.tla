----------------------- MODULE SchedulingStateMachine -----------------------
(***************************************************************************)
(* SchedulingStateMachine of unified-scheduler-logic: the usage queues of  *)
(* all addresses, the tasks that are ready to run, and the counters.       *)
(*                                                                         *)
(* A task locks each address at most once, so that the rounds of the loops *)
(* over its lock contexts touch different queues: they are taken together. *)
(* The order of the contexts shows only in the order in which newly        *)
(* unblocked tasks are queued, when the task is descheduled.               *)
(***************************************************************************)
EXTENDS UsageQueue

CONSTANTS
    Address,        \* the accounts
    Hash(_),        \* the message hash of a task
    NoLimit         \* None of max_unique_active_task_count

ASSUME IdsAssumption == Task \subseteq Nat /\ IsFiniteSet(Task)

ASSUME AddressAssumption == IsFiniteSet(Address)

(***************************************************************************)
(* The lock contexts of a transaction: how it uses each address.           *)
(***************************************************************************)
LockContexts == [Address -> RequestedUsage \cup {"None"}]

NoContexts == [a \in Address |-> "None"]

Locked(cs) == {a \in Address : cs[a] # "None"}

Machine == [capability : {"Fifo", "Priority"},
            max_running : Nat,
            max_unique : Nat \cup {NoLimit},
            queues : [Address -> [current : Usage, blocked : Seq(UsageFromTask)]],
            blocked_usage_count : [Task -> Nat],
            unblocked_task_queue : Seq(Task),
            hashes : SUBSET {Hash(t) : t \in Task},
            active_task_count : Nat,
            running_task_count : Nat]

NewMachine(capability, maxRunning, maxUnique) ==
    [capability |-> capability,
     max_running |-> maxRunning,
     max_unique |-> maxUnique,
     queues |-> [a \in Address |-> NewUsageQueue],
     blocked_usage_count |-> [t \in Task |-> 0],
     unblocked_task_queue |-> <<>>,
     hashes |-> {},
     active_task_count |-> 0,
     running_task_count |-> 0]

is_task_runnable(m) == m.running_task_count < m.max_running

has_no_active_task(m) == m.active_task_count = 0

(***************************************************************************)
(* The counts of the tasks that are reblocked rise with every address they *)
(* lose.                                                                   *)
(***************************************************************************)
try_lock_usage_queues(m, t, cs) ==
    LET cap == m.capability
        counts == m.blocked_usage_count
        mine == Locked(cs)
        lost(o) == {a \in mine : o \in Reblocked(cap, m.queues[a], counts, cs[a], t)}
        waits == {a \in mine : ~Locks(cap, m.queues[a], counts, cs[a], t)}
    IN  [m EXCEPT
           !.queues = [a \in Address |-> IF a \in mine
                                         THEN lock(cap, @[a], counts, cs[a], t) ELSE @[a]],
           !.blocked_usage_count = [o \in Task |-> IF o = t THEN Cardinality(waits)
                                                   ELSE @[o] + Cardinality(lost(o))]]

(***************************************************************************)
(* schedule_or_buffer_task: the task may be dropped, blocked, buffered, or *)
(* handed to the caller (who runs it), when running_task_count rises.      *)
(***************************************************************************)
Drops(m, t) ==
    /\ m.max_unique # NoLimit
    /\ Cardinality(m.hashes) >= m.max_unique \/ Hash(t) \in m.hashes

schedule_or_buffer_task(m, t, cs, force) ==
    LET active == [m EXCEPT !.active_task_count = @ + 1,
                            !.hashes = IF m.max_unique = NoLimit THEN @ ELSE @ \cup {Hash(t)}]
        locked == try_lock_usage_queues(active, t, cs)
    IN  CASE Drops(m, t) -> m
          [] ~Drops(m, t) /\ locked.blocked_usage_count[t] > 0 -> locked
          [] OTHER -> IF force \/ ~is_task_runnable(m)
                      THEN [locked EXCEPT !.unblocked_task_queue = Append(@, t)]
                      ELSE [locked EXCEPT !.running_task_count = @ + 1]

HasNextUnblocked(m) == is_task_runnable(m) /\ m.unblocked_task_queue # <<>>

schedule_next_unblocked_task(m) ==
    [m EXCEPT !.unblocked_task_queue = Tail(@), !.running_task_count = @ + 1]

(***************************************************************************)
(* The loop of unlock_usage_queues over the contexts of t, in the given    *)
(* order: the addresses granted to task o, the tasks granted all they wait *)
(* for, and these in the order of their last grants (first the queue, then *)
(* the place in its run), which unblocks them.                             *)
(***************************************************************************)
GrantedTo(m, t, cs, o) ==
    {a \in Locked(cs) : \E e \in Range(Granted(m.capability, m.queues[a], t)) : e.task = o}

UnblockFirst(m, t, cs) ==    \* mutant: unblocked by any grant
    {o \in Task : GrantedTo(m, t, cs, o) # {}}

Unblocked(m, t, cs) ==
    {o \in Task : /\ GrantedTo(m, t, cs, o) # {}
                  /\ Cardinality(GrantedTo(m, t, cs, o)) = m.blocked_usage_count[o]}

ByLastGrant(m, t, cs, order) ==
    LET tasks == Unblocked(m, t, cs)
        queue == [o \in tasks |->
                     Max({i \in DOMAIN order : order[i] \in GrantedTo(m, t, cs, o)})]
        place == [o \in tasks |->
                     LET run == Granted(m.capability, m.queues[order[queue[o]]], t)
                     IN  CHOOSE k \in DOMAIN run : run[k].task = o]
    IN  {p \in tasks \X tasks :
            \/ queue[p[1]] < queue[p[2]]
            \/ queue[p[1]] = queue[p[2]] /\ place[p[1]] < place[p[2]]}

unlock_usage_queues(m, t, cs, order) ==
    [m EXCEPT
       !.queues = [a \in Address |-> IF a \in Locked(cs)
                                     THEN unlock(m.capability, @[a], t) ELSE @[a]],
       !.blocked_usage_count = [o \in Task |-> @[o] - Cardinality(GrantedTo(m, t, cs, o))],
       !.unblocked_task_queue =
           @ \o SortedBy(ByLastGrant(m, t, cs, order), Unblocked(m, t, cs))]

deschedule_task(m, t, cs, order) ==
    unlock_usage_queues([m EXCEPT !.running_task_count = @ - 1,
                                  !.active_task_count = @ - 1,
                                  !.hashes = @ \ {Hash(t)}], t, cs, order)

(***************************************************************************)
(* The orders in which a transaction may list its accounts.                *)
(***************************************************************************)
ContextOrders(cs) == Injection(1..Cardinality(Locked(cs)), Locked(cs))

(***************************************************************************)
(* A machine as it was created, with nothing left in it.                   *)
(***************************************************************************)
Pristine(m) == m = NewMachine(m.capability, m.max_running, m.max_unique)
=============================================================================
