----------------------------- MODULE Scheduling -----------------------------
(***************************************************************************)
(* One scheduling state machine and its users: a caller that creates tasks *)
(* and schedules them, the scheduler thread that hands out the unblocked   *)
(* ones, and handlers that finish what they were handed in any order.      *)
(***************************************************************************)
EXTENDS SchedulingStateMachine

CONSTANTS
    Configs         \* [capability, max_running, max_unique] of the machine

ASSUME ConfigsAssumption ==
    Configs \subseteq [capability : {"Fifo", "Priority"},
                       max_running : Nat \ {0},
                       max_unique : Nat \cup {NoLimit}]

VARIABLES
    machine,        \* the SchedulingStateMachine
    contexts,       \* the lock contexts of each task
    status,         \* history: what became of each task
    clearing        \* clear_and_reinitialize is in its loop

vars == <<machine, contexts, status, clearing>>

Init ==
    /\ \E c \in Configs : machine = NewMachine(c.capability, c.max_running, c.max_unique)
    /\ contexts = [t \in Task |-> NoContexts]
    /\ status = [t \in Task |-> "new"]
    /\ clearing = FALSE

Are(s) == {t \in Task : status[t] = s}

Active == Are("held") \cup Are("handed")

(***************************************************************************)
(* The tasks that may run: handed out, or ready to be.                     *)
(***************************************************************************)
Runnable == Are("handed") \cup Range(machine.unblocked_task_queue)

(***************************************************************************)
(* create_task, and schedule_or_buffer_task: a task that is held waits in  *)
(* the machine, a dropped one is gone.  Block verification schedules the   *)
(* transactions in the order of the ledger.                                *)
(***************************************************************************)
Schedule(t, cs, force) ==
    /\ ~clearing
    /\ status[t] = "new"
    /\ machine.capability = "Fifo" => \A o \in Are("new") : t <= o
    /\ Locked(cs) # {}
    /\ machine' = schedule_or_buffer_task(machine, t, cs, force)
    /\ contexts' = [contexts EXCEPT ![t] = cs]
    /\ status' = [status EXCEPT ![t] =
           CASE Drops(machine, t) -> "dropped"
             [] machine'.running_task_count > machine.running_task_count -> "handed"
             [] OTHER -> "held"]
    /\ UNCHANGED clearing

ScheduleNext ==
    /\ ~clearing
    /\ HasNextUnblocked(machine)
    /\ machine' = schedule_next_unblocked_task(machine)
    /\ status' = [status EXCEPT ![Head(machine.unblocked_task_queue)] = "handed"]
    /\ UNCHANGED <<contexts, clearing>>

Finish(m, t) ==
    /\ \E order \in ContextOrders(contexts[t]) :
           machine' = deschedule_task(m, t, contexts[t], order)
    /\ status' = [status EXCEPT ![t] = "done"]
    /\ contexts' = [contexts EXCEPT ![t] = NoContexts]

Deschedule(t) ==
    /\ ~clearing
    /\ status[t] = "handed"
    /\ Finish(machine, t)
    /\ UNCHANGED clearing

(***************************************************************************)
(* clear_and_reinitialize: with no task handed out, the buffered tasks are *)
(* scheduled and descheduled one by one.  reinitialize asserts that no     *)
(* task is left, and resets counters.                                      *)
(***************************************************************************)
StartClear ==
    /\ ~clearing
    /\ Are("handed") = {}
    /\ Are("held") # {}
    /\ clearing' = TRUE
    /\ UNCHANGED <<machine, contexts, status>>

ClearNext ==
    /\ clearing
    /\ HasNextUnblocked(machine)
    /\ Finish(schedule_next_unblocked_task(machine), Head(machine.unblocked_task_queue))
    /\ UNCHANGED clearing

Reinitialize ==
    /\ clearing
    /\ ~HasNextUnblocked(machine)
    /\ has_no_active_task(machine)
    /\ clearing' = FALSE
    /\ UNCHANGED <<machine, contexts, status>>

Done == Active = {} /\ Are("new") = {} /\ ~clearing /\ UNCHANGED vars

Next ==
    \/ \E t \in Task, cs \in LockContexts, force \in BOOLEAN : Schedule(t, cs, force)
    \/ ScheduleNext
    \/ \E t \in Task : Deschedule(t)
    \/ StartClear
    \/ ClearNext
    \/ Reinitialize
    \/ Done

Spec == Init /\ [][Next]_vars

-----------------------------------------------------------------------------

Conflict(t, o) ==
    \E a \in Address :
        /\ contexts[t][a] # "None"
        /\ contexts[o][a] # "None"
        /\ "Writable" \in {contexts[t][a], contexts[o][a]}

(***************************************************************************)
(* Tasks that may run at the same time do not conflict: the handlers       *)
(* execute them without taking account locks, and the scheduler treats     *)
(* AccountInUse as unreachable.                                            *)
(***************************************************************************)
NoConflictingTasks ==
    \A t, o \in Runnable : t # o => ~Conflict(t, o)

Holders(a) ==
    {t \in Active : contexts[t][a] # "None"} \ {e.task : e \in Range(machine.queues[a].blocked)}

(***************************************************************************)
(* The queues and the counters tell the same story, after whatever         *)
(* reblocking: what the code asserts of a usage queue holds, its current   *)
(* usage is that of the active tasks that lock the address and do not wait *)
(* for it, and blocked_usage_count is the number of addresses a task waits *)
(* for, so that no task is unblocked early and none is forgotten.  Without *)
(* an active task machine and queues are as they were created (the comment *)
(* at create_task and the asserts of reinitialize).                        *)
(***************************************************************************)
QueuesConsistent ==
    /\ \A a \in Address :
        LET q == machine.queues[a]
        IN  /\ WellFormed(q)
            /\ \A t \in Holders(a) : contexts[t][a] = q.current.usage
            /\ q.current.usage = "Writable" => Cardinality(Holders(a)) = 1
            /\ q.current.usage = "Readonly" =>
                   IF machine.capability = "Fifo" THEN q.current.count = Cardinality(Holders(a))
                                                  ELSE q.current.tasks = Holders(a)
    /\ \A t \in Task :
        machine.blocked_usage_count[t] =
            Cardinality({a \in Address : \E e \in Range(machine.queues[a].blocked) : e.task = t})
    /\ Runnable = {t \in Active : machine.blocked_usage_count[t] = 0}
    /\ has_no_active_task(machine) => Pristine(machine)
    /\ clearing /\ ~HasNextUnblocked(machine) => has_no_active_task(machine)

(***************************************************************************)
(* A task becomes runnable only ahead of the conflicting tasks in the      *)
(* machine that come later, in ledger order or in priority: none that      *)
(* conflicts with it and precedes it is active then.                       *)
(***************************************************************************)
PrecedenceKept ==
    [][\A t \in Runnable' \ Runnable :
           \A o \in Active' : (Conflict(t, o))' => t <= o]_vars

(***************************************************************************)
(* The comment in prepare_lock warns that reblocking must be consistent    *)
(* over all usage queues, "otherwise, deadlock would happen": while a task *)
(* is active some task is runnable, so that no tasks wait for each other   *)
(* only.                                                                   *)
(***************************************************************************)
NoDeadlock == Active # {} => Runnable # {}
=============================================================================
