----------------------------- MODULE UsageQueue -----------------------------
(***************************************************************************)
(* The usage queue of one address (unified-scheduler-logic/src/lib.rs):    *)
(* which tasks use the address now, and which are blocked behind them.     *)
(* A task is its task_id; a lower id has the higher priority.              *)
(*                                                                         *)
(* With "Fifo" queueing (block verification) the current usage counts its  *)
(* readers and blocked tasks wait in order of arrival.  With "Priority"    *)
(* queueing it holds the tasks themselves, blocked tasks wait in order of  *)
(* their ids, and a new task may take the address back (reblock it) from   *)
(* tasks of lower priority that do not run yet.                            *)
(***************************************************************************)
EXTENDS Naturals, Sequences, FiniteSetsExt

CONSTANTS
    Task        \* OrderedTaskId

RequestedUsage == {"Readonly", "Writable"}

UsageFromTask == [usage : RequestedUsage, task : Task]

Usage == [usage : RequestedUsage \cup {"None"}, count : Nat, tasks : SUBSET Task]

Unused == [usage |-> "None", count |-> 0, tasks |-> {}]

NewUsageQueue == [current |-> Unused, blocked |-> <<>>]

From(usage, t) == [usage |-> usage, task |-> t]

(***************************************************************************)
(* The usage of a run of tasks that share the address: one writer, or      *)
(* readers.                                                                *)
(***************************************************************************)
UsageOf(cap, run) ==
    IF run = <<>> THEN Unused
    ELSE [usage |-> Head(run).usage,
          count |-> IF cap = "Fifo" /\ Head(run).usage = "Readonly" THEN Len(run) ELSE 0,
          tasks |-> IF cap = "Priority" THEN {run[i].task : i \in DOMAIN run} ELSE {}]

CanShare(q, usage) ==
    \/ q.current.usage = "None"
    \/ q.current.usage = "Readonly" /\ usage = "Readonly"

try_lock(cap, q, usage, t) ==
    LET new == UsageOf(cap, <<From(usage, t)>>)
    IN  [q EXCEPT !.current = [usage |-> usage,
                               count |-> @.count + new.count,
                               tasks |-> @.tasks \cup new.tasks]]

(***************************************************************************)
(* The elements of S in the order of relation before, a set of pairs that  *)
(* orders S totally.                                                       *)
(***************************************************************************)
SortedBy(before, S) ==
    [i \in 1..Cardinality(S) |->
        CHOOSE x \in S : Cardinality({y \in S : <<y, x>> \in before}) = i - 1]

ByPriority == {p \in UsageFromTask \X UsageFromTask : p[1].task < p[2].task}

PushBack(cap, blocked, S) ==    \* mutant: no order by priority
    blocked \o SortedBy(ByPriority, S)

(***************************************************************************)
(* push_back of the VecDeque, or insert_usage_from_task of the map.        *)
(***************************************************************************)
Push(cap, blocked, S) ==
    IF cap = "Fifo" THEN blocked \o SortedBy(ByPriority, S)
                    ELSE SortedBy(ByPriority, Range(blocked) \cup S)

ReblockAny(cap, q, counts, usage, t) ==    \* mutant: try_reblock of a runnable task
    IF cap = "Priority" /\ (q.current.usage = "Writable" \/ usage = "Writable")
    THEN {o \in q.current.tasks : t < o}
    ELSE {}

(***************************************************************************)
(* prepare_lock: the current tasks that new task t reblocks, those of a    *)
(* lower priority that are not runnable yet.  Readers do not reblock       *)
(* readers.                                                                *)
(***************************************************************************)
Reblocked(cap, q, counts, usage, t) ==
    IF cap = "Priority" /\ (q.current.usage = "Writable" \/ usage = "Writable")
    THEN {o \in q.current.tasks : t < o /\ counts[o] # 0}
    ELSE {}

Reblock(cap, q, S) ==
    LET left == q.current.tasks \ S
    IN  IF S = {} THEN q
        ELSE [current |-> IF left = {} THEN Unused ELSE [q.current EXCEPT !.tasks = left],
              blocked |-> Push(cap, q.blocked, {From(q.current.usage, o) : o \in S})]

JoinReaders(cap, q, usage, t) ==    \* mutant: a reader joins past a blocked writer
    cap = "Priority" \/ q.blocked = <<>>

(***************************************************************************)
(* The rest of prepare_lock: nobody enters past a task that waits, or past *)
(* one of a higher priority.                                               *)
(***************************************************************************)
MayEnter(cap, q, usage, t) ==
    \/ q.blocked = <<>>
    \/ /\ cap = "Priority"
       /\ q.current.usage = "Readonly" /\ usage = "Readonly" => t < Head(q.blocked).task

Locks(cap, q, counts, usage, t) ==
    LET p == Reblock(cap, q, Reblocked(cap, q, counts, usage, t))
    IN  MayEnter(cap, q, usage, t) /\ CanShare(p, usage)

(***************************************************************************)
(* One round of the loop of try_lock_usage_queues: prepare_lock, then      *)
(* try_lock or push_blocked.                                               *)
(***************************************************************************)
lock(cap, q, counts, usage, t) ==
    LET p == Reblock(cap, q, Reblocked(cap, q, counts, usage, t))
    IN  IF Locks(cap, q, counts, usage, t)
        THEN try_lock(cap, p, usage, t)
        ELSE [p EXCEPT !.blocked = Push(cap, @, {From(usage, t)})]

(***************************************************************************)
(* The current usage after task t left it.                                 *)
(***************************************************************************)
Leave(cap, current, t) ==
    LET left == [current EXCEPT !.count = IF cap = "Fifo" /\ current.usage = "Readonly"
                                          THEN @ - 1 ELSE @,
                                !.tasks = @ \ {t}]
    IN  IF current.usage = "Readonly" /\ (left.count > 0 \/ left.tasks # {})
        THEN left ELSE Unused

(***************************************************************************)
(* The blocked tasks that lock an unused queue: the first one, and if it   *)
(* is a reader, those up to the first writer (pop_lockable_readonly).      *)
(***************************************************************************)
LockableRun(q) ==
    LET writers == {i \in DOMAIN q.blocked : q.blocked[i].usage = "Writable"}
        readers == IF writers = {} THEN Len(q.blocked) ELSE Min(writers) - 1
    IN  SubSeq(q.blocked, 1, IF readers = 0 /\ q.blocked # <<>> THEN 1 ELSE readers)

(***************************************************************************)
(* unlock, and the tasks that lock the address in turn.                    *)
(***************************************************************************)
Granted(cap, q, t) ==
    IF Leave(cap, q.current, t) = Unused THEN LockableRun(q) ELSE <<>>

unlock(cap, q, t) ==
    LET run == Granted(cap, q, t)
    IN  [current |-> IF run = <<>> THEN Leave(cap, q.current, t) ELSE UsageOf(cap, run),
         blocked |-> SubSeq(q.blocked, Len(run) + 1, Len(q.blocked))]

(***************************************************************************)
(* The form of a usage queue that the code asserts: an unused queue has    *)
(* nobody waiting, and behind readers the first to wait is a writer.       *)
(***************************************************************************)
WellFormed(q) ==
    /\ q.current.usage = "None" => q.current = Unused /\ q.blocked = <<>>
    /\ q.current.usage = "Readonly" /\ q.blocked # <<>> => Head(q.blocked).usage = "Writable"
=============================================================================
