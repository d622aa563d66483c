-------------------------- MODULE Scheduling_proof --------------------------
(***************************************************************************)
(* Proofs about the scheduling state machine, for any tasks, addresses and *)
(* configurations: runnable tasks never conflict, the queues agree with    *)
(* the counters, no tasks wait for each other only, and conflicting tasks  *)
(* become runnable in order.                                               *)
(***************************************************************************)
EXTENDS Scheduling, SchedulingStateMachine_proof

(***************************************************************************)
(* The tasks in each state, for statuses st; the active ones; and those    *)
(* that may run.                                                           *)
(***************************************************************************)
Statuses == {"new", "held", "handed", "done", "dropped"}

AreIn(st, s) == {t \in Task : st[t] = s}

ActiveIn(st) == AreIn(st, "held") \cup AreIn(st, "handed")

RunnableIn(m, st) == AreIn(st, "handed") \cup Range(m.unblocked_task_queue)

(***************************************************************************)
(* The active tasks that wait for no address are those that may run, and   *)
(* each is queued once.                                                    *)
(***************************************************************************)
ReadyOK(m, st) ==
    LET ready == m.unblocked_task_queue
    IN  /\ \A i, j \in DOMAIN ready : ready[i] = ready[j] => i = j
        /\ Range(ready) \subseteq AreIn(st, "held")
        /\ \A t \in ActiveIn(st) : m.blocked_usage_count[t] = 0 <=> t \in RunnableIn(m, st)

CountersOK(m, st) ==
    /\ m.active_task_count = Cardinality(ActiveIn(st))
    /\ m.running_task_count = Cardinality(AreIn(st, "handed"))

HashesOK(m, st) ==
    IF m.max_unique = NoLimit
    THEN m.hashes = {}
    ELSE /\ m.hashes = {Hash(t) : t \in ActiveIn(st)}
         /\ \A t, o \in ActiveIn(st) : Hash(t) = Hash(o) => t = o

LedgerOrder(m, st) ==
    m.capability = "Fifo" => \A o \in ActiveIn(st), t \in AreIn(st, "new") : o < t

Consistent(m, cx, st) ==
    /\ st \in [Task -> Statuses]
    /\ m.max_running # 0
    /\ MachineOK(m, cx, ActiveIn(st))
    /\ ReadyOK(m, st)
    /\ CountersOK(m, st)
    /\ HashesOK(m, st)
    /\ LedgerOrder(m, st)

(***************************************************************************)
(* The inductive invariant.                                                *)
(***************************************************************************)
SchedInv ==
    /\ Consistent(machine, contexts, status)
    /\ clearing \in BOOLEAN
    /\ clearing => AreIn(status, "handed") = {}

-----------------------------------------------------------------------------
(* The operations of the machine *)

(***************************************************************************)
(* The states of the tasks after task t changes its state to x.            *)
(***************************************************************************)
Changed(st, st2, t, x) ==
    /\ st2 \in [Task -> Statuses]
    /\ AreIn(st2, x) = AreIn(st, x) \cup {t}
    /\ x # "new" => AreIn(st2, "new") = AreIn(st, "new") \ {t}
    /\ x # "held" => AreIn(st2, "held") = AreIn(st, "held") \ {t}
    /\ x # "handed" => AreIn(st2, "handed") = AreIn(st, "handed") \ {t}

LEMMA StatusChange ==
    ASSUME NEW st \in [Task -> Statuses], NEW t \in Task, NEW x \in Statuses
    PROVE  Changed(st, [st EXCEPT ![t] = x], t, x)
<1> DEFINE st2 == [st EXCEPT ![t] = x]
<1>1. st2 \in [Task -> Statuses] /\ st2[t] = x /\ \A o \in Task \ {t} : st2[o] = st[o]
  BY Zenon
<1> HIDE DEF st2
<1>2. Changed(st, st2, t, x)
  BY Zenon, <1>1 DEF AreIn, Changed
<1> QED
  BY <1>2 DEF st2

(***************************************************************************)
(* The sets of tasks in each state are finite and disjoint.                *)
(***************************************************************************)
LEMMA StatusSets ==
    ASSUME NEW st
    PROVE  /\ \A s : AreIn(st, s) \in SUBSET Task /\ IsFiniteSet(AreIn(st, s))
           /\ ActiveIn(st) \in SUBSET Task /\ IsFiniteSet(ActiveIn(st))
           /\ \A s, u : s # u => AreIn(st, s) \cap AreIn(st, u) = {}
           /\ \A s : \A t \in Task : t \in AreIn(st, s) <=> st[t] = s
           /\ AreIn(st, "held") \subseteq ActiveIn(st) /\ AreIn(st, "handed") \subseteq ActiveIn(st)
           /\ AreIn(st, "new") \cap ActiveIn(st) = {}
<1>1. /\ \A s : AreIn(st, s) \in SUBSET Task
      /\ \A s, u : s # u => AreIn(st, s) \cap AreIn(st, u) = {}
      /\ \A s : \A t \in Task : t \in AreIn(st, s) <=> st[t] = s
  BY Zenon DEF AreIn
<1>2. ActiveIn(st) = AreIn(st, "held") \cup AreIn(st, "handed")
  BY Zenon DEF ActiveIn
<1>3. ActiveIn(st) \in SUBSET Task
  BY Zenon, <1>1, <1>2
<1>4. AreIn(st, "new") \cap ActiveIn(st) = {}
  BY <1>1, <1>2
<1>5. \A S \in SUBSET Task : IsFiniteSet(S)
  BY Zenon, IdsAssumption, FS_Subset
<1> QED
  BY <1>1, <1>2, <1>3, <1>4, <1>5

(***************************************************************************)
(* The lock contexts of a task that is not active do not matter.           *)
(***************************************************************************)
LEMMA ContextsAlone ==
    ASSUME NEW m, NEW cx, NEW A, MachineOK(m, cx, A), NEW t \in Task \ A, NEW cs \in LockContexts
    PROVE  MachineOK(m, [cx EXCEPT ![t] = cs], A)
<1> DEFINE cx2 == [cx EXCEPT ![t] = cs]
<1>1. m \in Machine /\ cx \in [Task -> LockContexts] /\ A \in SUBSET Task
      /\ \A o \in Task : m.blocked_usage_count[o] = Cardinality(WaitsIn(m, o))
  BY Zenon DEF MachineOK
<1>2. cx2 \in [Task -> LockContexts] /\ \A o \in A : cx2[o] = cx[o]
  BY <1>1
<1> HIDE DEF cx2
<1>3. ASSUME NEW a \in Address
      PROVE  QueueInv(m.capability, m.queues[a], UsersOf(A, cx2, a), UseAt(cx2, a), m.blocked_usage_count)
  <2>1. QueueInv(m.capability, m.queues[a], UsersOf(A, cx, a), UseAt(cx, a), m.blocked_usage_count)
        /\ UsersOf(A, cx, a) \subseteq A
    BY Zenon, UsersAre
  <2>2. UsersOf(A, cx2, a) = UsersOf(A, cx, a)
    BY Zenon, <1>2 DEF UsersOf
  <2>3. \A o \in A : UseAt(cx2, a)[o] = UseAt(cx, a)[o]
    BY <1>1, <1>2 DEF UseAt
  <2>4. \A o \in UsersOf(A, cx, a) : UseAt(cx2, a)[o] = UseAt(cx, a)[o]
    BY <2>1, <2>3
  <2> QED
    BY <2>1, <2>2, <2>4, CountsKept
<1>4. MachineOK(m, cx2, A)
  BY <1>1, <1>2, <1>3, Zenon DEF MachineOK
<1> QED
  BY Zenon, <1>4 DEF cx2

(***************************************************************************)
(* What schedule_or_buffer_task makes of machine m: the new task waits, is *)
(* queued as ready, or is handed out.                                      *)
(***************************************************************************)
Scheduled(m, n, A, t, cs) ==
    /\ SameRest(m, n)
    /\ n.active_task_count = m.active_task_count + 1
    /\ n.hashes = IF m.max_unique = NoLimit THEN m.hashes ELSE m.hashes \cup {Hash(t)}
    /\ \A o \in A : n.blocked_usage_count[o] = 0 <=> m.blocked_usage_count[o] = 0
    /\ n.blocked_usage_count[t] = 0 =>
           \A a \in Locked(cs) : \A b \in Waiting(n.queues[a]) : t < b
    /\ \/ /\ n.blocked_usage_count[t] # 0
          /\ n.unblocked_task_queue = m.unblocked_task_queue
          /\ n.running_task_count = m.running_task_count
       \/ /\ n.blocked_usage_count[t] = 0
          /\ n.unblocked_task_queue = Append(m.unblocked_task_queue, t)
          /\ n.running_task_count = m.running_task_count
       \/ /\ n.blocked_usage_count[t] = 0
          /\ n.unblocked_task_queue = m.unblocked_task_queue
          /\ n.running_task_count = m.running_task_count + 1

(***************************************************************************)
(* schedule_or_buffer_task, for a task that is not dropped.                *)
(***************************************************************************)
LEMMA ScheduleMachine ==
    ASSUME NEW m, NEW cx, NEW A, MachineOK(m, cx, A),
           NEW t \in Task \ A, NEW cs \in LockContexts, NEW force \in BOOLEAN,
           ~Drops(m, t), m.capability = "Fifo" => \A o \in A : o < t
    PROVE  LET n == schedule_or_buffer_task(m, t, cs, force)
           IN  MachineOK(n, [cx EXCEPT ![t] = cs], A \cup {t}) /\ Scheduled(m, n, A, t, cs)
<1> DEFINE h == IF m.max_unique = NoLimit THEN m.hashes ELSE m.hashes \cup {Hash(t)}
           ac == m.active_task_count + 1
           m1 == [m EXCEPT !.active_task_count = ac, !.hashes = h]
           l == try_lock_usage_queues(m1, t, cs)
           ready == Append(l.unblocked_task_queue, t)
           rc == l.running_task_count + 1
           n == schedule_or_buffer_task(m, t, cs, force)
           cx2 == [cx EXCEPT ![t] = cs]
<1>1. m \in Machine
  BY Zenon DEF MachineOK
<1>2. h \in SUBSET {Hash(o) : o \in Task} /\ ac \in Nat
  BY <1>1, MachineType
<1>3. n = IF l.blocked_usage_count[t] > 0 THEN l
          ELSE IF force \/ ~is_task_runnable(m)
               THEN [l EXCEPT !.unblocked_task_queue = ready]
               ELSE [l EXCEPT !.running_task_count = rc]
  BY Zenon DEF schedule_or_buffer_task
<1> HIDE DEF h, ac, n, cx2
<1>4. /\ m1 \in Machine /\ SameRest(m, m1) /\ SameQueues(m, m1)
      /\ m1.hashes = h /\ m1.active_task_count = ac
      /\ m1.running_task_count = m.running_task_count
      /\ m1.unblocked_task_queue = m.unblocked_task_queue
  BY Zenon, <1>1, <1>2 DEF Machine, SameRest, SameQueues
<1> HIDE DEF m1
<1>5. MachineOK(m1, cx, A)
  BY <1>4, QueuesAlone
<1>6. m1.capability = m.capability /\ m1.blocked_usage_count = m.blocked_usage_count
  BY <1>4 DEF SameRest, SameQueues
<1>7. /\ MachineOK(l, cx2, A \cup {t})
      /\ SameRest(m1, l) /\ SameCounters(m1, l)
      /\ l.unblocked_task_queue = m1.unblocked_task_queue
      /\ \A o \in A : l.blocked_usage_count[o] = 0 <=> m1.blocked_usage_count[o] = 0
      /\ l.blocked_usage_count[t] = 0 =>
             \A a \in Locked(cs) : \A b \in Waiting(l.queues[a]) : t < b
  BY <1>5, <1>6, LockMachine, Zenon DEF cx2
<1> HIDE DEF l, ready, rc
<1>8. l \in Machine
  BY <1>7, Zenon DEF MachineOK
<1>9. ready \in Seq(Task) /\ rc \in Nat /\ l.blocked_usage_count[t] \in Nat
  BY <1>8, MachineType DEF ready, rc
<1>10. /\ n \in Machine /\ SameRest(l, n) /\ SameQueues(l, n)
       /\ n.hashes = l.hashes /\ n.active_task_count = l.active_task_count
       /\ n.unblocked_task_queue = (IF l.blocked_usage_count[t] = 0 /\ (force \/ ~is_task_runnable(m))
                                    THEN ready ELSE l.unblocked_task_queue)
       /\ n.running_task_count = (IF l.blocked_usage_count[t] = 0 /\ ~(force \/ ~is_task_runnable(m))
                                  THEN rc ELSE l.running_task_count)
  <2>1. CASE l.blocked_usage_count[t] > 0
    <3>1. n = l /\ l.blocked_usage_count[t] # 0
      BY <1>3, <1>9, <2>1
    <3> QED
      BY <1>8, <3>1 DEF SameRest, SameQueues
  <2>2. CASE l.blocked_usage_count[t] = 0 /\ (force \/ ~is_task_runnable(m))
    <3>1. n = [l EXCEPT !.unblocked_task_queue = ready]
      BY <1>3, <2>2
    <3> QED
      BY Zenon, <1>8, <1>9, <2>2, <3>1 DEF Machine, SameRest, SameQueues
  <2>3. CASE l.blocked_usage_count[t] = 0 /\ ~(force \/ ~is_task_runnable(m))
    <3>1. n = [l EXCEPT !.running_task_count = rc]
      BY <1>3, <2>3
    <3> QED
      BY Zenon, <1>8, <1>9, <2>3, <3>1 DEF Machine, SameRest, SameQueues
  <2> QED
    BY <1>9, <2>1, <2>2, <2>3
<1>11. MachineOK(n, cx2, A \cup {t})
  BY <1>7, <1>10, QueuesAlone
<1>12. n.queues = l.queues /\ n.blocked_usage_count = l.blocked_usage_count
  BY <1>10 DEF SameQueues
<1>13. SameRest(m, n)
  BY <1>4, <1>7, <1>10 DEF SameRest
<1>14. /\ l.hashes = h /\ l.active_task_count = ac
       /\ l.running_task_count = m.running_task_count
       /\ l.unblocked_task_queue = m.unblocked_task_queue
  BY <1>4, <1>7 DEF SameCounters
<1>15. Scheduled(m, n, A, t, cs)
  BY <1>6, <1>7, <1>10, <1>12, <1>13, <1>14 DEF Scheduled, h, ac, ready, rc
<1> QED
  BY <1>11, <1>15 DEF n, cx2

(***************************************************************************)
(* A step from m and st to n, cx and st2 makes a task runnable only ahead  *)
(* of those that wait for an address it uses.                              *)
(***************************************************************************)
Precedes(m, st, n, cx, st2) ==
    \A t \in RunnableIn(n, st2) \ RunnableIn(m, st), a \in Address :
        cx[t][a] # "None" => \A b \in Waiting(n.queues[a]) : t < b

(***************************************************************************)
(* What consistency says, with its definitions expanded.                   *)
(***************************************************************************)
LEMMA ConsistentFacts ==
    ASSUME NEW m, NEW cx, NEW st, Consistent(m, cx, st)
    PROVE  /\ st \in [Task -> Statuses] /\ m.max_running # 0
           /\ MachineOK(m, cx, ActiveIn(st)) /\ m \in Machine
           /\ \A i, j \in DOMAIN m.unblocked_task_queue :
                  m.unblocked_task_queue[i] = m.unblocked_task_queue[j] => i = j
           /\ Range(m.unblocked_task_queue) \subseteq AreIn(st, "held")
           /\ \A t \in ActiveIn(st) : m.blocked_usage_count[t] = 0 <=> t \in RunnableIn(m, st)
           /\ RunnableIn(m, st) \subseteq ActiveIn(st)
           /\ m.active_task_count = Cardinality(ActiveIn(st))
           /\ m.running_task_count = Cardinality(AreIn(st, "handed"))
           /\ HashesOK(m, st) /\ LedgerOrder(m, st)
<1>1. /\ st \in [Task -> Statuses] /\ m.max_running # 0
      /\ MachineOK(m, cx, ActiveIn(st)) /\ ReadyOK(m, st) /\ CountersOK(m, st)
      /\ HashesOK(m, st) /\ LedgerOrder(m, st)
  BY Zenon DEF Consistent
<1>2. m \in Machine
  BY <1>1, Zenon DEF MachineOK
<1>3. /\ \A i, j \in DOMAIN m.unblocked_task_queue :
             m.unblocked_task_queue[i] = m.unblocked_task_queue[j] => i = j
      /\ Range(m.unblocked_task_queue) \subseteq AreIn(st, "held")
      /\ \A t \in ActiveIn(st) : m.blocked_usage_count[t] = 0 <=> t \in RunnableIn(m, st)
  BY <1>1, Zenon DEF ReadyOK
<1>4. RunnableIn(m, st) \subseteq ActiveIn(st)
  BY <1>3 DEF RunnableIn, ActiveIn
<1> QED
  BY <1>1, <1>2, <1>3, <1>4 DEF CountersOK

(***************************************************************************)
(* schedule_or_buffer_task keeps the machine consistent, and makes no task *)
(* runnable past a conflicting earlier one.                                *)
(***************************************************************************)
LEMMA ScheduleKeeps ==
    ASSUME NEW m, NEW cx, NEW st, Consistent(m, cx, st),
           NEW t \in Task, st[t] = "new", NEW cs \in LockContexts, NEW force \in BOOLEAN,
           m.capability = "Fifo" => \A o \in AreIn(st, "new") : t <= o,
           ~Drops(m, t)
    PROVE  LET n == schedule_or_buffer_task(m, t, cs, force)
               x == IF n.running_task_count > m.running_task_count THEN "handed" ELSE "held"
               cx2 == [cx EXCEPT ![t] = cs]
               st2 == [st EXCEPT ![t] = x]
           IN  Consistent(n, cx2, st2) /\ Precedes(m, st, n, cx2, st2)
<1> DEFINE n == schedule_or_buffer_task(m, t, cs, force)
           x == IF n.running_task_count > m.running_task_count THEN "handed" ELSE "held"
           cx2 == [cx EXCEPT ![t] = cs]
           st2 == [st EXCEPT ![t] = x]
           A == ActiveIn(st)
           ready == m.unblocked_task_queue
           ready2 == n.unblocked_task_queue
           counts == m.blocked_usage_count
           counts2 == n.blocked_usage_count
           held == AreIn(st, "held")
           handed == AreIn(st, "handed")
           held2 == AreIn(st2, "held")
           handed2 == AreIn(st2, "handed")
<1>1. /\ st \in [Task -> Statuses] /\ m.max_running # 0
      /\ MachineOK(m, cx, A) /\ m \in Machine
      /\ \A i, j \in DOMAIN ready : ready[i] = ready[j] => i = j
      /\ Range(ready) \subseteq held
      /\ \A o \in A : counts[o] = 0 <=> o \in RunnableIn(m, st)
      /\ RunnableIn(m, st) \subseteq A
      /\ m.active_task_count = Cardinality(A)
      /\ m.running_task_count = Cardinality(handed)
      /\ HashesOK(m, st) /\ LedgerOrder(m, st)
  BY ConsistentFacts
<1>2. /\ A \in SUBSET Task /\ IsFiniteSet(A) /\ IsFiniteSet(handed)
      /\ t \in AreIn(st, "new") /\ t \notin A /\ held \subseteq A /\ handed \subseteq A
      /\ A = held \cup handed
  BY StatusSets DEF ActiveIn
<1>3. m.capability = "Fifo" => \A o \in A : o < t
  BY <1>1, <1>2 DEF LedgerOrder
<1>4. cx \in [Task -> LockContexts]
  BY <1>1, Zenon DEF MachineOK
<1>5. cx2[t] = cs
  BY <1>4
<1>6. /\ MachineOK(n, cx2, A \cup {t}) /\ SameRest(m, n)
      /\ n.active_task_count = m.active_task_count + 1
      /\ n.hashes = (IF m.max_unique = NoLimit THEN m.hashes ELSE m.hashes \cup {Hash(t)})
      /\ \A o \in A : counts2[o] = 0 <=> counts[o] = 0
      /\ counts2[t] = 0 => \A a \in Locked(cs) : \A b \in Waiting(n.queues[a]) : t < b
      /\ \/ counts2[t] # 0 /\ ready2 = ready /\ n.running_task_count = m.running_task_count
         \/ counts2[t] = 0 /\ ready2 = Append(ready, t) /\ n.running_task_count = m.running_task_count
         \/ counts2[t] = 0 /\ ready2 = ready /\ n.running_task_count = m.running_task_count + 1
  <2>1. MachineOK(m, cx, A) /\ t \in Task \ A
    BY <1>1, <1>2
  <2> HIDE DEF A
  <2>2. MachineOK(n, cx2, A \cup {t}) /\ Scheduled(m, n, A, t, cs)
    BY <1>3, <2>1, ScheduleMachine
  <2> HIDE DEF n
  <2> QED
    BY <2>2, Zenon DEF Scheduled
<1>7. m.running_task_count \in Nat /\ ready \in Seq(Task)
  BY <1>1, MachineType
<1> HIDE DEF n, cx2, x
<1>8. /\ x \in {"held", "handed"} /\ x \in Statuses
      /\ (x = "handed" <=> n.running_task_count = m.running_task_count + 1)
  BY <1>6, <1>7 DEF x, Statuses
<1>9. /\ st2 \in [Task -> Statuses] /\ AreIn(st2, x) = AreIn(st, x) \cup {t}
      /\ AreIn(st2, "new") = AreIn(st, "new") \ {t}
      /\ x # "held" => AreIn(st2, "held") = AreIn(st, "held") \ {t}
      /\ x # "handed" => AreIn(st2, "handed") = AreIn(st, "handed") \ {t}
  <2>1. st \in [Task -> Statuses] /\ x \in Statuses
    BY <1>1, <1>8
  <2>2. Changed(st, st2, t, x)
    BY Zenon, <2>1, StatusChange
  <2>3. x # "new"
    BY <1>8
  <2> QED
    BY Zenon, <2>2, <2>3 DEF Changed
<1> HIDE DEF st2
<1>10. /\ held2 = (IF x = "held" THEN held \cup {t} ELSE held)
       /\ handed2 = (IF x = "handed" THEN handed \cup {t} ELSE handed)
       /\ AreIn(st2, "new") = AreIn(st, "new") \ {t}
  BY <1>2, <1>8, <1>9
<1>11. ActiveIn(st2) = A \cup {t}
  BY <1>2, <1>8, <1>10 DEF ActiveIn
<1> HIDE DEF A, held, handed, held2, handed2
<1>12. n.max_running # 0 /\ n.max_unique = m.max_unique /\ n.capability = m.capability
  BY <1>1, <1>6 DEF SameRest
(* The ready tasks *)
<1>13. /\ Range(ready2) = (IF counts2[t] = 0 /\ x = "held" THEN Range(ready) \cup {t} ELSE Range(ready))
       /\ \A i, j \in DOMAIN ready2 : ready2[i] = ready2[j] => i = j
       /\ counts2[t] # 0 => x = "held"
  <2>1. t \notin Range(ready)
    BY <1>1, <1>2
  <2>2. \/ counts2[t] # 0 /\ ready2 = ready /\ n.running_task_count = m.running_task_count
        \/ counts2[t] = 0 /\ ready2 = Append(ready, t) /\ n.running_task_count = m.running_task_count
        \/ counts2[t] = 0 /\ ready2 = ready /\ n.running_task_count = m.running_task_count + 1
    BY <1>6
  <2> HIDE DEF ready, ready2, counts2
  <2>3. CASE ready2 = Append(ready, t) /\ counts2[t] = 0 /\ n.running_task_count = m.running_task_count
    <3>1. x = "held"
      BY <1>7, <1>8, <2>3
    <3>2. /\ DOMAIN ready2 = 1..(Len(ready) + 1) /\ Len(ready) \in Nat /\ DOMAIN ready = 1..Len(ready)
          /\ \A i \in 1..Len(ready) : ready2[i] = ready[i]
          /\ ready2[Len(ready) + 1] = t
      BY <1>7, <2>3
    <3>3. \A i \in 1..Len(ready) : ready[i] # t
      BY <2>1, <3>2 DEF Range
    <3>4. \A i \in 1..(Len(ready) + 1) : i \in 1..Len(ready) \/ i = Len(ready) + 1
      BY <3>2
    <3>5. \A i, j \in DOMAIN ready2 : ready2[i] = ready2[j] => i = j
      BY <1>1, <3>2, <3>3, <3>4 DEF ready
    <3>6. Range(ready2) = Range(ready) \cup {t}
      <4>1. \A i \in 1..Len(ready) : i \in DOMAIN ready2
        BY <3>2
      <4>2. Len(ready) + 1 \in DOMAIN ready2
        BY <3>2
      <4> QED
        BY <3>2, <3>4, <4>1, <4>2 DEF Range
    <3> QED
      BY <2>3, <3>1, <3>5, <3>6
  <2>4. CASE /\ ready2 = ready
             /\ \/ counts2[t] # 0 /\ n.running_task_count = m.running_task_count
                \/ counts2[t] = 0 /\ n.running_task_count = m.running_task_count + 1
    <3>1. (counts2[t] # 0) <=> x = "held"
      BY <1>7, <1>8, <2>4
    <3> QED
      BY <1>1, <2>4, <3>1 DEF ready
  <2> QED
    BY <2>3, <2>4, <2>2
<1>14. RunnableIn(n, st2) = IF counts2[t] = 0 THEN RunnableIn(m, st) \cup {t} ELSE RunnableIn(m, st)
  BY <1>8, <1>10, <1>13 DEF RunnableIn, handed, handed2
<1>15. ReadyOK(n, st2)
  <2>1. Range(ready2) \subseteq held2
    BY <1>1, <1>10, <1>13
  <2>2. \A o \in ActiveIn(st2) : counts2[o] = 0 <=> o \in RunnableIn(n, st2)
    BY <1>1, <1>2, <1>6, <1>11, <1>14
  <2> QED
    BY <1>13, <2>1, <2>2, Zenon DEF ReadyOK, held2
(* The counters and the hashes *)
<1>16. CountersOK(n, st2)
  <2>1. Cardinality(A \cup {t}) = Cardinality(A) + 1
    BY Zenon, <1>2, FS_AddElement
  <2>2. Cardinality(handed \cup {t}) = Cardinality(handed) + 1
    BY Zenon, <1>2, FS_AddElement
  <2>3. n.active_task_count = Cardinality(ActiveIn(st2))
    BY <1>1, <1>6, <1>11, <2>1
  <2>4. n.running_task_count = Cardinality(handed2)
    BY <1>1, <1>6, <1>7, <1>8, <1>10, <2>2
  <2> QED
    BY <2>3, <2>4 DEF CountersOK, handed2
<1>17. HashesOK(n, st2)
  <2>1. CASE m.max_unique = NoLimit
    BY <1>1, <1>6, <1>12, <2>1 DEF HashesOK
  <2>2. CASE m.max_unique # NoLimit
    <3>1. m.hashes = {Hash(o) : o \in A} /\ \A u, o \in A : Hash(u) = Hash(o) => u = o
      BY <1>1, <2>2 DEF HashesOK, A
    <3>2. Hash(t) \notin m.hashes
      BY <2>2 DEF Drops
    <3>3. n.hashes = {Hash(o) : o \in A \cup {t}}
      BY <1>6, <2>2, <3>1
    <3>4. \A u, o \in A \cup {t} : Hash(u) = Hash(o) => u = o
      BY <3>1, <3>2
    <3> QED
      BY <1>11, <1>12, <2>2, <3>3, <3>4 DEF HashesOK
  <2> QED
    BY <2>1, <2>2
<1>18. LedgerOrder(n, st2)
  <2> SUFFICES ASSUME m.capability = "Fifo", NEW o \in A \cup {t}, NEW u \in AreIn(st, "new") \ {t}
               PROVE  o < u
    BY <1>10, <1>11, <1>12 DEF LedgerOrder
  <2>1. CASE o \in A
    BY <1>1, <2>1 DEF LedgerOrder, A
  <2>2. CASE o = t
    <3>1. t <= u /\ t # u
      BY Zenon
    <3>2. t \in Nat /\ u \in Nat
      BY Zenon, StatusSets, IdsAssumption
    <3> QED
      BY <2>2, <3>1, <3>2
  <2> QED
    BY Zenon, <2>1, <2>2
<1>19. Consistent(n, cx2, st2)
  BY <1>6, <1>9, <1>11, <1>12, <1>15, <1>16, <1>17, <1>18 DEF Consistent
<1>20. Precedes(m, st, n, cx2, st2)
  <2> SUFFICES ASSUME NEW u \in RunnableIn(n, st2) \ RunnableIn(m, st), NEW a \in Address,
                      cx2[u][a] # "None", NEW b \in Waiting(n.queues[a])
               PROVE  u < b
    BY Zenon DEF Precedes
  <2>1. u = t /\ counts2[t] = 0
    BY Zenon, <1>14
  <2>2. a \in Locked(cs)
    BY <1>5, <2>1 DEF Locked
  <2> QED
    BY <1>6, <2>1, <2>2
<1> QED
  BY <1>19, <1>20 DEF n, cx2, st2, x

(***************************************************************************)
(* schedule_next_unblocked_task.                                           *)
(***************************************************************************)
LEMMA NextKeeps ==
    ASSUME NEW m, NEW cx, NEW st, Consistent(m, cx, st), HasNextUnblocked(m)
    PROVE  LET t == Head(m.unblocked_task_queue)
               n == schedule_next_unblocked_task(m)
               st2 == [st EXCEPT ![t] = "handed"]
           IN  /\ t \in Task /\ st[t] = "held"
               /\ Consistent(n, cx, st2)
               /\ RunnableIn(n, st2) = RunnableIn(m, st)
<1> DEFINE ready == m.unblocked_task_queue
           t == Head(ready)
           n == schedule_next_unblocked_task(m)
           st2 == [st EXCEPT ![t] = "handed"]
           A == ActiveIn(st)
           held == AreIn(st, "held")
           handed == AreIn(st, "handed")
           left == Tail(ready)
           rc == m.running_task_count + 1
<1>1. /\ st \in [Task -> Statuses] /\ m.max_running # 0
      /\ MachineOK(m, cx, A) /\ m \in Machine
      /\ \A i, j \in DOMAIN ready : ready[i] = ready[j] => i = j
      /\ Range(ready) \subseteq held
      /\ \A o \in A : m.blocked_usage_count[o] = 0 <=> o \in RunnableIn(m, st)
      /\ m.active_task_count = Cardinality(A)
      /\ m.running_task_count = Cardinality(handed)
      /\ HashesOK(m, st) /\ LedgerOrder(m, st)
  BY ConsistentFacts
<1>2. ready \in Seq(Task) /\ ready # <<>> /\ m.running_task_count \in Nat
  BY <1>1, MachineType DEF HasNextUnblocked
<1>3. /\ left \in Seq(Task) /\ Len(ready) \in Nat /\ Len(ready) # 0
      /\ DOMAIN ready = 1..Len(ready) /\ t = ready[1] /\ t \in Task
      /\ DOMAIN left = 1..(Len(ready) - 1)
      /\ \A i \in 1..(Len(ready) - 1) : left[i] = ready[i + 1]
  BY <1>2
<1>4. n = [m EXCEPT !.unblocked_task_queue = left, !.running_task_count = rc]
  BY Zenon DEF schedule_next_unblocked_task
<1>5. rc \in Nat
  BY <1>2
<1> HIDE DEF n, left, rc, ready, t, st2
<1>6. /\ n \in Machine /\ SameRest(m, n) /\ SameQueues(m, n)
      /\ n.hashes = m.hashes /\ n.active_task_count = m.active_task_count
      /\ n.unblocked_task_queue = left /\ n.running_task_count = rc
  BY Zenon, <1>1, <1>3, <1>4, <1>5 DEF Machine, SameRest, SameQueues
<1>7. Range(left) = Range(ready) \ {t} /\ t \in Range(ready)
      /\ \A i, j \in DOMAIN left : left[i] = left[j] => i = j
  <2>1. \A i \in 1..(Len(ready) - 1) : i + 1 \in 1..Len(ready) /\ i + 1 # 1 /\ i \in Nat
    BY <1>3
  <2>2. 1 \in 1..Len(ready) /\ \A i \in 1..Len(ready) : i # 1 => i - 1 \in 1..(Len(ready) - 1) /\ (i - 1) + 1 = i
    BY <1>3
  <2>3. \A i \in 1..(Len(ready) - 1) : left[i] \in Range(ready) /\ left[i] # t
    BY <1>1, <1>3, <2>1, <2>2 DEF Range
  <2>4. \A i \in 1..Len(ready) : ready[i] # t => \E k \in 1..(Len(ready) - 1) : left[k] = ready[i]
    BY Zenon, <1>3, <2>2
  <2>5. Range(left) = {left[i] : i \in 1..(Len(ready) - 1)} /\ Range(ready) = {ready[i] : i \in 1..Len(ready)}
    BY <1>3 DEF Range
  <2>6. Range(left) = Range(ready) \ {t}
    BY <2>3, <2>4, <2>5
  <2>7. t \in Range(ready)
    BY <1>3, <2>2, <2>5
  <2>8. ASSUME NEW i \in DOMAIN left, NEW j \in DOMAIN left, left[i] = left[j] PROVE i = j
    <3>1. i + 1 \in DOMAIN ready /\ j + 1 \in DOMAIN ready /\ ready[i + 1] = ready[j + 1]
      BY <1>3, <2>1, <2>8
    <3>2. i + 1 = j + 1 /\ i \in Nat /\ j \in Nat
      BY <1>1, <1>3, <2>1, <3>1
    <3> QED
      BY <3>2
  <2> QED
    BY <2>6, <2>7, <2>8
<1>8. /\ t \in held /\ t \notin handed /\ held \subseteq A /\ A = held \cup handed
      /\ IsFiniteSet(handed)
  BY Zenon, <1>1, <1>7, StatusSets DEF ActiveIn
<1>9. st2 \in [Task -> Statuses] /\ AreIn(st2, "handed") = handed \cup {t}
      /\ AreIn(st2, "held") = held \ {t} /\ AreIn(st2, "new") = AreIn(st, "new") \ {t}
  <2> DEFINE x == "handed"
  <2>1. x \in Statuses /\ x # "held" /\ x # "new"
    BY Zenon DEF Statuses
  <2>2. st \in [Task -> Statuses] /\ t \in Task /\ st2 = [st EXCEPT ![t] = x]
    BY <1>1, <1>3 DEF st2
  <2> HIDE DEF x
  <2>3. Changed(st, st2, t, x)
    BY Zenon, <2>1, <2>2, StatusChange
  <2>4. /\ st2 \in [Task -> Statuses] /\ AreIn(st2, x) = AreIn(st, x) \cup {t}
        /\ AreIn(st2, "held") = held \ {t} /\ AreIn(st2, "new") = AreIn(st, "new") \ {t}
    BY Zenon, <2>1, <2>3 DEF Changed
  <2> QED
    BY <2>4 DEF x
<1>10. AreIn(st2, "new") = AreIn(st, "new") /\ ActiveIn(st2) = A
  <2>1. t \notin AreIn(st, "new")
    BY <1>8, StatusSets
  <2> QED
    BY <1>8, <1>9, <2>1 DEF ActiveIn
<1>11. st[t] = "held"
  BY <1>3, <1>8, StatusSets
<1> HIDE DEF A, held, handed
<1>12. RunnableIn(n, st2) = RunnableIn(m, st)
  BY <1>6, <1>7, <1>9 DEF RunnableIn, handed, ready
<1>13. ReadyOK(n, st2)
  <2>1. Range(left) \subseteq AreIn(st2, "held")
    BY <1>1, <1>7, <1>9
  <2>2. n.blocked_usage_count = m.blocked_usage_count
    BY Zenon, <1>6 DEF SameQueues
  <2>3. \A o \in ActiveIn(st2) : n.blocked_usage_count[o] = 0 <=> o \in RunnableIn(n, st2)
    BY <1>1, <1>10, <1>12, <2>2
  <2> QED
    BY <1>6, <1>7, <2>1, <2>3 DEF ReadyOK
<1>14. CountersOK(n, st2)
  <2>1. Cardinality(handed \cup {t}) = Cardinality(handed) + 1
    BY Zenon, <1>8, FS_AddElement
  <2> QED
    BY <1>1, <1>6, <1>9, <1>10, <2>1 DEF CountersOK, rc
<1>15. n.max_running # 0 /\ n.max_unique = m.max_unique /\ n.capability = m.capability
  BY <1>1, <1>6 DEF SameRest
<1>16. HashesOK(n, st2)
  BY <1>1, <1>6, <1>10, <1>15 DEF HashesOK, A
<1>17. LedgerOrder(n, st2)
  BY <1>1, <1>10, <1>15 DEF LedgerOrder, A
<1>18. MachineOK(n, cx, ActiveIn(st2))
  BY <1>1, <1>6, <1>10, QueuesAlone
<1>19. Consistent(n, cx, st2)
  BY <1>9, <1>13, <1>14, <1>15, <1>16, <1>17, <1>18, Zenon DEF Consistent
<1> QED
  BY <1>3, <1>11, <1>12, <1>19 DEF t, n, st2, ready

(***************************************************************************)
(* deschedule_task.                                                        *)
(***************************************************************************)
LEMMA DescheduleMachine ==
    ASSUME NEW m, NEW cx, NEW A, MachineOK(m, cx, A),
           NEW t \in A, m.blocked_usage_count[t] = 0,
           m.running_task_count # 0, m.active_task_count # 0,
           NEW order \in ContextOrders(cx[t])
    PROVE  LET n == deschedule_task(m, t, cx[t], order)
           IN  /\ MachineOK(n, [cx EXCEPT ![t] = NoContexts], A \ {t})
               /\ SameRest(m, n)
               /\ n.running_task_count = m.running_task_count - 1
               /\ n.active_task_count = m.active_task_count - 1
               /\ n.hashes = m.hashes \ {Hash(t)}
               /\ Unlocked(m, n, cx, A \ {t})
<1> DEFINE rc == m.running_task_count - 1
           ac == m.active_task_count - 1
           h == m.hashes \ {Hash(t)}
           m1 == [m EXCEPT !.running_task_count = rc, !.active_task_count = ac, !.hashes = h]
           n == deschedule_task(m, t, cx[t], order)
<1>1. m \in Machine
  BY Zenon DEF MachineOK
<1>2. rc \in Nat /\ ac \in Nat /\ h \in SUBSET {Hash(o) : o \in Task}
  BY <1>1, MachineType
<1>3. n = unlock_usage_queues(m1, t, cx[t], order)
  BY Zenon DEF deschedule_task
<1> HIDE DEF rc, ac, h, n
<1>4. /\ m1 \in Machine /\ SameRest(m, m1) /\ SameQueues(m, m1)
      /\ m1.hashes = h /\ m1.active_task_count = ac /\ m1.running_task_count = rc
      /\ m1.unblocked_task_queue = m.unblocked_task_queue
  BY Zenon, <1>1, <1>2 DEF Machine, SameRest, SameQueues
<1> HIDE DEF m1
<1>5. MachineOK(m1, cx, A) /\ m1.blocked_usage_count = m.blocked_usage_count
  BY <1>4, QueuesAlone DEF SameQueues
<1>6. /\ MachineOK(n, [cx EXCEPT ![t] = NoContexts], A \ {t})
      /\ SameRest(m1, n) /\ SameCounters(m1, n)
      /\ Unlocked(m1, n, cx, A \ {t})
  BY <1>3, <1>5, UnlockMachine
<1>7. Unlocked(m, n, cx, A \ {t})
  BY <1>4, <1>5, <1>6, Zenon DEF Unlocked, Readied
<1>8. SameRest(m, n) /\ n.hashes = h /\ n.active_task_count = ac /\ n.running_task_count = rc
  BY <1>4, <1>6 DEF SameRest, SameCounters
<1> QED
  BY <1>6, <1>7, <1>8 DEF n, rc, ac, h

(***************************************************************************)
(* deschedule_task, with every unlock it makes, keeps the machine          *)
(* consistent, and makes runnable only tasks that come first.              *)
(***************************************************************************)
LEMMA FinishKeeps ==
    ASSUME NEW m, NEW cx, NEW st, Consistent(m, cx, st),
           NEW t \in Task, st[t] = "handed", NEW order \in ContextOrders(cx[t])
    PROVE  LET n == deschedule_task(m, t, cx[t], order)
               cx2 == [cx EXCEPT ![t] = NoContexts]
               st2 == [st EXCEPT ![t] = "done"]
           IN  Consistent(n, cx2, st2) /\ Precedes(m, st, n, cx2, st2)
<1> DEFINE n == deschedule_task(m, t, cx[t], order)
           cx2 == [cx EXCEPT ![t] = NoContexts]
           st2 == [st EXCEPT ![t] = "done"]
           A == ActiveIn(st)
           A2 == A \ {t}
           ready == m.unblocked_task_queue
           ready2 == n.unblocked_task_queue
           counts == m.blocked_usage_count
           counts2 == n.blocked_usage_count
           held == AreIn(st, "held")
           handed == AreIn(st, "handed")
           new == Readied(m, n, A2)
<1>1. /\ st \in [Task -> Statuses] /\ m.max_running # 0
      /\ MachineOK(m, cx, A) /\ m \in Machine
      /\ \A i, j \in DOMAIN ready : ready[i] = ready[j] => i = j
      /\ Range(ready) \subseteq held
      /\ \A o \in A : counts[o] = 0 <=> o \in RunnableIn(m, st)
      /\ RunnableIn(m, st) \subseteq A
      /\ m.active_task_count = Cardinality(A)
      /\ m.running_task_count = Cardinality(handed)
      /\ HashesOK(m, st) /\ LedgerOrder(m, st)
  BY ConsistentFacts
<1>2. /\ A \in SUBSET Task /\ IsFiniteSet(A) /\ IsFiniteSet(handed)
      /\ t \in handed /\ held \subseteq A /\ handed \subseteq A /\ held \cap handed = {}
      /\ t \notin AreIn(st, "new") /\ A = held \cup handed
  BY StatusSets DEF ActiveIn
<1>3. RunnableIn(m, st) = handed \cup Range(ready)
  BY Zenon DEF RunnableIn
<1>4. t \in A /\ counts[t] = 0
  BY <1>1, <1>2, <1>3
<1>5. ready \in Seq(Task) /\ counts \in [Task -> Nat] /\ cx \in [Task -> LockContexts]
  BY <1>1, MachineType DEF MachineOK
<1>6. /\ Cardinality(A) \in Nat /\ Cardinality(handed) \in Nat
      /\ Cardinality(A) # 0 /\ Cardinality(handed) # 0
      /\ Cardinality(A \ {t}) = Cardinality(A) - 1
      /\ Cardinality(handed \ {t}) = Cardinality(handed) - 1
  <2> HIDE DEF A, handed
  <2>1. Cardinality(A) \in Nat /\ Cardinality(handed) \in Nat
        /\ Cardinality(A) # 0 /\ Cardinality(handed) # 0
    BY <1>2, <1>4, FS_CardinalityType, FS_EmptySet
  <2>2. Cardinality(A \ {t}) = Cardinality(A) - 1
    <3>1. IsFiniteSet(A) /\ t \in A
      BY <1>2, <1>4
    <3> QED
      BY Zenon, <3>1, FS_RemoveElement
  <2>3. Cardinality(handed \ {t}) = Cardinality(handed) - 1
    BY Zenon, <1>2, FS_RemoveElement
  <2> QED
    BY <2>1, <2>2, <2>3
<1>7. /\ MachineOK(n, cx2, A2) /\ SameRest(m, n)
      /\ n.running_task_count = m.running_task_count - 1
      /\ n.active_task_count = m.active_task_count - 1
      /\ n.hashes = m.hashes \ {Hash(t)}
      /\ Unlocked(m, n, cx, A2)
  <2>1. MachineOK(m, cx, A) /\ t \in A /\ counts[t] = 0
        /\ m.running_task_count # 0 /\ m.active_task_count # 0
    BY Zenon, <1>1, <1>4, <1>6
  <2> HIDE DEF A
  <2> QED
    BY <2>1, DescheduleMachine
<1>8. \A o \in Task \ {t} : cx2[o] = cx[o]
  BY <1>5
<1>9. st2 \in [Task -> Statuses]
      /\ AreIn(st2, "handed") = handed \ {t} /\ AreIn(st2, "held") = held
      /\ AreIn(st2, "new") = AreIn(st, "new")
  <2> DEFINE x == "done"
  <2>1. x \in Statuses /\ x # "held" /\ x # "new" /\ x # "handed"
    BY Zenon DEF Statuses
  <2>2. st \in [Task -> Statuses] /\ st2 = [st EXCEPT ![t] = x]
    BY <1>1
  <2> HIDE DEF x, st2
  <2>3. Changed(st, st2, t, x)
    BY Zenon, <2>1, <2>2, StatusChange
  <2>4. /\ st2 \in [Task -> Statuses] /\ AreIn(st2, "handed") = handed \ {t}
        /\ AreIn(st2, "held") = held \ {t} /\ AreIn(st2, "new") = AreIn(st, "new") \ {t}
    BY Zenon, <2>1, <2>3 DEF Changed
  <2>5. t \notin held
    BY Zenon, <1>2
  <2> HIDE DEF st2
  <2> QED
    BY <1>2, <2>4, <2>5
<1> HIDE DEF n, cx2, st2
<1>10. ActiveIn(st2) = A2
  BY Zenon, <1>2, <1>9 DEF ActiveIn
<1>11. PICK s \in Seq(Task) : /\ ready2 = ready \o s /\ Range(s) = new
                              /\ \A i, j \in DOMAIN s : s[i] = s[j] => i = j
  BY <1>7, Zenon DEF Unlocked
<1>12. /\ \A o \in Task : counts[o] = 0 => counts2[o] = 0
       /\ \A o \in new, a \in Address : cx[o][a] # "None" =>
              \A b \in Waiting(n.queues[a]) : o < b
  BY <1>7, Zenon DEF Unlocked
<1>13. new = {o \in A2 : counts[o] # 0 /\ counts2[o] = 0}
  BY Zenon DEF Readied
<1> HIDE DEF A, held, handed, new, counts, counts2, ready, ready2
<1>14. /\ new \subseteq held /\ new \cap RunnableIn(m, st) = {} /\ new \cap Range(ready) = {}
       /\ t \notin new
  BY <1>1, <1>2, <1>3, <1>13
<1>15. Range(ready2) = Range(ready) \cup new
       /\ \A i, j \in DOMAIN ready2 : ready2[i] = ready2[j] => i = j
  <2> DEFINE k == Len(ready)
             l == Len(s)
  <2>1. /\ k \in Nat /\ l \in Nat /\ DOMAIN ready = 1..k /\ DOMAIN s = 1..l
        /\ DOMAIN ready2 = 1..(k + l)
        /\ \A i \in 1..k : ready2[i] = ready[i]
        /\ \A i \in 1..l : ready2[k + i] = s[i]
    BY <1>5, <1>11
  <2> HIDE DEF k, l
  <2>2. \A i \in 1..(k + l) : i \in 1..k \/ (i - k \in 1..l /\ k + (i - k) = i)
    BY <2>1
  <2>3. (\A i \in 1..k : i \in 1..(k + l)) /\ (\A i \in 1..l : k + i \in 1..(k + l))
    BY <2>1
  <2>4. Range(ready) = {ready[i] : i \in 1..k} /\ Range(s) = {s[i] : i \in 1..l}
        /\ Range(ready2) = {ready2[i] : i \in 1..(k + l)}
    BY Zenon, <2>1 DEF Range
  <2>5. \A i \in 1..(k + l) : i \notin 1..k => ready2[i] = s[i - k] /\ ready2[i] \in new /\ i - k \in 1..l
    BY <1>11, <2>1, <2>2, <2>4
  <2>6. \A i \in 1..k : ready2[i] = ready[i] /\ ready2[i] \in Range(ready)
    BY <2>1, <2>4
  <2>7. Range(ready2) \subseteq Range(ready) \cup new
    BY <2>4, <2>5, <2>6
  <2>8. Range(ready) \subseteq Range(ready2)
    BY <2>1, <2>3, <2>4
  <2>9. new \subseteq Range(ready2)
    <3> SUFFICES ASSUME NEW x \in new PROVE x \in Range(ready2)
      BY Zenon
    <3>1. PICK i \in 1..l : x = s[i]
      BY <1>11, <2>4
    <3>2. k + i \in 1..(k + l) /\ ready2[k + i] = x
      BY <2>1, <2>3, <3>1
    <3> QED
      BY <2>4, <3>2
  <2>10. ASSUME NEW i \in 1..(k + l), NEW j \in 1..(k + l), ready2[i] = ready2[j]
         PROVE  i = j
    <3>1. CASE i \in 1..k /\ j \in 1..k
      BY <1>1, <2>1, <2>10, <3>1
    <3>2. CASE i \notin 1..k /\ j \notin 1..k
      <4>1. i - k \in 1..l /\ j - k \in 1..l /\ s[i - k] = s[j - k]
        BY <2>5, <2>10, <3>2
      <4>2. i - k = j - k
        BY <1>11, <2>1, <4>1
      <4> QED
        BY <2>1, <4>2
    <3>3. CASE (i \in 1..k) # (j \in 1..k)
      BY <1>14, <2>5, <2>6, <2>10, <3>3
    <3> QED
      BY <3>1, <3>2, <3>3
  <2> QED
    BY <2>1, <2>7, <2>8, <2>9, <2>10
<1>16. t \notin Range(ready)
  BY Zenon, <1>1, <1>2
<1>17. RunnableIn(n, st2) = (RunnableIn(m, st) \ {t}) \cup new
  <2>1. RunnableIn(n, st2) = (handed \ {t}) \cup Range(ready2)
    BY <1>9 DEF RunnableIn, ready2
  <2> QED
    BY <1>3, <1>14, <1>15, <1>16, <2>1
<1>18. ReadyOK(n, st2)
  <2>1. Range(ready2) \subseteq AreIn(st2, "held")
    BY <1>1, <1>9, <1>14, <1>15
  <2>2. \A o \in A2 : counts2[o] = 0 <=> o \in RunnableIn(n, st2)
    BY <1>1, <1>2, <1>12, <1>13, <1>17
  <2> QED
    BY <1>10, <1>15, <2>1, <2>2, Zenon DEF ReadyOK, ready2, counts2
<1>19. CountersOK(n, st2)
  BY Zenon, <1>1, <1>6, <1>7, <1>9, <1>10 DEF CountersOK
<1>20. n.max_running # 0 /\ n.max_unique = m.max_unique /\ n.capability = m.capability
  BY <1>1, <1>7 DEF SameRest
<1>21. HashesOK(n, st2)
  <2>1. CASE m.max_unique = NoLimit
    BY <1>1, <1>7, <1>20, <2>1 DEF HashesOK
  <2>2. CASE m.max_unique # NoLimit
    <3>1. m.hashes = {Hash(o) : o \in A} /\ \A u, o \in A : Hash(u) = Hash(o) => u = o
      BY Zenon, <1>1, <2>2 DEF HashesOK, A
    <3>2. n.hashes = {Hash(o) : o \in A2}
      BY <1>4, <1>7, <3>1
    <3> QED
      BY <1>10, <1>20, <2>2, <3>1, <3>2 DEF HashesOK
  <2> QED
    BY <2>1, <2>2
<1>22. LedgerOrder(n, st2)
  BY <1>1, <1>9, <1>10, <1>20 DEF LedgerOrder, A
<1>23. Consistent(n, cx2, st2)
  BY <1>7, <1>9, <1>10, <1>18, <1>19, <1>20, <1>21, <1>22 DEF Consistent
<1>24. Precedes(m, st, n, cx2, st2)
  <2> SUFFICES ASSUME NEW u \in RunnableIn(n, st2) \ RunnableIn(m, st), NEW a \in Address,
                      cx2[u][a] # "None", NEW b \in Waiting(n.queues[a])
               PROVE  u < b
    BY Zenon DEF Precedes
  <2>1. u \in new /\ u \in Task \ {t}
    BY <1>2, <1>13, <1>17
  <2>2. cx[u][a] # "None"
    BY <1>8, <2>1
  <2> QED
    BY <1>12, <2>1, <2>2
<1> QED
  BY <1>23, <1>24 DEF n, cx2, st2

(***************************************************************************)
(* The machine just created, and clear_and_reinitialize's, is consistent.  *)
(***************************************************************************)
LEMMA NewIsConsistent ==
    ASSUME NEW c \in Configs
    PROVE  Consistent(NewMachine(c.capability, c.max_running, c.max_unique),
                      [t \in Task |-> NoContexts], [t \in Task |-> "new"])
<1> DEFINE m == NewMachine(c.capability, c.max_running, c.max_unique)
           cx == [t \in Task |-> NoContexts]
           st == [t \in Task |-> "new"]
<1>1. c.capability \in {"Fifo", "Priority"} /\ c.max_running \in Nat \ {0}
      /\ c.max_unique \in Nat \cup {NoLimit}
  BY ConfigsAssumption
<1>2. /\ m.capability = c.capability /\ m.max_running = c.max_running /\ m.max_unique = c.max_unique
      /\ m.queues = [a \in Address |-> NewUsageQueue] /\ m.blocked_usage_count = [t \in Task |-> 0]
      /\ m.unblocked_task_queue = <<>> /\ m.hashes = {}
      /\ m.active_task_count = 0 /\ m.running_task_count = 0
  BY Zenon DEF NewMachine
<1>3. NewUsageQueue \in [current : Usage, blocked : Seq(UsageFromTask)]
      /\ NewUsageQueue.current = Unused /\ NewUsageQueue.blocked = <<>>
      /\ Unused.usage = "None" /\ Unused.count = 0 /\ Unused.tasks = {}
  BY DEF NewUsageQueue, Unused, Usage
<1>4. m \in Machine
  BY <1>1, <1>3 DEF Machine, NewMachine
<1>5. cx \in [Task -> LockContexts] /\ \A t \in Task, a \in Address : cx[t][a] = "None"
  BY Zenon DEF NoContexts, LockContexts
<1>6. st \in [Task -> Statuses] /\ AreIn(st, "held") = {} /\ AreIn(st, "handed") = {}
  BY Zenon DEF Statuses, AreIn
<1>7. ActiveIn(st) = {}
  BY <1>6 DEF ActiveIn
<1> HIDE DEF m, cx, st
<1>8. Range(<<>>) = {} /\ DOMAIN <<>> = {}
  BY DEF Range
<1>9. \A a \in Address : m.queues[a] = NewUsageQueue
  BY Zenon, <1>2
<1>10. \A t : WaitsIn(m, t) = {}
  BY <1>3, <1>8, <1>9 DEF WaitsIn, Waiting
<1>11. Cardinality({}) = 0
  BY Zenon, FS_EmptySet
<1>12. ASSUME NEW a \in Address
       PROVE  QueueInv(m.capability, m.queues[a], UsersOf({}, cx, a), UseAt(cx, a), m.blocked_usage_count)
  <2>1. UsersOf({}, cx, a) = {} /\ HeldBy({}, {}) = {}
    BY Zenon DEF UsersOf, HeldBy
  <2>2. Sorted(<<>>)
    BY Zenon, <1>8 DEF Sorted
  <2>3. Accounts(m.capability, Unused, {}, {}, UseAt(cx, a), m.blocked_usage_count)
    BY Zenon, <1>3, <2>1 DEF Accounts
  <2> QED
    BY Zenon, <1>3, <1>8, <1>9, <2>1, <2>2, <2>3 DEF QueueInv
<1>13. MachineOK(m, cx, {})
  BY Zenon, <1>2, <1>4, <1>5, <1>10, <1>11, <1>12 DEF MachineOK
<1>14. ReadyOK(m, st)
  BY <1>2, <1>7, <1>8 DEF ReadyOK
<1>15. CountersOK(m, st)
  BY Zenon, <1>2, <1>6, <1>7, <1>11 DEF CountersOK
<1>16. HashesOK(m, st)
  BY Zenon, <1>2, <1>7 DEF HashesOK
<1>17. LedgerOrder(m, st)
  BY Zenon, <1>7 DEF LedgerOrder
<1>18. m.max_running # 0
  BY Zenon, <1>1, <1>2
<1> QED
  BY <1>6, <1>7, <1>13, <1>14, <1>15, <1>16, <1>17, <1>18, Zenon DEF Consistent, m, cx, st

(***************************************************************************)
(* A task that is dropped leaves the machine as it is.                     *)
(***************************************************************************)
LEMMA DropKeeps ==
    ASSUME NEW m, NEW cx, NEW st, Consistent(m, cx, st),
           NEW t \in Task, st[t] = "new", NEW cs \in LockContexts
    PROVE  LET st2 == [st EXCEPT ![t] = "dropped"]
           IN  /\ Consistent(m, [cx EXCEPT ![t] = cs], st2)
               /\ RunnableIn(m, st2) = RunnableIn(m, st)
<1> DEFINE st2 == [st EXCEPT ![t] = "dropped"]
           cx2 == [cx EXCEPT ![t] = cs]
<1>1. /\ st \in [Task -> Statuses] /\ m.max_running # 0 /\ MachineOK(m, cx, ActiveIn(st))
      /\ ReadyOK(m, st) /\ CountersOK(m, st) /\ HashesOK(m, st) /\ LedgerOrder(m, st)
  BY Zenon DEF Consistent
<1>2. t \in AreIn(st, "new") /\ t \notin ActiveIn(st) /\ t \notin AreIn(st, "held")
      /\ t \notin AreIn(st, "handed")
  BY Zenon, StatusSets
<1>3. /\ st2 \in [Task -> Statuses]
      /\ AreIn(st2, "held") = AreIn(st, "held") /\ AreIn(st2, "handed") = AreIn(st, "handed")
      /\ AreIn(st2, "new") = AreIn(st, "new") \ {t}
  <2> DEFINE x == "dropped"
  <2>1. x \in Statuses /\ x # "held" /\ x # "new" /\ x # "handed"
    BY Zenon DEF Statuses
  <2>2. st \in [Task -> Statuses] /\ st2 = [st EXCEPT ![t] = x]
    BY Zenon, <1>1
  <2> HIDE DEF x, st2
  <2>3. Changed(st, st2, t, x)
    BY Zenon, <2>1, <2>2, StatusChange
  <2>4. /\ st2 \in [Task -> Statuses] /\ AreIn(st2, "new") = AreIn(st, "new") \ {t}
        /\ AreIn(st2, "held") = AreIn(st, "held") \ {t}
        /\ AreIn(st2, "handed") = AreIn(st, "handed") \ {t}
    BY Zenon, <2>1, <2>3 DEF Changed
  <2> QED
    BY <1>2, <2>4
<1> HIDE DEF st2
<1>4. ActiveIn(st2) = ActiveIn(st) /\ RunnableIn(m, st2) = RunnableIn(m, st)
  BY Zenon, <1>3 DEF ActiveIn, RunnableIn
<1>5. MachineOK(m, cx2, ActiveIn(st2))
  BY <1>1, <1>2, <1>4, ContextsAlone
<1>6. ReadyOK(m, st2) /\ CountersOK(m, st2)
  BY <1>1, <1>3, <1>4 DEF ReadyOK, CountersOK
<1>7. HashesOK(m, st2)
  BY Zenon, <1>1, <1>4 DEF HashesOK
<1>8. LedgerOrder(m, st2)
  BY <1>1, <1>3, <1>4 DEF LedgerOrder
<1>9. Consistent(m, cx2, st2)
  BY <1>1, <1>3, <1>5, <1>6, <1>7, <1>8, Zenon DEF Consistent
<1> QED
  BY Zenon, <1>4, <1>9 DEF st2, cx2

-----------------------------------------------------------------------------
(* The specification *)

(***************************************************************************)
(* The initial states satisfy the invariant.                               *)
(***************************************************************************)
LEMMA InitKeeps == Init => SchedInv
<1> SUFFICES ASSUME Init PROVE SchedInv
  BY Zenon
<1>1. PICK c \in Configs : machine = NewMachine(c.capability, c.max_running, c.max_unique)
  BY Zenon DEF Init
<1>2. contexts = [t \in Task |-> NoContexts] /\ status = [t \in Task |-> "new"] /\ clearing = FALSE
  BY Zenon DEF Init
<1> QED
  BY Zenon, <1>1, <1>2, NewIsConsistent DEF SchedInv

(***************************************************************************)
(* Every step keeps the invariant, and makes tasks runnable in order.      *)
(***************************************************************************)
LEMMA StepKeeps ==
    SchedInv /\ [Next]_vars =>
        SchedInv' /\ Precedes(machine, status, machine', contexts', status')
<1> SUFFICES ASSUME SchedInv, [Next]_vars
             PROVE  SchedInv' /\ Precedes(machine, status, machine', contexts', status')
  BY Zenon
<1>1. /\ Consistent(machine, contexts, status) /\ clearing \in BOOLEAN
      /\ clearing => AreIn(status, "handed") = {}
  BY Zenon DEF SchedInv
<1>2. SUFFICES /\ Consistent(machine', contexts', status') /\ clearing' \in BOOLEAN
               /\ clearing' => AreIn(status', "handed") = {}
               /\ Precedes(machine, status, machine', contexts', status')
  BY Zenon DEF SchedInv
<1>3. status \in [Task -> Statuses]
  BY <1>1, ConsistentFacts
<1>4. ASSUME RunnableIn(machine', status') = RunnableIn(machine, status)
      PROVE  Precedes(machine, status, machine', contexts', status')
  BY Zenon, <1>4 DEF Precedes
<1>5. ASSUME NEW t \in Task, NEW cs \in LockContexts, NEW force \in BOOLEAN, Schedule(t, cs, force)
      PROVE  /\ Consistent(machine', contexts', status') /\ clearing' \in BOOLEAN
             /\ clearing' => AreIn(status', "handed") = {}
             /\ Precedes(machine, status, machine', contexts', status')
  <2>1. /\ ~clearing /\ clearing' = clearing /\ status[t] = "new"
        /\ machine.capability = "Fifo" => \A o \in AreIn(status, "new") : t <= o
        /\ machine' = schedule_or_buffer_task(machine, t, cs, force)
        /\ contexts' = [contexts EXCEPT ![t] = cs]
    BY Zenon, <1>5 DEF Schedule, Are, AreIn
  <2>2. status' = [status EXCEPT ![t] =
                     CASE Drops(machine, t) -> "dropped"
                       [] machine'.running_task_count > machine.running_task_count -> "handed"
                       [] OTHER -> "held"]
    BY <1>5, Zenon DEF Schedule
  <2>3. CASE Drops(machine, t)
    <3>1. machine' = machine
      BY <2>1, <2>3 DEF schedule_or_buffer_task
    <3>2. ~(machine'.running_task_count > machine.running_task_count)
      <4>1. machine.running_task_count \in Nat
        BY <1>1, ConsistentFacts, MachineType
      <4> QED
        BY <3>1, <4>1
    <3>3. status' = [status EXCEPT ![t] = "dropped"]
      BY <2>2, <2>3, <3>2
    <3>4. /\ Consistent(machine, contexts', status')
          /\ RunnableIn(machine, status') = RunnableIn(machine, status)
      BY Zenon, <1>1, <2>1, <3>3, DropKeeps
    <3> QED
      BY <1>1, <1>4, <2>1, <3>1, <3>4
  <2>4. CASE ~Drops(machine, t)
    <3> DEFINE x == IF machine'.running_task_count > machine.running_task_count
                    THEN "handed" ELSE "held"
    <3>1. status' = [status EXCEPT ![t] = x]
      BY Zenon, <2>2, <2>4
    <3>2. /\ Consistent(machine', contexts', status')
          /\ Precedes(machine, status, machine', contexts', status')
      BY Zenon, <1>1, <2>1, <2>4, <3>1, ScheduleKeeps
    <3> QED
      BY <1>1, <2>1, <3>2
  <2> QED
    BY Zenon, <2>3, <2>4
<1>6. ASSUME ScheduleNext
      PROVE  /\ Consistent(machine', contexts', status') /\ clearing' \in BOOLEAN
             /\ clearing' => AreIn(status', "handed") = {}
             /\ Precedes(machine, status, machine', contexts', status')
  <2>1. /\ ~clearing /\ clearing' = clearing /\ HasNextUnblocked(machine)
        /\ machine' = schedule_next_unblocked_task(machine) /\ contexts' = contexts
        /\ status' = [status EXCEPT ![Head(machine.unblocked_task_queue)] = "handed"]
    BY Zenon, <1>6 DEF ScheduleNext
  <2>2. Consistent(machine', contexts', status')
        /\ RunnableIn(machine', status') = RunnableIn(machine, status)
    BY Zenon, <1>1, <2>1, NextKeeps
  <2> QED
    BY <1>1, <1>4, <2>1, <2>2
<1>7. ASSUME NEW t \in Task, Deschedule(t)
      PROVE  /\ Consistent(machine', contexts', status') /\ clearing' \in BOOLEAN
             /\ clearing' => AreIn(status', "handed") = {}
             /\ Precedes(machine, status, machine', contexts', status')
  <2>1. /\ ~clearing /\ clearing' = clearing /\ status[t] = "handed"
        /\ status' = [status EXCEPT ![t] = "done"]
        /\ contexts' = [contexts EXCEPT ![t] = NoContexts]
    BY Zenon, <1>7 DEF Deschedule, Finish
  <2>2. PICK order \in ContextOrders(contexts[t]) :
            machine' = deschedule_task(machine, t, contexts[t], order)
    BY Zenon, <1>7 DEF Deschedule, Finish
  <2>3. /\ Consistent(machine', contexts', status')
        /\ Precedes(machine, status, machine', contexts', status')
    BY Zenon, <1>1, <2>1, <2>2, FinishKeeps
  <2> QED
    BY Zenon, <1>1, <2>1, <2>3
<1>8. ASSUME ClearNext
      PROVE  /\ Consistent(machine', contexts', status') /\ clearing' \in BOOLEAN
             /\ clearing' => AreIn(status', "handed") = {}
             /\ Precedes(machine, status, machine', contexts', status')
  <2> DEFINE t == Head(machine.unblocked_task_queue)
             m1 == schedule_next_unblocked_task(machine)
             st1 == [status EXCEPT ![t] = "handed"]
  <2>1. /\ clearing /\ clearing' = clearing /\ HasNextUnblocked(machine)
        /\ status' = [status EXCEPT ![t] = "done"]
        /\ contexts' = [contexts EXCEPT ![t] = NoContexts]
    BY Zenon, <1>8 DEF ClearNext, Finish
  <2>2. PICK order \in ContextOrders(contexts[t]) :
            machine' = deschedule_task(m1, t, contexts[t], order)
    BY Zenon, <1>8 DEF ClearNext, Finish
  <2>3. /\ t \in Task /\ Consistent(m1, contexts, st1)
        /\ RunnableIn(m1, st1) = RunnableIn(machine, status)
    BY Zenon, <1>1, <2>1, NextKeeps
  <2>4. st1[t] = "handed" /\ [st1 EXCEPT ![t] = "done"] = status'
    <3> HIDE DEF t
    <3> QED
      BY <1>3, <2>1, <2>3
  <2>5. \A o \in Task : o # t => status'[o] = status[o]
    <3> HIDE DEF t
    <3> QED
      BY Zenon, <1>3, <2>1
  <2>6. status'[t] # "handed"
    <3> HIDE DEF t
    <3> QED
      BY <1>3, <2>1, <2>3
  <2> HIDE DEF t, m1, st1
  <2>7. Consistent(machine', contexts', status') /\ Precedes(m1, st1, machine', contexts', status')
    <3> DEFINE n == deschedule_task(m1, t, contexts[t], order)
               cx2 == [contexts EXCEPT ![t] = NoContexts]
               st2 == [st1 EXCEPT ![t] = "done"]
    <3>1. Consistent(n, cx2, st2) /\ Precedes(m1, st1, n, cx2, st2)
      BY Zenon, <2>2, <2>3, <2>4, FinishKeeps
    <3>2. machine' = n /\ contexts' = cx2 /\ status' = st2
      BY <2>1, <2>2, <2>4
    <3> HIDE DEF n, cx2, st2
    <3> QED
      BY Zenon, <3>1, <3>2
  <2>8. Precedes(machine, status, machine', contexts', status')
    BY Zenon, <2>3, <2>7 DEF Precedes
  <2>9. AreIn(status', "handed") = {}
    <3>1. \A o \in Task : status[o] # "handed"
      BY <1>1, <2>1, StatusSets
    <3>2. \A o \in Task : status'[o] # "handed"
      BY <2>5, <2>6, <3>1
    <3> QED
      BY Zenon, <3>2 DEF AreIn
  <2> QED
    BY <1>1, <2>1, <2>7, <2>8, <2>9, Zenon
<1>9. ASSUME StartClear
      PROVE  /\ Consistent(machine', contexts', status') /\ clearing' \in BOOLEAN
             /\ clearing' => AreIn(status', "handed") = {}
             /\ Precedes(machine, status, machine', contexts', status')
  <2>1. /\ machine' = machine /\ contexts' = contexts /\ status' = status /\ clearing' = TRUE
        /\ AreIn(status, "handed") = {}
    BY Zenon, <1>9 DEF StartClear, Are, AreIn
  <2> QED
    BY <1>1, <1>4, <2>1
<1>10. ASSUME Reinitialize \/ Done \/ UNCHANGED vars
       PROVE  /\ Consistent(machine', contexts', status') /\ clearing' \in BOOLEAN
              /\ clearing' => AreIn(status', "handed") = {}
              /\ Precedes(machine, status, machine', contexts', status')
  <2>1. /\ machine' = machine /\ contexts' = contexts /\ status' = status
        /\ clearing' = clearing \/ clearing' = FALSE
    BY Zenon, <1>10 DEF Reinitialize, Done, vars
  <2>2. Precedes(machine, status, machine', contexts', status')
    BY Zenon, <1>4, <2>1
  <2>3. clearing' \in BOOLEAN /\ (clearing' => clearing)
    <3>1. CASE clearing' = clearing
      BY <1>1, <3>1
    <3>2. CASE clearing' = FALSE
      BY Zenon, <3>2
    <3> QED
      BY Zenon, <2>1, <3>1, <3>2
  <2> QED
    BY <1>1, <2>1, <2>2, <2>3, Zenon
<1> QED
  BY <1>5, <1>6, <1>7, <1>8, <1>9, <1>10 DEF Next

(***************************************************************************)
(* The invariant holds in every reachable state.                           *)
(***************************************************************************)
THEOREM SchedulingInvariant == Spec => []SchedInv
<1>1. Init => SchedInv
  BY Zenon, InitKeeps
<1>2. SchedInv /\ [Next]_vars => SchedInv'
  BY Zenon, StepKeeps
<1> QED
  BY <1>1, <1>2, PTL DEF Spec

(***************************************************************************)
(* The sets of tasks the properties are stated with.                       *)
(***************************************************************************)
LEMMA StateSets ==
    /\ \A s : Are(s) = AreIn(status, s)
    /\ Active = ActiveIn(status)
    /\ Runnable = RunnableIn(machine, status)
  BY Zenon DEF Are, AreIn, Active, ActiveIn, Runnable, RunnableIn

(***************************************************************************)
(* A runnable task waits for no address.                                   *)
(***************************************************************************)
LEMMA RunnableHolds ==
    ASSUME NEW m, NEW cx, NEW st, Consistent(m, cx, st), NEW t \in RunnableIn(m, st)
    PROVE  /\ t \in ActiveIn(st) /\ t \in Task /\ m.blocked_usage_count[t] = 0
           /\ \A a \in Address : t \notin Waiting(m.queues[a])
<1>1. /\ t \in ActiveIn(st) /\ m.blocked_usage_count[t] = 0
      /\ MachineOK(m, cx, ActiveIn(st))
  BY Zenon, ConsistentFacts
<1>2. t \in Task
  BY Zenon, <1>1, StatusSets
<1>3. m.blocked_usage_count[t] = Cardinality(WaitsIn(m, t))
  BY <1>1, <1>2, Zenon DEF MachineOK
<1>4. WaitsIn(m, t) = {}
  BY <1>1, <1>3, WaitsFinite
<1> QED
  BY Zenon, <1>1, <1>2, <1>4 DEF WaitsIn

(***************************************************************************)
(* Of two active tasks that conflict at an address, at most one holds it.  *)
(***************************************************************************)
LEMMA OneHolds ==
    ASSUME NEW m, NEW cx, NEW st, Consistent(m, cx, st),
           NEW t \in ActiveIn(st), NEW o \in ActiveIn(st), t # o, NEW a \in Address,
           cx[t][a] # "None", cx[o][a] # "None", "Writable" \in {cx[t][a], cx[o][a]},
           t \notin Waiting(m.queues[a])
    PROVE  o \in Waiting(m.queues[a])
<1> DEFINE q == m.queues[a]
           U == UsersOf(ActiveIn(st), cx, a)
           H == HeldBy(Range(q.blocked), U)
<1>1. MachineOK(m, cx, ActiveIn(st)) /\ ActiveIn(st) \in SUBSET Task
  BY Zenon, ConsistentFacts, StatusSets
<1>2. /\ QueueInv(m.capability, q, U, UseAt(cx, a), m.blocked_usage_count)
      /\ UseAt(cx, a)[t] = cx[t][a] /\ UseAt(cx, a)[o] = cx[o][a]
  BY <1>1, UsersAre
<1>3. t \in U /\ o \in U
  BY Zenon DEF UsersOf
<1>4. H = U \ Waiting(q)
  BY Zenon DEF HeldBy, Waiting
<1>5. /\ \A u \in H : UseAt(cx, a)[u] = q.current.usage
      /\ q.current.usage = "Writable" => \E u \in H : H = {u}
  BY <1>2, Zenon DEF QueueInv, Accounts
<1> HIDE DEF H, U, q
<1> SUFFICES ASSUME o \notin Waiting(q) PROVE FALSE
  BY Zenon DEF q
<1>6. t \in H /\ o \in H
  BY Zenon, <1>3, <1>4 DEF q
<1> QED
  BY <1>2, <1>5, <1>6

(***************************************************************************)
(* The invariant excludes two conflicting tasks that may run.              *)
(***************************************************************************)
LEMMA InvImpliesNoConflict == SchedInv => NoConflictingTasks
<1> SUFFICES ASSUME SchedInv, NEW t \in Runnable, NEW o \in Runnable, t # o, Conflict(t, o)
             PROVE  FALSE
  BY Zenon DEF NoConflictingTasks
<1>1. Consistent(machine, contexts, status)
  BY Zenon DEF SchedInv
<1>2. t \in RunnableIn(machine, status) /\ o \in RunnableIn(machine, status)
  BY Zenon, StateSets
<1>3. PICK a \in Address : /\ contexts[t][a] # "None" /\ contexts[o][a] # "None"
                           /\ "Writable" \in {contexts[t][a], contexts[o][a]}
  BY Zenon DEF Conflict
<1>4. /\ t \in ActiveIn(status) /\ o \in ActiveIn(status)
      /\ t \notin Waiting(machine.queues[a]) /\ o \notin Waiting(machine.queues[a])
  BY <1>1, <1>2, RunnableHolds
<1> QED
  BY <1>1, <1>3, <1>4, OneHolds

(***************************************************************************)
(* Tasks that may run at the same time do not conflict, whatever the       *)
(* transactions, the priorities and the order of events: the handlers may  *)
(* execute them without account locks.                                     *)
(***************************************************************************)
THEOREM RunnableTasksDoNotConflict == Spec => []NoConflictingTasks
  BY SchedulingInvariant, InvImpliesNoConflict, PTL

(***************************************************************************)
(* The invariant excludes that active tasks only wait for each other: if   *)
(* the least active task waits, a holder of that address comes later, so   *)
(* that it may run already.                                                *)
(***************************************************************************)
LEMMA InvImpliesNoDeadlock == SchedInv => NoDeadlock
<1> SUFFICES ASSUME SchedInv, ActiveIn(status) # {} PROVE RunnableIn(machine, status) # {}
  BY Zenon, StateSets DEF NoDeadlock
<1> DEFINE A == ActiveIn(status)
           counts == machine.blocked_usage_count
<1>1. /\ MachineOK(machine, contexts, A)
      /\ \A o \in A : counts[o] = 0 <=> o \in RunnableIn(machine, status)
  BY Zenon, ConsistentFacts DEF SchedInv
<1>2. A \in SUBSET Nat /\ A \in SUBSET Task
  BY Zenon, StatusSets, IdsAssumption
<1>3. PICK t \in A : \A o \in A : t <= o
  <2> HIDE DEF A
  <2> QED
    BY Zenon, <1>2, LeastNumber DEF A
<1>4. CASE counts[t] = 0
  BY <1>1, <1>3, <1>4
<1>5. CASE counts[t] # 0
  <2>1. counts[t] = Cardinality(WaitsIn(machine, t))
    BY <1>1, <1>2, <1>3, Zenon DEF MachineOK
  <2>2. PICK a \in Address : t \in Waiting(machine.queues[a])
    BY Zenon, <1>5, <2>1, WaitsFinite DEF WaitsIn
  <2> DEFINE q == machine.queues[a]
             U == UsersOf(A, contexts, a)
             E == Range(q.blocked)
             H == HeldBy(E, U)
  <2>3. QueueInv(machine.capability, q, U, UseAt(contexts, a), counts) /\ U \subseteq A
        /\ Waiting(q) \subseteq U
    BY Zenon, <1>1, UsersAre
  <2>4. /\ q.current.usage = "None" => U = {}
        /\ q.current.usage = "Readonly" => H # {}
        /\ q.current.usage = "Writable" => \E o \in H : H = {o}
        /\ \A e \in E, o \in H : o < e.task \/ counts[o] = 0
        /\ q \in [current : Usage, blocked : Seq(UsageFromTask)]
    BY <2>3, Zenon DEF QueueInv, Accounts
  <2>5. PICK e \in E : e.task = t
    BY Zenon, <2>2 DEF Waiting
  <2>6. H \subseteq U
    BY Zenon DEF HeldBy
  <2>7. U # {}
    BY Zenon, <2>2, <2>3
  <2> HIDE DEF A, U, E, H, q
  <2>8. q.current.usage \in {"None", "Readonly", "Writable"}
    <3>1. q.current \in Usage
      BY Zenon, <2>4
    <3> QED
      BY Zenon, <3>1 DEF Usage, RequestedUsage
  <2>9. PICK o \in H : TRUE
    BY <2>4, <2>7, <2>8
  <2>10. o \in A /\ t <= o /\ t \in Nat /\ o \in Nat
    BY <1>2, <1>3, <2>3, <2>6
  <2>11. counts[o] = 0
    BY <2>4, <2>5, <2>9, <2>10
  <2> QED
    BY <1>1, <2>10, <2>11 DEF A
<1> QED
  BY <1>4, <1>5

(***************************************************************************)
(* While a task is active some task is runnable: reblocking, decided for   *)
(* each address by itself, never leaves tasks that wait for each other     *)
(* only, which the comment in prepare_lock warns of.                       *)
(***************************************************************************)
THEOREM ReblockingNeverDeadlocks == Spec => []NoDeadlock
  BY SchedulingInvariant, InvImpliesNoDeadlock, PTL

(***************************************************************************)
(* A step that makes a task runnable makes it so before the later ones.    *)
(***************************************************************************)
LEMMA StepKeepsPrecedence ==
    SchedInv /\ SchedInv' /\ Precedes(machine, status, machine', contexts', status') =>
        \A t \in Runnable' \ Runnable : \A o \in Active' : (Conflict(t, o))' => t <= o
<1> SUFFICES ASSUME SchedInv, SchedInv', Precedes(machine, status, machine', contexts', status'),
                    NEW t \in Runnable' \ Runnable, NEW o \in Active', (Conflict(t, o))'
             PROVE  t <= o
  BY Zenon
<1>1. Consistent(machine', contexts', status')
  BY Zenon DEF SchedInv
<1>2. /\ t \in RunnableIn(machine', status') /\ t \notin RunnableIn(machine, status)
      /\ o \in ActiveIn(status')
  BY Zenon DEF Runnable, RunnableIn, Active, ActiveIn, Are, AreIn
<1>3. PICK a \in Address : /\ contexts'[t][a] # "None" /\ contexts'[o][a] # "None"
                           /\ "Writable" \in {contexts'[t][a], contexts'[o][a]}
  BY Zenon DEF Conflict
<1>4. /\ t \in ActiveIn(status') /\ t \notin Waiting(machine'.queues[a])
  BY <1>1, <1>2, RunnableHolds
<1>5. t \in Nat /\ o \in Nat
  <2>1. ActiveIn(status') \in SUBSET Task
    BY Zenon, StatusSets
  <2> QED
    BY Zenon, <1>2, <1>4, <2>1, IdsAssumption
<1>6. CASE t = o
  BY <1>5, <1>6
<1>7. CASE t # o
  <2>1. o \in Waiting(machine'.queues[a])
    BY <1>1, <1>2, <1>3, <1>4, <1>7, OneHolds
  <2>2. t < o
    BY <1>2, <1>3, <2>1 DEF Precedes
  <2> QED
    BY <1>5, <2>2
<1> QED
  BY <1>6, <1>7

(***************************************************************************)
(* Conflicting tasks become runnable in the order of the ledger, or of     *)
(* their priorities: a task becomes runnable only when no conflicting task *)
(* that precedes it is active.                                             *)
(***************************************************************************)
THEOREM ConflictsRunInOrder == Spec => PrecedenceKept
<1> DEFINE Ordered == \A t \in Runnable' \ Runnable : \A o \in Active' : (Conflict(t, o))' => t <= o
<1>1. SchedInv /\ [Next]_vars => SchedInv' /\ Ordered
  BY Zenon, StepKeeps, StepKeepsPrecedence
<1>2. SchedInv /\ [Next]_vars => [Ordered]_vars
  BY Zenon, <1>1
<1> QED
  BY <1>2, SchedulingInvariant, PTL DEF Spec, PrecedenceKept

(***************************************************************************)
(* One usage queue: what the code asserts of it, and who holds it.         *)
(***************************************************************************)
LEMMA QueueAsAsserted ==
    ASSUME SchedInv, NEW a \in Address
    PROVE  LET q == machine.queues[a]
           IN  /\ WellFormed(q)
               /\ \A t \in Holders(a) : contexts[t][a] = q.current.usage
               /\ q.current.usage = "Writable" => Cardinality(Holders(a)) = 1
               /\ q.current.usage = "Readonly" =>
                      IF machine.capability = "Fifo" THEN q.current.count = Cardinality(Holders(a))
                                                     ELSE q.current.tasks = Holders(a)
               /\ UsersOf(ActiveIn(status), contexts, a) = {} => q = NewUsageQueue
<1> DEFINE q == machine.queues[a]
           c == q.current
           A == ActiveIn(status)
           U == UsersOf(A, contexts, a)
           E == Range(q.blocked)
           H == HeldBy(E, U)
           cap == machine.capability
           use == UseAt(contexts, a)
<1>1. MachineOK(machine, contexts, A)
  BY Zenon, ConsistentFacts DEF SchedInv
<1>2. /\ cap \in {"Fifo", "Priority"}
      /\ QueueInv(cap, q, U, use, machine.blocked_usage_count)
      /\ U \subseteq Task /\ \A o \in U : use[o] = contexts[o][a]
  BY <1>1, UsersAre
<1>3. Holders(a) = H
  <2>1. Active = A
    BY Zenon, StateSets
  <2> QED
    BY <2>1, Zenon DEF Holders, HeldBy, UsersOf
<1>4. /\ \A e \in E : e.task \in U /\ e.usage = use[e.task]
      /\ \A o \in H : use[o] = c.usage
      /\ c.usage = "None" => U = {}
      /\ c.usage = "Readonly" => H # {}
      /\ c.usage = "Writable" => \E o \in H : H = {o}
      /\ c.count = (IF cap = "Fifo" /\ c.usage = "Readonly" THEN Cardinality(H) ELSE 0)
      /\ c.tasks = (IF cap = "Priority" THEN H ELSE {})
      /\ c.usage = "Readonly" =>
             \A e \in E : (\A f \in E : e.task <= f.task) => e.usage = "Writable"
  BY <1>2, Zenon DEF QueueInv, Accounts
<1>5. q \in [current : Usage, blocked : Seq(UsageFromTask)] /\ Sorted(q.blocked)
  BY <1>2, Zenon DEF QueueInv
<1>6. c \in Usage /\ q.blocked \in Seq(UsageFromTask) /\ q = [current |-> c, blocked |-> q.blocked]
  BY Zenon, <1>5
<1>7. /\ q.blocked = <<>> <=> E = {}
      /\ q.blocked # <<>> => /\ Head(q.blocked) \in E
                             /\ \A e \in E : Head(q.blocked).task <= e.task
  BY <1>5, <1>6, BlockedFirst
<1>8. H \subseteq U
  BY Zenon DEF HeldBy
<1> HIDE DEF E, U, H, c, cap, use
<1>9. U = {} => c.usage = "None" /\ E = {} /\ H = {}
  <2>1. c.usage \in {"None", "Readonly", "Writable"}
    BY Zenon, <1>6 DEF Usage, RequestedUsage
  <2> QED
    BY <1>4, <1>8, <2>1
<1>10. U = {} => c = Unused /\ q.blocked = <<>>
  <2> SUFFICES ASSUME U = {} PROVE c = Unused /\ q.blocked = <<>>
    BY Zenon
  <2>1. c.usage = "None" /\ c.count = 0 /\ c.tasks = {}
    BY Zenon, <1>4, <1>9
  <2>2. c = [usage |-> c.usage, count |-> c.count, tasks |-> c.tasks]
    BY Zenon, <1>6 DEF Usage
  <2> QED
    BY <1>7, <1>9, <2>1, <2>2 DEF Unused
<1>11. WellFormed(q)
  <2>1. c.usage = "None" => c = Unused /\ q.blocked = <<>>
    BY Zenon, <1>4, <1>10
  <2>2. c.usage = "Readonly" /\ q.blocked # <<>> => Head(q.blocked).usage = "Writable"
    BY <1>4, <1>7
  <2> QED
    BY Zenon, <2>1, <2>2 DEF WellFormed, c
<1>12. \A t \in Holders(a) : contexts[t][a] = c.usage
  BY <1>2, <1>3, <1>4, <1>8
<1>13. c.usage = "Writable" => Cardinality(Holders(a)) = 1
  <2> SUFFICES ASSUME c.usage = "Writable" PROVE Cardinality(H) = 1
    BY Zenon, <1>3
  <2>1. PICK o \in H : H = {o}
    BY Zenon, <1>4
  <2>2. Cardinality({o}) = 1
    BY Zenon, FS_Singleton
  <2> QED
    BY Zenon, <2>1, <2>2
<1>14. c.usage = "Readonly" => IF cap = "Fifo" THEN c.count = Cardinality(Holders(a))
                                               ELSE c.tasks = Holders(a)
  BY <1>2, <1>3, <1>4
<1>15. U = {} => q = NewUsageQueue
  BY Zenon, <1>6, <1>10 DEF NewUsageQueue
<1> QED
  BY <1>11, <1>12, <1>13, <1>14, <1>15 DEF c, cap, U

(***************************************************************************)
(* Without an active task the machine is as it was created.                *)
(***************************************************************************)
LEMMA EmptyIsPristine ==
    ASSUME SchedInv, ActiveIn(status) = {}
    PROVE  Pristine(machine)
<1> DEFINE m == machine
<1>1. /\ MachineOK(m, contexts, {}) /\ m \in Machine
      /\ Range(m.unblocked_task_queue) \subseteq AreIn(status, "held")
      /\ m.active_task_count = Cardinality({})
      /\ m.running_task_count = Cardinality(AreIn(status, "handed"))
      /\ HashesOK(m, status)
  BY ConsistentFacts DEF SchedInv
<1>2. AreIn(status, "held") = {} /\ AreIn(status, "handed") = {}
  BY Zenon, StatusSets
<1>3. Cardinality({}) = 0
  BY Zenon, FS_EmptySet
<1>4. m.active_task_count = 0 /\ m.running_task_count = 0
  BY <1>1, <1>2, <1>3
<1>5. m.hashes = {}
  BY Zenon, <1>1 DEF HashesOK
<1>6. m.unblocked_task_queue = <<>>
  <2>1. m.unblocked_task_queue \in Seq(Task) /\ Range(m.unblocked_task_queue) = {}
    BY <1>1, <1>2, MachineType
  <2> DEFINE ready == m.unblocked_task_queue
  <2> HIDE DEF ready
  <2>2. ready \in Seq(Task) /\ DOMAIN ready = {}
    BY Zenon, <2>1 DEF Range, ready
  <2>3. Len(ready) \in Nat /\ 1 .. Len(ready) = {}
    BY <2>2
  <2>4. Len(ready) = 0
    BY <2>3
  <2>5. ready = <<>>
    BY <2>2, <2>4
  <2> QED
    BY Zenon, <2>5 DEF ready
<1>7. \A a \in Address : m.queues[a] = NewUsageQueue
  <2> SUFFICES ASSUME NEW a \in Address PROVE m.queues[a] = NewUsageQueue
    BY Zenon
  <2>1. UsersOf(ActiveIn(status), contexts, a) = {}
    BY Zenon DEF UsersOf
  <2> QED
    BY Zenon, <2>1, QueueAsAsserted
<1>8. m.queues = [a \in Address |-> NewUsageQueue]
  <2>1. m.queues = [a \in Address |-> m.queues[a]]
    BY <1>1, MachineType
  <2> QED
    BY <1>7, <2>1
<1>9. \A t \in Task : m.blocked_usage_count[t] = 0
  <2> SUFFICES ASSUME NEW t \in Task PROVE m.blocked_usage_count[t] = 0
    BY Zenon
  <2>1. m.blocked_usage_count[t] = Cardinality(WaitsIn(m, t))
    BY <1>1, Zenon DEF MachineOK
  <2>2. \A a \in Address : Waiting(m.queues[a]) \subseteq UsersOf({}, contexts, a)
    BY <1>1, UsersAre
  <2>3. WaitsIn(m, t) = {}
    BY Zenon, <2>2 DEF WaitsIn, UsersOf
  <2> QED
    BY <1>3, <2>1, <2>3
<1>10. m.blocked_usage_count = [t \in Task |-> 0]
  <2>1. m.blocked_usage_count = [t \in Task |-> m.blocked_usage_count[t]]
    BY <1>1, MachineType
  <2> QED
    BY Zenon, <1>9, <2>1
<1>11. m = [capability |-> m.capability, max_running |-> m.max_running, max_unique |-> m.max_unique,
            queues |-> m.queues, blocked_usage_count |-> m.blocked_usage_count,
            unblocked_task_queue |-> m.unblocked_task_queue, hashes |-> m.hashes,
            active_task_count |-> m.active_task_count,
            running_task_count |-> m.running_task_count]
  BY Zenon, <1>1 DEF Machine
<1> QED
  BY <1>4, <1>5, <1>6, <1>8, <1>10, <1>11, Zenon DEF Pristine, NewMachine

(***************************************************************************)
(* The invariant implies the consistency the runs check.                   *)
(***************************************************************************)
LEMMA InvImpliesQueues == SchedInv => QueuesConsistent
<1> SUFFICES ASSUME SchedInv PROVE QueuesConsistent
  BY Zenon
<1> DEFINE counts == machine.blocked_usage_count
<1>1. /\ MachineOK(machine, contexts, ActiveIn(status)) /\ machine \in Machine
      /\ machine.max_running # 0
      /\ \A o \in ActiveIn(status) : counts[o] = 0 <=> o \in RunnableIn(machine, status)
      /\ RunnableIn(machine, status) \subseteq ActiveIn(status)
      /\ machine.active_task_count = Cardinality(ActiveIn(status))
      /\ machine.running_task_count = Cardinality(AreIn(status, "handed"))
  BY Zenon, ConsistentFacts DEF SchedInv
<1>2. \A t \in Task : counts[t] =
          Cardinality({a \in Address : \E e \in Range(machine.queues[a].blocked) : e.task = t})
  <2> SUFFICES ASSUME NEW t \in Task
               PROVE  counts[t] = Cardinality({a \in Address :
                                      \E e \in Range(machine.queues[a].blocked) : e.task = t})
    BY Zenon
  <2>1. counts[t] = Cardinality(WaitsIn(machine, t))
    BY <1>1, Zenon DEF MachineOK
  <2>2. WaitsIn(machine, t) =
            {a \in Address : \E e \in Range(machine.queues[a].blocked) : e.task = t}
    BY Zenon DEF WaitsIn, Waiting
  <2> QED
    BY Zenon, <2>1, <2>2
<1>3. Runnable = {t \in Active : counts[t] = 0}
  BY Zenon, <1>1, StateSets
<1>4. has_no_active_task(machine) <=> ActiveIn(status) = {}
  <2>1. IsFiniteSet(ActiveIn(status))
    BY Zenon, StatusSets
  <2> QED
    BY <1>1, <2>1, FS_EmptySet DEF has_no_active_task
<1>5. has_no_active_task(machine) => Pristine(machine)
  BY <1>4, EmptyIsPristine
<1>6. clearing /\ ~HasNextUnblocked(machine) => has_no_active_task(machine)
  <2> SUFFICES ASSUME clearing, ~HasNextUnblocked(machine) PROVE ActiveIn(status) = {}
    BY Zenon, <1>4
  <2>1. AreIn(status, "handed") = {}
    BY Zenon DEF SchedInv
  <2>2. machine.running_task_count = 0 /\ machine.max_running \in Nat
    BY Zenon, <1>1, <2>1, FS_EmptySet, MachineType
  <2>3. is_task_runnable(machine)
    BY <1>1, <2>2 DEF is_task_runnable
  <2>4. machine.unblocked_task_queue = <<>>
    BY <2>3 DEF HasNextUnblocked
  <2>5. RunnableIn(machine, status) = {}
    BY <2>1, <2>4 DEF RunnableIn, Range
  <2> QED
    BY <2>5, InvImpliesNoDeadlock, StateSets DEF NoDeadlock
<1> QED
  BY <1>2, <1>3, <1>5, <1>6, QueueAsAsserted DEF QueuesConsistent

(***************************************************************************)
(* The queues and the counters agree in every reachable state, after       *)
(* whatever reblocking; what the code asserts of a usage queue holds, and  *)
(* clear_and_reinitialize leaves the machine as it was created.            *)
(***************************************************************************)
THEOREM QueuesStayConsistent == Spec => []QueuesConsistent
  BY SchedulingInvariant, InvImpliesQueues, PTL
=============================================================================
