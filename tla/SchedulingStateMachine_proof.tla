-------------------- MODULE SchedulingStateMachine_proof --------------------
(***************************************************************************)
(* Proofs about the usage queues and about the loops of the machine that   *)
(* lock and unlock them, for any tasks and addresses.                      *)
(***************************************************************************)
EXTENDS SchedulingStateMachine, FiniteSetTheorems, WellFoundedInduction, TLAPS

(***************************************************************************)
(* The tasks that wait in queue q.                                         *)
(***************************************************************************)
Waiting(q) == {e.task : e \in Range(q.blocked)}

Sorted(blocked) ==
    \A i, j \in DOMAIN blocked : i < j => blocked[i].task < blocked[j].task

(***************************************************************************)
(* Current usage c and the set E of blocked usages account for the active  *)
(* tasks U that use the address, each in the way use tells: U less those   *)
(* that wait hold the address.  A holder precedes whoever waits, unless it *)
(* is runnable and cannot be reblocked.                                    *)
(***************************************************************************)
HeldBy(E, U) == U \ {e.task : e \in E}

Accounts(cap, c, E, U, use, counts) ==
    LET H == HeldBy(E, U)
    IN  /\ \A e \in E : e.task \in U /\ e.usage = use[e.task]
        /\ \A t \in H : use[t] = c.usage
        /\ c.usage = "None" => U = {}
        /\ c.usage = "Readonly" => H # {}
        /\ c.usage = "Writable" => \E t \in H : H = {t}
        /\ c.count = IF cap = "Fifo" /\ c.usage = "Readonly" THEN Cardinality(H) ELSE 0
        /\ c.tasks = IF cap = "Priority" THEN H ELSE {}
        /\ c.usage = "Readonly" =>
               \A e \in E : (\A f \in E : e.task <= f.task) => e.usage = "Writable"
        /\ \A e \in E, o \in H : o < e.task \/ counts[o] = 0

QueueInv(cap, q, U, use, counts) ==
    /\ q \in [current : Usage, blocked : Seq(UsageFromTask)]
    /\ Sorted(q.blocked)
    /\ Accounts(cap, q.current, Range(q.blocked), U, use, counts)

UsersOf(A, cx, a) == {t \in A : cx[t][a] # "None"}

UseAt(cx, a) == [t \in Task |-> cx[t][a]]

WaitsIn(m, t) == {a \in Address : t \in Waiting(m.queues[a])}

(***************************************************************************)
(* The queues and the counts of machine m for active tasks A with lock     *)
(* contexts cx.                                                            *)
(***************************************************************************)
MachineOK(m, cx, A) ==
    /\ m \in Machine
    /\ cx \in [Task -> LockContexts]
    /\ A \in SUBSET Task
    /\ \A a \in Address :
           QueueInv(m.capability, m.queues[a], UsersOf(A, cx, a), UseAt(cx, a),
                    m.blocked_usage_count)
    /\ \A t \in Task : m.blocked_usage_count[t] = Cardinality(WaitsIn(m, t))

-----------------------------------------------------------------------------
(* Sets and sequences *)

(***************************************************************************)
(* A set of numbers that is not empty has a least one.                     *)
(***************************************************************************)
LEMMA LeastNumber ==
    ASSUME NEW S \in SUBSET Nat, S # {}
    PROVE  \E x \in S : \A y \in S : x <= y
<1> DEFINE R == OpToRel(<, Nat)
<1>1. IsWellFoundedOn(R, Nat)
  BY Zenon, NatLessThanWellFounded
<1> HIDE DEF R
<1>2. PICK x \in S : \A y \in S : ~(<<y, x>> \in R)
  BY Zenon, <1>1, WFMin
<1>3. \A y \in S : ~(y < x)
  BY Zenon, <1>2 DEF R, OpToRel
<1> QED
  <2>1. ASSUME NEW y \in S PROVE x <= y
    <3>1. y \in Nat /\ x \in Nat /\ ~(y < x)
      BY Zenon, <1>3
    <3> QED
      BY <3>1
  <2> QED
    BY Zenon, <2>1

(***************************************************************************)
(* A sorted sequence has each element of the set once, in order.           *)
(***************************************************************************)
LEMMA SortedIsOrdered ==
    ASSUME NEW S, IsFiniteSet(S), NEW R,
           \A x \in S : <<x, x>> \notin R,
           \A x, y, z \in S : <<x, y>> \in R /\ <<y, z>> \in R => <<x, z>> \in R,
           \A x, y \in S : x # y => <<x, y>> \in R \/ <<y, x>> \in R
    PROVE  LET s == SortedBy(R, S)
           IN  /\ s \in Seq(S) /\ Len(s) = Cardinality(S) /\ Range(s) = S
               /\ \A i, j \in DOMAIN s : i < j => <<s[i], s[j]>> \in R
<1> DEFINE N == Cardinality(S)
           B(x) == {y \in S : <<y, x>> \in R}
           g == [x \in S |-> Cardinality(B(x))]
           s == SortedBy(R, S)
<1>1. N \in Nat
  BY Zenon, FS_CardinalityType
<1>2. ASSUME NEW x \in S
      PROVE  g[x] \in 0..(N - 1)
  <2>1. IsFiniteSet(B(x)) /\ Cardinality(B(x)) <= N /\ (N = Cardinality(B(x)) => S = B(x))
    BY Zenon, FS_Subset
  <2>2. Cardinality(B(x)) \in Nat /\ S # B(x)
    BY Zenon, <2>1, FS_CardinalityType
  <2> HIDE DEF N, B
  <2> QED
    BY <1>1, <2>1, <2>2
<1>3. ASSUME NEW x \in S, NEW y \in S, <<x, y>> \in R
      PROVE  g[x] < g[y]
  <2>1. IsFiniteSet(B(x)) /\ IsFiniteSet(B(y))
    BY Zenon, FS_Subset
  <2>2. B(x) \in SUBSET B(y) /\ x \in B(y) /\ x \notin B(x)
    BY <1>3
  <2>3. Cardinality(B(x)) <= Cardinality(B(y)) /\ Cardinality(B(x)) # Cardinality(B(y))
    <3> HIDE DEF B
    <3> QED
      BY <2>1, <2>2, FS_Subset
  <2>4. Cardinality(B(x)) \in Nat /\ Cardinality(B(y)) \in Nat
    BY <2>1, FS_CardinalityType
  <2> HIDE DEF B
  <2> QED
    BY <2>3, <2>4
<1>4. g \in Injection(S, 0..(N - 1))
  <2>1. g \in [S -> 0..(N - 1)]
    BY Zenon, <1>2
  <2>2. ASSUME NEW x \in S, NEW y \in S, x # y
        PROVE  g[x] # g[y]
    <3>1. g[x] \in 0..(N - 1) /\ g[y] \in 0..(N - 1)
      BY Zenon, <1>2
    <3>2. g[x] < g[y] \/ g[y] < g[x]
      BY Zenon, <1>3, <2>2
    <3> HIDE DEF g, N
    <3> QED
      BY <1>1, <3>1, <3>2
  <2> HIDE DEF g, N
  <2> QED
    BY <2>1, <2>2 DEF Injection, IsInjective
<1>5. Cardinality(0..(N - 1)) = N /\ IsFiniteSet(0..(N - 1))
  <2> HIDE DEF N
  <2>1. 0 \in Int /\ N - 1 \in Int /\ (0 > N - 1 => N = 0) /\ N - 1 - 0 + 1 = N
    BY <1>1
  <2> QED
    BY <2>1, FS_Interval
<1>6. g \in Surjection(S, 0..(N - 1))
  <2> HIDE DEF g
  <2> QED
    BY Zenon, <1>4, <1>5, FS_Injection
<1>7. ASSUME NEW i \in 1..N
      PROVE  s[i] \in S /\ g[s[i]] = i - 1
  <2>1. i - 1 \in 0..(N - 1)
    BY <1>1
  <2>2. \E x \in S : g[x] = i - 1
    <3> HIDE DEF g, N
    <3> QED
      BY Zenon, <1>6, <2>1 DEF Surjection
  <2>3. \E x \in S : Cardinality({y \in S : <<y, x>> \in R}) = i - 1
    BY Zenon, <2>2
  <2>4. s[i] = CHOOSE x \in S : Cardinality({y \in S : <<y, x>> \in R}) = i - 1
    BY Zenon DEF SortedBy
  <2>5. s[i] \in S /\ Cardinality({y \in S : <<y, s[i]>> \in R}) = i - 1
    <3> HIDE DEF s, N
    <3> QED
      BY Zenon, <2>3, <2>4
  <2> HIDE DEF s
  <2> QED
    BY Zenon, <2>5
<1>8. s \in Seq(S) /\ Len(s) = N /\ DOMAIN s = 1..N
  <2> DEFINE c(i) == CHOOSE x \in S : Cardinality({y \in S : <<y, x>> \in R}) = i - 1
  <2>1. s = [i \in 1..N |-> c(i)]
    BY Zenon DEF SortedBy
  <2> HIDE DEF c
  <2>2. s = [i \in 1..N |-> s[i]]
    BY Zenon, <2>1
  <2> HIDE DEF s, g, N
  <2> QED
    BY <1>1, <1>7, <2>2
<1>9. ASSUME NEW x \in S PROVE \E i \in DOMAIN s : s[i] = x
  <2>1. g[x] + 1 \in 1..N
    <3> HIDE DEF g, N
    <3> QED
      BY <1>1, <1>2
  <2>2. s[g[x] + 1] \in S /\ g[s[g[x] + 1]] = g[x]
    <3>1. g[x] \in Int
      <4> HIDE DEF g, N
      <4> QED
        BY <1>1, <1>2
    <3> HIDE DEF g, N, s
    <3> QED
      BY <1>7, <2>1, <3>1
  <2>3. s[g[x] + 1] = x
    <3> HIDE DEF g, N, s
    <3> QED
      BY <1>4, <2>2 DEF Injection, IsInjective
  <2> HIDE DEF s, g, N
  <2> QED
    BY <1>8, <2>1, <2>3
<1>10. ASSUME NEW i \in DOMAIN s, NEW j \in DOMAIN s, i < j
       PROVE  <<s[i], s[j]>> \in R
  <2>1. i \in 1..N /\ j \in 1..N
    <3> HIDE DEF s
    <3> QED
      BY <1>8
  <2>2. s[i] \in S /\ s[j] \in S /\ g[s[i]] = i - 1 /\ g[s[j]] = j - 1
    <3> HIDE DEF s, g, N
    <3> QED
      BY <1>7, <2>1
  <2>3. s[i] # s[j] /\ ~(g[s[j]] < g[s[i]])
    <3> HIDE DEF s, g, N
    <3> QED
      BY <1>1, <1>10, <2>1, <2>2
  <2> HIDE DEF s, g, N
  <2> QED
    BY Zenon, <1>3, <2>2, <2>3
<1> HIDE DEF s, g
<1> QED
  <2>1. Range(s) = S
    BY <1>7, <1>8, <1>9 DEF Range
  <2> QED
    BY Zenon, <1>8, <1>10, <2>1 DEF s

(***************************************************************************)
(* The blocked usages of a queue are finitely many, and the first one is   *)
(* of the highest priority.                                                *)
(***************************************************************************)
LEMMA BlockedFirst ==
    ASSUME NEW blocked \in Seq(UsageFromTask), Sorted(blocked)
    PROVE  /\ IsFiniteSet(Range(blocked))
           /\ Range(blocked) \subseteq UsageFromTask
           /\ blocked = <<>> <=> Range(blocked) = {}
           /\ \A e, f \in Range(blocked) : e.task = f.task => e = f
           /\ blocked # <<>> => /\ Head(blocked) \in Range(blocked)
                                /\ \A e \in Range(blocked) : Head(blocked).task <= e.task
<1> DEFINE n == Len(blocked)
<1>1. n \in Nat /\ DOMAIN blocked = 1..n /\ \A i \in 1..n : blocked[i] \in UsageFromTask
  OBVIOUS
<1>2. \A e \in UsageFromTask : e.task \in Nat
  BY Zenon, IdsAssumption DEF UsageFromTask
<1>3. blocked \in Surjection(1..n, Range(blocked))
  BY <1>1 DEF Surjection, Range
<1>4. IsFiniteSet(Range(blocked))
  <2>1. IsFiniteSet(1..n)
    BY <1>1, FS_Interval
  <2> QED
    BY Zenon, <1>3, <2>1, FS_Surjection
<1>5. Range(blocked) \subseteq UsageFromTask
  BY Zenon, <1>1 DEF Range
<1>6. blocked = <<>> <=> Range(blocked) = {}
  <2>1. blocked = <<>> <=> n = 0
    OBVIOUS
  <2>2. Range(blocked) = {} <=> 1..n = {}
    BY Zenon, <1>1 DEF Range
  <2> QED
    BY <1>1, <2>1, <2>2
<1>7. ASSUME NEW e \in Range(blocked), NEW f \in Range(blocked), e.task = f.task
      PROVE  e = f
  <2>1. PICK i \in 1..n : blocked[i] = e
    BY Zenon, <1>1 DEF Range
  <2>2. PICK j \in 1..n : blocked[j] = f
    BY Zenon, <1>1 DEF Range
  <2>3. i = j \/ i < j \/ j < i
    BY <1>1
  <2>4. e.task \in Nat
    BY Zenon, <1>2, <1>5
  <2>5. ~(i < j) /\ ~(j < i)
    BY <1>1, <1>7, <2>1, <2>2, <2>4 DEF Sorted
  <2> QED
    BY <2>1, <2>2, <2>3, <2>5
<1>8. ASSUME blocked # <<>>
      PROVE  /\ Head(blocked) \in Range(blocked)
             /\ \A e \in Range(blocked) : Head(blocked).task <= e.task
  <2>1. 1 \in 1..n /\ Head(blocked) = blocked[1]
    BY <1>8
  <2>2. Head(blocked) \in Range(blocked)
    BY <1>1, <2>1 DEF Range
  <2>3. ASSUME NEW e \in Range(blocked)
        PROVE  blocked[1].task <= e.task
    <3>1. PICK i \in 1..n : blocked[i] = e
      BY <1>1 DEF Range
    <3>2. i = 1 \/ 1 < i
      BY <1>1
    <3>3. 1 < i => blocked[1].task < e.task
      BY <1>1, <2>1, <3>1 DEF Sorted
    <3>4. e.task \in Nat /\ blocked[1].task \in Nat
      BY <1>1, <1>2, <1>5, <2>1
    <3> QED
      BY <3>1, <3>2, <3>3, <3>4
  <2> QED
    BY <2>1, <2>2, <2>3
<1> QED
  BY Zenon, <1>4, <1>5, <1>6, <1>7, <1>8

\* new is a sorted queue that holds exactly the elements of E
Pushed(new, E) ==
    new \in Seq(UsageFromTask) /\ Sorted(new) /\ Range(new) = E

(***************************************************************************)
(* Push keeps the queue sorted, in either kind of queue: push_back gets    *)
(* only tasks that come after all that wait.                               *)
(***************************************************************************)
LEMMA PushKeepsSorted ==
    ASSUME NEW cap \in {"Fifo", "Priority"},
           NEW blocked \in Seq(UsageFromTask), Sorted(blocked),
           NEW S \in SUBSET UsageFromTask, IsFiniteSet(S),
           \A e, f \in Range(blocked) \cup S : e.task = f.task => e = f,
           cap = "Fifo" => \A e \in Range(blocked), f \in S : e.task < f.task
    PROVE  Pushed(Push(cap, blocked, S), Range(blocked) \cup S)
<1>1. \A e \in UsageFromTask : e.task \in Nat
  BY Zenon, IdsAssumption DEF UsageFromTask
<1>2. IsFiniteSet(Range(blocked)) /\ Range(blocked) \subseteq UsageFromTask
  BY BlockedFirst
<1>3. ASSUME NEW T \in SUBSET UsageFromTask, IsFiniteSet(T),
             \A e, f \in T : e.task = f.task => e = f
      PROVE  LET s == SortedBy(ByPriority, T)
             IN  s \in Seq(T) /\ Range(s) = T /\ Sorted(s)
  <2>1. \A x, y \in T : <<x, y>> \in ByPriority <=> x.task < y.task
    BY Zenon DEF ByPriority
  <2>2. \A x \in T : x.task \in Nat
    BY Zenon, <1>1
  <2>3. /\ \A x \in T : <<x, x>> \notin ByPriority
        /\ \A x, y, z \in T : <<x, y>> \in ByPriority /\ <<y, z>> \in ByPriority
                                 => <<x, z>> \in ByPriority
        /\ \A x, y \in T : x # y => <<x, y>> \in ByPriority \/ <<y, x>> \in ByPriority
    BY <1>3, <2>1, <2>2
  <2> DEFINE s == SortedBy(ByPriority, T)
  <2>4. /\ s \in Seq(T) /\ Range(s) = T
        /\ \A i, j \in DOMAIN s : i < j => <<s[i], s[j]>> \in ByPriority
    BY Zenon, <1>3, <2>3, SortedIsOrdered
  <2> HIDE DEF s
  <2>5. Sorted(s)
    <3>1. \A i \in DOMAIN s : s[i] \in T
      BY <2>4
    <3> QED
      BY Zenon, <2>1, <2>4, <3>1 DEF Sorted
  <2> QED
    BY <2>4, <2>5 DEF s
<1>4. CASE cap = "Priority"
  <2> DEFINE T == Range(blocked) \cup S
  <2>1. IsFiniteSet(T) /\ T \in SUBSET UsageFromTask
    BY Zenon, <1>2, FS_Union
  <2>2. Push(cap, blocked, S) = SortedBy(ByPriority, T)
    BY Zenon, <1>4 DEF Push
  <2> HIDE DEF T
  <2>3. SortedBy(ByPriority, T) \in Seq(T) /\ Range(SortedBy(ByPriority, T)) = T
        /\ Sorted(SortedBy(ByPriority, T))
    BY Zenon, <1>3, <2>1 DEF T
  <2>4. SortedBy(ByPriority, T) \in Seq(UsageFromTask)
    BY <2>1, <2>3
  <2> QED
    BY Zenon, <2>2, <2>3, <2>4 DEF T, Pushed
<1>5. CASE cap = "Fifo"
  <2> DEFINE s == SortedBy(ByPriority, S)
             new == blocked \o s
             n == Len(blocked)
             k == Len(s)
  <2>1. Push(cap, blocked, S) = new
    BY <1>5 DEF Push
  <2>2. s \in Seq(S) /\ Range(s) = S /\ Sorted(s)
    BY Zenon, <1>3
  <2> HIDE DEF s
  <2>3. n \in Nat /\ k \in Nat /\ DOMAIN blocked = 1..n /\ DOMAIN s = 1..k
    BY <2>2
  <2>4. new \in Seq(UsageFromTask) /\ DOMAIN new = 1..(n + k)
    BY <2>2
  <2>5. /\ \A i \in 1..n : new[i] = blocked[i] /\ i \in 1..(n + k)
        /\ \A i \in 1..k : new[n + i] = s[i] /\ n + i \in 1..(n + k)
        /\ \A i \in 1..(n + k) : i \in 1..n \/ \E j \in 1..k : i = n + j
    <3>1. \A i \in 1..n : new[i] = blocked[i] /\ i \in 1..(n + k)
      BY <2>2, <2>3
    <3>2. \A i \in 1..k : new[n + i] = s[i] /\ n + i \in 1..(n + k)
      BY <2>2, <2>3
    <3>3. ASSUME NEW i \in 1..(n + k), i \notin 1..n
          PROVE  \E j \in 1..k : i = n + j
      <4> HIDE DEF n, k
      <4>1. i - n \in 1..k /\ i = n + (i - n)
        BY <2>3, <3>3
      <4> QED
        BY <4>1
    <3> QED
      BY <3>1, <3>2, <3>3
  <2> HIDE DEF new, n, k
  <2>6. Range(new) = Range(blocked) \cup S
    <3>1. Range(new) = {new[i] : i \in 1..(n + k)} /\ Range(blocked) = {blocked[i] : i \in 1..n}
          /\ S = {s[i] : i \in 1..k}
      BY Zenon, <2>2, <2>3, <2>4 DEF Range
    <3> QED
      BY <2>5, <3>1
  <2>7. ASSUME NEW i \in 1..(n + k), NEW j \in 1..(n + k), i < j
        PROVE  new[i].task < new[j].task
    <3>1. CASE i \in 1..n /\ j \in 1..n
      BY <2>3, <2>5, <2>7, <3>1 DEF Sorted
    <3>2. CASE i \in 1..n /\ j \notin 1..n
      <4>1. PICK v \in 1..k : j = n + v
        BY <2>5, <3>2
      <4>2. new[i] \in Range(blocked) /\ new[j] \in S
        BY Zenon, <2>2, <2>3, <2>5, <3>2, <4>1 DEF Range
      <4> QED
        BY <1>5, <4>2
    <3>3. CASE i \notin 1..n
      <4>1. j \notin 1..n
        BY <2>3, <2>7, <3>3
      <4>2. PICK u \in 1..k : i = n + u
        BY Zenon, <2>5, <3>3
      <4>3. PICK v \in 1..k : j = n + v
        BY <2>5, <4>1
      <4>4. u < v
        BY <2>3, <2>7, <4>2, <4>3
      <4>5. new[i] = s[u] /\ new[j] = s[v]
        BY <2>5, <4>2, <4>3
      <4>6. s[u].task < s[v].task
        BY <2>2, <2>3, <4>4 DEF Sorted
      <4> QED
        BY Zenon, <4>5, <4>6
    <3> QED
      BY <3>1, <3>2, <3>3
  <2> QED
    <3>1. Sorted(new)
      BY Zenon, <2>4, <2>7 DEF Sorted
    <3> QED
      BY Zenon, <2>1, <2>4, <2>6, <3>1 DEF Pushed
<1> QED
  BY <1>4, <1>5

-----------------------------------------------------------------------------
(* Locking *)

(***************************************************************************)
(* Task t, which does not use the address yet, is going to use it: other   *)
(* tasks use it as before and no runnable task becomes blocked.            *)
(***************************************************************************)
Enters(cap, q, U, use, counts, u, t, use2, counts2) ==
    /\ cap \in {"Fifo", "Priority"}
    /\ QueueInv(cap, q, U, use, counts)
    /\ U \subseteq Task
    /\ t \in Task \ U
    /\ u \in RequestedUsage
    /\ \A o \in U : use[o] \in RequestedUsage /\ use2[o] = use[o]
    /\ use2[t] = u
    /\ \A o \in U : counts[o] = 0 => counts2[o] = 0
    /\ cap = "Fifo" => \A o \in U : o < t

FromAll(usage, R) == {From(usage, o) : o \in R}

(***************************************************************************)
(* The usages reblocked tasks wait with: one for each task.                *)
(***************************************************************************)
LEMMA FromFinite ==
    ASSUME NEW usage \in RequestedUsage, NEW R \in SUBSET Task
    PROVE  /\ FromAll(usage, R) \in SUBSET UsageFromTask
           /\ IsFiniteSet(FromAll(usage, R))
           /\ \A e \in FromAll(usage, R) : e.task \in R /\ e.usage = usage
           /\ \A o \in R : \E e \in FromAll(usage, R) : e.task = o
           /\ \A e, f \in FromAll(usage, R) : e.task = f.task => e = f
<1> DEFINE f == [o \in R |-> From(usage, o)]
<1>1. IsFiniteSet(R)
  BY Zenon, IdsAssumption, FS_Subset
<1>2. f \in Surjection(R, FromAll(usage, R))
  BY Zenon DEF FromAll, Surjection
<1>3. IsFiniteSet(FromAll(usage, R))
  <2> HIDE DEF f
  <2> QED
    BY Zenon, <1>1, <1>2, FS_Surjection
<1>4. FromAll(usage, R) \in SUBSET UsageFromTask
  BY DEF FromAll, From, UsageFromTask
<1>5. \A e \in FromAll(usage, R) : \E o \in R : e = From(usage, o)
  BY Zenon DEF FromAll
<1>6. \A o \in R : /\ From(usage, o).task = o /\ From(usage, o).usage = usage
                  /\ From(usage, o) \in FromAll(usage, R)
  BY Zenon DEF From, FromAll
<1> QED
  BY <1>3, <1>4, <1>5, <1>6

(***************************************************************************)
(* The tasks that are reblocked hold the address, are not runnable, come   *)
(* after t and before all that wait already.                               *)
(***************************************************************************)
LEMMA ReblockedAre ==
    ASSUME NEW cap, NEW q, NEW U, NEW use, NEW counts, NEW u, NEW t, NEW use2, NEW counts2,
           Enters(cap, q, U, use, counts, u, t, use2, counts2)
    PROVE  LET R == Reblocked(cap, q, counts, u, t)
               H == HeldBy(Range(q.blocked), U)
           IN  /\ R \subseteq H /\ R \in SUBSET Task
               /\ \A o \in R : t < o /\ counts[o] # 0 /\ \A e \in Range(q.blocked) : o < e.task
               /\ cap = "Fifo" => R = {}
               /\ q.current.usage = "Readonly" /\ u = "Readonly" => R = {}
               /\ cap = "Priority" /\ ~(q.current.usage = "Readonly" /\ u = "Readonly") =>
                      \A o \in H : o \in R \/ o < t \/ counts[o] = 0
<1> DEFINE R == Reblocked(cap, q, counts, u, t)
           E == Range(q.blocked)
           H == HeldBy(E, U)
           c == q.current
<1>1. /\ cap \in {"Fifo", "Priority"} /\ U \subseteq Task /\ t \in Task \ U
      /\ u \in RequestedUsage /\ c \in Usage
      /\ Accounts(cap, c, E, U, use, counts)
  BY Zenon DEF Enters, QueueInv
<1>2. /\ c.tasks = (IF cap = "Priority" THEN H ELSE {})
      /\ \A e \in E, o \in H : o < e.task \/ counts[o] = 0
      /\ c.usage = "None" => U = {}
  BY <1>1, Zenon DEF Accounts
<1>3. H \subseteq U
  BY Zenon DEF HeldBy
<1>4. R = IF cap = "Priority" /\ (c.usage = "Writable" \/ u = "Writable")
          THEN {o \in c.tasks : t < o /\ counts[o] # 0} ELSE {}
  BY Zenon DEF Reblocked
<1>5. c.usage \in {"None", "Readonly", "Writable"}
  BY Zenon, <1>1 DEF Usage, RequestedUsage
<1>6. u \in {"Readonly", "Writable"}
  BY Zenon, <1>1 DEF RequestedUsage
<1>7. \A o \in H : o \in Nat /\ o # t /\ t \in Nat
  BY Zenon, <1>1, <1>3, IdsAssumption
<1> HIDE DEF R, E, H, c
<1>8. R \subseteq H
  BY Zenon, <1>2, <1>4
<1>9. \A o \in R : t < o /\ counts[o] # 0 /\ \A e \in E : o < e.task
  <2>1. \A o \in R : t < o /\ counts[o] # 0
    BY Zenon, <1>4
  <2> QED
    BY <1>2, <1>8, <2>1
<1>10. cap = "Fifo" => R = {}
  BY Zenon, <1>4
<1>11. c.usage = "Readonly" /\ u = "Readonly" => R = {}
  BY Zenon, <1>4
<1>12. ASSUME cap = "Priority", ~(c.usage = "Readonly" /\ u = "Readonly"), NEW o \in H
       PROVE  o \in R \/ o < t \/ counts[o] = 0
  <2>1. c.usage # "None"
    BY <1>2, <1>3, <1>12
  <2>2. R = {x \in H : t < x /\ counts[x] # 0}
    BY <1>2, <1>4, <1>5, <1>6, <1>12, <2>1
  <2> QED
    BY <1>7, <1>12, <2>2
<1>13. R \in SUBSET Task
  BY <1>1, <1>3, <1>8
<1> QED
  BY Zenon, <1>8, <1>9, <1>10, <1>11, <1>12, <1>13 DEF R, E, H, c

(***************************************************************************)
(* The queue after prepare_lock has reblocked tasks R.                     *)
(***************************************************************************)
LEMMA ReblockKeeps ==
    ASSUME NEW cap, NEW q, NEW U, NEW use, NEW counts, NEW u, NEW t, NEW use2, NEW counts2,
           Enters(cap, q, U, use, counts, u, t, use2, counts2)
    PROVE  LET R == Reblocked(cap, q, counts, u, t)
               H == HeldBy(Range(q.blocked), U)
               p == Reblock(cap, q, R)
           IN  /\ p \in [current : Usage, blocked : Seq(UsageFromTask)]
               /\ Sorted(p.blocked)
               /\ Range(p.blocked) = Range(q.blocked) \cup FromAll(q.current.usage, R)
               /\ R = {} => p = q
               /\ R # {} => /\ cap = "Priority" /\ q.current.usage \in RequestedUsage
                            /\ p.current = IF H \ R = {} THEN Unused
                                           ELSE [usage |-> q.current.usage,
                                                 count |-> 0, tasks |-> H \ R]
<1> DEFINE R == Reblocked(cap, q, counts, u, t)
           E == Range(q.blocked)
           H == HeldBy(E, U)
           c == q.current
           p == Reblock(cap, q, R)
           F == FromAll(c.usage, R)
<1>1. /\ cap \in {"Fifo", "Priority"} /\ U \subseteq Task
      /\ q \in [current : Usage, blocked : Seq(UsageFromTask)] /\ Sorted(q.blocked)
      /\ Accounts(cap, c, E, U, use, counts)
  BY Zenon DEF Enters, QueueInv
<1>2. /\ c.tasks = (IF cap = "Priority" THEN H ELSE {})
      /\ c.count = (IF cap = "Fifo" /\ c.usage = "Readonly" THEN Cardinality(H) ELSE 0)
      /\ c.usage = "None" => U = {}
      /\ \A e \in E : e.task \in U
  BY Zenon, <1>1 DEF Accounts
<1>3. R \subseteq H /\ R \in SUBSET Task /\ (cap = "Fifo" => R = {})
  BY Zenon, ReblockedAre
<1>4. p = IF R = {} THEN q
          ELSE [current |-> IF c.tasks \ R = {} THEN Unused ELSE [c EXCEPT !.tasks = c.tasks \ R],
                blocked |-> Push(cap, q.blocked, F)]
  BY Zenon DEF Reblock, FromAll
<1>5. H \subseteq U /\ \A e \in E, o \in H : e.task # o
  BY Zenon DEF HeldBy
<1>6. q.blocked \in Seq(UsageFromTask) /\ c \in Usage
  BY Zenon, <1>1
<1> HIDE DEF R, E, H, c, p, F
<1>7. CASE R = {}
  <2>1. p = q /\ F = {}
    BY <1>4, <1>7 DEF F, FromAll
  <2> QED
    BY <1>1, <1>7, <2>1 DEF R, E, H, c, p, F
<1>8. CASE R # {}
  <2>1. cap = "Priority" /\ c.tasks = H /\ c.count = 0 /\ U # {}
    BY <1>1, <1>2, <1>3, <1>5, <1>8
  <2>2. c.usage \in RequestedUsage
    BY <1>2, <1>6, <2>1 DEF Usage
  <2>3. /\ F \in SUBSET UsageFromTask /\ IsFiniteSet(F)
        /\ \A e \in F : e.task \in R
        /\ \A e, f \in F : e.task = f.task => e = f
    BY <1>3, <2>2, FromFinite DEF F
  <2>4. \A e, f \in E : e.task = f.task => e = f
    BY <1>1, <1>6, BlockedFirst DEF E
  <2>5. \A e, f \in E \cup F : e.task = f.task => e = f
    BY <1>3, <1>5, <2>3, <2>4
  <2> DEFINE b == Push(cap, q.blocked, F)
  <2>6. b \in Seq(UsageFromTask) /\ Sorted(b) /\ Range(b) = E \cup F
    <3>1. q.blocked \in Seq(UsageFromTask) /\ Sorted(q.blocked)
          /\ cap \in {"Fifo", "Priority"} /\ cap # "Fifo"
      BY <1>1, <1>6, <2>1
    <3>2. Pushed(b, E \cup F)
      BY Zenon, <2>3, <2>5, <3>1, PushKeepsSorted DEF E
    <3> QED
      BY Zenon, <3>2 DEF Pushed
  <2> HIDE DEF b
  <2> DEFINE d == IF H \ R = {} THEN Unused
                  ELSE [usage |-> c.usage, count |-> 0, tasks |-> H \ R]
  <2>7. p = [current |-> d, blocked |-> b]
    <3>1. [c EXCEPT !.tasks = H \ R] = [usage |-> c.usage, count |-> 0, tasks |-> H \ R]
      <4> DEFINE L == H \ R
      <4> HIDE DEF L
      <4>1. c \in [usage : RequestedUsage \cup {"None"}, count : Nat, tasks : SUBSET Task]
        BY Zenon, <1>6 DEF Usage
      <4>2. [c EXCEPT !.tasks = L] = [usage |-> c.usage, count |-> c.count, tasks |-> L]
        BY <4>1
      <4> QED
        BY <2>1, <4>2 DEF L
    <3> QED
      BY <1>4, <1>8, <2>1, <3>1 DEF b
  <2>8. d \in Usage
    <3>1. H \ R \in SUBSET Task
      BY <1>1, <1>5
    <3> QED
      BY Zenon, <2>2, <3>1 DEF Usage, Unused, RequestedUsage
  <2> HIDE DEF d
  <2>9. /\ p \in [current : Usage, blocked : Seq(UsageFromTask)]
        /\ p.current = d /\ p.blocked = b
    BY <2>6, <2>7, <2>8
  <2>10. p.current = IF H \ R = {} THEN Unused
                     ELSE [usage |-> c.usage, count |-> 0, tasks |-> H \ R]
    BY Zenon, <2>9 DEF d
  <2> QED
    BY <1>8, <2>1, <2>2, <2>6, <2>9, <2>10 DEF R, E, H, c, p, F
<1> QED
  BY Zenon, <1>7, <1>8

(***************************************************************************)
(* The usage of one task.                                                  *)
(***************************************************************************)
LEMMA UsageOfOne ==
    ASSUME NEW cap \in {"Fifo", "Priority"}, NEW u \in RequestedUsage, NEW t \in Task
    PROVE  UsageOf(cap, <<From(u, t)>>) =
               [usage |-> u,
                count |-> IF cap = "Fifo" /\ u = "Readonly" THEN 1 ELSE 0,
                tasks |-> IF cap = "Priority" THEN {t} ELSE {}]
<1> DEFINE run == <<From(u, t)>>
<1>1. run # <<>> /\ Head(run) = From(u, t) /\ Len(run) = 1 /\ DOMAIN run = {1} /\ run[1] = From(u, t)
  OBVIOUS
<1>2. From(u, t).usage = u /\ From(u, t).task = t
  BY Zenon DEF From
<1> HIDE DEF run
<1>3. {run[i].task : i \in DOMAIN run} = {t}
  BY Zenon, <1>1, <1>2
<1> QED
  BY <1>1, <1>2, <1>3 DEF UsageOf, run

(***************************************************************************)
(* One round of the loop of try_lock_usage_queues keeps the invariant of   *)
(* the queue.  A task that locks the address precedes all that wait.       *)
(***************************************************************************)
LEMMA LockKeeps ==
    ASSUME NEW cap, NEW q, NEW U, NEW use, NEW counts, NEW u, NEW t, NEW use2, NEW counts2,
           Enters(cap, q, U, use, counts, u, t, use2, counts2)
    PROVE  LET new == lock(cap, q, counts, u, t)
           IN  /\ QueueInv(cap, new, U \cup {t}, use2, counts2)
               /\ Waiting(new) = Waiting(q) \cup Reblocked(cap, q, counts, u, t)
                                 \cup (IF Locks(cap, q, counts, u, t) THEN {} ELSE {t})
               /\ Locks(cap, q, counts, u, t) => \A b \in Waiting(new) : t < b
<1> DEFINE R == Reblocked(cap, q, counts, u, t)
           E == Range(q.blocked)
           H == HeldBy(E, U)
           c == q.current
           p == Reblock(cap, q, R)
           E2 == Range(p.blocked)
           H2 == H \ R
           U2 == U \cup {t}
           F == FromAll(c.usage, R)
           new == lock(cap, q, counts, u, t)
           locks == Locks(cap, q, counts, u, t)
           me == From(u, t)
(* What is known of the queue before *)
<1>1. /\ cap \in {"Fifo", "Priority"} /\ U \subseteq Task /\ t \in Task \ U
      /\ u \in RequestedUsage
      /\ q.blocked \in Seq(UsageFromTask) /\ Sorted(q.blocked) /\ c \in Usage
      /\ Accounts(cap, c, E, U, use, counts)
  BY Zenon DEF Enters, QueueInv
<1>2. /\ \A o \in U : use[o] \in RequestedUsage /\ use2[o] = use[o]
      /\ use2[t] = u
      /\ \A o \in U : counts[o] = 0 => counts2[o] = 0
      /\ cap = "Fifo" => \A o \in U : o < t
  BY Zenon DEF Enters
<1>3. /\ \A e \in E : e.task \in U /\ e.usage = use[e.task]
      /\ \A o \in H : use[o] = c.usage
      /\ c.usage = "None" => U = {}
      /\ c.usage = "Readonly" => H # {}
      /\ c.usage = "Writable" => \E o \in H : H = {o}
      /\ c.count = (IF cap = "Fifo" /\ c.usage = "Readonly" THEN Cardinality(H) ELSE 0)
      /\ c.tasks = (IF cap = "Priority" THEN H ELSE {})
      /\ c.usage = "Readonly" =>
             \A e \in E : (\A f \in E : e.task <= f.task) => e.usage = "Writable"
      /\ \A e \in E, o \in H : o < e.task \/ counts[o] = 0
  BY Zenon, <1>1 DEF Accounts
<1>4. /\ R \subseteq H /\ R \in SUBSET Task
      /\ \A o \in R : t < o /\ counts[o] # 0 /\ \A e \in E : o < e.task
      /\ cap = "Fifo" => R = {}
      /\ c.usage = "Readonly" /\ u = "Readonly" => R = {}
      /\ cap = "Priority" /\ ~(c.usage = "Readonly" /\ u = "Readonly") =>
             \A o \in H : o \in R \/ o < t \/ counts[o] = 0
  BY ReblockedAre
<1>5. /\ p \in [current : Usage, blocked : Seq(UsageFromTask)]
      /\ Sorted(p.blocked)
      /\ E2 = E \cup F
      /\ R = {} => p = q
      /\ R # {} => /\ cap = "Priority" /\ c.usage \in RequestedUsage
                   /\ p.current = IF H \ R = {} THEN Unused
                                  ELSE [usage |-> c.usage, count |-> 0, tasks |-> H \ R]
  BY Zenon, ReblockKeeps
<1>6. H \subseteq U /\ H = {o \in U : \A e \in E : e.task # o}
  BY Zenon DEF HeldBy
<1>7. /\ E = {} <=> q.blocked = <<>>
      /\ E # {} => Head(q.blocked) \in E /\ \A e \in E : Head(q.blocked).task <= e.task
  BY <1>1, BlockedFirst
<1>8. /\ F = {} <=> R = {}
      /\ \A e \in F : e.task \in R /\ e.usage = c.usage
      /\ \A o \in R : \E e \in F : e.task = o
  <2>1. CASE R = {}
    BY <2>1 DEF FromAll
  <2>2. CASE R # {}
    <3>1. /\ \A e \in F : e.task \in R /\ e.usage = c.usage
          /\ \A o \in R : \E e \in F : e.task = o
      BY <1>4, <1>5, <2>2, FromFinite
    <3> HIDE DEF F, R
    <3> QED
      BY <2>2, <3>1
  <2> QED
    BY <2>1, <2>2
<1>9. Waiting(q) = {e.task : e \in E} /\ Waiting(new) = {e.task : e \in Range(new.blocked)}
  BY Zenon DEF Waiting
<1>10. me \in UsageFromTask /\ me.task = t /\ me.usage = u
  BY <1>1 DEF From, UsageFromTask
<1>11. /\ locks <=> MayEnter(cap, q, u, t) /\ CanShare(p, u)
       /\ new = IF locks THEN try_lock(cap, p, u, t)
                ELSE [p EXCEPT !.blocked = Push(cap, p.blocked, {me})]
  BY Zenon DEF Locks, lock
<1>12. /\ MayEnter(cap, q, u, t) <=>
             \/ q.blocked = <<>>
             \/ cap = "Priority" /\ (c.usage = "Readonly" /\ u = "Readonly" => t < Head(q.blocked).task)
       /\ CanShare(p, u) <=> p.current.usage = "None" \/ (p.current.usage = "Readonly" /\ u = "Readonly")
  BY Zenon DEF MayEnter, CanShare
<1>13. u \in {"Readonly", "Writable"} /\ c.usage \in {"None", "Readonly", "Writable"}
  BY <1>1 DEF Usage, RequestedUsage
<1>14. \A o \in U : o \in Nat /\ o # t /\ t \in Nat
  BY <1>1, IdsAssumption
<1>15. t \in Nat
  BY <1>1, IdsAssumption
<1>16. t \in Task /\ t \notin U /\ U2 = U \cup {t}
  BY <1>1
<1>17. HeldBy(E2, U2) = {o \in U2 : \A e \in E2 : e.task # o}
       /\ HeldBy(E2 \cup {me}, U2) = {o \in U2 : \A e \in E2 \cup {me} : e.task # o}
  BY Zenon DEF HeldBy
<1>18. IsFiniteSet(U) /\ IsFiniteSet(H)
  BY Zenon, <1>1, <1>6, IdsAssumption, FS_Subset
<1> HIDE DEF R, E, H, c, p, E2, H2, U2, F, new, locks, me
(* The set of blocked tasks, with those reblocked *)
<1>19. \A e \in E2 : e.task \in U /\ e.usage = use[e.task]
  BY <1>3, <1>4, <1>5, <1>6, <1>8
<1>20. HeldBy(E2, U2) = H2 \cup {t} /\ HeldBy(E2 \cup {me}, U2) = H2
  <2>1. \A o \in U : (\A e \in E2 : e.task # o) <=> o \in H2
    BY <1>4, <1>5, <1>6, <1>8 DEF H2
  <2>2. \A e \in E2 : e.task # t
    BY <1>16, <1>19
  <2>3. H2 \subseteq U
    BY <1>6 DEF H2
  <2>4. HeldBy(E2, U2) = H2 \cup {t}
    BY Zenon, <1>16, <1>17, <2>1, <2>2, <2>3
  <2>5. HeldBy(E2 \cup {me}, U2) = H2
    <3>1. \A o \in U2 : (\A e \in E2 \cup {me} : e.task # o) <=> (o # t /\ \A e \in E2 : e.task # o)
      BY <1>10
    <3>2. \A o \in U2 : (o # t /\ \A e \in E2 : e.task # o) <=> o \in H2
      BY <1>16, <2>1, <2>3
    <3> QED
      BY Zenon, <1>16, <1>17, <2>3, <3>1, <3>2
  <2> QED
    BY <2>4, <2>5
<1>21. R # {} => \A e \in E2 : t < e.task
  <2> SUFFICES ASSUME R # {}, NEW e \in E2 PROVE t < e.task
    BY Zenon
  <2>1. CASE e \in F
    BY <1>4, <1>8, <2>1
  <2>2. CASE e \in E
    <3>1. PICK o \in R : TRUE
      BY Zenon
    <3>2. t < o /\ o < e.task
      BY <1>4, <2>2
    <3>3. o \in Nat /\ e.task \in Nat
      BY <1>3, <1>4, <1>6, <1>14, <2>2
    <3> QED
      BY <1>15, <3>2, <3>3
  <2> QED
    BY <1>5, <2>1, <2>2
<1>22. ASSUME NEW e \in E2, R # {}, \A f \in E2 : e.task <= f.task
       PROVE  e.usage = c.usage
  <2>1. PICK f \in F : TRUE
    BY <1>8, <1>22
  <2>2. f.task \in R /\ f \in E2 /\ e.task <= f.task
    BY <1>5, <1>8, <1>22
  <2>3. e \notin E
    <3>1. e.task \in Nat /\ f.task \in Nat
      BY <1>14, <1>19, <1>22, <2>2
    <3>2. e \in E => f.task < e.task
      BY <1>4, <2>2
    <3> QED
      BY <2>2, <3>1, <3>2
  <2> QED
    BY <1>5, <1>8, <1>22, <2>3
<1>23. {e.task : e \in E2} = Waiting(q) \cup R
  BY <1>5, <1>8, <1>9
<1>24. H2 \subseteq H /\ H2 \subseteq U /\ (R = {} => H2 = H)
  BY Zenon, <1>6 DEF H2
(* The task locks the address *)
<1>25. CASE locks
  <2> DEFINE d == [usage |-> u,
                   count |-> p.current.count + (IF cap = "Fifo" /\ u = "Readonly" THEN 1 ELSE 0),
                   tasks |-> p.current.tasks \cup (IF cap = "Priority" THEN {t} ELSE {})]
             H3 == H2 \cup {t}
  <2>1. new = [p EXCEPT !.current = d]
    <3>1. new = try_lock(cap, p, u, t)
      BY <1>11, <1>25
    <3>2. UsageOf(cap, <<From(u, t)>>) =
               [usage |-> u,
                count |-> IF cap = "Fifo" /\ u = "Readonly" THEN 1 ELSE 0,
                tasks |-> IF cap = "Priority" THEN {t} ELSE {}]
      BY <1>1, UsageOfOne
    <3> DEFINE one == UsageOf(cap, <<From(u, t)>>)
    <3>3. new = [p EXCEPT !.current = [usage |-> u,
                                       count |-> p.current.count + one.count,
                                       tasks |-> p.current.tasks \cup one.tasks]]
      BY <3>1, Zenon DEF try_lock
    <3>4. /\ one.count = (IF cap = "Fifo" /\ u = "Readonly" THEN 1 ELSE 0)
          /\ one.tasks = (IF cap = "Priority" THEN {t} ELSE {})
      BY <3>2
    <3> HIDE DEF one
    <3> QED
      BY <3>3, <3>4, Zenon
  <2>2. p.current \in Usage /\ p.blocked \in Seq(UsageFromTask)
    BY <1>5
  <2>3. p.current.count \in Nat /\ p.current.tasks \in SUBSET Task
    BY <2>2 DEF Usage
  <2>4. d \in Usage
    BY <1>1, <2>3 DEF Usage
  <2>5. /\ d.usage = u
        /\ d.count = p.current.count + (IF cap = "Fifo" /\ u = "Readonly" THEN 1 ELSE 0)
        /\ d.tasks = p.current.tasks \cup (IF cap = "Priority" THEN {t} ELSE {})
    BY Zenon
  <2> HIDE DEF d
  <2>6. /\ new \in [current : Usage, blocked : Seq(UsageFromTask)]
        /\ new.current = d /\ new.blocked = p.blocked
    BY <1>5, <2>1, <2>4
  <2>7. \A e \in E2 : e.task \in U2 /\ e.usage = use2[e.task]
    BY <1>2, <1>16, <1>19
  <2>8. \/ p.current.usage = "None"
        \/ p.current.usage = "Readonly" /\ u = "Readonly"
    BY <1>11, <1>12, <1>25
  <2>9. CASE p.current.usage = "None"
    <3>1. H2 = {} /\ p.current.count = 0 /\ p.current.tasks = {} /\ (R = {} => E2 = {})
      <4>1. CASE R = {}
        <5>1. c.usage = "None" /\ p.current = c
          BY <1>5, <2>9, <4>1 DEF c
        <5>2. U = {} /\ H = {} /\ E = {} /\ F = {}
          BY <1>3, <1>6, <1>8, <4>1, <5>1
        <5> QED
          BY <1>3, <1>5, <1>24, <4>1, <5>1, <5>2
      <4>2. CASE R # {}
        <5>1. H \ R = {} /\ p.current = Unused
          BY <1>5, <2>9, <4>2 DEF RequestedUsage
        <5> QED
          BY <4>2, <5>1 DEF H2, Unused
      <4> QED
        BY <4>1, <4>2
    <3>2. HeldBy(E2, U2) = {t}
      BY Zenon, <1>20, <3>1
    <3>3. d.count = (IF cap = "Fifo" /\ u = "Readonly" THEN Cardinality({t}) ELSE 0)
      <4>1. Cardinality({t}) = 1
        BY FS_Singleton
      <4>2. d.count = IF cap = "Fifo" /\ u = "Readonly" THEN 1 ELSE 0
        BY <2>5, <3>1
      <4> QED
        BY <4>1, <4>2
    <3>4. d.tasks = IF cap = "Priority" THEN {t} ELSE {}
      BY <2>5, <3>1
    <3>5. \A e \in E2 : t < e.task
      BY <1>21, <3>1
    <3>6. ASSUME u = "Readonly", NEW e \in E2, \A f \in E2 : e.task <= f.task
          PROVE  e.usage = "Writable"
      <4>1. R # {}
        BY <3>1, <3>6
      <4>2. c.usage = "Writable"
        BY <1>4, <1>5, <3>6, <4>1 DEF RequestedUsage
      <4> QED
        BY <1>22, <3>6, <4>1, <4>2
    <3>7. Accounts(cap, d, E2, U2, use2, counts2)
      BY <1>2, <1>13, <2>5, <2>7, <3>2, <3>3, <3>4, <3>5, <3>6 DEF Accounts
    <3> QED
      BY Zenon, <1>5, <1>9, <1>23, <1>25, <2>6, <3>5, <3>7
         DEF QueueInv, E2, R, U2, new, locks
  <2>10. CASE p.current.usage = "Readonly" /\ u = "Readonly"
    <3>1. R = {} /\ p = q /\ c.usage = "Readonly"
      <4>1. R # {} => c.usage = "Readonly"
        BY <1>5, <2>10 DEF Unused
      <4>2. R = {}
        BY Zenon, <1>4, <2>10, <4>1
      <4> QED
        BY <1>5, <2>10, <4>2 DEF c
    <3>2. E2 = E /\ H2 = H /\ p.current = c
      BY <1>5, <1>8, <1>24, <3>1 DEF c
    <3>3. \A e \in E : t < e.task
      <4> SUFFICES ASSUME NEW e \in E PROVE t < e.task
        BY Zenon
      <4>1. t < Head(q.blocked).task /\ Head(q.blocked).task <= e.task /\ Head(q.blocked) \in E
        BY <1>7, <1>11, <1>12, <1>25, <2>10, <3>1
      <4>2. Head(q.blocked).task \in Nat /\ e.task \in Nat
        BY <1>3, <1>14, <4>1
      <4> QED
        BY <1>15, <4>1, <4>2
    <3>4. HeldBy(E2, U2) = H3 /\ t \notin H
      BY <1>6, <1>16, <1>20, <3>2
    <3>5. Cardinality(H3) = Cardinality(H) + 1
      BY <1>18, <3>2, <3>4, FS_AddElement
    <3>6. d.count = (IF cap = "Fifo" /\ u = "Readonly" THEN Cardinality(H3) ELSE 0)
      BY <1>3, <2>3, <2>5, <2>10, <3>1, <3>2, <3>5
    <3>7. d.tasks = IF cap = "Priority" THEN H3 ELSE {}
      BY <1>3, <2>5, <3>2
    <3>8. \A e \in E2, o \in H3 : o < e.task \/ counts2[o] = 0
      BY <1>2, <1>3, <1>6, <3>2, <3>3
    <3>9. \A o \in H3 : use2[o] = u
      BY <1>2, <1>3, <1>6, <2>10, <3>1, <3>2
    <3>10. \A e \in E2 : (\A f \in E2 : e.task <= f.task) => e.usage = "Writable"
      BY <1>3, <3>1, <3>2
    <3>11. H3 # {}
      BY Zenon
    <3> HIDE DEF H3
    <3>12. Accounts(cap, d, E2, U2, use2, counts2)
      BY <2>5, <2>7, <2>10, <3>4, <3>6, <3>7, <3>8, <3>9, <3>10, <3>11 DEF Accounts
    <3> QED
      BY Zenon, <1>5, <1>9, <1>23, <1>25, <2>6, <3>2, <3>3, <3>12
         DEF QueueInv, E2, R, U2, new, locks
  <2> QED
    BY <2>8, <2>9, <2>10
(* The task waits *)
<1>26. CASE ~locks
  <2> DEFINE d == p.current
             b == Push(cap, p.blocked, {me})
             E3 == E2 \cup {me}
  <2>1. new = [p EXCEPT !.blocked = b]
    BY <1>11, <1>26
  <2>2. /\ p.blocked \in Seq(UsageFromTask) /\ {me} \in SUBSET UsageFromTask
        /\ IsFiniteSet({me})
    BY Zenon, <1>5, <1>10, FS_Singleton
  <2>3. \A e, f \in E2 : e.task = f.task => e = f
    BY <1>5, <2>2, BlockedFirst DEF E2
  <2>4. \A e, f \in E2 \cup {me} : e.task = f.task => e = f
    BY <1>10, <1>16, <1>19, <2>3
  <2>5. cap = "Fifo" => \A e \in E2, f \in {me} : e.task < f.task
    BY <1>2, <1>10, <1>19
  <2>6. b \in Seq(UsageFromTask) /\ Sorted(b) /\ Range(b) = E3
    <3>1. Sorted(p.blocked) /\ cap \in {"Fifo", "Priority"}
      BY <1>1, <1>5
    <3>2. Pushed(b, E3)
      BY Zenon, <2>2, <2>4, <2>5, <3>1, PushKeepsSorted DEF E2
    <3> QED
      BY Zenon, <3>2 DEF Pushed
  <2> HIDE DEF b
  <2>7. /\ new \in [current : Usage, blocked : Seq(UsageFromTask)]
        /\ new.current = d /\ new.blocked = b
    BY <1>5, <2>1, <2>6
  <2>8. {e.task : e \in E3} = {e.task : e \in E2} \cup {t}
    BY Zenon, <1>10
  <2>9. \A e \in E3 : e.task \in U2 /\ e.usage = use2[e.task]
    BY <1>2, <1>10, <1>16, <1>19
  <2>10. HeldBy(E3, U2) = H2
    BY <1>20
  <2>11. /\ c.usage # "None" /\ d.usage = c.usage /\ H2 # {}
         /\ d.count = (IF cap = "Fifo" /\ c.usage = "Readonly" THEN Cardinality(H2) ELSE 0)
         /\ d.tasks = IF cap = "Priority" THEN H2 ELSE {}
    <3>1. CASE R = {}
      <4>1. p = q /\ d = c /\ H2 = H
        BY <1>5, <1>24, <3>1 DEF c
      <4>2. c.usage # "None"
        <5>1. ASSUME c.usage = "None" PROVE FALSE
          <6>1. E = {}
            BY <1>3, <5>1
          <6> QED
            BY <1>7, <1>11, <1>12, <1>26, <4>1, <5>1, <6>1
        <5> QED
          BY Zenon, <5>1
      <4>3. H # {}
        BY <1>3, <1>13, <4>2
      <4> QED
        BY <1>3, <4>1, <4>2, <4>3
    <3>2. CASE R # {}
      <4>1. cap = "Priority" /\ c.usage \in RequestedUsage /\ ~(c.usage = "Readonly" /\ u = "Readonly")
        BY <1>4, <1>5, <3>2
      <4>2. H2 # {}
        <5>1. ASSUME H2 = {} PROVE FALSE
          <6>1. p.current.usage = "None"
            BY <1>5, <3>2, <5>1 DEF H2, Unused
          <6> QED
            BY <1>11, <1>12, <1>26, <4>1, <6>1
        <5> QED
          BY <5>1
      <4>3. d = [usage |-> c.usage, count |-> 0, tasks |-> H2]
        BY <1>5, <3>2, <4>2 DEF H2
      <4>4. d.usage = c.usage /\ d.count = 0 /\ d.tasks = H2
        BY <4>3
      <4> QED
        BY <4>1, <4>2, <4>4 DEF RequestedUsage
    <3> QED
      BY <3>1, <3>2
  <2> HIDE DEF d
  <2>12. c.usage = "Readonly" /\ u = "Readonly" =>
            /\ R = {} /\ E2 = E /\ E # {}
            /\ cap = "Priority" => Head(q.blocked) \in E /\ Head(q.blocked).task < t
    <3> SUFFICES ASSUME c.usage = "Readonly", u = "Readonly"
                 PROVE  /\ R = {} /\ E2 = E /\ E # {}
                        /\ cap = "Priority" => Head(q.blocked) \in E /\ Head(q.blocked).task < t
      BY Zenon
    <3>1. R = {} /\ E2 = E
      BY <1>4, <1>5, <1>8
    <3>2. ~MayEnter(cap, q, u, t)
      BY <1>11, <1>12, <1>26, <2>11 DEF d
    <3>3. E # {} /\ (cap = "Priority" => ~(t < Head(q.blocked).task))
      BY <1>7, <1>12, <3>2
    <3>4. Head(q.blocked) \in E /\ Head(q.blocked).task \in Nat /\ Head(q.blocked).task # t
      BY <1>3, <1>7, <1>14, <3>3
    <3> QED
      BY <1>15, <3>1, <3>3, <3>4
  <2>13. ASSUME NEW e \in E3, NEW o \in H2
         PROVE  o < e.task \/ counts2[o] = 0
    <3>1. o \in H /\ o \in U /\ o \in Nat /\ o \notin R
      BY Zenon, <1>14, <1>24 DEF H2
    <3>2. CASE e \in E
      BY <1>2, <1>3, <3>1, <3>2
    <3>3. CASE e \in F
      <4>1. R # {} /\ e.task \in R /\ t < e.task /\ e.task \in Nat
        BY <1>4, <1>6, <1>8, <1>14, <3>3
      <4>2. o < t \/ counts[o] = 0
        BY <1>4, <1>5, <3>1, <4>1
      <4> QED
        BY <1>2, <1>15, <3>1, <4>1, <4>2
    <3>4. CASE e = me
      <4>1. CASE cap = "Fifo"
        BY <1>2, <1>10, <3>1, <3>4, <4>1
      <4>2. CASE cap = "Priority" /\ ~(c.usage = "Readonly" /\ u = "Readonly")
        BY <1>2, <1>4, <1>10, <3>1, <3>4, <4>2
      <4>3. CASE cap = "Priority" /\ c.usage = "Readonly" /\ u = "Readonly"
        <5>1. Head(q.blocked) \in E /\ Head(q.blocked).task < t /\ Head(q.blocked).task \in Nat
          BY <1>3, <1>14, <2>12, <4>3
        <5>2. o < Head(q.blocked).task \/ counts[o] = 0
          BY <1>3, <3>1, <5>1
        <5> QED
          BY <1>2, <1>10, <1>15, <3>1, <3>4, <5>1, <5>2
      <4> QED
        BY <1>1, <4>1, <4>2, <4>3
    <3> QED
      BY <1>5, <3>2, <3>3, <3>4
  <2>14. ASSUME c.usage = "Readonly", NEW e \in E3, \A f \in E3 : e.task <= f.task
         PROVE  e.usage = "Writable"
    <3>1. \A f \in E3 : f.task \in Nat
      BY <1>10, <1>14, <1>15, <1>19
    <3>2. CASE e = me
      <4>1. ASSUME u = "Readonly" PROVE FALSE
        <5>1. PICK f \in E : f.task < t
          <6>1. CASE cap = "Fifo"
            BY <1>2, <1>3, <2>12, <2>14, <4>1, <6>1
          <6>2. CASE cap = "Priority"
            BY <2>12, <2>14, <4>1, <6>2
          <6> QED
            BY <1>1, <6>1, <6>2
        <5>2. f \in E3 /\ e.task <= f.task /\ f.task \in Nat
          BY <1>5, <2>14, <3>1, <5>1
        <5> QED
          BY <1>10, <1>15, <3>2, <5>1, <5>2
      <4> QED
        BY <1>10, <1>13, <3>2, <4>1
    <3>3. CASE e \in E2 /\ R = {}
      <4>1. e \in E /\ E \subseteq E3
        BY <1>5, <1>8, <3>3
      <4> QED
        BY <1>3, <2>14, <4>1
    <3>4. CASE e \in E2 /\ R # {}
      <4>1. t < e.task /\ e.task <= t
        BY <1>10, <1>21, <2>14, <3>4
      <4> QED
        BY <1>15, <3>1, <4>1
    <3> QED
      BY <3>2, <3>3, <3>4
  <2>15. ASSUME c.usage = "Writable" PROVE \E o \in H2 : H2 = {o}
    BY <1>3, <1>24, <2>11, <2>15
  <2>16. \A o \in H2 : use2[o] = c.usage
    BY <1>2, <1>3, <1>24
  <2> HIDE DEF E3
  <2>17. Accounts(cap, d, E3, U2, use2, counts2)
    BY <2>9, <2>10, <2>11, <2>13, <2>14, <2>15, <2>16 DEF Accounts
  <2> QED
    BY Zenon, <1>9, <1>23, <1>26, <2>6, <2>7, <2>8, <2>17
       DEF QueueInv, R, U2, new, locks
<1> QED
  BY Zenon, <1>25, <1>26

-----------------------------------------------------------------------------
(* Unlocking *)

(***************************************************************************)
(* Task t, which holds the address, leaves it.                             *)
(***************************************************************************)
Leaves(cap, q, U, use, counts, t, use2, counts2) ==
    /\ cap \in {"Fifo", "Priority"}
    /\ QueueInv(cap, q, U, use, counts)
    /\ U \subseteq Task
    /\ t \in HeldBy(Range(q.blocked), U)
    /\ \A o \in U : use[o] \in RequestedUsage
    /\ \A o \in U \ {t} : use2[o] = use[o]
    /\ \A o \in U \ {t} : counts[o] = 0 => counts2[o] = 0

(***************************************************************************)
(* The tasks that lock an unused queue: a writer, or the readers ahead of  *)
(* the first writer.                                                       *)
(***************************************************************************)
LEMMA RunIsPrefix ==
    ASSUME NEW q, q.blocked \in Seq(UsageFromTask), q.blocked # <<>>
    PROVE  \E n \in 1..Len(q.blocked) :
              /\ LockableRun(q) = SubSeq(q.blocked, 1, n)
              /\ \/ n = 1 /\ q.blocked[1].usage = "Writable"
                 \/ /\ \A i \in 1..n : q.blocked[i].usage = "Readonly"
                    /\ n < Len(q.blocked) => q.blocked[n + 1].usage = "Writable"
<1> DEFINE s == q.blocked
           k == Len(s)
           W == {i \in DOMAIN s : s[i].usage = "Writable"}
           readers == IF W = {} THEN k ELSE Min(W) - 1
<1>1. s \in Seq(UsageFromTask) /\ s # <<>>
  BY Zenon
<1>2. k \in Nat \ {0} /\ DOMAIN s = 1..k
  BY <1>1
<1>3. \A i \in 1..k : s[i].usage = "Readonly" \/ s[i].usage = "Writable"
  <2>1. \A i \in 1..k : s[i] \in UsageFromTask
    BY <1>1, <1>2
  <2> HIDE DEF s, k
  <2> QED
    BY Zenon, <2>1 DEF UsageFromTask, RequestedUsage
<1>4. LockableRun(q) = SubSeq(s, 1, IF readers = 0 THEN 1 ELSE readers)
  BY <1>1, Zenon DEF LockableRun
<1>5. W = {i \in 1..k : s[i].usage = "Writable"}
  BY Zenon, <1>2
<1> HIDE DEF s, k
<1>6. CASE W = {}
  <2>1. readers = k /\ k \in 1..k /\ readers # 0
    BY <1>2, <1>6
  <2>2. \A i \in 1..k : s[i].usage = "Readonly"
    BY <1>3, <1>5, <1>6
  <2>3. LockableRun(q) = SubSeq(s, 1, k)
    BY Zenon, <1>4, <2>1
  <2> HIDE DEF W, readers
  <2> QED
    BY <1>2, <2>1, <2>2, <2>3 DEF s, k
<1>7. CASE W # {}
  <2>1. PICK m \in W : \A y \in W : m <= y
    <3>1. W \in SUBSET Nat
      BY <1>2, <1>5
    <3> HIDE DEF W
    <3> QED
      BY <1>7, <3>1, LeastNumber
  <2> DEFINE w == Min(W)
  <2>2. w \in W /\ \A y \in W : w <= y
    BY <2>1, Zenon DEF Min
  <2>3. readers = w - 1
    BY Zenon, <1>7
  <2> HIDE DEF w, readers
  <2>4. w \in 1..k /\ s[w].usage = "Writable"
    BY <1>5, <2>2
  <2>5. ASSUME NEW i \in 1..k, i < w PROVE s[i].usage = "Readonly"
    <3>1. i \notin W
      BY <1>2, <2>2, <2>4, <2>5
    <3> QED
      BY <1>3, <1>5, <3>1
  <2> HIDE DEF W
  <2>6. CASE w = 1
    BY <1>2, <1>4, <2>3, <2>4, <2>6 DEF s, k
  <2>7. CASE w # 1
    <3>1. w - 1 \in 1..k /\ readers # 0 /\ w - 1 + 1 = w
      BY <1>2, <2>3, <2>4, <2>7
    <3>2. LockableRun(q) = SubSeq(s, 1, w - 1)
      BY <1>4, <2>3, <3>1
    <3>3. \A i \in 1..(w - 1) : s[i].usage = "Readonly"
      BY <1>2, <2>4, <2>5
    <3> QED
      BY <2>4, <3>1, <3>2, <3>3 DEF s, k
  <2> QED
    BY <2>6, <2>7
<1> QED
  BY Zenon, <1>6, <1>7

TasksOf(run) == {e.task : e \in Range(run)}

(***************************************************************************)
(* Unlocking keeps the invariant of the queue.  The tasks that are granted *)
(* the address waited for it, and precede those that still wait.           *)
(***************************************************************************)
LEMMA UnlockKeeps ==
    ASSUME NEW cap, NEW q, NEW U, NEW use, NEW counts, NEW t, NEW use2, NEW counts2,
           Leaves(cap, q, U, use, counts, t, use2, counts2)
    PROVE  LET new == unlock(cap, q, t)
               run == Granted(cap, q, t)
               G == TasksOf(run)
           IN  /\ QueueInv(cap, new, U \ {t}, use2, counts2)
               /\ run \in Seq(UsageFromTask)
               /\ G \subseteq Waiting(q)
               /\ \A b : b \in Waiting(new) <=> b \in Waiting(q) /\ b \notin G
               /\ \A g \in G, b \in Waiting(new) : g < b
<1> DEFINE E == Range(q.blocked)
           H == HeldBy(E, U)
           c == q.current
           new == unlock(cap, q, t)
           run == Granted(cap, q, t)
           left == Leave(cap, c, t)
           s == q.blocked
           k == Len(s)
           U2 == U \ {t}
           H2 == H \ {t}
<1>1. /\ cap \in {"Fifo", "Priority"} /\ U \subseteq Task /\ t \in H
      /\ q \in [current : Usage, blocked : Seq(UsageFromTask)]
      /\ s \in Seq(UsageFromTask) /\ Sorted(s) /\ c \in Usage
      /\ Accounts(cap, c, E, U, use, counts)
  BY Zenon DEF Leaves, QueueInv
<1>2. /\ \A o \in U : use[o] \in RequestedUsage
      /\ \A o \in U2 : use2[o] = use[o]
      /\ \A o \in U2 : counts[o] = 0 => counts2[o] = 0
  BY Zenon DEF Leaves
<1>3. /\ \A e \in E : e.task \in U /\ e.usage = use[e.task]
      /\ \A o \in H : use[o] = c.usage
      /\ c.usage = "None" => U = {}
      /\ c.usage = "Readonly" => H # {}
      /\ c.usage = "Writable" => \E o \in H : H = {o}
      /\ c.count = (IF cap = "Fifo" /\ c.usage = "Readonly" THEN Cardinality(H) ELSE 0)
      /\ c.tasks = (IF cap = "Priority" THEN H ELSE {})
      /\ c.usage = "Readonly" =>
             \A e \in E : (\A f \in E : e.task <= f.task) => e.usage = "Writable"
      /\ \A e \in E, o \in H : o < e.task \/ counts[o] = 0
  BY Zenon, <1>1 DEF Accounts
<1>4. H \subseteq U /\ H = {o \in U : \A e \in E : e.task # o}
  BY Zenon DEF HeldBy
<1>5. run = (IF left = Unused THEN LockableRun(q) ELSE <<>>)
      /\ new = [current |-> IF run = <<>> THEN left ELSE UsageOf(cap, run),
                blocked |-> SubSeq(s, Len(run) + 1, k)]
  BY Zenon DEF Granted, unlock
<1>6. Waiting(q) = {e.task : e \in E} /\ Waiting(new) = {e.task : e \in Range(new.blocked)}
  BY Zenon DEF Waiting
<1>7. /\ (s = <<>>) <=> (E = {})
      /\ \A e, f \in E : e.task = f.task => e = f
      /\ E \subseteq UsageFromTask
  BY <1>1, BlockedFirst
<1>8. k \in Nat /\ DOMAIN s = 1..k /\ E = {s[i] : i \in 1..k}
  BY <1>1 DEF Range
<1>9. c.usage \in {"None", "Readonly", "Writable"} /\ c.usage # "None"
  BY Zenon, <1>1, <1>3, <1>4 DEF Usage, RequestedUsage
<1>10. IsFiniteSet(H) /\ IsFiniteSet(H2) /\ Cardinality(H2) = Cardinality(H) - 1
       /\ Cardinality(H2) \in Nat /\ Cardinality(H) \in Nat /\ (Cardinality(H2) = 0 <=> H2 = {})
  <2>1. IsFiniteSet(H)
    BY Zenon, <1>1, <1>4, IdsAssumption, FS_Subset
  <2>2. IsFiniteSet(H2) /\ Cardinality(H2) = Cardinality(H) - 1
    BY <1>1, <2>1, FS_RemoveElement
  <2> HIDE DEF H, H2
  <2> QED
    BY <2>1, <2>2, FS_CardinalityType, FS_EmptySet
<1>11. \A o \in U : o \in Nat
  BY Zenon, <1>1, IdsAssumption
<1> HIDE DEF E, H, c, new, run, left, s, k, U2, H2
(* The current usage without t *)
<1>12. left = IF c.usage = "Readonly" /\ H2 # {}
              THEN [usage |-> "Readonly",
                    count |-> IF cap = "Fifo" THEN Cardinality(H2) ELSE 0,
                    tasks |-> IF cap = "Priority" THEN H2 ELSE {}]
              ELSE Unused
  <2> DEFINE n == IF cap = "Fifo" /\ c.usage = "Readonly" THEN c.count - 1 ELSE c.count
             l == [usage |-> c.usage, count |-> n, tasks |-> c.tasks \ {t}]
  <2>1. left = IF c.usage = "Readonly" /\ (l.count > 0 \/ l.tasks # {}) THEN l ELSE Unused
    <3>1. [c EXCEPT !.count = n, !.tasks = c.tasks \ {t}] = l
      <4> DEFINE T == c.tasks \ {t}
      <4> HIDE DEF n, T
      <4>1. c \in [usage : RequestedUsage \cup {"None"}, count : Nat, tasks : SUBSET Task]
        BY <1>1 DEF Usage
      <4>2. [c EXCEPT !.count = n, !.tasks = T] = [usage |-> c.usage, count |-> n, tasks |-> T]
        <5>1. [c EXCEPT !.count = n] = [usage |-> c.usage, count |-> n, tasks |-> c.tasks]
          BY <4>1
        <5> DEFINE d == [usage |-> c.usage, count |-> n, tasks |-> c.tasks]
        <5>2. [d EXCEPT !.tasks = T] = [usage |-> c.usage, count |-> n, tasks |-> T]
          OBVIOUS
        <5> QED
          BY <5>1, <5>2, Zenon
      <4> QED
        BY <4>2, Zenon DEF T
    <3>2. left = LET x == [c EXCEPT !.count = n, !.tasks = c.tasks \ {t}]
                 IN  IF c.usage = "Readonly" /\ (x.count > 0 \/ x.tasks # {}) THEN x ELSE Unused
      BY Zenon DEF left, Leave
    <3> HIDE DEF l, n
    <3> QED
      BY <3>1, <3>2, Zenon
  <2>2. l.usage = c.usage /\ l.count = n /\ l.tasks = c.tasks \ {t}
    BY Zenon
  <2>3. c.tasks \ {t} = IF cap = "Priority" THEN H2 ELSE {}
    BY Zenon, <1>3 DEF H2
  <2>4. c.usage = "Readonly" => n = IF cap = "Fifo" THEN Cardinality(H2) ELSE 0
    BY <1>3, <1>10
  <2>5. c.usage = "Readonly" => ((l.count > 0 \/ l.tasks # {}) <=> H2 # {})
    BY <1>1, <1>10, <2>2, <2>3, <2>4
  <2> QED
    BY <2>1, <2>3, <2>4, <2>5
<1>13. U2 = H2 \cup {e.task : e \in E} /\ \A e \in E : e.task \notin H2
  BY <1>1, <1>3, <1>4 DEF U2, H2
<1>14. \A e \in E : e.task \in U2 /\ e.usage = use2[e.task]
  BY <1>2, <1>3, <1>13
(* Readers stay *)
<1>15. CASE c.usage = "Readonly" /\ H2 # {}
  <2>1. /\ left.usage = "Readonly"
        /\ left.count = (IF cap = "Fifo" THEN Cardinality(H2) ELSE 0)
        /\ left.tasks = (IF cap = "Priority" THEN H2 ELSE {})
        /\ left \in Usage /\ left # Unused
    <3>1. H2 \in SUBSET Task
      BY Zenon, <1>1, <1>4 DEF H2
    <3>2. left = [usage |-> "Readonly",
                  count |-> IF cap = "Fifo" THEN Cardinality(H2) ELSE 0,
                  tasks |-> IF cap = "Priority" THEN H2 ELSE {}]
      BY Zenon, <1>12, <1>15
    <3>3. left.usage = "Readonly"
      BY Zenon, <3>2
    <3>4. left # Unused
      BY <3>3 DEF Unused
    <3> QED
      BY <1>10, <3>1, <3>2, <3>4 DEF Usage, RequestedUsage
  <2>2. run = <<>> /\ Len(run) = 0
    BY Zenon, <1>5, <2>1
  <2>3. SubSeq(s, Len(run) + 1, k) = s
    BY <1>1, <1>8, <2>2 DEF k
  <2>4. new = [current |-> left, blocked |-> s]
    BY Zenon, <1>5, <2>2, <2>3
  <2>5. new.current = left /\ new.blocked = s
        /\ new \in [current : Usage, blocked : Seq(UsageFromTask)]
    BY <1>1, <2>1, <2>4
  <2>6. Range(new.blocked) = E /\ {e.task : e \in Range(run)} = {}
    BY <2>2, <2>5 DEF E, s, Range
  <2>7. HeldBy(E, U2) = H2
    BY Zenon, <1>13 DEF HeldBy
  <2>8. \A o \in H2 : use2[o] = "Readonly"
    BY <1>2, <1>3, <1>13, <1>15 DEF H2
  <2>9. \A e \in E, o \in H2 : o < e.task \/ counts2[o] = 0
    BY <1>2, <1>3, <1>13 DEF H2
  <2>10. Accounts(cap, left, E, U2, use2, counts2)
    BY <1>3, <1>14, <1>15, <2>1, <2>7, <2>8, <2>9 DEF Accounts
  <2>11. run \in Seq(UsageFromTask)
    BY <2>2
  <2> QED
    BY Zenon, <1>1, <1>6, <2>5, <2>6, <2>10, <2>11 DEF QueueInv, U2, new, run, TasksOf
(* Nobody holds the address *)
<1>16. CASE ~(c.usage = "Readonly" /\ H2 # {})
  <2>1. H2 = {} /\ left = Unused
    <3>1. c.usage = "Writable" => H2 = {}
      BY <1>1, <1>3 DEF H2
    <3> QED
      BY <1>9, <1>12, <1>16, <3>1
  <2>2. run = LockableRun(q) /\ U2 = {e.task : e \in E}
    BY <1>5, <1>13, <2>1
  <2>3. CASE s = <<>>
    <3>1. run = <<>>
      <4>1. q.blocked = <<>> /\ Len(q.blocked) = 0 /\ DOMAIN q.blocked = {}
        BY <2>3 DEF s
      <4>2. SubSeq(q.blocked, 1, 0) = <<>>
        BY <4>1
      <4> QED
        BY Zenon, <2>2, <4>1, <4>2 DEF LockableRun
    <3>2. E = {} /\ U2 = {}
      BY <1>7, <2>2, <2>3
    <3>3. SubSeq(s, Len(run) + 1, k) = <<>>
      BY <2>3, <3>1 DEF k
    <3>4. new = [current |-> Unused, blocked |-> <<>>]
      BY Zenon, <1>5, <2>1, <3>1, <3>3
    <3>5. Unused \in Usage /\ Unused.usage = "None" /\ Unused.count = 0 /\ Unused.tasks = {}
      BY Zenon DEF Unused, Usage
    <3>6. /\ new.current = Unused /\ new.blocked = <<>>
          /\ new \in [current : Usage, blocked : Seq(UsageFromTask)]
      BY <3>4, <3>5
    <3>7. Range(new.blocked) = {} /\ Range(run) = {} /\ run \in Seq(UsageFromTask) /\ Sorted(new.blocked)
      BY <3>1, <3>6 DEF Range, Sorted
    <3>8. HeldBy({}, U2) = {}
      BY Zenon, <3>2 DEF HeldBy
    <3>9. Accounts(cap, Unused, {}, U2, use2, counts2)
      BY <3>2, <3>5, <3>8 DEF Accounts
    <3> QED
      BY Zenon, <1>6, <3>2, <3>6, <3>7, <3>9 DEF QueueInv, U2, new, run, TasksOf
  <2>4. CASE s # <<>>
    <3>1. PICK n \in 1..k :
            /\ run = SubSeq(s, 1, n)
            /\ \/ n = 1 /\ s[1].usage = "Writable"
               \/ /\ \A i \in 1..n : s[i].usage = "Readonly"
                  /\ n < k => s[n + 1].usage = "Writable"
      <4>1. q.blocked \in Seq(UsageFromTask) /\ q.blocked # <<>>
        BY Zenon, <1>1, <2>4 DEF s
      <4> QED
        BY Zenon, <2>2, <4>1, RunIsPrefix DEF s, k
    <3>2. n \in Nat /\ 1 <= n /\ n <= k /\ k \in Nat
      BY <1>8, <3>1
    <3>3. /\ run \in Seq(UsageFromTask) /\ Len(run) = n /\ DOMAIN run = 1..n /\ run # <<>>
          /\ \A i \in 1..n : run[i] = s[i] /\ i \in 1..k
      BY <1>1, <1>8, <3>1, <3>2 DEF k
    <3> DEFINE b == SubSeq(s, n + 1, k)
    <3>4. /\ b \in Seq(UsageFromTask) /\ DOMAIN b = 1..(k - n)
          /\ \A i \in 1..(k - n) : b[i] = s[n + i] /\ n + i \in (n + 1)..k
      BY <1>1, <1>8, <3>2 DEF k
    <3>5. new = [current |-> UsageOf(cap, run), blocked |-> b]
      BY Zenon, <1>5, <3>3
    <3> DEFINE d == UsageOf(cap, run)
               E2 == {s[i] : i \in (n + 1)..k}
               G == {s[i].task : i \in 1..n}
    <3>6. Range(b) = E2 /\ Range(run) = {s[i] : i \in 1..n} /\ {e.task : e \in Range(run)} = G
      <4>1. Range(b) = {b[i] : i \in 1..(k - n)} /\ Range(run) = {run[i] : i \in 1..n}
        BY Zenon, <3>3, <3>4 DEF Range
      <4>2. \A j \in (n + 1)..k : j - n \in 1..(k - n) /\ n + (j - n) = j
        BY <3>2
      <4> HIDE DEF b
      <4>3. Range(b) = E2
        BY <3>4, <4>1, <4>2
      <4>4. Range(run) = {s[i] : i \in 1..n}
        BY Zenon, <3>3, <4>1
      <4> QED
        BY <4>3, <4>4
    <3> HIDE DEF b
    <3>7. \A i, j \in 1..k : i < j => s[i].task < s[j].task
      BY <1>1, <1>8 DEF Sorted
    <3>8. \A i \in 1..k : s[i] \in E /\ s[i].task \in Nat /\ s[i].task \in U2
                          /\ s[i].usage = use2[s[i].task]
      BY <1>3, <1>8, <1>11, <1>14
    <3>9. \A i, j \in 1..k : s[i].task = s[j].task => i = j
      <4>1. ASSUME NEW i \in 1..k, NEW j \in 1..k, s[i].task = s[j].task
            PROVE  i = j
        <5>1. i \in Nat /\ j \in Nat /\ s[i].task \in Nat
          BY <3>2, <3>8
        <5>2. ~(i < j) /\ ~(j < i)
          BY <3>7, <4>1, <5>1
        <5> QED
          BY <5>1, <5>2
      <4> QED
        BY Zenon, <4>1
    <3>10. /\ d.usage = s[1].usage
           /\ d.count = (IF cap = "Fifo" /\ s[1].usage = "Readonly" THEN n ELSE 0)
           /\ d.tasks = (IF cap = "Priority" THEN G ELSE {})
           /\ d = [usage |-> s[1].usage, count |-> d.count, tasks |-> d.tasks]
      <4>1. Head(run) = s[1]
        BY <3>2, <3>3
      <4>2. {run[i].task : i \in DOMAIN run} = G
        BY Zenon, <3>3
      <4>3. d = [usage |-> s[1].usage,
                 count |-> IF cap = "Fifo" /\ s[1].usage = "Readonly" THEN n ELSE 0,
                 tasks |-> IF cap = "Priority" THEN G ELSE {}]
        BY Zenon, <3>3, <4>1, <4>2 DEF UsageOf
      <4> HIDE DEF d, G
      <4> QED
        BY Zenon, <4>3
    <3>11. Cardinality(G) = n
      <4> DEFINE f == [i \in 1..n |-> s[i].task]
      <4>1. f \in Surjection(1..n, G)
        BY Zenon DEF Surjection
      <4>2. f \in Injection(1..n, G)
        <5>1. \A i \in 1..n : i \in 1..k
          BY <3>2
        <5> QED
          BY Zenon, <3>9, <5>1 DEF Injection, IsInjective
      <4>3. IsFiniteSet(1..n) /\ Cardinality(1..n) = n
        BY <3>2, FS_Interval
      <4> HIDE DEF f, G
      <4> QED
        BY <4>1, <4>2, <4>3, FS_Surjection
    <3>12. G # {} /\ G \in SUBSET Task /\ \A i \in 1..n : i \in 1..k
      BY <1>1, <3>2, <3>8 DEF U2
    <3>13. d \in Usage
      <4>1. s[1].usage \in RequestedUsage
        <5>1. s[1] \in UsageFromTask
          BY <1>1, <1>8, <3>2
        <5> QED
          BY Zenon, <5>1 DEF UsageFromTask
      <4> HIDE DEF d, G
      <4> QED
        BY <3>2, <3>10, <3>12, <4>1 DEF Usage
    <3> HIDE DEF d
    <3>14. /\ new.current = d /\ new.blocked = b
           /\ new \in [current : Usage, blocked : Seq(UsageFromTask)]
      BY <3>4, <3>5, <3>13 DEF d, b
    <3>15. Sorted(b)
      <4>1. ASSUME NEW i \in 1..(k - n), NEW j \in 1..(k - n), i < j
            PROVE  b[i].task < b[j].task
        <5>1. n + i \in 1..k /\ n + j \in 1..k /\ n + i < n + j
          BY <3>2, <4>1
        <5> QED
          BY <3>4, <3>7, <5>1
      <4> QED
        BY <3>4, <4>1 DEF Sorted
    <3>16. \A g \in G, e \in E2 : g < e.task /\ g # e.task
      <4>1. ASSUME NEW i \in 1..n, NEW j \in (n + 1)..k
            PROVE  s[i].task < s[j].task /\ s[i].task # s[j].task
        <5>1. i \in 1..k /\ j \in 1..k /\ i < j
          BY <3>2
        <5> QED
          BY <3>7, <3>8, <5>1
      <4> QED
        BY Zenon, <4>1
    <3>17. E = Range(run) \cup E2 /\ E2 \subseteq E
      <4>1. \A i \in 1..k : i \in 1..n \/ i \in (n + 1)..k
        BY <3>2
      <4>2. \A i \in (n + 1)..k : i \in 1..k
        BY <3>2
      <4> QED
        BY <1>8, <3>6, <3>12, <4>1, <4>2
    <3>18. {e.task : e \in E} = G \cup {e.task : e \in E2}
      BY Zenon, <3>6, <3>17
    <3>19. \A j \in (n + 1)..k : (\A f \in E2 : s[j].task <= f.task) => j = n + 1
      <4> SUFFICES ASSUME NEW j \in (n + 1)..k, \A f \in E2 : s[j].task <= f.task
                   PROVE  j = n + 1
        BY Zenon
      <4>1. n + 1 \in (n + 1)..k /\ n + 1 \in 1..k /\ j \in 1..k /\ (j = n + 1 \/ n + 1 < j)
        BY <3>2
      <4>2. s[j].task <= s[n + 1].task
        BY Zenon, <4>1
      <4>3. s[j].task \in Nat /\ s[n + 1].task \in Nat /\ (n + 1 < j => s[n + 1].task < s[j].task)
        BY <3>7, <3>8, <4>1
      <4> QED
        BY <4>1, <4>2, <4>3
    <3>20. HeldBy(E2, U2) = G
      <4>1. HeldBy(E2, U2) = {o \in U2 : \A e \in E2 : e.task # o}
        BY Zenon DEF HeldBy
      <4>2. \A o \in U2 : o \in G \/ \E e \in E2 : o = e.task
        BY Zenon, <2>2, <3>18
      <4>3. G \subseteq U2
        BY Zenon, <2>2, <3>18
      <4> HIDE DEF E2, G
      <4>4. \A o \in U2 : (\A e \in E2 : e.task # o) <=> o \in G
        BY Zenon, <3>16, <4>2
      <4> QED
        BY <4>1, <4>3, <4>4
    <3>21. \A e \in E2 : e.task \in U2 /\ e.usage = use2[e.task]
      BY Zenon, <1>14, <3>17
    <3>22. ASSUME NEW g \in G PROVE use2[g] = d.usage
      <4>1. PICK i \in 1..n : g = s[i].task
        BY Zenon
      <4>2. i \in 1..k /\ 1 \in 1..n /\ use2[g] = s[i].usage
        BY <3>2, <3>8, <4>1
      <4>3. s[i].usage = s[1].usage
        BY <3>1, <4>1, <4>2
      <4> QED
        BY <3>10, <4>2, <4>3
    <3>23. d.usage = "Writable" => \E o \in G : G = {o}
      <4> SUFFICES ASSUME d.usage = "Writable" PROVE \E o \in G : G = {o}
        BY Zenon
      <4>1. 1 \in 1..n
        BY <3>2
      <4>2. n = 1
        BY <3>1, <3>10, <4>1
      <4>3. \A i \in 1..n : i = 1
        BY <4>2
      <4>4. G = {s[1].task}
        BY Zenon, <4>1, <4>3
      <4> QED
        BY Zenon, <4>4
    <3>24. d.usage = "Readonly" =>
               \A e \in E2 : (\A f \in E2 : e.task <= f.task) => e.usage = "Writable"
      <4> SUFFICES ASSUME d.usage = "Readonly", NEW e \in E2, \A f \in E2 : e.task <= f.task
                   PROVE  e.usage = "Writable"
        BY Zenon
      <4>1. PICK j \in (n + 1)..k : e = s[j]
        BY Zenon
      <4>2. j = n + 1 /\ n < k
        BY <3>2, <3>19, <4>1
      <4>3. s[n + 1].usage = "Writable"
        BY Zenon, <3>1, <3>10, <4>2
      <4> QED
        BY <4>1, <4>2, <4>3
    <3>25. d.usage # "None"
      <4>1. s[1].usage = "Writable" \/ s[1].usage = "Readonly"
        BY <3>1, <3>2
      <4> QED
        BY Zenon, <3>10, <4>1
    <3> HIDE DEF E2, G
    <3>26. Accounts(cap, d, E2, U2, use2, counts2)
      BY Zenon, <3>10, <3>11, <3>12, <3>16, <3>20, <3>21, <3>22, <3>23, <3>24, <3>25 DEF Accounts
    <3>27. QueueInv(cap, new, U2, use2, counts2)
      BY <3>6, <3>14, <3>15, <3>26 DEF QueueInv
    <3>28. Waiting(new) = {e.task : e \in E2}
      BY <1>6, <3>6, <3>14
    <3>29. Waiting(new) = Waiting(q) \ G /\ G \subseteq Waiting(q)
      BY <1>6, <3>16, <3>18, <3>28
    <3>30. \A g \in G, x \in Waiting(new) : g < x
      BY <3>16, <3>28
    <3> QED
      BY Zenon, <3>3, <3>6, <3>27, <3>29, <3>30 DEF U2, new, run, TasksOf
  <2> QED
    BY <2>3, <2>4
<1> QED
  BY <1>15, <1>16

-----------------------------------------------------------------------------
(* The machine *)

(***************************************************************************)
(* The types of the fields of a machine.                                   *)
(***************************************************************************)
LEMMA MachineType ==
    ASSUME NEW m \in Machine
    PROVE  /\ m.capability \in {"Fifo", "Priority"}
           /\ m.max_running \in Nat /\ m.max_unique \in Nat \cup {NoLimit}
           /\ m.queues \in [Address -> [current : Usage, blocked : Seq(UsageFromTask)]]
           /\ m.blocked_usage_count \in [Task -> Nat]
           /\ m.unblocked_task_queue \in Seq(Task)
           /\ m.hashes \in SUBSET {Hash(t) : t \in Task}
           /\ m.active_task_count \in Nat /\ m.running_task_count \in Nat
  BY Zenon DEF Machine

(***************************************************************************)
(* The parts of the machine that an operation does not assign.             *)
(***************************************************************************)
SameRest(m, n) ==
    /\ n.capability = m.capability
    /\ n.max_running = m.max_running
    /\ n.max_unique = m.max_unique

SameQueues(m, n) ==
    /\ n.queues = m.queues
    /\ n.blocked_usage_count = m.blocked_usage_count

SameCounters(m, n) ==
    /\ n.hashes = m.hashes
    /\ n.active_task_count = m.active_task_count
    /\ n.running_task_count = m.running_task_count

(***************************************************************************)
(* The conditions on queues and counts are about those alone.              *)
(***************************************************************************)
LEMMA QueuesAlone ==
    ASSUME NEW m, NEW n \in Machine, NEW cx, NEW A,
           MachineOK(m, cx, A), SameRest(m, n), SameQueues(m, n)
    PROVE  MachineOK(n, cx, A)
  BY Zenon DEF MachineOK, SameRest, SameQueues, WaitsIn

(***************************************************************************)
(* What the conditions on a machine say of one address.                    *)
(***************************************************************************)
LEMMA UsersAre ==
    ASSUME NEW m, NEW cx, NEW A, MachineOK(m, cx, A), NEW a \in Address
    PROVE  /\ m.capability \in {"Fifo", "Priority"}
           /\ QueueInv(m.capability, m.queues[a], UsersOf(A, cx, a), UseAt(cx, a),
                       m.blocked_usage_count)
           /\ UsersOf(A, cx, a) \subseteq A /\ UsersOf(A, cx, a) \subseteq Task
           /\ \A o \in UsersOf(A, cx, a) : UseAt(cx, a)[o] \in RequestedUsage
           /\ \A o \in Task : UseAt(cx, a)[o] = cx[o][a] /\ cx[o][a] \in RequestedUsage \cup {"None"}
           /\ Waiting(m.queues[a]) \subseteq UsersOf(A, cx, a)
<1>1. /\ m \in Machine /\ A \in SUBSET Task /\ cx \in [Task -> LockContexts]
      /\ QueueInv(m.capability, m.queues[a], UsersOf(A, cx, a), UseAt(cx, a), m.blocked_usage_count)
  BY Zenon DEF MachineOK
<1>2. \A o \in Task : UseAt(cx, a)[o] = cx[o][a] /\ cx[o][a] \in RequestedUsage \cup {"None"}
  BY Zenon, <1>1 DEF UseAt, LockContexts
<1>3. UsersOf(A, cx, a) \subseteq A /\ \A o \in UsersOf(A, cx, a) : cx[o][a] # "None"
  BY Zenon DEF UsersOf
<1>4. Waiting(m.queues[a]) \subseteq UsersOf(A, cx, a)
  <2>1. \A e \in Range(m.queues[a].blocked) : e.task \in UsersOf(A, cx, a)
    BY <1>1, Zenon DEF QueueInv, Accounts
  <2> QED
    BY Zenon, <2>1 DEF Waiting
<1> QED
  BY Zenon, <1>1, <1>2, <1>3, <1>4, MachineType

(***************************************************************************)
(* A task waits for finitely many addresses.                               *)
(***************************************************************************)
LEMMA WaitsFinite ==
    ASSUME NEW m, NEW o
    PROVE  IsFiniteSet(WaitsIn(m, o)) /\ WaitsIn(m, o) \subseteq Address
           /\ Cardinality(WaitsIn(m, o)) \in Nat
           /\ (Cardinality(WaitsIn(m, o)) = 0 <=> WaitsIn(m, o) = {})
<1>1. WaitsIn(m, o) \in SUBSET Address
  BY Zenon DEF WaitsIn
<1>2. IsFiniteSet(WaitsIn(m, o))
  BY <1>1, AddressAssumption, FS_Subset
<1> QED
  BY <1>1, <1>2, FS_CardinalityType, FS_EmptySet

(***************************************************************************)
(* A queue that is not touched, when no runnable task becomes blocked.     *)
(***************************************************************************)
LEMMA CountsKept ==
    ASSUME NEW cap, NEW q, NEW U, NEW use, NEW counts, NEW use2, NEW counts2,
           QueueInv(cap, q, U, use, counts),
           \A o \in U : use2[o] = use[o],
           \A o \in U : counts[o] = 0 => counts2[o] = 0
    PROVE  QueueInv(cap, q, U, use2, counts2)
<1>1. HeldBy(Range(q.blocked), U) \subseteq U
  BY Zenon DEF HeldBy
<1>2. Accounts(cap, q.current, Range(q.blocked), U, use, counts)
  BY Zenon DEF QueueInv
<1>3. Accounts(cap, q.current, Range(q.blocked), U, use2, counts2)
  BY Zenon, <1>1, <1>2 DEF Accounts
<1> QED
  BY <1>3 DEF QueueInv

(***************************************************************************)
(* try_lock_usage_queues, for a task that is not active yet.               *)
(***************************************************************************)
LEMMA LockMachine ==
    ASSUME NEW m, NEW cx, NEW A, MachineOK(m, cx, A),
           NEW t \in Task \ A, NEW cs \in LockContexts,
           m.capability = "Fifo" => \A o \in A : o < t
    PROVE  LET n == try_lock_usage_queues(m, t, cs)
           IN  /\ MachineOK(n, [cx EXCEPT ![t] = cs], A \cup {t})
               /\ SameRest(m, n) /\ SameCounters(m, n)
               /\ n.unblocked_task_queue = m.unblocked_task_queue
               /\ \A o \in A : n.blocked_usage_count[o] = 0 <=> m.blocked_usage_count[o] = 0
               /\ n.blocked_usage_count[t] = 0 =>
                      \A a \in Locked(cs) : \A b \in Waiting(n.queues[a]) : t < b
<1> DEFINE cap == m.capability
           counts == m.blocked_usage_count
           mine == Locked(cs)
           R(a) == Reblocked(cap, m.queues[a], counts, cs[a], t)
           locks(a) == Locks(cap, m.queues[a], counts, cs[a], t)
           lost(o) == {a \in mine : o \in R(a)}
           waits == {a \in mine : ~locks(a)}
           Q == [a \in Address |-> IF a \in mine THEN lock(cap, m.queues[a], counts, cs[a], t)
                                   ELSE m.queues[a]]
           K == [o \in Task |-> IF o = t THEN Cardinality(waits)
                                ELSE counts[o] + Cardinality(lost(o))]
           n == try_lock_usage_queues(m, t, cs)
           cx2 == [cx EXCEPT ![t] = cs]
           A2 == A \cup {t}
           U(a) == UsersOf(A, cx, a)
           U2(a) == UsersOf(A2, cx2, a)
<1>1. /\ m \in Machine /\ A \in SUBSET Task /\ cx \in [Task -> LockContexts]
      /\ \A o \in Task : counts[o] = Cardinality(WaitsIn(m, o))
  BY Zenon DEF MachineOK
<1>2. n = [m EXCEPT !.queues = Q, !.blocked_usage_count = K]
  BY Zenon DEF try_lock_usage_queues
<1>3. mine \subseteq Address /\ \A a \in Address : a \in mine <=> cs[a] # "None"
  BY Zenon DEF Locked
<1>4. \A a \in mine : cs[a] \in RequestedUsage
  BY Zenon, <1>3 DEF LockContexts
<1>5. counts \in [Task -> Nat] /\ m.queues \in [Address -> [current : Usage, blocked : Seq(UsageFromTask)]]
  BY <1>1, MachineType
<1>6. \A o : IsFiniteSet(lost(o)) /\ Cardinality(lost(o)) \in Nat /\ (Cardinality(lost(o)) = 0 <=> lost(o) = {})
  <2> SUFFICES ASSUME NEW o PROVE IsFiniteSet(lost(o)) /\ Cardinality(lost(o)) \in Nat
                                  /\ (Cardinality(lost(o)) = 0 <=> lost(o) = {})
    BY Zenon
  <2>1. lost(o) \in SUBSET Address
    BY <1>3
  <2> HIDE DEF lost
  <2>2. IsFiniteSet(lost(o))
    BY <2>1, AddressAssumption, FS_Subset
  <2> QED
    BY <2>2, FS_CardinalityType, FS_EmptySet
<1>7. IsFiniteSet(waits) /\ Cardinality(waits) \in Nat /\ (Cardinality(waits) = 0 <=> waits = {})
  <2>1. waits \in SUBSET Address
    BY <1>3
  <2> HIDE DEF waits
  <2>2. IsFiniteSet(waits)
    BY <2>1, AddressAssumption, FS_Subset
  <2> QED
    BY <2>2, FS_CardinalityType, FS_EmptySet
<1>8. /\ \A a \in Address : Q[a] = IF a \in mine THEN lock(cap, m.queues[a], counts, cs[a], t)
                                   ELSE m.queues[a]
      /\ DOMAIN Q = Address /\ Q = [a \in Address |-> Q[a]]
  BY Zenon
<1>9. K[t] = Cardinality(waits) /\ \A o \in Task \ {t} : K[o] = counts[o] + Cardinality(lost(o))
  BY Zenon
<1>10. K \in [Task -> Nat]
  <2> HIDE DEF waits, lost
  <2> QED
    BY <1>5, <1>6, <1>7
<1>11. \A a \in mine : a \in waits <=> ~locks(a)
  OBVIOUS
<1>12. \A a \in mine : \A o : a \in lost(o) <=> o \in R(a)
  BY Zenon
<1>13. \A o : lost(o) \subseteq mine
  BY Zenon
<1>14. waits \subseteq mine
  BY Zenon
<1>15. /\ cx2 \in [Task -> LockContexts] /\ cx2[t] = cs
       /\ \A o \in Task \ {t} : cx2[o] = cx[o]
  BY <1>1
<1>16. A2 \in SUBSET Task /\ t \in Task /\ t \notin A
  BY <1>1
<1> HIDE DEF lost, waits, R, locks, Q, K, n, mine, cx2
<1>17. ASSUME NEW a \in Address
       PROVE  /\ a \in mine => U2(a) = U(a) \cup {t}
              /\ a \notin mine => U2(a) = U(a)
              /\ t \notin U(a)
              /\ UseAt(cx2, a)[t] = cs[a]
              /\ \A o \in U(a) : UseAt(cx2, a)[o] = UseAt(cx, a)[o]
  <2>1. U(a) = {o \in A : cx[o][a] # "None"} /\ U2(a) = {o \in A2 : cx2[o][a] # "None"}
    BY Zenon DEF UsersOf
  <2>2. \A o \in Task : UseAt(cx2, a)[o] = cx2[o][a] /\ UseAt(cx, a)[o] = cx[o][a]
    BY Zenon DEF UseAt
  <2>3. \A o \in A : cx2[o] = cx[o]
    BY <1>1, <1>15, <1>16
  <2> HIDE DEF U, U2
  <2> QED
    BY <1>3, <1>15, <1>16, <2>1, <2>2, <2>3
<1>18. \A a \in Address : \A o \in R(a) : counts[o] # 0
  BY Zenon DEF R, Reblocked
<1>19. ASSUME NEW o \in Task \ {t}
       PROVE  K[o] \in Nat /\ (K[o] = 0 <=> counts[o] = 0)
  <2>1. counts[o] = 0 => lost(o) = {}
    BY <1>3, <1>12, <1>13, <1>18
  <2>2. counts[o] \in Nat /\ Cardinality(lost(o)) \in Nat /\ K[o] = counts[o] + Cardinality(lost(o))
    BY <1>5, <1>6, <1>9
  <2> QED
    BY <1>6, <2>1, <2>2
<1>20. ASSUME NEW a \in mine
       PROVE  Enters(cap, m.queues[a], U(a), UseAt(cx, a), counts, cs[a], t, UseAt(cx2, a), K)
  <2>1. a \in Address /\ cs[a] \in RequestedUsage
    BY <1>3, <1>4
  <2>2. /\ cap \in {"Fifo", "Priority"}
        /\ QueueInv(cap, m.queues[a], U(a), UseAt(cx, a), counts)
        /\ U(a) \subseteq A /\ U(a) \subseteq Task
        /\ \A o \in U(a) : UseAt(cx, a)[o] \in RequestedUsage
    BY <2>1, UsersAre
  <2>3. \A o \in U(a) : o \in Task \ {t}
    BY <1>16, <2>2
  <2>4. \A o \in U(a) : counts[o] = 0 => K[o] = 0
    BY <1>19, <2>3
  <2>5. t \notin U(a) /\ UseAt(cx2, a)[t] = cs[a]
        /\ \A o \in U(a) : UseAt(cx2, a)[o] = UseAt(cx, a)[o]
    BY <1>17, <2>1
  <2>6. cap = "Fifo" => \A o \in U(a) : o < t
    BY Zenon, <2>2
  <2> HIDE DEF U, cap, counts
  <2> QED
    BY <2>1, <2>2, <2>4, <2>5, <2>6 DEF Enters
<1>21. ASSUME NEW a \in mine
       PROVE  /\ QueueInv(cap, Q[a], U2(a), UseAt(cx2, a), K)
              /\ Waiting(Q[a]) = Waiting(m.queues[a]) \cup R(a) \cup (IF locks(a) THEN {} ELSE {t})
              /\ locks(a) => \A b \in Waiting(Q[a]) : t < b
              /\ R(a) \subseteq U(a) /\ R(a) \cap Waiting(m.queues[a]) = {}
  <2>1. a \in Address /\ Q[a] = lock(cap, m.queues[a], counts, cs[a], t) /\ U2(a) = U(a) \cup {t}
    BY Zenon, <1>3, <1>8, <1>17
  <2>2. R(a) \subseteq HeldBy(Range(m.queues[a].blocked), U(a))
    BY <1>20, ReblockedAre, Zenon DEF R
  <2>3. /\ QueueInv(cap, lock(cap, m.queues[a], counts, cs[a], t), U(a) \cup {t}, UseAt(cx2, a), K)
        /\ Waiting(lock(cap, m.queues[a], counts, cs[a], t)) =
               Waiting(m.queues[a]) \cup R(a) \cup (IF locks(a) THEN {} ELSE {t})
        /\ locks(a) => \A b \in Waiting(lock(cap, m.queues[a], counts, cs[a], t)) : t < b
    BY <1>20, LockKeeps, Zenon DEF R, locks
  <2>4. HeldBy(Range(m.queues[a].blocked), U(a)) = U(a) \ Waiting(m.queues[a])
    BY Zenon DEF HeldBy, Waiting
  <2> HIDE DEF U, U2, cap, counts
  <2> QED
    BY Zenon, <2>1, <2>2, <2>3, <2>4
<1>22. ASSUME NEW a \in Address \ mine
       PROVE  QueueInv(cap, Q[a], U2(a), UseAt(cx2, a), K) /\ Q[a] = m.queues[a]
  <2>1. Q[a] = m.queues[a] /\ U2(a) = U(a) /\ \A o \in U(a) : UseAt(cx2, a)[o] = UseAt(cx, a)[o]
    BY Zenon, <1>8, <1>17
  <2>2. /\ QueueInv(cap, m.queues[a], U(a), UseAt(cx, a), counts)
        /\ U(a) \subseteq A /\ U(a) \subseteq Task
    BY UsersAre
  <2>3. \A o \in U(a) : o \in Task \ {t}
    BY <1>16, <2>2
  <2>4. \A o \in U(a) : counts[o] = 0 => K[o] = 0
    BY <1>19, <2>3
  <2> HIDE DEF U, U2, cap, counts
  <2>5. QueueInv(cap, m.queues[a], U(a), UseAt(cx2, a), K)
    BY <2>1, <2>2, <2>4, CountsKept
  <2> QED
    BY <2>1, <2>5
<1>23. Q \in [Address -> [current : Usage, blocked : Seq(UsageFromTask)]]
  <2>1. \A a \in Address : Q[a] \in [current : Usage, blocked : Seq(UsageFromTask)]
    BY <1>21, <1>22 DEF QueueInv
  <2> QED
    BY <1>8, <2>1
<1>24. /\ n \in Machine /\ n.queues = Q /\ n.blocked_usage_count = K
       /\ SameRest(m, n) /\ SameCounters(m, n)
       /\ n.unblocked_task_queue = m.unblocked_task_queue
  BY Zenon, <1>1, <1>2, <1>10, <1>23 DEF Machine, SameRest, SameCounters
<1>25. ASSUME NEW o \in Task
       PROVE  K[o] = Cardinality(WaitsIn(n, o))
  <2>1. WaitsIn(n, o) = {a \in Address : o \in Waiting(Q[a])}
        /\ WaitsIn(m, o) = {a \in Address : o \in Waiting(m.queues[a])}
    BY <1>24 DEF WaitsIn
  <2>2. CASE o = t
    <3>1. \A a \in Address : t \notin U(a) /\ Waiting(m.queues[a]) \subseteq U(a)
      BY <1>17, UsersAre
    <3>2. \A a \in mine : t \in Waiting(Q[a]) <=> ~locks(a)
      BY Zenon, <1>3, <1>21, <3>1
    <3>3. \A a \in Address \ mine : t \notin Waiting(Q[a])
      BY <1>22, <3>1
    <3>4. WaitsIn(n, o) = waits
      BY <1>3, <1>11, <1>14, <2>1, <2>2, <3>2, <3>3
    <3> QED
      BY <1>9, <2>2, <3>4
  <2>3. CASE o # t
    <3>1. \A a \in mine : o \in Waiting(Q[a]) <=> o \in Waiting(m.queues[a]) \/ a \in lost(o)
      BY <1>12, <1>21, <2>3
    <3>2. \A a \in Address \ mine : Q[a] = m.queues[a] /\ a \notin lost(o)
      BY <1>13, <1>22
    <3>3. WaitsIn(n, o) = WaitsIn(m, o) \cup lost(o)
      BY <1>3, <1>13, <2>1, <3>1, <3>2
    <3>4. WaitsIn(m, o) \cap lost(o) = {}
      BY Zenon, <1>12, <1>13, <1>21, <2>1
    <3>5. Cardinality(WaitsIn(n, o)) = Cardinality(WaitsIn(m, o)) + Cardinality(lost(o))
      <4> DEFINE S == WaitsIn(m, o)
                 T == lost(o)
      <4>1. IsFiniteSet(S) /\ IsFiniteSet(T) /\ Cardinality(S) \in Nat /\ Cardinality(T) \in Nat
        BY <1>6, WaitsFinite
      <4>2. S \cap T = {} /\ WaitsIn(n, o) = S \cup T
        BY <3>3, <3>4
      <4> HIDE DEF S, T
      <4>3. Cardinality(S \cup T) = Cardinality(S) + Cardinality(T) - Cardinality(S \cap T)
        BY <4>1, FS_Union
      <4>4. Cardinality(S \cap T) = 0
        BY <4>2, FS_EmptySet
      <4>5. Cardinality(S \cup T) = Cardinality(S) + Cardinality(T)
        BY <4>1, <4>3, <4>4
      <4> QED
        BY <4>2, <4>5 DEF S, T
    <3> QED
      BY <1>1, <1>9, <2>3, <3>5
  <2> QED
    BY <2>2, <2>3
<1>26. \A a \in Address : QueueInv(cap, Q[a], U2(a), UseAt(cx2, a), K)
  BY Zenon, <1>21, <1>22
<1>27. MachineOK(n, cx2, A2)
  BY <1>15, <1>16, <1>24, <1>25, <1>26 DEF MachineOK, SameRest
<1>28. K[t] = 0 => \A a \in mine : \A b \in Waiting(Q[a]) : t < b
  BY <1>7, <1>9, <1>11, <1>21
<1>29. \A o \in A : K[o] = 0 <=> counts[o] = 0
  BY <1>1, <1>16, <1>19
<1> QED
  BY <1>24, <1>27, <1>28, <1>29 DEF n, mine, cx2

(***************************************************************************)
(* A bounded set of numbers has a greatest one.                            *)
(***************************************************************************)
LEMMA GreatestNumber ==
    ASSUME NEW S \in SUBSET Nat, S # {}, NEW bound \in Nat, \A x \in S : x <= bound
    PROVE  \E x \in S : \A y \in S : x >= y
<1> DEFINE B == {b \in Nat : \A x \in S : x <= b}
<1>1. PICK b \in B : \A c \in B : b <= c
  <2>1. B \in SUBSET Nat /\ bound \in B
    BY Zenon
  <2> HIDE DEF B
  <2> QED
    BY <2>1, LeastNumber
<1>2. b \in Nat /\ \A x \in S : x <= b
  BY <1>1
<1>3. b \in S
  <2> SUFFICES ASSUME b \notin S PROVE FALSE
    BY Zenon
  <2>1. \A x \in S : x \in Nat /\ x <= b /\ x # b
    BY Zenon, <1>2
  <2>2. b # 0
    <3>1. PICK x \in S : TRUE
      BY Zenon
    <3> QED
      BY <1>2, <2>1, <3>1
  <2>3. b - 1 \in Nat
    BY <1>2, <2>2
  <2>4. \A x \in S : x <= b - 1
    BY <1>2, <2>1
  <2>5. b - 1 \in B
    BY <2>3, <2>4
  <2>6. b <= b - 1
    BY <1>1, <2>5
  <2> QED
    BY <1>2, <2>6
<1> QED
  BY <1>2, <1>3

(***************************************************************************)
(* The order of the last grants is total on the tasks that are unblocked.  *)
(***************************************************************************)
LEMMA LastGrantsOrder ==
    ASSUME NEW m, NEW t, NEW cs, NEW order \in ContextOrders(cs),
           \A a \in Locked(cs) : Granted(m.capability, m.queues[a], t) \in Seq(UsageFromTask)
    PROVE  LET S == Unblocked(m, t, cs)
               R == ByLastGrant(m, t, cs, order)
           IN  /\ IsFiniteSet(S)
               /\ \A x \in S : <<x, x>> \notin R
               /\ \A x, y, z \in S : <<x, y>> \in R /\ <<y, z>> \in R => <<x, z>> \in R
               /\ \A x, y \in S : x # y => <<x, y>> \in R \/ <<y, x>> \in R
<1> DEFINE S == Unblocked(m, t, cs)
           R == ByLastGrant(m, t, cs, order)
           mine == Locked(cs)
           run(a) == Granted(m.capability, m.queues[a], t)
           at(o) == {i \in DOMAIN order : order[i] \in GrantedTo(m, t, cs, o)}
           q(o) == Max(at(o))
           queue == [o \in S |-> q(o)]
           k(o) == CHOOSE i \in DOMAIN run(order[queue[o]]) : run(order[queue[o]])[i].task = o
           place == [o \in S |-> k(o)]
<1>1. S \in SUBSET Task /\ \A o \in S : GrantedTo(m, t, cs, o) # {}
  BY Zenon DEF Unblocked
<1>2. R = {p \in S \X S : \/ queue[p[1]] < queue[p[2]]
                          \/ queue[p[1]] = queue[p[2]] /\ place[p[1]] < place[p[2]]}
  BY Zenon DEF ByLastGrant
<1>3. \A o \in S : queue[o] = q(o)
  <2> HIDE DEF q, S
  <2> QED
    BY Zenon
<1>4. \A o \in S : place[o] = k(o)
  <2> HIDE DEF k, S
  <2> QED
    BY Zenon
<1>5. /\ DOMAIN order = 1..Cardinality(mine) /\ Cardinality(mine) \in Nat
      /\ \A a \in mine : \E i \in DOMAIN order : order[i] = a
      /\ \A i \in DOMAIN order : order[i] \in mine
  <2> DEFINE D == 1..Cardinality(mine)
  <2>1. IsFiniteSet(mine) /\ Cardinality(mine) \in Nat
    <3>1. mine \in SUBSET Address
      BY Zenon DEF Locked
    <3> QED
      BY <3>1, AddressAssumption, FS_Subset, FS_CardinalityType
  <2>2. order \in [D -> mine] /\ \A i, j \in D : i # j => order[i] # order[j]
    BY Zenon DEF ContextOrders, Injection, IsInjective
  <2>3. Cardinality(D) = Cardinality(mine)
    BY <2>1, FS_Interval
  <2> HIDE DEF D, mine
  <2>4. order \in Injection(D, mine)
    BY Zenon, <2>2 DEF Injection, IsInjective
  <2>5. order \in Surjection(D, mine)
    BY <2>1, <2>3, <2>4, FS_Injection
  <2>6. \A a \in mine : \E i \in D : order[i] = a
    BY <2>5 DEF Surjection
  <2> QED
    BY <2>1, <2>2, <2>6 DEF D
<1>6. \A o : GrantedTo(m, t, cs, o) \subseteq mine
  BY Zenon DEF GrantedTo
<1>7. ASSUME NEW o \in S
      PROVE  q(o) \in Nat /\ q(o) \in DOMAIN order /\ order[q(o)] \in GrantedTo(m, t, cs, o)
  <2>1. PICK a \in mine : a \in GrantedTo(m, t, cs, o)
    BY <1>1, <1>6
  <2>2. at(o) # {}
    BY Zenon, <1>5, <2>1
  <2>3. at(o) \in SUBSET Nat /\ \A i \in at(o) : i <= Cardinality(mine)
    BY <1>5
  <2>4. \A i \in at(o) : i \in DOMAIN order /\ order[i] \in GrantedTo(m, t, cs, o)
    BY Zenon
  <2>5. \E x \in at(o) : \A y \in at(o) : x >= y
    <3> HIDE DEF at, mine
    <3> QED
      BY Zenon, <1>5, <2>2, <2>3, GreatestNumber
  <2> HIDE DEF at
  <2>6. Max(at(o)) \in at(o)
    BY <2>5, Zenon DEF Max
  <2> QED
    BY <2>3, <2>4, <2>6
<1> HIDE DEF q, queue
<1>8. ASSUME NEW o \in S
      PROVE  k(o) \in Nat /\ run(order[q(o)])[k(o)].task = o
  <2> DEFINE r == run(order[q(o)])
  <2>1. order[q(o)] \in mine
    BY <1>6, <1>7
  <2>2. r \in Seq(UsageFromTask)
    BY <2>1
  <2>3. \E e \in Range(r) : e.task = o
    BY <1>7 DEF GrantedTo
  <2>4. queue[o] = q(o)
    BY <1>3
  <2>5. k(o) = CHOOSE i \in DOMAIN r : r[i].task = o
    BY <2>4, Zenon
  <2> HIDE DEF r, k
  <2>6. \E i \in DOMAIN r : r[i].task = o
    BY <2>3 DEF Range
  <2>7. k(o) \in DOMAIN r /\ r[k(o)].task = o
    BY <2>5, <2>6
  <2>8. k(o) \in Nat
    BY <2>2, <2>7
  <2> QED
    BY <2>7, <2>8 DEF r
<1> HIDE DEF S, R, k, place, run
<1>9. \A o, p \in S : <<o, p>> \in R <=> q(o) < q(p) \/ (q(o) = q(p) /\ k(o) < k(p))
  BY <1>2, <1>3, <1>4
<1>10. \A o, p \in S : q(o) = q(p) /\ k(o) = k(p) => o = p
  BY Zenon, <1>8
<1>11. \A o \in S : q(o) \in Nat /\ k(o) \in Nat
  BY <1>7, <1>8
<1>12. \A x \in S : <<x, x>> \notin R
  BY <1>9, <1>11
<1>13. \A x, y, z \in S : <<x, y>> \in R /\ <<y, z>> \in R => <<x, z>> \in R
  BY <1>9, <1>11
<1>14. \A x, y \in S : x # y => <<x, y>> \in R \/ <<y, x>> \in R
  BY <1>9, <1>10, <1>11
<1>15. IsFiniteSet(S)
  BY Zenon, <1>1, IdsAssumption, FS_Subset
<1> QED
  BY <1>12, <1>13, <1>14, <1>15 DEF S, R

(***************************************************************************)
(* What unlock_usage_queues makes of machine m: the tasks that wait no     *)
(* longer come to the end of the queue of ready tasks, each of them ahead  *)
(* of all that still wait for an address it uses.                          *)
(***************************************************************************)
Readied(m, n, A) == {o \in A : m.blocked_usage_count[o] # 0 /\ n.blocked_usage_count[o] = 0}

Unlocked(m, n, cx, A) ==
    LET new == Readied(m, n, A)
    IN  /\ \E s \in Seq(Task) :
               /\ n.unblocked_task_queue = m.unblocked_task_queue \o s
               /\ Range(s) = new
               /\ \A i, j \in DOMAIN s : s[i] = s[j] => i = j
        /\ \A o \in Task : m.blocked_usage_count[o] = 0 => n.blocked_usage_count[o] = 0
        /\ \A o \in new, a \in Address : cx[o][a] # "None" =>
               \A b \in Waiting(n.queues[a]) : o < b

(***************************************************************************)
(* unlock_usage_queues, for a runnable task.                               *)
(***************************************************************************)
LEMMA UnlockMachine ==
    ASSUME NEW m, NEW cx, NEW A, MachineOK(m, cx, A),
           NEW t \in A, m.blocked_usage_count[t] = 0,
           NEW order \in ContextOrders(cx[t])
    PROVE  LET n == unlock_usage_queues(m, t, cx[t], order)
           IN  /\ MachineOK(n, [cx EXCEPT ![t] = NoContexts], A \ {t})
               /\ SameRest(m, n) /\ SameCounters(m, n)
               /\ Unlocked(m, n, cx, A \ {t})
<1> DEFINE cap == m.capability
           counts == m.blocked_usage_count
           cs == cx[t]
           mine == Locked(cs)
           run(a) == Granted(cap, m.queues[a], t)
           G(a) == TasksOf(run(a))
           got(o) == GrantedTo(m, t, cs, o)
           Q == [a \in Address |-> IF a \in mine THEN unlock(cap, m.queues[a], t) ELSE m.queues[a]]
           K == [o \in Task |-> counts[o] - Cardinality(got(o))]
           S == Unblocked(m, t, cs)
           s == SortedBy(ByLastGrant(m, t, cs, order), S)
           ready == m.unblocked_task_queue \o s
           n == unlock_usage_queues(m, t, cs, order)
           cx2 == [cx EXCEPT ![t] = NoContexts]
           A2 == A \ {t}
           U(a) == UsersOf(A, cx, a)
           U2(a) == UsersOf(A2, cx2, a)
<1>1. /\ m \in Machine /\ A \in SUBSET Task /\ cx \in [Task -> LockContexts]
      /\ \A o \in Task : counts[o] = Cardinality(WaitsIn(m, o))
  BY Zenon DEF MachineOK
<1>2. n = [m EXCEPT !.queues = Q, !.blocked_usage_count = K, !.unblocked_task_queue = ready]
  BY Zenon DEF unlock_usage_queues
<1>3. mine \subseteq Address /\ \A a \in Address : a \in mine <=> cx[t][a] # "None"
  BY Zenon DEF Locked
<1>4. /\ counts \in [Task -> Nat] /\ m.unblocked_task_queue \in Seq(Task)
      /\ m.queues \in [Address -> [current : Usage, blocked : Seq(UsageFromTask)]]
  BY <1>1, MachineType
<1>5. \A o : got(o) = {a \in mine : o \in G(a)}
  BY Zenon DEF GrantedTo, TasksOf
<1>6. /\ \A a \in Address : Q[a] = IF a \in mine THEN unlock(cap, m.queues[a], t) ELSE m.queues[a]
      /\ DOMAIN Q = Address /\ Q = [a \in Address |-> Q[a]]
  BY Zenon
<1>7. \A o \in Task : K[o] = counts[o] - Cardinality(got(o))
  BY Zenon
<1>8. DOMAIN K = Task /\ K = [o \in Task |-> K[o]]
  BY Zenon
<1>9. /\ cx2 \in [Task -> LockContexts] /\ cx2[t] = NoContexts
      /\ \A o \in Task \ {t} : cx2[o] = cx[o]
  <2>1. NoContexts \in LockContexts
    BY Zenon DEF NoContexts, LockContexts
  <2> QED
    BY <1>1, <2>1
<1>10. A2 \in SUBSET Task /\ t \in Task
  BY Zenon, <1>1
<1> HIDE DEF Q, K, n, mine, cx2, got, run, s, S, ready
<1>11. ASSUME NEW a \in Address
       PROVE  /\ a \in mine <=> t \in U(a)
              /\ U2(a) = U(a) \ {t}
              /\ \A o \in U(a) \ {t} : UseAt(cx2, a)[o] = UseAt(cx, a)[o]
  <2>1. U(a) = {o \in A : cx[o][a] # "None"} /\ U2(a) = {o \in A2 : cx2[o][a] # "None"}
    BY Zenon DEF UsersOf
  <2>2. \A o \in Task : UseAt(cx2, a)[o] = cx2[o][a] /\ UseAt(cx, a)[o] = cx[o][a]
    BY Zenon DEF UseAt
  <2>3. \A o \in A \ {t} : cx2[o] = cx[o]
    BY <1>1, <1>9
  <2> HIDE DEF U, U2
  <2> QED
    BY <1>1, <1>3, <2>1, <2>2, <2>3
<1>12. \A a \in Address : t \notin Waiting(m.queues[a])
  <2>1. WaitsIn(m, t) = {}
    BY <1>1, <1>10, WaitsFinite
  <2> QED
    BY <2>1 DEF WaitsIn
<1>13. ASSUME NEW a \in mine, NEW K2, \A o \in U(a) \ {t} : counts[o] = 0 => K2[o] = 0
       PROVE  Leaves(cap, m.queues[a], U(a), UseAt(cx, a), counts, t, UseAt(cx2, a), K2)
  <2>1. a \in Address /\ t \in U(a)
    BY <1>3, <1>11
  <2>2. /\ cap \in {"Fifo", "Priority"}
        /\ QueueInv(cap, m.queues[a], U(a), UseAt(cx, a), counts)
        /\ U(a) \subseteq Task
        /\ \A o \in U(a) : UseAt(cx, a)[o] \in RequestedUsage
    BY <2>1, UsersAre
  <2>3. HeldBy(Range(m.queues[a].blocked), U(a)) = U(a) \ Waiting(m.queues[a])
    BY Zenon DEF HeldBy, Waiting
  <2>4. t \in HeldBy(Range(m.queues[a].blocked), U(a))
    BY <1>12, <2>1, <2>3
  <2>5. \A o \in U(a) \ {t} : UseAt(cx2, a)[o] = UseAt(cx, a)[o]
    BY <1>11, <2>1
  <2> HIDE DEF U, cap, counts
  <2> QED
    BY <1>13, <2>2, <2>4, <2>5 DEF Leaves
(* Only tasks that wait are granted an address *)
<1>14. ASSUME NEW a \in mine
       PROVE  run(a) \in Seq(UsageFromTask) /\ G(a) \subseteq Waiting(m.queues[a])
  <2>1. Leaves(cap, m.queues[a], U(a), UseAt(cx, a), counts, t, UseAt(cx2, a), counts)
    BY <1>13
  <2> QED
    BY <2>1, UnlockKeeps, Zenon DEF run
<1> HIDE DEF G
<1>15. ASSUME NEW o \in Task
       PROVE  /\ got(o) \subseteq WaitsIn(m, o) /\ IsFiniteSet(got(o))
              /\ Cardinality(got(o)) \in Nat /\ Cardinality(got(o)) <= counts[o]
              /\ (Cardinality(got(o)) = 0 <=> got(o) = {})
              /\ Cardinality(WaitsIn(m, o) \ got(o)) = counts[o] - Cardinality(got(o))
  <2> DEFINE W == WaitsIn(m, o)
             g == got(o)
  <2>1. g \subseteq W
    BY <1>3, <1>5, <1>14 DEF WaitsIn
  <2>2. IsFiniteSet(W) /\ counts[o] = Cardinality(W) /\ Cardinality(W) \in Nat
    BY Zenon, <1>1, WaitsFinite
  <2> HIDE DEF W, g
  <2>3. IsFiniteSet(g) /\ Cardinality(g) <= Cardinality(W)
    BY <2>1, <2>2, FS_Subset
  <2>4. W \cap g = g
    BY <2>1
  <2>5. Cardinality(W \ g) = Cardinality(W) - Cardinality(g)
    <3>1. Cardinality(W \ g) = Cardinality(W) - Cardinality(W \cap g)
      BY Zenon, <2>2, FS_Difference
    <3> QED
      BY <2>4, <3>1
  <2> QED
    BY <2>1, <2>2, <2>3, <2>5, FS_CardinalityType, FS_EmptySet DEF W, g
<1>16. ASSUME NEW o \in Task
       PROVE  K[o] \in Nat /\ (counts[o] = 0 => K[o] = 0)
  <2> DEFINE c == counts[o]
             g == Cardinality(got(o))
  <2>1. c \in Nat /\ g \in Nat /\ g <= c /\ K[o] = c - g
    BY Zenon, <1>4, <1>7, <1>15
  <2> HIDE DEF c, g
  <2>2. K[o] \in Nat /\ (c = 0 => K[o] = 0)
    BY <2>1
  <2> QED
    BY <2>2 DEF c
<1>17. ASSUME NEW a \in mine
       PROVE  /\ QueueInv(cap, Q[a], U2(a), UseAt(cx2, a), K)
              /\ Waiting(Q[a]) = Waiting(m.queues[a]) \ G(a)
              /\ \A g \in G(a), b \in Waiting(Q[a]) : g < b
  <2>1. a \in Address
    BY <1>3
  <2>2. Q[a] = unlock(cap, m.queues[a], t) /\ U2(a) = U(a) \ {t} /\ U(a) \subseteq Task
    <3>1. U(a) \subseteq Task
      BY <1>1 DEF UsersOf
    <3> QED
      BY Zenon, <1>6, <1>11, <2>1, <3>1
  <2>3. Leaves(cap, m.queues[a], U(a), UseAt(cx, a), counts, t, UseAt(cx2, a), K)
    <3>1. \A o \in U(a) \ {t} : counts[o] = 0 => K[o] = 0
      BY <1>16, <2>2
    <3> QED
      BY <1>13, <3>1
  <2>4. /\ QueueInv(cap, unlock(cap, m.queues[a], t), U(a) \ {t}, UseAt(cx2, a), K)
        /\ Waiting(unlock(cap, m.queues[a], t)) = Waiting(m.queues[a]) \ G(a)
        /\ \A g \in G(a), b \in Waiting(unlock(cap, m.queues[a], t)) : g < b
    <3>1. QueueInv(cap, unlock(cap, m.queues[a], t), U(a) \ {t}, UseAt(cx2, a), K)
      BY Zenon, <2>3, UnlockKeeps
    <3>2. Waiting(unlock(cap, m.queues[a], t)) = Waiting(m.queues[a]) \ G(a)
      <4>1. \A b : b \in Waiting(unlock(cap, m.queues[a], t)) <=>
                   b \in Waiting(m.queues[a]) /\ b \notin G(a)
        BY Zenon, <2>3, UnlockKeeps DEF G, run
      <4> QED
        BY <4>1
    <3>3. \A g \in G(a), b \in Waiting(unlock(cap, m.queues[a], t)) : g < b
      BY Zenon, <2>3, UnlockKeeps DEF G, run
    <3> QED
      BY <3>1, <3>2, <3>3
  <2> QED
    BY <2>2, <2>4, Zenon
<1>18. ASSUME NEW a \in Address \ mine
       PROVE  QueueInv(cap, Q[a], U2(a), UseAt(cx2, a), K) /\ Q[a] = m.queues[a]
  <2>1. t \notin U(a) /\ U2(a) = U(a) \ {t}
        /\ \A o \in U(a) \ {t} : UseAt(cx2, a)[o] = UseAt(cx, a)[o]
    BY Zenon, <1>11
  <2>2. QueueInv(cap, m.queues[a], U(a), UseAt(cx, a), counts) /\ U(a) \subseteq Task
    BY UsersAre
  <2>3. Q[a] = m.queues[a]
    BY Zenon, <1>6
  <2> HIDE DEF U, U2
  <2>4. U2(a) = U(a) /\ \A o \in U(a) : UseAt(cx2, a)[o] = UseAt(cx, a)[o]
    BY Zenon, <2>1
  <2>5. \A o \in U(a) : counts[o] = 0 => K[o] = 0
    BY <1>16, <2>2
  <2> HIDE DEF cap, counts
  <2>6. QueueInv(cap, m.queues[a], U(a), UseAt(cx2, a), K)
    BY <2>2, <2>4, <2>5, CountsKept
  <2> QED
    BY <2>3, <2>4, <2>6
(* The newly unblocked tasks *)
<1>19. S = {o \in A2 : counts[o] # 0 /\ K[o] = 0} /\ S \in SUBSET Task
  <2>1. S = {o \in Task : got(o) # {} /\ Cardinality(got(o)) = counts[o]}
    BY Zenon DEF S, Unblocked, got
  <2>2. \A o \in Task : got(o) # {} => o \in A2
    <3> SUFFICES ASSUME NEW o \in Task, got(o) # {} PROVE o \in A2
      BY Zenon
    <3>1. PICK a \in mine : o \in G(a)
      BY Zenon, <1>5
    <3>2. a \in Address /\ o \in Waiting(m.queues[a])
      BY <1>3, <1>14, <3>1
    <3>3. o \in UsersOf(A, cx, a) /\ UsersOf(A, cx, a) \subseteq A
      BY Zenon, <3>2, UsersAre
    <3> QED
      BY <1>12, <3>2, <3>3
  <2>3. \A o \in Task : (got(o) # {} /\ Cardinality(got(o)) = counts[o]) <=>
                        (o \in A2 /\ counts[o] # 0 /\ K[o] = 0)
    <3> SUFFICES ASSUME NEW o \in Task
                 PROVE  (got(o) # {} /\ Cardinality(got(o)) = counts[o]) <=>
                        (o \in A2 /\ counts[o] # 0 /\ K[o] = 0)
      BY Zenon
    <3> DEFINE c == counts[o]
               g == Cardinality(got(o))
    <3>1. c \in Nat /\ g \in Nat /\ K[o] = c - g /\ (g = 0 <=> got(o) = {})
      BY Zenon, <1>4, <1>7, <1>15
    <3>2. got(o) # {} => o \in A2
      BY Zenon, <2>2
    <3> HIDE DEF c, g, A2
    <3>3. (got(o) # {} /\ g = c) <=> (o \in A2 /\ c # 0 /\ K[o] = 0)
      BY <3>1, <3>2
    <3> QED
      BY Zenon, <3>3 DEF c, g
  <2> QED
    BY <1>10, <2>1, <2>3
<1>20. /\ s \in Seq(Task) /\ Range(s) = S
       /\ \A i, j \in DOMAIN s : s[i] = s[j] => i = j
  <2> DEFINE R == ByLastGrant(m, t, cs, order)
  <2>1. /\ IsFiniteSet(S)
        /\ \A x \in S : <<x, x>> \notin R
        /\ \A x, y, z \in S : <<x, y>> \in R /\ <<y, z>> \in R => <<x, z>> \in R
        /\ \A x, y \in S : x # y => <<x, y>> \in R \/ <<y, x>> \in R
    <3>1. \A a \in Locked(cs) : Granted(m.capability, m.queues[a], t) \in Seq(UsageFromTask)
      BY Zenon, <1>14 DEF mine, run
    <3> QED
      BY <3>1, LastGrantsOrder, Zenon DEF S
  <2> HIDE DEF R
  <2>2. /\ s \in Seq(S) /\ Range(s) = S
        /\ \A i, j \in DOMAIN s : i < j => <<s[i], s[j]>> \in R
    BY Zenon, <2>1, SortedIsOrdered DEF s, R
  <2>3. s \in Seq(Task)
    BY <1>19, <2>2
  <2>4. ASSUME NEW i \in DOMAIN s, NEW j \in DOMAIN s, s[i] = s[j]
        PROVE  i = j
    <3>1. s[i] \in S /\ i \in Nat /\ j \in Nat
      BY <2>2
    <3>2. ~(i < j) /\ ~(j < i)
      BY Zenon, <2>1, <2>2, <2>4, <3>1
    <3> QED
      BY <3>1, <3>2
  <2> QED
    BY <2>2, <2>3, <2>4
<1>21. Q \in [Address -> [current : Usage, blocked : Seq(UsageFromTask)]] /\ K \in [Task -> Nat]
  <2>1. \A a \in Address : Q[a] \in [current : Usage, blocked : Seq(UsageFromTask)]
    BY Zenon, <1>17, <1>18 DEF QueueInv
  <2> QED
    BY <1>6, <1>8, <1>16, <2>1
<1>22. ready \in Seq(Task)
  BY <1>4, <1>20 DEF ready
<1>23. /\ n \in Machine /\ n.queues = Q /\ n.blocked_usage_count = K
       /\ SameRest(m, n) /\ SameCounters(m, n)
       /\ n.unblocked_task_queue = ready
  BY Zenon, <1>1, <1>2, <1>21, <1>22 DEF Machine, SameRest, SameCounters
<1>24. ASSUME NEW o \in Task
       PROVE  K[o] = Cardinality(WaitsIn(n, o))
  <2>1. WaitsIn(n, o) = {a \in Address : o \in Waiting(Q[a])}
        /\ WaitsIn(m, o) = {a \in Address : o \in Waiting(m.queues[a])}
    BY Zenon, <1>23 DEF WaitsIn
  <2>2. \A a \in mine : o \in Waiting(Q[a]) <=> o \in Waiting(m.queues[a]) /\ a \notin got(o)
    BY Zenon, <1>5, <1>17
  <2>3. \A a \in Address \ mine : Q[a] = m.queues[a] /\ a \notin got(o)
    BY <1>5, <1>18
  <2>4. WaitsIn(n, o) = WaitsIn(m, o) \ got(o)
    BY <1>3, <2>1, <2>2, <2>3
  <2> QED
    BY <1>7, <1>15, <2>4
<1>25. MachineOK(n, cx2, A2)
  <2>1. \A a \in Address : QueueInv(cap, Q[a], U2(a), UseAt(cx2, a), K)
    BY Zenon, <1>17, <1>18
  <2> QED
    BY Zenon, <1>9, <1>10, <1>23, <1>24, <2>1 DEF MachineOK, SameRest
<1>26. Readied(m, n, A2) = S
  BY <1>19, <1>23 DEF Readied
(* They precede those that still wait *)
<1>27. ASSUME NEW o \in S, NEW a \in Address, cx[o][a] # "None", NEW b \in Waiting(Q[a])
       PROVE  o < b
  <2>1. o \in A /\ o \in Task /\ counts[o] # 0 /\ K[o] = 0
    BY Zenon, <1>19
  <2>2. o \in U(a)
    BY <1>27, <2>1 DEF UsersOf
  <2>3. Waiting(Q[a]) \subseteq Waiting(m.queues[a])
    BY <1>17, <1>18
  <2>4. CASE o \in Waiting(m.queues[a])
    <3>1. WaitsIn(n, o) = {}
      BY <1>24, <2>1, WaitsFinite
    <3>2. o \notin Waiting(Q[a])
      BY <1>23, <3>1 DEF WaitsIn
    <3>3. a \in mine
      BY <1>18, <2>4, <3>2
    <3>4. o \in G(a)
      BY <1>17, <2>4, <3>2, <3>3
    <3> QED
      BY <1>17, <1>27, <3>3, <3>4
  <2>5. CASE o \notin Waiting(m.queues[a])
    <3>1. QueueInv(cap, m.queues[a], U(a), UseAt(cx, a), counts)
      BY Zenon, UsersAre
    <3>2. \A e \in Range(m.queues[a].blocked), h \in HeldBy(Range(m.queues[a].blocked), U(a)) :
              h < e.task \/ counts[h] = 0
      BY <3>1, Zenon DEF QueueInv, Accounts
    <3>3. HeldBy(Range(m.queues[a].blocked), U(a)) = U(a) \ Waiting(m.queues[a])
      BY Zenon DEF HeldBy, Waiting
    <3>4. PICK e \in Range(m.queues[a].blocked) : b = e.task
      BY <1>27, <2>3 DEF Waiting
    <3> QED
      BY <2>1, <2>2, <2>5, <3>2, <3>3, <3>4
  <2> QED
    BY <2>4, <2>5
<1>28. \E x \in Seq(Task) : /\ n.unblocked_task_queue = m.unblocked_task_queue \o x
                            /\ Range(x) = S
                            /\ \A i, j \in DOMAIN x : x[i] = x[j] => i = j
  BY <1>20, <1>23, Zenon DEF ready
<1>29. \A o \in Task : counts[o] = 0 => n.blocked_usage_count[o] = 0
  BY <1>16, <1>23
<1>30. \A o \in S, a \in Address : cx[o][a] # "None" => \A b \in Waiting(n.queues[a]) : o < b
  BY <1>23, <1>27
<1>31. Unlocked(m, n, cx, A2)
  BY <1>26, <1>28, <1>29, <1>30, Zenon DEF Unlocked
<1> QED
  BY <1>23, <1>25, <1>31, Zenon DEF n, cx2
=============================================================================
