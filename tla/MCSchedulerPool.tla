--------------------------- MODULE MCSchedulerPool ---------------------------
(* Small instances of SchedulerPool for TLC. *)
EXTENDS SchedulerPool

CONSTANTS
    NumTasks,
    NumSchedulers

MCTask == 1..NumTasks

MCScheduler == 1..NumSchedulers

MCHash(t) == t

(* A task writes one address; two tasks conflict or do not. *)
MCMaySend(cs) == Cardinality(Locked(cs)) = 1 /\ \A x \in Locked(cs) : cs[x] = "Writable"

Symmetric == Permutations(Address) \cup Permutations(Handler) \cup Permutations(Bank)
=============================================================================
