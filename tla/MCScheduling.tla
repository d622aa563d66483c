----------------------------- MODULE MCScheduling -----------------------------
(* Small instances of Scheduling for TLC. *)
EXTENDS Scheduling, TLC

CONSTANTS
    NumTasks

MCTask == 1..NumTasks

(* Two transactions of which one is a duplicate. *)
MCHash(t) == IF t = 3 THEN 1 ELSE t

MCConfigs ==
    {[capability |-> "Fifo", max_running |-> NumTasks, max_unique |-> NoLimit],
     [capability |-> "Priority", max_running |-> 1, max_unique |-> 3],
     [capability |-> "Priority", max_running |-> NumTasks, max_unique |-> NoLimit]}

Symmetric == Permutations(Address)
=============================================================================
