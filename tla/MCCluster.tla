----------------------------- MODULE MCCluster -----------------------------
(* Small instances of Cluster for TLC. *)
EXTENDS Cluster, TLC

CONSTANTS n1, n2, bad, id1, id2

(* The faulty validator has just less than 20%; with one other exactly 60%. *)
MCStake ==
    [S \in SUBSET Validators |->
        (IF n1 \in S THEN 41 ELSE 0) + (IF n2 \in S THEN 40 ELSE 0)
            + (IF bad \in S THEN 19 ELSE 0)]

Blk(s, i) == [slot |-> s, id |-> i]

MCGenesis == Blk(0, id1)

(* In slot 2 the leader of the next window builds on slot 1 or skips it; in *)
(* slot 3 a block follows either of these.                                  *)
MCParent ==
    Blk(1, id1) :> MCGenesis @@ Blk(1, id2) :> MCGenesis
    @@ Blk(2, id1) :> Blk(1, id1) @@ Blk(2, id2) :> MCGenesis
    @@ Blk(3, id1) :> Blk(2, id1) @@ Blk(3, id2) :> Blk(2, id2)
=============================================================================
