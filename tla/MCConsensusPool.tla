-------------------------- MODULE MCConsensusPool --------------------------
(***************************************************************************)
(* ConsensusPool on small instances.                                       *)
(***************************************************************************)
EXTENDS ConsensusPool, TLC

LOCAL INSTANCE FiniteSetsExt

CONSTANTS self, v1, v2, v3, id1, id2

(***************************************************************************)
(* Stakes with which every threshold of 20%, 40%, 60% and 80% is met       *)
(* exactly by some set of validators.                                      *)
(***************************************************************************)
StakeBy(weight) ==
    [S \in SUBSET DOMAIN weight |-> MapThenSumSet(LAMBDA x : weight[x], S)]

TwoStakes == StakeBy(self :> 2 @@ v1 :> 3)

FourStakes == StakeBy(self :> 2 @@ v1 :> 1 @@ v2 :> 1 @@ v3 :> 1)

NoParents == <<>>

NoCerts == {}

BlockAt(s, i) == [slot |-> s, id |-> i]

(***************************************************************************)
(* A block inside the first leader window, on one of slot 1.               *)
(***************************************************************************)
WindowParents == BlockAt(2, id1) :> BlockAt(1, id1)

(***************************************************************************)
(* All kinds for slot 1; in slot 2 those that finalize the block, and a    *)
(* fallback certificate of another one.                                    *)
(***************************************************************************)
CertsOfTwoSlots ==
    {x \in CertType : x.slot = 1 /\ x.id \in {id1, NoId}}
    \cup {Notarize(BlockAt(2, id1)), Finalize(2), NotarizeFallback(BlockAt(2, id2))}

PeerSymmetry == Permutations({v1, v2, v3}) \cup Permutations(Ids)
=============================================================================
