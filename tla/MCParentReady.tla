--------------------------- MODULE MCParentReady ---------------------------
EXTENDS ParentReady, TLC

(***************************************************************************)
(* Block ids are only compared for equality.                               *)
(***************************************************************************)
IdSymmetry == Permutations(Ids)
=============================================================================
