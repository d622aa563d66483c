-------------------------- MODULE MCDuplicateSlots --------------------------
(***************************************************************************)
(* Two versions of slot 1, each with a child in slot 2, and a fork in slot *)
(* 3.  The epoch changes before slot 2, and with it the stakes.            *)
(***************************************************************************)
EXTENDS DuplicateSlots

CONSTANTS v1, v2

MCValidators == {v1, v2}

MCStakeAt ==
    [n \in 0..3 |-> [v \in {v1, v2} |-> IF (v = v1) = (n < 2) THEN 2 ELSE 1]]

MCParent ==
    LET root == <<0, 1>>
    IN  root :> <<>> @@ <<1, 1>> :> root @@ <<1, 2>> :> root @@ <<2, 1>> :> <<1, 1>>
        @@ <<2, 2>> :> <<1, 2>> @@ <<3, 1>> :> root

MCChain == {<<0, 1>>, <<1, 2>>, <<2, 2>>}
=============================================================================
