--------------------------- MODULE MCEventHandler ---------------------------
EXTENDS EventHandler

Blk(s, i) == [slot |-> s, id |-> i]

Ready(s, p) == [slot |-> s, parent |-> p]

\* The genesis block, and in the window after it two versions of slot 2.
ForkGenesis == Blk(1, "a")
ForkBlocks == {Blk(2, "a"), Blk(2, "b")}
ForkParent == [b \in ForkBlocks |-> ForkGenesis]
ForkNotarizable == {Blk(2, "a")}
ForkFinalizable == {Blk(2, "a")}
ForkReadyable == {Ready(2, ForkGenesis)}

\* Genesis at slot 0: 1a in its window, then 2a - 3a and 2b, with 3a finalized.
TwoGenesis == Blk(0, "a")
TwoBlocks == {Blk(1, "a"), Blk(2, "a"), Blk(3, "a"), Blk(2, "b")}
TwoParent == [b \in TwoBlocks |-> Blk(b.slot - 1, "a")]
TwoNotarizable == {Blk(1, "a"), Blk(3, "a")}
TwoFinalizable == {Blk(3, "a")}
TwoReadyable == {Ready(2, Blk(1, "a"))}

\* A crash, also after a switch of the identity; a switch and one more;
\* the voter keys removed and added again.
FewFaults ==
    {<<"crash">>, <<"switch">>, <<"switch", "crash">>, <<"switch", "switch">>,
     <<"voter">>, <<"voter", "voter">>}
=============================================================================
