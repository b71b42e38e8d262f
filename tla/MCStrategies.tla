---------------------------- MODULE MCStrategies ----------------------------
EXTENDS Strategies

\* A pair whose periods stand as the defaults do, and one that can trade.
MCPairs == {[formation |-> 3, trading |-> 2, recent |-> 1, holding |-> 2],
            [formation |-> 2, trading |-> 3, recent |-> 1, holding |-> 2]}
MCScores == {-2, 0, 2}
=============================================================================
