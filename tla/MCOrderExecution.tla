-------------------------- MODULE MCOrderExecution --------------------------
EXTENDS OrderExecution, TLC

CONSTANTS paper, kite, r1, r2, s1, c1, p1, p2

MCBrokers == {paper, kite}
MCRequests == {r1, r2}
MCPasses == {p1, p2}
MCSignals == {s1}
MCClientIds == {c1}

\* A body with the signal or the client's id, or both, or neither.
MCInputs ==
    {[sig |-> s1, cid |-> None, broker |-> paper],
     [sig |-> s1, cid |-> c1, broker |-> kite],
     [sig |-> None, cid |-> c1, broker |-> kite]}

\* For the runs with fairness: one request with nothing to replay, and two
\* requests for one signal.
MCOneRequest == {r1}
MCPlainInput == {[sig |-> None, cid |-> None, broker |-> kite]}
MCSignalInputs == [sig: {s1}, cid: {None}, broker: Brokers]

MCSymmetry == Permutations(MCRequests) \union Permutations(MCPasses)

=============================================================================
