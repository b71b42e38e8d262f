--------------------------- MODULE MCRiskHandlers ---------------------------
(***************************************************************************)
(* Two workers and the event loop.  The breaker opens at the second loss,  *)
(* and the streak is followed one step past that.                          *)
(***************************************************************************)
EXTENDS RiskHandlers, TLC

CONSTANTS paper, kite, t1, t2, loop

MCBrokers == {paper, kite}
MCThreads == {t1, t2}
MCSymmetry == Permutations(MCThreads)

=============================================================================
