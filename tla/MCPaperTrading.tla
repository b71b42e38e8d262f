--------------------------- MODULE MCPaperTrading ---------------------------
(***************************************************************************)
(* Two positions whose quantities divide by their number of targets, leave *)
(* a runner (10 by 3, 5 by 2), overshoot (5 by 3, 7 by 2) or are smaller   *)
(* than it (1 by 3).                                                       *)
(***************************************************************************)
EXTENDS PaperTrading, TLC

CONSTANTS paper, p1, p2

MCPositions == {p1, p2}
MCBodies == [qty: {1, 5, 7, 10}, tps: {1, 2, 3}]
MCSymmetry == Permutations(MCPositions)

=============================================================================
