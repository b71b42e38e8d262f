--------------------------- MODULE OrderTracking ---------------------------
(***************************************************************************)
(* What execution.py promises of its ledger, "the single source of truth   *)
(* for what did we ask the broker to do": an order the broker took is      *)
(* entered in the ledger and stays there.  The promise has three gaps,     *)
(* which this specification names: a broker that fails after taking the    *)
(* order, a process that dies before the entry, and a start that reads at  *)
(* most Limit entries back.                                                *)
(***************************************************************************)
EXTENDS Naturals, FiniteSets

CONSTANTS Orders, Limit

VARIABLE fate

Fates == {"none", "placed", "tracked", "orphaned", "forgotten"}
With(f) == {r \in Orders : fate[r] = f}
Becomes(r, f) == fate' = [fate EXCEPT ![r] = f]

Init == fate = [r \in Orders |-> "none"]

Take(r) == fate[r] = "none" /\ Becomes(r, "placed")
TakeAndFail(r) == fate[r] = "none" /\ Becomes(r, "orphaned")
Track(r) == fate[r] = "placed" /\ Becomes(r, "tracked")

\* The entries kept are all of them, or Limit.
Restart ==
    \E kept \in SUBSET With("tracked") :
        /\ kept # With("tracked") => Cardinality(kept) = Limit
        /\ fate' = [r \in Orders |->
                CASE fate[r] = "placed" -> "orphaned"
                  [] fate[r] = "tracked" /\ r \notin kept -> "forgotten"
                  [] OTHER -> fate[r]]

Next ==
    \/ \E r \in Orders : Take(r) \/ TakeAndFail(r) \/ Track(r)
    \/ Restart

Spec == Init /\ [][Next]_fate

=============================================================================
