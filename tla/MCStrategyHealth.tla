-------------------------- MODULE MCStrategyHealth --------------------------
EXTENDS StrategyHealth

MCPercentages == {[train |-> 70, val |-> 15, test |-> 15],
                  [train |-> 60, val |-> 10, test |-> 30],
                  [train |-> 70, val |-> 20, test |-> 20]}
=============================================================================
