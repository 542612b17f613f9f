---------------------------- MODULE MCLayerBakes ----------------------------
(***************************************************************************)
(* Two sidescan layers of one file and a sub-bottom layer of another.      *)
(***************************************************************************)
EXTENDS LayerBakes

\* Model values are assigned to the layers and files in the configurations.
CONSTANTS s1, s2, u1, f1, f2

MCModality   == {"sss", "sbp"}
MCModalityOf == [l \in Layer |-> IF l = u1 THEN "sbp" ELSE "sss"]
MCSourceOf   == [l \in Layer |-> IF l = u1 THEN f2 ELSE f1]
MCInOrder    == [ls \in SUBSET Layer |-> SelectSeq(<<s1, s2, u1>>, LAMBDA l : l \in ls)]

Budget(f0) == [d \in Deed |-> IF d \in DOMAIN f0 THEN f0[d] ELSE 0]
BudgetBatch == Budget([bake |-> 2, reopen |-> 1])
BudgetGraph == Budget([run |-> 1, runAll |-> 1, edit |-> 1, revert |-> 1])
BudgetBoth  == Budget([apply |-> 1, run |-> 2, revert |-> 1, reopen |-> 1])

PlansBakes == {BudgetBatch, BudgetGraph, BudgetBoth}
MCCustomized == {Layer}
=============================================================================
