--------------------------- MODULE MCSidescanTiers ---------------------------
(***************************************************************************)
(* A small instance of SidescanTiers: the caps of the code, one layer, and *)
(* the budgets of deeds it starts with.                                    *)
(***************************************************************************)
EXTENDS SidescanTiers

MCLane == {"map", "apply", "cache"}
MCCap  == [l \in MCLane |-> IF l = "cache" THEN 1 ELSE 2]
MCKey  == {RasterKey}
            \cup UNION {{LoadKey(a), TierKey(a, q), WriteKey(a, q)} : a \in Layer, q \in Quality}

Budget(f) == [d \in Deed |-> IF d \in DOMAIN f THEN f[d] ELSE 0]
BudgetUnload   == Budget([select |-> 2, live |-> 1, geometry |-> 1, unload |-> 1])
BudgetWrite    == Budget([select |-> 1, live |-> 1, geometry |-> 1, unload |-> 1, write |-> 1])
BudgetCrs      == Budget([select |-> 1, geometry |-> 1, quality |-> 1, crs |-> 1, delete |-> 1])
BudgetSurvey   == Budget([select |-> 1, overview |-> 1, geometry |-> 1, quality |-> 1,
                          delete |-> 1])
BudgetReload   == Budget([select |-> 1, overview |-> 1, reload |-> 1, switch |-> 1,
                          raster |-> 1])
BudgetRefresh  == Budget([select |-> 1, geometry |-> 2, data |-> 1, palette |-> 1, fail |-> 1])
BudgetCrossed  == Budget([select |-> 1, live |-> 1, data |-> 1, palette |-> 1])
BudgetReselect == Budget([select |-> 2, data |-> 1, fail |-> 1])

MCPlans == {BudgetUnload, BudgetWrite, BudgetCrs, BudgetSurvey, BudgetReload, BudgetRefresh,
            BudgetCrossed, BudgetReselect}
=============================================================================
