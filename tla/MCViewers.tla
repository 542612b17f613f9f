------------------------------ MODULE MCViewers ------------------------------
(***************************************************************************)
(* Small instances of Viewers: the heavy lane with its default cap, two    *)
(* lines, one of them without sub-bottom traces, and the budgets of things *)
(* done that a run starts with.                                            *)
(***************************************************************************)
EXTENDS Viewers

MCLane == {"heavy"}
MCCap  == [l \in MCLane |-> 2]
MCKey  == {Pipeline, TraceLoad, TraceProc}

Budget(f) == [d \in Deed |-> IF d \in DOMAIN f THEN f[d] ELSE 0]
BudgetWindow  == Budget([open |-> 1, band |-> 1, scroll |-> 1, params |-> 1, fail |-> 1])
BudgetParams  == Budget([open |-> 1, reload |-> 1, apply |-> 1, params |-> 1])
BudgetNav     == Budget([open |-> 2, nav |-> 1, scroll |-> 1, replace |-> 1])
BudgetProfile == Budget([profile |-> 2, profileParams |-> 2, fail |-> 1, gone |-> 1])
BudgetBoth    == Budget([open |-> 1, profile |-> 1, profileParams |-> 1, replace |-> 1])
BudgetQueue   == Budget([open |-> 1, band |-> 3, profile |-> 1])

MCPlans    == {BudgetWindow, BudgetParams, BudgetNav, BudgetProfile, BudgetBoth, BudgetQueue}
SwitchPlan == {Budget([open |-> 2])}
=============================================================================
