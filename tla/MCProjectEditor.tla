---------------------------- MODULE MCProjectEditor ----------------------------
(* A filter with one input, a merge with two and a MultiMerge that starts   *)
(* with four; and contacts.                                                 *)
EXTENDS ProjectEditor

MCNode  == 1..3
MCCount == <<1, 2, 4>>
MCWide  == {3}

Budget(keys, deeds) == [d \in keys |-> IF d \in DOMAIN deeds THEN deeds[d] ELSE 0]
Idle == Budget(ContactDeed, <<>>)
Still == Budget(Deed, [reopen |-> 1])
Aside == Budget(Deed, [add |-> 1, fail |-> 1, reopen |-> 1])

GraphPlans ==
  { Budget(Deed, [add |-> 3, drag |-> 4, delete |-> 1, unlink |-> 1, reopen |-> 1]),
    Budget(Deed, [add |-> 3, drag |-> 2, delete |-> 1, group |-> 2, ungroup |-> 1, fail |-> 1, reopen |-> 1]),
    Budget(Deed, [add |-> 3, drag |-> 3, widen |-> 1, fail |-> 1, reopen |-> 1]) }
\* Grouping again after ungrouping the first of two groups.
RegroupPlan == Budget(Deed, [add |-> 3, group |-> 3, ungroup |-> 1, reopen |-> 1])

BinPlan   == Budget(ContactDeed, [pick |-> 3, recycle |-> 2, restore |-> 1, purge |-> 1, undo |-> 2, redo |-> 2])
EmptyPlan == Budget(ContactDeed, [pick |-> 2, recycle |-> 2, empty |-> 1, undo |-> 2])
GroupPlan == Budget(ContactDeed, [pick |-> 1, assign |-> 1, newgroup |-> 1, dropgroup |-> 1, tree |-> 1, undo |-> 2, redo |-> 1])
PairPlan  == Budget(ContactDeed, [pick |-> 2, assign |-> 1, newgroup |-> 1, undo |-> 1, redo |-> 1])
ContactPlans == {BinPlan, EmptyPlan, GroupPlan, PairPlan}

MCPlans == GraphPlans \cup {RegroupPlan, Still, Aside}
MCAllowances == ContactPlans \cup {Idle}

ErrandsEdit == (GraphPlans \X {Idle}) \cup ({Still} \X {BinPlan, GroupPlan, PairPlan}) \cup {<<Aside, EmptyPlan>>}
ErrandsRegroup == {<<RegroupPlan, Idle>>}
=============================================================================
