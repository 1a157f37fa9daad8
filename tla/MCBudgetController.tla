------------------------ MODULE MCBudgetController ------------------------
(***************************************************************************)
(* Small instances of BudgetController.                                    *)
(***************************************************************************)
EXTENDS DocumentedPromises, BudgetRefinements

CONSTANTS b1, b2

Spec1(quota, grace, action) ==
    [selector |-> PodNames, blank |-> FALSE, window |-> 2, quota |-> quota, grace |-> grace, action |-> action]

\* A budget that evicts once its one pod has run for a tick.
EvictSpecs == {Spec1(1, 1, "Evict")}

\* A user who also tries a quota of nothing.
NoQuotaEither == EvictSpecs \cup {Spec1(0, 1, "Evict")}

\* Evictions without a grace period.
EvictNow == {Spec1(1, 0, "Evict")}

\* A user who raises the quota out of reach and lowers it again.
EditedSpecs == {Spec1(1, 1, "AlertOnly"), Spec1(9, 1, "AlertOnly")}

\* A user who breaks the selector and mends it.
BrokenSpecs == {Spec1(1, 1, "AlertOnly"), [Spec1(1, 1, "AlertOnly") EXCEPT !.selector = None]}

\* The same for a budget that evicts.
BrokenEvictions == {Spec1(1, 1, "Evict"), [Spec1(1, 1, "Evict") EXCEPT !.selector = None]}

PauseSpecs == {Spec1(1, 0, "Pause")}

OneGpuEach == [n \in PodNames |-> 1]
=============================================================================
