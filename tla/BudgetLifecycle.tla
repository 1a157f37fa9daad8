-------------------------- MODULE BudgetLifecycle ---------------------------
(***************************************************************************)
(* What the finalizer promises of a budget, without caches, reconciles,    *)
(* lost calls or names used again: a series is published only while the    *)
(* operator holds the budget, and a budget is let go only once its series  *)
(* is withdrawn.                                                           *)
(***************************************************************************)
CONSTANT Budgets

VARIABLES
    stage,    \* of each budget
    series    \* whether its metric series are published

lifecycleVars == <<stage, series>>

(***************************************************************************)
(* absent  there is no such budget                                         *)
(* loose   it is live and not yet under the operator's finalizer           *)
(* held    it is live under the finalizer                                  *)
(* doomed  it is deleted and kept by the finalizer                         *)
(* left    it is deleted and kept by somebody else's finalizer             *)
(***************************************************************************)
Stages == {"absent", "loose", "held", "doomed", "left"}

Init ==
    /\ stage = [b \in Budgets |-> "absent"]
    /\ series = [b \in Budgets |-> FALSE]

Move(b, from, to) ==
    /\ stage[b] \in from
    /\ \E s \in to : stage' = [stage EXCEPT ![b] = s]
    /\ UNCHANGED series

Create(b) == Move(b, {"absent"}, {"loose"})
Hold(b)   == Move(b, {"loose"}, {"held"})
Delete(b) == Move(b, {"loose"}, {"absent", "left"}) \/ Move(b, {"held"}, {"doomed"})
Vanish(b) == Move(b, {"left"}, {"absent"})

Release(b) == ~series[b] /\ Move(b, {"doomed"}, {"absent", "left"})

Publish(b) ==
    /\ stage[b] \in {"held", "doomed"}
    /\ series' = [series EXCEPT ![b] = TRUE]
    /\ UNCHANGED stage

Withdraw(b) ==
    /\ series' = [series EXCEPT ![b] = FALSE]
    /\ UNCHANGED stage

\* The registry is lost with its process.
Forget ==
    /\ series' = [b \in Budgets |-> FALSE]
    /\ UNCHANGED stage

Next ==
    \/ \E b \in Budgets :
          \/ Create(b) \/ Hold(b) \/ Delete(b) \/ Vanish(b)
          \/ Release(b) \/ Publish(b) \/ Withdraw(b)
    \/ Forget

Spec == Init /\ [][Next]_lifecycleVars
=============================================================================
