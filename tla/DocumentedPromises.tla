------------------------- MODULE DocumentedPromises -------------------------
(***************************************************************************)
(* What comments and documents of the repository say of the operator and   *)
(* the code does not do.  Each property has a run whose counterexample     *)
(* shows the difference; one more such run takes a property of             *)
(* BudgetController that holds with fresh reads and fails with stale ones. *)
(***************************************************************************)
EXTENDS BudgetController

\* evict.go:34 "submits a policy/v1 Eviction against the offender": the eviction
\* meant for one pod is not spent on a later pod of the same name.
EvictsTheNominee ==
    [][worker.pc = "enforce" /\ worker.obj.spec.action = "Evict" =>
          LET n == worker.target.name
          IN  worker'.pc = "stamp" /\ pods'[n] # pods[n] => pods[n].uid = worker.target.pod.uid]_vars

\* controller.go:95 and types.go:47 say that errors, those of the enforcement API
\* among them, update Degraded: a reconcile that ends in an enforcer's error
\* leaves the condition True.
EnforcementErrorsDegrade ==
    [][worker.pc = "enforce" /\ worker' = Idle /\ up'
       => budgets'[Key].status.conds.health = "Degraded"]_vars
=============================================================================
