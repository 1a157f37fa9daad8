------------------------- MODULE BudgetRefinements -------------------------
(***************************************************************************)
(* What BudgetController implements: the life of a budget under its        *)
(* finalizer (BudgetLifecycle), whatever the caches show, and, as long as  *)
(* reads are fresh, the clock of QuotaExceeded (QuotaClock).               *)
(***************************************************************************)
EXTENDS BudgetInvariants

\* Where the server's copy o of a budget stands.
StageOf(o) ==
    CASE o = NoBudget                   -> "absent"
      [] o # NoBudget /\ o.deleting     -> IF o.finalizer THEN "doomed" ELSE "left"
      [] OTHER                          -> IF o.finalizer THEN "held" ELSE "loose"

Lifecycle ==
    INSTANCE BudgetLifecycle
        WITH stage  <- [b \in Budgets |-> StageOf(budgets[b])],
             series <- [b \in Budgets |-> gauges[b] # None]

\* The clock that o keeps; that of an object not yet reconciled is not set.
ClockOf(o) ==
    IF o = NoBudget
    THEN [exists |-> FALSE, over |-> None, at |-> None]
    ELSE [exists |-> TRUE,
          over   |-> o.status.conds.over,
          at     |-> IF o.status.conds.over = None THEN None ELSE o.status.conds.overAt]

Clock ==
    INSTANCE QuotaClock
        WITH clock  <- [b \in Budgets |-> ClockOf(budgets[b])],
             acting <- IF worker.pc = "enforce" THEN Key ELSE None,
             Graces <- {Seconds(spec.grace) : spec \in Specs}

\* Through stale caches, lost calls, crashes and names used again, a budget is
\* held before a series is published, let go only after it is withdrawn, and
\* gone only in those ways (Reconcile, finalize, publishMetrics).
ImplementsLifecycle == Lifecycle!Spec

\* With fresh reads the transition time of QuotaExceeded moves only on a flip,
\* never backwards, is not disturbed by edits, failures, Degraded periods or
\* crashes, is cleared only with the budget itself, and an enforcement begins only at the end of a reconcile that found the budget over
\* and a grace period after that time (writeStatus, maybeEnforce).
ImplementsQuotaClock == Clock!Spec
=============================================================================
