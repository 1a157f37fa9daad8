----------------------------- MODULE LateCalls ------------------------------
(***************************************************************************)
(* The operator against an API server that may carry out a call after the  *)
(* caller has given it up: its connection broke, or its process died or    *)
(* lost the leader lease with the call on the wire.  By then the retry, or *)
(* the process that took over (a restart, or the other replica), may have  *)
(* moved on: BudgetController beside one such call.                        *)
(*                                                                         *)
(* A replica that takes over without such a call is a Crash and a Start.   *)
(***************************************************************************)
EXTENDS BudgetController

VARIABLE wire   \* the reconcile whose last call is still on its way, or Idle

lateVars == <<vars, wire>>

\* The reconcile in progress has called the server.
Calling ==
    \/ worker.pc \in {"adopt", "remove", "degrade", "write", "stamp"}
    \/ worker.pc = "enforce" /\ worker.obj.spec.action = "Evict"
    \/ worker.pc = "enforce" /\ worker.obj.spec.action = "Pause" /\ ~Paused(worker.target.pod)

GiveUp ==
    \/ Adopt("rejected") \/ Remove("rejected") \/ Degrade("rejected")
    \/ WriteStatus("rejected") \/ Stamp("rejected")
    \/ Evict("rejected", FALSE) \/ Pause("rejected")

Abandon ==
    /\ wire = Idle /\ Calling
    /\ GiveUp \/ Crash
    /\ wire' = worker

Arrived(pcs) ==
    /\ wire.pc \in pcs
    /\ wire' = Idle
    /\ UNCHANGED <<now, operatorVars, boundVars, audit>>

\* Mutant of LateUpdate: no resourceVersion, only a name.
LateUpdateByName ==
    /\ Arrived({"adopt", "remove"})
    /\ budgets[wire.key] # NoBudget
    /\ budgets' = [budgets EXCEPT ![wire.key] =
          IF wire.pc = "adopt" THEN [wire.obj EXCEPT !.finalizer = TRUE]
          ELSE WithoutFinalizer(wire.obj)]
    /\ UNCHANGED pods

\* The updates of the finalizer carry the resourceVersion, and the webhook is
\* asked when they arrive.
LateUpdate ==
    /\ Arrived({"adopt", "remove"})
    /\ budgets[wire.key] = wire.obj /\ Admitted(wire.key)
    /\ budgets' = [budgets EXCEPT ![wire.key] =
          IF wire.pc = "adopt" THEN [wire.obj EXCEPT !.finalizer = TRUE]
          ELSE WithoutFinalizer(wire.obj)]
    /\ UNCHANGED pods

\* What each patch makes of the status its reconcile had in hand.
PatchedStatus(w) ==
    CASE w.pc = "degrade" -> DegradedStatus(w.obj)
      [] w.pc = "write"   -> ReconciledStatus(w.obj, w.result, w.at)
      [] w.pc = "stamp"   -> [w.obj.status EXCEPT !.lastEnforcementAt = Trunc(w.at)]

\* The patches of the status carry nothing but a name.
LatePatch ==
    /\ Arrived({"degrade", "write", "stamp"})
    /\ budgets[wire.key] # NoBudget
    /\ budgets' = [budgets EXCEPT ![wire.key].status =
                      MergePatch(@, wire.obj.status, PatchedStatus(wire))]
    /\ UNCHANGED pods

\* So do an eviction and the patch of the pause annotations.
LateEnforcement ==
    /\ Arrived({"enforce"})
    /\ LET n == wire.target.name
       IN  /\ pods[n] # None
           /\ pods' = [pods EXCEPT ![n] =
                 IF wire.obj.spec.action = "Evict" THEN Evicted(@, wire.obj.spec.grace)
                 ELSE [@ EXCEPT !.pausedBy = wire.key]]
    /\ UNCHANGED budgets

LateInit == Init /\ wire = Idle

LateNext ==
    \/ Next /\ UNCHANGED wire
    \/ Abandon \/ LateUpdate \/ LatePatch \/ LateEnforcement

\* That the call arrives at all is not assumed.
LateSpec == LateInit /\ [][LateNext]_lateVars /\ Fairness

-----------------------------------------------------------------------------
\* Budget b is live and evicts, the pods as they are put it over quota, and no
\* grace period is pending.
Overdue(b) ==
    LET budget == budgets[b]
    IN  /\ budget # NoBudget /\ ~budget.deleting
        /\ budget.spec.action = "Evict" /\ budget.spec.selector # None
        /\ Verdict(budget.spec, Listing(pods, budget.spec.selector), now).over
        /\ budget.status.conds.over = TRUE => GraceElapsed(budget, now)

\* The running pods that count against budget b.
Culprits(b) ==
    LET budget  == budgets[b]
        listing == Listing(pods, budget.spec.selector)
    IN  Offenders(listing, now - WindowDuration(budget.spec.window), now)

\* A budget does not stay over quota with a pod left to evict and no grace period
\* to wait for: passing time is noticed without an event, and an eviction that a
\* crash cut short, or that was meant for a pod already gone, is followed by the
\* next (Reconcile's requeue, maybeEnforce, evictor.Enforce).
OverQuotaIsEnforced ==
    \A b \in Budgets : <>[]Overdue(b) => <>[](budgets[b] # NoBudget => Culprits(b) = {})
=============================================================================
