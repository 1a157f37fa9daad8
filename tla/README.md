# Verification of the GPUWorkloadBudget operator

This directory is a TLA+ development of the Kubernetes operator in this
repository: it keeps GPU-hour budgets over rolling windows, and evicts, pauses or
reports the pod that uses most once a budget is exceeded. The modules model the
reconciler with its enforcers, the accounting engine, the conversion of pods and
what the webhook admits; TLC checks small instances and TLAPS proves the main
safety properties for all.

Everything is translated from the Go source; `PROJECT.json` maps each definition
to its lines. `tlc -config X.cfg MCBudgetController` (or `MCLateCalls`, `MCPodLifecycle`,
as the table of section 3 says) runs a check, `tlapm X.tla` a proof.

## 1. Inventory of the system

| Part | Where | State | Operations |
|---|---|---|---|
| accounting engine | `internal/accounting` | none | `WindowUsage`, `Budget.Compute` |
| pod conversion | `internal/controller/pod_conversion.go` | none | `podToAccounting`, `earliestContainerStart`, `podEnd`, `gpuRequestTotal` |
| reconciler | `internal/controller/gpuworkloadbudget_controller.go` | none of its own: budgets and pods live in the API server, copies in the informer caches, keys in the work queue | `Reconcile`, `finalize`, `writeStatus`, `markDegradedAndRequeue`, `maybeEnforce`, `mapPodToBudgets` |
| metric series | `internal/controller/metrics.go` | registry of the process | `publishMetrics`, `clearBudgetMetrics`, the enforcement counter |
| enforcers | `internal/enforcement` | none | `alerter`, `evictor`, `pauser` |
| manager | `cmd/main.go` | caches, queue, one worker; serves the webhook | start, crash, hand-over to the other replica |
| validating webhook | `internal/webhook/v1alpha1` | none | `ValidateCreate`, `ValidateUpdate`, `validateSpec` |
| API types | `api/v1alpha1` | | schema, defaults |
| bench harness, workload generator, demo, charts, CI | `test`, `hack`, `deploy`, `config` | | outside the operator |

**How they interact.** Users, the kubelet and the garbage collector change objects
in the API server. Watches carry the changes to the caches, later and one object at
a time, and put keys in the queue: a budget's own key, or for a pod the keys of the
cached budgets that select it. One worker takes a key and reconciles: it reads the
budget and the pods from the caches, computes the verdict, patches the status,
publishes the series, and if the budget is over and its grace period has passed it
calls an enforcer for the worst offender and patches `lastEnforcementAt`. Each
patch goes to the server without a precondition; the two updates of the finalizer
carry the version that was read. The answer of a patch replaces the object in hand.
The only memory of a pending grace period is the `lastTransitionTime` of the
`QuotaExceeded` condition. The API server asks the webhook, in the same process,
about every create and update of a budget, the operator's own finalizer updates
included, but not about status patches; while the process is down it refuses them
all or, with the policy `Ignore`, lets them all pass.

**What is hard.** Between any two calls of one reconcile the objects may change,
the process may die, the call may fail or its answer be lost; caches may lag; two
budgets may act on one pod; names are used again by new objects; a call that was
given up, by an error or by a process that died or was deposed, may be carried out
after its successor has moved on.
`PROJECT.json` lists the hazards line by line, with the properties that cover them.

**What makes each part correct.**

- Accounting: the number derived from statuses is what a ledger of the real runs
  would hold; windows tile; nothing negative cancels real use.
- Grace clock: enforcement never comes before the grace period of the current
  episode over quota, and nothing but a dip below quota restarts the clock.
- Status: overwritten by one verdict at a time, and right in the end.
- Finalizer: no series outlives its budget, and no deletion hangs.
- Enforcement: the right pod, its author kept, its record never taken back; whoever
  is over quota has a culprit, and in the end the culprit is gone.
- Webhook: lets in nothing the reconciler cannot handle, and never stands in the way
  of a release.

## 2. Modules

| Module | Models |
|---|---|
| `Accounting` | the engine and `gpuHoursToQuantity`, pure operators |
| `PodConversion` | `pod_conversion.go` and `pickWorstOffender`, pure operators over status records |
| `PodLifecycle` | every status a kubelet makes of a pod, beside a ledger of the ticks it ran |
| `Admission` | schema markers, `validateSpec` and the failure policy: which specs are stored |
| `BudgetController` | the core: reconciler, enforcers, series, manager, API server |
| `LateCalls` | the core beside one call that is carried out after it was given up |
| `BudgetInvariants` | the inductive invariants of the proofs, and `OverHasACulprit` |
| `BudgetLifecycle` | abstract: what the finalizer promises |
| `QuotaClock` | abstract: what `QuotaExceeded` promises |
| `BudgetRefinements` | the mappings from the core to those two |
| `DocumentedPromises` | two statements of comments the code does not keep |
| `MCBudgetController`, `MCLateCalls`, `MCPodLifecycle` | small instances |
| `AccountingProofs`, `BudgetTypeProofs`, `BudgetHeldProofs`, `BudgetClockProofs`, `BudgetFreshProofs`, `BudgetEnforcementProofs`, `LateCallsProofs`, `PodLifecycleProofs` | theorems (section 4) |

`BudgetController` extends `Admission` and `PodConversion`, which extend
`Accounting`: the verdict of a reconcile and the choice of the offender are computed
by the modelled engine from the modelled pods, never picked at random, and every
create and update of a budget passes the modelled webhook.

### BudgetController against the code

A reconcile is cut at its calls to the API server, where others interleave:

| Action | Code |
|---|---|
| `Get` | `Reconcile` up to the first call; a deleted budget has its series cleared (`finalize`) |
| `Adopt`, `Refused` | `AddFinalizer` and `Update`, then on in the same pass; a version that moved is a conflict, and the webhook may deny it |
| `Remove`, `Refused` | `RemoveFinalizer` and `Update` |
| `List`, `ListFails` | selector, listing, conversion and `Compute` |
| `Degrade` | `markDegradedAndRequeue` |
| `WriteStatus` | `writeStatus`, then with no call in between `publishMetrics` and the gate of `maybeEnforce` |
| `Alert`, `Evict`, `AlreadyPaused`, `Pause` | the enforcers' `Enforce`, then the counter |
| `Stamp` | the patch of `lastEnforcementAt` |
| `SyncBudget`, `SyncPod` | a watch event: cache and queue (`SetupWithManager`, `mapPodToBudgets`) |
| `Crash`, `Start` | the process dies with all its memory; caches and queue are filled before the first reconcile |

The rest are the environment: users (`CreateBudget`, `EditSpec`, `DeleteBudget`),
the kubelet (`CreatePod` ... `CollectPod`), the garbage collector (`ForeignDone`),
the clock (`Tick`).

State: `budgets` and `pods` are the server, `budgetCache` and `podCache` the
informers, `worker` the locals of the reconcile in progress (`obj` the object in
hand, `at` the instant it read the clock, `listing`, `result`, `target`), `queue`
the keys that are queued or due after an interval, `gauges` and `actions` the
registry. `audit` is history: what reconciles concluded, for the properties.

Points of the translation that matter:

- **Merge patches.** `MergePatch` sends only the fields that differ from the copy
  the client started from. The conditions are one list, so one field: `conds`.
  Its `msg` holds what the message prints, because a changed message alone makes
  the patch carry the list.
- **Fates.** Every call may be carried out, refused, or carried out with its answer
  lost (`Fates`), `MaxFaults` times in all.
- **Stale reads.** `StaleReads = FALSE` makes a read wait until the cache has caught
  up; `TRUE` lets it return anything the cache held. The two are kept apart since
  some properties hold only with the first (section 5).
- **Time.** The clock counts ticks, `TicksPerSecond` to a second; API instants are
  truncated to seconds (`Trunc`). Amounts are GPU-ticks, exact.
- **Identity.** Names are used again; `uid` tells incarnations apart. The code
  compares uids nowhere, the properties do.
- **The counter** stops at `MaxActions`. Requeue intervals have no length: a pending
  requeue may fire at any time, which includes every real schedule.

- **Windows.** `WindowDuration` is `windowHours * time.Hour` in an integer that
  wraps at `MaxDuration` (2562047 hours in the code, 7 ticks in an instance).

### LateCalls against the code

`client.Patch`, `Update` and the eviction return an error when their context ends or
the connection breaks, which says nothing of what the server does with the request.
`Abandon` is a call whose reconcile has ended in an error, or whose process is gone,
with the request still on the wire; `LateUpdate`, `LatePatch` and `LateEnforcement`
are its arrival, against the objects and the webhook of that moment. A deposed
leader, or a `Crash` followed by a `Start` on the other replica, is the same thing:
`wire` holds the old process's last call while the new one works. The finalizer
updates carry the version that was read; the patches and the eviction carry a name.

### The abstract specifications

`BudgetLifecycle` is a budget as a user sees it: absent, loose, held, doomed, left,
and whether its series are published. Nothing in it lags, fails or crashes, except
that a series may be forgotten. Publishing needs the finalizer, letting go needs
the series withdrawn. `QuotaClock` is the `QuotaExceeded` condition as a clock, which
comes and goes with its budget: a flip sets it, anything else leaves it alone, so that
no step clears the clock of a budget that stays, and enforcement begins only at the
end of a conclusion that the budget is over, a grace period after that time.

### PodLifecycle against the code

The kubelet is external; its actions are the status changes the conversion reads:
`Accept` (`startTime`), `StartContainer`, `ExitContainer`, `CrashContainer`
(which keeps one previous termination), `Fail`, `Delete`, and `Collect`: the API server
drops a pod that has ended at any time, and a deleted one once nothing of it runs.
What the report is made of is gone with it, so `Reported` ranges over the pods still
shown. `ledger` collects the ticks in which some container ran, dropped pods included,
and `begun` the first start; `Held` is what the ledger holds of a window, and `Lost` the
part of it that dropped pods did. A name of this module stands for a uid and is not
used again. `SlowPulls` and `StatusesKept` switch two behaviours of real kubelets.

## 3. Runs

| Run (module) | Checks | Bounds |
|---|---|---|
| `grace_faults` (MCBudgetController) | `TypeOK`, `GraceClockFaithful`, `StatusIsLastVerdict`, `GraceOfThisEpisode`, `ImplementsQuotaClock` | fresh reads, half-second ticks, 1 fault, 1 crash, policy Ignore, so that the selector is broken while the process is down; disruption budget |
| `grace_edits` (MCBudgetController) | `GraceClockFaithful`, `GraceOfThisEpisode`, `ImplementsQuotaClock` | fresh reads, AlertOnly, quota edited twice (over, under, over again) |
| `stale_reads` (MCBudgetController) | `GraceNeverEarly`, `ClockInv`, `OverHasACulprit`, `LastEnforcementNeverRegresses` | stale reads, 4 ticks, evictions, cascading deletion, a user who also submits a quota of nothing |
| `deletion` (MCLateCalls) | `SeriesNeverOutliveBudget`, `HeldInv`, `DeletionCompletes`, `ImplementsLifecycle` | stale reads, one late call, 2 incarnations, 1 fault, 1 crash, cascading deletion, no pods |
| `pause_author` (MCBudgetController) | `PauseKeepsItsAuthor` | 2 budgets, fresh reads |
| `convergence` (MCLateCalls) | `StatusConverges`, `OverQuotaIsEnforced` | stale reads, one late call, 1 crash, no failed calls, 2 ticks, 1 pod, 1 spec, evictions without a grace period and without disruption budgets |
| `ledger` (MCPodLifecycle) | `TypeOK`, `ReportsTheLedger` | 2 pods of 1 and 2 GPUs, dropped at any time after their end, windows 0 to 3 of 5 ticks |
| `restarts` (MCPodLifecycle) | `NeverUnderReports`, `StartIsEarliest` | 1 pod, 2 containers, 1 restart each, dropped at any time after its end |
| `silent_errors`, `stale_clock`, `name_reuse` (MCBudgetController), `image_pull` (MCPodLifecycle) | one violated statement each (section 5) | |

**What some of them say.** `OverHasACulprit`: `Compute`
and `pickWorstOffender` take the same window of the same pods, so a verdict of over
quota always names somebody, unless only terminating pods are left. It rests on the
webhook: a quota of 0 is exceeded by nobody. `OverQuotaIsEnforced` is what a
budget is for: it does not stay over quota with a pod left to evict. The clock of the
instance stops, so the pods' usage has to be dealt with at the last instant, through
whatever reads were stale, call arrived late or crash cut an eviction short. It is
checked for a pod that no disruption budget protects: one that is protected for ever
is never evicted, as `docs/limitations.md:32` says. `ReportsTheLedger` and
`NeverUnderReports` are about the pods still shown: `Reported + Lost` is, or covers,
what was held, so the documented loss (`docs/limitations.md:22`) is the only one, and
it is exactly what the dropped pods did.
`ImplementsLifecycle` and `ImplementsQuotaClock` say of every step what the
invariants say of states: a series or a transition time changes in the abstract
ways only.

**Why the bounds are enough.** The reconciler has one worker and no state between
reconciles, so what an interleaving can do is decided by the copies around: the
server's, the cache's, the one in hand and the one on the wire. One budget and one
pod give them all, two incarnations give name reuse, two budgets give contention for
a pod. With `MaxTime` 4 a pod goes over quota at 2 with a window of 2 and is enforced
against at 3 and 4, and there is time for an episode to end and another to start;
`convergence` needs only to go over and be evicted, without a grace period. One fault
and one crash, each at any point, are the single failures; the proofs have no bound.
Quotas are 1 (met after one tick of one GPU), 9 (out of reach) and 0 (denied).
`MaxDuration` 7 is longer than any window of an instance: a window that wraps is an
exception to `OverHasACulprit` (section 5) and touches no other property.

**Deadlock** is not checked: an instance stops when its clock, faults and objects
are used up, and an operator with nothing to do really is idle.

**Fairness** (`Fairness`, used through `LateSpec` by `deletion` and `convergence`).
No reconcile lasts for ever (`[]<>AtRest`): it makes a handful of calls and ends, and
its client gives a call up after a time, so this is the weak fairness of the
worker's steps, said of states, which TLC checks much faster. Weak fairness of `Get`
for each key (the queue hands out every key in turn), of the watches (`SyncBudget`,
`SyncPod`: a watch delivers or is listed again) and of `Start` (the Deployment
restarts the process, or the other replica takes the lease). Nothing is assumed of
users, the kubelet, the clock and the garbage collector, nor that a late call arrives
at all. That faults and crashes are finitely many is the bound; a server that refuses
for ever makes no progress in reality either. Keys never leave the model's queue
except through `Get`, as every ending of a live reconcile is requeued by the code.

## 4. Proofs

Every invariant and action property that a passing run checks is a theorem. All
constants are arbitrary: any sets of budgets, pods and containers, any specs, any
bounds, any failure policy, `StaleReads` either way, unless a theorem says otherwise.
Assumptions are the named `ASSUME`s of `Accounting`, `Admission`, `BudgetController`
and `PodLifecycle`: names are numbers, clock and unit resolutions positive, requests
and specs well typed, `None` no integer, no truth value, no budget and no pod.

**The controller, by itself** (`Spec` of `BudgetController`)

- **`TypeCorrect`** (`BudgetTypeProofs`): `TypeOK` is inductive. Its weight is that
  every copy of a budget stays well formed, and a condition that has a status has a
  transition time: what the grace gate adds to.
- **`HeldAlways`**, **`SeriesCleared`** (`BudgetHeldProofs`): `HeldInv` is inductive,
  and `SeriesNeverOutliveBudget` follows. A series is published by a reconcile that holds a live copy
  with the finalizer, and may run long after the copy was read. It has to be shown
  that the server still holds that incarnation. It does because only this worker
  removes the finalizer, after it read the deletion from the same cache, so that
  whatever the cache shows live afterwards is a later incarnation (`SeenDeleted`),
  and because the removal conflicts when the object is not the one read (`IsPast`
  orders incarnations).
- **`LifecycleImplemented`** (`BudgetHeldProofs`): the operator implements
  `BudgetLifecycle`. Every step moves one budget by one abstract step or none; the
  two that need an argument are `WriteStatus`, which publishes only for a budget
  still held, and `Remove`, which lets go only of one whose series is withdrawn.
  Both come from `HeldInv`, in the state before the step.
- **`ClockAlways`**, **`NeverEarly`** (`BudgetClockProofs`): `ClockInv` is inductive,
  and `GraceNeverEarly` follows: no copy of the current incarnation around, on the server, in the cache
  or in hand, carries a transition time from before the incarnation was first found
  over. It rests on `HeldInv`, which excludes that a patch of one incarnation reaches
  the next.
- **`EnforcementRecorded`** (`BudgetEnforcementProofs`): `LastEnforcementNeverRegresses`,
  with caches of any age. Patches of other fields leave the stamp alone, whatever copy
  they were made from; the stamp itself may be made from an old copy, but there is one
  worker, so no stamp on the server is past the instant its reconcile read (`StampInv`).
- **`CulpritExists`** (`BudgetEnforcementProofs`): `OverHasACulprit`, by two inductive
  invariants. `PodsInv`: whatever the caches hold are finitely many well-formed pods,
  and the verdict about to be written is that of the listing. `AdmittedInv`: every
  copy of a budget, in hand included, has a quota and a window above nothing. Then
  the pods' contributions add up to a positive number, one of them is positive
  (`ComputeIs`), and it is one the choice of the offender ranges over
  (`WorstIsChosen`). Two hypotheses: the policy is `Fail`, as otherwise a quota
  of 0 is stored while the process is down, and no window is longer than a
  `time.Duration`. Without them the property is false (section 5).
- **`PauseAttributed`** (`BudgetEnforcementProofs`): `PauseKeepsItsAuthor`, with
  `StaleReads = FALSE`, for any number of budgets and pods. From the listing until the
  patch, a pod not listed as paused is not paused on the server (`PauseInv`), since
  only the one worker pauses; and the nominee is a pod of the listing, by `WorstIsChosen`.
- **`ClockFaithful`, `LastVerdict`, `EpisodeWaits`** (`BudgetFreshProofs`): the three
  properties of the status that need fresh reads, `StaleReads = FALSE`; `stale_clock`
  shows that the third fails without it. `FreshInv` is inductive: from
  `Get` until the reconcile writes, the status in hand is the server's, since the
  worker is the only writer of statuses and deletion waits for its finalizer
  (`HeldInv`). So the merge patch, which would otherwise mix two statuses, is the whole
  status it was made for, and each write adds to what the one before it concluded.
- **`QuotaClockImplemented`** (`BudgetFreshProofs`): with fresh reads the operator
  implements `QuotaClock`. `WriteStatus` is the one step that concludes; that the
  instant it stamps is not before the clock's is `TurnedBy` of `FreshInv`. A clock is
  made with its budget (`CreateBudget`) and dropped with it (`DeleteBudget`, `Remove`,
  `ForeignDone`); every other step is silent, `Degrade` above all.

The proofs split the same way: the steps that move the caches, the calls of the
worker, the users, and the steps that only surround them, one lemma each, and a
final temporal step.

**The controller beside a late call** (`LateSpec` of `LateCalls`)

- **`LateHeldAlways`, `LateSeriesCleared`, `LateLifecycleImplemented`**
  (`LateCallsProofs`): `HeldInv`, `SeriesNeverOutliveBudget` and `ImplementsLifecycle`
  survive a call that is carried out at any time after it was given up. `WireInv` is
  added to the induction: a removal of the finalizer on the wire is of a budget whose
  series is withdrawn, whose deletion the cache has shown, and which no reconcile
  holds as live. The steps of `BudgetController` keep it because they only move
  budgets on (`AllOnward`). A call becomes one on the wire in the state
  before the worker is reset, where `HeldInv` says of the worker what `WireInv` says
  of the wire. `LatePatch` writes only the status, so it is silent to the abstract
  life; `LateUpdate` carries the version it read, so it is a step of that life or a
  conflict. The other properties are theorems about `Spec` only; two of them are
  false here (section 5).

**The pods** (`Spec` of `PodLifecycle`)

- **`StartRemembered`, `NothingLost`** (`PodLifecycleProofs`): `StartIsEarliest` and
  `NeverUnderReports`, for all constants. `KeptInv` is inductive: each container's
  status holds no start before the first one, and one container's shows it, or has
  forgotten it because that container was restarted twice; every tick of the ledger
  lies between it and now, or the last termination of a pod that succeeded. Of a pod
  that the API server has dropped it says only that nothing more happens to it. The start
  may move from `running` to `terminated` or to `lastState` between two readings, in
  any order among containers; what is shown is that it never drops out. So the
  interval handed to the engine spans the ticks of the pod's ledger in each window
  (`UsageCounts`), and the sum over the pods still shown spans their part of the
  ledger, grouped by pod (`TotalByColumn`). What is held splits into that part and the
  part of the dropped pods, `Lost` (`LedgerSplits`, from `TotalUnion`): the theorem is
  that report and loss together leave nothing out.
- **`LedgerReported`, `PodTypes`** (`PodLifecycleProofs`): `ReportsTheLedger`, that
  report and loss are the ledger, for pods of one container, and `TypeOK`, both when nothing disturbs the pods:
  starts are prompt, statuses kept, nothing is restarted (`Undisturbed`, which is what the
  `ledger` run chooses). These are the limits of the
  claim, not of the proof: a slow pull and a back-off are billed, two containers that
  overlap in part are billed for the whole span, and a pod that
  is deleted before it is accepted, and then fails without statuses or in back-off,
  has an end that precedes its start.

**The engine** (`AccountingProofs`)

- **`UsageNonNegative`, `UsageBounded`, `UsageSplits`, `QuantityRounds`,
  `QuantityClamps`**: the engine on one pod, for all instants: contributions are never
  negative, are bounded by the window, and adjacent windows tile.
- **`WorstIsChosen`**: `pickWorstOffender` nominates a pod that has used at least as much
  as every other offender, the first by name among equals, for any finite listing.
- The sums, minima and choices of the engine are folds of the library over finite sets. The
  prover has no induction for predicates, but it has sets: a predicate on the
  subsets of S is the set F of those that satisfy it, and a set outside F would have a
  minimal one under strict inclusion, which is well-founded (`FiniteInduction`). From
  it follow that a total does not depend on the order of the fold, splits over
  disjoint sets, is monotone, and is zero only where all is zero (`Total...`), and that
  `ComputeIs` the sum of the contributions.

**Model-checked only:** the liveness properties `DeletionCompletes`, `StatusConverges`
and `OverQuotaIsEnforced`, which rest on fairness and are out of the prover's reach,
and the four runs that show a violation.

## 5. Where code and documents differ

Shown by a run (`findings` in `PROJECT.json`):

- `silent_errors`: an enforcer's error does not set Degraded, against the comments
  at `gpuworkloadbudget_controller.go:95` and `types.go:47`.
- `stale_clock`: with a lagging cache the transition time of an earlier episode is
  written back and enforcement skips the grace period of the current one, against
  `gpuworkloadbudget_controller.go:274`. `GraceNeverEarly`, the weaker guarantee
  that is left, is proved.
- `name_reuse`: an eviction names a pod and may reach its successor.
- `image_pull`: an image pull is billed while it lasts, against
  `docs/accounting-model.md:24`.

Met on the way, without a run:

- `docs/limitations.md:49`: a restart does not reset the grace timer; it lives in the
  status. `GraceClockFaithful` holds across crashes.
- `types.go:75`: AlertOnly does not ignore the grace period.
- `pause.go:50`: the counter is bumped for a pod already paused.
- `docs/limitations.md:22`, `docs/accounting-model.md:30` and `:62`, `accounting.go:24`: a
  pod that the API server has dropped contributes zero from then on. So it does in the
  model: `ReportsTheLedger` and `NeverUnderReports` say that the report falls short by
  exactly, or at most, what the dropped pods did in the window (`Lost`), which is the
  bound of `accounting-model.md:67`, GPUs of the lost pods times their runtime. But the
  loss is not only that of a long outage: the report is computed afresh from the pods
  listed (`gpuworkloadbudget_controller.go:138`), so the usage of a pod leaves the bill
  as soon as it is collected, with the operator up, long before it leaves the window.
- `docs/accounting-model.md:82`: back-off between two runs of a container is billed.
- `pod_conversion.go:79`: after a second restart the first start is forgotten; a pod
  that fails in back-off loses its last run. `StartsRemembered` is the condition.
- `pod_conversion.go:125`: a failed pod without container statuses and without a
  deletion timestamp is billed as if it ran.
- With stale reads, `StatusIsLastVerdict` and `PauseKeepsItsAuthor` fail: the status
  may mix two reconciles until the next one (`StatusConverges` says it heals), and a
  second budget may overwrite a fresh pause.
- A late patch (`LateCalls`) can move `lastEnforcementAt` back, and, arriving at
  the recreated budget, gives it the transition time of its predecessor: neither
  `LastEnforcementNeverRegresses` nor `GraceNeverEarly` holds there. The first needs
  an interval in which the old call stays on the wire while the new leader alerts.
- `types.go:123`: `lastEnforcementAt` is when an action was last taken, unless the
  process dies, or the patch fails, between an eviction and its stamp; then the next
  reconcile finds the pod terminating and never records the eviction.
- `NOTES.txt:28`: with the webhook off, a budget with an empty selector or a quota of
  0 is admitted and nothing in its status tells: both are legal to the reconciler,
  and the empty selector selects every pod.
- `webhook.go:74`: teardown goes "via a finalizer", and the webhook is asked about
  the update that removes it. A budget stored with a denied spec, while the webhook
  was off or the policy `Ignore` let it pass, is neither adopted nor, if it was, ever
  released until its spec is mended.
- `accounting.go:59`: non-positive windows are not all rejected. From 2562048 hours
  on the product wraps; where it is negative `Compute` takes the whole past and
  `pickWorstOffender` an empty window: over quota, and nobody to act on.
- `values.yaml:12` "two replicas *is* safe": confirmed, in this model, for
  convergence, deletion and the lifecycle.

## 6. Not modelled

- Floating-point rounding of the engine.
- Namespaces, several GPU resources, init containers (the code skips them), events,
  logs, condition reasons; `gwb_accounting_accuracy_ratio`, which is never written.
- The lease itself: two replicas interact in the model through the one call a
  deposed leader may have on the wire, not through several calls it still makes
  before it notices. The removal of the operator's finalizer by hand.
- Defaults of the schema, which change no decision, and the wording of denials.
- `evictor`'s branch for a terminating pod: `pickWorstOffender` never names one.
- Bench harness, workload generator, deployment files.

## 7. Plan

Done: modules and runs above, with the webhook, the two abstract specifications, late
calls and the liveness of enforcement; proofs of every invariant and action property
that the runs check. In order of weight, next:

1. Several pods: what an eviction buys when the worst offender is a finished pod
   (`gpuworkloadbudget_controller.go:339`), and who is never paused when a paused pod
   remains the worst (`pause.go:57`).
2. The other properties beside a late call: what is left of `GraceNeverEarly` when a
   patch may reach the next incarnation.
3. `ObservedStatus`: an atomic reconcile as the abstraction of the split one.
4. The bench harness's expected curve against `Compute` over bounded scenarios.
