-------------------------- MODULE BudgetController --------------------------
(***************************************************************************)
(* The operator: the reconciler of GPUWorkloadBudgets (internal/controller)*)
(* with its enforcers (internal/enforcement), one manager process with its *)
(* informer caches, work queue and metric registry, against the API server *)
(* that holds budgets and pods.                                            *)
(*                                                                         *)
(* A reconcile is cut at its calls to the API server, since those are the  *)
(* points where users, the kubelet, the clock and a crash interleave:      *)
(*                                                                         *)
(*   Get -> [Adopt] -> List -> WriteStatus -> [Alert|Evict|Pause -> Stamp] *)
(*   Get -> ClearAndRemove        List -> Degrade                          *)
(*                                                                         *)
(* Reads come from the informer caches, writes go to the server.  With     *)
(* StaleReads = FALSE a read waits until the cache has caught up, as it    *)
(* nearly always has; with TRUE it may return any state the cache held.    *)
(*                                                                         *)
(* Not modelled: namespaces (all objects share one), event recording,      *)
(* logging, the lengths of the requeue intervals (a pending requeue may    *)
(* fire at any time), the removal of the operator's finalizer by hand.     *)
(* Calls that arrive after they were given up are in LateCalls.            *)
(***************************************************************************)
EXTENDS PodConversion, Admission

CONSTANTS
    Budgets,         \* names of budgets
    PodNames,        \* names of pods, in alphabetical order
    Specs,           \* the budget specs users write
    Gpus,            \* GPUs the pod of each name requests
    TicksPerSecond,  \* resolution of the controller's clock
    StaleReads,      \* whether the caches may lag behind the server
    PdbVerdicts,     \* whether a disruption budget may block: {FALSE}, or BOOLEAN
    CascadeModes,    \* whether deletion may add the API server's own finalizer
    MaxTime, MaxBudgets, MaxPods, MaxGeneration, MaxFaults, MaxCrashes, MaxActions  \* bounds

ASSUME NamesAssumption == PodNames \subseteq Nat /\ None \notin Budgets
ASSUME GpusAssumption == Gpus \in [PodNames -> Nat \cup {None}]
ASSUME ClockAssumption == TicksPerSecond \in Nat \ {0}
ASSUME SpecsAssumption ==
    Specs \subseteq [selector : (SUBSET PodNames) \cup {None}, blank : BOOLEAN,
                     window : Int, quota : Int, grace : Nat, action : Actions]
ASSUME SwitchAssumption ==
    StaleReads \in BOOLEAN /\ PdbVerdicts \subseteq BOOLEAN /\ CascadeModes \subseteq BOOLEAN

VARIABLES
    now,          \* the clock
    budgets,      \* API server: budget objects by name, NoBudget if absent
    pods,         \* API server: pods by name, None if absent
    up,           \* the manager process runs
    budgetCache,  \* its informer caches
    podCache,
    queue,        \* keys in the work queue, or due there after an interval
    worker,       \* the reconcile in progress
    gauges,       \* consumed, remaining and tracked series by budget
    actions,      \* gwb_enforcement_actions_total by budget
    budgetsMade, podsMade, faults, crashes,   \* what the bounds limit
    audit         \* history: what reconciles concluded about each budget

serverVars == <<budgets, pods>>
cacheVars  == <<up, budgetCache, podCache>>
metricVars == <<gauges, actions>>
boundVars  == <<budgetsMade, podsMade, faults, crashes>>
vars == <<now, serverVars, cacheVars, queue, worker, metricVars, boundVars, audit>>

-----------------------------------------------------------------------------
(***************************************************************************)
(* Objects.                                                                *)
(***************************************************************************)
\* The three conditions.  Ready and Degraded are always written together and
\* oppositely (health); over is the status of QuotaExceeded, overAt its
\* lastTransitionTime and msg its message.
NoConditions == [health |-> None, over |-> None, overAt |-> None, msg |-> None]

EmptyStatus == [consumed |-> 0, remaining |-> 0, tracked |-> 0, gen |-> 0,
                conds |-> NoConditions, lastEnforcementAt |-> None]

\* finalizer is the operator's own; foreign is any other one on the object.
NewBudget(uid, spec) ==
    [uid |-> uid, gen |-> 1, spec |-> spec, finalizer |-> FALSE,
     foreign |-> FALSE, deleting |-> FALSE, status |-> EmptyStatus]

\* No object has uid 0.
NoBudget == [uid |-> 0]

\* pausedBy stands for the two pause annotations, which are set together.
NewPod(uid, gpus) ==
    [uid |-> uid, requests |-> <<gpus>>, startTime |-> None, statuses |-> <<>>,
     phase |-> "Pending", deletionTimestamp |-> None, pausedBy |-> None]

\* metav1.Time keeps whole seconds.
Trunc(t) == t - (t % TicksPerSecond)

Seconds(s) == s * TicksPerSecond

\* Mutant of MergePatch: an update of the whole status without resourceVersion.
UpdateWhole(current, base, changed) == changed

\* A merge patch carries the fields that differ from the base the client
\* started from, and no precondition on what the server holds by then.
MergePatch(current, base, changed) ==
    [f \in DOMAIN current |-> IF changed[f] = base[f] THEN current[f] ELSE changed[f]]

\* Mutants of QuotaCondition: the first flip is not stamped; every write stamps;
\* only the first write ever stamps.
QuotaConditionUnstamped(conds, result, quota, t) ==
    [health |-> "Ready", over |-> result.over,
     overAt |-> IF conds.over \in {None, result.over} THEN conds.overAt ELSE Trunc(t),
     msg    |-> None]

QuotaConditionRestamped(conds, result, quota, t) ==
    [health |-> "Ready", over |-> result.over, overAt |-> Trunc(t), msg |-> None]

QuotaConditionStampedOnce(conds, result, quota, t) ==
    [health |-> "Ready", over |-> result.over,
     overAt |-> IF conds.over = None THEN Trunc(t) ELSE conds.overAt, msg |-> None]

(***************************************************************************)
(* What writeStatus and markDegradedAndRequeue turn the object's status    *)
(* into, and the gate of maybeEnforce.                                     *)
(***************************************************************************)
\* meta.SetStatusCondition moves the transition time only on a flip.
QuotaCondition(conds, result, quota, t) ==
    [health |-> "Ready",
     over   |-> result.over,
     overAt |-> IF conds.over = result.over THEN conds.overAt ELSE Trunc(t),
     msg    |-> [consumed |-> GpuHoursToQuantity(result.consumed),
                 quota    |-> IF result.over THEN None ELSE quota]]

\* Mutant of ReconciledStatus: the number of tracked pods is written once.
ReconciledStatusUntracked(obj, result, t) ==
    [obj.status EXCEPT !.consumed  = GpuHoursToQuantity(result.consumed),
                       !.remaining = GpuHoursToQuantity(result.remaining),
                       !.tracked   = IF obj.status.gen = 0 THEN result.tracked ELSE @,
                       !.gen       = obj.gen,
                       !.conds     = QuotaCondition(@, result, obj.spec.quota, t)]

ReconciledStatus(obj, result, t) ==
    [obj.status EXCEPT !.consumed  = GpuHoursToQuantity(result.consumed),
                       !.remaining = GpuHoursToQuantity(result.remaining),
                       !.tracked   = result.tracked,
                       !.gen       = obj.gen,
                       !.conds     = QuotaCondition(@, result, obj.spec.quota, t)]

\* Mutant of DegradedStatus: the conditions are rebuilt from nothing.
DegradedStatusOnly(obj) ==
    [obj.status EXCEPT !.gen = obj.gen, !.conds = [NoConditions EXCEPT !.health = "Degraded"]]

DegradedStatus(obj) ==
    [obj.status EXCEPT !.gen = obj.gen, !.conds = [@ EXCEPT !.health = "Degraded"]]

\* Mutant of GraceElapsed: the grace period is not added.
GraceIgnored(obj, t) == obj.status.conds.over = TRUE /\ t >= obj.status.conds.overAt

GraceElapsed(obj, t) ==
    /\ obj.status.conds.over = TRUE
    /\ t >= obj.status.conds.overAt + Seconds(obj.spec.grace)

-----------------------------------------------------------------------------
(***************************************************************************)
(* The worker: one reconcile at a time (MaxConcurrentReconciles is 1).     *)
(***************************************************************************)
Idle == [pc |-> "idle", key |-> None, obj |-> NoBudget, at |-> None,
         listing |-> None, result |-> None, target |-> None]

\* The fate of a request to the API server: carried out and answered, refused
\* or dropped on the way, or carried out with the answer lost.
Fates == {"ok", "rejected", "lost"}
Applied(fate) == fate # "rejected"

Sent(fate) ==
    /\ fate # "ok" => faults < MaxFaults
    /\ faults' = IF fate = "ok" THEN faults ELSE faults + 1
    /\ UNCHANGED <<budgetsMade, podsMade, crashes>>

Key == worker.key

\* Mutant of EndAndRequeue: the error is swallowed and nothing is queued again.
EndAndForget == worker' = Idle /\ UNCHANGED queue

\* An error is retried after a backoff, a success after an interval, and the
\* model keeps no lengths of time: both leave the key in the queue.
EndAndRequeue == worker' = Idle /\ queue' = queue \cup {Key}

Bump(counter) == IF counter < MaxActions THEN counter + 1 ELSE counter

\* With fresh reads a handler waits until the cache holds what the server does.
BudgetReadable(b) == StaleReads \/ budgetCache[b] = budgets[b]
PodsReadable      == StaleReads \/ podCache = pods

\* Mutant of ClearBudgetMetrics: the series are left behind.
KeepBudgetMetrics(series, b) == series

\* The three series of a budget; the counter is left alone.
ClearBudgetMetrics(series, b) == [series EXCEPT ![b] = None]

\* Reconcile up to its first call: the object is read from the cache; a
\* deleted one has its series cleared and goes to the removal of the finalizer.
Get(b) ==
    /\ up /\ worker.pc = "idle" /\ b \in queue /\ BudgetReadable(b)
    /\ queue' = queue \ {b}
    /\ LET obj == budgetCache[b]
           goTo(pc) == worker' = [Idle EXCEPT !.pc = pc, !.key = b, !.obj = obj]
       IN  \/ /\ obj = NoBudget \/ (obj # NoBudget /\ obj.deleting /\ ~obj.finalizer)
              /\ UNCHANGED <<worker, gauges>>
           \/ /\ obj # NoBudget /\ obj.deleting /\ obj.finalizer
              /\ goTo("remove")
              /\ gauges' = ClearBudgetMetrics(gauges, b)
           \/ /\ obj # NoBudget /\ ~obj.deleting
              /\ goTo(IF obj.finalizer THEN "list" ELSE "adopt")
              /\ UNCHANGED gauges
    /\ UNCHANGED <<now, serverVars, cacheVars, actions, boundVars, audit>>

\* Mutant of Current: an update without the resourceVersion precondition.
CurrentByName == budgets[Key] # NoBudget

\* r.Update carries the resourceVersion that was read: it conflicts unless the
\* object is still the one in hand.
Current == budgets[Key] = worker.obj

\* What the webhook says of an update of b that leaves its spec alone: the
\* operator's finalizers pass through it like any user's edit.
Admitted(b) == Admits(budgets[b].spec, up)

\* A conflict, or an update the webhook denies.
Refused ==
    /\ up /\ worker.pc \in {"adopt", "remove"} /\ ~(Current /\ Admitted(Key))
    /\ EndAndRequeue
    /\ UNCHANGED <<now, serverVars, cacheVars, metricVars, boundVars, audit>>

Adopt(fate) ==
    /\ up /\ worker.pc = "adopt" /\ Current /\ Admitted(Key) /\ Sent(fate)
    /\ LET adopted == [worker.obj EXCEPT !.finalizer = TRUE]
       IN  /\ budgets' = IF Applied(fate) THEN [budgets EXCEPT ![Key] = adopted] ELSE budgets
           /\ IF fate = "ok"
              THEN /\ worker' = [worker EXCEPT !.pc = "list", !.obj = adopted]
                   /\ UNCHANGED queue
              ELSE EndAndRequeue
    /\ UNCHANGED <<now, pods, cacheVars, metricVars, audit>>

\* The last finalizer gone, the server drops a deleted object.
WithoutFinalizer(obj) == IF obj.foreign THEN [obj EXCEPT !.finalizer = FALSE] ELSE NoBudget

Remove(fate) ==
    /\ up /\ worker.pc = "remove" /\ Current /\ Admitted(Key) /\ Sent(fate)
    /\ budgets' = IF Applied(fate)
                  THEN [budgets EXCEPT ![Key] = WithoutFinalizer(worker.obj)] ELSE budgets
    /\ IF fate = "ok" THEN worker' = Idle /\ UNCHANGED queue ELSE EndAndRequeue
    /\ UNCHANGED <<now, pods, cacheVars, metricVars, audit>>

\* The pods a budget selects, as the cache lists them, and what the engine
\* makes of them.
Listing(cache, selector) == [n \in {m \in selector : cache[m] # None} |-> cache[n]]

Verdict(spec, listing, t) ==
    LET counted == {n \in DOMAIN listing : Accountable(listing[n])}
    IN  Compute(WindowDuration(spec.window), spec.quota, t, [n \in counted |-> PodToAccounting(listing[n])])

\* History: the first instant this budget was found over.
FoundOver(record, t) == [record EXCEPT !.firstOver = IF @ = None THEN t ELSE @]

List ==
    /\ up /\ worker.pc = "list" /\ PodsReadable
    /\ worker.obj.spec.selector # None
    /\ LET listing == Listing(podCache, worker.obj.spec.selector)
           result  == Verdict(worker.obj.spec, listing, now)
       IN  /\ worker' = [worker EXCEPT !.pc = "write", !.at = now,
                                       !.listing = listing, !.result = result]
           /\ audit' = IF result.over
                       THEN [audit EXCEPT ![Key] = FoundOver(@, now)] ELSE audit
    /\ UNCHANGED <<now, serverVars, cacheVars, queue, metricVars, boundVars>>

\* A malformed selector, or a listing that fails.
ListFails ==
    /\ up /\ worker.pc = "list"
    /\ \/ /\ worker.obj.spec.selector = None
          /\ UNCHANGED boundVars
       \/ Sent("rejected")
    /\ worker' = [worker EXCEPT !.pc = "degrade"]
    /\ UNCHANGED <<now, serverVars, cacheVars, queue, metricVars, audit>>

\* Either way the key is queued again: after an interval or after a backoff.
Degrade(fate) ==
    /\ up /\ worker.pc = "degrade" /\ Sent(fate)
    /\ LET server == budgets[Key]
           status == MergePatch(server.status, worker.obj.status, DegradedStatus(worker.obj))
       IN  budgets' = IF Applied(fate) /\ server # NoBudget
                      THEN [budgets EXCEPT ![Key] = [server EXCEPT !.status = status]]
                      ELSE budgets
    /\ EndAndRequeue
    /\ UNCHANGED <<now, pods, cacheVars, metricVars, audit>>

\* History: what the last write that reached the server concluded, and since
\* when such writes have agreed that the budget is over.
Concluded(record, result, t) ==
    [record EXCEPT !.verdict = [consumed  |-> GpuHoursToQuantity(result.consumed),
                                remaining |-> GpuHoursToQuantity(result.remaining),
                                tracked   |-> result.tracked, over |-> result.over],
                   !.overSince = IF ~result.over THEN None
                                 ELSE IF @ = None THEN t ELSE @]

\* The pod maybeEnforce acts on, for the object as the patch returned it, or None.
WorthEnforcing(obj, result, listing, t) ==
    IF result.over /\ GraceElapsed(obj, t)
    THEN WorstOffender(listing, t - WindowDuration(obj.spec.window), t) ELSE None

\* writeStatus; then, all local, publishMetrics and the gate of maybeEnforce.
\* The answer of the patch replaces the object in hand, spec included.
WriteStatus(fate) ==
    /\ up /\ worker.pc = "write" /\ Sent(fate)
    /\ LET server  == budgets[Key]
           status  == ReconciledStatus(worker.obj, worker.result, worker.at)
           patched == [server EXCEPT !.status = MergePatch(@, worker.obj.status, status)]
           target  == WorthEnforcing(patched, worker.result, worker.listing, worker.at)
       IN  IF server # NoBudget
           THEN /\ IF Applied(fate)
                   THEN /\ budgets' = [budgets EXCEPT ![Key] = patched]
                        /\ audit' = [audit EXCEPT ![Key] =
                                        Concluded(@, worker.result, worker.at)]
                   ELSE UNCHANGED <<budgets, audit>>
                /\ gauges' = IF fate = "ok"
                             THEN [gauges EXCEPT ![Key] =
                                      [consumed  |-> worker.result.consumed,
                                       remaining |-> worker.result.remaining,
                                       tracked   |-> worker.result.tracked]]
                             ELSE gauges
                /\ IF fate = "ok" /\ target # None
                   THEN /\ worker' = [worker EXCEPT !.pc = "enforce", !.obj = patched,
                                         !.listing = None,
                                         !.target = [name |-> target,
                                                     pod  |-> worker.listing[target]]]
                        /\ UNCHANGED queue
                   ELSE EndAndRequeue
           ELSE EndAndRequeue /\ UNCHANGED <<budgets, audit, gauges>>
    /\ UNCHANGED <<now, pods, cacheVars, actions>>

-----------------------------------------------------------------------------
(***************************************************************************)
(* The enforcers (internal/enforcement) and the stamp that follows.  Both  *)
(* calls to the server address the pod by name only.                       *)
(***************************************************************************)
Dispatched(action) == up /\ worker.pc = "enforce" /\ worker.obj.spec.action = action

\* An outcome, acted or not, bumps the counter and goes on to the stamp.
Enforced ==
    /\ worker' = [worker EXCEPT !.pc = "stamp", !.target = None]
    /\ actions' = [actions EXCEPT ![Key] = Bump(@)]
    /\ UNCHANGED queue

EnforcerFailed == EndAndRequeue /\ UNCHANGED actions

Alert ==
    /\ Dispatched("AlertOnly")
    /\ Enforced
    /\ UNCHANGED <<now, serverVars, cacheVars, gauges, boundVars, audit>>

\* The server deletes a finished pod at once and lets a running one terminate.
Evicted(pod, grace) ==
    IF Terminal(pod) THEN None
    ELSE IF pod.deletionTimestamp # None THEN pod
    ELSE [pod EXCEPT !.deletionTimestamp = now + Seconds(grace)]

\* A pod that is gone and a disruption budget that blocks are no errors.
Evict(fate, blocked) ==
    /\ Dispatched("Evict") /\ Sent(fate)
    /\ LET n    == worker.target.name
           gone == pods[n] = None
       IN  /\ blocked => ~gone /\ ~Terminal(pods[n]) /\ pods[n].deletionTimestamp = None
           /\ pods' = IF Applied(fate) /\ ~gone /\ ~blocked
                      THEN [pods EXCEPT ![n] = Evicted(@, worker.obj.spec.grace)]
                      ELSE pods
           /\ IF fate = "ok" THEN Enforced ELSE EnforcerFailed
    /\ UNCHANGED <<now, budgets, cacheVars, gauges, audit>>

\* Mutant of Paused: the annotation is not looked up.
PausedNever(pod) == FALSE

\* The annotation is looked up on the pod as it was listed.
Paused(pod) == pod.pausedBy # None

AlreadyPaused ==
    /\ Dispatched("Pause") /\ Paused(worker.target.pod)
    /\ Enforced
    /\ UNCHANGED <<now, serverVars, cacheVars, gauges, boundVars, audit>>

Pause(fate) ==
    /\ Dispatched("Pause") /\ ~Paused(worker.target.pod) /\ Sent(fate)
    /\ LET n    == worker.target.name
           gone == pods[n] = None
       IN  /\ pods' = IF Applied(fate) /\ ~gone
                      THEN [pods EXCEPT ![n] = [@ EXCEPT !.pausedBy = Key]] ELSE pods
           /\ IF fate = "ok" /\ ~gone THEN Enforced ELSE EnforcerFailed
    /\ UNCHANGED <<now, budgets, cacheVars, gauges, audit>>

\* lastEnforcementAt, patched against the object the first patch returned.
Stamp(fate) ==
    /\ up /\ worker.pc = "stamp" /\ Sent(fate)
    /\ LET server == budgets[Key]
           base   == worker.obj.status
           status == [base EXCEPT !.lastEnforcementAt = Trunc(worker.at)]
       IN  budgets' = IF Applied(fate) /\ server # NoBudget
                      THEN [budgets EXCEPT ![Key] =
                               [server EXCEPT !.status = MergePatch(@, base, status)]]
                      ELSE budgets
    /\ EndAndRequeue
    /\ UNCHANGED <<now, pods, cacheVars, metricVars, audit>>

-----------------------------------------------------------------------------
(***************************************************************************)
(* The manager process: watch events and crashes.                          *)
(***************************************************************************)
\* For: every event of a budget, its own status patches included, queues it.
SyncBudget(b) ==
    /\ up /\ budgetCache[b] # budgets[b]
    /\ budgetCache' = [budgetCache EXCEPT ![b] = budgets[b]]
    /\ queue' = queue \cup {b}
    /\ UNCHANGED <<now, serverVars, up, podCache, worker, metricVars, boundVars, audit>>

\* mapPodToBudgets reads the budgets from the cache and skips malformed ones.
SelectedBy(n) ==
    {b \in Budgets : /\ budgetCache[b] # NoBudget
                     /\ budgetCache[b].spec.selector # None
                     /\ n \in budgetCache[b].spec.selector}

SyncPod(n) ==
    /\ up /\ podCache[n] # pods[n]
    /\ podCache' = [podCache EXCEPT ![n] = pods[n]]
    /\ queue' = queue \cup SelectedBy(n)
    /\ UNCHANGED <<now, serverVars, up, budgetCache, worker, metricVars, boundVars, audit>>

Nothing(names) == [n \in names |-> None]
NoBudgets == [b \in Budgets |-> NoBudget]

\* Caches, queue, requeues, the reconcile in progress and the metric registry
\* are memory.
Crash ==
    /\ up /\ crashes < MaxCrashes
    /\ up' = FALSE
    /\ budgetCache' = NoBudgets /\ podCache' = Nothing(PodNames)
    /\ queue' = {} /\ worker' = Idle
    /\ gauges' = Nothing(Budgets) /\ actions' = [b \in Budgets |-> 0]
    /\ crashes' = crashes + 1
    /\ UNCHANGED <<now, serverVars, budgetsMade, podsMade, faults, audit>>

\* Mutant of Start: only what changes after the start is reconciled.
StartUnqueued ==
    /\ ~up
    /\ up' = TRUE /\ budgetCache' = budgets /\ podCache' = pods
    /\ UNCHANGED <<now, serverVars, queue, worker, metricVars, boundVars, audit>>

\* The caches are listed before the first reconcile, and every budget found is
\* queued.
Start ==
    /\ ~up
    /\ up' = TRUE /\ budgetCache' = budgets /\ podCache' = pods
    /\ queue' = {b \in Budgets : budgets[b] # NoBudget}
    /\ UNCHANGED <<now, serverVars, worker, metricVars, boundVars, audit>>

-----------------------------------------------------------------------------
(***************************************************************************)
(* Users, the kubelet and the clock.                                       *)
(***************************************************************************)
NoAudit == [verdict |-> None, overSince |-> None, firstOver |-> None]

operatorVars == <<cacheVars, queue, worker, metricVars>>

CreateBudget(b, spec) ==
    /\ budgets[b] = NoBudget /\ budgetsMade < MaxBudgets /\ Admits(spec, up)
    /\ budgetsMade' = budgetsMade + 1
    /\ budgets' = [budgets EXCEPT ![b] = NewBudget(budgetsMade', spec)]
    /\ audit' = [audit EXCEPT ![b] = NoAudit]
    /\ UNCHANGED <<now, pods, operatorVars, podsMade, faults, crashes>>

EditSpec(b, spec) ==
    /\ budgets[b] # NoBudget /\ Admits(spec, up)
    /\ budgets[b].spec # spec /\ budgets[b].gen < MaxGeneration
    /\ LET edited == [budgets[b] EXCEPT !.spec = spec, !.gen = @ + 1]
       IN  budgets' = [budgets EXCEPT ![b] = edited]
    /\ UNCHANGED <<now, pods, operatorVars, boundVars, audit>>

DeleteBudget(b, cascade) ==
    /\ budgets[b] # NoBudget /\ ~budgets[b].deleting
    /\ LET held == budgets[b].finalizer \/ cascade
       IN  budgets' = [budgets EXCEPT ![b] =
              IF held THEN [@ EXCEPT !.deleting = TRUE, !.foreign = cascade] ELSE NoBudget]
    /\ UNCHANGED <<now, pods, operatorVars, boundVars, audit>>

\* The garbage collector takes its own finalizer off.
ForeignDone(b) ==
    /\ budgets[b] # NoBudget /\ budgets[b].foreign /\ Admitted(b)
    /\ budgets' = [budgets EXCEPT ![b] =
          IF budgets[b].finalizer THEN [@ EXCEPT !.foreign = FALSE] ELSE NoBudget]
    /\ UNCHANGED <<now, pods, operatorVars, boundVars, audit>>

OnPod(n, pod) ==
    /\ pods' = [pods EXCEPT ![n] = pod]
    /\ UNCHANGED <<now, budgets, operatorVars, budgetsMade, faults, crashes, audit>>

CreatePod(n) ==
    /\ pods[n] = None /\ podsMade < MaxPods
    /\ podsMade' = podsMade + 1
    /\ OnPod(n, NewPod(podsMade', Gpus[n]))

StartPod(n) ==
    /\ pods[n] # None /\ pods[n].phase = "Pending" /\ pods[n].deletionTimestamp = None
    /\ OnPod(n, [pods[n] EXCEPT !.phase = "Running", !.startTime = now,
                   !.statuses = <<ContainerStatus(now, None, None, None)>>])
    /\ UNCHANGED podsMade

FinishPod(n) ==
    /\ pods[n] # None /\ pods[n].phase = "Running"
    /\ LET started == pods[n].statuses[1].running
       IN  OnPod(n, [pods[n] EXCEPT !.phase = "Succeeded",
                       !.statuses = <<ContainerStatus(None, started, now, None)>>])
    /\ UNCHANGED podsMade

DeletePod(n) ==
    /\ pods[n] # None /\ pods[n].deletionTimestamp = None
    /\ OnPod(n, [pods[n] EXCEPT !.deletionTimestamp = now])
    /\ UNCHANGED podsMade

\* A terminating pod that has stopped, or that never ran, leaves the server.
CollectPod(n) ==
    /\ pods[n] # None /\ pods[n].deletionTimestamp # None /\ pods[n].phase # "Running"
    /\ OnPod(n, None)
    /\ UNCHANGED podsMade

Tick ==
    /\ now < MaxTime
    /\ now' = now + 1
    /\ UNCHANGED <<serverVars, operatorVars, boundVars, audit>>

-----------------------------------------------------------------------------
Init ==
    /\ now = 1
    /\ budgets = NoBudgets /\ pods = Nothing(PodNames)
    /\ up = TRUE
    /\ budgetCache = NoBudgets /\ podCache = Nothing(PodNames)
    /\ queue = {} /\ worker = Idle
    /\ gauges = Nothing(Budgets) /\ actions = [b \in Budgets |-> 0]
    /\ budgetsMade = 0 /\ podsMade = 0 /\ faults = 0 /\ crashes = 0
    /\ audit = [b \in Budgets |-> NoAudit]

\* What the reconcile in progress does once its reads are possible.
Call == \E fate \in Fates :
    \/ Adopt(fate) \/ Remove(fate) \/ Degrade(fate) \/ WriteStatus(fate)
    \/ (\E blocked \in PdbVerdicts : Evict(fate, blocked)) \/ Pause(fate) \/ Stamp(fate)

Work == Call \/ Refused \/ List \/ ListFails \/ Alert \/ AlreadyPaused

Users ==
    \E b \in Budgets :
        \/ \E spec \in Specs : CreateBudget(b, spec) \/ EditSpec(b, spec)
        \/ \E cascade \in CascadeModes : DeleteBudget(b, cascade)
        \/ ForeignDone(b)

Kubelet ==
    \E n \in PodNames :
        CreatePod(n) \/ StartPod(n) \/ FinishPod(n) \/ DeletePod(n) \/ CollectPod(n)

Manager ==
    \/ \E b \in Budgets : Get(b) \/ SyncBudget(b)
    \/ \E n \in PodNames : SyncPod(n)
    \/ Crash \/ Start

Next == Work \/ Manager \/ Users \/ Kubelet \/ Tick

Spec == Init /\ [][Next]_vars

(***************************************************************************)
(* The watch streams deliver, the queue hands out every key in turn, no    *)
(* reconcile hangs (its calls are answered or fail), and a dead process is *)
(* restarted by its Deployment.  Nothing is assumed of users, the kubelet, *)
(* the clock or the garbage collector.                                     *)
(***************************************************************************)
\* No reconcile is in progress, or it waits for the cache.
AtRest == worker.pc = "idle" \/ (worker.pc = "list" /\ ~PodsReadable)

\* As a reconcile makes a handful of calls and ends, []<>AtRest is the weak
\* fairness of Work, said of states.
Fairness ==
    /\ []<>AtRest /\ WF_vars(Start)
    /\ \A b \in Budgets : WF_vars(Get(b)) /\ WF_vars(SyncBudget(b))
    /\ \A n \in PodNames : WF_vars(SyncPod(n))

-----------------------------------------------------------------------------
(***************************************************************************)
(* Properties.                                                             *)
(***************************************************************************)
\* f is a function on S.
Over(f, S) == f = [x \in S |-> f[x]]

StatusFields == {"consumed", "remaining", "tracked", "gen", "conds", "lastEnforcementAt"}
CondFields   == {"health", "over", "overAt", "msg"}
BudgetFields == {"uid", "gen", "spec", "finalizer", "foreign", "deleting", "status"}
WorkerFields == {"pc", "key", "obj", "at", "listing", "result", "target"}

IsStatus(s) ==
    /\ Over(s, StatusFields) /\ Over(s.conds, CondFields)
    /\ s.conds.health \in {None, "Ready", "Degraded"}
    /\ s.conds.over \in {None, TRUE, FALSE}
    /\ s.conds.over # None => s.conds.overAt \in Int
    /\ s.lastEnforcementAt \in Int \cup {None}

IsBudget(o) ==
    /\ Over(o, BudgetFields)
    /\ o.uid \in Nat \ {0} /\ o.gen \in Nat /\ o.spec \in Specs
    /\ o.finalizer \in BOOLEAN /\ o.foreign \in BOOLEAN /\ o.deleting \in BOOLEAN
    /\ IsStatus(o.status)

IsWorker(w, t) ==
    /\ Over(w, WorkerFields)
    /\ w.pc \in {"idle", "adopt", "remove", "list", "degrade", "write", "enforce", "stamp"}
    /\ w.pc # "idle" => w.key \in Budgets /\ IsBudget(w.obj)
    /\ w.pc \in {"write", "enforce", "stamp"} => w.at \in 0..t /\ w.result.over \in BOOLEAN

AreBudgets(table) ==
    Over(table, Budgets) /\ \A b \in Budgets : table[b] = NoBudget \/ IsBudget(table[b])

\* Copies of a budget stay well formed wherever they are held, and a
\* QuotaExceeded condition always carries the instant of its last flip, which
\* the grace gate of maybeEnforce adds to.  (Amounts are typed by what computes
\* them.)
TypeOK ==
    /\ now \in Nat /\ budgetsMade \in Nat /\ up \in BOOLEAN /\ queue \subseteq Budgets
    /\ AreBudgets(budgets) /\ AreBudgets(budgetCache)
    /\ IsWorker(worker, now)
    /\ Over(gauges, Budgets) /\ Over(audit, Budgets)
    /\ actions \in [Budgets -> Nat]

\* The finalizer's purpose: no series stays published for a budget the server
\* no longer holds, whatever the caches showed and wherever a crash fell
\* (clearBudgetMetrics before RemoveFinalizer, publishMetrics after the patch).
SeriesNeverOutliveBudget ==
    \A b \in Budgets : gauges[b] # None => budgets[b] # NoBudget /\ budgets[b].finalizer

\* Enforcement is about to act only if some reconcile of this very budget found
\* it over at least the grace period ago, even when the transition time was
\* taken from a stale copy (maybeEnforce).
GraceNeverEarly ==
    worker.pc = "enforce" =>
        /\ audit[Key].firstOver # None
        /\ worker.at >= Trunc(audit[Key].firstOver) + Seconds(worker.obj.spec.grace)

\* QuotaExceeded is a faithful clock: its transition time is the second of the
\* first write of the unbroken run of writes that found the budget over, across
\* crashes, lost answers, Degraded periods and spec edits; a dip below quota
\* restarts it (writeStatus, SetStatusCondition).
GraceClockFaithful ==
    \A b \in Budgets :
        budgets[b] # NoBudget =>
            LET conds == budgets[b].status.conds
            IN  /\ (conds.over = TRUE) = (audit[b].overSince # None)
                /\ conds.over = TRUE => conds.overAt = Trunc(audit[b].overSince)

\* Enforcement waits for the grace period of the current episode over quota.
GraceOfThisEpisode ==
    worker.pc = "enforce" =>
        /\ audit[Key].overSince # None
        /\ worker.at >= Trunc(audit[Key].overSince) + Seconds(worker.obj.spec.grace)

\* The status is overwritten, never accumulated: its numbers and QuotaExceeded
\* are those of the last reconcile whose write arrived, all of one reconcile.
StatusIsLastVerdict ==
    \A b \in Budgets :
        budgets[b] # NoBudget /\ audit[b].verdict # None =>
            LET status  == budgets[b].status
                verdict == audit[b].verdict
            IN  /\ status.consumed = verdict.consumed /\ status.remaining = verdict.remaining
                /\ status.tracked = verdict.tracked /\ status.conds.over = verdict.over

\* No stale write takes the record of an enforcement back: lastEnforcementAt of
\* an incarnation is never cleared or moved back (merge patches, maybeEnforce).
LastEnforcementNeverRegresses ==
    [][\A b \in Budgets :
          LET old == budgets[b] new == budgets'[b]
          IN  /\ old # NoBudget /\ new # NoBudget /\ old.uid = new.uid
              /\ old.status.lastEnforcementAt # None
              => /\ new.status.lastEnforcementAt # None
                 /\ new.status.lastEnforcementAt >= old.status.lastEnforcementAt]_vars

\* The budget a pause is attributed to is the one that paused the pod first,
\* though several budgets select it and keep nominating it (pauser.Enforce).
PauseKeepsItsAuthor ==
    [][\A n \in PodNames :
          /\ pods[n] # None /\ pods'[n] # None /\ pods[n].uid = pods'[n].uid
          /\ pods[n].pausedBy # None
          => pods'[n].pausedBy = pods[n].pausedBy]_vars

\* Once users and the kubelet are done, every live budget ends up with the
\* numbers of the pods as they are, in the status and in the series, and Ready:
\* what a stale read, a lost update or a crash did to them heals (Reconcile's
\* requeues, the watches, the status derived anew each time).
Settled(b) ==
    LET budget  == budgets[b]
        verdict == Verdict(budget.spec, Listing(pods, budget.spec.selector), now)
    IN  /\ budget.status.consumed = GpuHoursToQuantity(verdict.consumed)
        /\ budget.status.tracked = verdict.tracked
        /\ budget.status.conds.over = verdict.over
        /\ budget.status.conds.health = "Ready"
        /\ budget.status.gen = budget.gen
        /\ gauges[b] = [consumed |-> verdict.consumed, remaining |-> verdict.remaining,
                         tracked |-> verdict.tracked]

StatusConverges ==
    <>[](\A b \in Budgets :
            budgets[b] # NoBudget /\ ~budgets[b].deleting /\ budgets[b].spec.selector # None
            => Settled(b))

\* A deleted budget is always released: the operator's finalizer does not keep
\* it forever (finalize and its retries).
DeletionCompletes ==
    \A b \in Budgets :
        (budgets[b] # NoBudget /\ budgets[b].deleting) ~> (budgets[b] = NoBudget \/ ~budgets[b].finalizer)
=============================================================================
