---------------------------- MODULE PodLifecycle ----------------------------
(***************************************************************************)
(* What the kubelet makes of a pod's status over its life, beside a ledger *)
(* of the ticks in which a container of the pod really ran, and what the   *)
(* stateless accounting (pod_conversion.go, accounting.go) reports at any  *)
(* instant from the status alone.  A pod leaves the API server in the end, *)
(* and its usage leaves the report with it.                                *)
(*                                                                         *)
(* The kubelet is external: its actions are the status changes that the    *)
(* conversion reads.                                                       *)
(***************************************************************************)
EXTENDS PodConversion

CONSTANTS
    PodNames,               \* pods, never used again for another one (a uid)
    Containers,             \* every pod has the containers 1..Containers
    Gpus,                   \* GPUs requested by each container of a pod
    SlowPulls,              \* whether a container may start later than its pod is accepted
    StatusesKept,           \* FALSE: a kubelet may drop the statuses of failed pods
    Windows,                \* window lengths at which reports are compared
    MaxTime, MaxRestarts    \* bounds: the clock, the restarts of each container

ASSUME LifecycleAssumption ==
    /\ Containers \in Nat \ {0} /\ Gpus \in [PodNames -> Nat \ {0}]
    /\ SlowPulls \in BOOLEAN /\ StatusesKept \in BOOLEAN /\ Windows \subseteq Nat

Phases == {"Pending", "Running", "Succeeded", "Failed"}

StatusRecords ==
    [running : Instants, termStart : Instants, termEnd : Instants, lastStart : Instants]

\* What the API server may store of a pod.
PodRecords ==
    [requests : [1..Containers -> Nat], startTime : Instants,
     statuses : [1..Containers -> StatusRecords] \cup {<<>>},
     phase : Phases, deletionTimestamp : Instants]

ASSUME NoPodAssumption == None \notin PodRecords

VARIABLES
    now,
    pods,      \* the pods as the API server shows them, None if it has none
    collected, \* the pods it has dropped
    ledger,    \* <<n, t>>: a container of n ran from t to t + 1
    begun,     \* the instant the first container of a pod first ran, or None
    restarts   \* restarts so far of each container of a pod

vars == <<now, pods, collected, ledger, begun, restarts>>

Waiting == ContainerStatus(None, None, None, None)

Created(n) ==
    [requests |-> [c \in 1..Containers |-> Gpus[n]], startTime |-> None,
     statuses |-> [c \in 1..Containers |-> Waiting],
     phase |-> "Pending", deletionTimestamp |-> None]

Live(n) == pods[n] # None /\ pods[n].startTime # None /\ ~Terminal(pods[n])
Runs(n) == Live(n) /\ \E c \in 1..Containers : pods[n].statuses[c].running # None

\* Without slow pulls nothing happens between accepting and starting a pod.
PulledAtOnce(n) == SlowPulls \/ begun[n] # None

Init ==
    /\ now = 1 /\ ledger = {} /\ collected = {}
    /\ restarts = [n \in PodNames |-> [c \in 1..Containers |-> 0]]
    /\ pods = [n \in PodNames |-> None] /\ begun = [n \in PodNames |-> None]

Create(n) ==
    /\ pods[n] = None /\ n \notin collected
    /\ pods' = [pods EXCEPT ![n] = Created(n)]
    /\ UNCHANGED <<now, collected, ledger, begun, restarts>>

\* The kubelet accepts the pod and pulls its images.
Accept(n) ==
    /\ pods[n] # None /\ pods[n].startTime = None
    /\ pods' = [pods EXCEPT ![n].startTime = now]
    /\ UNCHANGED <<now, collected, ledger, begun, restarts>>

\* The first start of a container, or its restart after a back-off.
StartContainer(n, c) ==
    /\ Live(n) /\ pods[n].statuses[c].running = None /\ pods[n].statuses[c].termEnd = None
    /\ pods' = [pods EXCEPT ![n].statuses[c].running = now, ![n].phase = "Running"]
    /\ begun' = [begun EXCEPT ![n] = IF @ = None THEN now ELSE @]
    /\ UNCHANGED <<now, collected, ledger, restarts>>

Stopped(status) ==
    IF status.running = None THEN status
    ELSE [status EXCEPT !.running = None, !.termStart = status.running, !.termEnd = now]

\* The kubelet writes new statuses and the phase it derives with them.
Renewed(pod, statuses, phase) == [pod EXCEPT !.statuses = statuses, !.phase = phase]

\* A container ends for good; the phase is derived from the statuses with them.
ExitContainer(n, c) ==
    /\ Live(n) /\ pods[n].statuses[c].running # None
    /\ LET after == [pods[n].statuses EXCEPT ![c] = Stopped(@)]
           done  == \A d \in 1..Containers : after[d].termEnd # None
           phase == IF done THEN "Succeeded" ELSE pods[n].phase
       IN  pods' = [pods EXCEPT ![n] = Renewed(@, after, phase)]
    /\ UNCHANGED <<now, collected, ledger, begun, restarts>>

\* A container that crashes waits for its restart; its status remembers only
\* the last termination.
CrashContainer(n, c) ==
    /\ Live(n) /\ pods[n].statuses[c].running # None /\ restarts[n][c] < MaxRestarts
    /\ restarts' = [restarts EXCEPT ![n][c] = @ + 1]
    /\ pods' = [pods EXCEPT ![n].statuses[c] =
          [Waiting EXCEPT !.lastStart = pods[n].statuses[c].running]]
    /\ UNCHANGED <<now, collected, ledger, begun>>

\* A node under pressure fails the pod, and may drop its statuses.
Fail(n) ==
    /\ Live(n) /\ PulledAtOnce(n)
    /\ \E kept \in {TRUE, StatusesKept} :
          LET after == IF kept THEN [c \in 1..Containers |-> Stopped(pods[n].statuses[c])]
                               ELSE <<>>
          IN  pods' = [pods EXCEPT ![n] = Renewed(@, after, "Failed")]
    /\ UNCHANGED <<now, collected, ledger, begun, restarts>>

\* A user deletes the pod, which gives it one tick to shut down: the kubelet
\* kills what still runs at the deletion timestamp.
Delete(n) ==
    /\ pods[n] # None /\ pods[n].deletionTimestamp = None
    /\ pods' = [pods EXCEPT ![n].deletionTimestamp = now + 1]
    /\ UNCHANGED <<now, collected, ledger, begun, restarts>>

\* The API server drops a pod: a terminating one once nothing of it runs, one
\* that has ended at any time (garbage collection, or a Job's time to live).
Collect(n) ==
    /\ pods[n] # None /\ ~Runs(n)
    /\ Terminal(pods[n]) \/ pods[n].deletionTimestamp # None
    /\ pods' = [pods EXCEPT ![n] = None]
    /\ collected' = collected \cup {n}
    /\ UNCHANGED <<now, ledger, begun, restarts>>

Tick ==
    /\ now < MaxTime
    /\ \A n \in PodNames : Live(n) => PulledAtOnce(n)
    /\ \A n \in PodNames : Runs(n) /\ pods[n].deletionTimestamp # None
                               => now < pods[n].deletionTimestamp
    /\ now' = now + 1
    /\ ledger' = ledger \cup {<<n, now>> : n \in {m \in PodNames : Runs(m)}}
    /\ UNCHANGED <<pods, collected, begun, restarts>>

Next ==
    \/ Tick
    \/ \E n \in PodNames :
          \/ Create(n) \/ Accept(n) \/ Fail(n) \/ Delete(n) \/ Collect(n)
          \/ \E c \in 1..Containers :
                StartContainer(n, c) \/ ExitContainer(n, c) \/ CrashContainer(n, c)

Spec == Init /\ [][Next]_vars

-----------------------------------------------------------------------------
(***************************************************************************)
(* Properties.                                                             *)
(***************************************************************************)
Seen == {n \in PodNames : pods[n] # None}

Reported(w) ==
    LET counted == {n \in Seen : Accountable(pods[n])}
    IN  Compute(w, 1, now, [n \in counted |-> PodToAccounting(pods[n])]).consumed

\* What the ledger holds of these pods: every tick inside the window, at the
\* pod's request; a window of zero is the whole past (accounting.go:60-62).
HeldBy(names, w) ==
    MapThenSumSet(LAMBDA e : Containers * Gpus[e[1]],
                  {e \in ledger : e[1] \in names /\ (w = 0 \/ e[2] >= now - w)})

Held(w) == HeldBy(PodNames, w)

\* What no report can show any more: the operator sees only what the API server
\* has (docs/accounting-model.md:30, docs/limitations.md:22).
Lost(w) == HeldBy(collected, w)

\* Times of a status are in the past, and no interval handed to the engine ends
\* before it starts (podEnd, earliestContainerStart).
TypeOK ==
    /\ ledger \subseteq PodNames \X (1..now)
    /\ collected \in SUBSET (PodNames \ Seen)
    /\ restarts \in [PodNames -> [1..Containers -> 0..MaxRestarts]]
    /\ \A n \in Seen :
          /\ pods[n].startTime \in (1..now) \cup {None}
          /\ Accountable(pods[n]) => ~Inverted(PodToAccounting(pods[n]))

\* The number derived from the pods' statuses is what a running ledger would
\* have accumulated (README.md:57, "derived, not stored"), less what the pods
\* did that the API server has dropped since: these and their whole runtime, and
\* nothing else, at every instant and for every window.
ReportsTheLedger == \A w \in Windows : Reported(w) + Lost(w) = Held(w)

\* A container status remembers two starts: the current run and the one before.
StartsRemembered(n) == \A c \in 1..Containers : restarts[n][c] <= 1

\* While pods run and when they succeed, with containers that come and go but
\* restart at most once each, no work is left out of the bill but that of pods the
\* API server has dropped (podToAccounting).  A pod that fails while a container
\* backs off may lose the run before: PodEnd ignores its finishedAt.
NeverUnderReports ==
    (\A n \in Seen : pods[n].phase # "Failed" /\ StartsRemembered(n))
    => \A w \in Windows : Reported(w) + Lost(w) >= Held(w)

\* The reported interval of a pod begins when its first container first ran,
\* whichever containers have ended or restarted since, as long as the kubelet
\* keeps their statuses (earliestContainerStart).
StartIsEarliest ==
    \A n \in Seen : begun[n] # None /\ StartsRemembered(n) /\ pods[n].statuses # <<>>
                    => EarliestContainerStart(pods[n]) = begun[n]

\* docs/accounting-model.md:24 and :79 say that a pod that is still pulling its
\* images consumes nothing.
PullsNotCounted ==
    \A n \in Seen :
        begun[n] = None /\ Accountable(pods[n])
        => WindowUsage(PodToAccounting(pods[n]), ZeroTime, now) = 0
=============================================================================
