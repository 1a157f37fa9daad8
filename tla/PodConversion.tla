--------------------------- MODULE PodConversion ---------------------------
(***************************************************************************)
(* internal/controller/pod_conversion.go: what of a Kubernetes pod reaches *)
(* the accounting engine, and the choice of the worst offender, which      *)
(* reads pods through the same conversion.                                 *)
(*                                                                         *)
(* A pod is a record with                                                  *)
(*   requests           the configured GPU resource requested by each      *)
(*                      regular container (None: not requested)            *)
(*   startTime          pod.status.startTime, or None                      *)
(*   statuses           container statuses, see ContainerStatus            *)
(*   phase              "Pending", "Running", "Succeeded" or "Failed"      *)
(*   deletionTimestamp  or None                                            *)
(* Kubelet instants are whole seconds; here they are ticks.                *)
(***************************************************************************)
EXTENDS Accounting, Sequences

\* running, termStart, lastStart: the startedAt of the state that is running,
\* of the one that terminated, and of the previous termination; termEnd: the
\* finishedAt of the one that terminated.  None is the zero time, which the
\* code ignores, or a state the container is not in.
ContainerStatus(running, termStart, termEnd, lastStart) ==
    [running |-> running, termStart |-> termStart,
     termEnd |-> termEnd, lastStart |-> lastStart]

Instants == Int \cup {None}

IsContainerStatus(s) ==
    /\ s.running \in Instants /\ s.termStart \in Instants
    /\ s.termEnd \in Instants /\ s.lastStart \in Instants

\* The parts of a pod that the conversion reads are well formed.
IsPod(pod) ==
    /\ IsFiniteSet(DOMAIN pod.requests)
    /\ \A i \in DOMAIN pod.requests : pod.requests[i] \in Nat \cup {None}
    /\ IsFiniteSet(DOMAIN pod.statuses)
    /\ \A i \in DOMAIN pod.statuses : IsContainerStatus(pod.statuses[i])
    /\ pod.startTime \in Instants /\ pod.deletionTimestamp \in Instants

Terminal(pod) == pod.phase \in {"Succeeded", "Failed"}

GpuRequestTotal(pod) ==
    LET asking == {i \in DOMAIN pod.requests : pod.requests[i] # None}
    IN  MapThenSumSet(LAMBDA i : pod.requests[i], asking)

\* Mutant of ContainerStarts: LastTerminationState is not read.
ContainerStartsOfNow(pod) ==
    (UNION {{s.running, s.termStart} : s \in {pod.statuses[i] : i \in DOMAIN pod.statuses}}) \ {None}

\* Every start of a container that its status still remembers.
ContainerStarts(pod) ==
    (UNION {{s.running, s.termStart, s.lastStart} :
              s \in {pod.statuses[i] : i \in DOMAIN pod.statuses}}) \ {None}

\* None: neither signal is available and the pod is truly pending.
EarliestContainerStart(pod) ==
    IF ContainerStarts(pod) # {} THEN Min(ContainerStarts(pod)) ELSE pod.startTime

ContainerEnds(pod) ==
    {pod.statuses[i].termEnd : i \in DOMAIN pod.statuses} \ {None}

\* Mutants of PodEnd: the deletion timestamp comes first; the first container to
\* end decides.
PodEndByDeletion(pod) ==
    IF ~Terminal(pod) THEN None
    ELSE IF pod.deletionTimestamp # None THEN pod.deletionTimestamp
    ELSE IF ContainerEnds(pod) # {} THEN Max(ContainerEnds(pod)) ELSE None

PodEndOfFirst(pod) ==
    IF ~Terminal(pod) THEN None
    ELSE IF ContainerEnds(pod) # {} THEN Min(ContainerEnds(pod))
    ELSE pod.deletionTimestamp

\* None: still running at the instant of observation.
PodEnd(pod) ==
    IF ~Terminal(pod) THEN None
    ELSE IF ContainerEnds(pod) # {} THEN Max(ContainerEnds(pod))
    ELSE pod.deletionTimestamp

\* Whether podToAccounting returns ok.
Accountable(pod) == GpuRequestTotal(pod) > 0 /\ EarliestContainerStart(pod) # None

PodToAccounting(pod) ==
    AccountingPod(EarliestContainerStart(pod), PodEnd(pod), GpuRequestTotal(pod))

(***************************************************************************)
(* pickWorstOffender over a listing, a function from pod names to pods.    *)
(* Names are numbers, ordered as Go orders their strings.                  *)
(***************************************************************************)
Offenders(listing, from, now) ==
    {n \in DOMAIN listing :
        /\ listing[n].deletionTimestamp = None
        /\ Accountable(listing[n])
        /\ WindowUsage(PodToAccounting(listing[n]), from, now) > 0}

WorstOffender(listing, from, now) ==
    LET usage(n) == WindowUsage(PodToAccounting(listing[n]), from, now)
        worse(n, m) == usage(n) > usage(m) \/ (usage(n) = usage(m) /\ n < m)
        offenders == Offenders(listing, from, now)
    IN  IF offenders = {} THEN None
        ELSE CHOOSE n \in offenders : \A m \in offenders \ {n} : worse(n, m)
=============================================================================
