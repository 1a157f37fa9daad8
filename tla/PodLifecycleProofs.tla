------------------------- MODULE PodLifecycleProofs -------------------------
(***************************************************************************)
(* The accounting of a pod's status against the ledger of the ticks in     *)
(* which it really ran: why the status keeps what the conversion needs.    *)
(***************************************************************************)
EXTENDS PodLifecycle, AccountingProofs

\* An instant of the past, or none.
Past(t) == (1..t) \cup {None}

\* A container's status at time t, of a pod whose first container began at b: it
\* is in one state, and remembers no start before b.
StatusKept(s, b, t) ==
    /\ s.running \in Past(t) /\ s.termStart \in Past(t)
    /\ s.termEnd \in Past(t) /\ s.lastStart \in Past(t)
    /\ s.termStart = None <=> s.termEnd = None
    /\ s.termEnd # None => s.running = None /\ s.termStart <= s.termEnd
    /\ \A i \in {s.running, s.termStart, s.lastStart} \ {None} : b # None /\ b <= i

\* The status s, of a container restarted r times, shows b as its first start, or
\* has forgotten that start.
Remembers(s, r, b) ==
    \/ r = 0 /\ b \in {s.running, s.termStart}
    \/ r = 1 /\ b = s.lastStart
    \/ r >= 2

\* The pod p at time t, each container of which requests g GPUs, began at b, was
\* restarted r times by container, and ran in the ticks L.
PodKept(p, g, b, r, L, t) ==
    /\ p \in PodRecords /\ p.requests = [c \in 1..Containers |-> g]
    /\ p.startTime \in Past(t)
    /\ p.statuses = <<>> => p.phase = "Failed"
    /\ b = None => \A c \in 1..Containers : r[c] = 0
    /\ b # None => p.startTime # None
    /\ \A i \in L : b # None /\ b <= i /\ i < t
    /\ p.phase = "Succeeded" =>
          \E c \in 1..Containers : p.statuses[c].termEnd # None
                                   /\ \A i \in L : i < p.statuses[c].termEnd
    /\ p.statuses # <<>> =>
          /\ \A c \in 1..Containers : StatusKept(p.statuses[c], b, t)
          /\ b # None => \E c \in 1..Containers : Remembers(p.statuses[c], r[c], b)
          /\ Terminal(p) => \A c \in 1..Containers : p.statuses[c].running = None
          /\ ~Terminal(p) => \E c \in 1..Containers : p.statuses[c].termEnd = None

\* No image is pulled slowly, no status dropped and no container restarted.
Undisturbed == ~SlowPulls /\ StatusesKept /\ MaxRestarts = 0

\* Then a pod waits for its start no longer than the instant it is accepted.
Prompt(p, b, r, t) ==
    /\ p.statuses # <<>> /\ \A c \in 1..Containers : r[c] = 0
    /\ b = None => p.phase = "Pending" /\ p.startTime \in {None, t}

\* And if it has one container, that runs from the start of the pod to its end.
Exact(p, b, L, t) ==
    b # None => L = b..((IF Terminal(p) THEN p.statuses[1].termEnd ELSE t) - 1)

\* What the pod tells of its run, beyond PodKept, when nothing disturbs it.
PodTold(p, b, r, L, t) ==
    /\ Undisturbed => Prompt(p, b, r, t)
    /\ Undisturbed /\ Containers = 1 => Exact(p, b, L, t)

\* No container has been restarted more than once.
Once(r) == \A c \in 1..Containers : r[c] \in Nat /\ r[c] <= 1

\* The ticks in which n ran.
Ticks(n) == {t \in 1..now : <<n, t>> \in ledger}

\* The shape of the state: all instants lie in the past.
KeptTypes ==
    /\ now \in Nat \ {0}
    /\ ledger \subseteq PodNames \X (1..now) /\ IsFiniteSet(ledger)
    /\ collected \in SUBSET (PodNames \ Seen) /\ IsFiniteSet(collected)
    /\ pods \in [PodNames -> PodRecords \cup {None}] /\ IsFiniteSet(Seen)
    /\ begun \in [PodNames -> Past(now)]
    /\ restarts \in [PodNames -> [1..Containers -> Nat]]

\* The statuses keep the start of every pod, as long as each container has been
\* restarted once at most, and the end of those that succeed; where nothing
\* disturbs a pod of one container, they tell all that the ledger does.
KeptInv ==
    /\ KeptTypes
    /\ \A n \in PodNames :
          \/ /\ n \in collected
             /\ Undisturbed => \A c \in 1..Containers : restarts[n][c] = 0
          \/ /\ pods[n] = None /\ begun[n] = None /\ Ticks(n) = {}
             /\ \A c \in 1..Containers : restarts[n][c] = 0
          \/ /\ pods[n] # None
             /\ PodKept(pods[n], Gpus[n], begun[n], restarts[n], Ticks(n), now)
             /\ PodTold(pods[n], begun[n], restarts[n], Ticks(n), now)

-----------------------------------------------------------------------------
(***************************************************************************)
(* What the conversion reads of a pod so kept.                             *)
(***************************************************************************)
\* Every container is one of finitely many.
LEMMA ContainersFinite ==
    IsFiniteSet(1..Containers) /\ Cardinality(1..Containers) = Containers /\ Containers \in Nat \ {0}
BY FS_Interval, LifecycleAssumption

\* A sequence of statuses that is not empty has one for each container.
LEMMA KeptFields ==
    ASSUME NEW p, p \in PodRecords
    PROVE  /\ p.startTime \in Instants /\ p.phase \in Phases /\ p.deletionTimestamp \in Instants
           /\ p.statuses = <<>> \/ p.statuses \in [1..Containers -> StatusRecords]
           /\ p.statuses # <<>> => DOMAIN p.statuses = 1..Containers
BY DEF PodRecords

LEMMA KeptIsPod ==
    ASSUME NEW p, p \in PodRecords, NEW g \in Nat, p.requests = [c \in 1..Containers |-> g]
    PROVE  IsPod(p)
<1>1. IsFiniteSet(DOMAIN p.requests) /\ \A i \in DOMAIN p.requests : p.requests[i] \in Nat
  BY ContainersFinite
<1>2. IsFiniteSet(DOMAIN p.statuses)
  <2>1. CASE p.statuses = <<>>
    <3>1. DOMAIN p.statuses = {}
      BY <2>1
    <3>. QED BY <3>1, FS_EmptySet
  <2>2. CASE p.statuses # <<>>
    BY <2>2, KeptFields, ContainersFinite
  <2>. QED BY <2>1, <2>2
<1>3. ASSUME NEW i \in DOMAIN p.statuses PROVE IsContainerStatus(p.statuses[i])
  <2>1. p.statuses \in [1..Containers -> StatusRecords]
    BY <1>3, KeptFields
  <2>. QED BY <1>3, <2>1 DEF StatusRecords, IsContainerStatus
<1>. QED BY <1>1, <1>2, <1>3, KeptFields DEF IsPod

\* It requests what its containers do.
LEMMA KeptRequest ==
    ASSUME NEW p, NEW g \in Nat, p.requests = [c \in 1..Containers |-> g]
    PROVE  GpuRequestTotal(p) = g * Containers
<1>1. {i \in DOMAIN p.requests : p.requests[i] # None} = 1..Containers
  BY NoneAssumption
<1>2. GpuRequestTotal(p) = Total(p.requests, 1..Containers)
  BY <1>1, ContainersFinite, RequestTotal
<1>3. \A i \in 1..Containers : p.requests[i] = g
  OBVIOUS
<1>4. g \in Int
  OBVIOUS
<1>5. Total(p.requests, 1..Containers) = g * Cardinality(1..Containers)
  BY <1>3, <1>4, ContainersFinite, TotalConstant
<1>. QED BY <1>2, <1>5, ContainersFinite

\* The start that is reported of a pod is the first, unless it is forgotten.
LEMMA KeptStart ==
    ASSUME NEW t \in Nat, NEW p, NEW g \in Nat, NEW b \in 1..t, NEW r, NEW L,
           PodKept(p, g, b, r, L, t), p.statuses # <<>>,
           Once(r)
    PROVE  EarliestContainerStart(p) = b
<1>1. /\ p \in PodRecords /\ p.requests = [c \in 1..Containers |-> g] /\ b # None
      /\ \A c \in 1..Containers : StatusKept(p.statuses[c], b, t)
      /\ \E c \in 1..Containers : Remembers(p.statuses[c], r[c], b)
  BY NoneAssumption DEF PodKept
<1>2. DOMAIN p.statuses = 1..Containers
  BY <1>1, KeptFields
<1>3. b \in ContainerStarts(p)
  <2>1. PICK c \in 1..Containers : Remembers(p.statuses[c], r[c], b)
    BY <1>1
  <2>2. b \in {p.statuses[c].running, p.statuses[c].termStart, p.statuses[c].lastStart}
    BY <2>1 DEF Remembers, Once
  <2>. QED BY <1>1, <1>2, <2>2, StartsAre
<1>4. ASSUME NEW i \in ContainerStarts(p) PROVE b <= i
  <2>1. /\ i # None
        /\ \E c \in 1..Containers :
              \/ i = p.statuses[c].running
              \/ i = p.statuses[c].termStart
              \/ i = p.statuses[c].lastStart
    BY <1>2, <1>4, StartsAre
  <2>. QED BY <1>1, <2>1 DEF StatusKept
<1>5. IsPod(p)
  BY <1>1, KeptIsPod
<1>6. /\ EarliestContainerStart(p) \in ContainerStarts(p)
      /\ EarliestContainerStart(p) <= b
      /\ EarliestContainerStart(p) \in Int
  BY <1>3, <1>5, StartIs, StartsFinite
<1>. QED BY <1>4, <1>6

\* The end that is reported of a pod that succeeded comes after it last ran.
LEMMA KeptEnd ==
    ASSUME NEW t \in Nat, NEW p, NEW g \in Nat, NEW b, NEW r, NEW L, L \subseteq Int,
           PodKept(p, g, b, r, L, t), p.phase = "Succeeded"
    PROVE  PodEnd(p) \in Int /\ \A i \in L : i < PodEnd(p)
<1>1. /\ p \in PodRecords /\ p.requests = [c \in 1..Containers |-> g]
      /\ p.statuses # <<>> /\ Terminal(p)
  BY DEF PodKept, Terminal
<1>2. PICK c \in 1..Containers : /\ p.statuses[c].termEnd # None
                                 /\ \A i \in L : i < p.statuses[c].termEnd
  BY DEF PodKept
<1>3. p.statuses[c].termEnd \in ContainerEnds(p)
  BY <1>1, <1>2, KeptFields, EndsAre
<1>4. IsPod(p)
  BY <1>1, KeptIsPod
<1>5. /\ PodEnd(p) \in Int /\ p.statuses[c].termEnd \in Int
      /\ p.statuses[c].termEnd <= PodEnd(p)
  BY <1>1, <1>3, <1>4, EndIs, StartsFinite
<1>. QED BY <1>2, <1>5

-----------------------------------------------------------------------------
(***************************************************************************)
(* What becomes of a pod that is kept.                                     *)
(***************************************************************************)
\* Time passes, in which the pod runs or not.
LEMMA KeptLater ==
    ASSUME NEW t \in Nat \ {0}, NEW p, NEW g \in Nat, NEW b \in Past(t), NEW r,
           NEW L \in SUBSET Int, PodKept(p, g, b, r, L, t), NEW M,
           \/ M = L
           \/ /\ M = L \cup {t} /\ ~Terminal(p)
              /\ \E c \in 1..Containers : p.statuses[c].running # None
    PROVE  PodKept(p, g, b, r, M, t + 1)
<1>1. \A x : x \in Past(t) => x \in Past(t + 1)
  BY DEF Past
<1>2. ASSUME NEW s, StatusKept(s, b, t) PROVE StatusKept(s, b, t + 1)
  BY <1>1, <1>2 DEF StatusKept
<1>3. \A i \in L : b # None /\ b <= i /\ i < t
  BY DEF PodKept
<1>4. ASSUME NEW i \in M PROVE b # None /\ b <= i /\ i < t + 1
  <2>1. CASE i \in L
    BY <1>3, <2>1, NoneAssumption DEF Past
  <2>2. CASE i \notin L
    <3>1. i = t /\ ~Terminal(p)
      BY <1>4, <2>2
    <3>2. PICK c \in 1..Containers : p.statuses[c].running # None
      BY <1>4, <2>2
    <3>3. StatusKept(p.statuses[c], b, t)
      BY <3>1, <3>2 DEF PodKept, Terminal
    <3>4. b # None /\ b <= p.statuses[c].running /\ p.statuses[c].running \in 1..t
      BY <3>2, <3>3 DEF StatusKept, Past
    <3>5. b \in 1..t
      BY <3>4 DEF Past
    <3>. QED BY <3>1, <3>4, <3>5
  <2>. QED BY <2>1, <2>2
<1>5. p.startTime \in Past(t + 1)
  BY <1>1 DEF PodKept
<1>6. p.phase = "Succeeded" => M = L
  BY DEF Terminal
<1>7. /\ p \in PodRecords /\ p.requests = [c \in 1..Containers |-> g]
      /\ p.statuses = <<>> => p.phase = "Failed"
      /\ b = None => \A c \in 1..Containers : r[c] = 0
      /\ b # None => p.startTime # None
      /\ p.phase = "Succeeded" =>
            \E c \in 1..Containers : p.statuses[c].termEnd # None
                                     /\ \A i \in L : i < p.statuses[c].termEnd
  BY DEF PodKept
<1>8. ASSUME p.statuses # <<>>
      PROVE  /\ \A c \in 1..Containers : StatusKept(p.statuses[c], b, t + 1)
             /\ b # None => \E c \in 1..Containers : Remembers(p.statuses[c], r[c], b)
             /\ Terminal(p) => \A c \in 1..Containers : p.statuses[c].running = None
             /\ ~Terminal(p) => \E c \in 1..Containers : p.statuses[c].termEnd = None
  BY <1>2, <1>8 DEF PodKept
<1>. QED BY <1>4, <1>5, <1>6, <1>7, <1>8 DEF PodKept

\* A pod is created.
LEMMA KeptCreated ==
    ASSUME NEW n \in PodNames, NEW t \in Nat \ {0}, NEW r, \A c \in 1..Containers : r[c] = 0
    PROVE  PodKept(Created(n), Gpus[n], None, r, {}, t)
<1>1. Gpus[n] \in Nat /\ 1 \in 1..Containers
  BY LifecycleAssumption
<1>2. Waiting \in StatusRecords
  BY DEF Waiting, ContainerStatus, StatusRecords, Instants
<1>3. Created(n) \in PodRecords
  BY <1>1, <1>2 DEF Created, PodRecords, Instants, Phases
<1>4. /\ Created(n).requests = [c \in 1..Containers |-> Gpus[n]]
      /\ Created(n).startTime = None /\ Created(n).phase = "Pending"
      /\ \A c \in 1..Containers : Created(n).statuses[c] = Waiting
  BY DEF Created
<1>5. Created(n).statuses # <<>>
  <2>1. DOMAIN Created(n).statuses = 1..Containers
    BY DEF Created
  <2>2. DOMAIN <<>> = {}
    OBVIOUS
  <2>. QED BY <1>1, <2>1, <2>2
<1>6. StatusKept(Waiting, None, t) /\ Waiting.termEnd = None
  BY DEF Waiting, ContainerStatus, StatusKept, Past
<1>. QED BY <1>1, <1>3, <1>4, <1>5, <1>6 DEF PodKept, Past, Terminal

\* The times of a pod are set.
LEMMA KeptTimed ==
    ASSUME NEW p, NEW g, NEW b, NEW r, NEW L, NEW t, PodKept(p, g, b, r, L, t),
           NEW q \in PodRecords, q.requests = p.requests, q.statuses = p.statuses,
           q.phase = p.phase, q.startTime \in Past(t), b # None => q.startTime # None
    PROVE  PodKept(q, g, b, r, L, t)
<1>1. Terminal(q) <=> Terminal(p)
  BY DEF Terminal
<1>2. /\ q.requests = [c \in 1..Containers |-> g]
      /\ q.statuses = <<>> => q.phase = "Failed"
      /\ b = None => \A c \in 1..Containers : r[c] = 0
      /\ \A i \in L : b # None /\ b <= i /\ i < t
  BY DEF PodKept
<1>3. q.phase = "Succeeded" =>
          \E c \in 1..Containers : q.statuses[c].termEnd # None
                                   /\ \A i \in L : i < q.statuses[c].termEnd
  BY DEF PodKept
<1>4. ASSUME q.statuses # <<>>
      PROVE  /\ \A c \in 1..Containers : StatusKept(q.statuses[c], b, t)
             /\ b # None => \E c \in 1..Containers : Remembers(q.statuses[c], r[c], b)
             /\ Terminal(q) => \A c \in 1..Containers : q.statuses[c].running = None
             /\ ~Terminal(q) => \E c \in 1..Containers : q.statuses[c].termEnd = None
  BY <1>1, <1>4 DEF PodKept
<1>. QED BY <1>2, <1>3, <1>4 DEF PodKept

\* A pod is accepted: nothing has run yet.
LEMMA KeptAccepted ==
    ASSUME NEW t \in Nat \ {0}, NEW p, NEW g, NEW b, NEW r, NEW L,
           PodKept(p, g, b, r, L, t), p.startTime = None
    PROVE  PodKept([p EXCEPT !.startTime = t], g, b, r, L, t)
<1>. DEFINE q == [p EXCEPT !.startTime = t]
<1>1. p \in PodRecords /\ b = None
  BY DEF PodKept
<1>2. /\ q \in PodRecords /\ q.requests = p.requests /\ q.statuses = p.statuses
      /\ q.phase = p.phase /\ q.startTime \in Past(t)
  BY <1>1 DEF PodRecords, Instants, Past
<1>. HIDE DEF q
<1>3. PodKept(q, g, b, r, L, t)
  BY <1>1, <1>2, KeptTimed
<1>. QED BY <1>3 DEF q

\* A pod is deleted: its status does not change.
LEMMA KeptDeleted ==
    ASSUME NEW t \in Nat \ {0}, NEW p, NEW g, NEW b, NEW r, NEW L,
           PodKept(p, g, b, r, L, t)
    PROVE  PodKept([p EXCEPT !.deletionTimestamp = t + 1], g, b, r, L, t)
<1>. DEFINE q == [p EXCEPT !.deletionTimestamp = t + 1]
<1>1. p \in PodRecords
  BY DEF PodKept
<1>2. /\ q \in PodRecords /\ q.requests = p.requests /\ q.statuses = p.statuses
      /\ q.phase = p.phase /\ q.startTime = p.startTime
  BY <1>1 DEF PodRecords, Instants
<1>3. q.startTime \in Past(t) /\ (b # None => q.startTime # None)
  BY <1>2 DEF PodKept
<1>. HIDE DEF q
<1>4. PodKept(q, g, b, r, L, t)
  BY <1>2, <1>3, KeptTimed
<1>. QED BY <1>4 DEF q

\* The statuses of a live pod are replaced.
LEMMA RenewedIs ==
    ASSUME NEW p, p \in PodRecords, NEW statuses \in [1..Containers -> StatusRecords] \cup {<<>>},
           NEW phase \in Phases
    PROVE  LET q == Renewed(p, statuses, phase)
           IN  /\ q \in PodRecords /\ q.requests = p.requests /\ q.startTime = p.startTime
               /\ q.statuses = statuses /\ q.phase = phase
               /\ q.deletionTimestamp = p.deletionTimestamp
BY DEF PodRecords, Renewed

\* A live pod has a status for each container.
LEMMA LiveStatuses ==
    ASSUME NEW p, NEW g, NEW b, NEW r, NEW L, NEW t, PodKept(p, g, b, r, L, t), ~Terminal(p)
    PROVE  /\ p \in PodRecords /\ p.statuses # <<>>
           /\ p.statuses \in [1..Containers -> StatusRecords]
           /\ \A c \in 1..Containers : StatusKept(p.statuses[c], b, t)
BY KeptFields DEF PodKept, Terminal

\* Statuses by container are not the empty sequence.
LEMMA NotEmpty ==
    ASSUME NEW statuses \in [1..Containers -> StatusRecords]
    PROVE  statuses # <<>>
<1>1. 1 \in 1..Containers
  BY LifecycleAssumption
<1>2. DOMAIN <<>> = {} /\ DOMAIN statuses = 1..Containers
  OBVIOUS
<1>. QED BY <1>1, <1>2

\* A container stops at t: what its status remembers stays.
StoppedAt(s, t) ==
    IF s.running = None THEN s
    ELSE [s EXCEPT !.running = None, !.termStart = s.running, !.termEnd = t]

LEMMA StatusStops ==
    ASSUME NEW t \in Nat \ {0}, NEW b \in Past(t), NEW s \in StatusRecords, StatusKept(s, b, t)
    PROVE  LET u == StoppedAt(s, t)
           IN  /\ u \in StatusRecords /\ StatusKept(u, b, t) /\ u.running = None
               /\ s.running # None => u.termEnd = t
               /\ \A r : b # None /\ Remembers(s, r, b) => Remembers(u, r, b)
<1>. DEFINE u == StoppedAt(s, t)
<1>1. CASE s.running = None
  BY <1>1 DEF StoppedAt
<1>2. CASE s.running # None
  <2>1. /\ s.termEnd = None /\ s.termStart = None /\ s.running \in 1..t
        /\ b # None /\ b <= s.running
    BY <1>2 DEF StatusKept, Past
  <2>2. /\ u \in StatusRecords /\ u.running = None /\ u.termStart = s.running
        /\ u.termEnd = t /\ u.lastStart = s.lastStart
    <3>1. u = [s EXCEPT !.running = None, !.termStart = s.running, !.termEnd = t]
      BY <1>2 DEF StoppedAt
    <3>2. s.running \in Int /\ t \in Int
      BY <2>1
    <3>. HIDE DEF u
    <3>. QED BY <3>1, <3>2 DEF StatusRecords, Instants
  <2>. HIDE DEF u
  <2>3. u.running \in Past(t) /\ u.termStart \in Past(t) /\ u.termEnd \in Past(t)
    BY <2>1, <2>2 DEF Past
  <2>4. u.termStart # None /\ u.termEnd # None /\ u.termStart <= u.termEnd
    BY <2>1, <2>2, NoneAssumption
  <2>5. \A i \in {u.running, u.termStart, u.lastStart} \ {None} : b # None /\ b <= i
    BY <2>1, <2>2 DEF StatusKept
  <2>6. StatusKept(u, b, t)
    BY <2>2, <2>3, <2>4, <2>5 DEF StatusKept
  <2>7. \A r : b # None /\ Remembers(s, r, b) => Remembers(u, r, b)
    BY <2>1, <2>2 DEF Remembers
  <2>. QED BY <2>2, <2>6, <2>7 DEF u
<1>. QED BY <1>1, <1>2

\* A container starts, and with it the pod if it is the first.
LEMMA KeptStarted ==
    ASSUME NEW t \in Nat \ {0}, NEW p, NEW g, NEW b \in Past(t), NEW r \in [1..Containers -> Nat],
           NEW L \in SUBSET Int, PodKept(p, g, b, r, L, t), ~Terminal(p), p.startTime # None,
           NEW c \in 1..Containers, p.statuses[c].running = None, p.statuses[c].termEnd = None,
           NEW u, u = [p.statuses[c] EXCEPT !.running = t],
           NEW a, a = IF b = None THEN t ELSE b
    PROVE  PodKept(Renewed(p, [p.statuses EXCEPT ![c] = u], "Running"), g, a, r, L, t)
<1>. DEFINE after == [p.statuses EXCEPT ![c] = u]
            q == Renewed(p, after, "Running")
<1>1. /\ p \in PodRecords /\ p.statuses \in [1..Containers -> StatusRecords]
      /\ \A d \in 1..Containers : StatusKept(p.statuses[d], b, t)
  BY LiveStatuses
<1>2. /\ u \in StatusRecords /\ u.running = t /\ u.termStart = p.statuses[c].termStart
      /\ u.termEnd = None /\ u.lastStart = p.statuses[c].lastStart
  <2>1. PICK s \in StatusRecords : s = p.statuses[c]
    BY <1>1
  <2>2. u = [s EXCEPT !.running = t]
    BY <2>1
  <2>3. /\ u \in StatusRecords /\ u.running = t /\ u.termStart = s.termStart
        /\ u.termEnd = s.termEnd /\ u.lastStart = s.lastStart
    BY <2>2 DEF StatusRecords, Instants
  <2>. QED BY <2>1, <2>3
<1>3. /\ after \in [1..Containers -> StatusRecords] /\ after[c] = u
      /\ \A d \in 1..Containers \ {c} : after[d] = p.statuses[d]
  BY <1>1, <1>2
<1>4. "Running" \in Phases
  BY DEF Phases
<1>. HIDE DEF after
<1>5. /\ q \in PodRecords /\ q.requests = p.requests /\ q.startTime = p.startTime
      /\ q.statuses = after /\ q.phase = "Running" /\ after # <<>>
  BY <1>1, <1>3, <1>4, RenewedIs, NotEmpty
<1>. HIDE DEF q
<1>6. a \in 1..t /\ a # None /\ (b # None => a = b)
  BY NoneAssumption DEF Past
<1>7. ASSUME NEW s, StatusKept(s, b, t) PROVE StatusKept(s, a, t)
  BY <1>6, <1>7 DEF StatusKept
<1>8. StatusKept(u, a, t)
  <2>1. StatusKept(p.statuses[c], a, t)
    BY <1>1, <1>7
  <2>2. u.termStart = None /\ t \in Past(t) /\ a <= t
    BY <1>1, <1>2, <1>6 DEF StatusKept, Past
  <2>. QED BY <1>2, <1>6, <2>1, <2>2 DEF StatusKept
<1>9. \A d \in 1..Containers : StatusKept(after[d], a, t)
  BY <1>1, <1>3, <1>7, <1>8
<1>10. \E d \in 1..Containers : Remembers(after[d], r[d], a)
  <2>1. CASE b = None
    <3>1. r[c] = 0 /\ a = t
      BY <2>1 DEF PodKept
    <3>. QED BY <1>2, <1>3, <3>1 DEF Remembers
  <2>2. CASE b # None
    <3>1. PICK d \in 1..Containers : Remembers(p.statuses[d], r[d], b)
      BY <2>2, LiveStatuses DEF PodKept
    <3>2. CASE d # c
      BY <1>3, <1>6, <2>2, <3>1, <3>2
    <3>3. CASE d = c
      <4>1. p.statuses[c].termStart = None
        BY <1>1 DEF StatusKept
      <4>2. Remembers(u, r[c], a)
        BY <1>2, <1>6, <2>2, <3>1, <3>3, <4>1 DEF Remembers
      <4>. QED BY <1>3, <4>2
    <3>. QED BY <3>2, <3>3
  <2>. QED BY <2>1, <2>2
<1>11. \A i \in L : a <= i /\ i < t
  BY <1>6 DEF PodKept
<1>12. ~Terminal(q) /\ \E d \in 1..Containers : q.statuses[d].termEnd = None
  BY <1>2, <1>3, <1>5 DEF Terminal
<1>13. q.requests = [d \in 1..Containers |-> g] /\ q.startTime \in Past(t) /\ q.startTime # None
  BY <1>5 DEF PodKept
<1>14. PodKept(q, g, a, r, L, t)
  BY <1>5, <1>6, <1>9, <1>10, <1>11, <1>12, <1>13 DEF PodKept
<1>. QED BY <1>14 DEF q, after

\* A container exits; the pod succeeds if it is the last.
LEMMA KeptExited ==
    ASSUME NEW t \in Nat \ {0}, NEW p, NEW g, NEW b \in Past(t), NEW r \in [1..Containers -> Nat],
           NEW L \in SUBSET Int, PodKept(p, g, b, r, L, t), ~Terminal(p),
           NEW c \in 1..Containers, p.statuses[c].running # None,
           NEW after, after = [p.statuses EXCEPT ![c] = StoppedAt(p.statuses[c], t)],
           NEW phase,
           phase = IF \A d \in 1..Containers : after[d].termEnd # None THEN "Succeeded" ELSE p.phase
    PROVE  PodKept(Renewed(p, after, phase), g, b, r, L, t)
<1>. DEFINE q == Renewed(p, after, phase)
<1>1. /\ p \in PodRecords /\ p.statuses \in [1..Containers -> StatusRecords] /\ p.statuses # <<>>
      /\ \A d \in 1..Containers : StatusKept(p.statuses[d], b, t)
  BY LiveStatuses
<1>2. PICK s, u : s = p.statuses[c] /\ u = StoppedAt(s, t)
  OBVIOUS
<1>3. /\ u \in StatusRecords /\ StatusKept(u, b, t) /\ u.termEnd = t /\ u.running = None
      /\ \A k : b # None /\ Remembers(s, k, b) => Remembers(u, k, b)
  BY <1>1, <1>2, StatusStops
<1>4. /\ after \in [1..Containers -> StatusRecords] /\ after[c] = u
      /\ \A d \in 1..Containers \ {c} : after[d] = p.statuses[d]
  BY <1>1, <1>2, <1>3
<1>5. phase \in Phases /\ (phase = "Succeeded" \/ (phase = p.phase /\ phase \notin {"Succeeded", "Failed"}))
  BY <1>1, KeptFields DEF Phases, Terminal
<1>6. /\ q \in PodRecords /\ q.requests = p.requests /\ q.startTime = p.startTime
      /\ q.statuses = after /\ q.phase = phase /\ after # <<>>
  <2>1. after \in [1..Containers -> StatusRecords] \cup {<<>>} /\ phase \in Phases
    BY <1>4, <1>5
  <2>. QED BY ONLY <1>1, <1>4, <2>1, RenewedIs, NotEmpty DEF q
<1>. HIDE DEF q
<1>7. \A d \in 1..Containers : StatusKept(after[d], b, t)
  BY <1>1, <1>3, <1>4
<1>8. b # None => \E d \in 1..Containers : Remembers(after[d], r[d], b)
  <2>1. ASSUME NEW d \in 1..Containers, b # None, Remembers(p.statuses[d], r[d], b)
        PROVE  Remembers(after[d], r[d], b)
    BY <1>2, <1>3, <1>4, <2>1
  <2>2. b # None => \E d \in 1..Containers : Remembers(p.statuses[d], r[d], b)
    BY <1>1 DEF PodKept
  <2>. QED BY <2>1, <2>2
<1>9. \A i \in L : b # None /\ b <= i /\ i < t
  BY DEF PodKept
<1>10. phase = "Succeeded" <=> \A d \in 1..Containers : after[d].termEnd # None
  BY <1>5 DEF Terminal
<1>11. phase = "Succeeded" =>
         /\ after[c].termEnd # None /\ \A i \in L : i < after[c].termEnd
         /\ \A d \in 1..Containers : after[d].running = None
  <2>1. t # None
    BY NoneAssumption
  <2>2. \A d \in 1..Containers : after[d].termEnd # None => after[d].running = None
    BY <1>7 DEF StatusKept
  <2>. QED BY <1>3, <1>4, <1>9, <1>10, <2>1, <2>2
<1>12. Terminal(q) <=> phase = "Succeeded"
  BY <1>5, <1>6 DEF Terminal
<1>13. /\ q.requests = [d \in 1..Containers |-> g] /\ q.startTime \in Past(t)
       /\ b # None => q.startTime # None
       /\ b = None => \A d \in 1..Containers : r[d] = 0
  BY <1>6 DEF PodKept
<1>14. PodKept(q, g, b, r, L, t)
  BY <1>6, <1>7, <1>8, <1>9, <1>10, <1>11, <1>12, <1>13 DEF PodKept
<1>. QED BY <1>14 DEF q

\* A container crashes: its status keeps the start of the run that ended.
LEMMA KeptCrashed ==
    ASSUME NEW t \in Nat \ {0}, NEW p, NEW g, NEW b \in Past(t), NEW r \in [1..Containers -> Nat],
           NEW L \in SUBSET Int, PodKept(p, g, b, r, L, t), ~Terminal(p),
           NEW c \in 1..Containers, p.statuses[c].running # None,
           NEW u, u = [Waiting EXCEPT !.lastStart = p.statuses[c].running]
    PROVE  PodKept(Renewed(p, [p.statuses EXCEPT ![c] = u], p.phase), g, b,
                   [r EXCEPT ![c] = @ + 1], L, t)
<1>. DEFINE after == [p.statuses EXCEPT ![c] = u]
            more == [r EXCEPT ![c] = @ + 1]
            q == Renewed(p, after, p.phase)
<1>1. /\ p \in PodRecords /\ p.statuses \in [1..Containers -> StatusRecords] /\ p.statuses # <<>>
      /\ \A d \in 1..Containers : StatusKept(p.statuses[d], b, t)
  BY LiveStatuses
<1>2. PICK s : s = p.statuses[c]
  OBVIOUS
<1>3. /\ s \in StatusRecords /\ s.running \in 1..t /\ s.termStart = None
      /\ b # None /\ b <= s.running
  <2>1. s \in StatusRecords /\ StatusKept(s, b, t) /\ s.running # None
    BY <1>1, <1>2
  <2>. QED BY <2>1 DEF StatusKept, Past
<1>4. /\ u \in StatusRecords /\ u.running = None /\ u.termStart = None
      /\ u.termEnd = None /\ u.lastStart = s.running
  BY <1>2, <1>3 DEF Waiting, ContainerStatus, StatusRecords, Instants
<1>5. /\ after \in [1..Containers -> StatusRecords] /\ after[c] = u
      /\ \A d \in 1..Containers \ {c} : after[d] = p.statuses[d]
  BY <1>1, <1>4
<1>6. /\ more[c] = r[c] + 1 /\ r[c] \in Nat
      /\ \A d \in 1..Containers \ {c} : more[d] = r[d]
  OBVIOUS
<1>7. p.phase \in Phases
  BY <1>1, KeptFields
<1>. HIDE DEF after, more
<1>8. /\ q \in PodRecords /\ q.requests = p.requests /\ q.startTime = p.startTime
      /\ q.statuses = after /\ q.phase = p.phase /\ after # <<>>
  BY <1>1, <1>5, <1>7, RenewedIs, NotEmpty
<1>. HIDE DEF q
<1>9. StatusKept(u, b, t)
  BY <1>3, <1>4 DEF StatusKept, Past
<1>10. \A d \in 1..Containers : StatusKept(after[d], b, t)
  BY <1>1, <1>5, <1>9
<1>11. \E d \in 1..Containers : Remembers(after[d], more[d], b)
  <2>1. PICK d \in 1..Containers : Remembers(p.statuses[d], r[d], b)
    BY <1>1, <1>3 DEF PodKept
  <2>2. CASE d # c
    BY <1>5, <1>6, <2>1, <2>2
  <2>3. CASE d = c
    <3>1. Remembers(u, r[c] + 1, b)
      BY <1>2, <1>3, <1>4, <1>6, <2>1, <2>3 DEF Remembers
    <3>. QED BY <1>5, <1>6, <3>1
  <2>. QED BY <2>2, <2>3
<1>12. ~Terminal(q) /\ \E d \in 1..Containers : q.statuses[d].termEnd = None
  BY <1>4, <1>5, <1>8 DEF Terminal
<1>13. /\ q.requests = [d \in 1..Containers |-> g] /\ q.startTime \in Past(t)
       /\ q.startTime # None /\ \A i \in L : b <= i /\ i < t
  BY <1>3, <1>8 DEF PodKept
<1>14. q.phase # "Succeeded"
  BY <1>12 DEF Terminal
<1>15. PodKept(q, g, b, more, L, t)
  BY <1>3, <1>8, <1>10, <1>11, <1>12, <1>13, <1>14 DEF PodKept
<1>. QED BY <1>15 DEF q, after, more

\* A pod fails, with its statuses or without.
LEMMA KeptFailed ==
    ASSUME NEW t \in Nat \ {0}, NEW p, NEW g, NEW b \in Past(t), NEW r \in [1..Containers -> Nat],
           NEW L \in SUBSET Int, PodKept(p, g, b, r, L, t), ~Terminal(p),
           NEW after,
           after = <<>> \/ after = [c \in 1..Containers |-> StoppedAt(p.statuses[c], t)]
    PROVE  PodKept(Renewed(p, after, "Failed"), g, b, r, L, t)
<1>. DEFINE q == Renewed(p, after, "Failed")
<1>1. /\ p \in PodRecords /\ p.statuses \in [1..Containers -> StatusRecords] /\ p.statuses # <<>>
      /\ \A d \in 1..Containers : StatusKept(p.statuses[d], b, t)
  BY LiveStatuses
<1>2. \A d \in 1..Containers :
        LET u == StoppedAt(p.statuses[d], t)
        IN  /\ u \in StatusRecords /\ StatusKept(u, b, t) /\ u.running = None
            /\ \A k : b # None /\ Remembers(p.statuses[d], k, b) => Remembers(u, k, b)
  BY <1>1, StatusStops
<1>3. /\ after \in [1..Containers -> StatusRecords] \cup {<<>>}
      /\ after # <<>> => \A d \in 1..Containers : after[d] = StoppedAt(p.statuses[d], t)
  BY <1>2
<1>4. "Failed" \in Phases
  BY DEF Phases
<1>5. /\ q \in PodRecords /\ q.requests = p.requests /\ q.startTime = p.startTime
      /\ q.statuses = after /\ q.phase = "Failed"
  BY ONLY <1>1, <1>3, <1>4, RenewedIs DEF q
<1>. HIDE DEF q
<1>6. ASSUME after # <<>>
      PROVE  /\ \A d \in 1..Containers : StatusKept(after[d], b, t) /\ after[d].running = None
             /\ b # None => \E d \in 1..Containers : Remembers(after[d], r[d], b)
  <2>1. \A d \in 1..Containers : StatusKept(after[d], b, t) /\ after[d].running = None
    BY <1>2, <1>3, <1>6
  <2>2. b # None => \E d \in 1..Containers : Remembers(p.statuses[d], r[d], b)
    BY <1>1 DEF PodKept
  <2>. QED BY <1>2, <1>3, <1>6, <2>1, <2>2
<1>7. Terminal(q) /\ q.phase # "Succeeded"
  BY <1>5 DEF Terminal
<1>8. /\ q.requests = [d \in 1..Containers |-> g] /\ q.startTime \in Past(t)
      /\ b # None => q.startTime # None
      /\ b = None => \A d \in 1..Containers : r[d] = 0
      /\ \A i \in L : b # None /\ b <= i /\ i < t
  BY <1>5 DEF PodKept
<1>9. PodKept(q, g, b, r, L, t)
  BY <1>5, <1>6, <1>7, <1>8 DEF PodKept
<1>. QED BY <1>9 DEF q

-----------------------------------------------------------------------------
(***************************************************************************)
(* What an undisturbed pod tells.                                          *)
(***************************************************************************)
\* The only container of an undisturbed pod runs from the start of the pod.
LEMMA OneRuns ==
    ASSUME NEW t \in Nat \ {0}, NEW p, NEW g, NEW b \in Past(t), NEW r, NEW L,
           PodKept(p, g, b, r, L, t), Prompt(p, b, r, t), Containers = 1, b # None, ~Terminal(p)
    PROVE  p.statuses[1].running = b
<1>1. 1..Containers = {1}
  OBVIOUS
<1>2. /\ p.statuses # <<>> /\ r[1] = 0
      /\ StatusKept(p.statuses[1], b, t) /\ Remembers(p.statuses[1], r[1], b)
      /\ p.statuses[1].termEnd = None
  BY <1>1 DEF PodKept, Prompt
<1>. QED BY <1>2 DEF Remembers, StatusKept

LEMMA ToldCreated ==
    ASSUME NEW n \in PodNames, NEW t \in Nat \ {0}, NEW r, \A c \in 1..Containers : r[c] = 0
    PROVE  PodTold(Created(n), None, r, {}, t)
<1>1. Waiting \in StatusRecords
  BY DEF Waiting, ContainerStatus, StatusRecords, Instants
<1>2. Created(n).statuses \in [1..Containers -> StatusRecords]
  BY <1>1 DEF Created
<1>3. Created(n).statuses # <<>>
  BY <1>2, NotEmpty
<1>4. Created(n).phase = "Pending" /\ Created(n).startTime = None
  BY DEF Created
<1>. QED BY <1>3, <1>4 DEF PodTold, Prompt, Exact

\* The times of a pod are set.
LEMMA ToldTimed ==
    ASSUME NEW t, NEW p, NEW b, NEW r, NEW L, PodTold(p, b, r, L, t),
           NEW q, q.statuses = p.statuses, q.phase = p.phase,
           q.startTime = p.startTime \/ q.startTime = t
    PROVE  PodTold(q, b, r, L, t)
<1>1. Terminal(q) <=> Terminal(p)
  BY DEF Terminal
<1>2. Prompt(p, b, r, t) => Prompt(q, b, r, t)
  BY DEF Prompt
<1>3. Exact(p, b, L, t) => Exact(q, b, L, t)
  BY <1>1 DEF Exact
<1>. QED BY <1>2, <1>3 DEF PodTold

\* A container of it starts.
LEMMA ToldStarted ==
    ASSUME NEW t \in Nat \ {0}, NEW p, NEW g, NEW b \in Past(t), NEW r,
           NEW L \in SUBSET Int, PodKept(p, g, b, r, L, t), PodTold(p, b, r, L, t), ~Terminal(p),
           NEW q, q.statuses # <<>>, q.phase = "Running",
           NEW a, a = IF b = None THEN t ELSE b
    PROVE  PodTold(q, a, r, L, t)
<1>1. ~Terminal(q) /\ a # None
  BY NoneAssumption DEF Terminal
<1>2. Prompt(p, b, r, t) => Prompt(q, a, r, t)
  BY <1>1 DEF Prompt
<1>3. Exact(p, b, L, t) => Exact(q, a, L, t)
  <2>1. CASE b = None
    <3>1. L = {}
      BY <2>1 DEF PodKept
    <3>2. t..(t - 1) = {}
      OBVIOUS
    <3>. QED BY <1>1, <2>1, <3>1, <3>2 DEF Exact
  <2>2. CASE b # None
    BY <1>1, <2>2 DEF Exact
  <2>. QED BY <2>1, <2>2
<1>. QED BY <1>2, <1>3 DEF PodTold

\* It ends at t, when its only container does.
LEMMA ToldEnded ==
    ASSUME NEW t \in Nat \ {0}, NEW p, NEW b, NEW r,
           NEW L \in SUBSET Int, PodTold(p, b, r, L, t), ~Terminal(p),
           Undisturbed => b # None,
           NEW q, Undisturbed => q.statuses # <<>>,
           Undisturbed /\ Containers = 1 => Terminal(q) /\ q.statuses[1].termEnd = t
    PROVE  PodTold(q, b, r, L, t)
<1>1. ASSUME Undisturbed PROVE Prompt(q, b, r, t)
  BY <1>1 DEF Prompt, PodTold
<1>2. ASSUME Undisturbed, Containers = 1 PROVE Exact(q, b, L, t)
  BY <1>2 DEF Exact, PodTold
<1>. QED BY <1>1, <1>2 DEF PodTold

\* A container exits at t; if it is the only one, the pod is done.
LEMMA ToldExited ==
    ASSUME NEW t \in Nat \ {0}, NEW p, NEW g, NEW b \in Past(t), NEW r,
           NEW L \in SUBSET Int, PodKept(p, g, b, r, L, t), PodTold(p, b, r, L, t), ~Terminal(p),
           NEW c \in 1..Containers, p.statuses[c].running # None,
           NEW q, q.statuses # <<>>, q.statuses[c].termEnd = t,
           Containers = 1 => q.phase = "Succeeded"
    PROVE  PodTold(q, b, r, L, t)
<1>1. StatusKept(p.statuses[c], b, t)
  BY LiveStatuses
<1>2. b # None
  <2>1. PICK i : i = p.statuses[c].running
    OBVIOUS
  <2>. QED BY <1>1, <2>1 DEF StatusKept
<1>3. ASSUME Containers = 1
      PROVE  Terminal(q) /\ q.statuses[1].termEnd = t
  BY <1>3 DEF Terminal
<1>. QED BY <1>2, <1>3, ToldEnded

\* A container crashes: an undisturbed pod does not come here.
LEMMA ToldCrashed ==
    ASSUME NEW t, NEW b, NEW r, NEW L, NEW c \in 1..Containers,
           r[c] \in Nat, r[c] < MaxRestarts, NEW q, NEW k
    PROVE  PodTold(q, b, k, L, t)
<1>1. ~Undisturbed
  BY DEF Undisturbed
<1>. QED BY <1>1 DEF PodTold

\* The pod fails.
LEMMA ToldFailed ==
    ASSUME NEW t \in Nat \ {0}, NEW p, NEW g, NEW b \in Past(t), NEW r,
           NEW L \in SUBSET Int, PodKept(p, g, b, r, L, t), PodTold(p, b, r, L, t), ~Terminal(p),
           SlowPulls \/ b # None, NEW after,
           (after = <<>> /\ ~StatusesKept)
           \/ after = [c \in 1..Containers |-> StoppedAt(p.statuses[c], t)],
           NEW q, q.statuses = after, q.phase = "Failed"
    PROVE  PodTold(q, b, r, L, t)
<1>1. Terminal(q)
  BY DEF Terminal
<1>2. /\ p \in PodRecords /\ p.statuses \in [1..Containers -> StatusRecords]
      /\ \A d \in 1..Containers : StatusKept(p.statuses[d], b, t)
  BY LiveStatuses
<1>3. ASSUME Undisturbed PROVE b # None /\ q.statuses # <<>>
  <2>1. after = [c \in 1..Containers |-> StoppedAt(p.statuses[c], t)] /\ b # None
    BY <1>3 DEF Undisturbed
  <2>2. \A d \in 1..Containers : StoppedAt(p.statuses[d], t) \in StatusRecords
    BY <1>2, StatusStops
  <2>3. after \in [1..Containers -> StatusRecords]
    BY <2>1, <2>2
  <2>. QED BY <2>1, <2>3, NotEmpty
<1>4. ASSUME Undisturbed, Containers = 1 PROVE q.statuses[1].termEnd = t
  <2>1. b # None /\ after = [c \in 1..Containers |-> StoppedAt(p.statuses[c], t)]
    BY <1>4 DEF Undisturbed
  <2>2. Prompt(p, b, r, t)
    BY <1>4 DEF PodTold
  <2>3. p.statuses[1].running = b
    BY <1>4, <2>1, <2>2, OneRuns
  <2>4. 1 \in 1..Containers
    BY <1>4
  <2>5. PICK s : s = p.statuses[1]
    OBVIOUS
  <2>6. StoppedAt(s, t).termEnd = t
    BY <1>2, <2>1, <2>3, <2>4, <2>5, StatusStops
  <2>. QED BY <2>1, <2>4, <2>5, <2>6
<1>. QED BY <1>1, <1>3, <1>4, ToldEnded

\* Time passes: an undisturbed pod that has been accepted has begun.
LEMMA ToldLater ==
    ASSUME NEW t \in Nat \ {0}, NEW p, NEW g \in Nat, NEW b \in Past(t), NEW r,
           NEW L \in SUBSET Int, PodKept(p, g, b, r, L, t), PodTold(p, b, r, L, t),
           p.startTime # None /\ ~Terminal(p) => SlowPulls \/ b # None,
           NEW runs,
           runs <=> p.startTime # None /\ ~Terminal(p)
                    /\ \E c \in 1..Containers : p.statuses[c].running # None,
           NEW M, M = IF runs THEN L \cup {t} ELSE L
    PROVE  PodTold(p, b, r, M, t + 1)
<1>1. ASSUME Undisturbed PROVE Prompt(p, b, r, t + 1)
  <2>1. Prompt(p, b, r, t)
    BY <1>1 DEF PodTold
  <2>2. b = None => p.startTime = None
    BY <1>1, <2>1 DEF Prompt, Undisturbed, Terminal
  <2>. QED BY <2>1, <2>2 DEF Prompt
<1>2. ASSUME Undisturbed, Containers = 1, b # None
      PROVE  M = b..((IF Terminal(p) THEN p.statuses[1].termEnd ELSE t + 1) - 1)
  <2>1. /\ Prompt(p, b, r, t) /\ p.startTime # None /\ b \in 1..t
        /\ L = b..((IF Terminal(p) THEN p.statuses[1].termEnd ELSE t) - 1)
    BY <1>2 DEF PodTold, Exact, PodKept, Past
  <2>2. CASE Terminal(p)
    BY <2>1, <2>2
  <2>3. CASE ~Terminal(p)
    <3>1. p.statuses[1].running = b /\ 1 \in 1..Containers
      BY <1>2, <2>1, <2>3, OneRuns
    <3>2. M = L \cup {t}
      BY <1>2, <2>1, <2>3, <3>1
    <3>3. L = b..(t - 1)
      BY <2>1, <2>3
    <3>. DEFINE e == IF Terminal(p) THEN p.statuses[1].termEnd ELSE t + 1
    <3>4. e = t + 1
      BY <2>3
    <3>. HIDE DEF e
    <3>5. (b..(t - 1)) \cup {t} = b..(e - 1)
      BY <2>1, <3>4
    <3>6. M = b..(e - 1)
      BY <3>2, <3>3, <3>5
    <3>. QED BY <3>6 DEF e
  <2>. QED BY <2>2, <2>3
<1>. QED BY <1>1, <1>2 DEF PodTold, Exact

-----------------------------------------------------------------------------
(***************************************************************************)
(* Every step keeps the pods so.                                           *)
(***************************************************************************)
LEMMA KeptInit == Init => KeptInv
<1>. SUFFICES ASSUME Init PROVE KeptInv
  OBVIOUS
<1>1. Seen = {} /\ IsFiniteSet(Seen) /\ IsFiniteSet(ledger)
  BY FS_EmptySet DEF Init, Seen
<1>2. KeptTypes
  BY <1>1, FS_EmptySet DEF Init, KeptTypes, Past
<1>3. \A n \in PodNames : Ticks(n) = {} /\ \A c \in 1..Containers : restarts[n][c] = 0
  BY DEF Init, Ticks
<1>. QED BY <1>2, <1>3 DEF KeptInv, Init

\* A pod that exists.
LEMMA PodSeen ==
    ASSUME KeptInv, NEW n \in PodNames, pods[n] # None
    PROVE  /\ pods[n] \in PodRecords /\ begun[n] \in Past(now)
           /\ restarts[n] \in [1..Containers -> Nat]
           /\ Gpus[n] \in Nat \ {0} /\ Ticks(n) \in SUBSET Int /\ now \in Nat \ {0}
           /\ n \notin collected
           /\ PodKept(pods[n], Gpus[n], begun[n], restarts[n], Ticks(n), now)
           /\ PodTold(pods[n], begun[n], restarts[n], Ticks(n), now)
<1>1. /\ pods[n] \in PodRecords /\ begun[n] \in Past(now) /\ now \in Nat \ {0}
      /\ restarts[n] \in [1..Containers -> Nat] /\ n \notin collected
  BY DEF KeptInv, KeptTypes, Seen
<1>2. Gpus[n] \in Nat \ {0} /\ Ticks(n) \in SUBSET Int
  BY LifecycleAssumption DEF Ticks
<1>3. /\ PodKept(pods[n], Gpus[n], begun[n], restarts[n], Ticks(n), now)
      /\ PodTold(pods[n], begun[n], restarts[n], Ticks(n), now)
  BY <1>1 DEF KeptInv
<1>. QED BY <1>1, <1>2, <1>3

\* A step of one pod.
LEMMA OnePod ==
    ASSUME KeptInv, NEW n \in PodNames, n \notin collected, NEW q \in PodRecords, NEW b \in Past(now),
           NEW r \in [1..Containers -> Nat],
           pods' = [pods EXCEPT ![n] = q], begun' = [begun EXCEPT ![n] = b],
           restarts' = [restarts EXCEPT ![n] = r], UNCHANGED <<now, collected, ledger>>,
           PodKept(q, Gpus[n], b, r, Ticks(n), now), PodTold(q, b, r, Ticks(n), now)
    PROVE  KeptInv'
<1>1. /\ pods'[n] = q /\ begun'[n] = b /\ restarts'[n] = r
      /\ \A m \in PodNames \ {n} :
            pods'[m] = pods[m] /\ begun'[m] = begun[m] /\ restarts'[m] = restarts[m]
  BY DEF KeptInv, KeptTypes
<1>2. /\ pods' \in [PodNames -> PodRecords \cup {None}]
      /\ begun' \in [PodNames -> Past(now)]
      /\ restarts' \in [PodNames -> [1..Containers -> Nat]]
  BY DEF KeptInv, KeptTypes
<1>3. IsFiniteSet(Seen')
  <2>1. Seen' \subseteq Seen \cup {n}
    BY <1>1 DEF Seen
  <2>2. IsFiniteSet(Seen \cup {n})
    BY FS_AddElement DEF KeptInv, KeptTypes
  <2>. QED BY <2>1, <2>2, FS_Subset
<1>4. KeptTypes'
  <2>1. collected' \in SUBSET (PodNames \ Seen')
    BY <1>1 DEF KeptInv, KeptTypes, Seen
  <2>. QED BY <1>2, <1>3, <2>1 DEF KeptInv, KeptTypes
<1>5. \A m \in PodNames : Ticks(m)' = Ticks(m)
  BY DEF Ticks
<1>6. q # None
  BY NoPodAssumption
<1>. QED BY <1>1, <1>4, <1>5, <1>6 DEF KeptInv

LEMMA CreateKept ==
    ASSUME KeptInv, NEW n \in PodNames, Create(n) PROVE KeptInv'
<1>1. /\ begun[n] = None /\ Ticks(n) = {} /\ restarts[n] \in [1..Containers -> Nat]
      /\ \A c \in 1..Containers : restarts[n][c] = 0
      /\ now \in Nat \ {0} /\ n \notin collected
  BY DEF KeptInv, KeptTypes, PodKept, Create
<1>2. PICK q, r, t : q = Created(n) /\ r = restarts[n] /\ t = now
  OBVIOUS
<1>3. PodKept(q, Gpus[n], None, r, {}, t) /\ PodTold(q, None, r, {}, t)
  BY <1>1, <1>2, KeptCreated, ToldCreated
<1>4. q \in PodRecords /\ None \in Past(now)
  BY <1>3 DEF PodKept, Past
<1>5. /\ pods' = [pods EXCEPT ![n] = q] /\ begun' = [begun EXCEPT ![n] = None]
      /\ restarts' = [restarts EXCEPT ![n] = r] /\ UNCHANGED <<now, collected, ledger>>
  BY <1>1, <1>2 DEF Create, KeptInv, KeptTypes
<1>. QED BY <1>1, <1>2, <1>3, <1>4, <1>5, OnePod

LEMMA AcceptKept ==
    ASSUME KeptInv, NEW n \in PodNames, Accept(n) PROVE KeptInv'
<1>1. pods[n] # None /\ pods[n].startTime = None
  BY DEF Accept
<1>2. PICK p, b, r, L, t : /\ p = pods[n] /\ b = begun[n] /\ r = restarts[n]
                           /\ L = Ticks(n) /\ t = now
  OBVIOUS
<1>3. /\ p \in PodRecords /\ t \in Nat \ {0} /\ b \in Past(t) /\ r \in [1..Containers -> Nat]
      /\ PodKept(p, Gpus[n], b, r, L, t) /\ PodTold(p, b, r, L, t)
      /\ n \notin collected
  BY <1>1, <1>2, PodSeen
<1>4. PICK q : q = [p EXCEPT !.startTime = t]
  OBVIOUS
<1>5. PodKept(q, Gpus[n], b, r, L, t)
  BY <1>1, <1>2, <1>3, <1>4, KeptAccepted
<1>6. q \in PodRecords /\ q.statuses = p.statuses /\ q.phase = p.phase /\ q.startTime = t
  BY <1>3, <1>4, <1>5 DEF PodRecords, PodKept
<1>7. PodTold(q, b, r, L, t)
  BY <1>3, <1>6, ToldTimed
<1>8. /\ pods' = [pods EXCEPT ![n] = q] /\ begun' = [begun EXCEPT ![n] = b]
      /\ restarts' = [restarts EXCEPT ![n] = r] /\ UNCHANGED <<now, collected, ledger>>
  BY <1>2, <1>4 DEF Accept, KeptInv, KeptTypes
<1>. QED BY <1>2, <1>3, <1>5, <1>6, <1>7, <1>8, OnePod

LEMMA DeleteKept ==
    ASSUME KeptInv, NEW n \in PodNames, Delete(n) PROVE KeptInv'
<1>1. pods[n] # None
  BY DEF Delete
<1>2. PICK p, b, r, L, t : /\ p = pods[n] /\ b = begun[n] /\ r = restarts[n]
                           /\ L = Ticks(n) /\ t = now
  OBVIOUS
<1>3. /\ p \in PodRecords /\ t \in Nat \ {0} /\ b \in Past(t) /\ r \in [1..Containers -> Nat]
      /\ PodKept(p, Gpus[n], b, r, L, t) /\ PodTold(p, b, r, L, t)
      /\ n \notin collected
  BY <1>1, <1>2, PodSeen
<1>4. PICK q : q = [p EXCEPT !.deletionTimestamp = t + 1]
  OBVIOUS
<1>5. PodKept(q, Gpus[n], b, r, L, t)
  BY <1>3, <1>4, KeptDeleted
<1>6. /\ q \in PodRecords /\ q.statuses = p.statuses /\ q.phase = p.phase
      /\ q.startTime = p.startTime
  BY <1>3, <1>4, <1>5 DEF PodRecords, PodKept
<1>7. PodTold(q, b, r, L, t)
  BY <1>3, <1>6, ToldTimed
<1>8. /\ pods' = [pods EXCEPT ![n] = q] /\ begun' = [begun EXCEPT ![n] = b]
      /\ restarts' = [restarts EXCEPT ![n] = r] /\ UNCHANGED <<now, collected, ledger>>
  BY <1>2, <1>4 DEF Delete, KeptInv, KeptTypes
<1>. QED BY <1>2, <1>3, <1>5, <1>6, <1>7, <1>8, OnePod

LEMMA StartKept ==
    ASSUME KeptInv, NEW n \in PodNames, NEW c \in 1..Containers, StartContainer(n, c)
    PROVE  KeptInv'
<1>1. pods[n] # None
  BY DEF StartContainer, Live
<1>2. PICK p, b, r, L, t : /\ p = pods[n] /\ b = begun[n] /\ r = restarts[n]
                           /\ L = Ticks(n) /\ t = now
  OBVIOUS
<1>3. /\ p \in PodRecords /\ t \in Nat \ {0} /\ b \in Past(t) /\ r \in [1..Containers -> Nat]
      /\ L \in SUBSET Int /\ Gpus[n] \in Nat
      /\ PodKept(p, Gpus[n], b, r, L, t) /\ PodTold(p, b, r, L, t)
      /\ n \notin collected
  BY <1>1, <1>2, PodSeen
<1>4. /\ ~Terminal(p) /\ p.startTime # None
      /\ p.statuses[c].running = None /\ p.statuses[c].termEnd = None
  BY <1>2 DEF StartContainer, Live
<1>5. PICK u, a, after, q : /\ u = [p.statuses[c] EXCEPT !.running = t]
                            /\ a = IF b = None THEN t ELSE b
                            /\ after = [p.statuses EXCEPT ![c] = u]
                            /\ q = Renewed(p, after, "Running")
  OBVIOUS
<1>6. PodKept(q, Gpus[n], a, r, L, t)
  BY <1>3, <1>4, <1>5, KeptStarted
<1>7. p.statuses \in [1..Containers -> StatusRecords]
  BY <1>3, <1>4, LiveStatuses
<1>8. q.phase = "Running" /\ q \in PodRecords /\ q.statuses # <<>>
  <2>1. q \in PodRecords
    BY <1>6 DEF PodKept
  <2>2. q.phase = "Running"
    BY <1>3, <1>5 DEF Renewed, PodRecords
  <2>. QED BY <1>6, <2>1, <2>2 DEF PodKept
<1>9. PodTold(q, a, r, L, t)
  BY <1>3, <1>4, <1>5, <1>8, ToldStarted
<1>10. pods' = [pods EXCEPT ![n] = q]
  <2>1. pods' = [pods EXCEPT ![n] = [p EXCEPT !.statuses = after, !.phase = "Running"]]
    BY <1>2, <1>5 DEF StartContainer, KeptInv, KeptTypes
  <2>. QED BY <1>5, <2>1 DEF Renewed
<1>11. begun' = [begun EXCEPT ![n] = a]
  BY <1>2, <1>5 DEF StartContainer, KeptInv, KeptTypes
<1>12. restarts' = [restarts EXCEPT ![n] = r] /\ UNCHANGED <<now, collected, ledger>>
  BY <1>2 DEF StartContainer, KeptInv, KeptTypes
<1>13. a \in Past(t)
  BY <1>3, <1>5 DEF Past
<1>. QED BY <1>2, <1>3, <1>6, <1>8, <1>9, <1>10, <1>11, <1>12, <1>13, OnePod

LEMMA ExitKept ==
    ASSUME KeptInv, NEW n \in PodNames, NEW c \in 1..Containers, ExitContainer(n, c)
    PROVE  KeptInv'
<1>1. pods[n] # None
  BY DEF ExitContainer, Live
<1>2. PICK p, b, r, L, t : /\ p = pods[n] /\ b = begun[n] /\ r = restarts[n]
                           /\ L = Ticks(n) /\ t = now
  OBVIOUS
<1>3. /\ p \in PodRecords /\ t \in Nat \ {0} /\ b \in Past(t) /\ r \in [1..Containers -> Nat]
      /\ L \in SUBSET Int /\ Gpus[n] \in Nat
      /\ PodKept(p, Gpus[n], b, r, L, t) /\ PodTold(p, b, r, L, t)
      /\ n \notin collected
  BY <1>1, <1>2, PodSeen
<1>4. ~Terminal(p) /\ p.statuses[c].running # None
  BY <1>2 DEF ExitContainer, Live
<1>5. PICK after, phase, q :
         /\ after = [p.statuses EXCEPT ![c] = StoppedAt(p.statuses[c], t)]
         /\ phase = IF \A d \in 1..Containers : after[d].termEnd # None THEN "Succeeded" ELSE p.phase
         /\ q = Renewed(p, after, phase)
  OBVIOUS
<1>6. PodKept(q, Gpus[n], b, r, L, t)
  BY <1>3, <1>4, <1>5, KeptExited
<1>7. p.statuses \in [1..Containers -> StatusRecords]
  BY <1>3, <1>4, LiveStatuses
<1>8. q \in PodRecords /\ q.statuses = after /\ q.phase = phase
  <2>1. q \in PodRecords
    BY <1>6 DEF PodKept
  <2>2. q.statuses = after /\ q.phase = phase
    BY <1>3, <1>5 DEF Renewed, PodRecords
  <2>. QED BY <2>1, <2>2
<1>9. PodTold(q, b, r, L, t)
  <2>1. PICK s, u : s = p.statuses[c] /\ u = StoppedAt(s, t)
    OBVIOUS
  <2>2. s \in StatusRecords /\ StatusKept(s, b, t) /\ s.running # None
    BY <1>3, <1>4, <2>1, LiveStatuses
  <2>3. u.termEnd = t
    BY <1>3, <2>1, <2>2, StatusStops
  <2>4. q.statuses[c].termEnd = t
    BY <1>5, <1>7, <1>8, <2>1, <2>3
  <2>5. Containers = 1 => q.phase = "Succeeded"
    <3>1. t # None /\ (Containers = 1 => 1..Containers = {c})
      BY <1>3, NoneAssumption
    <3>. QED BY <1>5, <1>8, <2>4, <3>1
  <2>6. q.statuses # <<>>
    <3>1. u \in StatusRecords
      BY <1>3, <2>1, <2>2, StatusStops
    <3>2. after \in [1..Containers -> StatusRecords]
      BY <1>5, <1>7, <2>1, <3>1
    <3>. QED BY <1>8, <3>2, NotEmpty
  <2>. QED BY <1>3, <1>4, <2>4, <2>5, <2>6, ToldExited
<1>10. pods' = [pods EXCEPT ![n] = q]
  <2>1. Stopped(p.statuses[c]) = StoppedAt(p.statuses[c], t)
    BY <1>2 DEF Stopped, StoppedAt
  <2>2. after = [pods[n].statuses EXCEPT ![c] = Stopped(@)]
    BY <1>2, <1>5, <2>1
  <2>3. pods' = [pods EXCEPT ![n] = Renewed(p, after, phase)]
    BY <1>2, <1>5, <2>2 DEF ExitContainer
  <2>. QED BY <1>5, <2>3
<1>11. /\ begun' = [begun EXCEPT ![n] = b] /\ restarts' = [restarts EXCEPT ![n] = r]
       /\ UNCHANGED <<now, collected, ledger>>
  BY <1>2 DEF ExitContainer, KeptInv, KeptTypes
<1>. QED BY <1>2, <1>3, <1>6, <1>8, <1>9, <1>10, <1>11, OnePod

LEMMA CrashKept ==
    ASSUME KeptInv, NEW n \in PodNames, NEW c \in 1..Containers, CrashContainer(n, c)
    PROVE  KeptInv'
<1>1. pods[n] # None
  BY DEF CrashContainer, Live
<1>2. PICK p, b, r, L, t : /\ p = pods[n] /\ b = begun[n] /\ r = restarts[n]
                           /\ L = Ticks(n) /\ t = now
  OBVIOUS
<1>3. /\ p \in PodRecords /\ t \in Nat \ {0} /\ b \in Past(t) /\ r \in [1..Containers -> Nat]
      /\ L \in SUBSET Int /\ Gpus[n] \in Nat
      /\ PodKept(p, Gpus[n], b, r, L, t)
      /\ n \notin collected
  BY <1>1, <1>2, PodSeen
<1>4. ~Terminal(p) /\ p.statuses[c].running # None /\ r[c] < MaxRestarts
  BY <1>2 DEF CrashContainer, Live
<1>5. PICK u, after, more, q : /\ u = [Waiting EXCEPT !.lastStart = p.statuses[c].running]
                               /\ after = [p.statuses EXCEPT ![c] = u]
                               /\ more = [r EXCEPT ![c] = @ + 1]
                               /\ q = Renewed(p, after, p.phase)
  OBVIOUS
<1>6. PodKept(q, Gpus[n], b, more, L, t)
  BY <1>3, <1>4, <1>5, KeptCrashed
<1>7. PodTold(q, b, more, L, t)
  BY <1>3, <1>4, ToldCrashed
<1>8. q \in PodRecords /\ more \in [1..Containers -> Nat]
  BY <1>3, <1>5, <1>6 DEF PodKept
<1>9. p.statuses \in [1..Containers -> StatusRecords]
  BY <1>3, <1>4, LiveStatuses
<1>10. pods' = [pods EXCEPT ![n] = q]
  <2>1. pods' = [pods EXCEPT ![n] = [p EXCEPT !.statuses = after]]
    BY <1>2, <1>5 DEF CrashContainer, KeptInv, KeptTypes
  <2>2. q = [p EXCEPT !.statuses = after]
    BY <1>3, <1>5 DEF Renewed, PodRecords
  <2>. QED BY <2>1, <2>2
<1>11. /\ begun' = [begun EXCEPT ![n] = b] /\ restarts' = [restarts EXCEPT ![n] = more]
       /\ UNCHANGED <<now, collected, ledger>>
  BY <1>2, <1>5 DEF CrashContainer, KeptInv, KeptTypes
<1>. QED BY <1>2, <1>3, <1>6, <1>7, <1>8, <1>10, <1>11, OnePod

LEMMA FailKept ==
    ASSUME KeptInv, NEW n \in PodNames, Fail(n) PROVE KeptInv'
<1>1. pods[n] # None
  BY DEF Fail, Live
<1>2. PICK p, b, r, L, t : /\ p = pods[n] /\ b = begun[n] /\ r = restarts[n]
                           /\ L = Ticks(n) /\ t = now
  OBVIOUS
<1>3. /\ p \in PodRecords /\ t \in Nat \ {0} /\ b \in Past(t) /\ r \in [1..Containers -> Nat]
      /\ L \in SUBSET Int /\ Gpus[n] \in Nat
      /\ PodKept(p, Gpus[n], b, r, L, t) /\ PodTold(p, b, r, L, t)
      /\ n \notin collected
  BY <1>1, <1>2, PodSeen
<1>4. ~Terminal(p) /\ (SlowPulls \/ b # None)
  BY <1>2 DEF Fail, Live, PulledAtOnce
<1>5. PICK kept \in {TRUE, StatusesKept} :
         LET after == IF kept THEN [c \in 1..Containers |-> Stopped(pods[n].statuses[c])]
                              ELSE <<>>
         IN  pods' = [pods EXCEPT ![n] = Renewed(@, after, "Failed")]
  BY DEF Fail
<1>6. PICK after, q :
         /\ after = IF kept THEN [c \in 1..Containers |-> StoppedAt(p.statuses[c], t)] ELSE <<>>
         /\ q = Renewed(p, after, "Failed")
  OBVIOUS
<1>7. \/ after = <<>> /\ ~StatusesKept
      \/ after = [c \in 1..Containers |-> StoppedAt(p.statuses[c], t)]
  BY <1>5, <1>6
<1>8. PodKept(q, Gpus[n], b, r, L, t)
  BY <1>3, <1>4, <1>6, <1>7, KeptFailed
<1>9. q \in PodRecords /\ q.statuses = after /\ q.phase = "Failed"
  <2>1. q \in PodRecords
    BY <1>8 DEF PodKept
  <2>2. q.statuses = after /\ q.phase = "Failed"
    BY <1>3, <1>6 DEF Renewed, PodRecords
  <2>. QED BY <2>1, <2>2
<1>10. PodTold(q, b, r, L, t)
  BY <1>3, <1>4, <1>7, <1>9, ToldFailed
<1>11. pods' = [pods EXCEPT ![n] = q]
  <2>1. [c \in 1..Containers |-> Stopped(p.statuses[c])]
          = [c \in 1..Containers |-> StoppedAt(p.statuses[c], t)]
    BY <1>2 DEF Stopped, StoppedAt
  <2>2. pods' = [pods EXCEPT ![n] = Renewed(p, after, "Failed")]
    BY <1>2, <1>5, <1>6, <2>1
  <2>. QED BY <1>6, <2>2
<1>12. /\ begun' = [begun EXCEPT ![n] = b] /\ restarts' = [restarts EXCEPT ![n] = r]
       /\ UNCHANGED <<now, collected, ledger>>
  BY <1>2 DEF Fail, KeptInv, KeptTypes
<1>. QED BY <1>2, <1>3, <1>8, <1>9, <1>10, <1>11, <1>12, OnePod

\* A pod that leaves takes its status with it, and leaves its ticks in the ledger.
LEMMA CollectKept ==
    ASSUME KeptInv, NEW n \in PodNames, Collect(n) PROVE KeptInv'
<1>1. /\ pods[n] # None /\ pods' = [pods EXCEPT ![n] = None]
      /\ collected' = collected \cup {n} /\ UNCHANGED <<now, ledger, begun, restarts>>
  BY DEF Collect
<1>2. KeptTypes
  BY DEF KeptInv
<1>3. pods'[n] = None /\ \A m \in PodNames \ {n} : pods'[m] = pods[m]
  BY <1>1, <1>2 DEF KeptTypes
<1>4. Seen' = Seen \ {n} /\ IsFiniteSet(Seen')
  <2>1. Seen' = Seen \ {n}
    BY <1>3 DEF Seen
  <2>. QED BY <1>2, <2>1, FS_Subset DEF KeptTypes
<1>5. IsFiniteSet(collected') /\ collected' \in SUBSET (PodNames \ Seen')
  <2>1. IsFiniteSet(collected \cup {n})
    BY <1>2, FS_AddElement DEF KeptTypes
  <2>. QED BY <1>1, <1>2, <1>4, <2>1 DEF KeptTypes
<1>6. KeptTypes'
  BY <1>1, <1>2, <1>4, <1>5 DEF KeptTypes
<1>7. \A m \in PodNames : Ticks(m)' = Ticks(m)
  BY <1>1 DEF Ticks
<1>8. Undisturbed => \A c \in 1..Containers : restarts[n][c] = 0
  BY <1>1, PodSeen DEF PodTold, Prompt
<1>. QED BY <1>1, <1>3, <1>6, <1>7, <1>8 DEF KeptInv

LEMMA TickKept ==
    ASSUME KeptInv, Tick PROVE KeptInv'
<1>. DEFINE running == {m \in PodNames : Runs(m)}
            added == {<<n, now>> : n \in running}
<1>1. /\ now' = now + 1 /\ ledger' = ledger \cup added
      /\ UNCHANGED <<pods, collected, begun, restarts>>
  BY DEF Tick
<1>2. KeptTypes
  BY DEF KeptInv
<1>3. IsFiniteSet(added)
  <2>1. running \subseteq Seen
    BY DEF Runs, Live, Seen
  <2>2. IsFiniteSet(running)
    BY <1>2, <2>1, FS_Subset DEF KeptTypes
  <2>. DEFINE f == [n \in running |-> <<n, now>>]
  <2>3. added = {f[n] : n \in running}
    OBVIOUS
  <2>. HIDE DEF f, running
  <2>. QED BY <2>2, <2>3, FiniteImage
<1>4. IsFiniteSet(ledger')
  <2>. HIDE DEF added
  <2>. QED BY <1>1, <1>2, <1>3, FS_Union DEF KeptTypes
<1>5. ledger' \subseteq PodNames \X (1..now')
  BY <1>1, <1>2 DEF KeptTypes
<1>6. KeptTypes'
  <2>1. \A x : x \in Past(now) => x \in Past(now')
    BY <1>1, <1>2 DEF Past, KeptTypes
  <2>2. now' \in Nat \ {0}
    BY <1>1, <1>2 DEF KeptTypes
  <2>3. Seen' = Seen
    BY <1>1 DEF Seen
  <2>. HIDE DEF added
  <2>. QED BY <1>1, <1>2, <1>4, <1>5, <2>1, <2>2, <2>3 DEF KeptTypes
<1>7. ASSUME NEW n \in PodNames
      PROVE  Ticks(n)' = IF Runs(n) THEN Ticks(n) \cup {now} ELSE Ticks(n)
  <2>1. ASSUME NEW t PROVE <<n, t>> \in ledger' <=> <<n, t>> \in ledger \/ (t = now /\ Runs(n))
    BY <1>1
  <2>2. \A t : <<n, t>> \in ledger => t \in 1..now
    BY <1>2 DEF KeptTypes
  <2>3. Ticks(n)' = {t \in 1..now' : <<n, t>> \in ledger'}
    BY DEF Ticks
  <2>4. now \in Nat \ {0}
    BY <1>2 DEF KeptTypes
  <2>5. \A t : t \in Ticks(n)' <=> t \in Ticks(n) \/ (t = now /\ Runs(n))
    BY <1>1, <2>1, <2>2, <2>3, <2>4 DEF Ticks
  <2>. QED BY <2>5
<1>8. ASSUME NEW n \in PodNames, pods[n] = None, n \notin collected
      PROVE  /\ pods'[n] = None /\ begun'[n] = None /\ Ticks(n)' = {}
             /\ \A c \in 1..Containers : restarts'[n][c] = 0
  <2>1. ~Runs(n)
    BY <1>8 DEF Runs, Live
  <2>2. pods[n] = None /\ begun[n] = None /\ Ticks(n) = {} /\ \A c \in 1..Containers : restarts[n][c] = 0
    BY <1>8 DEF KeptInv
  <2>. QED BY <1>1, <1>7, <2>1, <2>2
<1>9. ASSUME NEW n \in PodNames, pods[n] # None
      PROVE  /\ PodKept(pods'[n], Gpus[n], begun'[n], restarts'[n], Ticks(n)', now')
             /\ PodTold(pods'[n], begun'[n], restarts'[n], Ticks(n)', now')
  <2>1. PICK p, b, r, L, M, t, runs :
           /\ p = pods[n] /\ b = begun[n] /\ r = restarts[n]
           /\ L = Ticks(n) /\ M = Ticks(n)' /\ t = now /\ runs = Runs(n)
    OBVIOUS
  <2>2. /\ p \in PodRecords /\ t \in Nat \ {0} /\ b \in Past(t) /\ r \in [1..Containers -> Nat]
        /\ L \in SUBSET Int /\ Gpus[n] \in Nat
        /\ PodKept(p, Gpus[n], b, r, L, t) /\ PodTold(p, b, r, L, t)
    BY <1>9, <2>1, PodSeen
  <2>3. runs <=> p.startTime # None /\ ~Terminal(p)
                 /\ \E c \in 1..Containers : p.statuses[c].running # None
    BY <1>9, <2>1 DEF Runs, Live
  <2>4. M = IF runs THEN L \cup {t} ELSE L
    BY <1>7, <2>1
  <2>5. p.startTime # None /\ ~Terminal(p) => SlowPulls \/ b # None
    BY <1>9, <2>1 DEF Tick, Live, PulledAtOnce
  <2>6. PodKept(p, Gpus[n], b, r, M, t + 1)
    <3>1. \/ M = L
          \/ /\ M = L \cup {t} /\ ~Terminal(p)
             /\ \E c \in 1..Containers : p.statuses[c].running # None
      BY <2>3, <2>4
    <3>. QED BY <2>2, <3>1, KeptLater
  <2>7. PodTold(p, b, r, M, t + 1)
    BY <2>2, <2>3, <2>4, <2>5, ToldLater
  <2>. QED BY <1>1, <2>1, <2>6, <2>7
<1>10. ASSUME NEW n \in PodNames, n \in collected
       PROVE  n \in collected' /\ (Undisturbed => \A c \in 1..Containers : restarts'[n][c] = 0)
  <2>1. pods[n] = None
    BY <1>2, <1>10 DEF KeptTypes, Seen
  <2>. QED BY <1>1, <1>10, <2>1 DEF KeptInv
<1>. QED BY <1>1, <1>6, <1>8, <1>9, <1>10 DEF KeptInv

LEMMA KeptStep == KeptInv /\ [Next]_vars => KeptInv'
<1>. SUFFICES ASSUME KeptInv, [Next]_vars PROVE KeptInv'
  OBVIOUS
<1>1. CASE Tick
  BY <1>1, TickKept
<1>2. ASSUME NEW n \in PodNames, Create(n) PROVE KeptInv'
  BY <1>2, CreateKept
<1>3. ASSUME NEW n \in PodNames, Accept(n) PROVE KeptInv'
  BY <1>3, AcceptKept
<1>4. ASSUME NEW n \in PodNames, Fail(n) PROVE KeptInv'
  BY <1>4, FailKept
<1>5. ASSUME NEW n \in PodNames, Delete(n) PROVE KeptInv'
  BY <1>5, DeleteKept
<1>6. ASSUME NEW n \in PodNames, NEW c \in 1..Containers, StartContainer(n, c) PROVE KeptInv'
  BY <1>6, StartKept
<1>7. ASSUME NEW n \in PodNames, NEW c \in 1..Containers, ExitContainer(n, c) PROVE KeptInv'
  BY <1>7, ExitKept
<1>8. ASSUME NEW n \in PodNames, NEW c \in 1..Containers, CrashContainer(n, c) PROVE KeptInv'
  BY <1>8, CrashKept
<1>9. CASE UNCHANGED vars
  BY <1>9 DEF vars, KeptInv, KeptTypes, Seen, Ticks
<1>10. ASSUME NEW n \in PodNames, Collect(n) PROVE KeptInv'
  BY <1>10, CollectKept
<1>. QED BY <1>1, <1>2, <1>3, <1>4, <1>5, <1>6, <1>7, <1>8, <1>9, <1>10 DEF Next

LEMMA Kept == Spec => []KeptInv
BY KeptInit, KeptStep, PTL DEF Spec

\* The interval that the accounting sees of a pod begins when the first of its
\* containers first ran, whichever have ended, crashed or been restarted since
\* (earliestContainerStart reads the state before the last one).
THEOREM StartRemembered == Spec => []StartIsEarliest
<1>1. ASSUME KeptInv PROVE StartIsEarliest
  <2>. SUFFICES ASSUME NEW n \in Seen, begun[n] # None, StartsRemembered(n),
                       pods[n].statuses # <<>>
                PROVE  EarliestContainerStart(pods[n]) = begun[n]
    BY DEF StartIsEarliest
  <2>1. n \in PodNames /\ pods[n] # None
    BY DEF Seen
  <2>2. PICK p, b, r, L, t : /\ p = pods[n] /\ b = begun[n] /\ r = restarts[n]
                             /\ L = Ticks(n) /\ t = now
    OBVIOUS
  <2>3. /\ t \in Nat \ {0} /\ b \in 1..t /\ r \in [1..Containers -> Nat] /\ Gpus[n] \in Nat
        /\ PodKept(p, Gpus[n], b, r, L, t)
    BY <1>1, <2>1, <2>2, PodSeen DEF Past
  <2>4. Once(r)
    BY <2>2, <2>3 DEF StartsRemembered, Once
  <2>. QED BY <2>2, <2>3, <2>4, KeptStart
<1>. QED BY <1>1, Kept, PTL

-----------------------------------------------------------------------------
(***************************************************************************)
(* What one pod contributes.                                               *)
(***************************************************************************)
\* The reported end of a pod comes after the end of each of its containers, and
\* after its start.
LEMMA KeptEnded ==
    ASSUME NEW t \in Nat, NEW p, NEW g \in Nat, NEW b \in 1..t, NEW r, NEW L,
           PodKept(p, g, b, r, L, t), Terminal(p), p.statuses # <<>>,
           NEW c \in 1..Containers, p.statuses[c].termEnd # None
    PROVE  PodEnd(p) \in Int /\ p.statuses[c].termEnd <= PodEnd(p) /\ b <= PodEnd(p)
<1>1. /\ p \in PodRecords /\ p.requests = [d \in 1..Containers |-> g]
      /\ StatusKept(p.statuses[c], b, t)
  BY DEF PodKept
<1>2. p.statuses[c].termEnd \in ContainerEnds(p)
  BY <1>1, KeptFields, EndsAre
<1>3. IsPod(p)
  BY <1>1, KeptIsPod
<1>4. PICK s : s = p.statuses[c]
  OBVIOUS
<1>5. /\ PodEnd(p) \in Int /\ s.termEnd \in Int /\ s.termEnd <= PodEnd(p)
  BY <1>2, <1>3, <1>4, EndIs, StartsFinite
<1>6. s.termStart \in 1..t /\ s.termStart <= s.termEnd /\ b <= s.termStart
  <2>1. StatusKept(s, b, t) /\ s.termEnd # None
    BY <1>1, <1>4
  <2>2. s.termStart \in 1..t /\ s.termStart <= s.termEnd /\ s.termStart # None
    BY <2>1, NoneAssumption DEF StatusKept, Past
  <2>3. PICK i : i = s.termStart
    OBVIOUS
  <2>4. b <= i
    BY <2>1, <2>2, <2>3 DEF StatusKept
  <2>. QED BY <2>2, <2>3, <2>4
<1>. QED BY <1>4, <1>5, <1>6

\* What is handed to the engine of a pod that has begun.
LEMMA KeptConverted ==
    ASSUME NEW t \in Nat, NEW p, NEW g \in Nat \ {0}, NEW b \in 1..t, NEW r, NEW L,
           PodKept(p, g, b, r, L, t), p.statuses # <<>>,
           Once(r)
    PROVE  /\ Accountable(p) /\ PodToAccounting(p) \in AccountingPods
           /\ PodToAccounting(p).start = b /\ PodToAccounting(p).end = PodEnd(p)
           /\ PodToAccounting(p).gpus = g * Containers /\ g * Containers \in Nat
<1>1. p \in PodRecords /\ p.requests = [c \in 1..Containers |-> g] /\ g \in Nat
  BY DEF PodKept
<1>2. EarliestContainerStart(p) = b
  BY <1>1, KeptStart
<1>3. GpuRequestTotal(p) = g * Containers /\ g * Containers \in Nat /\ g * Containers > 0
  <2>1. GpuRequestTotal(p) = g * Containers
    BY <1>1, KeptRequest
  <2>2. Containers \in Nat \ {0}
    BY LifecycleAssumption
  <2>3. \A x, y \in Nat \ {0} : x * y \in Nat /\ x * y > 0
    OBVIOUS
  <2>. QED BY <2>1, <2>2, <2>3
<1>4. Accountable(p)
  BY <1>2, <1>3, NoneAssumption DEF Accountable
<1>5. PodToAccounting(p) \in AccountingPods
  BY <1>1, <1>4, KeptIsPod, Converted
<1>. QED BY <1>2, <1>3, <1>4, <1>5 DEF PodToAccounting, AccountingPod

\* It contributes no less than the ticks in which it ran.
LEMMA KeptBilled ==
    ASSUME NEW t \in Nat, NEW p, NEW g \in Nat \ {0}, NEW b \in 1..t, NEW r,
           NEW L \in SUBSET Int,
           PodKept(p, g, b, r, L, t), p.phase # "Failed",
           Once(r),
           NEW from \in Int, from < t
    PROVE  /\ Accountable(p) /\ Cardinality(Since(L, from)) \in Nat
           /\ g * Containers * Cardinality(Since(L, from)) <= WindowUsage(PodToAccounting(p), from, t)
<1>1. p.statuses # <<>>
  BY DEF PodKept
<1>2. PICK pod : pod = PodToAccounting(p)
  OBVIOUS
<1>3. /\ Accountable(p) /\ pod \in AccountingPods /\ pod.start = b /\ pod.end = PodEnd(p)
      /\ pod.gpus = g * Containers /\ pod.gpus \in Nat
  BY <1>1, <1>2, KeptConverted
<1>4. ~Inverted(pod) /\ \A i \in L : i < EffectiveEnd(pod, t)
  <2>1. \A i \in L : i < t
    BY DEF PodKept
  <2>2. CASE p.phase = "Succeeded"
    <3>1. PodEnd(p) \in Int /\ \A i \in L : i < PodEnd(p)
      BY <2>2, KeptEnd
    <3>2. PICK c \in 1..Containers : p.statuses[c].termEnd # None
      BY <2>2 DEF PodKept
    <3>3. b <= PodEnd(p)
      BY <1>1, <2>2, <3>2, KeptEnded DEF Terminal
    <3>. QED BY <1>3, <2>1, <3>1, <3>3 DEF Inverted, EffectiveEnd
  <2>3. CASE p.phase # "Succeeded"
    <3>1. pod.end = None
      BY <1>3, <2>3 DEF PodEnd, Terminal
    <3>. QED BY <2>1, <3>1 DEF Inverted, EffectiveEnd
  <2>. QED BY <2>2, <2>3
<1>5. PICK W, V : W = Since(L, from) /\ V = Since(TicksTo(pod, t), from)
  OBVIOUS
<1>6. /\ IsFiniteSet(V) /\ Cardinality(V) \in Nat
      /\ WindowUsage(pod, from, t) = pod.gpus * Cardinality(V)
  BY <1>3, <1>4, <1>5, UsageCounts
<1>7. W \in SUBSET V
  <2>1. EffectiveEnd(pod, t) \in Int
    BY <1>3 DEF EffectiveEnd, AccountingPods
  <2>2. \A i \in L : b <= i
    BY DEF PodKept
  <2>3. PICK e : e = EffectiveEnd(pod, t)
    OBVIOUS
  <2>4. ASSUME NEW i \in W PROVE i \in V
    <3>1. i \in Int /\ b <= i /\ i < e /\ i >= from /\ e \in Int
      BY <1>4, <1>5, <2>1, <2>2, <2>3 DEF Since
    <3>2. i \in b..(e - 1)
      BY <3>1
    <3>. QED BY <1>3, <1>5, <2>3, <3>1, <3>2 DEF Since, TicksTo
  <2>. QED BY <2>4
<1>8. Cardinality(W) <= Cardinality(V) /\ Cardinality(W) \in Nat
  BY <1>6, <1>7, FS_Subset, FS_CardinalityType
<1>9. \A x, y, z \in Nat : x <= y => z * x <= z * y
  OBVIOUS
<1>. QED BY <1>2, <1>3, <1>5, <1>6, <1>8, <1>9

\* Undisturbed, and with one container, it contributes exactly these ticks.
LEMMA ToldExactly ==
    ASSUME Undisturbed, Containers = 1,
           NEW t \in Nat, NEW p, NEW g \in Nat \ {0}, NEW b \in 1..t, NEW r,
           NEW L \in SUBSET Int, PodKept(p, g, b, r, L, t), PodTold(p, b, r, L, t),
           NEW from \in Int, from < t
    PROVE  /\ Accountable(p) /\ Cardinality(Since(L, from)) \in Nat
           /\ WindowUsage(PodToAccounting(p), from, t)
                = g * Containers * Cardinality(Since(L, from))
<1>1. /\ p.statuses # <<>> /\ \A c \in 1..Containers : r[c] = 0
      /\ L = b..((IF Terminal(p) THEN p.statuses[1].termEnd ELSE t) - 1)
      /\ b # None /\ 1 \in 1..Containers /\ p \in PodRecords
  BY NoneAssumption DEF PodTold, Prompt, Exact, PodKept
<1>2. PICK pod : pod = PodToAccounting(p)
  OBVIOUS
<1>3. /\ Accountable(p) /\ pod \in AccountingPods /\ pod.start = b /\ pod.end = PodEnd(p)
      /\ pod.gpus = g * Containers /\ pod.gpus \in Nat
  <2>1. Once(r)
    BY <1>1 DEF Once
  <2>2. /\ t \in Nat /\ p.statuses # <<>> /\ g \in Nat \ {0} /\ b \in 1..t
        /\ PodKept(p, g, b, r, L, t)
    BY <1>1
  <2>. QED BY ONLY <1>2, <2>1, <2>2, KeptConverted
<1>4. /\ ~Inverted(pod)
      /\ EffectiveEnd(pod, t) = IF Terminal(p) THEN p.statuses[1].termEnd ELSE t
  <2>1. CASE Terminal(p)
    <3>1. PICK s : s = p.statuses[1]
      OBVIOUS
    <3>2. StatusKept(s, b, t) /\ Remembers(s, 0, b) /\ s.running = None
      <4>1. \A c \in 1..Containers : c = 1
        BY DEF PodKept
      <4>. QED BY <1>1, <2>1, <3>1, <4>1 DEF PodKept
    <3>3. s.termEnd # None /\ s.termEnd \in 1..t
      BY <1>1, <3>2 DEF StatusKept, Remembers, Past
    <3>4. PodEnd(p) \in Int /\ b <= PodEnd(p) /\ s.termEnd <= PodEnd(p)
      BY <1>1, <2>1, <3>1, <3>3, KeptEnded
    <3>5. PodEnd(p) = s.termEnd
      <4>1. IsPod(p)
        BY <1>1, KeptIsPod DEF PodKept
      <4>2. s.termEnd \in ContainerEnds(p)
        BY <1>1, <3>1, <3>3, KeptFields, EndsAre
      <4>3. PodEnd(p) \in ContainerEnds(p)
        BY <2>1, <4>1, <4>2, EndIs
      <4>4. DOMAIN p.statuses = {1}
        BY <1>1, KeptFields
      <4>. QED BY <3>1, <4>3, <4>4, EndsAre
    <3>. QED BY <1>3, <2>1, <3>1, <3>3, <3>4, <3>5, NoneAssumption DEF Inverted, EffectiveEnd
  <2>2. CASE ~Terminal(p)
    <3>1. pod.end = None
      BY <1>3, <2>2 DEF PodEnd
    <3>. QED BY <2>2, <3>1 DEF Inverted, EffectiveEnd
  <2>. QED BY <2>1, <2>2
<1>5. L = TicksTo(pod, t)
  BY <1>1, <1>3, <1>4 DEF TicksTo
<1>6. /\ Cardinality(Since(L, from)) \in Nat
      /\ WindowUsage(pod, from, t) = pod.gpus * Cardinality(Since(L, from))
  BY <1>3, <1>4, <1>5, UsageCounts
<1>. QED BY <1>2, <1>3, <1>6

\* A pod that has not begun contributes nothing at the instant of its acceptance.
LEMMA KeptPending ==
    ASSUME NEW t \in Nat, NEW p, NEW g \in Nat, NEW r, NEW L,
           PodKept(p, g, None, r, L, t), p.statuses # <<>>, p.startTime \in {None, t},
           Accountable(p), NEW from \in Int
    PROVE  WindowUsage(PodToAccounting(p), from, t) = 0
<1>1. /\ p \in PodRecords /\ p.requests = [c \in 1..Containers |-> g]
      /\ \A c \in 1..Containers : StatusKept(p.statuses[c], None, t)
  BY DEF PodKept
<1>2. ContainerStarts(p) = {}
  <2>1. SUFFICES ASSUME NEW i \in ContainerStarts(p) PROVE FALSE
    OBVIOUS
  <2>2. /\ i # None
        /\ \E c \in 1..Containers :
              \/ i = p.statuses[c].running
              \/ i = p.statuses[c].termStart
              \/ i = p.statuses[c].lastStart
    <3>1. DOMAIN p.statuses = 1..Containers
      BY <1>1, KeptFields
    <3>2. i \in ContainerStarts(p)
      BY <2>1
    <3>3. /\ i # None
          /\ \E c \in DOMAIN p.statuses :
                \/ i = p.statuses[c].running
                \/ i = p.statuses[c].termStart
                \/ i = p.statuses[c].lastStart
      BY ONLY <3>2, StartsAre
    <3>. QED BY ONLY <3>1, <3>3
  <2>. QED BY <1>1, <2>2 DEF StatusKept
<1>3. EarliestContainerStart(p) = t
  BY <1>2 DEF EarliestContainerStart, Accountable
<1>4. PICK pod : pod = PodToAccounting(p)
  OBVIOUS
<1>5. pod \in AccountingPods /\ pod.start = t
  BY <1>1, <1>3, <1>4, KeptIsPod, Converted DEF PodToAccounting, AccountingPod
<1>6. LaterOf(pod.start, from) \in Int /\ LaterOf(pod.start, from) >= t
  BY <1>5 DEF LaterOf
<1>7. EffectiveEnd(pod, t) \in Int /\ EffectiveEnd(pod, t) <= t
  BY <1>5 DEF EffectiveEnd, AccountingPods
<1>. QED BY <1>4, <1>6, <1>7 DEF WindowUsage

-----------------------------------------------------------------------------
(***************************************************************************)
(* The report and the ledger, pod by pod.                                  *)
(***************************************************************************)
\* What a pod adds to a report, and what the ledger holds for it.
Bill(n, from) ==
    IF Accountable(pods[n]) THEN WindowUsage(PodToAccounting(pods[n]), from, now) ELSE 0

Due(n, from) == Containers * Gpus[n] * Cardinality(Since(Ticks(n), from))

LEMMA WindowBegins ==
    ASSUME KeptInv, NEW w \in Windows
    PROVE  /\ w \in Nat /\ now \in Nat \ {0} /\ WindowStart(w, now) \in Int /\ WindowStart(w, now) < now
           /\ \A t \in 1..now : (w = 0 \/ t >= now - w) <=> t >= WindowStart(w, now)
<1>1. w \in Nat /\ now \in Nat \ {0}
  BY LifecycleAssumption DEF KeptInv, KeptTypes
<1>. QED BY <1>1 DEF WindowStart, ZeroTime

\* A pod that is seen can be converted, and its bill is a number.
LEMMA SeenBill ==
    ASSUME KeptInv, NEW n \in Seen, NEW from \in Int
    PROVE  Bill(n, from) \in Nat
<1>1. IsPod(pods[n]) /\ now \in Int
  <2>1. n \in PodNames /\ pods[n] # None
    BY DEF Seen
  <2>2. PICK p, g, b, r, L, t : /\ p = pods[n] /\ g = Gpus[n] /\ b = begun[n]
                                /\ r = restarts[n] /\ L = Ticks(n) /\ t = now
    OBVIOUS
  <2>3. PodKept(p, g, b, r, L, t) /\ g \in Nat /\ t \in Int
    BY <2>1, <2>2, PodSeen
  <2>4. p \in PodRecords /\ p.requests = [c \in 1..Containers |-> g]
    BY <2>3 DEF PodKept
  <2>. QED BY <2>2, <2>3, <2>4, KeptIsPod
<1>2. CASE Accountable(pods[n])
  <2>1. PodToAccounting(pods[n]) \in AccountingPods
    BY <1>1, <1>2, Converted
  <2>2. WindowUsage(PodToAccounting(pods[n]), from, now) \in Nat
    BY <1>1, <2>1, UsageNonNegative
  <2>. QED BY <1>2, <2>2 DEF Bill
<1>. QED BY <1>2 DEF Bill

\* The report is the sum of the bills.
LEMMA ReportedIs ==
    ASSUME KeptInv, NEW w \in Windows
    PROVE  Reported(w) = Total([n \in Seen |-> Bill(n, WindowStart(w, now))], Seen)
<1>. DEFINE counted == {n \in Seen : Accountable(pods[n])}
            ps == [n \in counted |-> PodToAccounting(pods[n])]
            from == WindowStart(w, now)
            usages == [n \in DOMAIN ps |-> WindowUsage(ps[n], from, now)]
            bills == [n \in Seen |-> Bill(n, from)]
<1>1. IsFiniteSet(Seen) /\ IsFiniteSet(counted) /\ counted \in SUBSET Seen
  BY FS_Subset DEF KeptInv, KeptTypes
<1>2. Reported(w) = Compute(w, 1, now, ps).consumed
  BY DEF Reported
<1>3. DOMAIN ps = counted
  OBVIOUS
<1>4. \A n \in counted : usages[n] = bills[n]
  BY DEF Bill
<1>5. (\A n \in Seen : bills[n] \in Int) /\ \A n \in Seen \ counted : bills[n] = 0
  <2>1. from \in Int
    BY WindowBegins
  <2>2. \A n \in Seen : Bill(n, from) \in Int
    BY <2>1, SeenBill
  <2>. QED BY <2>2 DEF Bill
<1>6. IsFiniteSet(DOMAIN ps)
  BY <1>1, <1>3
<1>. HIDE DEF ps
<1>7. Compute(w, 1, now, ps).consumed = Total(usages, DOMAIN ps)
  BY <1>6, ComputeIs
<1>. HIDE DEF usages, bills, counted
<1>8. Total(usages, counted) = Total(bills, counted)
  BY <1>1, <1>4, TotalAgree
<1>9. Total(bills, Seen) = Total(bills, counted)
  BY <1>1, <1>5, TotalSupport
<1>. QED BY <1>2, <1>3, <1>7, <1>8, <1>9 DEF bills

\* What the ledger holds of some pods in a window is the sum of what it holds of each.
LEMMA HeldIs ==
    ASSUME KeptInv, NEW w \in Windows, NEW names \in SUBSET PodNames, IsFiniteSet(names)
    PROVE  HeldBy(names, w) = Total([n \in names |-> Due(n, WindowStart(w, now))], names)
<1>. DEFINE held == {e \in ledger : e[1] \in names /\ (w = 0 \/ e[2] >= now - w)}
            from == WindowStart(w, now)
            weight(n) == Containers * Gpus[n]
            f == [e \in held |-> weight(e[1])]
            c == [n \in names |-> weight(n)]
            h == [n \in names |-> Due(n, from)]
            Eq(g) == g = [s \in SUBSET held |->
                            IF s = {} THEN 0
                            ELSE weight(Pick(s)[1]) + g[s \ {Pick(s)}]]
<1>1. /\ IsFiniteSet(held) /\ held \in SUBSET ledger /\ IsFiniteSet(names)
      /\ ledger \subseteq PodNames \X (1..now)
  BY FS_Subset DEF KeptInv, KeptTypes
<1>2. HeldBy(names, w) = (CHOOSE g : Eq(g))[held]
  BY DEF HeldBy, MapThenSumSet, MapThenFoldSet, Pick
<1>3. \A s \in SUBSET held : s # {} => weight(Pick(s)[1]) = f[Pick(s)]
  BY PickIn
<1>4. ASSUME NEW g PROVE Eq(g) <=> SumEq(g, f, held)
  BY <1>3 DEF SumEq
<1>. HIDE DEF held
<1>5. PICK g : SumEq(g, f, held)
  BY <1>1, SumExists
<1>. HIDE DEF Eq, f
<1>6. Eq(CHOOSE j : Eq(j))
  BY <1>4, <1>5
<1>7. PICK k : SumEq(k, f, held) /\ Total(f, held) = k[held]
  BY <1>1, TotalIs
<1>8. (CHOOSE j : Eq(j))[held] = k[held]
  BY <1>1, <1>4, <1>6, <1>7, SumUnique
<1>9. held \in SUBSET (names \X Int)
  BY <1>1 DEF held
<1>10. \A n \in names : c[n] \in Int
  BY LifecycleAssumption
<1>11. \A e \in held : f[e] = c[e[1]]
  BY <1>9 DEF f
<1>12. \A n \in names : h[n] = c[n] * Cardinality(Column(n, held))
  <2>1. ASSUME NEW n \in names PROVE Column(n, held) = Since(Ticks(n), from)
    <3>1. \A t \in 1..now : (w = 0 \/ t >= now - w) <=> t >= from
      BY WindowBegins
    <3>. HIDE DEF from
    <3>2. ASSUME NEW t PROVE t \in Column(n, held) <=> t \in Since(Ticks(n), from)
      <4>1. <<n, t>> \in ledger => t \in 1..now
        BY <1>1
      <4>. QED BY <3>1, <4>1 DEF Column, held, Since, Ticks
    <3>. QED BY <3>2
  <2>. QED BY <2>1 DEF Due
<1>. HIDE DEF c, h
<1>13. Total(f, held) = Total(h, names)
  <2>1. PICK S, L, x, y, z : S = names /\ L = held /\ x = f /\ y = c /\ z = h
    OBVIOUS
  <2>2. /\ IsFiniteSet(S) /\ IsFiniteSet(L) /\ L \in SUBSET (S \X Int)
        /\ \A n \in S : y[n] \in Int
        /\ \A e \in L : x[e] = y[e[1]]
        /\ \A n \in S : z[n] = y[n] * Cardinality(Column(n, L))
    BY <1>1, <1>9, <1>10, <1>11, <1>12, <2>1
  <2>3. Total(x, L) = Total(z, S)
    BY ONLY <2>2, TotalByColumn
  <2>. QED BY <2>1, <2>3
<1>. QED BY <1>2, <1>7, <1>8, <1>13 DEF h

\* The ledger is of pods that are shown and of pods that are gone.
LEMMA LedgerSplits ==
    ASSUME KeptInv, NEW w \in Windows
    PROVE  /\ Held(w) = HeldBy(Seen, w) + Lost(w)
           /\ HeldBy(Seen, w) \in Int /\ Lost(w) \in Int
<1>. DEFINE all == Seen \cup collected
            x == [n \in all |-> Due(n, WindowStart(w, now))]
<1>1. /\ IsFiniteSet(Seen) /\ IsFiniteSet(collected) /\ IsFiniteSet(all)
      /\ all \in SUBSET PodNames /\ Seen \in SUBSET PodNames /\ collected \in SUBSET PodNames
      /\ Seen \cap collected = {}
  BY FS_Union DEF KeptInv, KeptTypes, Seen
<1>2. \A n \in all : x[n] \in Int
  <2>1. ASSUME NEW n \in all PROVE Due(n, WindowStart(w, now)) \in Int
    <3>1. IsFiniteSet(Since(Ticks(n), WindowStart(w, now)))
      <4>1. now \in Nat
        BY DEF KeptInv, KeptTypes
      <4>2. Since(Ticks(n), WindowStart(w, now)) \subseteq 1..now
        BY DEF Since, Ticks
      <4>. QED BY <4>1, <4>2, FS_Interval, FS_Subset
    <3>2. Cardinality(Since(Ticks(n), WindowStart(w, now))) \in Nat
      BY <3>1, FS_CardinalityType
    <3>3. Containers \in Nat /\ Gpus[n] \in Nat
      BY <1>1, LifecycleAssumption
    <3>. QED BY <3>2, <3>3 DEF Due
  <2>. QED BY <2>1
<1>3. Held(w) = HeldBy(all, w)
  <2>1. ASSUME NEW n, NEW t, <<n, t>> \in ledger PROVE n \in all
    <3>1. n \in PodNames /\ t \in 1..now
      BY <2>1 DEF KeptInv, KeptTypes
    <3>2. t \in Ticks(n)
      BY <2>1, <3>1 DEF Ticks
    <3>. QED BY <3>1, <3>2 DEF KeptInv, Seen
  <2>2. ledger \subseteq PodNames \X (1..now)
    BY DEF KeptInv, KeptTypes
  <2>3. \A e \in ledger : e[1] \in all /\ e[1] \in PodNames
    BY <2>1, <2>2
  <2>4. {e \in ledger : e[1] \in PodNames /\ (w = 0 \/ e[2] >= now - w)}
          = {e \in ledger : e[1] \in all /\ (w = 0 \/ e[2] >= now - w)}
    BY <2>3
  <2>. QED BY <2>4 DEF Held, HeldBy
<1>4. /\ HeldBy(all, w) = Total(x, all)
      /\ HeldBy(Seen, w) = Total([n \in Seen |-> Due(n, WindowStart(w, now))], Seen)
      /\ Lost(w) = Total([n \in collected |-> Due(n, WindowStart(w, now))], collected)
  BY <1>1, HeldIs DEF Lost
<1>5. /\ \A n \in Seen : x[n] = [m \in Seen |-> Due(m, WindowStart(w, now))][n]
      /\ \A n \in collected : x[n] = [m \in collected |-> Due(m, WindowStart(w, now))][n]
  OBVIOUS
<1>6. PICK S, C, f, y, z : /\ S = Seen /\ C = collected /\ f = x
                           /\ y = [n \in Seen |-> Due(n, WindowStart(w, now))]
                           /\ z = [n \in collected |-> Due(n, WindowStart(w, now))]
  OBVIOUS
<1>7. /\ IsFiniteSet(S) /\ IsFiniteSet(C) /\ S \cap C = {}
      /\ \A n \in S \cup C : f[n] \in Int
      /\ \A n \in S : f[n] = y[n]
      /\ \A n \in C : f[n] = z[n]
  BY <1>1, <1>2, <1>5, <1>6
<1>8. Total(f, S \cup C) = Total(f, S) + Total(f, C)
  BY ONLY <1>7, TotalUnion
<1>9. Total(f, S) = Total(y, S) /\ Total(f, C) = Total(z, C)
  BY ONLY <1>7, TotalAgree
<1>10. Total(f, S) \in Int /\ Total(f, C) \in Int
  BY ONLY <1>7, TotalInt
<1>11. Held(w) = Total(f, S \cup C) /\ HeldBy(Seen, w) = Total(y, S) /\ Lost(w) = Total(z, C)
  BY <1>3, <1>4, <1>6
<1>. QED BY <1>8, <1>9, <1>10, <1>11

\* As long as no pod has failed, and each container has been restarted once at
\* most, no pod is billed less than it held.
LEMMA BilledAll ==
    ASSUME KeptInv, NEW n \in Seen, pods[n].phase # "Failed", StartsRemembered(n),
           NEW from \in Int, from < now
    PROVE  Due(n, from) \in Nat /\ Due(n, from) <= Bill(n, from)
<1>1. n \in PodNames /\ pods[n] # None
  BY DEF Seen
<1>2. PICK p, g, b, r, L, t : /\ p = pods[n] /\ g = Gpus[n] /\ b = begun[n]
                              /\ r = restarts[n] /\ L = Ticks(n) /\ t = now
  OBVIOUS
<1>3. /\ t \in Nat /\ b \in Past(t) /\ r \in [1..Containers -> Nat] /\ L \in SUBSET Int
      /\ g \in Nat \ {0} /\ PodKept(p, g, b, r, L, t)
  BY <1>1, <1>2, PodSeen
<1>4. PICK W : W = Since(L, from)
  OBVIOUS
<1>5. Due(n, from) = Containers * g * Cardinality(W)
  BY <1>2, <1>4 DEF Due
<1>6. Containers \in Nat
  BY LifecycleAssumption
<1>7. Bill(n, from) \in Nat
  BY SeenBill
<1>8. CASE b = None
  <2>1. L = {}
    BY <1>3, <1>8 DEF PodKept
  <2>2. W = {}
    BY <1>4, <2>1 DEF Since
  <2>3. Cardinality(W) = 0
    BY <2>2, FS_EmptySet
  <2>4. Due(n, from) = 0
    BY <1>3, <1>5, <1>6, <2>3
  <2>. QED BY <1>7, <2>4
<1>9. CASE b # None
  <2>1. b \in 1..t
    BY <1>3, <1>9 DEF Past
  <2>2. Once(r)
    BY <1>2, <1>3 DEF StartsRemembered, Once
  <2>3. p.phase # "Failed" /\ from < t
    BY <1>2
  <2>4. /\ Accountable(p) /\ Cardinality(W) \in Nat
        /\ g * Containers * Cardinality(W) <= WindowUsage(PodToAccounting(p), from, t)
    BY ONLY <1>3, <1>4, <2>1, <2>2, <2>3, from \in Int, KeptBilled
  <2>5. Bill(n, from) = WindowUsage(PodToAccounting(p), from, t)
    BY <1>2, <2>4 DEF Bill
  <2>6. \A x, y, z \in Nat : x * y * z = y * x * z /\ x * y * z \in Nat
    OBVIOUS
  <2>. QED BY <1>3, <1>5, <1>6, <2>4, <2>5, <2>6
<1>. QED BY <1>8, <1>9

\* While pods run and when they succeed, no window of any length is billed less
\* than what was held in it, though containers come and go and restart once, except
\* for what the pods held that the API server has dropped (podToAccounting and
\* Compute, against the ledger).
THEOREM NothingLost == Spec => []NeverUnderReports
<1>1. ASSUME KeptInv PROVE NeverUnderReports
  <2>. SUFFICES ASSUME \A n \in Seen : pods[n].phase # "Failed" /\ StartsRemembered(n),
                       NEW w \in Windows
                PROVE  Reported(w) + Lost(w) >= Held(w)
    BY DEF NeverUnderReports
  <2>1. PICK from, S, x, y : /\ from = WindowStart(w, now) /\ S = Seen
                             /\ x = [n \in Seen |-> Due(n, WindowStart(w, now))]
                             /\ y = [n \in Seen |-> Bill(n, WindowStart(w, now))]
    OBVIOUS
  <2>2. HeldBy(Seen, w) = Total(x, S) /\ Reported(w) = Total(y, S)
    <3>1. Seen \in SUBSET PodNames /\ IsFiniteSet(Seen)
      BY <1>1 DEF KeptInv, KeptTypes, Seen
    <3>. QED BY <1>1, <2>1, <3>1, HeldIs, ReportedIs
  <2>3. from \in Int /\ from < now
    BY <1>1, <2>1, WindowBegins
  <2>4. IsFiniteSet(S)
    BY <1>1, <2>1 DEF KeptInv, KeptTypes
  <2>5. ASSUME NEW n \in S PROVE x[n] \in Int /\ y[n] \in Int /\ x[n] <= y[n]
    <3>1. n \in Seen /\ pods[n].phase # "Failed" /\ StartsRemembered(n)
      BY <2>1
    <3>2. Due(n, from) \in Nat /\ Due(n, from) <= Bill(n, from)
      BY <1>1, <2>3, <3>1, BilledAll
    <3>3. Bill(n, from) \in Nat
      BY <1>1, <2>3, <3>1, SeenBill
    <3>4. x[n] = Due(n, from) /\ y[n] = Bill(n, from)
      BY <2>1, <3>1
    <3>. QED BY <3>2, <3>3, <3>4
  <2>6. Total(x, S) <= Total(y, S) /\ Total(x, S) \in Int /\ Total(y, S) \in Int
    BY <2>4, <2>5, TotalOrdered, TotalInt
  <2>7. Held(w) = HeldBy(Seen, w) + Lost(w) /\ Lost(w) \in Int
    BY <1>1, LedgerSplits
  <2>. QED BY <2>2, <2>6, <2>7
<1>. QED BY <1>1, Kept, PTL

\* A pod that nothing disturbs is billed what it held.
LEMMA BilledExactly ==
    ASSUME KeptInv, Undisturbed, Containers = 1, NEW n \in Seen,
           NEW from \in Int, from < now
    PROVE  Due(n, from) = Bill(n, from)
<1>1. n \in PodNames /\ pods[n] # None
  BY DEF Seen
<1>2. PICK p, g, b, r, L, t : /\ p = pods[n] /\ g = Gpus[n] /\ b = begun[n]
                              /\ r = restarts[n] /\ L = Ticks(n) /\ t = now
  OBVIOUS
<1>3. /\ t \in Nat /\ b \in Past(t) /\ r \in [1..Containers -> Nat] /\ L \in SUBSET Int
      /\ g \in Nat \ {0} /\ PodKept(p, g, b, r, L, t) /\ PodTold(p, b, r, L, t)
  BY <1>1, <1>2, PodSeen
<1>4. PICK W : W = Since(L, from)
  OBVIOUS
<1>5. Due(n, from) = Containers * g * Cardinality(W)
  BY <1>2, <1>4 DEF Due
<1>6. CASE b = None
  <2>1. L = {}
    BY <1>3, <1>6 DEF PodKept
  <2>2. W = {}
    BY <1>4, <2>1 DEF Since
  <2>3. Due(n, from) = 0
    BY <1>3, <1>5, <2>2, FS_EmptySet
  <2>4. p.statuses # <<>> /\ p.startTime \in {None, t}
    BY <1>3, <1>6 DEF PodTold, Prompt
  <2>5. PodKept(p, g, None, r, L, t) /\ g \in Nat
    BY <1>3, <1>6
  <2>6. Accountable(p) => WindowUsage(PodToAccounting(p), from, t) = 0
    BY ONLY <1>3, <2>4, <2>5, from \in Int, KeptPending
  <2>. QED BY <1>2, <2>3, <2>6 DEF Bill
<1>7. CASE b # None
  <2>1. b \in 1..t /\ from < t
    BY <1>2, <1>3, <1>7 DEF Past
  <2>2. /\ Accountable(p) /\ Cardinality(W) \in Nat
        /\ WindowUsage(PodToAccounting(p), from, t) = g * Containers * Cardinality(W)
    BY <1>3, <1>4, <2>1, ToldExactly
  <2>3. Bill(n, from) = WindowUsage(PodToAccounting(p), from, t)
    BY <1>2, <2>2 DEF Bill
  <2>4. Containers * g = g * Containers
    BY <1>3
  <2>. QED BY <1>5, <2>2, <2>3, <2>4
<1>. QED BY <1>6, <1>7

\* The usage that is derived from the statuses is the usage that a running ledger
\* would have stored, less that of the pods the API server has dropped, for every
\* window, instant and number of pods, when each pod has one container, which
\* starts with it and is not restarted (podToAccounting and Compute).
THEOREM LedgerReported ==
    ASSUME Undisturbed, Containers = 1
    PROVE  Spec => []ReportsTheLedger
<1>1. ASSUME KeptInv PROVE ReportsTheLedger
  <2>. SUFFICES ASSUME NEW w \in Windows PROVE Reported(w) + Lost(w) = Held(w)
    BY DEF ReportsTheLedger
  <2>1. PICK from, S, x, y : /\ from = WindowStart(w, now) /\ S = Seen
                             /\ x = [n \in Seen |-> Due(n, WindowStart(w, now))]
                             /\ y = [n \in Seen |-> Bill(n, WindowStart(w, now))]
    OBVIOUS
  <2>2. HeldBy(Seen, w) = Total(x, S) /\ Reported(w) = Total(y, S)
    <3>1. Seen \in SUBSET PodNames /\ IsFiniteSet(Seen)
      BY <1>1 DEF KeptInv, KeptTypes, Seen
    <3>. QED BY <1>1, <2>1, <3>1, HeldIs, ReportedIs
  <2>3. from \in Int /\ from < now
    BY <1>1, <2>1, WindowBegins
  <2>4. IsFiniteSet(S)
    BY <1>1, <2>1 DEF KeptInv, KeptTypes
  <2>5. \A n \in Seen : Due(n, from) = Bill(n, from)
    BY <1>1, <2>3, BilledExactly
  <2>6. \A n \in S : x[n] = y[n]
    BY <2>1, <2>5
  <2>7. Reported(w) = HeldBy(Seen, w)
    BY <2>2, <2>4, <2>6, TotalAgree
  <2>8. Held(w) = HeldBy(Seen, w) + Lost(w) /\ HeldBy(Seen, w) \in Int /\ Lost(w) \in Int
    BY <1>1, LedgerSplits
  <2>. QED BY <2>7, <2>8
<1>. QED BY <1>1, Kept, PTL

\* The times of a status lie in the past, and no interval that is handed to the
\* engine ends before it starts, when no start is slow, no status dropped and no
\* container restarted (podEnd, earliestContainerStart).
THEOREM PodTypes ==
    ASSUME Undisturbed
    PROVE  Spec => []TypeOK
<1>1. ASSUME KeptInv PROVE TypeOK
  <2>1. ledger \subseteq PodNames \X (1..now) /\ collected \in SUBSET (PodNames \ Seen)
    BY <1>1 DEF KeptInv, KeptTypes
  <2>2. ASSUME NEW n \in PodNames, NEW c \in 1..Containers PROVE restarts[n][c] = 0
    <3>1. CASE pods[n] = None
      BY <1>1, <2>2, <3>1 DEF KeptInv
    <3>2. CASE pods[n] # None
      BY <1>1, <2>2, <3>2, PodSeen DEF PodTold, Prompt
    <3>. QED BY <3>1, <3>2
  <2>3. restarts \in [PodNames -> [1..Containers -> 0..MaxRestarts]]
    <3>1. restarts \in [PodNames -> [1..Containers -> Nat]] /\ 0 \in 0..MaxRestarts
      BY <1>1 DEF KeptInv, KeptTypes, Undisturbed
    <3>2. \A n \in PodNames : restarts[n] \in [1..Containers -> 0..MaxRestarts]
      BY <2>2, <3>1
    <3>. QED BY <3>1, <3>2
  <2>4. ASSUME NEW n \in Seen
        PROVE  /\ pods[n].startTime \in (1..now) \cup {None}
               /\ Accountable(pods[n]) => ~Inverted(PodToAccounting(pods[n]))
    <3>1. n \in PodNames /\ pods[n] # None
      BY DEF Seen
    <3>2. PICK p, g, b, r, L, t : /\ p = pods[n] /\ g = Gpus[n] /\ b = begun[n]
                                  /\ r = restarts[n] /\ L = Ticks(n) /\ t = now
      OBVIOUS
    <3>3. /\ t \in Nat /\ b \in Past(t) /\ r \in [1..Containers -> Nat] /\ L \in SUBSET Int
          /\ g \in Nat \ {0} /\ PodKept(p, g, b, r, L, t) /\ PodTold(p, b, r, L, t)
      BY <1>1, <3>1, <3>2, PodSeen
    <3>4. p.startTime \in Past(t)
      BY <3>3 DEF PodKept
    <3>5. Prompt(p, b, r, t)
      BY <3>3 DEF PodTold
    <3>6. PICK pod : pod = PodToAccounting(p)
      OBVIOUS
    <3>7. ASSUME ~Terminal(p) PROVE ~Inverted(pod)
      BY <3>6, <3>7 DEF PodToAccounting, AccountingPod, PodEnd, Inverted
    <3>8. ASSUME Terminal(p) PROVE ~Inverted(pod)
      <4>1. b \in 1..t
        BY <3>3, <3>5, <3>8 DEF Prompt, Terminal, Past
      <4>2. Once(r) /\ \A c \in 1..Containers : r[c] = 0
        BY <3>5 DEF Prompt, Once
      <4>3. p.statuses # <<>>
        BY <3>5 DEF Prompt
      <4>4. pod.start = b /\ pod.end = PodEnd(p)
        BY ONLY <3>3, <3>6, <4>1, <4>2, <4>3, KeptConverted
      <4>5. PICK c \in 1..Containers : p.statuses[c].termEnd # None
        <5>1. b # None
          BY <4>1, NoneAssumption
        <5>2. PICK c \in 1..Containers : Remembers(p.statuses[c], r[c], b)
          BY <3>3, <4>3, <5>1 DEF PodKept
        <5>3. /\ StatusKept(p.statuses[c], b, t) /\ p.statuses[c].running = None
              /\ r[c] = 0
          BY <3>3, <3>8, <4>2, <4>3 DEF PodKept
        <5>. QED BY <5>1, <5>2, <5>3 DEF Remembers, StatusKept
      <4>6. PodEnd(p) \in Int /\ b <= PodEnd(p)
        <5>1. g \in Nat
          BY <3>3
        <5>. QED BY <3>3, <3>8, <4>1, <4>3, <4>5, <5>1, KeptEnded
      <4>. QED BY <3>6, <4>1, <4>4, <4>6 DEF Inverted
    <3>9. ~Inverted(PodToAccounting(p))
      BY <3>6, <3>7, <3>8
    <3>. QED BY <3>2, <3>4, <3>9 DEF Past
  <2>. QED BY <2>1, <2>3, <2>4 DEF TypeOK
<1>. QED BY <1>1, Kept, PTL
=============================================================================
