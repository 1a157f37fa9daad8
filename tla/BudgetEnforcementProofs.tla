---------------------- MODULE BudgetEnforcementProofs -----------------------
(***************************************************************************)
(* Enforcement: its record is never taken back, not even by patches made   *)
(* from stale copies (StampInv of BudgetInvariants is inductive, and every *)
(* write of the record replaces an earlier one); whom it acts on is among  *)
(* those who made the budget go over (PodsInv, AdmittedInv); and a pause   *)
(* keeps its author (PauseInv).                                            *)
(***************************************************************************)
EXTENDS BudgetFreshProofs

Acting == {"write", "enforce", "stamp"}

\* A step that records no enforcement.
Unstamped ==
    \A b \in Budgets : budgets'[b] # NoBudget =>
        \/ /\ budgets[b] # NoBudget
           /\ budgets'[b].status.lastEnforcementAt = budgets[b].status.lastEnforcementAt
        \/ budgets[b] = NoBudget /\ budgets'[b].status.lastEnforcementAt = None

\* A step that takes no record back.
NoRegress ==
    \A b \in Budgets :
        LET old == budgets[b] new == budgets'[b]
        IN  /\ old # NoBudget /\ new # NoBudget /\ old.uid = new.uid
            /\ old.status.lastEnforcementAt # None
            => /\ new.status.lastEnforcementAt # None
               /\ new.status.lastEnforcementAt >= old.status.lastEnforcementAt

-----------------------------------------------------------------------------
\* What is stamped by an instant is stamped by the next.
LEMMA StampedLater ==
    ASSUME NEW s, IsStatus(s), NEW t \in Int, NEW u \in Int, t <= u, StampedBy(s, t)
    PROVE  StampedBy(s, u)
<1>1. Trunc(t) <= Trunc(u) /\ Trunc(t) \in Int /\ Trunc(u) \in Int
      BY TruncMonotone, TruncIsInt
<1> QED BY <1>1 DEF StampedBy, IsStatus

\* A patch of other fields keeps the stamp.
LEMMA PatchKeepsStamp ==
    ASSUME NEW s, IsStatus(s), NEW base, NEW n, n.lastEnforcementAt = base.lastEnforcementAt
    PROVE  MergePatch(s, base, n).lastEnforcementAt = s.lastEnforcementAt
BY DEF MergePatch, IsStatus, Over, StatusFields

\* A step that leaves the stamps alone takes none back.
LEMMA UnstampedHarmless ==
    ASSUME TypeOK, Unstamped
    PROVE  NoRegress
<1> SUFFICES ASSUME NEW b \in Budgets, NEW old, NEW new, old = budgets[b], new = budgets'[b],
                    old # NoBudget, new # NoBudget, old.status.lastEnforcementAt # None
             PROVE  /\ new.status.lastEnforcementAt # None
                    /\ new.status.lastEnforcementAt >= old.status.lastEnforcementAt
    BY DEF NoRegress
<1>1. old.status.lastEnforcementAt \in Int
      BY DEF TypeOK, AreBudgets, IsBudget, IsStatus
<1>2. new.status.lastEnforcementAt = old.status.lastEnforcementAt
      BY DEF Unstamped
<1> QED BY <1>1, <1>2

\* An untouched server.
LEMMA UnstampedServer ==
    ASSUME UNCHANGED budgets
    PROVE  Unstamped
BY DEF Unstamped

\* One budget replaced by one with the same stamp.
LEMMA UnstampedSet ==
    ASSUME TypeOK, NEW b \in Budgets, NEW n, budgets' = [budgets EXCEPT ![b] = n],
           budgets[b] # NoBudget,
           n = NoBudget \/ n.status.lastEnforcementAt = budgets[b].status.lastEnforcementAt
    PROVE  Unstamped
BY DEF Unstamped, TypeOK, AreBudgets, Over

\* A patch of the status made from a copy with the same stamp.
LEMMA UnstampedPatch ==
    ASSUME TypeOK, Key \in Budgets, budgets[Key] # NoBudget, NEW s, IsStatus(s),
           s.lastEnforcementAt = worker.obj.status.lastEnforcementAt,
           budgets' = [budgets EXCEPT ![Key] =
              [budgets[Key] EXCEPT !.status = MergePatch(@, worker.obj.status, s)]]
    PROVE  Unstamped
<1>1. PICK k, o, n, p :
         /\ k = Key /\ o = budgets[k]
         /\ p = MergePatch(o.status, worker.obj.status, s)
         /\ n = [o EXCEPT !.status = p]
      OBVIOUS
<1>2. IsBudget(o)
      BY <1>1 DEF TypeOK, AreBudgets
<1>3. IsStatus(p) /\ p.lastEnforcementAt = o.status.lastEnforcementAt
      BY <1>1, <1>2, MergePatchOK, PatchKeepsStamp DEF IsBudget
<1>4. n.status = p
      BY <1>1, <1>2, <1>3, StatusSet
<1>5. budgets' = [budgets EXCEPT ![k] = n]
      BY <1>1
<1>6. k \in Budgets /\ budgets[k] # NoBudget
      BY <1>1
<1>7. n.status.lastEnforcementAt = budgets[k].status.lastEnforcementAt
      BY <1>1, <1>3, <1>4
<1> HIDE <1>1, <1>3, <1>4
<1> QED BY ONLY TypeOK, <1>5, <1>6, <1>7, UnstampedSet

\* What users do records no enforcement, and a new budget has none.
LEMMA UnstampedUsers ==
    ASSUME TypeOK, Users
    PROVE  Unstamped
BY QuietUsers DEF Quiet, Unwritten, Unstamped, EmptyStatus

-----------------------------------------------------------------------------
\* The invariant holds initially.
LEMMA StampInit == Init => StampInv
BY DEF Init, NoBudgets, Idle, StampInv

\* Records of the past stay records of the past.
LEMMA StampsKept ==
    ASSUME TypeOK, TypeOK', StampInv, Unstamped, now' \in {now, now + 1},
           NEW b \in Budgets, budgets'[b] # NoBudget
    PROVE  StampedBy(budgets'[b].status, now')
<1>1. CASE budgets[b] = NoBudget
      BY <1>1 DEF Unstamped, StampedBy
<1>2. CASE budgets[b] # NoBudget
      <2>1. PICK s : s = budgets[b].status
            OBVIOUS
      <2>2. IsStatus(s) /\ StampedBy(s, now) /\ now \in Int /\ now' \in Int /\ now <= now'
            BY <1>2, <2>1 DEF TypeOK, AreBudgets, IsBudget, StampInv
      <2>3. StampedBy(s, now')
            BY <2>2, StampedLater
      <2> QED BY <1>2, <2>1, <2>3 DEF Unstamped, StampedBy
<1> QED BY <1>1, <1>2

\* A step after which no reconcile is about to record anything.
LEMMA StampEnds ==
    ASSUME TypeOK, TypeOK', StampInv, Unstamped, now' \in {now, now + 1}, worker'.pc \notin Acting
    PROVE  StampInv'
<1>1. \A b \in Budgets : budgets'[b] # NoBudget => StampedBy(budgets'[b].status, now')
      BY StampsKept
<1> QED BY <1>1 DEF StampInv, StampedBy, Acting

\* A reconcile goes on, or a step is taken beside it.
LEMMA StampGoesOn ==
    ASSUME TypeOK, TypeOK', HeldInv, StampInv, Unstamped, now' \in {now, now + 1},
           worker.pc \in Acting, worker'.pc \in Acting,
           worker'.key = worker.key, worker'.at = worker.at, HeldInv'
    PROVE  StampInv'
<1>1. PICK k, t : k = worker.key /\ k = worker'.key /\ t = worker.at /\ t = worker'.at
      OBVIOUS
<1>2. k \in Budgets /\ budgets[k] # NoBudget /\ budgets'[k] # NoBudget
      BY <1>1 DEF TypeOK, IsWorker, Acting, HeldInv, WorkerInv, Held, Reconciling, Key
<1>3. StampedBy(budgets[k].status, t)
      BY <1>1 DEF StampInv, Acting, Key
<1>4. StampedBy(budgets'[k].status, t)
      BY <1>2, <1>3 DEF Unstamped, StampedBy
<1>5. \A b \in Budgets : budgets'[b] # NoBudget => StampedBy(budgets'[b].status, now')
      BY StampsKept
<1> QED BY <1>1, <1>4, <1>5 DEF StampInv, StampedBy, Key

\* A step beside the worker.
LEMMA StampAround ==
    ASSUME TypeOK, TypeOK', HeldInv, HeldInv', StampInv, Unstamped, now' \in {now, now + 1},
           UNCHANGED worker
    PROVE  StampInv'
BY StampEnds, StampGoesOn

-----------------------------------------------------------------------------
\* Adopt and Remove write back the status they read.
LEMMA UnstampedFinalizer ==
    ASSUME TypeOK, NEW fate, Adopt(fate) \/ Remove(fate)
    PROVE  Unstamped
<1>1. /\ Key \in Budgets /\ IsBudget(worker.obj) /\ budgets[Key] = worker.obj
      /\ budgets[Key] # NoBudget
      BY BudgetExists DEF Adopt, Remove, Current, TypeOK, IsWorker, Key
<1>2. PICK adopted, left :
         /\ adopted = [worker.obj EXCEPT !.finalizer = TRUE]
         /\ left = WithoutFinalizer(worker.obj)
      OBVIOUS
<1>3. /\ adopted.status = worker.obj.status
      /\ left = NoBudget \/ left.status = worker.obj.status
      BY <1>1, <1>2, FinalizerSet DEF WithoutFinalizer
<1>4. \/ UNCHANGED budgets
      \/ budgets' = [budgets EXCEPT ![Key] = adopted]
      \/ budgets' = [budgets EXCEPT ![Key] = left]
      BY <1>2 DEF Adopt, Remove
<1> QED BY <1>1, <1>3, <1>4, UnstampedSet, UnstampedServer

\* The status of a reconcile, failed or not, keeps the stamp it was made from.
LEMMA UnstampedStatus ==
    ASSUME TypeOK, HeldInv, NEW fate, Degrade(fate) \/ WriteStatus(fate)
    PROVE  Unstamped
<1>1. /\ Key \in Budgets /\ IsBudget(worker.obj) /\ budgets[Key] # NoBudget
      BY DEF Degrade, WriteStatus, TypeOK, IsWorker, Key, HeldInv, WorkerInv, Held, Reconciling
<1>2. PICK w, d, s :
         /\ w = worker.obj /\ d = DegradedStatus(w)
         /\ s = ReconciledStatus(w, worker.result, worker.at)
      OBVIOUS
<1>3. IsStatus(d) /\ d.lastEnforcementAt = w.status.lastEnforcementAt
      <2>1. IsStatus(d)
            BY <1>1, <1>2, DegradedOK
      <2>2. d.lastEnforcementAt = w.status.lastEnforcementAt
            BY <1>1, <1>2 DEF DegradedStatus, IsBudget, IsStatus, Over, StatusFields
      <2> QED BY <2>1, <2>2
<1>4. CASE Degrade(fate)
      <2>1. \/ UNCHANGED budgets
            \/ budgets' = [budgets EXCEPT ![Key] =
                  [budgets[Key] EXCEPT !.status = MergePatch(@, worker.obj.status, d)]]
            BY <1>2, <1>4 DEF Degrade
      <2> QED BY <1>1, <1>2, <1>3, <2>1, UnstampedPatch, UnstampedServer
<1>5. CASE WriteStatus(fate)
      <2>1. worker.result.over \in BOOLEAN /\ worker.at \in Int
            BY <1>5 DEF WriteStatus, TypeOK, IsWorker
      <2>2. IsStatus(s) /\ s.lastEnforcementAt = w.status.lastEnforcementAt
            <3>1. IsStatus(s)
                  BY <1>1, <1>2, <2>1, ReconciledOK
            <3>2. s.lastEnforcementAt = w.status.lastEnforcementAt
                  BY <1>1, <1>2 DEF ReconciledStatus, IsBudget, IsStatus, Over, StatusFields
            <3> QED BY <3>1, <3>2
      <2>3. \/ UNCHANGED budgets
            \/ budgets' = [budgets EXCEPT ![Key] =
                  [budgets[Key] EXCEPT !.status = MergePatch(@, worker.obj.status, s)]]
            BY <1>1, <1>2, <1>5 DEF WriteStatus
      <2> QED BY <1>1, <1>2, <2>2, <2>3, UnstampedPatch, UnstampedServer
<1> QED BY <1>4, <1>5

\* List reads the clock that its reconcile may record.
LEMMA StampList ==
    ASSUME TypeOK, TypeOK', HeldInv, StampInv, List
    PROVE  StampInv' /\ NoRegress
<1>1. /\ UNCHANGED <<now, budgets>> /\ worker'.at = now /\ worker'.key = worker.key
      /\ worker.pc = "list" /\ Key \in Budgets /\ budgets[Key] # NoBudget
      BY DEF List, serverVars, TypeOK, IsWorker, Over, WorkerFields, Key,
             HeldInv, WorkerInv, Held, Reconciling
<1>2. Unstamped
      BY <1>1, UnstampedServer
<1>3. StampedBy(budgets[Key].status, now)
      BY <1>1 DEF StampInv
<1>4. \A b \in Budgets : budgets'[b] # NoBudget => StampedBy(budgets'[b].status, now')
      BY <1>1, <1>2, StampsKept
<1>5. StampInv'
      BY <1>1, <1>3, <1>4 DEF StampInv, StampedBy, Key
<1> QED BY <1>2, <1>5, UnstampedHarmless

\* The stamp itself: the instant of this reconcile, which no earlier one is past.
LEMMA StampStamps ==
    ASSUME TypeOK, TypeOK', HeldInv, StampInv, NEW fate, Stamp(fate)
    PROVE  StampInv' /\ NoRegress
<1>1. /\ Key \in Budgets /\ IsBudget(worker.obj) /\ budgets[Key] # NoBudget
      /\ worker.pc = "stamp" /\ worker.at \in 0..now /\ now \in Nat /\ UNCHANGED now
      BY DEF Stamp, TypeOK, IsWorker, Key, HeldInv, WorkerInv, Held, Reconciling
<1>2. PICK k, o, base, t, s, p, n :
         /\ k = Key /\ o = budgets[k] /\ base = worker.obj.status /\ t = worker.at
         /\ s = [base EXCEPT !.lastEnforcementAt = Trunc(t)]
         /\ p = MergePatch(o.status, base, s)
         /\ n = [o EXCEPT !.status = p]
      OBVIOUS
<1>3. /\ k \in Budgets /\ IsBudget(o) /\ IsStatus(o.status) /\ IsStatus(base)
      /\ StampedBy(o.status, t) /\ t \in Int /\ t <= now
      BY <1>1, <1>2 DEF TypeOK, AreBudgets, IsBudget, StampInv
<1>4. Trunc(t) \in Int /\ Trunc(t) <= Trunc(now)
      BY <1>1, <1>3, TruncMonotone, TruncIsInt
<1>5. IsStatus(s) /\ s.lastEnforcementAt = Trunc(t)
      <2>1. IsStatus(s)
            BY <1>2, <1>3, <1>4, StampedOK
      <2>2. s.lastEnforcementAt = Trunc(t)
            BY <1>2, <1>3 DEF IsStatus, Over, StatusFields
      <2> QED BY <2>1, <2>2
<1>6. /\ IsStatus(p)
      /\ p.lastEnforcementAt = o.status.lastEnforcementAt \/ p.lastEnforcementAt = Trunc(t)
      <2>1. IsStatus(p)
            BY <1>2, <1>3, <1>5, MergePatchOK
      <2>2. p.lastEnforcementAt = o.status.lastEnforcementAt \/ p.lastEnforcementAt = Trunc(t)
            BY <1>2, <1>3, <1>5 DEF MergePatch, IsStatus, Over, StatusFields
      <2> QED BY <2>1, <2>2
<1>7. StampedBy(p, t)
      BY <1>3, <1>4, <1>6 DEF StampedBy, IsStatus
<1>8. /\ o.status.lastEnforcementAt # None
         => p.lastEnforcementAt # None /\ p.lastEnforcementAt >= o.status.lastEnforcementAt
      BY <1>3, <1>4, <1>6, NoneAssumption DEF StampedBy, IsStatus
<1>9. n.status = p
      BY <1>2, <1>3, <1>6, StatusSet
<1>10. worker'.pc \notin Acting
      BY DEF Stamp, EndAndRequeue, Idle, Acting
<1>11. CASE UNCHANGED budgets
      BY <1>1, <1>10, <1>11, UnstampedServer, UnstampedHarmless, StampEnds
<1>12. CASE ~UNCHANGED budgets
      <2>1. budgets' = [budgets EXCEPT ![k] = n]
            BY <1>2, <1>12 DEF Stamp
      <2>2. /\ budgets'[k] = n /\ \A b \in Budgets : b # k => budgets'[b] = budgets[b]
            BY <1>3, <2>1 DEF TypeOK, AreBudgets, Over
      <2>3. StampedBy(p, now)
            BY <1>1, <1>3, <1>6, <1>7, StampedLater
      <2>4. \A b \in Budgets : budgets'[b] # NoBudget => StampedBy(budgets'[b].status, now')
            BY <1>1, <1>9, <2>2, <2>3 DEF StampInv
      <2>5. StampInv'
            BY <1>10, <2>4 DEF StampInv, StampedBy, Acting
      <2>6. NoRegress
            <3> SUFFICES ASSUME NEW b \in Budgets, budgets[b] # NoBudget, budgets'[b] # NoBudget,
                                budgets[b].status.lastEnforcementAt # None
                         PROVE  /\ budgets'[b].status.lastEnforcementAt # None
                                /\ budgets'[b].status.lastEnforcementAt
                                   >= budgets[b].status.lastEnforcementAt
                BY DEF NoRegress
            <3>1. CASE b = k
                  BY <1>2, <1>8, <1>9, <2>2, <3>1
            <3>2. CASE b # k
                  <4>1. budgets[b].status.lastEnforcementAt \in Int
                        BY DEF TypeOK, AreBudgets, IsBudget, IsStatus
                  <4> QED BY <2>2, <3>2, <4>1
            <3> QED BY <3>1, <3>2
      <2> QED BY <2>5, <2>6
<1> QED BY <1>11, <1>12

\* A step of the operator that records nothing.
LEMMA StampElsewhere ==
    ASSUME TypeOK, TypeOK', HeldInv, HeldInv', StampInv, Unstamped, now' \in {now, now + 1},
           \/ worker'.pc \notin Acting
           \/ /\ worker.pc \in Acting
              /\ worker'.key = worker.key /\ worker'.at = worker.at
    PROVE  StampInv' /\ NoRegress
BY StampEnds, StampGoesOn, UnstampedHarmless

\* Every step of a reconcile.
LEMMA StampWork ==
    ASSUME TypeOK, TypeOK', HeldInv, HeldInv', StampInv, Work
    PROVE  StampInv' /\ NoRegress
<1>1. ASSUME NEW fate, Adopt(fate) \/ Remove(fate)
      PROVE  StampInv' /\ NoRegress
      <2>1. UNCHANGED now /\ (worker' = Idle \/ worker'.pc = "list")
            <3>1. CASE Adopt(fate)
                  BY <3>1 DEF Adopt, EndAndRequeue, TypeOK, IsWorker, Over, WorkerFields
            <3>2. CASE Remove(fate)
                  BY <3>2 DEF Remove, EndAndRequeue
            <3> QED BY <1>1, <3>1, <3>2
      <2>2. worker'.pc \notin Acting
            BY <2>1 DEF Acting, Idle
      <2> QED BY <1>1, <2>1, <2>2, UnstampedFinalizer, StampElsewhere
<1>2. ASSUME NEW fate, Degrade(fate)
      PROVE  StampInv' /\ NoRegress
      <2>1. UNCHANGED now /\ worker'.pc \notin Acting
            BY <1>2 DEF Degrade, EndAndRequeue, Idle, Acting
      <2> QED BY <1>2, <2>1, UnstampedStatus, StampElsewhere
<1>3. ASSUME NEW fate, WriteStatus(fate)
      PROVE  StampInv' /\ NoRegress
      <2>1. UNCHANGED now /\ worker.pc = "write"
            BY <1>3 DEF WriteStatus
      <2>2. \/ worker' = Idle
            \/ \E o, l, g : worker' = [worker EXCEPT !.pc = "enforce", !.obj = o,
                                                     !.listing = l, !.target = g]
            <3>1. PICK patched : patched = [budgets[Key] EXCEPT !.status =
                     MergePatch(@, worker.obj.status,
                                ReconciledStatus(worker.obj, worker.result, worker.at))]
                  OBVIOUS
            <3>2. \/ worker' = Idle
                  \/ \E l, g : worker' = [worker EXCEPT !.pc = "enforce", !.obj = patched,
                                                        !.listing = l, !.target = g]
                  BY <1>3, <3>1 DEF WriteStatus, EndAndRequeue
            <3> QED BY <3>2
      <2>3. CASE worker' = Idle
            BY <1>3, <2>1, <2>3, UnstampedStatus, StampElsewhere DEF Idle, Acting
      <2>4. CASE worker' # Idle
            <3>1. worker'.key = worker.key /\ worker'.at = worker.at
                  BY <2>2, <2>4 DEF TypeOK, IsWorker, Over, WorkerFields
            <3>2. Unstamped
                  BY <1>3, UnstampedStatus
            <3> QED BY <2>1, <3>1, <3>2, StampElsewhere DEF Acting
      <2> QED BY <2>3, <2>4
<1>4. ASSUME NEW fate, NEW blocked, Alert \/ AlreadyPaused \/ Evict(fate, blocked) \/ Pause(fate)
      PROVE  StampInv' /\ NoRegress
      <2>1. /\ UNCHANGED <<now, budgets>> /\ worker.pc = "enforce"
            /\ Enforced \/ worker' = Idle
            BY <1>4 DEF Alert, AlreadyPaused, Evict, Pause, Dispatched, EnforcerFailed,
                        EndAndRequeue, serverVars
      <2>2. Unstamped
            BY <2>1, UnstampedServer
      <2>3. CASE worker' = Idle
            BY <2>1, <2>2, <2>3, StampElsewhere DEF Idle, Acting
      <2>4. CASE Enforced
            <3>1. worker'.key = worker.key /\ worker'.at = worker.at
                  BY <2>4 DEF Enforced, TypeOK, IsWorker, Over, WorkerFields
            <3> QED BY <2>1, <2>2, <3>1, StampElsewhere DEF Acting
      <2> QED BY <2>1, <2>3, <2>4
<1>5. CASE Refused
      <2>1. UNCHANGED <<now, budgets>> /\ worker'.pc \notin Acting
            BY <1>5 DEF Refused, EndAndRequeue, serverVars, Idle, Acting
      <2> QED BY <2>1, UnstampedServer, StampElsewhere
<1>6. CASE ListFails
      <2>1. UNCHANGED <<now, budgets>> /\ worker'.pc = "degrade"
            BY <1>6 DEF ListFails, serverVars, TypeOK, IsWorker, Over, WorkerFields
      <2> QED BY <2>1, UnstampedServer, StampElsewhere DEF Acting
<1> QED BY <1>1, <1>2, <1>3, <1>4, <1>5, <1>6, StampList, StampStamps DEF Work, Call

\* The manager reads, and forgets.
LEMMA StampManager ==
    ASSUME TypeOK, TypeOK', HeldInv, HeldInv', StampInv, Manager
    PROVE  StampInv' /\ NoRegress
<1>1. UNCHANGED <<now, budgets>>
      BY DEF Manager, Get, SyncBudget, SyncPod, Crash, Start, serverVars
<1>2. UNCHANGED worker \/ worker'.pc \notin Acting
      <2>1. ASSUME NEW b \in Budgets, Get(b), ~UNCHANGED worker
            PROVE  worker'.pc \in {"adopt", "remove", "list"}
            BY <2>1 DEF Get, Idle
      <2>2. \/ UNCHANGED worker \/ worker' = Idle
            \/ \E b \in Budgets : Get(b)
            BY DEF Manager, SyncBudget, SyncPod, Crash, Start
      <2> QED BY <2>1, <2>2 DEF Idle, Acting
<1> QED BY <1>1, <1>2, UnstampedServer, UnstampedHarmless, StampAround, StampElsewhere

\* StampInv is inductive, and no step takes a record back.
LEMMA StampStep ==
    TypeOK /\ TypeOK' /\ HeldInv /\ HeldInv' /\ StampInv /\ [Next]_vars => StampInv' /\ NoRegress
<1> SUFFICES ASSUME TypeOK, TypeOK', HeldInv, HeldInv', StampInv, [Next]_vars
             PROVE  StampInv' /\ NoRegress
    OBVIOUS
<1>1. CASE Users
      <2>1. UNCHANGED <<now, worker>>
            BY <1>1 DEF Users, CreateBudget, EditSpec, DeleteBudget, ForeignDone, operatorVars
      <2> QED BY <1>1, <2>1, UnstampedUsers, UnstampedHarmless, StampAround
<1>2. CASE Kubelet \/ Tick \/ UNCHANGED vars
      <2>1. UNCHANGED <<budgets, worker>> /\ now' \in {now, now + 1}
            <3>1. CASE Kubelet
                  BY <3>1 DEF Kubelet, CreatePod, StartPod, FinishPod, DeletePod, CollectPod,
                              OnPod, operatorVars
            <3>2. CASE Tick \/ UNCHANGED vars
                  BY <3>2 DEF Tick, vars, serverVars, operatorVars
            <3> QED BY <1>2, <3>1, <3>2
      <2> QED BY <2>1, UnstampedServer, UnstampedHarmless, StampAround
<1> QED BY <1>1, <1>2, StampWork, StampManager DEF Next

\* Whatever copies the reconciles start from, and whichever calls fail, the record of
\* the last enforcement of an incarnation is never cleared or moved back
\* (maybeEnforce, the merge patches).
THEOREM EnforcementRecorded == Spec => LastEnforcementNeverRegresses
<1>1. Init => TypeOK /\ HeldInv /\ StampInv
      BY TypeInit, HeldInit, StampInit
<1>2. TypeOK /\ HeldInv /\ StampInv /\ [Next]_vars => (TypeOK /\ HeldInv /\ StampInv)'
      BY TypeStep, HeldStep, StampStep
<1>3. TypeOK /\ HeldInv /\ StampInv /\ [Next]_vars => [NoRegress]_vars
      BY TypeStep, HeldStep, StampStep
<1>4. Spec => [][NoRegress]_vars
      BY <1>1, <1>2, <1>3, PTL DEF Spec
<1> QED BY <1>4 DEF NoRegress, LastEnforcementNeverRegresses

-----------------------------------------------------------------------------
(***************************************************************************)
(* The pods that are listed are pods, so that the engine and the choice of *)
(* an offender do what they promise of them.                               *)
(***************************************************************************)
\* A table of pods with one entry replaced; another name changes nothing.
LEMMA PodSet ==
    ASSUME NEW table, ArePods(table), NEW n, NEW p,
           n \in PodNames => p = None \/ StoredPod(p)
    PROVE  ArePods([table EXCEPT ![n] = p])
<1>. DEFINE t == [table EXCEPT ![n] = p]
            held(f) == {m \in PodNames : f[m] # None}
<1>1. Over(t, PodNames)
  BY OverSet DEF ArePods
<1>2. \A m \in PodNames : t[m] = IF m = n THEN p ELSE table[m]
  BY DEF ArePods, Over
<1>3. \A m \in PodNames : t[m] = None \/ StoredPod(t[m])
  BY <1>2 DEF ArePods
<1>. HIDE DEF t
<1>4. held(t) \in SUBSET (held(table) \cup {n})
  BY <1>2
<1>5. IsFiniteSet(held(table))
  BY DEF ArePods
<1>. HIDE DEF held
<1>6. IsFiniteSet(held(t))
  BY <1>4, <1>5, FS_AddElement, FS_Subset
<1>. QED BY <1>1, <1>3, <1>6 DEF ArePods, held, t

\* No pods at all.
LEMMA NoPods == ArePods(Nothing(PodNames))
<1>1. {n \in PodNames : Nothing(PodNames)[n] # None} = {}
  BY DEF Nothing
<1>. QED BY <1>1, OverMade, FS_EmptySet DEF ArePods, Nothing

\* One container, as the kubelet of BudgetController reports it.
LEMMA OneStatus ==
    ASSUME NEW s, IsContainerStatus(s)
    PROVE  /\ IsFiniteSet(DOMAIN <<s>>) /\ 1 \in DOMAIN <<s>>
           /\ \A i \in DOMAIN <<s>> : IsContainerStatus(<<s>>[i])
<1>1. DOMAIN <<s>> = {1} /\ <<s>>[1] = s
  OBVIOUS
<1>2. IsFiniteSet({1})
  BY FS_Singleton
<1>. QED BY <1>1, <1>2

\* A created pod.
LEMMA NewPodStored ==
    ASSUME NEW uid, NEW n \in PodNames
    PROVE  StoredPod(NewPod(uid, Gpus[n])) /\ NewPod(uid, Gpus[n]).pausedBy = None
<1>. DEFINE p == NewPod(uid, Gpus[n])
<1>1. /\ Over(p, PodFields)
      /\ p.requests = <<Gpus[n]>> /\ p.statuses = <<>> /\ p.phase = "Pending"
      /\ p.startTime = None /\ p.deletionTimestamp = None /\ p.pausedBy = None
  BY DEF NewPod, Over, PodFields
<1>2. DOMAIN p.requests = {1} /\ \A i \in {1} : p.requests[i] = Gpus[n]
  BY <1>1
<1>3. DOMAIN p.statuses = {}
  BY <1>1
<1>6. IsFiniteSet({1}) /\ IsFiniteSet({})
  BY FS_Singleton, FS_EmptySet
<1>4. Gpus[n] \in Nat \cup {None}
  BY GpusAssumption
<1>. HIDE DEF p
<1>5. IsPod(p)
  BY <1>1, <1>2, <1>3, <1>4, <1>6 DEF IsPod, Instants
<1>. QED BY <1>1, <1>5 DEF StoredPod, p

\* A deletion timestamp, or the author of a pause, written on a pod.
LEMMA DeletionStored ==
    ASSUME NEW p, StoredPod(p), NEW t \in Int
    PROVE  LET n == [p EXCEPT !.deletionTimestamp = t]
           IN  StoredPod(n) /\ n.pausedBy = p.pausedBy
<1>. DEFINE n == [p EXCEPT !.deletionTimestamp = t]
<1>1. /\ Over(n, PodFields) /\ n.requests = p.requests /\ n.statuses = p.statuses
      /\ n.phase = p.phase /\ n.startTime = p.startTime /\ n.deletionTimestamp = t
      /\ n.pausedBy = p.pausedBy
  BY DEF StoredPod, Over, PodFields
<1>. HIDE DEF n
<1>. QED BY <1>1 DEF StoredPod, IsPod, Instants, n

LEMMA AuthorStored ==
    ASSUME NEW p, StoredPod(p), NEW b
    PROVE  StoredPod([p EXCEPT !.pausedBy = b])
<1>. DEFINE n == [p EXCEPT !.pausedBy = b]
<1>1. /\ Over(n, PodFields) /\ n.requests = p.requests /\ n.statuses = p.statuses
      /\ n.phase = p.phase /\ n.startTime = p.startTime
      /\ n.deletionTimestamp = p.deletionTimestamp
  BY DEF StoredPod, Over, PodFields
<1>. HIDE DEF n
<1>. QED BY <1>1 DEF StoredPod, IsPod, n

\* A pod that starts, and one that stops.
LEMMA StartStored ==
    ASSUME NEW p, StoredPod(p), NEW t \in Int
    PROVE  LET n == [p EXCEPT !.phase = "Running", !.startTime = t,
                        !.statuses = <<ContainerStatus(t, None, None, None)>>]
           IN  StoredPod(n) /\ n.pausedBy = p.pausedBy
<1>. DEFINE s == ContainerStatus(t, None, None, None)
            n == [p EXCEPT !.phase = "Running", !.startTime = t, !.statuses = <<s>>]
<1>1. IsContainerStatus(s)
  BY DEF IsContainerStatus, ContainerStatus, Instants
<1>. HIDE DEF s
<1>2. /\ Over(n, PodFields) /\ n.requests = p.requests /\ n.statuses = <<s>>
      /\ n.startTime = t /\ n.deletionTimestamp = p.deletionTimestamp
      /\ n.pausedBy = p.pausedBy
  BY DEF StoredPod, Over, PodFields
<1>. HIDE DEF n
<1>3. IsPod(n)
  BY <1>1, <1>2, OneStatus DEF StoredPod, IsPod, Instants
<1>. QED BY <1>1, <1>2, <1>3, OneStatus DEF StoredPod, n, s

LEMMA FinishStored ==
    ASSUME NEW p, StoredPod(p), p.phase = "Running", NEW t \in Int
    PROVE  LET n == [p EXCEPT !.phase = "Succeeded",
                        !.statuses = <<ContainerStatus(None, p.statuses[1].running, t, None)>>]
           IN  StoredPod(n) /\ n.pausedBy = p.pausedBy
<1>. DEFINE s == ContainerStatus(None, p.statuses[1].running, t, None)
            n == [p EXCEPT !.phase = "Succeeded", !.statuses = <<s>>]
<1>1. IsContainerStatus(s)
  BY DEF IsContainerStatus, ContainerStatus, Instants, StoredPod, IsPod
<1>. HIDE DEF s
<1>2. /\ Over(n, PodFields) /\ n.requests = p.requests /\ n.statuses = <<s>>
      /\ n.startTime = p.startTime /\ n.deletionTimestamp = p.deletionTimestamp
      /\ n.pausedBy = p.pausedBy
  BY DEF StoredPod, Over, PodFields
<1>. HIDE DEF n
<1>3. IsPod(n)
  BY <1>1, <1>2, OneStatus DEF StoredPod, IsPod
<1>. QED BY <1>1, <1>2, <1>3, OneStatus DEF StoredPod, n, s

\* What an eviction leaves of a pod.
LEMMA EvictedStored ==
    ASSUME NEW p, StoredPod(p), now \in Nat, NEW grace \in Nat
    PROVE  \/ Evicted(p, grace) = None
           \/ StoredPod(Evicted(p, grace)) /\ Evicted(p, grace).pausedBy = p.pausedBy
<1>1. now + Seconds(grace) \in Int
  BY ClockAssumption DEF Seconds
<1>. QED BY <1>1, DeletionStored DEF Evicted

\* A step that pauses no pod, and takes no pause back.
NoPause ==
    \A n \in PodNames : pods'[n] # None =>
        pods'[n].pausedBy = IF pods[n] = None THEN None ELSE pods[n].pausedBy

\* One pod replaced, deleted or created.
LEMMA NoPauseSet ==
    ASSUME ArePods(pods), NEW n, NEW p, pods' = [pods EXCEPT ![n] = p],
           n \in PodNames =>
              \/ p = None
              \/ /\ StoredPod(p)
                 /\ p.pausedBy = IF pods[n] = None THEN None ELSE pods[n].pausedBy
    PROVE  ArePods(pods') /\ NoPause
<1>1. ArePods(pods')
  BY PodSet
<1>2. \A m \in PodNames : pods'[m] = IF m = n THEN p ELSE pods[m]
  BY DEF ArePods, Over
<1>3. NoPause
  BY <1>2 DEF NoPause
<1>. QED BY <1>1, <1>3

LEMMA NoPauseNothing ==
    ASSUME ArePods(pods), UNCHANGED pods
    PROVE  ArePods(pods') /\ NoPause
BY DEF NoPause

\* What the kubelet does to a pod.
LEMMA PodsKubelet ==
    ASSUME TypeOK, ArePods(pods), Kubelet
    PROVE  ArePods(pods') /\ NoPause
<1>1. now \in Int
  BY DEF TypeOK
<1>2. PICK n \in PodNames :
        CreatePod(n) \/ StartPod(n) \/ FinishPod(n) \/ DeletePod(n) \/ CollectPod(n)
  BY DEF Kubelet
<1>3. PICK p : p = pods[n]
  OBVIOUS
<1>4. p = None \/ StoredPod(p)
  BY <1>3 DEF ArePods
<1>5. CASE CreatePod(n)
  <2>1. p = None /\ \E uid : pods' = [pods EXCEPT ![n] = NewPod(uid, Gpus[n])]
    BY <1>3, <1>5 DEF CreatePod, OnPod
  <2>. QED BY <1>3, <2>1, NewPodStored, NoPauseSet
<1>6. CASE StartPod(n)
  <2>1. PICK q : q = [p EXCEPT !.phase = "Running", !.startTime = now,
                        !.statuses = <<ContainerStatus(now, None, None, None)>>]
    OBVIOUS
  <2>2. p # None /\ pods' = [pods EXCEPT ![n] = q]
    BY <1>3, <1>6, <2>1 DEF StartPod, OnPod
  <2>3. StoredPod(q) /\ q.pausedBy = p.pausedBy
    BY <1>1, <1>4, <2>1, <2>2, StartStored
  <2>. QED BY <1>3, <2>2, <2>3, NoPauseSet
<1>7. CASE FinishPod(n)
  <2>1. PICK q : q = [p EXCEPT !.phase = "Succeeded",
                  !.statuses = <<ContainerStatus(None, p.statuses[1].running, now, None)>>]
    OBVIOUS
  <2>2. p # None /\ p.phase = "Running" /\ pods' = [pods EXCEPT ![n] = q]
    BY <1>3, <1>7, <2>1 DEF FinishPod, OnPod
  <2>3. StoredPod(q) /\ q.pausedBy = p.pausedBy
    BY <1>1, <1>4, <2>1, <2>2, FinishStored
  <2>. QED BY <1>3, <2>2, <2>3, NoPauseSet
<1>8. CASE DeletePod(n)
  <2>1. PICK q : q = [p EXCEPT !.deletionTimestamp = now]
    OBVIOUS
  <2>2. p # None /\ pods' = [pods EXCEPT ![n] = q]
    BY <1>3, <1>8, <2>1 DEF DeletePod, OnPod
  <2>3. StoredPod(q) /\ q.pausedBy = p.pausedBy
    BY <1>1, <1>4, <2>1, <2>2, DeletionStored
  <2>. QED BY <1>3, <2>2, <2>3, NoPauseSet
<1>9. CASE CollectPod(n)
  BY <1>9, NoPauseSet DEF CollectPod, OnPod
<1>. QED BY <1>2, <1>5, <1>6, <1>7, <1>8, <1>9

\* What the enforcers do to one.
LEMMA PodsEvict ==
    ASSUME TypeOK, ArePods(pods), NEW fate, NEW blocked, Evict(fate, blocked)
    PROVE  ArePods(pods') /\ NoPause
<1>1. now \in Nat /\ worker.pc = "enforce" /\ worker.obj.spec.grace \in Nat
  BY SpecsAssumption DEF TypeOK, IsWorker, IsBudget, Evict, Dispatched
<1>2. PICK n, p, g : n = worker.target.name /\ p = pods[n] /\ g = worker.obj.spec.grace
  OBVIOUS
<1>3. UNCHANGED pods \/ (p # None /\ pods' = [pods EXCEPT ![n] = Evicted(p, g)])
  BY <1>2 DEF Evict
<1>4. p # None /\ n \in PodNames => StoredPod(p)
  BY <1>2 DEF ArePods
<1>5. p # None /\ n \in PodNames =>
        \/ Evicted(p, g) = None
        \/ StoredPod(Evicted(p, g)) /\ Evicted(p, g).pausedBy = p.pausedBy
  BY <1>1, <1>2, <1>4, EvictedStored
<1>. QED BY <1>2, <1>3, <1>5, NoPauseSet, NoPauseNothing

LEMMA PodsPause ==
    ASSUME ArePods(pods), NEW fate, Pause(fate)
    PROVE  ArePods(pods')
<1>1. PICK n, p : n = worker.target.name /\ p = pods[n]
  OBVIOUS
<1>2. \/ UNCHANGED pods
      \/ p # None /\ pods' = [pods EXCEPT ![n] = [p EXCEPT !.pausedBy = Key]]
  BY <1>1 DEF Pause
<1>3. p # None /\ n \in PodNames => StoredPod(p)
  BY <1>1 DEF ArePods
<1>4. p # None /\ n \in PodNames => StoredPod([p EXCEPT !.pausedBy = Key])
  BY <1>3, AuthorStored
<1>. QED BY <1>2, <1>4, PodSet

\* Pods are paused by Pause alone.
LEMMA PodsStep ==
    ASSUME TypeOK, ArePods(pods), [Next]_vars
    PROVE  ArePods(pods') /\ (NoPause \/ \E fate \in Fates : Pause(fate))
<1>1. CASE UNCHANGED pods
  BY <1>1, NoPauseNothing
<1>2. CASE ~UNCHANGED pods
  <2>1. ~Users /\ ~Tick /\ ~UNCHANGED vars
    BY <1>2 DEF Users, CreateBudget, EditSpec, DeleteBudget, ForeignDone, Tick,
                vars, serverVars
  <2>2. ~Manager
    BY <1>2 DEF Manager, Get, SyncBudget, SyncPod, Crash, Start, serverVars
  <2>3. ~Refused /\ ~List /\ ~ListFails /\ ~Alert /\ ~AlreadyPaused
    BY <1>2 DEF Refused, List, ListFails, Alert, AlreadyPaused, serverVars
  <2>4. ASSUME NEW fate
        PROVE  ~Adopt(fate) /\ ~Remove(fate) /\ ~Degrade(fate) /\ ~WriteStatus(fate)
               /\ ~Stamp(fate)
    BY <1>2 DEF Adopt, Remove, Degrade, WriteStatus, Stamp
  <2>5. \/ Kubelet
        \/ \E fate \in Fates : Pause(fate) \/ \E blocked \in PdbVerdicts : Evict(fate, blocked)
    BY <2>1, <2>2, <2>3, <2>4 DEF Next, Work, Call
  <2>. QED BY <2>5, PodsKubelet, PodsEvict, PodsPause
<1>. QED BY <1>1, <1>2

\* The cache copies the server, and forgets.
LEMMA PodCacheStep ==
    ASSUME ArePods(pods), ArePods(podCache), [Next]_vars
    PROVE  ArePods(podCache')
<1>1. CASE UNCHANGED podCache
  BY <1>1
<1>2. CASE ~UNCHANGED podCache
  <2>1. ~Users /\ ~Tick /\ ~UNCHANGED vars /\ ~Kubelet
    BY <1>2 DEF Users, CreateBudget, EditSpec, DeleteBudget, ForeignDone, Tick, vars, cacheVars,
                operatorVars, Kubelet, CreatePod, StartPod, FinishPod, DeletePod, CollectPod, OnPod
  <2>2. ~Refused /\ ~List /\ ~ListFails /\ ~Alert /\ ~AlreadyPaused
    BY <1>2 DEF Refused, List, ListFails, Alert, AlreadyPaused, cacheVars
  <2>3. ASSUME NEW fate
        PROVE  ~Adopt(fate) /\ ~Remove(fate) /\ ~Degrade(fate) /\ ~WriteStatus(fate)
               /\ ~Stamp(fate) /\ ~Pause(fate) /\ \A blocked : ~Evict(fate, blocked)
    BY <1>2 DEF Adopt, Remove, Degrade, WriteStatus, Stamp, Pause, Evict, cacheVars
  <2>4. Manager /\ \A b \in Budgets : ~Get(b) /\ ~SyncBudget(b)
    BY <1>2, <2>1, <2>2, <2>3 DEF Next, Work, Call, Get, SyncBudget, cacheVars
  <2>5. \/ \E n \in PodNames : podCache' = [podCache EXCEPT ![n] = pods[n]]
        \/ podCache' = pods \/ podCache' = Nothing(PodNames)
    BY <2>4 DEF Manager, SyncPod, Crash, Start
  <2>6. ASSUME NEW n \in PodNames, podCache' = [podCache EXCEPT ![n] = pods[n]]
        PROVE  ArePods(podCache')
    <3>1. PICK p : p = pods[n]
      OBVIOUS
    <3>2. p = None \/ StoredPod(p)
      BY <3>1 DEF ArePods
    <3>. QED BY <2>6, <3>1, <3>2, PodSet
  <2>. QED BY <2>5, <2>6, NoPods
<1>. QED BY <1>1, <1>2

\* A reconcile writes what it has just listed.
LEMMA WorkerMoves ==
    ASSUME TypeOK, [Next]_vars
    PROVE  \/ UNCHANGED worker
           \/ worker'.pc \notin {"write", "enforce"}
           \/ List
           \/ worker'.pc = "enforce" /\ \E fate \in Fates : WriteStatus(fate)
<1>. SUFFICES ASSUME ~UNCHANGED worker, ~List, worker'.pc \in {"write", "enforce"}
              PROVE  worker'.pc = "enforce" /\ \E fate \in Fates : WriteStatus(fate)
  OBVIOUS
<1>1. ~Users /\ ~Tick /\ ~UNCHANGED vars /\ ~Kubelet
  BY DEF Users, CreateBudget, EditSpec, DeleteBudget, ForeignDone, Tick, vars,
         operatorVars, Kubelet, CreatePod, StartPod, FinishPod, DeletePod, CollectPod, OnPod
<1>2. Over(worker, WorkerFields)
  BY DEF TypeOK, IsWorker
<1>3. worker' # Idle /\ ~EndAndRequeue /\ ~Enforced
  <2>1. worker' # Idle
    BY DEF Idle
  <2>2. ~Enforced
    BY <1>2 DEF Enforced, Over, WorkerFields
  <2>. QED BY <2>1, <2>2 DEF EndAndRequeue
<1>4. ~Refused /\ ~Alert /\ ~AlreadyPaused
  BY <1>3 DEF Refused, Alert, AlreadyPaused
<1>5. ~ListFails
  BY <1>2 DEF ListFails, Over, WorkerFields
<1>6. ASSUME NEW fate
      PROVE  ~Remove(fate) /\ ~Degrade(fate) /\ ~Stamp(fate) /\ ~Pause(fate)
             /\ \A blocked : ~Evict(fate, blocked)
  BY <1>3 DEF Remove, Degrade, Stamp, Pause, Evict, EnforcerFailed
<1>7. ASSUME NEW fate PROVE ~Adopt(fate)
  <2>1. ASSUME NEW o, worker' = [worker EXCEPT !.pc = "list", !.obj = o] PROVE FALSE
    BY <1>2, <2>1 DEF Over, WorkerFields
  <2>. QED BY <1>3, <2>1 DEF Adopt
<1>8. ~Manager
  BY <1>3 DEF Manager, Get, SyncBudget, SyncPod, Crash, Start, Idle
<1>9. \E fate \in Fates : WriteStatus(fate)
  BY <1>1, <1>4, <1>5, <1>6, <1>7, <1>8 DEF Next, Work, Call
<1>10. PICK fate \in Fates : WriteStatus(fate)
  BY <1>9
<1>11. \E o, l, g : worker' = [worker EXCEPT !.pc = "enforce", !.obj = o,
                                             !.listing = l, !.target = g]
  <2>1. PICK patched : patched = [budgets[Key] EXCEPT !.status =
           MergePatch(@, worker.obj.status,
                      ReconciledStatus(worker.obj, worker.result, worker.at))]
    OBVIOUS
  <2>2. \/ worker' = Idle
        \/ \E l, g : worker' = [worker EXCEPT !.pc = "enforce", !.obj = patched,
                                              !.listing = l, !.target = g]
    BY <1>10, <2>1 DEF WriteStatus, EndAndRequeue
  <2>. QED BY <1>3, <2>2
<1>12. worker'.pc = "enforce"
  BY <1>2, <1>11 DEF Over, WorkerFields
<1>. QED BY <1>9, <1>12

\* What List lists.
LEMMA Listed ==
    ASSUME TypeOK, ArePods(podCache), List
    PROVE  /\ ListingInv' /\ worker'.pc = "write"
           /\ \A n \in DOMAIN worker'.listing : worker'.listing[n] = podCache[n]
<1>1. PICK w, s, l, v :
        /\ w = worker /\ s = worker.obj.spec /\ l = Listing(podCache, s.selector)
        /\ v = Verdict(s, l, now)
  OBVIOUS
<1>2. /\ s.selector \in SUBSET PodNames
      /\ worker' = [w EXCEPT !.pc = "write", !.at = now, !.listing = l, !.result = v]
  BY <1>1, SpecsAssumption DEF List, TypeOK, IsWorker, IsBudget
<1>3. /\ worker'.pc = "write" /\ worker'.obj = w.obj /\ worker'.at = now
      /\ worker'.listing = l /\ worker'.result = v
  BY <1>1, <1>2 DEF TypeOK, IsWorker, Over, WorkerFields
<1>4. /\ DOMAIN l \in SUBSET {n \in PodNames : podCache[n] # None}
      /\ \A n \in DOMAIN l : l[n] = podCache[n]
  BY <1>1, <1>2 DEF Listing
<1>5. IsFiniteSet(DOMAIN l)
  BY <1>4, FS_Subset DEF ArePods
<1>6. \A n \in DOMAIN l : IsPod(l[n])
  BY <1>4 DEF ArePods, StoredPod
<1>7. DOMAIN l \subseteq PodNames
  BY <1>4
<1>. QED BY <1>1, <1>3, <1>4, <1>5, <1>6, <1>7 DEF ListingInv

LEMMA PodsInit == Init => PodsInv
BY NoPods DEF Init, PodsInv, ListingInv, Idle

\* PodsInv is inductive.
LEMMA PodsInvStep == TypeOK /\ PodsInv /\ [Next]_vars => PodsInv'
<1>. SUFFICES ASSUME TypeOK, PodsInv, [Next]_vars PROVE PodsInv'
  OBVIOUS
<1>1. ArePods(pods') /\ ArePods(podCache')
  BY PodsStep, PodCacheStep DEF PodsInv
<1>2. ListingInv'
  <2>1. CASE List
    BY <2>1, Listed DEF PodsInv
  <2>2. CASE UNCHANGED worker
    BY <2>2 DEF PodsInv, ListingInv
  <2>3. CASE worker'.pc # "write"
    BY <2>3 DEF ListingInv
  <2>. QED BY <2>1, <2>2, <2>3, WorkerMoves
<1>. QED BY <1>1, <1>2 DEF PodsInv

-----------------------------------------------------------------------------
(***************************************************************************)
(* A budget found over has a culprit.                                      *)
(***************************************************************************)
\* The window of an admitted spec is as long as it says.
LEMMA WindowAsWritten ==
    ASSUME NEW h \in 1..MaxDuration
    PROVE  WindowDuration(h) = h
<1>. DEFINE m == MaxDuration + 1
<1>1. m \in Nat /\ h + m \in 0..(2 * m - 1)
  BY DurationAssumption
<1>. HIDE DEF m
<1>2. (h + m) % (2 * m) = h + m
  BY <1>1
<1>3. WindowDuration(h) = ((h + m) % (2 * m)) - m
  <2>1. h + MaxDuration + 1 = h + m
    BY DurationAssumption DEF m
  <2>. QED BY <2>1 DEF WindowDuration, m
<1>. QED BY <1>1, <1>2, <1>3

\* Any window is some number.
LEMMA WindowIsInt ==
    ASSUME NEW h \in Int
    PROVE  WindowDuration(h) \in Int
<1>. DEFINE m == MaxDuration + 1
<1>1. m \in Nat /\ 2 * m \in Nat \ {0} /\ h + m \in Int
  BY DurationAssumption
<1>. HIDE DEF m
<1>2. (h + m) % (2 * m) \in Int
  BY <1>1
<1>3. WindowDuration(h) = ((h + m) % (2 * m)) - m
  <2>1. h + MaxDuration + 1 = h + m
    BY DurationAssumption DEF m
  <2>. QED BY <2>1 DEF WindowDuration, m
<1>. QED BY <1>1, <1>2, <1>3

\* What is admitted under this policy allots something over some time.
LEMMA AdmitsAllots ==
    ASSUME FailurePolicy = "Fail", NEW spec \in Specs, NEW serving, Admits(spec, serving)
    PROVE  spec.quota > 0 /\ spec.window > 0
BY DEF Admits, ValidateSpec

\* The spec of a budget, kept by a step.
LEMMA AllotsSame ==
    ASSUME NEW o, o # NoBudget, Allots(o), NEW n, n.spec = o.spec
    PROVE  Allots(n)
BY DEF Allots

\* A table with one entry replaced.
LEMMA AllotsSet ==
    ASSUME NEW table, Over(table, Budgets), \A b \in Budgets : Allots(table[b]),
           NEW k, NEW n, Allots(n)
    PROVE  \A b \in Budgets : Allots([table EXCEPT ![k] = n][b])
<1>1. \A b \in Budgets : [table EXCEPT ![k] = n][b] = IF b = k THEN n ELSE table[b]
  BY DEF Over
<1>. QED BY <1>1

LEMMA NoneAllots == Allots(NoBudget)
BY DEF Allots

\* What users write is admitted first.
LEMMA AdmittedUsers ==
    ASSUME TypeOK, AdmittedInv, FailurePolicy = "Fail", Users
    PROVE  AdmittedInv'
<1>1. PICK b \in Budgets :
        \/ \E spec \in Specs : CreateBudget(b, spec) \/ EditSpec(b, spec)
        \/ \E cascade \in CascadeModes : DeleteBudget(b, cascade)
        \/ ForeignDone(b)
  BY DEF Users
<1>2. UNCHANGED <<budgetCache, worker>>
  BY <1>1 DEF CreateBudget, EditSpec, DeleteBudget, ForeignDone, operatorVars, cacheVars
<1>3. PICK o : o = budgets[b]
  OBVIOUS
<1>4. Allots(o) /\ (o # NoBudget => IsBudget(o)) /\ Over(budgets, Budgets)
  BY <1>3 DEF AdmittedInv, TypeOK, AreBudgets
<1>5. \E n : Allots(n) /\ budgets' = [budgets EXCEPT ![b] = n]
  <2>1. ASSUME NEW spec \in Specs, CreateBudget(b, spec)
        PROVE  \E n : Allots(n) /\ budgets' = [budgets EXCEPT ![b] = n]
    <3>1. PICK n : n = NewBudget(budgetsMade', spec)
      OBVIOUS
    <3>2. n.spec = spec /\ budgets' = [budgets EXCEPT ![b] = n]
      BY <2>1, <3>1 DEF CreateBudget, NewBudget
    <3>3. Allots(n)
      BY <2>1, <3>2, AdmitsAllots DEF CreateBudget, Allots
    <3>. QED BY <3>2, <3>3
  <2>2. ASSUME NEW spec \in Specs, EditSpec(b, spec)
        PROVE  \E n : Allots(n) /\ budgets' = [budgets EXCEPT ![b] = n]
    <3>1. PICK n : n = [o EXCEPT !.spec = spec, !.gen = @ + 1]
      OBVIOUS
    <3>2. o # NoBudget /\ budgets' = [budgets EXCEPT ![b] = n]
      BY <1>3, <2>2, <3>1 DEF EditSpec
    <3>3. n.spec = spec
      BY <1>4, <3>1, <3>2, SpecSet
    <3>4. Allots(n)
      BY <2>2, <3>3, AdmitsAllots DEF EditSpec, Allots
    <3>. QED BY <3>2, <3>4
  <2>3. ASSUME NEW cascade \in CascadeModes, DeleteBudget(b, cascade)
        PROVE  \E n : Allots(n) /\ budgets' = [budgets EXCEPT ![b] = n]
    <3>1. PICK n : n = [o EXCEPT !.deleting = TRUE, !.foreign = cascade]
      OBVIOUS
    <3>2. /\ o # NoBudget
          /\ \/ budgets' = [budgets EXCEPT ![b] = n]
             \/ budgets' = [budgets EXCEPT ![b] = NoBudget]
      BY <1>3, <2>3, <3>1 DEF DeleteBudget
    <3>3. n.spec = o.spec
      BY <1>4, <3>1, <3>2, DeletionSet, SwitchAssumption
    <3>. QED BY <1>4, <3>2, <3>3, AllotsSame, NoneAllots
  <2>4. CASE ForeignDone(b)
    <3>1. PICK n : n = [o EXCEPT !.foreign = FALSE]
      OBVIOUS
    <3>2. /\ o # NoBudget
          /\ \/ budgets' = [budgets EXCEPT ![b] = n]
             \/ budgets' = [budgets EXCEPT ![b] = NoBudget]
      BY <1>3, <2>4, <3>1 DEF ForeignDone
    <3>3. n.spec = o.spec
      BY <1>4, <3>1, <3>2, ForeignSet
    <3>. QED BY <1>4, <3>2, <3>3, AllotsSame, NoneAllots
  <2>. QED BY <1>1, <2>1, <2>2, <2>3, <2>4
<1>6. \A c \in Budgets : Allots(budgets'[c])
  BY <1>4, <1>5, AllotsSet DEF AdmittedInv
<1>. QED BY <1>2, <1>6 DEF AdmittedInv

\* The operator writes specs back as it read them, or not at all.
LEMMA AdmittedWrite ==
    ASSUME TypeOK, HeldInv, AdmittedInv, NEW fate,
           Adopt(fate) \/ Remove(fate) \/ Degrade(fate) \/ WriteStatus(fate) \/ Stamp(fate)
    PROVE  AdmittedInv'
<1>1. /\ worker.pc # "idle" /\ Key \in Budgets /\ IsBudget(worker.obj)
      /\ worker.obj # NoBudget /\ budgets[Key] # NoBudget /\ UNCHANGED budgetCache
      /\ Over(budgets, Budgets)
  <2>1. worker.pc \in Reconciling \/ budgets[Key] = worker.obj
    BY DEF Adopt, Remove, Degrade, WriteStatus, Stamp, Current, Reconciling
  <2>2. worker.pc # "idle" /\ UNCHANGED budgetCache
    BY DEF Adopt, Remove, Degrade, WriteStatus, Stamp, cacheVars
  <2>3. Key \in Budgets /\ IsBudget(worker.obj)
    BY <2>2 DEF TypeOK, IsWorker, Key
  <2>5. worker.obj # NoBudget
    BY <2>3, BudgetExists
  <2>4. budgets[Key] # NoBudget
    BY <2>1, <2>5 DEF HeldInv, WorkerInv, Held
  <2>. QED BY <2>2, <2>3, <2>4, <2>5 DEF TypeOK, IsWorker, AreBudgets
<1>9. Over(worker, WorkerFields)
  BY DEF TypeOK, IsWorker
<1>2. PICK o, w, adopted, left :
        /\ o = budgets[Key] /\ w = worker.obj
        /\ adopted = [w EXCEPT !.finalizer = TRUE] /\ left = WithoutFinalizer(w)
  OBVIOUS
<1>3. IsBudget(o) /\ IsBudget(w) /\ Allots(o) /\ Allots(w) /\ o # NoBudget /\ w # NoBudget
  BY <1>1, <1>2 DEF TypeOK, AreBudgets, AdmittedInv
<1>4. Allots(adopted) /\ Allots(left)
  <2>1. adopted.spec = w.spec /\ (left = NoBudget \/ left.spec = w.spec)
    BY <1>2, <1>3, FinalizerSet DEF WithoutFinalizer
  <2>. QED BY <1>3, <2>1, AllotsSame, NoneAllots
<1>5. ASSUME NEW s PROVE Allots([o EXCEPT !.status = s])
  <2>1. [o EXCEPT !.status = s].spec = o.spec
    BY <1>3 DEF IsBudget, Over, BudgetFields
  <2>. QED BY <1>3, <2>1, AllotsSame
<1>6. CASE Adopt(fate)
  <2>1. /\ UNCHANGED budgets \/ budgets' = [budgets EXCEPT ![Key] = adopted]
        /\ worker' = Idle \/ worker' = [worker EXCEPT !.pc = "list", !.obj = adopted]
    BY <1>2, <1>6 DEF Adopt, EndAndRequeue
  <2>4. worker'.obj = NoBudget \/ worker'.obj = adopted
    <3>1. CASE worker' = [worker EXCEPT !.pc = "list", !.obj = adopted]
      BY <1>9, <3>1 DEF Over, WorkerFields
    <3>. QED BY <2>1, <3>1 DEF Idle
  <2>2. Allots(worker'.obj)
    BY <1>4, <2>4, NoneAllots
  <2>3. \A b \in Budgets : Allots(budgets'[b])
    BY <1>1, <1>4, <2>1, AllotsSet DEF AdmittedInv
  <2>. QED BY <1>1, <2>2, <2>3 DEF AdmittedInv
<1>7. CASE Remove(fate)
  <2>1. /\ UNCHANGED budgets \/ budgets' = [budgets EXCEPT ![Key] = left]
        /\ worker' = Idle
    BY <1>2, <1>7 DEF Remove, EndAndRequeue
  <2>2. Allots(worker'.obj)
    BY <2>1, NoneAllots DEF Idle
  <2>3. \A b \in Budgets : Allots(budgets'[b])
    BY <1>1, <1>4, <2>1, AllotsSet DEF AdmittedInv
  <2>. QED BY <1>1, <2>2, <2>3 DEF AdmittedInv
<1>8. CASE Degrade(fate) \/ WriteStatus(fate) \/ Stamp(fate)
  <2>1. PICK d, r, t :
          /\ d = [o EXCEPT !.status =
                    MergePatch(o.status, w.status, DegradedStatus(w))]
          /\ r = [o EXCEPT !.status =
                    MergePatch(o.status, w.status,
                               ReconciledStatus(w, worker.result, worker.at))]
          /\ t = [o EXCEPT !.status =
                    MergePatch(o.status, w.status,
                               [w.status EXCEPT !.lastEnforcementAt = Trunc(worker.at)])]
    OBVIOUS
  <2>2. Allots(d) /\ Allots(r) /\ Allots(t)
    BY <1>5, <2>1
  <2>3. CASE Degrade(fate)
    <3>1. /\ UNCHANGED budgets \/ budgets' = [budgets EXCEPT ![Key] = d]
          /\ worker' = Idle
      BY <1>1, <1>2, <2>1, <2>3 DEF Degrade, EndAndRequeue
    <3>2. Allots(worker'.obj)
      BY <3>1, NoneAllots DEF Idle
    <3>3. \A b \in Budgets : Allots(budgets'[b])
      BY <1>1, <2>2, <3>1, AllotsSet DEF AdmittedInv
    <3>. QED BY <1>1, <3>2, <3>3 DEF AdmittedInv
  <2>4. CASE Stamp(fate)
    <3>1. /\ UNCHANGED budgets \/ budgets' = [budgets EXCEPT ![Key] = t]
          /\ worker' = Idle
      BY <1>1, <1>2, <2>1, <2>4 DEF Stamp, EndAndRequeue
    <3>2. Allots(worker'.obj)
      BY <3>1, NoneAllots DEF Idle
    <3>3. \A b \in Budgets : Allots(budgets'[b])
      BY <1>1, <2>2, <3>1, AllotsSet DEF AdmittedInv
    <3>. QED BY <1>1, <3>2, <3>3 DEF AdmittedInv
  <2>5. CASE WriteStatus(fate)
    <3>1. UNCHANGED budgets \/ budgets' = [budgets EXCEPT ![Key] = r]
      BY <1>1, <1>2, <2>1, <2>5 DEF WriteStatus
    <3>2. PICK patched : patched = [budgets[Key] EXCEPT !.status =
             MergePatch(@, worker.obj.status,
                        ReconciledStatus(worker.obj, worker.result, worker.at))]
      OBVIOUS
    <3>5. \/ worker' = Idle
          \/ \E l, g : worker' = [worker EXCEPT !.pc = "enforce", !.obj = patched,
                                                !.listing = l, !.target = g]
      BY <2>5, <3>2 DEF WriteStatus, EndAndRequeue
    <3>6. worker'.obj = NoBudget \/ worker'.obj = patched
      <4>1. CASE worker' # Idle
        BY <1>9, <3>5, <4>1 DEF Over, WorkerFields
      <4>. QED BY <4>1 DEF Idle
    <3>7. patched = r
      BY <1>2, <2>1, <3>2
    <3>3. Allots(worker'.obj)
      BY <2>2, <3>6, <3>7, NoneAllots
    <3>4. \A b \in Budgets : Allots(budgets'[b])
      BY <1>1, <2>2, <3>1, AllotsSet DEF AdmittedInv
    <3>. QED BY <1>1, <3>3, <3>4 DEF AdmittedInv
  <2>. QED BY <1>8, <2>3, <2>4, <2>5
<1>. QED BY <1>6, <1>7, <1>8

\* Everything else copies a budget or keeps it.
LEMMA AdmittedElse ==
    ASSUME TypeOK, HeldInv, AdmittedInv, [Next]_vars, UNCHANGED budgets
    PROVE  AdmittedInv'
<1>1. \A b \in Budgets : Allots(budgetCache'[b])
  <2>1. CASE UNCHANGED budgetCache
    BY <2>1 DEF AdmittedInv
  <2>2. ASSUME NEW b \in Budgets, SyncBudget(b)
        PROVE  \A c \in Budgets : Allots(budgetCache'[c])
    <3>1. Over(budgetCache, Budgets) /\ budgetCache' = [budgetCache EXCEPT ![b] = budgets[b]]
      BY <2>2 DEF SyncBudget, TypeOK, AreBudgets
    <3>2. Allots(budgets[b])
      BY DEF AdmittedInv
    <3>. QED BY <3>1, <3>2, AllotsSet DEF AdmittedInv
  <2>3. CASE Crash
    BY <2>3, NoneAllots DEF Crash, NoBudgets
  <2>4. CASE Start
    BY <2>4 DEF Start, AdmittedInv
  <2>5. \/ UNCHANGED budgetCache \/ Crash \/ Start \/ \E b \in Budgets : SyncBudget(b)
    <3>1. CASE Work
      BY <3>1 DEF Work, Call, Adopt, Remove, Degrade, WriteStatus, Evict, Pause, Stamp,
                  Refused, List, ListFails, Alert, AlreadyPaused, cacheVars
    <3>2. CASE Manager
      BY <3>2 DEF Manager, Get, SyncPod, cacheVars
    <3>3. CASE Users \/ Kubelet
      BY <3>3 DEF Users, CreateBudget, EditSpec, DeleteBudget, ForeignDone, operatorVars,
                  cacheVars, Kubelet, CreatePod, StartPod, FinishPod, DeletePod, CollectPod, OnPod
    <3>4. CASE Tick \/ UNCHANGED vars
      BY <3>4 DEF Tick, vars, operatorVars, cacheVars
    <3>. QED BY <3>1, <3>2, <3>3, <3>4 DEF Next
  <2>. QED BY <2>1, <2>2, <2>3, <2>4, <2>5
<1>2. CASE /\ worker'.obj # worker.obj /\ worker' # Idle
           /\ ~\E fate \in Fates : Adopt(fate) \/ WriteStatus(fate)
  <2>1. Over(worker, WorkerFields)
    BY DEF TypeOK, IsWorker
  <2>2. ~Work
    <3>1. ~Enforced /\ ~EndAndRequeue
      BY <1>2, <2>1 DEF Enforced, EndAndRequeue, Over, WorkerFields
    <3>2. ~List /\ ~ListFails
      BY <1>2, <2>1 DEF List, ListFails, Over, WorkerFields
    <3>3. ~Refused /\ ~Alert /\ ~AlreadyPaused
      BY <3>1 DEF Refused, Alert, AlreadyPaused
    <3>4. ASSUME NEW fate
          PROVE  ~Remove(fate) /\ ~Degrade(fate) /\ ~Stamp(fate) /\ ~Pause(fate)
                 /\ \A blocked : ~Evict(fate, blocked)
      BY <1>2, <3>1 DEF Remove, Degrade, Stamp, Pause, Evict, EnforcerFailed, EndAndRequeue
    <3>. QED BY <1>2, <3>2, <3>3, <3>4 DEF Work, Call
  <2>3. ~Users /\ ~Kubelet /\ ~Tick /\ ~UNCHANGED vars
    BY <1>2 DEF Users, CreateBudget, EditSpec, DeleteBudget, ForeignDone, Tick, vars,
         operatorVars, Kubelet, CreatePod, StartPod, FinishPod, DeletePod, CollectPod, OnPod
  <2>4. PICK b \in Budgets : Get(b)
    BY <1>2, <2>2, <2>3 DEF Next, Manager, SyncBudget, SyncPod, Crash, Start
  <2>5. \E pc : worker' = [Idle EXCEPT !.pc = pc, !.key = b, !.obj = budgetCache[b]]
    BY <1>2, <2>4 DEF Get
  <2>6. worker'.obj = budgetCache[b]
    BY <2>5 DEF Idle
  <2>. QED BY <1>1, <2>6 DEF AdmittedInv
<1>3. CASE worker'.obj = worker.obj \/ worker' = Idle
  <2>1. Allots(worker'.obj)
    BY <1>3, NoneAllots DEF AdmittedInv, Idle
  <2>. QED BY <1>1, <2>1 DEF AdmittedInv
<1>4. CASE \E fate \in Fates : Adopt(fate) \/ WriteStatus(fate)
  BY <1>4, AdmittedWrite
<1>. QED BY <1>2, <1>3, <1>4

\* AdmittedInv is inductive.
LEMMA AdmittedStep ==
    ASSUME FailurePolicy = "Fail", TypeOK, HeldInv, AdmittedInv, [Next]_vars
    PROVE  AdmittedInv'
<1>1. CASE UNCHANGED budgets
  BY <1>1, AdmittedElse
<1>2. CASE Users
  BY <1>2, AdmittedUsers
<1>3. CASE ~UNCHANGED budgets /\ ~Users
  <2>1. ~Manager /\ ~Kubelet /\ ~Tick /\ ~UNCHANGED vars
    BY <1>3 DEF Manager, Get, SyncBudget, SyncPod, Crash, Start, serverVars, Kubelet, CreatePod,
                StartPod, FinishPod, DeletePod, CollectPod, OnPod, Tick, vars
  <2>2. ~Refused /\ ~List /\ ~ListFails /\ ~Alert /\ ~AlreadyPaused
    BY <1>3 DEF Refused, List, ListFails, Alert, AlreadyPaused, serverVars
  <2>3. \A fate : ~Pause(fate) /\ \A blocked : ~Evict(fate, blocked)
    BY <1>3 DEF Pause, Evict
  <2>. QED BY <1>3, <2>1, <2>2, <2>3, AdmittedWrite DEF Next, Work, Call
<1>. QED BY <1>1, <1>2, <1>3

LEMMA AdmittedInit == Init => AdmittedInv
BY NoneAllots DEF Init, AdmittedInv, NoBudgets, Idle

\* Compute sums the usages of the pods it is given, none of them negative: over a
\* quota that is something, one of them is something.
LEMMA OverIsUsed ==
    ASSUME NEW w \in Int, NEW quota \in Nat \ {0}, NEW t \in Int, NEW p,
           IsFiniteSet(DOMAIN p), \A i \in DOMAIN p : p[i] \in AccountingPods,
           Compute(w, quota, t, p).over
    PROVE  \E i \in DOMAIN p : WindowUsage(p[i], WindowStart(w, t), t) > 0
<1>. DEFINE from   == WindowStart(w, t)
            D      == DOMAIN p
            usages == [i \in D |-> WindowUsage(p[i], from, t)]
            result == Compute(w, quota, t, p)
<1>1. result.consumed = Total(usages, D) /\ result.over = (result.consumed >= quota)
  BY ComputeIs
<1>2. from \in Int
  BY DEF WindowStart, ZeroTime
<1>3. \A i \in D : usages[i] \in Nat
  BY <1>2, UsageNonNegative
<1>4. Total(usages, D) >= quota
  BY <1>1
<1>5. \A i \in D : usages[i] = WindowUsage(p[i], from, t)
  OBVIOUS
<1>6. IsFiniteSet(D)
  OBVIOUS
<1>. HIDE DEF usages, from, D
<1>7. ~\A i \in D : usages[i] = 0
  BY <1>4, <1>6, TotalZero
<1>. QED BY <1>3, <1>5, <1>7 DEF D, from

\* What the reconcile is about to write as over has its culprit.
LEMMA CulpritFound ==
    ASSUME \A spec \in Specs : spec.window <= MaxDuration, TypeOK, PodsInv, AdmittedInv
    PROVE  OverHasACulprit
<1>. SUFFICES ASSUME worker.pc = "write", worker.result.over
              PROVE  OverHasACulprit
  BY DEF OverHasACulprit
<1>1. PICK l, s, t, r : l = worker.listing /\ s = worker.obj.spec /\ t = worker.at /\ r = worker.result
  OBVIOUS
<1>2. /\ s \in Specs /\ t \in Int /\ worker.obj # NoBudget
      /\ s.quota \in Nat \ {0} /\ s.window \in 1..MaxDuration
  <2>1. IsBudget(worker.obj) /\ t \in Int
    BY <1>1 DEF TypeOK, IsWorker
  <2>2. s \in Specs /\ s.quota > 0 /\ s.window > 0
    BY <1>1, <2>1, BudgetExists DEF IsBudget, AdmittedInv, Allots
  <2>3. s.quota \in Int /\ s.window \in Int
    BY <2>2, SpecsAssumption
  <2>. QED BY <2>1, <2>2, <2>3, BudgetExists, DurationAssumption
<1>3. /\ DOMAIN l \in SUBSET Nat /\ IsFiniteSet(DOMAIN l)
      /\ \A n \in DOMAIN l : IsPod(l[n])
      /\ r = Verdict(s, l, t) /\ r.over
  BY <1>1, NamesAssumption DEF PodsInv, ListingInv
<1>. DEFINE length   == WindowDuration(s.window)
            from     == WindowStart(length, t)
            counted  == {n \in DOMAIN l : Accountable(l[n])}
            made     == [n \in counted |-> PodToAccounting(l[n])]
            usage(n) == WindowUsage(PodToAccounting(l[n]), from, t)
            using    == {n \in DOMAIN l : Accountable(l[n]) /\ usage(n) > 0}
<1>4. length = s.window /\ length \in Int /\ from = t - length /\ from \in Int
  BY <1>2, WindowAsWritten DEF WindowStart
<1>5. IsFiniteSet(DOMAIN made)
  BY <1>3, FS_Subset
<1>6. \A i \in DOMAIN made : made[i] \in AccountingPods
  BY <1>3, Converted
<1>7. Compute(length, s.quota, t, made).over
  BY <1>3 DEF Verdict
<1>8. \E i \in DOMAIN made : WindowUsage(made[i], from, t) > 0
  <2>. HIDE DEF length, made
  <2>. QED BY <1>2, <1>4, <1>5, <1>6, <1>7, OverIsUsed
<1>9. using # {}
  BY <1>8
<1>10. CASE \A n \in using : l[n].deletionTimestamp # None
  BY <1>1, <1>9, <1>10 DEF OverHasACulprit
<1>11. CASE \E n \in using : l[n].deletionTimestamp = None
  <2>1. Offenders(l, from, t) # {} /\ Offenders(l, from, t) \subseteq using
    BY <1>11 DEF Offenders
  <2>. HIDE DEF length, from, using
  <2>2. WorstOffender(l, from, t) \in using
    BY <1>2, <1>3, <1>4, <2>1, WorstIsChosen
  <2>3. WorstOffender(l, t - length, t) \in using
    BY <1>4, <2>2
  <2>. QED BY <1>1, <1>9, <2>3 DEF OverHasACulprit, using, from, length
<1>. QED BY <1>10, <1>11

\* As long as the webhook guards what is stored, and no window is longer than a
\* time.Duration, a budget found over has a pod that made it so, and an enforcer
\* has somebody to act on unless all of these are on their way out (Compute,
\* pickWorstOffender, validateSpec).
THEOREM CulpritExists ==
    ASSUME FailurePolicy = "Fail", \A spec \in Specs : spec.window <= MaxDuration
    PROVE  Spec => []OverHasACulprit
<1>. DEFINE IInv == TypeOK /\ HeldInv /\ PodsInv /\ AdmittedInv
<1>1. Init => IInv
  BY TypeInit, HeldInit, PodsInit, AdmittedInit
<1>2. IInv /\ [Next]_vars => IInv'
  BY TypeStep, HeldStep, PodsInvStep, AdmittedStep
<1>3. IInv => OverHasACulprit
  BY CulpritFound
<1>. QED BY <1>1, <1>2, <1>3, PTL DEF Spec

-----------------------------------------------------------------------------
(***************************************************************************)
(* The author of a pause.                                                  *)
(***************************************************************************)
PausesKept ==
    \A n \in PodNames :
        /\ pods[n] # None /\ pods'[n] # None /\ pods[n].uid = pods'[n].uid
        /\ pods[n].pausedBy # None
        => pods'[n].pausedBy = pods[n].pausedBy

\* A step that pauses nobody leaves the unpaused unpaused.
LEMMA StillUnpaused ==
    ASSUME NoPause, NEW n \in PodNames, Unpaused(pods[n])
    PROVE  Unpaused(pods'[n])
BY DEF NoPause, Unpaused, Paused

\* The pod enforced on is one of those listed.
LEMMA TargetListed ==
    ASSUME TypeOK, HeldInv, PodsInv, NEW fate, WriteStatus(fate), worker'.pc = "enforce"
    PROVE  /\ worker.pc = "write" /\ UNCHANGED pods
           /\ worker'.target.name \in DOMAIN worker.listing
           /\ worker'.target.pod = worker.listing[worker'.target.name]
<1>1. PICK o, w, l, t, patched :
        /\ o = budgets[Key] /\ w = worker /\ l = worker.listing /\ t = worker.at
        /\ patched = [budgets[Key] EXCEPT !.status =
                         MergePatch(@, worker.obj.status,
                                    ReconciledStatus(worker.obj, worker.result, worker.at))]
  OBVIOUS
<1>2. /\ worker.pc = "write" /\ UNCHANGED pods /\ Over(w, WorkerFields) /\ t \in Int
      /\ IsBudget(o)
  <2>1. worker.pc = "write" /\ UNCHANGED pods
    BY DEF WriteStatus
  <2>2. Key \in Budgets /\ budgets[Key] # NoBudget
    BY <2>1 DEF TypeOK, IsWorker, Key, HeldInv, WorkerInv, Held, Reconciling
  <2>. QED BY <1>1, <2>1, <2>2 DEF TypeOK, IsWorker, AreBudgets
<1>3. PICK g : g = WorthEnforcing(patched, worker.result, l, t)
  OBVIOUS
<1>4. worker' # Idle
  BY DEF Idle
<1>5. g # None /\ worker' = [w EXCEPT !.pc = "enforce", !.obj = patched, !.listing = None,
                                     !.target = [name |-> g, pod |-> l[g]]]
  BY <1>1, <1>3, <1>4 DEF WriteStatus, EndAndRequeue
<1>6. worker'.target = [name |-> g, pod |-> l[g]]
  BY <1>2, <1>5 DEF Over, WorkerFields
<1>7. patched.spec = o.spec
  BY <1>1, <1>2 DEF IsBudget, Over, BudgetFields
<1>8. PICK from : from = t - WindowDuration(patched.spec.window)
  OBVIOUS
<1>9. from \in Int
  <2>1. o.spec.window \in Int
    BY <1>2, SpecsAssumption DEF IsBudget
  <2>2. WindowDuration(o.spec.window) \in Int
    BY <2>1, WindowIsInt
  <2>. QED BY <1>2, <1>7, <1>8, <2>2
<1>10. g = WorstOffender(l, from, t)
  BY <1>3, <1>5, <1>8 DEF WorthEnforcing
<1>11. Offenders(l, from, t) # {}
  BY <1>5, <1>10 DEF WorstOffender
<1>12. /\ DOMAIN l \in SUBSET Nat /\ IsFiniteSet(DOMAIN l)
       /\ \A n \in DOMAIN l : IsPod(l[n])
  BY <1>1, <1>2, NamesAssumption DEF PodsInv, ListingInv
<1>13. g \in Offenders(l, from, t)
  BY <1>2, <1>9, <1>10, <1>11, <1>12, WorstIsChosen
<1>14. g \in DOMAIN l
  BY <1>13 DEF Offenders
<1>. QED BY <1>1, <1>2, <1>6, <1>14

\* PauseInv is inductive, and no pause is attributed anew.
LEMMA PauseStep ==
    ASSUME StaleReads = FALSE, TypeOK, HeldInv, PodsInv, PauseInv, [Next]_vars
    PROVE  PauseInv' /\ PausesKept
<1>1. ArePods(pods) /\ ArePods(pods')
  BY PodsStep DEF PodsInv
<1>2. CASE NoPause
  <2>1. PausesKept
    BY <1>2 DEF NoPause, PausesKept
  <2>2. CASE UNCHANGED worker
    <3>1. PICK w : w = worker /\ w = worker'
      BY <2>2
    <3>2. w.pc = "write" => DOMAIN w.listing \subseteq PodNames
      BY <3>1 DEF PodsInv, ListingInv
    <3>. QED BY <1>2, <2>1, <3>1, <3>2, StillUnpaused DEF PauseInv
  <2>3. CASE worker'.pc \notin {"write", "enforce"}
    BY <2>1, <2>3 DEF PauseInv
  <2>4. CASE List
    <3>1. podCache = pods /\ UNCHANGED pods
      BY <2>4 DEF List, PodsReadable, serverVars
    <3>2. /\ worker'.pc = "write"
          /\ \A n \in DOMAIN worker'.listing : worker'.listing[n] = pods'[n]
      BY <2>4, <3>1, Listed DEF PodsInv
    <3>. QED BY <2>1, <3>2 DEF PauseInv
  <2>5. ASSUME NEW fate \in Fates, WriteStatus(fate), worker'.pc = "enforce"
        PROVE  PauseInv'
    <3>1. PICK n, l : n = worker'.target.name /\ l = worker.listing
      OBVIOUS
    <3>2. worker.pc = "write" /\ n \in DOMAIN l /\ worker'.target.pod = l[n] /\ UNCHANGED pods
      BY <2>5, <3>1, TargetListed
    <3>3. n \in PodNames /\ (Unpaused(l[n]) => Unpaused(pods[n]))
      BY <3>1, <3>2 DEF PodsInv, ListingInv, PauseInv
    <3>. QED BY <2>5, <3>1, <3>2, <3>3 DEF PauseInv
  <2>. QED BY <2>1, <2>2, <2>3, <2>4, <2>5, WorkerMoves
<1>3. ASSUME NEW fate \in Fates, Pause(fate)
      PROVE  PauseInv' /\ PausesKept
  <2>1. PICK n, p : n = worker.target.name /\ p = pods[n]
    OBVIOUS
  <2>2. /\ worker.pc = "enforce" /\ ~Paused(worker.target.pod)
        /\ \/ UNCHANGED pods
           \/ p # None /\ pods' = [pods EXCEPT ![n] = [p EXCEPT !.pausedBy = Key]]
    BY <1>3, <2>1 DEF Pause, Dispatched
  <2>3. n \in PodNames /\ Unpaused(p)
    BY <2>1, <2>2 DEF PauseInv, Unpaused
  <2>4. \A m \in PodNames : m = n \/ pods'[m] = pods[m]
    BY <1>1, <2>2 DEF ArePods, Over
  <2>5. PausesKept
    BY <2>1, <2>3, <2>4 DEF PausesKept, Unpaused, Paused
  <2>6. worker' = Idle \/ worker' = [worker EXCEPT !.pc = "stamp", !.target = None]
    BY <1>3 DEF Pause, Enforced, EnforcerFailed, EndAndRequeue
  <2>7. worker'.pc \notin {"write", "enforce"}
    <3>1. CASE worker' = Idle
      BY <3>1 DEF Idle
    <3>2. CASE worker' # Idle
      BY <2>6, <3>2 DEF TypeOK, IsWorker, Over, WorkerFields
    <3>. QED BY <3>1, <3>2
  <2>. QED BY <2>5, <2>7 DEF PauseInv
<1>. QED BY <1>2, <1>3, PodsStep DEF PodsInv

\* With fresh reads a pause stays attributed to the budget that paused the pod first,
\* whichever budgets nominate it (pauser.Enforce).
THEOREM PauseAttributed ==
    ASSUME StaleReads = FALSE
    PROVE  Spec => PauseKeepsItsAuthor
<1>. DEFINE IInv == TypeOK /\ HeldInv /\ PodsInv /\ PauseInv
<1>1. Init => IInv
  <2>1. Init => PauseInv
    BY DEF Init, PauseInv, Idle
  <2>. QED BY <2>1, TypeInit, HeldInit, PodsInit
<1>2. IInv /\ [Next]_vars => IInv' /\ [PausesKept]_vars
  BY TypeStep, HeldStep, PodsInvStep, PauseStep
<1>3. Spec => [][PausesKept]_vars
  BY <1>1, <1>2, PTL DEF Spec
<1>. QED BY <1>3 DEF PausesKept, PauseKeepsItsAuthor
=============================================================================
