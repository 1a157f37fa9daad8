------------------------ MODULE BudgetFreshProofs --------------------------
(***************************************************************************)
(* With fresh reads the status is the last verdict, QuotaExceeded is a     *)
(* faithful clock and enforcement waits for the grace period of its own    *)
(* episode: FreshInv of BudgetInvariants is inductive.  And they implement *)
(* QuotaClock: the only step that turns a clock or lets enforcement begin  *)
(* is a write of the status, and it concludes what the reconcile found.    *)
(***************************************************************************)
EXTENDS BudgetClockProofs

\* What a budget's status n tells is what the status s told.
Agree(s, n) ==
    /\ n.consumed = s.consumed /\ n.remaining = s.remaining /\ n.tracked = s.tracked
    /\ n.conds.over = s.conds.over /\ n.conds.overAt = s.conds.overAt

\* A step that concludes nothing about any budget.
Quiet ==
    \A b \in Budgets : budgets'[b] # NoBudget =>
        \/ /\ budgets[b] # NoBudget
           /\ Agree(budgets[b].status, budgets'[b].status)
           /\ audit'[b].overSince = audit[b].overSince
           /\ audit'[b].verdict = audit[b].verdict
        \/ /\ budgets[b] = NoBudget
           /\ budgets'[b].status = EmptyStatus /\ audit'[b] = NoAudit

\* A step that writes no status.
Unwritten ==
    \A b \in Budgets : budgets[b] # NoBudget /\ budgets'[b] # NoBudget =>
        budgets'[b].status = budgets[b].status

-----------------------------------------------------------------------------
\* What is no later than an instant is no later than the next.
LEMMA TurnedLater ==
    ASSUME NEW s, IsStatus(s), NEW t \in Int, NEW u \in Int, t <= u, TurnedBy(s, t)
    PROVE  TurnedBy(s, u)
<1>1. Trunc(t) <= Trunc(u) /\ Trunc(t) \in Int /\ Trunc(u) \in Int
      BY TruncMonotone, TruncIsInt
<1> QED BY <1>1 DEF TurnedBy, IsStatus

\* A patch against the status the server still has is the status it was made for.
LEMMA FreshPatch ==
    ASSUME NEW s, IsStatus(s), NEW n, IsStatus(n)
    PROVE  MergePatch(s, s, n) = n
BY DEF MergePatch, IsStatus, Over

\* What is quiet keeps the records.
LEMMA RecordsKept ==
    ASSUME TypeOK, TypeOK', RecordsInv, Quiet, now' \in {now, now + 1}
    PROVE  RecordsInv'
<1> SUFFICES ASSUME NEW b \in Budgets, budgets'[b] # NoBudget
             PROVE  Tells(budgets'[b].status, audit'[b]) /\ TurnedBy(budgets'[b].status, now')
    BY DEF RecordsInv, Tells, TurnedBy
<1>1. CASE budgets'[b].status = EmptyStatus /\ audit'[b] = NoAudit
      <2>1. /\ EmptyStatus.conds.over = None /\ NoAudit.overSince = None
            /\ NoAudit.verdict = None
            BY DEF EmptyStatus, NoConditions, NoAudit
      <2>2. None # TRUE
            BY NoneAssumption
      <2> QED BY <1>1, <2>1, <2>2 DEF Tells, TurnedBy
<1>2. CASE /\ budgets[b] # NoBudget
           /\ Agree(budgets[b].status, budgets'[b].status)
           /\ audit'[b].overSince = audit[b].overSince
           /\ audit'[b].verdict = audit[b].verdict
      <2>1. PICK s, n : s = budgets[b].status /\ n = budgets'[b].status
            OBVIOUS
      <2>2. IsStatus(s) /\ IsStatus(n) /\ Agree(s, n)
            BY <1>2, <2>1 DEF TypeOK, AreBudgets, IsBudget
      <2>3. Tells(s, audit[b]) /\ TurnedBy(s, now)
            BY <1>2, <2>1 DEF RecordsInv
      <2>4. now \in Int /\ now' \in Int /\ now <= now'
            BY DEF TypeOK
      <2>5. TurnedBy(s, now')
            BY <2>2, <2>3, <2>4, TurnedLater
      <2>6. Tells(n, audit'[b])
            BY <1>2, <2>2, <2>3 DEF Agree, Tells
      <2> QED BY <2>1, <2>2, <2>5, <2>6 DEF Agree, TurnedBy
<1> QED BY <1>1, <1>2 DEF Quiet

\* A step with no status written and no history touched is quiet.
LEMMA QuietUntouched ==
    ASSUME Unwritten, UNCHANGED audit,
           \A b \in Budgets : budgets'[b] # NoBudget => budgets[b] # NoBudget
    PROVE  Quiet
BY DEF Unwritten, Quiet, Agree

\* An untouched server.
LEMMA QuietServer ==
    ASSUME UNCHANGED <<budgets, audit>>
    PROVE  Quiet /\ Unwritten
BY DEF Unwritten, Quiet, Agree

\* One budget replaced by one with the same status.
LEMMA UnwrittenSet ==
    ASSUME TypeOK, NEW b \in Budgets, NEW n, budgets' = [budgets EXCEPT ![b] = n],
           budgets[b] # NoBudget, n = NoBudget \/ n.status = budgets[b].status
    PROVE  Unwritten /\ \A c \in Budgets : budgets'[c] # NoBudget => budgets[c] # NoBudget
BY DEF Unwritten, TypeOK, AreBudgets, Over

-----------------------------------------------------------------------------
\* The invariant holds initially.
LEMMA FreshInit == Init => FreshInv
BY DEF Init, NoBudgets, Idle, FreshInv, RecordsInv, InHandInv, Reconciling

\* A step after which the worker is idle.
LEMMA FreshEnds ==
    ASSUME TypeOK, TypeOK', FreshInv, Quiet, now' \in {now, now + 1}, worker' = Idle
    PROVE  FreshInv'
<1>1. RecordsInv'
      BY RecordsKept DEF FreshInv
<1>2. InHandInv'
      BY DEF InHandInv, Idle, Reconciling
<1> QED BY <1>1, <1>2 DEF FreshInv

\* A reconcile that goes on with its object keeps the status in hand.
LEMMA HandKept ==
    ASSUME TypeOK, HeldInv, HeldInv', FreshInv, Unwritten,
           worker.pc \in Reconciling, worker'.pc \in Reconciling,
           worker'.key = worker.key, worker'.obj = worker.obj
    PROVE  budgets'[worker'.key].status = worker'.obj.status
<1>1. PICK k \in Budgets : k = worker.key /\ k = worker'.key
      BY DEF TypeOK, IsWorker, Reconciling
<1>2. budgets[k] # NoBudget /\ budgets'[k] # NoBudget
      BY <1>1 DEF HeldInv, WorkerInv, Held, Key
<1>3. budgets[k].status = worker.obj.status
      BY <1>1 DEF FreshInv, InHandInv, Key
<1> QED BY <1>1, <1>2, <1>3 DEF Unwritten

\* A step beside the worker.
LEMMA FreshAround ==
    ASSUME TypeOK, TypeOK', HeldInv, HeldInv', FreshInv, Quiet, Unwritten,
           now' \in {now, now + 1}, UNCHANGED worker
    PROVE  FreshInv'
<1>1. RecordsInv'
      BY RecordsKept DEF FreshInv
<1>2. worker.pc \in Reconciling => budgets'[worker'.key].status = worker'.obj.status
      BY HandKept
<1>3. InHandInv'
      BY <1>2 DEF FreshInv, InHandInv, Key, TurnedBy, GraceElapsed
<1> QED BY <1>1, <1>3 DEF FreshInv

\* Get takes in hand what the server holds.
LEMMA FreshGet ==
    ASSUME StaleReads = FALSE, TypeOK, TypeOK', HeldInv, HeldInv', FreshInv,
           NEW b \in Budgets, Get(b)
    PROVE  FreshInv'
<1>1. UNCHANGED <<now, budgets, audit>> /\ budgetCache[b] = budgets[b]
      BY DEF Get, BudgetReadable, serverVars
<1>2. Quiet /\ Unwritten
      BY <1>1, QuietServer
<1>3. CASE UNCHANGED worker
      BY <1>1, <1>2, <1>3, FreshAround
<1>4. CASE ~UNCHANGED worker
      <2>0. PICK obj : obj = budgets[b]
            OBVIOUS
      <2>1. PICK pc \in {"adopt", "remove", "list"} :
               worker' = [Idle EXCEPT !.pc = pc, !.key = b, !.obj = obj]
            BY <1>1, <1>4, <2>0 DEF Get
      <2>2. worker'.pc = pc /\ worker'.key = b /\ worker'.obj = obj
            BY <2>1 DEF Idle
      <2>3. InHandInv'
            BY <1>1, <2>0, <2>2 DEF InHandInv, Reconciling, Key
      <2>4. RecordsInv'
            BY <1>1, <1>2, RecordsKept DEF FreshInv
      <2> QED BY <2>3, <2>4 DEF FreshInv
<1> QED BY <1>3, <1>4

\* Adopt writes back the status it read.
LEMMA QuietAdopt ==
    ASSUME TypeOK, NEW fate, Adopt(fate)
    PROVE  Quiet
<1>1. /\ Key \in Budgets /\ IsBudget(worker.obj) /\ budgets[Key] = worker.obj
      /\ budgets[Key] # NoBudget /\ UNCHANGED audit
      BY BudgetExists DEF Adopt, Current, TypeOK, IsWorker, Key
<1>2. PICK adopted : adopted = [worker.obj EXCEPT !.finalizer = TRUE]
      OBVIOUS
<1>3. adopted.status = worker.obj.status
      BY <1>1, <1>2, FinalizerSet
<1>4. UNCHANGED budgets \/ budgets' = [budgets EXCEPT ![Key] = adopted]
      BY <1>2 DEF Adopt
<1> QED BY <1>1, <1>3, <1>4, UnwrittenSet, QuietUntouched, QuietServer

\* Adopt goes on with the object it made the server's.
LEMMA FreshAdopt ==
    ASSUME TypeOK, TypeOK', HeldInv, FreshInv, NEW fate, Adopt(fate)
    PROVE  FreshInv'
<1>1. Key \in Budgets /\ UNCHANGED <<now, audit>>
      BY DEF Adopt, TypeOK, IsWorker, Key
<1>2. PICK adopted : adopted = [worker.obj EXCEPT !.finalizer = TRUE]
      OBVIOUS
<1>3. Quiet
      BY QuietAdopt
<1>4. CASE fate # "ok"
      BY <1>1, <1>3, <1>4, FreshEnds DEF Adopt, EndAndRequeue
<1>5. CASE fate = "ok"
      <2>1. worker'.pc = "list" /\ worker'.key = Key /\ worker'.obj = adopted
            BY <1>2, <1>5 DEF Adopt, Key, TypeOK, IsWorker, Over, WorkerFields
      <2>2. budgets' = [budgets EXCEPT ![Key] = adopted]
            BY <1>2, <1>5 DEF Adopt, Applied
      <2>3. budgets'[Key] = adopted
            BY <1>1, <2>2 DEF TypeOK, AreBudgets, Over
      <2>4. InHandInv'
            BY <2>1, <2>3 DEF InHandInv, Reconciling, Key
      <2>5. RecordsInv'
            BY <1>1, <1>3, RecordsKept DEF FreshInv
      <2> QED BY <2>4, <2>5 DEF FreshInv
<1> QED BY <1>4, <1>5

\* Remove leaves the status it read, or no budget.
LEMMA FreshRemove ==
    ASSUME TypeOK, TypeOK', FreshInv, NEW fate, Remove(fate)
    PROVE  FreshInv'
<1> DEFINE n == WithoutFinalizer(worker.obj)
<1>1. /\ Key \in Budgets /\ IsBudget(worker.obj) /\ budgets[Key] = worker.obj
      /\ budgets[Key] # NoBudget /\ UNCHANGED <<now, audit>> /\ worker' = Idle
      BY BudgetExists DEF Remove, Current, EndAndRequeue, TypeOK, IsWorker, Key
<1>2. n = NoBudget \/ n.status = worker.obj.status
      BY <1>1, FinalizerSet DEF WithoutFinalizer
<1> HIDE DEF n
<1>3. UNCHANGED budgets \/ budgets' = [budgets EXCEPT ![Key] = n]
      BY DEF Remove, n
<1>4. Quiet
      BY <1>1, <1>2, <1>3, UnwrittenSet, QuietUntouched, QuietServer
<1> QED BY <1>1, <1>4, FreshEnds

\* List reads the clock that the next write will stamp with.
LEMMA FreshList ==
    ASSUME TypeOK, TypeOK', HeldInv, HeldInv', ClockInv, FreshInv, List
    PROVE  FreshInv'
<1>1. PICK result, listing :
         /\ worker' = [worker EXCEPT !.pc = "write", !.at = now,
                                     !.listing = listing, !.result = result]
         /\ audit' = IF result.over THEN [audit EXCEPT ![Key] = FoundOver(@, now)] ELSE audit
      BY DEF List
<1>2. /\ UNCHANGED <<now, budgets>> /\ Key \in Budgets /\ worker.pc = "list"
      BY DEF List, serverVars, TypeOK, IsWorker, Key
<1>3. /\ worker'.pc = "write" /\ worker'.key = worker.key /\ worker'.obj = worker.obj
      /\ worker'.at = now
      BY <1>1 DEF TypeOK, IsWorker, Over, WorkerFields
<1>4. ASSUME NEW b \in Budgets
      PROVE  audit'[b].overSince = audit[b].overSince /\ audit'[b].verdict = audit[b].verdict
      <2>1. PICK r : r = audit[b] /\ Over(r, AuditFields)
            BY DEF ClockInv, AuditInv
      <2>2. audit'[b] = r \/ audit'[b] = FoundOver(r, now)
            BY <1>1, <2>1 DEF TypeOK, Over
      <2>3. /\ FoundOver(r, now).overSince = r.overSince
            /\ FoundOver(r, now).verdict = r.verdict
            BY <2>1 DEF FoundOver, Over, AuditFields
      <2> QED BY <2>1, <2>2, <2>3
<1>5. Quiet /\ Unwritten
      BY <1>2, <1>4 DEF Quiet, Unwritten, Agree
<1>6. RecordsInv'
      BY <1>2, <1>5, RecordsKept DEF FreshInv
<1>7. budgets'[worker'.key].status = worker'.obj.status
      BY <1>2, <1>3, <1>5, HandKept DEF Reconciling
<1>8. PICK k \in Budgets : k = worker.key /\ budgets[k] # NoBudget /\ budgets[k].status = worker.obj.status
      BY <1>2 DEF Key, HeldInv, WorkerInv, Held, FreshInv, InHandInv, Reconciling
<1>9. TurnedBy(worker.obj.status, now)
      BY <1>8 DEF FreshInv, RecordsInv
<1>10. InHandInv'
      BY <1>2, <1>3, <1>7, <1>9 DEF InHandInv, Key, TurnedBy
<1> QED BY <1>6, <1>10 DEF FreshInv

\* One status written, by a patch against the status the server still has.
LEMMA FreshWrite ==
    ASSUME TypeOK, FreshInv, worker.pc \in Reconciling, Key \in Budgets,
           budgets[Key] # NoBudget, NEW s, IsStatus(s),
           budgets' = [budgets EXCEPT ![Key] =
              [budgets[Key] EXCEPT !.status = MergePatch(@, worker.obj.status, s)]]
    PROVE  /\ budgets'[Key].status = s
           /\ \A b \in Budgets : b # Key => budgets'[b] = budgets[b]
<1>1. PICK k, o : k = Key /\ o = budgets[k]
      OBVIOUS
<1>2. IsBudget(o) /\ o.status = worker.obj.status
      BY <1>1 DEF TypeOK, AreBudgets, FreshInv, InHandInv
<1>3. MergePatch(o.status, worker.obj.status, s) = s
      BY <1>2, FreshPatch DEF IsBudget
<1>4. [o EXCEPT !.status = MergePatch(@, worker.obj.status, s)] = [o EXCEPT !.status = s]
      BY <1>3
<1>5. [o EXCEPT !.status = s].status = s
      BY <1>2, StatusSet
<1>6. budgets' = [budgets EXCEPT ![k] = [o EXCEPT !.status = s]]
      BY <1>1, <1>4
<1>7. budgets'[k] = [o EXCEPT !.status = s] /\ \A b \in Budgets : b # k => budgets'[b] = budgets[b]
      <2> DEFINE n == [o EXCEPT !.status = s]
      <2> HIDE DEF n
      <2>1. budgets' = [budgets EXCEPT ![k] = n]
            BY <1>6 DEF n
      <2>2. budgets'[k] = n /\ \A b \in Budgets : b # k => budgets'[b] = budgets[b]
            BY <1>1, <2>1 DEF TypeOK, AreBudgets, Over
      <2> QED BY <2>2 DEF n
<1> QED BY <1>1, <1>5, <1>7

\* A failed listing keeps the object in hand.
LEMMA FreshListFails ==
    ASSUME TypeOK, TypeOK', HeldInv, HeldInv', FreshInv, ListFails
    PROVE  FreshInv'
<1>1. /\ worker.pc = "list" /\ worker'.pc = "degrade"
      /\ worker'.key = worker.key /\ worker'.obj = worker.obj
      /\ UNCHANGED <<now, budgets, audit>>
      BY DEF ListFails, TypeOK, IsWorker, Over, WorkerFields, serverVars
<1>2. Quiet /\ Unwritten
      BY <1>1, QuietServer
<1>3. RecordsInv'
      BY <1>1, <1>2, RecordsKept DEF FreshInv
<1>4. budgets'[worker'.key].status = worker'.obj.status
      BY <1>1, <1>2, HandKept DEF Reconciling
<1>5. InHandInv'
      BY <1>1, <1>4 DEF InHandInv, Key
<1> QED BY <1>3, <1>5 DEF FreshInv

\* Degrade touches neither the numbers nor the clock.
LEMMA QuietDegrade ==
    ASSUME TypeOK, HeldInv, FreshInv, NEW fate, Degrade(fate)
    PROVE  Quiet
<1> DEFINE s == DegradedStatus(worker.obj)
<1>1. /\ Key \in Budgets /\ IsBudget(worker.obj) /\ budgets[Key] # NoBudget
      /\ worker.pc = "degrade" /\ UNCHANGED audit
      BY DEF Degrade, TypeOK, IsWorker, Key, HeldInv, WorkerInv, Held, Reconciling
<1>2. IsStatus(s) /\ Agree(worker.obj.status, s)
      <2>1. IsStatus(s) /\ s.conds.over = worker.obj.status.conds.over
            /\ s.conds.overAt = worker.obj.status.conds.overAt
            BY <1>1, DegradedOK
      <2>2. /\ s.consumed = worker.obj.status.consumed
            /\ s.remaining = worker.obj.status.remaining
            /\ s.tracked = worker.obj.status.tracked
            BY <1>1 DEF DegradedStatus, IsBudget, IsStatus, Over, StatusFields
      <2> QED BY <2>1, <2>2 DEF Agree
<1>3. budgets[Key].status = worker.obj.status
      BY <1>1 DEF FreshInv, InHandInv, Reconciling
<1> HIDE DEF s
<1>4. \/ UNCHANGED budgets
      \/ budgets' = [budgets EXCEPT ![Key] =
              [budgets[Key] EXCEPT !.status = MergePatch(@, worker.obj.status, s)]]
      BY DEF Degrade, s
<1>5. CASE UNCHANGED budgets
      BY <1>1, <1>5, QuietServer
<1>6. CASE ~UNCHANGED budgets
      <2>1. /\ budgets'[Key].status = s
            /\ \A b \in Budgets : b # Key => budgets'[b] = budgets[b]
            BY <1>1, <1>2, <1>4, <1>6, FreshWrite DEF Reconciling
      <2> QED BY <1>1, <1>2, <1>3, <2>1 DEF Quiet, Agree
<1> QED BY <1>5, <1>6

\* The stamp of an enforcement touches neither the numbers nor the clock.
LEMMA QuietStamp ==
    ASSUME TypeOK, HeldInv, FreshInv, NEW fate, Stamp(fate)
    PROVE  Quiet
<1> DEFINE base == worker.obj.status
           s == [base EXCEPT !.lastEnforcementAt = Trunc(worker.at)]
<1>1. /\ Key \in Budgets /\ IsBudget(worker.obj) /\ budgets[Key] # NoBudget
      /\ worker.pc = "stamp" /\ UNCHANGED audit /\ worker.at \in Int
      BY DEF Stamp, TypeOK, IsWorker, Key, HeldInv, WorkerInv, Held, Reconciling
<1>2. IsStatus(s) /\ Agree(base, s)
      <2>1. Trunc(worker.at) \in Int
            BY <1>1, TruncIsInt
      <2>2. IsStatus(s) /\ s.conds = base.conds
            BY <1>1, <2>1, StampedOK DEF IsBudget
      <2>3. s.consumed = base.consumed /\ s.remaining = base.remaining /\ s.tracked = base.tracked
            BY <1>1 DEF IsBudget, IsStatus, Over, StatusFields
      <2> QED BY <2>2, <2>3 DEF Agree
<1>3. budgets[Key].status = base
      BY <1>1 DEF FreshInv, InHandInv, Reconciling
<1> HIDE DEF s
<1>4. \/ UNCHANGED budgets
      \/ budgets' = [budgets EXCEPT ![Key] =
              [budgets[Key] EXCEPT !.status = MergePatch(@, worker.obj.status, s)]]
      BY DEF Stamp, s
<1>5. CASE UNCHANGED budgets
      BY <1>1, <1>5, QuietServer
<1>6. CASE ~UNCHANGED budgets
      <2>1. /\ budgets'[Key].status = s
            /\ \A b \in Budgets : b # Key => budgets'[b] = budgets[b]
            BY <1>1, <1>2, <1>4, <1>6, FreshWrite DEF Reconciling
      <2> QED BY <1>1, <1>2, <1>3, <2>1 DEF Quiet, Agree
<1> QED BY <1>5, <1>6

\* The numbers that writeStatus writes.
LEMMA ReconciledNumbers ==
    ASSUME NEW o, IsBudget(o), NEW result, NEW t
    PROVE  LET s == ReconciledStatus(o, result, t)
           IN  /\ s.consumed = GpuHoursToQuantity(result.consumed)
               /\ s.remaining = GpuHoursToQuantity(result.remaining)
               /\ s.tracked = result.tracked
BY DEF ReconciledStatus, IsBudget, IsStatus, Over, StatusFields

\* What a history keeps of a conclusion.
LEMMA ConcludedSays ==
    ASSUME NEW r, Over(r, AuditFields), NEW result, NEW t
    PROVE  LET n == Concluded(r, result, t)
           IN  /\ n.verdict = [consumed  |-> GpuHoursToQuantity(result.consumed),
                               remaining |-> GpuHoursToQuantity(result.remaining),
                               tracked   |-> result.tracked, over |-> result.over]
               /\ n.overSince = IF ~result.over THEN None
                                ELSE IF r.overSince = None THEN t ELSE r.overSince
BY DEF Concluded, Over, AuditFields

\* A write that follows what the history says tells what it says next.
LEMMA Follows ==
    ASSUME NEW o, IsBudget(o), NEW result, result.over \in BOOLEAN, NEW t \in Int,
           NEW r, Over(r, AuditFields), Tells(o.status, r), TurnedBy(o.status, t)
    PROVE  LET s == ReconciledStatus(o, result, t)
           IN  Tells(s, Concluded(r, result, t)) /\ TurnedBy(s, t)
<1>1. PICK s, c, n :
         /\ s = ReconciledStatus(o, result, t)
         /\ c = o.status.conds
         /\ n = Concluded(r, result, t)
      OBVIOUS
<1>2. /\ s.conds.over = result.over
      /\ s.conds.overAt = IF c.over = result.over THEN c.overAt ELSE Trunc(t)
      /\ s.consumed = GpuHoursToQuantity(result.consumed)
      /\ s.remaining = GpuHoursToQuantity(result.remaining)
      /\ s.tracked = result.tracked
      BY <1>1, ReconciledOK, ReconciledNumbers
<1>3. /\ n.verdict = [consumed  |-> GpuHoursToQuantity(result.consumed),
                      remaining |-> GpuHoursToQuantity(result.remaining),
                      tracked   |-> result.tracked, over |-> result.over]
      /\ n.overSince = IF ~result.over THEN None
                       ELSE IF r.overSince = None THEN t ELSE r.overSince
      BY <1>1, ConcludedSays
<1>4. None # TRUE /\ None # FALSE /\ t # None
      BY NoneAssumption
<1>5. /\ (c.over = TRUE) = (r.overSince # None)
      /\ c.over = TRUE => c.overAt = Trunc(r.overSince)
      /\ c.over # None => c.overAt <= Trunc(t)
      BY <1>1 DEF Tells, TurnedBy
<1>6. TurnedBy(s, t)
      <2>1. Trunc(t) \in Int
            BY TruncIsInt
      <2>2. CASE c.over = result.over
            BY <1>2, <1>4, <1>5, <2>2 DEF TurnedBy
      <2>3. CASE c.over # result.over
            BY <1>2, <2>1, <2>3 DEF TurnedBy
      <2> QED BY <2>2, <2>3
<1>7. /\ s.consumed = n.verdict.consumed /\ s.remaining = n.verdict.remaining
      /\ s.tracked = n.verdict.tracked /\ s.conds.over = n.verdict.over
      BY <1>2, <1>3
<1>8. (s.conds.over = TRUE) = (n.overSince # None)
      <2>1. CASE result.over = TRUE
            BY <1>2, <1>3, <1>4, <2>1
      <2>2. CASE result.over = FALSE
            BY <1>2, <1>3, <1>4, <2>2
      <2> QED BY <2>1, <2>2
<1>9. ASSUME s.conds.over = TRUE
      PROVE  s.conds.overAt = Trunc(n.overSince)
      <2>1. result.over = TRUE
            BY <1>2, <1>9
      <2>2. CASE c.over = TRUE
            BY <1>2, <1>3, <1>5, <2>1, <2>2
      <2>3. CASE c.over # TRUE
            BY <1>2, <1>3, <1>5, <2>1, <2>3
      <2> QED BY <2>2, <2>3
<1>10. Tells(s, n)
      BY <1>7, <1>8, <1>9 DEF Tells
<1> QED BY <1>1, <1>6, <1>10

\* WriteStatus adds the verdict in hand to the status it was computed for.
LEMMA FreshWriteStatus ==
    ASSUME TypeOK, TypeOK', HeldInv, ClockInv, FreshInv, NEW fate, WriteStatus(fate)
    PROVE  FreshInv'
<1>1. /\ Key \in Budgets /\ IsBudget(worker.obj) /\ budgets[Key] # NoBudget
      /\ worker.pc = "write" /\ now' = now /\ now \in Nat
      /\ worker.at \in 0..now /\ worker.result.over \in BOOLEAN
      BY DEF WriteStatus, TypeOK, IsWorker, Key, HeldInv, WorkerInv, Held, Reconciling
<1>2. PICK k, o, w, result, t, r, s, patched :
         /\ k = Key /\ o = budgets[k] /\ w = worker.obj
         /\ result = worker.result /\ t = worker.at /\ r = audit[k]
         /\ s = ReconciledStatus(w, result, t)
         /\ patched = [o EXCEPT !.status = MergePatch(@, w.status, s)]
      OBVIOUS
<1>3. /\ IsBudget(o) /\ o.status = w.status /\ Over(r, AuditFields)
      /\ Tells(w.status, r) /\ TurnedBy(w.status, t) /\ t \in Int /\ t <= now
      BY <1>1, <1>2 DEF TypeOK, AreBudgets, FreshInv, RecordsInv, InHandInv, Reconciling,
                        ClockInv, AuditInv
<1>4. IsStatus(s) /\ Tells(s, Concluded(r, result, t)) /\ TurnedBy(s, t)
      BY <1>1, <1>2, <1>3, ReconciledOK, Follows
<1>5. CASE UNCHANGED <<budgets, audit>> /\ worker' = Idle
      BY <1>1, <1>5, QuietServer, FreshEnds
<1>6. CASE ~(UNCHANGED <<budgets, audit>> /\ worker' = Idle)
      <2>1. /\ budgets' = [budgets EXCEPT ![k] = patched]
            /\ audit' = [audit EXCEPT ![k] = Concluded(r, result, t)]
            BY <1>1, <1>2, <1>6 DEF WriteStatus, EndAndRequeue, Applied
      <2>2. /\ budgets'[k].status = s
            /\ \A b \in Budgets : b # k => budgets'[b] = budgets[b]
            <3>1. budgets' = [budgets EXCEPT ![Key] =
                     [budgets[Key] EXCEPT !.status = MergePatch(@, worker.obj.status, s)]]
                  BY <1>2, <2>1
            <3>2. worker.pc \in Reconciling
                  BY <1>1 DEF Reconciling
            <3> HIDE <1>6, <2>1
            <3> QED BY <1>1, <1>2, <1>4, <3>1, <3>2, FreshWrite
      <2>3. /\ audit'[k] = Concluded(r, result, t)
            /\ \A b \in Budgets : b # k => audit'[b] = audit[b]
            BY <1>1, <1>2, <2>1 DEF TypeOK, Over
      <2>4. TurnedBy(s, now)
            BY <1>1, <1>3, <1>4, TurnedLater
      <2>5. RecordsInv'
            <3> SUFFICES ASSUME NEW b \in Budgets, budgets'[b] # NoBudget
                         PROVE  Tells(budgets'[b].status, audit'[b])
                                /\ TurnedBy(budgets'[b].status, now')
                BY DEF RecordsInv, Tells, TurnedBy
            <3>1. CASE b = k
                  BY <1>1, <1>4, <2>2, <2>3, <2>4, <3>1
            <3>2. CASE b # k
                  BY <1>1, <2>2, <2>3, <3>2 DEF FreshInv, RecordsInv
            <3> QED BY <3>1, <3>2
      <2>6. CASE worker' = Idle
            BY <2>5, <2>6 DEF FreshInv, InHandInv, Idle, Reconciling
      <2>7. CASE worker' # Idle
            <3>1. /\ WorthEnforcing(patched, result, worker.listing, t) # None
                  /\ \E l, g : worker' = [worker EXCEPT !.pc = "enforce", !.obj = patched,
                                                        !.listing = l, !.target = g]
                  BY <1>1, <1>2, <2>7 DEF WriteStatus, EndAndRequeue
            <3>2. /\ worker'.pc = "enforce" /\ worker'.key = k /\ worker'.obj = patched
                  /\ worker'.at = t
                  BY <1>2, <3>1 DEF Key, TypeOK, IsWorker, Over, WorkerFields
            <3>3. budgets'[k] = patched
                  BY <1>1, <1>2, <2>1 DEF TypeOK, AreBudgets, Over
            <3>4. GraceElapsed(patched, t)
                  BY <3>1 DEF WorthEnforcing
            <3>5. InHandInv'
                  BY <1>4, <2>2, <3>2, <3>3, <3>4 DEF InHandInv, Key, TurnedBy, GraceElapsed
            <3> QED BY <2>5, <3>5 DEF FreshInv
      <2> QED BY <2>6, <2>7
<1> QED BY <1>5, <1>6

\* The enforcers leave budgets and histories alone.
LEMMA FreshEnforce ==
    ASSUME TypeOK, TypeOK', HeldInv, HeldInv', FreshInv, NEW fate, NEW blocked,
           Alert \/ Evict(fate, blocked) \/ AlreadyPaused \/ Pause(fate)
    PROVE  FreshInv'
<1>1. /\ UNCHANGED <<now, budgets, audit>>
      /\ worker.pc = "enforce" /\ (Enforced \/ EnforcerFailed)
      BY DEF Alert, Evict, AlreadyPaused, Pause, Dispatched, serverVars
<1>2. Quiet /\ Unwritten
      BY <1>1, QuietServer
<1>3. CASE Enforced
      <2>1. worker'.pc = "stamp" /\ worker'.key = worker.key /\ worker'.obj = worker.obj
            BY <1>3 DEF Enforced, TypeOK, IsWorker, Over, WorkerFields
      <2>2. budgets'[worker'.key].status = worker'.obj.status
            BY <1>1, <1>2, <2>1, HandKept DEF Reconciling
      <2>3. InHandInv'
            BY <2>1, <2>2 DEF InHandInv, Key
      <2>4. RecordsInv'
            BY <1>1, <1>2, RecordsKept DEF FreshInv
      <2> QED BY <2>3, <2>4 DEF FreshInv
<1>4. CASE EnforcerFailed
      BY <1>1, <1>2, <1>4, FreshEnds DEF EnforcerFailed, EndAndRequeue
<1> QED BY <1>1, <1>3, <1>4

\* A new budget has no status and no history; nothing else users do touches one.
LEMMA QuietUsers ==
    ASSUME TypeOK, Users
    PROVE  Quiet /\ Unwritten
<1>1. ASSUME NEW b \in Budgets, NEW spec \in Specs, CreateBudget(b, spec)
      PROVE  Quiet /\ Unwritten
      <2>1. PICK n : n = NewBudget(budgetsMade + 1, spec)
            OBVIOUS
      <2>2. n.status = EmptyStatus
            BY <2>1 DEF NewBudget
      <2>3. budgets' = [budgets EXCEPT ![b] = n] /\ budgets[b] = NoBudget
            BY <1>1, <2>1 DEF CreateBudget
      <2>4. budgets'[b] = n /\ \A c \in Budgets : c # b => budgets'[c] = budgets[c]
            BY <2>3 DEF TypeOK, AreBudgets, Over
      <2>5. audit'[b] = NoAudit /\ \A c \in Budgets : c # b => audit'[c] = audit[c]
            BY <1>1 DEF CreateBudget, TypeOK, Over
      <2> QED BY <2>2, <2>3, <2>4, <2>5 DEF Quiet, Unwritten, Agree
<1>2. ASSUME UNCHANGED audit, NEW b \in Budgets, budgets[b] # NoBudget, NEW n,
             budgets' = [budgets EXCEPT ![b] = n],
             n = NoBudget \/ n.status = budgets[b].status
      PROVE  Quiet /\ Unwritten
      BY <1>2, UnwrittenSet, QuietUntouched
<1>3. ASSUME NEW b \in Budgets, NEW spec \in Specs, EditSpec(b, spec)
      PROVE  Quiet /\ Unwritten
      <2>1. IsBudget(budgets[b]) /\ budgets[b] # NoBudget
            BY <1>3 DEF EditSpec, TypeOK, AreBudgets
      <2>2. PICK n : n = [budgets[b] EXCEPT !.spec = spec, !.gen = @ + 1]
            OBVIOUS
      <2>3. n.status = budgets[b].status
            BY <2>1, <2>2, SpecSet
      <2> QED BY <1>2, <1>3, <2>1, <2>2, <2>3 DEF EditSpec
<1>4. ASSUME NEW b \in Budgets, NEW cascade \in CascadeModes, DeleteBudget(b, cascade)
      PROVE  Quiet /\ Unwritten
      <2>1. IsBudget(budgets[b]) /\ budgets[b] # NoBudget /\ cascade \in BOOLEAN
            BY <1>4, SwitchAssumption DEF DeleteBudget, TypeOK, AreBudgets
      <2>2. PICK n : n = [budgets[b] EXCEPT !.deleting = TRUE, !.foreign = cascade]
            OBVIOUS
      <2>3. n.status = budgets[b].status
            BY <2>1, <2>2, DeletionSet
      <2>4. /\ \/ budgets' = [budgets EXCEPT ![b] = n]
               \/ budgets' = [budgets EXCEPT ![b] = NoBudget]
            /\ UNCHANGED audit
            BY <1>4, <2>2 DEF DeleteBudget
      <2> QED BY <1>2, <2>1, <2>3, <2>4
<1>5. ASSUME NEW b \in Budgets, ForeignDone(b)
      PROVE  Quiet /\ Unwritten
      <2>1. IsBudget(budgets[b]) /\ budgets[b] # NoBudget
            BY <1>5 DEF ForeignDone, TypeOK, AreBudgets
      <2>2. PICK n : n = [budgets[b] EXCEPT !.foreign = FALSE]
            OBVIOUS
      <2>3. n.status = budgets[b].status
            BY <2>1, <2>2, ForeignSet
      <2>4. /\ \/ budgets' = [budgets EXCEPT ![b] = n]
               \/ budgets' = [budgets EXCEPT ![b] = NoBudget]
            /\ UNCHANGED audit
            BY <1>5, <2>2 DEF ForeignDone
      <2> QED BY <1>2, <2>1, <2>3, <2>4
<1> QED BY <1>1, <1>3, <1>4, <1>5 DEF Users

-----------------------------------------------------------------------------
\* FreshInv is inductive, relative to the other invariants, as long as reads are
\* fresh.
LEMMA FreshStep ==
    ASSUME StaleReads = FALSE
    PROVE  /\ TypeOK /\ TypeOK' /\ HeldInv /\ HeldInv' /\ ClockInv /\ FreshInv /\ [Next]_vars
           => FreshInv'
<1> SUFFICES ASSUME TypeOK, TypeOK', HeldInv, HeldInv', ClockInv, FreshInv, [Next]_vars
             PROVE  FreshInv'
    OBVIOUS
<1>1. CASE Refused
      BY <1>1, QuietServer, FreshEnds DEF Refused, EndAndRequeue, serverVars
<1>2. CASE Work
      <2>1. ASSUME NEW fate, Degrade(fate) \/ Stamp(fate)
            PROVE  FreshInv'
            BY <2>1, QuietDegrade, QuietStamp, FreshEnds DEF Degrade, Stamp, EndAndRequeue
      <2> QED BY <1>1, <1>2, <2>1, FreshAdopt, FreshRemove, FreshList, FreshListFails,
                 FreshWriteStatus, FreshEnforce DEF Work, Call
<1>3. CASE Users
      BY <1>3, QuietUsers, FreshAround
         DEF Users, CreateBudget, EditSpec, DeleteBudget, ForeignDone, operatorVars
<1>4. ASSUME NEW b \in Budgets, SyncBudget(b)
      PROVE  FreshInv'
      BY <1>4, QuietServer, FreshAround DEF SyncBudget, serverVars
<1>5. ASSUME NEW n \in PodNames, SyncPod(n)
      PROVE  FreshInv'
      BY <1>5, QuietServer, FreshAround DEF SyncPod, serverVars
<1>6. CASE Start
      BY <1>6, QuietServer, FreshAround DEF Start, serverVars
<1>7. CASE Crash
      BY <1>7, QuietServer, FreshEnds DEF Crash, serverVars
<1>8. CASE Kubelet \/ Tick \/ UNCHANGED vars
      <2>1. UNCHANGED <<budgets, worker, audit>> /\ now' \in {now, now + 1}
            <3>1. CASE Kubelet
                  BY <3>1 DEF Kubelet, CreatePod, StartPod, FinishPod, DeletePod, CollectPod,
                              OnPod, operatorVars
            <3>2. CASE Tick \/ UNCHANGED vars
                  BY <3>2 DEF Tick, vars, serverVars, operatorVars
            <3> QED BY <1>8, <3>1, <3>2
      <2> QED BY <2>1, QuietServer, FreshAround
<1> QED BY <1>2, <1>3, <1>4, <1>5, <1>6, <1>7, <1>8, FreshGet DEF Next, Manager

\* With fresh reads each write adds to what the one before it concluded.
THEOREM FreshAlways == ASSUME StaleReads = FALSE PROVE Spec => []FreshInv
<1>1. Init => TypeOK /\ HeldInv /\ ClockInv /\ FreshInv
      BY TypeInit, HeldInit, ClockInit, FreshInit
<1>2. TypeOK /\ HeldInv /\ ClockInv /\ FreshInv /\ [Next]_vars
      => (TypeOK /\ HeldInv /\ ClockInv /\ FreshInv)'
      BY TypeStep, HeldStep, ClockStep, FreshStep
<1> QED BY <1>1, <1>2, PTL DEF Spec

\* With fresh reads QuotaExceeded is a faithful clock of over-quota episodes, through
\* crashes, lost answers, Degraded periods and edits (writeStatus).
THEOREM ClockFaithful == ASSUME StaleReads = FALSE PROVE Spec => []GraceClockFaithful
<1>1. FreshInv => GraceClockFaithful
      BY DEF FreshInv, RecordsInv, Tells, GraceClockFaithful
<1> QED BY <1>1, FreshAlways, PTL

\* With fresh reads the status is that of the last write, whole (writeStatus).
THEOREM LastVerdict == ASSUME StaleReads = FALSE PROVE Spec => []StatusIsLastVerdict
<1>1. FreshInv => StatusIsLastVerdict
      BY DEF FreshInv, RecordsInv, Tells, StatusIsLastVerdict
<1> QED BY <1>1, FreshAlways, PTL

\* With fresh reads enforcement waits for the grace period of the current episode
\* over quota, not of an earlier one (maybeEnforce).
THEOREM EpisodeWaits == ASSUME StaleReads = FALSE PROVE Spec => []GraceOfThisEpisode
<1>1. TypeOK /\ HeldInv /\ FreshInv => GraceOfThisEpisode
      <2> SUFFICES ASSUME TypeOK, HeldInv, FreshInv, worker.pc = "enforce"
                   PROVE  /\ audit[Key].overSince # None
                          /\ worker.at >= Trunc(audit[Key].overSince) + Seconds(worker.obj.spec.grace)
          BY DEF GraceOfThisEpisode
      <2>1. PICK s : s = worker.obj.status
            OBVIOUS
      <2>2. Key \in Budgets /\ budgets[Key] # NoBudget /\ budgets[Key].status = s
            BY <2>1 DEF TypeOK, IsWorker, Key, HeldInv, WorkerInv, Held, FreshInv, InHandInv,
                        Reconciling
      <2>3. Tells(s, audit[Key])
            BY <2>2 DEF FreshInv, RecordsInv
      <2>4. s.conds.over = TRUE /\ worker.at >= s.conds.overAt + Seconds(worker.obj.spec.grace)
            BY <2>1 DEF FreshInv, InHandInv, GraceElapsed
      <2> QED BY <2>3, <2>4 DEF Tells
<1> QED BY <1>1, FreshAlways, TypeCorrect, HeldAlways, PTL

-----------------------------------------------------------------------------
(***************************************************************************)
(* The clock of QuotaExceeded.                                             *)
(***************************************************************************)
clocks == [b \in Budgets |-> ClockOf(budgets[b])]
acting == IF worker.pc = "enforce" THEN Key ELSE None

ClockSteps == Clock!Next \/ UNCHANGED <<now, clocks, acting>>

-----------------------------------------------------------------------------
\* The clock of a budget as its status tells it.
LEMMA ClockIs ==
    ASSUME NEW o, IsBudget(o)
    PROVE  ClockOf(o) = [exists |-> TRUE,
                         over   |-> o.status.conds.over,
                         at     |-> IF o.status.conds.over = None THEN None
                                    ELSE o.status.conds.overAt]
BY BudgetExists DEF ClockOf

LEMMA ClockAbsent == ClockOf(NoBudget) = Clock!Absent
BY DEF ClockOf, Clock!Absent

\* Budgets with the same status of QuotaExceeded show the same clock.
LEMMA ClockSame ==
    ASSUME NEW o, IsBudget(o), NEW n, IsBudget(n), Agree(o.status, n.status)
    PROVE  ClockOf(n) = ClockOf(o)
BY ClockIs DEF Agree

\* A step that turns no clock and begins no enforcement.
LEMMA NothingTurns ==
    ASSUME UNCHANGED now, \A b \in Budgets : ClockOf(budgets'[b]) = ClockOf(budgets[b]),
           acting' = acting \/ acting' = None
    PROVE  ClockSteps
<1>1. clocks' = clocks
      BY DEF clocks
<1>2. CASE acting' = acting
      BY <1>1, <1>2 DEF ClockSteps
<1>3. CASE acting' = None
      <2>1. Clock!Finish
            BY <1>1, <1>3 DEF Clock!Finish, clocks, acting
      <2> QED BY <2>1 DEF ClockSteps, Clock!Next
<1> QED BY <1>2, <1>3

\* The disappearance of one budget.
LEMMA OneDrops ==
    ASSUME TypeOK, UNCHANGED <<now, acting>>, NEW b \in Budgets, budgets[b] # NoBudget,
           budgets' = [budgets EXCEPT ![b] = NoBudget]
    PROVE  ClockSteps
<1>1. \A c \in Budgets : budgets'[c] = IF c = b THEN NoBudget ELSE budgets[c]
      BY DEF TypeOK, AreBudgets, Over
<1>2. clocks' = [clocks EXCEPT ![b] = Clock!Absent]
      <2>1. \A c \in Budgets : ClockOf(budgets'[c]) =
               IF c = b THEN Clock!Absent ELSE ClockOf(budgets[c])
            BY <1>1, ClockAbsent
      <2> QED BY <2>1 DEF clocks
<1>3. clocks[b].exists = TRUE
      BY DEF clocks, ClockOf
<1>4. Clock!Drop(b)
      BY <1>2, <1>3 DEF Clock!Drop, clocks, acting
<1> QED BY <1>4 DEF ClockSteps, Clock!Next

\* A quiet step turns no clock, unless a budget is gone or new.
LEMMA QuietTurnsNothing ==
    ASSUME TypeOK, TypeOK', Quiet,
           \A b \in Budgets : (budgets'[b] = NoBudget) = (budgets[b] = NoBudget)
    PROVE  \A b \in Budgets : ClockOf(budgets'[b]) = ClockOf(budgets[b])
<1> SUFFICES ASSUME NEW b \in Budgets
             PROVE  ClockOf(budgets'[b]) = ClockOf(budgets[b])
    OBVIOUS
<1>1. CASE budgets[b] = NoBudget
      BY <1>1
<1>2. CASE budgets[b] # NoBudget /\ Agree(budgets[b].status, budgets'[b].status)
      BY <1>2, ClockSame DEF TypeOK, AreBudgets
<1> QED BY <1>1, <1>2 DEF Quiet

\* A budget gone, or one with the same status in its place.
LEMMA ClockSet ==
    ASSUME TypeOK, TypeOK', UNCHANGED <<now, acting>>, NEW b \in Budgets, NEW n,
           budgets' = [budgets EXCEPT ![b] = n], budgets[b] # NoBudget,
           n = NoBudget \/ n.status = budgets[b].status
    PROVE  ClockSteps
<1>1. CASE n = NoBudget
      BY <1>1, OneDrops
<1>2. CASE n # NoBudget
      <2>1. \A c \in Budgets : budgets'[c] = IF c = b THEN n ELSE budgets[c]
            BY DEF TypeOK, AreBudgets, Over
      <2>2. IsBudget(n) /\ IsBudget(budgets[b])
            BY <1>2, <2>1 DEF TypeOK, AreBudgets
      <2>3. ClockOf(n) = ClockOf(budgets[b])
            BY <1>2, <2>2, ClockSame DEF Agree
      <2> QED BY <2>1, <2>3, NothingTurns
<1> QED BY <1>1, <1>2

-----------------------------------------------------------------------------
\* A quiet step of a reconcile.
LEMMA ClockQuietly ==
    ASSUME TypeOK, TypeOK', UNCHANGED now, Quiet, acting' = acting \/ acting' = None,
           \A b \in Budgets : (budgets'[b] = NoBudget) = (budgets[b] = NoBudget)
    PROVE  ClockSteps
BY QuietTurnsNothing, NothingTurns

\* Adopt, Degrade and Stamp neither conclude nor begin to enforce.
LEMMA ClockPatches ==
    ASSUME TypeOK, TypeOK', HeldInv, FreshInv, NEW fate,
           Adopt(fate) \/ Degrade(fate) \/ Stamp(fate)
    PROVE  ClockSteps
<1>1. /\ UNCHANGED now /\ Key \in Budgets /\ acting' = None
      <2>1. worker' = Idle \/ worker'.pc = "list"
            <3>1. CASE Adopt(fate)
                  BY <3>1 DEF Adopt, EndAndRequeue, TypeOK, IsWorker, Over, WorkerFields
            <3>2. CASE Degrade(fate) \/ Stamp(fate)
                  BY <3>2 DEF Degrade, Stamp, EndAndRequeue
            <3> QED BY <3>1, <3>2
      <2>2. acting' = None
            BY <2>1 DEF acting, Idle
      <2>3. worker.pc # "idle" /\ UNCHANGED now
            BY DEF Adopt, Degrade, Stamp
      <2> QED BY <2>2, <2>3 DEF TypeOK, IsWorker, Key
<1>2. Quiet
      BY QuietAdopt, QuietDegrade, QuietStamp
<1>3. budgets[Key] # NoBudget
      <2>1. CASE Adopt(fate)
            BY <2>1, BudgetExists DEF Adopt, Current, TypeOK, IsWorker, Key
      <2>2. CASE Degrade(fate) \/ Stamp(fate)
            BY <2>2 DEF Degrade, Stamp, HeldInv, WorkerInv, Held, Reconciling
      <2> QED BY <2>1, <2>2
<1>4. \A b \in Budgets : b # Key => budgets'[b] = budgets[b]
      BY <1>1 DEF Adopt, Degrade, Stamp, TypeOK, AreBudgets, Over
<1>5. budgets'[Key] # NoBudget
      <2>1. CASE Adopt(fate)
            <3> DEFINE n == [worker.obj EXCEPT !.finalizer = TRUE]
            <3>1. IsBudget(n) /\ n # NoBudget
                  BY <2>1, FinalizerSet, BudgetExists DEF Adopt, TypeOK, IsWorker
            <3> HIDE DEF n
            <3>2. budgets' = budgets \/ budgets' = [budgets EXCEPT ![Key] = n]
                  BY <2>1 DEF Adopt, n
            <3> QED BY <1>1, <1>3, <3>1, <3>2 DEF TypeOK, AreBudgets, Over
      <2>2. CASE Degrade(fate) \/ Stamp(fate)
            BY <1>1, <2>2, GentleDegrade, GentleStamp, HeldKept DEF Held, Degrade, Stamp, HeldInv, WorkerInv, Reconciling
      <2> QED BY <2>1, <2>2
<1> QED BY <1>1, <1>2, <1>3, <1>4, <1>5, ClockQuietly

\* Remove drops a budget, or leaves its status.
LEMMA ClockRemoves ==
    ASSUME TypeOK, TypeOK', NEW fate, Remove(fate)
    PROVE  ClockSteps
<1> DEFINE n == WithoutFinalizer(worker.obj)
<1>1. /\ Key \in Budgets /\ IsBudget(worker.obj) /\ budgets[Key] = worker.obj
      /\ budgets[Key] # NoBudget /\ UNCHANGED now
      /\ worker.pc = "remove" /\ worker' = Idle
      BY BudgetExists DEF Remove, Current, EndAndRequeue, TypeOK, IsWorker, Key
<1>2. acting' = acting
      BY <1>1 DEF acting, Idle
<1>3. n = NoBudget \/ n.status = worker.obj.status
      BY <1>1, FinalizerSet DEF WithoutFinalizer
<1> HIDE DEF n
<1>4. UNCHANGED budgets \/ budgets' = [budgets EXCEPT ![Key] = n]
      BY DEF Remove, n
<1> QED BY <1>1, <1>2, <1>3, <1>4, ClockSet, NothingTurns

-----------------------------------------------------------------------------
\* The second of an instant is no later.
LEMMA TruncBelow ==
    ASSUME NEW t \in Nat
    PROVE  Trunc(t) \in 0..t
<1>1. Trunc(0) <= Trunc(t) /\ Trunc(t) \in Int
      BY TruncMonotone, TruncIsInt
<1>2. Trunc(0) = 0
      BY ClockAssumption DEF Trunc
<1>3. t % TicksPerSecond \in Nat
      BY ClockAssumption
<1>4. Trunc(t) <= t
      BY <1>3 DEF Trunc
<1> QED BY <1>1, <1>2, <1>4

\* The clock of a budget whose status a write has replaced.
LEMMA ClockFlips ==
    ASSUME NEW o, IsBudget(o), NEW n, IsBudget(n), NEW result, result.over \in BOOLEAN,
           NEW t \in Int, n.status = ReconciledStatus(o, result, t)
    PROVE  ClockOf(n) = Clock!Flipped(ClockOf(o), result.over, Trunc(t))
<1>1. /\ n.status.conds.over = result.over
      /\ n.status.conds.overAt = IF o.status.conds.over = result.over
                                 THEN o.status.conds.overAt ELSE Trunc(t)
      BY ReconciledOK
<1>2. result.over # None
      BY NoneAssumption
<1>3. ClockOf(n) = [exists |-> TRUE, over |-> result.over, at |-> n.status.conds.overAt]
      BY <1>1, <1>2, ClockIs
<1>4. CASE o.status.conds.over = result.over
      <2>1. ClockOf(o).over = result.over
            BY <1>4, ClockIs
      <2>2. ClockOf(o) = [exists |-> TRUE, over |-> result.over, at |-> o.status.conds.overAt]
            BY <1>2, <1>4, ClockIs
      <2>3. n.status.conds.overAt = o.status.conds.overAt
            BY <1>1, <1>4
      <2>4. ClockOf(n) = ClockOf(o)
            BY <1>3, <2>2, <2>3
      <2> QED BY <2>1, <2>4 DEF Clock!Flipped
<1>5. CASE o.status.conds.over # result.over
      <2>1. ClockOf(o).over # result.over
            BY <1>2, <1>5, ClockIs
      <2> QED BY <1>1, <1>3, <1>5, <2>1 DEF Clock!Flipped
<1> QED BY <1>4, <1>5

\* WriteStatus concludes what was found, and alone begins to enforce.
LEMMA ClockConcludes ==
    ASSUME TypeOK, TypeOK', HeldInv, FreshInv, NEW fate, WriteStatus(fate)
    PROVE  ClockSteps
<1>1. /\ Key \in Budgets /\ IsBudget(worker.obj) /\ budgets[Key] # NoBudget
      /\ worker.pc = "write" /\ UNCHANGED now /\ now \in Nat
      /\ worker.at \in 0..now /\ worker.result.over \in BOOLEAN /\ acting = None
      BY DEF WriteStatus, TypeOK, IsWorker, Key, HeldInv, WorkerInv, Held, Reconciling, acting
<1>2. PICK k, o, w, result, t, s, patched :
         /\ k = Key /\ o = budgets[k] /\ w = worker.obj
         /\ result = worker.result /\ t = worker.at
         /\ s = ReconciledStatus(w, result, t)
         /\ patched = [o EXCEPT !.status = MergePatch(@, w.status, s)]
      OBVIOUS
<1>3. /\ IsBudget(o) /\ o.status = w.status /\ TurnedBy(o.status, t)
      /\ t \in Nat /\ t <= now /\ k \in Budgets
      BY <1>1, <1>2 DEF TypeOK, AreBudgets, FreshInv, InHandInv, Reconciling
<1>4. Trunc(t) \in 0..now /\ Trunc(t) <= t
      BY <1>1, <1>3, TruncBelow
<1>5. CASE UNCHANGED budgets /\ worker' = Idle
      BY <1>1, <1>5, NothingTurns DEF acting, Idle
<1>6. CASE ~(UNCHANGED budgets /\ worker' = Idle)
      <2>1. budgets' = [budgets EXCEPT ![k] = patched]
            BY <1>1, <1>2, <1>6 DEF WriteStatus, EndAndRequeue, Applied
      <2>2. IsStatus(s)
            BY <1>1, <1>2, <1>3, ReconciledOK
      <2>3. /\ budgets'[k].status = s
            /\ \A b \in Budgets : b # k => budgets'[b] = budgets[b]
            <3>1. budgets' = [budgets EXCEPT ![Key] =
                     [budgets[Key] EXCEPT !.status = MergePatch(@, worker.obj.status, s)]]
                  BY <1>2, <2>1
            <3>2. worker.pc \in Reconciling
                  BY <1>1 DEF Reconciling
            <3> HIDE <1>6, <2>1
            <3> QED BY <1>1, <1>2, <2>2, <3>1, <3>2, FreshWrite
      <2>4. /\ budgets'[k] = patched /\ IsBudget(patched) /\ patched.spec = o.spec
            <3>1. budgets'[k] = patched
                  BY <1>3, <2>1 DEF TypeOK, AreBudgets, Over
            <3>2. IsStatus(MergePatch(o.status, w.status, s))
                  BY <1>3, <2>2, MergePatchOK DEF IsBudget
            <3>3. IsBudget(patched) /\ patched.spec = o.spec
                  BY <1>2, <1>3, <3>2, StatusSet
            <3> QED BY <3>1, <3>3
      <2>5. ClockOf(w) = ClockOf(o)
            BY <1>1, <1>2, <1>3, ClockSame DEF Agree
      <2>6. ClockOf(budgets'[k]) = Clock!Flipped(ClockOf(o), result.over, Trunc(t))
            <3>1. PICK n : n = budgets'[k]
                  OBVIOUS
            <3>2. IsBudget(n) /\ n.status = ReconciledStatus(w, result, t)
                  BY <1>2, <2>3, <2>4, <3>1
            <3>3. IsBudget(w) /\ result.over \in BOOLEAN /\ t \in Int
                  BY <1>1, <1>2, <1>3
            <3>4. ClockOf(n) = Clock!Flipped(ClockOf(w), result.over, Trunc(t))
                  BY <3>2, <3>3, ClockFlips
            <3> QED BY <2>5, <3>1, <3>4
      <2>7. /\ clocks' = [clocks EXCEPT ![k] = Clock!Flipped(@, result.over, Trunc(t))]
            /\ clocks[k] = ClockOf(o) /\ clocks'[k] = ClockOf(patched)
            BY <1>2, <1>3, <2>3, <2>4, <2>6 DEF clocks
      <2>8. clocks[k].exists = TRUE /\ (clocks[k].over # None => Trunc(t) >= clocks[k].at)
            <3>1. ClockOf(o).over # None =>
                     o.status.conds.over # None /\ ClockOf(o).at = o.status.conds.overAt
                  BY <1>3, ClockIs
            <3>2. o.status.conds.over # None =>
                     o.status.conds.overAt <= Trunc(t) /\ o.status.conds.overAt \in Int
                  BY <1>3 DEF TurnedBy, IsBudget, IsStatus
            <3>3. ClockOf(o).exists = TRUE
                  BY <1>3, ClockIs
            <3> QED BY <1>4, <2>7, <3>1, <3>2, <3>3
      <2>9. \/ UNCHANGED acting
            \/ /\ result.over = TRUE /\ acting' = k
               /\ \E grace \in {Seconds(spec.grace) : spec \in Specs} : now >= clocks'[k].at + grace
            <3>1. CASE worker' = Idle
                  BY <1>1, <3>1 DEF acting, Idle
            <3>2. CASE worker' # Idle
                  <4>1. /\ WorthEnforcing(patched, result, worker.listing, t) # None
                        /\ \E l, g : worker' = [worker EXCEPT !.pc = "enforce", !.obj = patched,
                                                              !.listing = l, !.target = g]
                        BY <1>1, <1>2, <3>2 DEF WriteStatus, EndAndRequeue
                  <4>2. acting' = k
                        BY <1>2, <4>1 DEF acting, Key, TypeOK, IsWorker, Over, WorkerFields
                  <4>3. result.over = TRUE /\ GraceElapsed(patched, t)
                        BY <1>1, <1>2, <4>1 DEF WorthEnforcing
                  <4>4. clocks'[k].at = patched.status.conds.overAt
                        <5>1. patched.status.conds.over # None
                              BY <4>3, NoneAssumption DEF GraceElapsed
                        <5>2. ClockOf(patched).at = patched.status.conds.overAt
                              BY <2>4, <5>1, ClockIs
                        <5> QED BY <2>7, <5>2
                  <4>5. PICK grace : grace = Seconds(patched.spec.grace)
                        OBVIOUS
                  <4>6. grace \in {Seconds(spec.grace) : spec \in Specs} /\ grace \in Int
                        BY <2>4, <4>5, SpecsAssumption, ClockAssumption DEF IsBudget, Seconds
                  <4>7. t >= clocks'[k].at + grace /\ clocks'[k].at \in Int
                        BY <2>4, <4>3, <4>4, <4>5, NoneAssumption DEF GraceElapsed, IsBudget, IsStatus
                  <4> QED BY <1>1, <1>3, <4>2, <4>3, <4>6, <4>7
            <3> QED BY <3>1, <3>2
      <2>10. Clock!Conclude(k, result.over, Trunc(t))
            BY <1>1, <2>7, <2>8, <2>9 DEF Clock!Conclude, clocks, acting
      <2> QED BY <1>1, <1>2, <1>3, <1>4, <2>10 DEF ClockSteps, Clock!Next
<1> QED BY <1>5, <1>6

\* What users do turns no clock, but a budget they create has none set, and one
\* they delete takes its own with it.
LEMMA ClockOfUsers ==
    ASSUME TypeOK, TypeOK', Users
    PROVE  ClockSteps
<1>1. UNCHANGED <<now, acting>>
      BY DEF Users, CreateBudget, EditSpec, DeleteBudget, ForeignDone, operatorVars, acting, Key
<1>2. Quiet
      BY QuietUsers
<1>3. ASSUME NEW b \in Budgets, NEW spec \in Specs, CreateBudget(b, spec)
      PROVE  ClockSteps
      <2>1. PICK n : n = NewBudget(budgetsMade + 1, spec)
            OBVIOUS
      <2>2. n.status.conds.over = None /\ budgets[b] = NoBudget
            BY <1>3, <2>1 DEF CreateBudget, NewBudget, EmptyStatus, NoConditions
      <2>3. \A c \in Budgets : budgets'[c] = IF c = b THEN n ELSE budgets[c]
            BY <1>3, <2>1 DEF CreateBudget, TypeOK, AreBudgets, Over
      <2>4. n # NoBudget
            BY <2>1 DEF NewBudget, NoBudget
      <2>5. ClockOf(n) = Clock!Unset
            BY <2>2, <2>4 DEF ClockOf, Clock!Unset
      <2>6. \A c \in Budgets : ClockOf(budgets'[c]) =
               IF c = b THEN Clock!Unset ELSE ClockOf(budgets[c])
            BY <2>3, <2>5
      <2>7. clocks' = [clocks EXCEPT ![b] = Clock!Unset]
            BY <2>6 DEF clocks
      <2>8. clocks[b] = Clock!Absent
            BY <2>2, ClockAbsent DEF clocks
      <2>9. ~clocks[b].exists
            BY <2>8 DEF Clock!Absent
      <2>10. Clock!Make(b)
            BY <1>1, <2>7, <2>9 DEF Clock!Make, clocks, acting
      <2> QED BY <2>10 DEF ClockSteps, Clock!Next
<1>4. ASSUME NEW b \in Budgets, NEW spec \in Specs, EditSpec(b, spec)
      PROVE  ClockSteps
      <2>1. IsBudget(budgets[b]) /\ budgets[b] # NoBudget
            BY <1>4 DEF EditSpec, TypeOK, AreBudgets
      <2>2. PICK n : n = [budgets[b] EXCEPT !.spec = spec, !.gen = @ + 1]
            OBVIOUS
      <2>3. n.status = budgets[b].status
            BY <2>1, <2>2, SpecSet
      <2>4. budgets' = [budgets EXCEPT ![b] = n]
            BY <1>4, <2>2 DEF EditSpec
      <2> QED BY <1>1, <2>1, <2>3, <2>4, ClockSet
<1>5. ASSUME NEW b \in Budgets, NEW cascade \in CascadeModes, DeleteBudget(b, cascade)
      PROVE  ClockSteps
      <2>1. IsBudget(budgets[b]) /\ budgets[b] # NoBudget /\ cascade \in BOOLEAN
            BY <1>5, SwitchAssumption DEF DeleteBudget, TypeOK, AreBudgets
      <2>2. PICK n : n = [budgets[b] EXCEPT !.deleting = TRUE, !.foreign = cascade]
            OBVIOUS
      <2>3. n.status = budgets[b].status
            BY <2>1, <2>2, DeletionSet
      <2>4. budgets' = [budgets EXCEPT ![b] = n] \/ budgets' = [budgets EXCEPT ![b] = NoBudget]
            BY <1>5, <2>2 DEF DeleteBudget
      <2> QED BY <1>1, <2>1, <2>3, <2>4, ClockSet
<1>6. ASSUME NEW b \in Budgets, ForeignDone(b)
      PROVE  ClockSteps
      <2>1. IsBudget(budgets[b]) /\ budgets[b] # NoBudget
            BY <1>6 DEF ForeignDone, TypeOK, AreBudgets
      <2>2. PICK n : n = [budgets[b] EXCEPT !.foreign = FALSE]
            OBVIOUS
      <2>3. n.status = budgets[b].status
            BY <2>1, <2>2, ForeignSet
      <2>4. budgets' = [budgets EXCEPT ![b] = n] \/ budgets' = [budgets EXCEPT ![b] = NoBudget]
            BY <1>6, <2>2 DEF ForeignDone
      <2> QED BY <1>1, <2>1, <2>3, <2>4, ClockSet
<1> QED BY <1>3, <1>4, <1>5, <1>6 DEF Users

\* Steps that leave the budgets alone.
LEMMA ClockElsewhere ==
    ASSUME TypeOK,
           \/ Refused \/ List \/ ListFails \/ Alert \/ AlreadyPaused
           \/ Manager \/ Kubelet \/ UNCHANGED vars
           \/ \E fate \in Fates : Pause(fate) \/ \E blocked \in PdbVerdicts : Evict(fate, blocked)
    PROVE  ClockSteps
<1>1. CASE \/ Refused \/ Alert \/ AlreadyPaused
           \/ \E fate \in Fates : Pause(fate) \/ \E blocked \in PdbVerdicts : Evict(fate, blocked)
      <2>1. UNCHANGED <<now, budgets>> /\ (worker' = Idle \/ Enforced)
            BY <1>1 DEF Refused, EndAndRequeue, Alert, AlreadyPaused, Pause, Evict, EnforcerFailed,
                        serverVars
      <2>2. acting' = None
            <3>1. CASE worker' = Idle
                  BY <3>1 DEF acting, Idle
            <3>2. CASE Enforced
                  <4>1. worker'.pc = "stamp"
                        BY <3>2 DEF Enforced, TypeOK, IsWorker, Over, WorkerFields
                  <4> QED BY <4>1 DEF acting
            <3> QED BY <2>1, <3>1, <3>2
      <2> QED BY <2>1, <2>2, NothingTurns
<1>2. CASE List \/ ListFails
      <2>1. UNCHANGED <<now, budgets>> /\ worker'.pc \in {"write", "degrade"}
            BY <1>2 DEF List, ListFails, serverVars, TypeOK, IsWorker, Over, WorkerFields
      <2>2. acting' = None
            BY <2>1 DEF acting
      <2> QED BY <2>1, <2>2, NothingTurns
<1>3. ASSUME NEW b \in Budgets, Get(b)
      PROVE  ClockSteps
      <2>1. UNCHANGED <<now, budgets>>
            BY <1>3 DEF Get, serverVars
      <2>2. acting' = acting \/ acting' = None
            <3>1. CASE UNCHANGED worker
                  BY <3>1 DEF acting, Key
            <3>2. CASE ~UNCHANGED worker
                  <4>1. worker'.pc \in {"adopt", "remove", "list"}
                        BY <1>3, <3>2 DEF Get, Idle
                  <4> QED BY <4>1 DEF acting
            <3> QED BY <3>1, <3>2
      <2> QED BY <2>1, <2>2, NothingTurns
<1>4. ASSUME \/ Start \/ Crash \/ \E b \in Budgets : SyncBudget(b)
             \/ \E n \in PodNames : SyncPod(n)
      PROVE  ClockSteps
      <2>1. UNCHANGED <<now, budgets>> /\ (UNCHANGED worker \/ worker' = Idle)
            BY <1>4 DEF Start, Crash, SyncBudget, SyncPod, serverVars
      <2>2. acting' = acting \/ acting' = None
            BY <2>1 DEF acting, Key, Idle
      <2> QED BY <2>1, <2>2, NothingTurns
<1>5. CASE Kubelet \/ UNCHANGED vars
      <2>1. UNCHANGED <<now, budgets, worker>>
            BY <1>5 DEF Kubelet, CreatePod, StartPod, FinishPod, DeletePod, CollectPod,
                        OnPod, operatorVars, vars, serverVars
      <2>2. acting' = acting
            BY <2>1 DEF acting, Key
      <2> QED BY <2>1, <2>2, NothingTurns
<1> QED BY <1>1, <1>2, <1>3, <1>4, <1>5 DEF Manager

\* The clock runs beside it all.
LEMMA ClockPasses ==
    ASSUME TypeOK, Tick
    PROVE  ClockSteps
<1>1. UNCHANGED <<clocks, acting>> /\ now' > now
      BY DEF Tick, serverVars, operatorVars, clocks, acting, Key, TypeOK
<1>2. Clock!Pass
      BY <1>1 DEF Clock!Pass, clocks, acting
<1> QED BY <1>2 DEF ClockSteps, Clock!Next

-----------------------------------------------------------------------------
\* The initial state is one of QuotaClock.
LEMMA ClockStarts == Init => Clock!Init
<1> SUFFICES ASSUME Init PROVE Clock!Init
    OBVIOUS
<1>1. now = 1 /\ budgets = NoBudgets /\ worker.pc = "idle"
      BY DEF Init, Idle
<1>2. \A b \in Budgets : ClockOf(budgets[b]) = Clock!Absent
      BY <1>1, ClockAbsent DEF NoBudgets
<1> QED BY <1>1, <1>2 DEF Clock!Init

\* Every step is one of QuotaClock, or a stutter.
LEMMA ClockSimulates == TypeOK /\ TypeOK' /\ HeldInv /\ FreshInv /\ [Next]_vars
                       => [Clock!Next]_(Clock!clockVars)
<1> SUFFICES ASSUME TypeOK, TypeOK', HeldInv, FreshInv, [Next]_vars
             PROVE  ClockSteps
    BY DEF ClockSteps, Clock!clockVars, clocks, acting
<1>1. CASE Call
      BY <1>1, ClockPatches, ClockRemoves, ClockConcludes, ClockElsewhere DEF Call
<1>2. CASE Work
      BY <1>1, <1>2, ClockElsewhere DEF Work
<1> QED BY <1>2, ClockElsewhere, ClockOfUsers, ClockPasses DEF Next

\* With fresh reads the operator implements the clock that QuotaExceeded promises:
\* edits, failures and crashes do not disturb it, and only a write that found the
\* budget over, a grace period after it, begins an enforcement (writeStatus,
\* maybeEnforce).
THEOREM QuotaClockImplemented ==
    ASSUME StaleReads = FALSE PROVE Spec => ImplementsQuotaClock
<1>1. Init => Clock!Init
      BY ClockStarts
<1>2. TypeOK /\ TypeOK' /\ HeldInv /\ FreshInv /\ [Next]_vars => [Clock!Next]_(Clock!clockVars)
      BY ClockSimulates
<1> QED BY <1>1, <1>2, TypeCorrect, HeldAlways, FreshAlways, PTL
        DEF Spec, ImplementsQuotaClock, Clock!Spec
=============================================================================
