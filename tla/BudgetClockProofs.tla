------------------------ MODULE BudgetClockProofs --------------------------
(***************************************************************************)
(* Enforcement is never early: ClockInv of BudgetInvariants is inductive.  *)
(***************************************************************************)
EXTENDS BudgetHeldProofs

-----------------------------------------------------------------------------
(***************************************************************************)
(* Enforcement is never early.                                             *)
(***************************************************************************)
\* Every budget the server holds after a step it held before, or it is new.
Succeeds ==
    \A b \in Budgets : budgets'[b] # NoBudget =>
        \/ budgets[b] # NoBudget /\ budgets'[b].uid = budgets[b].uid
        \/ budgets[b] = NoBudget /\ budgets'[b].uid = budgetsMade + 1

\* The history of a budget on the server is only ever filled in.
AuditMoves ==
    \A b \in Budgets :
        /\ Over(audit'[b], AuditFields) /\ audit'[b].firstOver \in (0..now') \cup {None}
        /\ \/ audit'[b].firstOver = audit[b].firstOver
           \/ audit[b].firstOver = None
           \/ budgets[b] = NoBudget

ServerClock ==
    \A b \in Budgets : budgets'[b] # NoBudget =>
        \/ budgets[b] # NoBudget /\ budgets'[b].status.conds = budgets[b].status.conds
        \/ NotBefore(b, budgets[b])'

\* A gentle step neither renames nor revives a budget.
LEMMA GentlySucceeds ==
    ASSUME Gently
    PROVE  Succeeds
BY DEF Gently, Gentle, Updated, Succeeds

\* A copy that is not from before the first verdict stays so.
LEMMA NotBeforeKept ==
    ASSUME AuditInv, AuditMoves, NEW b \in Budgets, budgets[b] # NoBudget,
           NEW c, NotBefore(b, c)
    PROVE  NotBefore(b, c)'
BY NoneAssumption DEF AuditMoves, NotBefore

\* The conditions of the server and of the cache stay in order.
LEMMA ClockCopies ==
    ASSUME TypeOK, TypeOK', HeldInv, ClockInv, Succeeds, AuditMoves, CacheMoves, ServerClock
    PROVE  AuditInv' /\ CopiesInv'
<1>1. AuditInv'
      BY DEF AuditMoves, AuditInv
<1>2. ASSUME NEW b \in Budgets, budgets'[b] # NoBudget
      PROVE  NotBefore(b, budgets[b])'
      <2>1. CASE budgets[b] # NoBudget /\ budgets'[b].status.conds = budgets[b].status.conds
            <3>1. NotBefore(b, budgets[b])
                  BY <2>1 DEF ClockInv, CopiesInv
            <3>2. \A c : NotBefore(b, c) => NotBefore(b, c)'
                  BY <2>1, NotBeforeKept DEF ClockInv
            <3> QED BY <2>1, <3>1, <3>2 DEF NotBefore
      <2> QED BY <1>2, <2>1 DEF ServerClock
<1>3. ASSUME NEW b \in Budgets, NEW c, c = budgetCache'[b],
             c # NoBudget, budgets'[b] # NoBudget, budgets'[b].uid = c.uid
      PROVE  NotBefore(b, c)'
      <2>1. CASE c = budgets'[b]
            BY <1>2, <1>3, <2>1 DEF NotBefore
      <2>2. CASE c = budgetCache[b]
            <3>1. c.uid \in Nat /\ budgetsMade \in Nat /\ c.uid <= budgetsMade
                  BY <1>3, <2>2 DEF TypeOK, AreBudgets, IsBudget, HeldInv, CacheInv, IsPast
            <3>2. budgets[b] # NoBudget /\ budgets[b].uid = c.uid
                  BY <1>3, <3>1 DEF Succeeds
            <3>3. NotBefore(b, c)
                  BY <1>3, <2>2, <3>2 DEF ClockInv, CopiesInv
            <3> QED BY <3>2, <3>3, NotBeforeKept DEF ClockInv
      <2> QED BY <1>3, <2>1, <2>2 DEF CacheMoves
<1>4. CopiesInv'
      BY <1>2, <1>3 DEF CopiesInv
<1> QED BY <1>1, <1>4

\* The worker keeps its object.
LEMMA ClockWorker ==
    ASSUME TypeOK, HeldInv, ClockInv, AuditMoves, worker.pc \in Reconciling,
           worker'.key = worker.key, worker'.obj = worker.obj
    PROVE  NotBefore(Key, worker.obj)'
<1>1. PICK k, c : /\ k \in Budgets /\ k = worker.key
                   /\ c = worker.obj /\ budgets[k] # NoBudget
      BY DEF TypeOK, IsWorker, Reconciling, HeldInv, WorkerInv, Held, Key
<1>2. NotBefore(k, c)
      BY <1>1 DEF ClockInv, HandInv, Key
<1>3. NotBefore(k, c)'
      BY <1>1, <1>2, NotBeforeKept DEF ClockInv
<1> QED BY <1>1, <1>3 DEF Key

\* The invariant holds initially.
LEMMA ClockInit == Init => ClockInv
<1> SUFFICES ASSUME Init PROVE ClockInv
    OBVIOUS
<1>1. AuditInv
      BY DEF Init, AuditInv, NoAudit, Over, AuditFields
<1>2. CopiesInv
      BY DEF Init, CopiesInv, NoBudgets
<1>3. HandInv /\ GraceNeverEarly
      BY DEF Init, Idle, HandInv, GraceNeverEarly, Reconciling
<1> QED BY <1>1, <1>2, <1>3 DEF ClockInv

\* A step of the reconciler after which it is idle.
LEMMA ClockEnds ==
    ASSUME TypeOK, TypeOK', HeldInv, ClockInv, Succeeds, AuditMoves, CacheMoves, ServerClock,
           worker' = Idle
    PROVE  ClockInv'
<1>1. HandInv' /\ GraceNeverEarly'
      BY DEF Idle, HandInv, GraceNeverEarly, Reconciling
<1> QED BY <1>1, ClockCopies DEF ClockInv

\* Nothing the reconciler does, with the histories of held budgets untouched.
LEMMA ClockAround ==
    ASSUME TypeOK, TypeOK', HeldInv, ClockInv, Succeeds, AuditMoves, CacheMoves, ServerClock,
           UNCHANGED worker,
           \A b \in Budgets : budgets[b] # NoBudget => audit'[b].firstOver = audit[b].firstOver
    PROVE  ClockInv'
<1>1. AuditInv' /\ CopiesInv'
      BY ClockCopies
<1>2. ASSUME worker.pc \in Reconciling
      PROVE  NotBefore(Key, worker.obj)'
      BY <1>2, ClockWorker
<1>3. ASSUME worker.pc \in {"write", "enforce"}
      PROVE  audit'[Key].firstOver = audit[Key].firstOver
      BY <1>3 DEF TypeOK, IsWorker, Key, HeldInv, WorkerInv, Held, Reconciling
<1>4. HandInv' /\ GraceNeverEarly'
      <2>1. worker' = worker /\ Key' = Key
            BY DEF Key
      <2> QED BY <1>2, <1>3, <2>1 DEF ClockInv, HandInv, GraceNeverEarly
<1> QED BY <1>1, <1>4 DEF ClockInv

\* An untouched history is a move of the history.
LEMMA AuditUnchanged ==
    ASSUME TypeOK, AuditInv, UNCHANGED audit, now' \in {now, now + 1}
    PROVE  AuditMoves /\ \A b \in Budgets : audit'[b].firstOver = audit[b].firstOver
BY DEF TypeOK, AuditInv, AuditMoves

\* An untouched server keeps its conditions.
LEMMA ServerUnchanged ==
    ASSUME UNCHANGED budgets
    PROVE  ServerClock
BY DEF ServerClock

\* One budget written, with conditions that are in order.
LEMMA ServerSet ==
    ASSUME TypeOK, NEW b \in Budgets, NEW n, budgets' = [budgets EXCEPT ![b] = n],
           \/ n = NoBudget
           \/ budgets[b] # NoBudget /\ n.status.conds = budgets[b].status.conds
           \/ NotBefore(b, n)'
    PROVE  ServerClock
<1>1. budgets'[b] = n /\ \A a \in Budgets : a # b => budgets'[a] = budgets[a]
      BY DEF TypeOK, AreBudgets, Over
<1> QED BY <1>1 DEF ServerClock, NotBefore

\* A patch of the conditions leaves those of the server or those it carries.
LEMMA PatchNotBefore ==
    ASSUME NEW b, NEW o, IsBudget(o), NEW base, NEW s, IsStatus(s),
           NotBefore(b, o)', NotBefore(b, [o EXCEPT !.status = s])'
    PROVE  NotBefore(b, [o EXCEPT !.status = MergePatch(@, base, s)])'
<1> DEFINE p == MergePatch(o.status, base, s)
<1>1. IsStatus(p) /\ p.conds \in {o.status.conds, s.conds}
      BY MergePatchOK DEF IsBudget
<1> HIDE DEF p
<1>2. /\ [o EXCEPT !.status = p].status = p
      /\ [o EXCEPT !.status = s].status = s
      BY <1>1, StatusSet
<1>3. NotBefore(b, [o EXCEPT !.status = p])'
      BY <1>1, <1>2 DEF NotBefore
<1> QED BY <1>3 DEF p

\* Get takes in hand a copy that is in order.
LEMMA ClockGet ==
    ASSUME TypeOK, TypeOK', HeldInv, ClockInv, NEW b \in Budgets, Get(b)
    PROVE  ClockInv'
<1>1. UNCHANGED <<now, budgets, budgetsMade, budgetCache, audit>>
      BY DEF Get, serverVars, cacheVars, boundVars
<1>2. Succeeds /\ AuditMoves /\ CacheMoves /\ ServerClock
      BY <1>1, GentlyNothing, GentlySucceeds, AuditUnchanged, ServerUnchanged
         DEF CacheMoves, ClockInv
<1>3. CASE UNCHANGED worker
      BY <1>1, <1>2, <1>3, AuditUnchanged, ClockAround DEF ClockInv
<1>4. CASE ~UNCHANGED worker
      <2>0. PICK obj : obj = budgetCache[b]
            OBVIOUS
      <2>1. PICK pc \in {"adopt", "remove", "list"} :
               /\ obj # NoBudget
               /\ worker' = [Idle EXCEPT !.pc = pc, !.key = b, !.obj = obj]
               /\ pc = "list" => obj.finalizer /\ ~obj.deleting
            BY <1>4, <2>0 DEF Get
      <2>2. worker'.pc = pc /\ worker'.key = b /\ worker'.obj = obj
            BY <2>1 DEF Idle
      <2>3. pc = "list" => NotBefore(b, obj)
            BY <2>0, <2>1 DEF HeldInv, CacheInv, Held, ClockInv, CopiesInv
      <2>4. pc = "list" => NotBefore(b, obj)'
            BY <1>1, <2>3 DEF NotBefore
      <2>5. HandInv' /\ GraceNeverEarly'
            BY <2>1, <2>2, <2>4 DEF HandInv, GraceNeverEarly, Reconciling, Key
      <2> QED BY <1>2, <2>5, ClockCopies DEF ClockInv
<1> QED BY <1>3, <1>4

\* Adopt writes back the status it read.
LEMMA ClockAdopt ==
    ASSUME TypeOK, TypeOK', HeldInv, ClockInv, NEW fate, Adopt(fate)
    PROVE  ClockInv'
<1>1. /\ Key \in Budgets /\ IsBudget(worker.obj) /\ budgets[Key] = worker.obj
      /\ UNCHANGED <<now, budgetCache, audit>>
      BY DEF Adopt, Current, TypeOK, IsWorker, Key, cacheVars
<1>2. PICK adopted : adopted = [worker.obj EXCEPT !.finalizer = TRUE]
      OBVIOUS
<1>3. adopted.status = worker.obj.status
      BY <1>1, <1>2, FinalizerSet
<1>4. Succeeds /\ AuditMoves /\ CacheMoves
      BY <1>1, GentleAdopt, GentlySucceeds, AuditUnchanged DEF CacheMoves, ClockInv
<1>5. UNCHANGED budgets \/ budgets' = [budgets EXCEPT ![Key] = adopted]
      BY <1>2 DEF Adopt
<1>6. ServerClock
      BY <1>1, <1>3, <1>5, ServerSet, ServerUnchanged, BudgetExists
<1>7. CASE fate # "ok"
      BY <1>4, <1>6, <1>7, ClockEnds DEF Adopt, EndAndRequeue
<1>8. CASE fate = "ok"
      <2>1. worker'.pc = "list" /\ worker'.key = Key /\ worker'.obj = adopted
            BY <1>2, <1>8 DEF Adopt, Key, TypeOK, IsWorker, Over, WorkerFields
      <2>2. NotBefore(Key, budgets[Key])
            BY <1>1, BudgetExists DEF ClockInv, CopiesInv
      <2>3. NotBefore(Key, worker.obj)'
            BY <1>1, <1>3, <2>1, <2>2 DEF NotBefore, Key
      <2>4. HandInv' /\ GraceNeverEarly'
            BY <2>1, <2>3 DEF HandInv, GraceNeverEarly, Reconciling
      <2> QED BY <1>4, <1>6, <2>4, ClockCopies DEF ClockInv
<1> QED BY <1>7, <1>8

\* Remove writes back the status it read.
LEMMA ClockRemove ==
    ASSUME TypeOK, TypeOK', HeldInv, ClockInv, NEW fate, Remove(fate)
    PROVE  ClockInv'
<1> DEFINE n == WithoutFinalizer(worker.obj)
<1>1. /\ Key \in Budgets /\ IsBudget(worker.obj) /\ budgets[Key] = worker.obj
      /\ UNCHANGED <<now, budgetCache, audit>> /\ worker' = Idle
      BY DEF Remove, Current, EndAndRequeue, TypeOK, IsWorker, Key, cacheVars
<1>2. /\ n = NoBudget \/ (n.uid = worker.obj.uid /\ n.status = worker.obj.status)
      /\ worker.obj # NoBudget
      BY <1>1, FinalizerSet, BudgetExists DEF WithoutFinalizer
<1> HIDE DEF n
<1>3. UNCHANGED budgets \/ budgets' = [budgets EXCEPT ![Key] = n]
      BY DEF Remove, n
<1>4. Succeeds
      BY <1>1, <1>2, <1>3 DEF Succeeds, TypeOK, AreBudgets, Over
<1>5. ServerClock
      BY <1>1, <1>2, <1>3, ServerSet, ServerUnchanged
<1>6. AuditMoves /\ CacheMoves
      BY <1>1, AuditUnchanged DEF CacheMoves, ClockInv
<1> QED BY <1>1, <1>4, <1>5, <1>6, ClockEnds

\* What a verdict and a write add to a history.
LEMMA HistoryKept ==
    ASSUME NEW r, Over(r, AuditFields), NEW t, NEW v
    PROVE  /\ Over(FoundOver(r, t), AuditFields)
           /\ FoundOver(r, t).firstOver = IF r.firstOver = None THEN t ELSE r.firstOver
           /\ Over(Concluded(r, v, t), AuditFields)
           /\ Concluded(r, v, t).firstOver = r.firstOver
<1>1. /\ Over(FoundOver(r, t), AuditFields)
      /\ FoundOver(r, t).firstOver = IF r.firstOver = None THEN t ELSE r.firstOver
      BY DEF FoundOver, Over, AuditFields
<1>2. /\ Over(Concluded(r, v, t), AuditFields)
      /\ Concluded(r, v, t).firstOver = r.firstOver
      BY DEF Concluded, Over, AuditFields
<1> QED BY <1>1, <1>2

\* List dates the first verdict before anything can be written on its account.
LEMMA ClockList ==
    ASSUME TypeOK, TypeOK', HeldInv, ClockInv, List
    PROVE  ClockInv'
<1>1. PICK result, listing :
         /\ worker' = [worker EXCEPT !.pc = "write", !.at = now,
                                     !.listing = listing, !.result = result]
         /\ audit' = IF result.over THEN [audit EXCEPT ![Key] = FoundOver(@, now)] ELSE audit
         /\ result.over \in BOOLEAN
      BY VerdictOver DEF List
<1>2. /\ UNCHANGED <<now, budgets, budgetsMade, budgetCache>>
      /\ Key \in Budgets /\ worker.pc = "list" /\ now \in Nat
      BY DEF List, serverVars, cacheVars, boundVars, TypeOK, IsWorker, Key
<1>3. /\ worker'.pc = "write" /\ worker'.key = worker.key /\ worker'.obj = worker.obj
      /\ worker'.at = now /\ worker'.result = result
      BY <1>1 DEF TypeOK, IsWorker, Over, WorkerFields
<1>4. PICK r : r = audit[Key] /\ Over(r, AuditFields) /\ r.firstOver \in (0..now) \cup {None}
      BY <1>2 DEF ClockInv, AuditInv
<1>5. CASE ~result.over
      <2>1. audit' = audit
            BY <1>1, <1>5
      <2>2. Succeeds /\ AuditMoves /\ CacheMoves /\ ServerClock
            BY <1>2, <2>1, GentlyNothing, GentlySucceeds, AuditUnchanged, ServerUnchanged
               DEF CacheMoves, ClockInv
      <2>3. NotBefore(Key, worker.obj)'
            BY <1>2, <1>3, <2>2, ClockWorker DEF Reconciling
      <2>4. HandInv' /\ GraceNeverEarly'
            BY <1>3, <1>5, <2>3 DEF HandInv, GraceNeverEarly
      <2> QED BY <2>2, <2>4, ClockCopies DEF ClockInv
<1>6. CASE result.over
      <2> DEFINE f == FoundOver(r, now)
      <2>1. Over(f, AuditFields) /\ f.firstOver = IF r.firstOver = None THEN now ELSE r.firstOver
            BY <1>4, HistoryKept
      <2> HIDE DEF f
      <2>2. audit'[Key] = f /\ \A b \in Budgets : b # Key => audit'[b] = audit[b]
            BY <1>1, <1>2, <1>4, <1>6 DEF TypeOK, Over, f
      <2>3. f.firstOver \in 0..now
            BY <1>2, <1>4, <2>1
      <2>4. AuditMoves
            BY <1>2, <1>4, <2>1, <2>2, <2>3 DEF AuditMoves, ClockInv, AuditInv
      <2>5. Succeeds /\ CacheMoves /\ ServerClock
            BY <1>2, GentlyNothing, GentlySucceeds, ServerUnchanged DEF CacheMoves
      <2>6. NotBefore(Key, worker.obj)'
            BY <1>2, <1>3, <2>4, ClockWorker DEF Reconciling
      <2>7. HandInv' /\ GraceNeverEarly'
            BY <1>2, <1>3, <2>2, <2>3, <2>6 DEF HandInv, GraceNeverEarly, Key
      <2> QED BY <2>4, <2>5, <2>7, ClockCopies DEF ClockInv
<1> QED BY <1>1, <1>5, <1>6

\* Degrade may restore an old condition, but none from before the first verdict.
LEMMA ClockDegrade ==
    ASSUME TypeOK, TypeOK', HeldInv, ClockInv, NEW fate, Degrade(fate)
    PROVE  ClockInv'
<1> DEFINE server == budgets[Key]
           s == DegradedStatus(worker.obj)
           patched == [server EXCEPT !.status = MergePatch(@, worker.obj.status, s)]
<1>1. /\ Key \in Budgets /\ IsBudget(worker.obj) /\ IsBudget(server) /\ server # NoBudget
      /\ NotBefore(Key, worker.obj) /\ NotBefore(Key, server)
      /\ UNCHANGED <<now, budgetCache, audit>> /\ worker' = Idle
      BY DEF Degrade, EndAndRequeue, cacheVars, TypeOK, AreBudgets, IsWorker, Key,
             HeldInv, WorkerInv, Held, Reconciling, ClockInv, CopiesInv, HandInv
<1>2. PICK k, o, w : k = Key /\ o = server /\ w = worker.obj
      OBVIOUS
<1>3. IsStatus(DegradedStatus(w)) /\ NotBefore(k, [o EXCEPT !.status = DegradedStatus(w)])'
      <2>1. IsStatus(DegradedStatus(w))
            BY <1>1, <1>2, DegradedOK
      <2>2. [o EXCEPT !.status = DegradedStatus(w)].status = DegradedStatus(w)
            BY <1>1, <1>2, <2>1, StatusSet
      <2>3. /\ DegradedStatus(w).conds.over = w.status.conds.over
            /\ DegradedStatus(w).conds.overAt = w.status.conds.overAt
            BY <1>1, <1>2, DegradedOK
      <2> QED BY <1>1, <1>2, <2>1, <2>2, <2>3 DEF NotBefore
<1>4. NotBefore(k, [o EXCEPT !.status = MergePatch(@, w.status, DegradedStatus(w))])'
      <2>1. NotBefore(k, o)'
            BY <1>1, <1>2 DEF NotBefore
      <2> QED BY <1>1, <1>2, <1>3, <2>1, PatchNotBefore
<1>5. UNCHANGED budgets \/ budgets' = [budgets EXCEPT ![k] =
                              [o EXCEPT !.status = MergePatch(@, w.status, DegradedStatus(w))]]
      BY <1>2 DEF Degrade
<1>6. ServerClock
      BY <1>1, <1>2, <1>4, <1>5, ServerSet, ServerUnchanged
<1>7. Succeeds /\ AuditMoves /\ CacheMoves
      BY <1>1, GentleDegrade, GentlySucceeds, AuditUnchanged DEF CacheMoves, ClockInv
<1> QED BY <1>1, <1>6, <1>7, ClockEnds

\* Stamp leaves the conditions of the server.
LEMMA ClockStamp ==
    ASSUME TypeOK, TypeOK', HeldInv, ClockInv, NEW fate, Stamp(fate)
    PROVE  ClockInv'
<1>1. /\ Key \in Budgets /\ IsBudget(worker.obj) /\ IsBudget(budgets[Key])
      /\ NotBefore(Key, worker.obj) /\ NotBefore(Key, budgets[Key])
      /\ UNCHANGED <<now, budgetCache, audit>> /\ worker' = Idle /\ worker.at \in Int
      BY DEF Stamp, EndAndRequeue, cacheVars, TypeOK, AreBudgets, IsWorker, Key,
             HeldInv, WorkerInv, Held, Reconciling, ClockInv, CopiesInv, HandInv
<1>2. PICK k, o, base, s :
         /\ k = Key /\ o = budgets[Key] /\ base = worker.obj.status
         /\ s = [base EXCEPT !.lastEnforcementAt = Trunc(worker.at)]
      OBVIOUS
<1>3. Trunc(worker.at) \in Int
      BY <1>1, TruncIsInt
<1>4. IsStatus(s) /\ s.conds = base.conds
      BY <1>1, <1>2, <1>3, StampedOK DEF IsBudget
<1>5. NotBefore(k, [o EXCEPT !.status = s])'
      <2>1. [o EXCEPT !.status = s].status = s
            BY <1>1, <1>2, <1>4, StatusSet
      <2> QED BY <1>1, <1>2, <1>4, <2>1 DEF NotBefore
<1>6. NotBefore(k, [o EXCEPT !.status = MergePatch(@, base, s)])'
      <2>1. NotBefore(k, o)'
            BY <1>1, <1>2 DEF NotBefore
      <2> QED BY <1>1, <1>2, <1>4, <1>5, <2>1, PatchNotBefore
<1>7. \/ UNCHANGED budgets
      \/ budgets' = [budgets EXCEPT ![k] = [o EXCEPT !.status = MergePatch(@, base, s)]]
      BY <1>2 DEF Stamp
<1>8. ServerClock
      BY <1>1, <1>2, <1>6, <1>7, ServerSet, ServerUnchanged
<1>9. Succeeds /\ AuditMoves /\ CacheMoves
      BY <1>1, GentleStamp, GentlySucceeds, AuditUnchanged DEF CacheMoves, ClockInv
<1> QED BY <1>1, <1>8, <1>9, ClockEnds

\* The gate lets through only what has been over for the grace period.
LEMMA GateOpens ==
    ASSUME NEW o, IsBudget(o), NEW result, NEW listing, NEW t \in Int, NEW b,
           NotBefore(b, o)', WorthEnforcing(o, result, listing, t) # None
    PROVE  /\ audit'[b].firstOver \in Nat
           /\ t >= Trunc(audit'[b].firstOver) + Seconds(o.spec.grace)
<1>1. o.status.conds.over = TRUE /\ t >= o.status.conds.overAt + Seconds(o.spec.grace)
      BY DEF WorthEnforcing, GraceElapsed
<1>2. /\ audit'[b].firstOver \in Nat
      /\ o.status.conds.overAt >= Trunc(audit'[b].firstOver)
      BY <1>1 DEF NotBefore
<1>3. Seconds(o.spec.grace) \in Int
      BY SpecsAssumption, ClockAssumption DEF IsBudget, Seconds
<1>4. o.status.conds.overAt \in Int
      BY <1>1, NoneAssumption DEF IsBudget, IsStatus
<1>5. Trunc(audit'[b].firstOver) \in Int
      BY <1>2, TruncIsInt
<1> QED BY <1>1, <1>2, <1>3, <1>4, <1>5

\* WriteStatus keeps an old transition time or takes the instant of its reconcile,
\* and both are no earlier than the first verdict.
LEMMA ClockWriteStatus ==
    ASSUME TypeOK, TypeOK', HeldInv, ClockInv, NEW fate, WriteStatus(fate)
    PROVE  ClockInv'
<1>1. /\ Key \in Budgets /\ IsBudget(worker.obj) /\ IsBudget(budgets[Key])
      /\ budgets[Key] # NoBudget /\ worker.pc = "write"
      /\ NotBefore(Key, worker.obj) /\ NotBefore(Key, budgets[Key])
      /\ UNCHANGED <<now, budgetCache>>
      /\ worker.at \in 0..now /\ now \in Nat /\ worker.result.over \in BOOLEAN
      BY DEF WriteStatus, cacheVars, TypeOK, AreBudgets, IsWorker, Key,
             HeldInv, WorkerInv, Held, Reconciling, ClockInv, CopiesInv, HandInv
<1>2. PICK k, o, w, result, t, s, patched :
         /\ k = Key /\ o = budgets[Key] /\ w = worker.obj
         /\ result = worker.result /\ t = worker.at
         /\ s = ReconciledStatus(w, result, t)
         /\ patched = [o EXCEPT !.status = MergePatch(@, w.status, s)]
      OBVIOUS
<1>3. PICK r : r = audit[k] /\ Over(r, AuditFields) /\ r.firstOver \in (0..now) \cup {None}
      BY <1>1, <1>2 DEF ClockInv, AuditInv
<1>4. \/ UNCHANGED audit
      \/ audit' = [audit EXCEPT ![k] = Concluded(r, result, t)]
      BY <1>1, <1>2, <1>3 DEF WriteStatus
<1>5. AuditMoves /\ audit'[k].firstOver = r.firstOver
      <2>1. CASE UNCHANGED audit
            BY <1>1, <1>2, <1>3, <2>1, AuditUnchanged DEF ClockInv
      <2>2. CASE audit' = [audit EXCEPT ![k] = Concluded(r, result, t)]
            <3> DEFINE n == Concluded(r, result, t)
            <3>1. Over(n, AuditFields) /\ n.firstOver = r.firstOver
                  BY <1>3, HistoryKept
            <3> HIDE DEF n
            <3>2. audit'[k] = n /\ \A b \in Budgets : b # k => audit'[b] = audit[b]
                  BY <1>1, <1>2, <2>2 DEF TypeOK, Over, n
            <3> QED BY <1>1, <1>2, <1>3, <3>1, <3>2 DEF AuditMoves, ClockInv, AuditInv
      <2> QED BY <1>4, <2>1, <2>2
<1>6. IsStatus(s) /\ NotBefore(k, [o EXCEPT !.status = s])'
      <2>1. t \in Int
            BY <1>1, <1>2
      <2>2. /\ IsStatus(s) /\ s.conds.over = result.over
            /\ s.conds.overAt = IF w.status.conds.over = result.over
                                THEN w.status.conds.overAt ELSE Trunc(t)
            BY <1>1, <1>2, <2>1, ReconciledOK
      <2>3. [o EXCEPT !.status = s].status = s
            BY <1>1, <1>2, <2>2, StatusSet
      <2>4. ASSUME result.over = TRUE
            PROVE  /\ r.firstOver \in Nat
                   /\ s.conds.overAt >= Trunc(r.firstOver)
            <3>1. r.firstOver \in Nat /\ r.firstOver <= t
                  BY <1>1, <1>2, <1>3, <2>4 DEF ClockInv, HandInv
            <3>2. Trunc(t) >= Trunc(r.firstOver)
                  BY <2>1, <3>1, TruncMonotone, TruncIsInt
            <3>3. CASE w.status.conds.over = TRUE
                  BY <1>1, <1>2, <1>3, <2>2, <2>4, <3>1, <3>3 DEF NotBefore
            <3>4. CASE w.status.conds.over # TRUE
                  BY <2>2, <2>4, <3>1, <3>2, <3>4
            <3> QED BY <3>3, <3>4
      <2> QED BY <1>5, <2>2, <2>3, <2>4 DEF NotBefore
<1>7. NotBefore(k, o)'
      BY <1>1, <1>2, <1>3, <1>5 DEF NotBefore
<1>8. NotBefore(k, patched)'
      BY <1>1, <1>2, <1>6, <1>7, PatchNotBefore
<1>9. UNCHANGED budgets \/ budgets' = [budgets EXCEPT ![k] = patched]
      BY <1>2 DEF WriteStatus
<1>10. ServerClock
      BY <1>1, <1>2, <1>8, <1>9, ServerSet, ServerUnchanged
<1>11. Succeeds /\ CacheMoves
      BY <1>1, GentleWriteStatus, GentlySucceeds DEF CacheMoves
<1>12. CASE worker' = Idle
      BY <1>5, <1>10, <1>11, <1>12, ClockEnds
<1>13. CASE worker' # Idle
      <2>1. /\ WorthEnforcing(patched, result, worker.listing, t) # None
            /\ \E l, g : worker' = [worker EXCEPT !.pc = "enforce", !.obj = patched,
                                                  !.listing = l, !.target = g]
            BY <1>1, <1>2, <1>13 DEF WriteStatus, EndAndRequeue
      <2>2. /\ worker'.pc = "enforce" /\ worker'.key = k /\ worker'.obj = patched
            /\ worker'.at = t
            BY <1>2, <2>1 DEF Key, TypeOK, IsWorker, Over, WorkerFields
      <2>3. IsBudget(patched) /\ t \in Int
            BY <1>1, <1>2, <2>2 DEF TypeOK, IsWorker
      <2>4. /\ audit'[k].firstOver \in Nat
            /\ t >= Trunc(audit'[k].firstOver) + Seconds(patched.spec.grace)
            BY <1>8, <2>1, <2>3, GateOpens
      <2>5. HandInv' /\ GraceNeverEarly'
            <3>1. NotBefore(Key, worker.obj)'
                  BY <1>8, <2>2 DEF NotBefore, Key
            <3>2. audit'[k].firstOver # None
                  BY <2>4, NoneAssumption
            <3> QED BY <2>2, <2>4, <3>1, <3>2 DEF HandInv, GraceNeverEarly, Key
      <2> QED BY <1>5, <1>10, <1>11, <2>5, ClockCopies DEF ClockInv
<1> QED BY <1>12, <1>13

\* A new budget has no condition; nothing else users do touches one.
LEMMA ClockUsers ==
    ASSUME TypeOK, TypeOK', HeldInv, ClockInv, Users
    PROVE  ClockInv'
<1>1. UNCHANGED <<now, worker, budgetCache>>
      BY DEF Users, CreateBudget, EditSpec, DeleteBudget, ForeignDone,
             operatorVars, cacheVars, metricVars
<1>2. Succeeds /\ CacheMoves
      BY <1>1, GentleUsers, GentlySucceeds DEF CacheMoves
<1>3. ASSUME NEW b \in Budgets, NEW spec \in Specs, CreateBudget(b, spec)
      PROVE  ClockInv'
      <2>1. PICK n : n = NewBudget(budgetsMade + 1, spec)
            OBVIOUS
      <2>2. n.status.conds.over = None /\ budgetsMade + 1 \in Nat \ {0}
            BY <2>1 DEF NewBudget, EmptyStatus, NoConditions, TypeOK
      <2>3. budgets' = [budgets EXCEPT ![b] = n] /\ budgets[b] = NoBudget
            BY <1>3, <2>1 DEF CreateBudget
      <2>4. NotBefore(b, n)'
            BY <2>2, NoneAssumption DEF NotBefore
      <2>5. ServerClock
            BY <2>3, <2>4, ServerSet
      <2>6. audit'[b] = NoAudit /\ \A a \in Budgets : a # b => audit'[a] = audit[a]
            BY <1>3 DEF CreateBudget, TypeOK, Over
      <2>7. Over(NoAudit, AuditFields) /\ NoAudit.firstOver = None
            BY DEF NoAudit, Over, AuditFields
      <2>8. /\ AuditMoves
            /\ \A a \in Budgets : budgets[a] # NoBudget => audit'[a].firstOver = audit[a].firstOver
            BY <1>1, <2>3, <2>6, <2>7 DEF AuditMoves, ClockInv, AuditInv
      <2> QED BY <1>1, <1>2, <2>5, <2>8, ClockAround
<1>4. ASSUME UNCHANGED audit,
             NEW b \in Budgets, NEW n, budgets' = [budgets EXCEPT ![b] = n],
             n = NoBudget \/ (budgets[b] # NoBudget /\ n.status = budgets[b].status)
      PROVE  ClockInv'
      <2>1. ServerClock
            BY <1>4, ServerSet
      <2>2. AuditMoves /\ \A a \in Budgets : audit'[a].firstOver = audit[a].firstOver
            BY <1>1, <1>4, AuditUnchanged DEF ClockInv
      <2> QED BY <1>1, <1>2, <2>1, <2>2, ClockAround
<1>5. ASSUME NEW b \in Budgets, NEW spec \in Specs, EditSpec(b, spec)
      PROVE  ClockInv'
      <2>1. IsBudget(budgets[b]) /\ budgets[b] # NoBudget
            BY <1>5 DEF EditSpec, TypeOK, AreBudgets
      <2>2. PICK n : n = [budgets[b] EXCEPT !.spec = spec, !.gen = @ + 1]
            OBVIOUS
      <2>3. n.status = budgets[b].status
            BY <2>1, <2>2, SpecSet
      <2> QED BY <1>4, <1>5, <2>1, <2>2, <2>3 DEF EditSpec
<1>6. ASSUME NEW b \in Budgets, NEW cascade \in CascadeModes, DeleteBudget(b, cascade)
      PROVE  ClockInv'
      <2>1. /\ IsBudget(budgets[b]) /\ budgets[b] # NoBudget /\ cascade \in BOOLEAN
            BY <1>6, SwitchAssumption DEF DeleteBudget, TypeOK, AreBudgets
      <2>2. PICK n : n = [budgets[b] EXCEPT !.deleting = TRUE, !.foreign = cascade]
            OBVIOUS
      <2>3. n.status = budgets[b].status
            BY <2>1, <2>2, DeletionSet
      <2>4. \/ budgets' = [budgets EXCEPT ![b] = n]
            \/ budgets' = [budgets EXCEPT ![b] = NoBudget]
            BY <1>6, <2>2 DEF DeleteBudget
      <2>5. UNCHANGED audit
            BY <1>6 DEF DeleteBudget
      <2> QED BY <1>4, <2>1, <2>3, <2>4, <2>5
<1>7. ASSUME NEW b \in Budgets, ForeignDone(b)
      PROVE  ClockInv'
      <2>1. IsBudget(budgets[b]) /\ budgets[b] # NoBudget
            BY <1>7 DEF ForeignDone, TypeOK, AreBudgets
      <2>2. PICK n : n = [budgets[b] EXCEPT !.foreign = FALSE]
            OBVIOUS
      <2>3. n.status = budgets[b].status
            BY <2>1, <2>2, ForeignSet
      <2>4. \/ budgets' = [budgets EXCEPT ![b] = n]
            \/ budgets' = [budgets EXCEPT ![b] = NoBudget]
            BY <1>7, <2>2 DEF ForeignDone
      <2>5. UNCHANGED audit
            BY <1>7 DEF ForeignDone
      <2> QED BY <1>4, <2>1, <2>3, <2>4, <2>5
<1> QED BY <1>3, <1>5, <1>6, <1>7 DEF Users

\* The enforcers leave budgets alone.
LEMMA ClockEnforce ==
    ASSUME TypeOK, TypeOK', HeldInv, ClockInv, NEW fate, NEW blocked,
           Alert \/ Evict(fate, blocked) \/ AlreadyPaused \/ Pause(fate)
    PROVE  ClockInv'
<1>1. /\ UNCHANGED <<now, budgets, budgetsMade, budgetCache, audit>>
      /\ worker.pc = "enforce" /\ (Enforced \/ EnforcerFailed)
      BY DEF Alert, Evict, AlreadyPaused, Pause, Dispatched, Sent, serverVars, cacheVars, boundVars
<1>2. Succeeds /\ AuditMoves /\ CacheMoves /\ ServerClock
      BY <1>1, GentlyNothing, GentlySucceeds, AuditUnchanged, ServerUnchanged
         DEF CacheMoves, ClockInv
<1>3. CASE Enforced
      <2>1. worker'.pc = "stamp" /\ worker'.key = worker.key /\ worker'.obj = worker.obj
            BY <1>3 DEF Enforced, TypeOK, IsWorker, Over, WorkerFields
      <2>2. NotBefore(Key, worker.obj)'
            BY <1>1, <1>2, <2>1, ClockWorker DEF Reconciling
      <2>3. HandInv' /\ GraceNeverEarly'
            BY <2>1, <2>2 DEF HandInv, GraceNeverEarly
      <2> QED BY <1>2, <2>3, ClockCopies DEF ClockInv
<1>4. CASE EnforcerFailed
      BY <1>2, <1>4, ClockEnds DEF EnforcerFailed, EndAndRequeue
<1> QED BY <1>1, <1>3, <1>4

\* Events, a crash and a restart keep the copies in order.
LEMMA ClockManager ==
    ASSUME TypeOK, TypeOK', HeldInv, ClockInv, Manager
    PROVE  ClockInv'
<1>1. ASSUME UNCHANGED <<now, budgets, budgetsMade, worker, audit>>, CacheMoves
      PROVE  ClockInv'
      <2>1. Succeeds /\ AuditMoves /\ ServerClock
            BY <1>1, GentlyNothing, GentlySucceeds, AuditUnchanged, ServerUnchanged DEF ClockInv
      <2> QED BY <1>1, <2>1, ClockAround
<1>2. ASSUME NEW b \in Budgets, SyncBudget(b)
      PROVE  ClockInv'
      <2>1. CacheMoves
            BY <1>2 DEF SyncBudget, CacheMoves, serverVars, TypeOK, AreBudgets, Over
      <2> QED BY <1>1, <1>2, <2>1 DEF SyncBudget, serverVars, boundVars
<1>3. ASSUME NEW n \in PodNames, SyncPod(n)
      PROVE  ClockInv'
      BY <1>1, <1>3 DEF SyncPod, CacheMoves, serverVars, boundVars
<1>4. CASE Start
      BY <1>1, <1>4 DEF Start, CacheMoves, serverVars, boundVars
<1>5. CASE Crash
      <2>1. AuditInv'
            BY <1>5 DEF Crash, ClockInv, AuditInv
      <2>2. UNCHANGED audit
            BY <1>5 DEF Crash
      <2>3. CopiesInv'
            BY <1>5, <2>2 DEF Crash, CopiesInv, ClockInv, NotBefore, NoBudgets, serverVars
      <2>4. HandInv' /\ GraceNeverEarly'
            BY <1>5 DEF Crash, Idle, HandInv, GraceNeverEarly, Reconciling
      <2> QED BY <2>1, <2>3, <2>4 DEF ClockInv
<1> QED BY <1>2, <1>3, <1>4, <1>5, ClockGet DEF Manager

\* ClockInv is inductive, relative to the other invariants.
LEMMA ClockStep == TypeOK /\ TypeOK' /\ HeldInv /\ ClockInv /\ [Next]_vars => ClockInv'
<1> SUFFICES ASSUME TypeOK, TypeOK', HeldInv, ClockInv, [Next]_vars PROVE ClockInv'
    OBVIOUS
<1>1. CASE Refused
      <2>1. UNCHANGED <<now, budgets, budgetsMade, budgetCache, audit>> /\ worker' = Idle
            BY <1>1 DEF Refused, EndAndRequeue, serverVars, cacheVars, boundVars
      <2>2. Succeeds /\ AuditMoves /\ CacheMoves /\ ServerClock
            BY <2>1, GentlyNothing, GentlySucceeds, AuditUnchanged, ServerUnchanged
               DEF CacheMoves, ClockInv
      <2> QED BY <2>1, <2>2, ClockEnds
<1>2. CASE ListFails
      <2>1. /\ worker.pc = "list" /\ worker'.pc = "degrade"
            /\ worker'.key = worker.key /\ worker'.obj = worker.obj
            /\ UNCHANGED <<now, budgets, budgetsMade, budgetCache, audit>>
            BY <1>2 DEF ListFails, Sent, TypeOK, IsWorker, Over, WorkerFields,
                        serverVars, cacheVars, boundVars
      <2>2. Succeeds /\ AuditMoves /\ CacheMoves /\ ServerClock
            BY <2>1, GentlyNothing, GentlySucceeds, AuditUnchanged, ServerUnchanged
               DEF CacheMoves, ClockInv
      <2>3. NotBefore(Key, worker.obj)'
            BY <2>1, <2>2, ClockWorker DEF Reconciling
      <2>4. HandInv' /\ GraceNeverEarly'
            BY <2>1, <2>3 DEF HandInv, GraceNeverEarly
      <2> QED BY <2>2, <2>4, ClockCopies DEF ClockInv
<1>3. CASE Work
      BY <1>1, <1>2, <1>3, ClockAdopt, ClockRemove, ClockList, ClockDegrade, ClockWriteStatus,
         ClockEnforce, ClockStamp DEF Work, Call
<1>4. CASE Kubelet \/ Tick \/ UNCHANGED vars
      <2>1. /\ UNCHANGED <<budgets, budgetsMade, worker, budgetCache, audit>>
            /\ now' \in {now, now + 1}
            <3>1. CASE Kubelet
                  BY <3>1 DEF Kubelet, CreatePod, StartPod, FinishPod, DeletePod, CollectPod,
                              OnPod, operatorVars, cacheVars
            <3>2. CASE Tick \/ UNCHANGED vars
                  BY <3>2 DEF Tick, vars, serverVars, operatorVars, cacheVars, boundVars
            <3> QED BY <1>4, <3>1, <3>2
      <2>2. /\ Succeeds /\ AuditMoves /\ CacheMoves /\ ServerClock
            /\ \A b \in Budgets : audit'[b].firstOver = audit[b].firstOver
            BY <2>1, GentlyNothing, GentlySucceeds, AuditUnchanged, ServerUnchanged
               DEF CacheMoves, ClockInv
      <2> QED BY <2>1, <2>2, ClockAround
<1> QED BY <1>3, <1>4, ClockManager, ClockUsers DEF Next

\* No copy of a budget around, on the server, in the cache or in hand, carries a
\* transition time from before the budget was first found over (writeStatus).
THEOREM ClockAlways == Spec => []ClockInv
<1>1. Init => TypeOK /\ HeldInv /\ ClockInv
      BY TypeInit, HeldInit, ClockInit
<1>2. TypeOK /\ HeldInv /\ ClockInv /\ [Next]_vars => (TypeOK /\ HeldInv /\ ClockInv)'
      BY TypeStep, HeldStep, ClockStep
<1> QED BY <1>1, <1>2, PTL DEF Spec

\* However stale the copies the transition time was taken from, enforcement acts
\* only when some reconcile of this very budget found it over at least the grace
\* period ago.
THEOREM NeverEarly == Spec => []GraceNeverEarly
<1>1. ClockInv => GraceNeverEarly
      BY DEF ClockInv
<1> QED BY <1>1, ClockAlways, PTL
=============================================================================
