------------------------- MODULE BudgetTypeProofs --------------------------
(***************************************************************************)
(* Type correctness of BudgetController, for all names, specs and bounds   *)
(* and with reads as stale as they may be.                                 *)
(***************************************************************************)
EXTENDS BudgetController, AccountingProofs


-----------------------------------------------------------------------------
(***************************************************************************)
(* What the updates of a budget object do to its fields.                   *)
(***************************************************************************)
\* The finalizer set or cleared leaves the rest of a budget alone.
LEMMA FinalizerSet ==
    ASSUME NEW o, IsBudget(o), NEW v \in BOOLEAN
    PROVE  LET n == [o EXCEPT !.finalizer = v]
           IN  /\ IsBudget(n) /\ n.finalizer = v
               /\ n.uid = o.uid /\ n.deleting = o.deleting /\ n.status = o.status /\ n.spec = o.spec
BY DEF IsBudget, Over, BudgetFields

\* An edited spec, with the generation it bumps.
LEMMA SpecSet ==
    ASSUME NEW o, IsBudget(o), NEW spec \in Specs
    PROVE  LET n == [o EXCEPT !.spec = spec, !.gen = @ + 1]
           IN  /\ IsBudget(n)
               /\ n.uid = o.uid /\ n.deleting = o.deleting /\ n.finalizer = o.finalizer
               /\ n.status = o.status /\ n.spec = spec
<1> DEFINE n == [o EXCEPT !.spec = spec, !.gen = @ + 1]
<1>1. /\ Over(n, BudgetFields)
      /\ n.uid = o.uid /\ n.gen = o.gen + 1 /\ n.spec = spec
      /\ n.finalizer = o.finalizer /\ n.foreign = o.foreign /\ n.deleting = o.deleting
      /\ n.status = o.status
      BY DEF IsBudget, Over, BudgetFields
<1> HIDE DEF n
<1>2. IsBudget(n)
      BY <1>1 DEF IsBudget
<1> QED BY <1>1, <1>2 DEF n

\* A budget marked as deleted, with or without a foreign finalizer.
LEMMA DeletionSet ==
    ASSUME NEW o, IsBudget(o), NEW v \in BOOLEAN
    PROVE  LET n == [o EXCEPT !.deleting = TRUE, !.foreign = v]
           IN  /\ IsBudget(n) /\ n.deleting
               /\ n.uid = o.uid /\ n.finalizer = o.finalizer /\ n.status = o.status
               /\ n.spec = o.spec
<1> DEFINE n == [o EXCEPT !.deleting = TRUE, !.foreign = v]
<1>1. /\ Over(n, BudgetFields)
      /\ n.uid = o.uid /\ n.gen = o.gen /\ n.spec = o.spec
      /\ n.finalizer = o.finalizer /\ n.foreign = v /\ n.deleting = TRUE
      /\ n.status = o.status
      BY DEF IsBudget, Over, BudgetFields
<1> QED BY <1>1 DEF IsBudget

\* The foreign finalizer taken off.
LEMMA ForeignSet ==
    ASSUME NEW o, IsBudget(o)
    PROVE  LET n == [o EXCEPT !.foreign = FALSE]
           IN  /\ IsBudget(n)
               /\ n.uid = o.uid /\ n.deleting = o.deleting /\ n.finalizer = o.finalizer
               /\ n.status = o.status /\ n.spec = o.spec
BY DEF IsBudget, Over, BudgetFields

\* A status subresource written as a whole.
LEMMA StatusSet ==
    ASSUME NEW o, IsBudget(o), NEW s, IsStatus(s)
    PROVE  LET n == [o EXCEPT !.status = s]
           IN  /\ IsBudget(n) /\ n.status = s
               /\ n.uid = o.uid /\ n.deleting = o.deleting /\ n.finalizer = o.finalizer
               /\ n.spec = o.spec
BY DEF IsBudget, Over, BudgetFields

\* A created budget is well formed and its QuotaExceeded is unknown.
LEMMA NewBudgetOK ==
    ASSUME NEW uid \in Nat \ {0}, NEW spec \in Specs
    PROVE  LET n == NewBudget(uid, spec)
           IN  /\ IsBudget(n) /\ n.uid = uid /\ ~n.finalizer /\ ~n.deleting
               /\ n.status.conds.over = None
BY DEF NewBudget, IsBudget, IsStatus, EmptyStatus, NoConditions,
       Over, BudgetFields, StatusFields, CondFields

\* A merge patch mixes two well-formed statuses into one, field by field.
LEMMA MergePatchOK ==
    ASSUME NEW s, IsStatus(s), NEW base, NEW new, IsStatus(new)
    PROVE  LET p == MergePatch(s, base, new)
           IN  /\ IsStatus(p)
               /\ p.conds = IF new.conds = base.conds THEN s.conds ELSE new.conds
<1> DEFINE p == MergePatch(s, base, new)
<1>1. Over(p, StatusFields)
      BY DEF MergePatch, IsStatus, Over, StatusFields
<1>2. /\ p.conds = IF new.conds = base.conds THEN s.conds ELSE new.conds
      /\ p.lastEnforcementAt = IF new.lastEnforcementAt = base.lastEnforcementAt
                               THEN s.lastEnforcementAt ELSE new.lastEnforcementAt
      BY DEF MergePatch, IsStatus, Over, StatusFields
<1> QED BY <1>1, <1>2 DEF IsStatus

\* metav1.Time of an instant is an instant.
LEMMA TruncIsInt ==
    ASSUME NEW t \in Int
    PROVE  Trunc(t) \in Int
BY ClockAssumption DEF Trunc

\* Truncation to seconds keeps the order of instants.
LEMMA TruncMonotone ==
    ASSUME NEW s \in Int, NEW t \in Int, s <= t
    PROVE  Trunc(s) <= Trunc(t)
<1> DEFINE k == TicksPerSecond
           p == s \div k
           q == t \div k
<1>1. k \in Nat \ {0}
      BY ClockAssumption
<1>2. /\ s = k * p + (s % k) /\ 0 <= s % k /\ s % k < k
      /\ t = k * q + (t % k) /\ 0 <= t % k /\ t % k < k
      /\ p \in Int /\ q \in Int
      BY <1>1
<1>3. p <= q
      BY <1>1, <1>2
<1>4. k * p <= k * q
      BY <1>1, <1>2, <1>3
<1> QED BY <1>1, <1>2, <1>4 DEF Trunc

\* What writeStatus computes: QuotaExceeded is the verdict, and its transition
\* time is kept or set to the second of the reconcile.
LEMMA ReconciledOK ==
    ASSUME NEW o, IsBudget(o), NEW result, result.over \in BOOLEAN, NEW t \in Int
    PROVE  LET s == ReconciledStatus(o, result, t)
           IN  /\ IsStatus(s)
               /\ s.conds.over = result.over
               /\ s.conds.overAt = IF o.status.conds.over = result.over
                                   THEN o.status.conds.overAt ELSE Trunc(t)
<1> DEFINE c == QuotaCondition(o.status.conds, result, o.spec.quota, t)
           s == ReconciledStatus(o, result, t)
<1>1. /\ Over(c, CondFields)
      /\ c.health = "Ready" /\ c.over = result.over
      /\ c.overAt = IF o.status.conds.over = result.over THEN o.status.conds.overAt ELSE Trunc(t)
      BY DEF QuotaCondition, Over, CondFields
<1> HIDE DEF c
<1>2. c.overAt \in Int
      <2>1. CASE o.status.conds.over = result.over
            BY <1>1, <2>1, NoneAssumption DEF IsBudget, IsStatus
      <2>2. CASE o.status.conds.over # result.over
            BY <1>1, <2>2, TruncIsInt
      <2> QED BY <2>1, <2>2
<1>3. /\ Over(s, StatusFields)
      /\ s.conds = c /\ s.lastEnforcementAt = o.status.lastEnforcementAt
      BY DEF ReconciledStatus, IsBudget, IsStatus, Over, StatusFields, c
<1> HIDE DEF s
<1>4. IsStatus(s)
      BY <1>1, <1>2, <1>3 DEF IsBudget, IsStatus
<1> QED BY <1>1, <1>3, <1>4 DEF s

\* markDegradedAndRequeue leaves QuotaExceeded as it was read.
LEMMA DegradedOK ==
    ASSUME NEW o, IsBudget(o)
    PROVE  LET s == DegradedStatus(o)
           IN  /\ IsStatus(s)
               /\ s.conds.over = o.status.conds.over /\ s.conds.overAt = o.status.conds.overAt
<1> DEFINE c == [o.status.conds EXCEPT !.health = "Degraded"]
           n == DegradedStatus(o)
<1>1. /\ Over(c, CondFields)
      /\ c.health = "Degraded"
      /\ c.over = o.status.conds.over /\ c.overAt = o.status.conds.overAt
      BY DEF IsBudget, IsStatus, Over, CondFields
<1>2. /\ Over(n, StatusFields)
      /\ n.conds = c /\ n.lastEnforcementAt = o.status.lastEnforcementAt
      BY DEF DegradedStatus, IsBudget, IsStatus, Over, StatusFields
<1> HIDE DEF c, n
<1>3. IsStatus(n)
      BY <1>1, <1>2 DEF IsBudget, IsStatus
<1> QED BY <1>1, <1>2, <1>3 DEF n

\* Recording an enforcement leaves the conditions alone.
LEMMA StampedOK ==
    ASSUME NEW s, IsStatus(s), NEW t \in Int
    PROVE  LET n == [s EXCEPT !.lastEnforcementAt = t]
           IN  IsStatus(n) /\ n.conds = s.conds
<1> DEFINE n == [s EXCEPT !.lastEnforcementAt = t]
<1>1. /\ Over(n, StatusFields)
      /\ n.conds = s.conds /\ n.lastEnforcementAt = t
      BY DEF IsStatus, Over, StatusFields
<1> QED BY <1>1 DEF IsStatus

-----------------------------------------------------------------------------
(***************************************************************************)
(* Type correctness.                                                       *)
(***************************************************************************)
\* EXCEPT keeps the domain of a function.
LEMMA OverSet ==
    ASSUME NEW S, NEW f, Over(f, S), NEW x, NEW y
    PROVE  Over([f EXCEPT ![x] = y], S)
BY DEF Over

\* A constant function has its domain.
LEMMA OverMade ==
    ASSUME NEW S, NEW y
    PROVE  Over([x \in S |-> y], S)
BY DEF Over

\* A table of budgets with one entry replaced.
LEMMA TableSet ==
    ASSUME NEW table, AreBudgets(table), NEW b \in Budgets, NEW o, o = NoBudget \/ IsBudget(o)
    PROVE  AreBudgets([table EXCEPT ![b] = o])
BY DEF AreBudgets, Over

\* No budgets at all are a table of budgets.
LEMMA EmptyTable == AreBudgets(NoBudgets)
BY DEF AreBudgets, Over, NoBudgets

\* An idle worker is well formed.
LEMMA IdleOK ==
    ASSUME NEW t
    PROVE  IsWorker(Idle, t) /\ Idle.pc = "idle"
BY DEF IsWorker, Idle, Over, WorkerFields

\* A worker stays well formed as the clock moves.
LEMMA WorkerLater ==
    ASSUME NEW w, NEW t \in Nat, IsWorker(w, t)
    PROVE  IsWorker(w, t + 1)
BY DEF IsWorker

\* The worker with an object in hand, at the start of a reconcile.
LEMMA WorkerTakes ==
    ASSUME NEW t, NEW b \in Budgets, NEW o, IsBudget(o),
           NEW pc \in {"adopt", "remove", "list"}
    PROVE  LET w == [Idle EXCEPT !.pc = pc, !.key = b, !.obj = o]
           IN  IsWorker(w, t) /\ w.pc = pc /\ w.key = b /\ w.obj = o
BY DEF IsWorker, Idle, Over, WorkerFields

\* Type correctness holds initially.
LEMMA TypeInit == Init => TypeOK
<1> SUFFICES ASSUME Init PROVE TypeOK
    OBVIOUS
<1>1. AreBudgets(budgets) /\ AreBudgets(budgetCache)
      BY EmptyTable DEF Init
<1>2. IsWorker(worker, now)
      BY IdleOK DEF Init
<1>3. Over(gauges, Budgets) /\ Over(audit, Budgets)
      BY OverMade DEF Init, Nothing
<1>4. actions \in [Budgets -> Nat]
      BY DEF Init
<1> QED BY <1>1, <1>2, <1>3, <1>4 DEF Init, TypeOK

\* The end of a reconcile.
LEMMA TypeEnds ==
    ASSUME TypeOK, worker.pc # "idle", EndAndRequeue, now' = now
    PROVE  /\ IsWorker(worker', now') /\ queue' \subseteq Budgets
           /\ worker'.pc = "idle"
BY IdleOK DEF TypeOK, EndAndRequeue, IsWorker, Key

\* An enforcer returns.
LEMMA TypeEnforced ==
    ASSUME TypeOK, worker.pc = "enforce", now' = now, 
           Enforced \/ EnforcerFailed
    PROVE  /\ IsWorker(worker', now') /\ queue' \subseteq Budgets
           /\ actions' \in [Budgets -> Nat]
<1>1. CASE Enforced
      <2>1. /\ Over(worker', WorkerFields) /\ worker'.pc = "stamp"
            /\ worker'.key = worker.key /\ worker'.obj = worker.obj
            /\ worker'.at = worker.at /\ worker'.result = worker.result
            BY <1>1 DEF Enforced, TypeOK, IsWorker, Over, WorkerFields
      <2>2. IsWorker(worker', now')
            BY <2>1 DEF TypeOK, IsWorker
      <2>3. Key \in Budgets
            BY DEF TypeOK, IsWorker, Key
      <2>4. \A n \in Nat : Bump(n) \in Nat
            BY DEF Bump
      <2>5. actions' \in [Budgets -> Nat]
            BY <1>1, <2>3, <2>4 DEF Enforced, TypeOK
      <2> QED BY <1>1, <2>2, <2>5 DEF Enforced, TypeOK
<1>2. CASE EnforcerFailed
      BY <1>2, TypeEnds DEF EnforcerFailed, TypeOK
<1> QED BY <1>1, <1>2

\* Type correctness is kept by Get.
LEMMA TypeGet ==
    ASSUME TypeOK, NEW b \in Budgets, Get(b)
    PROVE  TypeOK'
<1> DEFINE obj == budgetCache[b]
           goTo(pc) == [Idle EXCEPT !.pc = pc, !.key = b, !.obj = obj]
<1>1. UNCHANGED <<now, budgetsMade, up, budgets, budgetCache, actions, audit>>
      BY DEF Get, serverVars, cacheVars, boundVars
<1>2. queue' \subseteq Budgets
      BY DEF Get, TypeOK
<1>3. Over(gauges', Budgets)
      BY OverSet DEF Get, TypeOK, ClearBudgetMetrics
<1>4. IsWorker(worker', now')
      <2>1. CASE obj = NoBudget \/ UNCHANGED worker
            BY <1>1, <2>1 DEF Get, TypeOK
      <2>2. CASE obj # NoBudget /\ ~UNCHANGED worker
            <3>1. IsBudget(obj)
                  BY <2>2 DEF TypeOK, AreBudgets
            <3>2. PICK pc \in {"adopt", "remove", "list"} : worker' = goTo(pc)
                  BY <2>2 DEF Get
            <3>3. IsWorker(goTo(pc), now')
                  BY <3>1, WorkerTakes
            <3> QED BY <3>2, <3>3
      <2> QED BY <2>1, <2>2
<1> QED BY <1>1, <1>2, <1>3, <1>4 DEF TypeOK

\* Type correctness is kept by a conflict.
LEMMA TypeRefused ==
    ASSUME TypeOK, Refused
    PROVE  TypeOK'
BY TypeEnds DEF Refused, TypeOK, serverVars, cacheVars, metricVars, boundVars

\* Type correctness is kept by the addition of the finalizer.
LEMMA TypeAdopt ==
    ASSUME TypeOK, NEW fate, Adopt(fate)
    PROVE  TypeOK'
<1> DEFINE adopted == [worker.obj EXCEPT !.finalizer = TRUE]
<1>1. UNCHANGED <<now, budgetsMade, up, budgetCache, gauges, actions, audit>>
      BY DEF Adopt, Sent, cacheVars, metricVars
<1>2. Key \in Budgets /\ IsBudget(adopted)
      BY FinalizerSet DEF Adopt, TypeOK, IsWorker, Key
<1>3. AreBudgets(budgets')
      BY <1>2, TableSet DEF Adopt, TypeOK
<1>4. IsWorker(worker', now') /\ queue' \subseteq Budgets
      <2>1. CASE fate = "ok"
            <3>1. /\ Over(worker', WorkerFields) /\ worker'.pc = "list"
                  /\ worker'.key = worker.key /\ worker'.obj = adopted
                  BY <2>1 DEF Adopt, TypeOK, IsWorker, Over, WorkerFields
            <3> QED BY <1>2, <2>1, <3>1 DEF Adopt, TypeOK, IsWorker, Key
      <2>2. CASE fate # "ok"
            BY <1>1, <2>2, TypeEnds DEF Adopt
      <2> QED BY <2>1, <2>2
<1> QED BY <1>1, <1>3, <1>4 DEF TypeOK

\* Type correctness is kept by the removal of the finalizer.
LEMMA TypeRemove ==
    ASSUME TypeOK, NEW fate, Remove(fate)
    PROVE  TypeOK'
<1>1. UNCHANGED <<now, budgetsMade, up, budgetCache, gauges, actions, audit>>
      BY DEF Remove, Sent, cacheVars, metricVars
<1>2. Key \in Budgets /\ IsBudget(worker.obj)
      BY DEF Remove, TypeOK, IsWorker, Key
<1>3. WithoutFinalizer(worker.obj) = NoBudget \/ IsBudget(WithoutFinalizer(worker.obj))
      BY <1>2, FinalizerSet DEF WithoutFinalizer
<1>4. AreBudgets(budgets')
      BY <1>2, <1>3, TableSet DEF Remove, TypeOK
<1>5. IsWorker(worker', now') /\ queue' \subseteq Budgets
      <2>1. CASE fate = "ok"
            BY <1>1, <2>1, IdleOK DEF Remove, TypeOK
      <2>2. CASE fate # "ok"
            BY <1>1, <2>2, TypeEnds DEF Remove
      <2> QED BY <2>1, <2>2
<1> QED BY <1>1, <1>4, <1>5 DEF TypeOK

\* What is concluded is a Boolean, whatever the totals are.
LEMMA VerdictOver ==
    ASSUME NEW spec, NEW listing, NEW t
    PROVE  Verdict(spec, listing, t).over \in BOOLEAN
BY DEF Verdict, Compute

\* Type correctness is kept by List.
LEMMA TypeList ==
    ASSUME TypeOK, List
    PROVE  TypeOK'
<1> DEFINE listing == Listing(podCache, worker.obj.spec.selector)
           result  == Verdict(worker.obj.spec, listing, now)
<1>1. UNCHANGED <<now, budgetsMade, up, budgets, budgetCache, queue, gauges, actions>>
      BY DEF List, serverVars, cacheVars, metricVars, boundVars
<1>2. result.over \in BOOLEAN
      BY VerdictOver
<1>3. worker' = [worker EXCEPT !.pc = "write", !.at = now,
                               !.listing = listing, !.result = result]
      BY DEF List
<1> HIDE DEF listing, result
<1>4. /\ Over(worker', WorkerFields) /\ worker'.pc = "write"
      /\ worker'.key = worker.key /\ worker'.obj = worker.obj
      /\ worker'.at = now /\ worker'.result = result
      BY <1>3 DEF TypeOK, IsWorker, Over, WorkerFields
<1>5. IsWorker(worker', now')
      BY <1>1, <1>2, <1>4 DEF List, TypeOK, IsWorker
<1>6. Over(audit', Budgets)
      BY OverSet DEF List, TypeOK
<1> QED BY <1>1, <1>5, <1>6 DEF TypeOK

\* Type correctness is kept by a failed listing.
LEMMA TypeListFails ==
    ASSUME TypeOK, ListFails
    PROVE  TypeOK'
<1>1. UNCHANGED <<now, budgetsMade, up, budgets, budgetCache, queue, gauges, actions, audit>>
      BY DEF ListFails, Sent, serverVars, cacheVars, metricVars, boundVars
<1>2. /\ Over(worker', WorkerFields) /\ worker'.pc = "degrade"
      /\ worker'.key = worker.key /\ worker'.obj = worker.obj
      BY DEF ListFails, TypeOK, IsWorker, Over, WorkerFields
<1>3. IsWorker(worker', now')
      BY <1>2 DEF ListFails, TypeOK, IsWorker
<1> QED BY <1>1, <1>3 DEF TypeOK

\* Type correctness is kept by Degrade.
LEMMA TypeDegrade ==
    ASSUME TypeOK, NEW fate, Degrade(fate)
    PROVE  TypeOK'
<1> DEFINE server == budgets[Key]
           status == MergePatch(server.status, worker.obj.status, DegradedStatus(worker.obj))
<1>1. UNCHANGED <<now, budgetsMade, up, budgetCache, gauges, actions, audit>>
      BY DEF Degrade, Sent, cacheVars, metricVars
<1>2. Key \in Budgets /\ IsBudget(worker.obj)
      BY DEF Degrade, TypeOK, IsWorker, Key
<1>3. ASSUME server # NoBudget
      PROVE  IsBudget([server EXCEPT !.status = status])
      <2>1. IsBudget(server)
            BY <1>2, <1>3 DEF TypeOK, AreBudgets
      <2>2. IsStatus(DegradedStatus(worker.obj))
            BY <1>2, DegradedOK
      <2>3. IsStatus(status)
            BY <2>1, <2>2, MergePatchOK DEF IsBudget
      <2> QED BY <2>1, <2>3, StatusSet
<1>4. AreBudgets(budgets')
      BY <1>2, <1>3, TableSet DEF Degrade, TypeOK
<1>5. IsWorker(worker', now') /\ queue' \subseteq Budgets
      BY <1>1, TypeEnds DEF Degrade
<1> QED BY <1>1, <1>4, <1>5 DEF TypeOK

\* Type correctness is kept by WriteStatus.
LEMMA TypeWriteStatus ==
    ASSUME TypeOK, NEW fate, WriteStatus(fate)
    PROVE  TypeOK'
<1> DEFINE server  == budgets[Key]
           status  == ReconciledStatus(worker.obj, worker.result, worker.at)
           patched == [server EXCEPT !.status = MergePatch(@, worker.obj.status, status)]
           target  == WorthEnforcing(patched, worker.result, worker.listing, worker.at)
<1>1. UNCHANGED <<now, budgetsMade, up, budgetCache, actions>>
      BY DEF WriteStatus, Sent, cacheVars
<1>2. /\ Key \in Budgets /\ IsBudget(worker.obj)
      /\ worker.at \in 0..now /\ worker.result.over \in BOOLEAN
      BY DEF WriteStatus, TypeOK, IsWorker, Key
<1>3. CASE server = NoBudget
      BY <1>1, <1>3, TypeEnds DEF WriteStatus, TypeOK
<1>4. CASE server # NoBudget
      <2>1. IsBudget(server)
            BY <1>2, <1>4 DEF TypeOK, AreBudgets
      <2>2. worker.at \in Int
            BY <1>2
      <2>3. IsStatus(status)
            BY <1>2, <2>2, ReconciledOK
      <2>4. IsStatus(MergePatch(server.status, worker.obj.status, status))
            BY <2>1, <2>3, MergePatchOK DEF IsBudget
      <2>5. IsBudget(patched)
            BY <2>1, <2>4, StatusSet
      <2> HIDE DEF patched, status, target
      <2>6. AreBudgets(budgets')
            BY <1>2, <1>4, <2>5, TableSet DEF WriteStatus, TypeOK, patched, status
      <2>7. Over(gauges', Budgets) /\ Over(audit', Budgets)
            <3>1. gauges' = gauges \/ \E y : gauges' = [gauges EXCEPT ![Key] = y]
                  BY <1>4 DEF WriteStatus
            <3>2. audit' = audit \/ \E y : audit' = [audit EXCEPT ![Key] = y]
                  BY <1>4 DEF WriteStatus
            <3> QED BY <3>1, <3>2, OverSet DEF TypeOK
      <2>8. IsWorker(worker', now') /\ queue' \subseteq Budgets
            <3>1. CASE fate = "ok" /\ target # None
                  <4>1. /\ worker' = [worker EXCEPT !.pc = "enforce", !.obj = patched,
                                         !.listing = None,
                                         !.target = [name |-> target,
                                                     pod  |-> worker.listing[target]]]
                        /\ queue' = queue
                        BY <1>4, <3>1 DEF WriteStatus, patched, status, target
                  <4>2. /\ Over(worker', WorkerFields) /\ worker'.pc = "enforce"
                        /\ worker'.key = worker.key /\ worker'.obj = patched
                        /\ worker'.at = worker.at /\ worker'.result = worker.result
                        BY <4>1 DEF TypeOK, IsWorker, Over, WorkerFields
                  <4> QED BY <1>1, <1>2, <2>5, <4>1, <4>2 DEF TypeOK, IsWorker, Key
            <3>2. CASE ~(fate = "ok" /\ target # None)
                  BY <1>1, <1>4, <3>2, TypeEnds DEF WriteStatus, patched, status, target
            <3> QED BY <3>1, <3>2
      <2> QED BY <1>1, <2>6, <2>7, <2>8 DEF TypeOK
<1> QED BY <1>3, <1>4

\* Type correctness is kept by the enforcers.
LEMMA TypeEnforce ==
    ASSUME TypeOK, NEW fate, NEW blocked,
           Alert \/ Evict(fate, blocked) \/ AlreadyPaused \/ Pause(fate)
    PROVE  TypeOK'
<1>1. /\ UNCHANGED <<now, budgetsMade, up, budgets, budgetCache, gauges, audit>>
      /\ worker.pc = "enforce" /\ (Enforced \/ EnforcerFailed)
      BY DEF Alert, Evict, AlreadyPaused, Pause, Dispatched, Sent, serverVars, cacheVars, boundVars
<1>2. /\ IsWorker(worker', now') /\ queue' \subseteq Budgets
      /\ actions' \in [Budgets -> Nat]
      BY <1>1, TypeEnforced
<1> QED BY <1>1, <1>2 DEF TypeOK

\* Type correctness is kept by Stamp.
LEMMA TypeStamp ==
    ASSUME TypeOK, NEW fate, Stamp(fate)
    PROVE  TypeOK'
<1> DEFINE server == budgets[Key]
           base   == worker.obj.status
           status == [base EXCEPT !.lastEnforcementAt = Trunc(worker.at)]
<1>1. UNCHANGED <<now, budgetsMade, up, budgetCache, gauges, actions, audit>>
      BY DEF Stamp, Sent, cacheVars, metricVars
<1>2. Key \in Budgets /\ IsBudget(worker.obj) /\ worker.at \in 0..now
      BY DEF Stamp, TypeOK, IsWorker, Key
<1>3. ASSUME server # NoBudget
      PROVE  IsBudget([server EXCEPT !.status = MergePatch(@, base, status)])
      <2>1. IsBudget(server)
            BY <1>2, <1>3 DEF TypeOK, AreBudgets
      <2>2. Trunc(worker.at) \in Int
            BY <1>2, TruncIsInt
      <2>3. IsStatus(status)
            BY <1>2, <2>2, StampedOK DEF IsBudget
      <2>4. IsStatus(MergePatch(server.status, base, status))
            BY <2>1, <2>3, MergePatchOK DEF IsBudget
      <2> QED BY <2>1, <2>4, StatusSet
<1>4. AreBudgets(budgets')
      BY <1>2, <1>3, TableSet DEF Stamp, TypeOK
<1>5. IsWorker(worker', now') /\ queue' \subseteq Budgets
      BY <1>1, TypeEnds DEF Stamp
<1> QED BY <1>1, <1>4, <1>5 DEF TypeOK

\* Type correctness is kept by events, a crash and a restart.
LEMMA TypeManager ==
    ASSUME TypeOK, Manager
    PROVE  TypeOK'
<1>1. ASSUME NEW b \in Budgets, SyncBudget(b)
      PROVE  TypeOK'
      <2>1. AreBudgets(budgetCache')
            BY <1>1, TableSet DEF SyncBudget, TypeOK, AreBudgets
      <2> QED BY <1>1, <2>1 DEF SyncBudget, TypeOK, serverVars, metricVars, boundVars
<1>2. ASSUME NEW n \in PodNames, SyncPod(n)
      PROVE  TypeOK'
      BY <1>2 DEF SyncPod, SelectedBy, TypeOK, serverVars, metricVars, boundVars
<1>3. CASE Crash
      <2>1. AreBudgets(budgetCache') /\ IsWorker(worker', now')
            BY <1>3, EmptyTable, IdleOK DEF Crash
      <2>2. Over(gauges', Budgets) /\ Over(audit', Budgets)
            BY <1>3 DEF Crash, Nothing, Over, TypeOK
      <2>3. actions' \in [Budgets -> Nat]
            BY <1>3 DEF Crash
      <2> QED BY <1>3, <2>1, <2>2, <2>3 DEF Crash, TypeOK, serverVars
<1>4. CASE Start
      BY <1>4 DEF Start, TypeOK, serverVars, metricVars, boundVars
<1> QED BY <1>1, <1>2, <1>3, <1>4, TypeGet DEF Manager

\* Type correctness is kept by what users do.
LEMMA TypeUsers ==
    ASSUME TypeOK, Users
    PROVE  TypeOK'
<1>1. ASSUME NEW b \in Budgets, NEW spec \in Specs, CreateBudget(b, spec)
      PROVE  TypeOK'
      <2>1. budgetsMade' \in Nat \ {0}
            BY <1>1 DEF CreateBudget, TypeOK
      <2>2. AreBudgets(budgets')
            BY <1>1, <2>1, NewBudgetOK, TableSet DEF CreateBudget, TypeOK
      <2>3. Over(audit', Budgets)
            BY <1>1, OverSet DEF CreateBudget, TypeOK
      <2> QED BY <1>1, <2>1, <2>2, <2>3
              DEF CreateBudget, TypeOK, operatorVars, cacheVars, metricVars
<1>2. ASSUME NEW b \in Budgets, NEW spec \in Specs, EditSpec(b, spec)
      PROVE  TypeOK'
      <2>1. IsBudget(budgets[b])
            BY <1>2 DEF EditSpec, TypeOK, AreBudgets
      <2>2. IsBudget([budgets[b] EXCEPT !.spec = spec, !.gen = @ + 1])
            BY <2>1, SpecSet
      <2>3. AreBudgets(budgets')
            BY <1>2, <2>2, TableSet DEF EditSpec, TypeOK
      <2> QED BY <1>2, <2>3 DEF EditSpec, TypeOK, operatorVars, cacheVars, metricVars, boundVars
<1>3. ASSUME NEW b \in Budgets, NEW cascade \in CascadeModes, DeleteBudget(b, cascade)
      PROVE  TypeOK'
      <2>1. IsBudget(budgets[b]) /\ cascade \in BOOLEAN
            BY <1>3, SwitchAssumption DEF DeleteBudget, TypeOK, AreBudgets
      <2>2. IsBudget([budgets[b] EXCEPT !.deleting = TRUE, !.foreign = cascade])
            BY <2>1, DeletionSet
      <2>3. AreBudgets(budgets')
            BY <1>3, <2>2, TableSet DEF DeleteBudget, TypeOK
      <2> QED BY <1>3, <2>3 DEF DeleteBudget, TypeOK, operatorVars, cacheVars, metricVars, boundVars
<1>4. ASSUME NEW b \in Budgets, ForeignDone(b)
      PROVE  TypeOK'
      <2>1. IsBudget(budgets[b])
            BY <1>4 DEF ForeignDone, TypeOK, AreBudgets
      <2>2. IsBudget([budgets[b] EXCEPT !.foreign = FALSE])
            BY <2>1, ForeignSet
      <2>3. AreBudgets(budgets')
            BY <1>4, <2>2, TableSet DEF ForeignDone, TypeOK
      <2> QED BY <1>4, <2>3 DEF ForeignDone, TypeOK, operatorVars, cacheVars, metricVars, boundVars
<1> QED BY <1>1, <1>2, <1>3, <1>4 DEF Users

\* Nothing typed here moves when pods or the clock do, but the clock itself.
LEMMA TypeSurroundings ==
    ASSUME TypeOK, Kubelet \/ Tick \/ UNCHANGED vars
    PROVE  TypeOK'
<1>1. CASE Kubelet
      <2>1. UNCHANGED <<now, budgets, operatorVars, budgetsMade, faults, crashes, audit>>
            BY <1>1 DEF Kubelet, CreatePod, StartPod, FinishPod, DeletePod, CollectPod, OnPod
      <2> QED BY <2>1 DEF TypeOK, operatorVars, cacheVars, metricVars
<1>2. CASE Tick
      <2>1. IsWorker(worker', now')
            BY <1>2, WorkerLater
               DEF Tick, TypeOK, operatorVars, cacheVars, metricVars, boundVars
      <2> QED BY <1>2, <2>1
              DEF Tick, TypeOK, serverVars, operatorVars, cacheVars, metricVars, boundVars
<1>3. CASE UNCHANGED vars
      BY <1>3 DEF vars, TypeOK, serverVars, cacheVars, metricVars, boundVars
<1> QED BY <1>1, <1>2, <1>3

\* Type correctness is inductive.
LEMMA TypeStep == TypeOK /\ [Next]_vars => TypeOK'
<1> SUFFICES ASSUME TypeOK, [Next]_vars PROVE TypeOK'
    OBVIOUS
<1>1. CASE Work
      BY <1>1, TypeRefused, TypeAdopt, TypeRemove, TypeList, TypeListFails, TypeDegrade,
         TypeWriteStatus, TypeEnforce, TypeStamp DEF Work, Call
<1> QED BY <1>1, TypeManager, TypeUsers, TypeSurroundings DEF Next

\* Every copy of a budget the operator and the server hold stays well formed,
\* and every QuotaExceeded condition carries the instant of its last flip, under
\* stale reads, conflicts, lost answers and crashes.
THEOREM TypeCorrect == Spec => []TypeOK
BY TypeInit, TypeStep, PTL DEF Spec
=============================================================================
