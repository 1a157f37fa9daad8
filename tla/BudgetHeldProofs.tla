------------------------- MODULE BudgetHeldProofs --------------------------
(***************************************************************************)
(* No series outlives its budget: the invariants HeldInv and CacheInv of   *)
(* BudgetInvariants are inductive.  And BudgetController implements        *)
(* BudgetLifecycle: every step of the operator, of users and of the        *)
(* garbage collector is a step in the life of one budget, the loss of the  *)
(* registry, or none.                                                      *)
(***************************************************************************)
EXTENDS BudgetRefinements, BudgetTypeProofs

-----------------------------------------------------------------------------
(***************************************************************************)
(* What happens to a budget on the server, from o to n, in any step but    *)
(* the removal of the finalizer: nothing, an update, the end of a budget   *)
(* without the finalizer, or a creation.                                   *)
(***************************************************************************)
Updated(o, n) ==
    /\ o # NoBudget /\ n # NoBudget /\ n.uid = o.uid
    /\ (o.deleting => n.deleting) /\ (o.finalizer => n.finalizer)

Gentle(o, n) ==
    \/ n = o
    \/ Updated(o, n)
    \/ o # NoBudget /\ ~o.finalizer /\ n = NoBudget
    \/ o = NoBudget /\ n # NoBudget /\ n.uid = budgetsMade + 1 /\ budgetsMade' = budgetsMade + 1

Gently ==
    /\ \A b \in Budgets : Gentle(budgets[b], budgets'[b])
    /\ budgetsMade' \in {budgetsMade, budgetsMade + 1}

\* A well-formed budget is not the absent one.
LEMMA BudgetExists ==
    ASSUME NEW o, IsBudget(o)
    PROVE  o # NoBudget
BY DEF IsBudget, NoBudget

\* A gentle change of one budget is a gentle step.
LEMMA GentlySet ==
    ASSUME TypeOK, NEW b \in Budgets, NEW n, Gentle(budgets[b], n),
           budgets' = [budgets EXCEPT ![b] = n],
           budgetsMade' \in {budgetsMade, budgetsMade + 1}
    PROVE  Gently
BY DEF Gently, Gentle, TypeOK, AreBudgets, Over

\* A step that leaves the server alone is gentle.
LEMMA GentlyNothing ==
    ASSUME UNCHANGED <<budgets, budgetsMade>>
    PROVE  Gently
BY DEF Gently, Gentle

\* A status write is gentle.
LEMMA GentleStatus ==
    ASSUME NEW o, IsBudget(o), NEW s, IsStatus(s)
    PROVE  Gentle(o, [o EXCEPT !.status = s])
BY StatusSet, BudgetExists DEF Gentle, Updated

\* Adopt is gentle.
LEMMA GentleAdopt ==
    ASSUME TypeOK, NEW fate, Adopt(fate)
    PROVE  Gently
<1>1. Key \in Budgets /\ IsBudget(worker.obj) /\ budgets[Key] = worker.obj
      BY DEF Adopt, Current, TypeOK, IsWorker, Key
<1>2. Gentle(budgets[Key], [worker.obj EXCEPT !.finalizer = TRUE])
      BY <1>1, FinalizerSet, BudgetExists DEF Gentle, Updated
<1>3. budgetsMade' = budgetsMade
      BY DEF Adopt, Sent
<1> QED BY <1>1, <1>2, <1>3, GentlySet, GentlyNothing DEF Adopt

\* Degrade is gentle.
LEMMA GentleDegrade ==
    ASSUME TypeOK, NEW fate, Degrade(fate)
    PROVE  Gently
<1> DEFINE server == budgets[Key]
           status == MergePatch(server.status, worker.obj.status, DegradedStatus(worker.obj))
<1>1. Key \in Budgets /\ IsBudget(worker.obj) /\ budgetsMade' = budgetsMade
      BY DEF Degrade, Sent, TypeOK, IsWorker, Key
<1>2. ASSUME server # NoBudget
      PROVE  Gentle(server, [server EXCEPT !.status = status])
      <2>1. IsBudget(server)
            BY <1>1, <1>2 DEF TypeOK, AreBudgets
      <2>2. IsStatus(DegradedStatus(worker.obj))
            BY <1>1, DegradedOK
      <2>3. IsStatus(status)
            BY <2>1, <2>2, MergePatchOK DEF IsBudget
      <2> QED BY <2>1, <2>3, GentleStatus
<1> QED BY <1>1, <1>2, GentlySet, GentlyNothing DEF Degrade

\* WriteStatus is gentle.
LEMMA GentleWriteStatus ==
    ASSUME TypeOK, NEW fate, WriteStatus(fate)
    PROVE  Gently
<1> DEFINE server  == budgets[Key]
           status  == ReconciledStatus(worker.obj, worker.result, worker.at)
           patched == [server EXCEPT !.status = MergePatch(@, worker.obj.status, status)]
<1>1. /\ Key \in Budgets /\ IsBudget(worker.obj) /\ budgetsMade' = budgetsMade
      /\ worker.at \in Int /\ worker.result.over \in BOOLEAN
      BY DEF WriteStatus, Sent, TypeOK, IsWorker, Key
<1>2. ASSUME server # NoBudget
      PROVE  Gentle(server, patched)
      <2>1. IsBudget(server)
            BY <1>1, <1>2 DEF TypeOK, AreBudgets
      <2>2. IsStatus(status)
            BY <1>1, ReconciledOK
      <2>3. IsStatus(MergePatch(server.status, worker.obj.status, status))
            BY <2>1, <2>2, MergePatchOK DEF IsBudget
      <2> QED BY <2>1, <2>3, GentleStatus
<1> HIDE DEF patched
<1>3. \/ UNCHANGED budgets
      \/ server # NoBudget /\ budgets' = [budgets EXCEPT ![Key] = patched]
      BY DEF WriteStatus, patched
<1> QED BY <1>1, <1>2, <1>3, GentlySet, GentlyNothing

\* Stamp is gentle.
LEMMA GentleStamp ==
    ASSUME TypeOK, NEW fate, Stamp(fate)
    PROVE  Gently
<1> DEFINE server == budgets[Key]
           base   == worker.obj.status
           status == [base EXCEPT !.lastEnforcementAt = Trunc(worker.at)]
<1>1. /\ Key \in Budgets /\ IsBudget(worker.obj) /\ worker.at \in Int
      /\ budgetsMade' = budgetsMade
      BY DEF Stamp, Sent, TypeOK, IsWorker, Key
<1>2. ASSUME server # NoBudget
      PROVE  Gentle(server, [server EXCEPT !.status = MergePatch(@, base, status)])
      <2>1. IsBudget(server)
            BY <1>1, <1>2 DEF TypeOK, AreBudgets
      <2>2. Trunc(worker.at) \in Int
            BY <1>1, TruncIsInt
      <2>3. IsStatus(status)
            BY <1>1, <2>2, StampedOK DEF IsBudget
      <2>4. IsStatus(MergePatch(server.status, base, status))
            BY <2>1, <2>3, MergePatchOK DEF IsBudget
      <2> QED BY <2>1, <2>4, GentleStatus
<1> QED BY <1>1, <1>2, GentlySet, GentlyNothing DEF Stamp

\* Users act gently: deletion drops only a budget without the finalizer.
LEMMA GentleUsers ==
    ASSUME TypeOK, Users
    PROVE  Gently
<1>1. ASSUME NEW b \in Budgets, NEW spec \in Specs, CreateBudget(b, spec)
      PROVE  Gently
      <2>1. /\ budgetsMade + 1 \in Nat \ {0} /\ budgetsMade' = budgetsMade + 1
            /\ budgets' = [budgets EXCEPT ![b] = NewBudget(budgetsMade', spec)]
            /\ budgets[b] = NoBudget
            BY <1>1 DEF CreateBudget, TypeOK
      <2>2. Gentle(budgets[b], NewBudget(budgetsMade', spec))
            BY <2>1, NewBudgetOK, BudgetExists DEF Gentle
      <2> QED BY <2>1, <2>2, GentlySet
<1>2. ASSUME NEW b \in Budgets, NEW spec \in Specs, EditSpec(b, spec)
      PROVE  Gently
      <2>1. IsBudget(budgets[b])
            BY <1>2 DEF EditSpec, TypeOK, AreBudgets
      <2>2. Gentle(budgets[b], [budgets[b] EXCEPT !.spec = spec, !.gen = @ + 1])
            BY <2>1, SpecSet, BudgetExists DEF Gentle, Updated
      <2> QED BY <1>2, <2>2, GentlySet DEF EditSpec, boundVars
<1>3. ASSUME NEW b \in Budgets, NEW cascade \in CascadeModes, DeleteBudget(b, cascade)
      PROVE  Gently
      <2> DEFINE marked == [budgets[b] EXCEPT !.deleting = TRUE, !.foreign = cascade]
      <2>1. IsBudget(budgets[b]) /\ cascade \in BOOLEAN
            BY <1>3, SwitchAssumption DEF DeleteBudget, TypeOK, AreBudgets
      <2>2. Gentle(budgets[b], marked)
            BY <2>1, DeletionSet, BudgetExists DEF Gentle, Updated
      <2>3. budgets[b].finalizer \/ Gentle(budgets[b], NoBudget)
            BY <2>1, BudgetExists DEF Gentle
      <2> HIDE DEF marked
      <2>4. \/ budgets' = [budgets EXCEPT ![b] = marked]
            \/ ~budgets[b].finalizer /\ budgets' = [budgets EXCEPT ![b] = NoBudget]
            BY <1>3 DEF DeleteBudget, marked
      <2>5. budgetsMade' = budgetsMade
            BY <1>3 DEF DeleteBudget, boundVars
      <2> QED BY <2>2, <2>3, <2>4, <2>5, GentlySet
<1>4. ASSUME NEW b \in Budgets, ForeignDone(b)
      PROVE  Gently
      <2>1. IsBudget(budgets[b])
            BY <1>4 DEF ForeignDone, TypeOK, AreBudgets
      <2>2. Gentle(budgets[b], [budgets[b] EXCEPT !.foreign = FALSE])
            BY <2>1, ForeignSet, BudgetExists DEF Gentle, Updated
      <2>3. budgets[b].finalizer \/ Gentle(budgets[b], NoBudget)
            BY <2>1, BudgetExists DEF Gentle
      <2>4. \/ budgets' = [budgets EXCEPT ![b] = [@ EXCEPT !.foreign = FALSE]]
            \/ ~budgets[b].finalizer /\ budgets' = [budgets EXCEPT ![b] = NoBudget]
            BY <1>4 DEF ForeignDone
      <2>5. budgetsMade' = budgetsMade
            BY <1>4 DEF ForeignDone, boundVars
      <2> QED BY <2>2, <2>3, <2>4, <2>5, GentlySet
<1> QED BY <1>1, <1>2, <1>3, <1>4 DEF Users

\* Copies and holdings survive a gentle step.
LEMMA PastKept ==
    ASSUME Gently, budgetsMade \in Nat, NEW b \in Budgets, NEW c, c.uid \in Nat, IsPast(b, c),
           budgets[b] # NoBudget => budgets[b].uid <= budgetsMade
    PROVE  IsPast(b, c)'
BY DEF Gently, Gentle, Updated, IsPast

\* What is held stays held through a gentle step.
LEMMA HeldKept ==
    ASSUME Gently, NEW b \in Budgets, NEW c, Held(b, c)
    PROVE  Held(b, c)'
BY DEF Gently, Gentle, Updated, Held

\* Incarnations stay counted through a gentle step.
LEMMA UidsKept ==
    ASSUME Gently, budgetsMade \in Nat, NEW b \in Budgets,
           budgets[b] # NoBudget => budgets[b].uid \in Nat /\ budgets[b].uid <= budgetsMade
    PROVE  (budgets[b] # NoBudget => budgets[b].uid <= budgetsMade)'
BY DEF Gently, Gentle, Updated

-----------------------------------------------------------------------------
(***************************************************************************)
(* No series outlives its budget.                                          *)
(***************************************************************************)
CacheMoves ==
    \A b \in Budgets : budgetCache'[b] \in {budgetCache[b], budgets'[b]}

\* A gentle step that moves the cache only to what the server holds keeps the
\* invariant of the cache.
LEMMA HeldCache ==
    ASSUME TypeOK, TypeOK', UidsCounted, CacheInv, Gently, CacheMoves
    PROVE  UidsCounted' /\ CacheInv'
<1>1. UidsCounted'
      <2> SUFFICES ASSUME NEW b \in Budgets
                   PROVE  (budgets[b] # NoBudget => budgets[b].uid <= budgetsMade)'
          BY DEF UidsCounted
      <2>1. budgets[b] # NoBudget => budgets[b].uid \in Nat /\ budgets[b].uid <= budgetsMade
            BY DEF UidsCounted, TypeOK, AreBudgets, IsBudget
      <2> QED BY <2>1, UidsKept DEF TypeOK
<1>2. ASSUME NEW b \in Budgets, NEW c, c = budgetCache'[b], c # NoBudget
      PROVE  /\ IsPast(b, c)'
             /\ c.finalizer /\ ~c.deleting => Held(b, c)'
      <2>1. CASE c = budgetCache[b]
            <3>1. c.uid \in Nat
                  BY <1>2, <2>1 DEF TypeOK, AreBudgets, IsBudget
            <3>2. IsPast(b, c) /\ (c.finalizer /\ ~c.deleting => Held(b, c))
                  BY <1>2, <2>1 DEF CacheInv
            <3> QED BY <3>1, <3>2, PastKept, HeldKept DEF UidsCounted, TypeOK
      <2>2. CASE c = budgets'[b]
            BY <1>1, <1>2, <2>2 DEF UidsCounted, IsPast, Held, TypeOK, AreBudgets, IsBudget
      <2> QED BY <1>2, <2>1, <2>2 DEF CacheMoves
<1>3. CacheInv'
      BY <1>2 DEF CacheInv
<1> QED BY <1>1, <1>3

\* Series are cleared, kept, or published for a budget that is held.
LEMMA HeldSeries ==
    ASSUME SeriesNeverOutliveBudget, Gently,
           \A b \in Budgets : \/ gauges'[b] = gauges[b]
                              \/ gauges'[b] = None
                              \/ budgets[b] # NoBudget /\ budgets[b].finalizer
    PROVE  SeriesNeverOutliveBudget'
BY DEF SeriesNeverOutliveBudget, Gently, Gentle, Updated

\* The worker keeps its object.
LEMMA HeldWorker ==
    ASSUME TypeOK, UidsCounted, WorkerInv, Gently, worker.pc # "idle",
           worker'.key = worker.key, worker'.obj = worker.obj
    PROVE  /\ IsPast(Key, worker.obj)'
           /\ worker.pc \in Reconciling => Held(Key, worker.obj)'
<1> DEFINE k == worker.key
           c == worker.obj
<1>1. /\ k \in Budgets /\ c.uid \in Nat /\ IsPast(k, c)
      /\ worker.pc \in Reconciling => Held(k, c)
      BY DEF TypeOK, IsWorker, IsBudget, WorkerInv, Key
<1>2. \A b \in Budgets : \A d : IsPast(b, d) /\ d.uid \in Nat => IsPast(b, d)'
      BY PastKept DEF UidsCounted, TypeOK
<1>3. \A b \in Budgets : \A d : Held(b, d) => Held(b, d)'
      BY HeldKept
<1> QED BY <1>1, <1>2, <1>3 DEF IsPast, Held, Key

\* The invariant holds initially.
LEMMA HeldInit == Init => HeldInv
BY DEF Init, HeldInv, UidsCounted, CacheInv, WorkerInv, SeriesNeverOutliveBudget,
       NoBudgets, Nothing, Idle, Reconciling

\* Nothing the reconciler does: events, a restart, users, the kubelet, the clock.
LEMMA HeldAround ==
    ASSUME TypeOK, TypeOK', HeldInv, Gently, CacheMoves, UNCHANGED <<worker, gauges>>
    PROVE  HeldInv'
<1>1. UidsCounted' /\ CacheInv' /\ SeriesNeverOutliveBudget'
      BY HeldCache, HeldSeries DEF HeldInv
<1>2. ASSUME worker.pc # "idle"
      PROVE  /\ IsPast(Key, worker.obj)'
             /\ worker.pc \in Reconciling => Held(Key, worker.obj)'
      BY <1>2, HeldWorker DEF HeldInv
<1>3. ASSUME worker.pc = "remove"
      PROVE  SeenDeleted(Key, worker.obj)'
      <2>1. Key \in Budgets /\ SeenDeleted(Key, worker.obj) /\ worker.obj.deleting
            BY <1>3 DEF HeldInv, WorkerInv, TypeOK, IsWorker, Key
      <2>2. IsPast(Key, worker.obj)' /\ Key' = Key
            BY <1>2, <1>3 DEF Key
      <2> QED BY <2>1, <2>2 DEF SeenDeleted, CacheMoves, IsPast
<1>4. WorkerInv'
      <2>1. /\ worker.pc = "adopt" => ~worker.obj.deleting
            /\ worker.pc = "remove" => worker.obj.deleting /\ gauges[Key] = None
            BY DEF HeldInv, WorkerInv
      <2>2. worker' = worker /\ gauges' = gauges /\ Key' = Key
            BY DEF Key
      <2> QED BY <1>2, <1>3, <2>1, <2>2 DEF WorkerInv, Reconciling
<1> QED BY <1>1, <1>4 DEF HeldInv

\* A step of the reconciler after which it is idle.
LEMMA HeldEnds ==
    ASSUME TypeOK, TypeOK', HeldInv, Gently, CacheMoves, worker' = Idle,
           \A b \in Budgets : gauges'[b] = gauges[b] \/ gauges'[b] = None
    PROVE  HeldInv'
<1>1. UidsCounted' /\ CacheInv' /\ SeriesNeverOutliveBudget'
      BY HeldCache, HeldSeries DEF HeldInv
<1>2. WorkerInv'
      BY DEF WorkerInv, Idle, Reconciling
<1> QED BY <1>1, <1>2 DEF HeldInv

\* A step of the reconciler that keeps its object and goes on.
LEMMA HeldGoesOn ==
    ASSUME TypeOK, TypeOK', HeldInv, Gently, CacheMoves,
           worker.pc \in Reconciling, worker'.pc \in Reconciling,
           worker'.key = worker.key, worker'.obj = worker.obj, UNCHANGED gauges
    PROVE  HeldInv'
<1>1. UidsCounted' /\ CacheInv' /\ SeriesNeverOutliveBudget'
      BY HeldCache, HeldSeries DEF HeldInv
<1>2. IsPast(Key, worker.obj)' /\ Held(Key, worker.obj)'
      BY HeldWorker DEF HeldInv, Reconciling
<1>3. WorkerInv'
      BY <1>2 DEF WorkerInv, Reconciling, Key
<1> QED BY <1>1, <1>3 DEF HeldInv

\* Get clears the series of a deleted budget before its finalizer can go.
LEMMA HeldGet ==
    ASSUME TypeOK, TypeOK', HeldInv, NEW b \in Budgets, Get(b)
    PROVE  HeldInv'
<1>0. PICK obj : obj = budgetCache[b]
      OBVIOUS
<1> DEFINE goTo(pc) == worker' = [Idle EXCEPT !.pc = pc, !.key = b, !.obj = obj]
<1>1. UNCHANGED <<budgets, budgetsMade, budgetCache>>
      BY DEF Get, serverVars, cacheVars, boundVars
<1>2. Gently /\ CacheMoves
      BY <1>1, GentlyNothing DEF CacheMoves
<1>3. CASE UNCHANGED <<worker, gauges>>
      BY <1>2, <1>3, HeldAround
<1>4. CASE obj # NoBudget /\ obj.deleting /\ obj.finalizer
           /\ goTo("remove") /\ gauges' = ClearBudgetMetrics(gauges, b)
      <2>1. IsBudget(obj) /\ IsPast(b, obj)
            BY <1>0, <1>4 DEF TypeOK, AreBudgets, HeldInv, CacheInv
      <2>2. worker'.pc = "remove" /\ worker'.key = b /\ worker'.obj = obj
            BY <1>4 DEF Idle
      <2>3. gauges'[b] = None /\ \A a \in Budgets : gauges'[a] = gauges[a] \/ gauges'[a] = None
            BY <1>4 DEF ClearBudgetMetrics, TypeOK, Over
      <2>4. UidsCounted' /\ CacheInv' /\ SeriesNeverOutliveBudget'
            BY <1>2, <2>3, HeldCache, HeldSeries DEF HeldInv
      <2>5. SeenDeleted(b, obj)' /\ IsPast(b, obj)'
            BY <1>0, <1>1, <1>4, <2>1 DEF SeenDeleted, IsPast, IsBudget
      <2>6. WorkerInv'
            BY <1>4, <2>2, <2>3, <2>5 DEF WorkerInv, Reconciling, Key
      <2> QED BY <2>4, <2>6 DEF HeldInv
<1>5. CASE obj # NoBudget /\ ~obj.deleting /\ UNCHANGED gauges
           /\ goTo(IF obj.finalizer THEN "list" ELSE "adopt")
      <2>1. /\ IsBudget(obj) /\ IsPast(b, obj)
            /\ obj.finalizer => Held(b, obj)
            BY <1>0, <1>5 DEF TypeOK, AreBudgets, HeldInv, CacheInv
      <2>2. PICK pc \in {"adopt", "remove", "list"} :
               pc = (IF obj.finalizer THEN "list" ELSE "adopt") /\ goTo(pc)
            BY <1>5
      <2>3. worker'.pc = pc /\ worker'.key = b /\ worker'.obj = obj
            BY <2>2 DEF Idle
      <2>4. UidsCounted' /\ CacheInv' /\ SeriesNeverOutliveBudget'
            BY <1>2, <1>5, HeldCache, HeldSeries DEF HeldInv
      <2>5. IsPast(b, obj)' /\ (obj.finalizer => Held(b, obj)')
            BY <1>1, <2>1 DEF IsPast, Held
      <2>6. WorkerInv'
            BY <1>5, <2>2, <2>3, <2>5 DEF WorkerInv, Reconciling, Key
      <2> QED BY <2>4, <2>6 DEF HeldInv
<1>6. \/ UNCHANGED <<worker, gauges>>
      \/ obj # NoBudget /\ obj.deleting /\ obj.finalizer
         /\ goTo("remove") /\ gauges' = ClearBudgetMetrics(gauges, b)
      \/ obj # NoBudget /\ ~obj.deleting /\ UNCHANGED gauges
         /\ goTo(IF obj.finalizer THEN "list" ELSE "adopt")
      BY <1>0 DEF Get
<1> QED BY <1>3, <1>4, <1>5, <1>6

\* Adopt takes a live object in hand, under the finalizer it has just added.
LEMMA HeldAdopt ==
    ASSUME TypeOK, TypeOK', HeldInv, NEW fate, Adopt(fate)
    PROVE  HeldInv'
<1> DEFINE adopted == [worker.obj EXCEPT !.finalizer = TRUE]
<1>1. Gently /\ CacheMoves /\ UNCHANGED <<gauges, budgetsMade, budgetCache>>
      BY GentleAdopt DEF Adopt, Sent, cacheVars, metricVars, CacheMoves
<1>2. CASE fate # "ok"
      BY <1>1, <1>2, HeldEnds DEF Adopt, EndAndRequeue
<1>3. CASE fate = "ok"
      <2>1. /\ Key \in Budgets /\ IsBudget(worker.obj) /\ ~worker.obj.deleting
            /\ worker.obj.uid <= budgetsMade
            BY DEF Adopt, TypeOK, IsWorker, Key, HeldInv, WorkerInv, IsPast
      <2>2. /\ IsBudget(adopted) /\ adopted.finalizer /\ ~adopted.deleting
            /\ adopted.uid = worker.obj.uid
            BY <2>1, FinalizerSet
      <2>3. worker'.pc = "list" /\ worker'.key = Key /\ worker'.obj = adopted
            BY <1>3 DEF Adopt, Key, TypeOK, IsWorker, Over, WorkerFields
      <2>4. budgets'[Key] = adopted
            BY <1>3, <2>1 DEF Adopt, Applied, TypeOK, AreBudgets, Over
      <2>5. UidsCounted' /\ CacheInv' /\ SeriesNeverOutliveBudget'
            BY <1>1, HeldCache, HeldSeries DEF HeldInv
      <2> HIDE DEF adopted
      <2>6. adopted # NoBudget /\ adopted.uid \in Nat
            BY <2>2, BudgetExists DEF IsBudget
      <2>7. IsPast(Key, worker.obj)' /\ Held(Key, worker.obj)'
            BY <1>1, <2>1, <2>2, <2>3, <2>4, <2>6 DEF Key, IsPast, Held
      <2>8. WorkerInv'
            BY <2>3, <2>7 DEF WorkerInv, Reconciling
      <2> QED BY <2>5, <2>8 DEF HeldInv
<1> QED BY <1>2, <1>3

\* The one step that is not gentle: the finalizer goes, and nothing the operator
\* holds shows the budget live any more.
LEMMA HeldRemove ==
    ASSUME TypeOK, TypeOK', HeldInv, NEW fate, Remove(fate)
    PROVE  HeldInv'
<1> DEFINE o == worker.obj
           n == WithoutFinalizer(o)
<1>1. /\ UNCHANGED <<gauges, budgetsMade, budgetCache>>
      /\ budgetsMade \in Nat
      BY DEF Remove, Sent, cacheVars, metricVars, TypeOK
<1>2. /\ Key \in Budgets /\ IsBudget(o) /\ budgets[Key] = o
      /\ IsPast(Key, o) /\ o.deleting /\ gauges[Key] = None /\ SeenDeleted(Key, o)
      BY DEF Remove, Current, TypeOK, IsWorker, HeldInv, WorkerInv, Key
<1>3. worker' = Idle
      BY DEF Remove, EndAndRequeue
<1>4. CASE UNCHANGED budgets
      BY <1>1, <1>3, <1>4, GentlyNothing, HeldEnds DEF CacheMoves
<1>5. CASE budgets' = [budgets EXCEPT ![Key] = n]
      <2>1. n = NoBudget \/ (n # NoBudget /\ n.uid = o.uid /\ n.deleting)
            BY <1>2, FinalizerSet, BudgetExists DEF WithoutFinalizer
      <2> HIDE DEF n
      <2>2. budgets'[Key] = n /\ \A b \in Budgets : b # Key => budgets'[b] = budgets[b]
            BY <1>2, <1>5 DEF TypeOK, AreBudgets, Over
      <2>3. UidsCounted'
            BY <1>1, <1>2, <2>1, <2>2, BudgetExists DEF UidsCounted, HeldInv
      <2>4. ASSUME NEW b \in Budgets, budgetCache[b] # NoBudget
            PROVE  /\ IsPast(b, budgetCache[b])'
                   /\ budgetCache[b].finalizer /\ ~budgetCache[b].deleting
                      => Held(b, budgetCache[b])'
            <3> DEFINE c == budgetCache[b]
            <3>1. /\ IsPast(b, c) /\ c.uid \in Nat /\ o.uid \in Nat /\ o # NoBudget
                  /\ c.finalizer /\ ~c.deleting => Held(b, c)
                  BY <1>2, <2>4, BudgetExists DEF HeldInv, CacheInv, TypeOK, AreBudgets, IsBudget
            <3>2. CASE b # Key
                  BY <1>1, <2>2, <3>1, <3>2 DEF IsPast, Held
            <3>3. CASE b = Key
                  <4>1. IsPast(b, c)'
                        BY <1>1, <1>2, <2>1, <2>2, <3>1, <3>3 DEF IsPast
                  <4>2. c.deleting
                        BY <1>2, <2>4, <3>1, <3>3 DEF IsPast, SeenDeleted
                  <4> QED BY <4>1, <4>2
            <3> QED BY <3>2, <3>3
      <2>5. CacheInv'
            BY <1>1, <2>4 DEF CacheInv
      <2>6. SeriesNeverOutliveBudget'
            BY <1>1, <1>2, <2>2 DEF HeldInv, SeriesNeverOutliveBudget
      <2>7. WorkerInv'
            BY <1>3 DEF WorkerInv, Idle, Reconciling
      <2> QED BY <2>3, <2>5, <2>6, <2>7 DEF HeldInv
<1> QED BY <1>4, <1>5 DEF Remove

\* WriteStatus publishes series only for a budget that is held.
LEMMA HeldWriteStatus ==
    ASSUME TypeOK, TypeOK', HeldInv, NEW fate, WriteStatus(fate)
    PROVE  HeldInv'
<1> DEFINE server  == budgets[Key]
           patched == [server EXCEPT !.status =
                         MergePatch(@, worker.obj.status,
                                    ReconciledStatus(worker.obj, worker.result, worker.at))]
           n == worker.target
<1>1. /\ Gently /\ CacheMoves /\ budgetsMade' = budgetsMade
      /\ Key \in Budgets /\ server # NoBudget /\ server.finalizer
      BY GentleWriteStatus
         DEF WriteStatus, Sent, cacheVars, CacheMoves, TypeOK, IsWorker, Key,
             HeldInv, WorkerInv, Reconciling, Held
<1>2. gauges' = gauges \/ \E y : gauges' = [gauges EXCEPT ![Key] = y]
      BY DEF WriteStatus
<1>3. \A b \in Budgets : gauges'[b] = gauges[b] \/ (budgets[b] # NoBudget /\ budgets[b].finalizer)
      BY <1>1, <1>2 DEF TypeOK, Over
<1>4. UidsCounted' /\ CacheInv' /\ SeriesNeverOutliveBudget'
      BY <1>1, <1>3, HeldCache, HeldSeries DEF HeldInv
<1>5. CASE worker' = Idle
      BY <1>4, <1>5 DEF HeldInv, WorkerInv, Idle, Reconciling
<1>6. CASE worker' # Idle
      <2> HIDE DEF patched
      <2>1. /\ fate = "ok" /\ budgets' = [budgets EXCEPT ![Key] = patched]
            /\ \E l, t : worker' = [worker EXCEPT !.pc = "enforce", !.obj = patched,
                                                  !.listing = l, !.target = t]
            BY <1>1, <1>6 DEF WriteStatus, EndAndRequeue, Applied, patched
      <2>2. worker'.pc = "enforce" /\ worker'.key = Key /\ worker'.obj = patched
            BY <2>1 DEF Key, TypeOK, IsWorker, Over, WorkerFields
      <2>3. budgets'[Key] = patched
            BY <1>1, <2>1 DEF TypeOK, AreBudgets, Over
      <2>4. patched # NoBudget /\ patched.finalizer /\ patched.uid \in Nat
            <3>1. IsBudget(patched)
                  BY <1>1, <2>2 DEF TypeOK, IsWorker
            <3>2. Gentle(server, patched)
                  BY <1>1, <2>3 DEF Gently
            <3> QED BY <1>1, <3>1, <3>2, BudgetExists DEF Gentle, Updated, IsBudget
      <2>5. IsPast(Key, worker.obj)' /\ Held(Key, worker.obj)'
            BY <1>1, <1>4, <2>2, <2>3, <2>4 DEF UidsCounted, IsPast, Held, Key
      <2>6. WorkerInv'
            BY <2>2, <2>5 DEF WorkerInv, Reconciling
      <2> QED BY <1>4, <2>6 DEF HeldInv
<1> QED BY <1>5, <1>6

\* HeldInv is inductive, relative to type correctness.
LEMMA HeldStep == TypeOK /\ TypeOK' /\ HeldInv /\ [Next]_vars => HeldInv'
<1> SUFFICES ASSUME TypeOK, TypeOK', HeldInv, [Next]_vars PROVE HeldInv'
    OBVIOUS
<1>1. CASE Refused
      BY <1>1, GentlyNothing, HeldEnds
         DEF Refused, EndAndRequeue, serverVars, cacheVars, metricVars, boundVars, CacheMoves
<1>2. CASE List \/ ListFails
      <2>1. /\ worker.pc = "list" /\ worker'.pc \in Reconciling
            /\ worker'.key = worker.key /\ worker'.obj = worker.obj
            BY <1>2 DEF List, ListFails, TypeOK, IsWorker, Over, WorkerFields, Reconciling
      <2>2. UNCHANGED <<budgets, budgetsMade, budgetCache, gauges>>
            BY <1>2 DEF List, ListFails, Sent, serverVars, cacheVars, metricVars, boundVars
      <2> QED BY <2>1, <2>2, GentlyNothing, HeldGoesOn DEF CacheMoves, Reconciling
<1>3. ASSUME NEW fate, Degrade(fate) \/ Stamp(fate)
      PROVE  HeldInv'
      BY <1>3, GentleDegrade, GentleStamp, HeldEnds
         DEF Degrade, Stamp, EndAndRequeue, cacheVars, metricVars, CacheMoves
<1>4. ASSUME NEW fate, NEW blocked, Alert \/ Evict(fate, blocked) \/ AlreadyPaused \/ Pause(fate)
      PROVE  HeldInv'
      <2>1. /\ UNCHANGED <<budgets, budgetsMade, budgetCache, gauges>>
            /\ worker.pc = "enforce" /\ (Enforced \/ EnforcerFailed)
            BY <1>4 DEF Alert, Evict, AlreadyPaused, Pause, Dispatched, Sent,
                        serverVars, cacheVars, boundVars
      <2>2. CASE Enforced
            <3>1. /\ worker'.pc = "stamp"
                  /\ worker'.key = worker.key /\ worker'.obj = worker.obj
                  BY <2>2 DEF Enforced, TypeOK, IsWorker, Over, WorkerFields
            <3> QED BY <2>1, <3>1, GentlyNothing, HeldGoesOn DEF CacheMoves, Reconciling
      <2>3. CASE EnforcerFailed
            BY <2>1, <2>3, GentlyNothing, HeldEnds DEF EnforcerFailed, EndAndRequeue, CacheMoves
      <2> QED BY <2>1, <2>2, <2>3
<1>5. CASE Work
      BY <1>1, <1>2, <1>3, <1>4, <1>5, HeldAdopt, HeldRemove, HeldWriteStatus DEF Work, Call
<1>6. CASE Manager
      <2>1. ASSUME NEW b \in Budgets, SyncBudget(b)
            PROVE  HeldInv'
            <3>1. CacheMoves
                  BY <2>1 DEF SyncBudget, CacheMoves, serverVars, TypeOK, AreBudgets, Over
            <3> QED BY <2>1, <3>1, GentlyNothing, HeldAround
                    DEF SyncBudget, serverVars, metricVars, boundVars
      <2>2. ASSUME NEW n \in PodNames, SyncPod(n)
            PROVE  HeldInv'
            BY <2>2, GentlyNothing, HeldAround
               DEF SyncPod, CacheMoves, serverVars, metricVars, boundVars
      <2>3. CASE Crash
            BY <2>3 DEF Crash, HeldInv, UidsCounted, CacheInv, WorkerInv, serverVars,
                        SeriesNeverOutliveBudget, NoBudgets, Nothing, Idle, Reconciling
      <2>4. CASE Start
            BY <2>4, GentlyNothing, HeldAround
               DEF Start, CacheMoves, serverVars, metricVars, boundVars
      <2> QED BY <1>6, <2>1, <2>2, <2>3, <2>4, HeldGet DEF Manager
<1>7. CASE Users
      <2>1. UNCHANGED <<worker, gauges, budgetCache>>
            BY <1>7 DEF Users, CreateBudget, EditSpec, DeleteBudget, ForeignDone,
                        operatorVars, cacheVars, metricVars
      <2> QED BY <1>7, <2>1, GentleUsers, HeldAround DEF CacheMoves
<1>8. CASE Kubelet \/ Tick \/ UNCHANGED vars
      <2>1. UNCHANGED <<budgets, budgetsMade, worker, gauges, budgetCache>>
            <3>1. CASE Kubelet
                  BY <3>1 DEF Kubelet, CreatePod, StartPod, FinishPod, DeletePod, CollectPod,
                              OnPod, operatorVars, cacheVars, metricVars
            <3>2. CASE Tick \/ UNCHANGED vars
                  BY <3>2 DEF Tick, vars, serverVars, operatorVars, cacheVars, metricVars, boundVars
            <3> QED BY <1>8, <3>1, <3>2
      <2> QED BY <2>1, GentlyNothing, HeldAround DEF CacheMoves
<1> QED BY <1>5, <1>6, <1>7, <1>8 DEF Next

\* What the cache shows live is still held, and a reconcile that publishes started
\* from such a copy (Reconcile, finalize).
THEOREM HeldAlways == Spec => []HeldInv
<1>1. Init => TypeOK /\ HeldInv
      BY TypeInit, HeldInit
<1>2. TypeOK /\ HeldInv /\ [Next]_vars => (TypeOK /\ HeldInv)'
      BY TypeStep, HeldStep
<1> QED BY <1>1, <1>2, PTL DEF Spec

\* Whatever the caches show, whichever calls fail and wherever a crash falls, a
\* published series has its budget on the server, under the finalizer that will
\* clear it.
THEOREM SeriesCleared == Spec => []SeriesNeverOutliveBudget
<1>1. HeldInv => SeriesNeverOutliveBudget
      BY DEF HeldInv
<1> QED BY <1>1, HeldAlways, PTL

-----------------------------------------------------------------------------
(***************************************************************************)
(* The life of a budget.                                                   *)
(***************************************************************************)
stages == [b \in Budgets |-> StageOf(budgets[b])]
published == [b \in Budgets |-> gauges[b] # None]

LifecycleStep == Lifecycle!Next \/ UNCHANGED <<stages, published>>

\* From which stage to which a budget goes in one step; p tells whether its
\* series is published.
Moves(s, t, p) ==
    \/ s = t
    \/ s = "absent" /\ t = "loose"
    \/ s = "loose" /\ t \in {"held", "absent", "left"}
    \/ s = "held" /\ t = "doomed"
    \/ s = "left" /\ t = "absent"
    \/ s = "doomed" /\ ~p /\ t \in {"absent", "left"}

-----------------------------------------------------------------------------
\* A change of one budget on the server that is a move in its life.
LEMMA ServerMoves ==
    ASSUME TypeOK, NEW b \in Budgets, NEW n, UNCHANGED gauges,
           budgets' = [budgets EXCEPT ![b] = n],
           Moves(StageOf(budgets[b]), StageOf(n), gauges[b] # None)
    PROVE  LifecycleStep
<1> DEFINE s == StageOf(budgets[b])
           t == StageOf(n)
<1>1. /\ stages' = [stages EXCEPT ![b] = t] /\ UNCHANGED published
      /\ stages[b] = s /\ published[b] = (gauges[b] # None)
      <2>1. Over(budgets, Budgets)
            BY DEF TypeOK, AreBudgets
      <2>2. \A c \in Budgets : budgets'[c] = IF c = b THEN n ELSE budgets[c]
            BY <2>1 DEF Over
      <2>3. \A c \in Budgets : StageOf(budgets'[c]) = IF c = b THEN t ELSE StageOf(budgets[c])
            BY <2>2
      <2> HIDE DEF t
      <2>4. stages' = [stages EXCEPT ![b] = t]
            BY <2>3 DEF stages
      <2> QED BY <2>4 DEF stages, published
<1>2. Moves(s, t, published[b])
      BY <1>1
<1> HIDE DEF s, t
<1>3. CASE s = t
      <2>1. stages' = stages
            BY <1>1, <1>3 DEF stages
      <2> QED BY <1>1, <2>1 DEF LifecycleStep
<1>4. CASE s # t
      <2>1. \/ Lifecycle!Create(b) \/ Lifecycle!Hold(b) \/ Lifecycle!Delete(b)
            \/ Lifecycle!Vanish(b) \/ Lifecycle!Release(b)
            BY <1>1, <1>2, <1>4
               DEF Moves, stages, published, Lifecycle!Create, Lifecycle!Hold,
                   Lifecycle!Delete, Lifecycle!Vanish, Lifecycle!Release, Lifecycle!Move
      <2> QED BY <2>1 DEF LifecycleStep, Lifecycle!Next
<1> QED BY <1>3, <1>4

\* A step that leaves every budget where it stands and every series as it is.
LEMMA NothingMoves ==
    ASSUME UNCHANGED gauges, \A b \in Budgets : StageOf(budgets'[b]) = StageOf(budgets[b])
    PROVE  LifecycleStep
BY DEF LifecycleStep, stages, published

\* The stage of a budget as its finalizer and its deletion tell it.
LEMMA StageIs ==
    ASSUME NEW o, IsBudget(o)
    PROVE  StageOf(o) = IF o.deleting THEN IF o.finalizer THEN "doomed" ELSE "left"
                        ELSE IF o.finalizer THEN "held" ELSE "loose"
BY BudgetExists DEF StageOf

LEMMA StageAbsent == StageOf(NoBudget) = "absent"
BY DEF StageOf

\* The copy of a budget with its status replaced stands where the budget does.
LEMMA StageKept ==
    ASSUME NEW o, IsBudget(o), NEW s
    PROVE  StageOf([o EXCEPT !.status = s]) = StageOf(o)
<1> DEFINE n == [o EXCEPT !.status = s]
<1>1. Over(n, BudgetFields) /\ n.deleting = o.deleting /\ n.finalizer = o.finalizer
      BY DEF IsBudget, Over, BudgetFields
<1>2. n # NoBudget
      <2>1. DOMAIN n = BudgetFields /\ DOMAIN NoBudget = {"uid"}
            BY <1>1 DEF Over, NoBudget
      <2> QED BY <2>1 DEF BudgetFields
<1>3. o # NoBudget
      BY BudgetExists
<1> HIDE DEF n
<1> QED BY <1>1, <1>2, <1>3 DEF StageOf, n

\* A write of the status of one budget moves none.
LEMMA StatusMovesNothing ==
    ASSUME TypeOK, Key \in Budgets, budgets[Key] # NoBudget, NEW s,
           budgets' = [budgets EXCEPT ![Key] = [budgets[Key] EXCEPT !.status = s]]
    PROVE  \A b \in Budgets : StageOf(budgets'[b]) = StageOf(budgets[b])
<1> DEFINE n == [budgets[Key] EXCEPT !.status = s]
<1>1. IsBudget(budgets[Key]) /\ Over(budgets, Budgets)
      BY DEF TypeOK, AreBudgets
<1>2. StageOf(n) = StageOf(budgets[Key])
      BY <1>1, StageKept
<1> HIDE DEF n
<1>3. budgets' = [budgets EXCEPT ![Key] = n]
      BY DEF n
<1> QED BY <1>1, <1>2, <1>3 DEF Over

-----------------------------------------------------------------------------
\* At first there is no budget and no series.
LEMMA LifecycleInit == Init => Lifecycle!Init
<1> SUFFICES ASSUME Init PROVE Lifecycle!Init
    OBVIOUS
<1>1. \A b \in Budgets : StageOf(budgets[b]) = "absent" /\ (gauges[b] # None) = FALSE
      BY StageAbsent DEF Init, NoBudgets, Nothing
<1> QED BY <1>1 DEF Lifecycle!Init

\* Adopt takes hold of a live budget.
LEMMA LifecycleAdopt ==
    ASSUME TypeOK, HeldInv, NEW fate, Adopt(fate)
    PROVE  LifecycleStep
<1> DEFINE o == worker.obj
           n == [o EXCEPT !.finalizer = TRUE]
<1>1. /\ Key \in Budgets /\ IsBudget(o) /\ budgets[Key] = o /\ ~o.deleting
      /\ UNCHANGED gauges
      BY DEF Adopt, Current, TypeOK, IsWorker, Key, HeldInv, WorkerInv, metricVars
<1>2. IsBudget(n) /\ n.finalizer /\ ~n.deleting
      BY <1>1, FinalizerSet
<1>3. Moves(StageOf(o), StageOf(n), gauges[Key] # None)
      BY <1>1, <1>2, StageIs DEF Moves, IsBudget
<1> HIDE DEF n
<1>4. UNCHANGED budgets \/ budgets' = [budgets EXCEPT ![Key] = n]
      BY DEF Adopt, n
<1> QED BY <1>1, <1>3, <1>4, ServerMoves, NothingMoves

\* Remove lets go of a deleted budget whose series is withdrawn.
LEMMA LifecycleRemove ==
    ASSUME TypeOK, HeldInv, NEW fate, Remove(fate)
    PROVE  LifecycleStep
<1> DEFINE o == worker.obj
           n == WithoutFinalizer(o)
<1>1. /\ Key \in Budgets /\ IsBudget(o) /\ budgets[Key] = o /\ o.deleting
      /\ gauges[Key] = None /\ UNCHANGED gauges
      BY DEF Remove, Current, TypeOK, IsWorker, Key, HeldInv, WorkerInv, metricVars
<1>2. StageOf(o) \in {"doomed", "left"}
      BY <1>1, StageIs DEF IsBudget
<1>3. StageOf(n) = IF o.foreign THEN "left" ELSE "absent"
      <2> DEFINE kept == [o EXCEPT !.finalizer = FALSE]
      <2>1. IsBudget(kept) /\ kept.deleting /\ kept.finalizer = FALSE
            BY <1>1, FinalizerSet
      <2>2. StageOf(kept) = "left"
            BY <2>1, StageIs
      <2> QED BY <2>2, StageAbsent DEF WithoutFinalizer
<1>4. Moves(StageOf(o), StageOf(n), gauges[Key] # None)
      BY <1>1, <1>2, <1>3 DEF Moves, IsBudget
<1> HIDE DEF n
<1>5. UNCHANGED budgets \/ budgets' = [budgets EXCEPT ![Key] = n]
      BY DEF Remove, n
<1> QED BY <1>1, <1>4, <1>5, ServerMoves, NothingMoves

\* The patches of Degrade and Stamp move nothing.
LEMMA LifecyclePatches ==
    ASSUME TypeOK, NEW fate, Degrade(fate) \/ Stamp(fate)
    PROVE  LifecycleStep
<1>1. Key \in Budgets /\ UNCHANGED gauges
      BY DEF Degrade, Stamp, TypeOK, IsWorker, Key, metricVars
<1>2. \/ UNCHANGED budgets
      \/ /\ budgets[Key] # NoBudget
         /\ \E s : budgets' = [budgets EXCEPT ![Key] = [budgets[Key] EXCEPT !.status = s]]
      BY DEF Degrade, Stamp
<1>3. \A b \in Budgets : StageOf(budgets'[b]) = StageOf(budgets[b])
      BY <1>1, <1>2, StatusMovesNothing
<1> QED BY <1>1, <1>3, NothingMoves

\* WriteStatus moves no budget and publishes the series of one that is held.
LEMMA LifecycleWriteStatus ==
    ASSUME TypeOK, HeldInv, NEW fate, WriteStatus(fate)
    PROVE  LifecycleStep
<1>1. /\ Key \in Budgets /\ budgets[Key] # NoBudget /\ budgets[Key].finalizer
      BY DEF WriteStatus, TypeOK, IsWorker, Key, HeldInv, WorkerInv, Reconciling, Held
<1>2. /\ \/ UNCHANGED budgets
         \/ \E s : budgets' = [budgets EXCEPT ![Key] = [budgets[Key] EXCEPT !.status = s]]
      /\ \/ UNCHANGED gauges
         \/ \E c, r, t : gauges' = [gauges EXCEPT ![Key] =
                                      [consumed |-> c, remaining |-> r, tracked |-> t]]
      BY <1>1 DEF WriteStatus
<1>3. \A b \in Budgets : StageOf(budgets'[b]) = StageOf(budgets[b])
      BY <1>1, <1>2, StatusMovesNothing
<1>4. CASE UNCHANGED gauges
      BY <1>3, <1>4, NothingMoves
<1>5. ASSUME NEW g, gauges' = [gauges EXCEPT ![Key] = g]
      PROVE  LifecycleStep
      <2>0. PICK k \in Budgets : k = Key
            BY <1>1
      <2>1. stages' = stages /\ stages[k] \in {"held", "doomed"}
            <3>1. StageOf(budgets[Key]) \in {"held", "doomed"}
                  BY <1>1 DEF StageOf
            <3> QED BY <1>1, <1>3, <2>0, <3>1 DEF stages
      <2>2. published' = [published EXCEPT ![k] = (g # None)]
            BY <1>5, <2>0 DEF published, TypeOK, Over
      <2>3. Lifecycle!Publish(k) \/ Lifecycle!Withdraw(k)
            BY <2>1, <2>2 DEF Lifecycle!Publish, Lifecycle!Withdraw, stages, published
      <2> QED BY <2>3 DEF LifecycleStep, Lifecycle!Next
<1> QED BY <1>2, <1>4, <1>5

\* Get withdraws the series of a deleted budget, or changes nothing.
LEMMA LifecycleGet ==
    ASSUME TypeOK, NEW b \in Budgets, Get(b)
    PROVE  LifecycleStep
<1>1. UNCHANGED budgets
      BY DEF Get, serverVars
<1>2. CASE UNCHANGED gauges
      BY <1>1, <1>2, NothingMoves
<1>3. CASE gauges' = ClearBudgetMetrics(gauges, b)
      <2>1. stages' = stages
            BY <1>1 DEF stages
      <2>2. published' = [published EXCEPT ![b] = FALSE]
            BY <1>3 DEF published, ClearBudgetMetrics, TypeOK, Over
      <2>3. Lifecycle!Withdraw(b)
            BY <2>1, <2>2 DEF Lifecycle!Withdraw, stages, published
      <2> QED BY <2>3 DEF LifecycleStep, Lifecycle!Next
<1> QED BY <1>2, <1>3 DEF Get

\* A crash forgets every series.
LEMMA LifecycleCrash ==
    ASSUME Crash
    PROVE  LifecycleStep
<1>1. stages' = stages
      BY DEF Crash, serverVars, stages
<1>2. published' = [b \in Budgets |-> FALSE]
      BY DEF Crash, Nothing, published
<1>3. Lifecycle!Forget
      BY <1>1, <1>2 DEF Lifecycle!Forget, stages, published
<1> QED BY <1>3 DEF LifecycleStep, Lifecycle!Next

\* Users create, edit and delete, and the garbage collector takes its finalizer
\* off.
LEMMA LifecycleUsers ==
    ASSUME TypeOK, Users
    PROVE  LifecycleStep
<1>1. ASSUME NEW b \in Budgets, NEW spec \in Specs, CreateBudget(b, spec)
      PROVE  LifecycleStep
      <2> DEFINE n == NewBudget(budgetsMade', spec)
      <2>1. /\ budgets' = [budgets EXCEPT ![b] = n] /\ UNCHANGED gauges
            /\ budgets[b] = NoBudget /\ budgetsMade' \in Nat \ {0}
            BY <1>1 DEF CreateBudget, TypeOK, operatorVars, metricVars
      <2>2. IsBudget(n) /\ ~n.finalizer /\ ~n.deleting
            BY <2>1, NewBudgetOK
      <2>3. Moves(StageOf(budgets[b]), StageOf(n), gauges[b] # None)
            BY <2>1, <2>2, StageIs, StageAbsent DEF Moves
      <2> HIDE DEF n
      <2> QED BY <2>1, <2>3, ServerMoves
<1>2. ASSUME NEW b \in Budgets, NEW spec \in Specs, EditSpec(b, spec)
      PROVE  LifecycleStep
      <2> DEFINE o == budgets[b]
                 n == [o EXCEPT !.spec = spec, !.gen = @ + 1]
      <2>1. budgets' = [budgets EXCEPT ![b] = n] /\ UNCHANGED gauges /\ IsBudget(o)
            BY <1>2 DEF EditSpec, TypeOK, AreBudgets, operatorVars, metricVars
      <2>2. IsBudget(n) /\ n.finalizer = o.finalizer /\ n.deleting = o.deleting
            BY <2>1, SpecSet
      <2>3. Moves(StageOf(o), StageOf(n), gauges[b] # None)
            BY <2>1, <2>2, StageIs DEF Moves
      <2> HIDE DEF n
      <2> QED BY <2>1, <2>3, ServerMoves
<1>3. ASSUME NEW b \in Budgets, NEW cascade \in CascadeModes, DeleteBudget(b, cascade)
      PROVE  LifecycleStep
      <2> DEFINE o == budgets[b]
                 marked == [o EXCEPT !.deleting = TRUE, !.foreign = cascade]
                 n == IF o.finalizer \/ cascade THEN marked ELSE NoBudget
      <2>1. /\ budgets' = [budgets EXCEPT ![b] = n] /\ UNCHANGED gauges
            /\ IsBudget(o) /\ ~o.deleting /\ cascade \in BOOLEAN
            BY <1>3, SwitchAssumption
               DEF DeleteBudget, TypeOK, AreBudgets, operatorVars, metricVars
      <2>2. IsBudget(marked) /\ marked.deleting /\ marked.finalizer = o.finalizer
            BY <2>1, DeletionSet
      <2>3. StageOf(o) = IF o.finalizer THEN "held" ELSE "loose"
            BY <2>1, StageIs
      <2>4. StageOf(marked) = IF o.finalizer THEN "doomed" ELSE "left"
            BY <2>2, StageIs
      <2> HIDE DEF marked
      <2>5. Moves(StageOf(o), StageOf(n), gauges[b] # None)
            BY <2>1, <2>3, <2>4, StageAbsent DEF Moves
      <2> HIDE DEF n
      <2> QED BY <2>1, <2>5, ServerMoves
<1>4. ASSUME NEW b \in Budgets, ForeignDone(b)
      PROVE  LifecycleStep
      <2> DEFINE o == budgets[b]
                 freed == [o EXCEPT !.foreign = FALSE]
                 n == IF o.finalizer THEN freed ELSE NoBudget
      <2>1. budgets' = [budgets EXCEPT ![b] = n] /\ UNCHANGED gauges /\ IsBudget(o)
            BY <1>4 DEF ForeignDone, TypeOK, AreBudgets, operatorVars, metricVars
      <2>2. IsBudget(freed) /\ freed.deleting = o.deleting /\ freed.finalizer = o.finalizer
            BY <2>1, ForeignSet
      <2>3. StageOf(freed) = StageOf(o)
            <3> HIDE DEF freed, o
            <3> QED BY <2>1, <2>2, StageIs
      <2>4. o.finalizer \/ StageOf(o) \in {"left", "loose"}
            BY <2>1, StageIs
      <2> HIDE DEF freed
      <2>5. Moves(StageOf(o), StageOf(n), gauges[b] # None)
            BY <2>3, <2>4, StageAbsent DEF Moves
      <2> HIDE DEF n
      <2> QED BY <2>1, <2>5, ServerMoves
<1> QED BY <1>1, <1>2, <1>3, <1>4 DEF Users

\* The other steps touch neither the server's budgets nor the series.
LEMMA LifecycleOther ==
    ASSUME UNCHANGED <<budgets, gauges>>
    PROVE  LifecycleStep
BY NothingMoves

-----------------------------------------------------------------------------
\* Every step of the controller is one of the abstraction, or none.
LEMMA LifecycleSteps ==
    TypeOK /\ HeldInv /\ [Next]_vars => [Lifecycle!Next]_(Lifecycle!lifecycleVars)
<1> SUFFICES ASSUME TypeOK, HeldInv, [Next]_vars
             PROVE  LifecycleStep
    BY DEF LifecycleStep, Lifecycle!lifecycleVars, stages, published
<1>1. CASE Work
      <2>1. ASSUME NEW fate, NEW blocked,
                   Evict(fate, blocked) \/ Pause(fate)
            PROVE  LifecycleStep
            BY <2>1, LifecycleOther DEF Evict, Pause
      <2>2. CASE Refused \/ List \/ ListFails \/ Alert \/ AlreadyPaused
            BY <2>2, LifecycleOther
               DEF Refused, List, ListFails, Alert, AlreadyPaused, serverVars, metricVars
      <2> QED BY <1>1, <2>1, <2>2, LifecycleAdopt, LifecycleRemove, LifecyclePatches,
                 LifecycleWriteStatus DEF Work, Call
<1>2. CASE Manager
      <2>1. ASSUME NEW b \in Budgets, SyncBudget(b)
            PROVE  LifecycleStep
            BY <2>1, LifecycleOther DEF SyncBudget, serverVars, metricVars
      <2>2. ASSUME NEW n \in PodNames, SyncPod(n)
            PROVE  LifecycleStep
            BY <2>2, LifecycleOther DEF SyncPod, serverVars, metricVars
      <2>3. CASE Start
            BY <2>3, LifecycleOther DEF Start, serverVars, metricVars
      <2> QED BY <1>2, <2>1, <2>2, <2>3, LifecycleGet, LifecycleCrash DEF Manager
<1>3. CASE Kubelet \/ Tick \/ UNCHANGED vars
      <2>1. UNCHANGED <<budgets, gauges>>
            BY <1>3 DEF Kubelet, CreatePod, StartPod, FinishPod, DeletePod, CollectPod, OnPod,
                        Tick, vars, serverVars, operatorVars, metricVars
      <2> QED BY <2>1, LifecycleOther
<1> QED BY <1>1, <1>2, <1>3, LifecycleUsers DEF Next

\* The controller implements the life of a budget under its finalizer, whatever
\* the caches show, whichever calls fail and wherever a crash falls.
THEOREM LifecycleImplemented == Spec => ImplementsLifecycle
<1>1. Init => TypeOK /\ HeldInv /\ Lifecycle!Init
      BY TypeInit, HeldInit, LifecycleInit
<1>2. TypeOK /\ HeldInv /\ [Next]_vars => (TypeOK /\ HeldInv)'
      BY TypeStep, HeldStep
<1>3. TypeOK /\ HeldInv /\ [Next]_vars => [Lifecycle!Next]_(Lifecycle!lifecycleVars)
      BY LifecycleSteps
<1> QED BY <1>1, <1>2, <1>3, PTL DEF Spec, ImplementsLifecycle, Lifecycle!Spec
=============================================================================
