-------------------------- MODULE LateCallsProofs ---------------------------
(***************************************************************************)
(* The promises of the finalizer against calls that arrive late: HeldInv   *)
(* and the life of a budget survive a call that its reconcile gave up and  *)
(* the server carries out at any later time.                               *)
(***************************************************************************)
EXTENDS LateCalls, BudgetHeldProofs

\* The call on the wire is of a reconcile of the past.  One that removes the
\* finalizer is of a budget whose series is withdrawn and which no reconcile takes
\* for live any more, whatever has been retried or restarted since.
WireInv ==
    /\ IsWorker(wire, now)
    /\ wire.pc # "idle" => IsPast(wire.key, wire.obj)
    /\ wire.pc = "adopt" => ~wire.obj.deleting
    /\ wire.pc = "remove" =>
          /\ wire.obj.deleting /\ SeenDeleted(wire.key, wire.obj)
          /\ budgets[wire.key] # NoBudget /\ budgets[wire.key].uid = wire.obj.uid =>
                gauges[wire.key] = None
          /\ worker.pc \in Reconciling \cup {"adopt"} /\ worker.key = wire.key =>
                worker.obj.uid > wire.obj.uid

-----------------------------------------------------------------------------
(***************************************************************************)
(* What the steps of BudgetController do to what a call on the wire holds. *)
(***************************************************************************)
\* A budget on the server moves on: it stays the incarnation it is, and deleted
\* if it is, or it goes, or a new one is made.
Onward(o, n) ==
    n # NoBudget =>
        \/ o # NoBudget /\ n.uid = o.uid /\ (o.deleting => n.deleting)
        \/ n.uid = budgetsMade + 1 /\ budgetsMade' = budgetsMade + 1

AllOnward ==
    /\ \A b \in Budgets : Onward(budgets[b], budgets'[b])
    /\ budgetsMade' \in {budgetsMade, budgetsMade + 1}

LEMMA GentlyOnward ==
    ASSUME Gently
    PROVE  AllOnward
BY DEF Gently, Gentle, Updated, AllOnward, Onward

\* The removal of the finalizer of o, the budget named k.
LEMMA RemovalOnward ==
    ASSUME TypeOK, NEW k \in Budgets, NEW o, IsBudget(o), budgets[k] = o,
           budgets' = [budgets EXCEPT ![k] = WithoutFinalizer(o)], UNCHANGED budgetsMade
    PROVE  AllOnward
<1>1. PICK n : n = WithoutFinalizer(o)
  OBVIOUS
<1>2. n = NoBudget \/ (n.uid = o.uid /\ n.deleting = o.deleting)
  BY <1>1, FinalizerSet DEF WithoutFinalizer
<1>3. budgets'[k] = n /\ \A b \in Budgets : b # k => budgets'[b] = budgets[b]
  BY <1>1 DEF TypeOK, AreBudgets, Over
<1>4. o # NoBudget
  BY BudgetExists
<1>. QED BY <1>2, <1>3, <1>4 DEF AllOnward, Onward

LEMMA StepsOnward ==
    ASSUME TypeOK, [Next]_vars
    PROVE  AllOnward
<1>1. CASE UNCHANGED <<budgets, budgetsMade>>
  BY <1>1, GentlyNothing, GentlyOnward
<1>2. CASE Users
  BY <1>2, GentleUsers, GentlyOnward
<1>3. ASSUME NEW fate, Adopt(fate) \/ Degrade(fate) \/ WriteStatus(fate) \/ Stamp(fate)
      PROVE  AllOnward
  BY <1>3, GentleAdopt, GentleDegrade, GentleWriteStatus, GentleStamp, GentlyOnward
<1>4. ASSUME NEW fate, Remove(fate), ~UNCHANGED <<budgets, budgetsMade>>
      PROVE  AllOnward
  <2>1. /\ Key \in Budgets /\ IsBudget(worker.obj) /\ budgets[Key] = worker.obj
        /\ budgets' = [budgets EXCEPT ![Key] = WithoutFinalizer(worker.obj)]
        /\ UNCHANGED budgetsMade
    BY <1>4 DEF Remove, Sent, Current, TypeOK, IsWorker, Key
  <2>. QED BY <2>1, RemovalOnward
<1>5. CASE /\ ~UNCHANGED <<budgets, budgetsMade>> /\ ~Users
           /\ ~\E fate \in Fates : \/ Adopt(fate) \/ Degrade(fate) \/ WriteStatus(fate)
                                   \/ Stamp(fate) \/ Remove(fate)
  <2>1. ~Manager /\ ~Kubelet /\ ~Tick /\ ~UNCHANGED vars
    BY <1>5 DEF Manager, Get, SyncBudget, SyncPod, Crash, Start, serverVars, boundVars, Kubelet,
                CreatePod, StartPod, FinishPod, DeletePod, CollectPod, OnPod, Tick, vars
  <2>2. ~Refused /\ ~List /\ ~ListFails /\ ~Alert /\ ~AlreadyPaused
    BY <1>5 DEF Refused, List, ListFails, Sent, Alert, AlreadyPaused, serverVars, boundVars
  <2>3. \A fate : ~Pause(fate) /\ \A blocked : ~Evict(fate, blocked)
    BY <1>5 DEF Pause, Evict, Sent
  <2>. QED BY <1>5, <2>1, <2>2, <2>3 DEF Next, Work, Call
<1>. QED BY <1>1, <1>2, <1>3, <1>4, <1>5

\* A copy from the past stays one.
LEMMA PastOnward ==
    ASSUME AllOnward, budgetsMade \in Nat, UidsCounted, NEW b \in Budgets, NEW c, c.uid \in Nat,
           IsPast(b, c)
    PROVE  IsPast(b, c)'
BY DEF AllOnward, Onward, IsPast, UidsCounted

\* The cache shows what it did, or what the server holds, or has been lost.
LEMMA CacheSteps ==
    ASSUME TypeOK, [Next]_vars
    PROVE  \A b \in Budgets : budgetCache'[b] \in {budgetCache[b], budgets'[b], NoBudget}
<1>1. CASE UNCHANGED budgetCache
  BY <1>1
<1>2. ASSUME NEW b \in Budgets, SyncBudget(b)
      PROVE  \A c \in Budgets : budgetCache'[c] \in {budgetCache[c], budgets'[c], NoBudget}
  BY <1>2 DEF SyncBudget, serverVars, TypeOK, AreBudgets, Over
<1>3. CASE Crash \/ Start
  BY <1>3 DEF Crash, Start, NoBudgets, serverVars
<1>4. \/ UNCHANGED budgetCache \/ Crash \/ Start \/ \E b \in Budgets : SyncBudget(b)
  <2>1. CASE Work
    BY <2>1 DEF Work, Call, Adopt, Remove, Degrade, WriteStatus, Evict, Pause, Stamp,
                Refused, List, ListFails, Alert, AlreadyPaused, cacheVars
  <2>2. CASE Manager
    BY <2>2 DEF Manager, Get, SyncPod, cacheVars
  <2>3. CASE Users \/ Kubelet
    BY <2>3 DEF Users, CreateBudget, EditSpec, DeleteBudget, ForeignDone, operatorVars,
                cacheVars, Kubelet, CreatePod, StartPod, FinishPod, DeletePod, CollectPod, OnPod
  <2>4. CASE Tick \/ UNCHANGED vars
    BY <2>4 DEF Tick, vars, operatorVars, cacheVars
  <2>. QED BY <2>1, <2>2, <2>3, <2>4 DEF Next
<1>. QED BY <1>1, <1>2, <1>3, <1>4

\* A series appears only where a reconcile writes the status.
LEMMA SeriesSteps ==
    ASSUME TypeOK, [Next]_vars
    PROVE  \A b \in Budgets : \/ gauges'[b] \in {gauges[b], None}
                              \/ worker.pc = "write" /\ worker.key = b
<1>1. CASE UNCHANGED gauges
  BY <1>1
<1>2. ASSUME NEW fate, WriteStatus(fate)
      PROVE  \A b \in Budgets : gauges'[b] = gauges[b] \/ (worker.pc = "write" /\ worker.key = b)
  <2>1. worker.pc = "write" /\ (UNCHANGED gauges \/ \E y : gauges' = [gauges EXCEPT ![Key] = y])
    BY <1>2 DEF WriteStatus
  <2>. QED BY <2>1 DEF Key, TypeOK, Over
<1>3. ASSUME NEW b \in Budgets, Get(b)
      PROVE  \A c \in Budgets : gauges'[c] \in {gauges[c], None}
  <2>1. UNCHANGED gauges \/ gauges' = ClearBudgetMetrics(gauges, b)
    BY <1>3 DEF Get
  <2>. QED BY <2>1 DEF ClearBudgetMetrics, TypeOK, Over
<1>4. CASE Crash
  BY <1>4 DEF Crash, Nothing
<1>5. \/ UNCHANGED gauges \/ Crash \/ \E b \in Budgets : Get(b)
      \/ \E fate \in Fates : WriteStatus(fate)
  <2>1. CASE Work
    BY <2>1 DEF Work, Call, Adopt, Remove, Degrade, Evict, Pause, Stamp,
                Refused, List, ListFails, Alert, AlreadyPaused, metricVars
  <2>2. CASE Manager
    BY <2>2 DEF Manager, SyncBudget, SyncPod, Start, metricVars
  <2>3. CASE Users \/ Kubelet
    BY <2>3 DEF Users, CreateBudget, EditSpec, DeleteBudget, ForeignDone, operatorVars,
                metricVars, Kubelet, CreatePod, StartPod, FinishPod, DeletePod, CollectPod, OnPod
  <2>4. CASE Tick \/ UNCHANGED vars
    BY <2>4 DEF Tick, vars, operatorVars, metricVars
  <2>. QED BY <2>1, <2>2, <2>3, <2>4 DEF Next
<1>. QED BY <1>1, <1>2, <1>3, <1>4, <1>5

\* A reconcile of a live budget.
Live == Reconciling \cup {"adopt"}

\* Such a reconcile goes on with the incarnation it began with, which the cache
\* showed live.
LEMMA HandSteps ==
    ASSUME TypeOK, HeldInv, [Next]_vars, worker'.pc \in Live
    PROVE  \/ /\ worker.pc \in Live /\ worker'.key = worker.key
              /\ worker'.obj.uid = worker.obj.uid
           \/ \E b \in Budgets :
                 /\ budgetCache[b] # NoBudget /\ ~budgetCache[b].deleting
                 /\ worker'.key = b /\ worker'.obj = budgetCache[b]
<1>. DEFINE Kept == /\ worker.pc \in Live /\ worker'.key = worker.key
                    /\ worker'.obj.uid = worker.obj.uid
            Taken(b) == /\ budgetCache[b] # NoBudget /\ ~budgetCache[b].deleting
                        /\ worker'.key = b /\ worker'.obj = budgetCache[b]
<1>1. CASE UNCHANGED worker
  BY <1>1
<1>2. worker' # Idle /\ ~EndAndRequeue
  BY DEF Idle, Live, Reconciling, EndAndRequeue
<1>3. Over(worker, WorkerFields)
  BY DEF TypeOK, IsWorker
<1>4. ASSUME List \/ ListFails PROVE Kept
  BY <1>3, <1>4 DEF List, ListFails, Over, WorkerFields, Live, Reconciling
<1>5. ASSUME worker.pc = "enforce", Enforced PROVE Kept
  BY <1>3, <1>5 DEF Enforced, Over, WorkerFields, Live, Reconciling
<1>6. ASSUME NEW fate, NEW blocked, Alert \/ Evict(fate, blocked) \/ AlreadyPaused \/ Pause(fate)
      PROVE  Kept
  BY <1>2, <1>5, <1>6 DEF Alert, Evict, AlreadyPaused, Pause, Dispatched, EnforcerFailed
<1>7. ASSUME NEW fate, Adopt(fate) PROVE Kept
  <2>1. PICK a : a = [worker.obj EXCEPT !.finalizer = TRUE]
    OBVIOUS
  <2>2. worker.pc = "adopt" /\ worker' = [worker EXCEPT !.pc = "list", !.obj = a]
    BY <1>2, <1>7, <2>1 DEF Adopt
  <2>3. IsBudget(worker.obj)
    BY <2>2 DEF TypeOK, IsWorker
  <2>4. a.uid = worker.obj.uid
    BY <2>1, <2>3, FinalizerSet
  <2>. QED BY <1>3, <2>2, <2>4 DEF Over, WorkerFields, Live
<1>8. ASSUME NEW fate, WriteStatus(fate) PROVE Kept
  <2>. DEFINE status == ReconciledStatus(worker.obj, worker.result, worker.at)
  <2>1. PICK o, patched :
          /\ o = budgets[Key]
          /\ patched = [budgets[Key] EXCEPT !.status = MergePatch(@, worker.obj.status, status)]
    OBVIOUS
  <2>2. \E l, g : worker' = [worker EXCEPT !.pc = "enforce", !.obj = patched,
                                           !.listing = l, !.target = g]
    BY <1>2, <1>8, <2>1 DEF WriteStatus
  <2>3. worker'.key = worker.key /\ worker'.obj = patched
    BY <1>3, <2>2 DEF Over, WorkerFields
  <2>4. worker.pc = "write" /\ IsBudget(o) /\ o.uid = worker.obj.uid
    BY <1>8, <2>1 DEF WriteStatus, HeldInv, WorkerInv, Held, Reconciling, Key,
                      TypeOK, IsWorker, AreBudgets
  <2>5. patched.uid = o.uid
    BY <2>1, <2>4 DEF IsBudget, Over, BudgetFields
  <2>. QED BY <2>3, <2>4, <2>5 DEF Live, Reconciling
<1>9. ASSUME NEW b \in Budgets, Get(b), ~UNCHANGED worker PROVE Taken(b)
  BY <1>9 DEF Get, Idle, Live, Reconciling
<1>10. ~Refused /\ \A fate : ~Remove(fate) /\ ~Degrade(fate) /\ ~Stamp(fate)
  BY <1>2 DEF Refused, Remove, Degrade, Stamp
<1>11. CASE Users \/ Kubelet \/ Tick \/ UNCHANGED vars
  BY <1>1, <1>11 DEF Users, CreateBudget, EditSpec, DeleteBudget, ForeignDone, Tick, vars,
        operatorVars, Kubelet, CreatePod, StartPod, FinishPod, DeletePod, CollectPod, OnPod
<1>12. CASE Work
  <2>. HIDE DEF Kept
  <2>1. Kept
    BY <1>4, <1>6, <1>7, <1>8, <1>10, <1>12 DEF Work, Call, Kept
  <2>. QED BY <2>1 DEF Kept
<1>13. CASE Manager /\ ~UNCHANGED worker
  <2>1. \E b \in Budgets : Get(b)
    BY <1>2, <1>13 DEF Manager, SyncBudget, SyncPod, Crash, Start
  <2>. QED BY <1>9, <1>13, <2>1
<1>. QED BY <1>1, <1>11, <1>12, <1>13 DEF Next

-----------------------------------------------------------------------------
(***************************************************************************)
(* WireInv is inductive.                                                   *)
(***************************************************************************)
\* A step of the controller beside the call.
LEMMA WireBeside ==
    ASSUME TypeOK, TypeOK', HeldInv, HeldInv', WireInv, [Next]_vars, UNCHANGED wire
    PROVE  WireInv'
<1>1. PICK k, o : k = wire.key /\ o = wire.obj
  OBVIOUS
<1>2. IsWorker(wire, now')
  <2>1. now' = now \/ now' = now + 1
    <3>1. CASE Next /\ ~Tick
      BY <3>1 DEF Next, Work, Call, Adopt, Remove, Degrade, WriteStatus, Evict, Pause, Stamp,
                  Refused, List, ListFails, Alert, AlreadyPaused, Manager, Get, SyncBudget, SyncPod,
                  Crash, Start, Users, CreateBudget, EditSpec, DeleteBudget, ForeignDone, Kubelet,
                  CreatePod, StartPod, FinishPod, DeletePod, CollectPod, OnPod
    <3>2. CASE Tick \/ UNCHANGED vars
      BY <3>2 DEF Tick, vars
    <3>. QED BY <3>1, <3>2
  <2>. QED BY <2>1, WorkerLater DEF WireInv, TypeOK
<1>3. AllOnward /\ budgetsMade \in Nat /\ UidsCounted
  BY StepsOnward DEF HeldInv, TypeOK
<1>4. ASSUME wire.pc # "idle"
      PROVE  k \in Budgets /\ IsBudget(o) /\ o.uid \in Nat \ {0} /\ IsPast(k, o) /\ IsPast(k, o)'
  <2>1. k \in Budgets /\ IsBudget(o) /\ o.uid \in Nat \ {0} /\ IsPast(k, o)
    BY <1>1, <1>4 DEF WireInv, IsWorker, IsBudget
  <2>. QED BY <1>3, <2>1, PastOnward
<1>5. wire'.pc = wire.pc /\ k = wire'.key /\ o = wire'.obj
  BY <1>1
<1>6. ASSUME wire.pc = "remove"
      PROVE  /\ SeenDeleted(k, o)'
             /\ (budgets[k] # NoBudget /\ budgets[k].uid = o.uid => gauges[k] = None)'
             /\ (worker.pc \in Live /\ worker.key = k => worker.obj.uid > o.uid)'
  <2>1. /\ k \in Budgets /\ IsBudget(o) /\ o.uid \in Nat \ {0} /\ o.deleting
        /\ IsPast(k, o) /\ IsPast(k, o)' /\ SeenDeleted(k, o)
        /\ budgets[k] # NoBudget /\ budgets[k].uid = o.uid => gauges[k] = None
        /\ worker.pc \in Live /\ worker.key = k => worker.obj.uid > o.uid
    BY <1>1, <1>4, <1>6 DEF WireInv, Live
  <2>2. SeenDeleted(k, o)'
    <3>1. budgetCache'[k] \in {budgetCache[k], budgets'[k], NoBudget}
      BY <2>1, CacheSteps
    <3>. QED BY <2>1, <3>1 DEF SeenDeleted, IsPast
  <2>3. ASSUME budgets'[k] # NoBudget, budgets'[k].uid = o.uid
        PROVE  gauges'[k] = None
    <3>1. o.uid <= budgetsMade
      BY <2>1 DEF IsPast
    <3>2. budgets[k] # NoBudget /\ budgets[k].uid = o.uid
      BY <1>3, <2>1, <2>3, <3>1 DEF AllOnward, Onward
    <3>3. gauges[k] = None
      BY <2>1, <3>2
    <3>4. ~(worker.pc = "write" /\ worker.key = k)
      <4>1. ASSUME worker.pc = "write", worker.key = k PROVE FALSE
        <5>1. worker.obj.uid > o.uid /\ worker.obj.uid = o.uid
          BY <2>1, <3>2, <4>1 DEF Live, Reconciling, HeldInv, WorkerInv, Held, Key
        <5>. QED BY <2>1, <5>1
      <4>. QED BY <4>1
    <3>. QED BY <2>1, <3>3, <3>4, SeriesSteps
  <2>4. ASSUME worker'.pc \in Live, worker'.key = k
        PROVE  worker'.obj.uid > o.uid
    <3>1. CASE \E b \in Budgets :
                 /\ budgetCache[b] # NoBudget /\ ~budgetCache[b].deleting
                 /\ worker'.key = b /\ worker'.obj = budgetCache[b]
      <4>1. /\ budgetCache[k] # NoBudget /\ ~budgetCache[k].deleting
            /\ worker'.obj = budgetCache[k] /\ budgetCache[k].uid \in Nat
        BY <2>1, <2>4, <3>1 DEF TypeOK, AreBudgets, IsBudget
      <4>. QED BY <2>1, <4>1 DEF SeenDeleted
    <3>2. CASE worker.pc \in Live /\ worker'.key = worker.key /\ worker'.obj.uid = worker.obj.uid
      BY <2>1, <2>4, <3>2
    <3>. QED BY <2>4, <3>1, <3>2, HandSteps
  <2>. QED BY <2>2, <2>3, <2>4
<1>7. wire.pc = "adopt" => ~o.deleting
  BY <1>1 DEF WireInv
<1>8. wire.pc = "remove" => o.deleting
  BY <1>1 DEF WireInv
<1>. QED BY <1>2, <1>4, <1>5, <1>6, <1>7, <1>8 DEF WireInv, Live

\* Nothing is on the wire.
LEMMA WireIdle ==
    ASSUME wire' = Idle
    PROVE  WireInv'
<1>1. IsWorker(wire', now') /\ wire'.pc = "idle"
  BY IdleOK
<1>. QED BY <1>1 DEF WireInv

\* A reconcile ends, and the call it was making stays on the wire.
LEMMA WireTaken ==
    ASSUME TypeOK, HeldInv, wire' = worker, worker' = Idle,
           UNCHANGED <<now, budgets, budgetsMade>>,
           \A b \in Budgets : /\ budgetCache'[b] \in {budgetCache[b], NoBudget}
                              /\ gauges'[b] \in {gauges[b], None}
    PROVE  WireInv'
<1>1. PICK k, o : k = Key /\ o = worker.obj
  OBVIOUS
<1>2. IsWorker(wire', now') /\ k = wire'.key /\ o = wire'.obj /\ wire'.pc = worker.pc
  BY <1>1 DEF TypeOK, Key
<1>3. ASSUME worker.pc # "idle"
      PROVE  k \in Budgets /\ IsPast(k, o)'
  BY <1>1, <1>3 DEF TypeOK, IsWorker, HeldInv, WorkerInv, IsPast, Key
<1>4. worker.pc = "adopt" => ~o.deleting
  BY <1>1 DEF HeldInv, WorkerInv
<1>5. ASSUME worker.pc = "remove"
      PROVE  o.deleting /\ SeenDeleted(k, o)' /\ gauges'[k] = None
  <2>1. k \in Budgets
    BY <1>3, <1>5
  <2>2. o.deleting /\ gauges[k] = None /\ SeenDeleted(k, o)
    BY <1>1, <1>5 DEF HeldInv, WorkerInv
  <2>. QED BY <2>1, <2>2 DEF SeenDeleted
<1>6. worker'.pc \notin Reconciling \cup {"adopt"}
  BY DEF Idle, Reconciling
<1>. QED BY <1>2, <1>3, <1>4, <1>5, <1>6 DEF WireInv

\* A reconcile that gives up its call ends with an error; nothing else happens.
LEMMA GivenUp ==
    ASSUME GiveUp
    PROVE  /\ worker.pc # "idle" /\ EndAndRequeue
           /\ UNCHANGED <<now, budgets, budgetsMade, pods, cacheVars, metricVars, audit>>
<1>1. ASSUME Adopt("rejected") \/ Remove("rejected") \/ Degrade("rejected") \/ Stamp("rejected")
      PROVE  /\ worker.pc # "idle" /\ EndAndRequeue
             /\ UNCHANGED <<now, budgets, budgetsMade, pods, cacheVars, metricVars, audit>>
  BY <1>1 DEF Adopt, Remove, Degrade, Stamp, Sent, Applied
<1>2. ASSUME WriteStatus("rejected")
      PROVE  /\ worker.pc # "idle" /\ EndAndRequeue
             /\ UNCHANGED <<now, budgets, budgetsMade, pods, cacheVars, metricVars, audit>>
  BY <1>2 DEF WriteStatus, Sent, Applied, metricVars
<1>3. ASSUME Evict("rejected", FALSE) \/ Pause("rejected")
      PROVE  /\ worker.pc # "idle" /\ EndAndRequeue
             /\ UNCHANGED <<now, budgets, budgetsMade, pods, cacheVars, metricVars, audit>>
  BY <1>3 DEF Evict, Pause, Dispatched, EnforcerFailed, Sent, Applied, metricVars
<1>. QED BY <1>1, <1>2, <1>3 DEF GiveUp

\* A call is given up, or its process dies.
LEMMA AbandonKeeps ==
    ASSUME TypeOK, HeldInv, Abandon
    PROVE  TypeOK' /\ HeldInv' /\ WireInv'
<1>1. CASE GiveUp
  <2>1. /\ worker.pc # "idle" /\ EndAndRequeue /\ worker' = Idle
        /\ UNCHANGED <<now, budgets, budgetsMade, pods, cacheVars, metricVars, audit>>
    BY <1>1, GivenUp DEF EndAndRequeue
  <2>2. IsWorker(worker', now') /\ queue' \subseteq Budgets
    BY <2>1, TypeEnds
  <2>3. TypeOK'
    BY <2>1, <2>2 DEF TypeOK, cacheVars, metricVars
  <2>4. HeldInv'
    BY <2>1, <2>3, GentlyNothing, HeldEnds DEF CacheMoves, cacheVars, metricVars
  <2>5. WireInv'
    BY <2>1, WireTaken DEF Abandon, cacheVars, metricVars
  <2>. QED BY <2>3, <2>4, <2>5
<1>2. CASE Crash
  <2>1. Next
    BY <1>2 DEF Next, Manager
  <2>2. TypeOK' /\ HeldInv'
    BY <2>1, TypeStep, HeldStep
  <2>3. WireInv'
    BY <1>2, WireTaken DEF Abandon, Crash, serverVars, NoBudgets, Nothing
  <2>. QED BY <2>2, <2>3
<1>. QED BY <1>1, <1>2 DEF Abandon

-----------------------------------------------------------------------------
(***************************************************************************)
(* What the late calls do.                                                 *)
(***************************************************************************)
\* A late call changes the server, and nothing else.
LEMMA TypeArrival ==
    ASSUME TypeOK, NEW pcs, Arrived(pcs), AreBudgets(budgets')
    PROVE  TypeOK'
BY DEF Arrived, TypeOK, operatorVars, cacheVars, metricVars, boundVars

\* One that changes a budget gently keeps what is held.
LEMMA HeldArrival ==
    ASSUME TypeOK, TypeOK', HeldInv, NEW pcs, Arrived(pcs), Gently
    PROVE  HeldInv'
BY HeldAround DEF Arrived, operatorVars, cacheVars, metricVars, CacheMoves

\* A late addition of the finalizer finds the budget as the reconcile read it.
LEMMA LateAdoptKeeps ==
    ASSUME TypeOK, HeldInv, WireInv, LateUpdate, wire.pc = "adopt"
    PROVE  TypeOK' /\ HeldInv' /\ WireInv'
<1>1. PICK k, o, n : k = wire.key /\ o = wire.obj /\ n = [o EXCEPT !.finalizer = TRUE]
  OBVIOUS
<1>2. /\ k \in Budgets /\ IsBudget(o) /\ budgets[k] = o
      /\ budgets' = [budgets EXCEPT ![k] = n] /\ UNCHANGED budgetsMade
      /\ Arrived({"adopt", "remove"})
  BY <1>1 DEF LateUpdate, WireInv, IsWorker, Arrived, boundVars
<1>3. IsBudget(n) /\ n.finalizer /\ n.uid = o.uid /\ n.deleting = o.deleting
  BY <1>1, <1>2, FinalizerSet
<1>4. TypeOK'
  BY <1>2, <1>3, TableSet, TypeArrival DEF TypeOK
<1>5. Gently
  <2>1. Gentle(budgets[k], n)
    BY <1>2, <1>3, BudgetExists DEF Gentle, Updated
  <2>. QED BY <1>2, <2>1, GentlySet
<1>6. HeldInv'
  BY <1>2, <1>4, <1>5, HeldArrival
<1>. QED BY <1>2, <1>4, <1>6, WireIdle DEF Arrived

\* A late removal of the finalizer finds the budget as the reconcile read it, so
\* that nothing the operator has in hand or in its cache shows it live.
LEMMA LateRemoveKeeps ==
    ASSUME TypeOK, HeldInv, WireInv, LateUpdate, wire.pc = "remove"
    PROVE  TypeOK' /\ HeldInv' /\ WireInv'
<1>1. PICK k, o, n : k = wire.key /\ o = wire.obj /\ n = WithoutFinalizer(o)
  OBVIOUS
<1>2. /\ k \in Budgets /\ IsBudget(o) /\ budgets[k] = o
      /\ budgets' = [budgets EXCEPT ![k] = n]
      /\ UNCHANGED <<worker, gauges, budgetsMade, budgetCache>> /\ budgetsMade \in Nat
      /\ Arrived({"adopt", "remove"})
  BY <1>1 DEF LateUpdate, WireInv, IsWorker, Arrived, boundVars, operatorVars, cacheVars,
              metricVars, TypeOK
<1>3. /\ IsPast(k, o) /\ o.deleting /\ SeenDeleted(k, o)
      /\ o # NoBudget /\ o.uid \in Nat /\ gauges[k] = None
      /\ worker.pc \in Live /\ worker.key = k => worker.obj.uid > o.uid
  BY <1>1, <1>2, BudgetExists DEF WireInv, Live, IsBudget
<1>4. /\ n = NoBudget \/ IsBudget(n)
      /\ n = NoBudget \/ (n # NoBudget /\ n.uid = o.uid /\ n.deleting)
  BY <1>1, <1>2, <1>3, FinalizerSet, BudgetExists DEF WithoutFinalizer
<1>5. TypeOK'
  BY <1>2, <1>4, TableSet, TypeArrival DEF TypeOK
<1>6. budgets'[k] = n /\ \A b \in Budgets : b # k => budgets'[b] = budgets[b]
  BY <1>2 DEF TypeOK, AreBudgets, Over
<1>7. UidsCounted'
  BY <1>2, <1>3, <1>4, <1>6 DEF UidsCounted, HeldInv
<1>8. ASSUME NEW b \in Budgets, NEW c, c.uid \in Nat, IsPast(b, c)
      PROVE  IsPast(b, c)'
  BY <1>2, <1>3, <1>4, <1>6, <1>8 DEF IsPast
<1>9. ASSUME NEW b \in Budgets, NEW c, Held(b, c), ~(b = k /\ c.uid = o.uid)
      PROVE  Held(b, c)'
  BY <1>2, <1>6, <1>9 DEF Held
<1>10. CacheInv'
  <2>1. ASSUME NEW b \in Budgets, NEW c, c = budgetCache[b], c # NoBudget
        PROVE  IsPast(b, c)' /\ (c.finalizer /\ ~c.deleting => Held(b, c)')
    <3>1. /\ IsPast(b, c) /\ c.uid \in Nat
          /\ c.finalizer /\ ~c.deleting => Held(b, c)
      BY <2>1 DEF HeldInv, CacheInv, TypeOK, AreBudgets, IsBudget
    <3>2. ~c.deleting => ~(b = k /\ c.uid = o.uid)
      BY <1>3, <2>1 DEF SeenDeleted
    <3>. QED BY <1>8, <1>9, <3>1, <3>2
  <2>. QED BY <1>2, <2>1 DEF CacheInv
<1>11. SeriesNeverOutliveBudget'
  BY <1>2, <1>3, <1>6 DEF HeldInv, SeriesNeverOutliveBudget
<1>12. WorkerInv'
  <2>1. PICK j, c : j = Key /\ c = worker.obj
    OBVIOUS
  <2>2. j = Key' /\ c = worker'.obj
    BY <1>2, <2>1 DEF Key
  <2>3. ASSUME worker.pc # "idle"
        PROVE  j \in Budgets /\ c.uid \in Nat /\ IsPast(j, c)'
    <3>1. j \in Budgets /\ c.uid \in Nat /\ IsPast(j, c)
      BY <2>1, <2>3 DEF HeldInv, WorkerInv, TypeOK, IsWorker, IsBudget, Key
    <3>. QED BY <1>8, <3>1
  <2>4. ASSUME worker.pc \in Reconciling
        PROVE  Held(j, c)'
    <3>1. j \in Budgets /\ Held(j, c) /\ c.uid \in Nat
      BY <2>1, <2>3, <2>4 DEF HeldInv, WorkerInv, Reconciling
    <3>2. j = k => c.uid > o.uid
      BY <1>3, <2>1, <2>4 DEF Live, Key
    <3>. QED BY <1>3, <1>9, <3>1, <3>2
  <2>5. worker.pc = "adopt" => ~c.deleting
    BY <2>1 DEF HeldInv, WorkerInv
  <2>6. ASSUME worker.pc = "remove"
        PROVE  c.deleting /\ gauges'[j] = None /\ SeenDeleted(j, c)'
    BY <1>2, <2>1, <2>6 DEF HeldInv, WorkerInv, SeenDeleted
  <2>. QED BY <1>2, <2>2, <2>3, <2>4, <2>5, <2>6 DEF WorkerInv
<1>13. HeldInv'
  BY <1>7, <1>10, <1>11, <1>12 DEF HeldInv
<1>. QED BY <1>2, <1>5, <1>13, WireIdle DEF Arrived

\* What a late patch makes of the status in hand is a status.
LEMMA PatchedStatusOK ==
    ASSUME NEW w, NEW t \in Nat, IsWorker(w, t), w.pc \in {"degrade", "write", "stamp"}
    PROVE  IsStatus(PatchedStatus(w))
<1>1. IsBudget(w.obj) /\ IsStatus(w.obj.status)
  BY DEF IsWorker, IsBudget
<1>2. CASE w.pc = "degrade"
  BY <1>1, <1>2, DegradedOK DEF PatchedStatus
<1>3. CASE w.pc = "write"
  <2>1. w.at \in Int /\ w.result.over \in BOOLEAN
    BY <1>3 DEF IsWorker
  <2>2. IsStatus(ReconciledStatus(w.obj, w.result, w.at))
    BY <1>1, <2>1, ReconciledOK
  <2>. QED BY <1>3, <2>2 DEF PatchedStatus
<1>4. CASE w.pc = "stamp"
  <2>1. Trunc(w.at) \in Int
    BY <1>4, TruncIsInt DEF IsWorker
  <2>2. IsStatus([w.obj.status EXCEPT !.lastEnforcementAt = Trunc(w.at)])
    BY <1>1, <2>1, StampedOK
  <2>. QED BY <1>4, <2>2 DEF PatchedStatus
<1>. QED BY <1>2, <1>3, <1>4

\* A late patch writes a status, whichever budget bears the name by then.
LEMMA LatePatchWrites ==
    ASSUME TypeOK, WireInv, LatePatch
    PROVE  \E s : /\ IsStatus(s) /\ wire.key \in Budgets /\ IsBudget(budgets[wire.key])
                  /\ budgets' = [budgets EXCEPT ![wire.key] =
                                    [budgets[wire.key] EXCEPT !.status = s]]
<1>1. PICK k, o, c, p : /\ k = wire.key /\ o = budgets[wire.key]
                        /\ c = wire.obj.status /\ p = PatchedStatus(wire)
  OBVIOUS
<1>2. k \in Budgets /\ IsBudget(o) /\ IsStatus(o.status)
  BY <1>1 DEF LatePatch, Arrived, WireInv, IsWorker, TypeOK, AreBudgets, IsBudget
<1>3. IsStatus(p)
  BY <1>1, PatchedStatusOK DEF LatePatch, Arrived, WireInv, TypeOK
<1>4. IsStatus(MergePatch(o.status, c, p))
  BY <1>2, <1>3, MergePatchOK
<1>5. budgets' = [budgets EXCEPT ![k] = [o EXCEPT !.status = MergePatch(o.status, c, p)]]
  BY <1>1 DEF LatePatch
<1>. QED BY <1>1, <1>2, <1>4, <1>5

\* A late patch is gentle.
LEMMA LatePatchKeeps ==
    ASSUME TypeOK, HeldInv, WireInv, LatePatch
    PROVE  TypeOK' /\ HeldInv' /\ WireInv'
<1>1. PICK k, o, s : /\ k \in Budgets /\ o = budgets[k] /\ IsBudget(o) /\ IsStatus(s)
                     /\ budgets' = [budgets EXCEPT ![k] = [o EXCEPT !.status = s]]
  BY LatePatchWrites
<1>2. PICK n : n = [o EXCEPT !.status = s]
  OBVIOUS
<1>3. IsBudget(n) /\ Gentle(o, n)
  BY <1>1, <1>2, StatusSet, GentleStatus
<1>4. Arrived({"degrade", "write", "stamp"}) /\ UNCHANGED budgetsMade
  BY DEF LatePatch, Arrived, boundVars
<1>5. TypeOK'
  BY <1>1, <1>2, <1>3, <1>4, TableSet, TypeArrival DEF TypeOK
<1>6. Gently
  BY <1>1, <1>2, <1>3, <1>4, GentlySet
<1>7. HeldInv'
  BY <1>4, <1>5, <1>6, HeldArrival
<1>. QED BY <1>4, <1>5, <1>7, WireIdle DEF Arrived

\* A late eviction or pause is of a pod.
LEMMA LateEnforcementKeeps ==
    ASSUME TypeOK, HeldInv, LateEnforcement
    PROVE  TypeOK' /\ HeldInv' /\ WireInv'
<1>1. Arrived({"enforce"}) /\ UNCHANGED <<budgets, budgetsMade>>
  BY DEF LateEnforcement, Arrived, boundVars
<1>2. TypeOK'
  BY <1>1, TypeArrival DEF TypeOK
<1>3. HeldInv'
  BY <1>1, <1>2, GentlyNothing, HeldArrival
<1>. QED BY <1>1, <1>2, <1>3, WireIdle DEF Arrived

-----------------------------------------------------------------------------
(***************************************************************************)
(* The invariants, whatever arrives late.                                  *)
(***************************************************************************)
LateInv == TypeOK /\ HeldInv /\ WireInv

LEMMA LateInvInit == LateInit => LateInv
BY TypeInit, HeldInit, IdleOK DEF LateInit, LateInv, WireInv

\* WireInv is inductive, and HeldInv with it.
LEMMA LateInvStep == LateInv /\ [LateNext]_lateVars => LateInv'
<1>. SUFFICES ASSUME LateInv, [LateNext]_lateVars PROVE LateInv'
  OBVIOUS
<1>1. CASE [Next]_vars /\ UNCHANGED wire
  <2>1. TypeOK' /\ HeldInv'
    BY <1>1, TypeStep, HeldStep DEF LateInv
  <2>. QED BY <1>1, <2>1, WireBeside DEF LateInv
<1>2. CASE Abandon
  BY <1>2, AbandonKeeps DEF LateInv
<1>3. CASE LateUpdate
  <2>1. wire.pc \in {"adopt", "remove"}
    BY <1>3 DEF LateUpdate, Arrived
  <2>. QED BY <1>3, <2>1, LateAdoptKeeps, LateRemoveKeeps DEF LateInv
<1>4. CASE LatePatch
  BY <1>4, LatePatchKeeps DEF LateInv
<1>5. CASE LateEnforcement
  BY <1>5, LateEnforcementKeeps DEF LateInv
<1>6. [LateNext]_lateVars =>
        ([Next]_vars /\ UNCHANGED wire) \/ Abandon \/ LateUpdate \/ LatePatch \/ LateEnforcement
  BY DEF LateNext, lateVars
<1>. QED BY <1>1, <1>2, <1>3, <1>4, <1>5, <1>6

-----------------------------------------------------------------------------
(***************************************************************************)
(* The life of a budget.                                                   *)
(***************************************************************************)
\* A late update of the finalizer takes hold of a live budget, or lets go of a
\* deleted one whose series is withdrawn.
LEMMA LifecycleLateUpdate ==
    ASSUME LateInv, LateUpdate
    PROVE  LifecycleStep
<1>1. PICK k, o, n : /\ k = wire.key /\ o = wire.obj
                     /\ n = IF wire.pc = "adopt" THEN [wire.obj EXCEPT !.finalizer = TRUE]
                            ELSE WithoutFinalizer(wire.obj)
  OBVIOUS
<1>2. /\ TypeOK /\ k \in Budgets /\ IsBudget(o) /\ budgets[k] = o
      /\ budgets' = [budgets EXCEPT ![k] = n] /\ UNCHANGED gauges
      /\ wire.pc \in {"adopt", "remove"}
  BY <1>1 DEF LateUpdate, LateInv, WireInv, IsWorker, Arrived, operatorVars, metricVars
<1>3. CASE wire.pc = "adopt"
  <2>1. ~o.deleting
    BY <1>1, <1>3 DEF LateInv, WireInv
  <2>2. IsBudget(n) /\ n.finalizer /\ ~n.deleting
    BY <1>1, <1>2, <1>3, <2>1, FinalizerSet
  <2>3. Moves(StageOf(o), StageOf(n), gauges[k] # None)
    BY <1>2, <2>1, <2>2, StageIs DEF Moves, IsBudget
  <2>. QED BY <1>2, <2>3, ServerMoves
<1>4. CASE wire.pc = "remove"
  <2>1. o.deleting /\ gauges[k] = None
    BY <1>1, <1>2, <1>4, BudgetExists DEF LateInv, WireInv
  <2>2. StageOf(o) \in {"doomed", "left"}
    BY <1>2, <2>1, StageIs DEF IsBudget
  <2>3. StageOf(n) = IF o.foreign THEN "left" ELSE "absent"
    <3>. DEFINE kept == [o EXCEPT !.finalizer = FALSE]
    <3>1. IsBudget(kept) /\ kept.deleting /\ kept.finalizer = FALSE
      BY <1>2, <2>1, FinalizerSet
    <3>2. StageOf(kept) = "left"
      BY <3>1, StageIs
    <3>3. n = WithoutFinalizer(o)
      BY <1>1, <1>4
    <3>. QED BY <3>2, <3>3, StageAbsent DEF WithoutFinalizer
  <2>4. Moves(StageOf(o), StageOf(n), gauges[k] # None)
    BY <1>2, <2>1, <2>2, <2>3 DEF Moves, IsBudget
  <2>. QED BY <1>2, <2>4, ServerMoves
<1>. QED BY <1>2, <1>3, <1>4

\* A late patch moves no budget.
LEMMA LifecycleLatePatch ==
    ASSUME LateInv, LatePatch
    PROVE  LifecycleStep
<1>1. PICK k, o, s : /\ k \in Budgets /\ o = budgets[k] /\ IsBudget(o)
                     /\ budgets' = [budgets EXCEPT ![k] = [o EXCEPT !.status = s]]
  BY LatePatchWrites DEF LateInv
<1>2. StageOf([o EXCEPT !.status = s]) = StageOf(o)
  BY <1>1, StageKept
<1>3. PICK n : n = [o EXCEPT !.status = s]
  OBVIOUS
<1>4. Moves(StageOf(budgets[k]), StageOf(n), gauges[k] # None)
  BY <1>1, <1>2, <1>3 DEF Moves
<1>5. TypeOK /\ UNCHANGED gauges
  BY DEF LateInv, LatePatch, Arrived, operatorVars, metricVars
<1>. QED BY <1>1, <1>3, <1>4, <1>5, ServerMoves

\* So does every step: it is one in the life of a budget, or none.
LEMMA LifecycleLateSteps ==
    LateInv /\ [LateNext]_lateVars => [Lifecycle!Next]_(Lifecycle!lifecycleVars)
<1>. SUFFICES ASSUME LateInv, [LateNext]_lateVars
              PROVE  [Lifecycle!Next]_(Lifecycle!lifecycleVars)
  OBVIOUS
<1>1. CASE [Next]_vars
  BY <1>1, LifecycleSteps DEF LateInv
<1>2. ASSUME LifecycleStep
      PROVE  [Lifecycle!Next]_(Lifecycle!lifecycleVars)
  BY <1>2 DEF LifecycleStep, Lifecycle!lifecycleVars, stages, published
<1>3. CASE Abandon /\ GiveUp
  BY <1>2, <1>3, GivenUp, LifecycleOther DEF metricVars
<1>4. CASE Abandon /\ Crash
  BY <1>2, <1>4, LifecycleCrash
<1>5. CASE LateUpdate
  BY <1>2, <1>5, LifecycleLateUpdate
<1>6. CASE LatePatch
  BY <1>2, <1>6, LifecycleLatePatch
<1>7. CASE LateEnforcement
  BY <1>2, <1>7, LifecycleOther DEF LateEnforcement, Arrived, operatorVars, metricVars
<1>8. [Next]_vars \/ (Abandon /\ (GiveUp \/ Crash)) \/ LateUpdate \/ LatePatch \/ LateEnforcement
  BY DEF LateNext, lateVars, Abandon
<1>. QED BY <1>1, <1>3, <1>4, <1>5, <1>6, <1>7, <1>8

-----------------------------------------------------------------------------
\* A call carried out after its caller has given it up, however late, does not
\* spoil what the finalizer stands for: what the cache shows live is still held
\* (Reconcile, finalize, r.Update with the resourceVersion it read).
THEOREM LateHeldAlways == LateSpec => []HeldInv
<1>1. LateInv => HeldInv
  BY DEF LateInv
<1>. QED BY <1>1, LateInvInit, LateInvStep, PTL DEF LateSpec

\* No series outlives its budget, though the finalizer may be removed by a call
\* of a process that is gone, and the patches of the status carry only a name.
THEOREM LateSeriesCleared == LateSpec => []SeriesNeverOutliveBudget
<1>1. HeldInv => SeriesNeverOutliveBudget
  BY DEF HeldInv
<1>. QED BY <1>1, LateHeldAlways, PTL

\* The controller beside a late call implements the life of a budget under its
\* finalizer.
THEOREM LateLifecycleImplemented == LateSpec => ImplementsLifecycle
<1>1. LateInit => Lifecycle!Init
  BY LifecycleInit DEF LateInit
<1>. QED BY <1>1, LateInvInit, LateInvStep, LifecycleLateSteps, PTL
         DEF LateSpec, ImplementsLifecycle, Lifecycle!Spec
=============================================================================
