-------------------------- MODULE BudgetInvariants --------------------------
(***************************************************************************)
(* Why BudgetController keeps its promises: the inductive invariants       *)
(* behind SeriesNeverOutliveBudget (HeldInv), GraceNeverEarly (ClockInv)   *)
(* and LastEnforcementNeverRegresses (StampInv), which hold even with      *)
(* stale reads, and behind GraceClockFaithful, StatusIsLastVerdict and     *)
(* GraceOfThisEpisode (FreshInv) and PauseKeepsItsAuthor (PauseInv) with   *)
(* fresh ones; PodsInv and AdmittedInv are behind OverHasACulprit.         *)
(***************************************************************************)
EXTENDS BudgetController

\* c, a copy of budget b held by the operator, is a state b has been in: its
\* incarnation is not from the future, and deletion is never undone.
IsPast(b, c) ==
    /\ c.uid <= budgetsMade
    /\ budgets[b] # NoBudget =>
          /\ c.uid <= budgets[b].uid
          /\ c.uid = budgets[b].uid /\ c.deleting => budgets[b].deleting

\* The server still holds the incarnation that c is a copy of, under the
\* operator's finalizer.
Held(b, c) ==
    /\ budgets[b] # NoBudget /\ budgets[b].uid = c.uid
    /\ budgets[b].finalizer

\* The cache has moved past the last live state of the deleted budget o.
SeenDeleted(b, o) ==
    budgetCache[b] # NoBudget =>
        /\ budgetCache[b].uid >= o.uid
        /\ budgetCache[b].uid = o.uid => budgetCache[b].deleting

Reconciling == {"list", "degrade", "write", "enforce", "stamp"}

UidsCounted ==
    \A b \in Budgets : budgets[b] # NoBudget => budgets[b].uid <= budgetsMade

\* The finalizer goes only through a reconcile that read the deletion from this
\* cache, so what the cache shows live is still held.
CacheInv ==
    \A b \in Budgets : budgetCache[b] # NoBudget =>
        /\ IsPast(b, budgetCache[b])
        /\ budgetCache[b].finalizer /\ ~budgetCache[b].deleting => Held(b, budgetCache[b])

WorkerInv ==
    /\ worker.pc # "idle" => IsPast(Key, worker.obj)
    /\ worker.pc = "adopt" => ~worker.obj.deleting
    /\ worker.pc \in Reconciling => Held(Key, worker.obj)
    /\ worker.pc = "remove" =>
          /\ worker.obj.deleting /\ gauges[Key] = None
          /\ SeenDeleted(Key, worker.obj)

\* A cached budget with the finalizer and not yet deleted is still held by the
\* server, and a reconcile that publishes a series started from one
\* (Reconcile, finalize).
HeldInv == UidsCounted /\ CacheInv /\ WorkerInv /\ SeriesNeverOutliveBudget

AuditFields == {"verdict", "overSince", "firstOver"}

\* The QuotaExceeded condition of c, a copy of budget b, is not from before the
\* first reconcile that found b over.
NotBefore(b, c) ==
    c.status.conds.over = TRUE =>
        /\ audit[b].firstOver \in Nat
        /\ c.status.conds.overAt >= Trunc(audit[b].firstOver)

AuditInv ==
    \A b \in Budgets :
        Over(audit[b], AuditFields) /\ audit[b].firstOver \in (0..now) \cup {None}

CopiesInv ==
    /\ \A b \in Budgets : budgets[b] # NoBudget => NotBefore(b, budgets[b])
    /\ \A b \in Budgets :
          /\ budgetCache[b] # NoBudget /\ budgets[b] # NoBudget
          /\ budgets[b].uid = budgetCache[b].uid
          => NotBefore(b, budgetCache[b])

HandInv ==
    /\ worker.pc \in Reconciling => NotBefore(Key, worker.obj)
    /\ worker.pc = "write" /\ worker.result.over =>
          audit[Key].firstOver \in Nat /\ audit[Key].firstOver <= worker.at

\* A transition time may be restored from an old copy of the same incarnation,
\* but none of the copies around is from before that incarnation was first over
\* (writeStatus, maybeEnforce).
ClockInv == AuditInv /\ CopiesInv /\ HandInv /\ GraceNeverEarly

\* QuotaExceeded in the status s was turned no later than the second of instant t.
TurnedBy(s, t) == s.conds.over # None => s.conds.overAt <= Trunc(t)

\* The status s says what its history r says: the last conclusion, and since when.
Tells(s, r) ==
    /\ (s.conds.over = TRUE) = (r.overSince # None)
    /\ s.conds.over = TRUE => s.conds.overAt = Trunc(r.overSince)
    /\ r.verdict # None =>
          /\ s.consumed = r.verdict.consumed /\ s.remaining = r.verdict.remaining
          /\ s.tracked = r.verdict.tracked /\ s.conds.over = r.verdict.over

RecordsInv ==
    \A b \in Budgets : budgets[b] # NoBudget =>
        Tells(budgets[b].status, audit[b]) /\ TurnedBy(budgets[b].status, now)

InHandInv ==
    /\ worker.pc \in Reconciling => budgets[Key].status = worker.obj.status
    /\ worker.pc \in {"write", "enforce"} => TurnedBy(worker.obj.status, worker.at)
    /\ worker.pc = "enforce" => GraceElapsed(worker.obj, worker.at)

\* With fresh reads the status in hand is the server's until the reconcile writes
\* it, so that each write adds to what the one before it concluded.
FreshInv == RecordsInv /\ InHandInv

\* The stamp of the status s is no later than the second of instant t.
StampedBy(s, t) == s.lastEnforcementAt # None => s.lastEnforcementAt <= Trunc(t)

\* No enforcement is recorded for later than now, nor, while a reconcile is in
\* progress, for later than the instant it will record itself.
StampInv ==
    /\ \A b \in Budgets : budgets[b] # NoBudget => StampedBy(budgets[b].status, now)
    /\ worker.pc \in {"write", "enforce", "stamp"} => StampedBy(budgets[Key].status, worker.at)

PodFields == {"uid", "requests", "startTime", "statuses", "phase", "deletionTimestamp", "pausedBy"}

\* A pod as the server stores it; a running one has a container to stop.
StoredPod(p) ==
    /\ Over(p, PodFields) /\ IsPod(p)
    /\ (p.phase = "Running" => 1 \in DOMAIN p.statuses)

\* There are finitely many of them.
ArePods(table) ==
    /\ Over(table, PodNames) /\ IsFiniteSet({n \in PodNames : table[n] # None})
    /\ \A n \in PodNames : table[n] = None \/ StoredPod(table[n])

\* The verdict to be written is that of the listing, which is one of pods.
ListingInv ==
    worker.pc = "write" =>
        /\ DOMAIN worker.listing \subseteq PodNames /\ IsFiniteSet(DOMAIN worker.listing)
        /\ \A n \in DOMAIN worker.listing : IsPod(worker.listing[n])
        /\ worker.result = Verdict(worker.obj.spec, worker.listing, worker.at)

PodsInv == ArePods(pods) /\ ArePods(podCache) /\ ListingInv

\* The API server stores o only if it allots something over some time.
Allots(o) == o # NoBudget => o.spec.quota > 0 /\ o.spec.window > 0

\* What the webhook admitted is what the copies of budgets say, wherever held.
AdmittedInv ==
    /\ \A b \in Budgets : Allots(budgets[b]) /\ Allots(budgetCache[b])
    /\ Allots(worker.obj)

Unpaused(p) == p = None \/ ~Paused(p)

\* What a reconcile listed as not paused nobody else has paused since: pods are
\* paused by the one worker only, and with fresh reads it listed them as they were.
PauseInv ==
    /\ worker.pc = "write" =>
          \A n \in DOMAIN worker.listing : Unpaused(worker.listing[n]) => Unpaused(pods[n])
    /\ worker.pc = "enforce" =>
          /\ worker.target.name \in PodNames
          /\ (Unpaused(worker.target.pod) => Unpaused(pods[worker.target.name]))

\* A budget found over has a pod that made it so, and either somebody to act on
\* or only pods on their way out: Compute and pickWorstOffender take the same
\* window of the same pods, and a quota that nobody has to exceed is not
\* admitted (Reconcile, maybeEnforce, validateSpec).  Windows longer than
\* MaxDuration are the exception.
OverHasACulprit ==
    worker.pc = "write" /\ worker.result.over =>
        LET listing == worker.listing
            length  == WindowDuration(worker.obj.spec.window)
            counted == {n \in DOMAIN listing :
                           /\ Accountable(listing[n])
                           /\ WindowUsage(PodToAccounting(listing[n]),
                                          WindowStart(length, worker.at), worker.at) > 0}
        IN  /\ counted # {}
            /\ \/ WorstOffender(listing, worker.at - length, worker.at) \in counted
               \/ \A n \in counted : listing[n].deletionTimestamp # None
=============================================================================
