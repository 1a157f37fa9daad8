----------------------------- MODULE Accounting -----------------------------
(***************************************************************************)
(* internal/accounting: the pure engine that turns a set of pod intervals  *)
(* into the numbers of a rolling-window budget, and the conversion of its  *)
(* result to the quantity stored in .status.                               *)
(*                                                                         *)
(* Instants are integers (ticks).  GPU-hours are counted in GPU-ticks: an  *)
(* hour is so many ticks that a GPU-tick is an exact value, and the float  *)
(* arithmetic of the engine is exact on the instances checked here.        *)
(*                                                                         *)
(* Not modelled: floating-point rounding.                                  *)
(***************************************************************************)
EXTENDS Integers, FiniteSets, FiniteSetsExt

CONSTANTS
    None,           \* a nil pointer, an absent field
    UnitsPerMilli,  \* GPU-ticks in one thousandth of a GPU-hour
    MaxDuration     \* the longest time.Duration, in windowHours (2562047 in Go)

ASSUME NoneAssumption == None \notin Int /\ None \notin BOOLEAN
ASSUME UnitsAssumption == UnitsPerMilli \in Nat \ {0}
ASSUME DurationAssumption == MaxDuration \in Nat \ {0}

-----------------------------------------------------------------------------
\* The zero time.Time, which precedes every instant of a pod.
ZeroTime == 0

\* A pod as the engine sees it: it holds gpus devices during [start, end);
\* end = None while it runs.
AccountingPod(start, end, gpus) == [start |-> start, end |-> end, gpus |-> gpus]

LaterOf(s, t) == IF s < t THEN t ELSE s

\* The first instant at which the pod no longer counts, cut off at to.
EffectiveEnd(pod, to) == IF pod.end # None /\ pod.end < to THEN pod.end ELSE to

\* The kubelet's clock may run behind: an interval that ends before it starts.
Inverted(pod) == pod.end # None /\ pod.end < pod.start

(***************************************************************************)
(* What a pod contributes to the half-open window [from, to).              *)
(***************************************************************************)
WindowUsage(pod, from, to) ==
    LET effStart == LaterOf(pod.start, from)
        effEnd   == EffectiveEnd(pod, to)
    IN  IF from < to /\ ~Inverted(pod) /\ effStart < effEnd /\ pod.gpus > 0
        THEN pod.gpus * (effEnd - effStart)
        ELSE 0

\* time.Duration(hours) * time.Hour, a product in 64 bits that wraps around.
WindowDuration(hours) ==
    ((hours + MaxDuration + 1) % (2 * (MaxDuration + 1))) - (MaxDuration + 1)

\* Mutant of WindowStart: only a negative window reaches back to the beginning.
WindowStartOffByOne(window, now) == IF window < 0 THEN ZeroTime ELSE now - window

WindowStart(window, now) == IF window <= 0 THEN ZeroTime ELSE now - window

(***************************************************************************)
(* Budget.Compute.  pods is a function from any index set to engine pods   *)
(* (a slice is one): duplicates are summed, as the engine does.            *)
(***************************************************************************)
Compute(window, quota, now, pods) ==
    LET from  == WindowStart(window, now)
        total == MapThenSumSet(LAMBDA i : WindowUsage(pods[i], from, now), DOMAIN pods)
    IN  [consumed  |-> total,
         remaining |-> LaterOf(quota - total, 0),
         tracked   |-> Cardinality(DOMAIN pods),
         over      |-> total >= quota]

(***************************************************************************)
(* A GPU-hour count as the status field holds it: clamped at zero and      *)
(* rounded, half up, to thousandths of a GPU-hour.                         *)
(***************************************************************************)
GpuHoursToQuantity(h) ==
    LET clamped == LaterOf(h, 0)
    IN  (2 * clamped + UnitsPerMilli) \div (2 * UnitsPerMilli)
=============================================================================
