----------------------------- MODULE QuotaClock -----------------------------
(***************************************************************************)
(* What QuotaExceeded promises to whoever reads it: a clock that is set    *)
(* when a budget goes over or comes back below, at instants that only      *)
(* grow, that is left alone in between as long as the budget exists, and   *)
(* that alone decides when enforcement may begin.                          *)
(***************************************************************************)
EXTENDS Integers

CONSTANTS Budgets, Graces, None

VARIABLES
    now,      \* in the resolution of the clock
    clock,    \* of each budget: whether it exists, is over, and since when
    acting    \* enforcement that is under way: a budget, or None

clockVars == <<now, clock, acting>>

Absent == [exists |-> FALSE, over |-> None, at |-> None]
Unset  == [exists |-> TRUE, over |-> None, at |-> None]

Init ==
    /\ now \in Int
    /\ clock = [b \in Budgets |-> Absent]
    /\ acting = None

Pass ==
    /\ now' > now
    /\ UNCHANGED <<clock, acting>>

\* A budget is created, under a name that may have been used before.
Make(b) ==
    /\ ~clock[b].exists
    /\ clock' = [clock EXCEPT ![b] = Unset]
    /\ UNCHANGED <<now, acting>>

\* A budget disappears, and its clock with it: no other step clears one.
Drop(b) ==
    /\ clock[b].exists
    /\ clock' = [clock EXCEPT ![b] = Absent]
    /\ UNCHANGED <<now, acting>>

\* What a flip to over at instant t makes of a clock.
Flipped(c, over, t) ==
    IF c.over = over THEN c ELSE [exists |-> TRUE, over |-> over, at |-> t]

\* The budget is found over or not, as of instant t; over for the length of the
\* grace period that applies, it may be acted on at once.
Conclude(b, over, t) ==
    /\ acting = None
    /\ clock[b].exists
    /\ clock[b].over # None => t >= clock[b].at
    /\ clock' = [clock EXCEPT ![b] = Flipped(@, over, t)]
    /\ \/ UNCHANGED acting
       \/ /\ over
          /\ \E grace \in Graces : now >= clock'[b].at + grace
          /\ acting' = b
    /\ UNCHANGED now

Finish ==
    /\ acting' = None
    /\ UNCHANGED <<now, clock>>

Next ==
    \/ Pass \/ Finish
    \/ \E b \in Budgets :
          \/ Make(b) \/ Drop(b)
          \/ \E over \in BOOLEAN : \E t \in 0..now : Conclude(b, over, t)

Spec == Init /\ [][Next]_clockVars
=============================================================================
