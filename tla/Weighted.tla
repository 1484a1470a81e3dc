------------------------------- MODULE Weighted -------------------------------
(***************************************************************************)
(* The weighted balancer: smooth weighted round-robin over the backends    *)
(* that are alive. Next runs under the balancer's mutex, so only one call  *)
(* is under way, but the alive flags belong to the health checker and the  *)
(* handlers and change while it loops over the backends.                   *)
(***************************************************************************)
EXTENDS Pool, FiniteSetsExt

CONSTANT Weight  \* the weights, 1 when missing; negative ones are left out

ASSUME WeightedAssumption == Weight \in [Backend -> Nat \ {0}]

VARIABLES
    steady,   \* history: no alive flag has changed so far
    current,  \* wBackend.current
    round,    \* the call of Next that holds the mutex
    picked,   \* history: picks of each backend in the current cycle
    waited    \* history: picks of others since a backend was picked or came back

weightedVars == <<alive, steady, current, round, picked, waited>>

\* cursor: backends visited, -1 when nobody is in Next.
RoundType == [cursor : -1..Len(Backends), total : Nat, best : Backend \cup {None}]

Free == [cursor |-> -1, total |-> 0, best |-> None]

SumOver(f) == MapThenSumSet(LAMBDA b : f[b], Backend)

TotalWeight == SumOver(Weight)

WeightedTypeOK ==
    /\ alive \in [Backend -> BOOLEAN]
    /\ steady \in BOOLEAN
    /\ current \in [Backend -> Int]
    /\ round \in RoundType
    /\ picked \in [Backend -> Nat]
    /\ waited \in [Backend -> Nat]

Zero == [b \in Backend |-> 0]

WeightedInit ==
    /\ alive = AllAlive
    /\ steady = TRUE
    /\ current = Zero
    /\ round = Free
    /\ picked = Zero
    /\ waited = Zero

\* The mutex is taken.
Enter ==
    /\ round = Free
    /\ round' = [Free EXCEPT !.cursor = 0]
    /\ UNCHANGED <<alive, steady, current, picked, waited>>

Visited == Backends[round.cursor + 1]

Visiting == round.cursor \in 0..(Len(Backends) - 1)

\* Mutant of Skip: a backend that is passed over earns its weight all the same.
SkipEarns ==
    /\ Visiting
    /\ ~alive[Visited]
    /\ current' = [current EXCEPT ![Visited] = @ + Weight[Visited]]
    /\ round' = [round EXCEPT !.cursor = @ + 1, !.total = @ + Weight[Visited]]
    /\ UNCHANGED <<alive, steady, picked, waited>>

\* A backend that is not alive is passed over.
Skip ==
    /\ Visiting
    /\ ~alive[Visited]
    /\ round' = [round EXCEPT !.cursor = @ + 1]
    /\ UNCHANGED <<alive, steady, current, picked, waited>>

\* Mutant of Visit: the first backend that is alive stays the best.
VisitFirst ==
    /\ Visiting
    /\ alive[Visited]
    /\ current' = [current EXCEPT ![Visited] = @ + Weight[Visited]]
    /\ round' = [cursor |-> round.cursor + 1,
                 total  |-> round.total + Weight[Visited],
                 best   |-> IF round.best = None THEN Visited ELSE round.best]
    /\ UNCHANGED <<alive, steady, picked, waited>>

\* One round of the loop for a backend that is alive.
Visit ==
    LET c == current[Visited] + Weight[Visited]
    IN  /\ Visiting
        /\ alive[Visited]
        /\ current' = [current EXCEPT ![Visited] = c]
        /\ round' = [cursor |-> round.cursor + 1,
                     total  |-> round.total + Weight[Visited],
                     best   |-> IF round.best = None \/ c > current[round.best]
                                THEN Visited ELSE round.best]
        /\ UNCHANGED <<alive, steady, picked, waited>>

\* ErrNoHealthyBackend.
NobodyAlive ==
    /\ round.cursor = Len(Backends)
    /\ round.best = None
    /\ round' = Free
    /\ UNCHANGED <<alive, steady, current, picked, waited>>

\* The pick is recorded; a cycle is as many picks as the weights add up to.
Remember(b) ==
    /\ picked' = [IF SumOver(picked) = TotalWeight THEN Zero ELSE picked
                     EXCEPT ![b] = @ + 1]
    /\ waited' = [c \in Backend |-> IF c = b \/ ~alive[c] THEN 0 ELSE waited[c] + 1]

\* Mutant of Pick: the winner pays its own weight.
PickOwnWeight ==
    /\ round.cursor = Len(Backends)
    /\ round.best # None
    /\ current' = [current EXCEPT ![round.best] = @ - Weight[round.best]]
    /\ round' = Free
    /\ Remember(round.best)
    /\ UNCHANGED <<alive, steady>>

\* The winner pays for the round.
Pick ==
    /\ round.cursor = Len(Backends)
    /\ round.best # None
    /\ current' = [current EXCEPT ![round.best] = @ - round.total]
    /\ round' = Free
    /\ Remember(round.best)
    /\ UNCHANGED <<alive, steady>>

\* A health check or a handler changes a flag, in the middle of a call or not.
FlipAny(b) ==
    /\ steady' = FALSE
    /\ alive' = [alive EXCEPT ![b] = ~@]
    /\ waited' = [waited EXCEPT ![b] = 0]
    /\ UNCHANGED <<current, round, picked>>

WeightedNext ==
    \/ Enter \/ Skip \/ Visit \/ NobodyAlive \/ Pick
    \/ \E b \in Backend : FlipAny(b)

WeightedSpec == WeightedInit /\ [][WeightedNext]_weightedVars

-----------------------------------------------------------------------------
\* Nothing is lost from the ledger of the smooth algorithm, whatever flags change
\* in the middle of a call: what the visited backends have gained is what the
\* winner will pay, and between calls the credits add up to zero (lines 170-186).
LedgerBalanced == SumOver(current) = round.total

\* Twice the largest credit: each other backend adds half of what the weights add up
\* to, less one for every backend beyond the second.
Reach == (Len(Backends) - 1) * (TotalWeight - Len(Backends) + 2)

\* However often backends die and come back, in the middle of a call or not, no
\* credit drifts: between calls the credits and debts stay within a bound that depends
\* on the weights alone (lines 175, 178, 185).
CreditsBounded ==
    round = Free => \A b \in Backend : 2 * current[b] \in -Reach..Reach

\* README line 23, "weighted (smooth, nginx-style)": while every backend is alive,
\* none is ever a whole request ahead of its exact share, none falls further behind
\* than Reach, and a full cycle gives each backend exactly as many requests as its
\* weight says.
SmoothShare ==
    steady /\ round = Free =>
        /\ \A b \in Backend :
              LET owed == SumOver(picked) * Weight[b] - picked[b] * TotalWeight
              IN  owed > -TotalWeight /\ 2 * owed <= Reach
        /\ SumOver(picked) = TotalWeight => picked = Weight

\* A backend that is alive is picked again, the sooner the greater its weight, even
\* when the credits of backends that died and came back date from another time.
NotStarved == \A b \in Backend : waited[b] * Weight[b] <= Reach + Weight[b]
=============================================================================
