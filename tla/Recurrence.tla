----------------------------- MODULE Recurrence -----------------------------
(***************************************************************************)
(* The arithmetic of daily and weekly tasks (server/lib/recurrence.js):    *)
(* pure functions on instants, which are whole hours here.  A time zone is *)
(* its offset before and after one change of the clocks; tzId null is the  *)
(* zone whose offset is always zero.  What Intl knows of a zone is data.   *)
(***************************************************************************)
EXTENDS Integers

Day == 24

(* before, after: offset from UTC, in hours, until and from the instant at *)
Zone == [at : Int, before : Int, after : Int]

UTC == [at |-> 0, before |-> 0, after |-> 0]

(* tzOffsetMsAt: what the clock on the wall shows, less the instant.       *)
OffsetAt(z, t) == IF t < z.at THEN z.before ELSE z.after

WallAt(z, t) == t + OffsetAt(z, t)

TimeOfDay(z, t) == WallAt(z, t) % Day

(* epochFromWallParts: the offset is guessed by taking the clock for UTC,  *)
(* and corrected once by the offset where the guess falls.                 *)
EpochFromWall(z, wall) ==
    LET firstGuess == wall - OffsetAt(z, wall)
        refined == wall - OffsetAt(z, firstGuess)
    IN IF OffsetAt(z, refined) # OffsetAt(z, firstGuess) THEN firstGuess ELSE refined

(* The same clock, so many periods of so many days later.                  *)
AdvanceOccurrence(z, t, days, periods) ==
    EpochFromWall(z, WallAt(z, t) + days * periods * Day)

(* planNextOccurrence estimates the number of periods, takes periods away  *)
(* while that still leaves an instant in the future, and adds some until   *)
(* there is one.                                                           *)
Estimate(t, days, now) ==
    IF now > t /\ (now - t) \div (days * Day) > 1 THEN (now - t) \div (days * Day) ELSE 1

LeastOf(S) == CHOOSE n \in S : \A m \in S : n <= m

PeriodsAhead(z, t, days, now) ==
    LET ahead(n) == AdvanceOccurrence(z, t, days, n) > now
        estimate == Estimate(t, days, now)
        lowered == LeastOf({n \in 1..estimate : \A m \in n..(estimate - 1) : ahead(m)})
    IN LeastOf({n \in lowered..(lowered + estimate + 1) : ahead(n)})

PlanNextOccurrence(z, t, days, now) ==
    AdvanceOccurrence(z, t, days, PeriodsAhead(z, t, days, now))

(* The reference: a clock reading exists if some instant shows it.         *)
Shown(z, wall) == \E o \in {z.before, z.after} : WallAt(z, wall - o) = wall
=============================================================================
