---------------------------- MODULE MCRecurrence ----------------------------
(* Berlin and New York, in spring and in autumn, and UTC; and what the     *)
(* recurrence arithmetic promises, over a week around the change of the    *)
(* clocks.  Every run whose module extends this one evaluates it.          *)
EXTENDS Recurrence

ClockChanges ==
    {[at |-> 2 * Day + 1, before |-> 1, after |-> 2],
     [at |-> 2 * Day + 1, before |-> 2, after |-> 1],
     [at |-> 2 * Day + 7, before |-> -5, after |-> -4],
     [at |-> 2 * Day + 6, before |-> -4, after |-> -5],
     UTC}

Instants == Day..(3 * Day)
Nows == Day..(7 * Day)

(* The next occurrence lies in the future, and is the first of its series  *)
(* that does, however long the service has stood still.                    *)
ASSUME NextIsFirstInFuture ==
    \A z \in ClockChanges, t \in Instants, now \in Nows :
        /\ PlanNextOccurrence(z, t, 1, now) > now
        /\ \A n \in 1..(PeriodsAhead(z, t, 1, now) - 1) : AdvanceOccurrence(z, t, 1, n) <= now

(* It shows the hour of the last one, if its day has that hour, and its    *)
(* day is a later one also where an hour comes twice.                      *)
ASSUME NextKeepsShownHour ==
    \A z \in ClockChanges, t \in Instants, now \in Nows :
        LET next == PlanNextOccurrence(z, t, 1, now)
            wall == WallAt(z, t) + PeriodsAhead(z, t, 1, now) * Day
        IN /\ Shown(z, wall) => WallAt(z, next) = wall
           /\ WallAt(z, next) \div Day > WallAt(z, t) \div Day

(* Without a time zone it is the fixed period that module TaskStore has.   *)
ASSUME WithoutZoneFixedPeriod ==
    \A t \in Instants, now \in Nows, days \in {1, 7} :
        PlanNextOccurrence(UTC, t, days, now) =
            t + days * Day * (1 + (IF now > t THEN (now - t) \div (days * Day) ELSE 0))
=============================================================================
