------------------------------ MODULE WallClock ------------------------------
(***************************************************************************)
(* A daily task in a time zone whose clocks change: the user sets it for   *)
(* an hour of the day, and every delivery, however late, moves it to the   *)
(* next occurrence (Recurrence).                                           *)
(***************************************************************************)
EXTENDS Recurrence

CONSTANTS
    Zones,       \* time zones, each with one change of its clocks
    LastHour     \* bound: the clock stops here

VARIABLES
    zone,            \* tzId of the task
    hour,            \* history: the hour of the day the user asked for
    next_send_at,
    now

vars == <<zone, hour, next_send_at, now>>

TypeOK ==
    /\ zone \in Zones
    /\ hour \in 0..(Day - 1)
    /\ next_send_at \in Int
    /\ now \in 0..LastHour

Init ==
    /\ zone \in Zones
    /\ next_send_at \in {t \in 0..(Day - 1) : WallAt(zone, t) = t + zone.before}
    /\ hour = TimeOfDay(zone, next_send_at)
    /\ now = 0

Delivered ==
    /\ next_send_at <= now
    /\ next_send_at' = PlanNextOccurrence(zone, next_send_at, 1, now)
    /\ UNCHANGED <<zone, hour, now>>

Advance ==
    /\ now < LastHour
    /\ now' = now + 1
    /\ UNCHANGED <<zone, hour, next_send_at>>

Next == Delivered \/ Advance

Spec == Init /\ [][Next]_vars

-----------------------------------------------------------------------------
(* A task is moved by a change of the clocks to a later hour only: when    *)
(* its hour is left out, it comes as much later as the clocks have gone    *)
(* forward.  ("落到切换之后的等价时刻"; "时间只会往前走")                  *)
GapGoesForward ==
    TimeOfDay(zone, next_send_at) >= hour

(* The hour the user has set is kept, except on a day that leaves it out.  *)
(* It does not hold: README, divergences.                                  *)
HourKept ==
    LET wall == WallAt(zone, next_send_at)
    IN Shown(zone, (wall - (wall % Day)) + hour) => wall % Day = hour
=============================================================================
