----------------------------- MODULE MCWallClock -----------------------------
(* A task in each of the time zones of MCRecurrence.                       *)
EXTENDS WallClock, MCRecurrence
=============================================================================
