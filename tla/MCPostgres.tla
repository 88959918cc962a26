----------------------------- MODULE MCPostgres -----------------------------
(* Values for the constants of PostgresService.                            *)
EXTENDS PostgresService, TLC

CONSTANTS r1, r2, g1

SecondLater == [r \in Row |-> IF r = r2 THEN 1 ELSE 0]
OneGroup == [r \in Row |-> g1]

(* Without the histories, which no action reads.                           *)
WithoutHistory == <<storeVars, tickVars, put, claim>>

TickSymmetry == Permutations(Tick)
=============================================================================
