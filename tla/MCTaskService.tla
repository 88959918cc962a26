---------------------------- MODULE MCTaskService ----------------------------
(* Values for the constants of TaskService that a configuration file       *)
(* cannot write down, and the symmetry of the ticks.                       *)
EXTENDS TaskService, MCRecurrence, TLC

CONSTANTS r1, r2, g1

AllDueAtStart == [r \in Row |-> 0]
NoGroups == [r \in Row |-> NULL]

(* The histories are written and never read by the actions: a run whose    *)
(* properties do not mention them need not tell states apart by them.      *)
WithoutHistory == <<storeVars, tickVars, put>>

TickSymmetry == Permutations(Tick)
=============================================================================
