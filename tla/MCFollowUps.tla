---------------------------- MODULE MCFollowUps -----------------------------
(* A task, two follow-ups of it, and a follow-up of the first of them.     *)
EXTENDS FollowUps, TLC

CONSTANTS a, b, c, d

Family == a :> NULL @@ b :> a @@ c :> a @@ d :> b
ParentOf == [u \in Task \ Root |-> Family[u]]
Links == a :> 0 @@ b :> 1 @@ c :> 1 @@ d :> 2
DepthOf == [u \in Task |-> Links[u]]

SlotSymmetry == Permutations(Slot) \cup Permutations(Call)
=============================================================================
