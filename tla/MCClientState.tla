--------------------------- MODULE MCClientState ---------------------------
EXTENDS ClientState, TLC

Apart == [k \in Key |-> k]
CaseOnly == [k \in Key |-> CHOOSE l \in Key : TRUE]

WriteSymmetry == Permutations(Write)
=============================================================================
