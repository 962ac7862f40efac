-------------------------- MODULE MCRemoteControl -----------------------------
EXTENDS RemoteControl, TLC

CONSTANTS w1, w2, r1, r2, r3
TwoWorkstations == {w1, w2}
TwoRequests == {r1, r2}
ThreeRequests == {r1, r2, r3}
Symmetry2 == Permutations(TwoWorkstations) \cup Permutations(TwoRequests)
Symmetry3 == Permutations(TwoWorkstations) \cup Permutations(ThreeRequests)

=============================================================================
