---------------------------- MODULE MCBootSlots ------------------------------
(* Three releases: the installed one, a newer one that never comes up on this *)
(* machine, and a third, newer still, whose floor is above the first.  The    *)
(* third is good, or its kernel panics (MCBothBroken).                        *)
EXTENDS BootSlots

MCVersion == {1, 2, 3}
MCBroken == {2}
MCBothBroken == {2, 3}
MCFloor == [v \in MCVersion |-> IF v = 3 THEN 2 ELSE 0]

=============================================================================
