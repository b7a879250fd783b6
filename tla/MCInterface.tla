----------------------------- MODULE MCInterface -----------------------------
(* Instances of MoteusInterface with two servos, both in the replies map. *)
EXTENDS ControlProgram, TLC
CONSTANTS a, b
Both == {a, b}
Swaps == Permutations(Both)
AllReplies == Replies
AllUnset == [k \in Both |-> Unset]
=============================================================================
