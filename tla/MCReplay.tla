------------------------------ MODULE MCReplay ------------------------------
(* A page that shows two copied messages at most.  One replay of two, of which *)
(* the first is a grace message, and one of a third message that overlaps it   *)
(* or follows it; a second socket on each side.                                *)
EXTENDS Replay, TLC
CONSTANTS r1, r2, c1, c2, d1, d2
TwoReplays   == {r1, r2}
TwoSenders   == {c1, c2}
TwoReceivers == {d1, d2}
ThreeMessages == 1..3
FirstIsGrace  == {1}
SomeCopies    == (r1 :> {<<1, 2>>} @@ r2 :> {<<3>>})
ReplaySymmetry == Permutations(Senders) \cup Permutations(Receivers)
=============================================================================
