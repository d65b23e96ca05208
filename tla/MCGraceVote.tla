----------------------------- MODULE MCGraceVote -----------------------------
(* A quota of one grace message and a second UUID, which is refused or sent  *)
(* outside the period; a vote of two ticks of a clock of four; content that  *)
(* outlives the vote by one tick.  No symmetry: the run has a temporal       *)
(* property.                                                                 *)
EXTENDS GraceVote
CONSTANTS m1, m2
TwoMessages == {m1, m2}
=============================================================================
