--------------------------- MODULE DeliveryPromise ---------------------------
(***************************************************************************)
(* What the delivery protocol promises the sender of an ephemeral message, *)
(* with no store, socket or process in sight.  A message is recorded at    *)
(* most once, gets at most one outcome, and is announced accordingly.  A   *)
(* message announced failed before it was recorded is never recorded.      *)
(***************************************************************************)
CONSTANT Messages

VARIABLES
  fate,   \* none, pending, or the outcome
  told    \* the announcements made to the sender so far

vars == <<fate, told>>

Outcomes == {"delivered", "failed", "expired"}
Announcement(outcome) == IF outcome = "delivered" THEN "delivered" ELSE "failed"

Init ==
  /\ fate = [m \in Messages |-> "none"]
  /\ told = [m \in Messages |-> {}]

Record(m) ==
  /\ fate[m] = "none" /\ told[m] = {}
  /\ fate' = [fate EXCEPT ![m] = "pending"]
  /\ UNCHANGED told

(* An outcome may be announced at once, later, or never: notices get lost. *)
Settle(m, outcome) ==
  /\ fate[m] = "pending"
  /\ fate' = [fate EXCEPT ![m] = outcome]
  /\ \/ UNCHANGED told
     \/ told' = [told EXCEPT ![m] = @ \cup {Announcement(outcome)}]

Tell(m) ==
  /\ \/ fate[m] \in Outcomes
        /\ told' = [told EXCEPT ![m] = @ \cup {Announcement(fate[m])}]
     \/ fate[m] = "none"
        /\ told' = [told EXCEPT ![m] = @ \cup {"failed"}]
  /\ UNCHANGED fate

Next == \E m \in Messages :
  Record(m) \/ Tell(m) \/ \E outcome \in Outcomes : Settle(m, outcome)

Spec == Init /\ [][Next]_vars
=============================================================================
