----------------------------- MODULE MCDelivery -----------------------------
(* Instances of EphemeralDelivery.  No handler reads the state of another    *)
(* message, so one message meets every interleaving.  Two sockets of the     *)
(* sender give a reconnection; two of the recipient, two tabs.  The run with *)
(* a temporal property declares no symmetry.                                 *)
EXTENDS EphemeralDelivery, TLC
CONSTANTS m1, s1, s2, r1, r2
OneMessage     == {m1}
OneSocket      == {s1}
Reconnection   == {s1, s2}
OneTab         == {r1}
TwoTabs        == {r1, r2}
SenderSymmetry == Permutations(SenderConns)
=============================================================================
