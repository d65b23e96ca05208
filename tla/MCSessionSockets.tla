-------------------------- MODULE MCSessionSockets --------------------------
(* A session and the one that replaces it; one socket, since the sockets of an *)
(* account share nothing but its sessions; two addresses, and a code for each.  *)
(* No family is rotated here: sockets ask for sessions, never for tokens.       *)
EXTENDS SessionSockets
CONSTANTS c1, a1, a2, j1
OneSocket     == {c1}
TwoAddresses  == {a1, a2}
OneBootstrap  == {j1}
=============================================================================
