---------------------------- MODULE MCWebSession ----------------------------
(* Two sessions, so that the page signs in again after it lost one, or        *)
(* another device takes its place; two refresh tokens each, so that one is    *)
(* spent; two requests of the page in flight.                                 *)
EXTENDS WebSession
CONSTANTS a1, j1
OneAddress == {a1}
OneBootstrap == {j1}
=============================================================================
