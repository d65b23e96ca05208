------------------------------- MODULE MCRoom -------------------------------
(* Pages of one message, so that the three messages of the configurations are *)
(* three pages: a first load, a head, and a page between the two.             *)
EXTENDS Room
=============================================================================
