--------------------------- MODULE MCKeyTransfers ---------------------------
(* Three sessions, so that a device may be two exchanges old, and two bootstrap *)
(* tokens to make them; a transfer and two blobs.  A transfer asks for sessions, *)
(* never for tokens: one per family.                                             *)
EXTENDS KeyTransfers, TLC
CONSTANTS a1, j1, j2, t1, b1, b2
OneAddress    == {a1}
TwoBootstraps == {j1, j2}
OneTransfer   == {t1}
TwoBlobs      == {b1, b2}
TransferSymmetry == Permutations(Bootstraps) \cup Permutations(Blobs)
=============================================================================
