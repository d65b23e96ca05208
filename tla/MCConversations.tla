--------------------------- MODULE MCConversations ---------------------------
(* Two users and two transactions at once: what overlaps does so in pairs, and *)
(* a third transaction may come before or after.                               *)
EXTENDS Conversations, TLC
CONSTANTS p1, p2
TwoUsers        == {1, 2}
OneMover        == {1}
Ephemeral       == {"ephemeral"}
TwoTransactions == {p1, p2}
TransactionSymmetry == Permutations(Transactions)
=============================================================================
