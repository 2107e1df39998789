---------------------------- MODULE MCBatchMint ----------------------------
(* Payments and symmetry for TLC. *)
EXTENDS BatchMint, TLC

Transfer(i, n, o) == [id |-> i, units |-> n, owner |-> o]

\* What is required, from the owner, and a little more from somebody else.
PaymentAndMore == {Transfer(1, Required, TRUE), Transfer(2, 1, FALSE)}

\* Jobs are alike.
AnyJob == Permutations(Jobs)
=============================================================================
