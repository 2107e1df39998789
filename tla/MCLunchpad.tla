----------------------------- MODULE MCLunchpad -----------------------------
EXTENDS Lunchpad, TLC

CONSTANTS a, b

Transfer(i, w, n) == [id |-> i, from |-> w, units |-> n, joint |-> FALSE]

NoPayments == {}

OnePayment == {Transfer(1, a, 1)}

\* Two equal transfers of one wallet, the second paid from another wallet too:
\* nobody is told as its sender.
TwoPayments == {Transfer(1, a, 1), [Transfer(2, a, 1) EXCEPT !.joint = TRUE]}

HandlerSymmetry == Permutations(Handlers)

\* Without transfers wallets are alike, too.
BuyerSymmetry == Permutations(Handlers) \cup Permutations(Wallets)
=============================================================================
