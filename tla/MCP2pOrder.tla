----------------------------- MODULE MCP2pOrder -----------------------------
EXTENDS P2pOrder, TLC

CONSTANTS a, b, s, p1, p2

Transfer(w, q) == [from |-> w, amt |-> q, joint |-> FALSE]
JointTransfer(w, q) == [from |-> w, amt |-> q, joint |-> TRUE]

\* Two buyers who pay the price, and the seller who pays the delist fee.
TradePayments == {Transfer(a, p1), Transfer(b, p1), Transfer(s, "fee")}

\* One buyer who pays the other price, and transfers that are no purchase: dust, and a price
\* paid from two wallets at once.
OddPayments == {Transfer(a, p2), Transfer(a, "dust"), JointTransfer(a, p1)}

AllPayments == TradePayments \cup OddPayments

HandlerSymmetry == Permutations(Handlers)
=============================================================================
