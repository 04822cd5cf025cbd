--------------------------- MODULE MCBroadcaster ---------------------------
(* The instance of Broadcaster that TLC checks.                            *)
EXTENDS Broadcaster

\* A cheap sell and a dear buy: open, close, high and low all differ.
MCTradeKinds == {[sqrt |-> 1, eth |-> 1, isBuy |-> TRUE], [sqrt |-> 2, eth |-> 1, isBuy |-> FALSE]}
=============================================================================
