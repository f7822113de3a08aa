----------------------- MODULE MCClientTransactions -----------------------
(* Instances of ClientTransactions for TLC: three calls, one or two peers *)
(* and one or two invoke ids.                                             *)
EXTENDS ClientTransactions

CONSTANTS c1, c2, c3, p1, p2

OnePeer == [x \in Calls |-> p1]
TwoPeers == [x \in Calls |-> IF x = c2 THEN p2 ELSE p1]
OneService == [x \in Calls |-> "read"]
TwoServices == [x \in Calls |-> IF x = c3 THEN "write" ELSE "read"]
=============================================================================
