------------------------ MODULE MCServerTransactions ------------------------
(***************************************************************************)
(* Instances of ServerTransactions for TLC.                                *)
(***************************************************************************)
EXTENDS ServerTransactions, TLC

CONSTANTS r1, r2, r3, p1, p2

ToOnePeer == [r \in Requests |-> p1]
RequestSymmetry == Permutations(Requests)
ToTwoPeers == [r \in Requests |-> IF r = r1 THEN p2 ELSE p1]

=============================================================================
