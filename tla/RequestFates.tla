---------------------------- MODULE RequestFates ----------------------------
(***************************************************************************)
(* What a device owes whoever asked it to send a confirmed request: the    *)
(* request is unsent, then waiting, and then it has exactly one fate: the  *)
(* send itself failed, one of the three outcomes that end a transaction    *)
(* was reported, or the report that held it failed.  Nothing else is       *)
(* forgotten and nothing is told twice.                                    *)
(***************************************************************************)
EXTENDS Naturals

CONSTANT Requests

VARIABLE fate

Outcomes == {"Acknowledged", "Refused", "GaveUp"}
Fates == {"unsent", "waiting", "failed", "lost"} \union Outcomes

FatesInit == fate = [r \in Requests |-> "unsent"]

\* A request is handed over and from now on somebody owes its outcome.
Issue(r) ==
  /\ fate[r] = "unsent"
  /\ fate' = [fate EXCEPT ![r] = "waiting"]

\* The sender is told at once that the request never went out.
Fail(r) ==
  /\ fate[r] = "waiting"
  /\ fate' = [fate EXCEPT ![r] = "failed"]

\* One report settles any number of waiting requests and touches no other.
Settle(S) ==
  /\ S # {}
  /\ \A r \in S : fate[r] = "waiting"
  /\ \A r \in S : fate'[r] \in Outcomes
  /\ \A r \in Requests \ S : fate'[r] = fate[r]
  /\ fate' \in [Requests -> Fates]

\* The report itself fails: whoever asked for it is told of an error, and never
\* of the outcomes that were in it.
Lose(S) ==
  /\ S # {}
  /\ \A r \in S : fate[r] = "waiting"
  /\ fate' = [r \in Requests |-> IF r \in S THEN "lost" ELSE fate[r]]

FatesNext ==
  \/ \E r \in Requests : Issue(r) \/ Fail(r)
  \/ \E S \in SUBSET Requests : Settle(S) \/ Lose(S)

FatesSpec == FatesInit /\ [][FatesNext]_fate

=============================================================================
