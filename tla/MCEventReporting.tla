-------------------------- MODULE MCEventReporting --------------------------
(* Instances of EventReporting for TLC. *)
EXTENDS EventReporting

\* One or two ticks to leave normal, none or one to return.
TwoDelays == {[away |-> 1, back |-> 0], [away |-> 2, back |-> 1]}

\* An analog object with both limits, whose high one a client may write away; a
\* binary one; and a multi-state one with two alarm values.
EachKind ==
  {[kind |-> "analog", high |-> {2}, low |-> {1}, deadband |-> 1],
   [kind |-> "analog", high |-> {}, low |-> {1}, deadband |-> 1],
   [kind |-> "binary", alarm |-> 3],
   [kind |-> "multistate", alarms |-> {0, 3}]}

All == {Buckets}
AllOrNone == {Buckets, {}}

=============================================================================
