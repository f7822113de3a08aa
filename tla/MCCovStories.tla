---------------------------- MODULE MCCovStories ----------------------------
(***************************************************************************)
(* Two stories of CovReporting for TLC, each of which leaves one half of   *)
(* the environment at rest.  In "values" one subscriber cancels and        *)
(* subscribes to an object that is written, removed and added, and the     *)
(* clock stands still.  In "places" two subscribers compete for one place  *)
(* while the clock lets them lapse, and the object is at rest.             *)
(***************************************************************************)
EXTENDS CovReporting, TLC

CONSTANTS o1, kBoth, kOther, t1, t2

VARIABLE story

OneObject == [k \in Keys |-> o1]
Both == [k \in Keys |-> IF k = kBoth THEN Properties ELSE {"flags"}]
OneInto == 0..2
NoLimits == [total |-> None, per_object |-> None]
TotalOne == [total |-> 1, per_object |-> None]
TwoLimits == {NoLimits, TotalOne}

\* Thread t1 is asked for one subscription, thread t2 for the other.
Asked(t, k) == k = IF t = t1 THEN kBoth ELSE kOther

StoriesInit ==
  /\ Init
  /\ \/ story = "values" /\ limits = NoLimits /\ at = kBoth
     \/ story = "places" /\ limits = TotalOne /\ at = kBoth
          /\ object = [o \in Objects |-> [value |-> 0, flags |-> 0, increment |-> 2]]

StoriesNext ==
  /\ Next
  /\ UNCHANGED <<story, limits>>
  /\ \A t \in Threads : request'[t].pc # "idle" =>
       /\ Asked(t, request'[t].key)
       /\ request'[t].sub.increment = None
       /\ story = "values" => t = t1
  /\ story = "values" => UNCHANGED now /\ \A t \in Threads : request'[t].sub.expires = None
  /\ story = "places" => UNCHANGED object

StoriesSpec == StoriesInit /\ [][StoriesNext]_<<vars, story>> /\ WF_vars(Tick)

=============================================================================
