----------------------------- MODULE ForeignDevice -----------------------------
(***************************************************************************)
(* The registration of a foreign device with a BBMD:                       *)
(* `register_foreign_device` and `send_foreign_device_heartbeat` of        *)
(* `BacnetIpTransport` in `src/transport/mod.rs`, and the foreign          *)
(* device table of `BacnetIpDataLink` in `src/datalink/bip.rs`.  This      *)
(* BBMD never answers a registration; another may, with success or not,    *)
(* and the device takes silence for success.  Time is in ticks; a message  *)
(* takes at most MaxDelay, and the application sends a heartbeat at least  *)
(* once in HeartbeatPeriod.                                                *)
(***************************************************************************)
EXTENDS Naturals, Sequences

CONSTANTS
  None,
  Ttl,                  \* the time to live that is registered
  RegistrationTimeout,  \* how long the device waits for an answer
  MaxDelay,             \* how long a message is under way at most
  HeartbeatPeriod       \* how long the application leaves between two heartbeats

\* A registration is renewed at half its time to live, counted from when the device stopped
\* waiting for an answer: what comes on top must fit into the other half.
ForeignDeviceAssumption ==
  /\ {Ttl, RegistrationTimeout, MaxDelay, HeartbeatPeriod} \subseteq Nat /\ Ttl >= 2
  /\ RegistrationTimeout + HeartbeatPeriod + MaxDelay <= Ttl - Ttl \div 2

VARIABLES
  foreign_device,  \* config.foreign_device: the age of the last registration, or None
  waiting,         \* how long register_foreign_device has waited, or None
  since,           \* how long ago the application called the heartbeat
  wire,            \* the ages of the registrations under way
  answers,         \* the results in the device's socket, in the order they came
  fdt,             \* the ages of the device's entries in the BBMD's table (entries of one
                   \* age, which the table keeps apart, leave it together)
  undisturbed      \* whether no registration was lost or refused (history)

vars == <<foreign_device, waiting, since, wire, answers, fdt, undisturbed>>

Init ==
  /\ foreign_device = None /\ waiting = None /\ since = 0 /\ wire = {} /\ answers = <<>>
  /\ fdt = {} /\ undisturbed = TRUE

-----------------------------------------------------------------------------
\* The device. A call lasts while it waits for the answer; the application may register again.
RegisterForeignDevice ==
  /\ waiting = None
  /\ waiting' = 0 /\ wire' = wire \cup {0}
  /\ UNCHANGED <<foreign_device, since, answers, fdt, undisturbed>>

\* A mutant of the next: the registration is renewed when it is over.
DueAtTheEnd == foreign_device >= Ttl
\* The age is counted in 16 bits, which heartbeats this frequent never fill.
Due == foreign_device >= Ttl \div 2

SendForeignDeviceHeartbeat ==
  /\ waiting = None /\ foreign_device # None
  /\ since' = 0
  /\ IF Due THEN waiting' = 0 /\ wire' = wire \cup {0} ELSE UNCHANGED <<waiting, wire>>
  /\ UNCHANGED <<foreign_device, answers, fdt, undisturbed>>

\* Whatever the result answers, this registration or one given up before. Nothing is undone
\* when it is refused.
HearResult ==
  /\ waiting # None /\ answers # <<>>
  /\ answers' = Tail(answers) /\ waiting' = None
  /\ foreign_device' = IF Head(answers) = "success" THEN 0 ELSE foreign_device
  /\ UNCHANGED <<since, wire, fdt, undisturbed>>

\* Outside a registration `receive` takes a result from the socket, and drops it.
PassOver ==
  /\ waiting = None /\ answers # <<>>
  /\ answers' = Tail(answers)
  /\ UNCHANGED <<foreign_device, waiting, since, wire, fdt, undisturbed>>

\* Silence is taken for success.
WaitEnds ==
  /\ waiting # None /\ waiting >= RegistrationTimeout
  /\ waiting' = None /\ foreign_device' = 0
  /\ UNCHANGED <<since, wire, answers, fdt, undisturbed>>

-----------------------------------------------------------------------------
\* process_bvlc_message puts an entry in for every registration, next to those there are.
ProcessRegistration(age) ==
  /\ age \in wire
  /\ wire' = wire \ {age} /\ fdt' = fdt \cup {0}
  /\ UNCHANGED <<foreign_device, waiting, since, answers, undisturbed>>

\* cleanup_fdt
CleanupFdt ==
  /\ fdt' = {age \in fdt : age < Ttl} /\ fdt' # fdt
  /\ UNCHANGED <<foreign_device, waiting, since, wire, answers, undisturbed>>

\* A BBMD of another make answers, and may refuse: its table is full.
OtherBbmdAnswers(age, code) ==
  /\ age \in wire
  /\ wire' = wire \ {age} /\ answers' = Append(answers, code)
  /\ fdt' = IF code = "success" THEN fdt \cup {0} ELSE fdt
  /\ undisturbed' = (undisturbed /\ code = "success")
  /\ UNCHANGED <<foreign_device, waiting, since>>

Lose(age) ==
  /\ age \in wire
  /\ wire' = wire \ {age} /\ undisturbed' = FALSE
  /\ UNCHANGED <<foreign_device, waiting, since, answers, fdt>>

-----------------------------------------------------------------------------
\* Time goes on while nothing is overdue: no message, no heartbeat, no wait, and no result
\* that a waiting device would have read.
Older(ages) == {age + 1 : age \in ages}
Tick ==
  /\ \A age \in wire : age < MaxDelay
  /\ waiting # None => waiting < RegistrationTimeout /\ answers = <<>>
  /\ waiting = None /\ foreign_device # None => since < HeartbeatPeriod
  /\ wire' = Older(wire)
  /\ fdt' = {IF age >= Ttl THEN age ELSE age + 1 : age \in fdt}
  /\ waiting' = IF waiting = None THEN None ELSE waiting + 1
  /\ foreign_device' = IF foreign_device = None \/ foreign_device >= Ttl THEN foreign_device ELSE foreign_device + 1
  /\ since' = IF since >= HeartbeatPeriod THEN since ELSE since + 1
  /\ UNCHANGED <<answers, undisturbed>>

Next ==
  \/ RegisterForeignDevice \/ SendForeignDeviceHeartbeat \/ HearResult \/ PassOver \/ WaitEnds
  \/ CleanupFdt \/ Tick
  \/ \E age \in wire :
       \/ ProcessRegistration(age) \/ Lose(age)
       \/ \E code \in {"success", "refused"} : OtherBbmdAnswers(age, code)

Spec == Init /\ [][Next]_vars

-----------------------------------------------------------------------------
\* A device that believes itself registered, sends its heartbeats and was neither refused
\* nor lost a message is in the table, once its first registration has arrived: the table
\* does not forget it while the next is under way.
StaysRegistered ==
  undisturbed /\ foreign_device # None /\ (fdt # {} \/ wire = {}) =>
    \E age \in fdt : age < Ttl

=============================================================================
