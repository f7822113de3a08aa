------------------------- MODULE ServerTransactions -------------------------
(***************************************************************************)
(* The confirmed requests a device sends (event and COV notifications):    *)
(* src/server/transactions.rs and the Notifier of src/server/bip.rs.       *)
(*                                                                         *)
(* Three kinds of thread meet in one mutex-protected table:                *)
(*   - senders run Notifier::send, which picks an invoke id, registers the *)
(*     request and hands the frame to the socket;                          *)
(*   - the serve loop receives replies and records them (answer);          *)
(*   - the owner of the clock runs Notifier::poll, which takes the answers,*)
(*     resends what is due and reports what became of every request.       *)
(* Each critical section of the code is one action; everything between two *)
(* of them may be interleaved with the other threads.                      *)
(*                                                                         *)
(* A request is identified by a member of Requests, which no code sees: it *)
(* is what the invoke id is supposed to stand for.                         *)
(***************************************************************************)
EXTENDS Integers, FiniteSets

CONSTANTS
  Requests,       \* the confirmed requests the device ever sends
  Peers,          \* the socket addresses they are sent to
  To,             \* To[r] is where request r goes
  IdCount,        \* how many invoke ids there are (256 in the code)
  MaxSenders,     \* how many threads may be inside Notifier::send at once
  Timeouts,       \* the APDU_Timeout values the Device object may hold
  RetryLimits,    \* the Number_Of_APDU_Retries values it may hold
  SendCanFail,    \* whether the first send_to of a request may fail
  ResendCanFail   \* whether a send_to of poll may fail

ASSUME RequestsAssumption == IsFiniteSet(Requests)
ASSUME ToAssumption == To \in [Requests -> Peers]
ASSUME IdCountAssumption == IdCount \in Nat \ {0}
ASSUME MaxSendersAssumption == MaxSenders \in Nat
ASSUME PolicyAssumption ==
  /\ Timeouts \subseteq Nat /\ Timeouts # {}
  /\ RetryLimits \subseteq Nat /\ RetryLimits # {}
ASSUME FailureAssumption == SendCanFail \in BOOLEAN /\ ResendCanFail \in BOOLEAN

VARIABLES
  drawn,      \* ids drawn so far, plus 1; the AtomicU8 cursor is its remainder
  call,       \* call[r]: where Notifier::send is with request r
  pending,    \* the requests of Table.pending
  entry,      \* entry[r]: place in the Vec, time since sent_at, and retries
  answered,   \* Table.answered
  poll,       \* the local state of Notifier::poll
  policy,     \* the two properties of the Device object
  wire,       \* requests of which a frame left the socket; any may be answered
  told,       \* everything poll has returned so far
  clash,      \* history: a pair still held was registered again
  lost        \* history: the reports that went with a poll that failed

vars == <<drawn, call, pending, entry, answered, poll, policy, wire, told, clash, lost>>

-----------------------------------------------------------------------------
Ends == {"Acknowledged", "Refused", "GaveUp"}
Kinds == Ends \union {"Retried"}

\* One Transaction as poll reports it; attempt is 0 except for a retry.
Reports == [req : Requests, kind : Kinds, attempt : Nat]
Ending(r, kind) == [req |-> r, kind |-> kind, attempt |-> 0]
Retried(r, n) == [req |-> r, kind |-> "Retried", attempt |-> n]

CallStates == {"new", "next", "probe", "register", "sending", "withdraw",
               "sent", "failed"}
Active == {r \in Requests :
             call[r].pc \in {"next", "probe", "register", "sending", "withdraw"}}
Registered == {r \in Requests :
                 call[r].pc \in {"sending", "withdraw", "sent", "failed"}}

Id(r) == call[r].serial % IdCount

\* A look-up that goes by the peer alone.
MatchesPeer(peer, id) == {r \in pending : To[r] = peer}

\* The pending requests a (peer, invoke id) pair finds.
Matches(peer, id) == {r \in pending : To[r] = peer /\ Id(r) = id}


InFlight(peer, id) == Matches(peer, id) # {}

\* Whose pair it is: the table's, or that of a send that may still withdraw it.
Held == pending \union {r \in Requests : call[r].pc \in {"sending", "withdraw"}}
Holders(peer, id) == {r \in Held : To[r] = peer /\ Id(r) = id}

NoEntry == [order |-> 0, age |-> 0, retries |-> 0]

\* Time is kept as an age that no longer grows once every timeout has passed.
Oldest == CHOOSE t \in Timeouts : \A u \in Timeouts : u <= t

TypeOK ==
  /\ drawn \in Nat
  /\ call \in [Requests -> [pc : CallStates, first : Nat, serial : Nat,
                            tries : Nat]]
  /\ pending \subseteq Requests
  /\ entry \in [Requests -> [order : Nat, age : Nat, retries : Nat]]
  /\ answered \subseteq Reports
  /\ poll \in [pc : {"idle", "policy", "due", "resend"}, timeout : Nat,
               retries : Nat, resend : SUBSET Requests, reports : SUBSET Reports]
  /\ policy \in [timeout : Timeouts, retries : RetryLimits]
  /\ wire \subseteq Requests
  /\ told \subseteq Reports
  /\ clash \in BOOLEAN
  /\ lost \subseteq Reports

IdlePoll == [pc |-> "idle", timeout |-> 0, retries |-> 0,
             resend |-> {}, reports |-> {}]

Init ==
  /\ drawn = 1
  /\ call = [r \in Requests |-> [pc |-> "new", first |-> 0, serial |-> 0,
                                 tries |-> 0]]
  /\ pending = {}
  /\ entry = [r \in Requests |-> NoEntry]
  /\ answered = {}
  /\ poll = IdlePoll
  /\ policy \in [timeout : Timeouts, retries : RetryLimits]
  /\ wire = {}
  /\ told = {}
  /\ clash = FALSE
  /\ lost = {}

\* A removal that leaves the table as it was.
DropNone(gone) == UNCHANGED <<pending, entry>>

\* What is left of the table without the entries of `gone`.
Drop(gone) ==
  /\ pending' = pending \ gone
  /\ entry' = [r \in Requests |-> IF r \in gone THEN NoEntry ELSE entry[r]]

-----------------------------------------------------------------------------
(* Notifier::send *)

StartSend(r) ==
  /\ call[r].pc = "new"
  /\ Cardinality(Active) < MaxSenders
  /\ call' = [call EXCEPT ![r].pc = "next"]
  /\ UNCHANGED <<drawn, pending, entry, answered, poll, policy, wire, told, clash, lost>>

\* A cursor that is read and not moved on.
NotAdvanced(n) == n

\* fetch_add on the cursor: atomic, and Id makes it wrap.
Advanced(n) == n + 1

TakeId(r) ==
  /\ call[r].pc = "next"
  /\ drawn' = Advanced(drawn)
  /\ call' = [call EXCEPT ![r].pc = "probe", ![r].serial = drawn,
                          ![r].first = IF call[r].tries = 0 THEN drawn ELSE @,
                          ![r].tries = @ + 1]
  /\ UNCHANGED <<pending, entry, answered, poll, policy, wire, told, clash, lost>>

FallBack(c) ==
  [pc |-> "register", first |-> c.first, serial |-> c.first, tries |-> c.tries]

\* Each id drawn is looked up under the lock.  With all of them in flight the
\* first one is used anyway.
Probe(r) ==
  /\ call[r].pc = "probe"
  /\ \/ /\ ~InFlight(To[r], Id(r))
        /\ call' = [call EXCEPT ![r].pc = "register"]
     \/ /\ InFlight(To[r], Id(r))
        /\ call[r].tries < IdCount
        /\ call' = [call EXCEPT ![r].pc = "next"]
     \/ /\ InFlight(To[r], Id(r))
        /\ call[r].tries >= IdCount
        /\ call' = [call EXCEPT ![r] = FallBack(@)]
  /\ UNCHANGED <<drawn, pending, entry, answered, poll, policy, wire, told, clash, lost>>

\* The lock was let go after the probe and is taken again to push the entry.
Register(r) ==
  /\ call[r].pc = "register"
  /\ call' = [call EXCEPT ![r].pc = "sending"]
  /\ pending' = pending \union {r}
  /\ entry' = [entry EXCEPT ![r] = [NoEntry EXCEPT !.order = Cardinality(Registered) + 1]]
  /\ clash' = (clash \/ Holders(To[r], Id(r)) # {})
  /\ UNCHANGED <<drawn, answered, poll, policy, wire, told, lost>>

SendSucceeds(r) ==
  /\ call[r].pc = "sending"
  /\ call' = [call EXCEPT ![r].pc = "sent"]
  /\ wire' = wire \union {r}
  /\ UNCHANGED <<drawn, pending, entry, answered, poll, policy, told, clash, lost>>

SendFails(r) ==
  /\ SendCanFail
  /\ call[r].pc = "sending"
  /\ call' = [call EXCEPT ![r].pc = "withdraw"]
  /\ UNCHANGED <<drawn, pending, entry, answered, poll, policy, wire, told, clash, lost>>

\* Every entry with the pair goes, not only the one this call registered.
Withdraw(r) ==
  /\ call[r].pc = "withdraw"
  /\ call' = [call EXCEPT ![r].pc = "failed"]
  /\ Drop(Matches(To[r], Id(r)))
  /\ UNCHANGED <<drawn, answered, poll, policy, wire, told, clash, lost>>

Send(r) ==
  \/ StartSend(r) \/ TakeId(r) \/ Probe(r) \/ Register(r)
  \/ SendSucceeds(r) \/ SendFails(r) \/ Withdraw(r)

-----------------------------------------------------------------------------
(* The serve loop *)

\* A reply to request q: the network delivers it late, again or never.  It ends
\* the first pending request of that peer and id, and is dropped when there is
\* none.
Answer(q, kind) ==
  /\ q \in wire
  /\ LET found == Matches(To[q], Id(q)) IN
       /\ found # {}
       /\ \E r \in found :
            /\ \A s \in found : entry[r].order <= entry[s].order
            /\ Drop({r})
            /\ answered' = answered \union {Ending(r, kind)}
  /\ UNCHANGED <<drawn, call, poll, policy, wire, told, clash, lost>>

ServeReply == \E q \in Requests, kind \in {"Acknowledged", "Refused"} : Answer(q, kind)

-----------------------------------------------------------------------------
(* Notifier::poll *)

\* The policy is read from the database before the table is locked, one
\* property at a time.
PollTimeout ==
  /\ poll.pc = "idle"
  /\ poll' = [poll EXCEPT !.pc = "policy", !.timeout = policy.timeout]
  /\ UNCHANGED <<drawn, call, pending, entry, answered, policy, wire, told, clash, lost>>

PollRetries ==
  /\ poll.pc = "policy"
  /\ poll' = [poll EXCEPT !.pc = "due", !.retries = policy.retries]
  /\ UNCHANGED <<drawn, call, pending, entry, answered, policy, wire, told, clash, lost>>

\* Giving up one retry after the limit.
SpentLate(r) == entry[r].retries > poll.retries

Spent(r) == entry[r].retries >= poll.retries

\* What has waited APDU_Timeout, and what becomes of it.
Late == {r \in pending : entry[r].age >= poll.timeout}
GivenUp == {r \in Late : Spent(r)}

Again == Late \ GivenUp

Retry(e) == [order |-> e.order, age |-> 0, retries |-> e.retries + 1]

\* A report that leaves out what was answered.
DueReportsLose ==
  {Ending(r, "GaveUp") : r \in GivenUp}
    \union {Retried(r, entry[r].retries + 1) : r \in Again}

DueReports ==
  answered \union {Ending(r, "GaveUp") : r \in GivenUp}
           \union {Retried(r, entry[r].retries + 1) : r \in Again}

\* Transactions::due: one critical section that takes the answers, gives up on
\* what has had its retries and puts the rest of what is late out again.
Due ==
  /\ poll.pc = "due"
  /\ pending' = pending \ GivenUp
  /\ entry' = [r \in Requests |->
                 IF r \in GivenUp THEN NoEntry
                 ELSE IF r \in Again THEN Retry(entry[r])
                 ELSE entry[r]]
  /\ poll' = [poll EXCEPT !.pc = "resend", !.resend = Again, !.reports = DueReports]
  /\ answered' = {}
  /\ UNCHANGED <<drawn, call, policy, wire, told, clash, lost>>

\* The frames go out without the lock, one send_to each.
Resend(r) ==
  /\ poll.pc = "resend"
  /\ r \in poll.resend
  /\ wire' = wire \union {r}
  /\ poll' = [poll EXCEPT !.resend = @ \ {r}]
  /\ UNCHANGED <<drawn, call, pending, entry, answered, policy, told, clash, lost>>

\* The first send_to that fails ends the poll with its error (the `?`), and
\* what it had to report goes with it.
ResendFails ==
  /\ ResendCanFail
  /\ poll.pc = "resend"
  /\ poll.resend # {}
  /\ lost' = lost \union poll.reports
  /\ poll' = IdlePoll
  /\ UNCHANGED <<drawn, call, pending, entry, answered, policy, wire, told, clash>>

PollReturns ==
  /\ poll.pc = "resend"
  /\ poll.resend = {}
  /\ told' = told \union poll.reports
  /\ poll' = IdlePoll
  /\ UNCHANGED <<drawn, call, pending, entry, answered, policy, wire, clash, lost>>

Poll ==
  \/ PollTimeout \/ PollRetries \/ Due
  \/ \E r \in Requests : Resend(r)
  \/ ResendFails \/ PollReturns

-----------------------------------------------------------------------------
(* The environment *)

Tick ==
  /\ \E r \in pending : entry[r].age < Oldest
  /\ entry' = [r \in Requests |->
                 IF r \in pending /\ entry[r].age < Oldest
                 THEN [entry[r] EXCEPT !.age = @ + 1] ELSE entry[r]]
  /\ UNCHANGED <<drawn, call, pending, answered, poll, policy, wire, told, clash, lost>>

\* A client writes APDU_Timeout or Number_Of_APDU_Retries.
WritePolicy ==
  /\ policy' \in [timeout : Timeouts, retries : RetryLimits]
  /\ \/ policy'.timeout = policy.timeout
     \/ policy'.retries = policy.retries
  /\ policy' # policy
  /\ UNCHANGED <<drawn, call, pending, entry, answered, poll, wire, told, clash, lost>>

Next ==
  \/ \E r \in Requests : Send(r)
  \/ ServeReply
  \/ Poll
  \/ Tick
  \/ WritePolicy

Spec == Init /\ [][Next]_vars

\* Time passes, the owner of the clock keeps polling ("Call it often"), and a
\* thread inside send is scheduled.  Nothing obliges a peer to answer.
Fairness ==
  /\ WF_vars(Tick)
  /\ WF_vars(Poll)
  /\ \A r \in Requests : WF_vars(call[r].pc # "new" /\ Send(r))

FairSpec == Spec /\ Fairness

-----------------------------------------------------------------------------
(* Properties *)

EndIn(r, reports) == \E k \in Ends : Ending(r, k) \in reports
Ended(r) == EndIn(r, told)
Waiting(r) == r \in pending \/ EndIn(r, answered) \/ EndIn(r, poll.reports)

\* poll reports "what has become of every confirmed request since the last
\* poll": a request whose frame is out is still in the table, on its way to the
\* caller of poll, or was reported; or its sender was told that it failed.  It is
\* forgotten only with a poll that failed after it had taken the outcome from the
\* table, or where two requests held one peer and invoke id at once.
NothingElseForgotten ==
  \/ clash
  \/ \A r \in wire : Waiting(r) \/ Ended(r) \/ call[r].pc = "failed" \/ EndIn(r, lost)

\* An end is told once and is the end: nothing of the request is left in the
\* table, among the answers, in the hands of poll or among its resends, so it is
\* neither sent nor reported again, whatever replies still come in.
EndedForGood ==
  \A r \in Requests : Ended(r) =>
    /\ \A j, k \in Ends : {Ending(r, j), Ending(r, k)} \subseteq told => j = k
    /\ r \notin pending \union poll.resend
    /\ ~EndIn(r, answered \union poll.reports)

\* A confirmed request that went out has one end: it is told, and told once.
EachEndsOnce == EndedForGood /\ NothingElseForgotten

\* Everything a poll that is over came to report.
Reported == told \union lost

\* The attempts that polls came to report count from 1 without a gap and never
\* exceed every setting of Number_Of_APDU_Retries, and giving up comes after as
\* many of them as some setting asked for.
RetriesBeforeGivingUp ==
  \A x \in Reported :
    /\ x.kind = "Retried" =>
         /\ \A n \in 1..x.attempt : Retried(x.req, n) \in Reported
         /\ \E limit \in RetryLimits : x.attempt \in 1..limit
    /\ x.kind = "GaveUp" =>
         \E limit \in RetryLimits : \A n \in 1..limit : Retried(x.req, n) \in Reported

\* A reply can end another request than the one it answers, since only peer and
\* id are compared; but ids are handed out in rotation, so then a whole cycle of
\* ids was drawn between the two.
CrossedOnlyAfterCycle ==
  [][\A q \in wire, r \in pending, k \in {"Acknowledged", "Refused"} :
       Answer(q, k) /\ r \notin pending' /\ r # q =>
         \/ call[r].serial >= call[q].serial + IdCount
         \/ call[q].serial >= call[r].serial + IdCount]_vars

\* Every request that went out has its end told sooner or later, unless the poll
\* that was to tell it failed.
EventuallyEnded ==
  \A r \in Requests : call[r].pc = "sent" ~> Ended(r) \/ EndIn(r, lost)

\* The table and its threads give every request the life RequestFates allows.
FateOf(r) ==
  IF Ended(r)
  THEN CHOOSE k \in Ends : Ending(r, k) \in told
  ELSE IF Waiting(r) THEN "waiting"
  ELSE IF EndIn(r, lost) THEN "lost"
  ELSE IF call[r].pc = "failed" THEN "failed"
  ELSE IF call[r].pc = "sent" THEN "forgotten"
  ELSE "unsent"

Fate == INSTANCE RequestFates
          WITH Requests <- Requests, fate <- [r \in Requests |-> FateOf(r)]

ImplementsFates == Fate!FatesSpec

-----------------------------------------------------------------------------
(* The inductive invariant behind EachEndsOnce *)

\* A request is in at most one of the four places an outstanding request or its
\* end can be: the table, the answers, the hands of poll, what was told.
OnePlace(r) ==
  /\ r \in pending => ~EndIn(r, answered)
  /\ r \in pending \/ EndIn(r, answered) => ~EndIn(r, poll.reports)
  /\ Waiting(r) => ~Ended(r)
  /\ r \in poll.resend => ~EndIn(r, poll.reports) /\ ~Ended(r)

\* And only once it was registered.
PlacesRegistered(r) ==
  /\ Waiting(r) \/ Ended(r) \/ r \in wire \union poll.resend => r \in Registered
  /\ r \in pending => call[r].pc # "failed"

\* No request has two ends in one place.
OneEnd(reports) ==
  \A r \in Requests : \A j, k \in Ends :
    Ending(r, j) \in reports /\ Ending(r, k) \in reports => j = k

PlacesInv ==
  /\ \A r \in Requests : OnePlace(r) /\ PlacesRegistered(r)
  /\ OneEnd(answered) /\ OneEnd(poll.reports) /\ OneEnd(told)
  /\ poll.pc # "resend" => poll.reports = {} /\ poll.resend = {}

PairsApart ==
  \A r, s \in Held : r # s => To[r] # To[s] \/ Id(r) # Id(s)

Accounted ==
  \A r \in Requests :
    call[r].pc \in {"sending", "withdraw", "sent"} => Waiting(r) \/ Ended(r) \/ EndIn(r, lost)

AccountInv == clash \/ (PairsApart /\ Accounted)

\* An outcome that went with a poll is nowhere else.
LostInv ==
  \A r \in Requests : EndIn(r, lost) => r \in Registered /\ ~Waiting(r) /\ ~Ended(r)

-----------------------------------------------------------------------------
(* The inductive invariant behind RetriesBeforeGivingUp *)

\* An attempt is one more than those before it, which earlier polls reported,
\* and below a limit that was read before it was made.
AttemptsInOrder ==
  \A x \in Reported \union poll.reports : x.kind = "Retried" =>
    /\ \A n \in 1..(x.attempt - 1) : Retried(x.req, n) \in Reported
    /\ \E limit \in RetryLimits : x.attempt \in 1..limit

\* What is given up on had its retries in polls before.
GivenUpAfterRetries ==
  \A x \in Reported \union poll.reports : x.kind = "GaveUp" =>
    \E limit \in RetryLimits : \A n \in 1..limit : Retried(x.req, n) \in Reported

\* The counter of an entry is that of the attempts reported of it.
RetriesCounted ==
  \A r \in pending : \A n \in 1..entry[r].retries :
    Retried(r, n) \in Reported \union poll.reports

RetriesInv ==
  /\ AttemptsInOrder /\ GivenUpAfterRetries /\ RetriesCounted
  /\ \A x \in answered : x.kind \in {"Acknowledged", "Refused"}
  /\ poll.pc = "due" => poll.retries \in RetryLimits

-----------------------------------------------------------------------------
(* The inductive invariant behind CrossedOnlyAfterCycle *)

\* A call keeps the first number it drew, to fall back on, and the last.
Drew(r) == {call[r].first, call[r].serial}
HasDrawn == {r \in Requests : call[r].tries > 0}

\* The cursor gives no number twice, so no two calls keep the same one.
SerialsInv ==
  /\ \A r \in HasDrawn : \A n \in Drew(r) : n < drawn
  /\ \A r, s \in HasDrawn : r # s => Drew(r) \cap Drew(s) = {}
  /\ \A r \in Requests : call[r].pc \notin {"new", "next"} => r \in HasDrawn

=============================================================================
