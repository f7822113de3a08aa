------------------------- MODULE ClientTransactions -------------------------
(***************************************************************************)
(* The confirmed requests of the asynchronous client: the Endpoint task of *)
(* src/client/async_client.rs, for requests and responses of one frame     *)
(* (SegmentedTransfer has the others).                                     *)
(*                                                                         *)
(* Callers put commands into a queue and wait; one task takes commands,    *)
(* packets and deadlines, whichever its select finds ready.  A caller may  *)
(* drop its future at any time.  The network answers a request that went   *)
(* out as late and as often as it likes.                                   *)
(*                                                                         *)
(* Time is counted in ticks: deadlines and quarantines as what is left of  *)
(* them, so that nothing grows.                                            *)
(***************************************************************************)
EXTENDS Integers, FiniteSets, Sequences

CONSTANTS
  Calls,      \* the requests the program makes
  NoCall,     \* no call
  Peers,
  PeerOf,     \* PeerOf[c] is the device call c is for
  ServiceOf,  \* ServiceOf[c] is its service
  Ids,        \* how many invoke ids there are: 256
  Retries,    \* Endpoint.retries
  Timeout,    \* Endpoint.timeout
  Rtos,       \* bound: the timeouts a peer's round trips may lead to
  TimeoutCeiling  \* TIMEOUT_CEILING, the most a wait grows by: 4

NoId == -1

ASSUME CallsAssumption ==
  PeerOf \in [Calls -> Peers] /\ DOMAIN ServiceOf = Calls /\ NoCall \notin Calls
ASSUME NumbersAssumption ==
  /\ Ids \in Nat \ {0} /\ Retries \in Nat /\ Timeout \in Nat \ {0}
  /\ Rtos \subseteq Nat \ {0} /\ TimeoutCeiling \in Nat \ {0}

VARIABLES
  commands,     \* the queue of commands
  asleep,       \* whether the task waits in its select, or is at the loop's top
  running,      \* whether the task runs
  pending,      \* Endpoint.pending: (peer, id) to call, or NoCall
  quarantined,  \* Endpoint.quarantined: (peer, id) to the time left
  cursor,       \* Endpoint.next_invoke_id
  rto,          \* rto[p]: what Endpoint::rto says of peer p
  id,           \* id[c]: the invoke id of call c, or NoId
  retries,      \* retries[c]: PendingTransaction.retries_remaining
  left,         \* left[c]: the time to PendingTransaction.deadline
  resent,       \* resent[c]: PendingTransaction.retransmitted
  fate,         \* what the caller of c has come to
  answer,       \* history: whose answer was given to c, or NoCall
  sends,        \* history: 1 once the request of c went out
  held,         \* history: the time for which the id of c must not be used again
  passed        \* history: passed[c] is how many ids were tried since c got its own

entry == <<id, retries, left, resent>>
history == <<answer, sends, held, passed>>
vars == <<commands, asleep, running, pending, quarantined, cursor, rto, entry, fate, history>>

-----------------------------------------------------------------------------
InvokeIds == 0..(Ids - 1)
Pairs == Peers \X InvokeIds
Lesser(a, b) == IF a < b THEN a ELSE b
Less(n) == IF n = 0 THEN 0 ELSE n - 1

\* attempt_wait: doubling four times, to the ceiling
Growth == <<1, 2, 4, 8, 16>>
AttemptWait(p, sent) == Lesser(rto[p] * Growth[Lesser(sent, 4) + 1], Timeout * TimeoutCeiling)

\* The wait after a retransmission.
Backoff(c) == AttemptWait(PeerOf[c], Retries - retries[c] + 1)

\* Every attempt's wait added up; from the fifth on they are the same.
TransactionBudget(p) ==
  LET Wait(n) == IF n <= Retries THEN AttemptWait(p, n) ELSE 0 IN
  Wait(0) + Wait(1) + Wait(2) + Wait(3)
    + (IF Retries > 3 THEN (Retries - 3) * AttemptWait(p, 4) ELSE 0)

Pair(c) == <<PeerOf[c], id[c]>>
Pending(c) == id[c] # NoId /\ pending[Pair(c)] = c
Queued(c) == \E i \in DOMAIN commands : commands[i] = c

\* The result's receiver is still there.
Waiting(c) == fate[c] = "asked"

TypeOK ==
  /\ commands \in Seq(Calls)
  /\ asleep \in BOOLEAN /\ running \in BOOLEAN
  /\ pending \in [Pairs -> Calls \union {NoCall}]
  /\ quarantined \in [Pairs -> Nat]
  /\ cursor \in InvokeIds
  /\ rto \in [Peers -> Nat \ {0}]
  /\ id \in [Calls -> InvokeIds \union {NoId}]
  /\ retries \in [Calls -> 0..Retries]
  /\ left \in [Calls -> Nat]
  /\ resent \in [Calls -> BOOLEAN]
  /\ fate \in [Calls -> {"new", "asked", "answered", "timeout", "io", "toomany",
                         "toolong", "closed", "dropped"}]
  /\ answer \in [Calls -> Calls \union {NoCall}]
  /\ sends \in [Calls -> 0..1]
  /\ held \in [Calls -> Nat]
  /\ passed \in [Calls -> 0..Ids]

Init ==
  /\ commands = <<>>
  /\ asleep = FALSE /\ running = TRUE
  /\ pending = [k \in Pairs |-> NoCall]
  /\ quarantined = [k \in Pairs |-> 0]
  /\ cursor = 0
  /\ rto = [p \in Peers |-> Timeout]
  /\ id = [c \in Calls |-> NoId]
  /\ retries = [c \in Calls |-> 0]
  /\ left = [c \in Calls |-> 0]
  /\ resent = [c \in Calls |-> FALSE]
  /\ fate = [c \in Calls |-> "new"]
  /\ answer = [c \in Calls |-> NoCall]
  /\ sends = [c \in Calls |-> 0]
  /\ held = [c \in Calls |-> 0]
  /\ passed = [c \in Calls |-> 0]

-----------------------------------------------------------------------------
(* The callers *)

Ask(c) ==
  /\ fate[c] = "new"
  /\ IF running
     THEN commands' = Append(commands, c) /\ fate' = [fate EXCEPT ![c] = "asked"]
     ELSE fate' = [fate EXCEPT ![c] = "closed"] /\ UNCHANGED commands
  /\ UNCHANGED <<asleep, running, pending, quarantined, cursor, rto, entry, history>>

\* The caller drops its future: a timeout of its own, a select, a shutdown.
DropCall(c) ==
  /\ Waiting(c)
  /\ fate' = [fate EXCEPT ![c] = "dropped"]
  /\ UNCHANGED <<commands, asleep, running, pending, quarantined, cursor, rto, entry, history>>

-----------------------------------------------------------------------------
(* The task *)

\* remove_cancelled
Uncancelled == [k \in Pairs |->
  IF pending[k] # NoCall /\ ~Waiting(pending[k]) THEN NoCall ELSE pending[k]]

LoopTop ==
  /\ running /\ ~asleep
  /\ asleep' = TRUE
  /\ pending' = Uncancelled
  /\ UNCHANGED <<commands, running, quarantined, cursor, rto, entry, fate, history>>

\* oneshot::Sender::send, which a dropped receiver does not hear
Tell(c, what) == IF Waiting(c) THEN what ELSE fate[c]

\* An id is free when it is not held back, whoever has it.
FreeUnlessQuarantined(table, p, i) == quarantined[<<p, i>>] = 0

Free(table, p, i) == table[<<p, i>>] = NoCall /\ quarantined[<<p, i>>] = 0

\* A search that starts from the same id every time.
IdFromZero(n) == n

IdAfter(n) == (cursor + n) % Ids

\* reserve_invoke_id passes over n ids and takes the next.
FirstFree(table, p, n) ==
  /\ Free(table, p, IdAfter(n))
  /\ \A m \in 0..(n - 1) : ~Free(table, p, IdAfter(m))

\* A later request of the same peer can be told from this one while fewer ids
\* than there are have been tried since.
Passing(n) == [c \in Calls |-> IF id[c] = NoId THEN 0 ELSE Lesser(Ids, passed[c] + n)]

\* handle_confirmed_command for a caller that waits: it is told of a table with
\* no id, of a request that is too long once an id was found, and of a frame that
\* the socket refused; otherwise the request is out.
Begin(c, outcome) ==
  LET p == PeerOf[c] IN
  \/ /\ \A i \in InvokeIds : ~Free(Uncancelled, p, i)
     /\ pending' = Uncancelled
     /\ fate' = [fate EXCEPT ![c] = "toomany"]
     /\ passed' = Passing(Ids)
     /\ UNCHANGED <<cursor, entry, sends>>
  \/ \E n \in 0..(Ids - 1) :
     /\ FirstFree(Uncancelled, p, n)
     /\ cursor' = (cursor + n + 1) % Ids
     /\ passed' = Passing(n + 1)
     /\ \/ /\ outcome = "toolong"
           /\ pending' = Uncancelled
           /\ fate' = [fate EXCEPT ![c] = "toolong"]
           /\ UNCHANGED <<entry, sends>>
        \/ /\ outcome = "io"
           /\ pending' = Uncancelled
           /\ fate' = [fate EXCEPT ![c] = "io"]
           /\ UNCHANGED <<entry, sends>>
        \/ /\ outcome = "sent"
           /\ pending' = [Uncancelled EXCEPT ![<<p, IdAfter(n)>>] = c]
           /\ id' = [id EXCEPT ![c] = IdAfter(n)]
           /\ retries' = [retries EXCEPT ![c] = Retries]
           /\ left' = [left EXCEPT ![c] = rto[p]]
           /\ sends' = [sends EXCEPT ![c] = 1]
           /\ UNCHANGED <<resent, fate>>

TakeCommand(outcome) ==
  /\ running /\ asleep /\ commands # <<>>
  /\ asleep' = FALSE
  /\ commands' = Tail(commands)
  /\ LET c == Head(commands) IN
     \/ ~Waiting(c) /\ UNCHANGED <<pending, cursor, entry, fate, sends, passed>>
     \/ Waiting(c) /\ Begin(c, outcome)
  /\ UNCHANGED <<running, quarantined, rto, answer, held>>

\* response_matches_service: an Abort or a Reject names no service.
Matches(c, d, names_service) == names_service => ServiceOf[c] = ServiceOf[d]


\* settle takes no sample of a request that was sent more than once.
Sampled(d) == ~resent[d]

\* handle_packet: an answer to call o arrives.
HandleAnswer(o, names_service) ==
  LET d == pending[Pair(o)] IN
  /\ running /\ asleep
  /\ sends[o] > 0
  /\ d # NoCall
  /\ Matches(o, d, names_service)
  /\ asleep' = FALSE
  /\ pending' = [pending EXCEPT ![Pair(o)] = NoCall]
  /\ fate' = [fate EXCEPT ![d] = Tell(d, "answered")]
  /\ answer' = [answer EXCEPT ![d] = IF Waiting(d) THEN o ELSE @]
  /\ \/ Sampled(d) /\ \E r \in Rtos : rto' = [rto EXCEPT ![PeerOf[d]] = r]
     \/ ~Sampled(d) /\ UNCHANGED rto
  /\ UNCHANGED <<commands, running, quarantined, cursor, entry, sends, held, passed>>

\* Any other packet, or an answer nobody waits for, only wakes the task.
HandleOther ==
  /\ running /\ asleep
  /\ asleep' = FALSE
  /\ UNCHANGED <<commands, running, pending, quarantined, cursor, rto, entry, fate, history>>

Due == {c \in Calls : Pending(c) /\ left[c] = 0}

\* Retries that are never used up.
RetriesKept(c) == retries[c]

Spent(c) == retries[c] = 0
RetriesAfter(c) == retries[c] - 1

\* handle_timeouts; refused are the calls whose frame the socket does not take.
HandleTimeouts(refused) ==
  LET cancelled == {c \in Due : ~Waiting(c)}
      over == {c \in Due \ cancelled : Spent(c)}
      again == Due \ (cancelled \union over) IN
  /\ running /\ asleep /\ Due # {}
  /\ refused \subseteq again
  /\ asleep' = FALSE
  /\ pending' = [k \in Pairs |->
       IF pending[k] \in cancelled \union over \union refused THEN NoCall ELSE pending[k]]
  /\ quarantined' = [k \in Pairs |->
       IF pending[k] \in over THEN TransactionBudget(k[1]) ELSE quarantined[k]]
  /\ held' = [c \in Calls |-> IF c \in over THEN TransactionBudget(PeerOf[c]) ELSE held[c]]
  /\ fate' = [c \in Calls |->
       IF c \in over THEN "timeout" ELSE IF c \in refused THEN "io" ELSE fate[c]]
  /\ retries' = [c \in Calls |-> IF c \in again THEN RetriesAfter(c) ELSE retries[c]]
  /\ resent' = [c \in Calls |-> resent[c] \/ c \in again]
  /\ left' = [c \in Calls |-> IF c \in again THEN Backoff(c) ELSE left[c]]
  /\ sends' = [c \in Calls |-> IF c \in again THEN 1 ELSE sends[c]]
  /\ UNCHANGED <<commands, running, cursor, rto, id, answer, passed>>

\* The task ends with a socket that fails: fail_all, and the commands still queued
\* go with the receiver.  (It also ends when the program drops every handle, but
\* then nobody waits.)
SocketFails ==
  /\ running /\ asleep
  /\ running' = FALSE
  /\ pending' = [k \in Pairs |-> NoCall]
  /\ commands' = <<>>
  /\ fate' = [c \in Calls |->
       IF ~Waiting(c) THEN fate[c] ELSE IF Pending(c) THEN "io" ELSE "closed"]
  /\ UNCHANGED <<asleep, quarantined, cursor, rto, entry, history>>

Tick ==
  /\ left' = [c \in Calls |-> Less(left[c])]
  /\ quarantined' = [k \in Pairs |-> Less(quarantined[k])]
  /\ held' = [c \in Calls |-> Less(held[c])]
  /\ <<left, quarantined, held>>' # <<left, quarantined, held>>
  /\ UNCHANGED <<commands, asleep, running, pending, cursor, rto, id, retries, resent, fate,
                 answer, sends, passed>>

HandleCommand == \E outcome \in {"sent", "io", "toolong"} : TakeCommand(outcome)
HandleDeadlines == \E refused \in SUBSET Calls : HandleTimeouts(refused)

Next ==
  \/ \E c \in Calls : Ask(c) \/ DropCall(c)
  \/ LoopTop
  \/ HandleCommand
  \/ \E o \in Calls, names_service \in BOOLEAN : HandleAnswer(o, names_service)
  \/ HandleOther
  \/ HandleDeadlines
  \/ SocketFails
  \/ Tick

Spec == Init /\ [][Next]_vars

\* The runtime polls a woken task, its select tries the branches that are ready in
\* random order, and time passes.  Nothing is asked of the network.
FairSpec ==
  /\ Spec
  /\ WF_vars(LoopTop) /\ WF_vars(Tick)
  /\ SF_vars(HandleCommand) /\ SF_vars(HandleDeadlines)

-----------------------------------------------------------------------------
(* Properties *)

\* A caller that waits is in the queue or in the table, once, and nowhere else:
\* its result cannot be lost, whatever fails and in whatever order.
WaitersAreHeld ==
  \A c \in Calls :
    Waiting(c) => /\ running
                  /\ Queued(c) # Pending(c)
                  /\ \A k \in Pairs : pending[k] = c => k = Pair(c)

\* Why: a call is queued once, before it has an id; the table holds it under its
\* own pair; and an id that timed out is held back for as long as it must be.
CallsInv ==
  /\ \A i, j \in DOMAIN commands : commands[i] = commands[j] => i = j
  /\ \A i \in DOMAIN commands : id[commands[i]] = NoId /\ fate[commands[i]] # "new"
  /\ \A c \in Calls : fate[c] = "new" => id[c] = NoId
  /\ \A k \in Pairs : pending[k] # NoCall => id[pending[k]] # NoId /\ Pair(pending[k]) = k
  /\ \A c \in Calls : Waiting(c) => running /\ (id[c] = NoId => Queued(c))
                                    /\ (id[c] # NoId => pending[Pair(c)] = c)
  /\ \A c \in Calls : held[c] > 0 =>
       id[c] # NoId /\ pending[Pair(c)] = NoCall /\ quarantined[Pair(c)] >= held[c]

\* "Holding the ID back for one full transaction budget after it fails means the
\* late response arrives when nothing is listening."
LateAnswersMeetNobody ==
  \A c \in Calls : fate[c] = "timeout" /\ held[c] > 0 => pending[Pair(c)] = NoCall

\* An id has one owner: the caller that waits for it, or the time that it is held back.
IdsHaveOneOwner == WaitersAreHeld /\ LateAnswersMeetNobody

\* Whoever is given the answer to another question asked the same peer, after a
\* whole cycle of ids.
CrossedOnlyAfterCycle ==
  \A c \in Calls :
    LET o == answer[c] IN
    o # NoCall /\ o # c => PeerOf[o] = PeerOf[c] /\ passed[o] = Ids

\* Why: the cursor is as far past the id of a call as ids were tried since, so a
\* pair comes to another call only after a cycle.
CycleInv ==
  /\ \A c \in Calls : sends[c] > 0 => id[c] # NoId
  /\ \A c \in Calls : id[c] # NoId /\ passed[c] < Ids => cursor = (id[c] + 1 + passed[c]) % Ids
  /\ \A c \in Calls : id[c] # NoId /\ pending[Pair(c)] \notin {NoCall, c} => passed[c] = Ids
  /\ \A c \in Calls :
       answer[c] \notin {NoCall, c} => /\ PeerOf[answer[c]] = PeerOf[c]
                                       /\ id[answer[c]] # NoId /\ passed[answer[c]] = Ids

\* "The invoke ID we gave up on": an answer to a request its caller gave up is not
\* given to another.
GivenUpNeverAnswersAnother ==
  \A c \in Calls : answer[c] # NoCall /\ fate[answer[c]] = "dropped" => answer[c] = c

\* Nobody waits for ever.
EveryCallEnds == \A c \in Calls : fate[c] = "asked" ~> fate[c] # "asked"

=============================================================================
