------------------------------ MODULE SiteServer ------------------------------
(***************************************************************************)
(* The receive loop of a hosted device: `AsyncBacnetIpServer::run_until`   *)
(* and `process_datagram` of `src/server/bip.rs`.  One loop takes          *)
(* datagrams from the socket and spawns a task for each, up to             *)
(* MaxConcurrentRequests of them; a task is in the JoinSet until the loop  *)
(* has joined it, whether it has finished or not.  A signal, or a socket   *)
(* that fails, ends the loop, which then waits for every task and returns. *)
(* The branches of `select!` are picked at random among the ready ones.    *)
(***************************************************************************)
EXTENDS Naturals, Sequences, FiniteSets

CONSTANTS
  None,
  Device,                \* the instance of the hosted device
  Datagrams,             \* what may arrive at the socket, each once
  MaxConcurrentRequests  \* the size of the JoinSet

Dispatcher == INSTANCE Dispatcher

SiteServerAssumption == MaxConcurrentRequests \in Nat \ {0}

VARIABLES
  inbox,      \* the socket's receive buffer
  tasks,      \* the JoinSet
  loop,       \* "running", "draining" or "returned"
  signalled,  \* whether the shutdown future is ready
  replies,    \* what was sent, and to whom
  arrived,    \* the datagrams that have come in (bounds the environment)
  over        \* the datagrams a task has finished with (history)

vars == <<inbox, tasks, loop, signalled, replies, arrived, over>>

Init ==
  /\ inbox = <<>> /\ tasks = {} /\ loop = "running" /\ signalled = FALSE
  /\ replies = {} /\ arrived = {} /\ over = {}

-----------------------------------------------------------------------------
\* The environment: datagrams and the signal.
Arrive(data) ==
  /\ data \notin arrived /\ loop # "returned"
  /\ inbox' = Append(inbox, data)
  /\ arrived' = arrived \cup {data}
  /\ UNCHANGED <<tasks, loop, signalled, replies, over>>

Signal ==
  /\ ~signalled /\ signalled' = TRUE
  /\ UNCHANGED <<inbox, tasks, loop, replies, arrived, over>>

-----------------------------------------------------------------------------
\* The loop.
Listening == loop = "running" /\ Cardinality(tasks) < MaxConcurrentRequests

Receive ==
  /\ Listening /\ inbox # <<>>
  /\ inbox' = Tail(inbox)
  /\ tasks' = tasks \cup {[data |-> Head(inbox), at |-> "serving", response |-> <<>>]}
  /\ UNCHANGED <<loop, signalled, replies, arrived, over>>

ReceiveFails ==
  /\ Listening /\ loop' = "draining"
  /\ UNCHANGED <<inbox, tasks, signalled, replies, arrived, over>>

Stop ==
  /\ loop = "running" /\ signalled /\ loop' = "draining"
  /\ UNCHANGED <<inbox, tasks, signalled, replies, arrived, over>>

\* A mutant of the next: a loop that is full waits for room without joining anybody.
MayJoinUnlessFull == Listening \/ loop = "draining"
MayJoin == loop \in {"running", "draining"}

Join(task) ==
  /\ MayJoin /\ task.at = "over"
  /\ tasks' = tasks \ {task}
  /\ UNCHANGED <<inbox, loop, signalled, replies, arrived, over>>

Return ==
  /\ loop = "draining" /\ tasks = {}
  /\ loop' = "returned"
  /\ UNCHANGED <<inbox, tasks, signalled, replies, arrived, over>>

-----------------------------------------------------------------------------
\* The tasks.
ProcessDatagram(data) ==
  IF ~data.readable \/ data.network_message THEN <<>>
  ELSE [i \in DOMAIN Dispatcher!Answer(Device, data.request) |->
          Dispatcher!Response(data.request, Dispatcher!Answer(Device, data.request)[i])]

Moves(task, next) == tasks' = (tasks \ {task}) \cup {next}
Ends(task) ==
  /\ Moves(task, [task EXCEPT !.at = "over"])
  /\ over' = over \cup {task.data}

Serve(task) ==
  /\ task.at = "serving"
  /\ LET response == ProcessDatagram(task.data) IN
     IF response = <<>> THEN Ends(task)
     ELSE /\ Moves(task, [task EXCEPT !.at = "sending", !.response = response])
          /\ UNCHANGED over
  /\ UNCHANGED <<inbox, loop, signalled, replies, arrived>>

\* The dispatcher may fail (an answer that cannot be encoded), and so may the socket.
Fail(task) ==
  /\ task.at \in {"serving", "sending"} /\ Ends(task)
  /\ UNCHANGED <<inbox, loop, signalled, replies, arrived>>

Send(task) ==
  /\ task.at = "sending" /\ Ends(task)
  /\ replies' = replies \cup
       {[response |-> task.response[1],
         to |-> IF task.data.origin # None THEN task.data.origin ELSE task.data.sender]}
  /\ UNCHANGED <<inbox, loop, signalled, arrived>>

Loop == Receive \/ ReceiveFails \/ Stop \/ (\E task \in tasks : Join(task)) \/ Return
Work == \E task \in tasks : Serve(task) \/ Fail(task) \/ Send(task)
Next == (\E data \in Datagrams : Arrive(data)) \/ Signal \/ Loop \/ Work

\* The runtime polls what is ready, and a select picks each ready branch again and again.
Fairness ==
  /\ WF_vars(Receive) /\ WF_vars(Stop) /\ WF_vars(Return)
  /\ WF_vars(\E task \in tasks : Join(task))
  /\ \A data \in Datagrams :
       WF_vars(\E task \in tasks : task.data = data /\ (Serve(task) \/ Send(task)))

Spec == Init /\ [][Next]_vars /\ Fairness

-----------------------------------------------------------------------------
\* Whatever arrives is dealt with, or the loop has returned, and a loop that was told to
\* stop returns: a full set of tasks keeps the loop from taking datagrams in, and the loop
\* keeps room from coming free unless it joins what is finished.
EventuallyServed ==
  /\ \A data \in Datagrams : (data \in arrived) ~> (data \in over \/ loop = "returned")
  /\ signalled ~> (loop = "returned")

=============================================================================
