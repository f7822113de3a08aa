---------------------- MODULE ServerTransactionsProofs ----------------------
(***************************************************************************)
(* Proofs about ServerTransactions, for any number of requests, peers,     *)
(* sender threads and invoke ids and any policy.                           *)
(***************************************************************************)
EXTENDS ServerTransactions, FiniteSetTheorems, TLAPS

-----------------------------------------------------------------------------
(* Reports *)

\* Two ends are the same report only if they end the same request the same way,
\* and a retry is no end.
LEMMA EndingInjective ==
  ASSUME NEW r, NEW s, NEW j, NEW k
  PROVE  Ending(r, j) = Ending(s, k) => r = s /\ j = k
BY DEF Ending

LEMMA RetriedIsNoEnd ==
  ASSUME NEW r, NEW s, NEW n, NEW k \in Ends
  PROVE  Retried(r, n) # Ending(s, k)
<1>1. Retried(r, n).kind = "Retried" /\ Ending(s, k).kind = k
  BY DEF Retried, Ending
<1>. QED  BY <1>1 DEF Ends

\* The ends among the reports of one due are those that were answered before and
\* the requests it gives up on.
LEMMA DueReportsEnds ==
  ASSUME NEW r, NEW k \in Ends
  PROVE  Ending(r, k) \in DueReports
           <=> Ending(r, k) \in answered \/ (r \in GivenUp /\ k = "GaveUp")
<1>1. Ending(r, k) \in {Retried(s, entry[s].retries + 1) : s \in Again} => FALSE
  BY RetriedIsNoEnd
<1>2. Ending(r, k) \in {Ending(s, "GaveUp") : s \in GivenUp} <=> r \in GivenUp /\ k = "GaveUp"
  BY EndingInjective
<1>. QED  BY <1>1, <1>2 DEF DueReports

LEMMA ReportTypes ==
  ASSUME NEW r \in Requests
  PROVE  /\ \A k \in Kinds : Ending(r, k) \in Reports
         /\ \A n \in Nat : Retried(r, n) \in Reports
BY DEF Ending, Retried, Reports, Kinds, Ends

-----------------------------------------------------------------------------
(* Types *)

LEMMA TypeInit == Init => TypeOK
<1> SUFFICES ASSUME Init
             PROVE  TypeOK
  OBVIOUS
<1>. USE DEF Init
<1>1. drawn \in Nat /\ pending \subseteq Requests /\ answered \subseteq Reports
  OBVIOUS
<1>2. call \in [Requests -> [pc : CallStates, first : Nat, serial : Nat,
                           tries : Nat]]
  BY DEF CallStates
<1>3. entry \in [Requests -> [order : Nat, age : Nat, retries : Nat]]
  BY DEF NoEntry
<1>4. poll \in [pc : {"idle", "policy", "due", "resend"}, timeout : Nat,
               retries : Nat, resend : SUBSET Requests, reports : SUBSET Reports]
  BY DEF IdlePoll
<1>. QED  BY <1>1, <1>2, <1>3, <1>4 DEF TypeOK

LEMMA TypeStep == TypeOK /\ [Next]_vars => TypeOK'
<1> SUFFICES ASSUME TypeOK, [Next]_vars
             PROVE  TypeOK'
  OBVIOUS
<1>. USE DEF TypeOK
<1>1. ASSUME NEW r \in Requests, StartSend(r)
      PROVE  TypeOK'
  BY <1>1 DEF StartSend, CallStates
<1>2. ASSUME NEW r \in Requests, TakeId(r)
      PROVE  TypeOK'
  BY <1>2 DEF TakeId, Advanced, CallStates
<1>3. ASSUME NEW r \in Requests, Probe(r)
      PROVE  TypeOK'
  <2>1. CASE call' = [call EXCEPT ![r] = FallBack(@)]
    <3>1. FallBack(call[r]) \in [pc : CallStates, first : Nat, serial : Nat,
                                tries : Nat]
      BY DEF FallBack, CallStates
    <3>. QED  BY <1>3, <2>1, <3>1 DEF Probe
  <2>2. UNCHANGED <<drawn, pending, entry, answered, poll, policy, wire, told, clash, lost>>
    BY <1>3 DEF Probe
  <2>3. CASE call' = [call EXCEPT ![r].pc = "register"]
    BY <2>2, <2>3 DEF CallStates
  <2>4. CASE call' = [call EXCEPT ![r].pc = "next"]
    BY <2>2, <2>4 DEF CallStates
  <2>. QED  BY <1>3, <2>1, <2>3, <2>4 DEF Probe
<1>4. ASSUME NEW r \in Requests, Register(r)
      PROVE  TypeOK'
  <2>1. Cardinality(Registered) \in Nat
    BY RequestsAssumption, FS_Subset, FS_CardinalityType DEF Registered
  <2>2. entry' \in [Requests -> [order : Nat, age : Nat, retries : Nat]]
    BY <1>4, <2>1 DEF Register, NoEntry
  <2>3. call' \in [Requests -> [pc : CallStates, first : Nat, serial : Nat,
                                tries : Nat]]
    BY <1>4 DEF Register, CallStates
  <2>4. clash' \in BOOLEAN
    BY <1>4 DEF Register
  <2>. QED  BY <1>4, <2>2, <2>3, <2>4 DEF Register
<1>5. ASSUME NEW r \in Requests, SendSucceeds(r)
      PROVE  TypeOK'
  BY <1>5 DEF SendSucceeds, CallStates
<1>6. ASSUME NEW r \in Requests, SendFails(r)
      PROVE  TypeOK'
  BY <1>6 DEF SendFails, CallStates
<1>7. ASSUME NEW r \in Requests, Withdraw(r)
      PROVE  TypeOK'
  BY <1>7 DEF Withdraw, Drop, Matches, NoEntry, CallStates
<1>8. ASSUME NEW q \in Requests, NEW k \in {"Acknowledged", "Refused"}, Answer(q, k)
      PROVE  TypeOK'
  <2>1. k \in Kinds
    BY DEF Kinds, Ends
  <2>2. answered' \subseteq Reports
    BY <1>8, <2>1, ReportTypes DEF Answer, Matches
  <2>. QED  BY <1>8, <2>2 DEF Answer, Drop, Matches, NoEntry
<1>9. CASE PollTimeout
  BY <1>9, PolicyAssumption DEF PollTimeout
<1>10. CASE PollRetries
  BY <1>10, PolicyAssumption DEF PollRetries
<1>11. CASE Due
  <2>1. GivenUp \subseteq Requests /\ Again \subseteq Requests
    BY DEF GivenUp, Again, Late
  <2>2. DueReports \subseteq Reports
    <3>1. "GaveUp" \in Kinds
      BY DEF Kinds, Ends
    <3>2. {Ending(r, "GaveUp") : r \in GivenUp} \subseteq Reports
      BY <2>1, <3>1, ReportTypes
    <3>3. {Retried(r, entry[r].retries + 1) : r \in Again} \subseteq Reports
      BY <2>1, ReportTypes
    <3>. QED  BY <3>2, <3>3 DEF DueReports
  <2>3. ASSUME NEW r \in Requests
        PROVE  /\ NoEntry \in [order : Nat, age : Nat, retries : Nat]
               /\ Retry(entry[r]) \in [order : Nat, age : Nat, retries : Nat]
    BY DEF NoEntry, Retry
  <2>4. entry' \in [Requests -> [order : Nat, age : Nat, retries : Nat]]
    BY <1>11, <2>3 DEF Due
  <2>5. poll' \in [pc : {"idle", "policy", "due", "resend"}, timeout : Nat,
                   retries : Nat, resend : SUBSET Requests, reports : SUBSET Reports]
    BY <1>11, <2>1, <2>2 DEF Due
  <2>. QED  BY <1>11, <2>4, <2>5 DEF Due
<1>12. ASSUME NEW r \in Requests, Resend(r)
       PROVE  TypeOK'
  BY <1>12 DEF Resend
<1>13. CASE ResendFails
  BY <1>13 DEF ResendFails, IdlePoll
<1>14. CASE PollReturns
  BY <1>14 DEF PollReturns, IdlePoll
<1>15. CASE Tick
  BY <1>15 DEF Tick
<1>16. CASE WritePolicy
  BY <1>16 DEF WritePolicy
<1>17. CASE UNCHANGED vars
  BY <1>17 DEF vars
<1>. QED  BY <1>1, <1>2, <1>3, <1>4, <1>5, <1>6, <1>7, <1>8, <1>9, <1>10, <1>11,
             <1>12, <1>13, <1>14, <1>15, <1>16, <1>17
          DEF Next, Send, ServeReply, Poll

\* The type invariant: every structure of the table, the send calls and the poll
\* keeps its shape.
THEOREM TypeCorrect == Spec => []TypeOK
BY TypeInit, TypeStep, PTL DEF Spec

-----------------------------------------------------------------------------
(* Places: where a request and its end can be *)

\* How EndIn changes under the updates the actions make.
LEMMA EndInUnion ==
  ASSUME NEW r, NEW A, NEW B
  PROVE  EndIn(r, A \union B) <=> EndIn(r, A) \/ EndIn(r, B)
BY DEF EndIn

LEMMA EndInEmpty ==
  ASSUME NEW r
  PROVE  ~EndIn(r, {})
BY DEF EndIn

LEMMA EndInOne ==
  ASSUME NEW r, NEW s, NEW k \in Ends
  PROVE  EndIn(r, {Ending(s, k)}) <=> r = s
BY EndingInjective DEF EndIn

LEMMA EndInDue ==
  ASSUME NEW r
  PROVE  EndIn(r, DueReports) <=> EndIn(r, answered) \/ r \in GivenUp
<1>1. "GaveUp" \in Ends
  BY DEF Ends
<1>. QED  BY <1>1, DueReportsEnds DEF EndIn

\* Two sets that hold the ends of different requests have one end each together.
LEMMA OneEndUnion ==
  ASSUME NEW A, NEW B, OneEnd(A), OneEnd(B),
         \A r \in Requests : ~(EndIn(r, A) /\ EndIn(r, B))
  PROVE  OneEnd(A \union B)
BY DEF OneEnd, EndIn

LEMMA OneEndOne ==
  ASSUME NEW s, NEW k
  PROVE  OneEnd({Ending(s, k)})
BY EndingInjective DEF OneEnd

LEMMA OneEndDue ==
  ASSUME OneEnd(answered), \A r \in pending : ~EndIn(r, answered)
  PROVE  OneEnd(DueReports)
<1>1. \A r \in GivenUp : \A k \in Ends : Ending(r, k) \notin answered
  BY DEF GivenUp, Late, EndIn
<1>. QED  BY <1>1, DueReportsEnds DEF OneEnd

LEMMA PlacesStep == TypeOK /\ PlacesInv /\ [Next]_vars => PlacesInv'
<1> SUFFICES ASSUME TypeOK, PlacesInv, [Next]_vars
             PROVE  PlacesInv'
  OBVIOUS
<1>b. \A r \in pending : ~EndIn(r, answered)
  BY DEF PlacesInv, OnePlace, TypeOK
<1>c. \A r, A, B : EndIn(r, A \union B) <=> EndIn(r, A) \/ EndIn(r, B)
  BY EndInUnion
<1>. USE DEF PlacesInv, OnePlace, PlacesRegistered, Waiting, Ended, Registered
\* A step of send that leaves the table alone only moves its call along.
<1>a. ASSUME NEW r \in Requests,
             UNCHANGED <<pending, answered, poll, told, lost>>,
             wire' \subseteq wire \union {r},
             call' \in [Requests -> [pc : CallStates, first : Nat, serial : Nat,
                                    tries : Nat]],
             \A s \in Requests : s # r => call'[s].pc = call[s].pc,
             \/ call[r].pc \in {"new", "next", "probe", "register"} /\ wire' = wire
             \/ call[r].pc = "sending" /\ call'[r].pc \in {"sent", "withdraw"}
      PROVE  PlacesInv'
  BY <1>a DEF TypeOK, EndIn, OneEnd
<1>1. ASSUME NEW r \in Requests, StartSend(r)
      PROVE  PlacesInv'
  BY <1>1, <1>a, TypeStep DEF StartSend, TypeOK
<1>2. ASSUME NEW r \in Requests, TakeId(r)
      PROVE  PlacesInv'
  BY <1>2, <1>a, TypeStep DEF TakeId, TypeOK
<1>3. ASSUME NEW r \in Requests, Probe(r)
      PROVE  PlacesInv'
  BY <1>3, <1>a, TypeStep DEF Probe, TypeOK
<1>4. ASSUME NEW r \in Requests, Register(r)
      PROVE  PlacesInv'
  BY <1>4 DEF Register, TypeOK, EndIn, OneEnd
<1>5. ASSUME NEW r \in Requests, SendSucceeds(r)
      PROVE  PlacesInv'
  BY <1>5, <1>a, TypeStep DEF SendSucceeds, TypeOK
<1>6. ASSUME NEW r \in Requests, SendFails(r)
      PROVE  PlacesInv'
  BY <1>6, <1>a, TypeStep DEF SendFails, TypeOK
<1>7. ASSUME NEW r \in Requests, Withdraw(r)
      PROVE  PlacesInv'
  <2>1. r \notin pending'
    BY <1>7 DEF Withdraw, Drop, Matches
  <2>. QED  BY <1>7, <2>1 DEF Withdraw, Drop, TypeOK, EndIn, OneEnd
<1>8. ASSUME NEW q \in Requests, NEW k \in {"Acknowledged", "Refused"}, Answer(q, k)
      PROVE  PlacesInv'
  <2>1. PICK r \in pending : /\ pending' = pending \ {r}
                            /\ answered' = answered \union {Ending(r, k)}
    BY <1>8 DEF Answer, Matches, Drop
  <2>2. k \in Ends
    BY DEF Ends
  <2>a. \A s : EndIn(s, {Ending(r, k)}) <=> s = r
    BY <2>2, EndInOne
  <2>3. \A s : EndIn(s, answered') <=> EndIn(s, answered) \/ s = r
    <3>1. answered' = answered \union {Ending(r, k)}
      BY <2>1
    <3>2. \A s : EndIn(s, answered') <=> EndIn(s, answered) \/ EndIn(s, {Ending(r, k)})
      BY <1>c, <3>1
    <3>3. QED
      BY <2>a, <3>2
  <2>4. OneEnd(answered')
    <3>1. OneEnd(answered) /\ OneEnd({Ending(r, k)})
      BY OneEndOne
    <3>2. \A s \in Requests : ~(EndIn(s, answered) /\ EndIn(s, {Ending(r, k)}))
      <4>1. ~EndIn(r, answered)
        BY <1>b
      <4>2. QED
        BY <4>1, <2>a
    <3>. QED  BY <2>1, <3>1, <3>2, OneEndUnion
  <2>. QED  BY <1>8, <2>1, <2>3, <2>4 DEF Answer, TypeOK, EndIn, OneEnd
<1>9. CASE PollTimeout \/ PollRetries
  BY <1>9 DEF PollTimeout, PollRetries, TypeOK, EndIn, OneEnd
<1>10. CASE Due
  <2>1. /\ pending' = pending \ GivenUp
        /\ answered' = {}
        /\ poll'.reports = DueReports /\ poll'.resend = Again /\ poll'.pc = "resend"
        /\ UNCHANGED <<call, wire, told, lost>>
    BY <1>10 DEF Due, TypeOK
  <2>2. GivenUp \subseteq pending /\ Again \subseteq pending \ GivenUp
    BY DEF GivenUp, Again, Late
  <2>3. \A s : EndIn(s, poll'.reports) <=> EndIn(s, answered) \/ s \in GivenUp
    BY <2>1, EndInDue
  <2>4. OneEnd(poll'.reports) /\ OneEnd(answered')
    BY <2>1, OneEndDue DEF OneEnd, TypeOK
  <2>5. \A s : ~EndIn(s, answered')
    BY <2>1, EndInEmpty
  <2>. QED  BY <2>1, <2>2, <2>3, <2>4, <2>5 DEF TypeOK, EndIn, OneEnd
<1>11. ASSUME NEW r \in Requests, Resend(r)
       PROVE  PlacesInv'
  BY <1>11 DEF Resend, TypeOK, EndIn, OneEnd
<1>12. CASE ResendFails
  <2>1. poll'.reports = {} /\ poll'.resend = {}
    BY <1>12 DEF ResendFails, IdlePoll
  <2>. QED  BY <1>12, <2>1 DEF ResendFails, EndIn, OneEnd
<1>13. CASE PollReturns
  <2>1. /\ poll'.reports = {} /\ poll'.resend = {}
        /\ poll.resend = {}
        /\ told' = told \union poll.reports
        /\ UNCHANGED <<pending, answered, call, wire>>
    BY <1>13 DEF PollReturns, IdlePoll
  <2>2. \A s : EndIn(s, told') <=> EndIn(s, told) \/ EndIn(s, poll.reports)
    BY <2>1, EndInUnion
  <2>3. OneEnd(told')
    BY <2>1, OneEndUnion
  <2>4. OneEnd(poll'.reports) /\ \A s : ~EndIn(s, poll'.reports)
    BY <2>1 DEF OneEnd, EndIn
  <2>. QED  BY <2>1, <2>2, <2>3, <2>4 DEF OneEnd, EndIn
<1>14. CASE Tick
  BY <1>14 DEF Tick, EndIn, OneEnd
<1>15. CASE WritePolicy
  BY <1>15 DEF WritePolicy, EndIn, OneEnd
<1>16. CASE UNCHANGED vars
  BY <1>16 DEF vars, EndIn, OneEnd
<1>. QED  BY <1>1, <1>2, <1>3, <1>4, <1>5, <1>6, <1>7, <1>8, <1>9, <1>10, <1>11,
             <1>12, <1>13, <1>14, <1>15, <1>16
          DEF Next, Send, ServeReply, Poll

LEMMA PlacesInit == Init => PlacesInv
BY DEF Init, PlacesInv, OnePlace, PlacesRegistered, OneEnd, Waiting, Ended, EndIn, IdlePoll

LEMMA PlacesCorrect == Spec => []PlacesInv
BY TypeCorrect, PlacesInit, PlacesStep, PTL DEF Spec

\* A told end is final, whatever the peers, the policy, the socket and the other
\* threads do: it was told once, and nothing that could send or report the
\* request again is left.
THEOREM EndsAreFinal == Spec => []EndedForGood
<1>1. PlacesInv => EndedForGood
  <2> SUFFICES ASSUME PlacesInv, NEW r \in Requests, Ended(r)
               PROVE  /\ \A j, k \in Ends : {Ending(r, j), Ending(r, k)} \subseteq told => j = k
                      /\ r \notin pending \union poll.resend
                      /\ ~EndIn(r, answered \union poll.reports)
    BY DEF EndedForGood
  <2>1. \A j, k \in Ends : {Ending(r, j), Ending(r, k)} \subseteq told => j = k
    BY DEF PlacesInv, OneEnd
  <2>2. ~Waiting(r) /\ r \notin poll.resend
    BY DEF PlacesInv, OnePlace
  <2>. QED  BY <2>1, <2>2, EndInUnion DEF Waiting
<1>. QED  BY <1>1, PlacesCorrect, PTL

-----------------------------------------------------------------------------
(* Accounts: nothing that went out is forgotten *)

\* With pairs apart, what withdraw removes is the request it is called for.
LEMMA WithdrawsOne ==
  ASSUME TypeOK, PairsApart, NEW r \in Requests, Withdraw(r)
  PROVE  pending' = pending \ {r}
<1>1. r \in Held
  BY DEF Withdraw, Held
<1>2. Matches(To[r], Id(r)) \subseteq {r}
  BY <1>1 DEF Matches, PairsApart, Held
<1>3. r \in pending => r \in Matches(To[r], Id(r))
  BY DEF Matches
<1>. QED  BY <1>2, <1>3 DEF Withdraw, Drop

LEMMA AccountStep ==
  TypeOK /\ PlacesInv /\ AccountInv /\ [Next]_vars => AccountInv'
<1> SUFFICES ASSUME TypeOK, PlacesInv, AccountInv, [Next]_vars, ~clash'
             PROVE  PairsApart' /\ Accounted'
  BY DEF AccountInv
<1>a. ~clash
  BY DEF Next, Send, ServeReply, Poll, StartSend, TakeId, Probe, Register, SendSucceeds,
         SendFails, Withdraw, Answer, PollTimeout, PollRetries, Due, Resend, ResendFails,
         PollReturns, Tick, WritePolicy, vars, TypeOK
<1>b. PairsApart /\ Accounted
  BY <1>a DEF AccountInv
\* A step that lets go of pairs, or keeps them, keeps the pairs held apart.
<1>c. ASSUME Held' \subseteq Held, \A r \in Held' : Id(r)' = Id(r)
      PROVE  PairsApart'
  BY <1>b, <1>c DEF PairsApart
<1>. USE DEF Accounted, Waiting, Ended
<1>1. ASSUME NEW r \in Requests, StartSend(r) \/ TakeId(r) \/ Probe(r)
      PROVE  PairsApart' /\ Accounted'
  <2>1. /\ call[r].pc \in {"new", "next", "probe"}
        /\ call'[r].pc \in {"next", "probe", "register"}
        /\ \A s \in Requests : s # r => call'[s] = call[s]
        /\ UNCHANGED <<pending, answered, poll, told, lost>>
    BY <1>1 DEF StartSend, TakeId, Probe, FallBack, TypeOK
  <2>2. r \notin pending
    BY <2>1 DEF PlacesInv, PlacesRegistered, Waiting, Registered
  <2>3. PairsApart'
    BY <2>1, <2>2, <1>c DEF Held, Id, TypeOK
  <2>. QED  BY <2>1, <2>3, <1>b
<1>4. ASSUME NEW r \in Requests, Register(r)
      PROVE  PairsApart' /\ Accounted'
  <2>1. /\ call[r].pc = "register" /\ call'[r].pc = "sending"
        /\ call'[r].serial = call[r].serial
        /\ \A s \in Requests : s # r => call'[s] = call[s]
        /\ pending' = pending \union {r}
        /\ UNCHANGED <<answered, poll, told, lost>>
        /\ Holders(To[r], Id(r)) = {}
    BY <1>4 DEF Register, TypeOK
  <2>2. Held' = Held \union {r}
    BY <2>1 DEF Held
  <2>3. \A s \in Held' : Id(s)' = Id(s)
    BY <2>1, <2>2 DEF Id, Held, TypeOK
  <2>4. \A s \in Held : To[s] # To[r] \/ Id(s) # Id(r)
    BY <2>1 DEF Holders
  <2>5. PairsApart'
    BY <2>2, <2>3, <2>4, <1>b DEF PairsApart
  <2>. QED  BY <2>1, <2>5, <1>b
<1>5. ASSUME NEW r \in Requests, SendSucceeds(r) \/ SendFails(r)
      PROVE  PairsApart' /\ Accounted'
  <2>1. /\ call[r].pc = "sending" /\ call'[r].pc \in {"sent", "withdraw"}
        /\ call'[r].serial = call[r].serial
        /\ \A s \in Requests : s # r => call'[s] = call[s]
        /\ UNCHANGED <<pending, answered, poll, told, lost>>
    BY <1>5 DEF SendSucceeds, SendFails, TypeOK
  <2>2. PairsApart'
    BY <2>1, <1>c DEF Held, Id, TypeOK
  <2>. QED  BY <2>1, <2>2, <1>b
<1>7. ASSUME NEW r \in Requests, Withdraw(r)
      PROVE  PairsApart' /\ Accounted'
  <2>1. /\ call[r].pc = "withdraw" /\ call'[r].pc = "failed"
        /\ call'[r].serial = call[r].serial
        /\ \A s \in Requests : s # r => call'[s] = call[s]
        /\ UNCHANGED <<answered, poll, told, lost>>
    BY <1>7 DEF Withdraw, TypeOK
  <2>2. pending' = pending \ {r}
    BY <1>7, <1>b, WithdrawsOne
  <2>3. PairsApart'
    BY <2>1, <2>2, <1>c DEF Held, Id, TypeOK
  <2>. QED  BY <2>1, <2>2, <2>3, <1>b
<1>8. ASSUME NEW q \in Requests, NEW k \in {"Acknowledged", "Refused"}, Answer(q, k)
      PROVE  PairsApart' /\ Accounted'
  <2>1. PICK r \in pending : /\ pending' = pending \ {r}
                            /\ answered' = answered \union {Ending(r, k)}
    BY <1>8 DEF Answer, Matches, Drop
  <2>2. \A s : EndIn(s, {Ending(r, k)}) <=> s = r
    BY EndInOne DEF Ends
  <2>3. \A s : EndIn(s, answered') <=> EndIn(s, answered) \/ s = r
    BY <2>1, <2>2, EndInUnion
  <2>4. UNCHANGED <<call, poll, told, lost>>
    BY <1>8 DEF Answer
  <2>5. PairsApart'
    BY <2>1, <2>4, <1>c DEF Held, Id
  <2>. QED  BY <2>1, <2>3, <2>4, <2>5, <1>b
<1>10. CASE Due
  <2>1. /\ pending' = pending \ GivenUp
        /\ poll.pc = "due" /\ poll'.reports = DueReports
        /\ UNCHANGED <<call, told, lost>>
    BY <1>10 DEF Due, TypeOK
  <2>2. poll.reports = {}
    BY <2>1 DEF PlacesInv
  <2>3. \A s : EndIn(s, poll'.reports) <=> EndIn(s, answered) \/ s \in GivenUp
    BY <2>1, EndInDue
  <2>4. \A s : ~EndIn(s, poll.reports)
    BY <2>2, EndInEmpty
  <2>5. PairsApart'
    BY <2>1, <1>c DEF Held, Id
  <2>. QED  BY <2>1, <2>3, <2>4, <2>5, <1>b
<1>13. CASE PollReturns
  <2>1. told' = told \union poll.reports /\ UNCHANGED <<pending, answered, call, lost>>
    BY <1>13 DEF PollReturns
  <2>2. \A s : EndIn(s, told') <=> EndIn(s, told) \/ EndIn(s, poll.reports)
    BY <2>1, EndInUnion
  <2>3. PairsApart'
    BY <2>1, <1>c DEF Held, Id
  <2>. QED  BY <2>1, <2>2, <2>3, <1>b
<1>12. CASE ResendFails
  <2>1. /\ lost' = lost \union poll.reports /\ poll'.reports = {}
        /\ UNCHANGED <<pending, answered, call, told>>
    BY <1>12 DEF ResendFails, IdlePoll
  <2>2. \A s : EndIn(s, lost') <=> EndIn(s, lost) \/ EndIn(s, poll.reports)
    BY <2>1, EndInUnion
  <2>3. PairsApart'
    BY <2>1, <1>c DEF Held, Id
  <2>. QED  BY <2>1, <2>2, <2>3, <1>b
<1>9. CASE PollTimeout \/ PollRetries \/ (\E r \in Requests : Resend(r)) \/ Tick
           \/ WritePolicy \/ UNCHANGED vars
  <2>1. UNCHANGED <<pending, call, answered, told, lost>> /\ poll'.reports = poll.reports
    BY <1>9 DEF PollTimeout, PollRetries, Resend, Tick, WritePolicy, vars, TypeOK
  <2>. QED  BY <2>1, <1>b, <1>c DEF Held, Id
<1>. QED  BY <1>1, <1>4, <1>5, <1>7, <1>8, <1>9, <1>10, <1>12, <1>13
          DEF Next, Send, ServeReply, Poll

LEMMA AccountCorrect == Spec => []AccountInv
<1>1. Init => AccountInv
  BY DEF Init, AccountInv, PairsApart, Accounted, Held
<1>. QED  BY <1>1, AccountStep, TypeCorrect, PlacesCorrect, PTL DEF Spec

\* poll does report "what has become of every confirmed request", for any number
\* of sender threads: as long as no peer and invoke id was held twice, each
\* request whose frame is out is in the table, on its way to the caller, told, its
\* sender knows that it failed, or its outcome went with a poll that failed.
THEOREM EveryRequestAccounted == Spec => []NothingElseForgotten
<1>1. TypeOK /\ PlacesInv /\ AccountInv => NothingElseForgotten
  BY DEF TypeOK, PlacesInv, PlacesRegistered, Registered, AccountInv, Accounted, Waiting, Ended,
         NothingElseForgotten
<1>. QED  BY <1>1, TypeCorrect, PlacesCorrect, AccountCorrect, PTL

\* What Notifier::poll promises, both halves of it: no confirmed request that went
\* out is left without an end, but as NothingElseForgotten excepts, or given two.
THEOREM RequestsEndOnce == Spec => []EachEndsOnce
BY EndsAreFinal, EveryRequestAccounted, PTL DEF EachEndsOnce

-----------------------------------------------------------------------------
(* Retries: how often a request goes out before it is given up on *)

\* A report is an answer that was waiting, a request given up on or one put out
\* again.
LEMMA DueReportsAre ==
  ASSUME NEW x \in DueReports
  PROVE  \/ x \in answered
         \/ \E r \in GivenUp : x = Ending(r, "GaveUp")
         \/ \E r \in Again : x = Retried(r, entry[r].retries + 1)
BY DEF DueReports

LEMMA ReportFields ==
  ASSUME NEW r, NEW k, NEW n
  PROVE  /\ Ending(r, k).req = r /\ Ending(r, k).kind = k
         /\ Retried(r, n).req = r /\ Retried(r, n).kind = "Retried" /\ Retried(r, n).attempt = n
BY DEF Ending, Retried

\* Where the table keeps the counters of what it keeps, and no poll begins,
\* reports or ends, the account of the retries stands.
LEMMA RetriesKept ==
  ASSUME RetriesInv,
         pending' \subseteq pending,
         \A r \in pending' : entry'[r].retries = entry[r].retries,
         \A x \in answered' : x \in answered \/ x.kind \in {"Acknowledged", "Refused"},
         UNCHANGED <<told, lost>>, poll'.reports = poll.reports,
         poll'.pc = "due" => poll'.retries \in RetryLimits
  PROVE  RetriesInv'
<1>1. UNCHANGED Reported
  BY DEF Reported
<1>2. AttemptsInOrder' /\ GivenUpAfterRetries'
  BY <1>1 DEF RetriesInv, AttemptsInOrder, GivenUpAfterRetries
<1>3. RetriesCounted'
  BY <1>1 DEF RetriesInv, RetriesCounted
<1>. QED  BY <1>2, <1>3 DEF RetriesInv

\* A poll that is over, whether it returned or failed, only moves its reports.
LEMMA RetriesReported ==
  ASSUME RetriesInv, UNCHANGED <<pending, entry, answered>>,
         Reported' = Reported \union poll.reports, poll'.reports = {}, poll'.pc = "idle"
  PROVE  RetriesInv'
<1>1. AttemptsInOrder' /\ GivenUpAfterRetries'
  BY DEF RetriesInv, AttemptsInOrder, GivenUpAfterRetries
<1>2. RetriesCounted'
  BY DEF RetriesInv, RetriesCounted
<1>. QED  BY <1>1, <1>2 DEF RetriesInv

LEMMA RetriesStep == TypeOK /\ PlacesInv /\ RetriesInv /\ [Next]_vars => RetriesInv'
<1> SUFFICES ASSUME TypeOK, PlacesInv, RetriesInv, [Next]_vars
             PROVE  RetriesInv'
  OBVIOUS
<1>1. CASE \E r \in Requests : StartSend(r) \/ TakeId(r) \/ Probe(r) \/ SendSucceeds(r)
                               \/ SendFails(r)
  <2>1. UNCHANGED <<pending, entry, answered, poll, told, lost>>
    BY <1>1 DEF StartSend, TakeId, Probe, SendSucceeds, SendFails
  <2>. QED  BY <2>1, RetriesKept DEF RetriesInv
<1>2. ASSUME NEW r \in Requests, Register(r)
      PROVE  RetriesInv'
  <2>1. /\ pending' = pending \union {r} /\ entry'[r].retries = 0
        /\ \A s \in Requests : s # r => entry'[s] = entry[s]
        /\ UNCHANGED <<answered, poll, told, lost>>
    BY <1>2 DEF Register, NoEntry, TypeOK
  <2>2. UNCHANGED Reported
    BY <2>1 DEF Reported
  <2>3. RetriesCounted'
    BY <2>1, <2>2 DEF RetriesInv, RetriesCounted, TypeOK
  <2>4. AttemptsInOrder' /\ GivenUpAfterRetries'
    BY <2>1, <2>2 DEF RetriesInv, AttemptsInOrder, GivenUpAfterRetries
  <2>. QED  BY <2>1, <2>3, <2>4 DEF RetriesInv
<1>3. ASSUME NEW r \in Requests, Withdraw(r)
      PROVE  RetriesInv'
  <2>1. pending' \subseteq pending /\ \A s \in pending' : entry'[s] = entry[s]
    BY <1>3 DEF Withdraw, Drop, TypeOK
  <2>2. UNCHANGED <<answered, poll, told, lost>>
    BY <1>3 DEF Withdraw
  <2>. QED  BY <2>1, <2>2, RetriesKept DEF RetriesInv
<1>4. ASSUME NEW q \in Requests, NEW k \in {"Acknowledged", "Refused"}, Answer(q, k)
      PROVE  RetriesInv'
  <2>1. PICK r \in pending : Drop({r}) /\ answered' = answered \union {Ending(r, k)}
    BY <1>4 DEF Answer, Matches
  <2>2. pending' \subseteq pending /\ \A s \in pending' : entry'[s] = entry[s]
    BY <2>1 DEF Drop, TypeOK
  <2>3. Ending(r, k).kind \in {"Acknowledged", "Refused"}
    BY ReportFields
  <2>4. UNCHANGED <<poll, told, lost>>
    BY <1>4 DEF Answer
  <2>. QED  BY <2>1, <2>2, <2>3, <2>4, RetriesKept DEF RetriesInv
<1>5. CASE PollTimeout
  <2>1. UNCHANGED <<pending, entry, answered, told, lost>>
    BY <1>5 DEF PollTimeout
  <2>2. poll'.reports = poll.reports /\ poll'.pc = "policy"
    BY <1>5 DEF PollTimeout, TypeOK
  <2>. QED  BY <2>1, <2>2, RetriesKept
<1>6. CASE PollRetries
  <2>1. UNCHANGED <<pending, entry, answered, told, lost>>
    BY <1>6 DEF PollRetries
  <2>2. poll'.reports = poll.reports /\ poll'.retries \in RetryLimits
    BY <1>6 DEF PollRetries, TypeOK
  <2>. QED  BY <2>1, <2>2, RetriesKept
<1>7. CASE Due
  <2>1. /\ pending' = pending \ GivenUp /\ answered' = {}
        /\ poll'.reports = DueReports /\ poll'.pc = "resend" /\ poll.pc = "due"
        /\ UNCHANGED <<told, lost>>
    BY <1>7 DEF Due, TypeOK
  <2>2. UNCHANGED Reported
    BY <2>1 DEF Reported
  <2>3. poll.reports = {} /\ poll.retries \in RetryLimits
    BY <2>1 DEF PlacesInv, RetriesInv
  <2>4. \A r \in pending : \A n \in 1..entry[r].retries : Retried(r, n) \in Reported
    BY <2>3 DEF RetriesInv, RetriesCounted
  <2>5. poll.retries \in Nat /\ \A r \in pending : r \in Requests /\ entry[r].retries \in Nat
    BY DEF TypeOK
  <2>6. /\ GivenUp \subseteq pending /\ \A r \in GivenUp : poll.retries <= entry[r].retries
        /\ Again \subseteq pending
        /\ \A r \in Again : entry[r].retries + 1 \in 1..poll.retries
    BY <2>5 DEF GivenUp, Again, Late, Spent
  <2>7. ASSUME NEW x \in DueReports, x.kind = "Retried"
        PROVE  /\ \A n \in 1..(x.attempt - 1) : Retried(x.req, n) \in Reported
               /\ x.attempt \in 1..poll.retries
    <3>a. x \notin answered
      BY <2>7 DEF RetriesInv
    <3>b. \A r \in GivenUp : x # Ending(r, "GaveUp")
      BY <2>7, ReportFields
    <3>1. PICK r \in Again : x = Retried(r, entry[r].retries + 1)
      BY <3>a, <3>b, DueReportsAre
    <3>2. x.req = r /\ x.attempt = entry[r].retries + 1 /\ r \in pending
      BY <3>1, <2>6, ReportFields
    <3>. QED  BY <3>2, <2>4, <2>5, <2>6
  <2>8. AttemptsInOrder'
    BY <2>1, <2>2, <2>3, <2>7 DEF RetriesInv, AttemptsInOrder
  <2>9. ASSUME NEW x \in DueReports, x.kind = "GaveUp"
        PROVE  \A n \in 1..poll.retries : Retried(x.req, n) \in Reported
    <3>a. x \notin answered
      BY <2>9 DEF RetriesInv
    <3>b. \A r \in Again : x # Retried(r, entry[r].retries + 1)
      BY <2>9, ReportFields
    <3>1. PICK r \in GivenUp : x = Ending(r, "GaveUp")
      BY <3>a, <3>b, DueReportsAre
    <3>2. x.req = r /\ r \in pending /\ poll.retries <= entry[r].retries
      BY <3>1, <2>6, ReportFields
    <3>. QED  BY <3>2, <2>4, <2>5
  <2>10. GivenUpAfterRetries'
    BY <2>1, <2>2, <2>3, <2>9 DEF RetriesInv, GivenUpAfterRetries
  <2>11. RetriesCounted'
    <3> SUFFICES ASSUME NEW r \in pending', NEW n \in 1..entry'[r].retries
                 PROVE  Retried(r, n) \in Reported \union DueReports
      BY <2>1, <2>2 DEF RetriesCounted
    <3>1. r \in pending /\ r \in Requests /\ r \notin GivenUp
      BY <2>1, <2>5
    <3>2. CASE r \in Again
      <4>1. entry'[r].retries = entry[r].retries + 1
        BY <1>7, <3>1, <3>2 DEF Due, Retry
      <4>2. Retried(r, entry[r].retries + 1) \in DueReports
        BY <3>2 DEF DueReports
      <4>3. n \in 1..entry[r].retries \/ n = entry[r].retries + 1
        BY <4>1, <3>1, <2>5
      <4>. QED  BY <4>2, <4>3, <2>4, <3>1
    <3>3. CASE r \notin Again
      <4>1. entry'[r].retries = entry[r].retries
        BY <1>7, <3>1, <3>3 DEF Due
      <4>. QED  BY <4>1, <2>4, <3>1
    <3>. QED  BY <3>2, <3>3
  <2>. QED  BY <2>1, <2>8, <2>10, <2>11 DEF RetriesInv
<1>8. ASSUME NEW r \in Requests, Resend(r)
      PROVE  RetriesInv'
  <2>1. UNCHANGED <<pending, entry, answered, told, lost>>
    BY <1>8 DEF Resend
  <2>2. poll'.reports = poll.reports /\ poll'.pc = "resend"
    BY <1>8 DEF Resend, TypeOK
  <2>. QED  BY <2>1, <2>2, RetriesKept
<1>9. CASE ResendFails \/ PollReturns
  <2>1. UNCHANGED <<pending, entry, answered>> /\ poll'.reports = {} /\ poll'.pc = "idle"
    BY <1>9 DEF ResendFails, PollReturns, IdlePoll
  <2>2. told' \union lost' = (told \union lost) \union poll.reports
    BY <1>9 DEF ResendFails, PollReturns
  <2>. QED  BY <2>1, <2>2, RetriesReported DEF Reported
<1>10. CASE Tick
  <2>1. UNCHANGED <<pending, answered, told, lost, poll>>
    BY <1>10 DEF Tick
  <2>2. \A r \in pending' : entry'[r].retries = entry[r].retries
    BY <1>10 DEF Tick, TypeOK
  <2>. QED  BY <2>1, <2>2, RetriesKept DEF RetriesInv
<1>11. CASE WritePolicy \/ UNCHANGED vars
  <2>1. UNCHANGED <<pending, entry, answered, told, lost, poll>>
    BY <1>11 DEF WritePolicy, vars
  <2>. QED  BY <2>1, RetriesKept DEF RetriesInv
<1>. QED  BY <1>1, <1>2, <1>3, <1>4, <1>5, <1>6, <1>7, <1>8, <1>9, <1>10, <1>11
          DEF Next, Send, ServeReply, Poll

LEMMA RetriesInit == Init => RetriesInv
BY DEF Init, RetriesInv, AttemptsInOrder, GivenUpAfterRetries, RetriesCounted, Reported, IdlePoll

\* However often the policy is written meanwhile and whichever polls fail, poll
\* reports the attempts of a request in order, makes none that every setting of
\* Number_Of_APDU_Retries forbids, and gives up only after as many as one asked
\* for.
THEOREM GivesUpAfterRetries == Spec => []RetriesBeforeGivingUp
<1>1. TypeOK /\ PlacesInv /\ RetriesInv => RetriesBeforeGivingUp
  <2> SUFFICES ASSUME TypeOK, RetriesInv, NEW x \in Reported
               PROVE  /\ x.kind = "Retried" =>
                           /\ \A n \in 1..x.attempt : Retried(x.req, n) \in Reported
                           /\ \E limit \in RetryLimits : x.attempt \in 1..limit
                      /\ x.kind = "GaveUp" =>
                           \E limit \in RetryLimits :
                             \A n \in 1..limit : Retried(x.req, n) \in Reported
    BY DEF RetriesBeforeGivingUp
  <2>1. x \in Reports
    BY DEF TypeOK, Reported
  <2>2. ASSUME x.kind = "Retried"
        PROVE  x = Retried(x.req, x.attempt) /\ x.attempt \in Nat
    BY <2>1, <2>2 DEF Reports, Retried
  <2>. QED  BY <2>2 DEF RetriesInv, AttemptsInOrder, GivenUpAfterRetries
<1>. QED  BY <1>1, RetriesInit, RetriesStep, TypeCorrect, PlacesCorrect, PTL DEF Spec

-----------------------------------------------------------------------------
(* Serials: whose reply can end whose request *)

LEMMA Division ==
  ASSUME NEW a \in Nat
  PROVE  /\ a = IdCount * (a \div IdCount) + (a % IdCount)
         /\ a \div IdCount \in Int /\ a % IdCount \in 0..(IdCount - 1)
BY IdCountAssumption, SMTT(30)

LEMMA MultiplesApart ==
  ASSUME NEW p \in Int, NEW q \in Int, p < q
  PROVE  IdCount * q >= IdCount * p + IdCount
<1>1. q - p >= 1
  OBVIOUS
<1>2. IdCount * (q - p) >= IdCount
  BY <1>1, IdCountAssumption, SMTT(30)
<1>. QED  BY <1>2, IdCountAssumption, SMTT(30)

\* Two numbers with one remainder are the same or at least the divisor apart.
LEMMA SameRemainder ==
  ASSUME NEW a \in Nat, NEW b \in Nat, a % IdCount = b % IdCount, a < b
  PROVE  b >= a + IdCount
<1>. DEFINE p == a \div IdCount
            q == b \div IdCount
<1>1. /\ a = IdCount * p + (a % IdCount) /\ b = IdCount * q + (b % IdCount)
      /\ p \in Int /\ q \in Int /\ a % IdCount \in Int
  BY Division, IdCountAssumption
<1>. HIDE DEF p, q
<1>2. p < q
  <2>1. CASE q <= p
    <3>1. IdCount * q <= IdCount * p
      BY <2>1, <1>1, IdCountAssumption, SMTT(30)
    <3>. QED  BY <3>1, <1>1, IdCountAssumption
  <2>. QED  BY <2>1, <1>1
<1>. QED  BY <1>1, <1>2, MultiplesApart, IdCountAssumption

LEMMA SerialsStep == TypeOK /\ SerialsInv /\ [Next]_vars => SerialsInv'
<1> SUFFICES ASSUME TypeOK, SerialsInv, [Next]_vars
             PROVE  SerialsInv'
  OBVIOUS
<1>. USE DEF SerialsInv, HasDrawn, Drew
\* Only TakeId touches the numbers, and Probe falls back on one its call drew.
<1>a. ASSUME NEW r \in Requests, UNCHANGED drawn,
             \A s \in Requests : s # r => call'[s] = call[s],
             call'[r].tries = call[r].tries, Drew(r)' \subseteq Drew(r),
             call[r].pc # "next", call[r].pc = "new" => call'[r].pc = "next"
      PROVE  SerialsInv'
  <2>1. UNCHANGED HasDrawn /\ \A s \in Requests : Drew(s)' \subseteq Drew(s)
    BY <1>a
  <2>. QED  BY <1>a, <2>1
<1>b. ASSUME UNCHANGED <<drawn, call>>
      PROVE  SerialsInv'
  BY <1>b
<1>1. ASSUME NEW r \in Requests,
             StartSend(r) \/ Register(r) \/ SendSucceeds(r) \/ SendFails(r) \/ Withdraw(r)
      PROVE  SerialsInv'
  BY <1>1, <1>a DEF StartSend, Register, SendSucceeds, SendFails, Withdraw, TypeOK
<1>2. ASSUME NEW r \in Requests, TakeId(r)
      PROVE  SerialsInv'
  <2>1. /\ drawn \in Nat /\ drawn' = drawn + 1
        /\ call'[r].tries = call[r].tries + 1 /\ call[r].tries \in Nat
        /\ call'[r].serial = drawn
        /\ call'[r].first = IF call[r].tries = 0 THEN drawn ELSE call[r].first
        /\ \A s \in Requests : s # r => call'[s] = call[s]
    BY <1>2 DEF TakeId, Advanced, TypeOK
  <2>2. r \in HasDrawn' /\ Drew(r)' \subseteq {drawn} \union (IF r \in HasDrawn THEN Drew(r) ELSE {})
    BY <2>1
  <2>3. \A s \in Requests : s # r => (s \in HasDrawn' <=> s \in HasDrawn) /\ Drew(s)' = Drew(s)
    BY <2>1
  <2>4. \A s \in HasDrawn' : \A n \in Drew(s)' : n < drawn'
    BY <2>1, <2>2, <2>3 DEF TypeOK
  <2>5. \A s, t \in HasDrawn' : s # t => Drew(s)' \cap Drew(t)' = {}
    BY <2>1, <2>2, <2>3 DEF TypeOK
  <2>6. \A s \in Requests : call'[s].pc \notin {"new", "next"} => s \in HasDrawn'
    BY <2>1, <2>2, <2>3
  <2>. QED  BY <2>4, <2>5, <2>6
<1>3. ASSUME NEW r \in Requests, Probe(r)
      PROVE  SerialsInv'
  BY <1>3, <1>a DEF Probe, FallBack, TypeOK
<1>4. CASE ServeReply \/ Poll \/ Tick \/ WritePolicy \/ UNCHANGED vars
  BY <1>4, <1>b DEF ServeReply, Answer, Poll, PollTimeout, PollRetries, Due, Resend, ResendFails,
                    PollReturns, Tick, WritePolicy, vars
<1>. QED  BY <1>1, <1>2, <1>3, <1>4 DEF Next, Send

\* Only peer and id of a reply are compared, so it can end another request than
\* the one it answers; ids are handed out in rotation to any number of threads,
\* so then a whole cycle of ids was drawn between the two.
THEOREM CrossedAfterCycle == Spec => CrossedOnlyAfterCycle
<1>1. TypeOK /\ PlacesInv /\ SerialsInv /\ [Next]_vars =>
        [\A q \in wire, r \in pending, k \in {"Acknowledged", "Refused"} :
           Answer(q, k) /\ r \notin pending' /\ r # q =>
             \/ call[r].serial >= call[q].serial + IdCount
             \/ call[q].serial >= call[r].serial + IdCount]_vars
  <2> SUFFICES ASSUME TypeOK, PlacesInv, SerialsInv, NEW q \in wire, NEW r \in pending,
                      NEW k \in {"Acknowledged", "Refused"}, Answer(q, k),
                      r \notin pending', r # q
               PROVE  \/ call[r].serial >= call[q].serial + IdCount
                      \/ call[q].serial >= call[r].serial + IdCount
    OBVIOUS
  <2>1. q \in Requests /\ r \in Requests
    BY DEF TypeOK
  <2>2. r \in Matches(To[q], Id(q))
    BY DEF Answer, Drop
  <2>3. call[q].serial % IdCount = call[r].serial % IdCount
    BY <2>2 DEF Matches, Id
  <2>4. q \in Registered /\ r \in Registered
    BY <2>1 DEF PlacesInv, PlacesRegistered, Waiting
  <2>5. q \in HasDrawn /\ r \in HasDrawn
    BY <2>4 DEF SerialsInv, Registered
  <2>6. call[q].serial # call[r].serial
    BY <2>5 DEF SerialsInv, Drew
  <2>7. call[q].serial \in Nat /\ call[r].serial \in Nat
    BY <2>1 DEF TypeOK
  <2>. QED  BY <2>3, <2>6, <2>7, SameRemainder
<1>2. Init => SerialsInv
  BY DEF Init, SerialsInv, HasDrawn
<1>. QED  BY <1>1, <1>2, SerialsStep, TypeCorrect, PlacesCorrect, PTL DEF Spec, CrossedOnlyAfterCycle

-----------------------------------------------------------------------------
(* Fates: the table implements what RequestFates promises *)

LEMMA LostStep == TypeOK /\ PlacesInv /\ LostInv /\ [Next]_vars => LostInv'
<1> SUFFICES ASSUME TypeOK, PlacesInv, LostInv, [Next]_vars
             PROVE  LostInv'
  OBVIOUS
<1>. USE DEF LostInv, Waiting, Ended, Registered
<1>1. ASSUME NEW r \in Requests, Send(r)
      PROVE  LostInv'
  <2>1. /\ pending' \subseteq pending \union {r}
        /\ r \in pending' => r \in pending \/ call[r].pc = "register"
        /\ call[r].pc \in {"sending", "withdraw"} => call'[r].pc \in {"sent", "withdraw", "failed"}
        /\ call[r].pc \notin {"sent", "failed"}
        /\ \A s \in Requests : s # r => call'[s] = call[s]
        /\ UNCHANGED <<answered, poll, told, lost>>
    BY <1>1 DEF Send, StartSend, TakeId, Probe, Register, SendSucceeds, SendFails, Withdraw, Drop, TypeOK
  <2>. QED  BY <2>1
<1>2. ASSUME NEW q \in Requests, NEW k \in {"Acknowledged", "Refused"}, Answer(q, k)
      PROVE  LostInv'
  <2>1. PICK r \in pending : /\ pending' = pending \ {r}
                            /\ answered' = answered \union {Ending(r, k)}
    BY <1>2 DEF Answer, Matches, Drop
  <2>2. \A s : EndIn(s, {Ending(r, k)}) <=> s = r
    BY EndInOne DEF Ends
  <2>3. \A s : EndIn(s, answered') <=> EndIn(s, answered) \/ s = r
    BY <2>1, <2>2, EndInUnion
  <2>4. UNCHANGED <<call, poll, told, lost>>
    BY <1>2 DEF Answer
  <2>. QED  BY <2>1, <2>3, <2>4
<1>3. CASE Due
  <2>1. /\ pending' = pending \ GivenUp /\ answered' = {} /\ poll'.reports = DueReports
        /\ UNCHANGED <<call, told, lost>>
    BY <1>3 DEF Due, TypeOK
  <2>2. \A s : EndIn(s, poll'.reports) <=> EndIn(s, answered) \/ s \in GivenUp
    BY <2>1, EndInDue
  <2>3. GivenUp \subseteq pending /\ \A s : ~EndIn(s, answered')
    BY <2>1, EndInEmpty DEF GivenUp, Late
  <2>. QED  BY <2>1, <2>2, <2>3
<1>4. CASE ResendFails
  <2>1. /\ lost' = lost \union poll.reports /\ poll'.reports = {}
        /\ UNCHANGED <<pending, answered, call, told>>
    BY <1>4 DEF ResendFails, IdlePoll
  <2>2. \A s : (EndIn(s, lost') <=> EndIn(s, lost) \/ EndIn(s, poll.reports)) /\ ~EndIn(s, {})
    BY <2>1, EndInUnion, EndInEmpty
  <2>3. ASSUME NEW s \in Requests, EndIn(s, poll.reports)
        PROVE  s \in Registered /\ s \notin pending /\ ~EndIn(s, answered) /\ ~Ended(s)
    BY <2>3 DEF PlacesInv, OnePlace, PlacesRegistered
  <2>. QED  BY <2>1, <2>2, <2>3
<1>5. CASE PollReturns
  <2>1. /\ told' = told \union poll.reports /\ poll'.reports = {}
        /\ UNCHANGED <<pending, answered, call, lost>>
    BY <1>5 DEF PollReturns, IdlePoll
  <2>2. \A s : (EndIn(s, told') <=> EndIn(s, told) \/ EndIn(s, poll.reports)) /\ ~EndIn(s, {})
    BY <2>1, EndInUnion, EndInEmpty
  <2>. QED  BY <2>1, <2>2
<1>6. CASE PollTimeout \/ PollRetries \/ (\E r \in Requests : Resend(r)) \/ Tick
           \/ WritePolicy \/ UNCHANGED vars
  <2>1. UNCHANGED <<pending, call, answered, told, lost>> /\ poll'.reports = poll.reports
    BY <1>6 DEF PollTimeout, PollRetries, Resend, Tick, WritePolicy, vars, TypeOK
  <2>. QED  BY <2>1
<1>. QED  BY <1>1, <1>2, <1>3, <1>4, <1>5, <1>6 DEF Next, ServeReply, Poll

LEMMA LostCorrect == Spec => []LostInv
<1>1. Init => LostInv
  BY EndInEmpty DEF Init, LostInv
<1>. QED  BY <1>1, LostStep, TypeCorrect, PlacesCorrect, PTL DEF Spec

AllInv == TypeOK /\ PlacesInv /\ AccountInv /\ LostInv

\* The fate of a request whose ends stay where they are does not change, unless
\* its sender is told that it failed.
LEMMA FateKept ==
  ASSUME NEW r \in Requests, UNCHANGED told, Waiting(r)' <=> Waiting(r),
         EndIn(r, lost') <=> EndIn(r, lost),
         \/ Waiting(r) \/ Ended(r) \/ EndIn(r, lost)
         \/ call'[r].pc = call[r].pc
         \/ {call[r].pc, call'[r].pc} \cap {"sent", "failed"} = {}
  PROVE  FateOf(r)' = FateOf(r)
<1>1. Ended(r)' <=> Ended(r)
  BY DEF Ended
<1>2. CASE Ended(r)
  BY <1>1, <1>2 DEF FateOf
<1>3. CASE ~Ended(r)
  BY <1>1, <1>3 DEF FateOf
<1>. QED  BY <1>2, <1>3

\* With no pair held twice, every action is a step of RequestFates or changes no
\* fate.
LEMMA FateStep ==
  ASSUME AllInv, AllInv', ~clash', [Next]_vars
  PROVE  \/ Fate!FatesNext
         \/ UNCHANGED [r \in Requests |-> FateOf(r)]
<1>. DEFINE fate == [r \in Requests |-> FateOf(r)]
            Known(r) == Waiting(r) \/ Ended(r) \/ EndIn(r, lost)
<1>a. ~clash
  BY DEF Next, Send, ServeReply, Poll, StartSend, TakeId, Probe, Register, SendSucceeds,
         SendFails, Withdraw, Answer, PollTimeout, PollRetries, Due, Resend, ResendFails,
         PollReturns, Tick, WritePolicy, vars, AllInv, TypeOK
<1>b. PairsApart /\ Accounted
  BY <1>a DEF AllInv, AccountInv
<1>c. \A r \in Requests : call[r].pc \in {"sending", "withdraw", "sent"} => Known(r)
  BY <1>b DEF Accounted
\* What was not registered yet is unsent.
<1>d. \A r \in Requests : r \notin Registered => FateOf(r) = "unsent" /\ ~Known(r)
  BY DEF FateOf, AllInv, PlacesInv, PlacesRegistered, LostInv, Registered
<1>e. ASSUME \A r \in Requests : FateOf(r)' = FateOf(r)
      PROVE  UNCHANGED fate
  BY <1>e
\* A report adds to the ends of no request that had one.
<1>f. ASSUME NEW r \in Requests, Ended(r), told \subseteq told'
      PROVE  FateOf(r)' = FateOf(r)
  <2>. DEFINE k == FateOf(r)
              l == FateOf(r)'
  <2>1. k \in Ends /\ Ending(r, k) \in told
    BY <1>f DEF FateOf, Ended, EndIn
  <2>2. Ended(r)'
    BY <1>f DEF Ended, EndIn
  <2>3. l \in Ends /\ Ending(r, l) \in told'
    BY <2>2 DEF FateOf, Ended, EndIn
  <2>. QED  BY <2>1, <2>3, <1>f DEF AllInv, PlacesInv, OneEnd
<1>1. ASSUME NEW r \in Requests,
             StartSend(r) \/ TakeId(r) \/ Probe(r) \/ SendSucceeds(r) \/ SendFails(r)
      PROVE  UNCHANGED fate
  <2>1. /\ UNCHANGED <<pending, answered, poll, told, lost>>
        /\ \A s \in Requests : s # r => call'[s] = call[s]
        /\ \/ call[r].pc = "sending"
           \/ {call[r].pc, call'[r].pc} \cap {"sent", "failed"} = {}
    BY <1>1 DEF StartSend, TakeId, Probe, FallBack, SendSucceeds, SendFails, AllInv, TypeOK
  <2>2. \A s \in Requests : Waiting(s)' <=> Waiting(s)
    BY <2>1 DEF Waiting
  <2>3. \A s \in Requests : FateOf(s)' = FateOf(s)
    BY <2>1, <2>2, <1>c, FateKept
  <2>. QED  BY <2>3, <1>e
<1>2. ASSUME NEW r \in Requests, Register(r)
      PROVE  Fate!Issue(r)
  <2>1. /\ call[r].pc = "register" /\ pending' = pending \union {r}
        /\ \A s \in Requests : s # r => call'[s] = call[s]
        /\ UNCHANGED <<answered, poll, told, lost>>
    BY <1>2 DEF Register, AllInv, TypeOK
  <2>2. FateOf(r) = "unsent" /\ ~Known(r)
    BY <2>1, <1>d DEF Registered
  <2>3. FateOf(r)' = "waiting"
    BY <2>1, <2>2 DEF FateOf, Waiting, Ended
  <2>4. ASSUME NEW s \in Requests, s # r
        PROVE  FateOf(s)' = FateOf(s)
    <3>1. Waiting(s)' <=> Waiting(s)
      BY <2>1, <2>4 DEF Waiting
    <3>. QED  BY <2>1, <2>4, <3>1, FateKept
  <2>. QED  BY <2>2, <2>3, <2>4 DEF Fate!Issue
<1>3. ASSUME NEW r \in Requests, Withdraw(r)
      PROVE  Fate!Fail(r) \/ UNCHANGED fate
  <2>a. pending' = pending \ {r}
    BY <1>3, <1>b, WithdrawsOne DEF AllInv
  <2>1. /\ call[r].pc = "withdraw" /\ call'[r].pc = "failed" /\ pending' = pending \ {r}
        /\ \A s \in Requests : s # r => call'[s] = call[s]
        /\ UNCHANGED <<answered, poll, told, lost>>
    BY <1>3, <2>a DEF Withdraw, AllInv, TypeOK
  <2>2. ASSUME NEW s \in Requests, s # r
        PROVE  FateOf(s)' = FateOf(s)
    <3>1. Waiting(s)' <=> Waiting(s)
      BY <2>1, <2>2 DEF Waiting
    <3>. QED  BY <2>1, <2>2, <3>1, FateKept
  <2>3. CASE r \in pending
    <3>1. Waiting(r) /\ ~Ended(r) /\ ~EndIn(r, lost) /\ ~Waiting(r)'
      BY <2>1, <2>3 DEF Waiting, AllInv, PlacesInv, OnePlace, LostInv
    <3>2. ~Ended(r)' /\ ~EndIn(r, lost')
      BY <2>1, <3>1 DEF Ended
    <3>3. FateOf(r) = "waiting" /\ FateOf(r)' = "failed"
      BY <2>1, <3>1, <3>2 DEF FateOf
    <3>. QED  BY <3>3, <2>2 DEF Fate!Fail
  <2>4. CASE r \notin pending
    <3>1. Waiting(r)' <=> Waiting(r)
      BY <2>1, <2>4 DEF Waiting
    <3>2. FateOf(r)' = FateOf(r)
      BY <2>1, <3>1, <1>c, FateKept
    <3>. QED  BY <3>2, <2>2, <1>e
  <2>. QED  BY <2>3, <2>4
<1>4. ASSUME NEW q \in Requests, NEW k \in {"Acknowledged", "Refused"}, Answer(q, k)
      PROVE  UNCHANGED fate
  <2>1. PICK r \in pending : /\ pending' = pending \ {r}
                            /\ answered' = answered \union {Ending(r, k)}
    BY <1>4 DEF Answer, Matches, Drop
  <2>2. \A s : EndIn(s, {Ending(r, k)}) <=> s = r
    BY EndInOne DEF Ends
  <2>3. \A s : EndIn(s, answered') <=> EndIn(s, answered) \/ s = r
    BY <2>1, <2>2, EndInUnion
  <2>4. UNCHANGED <<call, poll, told, lost>>
    BY <1>4 DEF Answer
  <2>5. \A s \in Requests : Waiting(s)' <=> Waiting(s)
    BY <2>1, <2>3, <2>4 DEF Waiting
  <2>. QED  BY <2>4, <2>5, FateKept, <1>e
<1>5. CASE Due
  <2>1. /\ pending' = pending \ GivenUp /\ answered' = {}
        /\ poll.pc = "due" /\ poll'.reports = DueReports
        /\ UNCHANGED <<call, told, lost>>
    BY <1>5 DEF Due, AllInv, TypeOK
  <2>2. \A s : EndIn(s, poll'.reports) <=> EndIn(s, answered) \/ s \in GivenUp
    BY <2>1, EndInDue
  <2>3. \A s : ~EndIn(s, answered') /\ ~EndIn(s, poll.reports)
    BY <2>1, EndInEmpty DEF AllInv, PlacesInv
  <2>4. GivenUp \subseteq pending
    BY DEF GivenUp, Late
  <2>5. \A s \in Requests : Waiting(s)' <=> Waiting(s)
    BY <2>1, <2>2, <2>3, <2>4 DEF Waiting
  <2>. QED  BY <2>1, <2>5, FateKept, <1>e
<1>6. CASE PollReturns
  <2>. DEFINE S == {r \in Requests : EndIn(r, poll.reports)}
  <2>1. /\ told' = told \union poll.reports /\ poll'.reports = {}
        /\ UNCHANGED <<pending, answered, call, lost>>
    BY <1>6 DEF PollReturns, IdlePoll
  <2>2. \A s : (EndIn(s, told') <=> EndIn(s, told) \/ EndIn(s, poll.reports)) /\ ~EndIn(s, {})
    BY <2>1, EndInUnion, EndInEmpty
  <2>3. ASSUME NEW s \in Requests \ S
        PROVE  FateOf(s)' = FateOf(s)
    <3>1. (Waiting(s)' <=> Waiting(s)) /\ (Ended(s)' <=> Ended(s))
      BY <2>1, <2>2 DEF Waiting, Ended
    <3>2. CASE Ended(s)
      BY <3>2, <1>f, <2>1
    <3>3. CASE ~Ended(s)
      BY <3>1, <3>3, <2>1 DEF FateOf
    <3>. QED  BY <3>2, <3>3
  <2>4. ASSUME NEW s \in S
        PROVE  FateOf(s) = "waiting" /\ FateOf(s)' \in Fate!Outcomes
    <3>1. Waiting(s) /\ ~Ended(s) /\ Ended(s)'
      BY <2>2 DEF Waiting, Ended, AllInv, PlacesInv, OnePlace
    <3>2. FateOf(s)' \in Ends
      BY <3>1 DEF FateOf, Ended, EndIn
    <3>. QED  BY <3>1, <3>2 DEF FateOf, Ends, Fate!Outcomes
  <2>5. CASE S = {}
    BY <2>3, <2>5, <1>e
  <2>6. CASE S # {}
    <3>1. ASSUME NEW s \in Requests
          PROVE  FateOf(s)' \in Fate!Fates
      <4>1. call'[s].pc = "sent" => Known(s)'
        BY <1>b DEF AllInv, AccountInv, Accounted
      <4>2. Ended(s)' => FateOf(s)' \in Ends
        BY DEF FateOf, Ended, EndIn
      <4>. QED  BY <4>1, <4>2 DEF FateOf, Fate!Fates, Fate!Outcomes, Ends
    <3>2. Fate!Settle(S)
      BY <2>3, <2>4, <2>6, <3>1 DEF Fate!Settle
    <3>. QED  BY <3>2 DEF Fate!FatesNext
  <2>. QED  BY <2>5, <2>6
<1>7. CASE ResendFails
  <2>. DEFINE S == {r \in Requests : EndIn(r, poll.reports)}
  <2>1. /\ lost' = lost \union poll.reports /\ poll'.reports = {}
        /\ UNCHANGED <<pending, answered, call, told>>
    BY <1>7 DEF ResendFails, IdlePoll
  <2>2. \A s : (EndIn(s, lost') <=> EndIn(s, lost) \/ EndIn(s, poll.reports)) /\ ~EndIn(s, {})
    BY <2>1, EndInUnion, EndInEmpty
  <2>3. ASSUME NEW s \in Requests \ S
        PROVE  FateOf(s)' = FateOf(s)
    <3>1. Waiting(s)' <=> Waiting(s)
      BY <2>1, <2>2 DEF Waiting
    <3>. QED  BY <2>1, <2>2, <3>1, FateKept
  <2>4. ASSUME NEW s \in S
        PROVE  FateOf(s) = "waiting" /\ FateOf(s)' = "lost"
    <3>1. Waiting(s) /\ ~Ended(s) /\ s \notin pending /\ ~EndIn(s, answered)
      BY DEF Waiting, AllInv, PlacesInv, OnePlace
    <3>2. ~Waiting(s)' /\ ~Ended(s)' /\ EndIn(s, lost')
      BY <2>1, <2>2, <3>1 DEF Waiting, Ended
    <3>. QED  BY <3>1, <3>2 DEF FateOf
  <2>5. CASE S = {}
    BY <2>3, <2>5, <1>e
  <2>6. CASE S # {}
    <3>1. Fate!Lose(S)
      BY <2>3, <2>4, <2>6 DEF Fate!Lose
    <3>. QED  BY <3>1 DEF Fate!FatesNext
  <2>. QED  BY <2>5, <2>6
<1>8. CASE PollTimeout \/ PollRetries \/ (\E r \in Requests : Resend(r)) \/ Tick
           \/ WritePolicy \/ UNCHANGED vars
  <2>1. UNCHANGED <<pending, call, answered, told, lost>> /\ poll'.reports = poll.reports
    BY <1>8 DEF PollTimeout, PollRetries, Resend, Tick, WritePolicy, vars, AllInv, TypeOK
  <2>2. \A s \in Requests : Waiting(s)' <=> Waiting(s)
    BY <2>1 DEF Waiting
  <2>. QED  BY <2>1, <2>2, FateKept, <1>e
<1>. QED  BY <1>1, <1>2, <1>3, <1>4, <1>5, <1>6, <1>7, <1>8
          DEF Next, Send, ServeReply, Poll, Fate!FatesNext

\* As long as no two requests held one peer and invoke id at once, the table, the
\* threads that send, the serve loop and poll together give every request the
\* life RequestFates allows, step by step.
THEOREM TableImplementsFates == Spec /\ [](~clash) => ImplementsFates
<1>1. Init => Fate!FatesInit
  BY DEF Init, Fate!FatesInit, FateOf, Ended, Waiting, EndIn, IdlePoll
<1>2. AllInv /\ AllInv' /\ ~clash' /\ [Next]_vars
        => [Fate!FatesNext]_([r \in Requests |-> FateOf(r)])
  BY FateStep
<1>3. Spec => []AllInv
  BY TypeCorrect, PlacesCorrect, AccountCorrect, LostCorrect, PTL DEF AllInv
<1>. QED  BY <1>1, <1>2, <1>3, PTL DEF Spec, ImplementsFates, Fate!FatesSpec

=============================================================================
