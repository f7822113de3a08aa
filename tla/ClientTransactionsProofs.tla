---------------------- MODULE ClientTransactionsProofs ----------------------
(* What TLAPS proves of ClientTransactions, for any number of calls, peers *)
(* and invoke ids, any retry limit and any timeouts.                       *)
EXTENDS ClientTransactions, SequenceTheorems, TLAPS

-----------------------------------------------------------------------------
(* Helpers *)

LEMMA GrowthValues == \A n \in 1..5 : Growth[n] \in Nat \ {0}
  <1> TAKE n \in 1..5
  <1>1. n = 1 \/ n = 2 \/ n = 3 \/ n = 4 \/ n = 5
    OBVIOUS
  <1> QED  BY <1>1 DEF Growth

LEMMA WaitTyped ==
  ASSUME rto \in [Peers -> Nat \ {0}], NEW p \in Peers, NEW n \in Nat
  PROVE AttemptWait(p, n) \in Nat
  <1>1. Lesser(n, 4) + 1 \in 1..5
    BY DEF Lesser
  <1> DEFINE r == rto[p]  g == Growth[Lesser(n, 4) + 1]  most == Timeout * TimeoutCeiling
  <1>2. r \in Nat /\ g \in Nat
    BY <1>1, GrowthValues
  <1>3. r * g \in Nat
    BY <1>2
  <1>4. most \in Nat
    BY NumbersAssumption
  <1> QED  BY <1>3, <1>4 DEF AttemptWait, Lesser

LEMMA BudgetTyped ==
  ASSUME rto \in [Peers -> Nat \ {0}], NEW p \in Peers
  PROVE TransactionBudget(p) \in Nat
  <1> DEFINE W(n) == IF n <= Retries THEN AttemptWait(p, n) ELSE 0
             X == IF Retries > 3 THEN (Retries - 3) * AttemptWait(p, 4) ELSE 0
  <1>1. W(0) \in Nat /\ W(1) \in Nat /\ W(2) \in Nat /\ W(3) \in Nat
    BY WaitTyped
  <1>2. X \in Nat
    <2>1. CASE Retries > 3
      <3> DEFINE more == Retries - 3  wait == AttemptWait(p, 4)
      <3>1. more \in Nat /\ wait \in Nat
        BY <2>1, WaitTyped, NumbersAssumption
      <3>2. more * wait \in Nat
        BY <3>1
      <3> QED  BY <2>1, <3>2
    <2> QED  BY <2>1
  <1>3. TransactionBudget(p) = W(0) + W(1) + W(2) + W(3) + X
    BY DEF TransactionBudget
  <1> HIDE DEF W, X
  <1> QED  BY <1>1, <1>2, <1>3

LEMMA ExceptTyped ==
  ASSUME NEW S, NEW T, NEW f \in [S -> T], NEW x, NEW v \in T
  PROVE [f EXCEPT ![x] = v] \in [S -> T]
  OBVIOUS

LEMMA LessTyped == ASSUME NEW n \in Nat PROVE Less(n) \in Nat /\ Less(n) <= n
  BY DEF Less

LEMMA IdAfterTyped ==
  ASSUME cursor \in InvokeIds, NEW n \in Nat
  PROVE IdAfter(n) \in InvokeIds /\ (cursor + n + 1) % Ids \in InvokeIds
  BY NumbersAssumption DEF IdAfter, InvokeIds

LEMMA UncancelledTyped ==
  ASSUME TypeOK
  PROVE /\ Uncancelled \in [Pairs -> Calls \union {NoCall}]
        /\ \A k \in Pairs : Uncancelled[k] # NoCall =>
             Uncancelled[k] = pending[k] /\ Waiting(pending[k])
        /\ \A k \in Pairs : Uncancelled[k] = NoCall =>
             pending[k] = NoCall \/ ~Waiting(pending[k])
  BY DEF TypeOK, Uncancelled

LEMMA PairTyped ==
  ASSUME TypeOK, NEW c \in Calls, id[c] # NoId
  PROVE Pair(c) \in Pairs /\ id[c] \in InvokeIds
  BY CallsAssumption DEF TypeOK, Pair, Pairs

-----------------------------------------------------------------------------
(* Type correctness *)

LEMMA InitTyped == Init => TypeOK
  <1> SUFFICES ASSUME Init PROVE TypeOK
    OBVIOUS
  <1>1. 0 \in InvokeIds /\ 0 \in 0..Retries /\ 0 \in 0..Ids
    BY NumbersAssumption DEF InvokeIds
  <1>2. commands \in Seq(Calls)
    BY DEF Init
  <1>3. rto \in [Peers -> Nat \ {0}]
    BY NumbersAssumption DEF Init
  <1>4. /\ quarantined \in [Pairs -> Nat] /\ left \in [Calls -> Nat] /\ held \in [Calls -> Nat]
        /\ sends \in [Calls -> 0..1]
    BY DEF Init
  <1>5. retries \in [Calls -> 0..Retries] /\ passed \in [Calls -> 0..Ids] /\ cursor \in InvokeIds
    BY <1>1 DEF Init
  <1>6. /\ asleep \in BOOLEAN /\ running \in BOOLEAN /\ resent \in [Calls -> BOOLEAN]
        /\ pending \in [Pairs -> Calls \union {NoCall}]
        /\ id \in [Calls -> InvokeIds \union {NoId}]
        /\ answer \in [Calls -> Calls \union {NoCall}]
    BY DEF Init
  <1> QED  BY <1>2, <1>3, <1>4, <1>5, <1>6 DEF Init, TypeOK

LEMMA TakeTyped ==
  ASSUME TypeOK, NEW outcome, TakeCommand(outcome)
  PROVE TypeOK'
  <1> DEFINE c == Head(commands)  p == PeerOf[c]
  <1>1. c \in Calls /\ Tail(commands) \in Seq(Calls)
    BY HeadTailProperties DEF TypeOK, TakeCommand
  <1>2. p \in Peers
    BY <1>1, CallsAssumption
  <1>3. /\ asleep' = FALSE /\ commands' \in Seq(Calls)
        /\ running' = running /\ quarantined' = quarantined /\ rto' = rto
        /\ answer' = answer /\ held' = held
    BY <1>1 DEF TakeCommand
  <1>4. CASE UNCHANGED <<pending, cursor, entry, fate, sends, passed>>
    BY <1>3, <1>4 DEF TypeOK, entry
  <1>5. CASE Begin(c, outcome)
    <2>1. \A n \in 0..Ids : Passing(n) \in [Calls -> 0..Ids]
      BY NumbersAssumption DEF Passing, Lesser, TypeOK
    <2>2. ASSUME UNCHANGED <<entry, sends>>, pending' = Uncancelled,
                 cursor' \in InvokeIds, passed' \in [Calls -> 0..Ids],
                 \E w \in {"toomany", "toolong", "io"} : fate' = [fate EXCEPT ![c] = w]
          PROVE TypeOK'
      BY <1>3, <2>2, UncancelledTyped DEF TypeOK, entry
    <2>3. CASE \A i \in InvokeIds : ~Free(Uncancelled, p, i)
      <3>1. Ids \in 0..Ids
        BY NumbersAssumption
      <3>2. CASE /\ pending' = Uncancelled
                 /\ fate' = [fate EXCEPT ![c] = "toomany"]
                 /\ passed' = Passing(Ids)
                 /\ UNCHANGED <<cursor, entry, sends>>
        BY <2>1, <2>2, <3>1, <3>2 DEF TypeOK
      <3>3. CASE \E n \in 0..(Ids - 1) : FirstFree(Uncancelled, p, n)
        <4>1. PICK n \in 0..(Ids - 1) : Free(Uncancelled, p, IdAfter(n))
          BY <3>3 DEF FirstFree
        <4>2. IdAfter(n) \in InvokeIds
          BY <4>1, IdAfterTyped, NumbersAssumption DEF TypeOK
        <4> QED  BY <2>3, <4>1, <4>2
      <3> QED  BY <1>5, <3>2, <3>3 DEF Begin
    <2>4. CASE ~\A i \in InvokeIds : ~Free(Uncancelled, p, i)
      <3>1. PICK n \in 0..(Ids - 1) :
              /\ cursor' = (cursor + n + 1) % Ids
              /\ passed' = Passing(n + 1)
              /\ \/ /\ outcome = "toolong"
                    /\ pending' = Uncancelled
                    /\ fate' = [fate EXCEPT ![c] = "toolong"]
                    /\ UNCHANGED <<entry, sends>>
                 \/ /\ outcome = "io"
                    /\ pending' = Uncancelled
                    /\ fate' = [fate EXCEPT ![c] = "io"]
                    /\ UNCHANGED <<entry, sends>>
                 \/ /\ outcome = "sent"
                    /\ pending' = [Uncancelled EXCEPT ![<<p, IdAfter(n)>>] = c]
                    /\ id' = [id EXCEPT ![c] = IdAfter(n)]
                    /\ retries' = [retries EXCEPT ![c] = Retries]
                    /\ left' = [left EXCEPT ![c] = rto[p]]
                    /\ sends' = [sends EXCEPT ![c] = 1]
                    /\ UNCHANGED <<resent, fate>>
        BY <1>5, <2>4 DEF Begin
      <3>2. n \in Nat /\ n + 1 \in 0..Ids
        BY NumbersAssumption
      <3>3. IdAfter(n) \in InvokeIds /\ cursor' \in InvokeIds
        BY <3>1, <3>2, IdAfterTyped DEF TypeOK
      <3>4. passed' \in [Calls -> 0..Ids]
        BY <2>1, <3>1, <3>2
      <3>5. CASE outcome = "sent"
        <4>1. /\ pending' = [Uncancelled EXCEPT ![<<p, IdAfter(n)>>] = c]
              /\ id' = [id EXCEPT ![c] = IdAfter(n)]
              /\ retries' = [retries EXCEPT ![c] = Retries]
              /\ left' = [left EXCEPT ![c] = rto[p]]
              /\ sends' = [sends EXCEPT ![c] = 1]
              /\ UNCHANGED <<resent, fate>>
          BY <3>1, <3>5
        <4> HIDE DEF c, p
        <4>7. /\ id \in [Calls -> InvokeIds \union {NoId}] /\ sends \in [Calls -> 0..1]
              /\ retries \in [Calls -> 0..Retries] /\ left \in [Calls -> Nat]
              /\ rto[p] \in Nat
          BY <1>2 DEF TypeOK
        <4>2. pending' \in [Pairs -> Calls \union {NoCall}]
          BY <1>1, <4>1, UncancelledTyped
        <4>3. id' \in [Calls -> InvokeIds \union {NoId}]
          BY <3>3, <4>1, <4>7
        <4>4. sends' \in [Calls -> 0..1]
          <5>1. 1 \in 0..2
            OBVIOUS
          <5> QED  BY <4>1, <4>7, <5>1, ExceptTyped
        <4>5. retries' \in [Calls -> 0..Retries]
          <5>1. Retries \in 0..Retries
            BY NumbersAssumption
          <5> QED  BY <4>1, <4>7, <5>1, ExceptTyped
        <4>6. left' \in [Calls -> Nat]
          BY <4>1, <4>7
        <4> QED  BY <1>3, <3>3, <3>4, <4>1, <4>2, <4>3, <4>4, <4>5, <4>6 DEF TypeOK
      <3>6. CASE outcome # "sent"
        BY <2>2, <3>1, <3>3, <3>4, <3>6
      <3> QED  BY <3>5, <3>6
    <2> QED  BY <2>3, <2>4
  <1> QED  BY <1>4, <1>5 DEF TakeCommand

LEMMA AnswerTyped ==
  ASSUME TypeOK, NEW o \in Calls, NEW named, HandleAnswer(o, named)
  PROVE TypeOK'
  <1> DEFINE k == Pair(o)  d == pending[k]
  <1>1. /\ d # NoCall
        /\ pending' = [pending EXCEPT ![k] = NoCall]
        /\ fate' = [fate EXCEPT ![d] = Tell(d, "answered")]
        /\ answer' = [answer EXCEPT ![d] = IF Waiting(d) THEN o ELSE @]
        /\ asleep' = FALSE
        /\ UNCHANGED <<commands, running, quarantined, cursor, entry, sends, held, passed>>
        /\ UNCHANGED rto \/ \E r \in Rtos : rto' = [rto EXCEPT ![PeerOf[d]] = r]
    BY DEF HandleAnswer
  <1> HIDE DEF k, d
  <1>2. pending' \in [Pairs -> Calls \union {NoCall}]
    BY <1>1 DEF TypeOK
  <1>3. answer' \in [Calls -> Calls \union {NoCall}]
    BY <1>1 DEF TypeOK
  <1>4. rto' \in [Peers -> Nat \ {0}]
    BY <1>1, NumbersAssumption DEF TypeOK
  <1>5. CASE d \in Calls
    <2>1. Tell(d, "answered") \in {"new", "asked", "answered", "timeout", "io", "toomany",
                                   "toolong", "closed", "dropped"}
      BY <1>5 DEF Tell, TypeOK
    <2> QED  BY <1>1, <1>2, <1>3, <1>4, <2>1 DEF TypeOK, entry
  <1>6. CASE d \notin Calls
    <2>1. fate' = fate
      BY <1>1, <1>6 DEF TypeOK
    <2> QED  BY <1>1, <1>2, <1>3, <1>4, <2>1 DEF TypeOK, entry
  <1> QED  BY <1>5, <1>6

LEMMA TimeoutsTyped ==
  ASSUME TypeOK, NEW refused, HandleTimeouts(refused)
  PROVE TypeOK'
  <1> DEFINE cancelled == {c \in Due : ~Waiting(c)}
             over == {c \in Due \ cancelled : Spent(c)}
             again == Due \ (cancelled \union over)
  <1>1. /\ asleep' = FALSE
        /\ pending' = [k \in Pairs |->
             IF pending[k] \in cancelled \union over \union refused THEN NoCall ELSE pending[k]]
        /\ quarantined' = [k \in Pairs |->
             IF pending[k] \in over THEN TransactionBudget(k[1]) ELSE quarantined[k]]
        /\ held' = [c \in Calls |-> IF c \in over THEN TransactionBudget(PeerOf[c]) ELSE held[c]]
        /\ fate' = [c \in Calls |->
             IF c \in over THEN "timeout" ELSE IF c \in refused THEN "io" ELSE fate[c]]
        /\ retries' = [c \in Calls |-> IF c \in again THEN RetriesAfter(c) ELSE retries[c]]
        /\ resent' = [c \in Calls |-> resent[c] \/ c \in again]
        /\ left' = [c \in Calls |-> IF c \in again THEN Backoff(c) ELSE left[c]]
        /\ sends' = [c \in Calls |-> IF c \in again THEN 1 ELSE sends[c]]
        /\ UNCHANGED <<commands, running, cursor, rto, id, answer, passed>>
    BY DEF HandleTimeouts
  <1>2. \A c \in again : c \in Calls /\ retries[c] # 0
    BY DEF Due, Spent
  <1> HIDE DEF cancelled, over, again
  <1>3. rto \in [Peers -> Nat \ {0}]
    BY DEF TypeOK
  <1>4. quarantined' \in [Pairs -> Nat]
    <2>1. \A k \in Pairs : TransactionBudget(k[1]) \in Nat
      BY <1>3, BudgetTyped DEF Pairs
    <2> QED  BY <1>1, <2>1 DEF TypeOK
  <1>5. held' \in [Calls -> Nat]
    <2>1. \A c \in Calls : TransactionBudget(PeerOf[c]) \in Nat
      BY <1>3, BudgetTyped, CallsAssumption
    <2> QED  BY <1>1, <2>1 DEF TypeOK
  <1>6. retries' \in [Calls -> 0..Retries]
    <2>1. \A c \in again : RetriesAfter(c) \in 0..Retries
      BY <1>2, NumbersAssumption DEF RetriesAfter, TypeOK
    <2> QED  BY <1>1, <2>1 DEF TypeOK
  <1>7. left' \in [Calls -> Nat]
    <2>1. \A c \in again : Backoff(c) \in Nat
      <3> TAKE c \in again
      <3>1. PeerOf[c] \in Peers /\ Retries - retries[c] + 1 \in Nat
        BY <1>2, CallsAssumption, NumbersAssumption DEF TypeOK
      <3> QED  BY <1>3, <3>1, WaitTyped DEF Backoff
    <2> QED  BY <1>1, <2>1 DEF TypeOK
  <1>8. pending' \in [Pairs -> Calls \union {NoCall}]
    BY <1>1 DEF TypeOK
  <1>9. resent' \in [Calls -> BOOLEAN] /\ sends' \in [Calls -> 0..1]
    BY <1>1 DEF TypeOK
  <1>10. fate' \in [Calls -> {"new", "asked", "answered", "timeout", "io", "toomany",
                              "toolong", "closed", "dropped"}]
    BY <1>1 DEF TypeOK
  <1> QED  BY <1>1, <1>4, <1>5, <1>6, <1>7, <1>8, <1>9, <1>10 DEF TypeOK

LEMMA StepTyped == TypeOK /\ [Next]_vars => TypeOK'
  <1> SUFFICES ASSUME TypeOK, [Next]_vars PROVE TypeOK'
    OBVIOUS
  <1>1. ASSUME NEW c \in Calls, Ask(c) PROVE TypeOK'
    <2>1. commands' \in Seq(Calls)
      <3>1. commands \in Seq(Calls)
        BY DEF TypeOK
      <3>2. Append(commands, c) \in Seq(Calls)
        BY <3>1, AppendProperties
      <3>3. commands' = Append(commands, c) \/ commands' = commands
        BY <1>1 DEF Ask
      <3> QED  BY <3>1, <3>2, <3>3
    <2>2. fate' = [fate EXCEPT ![c] = "asked"] \/ fate' = [fate EXCEPT ![c] = "closed"]
      BY <1>1 DEF Ask
    <2> QED  BY <1>1, <2>1, <2>2 DEF Ask, TypeOK, entry, history
  <1>2. ASSUME NEW c \in Calls, DropCall(c) PROVE TypeOK'
    BY <1>2 DEF DropCall, TypeOK, entry, history
  <1>3. CASE LoopTop
    BY <1>3, UncancelledTyped DEF LoopTop, TypeOK, entry, history
  <1>4. CASE HandleCommand
    BY <1>4, TakeTyped DEF HandleCommand
  <1>5. ASSUME NEW o \in Calls, NEW named \in BOOLEAN, HandleAnswer(o, named) PROVE TypeOK'
    BY <1>5, AnswerTyped
  <1>6. CASE HandleOther
    BY <1>6 DEF HandleOther, TypeOK, entry, history
  <1>7. CASE HandleDeadlines
    BY <1>7, TimeoutsTyped DEF HandleDeadlines
  <1>8. CASE SocketFails
    <2>1. commands' \in Seq(Calls)
      BY <1>8 DEF SocketFails
    <2> QED  BY <1>8, <2>1 DEF SocketFails, TypeOK, entry, history
  <1>9. CASE Tick
    <2>1. \A n \in Nat : Less(n) \in Nat
      BY LessTyped
    <2> QED  BY <1>9, <2>1 DEF Tick, TypeOK
  <1>10. CASE UNCHANGED vars
    BY <1>10 DEF vars, entry, history, TypeOK
  <1> QED
    BY <1>1, <1>2, <1>3, <1>4, <1>5, <1>6, <1>7, <1>8, <1>9, <1>10 DEF Next

\* For any calls, peers and ids the tables keep their shape: in particular a retry
\* count never goes below zero, and every budget is a number (src/client/async_client.rs,
\* Endpoint::handle_timeouts).
THEOREM TypeCorrect == Spec => []TypeOK
  BY InitTyped, StepTyped, PTL DEF Spec

-----------------------------------------------------------------------------
(* Where a waiting call is, and which ids rest *)

\* A step that takes no call into the table and no id out of rest.
LEMMA Removals ==
  ASSUME TypeOK, CallsInv, UNCHANGED <<commands, running, id>>,
         pending' \in [Pairs -> Calls \union {NoCall}],
         \A k \in Pairs : pending'[k] \in {pending[k], NoCall},
         \A c \in Calls : /\ fate'[c] = "new" <=> fate[c] = "new"
                          /\ fate'[c] = "asked" => /\ fate[c] = "asked"
                                                   /\ id[c] # NoId => pending'[Pair(c)] = c,
         \A c \in Calls : held'[c] > 0 =>
           id[c] # NoId /\ pending'[Pair(c)] = NoCall /\ quarantined'[Pair(c)] >= held'[c]
  PROVE CallsInv'
  <1>1. \A c \in Calls : Pair(c)' = Pair(c) /\ Queued(c)' = Queued(c)
    BY DEF Pair, Queued
  <1>2. \A i \in DOMAIN commands : commands[i] \in Calls
    BY DEF TypeOK
  <1>3. \A k \in Pairs : pending'[k] # NoCall =>
          id'[pending'[k]] # NoId /\ <<PeerOf[pending'[k]], id'[pending'[k]]>> = k
    BY DEF CallsInv, Pair
  <1> QED  BY <1>1, <1>2, <1>3 DEF CallsInv, Waiting

LEMMA AskKeeps ==
  ASSUME TypeOK, CallsInv, NEW c \in Calls, Ask(c)
  PROVE CallsInv'
  <1>1. fate[c] = "new" /\ id[c] = NoId /\ ~Queued(c)
    BY DEF Ask, CallsInv, Queued
  <1>2. UNCHANGED <<running, pending, quarantined, id, held>>
    BY DEF Ask, entry, history
  <1>3. CASE ~running
    <2>1. commands' = commands /\ fate' = [fate EXCEPT ![c] = "closed"]
      BY <1>3 DEF Ask
    <2>2. \A x \in Calls : ~Waiting(x)
      BY <1>3 DEF CallsInv
    <2>3. \A x \in Calls : held'[x] > 0 =>
            id[x] # NoId /\ pending'[Pair(x)] = NoCall /\ quarantined'[Pair(x)] >= held'[x]
      BY <1>2 DEF CallsInv
    <2>4. \A i \in DOMAIN commands : commands[i] # c
      BY <1>1 DEF Queued
    <2>5. \A x \in Calls : Pair(x)' = Pair(x) /\ ~Waiting(x)'
      BY <1>2, <2>1, <2>2 DEF Pair, Waiting, TypeOK
    <2> QED  BY <1>1, <1>2, <2>1, <2>3, <2>4, <2>5 DEF CallsInv, TypeOK, Pair
  <1>4. CASE running
    <2>1. commands' = Append(commands, c) /\ fate' = [fate EXCEPT ![c] = "asked"]
      BY <1>4 DEF Ask
    <2>2. commands \in Seq(Calls)
      BY DEF TypeOK
    <2>3. /\ Len(commands') = Len(commands) + 1
          /\ \A i \in 1..Len(commands) : commands'[i] = commands[i]
          /\ commands'[Len(commands) + 1] = c
          /\ commands' \in Seq(Calls)
      BY <2>1, <2>2, AppendProperties
    <2>4. DOMAIN commands = 1..Len(commands) /\ DOMAIN commands' = 1..(Len(commands) + 1)
          /\ Len(commands) \in Nat
      BY <2>2, <2>3
    <2>5. \A i \in DOMAIN commands : commands[i] # c
      BY <1>1 DEF Queued
    <2>6. \A i, j \in DOMAIN commands' : commands'[i] = commands'[j] => i = j
      BY <2>3, <2>4, <2>5 DEF CallsInv
    <2>7. \A i \in DOMAIN commands' : id'[commands'[i]] = NoId /\ fate'[commands'[i]] # "new"
      <3> TAKE i \in DOMAIN commands'
      <3>1. CASE i = Len(commands) + 1
        BY <1>1, <1>2, <2>1, <2>3, <3>1 DEF TypeOK
      <3>2. CASE i # Len(commands) + 1
        <4>1. i \in DOMAIN commands /\ commands'[i] = commands[i] /\ commands[i] \in Calls
          BY <2>2, <2>3, <2>4, <3>2
        <4> QED  BY <1>2, <2>1, <4>1 DEF CallsInv, TypeOK
      <3> QED  BY <3>1, <3>2
    <2>8. \A x \in Calls : fate'[x] = "new" => id'[x] = NoId
      BY <1>1, <1>2, <2>1 DEF CallsInv, TypeOK
    <2>9. \A x \in Calls : Waiting(x)' =>
            running' /\ (id'[x] = NoId => Queued(x)') /\ (id'[x] # NoId => pending'[Pair(x)'] = x)
      <3> TAKE x \in Calls
      <3>1. CASE x = c
        BY <1>1, <1>2, <1>4, <2>3, <2>4, <3>1 DEF Queued
      <3>2. CASE x # c
        <4>1. Waiting(x)' => Waiting(x)
          BY <2>1, <3>2 DEF Waiting, TypeOK
        <4>2. Queued(x) => Queued(x)'
          BY <2>3, <2>4 DEF Queued
        <4> QED  BY <1>2, <4>1, <4>2 DEF CallsInv, Pair
      <3> QED  BY <3>1, <3>2
    <2> QED  BY <1>2, <2>6, <2>7, <2>8, <2>9 DEF CallsInv, Pair
  <1> QED  BY <1>3, <1>4

LEMMA LoopTopKeeps ==
  ASSUME TypeOK, CallsInv, LoopTop
  PROVE CallsInv'
  <1>1. /\ UNCHANGED <<commands, running, quarantined, id, fate, held>>
        /\ pending' = Uncancelled
    BY DEF LoopTop, entry, history
  <1>2. pending' \in [Pairs -> Calls \union {NoCall}]
    BY <1>1, UncancelledTyped
  <1>3. \A k \in Pairs : pending'[k] \in {pending[k], NoCall}
    BY <1>1 DEF Uncancelled
  <1>4. \A c \in Calls : fate[c] = "asked" /\ id[c] # NoId => pending'[Pair(c)] = c
    <2>1. ASSUME NEW c \in Calls, fate[c] = "asked", id[c] # NoId
          PROVE pending'[Pair(c)] = c
      <3>1. pending[Pair(c)] = c /\ Pair(c) \in Pairs
        BY <2>1, PairTyped DEF CallsInv, Waiting
      <3> QED  BY <1>1, <2>1, <3>1 DEF Uncancelled, Waiting
    <2> QED  BY <2>1
  <1>5. \A c \in Calls : held[c] > 0 => pending'[Pair(c)] = NoCall
    <2>1. ASSUME NEW c \in Calls, held[c] > 0 PROVE pending'[Pair(c)] = NoCall
      <3>1. pending[Pair(c)] = NoCall /\ Pair(c) \in Pairs
        BY <2>1, PairTyped DEF CallsInv
      <3> QED  BY <1>1, <3>1 DEF Uncancelled
    <2> QED  BY <2>1
  <1> QED  BY <1>1, <1>2, <1>3, <1>4, <1>5, Removals DEF CallsInv

LEMMA DropKeeps ==
  ASSUME TypeOK, CallsInv, NEW c \in Calls, DropCall(c)
  PROVE CallsInv'
  <1>1. /\ UNCHANGED <<commands, running, pending, quarantined, id, held>>
        /\ fate[c] = "asked" /\ fate' = [fate EXCEPT ![c] = "dropped"]
    BY DEF DropCall, entry, history, Waiting
  <1>2. \A x \in Calls : /\ fate'[x] = "new" <=> fate[x] = "new"
                         /\ fate'[x] = "asked" => fate[x] = "asked"
    BY <1>1 DEF TypeOK
  <1> QED  BY <1>1, <1>2, Removals DEF CallsInv, TypeOK, Waiting

LEMMA AnswerKeeps ==
  ASSUME TypeOK, CallsInv, NEW o \in Calls, NEW named, HandleAnswer(o, named)
  PROVE CallsInv'
  <1> DEFINE k == Pair(o)  d == pending[k]
  <1>1. /\ d # NoCall
        /\ pending' = [pending EXCEPT ![k] = NoCall]
        /\ fate' = [fate EXCEPT ![d] = Tell(d, "answered")]
        /\ UNCHANGED <<commands, running, quarantined, id, held>>
    BY DEF HandleAnswer, entry
  <1>2. pending' \in [Pairs -> Calls \union {NoCall}]
        /\ \A j \in Pairs : pending'[j] \in {pending[j], NoCall}
    BY <1>1 DEF TypeOK
  <1>3. \A c \in Calls : /\ fate'[c] = "new" <=> fate[c] = "new"
                         /\ fate'[c] = "asked" => fate[c] = "asked" /\ c # d
    BY <1>1 DEF TypeOK, Tell, Waiting
  <1>4. ASSUME NEW c \in Calls, fate'[c] = "asked", id[c] # NoId PROVE pending'[Pair(c)] = c
    <2>1. pending[Pair(c)] = c /\ c # d
      BY <1>3, <1>4 DEF CallsInv, Waiting
    <2>2. Pair(c) # k
      BY <2>1
    <2> QED  BY <1>1, <2>1, <2>2 DEF TypeOK
  <1>5. \A c \in Calls : held[c] > 0 => pending'[Pair(c)] = NoCall
    BY <1>1, PairTyped DEF CallsInv, TypeOK
  <1> QED  BY <1>1, <1>2, <1>3, <1>4, <1>5, Removals DEF CallsInv

LEMMA TimeoutsKeep ==
  ASSUME TypeOK, CallsInv, NEW refused, HandleTimeouts(refused)
  PROVE CallsInv'
  <1> DEFINE cancelled == {c \in Due : ~Waiting(c)}
             over == {c \in Due \ cancelled : Spent(c)}
             again == Due \ (cancelled \union over)
  <1>1. /\ pending' = [k \in Pairs |->
             IF pending[k] \in cancelled \union over \union refused THEN NoCall ELSE pending[k]]
        /\ quarantined' = [k \in Pairs |->
             IF pending[k] \in over THEN TransactionBudget(k[1]) ELSE quarantined[k]]
        /\ held' = [c \in Calls |-> IF c \in over THEN TransactionBudget(PeerOf[c]) ELSE held[c]]
        /\ fate' = [c \in Calls |->
             IF c \in over THEN "timeout" ELSE IF c \in refused THEN "io" ELSE fate[c]]
        /\ UNCHANGED <<commands, running, id>>
        /\ refused \subseteq again
    BY DEF HandleTimeouts
  <1>2. \A c \in cancelled \union over \union again : c \in Calls /\ Pending(c)
    BY DEF Due
  <1>3. /\ \A c \in cancelled : fate[c] # "asked"
        /\ \A c \in over \union again : fate[c] = "asked"
    BY DEF Waiting
  <1>9. NoCall \notin cancelled \union over \union refused
    BY <1>1, <1>2, CallsAssumption
  <1> HIDE DEF cancelled, over, again
  <1>4. pending' \in [Pairs -> Calls \union {NoCall}]
        /\ \A j \in Pairs : pending'[j] \in {pending[j], NoCall}
    BY <1>1 DEF TypeOK
  <1>5. \A c \in Calls : /\ fate'[c] = "new" <=> fate[c] = "new"
                         /\ fate'[c] = "asked" =>
                              fate[c] = "asked" /\ c \notin cancelled \union over \union refused
    BY <1>1, <1>3 DEF TypeOK
  <1>6. ASSUME NEW c \in Calls, fate'[c] = "asked", id[c] # NoId PROVE pending'[Pair(c)] = c
    <2>1. pending[Pair(c)] = c /\ c \notin cancelled \union over \union refused
      BY <1>5, <1>6 DEF CallsInv, Waiting
    <2>2. Pair(c) \in Pairs
      BY <1>6, PairTyped
    <2> QED  BY <1>1, <2>1, <2>2
  <1>7. ASSUME NEW c \in Calls, held'[c] > 0
        PROVE id[c] # NoId /\ pending'[Pair(c)] = NoCall /\ quarantined'[Pair(c)] >= held'[c]
    <2>1. CASE c \in over
      <3>1. id[c] # NoId /\ pending[Pair(c)] = c
        BY <1>2, <2>1 DEF Pending
      <3>2. Pair(c) \in Pairs /\ Pair(c)[1] = PeerOf[c]
        BY <3>1, PairTyped DEF Pair
      <3>3. TransactionBudget(PeerOf[c]) \in Nat
        BY BudgetTyped, CallsAssumption DEF TypeOK
      <3>4. pending'[Pair(c)] = NoCall /\ quarantined'[Pair(c)] = TransactionBudget(PeerOf[c])
            /\ held'[c] = TransactionBudget(PeerOf[c])
        BY <1>1, <2>1, <3>1, <3>2
      <3> QED  BY <3>1, <3>3, <3>4
    <2>2. CASE c \notin over
      <3>1. held'[c] = held[c]
        BY <1>1, <2>2
      <3>2. id[c] # NoId /\ pending[Pair(c)] = NoCall /\ quarantined[Pair(c)] >= held[c]
        BY <1>7, <3>1 DEF CallsInv
      <3>3. Pair(c) \in Pairs
        BY <3>2, PairTyped
      <3>4. quarantined'[Pair(c)] = quarantined[Pair(c)] /\ pending'[Pair(c)] = NoCall
        BY <1>1, <1>9, <3>2, <3>3
      <3> QED  BY <3>1, <3>2, <3>4
    <2> QED  BY <2>1, <2>2
  <1> QED  BY <1>1, <1>4, <1>5, <1>6, <1>7, Removals

LEMMA SocketKeeps ==
  ASSUME TypeOK, CallsInv, SocketFails
  PROVE CallsInv'
  <1>1. /\ pending' = [k \in Pairs |-> NoCall] /\ commands' = <<>> /\ running' = FALSE
        /\ fate' = [c \in Calls |->
             IF ~Waiting(c) THEN fate[c] ELSE IF Pending(c) THEN "io" ELSE "closed"]
        /\ UNCHANGED <<quarantined, id, held>>
    BY DEF SocketFails, entry, history
  <1>2. \A c \in Calls : ~Waiting(c)' /\ (fate'[c] = "new" => fate[c] = "new")
    BY <1>1 DEF Waiting
  <1>3. \A c \in Calls : held[c] > 0 => pending'[Pair(c)] = NoCall
    BY <1>1, PairTyped DEF CallsInv
  <1>4. DOMAIN commands' = {}
    BY <1>1
  <1> QED  BY <1>1, <1>2, <1>3, <1>4 DEF CallsInv, Pair

LEMMA TickKeeps ==
  ASSUME TypeOK, CallsInv, Tick
  PROVE CallsInv'
  <1>1. /\ quarantined' = [k \in Pairs |-> Less(quarantined[k])]
        /\ held' = [c \in Calls |-> Less(held[c])]
        /\ UNCHANGED <<commands, running, pending, id, fate>>
    BY DEF Tick
  <1>2. ASSUME NEW c \in Calls, held'[c] > 0
        PROVE id[c] # NoId /\ pending[Pair(c)] = NoCall /\ quarantined'[Pair(c)] >= held'[c]
    <2>1. held[c] \in Nat /\ held'[c] = Less(held[c])
      BY <1>1 DEF TypeOK
    <2>2. held[c] > 0 /\ held'[c] = held[c] - 1
      BY <1>2, <2>1 DEF Less
    <2>3. id[c] # NoId /\ pending[Pair(c)] = NoCall /\ quarantined[Pair(c)] >= held[c]
      BY <2>2 DEF CallsInv
    <2>4. Pair(c) \in Pairs
      BY <2>3, PairTyped
    <2>5. quarantined[Pair(c)] \in Nat /\ quarantined'[Pair(c)] = Less(quarantined[Pair(c)])
      BY <1>1, <2>4 DEF TypeOK
    <2> QED  BY <2>1, <2>2, <2>3, <2>5 DEF Less
  <1> QED  BY <1>1, <1>2, Removals DEF CallsInv, Waiting, TypeOK

\* The command at the head is the only one for its call, which has no id yet.
LEMMA HeadAlone ==
  ASSUME TypeOK, CallsInv, commands # <<>>, commands' = Tail(commands)
  PROVE /\ Head(commands) \in Calls /\ id[Head(commands)] = NoId /\ fate[Head(commands)] # "new"
        /\ commands' \in Seq(Calls)
        /\ \A i \in DOMAIN commands' :
             /\ commands'[i] \in Calls /\ commands'[i] # Head(commands)
             /\ id[commands'[i]] = NoId /\ fate[commands'[i]] # "new"
        /\ \A i, j \in DOMAIN commands' : commands'[i] = commands'[j] => i = j
        /\ \A c \in Calls : c # Head(commands) => (Queued(c) => Queued(c)')
  <1>1. commands \in Seq(Calls)
    BY DEF TypeOK
  <1>2. /\ commands' \in Seq(Calls) /\ Len(commands') = Len(commands) - 1
        /\ \A i \in 1..Len(commands') : commands'[i] = commands[i + 1]
        /\ Head(commands) \in Calls /\ Head(commands) = commands[1]
    BY <1>1, HeadTailProperties
  <1>3. /\ DOMAIN commands = 1..Len(commands) /\ DOMAIN commands' = 1..Len(commands')
        /\ Len(commands) \in Nat \ {0}
    BY <1>1, <1>2
  <1>4. id[Head(commands)] = NoId /\ fate[Head(commands)] # "new"
    BY <1>2, <1>3 DEF CallsInv
  <1>5. \A i \in DOMAIN commands' :
          i + 1 \in DOMAIN commands /\ 1 \in DOMAIN commands /\ i + 1 # 1
    BY <1>2, <1>3
  <1>6. \A i \in DOMAIN commands' :
          /\ commands'[i] \in Calls /\ commands'[i] # Head(commands)
          /\ id[commands'[i]] = NoId /\ fate[commands'[i]] # "new"
    <2> TAKE i \in DOMAIN commands'
    <2>1. commands'[i] = commands[i + 1] /\ i + 1 \in DOMAIN commands /\ 1 \in DOMAIN commands
          /\ i + 1 # 1
      BY <1>2, <1>3, <1>5
    <2>2. commands[i + 1] # commands[1]
      BY <2>1 DEF CallsInv
    <2> QED  BY <1>1, <1>2, <2>1, <2>2 DEF CallsInv
  <1>7. \A i, j \in DOMAIN commands' : commands'[i] = commands'[j] => i = j
    <2> SUFFICES ASSUME NEW i \in DOMAIN commands', NEW j \in DOMAIN commands',
                        commands'[i] = commands'[j]
                 PROVE i = j
      OBVIOUS
    <2>1. i \in Int /\ j \in Int
      BY <1>3
    <2>2. commands[i + 1] = commands[j + 1]
      BY <1>2, <1>3
    <2>3. i + 1 = j + 1
      BY <1>5, <2>2 DEF CallsInv
    <2> QED  BY <2>1, <2>3
  <1>8. ASSUME NEW c \in Calls, c # Head(commands), Queued(c) PROVE Queued(c)'
    <2>1. PICK i \in DOMAIN commands : commands[i] = c
      BY <1>8 DEF Queued
    <2>2. i # 1 /\ i \in 1..Len(commands)
      BY <1>2, <1>3, <1>8, <2>1
    <2>3. i - 1 \in DOMAIN commands' /\ commands'[i - 1] = commands[(i - 1) + 1]
      BY <1>2, <1>3, <2>2
    <2>4. (i - 1) + 1 = i
      BY <2>2
    <2> QED  BY <2>1, <2>3, <2>4 DEF Queued
  <1> QED  BY <1>2, <1>4, <1>6, <1>7, <1>8

LEMMA TakeKeeps ==
  ASSUME TypeOK, CallsInv, NEW outcome, TakeCommand(outcome)
  PROVE CallsInv'
  <1> DEFINE c == Head(commands)  p == PeerOf[c]
  <1>1. /\ commands # <<>> /\ commands' = Tail(commands)
        /\ running /\ running' = running /\ quarantined' = quarantined /\ held' = held
    BY DEF TakeCommand
  <1>2. /\ c \in Calls /\ id[c] = NoId /\ fate[c] # "new"
        /\ commands' \in Seq(Calls)
        /\ \A i \in DOMAIN commands' :
             /\ commands'[i] \in Calls /\ commands'[i] # c
             /\ id[commands'[i]] = NoId /\ fate[commands'[i]] # "new"
        /\ \A i, j \in DOMAIN commands' : commands'[i] = commands'[j] => i = j
        /\ \A x \in Calls : x # c => (Queued(x) => Queued(x)')
    BY <1>1, HeadAlone
  <1>3. p \in Peers
    BY <1>2, CallsAssumption
  <1>4. /\ Uncancelled \in [Pairs -> Calls \union {NoCall}]
        /\ \A k \in Pairs : Uncancelled[k] # NoCall => Uncancelled[k] = pending[k]
        /\ \A x \in Calls : Waiting(x) /\ id[x] # NoId => Uncancelled[Pair(x)] = x
        /\ \A x \in Calls : held[x] > 0 => Uncancelled[Pair(x)] = NoCall
    <2>1. ASSUME NEW x \in Calls, Waiting(x), id[x] # NoId PROVE Uncancelled[Pair(x)] = x
      <3>1. pending[Pair(x)] = x /\ Pair(x) \in Pairs
        BY <2>1, PairTyped DEF CallsInv
      <3> QED  BY <2>1, <3>1 DEF Uncancelled
    <2>2. ASSUME NEW x \in Calls, held[x] > 0 PROVE Uncancelled[Pair(x)] = NoCall
      <3>1. pending[Pair(x)] = NoCall /\ Pair(x) \in Pairs
        BY <2>2, PairTyped DEF CallsInv
      <3> QED  BY <3>1 DEF Uncancelled
    <2> QED  BY <2>1, <2>2, UncancelledTyped
  <1>5. \/ UNCHANGED <<pending, id, fate>> /\ ~Waiting(c)
        \/ /\ pending' = Uncancelled /\ id' = id
           /\ \E w \in {"toomany", "toolong", "io"} : fate' = [fate EXCEPT ![c] = w]
        \/ /\ fate' = fate
           /\ \E n \in 0..(Ids - 1) :
                /\ Free(Uncancelled, p, IdAfter(n))
                /\ pending' = [Uncancelled EXCEPT ![<<p, IdAfter(n)>>] = c]
                /\ id' = [id EXCEPT ![c] = IdAfter(n)]
    BY DEF TakeCommand, Begin, FirstFree, entry
  <1> HIDE DEF c, p
  <1>6. CASE UNCHANGED <<pending, id, fate>> /\ ~Waiting(c)
    <2>1. \A x \in Calls : Waiting(x) => (id[x] = NoId => Queued(x)')
      BY <1>2, <1>6 DEF CallsInv
    <2> QED  BY <1>1, <1>2, <1>6, <2>1 DEF CallsInv, Pair, Waiting
  <1>7. CASE /\ pending' = Uncancelled /\ id' = id
             /\ \E w \in {"toomany", "toolong", "io"} : fate' = [fate EXCEPT ![c] = w]
    <2>1. \A x \in Calls : /\ fate'[x] = "new" <=> fate[x] = "new"
                           /\ fate'[x] = "asked" => fate[x] = "asked" /\ x # c
      BY <1>2, <1>7 DEF TypeOK
    <2>2. \A k \in Pairs : pending'[k] # NoCall =>
            id'[pending'[k]] # NoId /\ <<PeerOf[pending'[k]], id'[pending'[k]]>> = k
      BY <1>4, <1>7 DEF CallsInv, Pair
    <2>3. \A x \in Calls : Pair(x)' = Pair(x)
      BY <1>7 DEF Pair
    <2>4. \A x \in Calls : Waiting(x)' =>
            running' /\ (id'[x] = NoId => Queued(x)') /\ (id'[x] # NoId => pending'[Pair(x)] = x)
      BY <1>1, <1>2, <1>4, <1>7, <2>1 DEF CallsInv, Waiting
    <2>5. \A x \in Calls : held'[x] > 0 =>
            id'[x] # NoId /\ pending'[Pair(x)] = NoCall /\ quarantined'[Pair(x)] >= held'[x]
      BY <1>1, <1>4, <1>7 DEF CallsInv
    <2>6. /\ \A i \in DOMAIN commands' : id'[commands'[i]] = NoId /\ fate'[commands'[i]] # "new"
          /\ \A x \in Calls : fate'[x] = "new" => id'[x] = NoId
      BY <1>2, <1>7, <2>1 DEF CallsInv
    <2> QED  BY <1>2, <2>2, <2>3, <2>4, <2>5, <2>6 DEF CallsInv, Pair
  <1>8. ASSUME fate' = fate, NEW n \in 0..(Ids - 1),
               Free(Uncancelled, p, IdAfter(n)),
               pending' = [Uncancelled EXCEPT ![<<p, IdAfter(n)>>] = c],
               id' = [id EXCEPT ![c] = IdAfter(n)]
        PROVE CallsInv'
    <2> DEFINE k == <<p, IdAfter(n)>>
    <2>1. IdAfter(n) \in InvokeIds /\ IdAfter(n) # NoId
      <3>1. n \in Nat /\ cursor \in InvokeIds
        BY NumbersAssumption DEF TypeOK
      <3>2. IdAfter(n) \in InvokeIds
        BY <3>1, IdAfterTyped
      <3> QED  BY <3>2, NumbersAssumption DEF InvokeIds, NoId
    <2>2. k \in Pairs /\ Uncancelled[k] = NoCall /\ quarantined[k] = 0
      BY <1>3, <1>8, <2>1 DEF Pairs, Free
    <2>3. /\ \A j \in Pairs : j # k => pending'[j] = Uncancelled[j]
          /\ pending'[k] = c
          /\ id'[c] = IdAfter(n) /\ \A x \in Calls : x # c => id'[x] = id[x]
      BY <1>2, <1>4, <1>8, <2>2 DEF TypeOK
    <2>4. <<PeerOf[c], id'[c]>> = k /\ \A x \in Calls : x # c => Pair(x)' = Pair(x)
      BY <2>3 DEF Pair, p
    <2>5. c # NoCall
      BY <1>2, CallsAssumption
    <2> HIDE DEF k
    <2>6. ASSUME NEW j \in Pairs, pending'[j] # NoCall
          PROVE id'[pending'[j]] # NoId /\ <<PeerOf[pending'[j]], id'[pending'[j]]>> = j
      <3>1. CASE j = k
        BY <2>1, <2>3, <2>4, <3>1
      <3>2. CASE j # k
        <4>1. pending'[j] = pending[j] /\ pending[j] # NoCall /\ pending[j] \in Calls
          BY <1>4, <2>3, <2>6, <3>2 DEF TypeOK
        <4>2. id[pending[j]] # NoId /\ <<PeerOf[pending[j]], id[pending[j]]>> = j
          BY <4>1 DEF CallsInv, Pair
        <4>3. pending[j] # c
          BY <1>2, <4>2
        <4> QED  BY <2>3, <4>1, <4>2, <4>3
      <3> QED  BY <3>1, <3>2
    <2>7. ASSUME NEW x \in Calls, Waiting(x)'
          PROVE running' /\ (id'[x] = NoId => Queued(x)') /\ (id'[x] # NoId => pending'[Pair(x)'] = x)
      <3>1. Waiting(x)
        BY <1>8, <2>7 DEF Waiting
      <3>2. CASE x = c
        BY <1>1, <2>1, <2>3, <2>4, <3>2 DEF Pair
      <3>3. CASE x # c
        <4>1. id[x] = NoId => Queued(x)'
          BY <1>2, <3>1, <3>3 DEF CallsInv
        <4>2. ASSUME id[x] # NoId PROVE pending'[Pair(x)'] = x
          <5>1. Uncancelled[Pair(x)] = x /\ Pair(x) \in Pairs /\ x # NoCall
            BY <1>4, <3>1, <4>2, PairTyped, CallsAssumption
          <5>2. Pair(x) # k
            BY <2>2, <5>1
          <5> QED  BY <2>3, <2>4, <3>3, <5>1, <5>2
        <4> QED  BY <1>1, <2>3, <3>3, <4>1, <4>2
      <3> QED  BY <3>2, <3>3
    <2>8. ASSUME NEW x \in Calls, held'[x] > 0
          PROVE id'[x] # NoId /\ pending'[Pair(x)'] = NoCall /\ quarantined'[Pair(x)'] >= held'[x]
      <3>1. id[x] # NoId /\ quarantined[Pair(x)] >= held[x] /\ held[x] > 0
        BY <1>1, <2>8 DEF CallsInv
      <3>2. x # c /\ Pair(x) \in Pairs
        BY <1>2, <3>1, PairTyped
      <3>3. Pair(x) # k
        BY <2>2, <3>1 DEF TypeOK
      <3>4. pending'[Pair(x)] = NoCall
        BY <1>4, <2>3, <3>1, <3>2, <3>3
      <3> QED  BY <1>1, <2>3, <2>4, <3>1, <3>2, <3>4
    <2>9. /\ \A i \in DOMAIN commands' : id'[commands'[i]] = NoId /\ fate'[commands'[i]] # "new"
          /\ \A x \in Calls : fate'[x] = "new" => id'[x] = NoId
      BY <1>2, <1>8, <2>3 DEF CallsInv
    <2> QED  BY <1>2, <2>6, <2>7, <2>8, <2>9 DEF CallsInv, Pair
  <1> QED  BY <1>5, <1>6, <1>7, <1>8

-----------------------------------------------------------------------------
(* The results *)

LEMMA InitCalls == Init => CallsInv
  <1> SUFFICES ASSUME Init PROVE CallsInv
    OBVIOUS
  <1>1. DOMAIN commands = {}
    BY DEF Init
  <1> QED  BY <1>1 DEF Init, CallsInv, Waiting

LEMMA StepCalls == TypeOK /\ CallsInv /\ [Next]_vars => CallsInv'
  <1> SUFFICES ASSUME TypeOK, CallsInv, [Next]_vars PROVE CallsInv'
    OBVIOUS
  <1>1. CASE HandleOther \/ UNCHANGED vars
    <2>1. UNCHANGED <<commands, running, pending, quarantined, id, fate, held>>
      BY <1>1 DEF HandleOther, vars, entry, history
    <2> QED  BY <2>1 DEF CallsInv, Pair, Queued, Waiting
  <1> QED
    BY <1>1, AskKeeps, DropKeeps, LoopTopKeeps, TakeKeeps, AnswerKeeps, TimeoutsKeep,
       SocketKeeps, TickKeeps DEF Next, HandleCommand, HandleDeadlines

\* The invariant behind the others: commands are queued once, the table is keyed by
\* what its entries say, and what timed out rests as long as it must
\* (Endpoint::handle_confirmed_command, reserve_invoke_id, handle_timeouts).
THEOREM CallsAreHeld == Spec => []CallsInv
  BY InitCalls, StepCalls, TypeCorrect, PTL DEF Spec

\* No caller is ever forgotten: while its future is alive and unresolved, its
\* command is in the queue or its transaction in the table, never both, for any
\* failures of the socket and any cancellations (Endpoint::run).
THEOREM NobodyForgotten == Spec => []WaitersAreHeld
  <1>1. TypeOK /\ CallsInv => WaitersAreHeld
    <2> SUFFICES ASSUME TypeOK, CallsInv, NEW c \in Calls, Waiting(c)
                 PROVE running /\ Queued(c) # Pending(c)
                       /\ \A k \in Pairs : pending[k] = c => k = Pair(c)
      BY DEF WaitersAreHeld
    <2>1. running
      BY DEF CallsInv
    <2>2. Queued(c) => id[c] = NoId
      BY DEF CallsInv, Queued
    <2>3. c # NoCall
      BY CallsAssumption
    <2>4. \A k \in Pairs : pending[k] = c => k = Pair(c)
      BY <2>3 DEF CallsInv
    <2>5. (id[c] = NoId => Queued(c)) /\ (id[c] # NoId => pending[Pair(c)] = c)
      BY DEF CallsInv
    <2>6. Queued(c) \in BOOLEAN /\ Pending(c) \in BOOLEAN
      BY DEF Queued, Pending
    <2> QED  BY <2>1, <2>2, <2>4, <2>5, <2>6 DEF Pending
  <1> QED  BY <1>1, TypeCorrect, CallsAreHeld, PTL

\* While the answer to a request that timed out may still come, its invoke id
\* stands for nothing, for any number of peers, ids and round trips
\* (Endpoint.quarantined).
THEOREM LateAnswersAreDropped == Spec => []LateAnswersMeetNobody
  <1>1. CallsInv => LateAnswersMeetNobody
    BY DEF CallsInv, LateAnswersMeetNobody
  <1> QED  BY <1>1, CallsAreHeld, PTL

\* Nobody who waits is lost, and no id that is held back is anybody's.
THEOREM OneOwner == Spec => []IdsHaveOneOwner
BY NobodyForgotten, LateAnswersAreDropped, PTL DEF IdsHaveOneOwner

-----------------------------------------------------------------------------
(* Cycles of invoke ids *)

LEMMA Division ==
  ASSUME NEW a \in Nat
  PROVE  /\ a = Ids * (a \div Ids) + (a % Ids)
         /\ a \div Ids \in Nat /\ a % Ids \in 0..(Ids - 1)
  BY NumbersAssumption, SMTT(30)

LEMMA RemainderIs ==
  ASSUME NEW q \in Nat, NEW r \in 0..(Ids - 1)
  PROVE  (Ids * q + r) % Ids = r
  BY NumbersAssumption, SMTT(30)

\* A remainder may be taken before a sum or after it.
LEMMA SumRemainder ==
  ASSUME NEW a \in Nat, NEW b \in Nat
  PROVE  ((a % Ids) + b) % Ids = (a + b) % Ids
  <1> DEFINE x == (a % Ids) + b
             p == a \div Ids
             q == x \div Ids
  <1>1. a = Ids * p + (a % Ids) /\ p \in Nat /\ a % Ids \in Nat
    BY Division, NumbersAssumption
  <1>2. x \in Nat /\ x = Ids * q + (x % Ids) /\ q \in Nat /\ x % Ids \in 0..(Ids - 1)
    BY <1>1, Division
  <1>3. a + b = Ids * (p + q) + (x % Ids)
    <2>1. Ids * (p + q) = Ids * p + Ids * q /\ Ids * p \in Nat /\ Ids * q \in Nat
      <3> HIDE DEF p, q
      <3> QED  BY <1>1, <1>2, NumbersAssumption, SMTT(30)
    <2>2. a + b = Ids * p + x
      BY <1>1, <2>1
    <2> HIDE DEF x
    <2> QED  BY <1>1, <1>2, <2>1, <2>2
  <1>4. p + q \in Nat
    BY <1>1, <1>2
  <1>5. (Ids * (p + q) + (x % Ids)) % Ids = x % Ids
    <2> HIDE DEF p, q, x
    <2> QED  BY <1>2, <1>4, RemainderIs
  <1> QED  BY <1>3, <1>5

\* An id comes round after a whole cycle at the earliest.
LEMMA WholeCycle ==
  ASSUME NEW i \in InvokeIds, NEW m \in Nat \ {0}, (i + m) % Ids = i
  PROVE  m >= Ids
  <1> SUFFICES ASSUME m < Ids PROVE FALSE
    BY NumbersAssumption
  <1>1. i \in Nat /\ i < Ids /\ Ids \in Nat /\ m \in Nat
    BY NumbersAssumption DEF InvokeIds
  <1>2. CASE i + m < Ids
    <2>1. (Ids * 0 + (i + m)) % Ids = i + m
      BY <1>1, <1>2, RemainderIs
    <2> QED  BY <1>1, <2>1
  <1>3. CASE i + m >= Ids
    <2>1. i + m - Ids \in 0..(Ids - 1)
      BY <1>1, <1>3
    <2>2. (Ids * 1 + (i + m - Ids)) % Ids = i + m - Ids
      BY <2>1, RemainderIs
    <2>3. Ids * 1 + (i + m - Ids) = i + m
      BY <1>1
    <2> QED  BY <1>1, <2>2, <2>3
  <1> QED  BY <1>1, <1>2, <1>3

\* Steps that take no call into the table.
LEMMA CycleKept ==
  ASSUME TypeOK, CycleInv, UNCHANGED <<cursor, id, passed, answer>>,
         \A k \in Pairs : pending'[k] \in {pending[k], NoCall},
         \A c \in Calls : sends'[c] > 0 => sends[c] > 0 \/ id[c] # NoId
  PROVE  CycleInv'
  <1>1. \A c \in Calls : Pair(c)' = Pair(c)
    BY DEF Pair
  <1>2. \A c \in Calls : id[c] # NoId /\ pending'[Pair(c)] \notin {NoCall, c} => passed[c] = Ids
    BY PairTyped DEF CycleInv
  <1> QED  BY <1>1, <1>2 DEF CycleInv

\* What passing over n ids does to the count of a call that has one.
LEMMA PassingIs ==
  ASSUME TypeOK, CycleInv, NEW c \in Calls, id[c] # NoId, NEW n \in 0..Ids
  PROVE  /\ passed[c] = Ids => Passing(n)[c] = Ids
         /\ Passing(n)[c] < Ids => /\ Passing(n)[c] = passed[c] + n /\ passed[c] < Ids
                                   /\ (cursor + n) % Ids = (id[c] + 1 + Passing(n)[c]) % Ids
  <1>1. passed[c] \in 0..Ids /\ id[c] \in InvokeIds /\ cursor \in InvokeIds /\ Ids \in Nat
    BY NumbersAssumption DEF TypeOK
  <1>2. Passing(n)[c] = Lesser(Ids, passed[c] + n)
    BY DEF Passing
  <1>3. passed[c] = Ids => Passing(n)[c] = Ids
    BY <1>1, <1>2 DEF Lesser
  <1>4. ASSUME Passing(n)[c] < Ids
        PROVE  /\ Passing(n)[c] = passed[c] + n /\ passed[c] < Ids
               /\ (cursor + n) % Ids = (id[c] + 1 + Passing(n)[c]) % Ids
    <2>1. Passing(n)[c] = passed[c] + n /\ passed[c] < Ids
      BY <1>1, <1>2, <1>4 DEF Lesser
    <2>2. cursor = (id[c] + 1 + passed[c]) % Ids
      BY <2>1 DEF CycleInv
    <2>3. id[c] + 1 + passed[c] \in Nat /\ n \in Nat
      BY <1>1 DEF InvokeIds
    <2>4. (cursor + n) % Ids = (id[c] + 1 + passed[c] + n) % Ids
      BY <2>2, <2>3, SumRemainder
    <2>5. id[c] + 1 + passed[c] + n = id[c] + 1 + Passing(n)[c]
      BY <1>1, <2>1 DEF InvokeIds
    <2> QED  BY <2>1, <2>4, <2>5
  <1> QED  BY <1>3, <1>4

\* The search moves the cursor on by the ids it tried and takes the last of them.
LEMMA CycleTaken ==
  ASSUME TypeOK, CallsInv, CycleInv, NEW c \in Calls, id[c] = NoId, NEW n \in 0..(Ids - 1),
         Free(Uncancelled, PeerOf[c], IdAfter(n)),
         cursor' = (cursor + n + 1) % Ids, passed' = Passing(n + 1),
         pending' = [Uncancelled EXCEPT ![<<PeerOf[c], IdAfter(n)>>] = c],
         id' = [id EXCEPT ![c] = IdAfter(n)], sends' = [sends EXCEPT ![c] = 1],
         UNCHANGED answer
  PROVE  CycleInv'
  <1> DEFINE k == <<PeerOf[c], IdAfter(n)>>
  <1>1. n \in Nat /\ n + 1 \in 0..Ids /\ Ids \in Nat \ {0} /\ cursor \in Nat /\ cursor \in InvokeIds
    BY NumbersAssumption DEF TypeOK, InvokeIds
  <1>2. IdAfter(n) \in InvokeIds /\ IdAfter(n) # NoId
    BY <1>1, IdAfterTyped, NumbersAssumption DEF InvokeIds, NoId
  <1>3. /\ id'[c] = IdAfter(n) /\ \A x \in Calls : x # c => id'[x] = id[x]
        /\ sends' \in [Calls -> 0..1] /\ \A x \in Calls : x # c => sends'[x] = sends[x]
    BY DEF TypeOK
  <1>4. k \in Pairs /\ pending'[k] = c
        /\ \A j \in Pairs : j # k => pending'[j] = Uncancelled[j]
    BY <1>2, CallsAssumption, UncancelledTyped DEF Pairs
  <1>5. passed'[c] = 0
    BY DEF Passing
  <1>6. cursor' = (id'[c] + 1 + passed'[c]) % Ids
    <2>1. (((cursor + n) % Ids) + 1) % Ids = (cursor + n + 1) % Ids
      <3>1. cursor + n \in Nat /\ 1 \in Nat
        BY <1>1
      <3> QED  BY <3>1, SumRemainder
    <2>2. id'[c] + 1 + passed'[c] = IdAfter(n) + 1
      BY <1>2, <1>3, <1>5 DEF InvokeIds
    <2>3. IdAfter(n) = (cursor + n) % Ids
      BY DEF IdAfter
    <2> QED  BY <2>1, <2>2, <2>3
  <1>7. ASSUME NEW x \in Calls, x # c, id[x] # NoId
        PROVE  /\ passed[x] = Ids => passed'[x] = Ids
               /\ passed'[x] < Ids => cursor' = (id[x] + 1 + passed'[x]) % Ids
    <2>1. cursor + n + 1 = cursor + (n + 1)
      BY <1>1
    <2> QED  BY <1>1, <1>7, <2>1, PassingIs
  \* Whoever had the id before has seen a whole cycle pass.
  <1>8. ASSUME NEW x \in Calls, x # c, id[x] # NoId, Pair(x) = k
        PROVE  passed'[x] = Ids
    <2>1. id[x] = IdAfter(n) /\ id[x] \in InvokeIds
      BY <1>2, <1>8 DEF Pair
    <2>2. passed'[x] \in 0..Ids
      BY <1>1, <1>8 DEF Passing, Lesser, TypeOK
    <2>3. ASSUME passed'[x] < Ids
          PROVE  FALSE
      <3>1. passed'[x] = passed[x] + (n + 1) /\ passed[x] < Ids
        BY <1>1, <1>8, <2>3, PassingIs
      <3>2. passed[x] \in Nat
        BY DEF TypeOK
      <3>3. cursor = (id[x] + 1 + passed[x]) % Ids
        BY <1>8, <3>1 DEF CycleInv
      <3>4. id[x] + 1 + passed[x] \in Nat
        BY <2>1, <3>2 DEF InvokeIds
      <3>5. (cursor + n) % Ids = (id[x] + 1 + passed[x] + n) % Ids
        BY <1>1, <3>3, <3>4, SumRemainder
      <3>6. id[x] + 1 + passed[x] + n = id[x] + passed'[x] /\ passed'[x] \in Nat \ {0}
        BY <1>1, <2>1, <3>1, <3>2 DEF InvokeIds
      <3>7. (id[x] + passed'[x]) % Ids = id[x]
        <4>1. id[x] = (cursor + n) % Ids
          BY <2>1 DEF IdAfter
        <4> QED  BY <3>5, <3>6, <4>1
      <3>8. passed'[x] >= Ids
        <4> DEFINE m == passed'[x]
        <4>1. m \in Nat \ {0} /\ (id[x] + m) % Ids = id[x]
          BY <3>6, <3>7
        <4> HIDE DEF m
        <4>2. m >= Ids
          BY <2>1, <4>1, WholeCycle
        <4> QED  BY <4>2 DEF m
      <3> QED  BY <2>2, <2>3, <3>8, NumbersAssumption
    <2> QED  BY <1>1, <2>2, <2>3
  <1>9. ASSUME NEW x \in Calls, id'[x] # NoId, pending'[<<PeerOf[x], id'[x]>>] \notin {NoCall, x}
        PROVE  passed'[x] = Ids
    <2>1. x # c
      BY <1>3, <1>4, <1>9
    <2>2. id[x] # NoId /\ <<PeerOf[x], id'[x]>> = Pair(x) /\ Pair(x) \in Pairs
      BY <1>3, <1>9, <2>1, PairTyped DEF Pair
    <2>3. CASE Pair(x) = k
      BY <1>8, <2>1, <2>2, <2>3
    <2>4. CASE Pair(x) # k
      <3>1. Uncancelled[Pair(x)] \notin {NoCall, x}
        BY <1>4, <1>9, <2>2, <2>4
      <3>2. pending[Pair(x)] \notin {NoCall, x}
        BY <2>2, <3>1, UncancelledTyped
      <3>3. passed[x] = Ids
        BY <2>2, <3>2 DEF CycleInv
      <3> QED  BY <1>7, <2>1, <2>2, <3>3
    <2> QED  BY <2>3, <2>4
  <1>10. \A x \in Calls : sends'[x] > 0 => id'[x] # NoId
    BY <1>2, <1>3 DEF CycleInv
  <1>11. \A x \in Calls : id'[x] # NoId /\ passed'[x] < Ids =>
           cursor' = (id'[x] + 1 + passed'[x]) % Ids
    BY <1>3, <1>6, <1>7
  <1>12. ASSUME NEW x \in Calls, answer[x] \notin {NoCall, x}
         PROVE  /\ PeerOf[answer[x]] = PeerOf[x]
                /\ id'[answer[x]] # NoId /\ passed'[answer[x]] = Ids
    <2>1. /\ PeerOf[answer[x]] = PeerOf[x] /\ id[answer[x]] # NoId /\ passed[answer[x]] = Ids
          /\ answer[x] \in Calls
      BY <1>12 DEF CycleInv, TypeOK
    <2>2. answer[x] # c
      BY <2>1
    <2> QED  BY <1>3, <1>7, <2>1, <2>2
  <1> QED  BY <1>9, <1>10, <1>11, <1>12 DEF CycleInv, Pair

\* A search that takes no id, for want of one or of a frame.
LEMMA CyclePassed ==
  ASSUME TypeOK, CycleInv, NEW n \in 0..Ids,
         cursor' = (cursor + n) % Ids, passed' = Passing(n), pending' = Uncancelled,
         UNCHANGED <<id, sends, answer>>
  PROVE  CycleInv'
  <1>1. \A x \in Calls : id[x] # NoId =>
          /\ passed[x] = Ids => passed'[x] = Ids
          /\ passed'[x] < Ids => cursor' = (id[x] + 1 + passed'[x]) % Ids
    BY PassingIs
  <1>2. \A x \in Calls : Pair(x)' = Pair(x)
    BY DEF Pair
  <1>3. \A x \in Calls : id[x] # NoId /\ pending'[Pair(x)] \notin {NoCall, x} => passed'[x] = Ids
    BY <1>1, PairTyped, UncancelledTyped DEF CycleInv
  <1>4. \A x \in Calls : answer[x] \notin {NoCall, x} =>
          /\ PeerOf[answer[x]] = PeerOf[x]
          /\ id[answer[x]] # NoId /\ passed'[answer[x]] = Ids
    BY <1>1 DEF CycleInv, TypeOK
  <1> QED  BY <1>1, <1>2, <1>3, <1>4 DEF CycleInv

LEMMA CycleStep == TypeOK /\ CallsInv /\ CycleInv /\ [Next]_vars => CycleInv'
  <1> SUFFICES ASSUME TypeOK, CallsInv, CycleInv, [Next]_vars PROVE CycleInv'
    OBVIOUS
  <1>1. ASSUME NEW outcome, TakeCommand(outcome) PROVE CycleInv'
    <2> DEFINE c == Head(commands)  p == PeerOf[c]
    <2>1. UNCHANGED answer /\ commands # <<>> /\ commands' = Tail(commands)
      BY <1>1 DEF TakeCommand
    <2>2. c \in Calls /\ id[c] = NoId
      BY <2>1, HeadAlone
    <2>3. CASE UNCHANGED <<pending, cursor, entry, fate, sends, passed>>
      BY <2>1, <2>3, CycleKept DEF entry
    <2>4. CASE Begin(c, outcome)
      <3>1. cursor \in InvokeIds /\ Ids \in Nat \ {0}
        BY NumbersAssumption DEF TypeOK
      <3>2. CASE /\ pending' = Uncancelled /\ passed' = Passing(Ids)
                 /\ UNCHANGED <<cursor, entry, sends>>
        <4>1. cursor \in 0..(Ids - 1)
          BY <3>1 DEF InvokeIds
        <4>2. (Ids * 1 + cursor) % Ids = cursor
          BY <4>1, RemainderIs
        <4>3. Ids * 1 + cursor = cursor + Ids
          BY <3>1, <4>1
        <4>4. cursor' = (cursor + Ids) % Ids /\ Ids \in 0..Ids
          BY <3>1, <3>2, <4>2, <4>3
        <4> QED  BY <2>1, <3>2, <4>4, CyclePassed DEF entry
      <3>3. ASSUME NEW n \in 0..(Ids - 1), FirstFree(Uncancelled, p, n),
                   cursor' = (cursor + n + 1) % Ids, passed' = Passing(n + 1),
                   \/ pending' = Uncancelled /\ UNCHANGED <<entry, sends>>
                   \/ /\ pending' = [Uncancelled EXCEPT ![<<p, IdAfter(n)>>] = c]
                      /\ id' = [id EXCEPT ![c] = IdAfter(n)]
                      /\ sends' = [sends EXCEPT ![c] = 1]
            PROVE  CycleInv'
        <4>1. n + 1 \in 0..Ids /\ cursor + n + 1 = cursor + (n + 1)
          BY <3>1 DEF InvokeIds
        <4>2. CASE pending' = Uncancelled /\ UNCHANGED <<entry, sends>>
          BY <2>1, <3>3, <4>1, <4>2, CyclePassed DEF entry
        <4>3. CASE /\ pending' = [Uncancelled EXCEPT ![<<p, IdAfter(n)>>] = c]
                   /\ id' = [id EXCEPT ![c] = IdAfter(n)]
                   /\ sends' = [sends EXCEPT ![c] = 1]
          BY <2>1, <2>2, <3>3, <4>3, CycleTaken DEF FirstFree
        <4> QED  BY <3>3, <4>2, <4>3
      <3> QED  BY <2>4, <3>2, <3>3 DEF Begin
    <2> QED  BY <1>1, <2>3, <2>4 DEF TakeCommand
  <1>2. ASSUME NEW o \in Calls, NEW named, HandleAnswer(o, named) PROVE CycleInv'
    <2> DEFINE d == pending[Pair(o)]
    <2>1. /\ sends[o] > 0 /\ d # NoCall
          /\ pending' = [pending EXCEPT ![Pair(o)] = NoCall]
          /\ answer' = [answer EXCEPT ![d] = IF Waiting(d) THEN o ELSE @]
          /\ UNCHANGED <<cursor, id, sends, passed>>
      BY <1>2 DEF HandleAnswer, entry
    <2>2. id[o] # NoId /\ Pair(o) \in Pairs
      BY <2>1, PairTyped DEF CycleInv
    <2>3. d \in Calls /\ PeerOf[d] = PeerOf[o]
      BY <2>1, <2>2 DEF CallsInv, Pair, TypeOK
    <2>4. o # d => passed[o] = Ids
      BY <2>1, <2>2 DEF CycleInv
    <2>5. \A x \in Calls : answer'[x] = answer[x] \/ (x = d /\ answer'[x] = o)
      BY <2>1 DEF TypeOK
    <2>6. \A x \in Calls : answer'[x] \notin {NoCall, x} =>
            /\ PeerOf[answer'[x]] = PeerOf[x]
            /\ id[answer'[x]] # NoId /\ passed[answer'[x]] = Ids
      BY <2>2, <2>3, <2>4, <2>5 DEF CycleInv
    <2>7. \A x \in Calls : id[x] # NoId /\ pending'[Pair(x)] \notin {NoCall, x} => passed[x] = Ids
      BY <2>1, PairTyped DEF CycleInv, TypeOK
    <2>8. \A x \in Calls : Pair(x)' = Pair(x)
      BY <2>1 DEF Pair
    <2> QED  BY <2>1, <2>6, <2>7, <2>8 DEF CycleInv
  <1>3. ASSUME NEW refused, HandleTimeouts(refused) PROVE CycleInv'
    <2>1. UNCHANGED <<cursor, id, passed, answer>>
      BY <1>3 DEF HandleTimeouts
    <2>2. \A k \in Pairs : pending'[k] \in {pending[k], NoCall}
      BY <1>3 DEF HandleTimeouts
    <2>3. \A c \in Calls : sends'[c] > 0 => sends[c] > 0 \/ id[c] # NoId
      BY <1>3 DEF HandleTimeouts, Due, Pending
    <2> QED  BY <2>1, <2>2, <2>3, CycleKept
  <1>4. CASE LoopTop
    <2>1. UNCHANGED <<cursor, id, passed, answer, sends>> /\ pending' = Uncancelled
      BY <1>4 DEF LoopTop, entry, history
    <2>2. \A k \in Pairs : pending'[k] \in {pending[k], NoCall}
      BY <2>1, UncancelledTyped
    <2> QED  BY <2>1, <2>2, CycleKept
  <1>5. CASE SocketFails
    <2>1. UNCHANGED <<cursor, id, passed, answer, sends>> /\ \A k \in Pairs : pending'[k] = NoCall
      BY <1>5 DEF SocketFails, entry, history
    <2> QED  BY <2>1, CycleKept
  <1>6. CASE UNCHANGED <<cursor, id, passed, answer, sends, pending>>
    BY <1>6, CycleKept
  <1> QED
    BY <1>1, <1>2, <1>3, <1>4, <1>5, <1>6
       DEF Next, HandleCommand, HandleDeadlines, Ask, DropCall, HandleOther, Tick, vars, entry,
           history

LEMMA CycleInit == Init => CycleInv
  BY DEF Init, CycleInv

\* The rotation of invoke ids does what it is for, whatever is cancelled, timed out
\* or refused in between: a caller can be given the answer to another request only
\* if that went to the same peer and every other id was tried since
\* (Endpoint::reserve_invoke_id).
THEOREM CrossedAfterCycle == Spec => []CrossedOnlyAfterCycle
  <1>1. CycleInv => CrossedOnlyAfterCycle
    BY DEF CycleInv, CrossedOnlyAfterCycle
  <1> QED  BY <1>1, CycleInit, CycleStep, TypeCorrect, CallsAreHeld, PTL DEF Spec

=============================================================================
