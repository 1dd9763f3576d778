----------------------- MODULE SyntheticAdapterProofs -----------------------
(***************************************************************************)
(* Proofs about SyntheticAdapter for all texts of its parameters: what a   *)
(* feed holds and where it ends.  That it ends is liveness and stays with  *)
(* the run.                                                                *)
(***************************************************************************)
EXTENDS SyntheticAdapter, TLAPS

\* The n-th event is the one that next_ = n - 1 gives.
Numbered ==
  /\ DOMAIN log = 1..Len(log) /\ Len(log) \in Nat
  /\ \A n \in 1..Len(log) : /\ log[n].id = n /\ log[n].ts = n
                            /\ instruments > 0 => log[n].instrument \in Table

Events == [ts : Nat, id : Nat, price : Nat, qty : Nat, instrument : Int, side : Int,
           action : {"add"}]

\* Where next_ has got to, and what the last answer says of it.
Placed ==
  /\ next = Len(log) + IF answer = "Crash" THEN 1 ELSE 0
  /\ state # "made" => next = 0 /\ answer = "Again"
  /\ state = "made" => Accepted
  /\ state = "made" /\ fail_after > 0 => next <= fail_after
  /\ state = "made" /\ ~endless => next <= IF count > 0 THEN count ELSE 0
  /\ answer = "Error" => Failing
  /\ answer = "End" => ~Failing /\ Ended

IInv == TypeOK /\ log \in Seq(Events) /\ Numbered /\ Placed

-----------------------------------------------------------------------------
\* The parameters of an adapter that was made are numbers.
LEMMA Parameters ==
  ASSUME Accepted
  PROVE  count \in Int /\ instruments \in Int /\ again_every \in Int /\ fail_after \in Int
<1>1. \A k \in {"instruments", "again_every", "fail_after"} :
        \A fallback \in Int : GetInt(k, fallback) \in Int
  BY TextsAssumption DEF Accepted, IsInt, GetInt
<1>2. count \in Int
  BY TextsAssumption DEF Accepted, IsInt, GetInt, count
<1>3. instruments \in Int /\ again_every \in Int /\ fail_after \in Int
  BY <1>1 DEF instruments, again_every, fail_after
<1>4. QED
  BY <1>2, <1>3

\* The remainder of a division by a positive number, and one, is an id of the table.
LEMMA InTable ==
  ASSUME NEW i \in Nat, instruments \in Int, instruments > 0
  PROVE  InstrumentOf(i) \in Table
BY DEF InstrumentOf, Table

LEMMA InitInductive == Init => IInv
<1> SUFFICES ASSUME Init PROVE IInv
  OBVIOUS
<1>1. log = <<>> /\ Len(log) = 0 /\ state = "none" /\ answer = "Again" /\ next = 0 /\ calls = 0
  BY DEF Init
<1>2. QED
  BY <1>1 DEF IInv, TypeOK, Numbered, Placed

\* What the parameters decide does not change while they do not.
LEMMA Fixed ==
  ASSUME params' = params
  PROVE  UNCHANGED <<count, instruments, endless, again_every, fail_after, Accepted, Table>>
BY DEF count, instruments, endless, again_every, fail_after, GetInt, GetBool, Accepted,
       IsInt, IsBool, Table

\* The adapter is made, or is not; there are no events yet.
LEMMA AdapterInitInductive == ASSUME IInv, AdapterInit PROVE IInv'
<1>1. /\ UNCHANGED <<params, next, calls, answer, log>>
      /\ state = "none" /\ state' \in {"made", "failed"} /\ (state' = "made" => Accepted)
  BY DEF AdapterInit
<1>2. next = 0 /\ answer = "Again"
  BY <1>1 DEF IInv, Placed
<1>3. UNCHANGED <<count, instruments, endless, again_every, fail_after, Accepted, Table>>
  BY <1>1, Fixed
<1>4. state' = "made" => /\ params["count"] \in DOMAIN Number
                         /\ \A k \in Keys \ {"endless"} : params[k] \in DOMAIN Number \cup {Absent}
  BY <1>1 DEF Accepted, IsInt, Keys
<1>5. TypeOK'
  BY <1>1, <1>4 DEF IInv, TypeOK
<1>6. Numbered' /\ log' \in Seq(Events)
  BY <1>1, <1>3 DEF IInv, Numbered
<1>7. Placed'
  BY <1>1, <1>2, <1>3, Parameters DEF IInv, Placed
<1>8. QED
  BY <1>5, <1>6, <1>7 DEF IInv

\* An answer that is no event leaves the events as they are.
LEMMA NoEventInductive ==
  ASSUME IInv, NextError \/ NextEnd \/ NextAgain
  PROVE  IInv'
<1>1. /\ UNCHANGED <<params, state, next, log>>
      /\ state = "made" /\ answer # "Crash" /\ answer' \in {"Error", "End", "Again"}
  BY DEF NextError, NextEnd, NextAgain, Answers
<1>2. calls' \in Nat
  BY DEF NextError, NextEnd, NextAgain, Calls, IInv, TypeOK
<1>3. UNCHANGED <<count, instruments, endless, again_every, fail_after, Accepted, Table>>
  BY <1>1, Fixed
<1>4. UNCHANGED <<Failing, Ended>>
  BY <1>1, <1>3 DEF Failing, Ended
<1>5. (answer' = "Error" => Failing) /\ (answer' = "End" => ~Failing /\ Ended)
  BY DEF NextError, NextEnd, NextAgain, Answers
<1>6. TypeOK'
  BY <1>1, <1>2 DEF IInv, TypeOK
<1>7. Numbered' /\ log' \in Seq(Events)
  BY <1>1, <1>3 DEF IInv, Numbered
<1>8. Placed'
  BY <1>1, <1>3, <1>4, <1>5 DEF IInv, Placed
<1>9. QED
  BY <1>6, <1>7, <1>8 DEF IInv

\* A call that uses next_ up comes neither after the last event nor at the failure.
LEMMA NextAdvances ==
  ASSUME IInv, state = "made", ~Failing, ~Ended
  PROVE  /\ fail_after > 0 => next + 1 <= fail_after
         /\ ~endless => next + 1 <= count /\ count > 0
<1>1. next \in Nat /\ count \in Int /\ fail_after \in Int
  BY Parameters DEF IInv, Placed, TypeOK
<1>2. QED
  BY <1>1 DEF Failing, Ended

\* The event has the next number.
LEMMA NextEventInductive == ASSUME IInv, NextEvent PROVE IInv'
<1>1. /\ UNCHANGED <<params, state>> /\ next' = next + 1 /\ answer' = "Event"
      /\ state = "made" /\ answer # "Crash" /\ ~Failing /\ ~Ended
  BY DEF NextEvent, Answers
<1>2. calls' \in Nat /\ next' \in Nat /\ next \in Nat
  BY <1>1 DEF NextEvent, Calls, IInv, TypeOK
<1>3. UNCHANGED <<count, instruments, endless, again_every, fail_after, Accepted, Table>>
  BY <1>1, Fixed
<1>4. /\ count \in Int /\ instruments \in Int /\ fail_after \in Int
  BY <1>1, Parameters DEF IInv, Placed
<1>5. PICK i \in Int : log' = Append(log, Event(i)) /\ (instruments > 0 => i \in Table)
  <2>1. CASE instruments = 0
    BY <2>1, <1>2 DEF NextEvent
  <2>2. CASE instruments # 0
    <3>1. log' = Append(log, Event(InstrumentOf(next)))
      BY <2>2 DEF NextEvent
    <3>2. InstrumentOf(next) \in Int
      BY <2>2, <1>2, <1>4 DEF InstrumentOf
    <3>3. instruments > 0 => InstrumentOf(next) \in Table
      BY <1>2, <1>4, InTable
    <3>4. QED
      BY <3>1, <3>2, <3>3
  <2>3. QED
    BY <2>1, <2>2
<1>6. Event(i) \in Events /\ Event(i).id = next + 1 /\ Event(i).ts = next + 1
      /\ Event(i).instrument = i
  <2>1. next + 1 \in Nat /\ 1000 + next \in Nat /\ 1 \in Nat /\ next % 2 \in Int
    BY <1>2
  <2>2. Event(i) \in Events
    BY <2>1 DEF Event, Events
  <2>3. QED
    BY <2>2 DEF Event
<1>7. log \in Seq(Events) /\ Len(log) = next
  BY <1>1, <1>2 DEF IInv, Placed
<1>8. /\ log' \in Seq(Events) /\ Len(log') = next + 1
      /\ \A n \in 1..next : log'[n] = log[n]
      /\ log'[next + 1] = Event(i)
  BY <1>5, <1>6, <1>7
<1>9. Numbered'
  <2>1. DOMAIN log' = 1..Len(log') /\ Len(log') \in Nat
    BY <1>8
  <2>2. ASSUME NEW n \in 1..next + 1
        PROVE  log'[n].id = n /\ log'[n].ts = n /\ (instruments > 0 => log'[n].instrument \in Table)
    <3>1. CASE n \in 1..next
      BY <3>1, <1>7, <1>8 DEF IInv, Numbered
    <3>2. CASE n = next + 1
      BY <3>2, <1>5, <1>6, <1>8
    <3>3. QED
      BY <3>1, <3>2, <1>2
  <2>3. QED
    BY <2>1, <2>2, <1>3, <1>8 DEF Numbered
<1>10. TypeOK'
  BY <1>1, <1>2 DEF IInv, TypeOK
<1>11. Placed'
  <2>1. /\ fail_after > 0 => next + 1 <= fail_after
        /\ ~endless => next + 1 <= count /\ count > 0
    BY <1>1, NextAdvances
  <2>2. QED
    BY <2>1, <1>1, <1>2, <1>3, <1>4, <1>8 DEF IInv, Placed
<1>12. QED
  BY <1>8, <1>9, <1>10, <1>11 DEF IInv

\* The process ends between next_++ and the return of the event.
LEMMA CrashInductive == ASSUME IInv, NextDividesByZero PROVE IInv'
<1>1. /\ UNCHANGED <<params, state, log>> /\ next' = next + 1 /\ answer' = "Crash"
      /\ state = "made" /\ answer # "Crash" /\ ~Failing /\ ~Ended
  BY DEF NextDividesByZero, Answers
<1>2. calls' \in Nat /\ next' \in Nat /\ next \in Nat
  BY <1>1 DEF NextDividesByZero, Calls, IInv, TypeOK
<1>3. UNCHANGED <<count, instruments, endless, again_every, fail_after, Accepted, Table>>
  BY <1>1, Fixed
<1>4. TypeOK'
  BY <1>1, <1>2 DEF IInv, TypeOK
<1>5. Numbered' /\ log' \in Seq(Events)
  BY <1>1, <1>3 DEF IInv, Numbered
<1>6. Placed'
  <2>1. /\ fail_after > 0 => next + 1 <= fail_after
        /\ ~endless => next + 1 <= count /\ count > 0
    BY <1>1, NextAdvances
  <2>2. QED
    BY <2>1, <1>1, <1>2, <1>3 DEF IInv, Placed
<1>7. QED
  BY <1>4, <1>5, <1>6 DEF IInv

-----------------------------------------------------------------------------
\* Whatever the parameters, next_ counts the events returned and stops in time.
THEOREM Inductive == Spec => []IInv
<1>1. Init => IInv
  BY InitInductive
<1>2. IInv /\ [Next]_vars => IInv'
  <2> SUFFICES ASSUME IInv, [Next]_vars PROVE IInv'
    OBVIOUS
  <2>1. CASE AdapterInit
    BY <2>1, AdapterInitInductive
  <2>2. CASE NextError \/ NextEnd \/ NextAgain
    BY <2>2, NoEventInductive
  <2>3. CASE NextEvent
    BY <2>3, NextEventInductive
  <2>4. CASE NextDividesByZero
    BY <2>4, CrashInductive
  <2>5. CASE UNCHANGED vars
    <3>1. UNCHANGED <<params, state, next, calls, answer, log>>
      BY <2>5 DEF vars
    <3>2. UNCHANGED <<count, instruments, endless, again_every, fail_after, Accepted, Table>>
      BY <3>1, Fixed
    <3>3. UNCHANGED <<Failing, Ended>>
      BY <3>1, <3>2 DEF Failing, Ended
    <3>4. TypeOK' /\ Numbered' /\ log' \in Seq(Events)
      BY <3>1, <3>2 DEF IInv, TypeOK, Numbered
    <3>5. Placed'
      BY <3>1, <3>2, <3>3 DEF IInv, Placed
    <3>6. QED
      BY <3>4, <3>5 DEF IInv
  <2>6. QED
    BY <2>1, <2>2, <2>3, <2>4, <2>5 DEF Next
<1>3. QED
  BY <1>1, <1>2, PTL DEF Spec

\* An adapter that was made has read its parameters.
THEOREM TypeCorrect == Spec => []TypeOK
<1>1. IInv => TypeOK
  BY DEF IInv
<1>2. QED
  BY <1>1, Inductive, PTL

\* The events of every feed are numbered without a gap, their timestamps rise, and the
\* adapter can describe their instruments.
THEOREM WellFormed == Spec => []FeedWellFormed
<1>1. IInv => FeedWellFormed
  <2> SUFFICES ASSUME IInv, NEW n \in DOMAIN log
               PROVE  /\ log[n].id = n
                      /\ n > 1 => log[n].ts > log[n - 1].ts
                      /\ instruments > 0 => Described(log[n].instrument)
    BY DEF FeedWellFormed
  <2>1. n \in 1..Len(log) /\ Len(log) \in Nat
    BY DEF IInv, Numbered
  <2>2. n > 1 => n - 1 \in 1..Len(log)
    BY <2>1
  <2>3. QED
    BY <2>1, <2>2 DEF IInv, Numbered, Described
<1>2. QED
  BY <1>1, Inductive, PTL

\* A feed that ends has as many events as asked for, one that fails fail_after.
THEOREM EndsInPlace == Spec => []EndsAsAsked
<1>1. IInv => EndsAsAsked
  <2> SUFFICES ASSUME IInv PROVE EndsAsAsked
    OBVIOUS
  <2>1. CASE answer = "End"
    <3>1. state = "made" /\ ~Failing /\ Ended /\ Len(log) = next /\ next \in Nat
      BY <2>1 DEF IInv, Placed, TypeOK, Numbered
    <3>2. count \in Int /\ fail_after \in Int
      BY <3>1, Parameters DEF IInv, Placed
    <3>3. QED
      BY <2>1, <3>1, <3>2 DEF EndsAsAsked, Failing, Ended, IInv, Placed
  <2>2. CASE answer = "Error"
    <3>1. state = "made" /\ Failing /\ Len(log) = next /\ next \in Nat
      BY <2>2 DEF IInv, Placed, TypeOK, Numbered
    <3>2. count \in Int /\ fail_after \in Int
      BY <3>1, Parameters DEF IInv, Placed
    <3>3. QED
      BY <2>2, <3>1, <3>2 DEF EndsAsAsked, Failing, IInv, Placed
  <2>3. QED
    BY <2>1, <2>2 DEF EndsAsAsked
<1>2. QED
  BY <1>1, Inductive, PTL

\* However often Next is called after the end, or after the failure, it answers the same.
THEOREM Final == Spec => StaysOver
<1>1. IInv /\ [Next]_vars => [Over => answer' = answer /\ UNCHANGED log]_vars
  <2> SUFFICES ASSUME IInv, Next, Over PROVE answer' = answer /\ UNCHANGED log
    OBVIOUS
  <2>1. state = "made" /\ answer \in {"End", "Error"}
    BY DEF Over, IInv, Placed
  <2>2. (answer = "Error" => Failing) /\ (answer = "End" => ~Failing /\ Ended)
    BY DEF IInv, Placed
  <2>3. CASE answer = "Error"
    BY <2>1, <2>2, <2>3 DEF Next, AdapterInit, NextError, NextEnd, NextAgain, NextEvent,
       NextDividesByZero, Answers
  <2>4. CASE answer = "End"
    BY <2>1, <2>2, <2>4 DEF Next, AdapterInit, NextError, NextEnd, NextAgain, NextEvent,
       NextDividesByZero, Answers
  <2>5. QED
    BY <2>1, <2>3, <2>4
<1>2. QED
  BY <1>1, Inductive, PTL DEF Spec, StaysOver
=============================================================================
