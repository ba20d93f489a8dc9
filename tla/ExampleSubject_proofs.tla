------------------------- MODULE ExampleSubject_proofs -------------------------
(***************************************************************************)
(* What holds of a subject of the example contract for every set of values *)
(* and every initial state, over any sequence of events.                   *)
(***************************************************************************)
EXTENDS ExampleSubject, TLAPS

\* A callback between two statements.
At(progress, state, success, error) ==
  [status |-> progress, result |-> [state |-> state, success |-> success, error |-> error]]

\* Before the first verdict, with the state as far as it is written; accepted; and
\* rejected.
Begun(state) == At("running", state, FALSE, "")
Granted(state) == At("running", state, TRUE, "")
Denied(progress, state, text) == At(progress, state, FALSE, text)

\* new leaves a callback before its first statement (ContractResult::new).
LEMMA StartsAt ==
  ASSUME NEW state
  PROVE  [status |-> "running", result |-> Contract!new(state)] = Begun(state)
BY DEF Begun, At, Contract!new

-----------------------------------------------------------------------------
(***************************************************************************)
(* A callback of one, two or three statements.                             *)
(***************************************************************************)

\* run is a callback after each of its n statements.
Unrolled(script, is_owner, from, n, run) ==
  run = [i \in 0..n |-> IF i = 0 THEN from
                        ELSE Contract!statement(is_owner, run[i - 1], script[i])]

LEMMA ShortCallbackExists ==
  ASSUME NEW script, NEW is_owner, NEW from, NEW n \in 1..3
  PROVE  \E run : Unrolled(script, is_owner, from, n, run)
<1>1. PICK s1 : s1 = Contract!statement(is_owner, from, script[1])
  OBVIOUS
<1>2. PICK s2 : s2 = Contract!statement(is_owner, s1, script[2])
  OBVIOUS
<1>3. PICK s3 : s3 = Contract!statement(is_owner, s2, script[3])
  OBVIOUS
<1>4. PICK made : made = [i \in 0..n |-> IF i = 0 THEN from ELSE IF i = 1 THEN s1
                                         ELSE IF i = 2 THEN s2 ELSE s3]
  OBVIOUS
<1>5. ASSUME NEW i \in 0..n
      PROVE  made[i] = IF i = 0 THEN from ELSE Contract!statement(is_owner, made[i - 1], script[i])
  <2>1. CASE i = 0
    BY <1>4, <2>1
  <2>2. CASE i = 1
    <3>1. made[i] = s1 /\ made[i - 1] = from
      BY <1>4, <2>2
    <3> QED
      BY <1>1, <2>2, <3>1
  <2>3. CASE i = 2
    <3>1. made[i] = s2 /\ made[i - 1] = s1
      BY <1>4, <2>3
    <3> QED
      BY <1>2, <2>3, <3>1
  <2>4. CASE i = 3
    <3>1. made[i] = s3 /\ made[i - 1] = s2
      BY <1>4, <2>4
    <3> QED
      BY <1>3, <2>4, <3>1
  <2> QED
    BY <2>1, <2>2, <2>3, <2>4
<1>6. made = [i \in 0..n |-> made[i]]
  BY <1>4
<1>7. Unrolled(script, is_owner, from, n, made)
  BY <1>5, <1>6 DEF Unrolled
<1> QED
  BY <1>7

LEMMA ShortCallback ==
  ASSUME NEW script, NEW is_owner, NEW state, NEW n \in 1..3, Len(script) = n
  PROVE  \E run : /\ Unrolled(script, is_owner, Begun(state), n, run)
                  /\ Contract!callback(script, is_owner, Contract!new(state)) = run[n]
<1>1. PICK from : from = Begun(state)
  OBVIOUS
<1>2. Contract!callback(script, is_owner, Contract!new(state)) =
        (CHOOSE run : Unrolled(script, is_owner, from, n, run))[n]
  BY <1>1, StartsAt, Zenon DEF Contract!callback, Unrolled
<1>3. Unrolled(script, is_owner, from, n, CHOOSE run : Unrolled(script, is_owner, from, n, run))
  BY ShortCallbackExists, Zenon
<1> QED
  BY <1>1, <1>2, <1>3, Zenon

\* Each statement starts where the one before it ended.
LEMMA UnrolledSteps ==
  ASSUME NEW script, NEW is_owner, NEW from, NEW n \in 1..3, NEW run,
         Unrolled(script, is_owner, from, n, run)
  PROVE  /\ run[0] = from
         /\ \A i \in 1..n : run[i] = Contract!statement(is_owner, run[i - 1], script[i])
<1>1. \A i \in 0..n : run[i] = IF i = 0 THEN from
                               ELSE Contract!statement(is_owner, run[i - 1], script[i])
  BY DEF Unrolled
<1>2. run[0] = from
  BY <1>1
<1>3. ASSUME NEW i \in 1..n
      PROVE  run[i] = Contract!statement(is_owner, run[i - 1], script[i])
  <2>1. i \in 0..n /\ i # 0
    OBVIOUS
  <2> QED
    BY <1>1, <2>1
<1> QED
  BY <1>2, <1>3

-----------------------------------------------------------------------------
(***************************************************************************)
(* The statements of the contract.                                         *)
(***************************************************************************)

\* result.state is replaced, and nothing else of the result.
LEMMA SetStep ==
  ASSUME NEW is_owner, NEW state \in State, NEW success, NEW error,
         NEW put \in [State -> State], NEW op, op = <<"set", put>>
  PROVE  Contract!statement(is_owner, At("running", state, success, error), op) =
           At("running", put[state], success, error)
<1>1. PICK r : r = [state |-> state, success |-> success, error |-> error]
  OBVIOUS
<1>2. PICK run : run = [status |-> "running", result |-> r]
  OBVIOUS
<1>3. [r EXCEPT !.state = put[state]] =
        [state |-> put[state], success |-> success, error |-> error]
  BY <1>1
<1>4. r.state = state
  BY <1>1
<1>5. [run EXCEPT !.result.state = put[@]] =
        [status |-> "running", result |-> [r EXCEPT !.state = put[state]]]
  BY <1>2, <1>4
<1>6. Contract!statement(is_owner, run, op) = [run EXCEPT !.result.state = put[@]]
  <2>1. run.status = "running"
    BY <1>2
  <2> QED
    BY <2>1 DEF Contract!statement
<1> QED
  BY <1>1, <1>2, <1>3, <1>5, <1>6, Zenon DEF At

\* accept() sets the verdict and nothing else (ContractResult::accept).
LEMMA AcceptStep ==
  ASSUME NEW is_owner, NEW state \in State, NEW success, NEW error
  PROVE  Contract!statement(is_owner, At("running", state, success, error), Accept) =
           At("running", state, TRUE, error)
<1>1. PICK r : r = [state |-> state, success |-> success, error |-> error]
  OBVIOUS
<1>2. PICK run : run = [status |-> "running", result |-> r]
  OBVIOUS
<1>3. Contract!accept(r) = [state |-> state, success |-> TRUE, error |-> error]
  <2>1. ASSUME NEW other
        PROVE  [r EXCEPT !.success = other] =
                 [state |-> state, success |-> other, error |-> error]
    BY <1>1
  <2> QED
    BY <2>1, Zenon DEF Contract!accept
<1>4. run.status = "running" /\ run.result = r
  BY <1>2
<1>5. PICK left : left = Contract!accept(r)
  OBVIOUS
<1>6. [run EXCEPT !.result = left] = [status |-> "running", result |-> left]
  BY <1>2
<1>7. Contract!statement(is_owner, run, Accept) = [run EXCEPT !.result = Contract!accept(run.result)]
  BY <1>4 DEF Contract!statement, Accept
<1> QED
  BY <1>1, <1>2, <1>3, <1>4, <1>5, <1>6, <1>7, Zenon DEF At

\* reject sets the verdict and the reason and nothing else (ContractResult::reject).
LEMMA RejectResult ==
  ASSUME NEW state \in State, NEW success, NEW error, NEW text
  PROVE  Contract!reject([state |-> state, success |-> success, error |-> error], text) =
           [state |-> state, success |-> FALSE, error |-> text]
<1>1. PICK r : r = [state |-> state, success |-> success, error |-> error]
  OBVIOUS
<1>2. ASSUME NEW other
      PROVE  [r EXCEPT !.success = other, !.error = text] =
               [state |-> state, success |-> other, error |-> text]
  <2>1. PICK q : q = [r EXCEPT !.success = other]
    OBVIOUS
  <2>2. q = [state |-> state, success |-> other, error |-> error]
    BY <1>1, <2>1
  <2>3. [q EXCEPT !.error = text] = [state |-> state, success |-> other, error |-> text]
    BY <2>2
  <2> QED
    BY <2>1, <2>3
<1> QED
  BY <1>1, <1>2, Zenon DEF Contract!reject

LEMMA RejectStep ==
  ASSUME NEW is_owner, NEW state \in State, NEW success, NEW error,
         NEW text, NEW op, op = <<"reject", text>>
  PROVE  Contract!statement(is_owner, At("running", state, success, error), op) =
           Denied("running", state, text)
<1>1. PICK r : r = [state |-> state, success |-> success, error |-> error]
  OBVIOUS
<1>2. PICK run : run = [status |-> "running", result |-> r]
  OBVIOUS
<1>3. Contract!reject(r, text) = [state |-> state, success |-> FALSE, error |-> text]
  BY <1>1, RejectResult
<1>4. run.status = "running" /\ run.result = r
  BY <1>2
<1>5. PICK left : left = Contract!reject(r, text)
  OBVIOUS
<1>6. [run EXCEPT !.result = left] = [status |-> "running", result |-> left]
  BY <1>2
<1>7. Contract!statement(is_owner, run, op) =
        [run EXCEPT !.result = Contract!reject(run.result, text)]
  BY <1>4 DEF Contract!statement
<1> QED
  BY <1>1, <1>2, <1>3, <1>4, <1>5, <1>6, <1>7, Zenon DEF At, Denied

\* require_owner lets the owner through and rejects and returns for anyone else.
LEMMA OwnerStep ==
  ASSUME NEW is_owner \in BOOLEAN, NEW state \in State, NEW success, NEW error
  PROVE  Contract!statement(is_owner, At("running", state, success, error), <<"require_owner", "">>) =
           IF is_owner THEN At("running", state, success, error)
           ELSE At("returned", state, FALSE, "Only the owner can perform this action")
<1>1. PICK r : r = [state |-> state, success |-> success, error |-> error]
  OBVIOUS
<1>2. PICK run : run = [status |-> "running", result |-> r]
  OBVIOUS
<1> DEFINE text == "Only the owner can perform this action"
<1>3. Contract!reject(r, text) = [state |-> state, success |-> FALSE, error |-> text]
  <2> HIDE DEF text
  <2> QED
    BY <1>1, RejectResult
<1>4. run.status = "running" /\ run.result = r
  BY <1>2
<1>5. Contract!statement(is_owner, run, <<"require_owner", "">>) =
        [status |-> IF is_owner THEN "running" ELSE "returned",
         result |-> Contract!require_owner(is_owner, run.result)]
  BY <1>4 DEF Contract!statement
<1>6. CASE is_owner
  BY <1>1, <1>2, <1>4, <1>5, <1>6, Zenon DEF At, Contract!require_owner
<1>7. CASE ~is_owner
  BY <1>1, <1>2, <1>3, <1>4, <1>5, <1>7, Zenon DEF At, Contract!require_owner
<1> QED
  BY <1>6, <1>7

\* What has returned does nothing more.
LEMMA ReturnedStep ==
  ASSUME NEW is_owner, NEW state, NEW success, NEW error, NEW op
  PROVE  Contract!statement(is_owner, At("returned", state, success, error), op) =
           At("returned", state, success, error)
<1>1. PICK run : run = At("returned", state, success, error)
  OBVIOUS
<1>2. run.status = "returned"
  BY <1>1 DEF At
<1>3. Contract!statement(is_owner, run, op) = run
  BY <1>2 DEF Contract!statement
<1> QED
  BY <1>1, <1>3, Zenon

\* The statements from the start of a callback on.
LEMMA SetBegun ==
  ASSUME NEW is_owner, NEW state \in State, NEW put \in [State -> State],
         NEW op, op = <<"set", put>>
  PROVE  Contract!statement(is_owner, Begun(state), op) = Begun(put[state])
<1>1. \A success, error : Contract!statement(is_owner, At("running", state, success, error), op) =
                             At("running", put[state], success, error)
  BY SetStep
<1> QED
  BY <1>1, Zenon DEF Begun

LEMMA AcceptBegun ==
  ASSUME NEW is_owner, NEW state \in State
  PROVE  Contract!statement(is_owner, Begun(state), Accept) = Granted(state)
BY AcceptStep, Zenon DEF Begun, Granted

LEMMA RejectBegun ==
  ASSUME NEW is_owner, NEW state \in State, NEW text, NEW op, op = <<"reject", text>>
  PROVE  Contract!statement(is_owner, Begun(state), op) =
           Denied("running", state, text)
<1>1. ASSUME NEW success, NEW error
      PROVE  Contract!statement(is_owner, At("running", state, success, error), op) =
               Denied("running", state, text)
  BY RejectStep
<1> QED
  BY <1>1, Zenon DEF Begun

LEMMA OwnerBegun ==
  ASSUME NEW is_owner \in BOOLEAN, NEW state \in State
  PROVE  Contract!statement(is_owner, Begun(state), <<"require_owner", "">>) =
           IF is_owner THEN Begun(state)
           ELSE Denied("returned", state, "Only the owner can perform this action")
BY OwnerStep, Zenon DEF Begun, Denied

LEMMA DeniedReturned ==
  ASSUME NEW is_owner, NEW state, NEW text, NEW op
  PROVE  Contract!statement(is_owner, Denied("returned", state, text), op) =
           Denied("returned", state, text)
BY ReturnedStep, Zenon DEF Denied

-----------------------------------------------------------------------------
(***************************************************************************)
(* contract_logic, event by event.                                         *)
(***************************************************************************)

Refused(event, is_owner) ==
  \/ event.mod = "ModThree" /\ event.data = 50
  \/ event.mod = "ResetAll" /\ ~is_owner

\* The kinds of event, with what each carries.
LEMMA EventKinds ==
  ASSUME NEW event \in StateEvent
  PROVE  \/ event.mod \in {"ModOne", "ModTwo", "ModThree"} /\ event.data \in Values
         \/ event.mod = "ModAll" /\ event.state \in State
         \/ event.mod = "ResetAll"
BY DEF StateEvent

\* What an event writes to a state is a state.
LEMMA WrittenIsState ==
  ASSUME NEW event \in StateEvent, NEW state \in State
  PROVE  /\ WrittenBy(event, state) \in State
         /\ event.mod = "ModOne" => WrittenBy(event, state) = [state EXCEPT !.one = event.data]
         /\ event.mod = "ModTwo" => WrittenBy(event, state) = [state EXCEPT !.two = event.data]
         /\ event.mod = "ModThree" => WrittenBy(event, state) = [state EXCEPT !.three = event.data]
         /\ event.mod = "ModAll" => WrittenBy(event, state) = event.state
         /\ event.mod = "ResetAll" => WrittenBy(event, state) = Zeroes
<1>1. Zeroes \in State
  BY SubjectAssumption DEF Zeroes, State
<1>2. DOMAIN state = {"one", "two", "three"}
  BY DEF State
<1>3. CASE event.mod = "ModOne"
  <2>1. PICK w : w = Writes(event)
    OBVIOUS
  <2>2. w = [one |-> event.data]
    BY <1>3, <2>1 DEF Writes
  <2>3. WrittenBy(event, state) = [f \in DOMAIN state |-> IF f \in DOMAIN w THEN w[f] ELSE state[f]]
    BY <2>1 DEF WrittenBy
  <2>4. WrittenBy(event, state) = [state EXCEPT !.one = event.data]
    BY <2>2, <2>3 DEF State
  <2> QED
    BY <1>3, <2>4, EventKinds DEF State
<1>4. CASE event.mod = "ModTwo"
  <2>1. PICK w : w = Writes(event)
    OBVIOUS
  <2>2. w = [two |-> event.data]
    BY <1>4, <2>1 DEF Writes
  <2>3. WrittenBy(event, state) = [f \in DOMAIN state |-> IF f \in DOMAIN w THEN w[f] ELSE state[f]]
    BY <2>1 DEF WrittenBy
  <2>4. WrittenBy(event, state) = [state EXCEPT !.two = event.data]
    BY <2>2, <2>3 DEF State
  <2> QED
    BY <1>4, <2>4, EventKinds DEF State
<1>5. CASE event.mod = "ModThree"
  <2>1. PICK w : w = Writes(event)
    OBVIOUS
  <2>2. w = [three |-> event.data]
    BY <1>5, <2>1 DEF Writes
  <2>3. WrittenBy(event, state) = [f \in DOMAIN state |-> IF f \in DOMAIN w THEN w[f] ELSE state[f]]
    BY <2>1 DEF WrittenBy
  <2>4. WrittenBy(event, state) = [state EXCEPT !.three = event.data]
    BY <2>2, <2>3 DEF State
  <2> QED
    BY <1>5, <2>4, EventKinds DEF State
<1>6. ASSUME NEW whole \in State, Writes(event) = whole
      PROVE  WrittenBy(event, state) = whole
  <2>1. WrittenBy(event, state) =
          [f \in DOMAIN state |-> IF f \in DOMAIN whole THEN whole[f] ELSE state[f]]
    BY <1>6 DEF WrittenBy
  <2>2. DOMAIN whole = {"one", "two", "three"} /\ whole = [f \in {"one", "two", "three"} |-> whole[f]]
    BY DEF State
  <2> QED
    BY <1>2, <2>1, <2>2
<1>7. CASE event.mod = "ModAll"
  <2>1. event.state \in State /\ Writes(event) = event.state
    BY <1>7, EventKinds DEF Writes
  <2> QED
    BY <1>6, <1>7, <2>1
<1>8. CASE event.mod = "ResetAll"
  <2>1. Writes(event) = Zeroes
    BY <1>8 DEF Writes
  <2> QED
    BY <1>1, <1>6, <1>8, <2>1
<1> QED
  BY <1>3, <1>4, <1>5, <1>7, <1>8, EventKinds

\* The two statements of an event that nothing forbids: a write, and accept().
LEMMA WriteAndAccept ==
  ASSUME NEW put \in [State -> State], NEW is_owner, NEW state \in State
  PROVE  Contract!callback(<<<<"set", put>>, Accept>>, is_owner, Contract!new(state)) =
           Granted(put[state])
<1>1. PICK script : script = <<<<"set", put>>, Accept>>
  OBVIOUS
<1>2. Len(script) = 2 /\ script[1] = <<"set", put>> /\ script[2] = Accept
  BY <1>1
<1>3. PICK run : /\ Unrolled(script, is_owner, Begun(state), 2, run)
                 /\ Contract!callback(script, is_owner, Contract!new(state)) = run[2]
  BY <1>2, ShortCallback
<1>4. /\ run[0] = Begun(state)
      /\ \A i \in 1..2 : run[i] = Contract!statement(is_owner, run[i - 1], script[i])
  BY <1>3, UnrolledSteps
<1>5. /\ run[1] = Contract!statement(is_owner, run[0], script[1])
      /\ run[2] = Contract!statement(is_owner, run[1], script[2])
  BY <1>4
<1>6. run[1] = Begun(put[state])
  BY <1>2, <1>4, <1>5, SetBegun
<1>7. put[state] \in State
  OBVIOUS
<1>8. run[2] = Granted(put[state])
  BY <1>2, <1>5, <1>6, <1>7, AcceptBegun
<1> QED
  BY <1>1, <1>3, <1>8

\* One statement, that refuses the event.
LEMMA RejectAtOnce ==
  ASSUME NEW is_owner, NEW state \in State, NEW text
  PROVE  Contract!callback(<<<<"reject", text>>>>, is_owner, Contract!new(state)) =
           Denied("running", state, text)
<1>1. PICK op : op = <<"reject", text>>
  OBVIOUS
<1>2. PICK script : script = <<op>>
  OBVIOUS
<1>3. Len(script) = 1 /\ script[1] = op
  BY <1>2
<1>4. PICK run : /\ Unrolled(script, is_owner, Begun(state), 1, run)
                 /\ Contract!callback(script, is_owner, Contract!new(state)) = run[1]
  BY <1>3, ShortCallback
<1>5. /\ run[0] = Begun(state)
      /\ \A i \in 1..1 : run[i] = Contract!statement(is_owner, run[i - 1], script[i])
  BY <1>4, UnrolledSteps
<1>6. run[1] = Contract!statement(is_owner, run[0], script[1])
  BY <1>5
<1>7. run[1] = Denied("running", state, text)
  BY <1>1, <1>3, <1>5, <1>6, RejectBegun
<1> QED
  BY <1>1, <1>2, <1>4, <1>7

\* ResetAll: the owner's event writes and is accepted, anyone else's does nothing.
LEMMA OwnerWrites ==
  ASSUME NEW put \in [State -> State], NEW is_owner \in BOOLEAN, NEW state \in State
  PROVE  Contract!callback(<<<<"require_owner", "">>, <<"set", put>>, Accept>>,
                           is_owner, Contract!new(state)) =
           IF is_owner THEN Granted(put[state])
           ELSE Denied("returned", state, "Only the owner can perform this action")
<1>1. PICK script : script = <<<<"require_owner", "">>, <<"set", put>>, Accept>>
  OBVIOUS
<1>2. script[1] = <<"require_owner", "">> /\ script[2] = <<"set", put>> /\ script[3] = Accept
  BY <1>1
<1>3. PICK n \in 1..3 : n = 3
  OBVIOUS
<1>4. Len(script) = n
  BY <1>1, <1>3
<1>5. PICK run : /\ Unrolled(script, is_owner, Begun(state), n, run)
                 /\ Contract!callback(script, is_owner, Contract!new(state)) = run[n]
  <2>1. ASSUME NEW owner
        PROVE  \E run : /\ Unrolled(script, owner, Begun(state), n, run)
                        /\ Contract!callback(script, owner, Contract!new(state)) = run[n]
    BY <1>3, <1>4, ShortCallback
  <2> QED
    BY <2>1, Zenon
<1>6. /\ run[0] = Begun(state)
      /\ \A i \in 1..n : run[i] = Contract!statement(is_owner, run[i - 1], script[i])
  BY <1>5, UnrolledSteps
<1>7. /\ run[1] = Contract!statement(is_owner, run[0], script[1])
      /\ run[2] = Contract!statement(is_owner, run[1], script[2])
      /\ run[3] = Contract!statement(is_owner, run[2], script[3])
  BY <1>6, <1>3
<1>8. run[1] = IF is_owner THEN Begun(state)
               ELSE Denied("returned", state, "Only the owner can perform this action")
  BY <1>2, <1>6, <1>7, OwnerBegun
<1>9. CASE is_owner
  <2>1. run[1] = Begun(state)
    BY <1>8, <1>9
  <2>2. PICK op : op = script[2]
    OBVIOUS
  <2>3. op = <<"set", put>>
    BY <1>2, <2>2
  <2>4. Contract!statement(is_owner, Begun(state), op) = Begun(put[state])
    BY <2>3, SetBegun
  <2>5. run[2] = Begun(put[state]) /\ put[state] \in State
    BY <1>7, <2>1, <2>2, <2>4
  <2>6. run[3] = Granted(put[state])
    BY <1>2, <1>7, <2>5, AcceptBegun
  <2> QED
    BY <1>1, <1>5, <1>9, <1>3, <2>6
<1>10. CASE ~is_owner
  <2>1. PICK text : text = "Only the owner can perform this action"
    OBVIOUS
  <2>2. run[1] = Denied("returned", state, text)
    BY <1>8, <1>10, <2>1
  <2>3. run[2] = Denied("returned", state, text)
    BY <1>7, <2>2, DeniedReturned
  <2>4. run[3] = Denied("returned", state, text)
    BY <1>7, <2>3, DeniedReturned
  <2> QED
    BY <1>1, <1>5, <1>10, <1>3, <2>1, <2>4
<1> QED
  BY <1>9, <1>10

\* How the contract leaves its result: as the event writes it and accepted, or as
\* it found it and rejected.
LogicResult(event, is_owner, state, run) ==
  IF Refused(event, is_owner)
    THEN \E progress \in {"running", "returned"} : \E text : run = Denied(progress, state, text)
    ELSE run = Granted(WrittenBy(event, state))

\* The replacement of a state by a state is a function on states.
LEMMA PutIsFunction ==
  ASSUME NEW state \in State, NEW v \in Values
  PROVE  /\ \E put \in [State -> State] :
              One(v) = <<"set", put>> /\ put[state] = [state EXCEPT !.one = v]
         /\ \E put \in [State -> State] :
              Two(v) = <<"set", put>> /\ put[state] = [state EXCEPT !.two = v]
         /\ \E put \in [State -> State] :
              Three(v) = <<"set", put>> /\ put[state] = [state EXCEPT !.three = v]
<1>1. \E put \in [State -> State] :
        One(v) = <<"set", put>> /\ put[state] = [state EXCEPT !.one = v]
  <2>1. \A s \in State : [s EXCEPT !.one = v] \in State
    BY DEF State
  <2> DEFINE put == [s \in State |-> [s EXCEPT !.one = v]]
  <2>2. put \in [State -> State] /\ put[state] = [state EXCEPT !.one = v]
    BY <2>1
  <2>3. One(v) = <<"set", put>>
    BY DEF One, Put
  <2> HIDE DEF put
  <2> QED
    BY <2>2, <2>3
<1>2. \E put \in [State -> State] :
        Two(v) = <<"set", put>> /\ put[state] = [state EXCEPT !.two = v]
  <2>1. \A s \in State : [s EXCEPT !.two = v] \in State
    BY DEF State
  <2> DEFINE put == [s \in State |-> [s EXCEPT !.two = v]]
  <2>2. put \in [State -> State] /\ put[state] = [state EXCEPT !.two = v]
    BY <2>1
  <2>3. Two(v) = <<"set", put>>
    BY DEF Two, Put
  <2> HIDE DEF put
  <2> QED
    BY <2>2, <2>3
<1>3. \E put \in [State -> State] :
        Three(v) = <<"set", put>> /\ put[state] = [state EXCEPT !.three = v]
  <2>1. \A s \in State : [s EXCEPT !.three = v] \in State
    BY DEF State
  <2> DEFINE put == [s \in State |-> [s EXCEPT !.three = v]]
  <2>2. put \in [State -> State] /\ put[state] = [state EXCEPT !.three = v]
    BY <2>1
  <2>3. Three(v) = <<"set", put>>
    BY DEF Three, Put
  <2> HIDE DEF put
  <2> QED
    BY <2>2, <2>3
<1> QED
  BY <1>1, <1>2, <1>3

LEMMA AllIsFunction ==
  ASSUME NEW state \in State, NEW whole \in State
  PROVE  \E put \in [State -> State] : All(whole) = <<"set", put>> /\ put[state] = whole
<1> DEFINE put == [s \in State |-> whole]
<1>1. put \in [State -> State] /\ put[state] = whole
  OBVIOUS
<1>2. All(whole) = <<"set", put>>
  BY DEF All, Put
<1> HIDE DEF put
<1> QED
  BY <1>1, <1>2

\* contract_logic writes what its event names and accepts, or rejects and writes
\* nothing, whatever the state and the sender.
LEMMA LogicWritesOrRefuses ==
  ASSUME NEW event \in StateEvent, NEW is_owner \in BOOLEAN, NEW state \in State
  PROVE  LogicResult(event, is_owner, state,
           Contract!callback(contract_logic(event), is_owner, Contract!new(state)))
<1>1. PICK run : run = Contract!callback(contract_logic(event), is_owner, Contract!new(state))
  OBVIOUS
<1>2. CASE event.mod = "ModOne"
  <2>1. event.data \in Values
    BY <1>2, EventKinds
  <2>2. PICK put \in [State -> State] :
          One(event.data) = <<"set", put>> /\ put[state] = [state EXCEPT !.one = event.data]
    BY <2>1, PutIsFunction
  <2>3. contract_logic(event) = <<<<"set", put>>, Accept>>
    BY <1>2, <2>2 DEF contract_logic
  <2>4. run = Granted(put[state])
    BY <1>1, <2>3, WriteAndAccept, Zenon
  <2>5. run = Granted(WrittenBy(event, state))
    BY <1>2, <2>2, <2>4, WrittenIsState
  <2>6. ~Refused(event, is_owner)
    BY <1>2 DEF Refused
  <2> QED
    BY <1>1, <2>5, <2>6, Zenon DEF LogicResult
<1>3. CASE event.mod = "ModTwo"
  <2>1. event.data \in Values
    BY <1>3, EventKinds
  <2>2. PICK put \in [State -> State] :
          Two(event.data) = <<"set", put>> /\ put[state] = [state EXCEPT !.two = event.data]
    BY <2>1, PutIsFunction
  <2>3. contract_logic(event) = <<<<"set", put>>, Accept>>
    BY <1>3, <2>2 DEF contract_logic, mod_two
  <2>4. run = Granted(put[state])
    BY <1>1, <2>3, WriteAndAccept, Zenon
  <2>5. run = Granted(WrittenBy(event, state))
    BY <1>3, <2>2, <2>4, WrittenIsState
  <2>6. ~Refused(event, is_owner)
    BY <1>3 DEF Refused
  <2> QED
    BY <1>1, <2>5, <2>6, Zenon DEF LogicResult
<1>4. CASE event.mod = "ModThree" /\ event.data # 50
  <2>1. event.data \in Values
    BY <1>4, EventKinds
  <2>2. PICK put \in [State -> State] :
          Three(event.data) = <<"set", put>> /\ put[state] = [state EXCEPT !.three = event.data]
    BY <2>1, PutIsFunction
  <2>3. contract_logic(event) = <<<<"set", put>>, Accept>>
    BY <1>4, <2>2 DEF contract_logic, mod_three
  <2>4. run = Granted(put[state])
    BY <1>1, <2>3, WriteAndAccept, Zenon
  <2>5. run = Granted(WrittenBy(event, state))
    BY <1>4, <2>2, <2>4, WrittenIsState
  <2>6. ~Refused(event, is_owner)
    BY <1>4 DEF Refused
  <2> QED
    BY <1>1, <2>5, <2>6, Zenon DEF LogicResult
<1>5. CASE event.mod = "ModThree" /\ event.data = 50
  <2>1. contract_logic(event) = <<<<"reject", INVALID>>>>
    BY <1>5 DEF contract_logic, mod_three
  <2>2. run = Denied("running", state, INVALID)
    BY <1>1, <2>1, RejectAtOnce, Zenon
  <2>3. Refused(event, is_owner)
    BY <1>5 DEF Refused
  <2> QED
    BY <1>1, <2>2, <2>3 DEF LogicResult
<1>6. CASE event.mod = "ModAll"
  <2>1. event.state \in State
    BY <1>6, EventKinds
  <2>2. PICK put \in [State -> State] :
          All(event.state) = <<"set", put>> /\ put[state] = event.state
    BY <2>1, AllIsFunction
  <2>3. contract_logic(event) = <<<<"set", put>>, Accept>>
    BY <1>6, <2>2 DEF contract_logic
  <2>4. run = Granted(put[state])
    BY <1>1, <2>3, WriteAndAccept, Zenon
  <2>5. run = Granted(WrittenBy(event, state))
    BY <1>6, <2>2, <2>4, WrittenIsState
  <2>6. ~Refused(event, is_owner)
    BY <1>6 DEF Refused
  <2> QED
    BY <1>1, <2>5, <2>6, Zenon DEF LogicResult
<1>7. CASE event.mod = "ResetAll"
  <2>1. Zeroes \in State
    BY SubjectAssumption DEF Zeroes, State
  <2>2. PICK put \in [State -> State] : All(Zeroes) = <<"set", put>> /\ put[state] = Zeroes
    BY <2>1, AllIsFunction
  <2>3. contract_logic(event) = <<<<"require_owner", "">>, <<"set", put>>, Accept>>
    BY <1>7, <2>2 DEF contract_logic
  <2>4. run = IF is_owner THEN Granted(put[state])
              ELSE Denied("returned", state, "Only the owner can perform this action")
    BY <1>1, <2>3, OwnerWrites, Zenon
  <2>5. WrittenBy(event, state) = put[state]
    BY <1>7, <2>2, WrittenIsState
  <2>6. Refused(event, is_owner) <=> ~is_owner
    BY <1>7 DEF Refused
  <2>7. CASE is_owner
    BY <1>1, <2>4, <2>5, <2>6, <2>7, Zenon DEF LogicResult
  <2>8. CASE ~is_owner
    BY <1>1, <2>4, <2>6, <2>8 DEF LogicResult
  <2> QED
    BY <2>7, <2>8
<1> QED
  BY <1>2, <1>3, <1>4, <1>5, <1>6, <1>7, EventKinds

-----------------------------------------------------------------------------
(***************************************************************************)
(* A call of the node.                                                     *)
(***************************************************************************)

\* A call offered with a subject's document.
Offered(doc, event, is_owner) ==
  [op |-> "execute", module |-> Module, state |-> doc,
   init_state |-> StateDoc(Genesis), event |-> EventDoc(event), is_owner |-> is_owner]

\* doc is the document of a subject whose fields are those of state: after no
\* accepted event there is no document yet.
Holds(doc, state) == doc = StateDoc(state) \/ (doc = Null /\ state = Genesis)

\* What a verdict without a panic says of the subject.
Told(event, is_owner, state, data) ==
  IF Refused(event, is_owner)
    THEN ~data.success /\ data.final_state = StateDoc(state)
    ELSE data.success /\ data.final_state = StateDoc(WrittenBy(event, state))

\* The contract is given the subject's fields, from the document or, before the
\* first accepted event, from init_state (try_execute_contract).
LEMMA CallParses ==
  ASSUME NEW event \in StateEvent, NEW is_owner, NEW state \in State, NEW doc, Holds(doc, state),
         NEW c, c = Offered(doc, event, is_owner)
  PROVE  /\ Contract!EffectiveState(c) = state
         /\ [d \in Doc |-> IF d # Null /\ d[1] = "StateEvent" THEN d[2] ELSE Fails][c.event] = event
         /\ c.op = "execute" /\ c.is_owner = is_owner
         /\ c.module.logic[event] = contract_logic(event)
<1>1. PICK parse : parse = [d \in Doc |-> IF d # Null /\ d[1] = "State" THEN d[2] ELSE Fails]
  OBVIOUS
<1>2. \A s \in State : StateDoc(s) \in Doc /\ StateDoc(s) # Null
  BY SubjectAssumption DEF Doc
<1>3. \A s \in State : parse[StateDoc(s)] = s
  <2> TAKE s \in State
  <2>1. StateDoc(s)[1] = "State" /\ StateDoc(s)[2] = s
    BY DEF StateDoc
  <2> QED
    BY <1>1, <1>2, <2>1
<1>4. Null \in Doc /\ parse[Null] = Fails
  BY <1>1 DEF Doc
<1>5. c.state = doc /\ c.init_state = StateDoc(Genesis) /\ c.event = EventDoc(event)
  BY DEF Offered
<1>6. Contract!EffectiveState(c) = IF parse[c.state] # Fails THEN parse[c.state] ELSE parse[c.init_state]
  BY <1>1 DEF Contract!EffectiveState
<1>7. Genesis \in State /\ Fails \notin State
  BY SubjectAssumption
<1>8. Contract!EffectiveState(c) = state
  <2>1. CASE doc = StateDoc(state)
    BY <1>3, <1>5, <1>6, <1>7, <2>1
  <2>2. CASE doc = Null /\ state = Genesis
    BY <1>3, <1>4, <1>5, <1>6, <1>7, <2>2
  <2> QED
    BY <2>1, <2>2 DEF Holds
<1>9. [d \in Doc |-> IF d # Null /\ d[1] = "StateEvent" THEN d[2] ELSE Fails][c.event] = event
  <2>1. EventDoc(event) \in Doc /\ EventDoc(event) # Null
    BY SubjectAssumption DEF Doc
  <2>2. EventDoc(event)[1] = "StateEvent" /\ EventDoc(event)[2] = event
    BY DEF EventDoc
  <2> QED
    BY <1>5, <2>1, <2>2
<1>10. c.op = "execute" /\ c.is_owner = is_owner /\ c.module = Module
  BY DEF Offered
<1>11. Module.logic[event] = contract_logic(event)
  BY DEF Module
<1> QED
  BY <1>8, <1>9, <1>10, <1>11

\* The outcome of a callback, by its fields.
LEMMA OutcomeFields ==
  ASSUME NEW progress, NEW state, NEW text
  PROVE  /\ Granted(state).status = "running" /\ Granted(state).result.state = state
         /\ Granted(state).result.success
         /\ Denied(progress, state, text).status = progress
         /\ Denied(progress, state, text).result.state = state
         /\ ~Denied(progress, state, text).result.success
BY DEF Granted, Denied, At

\* The data for a result is its state's document and its verdict: a state of the
\* contract always serializes (try_execute_contract).
LEMMA DataOfResult ==
  ASSUME NEW r, r.state \in State
  PROVE  /\ Contract!result_data(r).final_state = StateDoc(r.state)
         /\ Contract!result_data(r).success = r.success
<1>1. PICK to_vec : to_vec = [s \in State |-> StateDoc(s)]
  OBVIOUS
<1>2. to_vec[r.state] = StateDoc(r.state) /\ StateDoc(r.state) # Fails
  BY <1>1, SubjectAssumption DEF Doc
<1>3. Contract!result_data(r) =
        [final_state |-> to_vec[r.state], success |-> r.success,
         error |-> IF r.success THEN << >> ELSE <<Contract!ERR_EVENT_REJECTED, r.error>>]
  BY <1>1, <1>2, Zenon DEF Contract!result_data
<1> QED
  BY <1>2, <1>3

\* An offered event is answered with its verdict: the contract does not panic and
\* its inputs parse.
LEMMA CallIsAnswered ==
  ASSUME NEW event \in StateEvent, NEW is_owner \in BOOLEAN, NEW state \in State,
         NEW doc, Holds(doc, state), NEW c, c = Offered(doc, event, is_owner)
  PROVE  /\ Told(event, is_owner, state, Contract!Verdict(c))
         /\ Contract!Verdict(c).final_state \in Doc
<1>1. PICK parse : parse = [d \in Doc |-> IF d # Null /\ d[1] = "StateEvent" THEN d[2] ELSE Fails]
  OBVIOUS
<1>2. /\ Contract!EffectiveState(c) = state /\ parse[c.event] = event
      /\ c.op = "execute" /\ c.is_owner = is_owner
      /\ c.module.logic[event] = contract_logic(event)
  BY <1>1, CallParses
<1>3. state # Fails /\ event # Fails
  BY SubjectAssumption
<1>4. PICK run : run = Contract!callback(contract_logic(event), is_owner, Contract!new(state))
  OBVIOUS
<1>5. Contract!Run(c) = run
  BY <1>1, <1>2, <1>4, Zenon DEF Contract!Run
<1>6. Contract!Verdict(c) = Contract!result_data(run.result)
  BY <1>1, <1>2, <1>3, <1>5, Zenon DEF Contract!Verdict
<1>7. LogicResult(event, is_owner, state, run)
  BY <1>4, LogicWritesOrRefuses, Zenon
<1>8. CASE Refused(event, is_owner)
  <2>1. PICK progress \in {"running", "returned"} : \E text : run = Denied(progress, state, text)
    BY <1>7, <1>8 DEF LogicResult
  <2>2. PICK text : run = Denied(progress, state, text)
    BY <2>1
  <2>3. run.result.state = state /\ ~run.result.success
    <3>1. /\ Denied(progress, state, text).result.state = state
          /\ ~Denied(progress, state, text).result.success
      BY OutcomeFields
    <3> QED
      BY <2>2, <3>1
  <2>4. /\ Contract!Verdict(c).final_state = StateDoc(state)
        /\ ~Contract!Verdict(c).success
    BY <1>6, <2>3, DataOfResult, Zenon
  <2> QED
    BY <1>8, <2>4 DEF Told, Doc
<1>9. CASE ~Refused(event, is_owner)
  <2>1. run = Granted(WrittenBy(event, state))
    BY <1>7, <1>9 DEF LogicResult
  <2>2. run.result.state = WrittenBy(event, state) /\ run.result.success
    BY <2>1, OutcomeFields, Zenon
  <2>3. WrittenBy(event, state) \in State
    BY WrittenIsState
  <2>4. /\ Contract!Verdict(c).final_state = StateDoc(WrittenBy(event, state))
        /\ Contract!Verdict(c).success
    BY <1>6, <2>2, <2>3, DataOfResult, Zenon
  <2> QED
    BY <1>9, <2>3, <2>4 DEF Told, Doc
<1> QED
  BY <1>8, <1>9

-----------------------------------------------------------------------------
(***************************************************************************)
(* The invariant.                                                          *)
(***************************************************************************)

SubjectType ==
  /\ status \in {"done", "running"}
  /\ written \in State

\* A call carries the document the subject still has when the answer comes.
CallInFlight ==
  status = "running" =>
    \E event \in StateEvent, is_owner \in BOOLEAN : call = Offered(document, event, is_owner)

\* The inductive invariant.
SubjectInv ==
  /\ SubjectType
  /\ Holds(document, written)
  /\ CallInFlight
  /\ RejectedKeepsState

LEMMA SubjectInit == Init => SubjectInv
<1> SUFFICES ASSUME Init
             PROVE  SubjectInv
  OBVIOUS
<1>1. document = Null /\ written = Genesis /\ status = "done" /\ call = Contract!NoCall
  BY DEF Init, Contract!Init
<1>2. SubjectType
  BY <1>1, SubjectAssumption DEF SubjectType
<1>3. Holds(document, written)
  BY <1>1 DEF Holds
<1>4. CallInFlight
  BY <1>1 DEF CallInFlight
<1>5. RejectedKeepsState
  BY <1>1 DEF RejectedKeepsState, Answered
<1> QED
  BY <1>2, <1>3, <1>4, <1>5 DEF SubjectInv

LEMMA OfferKeeps ==
  ASSUME SubjectInv, NEW event \in StateEvent, NEW is_owner \in BOOLEAN, Offer(event, is_owner)
  PROVE  SubjectInv'
<1>1. /\ status' = "running" /\ call' = main_function(event, is_owner)
      /\ document' = document /\ written' = written
  BY DEF Offer
<1>2. SubjectType' /\ Holds(document, written)'
  BY <1>1 DEF SubjectInv, SubjectType, Holds, StateDoc
<1>3. CallInFlight'
  <2>1. call' = Offered(document', event, is_owner)
    BY <1>1, Zenon DEF main_function, Offered
  <2> QED
    BY <2>1 DEF CallInFlight
<1>4. RejectedKeepsState'
  BY <1>1 DEF RejectedKeepsState, Answered
<1> QED
  BY <1>2, <1>3, <1>4 DEF SubjectInv

\* The answer of a call is an error, or the verdict.
LEMMA AnswerIsVerdict ==
  ASSUME NEW event \in StateEvent, NEW is_owner \in BOOLEAN, NEW state \in State,
         NEW doc, Holds(doc, state), NEW c, c = Offered(doc, event, is_owner),
         NEW r, Contract!Answers(c, r)
  PROVE  r.ok => Told(event, is_owner, state, r.data)
<1>1. c.op = "execute"
  BY DEF Offered
<1>2. /\ Told(event, is_owner, state, Contract!Verdict(c))
      /\ Contract!Verdict(c).final_state \in Doc
  BY CallIsAnswered, Zenon
<1>3. \/ r \in {Contract!Failure(e) : e \in Contract!ExecuteErrors}
      \/ r = Contract!Success(Contract!Verdict(c))
  BY <1>1, <1>2 DEF Contract!Answers
<1>4. ASSUME NEW e
      PROVE  ~Contract!Failure(e).ok
  BY DEF Contract!Failure
<1>5. CASE r \in {Contract!Failure(e) : e \in Contract!ExecuteErrors}
  BY <1>4, <1>5
<1>6. CASE r = Contract!Success(Contract!Verdict(c))
  <2>1. r.data = Contract!Verdict(c)
    BY <1>6 DEF Contract!Success
  <2> QED
    BY <1>2, <2>1, Zenon
<1> QED
  BY <1>3, <1>5, <1>6

LEMMA ApplyKeeps ==
  ASSUME SubjectInv, Apply
  PROVE  SubjectInv'
<1>1. /\ status = "running" /\ status' = "done" /\ call' = call
      /\ Contract!Answers(call, result')
  BY DEF Apply, Contract!End
<1>2. /\ written \in State /\ Holds(document, written)
      /\ \E event \in StateEvent, is_owner \in BOOLEAN : call = Offered(document, event, is_owner)
  BY <1>1 DEF SubjectInv, SubjectType, CallInFlight
<1>3. PICK event \in StateEvent, is_owner \in BOOLEAN : call = Offered(document, event, is_owner)
  BY <1>2
<1>4. result'.ok => Told(event, is_owner, written, result'.data)
  BY <1>1, <1>2, <1>3, AnswerIsVerdict, Zenon
<1>5. call.event[2] = event
  BY <1>3 DEF Offered, EventDoc
<1>6. WrittenBy(event, written) \in State
  BY <1>2, WrittenIsState
<1>7. CallInFlight'
  BY <1>1 DEF CallInFlight
<1>8. CASE result'.ok /\ result'.data.success
  <2>1. /\ document' = result'.data.final_state
        /\ written' = WrittenBy(event, written)
    BY <1>5, <1>8 DEF Apply, Accepted
  <2>2. result'.data.final_state = StateDoc(WrittenBy(event, written))
    BY <1>4, <1>8 DEF Told
  <2>3. SubjectType' /\ Holds(document, written)'
    BY <1>1, <1>6, <2>1, <2>2 DEF SubjectType, Holds, StateDoc
  <2>4. RejectedKeepsState'
    BY <1>8 DEF RejectedKeepsState
  <2> QED
    BY <1>7, <2>3, <2>4 DEF SubjectInv
<1>9. CASE ~(result'.ok /\ result'.data.success)
  <2>1. document' = document /\ written' = written
    BY <1>9 DEF Apply, Accepted
  <2>2. SubjectType' /\ Holds(document, written)'
    BY <1>1, <1>2, <2>1 DEF SubjectType, Holds, StateDoc
  <2>3. result'.ok => result'.data.final_state = StateDoc(written)
    BY <1>4, <1>9 DEF Told
  <2>4. RejectedKeepsState'
    BY <2>1, <2>3 DEF RejectedKeepsState, StateDoc
  <2> QED
    BY <1>7, <2>2, <2>4 DEF SubjectInv
<1> QED
  BY <1>8, <1>9

LEMMA StutterKeeps ==
  ASSUME SubjectInv, UNCHANGED vars
  PROVE  SubjectInv'
BY DEF SubjectInv, SubjectType, Holds, CallInFlight, RejectedKeepsState, Answered, vars

LEMMA SubjectInvariant == Spec => []SubjectInv
<1>1. SubjectInv /\ [Next]_vars => SubjectInv'
  BY OfferKeeps, ApplyKeeps, StutterKeeps DEF Next
<1> QED
  BY SubjectInit, <1>1, PTL DEF Spec

\* For every set of values and every initial state, after any sequence of events
\* that were accepted, rejected or failed and offered again, each field of the
\* subject is what the last accepted event that names it wrote (contract_logic,
\* the fallback of try_execute_contract).
THEOREM SubjectFieldsAreLastWrites == Spec => []FieldsAreLastWrites
<1>1. SubjectInv => FieldsAreLastWrites
  BY DEF SubjectInv, Holds, FieldsAreLastWrites
<1> QED
  BY SubjectInvariant, <1>1, PTL

\* A rejected event answers with the state it found: every early return of
\* contract_logic comes before every write.
THEOREM SubjectRejectedKeepsState == Spec => []RejectedKeepsState
<1>1. SubjectInv => RejectedKeepsState
  BY DEF SubjectInv
<1> QED
  BY SubjectInvariant, <1>1, PTL

=============================================================================
