--------------------------- MODULE ExampleSubject ---------------------------
(***************************************************************************)
(* A subject governed by the contract of src/example/src/lib.rs.  A node   *)
(* keeps the subject's document, offers events to the contract through     *)
(* ContractCall's promise, and replaces the document with the final state  *)
(* of an accepted event.  An event answered with a RuntimeError leaves the *)
(* document alone and may be offered again.                                *)
(***************************************************************************)
EXTENDS Naturals, Sequences

CONSTANTS
  Values,    \* the u32 values events carry
  Genesis,   \* the initial state of the subject
  Null,      \* the document of a subject that has had no event
  Fails      \* a document that does not parse

VARIABLES
  document,  \* the subject's current document
  status, call, result,   \* of ContractCall
  written    \* history: the value the last accepted event gave each field

vars == <<document, status, call, result, written>>

-----------------------------------------------------------------------------
(***************************************************************************)
(* The contract.                                                           *)
(***************************************************************************)

State == [one : Values, two : Values, three : Values]

StateEvent ==
  [mod : {"ModOne", "ModTwo", "ModThree"}, data : Values]
    \cup [mod : {"ModAll"}, state : State]
    \cup {[mod |-> "ResetAll"]}

INVALID == "Can not change three value, 50 is a invalid value"

\* result.state with one field, or every field, replaced
Put(f(_)) == <<"set", [s \in State |-> f(s)]>>
One(v) == Put(LAMBDA s : [s EXCEPT !.one = v])
Two(v) == Put(LAMBDA s : [s EXCEPT !.two = v])
Three(v) == Put(LAMBDA s : [s EXCEPT !.three = v])
All(state) == Put(LAMBDA s : state)

Accept == <<"accept", "">>
Zeroes == [one |-> 0, two |-> 0, three |-> 0]

\* mutant of mod_two: it writes the first field
mod_two_as_one(data) == <<One(data), Accept>>

mod_two(data) == <<Two(data), Accept>>

\* mutant of mod_three: it writes before it looks at the value
mod_three_write_first(data) ==
  <<Three(data), IF data = 50 THEN <<"reject", INVALID>> ELSE Accept>>

mod_three(data) ==
  IF data = 50 THEN <<<<"reject", INVALID>>>> ELSE <<Three(data), Accept>>

contract_logic(event) ==
  CASE event.mod = "ModOne" -> <<One(event.data), Accept>>
    [] event.mod = "ModTwo" -> mod_two(event.data)
    [] event.mod = "ModThree" -> mod_three(event.data)
    [] event.mod = "ModAll" -> <<All(event.state), Accept>>
    [] event.mod = "ResetAll" -> <<<<"require_owner", "">>, All(Zeroes), Accept>>

init_logic(state) == <<Accept>>

\* The JSON the derived Serialize and Deserialize write and read.
StateDoc(state) == <<"State", state>>
EventDoc(event) == <<"StateEvent", event>>
Doc == {Null} \cup {StateDoc(s) : s \in State} \cup {EventDoc(e) : e \in StateEvent}

\* Null is what serde_json writes as `null`; Fails is the outcome of a conversion
\* and no value of a type.
ASSUME SubjectAssumption ==
  /\ 0 \in Values
  /\ Genesis \in State
  /\ \A s \in State : Null # StateDoc(s)
  /\ \A e \in StateEvent : Null # EventDoc(e)
  /\ Fails \notin State \cup StateEvent \cup Doc

Module ==
  [logic |-> [e \in StateEvent |-> contract_logic(e)],
   init_logic |-> [s \in State |-> init_logic(s)]]

\* main_function of the contract, for one event of one sender
main_function(event, is_owner) ==
  [op |-> "execute", module |-> Module, state |-> document,
   init_state |-> StateDoc(Genesis), event |-> EventDoc(event), is_owner |-> is_owner]

Contract == INSTANCE ContractCall WITH
  Event <- StateEvent, ValueDoc <- Doc, Calls <- {},
  ParseState <- [d \in Doc |-> IF d # Null /\ d[1] = "State" THEN d[2] ELSE Fails],
  ParseEvent <- [d \in Doc |-> IF d # Null /\ d[1] = "StateEvent" THEN d[2] ELSE Fails],
  ToVec <- [s \in State |-> StateDoc(s)]

-----------------------------------------------------------------------------
(***************************************************************************)
(* The node.                                                               *)
(***************************************************************************)

Init ==
  /\ document = Null
  /\ written = Genesis
  /\ Contract!Init

Offer(event, is_owner) ==
  /\ status = "done"
  /\ status' = "running"
  /\ call' = main_function(event, is_owner)
  /\ result' = Contract!Failure("none")
  /\ UNCHANGED <<document, written>>

\* The fields an event names, with the values it gives them.
Writes(event) ==
  CASE event.mod = "ModOne" -> [one |-> event.data]
    [] event.mod = "ModTwo" -> [two |-> event.data]
    [] event.mod = "ModThree" -> [three |-> event.data]
    [] event.mod = "ModAll" -> event.state
    [] event.mod = "ResetAll" -> Zeroes

\* A state after them.
WrittenBy(event, state) ==
  [f \in DOMAIN state |-> IF f \in DOMAIN Writes(event) THEN Writes(event)[f] ELSE state[f]]

Accepted == result'.ok /\ result'.data.success

Apply ==
  /\ Contract!End
  /\ document' = IF Accepted THEN result'.data.final_state ELSE document
  /\ written' = IF Accepted THEN WrittenBy(call.event[2], written) ELSE written

Next == Apply \/ \E event \in StateEvent, is_owner \in BOOLEAN : Offer(event, is_owner)

Spec == Init /\ [][Next]_vars

-----------------------------------------------------------------------------
Answered == status = "done" /\ call # Contract!NoCall

\* Over any sequence of accepted, rejected and failed events, each field of the
\* subject holds what the last accepted event that names it gave it, or its
\* initial value: contract_logic changes nothing else, and the first event
\* starts from init_state (the fallback of try_execute_contract).
FieldsAreLastWrites ==
  document # Null => document = StateDoc(written)

\* A rejected event leaves the state of the verdict as it was, "without touching
\* state": the early returns of ModThree and ResetAll come before every write.
RejectedKeepsState ==
  Answered /\ result.ok /\ ~result.data.success =>
    result.data.final_state = StateDoc(written)

=============================================================================
