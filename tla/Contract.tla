------------------------------- MODULE Contract -------------------------------
(***************************************************************************)
(* A contract as its author sees it (src/src/lib.rs): typed state and      *)
(* event, a callback that edits a ContractResult, and the data the SDK     *)
(* answers with.  No memory and no pointers: those are in ContractSdk.     *)
(*                                                                         *)
(* A JSON document is a member of Doc.  A text is a sequence of fragments, *)
(* the constant parts and the interpolated ones.                           *)
(***************************************************************************)
EXTENDS Integers, SequencesExt

CONSTANTS
  Doc,          \* JSON documents
  Null,         \* the document `null`
  State,        \* values of the contract's State type
  Event,        \* values of the contract's Event type
  ParseState,   \* serde_json::from_slice::<State>, by document
  ParseEvent,   \* serde_json::from_slice::<Event>, by document
  ToVec,        \* serde_json::to_vec of a state
  ValueDoc,     \* the documents serde_json::from_slice::<Value> accepts: it
                \* refuses deep nesting, which to_vec writes
  Fails         \* the outcome of a conversion that fails

ASSUME ContractAssumption ==
  /\ Null \in ValueDoc
  /\ ValueDoc \subseteq Doc
  /\ Fails \notin Doc \cup State \cup Event
  /\ ParseState \in [Doc -> State \cup {Fails}]
  /\ ParseEvent \in [Doc -> Event \cup {Fails}]
  /\ ToVec \in [State -> Doc \cup {Fails}]

(***************************************************************************)
(* ContractResult; ContractInitCheck is the same without a state.          *)
(***************************************************************************)

new(state) == [state |-> state, success |-> FALSE, error |-> ""]

accept(result) == [result EXCEPT !.success = TRUE]

reject(result, msg) == [result EXCEPT !.success = FALSE, !.error = msg]

require_owner(is_owner, result) ==
  IF is_owner THEN result ELSE reject(result, "Only the owner can perform this action")

(***************************************************************************)
(* A callback is a sequence of what contract code does to its result:      *)
(*   <<"set", f>>           result.state becomes f[result.state]           *)
(*   <<"accept", "">>       result.accept()                                *)
(*   <<"reject", m>>        result.reject(m)                               *)
(*   <<"require_owner", "">>  returns early unless the sender is the owner *)
(*   <<"panic", "">>        traps                                          *)
(***************************************************************************)

\* One of them, in a call that is "running", has "returned" or has "panicked".
statement(is_owner, run, op) ==
  IF run.status # "running" THEN run
  ELSE CASE op[1] = "set" -> [run EXCEPT !.result.state = op[2][@]]
         [] op[1] = "accept" -> [run EXCEPT !.result = accept(run.result)]
         [] op[1] = "reject" -> [run EXCEPT !.result = reject(run.result, op[2])]
         [] op[1] = "require_owner" ->
              [status |-> IF is_owner THEN "running" ELSE "returned",
               result |-> require_owner(is_owner, run.result)]
         [] op[1] = "panic" -> [run EXCEPT !.status = "panicked"]

callback(script, is_owner, result) ==
  LET run[i \in 0..Len(script)] ==
        IF i = 0 THEN [status |-> "running", result |-> result]
        ELSE statement(is_owner, run[i - 1], script[i])
  IN  run[Len(script)]

-----------------------------------------------------------------------------
(***************************************************************************)
(* ContractResultData and ContractInitCheckData, the answers of the SDK.   *)
(***************************************************************************)

ERR_INIT_REJECTED == "Error running init contract data"
ERR_EVENT_REJECTED == "Error running contract event"
ERR_FINAL_STATE_SER == "Cannot serialize contract final state into JSON bytes"
ERR_RETURN_INIT_RESULT == "Cannot return init contract result"
ERR_RETURN_RESULT == "Cannot return contract result"

\* ContractResultData::error: its final state is the document null.
result_error(text) == [final_state |-> Null, success |-> FALSE, error |-> text]

\* ContractInitCheckData::error and ::ok
check_error(text) == [success |-> FALSE, error |-> text]
check_ok == [success |-> TRUE, error |-> << >>]

\* What try_execute_contract stores for the result a callback left behind.
result_data(result) ==
  IF ToVec[result.state] = Fails
    THEN result_error(<<ERR_FINAL_STATE_SER>>)
    ELSE [final_state |-> ToVec[result.state],
          success |-> result.success,
          error |-> IF result.success THEN << >>
                    ELSE <<ERR_EVENT_REJECTED, result.error>>]

\* What check_init_data stores.
check_data(check) ==
  IF check.success THEN check_ok ELSE check_error(<<ERR_INIT_REJECTED, check.error>>)

\* The messages of read_and_parse and of the fallback to the initial state.
CannotRead(name, why) == <<"Cannot read", name, why>>
CannotDeserialize(name) == <<"Cannot deserialize", name>>
CannotParse(name) == <<"Cannot parse", name>>
FallbackFailed(first, second) ==
  first \o <<"fallback to init state also failed">> \o second

-----------------------------------------------------------------------------
(***************************************************************************)
(* What a node sends and what it gets back.                                *)
(***************************************************************************)

SDK_FUNCTIONS == {"pointer_len", "alloc", "read_bytes", "write_bytes"}

\* The signature of an SDK function, in WebAssembly types.
expected_sdk_signature(name) ==
  IF name \in {"pointer_len", "alloc"}
    THEN [params |-> <<"i32">>, results |-> <<"i32">>]
    ELSE [params |-> <<"i32", "i32", "i32">>, results |-> << >>]

RefTypes == {"funcref", "externref"}

\* valtype_eq does not tell reference types apart.
valtype_eq(a, b) == a = b \/ {a, b} \subseteq RefTypes

valtypes_eq(a, b) == Len(a) = Len(b) /\ \A i \in DOMAIN a : valtype_eq(a[i], b[i])

signature_matches(import) ==
  LET expected == expected_sdk_signature(import.name)
  IN  /\ valtypes_eq(import.params, expected.params)
      /\ valtypes_eq(import.results, expected.results)

\* RuntimeError::InvalidModule, by its InvalidModuleKind
InvalidModuleKinds ==
  {"UnexpectedImportModule", "NonFunctionImport", "InvalidImportSignature",
   "UnknownImportFunction", "MissingImports"}

\* Before the first call.
NoCall == [op |-> "none"]

\* Result::Ok and Result::Err
Success(data) == [ok |-> TRUE, data |-> data]
Failure(kind) == [ok |-> FALSE, error |-> kind]

=============================================================================
