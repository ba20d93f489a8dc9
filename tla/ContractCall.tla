---------------------------- MODULE ContractCall ----------------------------
(***************************************************************************)
(* What ContractRuntime::execute and ::validate promise the node that      *)
(* calls them.  A call is answered once, either with a RuntimeError or     *)
(* with a verdict that is a function of the call alone: it does not depend *)
(* on the node's limits, on fuel, or on the calls made before.             *)
(***************************************************************************)
EXTENDS Contract

CONSTANT Calls   \* the calls a node can make

VARIABLES
  status,   \* "done" or "running"
  call,     \* the call being answered, or answered last
  result    \* its answer, once done

vars == <<status, call, result>>

\* The contract's view of a call: its state, or the initial state if the state
\* does not parse.
EffectiveState(c) ==
  IF ParseState[c.state] # Fails THEN ParseState[c.state] ELSE ParseState[c.init_state]

Run(c) ==
  callback(c.module.logic[ParseEvent[c.event]], c.is_owner, new(EffectiveState(c)))

\* The data execute answers with, if the contract does not panic.
Verdict(c) ==
  IF EffectiveState(c) = Fails
    THEN result_error(FallbackFailed(CannotParse("State"), CannotParse("Init State")))
  ELSE IF ParseEvent[c.event] = Fails THEN result_error(CannotParse("Event"))
  ELSE result_data(Run(c).result)

Panics(c) ==
  /\ EffectiveState(c) # Fails
  /\ ParseEvent[c.event] # Fails
  /\ Run(c).status = "panicked"

\* The module imports the four SDK functions, each once, and nothing else.
ImportsSdk(imports) ==
  /\ Len(imports) = Cardinality(SDK_FUNCTIONS)
  /\ {imports[i].name : i \in DOMAIN imports} = SDK_FUNCTIONS
  /\ \A i \in DOMAIN imports :
       imports[i].module = "env" /\ imports[i].kind = "func" /\ signature_matches(imports[i])

\* validate accepts a module with the SDK's interface and an initial state that
\* the contract parses and accepts.
Accepts(c) ==
  /\ ImportsSdk(c.module.imports)
  /\ c.module.main /\ c.module.init_check
  /\ ParseState[c.init_state] # Fails
  /\ LET run == callback(c.module.init_logic[ParseState[c.init_state]], FALSE, new(""))
     IN  run.status # "panicked" /\ run.result.success

ExecuteErrors ==
  {"MemoryAllocationFailed", "InstantiationFailed", "EntryPointNotFound",
   "ContractExecutionFailed", "OutOfFuel"}

ValidateErrors ==
  {"MemoryAllocationFailed", "InstantiationFailed", "EntryPointNotFound",
   "ContractExecutionFailed"}

\* r is an answer call c may get.
Answers(c, r) ==
  \/ /\ c.op = "execute"
     /\ \/ r \in {Failure(e) : e \in ExecuteErrors}
        \/ /\ ~Panics(c)
           /\ r = IF Verdict(c).final_state \in ValueDoc
                    THEN Success(Verdict(c)) ELSE Failure("SerializationError")
  \/ /\ c.op = "validate"
     /\ \/ r \in {Failure(e) : e \in ValidateErrors}
        \/ ~ImportsSdk(c.module.imports) /\ r \in {Failure(e) : e \in InvalidModuleKinds}
        \/ Accepts(c) /\ r = Success(check_ok)

Init ==
  /\ status = "done"
  /\ call = NoCall
  /\ result = Failure("none")

Begin ==
  /\ status = "done"
  /\ status' = "running"
  /\ call' \in Calls
  /\ result' = Failure("none")

End ==
  /\ status = "running"
  /\ status' = "done"
  /\ Answers(call, result')
  /\ UNCHANGED call

Next == Begin \/ End

Spec == Init /\ [][Next]_vars

=============================================================================
