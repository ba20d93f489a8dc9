--------------------------- MODULE ContractSession ---------------------------
(***************************************************************************)
(* A ContractRuntime answering one call after another, each on a store of  *)
(* its own (src/src/runtime/contract_runtime.rs), with a guest built on    *)
(* the SDK (src/src/lib.rs).  The runtime checks, stages, instantiates,    *)
(* calls the entry point, records metrics and decodes the answer; the      *)
(* guest reads its arguments, runs the contract's callback and stores the  *)
(* result, all through the host's memory manager, on a budget of fuel and  *)
(* inside a linear memory of limited size.                                 *)
(***************************************************************************)
EXTENDS ContractSdk

CONSTANTS
  Limits,                 \* the WasmLimits a runtime can be built with
  Calls,                  \* the calls a node can make
  Fragments,              \* what error texts are put together from
  StartLengths,           \* what a start function may ask alloc for
  MAX_FUEL,               \* fuel of an execution
  MAX_FUEL_COMPILATION    \* fuel of a validation

\* What WasmLimits::build guarantees: the guest's read limit is not below the
\* host's single allocation cap, and offsets fit an i32.  alloc takes a u32.
ASSUME SessionAssumption ==
  /\ MAX_FUEL \in Nat
  /\ MAX_FUEL_COMPILATION \in Nat
  /\ StartLengths \subseteq U32
  /\ \A limits \in Limits :
       /\ limits.max_single_alloc \in 0..MAX_DATA_SIZE
       /\ limits.max_total_memory \in 0..I32Max
       /\ limits.memory_size \in Nat
       /\ limits.max_table_elements \in Nat

\* The longest error text is that of a fallback that failed too.
MaxFragments == Len(FallbackFailed(CannotRead("", ""), CannotRead("", "")))

SdkFragments ==
  {"", "Only the owner can perform this action", ERR_INIT_REJECTED, ERR_EVENT_REJECTED,
   ERR_FINAL_STATE_SER, ERR_RETURN_INIT_RESULT, ERR_RETURN_RESULT, "Cannot read",
   "Cannot deserialize", "Cannot parse", "State", "Init State", "Event",
   "fallback to init state also failed", "MemoryLimitExceeded", "Deserialization"}

ASSUME FragmentsAssumption ==
  /\ SdkFragments \subseteq Fragments
  /\ Cells(Fragments, MaxFragments) \subseteq Byte
  /\ Fails \notin [success : BOOLEAN, error : Seq(Fragments)]
  /\ Fails \notin [final_state : Doc, success : BOOLEAN, error : Seq(Fragments)]

VARIABLES
  limits,      \* WasmLimits of this runtime
  pc,          \* the step the call is at
  call,        \* the call being answered
  mm,          \* the MemoryManager of its store
  ptrs,        \* the pointers of the staged inputs, as u32
  fuel,        \* fuel left in the store
  pages,       \* size of the guest's linear memory
  local,       \* the guest's variables
  result_ptr,  \* what the guest's alloc answered
  trap,        \* why the guest stopped: "none", "host", "guest", "memory",
               \* "alloc" or "fuel"
  result,      \* the answer to the call
  observed,    \* the metrics recorded for the call
  validated    \* history: the modules this runtime has accepted

storeVars == <<mm, ptrs, fuel, pages>>
guestVars == <<local, result_ptr>>
answerVars == <<result, observed, validated>>
vars == <<limits, pc, call, storeVars, guestVars, trap, answerVars>>

GuestSteps == {"read_state", "read_init", "read_event", "callback", "store", "write"}

PcValues == GuestSteps \cup
  {"done", "imports", "stage", "instantiate", "start", "returned", "trapped"}

NoLocal == [state |-> Fails, event |-> Fails, first |-> << >>, out |-> Fails, last |-> FALSE]

\* What execute and execute_inner record of a call: the label of the execution,
\* the label of its fuel and memory samples, the samples, and whether the
\* out-of-fuel counter went up.
NotObserved ==
  [execution |-> "none", samples |-> "none", fuel_consumed |-> 0, memory |-> 0,
   exhausted |-> FALSE]

Init ==
  /\ limits \in Limits
  /\ pc = "done"
  /\ call = NoCall
  /\ mm = from_limits(limits)
  /\ ptrs = << >>
  /\ fuel = 0
  /\ pages = 0
  /\ local = NoLocal
  /\ result_ptr = 0
  /\ trap = "none"
  /\ result = Failure("none")
  /\ observed = NotObserved
  /\ validated = {}

Submit(c) ==
  /\ pc = "done"
  /\ pc' = IF c.op = "validate" THEN "imports" ELSE "stage"
  /\ call' = c
  /\ trap' = "none"
  /\ result' = Failure("none")
  /\ observed' = NotObserved
  /\ UNCHANGED <<limits, storeVars, guestVars, validated>>

\* mutant of execution_label: whether the host succeeded, not the contract
execution_label_host(r) == IF r.ok THEN "accepted" ELSE "error"

\* The label execute gives an answer.
execution_label(r) ==
  IF ~r.ok THEN "error" ELSE IF r.data.success THEN "accepted" ELSE "rejected"

\* The call is answered with r, after execute_inner recorded obs, and its store
\* is dropped.
Finish(r, obs) ==
  /\ mm' = from_limits(limits)
  /\ ptrs' = << >>
  /\ fuel' = 0
  /\ pages' = 0
  /\ local' = NoLocal
  /\ result_ptr' = 0
  /\ pc' = "done"
  /\ result' = r
  /\ observed' = IF call.op = "execute"
                   THEN [obs EXCEPT !.execution = execution_label(r)]
                   ELSE obs
  /\ validated' = IF call.op = "validate" /\ r.ok
                    THEN validated \cup {call.module} ELSE validated

-----------------------------------------------------------------------------
(***************************************************************************)
(* The host before the guest runs.                                         *)
(***************************************************************************)

\* mutant of import_fault: does not notice a function imported twice
import_fault_duplicates(imports, i) ==
  IF imports[i].module # "env" THEN "UnexpectedImportModule"
  ELSE IF imports[i].kind # "func" THEN "NonFunctionImport"
  ELSE IF imports[i].name \in SDK_FUNCTIONS /\ ~signature_matches(imports[i])
    THEN "InvalidImportSignature"
  ELSE IF imports[i].name \notin SDK_FUNCTIONS THEN "UnknownImportFunction"
  ELSE "none"

\* What is wrong with import i: the ones before it have been removed from the
\* pending set.
import_fault(imports, i) ==
  LET pending_sdk == SDK_FUNCTIONS \ {imports[j].name : j \in 1..(i - 1)}
  IN  IF imports[i].module # "env" THEN "UnexpectedImportModule"
      ELSE IF imports[i].kind # "func" THEN "NonFunctionImport"
      ELSE IF imports[i].name \in SDK_FUNCTIONS /\ ~signature_matches(imports[i])
        THEN "InvalidImportSignature"
      ELSE IF imports[i].name \notin pending_sdk THEN "UnknownImportFunction"
      ELSE "none"

\* What validate finds wrong with the imports: the first fault in their order,
\* then what was not imported.
imports_fault(imports) ==
  LET faulty == {i \in DOMAIN imports : import_fault(imports, i) # "none"}
      first == CHOOSE i \in faulty : \A j \in faulty : i <= j
  IN  IF faulty # {} THEN import_fault(imports, first)
      ELSE IF SDK_FUNCTIONS \subseteq {imports[i].name : i \in DOMAIN imports} THEN "none"
      ELSE "MissingImports"

\* What a callback on a state of type S may do.
Statement(S) ==
  {"set"} \X [S -> S] \cup {"accept", "require_owner", "panic"} \X {""}
    \cup {"reject"} \X Fragments

\* Every import of a module has a name, a kind and a signature, and its callbacks
\* are typed: that of an event edits a State, that of an init check has none.
ASSUME CallAssumption ==
  LET Import == [module : STRING, name : STRING, kind : STRING,
                 params : Seq(STRING), results : Seq(STRING)]
  IN  \A c \in Calls :
        /\ c.op \in {"validate", "execute"}
        /\ c.init_state \in Doc
        /\ c.op = "execute" => c.state \in Doc /\ c.event \in Doc /\ c.is_owner \in BOOLEAN
        /\ c.module.imports \in Seq(Import)
        /\ {c.module.min_memory, c.module.table} \subseteq Nat
        /\ {c.module.start, c.module.main, c.module.init_check, c.module.exported}
             \subseteq BOOLEAN
        /\ \A event \in Event : c.module.logic[event] \in Seq(Statement(State))
        /\ \A state \in State : c.module.init_logic[state] \in Seq(Statement({""}))

\* The linker defines the SDK functions in "env" and nothing else.
linkable(import) ==
  /\ import.module = "env"
  /\ import.kind = "func"
  /\ import.name \in SDK_FUNCTIONS
  /\ signature_matches(import)

CheckImports ==
  /\ pc = "imports"
  /\ LET fault == imports_fault(call.module.imports)
     IN  IF fault = "none"
           THEN pc' = "stage" /\ UNCHANGED <<storeVars, guestVars, answerVars>>
           ELSE Finish(Failure(fault), observed)
  /\ UNCHANGED <<limits, call, trap>>

\* mutant of write_contract_data: the payload overwrites the length
write_contract_data_no_offset(m, doc) ==
  LET a == alloc(m, U32_BYTES + Size[doc])
      prefix == write_bytes_at(a.mm, a.val, 0, len_bytes(Size[doc]))
      payload == write_bytes_at(prefix.mm, a.val, 0, json_bytes(doc))
  IN  IF a.ok /\ prefix.ok /\ payload.ok
        THEN Ok(payload.mm, as_u32(a.val)) ELSE Err(m, "MemoryAllocationFailed")

write_contract_data(m, doc) ==
  LET a == alloc(m, U32_BYTES + Size[doc])
      prefix == write_bytes_at(a.mm, a.val, 0, len_bytes(Size[doc]))
      payload == write_bytes_at(prefix.mm, a.val, U32_BYTES, json_bytes(doc))
  IN  IF Size[doc] > 2 * I32Max + 1 THEN Err(m, "SerializationError")
      ELSE IF ~a.ok \/ ~prefix.ok \/ ~payload.ok THEN Err(m, "MemoryAllocationFailed")
      ELSE Ok(payload.mm, as_u32(a.val))

\* The documents generate_context and generate_execution_context stage, in
\* order.
Inputs(c) ==
  IF c.op = "validate" THEN <<c.init_state>> ELSE <<c.state, c.init_state, c.event>>

\* The length of every input and of every result fits its prefix and an i32.  An
\* input of 4 GiB is refused before it is staged; a result lives in the linear
\* memory of the guest, which no limits make that large.
ASSUME LengthAssumption ==
  /\ \A c \in Calls : \A i \in DOMAIN Inputs(c) : Size[Inputs(c)[i]] <= 2 * I32Max + 1
  /\ \A doc \in ({Null} \cup {ToVec[state] : state \in State}) \ {Fails} :
       Size[doc] + 2 * U32_BYTES + 1 + MaxFragments <= I32Max

Stage ==
  /\ pc = "stage"
  /\ \E w \in {write_contract_data(mm, Inputs(call)[Len(ptrs) + 1])} :
       IF w.ok
         THEN /\ mm' = w.mm
              /\ ptrs' = Append(ptrs, w.val)
              /\ pc' = IF Len(ptrs) + 1 = Len(Inputs(call)) THEN "instantiate" ELSE "stage"
              /\ UNCHANGED <<fuel, pages, guestVars, answerVars>>
         ELSE Finish(Failure(w.val), observed)
  /\ UNCHANGED <<limits, call, trap>>

Budget == IF call.op = "validate" THEN MAX_FUEL_COMPILATION ELSE MAX_FUEL

\* Linking needs the linear memory, the table and the imports.
instantiable(module) ==
  /\ module.min_memory <= mm.store_limits.memory_size
  /\ module.table <= mm.store_limits.table_elements
  /\ \A i \in DOMAIN module.imports : linkable(module.imports[i])

\* Linker::instantiate, up to the module's start function.
Instantiate ==
  /\ pc = "instantiate"
  /\ IF instantiable(call.module)
       THEN /\ pc' = "start"
            /\ fuel' = Budget
            /\ pages' = call.module.min_memory
            /\ UNCHANGED <<mm, ptrs, guestVars, answerVars>>
       ELSE Finish(Failure("InstantiationFailed"), observed)
  /\ UNCHANGED <<limits, call, trap>>

-----------------------------------------------------------------------------
(***************************************************************************)
(* The guest.  Every step of it costs fuel.                                *)
(***************************************************************************)

\* mutant of metered: an exhausted guest is given fuel again
metered_refuelled(f) == IF f = 1 THEN MAX_FUEL ELSE f - 1

\* mutant of metered: charges twice
metered_twice(f) == f - 2

\* The engine runs with consume_fuel.
metered(f) == f - 1

Spend ==
  /\ fuel > 0
  /\ fuel' = metered(fuel)

\* A start function runs inside Linker::instantiate, with the env imports, on
\* the store the inputs are staged in: it may compute, grow the linear memory,
\* allocate and trap.  It is the module's own code and may do otherwise in
\* every call.  Of what the call staged it changes nothing.
StartFrame == UNCHANGED <<limits, pc, call, ptrs, guestVars, trap, answerVars>>

\* A start function that traps ends the instantiation.
StartFails(why) ==
  /\ trap' = why
  /\ Finish(Failure("InstantiationFailed"), observed)
  /\ UNCHANGED <<limits, call>>

StartWork(growth) ==
  /\ pc = "start" /\ call.module.start
  /\ fuel > 0
  /\ IF pages + growth <= mm.store_limits.memory_size
       THEN Spend /\ pages' = pages + growth /\ StartFrame /\ UNCHANGED mm
       ELSE StartFails("memory")

StartAlloc(len) ==
  LET r == env_alloc(mm, len)
  IN  /\ pc = "start" /\ call.module.start
      /\ fuel > 0
      /\ IF r.ok
           THEN Spend /\ mm' = r.mm /\ StartFrame /\ UNCHANGED pages
           ELSE StartFails("alloc")

StartTrap ==
  /\ pc = "start" /\ call.module.start
  /\ fuel > 0
  /\ StartFails("guest")

StartOutOfFuel ==
  /\ pc = "start" /\ call.module.start
  /\ fuel = 0
  /\ StartFails("fuel")

\* mutant of entry_points: validate looks up only the function it calls
entry_points_called(c) == IF c.op = "validate" THEN c.module.init_check ELSE c.module.main

\* validate wants both entry points, execute main_function.
entry_points(c) == c.module.main /\ (c.op = "validate" => c.module.init_check)

\* The start function, if there is one, has returned: the host looks up the entry
\* points and calls one.
EnterGuest ==
  /\ pc = "start"
  /\ IF entry_points(call)
       THEN pc' = "read_state" /\ UNCHANGED <<storeVars, guestVars, answerVars>>
       ELSE Finish(Failure("EntryPointNotFound"), observed)
  /\ UNCHANGED <<limits, call, trap>>

Trap(why) ==
  /\ pc' = "trapped"
  /\ trap' = why
  /\ UNCHANGED local

Continue(next, locals) ==
  /\ pc' = next
  /\ local' = locals
  /\ UNCHANGED trap

ErrorData(text) == IF call.op = "execute" THEN result_error(text) ELSE check_error(text)

\* An Err of try_execute_contract or try_check_init_data: its message is
\* stored, and a store that fails too makes the entry point return 0.
AnswerError(text) ==
  Continue("store", [local EXCEPT !.out = ErrorData(text), !.last = TRUE])

Read(i, parse, name) ==
  read_and_parse(mm, call.module.exported, u32_as_i32(ptrs[i]), parse, name)

GuestFrame == UNCHANGED <<limits, call, ptrs, answerVars>>

ReadState ==
  LET r == Read(1, ParseState, "State")
      got == [local EXCEPT !.state = r.val]
  IN  /\ pc = "read_state"
      /\ Spend
      /\ CASE r.kind = "trap" -> Trap("host")
           [] r.kind = "ok" ->
                Continue(IF call.op = "execute" THEN "read_event" ELSE "callback", got)
           [] r.kind = "err" ->
                IF call.op = "execute"
                  THEN Continue("read_init", [local EXCEPT !.first = r.val])
                  ELSE AnswerError(r.val)
      /\ GuestFrame /\ UNCHANGED <<mm, pages, result_ptr>>

ReadInit ==
  LET r == Read(2, ParseState, "Init State")
  IN  /\ pc = "read_init"
      /\ Spend
      /\ CASE r.kind = "trap" -> Trap("host")
           [] r.kind = "ok" -> Continue("read_event", [local EXCEPT !.state = r.val])
           [] r.kind = "err" -> AnswerError(FallbackFailed(local.first, r.val))
      /\ GuestFrame /\ UNCHANGED <<mm, pages, result_ptr>>

ReadEvent ==
  LET r == Read(3, ParseEvent, "Event")
  IN  /\ pc = "read_event"
      /\ Spend
      /\ CASE r.kind = "trap" -> Trap("host")
           [] r.kind = "ok" -> Continue("callback", [local EXCEPT !.event = r.val])
           [] r.kind = "err" -> AnswerError(r.val)
      /\ GuestFrame /\ UNCHANGED <<mm, pages, result_ptr>>

OWNER_FLAG == 1

\* The flag execute passes to main_function.
owner_flag(is_owner) == IF is_owner THEN 1 ELSE 0

RunMain ==
  LET is_owner == owner_flag(call.is_owner) = OWNER_FLAG
      run == callback(call.module.logic[local.event], is_owner, new(local.state))
  IN  /\ pc = "callback"
      /\ call.op = "execute"
      /\ Spend
      /\ IF run.status = "panicked"
           THEN Trap("guest")
           ELSE Continue("store", [local EXCEPT !.out = result_data(run.result),
                                                !.last = ToVec[run.result.state] = Fails])
      /\ GuestFrame /\ UNCHANGED <<mm, pages, result_ptr>>

RunInitCheck ==
  LET run == callback(call.module.init_logic[local.state], FALSE, new(""))
  IN  /\ pc = "callback"
      /\ call.op = "validate"
      /\ Spend
      /\ IF run.status = "panicked"
           THEN Trap("guest")
           ELSE Continue("store", [local EXCEPT !.out = check_data(run.result),
                                                !.last = ~run.result.success])
      /\ GuestFrame /\ UNCHANGED <<mm, pages, result_ptr>>

OutBytes == IF call.op = "execute" THEN borsh_result(local.out) ELSE borsh_check(local.out)

ReturnError == IF call.op = "execute" THEN ERR_RETURN_RESULT ELSE ERR_RETURN_INIT_RESULT

\* store, up to the allocation.  A null pointer is an error of store: the error
\* message is stored instead, and if that fails 0 is returned.
StoreAlloc ==
  LET r == env_alloc(mm, Len(OutBytes))
      refused == Len(OutBytes) > I32Max \/ (r.ok /\ r.val = 0)
  IN  /\ pc = "store"
      /\ Spend
      /\ mm' = IF Len(OutBytes) > I32Max THEN mm ELSE r.mm
      /\ result_ptr' = IF r.ok THEN r.val ELSE 0
      /\ IF refused /\ ~local.last THEN AnswerError(<<ReturnError>>)
         ELSE IF refused THEN Continue("returned", local)
         ELSE IF ~r.ok THEN Trap("alloc")
         ELSE Continue("write", local)
      /\ GuestFrame /\ UNCHANGED pages

StoreWrite ==
  LET r == env_write_bytes(mm, OutBytes, call.module.exported, result_ptr, 0, Len(OutBytes))
  IN  /\ pc = "write"
      /\ Spend
      /\ mm' = r.mm
      /\ IF r.ok THEN Continue("returned", local) ELSE Trap("host")
      /\ GuestFrame /\ UNCHANGED <<pages, result_ptr>>

\* Anything else the guest does: it computes, and may grow its linear memory.
\* The store traps on a growth past its limit.
GuestWork(growth) ==
  /\ pc \in GuestSteps
  /\ Spend
  /\ IF pages + growth <= mm.store_limits.memory_size
       THEN pages' = pages + growth /\ Continue(pc, local)
       ELSE UNCHANGED pages /\ Trap("memory")
  /\ GuestFrame /\ UNCHANGED <<mm, result_ptr>>

GuestOutOfFuel ==
  /\ pc \in GuestSteps
  /\ fuel = 0
  /\ Trap("fuel")
  /\ GuestFrame /\ UNCHANGED <<mm, fuel, pages, result_ptr>>

-----------------------------------------------------------------------------
(***************************************************************************)
(* The host after the guest stopped.                                       *)
(***************************************************************************)

check_init_result(m, ptr) ==
  LET r == read_data(m, i32_as_u32(ptr))
      check == decode_check(r.val)
  IN  IF ~r.ok THEN Failure("MemoryAllocationFailed")
      ELSE IF check = Fails THEN Failure("SerializationError")
      ELSE IF check.success THEN Success(check_ok)
      ELSE Failure("ContractExecutionFailed")

get_execution_result(m, ptr) ==
  LET r == read_data(m, i32_as_u32(ptr))
      data == decode_result(r.val)
  IN  IF ~r.ok THEN Failure("MemoryAllocationFailed")
      ELSE IF data = Fails THEN Failure("SerializationError")
      ELSE IF data.final_state \notin ValueDoc THEN Failure("SerializationError")
      ELSE Success(data)

HostFrame == UNCHANGED <<limits, call, trap>>

ConcludeValidate ==
  /\ pc \in {"returned", "trapped"}
  /\ call.op = "validate"
  /\ Finish(IF pc = "returned" THEN check_init_result(mm, result_ptr)
            ELSE Failure("ContractExecutionFailed"),
            observed)
  /\ HostFrame

ConcludeExecute ==
  LET label == IF pc = "returned" THEN "success" ELSE "error"
      fuel_exhausted == pc = "trapped" /\ trap = "fuel"
  IN  /\ pc \in {"returned", "trapped"}
      /\ call.op = "execute"
      /\ Finish(IF pc = "returned" THEN get_execution_result(mm, result_ptr)
                ELSE IF fuel_exhausted THEN Failure("OutOfFuel")
                ELSE Failure("ContractExecutionFailed"),
                [observed EXCEPT !.samples = label,
                                 !.fuel_consumed = MAX_FUEL - fuel,
                                 !.memory = IF call.module.exported THEN pages ELSE 0,
                                 !.exhausted = fuel_exhausted])
      /\ HostFrame

Step ==
  \/ GuestOutOfFuel
  \/ \E growth \in {0, 1} : GuestWork(growth) \/ StartWork(growth)
  \/ StartTrap \/ StartOutOfFuel
  \/ \E len \in StartLengths : StartAlloc(len)
  \/ CheckImports \/ Stage \/ Instantiate \/ EnterGuest
  \/ ReadState \/ ReadInit \/ ReadEvent
  \/ RunMain \/ RunInitCheck
  \/ StoreAlloc \/ StoreWrite
  \/ ConcludeValidate \/ ConcludeExecute

Next == Step \/ \E c \in Calls : Submit(c)

\* A runtime that has started on a call keeps going: nothing in it waits.
Spec == Init /\ [][Next]_vars /\ WF_vars(Step)

-----------------------------------------------------------------------------
(***************************************************************************)
(* Properties.                                                             *)
(***************************************************************************)

TrapReasons == {"none", "host", "guest", "memory", "alloc", "fuel"}

\* Every variable has its type: fuel stays inside the budget it was set to
\* (Store::set_fuel), linear memory inside the store's limit.
TypeOK ==
  /\ limits \in Limits
  /\ pc \in PcValues
  /\ call \in Calls \cup {NoCall}
  /\ ManagerType(mm)
  /\ ptrs \in Seq(U32)
  /\ fuel \in 0..(IF call = NoCall THEN 0 ELSE Budget)
  /\ pages \in Nat
  /\ pc \in GuestSteps \cup {"start"} => pages <= mm.store_limits.memory_size
  /\ result_ptr \in I32
  /\ trap \in TrapReasons
  /\ validated \subseteq {c.module : c \in Calls}

\* The inputs execute_inner and validate_inner stage stay as they were written
\* until the call is answered, through every allocation and write the guest
\* makes (write_contract_data against alloc and write_bytes).
StagedInputsSurvive ==
  \A i \in DOMAIN ptrs :
    LET r == read_data(mm, ptrs[i])
    IN  r.ok /\ r.val = borsh_data(Inputs(call)[i])

\* No import refuses the SDK what it asks for except an allocation, and no input
\* the host staged is one the guest cannot read back: the guest's limits
\* (validate_host_len) and the host's (checked_guest_len, read_bytes,
\* write_bytes) agree on every input and result.
SdkCallsSucceed ==
  LET Unread(text) == \E i \in DOMAIN text :
                        /\ text[i] \in {"Cannot read", "Cannot deserialize"}
                        /\ i < Len(text)
                        /\ text[i + 1] \in {"State", "Init State", "Event"}
  IN  /\ trap = "host" => ~call.module.exported
      /\ ~Unread(local.first)
      /\ local.out # Fails => ~Unread(local.out.error)

\* When an entry point returns, its pointer names the result and no staged
\* input: reading offset 0, where the first input is, as a result is what
\* `unwrap_or(0)` in execute_contract and check_init_data would lead to.
ResultIsFresh ==
  pc = "returned" =>
    /\ result_ptr # 0
    /\ \A i \in DOMAIN ptrs : ptrs[i] # i32_as_u32(result_ptr)
    /\ read_data(mm, i32_as_u32(result_ptr)) = Ok(mm, OutBytes)

StagedSize(doc) == U32_BYTES + Size[doc]

\* The inputs of the call each fit the single allocation cap, and the total.
InputsFit ==
  /\ \A i \in DOMAIN Inputs(call) : StagedSize(Inputs(call)[i]) <= limits.max_single_alloc
  /\ IF call.op = "validate"
       THEN StagedSize(call.init_state) <= limits.max_total_memory
       ELSE StagedSize(call.state) + StagedSize(call.init_state) + StagedSize(call.event)
              <= limits.max_total_memory

\* A node answers MemoryAllocationFailed exactly when the inputs of the call do
\* not fit its caps: a full backing store never makes it refuse a result it
\* can see (write_contract_data against get_execution_result and
\* check_init_result, which use the same error).
RefusalMeansInputsTooBig ==
  pc = "done" /\ call # NoCall /\ result \notin {Failure(k) : k \in InvalidModuleKinds} =>
    (result = Failure("MemoryAllocationFailed") <=> ~InputsFit)

Call == INSTANCE ContractCall WITH status <- IF pc = "done" THEN "done" ELSE "running"

\* The metrics of an execution agree with its answer: execute counts what the
\* contract decided, execute_inner samples fuel and memory under whether the
\* guest returned, and the out-of-fuel counter goes up exactly with OutOfFuel.
\* The two labels disagree only on a final state the host cannot parse.
MetricsAgree ==
  pc = "done" /\ call # NoCall /\ call.op = "execute" =>
    /\ observed.execution = "error" <=> ~result.ok
    /\ observed.execution = "accepted" => Call!Verdict(call).success
    /\ observed.execution = "rejected" => ~Call!Verdict(call).success
    /\ observed.samples = "success" <=>
         result.ok \/ result = Failure("SerializationError")
    /\ observed.exhausted <=> result = Failure("OutOfFuel")
    /\ observed.exhausted => observed.fuel_consumed = MAX_FUEL
    /\ observed.memory <= limits.memory_size

\* A module this runtime has accepted can be linked and entered by every later
\* execute: what validate checked of it, its interface, its memory and its table,
\* is what execute_inner asks again.  Only the module's own start function can
\* still fail: validate runs it on the larger MAX_FUEL_COMPILATION and next to
\* one staged input, execute next to three.
ValidatedModulesRun ==
  pc = "done" /\ call # NoCall /\ call.op = "execute" /\ call.module \in validated =>
    /\ result # Failure("EntryPointNotFound")
    /\ result = Failure("InstantiationFailed") => call.module.start /\ trap # "none"

\* The runtime implements ContractCall: whatever the node's limits, the guest's
\* growth and the point at which fuel runs out, an answer that is not a
\* RuntimeError is the verdict the call alone determines.
ImplementsContractCall == Call!Spec

\* Every call is answered: fuel runs out on a guest that does not stop by itself
\* (consume_fuel in create_secure_wasmtime_config).
CallsEnd == pc # "done" ~> pc = "done"

\* What RuntimeError::OutOfFuel and the comment in execute_inner say: running out
\* of fuel is a typed, deterministic answer callers can tell from a broken node.
FuelExhaustionTyped ==
  pc = "done" /\ trap = "fuel" => result = Failure("OutOfFuel")

\* What the SDK is written for (store, Error::HostAllocationFailed): a refused
\* allocation is a null pointer the guest sees, and never ends the guest.
RefusedAllocationIsNull == trap # "alloc"

=============================================================================
