-------------------------------- MODULE Fleet --------------------------------
(***************************************************************************)
(* Nodes of different hosts and engine versions that handle the same       *)
(* contract and the same call.  A node compiles the contract or loads what *)
(* it persisted before (ContractRuntime::compile, ::load_precompiled),     *)
(* executes the call, and is restarted, on another host or with another    *)
(* engine.  The node's own program, which persists bytes and restarts, is  *)
(* outside the repository.                                                 *)
(*                                                                         *)
(* A host is the machine spec the runtime is given, or NoSpec, and its     *)
(* CPU.  A contract is its bytes, the engines that take them for a valid   *)
(* binary, and what those find in them.  A call is the sizes of its staged *)
(* inputs, what the guest does with resources, in order, and the verdict   *)
(* it comes to.                                                            *)
(***************************************************************************)
EXTENDS WasmLimits, DeclaredMemory

CONSTANTS
  Node,
  Hosts,       \* the hosts a node can run on: [spec, cpu : [arch, features]]
  Versions,    \* engine versions
  Questions,   \* pairs of a contract and a call
  MAX_FUEL,
  Nothing      \* no module, no bytes, no answer

Machines == {h.spec : h \in Hosts}

\* An engine finds in a valid binary the memory declared_min_memory_bytes reads
\* from it: the subject of MCDeclaredMemory and DeclaredMemory_proofs.  It is
\* not so of a 64-bit memory, the minimum of which need not fit a u32.
ASSUME ContractsAssumption ==
  \A q \in Questions :
    /\ q.contract.memory \in Nat
    /\ q.contract.valid_for # {} =>
         declared_min_memory_bytes(q.contract.wasm) = Some(q.contract.memory, 0)

\* A machine's core count times 256 fits a usize.
ASSUME MachinesAssumption ==
  \A m \in Machines \ {NoSpec} :
    m.ram_mb \in Nat /\ m.cpu_cores \in Nat /\ 256 * m.cpu_cores <= UsizeMax

CompileAnswers == {"ExcessiveMemory", "PrecompileFailed", "compiled"}
LoadAnswers == {"loaded", "DeserializationFailed"}
Errors == {"MemoryAllocationFailed", "InstantiationFailed", "ContractExecutionFailed", "OutOfFuel"}
ExecuteAnswers == Errors \cup {q.call.verdict : q \in Questions}

\* A call asks for amounts of resources, and a verdict is not an error.
ASSUME CallsAssumption ==
  /\ MAX_FUEL \in Nat
  /\ \A q \in Questions :
       /\ q.contract.table \in Nat
       /\ q.call.inputs \in Seq(Nat)
       /\ q.call.guest \in Seq([kind : {"burn", "grow_memory", "grow_table", "alloc"}, n : Nat])
       /\ q.call.verdict \notin CompileAnswers \cup LoadAnswers \cup Errors
       /\ q.call.verdict # Nothing
  /\ Nothing \notin CompileAnswers \cup LoadAnswers \cup Errors

VARIABLES
  question,   \* the contract and the call at issue
  host,       \* the host of a node
  version,    \* the version of its engine
  module,     \* the module it has in memory: Nothing or its code
  persisted,  \* the code on its disk
  answer      \* its last answer: of compile, load_precompiled or execute

vars == <<question, host, version, module, persisted, answer>>

contract == question.contract

limits(n) == limits_of(host[n].spec)

\* The compatibility of an engine's code is its version, its configuration and
\* the target it inferred; the fingerprint a node publishes is a digest of it.
engine(n) == create_secure_wasmtime_config(limits(n), version[n], host[n].cpu)
engine_fingerprint(n) == engine(n)

Init ==
  /\ question \in Questions
  /\ host \in [Node -> Hosts]
  /\ version \in [Node -> Versions]
  /\ module = [n \in Node |-> Nothing]
  /\ persisted = [n \in Node |-> Nothing]
  /\ answer = [n \in Node |-> Nothing]

-----------------------------------------------------------------------------

\* mutant of gate: what this node can instantiate, not the smallest one
gate_local(wasm, n) ==
  LET min == declared_min_memory_bytes(wasm)
  IN  min.some /\ min.val > limits(n).memory_size

\* The binary provably asks for more memory than the smallest node has.
gate(wasm, n) ==
  LET min == declared_min_memory_bytes(wasm)
  IN  min.some /\ min.val > MIN_FLEET_MEMORY_BYTES

\* Which features of WebAssembly an engine takes depends on its version and on
\* the architecture it compiles for.
precompiles(n) == <<version[n], host[n].cpu.arch>> \in contract.valid_for

\* compile; its caller persists the bytes, or dies before it could.
Compile(n) ==
  LET code == [wasm |-> contract.wasm, by |-> engine(n)]
      result == IF gate(contract.wasm, n) THEN "ExcessiveMemory"
                ELSE IF ~precompiles(n) THEN "PrecompileFailed" ELSE "compiled"
  IN  /\ answer' = [answer EXCEPT ![n] = result]
      /\ IF result = "compiled"
           THEN /\ module' = [module EXCEPT ![n] = code]
                /\ \E kept \in {code, persisted[n]} :
                     persisted' = [persisted EXCEPT ![n] = kept]
           ELSE UNCHANGED <<module, persisted>>
      /\ UNCHANGED <<question, host, version>>

\* mutant of deserialize: takes code of any engine
deserialize_any(n, code) == TRUE

\* A CPU runs code made for another one of its architecture if it has the
\* features that one had.
supports(cpu, target) == target.arch = cpu.arch /\ target.features \subseteq cpu.features

\* Module::deserialize compares the version and configuration of the code's engine
\* with its own, and the features the code was made for with those of the host.
deserialize(n, code) ==
  /\ [code.by EXCEPT !.target = host[n].cpu] = engine(n)
  /\ supports(host[n].cpu, code.by.target)

LoadPrecompiled(n) ==
  /\ persisted[n] # Nothing
  /\ IF deserialize(n, persisted[n])
       THEN /\ module' = [module EXCEPT ![n] = persisted[n]]
            /\ answer' = [answer EXCEPT ![n] = "loaded"]
       ELSE /\ answer' = [answer EXCEPT ![n] = "DeserializationFailed"]
            /\ UNCHANGED module
  /\ UNCHANGED <<question, host, version, persisted>>

\* The node's process starts again with what it persisted.
Restart(n) ==
  /\ \E h \in Hosts, v \in Versions :
       /\ host' = [host EXCEPT ![n] = h]
       /\ version' = [version EXCEPT ![n] = v]
  /\ module' = [module EXCEPT ![n] = Nothing]
  /\ answer' = [answer EXCEPT ![n] = Nothing]
  /\ UNCHANGED <<question, persisted>>

-----------------------------------------------------------------------------
(***************************************************************************)
(* execute, on limits l.                                                   *)
(***************************************************************************)

\* MemoryManager::alloc of n bytes when `used` are in use
grants(l, used, n) == n <= l.max_single_alloc /\ used + n <= l.max_total_memory

\* mutant of host_alloc: passes on the memory manager's own error
host_alloc_raw(l, error, st, n) ==
  IF st.stop # "no" THEN st
  ELSE IF grants(l, st.host, n) THEN [st EXCEPT !.host = @ + n]
  ELSE [st EXCEPT !.stop = "MemoryLimitExceeded"]

\* A store: the host memory in use, the guest's memory and table, its fuel, and
\* the error that stopped it.
host_alloc(l, error, st, n) ==
  IF st.stop # "no" THEN st
  ELSE IF grants(l, st.host, n) THEN [st EXCEPT !.host = @ + n]
  ELSE [st EXCEPT !.stop = error]

\* The engine instantiates the module inside the limits of the store.
instantiated(l, st) ==
  IF st.stop = "no" /\ (st.memory > l.memory_size \/ st.table > l.max_table_elements)
    THEN [st EXCEPT !.stop = "InstantiationFailed"] ELSE st

\* What the guest does: burn fuel, grow its memory or its table, allocate.
guest_step(l, st, op) ==
  IF st.stop # "no" THEN st
  ELSE CASE op.kind = "burn" ->
              IF op.n > st.fuel THEN [st EXCEPT !.stop = "OutOfFuel"]
              ELSE [st EXCEPT !.fuel = @ - op.n]
         [] op.kind = "grow_memory" ->
              IF st.memory + op.n > l.memory_size
                THEN [st EXCEPT !.stop = "ContractExecutionFailed"]
                ELSE [st EXCEPT !.memory = @ + op.n]
         [] op.kind = "grow_table" ->
              IF st.table + op.n > l.max_table_elements
                THEN [st EXCEPT !.stop = "ContractExecutionFailed"]
                ELSE [st EXCEPT !.table = @ + op.n]
         [] op.kind = "alloc" -> host_alloc(l, "ContractExecutionFailed", st, op.n)

\* What execute_inner does to its store, in order: it stages the inputs,
\* instantiates the module and runs the guest.
program(q) ==
  [i \in DOMAIN q.call.inputs |-> [kind |-> "stage", n |-> q.call.inputs[i]]]
    \o <<[kind |-> "instantiate", n |-> 0]>> \o q.call.guest

step(l, st, op) ==
  CASE op.kind = "stage" -> host_alloc(l, "MemoryAllocationFailed", st, op.n)
    [] op.kind = "instantiate" -> instantiated(l, st)
    [] OTHER -> guest_step(l, st, op)

opened(q) ==
  [host |-> 0, memory |-> q.contract.memory, table |-> q.contract.table,
   fuel |-> MAX_FUEL, stop |-> "no"]

\* The store after every step of the program.
stores(q, l) ==
  LET st[i \in 0..Len(program(q))] ==
        IF i = 0 THEN opened(q) ELSE step(l, st[i - 1], program(q)[i])
  IN  st

execute(q, l) ==
  LET stop == stores(q, l)[Len(program(q))].stop
  IN  IF stop = "no" THEN q.call.verdict ELSE stop

Execute(n) ==
  /\ module[n] # Nothing
  /\ answer' = [answer EXCEPT ![n] = execute(question, limits(n))]
  /\ UNCHANGED <<question, host, version, module, persisted>>

Next == \E n \in Node : Compile(n) \/ LoadPrecompiled(n) \/ Execute(n) \/ Restart(n)

Spec == Init /\ [][Next]_vars

-----------------------------------------------------------------------------
(***************************************************************************)
(* Properties.                                                             *)
(***************************************************************************)

Code == [wasm : {q.contract.wasm : q \in Questions},
         by : {create_secure_wasmtime_config(limits_of(h.spec), v, h.cpu) :
                 h \in Hosts, v \in Versions}]

\* Every variable has its type.
TypeOK ==
  /\ question \in Questions
  /\ host \in [Node -> Hosts]
  /\ version \in [Node -> Versions]
  /\ module \in [Node -> Code \cup {Nothing}]
  /\ persisted \in [Node -> Code \cup {Nothing}]
  /\ answer \in [Node -> CompileAnswers \cup LoadAnswers \cup ExecuteAnswers \cup {Nothing}]

\* Whatever a node has in memory or on disk, the linear memory it declares can
\* be instantiated on every machine, by the node itself after a restart and
\* by every other node: the gate of compile against the floor of
\* WasmLimits::build, with load_precompiled, which has no gate.
AcceptedMemoryFits ==
  \A n \in Node :
    {module[n], persisted[n]} # {Nothing} =>
      \A m \in Machines : contract.memory <= limits_of(m).memory_size

\* A binary one node refuses for its memory every node that compiles it refuses
\* for its memory (contract_runtime.rs:101: "deterministic fleet-wide"), whatever
\* their engines take, and nodes of one version and architecture come to the same
\* answer, whatever their RAM, cores and CPU features.
CompileAgrees ==
  \A a, b \in Node :
    {answer[a], answer[b]} \subseteq CompileAnswers =>
      /\ answer[a] = "ExcessiveMemory" <=> answer[b] = "ExcessiveMemory"
      /\ version[a] = version[b] /\ host[a].cpu.arch = host[b].cpu.arch =>
           answer[a] = answer[b]

\* A node runs only code of its own engine version, made for features its CPU
\* has; nodes of one version and CPU publish one fingerprint; and persisted code
\* is refused only after an upgrade or on a CPU that lacks what it was made for,
\* never because the machine has other RAM or cores than the one it was made on
\* (create_secure_wasmtime_config, load_precompiled, engine_fingerprint).
CodeMatchesEngine ==
  \A a, b \in Node :
    /\ module[a] # Nothing =>
         module[a].by.version = version[a] /\ supports(host[a].cpu, module[a].by.target)
    /\ version[a] = version[b] /\ host[a].cpu = host[b].cpu =>
         engine_fingerprint(a) = engine_fingerprint(b)
    /\ answer[a] = "DeserializationFailed" =>
         \/ persisted[a].by.version # version[a]
         \/ ~supports(host[a].cpu, persisted[a].by.target)

\* No smaller in RAM or cores.
AtLeast(m, k) ==
  /\ m # NoSpec /\ k # NoSpec
  /\ m.ram_mb >= k.ram_mb /\ m.cpu_cores >= k.cpu_cores

\* Where two machines answer a call differently, the smaller one ran into a limit
\* of its own: a verdict or an OutOfFuel given on one machine is the answer on
\* every larger one, and inputs the larger has no memory for the smaller has
\* not either.  The limits of WasmLimits::build grow together, and fuel does not
\* scale.
LargerNodeAgrees ==
  \A a, b \in Node :
    /\ AtLeast(host[a].spec, host[b].spec)
    /\ {answer[a], answer[b]} \subseteq ExecuteAnswers
    /\ answer[a] # answer[b]
    => /\ answer[b] \in Errors \ {"OutOfFuel"}
       /\ answer[a] # "MemoryAllocationFailed"

\* "the smallest compliant node must instantiate anything the fleet accepts"
\* (config.rs:52-53)
AcceptedInstantiates ==
  \A n \in Node : module[n] # Nothing => answer[n] # "InstantiationFailed"

=============================================================================
