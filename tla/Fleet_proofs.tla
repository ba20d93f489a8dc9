----------------------------- MODULE Fleet_proofs -----------------------------
(***************************************************************************)
(* What holds of a fleet of any machines, engine versions, contracts and   *)
(* calls: a contract some node has accepted fits the memory of every node, *)
(* and code runs only on an engine that would have made it, or on one of   *)
(* its version whose CPU has the features it was made for.                 *)
(***************************************************************************)
EXTENDS Fleet, SequenceTheorems, WellFoundedInduction, NaturalsInduction, TLAPS

(***************************************************************************)
(* WasmLimits::build for every machine: its clamps keep every limit in its *)
(* range, the limits fit each other, and they grow together.               *)
(***************************************************************************)

\* What clamp gives is in the range, whatever it is given (u64::clamp).
LEMMA ClampBounds ==
  ASSUME NEW n \in Int, NEW lo \in Int, NEW hi \in Int, lo <= hi
  PROVE  clamp(n, lo, hi) \in lo..hi
BY DEF clamp

\* clamp keeps the order of its arguments (u64::clamp).
LEMMA ClampMonotone ==
  ASSUME NEW n \in Int, NEW k \in Int, NEW lo \in Int, NEW hi \in Int, lo <= hi, n <= k
  PROVE  clamp(n, lo, hi) <= clamp(k, lo, hi)
BY DEF clamp

\* More steps of 512 MiB are more MiB, before and after saturation.
LEMMA ProductMonotone ==
  ASSUME NEW a \in Nat, NEW b \in Nat, NEW c \in Nat, a <= b
  PROVE  /\ a * c \in Nat
         /\ b * c \in Nat
         /\ a * c <= b * c
<1>1. a * c \in Nat /\ b * c \in Nat
  OBVIOUS
<1>2. PICK d \in Nat : b = a + d
  <2>1. b - a \in Nat /\ b = a + (b - a)
    OBVIOUS
  <2> QED BY <2>1
<1>3. b * c = a * c + d * c
  BY <1>2
<1>4. d * c \in Nat
  BY <1>2
<1> QED BY <1>1, <1>3, <1>4

\* What is left of a product after saturation, clamp and conversion to usize is
\* in the range of the clamp.
LEMMA ConversionBounds ==
  ASSUME NEW p \in Int, NEW lo \in Nat, NEW hi \in Nat, lo <= hi, hi <= UsizeMax
  PROVE  to_usize(clamp(clamp(p, 0, U64Max), lo, hi)) \in lo..hi
BY LimitsWidthAssumption DEF to_usize, clamp

\* Saturation, clamp and conversion keep the order of products.
LEMMA ConversionMonotone ==
  ASSUME NEW p \in Int, NEW q \in Int, p <= q,
         NEW lo \in Nat, NEW hi \in Nat, lo <= hi, hi <= UsizeMax
  PROVE  to_usize(clamp(clamp(p, 0, U64Max), lo, hi))
           <= to_usize(clamp(clamp(q, 0, U64Max), lo, hi))
BY LimitsWidthAssumption DEF to_usize, clamp

\* A limit that scales with RAM is in its range (WasmLimits::build).
LEMMA ScaledBounds ==
  ASSUME NEW ram_mb \in Nat, NEW rate \in Nat, NEW lo \in Nat, NEW hi \in Nat,
         lo <= hi, hi <= UsizeMax
  PROVE  scaled(ram_mb, rate, lo, hi) \in lo..hi
<1>1. PICK p \in Int : p = (ram_mb \div 512) * (rate * MiB)
  <2>1. ram_mb \div 512 \in Nat /\ rate * MiB \in Nat
    BY LimitsWidthAssumption
  <2> QED BY <2>1, ProductMonotone
<1>2. to_usize(clamp(clamp(p, 0, U64Max), lo, hi)) \in lo..hi
  BY ConversionBounds
<1> QED BY <1>1, <1>2 DEF scaled, saturating_mul

\* More RAM never lowers a limit that scales with it (WasmLimits::build).
LEMMA ScaledMonotone ==
  ASSUME NEW small \in Nat, NEW large \in Nat, small <= large,
         NEW rate \in Nat, NEW lo \in Nat, NEW hi \in Nat, lo <= hi, hi <= UsizeMax
  PROVE  scaled(small, rate, lo, hi) <= scaled(large, rate, lo, hi)
<1>1. PICK p, q \in Int : /\ p = (small \div 512) * (rate * MiB)
                          /\ q = (large \div 512) * (rate * MiB)
                          /\ p <= q
  <2>1. small \div 512 \in Nat /\ large \div 512 \in Nat /\ rate * MiB \in Nat
    BY LimitsWidthAssumption
  <2>2. small \div 512 <= large \div 512
    OBVIOUS
  <2> QED BY <2>1, <2>2, ProductMonotone
<1>2. to_usize(clamp(clamp(p, 0, U64Max), lo, hi))
        <= to_usize(clamp(clamp(q, 0, U64Max), lo, hi))
  BY <1>1, ConversionMonotone
<1> QED BY <1>1, <1>2 DEF scaled, saturating_mul

\* On every machine the linear memory is between the fleet's floor and the
\* ceiling, the host's caps are in their ranges, and three inputs of the largest
\* single allocation fit the total (WasmLimits::build).
THEOREM LimitsBounded ==
  ASSUME NEW ram_mb \in Nat, NEW cpu_cores \in Nat
  PROVE  LET built == build(ram_mb, cpu_cores)
         IN  /\ built.memory_size \in MIN_FLEET_MEMORY_BYTES..MAX_MEMORY_BYTES
             /\ built.max_total_memory \in (3 * MiB)..(24 * MiB)
             /\ built.max_single_alloc \in MiB..(8 * MiB)
             /\ 3 * built.max_single_alloc <= built.max_total_memory
             /\ built.max_table_elements \in 512..2048
<1> DEFINE total == scaled(ram_mb, 3, 3 * MiB, 24 * MiB)
           cores == clamp(cpu_cores, 2, UsizeMax)
<1>1. scaled(ram_mb, 4, MIN_FLEET_MEMORY_BYTES, MAX_MEMORY_BYTES)
        \in MIN_FLEET_MEMORY_BYTES..MAX_MEMORY_BYTES
  BY ScaledBounds, LimitsWidthAssumption DEF MIN_FLEET_MEMORY_BYTES, MAX_MEMORY_BYTES
<1>2. total \in (3 * MiB)..(24 * MiB)
  BY ScaledBounds, LimitsWidthAssumption
<1> HIDE DEF total
<1>3. clamp(total \div 3, MiB, 8 * MiB) = total \div 3
  BY <1>2, LimitsWidthAssumption DEF clamp
<1>4. total \div 3 \in MiB..(8 * MiB) /\ 3 * (total \div 3) <= total
  BY <1>2, LimitsWidthAssumption
<1>5. cores \in 2..UsizeMax
  BY ClampBounds, LimitsWidthAssumption
<1> HIDE DEF cores
<1>6. clamp(256 * cores, 0, 2048) \in 512..2048
  BY <1>5, LimitsWidthAssumption DEF clamp
<1>7. build(ram_mb, cpu_cores) =
        [max_wasm_stack |-> MiB,
         memory_size |-> scaled(ram_mb, 4, MIN_FLEET_MEMORY_BYTES, MAX_MEMORY_BYTES),
         max_total_memory |-> total,
         max_single_alloc |-> clamp(total \div 3, MiB, 8 * MiB),
         max_table_elements |-> clamp(256 * cores, 0, 2048)]
  BY DEF build, total, cores
<1> QED BY <1>1, <1>2, <1>3, <1>4, <1>6, <1>7

\* A machine with no less RAM and no fewer cores has no smaller limit, whatever
\* saturates on the way (WasmLimits::build).
THEOREM LimitsMonotone ==
  ASSUME NEW small \in Nat, NEW large \in Nat, small <= large,
         NEW few \in Nat, NEW many \in Nat, few <= many
  PROVE  LET s == build(small, few)
             l == build(large, many)
         IN  /\ s.memory_size <= l.memory_size
             /\ s.max_total_memory <= l.max_total_memory
             /\ s.max_single_alloc <= l.max_single_alloc
             /\ s.max_table_elements <= l.max_table_elements
<1> DEFINE total(ram_mb) == scaled(ram_mb, 3, 3 * MiB, 24 * MiB)
           cores(n) == clamp(n, 2, UsizeMax)
<1>1. scaled(small, 4, MIN_FLEET_MEMORY_BYTES, MAX_MEMORY_BYTES)
        <= scaled(large, 4, MIN_FLEET_MEMORY_BYTES, MAX_MEMORY_BYTES)
  BY ScaledMonotone, LimitsWidthAssumption DEF MIN_FLEET_MEMORY_BYTES, MAX_MEMORY_BYTES
<1>2. total(small) <= total(large)
  BY ScaledMonotone, LimitsWidthAssumption
<1>3. total(small) \in Nat /\ total(large) \in Nat
  <2>1. 3 * MiB \in Nat /\ 24 * MiB \in Nat /\ 3 * MiB <= 24 * MiB /\ 24 * MiB <= UsizeMax
    BY LimitsWidthAssumption
  <2>2. total(small) \in (3 * MiB)..(24 * MiB)
    BY <2>1, ScaledBounds
  <2>3. total(large) \in (3 * MiB)..(24 * MiB)
    BY <2>1, ScaledBounds
  <2> QED BY <2>1, <2>2, <2>3
<1>4. cores(few) \in Int /\ cores(many) \in Int /\ cores(few) <= cores(many)
  BY ClampBounds, ClampMonotone, LimitsWidthAssumption
<1> HIDE DEF total, cores
<1>5. clamp(total(small) \div 3, MiB, 8 * MiB) <= clamp(total(large) \div 3, MiB, 8 * MiB)
  <2>1. total(small) \div 3 \in Int /\ total(large) \div 3 \in Int
    BY <1>3
  <2>2. total(small) \div 3 <= total(large) \div 3
    BY <1>2, <1>3
  <2> QED BY <2>1, <2>2, ClampMonotone, LimitsWidthAssumption
<1>6. clamp(256 * cores(few), 0, 2048) <= clamp(256 * cores(many), 0, 2048)
  <2>1. 256 * cores(few) \in Int /\ 256 * cores(many) \in Int
        /\ 256 * cores(few) <= 256 * cores(many)
    BY <1>4
  <2> QED BY <2>1, ClampMonotone
<1> QED BY <1>1, <1>2, <1>5, <1>6 DEF build, total, cores

-----------------------------------------------------------------------------
(***************************************************************************)
(* The fleet.                                                              *)
(***************************************************************************)

\* The engine of a version on a CPU and the code it makes of the contract: neither
\* depends on the RAM and the cores of the machine.
EngineOf(v, cpu) ==
  [version |-> v, target |-> cpu, consume_fuel |-> TRUE, max_wasm_stack |-> MiB,
   opt_level |-> "Speed", nan_canonicalization |-> TRUE]
CodeOf(v, cpu) == [wasm |-> contract.wasm, by |-> EngineOf(v, cpu)]
Cpus == {h.cpu : h \in Hosts}
Codes == {CodeOf(v, cpu) : v \in Versions, cpu \in Cpus}

StateShape ==
  /\ question \in Questions
  /\ host \in [Node -> Hosts]
  /\ version \in [Node -> Versions]
  /\ module \in [Node -> Codes \cup {Nothing}]
  /\ persisted \in [Node -> Codes \cup {Nothing}]

\* Code exists only of a contract that passed compile.
CodePassedCompile ==
  \A n \in Node : module[n] # Nothing \/ persisted[n] # Nothing =>
    contract.memory <= MIN_FLEET_MEMORY_BYTES

\* Code a node may run: of its version, for features its CPU has.
Runs(n, code) ==
  \E cpu \in Cpus : code = CodeOf(version[n], cpu) /\ supports(host[n].cpu, cpu)

ModuleIsOwn ==
  \A n \in Node : module[n] # Nothing => Runs(n, module[n])

\* The inductive invariant.
FleetInv == StateShape /\ CodePassedCompile /\ ModuleIsOwn

\* Every machine, the default one included, has the stack of every other and at
\* least the floor of memory (WasmLimits::build, ContractRuntime::new).
LEMMA LimitsOfMachine ==
  ASSUME NEW m \in Machines
  PROVE  /\ limits_of(m).max_wasm_stack = MiB
         /\ limits_of(m).memory_size \in Nat
         /\ MIN_FLEET_MEMORY_BYTES <= limits_of(m).memory_size
<1>1. PICK ram_mb \in Nat, cpu_cores \in Nat : limits_of(m) = build(ram_mb, cpu_cores)
  <2>1. CASE m = NoSpec
    BY <2>1 DEF limits_of, default_limits
  <2>2. CASE m # NoSpec
    BY <2>2, MachinesAssumption DEF limits_of
  <2> QED BY <2>1, <2>2
<1>2. build(ram_mb, cpu_cores).memory_size \in MIN_FLEET_MEMORY_BYTES..MAX_MEMORY_BYTES
  BY LimitsBounded
<1>3. build(ram_mb, cpu_cores).max_wasm_stack = MiB
  BY DEF build
<1> QED
  BY <1>1, <1>2, <1>3, LimitsWidthAssumption DEF MIN_FLEET_MEMORY_BYTES, MAX_MEMORY_BYTES

\* A node's engine is the engine of its version on its CPU
\* (create_secure_wasmtime_config).
LEMMA EngineIsOfVersion ==
  ASSUME StateShape, NEW n \in Node
  PROVE  /\ engine(n) = EngineOf(version[n], host[n].cpu)
         /\ host[n].cpu \in Cpus /\ version[n] \in Versions
<1>1. host[n] \in Hosts /\ version[n] \in Versions
  BY DEF StateShape
<1>2. host[n].spec \in Machines /\ host[n].cpu \in Cpus
  BY <1>1 DEF Machines, Cpus
<1>3. limits(n).max_wasm_stack = MiB
  BY <1>2, LimitsOfMachine DEF limits
<1> QED BY <1>1, <1>2, <1>3 DEF engine, create_secure_wasmtime_config, EngineOf

\* Deserialization takes the code of a version and a CPU exactly on an engine of
\* that version whose host has the features of that CPU.
LEMMA Deserializes ==
  ASSUME StateShape, NEW n \in Node, NEW v \in Versions, NEW cpu \in Cpus
  PROVE  deserialize(n, CodeOf(v, cpu)) <=> v = version[n] /\ supports(host[n].cpu, cpu)
<1>1. engine(n) = EngineOf(version[n], host[n].cpu)
  BY EngineIsOfVersion
<1>2. CodeOf(v, cpu).by = EngineOf(v, cpu)
  BY DEF CodeOf
<1>3. [EngineOf(v, cpu) EXCEPT !.target = host[n].cpu] = EngineOf(v, host[n].cpu)
  <2>1. PICK own : own = host[n].cpu
    OBVIOUS
  <2>2. [EngineOf(v, cpu) EXCEPT !.target = own] = EngineOf(v, own)
    <3> DEFINE Conf(on, target) ==
          [version |-> v, target |-> target, consume_fuel |-> on, max_wasm_stack |-> MiB,
           opt_level |-> "Speed", nan_canonicalization |-> on]
    <3>1. \A on : [Conf(on, cpu) EXCEPT !.target = own] = Conf(on, own)
      OBVIOUS
    <3>2. EngineOf(v, cpu) = Conf(TRUE, cpu) /\ EngineOf(v, own) = Conf(TRUE, own)
      BY Zenon DEF EngineOf
    <3> HIDE DEF Conf
    <3> QED BY <3>1, <3>2, Zenon
  <2> QED BY <2>1, <2>2
<1>5. EngineOf(v, cpu).target = cpu
  BY DEF EngineOf
<1>4. EngineOf(v, host[n].cpu) = EngineOf(version[n], host[n].cpu) <=> v = version[n]
  BY DEF EngineOf
<1> QED BY <1>1, <1>2, <1>3, <1>4, <1>5 DEF deserialize

\* What compile accepts is below the floor: the gate reads the memory the engine
\* will find.
LEMMA GateHolds ==
  ASSUME question \in Questions, NEW n \in Node, ~gate(contract.wasm, n), precompiles(n)
  PROVE  contract.memory <= MIN_FLEET_MEMORY_BYTES
<1>1. /\ contract.memory \in Nat
      /\ declared_min_memory_bytes(contract.wasm) = Some(contract.memory, 0)
  BY ContractsAssumption DEF contract, precompiles
<1>2. ~(contract.memory > MIN_FLEET_MEMORY_BYTES)
  BY <1>1 DEF gate, Some
<1> QED BY <1>1, <1>2, LimitsWidthAssumption DEF MIN_FLEET_MEMORY_BYTES

\* A node starts without code.
LEMMA InitFleetInv == Init => FleetInv
BY DEF Init, FleetInv, StateShape, CodePassedCompile, ModuleIsOwn

\* What a step leaves of the code of the nodes it does not touch.
LEMMA OthersRun ==
  ASSUME FleetInv, NEW n \in Node, question' = question,
         \A k \in Node \ {n} : /\ host'[k] = host[k] /\ version'[k] = version[k]
                               /\ module'[k] = module[k],
         module'[n] # Nothing => Runs(n, module[n])'
  PROVE  ModuleIsOwn'
<1> SUFFICES ASSUME NEW k \in Node, module'[k] # Nothing PROVE Runs(k, module[k])'
  BY DEF ModuleIsOwn
<1>1. CASE k = n
  BY <1>1
<1>2. CASE k # n
  <2>1. Runs(k, module[k])
    BY <1>2 DEF FleetInv, ModuleIsOwn
  <2> QED
    BY <1>2, <2>1 DEF Runs, CodeOf, contract
<1> QED BY <1>1, <1>2

\* compile makes code of its own engine, of a contract that passed the gate.
LEMMA CompileStep ==
  ASSUME FleetInv, NEW n \in Node, Compile(n)
  PROVE  FleetInv'
<1> DEFINE code == [wasm |-> contract.wasm, by |-> engine(n)]
           result == IF gate(contract.wasm, n) THEN "ExcessiveMemory"
                     ELSE IF ~precompiles(n) THEN "PrecompileFailed" ELSE "compiled"
<1>1. /\ code = CodeOf(version[n], host[n].cpu)
      /\ version[n] \in Versions /\ host[n].cpu \in Cpus
  BY EngineIsOfVersion DEF FleetInv, CodeOf
<1>2. UNCHANGED <<question, host, version>>
  BY DEF Compile
<1>3. CASE result = "compiled"
  <2>1. contract.memory <= MIN_FLEET_MEMORY_BYTES
    BY <1>3, GateHolds DEF FleetInv, StateShape
  <2>2. /\ module' = [module EXCEPT ![n] = code]
        /\ persisted' \in {[persisted EXCEPT ![n] = code], [persisted EXCEPT ![n] = persisted[n]]}
    BY <1>3 DEF Compile
  <2>3. code \in Codes
    BY <1>1 DEF Codes
  <2>4. supports(host[n].cpu, host[n].cpu)
    BY DEF supports
  <2> HIDE DEF code, result
  <2>5. StateShape'
    BY <1>2, <2>2, <2>3 DEF FleetInv, StateShape, Codes, CodeOf, contract
  <2>6. CodePassedCompile'
    BY <1>2, <2>1 DEF CodePassedCompile, contract, MIN_FLEET_MEMORY_BYTES
  <2>7. /\ module'[n] = code
        /\ \A k \in Node \ {n} : module'[k] = module[k]
    BY <2>2 DEF FleetInv, StateShape
  <2>8. Runs(n, code)
    BY <1>1, <2>4 DEF Runs
  <2>9. Runs(n, module[n])'
    BY <1>2, <2>7, <2>8 DEF Runs, CodeOf, contract
  <2>10. ModuleIsOwn'
    BY <1>2, <2>7, <2>9, OthersRun
  <2> QED BY <2>5, <2>6, <2>10 DEF FleetInv
<1>4. CASE result # "compiled"
  <2>1. UNCHANGED <<module, persisted>>
    BY <1>4 DEF Compile
  <2> QED
    BY <1>2, <2>1 DEF FleetInv, StateShape, CodePassedCompile, ModuleIsOwn, Runs, Codes, CodeOf,
                      contract
<1> QED BY <1>3, <1>4

\* load_precompiled takes only code the node's engine may run, and has no gate of
\* its own: what it loads passed the gate of compile.
LEMMA LoadStep ==
  ASSUME FleetInv, NEW n \in Node, LoadPrecompiled(n)
  PROVE  FleetInv'
<1>1. UNCHANGED <<question, host, version, persisted>> /\ persisted[n] # Nothing
  BY DEF LoadPrecompiled
<1>2. CASE deserialize(n, persisted[n])
  <2>1. module' = [module EXCEPT ![n] = persisted[n]]
    BY <1>2 DEF LoadPrecompiled
  <2>2. Runs(n, persisted[n])
    <3>1. PICK v \in Versions, cpu \in Cpus : persisted[n] = CodeOf(v, cpu)
      BY <1>1 DEF FleetInv, StateShape, Codes
    <3>2. v = version[n] /\ supports(host[n].cpu, cpu)
      BY <1>2, <3>1, Deserializes DEF FleetInv
    <3> QED BY <3>1, <3>2 DEF Runs
  <2>3. StateShape'
    BY <1>1, <2>1 DEF FleetInv, StateShape, Codes, CodeOf, contract
  <2>4. CodePassedCompile'
    BY <1>1, <2>1 DEF FleetInv, StateShape, CodePassedCompile, contract
  <2>5. /\ module'[n] = persisted[n]
        /\ \A k \in Node \ {n} : module'[k] = module[k]
    BY <2>1 DEF FleetInv, StateShape
  <2>6. Runs(n, module[n])'
    BY <1>1, <2>2, <2>5 DEF Runs, CodeOf, contract
  <2>7. ModuleIsOwn'
    BY <1>1, <2>5, <2>6, OthersRun
  <2> QED BY <2>3, <2>4, <2>7 DEF FleetInv
<1>3. CASE ~deserialize(n, persisted[n])
  <2>1. UNCHANGED module
    BY <1>3 DEF LoadPrecompiled
  <2> QED
    BY <1>1, <2>1 DEF FleetInv, StateShape, CodePassedCompile, ModuleIsOwn, Runs, Codes, CodeOf,
                      contract
<1> QED BY <1>2, <1>3

\* A restart drops the module and keeps what is on disk.
LEMMA RestartStep ==
  ASSUME FleetInv, NEW n \in Node, Restart(n)
  PROVE  FleetInv'
<1>1. PICK h \in Hosts, v \in Versions :
        /\ host' = [host EXCEPT ![n] = h]
        /\ version' = [version EXCEPT ![n] = v]
        /\ module' = [module EXCEPT ![n] = Nothing]
        /\ UNCHANGED <<question, persisted>>
  BY DEF Restart
<1>2. StateShape'
  BY <1>1 DEF FleetInv, StateShape, Codes, CodeOf, contract
<1>3. CodePassedCompile'
  BY <1>1 DEF FleetInv, StateShape, CodePassedCompile, contract
<1>4. /\ module'[n] = Nothing
      /\ \A k \in Node \ {n} : /\ host'[k] = host[k] /\ version'[k] = version[k]
                               /\ module'[k] = module[k]
  BY <1>1 DEF FleetInv, StateShape
<1>5. ModuleIsOwn'
  BY <1>1, <1>4, OthersRun
<1> QED BY <1>2, <1>3, <1>5 DEF FleetInv

\* Every step of the fleet preserves the invariant.
LEMMA StepFleetInv == FleetInv /\ [Next]_vars => FleetInv'
<1> SUFFICES ASSUME FleetInv, [Next]_vars PROVE FleetInv'
  OBVIOUS
<1>1. CASE UNCHANGED vars
  BY <1>1 DEF vars, FleetInv, StateShape, CodePassedCompile, ModuleIsOwn, Runs, Codes, CodeOf,
              contract
<1>2. ASSUME NEW n \in Node, Compile(n) PROVE FleetInv'
  BY <1>2, CompileStep
<1>3. ASSUME NEW n \in Node, LoadPrecompiled(n) PROVE FleetInv'
  BY <1>3, LoadStep
<1>4. ASSUME NEW n \in Node, Restart(n) PROVE FleetInv'
  BY <1>4, RestartStep
<1>5. ASSUME NEW n \in Node, Execute(n) PROVE FleetInv'
  BY <1>5 DEF Execute, FleetInv, StateShape, CodePassedCompile, ModuleIsOwn, Runs, Codes,
              CodeOf, contract
<1> QED BY <1>1, <1>2, <1>3, <1>4, <1>5 DEF Next

\* The invariant says what AcceptedMemoryFits does: the gate of compile is the
\* floor of build.
LEMMA InvFits == FleetInv => AcceptedMemoryFits
<1> SUFFICES ASSUME FleetInv, NEW n \in Node, {module[n], persisted[n]} # {Nothing},
                    NEW m \in Machines
             PROVE  contract.memory <= limits_of(m).memory_size
  BY DEF AcceptedMemoryFits
<1>1. module[n] # Nothing \/ persisted[n] # Nothing
  OBVIOUS
<1>2. contract.memory <= MIN_FLEET_MEMORY_BYTES
  BY <1>1 DEF FleetInv, CodePassedCompile
<1>3. contract.memory \in Nat
  BY ContractsAssumption DEF FleetInv, StateShape, contract
<1>4. limits_of(m).memory_size \in Nat /\ MIN_FLEET_MEMORY_BYTES <= limits_of(m).memory_size
  BY LimitsOfMachine
<1>5. MIN_FLEET_MEMORY_BYTES \in Nat
  BY LimitsWidthAssumption DEF MIN_FLEET_MEMORY_BYTES
<1> QED BY <1>2, <1>3, <1>4, <1>5

\* Whatever a node of the fleet has compiled, persisted or loaded, through any
\* restarts on other machines, declares no more memory than every machine
\* gives a contract (compile, load_precompiled, WasmLimits::build).
THEOREM AcceptedMemoryFitsEverywhere == Spec => []AcceptedMemoryFits
<1>1. Spec => []FleetInv
  BY InitFleetInv, StepFleetInv, PTL DEF Spec
<1> QED BY <1>1, InvFits, PTL

-----------------------------------------------------------------------------
(***************************************************************************)
(* What execute does on any limits.                                        *)
(***************************************************************************)

Op == [kind : {"stage", "instantiate", "burn", "grow_memory", "grow_table", "alloc"}, n : Nat]

Store == [host : Nat, memory : Nat, table : Nat, fuel : Nat, stop : {"no"} \cup Errors]

\* Limits of a node, and of one no smaller.
IsLimits(l) ==
  /\ l.memory_size \in Nat /\ l.max_table_elements \in Nat
  /\ l.max_single_alloc \in Nat /\ l.max_total_memory \in Nat

NoSmaller(l, s) ==
  /\ s.memory_size <= l.memory_size /\ s.max_table_elements <= l.max_table_elements
  /\ s.max_single_alloc <= l.max_single_alloc /\ s.max_total_memory <= l.max_total_memory

\* A nonempty set of natural numbers has a least element.
LEMMA LeastElement ==
  ASSUME NEW S \in SUBSET Nat, S # {}
  PROVE  \E m \in S : \A k \in S : m <= k
<1>1. PICK m \in S : \A k \in S : ~(<<k, m>> \in OpToRel(<, Nat))
  BY NatLessThanWellFounded, WFMin
<1>2. \A k, n \in Nat : <<k, n>> \in OpToRel(<, Nat) <=> k < n
  BY DEF OpToRel
<1>3. \A k \in S : m \in Nat /\ k \in Nat /\ ~(k < m)
  BY <1>1, <1>2, Zenon
<1> QED
  BY <1>3

\* r is a sequence of k elements, those of s, and g more, those of t.
IsJoined(r, s, t, S, k, g) ==
  /\ r \in Seq(S) /\ Len(r) = k + g
  /\ \A i \in 1..(k + g) : r[i] = IF i <= k THEN s[i] ELSE t[i - k]

LEMMA Joined ==
  ASSUME NEW S, NEW s \in Seq(S), NEW t \in Seq(S), NEW k, NEW g, Len(s) = k, Len(t) = g
  PROVE  IsJoined(s \o t, s, t, S, k, g)
  BY ConcatProperties, Zenon DEF IsJoined

\* The inputs are staged before anything else (generate_execution_context).
LEMMA ProgramType ==
  ASSUME NEW q \in Questions
  PROVE  /\ program(q) \in Seq(Op)
         /\ \A i, j \in 1..Len(program(q)) :
              program(q)[i].kind = "stage" /\ j < i => program(q)[j].kind = "stage"
<1> DEFINE stage == [i \in DOMAIN q.call.inputs |-> [kind |-> "stage", n |-> q.call.inputs[i]]]
           mid == <<[kind |-> "instantiate", n |-> 0]>>
           guest == q.call.guest
<1>1. q.call.inputs \in Seq(Nat)
      /\ guest \in Seq([kind : {"burn", "grow_memory", "grow_table", "alloc"}, n : Nat])
  BY CallsAssumption
<1>2. PICK k \in Nat : k = Len(q.call.inputs) /\ DOMAIN q.call.inputs = 1..k
                      /\ \A i \in 1..k : q.call.inputs[i] \in Nat
  BY <1>1, LenProperties
<1>3. /\ stage \in Seq(Op) /\ Len(stage) = k
      /\ \A i \in 1..k : stage[i].kind = "stage"
  <2>1. /\ stage \in [1..k -> Op] /\ DOMAIN stage = 1..k
        /\ \A i \in 1..k : stage[i].kind = "stage"
    BY <1>2 DEF Op
  <2> HIDE DEF stage
  <2>2. stage \in Seq(Op)
    BY <2>1, SeqDef
  <2> QED
    BY <2>1, <2>2, LenProperties
<1>4. mid \in Seq(Op) /\ Len(mid) = 1 /\ mid[1].kind = "instantiate"
  BY DEF Op
<1>5. PICK g \in Nat : g = Len(guest) /\ guest \in Seq(Op)
                      /\ \A i \in 1..g : guest[i].kind # "stage"
  <2> DEFINE GuestOp == [kind : {"burn", "grow_memory", "grow_table", "alloc"}, n : Nat]
  <2> HIDE DEF guest
  <2>1. GuestOp \subseteq Op /\ \A op \in GuestOp : op.kind # "stage"
    BY DEF Op
  <2>2. guest \in Seq(GuestOp)
    BY <1>1
  <2> HIDE DEF GuestOp
  <2>3. guest \in Seq(Op) /\ Len(guest) \in Nat /\ \A i \in 1..Len(guest) : guest[i] \in GuestOp
    BY <2>1, <2>2, SeqMonotonic, LenProperties, ElementOfSeq
  <2> QED
    BY <2>1, <2>3
<1>6. program(q) = (stage \o mid) \o guest
  BY DEF program
<1> HIDE DEF stage, mid, guest
<1>7. IsJoined(stage \o mid, stage, mid, Op, k, 1)
  BY <1>3, <1>4, Joined
<1>8. IsJoined(program(q), stage \o mid, guest, Op, k + 1, g)
  <2>1. stage \o mid \in Seq(Op) /\ Len(stage \o mid) = k + 1
    BY <1>7 DEF IsJoined
  <2> QED
    BY <1>5, <1>6, <2>1, Joined
<1>9. ASSUME NEW i \in 1..(k + 1 + g)
      PROVE  program(q)[i].kind = "stage" <=> i <= k
  <2>1. CASE i <= k
    BY <1>3, <1>7, <1>8, <2>1 DEF IsJoined
  <2>2. CASE i = k + 1
    <3>1. ~(i <= k) /\ i - k = 1 /\ i <= k + 1
      BY <2>2
    <3> QED
      BY <1>4, <1>7, <1>8, <3>1 DEF IsJoined
  <2>3. CASE i > k + 1
    <3>1. ~(i <= k) /\ i - (k + 1) \in 1..g /\ ~(i <= k + 1)
      BY <2>3
    <3> QED
      BY <1>5, <1>8, <3>1 DEF IsJoined
  <2> QED
    BY <2>1, <2>2, <2>3
<1> QED
  BY <1>8, <1>9 DEF IsJoined

\* A step leaves a store, and a store that stopped stays as it is.
LEMMA StepType ==
  ASSUME NEW l, IsLimits(l), NEW st \in Store, NEW op \in Op
  PROVE  /\ step(l, st, op) \in Store
         /\ st.stop # "no" => step(l, st, op) = st
         /\ op.kind = "stage" /\ st.stop = "no" =>
              step(l, st, op).stop \in {"no", "MemoryAllocationFailed"}
         /\ op.kind # "stage" /\ st.stop = "no" =>
              step(l, st, op).stop # "MemoryAllocationFailed"
<1>1. /\ \A error \in Errors : [st EXCEPT !.stop = error] \in Store
      /\ \A error \in Errors : [st EXCEPT !.stop = error].stop = error
  BY DEF Store
<1>2. /\ [st EXCEPT !.host = @ + op.n] \in Store /\ [st EXCEPT !.host = @ + op.n].stop = st.stop
      /\ [st EXCEPT !.memory = @ + op.n] \in Store /\ [st EXCEPT !.memory = @ + op.n].stop = st.stop
      /\ [st EXCEPT !.table = @ + op.n] \in Store /\ [st EXCEPT !.table = @ + op.n].stop = st.stop
  BY DEF Store, Op
<1>3. op.n <= st.fuel => /\ [st EXCEPT !.fuel = @ - op.n] \in Store
                         /\ [st EXCEPT !.fuel = @ - op.n].stop = st.stop
  BY DEF Store, Op
<1>4. op.n > st.fuel \/ op.n <= st.fuel
  BY DEF Store, Op
<1>5. st.stop # "no" => step(l, st, op) = st
  BY DEF step, host_alloc, instantiated, guest_step, Op
<1>6. CASE st.stop # "no"
  BY <1>5, <1>6
<1>7. CASE st.stop = "no"
  <2>1. CASE op.kind = "stage"
    BY <1>1, <1>2, <1>7, <2>1 DEF step, host_alloc, Errors
  <2>2. CASE op.kind = "instantiate"
    BY <1>1, <1>7, <2>2 DEF step, instantiated, Errors
  <2>3. CASE op.kind = "burn"
    BY <1>1, <1>3, <1>4, <1>7, <2>3 DEF step, guest_step, Errors
  <2>4. CASE op.kind = "grow_memory"
    BY <1>1, <1>2, <1>7, <2>4 DEF step, guest_step, Errors
  <2>5. CASE op.kind = "grow_table"
    BY <1>1, <1>2, <1>7, <2>5 DEF step, guest_step, Errors
  <2>6. CASE op.kind = "alloc"
    BY <1>1, <1>2, <1>7, <2>6 DEF step, guest_step, host_alloc, Errors
  <2> QED
    BY <2>1, <2>2, <2>3, <2>4, <2>5, <2>6 DEF Op
<1> QED
  BY <1>6, <1>7

\* What a step grants on some limits it grants on larger ones.
LEMMA StepMonotone ==
  ASSUME NEW l, IsLimits(l), NEW s, IsLimits(s), NoSmaller(l, s),
         NEW st \in Store, st.stop = "no", NEW op \in Op
  PROVE  /\ step(s, st, op).stop = "no" => step(l, st, op) = step(s, st, op)
         /\ step(s, st, op).stop = "OutOfFuel" => step(l, st, op) = step(s, st, op)
         /\ step(l, st, op).stop = "MemoryAllocationFailed" =>
              step(s, st, op).stop = "MemoryAllocationFailed"
<1>1. \A error \in Errors : [st EXCEPT !.stop = error].stop = error
  BY DEF Store
<1>2. grants(s, st.host, op.n) => grants(l, st.host, op.n)
  <2>1. st.host + op.n \in Nat /\ op.n \in Nat
    BY DEF Store, Op
  <2> QED
    BY <2>1 DEF grants, IsLimits, NoSmaller
<1>3. /\ st.memory <= s.memory_size => st.memory <= l.memory_size
      /\ st.table <= s.max_table_elements => st.table <= l.max_table_elements
      /\ st.memory + op.n <= s.memory_size => st.memory + op.n <= l.memory_size
      /\ st.table + op.n <= s.max_table_elements => st.table + op.n <= l.max_table_elements
  BY DEF Store, Op, IsLimits, NoSmaller
<1>4. /\ \A x \in {l, s} : /\ st.memory > x.memory_size <=> ~(st.memory <= x.memory_size)
                           /\ st.table > x.max_table_elements <=> ~(st.table <= x.max_table_elements)
                           /\ st.memory + op.n > x.memory_size <=>
                                ~(st.memory + op.n <= x.memory_size)
                           /\ st.table + op.n > x.max_table_elements <=>
                                ~(st.table + op.n <= x.max_table_elements)
  BY DEF Store, Op, IsLimits
<1>5. CASE op.kind = "stage"
  BY <1>1, <1>2, <1>5 DEF step, host_alloc, Errors
<1>6. CASE op.kind = "instantiate"
  BY <1>1, <1>3, <1>4, <1>6 DEF step, instantiated, Errors
<1>7. CASE op.kind = "burn"
  BY <1>7 DEF step, guest_step
<1>8. CASE op.kind = "grow_memory"
  BY <1>1, <1>3, <1>4, <1>8 DEF step, guest_step, Errors
<1>9. CASE op.kind = "grow_table"
  BY <1>1, <1>3, <1>4, <1>9 DEF step, guest_step, Errors
<1>10. CASE op.kind = "alloc"
  BY <1>1, <1>2, <1>10 DEF step, guest_step, host_alloc, Errors
<1> QED
  BY <1>5, <1>6, <1>7, <1>8, <1>9, <1>10 DEF Op

\* The stores after the first n steps.
Unrolled(q, l, n, st) ==
  st = [i \in 0..n |-> IF i = 0 THEN opened(q) ELSE step(l, st[i - 1], program(q)[i])]

\* There are stores after any number of steps.
LEMMA StoresExist ==
  ASSUME NEW q, NEW l
  PROVE  \A n \in Nat : \E st : Unrolled(q, l, n, st)
<1> DEFINE S == {n \in Nat : ~\E st : Unrolled(q, l, n, st)}
<1> SUFFICES ASSUME S # {}
             PROVE  FALSE
  OBVIOUS
<1>1. PICK m \in S : \A k \in S : m <= k
  BY LeastElement
<1>2. m \in Nat /\ ~\E st : Unrolled(q, l, m, st)
  BY <1>1
<1>3. CASE m = 0
  <2>1. Unrolled(q, l, 0, [i \in 0..0 |-> opened(q)])
    BY DEF Unrolled
  <2> QED
    BY <1>2, <1>3, <2>1
<1>4. CASE m # 0
  <2>1. m - 1 \in Nat /\ ~(m <= m - 1)
    BY <1>2, <1>4
  <2>2. PICK st : Unrolled(q, l, m - 1, st)
    BY <1>1, <2>1
  <2> DEFINE next == [i \in 0..m |-> IF i = m THEN step(l, st[m - 1], program(q)[m]) ELSE st[i]]
  <2>3. \A i \in 0..(m - 1) :
          st[i] = IF i = 0 THEN opened(q) ELSE step(l, st[i - 1], program(q)[i])
    BY <2>2 DEF Unrolled
  <2>4. ASSUME NEW i \in 0..m
        PROVE  next[i] = IF i = 0 THEN opened(q) ELSE step(l, next[i - 1], program(q)[i])
    <3>1. CASE i = 0
      BY <1>2, <1>4, <2>3, <3>1
    <3>2. CASE i = m
      <4>1. next[m] = step(l, st[m - 1], program(q)[m]) /\ next[m - 1] = st[m - 1]
        BY <1>2, <2>1
      <4> QED
        BY <1>4, <3>2, <4>1
    <3>3. CASE i # 0 /\ i # m
      <4>1. i \in 0..(m - 1) /\ i - 1 \in 0..m /\ i - 1 # m
        BY <1>2, <3>3
      <4>2. next[i] = st[i] /\ next[i - 1] = st[i - 1]
        BY <3>3, <4>1
      <4> QED
        BY <2>3, <3>3, <4>1, <4>2
    <3> QED
      BY <3>1, <3>2, <3>3
  <2>5. Unrolled(q, l, m, next)
    <3>1. next = [i \in 0..m |-> next[i]]
      OBVIOUS
    <3> HIDE DEF next
    <3> QED
      BY <2>4, <3>1 DEF Unrolled
  <2> QED
    BY <1>2, <2>5
<1> QED
  BY <1>3, <1>4

\* stores(q, l) is what it says it is.
LEMMA StoresOf ==
  ASSUME NEW q \in Questions, NEW l
  PROVE  /\ stores(q, l)[0] = opened(q)
         /\ \A i \in 1..Len(program(q)) :
              stores(q, l)[i] = step(l, stores(q, l)[i - 1], program(q)[i])
<1>1. PICK n \in Nat : n = Len(program(q))
  BY ProgramType, LenProperties
<1>2. \E st : Unrolled(q, l, n, st)
  BY StoresExist
<1>3. stores(q, l) = CHOOSE st : Unrolled(q, l, n, st)
  BY <1>1, Zenon DEF stores, Unrolled
<1>4. Unrolled(q, l, n, stores(q, l))
  BY <1>2, <1>3
<1>5. \A i \in 0..n : stores(q, l)[i] =
        IF i = 0 THEN opened(q) ELSE step(l, stores(q, l)[i - 1], program(q)[i])
  BY <1>4 DEF Unrolled
<1> QED
  BY <1>1, <1>5

\* Every step leaves a store, and staging ends in a refusal or not at all.
LEMMA StoresType ==
  ASSUME NEW q \in Questions, NEW l, IsLimits(l)
  PROVE  \A i \in 0..Len(program(q)) :
           /\ stores(q, l)[i] \in Store
           /\ i = 0 \/ program(q)[i].kind = "stage" =>
                stores(q, l)[i].stop \in {"no", "MemoryAllocationFailed"}
<1> DEFINE P(i) == /\ stores(q, l)[i] \in Store
                   /\ i = 0 \/ program(q)[i].kind = "stage" =>
                        stores(q, l)[i].stop \in {"no", "MemoryAllocationFailed"}
<1>1. PICK n \in Nat : n = Len(program(q))
  BY ProgramType, LenProperties
<1>2. \A i \in 1..n : program(q)[i] \in Op
  BY <1>1, ProgramType, ElementOfSeq
<1>3. P(0)
  <2>1. opened(q) \in Store /\ opened(q).stop = "no"
    BY ContractsAssumption, CallsAssumption DEF opened, Store
  <2> QED
    BY <2>1, StoresOf
<1>4. ASSUME NEW i \in 1..n, P(i - 1)
      PROVE  P(i)
  <2>1. /\ stores(q, l)[i] = step(l, stores(q, l)[i - 1], program(q)[i])
        /\ program(q)[i] \in Op
    BY <1>1, <1>2, StoresOf
  <2>2. program(q)[i].kind = "stage" => i - 1 = 0 \/ program(q)[i - 1].kind = "stage"
    <3>1. i - 1 = 0 \/ (i - 1 \in 1..n /\ i - 1 < i)
      OBVIOUS
    <3> QED
      BY <1>1, <3>1, ProgramType
  <2>3. PICK st \in Store : st = stores(q, l)[i - 1]
    BY <1>4
  <2>4. program(q)[i].kind = "stage" => st.stop \in {"no", "MemoryAllocationFailed"}
    BY <1>4, <2>2, <2>3
  <2>5. i # 0
    OBVIOUS
  <2> QED
    BY <2>1, <2>3, <2>4, <2>5, StepType
<1> HIDE DEF P
<1>5. \A i \in 0..n : P(i)
  <2> DEFINE S == {i \in 0..n : ~P(i)}
  <2> SUFFICES ASSUME S # {}
               PROVE  FALSE
    OBVIOUS
  <2>1. PICK m \in S : \A k \in S : m <= k
    <3>1. S \in SUBSET Nat
      OBVIOUS
    <3> HIDE DEF S
    <3> QED
      BY <3>1, LeastElement
  <2>2. m \in 1..n /\ m - 1 \in 0..n /\ ~(m <= m - 1)
    BY <1>3, <2>1
  <2>3. P(m - 1)
    BY <2>1, <2>2
  <2> QED
    BY <1>4, <2>1, <2>2, <2>3
<1> QED
  BY <1>1, <1>5 DEF P

\* As long as the smaller node grants what is asked the larger one is where it
\* is, and where the larger one has no memory for an input neither has it.
LEMMA StoresMonotone ==
  ASSUME NEW q \in Questions, NEW l, IsLimits(l), NEW s, IsLimits(s), NoSmaller(l, s)
  PROVE  \A i \in 0..Len(program(q)) :
           /\ stores(q, s)[i].stop \in {"no", "OutOfFuel"} => stores(q, l)[i] = stores(q, s)[i]
           /\ stores(q, l)[i].stop = "MemoryAllocationFailed" =>
                stores(q, s)[i].stop = "MemoryAllocationFailed"
<1> DEFINE P(i) ==
      /\ stores(q, s)[i].stop \in {"no", "OutOfFuel"} => stores(q, l)[i] = stores(q, s)[i]
      /\ stores(q, l)[i].stop = "MemoryAllocationFailed" =>
           stores(q, s)[i].stop = "MemoryAllocationFailed"
<1>1. PICK n \in Nat : n = Len(program(q))
  BY ProgramType, LenProperties
<1>2. \A i \in 1..n : program(q)[i] \in Op
  BY <1>1, ProgramType, ElementOfSeq
<1>3. P(0)
  BY StoresOf
<1>4. ASSUME NEW i \in 1..n, P(i - 1)
      PROVE  P(i)
  <2>1. PICK op \in Op : op = program(q)[i]
    BY <1>2
  <2>2. i - 1 \in 0..n
    OBVIOUS
  <2>3. PICK a \in Store, b \in Store : a = stores(q, l)[i - 1] /\ b = stores(q, s)[i - 1]
    BY <1>1, <2>2, StoresType
  <2>4. stores(q, l)[i] = step(l, a, op) /\ stores(q, s)[i] = step(s, b, op)
    BY <1>1, <2>1, <2>3, StoresOf
  <2>5. /\ b.stop \in {"no", "OutOfFuel"} => a = b
        /\ a.stop = "MemoryAllocationFailed" => b.stop = "MemoryAllocationFailed"
    BY <1>4, <2>3
  <2>6. op.kind = "stage" => b.stop \in {"no", "MemoryAllocationFailed"}
    <3>1. i - 1 = 0 \/ (i - 1 \in 1..n /\ i - 1 < i)
      OBVIOUS
    <3>2. op.kind = "stage" => i - 1 = 0 \/ program(q)[i - 1].kind = "stage"
      BY <1>1, <2>1, <3>1, ProgramType
    <3> QED
      BY <1>1, <2>2, <2>3, <3>2, StoresType
  <2>7. CASE b.stop = "no"
    BY <2>4, <2>5, <2>7, StepMonotone
  <2>8. CASE b.stop # "no"
    <3>1. step(s, b, op) = b
      BY <2>8, StepType
    <3>2. a.stop # "no" => step(l, a, op) = a
      BY StepType
    <3>3. a.stop = "no" /\ step(l, a, op).stop = "MemoryAllocationFailed" => op.kind = "stage"
      BY StepType
    <3> QED
      BY <2>4, <2>5, <2>6, <2>8, <3>1, <3>2, <3>3
  <2> QED
    BY <2>7, <2>8
<1> HIDE DEF P
<1>5. \A i \in 0..n : P(i)
  <2> DEFINE S == {i \in 0..n : ~P(i)}
  <2> SUFFICES ASSUME S # {}
               PROVE  FALSE
    OBVIOUS
  <2>1. PICK m \in S : \A k \in S : m <= k
    <3>1. S \in SUBSET Nat
      OBVIOUS
    <3> HIDE DEF S
    <3> QED
      BY <3>1, LeastElement
  <2>2. m \in 1..n /\ m - 1 \in 0..n /\ ~(m <= m - 1)
    BY <1>3, <2>1
  <2>3. P(m - 1)
    BY <2>1, <2>2
  <2> QED
    BY <1>4, <2>1, <2>2, <2>3
<1> QED
  BY <1>1, <1>5 DEF P

\* An execution ends in a verdict or in an error of execute_inner.
LEMMA ExecuteType ==
  ASSUME NEW q \in Questions, NEW l, IsLimits(l)
  PROVE  /\ execute(q, l) \in Errors \cup {q.call.verdict}
         /\ execute(q, l) \in ExecuteAnswers
<1>1. PICK n \in Nat : n = Len(program(q)) /\ n \in 0..Len(program(q))
  BY ProgramType, LenProperties
<1>2. stores(q, l)[n].stop \in {"no"} \cup Errors
  BY <1>1, StoresType DEF Store
<1> QED
  BY <1>1, <1>2 DEF execute, ExecuteAnswers

\* Where two executions differ, the one on smaller limits ran into one of them.
LEMMA ExecuteMonotone ==
  ASSUME NEW q \in Questions, NEW l, IsLimits(l), NEW s, IsLimits(s), NoSmaller(l, s),
         execute(q, l) # execute(q, s)
  PROVE  /\ execute(q, s) \in Errors \ {"OutOfFuel"}
         /\ execute(q, l) # "MemoryAllocationFailed"
<1>1. PICK n \in Nat : n = Len(program(q)) /\ n \in 0..Len(program(q))
  BY ProgramType, LenProperties
<1>2. PICK a \in Store, b \in Store : a = stores(q, l)[n] /\ b = stores(q, s)[n]
  BY <1>1, StoresType
<1>3. /\ b.stop \in {"no", "OutOfFuel"} => a = b
      /\ a.stop = "MemoryAllocationFailed" => b.stop = "MemoryAllocationFailed"
  BY <1>1, <1>2, StoresMonotone
<1>4. /\ execute(q, l) = IF a.stop = "no" THEN q.call.verdict ELSE a.stop
      /\ execute(q, s) = IF b.stop = "no" THEN q.call.verdict ELSE b.stop
  BY <1>1, <1>2 DEF execute
<1>5. a.stop \in {"no"} \cup Errors /\ b.stop \in {"no"} \cup Errors
  BY DEF Store
<1>6. q.call.verdict # "MemoryAllocationFailed"
  BY CallsAssumption DEF Errors
<1> QED
  BY <1>3, <1>4, <1>5, <1>6

-----------------------------------------------------------------------------
(***************************************************************************)
(* What the nodes of a fleet answer.                                       *)
(***************************************************************************)

\* The answer of compile depends on the binary, and the engine's version and
\* architecture.
CompileAnswer(q, v, h) ==
  LET min == declared_min_memory_bytes(q.contract.wasm)
  IN  IF min.some /\ min.val > MIN_FLEET_MEMORY_BYTES THEN "ExcessiveMemory"
      ELSE IF <<v, h.cpu.arch>> \notin q.contract.valid_for THEN "PrecompileFailed"
      ELSE "compiled"

\* What a node answered last it would answer again on the host and the version it
\* is on, with the code it has persisted.
AnswerHolds(n, a) ==
  \/ a \in {"loaded", Nothing}
  \/ a = "DeserializationFailed" /\ persisted[n] # Nothing /\ ~deserialize(n, persisted[n])
  \/ a = CompileAnswer(question, version[n], host[n])
  \/ a = execute(question, limits_of(host[n].spec))

AnswersInv ==
  /\ answer = [n \in Node |-> answer[n]]
  /\ \A n \in Node : AnswerHolds(n, answer[n])

\* What build makes of a machine are limits.
LEMMA BuildIsLimits ==
  ASSUME NEW ram_mb \in Nat, NEW cpu_cores \in Nat
  PROVE  IsLimits(build(ram_mb, cpu_cores))
<1>1. /\ build(ram_mb, cpu_cores).memory_size \in MIN_FLEET_MEMORY_BYTES..MAX_MEMORY_BYTES
      /\ build(ram_mb, cpu_cores).max_total_memory \in (3 * MiB)..(24 * MiB)
      /\ build(ram_mb, cpu_cores).max_single_alloc \in MiB..(8 * MiB)
      /\ build(ram_mb, cpu_cores).max_table_elements \in 512..2048
  BY LimitsBounded
<1>2. build(ram_mb, cpu_cores).memory_size \in Nat
  BY <1>1, LimitsWidthAssumption DEF MIN_FLEET_MEMORY_BYTES, MAX_MEMORY_BYTES
<1>3. build(ram_mb, cpu_cores).max_total_memory \in Nat
  BY <1>1, LimitsWidthAssumption
<1>4. build(ram_mb, cpu_cores).max_single_alloc \in Nat
  BY <1>1, LimitsWidthAssumption
<1>5. build(ram_mb, cpu_cores).max_table_elements \in Nat
  <2>1. PICK elements : elements = build(ram_mb, cpu_cores).max_table_elements
    OBVIOUS
  <2>2. elements \in 512..2048
    BY LimitsBounded, <2>1
  <2>3. elements \in Nat
    BY <2>2
  <2> QED BY <2>1, <2>3, Zenon
<1> QED
  BY <1>2, <1>3, <1>4, <1>5 DEF IsLimits

\* Answers of different operations are told apart.
LEMMA AnswersDiffer ==
  ASSUME NEW q \in Questions, NEW m \in Machines, NEW v, NEW h
  PROVE  /\ CompileAnswer(q, v, h) \in CompileAnswers
         /\ execute(q, limits_of(m)) \in ExecuteAnswers
         /\ ExecuteAnswers \cap (CompileAnswers \cup LoadAnswers \cup {Nothing}) = {}
         /\ CompileAnswers \cap (LoadAnswers \cup {Nothing}) = {}
<1>1. CompileAnswer(q, v, h) \in CompileAnswers
  BY DEF CompileAnswer, CompileAnswers
<1>2. IsLimits(limits_of(m))
  <2>1. PICK ram_mb \in Nat, cpu_cores \in Nat : limits_of(m) = build(ram_mb, cpu_cores)
    <3>1. CASE m = NoSpec
      BY <3>1 DEF limits_of, default_limits
    <3>2. CASE m # NoSpec
      BY <3>2, MachinesAssumption DEF limits_of
    <3> QED
      BY <3>1, <3>2
  <2> QED
    BY <2>1, BuildIsLimits
<1>3. execute(q, limits_of(m)) \in ExecuteAnswers
  BY <1>2, ExecuteType
<1>4. Errors \cap (CompileAnswers \cup LoadAnswers) = {}
  BY DEF Errors, CompileAnswers, LoadAnswers
<1>5. CompileAnswers \cap LoadAnswers = {}
  BY DEF CompileAnswers, LoadAnswers
<1> QED
  BY <1>1, <1>3, <1>4, <1>5, CallsAssumption DEF ExecuteAnswers

\* A node answers by the operation it ran; a restart forgets the answer, and
\* nothing else changes the host or the version.
LEMMA StepAnswers == FleetInv /\ AnswersInv /\ [Next]_vars => AnswersInv'
<1> SUFFICES ASSUME FleetInv, AnswersInv, [Next]_vars
             PROVE  AnswersInv'
  OBVIOUS
<1>1. CASE UNCHANGED vars
  BY <1>1 DEF vars, AnswersInv, AnswerHolds, deserialize, engine, limits
<1>2. ASSUME NEW n \in Node, NEW a, answer' = [answer EXCEPT ![n] = a],
             question' = question, AnswerHolds(n, a)',
             \A k \in Node \ {n} : /\ host'[k] = host[k] /\ version'[k] = version[k]
                                   /\ persisted'[k] = persisted[k]
      PROVE  AnswersInv'
  <2>1. answer'[n] = a /\ \A k \in Node \ {n} : answer'[k] = answer[k]
    BY <1>2 DEF AnswersInv
  <2>2. answer' = [k \in Node |-> answer'[k]]
    BY <1>2 DEF AnswersInv
  <2>3. ASSUME NEW k \in Node \ {n}
        PROVE  AnswerHolds(k, answer[k])'
    <3>1. AnswerHolds(k, answer[k]) /\ answer'[k] = answer[k]
      BY <2>1 DEF AnswersInv
    <3>2. deserialize(k, persisted[k])' <=> deserialize(k, persisted[k])
      BY <1>2 DEF deserialize, engine, limits
    <3> QED
      BY <1>2, <3>1, <3>2 DEF AnswerHolds
  <2> QED
    BY <1>2, <2>1, <2>2, <2>3 DEF AnswersInv
<1>3. ASSUME NEW n \in Node, Compile(n)
      PROVE  AnswersInv'
  <2>1. PICK a : a = CompileAnswer(question, version[n], host[n])
    OBVIOUS
  <2>2. answer' = [answer EXCEPT ![n] = a]
    BY <1>3, <2>1 DEF Compile, CompileAnswer, gate, precompiles, contract
  <2>3. question' = question /\ host' = host /\ version' = version
    BY <1>3 DEF Compile
  <2>4. \A k \in Node \ {n} : persisted'[k] = persisted[k]
    BY <1>3 DEF Compile, FleetInv, StateShape
  <2>5. AnswerHolds(n, a)'
    BY <2>1, <2>3 DEF AnswerHolds
  <2> QED
    BY <1>2, <2>2, <2>3, <2>4, <2>5
<1>4. ASSUME NEW n \in Node, LoadPrecompiled(n)
      PROVE  AnswersInv'
  <2>1. PICK a : /\ answer' = [answer EXCEPT ![n] = a]
                 /\ \/ a = "loaded"
                    \/ a = "DeserializationFailed" /\ ~deserialize(n, persisted[n])
    BY <1>4 DEF LoadPrecompiled
  <2>2. /\ question' = question /\ host' = host /\ version' = version /\ persisted' = persisted
        /\ persisted[n] # Nothing
    BY <1>4 DEF LoadPrecompiled
  <2>3. deserialize(n, persisted[n])' <=> deserialize(n, persisted[n])
    BY <2>2 DEF deserialize, engine, limits
  <2>4. AnswerHolds(n, a)'
    BY <2>1, <2>2, <2>3 DEF AnswerHolds
  <2> QED
    BY <1>2, <2>1, <2>2, <2>4
<1>5. ASSUME NEW n \in Node, Execute(n)
      PROVE  AnswersInv'
  <2>1. PICK a : a = execute(question, limits_of(host[n].spec))
    OBVIOUS
  <2>2. answer' = [answer EXCEPT ![n] = a]
    BY <1>5, <2>1 DEF Execute, limits
  <2>3. question' = question /\ host' = host /\ version' = version /\ persisted' = persisted
    BY <1>5 DEF Execute
  <2>4. AnswerHolds(n, a)'
    BY <2>1, <2>3 DEF AnswerHolds
  <2> QED
    BY <1>2, <2>2, <2>3, <2>4
<1>6. ASSUME NEW n \in Node, Restart(n)
      PROVE  AnswersInv'
  <2>1. /\ answer' = [answer EXCEPT ![n] = Nothing] /\ question' = question
        /\ persisted' = persisted
    BY <1>6 DEF Restart
  <2>2. PICK h \in Hosts, v \in Versions :
          host' = [host EXCEPT ![n] = h] /\ version' = [version EXCEPT ![n] = v]
    BY <1>6 DEF Restart
  <2>3. \A k \in Node \ {n} : host'[k] = host[k] /\ version'[k] = version[k]
    BY <2>2 DEF FleetInv, StateShape
  <2>4. AnswerHolds(n, Nothing)'
    BY DEF AnswerHolds
  <2> QED
    BY <1>2, <2>1, <2>3, <2>4
<1> QED
  BY <1>1, <1>3, <1>4, <1>5, <1>6 DEF Next

LEMMA FleetAnswers == Spec => [](FleetInv /\ AnswersInv)
<1>1. Init => FleetInv /\ AnswersInv
  BY InitFleetInv DEF Init, AnswersInv, AnswerHolds
<1>2. FleetInv /\ AnswersInv /\ [Next]_vars => (FleetInv /\ AnswersInv)'
  BY StepFleetInv, StepAnswers
<1> QED
  BY <1>1, <1>2, PTL DEF Spec

\* Every variable of a fleet keeps its type: what a node has is code of an
\* engine of the fleet, and what it answers is an answer of an operation it has.
THEOREM FleetTypeOK == Spec => []TypeOK
<1>1. FleetInv /\ AnswersInv => TypeOK
  <2> SUFFICES ASSUME FleetInv, AnswersInv
               PROVE  TypeOK
    OBVIOUS
  <2>1. Codes \subseteq Code
    <3> SUFFICES ASSUME NEW v \in Versions, NEW cpu \in Cpus
                 PROVE  CodeOf(v, cpu) \in Code
      BY DEF Codes
    <3>1. PICK h \in Hosts : cpu = h.cpu
      BY DEF Cpus
    <3>2. limits_of(h.spec).max_wasm_stack = MiB
      BY LimitsOfMachine DEF Machines
    <3>3. EngineOf(v, cpu) = create_secure_wasmtime_config(limits_of(h.spec), v, h.cpu)
      BY <3>1, <3>2 DEF EngineOf, create_secure_wasmtime_config
    <3>4. EngineOf(v, cpu) \in {create_secure_wasmtime_config(limits_of(g.spec), w, g.cpu) :
                                  g \in Hosts, w \in Versions}
      BY <3>3
    <3>5. question.contract.wasm \in {q.contract.wasm : q \in Questions}
      BY DEF FleetInv, StateShape
    <3> QED
      BY <3>4, <3>5 DEF Code, CodeOf, contract
  <2>2. ASSUME NEW n \in Node
        PROVE  answer[n] \in CompileAnswers \cup LoadAnswers \cup ExecuteAnswers \cup {Nothing}
    <3>1. host[n].spec \in Machines /\ question \in Questions
      BY DEF FleetInv, StateShape, Machines
    <3>2. AnswerHolds(n, answer[n])
      BY DEF AnswersInv
    <3> QED
      BY <3>1, <3>2, AnswersDiffer DEF AnswerHolds, LoadAnswers
  <2>3. /\ module \in [Node -> Codes \cup {Nothing}] /\ persisted \in [Node -> Codes \cup {Nothing}]
        /\ question \in Questions /\ host \in [Node -> Hosts] /\ version \in [Node -> Versions]
    BY DEF FleetInv, StateShape
  <2>4. /\ module \in [Node -> Code \cup {Nothing}] /\ persisted \in [Node -> Code \cup {Nothing}]
    BY <2>1, <2>3
  <2>5. answer \in [Node -> CompileAnswers \cup LoadAnswers \cup ExecuteAnswers \cup {Nothing}]
    BY <2>2 DEF AnswersInv
  <2> QED
    BY <2>3, <2>4, <2>5 DEF TypeOK
<1> QED
  BY <1>1, FleetAnswers, PTL

\* A binary one node refuses for its memory every node that compiles it does, and
\* nodes of one version and architecture come to the same answer, whatever their
\* RAM, cores and CPU features.
THEOREM FleetCompileAgrees == Spec => []CompileAgrees
<1>1. FleetInv /\ AnswersInv => CompileAgrees
  <2> SUFFICES ASSUME FleetInv, AnswersInv
               PROVE  CompileAgrees
    OBVIOUS
  <2>1. ASSUME NEW n \in Node, answer[n] \in CompileAnswers
        PROVE  answer[n] = CompileAnswer(question, version[n], host[n])
    <3>1. host[n].spec \in Machines /\ question \in Questions
      BY DEF FleetInv, StateShape, Machines
    <3>2. AnswerHolds(n, answer[n])
      BY DEF AnswersInv
    <3> QED
      BY <2>1, <3>1, <3>2, AnswersDiffer DEF AnswerHolds, LoadAnswers
  <2> QED
    BY <2>1 DEF CompileAgrees, CompileAnswer
<1> QED
  BY <1>1, FleetAnswers, PTL

\* The invariants say what CodeMatchesEngine does: an engine is its version and
\* its CPU.
LEMMA InvMatches == FleetInv /\ AnswersInv => CodeMatchesEngine
<1> SUFFICES ASSUME FleetInv, AnswersInv, NEW a \in Node, NEW b \in Node
             PROVE  /\ module[a] # Nothing => /\ module[a].by.version = version[a]
                                              /\ supports(host[a].cpu, module[a].by.target)
                    /\ version[a] = version[b] /\ host[a].cpu = host[b].cpu =>
                         engine_fingerprint(a) = engine_fingerprint(b)
                    /\ answer[a] = "DeserializationFailed" =>
                         \/ persisted[a].by.version # version[a]
                         \/ ~supports(host[a].cpu, persisted[a].by.target)
  BY DEF CodeMatchesEngine
<1>1. \A v, cpu : CodeOf(v, cpu).by.version = v /\ CodeOf(v, cpu).by.target = cpu
  BY DEF CodeOf, EngineOf
<1>2. ASSUME module[a] # Nothing
      PROVE  module[a].by.version = version[a] /\ supports(host[a].cpu, module[a].by.target)
  <2>1. PICK cpu \in Cpus : module[a] = CodeOf(version[a], cpu) /\ supports(host[a].cpu, cpu)
    BY <1>2 DEF FleetInv, ModuleIsOwn, Runs
  <2> QED BY <1>1, <2>1
<1>3. version[a] = version[b] /\ host[a].cpu = host[b].cpu =>
        engine_fingerprint(a) = engine_fingerprint(b)
  BY EngineIsOfVersion DEF FleetInv, engine_fingerprint
<1>4. ASSUME answer[a] = "DeserializationFailed"
      PROVE  \/ persisted[a].by.version # version[a]
             \/ ~supports(host[a].cpu, persisted[a].by.target)
  <2>1. persisted[a] # Nothing /\ ~deserialize(a, persisted[a])
    <3>1. host[a].spec \in Machines /\ question \in Questions
      BY DEF FleetInv, StateShape, Machines
    <3>2. AnswerHolds(a, "DeserializationFailed")
      BY <1>4 DEF AnswersInv
    <3> QED
      BY <3>1, <3>2, AnswersDiffer, CallsAssumption DEF AnswerHolds, LoadAnswers
  <2>2. PICK v \in Versions, cpu \in Cpus : persisted[a] = CodeOf(v, cpu)
    BY <2>1 DEF FleetInv, StateShape, Codes
  <2>3. ~(v = version[a] /\ supports(host[a].cpu, cpu))
    BY <2>1, <2>2, Deserializes DEF FleetInv
  <2> QED BY <1>1, <2>2, <2>3
<1> QED BY <1>2, <1>3, <1>4

\* A node runs only code of its engine version that its CPU has the features for,
\* nodes of one version and CPU have one fingerprint, and persisted code is
\* refused only for its version or its features, whatever the RAM and the cores
\* of the machines (create_secure_wasmtime_config, load_precompiled,
\* engine_fingerprint).
THEOREM CodeAlwaysMatchesEngine == Spec => []CodeMatchesEngine
BY InvMatches, FleetAnswers, PTL

\* Where two nodes answer a call differently the smaller one ran into a limit of
\* its own: a verdict or an OutOfFuel of a smaller node is the answer of every
\* larger one, and inputs a larger node has no memory for no smaller one has.
THEOREM FleetLargerNodeAgrees == Spec => []LargerNodeAgrees
<1>1. FleetInv /\ AnswersInv => LargerNodeAgrees
  <2> SUFFICES ASSUME FleetInv, AnswersInv, NEW a \in Node, NEW b \in Node,
                      AtLeast(host[a].spec, host[b].spec),
                      {answer[a], answer[b]} \subseteq ExecuteAnswers,
                      answer[a] # answer[b]
               PROVE  /\ answer[b] \in Errors \ {"OutOfFuel"}
                      /\ answer[a] # "MemoryAllocationFailed"
    BY DEF LargerNodeAgrees
  <2>1. /\ host[a].spec \in Machines /\ host[b].spec \in Machines /\ question \in Questions
        /\ AnswerHolds(a, answer[a]) /\ AnswerHolds(b, answer[b])
    BY DEF FleetInv, StateShape, AnswersInv, Machines
  <2>2. /\ answer[a] = execute(question, limits_of(host[a].spec))
        /\ answer[b] = execute(question, limits_of(host[b].spec))
    BY <2>1, AnswersDiffer DEF AnswerHolds, LoadAnswers
  <2>3. PICK l, s : l = limits_of(host[a].spec) /\ s = limits_of(host[b].spec)
    OBVIOUS
  <2>4. IsLimits(l) /\ IsLimits(s) /\ NoSmaller(l, s)
    <3>1. PICK large \in Nat, many \in Nat : l = build(large, many) /\ large = host[a].spec.ram_mb
                                             /\ many = host[a].spec.cpu_cores
      BY <2>1, <2>3, MachinesAssumption DEF AtLeast, limits_of
    <3>2. PICK small \in Nat, few \in Nat : s = build(small, few) /\ small = host[b].spec.ram_mb
                                            /\ few = host[b].spec.cpu_cores
      BY <2>1, <2>3, MachinesAssumption DEF AtLeast, limits_of
    <3>3. small <= large /\ few <= many
      BY <3>1, <3>2 DEF AtLeast
    <3>4. NoSmaller(l, s)
      BY <3>1, <3>2, <3>3, LimitsMonotone DEF NoSmaller
    <3>5. IsLimits(build(large, many)) /\ IsLimits(build(small, few))
      BY BuildIsLimits
    <3> QED
      BY <3>1, <3>2, <3>4, <3>5
  <2> QED
    BY <2>1, <2>2, <2>3, <2>4, ExecuteMonotone
<1> QED
  BY <1>1, FleetAnswers, PTL

=============================================================================
