------------------------------ MODULE WasmLimits ------------------------------
(***************************************************************************)
(* The resource limits a node derives from its machine, and the engine     *)
(* configuration it derives from them (src/src/runtime/config.rs).         *)
(***************************************************************************)
EXTENDS Integers

CONSTANTS
  MiB,        \* bytes in a mebibyte
  U64Max,     \* u64::MAX
  UsizeMax    \* usize::MAX

\* The largest constant of build fits both words.
ASSUME LimitsWidthAssumption ==
  /\ MiB \in Nat \ {0}
  /\ U64Max \in Nat /\ U64Max >= 32 * MiB
  /\ UsizeMax \in Nat /\ UsizeMax >= 32 * MiB

MAX_MEMORY_BYTES == 32 * MiB
MIN_FLEET_MEMORY_BYTES == 4 * MiB

\* u64::clamp, u64::saturating_mul and usize::try_from(..).unwrap_or(usize::MAX)
clamp(n, lo, hi) == IF n < lo THEN lo ELSE IF n > hi THEN hi ELSE n
saturating_mul(a, b) == clamp(a * b, 0, U64Max)
to_usize(n) == clamp(n, 0, UsizeMax)

\* mutant of scaled: has no floor
scaled_no_floor(ram_mb, rate, lo, hi) ==
  to_usize(clamp(saturating_mul(ram_mb \div 512, rate * MiB), 0, hi))

\* mutant of scaled: the product wraps before it is clamped
scaled_wrapping(ram_mb, rate, lo, hi) ==
  to_usize(clamp(((ram_mb \div 512) * rate * MiB) % (U64Max + 1), lo, hi))

\* A limit of `rate` MiB for every 512 MiB of RAM, between lo and hi.
scaled(ram_mb, rate, lo, hi) ==
  to_usize(clamp(saturating_mul(ram_mb \div 512, rate * MiB), lo, hi))

\* WasmLimits::build.  The multiplication by 256 is unchecked: a spec with more
\* than usize::MAX / 256 cores is not one of a machine.
build(ram_mb, cpu_cores) ==
  LET total == scaled(ram_mb, 3, 3 * MiB, 24 * MiB)
  IN  [max_wasm_stack |-> MiB,
       memory_size |-> scaled(ram_mb, 4, MIN_FLEET_MEMORY_BYTES, MAX_MEMORY_BYTES),
       max_total_memory |-> total,
       max_single_alloc |-> clamp(total \div 3, MiB, 8 * MiB),
       max_table_elements |-> clamp(256 * clamp(cpu_cores, 2, UsizeMax), 0, 2048)]

\* WasmLimits::default
default_limits == build(4096, 2)

\* ContractRuntime::new: a machine is a record [ram_mb, cpu_cores], or NoSpec
\* where the runtime is given none.
NoSpec == [ram_mb |-> -1, cpu_cores |-> -1]
limits_of(machine) ==
  IF machine = NoSpec THEN default_limits ELSE build(machine.ram_mb, machine.cpu_cores)

\* mutant of create_secure_wasmtime_config: optimises harder on many cores
create_config_by_cores(limits, version, cpu) ==
  [version |-> version, target |-> cpu, consume_fuel |-> TRUE,
   max_wasm_stack |-> limits.max_wasm_stack,
   opt_level |-> IF limits.max_table_elements > 1024 THEN "Speed" ELSE "None",
   nan_canonicalization |-> TRUE]

\* What an engine of a given wasmtime version compiles with on a host of the given
\* CPU: Config::default has no target, so the engine infers the architecture and
\* the features of the CPU it runs on.
create_secure_wasmtime_config(limits, version, cpu) ==
  [version |-> version, target |-> cpu, consume_fuel |-> TRUE,
   max_wasm_stack |-> limits.max_wasm_stack,
   opt_level |-> "Speed", nan_canonicalization |-> TRUE]

=============================================================================
