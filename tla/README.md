# TLA+ verification of ave-contract-sdk

The repository holds both ends of a contract call on an Ave node: the SDK that
is compiled into a WebAssembly contract (`src/src/lib.rs`) and the wasmtime
runtime that validates and executes contracts (`src/src/runtime`). This project
models both ends, the 32-bit ABI between them and a fleet of nodes of different
sizes, model-checks them with TLC on small instances, and proves most of what the
runs check for every instance with TLAPS: the memory boundary, the call from end to
end, the fleet, the metrics, the mock host and the example contract.

## The system

| Component | State | Operations | Correct when |
|---|---|---|---|
| Host memory manager (`runtime/host.rs`) | a byte vector, a map offset → length, two caps, the store limits | `alloc`, `read_data`, `read_bytes`, `write_bytes`, `write_bytes_at`, `add_data_raw`, `get_pointer_len` | allocations never overlap, never pass the caps, and writing one changes no other |
| Linker (`runtime/host.rs`) | none | `env.pointer_len`, `alloc`, `read_bytes`, `write_bytes` | no 32-bit argument, negative or wrapped ones included, reaches what the guest was not given |
| `ContractRuntime` (`runtime/contract_runtime.rs`) | engine, limits, linker, metrics; one store per call | `compile`, `load_precompiled`, `validate`, `execute`, `engine_fingerprint` | a call is answered once, with an error or with the verdict the call alone determines |
| Guest SDK (`lib.rs`, `error.rs`) | its linear memory | `check_init_data`, `execute_contract`, `require_owner`, `ContractResult` | reads what the host staged, stores what the callback decided |
| Limits and engine config (`runtime/config.rs`) | none | `WasmLimits::build`, `declared_min_memory_bytes`, `create_secure_wasmtime_config` | the smallest node can run what the fleet accepts, and code never depends on RAM or cores |
| Metrics (`runtime/metrics.rs`) | counters and histograms | four `observe_*` methods, `register_into` | they agree with the answers, under concurrent calls and scrapes |
| ABI declarations, mock host (`externf.rs`) | a thread-local map and two forced failures (tests only) | the four imports, `store_data`, `set_force_*`, `MockHostGuard` | a test sees nothing of the tests before it |
| Examples (`example*`) | contract states | callbacks | the contract's own rules, over the life of a subject |

A call goes through all of them. The node calls `execute` or `validate`. The
runtime builds a `MemoryManager` from its limits, stages the inputs in it as
borsh-framed JSON, creates a store around it with a fuel budget, instantiates
the module and calls its entry point with the pointers. The guest asks for
`pointer_len`, copies the bytes with `read_bytes`, parses them, runs the
contract's callback, obtains a region with `alloc`, fills it with `write_bytes`
and returns its pointer. The runtime reads the region, decodes it, records
metrics and answers.

Nothing in the runtime is concurrent inside one call, and two calls share only
the immutable engine, linker and limits and the atomic metric counters. What is
hard is elsewhere:

- the guest is arbitrary code: any sequence of imports with any arguments;
- pointers change width and signedness on the way (`i32 as usize` sign-extends
  in the imports, `u32 as usize` zero-extends the returned pointer);
- fuel, linear memory and host memory run out at any step, and every one of the
  runtime's steps can fail, with errors that different steps share;
- offset 0 is a valid pointer for the host and null for the guest;
- limits differ between nodes that must reach the same verdict;
- a module is validated once and instantiated again by every execution, its start
  function under another budget and next to other inputs;
- compiled bytes outlive the process, the engine, the machine and the CPU that made
  them;
- the runtime is shared by threads, and its metrics are updated series by series
  while they are scraped.

`PROJECT.json` lists these as hazards, each at its line, with the properties
that cover it.

## Modules

| Module | Models | Kind |
|---|---|---|
| `MemoryManager` | `MemoryManager`, `checked_guest_len` and the four `env` closures, as operators | pure |
| `ObjectStore` | what the manager promises: separate byte strings named by pointers | abstract specification |
| `GuestHost` | one store after another, driven by the host's staging and an arbitrary guest | state machine |
| `MemoryManager_proofs`, `GuestHost_proofs` | lemmas on the operators; the theorems | proofs |
| `Contract` | a contract as its author sees it: documents, callback, `ContractResult`, answers | pure |
| `ContractSdk` | borsh framing, `validate_host_len`, `get_from_context`, `read_and_parse` | pure |
| `ContractCall` | what `execute` and `validate` promise their caller | abstract specification |
| `ContractSession` | `validate_inner` and `execute_inner` against a guest built on the SDK | state machine |
| `ContractSession_proofs` | framing and reading; the theorems on a call | proofs |
| `WasmLimits` | `WasmLimits::build` with its saturation and clamps, the engine configuration | pure |
| `DeclaredMemory` | `declared_min_memory_bytes` and its LEB128 reader | pure |
| `Fleet` | nodes that compile, persist, load, execute and restart, on any machines, CPUs and engine versions; extends the two above | state machine |
| `DeclaredMemory_proofs` | numbers, entries and sections are read back; the theorems on the parser | proofs |
| `Fleet_proofs` | the limits for every machine; the theorems on the fleet | proofs |
| `Metrics` | the shared metrics under threads and a scraper | state machine |
| `MockHost` | the thread-local mock host under a sequence of tests | state machine |
| `Metrics_proofs`, `MockHost_proofs` | the theorems on them | proofs |
| `ExampleSubject` | the contract of `example`, offered events through `ContractCall`'s promise | state machine |
| `ExampleSubject_proofs` | the callbacks of the contract, event by event; the theorems on a subject | proofs |
| `MCGuestHost`, `MCContractSession`, `MCFleet`, `MCMockHost`, `MCExampleSubject` | instances for TLC | model checking |
| `MCDeclaredMemory` | a writer of binaries, against which the parser is checked | model checking |

`GuestHost` and `ContractSession` share `MemoryManager`. The first forgets what
the bytes mean and lets the guest do anything; the second keeps their meaning
and lets the guest do what the SDK does, interleaved with any other use of fuel
and memory.

### Correspondence with the code

- A Rust method that returns a `Result` is an operator that returns
  `[ok, mm, val]`. Casts are operators (`i32_as_usize`, `as_u32`, `i32_as_u32`,
  `u32_as_i32`) over words of `2 * I32Max + 2` values and a host word of
  `UsizeMax + 1`; additions that the code checks are compared with `UsizeMax`.
- `GuestHost`: `mm` is the store's data, `linear` and `exported` the guest's
  memory, `phase` the stage of the call, `fetched` what `read_data` returned
  for the entry point's pointer. `granted` is a history variable: every
  allocation, as the guest was told of it.
- `ContractSession`: `pc` walks through `validate_inner` or `execute_inner` and
  the SDK's entry points, one step for each place where something can fail:
  import check, one step per staged input, linking, the steps of a start function,
  the lookup of the entry points, one step per read,
  callback, `alloc`, `write_bytes`, and the decoding of the answer. `trap` says
  why a guest stopped. `validated` is a history variable.
- `Linker::instantiate` is two things. `Instantiate` links: memory, table and imports
  must fit. A module with a start function then runs it, on the store's fuel, with the
  env imports, next to what the call has staged (one input in `validate`, three in
  `execute`): `StartWork` computes and grows linear memory, `StartAlloc` allocates any of
  `StartLengths`, `StartTrap` is any other trap, an import's refusal included, and
  `StartOutOfFuel` ends it; a trap is `InstantiationFailed`. It may do otherwise in every
  call and may stop at any step (`EnterGuest`, the lookup of the entry points). Objects
  it did not allocate it does not write to: what a guest can do that does is the
  subject of `GuestHost`.
- `GuestWork` is everything the guest does between its calls of the host: it
  costs fuel and may grow linear memory, which traps above the store's limit
  (`trap_on_grow_failure`). `GuestOutOfFuel` is possible at every guest step.
- JSON documents are values with a size, parsers are functions that may fail
  and differ for the contract's types and for `serde_json::Value`. A byte is a
  cell that says what it encodes, so that decoding the wrong bytes fails.
  Error texts are sequences of `Fragments`, among them the SDK's own and whatever a
  contract rejects with.
- A contract module is a record: its imports in order, its declared memory and
  table, whether it has a start function, which entry points it exports, and
  the callbacks as short scripts (`set`, `accept`, `reject`, `require_owner`,
  `panic`).
- `WasmLimits` keeps the 64-bit and the host word as `U64Max` and `UsizeMax`: the
  product of RAM and bytes saturates in the first and is converted to the second.
  `aggressive_compilation`, which "no longer selects anything", is left out.
- `DeclaredMemory` is the parser on sequences of bytes. The values of a LEB128
  group (2^7 in the code) and of the word (2^32) and the number of groups are
  constants, related in the runs as in the code: the last group has bits the word
  has not. The `while` loop is a function from rounds to options, and each `?` a `Try`.
- `Fleet`: `host` and `version` are what a node runs on, `module` what it has in
  memory, `persisted` what its caller saved. A host is the machine spec given to the
  runtime and a CPU, an architecture with a set of features. `Config::default()` names no
  target, so the CPU is part of the engine (`create_secure_wasmtime_config`), of the code
  it makes and of its fingerprint. Which binaries `precompile_module` takes depends on the
  contract, the version and the architecture (`valid_for`). `Compile` includes the
  caller's save, which a crash may prevent; `Restart` changes host and engine. Code is a
  pair of the bytes and the engine that compiled them, and `Module::deserialize` compares
  that engine with its own, as wasmtime does: version and configuration have to be equal,
  the architecture too, and the features the code was made for have to be among those of
  the host. For bytes of any other origin the documentation of `load_precompiled` promises
  nothing. `execute` is a call as its resources: a `program` of staged inputs,
  instantiation, and what the guest burns, grows and allocates, in order; `stores` is
  the store after each of its steps. What a guest does in detail,
  start functions included, is `ContractSession`'s subject.
- `Metrics`: a call has one of six outcomes (`With` counts the calls that had some
  of them) and with it a sequence of updates, in the order of `execute_inner` and
  then `execute`; every update of a series is one step, and
  so is every read of one by a scrape, in the order of `register_into`. Histograms
  are counts of samples. Memory is taken to be sequentially consistent; the
  series themselves are atomic each by itself, so the properties across series
  (`CountersAreOrdered`, `ScrapeIsCovered`) are claims about the order of the code,
  not about reordering by the hardware.
- `MockHost`: the four thread-local variables under their own names; `test` is the
  test in progress, which holds a guard or not, and may panic, after which its guard
  is dropped. `stored` and `forced_by` are history variables.
- `ExampleSubject`: the contract's callback as a script per event, the node around
  it (external) as `Offer` and `Apply`. `written` is a history variable.
- wasmtime, `borsh`, `serde_json` and `ave_common` are outside the repository
  and are modelled from how it uses them.

## Runs

| Run | Configuration | Result |
|---|---|---|
| `guest_host` | `MCGuestHost`, `GuestHost.cfg` | passes, about 15 000 states |
| `zero_length` | `MCGuestHost`, `ZeroLength.cfg` | violated: a zero-length allocation shares its pointer with the next |
| `session` | `MCContractSession`, `ContractSession.cfg` | passes, about 51 000 states |
| `fuel_typed` | `MCContractSession`, `FuelTyped.cfg` | violated: exhaustion outside `main_function` is not `OutOfFuel` |
| `null_refusal` | `MCContractSession`, `NullRefusal.cfg` | violated: a refused allocation traps instead of returning null |
| `declared_memory` | `MCDeclaredMemory`, `DeclaredMemory.cfg` | passes, about 10 000 states |
| `overflow_is_none` | `MCDeclaredMemory`, `OverflowIsNone.cfg` | violated: a number above the word is read without its upper bits |
| `fleet` | `MCFleet`, `Fleet.cfg` | passes, about 211 000 states |
| `accepted_table` | `MCFleet`, `AcceptedTable.cfg` | violated: a table the smallest node has no room for is accepted |
| `metrics` | `Metrics`, `Metrics.cfg` | passes, about 956 000 states |
| `mock_host` | `MCMockHost`, `MockHost.cfg` | passes, about 35 000 states |
| `example_subject` | `MCExampleSubject`, `ExampleSubject.cfg` | passes, about 1 900 states |

What the passing runs check:

- `guest_host`: allocations tile the backing vector (`RegionsTile`); the caps
  hold and the map is no larger than the memory (`WithinLimits`); a granted
  pointer stays valid with its length (`GrantsStayValid`); for every 32-bit
  pointer `pointer_len` and the lookup of a result agree, and only granted
  pointers are known (`KnownPointersAgree`); the whole refines `ObjectStore`
  (`ImplementsObjectStore`).
- `session`: staged inputs survive the call (`StagedInputsSurvive`); no import
  but `alloc` refuses the SDK anything and no staged input is unreadable
  (`SdkCallsSucceed`); a returned pointer names the result (`ResultIsFresh`);
  `MemoryAllocationFailed` means exactly that the inputs are too big for the
  node (`RefusalMeansInputsTooBig`); metrics agree with answers
  (`MetricsAgree`); a validated module can be linked and entered by every `execute`, and
  only a trap of its own start function fails its instantiation
  (`ValidatedModulesRun`); the whole refines `ContractCall`
  (`ImplementsContractCall`): two nodes of different sizes that both give a
  verdict give the same one; every call is answered (`CallsEnd`).
- `declared_memory`: the parser reads the largest minimum of every binary the
  writer makes if its numbers fit the word, and never more than is declared
  (`LargestIsRead`); of a binary cut at any byte it reads nothing unless the cut is
  between sections (`CutIsNotRead`).
- `fleet`: what any node holds fits the memory of every machine
  (`AcceptedMemoryFits`); nodes agree on what is refused for its memory, and those of one
  version and architecture on what compiles (`CompileAgrees`); a node runs
  only code of its own version, made for features its CPU has, and neither the
  fingerprint nor the refusal of persisted code depends on RAM or cores
  (`CodeMatchesEngine`); where a larger and a smaller node differ, the smaller one
  ran into a limit of its own (`LargerNodeAgrees`).
- `metrics`: at every instant a counted execution has its samples
  (`CountersAreOrdered`), a scrape that is not a snapshot still shows them
  (`ScrapeIsCovered`), and with no call in progress every series is exact
  (`IdleCountersAgree`).
- `mock_host`: a guarded test is isolated from whatever ran before it
  (`GuardedTestIsAlone`) and reads back what it stored (`StoredIsReadBack`).
- `example_subject`: each field of a subject holds what the last accepted event gave
  it, through rejections and errors (`FieldsAreLastWrites`); a rejected
  event leaves the state of its verdict alone (`RejectedKeepsState`).

The violated properties each state a sentence of the repository that the code
does not keep; `PROJECT.json` quotes them under `findings`.

Smaller disagreements, met while modelling and not given a run of their own:

- `config.rs:164` says a smaller node "fails to instantiate instead of voting a
  different result"; a guest that grows past the node's limit is instantiated and
  ends as `ContractExecutionFailed`, as a contract that panics does. For the same
  reason `OutOfFuel`, "deterministic (same budget on every node)" in
  `error.rs:72`, is not: a smaller node may trap on growth first. `LargerNodeAgrees`
  states what does hold.
- `config.rs:160` says "equal wasm must compile to equal native code on all nodes";
  `Config::default()` names no target (`config.rs:167`), so two hosts of different
  architectures compile different code. What the sentence is after, equal results,
  is left to `cranelift_nan_canonicalization`; `CodeMatchesEngine` states what
  holds of the code.
- `error.rs:98` says `UnknownImportFunction` means a function the SDK does not
  provide; a duplicate import of an SDK function is answered with it too.
- `contract_runtime.rs:275` says counting a rejected execution as "success" lies;
  fuel and memory of one are sampled under that label (`contract_runtime.rs:344`).
- `externf.rs:46` says a test can never leak mock memory; tests without the guard
  (`tests.rs:252`, `tests.rs:553`) leave it to the next test of the thread.
- The example refuses 50 for its third field in `ModThree` (`example/src/lib.rs:56`)
  and takes it in `ModAll`.
- `README.md:213` of the repository documents `CompiledModule::precompiled_bytes()`,
  which does not exist: `compile` returns the bytes.

### Bounds

`guest_host` uses one-bit bytes, `i32::MAX` = 3 and `usize::MAX` = 15: every
pointer, offset and length of the word is tried, with negative ones and ones
beyond the caps. The limits give a total the single cap does not divide and a
total below the single cap. The proofs remove the bounds.

`session` uses three nodes. Inputs reach exactly the single cap of the large
one, which is the guest's `MAX_DATA_SIZE`, and pass those of the other two; on
the small node no result fits. The calls have a state, initial state or event
that parses, does not parse, or is too large; callbacks that accept, accept and
then reject, require the owner, panic, and leave a state that cannot be written
or cannot be read back; and modules with each kind of bad import, too much
memory, too large a table, missing entry points, no exported memory, and a start
function, which may allocate nothing or what the small node has room for next to one
input and not next to three. The
longest path through the SDK takes six steps; the budgets of 7 and 13 leave
room for extra work at every step and for exhaustion at every step. Calls are
independent except through `validated`, so the sequences of calls that matter
are short, and all are explored. `null_refusal` uses start functions that allocate
nothing, so that its counterexample is a call of the SDK.

`declared_memory` uses numbers of three bits in one or two groups of two, so that
padded, two-byte and overflowing numbers occur, and binaries of up to two sections
with up to two entries each; sections whose bytes look like a memory section are
among them.

`fleet` uses two nodes and five hosts, with machines none given, too small for any step,
just below two steps with many cores, the default, and one whose product saturates
`U64Max`, and with CPUs of two architectures, one of them with and without a feature; the
machines with the fewest and the most cores share a CPU. Contracts declare memory at the
floor and above it, a table only some nodes have, or are valid for no engine or for one; calls stage inputs that fit some nodes and all, and
guests grow memory and table, allocate, and exhaust fuel before and after growth.
All properties relate at most two nodes, which are alike, so the two are permuted
(`MCSymmetry`).

`metrics` makes three calls on two threads with one scraper that starts over; the
properties relate two series at a time, and three calls are enough for two to be
between updates while a third is counted. `mock_host` runs up to three tests with
three pointers between resets, on data that is empty, at the SDK's limit and above it.
`example_subject` uses the values 0 and 50: any event can follow any other, and the
state space is finite without a bound on the number of events.

### Fairness

`ContractSession` assumes weak fairness of `Step`, the runtime's and the guest's
next step of a call in progress: `execute` and `validate` run on the caller's
thread and nothing in them waits. It does not assume that the guest makes
progress: `GuestWork` and `StartWork` may be chosen forever, and fuel is what ends them. It does
not assume that calls are made.

## Proofs

`GuestHost_proofs` proves, for every set of bytes, word sizes, set of limits and
initial linear memory that satisfy the named assumptions:

| Theorem | Statement |
|---|---|
| `Invariance` | `Spec => []IInv` |
| `TypeCorrect` | `Spec => []TypeOK` |
| `Tiling` | `Spec => []RegionsTile` |
| `LimitsHold` | `Spec => []WithinLimits` |
| `GrantsHold` | `Spec => []GrantsStayValid` |
| `PointersAgree` | `Spec => []KnownPointersAgree` |
| `Refinement` | `Spec => ImplementsObjectStore` |

Assumptions: the zero byte is a byte; a `usize` holds every `u32`
(`WidthAssumption`); `max_total_memory` is at most `i32::MAX`
(`LimitsAssumption`; `WasmLimits::build` clamps it to 24 MiB); sizes are natural
numbers.

The inductive invariant is

    IInv == TypeOK /\ WellFormed(mm) /\ GrantsTracked /\ LinearWithinLimit

None of the checked invariants is inductive alone. That the casts are exact
needs the total cap and the tiling (every offset lies below `max_total_memory`,
hence below `i32::MAX`); that a grant stays valid needs the map to be the
history of grants, because a new region could otherwise reuse an offset; the
tiling needs the map to end where memory ends, which the no-gap conjunct says.
`MemoryManager_proofs` shows, operator by operator, that a well-formed manager
stays well formed and what happens to the contents of each region; the proof of
`Refinement` maps `objects` to the contents of the tracked regions and cites
these lemmas, one step per action.

`Fleet_proofs` first proves for every RAM size and core count that the limits lie in
their ranges and that three inputs at the single cap fit the total (`LimitsBounded`,
which discharges what `LimitsAssumption` asks of the real limits), and that limits
grow with the machine (`LimitsMonotone`). Products of two variables are nonlinear;
`ProductMonotone` isolates the one fact needed of them.

Then, for every fleet:

| Theorem | Statement |
|---|---|
| `AcceptedMemoryFitsEverywhere` | `Spec => []AcceptedMemoryFits` |
| `CodeAlwaysMatchesEngine` | `Spec => []CodeMatchesEngine` |
| `FleetTypeOK` | `Spec => []TypeOK` |
| `FleetCompileAgrees` | `Spec => []CompileAgrees` |
| `FleetLargerNodeAgrees` | `Spec => []LargerNodeAgrees` |

from `LimitsWidthAssumption` (32 MiB fit both words), `MachinesAssumption` (sizes are
natural numbers and a core count times 256 fits a word), `CallsAssumption` (a call asks
for natural amounts, and a verdict is not one of the errors) and `ContractsAssumption`:
in a valid binary an engine finds the memory the parser reads, which
`DeclaredLargestIsRead` proves of every binary a writer makes section by section out of
numbers that fit the word. The inductive invariant `FleetInv` adds that code in memory
or on disk is the contract's, compiled by the engine of some version on some CPU, and
exists only of a contract that passed the gate: `load_precompiled` has no gate, so what is on disk has
to carry the fact. `AnswersInv` says that the last answer of a node is what compiling
the contract, loading code or running the call on its present machine gives; a restart
forgets it. `LargerNodeAgrees` is then a statement about two runs of one `program` on
limits of which one is nowhere smaller: as long as neither has stopped their stores are
equal, and what stops the larger one stops the smaller no later. It is shown for every
prefix by taking the least one for which it fails (`LeastElement`), which also gives that
the recursive function `stores` is what its definition says.

`ContractSession_proofs` proves, for every set of contracts, calls, documents, budgets
and limits:

| Theorem | Statement |
|---|---|
| `SessionTypeOK` | `Spec => []TypeOK` |
| `SessionInputsSurvive` | `Spec => []StagedInputsSurvive` |
| `SessionCallsSucceed` | `Spec => []SdkCallsSucceed` |
| `SessionResultIsFresh` | `Spec => []ResultIsFresh` |
| `SessionRefusals` | `Spec => []RefusalMeansInputsTooBig` |
| `SessionMetricsAgree` | `Spec => []MetricsAgree` |
| `SessionValidatedModulesRun` | `Spec => []ValidatedModulesRun` |
| `SessionImplementsContractCall` | `Spec => ImplementsContractCall` |

Assumptions: what `WasmLimits::build` guarantees (`SessionAssumption`, discharged for the
real limits by `LimitsBounded`); documents, parsers and sizes are total
(`ContractAssumption` and the assumptions of `ContractSdk`); every byte an error text or a
frame is written with is a byte (`FragmentsAssumption`); a call has the fields its
operation needs, and its callbacks are sequences of statements of the contract's types,
which Rust's type checker sees to (`CallAssumption`); the length of an input fits
its prefix, which the framing checks, and that of a result an `i32`, since it lies in the
guest's linear memory (`LengthAssumption`).

That a callback of any length leaves a result of the contract's types is the lemma
`CallbackType`: `callback` is a recursive function over its statements, which exists for
every length (`CallbackExists`) and of which no first statement can leave another type;
both are shown by taking the least length for which they fail (`LeastElement`).

The inductive invariant `SessionInv` has one part per concern:

- `StoreInv`: the manager is well formed and has the limits of the node;
- `CallInv`: what the position in the call says of operation, fuel, module and answer: a
  module that is linked fits the node, one that is entered has its entry points;
- `StagedInv`: every pointer handed out names an object that holds the frame of its
  input, and memory in use is the sum of the frames so far: without the sum a refusal
  could not be traced back to the inputs;
- `GuestInv`: the guest's variables are what the call determines at this point
  (parsed state, parsed event, `OutFor(call)`), which is what makes a verdict a function
  of the call;
- `TrapInv`, `ResultInv`: the reason of a trap, and the object of the result, which is
  none of the inputs' and not at 0;
- `ValidatedInv`, `AnswerInv`: what was validated fits and can be entered, and what is
  known of an answer.

A start function takes steps of its own in these proofs: `StartGoesOn` shows that one that
computes, grows or allocates leaves what was staged alone (`StartAllocStep` for any length,
0 included), and `StartFailsStep` that one that traps is the only way to
`InstantiationFailed` for a validated module.

None of the checked invariants is inductive alone: that the host reads the result of this
call, and not some input, needs the manager's tiling, the pointers of the inputs and the
bytes the guest wrote together. The lemmas of `MemoryManager_proofs` carry the memory
part; the first sections of `ContractSession_proofs` show that a frame that was written is read back
(`borsh` framing, `validate_host_len`, `read_and_parse`). The refinement maps `pc = "done"`
to the abstract status; every step of a call but its last is a stutter of `ContractCall`,
and the last one is its `End`.

`MockHost_proofs` proves `MockTypeOK` (`TypeOK`), `MockGuardedTestIsAlone`
(`GuardedTestIsAlone`) and `MockStoredIsReadBack` (`StoredIsReadBack`) for any number of
tests, pointers and any byte data (`MockAssumption`). `MockInv` adds that what a test
stored is in the map under its pointer (`StoredIsKept`); that no later store replaces it
rests on the next identifier being above every key, which is part of `TypeOK`.

`Metrics_proofs` proves `MetricsTypeOK` (`TypeOK`), `MetricsCountersAreOrdered`
(`CountersAreOrdered`), `MetricsScrapeIsCovered` (`ScrapeIsCovered`) and
`MetricsIdleCountersAgree` (`IdleCountersAgree`) for any finite set of threads and any
number of calls (`MetricsAssumption`). The counters alone are not inductive: an update is
harmless only if the one before it in the same call was made. `MetricsInv` therefore
counts the threads that are between two updates: `OrderInv` states each inequality with
those about to update the later series (`Upcoming`) added to it, and `AccountInv` states
that the value of a series and the threads that have still to update it (`Waiting`) add up
to the calls that ended in an outcome that updates it. With no thread inside a call both
terms are zero. `ScrapeInv` holds because registered order reads executions before
samples and counters never decrease.

`ExampleSubject_proofs` proves `SubjectFieldsAreLastWrites` (`FieldsAreLastWrites`) and
`SubjectRejectedKeepsState` (`RejectedKeepsState`) for every set of values that has 0 and
every initial state (`SubjectAssumption`, which also says that `null` is no state or event
and that a failed conversion is no value). `LogicWritesOrRefuses` evaluates the callback of
each event statement by statement: it ends accepted with exactly the fields the event names
written, or rejected with none. Neither property is inductive alone. `SubjectInv` adds that
a call in flight carries the document the subject still has (`CallInFlight`) and that a
subject without a document still has its initial fields (`Holds`), which is what makes the
fallback to `init_state` right; with them `AnswerIsVerdict` turns any answer of
`ContractCall` that is not an error into what the event does to `written`.

`DeclaredMemory_proofs` proves `DeclaredLargestIsRead` (`LargestIsRead`) and
`DeclaredCutIsNotRead` (`CutIsNotRead`) for every header, any number of values of a group
and of the word, and any number of groups, sections and minima. `EncodingAssumption` asks
that a group has two values at least and a word has those of a group,
`WriterAssumption` that the number of entries of a section fits a group (127 of them in
the code). The argument follows the format from the inside out:

- the groups of a number, summed at their places, are the number (`NumberOfGroups`, with
  `sum[k] + unit[k] * Rest(v, k) = v` for every `k`), so a number is read back modulo the
  word, padded or not (`ReadBack`), and one that is cut is not read (`ReadCut`);
- an entry is read back with its optional maximum skipped (`EntryReads`), and a body of
  entries with the largest of their minima (`MemoryReads`);
- a section that is cut is not read (`SectionCut`), a whole one is (`SectionReads`), and
  bytes appended later change nothing of what was read (`ReadExtends`, `EntryExtends`,
  `SectionExtends`);
- the loop makes no more rounds than there are bytes (`RoundsBound`), so its result is
  what its last section gives (`ParsedPages`, `BrokenPages`).

Neither property is inductive alone: to read one more section right the parser has to be
in the right place after those before it. `CutInv` therefore states, for every cut of
the binary, the rounds by which it is read to its end or to the section at which it
breaks off, and, with a number that overflowed, that the rounds still reach the end with a value that is
not above the declared one. Recursive functions are shown to exist and to be unique by `Iterate` and
`InductionTo`, in which the property is a set: the library's induction theorems take an
operator, which the provers cannot instantiate.

Only model-checked: `CallsEnd`, which is liveness under fairness and beyond the prover.

## Not modelled

Left out for good:

- the wording and formatting of messages and the `Display` implementations;
- histogram buckets and the text format of a scrape;
- wasmtime's code generation, and collisions of the hash `engine_fingerprint` takes;
- memory a module imports instead of declaring (`validate` refuses such an import);
- 64-bit memories. `ContractsAssumption` excludes them: their minimum need not fit the 32
  bits of the reader, which then reads a smaller one (`overflow_is_none`). Whether an
  engine takes such a module is up to the features of its version, which the
  configuration does not restrict; where it does, the gate of `compile` may let it pass,
  and `AcceptedMemoryFits` says nothing of it;
- writes of a start function to objects it did not allocate;
- the limits that are one on every node (instances, tables, memories);
- the two other examples: one is a single assignment, and what the malicious one
  shows is about the build environment of a node;
- the node itself, which persists bytes, restarts and applies verdicts, is
  outside the repository and modelled only as far as `Fleet` and `ExampleSubject` need.
