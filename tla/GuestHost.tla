------------------------------ MODULE GuestHost ------------------------------
(***************************************************************************)
(* The boundary between the host and an arbitrary guest module during one  *)
(* contract call after another (src/src/runtime/host.rs).                  *)
(*                                                                         *)
(* A call builds a store whose data is a fresh MemoryManager, stages its   *)
(* inputs through the manager's own methods, instantiates the guest and    *)
(* lets it run.  The guest is whatever was compiled: it calls the four     *)
(* `env` imports in any order with any 32-bit arguments, changes and grows *)
(* its linear memory, traps, or returns a pointer the host reads the       *)
(* result from.  An import that fails traps the guest and ends the call.   *)
(***************************************************************************)
EXTENDS MemoryManager

CONSTANTS
  Limits,       \* the WasmLimits a store can be built with
  LinearStart   \* length of the guest's linear memory at instantiation

ASSUME LimitsAssumption ==
  \A limits \in Limits :
    /\ limits.max_single_alloc \in Nat
    /\ limits.max_total_memory \in 0..I32Max
    /\ limits.memory_size \in Nat
    /\ limits.max_table_elements \in Nat

ASSUME LinearAssumption == LinearStart \in Nat

VARIABLES
  mm,         \* the MemoryManager in the store
  linear,     \* the guest's linear memory
  exported,   \* whether the guest exports it as "memory"
  phase,      \* "staging", "guest" or "ended"
  fetched,    \* the result bytes the host read, << >> when there are none
  granted     \* history: <<pointer, length>> of every allocation, the pointer
              \* as the guest holds it

vars == <<mm, linear, exported, phase, fetched, granted>>

Phases == {"staging", "guest", "ended"}

Init ==
  /\ \E limits \in Limits : mm = from_limits(limits)
  /\ linear = << >>
  /\ exported = FALSE
  /\ phase = "staging"
  /\ fetched = << >>
  /\ granted = {}

\* The outcome of a method the host calls or an import the guest calls: an Err
\* ends the call, with the manager as the method left it.
Outcome(r) ==
  /\ mm' = r.mm
  /\ phase' = IF r.ok THEN phase ELSE "ended"

\* r is the outcome of allocating len bytes.
Grant(r, len) ==
  granted' = IF r.ok
               THEN granted \cup {<<u32_as_i32(as_u32(r.val)), len>>}
               ELSE granted

-----------------------------------------------------------------------------
(***************************************************************************)
(* The host stages the call's inputs.                                      *)
(***************************************************************************)

\* Byte strings a step can carry: no longer than what memory can hold.
Data == UNION {[1..n -> Byte] : n \in 0..mm.max_total_memory}

HostAlloc(len) ==
  /\ phase = "staging"
  /\ Outcome(alloc(mm, len))
  /\ Grant(alloc(mm, len), len)
  /\ UNCHANGED <<linear, exported, fetched>>

HostAddDataRaw(bytes) ==
  /\ phase = "staging"
  /\ Outcome(add_data_raw(mm, bytes))
  /\ Grant(add_data_raw(mm, bytes), Len(bytes))
  /\ UNCHANGED <<linear, exported, fetched>>

HostWriteBytesAt(ptr, offset, data) ==
  /\ phase = "staging"
  /\ Outcome(write_bytes_at(mm, ptr, offset, data))
  /\ UNCHANGED <<linear, exported, fetched, granted>>

\* The guest gets a linear memory if the store limits allow its size; a module
\* that needs more does not instantiate.
Instantiate ==
  /\ phase = "staging"
  /\ IF LinearStart <= mm.store_limits.memory_size
       THEN /\ phase' = "guest"
            /\ linear' = zeroed(LinearStart)
            /\ exported' \in BOOLEAN
       ELSE /\ phase' = "ended"
            /\ UNCHANGED <<linear, exported>>
  /\ UNCHANGED <<mm, fetched, granted>>

-----------------------------------------------------------------------------
(***************************************************************************)
(* The guest runs.                                                         *)
(***************************************************************************)

GuestAlloc(len) ==
  /\ phase = "guest"
  /\ Outcome(env_alloc(mm, len))
  /\ Grant(env_alloc(mm, len), len)
  /\ UNCHANGED <<linear, exported, fetched>>

GuestReadBytes(src_ptr, dst_ptr, len) ==
  LET r == env_read_bytes(mm, linear, exported, src_ptr, dst_ptr, len)
  IN  /\ phase = "guest"
      /\ Outcome(r)
      /\ linear' = IF r.ok THEN r.val ELSE linear
      /\ UNCHANGED <<exported, fetched, granted>>

GuestWriteBytes(dst_ptr, src_ptr, len) ==
  /\ phase = "guest"
  /\ Outcome(env_write_bytes(mm, linear, exported, dst_ptr, src_ptr, len))
  /\ UNCHANGED <<linear, exported, fetched, granted>>

\* The guest stores a byte in its own linear memory.
GuestStore(i, b) ==
  /\ phase = "guest"
  /\ linear' = [linear EXCEPT ![i] = b]
  /\ UNCHANGED <<mm, exported, phase, fetched, granted>>

\* memory.grow: a growth past the store limits traps.
GuestGrow ==
  /\ phase = "guest"
  /\ IF Len(linear) + 1 <= mm.store_limits.memory_size
       THEN linear' = Append(linear, Zero) /\ UNCHANGED phase
       ELSE phase' = "ended" /\ UNCHANGED linear
  /\ UNCHANGED <<mm, exported, fetched, granted>>

\* A panic, an unreachable instruction, a fault or the end of the fuel.
GuestTrap ==
  /\ phase = "guest"
  /\ phase' = "ended"
  /\ UNCHANGED <<mm, linear, exported, fetched, granted>>

\* The entry point returns 32 bits, which the host reads as a u32 and looks up.
GuestReturn(pointer) ==
  LET r == read_data(mm, i32_as_u32(pointer))
  IN  /\ phase = "guest"
      /\ phase' = "ended"
      /\ fetched' = IF r.ok THEN r.val ELSE fetched
      /\ UNCHANGED <<mm, linear, exported, granted>>

\* The next call builds a store of its own.
NewStore ==
  /\ phase = "ended"
  /\ \E limits \in Limits : mm' = from_limits(limits)
  /\ linear' = << >>
  /\ exported' = FALSE
  /\ phase' = "staging"
  /\ fetched' = << >>
  /\ granted' = {}

Next ==
  \/ \E len \in U32 : HostAlloc(len)
  \/ \E bytes \in Data : HostAddDataRaw(bytes)
  \/ \E ptr, offset \in 0..mm.max_total_memory, data \in Data :
       HostWriteBytesAt(ptr, offset, data)
  \/ Instantiate
  \/ \E len \in U32 : GuestAlloc(len)
  \/ \E src_ptr, dst_ptr, len \in I32 : GuestReadBytes(src_ptr, dst_ptr, len)
  \/ \E dst_ptr, src_ptr, len \in I32 : GuestWriteBytes(dst_ptr, src_ptr, len)
  \/ \E i \in DOMAIN linear, b \in Byte : GuestStore(i, b)
  \/ GuestGrow
  \/ GuestTrap
  \/ \E pointer \in I32 : GuestReturn(pointer)
  \/ NewStore

Spec == Init /\ [][Next]_vars

-----------------------------------------------------------------------------
(***************************************************************************)
(* Properties.                                                             *)
(***************************************************************************)

\* Every variable has its type; in particular the manager is well formed.
TypeOK ==
  /\ ManagerType(mm)
  /\ linear \in Seq(Byte)
  /\ exported \in BOOLEAN
  /\ phase \in Phases
  /\ fetched \in Seq(Byte)
  /\ granted \subseteq I32 \X U32

\* The allocations tile the backing vector: whatever sequence of allocations,
\* zero-length ones included, and writes a guest makes, the tracked regions are
\* non-empty, inside memory, disjoint and without gaps (alloc's bookkeeping of
\* memory and map).
RegionsTile == Tiled(mm)

LinearWithinLimit == phase = "guest" => Len(linear) <= mm.store_limits.memory_size

\* The caps of the store hold whatever the guest asks for, and the map cannot
\* be inflated past one entry per allocated byte (the reason alloc gives for
\* leaving zero-length allocations out of the map).
WithinLimits ==
  /\ Capped(mm)
  /\ Cardinality(DOMAIN mm.map) <= Len(mm.memory)
  /\ LinearWithinLimit

\* The guest's view of a non-empty allocation survives everything that happens
\* after it: the 32-bit pointer it was given casts back to the offset it stands
\* for, pointer_len still reports the length asked for and read_data still
\* finds exactly that many bytes there.
GrantsStayValid ==
  \A g \in granted :
    LET ptr == g[1] len == g[2]
    IN  len > 0 =>
          /\ env_pointer_len(mm, ptr) = len
          /\ read_data(mm, i32_as_u32(ptr)).ok
          /\ Len(read_data(mm, i32_as_u32(ptr)).val) = len

\* pointer_len, which sign-extends a pointer, and the lookup of a result, which
\* zero-extends it, agree on which pointers are known: for every 32-bit pointer
\* the guest can hold, pointer_len answers -1 exactly when the host would
\* refuse that pointer as a result, so no negative or wrapped pointer reaches an
\* object the guest was not given.
KnownPointersAgree ==
  \A ptr \in I32 :
    /\ env_pointer_len(mm, ptr) = -1 <=> ~read_data(mm, i32_as_u32(ptr)).ok
    /\ env_pointer_len(mm, ptr) # -1 => <<ptr, env_pointer_len(mm, ptr)>> \in granted

\* The inductive invariant behind the ones above: the manager is well formed
\* and its map and the history of grants say the same.
GrantsTracked ==
  /\ \A g \in granted : g[2] > 0 => g[1] \in DOMAIN mm.map /\ mm.map[g[1]] = g[2]
  /\ \A p \in DOMAIN mm.map : <<p, mm.map[p]>> \in granted

IInv ==
  /\ TypeOK
  /\ WellFormed(mm)
  /\ GrantsTracked
  /\ LinearWithinLimit

\* What alloc's comment says of zero-length allocations: get_pointer_len
\* reports them unknown (-1), like any untracked pointer.
ZeroLengthUnknown ==
  \A g \in granted : g[2] = 0 => env_pointer_len(mm, g[1]) = -1

Abstract == INSTANCE ObjectStore
              WITH objects <- Contents(mm), fetched <- fetched, Pointer <- 0..UsizeMax

\* The manager implements the store of separate byte strings: every step of
\* the host or the guest creates, overwrites or fetches one object, or changes
\* none.
ImplementsObjectStore == Abstract!Spec

=============================================================================
