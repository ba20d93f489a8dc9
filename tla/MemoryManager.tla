---------------------------- MODULE MemoryManager ----------------------------
(***************************************************************************)
(* The host-side memory manager of a contract call and the four `env`      *)
(* imports the linker backs with it (src/src/runtime/host.rs).             *)
(*                                                                         *)
(* A manager is a record mm with the fields of struct MemoryManager:       *)
(*   memory            the byte vector, a sequence (offset p is index p+1) *)
(*   map               allocation offset -> allocation length              *)
(*   max_single_alloc  cap on one allocation                               *)
(*   max_total_memory  cap on the length of memory                         *)
(*   store_limits      wasmtime's limits on the guest instance             *)
(* Every method is an operator.  A method that returns a Result is a       *)
(* record [ok, mm, val]: whether it is Ok, the manager afterwards and the  *)
(* value, or the name of the ContractError.                                *)
(***************************************************************************)
EXTENDS Integers, Sequences, FiniteSets

CONSTANTS
  Byte,      \* the values of one byte
  Zero,      \* the byte 0
  I32Max,    \* i32::MAX
  UsizeMax   \* usize::MAX of the host

ASSUME ByteAssumption == Zero \in Byte

\* A host usize holds at least every u32: `as usize` never truncates a u32.
ASSUME WidthAssumption ==
  /\ I32Max \in Nat
  /\ UsizeMax \in Nat
  /\ UsizeMax >= 2 * I32Max + 1

Ok(mm, v) == [ok |-> TRUE, mm |-> mm, val |-> v]
Err(mm, e) == [ok |-> FALSE, mm |-> mm, val |-> e]

(***************************************************************************)
(* Rust's `as` casts at the boundary.                                      *)
(***************************************************************************)
U32Values == 2 * I32Max + 2

I32 == -(I32Max + 1) .. I32Max

U32 == 0 .. (2 * I32Max + 1)

\* i32 as usize: sign-extends
i32_as_usize(i) == IF i < 0 THEN UsizeMax + 1 + i ELSE i

\* usize or isize as u32: truncates
as_u32(n) == n % U32Values

\* the 32 bits of an i32 read as u32, as the host reads what an entry point
\* returns
i32_as_u32(i) == IF i < 0 THEN U32Values + i ELSE i

\* the same 32 bits read as i32 by the guest
u32_as_i32(u) == IF u > I32Max THEN u - U32Values ELSE u

-----------------------------------------------------------------------------
(***************************************************************************)
(* Methods of MemoryManager.                                               *)
(***************************************************************************)

\* mutant of from_limits: takes the total from the single cap
from_limits_triple(limits) ==
  [memory |-> << >>,
   map |-> [p \in {} |-> 0],
   store_limits |-> [memory_size |-> limits.memory_size,
                     table_elements |-> limits.max_table_elements],
   max_single_alloc |-> limits.max_single_alloc,
   max_total_memory |-> 3 * limits.max_single_alloc]

from_limits(limits) ==
  [memory |-> << >>,
   map |-> [p \in {} |-> 0],
   store_limits |-> [memory_size |-> limits.memory_size,
                     table_elements |-> limits.max_table_elements],
   max_single_alloc |-> limits.max_single_alloc,
   max_total_memory |-> limits.max_total_memory]

zeroed(n) == [i \in 1..n |-> Zero]

copy_from_slice(memory, start, data) ==
  [i \in 1..Len(memory) |->
     IF start < i /\ i <= start + Len(data) THEN data[i - start] ELSE memory[i]]

slice(memory, start, len) == [i \in 1..len |-> memory[start + i]]

resize(mm, new_len) ==
  [mm EXCEPT !.memory = [i \in 1..new_len |->
                           IF i <= Len(mm.memory) THEN mm.memory[i] ELSE Zero]]

\* mutants of track
track_at_end(mm, ptr, len) ==
  [mm EXCEPT !.map = [p \in DOMAIN mm.map \cup {ptr + len} |->
                        IF p = ptr + len THEN len ELSE mm.map[p]]]

track_empty(mm, ptr, len) ==
  [mm EXCEPT !.map = [p \in DOMAIN mm.map \cup {ptr} |->
                        IF p = ptr THEN len ELSE mm.map[p]]]

\* Zero-length allocations are not tracked.
track(mm, ptr, len) ==
  IF len = 0
    THEN mm
    ELSE [mm EXCEPT !.map = [p \in DOMAIN mm.map \cup {ptr} |->
                               IF p = ptr THEN len ELSE mm.map[p]]]

\* mutant of alloc: checks the running total before the new length is added
alloc_stale_total(mm, len) ==
  LET current_len == Len(mm.memory)
      new_len == current_len + len
  IN  IF len > mm.max_single_alloc THEN Err(mm, "AllocationTooLarge")
      ELSE IF current_len > mm.max_total_memory THEN Err(mm, "TotalMemoryExceeded")
      ELSE Ok(track(resize(mm, new_len), current_len, len), current_len)

\* mutant of alloc: refuses a length at the single cap
alloc_strict(mm, len) ==
  LET new_len == Len(mm.memory) + len
  IN  IF len >= mm.max_single_alloc THEN Err(mm, "AllocationTooLarge")
      ELSE IF new_len > mm.max_total_memory THEN Err(mm, "TotalMemoryExceeded")
      ELSE Ok(track(resize(mm, new_len), Len(mm.memory), len), Len(mm.memory))

alloc(mm, len) ==
  LET current_len == Len(mm.memory)
      new_len == current_len + len
  IN  IF len > mm.max_single_alloc THEN Err(mm, "AllocationTooLarge")
      ELSE IF new_len > UsizeMax THEN Err(mm, "AllocationOverflow")
      ELSE IF new_len > mm.max_total_memory THEN Err(mm, "TotalMemoryExceeded")
      ELSE Ok(track(resize(mm, new_len), current_len, len), current_len)

read_data(mm, ptr) ==
  IF \/ ptr \notin DOMAIN mm.map
     \/ ptr + mm.map[ptr] > UsizeMax
     \/ ptr + mm.map[ptr] > Len(mm.memory)
    THEN Err(mm, "InvalidPointer")
    ELSE Ok(mm, slice(mm.memory, ptr, mm.map[ptr]))

\* Unlike read_data, any in-bounds range: it may span several allocations.
read_bytes(mm, ptr, len) ==
  IF ptr + len > UsizeMax \/ ptr + len > Len(mm.memory)
    THEN Err(mm, "InvalidPointer")
    ELSE Ok(mm, slice(mm.memory, ptr, len))

\* mutant of write_bytes: bounds the write by the backing store only
write_bytes_unbounded(mm, ptr, data) ==
  IF ptr \notin DOMAIN mm.map \/ ptr + Len(data) > Len(mm.memory)
    THEN Err(mm, "InvalidPointer")
    ELSE Ok([mm EXCEPT !.memory = copy_from_slice(mm.memory, ptr, data)], 0)

write_bytes(mm, ptr, data) ==
  IF ptr \notin DOMAIN mm.map THEN Err(mm, "InvalidPointer")
  ELSE IF Len(data) > mm.map[ptr] THEN Err(mm, "WriteOutOfBounds")
  ELSE IF ptr + Len(data) > UsizeMax \/ ptr + Len(data) > Len(mm.memory)
    THEN Err(mm, "InvalidPointer")
  ELSE Ok([mm EXCEPT !.memory = copy_from_slice(mm.memory, ptr, data)], 0)

\* ptr.saturating_add(len) is the lesser of ptr + len and usize::MAX.
write_bytes_at(mm, ptr, offset, data) ==
  LET start == ptr + offset
      end == start + Len(data)
  IN  IF ptr \notin DOMAIN mm.map THEN Err(mm, "InvalidPointer")
      ELSE IF start > UsizeMax \/ end > UsizeMax THEN Err(mm, "InvalidPointer")
      ELSE IF \/ end > ptr + mm.map[ptr]
              \/ end > Len(mm.memory)
        THEN Err(mm, "WriteOutOfBounds")
      ELSE Ok([mm EXCEPT !.memory = copy_from_slice(mm.memory, start, data)], 0)

add_data_raw(mm, bytes) ==
  LET a == alloc(mm, Len(bytes))
  IN  IF ~a.ok
        THEN a
        ELSE Ok([a.mm EXCEPT !.memory = copy_from_slice(a.mm.memory, a.val, bytes)],
                a.val)

get_pointer_len(mm, ptr) == IF ptr \in DOMAIN mm.map THEN mm.map[ptr] ELSE -1

checked_guest_len(mm, len) ==
  IF len < 0 THEN Err(mm, "InvalidLength")
  ELSE IF len > mm.max_single_alloc THEN Err(mm, "AllocationTooLarge")
  ELSE Ok(mm, len)

-----------------------------------------------------------------------------
(***************************************************************************)
(* The `env` imports.  An Err becomes a trap of the guest.  linear is the  *)
(* guest's exported linear memory; wasmtime's Memory::read and             *)
(* Memory::write fail when the range is not inside it.                     *)
(***************************************************************************)

InLinear(linear, ptr, len) == ptr + len <= Len(linear)

env_pointer_len(mm, pointer) ==
  u32_as_i32(as_u32(get_pointer_len(mm, i32_as_usize(pointer))))

\* mutant of env_alloc: reports a refused allocation as a null pointer
env_alloc_null(mm, len) ==
  LET a == alloc(mm, len)
  IN  Ok(a.mm, IF a.ok THEN u32_as_i32(as_u32(a.val)) ELSE 0)

env_alloc(mm, len) ==
  LET a == alloc(mm, len)
  IN  IF a.ok THEN Ok(a.mm, u32_as_i32(as_u32(a.val))) ELSE a

\* val is the guest's linear memory after the call.
env_read_bytes(mm, linear, exported, src_ptr, dst_ptr, len) ==
  LET checked == checked_guest_len(mm, len)
      bytes == read_bytes(mm, i32_as_usize(src_ptr), len)
      dst == i32_as_usize(dst_ptr)
  IN  IF ~checked.ok THEN checked
      ELSE IF ~bytes.ok THEN bytes
      ELSE IF ~exported THEN Err(mm, "LinkerError")
      ELSE IF ~InLinear(linear, dst, len) THEN Err(mm, "MemoryAccessError")
      ELSE Ok(mm, copy_from_slice(linear, dst, bytes.val))

env_write_bytes(mm, linear, exported, dst_ptr, src_ptr, len) ==
  LET checked == checked_guest_len(mm, len)
      src == i32_as_usize(src_ptr)
  IN  IF ~checked.ok THEN checked
      ELSE IF ~exported THEN Err(mm, "LinkerError")
      ELSE IF ~InLinear(linear, src, len) THEN Err(mm, "MemoryAccessError")
      ELSE write_bytes(mm, i32_as_usize(dst_ptr), slice(linear, src, len))

-----------------------------------------------------------------------------
(***************************************************************************)
(* What a well-formed manager is: the parts of the invariant that every    *)
(* machine built on these operators keeps.                                 *)
(***************************************************************************)

\* The fields have their types, and the limits are ones WasmLimits::build
\* can produce: neither cap is above i32::MAX (the total is clamped to 24 MiB).
ManagerType(mm) ==
  /\ mm = [memory |-> mm.memory, map |-> mm.map,
           store_limits |-> mm.store_limits,
           max_single_alloc |-> mm.max_single_alloc,
           max_total_memory |-> mm.max_total_memory]
  /\ mm.memory \in Seq(Byte)
  /\ mm.map \in [DOMAIN mm.map -> Nat]
  /\ DOMAIN mm.map \subseteq Nat
  /\ mm.max_single_alloc \in Nat
  /\ mm.max_total_memory \in 0..I32Max

\* The tracked regions are non-empty, lie inside memory, do not overlap and
\* leave no gap between them.
Tiled(mm) ==
  /\ \A p \in DOMAIN mm.map : mm.map[p] > 0 /\ p + mm.map[p] <= Len(mm.memory)
  /\ \A p, q \in DOMAIN mm.map : p < q => p + mm.map[p] <= q
  /\ \A i \in 0..(Len(mm.memory) - 1) :
       \E p \in DOMAIN mm.map : p <= i /\ i < p + mm.map[p]

\* Neither cap is exceeded by what was allocated.
Capped(mm) ==
  /\ Len(mm.memory) <= mm.max_total_memory
  /\ \A p \in DOMAIN mm.map : mm.map[p] <= mm.max_single_alloc

\* The byte string each tracked pointer names.
Contents(mm) == [p \in DOMAIN mm.map |-> slice(mm.memory, p, mm.map[p])]

WellFormed(mm) == ManagerType(mm) /\ Tiled(mm) /\ Capped(mm)

=============================================================================
