------------------------------- MODULE MockHost -------------------------------
(***************************************************************************)
(* The thread-local mock host of the SDK's unit tests (src/src/externf.rs) *)
(* and the SDK's reads and stores on it (src/src/lib.rs, cfg(test)).  One  *)
(* thread runs tests one after another; a test holds a MockHostGuard or    *)
(* does not.                                                               *)
(***************************************************************************)
EXTENDS Integers, Sequences, SequencesExt

CONSTANTS
  Data,            \* the byte strings tests use
  FIRST_ID,        \* 1000
  MAX_DATA_SIZE,
  MaxIds,          \* bound on the pointers given out between resets
  MaxTests         \* bound on the tests of the thread

ASSUME MockAssumption ==
  /\ Data \subseteq Seq(0..255)
  /\ {FIRST_ID, MAX_DATA_SIZE, MaxIds, MaxTests} \subseteq Nat

ForcedLens == {-1, 0, MAX_DATA_SIZE + 1}
NoForce == MAX_DATA_SIZE + 2       \* FORCE_POINTER_LEN is None

VARIABLES
  HOST_MEMORY, NEXT_ID, FORCE_ALLOC_ZERO, FORCE_POINTER_LEN,
  test,       \* the test: [number, guarded, status], status "none", "running"
              \* or "panicked"
  stored,     \* history: the pointers and data the test has stored
  forced_by   \* history: the test that last set a FORCE flag

mock == <<HOST_MEMORY, NEXT_ID, FORCE_ALLOC_ZERO, FORCE_POINTER_LEN>>
vars == <<mock, test, stored, forced_by>>

Fresh(memory, id, zero, len) ==
  memory = << >> /\ id = FIRST_ID /\ zero = FALSE /\ len = NoForce

Init ==
  /\ Fresh(HOST_MEMORY, NEXT_ID, FORCE_ALLOC_ZERO, FORCE_POINTER_LEN)
  /\ test = [number |-> 0, guarded |-> FALSE, status |-> "none"]
  /\ stored = {}
  /\ forced_by = 0

\* mutant of reset: forgets the forced allocation failure
reset_keeps_force ==
  /\ HOST_MEMORY' = << >> /\ NEXT_ID' = FIRST_ID /\ FORCE_POINTER_LEN' = NoForce
  /\ UNCHANGED FORCE_ALLOC_ZERO

\* mutant of reset: takes ids from the start again but keeps the memory
reset_keeps_memory ==
  /\ NEXT_ID' = FIRST_ID /\ FORCE_ALLOC_ZERO' = FALSE /\ FORCE_POINTER_LEN' = NoForce
  /\ UNCHANGED HOST_MEMORY

reset == Fresh(HOST_MEMORY', NEXT_ID', FORCE_ALLOC_ZERO', FORCE_POINTER_LEN')

\* MockHostGuard::hold, or no guard
BeginTest(guarded) ==
  /\ test.status = "none"
  /\ test.number < MaxTests
  /\ test' = [number |-> test.number + 1, guarded |-> guarded, status |-> "running"]
  /\ IF guarded THEN reset ELSE UNCHANGED mock
  /\ stored' = {}
  /\ UNCHANGED forced_by

\* Drop for MockHostGuard, on return and on unwinding alike
EndTest ==
  /\ test.status # "none"
  /\ test' = [test EXCEPT !.status = "none"]
  /\ IF test.guarded THEN reset ELSE UNCHANGED mock
  /\ UNCHANGED <<stored, forced_by>>

-----------------------------------------------------------------------------

Put(f, x, y) == [z \in DOMAIN f \cup {x} |-> IF z = x THEN y ELSE f[z]]

\* mutant of insert_next: the id is not advanced
insert_next_same(data) ==
  /\ HOST_MEMORY' = Put(HOST_MEMORY, NEXT_ID, data)
  /\ UNCHANGED NEXT_ID

\* A new pointer for data, as store_data and alloc make one.
insert_next(data) ==
  /\ HOST_MEMORY' = Put(HOST_MEMORY, NEXT_ID, data)
  /\ NEXT_ID' = NEXT_ID + 1

Running == test.status = "running"
Room == NEXT_ID < FIRST_ID + MaxIds

Keep(data) == stored' = stored \cup {[ptr |-> NEXT_ID, data |-> data]}

StoreData(data) ==
  /\ Running /\ Room
  /\ insert_next(data)
  /\ Keep(data)
  /\ UNCHANGED <<FORCE_ALLOC_ZERO, FORCE_POINTER_LEN, test, forced_by>>

SetForceAllocZero(value) ==
  /\ Running
  /\ FORCE_ALLOC_ZERO' = value
  /\ forced_by' = test.number
  /\ UNCHANGED <<HOST_MEMORY, NEXT_ID, FORCE_POINTER_LEN, test, stored>>

SetForcePointerLen(value) ==
  /\ Running
  /\ FORCE_POINTER_LEN' = value
  /\ forced_by' = test.number
  /\ UNCHANGED <<HOST_MEMORY, NEXT_ID, FORCE_ALLOC_ZERO, test, stored>>

\* The SDK's store: alloc, which answers 0 where the test wants it to, then the
\* write.  An entry point whose store fails stores an error, and returns 0 when
\* that fails too.
Store(data) ==
  /\ Running /\ Room
  /\ ~FORCE_ALLOC_ZERO
  /\ insert_next(data)
  /\ Keep(data)
  /\ UNCHANGED <<FORCE_ALLOC_ZERO, FORCE_POINTER_LEN, test, forced_by>>

get_data(ptr) == IF ptr \in DOMAIN HOST_MEMORY THEN HOST_MEMORY[ptr] ELSE << >>

pointer_len(ptr) ==
  IF FORCE_POINTER_LEN # NoForce THEN FORCE_POINTER_LEN ELSE Len(get_data(ptr))

\* The length is checked, then the data is copied into a zeroed buffer of it,
\* which panics if the data is longer.
get_from_context(ptr) ==
  LET len == pointer_len(ptr)
      data == get_data(ptr)
  IN  IF len > MAX_DATA_SIZE THEN <<"MemoryLimitExceeded">>
      ELSE IF len < 0 THEN <<"Deserialization">>
      ELSE IF Len(data) > len THEN <<"panic">>
      ELSE <<"read", data \o [i \in 1..(len - Len(data)) |-> 0]>>

GetFromContext(ptr) ==
  /\ Running
  /\ test' = [test EXCEPT !.status =
                IF get_from_context(ptr)[1] = "panic" THEN "panicked" ELSE "running"]
  /\ UNCHANGED <<mock, stored, forced_by>>

Next ==
  \/ \E guarded \in BOOLEAN : BeginTest(guarded)
  \/ EndTest
  \/ \E data \in Data : StoreData(data) \/ Store(data)
  \/ \E value \in BOOLEAN : SetForceAllocZero(value)
  \/ \E value \in ForcedLens : SetForcePointerLen(value)
  \/ \E ptr \in FIRST_ID..(FIRST_ID + MaxIds) : GetFromContext(ptr)

Spec == Init /\ [][Next]_vars

-----------------------------------------------------------------------------
(***************************************************************************)
(* Properties.                                                             *)
(***************************************************************************)

\* Every variable has its type, and pointers are given out in order.
TypeOK ==
  /\ NEXT_ID \in FIRST_ID..(FIRST_ID + MaxIds)
  /\ DOMAIN HOST_MEMORY \subseteq FIRST_ID..(NEXT_ID - 1)
  /\ \A p \in DOMAIN HOST_MEMORY : HOST_MEMORY[p] \in Data
  /\ FORCE_ALLOC_ZERO \in BOOLEAN
  /\ FORCE_POINTER_LEN \in ForcedLens \cup {NoForce}

\* A test that holds a guard sees nothing an earlier test of its thread left
\* behind, whether that test held one, returned or panicked: neither data
\* nor a forced failure (MockHostGuard::hold and drop, reset).
GuardedTestIsAlone ==
  test.status # "none" /\ test.guarded =>
    /\ DOMAIN HOST_MEMORY \subseteq {r.ptr : r \in stored}
    /\ FORCE_ALLOC_ZERO \/ FORCE_POINTER_LEN # NoForce => forced_by = test.number

\* What a test stored it reads back through the SDK, byte for byte, unless it
\* is longer than the SDK reads or a length was forced: later stores and
\* allocations take nothing away (tests.rs:905: "arbitrary byte payloads
\* survive the mock host boundary").
StoredIsReadBack ==
  test.status # "none" /\ FORCE_POINTER_LEN = NoForce =>
    \A r \in stored :
      get_from_context(r.ptr) = IF Len(r.data) > MAX_DATA_SIZE
                                  THEN <<"MemoryLimitExceeded">> ELSE <<"read", r.data>>

=============================================================================
