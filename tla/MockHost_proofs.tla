---------------------------- MODULE MockHost_proofs ----------------------------
(***************************************************************************)
(* What a thread's tests can rely on, however many they are, whatever they *)
(* store and force, and however they end.                                  *)
(***************************************************************************)
EXTENDS MockHost, SequenceTheorems, TLAPS

TestShape ==
  /\ test \in [number : Nat, guarded : BOOLEAN, status : {"none", "running", "panicked"}]
  /\ stored \subseteq [ptr : Nat, data : Data]
  /\ HOST_MEMORY = [p \in DOMAIN HOST_MEMORY |-> HOST_MEMORY[p]]

\* What a test in progress stored is where it was stored.
StoredIsKept ==
  test.status # "none" =>
    \A r \in stored : r.ptr \in DOMAIN HOST_MEMORY /\ HOST_MEMORY[r.ptr] = r.data

\* The inductive invariant.
MockInv == TypeOK /\ TestShape /\ StoredIsKept /\ GuardedTestIsAlone

LEMMA Bounds ==
  /\ FIRST_ID \in Nat /\ MAX_DATA_SIZE \in Nat /\ MaxIds \in Nat
  /\ NoForce \notin ForcedLens
  BY MockAssumption DEF NoForce, ForcedLens

LEMMA MockInit == Init => MockInv
<1> SUFFICES ASSUME Init
             PROVE  MockInv
  OBVIOUS
<1>1. DOMAIN << >> = {} /\ << >> = [p \in {} |-> p]
  OBVIOUS
<1>2. HOST_MEMORY = << >> /\ NEXT_ID = FIRST_ID /\ FORCE_ALLOC_ZERO = FALSE
      /\ FORCE_POINTER_LEN = NoForce
  BY DEF Init, Fresh
<1>3. FIRST_ID \in FIRST_ID..(FIRST_ID + MaxIds)
  BY Bounds
<1>4. TypeOK
  BY <1>1, <1>2, <1>3 DEF TypeOK
<1>5. TestShape
  BY <1>1, <1>2 DEF Init, TestShape
<1> QED
  BY <1>4, <1>5 DEF Init, MockInv, StoredIsKept, GuardedTestIsAlone

\* After a reset the mock is typed and empty.
LEMMA ResetStep ==
  ASSUME reset
  PROVE  /\ TypeOK' /\ DOMAIN HOST_MEMORY' = {}
         /\ HOST_MEMORY' = [p \in DOMAIN HOST_MEMORY' |-> HOST_MEMORY'[p]]
         /\ FORCE_ALLOC_ZERO' = FALSE /\ FORCE_POINTER_LEN' = NoForce
<1>1. DOMAIN << >> = {} /\ << >> = [p \in {} |-> p]
  OBVIOUS
<1>2. HOST_MEMORY' = << >> /\ NEXT_ID' = FIRST_ID /\ FORCE_ALLOC_ZERO' = FALSE
      /\ FORCE_POINTER_LEN' = NoForce
  BY DEF reset, Fresh
<1>3. FIRST_ID \in FIRST_ID..(FIRST_ID + MaxIds)
  BY Bounds
<1>4. TypeOK'
  BY <1>1, <1>2, <1>3 DEF TypeOK
<1> QED
  BY <1>1, <1>2, <1>4

\* A guard resets the mock for the test that holds it.
LEMMA BeginStep ==
  ASSUME MockInv, NEW guarded \in BOOLEAN, BeginTest(guarded)
  PROVE  MockInv'
<1>1. test'.guarded = guarded /\ test'.status = "running" /\ test'.number = test.number + 1
  BY DEF BeginTest
<1>2. stored' = {}
  BY DEF BeginTest
<1>3. test' \in [number : Nat, guarded : BOOLEAN, status : {"none", "running", "panicked"}]
  BY DEF BeginTest, MockInv, TestShape
<1>4. CASE guarded
  <2>1. reset
    BY <1>4 DEF BeginTest
  <2> QED
    BY <1>1, <1>2, <1>3, <2>1, ResetStep
    DEF MockInv, TestShape, StoredIsKept, GuardedTestIsAlone
<1>5. CASE ~guarded
  <2>1. UNCHANGED mock
    BY <1>5 DEF BeginTest
  <2> QED
    BY <1>1, <1>2, <1>3, <1>5, <2>1
    DEF MockInv, TypeOK, TestShape, StoredIsKept, GuardedTestIsAlone, mock
<1> QED
  BY <1>4, <1>5

LEMMA EndStep ==
  ASSUME MockInv, EndTest
  PROVE  MockInv'
<1>1. /\ test' = [test EXCEPT !.status = "none"] /\ stored' = stored
      /\ test \in [number : Nat, guarded : BOOLEAN, status : {"none", "running", "panicked"}]
  BY DEF EndTest, MockInv, TestShape
<1>2. /\ test'.status = "none"
      /\ test' \in [number : Nat, guarded : BOOLEAN, status : {"none", "running", "panicked"}]
  BY <1>1
<1>3. CASE test.guarded
  <2>1. reset
    BY <1>3 DEF EndTest
  <2> QED
    BY <1>1, <1>2, <2>1, ResetStep
    DEF MockInv, TestShape, StoredIsKept, GuardedTestIsAlone
<1>4. CASE ~test.guarded
  <2>1. UNCHANGED mock
    BY <1>4 DEF EndTest
  <2> QED
    BY <1>1, <1>2, <2>1
    DEF MockInv, TypeOK, TestShape, StoredIsKept, GuardedTestIsAlone, mock
<1> QED
  BY <1>3, <1>4

\* A new pointer is one no data has: what was stored before stays.
LEMMA InsertStep ==
  ASSUME MockInv, NEW data \in Data, Room, insert_next(data), Keep(data),
         UNCHANGED <<FORCE_ALLOC_ZERO, FORCE_POINTER_LEN, test, forced_by>>
  PROVE  MockInv'
<1>1. NEXT_ID \in Nat /\ NEXT_ID \notin DOMAIN HOST_MEMORY /\ NEXT_ID >= FIRST_ID
  BY Bounds DEF MockInv, TypeOK
<1>2. /\ HOST_MEMORY' = [p \in DOMAIN HOST_MEMORY \cup {NEXT_ID} |->
                           IF p = NEXT_ID THEN data ELSE HOST_MEMORY[p]]
      /\ NEXT_ID' = NEXT_ID + 1
  BY DEF insert_next, Put
<1>3. /\ DOMAIN HOST_MEMORY' = DOMAIN HOST_MEMORY \cup {NEXT_ID}
      /\ HOST_MEMORY'[NEXT_ID] = data
      /\ \A p \in DOMAIN HOST_MEMORY : HOST_MEMORY'[p] = HOST_MEMORY[p]
      /\ HOST_MEMORY' = [p \in DOMAIN HOST_MEMORY' |-> HOST_MEMORY'[p]]
  BY <1>1, <1>2
<1>4. stored' = stored \cup {[ptr |-> NEXT_ID, data |-> data]}
  BY DEF Keep
<1>5. TypeOK'
  BY <1>1, <1>2, <1>3, Bounds DEF MockInv, TypeOK, Room
<1>6. TestShape'
  BY <1>1, <1>3, <1>4 DEF MockInv, TestShape
<1>7. StoredIsKept'
  BY <1>3, <1>4 DEF MockInv, StoredIsKept
<1>8. GuardedTestIsAlone'
  <2>1. [ptr |-> NEXT_ID, data |-> data].ptr = NEXT_ID
    OBVIOUS
  <2>2. NEXT_ID \in {r.ptr : r \in stored'} /\ {r.ptr : r \in stored} \subseteq {r.ptr : r \in stored'}
    BY <1>4, <2>1
  <2> QED
    BY <1>3, <2>2 DEF MockInv, GuardedTestIsAlone
<1> QED
  BY <1>5, <1>6, <1>7, <1>8 DEF MockInv

\* A failure is forced by the test in progress.
LEMMA ForceStep ==
  ASSUME MockInv, Running, forced_by' = test.number,
         FORCE_ALLOC_ZERO' \in BOOLEAN, FORCE_POINTER_LEN' \in ForcedLens \cup {NoForce},
         UNCHANGED <<HOST_MEMORY, NEXT_ID, test, stored>>
  PROVE  MockInv'
  BY DEF MockInv, TypeOK, TestShape, StoredIsKept, GuardedTestIsAlone

LEMMA MockNext == MockInv /\ [Next]_vars => MockInv'
<1> SUFFICES ASSUME MockInv, [Next]_vars
             PROVE  MockInv'
  OBVIOUS
<1>1. CASE UNCHANGED vars
  BY <1>1 DEF vars, mock, MockInv, TypeOK, TestShape, StoredIsKept, GuardedTestIsAlone
<1>2. ASSUME NEW guarded \in BOOLEAN, BeginTest(guarded)
      PROVE  MockInv'
  BY <1>2, BeginStep
<1>3. CASE EndTest
  BY <1>3, EndStep
<1>4. ASSUME NEW data \in Data, StoreData(data) \/ Store(data)
      PROVE  MockInv'
  BY <1>4, InsertStep DEF StoreData, Store
<1>5. ASSUME NEW value \in BOOLEAN, SetForceAllocZero(value)
      PROVE  MockInv'
  <2>1. FORCE_POINTER_LEN \in ForcedLens \cup {NoForce}
    BY DEF MockInv, TypeOK
  <2> QED
    BY <1>5, <2>1, ForceStep DEF SetForceAllocZero
<1>6. ASSUME NEW value \in ForcedLens, SetForcePointerLen(value)
      PROVE  MockInv'
  <2>1. FORCE_ALLOC_ZERO \in BOOLEAN
    BY DEF MockInv, TypeOK
  <2> QED
    BY <1>6, <2>1, ForceStep DEF SetForcePointerLen
<1>7. ASSUME NEW ptr \in FIRST_ID..(FIRST_ID + MaxIds), GetFromContext(ptr)
      PROVE  MockInv'
  <2>1. /\ test \in [number : Nat, guarded : BOOLEAN, status : {"none", "running", "panicked"}]
        /\ test.status = "running"
    BY <1>7 DEF MockInv, TestShape, GetFromContext, Running
  <2>2. PICK status \in {"running", "panicked"} : test' = [test EXCEPT !.status = status]
    BY <1>7 DEF GetFromContext
  <2>3. /\ test' \in [number : Nat, guarded : BOOLEAN, status : {"none", "running", "panicked"}]
        /\ test'.number = test.number /\ test'.guarded = test.guarded
    BY <2>1, <2>2
  <2>4. UNCHANGED <<mock, stored, forced_by>>
    BY <1>7 DEF GetFromContext
  <2> QED
    BY <2>1, <2>3, <2>4
    DEF mock, MockInv, TypeOK, TestShape, StoredIsKept, GuardedTestIsAlone
<1> QED
  BY <1>1, <1>2, <1>3, <1>4, <1>5, <1>6, <1>7 DEF Next

LEMMA MockInvariant == Spec => []MockInv
  BY MockInit, MockNext, PTL DEF Spec

\* Pointers are given out in order and name data, whatever a thread's tests do.
THEOREM MockTypeOK == Spec => []TypeOK
<1>1. MockInv => TypeOK
  BY DEF MockInv
<1> QED
  BY <1>1, MockInvariant, PTL

\* A test that holds a MockHostGuard sees no data and no forced failure of an
\* earlier test, whether that test held one, returned or panicked.
THEOREM MockGuardedTestIsAlone == Spec => []GuardedTestIsAlone
<1>1. MockInv => GuardedTestIsAlone
  BY DEF MockInv
<1> QED
  BY <1>1, MockInvariant, PTL

\* What a test stored it reads back through get_from_context byte for byte,
\* whatever was stored after it, unless it is longer than the SDK reads or a
\* length was forced.
THEOREM MockStoredIsReadBack == Spec => []StoredIsReadBack
<1>1. MockInv => StoredIsReadBack
  <2> SUFFICES ASSUME MockInv, test.status # "none", FORCE_POINTER_LEN = NoForce,
                      NEW r \in stored
               PROVE  get_from_context(r.ptr) =
                        IF Len(r.data) > MAX_DATA_SIZE
                          THEN <<"MemoryLimitExceeded">> ELSE <<"read", r.data>>
    BY DEF StoredIsReadBack
  <2>1. r.data \in Seq(0..255)
    BY MockAssumption DEF MockInv, TestShape
  <2>2. get_data(r.ptr) = r.data
    BY DEF MockInv, StoredIsKept, get_data
  <2>3. pointer_len(r.ptr) = Len(r.data)
    BY <2>2 DEF pointer_len
  <2>4. PICK n \in Nat : n = Len(r.data)
    BY <2>1
  <2>5. r.data \o [i \in 1..(n - n) |-> 0] = r.data
    <3>1. [i \in 1..(n - n) |-> 0] = << >>
      OBVIOUS
    <3>2. r.data \o << >> = r.data
      BY <2>1, ConcatEmptySeq
    <3> QED
      BY <3>1, <3>2
  <2>6. ~(n < 0) /\ ~(n > n)
    OBVIOUS
  <2> QED
    BY <2>2, <2>3, <2>4, <2>5, <2>6, Zenon DEF get_from_context
<1> QED
  BY <1>1, MockInvariant, PTL

=============================================================================
