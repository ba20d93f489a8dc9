------------------------ MODULE MemoryManager_proofs ------------------------
(***************************************************************************)
(* What the methods of the memory manager return and preserve, for every   *)
(* choice of the limits, of the widths of the integers and of the caller's *)
(* arguments.  The state machines built on the manager cite these lemmas.  *)
(***************************************************************************)
EXTENDS MemoryManager, SequenceTheorems, FiniteSetTheorems, TLAPS

(***************************************************************************)
(* Sequences built by a function constructor.                              *)
(***************************************************************************)

\* A function on 1..n is a sequence of length n (Vec and slice values).
LEMMA FunIsSeq ==
  ASSUME NEW n \in Nat, NEW S, NEW f \in [1..n -> S]
  PROVE  f \in Seq(S) /\ Len(f) = n
  OBVIOUS

\* copy_from_slice changes exactly the range it is given.
LEMMA CopySeq ==
  ASSUME NEW s \in Seq(Byte), NEW start \in Nat, NEW data \in Seq(Byte)
  PROVE  /\ copy_from_slice(s, start, data) \in Seq(Byte)
         /\ Len(copy_from_slice(s, start, data)) = Len(s)
         /\ \A i \in 1..Len(s) :
              copy_from_slice(s, start, data)[i] =
                IF start < i /\ i <= start + Len(data) THEN data[i - start] ELSE s[i]
<1>1. copy_from_slice(s, start, data) \in [1..Len(s) -> Byte]
  BY DEF copy_from_slice
<1>2. QED
  BY <1>1, FunIsSeq DEF copy_from_slice

\* Copying no bytes changes nothing.
LEMMA CopyNothing ==
  ASSUME NEW s \in Seq(Byte), NEW start \in Nat, NEW data \in Seq(Byte), Len(data) = 0
  PROVE  copy_from_slice(s, start, data) = s
<1> DEFINE c == copy_from_slice(s, start, data)
<1>1. \A i \in 1..Len(s) : ~(start < i /\ i <= start + Len(data))
  OBVIOUS
<1>2. c \in Seq(Byte) /\ Len(c) = Len(s)
  BY CopySeq
<1>3. \A i \in 1..Len(s) : c[i] = s[i]
  BY <1>1 DEF copy_from_slice
<1> HIDE DEF c
<1>4. c = s
  BY <1>2, <1>3, SeqEqual
<1>5. QED
  BY <1>4 DEF c

\* A slice inside a sequence has the length asked for.
LEMMA SliceSeq ==
  ASSUME NEW s \in Seq(Byte), NEW start \in Nat, NEW n \in Nat, start + n <= Len(s)
  PROVE  /\ slice(s, start, n) \in Seq(Byte)
         /\ Len(slice(s, start, n)) = n
         /\ \A i \in 1..n : slice(s, start, n)[i] = s[start + i]
<1>1. slice(s, start, n) \in [1..n -> Byte]
  BY DEF slice
<1>2. QED
  BY <1>1, FunIsSeq DEF slice

(***************************************************************************)
(* Casts.                                                                  *)
(***************************************************************************)

\* A truncation to 32 bits is a u32, and the guest reads it as an i32.
LEMMA CastTypes ==
  /\ \A n \in Int : as_u32(n) \in U32
  /\ \A u \in U32 : u32_as_i32(u) \in I32
  /\ \A i \in I32 : i \in Int /\ i32_as_usize(i) \in Nat /\ i32_as_u32(i) \in U32
<1>1. \A n \in Int : as_u32(n) \in U32
  BY WidthAssumption DEF as_u32, U32, U32Values
<1>2. \A u \in U32 : u32_as_i32(u) \in I32
  BY WidthAssumption DEF u32_as_i32, U32, I32, U32Values
<1>3. \A i \in I32 : i \in Int /\ i32_as_usize(i) \in Nat /\ i32_as_u32(i) \in U32
  BY WidthAssumption DEF i32_as_usize, i32_as_u32, I32, U32, U32Values
<1>4. QED
  BY <1>1, <1>2, <1>3

\* An offset or length the manager can hold survives the trip through the
\* guest unchanged, and -1 is still -1 when the guest reads it.
LEMMA CastRoundTrip ==
  /\ \A n \in 0..I32Max : u32_as_i32(as_u32(n)) = n /\ i32_as_usize(n) = n
  /\ u32_as_i32(as_u32(-1)) = -1
<1>1. \A n \in 0..I32Max : as_u32(n) = n
  BY WidthAssumption DEF as_u32, U32Values
<1>2. as_u32(-1) = 2 * I32Max + 1
  BY WidthAssumption DEF as_u32, U32Values
<1>3. QED
  BY <1>1, <1>2, WidthAssumption DEF u32_as_i32, i32_as_usize, U32Values

-----------------------------------------------------------------------------
(***************************************************************************)
(* alloc.                                                                  *)
(***************************************************************************)

\* Replacing the backing vector leaves the other fields alone.
LEMMA MemoryExcept ==
  ASSUME NEW m, ManagerType(m), NEW mem
  PROVE  [m EXCEPT !.memory = mem] =
           [memory |-> mem, map |-> m.map, store_limits |-> m.store_limits,
            max_single_alloc |-> m.max_single_alloc,
            max_total_memory |-> m.max_total_memory]
  BY DEF ManagerType

\* resize keeps what is there, fills with zeroes and leaves the other fields.
LEMMA ResizeFields ==
  ASSUME NEW m, ManagerType(m), NEW n \in Nat
  PROVE  LET r == resize(m, n)
         IN  /\ ManagerType(r)
             /\ Len(r.memory) = n
             /\ \A i \in 1..n :
                  r.memory[i] = IF i <= Len(m.memory) THEN m.memory[i] ELSE Zero
             /\ r.map = m.map
             /\ r.store_limits = m.store_limits
             /\ r.max_single_alloc = m.max_single_alloc
             /\ r.max_total_memory = m.max_total_memory
<1> DEFINE mem == [i \in 1..n |-> IF i <= Len(m.memory) THEN m.memory[i] ELSE Zero]
<1>1. mem \in Seq(Byte) /\ Len(mem) = n
  <2>1. mem \in [1..n -> Byte]
    BY ByteAssumption DEF ManagerType
  <2>2. QED
    BY <2>1, FunIsSeq
<1>2. resize(m, n) = [m EXCEPT !.memory = mem]
  BY DEF resize
<1>3. \A i \in 1..n : mem[i] = IF i <= Len(m.memory) THEN m.memory[i] ELSE Zero
  OBVIOUS
<1> HIDE DEF mem
<1>4. QED
  BY <1>1, <1>2, <1>3, MemoryExcept DEF ManagerType

\* track adds one entry, unless the length is zero, and changes nothing else.
LEMMA TrackFields ==
  ASSUME NEW m, ManagerType(m), NEW ptr \in Nat, NEW len \in Nat
  PROVE  LET r == track(m, ptr, len)
         IN  /\ ManagerType(r)
             /\ r.memory = m.memory
             /\ r.store_limits = m.store_limits
             /\ r.max_single_alloc = m.max_single_alloc
             /\ r.max_total_memory = m.max_total_memory
             /\ len = 0 => r.map = m.map
             /\ len > 0 =>
                  /\ DOMAIN r.map = DOMAIN m.map \cup {ptr}
                  /\ r.map[ptr] = len
                  /\ \A p \in DOMAIN m.map : p # ptr => r.map[p] = m.map[p]
<1>1. CASE len = 0
  BY <1>1 DEF track
<1>2. CASE len # 0
  <2> DEFINE map == [p \in DOMAIN m.map \cup {ptr} |->
                       IF p = ptr THEN len ELSE m.map[p]]
  <2>1. track(m, ptr, len) =
          [memory |-> m.memory, map |-> map, store_limits |-> m.store_limits,
           max_single_alloc |-> m.max_single_alloc,
           max_total_memory |-> m.max_total_memory]
    BY <1>2 DEF track, ManagerType
  <2>2. /\ DOMAIN map = DOMAIN m.map \cup {ptr}
        /\ map[ptr] = len
        /\ \A p \in DOMAIN m.map : p # ptr => map[p] = m.map[p]
        /\ map \in [DOMAIN map -> Nat]
        /\ DOMAIN map \subseteq Nat
    BY DEF ManagerType
  <2> HIDE DEF map
  <2>3. QED
    BY <1>2, <2>1, <2>2 DEF ManagerType
<1>3. QED
  BY <1>1, <1>2

\* What alloc answers and when.
LEMMA AllocResult ==
  ASSUME NEW m, ManagerType(m), NEW len \in Nat
  PROVE  LET a == alloc(m, len)
         IN  /\ a.ok \in BOOLEAN
             /\ ~a.ok => a.mm = m
             /\ a.ok => /\ a.val = Len(m.memory)
                        /\ len <= m.max_single_alloc
                        /\ Len(m.memory) + len <= m.max_total_memory
                        /\ a.mm = track(resize(m, Len(m.memory) + len),
                                        Len(m.memory), len)
<1> DEFINE n == Len(m.memory) + len
<1>1. /\ Len(m.memory) \in Nat
      /\ m.max_single_alloc \in Nat
      /\ m.max_total_memory \in Nat
      /\ n \in Nat
  BY LenProperties DEF ManagerType
<1>2. CASE len > m.max_single_alloc \/ n > UsizeMax \/ n > m.max_total_memory
  <2>1. \E e : alloc(m, len) = Err(m, e)
    BY <1>2, Zenon DEF alloc
  <2>2. QED
    BY <2>1 DEF Err
<1>3. CASE ~(len > m.max_single_alloc \/ n > UsizeMax \/ n > m.max_total_memory)
  <2>1. alloc(m, len) = Ok(track(resize(m, n), Len(m.memory), len), Len(m.memory))
    BY <1>3, Zenon DEF alloc
  <2>2. len <= m.max_single_alloc /\ n <= m.max_total_memory
    BY <1>1, <1>3
  <2>3. QED
    BY <2>1, <2>2 DEF Ok
<1>4. QED
  BY <1>2, <1>3

\* An allocation appends one region to the tiling, and only within the caps.
LEMMA AllocWellFormed ==
  ASSUME NEW m, WellFormed(m), NEW len \in Nat
  PROVE  WellFormed(alloc(m, len).mm)
<1> DEFINE a == alloc(m, len)
           cur == Len(m.memory)
           g == resize(m, cur + len)
           t == track(g, cur, len)
<1>1. CASE ~a.ok
  BY <1>1, AllocResult DEF WellFormed
<1>2. CASE a.ok
  <2>1. ManagerType(m) /\ cur \in Nat /\ cur + len \in Nat
    BY LenProperties DEF WellFormed, ManagerType
  <2>2. /\ len <= m.max_single_alloc
        /\ cur + len <= m.max_total_memory
        /\ a.mm = t
    BY <1>2, <2>1, AllocResult
  <2>3. /\ ManagerType(g)
        /\ Len(g.memory) = cur + len
        /\ g.map = m.map
        /\ g.max_single_alloc = m.max_single_alloc
        /\ g.max_total_memory = m.max_total_memory
    BY <2>1, ResizeFields
  <2>4. /\ ManagerType(t)
        /\ t.memory = g.memory
        /\ t.max_single_alloc = g.max_single_alloc
        /\ t.max_total_memory = g.max_total_memory
        /\ len = 0 => t.map = g.map
        /\ len > 0 =>
             /\ DOMAIN t.map = DOMAIN g.map \cup {cur}
             /\ t.map[cur] = len
             /\ \A p \in DOMAIN g.map : p # cur => t.map[p] = g.map[p]
    BY <2>1, <2>3, TrackFields
  <2> HIDE DEF a, cur, g, t
  <2>5. /\ \A p \in DOMAIN m.map : /\ p \in Nat
                                   /\ m.map[p] \in Nat
                                   /\ m.map[p] > 0
                                   /\ p + m.map[p] <= cur
                                   /\ m.map[p] <= m.max_single_alloc
        /\ \A p, q \in DOMAIN m.map : p < q => p + m.map[p] <= q
        /\ \A i \in 0..(cur - 1) :
             \E p \in DOMAIN m.map : p <= i /\ i < p + m.map[p]
    BY DEF WellFormed, ManagerType, Tiled, Capped, cur
  <2>6. Capped(t)
    <3>1. CASE len = 0
      BY <3>1, <2>1, <2>2, <2>3, <2>4, <2>5 DEF Capped
    <3>2. CASE len > 0
      BY <3>2, <2>1, <2>2, <2>3, <2>4, <2>5 DEF Capped
    <3>3. QED
      BY <3>1, <3>2
  <2>7. Tiled(t)
    <3>1. CASE len = 0
      BY <3>1, <2>1, <2>3, <2>4, <2>5 DEF Tiled
    <3>2. CASE len > 0
      <4>1. \A p \in DOMAIN t.map : t.map[p] > 0 /\ p + t.map[p] <= Len(t.memory)
        BY <3>2, <2>1, <2>3, <2>4, <2>5
      <4>2. ASSUME NEW p \in DOMAIN t.map, NEW q \in DOMAIN t.map, p < q
            PROVE  p + t.map[p] <= q
        <5>1. DOMAIN t.map = DOMAIN m.map \cup {cur}
          BY <3>2, <2>3, <2>4
        <5>2. \A x \in DOMAIN m.map : x < cur /\ t.map[x] = m.map[x]
          BY <3>2, <2>1, <2>3, <2>4, <2>5
        <5>3. p \in DOMAIN m.map
          BY <4>2, <5>1, <5>2, <2>1, <2>5
        <5>4. QED
          BY <4>2, <5>1, <5>2, <5>3, <2>1, <2>5
      <4>3. ASSUME NEW i \in 0..(Len(t.memory) - 1)
            PROVE  \E p \in DOMAIN t.map : p <= i /\ i < p + t.map[p]
        <5>1. CASE i < cur
          <6>1. PICK p \in DOMAIN m.map : p <= i /\ i < p + m.map[p]
            BY <5>1, <2>1, <2>5
          <6>2. p \in DOMAIN t.map /\ t.map[p] = m.map[p]
            BY <3>2, <6>1, <5>1, <2>1, <2>3, <2>4, <2>5
          <6>3. QED
            BY <6>1, <6>2
        <5>2. CASE i >= cur
          BY <5>2, <3>2, <2>1, <2>3, <2>4
        <5>3. QED
          BY <5>1, <5>2, <2>1
      <4>4. QED
        BY <4>1, <4>2, <4>3 DEF Tiled
    <3>3. QED
      BY <3>1, <3>2
  <2>8. QED
    BY <2>2, <2>4, <2>6, <2>7 DEF WellFormed, a
<1>3. QED
  BY <1>1, <1>2

\* Overwriting bytes leaves the layout as it was.
LEMMA CopyWellFormed ==
  ASSUME NEW m, WellFormed(m), NEW start \in Nat, NEW data \in Seq(Byte)
  PROVE  LET r == [m EXCEPT !.memory = copy_from_slice(m.memory, start, data)]
         IN  WellFormed(r) /\ r.map = m.map /\ r.store_limits = m.store_limits
<1> DEFINE mem == copy_from_slice(m.memory, start, data)
           r == [m EXCEPT !.memory = mem]
<1>1. mem \in Seq(Byte) /\ Len(mem) = Len(m.memory)
  BY CopySeq DEF WellFormed, ManagerType
<1> HIDE DEF mem
<1>2. r = [memory |-> mem, map |-> m.map, store_limits |-> m.store_limits,
           max_single_alloc |-> m.max_single_alloc,
           max_total_memory |-> m.max_total_memory]
  BY MemoryExcept DEF WellFormed
<1> HIDE DEF r
<1>3. /\ r.memory = mem
      /\ r.map = m.map
      /\ r.store_limits = m.store_limits
      /\ r.max_single_alloc = m.max_single_alloc
      /\ r.max_total_memory = m.max_total_memory
  BY <1>2
<1>4. ManagerType(r)
  BY <1>1, <1>2, <1>3 DEF WellFormed, ManagerType
<1>5. Tiled(r) /\ Capped(r)
  BY <1>1, <1>3 DEF WellFormed, Tiled, Capped
<1>6. QED
  BY <1>3, <1>4, <1>5 DEF WellFormed, r, mem

-----------------------------------------------------------------------------
(***************************************************************************)
(* Reads and writes.                                                       *)
(***************************************************************************)

\* read_data finds every tracked pointer and no other: on a well-formed
\* manager the checks after the lookup never refuse.
LEMMA ReadDataResult ==
  ASSUME NEW m, WellFormed(m), NEW ptr \in Nat
  PROVE  LET r == read_data(m, ptr)
         IN  /\ r.ok \in BOOLEAN
             /\ r.ok <=> ptr \in DOMAIN m.map
             /\ r.ok => r.val = slice(m.memory, ptr, m.map[ptr])
<1>1. CASE ptr \in DOMAIN m.map
  <2>1. /\ m.map[ptr] \in Nat
        /\ Len(m.memory) \in Nat
        /\ ptr + m.map[ptr] <= Len(m.memory)
        /\ Len(m.memory) <= UsizeMax
    BY <1>1, WidthAssumption DEF WellFormed, ManagerType, Tiled, Capped
  <2>2. ~(ptr + m.map[ptr] > UsizeMax) /\ ~(ptr + m.map[ptr] > Len(m.memory))
    BY <2>1, WidthAssumption
  <2>3. read_data(m, ptr) = Ok(m, slice(m.memory, ptr, m.map[ptr]))
    BY <1>1, <2>2, Zenon DEF read_data
  <2>4. QED
    BY <1>1, <2>3 DEF Ok
<1>2. CASE ptr \notin DOMAIN m.map
  BY <1>2 DEF read_data, Err
<1>3. QED
  BY <1>1, <1>2

\* read_bytes answers with a range inside memory.
LEMMA ReadBytesResult ==
  ASSUME NEW m, ManagerType(m), NEW ptr \in Nat, NEW len \in Nat
  PROVE  LET r == read_bytes(m, ptr, len)
         IN  /\ r.ok \in BOOLEAN
             /\ r.mm = m
             /\ r.ok => /\ ptr + len <= Len(m.memory)
                        /\ r.val = slice(m.memory, ptr, len)
<1>1. Len(m.memory) \in Nat
  BY DEF ManagerType
<1>2. CASE ptr + len > UsizeMax \/ ptr + len > Len(m.memory)
  BY <1>2 DEF read_bytes, Err
<1>3. CASE ~(ptr + len > UsizeMax \/ ptr + len > Len(m.memory))
  BY <1>1, <1>3 DEF read_bytes, Ok
<1>4. QED
  BY <1>2, <1>3

\* A write that succeeds stays inside the allocation it names.
LEMMA WriteBytesResult ==
  ASSUME NEW m, ManagerType(m), NEW ptr \in Nat, NEW data \in Seq(Byte)
  PROVE  LET r == write_bytes(m, ptr, data)
         IN  /\ r.ok \in BOOLEAN
             /\ ~r.ok => r.mm = m
             /\ r.ok => /\ ptr \in DOMAIN m.map
                        /\ Len(data) <= m.map[ptr]
                        /\ r.mm = [m EXCEPT !.memory =
                                     copy_from_slice(m.memory, ptr, data)]
<1> DEFINE refused == \/ ptr \notin DOMAIN m.map
                      \/ Len(data) > m.map[ptr]
                      \/ ptr + Len(data) > UsizeMax
                      \/ ptr + Len(data) > Len(m.memory)
<1>1. CASE refused
  <2>1. \E e : write_bytes(m, ptr, data) = Err(m, e)
    BY <1>1, Zenon DEF write_bytes
  <2>2. QED
    BY <2>1 DEF Err
<1>2. CASE ~refused
  <2>1. write_bytes(m, ptr, data) =
          Ok([m EXCEPT !.memory = copy_from_slice(m.memory, ptr, data)], 0)
    BY <1>2, Zenon DEF write_bytes
  <2>2. ptr \in DOMAIN m.map /\ Len(data) <= m.map[ptr]
    BY <1>2 DEF ManagerType
  <2>3. QED
    BY <2>1, <2>2 DEF Ok
<1>3. QED
  BY <1>1, <1>2

\* So does a piecemeal write.
LEMMA WriteBytesAtResult ==
  ASSUME NEW m, ManagerType(m), NEW ptr \in Nat, NEW offset \in Nat,
         NEW data \in Seq(Byte)
  PROVE  LET r == write_bytes_at(m, ptr, offset, data)
         IN  /\ r.ok \in BOOLEAN
             /\ ~r.ok => r.mm = m
             /\ r.ok => /\ ptr \in DOMAIN m.map
                        /\ offset + Len(data) <= m.map[ptr]
                        /\ r.mm = [m EXCEPT !.memory =
                                     copy_from_slice(m.memory, ptr + offset, data)]
<1> DEFINE end == ptr + offset + Len(data)
           refused == \/ ptr \notin DOMAIN m.map
                      \/ ptr + offset > UsizeMax
                      \/ end > UsizeMax
                      \/ end > ptr + m.map[ptr]
                      \/ end > Len(m.memory)
<1>1. CASE refused
  <2>1. \E e : write_bytes_at(m, ptr, offset, data) = Err(m, e)
    BY <1>1, Zenon DEF write_bytes_at
  <2>2. QED
    BY <2>1 DEF Err
<1>2. CASE ~refused
  <2>1. write_bytes_at(m, ptr, offset, data) =
          Ok([m EXCEPT !.memory = copy_from_slice(m.memory, ptr + offset, data)], 0)
    BY <1>2, Zenon DEF write_bytes_at
  <2>2. ptr \in DOMAIN m.map /\ offset + Len(data) <= m.map[ptr]
    BY <1>2 DEF ManagerType
  <2>3. QED
    BY <2>1, <2>2 DEF Ok
<1>3. QED
  BY <1>1, <1>2

\* add_data_raw is an allocation that starts with the bytes given.
LEMMA AddDataRawResult ==
  ASSUME NEW m, ManagerType(m), NEW bytes \in Seq(Byte)
  PROVE  LET r == add_data_raw(m, bytes)
             a == alloc(m, Len(bytes))
         IN  /\ r.ok = a.ok
             /\ r.ok \in BOOLEAN
             /\ ~r.ok => r.mm = m
             /\ r.ok => /\ r.val = a.val
                        /\ r.mm = [a.mm EXCEPT !.memory =
                                     copy_from_slice(a.mm.memory, a.val, bytes)]
<1> DEFINE a == alloc(m, Len(bytes))
<1>1. a.ok \in BOOLEAN /\ (~a.ok => a.mm = m)
  BY AllocResult
<1>2. CASE ~a.ok
  <2>1. add_data_raw(m, bytes) = a
    BY <1>2, Zenon DEF add_data_raw
  <2>2. QED
    BY <1>1, <1>2, <2>1
<1>3. CASE a.ok
  <2>1. add_data_raw(m, bytes) =
          Ok([a.mm EXCEPT !.memory = copy_from_slice(a.mm.memory, a.val, bytes)], a.val)
    BY <1>3, Zenon DEF add_data_raw
  <2>2. QED
    BY <1>1, <1>3, <2>1 DEF Ok
<1>4. QED
  BY <1>2, <1>3

-----------------------------------------------------------------------------
(***************************************************************************)
(* The objects the manager holds.                                          *)
(***************************************************************************)

\* Every object is a non-empty byte string.
LEMMA ContentsType ==
  ASSUME NEW m, WellFormed(m)
  PROVE  \A p \in DOMAIN m.map :
           /\ Contents(m)[p] = slice(m.memory, p, m.map[p])
           /\ Contents(m)[p] \in Seq(Byte)
           /\ Len(Contents(m)[p]) = m.map[p]
           /\ Contents(m)[p] # << >>
<1> SUFFICES ASSUME NEW p \in DOMAIN m.map
             PROVE  /\ Contents(m)[p] = slice(m.memory, p, m.map[p])
                    /\ Contents(m)[p] \in Seq(Byte)
                    /\ Len(Contents(m)[p]) = m.map[p]
                    /\ Contents(m)[p] # << >>
  OBVIOUS
<1>1. /\ p \in Nat
      /\ m.map[p] \in Nat
      /\ m.map[p] > 0
      /\ m.memory \in Seq(Byte)
      /\ p + m.map[p] <= Len(m.memory)
  BY DEF WellFormed, ManagerType, Tiled
<1>2. Contents(m)[p] = slice(m.memory, p, m.map[p])
  BY DEF Contents
<1>3. Contents(m)[p] \in Seq(Byte) /\ Len(Contents(m)[p]) = m.map[p]
  BY <1>1, <1>2, SliceSeq
<1>4. QED
  BY <1>1, <1>2, <1>3, EmptySeq

\* An allocation leaves every object as it was, and adds one unless it is
\* empty.
LEMMA AllocContents ==
  ASSUME NEW m, WellFormed(m), NEW len \in Nat, alloc(m, len).ok
  PROVE  LET n == alloc(m, len).mm
             cur == Len(m.memory)
         IN  /\ WellFormed(n)
             /\ Len(n.memory) = cur + len
             /\ n.store_limits = m.store_limits
             /\ cur \in Nat
             /\ cur + len <= I32Max
             /\ cur \notin DOMAIN m.map
             /\ len = 0 => n.map = m.map
             /\ len > 0 => /\ DOMAIN n.map = DOMAIN m.map \cup {cur}
                           /\ n.map[cur] = len
             /\ \A p \in DOMAIN m.map :
                  n.map[p] = m.map[p] /\ Contents(n)[p] = Contents(m)[p]
<1> DEFINE n == alloc(m, len).mm
           cur == Len(m.memory)
           g == resize(m, cur + len)
<1>1. /\ WellFormed(n)
      /\ ManagerType(m)
      /\ cur \in Nat
      /\ m.memory \in Seq(Byte)
      /\ m.max_total_memory \in 0..I32Max
  BY AllocWellFormed DEF WellFormed, ManagerType
<1>2. n = track(g, cur, len) /\ cur + len <= m.max_total_memory /\ cur + len \in Nat
  BY <1>1, AllocResult
<1>3. /\ ManagerType(g)
      /\ g.map = m.map
      /\ g.store_limits = m.store_limits
      /\ Len(g.memory) = cur + len
      /\ \A i \in 1..(cur + len) :
           g.memory[i] = IF i <= cur THEN m.memory[i] ELSE Zero
  BY <1>1, <1>2, ResizeFields, Zenon
<1> HIDE DEF n, cur, g
<1>4. /\ n.memory = g.memory
      /\ n.store_limits = m.store_limits
      /\ len = 0 => n.map = m.map
      /\ len > 0 => /\ DOMAIN n.map = DOMAIN m.map \cup {cur}
                    /\ n.map[cur] = len
                    /\ \A p \in DOMAIN m.map : p # cur => n.map[p] = m.map[p]
  <2> DEFINE t == track(g, cur, len)
  <2>1. ManagerType(g) /\ cur \in Nat /\ n = t
    BY <1>1, <1>2, <1>3
  <2>2. /\ t.memory = g.memory
        /\ t.store_limits = g.store_limits
        /\ len = 0 => t.map = g.map
        /\ len > 0 => /\ DOMAIN t.map = DOMAIN g.map \cup {cur}
                      /\ t.map[cur] = len
                      /\ \A p \in DOMAIN g.map : p # cur => t.map[p] = g.map[p]
    BY <2>1, TrackFields
  <2> HIDE DEF t
  <2>3. g.map = m.map /\ g.store_limits = m.store_limits
    BY <1>3
  <2>4. QED
    BY <2>1, <2>2, <2>3
<1>5. \A p \in DOMAIN m.map : /\ p \in Nat
                              /\ m.map[p] \in Nat
                              /\ m.map[p] > 0
                              /\ p + m.map[p] <= cur
  BY DEF WellFormed, ManagerType, Tiled, cur
<1>6. cur \notin DOMAIN m.map
  BY <1>1, <1>5
<1>7. ASSUME NEW p \in DOMAIN m.map
      PROVE  /\ n.map[p] = m.map[p]
             /\ Contents(n)[p] = Contents(m)[p]
  <2>1. p \in DOMAIN n.map /\ n.map[p] = m.map[p]
    BY <1>4, <1>6
  <2>2. ASSUME NEW i \in 1..m.map[p]
        PROVE  n.memory[p + i] = m.memory[p + i]
    <3>1. p + i \in 1..(cur + len) /\ p + i <= cur
      <4>1. /\ p \in Nat /\ m.map[p] \in Nat /\ p + m.map[p] <= cur
            /\ i \in Nat /\ 1 <= i /\ i <= m.map[p]
        BY <1>5
      <4>2. QED
        BY <1>1, <4>1
    <3>2. g.memory[p + i] = m.memory[p + i]
      BY <1>3, <3>1
    <3>3. QED
      BY <1>4, <3>2
  <2>3. slice(n.memory, p, m.map[p]) = slice(m.memory, p, m.map[p])
    BY <2>2 DEF slice
  <2>4. QED
    BY <2>1, <2>3 DEF Contents
<1>8. cur + len <= I32Max
  BY <1>1, <1>2, WidthAssumption
<1>9. QED
  BY <1>1, <1>3, <1>4, <1>6, <1>7, <1>8 DEF n, cur

\* Overwriting bytes inside one object leaves the others as they were: the
\* regions do not overlap.
LEMMA CopyContents ==
  ASSUME NEW m, WellFormed(m), NEW ptr \in DOMAIN m.map, NEW start \in Nat,
         NEW data \in Seq(Byte),
         ptr <= start, start + Len(data) <= ptr + m.map[ptr]
  PROVE  LET n == [m EXCEPT !.memory = copy_from_slice(m.memory, start, data)]
         IN  \A p \in DOMAIN m.map \ {ptr} : Contents(n)[p] = Contents(m)[p]
<1> DEFINE n == [m EXCEPT !.memory = copy_from_slice(m.memory, start, data)]
<1>1. /\ n.map = m.map
      /\ WellFormed(n)
      /\ n.memory = copy_from_slice(m.memory, start, data)
  BY CopyWellFormed, MemoryExcept DEF WellFormed
<1> HIDE DEF n
<1>2. /\ m.memory \in Seq(Byte)
      /\ Len(m.memory) \in Nat
      /\ Len(data) \in Nat
      /\ \A i \in 1..Len(m.memory) :
           n.memory[i] = IF start < i /\ i <= start + Len(data)
                           THEN data[i - start] ELSE m.memory[i]
  <2>1. m.memory \in Seq(Byte) /\ Len(m.memory) \in Nat /\ Len(data) \in Nat
    BY DEF WellFormed, ManagerType
  <2>2. \A i \in 1..Len(m.memory) :
          copy_from_slice(m.memory, start, data)[i] =
            IF start < i /\ i <= start + Len(data) THEN data[i - start] ELSE m.memory[i]
    BY <2>1, CopySeq
  <2>3. QED
    BY <1>1, <2>1, <2>2, Zenon
<1>3. /\ \A p \in DOMAIN m.map : /\ p \in Nat
                                 /\ m.map[p] \in Nat
                                 /\ m.map[p] > 0
                                 /\ p + m.map[p] <= Len(m.memory)
      /\ \A p, q \in DOMAIN m.map : p < q => p + m.map[p] <= q
  BY DEF WellFormed, ManagerType, Tiled
<1>4. ASSUME NEW p \in DOMAIN m.map \ {ptr}
      PROVE  Contents(n)[p] = Contents(m)[p]
  <2>1. p + m.map[p] <= ptr \/ ptr + m.map[ptr] <= p
    BY <1>3
  <2>2. ASSUME NEW i \in 1..m.map[p]
        PROVE  ~(start < p + i /\ p + i <= start + Len(data))
    <3>1. /\ p \in Nat /\ m.map[p] \in Nat /\ ptr \in Nat /\ m.map[ptr] \in Nat
          /\ Len(data) \in Nat
      BY <1>2, <1>3
    <3>2. QED
      BY <2>1, <3>1
  <2>3. \A i \in 1..m.map[p] : n.memory[p + i] = m.memory[p + i]
    <3>1. p \in Nat /\ m.map[p] \in Nat /\ p + m.map[p] <= Len(m.memory)
      BY <1>3
    <3>2. ASSUME NEW i \in 1..m.map[p] PROVE p + i \in 1..Len(m.memory)
      BY <3>1, <1>2
    <3>3. QED
      BY <2>2, <3>2, <1>2, Zenon
  <2>4. slice(n.memory, p, m.map[p]) = slice(m.memory, p, m.map[p])
    BY <2>3 DEF slice
  <2>5. QED
    BY <2>4, <1>1 DEF Contents
<1>5. QED
  BY <1>4 DEF n

-----------------------------------------------------------------------------
(***************************************************************************)
(* The `env` imports.                                                      *)
(***************************************************************************)

\* The import answers with the offset itself: no offset is lost in a cast.
LEMMA EnvAllocResult ==
  ASSUME NEW m, WellFormed(m), NEW len \in Nat
  PROVE  LET r == env_alloc(m, len)
             a == alloc(m, len)
         IN  /\ r.ok \in BOOLEAN
             /\ r.ok <=> a.ok
             /\ r.mm = a.mm
             /\ r.ok => r.val = Len(m.memory)
<1> DEFINE a == alloc(m, len)
           r == env_alloc(m, len)
<1>1. a.ok \in BOOLEAN
  BY AllocResult DEF WellFormed
<1>2. CASE ~a.ok
  <2>1. r = a
    BY <1>2, Zenon DEF env_alloc
  <2>2. QED
    BY <1>1, <1>2, <2>1
<1>3. CASE a.ok
  <2>1. r = Ok(a.mm, u32_as_i32(as_u32(a.val)))
    BY <1>3, Zenon DEF env_alloc
  <2>2. a.val = Len(m.memory) /\ Len(m.memory) \in 0..I32Max
    <3>1. /\ Len(m.memory) \in Nat
          /\ Len(m.memory) + len <= m.max_total_memory
          /\ m.max_total_memory \in 0..I32Max
          /\ a.val = Len(m.memory)
      BY <1>3, AllocResult DEF WellFormed, ManagerType
    <3>2. QED
      BY <3>1, WidthAssumption
  <2>3. u32_as_i32(as_u32(a.val)) = Len(m.memory)
    BY <2>2, CastRoundTrip
  <2>4. QED
    BY <1>3, <2>1, <2>3 DEF Ok
<1>4. QED
  BY <1>2, <1>3

\* A length that passed the check is the length the guest gave.
LEMMA CheckedLenResult ==
  ASSUME NEW m, NEW len \in Int
  PROVE  LET r == checked_guest_len(m, len)
         IN  /\ r.ok \in BOOLEAN
             /\ r.mm = m
             /\ r.ok => len \in Nat
  BY DEF checked_guest_len, Ok, Err

\* Reading into the guest changes only its linear memory, in place.
LEMMA EnvReadBytesResult ==
  ASSUME NEW m, WellFormed(m), NEW linear \in Seq(Byte), NEW exported \in BOOLEAN,
         NEW src_ptr \in I32, NEW dst_ptr \in I32, NEW len \in I32
  PROVE  LET r == env_read_bytes(m, linear, exported, src_ptr, dst_ptr, len)
         IN  /\ r.ok \in BOOLEAN
             /\ r.mm = m
             /\ r.ok => r.val \in Seq(Byte) /\ Len(r.val) = Len(linear)
<1> DEFINE checked == checked_guest_len(m, len)
           src == i32_as_usize(src_ptr)
           dst == i32_as_usize(dst_ptr)
           bytes == read_bytes(m, src, len)
           r == env_read_bytes(m, linear, exported, src_ptr, dst_ptr, len)
<1>1. /\ src \in Nat /\ dst \in Nat
      /\ len \in Int
      /\ ManagerType(m)
  BY CastTypes DEF WellFormed
<1>2. checked.ok \in BOOLEAN /\ checked.mm = m /\ (checked.ok => len \in Nat)
  BY <1>1, CheckedLenResult
<1>3. CASE ~checked.ok
  BY <1>2, <1>3 DEF env_read_bytes
<1>4. CASE checked.ok
  <2>1. len \in Nat
    BY <1>2, <1>4
  <2>2. /\ bytes.ok \in BOOLEAN
        /\ bytes.mm = m
        /\ bytes.ok => /\ src + len <= Len(m.memory)
                       /\ bytes.val = slice(m.memory, src, len)
    BY <1>1, <2>1, ReadBytesResult
  <2>3. CASE ~bytes.ok
    <3>1. r = bytes
      BY <1>4, <2>3, Zenon DEF env_read_bytes
    <3>2. QED
      BY <3>1, <2>2, <2>3
  <2>4. CASE bytes.ok
    <3>1. CASE ~exported \/ ~InLinear(linear, dst, len)
      <4>1. \E e : r = Err(m, e)
        BY <1>4, <2>4, <3>1, Zenon DEF env_read_bytes
      <4>2. QED
        BY <4>1 DEF Err
    <3>2. CASE exported /\ InLinear(linear, dst, len)
      <4>1. r = Ok(m, copy_from_slice(linear, dst, bytes.val))
        BY <1>4, <2>4, <3>2, Zenon DEF env_read_bytes
      <4>2. bytes.val \in Seq(Byte)
        BY <1>1, <2>1, <2>2, <2>4, SliceSeq DEF ManagerType
      <4>3. /\ copy_from_slice(linear, dst, bytes.val) \in Seq(Byte)
            /\ Len(copy_from_slice(linear, dst, bytes.val)) = Len(linear)
        BY <1>1, <4>2, CopySeq
      <4>4. QED
        BY <4>1, <4>3 DEF Ok
    <3>3. QED
      BY <3>1, <3>2
  <2>5. QED
    BY <2>2, <2>3, <2>4
<1>5. QED
  BY <1>2, <1>3, <1>4

\* A write from the guest that succeeds is a write inside one allocation.
LEMMA EnvWriteBytesResult ==
  ASSUME NEW m, WellFormed(m), NEW linear \in Seq(Byte), NEW exported \in BOOLEAN,
         NEW dst_ptr \in I32, NEW src_ptr \in I32, NEW len \in I32
  PROVE  LET r == env_write_bytes(m, linear, exported, dst_ptr, src_ptr, len)
         IN  /\ r.ok \in BOOLEAN
             /\ ~r.ok => r.mm = m
             /\ r.ok => \E ptr \in DOMAIN m.map, data \in Seq(Byte) :
                          /\ Len(data) <= m.map[ptr]
                          /\ r.mm = [m EXCEPT !.memory =
                                       copy_from_slice(m.memory, ptr, data)]
<1> DEFINE checked == checked_guest_len(m, len)
           src == i32_as_usize(src_ptr)
           dst == i32_as_usize(dst_ptr)
           data == slice(linear, src, len)
           r == env_write_bytes(m, linear, exported, dst_ptr, src_ptr, len)
<1>1. /\ src \in Nat /\ dst \in Nat
      /\ len \in Int
      /\ ManagerType(m)
  BY CastTypes DEF WellFormed
<1>2. checked.ok \in BOOLEAN /\ checked.mm = m /\ (checked.ok => len \in Nat)
  BY <1>1, CheckedLenResult
<1>3. CASE ~checked.ok
  BY <1>2, <1>3 DEF env_write_bytes
<1>4. CASE checked.ok /\ (~exported \/ ~InLinear(linear, src, len))
  <2>1. \E e : r = Err(m, e)
    BY <1>4, Zenon DEF env_write_bytes
  <2>2. QED
    BY <2>1 DEF Err
<1>5. CASE checked.ok /\ exported /\ InLinear(linear, src, len)
  <2>1. r = write_bytes(m, dst, data)
    BY <1>5, Zenon DEF env_write_bytes
  <2>2. data \in Seq(Byte)
    BY <1>1, <1>2, <1>5, SliceSeq DEF InLinear
  <2> HIDE DEF data, r, dst
  <2>3. /\ r.ok \in BOOLEAN
        /\ ~r.ok => r.mm = m
        /\ r.ok => /\ dst \in DOMAIN m.map
                   /\ Len(data) <= m.map[dst]
                   /\ r.mm = [m EXCEPT !.memory = copy_from_slice(m.memory, dst, data)]
    BY <1>1, <2>1, <2>2, WriteBytesResult
  <2>4. QED
    BY <2>2, <2>3, Zenon DEF r
<1>6. QED
  BY <1>2, <1>3, <1>4, <1>5

\* Sign-extending and zero-extending a guest pointer lead to the same tracked
\* region or both to none.
LEMMA ExtensionsAgree ==
  ASSUME NEW m, WellFormed(m), NEW pointer \in I32
  PROVE  /\ i32_as_u32(pointer) \in DOMAIN m.map <=> i32_as_usize(pointer) \in DOMAIN m.map
         /\ i32_as_u32(pointer) \in DOMAIN m.map => i32_as_u32(pointer) = i32_as_usize(pointer)
<1>1. \A p \in DOMAIN m.map : p <= I32Max
  BY WidthAssumption DEF WellFormed, ManagerType, Tiled, Capped
<1>2. CASE pointer < 0
  <2>1. ~(i32_as_u32(pointer) <= I32Max) /\ ~(i32_as_usize(pointer) <= I32Max)
    BY <1>2, WidthAssumption DEF i32_as_u32, i32_as_usize, I32, U32Values
  <2>2. QED
    BY <1>1, <2>1
<1>3. CASE ~(pointer < 0)
  BY <1>3 DEF i32_as_u32, i32_as_usize
<1>4. QED
  BY <1>2, <1>3

\* pointer_len tells the guest the length of a tracked pointer, and -1 of any
\* other.
LEMMA EnvPointerLenResult ==
  ASSUME NEW m, WellFormed(m), NEW pointer \in I32
  PROVE  LET ptr == i32_as_usize(pointer)
         IN  /\ ptr \in DOMAIN m.map => /\ env_pointer_len(m, pointer) = m.map[ptr]
                                        /\ m.map[ptr] > 0
                                        /\ pointer = ptr
             /\ ptr \notin DOMAIN m.map => env_pointer_len(m, pointer) = -1
<1> DEFINE ptr == i32_as_usize(pointer)
<1>1. CASE ptr \in DOMAIN m.map
  <2>1. /\ ptr \in Nat
        /\ m.map[ptr] \in Nat
        /\ m.map[ptr] > 0
        /\ ptr + m.map[ptr] <= Len(m.memory)
        /\ Len(m.memory) <= m.max_total_memory
        /\ Len(m.memory) \in Nat
        /\ m.max_total_memory \in 0..I32Max
    BY <1>1 DEF WellFormed, ManagerType, Tiled, Capped
  <2>2. m.map[ptr] \in 0..I32Max /\ ptr <= I32Max
    BY <2>1, WidthAssumption
  <2>3. pointer = ptr
    BY <2>2, WidthAssumption DEF i32_as_usize, I32
  <2>4. u32_as_i32(as_u32(m.map[ptr])) = m.map[ptr]
    BY <2>2, CastRoundTrip
  <2>5. env_pointer_len(m, pointer) = u32_as_i32(as_u32(m.map[ptr]))
    BY <1>1 DEF env_pointer_len, get_pointer_len
  <2>6. QED
    BY <1>1, <2>1, <2>3, <2>4, <2>5
<1>2. CASE ptr \notin DOMAIN m.map
  BY <1>2, CastRoundTrip DEF env_pointer_len, get_pointer_len
<1>3. QED
  BY <1>1, <1>2

=============================================================================
