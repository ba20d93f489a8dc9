-------------------------- MODULE GuestHost_proofs --------------------------
(***************************************************************************)
(* The safety of the host/guest boundary for every choice of limits,       *)
(* integer widths, byte values and linear memory size, and that the        *)
(* manager implements ObjectStore.                                         *)
(***************************************************************************)
EXTENDS GuestHost, MemoryManager_proofs

\* A fresh manager is well formed and empty.
LEMMA FromLimitsWellFormed ==
  ASSUME NEW limits \in Limits
  PROVE  LET m == from_limits(limits)
         IN  WellFormed(m) /\ DOMAIN m.map = {} /\ Len(m.memory) = 0
<1> DEFINE m == from_limits(limits)
<1>1. /\ m.memory = << >>
      /\ m.map = [p \in {} |-> 0]
      /\ m.max_single_alloc = limits.max_single_alloc
      /\ m.max_total_memory = limits.max_total_memory
      /\ m = [memory |-> m.memory, map |-> m.map,
              store_limits |-> m.store_limits,
              max_single_alloc |-> m.max_single_alloc,
              max_total_memory |-> m.max_total_memory]
  BY DEF from_limits
<1> HIDE DEF m
<1>2. ManagerType(m)
  BY <1>1, LimitsAssumption DEF ManagerType
<1>3. Tiled(m) /\ Capped(m)
  BY <1>1, LimitsAssumption DEF Tiled, Capped
<1>4. QED
  BY <1>1, <1>2, <1>3 DEF WellFormed, m

\* The invariant holds initially.
LEMMA InitInv == Init => IInv
<1> SUFFICES ASSUME Init PROVE IInv
  OBVIOUS
<1>1. WellFormed(mm) /\ DOMAIN mm.map = {}
  BY FromLimitsWellFormed DEF Init
<1>2. TypeOK
  <2>1. exported \in BOOLEAN /\ phase \in Phases /\ granted \subseteq I32 \X U32
    BY DEF Init, Phases
  <2>2. linear \in Seq(Byte) /\ fetched \in Seq(Byte)
    BY EmptySeq DEF Init
  <2>3. QED
    BY <1>1, <2>1, <2>2 DEF TypeOK, WellFormed
<1>3. GrantsTracked /\ LinearWithinLimit
  BY <1>1 DEF Init, GrantsTracked, LinearWithinLimit
<1>4. QED
  BY <1>1, <1>2, <1>3 DEF IInv

(***************************************************************************)
(* The steps of the three kinds that change the manager.                   *)
(***************************************************************************)

\* r is an outcome of alloc(mm, len) that may have filled the new region.
AllocOutcome(r, len) ==
  /\ r.ok \in BOOLEAN
  /\ r.ok <=> alloc(mm, len).ok
  /\ ~r.ok => r.mm = mm
  /\ r.ok => /\ r.val = Len(mm.memory)
             /\ WellFormed(r.mm)
             /\ r.mm.map = alloc(mm, len).mm.map
             /\ r.mm.store_limits = mm.store_limits
             /\ \A p \in DOMAIN mm.map : Contents(r.mm)[p] = Contents(mm)[p]

\* r is an outcome of writing inside one allocation.
WriteOutcome(r) ==
  /\ r.ok \in BOOLEAN
  /\ ~r.ok => r.mm = mm
  /\ r.ok => \E ptr \in DOMAIN mm.map, start \in Nat, data \in Seq(Byte) :
               /\ ptr <= start
               /\ start + Len(data) <= ptr + mm.map[ptr]
               /\ r.mm = [mm EXCEPT !.memory = copy_from_slice(mm.memory, start, data)]

\* Allocating and recording the grant keeps the invariant.
LEMMA AllocStep ==
  ASSUME IInv, NEW r, NEW len \in U32, AllocOutcome(r, len),
         Outcome(r), Grant(r, len), UNCHANGED <<linear, exported, fetched>>
  PROVE  IInv'
<1>1. /\ TypeOK
      /\ WellFormed(mm)
      /\ GrantsTracked
      /\ LinearWithinLimit
      /\ len \in Nat
  BY WidthAssumption DEF IInv, U32
<1>2. CASE ~r.ok
  <2>1. mm' = mm /\ phase' = "ended" /\ granted' = granted
    BY <1>2 DEF AllocOutcome, Outcome, Grant
  <2>2. QED
    BY <1>1, <2>1 DEF IInv, TypeOK, GrantsTracked, LinearWithinLimit, Phases
<1>3. CASE r.ok
  <2> DEFINE cur == Len(mm.memory)
  <2>1. /\ WellFormed(mm')
        /\ mm'.store_limits = mm.store_limits
        /\ phase' = phase
    BY <1>3 DEF AllocOutcome, Outcome
  <2>2. /\ cur \in Nat
        /\ cur + len <= I32Max
        /\ cur \notin DOMAIN mm.map
        /\ len = 0 => mm'.map = mm.map
        /\ len > 0 => DOMAIN mm'.map = DOMAIN mm.map \cup {cur} /\ mm'.map[cur] = len
        /\ \A p \in DOMAIN mm.map : mm'.map[p] = mm.map[p]
    BY <1>1, <1>3, AllocContents DEF AllocOutcome, Outcome
  <2>3. cur \in 0..I32Max
    BY <1>1, <2>2, WidthAssumption
  <2>4. granted' = granted \cup {<<cur, len>>}
    BY <1>3, <2>3, CastRoundTrip DEF AllocOutcome, Grant
  <2>5. cur \in I32
    BY <2>3, WidthAssumption DEF I32
  <2> HIDE DEF cur
  <2>6. TypeOK'
    BY <1>1, <2>1, <2>4, <2>5 DEF TypeOK, WellFormed
  <2>7. GrantsTracked'
    <3>1. ASSUME NEW g \in granted', g[2] > 0
          PROVE  g[1] \in DOMAIN mm'.map /\ mm'.map[g[1]] = g[2]
      BY <1>1, <2>2, <2>4, <3>1 DEF GrantsTracked
    <3>2. ASSUME NEW p \in DOMAIN mm'.map
          PROVE  <<p, mm'.map[p]>> \in granted'
      <4>1. CASE p \in DOMAIN mm.map
        BY <1>1, <2>2, <2>4, <4>1 DEF GrantsTracked
      <4>2. CASE p \notin DOMAIN mm.map
        BY <1>1, <2>2, <2>4, <4>2
      <4>3. QED
        BY <4>1, <4>2
    <3>3. QED
      BY <3>1, <3>2 DEF GrantsTracked
  <2>8. LinearWithinLimit'
    BY <1>1, <2>1 DEF LinearWithinLimit
  <2>9. QED
    BY <2>1, <2>6, <2>7, <2>8 DEF IInv
<1>4. QED
  BY <1>2, <1>3 DEF AllocOutcome

\* Writing inside one allocation keeps the invariant.
LEMMA WriteStep ==
  ASSUME IInv, NEW r, WriteOutcome(r), Outcome(r),
         UNCHANGED <<linear, exported, fetched, granted>>
  PROVE  IInv'
<1>1. TypeOK /\ WellFormed(mm) /\ GrantsTracked /\ LinearWithinLimit
  BY DEF IInv
<1>2. CASE ~r.ok
  <2>1. mm' = mm /\ phase' = "ended"
    BY <1>2 DEF WriteOutcome, Outcome
  <2>2. QED
    BY <1>1, <2>1 DEF IInv, TypeOK, GrantsTracked, LinearWithinLimit, Phases
<1>3. CASE r.ok
  <2>1. PICK ptr \in DOMAIN mm.map, start \in Nat, data \in Seq(Byte) :
          r.mm = [mm EXCEPT !.memory = copy_from_slice(mm.memory, start, data)]
    BY <1>3 DEF WriteOutcome
  <2>2. /\ WellFormed(mm')
        /\ mm'.map = mm.map
        /\ mm'.store_limits = mm.store_limits
        /\ phase' = phase
    BY <1>1, <1>3, <2>1, CopyWellFormed DEF Outcome
  <2>3. TypeOK'
    BY <1>1, <2>2 DEF TypeOK, WellFormed
  <2>4. GrantsTracked' /\ LinearWithinLimit'
    BY <1>1, <2>2 DEF GrantsTracked, LinearWithinLimit
  <2>5. QED
    BY <2>2, <2>3, <2>4 DEF IInv
<1>4. QED
  BY <1>2, <1>3 DEF WriteOutcome

\* A step that leaves the manager and the grants alone keeps the invariant if
\* it keeps the types and the guest's linear memory inside its limit.
LEMMA GuestStep ==
  ASSUME IInv, UNCHANGED <<mm, granted>>, TypeOK', LinearWithinLimit'
  PROVE  IInv'
  BY DEF IInv, GrantsTracked

-----------------------------------------------------------------------------
(***************************************************************************)
(* Which outcome each operation has.                                       *)
(***************************************************************************)

\* The byte strings a step carries are sequences no longer than an i32 counts.
LEMMA DataType ==
  ASSUME IInv, NEW bytes \in Data
  PROVE  bytes \in Seq(Byte) /\ Len(bytes) \in U32
<1>1. mm.max_total_memory \in 0..I32Max
  BY DEF IInv, WellFormed, ManagerType
<1>2. PICK n \in 0..mm.max_total_memory : bytes \in [1..n -> Byte]
  BY DEF Data
<1>3. n \in Nat /\ n <= I32Max
  BY <1>1, <1>2, WidthAssumption
<1>4. bytes \in Seq(Byte) /\ Len(bytes) = n
  BY <1>2, <1>3, FunIsSeq
<1>5. QED
  BY <1>3, <1>4, WidthAssumption DEF U32

\* alloc, called by the host or by the guest.
LEMMA AllocIsAlloc ==
  ASSUME IInv, NEW len \in U32
  PROVE  AllocOutcome(alloc(mm, len), len) /\ AllocOutcome(env_alloc(mm, len), len)
<1>1. WellFormed(mm) /\ ManagerType(mm) /\ len \in Nat
  BY WidthAssumption DEF IInv, U32, WellFormed
<1>2. AllocOutcome(alloc(mm, len), len)
  BY <1>1, AllocResult, AllocContents DEF AllocOutcome
<1>3. AllocOutcome(env_alloc(mm, len), len)
  BY <1>1, <1>2, EnvAllocResult DEF AllocOutcome
<1>4. QED
  BY <1>2, <1>3

\* add_data_raw fills only the region it allocated.
LEMMA AddDataRawIsAlloc ==
  ASSUME IInv, NEW bytes \in Data
  PROVE  AllocOutcome(add_data_raw(mm, bytes), Len(bytes))
<1> DEFINE len == Len(bytes)
           a == alloc(mm, len)
           r == add_data_raw(mm, bytes)
<1>1. /\ WellFormed(mm) /\ ManagerType(mm)
      /\ bytes \in Seq(Byte)
      /\ len \in U32 /\ len \in Nat
  BY DataType DEF IInv, WellFormed
<1>2. /\ r.ok \in BOOLEAN
      /\ r.ok = a.ok
      /\ ~r.ok => r.mm = mm
      /\ r.ok => /\ r.val = a.val
                 /\ r.mm = [a.mm EXCEPT !.memory =
                              copy_from_slice(a.mm.memory, a.val, bytes)]
  BY <1>1, AddDataRawResult
<1>3. ASSUME r.ok
      PROVE  /\ r.val = Len(mm.memory)
             /\ WellFormed(r.mm)
             /\ r.mm.map = a.mm.map
             /\ r.mm.store_limits = mm.store_limits
             /\ \A p \in DOMAIN mm.map : Contents(r.mm)[p] = Contents(mm)[p]
  <2> DEFINE cur == Len(mm.memory)
             n == a.mm
  <2>1. a.ok /\ a.val = cur
    BY <1>1, <1>2, <1>3, AllocResult
  <2>2. /\ WellFormed(n)
        /\ n.store_limits = mm.store_limits
        /\ Len(n.memory) = cur + len
        /\ cur \in Nat
        /\ cur \notin DOMAIN mm.map
        /\ len = 0 => n.map = mm.map
        /\ len > 0 => DOMAIN n.map = DOMAIN mm.map \cup {cur} /\ n.map[cur] = len
        /\ \A p \in DOMAIN mm.map :
             n.map[p] = mm.map[p] /\ Contents(n)[p] = Contents(mm)[p]
    BY <1>1, <2>1, AllocContents
  <2>3. r.mm = [n EXCEPT !.memory = copy_from_slice(n.memory, cur, bytes)]
    BY <1>2, <1>3, <2>1
  <2> HIDE DEF n, cur, r
  <2>4. /\ WellFormed(r.mm)
        /\ r.mm.map = n.map
        /\ r.mm.store_limits = n.store_limits
    BY <1>1, <2>2, <2>3, CopyWellFormed
  <2>5. \A p \in DOMAIN mm.map : Contents(r.mm)[p] = Contents(n)[p]
    <3>1. CASE len > 0
      <4>1. /\ WellFormed(n)
            /\ cur \in DOMAIN n.map /\ cur \in Nat /\ cur <= cur
            /\ cur + Len(bytes) <= cur + n.map[cur]
            /\ bytes \in Seq(Byte)
        BY <3>1, <1>1, <2>2
      <4>2. \A p \in DOMAIN n.map \ {cur} : Contents(r.mm)[p] = Contents(n)[p]
        BY <4>1, <2>3, CopyContents
      <4>3. QED
        BY <3>1, <4>2, <2>2
    <3>2. CASE len = 0
      <4>1. n.memory \in Seq(Byte) /\ Len(n.memory) \in Nat
        BY <2>2 DEF WellFormed, ManagerType
      <4>2. copy_from_slice(n.memory, cur, bytes) = n.memory
        BY <3>2, <4>1, <1>1, <2>2, CopyNothing
      <4>3. r.mm.memory = n.memory
        BY <2>2, <2>3, <4>2, MemoryExcept DEF WellFormed
      <4>4. QED
        BY <2>4, <4>3 DEF Contents
    <3>3. QED
      BY <3>1, <3>2, <1>1
  <2>6. QED
    BY <1>2, <1>3, <2>1, <2>2, <2>4, <2>5 DEF n, cur
<1>4. QED
  BY <1>2, <1>3 DEF AllocOutcome

\* write_bytes_at stays inside the allocation.
LEMMA WriteBytesAtIsWrite ==
  ASSUME IInv, NEW ptr \in Nat, NEW offset \in Nat, NEW data \in Data
  PROVE  WriteOutcome(write_bytes_at(mm, ptr, offset, data))
<1> DEFINE r == write_bytes_at(mm, ptr, offset, data)
<1>1. ManagerType(mm) /\ data \in Seq(Byte)
  BY DataType DEF IInv, WellFormed
<1>2. /\ r.ok \in BOOLEAN
      /\ ~r.ok => r.mm = mm
      /\ r.ok => /\ ptr \in DOMAIN mm.map
                 /\ offset + Len(data) <= mm.map[ptr]
                 /\ r.mm = [mm EXCEPT !.memory =
                              copy_from_slice(mm.memory, ptr + offset, data)]
  BY <1>1, WriteBytesAtResult
<1> HIDE DEF r
<1>3. r.ok => /\ ptr + offset \in Nat
              /\ ptr <= ptr + offset
              /\ (ptr + offset) + Len(data) <= ptr + mm.map[ptr]
  BY <1>1, <1>2 DEF ManagerType
<1>4. QED
  BY <1>1, <1>2, <1>3, Zenon DEF WriteOutcome, r

\* So does the guest's write_bytes.
LEMMA EnvWriteBytesIsWrite ==
  ASSUME IInv, NEW dst_ptr \in I32, NEW src_ptr \in I32, NEW len \in I32
  PROVE  WriteOutcome(env_write_bytes(mm, linear, exported, dst_ptr, src_ptr, len))
<1> DEFINE r == env_write_bytes(mm, linear, exported, dst_ptr, src_ptr, len)
<1>1. /\ WellFormed(mm)
      /\ linear \in Seq(Byte)
      /\ exported \in BOOLEAN
  BY DEF IInv, TypeOK
<1>2. /\ r.ok \in BOOLEAN
      /\ ~r.ok => r.mm = mm
      /\ r.ok => \E ptr \in DOMAIN mm.map, data \in Seq(Byte) :
                   /\ Len(data) <= mm.map[ptr]
                   /\ r.mm = [mm EXCEPT !.memory =
                                copy_from_slice(mm.memory, ptr, data)]
  BY <1>1, EnvWriteBytesResult
<1> HIDE DEF r
<1>3. ASSUME r.ok
      PROVE  \E ptr \in DOMAIN mm.map, start \in Nat, data \in Seq(Byte) :
               /\ ptr <= start
               /\ start + Len(data) <= ptr + mm.map[ptr]
               /\ r.mm = [mm EXCEPT !.memory = copy_from_slice(mm.memory, start, data)]
  <2>1. PICK ptr \in DOMAIN mm.map, data \in Seq(Byte) :
          /\ Len(data) <= mm.map[ptr]
          /\ r.mm = [mm EXCEPT !.memory = copy_from_slice(mm.memory, ptr, data)]
    BY <1>2, <1>3
  <2>2. ptr \in Nat /\ ptr <= ptr /\ ptr + Len(data) <= ptr + mm.map[ptr]
    BY <1>1, <2>1 DEF WellFormed, ManagerType
  <2>3. QED
    BY <2>1, <2>2, Zenon
<1>4. QED
  BY <1>2, <1>3 DEF WriteOutcome, r

-----------------------------------------------------------------------------
(***************************************************************************)
(* The invariant is inductive.                                             *)
(***************************************************************************)

\* Every step of the host or of the guest keeps the invariant.
LEMMA NextInv == IInv /\ [Next]_vars => IInv'
<1> SUFFICES ASSUME IInv, [Next]_vars PROVE IInv'
  OBVIOUS
<1>1. TypeOK /\ WellFormed(mm) /\ LinearWithinLimit
  BY DEF IInv
<1>2. ASSUME NEW len \in U32, HostAlloc(len)
      PROVE  IInv'
  BY <1>2, AllocIsAlloc, AllocStep DEF HostAlloc
<1>3. ASSUME NEW bytes \in Data, HostAddDataRaw(bytes)
      PROVE  IInv'
  BY <1>3, AddDataRawIsAlloc, DataType, AllocStep DEF HostAddDataRaw
<1>4. ASSUME NEW ptr \in 0..mm.max_total_memory, NEW offset \in 0..mm.max_total_memory,
             NEW data \in Data, HostWriteBytesAt(ptr, offset, data)
      PROVE  IInv'
  <2>1. ptr \in Nat /\ offset \in Nat
    BY <1>1 DEF WellFormed, ManagerType
  <2>2. QED
    BY <1>4, <2>1, WriteBytesAtIsWrite, WriteStep DEF HostWriteBytesAt
<1>5. CASE Instantiate
  <2>1. zeroed(LinearStart) \in Seq(Byte) /\ Len(zeroed(LinearStart)) = LinearStart
    <3>1. zeroed(LinearStart) \in [1..LinearStart -> Byte]
      BY ByteAssumption DEF zeroed
    <3>2. QED
      BY <3>1, LinearAssumption, FunIsSeq
  <2>2. TypeOK'
    BY <1>1, <1>5, <2>1 DEF Instantiate, TypeOK, Phases
  <2>3. LinearWithinLimit'
    BY <1>5, <2>1 DEF Instantiate, LinearWithinLimit
  <2>4. QED
    BY <1>5, <2>2, <2>3, GuestStep DEF Instantiate
<1>6. ASSUME NEW len \in U32, GuestAlloc(len)
      PROVE  IInv'
  BY <1>6, AllocIsAlloc, AllocStep DEF GuestAlloc
<1>7. ASSUME NEW src_ptr \in I32, NEW dst_ptr \in I32, NEW len \in I32,
             GuestReadBytes(src_ptr, dst_ptr, len)
      PROVE  IInv'
  <2> DEFINE r == env_read_bytes(mm, linear, exported, src_ptr, dst_ptr, len)
  <2>1. /\ r.ok \in BOOLEAN
        /\ r.mm = mm
        /\ r.ok => r.val \in Seq(Byte) /\ Len(r.val) = Len(linear)
    BY <1>1, EnvReadBytesResult DEF TypeOK
  <2>2. /\ mm' = r.mm
        /\ phase' = IF r.ok THEN phase ELSE "ended"
        /\ linear' = IF r.ok THEN r.val ELSE linear
        /\ UNCHANGED <<exported, fetched, granted>>
    BY <1>7 DEF GuestReadBytes, Outcome
  <2> HIDE DEF r
  <2>3. TypeOK'
    BY <1>1, <2>1, <2>2 DEF TypeOK, Phases
  <2>4. LinearWithinLimit'
    BY <1>1, <2>1, <2>2 DEF LinearWithinLimit
  <2>5. QED
    BY <2>1, <2>2, <2>3, <2>4, GuestStep
<1>8. ASSUME NEW dst_ptr \in I32, NEW src_ptr \in I32, NEW len \in I32,
             GuestWriteBytes(dst_ptr, src_ptr, len)
      PROVE  IInv'
  BY <1>8, EnvWriteBytesIsWrite, WriteStep DEF GuestWriteBytes
<1>9. ASSUME NEW i \in DOMAIN linear, NEW b \in Byte, GuestStore(i, b)
      PROVE  IInv'
  <2>1. /\ [linear EXCEPT ![i] = b] \in Seq(Byte)
        /\ Len([linear EXCEPT ![i] = b]) = Len(linear)
    BY <1>1, ExceptSeq DEF TypeOK
  <2>2. TypeOK' /\ LinearWithinLimit'
    BY <1>1, <1>9, <2>1 DEF GuestStore, TypeOK, LinearWithinLimit
  <2>3. QED
    BY <1>9, <2>2, GuestStep DEF GuestStore
<1>10. CASE GuestGrow
  <2>1. Append(linear, Zero) \in Seq(Byte) /\ Len(Append(linear, Zero)) = Len(linear) + 1
    BY <1>1, ByteAssumption DEF TypeOK
  <2>2. TypeOK' /\ LinearWithinLimit'
    BY <1>1, <1>10, <2>1 DEF GuestGrow, TypeOK, LinearWithinLimit, Phases
  <2>3. QED
    BY <1>10, <2>2, GuestStep DEF GuestGrow
<1>11. CASE GuestTrap
  <2>1. TypeOK' /\ LinearWithinLimit'
    BY <1>1, <1>11 DEF GuestTrap, TypeOK, LinearWithinLimit, Phases
  <2>2. QED
    BY <1>11, <2>1, GuestStep DEF GuestTrap
<1>12. ASSUME NEW pointer \in I32, GuestReturn(pointer)
       PROVE  IInv'
  <2> DEFINE ptr == i32_as_u32(pointer)
             r == read_data(mm, ptr)
  <2>1. ptr \in Nat
    BY CastTypes, WidthAssumption DEF U32
  <2>2. r.ok => r.val \in Seq(Byte)
    BY <1>1, <2>1, ReadDataResult, ContentsType
  <2>3. TypeOK' /\ LinearWithinLimit'
    BY <1>1, <1>12, <2>2 DEF GuestReturn, TypeOK, LinearWithinLimit, Phases
  <2>4. QED
    BY <1>12, <2>3, GuestStep DEF GuestReturn
<1>13. CASE NewStore
  <2>1. WellFormed(mm') /\ DOMAIN mm'.map = {}
    BY <1>13, FromLimitsWellFormed DEF NewStore
  <2>2. TypeOK'
    <3>1. exported' \in BOOLEAN /\ phase' \in Phases /\ granted' \subseteq I32 \X U32
      BY <1>13 DEF NewStore, Phases
    <3>2. linear' \in Seq(Byte) /\ fetched' \in Seq(Byte)
      BY <1>13, EmptySeq DEF NewStore
    <3>3. QED
      BY <2>1, <3>1, <3>2 DEF TypeOK, WellFormed
  <2>3. GrantsTracked' /\ LinearWithinLimit'
    BY <1>13, <2>1 DEF NewStore, GrantsTracked, LinearWithinLimit
  <2>4. QED
    BY <2>1, <2>2, <2>3 DEF IInv
<1>14. CASE UNCHANGED vars
  BY <1>14 DEF vars, IInv, TypeOK, GrantsTracked, LinearWithinLimit
<1>15. QED
  BY <1>2, <1>3, <1>4, <1>5, <1>6, <1>7, <1>8, <1>9, <1>10, <1>11, <1>12, <1>13,
     <1>14 DEF Next

-----------------------------------------------------------------------------
(***************************************************************************)
(* The theorems.                                                           *)
(***************************************************************************)

\* The inductive invariant holds in every reachable state of host and guest.
THEOREM Invariance == Spec => []IInv
  BY InitInv, NextInv, PTL DEF Spec

\* Type correctness of the host/guest boundary.
THEOREM TypeCorrect == Spec => []TypeOK
<1>1. IInv => TypeOK
  BY DEF IInv
<1>2. QED
  BY <1>1, Invariance, PTL

\* Whatever a guest does, the tracked allocations tile the backing vector.
THEOREM Tiling == Spec => []RegionsTile
<1>1. IInv => RegionsTile
  BY DEF IInv, RegionsTile, WellFormed
<1>2. QED
  BY <1>1, Invariance, PTL

\* Whatever a guest asks for, the store's caps hold and the map stays no larger
\* than the memory it describes.
THEOREM LimitsHold == Spec => []WithinLimits
<1>1. ASSUME IInv PROVE WithinLimits
  <2>1. /\ Capped(mm) /\ LinearWithinLimit
        /\ Len(mm.memory) \in Nat
        /\ DOMAIN mm.map \subseteq 0..(Len(mm.memory) - 1)
    BY <1>1 DEF IInv, WellFormed, ManagerType, Tiled
  <2>2. Cardinality(DOMAIN mm.map) <= Cardinality(0..(Len(mm.memory) - 1))
    <3>1. IsFiniteSet(0..(Len(mm.memory) - 1))
      BY <2>1, FS_Interval
    <3>2. DOMAIN mm.map \in SUBSET (0..(Len(mm.memory) - 1))
      BY <2>1
    <3>3. QED
      BY <3>1, <3>2, FS_Subset, Zenon
  <2>3. Cardinality(0..(Len(mm.memory) - 1)) = Len(mm.memory)
    <3> DEFINE n == Len(mm.memory) - 1
    <3>1. n \in Int /\ (0 > n => n = -1)
      BY <2>1
    <3> HIDE DEF n
    <3>2. Cardinality(0..n) = IF 0 > n THEN 0 ELSE n - 0 + 1
      BY <3>1, FS_Interval
    <3>3. Cardinality(0..n) = n + 1
      BY <3>1, <3>2
    <3>4. QED
      BY <2>1, <3>3 DEF n
  <2>4. QED
    BY <2>1, <2>2, <2>3 DEF WithinLimits
<1>2. QED
  BY <1>1, Invariance, PTL

\* What a guest was granted stays valid for the life of the store.
THEOREM GrantsHold == Spec => []GrantsStayValid
<1>1. ASSUME IInv PROVE GrantsStayValid
  <2>1. SUFFICES ASSUME NEW g \in granted, g[2] > 0
                 PROVE  /\ env_pointer_len(mm, g[1]) = g[2]
                        /\ read_data(mm, i32_as_u32(g[1])).ok
                        /\ Len(read_data(mm, i32_as_u32(g[1])).val) = g[2]
    BY DEF GrantsStayValid
  <2> DEFINE ptr == g[1]
  <2>2. /\ WellFormed(mm)
        /\ ptr \in DOMAIN mm.map /\ ptr \in Nat /\ ptr \in I32
        /\ mm.map[ptr] = g[2]
    BY <1>1, <2>1 DEF IInv, GrantsTracked, TypeOK, WellFormed, ManagerType
  <2>3. i32_as_usize(ptr) = ptr /\ i32_as_u32(ptr) = ptr
    BY <2>2 DEF i32_as_usize, i32_as_u32
  <2> HIDE DEF ptr
  <2>4. env_pointer_len(mm, ptr) = mm.map[ptr]
    BY <2>2, <2>3, EnvPointerLenResult
  <2>5. /\ read_data(mm, ptr).ok
        /\ read_data(mm, ptr).val = Contents(mm)[ptr]
    BY <2>2, ReadDataResult, ContentsType
  <2>6. Len(Contents(mm)[ptr]) = mm.map[ptr]
    BY <2>2, ContentsType
  <2>7. QED
    BY <2>2, <2>3, <2>4, <2>5, <2>6 DEF ptr
<1>2. QED
  BY <1>1, Invariance, PTL

\* pointer_len and read_data agree on every 32-bit pointer.
THEOREM PointersAgree == Spec => []KnownPointersAgree
<1>1. ASSUME IInv PROVE KnownPointersAgree
  <2>1. SUFFICES ASSUME NEW pointer \in I32
                 PROVE  /\ env_pointer_len(mm, pointer) = -1
                             <=> ~read_data(mm, i32_as_u32(pointer)).ok
                        /\ env_pointer_len(mm, pointer) # -1 =>
                             <<pointer, env_pointer_len(mm, pointer)>> \in granted
    BY DEF KnownPointersAgree
  <2> DEFINE ptr == i32_as_usize(pointer)
             res == i32_as_u32(pointer)
  <2>2. WellFormed(mm) /\ GrantsTracked /\ ptr \in Nat /\ res \in Nat
    BY <1>1, CastTypes, WidthAssumption DEF IInv, U32
  <2>3. /\ read_data(mm, res).ok \in BOOLEAN
        /\ read_data(mm, res).ok <=> ptr \in DOMAIN mm.map
    <3>1. /\ read_data(mm, res).ok \in BOOLEAN
          /\ read_data(mm, res).ok <=> res \in DOMAIN mm.map
      BY <2>2, ReadDataResult
    <3>2. res \in DOMAIN mm.map <=> ptr \in DOMAIN mm.map
      BY <2>2, ExtensionsAgree
    <3>3. QED
      BY <3>1, <3>2
  <2>4. /\ ptr \in DOMAIN mm.map => /\ env_pointer_len(mm, pointer) = mm.map[ptr]
                                    /\ mm.map[ptr] > 0
                                    /\ pointer = ptr
        /\ ptr \notin DOMAIN mm.map => env_pointer_len(mm, pointer) = -1
    BY <2>2, EnvPointerLenResult
  <2>5. ptr \in DOMAIN mm.map => mm.map[ptr] # -1
    BY <2>2, <2>4 DEF WellFormed, ManagerType
  <2> HIDE DEF ptr
  <2>6. QED
    BY <2>2, <2>3, <2>4, <2>5 DEF GrantsTracked, ptr, res
<1>2. QED
  BY <1>1, Invariance, PTL

-----------------------------------------------------------------------------
(***************************************************************************)
(* Refinement: what each step does to the store of objects.                *)
(***************************************************************************)

\* An allocation creates one object, or none when it is empty or refused.
LEMMA AllocRefines ==
  ASSUME IInv, IInv', NEW r, NEW len \in U32, AllocOutcome(r, len),
         Outcome(r), UNCHANGED fetched
  PROVE  Abstract!Next \/ UNCHANGED Abstract!vars
<1>1. /\ WellFormed(mm) /\ WellFormed(mm')
      /\ len \in Nat
      /\ DOMAIN Contents(mm) = DOMAIN mm.map
      /\ DOMAIN Contents(mm)' = DOMAIN mm'.map
  BY WidthAssumption DEF IInv, U32, Contents
<1>2. CASE ~r.ok
  <2>1. mm' = mm
    BY <1>2 DEF AllocOutcome, Outcome
  <2>2. QED
    BY <2>1 DEF Abstract!vars
<1>3. CASE r.ok
  <2> DEFINE cur == Len(mm.memory)
  <2>1. /\ cur \in Nat
        /\ cur + len <= I32Max
        /\ cur \notin DOMAIN mm.map
        /\ len = 0 => mm'.map = mm.map
        /\ len > 0 => DOMAIN mm'.map = DOMAIN mm.map \cup {cur}
    BY <1>1, <1>3, AllocContents DEF AllocOutcome, Outcome
  <2>2. \A p \in DOMAIN mm.map : Contents(mm)'[p] = Contents(mm)[p]
    BY <1>3 DEF AllocOutcome, Outcome
  <2> HIDE DEF cur
  <2>3. CASE len = 0
    <3>1. Contents(mm)' = Contents(mm)
      <4>1. DOMAIN Contents(mm)' = DOMAIN Contents(mm)
        BY <1>1, <2>1, <2>3
      <4>2. QED
        BY <1>1, <2>2, <4>1 DEF Contents
    <3>2. QED
      BY <3>1 DEF Abstract!vars
  <2>4. CASE len > 0
    <3>1. cur \in 0..UsizeMax
      BY <1>1, <2>1, WidthAssumption
    <3>2. cur \in DOMAIN mm'.map
      BY <2>1, <2>4
    <3>3. Contents(mm)'[cur] \in Seq(Byte) /\ Contents(mm)'[cur] # << >>
      BY <1>1, <3>2, ContentsType
    <3>4. Abstract!Create(cur)
      BY <1>1, <2>1, <2>2, <2>4, <3>3 DEF Abstract!Create
    <3>5. QED
      BY <3>1, <3>4 DEF Abstract!Next
  <2>5. QED
    BY <1>1, <2>3, <2>4
<1>4. QED
  BY <1>2, <1>3 DEF AllocOutcome

\* A write overwrites one object in place.
LEMMA WriteRefines ==
  ASSUME IInv, IInv', NEW r, WriteOutcome(r), Outcome(r), UNCHANGED fetched
  PROVE  Abstract!Next \/ UNCHANGED Abstract!vars
<1>1. /\ WellFormed(mm) /\ WellFormed(mm')
      /\ DOMAIN Contents(mm) = DOMAIN mm.map
      /\ DOMAIN Contents(mm)' = DOMAIN mm'.map
  BY DEF IInv, Contents
<1>2. CASE ~r.ok
  <2>1. mm' = mm
    BY <1>2 DEF WriteOutcome, Outcome
  <2>2. QED
    BY <2>1 DEF Abstract!vars
<1>3. CASE r.ok
  <2>1. PICK ptr \in DOMAIN mm.map, start \in Nat, data \in Seq(Byte) :
          /\ ptr <= start
          /\ start + Len(data) <= ptr + mm.map[ptr]
          /\ mm' = [mm EXCEPT !.memory = copy_from_slice(mm.memory, start, data)]
    BY <1>3 DEF WriteOutcome, Outcome
  <2>2. mm'.map = mm.map
    BY <1>1, <2>1, CopyWellFormed
  <2>3. \A p \in DOMAIN mm.map \ {ptr} : Contents(mm)'[p] = Contents(mm)[p]
    BY <1>1, <2>1, CopyContents
  <2>4. /\ Contents(mm)'[ptr] \in Seq(Byte)
        /\ Len(Contents(mm)'[ptr]) = Len(Contents(mm)[ptr])
    BY <1>1, <2>2, ContentsType
  <2>5. Abstract!Update(ptr)
    BY <1>1, <2>2, <2>3, <2>4 DEF Abstract!Update
  <2>6. QED
    BY <1>1, <2>5 DEF Abstract!Next
<1>4. QED
  BY <1>2, <1>3 DEF WriteOutcome

\* Every step is a step of the object store or a stutter.
LEMMA StepRefines ==
  IInv /\ IInv' /\ [Next]_vars => [Abstract!Next]_(Abstract!vars)
<1> SUFFICES ASSUME IInv, IInv', [Next]_vars
             PROVE  Abstract!Next \/ UNCHANGED Abstract!vars
  OBVIOUS
<1>1. WellFormed(mm) /\ TypeOK
  BY DEF IInv
<1>2. ASSUME NEW len \in U32, HostAlloc(len) \/ GuestAlloc(len)
      PROVE  Abstract!Next \/ UNCHANGED Abstract!vars
  BY <1>2, AllocIsAlloc, AllocRefines DEF HostAlloc, GuestAlloc
<1>3. ASSUME NEW bytes \in Data, HostAddDataRaw(bytes)
      PROVE  Abstract!Next \/ UNCHANGED Abstract!vars
  BY <1>3, AddDataRawIsAlloc, DataType, AllocRefines DEF HostAddDataRaw
<1>4. ASSUME NEW ptr \in 0..mm.max_total_memory, NEW offset \in 0..mm.max_total_memory,
             NEW data \in Data, HostWriteBytesAt(ptr, offset, data)
      PROVE  Abstract!Next \/ UNCHANGED Abstract!vars
  <2>1. ptr \in Nat /\ offset \in Nat
    BY <1>1 DEF WellFormed, ManagerType
  <2>2. QED
    BY <1>4, <2>1, WriteBytesAtIsWrite, WriteRefines DEF HostWriteBytesAt
<1>5. ASSUME NEW dst_ptr \in I32, NEW src_ptr \in I32, NEW len \in I32,
             GuestWriteBytes(dst_ptr, src_ptr, len)
      PROVE  Abstract!Next \/ UNCHANGED Abstract!vars
  BY <1>5, EnvWriteBytesIsWrite, WriteRefines DEF GuestWriteBytes
<1>6. ASSUME NEW src_ptr \in I32, NEW dst_ptr \in I32, NEW len \in I32,
             GuestReadBytes(src_ptr, dst_ptr, len)
      PROVE  UNCHANGED Abstract!vars
  <2>1. env_read_bytes(mm, linear, exported, src_ptr, dst_ptr, len).mm = mm
    BY <1>1, EnvReadBytesResult DEF TypeOK
  <2>2. QED
    BY <1>6, <2>1 DEF GuestReadBytes, Outcome, Abstract!vars
<1>7. ASSUME UNCHANGED <<mm, fetched>>
      PROVE  UNCHANGED Abstract!vars
  BY <1>7 DEF Abstract!vars
<1>8. ASSUME NEW pointer \in I32, GuestReturn(pointer)
      PROVE  Abstract!Next \/ UNCHANGED Abstract!vars
  <2> DEFINE ptr == i32_as_u32(pointer)
             r == read_data(mm, ptr)
  <2>1. ptr \in Nat
    BY CastTypes, WidthAssumption DEF U32
  <2>2. /\ mm' = mm
        /\ fetched' = IF r.ok THEN r.val ELSE fetched
    BY <1>8 DEF GuestReturn
  <2>3. /\ r.ok \in BOOLEAN
        /\ r.ok <=> ptr \in DOMAIN mm.map
        /\ r.ok => r.val = slice(mm.memory, ptr, mm.map[ptr])
    BY <1>1, <2>1, ReadDataResult
  <2> HIDE DEF ptr, r
  <2>4. CASE r.ok
    <3>1. ptr \in DOMAIN Contents(mm) /\ r.val = Contents(mm)[ptr]
      BY <2>3, <2>4 DEF Contents
    <3>2. Abstract!Fetch(ptr)
      BY <2>2, <2>4, <3>1 DEF Abstract!Fetch
    <3>3. QED
      BY <3>1, <3>2 DEF Abstract!Next
  <2>5. CASE ~r.ok
    BY <2>2, <2>5 DEF Abstract!vars
  <2>6. QED
    BY <2>3, <2>4, <2>5
<1>9. ASSUME NewStore
      PROVE  Abstract!Next
  <2>1. DOMAIN mm'.map = {} /\ fetched' = << >>
    BY <1>9, FromLimitsWellFormed DEF NewStore
  <2>2. Contents(mm)' = [p \in {} |-> << >>]
    BY <2>1 DEF Contents
  <2>3. QED
    BY <2>1, <2>2 DEF Abstract!Next, Abstract!Clear
<1>10. Instantiate \/ GuestGrow \/ GuestTrap
         \/ (\E i \in DOMAIN linear, b \in Byte : GuestStore(i, b)) \/ UNCHANGED vars
       => UNCHANGED <<mm, fetched>>
  BY DEF Instantiate, GuestGrow, GuestTrap, GuestStore, vars
<1>11. QED
  BY <1>2, <1>3, <1>4, <1>5, <1>6, <1>7, <1>8, <1>9, <1>10 DEF Next

\* The memory manager, driven by any host and any guest, implements the store
\* of separate byte strings.
THEOREM Refinement == Spec => ImplementsObjectStore
<1>1. Init => Abstract!Init
  <2>1. ASSUME Init PROVE Abstract!Init
    <3>1. DOMAIN mm.map = {} /\ fetched = << >>
      BY <2>1, FromLimitsWellFormed DEF Init
    <3>2. Contents(mm) = [p \in {} |-> << >>]
      BY <3>1 DEF Contents
    <3>3. QED
      BY <3>1, <3>2 DEF Abstract!Init
  <2>2. QED
    BY <2>1
<1>2. QED
  BY <1>1, StepRefines, Invariance, PTL
     DEF Spec, ImplementsObjectStore, Abstract!Spec

=============================================================================
