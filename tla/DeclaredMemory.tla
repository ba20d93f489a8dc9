---------------------------- MODULE DeclaredMemory ----------------------------
(***************************************************************************)
(* declared_min_memory_bytes (src/src/runtime/config.rs): the minimum      *)
(* linear memory a WebAssembly binary declares, read from its bytes.       *)
(*                                                                         *)
(* A binary is a header and sections; a section is an id, the length of    *)
(* its body and the body.  Numbers are LEB128: groups of bits, low ones    *)
(* first, each in a byte whose top bit says that another follows.          *)
(* A position is an offset, so that bytes[pos + 1] is the byte at pos.     *)
(***************************************************************************)
EXTENDS Integers, Sequences, SequencesExt

CONSTANTS
  GroupValues,      \* 2^7: the values of a group
  MaxGroups,        \* 5: the most bytes a number may take
  WordValues,       \* 2^32: the values of a u32
  Header,           \* magic and version
  MemorySection,    \* 5
  WASM_PAGE_BYTES

ASSUME EncodingAssumption ==
  /\ GroupValues \in Nat /\ GroupValues >= 2
  /\ MaxGroups \in Nat \ {0}
  /\ WordValues \in Nat /\ WordValues >= GroupValues
  /\ Header \in Seq(Nat)
  /\ MemorySection \in Nat \ {0}
  /\ WASM_PAGE_BYTES \in Nat \ {0}

\* Option: None, or Some value and the position after it
None == [some |-> FALSE]
Some(val, pos) == [some |-> TRUE, val |-> val, pos |-> pos]

\* `opt?`, and what is done with the value
Try(opt, Then(_)) == IF opt.some THEN Then(opt) ELSE None

Follows(byte) == byte >= GroupValues

\* The number of groups of bits, each shifted by those before it, in a word that
\* drops what does not fit.
number(groups) ==
  LET unit[k \in 0..Len(groups)] == IF k = 0 THEN 1 ELSE unit[k - 1] * GroupValues
      sum[k \in 0..Len(groups)] == IF k = 0 THEN 0 ELSE sum[k - 1] + groups[k] * unit[k - 1]
  IN  sum[Len(groups)] % WordValues

\* read_uleb: the groups up to the first byte that is not followed.
read_uleb(bytes, pos) ==
  LET ends == {k \in 1..MaxGroups : /\ pos + k <= Len(bytes)
                                    /\ ~Follows(bytes[pos + k])
                                    /\ \A j \in 1..(k - 1) : Follows(bytes[pos + j])}
      end == CHOOSE k \in ends : TRUE
  IN  IF ends = {} THEN None
      ELSE Some(number([k \in 1..end |-> bytes[pos + k] % GroupValues]), pos + end)

larger(a, b) == IF a > b THEN a ELSE b

\* mutant of memory_entry: does not skip the declared maximum
memory_entry_no_max(body, max) ==
  Try(read_uleb(body, max.pos), LAMBDA flags :
  Try(read_uleb(body, flags.pos), LAMBDA min :
    Some(larger(max.val, min.val), min.pos)))

\* One entry {flags, min[, max]}: max is the largest minimum before it.
memory_entry(body, max) ==
  Try(read_uleb(body, max.pos), LAMBDA flags :
  Try(read_uleb(body, flags.pos), LAMBDA min :
  Try(IF flags.val % 2 = 1 THEN read_uleb(body, min.pos) ELSE min, LAMBDA end :
    Some(larger(max.val, min.val), end.pos))))

\* The entries of a memory section, after sections with a largest minimum of max.
memory_section(body, max) ==
  Try(read_uleb(body, 0), LAMBDA count :
    LET seen[i \in 0..count.val] ==
          IF i = 0 THEN Some(max, count.pos)
          ELSE Try(seen[i - 1], LAMBDA s : memory_entry(body, s))
    IN  seen[count.val])

\* mutant of section_body: a body cut short is taken as far as it goes
section_body_cut(wasm, pos, len) ==
  Some(SubSeq(wasm, pos + 1, IF pos + len <= Len(wasm) THEN pos + len ELSE Len(wasm)), pos + len)

\* The body of len bytes at pos, if it is all there.
section_body(wasm, pos, len) ==
  IF pos + len <= Len(wasm) THEN Some(SubSeq(wasm, pos + 1, pos + len), pos + len) ELSE None

\* One section: seen is the largest minimum before it, and its position.
section(wasm, seen) ==
  Try(read_uleb(wasm, seen.pos + 1), LAMBDA len :
  Try(section_body(wasm, len.pos, len.val), LAMBDA body :
  Try(IF wasm[seen.pos + 1] = MemorySection THEN memory_section(body.val, seen.val) ELSE seen,
      LAMBDA max :
    Some(max.val, body.pos))))

\* The largest minimum of all sections, in pages: a section has at least a byte,
\* so the loop has ended after as many rounds as there are bytes.
declared_pages(wasm) ==
  LET seen[k \in 0..Len(wasm)] ==
        IF k = 0 THEN Some(0, Len(Header))
        ELSE Try(seen[k - 1], LAMBDA s : IF s.pos < Len(wasm) THEN section(wasm, s) ELSE s)
  IN  IF IsPrefix(Header, wasm) THEN seen[Len(wasm)] ELSE None

\* The product cannot reach u64::MAX: it is below 2^48.
declared_min_memory_bytes(wasm) ==
  Try(declared_pages(wasm), LAMBDA pages : Some(pages.val * WASM_PAGE_BYTES, 0))

=============================================================================
