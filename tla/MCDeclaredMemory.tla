--------------------------- MODULE MCDeclaredMemory ---------------------------
(***************************************************************************)
(* Binaries for the parser, written section by section as the WebAssembly  *)
(* format lays them out, with numbers of three bits in one or two groups   *)
(* of two: as in the code, the last group has bits the word has not.       *)
(***************************************************************************)
EXTENDS DeclaredMemory, FiniteSets

CONSTANTS
  MaxSections,   \* sections of a binary
  MaxEntries,    \* entries of a memory section
  Mins           \* the minima that entries declare

\* The number of entries fits a group.
ASSUME WriterAssumption ==
  /\ MaxSections \in Nat
  /\ MaxEntries \in 0..(GroupValues - 1)
  /\ Mins \subseteq Nat

\* Magic and version.
MCHeader == <<0, 1>>

VARIABLES
  wasm,       \* the binary
  sections,   \* where it may be cut: the length so far -> its largest minimum
  overflow    \* whether a number in it does not fit the word

vars == <<wasm, sections, overflow>>

\* What is left of number v after k groups.
Rest(v, k) ==
  LET rest[i \in 0..MaxGroups] == IF i = 0 THEN v ELSE rest[i - 1] \div GroupValues
  IN  rest[k]

\* Number v as k groups.
encode(v, k) ==
  [i \in 1..k |-> (Rest(v, i - 1) % GroupValues) + (IF i < k THEN GroupValues ELSE 0)]

\* All encodings of v, the padded ones included.
Encodings(v) == {encode(v, k) : k \in {k \in 1..MaxGroups : Rest(v, k) = 0}}

Entry == [min : Mins, groups : 1..MaxGroups, bounded : BOOLEAN]

encode_entry(e) ==
  <<IF e.bounded THEN 1 ELSE 0>> \o encode(e.min, e.groups)
    \o (IF e.bounded THEN encode(e.min, 1) ELSE << >>)

Section(id, body, len) == <<id>> \o len \o body

Largest(S) == CHOOSE x \in S : \A y \in S : x >= y

Add(bytes, minima, overflows) ==
  /\ Cardinality(DOMAIN sections) <= MaxSections
  /\ wasm' = wasm \o bytes
  /\ sections' = [n \in DOMAIN sections \cup {Len(wasm')} |->
                    IF n = Len(wasm') THEN Largest(minima \cup {sections[Len(wasm)]})
                    ELSE sections[n]]
  /\ overflow' = (overflow \/ overflows)

Init ==
  /\ wasm = Header
  /\ sections = [n \in {Len(Header)} |-> 0]
  /\ overflow = FALSE

\* The body of a memory section.
encode_entries(n, entries) ==
  LET part[i \in 0..n] ==
        IF i = 0 THEN encode(n, 1) ELSE part[i - 1] \o encode_entry(entries[i])
  IN  part[n]

AddMemory ==
  \E n \in 0..MaxEntries : \E entries \in [1..n -> Entry] :
    LET body == encode_entries(n, entries)
        minima == {entries[i].min : i \in 1..n}
    IN  /\ \A i \in 1..n : Rest(entries[i].min, entries[i].groups) = 0
        /\ Len(body) < WordValues
        /\ \E len \in Encodings(Len(body)) :
             Add(Section(MemorySection, body, len), minima, \E m \in minima : m >= WordValues)

\* Another section, the bytes of which may look like a memory section.
AddOther ==
  \E body \in {<< >>, <<MemorySection>>, <<MemorySection, 1, 1, 0, 3>>} :
    /\ Len(body) < WordValues
    /\ \E len \in Encodings(Len(body)) : Add(Section(0, body, len), {}, FALSE)

Next == AddMemory \/ AddOther

Spec == Init /\ [][Next]_vars

-----------------------------------------------------------------------------

\* A binary in which every number fits its word is read as declaring the
\* largest minimum of all its memory entries, whatever its numbers are padded
\* to, whether entries have a maximum, and in whichever section they are.  What
\* is read of one with a number that does not fit is no more than it declares,
\* so the gate refuses no binary for memory it does not declare
\* (declared_min_memory_bytes, read_uleb).
LargestIsRead ==
  LET declared == sections[Len(wasm)] * WASM_PAGE_BYTES
      read == declared_min_memory_bytes(wasm)
  IN  /\ ~overflow => read = Some(declared, 0)
      /\ read.some => read.val <= declared

\* What the comment on read_uleb says (config.rs:116): "`None` on truncation or
\* overflow".  A binary with a number that does not fit the word is not read.
OverflowIsNotRead == overflow => declared_min_memory_bytes(wasm) = None

\* A binary that is cut inside a section is not read at all, so the gate never
\* acts on a part of a memory section; cut between sections it is read as
\* what is left (the `?` of every read in declared_min_memory_bytes).
CutIsNotRead ==
  ~overflow =>
    \A n \in 0..Len(wasm) :
      declared_min_memory_bytes(SubSeq(wasm, 1, n)) =
        IF n \in DOMAIN sections THEN Some(sections[n] * WASM_PAGE_BYTES, 0) ELSE None

=============================================================================
