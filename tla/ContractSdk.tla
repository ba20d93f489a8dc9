----------------------------- MODULE ContractSdk -----------------------------
(***************************************************************************)
(* The SDK linked into a contract (src/src/lib.rs): the borsh encoding of  *)
(* what crosses the boundary, and the reads and stores through the host's  *)
(* `env` imports.                                                          *)
(*                                                                         *)
(* A byte is a cell <<tag, value, position>>, so bytes say what they       *)
(* encode and decoding can fail.                                           *)
(***************************************************************************)
EXTENDS MemoryManager, Contract

CONSTANTS
  Size,           \* length in bytes of a document
  MAX_DATA_SIZE   \* the most the guest reads from the host at once

ASSUME SdkAssumption ==
  /\ Size \in [Doc -> Nat \ {0}]
  /\ MAX_DATA_SIZE \in Nat

U32_BYTES == 4

(***************************************************************************)
(* Borsh: a u32 length, then the bytes; a bool is one byte; a struct is    *)
(* its fields in order.                                                    *)
(***************************************************************************)

len_bytes(n) == [i \in 1..U32_BYTES |-> <<"len", n, i>>]

json_bytes(doc) == [i \in 1..Size[doc] |-> <<"json", doc, i>>]

borsh_data(doc) == len_bytes(Size[doc]) \o json_bytes(doc)

borsh_text(text) == len_bytes(Len(text)) \o [i \in 1..Len(text) |-> <<"text", text[i], i>>]

borsh_check(data) == << <<"bool", data.success, 0>> >> \o borsh_text(data.error)

borsh_result(data) == borsh_data(data.final_state) \o borsh_check(data)

\* Decoding succeeds on exactly the bytes an encoding produces.
deserialize(bytes) ==
  IF \E d \in Doc : bytes = borsh_data(d)
    THEN CHOOSE d \in Doc : bytes = borsh_data(d)
    ELSE Fails

\* ContractInitCheckData::try_from_slice
decode_check(bytes) ==
  LET flag == U32_BYTES + 1
      data == [success |-> bytes[1][2],
               error |-> [i \in 1..(Len(bytes) - flag) |-> bytes[flag + i][2]]]
  IN  IF Len(bytes) >= flag /\ bytes[1][1] = "bool" /\ bytes = borsh_check(data)
        THEN data ELSE Fails

\* ContractResultData::try_from_slice
decode_result(bytes) ==
  LET flag == U32_BYTES + bytes[1][2] + 1
      text == flag + U32_BYTES
      data == [final_state |-> bytes[U32_BYTES + 1][2],
               success |-> bytes[flag][2],
               error |-> [i \in 1..(Len(bytes) - text) |-> bytes[text + i][2]]]
  IN  IF /\ Len(bytes) > U32_BYTES
         /\ bytes[1][1] = "len" /\ bytes[U32_BYTES + 1][1] = "json"
         /\ Len(bytes) >= text
         /\ bytes[flag][1] = "bool"
         /\ bytes = borsh_result(data)
        THEN data ELSE Fails

-----------------------------------------------------------------------------
(***************************************************************************)
(* Reading an argument.  kind is "ok", "err" (a message) or "trap".        *)
(***************************************************************************)

Answer(kind, val) == [kind |-> kind, val |-> val]

\* mutant of validate_host_len: refuses a length at the limit
validate_host_len_strict(len) ==
  IF len >= MAX_DATA_SIZE THEN "MemoryLimitExceeded"
  ELSE IF len < 0 THEN "Deserialization"
  ELSE "ok"

validate_host_len(len) ==
  IF len > MAX_DATA_SIZE THEN "MemoryLimitExceeded"
  ELSE IF len < 0 THEN "Deserialization"
  ELSE "ok"

\* The host fills a zeroed buffer of the guest.
get_from_context(mm, exported, pointer) ==
  LET len == env_pointer_len(mm, pointer)
      valid == validate_host_len(len)
      read == env_read_bytes(mm, zeroed(len), exported, pointer, 0, len)
  IN  IF valid # "ok" THEN Answer("err", valid)
      ELSE IF ~read.ok THEN Answer("trap", read.val)
      ELSE Answer("ok", read.val)

read_and_parse(mm, exported, pointer, parse, name) ==
  LET bytes == get_from_context(mm, exported, pointer)
      doc == deserialize(bytes.val)
  IN  IF bytes.kind = "trap" THEN bytes
      ELSE IF bytes.kind = "err" THEN Answer("err", CannotRead(name, bytes.val))
      ELSE IF doc = Fails THEN Answer("err", CannotDeserialize(name))
      ELSE IF parse[doc] = Fails THEN Answer("err", CannotParse(name))
      ELSE Answer("ok", parse[doc])

\* Bytes are cells of these kinds, over the documents in use and texts of up to
\* m fragments.
Cells(Fragments, m) ==
  {Zero}
    \cup {<<"len", n, i>> : n \in 0..I32Max, i \in 1..U32_BYTES}
    \cup {<<"bool", b, 0>> : b \in BOOLEAN}
    \cup (UNION {{<<"json", d, i>> : i \in 1..Size[d]} : d \in Doc})
    \cup {<<"text", fragment, i>> : fragment \in Fragments, i \in 1..m}

=============================================================================
