------------------------ MODULE ContractSession_proofs ------------------------
(***************************************************************************)
(* What crosses the boundary comes back: decoding undoes encoding, an      *)
(* input the host staged is what the guest reads, and a result the guest   *)
(* stored is what the host reads.                                          *)
(*                                                                         *)
(* From that, what a runtime does with every module, call, limits and      *)
(* fuel: the inputs it stages survive, the guest can read them, a result   *)
(* is never mistaken for an input, metrics agree with answers, and an      *)
(* answer that is not a RuntimeError is the verdict ContractCall states.   *)
(***************************************************************************)
EXTENDS ContractSession, MemoryManager_proofs, WellFoundedInduction, NaturalsInduction

(***************************************************************************)
(* Borsh.                                                                  *)
(***************************************************************************)

\* Concatenation of sequences given by their elements.
LEMMA ConcatFun ==
  ASSUME NEW a \in Nat, NEW b \in Nat, NEW f, NEW g,
         f = [i \in 1..a |-> f[i]], g = [i \in 1..b |-> g[i]]
  PROVE  /\ f \o g = [i \in 1..(a + b) |-> IF i <= a THEN f[i] ELSE g[i - a]]
         /\ Len(f \o g) = a + b
<1> DEFINE S == {f[i] : i \in 1..a} \cup {g[i] : i \in 1..b}
<1>1. f \in [1..a -> S] /\ g \in [1..b -> S]
  OBVIOUS
<1>2. f \in Seq(S) /\ Len(f) = a /\ g \in Seq(S) /\ Len(g) = b
  <2> HIDE DEF S
  <2> QED BY <1>1, FunIsSeq
<1> HIDE DEF S
<1>3. QED
  BY <1>2

\* The bytes of a document: its length, then its text.
LEMMA BorshData ==
  ASSUME NEW doc \in Doc
  PROVE  /\ Size[doc] \in Nat \ {0}
         /\ borsh_data(doc) =
              [i \in 1..(U32_BYTES + Size[doc]) |->
                 IF i <= U32_BYTES THEN <<"len", Size[doc], i>>
                 ELSE <<"json", doc, i - U32_BYTES>>]
         /\ Len(borsh_data(doc)) = U32_BYTES + Size[doc]
<1>1. Size[doc] \in Nat \ {0}
  BY SdkAssumption
<1> DEFINE f == len_bytes(Size[doc])
           g == json_bytes(doc)
<1>2. /\ f = [i \in 1..U32_BYTES |-> f[i]]
      /\ g = [i \in 1..Size[doc] |-> g[i]]
      /\ \A i \in 1..U32_BYTES : f[i] = <<"len", Size[doc], i>>
      /\ \A i \in 1..Size[doc] : g[i] = <<"json", doc, i>>
  BY DEF len_bytes, json_bytes
<1>3. U32_BYTES \in Nat
  BY DEF U32_BYTES
<1> HIDE DEF f, g
<1>4. /\ f \o g = [i \in 1..(U32_BYTES + Size[doc]) |->
                     IF i <= U32_BYTES THEN f[i] ELSE g[i - U32_BYTES]]
      /\ Len(f \o g) = U32_BYTES + Size[doc]
  BY <1>1, <1>2, <1>3, ConcatFun
<1>5. f \o g = [i \in 1..(U32_BYTES + Size[doc]) |->
                  IF i <= U32_BYTES THEN <<"len", Size[doc], i>>
                  ELSE <<"json", doc, i - U32_BYTES>>]
  <2>1. \A i \in 1..(U32_BYTES + Size[doc]) :
          /\ i <= U32_BYTES => f[i] = <<"len", Size[doc], i>>
          /\ ~(i <= U32_BYTES) => g[i - U32_BYTES] = <<"json", doc, i - U32_BYTES>>
    <3> TAKE i \in 1..(U32_BYTES + Size[doc])
    <3>1. i <= U32_BYTES => i \in 1..U32_BYTES
      BY <1>1, <1>3
    <3>2. ~(i <= U32_BYTES) => i - U32_BYTES \in 1..Size[doc]
      BY <1>1, <1>3
    <3>3. QED
      BY <1>2, <3>1, <3>2
  <2>2. QED
    BY <1>4, <2>1
<1>6. borsh_data(doc) = f \o g
  BY DEF borsh_data, f, g
<1>7. QED
  BY <1>1, <1>4, <1>5, <1>6

\* The bytes of a document start with its length, and name it.
LEMMA BorshDataHead ==
  ASSUME NEW doc \in Doc
  PROVE  /\ borsh_data(doc)[1] = <<"len", Size[doc], 1>>
         /\ borsh_data(doc)[U32_BYTES + 1] = <<"json", doc, 1>>
<1>1. PICK n \in Nat \ {0} : n = Size[doc]
  BY BorshData
<1>2. borsh_data(doc) =
        [i \in 1..(4 + n) |->
           IF i <= 4 THEN <<"len", n, i>> ELSE <<"json", doc, i - 4>>]
  BY <1>1, BorshData DEF U32_BYTES
<1>3. borsh_data(doc)[1] = <<"len", n, 1>>
  BY <1>2
<1>4. borsh_data(doc)[5] = <<"json", doc, 5 - 4>>
  <2>1. 5 \in 1..(4 + n) /\ ~(5 <= 4)
    OBVIOUS
  <2>2. QED
    BY <1>2, <2>1
<1>5. U32_BYTES + 1 = 5 /\ 5 - 4 = 1
  BY DEF U32_BYTES
<1>6. QED
  BY <1>1, <1>3, <1>4, <1>5, Zenon

\* The bytes of a document determine it.
LEMMA BorshDataInjective ==
  ASSUME NEW d \in Doc, NEW e \in Doc, borsh_data(d) = borsh_data(e)
  PROVE  d = e
<1>1. \A x \in Doc : borsh_data(x)[U32_BYTES + 1] = <<"json", x, 1>>
  BY BorshDataHead
<1>2. QED
  BY <1>1

\* What the guest deserializes is the document the host serialized.
LEMMA DeserializeData ==
  ASSUME NEW doc \in Doc
  PROVE  deserialize(borsh_data(doc)) = doc
<1> DEFINE P(d) == d \in Doc /\ borsh_data(doc) = borsh_data(d)
<1>1. P(CHOOSE d : P(d))
  BY Zenon
<1>2. QED
  BY BorshDataInjective DEF deserialize

-----------------------------------------------------------------------------
(***************************************************************************)
(* Answers.                                                                *)
(***************************************************************************)

\* A text is its number of fragments, then the fragments.
LEMMA BorshText ==
  ASSUME NEW S, NEW text \in Seq(S)
  PROVE  /\ borsh_text(text) =
              [i \in 1..(U32_BYTES + Len(text)) |->
                 IF i <= U32_BYTES THEN <<"len", Len(text), i>>
                 ELSE <<"text", text[i - U32_BYTES], i - U32_BYTES>>]
         /\ Len(borsh_text(text)) = U32_BYTES + Len(text)
<1> DEFINE f == len_bytes(Len(text))
           g == [i \in 1..Len(text) |-> <<"text", text[i], i>>]
<1>1. Len(text) \in Nat
  OBVIOUS
<1>2. /\ f = [i \in 1..U32_BYTES |-> f[i]]
      /\ g = [i \in 1..Len(text) |-> g[i]]
      /\ \A i \in 1..U32_BYTES : f[i] = <<"len", Len(text), i>>
      /\ \A i \in 1..Len(text) : g[i] = <<"text", text[i], i>>
  BY DEF len_bytes
<1>3. U32_BYTES \in Nat
  BY DEF U32_BYTES
<1>4. borsh_text(text) = f \o g
  BY DEF borsh_text
<1> HIDE DEF f, g
<1>5. /\ f \o g = [i \in 1..(U32_BYTES + Len(text)) |->
                     IF i <= U32_BYTES THEN f[i] ELSE g[i - U32_BYTES]]
      /\ Len(f \o g) = U32_BYTES + Len(text)
  BY <1>1, <1>2, <1>3, ConcatFun
<1>6. \A i \in 1..(U32_BYTES + Len(text)) :
        /\ i <= U32_BYTES => f[i] = <<"len", Len(text), i>>
        /\ ~(i <= U32_BYTES) =>
             g[i - U32_BYTES] = <<"text", text[i - U32_BYTES], i - U32_BYTES>>
  <2> TAKE i \in 1..(U32_BYTES + Len(text))
  <2>1. i <= U32_BYTES => i \in 1..U32_BYTES
    BY <1>1, <1>3
  <2>2. ~(i <= U32_BYTES) => i - U32_BYTES \in 1..Len(text)
    BY <1>1, <1>3
  <2>3. QED
    BY <1>2, <2>1, <2>2
<1>7. QED
  BY <1>4, <1>5, <1>6

\* The bytes of an init check: its flag, then its error.
CheckBytes(success, error) ==
  [i \in 1..(1 + U32_BYTES + Len(error)) |->
     IF i = 1 THEN <<"bool", success, 0>>
     ELSE IF i <= 1 + U32_BYTES THEN <<"len", Len(error), i - 1>>
     ELSE <<"text", error[i - 1 - U32_BYTES], i - 1 - U32_BYTES>>]

\* An init check is encoded as CheckBytes.
LEMMA BorshCheck ==
  ASSUME NEW S, NEW success, NEW error \in Seq(S), NEW data,
         data.success = success, data.error = error
  PROVE  /\ borsh_check(data) = CheckBytes(success, error)
         /\ Len(borsh_check(data)) = 1 + U32_BYTES + Len(error)
<1> DEFINE f == << <<"bool", success, 0>> >>
           g == borsh_text(error)
<1>1. Len(error) \in Nat /\ U32_BYTES \in Nat
  BY DEF U32_BYTES
<1>2. /\ f = [i \in 1..1 |-> f[i]]
      /\ f[1] = <<"bool", success, 0>>
  OBVIOUS
<1>3. g = [i \in 1..(U32_BYTES + Len(error)) |->
             IF i <= U32_BYTES THEN <<"len", Len(error), i>>
             ELSE <<"text", error[i - U32_BYTES], i - U32_BYTES>>]
  BY BorshText
<1>4. borsh_check(data) = f \o g
  BY DEF borsh_check
<1> HIDE DEF f, g
<1>5. /\ U32_BYTES + Len(error) \in Nat
      /\ g = [i \in 1..(U32_BYTES + Len(error)) |-> g[i]]
  BY <1>1, <1>3
<1>6. /\ f \o g = [i \in 1..(1 + (U32_BYTES + Len(error))) |->
                     IF i <= 1 THEN f[i] ELSE g[i - 1]]
      /\ Len(f \o g) = 1 + (U32_BYTES + Len(error))
  BY <1>2, <1>5, ConcatFun
<1>7. \A i \in 1..(1 + U32_BYTES + Len(error)) :
        /\ i <= 1 => i = 1
        /\ ~(i <= 1) => g[i - 1] = IF i <= 1 + U32_BYTES THEN <<"len", Len(error), i - 1>>
             ELSE <<"text", error[i - 1 - U32_BYTES], i - 1 - U32_BYTES>>
  <2> TAKE i \in 1..(1 + U32_BYTES + Len(error))
  <2>1. ~(i <= 1) => i - 1 \in 1..(U32_BYTES + Len(error))
    BY <1>1
  <2>2. i <= 1 + U32_BYTES <=> i - 1 <= U32_BYTES
    BY <1>1
  <2>3. QED
    BY <1>1, <1>3, <2>1, <2>2
<1>8. 1 + (U32_BYTES + Len(error)) = 1 + U32_BYTES + Len(error)
  BY <1>1
<1>9. \A i \in 1..(1 + U32_BYTES + Len(error)) :
        (IF i <= 1 THEN f[i] ELSE g[i - 1]) =
          IF i = 1 THEN <<"bool", success, 0>>
          ELSE IF i <= 1 + U32_BYTES THEN <<"len", Len(error), i - 1>>
          ELSE <<"text", error[i - 1 - U32_BYTES], i - 1 - U32_BYTES>>
  <2> TAKE i \in 1..(1 + U32_BYTES + Len(error))
  <2>1. CASE i = 1
    BY <2>1, <1>2
  <2>2. CASE i # 1
    BY <2>2, <1>1, <1>7
  <2>3. QED
    BY <2>1, <2>2
<1>10. QED
  BY <1>4, <1>6, <1>8, <1>9 DEF CheckBytes

\* What the host decodes of an init check is what the guest encoded.
LEMMA DecodeCheck ==
  ASSUME NEW S, NEW success, NEW error \in Seq(S), NEW data,
         data.success = success, data.error = error
  PROVE  decode_check(borsh_check(data)) = [success |-> success, error |-> error]
<1> DEFINE bytes == borsh_check(data)
           n == 1 + U32_BYTES + Len(error)
           decoded == [success |-> bytes[1][2],
                       error |-> [i \in 1..(Len(bytes) - (U32_BYTES + 1)) |->
                                    bytes[U32_BYTES + 1 + i][2]]]
           check == [success |-> success, error |-> error]
<1>1. Len(error) \in Nat /\ U32_BYTES = 4
  BY DEF U32_BYTES
<1>2. bytes = CheckBytes(success, error) /\ Len(bytes) = n
  <2>1. bytes = CheckBytes(success, error)
    BY BorshCheck
  <2>2. QED
    BY BorshCheck
<1>3. borsh_check(check) = bytes
  <2>1. check.success = success /\ check.error = error
    OBVIOUS
  <2> HIDE DEF check
  <2>2. borsh_check(check) = CheckBytes(success, error)
    BY <2>1, BorshCheck
  <2>3. QED
    BY <1>2, <2>2
<1>4. bytes[1] = <<"bool", success, 0>>
  BY <1>1, <1>2 DEF CheckBytes
<1>5. ASSUME NEW i \in 1..Len(error)
      PROVE  bytes[U32_BYTES + 1 + i] = <<"text", error[i], i>>
  <2>1. PICK j \in 1..n : /\ j = U32_BYTES + 1 + i
                          /\ j # 1
                          /\ ~(j <= 1 + U32_BYTES)
                          /\ j - 1 - U32_BYTES = i
    BY <1>1
  <2>2. CheckBytes(success, error)[j] = <<"text", error[j - 1 - U32_BYTES], j - 1 - U32_BYTES>>
    BY <2>1 DEF CheckBytes
  <2> HIDE DEF bytes, n
  <2>3. QED
    BY <1>2, <2>1, <2>2
<1>6. [i \in 1..(Len(bytes) - (U32_BYTES + 1)) |-> bytes[U32_BYTES + 1 + i][2]] = error
  <2>1. Len(bytes) - (U32_BYTES + 1) = Len(error)
    BY <1>1, <1>2
  <2>2. \A i \in 1..Len(error) : bytes[U32_BYTES + 1 + i][2] = error[i]
    BY <1>5
  <2> HIDE DEF bytes, n
  <2>3. error = [i \in 1..Len(error) |-> error[i]]
    OBVIOUS
  <2>4. QED
    BY <2>1, <2>2, <2>3
<1>7. decoded = check
  <2>1. bytes[1][2] = success
    BY <1>4
  <2> HIDE DEF bytes
  <2>2. QED
    BY <1>6, <2>1
<1>8. Len(bytes) >= U32_BYTES + 1 /\ bytes[1][1] = "bool"
  BY <1>1, <1>2, <1>4
<1>9. decode_check(bytes) =
        IF Len(bytes) >= U32_BYTES + 1 /\ bytes[1][1] = "bool" /\ bytes = borsh_check(decoded)
          THEN decoded ELSE Fails
  BY DEF decode_check
<1> HIDE DEF bytes, decoded, check
<1>10. QED
  BY <1>3, <1>7, <1>8, <1>9 DEF bytes, check

\* The bytes of a result: its document, then its flag and its error.
LEMMA BorshResult ==
  ASSUME NEW S, NEW doc \in Doc, NEW success, NEW error \in Seq(S), NEW data,
         data.final_state = doc, data.success = success, data.error = error,
         NEW n \in Nat, n = U32_BYTES + Size[doc],
         NEW m \in Nat, m = 1 + U32_BYTES + Len(error)
  PROVE  /\ borsh_result(data) = borsh_data(doc) \o CheckBytes(success, error)
         /\ Len(borsh_data(doc) \o CheckBytes(success, error)) = n + m
         /\ \A i \in 1..n : borsh_result(data)[i] = borsh_data(doc)[i]
         /\ \A i \in 1..m : borsh_result(data)[n + i] = CheckBytes(success, error)[i]
<1> DEFINE f == borsh_data(doc)
           g == CheckBytes(success, error)
<1>1. n \in Nat /\ m \in Nat
  OBVIOUS
<1>2. f = [i \in 1..n |-> f[i]]
  BY BorshData
<1>3. g = [i \in 1..m |-> g[i]]
  BY DEF CheckBytes
<1>4. borsh_result(data) = f \o g
  <2>1. borsh_check(data) = g
    BY BorshCheck
  <2>2. QED
    BY <2>1 DEF borsh_result
<1> HIDE DEF f, g
<1>5. /\ f \o g = [i \in 1..(n + m) |-> IF i <= n THEN f[i] ELSE g[i - n]]
      /\ Len(f \o g) = n + m
  BY <1>1, <1>2, <1>3, ConcatFun
<1>7. \A i \in 1..n : (f \o g)[i] = f[i]
  BY <1>1, <1>5
<1>8. ASSUME NEW i \in 1..m
      PROVE  (f \o g)[n + i] = g[i]
  <2>1. PICK j \in 1..(n + m) : j = n + i /\ ~(j <= n) /\ j - n = i
    BY <1>1
  <2>2. (f \o g)[j] = g[j - n]
    BY <1>5, <2>1
  <2>3. QED
    BY <2>1, <2>2
<1>9. QED
  BY <1>1, <1>4, <1>5, <1>7, <1>8 DEF f, g

\* What the host decodes of a result is what the guest encoded.
LEMMA DecodeResult ==
  ASSUME NEW S, NEW doc \in Doc, NEW success, NEW error \in Seq(S), NEW data,
         data.final_state = doc, data.success = success, data.error = error
  PROVE  decode_result(borsh_result(data)) =
           [final_state |-> doc, success |-> success, error |-> error]
<1> DEFINE bytes == borsh_result(data)
           flag == U32_BYTES + bytes[1][2] + 1
           text == flag + U32_BYTES
           decoded == [final_state |-> bytes[U32_BYTES + 1][2],
                       success |-> bytes[flag][2],
                       error |-> [i \in 1..(Len(bytes) - text) |-> bytes[text + i][2]]]
           answer == [final_state |-> doc, success |-> success, error |-> error]
<1> PICK n \in Nat : n = U32_BYTES + Size[doc]
  BY BorshData DEF U32_BYTES
<1> PICK m \in Nat : m = 1 + U32_BYTES + Len(error)
  BY DEF U32_BYTES
<1>1. /\ U32_BYTES = 4
      /\ Size[doc] \in Nat /\ n = 4 + Size[doc] /\ n >= 5
      /\ Len(error) \in Nat /\ m = 5 + Len(error)
  BY BorshData DEF U32_BYTES
<1>2. Len(bytes) = n + m
  <2>1. bytes = borsh_data(doc) \o CheckBytes(success, error)
    BY BorshResult
  <2>2. Len(borsh_data(doc) \o CheckBytes(success, error)) = n + m
    BY BorshResult
  <2> HIDE DEF bytes
  <2>3. QED
    BY <2>1, <2>2
<1>3. borsh_result(answer) = bytes
  <2>1. /\ answer.final_state = doc
        /\ answer.success = success
        /\ answer.error = error
    OBVIOUS
  <2> HIDE DEF answer
  <2>2. borsh_result(answer) = borsh_data(doc) \o CheckBytes(success, error)
    <3>1. borsh_check(answer) = CheckBytes(success, error)
      BY <2>1, BorshCheck
    <3>2. QED
      BY <2>1, <3>1, Zenon DEF borsh_result
  <2>3. bytes = borsh_data(doc) \o CheckBytes(success, error)
    BY BorshResult
  <2>4. QED
    BY <2>2, <2>3, Zenon
<1>4. bytes[1] = <<"len", Size[doc], 1>> /\ bytes[U32_BYTES + 1] = <<"json", doc, 1>>
  <2>1. \A i \in 1..n : bytes[i] = borsh_data(doc)[i]
    BY BorshResult, SMTT(60)
  <2>2. /\ borsh_data(doc)[1] = <<"len", Size[doc], 1>>
        /\ borsh_data(doc)[U32_BYTES + 1] = <<"json", doc, 1>>
    BY BorshDataHead
  <2> HIDE DEF bytes
  <2>3. QED
    BY <1>1, <2>1, <2>2
<1>5. /\ bytes[n + 1] = <<"bool", success, 0>>
      /\ \A i \in 1..Len(error) : bytes[n + 1 + U32_BYTES + i] = <<"text", error[i], i>>
  <2>1. \A i \in 1..m : bytes[n + i] = CheckBytes(success, error)[i]
    <3>1. n \in Nat /\ m \in Nat /\ Len(borsh_data(doc)) = n
      BY BorshData DEF U32_BYTES
    <3>2. QED
      BY <3>1, BorshResult, SMTT(60)
  <2>2. CheckBytes(success, error)[1] = <<"bool", success, 0>>
    BY <1>1 DEF CheckBytes
  <2> HIDE DEF bytes
  <2>3. ASSUME NEW i \in 1..Len(error)
        PROVE  bytes[n + 1 + U32_BYTES + i] = <<"text", error[i], i>>
    <3>1. PICK j \in 1..m : /\ j = U32_BYTES + 1 + i
                            /\ j # 1
                            /\ ~(j <= 1 + U32_BYTES)
                            /\ j - 1 - U32_BYTES = i
                            /\ n + j = n + 1 + U32_BYTES + i
      BY <1>1, SMTT(30)
    <3>2. CheckBytes(success, error)[j] =
            <<"text", error[j - 1 - U32_BYTES], j - 1 - U32_BYTES>>
      BY <1>1, <3>1 DEF CheckBytes
    <3>3. QED
      BY <2>1, <3>1, <3>2
  <2>4. QED
    BY <1>1, <2>1, <2>2, <2>3, SMTT(30)
<1> HIDE DEF bytes
<1>6. bytes[1][2] = Size[doc] /\ bytes[1][1] = "len"
  BY <1>4
<1>7. flag = n + 1 /\ text = n + 1 + U32_BYTES /\ Len(bytes) - text = Len(error)
  BY <1>1, <1>2, <1>6, SMTT(30)
<1>8. [i \in 1..(Len(bytes) - text) |-> bytes[text + i][2]] = error
  <2> HIDE DEF text
  <2>1. \A i \in 1..Len(error) : bytes[text + i][2] = error[i]
    <3>1. ASSUME NEW i \in 1..Len(error)
          PROVE  bytes[text + i][2] = error[i]
      <4>1. bytes[text + i] = <<"text", error[i], i>>
        BY <1>5, <1>7, Zenon
      <4>2. QED
        BY <4>1
    <3>2. QED
      BY <3>1, Zenon
  <2>2. error = [i \in 1..Len(error) |-> error[i]]
    OBVIOUS
  <2>3. QED
    BY <1>7, <2>1, <2>2
<1>9. decoded = answer
  <2>1. bytes[U32_BYTES + 1][2] = doc
    BY <1>4
  <2>2. bytes[flag][2] = success
    BY <1>5, <1>7
  <2>3. QED
    BY <1>8, <2>1, <2>2, Zenon
<1>10. /\ Len(bytes) > U32_BYTES
       /\ bytes[U32_BYTES + 1][1] = "json"
       /\ Len(bytes) >= text
       /\ bytes[flag][1] = "bool"
  <2>1. Len(bytes) > U32_BYTES /\ Len(bytes) >= text
    <3>1. PICK l : l = Len(bytes)
      OBVIOUS
    <3>2. PICK t : t = text
      OBVIOUS
    <3>3. PICK k \in Nat : k = Len(error)
      BY <1>1, Zenon
    <3>4. PICK u : u = U32_BYTES
      OBVIOUS
    <3>5. l = n + m /\ t = n + 1 + u
      BY <1>2, <1>7, <3>1, <3>2, <3>4, Zenon
    <3>6. u = 4 /\ m = 5 + k
      BY <1>1, <3>3, <3>4, Zenon
    <3>7. l > u /\ l >= t
      BY <3>5, <3>6
    <3>8. QED
      BY <3>1, <3>2, <3>4, <3>7, Zenon
  <2>2. bytes[U32_BYTES + 1][1] = "json"
    BY <1>4
  <2>3. bytes[flag][1] = "bool"
    <3>1. bytes[flag] = <<"bool", success, 0>>
      BY <1>5, <1>7, Zenon
    <3> HIDE DEF flag
    <3>2. QED
      BY <3>1
  <2>4. QED
    BY <2>1, <2>2, <2>3, Zenon
<1>11. decode_result(bytes) =
         IF /\ Len(bytes) > U32_BYTES
            /\ bytes[1][1] = "len" /\ bytes[U32_BYTES + 1][1] = "json"
            /\ Len(bytes) >= text
            /\ bytes[flag][1] = "bool"
            /\ bytes = borsh_result(decoded)
           THEN decoded ELSE Fails
  BY DEF decode_result
<1> HIDE DEF flag, text, decoded, answer
<1>12. QED
  BY <1>3, <1>6, <1>9, <1>10, <1>11 DEF bytes, answer

-----------------------------------------------------------------------------
(***************************************************************************)
(* Reading an argument.                                                    *)
(***************************************************************************)

\* A tracked pointer is an offset every cast leaves alone, and its object lies
\* inside the caps.
LEMMA TrackedPointer ==
  ASSUME NEW m, WellFormed(m), NEW p \in DOMAIN m.map
  PROVE  /\ p \in 0..I32Max
         /\ p \in U32 /\ p \in I32
         /\ u32_as_i32(p) = p
         /\ i32_as_u32(p) = p
         /\ i32_as_usize(p) = p
         /\ m.map[p] \in Nat
         /\ m.map[p] > 0
         /\ m.map[p] <= m.max_single_alloc
         /\ m.map[p] <= I32Max
         /\ p + m.map[p] <= Len(m.memory)
         /\ Len(m.memory) \in Nat
         /\ Len(m.memory) <= I32Max
         /\ Len(m.memory) <= UsizeMax
<1>1. /\ p \in Nat
      /\ m.map[p] \in Nat
      /\ m.map[p] > 0
      /\ m.map[p] <= m.max_single_alloc
      /\ p + m.map[p] <= Len(m.memory)
      /\ Len(m.memory) \in Nat
      /\ Len(m.memory) <= m.max_total_memory
      /\ m.max_total_memory \in 0..I32Max
  BY DEF WellFormed, ManagerType, Tiled, Capped
<1>2. /\ p \in 0..I32Max
      /\ m.map[p] <= I32Max
      /\ Len(m.memory) <= I32Max
      /\ Len(m.memory) <= UsizeMax
  BY <1>1, WidthAssumption
<1>3. /\ p \in U32 /\ p \in I32
      /\ u32_as_i32(p) = p
      /\ i32_as_u32(p) = p
      /\ i32_as_usize(p) = p
  BY <1>2, WidthAssumption DEF U32, I32, u32_as_i32, i32_as_u32, i32_as_usize
<1>4. QED
  BY <1>1, <1>2, <1>3

\* Filling a buffer with bytes of its length leaves the bytes.
LEMMA CopyAll ==
  ASSUME NEW n \in Nat, NEW s \in Seq(Byte), Len(s) = n
  PROVE  copy_from_slice(zeroed(n), 0, s) = s
<1>1. zeroed(n) \in [1..n -> Byte]
  BY ByteAssumption DEF zeroed
<1>2. zeroed(n) \in Seq(Byte) /\ Len(zeroed(n)) = n
  <2> DEFINE z == zeroed(n)
  <2>1. z \in [1..n -> Byte]
    BY <1>1
  <2> HIDE DEF z
  <2>2. z \in Seq(Byte) /\ Len(z) = n
    BY <2>1, FunIsSeq
  <2>3. QED
    BY <2>2 DEF z
<1>3. /\ copy_from_slice(zeroed(n), 0, s) \in Seq(Byte)
      /\ Len(copy_from_slice(zeroed(n), 0, s)) = n
      /\ \A i \in 1..n : copy_from_slice(zeroed(n), 0, s)[i] =
           IF 0 < i /\ i <= 0 + Len(s) THEN s[i - 0] ELSE zeroed(n)[i]
  BY <1>2, CopySeq
<1> DEFINE c == copy_from_slice(zeroed(n), 0, s)
<1> HIDE DEF c
<1>4. c \in Seq(Byte) /\ Len(c) = n /\ \A i \in 1..n : c[i] = s[i]
  BY <1>3 DEF c
<1>5. c = s
  BY <1>4
<1>6. QED
  BY <1>5 DEF c

\* The guest gets the bytes of a tracked pointer whole, unless its module
\* exports no memory to put them in: the host's caps and the guest's read limit
\* refuse nothing that was allocated.
LEMMA GetFromContext ==
  ASSUME NEW m, WellFormed(m), NEW exported \in BOOLEAN, NEW p \in DOMAIN m.map,
         m.max_single_alloc <= MAX_DATA_SIZE
  PROVE  get_from_context(m, exported, u32_as_i32(p)) =
           IF exported THEN Answer("ok", Contents(m)[p]) ELSE Answer("trap", "LinkerError")
<1> DEFINE len == m.map[p]
           bytes == slice(m.memory, p, len)
           read == env_read_bytes(m, zeroed(len), exported, p, 0, len)
<1>1. /\ p \in 0..I32Max
      /\ p \in I32
      /\ u32_as_i32(p) = p
      /\ i32_as_usize(p) = p
      /\ len \in Nat
      /\ len > 0
      /\ len <= m.max_single_alloc
      /\ p + len <= Len(m.memory)
      /\ Len(m.memory) \in Nat
      /\ Len(m.memory) <= UsizeMax
  BY TrackedPointer
<1>2. env_pointer_len(m, p) = len
  BY <1>1, EnvPointerLenResult
<1>3. validate_host_len(len) = "ok"
  <2>1. m.max_single_alloc \in Nat
    BY DEF WellFormed, ManagerType
  <2>2. QED
    BY <1>1, <2>1, SdkAssumption DEF validate_host_len
<1>4. Contents(m)[p] = bytes /\ bytes \in Seq(Byte) /\ Len(bytes) = len
  BY ContentsType
<1>5. read = IF exported THEN Ok(m, bytes) ELSE Err(m, "LinkerError")
  <2>1. checked_guest_len(m, len) = Ok(m, len)
    <3>1. m.max_single_alloc \in Nat
      BY DEF WellFormed, ManagerType
    <3>2. QED
      BY <1>1, <3>1 DEF checked_guest_len
  <2>2. read_bytes(m, p, len) = Ok(m, bytes)
    BY <1>1, WidthAssumption DEF read_bytes
  <2>3. i32_as_usize(0) = 0
    BY DEF i32_as_usize
  <2>4. InLinear(zeroed(len), 0, len)
    <3>1. Len(zeroed(len)) = len
      <4> HIDE DEF len
      <4>1. QED
        BY <1>1 DEF zeroed
    <3>2. QED
      BY <1>1, <3>1 DEF InLinear
  <2>5. copy_from_slice(zeroed(len), 0, bytes) = bytes
    <3> HIDE DEF len, bytes
    <3>1. QED
      BY <1>1, <1>4, CopyAll
  <2> HIDE DEF len, bytes
  <2>6. Ok(m, bytes).ok /\ Ok(m, bytes).val = bytes /\ Ok(m, len).ok
    BY DEF Ok
  <2>7. QED
    BY <1>1, <2>1, <2>2, <2>3, <2>4, <2>5, <2>6 DEF env_read_bytes
<1> HIDE DEF len, bytes, read
<1>6. get_from_context(m, exported, p) =
        IF ~read.ok THEN Answer("trap", read.val) ELSE Answer("ok", read.val)
  BY <1>2, <1>3 DEF get_from_context, read
<1>7. QED
  BY <1>1, <1>4, <1>5, <1>6 DEF Ok, Err

\* An argument the host staged reaches the callback as what it parses to.
LEMMA ReadAndParse ==
  ASSUME NEW m, WellFormed(m), NEW exported \in BOOLEAN, NEW p \in DOMAIN m.map,
         m.max_single_alloc <= MAX_DATA_SIZE, NEW doc \in Doc,
         Contents(m)[p] = borsh_data(doc), NEW parse, NEW name
  PROVE  read_and_parse(m, exported, u32_as_i32(p), parse, name) =
           IF ~exported THEN Answer("trap", "LinkerError")
           ELSE IF parse[doc] = Fails THEN Answer("err", CannotParse(name))
           ELSE Answer("ok", parse[doc])
<1> DEFINE bytes == get_from_context(m, exported, u32_as_i32(p))
<1>1. bytes = IF exported THEN Answer("ok", borsh_data(doc)) ELSE Answer("trap", "LinkerError")
  BY GetFromContext
<1>2. deserialize(borsh_data(doc)) = doc /\ doc # Fails
  BY DeserializeData, ContractAssumption
<1>3. read_and_parse(m, exported, u32_as_i32(p), parse, name) =
        IF bytes.kind = "trap" THEN bytes
        ELSE IF bytes.kind = "err" THEN Answer("err", CannotRead(name, bytes.val))
        ELSE IF deserialize(bytes.val) = Fails THEN Answer("err", CannotDeserialize(name))
        ELSE IF parse[deserialize(bytes.val)] = Fails THEN Answer("err", CannotParse(name))
        ELSE Answer("ok", parse[deserialize(bytes.val)])
  BY DEF read_and_parse
<1> HIDE DEF bytes
<1>4. QED
  BY <1>1, <1>2, <1>3 DEF Answer

-----------------------------------------------------------------------------
(***************************************************************************)
(* Writing.  A manager keeps its limits through every method.              *)
(***************************************************************************)

SameLimits(m, n) ==
  /\ n.max_single_alloc = m.max_single_alloc
  /\ n.max_total_memory = m.max_total_memory
  /\ n.store_limits = m.store_limits

\* n holds the objects of m as they were, and bytes at ptr.
Holds(n, m, ptr, bytes) ==
  /\ WellFormed(n)
  /\ SameLimits(m, n)
  /\ DOMAIN n.map = DOMAIN m.map
  /\ Len(n.memory) = Len(m.memory)
  /\ n.map[ptr] = m.map[ptr]
  /\ Contents(n)[ptr] = bytes
  /\ \A p \in DOMAIN m.map \ {ptr} : Contents(n)[p] = Contents(m)[p]

\* n is m with data over the bytes from start on, inside the object at ptr.
Overwritten(n, m, ptr, start, data) ==
  /\ WellFormed(n)
  /\ SameLimits(m, n)
  /\ n.map = m.map
  /\ n.memory = copy_from_slice(m.memory, start, data)
  /\ Len(n.memory) = Len(m.memory)
  /\ \A p \in DOMAIN m.map \ {ptr} : Contents(n)[p] = Contents(m)[p]

\* alloc succeeds exactly when the length fits both caps.
LEMMA AllocFits ==
  ASSUME NEW m, WellFormed(m), NEW len \in Nat
  PROVE  /\ alloc(m, len).ok <=> /\ len <= m.max_single_alloc
                                 /\ Len(m.memory) + len <= m.max_total_memory
         /\ SameLimits(m, alloc(m, len).mm)
<1>1. /\ ManagerType(m)
      /\ Len(m.memory) \in Nat
      /\ m.max_single_alloc \in Nat
      /\ m.max_total_memory \in 0..I32Max
  BY DEF WellFormed, ManagerType
<1> DEFINE n == Len(m.memory) + len
           g == resize(m, n)
           t == track(g, Len(m.memory), len)
<1>2. alloc(m, len) =
        IF len > m.max_single_alloc THEN Err(m, "AllocationTooLarge")
        ELSE IF n > UsizeMax THEN Err(m, "AllocationOverflow")
        ELSE IF n > m.max_total_memory THEN Err(m, "TotalMemoryExceeded")
        ELSE Ok(t, Len(m.memory))
  BY DEF alloc
<1>3. n \in Nat
  BY <1>1
<1>4. n > UsizeMax => n > m.max_total_memory
  BY <1>1, <1>3, WidthAssumption
<1>5. SameLimits(m, t)
  <2>1. ManagerType(g) /\ SameLimits(m, g)
    <3>1. ManagerType(g)
      BY <1>1, <1>3, ResizeFields
    <3>2. g.max_single_alloc = m.max_single_alloc
      BY <1>1, <1>3, ResizeFields
    <3>3. g.max_total_memory = m.max_total_memory
      BY <1>1, <1>3, ResizeFields
    <3>4. g.store_limits = m.store_limits
      BY <1>1, <1>3, ResizeFields
    <3>5. QED
      BY <3>1, <3>2, <3>3, <3>4 DEF SameLimits
  <2> HIDE DEF g
  <2>2. SameLimits(g, t)
    <3>1. t.max_single_alloc = g.max_single_alloc
      BY <1>1, <2>1, TrackFields
    <3>2. t.max_total_memory = g.max_total_memory
      BY <1>1, <2>1, TrackFields
    <3>3. t.store_limits = g.store_limits
      BY <1>1, <2>1, TrackFields
    <3>4. QED
      BY <3>1, <3>2, <3>3 DEF SameLimits
  <2>3. QED
    BY <2>1, <2>2 DEF SameLimits
<1> HIDE DEF t
<1>6. alloc(m, len).ok <=> len <= m.max_single_alloc /\ n <= m.max_total_memory
  BY <1>1, <1>2, <1>3, <1>4 DEF Ok, Err
<1>7. SameLimits(m, alloc(m, len).mm)
  BY <1>2, <1>5 DEF Ok, Err, SameLimits
<1>8. QED
  BY <1>6, <1>7

\* Bytes written over the start of an object, inside it, keep everything else.
LEMMA CopyKeeps ==
  ASSUME NEW m, WellFormed(m), NEW ptr \in DOMAIN m.map, NEW start \in Nat,
         NEW data \in Seq(Byte), ptr <= start, start + Len(data) <= ptr + m.map[ptr],
         NEW n, n = [m EXCEPT !.memory = copy_from_slice(m.memory, start, data)]
  PROVE  Overwritten(n, m, ptr, start, data)
<1>1. ManagerType(m) /\ m.memory \in Seq(Byte)
  BY DEF WellFormed, ManagerType
<1>2. n = [memory |-> copy_from_slice(m.memory, start, data), map |-> m.map,
           store_limits |-> m.store_limits, max_single_alloc |-> m.max_single_alloc,
           max_total_memory |-> m.max_total_memory]
  BY <1>1, MemoryExcept
<1>3. WellFormed(n)
  BY CopyWellFormed
<1>4. Len(copy_from_slice(m.memory, start, data)) = Len(m.memory)
  BY <1>1, CopySeq
<1>5. \A p \in DOMAIN m.map \ {ptr} : Contents(n)[p] = Contents(m)[p]
  BY CopyContents
<1>6. QED
  BY <1>2, <1>3, <1>4, <1>5 DEF SameLimits, Overwritten

\* An object overwritten from end to end is what was written.
LEMMA WriteWhole ==
  ASSUME NEW m, WellFormed(m), NEW ptr \in DOMAIN m.map, NEW data \in Seq(Byte),
         Len(data) = m.map[ptr],
         NEW n, n = [m EXCEPT !.memory = copy_from_slice(m.memory, ptr, data)]
  PROVE  Holds(n, m, ptr, data)
<1>1. /\ ptr \in Nat
      /\ m.map[ptr] \in Nat
      /\ ptr + m.map[ptr] <= Len(m.memory)
      /\ Len(m.memory) \in Nat
  BY TrackedPointer
<1>2. Overwritten(n, m, ptr, ptr, data)
  <2>1. ptr <= ptr /\ ptr + Len(data) <= ptr + m.map[ptr]
    BY <1>1
  <2>2. QED
    BY <1>1, <2>1, CopyKeeps
<1>3. /\ Contents(n)[ptr] = slice(n.memory, ptr, m.map[ptr])
      /\ Contents(n)[ptr] \in Seq(Byte)
      /\ Len(Contents(n)[ptr]) = m.map[ptr]
  <2>1. WellFormed(n) /\ n.map = m.map
    BY <1>2 DEF Overwritten
  <2>2. \A p \in DOMAIN n.map :
          /\ Contents(n)[p] = slice(n.memory, p, n.map[p])
          /\ Contents(n)[p] \in Seq(Byte)
          /\ Len(Contents(n)[p]) = n.map[p]
    BY <2>1, ContentsType
  <2>3. QED
    BY <2>1, <2>2
<1>4. ASSUME NEW i \in 1..Len(data)
      PROVE  Contents(n)[ptr][i] = data[i]
  <2>1. Contents(n)[ptr][i] = n.memory[ptr + i]
    BY <1>3 DEF slice
  <2>2. PICK j \in 1..Len(m.memory) : j = ptr + i /\ ptr < j /\ j <= ptr + Len(data) /\ j - ptr = i
    BY <1>1
  <2>3. n.memory[j] = data[j - ptr]
    <3>1. m.memory \in Seq(Byte)
      BY DEF WellFormed, ManagerType
    <3>2. n.memory = copy_from_slice(m.memory, ptr, data)
      BY <1>2 DEF Overwritten
    <3>3. copy_from_slice(m.memory, ptr, data)[j] =
            IF ptr < j /\ j <= ptr + Len(data) THEN data[j - ptr] ELSE m.memory[j]
      BY <1>1, <3>1, CopySeq
    <3>4. QED
      BY <2>2, <3>2, <3>3
  <2>4. QED
    BY <2>1, <2>2, <2>3
<1>5. Contents(n)[ptr] = data
  BY <1>3, <1>4
<1>6. QED
  BY <1>2, <1>5 DEF Holds, Overwritten

\* The guest's write of a result into the allocation made for it succeeds, unless
\* its module exports no memory to take it from.
LEMMA StoreWhole ==
  ASSUME NEW m, WellFormed(m), NEW ptr \in DOMAIN m.map, NEW data \in Seq(Byte),
         Len(data) = m.map[ptr], NEW exported \in BOOLEAN
  PROVE  LET r == env_write_bytes(m, data, exported, ptr, 0, Len(data))
         IN  /\ r.ok <=> exported
             /\ ~r.ok => r.mm = m
             /\ r.ok => Holds(r.mm, m, ptr, data)
<1> DEFINE len == m.map[ptr]
           r == env_write_bytes(m, data, exported, ptr, 0, Len(data))
           n == [m EXCEPT !.memory = copy_from_slice(m.memory, ptr, data)]
<1>1. /\ len \in Nat
      /\ ptr \in Nat
      /\ i32_as_usize(ptr) = ptr
      /\ len <= m.max_single_alloc
      /\ ptr + len <= Len(m.memory)
      /\ Len(m.memory) \in Nat
      /\ Len(m.memory) <= UsizeMax
  BY TrackedPointer
<1>2. Len(data) = len
  OBVIOUS
<1>3. checked_guest_len(m, Len(data)) = Ok(m, len)
  <2>1. m.max_single_alloc \in Nat
    BY DEF WellFormed, ManagerType
  <2>2. QED
    BY <1>1, <1>2, <2>1 DEF checked_guest_len
<1>4. i32_as_usize(0) = 0 /\ InLinear(data, 0, Len(data))
  BY DEF i32_as_usize, InLinear
<1>5. slice(data, 0, Len(data)) = data
  BY DEF slice
<1>6. write_bytes(m, ptr, data) = Ok(n, 0)
  <2> HIDE DEF n
  <2>1. ~(ptr + Len(data) > UsizeMax \/ ptr + Len(data) > Len(m.memory)) /\ ~(Len(data) > m.map[ptr])
    BY <1>1, <1>2, WidthAssumption
  <2>2. QED
    BY <2>1 DEF write_bytes, n
<1>7. Holds(n, m, ptr, data)
  BY WriteWhole
<1> HIDE DEF n, len
<1>8. r = IF exported THEN Ok(n, 0) ELSE Err(m, "LinkerError")
  <2>1. Ok(m, len).ok
    BY DEF Ok
  <2>2. QED
    BY <1>1, <1>3, <1>4, <1>5, <1>6, <2>1 DEF env_write_bytes
<1> HIDE DEF r
<1>9. QED
  BY <1>7, <1>8 DEF Ok, Err, r

\* A place inside an object, counted from the start of the memory.
LEMMA PlaceInside ==
  ASSUME NEW p \in Nat, NEW len \in Nat, NEW size \in Nat, p + len <= size, NEW i \in 1..len
  PROVE  p + i \in 1..size /\ (p + i) - p = i /\ p < p + i
  OBVIOUS

\* The same in the second of two parts.
LEMMA PlaceInSecond ==
  ASSUME NEW p \in Nat, NEW a \in Nat, NEW b \in Nat, NEW i \in 1..(a + b), ~(i <= a),
         NEW j \in Nat, j = p + i
  PROVE  /\ i - a \in 1..b
         /\ i = a + (i - a)
         /\ i - a = j - (p + a)
         /\ p + a < j
         /\ j <= p + a + b
  OBVIOUS

\* Two writes, one after the other, that together fill an object.
LEMMA WriteTwoParts ==
  ASSUME NEW m, WellFormed(m), NEW ptr \in DOMAIN m.map,
         NEW head \in Seq(Byte), NEW tail \in Seq(Byte), NEW whole \in Seq(Byte),
         Len(head) + Len(tail) = m.map[ptr], Len(whole) = m.map[ptr],
         \A i \in 1..Len(head) : whole[i] = head[i],
         \A i \in 1..Len(tail) : whole[Len(head) + i] = tail[i]
  PROVE  LET first == write_bytes_at(m, ptr, 0, head)
             second == write_bytes_at(first.mm, ptr, Len(head), tail)
         IN  /\ first.ok
             /\ second.ok
             /\ Holds(second.mm, m, ptr, whole)
<1> DEFINE n1 == [m EXCEPT !.memory = copy_from_slice(m.memory, ptr + 0, head)]
<1>0. PICK a \in Nat, b \in Nat : a = Len(head) /\ b = Len(tail)
  OBVIOUS
<1> DEFINE n2 == [n1 EXCEPT !.memory = copy_from_slice(n1.memory, ptr + a, tail)]
<1>1. /\ ptr \in Nat
      /\ m.map[ptr] \in Nat
      /\ a + b = m.map[ptr]
      /\ ptr + m.map[ptr] <= Len(m.memory)
      /\ Len(m.memory) \in Nat
      /\ Len(m.memory) <= UsizeMax
      /\ m.memory \in Seq(Byte)
  <2>1. m.memory \in Seq(Byte)
    BY DEF WellFormed, ManagerType
  <2>2. QED
    BY <1>0, <2>1, TrackedPointer
<1>2. Overwritten(n1, m, ptr, ptr, head)
  <2>1. ptr + 0 = ptr /\ ptr <= ptr /\ ptr + Len(head) <= ptr + m.map[ptr]
    BY <1>0, <1>1
  <2>2. PICK n : n = n1
    OBVIOUS
  <2>3. n = [m EXCEPT !.memory = copy_from_slice(m.memory, ptr, head)]
    BY <2>1, <2>2
  <2> HIDE DEF n1
  <2>4. Overwritten(n, m, ptr, ptr, head)
    BY <1>1, <2>1, <2>3, CopyKeeps
  <2>5. QED
    BY <2>2, <2>4
<1>3. write_bytes_at(m, ptr, 0, head) = Ok(n1, 0)
  <2>1. ~(ptr + 0 > UsizeMax) /\ ~(ptr + 0 + Len(head) > UsizeMax)
        /\ ~(ptr + 0 + Len(head) > ptr + m.map[ptr]) /\ ~(ptr + 0 + Len(head) > Len(m.memory))
    BY <1>0, <1>1, WidthAssumption
  <2>2. QED
    BY <2>1 DEF write_bytes_at
<1> HIDE DEF n1
<1>4. Overwritten(n2, n1, ptr, ptr + a, tail)
  <2>1. ptr + a \in Nat /\ ptr <= ptr + a /\ ptr + a + Len(tail) <= ptr + n1.map[ptr]
        /\ ptr \in DOMAIN n1.map /\ WellFormed(n1)
    BY <1>0, <1>1, <1>2 DEF Overwritten
  <2>2. PICK start \in Nat : start = ptr + a
    BY <2>1
  <2>3. PICK n : n = n2
    OBVIOUS
  <2>4. n = [n1 EXCEPT !.memory = copy_from_slice(n1.memory, start, tail)]
    BY <2>2, <2>3
  <2> HIDE DEF n2
  <2>5. ptr <= start /\ start + Len(tail) <= ptr + n1.map[ptr]
    BY <2>1, <2>2
  <2>6. Overwritten(n, n1, ptr, start, tail)
    BY <2>1, <2>4, <2>5, CopyKeeps
  <2>7. QED
    BY <2>2, <2>3, <2>6
<1>5. write_bytes_at(n1, ptr, a, tail) = Ok(n2, 0)
  <2>1. /\ ptr \in DOMAIN n1.map
        /\ n1.map[ptr] = m.map[ptr]
        /\ Len(n1.memory) = Len(m.memory)
    BY <1>2 DEF Overwritten
  <2>2. ~(ptr + a > UsizeMax) /\ ~(ptr + a + Len(tail) > UsizeMax)
        /\ ~(ptr + a + Len(tail) > ptr + n1.map[ptr]) /\ ~(ptr + a + Len(tail) > Len(n1.memory))
    BY <1>0, <1>1, <2>1, WidthAssumption
  <2>3. QED
    BY <2>1, <2>2 DEF write_bytes_at
<1> HIDE DEF n2
<1>6. /\ Contents(n2)[ptr] = slice(n2.memory, ptr, m.map[ptr])
      /\ Contents(n2)[ptr] \in Seq(Byte)
      /\ Len(Contents(n2)[ptr]) = m.map[ptr]
  <2>1. WellFormed(n2) /\ n2.map = m.map
    BY <1>2, <1>4 DEF Overwritten
  <2>2. \A p \in DOMAIN n2.map :
          /\ Contents(n2)[p] = slice(n2.memory, p, n2.map[p])
          /\ Contents(n2)[p] \in Seq(Byte)
          /\ Len(Contents(n2)[p]) = n2.map[p]
    BY <2>1, ContentsType
  <2>3. QED
    BY <2>1, <2>2
<1>7. PICK len \in Nat, size \in Nat :
        /\ len = m.map[ptr] /\ size = Len(m.memory)
        /\ ptr + len <= size /\ a + b = len
  BY <1>1
<1>8. ASSUME NEW i \in 1..len
      PROVE  Contents(n2)[ptr][i] = whole[i]
  <2>1. PICK j \in 1..Len(m.memory) : j = ptr + i /\ j - ptr = i /\ ptr < j
    <3>1. ptr + i \in 1..size /\ (ptr + i) - ptr = i /\ ptr < ptr + i
      <4>1. i \in 1..len /\ len \in Nat /\ size \in Nat /\ ptr + len <= size /\ ptr \in Nat
        BY <1>1, <1>7
      <4>2. QED
        BY ONLY <4>1, PlaceInside
    <3>2. size = Len(m.memory)
      BY <1>7
    <3>3. QED
      BY <3>1, <3>2
  <2>2. Contents(n2)[ptr][i] = n2.memory[j]
    BY <1>6, <1>7, <2>1 DEF slice
  <2>3. n1.memory \in Seq(Byte) /\ Len(n1.memory) = Len(m.memory)
    BY <1>2 DEF WellFormed, ManagerType, Overwritten
  <2>4. n2.memory[j] = IF ptr + a < j /\ j <= ptr + a + b THEN tail[j - (ptr + a)] ELSE n1.memory[j]
    <3>1. PICK start \in Nat : start = ptr + a
      BY <1>1
    <3>2. j \in 1..Len(n1.memory)
      BY <2>3
    <3>3. copy_from_slice(n1.memory, start, tail)[j] =
            IF start < j /\ j <= start + Len(tail) THEN tail[j - start] ELSE n1.memory[j]
      BY <2>3, <3>1, <3>2, CopySeq
    <3>4. n2.memory = copy_from_slice(n1.memory, start, tail)
      BY <1>4, <3>1 DEF Overwritten
    <3>5. QED
      BY <1>0, <3>1, <3>3, <3>4
  <2>5. n1.memory[j] = IF ptr < j /\ j <= ptr + a THEN head[j - ptr] ELSE m.memory[j]
    <3>1. \A l \in 1..Len(m.memory) : copy_from_slice(m.memory, ptr, head)[l] =
            IF ptr < l /\ l <= ptr + Len(head) THEN head[l - ptr] ELSE m.memory[l]
      BY <1>1, CopySeq
    <3>2. n1.memory = copy_from_slice(m.memory, ptr, head)
      BY <1>2 DEF Overwritten
    <3>3. QED
      BY <1>0, <3>1, <3>2
  <2>6. CASE i <= a
    <3>1. ~(ptr + a < j) /\ j <= ptr + a /\ i \in 1..a
      BY <2>1, <2>6, <1>1
    <3>2. QED
      BY <1>0, <2>1, <2>2, <2>4, <2>5, <3>1
  <2>7. CASE ~(i <= a)
    <3>1. /\ i - a \in 1..b
          /\ i = a + (i - a)
          /\ i - a = j - (ptr + a)
          /\ ptr + a < j
          /\ j <= ptr + a + b
      <4>1. /\ ptr \in Nat /\ a \in Nat /\ b \in Nat /\ i \in 1..(a + b) /\ ~(i <= a)
            /\ j \in Nat /\ j = ptr + i
        BY <1>0, <1>1, <1>7, <2>1, <2>7
      <4>2. QED
        BY ONLY <4>1, PlaceInSecond
    <3>2. PICK k \in 1..b : k = i - a /\ i = a + k /\ k = j - (ptr + a)
      BY <3>1
    <3>3. ptr + a < j /\ j <= ptr + a + b
      BY <3>1
    <3>4. n2.memory[j] = tail[k]
      BY <2>4, <3>2, <3>3
    <3>5. whole[i] = tail[k]
      BY <1>0, <3>2
    <3>6. QED
      BY <2>2, <3>4, <3>5
  <2>8. QED
    BY <2>6, <2>7
<1>9. Contents(n2)[ptr] = whole
  <2> DEFINE c == Contents(n2)[ptr]
  <2>1. c \in Seq(Byte) /\ Len(c) = len /\ \A i \in 1..len : c[i] = whole[i]
    BY <1>6, <1>7, <1>8
  <2>2. Len(whole) = len
    BY <1>7
  <2> HIDE DEF c
  <2>3. c = whole
    BY <2>1, <2>2
  <2>4. QED
    BY <2>3 DEF c
<1>10. Holds(n2, m, ptr, whole)
  BY <1>2, <1>4, <1>9 DEF Holds, SameLimits, Overwritten
<1>11. QED
  BY <1>0, <1>3, <1>5, <1>10 DEF Ok

-----------------------------------------------------------------------------
(***************************************************************************)
(* The inductive invariant, in parts.                                      *)
(***************************************************************************)

\* Where the call's entry point has been called, its module has been linked, and
\* its inputs have been staged.
Entered == GuestSteps \cup {"returned", "trapped"}

Linked == Entered \cup {"start"}

Staged == Linked \cup {"instantiate"}

\* The module can be instantiated under the limits of the runtime.
Fits(module) ==
  /\ module.min_memory <= limits.memory_size
  /\ module.table <= limits.max_table_elements
  /\ \A i \in DOMAIN module.imports : linkable(module.imports[i])

\* The manager is well formed and has the limits of the runtime.
StoreInv ==
  /\ WellFormed(mm)
  /\ SameLimits(from_limits(limits), mm)

\* What is known of the call and its store from where the call is.
CallInv ==
  /\ pc # "done" => call \in Calls /\ result = Failure("none") /\ observed = NotObserved
  /\ pc = "imports" => call.op = "validate"
  /\ pc \in Staged \cup {"stage"} /\ call.op = "validate" =>
       imports_fault(call.module.imports) = "none"
  /\ pc \in {"done", "imports"} => mm = from_limits(limits) /\ ptrs = << >>
  /\ pc \notin Linked => fuel = 0 /\ pages = 0
  /\ pc \notin Entered => local = NoLocal
  /\ pc \in Linked => Fits(call.module)
  /\ pc \in Entered => entry_points(call)
  /\ pages <= limits.memory_size

\* The bytes the first n inputs of the call take.
StagedBytes(n) ==
  LET size(i) == IF i <= n THEN StagedSize(Inputs(call)[i]) ELSE 0
  IN  IF call.op = "validate" THEN size(1) ELSE size(1) + size(2) + size(3)

\* Every pointer names its input, and staging is done when there is one for each.
StagedInv ==
  /\ \A i \in DOMAIN ptrs :
       /\ i \in DOMAIN Inputs(call)
       /\ ptrs[i] \in DOMAIN mm.map
       /\ Contents(mm)[ptrs[i]] = borsh_data(Inputs(call)[i])
       /\ StagedSize(Inputs(call)[i]) <= limits.max_single_alloc
  /\ pc = "stage" => /\ Len(ptrs) < Len(Inputs(call))
                     /\ Len(mm.memory) = StagedBytes(Len(ptrs))
  /\ pc \in Staged => Len(ptrs) = Len(Inputs(call)) /\ InputsFit

\* The verdict of ContractCall, for the proofs below.
Effective(c) ==
  IF ParseState[c.state] # Fails THEN ParseState[c.state] ELSE ParseState[c.init_state]

RunOf(c) == callback(c.module.logic[ParseEvent[c.event]], c.is_owner, new(Effective(c)))

VerdictOf(c) ==
  IF Effective(c) = Fails
    THEN result_error(FallbackFailed(CannotParse("State"), CannotParse("Init State")))
  ELSE IF ParseEvent[c.event] = Fails THEN result_error(CannotParse("Event"))
  ELSE result_data(RunOf(c).result)

PanicsOf(c) ==
  /\ Effective(c) # Fails
  /\ ParseEvent[c.event] # Fails
  /\ RunOf(c).status = "panicked"

\* What a contract's init check answers a call with.
InitRun(c) == callback(c.module.init_logic[ParseState[c.init_state]], FALSE, new(""))

CheckVerdict(c) ==
  IF ParseState[c.init_state] = Fails THEN check_error(CannotParse("State"))
  ELSE check_data(InitRun(c).result)

CheckPanics(c) == ParseState[c.init_state] # Fails /\ InitRun(c).status = "panicked"

\* What the entry point stores for a call.
OutFor(c) == IF c.op = "execute" THEN VerdictOf(c) ELSE CheckVerdict(c)

PanicsOn(c) == IF c.op = "execute" THEN PanicsOf(c) ELSE CheckPanics(c)

\* The guest's variables hold what the call makes of its documents.
GuestInv ==
  /\ local = [state |-> local.state, event |-> local.event, first |-> local.first,
              out |-> local.out, last |-> local.last]
  /\ local.first \in {<< >>, CannotParse("State")}
  /\ local.out # Fails => call \in Calls /\ local.out = OutFor(call)
  /\ pc = "read_state" => local.first = << >>
  /\ pc = "read_init" => /\ call.op = "execute"
                         /\ ParseState[call.state] = Fails
                         /\ local.first = CannotParse("State")
  /\ pc = "read_event" => /\ call.op = "execute"
                          /\ local.state = Effective(call)
                          /\ local.state # Fails
  /\ pc = "callback" /\ call.op = "execute" =>
       /\ local.state = Effective(call)
       /\ local.state # Fails
       /\ local.event = ParseEvent[call.event]
       /\ local.event # Fails
  /\ pc = "callback" /\ call.op = "validate" =>
       /\ local.state = ParseState[call.init_state]
       /\ local.state # Fails
  /\ pc \in {"store", "write", "returned"} =>
       local.out # Fails /\ ~PanicsOn(call)

\* The guest stopped for a reason, and the host refused it nothing.
TrapInv ==
  /\ pc \notin {"trapped", "done"} => trap = "none"
  /\ pc = "trapped" => trap # "none"
  /\ pc = "trapped" /\ trap = "fuel" => fuel = 0
  /\ trap = "host" => ~call.module.exported

\* A result has an object of its own, which holds it once it is written.
ResultInv ==
  pc \in {"write", "returned"} =>
    /\ result_ptr \in DOMAIN mm.map
    /\ result_ptr # 0
    /\ \A i \in DOMAIN ptrs : ptrs[i] # result_ptr
    /\ mm.map[result_ptr] = Len(OutBytes)
    /\ pc = "returned" => Contents(mm)[result_ptr] = OutBytes

\* What was validated can be entered.
ValidatedInv == \A module \in validated : Fits(module) /\ module.main

\* What is known of an answer.
AnswerInv ==
  /\ pc = "done" /\ call # NoCall => Call!Answers(call, result)
  /\ RefusalMeansInputsTooBig
  /\ MetricsAgree
  /\ ValidatedModulesRun

SessionInv ==
  /\ TypeOK /\ StoreInv /\ CallInv /\ StagedInv /\ GuestInv /\ TrapInv
  /\ ResultInv /\ ValidatedInv /\ AnswerInv

-----------------------------------------------------------------------------
(***************************************************************************)
(* A callback, statement by statement.                                     *)
(***************************************************************************)

\* What a callback leaves of a state of type S.
Result(S) == [state : S, success : BOOLEAN, error : Fragments]
InCallback(S) == [status : {"running", "returned", "panicked"}, result : Result(S)]

Started(r) == [status |-> "running", result |-> r]

\* run is a callback after each of its first n statements.
Unrolled(script, is_owner, r, n, run) ==
  run = [i \in 0..n |-> IF i = 0 THEN Started(r) ELSE statement(is_owner, run[i - 1], script[i])]

\* A non-empty set of naturals has a least element.
LEMMA LeastElement ==
  ASSUME NEW S \in SUBSET Nat, S # {}
  PROVE  \E m \in S : \A k \in S : m <= k
<1>1. \E m \in S : \A k \in S : ~(<<k, m>> \in OpToRel(<, Nat))
  BY NatLessThanWellFounded, WFMin
<1>2. \A k, m \in Nat : <<k, m>> \in OpToRel(<, Nat) <=> k < m
  BY DEF OpToRel
<1>3. PICK m \in S : \A k \in S : ~(<<k, m>> \in OpToRel(<, Nat))
  BY <1>1
<1>4. \A k \in S : m \in Nat /\ k \in Nat /\ ~(k < m)
  BY <1>2, <1>3, Zenon
<1>5. \A k \in S : m <= k
  BY <1>4
<1>6. QED
  BY <1>5

\* A script of any length can be run.
LEMMA CallbackExists ==
  ASSUME NEW script, NEW is_owner, NEW r
  PROVE  \A n \in Nat : \E run : Unrolled(script, is_owner, r, n, run)
<1> DEFINE S == {n \in Nat : ~\E run : Unrolled(script, is_owner, r, n, run)}
<1> SUFFICES ASSUME S # {}
             PROVE  FALSE
  OBVIOUS
<1>1. PICK m \in S : \A k \in S : m <= k
  BY LeastElement
<1>2. m \in Nat /\ ~\E run : Unrolled(script, is_owner, r, m, run)
  BY <1>1
<1>3. CASE m = 0
  <2>1. Unrolled(script, is_owner, r, 0, [i \in 0..0 |-> Started(r)])
    BY DEF Unrolled
  <2> QED
    BY <1>2, <1>3, <2>1
<1>4. CASE m # 0
  <2>1. m - 1 \in Nat /\ ~(m <= m - 1)
    BY <1>2, <1>4
  <2>2. PICK run : Unrolled(script, is_owner, r, m - 1, run)
    BY <1>1, <2>1
  <2> DEFINE next == [i \in 0..m |-> IF i = m THEN statement(is_owner, run[m - 1], script[m])
                                     ELSE run[i]]
  <2>3. \A i \in 0..(m - 1) :
          run[i] = IF i = 0 THEN Started(r) ELSE statement(is_owner, run[i - 1], script[i])
    BY <2>2 DEF Unrolled
  <2>4. ASSUME NEW i \in 0..m
        PROVE  next[i] = IF i = 0 THEN Started(r) ELSE statement(is_owner, next[i - 1], script[i])
    <3>1. CASE i = 0
      BY <1>2, <1>4, <2>3, <3>1
    <3>2. CASE i = m
      <4>1. next[m] = statement(is_owner, run[m - 1], script[m]) /\ next[m - 1] = run[m - 1]
        BY <1>2, <2>1
      <4> QED
        BY <1>4, <3>2, <4>1
    <3>3. CASE i # 0 /\ i # m
      <4>1. i \in 0..(m - 1) /\ i - 1 \in 0..m /\ i - 1 # m
        BY <1>2, <3>3
      <4>2. next[i] = run[i] /\ next[i - 1] = run[i - 1]
        BY <3>3, <4>1
      <4> QED
        BY <2>3, <3>3, <4>1, <4>2
    <3> QED
      BY <3>1, <3>2, <3>3
  <2>5. Unrolled(script, is_owner, r, m, next)
    <3>1. next = [i \in 0..m |-> next[i]]
      OBVIOUS
    <3> HIDE DEF next
    <3> QED
      BY <2>4, <3>1 DEF Unrolled
  <2> QED
    BY <1>2, <2>5
<1> QED
  BY <1>3, <1>4

\* A statement of the contract's types leaves a result of them (ContractResult).
LEMMA StatementType ==
  ASSUME NEW S, NEW op \in Statement(S), NEW is_owner \in BOOLEAN, NEW run \in InCallback(S)
  PROVE  statement(is_owner, run, op) \in InCallback(S)
<1>1. /\ run.status \in {"running", "returned", "panicked"} /\ run.result \in Result(S)
      /\ run = [status |-> run.status, result |-> run.result]
  BY DEF InCallback
<1>2. PICK state \in S, success \in BOOLEAN, error \in Fragments :
        run.result = [state |-> state, success |-> success, error |-> error]
  BY <1>1 DEF Result
<1>3. ASSUME NEW left \in Result(S)
      PROVE  [run EXCEPT !.result = left] \in InCallback(S)
  BY <1>1 DEF InCallback
<1>4. CASE run.status # "running"
  BY <1>4 DEF statement
<1>5. CASE run.status = "running" /\ op[1] = "set"
  <2>1. op[2] \in [S -> S]
    BY <1>5 DEF Statement
  <2>2. statement(is_owner, run, op) = [run EXCEPT !.result.state = op[2][@]]
    BY <1>5 DEF statement
  <2>3. [run EXCEPT !.result.state = op[2][@]] =
          [status |-> run.status, result |-> [run.result EXCEPT !.state = op[2][run.result.state]]]
    BY <1>1
  <2>4. op[2][state] \in S
    BY <2>1
  <2>5. [run.result EXCEPT !.state = op[2][run.result.state]] =
          [state |-> op[2][state], success |-> success, error |-> error]
    BY <1>2
  <2>6. [state |-> op[2][state], success |-> success, error |-> error] \in Result(S)
    BY <2>4 DEF Result
  <2> QED
    BY <1>1, <2>2, <2>3, <2>5, <2>6 DEF InCallback
<1>6. CASE run.status = "running" /\ op[1] = "accept"
  <2>1. accept(run.result) \in Result(S)
    BY <1>1 DEF accept, Result
  <2>2. statement(is_owner, run, op) = [run EXCEPT !.result = accept(run.result)]
    BY <1>6 DEF statement
  <2> QED
    BY <1>3, <2>1, <2>2
<1>7. ASSUME NEW text \in Fragments
      PROVE  reject(run.result, text) \in Result(S)
  BY <1>1 DEF reject, Result
<1>8. CASE run.status = "running" /\ op[1] = "reject"
  <2>1. op[2] \in Fragments
    BY <1>8 DEF Statement
  <2>2. statement(is_owner, run, op) = [run EXCEPT !.result = reject(run.result, op[2])]
    BY <1>8 DEF statement
  <2> QED
    BY <1>3, <1>7, <2>1, <2>2
<1>9. CASE run.status = "running" /\ op[1] = "require_owner"
  <2>1. require_owner(is_owner, run.result) \in Result(S)
    BY <1>1, <1>7, FragmentsAssumption DEF require_owner, SdkFragments
  <2>2. statement(is_owner, run, op) = [status |-> IF is_owner THEN "running" ELSE "returned",
                                        result |-> require_owner(is_owner, run.result)]
    BY <1>9 DEF statement
  <2> QED
    BY <2>1, <2>2 DEF InCallback
<1>10. CASE run.status = "running" /\ op[1] = "panic"
  <2>1. statement(is_owner, run, op) = [run EXCEPT !.status = "panicked"]
    BY <1>10 DEF statement
  <2> QED
    BY <1>1, <2>1 DEF InCallback
<1>11. op[1] \in {"set", "accept", "reject", "require_owner", "panic"}
  BY DEF Statement
<1> QED
  BY <1>4, <1>5, <1>6, <1>8, <1>9, <1>10, <1>11

\* A callback of the contract's types leaves a result of them, however long it is.
LEMMA CallbackType ==
  ASSUME NEW S, NEW script \in Seq(Statement(S)), NEW is_owner \in BOOLEAN, NEW r \in Result(S)
  PROVE  callback(script, is_owner, r) \in InCallback(S)
<1>1. PICK n \in Nat : n = Len(script)
  BY LenProperties
<1>2. PICK run : run = CHOOSE f : Unrolled(script, is_owner, r, n, f)
  OBVIOUS
<1>3. Unrolled(script, is_owner, r, n, run)
  BY <1>2, CallbackExists
<1>4. callback(script, is_owner, r) = run[n]
  BY <1>1, <1>2, Zenon DEF callback, Unrolled, Started
<1>5. \A i \in 0..n :
        run[i] = IF i = 0 THEN Started(r) ELSE statement(is_owner, run[i - 1], script[i])
  BY <1>3 DEF Unrolled
<1>6. \A i \in 1..n : script[i] \in Statement(S)
  BY <1>1, ElementOfSeq
<1>7. run[0] \in InCallback(S)
  BY <1>5 DEF Started, InCallback
<1>8. ASSUME NEW i \in 1..n, run[i - 1] \in InCallback(S)
      PROVE  run[i] \in InCallback(S)
  <2>1. run[i] = statement(is_owner, run[i - 1], script[i])
    BY <1>5
  <2> QED
    BY <1>6, <1>8, <2>1, StatementType
<1>9. \A i \in 0..n : run[i] \in InCallback(S)
  <2> DEFINE T == {i \in 0..n : run[i] \notin InCallback(S)}
  <2> SUFFICES ASSUME T # {}
               PROVE  FALSE
    OBVIOUS
  <2>1. T \in SUBSET Nat
    OBVIOUS
  <2>2. PICK m \in T : \A k \in T : m <= k
    <3> HIDE DEF T
    <3> QED
      BY <2>1, LeastElement
  <2>3. m \in 1..n /\ m - 1 \in 0..n /\ ~(m <= m - 1)
    BY <1>7, <2>2
  <2>4. run[m - 1] \in InCallback(S)
    BY <2>2, <2>3
  <2> QED
    BY <1>8, <2>2, <2>3, <2>4
<1> QED
  BY <1>4, <1>9

\* What the two callbacks of a module leave.
LEMMA CallbackResults ==
  ASSUME NEW c \in Calls
  PROVE  /\ \A event \in Event, state \in State, is_owner \in BOOLEAN :
              callback(c.module.logic[event], is_owner, new(state)).result \in Result(State)
         /\ \A state \in State :
              callback(c.module.init_logic[state], FALSE, new("")).result \in Result({""})
<1>1. /\ \A event \in Event : c.module.logic[event] \in Seq(Statement(State))
      /\ \A state \in State : c.module.init_logic[state] \in Seq(Statement({""}))
  BY CallAssumption
<1>2. \A S : \A s \in S : new(s) \in Result(S)
  BY FragmentsAssumption DEF new, Result, SdkFragments
<1>3. \A S : \A run \in InCallback(S) : run.result \in Result(S)
  BY DEF InCallback
<1>4. ASSUME NEW event \in Event, NEW state \in State, NEW is_owner \in BOOLEAN
      PROVE  callback(c.module.logic[event], is_owner, new(state)).result \in Result(State)
  <2>1. callback(c.module.logic[event], is_owner, new(state)) \in InCallback(State)
    BY <1>1, <1>2, CallbackType
  <2> QED
    BY <1>3, <2>1
<1>5. ASSUME NEW state \in State
      PROVE  callback(c.module.init_logic[state], FALSE, new("")).result \in Result({""})
  <2>1. new("") \in Result({""}) /\ FALSE \in BOOLEAN
    BY <1>2
  <2>2. callback(c.module.init_logic[state], FALSE, new("")) \in InCallback({""})
    BY <1>1, <2>1, CallbackType
  <2> QED
    BY <1>3, <2>2
<1> QED
  BY <1>4, <1>5

-----------------------------------------------------------------------------
(***************************************************************************)
(* ContractCall and this module take the same contract for the same.       *)
(***************************************************************************)

\* Both run a callback the same way.
LEMMA SameCallback ==
  ASSUME NEW script, NEW is_owner, NEW r
  PROVE  Call!callback(script, is_owner, r) = callback(script, is_owner, r)
  BY DEF callback, Call!callback, accept, Call!accept, reject, Call!reject, require_owner,
     Call!require_owner, statement, Call!statement

\* Both come to the same verdict.
LEMMA SameVerdict ==
  ASSUME NEW c
  PROVE  /\ Call!Verdict(c) = VerdictOf(c)
         /\ Call!Panics(c) <=> PanicsOf(c)
<1>1. Call!EffectiveState(c) = Effective(c)
  BY DEF Call!EffectiveState, Effective
<1>2. \A s : Call!new(s) = new(s)
  BY DEF Call!new, new
<1>3. Call!Run(c) = RunOf(c)
  BY <1>1, <1>2, SameCallback DEF Call!Run, RunOf
<1>4. \A text : Call!result_error(text) = result_error(text)
  BY DEF Call!result_error, result_error
<1>5. \A r : Call!result_data(r) = result_data(r)
  BY <1>4 DEF Call!result_data, result_data, Call!ERR_FINAL_STATE_SER, ERR_FINAL_STATE_SER,
              Call!ERR_EVENT_REJECTED, ERR_EVENT_REJECTED
<1>6. /\ \A name : Call!CannotParse(name) = CannotParse(name)
      /\ \A x, y : Call!FallbackFailed(x, y) = FallbackFailed(x, y)
  BY DEF Call!CannotParse, CannotParse, Call!FallbackFailed, FallbackFailed
<1>7. Call!Verdict(c) = VerdictOf(c)
  BY <1>1, <1>3, <1>4, <1>5, <1>6, Zenon DEF Call!Verdict, VerdictOf
<1>8. Call!Panics(c) <=> PanicsOf(c)
  BY <1>1, <1>3 DEF Call!Panics, PanicsOf
<1>9. QED
  BY <1>7, <1>8

\* What validate answers without an error is what ContractCall accepts.
LEMMA SameAcceptance ==
  ASSUME NEW c
  PROVE  /\ Call!ImportsSdk(c.module.imports) <=>
              /\ Len(c.module.imports) = Cardinality(SDK_FUNCTIONS)
              /\ {c.module.imports[i].name : i \in DOMAIN c.module.imports} = SDK_FUNCTIONS
              /\ \A i \in DOMAIN c.module.imports : linkable(c.module.imports[i])
         /\ Call!Accepts(c) <=>
              /\ Call!ImportsSdk(c.module.imports)
              /\ c.module.main /\ c.module.init_check
              /\ ParseState[c.init_state] # Fails
              /\ InitRun(c).status # "panicked"
              /\ InitRun(c).result.success
<1>1. Call!new("") = new("")
  BY DEF Call!new, new
<1>2. Call!callback(c.module.init_logic[ParseState[c.init_state]], FALSE, Call!new("")) = InitRun(c)
  BY <1>1, SameCallback DEF InitRun
<1>3. \A import : Call!signature_matches(import) <=> signature_matches(import)
  BY DEF Call!signature_matches, signature_matches, Call!valtypes_eq, valtypes_eq,
         Call!valtype_eq, valtype_eq, Call!RefTypes, RefTypes, Call!expected_sdk_signature,
         expected_sdk_signature
<1>4. Call!SDK_FUNCTIONS = SDK_FUNCTIONS
  BY DEF Call!SDK_FUNCTIONS, SDK_FUNCTIONS
<1>x. \A S : Call!Cardinality(S) = Cardinality(S)
  BY DEF Call!Cardinality, Cardinality
<1>5. Call!ImportsSdk(c.module.imports) <=>
              /\ Len(c.module.imports) = Cardinality(SDK_FUNCTIONS)
              /\ {c.module.imports[i].name : i \in DOMAIN c.module.imports} = SDK_FUNCTIONS
              /\ \A i \in DOMAIN c.module.imports : linkable(c.module.imports[i])
  <2> DEFINE imports == c.module.imports
  <2>1. \A i \in DOMAIN imports :
          imports[i].name \in {imports[j].name : j \in DOMAIN imports}
    OBVIOUS
  <2> HIDE DEF imports
  <2>2. Call!ImportsSdk(imports) <=>
          /\ Len(imports) = Cardinality(SDK_FUNCTIONS)
          /\ {imports[i].name : i \in DOMAIN imports} = SDK_FUNCTIONS
          /\ \A i \in DOMAIN imports : linkable(imports[i])
    BY <1>3, <1>4, <1>x, <2>1 DEF Call!ImportsSdk, linkable
  <2>3. QED
    BY <2>2 DEF imports
<1>6. QED
  BY <1>2, <1>5 DEF Call!Accepts

-----------------------------------------------------------------------------
(***************************************************************************)
(* The store of a call.                                                    *)
(***************************************************************************)

\* A new store is empty and has the limits of the runtime.
LEMMA FromLimits ==
  ASSUME NEW l \in Limits, NEW m, m = from_limits(l)
  PROVE  /\ WellFormed(m)
         /\ m.memory = << >>
         /\ DOMAIN m.map = {}
         /\ m.max_single_alloc = l.max_single_alloc
         /\ m.max_total_memory = l.max_total_memory
         /\ m.store_limits.memory_size = l.memory_size
         /\ m.store_limits.table_elements = l.max_table_elements
         /\ l.max_single_alloc <= MAX_DATA_SIZE
         /\ l.max_total_memory <= I32Max
         /\ l.max_single_alloc \in Nat
         /\ l.max_total_memory \in Nat
         /\ l.memory_size \in Nat
<1>1. /\ l.max_single_alloc \in 0..MAX_DATA_SIZE
      /\ l.max_total_memory \in 0..I32Max
      /\ l.memory_size \in Nat
  BY SessionAssumption
<1>2. MAX_DATA_SIZE \in Nat /\ I32Max \in Nat
  BY SdkAssumption, WidthAssumption
<1>3. /\ m.memory = << >>
      /\ m.map = [p \in {} |-> 0]
      /\ m.max_single_alloc = l.max_single_alloc
      /\ m.max_total_memory = l.max_total_memory
      /\ m.store_limits.memory_size = l.memory_size
      /\ m.store_limits.table_elements = l.max_table_elements
  BY DEF from_limits
<1>4. DOMAIN m.map = {}
  BY <1>3
<1>5. ManagerType(m)
  <2>1. m = [memory |-> m.memory, map |-> m.map, store_limits |-> m.store_limits,
             max_single_alloc |-> m.max_single_alloc,
             max_total_memory |-> m.max_total_memory]
    BY DEF from_limits
  <2>2. m.memory \in Seq(Byte) /\ m.map \in [DOMAIN m.map -> Nat]
    BY <1>3
  <2>3. QED
    BY <1>1, <1>2, <1>3, <1>4, <2>1, <2>2 DEF ManagerType
<1>6. Tiled(m)
  <2>1. Len(m.memory) = 0
    BY <1>3
  <2>2. QED
    BY <1>4, <2>1 DEF Tiled
<1>7. Capped(m)
  <2>1. Len(m.memory) = 0
    BY <1>3
  <2>2. QED
    BY <1>1, <1>3, <1>4, <2>1 DEF Capped
<1>8. QED
  BY <1>1, <1>2, <1>3, <1>4, <1>5, <1>6, <1>7 DEF WellFormed

\* n is m with doc staged behind everything m holds.
StagedAfter(n, m, doc) ==
  /\ WellFormed(n)
  /\ SameLimits(m, n)
  /\ Len(n.memory) = Len(m.memory) + StagedSize(doc)
  /\ Len(m.memory) \in DOMAIN n.map
  /\ Contents(n)[Len(m.memory)] = borsh_data(doc)
  /\ \A p \in DOMAIN m.map : p \in DOMAIN n.map /\ Contents(n)[p] = Contents(m)[p]

\* The bytes of a document whose length fits an i32 are bytes.
LEMMA DataBytes ==
  ASSUME NEW doc \in Doc, Size[doc] <= I32Max
  PROVE  /\ len_bytes(Size[doc]) \in Seq(Byte)
         /\ Len(len_bytes(Size[doc])) = U32_BYTES
         /\ json_bytes(doc) \in Seq(Byte)
         /\ Len(json_bytes(doc)) = Size[doc]
         /\ borsh_data(doc) \in Seq(Byte)
         /\ Len(borsh_data(doc)) = U32_BYTES + Size[doc]
         /\ \A i \in 1..U32_BYTES : borsh_data(doc)[i] = len_bytes(Size[doc])[i]
         /\ \A i \in 1..Size[doc] : borsh_data(doc)[U32_BYTES + i] = json_bytes(doc)[i]
<1>1. /\ Size[doc] \in Nat \ {0}
      /\ borsh_data(doc) =
           [i \in 1..(U32_BYTES + Size[doc]) |->
              IF i <= U32_BYTES THEN <<"len", Size[doc], i>>
              ELSE <<"json", doc, i - U32_BYTES>>]
      /\ Len(borsh_data(doc)) = U32_BYTES + Size[doc]
  BY BorshData
<1>2. \A i \in 1..U32_BYTES : <<"len", Size[doc], i>> \in Byte
  <2>1. \A i \in 1..U32_BYTES : <<"len", Size[doc], i>> \in Cells(Fragments, MaxFragments)
    BY <1>1, WidthAssumption DEF Cells
  <2>2. QED
    BY <2>1, FragmentsAssumption
<1>3. \A i \in 1..Size[doc] : <<"json", doc, i>> \in Byte
  <2> DEFINE cells(d) == {<<"json", d, i>> : i \in 1..Size[d]}
             lens == {<<"len", n, i>> : n \in 0..I32Max, i \in 1..U32_BYTES}
             bools == {<<"bool", b, 0>> : b \in BOOLEAN}
             texts == {<<"text", fragment, i>> : fragment \in Fragments, i \in 1..MaxFragments}
  <2>1. \A i \in 1..Size[doc] : <<"json", doc, i>> \in cells(doc)
    OBVIOUS
  <2>2. Cells(Fragments, MaxFragments) = 
          {Zero} \cup lens \cup bools \cup (UNION {cells(d) : d \in Doc}) \cup texts
    BY DEF Cells, cells, lens, bools, texts
  <2> HIDE DEF cells, lens, bools, texts
  <2>3. cells(doc) \subseteq UNION {cells(d) : d \in Doc}
    OBVIOUS
  <2>4. QED
    BY <2>1, <2>2, <2>3, FragmentsAssumption
<1>4. U32_BYTES \in Nat
  BY DEF U32_BYTES
<1>5. /\ len_bytes(Size[doc]) \in [1..U32_BYTES -> Byte]
      /\ \A i \in 1..U32_BYTES : len_bytes(Size[doc])[i] = <<"len", Size[doc], i>>
  BY <1>2 DEF len_bytes
<1>6. /\ json_bytes(doc) \in [1..Size[doc] -> Byte]
      /\ \A i \in 1..Size[doc] : json_bytes(doc)[i] = <<"json", doc, i>>
  BY <1>3 DEF json_bytes
<1>7. /\ len_bytes(Size[doc]) \in Seq(Byte)
      /\ Len(len_bytes(Size[doc])) = U32_BYTES
  BY <1>4, <1>5, FunIsSeq
<1>8. /\ json_bytes(doc) \in Seq(Byte)
      /\ Len(json_bytes(doc)) = Size[doc]
  BY <1>1, <1>6, FunIsSeq
<1>9. borsh_data(doc) \in Seq(Byte)
  BY <1>7, <1>8 DEF borsh_data
<1>10. ASSUME NEW i \in 1..U32_BYTES
       PROVE  borsh_data(doc)[i] = len_bytes(Size[doc])[i]
  <2>1. i \in 1..(U32_BYTES + Size[doc]) /\ i <= U32_BYTES
    BY <1>1, <1>4
  <2>2. borsh_data(doc)[i] = <<"len", Size[doc], i>>
    BY <1>1, <2>1
  <2>3. QED
    BY <1>5, <2>2
<1>11. ASSUME NEW i \in 1..Size[doc]
       PROVE  borsh_data(doc)[U32_BYTES + i] = json_bytes(doc)[i]
  <2>1. /\ U32_BYTES + i \in 1..(U32_BYTES + Size[doc])
        /\ ~(U32_BYTES + i <= U32_BYTES)
        /\ (U32_BYTES + i) - U32_BYTES = i
    BY <1>1, <1>4
  <2>2. borsh_data(doc)[U32_BYTES + i] = <<"json", doc, i>>
    BY <1>1, <2>1
  <2>3. QED
    BY <1>6, <2>2
<1>12. QED
  BY <1>1, <1>7, <1>8, <1>9, <1>10, <1>11

\* write_contract_data stages a document exactly when it fits both caps.
LEMMA StageResult ==
  ASSUME NEW m, WellFormed(m), NEW doc \in Doc, Size[doc] <= 2 * I32Max + 1
  PROVE  LET w == write_contract_data(m, doc)
         IN  /\ w.ok \in BOOLEAN
             /\ w.ok <=> /\ StagedSize(doc) <= m.max_single_alloc
                         /\ Len(m.memory) + StagedSize(doc) <= m.max_total_memory
             /\ ~w.ok => w.val = "MemoryAllocationFailed"
             /\ w.ok => w.val = Len(m.memory) /\ StagedAfter(w.mm, m, doc)
<1> DEFINE len == U32_BYTES + Size[doc]
           a == alloc(m, len)
           prefix == write_bytes_at(a.mm, a.val, 0, len_bytes(Size[doc]))
           payload == write_bytes_at(prefix.mm, a.val, U32_BYTES, json_bytes(doc))
           w == write_contract_data(m, doc)
           cur == Len(m.memory)
<1>1. /\ len \in Nat
      /\ len > 0
      /\ Size[doc] \in Nat
      /\ Size[doc] <= len
  BY BorshData DEF U32_BYTES
<1>2. /\ a.ok <=> len <= m.max_single_alloc /\ cur + len <= m.max_total_memory
      /\ SameLimits(m, a.mm)
  BY <1>1, AllocFits
<1>3. a.ok \in BOOLEAN
  BY <1>1, AllocResult DEF WellFormed
<1>4. w = IF ~a.ok \/ ~prefix.ok \/ ~payload.ok THEN Err(m, "MemoryAllocationFailed")
          ELSE Ok(payload.mm, as_u32(a.val))
  <2>1. ~(Size[doc] > 2 * I32Max + 1)
    BY <1>1, WidthAssumption
  <2>2. QED
    BY <2>1 DEF write_contract_data
<1>5. CASE ~a.ok
  <2>1. w = Err(m, "MemoryAllocationFailed")
    BY <1>4, <1>5
  <2>2. ~w.ok /\ w.val = "MemoryAllocationFailed" /\ w.ok \in BOOLEAN
    BY <2>1 DEF Err
  <2>3. QED
    BY <1>2, <1>5, <2>2 DEF StagedSize
<1>6. CASE a.ok
  <2>1. a.val = cur
    BY <1>1, <1>6, AllocResult DEF WellFormed
  <2>2. /\ WellFormed(a.mm)
        /\ Len(a.mm.memory) = cur + len
        /\ cur \in Nat
        /\ cur + len <= I32Max
        /\ cur \notin DOMAIN m.map
    BY <1>1, <1>6, AllocContents
  <2>3. DOMAIN a.mm.map = DOMAIN m.map \cup {cur} /\ a.mm.map[cur] = len
    BY <1>1, <1>6, AllocContents
  <2>4. \A p \in DOMAIN m.map : Contents(a.mm)[p] = Contents(m)[p]
    BY <1>1, <1>6, AllocContents
  <2>5. Size[doc] <= I32Max
    BY <1>1, <2>2, WidthAssumption
  <2>6. /\ len_bytes(Size[doc]) \in Seq(Byte)
        /\ Len(len_bytes(Size[doc])) = U32_BYTES
        /\ json_bytes(doc) \in Seq(Byte)
        /\ Len(json_bytes(doc)) = Size[doc]
        /\ borsh_data(doc) \in Seq(Byte)
        /\ Len(borsh_data(doc)) = len
        /\ \A i \in 1..U32_BYTES : borsh_data(doc)[i] = len_bytes(Size[doc])[i]
        /\ \A i \in 1..Size[doc] : borsh_data(doc)[U32_BYTES + i] = json_bytes(doc)[i]
    BY <2>5, DataBytes
  <2>7. /\ prefix.ok
        /\ payload.ok
        /\ Holds(payload.mm, a.mm, cur, borsh_data(doc))
    <3> HIDE DEF a, cur
    <3>1. /\ cur \in DOMAIN a.mm.map
          /\ Len(len_bytes(Size[doc])) + Len(json_bytes(doc)) = a.mm.map[cur]
          /\ Len(borsh_data(doc)) = a.mm.map[cur]
      BY <2>3, <2>6
    <3>a. /\ \A i \in 1..Len(len_bytes(Size[doc])) : borsh_data(doc)[i] = len_bytes(Size[doc])[i]
          /\ \A i \in 1..Len(json_bytes(doc)) :
               borsh_data(doc)[Len(len_bytes(Size[doc])) + i] = json_bytes(doc)[i]
      BY <2>6
    <3>b. /\ len_bytes(Size[doc]) \in Seq(Byte)
          /\ json_bytes(doc) \in Seq(Byte)
          /\ borsh_data(doc) \in Seq(Byte)
      BY <2>6
    <3>c. WellFormed(a.mm)
      BY <2>2
    <3>2. LET first == write_bytes_at(a.mm, cur, 0, len_bytes(Size[doc]))
              second == write_bytes_at(first.mm, cur, Len(len_bytes(Size[doc])), json_bytes(doc))
          IN  first.ok /\ second.ok /\ Holds(second.mm, a.mm, cur, borsh_data(doc))
      BY ONLY <3>1, <3>a, <3>b, <3>c, WriteTwoParts
    <3>3. QED
      BY <2>1, <2>6, <3>2
  <2>8. w = Ok(payload.mm, as_u32(cur))
    BY <1>4, <1>6, <2>1, <2>7
  <2>9. as_u32(cur) = cur
    <3>1. \A n \in 0..I32Max : as_u32(n) = n
      BY WidthAssumption DEF as_u32, U32Values
    <3>2. cur \in 0..I32Max
      BY <1>1, <2>2, WidthAssumption
    <3>3. QED
      BY <3>1, <3>2
  <2>10. w.ok /\ w.val = cur /\ w.mm = payload.mm
    BY <2>8, <2>9 DEF Ok
  <2>11. StagedAfter(w.mm, m, doc)
    <3> HIDE DEF payload, prefix, a, w, cur, len
    <3>1. Holds(w.mm, a.mm, cur, borsh_data(doc))
      BY <2>7, <2>10
    <3>2. SameLimits(m, w.mm)
      BY <1>2, <3>1 DEF Holds, SameLimits
    <3>3. Len(w.mm.memory) = cur + len /\ cur \in DOMAIN w.mm.map
      BY <2>2, <2>3, <3>1 DEF Holds
    <3>4. \A p \in DOMAIN m.map : p \in DOMAIN w.mm.map /\ Contents(w.mm)[p] = Contents(m)[p]
      BY <2>2, <2>3, <2>4, <3>1 DEF Holds
    <3>5. QED
      BY <3>1, <3>2, <3>3, <3>4 DEF StagedAfter, Holds, StagedSize, cur, len
  <2>12. QED
    BY <1>2, <1>6, <2>10, <2>11 DEF StagedSize
<1>7. QED
  BY <1>3, <1>5, <1>6

-----------------------------------------------------------------------------
(***************************************************************************)
(* What an entry point stores.                                             *)
(***************************************************************************)

\* The longest text has seven fragments.
LEMMA SevenFragments == MaxFragments = 7 /\ U32_BYTES = 4
  BY DEF MaxFragments, FallbackFailed, CannotRead, U32_BYTES

\* A text that says an input could not be read, though it was staged.
Unreadable(text) ==
  \E i \in DOMAIN text :
    /\ text[i] \in {"Cannot read", "Cannot deserialize"}
    /\ i < Len(text)
    /\ text[i + 1] \in {"State", "Init State", "Event"}

\* A text of the SDK that says nothing of the kind.
GoodText(text) ==
  /\ text \in Seq(Fragments)
  /\ Len(text) <= MaxFragments
  /\ ~Unreadable(text)

\* The texts the SDK answers with.
LEMMA SdkTexts ==
  /\ GoodText(<< >>)
  /\ \A fragment \in Fragments :
       GoodText(<<ERR_EVENT_REJECTED, fragment>>) /\ GoodText(<<ERR_INIT_REJECTED, fragment>>)
  /\ GoodText(<<ERR_FINAL_STATE_SER>>)
  /\ GoodText(CannotParse("State")) /\ GoodText(CannotParse("Event"))
  /\ GoodText(FallbackFailed(CannotParse("State"), CannotParse("Init State")))
<1>1. /\ ERR_EVENT_REJECTED \in Fragments /\ ERR_INIT_REJECTED \in Fragments
      /\ ERR_FINAL_STATE_SER \in Fragments
      /\ "Cannot parse" \in Fragments /\ "State" \in Fragments /\ "Init State" \in Fragments
      /\ "Event" \in Fragments /\ "fallback to init state also failed" \in Fragments
  BY FragmentsAssumption DEF SdkFragments
<1>2. GoodText(<< >>)
  BY SevenFragments DEF GoodText, Unreadable
<1>3. ASSUME NEW a \in Fragments, NEW b \in Fragments, a \notin {"Cannot read", "Cannot deserialize"}
      PROVE  GoodText(<<a, b>>)
  <2>1. PICK t : t = <<a, b>>
    OBVIOUS
  <2>2. t \in Seq(Fragments) /\ Len(t) = 2 /\ DOMAIN t = 1..2 /\ t[1] = a
    BY <2>1
  <2>3. ~Unreadable(t)
    <3>1. ASSUME NEW i \in 1..2, i < 2 PROVE i = 1
      BY <3>1
    <3>2. QED
      BY <1>3, <2>2, <3>1 DEF Unreadable
  <2>4. Len(t) <= MaxFragments
    BY <2>2, SevenFragments
  <2>5. QED
    BY <2>1, <2>2, <2>3, <2>4 DEF GoodText
<1>4. ASSUME NEW a \in Fragments
      PROVE  GoodText(<<a>>)
  <2>1. PICK t : t = <<a>>
    OBVIOUS
  <2>2. t \in Seq(Fragments) /\ Len(t) = 1 /\ DOMAIN t = 1..1
    BY <2>1
  <2>3. ~Unreadable(t)
    BY <2>2 DEF Unreadable
  <2>4. Len(t) <= MaxFragments
    BY <2>2, SevenFragments
  <2>5. QED
    BY <2>1, <2>2, <2>3, <2>4 DEF GoodText
<1>5. GoodText(FallbackFailed(CannotParse("State"), CannotParse("Init State")))
  <2> DEFINE S == Fragments \ {"Cannot read", "Cannot deserialize"}
             middle == <<"fallback to init state also failed">>
  <2>1. /\ "Cannot parse" \in S /\ "State" \in S /\ "Init State" \in S
        /\ "fallback to init state also failed" \in S
    BY <1>1
  <2> HIDE DEF S
  <2>2. ASSUME NEW a \in S, NEW b \in S
        PROVE  <<a, b>> \in Seq(S) /\ Len(<<a, b>>) = 2 /\ <<a>> \in Seq(S) /\ Len(<<a>>) = 1
    OBVIOUS
  <2>3. /\ CannotParse("State") \in Seq(S) /\ Len(CannotParse("State")) = 2
        /\ CannotParse("Init State") \in Seq(S) /\ Len(CannotParse("Init State")) = 2
        /\ middle \in Seq(S) /\ Len(middle) = 1
    BY <2>1, <2>2 DEF CannotParse
  <2> HIDE DEF middle
  <2>4. PICK t : t = CannotParse("State") \o middle \o CannotParse("Init State")
    OBVIOUS
  <2>5. t \in Seq(S) /\ Len(t) = 5
    <3>2. PICK x \in Seq(S) : x = CannotParse("State") /\ Len(x) = 2
      BY <2>3, Zenon
    <3>3. PICK y \in Seq(S) : y = middle /\ Len(y) = 1
      BY <2>3, Zenon
    <3>4. PICK z \in Seq(S) : z = CannotParse("Init State") /\ Len(z) = 2
      BY <2>3, Zenon
    <3>5. t = x \o y \o z
      BY <2>4, <3>2, <3>3, <3>4, Zenon
    <3>6. PICK u \in Seq(S) : u = x \o y /\ Len(u) = Len(x) + Len(y)
      BY ConcatProperties
    <3>7. u \o z \in Seq(S) /\ Len(u \o z) = Len(u) + Len(z)
      BY ConcatProperties
    <3>8. t = u \o z
      BY <3>5, <3>6
    <3>9. t \in Seq(S) /\ Len(t) = Len(u) + Len(z)
      BY <3>7, <3>8, Zenon
    <3>10. Len(t) = (2 + 1) + 2
      BY <3>2, <3>3, <3>4, <3>6, <3>9, Zenon
    <3>11. (2 + 1) + 2 = 5
      OBVIOUS
    <3>12. QED
      BY <3>9, <3>10, <3>11, Zenon
  <2>6. \A i \in DOMAIN t : t[i] \in S
    BY <2>5, LenProperties
  <2>7. t \in Seq(Fragments) /\ ~Unreadable(t)
    <3>1. S \subseteq Fragments
      BY DEF S
    <3>2. t \in Seq(Fragments)
      BY <2>5, <3>1, ElementOfSeq
    <3>3. ~Unreadable(t)
      BY <2>6 DEF Unreadable, S
    <3>4. QED
      BY <3>2, <3>3
  <2>8. Len(t) <= MaxFragments
    BY <2>5, SevenFragments
  <2>9. FallbackFailed(CannotParse("State"), CannotParse("Init State")) = t
    BY <2>4 DEF FallbackFailed, middle
  <2>10. QED
    BY <2>7, <2>8, <2>9 DEF GoodText
<1>6. /\ ERR_EVENT_REJECTED \notin {"Cannot read", "Cannot deserialize"}
      /\ ERR_INIT_REJECTED \notin {"Cannot read", "Cannot deserialize"}
  BY DEF ERR_EVENT_REJECTED, ERR_INIT_REJECTED
<1>7. /\ "Cannot parse" \notin {"Cannot read", "Cannot deserialize"}
  OBVIOUS
<1>8. QED
  BY <1>1, <1>2, <1>3, <1>4, <1>5, <1>6, <1>7 DEF CannotParse

\* What a call names is of the types the contract works on.
LEMMA CallTypes ==
  ASSUME NEW c \in Calls
  PROVE  /\ c.op \in {"validate", "execute"}
         /\ c.init_state \in Doc
         /\ c.op = "execute" => c.state \in Doc /\ c.event \in Doc /\ c.is_owner \in BOOLEAN
         /\ c.module.imports \in Seq([module : STRING, name : STRING, kind : STRING,
                                      params : Seq(STRING), results : Seq(STRING)])
         /\ c.module.min_memory \in Nat /\ c.module.table \in Nat
         /\ c.module.start \in BOOLEAN /\ c.module.main \in BOOLEAN /\ c.module.init_check \in BOOLEAN
         /\ c.module.exported \in BOOLEAN
         /\ \A event \in Event, state \in State, is_owner \in BOOLEAN :
              callback(c.module.logic[event], is_owner, new(state)).result \in
                [state : State, success : BOOLEAN, error : Fragments]
         /\ \A state \in State :
              callback(c.module.init_logic[state], FALSE, new("")).result \in
                [state : {""}, success : BOOLEAN, error : Fragments]
  BY CallAssumption, CallbackResults DEF Result

\* The data an execution stores.
LEMMA VerdictType ==
  ASSUME NEW c \in Calls, c.op = "execute", NEW v, v = VerdictOf(c)
  PROVE  /\ v.final_state \in Doc
         /\ v.success \in BOOLEAN
         /\ GoodText(v.error)
         /\ v = [final_state |-> v.final_state, success |-> v.success, error |-> v.error]
         /\ Size[v.final_state] + 2 * U32_BYTES + 1 + MaxFragments <= I32Max
         /\ v # Fails
<1> DEFINE Fit == ({Null} \cup {ToVec[state] : state \in State}) \ {Fails}
<1>1. Null \in Doc /\ Null # Fails /\ Null \in Fit
  BY ContractAssumption
<1>2. ASSUME NEW r \in [state : State, success : BOOLEAN, error : Fragments],
             v = result_data(r)
      PROVE  /\ v.final_state \in Doc \cap Fit
             /\ v.success \in BOOLEAN
             /\ GoodText(v.error)
             /\ v = [final_state |-> v.final_state, success |-> v.success, error |-> v.error]
  <2>1. r.state \in State /\ r.success \in BOOLEAN /\ r.error \in Fragments
    OBVIOUS
  <2>2. CASE ToVec[r.state] = Fails
    <3>1. v = [final_state |-> Null, success |-> FALSE, error |-> <<ERR_FINAL_STATE_SER>>]
      BY <1>2, <2>2 DEF result_data, result_error
    <3>2. v.final_state = Null /\ v.success = FALSE /\ v.error = <<ERR_FINAL_STATE_SER>>
      BY <3>1
    <3>3. GoodText(v.error)
      BY <3>2, SdkTexts
    <3>4. v = [final_state |-> v.final_state, success |-> v.success, error |-> v.error]
      BY <3>1
    <3>5. QED
      BY <1>1, <3>2, <3>3, <3>4
  <2>3. CASE ToVec[r.state] # Fails
    <3>1. v = [final_state |-> ToVec[r.state], success |-> r.success,
               error |-> IF r.success THEN << >> ELSE <<ERR_EVENT_REJECTED, r.error>>]
      BY <1>2, <2>3 DEF result_data
    <3>2. ToVec[r.state] \in Doc
      BY <2>1, <2>3, ContractAssumption
    <3>3. ToVec[r.state] \in Fit
      BY <2>1, <2>3
    <3>4. GoodText(IF r.success THEN << >> ELSE <<ERR_EVENT_REJECTED, r.error>>)
      BY <2>1, SdkTexts
    <3> HIDE DEF Fit
    <3>5. QED
      BY <2>1, <3>1, <3>2, <3>3, <3>4
  <2>4. QED
    BY <2>2, <2>3
<1>3. ASSUME NEW text, GoodText(text), v = result_error(text)
      PROVE  /\ v.final_state \in Doc \cap Fit
             /\ v.success \in BOOLEAN
             /\ GoodText(v.error)
             /\ v = [final_state |-> v.final_state, success |-> v.success, error |-> v.error]
  BY <1>1, <1>3 DEF result_error
<1>4. /\ v.final_state \in Doc \cap Fit
      /\ v.success \in BOOLEAN
      /\ GoodText(v.error)
      /\ v = [final_state |-> v.final_state, success |-> v.success, error |-> v.error]
  <2> HIDE DEF Fit
  <2>1. CASE Effective(c) = Fails
    BY <1>3, <2>1, SdkTexts DEF VerdictOf
  <2>2. CASE Effective(c) # Fails /\ ParseEvent[c.event] = Fails
    BY <1>3, <2>2, SdkTexts DEF VerdictOf
  <2>3. CASE Effective(c) # Fails /\ ParseEvent[c.event] # Fails
    <3>1. v = result_data(RunOf(c).result)
      BY <2>3 DEF VerdictOf
    <3>2. Effective(c) \in State /\ ParseEvent[c.event] \in Event
      BY <2>3, CallTypes, ContractAssumption DEF Effective
    <3>3. RunOf(c).result \in [state : State, success : BOOLEAN, error : Fragments]
      BY <3>2, CallTypes DEF RunOf
    <3>4. QED
      BY <1>2, <3>1, <3>3
  <2>4. QED
    BY <2>1, <2>2, <2>3
<1>5. Size[v.final_state] + 2 * U32_BYTES + 1 + MaxFragments <= I32Max
  BY <1>4, LengthAssumption
<1>6. v \in [final_state : Doc, success : BOOLEAN, error : Seq(Fragments)]
  BY <1>4 DEF GoodText
<1>7. QED
  BY <1>4, <1>5, <1>6, FragmentsAssumption

\* The data an init check stores.
LEMMA CheckType ==
  ASSUME NEW c \in Calls, NEW v, v = CheckVerdict(c)
  PROVE  /\ v.success \in BOOLEAN
         /\ GoodText(v.error)
         /\ v = [success |-> v.success, error |-> v.error]
         /\ v # Fails
<1>1. ASSUME NEW text, GoodText(text), v = check_error(text)
      PROVE  /\ v.success \in BOOLEAN
             /\ GoodText(v.error)
             /\ v = [success |-> v.success, error |-> v.error]
  BY <1>1 DEF check_error
<1>2. ASSUME v = check_ok
      PROVE  /\ v.success \in BOOLEAN
             /\ GoodText(v.error)
             /\ v = [success |-> v.success, error |-> v.error]
  <2>1. v.success = TRUE /\ v.error = << >>
    BY <1>2 DEF check_ok
  <2>2. v = [success |-> v.success, error |-> v.error]
    BY <1>2 DEF check_ok
  <2>3. QED
    BY <2>1, <2>2, SdkTexts
<1>3. /\ v.success \in BOOLEAN
      /\ GoodText(v.error)
      /\ v = [success |-> v.success, error |-> v.error]
  <2>1. CASE ParseState[c.init_state] = Fails
    BY <1>1, <2>1, SdkTexts DEF CheckVerdict
  <2>2. CASE ParseState[c.init_state] # Fails
    <3>1. ParseState[c.init_state] \in State
      BY <2>2, CallTypes, ContractAssumption
    <3>2. InitRun(c).result \in [state : {""}, success : BOOLEAN, error : Fragments]
      BY <3>1, CallTypes DEF InitRun
    <3>3. InitRun(c).result.error \in Fragments
      BY <3>2
    <3>4. v = IF InitRun(c).result.success THEN check_ok
              ELSE check_error(<<ERR_INIT_REJECTED, InitRun(c).result.error>>)
      BY <2>2 DEF CheckVerdict, check_data
    <3>5. QED
      BY <1>1, <1>2, <3>3, <3>4, SdkTexts
  <2>3. QED
    BY <2>1, <2>2
<1>4. v \in [success : BOOLEAN, error : Seq(Fragments)]
  BY <1>3 DEF GoodText
<1>5. QED
  BY <1>3, <1>4, FragmentsAssumption

\* An init check is encoded in bytes, which decode to it.
LEMMA CheckBytesType ==
  ASSUME NEW success \in BOOLEAN, NEW error, GoodText(error), NEW data,
         data.success = success, data.error = error
  PROVE  /\ borsh_check(data) \in Seq(Byte)
         /\ Len(borsh_check(data)) \in 5..12
         /\ 12 <= I32Max
         /\ decode_check(borsh_check(data)) = [success |-> success, error |-> error]
<1>1. error \in Seq(Fragments)
  BY DEF GoodText
<1>k. PICK k \in 0..7 : k = Len(error)
  <2>1. Len(error) \in Nat
    BY <1>1, LenProperties
  <2>2. Len(error) <= 7
    BY SevenFragments DEF GoodText
  <2>3. PICK k \in Nat : k = Len(error)
    BY <2>1
  <2>k. k <= 7
    BY <2>2, <2>3, Zenon
  <2>4. k \in 0..7
    BY ONLY <2>k, k \in Nat
  <2>5. QED
    BY <2>3, <2>4
<1>2. /\ borsh_check(data) = CheckBytes(success, error)
      /\ Len(borsh_check(data)) = 1 + U32_BYTES + Len(error)
      /\ decode_check(borsh_check(data)) = [success |-> success, error |-> error]
  BY <1>1, BorshCheck, DecodeCheck
<1>3. 17 <= I32Max
  <2>1. Null \in ({Null} \cup {ToVec[state] : state \in State}) \ {Fails}
    BY ContractAssumption
  <2>2. Size[Null] + 2 * U32_BYTES + 1 + MaxFragments <= I32Max
    BY <2>1, LengthAssumption
  <2>3. Size[Null] \in Nat \ {0}
    BY ContractAssumption, SdkAssumption
  <2>4. QED
    BY <2>2, <2>3, SevenFragments, WidthAssumption
<1>4. \A i \in 1..U32_BYTES : <<"len", Len(error), i>> \in Byte
  <2>1. k \in 0..I32Max
    BY ONLY k \in 0..7, <1>3, WidthAssumption
  <2>2. \A i \in 1..U32_BYTES : <<"len", Len(error), i>> \in Cells(Fragments, MaxFragments)
    BY <1>k, <2>1 DEF Cells
  <2>3. QED
    BY <2>2, FragmentsAssumption
<1>5. <<"bool", success, 0>> \in Byte
  <2>1. <<"bool", success, 0>> \in Cells(Fragments, MaxFragments)
    BY DEF Cells
  <2>2. QED
    BY <2>1, FragmentsAssumption
<1>6. \A fragment \in Fragments, i \in 1..7 : <<"text", fragment, i>> \in Byte
  <2>1. \A fragment \in Fragments, i \in 1..MaxFragments :
          <<"text", fragment, i>> \in Cells(Fragments, MaxFragments)
    BY DEF Cells
  <2>2. QED
    BY <2>1, FragmentsAssumption, SevenFragments
<1>7. CheckBytes(success, error) \in [1..(1 + U32_BYTES + Len(error)) -> Byte]
  <2>1. SUFFICES ASSUME NEW i \in 1..(1 + U32_BYTES + Len(error))
                 PROVE  (IF i = 1 THEN <<"bool", success, 0>>
                         ELSE IF i <= 1 + U32_BYTES THEN <<"len", Len(error), i - 1>>
                         ELSE <<"text", error[i - 1 - U32_BYTES], i - 1 - U32_BYTES>>) \in Byte
    BY DEF CheckBytes
  <2>2. CASE i = 1
    BY <1>5, <2>2
  <2>3. CASE i # 1 /\ i <= 1 + U32_BYTES
    <3>1. i - 1 \in 1..U32_BYTES
      BY <2>3, <1>k, SevenFragments
    <3>2. QED
      BY <1>4, <2>3, <3>1
  <2>4. CASE i # 1 /\ ~(i <= 1 + U32_BYTES)
    <3>1. i - 1 - U32_BYTES \in 1..k /\ i - 1 - U32_BYTES \in 1..7
      <4>1. i \in 1..(1 + U32_BYTES + k)
        BY <1>k
      <4>2. QED
        BY ONLY <4>1, <2>4, SevenFragments, k \in 0..7
    <3>2. error[i - 1 - U32_BYTES] \in Fragments
      BY <1>1, <1>k, <3>1, ElementOfSeq
    <3>3. QED
      BY <1>6, <2>4, <3>1, <3>2
  <2>5. QED
    BY <2>2, <2>3, <2>4
<1>8. 1 + U32_BYTES + Len(error) \in 5..12
  <2>1. 1 + U32_BYTES + k \in 5..12
    BY SevenFragments
  <2>2. QED
    BY <1>k, <2>1, Zenon
<1>9. CheckBytes(success, error) \in Seq(Byte)
  BY <1>7, <1>8, FunIsSeq
<1>10. 12 <= I32Max
  BY <1>3, WidthAssumption
<1>11. QED
  BY <1>2, <1>8, <1>9, <1>10

\* A result is encoded in bytes, fewer than an i32 counts, which decode to it.
LEMMA ResultBytesType ==
  ASSUME NEW c \in Calls, c.op = "execute", NEW v, v = VerdictOf(c)
  PROVE  /\ borsh_result(v) \in Seq(Byte)
         /\ Len(borsh_result(v)) \in 1..I32Max
         /\ decode_result(borsh_result(v)) = v
<1>1. /\ v.final_state \in Doc
      /\ v.success \in BOOLEAN
      /\ GoodText(v.error)
      /\ v = [final_state |-> v.final_state, success |-> v.success, error |-> v.error]
      /\ Size[v.final_state] + 2 * U32_BYTES + 1 + MaxFragments <= I32Max
  BY VerdictType
<1>2. Size[v.final_state] \in Nat \ {0}
  BY <1>1, SdkAssumption
<1>3. /\ borsh_data(v.final_state) \in Seq(Byte)
      /\ Len(borsh_data(v.final_state)) = U32_BYTES + Size[v.final_state]
  <2>1. Size[v.final_state] <= I32Max
    BY <1>1, <1>2, SevenFragments, WidthAssumption
  <2>2. QED
    BY <1>1, <2>1, DataBytes
<1>4. borsh_check(v) \in Seq(Byte) /\ Len(borsh_check(v)) \in 5..12
  BY <1>1, CheckBytesType
<1>5. /\ borsh_result(v) \in Seq(Byte)
      /\ Len(borsh_result(v)) = U32_BYTES + Size[v.final_state] + Len(borsh_check(v))
  <2>1. PICK x \in Seq(Byte) : x = borsh_data(v.final_state)
    BY <1>3
  <2>2. PICK y \in Seq(Byte) : y = borsh_check(v)
    BY <1>4
  <2>3. x \o y \in Seq(Byte) /\ Len(x \o y) = Len(x) + Len(y)
    BY ConcatProperties
  <2>4. borsh_result(v) = x \o y
    BY <2>1, <2>2 DEF borsh_result
  <2>5. QED
    BY <1>3, <2>1, <2>2, <2>3, <2>4, Zenon
<1>6. Len(borsh_result(v)) \in 1..I32Max
  <2>1. PICK k \in 5..12 : k = Len(borsh_check(v))
    BY <1>4
  <2>2. PICK s \in Nat \ {0} : s = Size[v.final_state]
    BY <1>2
  <2>3. s + 2 * 4 + 1 + 7 <= I32Max
    BY <1>1, <2>2, SevenFragments
  <2>4. 4 + s + k \in 1..I32Max
    BY <2>3, WidthAssumption
  <2>5. Len(borsh_result(v)) = 4 + s + k
    BY <1>5, <2>1, <2>2, SevenFragments
  <2>6. QED
    BY <2>4, <2>5
<1>7. decode_result(borsh_result(v)) = v
  <2>1. v.error \in Seq(Fragments)
    BY <1>1 DEF GoodText
  <2>2. decode_result(borsh_result(v)) =
          [final_state |-> v.final_state, success |-> v.success, error |-> v.error]
    BY <1>1, <2>1, DecodeResult
  <2>3. QED
    BY <1>1, <2>2, Zenon
<1>8. QED
  BY <1>5, <1>6, <1>7

\* The bytes the guest stores for a call, once it has something to store.
LEMMA StoredBytes ==
  ASSUME call \in Calls, local.out = OutFor(call)
  PROVE  OutBytes \in Seq(Byte) /\ Len(OutBytes) \in 1..I32Max
<1>1. CASE call.op = "execute"
  BY <1>1, ResultBytesType DEF OutBytes, OutFor
<1>2. CASE call.op # "execute"
  <2>1. OutBytes = borsh_check(CheckVerdict(call))
    BY <1>2 DEF OutBytes, OutFor
  <2>2. /\ CheckVerdict(call).success \in BOOLEAN
        /\ GoodText(CheckVerdict(call).error)
    BY CheckType
  <2>3. /\ borsh_check(CheckVerdict(call)) \in Seq(Byte)
        /\ Len(borsh_check(CheckVerdict(call))) \in 5..12
        /\ 12 <= I32Max
    BY <2>2, CheckBytesType
  <2>4. 5..12 \subseteq 1..I32Max
    BY <2>3, WidthAssumption
  <2>5. QED
    BY <2>1, <2>3, <2>4, Zenon
<1>3. QED
  BY <1>1, <1>2

-----------------------------------------------------------------------------
(***************************************************************************)
(* Imports.                                                                *)
(***************************************************************************)

\* validate finds nothing wrong exactly with the imports ContractCall accepts,
\* and names a kind of invalid module for any others.
LEMMA ImportsAgree ==
  ASSUME NEW c \in Calls
  PROVE  /\ imports_fault(c.module.imports) = "none" <=> Call!ImportsSdk(c.module.imports)
         /\ imports_fault(c.module.imports) \in {"none"} \cup InvalidModuleKinds
<1>1. PICK imports : imports = c.module.imports
  OBVIOUS
<1>2. PICK n \in Nat : n = Len(imports) /\ DOMAIN imports = 1..n
  <2>1. PICK S : imports \in Seq(S)
    BY <1>1, CallTypes
  <2>2. QED
    BY <2>1, LenProperties
<1>3. \A i \in 1..n : import_fault(imports, i) \in {"none"} \cup InvalidModuleKinds
  BY DEF import_fault, InvalidModuleKinds
<1>4. \A i \in 1..n : import_fault(imports, i) = "none" <=>
        linkable(imports[i]) /\ \A j \in 1..(i - 1) : imports[j].name # imports[i].name
  BY DEF import_fault, linkable
<1> DEFINE faulty == {i \in 1..n : import_fault(imports, i) # "none"}
           first == CHOOSE i \in faulty : \A j \in faulty : i <= j
           names == {imports[i].name : i \in 1..n}
<1>5. imports_fault(imports) =
        IF faulty # {} THEN import_fault(imports, first)
        ELSE IF SDK_FUNCTIONS \subseteq names THEN "none" ELSE "MissingImports"
  BY <1>2 DEF imports_fault
<1>6. faulty # {} => first \in faulty
  <2>1. faulty \in SUBSET Nat
    OBVIOUS
  <2>2. QED
    BY <2>1, LeastElement
<1>7. imports_fault(imports) \in {"none"} \cup InvalidModuleKinds
  <2> HIDE DEF first
  <2>1. first \in faulty => import_fault(imports, first) \in {"none"} \cup InvalidModuleKinds
    BY <1>3
  <2>2. QED
    BY <1>5, <1>6, <2>1 DEF InvalidModuleKinds
<1>8. imports_fault(imports) = "none" <=> faulty = {} /\ SDK_FUNCTIONS \subseteq names
  <2> HIDE DEF first
  <2>1. first \in faulty => import_fault(imports, first) # "none"
    OBVIOUS
  <2> HIDE DEF faulty, names
  <2>2. QED
    BY <1>5, <1>6, <2>1
<1>9. Call!ImportsSdk(imports) <=>
        n = Cardinality(SDK_FUNCTIONS) /\ names = SDK_FUNCTIONS /\ \A i \in 1..n : linkable(imports[i])
  BY <1>1, <1>2, SameAcceptance
<1> DEFINE f == [i \in 1..n |-> imports[i].name]
<1>10. IsFiniteSet(1..n) /\ Cardinality(1..n) = n
  BY FS_Interval
<1>11. ASSUME faulty = {}, SDK_FUNCTIONS \subseteq names
       PROVE  Call!ImportsSdk(imports)
  <2>1. \A i \in 1..n : linkable(imports[i]) /\ \A j \in 1..(i - 1) : imports[j].name # imports[i].name
    BY <1>4, <1>11
  <2>2. names = SDK_FUNCTIONS
    BY <1>11, <2>1 DEF linkable
  <2>3. f \in [1..n -> SDK_FUNCTIONS]
    BY <2>1 DEF linkable
  <2>4. \A i, j \in 1..n : f[i] = f[j] => i = j
    BY <2>1
  <2>5. \A s \in SDK_FUNCTIONS : \E i \in 1..n : f[i] = s
    BY <2>2
  <2> HIDE DEF f
  <2>6. f \in Bijection(1..n, SDK_FUNCTIONS)
    BY <2>3, <2>4, <2>5 DEF Bijection, Injection, Surjection, IsInjective
  <2>7. Cardinality(SDK_FUNCTIONS) = n
    BY <1>10, <2>6, FS_Bijection DEF ExistsBijection
  <2>8. QED
    BY <1>9, <2>1, <2>2, <2>7
<1>12. ASSUME Call!ImportsSdk(imports)
       PROVE  faulty = {} /\ SDK_FUNCTIONS \subseteq names
  <2>1. n = Cardinality(SDK_FUNCTIONS) /\ names = SDK_FUNCTIONS /\ \A i \in 1..n : linkable(imports[i])
    BY <1>9, <1>12
  <2>2. f \in [1..n -> SDK_FUNCTIONS]
    BY <2>1 DEF linkable
  <2>3. \A s \in SDK_FUNCTIONS : \E i \in 1..n : f[i] = s
    BY <2>1
  <2>4. \A i \in 1..n : f[i] = imports[i].name
    OBVIOUS
  <2> HIDE DEF f
  <2>5. f \in Surjection(1..n, SDK_FUNCTIONS)
    BY <2>2, <2>3 DEF Surjection
  <2>6. f \in Injection(1..n, SDK_FUNCTIONS)
    BY <1>10, <2>1, <2>5, FS_SurjSameCardinalityImpliesInj
  <2>7. \A i, j \in 1..n : f[i] = f[j] => i = j
    BY <2>6 DEF Injection, IsInjective
  <2>8. \A i \in 1..n : \A j \in 1..(i - 1) : imports[j].name # imports[i].name
    BY <2>4, <2>7
  <2>9. QED
    BY <1>4, <2>1, <2>8
<1>13. QED
  <2> HIDE DEF faulty, names
  <2>1. QED
    BY <1>1, <1>7, <1>8, <1>11, <1>12

-----------------------------------------------------------------------------
(***************************************************************************)
(* The inputs of a call.                                                   *)
(***************************************************************************)

\* A validation stages one document, an execution three.
LEMMA InputsOf ==
  ASSUME NEW c \in Calls
  PROVE  /\ c # NoCall
         /\ c.op = "validate" => /\ DOMAIN Inputs(c) = {1} /\ Len(Inputs(c)) = 1
                                 /\ Inputs(c)[1] = c.init_state
         /\ c.op = "execute" => /\ DOMAIN Inputs(c) = {1, 2, 3} /\ Len(Inputs(c)) = 3
                                /\ Inputs(c)[1] = c.state
                                /\ Inputs(c)[2] = c.init_state
                                /\ Inputs(c)[3] = c.event
         /\ \A i \in DOMAIN Inputs(c) : /\ Inputs(c)[i] \in Doc
                                        /\ Size[Inputs(c)[i]] <= 2 * I32Max + 1
                                        /\ StagedSize(Inputs(c)[i]) \in Nat
                                        /\ StagedSize(Inputs(c)[i]) > 0
<1>1. c # NoCall
  <2>1. NoCall.op = "none"
    BY DEF NoCall
  <2>2. c.op # "none"
    BY CallTypes
  <2>3. QED
    BY <2>1, <2>2
<1>2. ASSUME c.op = "validate"
      PROVE  /\ DOMAIN Inputs(c) = {1} /\ Len(Inputs(c)) = 1
             /\ Inputs(c)[1] = c.init_state
  <2>1. Inputs(c) = <<c.init_state>>
    BY <1>2 DEF Inputs
  <2>2. \A d : DOMAIN <<d>> = {1} /\ Len(<<d>>) = 1 /\ <<d>>[1] = d
    OBVIOUS
  <2>3. QED
    BY <2>1, <2>2, Zenon
<1>3. ASSUME c.op = "execute"
      PROVE  /\ DOMAIN Inputs(c) = {1, 2, 3} /\ Len(Inputs(c)) = 3
             /\ Inputs(c)[1] = c.state
             /\ Inputs(c)[2] = c.init_state
             /\ Inputs(c)[3] = c.event
  <2>1. Inputs(c) = <<c.state, c.init_state, c.event>>
    BY <1>3 DEF Inputs
  <2>2. \A x, y, z : /\ DOMAIN <<x, y, z>> = {1, 2, 3} /\ Len(<<x, y, z>>) = 3
                     /\ <<x, y, z>>[1] = x /\ <<x, y, z>>[2] = y /\ <<x, y, z>>[3] = z
    OBVIOUS
  <2>3. PICK x, y, z : x = c.state /\ y = c.init_state /\ z = c.event
    OBVIOUS
  <2>4. Inputs(c) = <<x, y, z>>
    BY <2>1, <2>3
  <2>5. QED
    BY ONLY <2>2, <2>3, <2>4
<1>4. ASSUME NEW i \in DOMAIN Inputs(c)
      PROVE  /\ Inputs(c)[i] \in Doc
             /\ Size[Inputs(c)[i]] <= 2 * I32Max + 1
             /\ StagedSize(Inputs(c)[i]) \in Nat
             /\ StagedSize(Inputs(c)[i]) > 0
  <2>1. Inputs(c)[i] \in Doc
    BY <1>2, <1>3, CallTypes
  <2>2. Size[Inputs(c)[i]] <= 2 * I32Max + 1
    BY LengthAssumption
  <2>3. Size[Inputs(c)[i]] \in Nat
    BY <2>1, SdkAssumption
  <2>4. QED
    BY <2>1, <2>2, <2>3, SevenFragments DEF StagedSize
<1>5. QED
  BY <1>1, <1>2, <1>3, <1>4

-----------------------------------------------------------------------------
(***************************************************************************)
(* The invariant holds at first, and every step keeps it.                  *)
(***************************************************************************)

\* The invariant holds before the first call.
LEMMA SessionInit == Init => SessionInv
<1> SUFFICES ASSUME Init PROVE SessionInv
  OBVIOUS
<1>1. /\ limits \in Limits /\ pc = "done" /\ call = NoCall /\ mm = from_limits(limits)
      /\ ptrs = << >> /\ fuel = 0 /\ pages = 0 /\ local = NoLocal /\ result_ptr = 0
      /\ trap = "none" /\ validated = {}
  BY DEF Init
<1>2. /\ WellFormed(mm)
      /\ mm.store_limits.memory_size = limits.memory_size
      /\ limits.memory_size \in Nat
  BY <1>1, FromLimits
<1>3. DOMAIN ptrs = {} /\ ptrs \in Seq(U32)
  BY <1>1
<1>4. NoCall.op = "none"
  BY DEF NoCall
<1>5. TypeOK
  BY <1>1, <1>2, <1>3, WidthAssumption
     DEF TypeOK, WellFormed, I32, PcValues, GuestSteps, TrapReasons
<1>6. StoreInv
  BY <1>1, <1>2 DEF StoreInv, SameLimits
<1>7. CallInv
  BY <1>1, <1>2, <1>4 DEF CallInv, Entered, Linked, Staged, GuestSteps
<1>8. StagedInv
  BY <1>1, <1>3 DEF StagedInv, Staged, Entered, Linked, GuestSteps
<1>9. GuestInv
  BY <1>1, <1>4 DEF GuestInv, NoLocal
<1>10. TrapInv /\ ResultInv /\ ValidatedInv
  BY <1>1 DEF TrapInv, ResultInv, ValidatedInv
<1>11. AnswerInv
  BY <1>1 DEF AnswerInv, RefusalMeansInputsTooBig, MetricsAgree, ValidatedModulesRun
<1>12. QED
  BY <1>5, <1>6, <1>7, <1>8, <1>9, <1>10, <1>11 DEF SessionInv

\* A call that is taken on finds an empty store.
LEMMA SubmitStep ==
  ASSUME SessionInv, NEW c \in Calls, Submit(c)
  PROVE  SessionInv'
<1>1. /\ pc = "done" /\ pc' = (IF c.op = "validate" THEN "imports" ELSE "stage")
      /\ call' = c /\ trap' = "none" /\ result' = Failure("none") /\ observed' = NotObserved
      /\ limits' = limits /\ mm' = mm /\ ptrs' = ptrs /\ fuel' = fuel /\ pages' = pages
      /\ local' = local /\ result_ptr' = result_ptr /\ validated' = validated
  BY DEF Submit, storeVars, guestVars
<1>2. /\ limits \in Limits /\ mm = from_limits(limits) /\ ptrs = << >>
      /\ fuel = 0 /\ pages = 0 /\ local = NoLocal
  BY <1>1 DEF SessionInv, TypeOK, CallInv, Entered, Linked, GuestSteps
<1>3. /\ WellFormed(mm)
      /\ mm.memory = << >>
      /\ mm.store_limits.memory_size = limits.memory_size
      /\ limits.memory_size \in Nat
  BY <1>2, FromLimits
<1>4. DOMAIN ptrs = {} /\ Len(ptrs) = 0 /\ ptrs \in Seq(U32) /\ Len(mm.memory) = 0
  BY <1>2, <1>3
<1>5. /\ c.op \in {"validate", "execute"}
      /\ Len(Inputs(c)) \in {1, 3}
      /\ c # NoCall
  BY CallTypes, InputsOf
<1>6. TypeOK'
  <2>1. Budget' \in Nat
    BY SessionAssumption DEF Budget
  <2>2. QED
    BY <1>1, <1>2, <1>3, <1>4, <2>1
       DEF SessionInv, TypeOK, WellFormed, PcValues, GuestSteps, TrapReasons
<1>7. StoreInv'
  BY <1>1 DEF SessionInv, StoreInv
<1>8. CallInv'
  BY <1>1, <1>2, <1>3, <1>5 DEF CallInv, Entered, Linked, Staged, GuestSteps
<1>9. StagedInv'
  <2>1. StagedBytes(0)' = 0
    BY <1>1, <1>5 DEF StagedBytes
  <2>2. QED
    BY <1>1, <1>4, <1>5, <2>1 DEF StagedInv, Staged, Entered, Linked, GuestSteps
<1>10. GuestInv'
  BY <1>1, <1>2 DEF GuestInv, NoLocal
<1>11. TrapInv' /\ ResultInv' /\ ValidatedInv'
  BY <1>1 DEF SessionInv, TrapInv, ResultInv, ValidatedInv, Fits
<1>12. AnswerInv'
  BY <1>1 DEF AnswerInv, RefusalMeansInputsTooBig, MetricsAgree, ValidatedModulesRun
<1>13. QED
  BY <1>6, <1>7, <1>8, <1>9, <1>10, <1>11, <1>12 DEF SessionInv

\* An answer drops the store; what is left to show is that it is a good answer.
LEMMA FinishStep ==
  ASSUME SessionInv, pc # "done", NEW r, NEW obs, Finish(r, obs),
         limits' = limits, call' = call,
         trap' \in TrapReasons, trap' = "host" => ~call.module.exported,
         call.op = "validate" /\ r.ok => Fits(call.module) /\ call.module.main,
         AnswerInv'
  PROVE  SessionInv'
<1>1. /\ mm' = from_limits(limits) /\ ptrs' = << >> /\ fuel' = 0 /\ pages' = 0
      /\ local' = NoLocal /\ result_ptr' = 0 /\ pc' = "done"
      /\ validated' = IF call.op = "validate" /\ r.ok
                        THEN validated \cup {call.module} ELSE validated
  BY DEF Finish
<1>2. limits \in Limits /\ call \in Calls
  BY DEF SessionInv, TypeOK, CallInv
<1>3. /\ WellFormed(mm')
      /\ limits.memory_size \in Nat
  BY <1>1, <1>2, FromLimits
<1>4. DOMAIN ptrs' = {} /\ ptrs' \in Seq(U32)
  BY <1>1
<1>5. TypeOK'
  <2>1. Budget \in Nat
    BY SessionAssumption DEF Budget
  <2>2. fuel' \in 0..(IF call' = NoCall THEN 0 ELSE Budget')
    BY <1>1, <2>1 DEF Budget
  <2>3. validated' \subseteq {c.module : c \in Calls}
    BY <1>1, <1>2 DEF SessionInv, TypeOK
  <2>4. result_ptr' \in I32
    BY <1>1, WidthAssumption DEF I32
  <2>5. pc' \in PcValues /\ pc' \notin GuestSteps \cup {"start"}
    BY <1>1 DEF PcValues, GuestSteps
  <2>6. limits' \in Limits /\ call' \in Calls \cup {NoCall} /\ ManagerType(mm)' /\ pages' \in Nat
    BY <1>1, <1>2, <1>3 DEF WellFormed
  <2>7. QED
    BY <1>4, <2>2, <2>3, <2>4, <2>5, <2>6 DEF TypeOK
<1>6. StoreInv'
  BY <1>1, <1>3 DEF StoreInv, SameLimits
<1>7. CallInv'
  BY <1>1, <1>3 DEF CallInv, Entered, Linked, Staged, GuestSteps
<1>8. StagedInv'
  BY <1>1, <1>4 DEF StagedInv, Staged, Entered, Linked, GuestSteps
<1>9. GuestInv'
  BY <1>1 DEF GuestInv, NoLocal
<1>10. TrapInv' /\ ResultInv'
  BY <1>1 DEF TrapInv, ResultInv
<1>11. ValidatedInv'
  BY <1>1 DEF SessionInv, ValidatedInv, Fits
<1>12. QED
  BY <1>5, <1>6, <1>7, <1>8, <1>9, <1>10, <1>11 DEF SessionInv

\* An execution that ends before its guest runs is sampled by nothing and
\* counted as an error.
LEMMA EarlyAnswer ==
  ASSUME SessionInv, pc # "done", NEW kind, Finish(Failure(kind), observed),
         limits' = limits, call' = call,
         kind \notin {"SerializationError", "OutOfFuel"},
         Call!Answers(call, Failure(kind)),
         kind \notin InvalidModuleKinds => (kind = "MemoryAllocationFailed" <=> ~InputsFit),
         call.op = "execute" /\ call.module \in validated =>
           /\ kind # "EntryPointNotFound"
           /\ kind = "InstantiationFailed" => call.module.start /\ trap' # "none"
  PROVE  AnswerInv'
<1>1. /\ pc' = "done" /\ result' = Failure(kind)
      /\ observed' = IF call.op = "execute"
                       THEN [NotObserved EXCEPT !.execution = execution_label(Failure(kind))]
                       ELSE NotObserved
      /\ validated' = validated
  BY DEF Finish, SessionInv, CallInv, Failure
<1>2. limits.memory_size \in Nat
  BY FromLimits DEF SessionInv, TypeOK
<1>3. \A k : Failure(kind) = Failure(k) <=> kind = k
  BY DEF Failure
<1>4. Call!Answers(call, result)'
  BY <1>1 DEF Call!Answers, Call!Panics, Call!Verdict
<1>5. RefusalMeansInputsTooBig'
  BY <1>1, <1>3 DEF RefusalMeansInputsTooBig, InputsFit
<1>6. MetricsAgree'
  <2>1. ~Failure(kind).ok
    BY DEF Failure
  <2>2. ASSUME call.op = "execute"
        PROVE  /\ observed'.execution = "error" /\ observed'.samples = "none"
               /\ observed'.exhausted = FALSE /\ observed'.memory = 0
    BY <1>1, <2>1, <2>2 DEF NotObserved, execution_label
  <2>3. /\ ~result'.ok
        /\ result' # Failure("SerializationError")
        /\ result' # Failure("OutOfFuel")
    BY <1>1, <1>3, <2>1
  <2>4. CASE call.op = "execute"
    <3>1. observed'.memory <= limits'.memory_size
      BY <1>2, <2>2, <2>4
    <3>2. QED
      BY <2>2, <2>3, <2>4, <3>1 DEF MetricsAgree
  <2>5. CASE call.op # "execute"
    BY <2>5 DEF MetricsAgree
  <2>6. QED
    BY <2>4, <2>5
<1>7. ValidatedModulesRun'
  BY <1>1, <1>3 DEF ValidatedModulesRun
<1>8. QED
  BY <1>1, <1>4, <1>5, <1>6, <1>7 DEF AnswerInv

\* The answers ContractCall allows, in terms of this module.
LEMMA AnswersOf ==
  ASSUME NEW c, NEW kind
  PROVE  /\ c.op = "execute" /\ kind \in {"MemoryAllocationFailed", "InstantiationFailed",
              "EntryPointNotFound", "ContractExecutionFailed", "OutOfFuel"} =>
              Call!Answers(c, Failure(kind))
         /\ c.op = "validate" /\ kind \in {"MemoryAllocationFailed", "InstantiationFailed",
              "EntryPointNotFound", "ContractExecutionFailed"} =>
              Call!Answers(c, Failure(kind))
         /\ c.op = "validate" /\ kind \in InvalidModuleKinds
              /\ ~Call!ImportsSdk(c.module.imports) => Call!Answers(c, Failure(kind))
         /\ c.op = "validate" /\ Call!Accepts(c) => Call!Answers(c, Success(check_ok))
         /\ c.op = "execute" /\ ~PanicsOf(c) =>
              Call!Answers(c, IF VerdictOf(c).final_state \in ValueDoc
                                THEN Success(VerdictOf(c)) ELSE Failure("SerializationError"))
<1>1. /\ \A k : Call!Failure(k) = Failure(k)
      /\ \A d : Call!Success(d) = Success(d)
      /\ Call!check_ok = check_ok
      /\ Call!InvalidModuleKinds = InvalidModuleKinds
  BY DEF Call!Failure, Failure, Call!Success, Success, Call!check_ok, check_ok,
         Call!InvalidModuleKinds, InvalidModuleKinds
<1>2. Call!Verdict(c) = VerdictOf(c) /\ (Call!Panics(c) <=> PanicsOf(c))
  BY SameVerdict
<1>3. c.op = "execute" /\ kind \in {"MemoryAllocationFailed", "InstantiationFailed",
        "EntryPointNotFound", "ContractExecutionFailed", "OutOfFuel"} =>
        Call!Answers(c, Failure(kind))
  BY <1>1 DEF Call!Answers, Call!ExecuteErrors
<1>4. c.op = "validate" /\ kind \in {"MemoryAllocationFailed", "InstantiationFailed",
        "EntryPointNotFound", "ContractExecutionFailed"} => Call!Answers(c, Failure(kind))
  BY <1>1 DEF Call!Answers, Call!ValidateErrors
<1>5. c.op = "validate" /\ kind \in InvalidModuleKinds /\ ~Call!ImportsSdk(c.module.imports) =>
        Call!Answers(c, Failure(kind))
  BY <1>1 DEF Call!Answers
<1>6. c.op = "validate" /\ Call!Accepts(c) => Call!Answers(c, Success(check_ok))
  BY <1>1 DEF Call!Answers
<1>7. c.op = "execute" /\ ~PanicsOf(c) =>
        Call!Answers(c, IF VerdictOf(c).final_state \in ValueDoc
                          THEN Success(VerdictOf(c)) ELSE Failure("SerializationError"))
  BY <1>1, <1>2 DEF Call!Answers
<1>8. QED
  BY <1>3, <1>4, <1>5, <1>6, <1>7

\* Imports are checked before anything is staged.
LEMMA CheckImportsStep ==
  ASSUME SessionInv, CheckImports
  PROVE  SessionInv'
<1>1. /\ pc = "imports" /\ limits' = limits /\ call' = call /\ trap' = trap
      /\ call \in Calls /\ call.op = "validate"
      /\ result = Failure("none") /\ observed = NotObserved
  BY DEF CheckImports, SessionInv, CallInv
<1>2. PICK fault : fault = imports_fault(call.module.imports)
  OBVIOUS
<1>3. IF fault = "none"
        THEN /\ pc' = "stage" /\ mm' = mm /\ ptrs' = ptrs /\ fuel' = fuel /\ pages' = pages
             /\ local' = local /\ result_ptr' = result_ptr /\ result' = result
             /\ observed' = observed /\ validated' = validated
        ELSE Finish(Failure(fault), observed)
  BY <1>2 DEF CheckImports, storeVars, guestVars, answerVars
<1>4. CASE fault = "none"
  <2>1. /\ limits \in Limits /\ mm = from_limits(limits) /\ ptrs = << >>
        /\ fuel = 0 /\ pages = 0 /\ local = NoLocal
    BY <1>1 DEF SessionInv, TypeOK, CallInv, Entered, Linked, GuestSteps
  <2>2. mm.memory = << >>
    BY <2>1, FromLimits
  <2>3. DOMAIN ptrs = {} /\ Len(ptrs) = 0 /\ Len(mm.memory) = 0
    BY <2>1, <2>2
  <2>4. Len(Inputs(call)) = 1 /\ call.op = "validate"
    BY <1>1, InputsOf
  <2>5. TypeOK'
    BY <1>1, <1>3, <1>4 DEF SessionInv, TypeOK, Budget, PcValues, GuestSteps
  <2>6. StoreInv' /\ ValidatedInv'
    BY <1>1, <1>3, <1>4 DEF SessionInv, StoreInv, ValidatedInv, Fits
  <2>7. CallInv'
    BY <1>1, <1>2, <1>3, <1>4, <2>1
       DEF SessionInv, CallInv, Entered, Linked, Staged, GuestSteps
  <2>8. StagedInv'
    <3>1. StagedBytes(0)' = 0
      BY <1>1 DEF StagedBytes
    <3>2. QED
      BY <1>1, <1>3, <1>4, <2>3, <2>4, <3>1 DEF StagedInv, Staged, Entered, Linked, GuestSteps
  <2>9. GuestInv'
    BY <1>3, <1>4, <2>1 DEF GuestInv, NoLocal
  <2>10. TrapInv' /\ ResultInv'
    BY <1>1, <1>3, <1>4 DEF SessionInv, TrapInv, ResultInv
  <2>11. AnswerInv'
    BY <1>3, <1>4 DEF AnswerInv, RefusalMeansInputsTooBig, MetricsAgree, ValidatedModulesRun
  <2>12. QED
    BY <2>5, <2>6, <2>7, <2>8, <2>9, <2>10, <2>11 DEF SessionInv
<1>5. CASE fault # "none"
  <2>1. Finish(Failure(fault), observed)
    BY <1>3, <1>5
  <2>2. fault \in InvalidModuleKinds /\ ~Call!ImportsSdk(call.module.imports)
    BY <1>1, <1>2, <1>5, ImportsAgree
  <2>3. Call!Answers(call, Failure(fault))
    BY <1>1, <2>2, AnswersOf
  <2>4. /\ fault \notin {"SerializationError", "OutOfFuel"}
        /\ call.op # "execute"
        /\ ~Failure(fault).ok
    BY <1>1, <2>2 DEF InvalidModuleKinds, Failure
  <2>5. AnswerInv'
    BY <1>1, <2>1, <2>2, <2>3, <2>4, EarlyAnswer
  <2>6. trap' \in TrapReasons /\ (trap' = "host" => ~call.module.exported)
    BY <1>1 DEF SessionInv, TypeOK, TrapInv
  <2>7. QED
    BY <1>1, <2>1, <2>4, <2>5, <2>6, FinishStep
<1>6. QED
  BY <1>4, <1>5

\* Inputs are staged one behind the other until one does not fit.
LEMMA StageStep ==
  ASSUME SessionInv, Stage
  PROVE  SessionInv'
<1>1. /\ pc = "stage" /\ limits' = limits /\ call' = call /\ trap' = trap
      /\ call \in Calls /\ limits \in Limits
      /\ result = Failure("none") /\ observed = NotObserved
      /\ WellFormed(mm) /\ SameLimits(from_limits(limits), mm)
      /\ ptrs \in Seq(U32) /\ Len(ptrs) < Len(Inputs(call))
      /\ Len(mm.memory) = StagedBytes(Len(ptrs))
  BY DEF Stage, SessionInv, CallInv, StoreInv, StagedInv, TypeOK
<1>2. /\ call.op \in {"validate", "execute"}
      /\ call # NoCall
      /\ call.op = "validate" => DOMAIN Inputs(call) = {1} /\ Len(Inputs(call)) = 1
      /\ call.op = "execute" => DOMAIN Inputs(call) = {1, 2, 3} /\ Len(Inputs(call)) = 3
      /\ \A i \in DOMAIN Inputs(call) : StagedSize(Inputs(call)[i]) \in Nat
  BY <1>1, CallTypes, InputsOf
<1>3. PICK n \in Nat : n = Len(ptrs)
  BY <1>1, LenProperties
<1>4. /\ n + 1 \in DOMAIN Inputs(call)
      /\ call.op = "validate" => n = 0
      /\ call.op = "execute" => n \in {0, 1, 2}
  <2>1. n < Len(Inputs(call))
    BY <1>1, <1>3
  <2>2. CASE call.op = "validate"
    <3>1. n < 1
      BY <1>2, <2>1, <2>2
    <3>2. n = 0
      BY <3>1
    <3>3. QED
      BY <1>2, <2>2, <3>2
  <2>3. CASE call.op = "execute"
    <3>1. n < 3
      BY <1>2, <2>1, <2>3
    <3>2. n \in {0, 1, 2} /\ n + 1 \in {1, 2, 3}
      BY <3>1
    <3>3. QED
      BY <1>2, <2>3, <3>2
  <2>4. QED
    BY <1>2, <2>2, <2>3
<1>5. PICK doc : doc = Inputs(call)[n + 1]
  OBVIOUS
<1>6. doc \in Doc /\ Size[doc] <= 2 * I32Max + 1 /\ StagedSize(doc) \in Nat
  BY <1>1, <1>4, <1>5, InputsOf
<1>7. PICK w : w = write_contract_data(mm, doc)
  OBVIOUS
<1>8. /\ w.ok \in BOOLEAN
      /\ w.ok <=> /\ StagedSize(doc) <= mm.max_single_alloc
                  /\ Len(mm.memory) + StagedSize(doc) <= mm.max_total_memory
      /\ ~w.ok => w.val = "MemoryAllocationFailed"
      /\ w.ok => w.val = Len(mm.memory) /\ StagedAfter(w.mm, mm, doc)
  BY <1>1, <1>6, <1>7, StageResult
<1>9. IF w.ok
        THEN /\ mm' = w.mm /\ ptrs' = Append(ptrs, w.val)
             /\ pc' = IF n + 1 = Len(Inputs(call)) THEN "instantiate" ELSE "stage"
             /\ fuel' = fuel /\ pages' = pages /\ local' = local /\ result_ptr' = result_ptr
             /\ result' = result /\ observed' = observed /\ validated' = validated
        ELSE Finish(Failure(w.val), observed)
  BY <1>3, <1>5, <1>7 DEF Stage, guestVars, answerVars
<1>10. /\ mm.max_single_alloc = limits.max_single_alloc
       /\ mm.max_total_memory = limits.max_total_memory
       /\ mm.store_limits = from_limits(limits).store_limits
       /\ limits.max_single_alloc \in Nat /\ limits.max_total_memory \in Nat
  BY <1>1, FromLimits DEF SameLimits
<1>11. /\ StagedBytes(n) \in Nat
       /\ StagedBytes(n + 1) = StagedBytes(n) + StagedSize(doc)
  <2>1. CASE call.op = "validate"
    BY <1>2, <1>4, <1>5, <1>6, <2>1 DEF StagedBytes
  <2>2. CASE call.op = "execute" /\ n = 0
    BY <1>2, <1>5, <1>6, <2>2 DEF StagedBytes
  <2>3. CASE call.op = "execute" /\ n = 1
    BY <1>2, <1>5, <1>6, <2>3 DEF StagedBytes
  <2>4. CASE call.op = "execute" /\ n = 2
    BY <1>2, <1>5, <1>6, <2>4 DEF StagedBytes
  <2>5. QED
    BY <1>2, <1>4, <2>1, <2>2, <2>3, <2>4
<1>12. CASE w.ok
  <2>1. /\ mm' = w.mm /\ ptrs' = Append(ptrs, w.val) /\ w.val = Len(mm.memory)
        /\ pc' = IF n + 1 = Len(Inputs(call)) THEN "instantiate" ELSE "stage"
        /\ fuel' = fuel /\ pages' = pages /\ local' = local /\ result_ptr' = result_ptr
        /\ result' = result /\ observed' = observed /\ validated' = validated
    BY <1>8, <1>9, <1>12
  <2>2. /\ WellFormed(mm')
        /\ SameLimits(mm, mm')
        /\ Len(mm'.memory) = Len(mm.memory) + StagedSize(doc)
        /\ w.val \in DOMAIN mm'.map
        /\ Contents(mm')[w.val] = borsh_data(doc)
        /\ \A p \in DOMAIN mm.map : p \in DOMAIN mm'.map /\ Contents(mm')[p] = Contents(mm)[p]
    BY <1>8, <1>12, <2>1 DEF StagedAfter
  <2>3. w.val \in U32
    BY <2>2, TrackedPointer
  <2>4. /\ ptrs' \in Seq(U32) /\ Len(ptrs') = n + 1 /\ DOMAIN ptrs' = 1..(n + 1)
        /\ \A i \in 1..n : ptrs'[i] = ptrs[i]
        /\ ptrs'[n + 1] = w.val
    BY <1>1, <1>3, <2>1, <2>3, AppendProperties
  <2>5. fuel = 0 /\ pages = 0 /\ local = NoLocal /\ trap = "none"
    BY <1>1 DEF SessionInv, CallInv, TrapInv, Entered, Linked, GuestSteps
  <2>6. pc' \in {"stage", "instantiate"}
    BY <2>1
  <2>7. TypeOK'
    <3>1. ManagerType(mm')
      BY <2>2 DEF WellFormed
    <3>2. pc' \in PcValues /\ pc' \notin GuestSteps
      BY <2>6 DEF PcValues, GuestSteps
    <3>3. fuel' \in 0..(IF call' = NoCall THEN 0 ELSE Budget')
      BY <1>1, <2>1 DEF SessionInv, TypeOK, Budget
    <3>4. QED
      BY <1>1, <2>1, <2>4, <3>1, <3>2, <3>3 DEF SessionInv, TypeOK
  <2>8. StoreInv'
    BY <1>1, <2>2 DEF StoreInv, SameLimits
  <2>9. ValidatedInv'
    BY <1>1, <2>1 DEF SessionInv, ValidatedInv, Fits
  <2>10. CallInv'
    BY <1>1, <2>1, <2>5, <2>6 DEF SessionInv, CallInv, Entered, Linked, Staged, GuestSteps
  <2>11. GuestInv'
    BY <2>1, <2>5, <2>6 DEF GuestInv, NoLocal
  <2>12. TrapInv' /\ ResultInv'
    BY <1>1, <2>5, <2>6 DEF SessionInv, TrapInv, ResultInv
  <2>13. AnswerInv'
    BY <2>6 DEF AnswerInv, RefusalMeansInputsTooBig, MetricsAgree, ValidatedModulesRun
  <2>14. Len(mm'.memory) = StagedBytes(n + 1)
    BY <1>1, <1>3, <1>11, <2>2
  <2>15. ASSUME NEW i \in 1..(n + 1)
         PROVE  /\ i \in DOMAIN Inputs(call)
                /\ ptrs'[i] \in DOMAIN mm'.map
                /\ Contents(mm')[ptrs'[i]] = borsh_data(Inputs(call)[i])
                /\ StagedSize(Inputs(call)[i]) <= limits.max_single_alloc
    <3>1. CASE i = n + 1
      BY <1>4, <1>5, <1>8, <1>10, <1>12, <2>2, <2>4, <3>1
    <3>2. CASE i # n + 1
      <4>1. i \in 1..n
        BY <3>2
      <4>2. i \in DOMAIN ptrs
        BY <1>1, <1>3, <4>1, LenProperties
      <4>3. /\ i \in DOMAIN Inputs(call)
            /\ ptrs[i] \in DOMAIN mm.map
            /\ Contents(mm)[ptrs[i]] = borsh_data(Inputs(call)[i])
            /\ StagedSize(Inputs(call)[i]) <= limits.max_single_alloc
        BY <4>2 DEF SessionInv, StagedInv
      <4>4. ptrs'[i] = ptrs[i]
        BY <2>4, <4>1
      <4>5. QED
        BY <2>2, <4>3, <4>4
    <3>3. QED
      BY <3>1, <3>2
  <2>16. ASSUME n + 1 # Len(Inputs(call))
         PROVE  n + 1 < Len(Inputs(call))
    BY <1>1, <1>2, <1>3, <1>4, <2>16
  <2>17. ASSUME n + 1 = Len(Inputs(call))
         PROVE  InputsFit
    <3>1. \A i \in DOMAIN Inputs(call) : StagedSize(Inputs(call)[i]) <= limits.max_single_alloc
      BY <1>2, <2>15, <2>17
    <3>2. StagedBytes(n + 1) <= limits.max_total_memory
      BY <1>8, <1>10, <1>12, <2>2, <2>14
    <3>3. CASE call.op = "validate"
      <4>1. StagedBytes(n + 1) = StagedSize(call.init_state)
        BY <1>1, <1>2, <2>17, <3>3, InputsOf DEF StagedBytes
      <4>2. QED
        BY <3>1, <3>2, <3>3, <4>1 DEF InputsFit
    <3>4. CASE call.op = "execute"
      <4>1. StagedBytes(n + 1) =
              StagedSize(call.state) + StagedSize(call.init_state) + StagedSize(call.event)
        <5>1. n + 1 = 3
          BY <1>2, <2>17, <3>4
        <5>2. /\ Inputs(call)[1] = call.state
              /\ Inputs(call)[2] = call.init_state
              /\ Inputs(call)[3] = call.event
          BY <1>1, <3>4, InputsOf
        <5>3. StagedBytes(3) =
                StagedSize(call.state) + StagedSize(call.init_state) + StagedSize(call.event)
          BY <3>4, <5>2 DEF StagedBytes
        <5>4. QED
          BY <5>1, <5>3
      <4>2. QED
        BY <3>1, <3>2, <3>4, <4>1 DEF InputsFit
    <3>5. QED
      BY <1>2, <3>3, <3>4
  <2>18. StagedInv'
    <3>1. InputsFit' <=> InputsFit
      BY <1>1 DEF InputsFit
    <3>2. StagedBytes(n + 1)' = StagedBytes(n + 1)
      BY <1>1 DEF StagedBytes
    <3>3. /\ pc' = "stage" => n + 1 < Len(Inputs(call)) /\ Len(mm'.memory) = StagedBytes(n + 1)'
          /\ pc' \in Staged => n + 1 = Len(Inputs(call)) /\ InputsFit'
      BY <2>1, <2>14, <2>16, <2>17, <3>1, <3>2 DEF Staged, Entered, Linked, GuestSteps
    <3>4. QED
      BY <1>1, <2>4, <2>15, <3>3 DEF StagedInv
  <2>19. QED
    BY <2>7, <2>8, <2>9, <2>10, <2>11, <2>12, <2>13, <2>18 DEF SessionInv
<1>13. CASE ~w.ok
  <2>1. w.val = "MemoryAllocationFailed" /\ Finish(Failure("MemoryAllocationFailed"), observed)
    BY <1>8, <1>9, <1>13
  <2>2. ~InputsFit
    <3>1. SUFFICES ASSUME InputsFit PROVE FALSE
      OBVIOUS
    <3>2. StagedSize(doc) <= limits.max_single_alloc
      BY <1>4, <1>5, <3>1 DEF InputsFit
    <3>3. ~(StagedBytes(n + 1) <= limits.max_total_memory)
      BY <1>1, <1>3, <1>8, <1>10, <1>11, <1>13, <3>2
    <3>4. CASE call.op = "validate"
      <4>1. StagedBytes(n + 1) = StagedSize(call.init_state)
        BY <1>1, <1>2, <1>4, <3>4, InputsOf DEF StagedBytes
      <4>2. QED
        BY <3>1, <3>3, <3>4, <4>1 DEF InputsFit
    <3>5. CASE call.op = "execute"
      <4>1. /\ StagedSize(call.state) \in Nat /\ StagedSize(call.init_state) \in Nat
            /\ StagedSize(call.event) \in Nat
        BY <1>1, <1>2, <3>5, InputsOf
      <4>2. /\ StagedBytes(n + 1) \in Nat
            /\ StagedBytes(n + 1) <=
                 StagedSize(call.state) + StagedSize(call.init_state) + StagedSize(call.event)
        BY <1>1, <1>4, <3>5, <4>1, InputsOf DEF StagedBytes
      <4>3. StagedSize(call.state) + StagedSize(call.init_state) + StagedSize(call.event)
              <= limits.max_total_memory
        BY <3>1, <3>5 DEF InputsFit
      <4>4. QED
        BY <1>10, <3>3, <4>1, <4>2, <4>3
    <3>6. QED
      BY <1>2, <3>4, <3>5
  <2>3. Call!Answers(call, Failure("MemoryAllocationFailed"))
    BY <1>2, AnswersOf
  <2>4. AnswerInv'
    BY <1>1, <2>1, <2>2, <2>3, EarlyAnswer DEF InvalidModuleKinds
  <2>5. trap' \in TrapReasons /\ (trap' = "host" => ~call.module.exported)
    BY <1>1 DEF SessionInv, TypeOK, TrapInv
  <2>6. ~Failure("MemoryAllocationFailed").ok
    BY DEF Failure
  <2>7. QED
    BY <1>1, <2>1, <2>4, <2>5, <2>6, FinishStep
<1>14. QED
  BY <1>8, <1>12, <1>13

\* Linking fails on what the module asks for, and never on one that was
\* validated.
LEMMA InstantiateStep ==
  ASSUME SessionInv, Instantiate
  PROVE  SessionInv'
<1>1. /\ pc = "instantiate" /\ limits' = limits /\ call' = call /\ trap' = trap
      /\ call \in Calls /\ limits \in Limits
      /\ result = Failure("none") /\ observed = NotObserved
      /\ WellFormed(mm) /\ SameLimits(from_limits(limits), mm)
      /\ InputsFit /\ Len(ptrs) = Len(Inputs(call)) /\ trap = "none"
      /\ fuel = 0 /\ pages = 0 /\ local = NoLocal
  BY DEF Instantiate, SessionInv, CallInv, StoreInv, StagedInv, TypeOK, TrapInv, Staged,
         Linked, Entered, GuestSteps
<1>2. /\ mm.store_limits.memory_size = limits.memory_size
      /\ mm.store_limits.table_elements = limits.max_table_elements
      /\ limits.memory_size \in Nat
  BY <1>1, FromLimits DEF SameLimits
<1>3. PICK module : module = call.module
  OBVIOUS
<1>4. /\ call.op \in {"validate", "execute"} /\ call # NoCall
      /\ module.min_memory \in Nat
  BY <1>1, <1>3, CallTypes, InputsOf
<1>5. Budget \in Nat
  BY SessionAssumption DEF Budget
<1>6. IF Fits(module)
        THEN /\ pc' = "start" /\ fuel' = Budget /\ pages' = module.min_memory
             /\ mm' = mm /\ ptrs' = ptrs /\ local' = local /\ result_ptr' = result_ptr
             /\ result' = result /\ observed' = observed /\ validated' = validated
        ELSE Finish(Failure("InstantiationFailed"), observed)
  <2>1. instantiable(module) <=> Fits(module)
    BY <1>2 DEF instantiable, Fits
  <2> QED
    BY <1>3, <2>1 DEF Instantiate, guestVars, answerVars
<1>7. trap' \in TrapReasons /\ trap' = "none"
  BY <1>1 DEF TrapReasons
<1>8. CASE ~Fits(module)
  <2>1. Finish(Failure("InstantiationFailed"), observed)
    BY <1>6, <1>8
  <2>2. Call!Answers(call, Failure("InstantiationFailed"))
    BY <1>4, AnswersOf
  <2>3. call.module \notin validated
    BY <1>3, <1>8 DEF SessionInv, ValidatedInv
  <2>4. AnswerInv'
    BY <1>1, <2>1, <2>2, <2>3, EarlyAnswer DEF InvalidModuleKinds
  <2>5. ~Failure("InstantiationFailed").ok
    BY DEF Failure
  <2>6. QED
    BY <1>1, <1>7, <2>1, <2>4, <2>5, FinishStep
<1>9. CASE Fits(module)
  <2>1. /\ pc' = "start" /\ fuel' = Budget /\ pages' = module.min_memory
        /\ mm' = mm /\ ptrs' = ptrs /\ local' = local /\ result_ptr' = result_ptr
        /\ result' = result /\ observed' = observed /\ validated' = validated
    BY <1>6, <1>9
  <2>2. /\ fuel' \in 0..Budget
        /\ pages' \in Nat
        /\ pages' <= limits.memory_size
    BY <1>2, <1>4, <1>5, <1>9, <2>1 DEF Fits
  <2>3. TypeOK'
    <3>1. fuel' \in 0..(IF call' = NoCall THEN 0 ELSE Budget')
      BY <1>1, <1>4, <2>2 DEF Budget
    <3>2. pages' <= mm'.store_limits.memory_size
      BY <1>2, <2>1, <2>2
    <3>3. QED
      BY <1>1, <1>7, <2>1, <2>2, <3>1, <3>2 DEF SessionInv, TypeOK, PcValues, GuestSteps
  <2>4. StoreInv' /\ ValidatedInv'
    BY <1>1, <2>1 DEF SessionInv, StoreInv, ValidatedInv, Fits
  <2>5. CallInv'
    <3>1. Fits(call.module)'
      BY <1>1, <1>3, <1>9 DEF Fits
    <3>2. QED
      BY <1>1, <2>1, <2>2, <3>1 DEF SessionInv, CallInv, Linked, Entered, Staged, GuestSteps
  <2>6. StagedInv'
    BY <1>1, <2>1 DEF SessionInv, StagedInv, Staged, Linked, Entered, GuestSteps, InputsFit
  <2>7. GuestInv'
    BY <1>1, <2>1 DEF GuestInv, NoLocal
  <2>8. TrapInv' /\ ResultInv'
    BY <1>7, <2>1 DEF TrapInv, ResultInv
  <2>9. AnswerInv'
    BY <2>1 DEF AnswerInv, RefusalMeansInputsTooBig, MetricsAgree, ValidatedModulesRun
  <2>10. QED
    BY <2>3, <2>4, <2>5, <2>6, <2>7, <2>8, <2>9 DEF SessionInv
<1>10. QED
  BY <1>8, <1>9

-----------------------------------------------------------------------------
(***************************************************************************)
(* The guest.                                                              *)
(***************************************************************************)

\* The staged inputs are where they were.
MemoryKept ==
  /\ WellFormed(mm')
  /\ SameLimits(mm, mm')
  /\ \A i \in DOMAIN ptrs : /\ ptrs[i] \in DOMAIN mm'.map
                            /\ Contents(mm')[ptrs[i]] = Contents(mm)[ptrs[i]]

\* What a step of the module's code, its start function included, leaves as it
\* was.
LEMMA LinkedStep ==
  ASSUME SessionInv, pc \in Linked, GuestFrame, MemoryKept, pc' \in Linked,
         pc' \in Entered => entry_points(call), pc' \notin Entered => local' = NoLocal,
         fuel' \in 0..fuel, pages' \in Nat, pages' <= limits.memory_size, result_ptr' \in I32,
         trap' \in TrapReasons, GuestInv', TrapInv', ResultInv'
  PROVE  SessionInv'
<1>1. /\ limits' = limits /\ call' = call /\ ptrs' = ptrs /\ result' = result
      /\ observed' = observed /\ validated' = validated
  BY DEF GuestFrame, answerVars
<1>2. /\ call \in Calls /\ call # NoCall /\ limits \in Limits
  BY InputsOf DEF SessionInv, CallInv, TypeOK, Linked, Entered, GuestSteps
<1>3. pc \in Staged /\ pc' \in Staged
  BY DEF Staged
<1>4. pc' \notin {"done", "imports", "stage"} /\ pc' \in PcValues
  BY DEF Linked, Entered, GuestSteps, PcValues
<1>5. TypeOK'
  <2>1. ManagerType(mm')
    BY DEF MemoryKept, WellFormed
  <2>2. fuel' \in 0..(IF call' = NoCall THEN 0 ELSE Budget')
    <3>1. fuel \in 0..Budget /\ Budget \in Nat /\ Budget' = Budget
      BY <1>1, <1>2, SessionAssumption DEF SessionInv, TypeOK, Budget
    <3>2. fuel' \in 0..Budget
      BY <3>1
    <3>3. QED
      BY <1>1, <1>2, <3>1, <3>2
  <2>3. mm'.store_limits.memory_size = limits.memory_size
    BY <1>2, FromLimits DEF SessionInv, StoreInv, MemoryKept, SameLimits
  <2>4. QED
    BY <1>1, <1>4, <2>1, <2>2, <2>3 DEF SessionInv, TypeOK
<1>6. StoreInv'
  BY <1>1 DEF SessionInv, StoreInv, MemoryKept, SameLimits
<1>7. CallInv'
  <2>1. Fits(call.module)' /\ (pc' \in Entered => entry_points(call)')
    BY <1>1 DEF SessionInv, CallInv, Fits, entry_points
  <2>2. pc # "done"
    BY DEF Linked, Entered, GuestSteps
  <2> QED
    BY <1>1, <1>3, <1>4, <2>1, <2>2 DEF SessionInv, CallInv
<1>8. StagedInv'
  <2>1. InputsFit'
    BY <1>1, <1>3 DEF SessionInv, StagedInv, InputsFit
  <2>2. QED
    BY <1>1, <1>3, <1>4, <2>1 DEF SessionInv, StagedInv, MemoryKept
<1>9. ValidatedInv'
  BY <1>1 DEF SessionInv, ValidatedInv, Fits
<1>10. AnswerInv'
  BY <1>4 DEF AnswerInv, RefusalMeansInputsTooBig, MetricsAgree, ValidatedModulesRun
<1>11. QED
  BY <1>5, <1>6, <1>7, <1>8, <1>9, <1>10 DEF SessionInv

-----------------------------------------------------------------------------
(***************************************************************************)
(* The start function.                                                     *)
(***************************************************************************)

\* What is known while the start function runs.
LEMMA Starting ==
  ASSUME SessionInv, pc = "start"
  PROVE  /\ call \in Calls /\ limits \in Limits /\ call.op \in {"validate", "execute"}
         /\ pc \in Linked /\ InputsFit /\ WellFormed(mm) /\ trap = "none"
         /\ mm.store_limits.memory_size = limits.memory_size
         /\ fuel \in Nat /\ pages \in Nat /\ pages <= limits.memory_size
         /\ limits.memory_size \in Nat /\ result_ptr \in I32
         /\ local = NoLocal
<1>1. pc \in Linked /\ pc \in Staged /\ pc \notin Entered
  BY DEF Linked, Staged, Entered, GuestSteps
<1>2. /\ call \in Calls /\ limits \in Limits /\ InputsFit /\ WellFormed(mm) /\ trap = "none"
      /\ SameLimits(from_limits(limits), mm)
      /\ pages \in Nat /\ pages <= limits.memory_size /\ result_ptr \in I32
      /\ local = NoLocal
  BY <1>1 DEF SessionInv, CallInv, TypeOK, StoreInv, StagedInv, TrapInv
<1>3. fuel \in Nat
  BY SessionAssumption DEF SessionInv, TypeOK, Budget
<1>4. call.op \in {"validate", "execute"}
  BY <1>2, CallTypes
<1>5. mm.store_limits.memory_size = limits.memory_size /\ limits.memory_size \in Nat
  BY <1>2, FromLimits DEF SameLimits
<1> QED
  BY <1>1, <1>2, <1>3, <1>4, <1>5

\* A start function that goes on has lost nothing of what was staged.
LEMMA StartGoesOn ==
  ASSUME SessionInv, pc = "start", StartFrame, Spend, MemoryKept,
         pages' \in Nat, pages' <= limits.memory_size
  PROVE  SessionInv'
<1>1. /\ limits' = limits /\ pc' = "start" /\ call' = call /\ ptrs' = ptrs
      /\ local' = local /\ result_ptr' = result_ptr /\ trap' = trap
      /\ result' = result /\ observed' = observed /\ validated' = validated
  BY DEF StartFrame, guestVars, answerVars
<1>2. GuestFrame
  BY <1>1 DEF GuestFrame, answerVars
<1>3. /\ pc \in Linked /\ trap = "none" /\ local = NoLocal /\ fuel \in Nat
      /\ result_ptr \in I32
  BY Starting
<1>4. pc' \in Linked /\ pc' \notin Entered /\ trap' \in TrapReasons /\ local' = NoLocal
  BY <1>1, <1>3 DEF Linked, Entered, GuestSteps, TrapReasons
<1>5. fuel' \in 0..fuel
  BY <1>3 DEF Spend, metered
<1>6. GuestInv'
  BY <1>1, <1>4 DEF GuestInv, NoLocal
<1>7. TrapInv' /\ ResultInv'
  BY <1>1, <1>3 DEF TrapInv, ResultInv
<1> QED
  BY <1>1, <1>2, <1>3, <1>4, <1>5, <1>6, <1>7, LinkedStep

\* A start function that traps is the one way to lose a validated module.
LEMMA StartFailsStep ==
  ASSUME SessionInv, pc = "start", call.module.start,
         NEW why \in {"memory", "alloc", "guest", "fuel"}, StartFails(why)
  PROVE  SessionInv'
<1>1. /\ trap' = why /\ limits' = limits /\ call' = call
      /\ Finish(Failure("InstantiationFailed"), observed)
  BY DEF StartFails
<1>2. call \in Calls /\ call.op \in {"validate", "execute"} /\ InputsFit
  BY Starting
<1>3. Call!Answers(call, Failure("InstantiationFailed"))
  BY <1>2, AnswersOf
<1>4. AnswerInv'
  BY <1>1, <1>2, <1>3, EarlyAnswer DEF InvalidModuleKinds
<1>5. trap' \in TrapReasons /\ trap' # "host" /\ ~Failure("InstantiationFailed").ok
  BY <1>1 DEF TrapReasons, Failure
<1> QED
  BY <1>1, <1>4, <1>5, FinishStep

\* A start function computes and grows its memory inside the limit.
LEMMA StartWorkStep ==
  ASSUME SessionInv, NEW growth \in {0, 1}, StartWork(growth)
  PROVE  SessionInv'
<1>1. pc = "start" /\ call.module.start
  BY DEF StartWork
<1>2. /\ mm.store_limits.memory_size = limits.memory_size
      /\ pages \in Nat /\ limits.memory_size \in Nat
  BY <1>1, Starting
<1>3. CASE pages + growth <= mm.store_limits.memory_size
  <2>1. Spend /\ pages' = pages + growth /\ StartFrame /\ mm' = mm
    BY <1>3 DEF StartWork
  <2>2. MemoryKept
    BY <2>1 DEF SessionInv, StoreInv, StagedInv, MemoryKept, SameLimits
  <2>3. pages' \in Nat /\ pages' <= limits.memory_size
    BY <1>2, <1>3, <2>1
  <2> QED
    BY <1>1, <2>1, <2>2, <2>3, StartGoesOn
<1>4. CASE ~(pages + growth <= mm.store_limits.memory_size)
  BY <1>1, <1>4, StartFailsStep DEF StartWork
<1> QED
  BY <1>3, <1>4

\* A start function allocates behind the staged inputs.
LEMMA StartAllocStep ==
  ASSUME SessionInv, NEW len \in StartLengths, StartAlloc(len)
  PROVE  SessionInv'
<1>1. pc = "start" /\ call.module.start
  BY DEF StartAlloc
<1>2. WellFormed(mm) /\ pages \in Nat /\ pages <= limits.memory_size
  BY <1>1, Starting
<1>3. len \in Nat
  BY SessionAssumption, WidthAssumption DEF U32
<1>4. PICK r : r = env_alloc(mm, len)
  OBVIOUS
<1>5. PICK a : a = alloc(mm, len)
  OBVIOUS
<1>6. r.ok \in BOOLEAN /\ (r.ok <=> a.ok) /\ r.mm = a.mm
  BY <1>2, <1>3, <1>4, <1>5, EnvAllocResult
<1>7. IF r.ok THEN Spend /\ mm' = r.mm /\ StartFrame /\ pages' = pages
      ELSE StartFails("alloc")
  BY <1>4 DEF StartAlloc
<1>8. CASE r.ok
  <2>1. a.ok /\ mm' = a.mm /\ Spend /\ StartFrame /\ pages' = pages
    BY <1>6, <1>7, <1>8
  <2>2. /\ WellFormed(mm')
        /\ len = 0 => mm'.map = mm.map
        /\ len > 0 => DOMAIN mm'.map = DOMAIN mm.map \cup {Len(mm.memory)}
        /\ \A p \in DOMAIN mm.map : Contents(mm')[p] = Contents(mm)[p]
    BY <1>2, <1>3, <1>5, <2>1, AllocContents
  <2>3. DOMAIN mm.map \subseteq DOMAIN mm'.map
    BY <1>3, <2>2
  <2>4. SameLimits(mm, mm')
    BY <1>2, <1>3, <1>5, <2>1, AllocFits
  <2>5. \A i \in DOMAIN ptrs : ptrs[i] \in DOMAIN mm.map
    BY DEF SessionInv, StagedInv
  <2>6. MemoryKept
    BY <2>2, <2>3, <2>4, <2>5 DEF MemoryKept
  <2> QED
    BY <1>1, <1>2, <2>1, <2>6, StartGoesOn
<1>9. CASE ~r.ok
  BY <1>1, <1>7, <1>9, StartFailsStep
<1> QED
  BY <1>6, <1>8, <1>9

\* A start function that traps, or runs out of fuel.
LEMMA StartEndsStep ==
  ASSUME SessionInv, StartTrap \/ StartOutOfFuel
  PROVE  SessionInv'
<1>1. pc = "start" /\ call.module.start /\ (StartFails("guest") \/ StartFails("fuel"))
  BY DEF StartTrap, StartOutOfFuel
<1> QED
  BY <1>1, StartFailsStep

\* The entry points are looked up: a module that was validated has main_function.
LEMMA EnterGuestStep ==
  ASSUME SessionInv, EnterGuest
  PROVE  SessionInv'
<1>1. pc = "start" /\ limits' = limits /\ call' = call /\ trap' = trap
  BY DEF EnterGuest
<1>2. /\ call \in Calls /\ call.op \in {"validate", "execute"} /\ InputsFit
      /\ pc \in Linked /\ trap = "none" /\ local = NoLocal /\ fuel \in Nat
      /\ result_ptr \in I32 /\ pages \in Nat /\ pages <= limits.memory_size
  BY <1>1, Starting
<1>3. trap' \in TrapReasons /\ trap' = "none"
  BY <1>1, <1>2 DEF TrapReasons
<1>4. CASE ~entry_points(call)
  <2>1. Finish(Failure("EntryPointNotFound"), observed)
    BY <1>4 DEF EnterGuest
  <2>2. Call!Answers(call, Failure("EntryPointNotFound"))
    BY <1>2, AnswersOf
  <2>3. ~(call.op = "execute" /\ call.module \in validated)
    BY <1>4 DEF SessionInv, ValidatedInv, entry_points
  <2>4. AnswerInv'
    BY <1>1, <1>2, <2>1, <2>2, <2>3, EarlyAnswer DEF InvalidModuleKinds
  <2>5. ~Failure("EntryPointNotFound").ok
    BY DEF Failure
  <2> QED
    BY <1>1, <1>3, <2>1, <2>4, <2>5, FinishStep
<1>5. CASE entry_points(call)
  <2>1. /\ pc' = "read_state" /\ mm' = mm /\ ptrs' = ptrs /\ fuel' = fuel /\ pages' = pages
        /\ local' = local /\ result_ptr' = result_ptr
        /\ result' = result /\ observed' = observed /\ validated' = validated
    BY <1>5 DEF EnterGuest, storeVars, guestVars, answerVars
  <2>2. GuestFrame
    BY <1>1, <2>1 DEF GuestFrame, answerVars
  <2>3. MemoryKept
    BY <2>1 DEF SessionInv, StoreInv, StagedInv, MemoryKept, SameLimits
  <2>4. GuestInv'
    BY <1>1, <1>2, <2>1 DEF GuestInv, NoLocal
  <2>5. TrapInv' /\ ResultInv'
    BY <1>3, <2>1 DEF TrapInv, ResultInv
  <2>6. pc' \in Linked /\ pc' \in Entered /\ fuel' \in 0..fuel
    BY <1>2, <2>1 DEF Linked, Entered, GuestSteps
  <2> QED
    BY <1>2, <1>3, <1>5, <2>1, <2>2, <2>3, <2>4, <2>5, <2>6, LinkedStep
<1> QED
  BY <1>4, <1>5

-----------------------------------------------------------------------------
(***************************************************************************)
(* The entry points.                                                       *)
(***************************************************************************)

\* What a step of the guest leaves as it was.
LEMMA GuestStep ==
  ASSUME SessionInv, pc \in GuestSteps, GuestFrame, MemoryKept, pc' \in Entered,
         fuel' \in 0..fuel, pages' \in Nat, pages' <= limits.memory_size, result_ptr' \in I32,
         trap' \in TrapReasons, GuestInv', TrapInv', ResultInv'
  PROVE  SessionInv'
<1>1. pc \in Entered /\ pc \in Linked /\ pc' \in Linked
  BY DEF Entered, Linked
<1>2. entry_points(call)
  BY <1>1 DEF SessionInv, CallInv
<1> QED
  BY <1>1, <1>2, LinkedStep

\* A step that leaves the host's memory and the size of the guest's alone.
LEMMA QuietStep ==
  ASSUME SessionInv, pc \in GuestSteps, GuestFrame, Spend, mm' = mm, pages' = pages,
         result_ptr' = result_ptr, pc' \in Entered, trap' \in TrapReasons,
         GuestInv', TrapInv', ResultInv'
  PROVE  SessionInv'
<1>1. MemoryKept
  BY DEF SessionInv, StoreInv, StagedInv, MemoryKept, SameLimits
<1>2. fuel \in Nat
  BY SessionAssumption DEF SessionInv, TypeOK, Budget
<1>3. fuel' \in 0..fuel
  BY <1>2 DEF Spend, metered
<1>4. pages' \in Nat /\ pages' <= limits.memory_size /\ result_ptr' \in I32
  BY DEF SessionInv, TypeOK, CallInv
<1>5. QED
  BY <1>1, <1>3, <1>4, GuestStep

\* A guest that runs knows its call, and the host has what the call staged.
LEMMA Running ==
  ASSUME SessionInv, pc \in GuestSteps
  PROVE  /\ call \in Calls /\ limits \in Limits
         /\ call.op \in {"validate", "execute"}
         /\ call.module.exported \in BOOLEAN
         /\ WellFormed(mm) /\ mm.max_single_alloc <= MAX_DATA_SIZE
         /\ DOMAIN ptrs = DOMAIN Inputs(call)
         /\ trap = "none"
<1>1. /\ call \in Calls /\ limits \in Limits /\ WellFormed(mm)
      /\ SameLimits(from_limits(limits), mm) /\ ptrs \in Seq(U32)
      /\ Len(ptrs) = Len(Inputs(call)) /\ trap = "none"
  BY DEF SessionInv, CallInv, TypeOK, StoreInv, StagedInv, TrapInv, Staged, Entered, Linked, GuestSteps
<1>2. mm.max_single_alloc <= MAX_DATA_SIZE
  BY <1>1, FromLimits DEF SameLimits
<1>3. call.op \in {"validate", "execute"} /\ call.module.exported \in BOOLEAN
  BY <1>1, CallTypes
<1>4. DOMAIN ptrs = DOMAIN Inputs(call)
  <2>1. DOMAIN ptrs = 1..Len(ptrs)
    BY <1>1, LenProperties
  <2>2. CASE call.op = "validate"
    BY <1>1, <2>1, <2>2, InputsOf
  <2>3. CASE call.op = "execute"
    BY <1>1, <2>1, <2>3, InputsOf
  <2>4. QED
    BY <1>3, <2>2, <2>3
<1>5. QED
  BY <1>1, <1>2, <1>3, <1>4

\* What the guest makes of a document it can read back.
Parsed(doc, parse, name) ==
  IF ~call.module.exported THEN Answer("trap", "LinkerError")
  ELSE IF parse[doc] = Fails THEN Answer("err", CannotParse(name))
  ELSE Answer("ok", parse[doc])

\* The guest reads back the document that was staged.
LEMMA ReadStaged ==
  ASSUME SessionInv, pc \in GuestSteps, NEW i \in DOMAIN Inputs(call), NEW doc,
         doc = Inputs(call)[i], NEW parse, NEW name
  PROVE  Read(i, parse, name) = Parsed(doc, parse, name)
<1>1. /\ call \in Calls /\ call.module.exported \in BOOLEAN
      /\ WellFormed(mm) /\ mm.max_single_alloc <= MAX_DATA_SIZE
      /\ i \in DOMAIN ptrs
  BY Running
<1>2. doc \in Doc
  BY <1>1, InputsOf
<1>3. ptrs[i] \in DOMAIN mm.map /\ Contents(mm)[ptrs[i]] = borsh_data(doc)
  BY <1>1 DEF SessionInv, StagedInv
<1>4. QED
  BY <1>1, <1>2, <1>3, ReadAndParse DEF Read, Parsed

\* A guest that traps has lost nothing.
LEMMA TrapStep ==
  ASSUME SessionInv, pc \in GuestSteps, GuestFrame, Spend, mm' = mm, pages' = pages,
         result_ptr' = result_ptr, NEW why \in TrapReasons \ {"none", "fuel"}, Trap(why),
         why = "host" => ~call.module.exported
  PROVE  SessionInv'
<1>1. pc' = "trapped" /\ trap' = why /\ local' = local /\ call' = call
  BY DEF Trap, GuestFrame
<1>2. GuestInv'
  BY <1>1 DEF SessionInv, GuestInv, GuestSteps
<1>3. TrapInv' /\ ResultInv'
  BY <1>1 DEF TrapInv, ResultInv
<1>4. pc' \in Entered
  BY <1>1 DEF Entered, Linked
<1>5. QED
  BY <1>1, <1>2, <1>3, <1>4, QuietStep

\* A guest goes on to store what the call asks for.
LEMMA ToStore ==
  ASSUME SessionInv, pc \in GuestSteps, GuestFrame, Spend, mm' = mm, pages' = pages,
         result_ptr' = result_ptr, NEW locals, Continue("store", locals),
         locals = [state |-> locals.state, event |-> locals.event, first |-> locals.first,
                   out |-> locals.out, last |-> locals.last],
         locals.first = local.first, locals.out = OutFor(call), ~PanicsOn(call)
  PROVE  SessionInv'
<1>1. pc' = "store" /\ trap' = trap /\ local' = locals /\ call' = call
  BY DEF Continue, GuestFrame
<1>2. call \in Calls /\ call.op \in {"validate", "execute"} /\ trap = "none"
  BY Running
<1>3. OutFor(call) # Fails
  BY <1>2, VerdictType, CheckType DEF OutFor
<1>4. GuestInv'
  <2>1. OutFor(call)' = OutFor(call) /\ PanicsOn(call)' = PanicsOn(call)
    BY <1>1 DEF OutFor, VerdictOf, CheckVerdict, PanicsOn, PanicsOf, CheckPanics
  <2>2. QED
    BY <1>1, <1>2, <1>3, <2>1 DEF SessionInv, GuestInv
<1>5. TrapInv' /\ ResultInv'
  BY <1>1, <1>2 DEF TrapInv, ResultInv
<1>6. pc' \in Entered /\ trap' \in TrapReasons
  BY <1>1, <1>2 DEF Entered, Linked, GuestSteps, TrapReasons
<1>7. QED
  BY <1>1, <1>4, <1>5, <1>6, QuietStep

\* The same for an Err of try_execute_contract or try_check_init_data.
LEMMA ToAnswerError ==
  ASSUME SessionInv, pc \in GuestSteps, GuestFrame, Spend, mm' = mm, pages' = pages,
         result_ptr' = result_ptr, NEW text, AnswerError(text),
         ErrorData(text) = OutFor(call), ~PanicsOn(call)
  PROVE  SessionInv'
<1>1. PICK locals : /\ Continue("store", locals)
                    /\ locals = [local EXCEPT !.out = ErrorData(text), !.last = TRUE]
  BY DEF AnswerError
<1>2. local = [state |-> local.state, event |-> local.event, first |-> local.first,
               out |-> local.out, last |-> local.last]
  BY DEF SessionInv, GuestInv
<1>3. locals = [state |-> local.state, event |-> local.event, first |-> local.first,
                out |-> ErrorData(text), last |-> TRUE]
  BY <1>1, <1>2
<1>4. /\ locals = [state |-> locals.state, event |-> locals.event, first |-> locals.first,
                   out |-> locals.out, last |-> locals.last]
      /\ locals.first = local.first /\ locals.out = OutFor(call)
  BY <1>3
<1>5. QED
  BY <1>1, <1>4, ToStore

\* The guest goes on to a step before its callback.
LEMMA ToNextRead ==
  ASSUME SessionInv, pc \in GuestSteps, GuestFrame, Spend, mm' = mm, pages' = pages,
         result_ptr' = result_ptr,
         NEW next \in {"read_init", "read_event", "callback"}, NEW locals, Continue(next, locals),
         locals = [state |-> locals.state, event |-> locals.event, first |-> locals.first,
                   out |-> locals.out, last |-> locals.last],
         locals.out = local.out, locals.first \in {<< >>, CannotParse("State")},
         next = "read_init" => /\ call.op = "execute"
                               /\ ParseState[call.state] = Fails
                               /\ locals.first = CannotParse("State"),
         next = "read_event" => /\ call.op = "execute"
                                /\ locals.state = Effective(call)
                                /\ locals.state # Fails,
         next = "callback" /\ call.op = "execute" => /\ locals.state = Effective(call)
                                                     /\ locals.state # Fails
                                                     /\ locals.event = ParseEvent[call.event]
                                                     /\ locals.event # Fails,
         next = "callback" /\ call.op = "validate" => /\ locals.state = ParseState[call.init_state]
                                                      /\ locals.state # Fails
  PROVE  SessionInv'
<1>1. pc' = next /\ trap' = trap /\ local' = locals /\ call' = call
  BY DEF Continue, GuestFrame
<1>2. trap = "none"
  BY Running
<1>3. GuestInv'
  BY <1>1 DEF SessionInv, GuestInv
<1>4. TrapInv' /\ ResultInv'
  BY <1>1, <1>2 DEF TrapInv, ResultInv
<1>5. pc' \in Entered /\ trap' \in TrapReasons
  BY <1>1, <1>2 DEF Entered, Linked, GuestSteps, TrapReasons
<1>6. QED
  BY <1>1, <1>3, <1>4, <1>5, QuietStep

\* What the three kinds of answers are.
LEMMA AnswerKinds ==
  ASSUME NEW kind, NEW val
  PROVE  Answer(kind, val).kind = kind /\ Answer(kind, val).val = val
  BY DEF Answer

\* Reading the state leads to the event, to the initial state, to the init
\* check or to an answer.
LEMMA ReadStateStep ==
  ASSUME SessionInv, ReadState
  PROVE  SessionInv'
<1>1. /\ pc = "read_state" /\ pc \in GuestSteps /\ Spend /\ GuestFrame /\ mm' = mm
      /\ pages' = pages /\ result_ptr' = result_ptr
  BY DEF ReadState, GuestSteps
<1>2. /\ call \in Calls /\ call.op \in {"validate", "execute"}
  BY <1>1, Running
<1>3. PICK doc : doc = Inputs(call)[1]
  OBVIOUS
<1>4. /\ 1 \in DOMAIN Inputs(call)
      /\ doc = IF call.op = "execute" THEN call.state ELSE call.init_state
  BY <1>2, <1>3, InputsOf
<1>5. PICK r : r = Read(1, ParseState, "State")
  OBVIOUS
<1>6. r = IF ~call.module.exported THEN Answer("trap", "LinkerError")
          ELSE IF ParseState[doc] = Fails THEN Answer("err", CannotParse("State"))
          ELSE Answer("ok", ParseState[doc])
  <2>1. Read(1, ParseState, "State") = Parsed(doc, ParseState, "State")
    BY <1>1, <1>3, <1>4, ReadStaged
  <2>2. QED
    BY <1>5, <2>1 DEF Parsed
<1>7. /\ r.kind = "trap" => Trap("host")
      /\ r.kind = "ok" =>
           Continue(IF call.op = "execute" THEN "read_event" ELSE "callback",
                    [local EXCEPT !.state = r.val])
      /\ r.kind = "err" => IF call.op = "execute"
                             THEN Continue("read_init", [local EXCEPT !.first = r.val])
                             ELSE AnswerError(r.val)
  BY <1>5 DEF ReadState
<1>8. /\ local = [state |-> local.state, event |-> local.event, first |-> local.first,
                  out |-> local.out, last |-> local.last]
      /\ local.first = << >>
  BY <1>1 DEF SessionInv, GuestInv
<1>9. CASE ~call.module.exported
  <2>1. Trap("host")
    BY <1>6, <1>7, <1>9, AnswerKinds
  <2>2. QED
    BY <1>1, <1>9, <2>1, TrapStep DEF TrapReasons
<1>10. CASE call.module.exported /\ ParseState[doc] # Fails
  <2>1. r.kind = "ok" /\ r.val = ParseState[doc]
    BY <1>6, <1>10, AnswerKinds
  <2>2. PICK next : next = IF call.op = "execute" THEN "read_event" ELSE "callback"
    OBVIOUS
  <2>3. PICK locals : locals = [local EXCEPT !.state = ParseState[doc]]
    OBVIOUS
  <2>4. Continue(next, locals)
    BY <1>7, <2>1, <2>2, <2>3
  <2>5. locals = [state |-> ParseState[doc], event |-> local.event, first |-> local.first,
                  out |-> local.out, last |-> local.last]
    BY <1>8, <2>3
  <2>6. /\ locals = [state |-> locals.state, event |-> locals.event, first |-> locals.first,
                     out |-> locals.out, last |-> locals.last]
        /\ locals.out = local.out /\ locals.first = << >> /\ locals.state = ParseState[doc]
    BY <1>8, <2>5
  <2>7. call.op = "execute" => locals.state = Effective(call)
    BY <1>4, <1>10, <2>6 DEF Effective
  <2>8. QED
    BY <1>1, <1>2, <1>4, <1>10, <2>2, <2>4, <2>6, <2>7, ToNextRead
<1>11. CASE call.module.exported /\ ParseState[doc] = Fails
  <2>1. r.kind = "err" /\ r.val = CannotParse("State")
    BY <1>6, <1>11, AnswerKinds
  <2>2. CASE call.op = "execute"
    <3>1. PICK locals : locals = [local EXCEPT !.first = CannotParse("State")]
      OBVIOUS
    <3>2. Continue("read_init", locals)
      BY <1>7, <2>1, <2>2, <3>1
    <3>3. locals = [state |-> local.state, event |-> local.event,
                    first |-> CannotParse("State"), out |-> local.out, last |-> local.last]
      BY <1>8, <3>1
    <3>4. /\ locals = [state |-> locals.state, event |-> locals.event, first |-> locals.first,
                       out |-> locals.out, last |-> locals.last]
          /\ locals.out = local.out /\ locals.first = CannotParse("State")
      BY <3>3
    <3>5. QED
      BY <1>1, <1>4, <1>11, <2>2, <3>2, <3>4, ToNextRead
  <2>3. CASE call.op = "validate"
    <3>1. AnswerError(CannotParse("State"))
      BY <1>7, <2>1, <2>3
    <3>2. ErrorData(CannotParse("State")) = OutFor(call) /\ ~PanicsOn(call)
      BY <1>4, <1>11, <2>3 DEF ErrorData, OutFor, CheckVerdict, PanicsOn, CheckPanics
    <3>3. QED
      BY <1>1, <3>1, <3>2, ToAnswerError
  <2>4. QED
    BY <1>2, <2>2, <2>3
<1>12. QED
  BY <1>9, <1>10, <1>11

\* Reading the initial state leads to the event or to an answer.
LEMMA ReadInitStep ==
  ASSUME SessionInv, ReadInit
  PROVE  SessionInv'
<1>1. /\ pc = "read_init" /\ pc \in GuestSteps /\ Spend /\ GuestFrame /\ mm' = mm
      /\ pages' = pages /\ result_ptr' = result_ptr
  BY DEF ReadInit, GuestSteps
<1>2. /\ call \in Calls /\ call.op = "execute"
      /\ ParseState[call.state] = Fails
      /\ local = [state |-> local.state, event |-> local.event, first |-> local.first,
                  out |-> local.out, last |-> local.last]
      /\ local.first = CannotParse("State")
  BY <1>1, Running DEF SessionInv, GuestInv
<1>3. PICK doc : doc = Inputs(call)[2]
  OBVIOUS
<1>4. 2 \in DOMAIN Inputs(call) /\ doc = call.init_state
  BY <1>2, <1>3, InputsOf
<1>5. PICK r : r = Read(2, ParseState, "Init State")
  OBVIOUS
<1>6. r = IF ~call.module.exported THEN Answer("trap", "LinkerError")
          ELSE IF ParseState[doc] = Fails THEN Answer("err", CannotParse("Init State"))
          ELSE Answer("ok", ParseState[doc])
  <2>1. PICK i \in DOMAIN Inputs(call) : i = 2
    BY <1>4
  <2>2. doc = Inputs(call)[i]
    BY <1>3, <2>1
  <2>3. Read(i, ParseState, "Init State") = Parsed(doc, ParseState, "Init State")
    BY <1>1, <2>2, ReadStaged
  <2>4. QED
    BY <1>5, <2>1, <2>3 DEF Parsed
<1>7. /\ r.kind = "trap" => Trap("host")
      /\ r.kind = "ok" => Continue("read_event", [local EXCEPT !.state = r.val])
      /\ r.kind = "err" => AnswerError(FallbackFailed(local.first, r.val))
  BY <1>5 DEF ReadInit
<1>8. Effective(call) = ParseState[doc]
  BY <1>2, <1>4 DEF Effective
<1>9. CASE ~call.module.exported
  <2>1. Trap("host")
    BY <1>6, <1>7, <1>9, AnswerKinds
  <2>2. QED
    BY <1>1, <1>9, <2>1, TrapStep DEF TrapReasons
<1>10. CASE call.module.exported /\ ParseState[doc] # Fails
  <2>1. r.kind = "ok" /\ r.val = ParseState[doc]
    BY <1>6, <1>10, AnswerKinds
  <2>2. PICK locals : locals = [local EXCEPT !.state = ParseState[doc]]
    OBVIOUS
  <2>3. Continue("read_event", locals)
    BY <1>7, <2>1, <2>2
  <2>4. locals = [state |-> ParseState[doc], event |-> local.event, first |-> local.first,
                  out |-> local.out, last |-> local.last]
    BY <1>2, <2>2
  <2>5. /\ locals = [state |-> locals.state, event |-> locals.event, first |-> locals.first,
                     out |-> locals.out, last |-> locals.last]
        /\ locals.out = local.out /\ locals.first = CannotParse("State")
        /\ locals.state = ParseState[doc]
    BY <1>2, <2>4
  <2>6. QED
    BY <1>1, <1>2, <1>8, <1>10, <2>3, <2>5, ToNextRead
<1>11. CASE call.module.exported /\ ParseState[doc] = Fails
  <2>1. r.kind = "err" /\ r.val = CannotParse("Init State")
    BY <1>6, <1>11, AnswerKinds
  <2>2. PICK text : text = FallbackFailed(CannotParse("State"), CannotParse("Init State"))
    OBVIOUS
  <2>3. AnswerError(text)
    BY <1>2, <1>7, <2>1, <2>2
  <2>4. ErrorData(text) = OutFor(call) /\ ~PanicsOn(call)
    BY <1>2, <1>8, <1>11, <2>2 DEF ErrorData, OutFor, VerdictOf, PanicsOn, PanicsOf
  <2>5. QED
    BY <1>1, <2>3, <2>4, ToAnswerError
<1>12. QED
  BY <1>9, <1>10, <1>11

\* Reading the event leads to the callback or to an answer.
LEMMA ReadEventStep ==
  ASSUME SessionInv, ReadEvent
  PROVE  SessionInv'
<1>1. /\ pc = "read_event" /\ pc \in GuestSteps /\ Spend /\ GuestFrame /\ mm' = mm
      /\ pages' = pages /\ result_ptr' = result_ptr
  BY DEF ReadEvent, GuestSteps
<1>2. /\ call \in Calls /\ call.op = "execute"
      /\ local.state = Effective(call)
      /\ local.state # Fails
      /\ local = [state |-> local.state, event |-> local.event, first |-> local.first,
                  out |-> local.out, last |-> local.last]
      /\ local.first \in {<< >>, CannotParse("State")}
  BY <1>1, Running DEF SessionInv, GuestInv
<1>3. PICK doc : doc = Inputs(call)[3]
  OBVIOUS
<1>4. 3 \in DOMAIN Inputs(call) /\ doc = call.event
  BY <1>2, <1>3, InputsOf
<1>5. PICK r : r = Read(3, ParseEvent, "Event")
  OBVIOUS
<1>6. r = IF ~call.module.exported THEN Answer("trap", "LinkerError")
          ELSE IF ParseEvent[doc] = Fails THEN Answer("err", CannotParse("Event"))
          ELSE Answer("ok", ParseEvent[doc])
  <2>1. PICK i \in DOMAIN Inputs(call) : i = 3
    BY <1>4
  <2>2. doc = Inputs(call)[i]
    BY <1>3, <2>1
  <2>3. Read(i, ParseEvent, "Event") = Parsed(doc, ParseEvent, "Event")
    BY <1>1, <2>2, ReadStaged
  <2>4. QED
    BY <1>5, <2>1, <2>3 DEF Parsed
<1>7. /\ r.kind = "trap" => Trap("host")
      /\ r.kind = "ok" => Continue("callback", [local EXCEPT !.event = r.val])
      /\ r.kind = "err" => AnswerError(r.val)
  BY <1>5 DEF ReadEvent
<1>8. CASE ~call.module.exported
  <2>1. Trap("host")
    BY <1>6, <1>7, <1>8, AnswerKinds
  <2>2. QED
    BY <1>1, <1>8, <2>1, TrapStep DEF TrapReasons
<1>9. CASE call.module.exported /\ ParseEvent[doc] # Fails
  <2>1. r.kind = "ok" /\ r.val = ParseEvent[doc]
    BY <1>6, <1>9, AnswerKinds
  <2>2. PICK locals : locals = [local EXCEPT !.event = ParseEvent[doc]]
    OBVIOUS
  <2>3. Continue("callback", locals)
    BY <1>7, <2>1, <2>2
  <2>4. locals = [state |-> local.state, event |-> ParseEvent[doc], first |-> local.first,
                  out |-> local.out, last |-> local.last]
    BY <1>2, <2>2
  <2>5. /\ locals = [state |-> locals.state, event |-> locals.event, first |-> locals.first,
                     out |-> locals.out, last |-> locals.last]
        /\ locals.out = local.out /\ locals.first = local.first
        /\ locals.state = local.state /\ locals.event = ParseEvent[doc]
    BY <2>4
  <2>6. QED
    BY <1>1, <1>2, <1>4, <1>9, <2>3, <2>5, ToNextRead
<1>10. CASE call.module.exported /\ ParseEvent[doc] = Fails
  <2>1. r.kind = "err" /\ r.val = CannotParse("Event")
    BY <1>6, <1>10, AnswerKinds
  <2>2. AnswerError(CannotParse("Event"))
    BY <1>7, <2>1
  <2>3. ErrorData(CannotParse("Event")) = OutFor(call) /\ ~PanicsOn(call)
    BY <1>2, <1>4, <1>10 DEF ErrorData, OutFor, VerdictOf, PanicsOn, PanicsOf
  <2>4. QED
    BY <1>1, <2>2, <2>3, ToAnswerError
<1>11. QED
  BY <1>8, <1>9, <1>10

\* The callback of an execution is run as ContractCall runs it.
LEMMA RunMainStep ==
  ASSUME SessionInv, RunMain
  PROVE  SessionInv'
<1>1. /\ pc = "callback" /\ pc \in GuestSteps /\ Spend /\ GuestFrame /\ mm' = mm
      /\ pages' = pages /\ result_ptr' = result_ptr /\ call.op = "execute"
  BY DEF RunMain, GuestSteps
<1>2. /\ call \in Calls
      /\ local.state = Effective(call) /\ local.state # Fails
      /\ local.event = ParseEvent[call.event] /\ local.event # Fails
      /\ local = [state |-> local.state, event |-> local.event, first |-> local.first,
                  out |-> local.out, last |-> local.last]
  BY <1>1, Running DEF SessionInv, GuestInv
<1>3. (owner_flag(call.is_owner) = OWNER_FLAG) = call.is_owner
  <2>1. call.is_owner \in BOOLEAN
    BY <1>1, <1>2, CallTypes
  <2>2. CASE call.is_owner = TRUE
    BY <2>2 DEF owner_flag, OWNER_FLAG
  <2>3. CASE call.is_owner = FALSE
    <3>1. ~(owner_flag(call.is_owner) = OWNER_FLAG)
      BY <2>3 DEF owner_flag, OWNER_FLAG
    <3>2. QED
      BY <2>3, <3>1, Zenon
  <2>4. call.is_owner = TRUE \/ call.is_owner = FALSE
    BY <2>1
  <2>5. QED
    BY <2>2, <2>3, <2>4, Zenon
<1>4. PICK run : run = RunOf(call)
  OBVIOUS
<1>5. IF run.status = "panicked"
        THEN Trap("guest")
        ELSE Continue("store", [local EXCEPT !.out = result_data(run.result),
                                             !.last = ToVec[run.result.state] = Fails])
  BY <1>2, <1>3, <1>4 DEF RunMain, RunOf
<1>6. CASE run.status = "panicked"
  BY <1>1, <1>5, <1>6, TrapStep DEF TrapReasons
<1>7. CASE run.status # "panicked"
  <2>1. PICK locals : locals = [local EXCEPT !.out = result_data(run.result),
                                             !.last = ToVec[run.result.state] = Fails]
    OBVIOUS
  <2>2. Continue("store", locals)
    BY <1>5, <1>7, <2>1
  <2>3. locals = [state |-> local.state, event |-> local.event, first |-> local.first,
                  out |-> result_data(run.result), last |-> ToVec[run.result.state] = Fails]
    BY <1>2, <2>1
  <2>4. /\ locals = [state |-> locals.state, event |-> locals.event, first |-> locals.first,
                     out |-> locals.out, last |-> locals.last]
        /\ locals.first = local.first /\ locals.out = result_data(run.result)
    BY <2>3
  <2>5. result_data(run.result) = OutFor(call) /\ ~PanicsOn(call)
    BY <1>1, <1>2, <1>4, <1>7 DEF OutFor, VerdictOf, PanicsOn, PanicsOf
  <2>6. QED
    BY <1>1, <2>2, <2>4, <2>5, ToStore
<1>8. QED
  BY <1>6, <1>7

\* The callback of an init check is run as ContractCall runs it.
LEMMA RunInitCheckStep ==
  ASSUME SessionInv, RunInitCheck
  PROVE  SessionInv'
<1>1. /\ pc = "callback" /\ pc \in GuestSteps /\ Spend /\ GuestFrame /\ mm' = mm
      /\ pages' = pages /\ result_ptr' = result_ptr /\ call.op = "validate"
  BY DEF RunInitCheck, GuestSteps
<1>2. /\ call \in Calls
      /\ local.state = ParseState[call.init_state] /\ local.state # Fails
      /\ local = [state |-> local.state, event |-> local.event, first |-> local.first,
                  out |-> local.out, last |-> local.last]
  BY <1>1, Running DEF SessionInv, GuestInv
<1>3. PICK run : run = InitRun(call)
  OBVIOUS
<1>4. IF run.status = "panicked"
        THEN Trap("guest")
        ELSE Continue("store", [local EXCEPT !.out = check_data(run.result),
                                             !.last = ~run.result.success])
  BY <1>2, <1>3 DEF RunInitCheck, InitRun
<1>5. CASE run.status = "panicked"
  BY <1>1, <1>4, <1>5, TrapStep DEF TrapReasons
<1>6. CASE run.status # "panicked"
  <2>1. PICK locals : locals = [local EXCEPT !.out = check_data(run.result),
                                             !.last = ~run.result.success]
    OBVIOUS
  <2>2. Continue("store", locals)
    BY <1>4, <1>6, <2>1
  <2>3. locals = [state |-> local.state, event |-> local.event, first |-> local.first,
                  out |-> check_data(run.result), last |-> ~run.result.success]
    BY <1>2, <2>1
  <2>4. /\ locals = [state |-> locals.state, event |-> locals.event, first |-> locals.first,
                     out |-> locals.out, last |-> locals.last]
        /\ locals.first = local.first /\ locals.out = check_data(run.result)
    BY <2>3
  <2>5. check_data(run.result) = OutFor(call) /\ ~PanicsOn(call)
    BY <1>1, <1>2, <1>3, <1>6 DEF OutFor, CheckVerdict, PanicsOn, CheckPanics
  <2>6. QED
    BY <1>1, <2>2, <2>4, <2>5, ToStore
<1>7. QED
  BY <1>5, <1>6

\* A result is given an object behind the inputs, never at offset 0.
LEMMA StoreAllocStep ==
  ASSUME SessionInv, StoreAlloc
  PROVE  SessionInv'
<1>1. /\ pc = "store" /\ pc \in GuestSteps /\ Spend /\ GuestFrame /\ pages' = pages
      /\ call' = call /\ ptrs' = ptrs /\ fuel \in Nat
  BY SessionAssumption DEF StoreAlloc, GuestSteps, GuestFrame, SessionInv, TypeOK, Budget
<1>2. /\ call \in Calls /\ limits \in Limits /\ call.op \in {"validate", "execute"}
      /\ WellFormed(mm) /\ DOMAIN ptrs = DOMAIN Inputs(call) /\ trap = "none"
  BY <1>1, Running
<1>3. local.out # Fails /\ local.out = OutFor(call) /\ ~PanicsOn(call)
  BY <1>1 DEF SessionInv, GuestInv
<1>4. OutBytes \in Seq(Byte) /\ Len(OutBytes) \in 1..I32Max
  BY <1>2, <1>3, StoredBytes
<1>5. PICK n \in Nat : n = Len(OutBytes) /\ n > 0 /\ n <= I32Max
  BY <1>4, WidthAssumption
<1>6. Len(mm.memory) \in Nat /\ Len(mm.memory) # 0 /\ Len(mm.memory) <= I32Max
  <2>1. 1 \in DOMAIN ptrs
    BY <1>2, InputsOf
  <2>2. ptrs[1] \in DOMAIN mm.map
    BY <2>1 DEF SessionInv, StagedInv
  <2>3. /\ ptrs[1] \in 0..I32Max /\ mm.map[ptrs[1]] \in Nat /\ mm.map[ptrs[1]] > 0
        /\ ptrs[1] + mm.map[ptrs[1]] <= Len(mm.memory)
        /\ Len(mm.memory) \in Nat /\ Len(mm.memory) <= I32Max
    BY <1>2, <2>2, TrackedPointer
  <2>4. QED
    BY <2>3, WidthAssumption
<1>7. PICK r : r = env_alloc(mm, n)
  OBVIOUS
<1>8. PICK a : a = alloc(mm, n)
  OBVIOUS
<1>9. /\ r.ok \in BOOLEAN
      /\ r.ok <=> a.ok
      /\ r.mm = a.mm
      /\ r.ok => r.val = Len(mm.memory)
  BY <1>2, <1>7, <1>8, EnvAllocResult
<1>10. /\ mm' = r.mm
       /\ result_ptr' = IF r.ok THEN r.val ELSE 0
       /\ IF ~r.ok THEN Trap("alloc") ELSE Continue("write", local)
  <2>1. ~(Len(OutBytes) > I32Max) /\ ~(r.ok /\ r.val = 0)
    BY <1>5, <1>6, <1>9, WidthAssumption
  <2>2. r = env_alloc(mm, Len(OutBytes))
    BY <1>5, <1>7
  <2>3. QED
    BY <2>1, <2>2 DEF StoreAlloc
<1>11. fuel' \in 0..fuel
  BY <1>1 DEF Spend, metered
<1>12. pages' \in Nat /\ pages' <= limits.memory_size
  BY <1>1 DEF SessionInv, TypeOK, CallInv
<1>13. CASE ~r.ok
  <2>1. mm' = mm
    BY <1>2, <1>5, <1>8, <1>9, <1>10, <1>13, AllocResult DEF WellFormed
  <2>2. MemoryKept
    BY <2>1 DEF SessionInv, StoreInv, StagedInv, MemoryKept, SameLimits
  <2>3. pc' = "trapped" /\ trap' = "alloc" /\ local' = local /\ result_ptr' = 0
    BY <1>10, <1>13 DEF Trap
  <2>4. GuestInv'
    BY <1>1, <2>3 DEF SessionInv, GuestInv
  <2>5. TrapInv' /\ ResultInv'
    BY <2>3 DEF TrapInv, ResultInv
  <2>6. result_ptr' \in I32 /\ trap' \in TrapReasons /\ pc' \in Entered
    BY <2>3, WidthAssumption DEF I32, TrapReasons, Entered, Linked
  <2>7. QED
    BY <1>1, <1>11, <1>12, <2>2, <2>4, <2>5, <2>6, GuestStep
<1>14. CASE r.ok
  <2>1. a.ok /\ mm' = a.mm /\ result_ptr' = Len(mm.memory)
    BY <1>9, <1>10, <1>14
  <2>2. /\ WellFormed(mm')
        /\ Len(mm.memory) \notin DOMAIN mm.map
        /\ DOMAIN mm'.map = DOMAIN mm.map \cup {Len(mm.memory)}
        /\ mm'.map[Len(mm.memory)] = n
        /\ \A p \in DOMAIN mm.map : Contents(mm')[p] = Contents(mm)[p]
    BY <1>2, <1>5, <1>8, <2>1, AllocContents
  <2>3. SameLimits(mm, mm')
    BY <1>2, <1>8, <2>1, AllocFits
  <2>4. \A i \in DOMAIN ptrs : ptrs[i] \in DOMAIN mm.map
    BY DEF SessionInv, StagedInv
  <2>5. MemoryKept
    BY <2>2, <2>3, <2>4 DEF MemoryKept
  <2>6. pc' = "write" /\ local' = local /\ trap' = trap
    BY <1>10, <1>14 DEF Continue
  <2>7. GuestInv'
    <3>1. OutFor(call)' = OutFor(call) /\ PanicsOn(call)' = PanicsOn(call)
      BY <1>1 DEF OutFor, VerdictOf, CheckVerdict, PanicsOn, PanicsOf, CheckPanics
    <3>2. QED
      BY <1>1, <1>2, <1>3, <2>6, <3>1 DEF SessionInv, GuestInv
  <2>8. TrapInv'
    BY <1>2, <2>6 DEF TrapInv
  <2>9. ResultInv'
    <3>1. OutBytes' = OutBytes
      BY <1>1, <2>6 DEF OutBytes
    <3>2. QED
      BY <1>1, <1>5, <1>6, <2>1, <2>2, <2>4, <2>6, <3>1 DEF ResultInv
  <2>10. result_ptr' \in I32 /\ trap' \in TrapReasons /\ pc' \in Entered
    BY <1>2, <1>6, <2>1, <2>6, WidthAssumption DEF I32, TrapReasons, Entered, Linked, GuestSteps
  <2>11. QED
    BY <1>1, <1>11, <1>12, <2>5, <2>7, <2>8, <2>9, <2>10, GuestStep
<1>15. QED
  BY <1>9, <1>13, <1>14

\* Writing the result fills its object and nothing else.
LEMMA StoreWriteStep ==
  ASSUME SessionInv, StoreWrite
  PROVE  SessionInv'
<1>1. /\ pc = "write" /\ pc \in GuestSteps /\ Spend /\ GuestFrame /\ pages' = pages
      /\ call' = call /\ ptrs' = ptrs /\ result_ptr' = result_ptr /\ fuel \in Nat
  BY SessionAssumption DEF StoreWrite, GuestSteps, GuestFrame, SessionInv, TypeOK, Budget
<1>2. /\ call \in Calls /\ call.module.exported \in BOOLEAN /\ WellFormed(mm) /\ trap = "none"
  BY <1>1, Running
<1>3. local.out # Fails /\ local.out = OutFor(call) /\ ~PanicsOn(call)
  BY <1>1 DEF SessionInv, GuestInv
<1>4. OutBytes \in Seq(Byte)
  BY <1>2, <1>3, StoredBytes
<1>5. /\ result_ptr \in DOMAIN mm.map /\ result_ptr # 0
      /\ \A i \in DOMAIN ptrs : ptrs[i] # result_ptr
      /\ mm.map[result_ptr] = Len(OutBytes)
  BY <1>1 DEF SessionInv, ResultInv
<1>6. PICK r : r = env_write_bytes(mm, OutBytes, call.module.exported, result_ptr, 0, Len(OutBytes))
  OBVIOUS
<1>7. /\ r.ok <=> call.module.exported
      /\ ~r.ok => r.mm = mm
      /\ r.ok => Holds(r.mm, mm, result_ptr, OutBytes)
  BY <1>2, <1>4, <1>5, <1>6, StoreWhole
<1>8. mm' = r.mm /\ IF r.ok THEN Continue("returned", local) ELSE Trap("host")
  BY <1>6 DEF StoreWrite
<1>9. CASE ~r.ok
  BY <1>1, <1>7, <1>8, <1>9, TrapStep DEF TrapReasons
<1>10. CASE r.ok
  <2>1. Holds(mm', mm, result_ptr, OutBytes)
    BY <1>7, <1>8, <1>10
  <2>2. \A i \in DOMAIN ptrs : ptrs[i] \in DOMAIN mm.map \ {result_ptr}
    BY <1>5 DEF SessionInv, StagedInv
  <2>3. MemoryKept
    BY <2>1, <2>2 DEF Holds, MemoryKept
  <2>4. pc' = "returned" /\ local' = local /\ trap' = trap
    BY <1>8, <1>10 DEF Continue
  <2>5. GuestInv'
    <3>1. OutFor(call)' = OutFor(call) /\ PanicsOn(call)' = PanicsOn(call)
      BY <1>1 DEF OutFor, VerdictOf, CheckVerdict, PanicsOn, PanicsOf, CheckPanics
    <3>2. QED
      BY <1>1, <1>2, <1>3, <2>4, <3>1 DEF SessionInv, GuestInv
  <2>6. TrapInv'
    BY <1>2, <2>4 DEF TrapInv
  <2>7. ResultInv'
    <3>1. OutBytes' = OutBytes
      BY <1>1, <2>4 DEF OutBytes
    <3>2. QED
      BY <1>1, <1>5, <2>1, <2>4, <3>1 DEF ResultInv, Holds
  <2>8. fuel' \in 0..fuel
    BY <1>1 DEF Spend, metered
  <2>9. pages' \in Nat /\ pages' <= limits.memory_size /\ result_ptr' \in I32
    BY <1>1 DEF SessionInv, TypeOK, CallInv
  <2>10. trap' \in TrapReasons /\ pc' \in Entered
    BY <1>2, <2>4 DEF TrapReasons, Entered, Linked
  <2>11. QED
    BY <1>1, <2>3, <2>5, <2>6, <2>7, <2>8, <2>9, <2>10, GuestStep
<1>11. QED
  BY <1>9, <1>10

\* Whatever else the guest does, its memory stays inside the limit.
LEMMA GuestWorkStep ==
  ASSUME SessionInv, NEW growth \in {0, 1}, GuestWork(growth)
  PROVE  SessionInv'
<1>1. /\ pc \in GuestSteps /\ Spend /\ GuestFrame /\ mm' = mm /\ result_ptr' = result_ptr
      /\ call' = call /\ ptrs' = ptrs
      /\ IF pages + growth <= mm.store_limits.memory_size
           THEN pages' = pages + growth /\ Continue(pc, local)
           ELSE pages' = pages /\ Trap("memory")
  BY DEF GuestWork, GuestFrame
<1>2. call \in Calls /\ limits \in Limits /\ trap = "none"
  BY <1>1, Running
<1>3. mm.store_limits.memory_size = limits.memory_size
  BY <1>2, FromLimits DEF SessionInv, StoreInv, SameLimits
<1>4. CASE ~(pages + growth <= mm.store_limits.memory_size)
  BY <1>1, <1>4, TrapStep DEF TrapReasons
<1>5. CASE pages + growth <= mm.store_limits.memory_size
  <2>1. pages' = pages + growth /\ pc' = pc /\ local' = local /\ trap' = trap
    BY <1>1, <1>5 DEF Continue
  <2>2. MemoryKept
    BY <1>1 DEF SessionInv, StoreInv, StagedInv, MemoryKept, SameLimits
  <2>3. GuestInv'
    <3>1. OutFor(call)' = OutFor(call) /\ PanicsOn(call)' = PanicsOn(call)
      BY <1>1 DEF OutFor, VerdictOf, CheckVerdict, PanicsOn, PanicsOf, CheckPanics
    <3>2. QED
      BY <1>1, <2>1, <3>1 DEF SessionInv, GuestInv
  <2>4. TrapInv'
    BY <1>1, <1>2, <2>1 DEF TrapInv, GuestSteps
  <2>5. ResultInv'
    <3>1. OutBytes' = OutBytes
      BY <1>1, <2>1 DEF OutBytes
    <3>2. QED
      BY <1>1, <2>1, <3>1 DEF SessionInv, ResultInv
  <2>6. fuel \in Nat
    BY SessionAssumption DEF SessionInv, TypeOK, Budget
  <2>7. fuel' \in 0..fuel
    BY <1>1, <2>6 DEF Spend, metered
  <2>8. pages \in Nat /\ result_ptr' \in I32
    BY <1>1 DEF SessionInv, TypeOK
  <2>9. pages' \in Nat /\ pages' <= limits.memory_size
    BY <1>3, <1>5, <2>1, <2>8
  <2>10. trap' \in TrapReasons /\ pc' \in Entered
    BY <1>1, <1>2, <2>1 DEF TrapReasons, Entered, Linked
  <2>11. QED
    BY <1>1, <2>2, <2>3, <2>4, <2>5, <2>7, <2>8, <2>9, <2>10, GuestStep
<1>6. QED
  BY <1>4, <1>5

\* A guest without fuel stops.
LEMMA GuestOutOfFuelStep ==
  ASSUME SessionInv, GuestOutOfFuel
  PROVE  SessionInv'
<1>1. /\ pc \in GuestSteps /\ fuel = 0 /\ GuestFrame /\ mm' = mm /\ fuel' = fuel
      /\ pages' = pages /\ result_ptr' = result_ptr /\ call' = call
      /\ pc' = "trapped" /\ trap' = "fuel" /\ local' = local
  BY DEF GuestOutOfFuel, GuestFrame, Trap
<1>2. MemoryKept
  BY <1>1 DEF SessionInv, StoreInv, StagedInv, MemoryKept, SameLimits
<1>3. GuestInv'
  BY <1>1 DEF SessionInv, GuestInv
<1>4. TrapInv' /\ ResultInv'
  BY <1>1 DEF TrapInv, ResultInv
<1>5. pages' \in Nat /\ pages' <= limits.memory_size /\ result_ptr' \in I32 /\ fuel' \in 0..fuel
  BY <1>1 DEF SessionInv, TypeOK, CallInv
<1>6. trap' \in TrapReasons /\ pc' \in Entered
  BY <1>1 DEF TrapReasons, Entered, Linked
<1>7. QED
  BY <1>1, <1>2, <1>3, <1>4, <1>5, <1>6, GuestStep

-----------------------------------------------------------------------------
(***************************************************************************)
(* The host after the guest stopped.                                       *)
(***************************************************************************)

\* The host reads what the guest stored, and no input.
LEMMA ResultRead ==
  ASSUME SessionInv, pc = "returned"
  PROVE  /\ result_ptr # 0
         /\ \A i \in DOMAIN ptrs : ptrs[i] # i32_as_u32(result_ptr)
         /\ read_data(mm, i32_as_u32(result_ptr)) = Ok(mm, OutBytes)
<1>1. /\ result_ptr \in DOMAIN mm.map /\ result_ptr # 0
      /\ \A i \in DOMAIN ptrs : ptrs[i] # result_ptr
      /\ Contents(mm)[result_ptr] = OutBytes
      /\ WellFormed(mm)
  BY DEF SessionInv, ResultInv, StoreInv
<1>2. /\ i32_as_u32(result_ptr) = result_ptr
      /\ mm.map[result_ptr] \in Nat /\ result_ptr \in 0..I32Max
      /\ result_ptr + mm.map[result_ptr] <= Len(mm.memory)
      /\ Len(mm.memory) \in Nat /\ Len(mm.memory) <= UsizeMax
  BY <1>1, TrackedPointer
<1>3. /\ ~(result_ptr + mm.map[result_ptr] > UsizeMax)
      /\ ~(result_ptr + mm.map[result_ptr] > Len(mm.memory))
  BY <1>2, WidthAssumption
<1>4. read_data(mm, result_ptr) = Ok(mm, slice(mm.memory, result_ptr, mm.map[result_ptr]))
  BY <1>1, <1>3 DEF read_data
<1>5. Contents(mm)[result_ptr] = slice(mm.memory, result_ptr, mm.map[result_ptr])
  BY <1>1, ContentsType
<1>6. QED
  BY <1>1, <1>2, <1>4, <1>5

\* What is known of a call whose guest stopped.
LEMMA Stopped ==
  ASSUME SessionInv, pc \in {"returned", "trapped"}
  PROVE  /\ pc # "done" /\ call \in Calls /\ limits \in Limits /\ InputsFit
         /\ Fits(call.module) /\ entry_points(call)
         /\ call.op = "validate" => Call!ImportsSdk(call.module.imports)
         /\ trap \in TrapReasons /\ (trap = "host" => ~call.module.exported)
         /\ observed = NotObserved
         /\ pages \in Nat /\ pages <= limits.memory_size /\ limits.memory_size \in Nat
         /\ pc = "returned" => local.out = OutFor(call) /\ ~PanicsOn(call)
<1>1. /\ call \in Calls /\ limits \in Limits /\ InputsFit
      /\ Fits(call.module) /\ entry_points(call)
      /\ call.op = "validate" => imports_fault(call.module.imports) = "none"
      /\ trap \in TrapReasons /\ (trap = "host" => ~call.module.exported)
      /\ observed = NotObserved
      /\ pages \in Nat /\ pages <= limits.memory_size
  BY DEF SessionInv, CallInv, StagedInv, TypeOK, TrapInv, Staged, Entered, Linked
<1>2. limits.memory_size \in Nat
  BY <1>1, FromLimits
<1>3. pc = "returned" => local.out = OutFor(call) /\ ~PanicsOn(call)
  BY DEF SessionInv, GuestInv
<1>4. call.op = "validate" => Call!ImportsSdk(call.module.imports)
  BY <1>1, ImportsAgree
<1>5. QED
  BY <1>1, <1>2, <1>3, <1>4

\* A validation answers what ContractCall allows.
LEMMA ConcludeValidateStep ==
  ASSUME SessionInv, ConcludeValidate
  PROVE  SessionInv'
<1>1. /\ pc \in {"returned", "trapped"} /\ call.op = "validate"
      /\ limits' = limits /\ call' = call /\ trap' = trap
  BY DEF ConcludeValidate, HostFrame
<1>2. /\ pc # "done" /\ call \in Calls /\ limits \in Limits /\ InputsFit
      /\ Fits(call.module) /\ entry_points(call)
      /\ Call!ImportsSdk(call.module.imports)
      /\ trap \in TrapReasons /\ (trap = "host" => ~call.module.exported)
      /\ pc = "returned" => local.out = OutFor(call) /\ ~PanicsOn(call)
  BY <1>1, Stopped
<1>3. PICK r : r = IF pc = "returned" THEN check_init_result(mm, result_ptr)
                   ELSE Failure("ContractExecutionFailed")
  OBVIOUS
<1>4. Finish(r, observed)
  BY <1>3 DEF ConcludeValidate
<1>5. /\ Call!Answers(call, r)
      /\ r \in {Failure("ContractExecutionFailed"), Success(check_ok)}
  <2>1. Call!Answers(call, Failure("ContractExecutionFailed"))
    BY <1>1, AnswersOf
  <2>2. CASE pc = "trapped"
    BY <1>3, <2>1, <2>2
  <2>3. CASE pc = "returned"
    <3>1. PICK v : v = CheckVerdict(call)
      OBVIOUS
    <3>2. /\ v.success \in BOOLEAN /\ GoodText(v.error)
          /\ v = [success |-> v.success, error |-> v.error] /\ v # Fails
      BY <1>2, <3>1, CheckType
    <3>3. OutBytes = borsh_check(v)
      BY <1>1, <1>2, <2>3, <3>1 DEF OutBytes, OutFor
    <3>4. decode_check(borsh_check(v)) = v
      BY <3>2, CheckBytesType
    <3>5. read_data(mm, i32_as_u32(result_ptr)) = Ok(mm, borsh_check(v))
      BY <2>3, <3>3, ResultRead
    <3>6. r = IF v.success THEN Success(check_ok) ELSE Failure("ContractExecutionFailed")
      <4>1. Ok(mm, borsh_check(v)).ok /\ Ok(mm, borsh_check(v)).val = borsh_check(v)
        BY DEF Ok
      <4>2. QED
        BY <1>3, <2>3, <3>2, <3>4, <3>5, <4>1 DEF check_init_result
    <3>7. ASSUME v.success PROVE Call!Accepts(call)
      <4>1. ParseState[call.init_state] # Fails
        BY <3>1, <3>7 DEF CheckVerdict, check_error
      <4>2. InitRun(call).status # "panicked"
        BY <1>1, <1>2, <2>3, <4>1 DEF PanicsOn, CheckPanics
      <4>3. v = check_data(InitRun(call).result)
        BY <3>1, <4>1 DEF CheckVerdict
      <4>4. InitRun(call).result.success
        BY <3>7, <4>3 DEF check_data, check_error
      <4>5. call.module.main /\ call.module.init_check
        BY <1>1, <1>2 DEF entry_points
      <4>6. QED
        BY <1>2, <4>1, <4>2, <4>4, <4>5, SameAcceptance
    <3>8. QED
      BY <1>1, <2>1, <3>2, <3>6, <3>7, AnswersOf
  <2>4. QED
    BY <1>1, <2>2, <2>3
<1>6. pc' = "done" /\ result' = r
  BY <1>4 DEF Finish
<1>7. /\ r # Failure("MemoryAllocationFailed")
      /\ r.ok => Fits(call.module) /\ call.module.main
  <2>1. /\ Failure("ContractExecutionFailed") # Failure("MemoryAllocationFailed")
        /\ Success(check_ok).ok /\ ~Failure("MemoryAllocationFailed").ok
    BY DEF Failure, Success
  <2>2. QED
    BY <1>2, <1>5, <2>1 DEF entry_points
<1>8. AnswerInv'
  <2>1. Call!Answers(call, result)'
    BY <1>1, <1>5, <1>6 DEF Call!Answers, Call!Panics, Call!Verdict
  <2>2. RefusalMeansInputsTooBig'
    BY <1>1, <1>2, <1>6, <1>7 DEF RefusalMeansInputsTooBig, InputsFit
  <2>3. MetricsAgree' /\ ValidatedModulesRun'
    BY <1>1 DEF MetricsAgree, ValidatedModulesRun
  <2>4. QED
    BY <2>1, <2>2, <2>3 DEF AnswerInv
<1>9. QED
  BY <1>1, <1>2, <1>4, <1>7, <1>8, FinishStep

\* An execution answers what ContractCall allows, and is measured as it is
\* answered.
LEMMA ConcludeExecuteStep ==
  ASSUME SessionInv, ConcludeExecute
  PROVE  SessionInv'
<1>1. /\ pc \in {"returned", "trapped"} /\ call.op = "execute"
      /\ limits' = limits /\ call' = call /\ trap' = trap
  BY DEF ConcludeExecute, HostFrame
<1>2. /\ pc # "done" /\ call \in Calls /\ limits \in Limits /\ InputsFit
      /\ trap \in TrapReasons /\ (trap = "host" => ~call.module.exported)
      /\ observed = NotObserved
      /\ pages \in Nat /\ pages <= limits.memory_size /\ limits.memory_size \in Nat
      /\ pc = "returned" => local.out = OutFor(call) /\ ~PanicsOn(call)
  BY <1>1, Stopped
<1> DEFINE exhausted == pc = "trapped" /\ trap = "fuel"
<1>3. PICK r : r = IF pc = "returned" THEN get_execution_result(mm, result_ptr)
                   ELSE IF exhausted THEN Failure("OutOfFuel")
                   ELSE Failure("ContractExecutionFailed")
  OBVIOUS
<1>4. PICK obs : obs = [observed EXCEPT !.samples = IF pc = "returned" THEN "success" ELSE "error",
                                        !.fuel_consumed = MAX_FUEL - fuel,
                                        !.memory = IF call.module.exported THEN pages ELSE 0,
                                        !.exhausted = exhausted]
  OBVIOUS
<1>5. Finish(r, obs)
  BY <1>3, <1>4 DEF ConcludeExecute
<1>6. /\ pc' = "done" /\ result' = r /\ validated' = validated
      /\ observed' = [obs EXCEPT !.execution = execution_label(r)]
  BY <1>1, <1>5 DEF Finish
<1>7. observed' = [execution |-> execution_label(r),
                   samples |-> IF pc = "returned" THEN "success" ELSE "error",
                   fuel_consumed |-> MAX_FUEL - fuel,
                   memory |-> IF call.module.exported THEN pages ELSE 0,
                   exhausted |-> exhausted]
  BY <1>2, <1>4, <1>6 DEF NotObserved
<1>8. PICK v : v = VerdictOf(call)
  OBVIOUS
<1>9. ASSUME pc = "returned"
      PROVE  r = IF v.final_state \in ValueDoc THEN Success(v) ELSE Failure("SerializationError")
  <2>1. v # Fails
    BY <1>1, <1>2, <1>8, VerdictType
  <2>2. OutBytes = borsh_result(v)
    BY <1>1, <1>2, <1>8, <1>9 DEF OutBytes, OutFor
  <2>3. decode_result(borsh_result(v)) = v
    BY <1>1, <1>2, <1>8, ResultBytesType
  <2>4. read_data(mm, i32_as_u32(result_ptr)) = Ok(mm, borsh_result(v))
    BY <1>9, <2>2, ResultRead
  <2>5. Ok(mm, borsh_result(v)).ok /\ Ok(mm, borsh_result(v)).val = borsh_result(v)
    BY DEF Ok
  <2>6. QED
    BY <1>3, <1>9, <2>1, <2>3, <2>4, <2>5 DEF get_execution_result
<1>10. /\ \A k : ~Failure(k).ok
       /\ \A k, l : Failure(k) = Failure(l) => k = l
       /\ Success(v).ok /\ Success(v).data = v
  BY DEF Failure, Success
<1>11. Call!Answers(call, r)
  <2>1. CASE pc = "returned"
    <3>1. ~PanicsOf(call)
      BY <1>1, <1>2, <2>1 DEF PanicsOn
    <3>2. QED
      BY <1>1, <1>8, <1>9, <2>1, <3>1, AnswersOf
  <2>2. CASE pc = "trapped"
    <3>1. r = Failure("OutOfFuel") \/ r = Failure("ContractExecutionFailed")
      BY <1>3, <2>2
    <3>2. QED
      BY <1>1, <3>1, AnswersOf
  <2>3. QED
    BY <1>1, <2>1, <2>2
<1>12. /\ r # Failure("MemoryAllocationFailed") /\ r # Failure("InstantiationFailed")
       /\ r # Failure("EntryPointNotFound")
       /\ pc = "returned" <=> r.ok \/ r = Failure("SerializationError")
       /\ exhausted <=> r = Failure("OutOfFuel")
       /\ r.ok => r.data = v
  <2>1. CASE pc = "returned"
    BY <1>9, <1>10, <2>1
  <2>2. CASE pc = "trapped"
    BY <1>3, <1>10, <2>2
  <2>3. QED
    BY <1>1, <2>1, <2>2
<1>13. MetricsAgree'
  <2>1. Call!Verdict(call)' = v
    BY <1>1, <1>8, SameVerdict DEF Call!Verdict
  <2>2. /\ observed'.execution = "error" <=> ~r.ok
        /\ observed'.execution = "accepted" => v.success
        /\ observed'.execution = "rejected" => ~v.success
    BY <1>7, <1>12 DEF execution_label
  <2>3. observed'.samples = "success" <=> r.ok \/ r = Failure("SerializationError")
    BY <1>1, <1>7, <1>12
  <2>4. observed'.exhausted <=> r = Failure("OutOfFuel")
    BY <1>7, <1>12
  <2>5. observed'.exhausted => observed'.fuel_consumed = MAX_FUEL
    <3>1. exhausted => fuel = 0
      BY DEF SessionInv, TrapInv
    <3>2. MAX_FUEL - 0 = MAX_FUEL
      BY SessionAssumption
    <3>3. QED
      BY <1>7, <3>1, <3>2
  <2>6. observed'.memory <= limits'.memory_size
    BY <1>1, <1>2, <1>7
  <2>7. QED
    BY <1>6, <2>1, <2>2, <2>3, <2>4, <2>5, <2>6 DEF MetricsAgree
<1>14. AnswerInv'
  <2>1. Call!Answers(call, result)'
    BY <1>1, <1>6, <1>11 DEF Call!Answers, Call!Panics, Call!Verdict
  <2>2. RefusalMeansInputsTooBig'
    BY <1>1, <1>2, <1>6, <1>12 DEF RefusalMeansInputsTooBig, InputsFit
  <2>3. ValidatedModulesRun'
    BY <1>6, <1>12 DEF ValidatedModulesRun
  <2>4. QED
    BY <1>13, <2>1, <2>2, <2>3 DEF AnswerInv
<1>15. QED
  BY <1>1, <1>2, <1>5, <1>14, FinishStep

\* Nothing changes with the variables.
LEMMA SessionStutter ==
  ASSUME SessionInv, UNCHANGED vars
  PROVE  SessionInv'
<1>1. /\ limits' = limits /\ pc' = pc /\ call' = call /\ mm' = mm /\ ptrs' = ptrs
      /\ fuel' = fuel /\ pages' = pages /\ local' = local /\ result_ptr' = result_ptr
      /\ trap' = trap /\ result' = result /\ observed' = observed /\ validated' = validated
  BY DEF vars, storeVars, guestVars, answerVars
<1>2. TypeOK' /\ StoreInv' /\ CallInv'
  BY <1>1 DEF SessionInv, TypeOK, StoreInv, CallInv, Fits, Budget
<1>3. StagedInv'
  BY <1>1 DEF SessionInv, StagedInv, StagedBytes, InputsFit
<1>4. GuestInv'
  BY <1>1 DEF SessionInv, GuestInv
<1>5. TrapInv' /\ ResultInv' /\ ValidatedInv'
  BY <1>1 DEF SessionInv, TrapInv, ResultInv, ValidatedInv, OutBytes, Fits
<1>6. AnswerInv'
  BY <1>1 DEF SessionInv, AnswerInv, RefusalMeansInputsTooBig, InputsFit, MetricsAgree,
              ValidatedModulesRun
<1> QED
  BY <1>2, <1>3, <1>4, <1>5, <1>6 DEF SessionInv

LEMMA SessionNext == SessionInv /\ [Next]_vars => SessionInv'
<1> SUFFICES ASSUME SessionInv, [Next]_vars
             PROVE  SessionInv'
  OBVIOUS
<1>1. CASE UNCHANGED vars
  BY <1>1, SessionStutter
<1>2. CASE \E c \in Calls : Submit(c)
  BY <1>2, SubmitStep
<1>3. CASE Step
  BY <1>3, CheckImportsStep, StageStep, InstantiateStep, StartWorkStep, StartAllocStep,
     StartEndsStep, EnterGuestStep, ReadStateStep, ReadInitStep, ReadEventStep, RunMainStep,
     RunInitCheckStep, StoreAllocStep, StoreWriteStep,
     GuestWorkStep, GuestOutOfFuelStep, ConcludeValidateStep, ConcludeExecuteStep
     DEF Step
<1> QED
  BY <1>1, <1>2, <1>3 DEF Next

\* The invariant holds of every runtime.
LEMMA SessionInvariant == Spec => []SessionInv
<1>1. Init => SessionInv
  BY SessionInit
<1>2. SessionInv /\ [Next]_vars => SessionInv'
  BY SessionNext
<1> QED
  BY <1>1, <1>2, PTL DEF Spec

-----------------------------------------------------------------------------
(***************************************************************************)
(* What it shows.                                                          *)
(***************************************************************************)

\* Every variable keeps its type, fuel stays inside the budget of the call and
\* linear memory inside the store's limit, whatever a module does.
THEOREM SessionTypeOK == Spec => []TypeOK
<1>1. SessionInv => TypeOK
  BY DEF SessionInv
<1> QED
  BY <1>1, SessionInvariant, PTL

\* The inputs validate and execute stage stay as they were written until the
\* call is answered, through every allocation and write the guest makes.
THEOREM SessionInputsSurvive == Spec => []StagedInputsSurvive
<1>1. SessionInv => StagedInputsSurvive
  <2> SUFFICES ASSUME SessionInv, NEW i \in DOMAIN ptrs
               PROVE  /\ read_data(mm, ptrs[i]).ok
                      /\ read_data(mm, ptrs[i]).val = borsh_data(Inputs(call)[i])
    BY DEF StagedInputsSurvive
  <2>1. /\ WellFormed(mm) /\ ptrs[i] \in DOMAIN mm.map
        /\ Contents(mm)[ptrs[i]] = borsh_data(Inputs(call)[i])
    BY DEF SessionInv, StoreInv, StagedInv
  <2>2. ptrs[i] \in Nat
    BY <2>1, TrackedPointer
  <2>3. /\ read_data(mm, ptrs[i]).ok
        /\ read_data(mm, ptrs[i]).val = slice(mm.memory, ptrs[i], mm.map[ptrs[i]])
    BY <2>1, <2>2, ReadDataResult
  <2> QED
    BY <2>1, <2>3, ContentsType
<1> QED
  BY <1>1, SessionInvariant, PTL

\* No import refuses the SDK what it asks for except an allocation, and no input
\* the host staged is one the guest cannot read or deserialize.
THEOREM SessionCallsSucceed == Spec => []SdkCallsSucceed
<1>1. SessionInv => SdkCallsSucceed
  <2> SUFFICES ASSUME SessionInv
               PROVE  SdkCallsSucceed
    OBVIOUS
  <2>1. trap = "host" => ~call.module.exported
    BY DEF SessionInv, TrapInv
  <2>2. GoodText(local.first)
    BY SdkTexts DEF SessionInv, GuestInv
  <2>3. ASSUME local.out # Fails
        PROVE  GoodText(local.out.error)
    <3>1. call \in Calls /\ local.out = OutFor(call)
      BY <2>3 DEF SessionInv, GuestInv
    <3>2. CASE call.op = "execute"
      BY <3>1, <3>2, VerdictType DEF OutFor
    <3>3. CASE call.op # "execute"
      BY <3>1, <3>3, CheckType DEF OutFor
    <3> QED
      BY <3>2, <3>3
  <2> QED
    BY <2>1, <2>2, <2>3 DEF SdkCallsSucceed, GoodText, Unreadable
<1> QED
  BY <1>1, SessionInvariant, PTL

\* The pointer an entry point returns names the result and no staged input: the
\* 0 of a store that failed twice never reaches the host's read of the result.
THEOREM SessionResultIsFresh == Spec => []ResultIsFresh
<1>1. SessionInv => ResultIsFresh
  BY ResultRead DEF ResultIsFresh
<1> QED
  BY <1>1, SessionInvariant, PTL

\* A node answers MemoryAllocationFailed exactly when the inputs of the call do
\* not fit its caps: no result it can see is refused for its place.
THEOREM SessionRefusals == Spec => []RefusalMeansInputsTooBig
<1>1. SessionInv => RefusalMeansInputsTooBig
  BY DEF SessionInv, AnswerInv
<1> QED
  BY <1>1, SessionInvariant, PTL

\* The labels and samples execute records agree with the answer it gives.
THEOREM SessionMetricsAgree == Spec => []MetricsAgree
<1>1. SessionInv => MetricsAgree
  BY DEF SessionInv, AnswerInv
<1> QED
  BY <1>1, SessionInvariant, PTL

\* A module the runtime has accepted is linked and entered by every later execute,
\* on whatever is staged for it: only a trap of its own start function can keep
\* it from being instantiated.
THEOREM SessionValidatedModulesRun == Spec => []ValidatedModulesRun
<1>1. SessionInv => ValidatedModulesRun
  BY DEF SessionInv, AnswerInv
<1> QED
  BY <1>1, SessionInvariant, PTL

-----------------------------------------------------------------------------
(***************************************************************************)
(* The runtime implements ContractCall.                                    *)
(***************************************************************************)

\* A step of a call leaves it the call it is.
LEMMA StepKeepsCall ==
  ASSUME Step
  PROVE  pc # "done" /\ call' = call
  BY DEF Step, CheckImports, Stage, Instantiate, StartWork, StartAlloc, StartTrap,
         StartOutOfFuel, StartFails, StartFrame, EnterGuest, ReadState, ReadInit, ReadEvent, RunMain,
         RunInitCheck, StoreAlloc, StoreWrite, GuestWork, GuestOutOfFuel, ConcludeValidate,
         ConcludeExecute, GuestFrame, HostFrame, GuestSteps

LEMMA SessionRefines ==
  ASSUME SessionInv, SessionInv', [Next]_vars
  PROVE  [Call!Next]_(Call!vars)
<1>1. CASE UNCHANGED vars
  BY <1>1 DEF vars, answerVars, Call!vars
<1>2. CASE \E c \in Calls : Submit(c)
  <2>1. PICK c \in Calls : Submit(c)
    BY <1>2
  <2>2. c.op \in {"validate", "execute"}
    BY CallTypes
  <2>3. /\ pc = "done" /\ pc' # "done"
        /\ call' \in Calls /\ result' = Failure("none")
    BY <2>1, <2>2 DEF Submit
  <2>4. Call!Begin
    BY <2>3 DEF Call!Begin, Call!Failure, Failure
  <2> QED
    BY <2>4 DEF Call!Next
<1>3. CASE Step
  <2>1. pc # "done" /\ call' = call
    BY <1>3, StepKeepsCall
  <2>2. call \in Calls /\ result = Failure("none")
    BY <2>1 DEF SessionInv, CallInv
  <2>3. CASE pc' # "done"
    <3>1. result' = Failure("none")
      BY <2>3 DEF SessionInv, CallInv
    <3> QED
      BY <2>1, <2>2, <2>3, <3>1 DEF Call!vars
  <2>4. CASE pc' = "done"
    <3>1. call' # NoCall
      BY <2>1, <2>2, InputsOf
    <3>2. Call!Answers(call', result')
      BY <2>4, <3>1 DEF SessionInv, AnswerInv
    <3>3. Call!Answers(call, result')
      BY <2>1, <3>2
    <3>4. Call!End
      BY <2>1, <2>4, <3>3 DEF Call!End
    <3> QED
      BY <3>4 DEF Call!Next
  <2> QED
    BY <2>3, <2>4
<1> QED
  BY <1>1, <1>2, <1>3 DEF Next

\* The runtime implements ContractCall: every call is answered at most once,
\* with a RuntimeError or with the verdict the call alone determines, whatever
\* the limits, the fuel, the guest's growth and the calls before it.
THEOREM SessionImplementsContractCall == Spec => ImplementsContractCall
<1>1. Init => Call!Init
  BY DEF Init, Call!Init, Call!NoCall, NoCall, Call!Failure, Failure
<1>2. SessionInv /\ SessionInv' /\ [Next]_vars => [Call!Next]_(Call!vars)
  BY SessionRefines
<1> QED
  BY <1>1, <1>2, SessionInvariant, PTL DEF Spec, ImplementsContractCall, Call!Spec

=============================================================================
