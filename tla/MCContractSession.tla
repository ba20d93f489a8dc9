-------------------------- MODULE MCContractSession --------------------------
(***************************************************************************)
(* A runtime on a large, a middle and a small node, with contracts and     *)
(* modules that reach every answer.                                        *)
(***************************************************************************)
EXTENDS ContractSession

MCZero == <<"zero", 0, 0>>

\* The longest documents fill the large node's single allocation cap; the
\* shortest fill the small node's.
MCSize ==
  [null |-> 4, one |-> 2, one_long |-> 14, two |-> 2, nested |-> 3, bad |-> 2,
   set_two |-> 2, set_one_long |-> 14, admin |-> 2, break |-> 2, nest |-> 2, nan |-> 2]

MCDoc == DOMAIN MCSize
MCState == {"s1", "s2", "s_nested", "s_nan"}
MCEvent == {"set_two", "set_one", "admin", "break", "nest", "nan"}

\* one and one_long are two spellings of the same state.
MCParseState ==
  [d \in MCDoc |-> CASE d \in {"one", "one_long"} -> "s1"
                     [] d = "two" -> "s2"
                     [] OTHER -> Fails]

MCParseEvent ==
  [d \in MCDoc |-> CASE d = "set_one_long" -> "set_one"
                     [] d \in MCEvent -> d
                     [] OTHER -> Fails]

\* Not every state can be written, and not every document written can be read.
MCToVec ==
  [s1 |-> "one_long", s2 |-> "two", s_nested |-> "nested", s_nan |-> Fails]

MCValueDoc == MCDoc \ {"nested"}

Always(state) == [s \in MCState |-> state]

MCLogic ==
  [set_two |-> << <<"set", Always("s2")>>, <<"accept", "">> >>,
   set_one |-> << <<"set", Always("s1")>>, <<"accept", "">>, <<"reject", "no">> >>,
   admin   |-> << <<"require_owner", "">>, <<"set", Always("s1")>>, <<"accept", "">> >>,
   break   |-> << <<"panic", "">> >>,
   nest    |-> << <<"set", Always("s_nested")>>, <<"accept", "">> >>,
   nan     |-> << <<"set", Always("s_nan")>>, <<"accept", "">> >>]

\* The initial state s2 is refused.
MCInitLogic ==
  [s \in MCState |-> IF s = "s2" THEN << <<"reject", "no">> >> ELSE << <<"accept", "">> >>]

Import(module, name, kind) ==
  [module |-> module, name |-> name, kind |-> kind,
   params |-> expected_sdk_signature(name).params,
   results |-> expected_sdk_signature(name).results]

Sdk == [i \in 1..4 |->
          Import("env", <<"pointer_len", "alloc", "read_bytes", "write_bytes">>[i], "func")]

Good ==
  [imports |-> Sdk, min_memory |-> 1, table |-> 1, start |-> FALSE, main |-> TRUE,
   init_check |-> TRUE, exported |-> TRUE, logic |-> MCLogic, init_logic |-> MCInitLogic]

BadImports == {
  [Good EXCEPT !.imports = Tail(Sdk)],
  [Good EXCEPT !.imports = Append(Sdk, Sdk[1])],
  [Good EXCEPT !.imports = Append(Sdk, Import("env", "clock", "func"))],
  [Good EXCEPT !.imports = Append(Sdk, Import("wasi", "alloc", "func"))],
  [Good EXCEPT !.imports = Append(Sdk, Import("env", "memory", "memory"))],
  [Good EXCEPT !.imports[1].params = <<"i64">>],
  [Good EXCEPT !.imports[3].results = <<"i32">>]}

Starting == [Good EXCEPT !.start = TRUE]

OtherModules == {
  [Good EXCEPT !.min_memory = 3],
  [Good EXCEPT !.table = 3],
  Starting,
  [Good EXCEPT !.main = FALSE],
  [Good EXCEPT !.init_check = FALSE],
  [Good EXCEPT !.exported = FALSE],
  [Good EXCEPT !.init_logic = [s \in MCState |-> << <<"panic", "">> >>]]}

Execute(module, state, init_state, event, is_owner) ==
  [op |-> "execute", module |-> module, state |-> state, init_state |-> init_state,
   event |-> event, is_owner |-> is_owner]

Validate(module, init_state) == [op |-> "validate", module |-> module, init_state |-> init_state]

MCCalls ==
  {Execute(Good, state, init_state, event, FALSE) :
     state \in {"one", "one_long", "null"}, init_state \in {"one_long", "two", "bad"},
     event \in {"set_two", "set_one_long", "bad"}}
    \cup {Execute(Good, "two", "one", event, is_owner) :
            event \in {"admin", "break", "nest", "nan"}, is_owner \in BOOLEAN}
    \cup {Execute(module, "two", "one", "set_two", TRUE) : module \in BadImports \cup OtherModules}
    \cup {Validate(Good, init_state) : init_state \in {"one", "one_long", "two", "bad"}}
    \cup {Validate(module, "one") : module \in BadImports \cup OtherModules}

\* memory_size and max_table_elements in units of one module's needs.
MCLimits == {
  [max_single_alloc |-> 18, max_total_memory |-> 54, memory_size |-> 2, max_table_elements |-> 2],
  [max_single_alloc |-> 12, max_total_memory |-> 36, memory_size |-> 2, max_table_elements |-> 2],
  [max_single_alloc |-> 7, max_total_memory |-> 21, memory_size |-> 1, max_table_elements |-> 1]}

\* The contracts' own message is "no".
MCFragments == SdkFragments \cup {"no"}

MCByte == Cells(MCFragments, 7)

=============================================================================
