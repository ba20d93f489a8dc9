------------------------------- MODULE MCFleet -------------------------------
(***************************************************************************)
(* Two nodes, on machines below, at and above the points where limits      *)
(* change, where memory saturates u64, and without a spec, with CPUs of    *)
(* two architectures, one of them with and without a feature.  The unit of *)
(* memory is the MiB and a page is one.                                    *)
(***************************************************************************)
EXTENDS Fleet, TLC

Machine(ram_mb, cpu_cores) == [ram_mb |-> ram_mb, cpu_cores |-> cpu_cores]

Cpu(arch, features) == [arch |-> arch, features |-> features]
Plain86 == Cpu("x86_64", {})
Avx86 == Cpu("x86_64", {"avx"})
Arm == Cpu("aarch64", {})

\* Two steps of 512 MiB less one, eight, and more than a product in u64 holds.
\* The machines with the fewest and the most cores share a CPU.
MCHosts ==
  {[spec |-> NoSpec, cpu |-> Arm],
   [spec |-> Machine(0, 1), cpu |-> Plain86],
   [spec |-> Machine(1023, 16), cpu |-> Plain86],
   [spec |-> Machine(4096, 2), cpu |-> Avx86],
   [spec |-> Machine(512 * 11, 4), cpu |-> Avx86]}

\* Nodes are alike.
MCSymmetry == Permutations(Node)

MCHeader == <<0>>

\* A binary with one memory of n pages.
Binary(n) == MCHeader \o <<5, 4, 1, 1, 0, (n % 4) + 4, n \div 4>>

Contract(pages, table, valid_for) ==
  [wasm |-> Binary(pages), valid_for |-> valid_for, memory |-> pages, table |-> table]

AllEngines == Versions \X {"x86_64", "aarch64"}

Op(kind, n) == [kind |-> kind, n |-> n]

Call(inputs, guest) == [inputs |-> inputs, guest |-> guest, verdict |-> "accepted"]

Short == Call(<<1, 1, 1>>, << >>)

Question(c, call) == [contract |-> c, call |-> call]

\* At and above the floor, a binary for no engine or only for the new one on one
\* architecture, and a table only some nodes have.
MCQuestions ==
  {Question(Contract(4, 1, AllEngines), Call(<<2, 1, 1>>, << >>)),
   Question(Contract(5, 1, AllEngines), Short),
   Question(Contract(5, 1, {<<2, "x86_64">>}), Short),
   Question(Contract(1, 1, {}), Short),
   Question(Contract(1, 600, AllEngines), Short),
   Question(Contract(1, 1, {<<2, "x86_64">>}),
            Call(<<1, 1, 1>>, <<Op("grow_memory", 6), Op("burn", 3)>>)),
   Question(Contract(1, 1, AllEngines), Call(<<8, 8, 8>>, <<Op("alloc", 1)>>)),
   Question(Contract(1, 1, AllEngines),
            Call(<<1, 1>>, <<Op("burn", 1), Op("grow_table", 1024), Op("alloc", 1)>>))}

=============================================================================
