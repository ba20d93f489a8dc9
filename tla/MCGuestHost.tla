----------------------------- MODULE MCGuestHost -----------------------------
(***************************************************************************)
(* GuestHost on one-bit bytes and integers of a few bits: small enough for *)
(* every pointer and length, negative and out of range ones included.      *)
(***************************************************************************)
EXTENDS GuestHost

\* A total cap the single cap divides unevenly, and a total below the single
\* cap; the second store is too small for the guest to instantiate.
MCLimits == {
  [max_single_alloc |-> 2, max_total_memory |-> 3,
   memory_size |-> 2, max_table_elements |-> 1],
  [max_single_alloc |-> 3, max_total_memory |-> 2,
   memory_size |-> 0, max_table_elements |-> 1]}

=============================================================================
