----------------------------- MODULE ObjectStore -----------------------------
(***************************************************************************)
(* What the host memory manager promises its users, with no addresses,     *)
(* bounds checks or backing vector: a store of separate byte strings, each *)
(* named by a pointer.  A string keeps its pointer and its length for the  *)
(* life of the store, writing to one never changes another, and the host   *)
(* takes back a whole string.                                              *)
(***************************************************************************)
EXTENDS Integers, Sequences

CONSTANTS
  Byte,      \* the values of one byte
  Pointer    \* the names objects can have

VARIABLES
  objects,   \* pointer -> its bytes
  fetched    \* the bytes the host took back last, << >> when there are none

vars == <<objects, fetched>>

Init ==
  /\ objects = [p \in {} |-> << >>]
  /\ fetched = << >>

\* A new, non-empty object under a fresh pointer.
Create(p) ==
  /\ p \notin DOMAIN objects
  /\ DOMAIN objects' = DOMAIN objects \cup {p}
  /\ \A q \in DOMAIN objects : objects'[q] = objects[q]
  /\ objects'[p] \in Seq(Byte)
  /\ objects'[p] # << >>
  /\ UNCHANGED fetched

\* One object is overwritten in place, in part or in full.
Update(p) ==
  /\ DOMAIN objects' = DOMAIN objects
  /\ \A q \in DOMAIN objects \ {p} : objects'[q] = objects[q]
  /\ objects'[p] \in Seq(Byte)
  /\ Len(objects'[p]) = Len(objects[p])
  /\ UNCHANGED fetched

Fetch(p) ==
  /\ fetched' = objects[p]
  /\ UNCHANGED objects

\* The store of the next call starts empty.
Clear ==
  /\ objects' = [p \in {} |-> << >>]
  /\ fetched' = << >>

Next ==
  \/ \E p \in Pointer : Create(p)
  \/ \E p \in DOMAIN objects : Update(p) \/ Fetch(p)
  \/ Clear

Spec == Init /\ [][Next]_vars

=============================================================================
