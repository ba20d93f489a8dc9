------------------------------ MODULE MCMockHost ------------------------------
(***************************************************************************)
(* Data that is empty, at the SDK's read limit and above it.               *)
(***************************************************************************)
EXTENDS MockHost

MCData == {<< >>, <<1>>, <<1, 0>>, <<1, 1, 1>>}

=============================================================================
