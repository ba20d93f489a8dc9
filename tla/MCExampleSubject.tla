-------------------------- MODULE MCExampleSubject --------------------------
EXTENDS ExampleSubject

MCGenesis == [one |-> 50, two |-> 0, three |-> 0]

=============================================================================
