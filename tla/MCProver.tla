------------------------------ MODULE MCProver ------------------------------
(* Two proofs of one process, over a conversion cache that may be corrupt.  *)
EXTENDS LinkedProver

MCProc == [p1 |-> "A", p2 |-> "A"]
MCBackend == [p1 |-> "native", p2 |-> "native"]
MCWanted ==
    [c \in ProofCalls |->
        [secret |-> "s", hold |-> <<"hold", "s">>, merchant |-> <<"merchant", "s">>]]

=============================================================================
