------------------------------ MODULE MCPrepaid ------------------------------
(* A prepaid order and a from-capacity order, and the calls on them.        *)
EXTENDS Prepaid

CONSTANTS p1, f1, s1, s2

=============================================================================
