---------------------------- MODULE MCJitService ----------------------------
(* Instances of JitService for TLC.  The orders are model values; all of    *)
(* them ask for a channel to one merchant node.                             *)
EXTENDS JitService

CONSTANTS merchant1, o1, o2

MCTarget == [o \in Orders |-> merchant1]

=============================================================================
