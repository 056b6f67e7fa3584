------------------------------ MODULE MCCreate ------------------------------
(* What a merchant asks of the LSP: a session, a JIT order, a channel.  The  *)
(* three parts share no state, so a behaviour is one of any of them: `part`  *)
(* says which, and the others stay where they start.                         *)
EXTENDS MerchantAuth, JitCreate, OpenChannel

CONSTANTS m1, m2, h1, r1, r2, c1, c2, s1, j1, j2, j3, ckb, udt

VARIABLE part

\* Two merchants, whose requests overlap two at a time.
Symmetry == Permutations({m1, m2}) \cup Permutations({r1, r2})

\* One checkout of the SDK and one request by hand, which may repeat its
\* hashes.
MCSecret == [c \in Checkouts |-> s1]

\* Three JIT orders of two assets for one merchant.
MCTwoAssets == [o \in Openers |-> IF o = j3 THEN udt ELSE ckb]

MCInit ==
    /\ part \in {"auth", "create", "open"}
    /\ AuthInit /\ CreateInit /\ Init

MCNext ==
    /\ UNCHANGED part
    /\ \/ part = "auth" /\ AuthNext /\ UNCHANGED <<createVars, vars>>
       \/ part = "create" /\ CreateNext /\ UNCHANGED <<authVars, vars>>
       \/ part = "open" /\ Next /\ UNCHANGED <<authVars, createVars>>

MCSpec == MCInit /\ [][MCNext]_<<part, authVars, createVars, vars>>

=============================================================================
