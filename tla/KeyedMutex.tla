----------------------------- MODULE KeyedMutex -----------------------------
(***************************************************************************)
(* What a lock by key promises: calls with one key run one at a time, in   *)
(* the order in which they were made; calls with different keys do not     *)
(* wait for each other.                                                    *)
(***************************************************************************)
CONSTANTS
    Calls,  \* the calls of run(key, fn)
    Key     \* Key[c] is the key of call c

VARIABLES
    phase,   \* unmade, waiting, running, or over: resolved or rejected
    earlier  \* the calls of the same key made before

vars == <<phase, earlier>>

Over(c) == phase[c] \in {"resolved", "rejected"}
SameKey(c) == {d \in Calls : Key[d] = Key[c]}

Init ==
    /\ phase = [c \in Calls |-> "unmade"]
    /\ earlier = [c \in Calls |-> {}]

Make(c) ==
    /\ phase[c] = "unmade"
    /\ phase' = [phase EXCEPT ![c] = "waiting"]
    /\ earlier' = [earlier EXCEPT ![c] =
                      {d \in SameKey(c) : phase[d] # "unmade"}]

Start(c) ==
    /\ phase[c] = "waiting"
    /\ \A d \in earlier[c] : Over(d)
    /\ phase' = [phase EXCEPT ![c] = "running"]
    /\ UNCHANGED earlier

End(c) ==
    /\ phase[c] = "running"
    /\ \E p \in {"resolved", "rejected"} : phase' = [phase EXCEPT ![c] = p]
    /\ UNCHANGED earlier

Next == \E c \in Calls : Make(c) \/ Start(c) \/ End(c)

Spec == Init /\ [][Next]_vars

=============================================================================
