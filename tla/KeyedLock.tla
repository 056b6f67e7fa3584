------------------------------ MODULE KeyedLock ------------------------------
(***************************************************************************)
(* The promise-chain lock of packages/lsp-server/src/keyedLock.ts, which   *)
(* serializes the channel opens to one merchant (openLock) and the         *)
(* creation of orders for one merchant invoice (createLock) of JitService. *)
(*                                                                         *)
(* tails maps a key to the promise of the call made last.  A call chains   *)
(* its fn after that promise and becomes the tail itself; a call that is   *)
(* over removes the entry if it is still the tail.  The promise of a call  *)
(* is named by the call, and its reactions (the start of the next call,    *)
(* the removal) run in later turns of the event loop, in any order.        *)
(***************************************************************************)
CONSTANTS
    Runs,   \* the calls of run(key, fn)
    Keys,   \* the keys in use
    Key,    \* Key[c] is the key of call c
    NoCall  \* no promise: a missing entry of tails

ASSUME KeyAssumption == Key \in [Runs -> Keys]
ASSUME NoCallAssumption == NoCall \notin Runs

VARIABLES
    tails,   \* the map of the lock
    prev,    \* the promise each call was chained after
    phase,   \* unmade, waiting, running, or over: resolved or rejected
    swept,   \* the calls whose removal has run
    earlier  \* history: the calls of the same key made before

lockVars == <<tails, prev, phase, swept, earlier>>

Phases == {"unmade", "waiting", "running", "resolved", "rejected"}

Made(c) == phase[c] # "unmade"
Over(c) == phase[c] \in {"resolved", "rejected"}
SameKey(c) == {d \in Runs : Key[d] = Key[c]}

LockInit ==
    /\ tails = [k \in Keys |-> NoCall]
    /\ prev = [c \in Runs |-> NoCall]
    /\ phase = [c \in Runs |-> "unmade"]
    /\ swept = {}
    /\ earlier = [c \in Runs |-> {}]

-----------------------------------------------------------------------------
(* Slips: mistakes one could make in the steps below, none of them in the   *)
(* code.                                                                    *)

\* A call does not become the tail.
RunUnchained(c) ==
    /\ phase[c] = "unmade"
    /\ phase' = [phase EXCEPT ![c] = "waiting"]
    /\ prev' = [prev EXCEPT ![c] = tails[Key[c]]]
    /\ tails' = [tails EXCEPT ![Key[c]] = IF @ = NoCall THEN c ELSE @]
    /\ earlier' = [earlier EXCEPT ![c] = {d \in SameKey(c) : Made(d)}]
    /\ UNCHANGED swept

\* A rejected predecessor is not waited out.
StartAfterSuccess(c) ==
    /\ phase[c] = "waiting"
    /\ prev[c] # NoCall => phase[prev[c]] = "resolved"
    /\ phase' = [phase EXCEPT ![c] = "running"]
    /\ UNCHANGED <<tails, prev, swept, earlier>>

\* The entry of the key is never removed.
SweepNever(c) ==
    /\ Over(c)
    /\ c \notin swept
    /\ swept' = swept \cup {c}
    /\ UNCHANGED <<tails, prev, phase, earlier>>

-----------------------------------------------------------------------------

\* run(key, fn): chain after the tail of the key, and become the tail.
Run(c) ==
    /\ phase[c] = "unmade"
    /\ phase' = [phase EXCEPT ![c] = "waiting"]
    /\ prev' = [prev EXCEPT ![c] = tails[Key[c]]]
    /\ tails' = [tails EXCEPT ![Key[c]] = c]
    /\ earlier' = [earlier EXCEPT ![c] = {d \in SameKey(c) : Made(d)}]
    /\ UNCHANGED swept

\* prev.then(fn, fn): fn is called once the promise before it is settled.
Start(c) ==
    /\ phase[c] = "waiting"
    /\ prev[c] # NoCall => Over(prev[c])
    /\ phase' = [phase EXCEPT ![c] = "running"]
    /\ UNCHANGED <<tails, prev, swept, earlier>>

\* The promise of fn resolves or rejects; the tail swallows which.
End(c) ==
    /\ phase[c] = "running"
    /\ \E p \in {"resolved", "rejected"} : phase' = [phase EXCEPT ![c] = p]
    /\ UNCHANGED <<tails, prev, swept, earlier>>

\* The removal: only while the call is still the last in line.
Sweep(c) ==
    /\ Over(c)
    /\ c \notin swept
    /\ tails' = [tails EXCEPT ![Key[c]] = IF @ = c THEN NoCall ELSE @]
    /\ swept' = swept \cup {c}
    /\ UNCHANGED <<prev, phase, earlier>>

LockNext == \E c \in Runs : Run(c) \/ Start(c) \/ End(c) \/ Sweep(c)

\* Promise reactions run, and every fn given to the lock settles: it awaits
\* RPCs that are answered or time out, in loops that are bounded.
LockFairness ==
    \A c \in Runs : WF_lockVars(Start(c)) /\ WF_lockVars(End(c)) /\ WF_lockVars(Sweep(c))

LockSpec == LockInit /\ [][LockNext]_lockVars
-----------------------------------------------------------------------------
(* Properties *)

LockTypeOK ==
    /\ tails \in [Keys -> Runs \cup {NoCall}]
    /\ prev \in [Runs -> Runs \cup {NoCall}]
    /\ phase \in [Runs -> Phases]
    /\ swept \subseteq Runs
    /\ earlier \in [Runs -> SUBSET Runs]

\* Two calls with one key never run at the same time ("runs fn exclusively
\* among calls sharing the same key").
MutualExclusion ==
    \A c, d \in Runs :
        phase[c] = "running" /\ phase[d] = "running" /\ Key[c] = Key[d] => c = d

\* When nothing of a key is left to do, the map holds nothing for it (the
\* cleanup "so the map doesn't grow").
NothingKept ==
    \A k \in Keys :
        (\A c \in Runs : Key[c] = k /\ Made(c) => c \in swept)
        => tails[k] = NoCall

\* Every call runs to its end, whether those before it resolved or rejected
\* ("so the chain never wedges").
EveryCallEnds == \A c \in Runs : Made(c) ~> Over(c)

\* The promise chain is a lock by key that keeps the order of the calls.
Mutex == INSTANCE KeyedMutex WITH Calls <- Runs

MutexKept == Mutex!Spec

=============================================================================
