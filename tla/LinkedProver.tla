---------------------------- MODULE LinkedProver ----------------------------
(***************************************************************************)
(* The merchant's linkage proofs: makeLinkedProver of packages/prover-     *)
(* linked/src/index.ts with the command it runs (tools/linkage-prover),    *)
(* and the LSP's check of them (packages/protocol/src/linkageDualSha256.ts,*)
(* packages/lsp-server/src/linkageConfig.ts).                              *)
(*                                                                         *)
(* Calls of one process share the promise of the converted key, and all    *)
(* processes share its file.  A file is a name for an inode, so a command  *)
(* that opened the partial file goes on writing after it was renamed.      *)
(***************************************************************************)
EXTENDS Integers, FiniteSets

CONSTANTS
    ProofCalls, Proc,    \* proveLinkage calls, and the process of each
    Backend,        \* Backend[c]: "native" or "wasm"
    Wanted,         \* Wanted[c] = [secret, hold, merchant]: the call's arguments
    WantCache,
    MaxFaults, MaxProverCrashes   \* bounds: commands that fail or time out, crashes

Procs == {Proc[c] : c \in ProofCalls}
NoToken == <<>>
Tokens == ProofCalls \X {1, 2}     \* a conversion: who started it, on which try
Of(t) == Proc[t[1]]

VARIABLES
    prvAt, tries,       \* where a call is; 2 once it discarded the cache
    awaits, uses,       \* the conversion it awaits; "ark" or "zkey"
    promise,            \* keyPromise of each process
    conv, path,         \* each conversion's command, and what it resolved to
    partial, holds,     \* partial file of a process; inode a command writes
    content, opener,    \* of an inode; who truncated it last
    ark,                \* inode under the cached name
    proof,              \* what a call returned
    checks,             \* schemes the LSP checks
    spent, crashed,     \* faults and crashes so far
    faulted, discarded  \* history: calls whose command failed; that removed ark

flow == <<prvAt, tries, awaits, uses, proof>>
files == <<partial, holds, content, opener>>
prvVars == <<flow, promise, conv, path, files, ark, checks, spent, crashed,
             faulted, discarded>>

\* An ark left by an incompatible build, or one with damaged points.
Old == {"format", "rotten"}
Absent == "absent"

\* selectLinkageVerifiers: a server with both does not start, with neither it
\* has no linked orders.
Selected == {{"groth16"}, {"exposed-secret"}, {}}

ProverInit ==
    /\ prvAt = [c \in ProofCalls |-> "idle"] /\ tries = [c \in ProofCalls |-> 1]
    /\ awaits = [c \in ProofCalls |-> NoToken] /\ uses = [c \in ProofCalls |-> "zkey"]
    /\ promise = [p \in Procs |-> NoToken]
    /\ conv = [t \in Tokens |-> "none"] /\ path = [t \in Tokens |-> "none"]
    /\ partial = [p \in Procs |-> NoToken] /\ holds = [t \in Tokens |-> t]
    /\ content = [t \in Tokens |-> "half"] /\ opener = [t \in Tokens |-> t]
    /\ ark \in {<<a>> : a \in Old} \cup {<<Absent>>}
    /\ proof = [c \in ProofCalls |-> [scheme |-> "none"]]
    /\ checks \in Selected
    /\ spent = 0 /\ crashed = 0
    /\ faulted = {} /\ discarded = {}

-----------------------------------------------------------------------------
(* Slips: mistakes one could make in the steps below, none of them in the   *)
(* code.                                                                    *)

\* The retry finds the promise of the key that was just removed.
ForgetNot(c) == promise[Proc[c]]

-----------------------------------------------------------------------------

\* dualSha256: one secret, two hashes; bindAndWrap holds the proof to both.
Hold(secret) == <<"hold", secret>>
Merchant(secret) == <<"merchant", secret>>
Signals(secret) == <<Hold(secret), Merchant(secret)>>
Bound(c) == Signals(Wanted[c].secret) = <<Wanted[c].hold, Wanted[c].merchant>>

\* compositeLinkageVerifier, by scheme.
Verified(c) ==
    /\ proof[c].scheme \in checks
    /\ proof[c].scheme = "groth16" =>
         /\ proof[c].sound
         /\ proof[c].signals = <<Wanted[c].hold, Wanted[c].merchant>>

Go(c, to) == prvAt' = [prvAt EXCEPT ![c] = to]

\* The witness is made in process; the wasm prover reads the .zkey itself.
BeginProof(c) ==
    /\ prvAt[c] = "idle"
    /\ Go(c, IF Backend[c] = "native" THEN "asking" ELSE "proving")
    /\ UNCHANGED <<tries, awaits, uses, proof, promise, conv, path, files, ark,
                   checks, spent, crashed, faulted, discarded>>

\* Forget == keyPromise = undefined, before the key is asked for again.
Forget(c) == IF tries[c] = 2 THEN NoToken ELSE promise[Proc[c]]

\* provingKey: keyPromise ??= ensureConvertedKey(...).
ProvingKey(c) ==
    /\ prvAt[c] \in {"asking", "asking again"}
    /\ IF ~WantCache
       THEN /\ Go(c, "proving") /\ uses' = [uses EXCEPT ![c] = "zkey"]
            /\ UNCHANGED <<promise, conv, awaits>>
       ELSE LET noted == Forget(c)
                t == IF noted = NoToken THEN <<c, tries[c]>> ELSE noted
            IN /\ promise' = [promise EXCEPT ![Proc[c]] = t]
               /\ conv' = IF noted = NoToken THEN [conv EXCEPT ![t] = "stat"] ELSE conv
               /\ awaits' = [awaits EXCEPT ![c] = t]
               /\ Go(c, "awaiting") /\ UNCHANGED uses
    /\ UNCHANGED <<tries, proof, path, files, ark, checks, spent, crashed,
                   faulted, discarded>>

HasKey(c) ==
    /\ prvAt[c] = "awaiting" /\ path[awaits[c]] # "none"
    /\ uses' = [uses EXCEPT ![c] = path[awaits[c]]]
    /\ Go(c, "proving")
    /\ UNCHANGED <<tries, awaits, proof, promise, conv, path, files, ark, checks,
                   spent, crashed, faulted, discarded>>

-----------------------------------------------------------------------------
(* ensureConvertedKey *)

Resolve(t, to) == path' = [path EXCEPT ![t] = to] /\ conv' = [conv EXCEPT ![t] = "done"]

\* stat; without the file the command opens the partial one and truncates it.
Stat(t) ==
    /\ conv[t] = "stat"
    /\ IF ark # <<Absent>>
       THEN Resolve(t, "ark") /\ UNCHANGED files
       ELSE LET inode == IF partial[Of(t)] = NoToken THEN t ELSE partial[Of(t)]
            IN /\ conv' = [conv EXCEPT ![t] = "writing"]
               /\ partial' = [partial EXCEPT ![Of(t)] = inode]
               /\ holds' = [holds EXCEPT ![t] = inode]
               /\ content' = [content EXCEPT ![inode] = "half"]
               /\ opener' = [opener EXCEPT ![inode] = t]
               /\ UNCHANGED path
    /\ UNCHANGED <<flow, promise, ark, checks, spent, crashed, faulted, discarded>>

\* The command is done: its file is whole unless another truncated it since.
Converted(t) ==
    /\ conv[t] \in {"writing", "orphan"}
    /\ content' = IF opener[holds[t]] = t THEN [content EXCEPT ![holds[t]] = "good"]
                  ELSE content
    /\ conv' = [conv EXCEPT ![t] = IF @ = "writing" THEN "rename" ELSE "done"]
    /\ UNCHANGED <<flow, promise, path, partial, holds, opener, ark, checks, spent,
                   crashed, faulted, discarded>>

\* Without a converted key the .zkey serves, and the next call tries again.
FallbackPath(t) == "zkey"
GivesUp(t) ==
    /\ Resolve(t, FallbackPath(t))
    /\ promise' = [promise EXCEPT ![Of(t)] = NoToken]

\* The command fails, or is killed at its timeout.
ConvertFails(t) ==
    /\ conv[t] = "writing" /\ spent < MaxFaults
    /\ spent' = spent + 1
    /\ GivesUp(t)
    /\ UNCHANGED <<flow, files, ark, checks, crashed, faulted, discarded>>

\* rename: there is nothing to rename when another conversion took the file.
Rename(t) ==
    /\ conv[t] = "rename"
    /\ IF partial[Of(t)] = NoToken
       THEN GivesUp(t) /\ UNCHANGED <<partial, ark>>
       ELSE /\ ark' = partial[Of(t)]
            /\ partial' = [partial EXCEPT ![Of(t)] = NoToken]
            /\ Resolve(t, "ark") /\ UNCHANGED promise
    /\ UNCHANGED <<flow, holds, content, opener, checks, spent, crashed, faulted,
                   discarded>>

-----------------------------------------------------------------------------
(* run *)

\* load_key_from_bytes: what a key file does to the command.
Whole == {t \in Tokens : content[t] = "good"}
Loads(c) == uses[c] = "zkey" \/ ark \in Whole \cup {<<"rotten">>}
Sound(c) == uses[c] = "zkey" \/ ark # <<"rotten">>

Proves(c) ==
    /\ prvAt[c] = "proving" /\ Loads(c)
    /\ IF Bound(c)
       THEN /\ proof' = [proof EXCEPT ![c] =
                 [scheme |-> "groth16", signals |-> Signals(Wanted[c].secret),
                  sound |-> Sound(c)]]
            /\ Go(c, "done")
       ELSE Go(c, "mismatch") /\ UNCHANGED proof
    /\ UNCHANGED <<tries, awaits, uses, promise, conv, path, files, ark, checks,
                   spent, crashed, faulted, discarded>>

\* A failure on the .zkey, or of the second try, is the caller's.
RunFails(c) ==
    /\ prvAt[c] = "proving"
    /\ \/ ~Loads(c) /\ UNCHANGED <<spent, faulted>>
       \/ spent < MaxFaults /\ spent' = spent + 1 /\ faulted' = faulted \cup {c}
    /\ Go(c, IF uses[c] = "zkey" \/ tries[c] = 2 THEN "failed" ELSE "discarding")
    /\ UNCHANGED <<tries, awaits, uses, proof, promise, conv, path, files, ark,
                   checks, crashed, discarded>>

\* The cached key is suspected: rm, whoever wrote it meanwhile.
Discard(c) ==
    /\ prvAt[c] = "discarding"
    /\ ark' = <<Absent>>
    /\ tries' = [tries EXCEPT ![c] = 2]
    /\ discarded' = discarded \cup {c}
    /\ Go(c, "asking again")
    /\ UNCHANGED <<awaits, uses, proof, promise, conv, path, files, checks, spent,
                   crashed, faulted>>

\* The LSP decides on an order by its proof.
AdmitKey(c) ==
    /\ prvAt[c] = "done"
    /\ Go(c, IF Verified(c) THEN "admitted" ELSE "refused")
    /\ UNCHANGED <<tries, awaits, uses, proof, promise, conv, path, files, ark,
                   checks, spent, crashed, faulted, discarded>>

\* A process dies; its commands may run on.  The next one has another pid, and
\* so another partial file.
ProverCrash(p) ==
    /\ crashed < MaxProverCrashes
    /\ crashed' = crashed + 1
    /\ prvAt' = [c \in ProofCalls |->
                    IF Proc[c] = p /\ prvAt[c] # "idle" THEN "gone" ELSE prvAt[c]]
    /\ promise' = [promise EXCEPT ![p] = NoToken]
    /\ partial' = [partial EXCEPT ![p] = NoToken]
    /\ conv' = [t \in Tokens |-> IF Of(t) # p \/ conv[t] = "none" THEN conv[t]
                                 ELSE IF conv[t] = "writing" THEN "orphan" ELSE "done"]
    /\ UNCHANGED <<tries, awaits, uses, proof, path, holds, content, opener, ark,
                   checks, spent, faulted, discarded>>

ProverNext ==
    \/ \E c \in ProofCalls : \/ BeginProof(c) \/ ProvingKey(c) \/ HasKey(c)
                        \/ Proves(c) \/ RunFails(c) \/ Discard(c) \/ AdmitKey(c)
    \/ \E t \in Tokens : Stat(t) \/ Converted(t) \/ ConvertFails(t) \/ Rename(t)
    \/ \E p \in Procs : ProverCrash(p)

ProverSpec == ProverInit /\ [][ProverNext]_prvVars

-----------------------------------------------------------------------------
(* Properties *)

\* A call fails only when its own command failed, its arguments do not belong
\* together, or two calls discarded the key, each perhaps the other's new one;
\* and as long as at most one call has, what stands under the name of the key
\* is never one that was written in part, whichever command was killed and
\* whichever process died (ensureConvertedKey's rename).
FailsWithProver ==
    /\ Cardinality(discarded) <= 1 => ark \notin Tokens \ Whole
    /\ \A c \in ProofCalls : prvAt[c] = "failed" =>
        c \in faulted \/ Cardinality(discarded) > 1

\* A corrupt cache is rebuilt "rather than failing an order the merchant could
\* otherwise have served" (index.ts:192-193), also where two calls find it.
ServedAnyway == \A c \in ProofCalls : prvAt[c] = "failed" => c \in faulted

=============================================================================
