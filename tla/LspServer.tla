----------------------------- MODULE LspServer ------------------------------
(***************************************************************************)
(* The reference composition: examples/reference-lsp/server.mjs boots the  *)
(* services its environment asks for, resumes what a file store kept, and  *)
(* serves createApi and createMerchantApi (packages/lsp-server/src) behind *)
(* one HTTP handler.                                                       *)
(*                                                                         *)
(* Fiber nodes go up and down while it boots; the process dies and is      *)
(* started again in the same environment.                                  *)
(***************************************************************************)
EXTENDS Integers, FiniteSets

CONSTANTS
    Deployments,         \* [pubkey, vk, exposed, pay, files, merchant]: the environment
    Orders,              \* order ids
    MaxStarts, MaxFlaps  \* bounds on starts, and on nodes going up or down

VARIABLES
    deploy,                \* the environment
    holdUp, payUp,         \* the Fiber nodes answer; one node is both where pay = "same"
    srvAt,                 \* where main() is
    identity,              \* lspPubkey is known
    schemes,               \* linkage verifiers
    modes,                 \* JIT modes on offer
    kind,                  \* service of each order
    request,               \* the POST that creates each order: none, open, 201, 500, cut
    memory, disk,          \* orders of the process and of its files
    tmp,                   \* the temporary file holds an order that was not renamed
    driven,                \* JIT orders run() works on
    over,                  \* orders that ended
    starts, flaps, forgot  \* history in forgot: answered orders a memory store lost

boot == <<identity, schemes, modes>>
kept == <<memory, disk, tmp, driven, over>>
srvVars == <<deploy, holdUp, payUp, srvAt, boot, kind, request, kept, starts, flaps, forgot>>

Services == {"prepaid", "jit", "watch"}

ServerInit ==
    /\ deploy \in Deployments
    /\ holdUp \in BOOLEAN
    /\ payUp \in IF deploy.pay = "same" THEN {holdUp} ELSE BOOLEAN
    /\ srvAt = "down"
    /\ identity = FALSE /\ schemes = {} /\ modes = {}
    /\ kind \in [Orders -> Services]
    /\ request = [o \in Orders |-> "none"]
    /\ memory = {} /\ disk = {} /\ tmp = {} /\ driven = {} /\ over = {}
    /\ starts = 0 /\ flaps = 0 /\ forgot = {}

-----------------------------------------------------------------------------
(* Slips: mistakes one could make in the steps below, none of them in the   *)
(* code.                                                                    *)

\* Orders are read back, and nobody works on them.
ResumeNone(loaded) == {}

-----------------------------------------------------------------------------
(* main() *)

Exit == srvAt' = "down" /\ memory' = {} /\ driven' = {} /\ modes' = {}

Start ==
    /\ srvAt = "down" /\ starts < MaxStarts
    /\ starts' = starts + 1
    /\ srvAt' = "identifying"
    /\ identity' = deploy.pubkey /\ schemes' = {}
    /\ UNCHANGED <<deploy, holdUp, payUp, modes, kind, request, kept, flaps, forgot>>

\* Without an answer of the node the environment alone identifies the LSP.
Identify ==
    /\ srvAt = "identifying"
    /\ identity' = (identity \/ holdUp)
    /\ srvAt' = "verifiers"
    /\ UNCHANGED <<deploy, holdUp, payUp, schemes, modes, kind, request, kept,
                   starts, flaps, forgot>>

\* A key that cannot be read is left out; the exposed secret beside a key is
\* refused.
Verifiers ==
    /\ srvAt = "verifiers"
    /\ LET groth == deploy.vk = "good"
       IN IF groth /\ deploy.exposed
          THEN Exit /\ UNCHANGED <<schemes, disk, tmp, over>>
          ELSE /\ schemes' = {s \in {"groth16", "exposed-secret"} :
                                IF s = "groth16" THEN groth ELSE deploy.exposed}
               /\ srvAt' = "pay node"
               /\ UNCHANGED <<modes, kept>>
    /\ UNCHANGED <<deploy, holdUp, payUp, identity, kind, request, starts, flaps, forgot>>

\* The paying node must answer, and must not be known to be the hold node.
PayNode ==
    /\ srvAt = "pay node"
    /\ IF deploy.pay # "none" /\ (~payUp \/ (deploy.pay = "same" /\ identity))
       THEN Exit /\ UNCHANGED <<disk, tmp, over>>
       ELSE /\ modes' = {m \in {"linked", "same_hash"} :
                           IF m = "linked" THEN schemes # {} ELSE deploy.pay # "none"}
            /\ srvAt' = "resuming"
            /\ UNCHANGED kept
    /\ UNCHANGED <<deploy, holdUp, payUp, identity, schemes, kind, request, starts,
                   flaps, forgot>>

\* resume(): the file stores are read, and each JIT order not over is run.
Resumed(loaded) == {o \in loaded : kind[o] = "jit"} \ over
Resume ==
    /\ srvAt = "resuming"
    /\ memory' = IF deploy.files THEN disk ELSE {}
    /\ driven' = IF modes # {} THEN Resumed(memory') ELSE {}
    /\ srvAt' = "listening"
    /\ UNCHANGED <<deploy, holdUp, payUp, boot, kind, request, disk, tmp, over,
                   starts, flaps, forgot>>

-----------------------------------------------------------------------------
(* Requests *)

\* The routes: a service that is not mounted has none.
Mounted(o) == CASE kind[o] = "jit" -> modes # {}
                [] kind[o] = "watch" -> deploy.merchant
                [] OTHER -> TRUE

\* POST: the service's own checks and calls of the node come first.
PostOrder(o) ==
    /\ srvAt = "listening" /\ request[o] = "none"
    /\ request' = [request EXCEPT ![o] = IF Mounted(o) THEN "open" ELSE "404"]
    /\ UNCHANGED <<deploy, holdUp, payUp, srvAt, boot, kind, kept, starts, flaps, forgot>>

\* put() of a file store: the whole of it to the temporary file ...
Flushed(o) == memory \cup {o}
Write(o) ==
    /\ srvAt = "listening" /\ request[o] = "open" /\ o \notin memory
    /\ memory' = memory \cup {o}
    /\ tmp' = IF deploy.files THEN Flushed(o) ELSE {}
    /\ request' = [request EXCEPT ![o] = "writing"]
    /\ UNCHANGED <<deploy, holdUp, payUp, srvAt, boot, kind, disk, driven, over,
                   starts, flaps, forgot>>

\* ... which then replaces the file; a created JIT order is run at once.
Stored(o) ==
    /\ srvAt = "listening" /\ request[o] = "writing"
    /\ disk' = IF deploy.files THEN disk \cup tmp ELSE disk
    /\ tmp' = {}
    /\ driven' = IF kind[o] = "jit" THEN driven \cup {o} ELSE driven
    /\ request' = [request EXCEPT ![o] = "201"]
    /\ UNCHANGED <<deploy, holdUp, payUp, srvAt, boot, kind, memory, over, starts,
                   flaps, forgot>>

\* A check refuses, or the node does not answer.
Refused400(o) ==
    /\ srvAt = "listening" /\ request[o] = "open"
    /\ request' = [request EXCEPT ![o] = IF holdUp THEN "400" ELSE "500"]
    /\ UNCHANGED <<deploy, holdUp, payUp, srvAt, boot, kind, kept, starts, flaps, forgot>>

\* The service ends an order, which is another write of its store.
EndOrder(o) ==
    /\ srvAt = "listening" /\ request[o] = "201" /\ o \in memory \ over
    /\ kind[o] = "jit" => o \in driven
    /\ over' = over \cup {o} /\ driven' = driven \ {o}
    /\ UNCHANGED <<deploy, holdUp, payUp, srvAt, boot, kind, request, memory, disk,
                   tmp, starts, flaps, forgot>>

\* What GET answers for an order.
Get(o) == IF Mounted(o) /\ o \in memory THEN "200" ELSE "404"

-----------------------------------------------------------------------------
(* Crashes, and the nodes *)

\* The answered orders a memory store loses are not the file's to keep.
ServerCrash ==
    /\ srvAt # "down"
    /\ Exit /\ tmp' = {}
    /\ request' = [o \in Orders |-> IF request[o] \in {"open", "writing"} THEN "cut"
                                    ELSE request[o]]
    /\ forgot' = IF deploy.files THEN forgot ELSE forgot \cup memory
    /\ UNCHANGED <<deploy, holdUp, payUp, identity, schemes, kind, disk, over, starts,
                   flaps>>

Flap ==
    /\ flaps < MaxFlaps /\ flaps' = flaps + 1
    /\ \/ holdUp' = ~holdUp /\ payUp' = IF deploy.pay = "same" THEN ~payUp ELSE payUp
       \/ deploy.pay = "other" /\ payUp' = ~payUp /\ UNCHANGED holdUp
    /\ UNCHANGED <<deploy, srvAt, boot, kind, request, kept, starts, forgot>>

ServerNext ==
    \/ Start \/ Identify \/ Verifiers \/ PayNode \/ Resume \/ ServerCrash \/ Flap
    \/ \E o \in Orders : PostOrder(o) \/ Write(o) \/ Stored(o) \/ Refused400(o) \/ EndOrder(o)

ServerSpec == ServerInit /\ [][ServerNext]_srvVars

-----------------------------------------------------------------------------
(* Properties *)

\* An order a client was given is found again whenever the server listens, and
\* a JIT order that is not over is being worked on, across any number of
\* crashes at any point of a write, unless its store was memory (file stores,
\* resume() before listen()).
AnsweredIsKept ==
    srvAt = "listening" =>
        \A o \in Orders : request[o] = "201" /\ o \notin forgot =>
            /\ Get(o) = "200"
            /\ kind[o] = "jit" => o \in driven \cup over

=============================================================================
