------------------------------- MODULE Prepaid -------------------------------
(***************************************************************************)
(* Prepaid and from-capacity orders: packages/lsp-server/src/prepaid.ts.   *)
(*                                                                         *)
(* An order is created with a fee invoice, its client asks to settle the   *)
(* fee (POST /orders/:id/settle, as often and as concurrently as it        *)
(* likes), and the LSP checks the invoice and opens a channel.  Each call  *)
(* is a handler cut at its awaits: the fee check, and the opening of the   *)
(* channel, whose end may be ready, given up, or an exception.             *)
(*                                                                         *)
(* External: the LSP's node (the fee invoice, the channels) and the clock. *)
(***************************************************************************)
EXTENDS Naturals

CONSTANTS
    Orders,      \* the orders, all created
    Prepays,     \* those with fee_mode prepaid; the others pay from capacity
    Calls,       \* calls of settleFee that may be under way at once
    MaxCrashes,  \* bound on restarts of the process
    Faults       \* what may go wrong in this instance

AllFaults == {"crash", "rpc", "expiry"}

ASSUME PrepaysAssumption == Prepays \subseteq Orders
ASSUME FaultsAssumption == Faults \subseteq AllFaults
ASSUME MaxCrashesAssumption == MaxCrashes \in Nat

VARIABLES
    state,   \* stored order: its OrderState
    pc,      \* where each call stands; "create" is the call of createOrder
    opens,   \* node: channels opened for the order, 2 standing for more
    ready,   \* node: a channel of the order is ready
    fee,     \* node: status of the fee invoice
    crashes  \* restarts so far

vars == <<state, pc, opens, ready, fee, crashes>>
nodes == <<opens, ready, fee>>

\* created is never stored (a from-capacity order is stored by provision's
\* caller and becomes opening in the same turn), and expired is never reached.
States == {"awaiting_payment", "opening", "channel_active", "failed"}
Handlers == Calls \cup {"create"}
Pcs == {"off", "verify", "unverified", "verified", "open", "await",
        "opened", "timedOut", "thrown"}

Goto(o, h, p) == pc' = [pc EXCEPT ![o][h] = p]
Become(o, s) == state' = [state EXCEPT ![o] = s]

\* createOrder has stored the order; a from-capacity order is provisioned by
\* the same call, whose first write is opening.
Init ==
    /\ state = [o \in Orders |->
                  IF o \in Prepays THEN "awaiting_payment" ELSE "opening"]
    /\ pc = [o \in Orders |-> [h \in Handlers |->
                  IF h = "create" /\ o \notin Prepays THEN "open" ELSE "off"]]
    /\ opens = [o \in Orders |-> 0]
    /\ ready = [o \in Orders |-> FALSE]
    /\ fee = [o \in Orders |-> "Open"]
    /\ crashes = 0

-----------------------------------------------------------------------------
(* Slips: mistakes one could make in the steps below.                       *)

\* The answer of the fee check is not looked at.
VerifiedBlindly(o, h) ==
    /\ pc[o][h] = "verify"
    /\ Goto(o, h, "verified")
    /\ UNCHANGED <<state, nodes, crashes>>

\* A failed order may be settled again.
SettleFeeRetries(o, h) ==
    /\ pc[o][h] = "off"
    /\ state[o] \in {"awaiting_payment", "failed"}
    /\ Goto(o, h, "verify")
    /\ UNCHANGED <<state, nodes, crashes>>

\* An exception of the opening is not caught.
ProvisionEndsUncaught(o, h) ==
    /\ \/ pc[o][h] = "opened" /\ Become(o, "channel_active")
       \/ pc[o][h] = "timedOut" /\ Become(o, "failed")
       \/ pc[o][h] = "thrown" /\ UNCHANGED state
    /\ Goto(o, h, "off")
    /\ UNCHANGED <<nodes, crashes>>

-----------------------------------------------------------------------------
(* settleFee, with makeInvoiceFeeVerifier configured *)

\* Any other state returns the order or throws, and changes nothing.
SettleFee(o, h) ==
    /\ pc[o][h] = "off"
    /\ state[o] = "awaiting_payment"
    /\ Goto(o, h, "verify")
    /\ UNCHANGED <<state, nodes, crashes>>

Verify(o, h) ==
    /\ pc[o][h] = "verify"
    /\ \/ Goto(o, h, IF fee[o] = "Paid" THEN "verified" ELSE "unverified")
       \/ "rpc" \in Faults /\ Goto(o, h, "unverified")
    /\ UNCHANGED <<state, nodes, crashes>>

\* fee_unpaid, or the failed read, is thrown to the client.
Unverified(o, h) ==
    /\ pc[o][h] = "unverified"
    /\ Goto(o, h, "off")
    /\ UNCHANGED <<state, nodes, crashes>>

-----------------------------------------------------------------------------
(* provision *)

Provision(o, h) ==
    /\ pc[o][h] = "verified"
    /\ \/ /\ state[o] = "channel_active"
          /\ Goto(o, h, "off")
          /\ UNCHANGED state
       \/ /\ state[o] # "channel_active"
          /\ Become(o, "opening")
          /\ Goto(o, h, "open")
    /\ UNCHANGED <<nodes, crashes>>

\* The node takes the open or refuses it; its answer may be lost.
OpenChannel(o, h) ==
    /\ pc[o][h] = "open"
    /\ \/ /\ opens' = [opens EXCEPT ![o] = IF @ = 2 THEN 2 ELSE @ + 1]
          /\ \/ Goto(o, h, "await")
             \/ "rpc" \in Faults /\ Goto(o, h, "thrown")
       \/ Goto(o, h, "thrown") /\ UNCHANGED opens
    /\ UNCHANGED <<state, ready, fee, crashes>>

\* The poll loop ends: a ready channel, no more attempts, or a failed read.
AwaitChannel(o, h) ==
    /\ pc[o][h] = "await"
    /\ \/ ready[o] /\ Goto(o, h, "opened")
       \/ ~ready[o] /\ Goto(o, h, "timedOut")
       \/ "rpc" \in Faults /\ Goto(o, h, "thrown")
    /\ UNCHANGED <<state, nodes, crashes>>

ProvisionEnds(o, h) ==
    /\ \/ pc[o][h] = "opened" /\ Become(o, "channel_active")
       \/ pc[o][h] \in {"timedOut", "thrown"} /\ Become(o, "failed")
    /\ Goto(o, h, "off")
    /\ UNCHANGED <<nodes, crashes>>

-----------------------------------------------------------------------------
(* The world *)

\* The process has no resume(): a restart drops the calls and no more.
Crash ==
    /\ "crash" \in Faults
    /\ crashes < MaxCrashes
    /\ crashes' = crashes + 1
    /\ pc' = [o \in Orders |-> [h \in Handlers |-> "off"]]
    /\ UNCHANGED <<state, nodes>>

PayFee(o) ==
    /\ o \in Prepays /\ fee[o] = "Open"
    /\ fee' = [fee EXCEPT ![o] = "Paid"]
    /\ UNCHANGED <<state, pc, opens, ready, crashes>>

ChannelReady(o) ==
    /\ opens[o] > 0 /\ ~ready[o]
    /\ ready' = [ready EXCEPT ![o] = TRUE]
    /\ UNCHANGED <<state, pc, opens, fee, crashes>>

\* The fee invoice expires unpaid; the order's own expires_at is stored and
\* never looked at again.
Lapse(o) ==
    /\ "expiry" \in Faults
    /\ fee[o] = "Open"
    /\ fee' = [fee EXCEPT ![o] = "Expired"]
    /\ UNCHANGED <<state, pc, opens, ready, crashes>>

Step(o, h) ==
    \/ Verify(o, h) \/ Unverified(o, h) \/ Provision(o, h)
    \/ OpenChannel(o, h) \/ AwaitChannel(o, h) \/ ProvisionEnds(o, h)

Next ==
    \/ \E o \in Orders :
          \/ \E h \in Handlers : Step(o, h)
          \/ \E h \in Calls : SettleFee(o, h)
          \/ PayFee(o) \/ ChannelReady(o) \/ Lapse(o)
    \/ Crash

\* Handlers run on; clients owe nothing.
Fairness == \A o \in Orders : \A h \in Handlers : WF_vars(Step(o, h))

Spec == Init /\ [][Next]_vars
FairSpec == Spec /\ Fairness

-----------------------------------------------------------------------------
(* Properties *)

TypeOK ==
    /\ state \in [Orders -> States]
    /\ pc \in [Orders -> [Handlers -> Pcs]]
    /\ opens \in [Orders -> 0..2]
    /\ ready \in [Orders -> BOOLEAN]
    /\ fee \in [Orders -> {"Open", "Paid", "Expired"}]
    /\ crashes \in Nat

\* No client gets a channel, or the promise of one, without having paid its
\* fee ("so a client can't get a channel without paying").
FeeBeforeChannel ==
    \A o \in Prepays :
        opens[o] > 0 \/ state[o] # "awaiting_payment" => fee[o] = "Paid"

\* An order called channel_active has a ready channel.
ActiveIsReady == \A o \in Orders : state[o] = "channel_active" => ready[o]

\* An order gets at most one channel, however often and however concurrently
\* its client asks for it to be settled ("idempotent", settleFee).
OneChannel == \A o \in Orders : opens[o] <= 1

\* A call is past its fee check and has not ended.
Working(o) == \E h \in Handlers :
                 pc[o][h] \in {"open", "await", "opened", "timedOut", "thrown"}

\* What the client was told of the end of its order stays so, whatever calls
\* are still under way.
EndIsFinal ==
    [][\A o \in Orders :
          state[o] \in {"channel_active", "failed"} => state'[o] = state[o]]_vars

\* An opening that a call works on ends, one way or the other, unless the
\* process dies in it.
OpeningEnds ==
    \A o \in Orders, n \in 0..MaxCrashes :
        state[o] = "opening" /\ Working(o) /\ crashes = n
        ~> state[o] \in {"channel_active", "failed"} \/ crashes > n

=============================================================================
