------------------------------ MODULE Inbound ------------------------------
(***************************************************************************)
(* A merchant becomes able to receive: InvoiceService.receive with the     *)
(* hook buyInboundFromLsp, LspClient.buyInboundLiquidity behind it, and    *)
(* LiquidityMonitor, which buys ahead of demand through the same hook      *)
(* (packages/client/src).                                                  *)
(*                                                                         *)
(* The monitor, the checkouts and the customers of earlier invoices share  *)
(* one inbound balance, and each acts on what it read some awaits ago.     *)
(***************************************************************************)
EXTENDS Integers

CONSTANTS
    Sales, Monitor,      \* calls of receive(), and the monitor
    Amount,              \* what each call wants to receive
    Floor, Goal,         \* minInbound and targetInbound of the monitor
    FirstInbound,        \* inbound at the start
    MaxReadFails, MaxSpent   \* bounds: failing calls; payments over older invoices

ASSUME InboundAssumption ==
    /\ Monitor \notin Sales
    /\ {Amount, Floor, Goal, FirstInbound} \subseteq Nat /\ Floor <= Goal

Buyers == Sales \cup {Monitor}

VARIABLES
    available,      \* the remote side of the merchant's ready channels
    hook, feeMode,  \* is ensureInbound given, and the fee mode it uses
    saleAt,         \* where each buyer is
    short,          \* the shortfall each last read
    order,          \* the LSP's state of each buyer's order
    late,           \* inbound still being opened for buyers that gave up
    saleInvoice,    \* invoices shown by the calls of receive()
    monitoring,     \* the monitor's loop is not stopped
    readFails, spent,
    covered         \* history: inbound covered the amount since the last gate

shop == <<hook, feeMode, saleInvoice, monitoring>>
bounds == <<readFails, spent>>
inboundVars == <<available, hook, feeMode, saleAt, short, order, late, saleInvoice,
                 monitoring, readFails, spent, covered>>

InboundInit ==
    /\ available = FirstInbound
    /\ hook \in BOOLEAN
    /\ feeMode \in {"prepaid", "from_capacity"}
    /\ saleAt = [b \in Buyers |-> "idle"]
    /\ short = [b \in Buyers |-> 0]
    /\ order = [b \in Buyers |-> "none"]
    /\ late = 0
    /\ saleInvoice = [s \in Sales |-> "none"]
    /\ monitoring = FALSE
    /\ readFails = 0 /\ spent = 0
    /\ covered = [s \in Sales |-> FALSE]

SaleTo(b, place) == saleAt' = [saleAt EXCEPT ![b] = place]
Missing(want) == IF available >= want THEN 0 ELSE want - available

-----------------------------------------------------------------------------
(* Slips: mistakes one could make in the steps below, none of them in the   *)
(* code.                                                                    *)

\* A purchase that completed counts as readiness.
RecheckTrusting(s) ==
    /\ saleAt[s] = "recheck"
    /\ SaleTo(s, "issue")
    /\ UNCHANGED <<available, short, order, late, shop, bounds>>

\* A pass that fails ends the monitor's loop.
GiveUpForGood(b) == SaleTo(b, IF b = Monitor THEN "stopped" ELSE "refused")

-----------------------------------------------------------------------------
(* The merchant's checkout *)

\* MerchantCheckout.createIntent and DirectReceive.originate call receive().
Receive(s) ==
    /\ saleAt[s] = "idle"
    /\ SaleTo(s, "gate")
    /\ UNCHANGED <<available, short, order, late, shop, bounds>>

\* checkReceiveReadiness, and the hook when inbound is short.
Gate(s) ==
    /\ saleAt[s] = "gate"
    /\ short' = [short EXCEPT ![s] = Missing(Amount)]
    /\ SaleTo(s, CASE short'[s] = 0 -> "issue"
                 [] short'[s] > 0 /\ hook -> "order"
                 [] OTHER -> "refused")
    /\ UNCHANGED <<available, order, late, shop, bounds>>

Recheck(s) ==
    /\ saleAt[s] = "recheck"
    /\ SaleTo(s, IF Missing(Amount) = 0 THEN "issue" ELSE "refused")
    /\ UNCHANGED <<available, short, order, late, shop, bounds>>

Issue(s) ==
    /\ saleAt[s] = "issue"
    /\ saleInvoice' = [saleInvoice EXCEPT ![s] = "Open"]
    /\ SaleTo(s, "shown")
    /\ UNCHANGED <<available, short, order, late, hook, feeMode, monitoring, bounds>>

-----------------------------------------------------------------------------
(* The monitor: one pass of check() after another *)

StartMonitor ==
    /\ saleAt[Monitor] = "idle"
    /\ SaleTo(Monitor, "check")
    /\ monitoring' = TRUE
    /\ UNCHANGED <<available, short, order, late, hook, feeMode, saleInvoice, bounds>>

CheckFloor ==
    /\ saleAt[Monitor] = "check"
    /\ SaleTo(Monitor, IF Missing(Floor) = 0 THEN "sleep" ELSE "alert")
    /\ UNCHANGED <<available, short, order, late, shop, bounds>>

\* The second reading sizes the top-up.
Alert ==
    /\ saleAt[Monitor] = "alert"
    /\ short' = [short EXCEPT ![Monitor] = Missing(Goal)]
    /\ SaleTo(Monitor, IF hook /\ short'[Monitor] > 0 THEN "order" ELSE "sleep")
    /\ UNCHANGED <<available, order, late, shop, bounds>>

NextPass ==
    /\ saleAt[Monitor] = "sleep"
    /\ SaleTo(Monitor, IF monitoring THEN "check" ELSE "stopped")
    /\ UNCHANGED <<available, short, order, late, shop, bounds>>

StopMonitor ==
    /\ monitoring /\ monitoring' = FALSE
    /\ UNCHANGED <<available, saleAt, short, order, late, hook, feeMode, saleInvoice,
                   bounds>>

-----------------------------------------------------------------------------
(* buyInboundLiquidity, for either *)

CreateOrder(b) ==
    /\ saleAt[b] = "order"
    /\ IF feeMode = "prepaid"
       THEN /\ order' = [order EXCEPT ![b] = "awaiting_payment"]
            /\ SaleTo(b, "payFee")
       ELSE /\ order' = [order EXCEPT ![b] = "opening"]
            /\ SaleTo(b, "answer")
    /\ UNCHANGED <<available, short, late, shop, bounds>>

\* payFee, then settleFee, which answers when the channel is there or failed.
SettleFee(b) ==
    /\ saleAt[b] = "payFee"
    /\ order' = [order EXCEPT ![b] = "opening"]
    /\ SaleTo(b, "answer")
    /\ UNCHANGED <<available, short, late, shop, bounds>>

\* What a buyer does when its purchase, or any call of it, throws.
WithoutIt(b) == SaleTo(b, IF b = Monitor THEN "sleep" ELSE "refused")

\* waitUntilActive and the test of its result, the capacity fee, the return.
Bought(b) ==
    /\ saleAt[b] = "answer"
    /\ order[b] \in {"channel_active", "failed"}
    /\ IF order[b] = "failed"
       THEN WithoutIt(b)
       ELSE SaleTo(b, IF b = Monitor THEN "sleep" ELSE "recheck")
    /\ UNCHANGED <<available, short, order, late, shop, bounds>>

\* A call of the node, the wallet or the LSP throws.  A channel the LSP is
\* opening still comes, or not, with nobody waiting for it.
Throws(b) ==
    /\ readFails < MaxReadFails
    /\ saleAt[b] \in {"gate", "order", "payFee", "answer", "recheck", "issue",
                     "check", "alert"}
    /\ WithoutIt(b)
    /\ late' = IF order[b] = "opening" THEN late + short[b] ELSE late
    /\ order' = [order EXCEPT ![b] = "none"]
    /\ readFails' = readFails + 1
    /\ UNCHANGED <<available, short, shop, spent>>

-----------------------------------------------------------------------------
(* The LSP and the customers *)

ChannelReady(b) ==
    /\ order[b] = "opening"
    /\ order' = [order EXCEPT ![b] = "channel_active"]
    /\ available' = available + short[b]
    /\ UNCHANGED <<saleAt, short, late, shop, bounds>>

ChannelFails(b) ==
    /\ order[b] = "opening" /\ readFails < MaxReadFails
    /\ order' = [order EXCEPT ![b] = "failed"]
    /\ readFails' = readFails + 1
    /\ UNCHANGED <<available, saleAt, short, late, shop, spent>>

LateChannel ==
    /\ late > 0
    /\ late' = 0
    /\ \E ready \in BOOLEAN : available' = available + (IF ready THEN late ELSE 0)
    /\ UNCHANGED <<saleAt, short, order, shop, bounds>>

CustomerPays(s) ==
    /\ saleInvoice[s] = "Open" /\ available >= Amount
    /\ saleInvoice' = [saleInvoice EXCEPT ![s] = "Paid"]
    /\ available' = available - Amount
    /\ UNCHANGED <<saleAt, short, order, late, hook, feeMode, monitoring, bounds>>

\* An invoice shown earlier is paid.
OlderSale ==
    /\ available > 0 /\ spent < MaxSpent
    /\ available' = available - 1 /\ spent' = spent + 1
    /\ UNCHANGED <<saleAt, short, order, late, shop, readFails>>

BuyerStep(b) == CreateOrder(b) \/ SettleFee(b) \/ Bought(b)
MonitorStep == CheckFloor \/ Alert \/ NextPass \/ BuyerStep(Monitor)

InboundStep ==
    \/ \E s \in Sales : Receive(s) \/ Gate(s) \/ Recheck(s) \/ Issue(s) \/ CustomerPays(s)
    \/ StartMonitor \/ CheckFloor \/ Alert \/ NextPass \/ StopMonitor
    \/ \E b \in Buyers :
          \/ CreateOrder(b) \/ SettleFee(b) \/ Bought(b) \/ Throws(b)
          \/ ChannelReady(b) \/ ChannelFails(b)
    \/ LateChannel \/ OlderSale

\* A gate forgets what was covered before it; the balance may cover it later.
Remember ==
    covered' = [s \in Sales |->
        \/ available' >= Amount
        \/ covered[s] /\ ~(saleAt'[s] \in {"gate", "recheck"} /\ saleAt[s] # saleAt'[s])]

InboundNext == InboundStep /\ Remember

\* Calls are answered or fail, the loop's sleep ends, an opening ends.
InboundFairness ==
    /\ WF_inboundVars(MonitorStep /\ Remember)
    /\ \A b \in Buyers : WF_inboundVars(ChannelReady(b) /\ Remember)
    /\ WF_inboundVars(LateChannel /\ Remember)

InboundSpec == InboundInit /\ [][InboundNext]_inboundVars /\ InboundFairness

-----------------------------------------------------------------------------
(* Properties *)

\* A customer is shown an invoice only if, since the request or the purchase
\* made for it, the merchant's inbound has covered it: a purchase that went
\* through is not readiness, others may have used it up (receive's re-check).
GateHolds == \A s \in Sales : saleInvoice[s] # "none" => covered[s]

\* However many passes and purchases fail, a running monitor with a hook gets
\* the inbound back to the floor for good once the sales are over.
FloorRestored == hook => <>[](available >= Floor \/ ~monitoring)

=============================================================================
