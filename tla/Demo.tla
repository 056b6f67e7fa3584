-------------------------------- MODULE Demo --------------------------------
(***************************************************************************)
(* The demo around the services (scripts/demo): the preflight of the LSP   *)
(* process, the hosted process manager, the dashboard's action controller, *)
(* the operations dashboard and command line share, the merchant's and the *)
(* customer's control servers, and the state files they all write.         *)
(*                                                                         *)
(* Hosted, the manager runs the services and only the dashboard acts; else *)
(* a user's commands run beside it.  updateState() is synchronous: the     *)
(* window between two processes' read and write of one file is left out.   *)
(***************************************************************************)
EXTENDS Integers, Sequences, FiniteSets, FiniteSetsExt

CONSTANTS
    Topologies,      \* what the LSP process may find: [nodes, channels, peer, observes]
    Asked,         \* amounts and periods asked for, 0 included
    HostedPeriods,   \* what a hosted rent request may ask for
    MaxCheckouts, MaxBills, MaxResets, MaxExits   \* bounds: invoices, resets, exits

ASSUME DemoAssumption == Asked \subseteq Nat

VARIABLES
    hosted,          \* the hosted deployment
    topology,
    child,           \* process of each service: none, up, exited
    children,        \* services the manager holds processes of
    ready,           \* its health
    manager,         \* transition it is in: [op, at]; at: the service probed, or 0
    op,              \* operation of each actor: [kind, at, bill]
    jitBills,        \* checkout invoices: [amount, via, state, told]
    plainBills,      \* regular invoices: [amount, state]
    holdFile, plainFile, rentFile,   \* jit-hold.json, regular-payment.json, rent.json
    wallet,          \* outbound of the customer's channels
    resets, exits

world == <<jitBills, plainBills, holdFile, plainFile, rentFile, wallet>>
run == <<child, children, ready, manager>>
demoVars == <<hosted, topology, run, op, world, resets, exits>>

Idle == [kind |-> "none", at |-> "", bill |-> 0]
NoHold == [bill |-> 0, channel |-> 0, customer |-> ""]
NoRent == [channel |-> 0, periods |-> 0]
NoPlain == [bill |-> 0, customer |-> "", merchant |-> ""]
Quiet == [op |-> "none", at |-> 0]
Fresh == /\ jitBills = <<>> /\ plainBills = <<>>
         /\ holdFile = NoHold /\ plainFile = NoPlain /\ rentFile = NoRent
Actors == IF hosted THEN {"dash"} ELSE {"dash", "cli"}

DemoInit ==
    /\ hosted \in BOOLEAN /\ topology \in Topologies
    /\ child = [s \in 1..3 |-> IF hosted THEN "none" ELSE "up"]
    /\ children = {} /\ ready = FALSE
    /\ manager = IF hosted THEN [op |-> "start", at |-> 0] ELSE Quiet
    /\ op = [p \in {"dash", "cli"} |-> Idle]
    /\ Fresh /\ wallet = [c \in {1, 2} |-> c]
    /\ resets = 0 /\ exits = 0

-----------------------------------------------------------------------------
(* Preflight *)

SameChain == Cardinality({topology.nodes[r].chain : r \in DOMAIN topology.nodes}) = 1
DistinctNodes ==
    \A r, q \in DOMAIN topology.nodes :
        topology.nodes[r].key = topology.nodes[q].key => r = q
Usable(ch) == ch.enabled /\ ch.ready /\ ch.matches /\ ch.local > 0
HoldChannel == (\E ch \in topology.channels : Usable(ch)) /\ topology.peer
Fit == SameChain /\ DistinctNodes /\ HoldChannel /\ topology.observes

-----------------------------------------------------------------------------
(* Slips: mistakes one could make in the steps below, none of them in the   *)
(* code.                                                                    *)

\* A new regular invoice keeps what the record says of the one before.
PlainKept(i) == [plainFile EXCEPT !.bill = i]

-----------------------------------------------------------------------------
(* Process manager *)

Spawn(s) ==
    /\ child' = [child EXCEPT ![s] = "up"]
    /\ children' = children \cup {s}

\* startNow() clears the state and spawns the first service.
Starting ==
    /\ manager.op = "start" /\ manager.at = 0
    /\ jitBills' = <<>> /\ plainBills' = <<>> /\ holdFile' = NoHold /\ plainFile' = NoPlain
    /\ rentFile' = NoRent
    /\ Spawn(1) /\ manager' = [op |-> "start", at |-> 1]
    /\ UNCHANGED <<hosted, topology, ready, op, wallet, resets, exits>>

ResetOver == [op EXCEPT !["dash"] = IF @.kind = "reset" THEN Idle ELSE @]

\* A service that answers lets the next one start, the last makes it ready; one
\* that exited takes everything down.
Probe ==
    /\ manager.op = "start" /\ manager.at > 0
    /\ \/ /\ child[manager.at] = "exited"
          /\ manager' = [op |-> "fail", at |-> 0]
          /\ UNCHANGED <<child, children, ready, op>>
       \/ /\ child[manager.at] = "up" /\ (manager.at = 1 => Fit) /\ manager.at < 3
          /\ Spawn(manager.at + 1) /\ manager' = [manager EXCEPT !.at = @ + 1]
          /\ UNCHANGED <<ready, op>>
       \/ /\ child[manager.at] = "up" /\ manager.at = 3
          /\ ready' = TRUE /\ manager' = Quiet /\ op' = ResetOver
          /\ UNCHANGED <<child, children>>
    /\ UNCHANGED <<hosted, topology, world, resets, exits>>

\* stopNow(): nothing is held, nothing is ready, and every process is gone
\* before what comes next.  A reset starts again; a reset whose start failed
\* leaves the dashboard with nothing behind it.
StopNow ==
    /\ manager.op \in {"reset", "fail", "stop"}
    /\ ready' = FALSE /\ children' = {}
    /\ child' = [s \in 1..3 |-> "none"]
    /\ manager' = IF manager.op = "reset" THEN [op |-> "start", at |-> 0]
                  ELSE IF op["dash"].kind = "reset" THEN Quiet ELSE [op |-> "gone", at |-> 0]
    /\ op' = IF manager.op = "fail" THEN ResetOver ELSE op
    /\ UNCHANGED <<hosted, topology, world, resets, exits>>

\* A service exits, an unfit topology being one reason for the first; the close
\* handler of a process still held takes the readiness back.
Exited(s) ==
    /\ hosted /\ child[s] = "up"
    /\ (s = 1 /\ ~Fit) \/ exits < MaxExits
    /\ exits' = IF s = 1 /\ ~Fit THEN exits ELSE exits + 1
    /\ child' = [child EXCEPT ![s] = "exited"]
    /\ ready' = IF s \in children THEN FALSE ELSE ready
    /\ UNCHANGED <<hosted, topology, children, manager, op, world, resets>>

-----------------------------------------------------------------------------
(* Actions of the dashboard and commands *)

Up == \A s \in 1..3 : child[s] = "up"

\* The dashboard runs one action at a time, resets included.
FreeToAct(p, k) == op[p] = Idle
Begin(p, k, at, i) ==
    /\ FreeToAct(p, k)
    /\ op' = [op EXCEPT ![p] = [kind |-> k, at |-> at, bill |-> i]]
End(p) == op' = [op EXCEPT ![p] = Idle]

\* The action, or the timer after inactivity.
Reset ==
    /\ hosted /\ manager = Quiet /\ resets < MaxResets
    /\ Begin("dash", "reset", "", 0)
    /\ manager' = [op |-> "reset", at |-> 0] /\ resets' = resets + 1
    /\ UNCHANGED <<hosted, topology, child, children, ready, world, exits>>

\* A signal stops the process, between two transitions.
Terminate ==
    /\ hosted /\ manager = Quiet
    /\ manager' = [op |-> "stop", at |-> 0]
    /\ UNCHANGED <<hosted, topology, child, children, ready, op, world, resets, exits>>

still == <<hosted, topology, run, resets, exits>>

\* What the customer can pay over one channel.
Limit == Max({wallet[c] : c \in DOMAIN wallet})
Largest == CHOOSE c \in DOMAIN wallet : wallet[c] = Limit
Debit(a) == wallet' = [wallet EXCEPT ![Largest] = @ - a]

\* requestInvoice(), and startCheckout() of the merchant's server, which
\* replaces the record.
RequestInvoice(p, a) ==
    /\ Up /\ Len(jitBills) < MaxCheckouts
    /\ a > 0 /\ a <= Limit /\ FreeToAct(p, "invoice")
    /\ jitBills' = Append(jitBills, [amount |-> a, via |-> 0, state |-> "open",
                                     told |-> FALSE])
    /\ holdFile' = [NoHold EXCEPT !.bill = Len(jitBills) + 1]
    /\ UNCHANGED <<still, op, plainBills, plainFile, rentFile, wallet>>

\* payInvoice(), of the saved invoice or of one given: the customer's server
\* sends, waits for an end or the invoice's deadline, ...
PayInvoice(p, i) ==
    /\ Up /\ i \in DOMAIN jitBills /\ jitBills[i].state = "open"
    /\ jitBills[i].amount <= Limit
    /\ Begin(p, "pay", "waiting", i)
    /\ jitBills' = [jitBills EXCEPT ![i].state = "held", ![i].via = Largest]
    /\ Debit(jitBills[i].amount)
    /\ UNCHANGED <<still, plainBills, holdFile, plainFile, rentFile>>
\* ... and a payment that succeeded is merged into whatever record there is.
PaidInvoice(p) ==
    /\ Up /\ op[p].kind = "pay" /\ jitBills[op[p].bill].state = "settled"
    /\ holdFile' = [holdFile EXCEPT !.customer = "Success"]
    /\ End(p)
    /\ UNCHANGED <<still, jitBills, plainBills, plainFile, rentFile, wallet>>

\* The LSP settles or refunds (JitService), and the checkout's watcher merges
\* the channel of a settled order.
JitEnds(i) ==
    /\ Up /\ i \in DOMAIN jitBills /\ jitBills[i].state = "held"
    /\ \E s \in {"settled", "refunded"} :
        /\ jitBills' = [jitBills EXCEPT ![i].state = s]
        /\ wallet' = IF s = "settled" THEN wallet
                      ELSE [wallet EXCEPT ![jitBills[i].via] = @ + jitBills[i].amount]
    /\ UNCHANGED <<still, op, plainBills, holdFile, plainFile, rentFile>>
Watched(i) ==
    /\ Up /\ i \in DOMAIN jitBills /\ jitBills[i].state = "settled" /\ ~jitBills[i].told
    /\ jitBills' = [jitBills EXCEPT ![i].told = TRUE]
    /\ holdFile' = [holdFile EXCEPT !.channel = i]
    /\ UNCHANGED <<still, op, plainBills, plainFile, rentFile, wallet>>

\* requestRegularInvoice(): the merchant's server issues, the record is written
\* when it answered.
RequestRegular(p, a) ==
    /\ Up /\ Len(plainBills) < MaxBills /\ a > 0
    /\ plainBills' = Append(plainBills, [amount |-> a, state |-> "Open"])
    /\ Begin(p, "regular-invoice", "answered", Len(plainBills) + 1)
    /\ UNCHANGED <<still, jitBills, holdFile, plainFile, rentFile, wallet>>
PlainIssued(i) == [bill |-> i, customer |-> "", merchant |-> "Open"]
RegularAsked(p) ==
    /\ op[p].kind = "regular-invoice"
    /\ plainFile' = PlainIssued(op[p].bill) /\ End(p)
    /\ UNCHANGED <<still, jitBills, plainBills, holdFile, rentFile, wallet>>

\* payRegularInvoice(): the saved invoice, a route for which the dry run found;
\* the record is written whole once the merchant's server saw it paid.
PayRegular(p) ==
    /\ Up /\ plainFile.bill \in DOMAIN plainBills
    /\ plainBills[plainFile.bill].amount <= Limit
    /\ Begin(p, "regular-pay", "sent", plainFile.bill)
    /\ plainBills' = [plainBills EXCEPT ![plainFile.bill].state = "Paid"]
    /\ Debit(plainBills[plainFile.bill].amount)
    /\ UNCHANGED <<still, jitBills, holdFile, plainFile, rentFile>>
SeenPaid(i) == plainBills[i].state = "Paid"
RegularPaid(p) ==
    /\ Up /\ op[p].kind = "regular-pay" /\ SeenPaid(op[p].bill)
    /\ plainFile' = [bill |-> op[p].bill, customer |-> "Success", merchant |-> "Paid"]
    /\ End(p)
    /\ UNCHANGED <<still, jitBills, plainBills, holdFile, rentFile, wallet>>

\* streamRent(), of the channel the record has: hosted, at most HostedPeriods;
\* the merchant's server has the lease (StreamingLease) pay some of the periods.
Allowed(periods) == hosted => periods <= HostedPeriods
Leased(c, periods) == {[channel |-> c, periods |-> done] : done \in 0..periods}
StreamRent(p, periods) ==
    /\ Up /\ FreeToAct(p, "rent") /\ holdFile.channel # 0
    /\ periods > 0 /\ Allowed(periods)
    /\ rentFile' \in Leased(holdFile.channel, periods)
    /\ UNCHANGED <<still, op, jitBills, plainBills, holdFile, plainFile, wallet>>

\* Any operation may end with an error: a server gone, a deadline, a budget.
OpFails(p) ==
    /\ op[p].kind \notin {"none", "reset"} /\ End(p)
    /\ UNCHANGED <<still, world>>

-----------------------------------------------------------------------------
(* What the dashboard shows *)

\* safeCheckout(): a channel alone says that the customer's payment succeeded.
ShownCheckout ==
    [ready |-> holdFile.bill # 0, settled |-> holdFile.channel # 0,
     customer |-> IF holdFile.customer = "" /\ holdFile.channel # 0 THEN "Success"
                  ELSE holdFile.customer]
\* safeRegularPayment()
ShownPlain ==
    [bill |-> plainFile.bill,
     settled |-> plainFile.customer = "Success" /\ plainFile.merchant = "Paid"]

DemoNext ==
    \/ Starting \/ Probe \/ StopNow \/ Reset \/ Terminate
    \/ \E s \in 1..3 : Exited(s)
    \/ \E i \in 1..MaxCheckouts : JitEnds(i) \/ Watched(i)
    \/ \E p \in Actors :
        \/ \E a \in Asked : RequestInvoice(p, a) \/ RequestRegular(p, a) \/ StreamRent(p, a)
        \/ \E i \in 1..MaxCheckouts : PayInvoice(p, i)
        \/ PaidInvoice(p) \/ RegularAsked(p) \/ PayRegular(p) \/ RegularPaid(p) \/ OpFails(p)

DemoSpec == DemoInit /\ [][DemoNext]_demoVars

-----------------------------------------------------------------------------
(* Properties *)

\* What the dashboard shows is true: a regular payment shown as settled is of an
\* invoice paid, a checkout shown as paid or settled has one that settled, and no
\* record names an invoice of the world before a reset (operations.mjs under the
\* dashboard's controller, the command line and the resets).
RecordTrue ==
    /\ plainFile.bill # 0 /\ Up => plainFile.bill \in DOMAIN plainBills
    /\ ShownPlain.settled => plainBills[ShownPlain.bill].state = "Paid"
    /\ ShownCheckout.settled \/ ShownCheckout.customer = "Success"
           => \E i \in DOMAIN jitBills : jitBills[i].state = "settled"

=============================================================================
