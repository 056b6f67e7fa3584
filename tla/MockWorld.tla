----------------------------- MODULE MockWorld ------------------------------
(***************************************************************************)
(* The mock network the demo and the end-to-end test run on                *)
(* (scripts/demo/shared/mock-node.mjs): nodes that connect, open channels, *)
(* issue regular and hold invoices, route payments and keysends, settle,   *)
(* cancel and close, through the client of packages/fiber/src/rpc.ts; and  *)
(* what the LSP's facade and ledger read back of it.                       *)
(*                                                                         *)
(* Every payment is of one unit.  An end of a channel is what the node on  *)
(* that side has of it: [peer, asset, local, remote, funded, open], funded  *)
(* being what it began with.                                               *)
(***************************************************************************)
EXTENDS Integers, Sequences, SequencesExt, FiniteSets, FiniteSetsExt, Functions

CONSTANTS
    Nodes, Assets,
    Bills,          \* invoice -> [issuer, asset, held]
    Meets,          \* <<n, m>>: n connects to m
    Opens,          \* <<n, m>>: n opens channels to m
    Observed,       \* <<n, i>>: somebody observes the preimage of i on n
    Fundings,       \* amounts a channel is opened with
    MaxChannels,    \* bound on the channels
    MaxCalls        \* bound on the payments of all kinds and the closes, in all

ASSUME NamesAssumption == "" \notin Nodes
ASSUME BillsAssumption == \A i \in DOMAIN Bills : Bills[i].issuer \in Nodes

\* There is an end to what is counted; nobody opens to itself, and no channel
\* begins with less than nothing.
ASSUME WorldAssumption ==
    /\ IsFiniteSet(Nodes) /\ IsFiniteSet(Assets) /\ IsFiniteSet(DOMAIN Bills)
    /\ \A e \in Opens : e[1] \in Nodes /\ e[2] \in Nodes \ {e[1]}
    /\ Fundings \subseteq Nat

VARIABLES
    links,    \* peers connected
    ends,     \* ends[n][outpoint]
    bill,     \* status of each invoice at its issuer; none: not issued
    paid,     \* paid[n][i]: payment record [status, amount] of n; status none: no record
    heldBy,   \* invoice -> [node, hops] of the payment held, node "" when none is
    keysent,  \* keysent[n][m]: keysends of n to m that succeeded
    loops,    \* self-payments of each node over its own two channels
    watch,    \* watch[n][i]: no, yes, got: an observer of i's preimage on n
    flowed,    \* flowed[n][i]: how often a payment of i by n moved money, a history
    torn      \* whether a call stopped between the writes of a payment, a history

worldVars == <<links, ends, bill, paid, heldBy, keysent, loops, watch, flowed, torn>>

NoRecord == [status |-> "none", amount |-> 0]
NotHeld == [node |-> "", hops |-> {}]

WorldInit ==
    /\ links = {} /\ ends = [n \in Nodes |-> <<>>]
    /\ bill = [i \in DOMAIN Bills |-> "none"]
    /\ paid = [n \in Nodes |-> [i \in DOMAIN Bills |-> NoRecord]]
    /\ heldBy = [i \in DOMAIN Bills |-> NotHeld]
    /\ keysent = [n \in Nodes |-> [m \in Nodes |-> 0]]
    /\ loops = [n \in Nodes |-> 0]
    /\ watch = [n \in Nodes |-> [i \in DOMAIN Bills |-> "no"]]
    /\ flowed = [n \in Nodes |-> [i \in DOMAIN Bills |-> 0]]
    /\ torn = FALSE

-----------------------------------------------------------------------------
(* Reading *)

ListChannels(n, peers) == {c \in DOMAIN ends[n] : ends[n][c].peer \in peers}
IsReady(end) == end.open

\* What a node has in each of its channels, and what the other side has.
Ours(n) == [c \in DOMAIN ends[n] |-> ends[n][c].local]
Theirs(n) == [c \in DOMAIN ends[n] |-> ends[n][c].remote]

\* liquidity(): every channel of an asset counts, closed ones too.
Liquidity(n, a) ==
    LET inAsset == {c \in ListChannels(n, Nodes) : ends[n][c].asset = a}
    IN [channels |-> Cardinality(inAsset),
        ready |-> Cardinality({c \in inAsset : IsReady(ends[n][c])}),
        outbound |-> SumFunctionOnSet(Ours(n), inAsset),
        inbound |-> SumFunctionOnSet(Theirs(n), inAsset)]

GetInvoice(i) == IF bill[i] = "none" THEN "Open" ELSE bill[i]
GetPayment(n, i) == IF paid[n][i] = NoRecord THEN "Failed" ELSE paid[n][i].status

\* list_payments(): one record for each invoice hash the node paid, the last
\* written, and one for each keysend and router payment, whose hashes are
\* fresh: those are successes of one unit and are never written again.
ListPayments(n) ==
    [invoices |-> {i \in DOMAIN Bills : paid[n][i] # NoRecord},
     fresh |-> SumFunction(keysent[n]) + loops[n]]

\* A slip, not in the code: what is in flight counts as sent.
SummaryHopeful(n) ==
    LET sentOf == {i \in DOMAIN Bills : paid[n][i].status \in {"Success", "Inflight"}}
    IN [sent |-> SumFunctionOnSet([i \in DOMAIN Bills |-> paid[n][i].amount], sentOf)
                 + ListPayments(n).fresh]

\* summarizePayments(): a record without an amount adds nothing to what was sent.
Summary(n) ==
    LET list == ListPayments(n)
        with(s) == {i \in list.invoices : paid[n][i].status = s}
    IN [total |-> Cardinality(list.invoices) + list.fresh,
        succeeded |-> Cardinality(with("Success")) + list.fresh,
        failed |-> Cardinality(with("Failed")),
        inflight |-> Cardinality(with("Inflight")),
        sent |-> SumFunctionOnSet([i \in DOMAIN Bills |-> paid[n][i].amount], with("Success"))
                 + list.fresh]

-----------------------------------------------------------------------------
(* Slips: mistakes one could make in the steps below, none of them in the   *)
(* code.                                                                    *)

\* The peer's end of a channel is not brought up to date.
ShiftNear(hops, there) ==
    [n \in Nodes |-> [c \in DOMAIN ends[n] |->
        IF <<n, c>> \in hops
        THEN [ends[n][c] EXCEPT !.local = @ - 1, !.remote = @ + 1] ELSE ends[n][c]]]

\* The payment of a cancelled invoice stays held.
CancelKept(i) ==
    /\ bill[i] # "none"
    /\ bill' = [bill EXCEPT ![i] = "Cancelled"]
    /\ paid' = IF heldBy[i] = NotHeld THEN paid
               ELSE [paid EXCEPT ![heldBy[i].node][i] = [status |-> "Failed", amount |-> 0]]
    /\ UNCHANGED <<links, ends, heldBy, keysent, loops, watch, flowed, torn>>

-----------------------------------------------------------------------------
(* Channels *)

Connect2(n, m) ==
    /\ links' = links \cup {{n, m}}
    /\ UNCHANGED <<ends, bill, paid, heldBy, keysent, loops, watch, flowed, torn>>

\* open_channel: both ends are there, ready, at once; nothing asks whether the
\* two are connected.
Outpoint == Cardinality(UNION {DOMAIN ends[n] : n \in Nodes}) + 1
OpenMock(n, m, a, f) ==
    /\ Outpoint <= MaxChannels
    /\ LET end(peer, l, r) == [peer |-> peer, asset |-> a, local |-> l, remote |-> r,
                            funded |-> l, open |-> TRUE]
           add(e, x) == [c \in DOMAIN e \cup {Outpoint} |-> IF c = Outpoint THEN x ELSE e[c]]
       IN ends' = [ends EXCEPT ![n] = add(@, end(m, f, 0)), ![m] = add(@, end(n, 0, f))]
    /\ UNCHANGED <<links, bill, paid, heldBy, keysent, loops, watch, flowed, torn>>

\* What counts towards MaxCalls: payments that moved money or are held, keysends,
\* router payments, closed ends, and one for calls that stopped.
MoreCalls ==
    MapThenSumSet(LAMBDA k : flowed[k[1]][k[2]], Nodes \X DOMAIN Bills)
    + MapThenSumSet(LAMBDA n : ListPayments(n).fresh
                               + Cardinality({c \in DOMAIN ends[n] : ~IsReady(ends[n][c])}), Nodes)
    + Cardinality({i \in DOMAIN Bills : heldBy[i] # NotHeld})
    + (IF torn THEN 1 ELSE 0) < MaxCalls

\* shutdown_channel closes the end of the node that was asked.
ShutMock(n, c) ==
    /\ c \in DOMAIN ends[n] /\ IsReady(ends[n][c]) /\ MoreCalls
    /\ ends' = [ends EXCEPT ![n][c].open = FALSE]
    /\ UNCHANGED <<links, bill, paid, heldBy, keysent, loops, watch, flowed, torn>>

-----------------------------------------------------------------------------
(* Routes *)

\* A hop <<n, c>> leaves node n by its end of channel c.
Carries(n, c, a) ==
    c \in DOMAIN ends[n] /\ IsReady(ends[n][c]) /\ ends[n][c].asset = a /\ ends[n][c].local >= 1

\* findChannelRoute(): a shortest path of ends that carry the amount now, to
\* the node itself the empty one.  (A search that meets a balance below zero
\* fails in the code, and may find another way here.)
Reaches(h) == ends[h[1]][h[2]].peer
Paths(n, m, a) ==
    LET hops == {h \in Nodes \X (1..MaxChannels) : Carries(h[1], h[2], a)}
    IN {r \in SeqOf(hops, Cardinality(Nodes) - 1) \ {<<>>} :
          /\ r[1][1] = n /\ Reaches(Last(r)) = m
          /\ \A k \in 1..(Len(r) - 1) : Reaches(r[k]) = r[k + 1][1]}
Routes(n, m, a) ==
    IF n = m THEN {<<>>}
    ELSE {r \in Paths(n, m, a) : \A s \in Paths(n, m, a) : Len(r) <= Len(s)}

\* moveAcrossRoute(): one unit over every hop, at both ends.
Shift(hops, there) ==
    [n \in Nodes |-> [c \in DOMAIN ends[n] |->
        LET e == ends[n][c]
        IN IF <<n, c>> \in hops THEN [e EXCEPT !.local = @ - 1, !.remote = @ + 1]
           ELSE IF there /\ <<e.peer, c>> \in hops
                THEN [e EXCEPT !.local = @ + 1, !.remote = @ - 1]
                ELSE e]]

\* A balance below zero is written as a number that no later read takes: the
\* call that comes to one to rewrite it stops there, with the writes before it
\* done.
Numbers == Nodes \X (1..MaxChannels) \X {"local", "remote"}
Unreadable(after) ==
    {k \in Numbers : /\ k[2] \in DOMAIN ends[k[1]] /\ ends[k[1]][k[2]][k[3]] < 0
                     /\ after[k[1]][k[2]][k[3]] # ends[k[1]][k[2]][k[3]]}

\* The order in which moveAcrossRoute rewrites them.
OfEnd(n, c) == <<<<n, c, "local">>, <<n, c, "remote">>>>
Writes(r) == FlattenSeq([k \in DOMAIN r |-> OfEnd(r[k][1], r[k][2]) \o OfEnd(Reaches(r[k]), r[k][2])])

Stops(writes, after) ==
    /\ \E k \in DOMAIN writes :
        LET done == {writes[j] : j \in 1..(k - 1)}
            part(n, c, f) == IF <<n, c, f>> \in done THEN after[n][c][f] ELSE ends[n][c][f]
        IN /\ writes[k] \in Unreadable(after) /\ done \cap Unreadable(after) = {}
           /\ ends' = [n \in Nodes |-> [c \in DOMAIN ends[n] |-> [ends[n][c] EXCEPT
                        !.local = part(n, c, "local"), !.remote = part(n, c, "remote")]]]
    /\ torn' = TRUE
    /\ UNCHANGED <<links, paid, heldBy, keysent, loops, watch, flowed>>

-----------------------------------------------------------------------------
(* Invoices and payments *)

\* emitPreimage reaches the observers there are at this moment.
Told(n, i) == [watch EXCEPT ![n][i] = IF @ = "yes" THEN "got" ELSE @]

\* Once for a hash: the callers draw each afresh.
NewInvoice(i) ==
    /\ bill[i] = "none"
    /\ bill' = [bill EXCEPT ![i] = "Open"]
    /\ watch' = IF Bills[i].held THEN watch ELSE Told(Bills[i].issuer, i)
    /\ UNCHANGED <<links, ends, paid, heldBy, keysent, loops, flowed, torn>>

\* send_payment, whatever became of the invoice so far and whoever paid it
\* before: a regular invoice settles at once, and its record is written over; a
\* hold invoice keeps the last payment's route, without a reservation, until
\* its issuer decides.
SendPayment(n, i) ==
    /\ bill[i] # "none" /\ MoreCalls
    /\ \E r \in Routes(n, Bills[i].issuer, Bills[i].asset) :
        LET hops == ToSet(r)
        IN IF Bills[i].held
           THEN /\ bill' = [bill EXCEPT ![i] = "Received"]
                /\ paid' = [paid EXCEPT ![n][i] = [status |-> "Inflight", amount |-> 1]]
                /\ heldBy' = [heldBy EXCEPT ![i] = [node |-> n, hops |-> hops]]
                /\ UNCHANGED <<ends, watch, flowed>>
           ELSE /\ Unreadable(Shift(hops, TRUE)) = {} /\ ends' = Shift(hops, TRUE)
                /\ bill' = [bill EXCEPT ![i] = "Paid"]
                /\ paid' = [paid EXCEPT ![n][i] = [status |-> "Success", amount |-> 1]]
                /\ flowed' = [flowed EXCEPT ![n][i] = @ + 1]
                /\ watch' = Told(n, i)
                /\ UNCHANGED heldBy
    /\ UNCHANGED <<links, keysent, loops, torn>>

PayStops(n, i) ==
    /\ bill[i] # "none" /\ ~Bills[i].held /\ MoreCalls
    /\ \E r \in Routes(n, Bills[i].issuer, Bills[i].asset) :
        Stops(Writes(r), Shift(ToSet(r), TRUE))
    /\ UNCHANGED bill

\* settle_invoice, whatever the status: what is held is paid out, and the
\* payer's record loses its amount.
SettleMock(i) ==
    /\ bill[i] # "none"
    /\ bill' = [bill EXCEPT ![i] = "Paid"]
    /\ \/ heldBy[i] = NotHeld /\ UNCHANGED <<ends, paid, heldBy, watch, flowed>>
       \/ /\ heldBy[i] # NotHeld
          /\ Unreadable(Shift(heldBy[i].hops, TRUE)) = {}
          /\ ends' = Shift(heldBy[i].hops, TRUE)
          /\ paid' = [paid EXCEPT ![heldBy[i].node][i] = [status |-> "Success", amount |-> 0]]
          /\ flowed' = [flowed EXCEPT ![heldBy[i].node][i] = @ + 1]
          /\ watch' = Told(heldBy[i].node, i)
          /\ heldBy' = [heldBy EXCEPT ![i] = NotHeld]
    /\ UNCHANGED <<links, keysent, loops, torn>>

\* It is Paid before the money moves.
SettleStops(i) ==
    /\ heldBy[i] # NotHeld
    /\ \E r \in SetToSeqs(heldBy[i].hops) :
        /\ \A k \in 1..(Len(r) - 1) : Reaches(r[k]) = r[k + 1][1]
        /\ Stops(Writes(r), Shift(heldBy[i].hops, TRUE))
    /\ bill' = [bill EXCEPT ![i] = "Paid"]

\* cancel_invoice, whatever the status, Paid included.
CancelMock(i) ==
    /\ bill[i] # "none"
    /\ bill' = [bill EXCEPT ![i] = "Cancelled"]
    /\ paid' = IF heldBy[i] = NotHeld THEN paid
               ELSE [paid EXCEPT ![heldBy[i].node][i] = [status |-> "Failed", amount |-> 0]]
    /\ heldBy' = [heldBy EXCEPT ![i] = NotHeld]
    /\ UNCHANGED <<links, ends, keysent, loops, watch, flowed, torn>>

\* A keysend goes over a direct channel.
Directs(n, m, a) == {c \in ListChannels(n, {m}) : Carries(n, c, a)}
Keysend(n, m, a) ==
    /\ Directs(n, m, a) # {} /\ MoreCalls
    /\ \E c \in Directs(n, m, a) :
        Unreadable(Shift({<<n, c>>}, TRUE)) = {} /\ ends' = Shift({<<n, c>>}, TRUE)
    /\ keysent' = [keysent EXCEPT ![n][m] = @ + 1]
    /\ UNCHANGED <<links, bill, paid, heldBy, loops, watch, flowed, torn>>

KeysendStops(n, m, a) ==
    /\ Directs(n, m, a) # {} /\ MoreCalls
    /\ \E c \in Directs(n, m, a) : Stops(Writes(<<<<n, c>>>>), Shift({<<n, c>>}, TRUE))
    /\ UNCHANGED bill

\* send_payment_with_router: a unit leaves by one channel and returns by
\* another, whatever they have; the ends of the peers are not told.  The caller
\* (rebalance.ts) names two.
AfterLoop(n, out, in) ==
    [ends EXCEPT ![n] = [c \in DOMAIN ends[n] |->
        LET e == ends[n][c]
        IN IF c = out THEN [e EXCEPT !.local = @ - 1, !.remote = @ + 1]
           ELSE IF c = in THEN [e EXCEPT !.local = @ + 1, !.remote = @ - 1]
           ELSE e]]
RouterPay(n, out, in) ==
    /\ out # in /\ {out, in} \subseteq DOMAIN ends[n] /\ MoreCalls
    /\ Unreadable(AfterLoop(n, out, in)) = {} /\ ends' = AfterLoop(n, out, in)
    /\ loops' = [loops EXCEPT ![n] = @ + 1]
    /\ UNCHANGED <<links, bill, paid, heldBy, keysent, watch, flowed, torn>>

RouterStops(n, out, in) ==
    /\ out # in /\ {out, in} \subseteq DOMAIN ends[n] /\ MoreCalls
    /\ Stops(OfEnd(n, out) \o OfEnd(n, in), AfterLoop(n, out, in))
    /\ UNCHANGED bill

ObserveMock(n, i) ==
    /\ <<n, i>> \in Observed /\ watch[n][i] = "no"
    /\ watch' = [watch EXCEPT ![n][i] = "yes"]
    /\ UNCHANGED <<links, ends, bill, paid, heldBy, keysent, loops, flowed, torn>>

WorldNext ==
    \/ \E e \in Meets : Connect2(e[1], e[2])
    \/ \E e \in Opens, a \in Assets, f \in Fundings : OpenMock(e[1], e[2], a, f)
    \/ \E n \in Nodes, c \in 1..MaxChannels : ShutMock(n, c)
    \/ \E i \in DOMAIN Bills : NewInvoice(i) \/ SettleMock(i) \/ SettleStops(i) \/ CancelMock(i)
    \/ \E n \in Nodes, i \in DOMAIN Bills :
          SendPayment(n, i) \/ PayStops(n, i) \/ ObserveMock(n, i)
    \/ \E n, m \in Nodes, a \in Assets : Keysend(n, m, a) \/ KeysendStops(n, m, a)
    \/ \E n \in Nodes, c, d \in 1..MaxChannels : RouterPay(n, c, d) \/ RouterStops(n, c, d)

WorldSpec == WorldInit /\ [][WorldNext]_worldVars

-----------------------------------------------------------------------------
(* Properties *)

\* How often payments of p, of some invoices, moved money; what n sent, what it
\* was paid, and what its channels began with.
Wins(p, bills) == SumFunctionOnSet(flowed[p], bills)
IssuedBy(n) == {i \in DOMAIN Bills : Bills[i].issuer = n}
Sent(n) == Wins(n, DOMAIN Bills) + SumFunction(keysent[n])
Got(n) == SumFunction([p \in Nodes |-> Wins(p, IssuedBy(n)) + keysent[p][n]])
Funded(n) == SumFunction([c \in DOMAIN ends[n] |-> ends[n][c].funded])
PaidOnce(n) == {i \in DOMAIN Bills : ~Bills[i].held /\ flowed[n][i] > 0}

\* What a node can send moves exactly with the payments: it is what was funded,
\* less what the node sent, plus what it was paid, however holds, settlements,
\* cancellations, repeated payments, closes and relayed payments interleave, as
\* long as no call stopped between its writes (liquidity(), moveAcrossRoute).
\* And the LSP's ledger counts as sent each regular invoice once, however often
\* it was paid, each keysend and each router payment, and nothing of a hold
\* invoice (summary() over the mock).
MoneyFollowsPayments ==
    \A n \in Nodes :
        /\ torn \/ SumFunction([a \in Assets |-> Liquidity(n, a).outbound])
                      = Funded(n) - Sent(n) + Got(n)
        /\ Summary(n).sent
              = Cardinality(PaidOnce(n)) + SumFunction(keysent[n]) + loops[n]

\* The nodes' records agree on a payment whatever calls come in whatever order:
\* an invoice is received exactly while a payment of it is held, or is paid when
\* a settlement stopped halfway, and that one is in flight at its payer; a payer
\* has a success, and an observer the preimage, only if its money moved, except
\* the issuer of a regular invoice, who made the preimage; and where money moved,
\* the issuer's invoice is not open any more (send_payment, settle_invoice,
\* cancel_invoice, emitPreimage).
RecordsAgree ==
    \A i \in DOMAIN Bills :
        /\ GetInvoice(i) = "Received" => heldBy[i] # NotHeld
        /\ heldBy[i] # NotHeld =>
              GetInvoice(i) = "Received" \/ (torn /\ GetInvoice(i) = "Paid")
        /\ heldBy[i] # NotHeld => GetPayment(heldBy[i].node, i) = "Inflight"
        /\ \A n \in Nodes :
              /\ GetPayment(n, i) = "Success" => flowed[n][i] > 0
              /\ watch[n][i] = "got" =>
                    flowed[n][i] > 0 \/ (n = Bills[i].issuer /\ ~Bills[i].held)
              /\ flowed[n][i] > 0 => GetInvoice(i) # "Open"

=============================================================================
