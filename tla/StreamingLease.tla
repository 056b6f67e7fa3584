--------------------------- MODULE StreamingLease ---------------------------
(***************************************************************************)
(* Rent for an inbound channel: StreamingLease of the merchant's SDK       *)
(* (packages/client/src/StreamingLease.ts) and closeLease of the LSP       *)
(* (packages/lsp-server/src/leaseClose.ts).                                *)
(*                                                                         *)
(* payDue() is one pass: price the live inbound, dry-run, keysend, poll.   *)
(* The loop of start() and calls by hand may overlap.  A pass that stops   *)
(* waiting leaves its keysend with the node, which may still confirm it.   *)
(***************************************************************************)
EXTENDS Integers, FiniteSets, Functions

CONSTANTS
    Passes, Loop,            \* callers of payDue; Loop is start()'s
    Capacity, RateBps, Grace,  \* LeaseTerms
    Attempts,                \* the poll budget of a keysend
    Funds, Inbound,          \* the leased channel at the start
    MaxPeriods, MaxSales     \* bounds on passes, and on customers' payments

ASSUME LeaseAssumption ==
    /\ Loop \in Passes /\ Grace \in Nat /\ MaxPeriods \in Nat
    /\ Capacity \in Nat /\ RateBps \in Nat /\ Inbound \in Nat

VARIABLES
    mine, inbound,   \* the leased channel: merchant's side, LSP's side
    leased, beside,  \* the leased channel, another of the asset: ready or not
    sales,           \* payments of customers so far
    period,          \* _period
    leaseAt, mypass,      \* where each caller is, and the period of its pass
    owed,            \* amount, by period
    polls,           \* polls left to each caller
    rentSent,            \* keysends at the node, by period
    total, misses, lapsed,   \* _totalPaid, _consecutiveMisses, _lapsed
    running,         \* the loop has not been stopped
    closing,         \* channels closeLease has listed and not yet closed
    outcome, since   \* history: end of each period; misses after the last paid

channel == <<mine, inbound, leased, beside, sales, closing>>
rentBook == <<total, misses, lapsed, outcome, since>>
leaseVars == <<mine, inbound, leased, beside, sales, period, leaseAt, mypass, owed,
               polls, rentSent, total, misses, lapsed, running, closing, outcome, since>>

Periods == 1 .. MaxPeriods
RentPerPeriod(capacity) == (capacity * RateBps + 9999) \div 10000
RentBase == IF inbound < Capacity THEN inbound ELSE Capacity

LeaseInit ==
    /\ mine = Funds /\ inbound = Inbound
    /\ leased = "ready" /\ beside = "ready"
    /\ sales = 0
    /\ period = 0
    /\ leaseAt = [p \in Passes |-> "idle"]
    /\ mypass = [p \in Passes |-> 1]
    /\ owed = [k \in Periods |-> 0]
    /\ polls = [p \in Passes |-> 0]
    /\ rentSent = [k \in Periods |-> "none"]
    /\ total = 0 /\ misses = 0 /\ lapsed = FALSE
    /\ running = TRUE
    /\ closing = {}
    /\ outcome = [k \in Periods |-> "none"]
    /\ since = {}

-----------------------------------------------------------------------------
(* Slips: mistakes one could make in the steps below, none of them in the   *)
(* code.                                                                    *)

\* A payment in flight when the polls are used up counts as paid.
TimedOutTrusting(p) ==
    /\ leaseAt' = [leaseAt EXCEPT ![p] = "idle"]
    /\ total' = total + owed[mypass[p]] /\ misses' = 0
    /\ outcome' = [outcome EXCEPT ![mypass[p]] = "paid"] /\ since' = {}
    /\ UNCHANGED lapsed

\* A paid period does not end the run of misses.
PaidKeepsMisses(p) ==
    /\ total' = total + owed'[mypass[p]]
    /\ outcome' = [outcome EXCEPT ![mypass[p]] = "paid"] /\ since' = {}
    /\ leaseAt' = [leaseAt EXCEPT ![p] = "idle"]
    /\ UNCHANGED <<misses, lapsed>>

\* A paid period adds what was quoted for the lease.
PaidAsQuoted(p) ==
    /\ total' = total + RentPerPeriod(Capacity) /\ misses' = 0
    /\ outcome' = [outcome EXCEPT ![mypass[p]] = "paid"] /\ since' = {}
    /\ leaseAt' = [leaseAt EXCEPT ![p] = "idle"]
    /\ UNCHANGED lapsed

-----------------------------------------------------------------------------
(* The merchant *)

PayDue(p) ==
    /\ leaseAt[p] = "idle"
    /\ period < MaxPeriods
    /\ p = Loop => running
    /\ period' = period + 1
    /\ mypass' = [mypass EXCEPT ![p] = period']
    /\ leaseAt' = [leaseAt EXCEPT ![p] = "reading"]
    /\ UNCHANGED <<channel, owed, polls, rentSent, rentBook, running>>

\* recordPaid
Paid(p) ==
    /\ total' = total + owed'[mypass[p]] /\ misses' = 0
    /\ outcome' = [outcome EXCEPT ![mypass[p]] = "paid"] /\ since' = {}
    /\ leaseAt' = [leaseAt EXCEPT ![p] = "idle"]
    /\ UNCHANGED lapsed

\* skip(reason): a miss, and the lapse once there are more than the grace
\* allows.  A pass that skips with a keysend not known to have failed is late.
Skip(p, way) ==
    /\ misses' = misses + 1
    /\ lapsed' = (lapsed \/ misses' > Grace)
    /\ outcome' = [outcome EXCEPT ![mypass[p]] = way]
    /\ since' = since \cup {mypass[p]}
    /\ leaseAt' = [leaseAt EXCEPT ![p] = "idle"]
    /\ UNCHANGED total

TimedOut(p) == Skip(p, "late")

\* An RPC of the pass fails; a send may have reached the node first.
PassFails(p) ==
    /\ leaseAt[p] \in {"reading", "dry", "sending", "polling"}
    /\ Skip(p, IF rentSent[mypass[p]] = "none" THEN "missed" ELSE "late")
    /\ UNCHANGED <<channel, period, mypass, owed, polls, rentSent, running>>

\* currentRent: the leased channel, live; nothing exposed is paid for free.
RentRead(p) ==
    /\ leaseAt[p] = "reading"
    /\ IF leased # "ready"
       THEN Skip(p, "missed") /\ UNCHANGED owed
       ELSE /\ owed' = [owed EXCEPT ![mypass[p]] = RentPerPeriod(RentBase)]
            /\ IF owed'[mypass[p]] = 0
               THEN Paid(p)
               ELSE leaseAt' = [leaseAt EXCEPT ![p] = "dry"] /\ UNCHANGED rentBook
    /\ UNCHANGED <<channel, period, mypass, polls, rentSent, running>>

Payable(p) == leased = "ready" /\ mine >= owed[mypass[p]]

DryRun(p) ==
    /\ leaseAt[p] = "dry"
    /\ IF Payable(p)
       THEN leaseAt' = [leaseAt EXCEPT ![p] = "sending"] /\ UNCHANGED rentBook
       ELSE Skip(p, "missed")
    /\ UNCHANGED <<channel, period, mypass, owed, polls, rentSent, running>>

\* The keysend: refused if the money has gone since, else with the node.
Send(p) ==
    /\ leaseAt[p] = "sending"
    /\ rentSent[mypass[p]] = "none"
    /\ IF Payable(p)
       THEN /\ rentSent' = [rentSent EXCEPT ![mypass[p]] = "Inflight"]
            /\ mine' = mine - owed[mypass[p]]
            /\ leaseAt' = [leaseAt EXCEPT ![p] = "polling"]
            /\ polls' = [polls EXCEPT ![p] = Attempts]
            /\ UNCHANGED rentBook
       ELSE Skip(p, "missed") /\ UNCHANGED <<rentSent, mine, polls>>
    /\ UNCHANGED <<inbound, leased, beside, sales, closing, period, mypass, owed,
                   running>>

\* The answer of sendPayment and each getPayment after it.
Poll(p) ==
    /\ leaseAt[p] = "polling"
    /\ UNCHANGED <<channel, period, mypass, owed, rentSent, running>>
    /\ \/ rentSent[mypass[p]] = "Success" /\ Paid(p) /\ UNCHANGED polls
       \/ rentSent[mypass[p]] = "Failed" /\ Skip(p, "missed") /\ UNCHANGED polls
       \/ /\ rentSent[mypass[p]] = "Inflight" /\ polls[p] = 0
          /\ TimedOut(p) /\ UNCHANGED polls
       \/ /\ rentSent[mypass[p]] = "Inflight" /\ polls[p] > 0
          /\ polls' = [polls EXCEPT ![p] = @ - 1]
          /\ UNCHANGED <<leaseAt, rentBook>>

Stop ==
    /\ running /\ running' = FALSE
    /\ UNCHANGED <<channel, period, leaseAt, mypass, owed, polls, rentSent, rentBook>>

-----------------------------------------------------------------------------
(* The network, the customers and the LSP *)

\* The node ends a keysend, whoever still waits for it.
KeysendEnds(k) ==
    /\ rentSent[k] = "Inflight"
    /\ \/ /\ rentSent' = [rentSent EXCEPT ![k] = "Success"]
          /\ inbound' = inbound + owed[k] /\ UNCHANGED mine
       \/ /\ rentSent' = [rentSent EXCEPT ![k] = "Failed"]
          /\ mine' = mine + owed[k] /\ UNCHANGED inbound
    /\ UNCHANGED <<leased, beside, sales, closing, period, leaseAt, mypass, owed,
                   polls, rentBook, running>>

Sale ==
    /\ sales < MaxSales /\ inbound > 0 /\ leased = "ready"
    /\ sales' = sales + 1
    /\ inbound' = inbound - 1 /\ mine' = mine + 1
    /\ UNCHANGED <<leased, beside, closing, period, leaseAt, mypass, owed, polls,
                   rentSent, rentBook, running>>

\* closeLease lists what is ready towards the merchant in the asset, ...
CloseLease ==
    /\ lapsed
    /\ closing = {}
    /\ {leased, beside} \cap {"ready"} # {}
    /\ closing' = {c \in {"leased", "beside"} :
                      (IF c = "leased" THEN leased ELSE beside) = "ready"}
    /\ UNCHANGED <<mine, inbound, leased, beside, sales, period, leaseAt, mypass, owed,
                   polls, rentSent, rentBook, running>>

\* ... and shuts the channels down one by one; a failure leaves the rest.
Shutdown ==
    /\ closing # {}
    /\ \/ /\ "leased" \in closing
          /\ leased' = "closed" /\ closing' = closing \ {"leased"} /\ UNCHANGED beside
       \/ /\ closing = {"beside"}
          /\ beside' = "closed" /\ closing' = {} /\ UNCHANGED leased
       \/ closing' = {} /\ UNCHANGED <<leased, beside>>
    /\ UNCHANGED <<mine, inbound, sales, period, leaseAt, mypass, owed, polls,
                   rentSent, rentBook, running>>

LeaseNext ==
    \/ \E p \in Passes :
          \/ PayDue(p) \/ PassFails(p)
          \/ RentRead(p) \/ DryRun(p) \/ Send(p) \/ Poll(p)
    \/ \E k \in Periods : KeysendEnds(k)
    \/ Stop \/ Sale \/ CloseLease \/ Shutdown

LeaseSpec == LeaseInit /\ [][LeaseNext]_leaseVars

-----------------------------------------------------------------------------
(* Properties *)

\* A period recorded as paid is one the node did pay; rent that reached the LSP
\* uncounted is rent whose pass had stopped waiting, or has not looked yet
\* (payDue's poll budget).  No period costs more than the rent first quoted,
\* however far the channel's balance has moved past what was leased
\* (currentRent).  And totalPaid is the rent of the periods recorded as paid, each
\* at what it was owed when it was read (recordPaid).
PaidPeriods == {k \in Periods : outcome[k] = "paid"}
RentAccounted ==
    /\ \A k \in Periods :
          /\ owed[k] <= RentPerPeriod(Capacity)
          /\ outcome[k] = "paid" => rentSent[k] = "Success" \/ owed[k] = 0
          /\ rentSent[k] = "Success" => outcome[k] \in {"paid", "late", "none"}
    /\ total = SumFunctionOnSet(owed, PaidPeriods)

\* The lease lapses only after more periods than the grace in a row went
\* unrecorded, and none of those was paid by the node before its pass gave up.
LapseIsDue ==
    [][lapsed' # lapsed =>
          /\ lapsed'
          /\ Cardinality(since') > Grace
          /\ \A k \in since' : rentSent[k] = "Success" => outcome'[k] = "late"]_leaseVars

=============================================================================
