------------------------------ MODULE Rebalance ------------------------------
(***************************************************************************)
(* The circular rebalancer of the LSP: packages/lsp-server/src/rebalance.ts.*)
(*                                                                         *)
(* One pass lists the channels, picks the starved one and a donor, prices  *)
(* the loop and, when it is told to, pays itself around it.  Everything    *)
(* it decides on is what it read at the start; customers and merchants     *)
(* move the balances meanwhile.                                            *)
(***************************************************************************)
EXTENDS Integers, Sequences, SequencesExt, FiniteSets

CONSTANTS
    Channels,     \* sequence of the ready channels of the asset, as listed
    Total,        \* Total[c]: both balances of channel c
    MinLocalBps,  \* the floor
    Move,         \* args.amount
    RouteFees,    \* what a priced loop may cost on top
    MaxTraffic    \* bound on payments of others

ASSUME RebalanceAssumption == \A c \in ToSet(Channels) : Total[c] \in Nat \ {0}

VARIABLES
    local,     \* the LSP's balance in each channel
    rebalAt,   \* where the pass is
    seen,      \* the balances it listed
    starved, donor, debit,  \* its plan
    dryRun,    \* args.dryRun ?? true
    moved,     \* history: channels whose balance others changed since listed
    traffic    \* payments of others so far

rebalVars == <<local, rebalAt, seen, starved, donor, debit, dryRun, moved, traffic>>
plan == <<starved, donor, debit, dryRun>>

NoChannel == "none"
Chans == ToSet(Channels)
AboveFloor(c, balance) == balance * 10000 >= Total[c] * MinLocalBps

RebalInit ==
    /\ local \in [Chans -> {0, 2, 4}]
    /\ rebalAt = "idle" /\ seen = local
    /\ starved = NoChannel /\ donor = NoChannel /\ debit = 0 /\ dryRun = TRUE
    /\ moved = {} /\ traffic = 0

-----------------------------------------------------------------------------
(* Slips: mistakes one could make in the steps below, none of them in the   *)
(* code.                                                                    *)

\* The fees of the loop are forgotten when the donor is checked again.
AffordsAmount(c, cost) == seen[c] >= Move /\ AboveFloor(c, seen[c] - Move)

-----------------------------------------------------------------------------

\* needsRebalance: strictly below the floor; the first in the node's order.
Starving == {i \in DOMAIN Channels : ~AboveFloor(Channels[i], seen[Channels[i]])}
Starved(s) == s \in Starving /\ \A i \in Starving : s <= i
Affords(c, cost) == seen[c] >= cost /\ AboveFloor(c, seen[c] - cost)

\* donors.sort: the fullest, the first listed of equals.
Donors(s) == {d \in DOMAIN Channels :
                Channels[d] # Channels[s] /\ Affords(Channels[d], Move)}
Fullest(d, s) == \A e \in Donors(s) :
    /\ seen[Channels[e]] <= seen[Channels[d]]
    /\ seen[Channels[e]] = seen[Channels[d]] => d <= e

\* dryRun is on unless the caller passed false.
Dry(wish) == wish # "false"

\* rebalance(args): the list of the channels.
List ==
    /\ rebalAt = "idle"
    /\ seen' = local /\ moved' = {}
    /\ rebalAt' = "choosing"
    /\ \E wish \in {"absent", "true", "false"} : dryRun' = Dry(wish)
    /\ starved' = NoChannel /\ donor' = NoChannel /\ debit' = 0
    /\ UNCHANGED <<local, traffic>>

Choose ==
    /\ rebalAt = "choosing"
    /\ \/ \E s, d \in DOMAIN Channels :
             /\ Starved(s) /\ d \in Donors(s) /\ Fullest(d, s)
             /\ starved' = Channels[s] /\ donor' = Channels[d]
             /\ rebalAt' = "pricing"
       \/ /\ \A s \in DOMAIN Channels : Starved(s) => Donors(s) = {}
          /\ rebalAt' = "idle" /\ UNCHANGED <<starved, donor>>
    /\ UNCHANGED <<local, seen, debit, dryRun, moved, traffic>>

\* build_router prices the loop; the donor has to bear that too.
Price ==
    /\ rebalAt = "pricing"
    /\ \E fee \in RouteFees :
          IF Affords(donor, Move + fee)
          THEN rebalAt' = "preflight" /\ debit' = Move + fee
          ELSE rebalAt' = "idle" /\ UNCHANGED debit
    /\ UNCHANGED <<local, seen, starved, donor, dryRun, moved, traffic>>

\* The node says whether the loop can be paid; a dry run answers with that.
Preflight ==
    /\ rebalAt = "preflight"
    /\ rebalAt' = IF dryRun \/ local[donor] < debit THEN "idle" ELSE "submitting"
    /\ UNCHANGED <<local, seen, plan, moved, traffic>>

\* The loop is paid: out through the donor, back through the starved channel.
Submit ==
    /\ rebalAt = "submitting"
    /\ local' = IF local[donor] < debit \/ local[starved] + Move > Total[starved]
                THEN local
                ELSE [local EXCEPT ![donor] = @ - debit, ![starved] = @ + Move]
    /\ rebalAt' = "idle"
    /\ UNCHANGED <<seen, plan, moved, traffic>>

\* An RPC of the pass fails.
RebalFails ==
    /\ rebalAt \in {"choosing", "pricing", "preflight", "submitting"}
    /\ rebalAt' = "idle"
    /\ UNCHANGED <<local, seen, plan, moved, traffic>>

\* A payment of somebody else.
Traffic(c) ==
    /\ traffic < MaxTraffic
    /\ traffic' = traffic + 1
    /\ \E b \in {local[c] - 1, local[c] + 1} \cap (0 .. Total[c]) :
          local' = [local EXCEPT ![c] = b]
    /\ moved' = moved \cup {c}
    /\ UNCHANGED <<rebalAt, seen, plan>>

RebalNext ==
    \/ List \/ Choose \/ Price \/ Preflight \/ Submit \/ RebalFails
    \/ \E c \in Chans : Traffic(c)

RebalSpec == RebalInit /\ [][RebalNext]_rebalVars

-----------------------------------------------------------------------------
(* Properties *)

Pays == rebalAt = "submitting" /\ local' # local /\ traffic' = traffic

\* A pass never makes its donor the next starved channel, fees included, unless
\* others moved the donor's balance after it was listed: nothing is read again
\* before the payment (rebalance's priced debit).
DonorKeepsFloor ==
    [][Pays => AboveFloor(donor, local'[donor]) \/ donor \in moved]_rebalVars

=============================================================================
