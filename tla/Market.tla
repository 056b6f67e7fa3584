------------------------------- MODULE Market -------------------------------
(***************************************************************************)
(* Finding an LSP and pricing it: discoverProviders and discoverFromGraph  *)
(* (packages/registry/src), compareQuotes and bestQuote (packages/client/  *)
(* src/quotes.ts), and the fee arithmetic both sides share (packages/      *)
(* protocol/src/fee.ts, assets.ts).                                        *)
(*                                                                         *)
(* Registry rows answer in any order, operators change their prices and go *)
(* down meanwhile; the order is placed on a price that was read earlier.   *)
(***************************************************************************)
EXTENDS Integers, Sequences, SequencesExt, FiniteSets, FiniteSetsExt

CONSTANTS
    Registry,            \* sequence of [url, pubkey]: pubkey is a spelling or None
    Graph,               \* sequence of [pubkey, url, lsp, floors]: floors by asset, as
                  \* a sequence of [asset, floor]; url is resolveEndpoint's, or None
    PageSize, MaxNodes,  \* of graphNodesAll
    Infos,               \* Infos[url]: the answers that endpoint may give to /info
    Ask,                 \* [asset, amount, mode, client]: the wanted order
    RequireLsp,          \* requireLspFeature
    Norm(_)              \* the node a spelling of a public key belongs to

Down == [down |-> TRUE]
Unplaced == [unplaced |-> TRUE]
None == "none"
Urls == DOMAIN Infos

\* Prices and amounts are unsigned.
ASSUME MarketAssumption ==
    /\ Ask.amount \in Nat
    /\ \A u \in Urls : \A info \in Infos[u] :
          {info.base, info.bps, info.min, info.max} \subseteq Nat

VARIABLES
    serving,    \* what each endpoint answers now: Down or an info
    mktAt,      \* where the shopper is
    nodes,      \* graph nodes read so far
    rows,       \* graph rows still to merge
    waiting,    \* registry rows that have not answered
    directory,  \* byKey, in insertion order
    quotes,     \* by endpoint: what it answered and its fee
    best,       \* bestQuote
    ordered     \* createOrder's answer: the server's fee, or a refusal

mktVars == <<serving, mktAt, nodes, rows, waiting, directory, quotes, best, ordered>>

MarketInit ==
    /\ serving \in {s \in [Urls -> {Down} \cup UNION {Infos[u] : u \in Urls}] :
                      \A u \in Urls : s[u] \in {Down} \cup Infos[u]}
    /\ mktAt = "paging"
    /\ nodes = <<>> /\ rows = <<>>
    /\ waiting = DOMAIN Registry
    /\ directory = <<>>
    /\ quotes = [u \in {} |-> Down]
    /\ best = None /\ ordered = Unplaced

-----------------------------------------------------------------------------
(* Slips: mistakes one could make in the steps below, none of them in the   *)
(* code.                                                                    *)

\* The amount is not compared with what the offer can open.
RefusesUnbounded(info, ask) == ask.asset # info.asset \/ ask.mode \notin info.modes

-----------------------------------------------------------------------------
(* Fees and offers *)

\* computeFee: the proportional part is for CKB channels, and rounds up.
Proportional(info, amount) ==
    IF info.asset = "CKB" THEN (amount * info.bps + 9999) \div 10000 ELSE 0
ComputeFee(info, amount) == info.base + Proportional(info, amount)

\* validateOrder, in its order of refusals.
Refuses(info, ask) ==
    \/ ask.asset # info.asset
    \/ ask.amount < info.min
    \/ ask.amount > info.max
    \/ ask.mode \notin info.modes
    \/ /\ ask.mode = "from_capacity"
       /\ ask.asset # "CKB" \/ ask.client < ComputeFee(info, ask.amount)

\* quoteLease: the fee opens the channel, the stream is rent in its own asset.
QuoteLease(info, amount) ==
    [activation |-> ComputeFee(info, amount),
     rent |-> IF info.stream = 0 THEN 0 ELSE (amount * info.stream + 9999) \div 10000]

-----------------------------------------------------------------------------
(* The graph *)

\* One page; a short one, or enough nodes, ends the walk.
Page ==
    /\ mktAt = "paging"
    /\ LET page == SubSeq(Graph, Len(nodes) + 1,
                          Min({Len(nodes) + PageSize, Len(Graph)}))
           all  == nodes \o page
       IN IF Len(page) < PageSize \/ Len(all) >= MaxNodes
          THEN /\ nodes' = SubSeq(all, 1, Min({Len(all), MaxNodes}))
               /\ mktAt' = "rows"
          ELSE nodes' = all /\ UNCHANGED mktAt
    /\ UNCHANGED <<serving, rows, waiting, directory, quotes, best, ordered>>

\* A floor of zero offers no CKB; a floor above the amount is no use.
Offers(entry) ==
    LET fits(f) == /\ f.asset = Ask.asset
                   /\ f.floor <= Ask.amount
                   /\ f.asset = "CKB" => f.floor > 0
        found == SelectSeq(entry.floors, fits)
    IN [i \in DOMAIN found |->
          [pubkey |-> entry.pubkey, url |-> entry.url, lsp |-> entry.lsp,
           asset |-> found[i].asset, floor |-> found[i].floor]]

GraphRows ==
    /\ mktAt = "rows"
    /\ rows' = FoldLeft(LAMBDA acc, n : acc \o Offers(n), <<>>,
                        SelectSeq(nodes, LAMBDA n : RequireLsp => n.lsp))
    /\ mktAt' = "asking"
    /\ UNCHANGED <<serving, nodes, waiting, directory, quotes, best, ordered>>

-----------------------------------------------------------------------------
(* discoverProviders *)

\* normPubkey, or the endpoint where no key is known.
Key(pubkey, url) == IF pubkey # None THEN Norm(pubkey) ELSE url
At(key) == {i \in DOMAIN directory : directory[i].key = key}
PutRow(entry) == IF At(entry.key) = {} THEN Append(directory, entry)
              ELSE [directory EXCEPT ![CHOOSE i \in At(entry.key) : TRUE] = entry]

\* A registry row is resolved by its own answer, in whatever order they come;
\* of two rows with one key the later answer stands.
RegistryAnswers(r) ==
    /\ mktAt = "asking" /\ r \in waiting
    /\ LET row    == Registry[r]
           info   == serving[row.url]
           pubkey == IF info # Down THEN info.pubkey ELSE row.pubkey
       IN directory' = PutRow([key |-> Key(pubkey, row.url), pubkey |-> pubkey,
                            url |-> row.url, sources |-> {"registry"},
                            floor |-> <<>>, lsp |-> FALSE, reachable |-> info # Down])
    /\ waiting' = waiting \ {r}
    /\ UNCHANGED <<serving, mktAt, nodes, rows, quotes, best, ordered>>

\* Graph rows are merged one after the other once every registry row answered:
\* an entry keeps its endpoint and the floor of its first row.
Merged(entry, g) ==
    [entry EXCEPT !.sources = @ \cup {"graph"}, !.lsp = g.lsp,
                  !.floor = IF @ = <<>> THEN <<g.floor>> ELSE @]
Merge ==
    /\ mktAt = "asking" /\ waiting = {} /\ rows # <<>>
    /\ LET g   == Head(rows)
           key == Key(g.pubkey, g.url)
           up  == g.url # None /\ serving[g.url] # Down
       IN directory' =
            IF At(key) = {}
            THEN PutRow([key |-> key, pubkey |-> g.pubkey, url |-> g.url,
                      sources |-> {"graph"}, floor |-> <<g.floor>>,
                      lsp |-> g.lsp, reachable |-> up])
            ELSE [directory EXCEPT ![CHOOSE i \in At(key) : TRUE] = Merged(@, g)]
    /\ rows' = Tail(rows)
    /\ UNCHANGED <<serving, mktAt, nodes, waiting, quotes, best, ordered>>

\* orderableReachableFirst; the sort is stable.
Rank(p) == IF p.url = None THEN 2 ELSE IF p.reachable THEN 0 ELSE 1
InOrder(i, j) == \/ Rank(directory[i]) < Rank(directory[j])
                 \/ Rank(directory[i]) = Rank(directory[j]) /\ i < j
Ranked ==
    /\ mktAt = "asking" /\ waiting = {} /\ rows = <<>>
    /\ \E f \in Bijection(DOMAIN directory, DOMAIN directory) :
          /\ \A i, j \in DOMAIN directory : i < j => InOrder(f[i], f[j])
          /\ directory' = [i \in DOMAIN directory |-> directory[f[i]]]
    /\ mktAt' = "quoting"
    /\ UNCHANGED <<serving, nodes, rows, waiting, quotes, best, ordered>>

-----------------------------------------------------------------------------
(* compareQuotes *)

Endpoints == {directory[i].url : i \in DOMAIN directory} \ {None}

\* quoteFromProvider: asks again; its quote is on what it hears now.
Quoted(u) ==
    /\ mktAt = "quoting" /\ u \in Endpoints \ DOMAIN quotes
    /\ quotes' = [v \in DOMAIN quotes \cup {u} |->
          IF v # u THEN quotes[v]
          ELSE IF serving[u] = Down \/ Refuses(serving[u], Ask) THEN Down
          ELSE [info |-> serving[u], lease |-> QuoteLease(serving[u], Ask.amount)]]
    /\ UNCHANGED <<serving, mktAt, nodes, rows, waiting, directory, best, ordered>>

Fee(u) == quotes[u].lease.activation
Servable == {u \in DOMAIN quotes : quotes[u] # Down}
Cheaper(a, b) == Fee(a) < Fee(b)

\* bestQuote: cheapestServableFirst is stable, the first of equals wins.
BestQuote ==
    /\ mktAt = "quoting" /\ Endpoints \subseteq DOMAIN quotes
    /\ IF Servable = {} THEN mktAt' = "done" /\ UNCHANGED best
       ELSE /\ mktAt' = "buying"
            /\ LET cheapest == {u \in Servable : ~\E v \in Servable : Cheaper(v, u)}
                   place(u) == Min({i \in DOMAIN directory : directory[i].url = u})
               IN \E u \in cheapest : /\ \A v \in cheapest : place(u) <= place(v)
                                      /\ best' = u
    /\ UNCHANGED <<serving, nodes, rows, waiting, directory, quotes, ordered>>

\* createOrder at the chosen endpoint: the server prices and validates again.
Order ==
    /\ mktAt = "buying"
    /\ ordered' = IF serving[best] = Down THEN Down
                  ELSE IF Refuses(serving[best], Ask) THEN [refused |-> serving[best]]
                  ELSE [info |-> serving[best], fee |-> ComputeFee(serving[best], Ask.amount)]
    /\ mktAt' = "done"
    /\ UNCHANGED <<serving, nodes, rows, waiting, directory, quotes, best>>

\* An operator changes its offer, goes down, or comes back.
Operator(u) ==
    /\ mktAt # "done"
    /\ \E s \in ({Down} \cup Infos[u]) \ {serving[u]} : serving' = [serving EXCEPT ![u] = s]
    /\ UNCHANGED <<mktAt, nodes, rows, waiting, directory, quotes, best, ordered>>

MarketNext ==
    \/ Page \/ GraphRows \/ Merge \/ Ranked \/ BestQuote \/ Order
    \/ \E r \in DOMAIN Registry : RegistryAnswers(r)
    \/ \E u \in Urls : Quoted(u) \/ Operator(u)

MarketSpec == MarketInit /\ [][MarketNext]_mktVars

-----------------------------------------------------------------------------
(* Properties *)

\* A node whose key is known is listed once, however its sources spell the key
\* (discoverProviders' byKey), and the chosen offer opens the wanted channel,
\* costs the buyer no more than any other that answered, and is what the server
\* charges at order time unless it changed its offer after it was asked
\* (bestQuote, quoteFee, createOrder).
BestIsCheapest ==
    /\ \A i, j \in DOMAIN directory :
          /\ directory[i].pubkey # None /\ directory[j].pubkey # None
          /\ Norm(directory[i].pubkey) = Norm(directory[j].pubkey)
          => i = j
    /\ best # None =>
        /\ quotes[best] # Down
        /\ \A u \in Servable : Fee(best) <= Fee(u)
        /\ Ask.amount \in quotes[best].info.min .. quotes[best].info.max
        /\ ordered \notin {Unplaced, Down} =>
              IF "refused" \in DOMAIN ordered
              THEN ordered.refused # quotes[best].info
              ELSE ordered.info = quotes[best].info => ordered.fee = Fee(best)

=============================================================================
