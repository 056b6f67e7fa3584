---------------------------- MODULE ClientProofs ----------------------------
(***************************************************************************)
(* The theorems about a merchant's side of an order: the market it shops   *)
(* in, its checkout with the ledger, and the rent it streams.  They share  *)
(* no state; each part below has its inductive invariant, one proof per    *)
(* action, and its theorems.                                               *)
(***************************************************************************)
EXTENDS Market, Checkout, StreamingLease, SumProofs,
        SequenceTheorems, FiniteSetTheorems, TLAPS

-----------------------------------------------------------------------------
(* The market                                                               *)

\* The directory is a sequence with one row of each key, and a key that is known
\* is normalised.
Keyed(e) ==
    /\ {"key", "pubkey"} \subseteq DOMAIN e
    /\ e.pubkey # None => e.key = Norm(e.pubkey)
Entries == {directory[i] : i \in DOMAIN directory}
OneRowEach ==
    /\ directory \in Seq(Entries)
    /\ \A i, j \in DOMAIN directory : directory[i].key = directory[j].key => i = j
    /\ \A i \in DOMAIN directory : Keyed(directory[i])

\* An endpoint serves one of its answers; ...
Offered == UNION {Infos[u] : u \in Urls}
Serves ==
    /\ serving = [u \in Urls |-> serving[u]]
    /\ \A u \in Urls : serving[u] \in {Down} \cup Infos[u]

\* ... a quote is on an answer of its endpoint that fits the order; ...
QuotesFit ==
    /\ quotes = [u \in DOMAIN quotes |-> quotes[u]] /\ DOMAIN quotes \subseteq Urls
    /\ \A u \in Servable :
          \E info \in Infos[u] :
             ~Refuses(info, Ask)
             /\ quotes[u] = [info |-> info, lease |-> QuoteLease(info, Ask.amount)]

\* ... the best one was chosen when all were there, and the order is placed last.
ChosenLast ==
    /\ mktAt \in {"paging", "rows", "asking", "quoting", "buying", "done"}
    /\ mktAt = "buying" => best \in Servable
    /\ best # None => /\ mktAt \in {"buying", "done"} /\ best \in Servable
                      /\ \A u \in Servable : ~Cheaper(u, best)
    /\ mktAt # "done" => ordered = Unplaced
    /\ \/ ordered \in {Unplaced, Down}
       \/ \E s \in Offered : ordered = [refused |-> s] /\ Refuses(s, Ask)
       \/ \E s \in Offered : ordered = [info |-> s, fee |-> ComputeFee(s, Ask.amount)]

MarketInv == OneRowEach /\ Serves /\ QuotesFit /\ ChosenLast

-----------------------------------------------------------------------------

\* No quote has been asked for yet.
LEMMA MarketInvInit == MarketInit => MarketInv
<1> SUFFICES ASSUME MarketInit PROVE MarketInv
  OBVIOUS
<1>1. OneRowEach
  BY EmptySeq DEF MarketInit, OneRowEach, Entries
<1>2. Serves
  <2>1. /\ serving \in [Urls -> {Down} \cup UNION {Infos[u] : u \in Urls}]
        /\ \A u \in Urls : serving[u] \in {Down} \cup Infos[u]
    BY DEF MarketInit
  <2> QED
    BY <2>1 DEF Serves
<1>3. QuotesFit
  <2>1. quotes = [u \in {} |-> Down] /\ DOMAIN quotes = {}
    BY DEF MarketInit
  <2> QED
    BY <2>1 DEF QuotesFit, Servable
<1>4. ChosenLast
  BY DEF MarketInit, ChosenLast
<1> QED
  BY <1>1, <1>2, <1>3, <1>4 DEF MarketInv

\* A row written, or one of a key that is there already replaced.
LEMMA PutKeepsOne ==
    ASSUME OneRowEach, NEW e, Keyed(e),
           \/ At(e.key) = {} /\ directory' = Append(directory, e)
           \/ \E i \in At(e.key) : directory' = [directory EXCEPT ![i] = e]
    PROVE  OneRowEach'
<1> DEFINE S == Entries \cup {e}
<1>1. directory \in Seq(Entries) /\ directory \in Seq(S) /\ e \in S
  BY SeqMonotonic DEF OneRowEach
<1> HIDE DEF S
<1>2. Len(directory) \in Nat /\ DOMAIN directory = 1 .. Len(directory)
  BY <1>1, LenProperties
<1>3. directory' \in Seq(S) =>
         Len(directory') \in Nat /\ DOMAIN directory' = 1 .. Len(directory')
         /\ directory' \in Seq(Entries')
  <2> SUFFICES ASSUME directory' \in Seq(S)
               PROVE  Len(directory') \in Nat /\ DOMAIN directory' = 1 .. Len(directory')
                      /\ directory' \in Seq(Entries')
    OBVIOUS
  <2>1. /\ Len(directory') \in Nat /\ directory' \in [1 .. Len(directory') -> S]
        /\ DOMAIN directory' = 1 .. Len(directory')
    BY LenProperties
  <2>2. directory' \in [1 .. Len(directory') -> Entries']
    BY <2>1 DEF Entries
  <2>3. directory' \in UNION {[1..n -> Entries'] : n \in Nat}
    BY <2>1, <2>2
  <2> QED
    BY <2>1, <2>3, SeqDef
<1>4. CASE At(e.key) = {} /\ directory' = Append(directory, e)
  <2>1. /\ directory' \in Seq(S) /\ Len(directory') = Len(directory) + 1
        /\ directory'[Len(directory) + 1] = e
        /\ \A i \in 1 .. Len(directory) : directory'[i] = directory[i]
    BY <1>1, <1>2, <1>4, AppendProperties
  <2>2. \A i \in 1 .. Len(directory) : directory[i].key # e.key
    BY <1>2, <1>4 DEF At
  <2>3. DOMAIN directory' = 1 .. Len(directory')
    BY Zenon, <1>3, <2>1
  <2>4. \A i \in DOMAIN directory' : i \in 1 .. Len(directory) \/ i = Len(directory) + 1
    <3>1. PICK n \in Nat : n = Len(directory)
      BY <1>2
    <3>2. DOMAIN directory' = 1 .. n + 1
      BY <2>1, <2>3, <3>1
    <3>3. \A i \in 1 .. n + 1 : i \in 1 .. n \/ i = n + 1
      OBVIOUS
    <3> QED
      BY <3>1, <3>2, <3>3
  <2>5. \A i \in DOMAIN directory' : Keyed(directory'[i])
    BY <1>2, <2>1, <2>4 DEF OneRowEach
  <2>6. \A i, j \in DOMAIN directory' : directory'[i].key = directory'[j].key => i = j
    <3>1. \A i, j \in 1 .. Len(directory) :
             directory'[i].key = directory'[j].key => i = j
      BY <1>2, <2>1 DEF OneRowEach
    <3>2. \A i \in 1 .. Len(directory) :
             directory'[i].key # directory'[Len(directory) + 1].key
      BY <2>1, <2>2
    <3> QED
      BY <2>4, <3>1, <3>2
  <2> QED
    BY Zenon, <1>3, <2>1, <2>5, <2>6 DEF OneRowEach
<1>5. ASSUME NEW i \in At(e.key), directory' = [directory EXCEPT ![i] = e]
      PROVE  OneRowEach'
  <2>1. i \in 1 .. Len(directory) /\ directory[i].key = e.key
    BY <1>2 DEF At
  <2>2. /\ directory' \in Seq(S) /\ Len(directory') = Len(directory)
        /\ \A j \in 1 .. Len(directory) : directory'[j] = IF j = i THEN e ELSE directory[j]
    BY <1>1, <1>5, <2>1, ExceptSeq
  <2>3. DOMAIN directory' = 1 .. Len(directory)
    <3>1. DOMAIN directory' = 1 .. Len(directory')
      BY Zenon, <1>3, <2>2
    <3> QED
      BY <2>2, <3>1
  <2>4. \A j \in 1 .. Len(directory) : directory'[j].key = directory[j].key
    BY <2>1, <2>2
  <2>5. \A j \in DOMAIN directory' : Keyed(directory'[j])
    BY <1>2, <2>2, <2>3 DEF OneRowEach
  <2>6. \A j, k \in DOMAIN directory' : directory'[j].key = directory'[k].key => j = k
    BY <1>2, <2>3, <2>4 DEF OneRowEach
  <2> QED
    BY Zenon, <1>3, <2>2, <2>5, <2>6 DEF OneRowEach
<1> QED
  BY <1>4, <1>5

\* What only depends on what a step leaves alone.
LEMMA QuotesFrame ==
    ASSUME QuotesFit, ChosenLast, UNCHANGED <<quotes, best, ordered>>,
           mktAt' \in {"paging", "rows", "asking", "quoting", "buying", "done"},
           \/ mktAt' = mktAt
           \/ best = None /\ mktAt # "done" /\ mktAt' # "buying"
    PROVE  QuotesFit' /\ ChosenLast'
<1>1. Servable' = Servable /\ \A u, v : Cheaper(u, v)' = Cheaper(u, v)
  BY DEF Servable, Cheaper, Fee
<1> QED
  BY <1>1 DEF QuotesFit, ChosenLast, Servable, Cheaper, Fee

\* Registries, node, operators and the merchant keep what the choice rests on.
LEMMA MarketInvStep == MarketInv /\ [MarketNext]_mktVars => MarketInv'
<1> SUFFICES ASSUME MarketInv, [MarketNext]_mktVars PROVE MarketInv'
  OBVIOUS
<1>1. OneRowEach /\ Serves /\ QuotesFit /\ ChosenLast
  BY DEF MarketInv
<1>2. mktAt \notin {"buying", "done"} => best = None
  BY <1>1 DEF ChosenLast
<1>3. ASSUME UNCHANGED directory PROVE OneRowEach'
  BY <1>1, <1>3 DEF OneRowEach, Entries
<1>4. ASSUME UNCHANGED serving PROVE Serves'
  BY <1>1, <1>4 DEF Serves
<1>5. CASE Page
  <2>1. /\ UNCHANGED <<serving, directory, quotes, best, ordered>>
        /\ mktAt = "paging" /\ mktAt' \in {"paging", "rows"}
    BY <1>5 DEF Page
  <2>2. QuotesFit' /\ ChosenLast'
    BY <1>1, <1>2, <2>1, QuotesFrame
  <2> QED
    BY <1>3, <1>4, <2>1, <2>2 DEF MarketInv
<1>6. CASE GraphRows
  <2>1. /\ UNCHANGED <<serving, directory, quotes, best, ordered>>
        /\ mktAt = "rows" /\ mktAt' = "asking"
    BY <1>6 DEF GraphRows
  <2>2. QuotesFit' /\ ChosenLast'
    BY <1>1, <1>2, <2>1, QuotesFrame
  <2> QED
    BY <1>3, <1>4, <2>1, <2>2 DEF MarketInv
<1>7. ASSUME NEW r \in DOMAIN Registry, RegistryAnswers(r) PROVE MarketInv'
  <2>1. UNCHANGED <<serving, mktAt, quotes, best, ordered>>
    BY <1>7 DEF RegistryAnswers
  <2>2. PICK pk, fl : directory' =
           PutRow([key |-> Key(pk, Registry[r].url), pubkey |-> pk,
                   url |-> Registry[r].url, sources |-> {"registry"},
                   floor |-> <<>>, lsp |-> FALSE, reachable |-> fl])
    BY <1>7 DEF RegistryAnswers
  <2> DEFINE e == [key |-> Key(pk, Registry[r].url), pubkey |-> pk,
                   url |-> Registry[r].url, sources |-> {"registry"},
                   floor |-> <<>>, lsp |-> FALSE, reachable |-> fl]
  <2>3. Keyed(e)
    BY DEF Key, Keyed
  <2>4. directory' = PutRow(e)
    BY <2>2
  <2> HIDE DEF e
  <2>5. OneRowEach'
    BY <1>1, <2>3, <2>4, PutKeepsOne DEF PutRow
  <2>6. QuotesFit' /\ ChosenLast'
    BY <1>1, <2>1, QuotesFrame DEF ChosenLast
  <2> QED
    BY <1>4, <2>1, <2>5, <2>6 DEF MarketInv
<1>8. CASE Merge
  <2> DEFINE g == Head(rows)
             key == Key(g.pubkey, g.url)
  <2>1. UNCHANGED <<serving, mktAt, quotes, best, ordered>>
    BY <1>8 DEF Merge
  <2>2. OneRowEach'
    <3>1. CASE At(key) = {}
      <4>1. PICK up : directory' = PutRow([key |-> key, pubkey |-> g.pubkey, url |-> g.url,
                      sources |-> {"graph"}, floor |-> <<g.floor>>,
                      lsp |-> g.lsp, reachable |-> up])
        BY <1>8, <3>1 DEF Merge
      <4> DEFINE e == [key |-> key, pubkey |-> g.pubkey, url |-> g.url,
                      sources |-> {"graph"}, floor |-> <<g.floor>>,
                      lsp |-> g.lsp, reachable |-> up]
      <4>2. Keyed(e)
        BY DEF Key, Keyed
      <4>3. directory' = PutRow(e)
        BY <4>1
      <4> HIDE DEF e
      <4> QED
        BY <1>1, <4>2, <4>3, PutKeepsOne DEF PutRow
    <3>2. CASE At(key) # {}
      <4> DEFINE i == CHOOSE i \in At(key) : TRUE
                 e == Merged(directory[i], g)
      <4>1. i \in At(key)
        BY <3>2
      <4>2. directory' = [directory EXCEPT ![i] = e]
        BY <1>8, <3>2 DEF Merge
      <4>3. directory[i].key = key /\ Keyed(directory[i])
        BY <1>1, <4>1 DEF At, OneRowEach
      <4>4. e.key = directory[i].key /\ e.pubkey = directory[i].pubkey
            /\ DOMAIN e = DOMAIN directory[i]
        BY <4>3 DEF Keyed, Merged
      <4> HIDE DEF i, e, key
      <4>5. Keyed(e)
        BY <4>3, <4>4 DEF Keyed
      <4>6. i \in At(e.key)
        BY <4>1, <4>3, <4>4
      <4> QED
        BY <1>1, <4>2, <4>5, <4>6, PutKeepsOne
    <3> QED
      BY <3>1, <3>2
  <2>3. QuotesFit' /\ ChosenLast'
    BY <1>1, <2>1, QuotesFrame DEF ChosenLast
  <2> QED
    BY <1>4, <2>1, <2>2, <2>3 DEF MarketInv
<1>9. CASE Ranked
  <2>1. /\ UNCHANGED <<serving, quotes, best, ordered>>
        /\ mktAt = "asking" /\ mktAt' = "quoting"
    BY <1>9 DEF Ranked
  <2>2. PICK f \in [DOMAIN directory -> DOMAIN directory] :
           /\ \A i, j \in DOMAIN directory : f[i] = f[j] => i = j
           /\ directory' = [i \in DOMAIN directory |-> directory[f[i]]]
    BY <1>9 DEF Ranked, Bijection, Injection, IsInjective
  <2>3. directory \in Seq(Entries) /\ Len(directory) \in Nat
        /\ DOMAIN directory = 1 .. Len(directory)
    BY <1>1, LenProperties DEF OneRowEach
  <2>4. DOMAIN directory' = DOMAIN directory
        /\ \A i \in DOMAIN directory : directory'[i] = directory[f[i]]
    BY <2>2
  <2>5. directory' \in Seq(Entries')
    <3>1. directory' \in [1 .. Len(directory) -> Entries']
      BY <2>2, <2>3, <2>4 DEF Entries
    <3>2. directory' \in UNION {[1..n -> Entries'] : n \in Nat}
      BY <2>3, <3>1
    <3> QED
      BY <3>2, SeqDef
  <2>6. OneRowEach'
    BY <1>1, <2>2, <2>4, <2>5 DEF OneRowEach
  <2>7. QuotesFit' /\ ChosenLast'
    BY <1>1, <1>2, <2>1, QuotesFrame
  <2> QED
    BY <1>4, <2>1, <2>6, <2>7 DEF MarketInv
<1>10. ASSUME NEW u \in Urls, Quoted(u) PROVE MarketInv'
  <2>1. /\ mktAt = "quoting" /\ u \notin DOMAIN quotes
        /\ UNCHANGED <<serving, mktAt, directory, best, ordered>>
    BY <1>10 DEF Quoted
  <2> DEFINE q == IF serving[u] = Down \/ Refuses(serving[u], Ask) THEN Down
                  ELSE [info |-> serving[u], lease |-> QuoteLease(serving[u], Ask.amount)]
  <2>2. quotes' = [v \in DOMAIN quotes \cup {u} |-> IF v # u THEN quotes[v] ELSE q]
    BY <1>10 DEF Quoted
  <2>3. q # Down => /\ serving[u] \in Infos[u] /\ ~Refuses(serving[u], Ask)
                    /\ q = [info |-> serving[u], lease |-> QuoteLease(serving[u], Ask.amount)]
    BY <1>1 DEF Serves
  <2> HIDE DEF q
  <2>4. /\ DOMAIN quotes' = DOMAIN quotes \cup {u} /\ quotes'[u] = q
        /\ \A v \in DOMAIN quotes : quotes'[v] = quotes[v]
        /\ quotes' = [v \in DOMAIN quotes' |-> quotes'[v]]
    BY <2>1, <2>2
  <2>5. QuotesFit'
    <3>1. DOMAIN quotes' \subseteq Urls
      BY <1>1, <2>4 DEF QuotesFit
    <3>2. ASSUME NEW v \in Servable'
          PROVE  \E info \in Infos[v] :
                    ~Refuses(info, Ask)
                    /\ quotes'[v] = [info |-> info, lease |-> QuoteLease(info, Ask.amount)]
      <4>1. CASE v = u
        BY <2>3, <2>4, <3>2, <4>1 DEF Servable
      <4>2. CASE v # u
        <5>1. v \in Servable /\ quotes'[v] = quotes[v]
          BY <2>4, <3>2, <4>2 DEF Servable
        <5> QED
          BY <1>1, <5>1 DEF QuotesFit
      <4> QED
        BY <4>1, <4>2
    <3> QED
      BY <2>4, <3>1, <3>2 DEF QuotesFit
  <2>6. ChosenLast'
    BY <1>1, <1>2, <2>1 DEF ChosenLast
  <2> QED
    BY <1>3, <1>4, <2>1, <2>5, <2>6 DEF MarketInv
<1>11. CASE BestQuote
  <2>1. UNCHANGED <<serving, directory, quotes, ordered>> /\ mktAt = "quoting"
    BY <1>11 DEF BestQuote
  <2>2. \/ mktAt' = "done" /\ best' = best
        \/ /\ mktAt' = "buying" /\ best' \in Servable
           /\ \A v \in Servable : ~Cheaper(v, best')
    BY <1>11 DEF BestQuote
  <2>3. QuotesFit' /\ Servable' = Servable
    BY <1>1, <2>1 DEF QuotesFit, Servable
  <2>4. ordered' = Unplaced
    BY <1>1, <2>1 DEF ChosenLast
  <2>5. ChosenLast'
    BY <1>2, <2>1, <2>2, <2>3, <2>4 DEF ChosenLast, Cheaper, Fee
  <2> QED
    BY <1>3, <1>4, <2>1, <2>3, <2>5 DEF MarketInv
<1>12. CASE Order
  <2>1. /\ UNCHANGED <<serving, directory, quotes, best>>
        /\ mktAt = "buying" /\ mktAt' = "done"
    BY <1>12 DEF Order
  <2>2. QuotesFit' /\ Servable' = Servable
    BY <1>1, <2>1 DEF QuotesFit, Servable
  <2>3. best # None => best \in Servable
    BY <1>1 DEF ChosenLast
  <2> DEFINE s == serving[best]
  <2>4. \/ ordered' = Down
        \/ s # Down /\ Refuses(s, Ask) /\ ordered' = [refused |-> s]
        \/ s # Down /\ ordered' = [info |-> s, fee |-> ComputeFee(s, Ask.amount)]
    BY <1>12 DEF Order
  <2>5. best \in Urls /\ (s # Down => s \in Offered)
    <3>1. best \in Urls
      BY <1>1, <2>1 DEF QuotesFit, ChosenLast, Servable
    <3> QED
      BY <1>1, <3>1 DEF Serves, Offered
  <2> HIDE DEF s
  <2>6. \/ ordered' = Down
        \/ \E t \in Offered : ordered' = [refused |-> t] /\ Refuses(t, Ask)
        \/ \E t \in Offered : ordered' = [info |-> t, fee |-> ComputeFee(t, Ask.amount)]
    BY <2>4, <2>5
  <2>7. ChosenLast'
    BY <1>1, <2>1, <2>2, <2>6 DEF ChosenLast, Cheaper, Fee
  <2> QED
    BY <1>3, <1>4, <2>1, <2>2, <2>7 DEF MarketInv
<1>13. ASSUME NEW u \in Urls, Operator(u) PROVE MarketInv'
  <2>1. /\ UNCHANGED <<mktAt, directory, quotes, best, ordered>>
    BY <1>13 DEF Operator
  <2>2. PICK s \in {Down} \cup Infos[u] : serving' = [serving EXCEPT ![u] = s]
    BY <1>13 DEF Operator
  <2>3. Serves'
    BY <1>1, <2>2 DEF Serves
  <2>4. QuotesFit' /\ ChosenLast'
    BY <1>1, <2>1, QuotesFrame DEF ChosenLast
  <2> QED
    BY <1>3, <2>1, <2>3, <2>4 DEF MarketInv
<1>14. CASE UNCHANGED mktVars
  <2>1. UNCHANGED <<serving, mktAt, directory, quotes, best, ordered>>
    BY <1>14 DEF mktVars
  <2>2. QuotesFit' /\ ChosenLast'
    BY <1>1, <2>1, QuotesFrame DEF ChosenLast
  <2> QED
    BY <1>3, <1>4, <2>1, <2>2 DEF MarketInv
<1> QED
  BY <1>5, <1>6, <1>7, <1>8, <1>9, <1>10, <1>11, <1>12, <1>13, <1>14 DEF MarketNext

\* A fee is a number.
LEMMA FeesAreNumbers ==
    ASSUME QuotesFit, NEW u \in Servable
    PROVE  Fee(u) \in Int
<1>1. PICK info \in Infos[u] :
         quotes[u] = [info |-> info, lease |-> QuoteLease(info, Ask.amount)]
  BY DEF QuotesFit
<1>2. u \in Urls
  BY DEF QuotesFit, Servable
<1>3. info.base \in Int /\ info.bps \in Int /\ Ask.amount \in Int
  BY <1>2, MarketAssumption
<1>4. Proportional(info, Ask.amount) \in Int
  BY <1>3 DEF Proportional
<1>5. ComputeFee(info, Ask.amount) \in Int
  BY <1>3, <1>4 DEF ComputeFee
<1> QED
  BY <1>1, <1>5 DEF Fee, QuoteLease

\* The chosen offer is the cheapest that answered and charges what it quoted
\* unless it changed, and a node is listed once, whatever order the rows answer
\* in and the operators do meanwhile (discoverProviders, bestQuote, createOrder).
THEOREM CheapestIsChosen == MarketSpec => []BestIsCheapest
<1>1. ASSUME MarketInv PROVE BestIsCheapest
  <2>1. OneRowEach /\ QuotesFit /\ ChosenLast
    BY <1>1 DEF MarketInv
  <2>2. \A i, j \in DOMAIN directory :
           /\ directory[i].pubkey # None /\ directory[j].pubkey # None
           /\ Norm(directory[i].pubkey) = Norm(directory[j].pubkey)
           => i = j
    <3>1. \A i, j \in DOMAIN directory : directory[i].key = directory[j].key => i = j
      BY <2>1 DEF OneRowEach
    <3>2. \A i \in DOMAIN directory :
             directory[i].pubkey # None => directory[i].key = Norm(directory[i].pubkey)
      BY <2>1 DEF OneRowEach, Keyed
    <3> QED
      BY <3>1, <3>2
  <2>3. ASSUME best # None
        PROVE  /\ quotes[best] # Down
               /\ \A u \in Servable : Fee(best) <= Fee(u)
               /\ Ask.amount \in quotes[best].info.min .. quotes[best].info.max
               /\ ordered \notin {Unplaced, Down} =>
                     IF "refused" \in DOMAIN ordered
                     THEN ordered.refused # quotes[best].info
                     ELSE ordered.info = quotes[best].info => ordered.fee = Fee(best)
    <3>1. best \in Servable /\ \A u \in Servable : ~Cheaper(u, best)
      BY <2>1, <2>3 DEF ChosenLast
    <3>2. PICK info \in Infos[best] :
             /\ ~Refuses(info, Ask)
             /\ quotes[best] = [info |-> info, lease |-> QuoteLease(info, Ask.amount)]
      BY <2>1, <3>1 DEF QuotesFit
    <3>3. quotes[best] # Down /\ best \in Urls
      BY <2>1, <3>1 DEF Servable, QuotesFit
    <3>4. \A u \in Servable : Fee(best) <= Fee(u)
      <4>1. \A u \in Servable : Fee(u) \in Int
        BY <2>1, FeesAreNumbers
      <4>2. \A u \in Servable : ~(Fee(u) < Fee(best))
        BY <3>1 DEF Cheaper
      <4> HIDE DEF Fee
      <4> QED
        BY <3>1, <4>1, <4>2
    <3>5. quotes[best].info = info /\ Fee(best) = ComputeFee(info, Ask.amount)
      BY <3>2 DEF Fee, QuoteLease
    <3>6. Ask.amount \in info.min .. info.max
      <4>1. info.min \in Nat /\ info.max \in Nat /\ Ask.amount \in Nat
        BY <3>3, MarketAssumption
      <4>2. ~(Ask.amount < info.min) /\ ~(Ask.amount > info.max)
        BY <3>2 DEF Refuses
      <4> QED
        BY <4>1, <4>2
    <3>7. ASSUME ordered \notin {Unplaced, Down}
          PROVE  IF "refused" \in DOMAIN ordered
                 THEN ordered.refused # info
                 ELSE ordered.info = info => ordered.fee = ComputeFee(info, Ask.amount)
      <4>1. CASE \E s \in Offered : ordered = [refused |-> s] /\ Refuses(s, Ask)
        BY <3>2, <4>1
      <4>2. CASE \E s \in Offered :
                    ordered = [info |-> s, fee |-> ComputeFee(s, Ask.amount)]
        <5>1. PICK s \in Offered : ordered = [info |-> s, fee |-> ComputeFee(s, Ask.amount)]
          BY <4>2
        <5>2. DOMAIN ordered = {"info", "fee"}
          BY <5>1
        <5> QED
          BY <5>1, <5>2
      <4> QED
        BY <2>1, <3>7, <4>1, <4>2 DEF ChosenLast
    <3> QED
      BY <3>3, <3>4, <3>5, <3>6, <3>7
  <2> QED
    BY <2>2, <2>3 DEF BestIsCheapest
<1> QED
  BY <1>1, MarketInvInit, MarketInvStep, PTL DEF MarketSpec

-----------------------------------------------------------------------------
(* The checkout and its ledger                                              *)

InvoiceStates == {"none", "Open", "Received"} \cup Ends
CallStates == {"off", "watch", "own", "order", "done", "threw"}

CkTypeOK ==
    /\ strategy \in {"none", "direct", "jit", "auto"}
    /\ how \in [Intents -> {"none", "built-in", "direct", "jit"}]
    /\ own \in [Intents -> InvoiceStates]
    /\ jit \in [Intents -> {"none", "open", "settled", "refunded", "expired"}]
    /\ call \in [Waits -> CallStates]
    /\ shownReceipt \in [Waits -> InvoiceStates]
    /\ notices \in [Intents -> SUBSET Ends]
    /\ revealed \in [Intents -> BOOLEAN]
    /\ filed \subseteq Waits
    /\ atStart \in [Waits -> InvoiceStates]

\* The LSP settles only what the merchant was paid, and if it keeps to its part
\* it refunds only what was not even on its way.
OrdersFit ==
    \A i \in Intents :
        /\ how[i] = "none" => own[i] = "none" /\ notices[i] = {}
        /\ how[i] # "jit" => jit[i] = "none"
        /\ jit[i] = "settled" => own[i] = "Paid"
        /\ keeps /\ how[i] = "jit" /\ own[i] \in {"Received", "Paid"} =>
              jit[i] \in {"open", "settled"}

\* Only a call with the session waits for the LSP's order, the merchant's
\* invoice being paid.
CallsFit ==
    \A i \in Intents, c \in Calls :
        /\ how[i] = "none" => call[<<i, c>>] = "off" /\ shownReceipt[<<i, c>>] = "none"
        /\ call[<<i, c>>] \in {"own", "order"} => how[i] = "jit"
        /\ call[<<i, c>>] = "order" => own[i] = "Paid"

\* What was told of an intent is its invoice's own end.
ToldTrue ==
    \A i \in Intents :
        /\ "Paid" \in notices[i] \/ revealed[i] => own[i] = "Paid"
        /\ keeps \/ how[i] # "jit" => notices[i] \subseteq {own[i]}
        /\ \A c \in Calls :
            /\ shownReceipt[<<i, c>>] = "Paid" => own[i] = "Paid"
            /\ how[i] # "jit" /\ shownReceipt[<<i, c>>] \in Ends
                  => shownReceipt[<<i, c>>] = own[i]

\* A receipt that is filed is not made again, so what an audit has aside to
\* compare is what it found at its start.
AuditFits ==
    /\ \A w \in filed : call[w] = "done"
    /\ audit = "done" => todo = {}
    /\ audit \in {"running", "done"} =>
        \A w \in Waits : atStart[w] \in Ends =>
            /\ w \in filed /\ own[w[1]] = atStart[w]
            /\ \/ w \in todo \cup flagged
               \/ how[w[1]] = "jit" /\ mode = "linked"
               \/ shownReceipt[w] = atStart[w]

CkInv == CkTypeOK /\ OrdersFit /\ CallsFit /\ ToldTrue /\ AuditFits

\* No order, receipt or call is there yet.
LEMMA CkInvInit == CheckoutInit => CkInv
  BY DEF CheckoutInit, CkInv, CkTypeOK, OrdersFit, CallsFit, ToldTrue, AuditFits,
         Ends, Waits, InvoiceStates, CallStates

\* An intent is originated by something.
LEMMA Originated ==
    ASSUME strategy \in {"none", "direct", "jit", "auto"}
    PROVE  Originators \subseteq {"built-in", "direct", "jit"}
<1>1. CASE strategy = "none"
  <2>1. Originators = {"built-in"}
    BY <1>1 DEF Originators
  <2> QED
    BY <2>1
<1>2. CASE strategy = "auto"
  <2>1. strategy # "none"
    BY <1>2
  <2>2. Originators = {"direct", "jit"}
    BY <1>2, <2>1 DEF Originators
  <2> QED
    BY <2>2
<1>3. CASE strategy \in {"direct", "jit"}
  <2>1. strategy # "none" /\ strategy # "auto"
    BY <1>3
  <2>2. Originators = {strategy}
    BY <2>1 DEF Originators
  <2> QED
    BY <1>3, <2>2
<1> QED
  BY <1>1, <1>2, <1>3

\* The LSP's order as the receipt has it.
LEMMA OrderShown ==
    ASSUME NEW i \in Intents, NEW c \in Calls, WatchOrder(i, c),
           jit[i] \in {"none", "open", "settled", "refunded", "expired"}
    PROVE  \E answer \in Ends \cup {"Open"} :
              /\ ShowReceipt(i, c, answer)
              /\ answer = "Paid" => jit[i] = "settled"
              /\ answer \in {"Cancelled", "Expired"} => jit[i] \in {"refunded", "expired"}
<1>1. CASE jit[i] = "settled"
  <2>1. ShowReceipt(i, c, "Paid")
    BY <1>1 DEF WatchOrder, ShowReceipt
  <2> QED
    BY <1>1, <2>1 DEF Ends
<1>2. CASE jit[i] = "refunded"
  <2>1. jit[i] # "settled"
    BY <1>2
  <2>2. ShowReceipt(i, c, "Cancelled")
    BY <1>2, <2>1 DEF WatchOrder, ShowReceipt
  <2> QED
    BY <1>2, <2>2 DEF Ends
<1>3. CASE jit[i] = "expired"
  <2>1. jit[i] # "settled" /\ jit[i] # "refunded"
    BY <1>3
  <2>2. ShowReceipt(i, c, "Expired")
    BY <1>3, <2>1 DEF WatchOrder, ShowReceipt
  <2> QED
    BY <1>3, <2>2 DEF Ends
<1>4. CASE jit[i] \in {"none", "open"}
  <2>1. jit[i] # "settled" /\ jit[i] # "refunded" /\ jit[i] # "expired"
    BY <1>4
  <2>2. ShowReceipt(i, c, "Open")
    BY <2>1 DEF WatchOrder, ShowReceipt
  <2> QED
    BY <1>4, <2>2 DEF Ends
<1> QED
  BY <1>1, <1>2, <1>3, <1>4

\* The waits of two calls differ.
LEMMA OtherWaits ==
    ASSUME NEW i \in Intents, NEW c \in Calls
    PROVE  /\ <<i, c>> \in Waits
           /\ \A j \in Intents, d \in Calls :
                 /\ <<j, d>> \in Waits
                 /\ j # i \/ d # c => <<j, d>> # <<i, c>>
  BY DEF Waits

aside == <<checkoutTerms, how, outside, revealed, books>>

\* A call that ends with a receipt of an intent that ended shows how it ended.
LEMMA ReceiptMade ==
    ASSUME CkInv, NEW i \in Intents, NEW c \in Calls, UNCHANGED aside,
           call[<<i, c>>] \in {"watch", "own", "order"},
           NEW answer \in InvoiceStates,
           ShowReceipt(i, c, answer),
           answer = "Paid" => own[i] = "Paid",
           answer \in Ends /\ (keeps \/ how[i] # "jit") => answer = own[i]
    PROVE  CkInv'
<1> USE DEF CkInv
<1>u. UNCHANGED <<strategy, mode, keeps, durable, how, own, jit, revealed, filed, audit,
                  todo, flagged, atStart>>
  BY DEF aside, checkoutTerms, outside, books
<1>1. /\ call' \in [Waits -> CallStates]
      /\ call'[<<i, c>>] = "done"
      /\ \A w \in Waits : w # <<i, c>> => call'[w] = call[w]
      /\ \A j \in Intents, d \in Calls :
            /\ <<j, d>> \in Waits
            /\ j # i \/ d # c =>
                  <<j, d>> # <<i, c>> /\ call'[<<j, d>>] = call[<<j, d>>]
  <2>1. call' = [call EXCEPT ![<<i, c>>] = "done"] /\ call \in [Waits -> CallStates]
    BY DEF ShowReceipt, CkTypeOK
  <2>2. "done" \in CallStates
    BY DEF CallStates
  <2>3. \A w \in Waits : w # <<i, c>> => call'[w] = call[w]
    BY <2>1
  <2>4. call' \in [Waits -> CallStates] /\ call'[<<i, c>>] = "done"
    BY <2>1, <2>2, OtherWaits
  <2> QED
    BY <2>3, <2>4, OtherWaits
<1>2. /\ shownReceipt' \in [Waits -> InvoiceStates]
      /\ shownReceipt'[<<i, c>>] = answer
      /\ \A w \in Waits : w # <<i, c>> => shownReceipt'[w] = shownReceipt[w]
      /\ \A j \in Intents, d \in Calls :
            j # i \/ d # c => shownReceipt'[<<j, d>>] = shownReceipt[<<j, d>>]
  <2>1. /\ shownReceipt' = [shownReceipt EXCEPT ![<<i, c>>] = answer]
        /\ shownReceipt \in [Waits -> InvoiceStates]
    BY DEF ShowReceipt, CkTypeOK
  <2>2. \A w \in Waits : w # <<i, c>> => shownReceipt'[w] = shownReceipt[w]
    BY <2>1
  <2>3. shownReceipt' \in [Waits -> InvoiceStates] /\ shownReceipt'[<<i, c>>] = answer
    BY <2>1, OtherWaits
  <2> QED
    BY <2>2, <2>3, OtherWaits
<1>3. /\ notices' \in [Intents -> SUBSET Ends]
      /\ notices'[i] = notices[i] \cup ({answer} \cap Ends)
      /\ \A j \in Intents : j # i => notices'[j] = notices[j]
  BY DEF ShowReceipt, CkTypeOK
<1>4. how[i] # "none"
  BY DEF CallsFit
<1>5. CkTypeOK'
  BY <1>u, <1>1, <1>2, <1>3 DEF CkTypeOK
<1>6. OrdersFit'
  BY <1>u, <1>3, <1>4 DEF OrdersFit
<1>7. CallsFit'
  <2>1. ASSUME NEW j \in Intents, NEW d \in Calls
        PROVE  /\ how[j] = "none" =>
                    call'[<<j, d>>] = "off" /\ shownReceipt'[<<j, d>>] = "none"
               /\ call'[<<j, d>>] \in {"own", "order"} => how[j] = "jit"
               /\ call'[<<j, d>>] = "order" => own[j] = "Paid"
    <3>1. CASE j = i /\ d = c
      BY <1>1, <1>4, <3>1
    <3>2. CASE j # i \/ d # c
      BY <1>1, <1>2, <3>2 DEF CallsFit
    <3> QED
      BY <3>1, <3>2
  <2> HIDE DEF CkInv
  <2> QED
    BY <1>u, <2>1 DEF CallsFit
<1>8. ToldTrue'
  <2>1. \A j \in Intents :
            /\ "Paid" \in notices'[j] \/ revealed[j] => own[j] = "Paid"
            /\ keeps \/ how[j] # "jit" => notices'[j] \subseteq {own[j]}
    BY <1>3 DEF ToldTrue
  <2>2. ASSUME NEW j \in Intents, NEW d \in Calls
        PROVE  /\ shownReceipt'[<<j, d>>] = "Paid" => own[j] = "Paid"
               /\ how[j] # "jit" /\ shownReceipt'[<<j, d>>] \in Ends
                     => shownReceipt'[<<j, d>>] = own[j]
    <3>1. CASE j = i /\ d = c
      BY <1>2, <3>1
    <3>2. CASE j # i \/ d # c
      BY <1>2, <3>2 DEF ToldTrue
    <3> QED
      BY <3>1, <3>2
  <2> QED
    BY <1>u, <2>1, <2>2 DEF ToldTrue
<1>9. AuditFits'
  <2>1. <<i, c>> \notin filed
    BY DEF AuditFits
  <2>2. \A w \in Waits : w \in filed => w # <<i, c>>
    BY <2>1
  <2> QED
    BY <1>u, <1>1, <1>2, <2>2 DEF AuditFits, CkTypeOK
<1> QED
  BY <1>5, <1>6, <1>7, <1>8, <1>9

\* A call that moves on, or gives up, without a receipt.
LEMMA NoReceipt ==
    ASSUME CkInv, NEW i \in Intents, NEW c \in Calls, UNCHANGED aside,
           UNCHANGED <<shownReceipt, notices>>, how[i] # "none",
           call[<<i, c>>] # "done",
           NEW to \in {"watch", "own", "order", "threw"},
           call' = [call EXCEPT ![<<i, c>>] = to],
           to \in {"own", "order"} => how[i] = "jit",
           to = "order" => own[i] = "Paid"
    PROVE  CkInv'
<1>u. UNCHANGED <<strategy, mode, keeps, durable, how, own, jit, revealed, filed, audit,
                  todo, flagged, atStart, shownReceipt, notices>>
  BY DEF aside, checkoutTerms, outside, books
<1>1. /\ call' \in [Waits -> CallStates]
      /\ call'[<<i, c>>] = to
      /\ \A w \in Waits : w # <<i, c>> => call'[w] = call[w]
      /\ \A j \in Intents, d \in Calls :
            /\ <<j, d>> \in Waits
            /\ j # i \/ d # c =>
                  <<j, d>> # <<i, c>> /\ call'[<<j, d>>] = call[<<j, d>>]
  <2>1. to \in CallStates /\ call \in [Waits -> CallStates]
    BY DEF CkInv, CkTypeOK, CallStates
  <2>2. \A w \in Waits : w # <<i, c>> => call'[w] = call[w]
    BY <2>1
  <2>3. call' \in [Waits -> CallStates] /\ call'[<<i, c>>] = to
    BY <2>1, OtherWaits
  <2> QED
    BY <2>2, <2>3, OtherWaits
<1>2. CallsFit'
  <2> SUFFICES ASSUME NEW j \in Intents, NEW d \in Calls
               PROVE  /\ how[j] = "none" =>
                           call'[<<j, d>>] = "off" /\ shownReceipt[<<j, d>>] = "none"
                      /\ call'[<<j, d>>] \in {"own", "order"} => how[j] = "jit"
                      /\ call'[<<j, d>>] = "order" => own[j] = "Paid"
    BY <1>u DEF CallsFit
  <2>1. CASE j = i /\ d = c
    BY <1>1, <2>1
  <2>2. CASE j # i \/ d # c
    BY <1>1, <2>2 DEF CkInv, CallsFit
  <2> QED
    BY <2>1, <2>2
<1>3. AuditFits'
  <2>1. \A w \in Waits : w \in filed => w # <<i, c>>
    BY DEF CkInv, AuditFits
  <2> QED
    BY <1>u, <1>1, <2>1 DEF CkInv, AuditFits, CkTypeOK
<1>4. CkTypeOK' /\ OrdersFit' /\ ToldTrue'
  BY <1>u, <1>1 DEF CkInv, CkTypeOK, OrdersFit, ToldTrue
<1> QED
  BY <1>2, <1>3, <1>4 DEF CkInv

\* One case per action.
LEMMA CkInvStep == CkInv /\ [CheckoutNext]_checkoutVars => CkInv'
<1> SUFFICES ASSUME CkInv, [CheckoutNext]_checkoutVars PROVE CkInv'
  OBVIOUS
<1>o. Originators \subseteq {"built-in", "direct", "jit"}
  BY Originated DEF CkInv, CkTypeOK
<1>6. ASSUME NEW i \in Intents, NEW c \in Calls, Await(i, c) PROVE CkInv'
  <2>1. UNCHANGED <<checkoutTerms, how, outside, revealed, books, shownReceipt, notices>>
        /\ how[i] # "none" /\ call[<<i, c>>] = "off"
        /\ call' = [call EXCEPT ![<<i, c>>] = FirstWatch(i)]
    BY <1>6 DEF Await
  <2>2. FirstWatch(i) \in {"own", "watch"} /\ (FirstWatch(i) = "own" => how[i] = "jit")
    BY DEF FirstWatch
  <2> QED
    BY <2>1, <2>2, NoReceipt DEF aside
<1>7. ASSUME NEW i \in Intents, NEW c \in Calls, Watch(i, c) PROVE CkInv'
  <2>1. UNCHANGED aside /\ call[<<i, c>>] = "watch" /\ how[i] # "none"
    BY <1>7 DEF Watch, aside, CkInv, CallsFit
  <2>2. PICK answer \in Answers(i) :
            IF answer = "unknown"
            THEN /\ call' = [call EXCEPT ![<<i, c>>] = "threw"]
                 /\ UNCHANGED <<shownReceipt, notices>>
            ELSE ShowReceipt(i, c, answer)
    BY <1>7 DEF Watch, Outcome
  <2>3. answer = "unknown" \/ answer = own[i] \/ answer = "Open"
    BY DEF Answers
  <2>4. CASE answer = "unknown"
    BY <2>1, <2>2, <2>4, NoReceipt
  <2>5. CASE answer # "unknown"
    <3>1. answer \in InvoiceStates
      BY <2>3, <2>5 DEF CkInv, CkTypeOK, InvoiceStates
    <3>2. answer \in Ends => answer = own[i]
      BY <2>3, <2>5 DEF Ends
    <3>3. answer = "Paid" => own[i] = "Paid"
      BY <3>2 DEF Ends
    <3> QED
      BY <2>1, <2>2, <2>5, <3>1, <3>2, <3>3, ReceiptMade
  <2> QED
    BY <2>4, <2>5
<1>8. ASSUME NEW i \in Intents, NEW c \in Calls, WatchOwn(i, c) PROVE CkInv'
  <2>1. UNCHANGED aside /\ call[<<i, c>>] = "own" /\ how[i] = "jit"
    BY <1>8 DEF WatchOwn, aside, CkInv, CallsFit
  <2>2. CASE own[i] = "Paid"
    <3>1. UNCHANGED <<shownReceipt, notices>>
          /\ call' = [call EXCEPT ![<<i, c>>] = "order"]
      BY <1>8, <2>2 DEF WatchOwn
    <3> QED
      BY <2>1, <2>2, <3>1, NoReceipt
  <2>3. CASE own[i] # "Paid"
    <3> DEFINE answer == IF own[i] \in Ends THEN own[i] ELSE "Open"
    <3>1. ShowReceipt(i, c, answer)
      BY <1>8, <2>3 DEF WatchOwn
    <3>2. answer \in InvoiceStates /\ answer # "Paid"
          /\ (answer \in Ends => answer = own[i])
      BY <2>3 DEF Ends, InvoiceStates
    <3> HIDE DEF answer
    <3> QED
      BY <2>1, <3>1, <3>2, ReceiptMade
  <2> QED
    BY <2>2, <2>3
<1>9. ASSUME NEW i \in Intents, NEW c \in Calls, WatchOrder(i, c) PROVE CkInv'
  <2>1. UNCHANGED aside /\ call[<<i, c>>] = "order" /\ how[i] = "jit" /\ own[i] = "Paid"
    BY <1>9 DEF WatchOrder, aside, CkInv, CallsFit
  <2>2. PICK answer \in Ends \cup {"Open"} :
              /\ ShowReceipt(i, c, answer)
              /\ answer = "Paid" => jit[i] = "settled"
              /\ answer \in {"Cancelled", "Expired"} => jit[i] \in {"refunded", "expired"}
    BY <1>9, OrderShown DEF CkInv, CkTypeOK
  <2>3. keeps => jit[i] \in {"open", "settled"}
    BY <2>1 DEF CkInv, OrdersFit
  <2>4. answer \in Ends /\ (keeps \/ how[i] # "jit") => answer = own[i]
    BY <2>1, <2>2, <2>3 DEF Ends
  <2> QED
    BY <2>1, <2>2, <2>4, ReceiptMade DEF InvoiceStates
<1>10. ASSUME NEW i \in Intents, NEW c \in Calls, ReadFails(i, c) PROVE CkInv'
  <2>1. UNCHANGED aside
    BY <1>10 DEF ReadFails, aside, books, outside
  <2>2. CASE /\ call[<<i, c>>] = "watch"
             /\ call' = [call EXCEPT ![<<i, c>>] = "threw"]
             /\ UNCHANGED <<shownReceipt, notices>>
    <3>1. how[i] # "none"
      BY <2>2 DEF CkInv, CallsFit
    <3> QED
      BY <2>1, <2>2, <3>1, NoReceipt
  <2>3. CASE call[<<i, c>>] \in {"own", "order"} /\ ShowReceipt(i, c, "Open")
    BY <2>1, <2>3, ReceiptMade DEF Ends, InvoiceStates
  <2> QED
    BY <1>10, <2>2, <2>3 DEF ReadFails
<1> USE DEF CkInv, CkTypeOK, OrdersFit, CallsFit, ToldTrue, AuditFits, Waits, Ends,
   InvoiceStates, CallStates,
            checkoutTerms, outside, books, sessions, counted
<1>1. ASSUME NEW i \in Intents, CreateIntent(i) PROVE CkInv'
  BY <1>1, <1>o DEF CreateIntent
<1>2. ASSUME NEW i \in Intents, RevealFallback(i) PROVE CkInv'
  BY <1>2 DEF RevealFallback
<1>3. ASSUME NEW i \in Intents, Cancel(i) PROVE CkInv'
  BY <1>3 DEF Cancel
<1>4. ASSUME NEW i \in Intents, OwnMoves(i) PROVE CkInv'
  BY <1>4 DEF OwnMoves
<1>5. ASSUME NEW i \in Intents, OrderEnds(i) PROVE CkInv'
  BY <1>5 DEF OrderEnds
<1>11. ASSUME NEW w \in Waits, Record(w) PROVE CkInv'
  BY <1>11 DEF Record
<1>12. ASSUME NEW w \in Waits, Compare(w) PROVE CkInv'
  BY <1>12 DEF Compare, Differs, Answers
<1>13. CASE Reconcile
  BY <1>13 DEF Reconcile
<1>14. CASE BackendRestarts
  BY <1>14 DEF BackendRestarts, Reload
<1>15. CASE UNCHANGED checkoutVars
  BY <1>15 DEF checkoutVars
<1> QED
  BY <1>1, <1>2, <1>3, <1>4, <1>5, <1>6, <1>7, <1>8, <1>9, <1>10, <1>11, <1>12,
     <1>13, <1>14, <1>15 DEF CheckoutNext

\* What the books say was received came in: of receipts of different intents,
\* each that says Paid has its own invoice paid.
LEMMA ReceivedCameIn ==
    ASSUME CkInv, \A w, x \in filed : w[1] = x[1] => w = x
    PROVE  Totals.received <= Cardinality({i \in Intents : own[i] = "Paid"})
<1> DEFINE PaidOnes == {w \in filed : shownReceipt[w] = "Paid"}
           Won == {i \in Intents : own[i] = "Paid"}
           f == [w \in PaidOnes |-> w[1]]
<1>1. IsFiniteSet(Won)
  <2>1. Won \in SUBSET Intents
    OBVIOUS
  <2> HIDE DEF Won
  <2> QED
    BY <2>1, CheckoutAssumption, FS_Subset
<1>2. \A w \in PaidOnes : w[1] \in Won
  <2> SUFFICES ASSUME NEW w \in PaidOnes PROVE w[1] \in Won
    OBVIOUS
  <2>1. PICK i \in Intents, c \in Calls : w = <<i, c>>
    BY DEF CkInv, CkTypeOK, Waits
  <2>2. own[i] = "Paid"
    BY <2>1 DEF CkInv, ToldTrue
  <2> QED
    BY <2>1, <2>2
<1>3. f \in [PaidOnes -> Won]
  BY <1>2
<1>4. \A w, x \in PaidOnes : f[w] = f[x] => w = x
  OBVIOUS
<1>5. f \in Injection(PaidOnes, Won)
  <2> HIDE DEF PaidOnes, Won, f
  <2> QED
    BY <1>3, <1>4 DEF Injection, IsInjective
<1>6. Cardinality(PaidOnes) <= Cardinality(Won)
  <2> HIDE DEF PaidOnes, Won, f
  <2> QED
    BY <1>1, <1>5, FS_Injection
<1>7. Totals.received = Cardinality(PaidOnes)
  BY DEF Totals
<1> QED
  BY <1>6, <1>7

\* Whatever the customers, the LSP, restarts and a second call for an intent do,
\* a merchant is told Paid only of money its node has, and never of two ends if
\* the LSP keeps to its part (awaitSettlement, deliver, the reveal).
THEOREM ReceiptsStayTrue == CheckoutSpec => []ReceiptsTrue
<1>1. ASSUME CkInv PROVE ReceiptsTrue
  <2>1. (\A w, x \in filed : w[1] = x[1] => w = x)
           => Totals.received <= Cardinality({i \in Intents : own[i] = "Paid"})
    BY <1>1, ReceivedCameIn
  <2>2. ASSUME NEW i \in Intents, keeps PROVE Cardinality(notices[i]) <= 1
    <3>1. notices[i] = {} \/ notices[i] = {own[i]}
      BY <1>1, <2>2 DEF CkInv, ToldTrue
    <3>2. Cardinality({}) = 0 /\ Cardinality({own[i]}) = 1
      BY FS_EmptySet, FS_Singleton
    <3> QED
      BY <3>1, <3>2
  <2>3. \A i \in Intents :
        /\ "Paid" \in notices[i] \/ revealed[i] => own[i] = "Paid"
        /\ \A c \in Calls :
            /\ shownReceipt[<<i, c>>] = "Paid" => own[i] = "Paid"
            /\ how[i] # "jit" /\ shownReceipt[<<i, c>>] \in Ends
                  => shownReceipt[<<i, c>>] = own[i]
    BY <1>1 DEF CkInv, ToldTrue
  <2> QED
    BY <2>1, <2>2, <2>3 DEF ReceiptsTrue
<1> QED
  BY <1>1, CkInvInit, CkInvStep, PTL DEF CheckoutSpec

\* An audit that is done has flagged every receipt whose invoice had ended in
\* another way by the time the audit started (reconcile of the ledger).
THEOREM LateMoneyIsFlagged == CheckoutSpec => []LateMoneyFlagged
<1>1. CkInv => LateMoneyFlagged
  BY DEF CkInv, AuditFits, LateMoneyFlagged
<1> QED
  BY <1>1, CkInvInit, CkInvStep, PTL DEF CheckoutSpec

\* The merchant's books are true, and an audit finds the money that came late
\* (MerchantCheckout, SettlementLedger).
THEOREM BooksStayTrue == CheckoutSpec => []BooksTrue
<1>1. ReceiptsTrue /\ LateMoneyFlagged => BooksTrue
  BY DEF BooksTrue
<1> QED
  BY <1>1, ReceiptsStayTrue, LateMoneyIsFlagged, PTL

-----------------------------------------------------------------------------
(* The streaming lease                                                      *)

\* A pass has a period of its own; what is recorded of a period agrees with
\* what its keysend can still do, and the run of misses is what `since' holds.

Active(p) == leaseAt[p] # "idle"
Unsent == {"reading", "dry", "sending"}

RentTypeOK ==
    /\ period \in 0 .. MaxPeriods
    /\ leaseAt \in [Passes -> Unsent \cup {"idle", "polling"}]
    /\ mypass \in [Passes -> Nat]
    /\ owed \in [Periods -> Int] /\ inbound \in Int
    /\ rentSent \in [Periods -> {"none", "Inflight", "Success", "Failed"}]
    /\ outcome \in [Periods -> {"none", "paid", "missed", "late"}]
    /\ since \subseteq Periods /\ lapsed \in BOOLEAN

\* No two passes share a period, and a pass's period is without an end, and
\* without a keysend before it sends.
OwnPeriod ==
    /\ \A p \in Passes : Active(p) => mypass[p] \in 1 .. period
    /\ \A p, q \in Passes : Active(p) /\ Active(q) /\ mypass[p] = mypass[q] => p = q
    /\ \A p \in Passes : Active(p) => outcome[mypass[p]] = "none"
    /\ \A p \in Passes : leaseAt[p] \in Unsent => rentSent[mypass[p]] = "none"
    /\ \A k \in Periods : k > period => outcome[k] = "none" /\ rentSent[k] = "none"

\* The end recorded of a period is one its keysend cannot refute.
EndsHold ==
    \A k \in Periods :
        /\ outcome[k] = "paid" => rentSent[k] = "Success" \/ owed[k] = 0
        /\ outcome[k] = "missed" => rentSent[k] \in {"none", "Failed"}
        /\ owed[k] <= RentPerPeriod(Capacity)

\* _consecutiveMisses counts the periods not recorded since the last that was.
MissesCounted ==
    /\ \A k \in since : outcome[k] \in {"missed", "late"}
    /\ IsFiniteSet(since) /\ Cardinality(since) = misses

LeaseInv == RentTypeOK /\ OwnPeriod /\ EndsHold /\ MissesCounted

-----------------------------------------------------------------------------

\* The rent of a period is at most the rent first quoted.
LEMMA RentBounded ==
    ASSUME inbound \in Int
    PROVE  /\ RentPerPeriod(RentBase) \in Int
           /\ RentPerPeriod(RentBase) <= RentPerPeriod(Capacity)
           /\ 0 <= RentPerPeriod(Capacity)
<1>1. Capacity \in Nat /\ RateBps \in Nat
  BY LeaseAssumption
<1>2. RentBase \in Int /\ RentBase <= Capacity
  BY <1>1 DEF RentBase
<1>3. RentBase * RateBps \in Int /\ RentBase * RateBps <= Capacity * RateBps
  BY <1>1, <1>2
<1>4. Capacity * RateBps \in Nat
  BY <1>1
<1> HIDE DEF RentBase
<1> QED
  BY <1>3, <1>4 DEF RentPerPeriod

\* No period has been worked on yet.
LEMMA LeaseInit1 == LeaseInit => LeaseInv
<1> SUFFICES ASSUME LeaseInit PROVE LeaseInv
  OBVIOUS
<1> USE LeaseAssumption DEF LeaseInit
<1>1. RentTypeOK
  <2>1. /\ leaseAt \in [Passes -> Unsent \cup {"idle", "polling"}]
        /\ mypass \in [Passes -> Nat]
    BY DEF Unsent
  <2>2. /\ owed \in [Periods -> Int]
        /\ rentSent \in [Periods -> {"none", "Inflight", "Success", "Failed"}]
        /\ outcome \in [Periods -> {"none", "paid", "missed", "late"}]
    OBVIOUS
  <2>3. period \in 0 .. MaxPeriods /\ inbound \in Int
    OBVIOUS
  <2>4. since \subseteq Periods /\ lapsed \in BOOLEAN
    OBVIOUS
  <2> HIDE DEF LeaseInit
  <2> QED
    BY <2>1, <2>2, <2>3, <2>4 DEF RentTypeOK
<1>2. OwnPeriod
  BY DEF OwnPeriod, Active, Unsent
<1>3. EndsHold
  BY <1>1, RentBounded DEF EndsHold, RentTypeOK
<1>4. MissesCounted
  BY FS_EmptySet DEF MissesCounted
<1> QED
  BY <1>1, <1>2, <1>3, <1>4 DEF LeaseInv

\* A pass that ends leaves the others their periods.
LEMMA EndsRight ==
    ASSUME LeaseInv, NEW p \in Passes, Active(p),
           leaseAt' = [leaseAt EXCEPT ![p] = "idle"], UNCHANGED <<period, mypass, rentSent>>,
           NEW way \in {"paid", "missed", "late"},
           outcome' = [outcome EXCEPT ![mypass[p]] = way]
    PROVE  /\ OwnPeriod' /\ mypass[p] \in Periods
           /\ leaseAt' \in [Passes -> Unsent \cup {"idle", "polling"}]
           /\ outcome' \in [Periods -> {"none", "paid", "missed", "late"}]
           /\ outcome'[mypass[p]] = way /\ outcome[mypass[p]] = "none"
           /\ \A k \in Periods : k # mypass[p] => outcome'[k] = outcome[k]
<1>1. RentTypeOK /\ OwnPeriod
  BY DEF LeaseInv
<1>2. mypass[p] \in 1 .. period /\ outcome[mypass[p]] = "none"
  BY <1>1 DEF OwnPeriod
<1>3. period \in Int /\ MaxPeriods \in Int /\ period <= MaxPeriods
  BY <1>1, LeaseAssumption DEF RentTypeOK
<1>4. mypass[p] \in Periods
  BY <1>2, <1>3 DEF Periods
<1>5. /\ outcome' \in [Periods -> {"none", "paid", "missed", "late"}]
      /\ outcome'[mypass[p]] = way
      /\ \A k \in Periods : k # mypass[p] => outcome'[k] = outcome[k]
  BY <1>1, <1>4 DEF RentTypeOK
<1>6. /\ leaseAt' \in [Passes -> Unsent \cup {"idle", "polling"}]
      /\ leaseAt'[p] = "idle" /\ \A q \in Passes \ {p} : leaseAt'[q] = leaseAt[q]
  BY <1>1 DEF RentTypeOK
<1>7. \A q \in Passes \ {p} : Active(q) => mypass[q] # mypass[p] /\ mypass[q] \in Periods
  <2>1. \A q \in Passes : Active(q) => mypass[q] \in 1 .. period
    BY <1>1 DEF OwnPeriod
  <2>2. \A q \in Passes : Active(q) => mypass[q] \in Periods
    BY <1>3, <2>1 DEF Periods
  <2> QED
    BY <1>1, <2>2 DEF OwnPeriod
<1>8. OwnPeriod'
  <2>1. (\A q \in Passes : Active(q) => mypass[q] \in 1 .. period)'
    BY <1>1, <1>6 DEF OwnPeriod, Active
  <2>2. (\A q, r \in Passes : Active(q) /\ Active(r) /\ mypass[q] = mypass[r] => q = r)'
    BY <1>1, <1>6 DEF OwnPeriod, Active
  <2>3. (\A q \in Passes : Active(q) => outcome[mypass[q]] = "none")'
    BY <1>1, <1>5, <1>6, <1>7 DEF OwnPeriod, Active
  <2>4. (\A q \in Passes : leaseAt[q] \in Unsent => rentSent[mypass[q]] = "none")'
    BY <1>1, <1>6 DEF OwnPeriod, Unsent
  <2>5. (\A k \in Periods : k > period => outcome[k] = "none" /\ rentSent[k] = "none")'
    <3>1. ~(mypass[p] > period)
      BY <1>2, <1>3
    <3> QED
      BY <1>1, <1>5, <3>1 DEF OwnPeriod
  <2> QED
    BY <2>1, <2>2, <2>3, <2>4, <2>5 DEF OwnPeriod
<1> QED
  BY <1>2, <1>4, <1>5, <1>6, <1>8

\* skip() counts the miss.
LEMMA SkipKeeps ==
    ASSUME LeaseInv, NEW p \in Passes, Active(p), NEW way \in {"missed", "late"},
           Skip(p, way), UNCHANGED <<period, mypass, owed, rentSent, inbound>>,
           way = "missed" => rentSent[mypass[p]] \in {"none", "Failed"}
    PROVE  LeaseInv'
<1> DEFINE k0 == mypass[p]
<1>1. /\ leaseAt' = [leaseAt EXCEPT ![p] = "idle"]
      /\ outcome' = [outcome EXCEPT ![k0] = way]
      /\ misses' = misses + 1 /\ since' = since \cup {k0}
      /\ lapsed' = (lapsed \/ misses' > Grace)
  BY DEF Skip
<1>2. /\ OwnPeriod' /\ k0 \in Periods
      /\ leaseAt' \in [Passes -> Unsent \cup {"idle", "polling"}]
      /\ outcome' \in [Periods -> {"none", "paid", "missed", "late"}]
      /\ outcome'[k0] = way /\ outcome[k0] = "none"
      /\ \A k \in Periods : k # k0 => outcome'[k] = outcome[k]
  BY <1>1, EndsRight
<1>3. RentTypeOK'
  BY <1>1, <1>2 DEF LeaseInv, RentTypeOK
<1>4. EndsHold'
  BY <1>2 DEF LeaseInv, EndsHold
<1>5. k0 \notin since /\ since \subseteq Periods
  BY <1>2 DEF LeaseInv, MissesCounted, RentTypeOK
<1>6. IsFiniteSet(since') /\ Cardinality(since') = misses'
  BY <1>1, <1>5, FS_AddElement DEF LeaseInv, MissesCounted
<1>7. \A k \in since' : outcome'[k] \in {"missed", "late"}
  BY <1>1, <1>2, <1>5 DEF LeaseInv, MissesCounted
<1> QED
  BY <1>2, <1>3, <1>4, <1>6, <1>7 DEF LeaseInv, MissesCounted

\* recordPaid() forgets the misses.
LEMMA PaidKeeps ==
    ASSUME LeaseInv, NEW p \in Passes, Active(p), Paid(p),
           UNCHANGED <<period, mypass, rentSent, inbound>>,
           owed' \in [Periods -> Int],
           \A k \in Periods : owed'[k] = owed[k]
                              \/ (k = mypass[p] /\ owed'[k] <= RentPerPeriod(Capacity)),
           rentSent[mypass[p]] = "Success" \/ owed'[mypass[p]] = 0
    PROVE  LeaseInv'
<1> DEFINE k0 == mypass[p]
<1>1. /\ leaseAt' = [leaseAt EXCEPT ![p] = "idle"]
      /\ outcome' = [outcome EXCEPT ![k0] = "paid"]
      /\ misses' = 0 /\ since' = {} /\ lapsed' = lapsed
  BY DEF Paid
<1>2. /\ OwnPeriod' /\ k0 \in Periods
      /\ leaseAt' \in [Passes -> Unsent \cup {"idle", "polling"}]
      /\ outcome' \in [Periods -> {"none", "paid", "missed", "late"}]
      /\ outcome'[k0] = "paid" /\ outcome[k0] = "none"
      /\ \A k \in Periods : k # k0 => outcome'[k] = outcome[k]
  BY <1>1, EndsRight
<1>3. RentTypeOK'
  BY <1>1, <1>2 DEF LeaseInv, RentTypeOK
<1>4. EndsHold'
  BY <1>2 DEF LeaseInv, EndsHold
<1>5. MissesCounted'
  BY <1>1, FS_EmptySet DEF MissesCounted
<1> QED
  BY <1>2, <1>3, <1>4, <1>5 DEF LeaseInv

\* A pass goes on: its period is its own still.
LEMMA GoesOn ==
    ASSUME LeaseInv, NEW p \in Passes, Active(p),
           NEW at \in {"dry", "sending", "polling"},
           leaseAt' = [leaseAt EXCEPT ![p] = at],
           at # "polling" => leaseAt[p] \in Unsent /\ rentSent' = rentSent,
           UNCHANGED <<period, mypass, misses, since, lapsed, outcome>>, inbound' = inbound,
           owed' \in [Periods -> Int],
           \A k \in Periods : owed'[k] = owed[k]
                              \/ (k = mypass[p] /\ owed'[k] <= RentPerPeriod(Capacity)),
           rentSent' \in [Periods -> {"none", "Inflight", "Success", "Failed"}],
           \A k \in Periods : k # mypass[p] => rentSent'[k] = rentSent[k]
    PROVE  LeaseInv'
<1>1. RentTypeOK /\ OwnPeriod /\ EndsHold /\ MissesCounted
  BY DEF LeaseInv
<1>2. mypass[p] \in 1 .. period /\ outcome[mypass[p]] = "none"
  BY <1>1 DEF OwnPeriod
<1>3. period \in Int /\ MaxPeriods \in Int /\ period <= MaxPeriods
  BY <1>1, LeaseAssumption DEF RentTypeOK
<1>4. mypass[p] \in Periods
  BY <1>2, <1>3 DEF Periods
<1>5. /\ leaseAt' \in [Passes -> Unsent \cup {"idle", "polling"}]
      /\ leaseAt'[p] = at /\ \A q \in Passes \ {p} : leaseAt'[q] = leaseAt[q]
  BY <1>1 DEF RentTypeOK, Unsent
<1>6. \A q \in Passes \ {p} : Active(q) => mypass[q] # mypass[p] /\ mypass[q] \in Periods
  <2>1. \A q \in Passes : Active(q) => mypass[q] \in 1 .. period
    BY <1>1 DEF OwnPeriod
  <2>2. \A q \in Passes : Active(q) => mypass[q] \in Periods
    BY <1>3, <2>1 DEF Periods
  <2> QED
    BY <1>1, <2>2 DEF OwnPeriod
<1>7. RentTypeOK'
  BY <1>1, <1>5 DEF RentTypeOK
<1>8. OwnPeriod'
  <2>1. \A q \in Passes : leaseAt'[q] # "idle" => Active(q)
    BY <1>5 DEF Active
  <2>2. (\A q \in Passes : Active(q) => mypass[q] \in 1 .. period)'
    BY <1>1, <2>1 DEF OwnPeriod, Active
  <2>3. (\A q, r \in Passes : Active(q) /\ Active(r) /\ mypass[q] = mypass[r] => q = r)'
    BY <1>1, <2>1 DEF OwnPeriod, Active
  <2>4. (\A q \in Passes : Active(q) => outcome[mypass[q]] = "none")'
    BY <1>1, <2>1 DEF OwnPeriod, Active
  <2>5. (\A q \in Passes : leaseAt[q] \in Unsent => rentSent[mypass[q]] = "none")'
    <3>1. \A q \in Passes \ {p} : leaseAt[q] \in Unsent =>
             rentSent'[mypass[q]] = rentSent[mypass[q]]
      BY <1>6 DEF Active, Unsent
    <3>2. leaseAt'[p] \in Unsent => rentSent'[mypass[p]] = rentSent[mypass[p]]
                                    /\ leaseAt[p] \in Unsent
      BY <1>5 DEF Unsent
    <3> QED
      BY <1>1, <1>5, <3>1, <3>2 DEF OwnPeriod
  <2>6. (\A k \in Periods : k > period => outcome[k] = "none" /\ rentSent[k] = "none")'
    <3>1. ~(mypass[p] > period)
      BY <1>2, <1>3
    <3> QED
      BY <1>1, <3>1 DEF OwnPeriod
  <2> QED
    BY <2>2, <2>3, <2>4, <2>5, <2>6 DEF OwnPeriod
<1>9. EndsHold'
  BY <1>1, <1>2 DEF EndsHold
<1>10. MissesCounted'
  BY <1>1 DEF MissesCounted
<1> QED
  BY <1>7, <1>8, <1>9, <1>10 DEF LeaseInv

\* A pass that starts has a period no other has had.
LEMMA PayDueKeeps ==
    ASSUME LeaseInv, NEW p \in Passes, PayDue(p) PROVE LeaseInv'
<1>1. RentTypeOK /\ OwnPeriod /\ EndsHold /\ MissesCounted
  BY DEF LeaseInv
<1>2. /\ leaseAt[p] = "idle" /\ period < MaxPeriods /\ period' = period + 1
      /\ mypass' = [mypass EXCEPT ![p] = period']
      /\ leaseAt' = [leaseAt EXCEPT ![p] = "reading"]
      /\ UNCHANGED <<owed, inbound, rentSent, lapsed, misses, outcome, since>>
  BY DEF PayDue, channel, rentBook
<1>3. period \in Nat /\ MaxPeriods \in Nat /\ period + 1 \in Periods
  BY <1>1, <1>2, LeaseAssumption DEF RentTypeOK, Periods
<1>4. /\ leaseAt' \in [Passes -> Unsent \cup {"idle", "polling"}]
      /\ leaseAt'[p] = "reading" /\ \A q \in Passes \ {p} : leaseAt'[q] = leaseAt[q]
  BY <1>1, <1>2 DEF RentTypeOK, Unsent
<1>5. /\ mypass' \in [Passes -> Nat] /\ mypass'[p] = period + 1
      /\ \A q \in Passes \ {p} : mypass'[q] = mypass[q]
  BY <1>1, <1>2, <1>3 DEF RentTypeOK
<1>6. RentTypeOK'
  BY <1>1, <1>2, <1>3, <1>4, <1>5 DEF RentTypeOK
<1>7. \A q \in Passes \ {p} : leaseAt[q] # "idle" =>
         mypass[q] \in 1 .. period /\ mypass[q] # period + 1
  BY <1>1, <1>3 DEF OwnPeriod, Active
<1>8. outcome[period + 1] = "none" /\ rentSent[period + 1] = "none"
  BY <1>1, <1>3 DEF OwnPeriod
<1>9. OwnPeriod'
  <2>1. (\A q \in Passes : Active(q) => mypass[q] \in 1 .. period)'
    BY <1>2, <1>3, <1>4, <1>5, <1>7 DEF Active
  <2>2. (\A q, r \in Passes : Active(q) /\ Active(r) /\ mypass[q] = mypass[r] => q = r)'
    BY <1>1, <1>4, <1>5, <1>7 DEF OwnPeriod, Active
  <2>3. (\A q \in Passes : Active(q) => outcome[mypass[q]] = "none")'
    BY <1>1, <1>2, <1>4, <1>5, <1>8 DEF OwnPeriod, Active
  <2>4. (\A q \in Passes : leaseAt[q] \in Unsent => rentSent[mypass[q]] = "none")'
    BY <1>1, <1>2, <1>4, <1>5, <1>8 DEF OwnPeriod, Unsent
  <2>5. (\A k \in Periods : k > period => outcome[k] = "none" /\ rentSent[k] = "none")'
    BY <1>1, <1>2, <1>3 DEF OwnPeriod, Periods
  <2> QED
    BY <2>1, <2>2, <2>3, <2>4, <2>5 DEF OwnPeriod
<1>10. EndsHold' /\ MissesCounted'
  BY <1>1, <1>2 DEF EndsHold, MissesCounted
<1> QED
  BY <1>6, <1>9, <1>10 DEF LeaseInv

\* The leased channel's money moves; the passes stay where they are.
LEMMA OutsideKeeps ==
    ASSUME LeaseInv, inbound' \in Int,
           UNCHANGED <<period, leaseAt, mypass, owed, rentSent, lapsed, misses, outcome,
                       since>>
    PROVE  LeaseInv'
BY DEF LeaseInv, RentTypeOK, OwnPeriod, EndsHold, MissesCounted, Active

\* One case per action of the merchant's passes, the node, and the LSP.
LEMMA LeaseStep == LeaseInv /\ [LeaseNext]_leaseVars => LeaseInv'
<1> SUFFICES ASSUME LeaseInv, [LeaseNext]_leaseVars PROVE LeaseInv'
  OBVIOUS
<1>1. RentTypeOK /\ OwnPeriod /\ EndsHold /\ MissesCounted
  BY DEF LeaseInv
<1>2. \A p \in Passes : leaseAt[p] \in {"reading", "dry", "sending", "polling"} => Active(p)
  BY DEF Active
<1>3. \A p \in Passes : leaseAt[p] \in Unsent => rentSent[mypass[p]] = "none"
  BY <1>1 DEF OwnPeriod
<1>4. \A p \in Passes : Active(p) => mypass[p] \in Periods
  <2>1. \A p \in Passes : Active(p) => mypass[p] \in 1 .. period
    BY <1>1 DEF OwnPeriod
  <2> QED
    BY <1>1, <2>1, LeaseAssumption DEF RentTypeOK, Periods
<1>5. ASSUME NEW p \in Passes, PayDue(p) PROVE LeaseInv'
  BY <1>5, PayDueKeeps
<1>6. ASSUME NEW p \in Passes, PassFails(p) PROVE LeaseInv'
  <2>1. /\ Active(p) /\ UNCHANGED <<period, mypass, owed, rentSent, inbound>>
        /\ Skip(p, IF rentSent[mypass[p]] = "none" THEN "missed" ELSE "late")
    BY <1>2, <1>6 DEF PassFails, channel
  <2>2. CASE rentSent[mypass[p]] = "none"
    BY <2>1, <2>2, SkipKeeps
  <2>3. CASE rentSent[mypass[p]] # "none"
    BY <2>1, <2>3, SkipKeeps
  <2> QED
    BY <2>2, <2>3
<1>7. ASSUME NEW p \in Passes, RentRead(p) PROVE LeaseInv'
  <2>1. /\ Active(p) /\ leaseAt[p] \in Unsent
        /\ UNCHANGED <<period, mypass, rentSent, inbound>>
    BY <1>2, <1>7 DEF RentRead, channel, Unsent
  <2>2. CASE leased # "ready"
    <3>1. Skip(p, "missed") /\ UNCHANGED owed
      BY <1>7, <2>2 DEF RentRead
    <3> QED
      BY <1>3, <2>1, <3>1, SkipKeeps
  <2>3. CASE leased = "ready"
    <3>1. /\ owed' = [owed EXCEPT ![mypass[p]] = RentPerPeriod(RentBase)]
          /\ IF owed'[mypass[p]] = 0 THEN Paid(p)
             ELSE leaseAt' = [leaseAt EXCEPT ![p] = "dry"] /\ UNCHANGED rentBook
      BY <1>7, <2>3 DEF RentRead
    <3>2. /\ RentPerPeriod(RentBase) \in Int
          /\ RentPerPeriod(RentBase) <= RentPerPeriod(Capacity)
      BY <1>1, RentBounded DEF RentTypeOK
    <3>3. /\ owed' \in [Periods -> Int]
          /\ \A k \in Periods : owed'[k] = owed[k]
                                \/ (k = mypass[p] /\ owed'[k] <= RentPerPeriod(Capacity))
      BY <1>1, <1>4, <2>1, <3>1, <3>2 DEF RentTypeOK
    <3>4. CASE owed'[mypass[p]] = 0
      BY <2>1, <3>1, <3>3, <3>4, PaidKeeps
    <3>5. CASE owed'[mypass[p]] # 0
      <4>1. /\ leaseAt' = [leaseAt EXCEPT ![p] = "dry"]
            /\ UNCHANGED <<misses, since, lapsed, outcome>>
        BY <3>1, <3>5 DEF rentBook
      <4>2. rentSent' \in [Periods -> {"none", "Inflight", "Success", "Failed"}]
        BY <1>1, <2>1 DEF RentTypeOK
      <4> QED
        BY <2>1, <3>3, <4>1, <4>2, GoesOn
    <3> QED
      BY <3>4, <3>5
  <2> QED
    BY <2>2, <2>3
<1>8. ASSUME NEW p \in Passes, DryRun(p) PROVE LeaseInv'
  <2>1. /\ Active(p) /\ leaseAt[p] \in Unsent
        /\ UNCHANGED <<period, mypass, owed, rentSent, inbound>>
    BY <1>2, <1>8 DEF DryRun, channel, Unsent
  <2>2. \/ Skip(p, "missed")
        \/ /\ leaseAt' = [leaseAt EXCEPT ![p] = "sending"]
           /\ UNCHANGED <<misses, since, lapsed, outcome>>
    BY <1>8 DEF DryRun, rentBook
  <2>3. CASE Skip(p, "missed")
    BY <1>3, <2>1, <2>3, SkipKeeps
  <2>4. CASE /\ leaseAt' = [leaseAt EXCEPT ![p] = "sending"]
             /\ UNCHANGED <<misses, since, lapsed, outcome>>
    <3>1. /\ rentSent' \in [Periods -> {"none", "Inflight", "Success", "Failed"}]
          /\ owed' \in [Periods -> Int]
      BY <1>1, <2>1 DEF RentTypeOK
    <3> QED
      BY <2>1, <2>4, <3>1, GoesOn
  <2> QED
    BY <2>2, <2>3, <2>4
<1>9. ASSUME NEW p \in Passes, Send(p) PROVE LeaseInv'
  <2>1. /\ Active(p) /\ leaseAt[p] \in Unsent
        /\ UNCHANGED <<period, mypass, owed, inbound>>
    BY <1>2, <1>9 DEF Send, Unsent
  <2>2. \/ Skip(p, "missed") /\ UNCHANGED rentSent
        \/ /\ rentSent' = [rentSent EXCEPT ![mypass[p]] = "Inflight"]
           /\ leaseAt' = [leaseAt EXCEPT ![p] = "polling"]
           /\ UNCHANGED <<misses, since, lapsed, outcome>>
    BY <1>9 DEF Send, rentBook
  <2>3. CASE Skip(p, "missed") /\ UNCHANGED rentSent
    BY <1>3, <2>1, <2>3, SkipKeeps
  <2>4. CASE /\ rentSent' = [rentSent EXCEPT ![mypass[p]] = "Inflight"]
             /\ leaseAt' = [leaseAt EXCEPT ![p] = "polling"]
             /\ UNCHANGED <<misses, since, lapsed, outcome>>
    <3>1. /\ rentSent' \in [Periods -> {"none", "Inflight", "Success", "Failed"}]
          /\ \A k \in Periods : k # mypass[p] => rentSent'[k] = rentSent[k]
          /\ owed' \in [Periods -> Int]
      BY <1>1, <1>4, <2>1, <2>4 DEF RentTypeOK
    <3> QED
      BY <2>1, <2>4, <3>1, GoesOn
  <2> QED
    BY <2>2, <2>3, <2>4
<1>10. ASSUME NEW p \in Passes, Poll(p) PROVE LeaseInv'
  <2>1. Active(p) /\ UNCHANGED <<period, mypass, owed, rentSent, inbound>>
    BY <1>2, <1>10 DEF Poll, channel
  <2>2. \/ rentSent[mypass[p]] = "Success" /\ Paid(p)
        \/ rentSent[mypass[p]] = "Failed" /\ Skip(p, "missed")
        \/ Skip(p, "late")
        \/ UNCHANGED <<leaseAt, misses, since, lapsed, outcome>>
    BY <1>10 DEF Poll, TimedOut, rentBook
  <2>3. CASE rentSent[mypass[p]] = "Success" /\ Paid(p)
    <3>1. owed' \in [Periods -> Int]
      BY <1>1, <2>1 DEF RentTypeOK
    <3> QED
      BY <2>1, <2>3, <3>1, PaidKeeps
  <2>4. CASE rentSent[mypass[p]] = "Failed" /\ Skip(p, "missed")
    BY <2>1, <2>4, SkipKeeps
  <2>5. CASE Skip(p, "late")
    BY <2>1, <2>5, SkipKeeps
  <2>6. CASE UNCHANGED <<leaseAt, misses, since, lapsed, outcome>>
    BY <1>1, <2>1, <2>6, OutsideKeeps DEF RentTypeOK
  <2> QED
    BY <2>2, <2>3, <2>4, <2>5, <2>6
<1>11. ASSUME NEW k \in Periods, KeysendEnds(k) PROVE LeaseInv'
  <2>1. /\ rentSent[k] = "Inflight"
        /\ UNCHANGED <<period, leaseAt, mypass, owed, misses, since, lapsed, outcome>>
    BY <1>11 DEF KeysendEnds, rentBook
  <2>2. PICK s \in {"Success", "Failed"} : rentSent' = [rentSent EXCEPT ![k] = s]
    BY <1>11 DEF KeysendEnds
  <2>3. inbound' \in Int
    <3>1. inbound \in Int /\ owed[k] \in Int
      BY <1>1 DEF RentTypeOK
    <3> QED
      BY <1>11, <3>1 DEF KeysendEnds
  <2>4. /\ rentSent' \in [Periods -> {"none", "Inflight", "Success", "Failed"}]
        /\ rentSent'[k] = s /\ \A j \in Periods : j # k => rentSent'[j] = rentSent[j]
    BY <1>1, <2>2 DEF RentTypeOK
  <2>5. RentTypeOK' /\ MissesCounted'
    BY <1>1, <2>1, <2>3, <2>4 DEF RentTypeOK, MissesCounted
  <2>6. EndsHold'
    BY <1>1, <2>1, <2>4 DEF EndsHold
  <2>7. \A p \in Passes : leaseAt[p] \in Unsent => rentSent'[mypass[p]] = "none"
    BY <1>2, <1>3, <1>4, <2>1, <2>4 DEF Unsent
  <2>8. \A j \in Periods : j > period => rentSent'[j] = "none"
    BY <1>1, <2>1, <2>4 DEF OwnPeriod
  <2>9. OwnPeriod'
    BY <1>1, <2>1, <2>7, <2>8 DEF OwnPeriod, Active
  <2> QED
    BY <2>5, <2>6, <2>9 DEF LeaseInv
<1>12. ASSUME Stop \/ CloseLease \/ Shutdown PROVE LeaseInv'
  <2>1. UNCHANGED <<inbound, period, leaseAt, mypass, owed, rentSent, lapsed, misses,
                    outcome, since>>
    BY <1>12 DEF Stop, CloseLease, Shutdown, rentBook, channel
  <2> QED
    BY <1>1, <2>1, OutsideKeeps DEF RentTypeOK
<1>13. ASSUME Sale PROVE LeaseInv'
  <2>1. /\ inbound' = inbound - 1
        /\ UNCHANGED <<period, leaseAt, mypass, owed, rentSent, lapsed, misses, outcome,
                       since>>
    BY <1>13 DEF Sale, rentBook
  <2>2. inbound' \in Int
    BY <1>1, <2>1 DEF RentTypeOK
  <2> QED
    BY <2>1, <2>2, OutsideKeeps
<1>14. ASSUME UNCHANGED leaseVars PROVE LeaseInv'
  BY <1>1, <1>14, OutsideKeeps DEF leaseVars, RentTypeOK
<1> QED
  BY <1>5, <1>6, <1>7, <1>8, <1>9, <1>10, <1>11, <1>12, <1>13, <1>14 DEF LeaseNext

-----------------------------------------------------------------------------

\* _totalPaid is the sum over the periods recorded as paid.
TotalRight == total = SumFunctionOnSet(owed, PaidPeriods)

\* There are finitely many periods, paid ones among them.
LEMMA PaidFinite ==
    /\ IsFiniteSet(Periods) /\ \A S \in SUBSET Periods : IsFiniteSet(S)
    /\ PaidPeriods \subseteq Periods
<1>1. IsFiniteSet(Periods)
  BY LeaseAssumption, FS_Interval DEF Periods
<1> QED
  BY <1>1, FS_Subset DEF PaidPeriods

\* Nothing is recorded as paid, ...
LEMMA TotalSame ==
    ASSUME TotalRight, total' = total, PaidPeriods' = PaidPeriods,
           \A k \in PaidPeriods : owed'[k] = owed[k]
    PROVE  TotalRight'
<1>1. IsFiniteSet(PaidPeriods)
  BY PaidFinite
<1>2. SumFunctionOnSet(owed, PaidPeriods) = SumFunctionOnSet(owed', PaidPeriods)
  BY <1>1, SumSame
<1> QED
  BY <1>2 DEF TotalRight

\* ... or one period more, at what is owed for it.
LEMMA TotalAdds ==
    ASSUME LeaseInv, TotalRight, NEW k0 \in Periods, outcome[k0] = "none",
           outcome' = [outcome EXCEPT ![k0] = "paid"], owed' \in [Periods -> Int],
           \A k \in Periods : k # k0 => owed'[k] = owed[k],
           total' = total + owed'[k0]
    PROVE  TotalRight'
<1>1. /\ outcome'[k0] = "paid" /\ \A k \in Periods : k # k0 => outcome'[k] = outcome[k]
  BY DEF LeaseInv, RentTypeOK
<1>2. PaidPeriods' = PaidPeriods \cup {k0} /\ k0 \notin PaidPeriods
  BY <1>1 DEF PaidPeriods
<1>3. IsFiniteSet(PaidPeriods) /\ PaidPeriods \subseteq Periods
  BY PaidFinite
<1>4. Ints(owed', PaidPeriods \cup {k0})
  BY <1>3 DEF Ints
<1>5. SumFunctionOnSet(owed', PaidPeriods') = SumFunctionOnSet(owed', PaidPeriods) + owed'[k0]
  BY <1>2, <1>3, <1>4, SumAdd
<1>6. SumFunctionOnSet(owed, PaidPeriods) = SumFunctionOnSet(owed', PaidPeriods)
  BY <1>2, <1>3, SumSame
<1> QED
  BY <1>5, <1>6 DEF TotalRight

\* Only recordPaid moves the total, and only for the period of its pass.
LEMMA TotalStep == LeaseInv /\ TotalRight /\ [LeaseNext]_leaseVars => TotalRight'
<1> SUFFICES ASSUME LeaseInv, TotalRight, [LeaseNext]_leaseVars PROVE TotalRight'
  OBVIOUS
<1>1. RentTypeOK /\ OwnPeriod
  BY DEF LeaseInv
<1>2. ASSUME NEW p \in Passes, Active(p)
      PROVE  /\ mypass[p] \in Periods /\ outcome[mypass[p]] = "none"
             /\ mypass[p] \notin PaidPeriods
  <2>1. mypass[p] \in 1 .. period /\ outcome[mypass[p]] = "none"
    BY <1>1, <1>2 DEF OwnPeriod
  <2> QED
    BY <1>1, <2>1, LeaseAssumption DEF RentTypeOK, Periods, PaidPeriods
<1>3. ASSUME NEW p \in Passes, NEW way \in {"missed", "late"}, Active(p), Skip(p, way),
             owed' = owed
      PROVE  TotalRight'
  <2>1. total' = total /\ outcome' = [outcome EXCEPT ![mypass[p]] = way]
    BY <1>3 DEF Skip
  <2>2. PaidPeriods' = PaidPeriods
    BY <1>1, <1>2, <1>3, <2>1 DEF PaidPeriods, RentTypeOK
  <2> QED
    BY <1>3, <2>1, <2>2, TotalSame
<1>4. ASSUME NEW p \in Passes, Active(p), Paid(p), owed' \in [Periods -> Int],
             \A k \in Periods : k # mypass[p] => owed'[k] = owed[k]
      PROVE  TotalRight'
  <2>1. /\ total' = total + owed'[mypass[p]]
        /\ outcome' = [outcome EXCEPT ![mypass[p]] = "paid"]
    BY <1>4 DEF Paid
  <2> DEFINE k0 == mypass[p]
  <2>2. k0 \in Periods /\ outcome[k0] = "none"
    BY <1>2, <1>4
  <2> HIDE DEF k0
  <2> QED
    BY <1>4, <2>1, <2>2, TotalAdds DEF k0
<1>5. ASSUME NEW k0 \in Periods \ PaidPeriods,
             UNCHANGED <<total, outcome>>, \A k \in Periods : k # k0 => owed'[k] = owed[k]
      PROVE  TotalRight'
  <2>1. PaidPeriods' = PaidPeriods
    BY <1>5 DEF PaidPeriods
  <2> QED
    BY <1>5, <2>1, PaidFinite, TotalSame
<1>6. ASSUME UNCHANGED <<total, outcome, owed>> PROVE TotalRight'
  <2>1. PaidPeriods' = PaidPeriods
    BY <1>6 DEF PaidPeriods
  <2> QED
    BY <1>6, <2>1, TotalSame
<1>7. ASSUME NEW p \in Passes, RentRead(p) PROVE TotalRight'
  <2>1. Active(p)
    BY <1>7 DEF RentRead, Active
  <2>2. CASE leased # "ready"
    <3>1. Skip(p, "missed") /\ owed' = owed
      BY <1>7, <2>2 DEF RentRead
    <3> QED
      BY <1>3, <2>1, <3>1
  <2>3. CASE leased = "ready"
    <3>1. /\ owed' = [owed EXCEPT ![mypass[p]] = RentPerPeriod(RentBase)]
          /\ Paid(p) \/ UNCHANGED <<total, outcome>>
      BY <1>7, <2>3 DEF RentRead, rentBook
    <3>2. RentPerPeriod(RentBase) \in Int
      BY <1>1, RentBounded DEF RentTypeOK
    <3>3. owed' \in [Periods -> Int] /\ \A k \in Periods : k # mypass[p] => owed'[k] = owed[k]
      BY <1>1, <3>1, <3>2 DEF RentTypeOK
    <3> QED
      BY <1>2, <1>4, <1>5, <2>1, <3>1, <3>3
  <2> QED
    BY <2>2, <2>3
<1>8. ASSUME NEW p \in Passes, Poll(p) PROVE TotalRight'
  <2>1. Active(p) /\ owed' = owed
    BY <1>8 DEF Poll, Active
  <2>2. Paid(p) \/ Skip(p, "missed") \/ Skip(p, "late") \/ UNCHANGED <<total, outcome>>
    BY <1>8 DEF Poll, TimedOut, rentBook
  <2>3. owed' \in [Periods -> Int]
    BY <1>1, <2>1 DEF RentTypeOK
  <2> QED
    BY <1>3, <1>4, <1>6, <2>1, <2>2, <2>3
<1>9. ASSUME NEW p \in Passes, PassFails(p) \/ DryRun(p) \/ Send(p) PROVE TotalRight'
  <2>1. Active(p) /\ owed' = owed
    BY <1>9 DEF PassFails, DryRun, Send, Active
  <2>2. Skip(p, "missed") \/ Skip(p, "late") \/ UNCHANGED <<total, outcome>>
    BY <1>9 DEF PassFails, DryRun, Send, rentBook
  <2> QED
    BY <1>3, <1>6, <2>1, <2>2
<1>10. ASSUME \/ \E p \in Passes : PayDue(p)
              \/ \E k \in Periods : KeysendEnds(k)
              \/ Stop \/ Sale \/ CloseLease \/ Shutdown \/ UNCHANGED leaseVars
       PROVE  TotalRight'
  BY <1>6, <1>10 DEF PayDue, KeysendEnds, Stop, Sale, CloseLease, Shutdown, rentBook,
     leaseVars
<1> QED
  BY <1>7, <1>8, <1>9, <1>10 DEF LeaseNext

\* What is recorded of the rent is what the node did with it, whatever passes
\* overlap and however late a keysend ends, and the total is the sum of what was
\* recorded (payDue, skip, recordPaid).
THEOREM RentStaysTrue == LeaseSpec => []RentAccounted
<1>1. LeaseInit => TotalRight
  <2> SUFFICES ASSUME LeaseInit PROVE TotalRight
    OBVIOUS
  <2>1. PaidPeriods = {} /\ total = 0
    BY DEF PaidPeriods, LeaseInit
  <2> QED
    BY <2>1, SumEmpty DEF TotalRight
<1>2. LeaseInv /\ TotalRight => RentAccounted
  BY DEF LeaseInv, RentTypeOK, EndsHold, RentAccounted, TotalRight
<1> QED
  BY <1>1, <1>2, LeaseInit1, LeaseStep, TotalStep, PTL DEF LeaseSpec

\* The lease lapses only after more periods than the grace in a row went
\* unrecorded, none of them paid before its pass gave up (skip, recordPaid).
THEOREM LapsesWhenDue == LeaseSpec => LapseIsDue
<1> DEFINE Due == lapsed' # lapsed =>
                     /\ lapsed'
                     /\ Cardinality(since') > Grace
                     /\ \A k \in since' : rentSent[k] = "Success" => outcome'[k] = "late"
<1>1. LeaseInv /\ LeaseInv' /\ [LeaseNext]_leaseVars => Due
  <2> SUFFICES ASSUME LeaseInv, LeaseInv', [LeaseNext]_leaseVars, lapsed' # lapsed
               PROVE  /\ lapsed' /\ Cardinality(since') > Grace
                      /\ \A k \in since' : rentSent[k] = "Success" => outcome'[k] = "late"
    OBVIOUS
  <2>1. PICK p \in Passes : PassFails(p) \/ RentRead(p) \/ DryRun(p) \/ Send(p) \/ Poll(p)
    <3>1. ~\E p \in Passes : PayDue(p)
      BY DEF PayDue, rentBook
    <3>2. ~(Stop \/ Sale \/ CloseLease \/ Shutdown) /\ ~UNCHANGED leaseVars
      BY DEF Stop, Sale, CloseLease, Shutdown, rentBook, leaseVars
    <3>3. ~\E k \in Periods : KeysendEnds(k)
      BY DEF KeysendEnds, rentBook
    <3> QED
      BY <3>1, <3>2, <3>3 DEF LeaseNext
  <2>2. PICK way \in {"missed", "late"} : Skip(p, way)
    BY <2>1 DEF PassFails, RentRead, DryRun, Send, Poll, TimedOut, Paid, rentBook
  <2>3. UNCHANGED rentSent
    <3>1. leaseAt' = [leaseAt EXCEPT ![p] = "idle"]
      BY <2>2 DEF Skip
    <3>2. leaseAt'[p] = "idle"
      BY <3>1 DEF LeaseInv, RentTypeOK
    <3>3. leaseAt' # [leaseAt EXCEPT ![p] = "polling"]
      BY <3>2 DEF LeaseInv, RentTypeOK
    <3> QED
      BY <2>1, <3>3 DEF PassFails, RentRead, DryRun, Send, Poll
  <2>4. lapsed' /\ misses' > Grace
    BY <2>2 DEF Skip, LeaseInv, RentTypeOK
  <2>5. Cardinality(since') > Grace
    BY <2>4 DEF LeaseInv, MissesCounted
  <2>6. \A k \in since' : rentSent[k] = "Success" => outcome'[k] = "late"
    BY <2>3 DEF LeaseInv, MissesCounted, EndsHold, RentTypeOK
  <2> QED
    BY <2>4, <2>5, <2>6
<1>2. LeaseSpec => []LeaseInv
  BY LeaseInit1, LeaseStep, PTL DEF LeaseSpec
<1>3. LeaseSpec => [][Due]_leaseVars
  BY <1>1, <1>2, PTL DEF LeaseSpec
<1> QED
  BY <1>3 DEF LapseIsDue

=============================================================================
