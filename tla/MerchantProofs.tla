--------------------------- MODULE MerchantProofs ---------------------------
(***************************************************************************)
(* What holds of the parts MCMerchant checks together, for every instance: *)
(* an invoice is shown only while it can be paid, a watch posts at most    *)
(* one event and tells the truth, and the promise chain is a lock by key.  *)
(***************************************************************************)
EXTENDS Inbound, InvoiceWebhooks, KeyedLock, TLAPS

-----------------------------------------------------------------------------
(* Receiving: Inbound *)

Places == {"idle", "gate", "issue", "shown", "refused", "recheck", "order",
           "payFee", "answer", "check", "alert", "sleep", "stopped"}

InboundTypeOK ==
    /\ available \in Int /\ late \in Int
    /\ saleAt \in [Buyers -> Places]
    /\ short \in [Buyers -> Int]
    /\ saleInvoice \in [Sales -> {"none", "Open", "Paid"}]
    /\ covered \in [Sales -> BOOLEAN]

\* A sale whose invoice is about to be cut, or was, has been covered since its
\* last gate; and nothing sends a sale back once its invoice was cut.
SaleRight(s) ==
    /\ saleAt[s] = "issue" => covered[s]
    /\ saleInvoice[s] # "none" => saleAt[s] = "shown" /\ covered[s]

InboundInv == InboundTypeOK /\ \A s \in Sales : SaleRight(s)

\* What the steps may do to a sale: only a gate that found enough lets it issue,
\* and only a sale that issues shows an invoice.
SaleMoves(s) ==
    /\ saleAt[s] = "shown" => saleAt'[s] = "shown"
    /\ saleAt[s] = "issue" => saleAt'[s] \in {"issue", "shown", "refused"}
    /\ saleAt'[s] = "issue" => saleAt[s] = "issue" \/ available' >= Amount
    /\ saleInvoice'[s] # "none" =>
         saleInvoice[s] # "none" \/ (saleAt[s] = "issue" /\ saleAt'[s] = "shown")

\* Enough is missing nothing.
LEMMA MissingNone ==
  ASSUME InboundTypeOK, Missing(Amount) = 0 PROVE available >= Amount
<1> QED
  BY InboundAssumption DEF InboundTypeOK, Missing

\* Every step of the shop, of the LSP and of the customers moves sales so.
LEMMA InboundMoves ==
  ASSUME InboundTypeOK, InboundStep
  PROVE  /\ \A s \in Sales : SaleMoves(s)
         /\ available' \in Int /\ late' \in Int
         /\ saleAt' \in [Buyers -> Places]
         /\ short' \in [Buyers -> Int]
         /\ saleInvoice' \in [Sales -> {"none", "Open", "Paid"}]
<1> DEFINE Moved == /\ \A s \in Sales : SaleMoves(s)
                    /\ available' \in Int /\ late' \in Int
                    /\ saleAt' \in [Buyers -> Places]
                    /\ short' \in [Buyers -> Int]
                    /\ saleInvoice' \in [Sales -> {"none", "Open", "Paid"}]
<1>m. \A want \in Nat : Missing(want) \in Int
  BY DEF InboundTypeOK, Missing
<1>b. Monitor \notin Sales /\ Sales \subseteq Buyers /\ Monitor \in Buyers
  BY InboundAssumption DEF Buyers
<1> USE <1>b, InboundAssumption DEF InboundTypeOK, Places, SaleMoves, SaleTo, shop, bounds
<1>1. ASSUME NEW s \in Sales, Receive(s) PROVE Moved
  BY <1>1, <1>m DEF Receive
<1>2. ASSUME NEW s \in Sales, Gate(s) PROVE Moved
  <2>1. PICK p \in {"issue", "order", "refused"} :
            SaleTo(s, p) /\ (p = "issue" => short'[s] = 0)
    <3> HIDE DEF SaleTo
    <3>1. CASE short'[s] = 0
      BY <1>2, <3>1, Zenon DEF Gate
    <3>2. CASE short'[s] # 0 /\ short'[s] > 0 /\ hook
      BY <1>2, <3>2, Zenon DEF Gate
    <3>3. CASE short'[s] # 0 /\ ~(short'[s] > 0 /\ hook)
      BY <1>2, <3>3, Zenon DEF Gate
    <3> QED
      BY <3>1, <3>2, <3>3
  <2>2. /\ saleAt[s] = "gate" /\ short'[s] = Missing(Amount)
        /\ UNCHANGED <<available, late, saleInvoice>>
        /\ short' \in [Buyers -> Int]
    BY <1>2, <1>m DEF Gate
  <2>3. p = "issue" => available' >= Amount
    BY <2>1, <2>2, MissingNone
  <2> QED
    BY <2>1, <2>2, <2>3
<1>3. ASSUME NEW s \in Sales, Recheck(s) PROVE Moved
  BY <1>3, <1>m, MissingNone DEF Recheck
<1>4. ASSUME NEW s \in Sales, Issue(s) PROVE Moved
  BY <1>4, <1>m DEF Issue
<1>5. ASSUME NEW s \in Sales, CustomerPays(s) PROVE Moved
  BY <1>5, <1>m DEF CustomerPays
<1>6. CASE StartMonitor
  BY <1>6, <1>m DEF StartMonitor
<1>7. CASE CheckFloor
  BY <1>7, <1>m DEF CheckFloor
<1>8. CASE Alert
  BY <1>8, <1>m DEF Alert
<1>9. CASE NextPass
  BY <1>9, <1>m DEF NextPass
<1>10. CASE StopMonitor
  BY <1>10, <1>m DEF StopMonitor
<1>11. CASE LateChannel
  BY <1>11, <1>m DEF LateChannel
<1>12. CASE OlderSale
  BY <1>12, <1>m DEF OlderSale
<1>13. ASSUME NEW b \in Buyers, CreateOrder(b) PROVE Moved
  BY <1>13 DEF CreateOrder, WithoutIt
<1>14. ASSUME NEW b \in Buyers, SettleFee(b) PROVE Moved
  BY <1>14 DEF SettleFee, WithoutIt
<1>15. ASSUME NEW b \in Buyers, Bought(b) PROVE Moved
  BY <1>15 DEF Bought, WithoutIt
<1>16. ASSUME NEW b \in Buyers, Throws(b) PROVE Moved
  BY <1>16 DEF Throws, WithoutIt
<1>17. ASSUME NEW b \in Buyers, ChannelReady(b) PROVE Moved
  BY <1>17 DEF ChannelReady, WithoutIt
<1>18. ASSUME NEW b \in Buyers, ChannelFails(b) PROVE Moved
  BY <1>18 DEF ChannelFails, WithoutIt
<1> QED
  BY <1>1, <1>2, <1>3, <1>4, <1>5, <1>6, <1>7, <1>8, <1>9, <1>10, <1>11, <1>12,
     <1>13, <1>14, <1>15, <1>16, <1>17, <1>18 DEF InboundStep

\* A merchant shows an invoice only if its inbound has covered the amount since
\* the last gate, whatever fails and whoever else uses the inbound (receive).
THEOREM GateKept == InboundSpec => []GateHolds
<1>1. InboundInit => InboundInv
  BY InboundAssumption DEF InboundInit, InboundInv, InboundTypeOK, SaleRight,
     Buyers, Places
<1>2. InboundInv /\ [InboundNext]_inboundVars => InboundInv'
  <2> SUFFICES ASSUME InboundInv, [InboundNext]_inboundVars PROVE InboundInv'
    OBVIOUS
  <2>1. CASE InboundNext
    <3>1. InboundStep /\ Remember /\ InboundTypeOK
      BY <2>1 DEF InboundNext, InboundInv
    <3>2. covered' \in [Sales -> BOOLEAN]
      BY <3>1 DEF Remember
    <3>3. ASSUME NEW s \in Sales, covered[s], saleAt'[s] \notin {"gate", "recheck"}
          PROVE  covered'[s]
      BY <3>1, <3>3, Zenon DEF Remember
    <3>4. ASSUME NEW s \in Sales, available' >= Amount PROVE covered'[s]
      BY <3>1, <3>4, Zenon DEF Remember
    <3>5. ASSUME NEW s \in Sales PROVE SaleRight(s)'
      <4>1. SaleRight(s) /\ SaleMoves(s)
        BY <3>1, InboundMoves DEF InboundInv
      <4> QED
        BY <3>3, <3>4, <4>1 DEF SaleRight, SaleMoves
    <3> QED
      BY <3>1, <3>2, <3>5, InboundMoves DEF InboundInv, InboundTypeOK
  <2>2. CASE UNCHANGED inboundVars
    BY <2>2 DEF inboundVars, InboundInv, InboundTypeOK, SaleRight
  <2> QED
    BY <2>1, <2>2
<1>3. InboundInv => GateHolds
  BY DEF InboundInv, SaleRight, GateHolds
<1> QED
  BY <1>1, <1>2, <1>3, PTL DEF InboundSpec

-----------------------------------------------------------------------------
(* Watches: InvoiceWebhooks *)

\* A loop that still polls has cut no receipt and posted nothing.
PollingRight(w) ==
    /\ pc[w] \in {"ask", "got"} => receipt[w] = "none" /\ status[w] # "none"
    /\ pc[w] = "got" => reply[w] # "none"
    /\ pc[w] = "fire" => receipt[w] # "none" /\ posted[w] = 0

\* Nothing is posted without a receipt, and nothing done before the watch is.
PostedRight(w) ==
    /\ receipt[w] = "none" => posted[w] = 0
    /\ status[w] = "none" => receipt[w] = "none"
    /\ posted[w] <= 1

\* A final status that a loop or the store holds is the node's for ever.
FinalRight(w) ==
    /\ reply[w] \in Final /\ pc[w] = "got" => invoice[w] = reply[w]
    /\ receipt[w] # "none" => receipt[w] = invoice[w]

WatchInv ==
    /\ TypeOK
    /\ \A w \in Watches : PollingRight(w) /\ PostedRight(w) /\ FinalRight(w)

-----------------------------------------------------------------------------

\* Death empties what the process holds in memory.
LEMMA DeathType ==
    ASSUME TypeOK, Die
    PROVE  /\ up' \in BOOLEAN /\ crashes' \in Nat
           /\ pc' = [w \in Watches |-> "off"]
           /\ reply' = [w \in Watches |-> "none"]
<1>1. up' \in BOOLEAN
  BY DEF Die
<1>2. crashes' \in Nat
  BY DEF Die, TypeOK
<1>3. pc' = [w \in Watches |-> "off"] /\ reply' = [w \in Watches |-> "none"]
  BY DEF Die
<1> QED
  BY <1>1, <1>2, <1>3

\* No watch exists yet.
LEMMA WatchInvInit == Init => WatchInv
BY WatchCrashesAssumption
   DEF Init, WatchInv, TypeOK, PollingRight, PostedRight, FinalRight,
       Final, InvoiceStatus, Pcs

\* Each turn of a loop, restart or change of an invoice keeps the invariant.
LEMMA WatchInvStep == WatchInv /\ [Next]_vars => WatchInv'
<1> SUFFICES ASSUME WatchInv, [Next]_vars PROVE WatchInv'
  OBVIOUS
<1> USE WatchCrashesAssumption
<1> USE DEF WatchInv, TypeOK, PollingRight, PostedRight, FinalRight,
            Final, InvoiceStatus, Pcs, Goto, stored, process
<1>1. ASSUME NEW w \in Watches, Begin(w) PROVE WatchInv'
  BY <1>1 DEF Begin
<1>2. ASSUME NEW w \in Watches, AskAnswered(w) PROVE WatchInv'
  BY <1>2 DEF AskAnswered
<1>3. ASSUME NEW w \in Watches, AskFailed(w) PROVE WatchInv'
  BY <1>3 DEF AskFailed
<1>4. ASSUME NEW w \in Watches, NotOver(w) PROVE WatchInv'
  <2>1. \A v \in Watches \ {w} : status'[v] = status[v] /\ pc'[v] = pc[v]
    BY <1>4 DEF NotOver
  <2>2. status'[w] \in {status[w], reply[w]} \ {"none", "error"}
        /\ status' \in [Watches -> InvoiceStatus \cup {"none"}]
    BY <1>4 DEF NotOver
  <2> QED
    BY <1>4, <2>1, <2>2 DEF NotOver
<1>5. ASSUME NEW w \in Watches, GiveUp(w) PROVE WatchInv'
  <2>1. \A v \in Watches \ {w} : status'[v] = status[v] /\ pc'[v] = pc[v]
    BY <1>5 DEF GiveUp
  <2>2. status'[w] \in {status[w], reply[w]} \ {"none", "error"}
        /\ status' \in [Watches -> InvoiceStatus \cup {"none"}]
    BY <1>5 DEF GiveUp
  <2> QED
    BY <1>5, <2>1, <2>2 DEF GiveUp
<1>6. ASSUME NEW w \in Watches, Finalize(w) PROVE WatchInv'
  BY <1>6 DEF Finalize
<1>7. ASSUME NEW w \in Watches, Fire(w) PROVE WatchInv'
  <2>1. posted[w] = 0 /\ receipt[w] # "none"
    BY <1>7 DEF Fire
  <2>2. posted'[w] \in {0, 1} /\ posted' \in [Watches -> 0..2]
        /\ \A v \in Watches \ {w} : posted'[v] = posted[v]
    BY <1>7, <2>1 DEF Fire
  <2>3. TypeOK'
    BY <1>7, <2>2 DEF Fire
  <2>4. ASSUME NEW v \in Watches
        PROVE (PollingRight(v) /\ PostedRight(v) /\ FinalRight(v))'
    BY <1>7, <2>1, <2>2 DEF Fire
  <2> QED
    BY <2>3, <2>4
<1>8. ASSUME NEW w \in Watches, CrashInFinalize(w) PROVE WatchInv'
  <2>1. Die
    BY <1>8 DEF CrashInFinalize
  <2>2. TypeOK'
    BY <1>8, <2>1, DeathType DEF CrashInFinalize
  <2>3. ASSUME NEW v \in Watches
        PROVE (PollingRight(v) /\ PostedRight(v) /\ FinalRight(v))'
    BY <1>8, <2>1, DeathType DEF CrashInFinalize
  <2> QED
    BY <2>2, <2>3
<1>9. ASSUME NEW w \in Watches, InvoiceMoves(w) PROVE WatchInv'
  BY <1>9 DEF InvoiceMoves
<1>10. CASE Crash
  <2>1. Die
    BY <1>10 DEF Crash
  <2>2. TypeOK'
    BY <1>10, <2>1, DeathType DEF Crash
  <2>3. ASSUME NEW v \in Watches
        PROVE (PollingRight(v) /\ PostedRight(v) /\ FinalRight(v))'
    BY <1>10, <2>1, DeathType DEF Crash
  <2> QED
    BY <2>2, <2>3
<1>11. CASE Boot
  BY <1>11 DEF Boot, EntryPc
<1>12. CASE UNCHANGED vars
  BY <1>12 DEF vars
<1> HIDE DEF WatchInv
<1> QED
  BY <1>1, <1>2, <1>3, <1>4, <1>5, <1>6, <1>7, <1>8, <1>9, <1>10, <1>11, <1>12
     DEF Next, LoopTurn

\* The invariant holds of every behaviour of the backend.
THEOREM WatchInductive == Spec => []WatchInv
BY WatchInvInit, WatchInvStep, PTL DEF Spec

\* The backend gets at most one event for a watch, whatever restarts and
\* failed POSTs there are (finalize's check of the receipt, resume's filter).
THEOREM AtMostOneEvent == Spec => []OneEvent
<1>1. WatchInv => OneEvent
  BY DEF WatchInv, OneEvent, PostedRight
<1> QED
  BY <1>1, WatchInductive, PTL

\* A receipt, and the event made of it, say how the invoice ended at the node
\* (run of invoiceWebhooks.ts).
THEOREM ReceiptsAreTrue == Spec => []ReceiptIsTrue
<1>1. WatchInv => ReceiptIsTrue
  BY DEF WatchInv, TypeOK, ReceiptIsTrue, PostedRight, FinalRight
<1> QED
  BY <1>1, WatchInductive, PTL

-----------------------------------------------------------------------------
(* The lock: KeyedLock *)

\* A call waits, through its promise, for all the calls made before it.
ChainedRight(c) ==
    IF prev[c] = NoCall
    THEN \A d \in earlier[c] : Over(d)
    ELSE /\ Made(prev[c])
         /\ Key[prev[c]] = Key[c]
         /\ earlier[c] = earlier[prev[c]] \cup {prev[c]}

\* The tail of a key is behind all the calls made with it.
TailRight(k) ==
    IF tails[k] = NoCall
    THEN \A c \in Runs : Key[c] = k /\ Made(c) => Over(c)
    ELSE /\ Made(tails[k])
         /\ Key[tails[k]] = k
         /\ {c \in Runs : Key[c] = k /\ Made(c)}
              = earlier[tails[k]] \cup {tails[k]}

\* A call that runs or is over had all the calls before it over.
InTurn(c) ==
    phase[c] \in {"running", "resolved", "rejected"}
    => \A d \in earlier[c] : Over(d)

\* Calls of one key are in an order.
Ordered(c, d) ==
    Key[c] = Key[d] /\ Made(c) /\ Made(d) /\ c # d
    => c \in earlier[d] \/ d \in earlier[c]

\* A removal has run only for a call that is over, and left it no entry.
SweptRight(c) == c \in swept => Over(c) /\ tails[Key[c]] # c

IndInv ==
    /\ LockTypeOK
    /\ \A c \in Runs : SweptRight(c)
    /\ \A c \in Runs : Made(c) => ChainedRight(c)
    /\ \A k \in Keys : TailRight(k)
    /\ \A c \in Runs : InTurn(c)
    /\ \A c, d \in Runs : Ordered(c, d)

-----------------------------------------------------------------------------

\* Nothing has been called yet.
LEMMA InvInit == LockInit => IndInv
<1> USE KeyAssumption, NoCallAssumption
<1> QED
  BY DEF LockInit, IndInv, LockTypeOK, ChainedRight, TailRight, InTurn, Ordered,
         SweptRight, Made, Over, Phases

\* Each step of the lock keeps the invariant.
LEMMA InvStep == IndInv /\ [LockNext]_lockVars => IndInv'
<1> SUFFICES ASSUME IndInv, [LockNext]_lockVars PROVE IndInv'
  OBVIOUS
<1> USE KeyAssumption, NoCallAssumption
<1> USE DEF IndInv, LockTypeOK, Phases, Made, Over
<1>1. ASSUME NEW c \in Runs, Run(c) PROVE IndInv'
  <2> USE <1>1 DEF Run, SameKey
  <2>1. LockTypeOK'
    OBVIOUS
  <2>2. \A d \in Runs \ {c} : prev'[d] = prev[d] /\ earlier'[d] = earlier[d]
                             /\ phase'[d] = phase[d]
    OBVIOUS
  <2>3. /\ phase'[c] = "waiting" /\ prev'[c] = tails[Key[c]]
        /\ earlier'[c] = {d \in Runs : Key[d] = Key[c] /\ Made(d)}
        /\ tails'[Key[c]] = c
        /\ \A k \in Keys \ {Key[c]} : tails'[k] = tails[k]
    OBVIOUS
  <2>4. ASSUME NEW d \in Runs, Made(d)' PROVE ChainedRight(d)'
    <3>1. CASE d = c
      BY <2>2, <2>3, <3>1 DEF ChainedRight, TailRight
    <3>2. CASE d # c
      <4>1. Made(d) /\ ChainedRight(d)
        BY <2>2, <2>4, <3>2
      <4>2. prev[d] # c
        BY <4>1 DEF ChainedRight
      <4>3. CASE prev[d] = NoCall
        BY <2>2, <3>2, <4>1, <4>3 DEF ChainedRight
      <4>4. CASE prev[d] # NoCall
        BY <2>2, <3>2, <4>1, <4>2, <4>4 DEF ChainedRight
      <4> QED
        BY <4>3, <4>4
    <3> QED
      BY <3>1, <3>2
  <2>5. ASSUME NEW k \in Keys PROVE TailRight(k)'
    <3>1. CASE k = Key[c]
      BY <2>2, <2>3, <3>1 DEF TailRight
    <3>2. CASE k # Key[c]
      <4>1. TailRight(k) /\ tails'[k] = tails[k]
        BY <2>3, <3>2
      <4>2. tails[k] # c
        BY <4>1 DEF TailRight
      <4> QED
        BY <2>2, <3>2, <4>1, <4>2 DEF TailRight
    <3> QED
      BY <3>1, <3>2
  <2>6. ASSUME NEW d \in Runs PROVE InTurn(d)'
    BY <2>2, <2>3 DEF InTurn
  <2>7. ASSUME NEW d \in Runs, NEW e \in Runs PROVE Ordered(d, e)'
    BY <2>2, <2>3 DEF Ordered
  <2>8. ASSUME NEW d \in Runs PROVE SweptRight(d)'
    BY DEF SweptRight
  <2> QED
    BY <2>1, <2>4, <2>5, <2>6, <2>7, <2>8
<1>2. ASSUME NEW c \in Runs, Start(c) PROVE IndInv'
  <2> USE <1>2 DEF Start
  <2>1. LockTypeOK'
    OBVIOUS
  <2>2. \A d \in Runs : (Made(d)' <=> Made(d)) /\ (Over(d)' <=> Over(d))
    OBVIOUS
  <2>3. \A d \in earlier[c] : Over(d)
    BY DEF ChainedRight, InTurn
  <2>4. ASSUME NEW d \in Runs, Made(d)' PROVE ChainedRight(d)'
    BY <2>2, <2>4 DEF ChainedRight
  <2>5. ASSUME NEW k \in Keys PROVE TailRight(k)'
    BY <2>2 DEF TailRight
  <2>6. ASSUME NEW d \in Runs PROVE InTurn(d)'
    BY <2>2, <2>3 DEF InTurn
  <2>7. ASSUME NEW d \in Runs, NEW e \in Runs PROVE Ordered(d, e)'
    BY <2>2 DEF Ordered
  <2>8. ASSUME NEW d \in Runs PROVE SweptRight(d)'
    BY DEF SweptRight
  <2> QED
    BY <2>1, <2>4, <2>5, <2>6, <2>7, <2>8
<1>3. ASSUME NEW c \in Runs, End(c) PROVE IndInv'
  <2> USE <1>3 DEF End
  <2>1. LockTypeOK'
    OBVIOUS
  <2>2. \A d \in Runs : (Made(d)' <=> Made(d)) /\ (Over(d) => Over(d)')
    OBVIOUS
  <2>3. ASSUME NEW d \in Runs, Made(d)' PROVE ChainedRight(d)'
    BY <2>2, <2>3 DEF ChainedRight
  <2>4. ASSUME NEW k \in Keys PROVE TailRight(k)'
    BY <2>2 DEF TailRight
  <2>5. ASSUME NEW d \in Runs PROVE InTurn(d)'
    BY <2>2 DEF InTurn
  <2>6. ASSUME NEW d \in Runs, NEW e \in Runs PROVE Ordered(d, e)'
    BY <2>2 DEF Ordered
  <2>7. ASSUME NEW d \in Runs PROVE SweptRight(d)'
    BY <2>2 DEF SweptRight
  <2> QED
    BY <2>1, <2>3, <2>4, <2>5, <2>6, <2>7
<1>4. ASSUME NEW c \in Runs, Sweep(c) PROVE IndInv'
  <2> USE <1>4 DEF Sweep
  <2>1. LockTypeOK'
    OBVIOUS
  <2>2. ASSUME NEW k \in Keys PROVE TailRight(k)'
    <3>1. TailRight(k)
      OBVIOUS
    <3>2. CASE tails[k] = c /\ k = Key[c]
      <4>1. \A d \in Runs : Key[d] = k /\ Made(d) => Over(d)
        BY <3>1, <3>2 DEF TailRight, InTurn
      <4> QED
        BY <3>2, <4>1 DEF TailRight
    <3>3. CASE ~(tails[k] = c /\ k = Key[c])
      <4>1. tails'[k] = tails[k]
        BY <3>3
      <4> QED
        BY <3>1, <4>1 DEF TailRight
    <3> QED
      BY <3>2, <3>3
  <2>3. \A d \in Runs : Made(d)' => ChainedRight(d)'
    BY DEF ChainedRight
  <2>4. \A d \in Runs : InTurn(d)'
    BY DEF InTurn
  <2>5. \A d, e \in Runs : Ordered(d, e)'
    BY DEF Ordered
  <2>6. ASSUME NEW d \in Runs PROVE SweptRight(d)'
    BY DEF SweptRight
  <2> QED
    BY <2>1, <2>2, <2>3, <2>4, <2>5, <2>6
<1>5. CASE UNCHANGED lockVars
  BY <1>5 DEF lockVars, ChainedRight, TailRight, InTurn, Ordered, SweptRight
<1> HIDE DEF IndInv
<1> QED
  BY <1>1, <1>2, <1>3, <1>4, <1>5 DEF LockNext

\* The invariant holds of every behaviour of the lock.
THEOREM Inductive == LockSpec => []IndInv
<1> QED
  BY InvInit, InvStep, PTL DEF LockSpec

\* Two calls with one key never run at the same time (run of keyedLock.ts).
THEOREM Exclusive == LockSpec => []MutualExclusion
<1>1. IndInv => MutualExclusion
  BY DEF IndInv, MutualExclusion, InTurn, Ordered, Made, Over
<1> QED
  BY <1>1, Inductive, PTL

\* The map of the lock holds nothing for a key whose calls are over and swept
\* (the cleanup of keyedLock.ts).
THEOREM NothingLeft == LockSpec => []NothingKept
<1>1. IndInv => NothingKept
  BY DEF IndInv, LockTypeOK, NothingKept, TailRight, SweptRight, Made
<1> QED
  BY <1>1, Inductive, PTL

\* The promise chain implements the lock by key: a call starts only when all
\* the calls made before it with its key are over, resolved or rejected.
THEOREM Implements == LockSpec => MutexKept
<1>1. LockInit => Mutex!Init
  BY DEF LockInit, Mutex!Init
<1>2. IndInv /\ [LockNext]_lockVars => [Mutex!Next]_(Mutex!vars)
  <2> SUFFICES ASSUME IndInv, [LockNext]_lockVars PROVE [Mutex!Next]_(Mutex!vars)
    OBVIOUS
  <2>1. ASSUME NEW c \in Runs, Run(c) PROVE Mutex!Make(c)
    BY <2>1 DEF Run, Mutex!Make, SameKey, Mutex!SameKey, Made
  <2>2. ASSUME NEW c \in Runs, Start(c) PROVE Mutex!Start(c)
    <3>1. \A d \in earlier[c] : Over(d)
      BY <2>2, NoCallAssumption
      DEF Start, IndInv, LockTypeOK, ChainedRight, InTurn, Made, Over
    <3> QED
      BY <2>2, <3>1 DEF Start, Mutex!Start, Over, Mutex!Over
  <2>3. ASSUME NEW c \in Runs, End(c) PROVE Mutex!End(c)
    BY <2>3 DEF End, Mutex!End
  <2>4. ASSUME NEW c \in Runs, Sweep(c) PROVE UNCHANGED Mutex!vars
    BY <2>4 DEF Sweep, Mutex!vars
  <2>5. CASE UNCHANGED lockVars
    BY <2>5 DEF lockVars, Mutex!vars
  <2> QED
    BY <2>1, <2>2, <2>3, <2>4, <2>5 DEF LockNext, Mutex!Next
<1> QED
  BY <1>1, <1>2, Inductive, PTL DEF LockSpec, MutexKept, Mutex!Spec

=============================================================================
