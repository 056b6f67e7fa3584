----------------------------- MODULE DemoProofs -----------------------------
(***************************************************************************)
(* The theorems about the mock network and the demo that runs on it: the   *)
(* nodes agree on what is held and paid, money moves exactly as it is paid, *)
(* and the records the dashboard shows are true.                           *)
(***************************************************************************)
EXTENDS MockWorld, Demo, SumProofs, SequenceTheorems, TLAPS

-----------------------------------------------------------------------------
(* The mock network                                                         *)

Records == [status : {"none", "Inflight", "Success", "Failed"}, amount : {0, 1}]
InFlight == [status |-> "Inflight", amount |-> 1]
PaidNow == [status |-> "Success", amount |-> 1]     \* of a regular invoice
PaidOut == [status |-> "Success", amount |-> 0]     \* of a hold invoice settled
GivenBack == [status |-> "Failed", amount |-> 0]

\* What the nodes keep of an invoice has its shape.
WorldShapes ==
    /\ bill \in [DOMAIN Bills -> {"none", "Open", "Received", "Paid", "Cancelled"}]
    /\ paid \in [Nodes -> [DOMAIN Bills -> Records]]
    /\ heldBy = [i \in DOMAIN Bills |-> heldBy[i]]
    /\ watch \in [Nodes -> [DOMAIN Bills -> {"no", "yes", "got"}]]
    /\ flowed \in [Nodes -> [DOMAIN Bills -> Nat]]

\* A payment is held exactly of an invoice that is received, a hold invoice,
\* unless a settlement stopped halfway, and is in flight at its payer; ...
HeldRight ==
    \A i \in DOMAIN Bills :
        /\ bill[i] = "Received" => heldBy[i] # NotHeld
        /\ heldBy[i] # NotHeld => bill[i] = "Received" \/ (torn /\ bill[i] = "Paid")
        /\ heldBy[i] # NotHeld =>
              /\ Bills[i].held /\ heldBy[i].node \in Nodes
              /\ paid[heldBy[i].node][i] = InFlight

\* ... what is known to have succeeded has moved money, and an invoice whose
\* money moved is not open again; ...
PaidRightly ==
    \A i \in DOMAIN Bills, n \in Nodes :
        /\ paid[n][i].status = "Success" => flowed[n][i] > 0
        /\ watch[n][i] = "got" => flowed[n][i] > 0 \/ (n = Bills[i].issuer /\ ~Bills[i].held)
        /\ flowed[n][i] > 0 => bill[i] \notin {"none", "Open"}

\* ... a regular invoice has its record exactly where its money moved, and the
\* record of a settled hold invoice says no amount.
LedgerRight ==
    \A i \in DOMAIN Bills, n \in Nodes :
        /\ ~Bills[i].held => paid[n][i] = IF flowed[n][i] > 0 THEN PaidNow ELSE NoRecord
        /\ Bills[i].held /\ paid[n][i].status = "Success" => paid[n][i].amount = 0

WorldInv == WorldShapes /\ HeldRight /\ PaidRightly /\ LedgerRight

-----------------------------------------------------------------------------

\* The records are records, and tell what they tell.
LEMMA RecordsAre ==
    /\ {NoRecord, InFlight, PaidNow, PaidOut, GivenBack} \subseteq Records
    /\ NoRecord.status = "none" /\ InFlight.status = "Inflight"
    /\ PaidNow.status = "Success" /\ PaidOut.status = "Success" /\ PaidOut.amount = 0
    /\ GivenBack.status = "Failed"
BY DEF Records, NoRecord, InFlight, PaidNow, PaidOut, GivenBack

\* What emitPreimage changes.
LEMMA ToldChanges ==
    ASSUME WorldShapes, NEW n \in Nodes, NEW i \in DOMAIN Bills, watch' = Told(n, i)
    PROVE  /\ watch' \in [Nodes -> [DOMAIN Bills -> {"no", "yes", "got"}]]
           /\ \A m \in Nodes, j \in DOMAIN Bills :
                 m # n \/ j # i => watch'[m][j] = watch[m][j]
<1>1. watch \in [Nodes -> [DOMAIN Bills -> {"no", "yes", "got"}]]
  BY DEF WorldShapes
<1>2. PICK v \in {"no", "yes", "got"} : v = IF watch[n][i] = "yes" THEN "got" ELSE watch[n][i]
  BY <1>1
<1>3. watch' = [watch EXCEPT ![n][i] = v]
  BY <1>1, <1>2 DEF Told
<1> QED
  BY <1>1, <1>2, <1>3

\* A payment record is written.
LEMMA PaidChanges ==
    ASSUME WorldShapes, NEW n \in Nodes, NEW i \in DOMAIN Bills, NEW r \in Records,
           paid' = [paid EXCEPT ![n][i] = r]
    PROVE  /\ paid' \in [Nodes -> [DOMAIN Bills -> Records]] /\ paid'[n][i] = r
           /\ \A m \in Nodes, j \in DOMAIN Bills : m # n \/ j # i => paid'[m][j] = paid[m][j]
BY DEF WorldShapes

\* A payment moves money once more.
LEMMA MovedChanges ==
    ASSUME WorldShapes, NEW n \in Nodes, NEW i \in DOMAIN Bills,
           flowed' = [flowed EXCEPT ![n][i] = @ + 1]
    PROVE  /\ flowed' \in [Nodes -> [DOMAIN Bills -> Nat]]
           /\ flowed[n][i] \in Nat /\ flowed'[n][i] = flowed[n][i] + 1
           /\ \A m \in Nodes, j \in DOMAIN Bills : m # n \/ j # i => flowed'[m][j] = flowed[m][j]
BY DEF WorldShapes

\* Then there is a payment that moved money.
LEMMA MovedUp ==
    ASSUME WorldShapes, NEW n \in Nodes, NEW i \in DOMAIN Bills,
           flowed' = [flowed EXCEPT ![n][i] = @ + 1]
    PROVE  /\ flowed' \in [Nodes -> [DOMAIN Bills -> Nat]] /\ flowed'[n][i] > 0
           /\ \A m \in Nodes, j \in DOMAIN Bills : m # n \/ j # i => flowed'[m][j] = flowed[m][j]
<1>1. /\ flowed' \in [Nodes -> [DOMAIN Bills -> Nat]]
      /\ flowed[n][i] \in Nat /\ flowed'[n][i] = flowed[n][i] + 1
      /\ \A m \in Nodes, j \in DOMAIN Bills : m # n \/ j # i => flowed'[m][j] = flowed[m][j]
  BY MovedChanges
<1> QED
  BY <1>1

\* Nothing has been issued, paid or observed yet.
LEMMA WorldInvInit == WorldInit => WorldInv
<1> SUFFICES ASSUME WorldInit PROVE WorldInv
  OBVIOUS
<1>1. /\ bill = [i \in DOMAIN Bills |-> "none"]
      /\ heldBy = [i \in DOMAIN Bills |-> NotHeld]
      /\ watch = [n \in Nodes |-> [i \in DOMAIN Bills |-> "no"]]
      /\ paid = [n \in Nodes |-> [i \in DOMAIN Bills |-> NoRecord]]
      /\ flowed = [n \in Nodes |-> [i \in DOMAIN Bills |-> 0]]
  BY DEF WorldInit
<1>2. \A n \in Nodes, i \in DOMAIN Bills :
         watch[n][i] = "no" /\ paid[n][i] = NoRecord /\ flowed[n][i] = 0
  BY <1>1
<1>3. WorldShapes
  BY <1>1, RecordsAre DEF WorldShapes
<1>4. HeldRight
  BY <1>1 DEF HeldRight
<1>5. PaidRightly
  BY <1>2, RecordsAre DEF PaidRightly
<1>6. LedgerRight
  BY <1>2, RecordsAre DEF LedgerRight
<1> QED
  BY <1>3, <1>4, <1>5, <1>6 DEF WorldInv

\* What is left of a step when only what concerns n and invoice i has changed.
Else(n, i) ==
    /\ \A j \in DOMAIN Bills \ {i} : bill'[j] = bill[j] /\ heldBy'[j] = heldBy[j]
    /\ \A m \in Nodes, j \in DOMAIN Bills : m # n \/ j # i =>
          paid'[m][j] = paid[m][j] /\ watch'[m][j] = watch[m][j] /\ flowed'[m][j] = flowed[m][j]
    /\ torn' = torn

LEMMA ElseKeeps ==
    ASSUME WorldInv, WorldShapes', NEW n \in Nodes, NEW i \in DOMAIN Bills, Else(n, i),
           heldBy'[i] # NotHeld <=> bill'[i] = "Received",
           heldBy'[i] # NotHeld => Bills[i].held /\ heldBy'[i].node = n /\ paid'[n][i] = InFlight,
           paid'[n][i].status = "Success" => flowed'[n][i] > 0,
           watch'[n][i] = "got" => flowed'[n][i] > 0 \/ (n = Bills[i].issuer /\ ~Bills[i].held),
           \A m \in Nodes : flowed'[m][i] > 0 => bill'[i] \notin {"none", "Open"},
           ~Bills[i].held => paid'[n][i] = IF flowed'[n][i] > 0 THEN PaidNow ELSE NoRecord,
           Bills[i].held /\ paid'[n][i].status = "Success" => paid'[n][i].amount = 0
    PROVE  WorldInv'
<1>1. HeldRight /\ PaidRightly /\ LedgerRight
  BY DEF WorldInv
<1>2. /\ \A j \in DOMAIN Bills \ {i} : bill'[j] = bill[j] /\ heldBy'[j] = heldBy[j]
      /\ \A m \in Nodes, j \in DOMAIN Bills : m # n \/ j # i =>
            paid'[m][j] = paid[m][j] /\ watch'[m][j] = watch[m][j] /\ flowed'[m][j] = flowed[m][j]
      /\ torn' = torn
  BY DEF Else
<1>3. HeldRight'
  <2> SUFFICES ASSUME NEW j \in DOMAIN Bills
               PROVE  /\ bill'[j] = "Received" => heldBy'[j] # NotHeld
                      /\ heldBy'[j] # NotHeld =>
                            bill'[j] = "Received" \/ (torn' /\ bill'[j] = "Paid")
                      /\ heldBy'[j] # NotHeld => /\ Bills[j].held /\ heldBy'[j].node \in Nodes
                                                 /\ paid'[heldBy'[j].node][j] = InFlight
    BY DEF HeldRight
  <2>1. CASE j = i
    BY <2>1
  <2>2. CASE j # i
    BY <1>1, <1>2, <2>2 DEF HeldRight
  <2> QED
    BY <2>1, <2>2
<1>4. PaidRightly'
  <2> SUFFICES ASSUME NEW j \in DOMAIN Bills, NEW m \in Nodes
               PROVE  /\ paid'[m][j].status = "Success" => flowed'[m][j] > 0
                      /\ watch'[m][j] = "got" =>
                            flowed'[m][j] > 0 \/ (m = Bills[j].issuer /\ ~Bills[j].held)
                      /\ flowed'[m][j] > 0 => bill'[j] \notin {"none", "Open"}
    BY DEF PaidRightly
  <2>1. CASE m = n /\ j = i
    BY <2>1
  <2>2. CASE m # n \/ j # i
    <3>1. /\ paid'[m][j] = paid[m][j] /\ watch'[m][j] = watch[m][j]
          /\ flowed'[m][j] = flowed[m][j]
      BY <1>2, <2>2
    <3>2. j # i => bill'[j] = bill[j]
      BY <1>2
    <3> QED
      BY <1>1, <3>1, <3>2 DEF PaidRightly
  <2> QED
    BY <2>1, <2>2
<1>5. LedgerRight'
  <2> SUFFICES ASSUME NEW j \in DOMAIN Bills, NEW m \in Nodes
               PROVE  /\ ~Bills[j].held =>
                            paid'[m][j] = IF flowed'[m][j] > 0 THEN PaidNow ELSE NoRecord
                      /\ Bills[j].held /\ paid'[m][j].status = "Success" => paid'[m][j].amount = 0
    BY DEF LedgerRight
  <2>1. CASE m = n /\ j = i
    BY <2>1
  <2>2. CASE m # n \/ j # i
    BY <1>1, <1>2, <2>2 DEF LedgerRight
  <2> QED
    BY <2>1, <2>2
<1> QED
  BY <1>3, <1>4, <1>5 DEF WorldInv

\* An invoice is issued.
LEMMA NewKeeps ==
    ASSUME WorldInv, NEW i \in DOMAIN Bills, NewInvoice(i)
    PROVE  WorldInv'
<1> DEFINE n == Bills[i].issuer
<1>1. WorldShapes /\ HeldRight /\ PaidRightly /\ LedgerRight
  BY DEF WorldInv
<1>2. /\ bill[i] = "none" /\ bill' = [bill EXCEPT ![i] = "Open"]
      /\ UNCHANGED <<paid, heldBy, flowed, torn>> /\ n \in Nodes
      /\ \/ Bills[i].held /\ watch' = watch
         \/ ~Bills[i].held /\ watch' = Told(n, i)
  BY BillsAssumption DEF NewInvoice
<1> HIDE DEF n
<1>3. /\ watch' \in [Nodes -> [DOMAIN Bills -> {"no", "yes", "got"}]]
      /\ \A m \in Nodes, j \in DOMAIN Bills : m # n \/ j # i => watch'[m][j] = watch[m][j]
      /\ Bills[i].held => watch'[n][i] = watch[n][i]
  <2>1. CASE watch' = watch /\ Bills[i].held
    BY <1>1, <2>1 DEF WorldShapes
  <2>2. CASE watch' = Told(n, i) /\ ~Bills[i].held
    BY <1>1, <1>2, <2>2, ToldChanges
  <2> QED
    BY <1>2, <2>1, <2>2
<1>4. /\ WorldShapes' /\ bill'[i] = "Open"
      /\ \A j \in DOMAIN Bills \ {i} : bill'[j] = bill[j]
  BY <1>1, <1>2, <1>3 DEF WorldShapes
<1>5. Else(n, i)
  BY <1>2, <1>3, <1>4 DEF Else
<1>6. heldBy'[i] = NotHeld
  BY <1>1, <1>2 DEF HeldRight
<1>7. \A m \in Nodes : ~(flowed'[m][i] > 0)
  BY <1>1, <1>2 DEF PaidRightly
<1>8. /\ paid'[n][i].status = "Success" => flowed'[n][i] > 0
      /\ watch'[n][i] = "got" => flowed'[n][i] > 0 \/ (n = Bills[i].issuer /\ ~Bills[i].held)
  BY <1>1, <1>2, <1>3 DEF PaidRightly, n
<1>9. /\ ~Bills[i].held => paid'[n][i] = IF flowed'[n][i] > 0 THEN PaidNow ELSE NoRecord
      /\ Bills[i].held /\ paid'[n][i].status = "Success" => paid'[n][i].amount = 0
  BY <1>1, <1>2 DEF LedgerRight
<1> QED
  BY <1>2, <1>4, <1>5, <1>6, <1>7, <1>8, <1>9, ElseKeeps

\* An invoice is settled: nothing is held of it, or what is held is paid out.
LEMMA SettleKeeps ==
    ASSUME WorldInv, NEW i \in DOMAIN Bills, SettleMock(i)
    PROVE  WorldInv'
<1>1. WorldShapes /\ HeldRight /\ PaidRightly /\ LedgerRight
  BY DEF WorldInv
<1>2. bill[i] # "none" /\ bill' = [bill EXCEPT ![i] = "Paid"] /\ torn' = torn
  BY DEF SettleMock
<1>3. /\ bill' \in [DOMAIN Bills -> {"none", "Open", "Received", "Paid", "Cancelled"}]
      /\ bill'[i] = "Paid" /\ \A j \in DOMAIN Bills \ {i} : bill'[j] = bill[j]
  BY <1>1, <1>2 DEF WorldShapes
<1>4. CASE heldBy[i] = NotHeld /\ UNCHANGED <<paid, heldBy, watch, flowed>>
  <2> DEFINE n == Bills[i].issuer
  <2>1. n \in Nodes
    BY BillsAssumption
  <2>2. WorldShapes'
    BY <1>1, <1>3, <1>4 DEF WorldShapes
  <2>3. Else(n, i)
    BY <1>2, <1>3, <1>4 DEF Else
  <2>4. /\ paid'[n][i].status = "Success" => flowed'[n][i] > 0
        /\ watch'[n][i] = "got" => flowed'[n][i] > 0 \/ (n = Bills[i].issuer /\ ~Bills[i].held)
    BY <1>1, <1>4, <2>1 DEF PaidRightly
  <2>5. /\ ~Bills[i].held => paid'[n][i] = IF flowed'[n][i] > 0 THEN PaidNow ELSE NoRecord
        /\ Bills[i].held /\ paid'[n][i].status = "Success" => paid'[n][i].amount = 0
    BY <1>1, <1>4, <2>1 DEF LedgerRight
  <2> HIDE DEF n
  <2> QED
    BY <1>3, <1>4, <2>1, <2>2, <2>3, <2>4, <2>5, ElseKeeps
<1>5. CASE heldBy[i] # NotHeld
  <2>1. PICK n : n = heldBy[i].node
    OBVIOUS
  <2>2. n \in Nodes /\ Bills[i].held
    BY <1>1, <1>5, <2>1 DEF HeldRight
  <2>3. /\ paid' = [paid EXCEPT ![n][i] = PaidOut] /\ flowed' = [flowed EXCEPT ![n][i] = @ + 1]
        /\ watch' = Told(n, i) /\ heldBy' = [heldBy EXCEPT ![i] = NotHeld]
    BY <1>5, <2>1 DEF SettleMock, PaidOut
  <2>4. /\ watch' \in [Nodes -> [DOMAIN Bills -> {"no", "yes", "got"}]]
        /\ \A m \in Nodes, j \in DOMAIN Bills : m # n \/ j # i => watch'[m][j] = watch[m][j]
    BY <1>1, <2>2, <2>3, ToldChanges
  <2>5. /\ paid' \in [Nodes -> [DOMAIN Bills -> Records]] /\ paid'[n][i] = PaidOut
        /\ \A m \in Nodes, j \in DOMAIN Bills : m # n \/ j # i => paid'[m][j] = paid[m][j]
    BY <1>1, <2>2, <2>3, PaidChanges, RecordsAre
  <2>6. /\ flowed' \in [Nodes -> [DOMAIN Bills -> Nat]] /\ flowed'[n][i] > 0
        /\ \A m \in Nodes, j \in DOMAIN Bills : m # n \/ j # i => flowed'[m][j] = flowed[m][j]
    BY <1>1, <2>2, <2>3, MovedUp
  <2>7. /\ heldBy' = [j \in DOMAIN Bills |-> heldBy'[j]] /\ heldBy'[i] = NotHeld
        /\ \A j \in DOMAIN Bills \ {i} : heldBy'[j] = heldBy[j]
    BY <1>1, <2>3 DEF WorldShapes
  <2>8. WorldShapes'
    BY <1>3, <2>4, <2>5, <2>6, <2>7 DEF WorldShapes
  <2>9. Else(n, i)
    BY <1>2, <1>3, <2>4, <2>5, <2>6, <2>7 DEF Else
  <2> QED
    BY <1>3, <2>2, <2>5, <2>6, <2>7, <2>8, <2>9, RecordsAre, ElseKeeps
<1> QED
  BY <1>4, <1>5 DEF SettleMock

\* A settlement stops: the invoice is paid, its payment still held.
LEMMA StopKeeps ==
    ASSUME WorldInv, NEW i \in DOMAIN Bills, SettleStops(i)
    PROVE  WorldInv'
<1>1. /\ bill' = [bill EXCEPT ![i] = "Paid"] /\ torn' = TRUE
      /\ UNCHANGED <<paid, heldBy, watch, flowed>>
  BY DEF SettleStops, Stops
<1>2. WorldShapes /\ HeldRight /\ PaidRightly /\ LedgerRight
  BY DEF WorldInv
<1>3. WorldShapes' /\ LedgerRight'
  BY <1>1, <1>2 DEF WorldShapes, LedgerRight
<1>4. \A j \in DOMAIN Bills : bill'[j] = "Paid" \/ bill'[j] = bill[j]
  BY <1>1, <1>2 DEF WorldShapes
<1>5. HeldRight'
  BY <1>1, <1>2, <1>4 DEF HeldRight
<1>6. PaidRightly'
  BY <1>1, <1>2, <1>4 DEF PaidRightly
<1> QED
  BY <1>3, <1>5, <1>6 DEF WorldInv

\* An invoice is cancelled, and what is held of it given back.
LEMMA CancelKeeps ==
    ASSUME WorldInv, NEW i \in DOMAIN Bills, CancelMock(i)
    PROVE  WorldInv'
<1>1. WorldShapes /\ HeldRight /\ PaidRightly /\ LedgerRight
  BY DEF WorldInv
<1>2. /\ bill' = [bill EXCEPT ![i] = "Cancelled"] /\ heldBy' = [heldBy EXCEPT ![i] = NotHeld]
      /\ UNCHANGED <<watch, flowed, torn>>
      /\ \/ heldBy[i] = NotHeld /\ paid' = paid
         \/ heldBy[i] # NotHeld /\ paid' = [paid EXCEPT ![heldBy[i].node][i] = GivenBack]
  BY DEF CancelMock, GivenBack
<1>3. /\ bill' \in [DOMAIN Bills -> {"none", "Open", "Received", "Paid", "Cancelled"}]
      /\ bill'[i] = "Cancelled" /\ \A j \in DOMAIN Bills \ {i} : bill'[j] = bill[j]
      /\ heldBy' = [j \in DOMAIN Bills |-> heldBy'[j]] /\ heldBy'[i] = NotHeld
      /\ \A j \in DOMAIN Bills \ {i} : heldBy'[j] = heldBy[j]
  BY <1>1, <1>2 DEF WorldShapes
<1>4. PICK n \in Nodes :
         \/ heldBy[i] = NotHeld /\ paid' = paid
         \/ Bills[i].held /\ paid' = [paid EXCEPT ![n][i] = GivenBack]
  <2>1. CASE heldBy[i] = NotHeld /\ paid' = paid
    <3>1. Bills[i].issuer \in Nodes
      BY BillsAssumption
    <3> QED
      BY <2>1, <3>1
  <2>2. CASE heldBy[i] # NotHeld
    BY <1>1, <1>2, <2>2 DEF HeldRight
  <2> QED
    BY <1>2, <2>1, <2>2
<1>5. /\ paid' \in [Nodes -> [DOMAIN Bills -> Records]]
      /\ paid'[n][i] = paid[n][i] \/ (Bills[i].held /\ paid'[n][i] = GivenBack)
      /\ \A m \in Nodes, j \in DOMAIN Bills : m # n \/ j # i => paid'[m][j] = paid[m][j]
  <2>1. CASE paid' = paid
    BY <1>1, <2>1 DEF WorldShapes
  <2>2. CASE Bills[i].held /\ paid' = [paid EXCEPT ![n][i] = GivenBack]
    BY <1>1, <2>2, PaidChanges, RecordsAre
  <2> QED
    BY <1>4, <2>1, <2>2
<1>6. WorldShapes' /\ Else(n, i)
  BY <1>1, <1>2, <1>3, <1>5 DEF WorldShapes, Else
<1>7. /\ paid'[n][i].status = "Success" => flowed'[n][i] > 0
      /\ watch'[n][i] = "got" => flowed'[n][i] > 0 \/ (n = Bills[i].issuer /\ ~Bills[i].held)
  BY <1>1, <1>2, <1>5, RecordsAre DEF PaidRightly
<1>8. /\ ~Bills[i].held => paid'[n][i] = IF flowed'[n][i] > 0 THEN PaidNow ELSE NoRecord
      /\ Bills[i].held /\ paid'[n][i].status = "Success" => paid'[n][i].amount = 0
  BY <1>1, <1>2, <1>5, RecordsAre DEF LedgerRight
<1> QED
  BY <1>3, <1>6, <1>7, <1>8, ElseKeeps

\* An invoice is paid, perhaps once more: a hold invoice's payment is held, a
\* regular invoice's moves money.
LEMMA SendKeeps ==
    ASSUME WorldInv, NEW n \in Nodes, NEW i \in DOMAIN Bills, SendPayment(n, i)
    PROVE  WorldInv'
<1>1. WorldShapes /\ HeldRight /\ PaidRightly /\ LedgerRight
  BY DEF WorldInv
<1>2. CASE Bills[i].held
  <2>1. PICK h : /\ bill' = [bill EXCEPT ![i] = "Received"]
                 /\ paid' = [paid EXCEPT ![n][i] = InFlight]
                 /\ heldBy' = [heldBy EXCEPT ![i] = [node |-> n, hops |-> h]]
                 /\ UNCHANGED <<watch, flowed, torn>>
    BY <1>2 DEF SendPayment, InFlight
  <2>2. /\ paid' \in [Nodes -> [DOMAIN Bills -> Records]] /\ paid'[n][i] = InFlight
        /\ \A m \in Nodes, j \in DOMAIN Bills : m # n \/ j # i => paid'[m][j] = paid[m][j]
    BY <1>1, <2>1, PaidChanges, RecordsAre
  <2>3. /\ bill' \in [DOMAIN Bills -> {"none", "Open", "Received", "Paid", "Cancelled"}]
        /\ bill'[i] = "Received" /\ heldBy'[i] = [node |-> n, hops |-> h]
        /\ heldBy' = [j \in DOMAIN Bills |-> heldBy'[j]]
        /\ \A j \in DOMAIN Bills \ {i} : bill'[j] = bill[j] /\ heldBy'[j] = heldBy[j]
    BY <1>1, <2>1 DEF WorldShapes
  <2>4. heldBy'[i] # NotHeld /\ heldBy'[i].node = n
    <3>1. heldBy'[i].node = n
      BY <2>3
    <3>2. NotHeld.node = "" /\ n # ""
      BY NamesAssumption DEF NotHeld
    <3> QED
      BY <3>1, <3>2
  <2>5. WorldShapes' /\ Else(n, i)
    BY <1>1, <2>1, <2>2, <2>3 DEF WorldShapes, Else
  <2>6. watch'[n][i] = "got" => flowed'[n][i] > 0 \/ (n = Bills[i].issuer /\ ~Bills[i].held)
    BY <1>1, <2>1 DEF PaidRightly
  <2> QED
    BY <1>2, <2>2, <2>3, <2>4, <2>5, <2>6, RecordsAre, ElseKeeps
<1>3. CASE ~Bills[i].held
  <2>1. /\ bill' = [bill EXCEPT ![i] = "Paid"] /\ paid' = [paid EXCEPT ![n][i] = PaidNow]
        /\ flowed' = [flowed EXCEPT ![n][i] = @ + 1] /\ watch' = Told(n, i)
        /\ UNCHANGED <<heldBy, torn>>
    BY <1>3 DEF SendPayment, PaidNow
  <2>2. /\ paid' \in [Nodes -> [DOMAIN Bills -> Records]] /\ paid'[n][i] = PaidNow
        /\ \A m \in Nodes, j \in DOMAIN Bills : m # n \/ j # i => paid'[m][j] = paid[m][j]
    BY <1>1, <2>1, PaidChanges, RecordsAre
  <2>3. /\ watch' \in [Nodes -> [DOMAIN Bills -> {"no", "yes", "got"}]]
        /\ \A m \in Nodes, j \in DOMAIN Bills : m # n \/ j # i => watch'[m][j] = watch[m][j]
    BY <1>1, <2>1, ToldChanges
  <2>4. /\ flowed' \in [Nodes -> [DOMAIN Bills -> Nat]] /\ flowed'[n][i] > 0
        /\ \A m \in Nodes, j \in DOMAIN Bills : m # n \/ j # i => flowed'[m][j] = flowed[m][j]
    BY <1>1, <2>1, MovedUp
  <2>5. /\ bill' \in [DOMAIN Bills -> {"none", "Open", "Received", "Paid", "Cancelled"}]
        /\ bill'[i] = "Paid" /\ \A j \in DOMAIN Bills \ {i} : bill'[j] = bill[j]
    BY <1>1, <2>1 DEF WorldShapes
  <2>6. heldBy'[i] = NotHeld
    BY <1>1, <1>3, <2>1 DEF HeldRight
  <2>7. WorldShapes' /\ Else(n, i)
    BY <1>1, <2>1, <2>2, <2>3, <2>4, <2>5 DEF WorldShapes, Else
  <2> QED
    BY <1>3, <2>2, <2>4, <2>5, <2>6, <2>7, RecordsAre, ElseKeeps
<1> QED
  BY <1>2, <1>3

\* Every call of a node keeps what the nodes have of the same payment in agreement.
LEMMA WorldInvStep == WorldInv /\ [WorldNext]_worldVars => WorldInv'
<1> SUFFICES ASSUME WorldInv, [WorldNext]_worldVars PROVE WorldInv'
  OBVIOUS
<1>1. WorldShapes /\ HeldRight /\ PaidRightly /\ LedgerRight
  BY DEF WorldInv
<1>2. ASSUME UNCHANGED <<bill, paid, heldBy, watch, flowed>>, torn => torn' PROVE WorldInv'
  <2>1. WorldShapes' /\ HeldRight'
    BY <1>1, <1>2 DEF WorldShapes, HeldRight
  <2>2. PaidRightly' /\ LedgerRight'
    BY <1>1, <1>2 DEF PaidRightly, LedgerRight
  <2> QED
    BY <2>1, <2>2 DEF WorldInv
<1>3. ASSUME NEW n \in Nodes, NEW i \in DOMAIN Bills, ObserveMock(n, i) PROVE WorldInv'
  <2>1. /\ watch' = [watch EXCEPT ![n][i] = "yes"] /\ UNCHANGED <<bill, paid, heldBy, flowed, torn>>
    BY <1>3 DEF ObserveMock
  <2>2. /\ watch' \in [Nodes -> [DOMAIN Bills -> {"no", "yes", "got"}]]
        /\ watch'[n][i] = "yes"
        /\ \A m \in Nodes, j \in DOMAIN Bills : m # n \/ j # i => watch'[m][j] = watch[m][j]
    BY <1>1, <2>1 DEF WorldShapes
  <2>3. WorldShapes' /\ HeldRight' /\ LedgerRight'
    BY <1>1, <2>1, <2>2 DEF WorldShapes, HeldRight, LedgerRight
  <2>4. \A m \in Nodes, j \in DOMAIN Bills : watch'[m][j] = "got" => watch[m][j] = "got"
    BY <2>2
  <2>5. PaidRightly'
    BY <1>1, <2>1, <2>4 DEF PaidRightly
  <2> QED
    BY <2>3, <2>5 DEF WorldInv
<1>4. CASE UNCHANGED worldVars
  BY <1>2, <1>4 DEF worldVars
<1>5. CASE WorldNext
  <2>1. ASSUME \/ \E e \in Meets : Connect2(e[1], e[2])
               \/ \E e \in Opens, a \in Assets, f \in Fundings : OpenMock(e[1], e[2], a, f)
               \/ \E n \in Nodes, c \in 1..MaxChannels : ShutMock(n, c)
               \/ \E n, m \in Nodes, a \in Assets : Keysend(n, m, a)
               \/ \E n \in Nodes, c, d \in 1..MaxChannels : RouterPay(n, c, d)
        PROVE  UNCHANGED <<bill, paid, heldBy, watch, flowed, torn>>
    BY <2>1 DEF Connect2, OpenMock, ShutMock, Keysend, RouterPay
  <2>2. ASSUME \/ \E n \in Nodes, i \in DOMAIN Bills : PayStops(n, i)
               \/ \E n, m \in Nodes, a \in Assets : KeysendStops(n, m, a)
               \/ \E n \in Nodes, c, d \in 1..MaxChannels : RouterStops(n, c, d)
        PROVE  UNCHANGED <<bill, paid, heldBy, watch, flowed>> /\ torn'
    BY <2>2 DEF PayStops, KeysendStops, RouterStops, Stops
  <2> QED
    BY <1>2, <1>3, <1>5, <2>1, <2>2, NewKeeps, SettleKeeps, StopKeeps, CancelKeeps, SendKeeps
      DEF WorldNext
<1> QED
  BY <1>4, <1>5

\* The nodes agree on what is held and on what has moved money, whatever calls
\* come in whatever order: repeated payments, settlements of nothing and
\* cancellations of what was settled included (mock-node.mjs).
THEOREM NodesAgree == WorldSpec => []RecordsAgree
<1>1. ASSUME WorldInv PROVE RecordsAgree
  <2>1. /\ \A i \in DOMAIN Bills :
              /\ bill[i] = "Received" => heldBy[i] # NotHeld
              /\ heldBy[i] # NotHeld => bill[i] = "Received" \/ (torn /\ bill[i] = "Paid")
              /\ heldBy[i] # NotHeld => paid[heldBy[i].node][i] = InFlight
    BY <1>1 DEF WorldInv, HeldRight
  <2>2. \A i \in DOMAIN Bills, n \in Nodes :
           /\ paid[n][i].status = "Success" => flowed[n][i] > 0
           /\ watch[n][i] = "got" => flowed[n][i] > 0 \/ (n = Bills[i].issuer /\ ~Bills[i].held)
           /\ flowed[n][i] > 0 => bill[i] \notin {"none", "Open"}
    BY <1>1 DEF WorldInv, PaidRightly
  <2>3. \A i \in DOMAIN Bills, n \in Nodes :
           /\ GetInvoice(i) = "Received" <=> bill[i] = "Received"
           /\ bill[i] \notin {"none", "Open"} => GetInvoice(i) # "Open"
           /\ paid[n][i] = InFlight => GetPayment(n, i) = "Inflight"
           /\ GetPayment(n, i) = "Success" => paid[n][i].status = "Success"
    BY RecordsAre DEF GetInvoice, GetPayment
  <2>4. \A i \in DOMAIN Bills : heldBy[i] # NotHeld => heldBy[i].node \in Nodes
    BY <1>1 DEF WorldInv, HeldRight
  <2> SUFFICES ASSUME NEW i \in DOMAIN Bills
               PROVE  /\ GetInvoice(i) = "Received" => heldBy[i] # NotHeld
                      /\ heldBy[i] # NotHeld =>
                            GetInvoice(i) = "Received" \/ (torn /\ GetInvoice(i) = "Paid")
                      /\ heldBy[i] # NotHeld => GetPayment(heldBy[i].node, i) = "Inflight"
                      /\ \A n \in Nodes :
                            /\ GetPayment(n, i) = "Success" => flowed[n][i] > 0
                            /\ watch[n][i] = "got" =>
                                  flowed[n][i] > 0 \/ (n = Bills[i].issuer /\ ~Bills[i].held)
                            /\ flowed[n][i] > 0 => GetInvoice(i) # "Open"
    BY DEF RecordsAgree
  <2>6. heldBy[i] # NotHeld => GetPayment(heldBy[i].node, i) = "Inflight"
    BY <2>1, <2>3, <2>4
  <2>7. /\ GetInvoice(i) = "Received" => heldBy[i] # NotHeld
        /\ heldBy[i] # NotHeld =>
              GetInvoice(i) = "Received" \/ (torn /\ GetInvoice(i) = "Paid")
    BY <2>1 DEF GetInvoice
  <2>8. ASSUME NEW n \in Nodes
        PROVE  /\ GetPayment(n, i) = "Success" => flowed[n][i] > 0
               /\ watch[n][i] = "got" =>
                     flowed[n][i] > 0 \/ (n = Bills[i].issuer /\ ~Bills[i].held)
               /\ flowed[n][i] > 0 => GetInvoice(i) # "Open"
    BY <2>2, <2>3
  <2> QED
    BY <2>6, <2>7, <2>8
<1> QED
  BY <1>1, WorldInvInit, WorldInvStep, PTL DEF WorldSpec

-----------------------------------------------------------------------------
(* The money                                                                *)

\* What an end of a channel is, at node n.
EndAt(n) == [peer : Nodes \ {n}, asset : Assets, local : Int, remote : Int,
           funded : Int, open : BOOLEAN]
EndsOK ==
    /\ ends = [n \in Nodes |-> ends[n]]
    /\ \A n \in Nodes : IsFiniteSet(DOMAIN ends[n]) /\ ends[n] \in [DOMAIN ends[n] -> EndAt(n)]

\* A channel has two ends, and channels are numbered as they come.
Paired ==
    \A n \in Nodes : \A c \in DOMAIN ends[n] :
        LET m == ends[n][c].peer IN c \in DOMAIN ends[m] /\ ends[m][c].peer = n
Outpoints == UNION {DOMAIN ends[n] : n \in Nodes}
Numbered == \E k \in Nat : Outpoints = 1 .. k

\* The channels by which hops leave a node, and enter it.
OutOf(hops, p) == {c \in DOMAIN ends[p] : <<p, c>> \in hops}
Into(hops, p) == {c \in DOMAIN ends[p] : <<ends[p][c].peer, c>> \in hops}

\* The hops lead from n to m: any other node they enter they leave by another
\* channel, so that it has in all what it had.
Passes1(hops, p) ==
    \/ OutOf(hops, p) = {} /\ Into(hops, p) = {}
    \/ \E c, d \in DOMAIN ends[p] : c # d /\ OutOf(hops, p) = {c} /\ Into(hops, p) = {d}
LeadTo(hops, n, m) ==
    /\ \A h \in hops : h \in Nodes \X Int /\ h[2] \in DOMAIN ends[h[1]]
    /\ Into(hops, n) = {} /\ \E c \in DOMAIN ends[n] : OutOf(hops, n) = {c}
    /\ OutOf(hops, m) = {} /\ \E c \in DOMAIN ends[m] : Into(hops, m) = {c}
    /\ \A p \in Nodes \ {n, m} : Passes1(hops, p)

\* A payment takes such hops, or none to the payer itself.
Carry(hops, n, m) == IF n = m THEN hops = {} ELSE LeadTo(hops, n, m)

\* A payment that is held keeps its way, whatever is opened and closed meanwhile.
HoldsLead ==
    \A i \in DOMAIN Bills :
        heldBy[i] # NotHeld => Carry(heldBy[i].hops, heldBy[i].node, Bills[i].issuer)

ChannelInv == EndsOK /\ Paired /\ Numbered /\ HoldsLead

Balance(n) == SumFunctionOnSet(Ours(n), DOMAIN ends[n])

-----------------------------------------------------------------------------

\* The sum over the assets is the sum over the channels.
LEMMA AssetsTogether ==
    ASSUME EndsOK, NEW n \in Nodes
    PROVE  SumFunction([a \in Assets |-> Liquidity(n, a).outbound]) = Balance(n)
<1> DEFINE D == DOMAIN ends[n]
           key == [c \in D |-> ends[n][c].asset]
<1>1. IsFiniteSet(D) /\ \A c \in D : ends[n][c] \in EndAt(n)
  BY DEF EndsOK
<1>2. \A c \in D : /\ ends[n][c].peer \in Nodes /\ ends[n][c].asset \in Assets
                   /\ ends[n][c].local \in Int
  BY <1>1 DEF EndAt
<1>3. Ints(Ours(n), D)
  BY <1>2 DEF Ints, Ours
<1>4. ListChannels(n, Nodes) = D
  BY <1>2 DEF ListChannels
<1>5. \A a \in Assets : Liquidity(n, a).outbound
                           = SumFunctionOnSet(Ours(n), {c \in D : key[c] = a})
  <2>1. \A a \in Assets : {c \in D : key[c] = a}
                             = {c \in ListChannels(n, Nodes) : ends[n][c].asset = a}
    BY <1>4
  <2> QED
    BY <2>1 DEF Liquidity
<1>6. [a \in Assets |-> Liquidity(n, a).outbound]
         = [a \in Assets |-> SumFunctionOnSet(Ours(n), {c \in D : key[c] = a})]
  BY <1>5
<1>7. \A c \in D : key[c] \in Assets
  BY <1>2
<1> HIDE DEF D, key
<1>8. SumFunctionOnSet([a \in Assets |-> SumFunctionOnSet(Ours(n), {c \in D : key[c] = a})],
                       Assets) = SumFunctionOnSet(Ours(n), D)
  BY <1>1, <1>3, <1>7, WorldAssumption, SumParts
<1> QED
  BY <1>6, <1>8 DEF SumFunction, Balance, D

\* The channels are the ones there were; money may have moved on them.
SameChannels ==
    \A n \in Nodes :
        /\ DOMAIN ends'[n] = DOMAIN ends[n]
        /\ \A c \in DOMAIN ends[n] : /\ ends'[n][c].peer = ends[n][c].peer
                                     /\ ends'[n][c].funded = ends[n][c].funded

\* moveAcrossRoute() on each end.
LEMMA ShiftEnds ==
    ASSUME EndsOK, NEW hops, ends' = Shift(hops, TRUE)
    PROVE  /\ EndsOK' /\ SameChannels
           /\ \A n \in Nodes : \A c \in DOMAIN ends[n] :
                 /\ c \in OutOf(hops, n) => ends'[n][c].local = ends[n][c].local - 1
                 /\ c \in Into(hops, n) \ OutOf(hops, n) =>
                       ends'[n][c].local = ends[n][c].local + 1
                 /\ c \notin Into(hops, n) \cup OutOf(hops, n) =>
                       ends'[n][c].local = ends[n][c].local
<1>1. ASSUME NEW n \in Nodes, NEW c \in DOMAIN ends[n]
      PROVE  /\ ends[n][c] \in EndAt(n)
             /\ ends'[n][c] = IF <<n, c>> \in hops
                              THEN [ends[n][c] EXCEPT !.local = @ - 1, !.remote = @ + 1]
                              ELSE IF <<ends[n][c].peer, c>> \in hops
                              THEN [ends[n][c] EXCEPT !.local = @ + 1, !.remote = @ - 1]
                              ELSE ends[n][c]
  BY DEF EndsOK, Shift
<1>2. ASSUME NEW n \in Nodes, NEW c \in DOMAIN ends[n]
      PROVE  /\ ends'[n][c] \in EndAt(n)
             /\ ends'[n][c].peer = ends[n][c].peer /\ ends'[n][c].funded = ends[n][c].funded
             /\ ends'[n][c].local = IF <<n, c>> \in hops THEN ends[n][c].local - 1
                                    ELSE IF <<ends[n][c].peer, c>> \in hops
                                    THEN ends[n][c].local + 1 ELSE ends[n][c].local
  <2> DEFINE e == ends[n][c]
             f == ends'[n][c]
  <2>1. e \in EndAt(n) /\ e.local \in Int /\ e.remote \in Int
    BY <1>1, <1>2 DEF EndAt
  <2>2. f = IF <<n, c>> \in hops THEN [e EXCEPT !.local = @ - 1, !.remote = @ + 1]
            ELSE IF <<e.peer, c>> \in hops
            THEN [e EXCEPT !.local = @ + 1, !.remote = @ - 1] ELSE e
    BY <1>1, <1>2
  <2> HIDE DEF e, f
  <2>3. /\ f \in EndAt(n) /\ f.peer = e.peer /\ f.funded = e.funded
        /\ f.local = IF <<n, c>> \in hops THEN e.local - 1
                     ELSE IF <<e.peer, c>> \in hops THEN e.local + 1 ELSE e.local
    <3>1. CASE <<n, c>> \in hops
      <4>1. f = [e EXCEPT !.local = @ - 1, !.remote = @ + 1]
        BY <2>2, <3>1
      <4>2. e.local - 1 \in Int /\ e.remote + 1 \in Int
        BY <2>1
      <4> QED
        BY <2>1, <3>1, <4>1, <4>2 DEF EndAt
    <3>2. CASE <<n, c>> \notin hops /\ <<e.peer, c>> \in hops
      <4>1. f = [e EXCEPT !.local = @ + 1, !.remote = @ - 1]
        BY <2>2, <3>2
      <4>2. e.local + 1 \in Int /\ e.remote - 1 \in Int
        BY <2>1
      <4> QED
        BY <2>1, <3>2, <4>1, <4>2 DEF EndAt
    <3>3. CASE <<n, c>> \notin hops /\ <<e.peer, c>> \notin hops
      BY <2>1, <2>2, <3>3
    <3> QED
      BY <3>1, <3>2, <3>3
  <2> QED
    BY <2>3 DEF e, f
<1>3. \A n \in Nodes : DOMAIN ends'[n] = DOMAIN ends[n]
  BY DEF Shift
<1>4. \A n \in Nodes : ends'[n] = [c \in DOMAIN ends[n] |-> ends'[n][c]]
  BY DEF Shift
<1>5. ends' = [n \in Nodes |-> ends'[n]]
  BY DEF Shift
<1>6. EndsOK'
  BY <1>2, <1>3, <1>4, <1>5 DEF EndsOK, EndAt
<1>7. SameChannels
  BY <1>2, <1>3 DEF SameChannels
<1> QED
  BY <1>2, <1>6, <1>7 DEF OutOf, Into

\* A unit less in one channel and a unit more in another.
LEMMA UnitMoves ==
    ASSUME NEW S, IsFiniteSet(S), NEW h, NEW k, Ints(h, S), Ints(k, S),
           NEW c \in S, NEW d \in S, c # d,
           k[c] = h[c] - 1, k[d] = h[d] + 1, \A x \in S \ {c, d} : k[x] = h[x]
    PROVE  SumFunctionOnSet(k, S) = SumFunctionOnSet(h, S)
<1> DEFINE g == [x \in S |-> IF x = c THEN h[c] - 1 ELSE h[x]]
<1>1. Ints(g, S) /\ g[c] = h[c] - 1 /\ g[d] = h[d] /\ h[c] \in Int /\ h[d] \in Int
  BY DEF Ints
<1>2. \A x \in S \ {c} : h[x] = g[x]
  OBVIOUS
<1>3. \A x \in S \ {d} : g[x] = k[x]
  OBVIOUS
<1> HIDE DEF g
<1>4. SumFunctionOnSet(g, S) = SumFunctionOnSet(h, S) + g[c] - h[c]
  BY <1>1, <1>2, SumChange
<1>5. SumFunctionOnSet(k, S) = SumFunctionOnSet(g, S) + k[d] - g[d]
  BY <1>1, <1>3, SumChange
<1>6. SumFunctionOnSet(h, S) \in Int
  BY SumInt
<1> QED
  BY <1>1, <1>4, <1>5, <1>6

\* Hops that lead from n to m take a unit from n to m.
LEMMA ShiftMoves ==
    ASSUME EndsOK, NEW n \in Nodes, NEW m \in Nodes \ {n}, NEW hops, LeadTo(hops, n, m),
           ends' = Shift(hops, TRUE), NEW p \in Nodes
    PROVE  Balance(p)' = Balance(p) + (IF p = m THEN 1 ELSE IF p = n THEN -1 ELSE 0)
<1> DEFINE S == DOMAIN ends[p]
           h == Ours(p)
           k == Ours(p)'
           Out == OutOf(hops, p)
           In == Into(hops, p)
<1>1. /\ EndsOK' /\ SameChannels
      /\ \A c \in S : /\ c \in Out => ends'[p][c].local = ends[p][c].local - 1
                      /\ c \in In \ Out => ends'[p][c].local = ends[p][c].local + 1
                      /\ c \notin In \cup Out => ends'[p][c].local = ends[p][c].local
  BY ShiftEnds
<1>2. IsFiniteSet(S) /\ DOMAIN ends'[p] = S
  BY <1>1 DEF EndsOK, SameChannels
<1>3. Balance(p) = SumFunctionOnSet(h, S) /\ Balance(p)' = SumFunctionOnSet(k, S)
  BY <1>2 DEF Balance
<1>4. Ints(h, S) /\ Ints(k, S)
  BY <1>1, <1>2 DEF Ints, Ours, EndsOK, EndAt
<1>5. \A c \in S : /\ c \in Out => k[c] = h[c] - 1
                   /\ c \in In \ Out => k[c] = h[c] + 1
                   /\ c \notin In \cup Out => k[c] = h[c]
  BY <1>1, <1>2 DEF Ours
<1>6. /\ p = n => In = {} /\ \E c \in S : Out = {c}
      /\ p = m => Out = {} /\ \E c \in S : In = {c}
      /\ p \notin {n, m} => \/ Out = {} /\ In = {}
                            \/ \E c, d \in S : c # d /\ Out = {c} /\ In = {d}
  BY DEF LeadTo, Passes1
<1>7. SumFunctionOnSet(h, S) \in Int
  BY <1>2, <1>4, SumInt
<1> HIDE DEF S, h, k, Out, In
<1>8. CASE p = n
  <2>1. PICK c \in S : Out = {c}
    BY <1>6, <1>8
  <2>2. k[c] = h[c] - 1 /\ \A x \in S \ {c} : h[x] = k[x]
    BY <1>5, <1>6, <1>8, <2>1
  <2>3. SumFunctionOnSet(k, S) = SumFunctionOnSet(h, S) + k[c] - h[c]
    BY <1>2, <1>4, <2>2, SumChange
  <2>4. h[c] \in Int
    BY <1>4 DEF Ints
  <2> QED
    BY <1>3, <1>7, <1>8, <2>2, <2>3, <2>4
<1>9. CASE p = m
  <2>1. PICK c \in S : In = {c}
    BY <1>6, <1>9
  <2>2. k[c] = h[c] + 1 /\ \A x \in S \ {c} : h[x] = k[x]
    BY <1>5, <1>6, <1>9, <2>1
  <2>3. SumFunctionOnSet(k, S) = SumFunctionOnSet(h, S) + k[c] - h[c]
    BY <1>2, <1>4, <2>2, SumChange
  <2>4. h[c] \in Int
    BY <1>4 DEF Ints
  <2> QED
    BY <1>3, <1>7, <1>9, <2>2, <2>3, <2>4
<1>10. CASE p \notin {n, m} /\ Out = {} /\ In = {}
  <2>1. \A x \in S : h[x] = k[x]
    BY <1>5, <1>10
  <2>2. SumFunctionOnSet(h, S) = SumFunctionOnSet(k, S)
    BY <1>2, <2>1, SumSame
  <2> QED
    BY <1>3, <1>7, <1>10, <2>2
<1>11. CASE p \notin {n, m} /\ \E c, d \in S : c # d /\ Out = {c} /\ In = {d}
  <2>1. PICK c \in S, d \in S : c # d /\ Out = {c} /\ In = {d}
    BY <1>11
  <2>2. k[c] = h[c] - 1 /\ k[d] = h[d] + 1 /\ \A x \in S \ {c, d} : k[x] = h[x]
    BY <1>5, <2>1
  <2>3. SumFunctionOnSet(k, S) = SumFunctionOnSet(h, S)
    BY <1>2, <1>4, <2>1, <2>2, UnitMoves
  <2> QED
    BY <1>3, <1>7, <1>11, <2>3
<1> QED
  BY <1>6, <1>8, <1>9, <1>10, <1>11

\* A payment takes a unit from its payer to its payee, who may be the same.
LEMMA CarryMoves ==
    ASSUME EndsOK, NEW n \in Nodes, NEW m \in Nodes, NEW hops, Carry(hops, n, m),
           ends' = Shift(hops, TRUE), NEW p \in Nodes
    PROVE  Balance(p)' = Balance(p) + (IF p = m THEN 1 ELSE 0) - (IF p = n THEN 1 ELSE 0)
<1>1. Balance(p) \in Int
  <2>1. IsFiniteSet(DOMAIN ends[p]) /\ Ints(Ours(p), DOMAIN ends[p])
    BY DEF EndsOK, EndAt, Ours, Ints
  <2> QED
    BY <2>1, SumInt DEF Balance
<1>2. CASE n # m
  <2>1. LeadTo(hops, n, m) /\ m \in Nodes \ {n}
    BY <1>2 DEF Carry
  <2>2. Balance(p)' = Balance(p) + (IF p = m THEN 1 ELSE IF p = n THEN -1 ELSE 0)
    BY <2>1, ShiftMoves, ZenonT(30)
  <2> QED
    BY <1>1, <1>2, <2>2
<1>3. CASE n = m
  <2>1. hops = {}
    BY <1>3 DEF Carry
  <2>2. \A c \in DOMAIN ends[p] : c \notin Into(hops, p) \cup OutOf(hops, p)
    BY <2>1 DEF Into, OutOf
  <2>3. /\ DOMAIN ends'[p] = DOMAIN ends[p]
        /\ \A c \in DOMAIN ends[p] : ends'[p][c].local = ends[p][c].local
    BY <2>2, ShiftEnds DEF SameChannels
  <2>4. Balance(p)' = Balance(p)
    BY <2>3 DEF Balance, Ours
  <2> QED
    BY <1>1, <1>3, <2>4
<1> QED
  BY <1>2, <1>3

-----------------------------------------------------------------------------
(* Routes                                                                   *)

Hops(a) == {h \in Nodes \X (1..MaxChannels) : Carries(h[1], h[2], a)}
Way(s, x, n, m, a) ==
    /\ x \in Nat \ {0} /\ s \in [1..x -> Hops(a)]
    /\ s[1][1] = n /\ Reaches(s[x]) = m
    /\ \A k \in 1..(x - 1) : Reaches(s[k]) = s[k + 1][1]

\* What findChannelRoute() searches.
LEMMA PathsAreWays ==
    ASSUME NEW n, NEW m, NEW a
    PROVE  /\ \A r \in Paths(n, m, a) : Way(r, Len(r), n, m, a)
                                        /\ Len(r) <= Cardinality(Nodes) - 1
           /\ \A x \in Nat : \A s \in [1..x -> Hops(a)] :
                 Way(s, x, n, m, a) /\ x <= Cardinality(Nodes) - 1
                    => s \in Paths(n, m, a) /\ Len(s) = x
<1> DEFINE K == Cardinality(Nodes) - 1
           H == {h \in Nodes \X (1..MaxChannels) : Carries(h[1], h[2], a)}
<1>1. K \in Int
  BY WorldAssumption, FS_CardinalityType
<1>2. H = Hops(a)
  BY DEF Hops
<1>3. Paths(n, m, a) = {r \in SeqOf(H, K) \ {<<>>} :
          /\ r[1][1] = n /\ Reaches(Last(r)) = m
          /\ \A k \in 1..(Len(r) - 1) : Reaches(r[k]) = r[k + 1][1]}
  BY DEF Paths
<1> HIDE DEF K, H
<1>4. \A r : r \in SeqOf(H, K) <=> \E x \in 0..K : r \in [1..x -> H]
  BY DEF SeqOf
<1>5. ASSUME NEW x \in Nat, NEW s \in [1..x -> H] PROVE Len(s) = x /\ DOMAIN s = 1..x
  <2>1. s \in Seq(H) /\ DOMAIN s = 1..x
    BY SeqDef
  <2> QED
    BY <2>1, LenProperties
<1>6. ASSUME NEW x \in Nat, NEW s \in [1..x -> H] PROVE s = <<>> <=> x = 0
  <2>1. Len(s) = x /\ DOMAIN s = 1..x
    BY <1>5
  <2>2. s \in Seq(H)
    BY SeqDef
  <2> QED
    BY <2>1, <2>2, EmptySeq, LenProperties
<1>7. ASSUME NEW r \in Paths(n, m, a)
      PROVE  Way(r, Len(r), n, m, a) /\ Len(r) <= K
  <2>1. PICK x \in 0..K : r \in [1..x -> H]
    BY <1>3, <1>4, <1>7
  <2>2. x \in Nat /\ x <= K /\ Len(r) = x /\ x # 0
    BY <1>1, <1>3, <1>5, <1>6, <1>7, <2>1
  <2>3. Last(r) = r[x]
    BY <2>2 DEF Last
  <2> QED
    BY <1>2, <1>3, <1>7, <2>1, <2>2, <2>3 DEF Way
<1>8. ASSUME NEW x \in Nat, NEW s \in [1..x -> Hops(a)], Way(s, x, n, m, a), x <= K
      PROVE  s \in Paths(n, m, a) /\ Len(s) = x
  <2>1. s \in [1..x -> H] /\ x \in 0..K /\ x # 0
    BY <1>1, <1>2, <1>8 DEF Way
  <2>2. Len(s) = x /\ s # <<>>
    BY <1>5, <1>6, <2>1
  <2>3. Last(s) = s[x]
    BY <2>2 DEF Last
  <2>4. s \in SeqOf(H, K) \ {<<>>}
    BY <1>4, <2>1, <2>2
  <2> QED
    BY <1>3, <1>8, <2>2, <2>3, <2>4 DEF Way
<1> QED
  BY <1>7, <1>8 DEF K

\* A shortest path comes to no node twice, and not to its end before its end.
LEMMA NoDetour ==
    ASSUME NEW n, NEW m, n # m, NEW a, NEW r \in Routes(n, m, a)
    PROVE  /\ Way(r, Len(r), n, m, a)
           /\ \A j, k \in 1..Len(r) : r[j][1] = r[k][1] => j = k
           /\ \A k \in 1..Len(r) : r[k][1] # m
<1> DEFINE L == Len(r)
<1>1. Way(r, L, n, m, a) /\ L <= Cardinality(Nodes) - 1
  BY PathsAreWays DEF Routes
<1>2. ASSUME NEW x \in Nat, NEW s \in [1..x -> Hops(a)], Way(s, x, n, m, a), x < L
      PROVE  FALSE
  <2>1. Cardinality(Nodes) \in Nat
    BY WorldAssumption, FS_CardinalityType
  <2>2. x <= Cardinality(Nodes) - 1
    BY <1>1, <1>2, <2>1 DEF Way
  <2>3. s \in Paths(n, m, a) /\ Len(s) = x
    BY <1>2, <2>2, PathsAreWays
  <2> QED
    BY <1>1, <1>2, <2>3 DEF Routes, Way
<1>w. /\ L \in Nat \ {0} /\ r \in [1..L -> Hops(a)]
      /\ r[1][1] = n /\ Reaches(r[L]) = m
      /\ \A k \in 1..(L - 1) : Reaches(r[k]) = r[k + 1][1]
  BY <1>1 DEF Way
<1> HIDE DEF L
<1>3. ASSUME NEW j \in 1..L, NEW k \in 1..L, j < k, r[j][1] = r[k][1] PROVE FALSE
  <2> DEFINE d == k - j
             x == L - d
             s == [i \in 1..x |-> IF i < j THEN r[i] ELSE r[i + d]]
  <2>1. d \in Nat \ {0} /\ x \in Nat \ {0} /\ x < L /\ j <= x /\ j + d = k /\ x + d = L
    BY <1>3, <1>w
  <2> HIDE DEF d, x
  <2>2. \A i \in 1..x : (i >= j => i + d \in 1..L) /\ i \in 1..L
    BY <1>w, <2>1
  <2>3. s \in [1..x -> Hops(a)]
    BY <1>w, <2>2
  <2>4. s[x] = r[L] /\ s[j] = r[k]
    BY <2>1
  <2>5. s[1][1] = n
    BY <1>3, <1>w, <2>1, <2>4
  <2>6. ASSUME NEW i \in 1..(x - 1) PROVE Reaches(s[i]) = s[i + 1][1]
    <3>0. i \in Nat /\ 1 <= i /\ i < x /\ i \in 1..x /\ i + 1 \in 1..x
      BY <2>1
    <3>1. CASE i + 1 < j
      <4>0. i < j /\ i + 1 < j
        BY <3>0, <3>1
      <4>1. s[i] = r[i]
        BY <3>0, <4>0
      <4>3. s[i + 1] = r[i + 1]
        BY <3>0, <4>0
      <4>2. i \in 1..(L - 1)
        BY <1>w, <2>1, <3>0
      <4> QED
        BY <1>w, <4>1, <4>2, <4>3
    <3>2. CASE i + 1 = j
      <4>0. i < j
        BY <3>0, <3>2
      <4>1. s[i] = r[i]
        BY <3>0, <4>0
      <4>2. s[i + 1] = r[k] /\ r[i + 1] = r[j]
        BY <2>4, <3>2
      <4>3. i \in 1..(L - 1)
        BY <1>w, <2>1, <3>0
      <4> QED
        BY <1>3, <1>w, <4>1, <4>2, <4>3
    <3>3. CASE i >= j
      <4>1. s[i] = r[i + d] /\ s[i + 1] = r[(i + d) + 1] /\ i + d \in 1..(L - 1)
        BY <1>w, <2>1, <3>3
      <4> QED
        BY <1>w, <4>1
    <3> QED
      BY <2>1, <3>1, <3>2, <3>3
  <2> HIDE DEF s
  <2>7. Way(s, x, n, m, a)
    BY <1>w, <2>1, <2>3, <2>4, <2>5, <2>6 DEF Way
  <2> QED
    BY <1>2, <2>1, <2>3, <2>7
<1>4. ASSUME NEW k \in 1..L, r[k][1] = m PROVE FALSE
  <2> DEFINE x == k - 1
             s == [i \in 1..x |-> r[i]]
  <2>1. x \in Nat \ {0} /\ x < L /\ x + 1 = k
    BY <1>4, <1>w
  <2> HIDE DEF x
  <2>2. s \in [1..x -> Hops(a)] /\ s[1] = r[1] /\ s[x] = r[x]
    BY <1>w, <2>1
  <2>3. x \in 1..(L - 1) /\ \A i \in 1..(x - 1) : i \in 1..(L - 1)
    BY <1>w, <2>1
  <2>4. \A i \in 1..(x - 1) : Reaches(s[i]) = s[i + 1][1]
    BY <1>w, <2>1, <2>3
  <2>5. Reaches(s[x]) = m
    BY <1>4, <1>w, <2>1, <2>2, <2>3
  <2> HIDE DEF s
  <2>6. Way(s, x, n, m, a)
    BY <1>w, <2>1, <2>2, <2>4, <2>5 DEF Way
  <2> QED
    BY <1>2, <2>1, <2>2, <2>6
<1>5. \A j, k \in 1..L : r[j][1] = r[k][1] => j = k
  <2> SUFFICES ASSUME NEW j \in 1..L, NEW k \in 1..L, r[j][1] = r[k][1] PROVE j = k
    OBVIOUS
  <2>1. ~(j < k) /\ ~(k < j)
    BY <1>3
  <2> QED
    BY <1>w, <2>1
<1> QED
  BY <1>1, <1>4, <1>5 DEF L

\* So it leads from its first node to its last.
LEMMA RouteLeads ==
    ASSUME EndsOK, Paired, NEW n \in Nodes, NEW m \in Nodes \ {n}, NEW a,
           NEW r \in Routes(n, m, a)
    PROVE  LeadTo(ToSet(r), n, m)
<1> DEFINE L == Len(r)
           H == ToSet(r)
           at == [k \in 1..L |-> r[k][1]]
           by == [k \in 1..L |-> r[k][2]]
           to == [k \in 1..L |-> Reaches(r[k])]
<1>w. /\ L \in Nat \ {0} /\ r \in [1..L -> Hops(a)]
      /\ r[1][1] = n /\ Reaches(r[L]) = m
      /\ \A k \in 1..(L - 1) : Reaches(r[k]) = r[k + 1][1]
      /\ \A j, k \in 1..L : r[j][1] = r[k][1] => j = k
      /\ \A k \in 1..L : r[k][1] # m
  <2>1. n # m
    OBVIOUS
  <2>2. /\ Way(r, L, n, m, a)
        /\ \A j, k \in 1..L : r[j][1] = r[k][1] => j = k
        /\ \A k \in 1..L : r[k][1] # m
    BY <2>1, NoDetour
  <2> QED
    BY <2>2 DEF Way
<1> HIDE DEF L
<1>1. /\ at[1] = n /\ to[L] = m /\ \A k \in 1..(L - 1) : to[k] = at[k + 1]
      /\ \A j, k \in 1..L : at[j] = at[k] => j = k
      /\ \A k \in 1..L : at[k] # m
  <2>1. 1 \in 1..L /\ L \in 1..L /\ \A k \in 1..(L - 1) : k \in 1..L /\ k + 1 \in 1..L
    BY <1>w
  <2> QED
    BY <1>w, <2>1
<1>2. \A k \in 1..L : /\ r[k] = <<at[k], by[k]>> /\ r[k] \in Nodes \X Int
                      /\ at[k] \in Nodes /\ by[k] \in DOMAIN ends[at[k]]
                      /\ to[k] = ends[at[k]][by[k]].peer /\ to[k] \in Nodes
                      /\ by[k] \in DOMAIN ends[to[k]] /\ ends[to[k]][by[k]].peer = at[k]
  <2> SUFFICES ASSUME NEW k \in 1..L
               PROVE  /\ r[k] = <<at[k], by[k]>> /\ r[k] \in Nodes \X Int
                      /\ at[k] \in Nodes /\ by[k] \in DOMAIN ends[at[k]]
                      /\ to[k] = ends[at[k]][by[k]].peer /\ to[k] \in Nodes
                      /\ by[k] \in DOMAIN ends[to[k]] /\ ends[to[k]][by[k]].peer = at[k]
    OBVIOUS
  <2>1. r[k] \in Hops(a)
    BY <1>w
  <2>2. /\ r[k] \in Nodes \X Int /\ Carries(r[k][1], r[k][2], a)
    BY <2>1 DEF Hops
  <2>3. at[k] = r[k][1] /\ by[k] = r[k][2] /\ to[k] = Reaches(r[k])
    OBVIOUS
  <2>4. r[k] = <<at[k], by[k]>> /\ at[k] \in Nodes
    BY <2>2, <2>3
  <2>5. by[k] \in DOMAIN ends[at[k]] /\ to[k] = ends[at[k]][by[k]].peer
    BY <2>2, <2>3 DEF Carries, Reaches
  <2>6. to[k] \in Nodes
    BY <2>4, <2>5 DEF EndsOK, EndAt
  <2>7. by[k] \in DOMAIN ends[to[k]] /\ ends[to[k]][by[k]].peer = at[k]
    BY <2>4, <2>5 DEF Paired
  <2> QED
    BY <2>2, <2>4, <2>5, <2>6, <2>7
<1>3. H = {r[k] : k \in 1..L}
  <2>1. DOMAIN r = 1..L
    BY <1>w
  <2> QED
    BY <2>1 DEF ToSet
<1> HIDE DEF H, at, by, to
<1>4. ASSUME NEW p \in Nodes, NEW c \in DOMAIN ends[p]
      PROVE  c \in OutOf(H, p) <=> \E k \in 1..L : at[k] = p /\ by[k] = c
  <2>1. c \in OutOf(H, p) <=> \E k \in 1..L : r[k] = <<p, c>>
    BY <1>3 DEF OutOf
  <2> QED
    BY <1>2, <2>1
<1>5. ASSUME NEW p \in Nodes, NEW c \in DOMAIN ends[p]
      PROVE  c \in Into(H, p) <=> \E k \in 1..L : to[k] = p /\ by[k] = c
  <2> DEFINE q == ends[p][c].peer
  <2>1. c \in Into(H, p) <=> \E k \in 1..L : r[k] = <<q, c>>
    BY <1>3 DEF Into
  <2>2. ends[q][c].peer = p
    BY DEF Paired
  <2> QED
    BY <1>2, <2>1, <2>2
<1>6. \A p \in Nodes : OutOf(H, p) \subseteq DOMAIN ends[p] /\ Into(H, p) \subseteq DOMAIN ends[p]
  BY DEF OutOf, Into
<1>7. \A k \in 1..L : k = L \/ (k \in 1..(L - 1) /\ k + 1 \in 1..L /\ to[k] = at[k + 1])
  BY <1>w, <1>1
<1>8. \A j, k \in 1..L : to[j] = to[k] => j = k
  <2> SUFFICES ASSUME NEW j \in 1..L, NEW k \in 1..L, to[j] = to[k] PROVE j = k
    OBVIOUS
  <2>1. CASE j = L \/ k = L
    BY <1>1, <1>7, <2>1
  <2>2. CASE j # L /\ k # L
    <3>1. j + 1 = k + 1
      BY <1>1, <1>7, <2>2
    <3> QED
      BY <3>1
  <2> QED
    BY <2>1, <2>2
<1>9. \A k \in 1..L : to[k] # n
  <2> SUFFICES ASSUME NEW k \in 1..L, to[k] = n PROVE FALSE
    OBVIOUS
  <2>1. k # L
    BY <1>1
  <2>2. k + 1 \in 1..L /\ at[k + 1] = at[1] /\ 1 \in 1..L
    BY <1>1, <1>7, <1>w, <2>1
  <2>3. k + 1 = 1
    BY <1>1, <2>2
  <2> QED
    BY <2>3
<1>10. 1 \in 1..L /\ L \in 1..L
  BY <1>w
<1>11. by[1] \in DOMAIN ends[n] /\ OutOf(H, n) = {by[1]} /\ Into(H, n) = {}
  <2>1. by[1] \in DOMAIN ends[n] /\ at[1] = n
    BY <1>1, <1>2, <1>10
  <2>2. \A c \in DOMAIN ends[n] : c \in OutOf(H, n) <=> c = by[1]
    BY <1>1, <1>4, <1>10, <2>1
  <2>3. \A c \in DOMAIN ends[n] : c \notin Into(H, n)
    BY <1>5, <1>9
  <2> QED
    BY <1>6, <2>1, <2>2, <2>3
<1>12. by[L] \in DOMAIN ends[m] /\ OutOf(H, m) = {} /\ Into(H, m) = {by[L]}
  <2>1. by[L] \in DOMAIN ends[m] /\ to[L] = m
    BY <1>1, <1>2, <1>10
  <2>2. \A c \in DOMAIN ends[m] : c \in Into(H, m) <=> c = by[L]
    BY <1>5, <1>8, <1>10, <2>1
  <2>3. \A c \in DOMAIN ends[m] : c \notin OutOf(H, m)
    BY <1>1, <1>4
  <2> QED
    BY <1>6, <2>1, <2>2, <2>3
<1>13. ASSUME NEW p \in Nodes \ {n, m} PROVE Passes1(H, p)
  <2>1. CASE \E k \in 1..L : at[k] = p
    <3>1. PICK k \in 1..L : at[k] = p
      BY <2>1
    <3>2. k # 1
      BY <1>1, <3>1
    <3> DEFINE j == k - 1
    <3>3. j \in 1..L /\ j # L /\ j + 1 = k
      BY <1>w, <3>2
    <3> HIDE DEF j
    <3>4. to[j] = p
      BY <1>7, <3>1, <3>3
    <3>5. by[k] \in DOMAIN ends[p] /\ by[j] \in DOMAIN ends[p]
      BY <1>2, <3>1, <3>3, <3>4
    <3>6. \A c \in DOMAIN ends[p] : c \in OutOf(H, p) <=> c = by[k]
      BY <1>1, <1>4, <3>1
    <3>7. \A c \in DOMAIN ends[p] : c \in Into(H, p) <=> c = by[j]
      BY <1>5, <1>8, <3>3, <3>4
    <3>8. by[k] # by[j]
      <4> SUFFICES ASSUME by[k] = by[j] PROVE FALSE
        OBVIOUS
      <4>1. to[k] = at[j]
        BY <1>2, <3>1, <3>3, <3>4
      <4>2. k # L
        BY <1>1, <3>3, <4>1
      <4>3. k + 1 \in 1..L /\ at[k + 1] = at[j]
        BY <1>7, <4>1, <4>2
      <4>4. k + 1 = j
        BY <1>1, <3>3, <4>3
      <4> QED
        BY <3>3, <4>4
    <3>9. OutOf(H, p) = {by[k]} /\ Into(H, p) = {by[j]}
      BY <1>6, <3>5, <3>6, <3>7
    <3> QED
      BY <3>5, <3>8, <3>9 DEF Passes1
  <2>2. CASE ~\E k \in 1..L : at[k] = p
    <3>1. \A c \in DOMAIN ends[p] : c \notin OutOf(H, p)
      BY <1>4, <2>2
    <3>2. \A k \in 1..L : to[k] # p
      BY <1>1, <1>7, <2>2
    <3>3. \A c \in DOMAIN ends[p] : c \notin Into(H, p)
      BY <1>5, <3>2
    <3> QED
      BY <1>6, <3>1, <3>3 DEF Passes1
  <2> QED
    BY <2>1, <2>2
<1>14. \A h \in H : h \in Nodes \X Int /\ h[2] \in DOMAIN ends[h[1]]
  BY <1>2, <1>3
<1>15. LeadTo(H, n, m)
  BY <1>11, <1>12, <1>13, <1>14 DEF LeadTo
<1> QED
  BY <1>15 DEF H

\* A payment takes it, or none.
LEMMA RouteCarries ==
    ASSUME EndsOK, Paired, NEW n \in Nodes, NEW m \in Nodes, NEW a, NEW r \in Routes(n, m, a)
    PROVE  Carry(ToSet(r), n, m)
<1>1. CASE n # m
  <2>1. m \in Nodes \ {n}
    BY <1>1
  <2> QED
    BY <1>1, <2>1, RouteLeads DEF Carry
<1>2. CASE n = m
  <2>1. r = <<>>
    BY <1>2 DEF Routes
  <2> QED
    BY <1>2, <2>1 DEF Carry, ToSet
<1> QED
  BY <1>1, <1>2

\* And so does a keysend's one hop.
LEMMA HopLeads ==
    ASSUME EndsOK, Paired, Numbered, NEW n \in Nodes, NEW c \in DOMAIN ends[n],
           NEW m, ends[n][c].peer = m
    PROVE  m \in Nodes \ {n} /\ LeadTo({<<n, c>>}, n, m)
<1> DEFINE H == {<<n, c>>}
<1>1. m \in Nodes \ {n}
  BY DEF EndsOK, EndAt
<1>2. c \in DOMAIN ends[m] /\ ends[m][c].peer = n
  BY DEF Paired
<1>3. c \in Int
  <2>1. c \in Outpoints
    BY DEF Outpoints
  <2> QED
    BY <2>1 DEF Numbered
<1>4. ASSUME NEW p \in Nodes, NEW d \in DOMAIN ends[p]
      PROVE  /\ d \in OutOf(H, p) <=> p = n /\ d = c
             /\ d \in Into(H, p) <=> p = m /\ d = c
  <2>1. d \in OutOf(H, p) <=> p = n /\ d = c
    BY DEF OutOf
  <2>2. d \in Into(H, p) <=> ends[p][d].peer = n /\ d = c
    BY DEF Into
  <2>3. ends[ends[p][d].peer][d].peer = p
    BY DEF Paired
  <2> QED
    BY <1>2, <2>1, <2>2, <2>3
<1>5. \A p \in Nodes : OutOf(H, p) \subseteq DOMAIN ends[p] /\ Into(H, p) \subseteq DOMAIN ends[p]
  BY DEF OutOf, Into
<1>6. OutOf(H, n) = {c} /\ Into(H, n) = {} /\ OutOf(H, m) = {} /\ Into(H, m) = {c}
  BY <1>1, <1>2, <1>4, <1>5
<1>7. \A p \in Nodes \ {n, m} : OutOf(H, p) = {} /\ Into(H, p) = {}
  BY <1>4, <1>5
<1>8. \A h \in H : h \in Nodes \X Int /\ h[2] \in DOMAIN ends[h[1]]
  BY <1>3
<1> HIDE DEF H
<1>9. LeadTo(H, n, m)
  BY <1>2, <1>6, <1>7, <1>8 DEF LeadTo, Passes1
<1> QED
  BY <1>1, <1>9 DEF H

-----------------------------------------------------------------------------
(* Channels come and stay                                                   *)

Grown ==
    \A n \in Nodes :
        /\ DOMAIN ends[n] \subseteq DOMAIN ends'[n]
        /\ \A c \in DOMAIN ends[n] : ends'[n][c].peer = ends[n][c].peer
        /\ DOMAIN ends'[n] \cap Outpoints \subseteq DOMAIN ends[n]

\* No channel opened later is on the way of a payment held.
LEMMA LeadGrows ==
    ASSUME Grown, NEW n \in Nodes, NEW m \in Nodes, NEW hops, LeadTo(hops, n, m)
    PROVE  LeadTo(hops, n, m)'
<1>1. \A h \in hops : h \in Nodes \X Int /\ h[2] \in DOMAIN ends[h[1]]
  BY DEF LeadTo
<1>2. \A p \in Nodes : /\ DOMAIN ends[p] \subseteq DOMAIN ends'[p]
                       /\ \A c \in DOMAIN ends[p] : ends'[p][c].peer = ends[p][c].peer
  BY DEF Grown
<1>3. ASSUME NEW p \in Nodes
      PROVE  OutOf(hops, p)' = OutOf(hops, p) /\ Into(hops, p)' = Into(hops, p)
  <2>1. ASSUME NEW c \in DOMAIN ends'[p], <<p, c>> \in hops PROVE c \in DOMAIN ends[p]
    BY <1>1, <2>1
  <2>2. OutOf(hops, p)' = OutOf(hops, p)
    BY <1>2, <2>1 DEF OutOf
  <2>3. ASSUME NEW c \in DOMAIN ends'[p], <<ends'[p][c].peer, c>> \in hops
        PROVE  c \in DOMAIN ends[p]
    <3>1. c \in Outpoints
      BY <1>1, <2>3 DEF Outpoints
    <3> QED
      BY <3>1 DEF Grown
  <2>4. \A c \in DOMAIN ends[p] : c \in DOMAIN ends'[p] /\ ends'[p][c].peer = ends[p][c].peer
    BY <1>2
  <2>5. Into(hops, p)' = Into(hops, p)
    BY <2>3, <2>4 DEF Into
  <2> QED
    BY <2>2, <2>5
<1>4. \A h \in hops : h \in Nodes \X Int /\ h[2] \in DOMAIN ends'[h[1]]
  BY <1>1, <1>2
<1>5. /\ OutOf(hops, n)' = OutOf(hops, n) /\ Into(hops, n)' = Into(hops, n)
      /\ OutOf(hops, m)' = OutOf(hops, m) /\ Into(hops, m)' = Into(hops, m)
  BY <1>3
<1>6. /\ Into(hops, n)' = {} /\ \E c \in DOMAIN ends'[n] : OutOf(hops, n)' = {c}
      /\ OutOf(hops, m)' = {} /\ \E c \in DOMAIN ends'[m] : Into(hops, m)' = {c}
  BY <1>2, <1>5 DEF LeadTo
<1>7. ASSUME NEW p \in Nodes \ {n, m} PROVE Passes1(hops, p)'
  <2>1. OutOf(hops, p)' = OutOf(hops, p) /\ Into(hops, p)' = Into(hops, p)
    BY <1>3
  <2>2. Passes1(hops, p)
    BY DEF LeadTo
  <2> QED
    BY <1>2, <2>1, <2>2 DEF Passes1
<1> QED
  BY <1>4, <1>6, <1>7 DEF LeadTo

\* Nor of one that takes none.
LEMMA CarryGrows ==
    ASSUME Grown, NEW n \in Nodes, NEW m \in Nodes, NEW hops, Carry(hops, n, m)
    PROVE  Carry(hops, n, m)'
<1>1. CASE n = m
  BY <1>1 DEF Carry
<1>2. CASE n # m
  <2>1. LeadTo(hops, n, m)
    BY <1>2 DEF Carry
  <2>2. LeadTo(hops, n, m)'
    BY <2>1, LeadGrows
  <2> QED
    BY <1>2, <2>2 DEF Carry
<1> QED
  BY <1>1, <1>2

\* The ways of held payments outlast new channels; settled and cancelled ones need none.
LEMMA WaysStay ==
    ASSUME WorldInv, HoldsLead, Grown,
           \A i \in DOMAIN Bills : heldBy'[i] = heldBy[i] \/ heldBy'[i] = NotHeld
    PROVE  HoldsLead'
<1> SUFFICES ASSUME NEW i \in DOMAIN Bills, heldBy'[i] # NotHeld
             PROVE  Carry(heldBy[i].hops, heldBy[i].node, Bills[i].issuer)'
  BY DEF HoldsLead
<1>1. heldBy'[i] = heldBy[i] /\ heldBy[i] # NotHeld
  OBVIOUS
<1>2. heldBy[i].node \in Nodes /\ Bills[i].issuer \in Nodes
  BY <1>1, BillsAssumption DEF WorldInv, HeldRight
<1>3. PICK h, n : h = heldBy[i].hops /\ n = heldBy[i].node
  OBVIOUS
<1>4. Carry(h, n, Bills[i].issuer)
  BY <1>1, <1>3 DEF HoldsLead
<1>5. Carry(h, n, Bills[i].issuer)'
  BY <1>2, <1>3, <1>4, CarryGrows
<1>6. h = heldBy'[i].hops /\ n = heldBy'[i].node
  BY <1>1, <1>3
<1> QED
  BY <1>5, <1>6

\* Nothing comes, and nothing is funded, where the channels are the same.
LEMMA ChannelsStay ==
    ASSUME EndsOK, Paired, Numbered, SameChannels
    PROVE  Paired' /\ Numbered' /\ Grown /\ \A p \in Nodes : Funded(p)' = Funded(p)
<1>1. \A n \in Nodes :
         /\ DOMAIN ends'[n] = DOMAIN ends[n]
         /\ \A c \in DOMAIN ends[n] : /\ ends'[n][c].peer = ends[n][c].peer
                                      /\ ends'[n][c].funded = ends[n][c].funded
  BY DEF SameChannels
<1>2. Grown
  BY <1>1 DEF Grown
<1>3. Paired'
  <2> SUFFICES ASSUME NEW n \in Nodes, NEW c \in DOMAIN ends[n]
               PROVE  /\ c \in DOMAIN ends'[ends[n][c].peer]
                      /\ ends'[ends[n][c].peer][c].peer = n
    BY <1>1 DEF Paired
  <2> DEFINE m == ends[n][c].peer
  <2>1. m \in Nodes
    BY DEF EndsOK, EndAt
  <2>2. c \in DOMAIN ends[m] /\ ends[m][c].peer = n
    BY DEF Paired
  <2> HIDE DEF m
  <2>3. c \in DOMAIN ends'[m] /\ ends'[m][c].peer = n
    BY <1>1, <2>1, <2>2
  <2> QED
    BY <2>3 DEF m
<1>4. Outpoints' = Outpoints
  <2>1. {DOMAIN ends'[n] : n \in Nodes} = {DOMAIN ends[n] : n \in Nodes}
    BY <1>1
  <2> QED
    BY <2>1 DEF Outpoints
<1>5. Numbered'
  BY <1>4 DEF Numbered
<1>6. ASSUME NEW p \in Nodes PROVE Funded(p)' = Funded(p)
  <2>1. [c \in DOMAIN ends'[p] |-> ends'[p][c].funded]
           = [c \in DOMAIN ends[p] |-> ends[p][c].funded]
    BY <1>1
  <2> QED
    BY <2>1 DEF Funded
<1> QED
  BY <1>2, <1>3, <1>5, <1>6

\* A sum grows by what is new.
LEMMA SumGrows ==
    ASSUME NEW S, IsFiniteSet(S), NEW x, x \notin S, NEW h, NEW k, Ints(h, S),
           Ints(k, S \cup {x}), \A y \in S : h[y] = k[y]
    PROVE  SumFunctionOnSet(k, S \cup {x}) = SumFunctionOnSet(h, S) + k[x]
<1>1. SumFunctionOnSet(h, S) = SumFunctionOnSet(k, S)
  BY SumSame
<1> QED
  BY <1>1, SumAdd

\* Both ends of a new channel hold what they were funded with.
LEMMA OpenKeeps ==
    ASSUME EndsOK, Paired, Numbered, NEW n \in Nodes, NEW m \in Nodes \ {n},
           NEW a \in Assets, NEW f \in Nat, OpenMock(n, m, a, f)
    PROVE  /\ EndsOK' /\ Paired' /\ Numbered' /\ Grown
           /\ \A p \in Nodes : \E x \in Int : /\ Balance(p)' = Balance(p) + x
                                           /\ Funded(p)' = Funded(p) + x
<1> DEFINE o == Outpoint
           one(p) == IF p = n THEN [peer |-> m, asset |-> a, local |-> f, remote |-> 0,
                                    funded |-> f, open |-> TRUE]
                     ELSE [peer |-> n, asset |-> a, local |-> 0, remote |-> f,
                           funded |-> 0, open |-> TRUE]
<1>1. PICK k \in Nat : Outpoints = 1 .. k
  BY DEF Numbered
<1>2. o = k + 1
  <2>1. Cardinality(1 .. k) = k
    BY <1>1, FS_Interval
  <2> QED
    BY <1>1, <2>1 DEF Outpoint, Outpoints
<1>3. o \notin Outpoints /\ \A p \in Nodes : o \notin DOMAIN ends[p]
  <2>1. o \notin Outpoints
    BY <1>1, <1>2
  <2> QED
    BY <2>1 DEF Outpoints
<1>4. /\ ends' = [p \in Nodes |-> ends'[p]]
      /\ \A p \in Nodes \ {n, m} : ends'[p] = ends[p]
      /\ \A p \in {n, m} : ends'[p] = [c \in DOMAIN ends[p] \cup {o} |->
                                         IF c = o THEN one(p) ELSE ends[p][c]]
  <2> DEFINE end(peer, l, r) == [peer |-> peer, asset |-> a, local |-> l, remote |-> r,
                                 funded |-> l, open |-> TRUE]
             add(e, x) == [c \in DOMAIN e \cup {o} |-> IF c = o THEN x ELSE e[c]]
  <2>1. ends' = [ends EXCEPT ![n] = add(@, end(m, f, 0)), ![m] = add(@, end(n, 0, f))]
    BY DEF OpenMock
  <2>2. ends = [p \in Nodes |-> ends[p]]
    BY DEF EndsOK
  <2>3. one(n) = end(m, f, 0) /\ one(m) = end(n, 0, f)
    OBVIOUS
  <2> HIDE DEF end, one, o, add
  <2>4. /\ ends' = [p \in Nodes |-> ends'[p]]
        /\ \A p \in Nodes \ {n, m} : ends'[p] = ends[p]
        /\ ends'[n] = add(ends[n], end(m, f, 0)) /\ ends'[m] = add(ends[m], end(n, 0, f))
    BY <2>1, <2>2
  <2> QED
    BY <2>3, <2>4 DEF add
<1>5. \A p \in {n, m} : one(p) \in EndAt(p) /\ one(p).local = one(p).funded
                        /\ one(p).peer = IF p = n THEN m ELSE n
  BY DEF EndAt
<1> HIDE DEF o, one
<1>6. \A p \in {n, m} : /\ DOMAIN ends'[p] = DOMAIN ends[p] \cup {o}
                        /\ ends'[p][o] = one(p)
                        /\ \A c \in DOMAIN ends[p] : ends'[p][c] = ends[p][c]
  BY <1>3, <1>4
<1>7. EndsOK'
  <2>1. ASSUME NEW p \in Nodes
        PROVE  IsFiniteSet(DOMAIN ends'[p]) /\ ends'[p] \in [DOMAIN ends'[p] -> EndAt(p)]
    <3>0. IsFiniteSet(DOMAIN ends[p]) /\ ends[p] \in [DOMAIN ends[p] -> EndAt(p)]
      BY DEF EndsOK
    <3>1. CASE p \in {n, m}
      <4>1. IsFiniteSet(DOMAIN ends'[p])
        BY <1>6, <3>0, <3>1, FS_AddElement
      <4>2. ends'[p] \in [DOMAIN ends[p] \cup {o} -> EndAt(p)]
        BY <1>4, <1>5, <3>0, <3>1
      <4> QED
        BY <1>6, <3>1, <4>1, <4>2
    <3>2. CASE p \notin {n, m}
      BY <1>4, <3>0, <3>2
    <3> QED
      BY <3>1, <3>2
  <2> QED
    BY <1>4, <2>1 DEF EndsOK, EndAt
<1>8. Grown
  BY <1>3, <1>4, <1>6 DEF Grown
<1>9. Paired'
  <2> SUFFICES ASSUME NEW p \in Nodes, NEW c \in DOMAIN ends'[p]
               PROVE  /\ c \in DOMAIN ends'[ends'[p][c].peer]
                      /\ ends'[ends'[p][c].peer][c].peer = p
    BY DEF Paired
  <2>1. CASE c = o
    <3>1. p \in {n, m}
      BY <1>3, <1>4, <2>1
    <3>2. ends'[p][c].peer = IF p = n THEN m ELSE n
      BY <1>5, <1>6, <2>1, <3>1
    <3> QED
      BY <1>5, <1>6, <2>1, <3>1, <3>2
  <2>2. CASE c # o
    <3> DEFINE q == ends[p][c].peer
    <3>1. c \in DOMAIN ends[p] /\ ends'[p][c] = ends[p][c]
      BY <1>4, <1>6, <2>2
    <3>2. q \in Nodes
      BY <3>1 DEF EndsOK, EndAt
    <3>3. c \in DOMAIN ends[q] /\ ends[q][c].peer = p
      BY <3>1 DEF Paired
    <3> HIDE DEF q
    <3>4. c \in DOMAIN ends'[q] /\ ends'[q][c].peer = p
      BY <1>8, <3>2, <3>3 DEF Grown
    <3> QED
      BY <3>1, <3>4 DEF q
  <2> QED
    BY <2>1, <2>2
<1>10. Numbered'
  <2>1. Outpoints' = Outpoints \cup {o}
    <3>1. Outpoints' \subseteq Outpoints \cup {o}
      BY <1>4, <1>6 DEF Outpoints
    <3>2. Outpoints \subseteq Outpoints'
      BY <1>8 DEF Outpoints, Grown
    <3>3. o \in Outpoints'
      BY <1>6 DEF Outpoints
    <3> QED
      BY <3>1, <3>2, <3>3
  <2>2. Outpoints' = 1 .. (k + 1) /\ k + 1 \in Nat
    BY <1>1, <1>2, <2>1
  <2> QED
    BY <2>2 DEF Numbered
<1>11. ASSUME NEW p \in Nodes
       PROVE  \E x \in Int : Balance(p)' = Balance(p) + x /\ Funded(p)' = Funded(p) + x
  <2> DEFINE S == DOMAIN ends[p]
             T == DOMAIN ends'[p]
             h == Ours(p)
             h2 == [c \in T |-> ends'[p][c].local]
             g == [c \in S |-> ends[p][c].funded]
             g2 == [c \in T |-> ends'[p][c].funded]
  <2>1. /\ Balance(p) = SumFunctionOnSet(h, S) /\ Balance(p)' = SumFunctionOnSet(h2, T)
        /\ Funded(p) = SumFunctionOnSet(g, S) /\ Funded(p)' = SumFunctionOnSet(g2, T)
    BY DEF Balance, Funded, Ours, SumFunction
  <2>2. IsFiniteSet(S) /\ Ints(h, S) /\ Ints(g, S)
    BY DEF EndsOK, EndAt, Ours, Ints
  <2>3. SumFunctionOnSet(h, S) \in Int /\ SumFunctionOnSet(g, S) \in Int
    <3> HIDE DEF S, h, g
    <3> QED
      BY <2>2, SumInt
  <2>4. CASE p \notin {n, m}
    <3>1. T = S /\ h2 = h /\ g2 = g
      BY <1>4, <2>4 DEF Ours
    <3> HIDE DEF S, T, h, h2, g, g2
    <3>2. Balance(p)' = Balance(p) + 0 /\ Funded(p)' = Funded(p) + 0
      BY <2>1, <2>3, <3>1
    <3> QED
      BY <3>2
  <2>5. CASE p \in {n, m}
    <3>1. T = S \cup {o} /\ o \notin S
      BY <1>3, <1>6, <2>5
    <3>2. Ints(h2, T) /\ Ints(g2, T)
      BY <1>7 DEF EndsOK, EndAt, Ints
    <3>3. (\A c \in S : h[c] = h2[c]) /\ \A c \in S : g[c] = g2[c]
      BY <1>6, <2>5 DEF Ours
    <3>4. h2[o] = g2[o] /\ h2[o] \in Int
      BY <1>5, <1>6, <2>5 DEF EndAt
    <3> HIDE DEF S, T, h, h2, g, g2
    <3>5. SumFunctionOnSet(h2, S \cup {o}) = SumFunctionOnSet(h, S) + h2[o]
      BY <2>2, <3>1, <3>2, <3>3, SumGrows
    <3>6. Ints(g, S) /\ Ints(g2, S \cup {o}) /\ \A c \in S : g[c] = g2[c]
      BY <2>2, <3>1, <3>2, <3>3
    <3>7. SumFunctionOnSet(g2, S \cup {o}) = SumFunctionOnSet(g, S) + g2[o]
      BY <2>2, <3>1, <3>6, SumGrows
    <3>8. Balance(p)' = Balance(p) + h2[o] /\ Funded(p)' = Funded(p) + h2[o]
      BY <2>1, <3>1, <3>4, <3>5, <3>7
    <3> QED
      BY <3>4, <3>8
  <2> QED
    BY <2>4, <2>5
<1> QED
  BY <1>7, <1>8, <1>9, <1>10, <1>11

\* A close takes nothing from anyone.
LEMMA ShutKeeps ==
    ASSUME EndsOK, NEW n \in Nodes, NEW c, ShutMock(n, c)
    PROVE  EndsOK' /\ SameChannels /\ \A p \in Nodes : Balance(p)' = Balance(p)
<1>1. /\ c \in DOMAIN ends[n]
      /\ ends' = [ends EXCEPT ![n] = [ends[n] EXCEPT ![c] = [ends[n][c] EXCEPT !.open = FALSE]]]
  BY DEF ShutMock
<1>2. /\ ends = [p \in Nodes |-> ends[p]]
      /\ \A p \in Nodes : IsFiniteSet(DOMAIN ends[p]) /\ ends[p] \in [DOMAIN ends[p] -> EndAt(p)]
  BY DEF EndsOK
<1>3. \A p \in Nodes : ends'[p] = IF p = n
                                  THEN [ends[n] EXCEPT ![c] = [ends[n][c] EXCEPT !.open = FALSE]]
                                  ELSE ends[p]
  BY <1>1, <1>2
<1>4. \A p \in Nodes :
         /\ DOMAIN ends'[p] = DOMAIN ends[p]
         /\ \A d \in DOMAIN ends[p] :
               ends'[p][d] = ends[p][d] \/ ends'[p][d] = [ends[p][d] EXCEPT !.open = FALSE]
  BY <1>1, <1>2, <1>3
<1>5. \A p \in Nodes : \A d \in DOMAIN ends[p] :
         /\ ends'[p][d] \in EndAt(p) /\ ends'[p][d].peer = ends[p][d].peer
         /\ ends'[p][d].funded = ends[p][d].funded /\ ends'[p][d].local = ends[p][d].local
  <2> SUFFICES ASSUME NEW p \in Nodes, NEW d \in DOMAIN ends[p]
               PROVE  /\ ends'[p][d] \in EndAt(p) /\ ends'[p][d].peer = ends[p][d].peer
                      /\ ends'[p][d].funded = ends[p][d].funded
                      /\ ends'[p][d].local = ends[p][d].local
    BY DEF EndAt
  <2> DEFINE e == ends[p][d]
             f == ends'[p][d]
  <2>1. e \in EndAt(p)
    BY <1>2
  <2>2. f = e \/ f = [e EXCEPT !.open = FALSE]
    BY <1>4
  <2> HIDE DEF e, f
  <2>3. f \in EndAt(p) /\ f.peer = e.peer /\ f.funded = e.funded /\ f.local = e.local
    BY <2>1, <2>2 DEF EndAt
  <2> QED
    BY <2>3 DEF e, f
<1>6. EndsOK'
  <2>1. ends' = [p \in Nodes |-> ends'[p]]
    BY <1>1, <1>2
  <2>2. \A p \in Nodes : ends'[p] = [d \in DOMAIN ends[p] |-> ends'[p][d]]
    BY <1>1, <1>2, <1>3
  <2> QED
    BY <1>2, <1>4, <1>5, <2>1, <2>2 DEF EndsOK, EndAt
<1>7. ASSUME NEW p \in Nodes PROVE Balance(p)' = Balance(p)
  <2>1. Ours(p)' = Ours(p) /\ DOMAIN ends'[p] = DOMAIN ends[p]
    BY <1>4, <1>5 DEF Ours
  <2> QED
    BY <2>1 DEF Balance
<1> QED
  BY <1>4, <1>5, <1>6, <1>7 DEF SameChannels

\* A payment to oneself moves a unit from one channel to another.
LEMMA RouterKeeps ==
    ASSUME EndsOK, NEW n \in Nodes, NEW out, NEW into, RouterPay(n, out, into)
    PROVE  EndsOK' /\ SameChannels /\ \A p \in Nodes : Balance(p)' = Balance(p)
<1> DEFINE S == DOMAIN ends[n]
           new(c) == IF c = out THEN [ends[n][c] EXCEPT !.local = @ - 1, !.remote = @ + 1]
                     ELSE IF c = into THEN [ends[n][c] EXCEPT !.local = @ + 1, !.remote = @ - 1]
                     ELSE ends[n][c]
<1>1. out \in S /\ into \in S /\ out # into /\ ends' = [ends EXCEPT ![n] = [c \in S |-> new(c)]]
  BY DEF RouterPay, AfterLoop
<1>2. /\ ends = [p \in Nodes |-> ends[p]]
      /\ \A p \in Nodes : IsFiniteSet(DOMAIN ends[p]) /\ ends[p] \in [DOMAIN ends[p] -> EndAt(p)]
  BY DEF EndsOK
<1>3. ASSUME NEW c \in S
      PROVE  /\ new(c) \in EndAt(n) /\ new(c).peer = ends[n][c].peer
             /\ new(c).funded = ends[n][c].funded
             /\ new(c).local = IF c = out THEN ends[n][c].local - 1
                               ELSE IF c = into THEN ends[n][c].local + 1 ELSE ends[n][c].local
  <2> DEFINE e == ends[n][c]
             f == new(c)
  <2>1. e \in EndAt(n) /\ e.local \in Int /\ e.remote \in Int
    BY <1>2 DEF EndAt
  <2>2. f = IF c = out THEN [e EXCEPT !.local = @ - 1, !.remote = @ + 1]
            ELSE IF c = into THEN [e EXCEPT !.local = @ + 1, !.remote = @ - 1] ELSE e
    OBVIOUS
  <2> HIDE DEF e, f
  <2>3. /\ f \in EndAt(n) /\ f.peer = e.peer /\ f.funded = e.funded
        /\ f.local = IF c = out THEN e.local - 1 ELSE IF c = into THEN e.local + 1 ELSE e.local
    <3>1. CASE c = out
      <4>1. e.local - 1 \in Int /\ e.remote + 1 \in Int
        BY <2>1
      <4> QED
        BY <2>1, <2>2, <3>1, <4>1 DEF EndAt
    <3>2. CASE c # out /\ c = into
      <4>1. e.local + 1 \in Int /\ e.remote - 1 \in Int
        BY <2>1
      <4> QED
        BY <2>1, <2>2, <3>2, <4>1 DEF EndAt
    <3>3. CASE c # out /\ c # into
      BY <2>1, <2>2, <3>3
    <3> QED
      BY <3>1, <3>2, <3>3
  <2> QED
    BY <2>3 DEF e, f
<1> HIDE DEF new
<1>4. ends' = [p \in Nodes |-> ends'[p]] /\ ends'[n] = [c \in S |-> new(c)]
      /\ \A p \in Nodes \ {n} : ends'[p] = ends[p]
  BY <1>1, <1>2
<1>5. DOMAIN ends'[n] = S /\ \A c \in S : ends'[n][c] = new(c)
  BY <1>4
<1>6. EndsOK'
  <2>1. ends'[n] \in [S -> EndAt(n)]
    BY <1>3, <1>4
  <2>2. \A p \in Nodes : IsFiniteSet(DOMAIN ends'[p]) /\ ends'[p] \in [DOMAIN ends'[p] -> EndAt(p)]
    BY <1>2, <1>4, <1>5, <2>1
  <2> QED
    BY <1>4, <2>2 DEF EndsOK, EndAt
<1>7. SameChannels
  <2>1. \A c \in S : /\ ends'[n][c].peer = ends[n][c].peer
                     /\ ends'[n][c].funded = ends[n][c].funded
    BY <1>3, <1>5
  <2> QED
    BY <1>4, <1>5, <2>1 DEF SameChannels
<1>8. ASSUME NEW p \in Nodes PROVE Balance(p)' = Balance(p)
  <2>1. CASE p # n
    <3>1. ends'[p] = ends[p]
      BY <1>4, <2>1
    <3> QED
      BY <3>1 DEF Balance, Ours
  <2>2. CASE p = n
    <3> DEFINE h == Ours(n)
               k == [c \in DOMAIN ends'[n] |-> ends'[n][c].local]
    <3>1. Balance(n) = SumFunctionOnSet(h, S) /\ Balance(n)' = SumFunctionOnSet(k, S)
      BY <1>5 DEF Balance, Ours
    <3>2. Ints(h, S) /\ Ints(k, S) /\ IsFiniteSet(S)
      <4>1. Ints(h, S) /\ IsFiniteSet(S)
        BY <1>2 DEF Ours, Ints, EndAt
      <4>2. Ints(k, S)
        BY <1>5, <1>6 DEF EndsOK, Ints, EndAt
      <4> QED
        BY <4>1, <4>2
    <3>3. \A c \in S : h[c] = ends[n][c].local /\ k[c] = new(c).local
      BY <1>5 DEF Ours
    <3> HIDE DEF h, k, S
    <3>4. k[out] = h[out] - 1 /\ k[into] = h[into] + 1 /\ \A c \in S \ {out, into} : k[c] = h[c]
      BY <1>1, <1>3, <3>3
    <3>5. SumFunctionOnSet(k, S) = SumFunctionOnSet(h, S)
      BY <1>1, <3>2, <3>4, UnitMoves
    <3> QED
      BY <2>2, <3>1, <3>5
  <2> QED
    BY <2>1, <2>2
<1> QED
  BY <1>6, <1>7, <1>8

-----------------------------------------------------------------------------
(* Records                                                                  *)

CountsOK == keysent \in [Nodes -> [Nodes -> Nat]] /\ loops \in [Nodes -> Nat]

\* Payments, sent and got, are finitely many.
LEMMA Counted ==
    ASSUME CountsOK, WorldShapes
    PROVE  /\ \A n \in Nodes, bills \in SUBSET DOMAIN Bills : Wins(n, bills) \in Nat
           /\ \A n \in Nodes : SumFunction(keysent[n]) \in Nat /\ Sent(n) \in Nat /\ Got(n) \in Nat
<1>1. ASSUME NEW n \in Nodes, NEW bills \in SUBSET DOMAIN Bills PROVE Wins(n, bills) \in Nat
  <2>1. IsFiniteSet(bills) /\ \A i \in bills : flowed[n][i] \in Nat
    BY WorldAssumption, FS_Subset DEF WorldShapes
  <2>2. SumFunctionOnSet(flowed[n], bills) \in Nat
    BY <2>1, SumBound
  <2> QED
    BY <2>2 DEF Wins
<1>2. ASSUME NEW n \in Nodes PROVE SumFunction(keysent[n]) \in Nat
  <2>1. DOMAIN keysent[n] = Nodes /\ \A m \in Nodes : keysent[n][m] \in Nat
    BY DEF CountsOK
  <2>2. SumFunctionOnSet(keysent[n], Nodes) \in Nat
    BY <2>1, WorldAssumption, SumBound
  <2> QED
    BY <2>1, <2>2 DEF SumFunction
<1>3. ASSUME NEW n \in Nodes PROVE Sent(n) \in Nat
  <2>1. Wins(n, DOMAIN Bills) \in Nat /\ SumFunction(keysent[n]) \in Nat
    BY <1>1, <1>2
  <2> QED
    BY <2>1 DEF Sent
<1>4. ASSUME NEW n \in Nodes PROVE Got(n) \in Nat
  <2> DEFINE h == [p \in Nodes |-> Wins(p, IssuedBy(n)) + keysent[p][n]]
  <2>1. IssuedBy(n) \in SUBSET DOMAIN Bills
    BY DEF IssuedBy
  <2>2. \A p \in Nodes : h[p] \in Nat
    BY <1>1, <2>1 DEF CountsOK
  <2>3. Got(n) = SumFunctionOnSet(h, Nodes)
    BY DEF Got, SumFunction
  <2> HIDE DEF h
  <2> QED
    BY <2>2, <2>3, WorldAssumption, SumBound
<1> QED
  BY <1>1, <1>2, <1>3, <1>4

\* What moved is what had moved.
LEMMA PaymentsStay ==
    ASSUME keysent' = keysent, flowed' = flowed
    PROVE  \A n \in Nodes : Sent(n)' = Sent(n) /\ Got(n)' = Got(n)
<1>1. \A n \in Nodes, bills \in SUBSET DOMAIN Bills : Wins(n, bills)' = Wins(n, bills)
  BY DEF Wins
<1>2. \A n \in Nodes : IssuedBy(n) \in SUBSET DOMAIN Bills
  BY DEF IssuedBy
<1> QED
  BY <1>1, <1>2 DEF Sent, Got

\* A payment of n of an invoice moves money once more.
LEMMA PaymentComes ==
    ASSUME CountsOK, WorldShapes, keysent' = keysent, NEW n \in Nodes, NEW i \in DOMAIN Bills,
           flowed' = [flowed EXCEPT ![n][i] = @ + 1]
    PROVE  \A p \in Nodes :
              /\ Sent(p)' = Sent(p) + IF p = n THEN 1 ELSE 0
              /\ Got(p)' = Got(p) + IF p = Bills[i].issuer THEN 1 ELSE 0
<1>1. ASSUME NEW p \in Nodes, NEW bills \in SUBSET DOMAIN Bills
      PROVE  Wins(p, bills)' = Wins(p, bills) + IF p = n /\ i \in bills THEN 1 ELSE 0
  <2>1. PICK h, k : h = flowed[p] /\ k = flowed'[p]
    OBVIOUS
  <2>2. Wins(p, bills) = SumFunctionOnSet(h, bills) /\ Wins(p, bills)' = SumFunctionOnSet(k, bills)
    BY <2>1 DEF Wins
  <2>3. /\ IsFiniteSet(bills) /\ Ints(h, bills) /\ Ints(k, bills)
        /\ \A j \in bills : p # n \/ j # i => h[j] = k[j]
        /\ p = n => k[i] = h[i] + 1 /\ h[i] \in Nat
    <3>1. /\ flowed' \in [Nodes -> [DOMAIN Bills -> Nat]]
          /\ flowed[n][i] \in Nat /\ flowed'[n][i] = flowed[n][i] + 1
          /\ \A q \in Nodes, j \in DOMAIN Bills : q # n \/ j # i => flowed'[q][j] = flowed[q][j]
      BY MovedChanges
    <3>2. IsFiniteSet(bills)
      BY WorldAssumption, FS_Subset
    <3>3. \A j \in bills : h[j] \in Int /\ k[j] \in Int
      BY <2>1, <3>1 DEF WorldShapes
    <3> QED
      BY <2>1, <3>1, <3>2, <3>3 DEF Ints
  <2>4. Wins(p, bills) \in Nat
    BY Counted
  <2>5. CASE p = n /\ i \in bills
    <3>1. \A j \in bills \ {i} : h[j] = k[j]
      BY <2>3
    <3>2. SumFunctionOnSet(k, bills) = SumFunctionOnSet(h, bills) + k[i] - h[i]
      BY <2>3, <2>5, <3>1, SumChange
    <3> QED
      BY <2>2, <2>3, <2>4, <2>5, <3>2
  <2>6. CASE ~(p = n /\ i \in bills)
    <3>1. \A j \in bills : h[j] = k[j]
      BY <2>3, <2>6
    <3>2. SumFunctionOnSet(h, bills) = SumFunctionOnSet(k, bills)
      BY <2>3, <3>1, SumSame
    <3> QED
      BY <2>2, <2>4, <2>6, <3>2
  <2> QED
    BY <2>5, <2>6
<1>2. ASSUME NEW p \in Nodes PROVE Sent(p)' = Sent(p) + IF p = n THEN 1 ELSE 0
  <2>1. /\ Wins(p, DOMAIN Bills)' = Wins(p, DOMAIN Bills) + IF p = n THEN 1 ELSE 0
        /\ Wins(p, DOMAIN Bills) \in Nat /\ SumFunction(keysent[p]) \in Nat
    BY <1>1, Counted
  <2>2. SumFunction(keysent[p])' = SumFunction(keysent[p])
    OBVIOUS
  <2> QED
    BY <2>1, <2>2 DEF Sent
<1>3. ASSUME NEW p \in Nodes
      PROVE  Got(p)' = Got(p) + IF p = Bills[i].issuer THEN 1 ELSE 0
  <2> DEFINE h == [q \in Nodes |-> Wins(q, IssuedBy(p)) + keysent[q][p]]
             k == [q \in Nodes |-> Wins(q, IssuedBy(p))' + keysent[q][p]]
  <2>1. IssuedBy(p) \in SUBSET DOMAIN Bills /\ (i \in IssuedBy(p) <=> p = Bills[i].issuer)
    BY DEF IssuedBy
  <2>2. Got(p) = SumFunctionOnSet(h, Nodes) /\ Got(p)' = SumFunctionOnSet(k, Nodes)
    BY DEF Got, SumFunction
  <2>3. \A q \in Nodes : Wins(q, IssuedBy(p)) \in Nat /\ keysent[q][p] \in Nat
    BY <2>1, Counted DEF CountsOK
  <2>4. \A q \in Nodes :
           k[q] = h[q] + IF q = n /\ p = Bills[i].issuer THEN 1 ELSE 0
    BY <1>1, <2>1, <2>3
  <2>5. Ints(h, Nodes)
    BY <2>3 DEF Ints
  <2> HIDE DEF h, k
  <2>6. Ints(k, Nodes)
    BY <2>4, <2>5 DEF Ints
  <2>7. \A q \in Nodes \ {n} : h[q] = k[q]
    BY <2>4, <2>5 DEF Ints
  <2>8. SumFunctionOnSet(k, Nodes) = SumFunctionOnSet(h, Nodes) + k[n] - h[n]
    BY <2>5, <2>6, <2>7, WorldAssumption, SumChange
  <2>9. SumFunctionOnSet(h, Nodes) \in Int /\ h[n] \in Int
    BY <2>5, WorldAssumption, SumInt DEF Ints
  <2> QED
    BY <2>2, <2>4, <2>8, <2>9
<1> QED
  BY <1>2, <1>3

\* One more keysend of n to m.
LEMMA KeysendComes ==
    ASSUME CountsOK, WorldShapes, UNCHANGED <<flowed, loops>>, NEW n \in Nodes, NEW m \in Nodes,
           keysent' = [keysent EXCEPT ![n][m] = @ + 1]
    PROVE  /\ CountsOK'
           /\ \A p \in Nodes : /\ Sent(p)' = Sent(p) + IF p = n THEN 1 ELSE 0
                               /\ Got(p)' = Got(p) + IF p = m THEN 1 ELSE 0
<1>1. /\ keysent' \in [Nodes -> [Nodes -> Nat]]
      /\ \A p, q \in Nodes :
            keysent'[p][q] = IF p = n /\ q = m THEN keysent[p][q] + 1 ELSE keysent[p][q]
  BY DEF CountsOK
<1>2. \A p \in Nodes, bills \in SUBSET DOMAIN Bills : Wins(p, bills)' = Wins(p, bills)
  BY DEF Wins
<1>3. ASSUME NEW p \in Nodes PROVE Sent(p)' = Sent(p) + IF p = n THEN 1 ELSE 0
  <2> DEFINE h == keysent[p]
             k == keysent'[p]
  <2>1. DOMAIN h = Nodes /\ DOMAIN k = Nodes /\ Ints(h, Nodes) /\ Ints(k, Nodes)
    BY <1>1 DEF CountsOK, Ints
  <2>2. /\ Sent(p) = Wins(p, DOMAIN Bills) + SumFunctionOnSet(h, Nodes)
        /\ Sent(p)' = Wins(p, DOMAIN Bills) + SumFunctionOnSet(k, Nodes)
    BY <1>2, <2>1 DEF Sent, SumFunction
  <2>3. \A q \in Nodes \ {m} : h[q] = k[q]
    BY <1>1
  <2>4. k[m] = h[m] + IF p = n THEN 1 ELSE 0
    BY <1>1 DEF CountsOK
  <2>5. Wins(p, DOMAIN Bills) \in Nat
    BY Counted
  <2> HIDE DEF h, k
  <2>6. SumFunctionOnSet(k, Nodes) = SumFunctionOnSet(h, Nodes) + k[m] - h[m]
    BY <2>1, <2>3, WorldAssumption, SumChange
  <2>7. SumFunctionOnSet(h, Nodes) \in Int /\ h[m] \in Int
    BY <2>1, WorldAssumption, SumInt DEF Ints
  <2> QED
    BY <2>2, <2>4, <2>5, <2>6, <2>7
<1>4. ASSUME NEW p \in Nodes PROVE Got(p)' = Got(p) + IF p = m THEN 1 ELSE 0
  <2> DEFINE h == [q \in Nodes |-> Wins(q, IssuedBy(p)) + keysent[q][p]]
             k == [q \in Nodes |-> Wins(q, IssuedBy(p)) + keysent'[q][p]]
  <2>1. IssuedBy(p) \in SUBSET DOMAIN Bills
    BY DEF IssuedBy
  <2>2. Got(p) = SumFunctionOnSet(h, Nodes)
    BY DEF Got, SumFunction
  <2>3. Got(p)' = SumFunctionOnSet(k, Nodes)
    <3>1. k = [q \in Nodes |-> Wins(q, IssuedBy(p))' + keysent'[q][p]]
      BY <1>2, <2>1
    <3> HIDE DEF k
    <3> QED
      BY <3>1 DEF Got, SumFunction
  <2>4. \A q \in Nodes : Wins(q, IssuedBy(p)) \in Nat /\ keysent[q][p] \in Nat
    BY <2>1, Counted DEF CountsOK
  <2>5. \A q \in Nodes : k[q] = h[q] + IF q = n /\ p = m THEN 1 ELSE 0
    BY <1>1, <2>4
  <2>6. Ints(h, Nodes)
    BY <2>4 DEF Ints
  <2> HIDE DEF h, k
  <2>7. Ints(k, Nodes)
    BY <2>5, <2>6 DEF Ints
  <2>8. \A q \in Nodes \ {n} : h[q] = k[q]
    BY <2>5, <2>6 DEF Ints
  <2>9. SumFunctionOnSet(k, Nodes) = SumFunctionOnSet(h, Nodes) + k[n] - h[n]
    BY <2>6, <2>7, <2>8, WorldAssumption, SumChange
  <2>10. SumFunctionOnSet(h, Nodes) \in Int /\ h[n] \in Int
    BY <2>6, WorldAssumption, SumInt DEF Ints
  <2> QED
    BY <2>2, <2>3, <2>5, <2>9, <2>10
<1> QED
  BY <1>1, <1>3, <1>4 DEF CountsOK

-----------------------------------------------------------------------------
(* The balance of each node                                                 *)

Balanced == \A n \in Nodes : Balance(n) = Funded(n) - Sent(n) + Got(n)
MoneyInv == WorldInv /\ ChannelInv /\ CountsOK /\ Balanced

\* A balance and what was funded are integers.
LEMMA EndInts ==
    ASSUME EndsOK, NEW n \in Nodes
    PROVE  Balance(n) \in Int /\ Funded(n) \in Int
<1> DEFINE S == DOMAIN ends[n]
           h == Ours(n)
           g == [c \in S |-> ends[n][c].funded]
<1>1. Balance(n) = SumFunctionOnSet(h, S) /\ Funded(n) = SumFunctionOnSet(g, S)
  BY DEF Balance, Funded, SumFunction
<1>2. IsFiniteSet(S) /\ Ints(h, S) /\ Ints(g, S)
  BY DEF EndsOK, EndAt, Ours, Ints
<1> HIDE DEF S, h, g
<1> QED
  BY <1>1, <1>2, SumInt

\* The channels are the same, and so is what every node has.
LEMMA EndsStay ==
    ASSUME EndsOK, ends' = ends
    PROVE  EndsOK' /\ SameChannels /\ \A p \in Nodes : Balance(p)' = Balance(p)
<1>1. EndsOK'
  BY DEF EndsOK, EndAt
<1>2. SameChannels
  BY DEF SameChannels
<1>3. \A p \in Nodes : Ours(p)' = Ours(p) /\ DOMAIN ends'[p] = DOMAIN ends[p]
  BY DEF Ours
<1>4. \A p \in Nodes : Balance(p)' = Balance(p)
  BY <1>3 DEF Balance
<1> QED
  BY <1>1, <1>2, <1>4

\* A payment moves what it is counted with.
LEMMA TransferKeeps ==
    ASSUME MoneyInv, NEW n \in Nodes, NEW m \in Nodes, NEW hops, Carry(hops, n, m),
           ends' = Shift(hops, TRUE),
           \A p \in Nodes : /\ Sent(p)' = Sent(p) + IF p = n THEN 1 ELSE 0
                            /\ Got(p)' = Got(p) + IF p = m THEN 1 ELSE 0
    PROVE  EndsOK' /\ SameChannels /\ Balanced'
<1>1. EndsOK /\ Paired /\ Numbered /\ CountsOK /\ Balanced /\ WorldShapes
  BY DEF MoneyInv, ChannelInv, WorldInv
<1>2. EndsOK' /\ SameChannels
  BY <1>1, ShiftEnds
<1>3. \A p \in Nodes : Funded(p)' = Funded(p)
  BY <1>1, <1>2, ChannelsStay
<1>4. ASSUME NEW p \in Nodes PROVE Balance(p)' = Funded(p)' - Sent(p)' + Got(p)'
  <2>1. Balance(p)' = Balance(p) + (IF p = m THEN 1 ELSE 0) - (IF p = n THEN 1 ELSE 0)
    BY <1>1, CarryMoves, ZenonT(30)
  <2>2. Balance(p) \in Int /\ Funded(p) \in Int
    BY <1>1, EndInts
  <2>3. Sent(p) \in Nat /\ Got(p) \in Nat
    BY <1>1, Counted
  <2>4. Balance(p) = Funded(p) - Sent(p) + Got(p)
    BY <1>1 DEF Balanced
  <2>5. /\ Sent(p)' = Sent(p) + IF p = n THEN 1 ELSE 0
        /\ Got(p)' = Got(p) + IF p = m THEN 1 ELSE 0
        /\ Funded(p)' = Funded(p)
    BY <1>3
  <2> QED
    BY <2>1, <2>2, <2>3, <2>4, <2>5
<1> QED
  BY <1>2, <1>4 DEF Balanced

\* There are no channels, hence no money, yet.
LEMMA MoneyInvInit == WorldInit => MoneyInv
<1> SUFFICES ASSUME WorldInit PROVE MoneyInv
  OBVIOUS
<1>1. /\ ends = [n \in Nodes |-> <<>>] /\ heldBy = [i \in DOMAIN Bills |-> NotHeld]
      /\ flowed = [n \in Nodes |-> [i \in DOMAIN Bills |-> 0]]
      /\ keysent = [n \in Nodes |-> [m \in Nodes |-> 0]] /\ loops = [n \in Nodes |-> 0]
  BY DEF WorldInit
<1>2. \A n \in Nodes : DOMAIN ends[n] = {} /\ ends[n] \in [DOMAIN ends[n] -> EndAt(n)]
  BY <1>1
<1>3. EndsOK
  BY <1>1, <1>2, FS_EmptySet DEF EndsOK
<1>4. Paired
  BY <1>2 DEF Paired
<1>5. Numbered
  <2>1. Outpoints = {} /\ 1 .. 0 = {} /\ 0 \in Nat
    BY <1>2 DEF Outpoints
  <2> QED
    BY <2>1 DEF Numbered
<1>6. HoldsLead
  BY <1>1 DEF HoldsLead
<1>7. CountsOK
  BY <1>1 DEF CountsOK
<1>8. ASSUME NEW n \in Nodes PROVE Balance(n) = 0 /\ Funded(n) = 0
  BY <1>2, SumEmpty DEF Balance, Funded, SumFunction
<1>9. ASSUME NEW S, IsFiniteSet(S), NEW h, \A x \in S : h[x] = 0
      PROVE  SumFunctionOnSet(h, S) = 0
  <2>1. {} \in SUBSET S /\ \A x \in S : h[x] = IF x \in {} THEN 1 ELSE 0
    BY <1>9
  <2>2. SumFunctionOnSet(h, S) = Cardinality({})
    BY <1>9, <2>1, SumOnes
  <2> QED
    BY <2>2, FS_EmptySet
<1>10. ASSUME NEW n \in Nodes, NEW bills \in SUBSET DOMAIN Bills PROVE Wins(n, bills) = 0
  <2>1. IsFiniteSet(bills) /\ \A i \in bills : flowed[n][i] = 0
    BY <1>1, WorldAssumption, FS_Subset
  <2>2. SumFunctionOnSet(flowed[n], bills) = 0
    BY <1>9, <2>1
  <2> QED
    BY <2>2 DEF Wins
<1>11. ASSUME NEW n \in Nodes PROVE Sent(n) = 0 /\ Got(n) = 0
  <2>1. Sent(n) = 0
    <3>1. DOMAIN keysent[n] = Nodes /\ \A m \in Nodes : keysent[n][m] = 0
      BY <1>1
    <3>2. SumFunctionOnSet(keysent[n], Nodes) = 0
      BY <1>9, <3>1, WorldAssumption
    <3> QED
      BY <1>10, <3>1, <3>2 DEF Sent, SumFunction
  <2>2. Got(n) = 0
    <3> DEFINE h == [p \in Nodes |-> Wins(p, IssuedBy(n)) + keysent[p][n]]
    <3>1. IssuedBy(n) \in SUBSET DOMAIN Bills
      BY DEF IssuedBy
    <3>2. \A p \in Nodes : h[p] = 0
      BY <1>1, <1>10, <3>1
    <3>3. Got(n) = SumFunctionOnSet(h, Nodes)
      BY DEF Got, SumFunction
    <3> HIDE DEF h
    <3> QED
      BY <1>9, <3>2, <3>3, WorldAssumption
  <2> QED
    BY <2>1, <2>2
<1>12. Balanced
  BY <1>8, <1>11 DEF Balanced
<1> QED
  BY <1>3, <1>4, <1>5, <1>6, <1>7, <1>12, WorldInvInit DEF MoneyInv, ChannelInv

\* What is left of a step that keeps the channels and the balances.
LEMMA MoneyStays ==
    ASSUME MoneyInv, WorldInv', EndsOK', SameChannels, CountsOK', Balanced',
           \A i \in DOMAIN Bills : heldBy'[i] = heldBy[i] \/ heldBy'[i] = NotHeld
    PROVE  MoneyInv'
<1>1. EndsOK /\ Paired /\ Numbered /\ HoldsLead /\ WorldInv
  BY DEF MoneyInv, ChannelInv
<1>2. Paired' /\ Numbered' /\ Grown
  BY <1>1, ChannelsStay
<1>3. HoldsLead'
  BY <1>1, <1>2, WaysStay
<1> QED
  BY <1>2, <1>3 DEF MoneyInv, ChannelInv

\* Every call of a node that does not stop moves balances and records by the same
\* amount, or neither.
LEMMA MoneyInvStep == MoneyInv /\ ~torn' /\ [WorldNext]_worldVars => MoneyInv'
<1> SUFFICES ASSUME MoneyInv, ~torn', [WorldNext]_worldVars PROVE MoneyInv'
  OBVIOUS
<1>1. /\ WorldInv /\ WorldShapes /\ HeldRight /\ EndsOK /\ Paired /\ Numbered /\ HoldsLead
      /\ CountsOK /\ Balanced
  BY DEF MoneyInv, ChannelInv, WorldInv
<1>2. WorldInv'
  BY <1>1, WorldInvStep
<1>3. ASSUME EndsOK', SameChannels, \A p \in Nodes : Balance(p)' = Balance(p), keysent' = keysent,
             flowed' = flowed, loops' \in [Nodes -> Nat]
      PROVE  CountsOK' /\ Balanced'
  <2>1. \A p \in Nodes : Sent(p)' = Sent(p) /\ Got(p)' = Got(p)
    BY <1>3, PaymentsStay
  <2>2. \A p \in Nodes : Funded(p)' = Funded(p)
    BY <1>1, <1>3, ChannelsStay
  <2>3. Balanced'
    BY <1>1, <1>3, <2>1, <2>2 DEF Balanced
  <2> QED
    BY <1>1, <1>3, <2>3 DEF CountsOK
<1>4. ASSUME UNCHANGED <<ends, flowed, keysent, loops>>,
             \A i \in DOMAIN Bills : heldBy'[i] = heldBy[i] \/ heldBy'[i] = NotHeld
      PROVE  MoneyInv'
  <2>1. EndsOK' /\ SameChannels /\ \A p \in Nodes : Balance(p)' = Balance(p)
    BY <1>1, <1>4, EndsStay
  <2>2. CountsOK' /\ Balanced'
    BY <1>1, <1>3, <1>4, <2>1 DEF CountsOK
  <2> QED
    BY <1>2, <1>4, <2>1, <2>2, MoneyStays
<1>5. ASSUME NEW n \in Nodes, NEW m \in Nodes \ {n}, NEW a \in Assets, NEW f \in Nat,
             OpenMock(n, m, a, f)
      PROVE  MoneyInv'
  <2>1. UNCHANGED <<flowed, heldBy, keysent, loops>>
    BY <1>5 DEF OpenMock
  <2>2. /\ EndsOK' /\ Paired' /\ Numbered' /\ Grown
        /\ \A p \in Nodes : \E x \in Int : /\ Balance(p)' = Balance(p) + x
                                             /\ Funded(p)' = Funded(p) + x
    BY <1>1, <1>5, OpenKeeps
  <2>3. HoldsLead'
    BY <1>1, <2>1, <2>2, WaysStay
  <2>4. \A p \in Nodes : Sent(p)' = Sent(p) /\ Got(p)' = Got(p)
    BY <2>1, PaymentsStay
  <2>5. ASSUME NEW p \in Nodes PROVE Balance(p)' = Funded(p)' - Sent(p)' + Got(p)'
    <3>1. Balance(p) \in Int /\ Funded(p) \in Int
      BY <1>1, EndInts
    <3>2. PICK x \in Int : Balance(p)' = Balance(p) + x /\ Funded(p)' = Funded(p) + x
      BY <2>2
    <3>3. Sent(p) \in Nat /\ Got(p) \in Nat
      BY <1>1, Counted
    <3>4. Balance(p) = Funded(p) - Sent(p) + Got(p)
      BY <1>1 DEF Balanced
    <3> QED
      BY <2>4, <3>1, <3>2, <3>3, <3>4
  <2>6. Balanced'
    BY <2>5 DEF Balanced
  <2>7. CountsOK'
    BY <1>1, <2>1 DEF CountsOK
  <2> QED
    BY <1>2, <2>2, <2>3, <2>6, <2>7 DEF MoneyInv, ChannelInv
<1>6. ASSUME NEW n \in Nodes, NEW c, ShutMock(n, c) PROVE MoneyInv'
  <2>1. UNCHANGED <<flowed, heldBy, keysent, loops>>
    BY <1>6 DEF ShutMock
  <2>2. EndsOK' /\ SameChannels /\ \A p \in Nodes : Balance(p)' = Balance(p)
    BY <1>1, <1>6, ShutKeeps
  <2>3. CountsOK' /\ Balanced'
    BY <1>1, <1>3, <2>1, <2>2 DEF CountsOK
  <2> QED
    BY <1>2, <2>1, <2>2, <2>3, MoneyStays
<1>7. ASSUME NEW n \in Nodes, NEW c, NEW d, RouterPay(n, c, d) PROVE MoneyInv'
  <2>0. UNCHANGED <<flowed, heldBy, keysent>> /\ loops' = [loops EXCEPT ![n] = @ + 1]
    BY <1>7 DEF RouterPay
  <2>1. UNCHANGED <<flowed, heldBy, keysent>> /\ loops' \in [Nodes -> Nat]
    BY <1>1, <2>0 DEF CountsOK
  <2>2. EndsOK' /\ SameChannels /\ \A p \in Nodes : Balance(p)' = Balance(p)
    BY <1>1, <1>7, RouterKeeps
  <2>3. CountsOK' /\ Balanced'
    BY <1>3, <2>1, <2>2
  <2> QED
    BY <1>2, <2>1, <2>2, <2>3, MoneyStays
<1>8. ASSUME NEW n \in Nodes, NEW m \in Nodes, NEW a, Keysend(n, m, a) PROVE MoneyInv'
  <2>1. /\ UNCHANGED <<flowed, heldBy, loops>> /\ keysent' = [keysent EXCEPT ![n][m] = @ + 1]
        /\ \E c \in ListChannels(n, {m}) : ends' = Shift({<<n, c>>}, TRUE)
    BY <1>8 DEF Keysend, Directs
  <2>2. PICK c \in DOMAIN ends[n] : ends[n][c].peer = m /\ ends' = Shift({<<n, c>>}, TRUE)
    BY <2>1 DEF ListChannels
  <2>3. m \in Nodes /\ Carry({<<n, c>>}, n, m)
    BY <1>1, <2>2, HopLeads DEF Carry
  <2>4. /\ CountsOK'
        /\ \A p \in Nodes : /\ Sent(p)' = Sent(p) + IF p = n THEN 1 ELSE 0
                            /\ Got(p)' = Got(p) + IF p = m THEN 1 ELSE 0
    BY <1>1, <2>1, KeysendComes
  <2>5. EndsOK' /\ SameChannels /\ Balanced'
    BY <2>2, <2>3, <2>4, TransferKeeps
  <2> QED
    BY <1>2, <2>1, <2>4, <2>5, MoneyStays
<1>9. ASSUME NEW i \in DOMAIN Bills, SettleMock(i) PROVE MoneyInv'
  <2>1. CASE heldBy[i] = NotHeld /\ UNCHANGED <<ends, paid, heldBy, watch, flowed>>
    BY <1>4, <1>9, <2>1 DEF SettleMock
  <2>2. CASE heldBy[i] # NotHeld
    <3>1. PICK n, m, hops : n = heldBy[i].node /\ m = Bills[i].issuer /\ hops = heldBy[i].hops
      OBVIOUS
    <3>2. /\ ends' = Shift(hops, TRUE) /\ flowed' = [flowed EXCEPT ![n][i] = @ + 1]
          /\ heldBy' = [heldBy EXCEPT ![i] = NotHeld] /\ UNCHANGED <<keysent, loops>>
      BY <1>9, <2>2, <3>1 DEF SettleMock
    <3>3. n \in Nodes /\ m \in Nodes
      BY <1>1, <2>2, <3>1, BillsAssumption DEF HeldRight
    <3>4. Carry(hops, n, m)
      BY <1>1, <2>2, <3>1 DEF HoldsLead
    <3>5. \A p \in Nodes : /\ Sent(p)' = Sent(p) + IF p = n THEN 1 ELSE 0
                           /\ Got(p)' = Got(p) + IF p = m THEN 1 ELSE 0
      <4>1. \A p \in Nodes :
               /\ Sent(p)' = Sent(p) + IF p = n THEN 1 ELSE 0
               /\ Got(p)' = Got(p) + IF p = Bills[i].issuer THEN 1 ELSE 0
        BY <1>1, <3>2, <3>3, PaymentComes
      <4> QED
        BY <3>1, <4>1
    <3>6. EndsOK' /\ SameChannels /\ Balanced'
      BY <3>2, <3>3, <3>4, <3>5, TransferKeeps
    <3>7. \A j \in DOMAIN Bills : heldBy'[j] = heldBy[j] \/ heldBy'[j] = NotHeld
      BY <1>1, <3>2 DEF WorldShapes
    <3>8. CountsOK'
      BY <1>1, <3>2 DEF CountsOK
    <3> QED
      BY <1>2, <3>6, <3>7, <3>8, MoneyStays
  <2> QED
    BY <1>9, <2>1, <2>2 DEF SettleMock
<1>10. ASSUME NEW i \in DOMAIN Bills, CancelMock(i) PROVE MoneyInv'
  <2>1. heldBy' = [heldBy EXCEPT ![i] = NotHeld] /\ UNCHANGED <<ends, flowed, keysent, loops>>
    BY <1>10 DEF CancelMock
  <2>2. \A j \in DOMAIN Bills : heldBy'[j] = heldBy[j] \/ heldBy'[j] = NotHeld
    BY <1>1, <2>1 DEF WorldShapes
  <2> QED
    BY <1>4, <2>1, <2>2
<1>11. ASSUME NEW n \in Nodes, NEW i \in DOMAIN Bills, SendPayment(n, i) PROVE MoneyInv'
  <2> DEFINE m == Bills[i].issuer
  <2>1. m \in Nodes /\ UNCHANGED <<keysent, loops>>
    BY <1>11, BillsAssumption DEF SendPayment
  <2>2. PICK hops :
           /\ Carry(hops, n, m)
           /\ \/ /\ heldBy' = [heldBy EXCEPT ![i] = [node |-> n, hops |-> hops]]
                 /\ UNCHANGED <<ends, flowed>>
              \/ /\ ends' = Shift(hops, TRUE) /\ heldBy' = heldBy
                 /\ flowed' = [flowed EXCEPT ![n][i] = @ + 1]
    <3>1. PICK q \in Routes(n, m, Bills[i].asset) :
             \/ /\ heldBy' = [heldBy EXCEPT ![i] = [node |-> n, hops |-> ToSet(q)]]
                /\ UNCHANGED <<ends, flowed>>
             \/ /\ ends' = Shift(ToSet(q), TRUE) /\ heldBy' = heldBy
                /\ flowed' = [flowed EXCEPT ![n][i] = @ + 1]
      BY <1>11 DEF SendPayment
    <3> HIDE DEF m
    <3>2. Carry(ToSet(q), n, m)
      BY <1>1, <2>1, <3>1, RouteCarries
    <3> QED
      BY <3>1, <3>2
  <2>3. CASE /\ heldBy' = [heldBy EXCEPT ![i] = [node |-> n, hops |-> hops]]
             /\ UNCHANGED <<ends, flowed>>
    <3>4. EndsOK' /\ SameChannels /\ \A p \in Nodes : Balance(p)' = Balance(p)
      BY <1>1, <2>3, EndsStay
    <3>5. CountsOK' /\ Balanced'
      BY <1>1, <1>3, <2>1, <2>3, <3>4 DEF CountsOK
    <3>6. Paired' /\ Numbered' /\ Grown
      BY <1>1, <3>4, ChannelsStay
    <3>7. HoldsLead'
      <4> SUFFICES ASSUME NEW j \in DOMAIN Bills, heldBy'[j] # NotHeld
                   PROVE  Carry(heldBy[j].hops, heldBy[j].node, Bills[j].issuer)'
        BY DEF HoldsLead
      <4>1. heldBy'[i] = [node |-> n, hops |-> hops] /\ \A l \in DOMAIN Bills \ {i} : heldBy'[l] = heldBy[l]
        BY <1>1, <2>3 DEF WorldShapes
      <4>2. PICK h, p : h = heldBy'[j].hops /\ p = heldBy'[j].node
        OBVIOUS
      <4>3. p \in Nodes /\ Bills[j].issuer \in Nodes /\ Carry(h, p, Bills[j].issuer)
        <5>1. CASE j = i
          BY <2>1, <2>2, <4>1, <4>2, <5>1
        <5>2. CASE j # i
          <6>1. heldBy[j] # NotHeld /\ h = heldBy[j].hops /\ p = heldBy[j].node
            BY <4>1, <4>2, <5>2
          <6>2. p \in Nodes /\ Bills[j].issuer \in Nodes
            BY <1>1, <6>1, BillsAssumption DEF HeldRight
          <6>3. Carry(h, p, Bills[j].issuer)
            BY <1>1, <6>1 DEF HoldsLead
          <6> QED
            BY <6>2, <6>3
        <5> QED
          BY <5>1, <5>2
      <4>4. Carry(h, p, Bills[j].issuer)'
        BY <3>6, <4>3, CarryGrows
      <4> QED
        BY <4>2, <4>4
    <3> QED
      BY <1>2, <3>4, <3>5, <3>6, <3>7 DEF MoneyInv, ChannelInv
  <2>4. CASE /\ ends' = Shift(hops, TRUE) /\ heldBy' = heldBy
             /\ flowed' = [flowed EXCEPT ![n][i] = @ + 1]
    <3>1. \A p \in Nodes : /\ Sent(p)' = Sent(p) + IF p = n THEN 1 ELSE 0
                           /\ Got(p)' = Got(p) + IF p = m THEN 1 ELSE 0
      BY <1>1, <2>1, <2>4, PaymentComes
    <3> HIDE DEF m
    <3>2. EndsOK' /\ SameChannels /\ Balanced'
      BY <2>1, <2>2, <2>4, <3>1, TransferKeeps
    <3>3. CountsOK'
      BY <1>1, <2>1 DEF CountsOK
    <3> QED
      BY <1>2, <2>4, <3>2, <3>3, MoneyStays
  <2> QED
    BY <2>2, <2>3, <2>4
<1>12. CASE UNCHANGED worldVars
  BY <1>4, <1>12 DEF worldVars
<1>13. CASE WorldNext
  <2>1. ASSUME \/ \E e \in Meets : Connect2(e[1], e[2])
               \/ \E i \in DOMAIN Bills : NewInvoice(i)
               \/ \E n \in Nodes, i \in DOMAIN Bills : ObserveMock(n, i)
        PROVE  UNCHANGED <<ends, flowed, heldBy, keysent, loops>>
    BY <2>1 DEF Connect2, NewInvoice, ObserveMock
  <2>2. ASSUME NEW e \in Opens, NEW a \in Assets, NEW f \in Fundings, OpenMock(e[1], e[2], a, f)
        PROVE  MoneyInv'
    <3>1. e[1] \in Nodes /\ e[2] \in Nodes \ {e[1]} /\ f \in Nat
      BY WorldAssumption
    <3> QED
      BY <1>5, <2>2, <3>1
  <2>3. ASSUME \/ \E i \in DOMAIN Bills : SettleStops(i)
               \/ \E n \in Nodes, i \in DOMAIN Bills : PayStops(n, i)
               \/ \E n, m \in Nodes, a \in Assets : KeysendStops(n, m, a)
               \/ \E n \in Nodes, c, d \in 1..MaxChannels : RouterStops(n, c, d)
        PROVE  torn'
    BY <2>3 DEF SettleStops, PayStops, KeysendStops, RouterStops, Stops
  <2> QED
    BY <1>4, <1>6, <1>7, <1>8, <1>9, <1>10, <1>11, <1>13, <2>1, <2>2, <2>3 DEF WorldNext
<1> QED
  BY <1>12, <1>13

\* Whatever stops, keysends and loops are counted.
LEMMA CountsStay == CountsOK /\ [WorldNext]_worldVars => CountsOK' /\ (torn => torn')
<1> SUFFICES ASSUME CountsOK, [WorldNext]_worldVars PROVE CountsOK' /\ (torn => torn')
  OBVIOUS
<1>1. ASSUME UNCHANGED <<keysent, loops>>, torn => torn' PROVE CountsOK' /\ (torn => torn')
  BY <1>1 DEF CountsOK
<1>2. ASSUME NEW n \in Nodes, NEW m \in Nodes, NEW a, Keysend(n, m, a)
      PROVE  CountsOK' /\ (torn => torn')
  BY <1>2 DEF Keysend, CountsOK
<1>3. ASSUME NEW n \in Nodes, NEW c, NEW d, RouterPay(n, c, d)
      PROVE  CountsOK' /\ (torn => torn')
  BY <1>3 DEF RouterPay, CountsOK
<1>4. CASE UNCHANGED worldVars
  BY <1>1, <1>4 DEF worldVars
<1>5. CASE WorldNext
  <2>1. ASSUME \/ \E e \in Meets : Connect2(e[1], e[2])
               \/ \E e \in Opens, a \in Assets, f \in Fundings : OpenMock(e[1], e[2], a, f)
               \/ \E n \in Nodes, c \in 1..MaxChannels : ShutMock(n, c)
               \/ \E i \in DOMAIN Bills : NewInvoice(i) \/ SettleMock(i) \/ CancelMock(i)
               \/ \E n \in Nodes, i \in DOMAIN Bills : SendPayment(n, i) \/ ObserveMock(n, i)
        PROVE  UNCHANGED <<keysent, loops, torn>>
    BY <2>1 DEF Connect2, OpenMock, ShutMock, NewInvoice, SettleMock, CancelMock, SendPayment,
                ObserveMock
  <2>2. ASSUME \/ \E i \in DOMAIN Bills : SettleStops(i)
               \/ \E n \in Nodes, i \in DOMAIN Bills : PayStops(n, i)
               \/ \E n, m \in Nodes, a \in Assets : KeysendStops(n, m, a)
               \/ \E n \in Nodes, c, d \in 1..MaxChannels : RouterStops(n, c, d)
        PROVE  UNCHANGED <<keysent, loops>> /\ torn'
    BY <2>2 DEF SettleStops, PayStops, KeysendStops, RouterStops, Stops
  <2> QED
    BY <1>1, <1>2, <1>3, <1>5, <2>1, <2>2 DEF WorldNext
<1> QED
  BY <1>4, <1>5

\* The ledger's sum: a unit for each regular invoice once, for each keysend and
\* for each router payment.
LEMMA LedgerSum ==
    ASSUME WorldInv, CountsOK, NEW n \in Nodes
    PROVE  Summary(n).sent = Cardinality(PaidOnce(n)) + SumFunction(keysent[n]) + loops[n]
<1> DEFINE T == {i \in DOMAIN Bills : paid[n][i].status = "Success"}
           P == PaidOnce(n)
           h == [i \in DOMAIN Bills |-> paid[n][i].amount]
<1>1. CountsOK /\ WorldShapes /\ PaidRightly /\ LedgerRight
  BY DEF WorldInv
<1>2. T = {i \in ListPayments(n).invoices : paid[n][i].status = "Success"}
  BY RecordsAre DEF ListPayments
<1>3. Summary(n).sent = SumFunctionOnSet(h, T) + (SumFunction(keysent[n]) + loops[n])
  BY <1>2 DEF Summary, ListPayments
<1>4. \A i \in DOMAIN Bills : i \in P <=> ~Bills[i].held /\ flowed[n][i] > 0
  BY DEF PaidOnce
<1>5. P \in SUBSET T
  BY <1>1, <1>4, RecordsAre DEF LedgerRight, PaidOnce
<1>6. \A i \in T : h[i] = IF i \in P THEN 1 ELSE 0
  <2> SUFFICES ASSUME NEW i \in T PROVE h[i] = IF i \in P THEN 1 ELSE 0
    OBVIOUS
  <2>1. h[i] = paid[n][i].amount /\ paid[n][i].status = "Success"
    OBVIOUS
  <2>2. flowed[n][i] > 0
    BY <1>1, <2>1 DEF PaidRightly
  <2>3. CASE Bills[i].held
    BY <1>1, <1>4, <2>1, <2>3 DEF LedgerRight
  <2>4. CASE ~Bills[i].held
    <3>1. paid[n][i] = PaidNow
      BY <1>1, <2>2, <2>4 DEF LedgerRight
    <3> QED
      BY <1>4, <2>1, <2>2, <2>4, <3>1 DEF PaidNow
  <2> QED
    BY <2>3, <2>4
<1>7. IsFiniteSet(T)
  BY WorldAssumption, FS_Subset
<1>8. SumFunction(keysent[n]) \in Nat /\ loops[n] \in Nat
  BY <1>1, Counted DEF CountsOK
<1> HIDE DEF T, P, h
<1>9. SumFunctionOnSet(h, T) = Cardinality(P)
  BY <1>5, <1>6, <1>7, SumOnes
<1>10. Cardinality(P) \in Nat
  BY <1>5, <1>7, FS_Subset, FS_CardinalityType
<1> QED
  BY <1>3, <1>8, <1>9, <1>10 DEF P

\* The records stand whatever stops, the balances as long as nothing did.
LastingInv == WorldInv /\ CountsOK /\ (~torn => MoneyInv)

\* What a node can send is what was funded, less what it sent, plus what it was
\* paid, however payments that pass through several nodes are held, repeated,
\* settled and cancelled and channels opened and closed meanwhile, until a call
\* stops between its writes; and always the ledger counts each regular invoice
\* once, each keysend, each router payment and no hold invoice
\* (findChannelRoute, moveAcrossRoute, settle_invoice, list_payments of the
\* mock; liquidity and summarizePayments of the LSP).
THEOREM MoneyStaysRight == WorldSpec => []MoneyFollowsPayments
<1>1. WorldInit => LastingInv
  BY MoneyInvInit DEF LastingInv, MoneyInv
<1>2. LastingInv /\ [WorldNext]_worldVars => LastingInv'
  BY WorldInvStep, CountsStay, MoneyInvStep DEF LastingInv
<1>3. LastingInv => MoneyFollowsPayments
  <2> SUFFICES ASSUME LastingInv, NEW n \in Nodes
               PROVE  /\ torn \/ SumFunction([a \in Assets |-> Liquidity(n, a).outbound])
                                    = Funded(n) - Sent(n) + Got(n)
                      /\ Summary(n).sent
                            = Cardinality(PaidOnce(n)) + SumFunction(keysent[n]) + loops[n]
    BY DEF MoneyFollowsPayments
  <2>1. ASSUME ~torn
        PROVE  SumFunction([a \in Assets |-> Liquidity(n, a).outbound])
                  = Funded(n) - Sent(n) + Got(n)
    <3>1. EndsOK /\ Balanced
      BY <2>1 DEF LastingInv, MoneyInv, ChannelInv
    <3> QED
      BY <3>1, AssetsTogether DEF Balanced
  <2>2. Summary(n).sent = Cardinality(PaidOnce(n)) + SumFunction(keysent[n]) + loops[n]
    BY LedgerSum DEF LastingInv
  <2> QED
    BY <2>1, <2>2
<1> QED
  BY <1>1, <1>2, <1>3, PTL DEF WorldSpec

-----------------------------------------------------------------------------
(* The demo                                                                 *)

\* A world is only cleared with nobody in the middle of an operation, so what an
\* operation holds of it is still there when it writes its record.

JitBill == [amount : Asked, via : {0, 1, 2},
            state : {"open", "held", "settled", "refunded"}, told : BOOLEAN]
PlainBill == [amount : Asked, state : {"Open", "Paid"}]
Kinds == {"none", "reset", "pay", "regular-invoice", "regular-pay"}

DemoTypeOK ==
    /\ jitBills \in Seq(JitBill) /\ plainBills \in Seq(PlainBill)
    /\ wallet \in [{1, 2} -> Int]
    /\ op \in [{"dash", "cli"} -> [kind : Kinds, at : {"", "waiting", "answered", "sent"},
                                   bill : Nat]]
    /\ holdFile \in [bill : Nat, channel : Nat, customer : {"", "Success"}]
    /\ plainFile \in [bill : Nat, customer : {"", "Success"},
                      merchant : {"", "Open", "Paid"}]
    /\ manager \in [op : {"none", "start", "reset", "fail", "stop", "gone"}, at : Nat]
    /\ child \in [1..3 -> {"none", "up", "exited"}]

\* Beside the manager only the dashboard acts, and where the manager clears the
\* world the services are down and the dashboard waits for it.
Alone ==
    /\ hosted \in BOOLEAN
    /\ ~hosted => manager = Quiet
    /\ hosted => op["cli"] = Idle
    /\ manager.op = "reset" => op["dash"].kind = "reset"
    /\ manager.op = "start" /\ manager.at = 0 =>
          child[1] = "none" /\ op["dash"].kind \in {"none", "reset"}

\* What the operations and the files have of regular invoices, ...
PlainRecords ==
    /\ \A p \in {"dash", "cli"} :
          /\ op[p].kind \in {"regular-invoice", "regular-pay"} =>
                op[p].bill \in 1 .. Len(plainBills)
          /\ op[p].kind = "regular-pay" => plainBills[op[p].bill].state = "Paid"
    /\ plainFile.bill # 0 => plainFile.bill \in 1 .. Len(plainBills)
    /\ plainFile.customer = "Success" =>
          /\ plainFile.bill \in 1 .. Len(plainBills)
          /\ plainBills[plainFile.bill].state = "Paid"

\* ... and the file of the checkout.
HoldRecords ==
    /\ \A p \in {"dash", "cli"} :
          op[p].kind = "pay" => op[p].bill \in 1 .. Len(jitBills)
    /\ holdFile.channel # 0 \/ holdFile.customer = "Success" =>
          \E i \in 1 .. Len(jitBills) : jitBills[i].state = "settled"

DemoInv == DemoTypeOK /\ Alone /\ PlainRecords /\ HoldRecords

-----------------------------------------------------------------------------

\* Amounts are numbers.
LEMMA BillFields ==
    /\ \A b \in JitBill : b.amount \in Int /\ b.via \in {0, 1, 2}
    /\ \A b \in PlainBill : b.amount \in Int
<1>1. \A x \in Asked : x \in Int
  BY DemoAssumption
<1>2. \A b \in JitBill : b.amount \in Asked /\ b.via \in {0, 1, 2}
  BY Zenon DEF JitBill
<1>3. \A b \in PlainBill : b.amount \in Asked
  BY Zenon DEF PlainBill
<1> QED
  BY <1>1, <1>2, <1>3

\* A payment goes over one of the two channels.
LEMMA LargestChannel ==
    ASSUME wallet \in [{1, 2} -> Int]
    PROVE  Largest \in {1, 2}
<1>1. wallet[1] \in Int /\ wallet[2] \in Int /\ DOMAIN wallet = {1, 2}
  OBVIOUS
<1>2. {wallet[c] : c \in DOMAIN wallet} = {wallet[1], wallet[2]}
  BY <1>1
<1>3. \E x \in {wallet[1], wallet[2]} : \A y \in {wallet[1], wallet[2]} : x >= y
  <2>1. CASE wallet[1] >= wallet[2]
    BY <1>1, <2>1
  <2>2. CASE ~(wallet[1] >= wallet[2])
    BY <1>1, <2>2
  <2> QED
    BY <2>1, <2>2
<1>4. Limit \in {wallet[1], wallet[2]}
  BY <1>2, <1>3 DEF Limit, Max
<1>5. \E c \in {1, 2} : wallet[c] = Limit
  BY <1>4
<1> QED
  BY <1>1, <1>5 DEF Largest

\* No world, no record and no operation is there yet.
LEMMA DemoInvInit == DemoInit => DemoInv
<1> SUFFICES ASSUME DemoInit PROVE DemoInv
  OBVIOUS
<1>1. /\ jitBills \in Seq(JitBill) /\ plainBills \in Seq(PlainBill)
      /\ wallet \in [{1, 2} -> Int]
  BY EmptySeq DEF DemoInit, Fresh
<1>2. /\ op \in [{"dash", "cli"} -> [kind : Kinds,
                    at : {"", "waiting", "answered", "sent"}, bill : Nat]]
      /\ op["dash"] = Idle /\ op["cli"] = Idle
  BY DEF DemoInit, Idle, Kinds
<1>3. /\ holdFile \in [bill : Nat, channel : Nat, customer : {"", "Success"}]
      /\ plainFile \in [bill : Nat, customer : {"", "Success"},
                        merchant : {"", "Open", "Paid"}]
  BY DEF DemoInit, Fresh, NoHold, NoPlain
<1>4. CASE hosted
  <2>1. manager = [op |-> "start", at |-> 0] /\ child = [s \in 1..3 |-> "none"]
    BY <1>4 DEF DemoInit
  <2>2. /\ manager \in [op : {"none", "start", "reset", "fail", "stop", "gone"}, at : Nat]
        /\ child \in [1..3 -> {"none", "up", "exited"}] /\ child[1] = "none"
    BY <2>1
  <2>3. DemoTypeOK
    BY <1>1, <1>2, <1>3, <2>2 DEF DemoTypeOK
  <2>4. manager.op = "start" /\ Idle.kind = "none"
    BY <2>1 DEF Idle
  <2>5. Alone
    BY <1>2, <1>4, <2>2, <2>4 DEF Alone, DemoInit
  <2> QED
    BY <1>2, <2>3, <2>5 DEF DemoInv, PlainRecords, HoldRecords, DemoInit, Fresh,
                            NoHold, NoPlain, Idle
<1>5. CASE ~hosted
  <2>1. manager = Quiet /\ child = [s \in 1..3 |-> "up"] /\ hosted = FALSE
    BY <1>5 DEF DemoInit
  <2>2. /\ manager \in [op : {"none", "start", "reset", "fail", "stop", "gone"}, at : Nat]
        /\ child \in [1..3 -> {"none", "up", "exited"}] /\ manager.op = "none"
    BY <2>1 DEF Quiet
  <2>3. DemoTypeOK /\ Alone
    BY <1>1, <1>2, <1>3, <1>5, <2>1, <2>2 DEF DemoTypeOK, Alone, Idle
  <2> QED
    BY <1>2, <2>3 DEF DemoInv, PlainRecords, HoldRecords, DemoInit, Fresh, NoHold,
                      NoPlain, Idle
<1> QED
  BY <1>4, <1>5

\* An operation that begins or ends changes its own entry, and is not one that
\* the manager's transitions wait for.
LEMMA OpChanges ==
    ASSUME DemoTypeOK, Alone, NEW p \in Actors, NEW o \in [kind : Kinds \ {"reset"},
              at : {"", "waiting", "answered", "sent"}, bill : Nat],
           op' = [op EXCEPT ![p] = o], UNCHANGED <<hosted, manager, child>>,
           op[p].kind # "reset",
           o.kind = "none" \/ child[1] = "up"
    PROVE  /\ op' \in [{"dash", "cli"} -> [kind : Kinds,
                          at : {"", "waiting", "answered", "sent"}, bill : Nat]]
           /\ op'[p] = o /\ \A q \in {"dash", "cli"} \ {p} : op'[q] = op[q]
           /\ Alone'
<1>1. p \in {"dash", "cli"} /\ (hosted => p = "dash")
  BY DEF Actors
<1>2. /\ op' \in [{"dash", "cli"} -> [kind : Kinds,
                     at : {"", "waiting", "answered", "sent"}, bill : Nat]]
      /\ op'[p] = o /\ \A q \in {"dash", "cli"} \ {p} : op'[q] = op[q]
  BY <1>1 DEF DemoTypeOK, Kinds
<1>3. Alone'
  BY <1>1, <1>2 DEF Alone
<1> QED
  BY <1>2, <1>3

\* A regular invoice paid stays paid, and no invoice goes.
PlainsStay ==
    /\ plainBills' \in Seq(PlainBill) /\ Len(plainBills) <= Len(plainBills')
    /\ \A i \in 1 .. Len(plainBills) :
          plainBills[i].state = "Paid" => plainBills'[i].state = "Paid"

\* A checkout that settled stays settled.
HoldsStay ==
    /\ jitBills' \in Seq(JitBill) /\ Len(jitBills) <= Len(jitBills')
    /\ \A i \in 1 .. Len(jitBills) :
          jitBills[i].state = "settled" => jitBills'[i].state = "settled"

\* Operations that end, and files that stay, keep the records.
LEMMA PlainFrame ==
    ASSUME DemoTypeOK, PlainRecords, PlainsStay,
           \A q \in {"dash", "cli"} :
              op'[q] = op[q] \/ op'[q].kind \notin {"regular-invoice", "regular-pay"},
           plainFile' = plainFile
    PROVE  PlainRecords'
<1>1. Len(plainBills) \in Nat /\ Len(plainBills') \in Nat
  BY LenProperties DEF DemoTypeOK, PlainsStay
<1>2. \A i \in 1 .. Len(plainBills) : i \in 1 .. Len(plainBills')
  BY <1>1 DEF PlainsStay
<1>3. \A q \in {"dash", "cli"} :
         /\ op'[q].kind \in {"regular-invoice", "regular-pay"} =>
               op'[q].bill \in 1 .. Len(plainBills')
         /\ op'[q].kind = "regular-pay" => plainBills'[op'[q].bill].state = "Paid"
  BY <1>2 DEF PlainRecords, PlainsStay
<1>4. /\ plainFile'.bill # 0 => plainFile'.bill \in 1 .. Len(plainBills')
      /\ plainFile'.customer = "Success" =>
            /\ plainFile'.bill \in 1 .. Len(plainBills')
            /\ plainBills'[plainFile'.bill].state = "Paid"
  BY <1>2 DEF PlainRecords, PlainsStay
<1> QED
  BY <1>3, <1>4 DEF PlainRecords

\* Its record stays, or is that of a new checkout.
HoldFileStays ==
    holdFile' = holdFile \/ (holdFile'.channel = 0 /\ holdFile'.customer = "")

\* ... and so do the records of the checkout.
LEMMA HoldFrame ==
    ASSUME DemoTypeOK, HoldRecords, HoldsStay, HoldFileStays,
           \A q \in {"dash", "cli"} : op'[q] = op[q] \/ op'[q].kind # "pay"
    PROVE  HoldRecords'
<1>1. Len(jitBills) \in Nat /\ Len(jitBills') \in Nat
  <2>1. jitBills \in Seq(JitBill) /\ jitBills' \in Seq(JitBill)
    BY DEF DemoTypeOK, HoldsStay
  <2> QED
    BY <2>1, LenProperties
<1>2. \A i \in 1 .. Len(jitBills) : i \in 1 .. Len(jitBills')
  <2>1. Len(jitBills) <= Len(jitBills')
    BY DEF HoldsStay
  <2> QED
    BY <1>1, <2>1
<1>3. ASSUME holdFile'.channel # 0 \/ holdFile'.customer = "Success"
      PROVE  \E i \in 1 .. Len(jitBills') : jitBills'[i].state = "settled"
  <2>1. PICK i \in 1 .. Len(jitBills) : jitBills[i].state = "settled"
    BY <1>3 DEF HoldRecords, HoldFileStays
  <2>2. i \in 1 .. Len(jitBills') /\ jitBills'[i].state = "settled"
    BY <1>2, <2>1 DEF HoldsStay
  <2> QED
    BY <2>2
<1>4. \A q \in {"dash", "cli"} :
         op'[q].kind = "pay" => op'[q].bill \in 1 .. Len(jitBills')
  BY <1>2 DEF HoldRecords
<1> QED
  BY <1>3, <1>4 DEF HoldRecords

\* The manager's own steps clear everything, or nothing.
LEMMA ManagerSteps ==
    ASSUME DemoInv,
           \/ Starting \/ Probe \/ StopNow \/ Reset \/ Terminate
           \/ \E s \in 1..3 : Exited(s)
    PROVE  DemoInv'
<1> USE DEF DemoInv
<1>1. ASSUME Starting PROVE DemoInv'
  <2>1. /\ manager.op = "start" /\ manager.at = 0
        /\ jitBills' = <<>> /\ plainBills' = <<>> /\ holdFile' = NoHold
        /\ plainFile' = NoPlain /\ UNCHANGED <<op, wallet, hosted>>
        /\ manager' = [op |-> "start", at |-> 1]
    BY <1>1 DEF Starting
  <2>2. DemoTypeOK'
    <3>1. /\ jitBills' \in Seq(JitBill) /\ plainBills' \in Seq(PlainBill)
          /\ manager' \in [op : {"none", "start", "reset", "fail", "stop", "gone"},
                            at : Nat]
      BY <2>1, EmptySeq
    <3>2. /\ holdFile' \in [bill : Nat, channel : Nat, customer : {"", "Success"}]
          /\ plainFile' \in [bill : Nat, customer : {"", "Success"},
                            merchant : {"", "Open", "Paid"}]
      BY <2>1 DEF NoHold, NoPlain
    <3>3. child' \in [1..3 -> {"none", "up", "exited"}]
      BY <1>1 DEF Starting, Spawn, DemoTypeOK
    <3> QED
      BY <2>1, <3>1, <3>2, <3>3 DEF DemoTypeOK
  <2>3. hosted
    BY <2>1 DEF Alone, Quiet
  <2>4. Alone'
    BY <2>1, <2>3 DEF Alone
  <2>5. op'["cli"].kind = "none" /\ op'["dash"].kind \in {"none", "reset"}
    <3>1. op["cli"] = Idle /\ op["dash"].kind \in {"none", "reset"}
      BY <2>1, <2>3 DEF Alone
    <3>2. op' = op /\ Idle.kind = "none"
      BY <1>1 DEF Starting, Idle
    <3> QED
      BY <3>1, <3>2
  <2>6. PlainRecords' /\ HoldRecords'
    BY <2>1, <2>5 DEF PlainRecords, HoldRecords, NoPlain, NoHold
  <2> QED
    BY <2>2, <2>4, <2>6
<1>2. ASSUME UNCHANGED <<world, hosted>>, Alone',
             op' \in [{"dash", "cli"} -> [kind : Kinds,
                        at : {"", "waiting", "answered", "sent"}, bill : Nat]],
             \A q \in {"dash", "cli"} :
                op'[q] = op[q] \/ op'[q].kind \in {"none", "reset"},
             manager' \in [op : {"none", "start", "reset", "fail", "stop", "gone"},
                           at : Nat],
             child' \in [1..3 -> {"none", "up", "exited"}]
      PROVE  DemoInv'
  <2>1. UNCHANGED <<jitBills, plainBills, holdFile, plainFile, wallet>>
    BY <1>2 DEF world
  <2>2. DemoTypeOK'
    BY <1>2, <2>1 DEF DemoTypeOK
  <2>3. PlainsStay /\ HoldsStay
    <3>1. jitBills \in Seq(JitBill) /\ plainBills \in Seq(PlainBill)
      BY DEF DemoTypeOK
    <3>2. Len(plainBills) \in Nat /\ Len(jitBills) \in Nat
      BY <3>1, LenProperties
    <3> QED
      BY <2>1, <3>1, <3>2 DEF PlainsStay, HoldsStay
  <2>4. PlainRecords'
    BY <1>2, <2>1, <2>3, PlainFrame
  <2>5. HoldRecords'
    BY <1>2, <2>1, <2>3, HoldFrame DEF HoldFileStays
  <2> QED
    BY <1>2, <2>2, <2>4, <2>5
<1>3. /\ op \in [{"dash", "cli"} -> [kind : Kinds,
                   at : {"", "waiting", "answered", "sent"}, bill : Nat]]
      /\ manager \in [op : {"none", "start", "reset", "fail", "stop", "gone"}, at : Nat]
      /\ child \in [1..3 -> {"none", "up", "exited"}]
  BY DEF DemoTypeOK
<1>4. /\ ResetOver \in [{"dash", "cli"} -> [kind : Kinds,
                          at : {"", "waiting", "answered", "sent"}, bill : Nat]]
      /\ ResetOver["cli"] = op["cli"]
      /\ ResetOver["dash"] = IF op["dash"].kind = "reset" THEN Idle ELSE op["dash"]
  BY <1>3 DEF ResetOver, Idle, Kinds
<1>5. /\ Quiet \in [op : {"none", "start", "reset", "fail", "stop", "gone"}, at : Nat]
      /\ Quiet.op = "none" /\ Idle.kind = "none"
  BY DEF Quiet, Idle
<1>6. ASSUME Probe PROVE DemoInv'
  <2>1. /\ UNCHANGED <<world, hosted>> /\ manager.op = "start" /\ manager.at > 0
        /\ hosted
    BY <1>6 DEF Probe, Alone, Quiet
  <2>2. op' = op \/ op' = ResetOver
    BY <1>6 DEF Probe
  <2>3. \/ manager' = [op |-> "fail", at |-> 0]
        \/ manager' = [manager EXCEPT !.at = @ + 1]
        \/ manager' = Quiet
    BY <1>6 DEF Probe
  <2>4. /\ manager' \in [op : {"none", "start", "reset", "fail", "stop", "gone"}, at : Nat]
        /\ manager'.op # "reset" /\ (manager'.op = "start" => manager'.at # 0)
    <3>1. CASE manager' = [manager EXCEPT !.at = @ + 1]
      <4>1. manager'.op = "start" /\ manager'.at = manager.at + 1
        BY <1>3, <2>1, <3>1
      <4>2. manager.at \in Nat /\ manager.at > 0
        BY <1>3, <2>1
      <4>3. /\ manager' \in [op : {"none", "start", "reset", "fail", "stop", "gone"},
                              at : Nat]
        <5>1. manager = [op |-> manager.op, at |-> manager.at]
          BY <1>3
        <5>2. manager' = [op |-> manager.op, at |-> manager.at + 1]
          BY <3>1, <5>1
        <5> QED
          BY <2>1, <4>2, <5>2
      <4> QED
        BY <4>1, <4>2, <4>3
    <3>2. CASE manager' = [op |-> "fail", at |-> 0]
      BY <3>2
    <3>3. CASE manager' = Quiet
      BY <1>5, <3>3
    <3> QED
      BY <2>3, <3>1, <3>2, <3>3
  <2>5. child' = child \/ child' = [child EXCEPT ![manager.at + 1] = "up"]
    BY <1>6 DEF Probe, Spawn
  <2>6. child' \in [1..3 -> {"none", "up", "exited"}]
    BY <1>3, <2>5
  <2>7. op'["cli"] = op["cli"] /\ (op'["dash"] = op["dash"] \/ op'["dash"].kind = "none")
    BY <1>4, <1>5, <2>2
  <2>8. Alone'
    BY <2>1, <2>4, <2>7 DEF Alone
  <2> QED
    BY <1>2, <1>3, <1>4, <2>1, <2>2, <2>4, <2>6, <2>7, <2>8
<1>7. ASSUME StopNow PROVE DemoInv'
  <2>1. /\ UNCHANGED <<world, hosted>> /\ manager.op \in {"reset", "fail", "stop"}
        /\ hosted /\ child' = [s \in 1..3 |-> "none"]
        /\ op' = IF manager.op = "fail" THEN ResetOver ELSE op
        /\ manager' = IF manager.op = "reset" THEN [op |-> "start", at |-> 0]
                      ELSE IF op["dash"].kind = "reset" THEN Quiet
                      ELSE [op |-> "gone", at |-> 0]
    BY <1>7 DEF StopNow, Alone, Quiet
  <2>2. /\ manager' \in [op : {"none", "start", "reset", "fail", "stop", "gone"}, at : Nat]
        /\ manager'.op # "reset" /\ (manager'.op = "start" => manager.op = "reset")
    BY <1>5, <2>1
  <2>3. child' \in [1..3 -> {"none", "up", "exited"}] /\ child'[1] = "none"
    BY <2>1
  <2>4. op'["cli"] = op["cli"] /\ (op'["dash"] = op["dash"] \/ op'["dash"].kind = "none")
    BY <1>4, <1>5, <2>1
  <2>5. Alone'
    BY <2>1, <2>2, <2>3, <2>4 DEF Alone
  <2> QED
    BY <1>2, <1>3, <1>4, <2>1, <2>2, <2>3, <2>4, <2>5
<1>8. ASSUME Reset PROVE DemoInv'
  <2> DEFINE o == [kind |-> "reset", at |-> "", bill |-> 0]
  <2>1. /\ UNCHANGED <<world, hosted, child>> /\ hosted
        /\ op' = [op EXCEPT !["dash"] = o]
        /\ manager' = [op |-> "reset", at |-> 0]
    BY <1>8 DEF Reset, Begin
  <2>2. /\ op' \in [{"dash", "cli"} -> [kind : Kinds,
                      at : {"", "waiting", "answered", "sent"}, bill : Nat]]
        /\ op'["dash"].kind = "reset" /\ op'["cli"] = op["cli"]
    BY <1>3, <2>1 DEF Kinds
  <2>3. /\ manager' \in [op : {"none", "start", "reset", "fail", "stop", "gone"}, at : Nat]
        /\ manager'.op = "reset"
    BY <2>1
  <2>4. Alone'
    BY <2>1, <2>2, <2>3 DEF Alone
  <2> QED
    BY <1>2, <1>3, <2>1, <2>2, <2>3, <2>4
<1>9. ASSUME Terminate PROVE DemoInv'
  <2>1. /\ UNCHANGED <<world, hosted, child, op>> /\ hosted
        /\ manager' = [op |-> "stop", at |-> 0]
    BY <1>9 DEF Terminate
  <2>2. /\ manager' \in [op : {"none", "start", "reset", "fail", "stop", "gone"}, at : Nat]
        /\ manager'.op = "stop"
    BY <2>1
  <2>3. Alone'
    BY <2>1, <2>2 DEF Alone
  <2> QED
    BY <1>2, <1>3, <2>1, <2>2, <2>3
<1>10. ASSUME NEW s \in 1..3, Exited(s) PROVE DemoInv'
  <2>1. /\ UNCHANGED <<world, hosted, manager, op>> /\ child[s] = "up"
        /\ child' = [child EXCEPT ![s] = "exited"]
    BY <1>10 DEF Exited
  <2>2. /\ child' \in [1..3 -> {"none", "up", "exited"}]
        /\ child[1] = "none" => child'[1] = "none"
    <3>1. child \in [1..3 -> {"none", "up", "exited"}]
      BY <1>3
    <3>2. child[1] = "none" => s # 1
      BY <2>1
    <3> QED
      BY <2>1, <3>1, <3>2
  <2>3. Alone'
    BY <2>1, <2>2 DEF Alone
  <2> QED
    BY <1>2, <1>3, <2>1, <2>2, <2>3
<1> QED
  BY <1>1, <1>6, <1>7, <1>8, <1>9, <1>10

\* Bills are added, and change their state.
LEMMA BillsChange ==
    ASSUME DemoTypeOK
    PROVE  /\ Len(jitBills) \in Nat /\ DOMAIN jitBills = 1 .. Len(jitBills)
           /\ Len(plainBills) \in Nat /\ DOMAIN plainBills = 1 .. Len(plainBills)
           /\ UNCHANGED jitBills => HoldsStay
           /\ UNCHANGED plainBills => PlainsStay
           /\ \A b \in JitBill : jitBills' = Append(jitBills, b) => HoldsStay
           /\ \A i \in 1 .. Len(jitBills), b \in JitBill :
                 jitBills' = [jitBills EXCEPT ![i] = b] /\ jitBills[i].state # "settled"
                 => HoldsStay
           /\ \A i \in 1 .. Len(jitBills), b \in JitBill :
                 jitBills' = [jitBills EXCEPT ![i] = b] /\ b.state = "settled"
                 => HoldsStay
           /\ \A b \in PlainBill : plainBills' = Append(plainBills, b) =>
                 PlainsStay /\ Len(plainBills') = Len(plainBills) + 1
           /\ \A i \in 1 .. Len(plainBills), b \in PlainBill :
                 plainBills' = [plainBills EXCEPT ![i] = b] /\ b.state = "Paid"
                 => PlainsStay /\ Len(plainBills') = Len(plainBills)
                    /\ plainBills'[i] = b
<1>1. jitBills \in Seq(JitBill) /\ plainBills \in Seq(PlainBill)
  BY DEF DemoTypeOK
<1>2. /\ Len(jitBills) \in Nat /\ DOMAIN jitBills = 1 .. Len(jitBills)
      /\ Len(plainBills) \in Nat /\ DOMAIN plainBills = 1 .. Len(plainBills)
  BY <1>1, LenProperties
<1>3. UNCHANGED jitBills => HoldsStay
  BY <1>1, <1>2 DEF HoldsStay
<1>4. UNCHANGED plainBills => PlainsStay
  BY <1>1, <1>2 DEF PlainsStay
<1>5. ASSUME NEW b \in JitBill, jitBills' = Append(jitBills, b) PROVE HoldsStay
  BY <1>1, <1>2, <1>5, AppendProperties DEF HoldsStay
<1>6. ASSUME NEW i \in 1 .. Len(jitBills), NEW b \in JitBill,
             jitBills' = [jitBills EXCEPT ![i] = b],
             jitBills[i].state # "settled" \/ b.state = "settled"
      PROVE  HoldsStay
  <2>1. /\ jitBills' \in Seq(JitBill) /\ Len(jitBills') = Len(jitBills)
        /\ \A j \in 1 .. Len(jitBills) : jitBills'[j] = IF j = i THEN b ELSE jitBills[j]
    BY <1>1, <1>6, ExceptSeq
  <2> QED
    BY <1>2, <1>6, <2>1 DEF HoldsStay
<1>7. ASSUME NEW b \in PlainBill, plainBills' = Append(plainBills, b)
      PROVE  PlainsStay /\ Len(plainBills') = Len(plainBills) + 1
  BY <1>1, <1>2, <1>7, AppendProperties DEF PlainsStay
<1>8. ASSUME NEW i \in 1 .. Len(plainBills), NEW b \in PlainBill,
             plainBills' = [plainBills EXCEPT ![i] = b], b.state = "Paid"
      PROVE  PlainsStay /\ Len(plainBills') = Len(plainBills) /\ plainBills'[i] = b
  <2>1. /\ plainBills' \in Seq(PlainBill) /\ Len(plainBills') = Len(plainBills)
        /\ \A j \in 1 .. Len(plainBills) :
              plainBills'[j] = IF j = i THEN b ELSE plainBills[j]
    BY <1>1, <1>8, ExceptSeq
  <2> QED
    BY <1>2, <1>8, <2>1 DEF PlainsStay
<1> QED
  BY <1>2, <1>3, <1>4, <1>5, <1>6, <1>7, <1>8

\* The bills there were are there still.
LEMMA StaysIn ==
    DemoTypeOK /\ HoldsStay => \A i \in 1 .. Len(jitBills) : i \in 1 .. Len(jitBills')
<1> SUFFICES ASSUME DemoTypeOK, HoldsStay
             PROVE  \A i \in 1 .. Len(jitBills) : i \in 1 .. Len(jitBills')
  OBVIOUS
<1>1. jitBills \in Seq(JitBill) /\ jitBills' \in Seq(JitBill)
  BY DEF DemoTypeOK, HoldsStay
<1>2. Len(jitBills) \in Nat /\ Len(jitBills') \in Nat
  BY <1>1, LenProperties
<1>3. Len(jitBills) <= Len(jitBills')
  BY DEF HoldsStay
<1> QED
  BY <1>2, <1>3

\* An actor's operation moves on, or the world around it.
LEMMA ActFrame ==
    ASSUME DemoInv, UNCHANGED still, HoldsStay, PlainsStay,
           wallet' \in [{1, 2} -> Int],
           holdFile' \in [bill : Nat, channel : Nat, customer : {"", "Success"}],
           plainFile' \in [bill : Nat, customer : {"", "Success"},
                           merchant : {"", "Open", "Paid"}],
           \/ op' = op
           \/ \E p \in Actors, o \in [kind : Kinds \ {"reset"},
                 at : {"", "waiting", "answered", "sent"}, bill : Nat] :
                 /\ op' = [op EXCEPT ![p] = o] /\ op[p].kind # "reset"
                 /\ o.kind = "none" \/ child[1] = "up"
    PROVE  DemoTypeOK' /\ Alone'
<1>1. UNCHANGED <<hosted, manager, child>>
  BY DEF still, run
<1>2. /\ op' \in [{"dash", "cli"} -> [kind : Kinds,
                    at : {"", "waiting", "answered", "sent"}, bill : Nat]]
      /\ Alone'
  <2>1. CASE op' = op
    BY <1>1, <2>1 DEF DemoInv, DemoTypeOK, Alone
  <2>2. CASE op' # op
    BY <1>1, <2>2, OpChanges DEF DemoInv
  <2> QED
    BY <2>1, <2>2
<1>3. /\ manager' \in [op : {"none", "start", "reset", "fail", "stop", "gone"}, at : Nat]
      /\ child' \in [1..3 -> {"none", "up", "exited"}]
  BY <1>1 DEF DemoInv, DemoTypeOK
<1> QED
  BY <1>2, <1>3 DEF DemoTypeOK, HoldsStay, PlainsStay

\* What an actor or the world does to a checkout.
LEMMA CheckoutSteps ==
    ASSUME DemoInv,
           \/ \E i \in 1..MaxCheckouts : JitEnds(i) \/ Watched(i)
           \/ \E p \in Actors :
                 \/ \E a \in Asked : RequestInvoice(p, a)
                 \/ \E i \in 1..MaxCheckouts : PayInvoice(p, i)
                 \/ PaidInvoice(p)
    PROVE  DemoInv'
<1>1. DemoTypeOK /\ Alone /\ PlainRecords /\ HoldRecords
  BY DEF DemoInv
<1>2. /\ jitBills \in Seq(JitBill) /\ wallet \in [{1, 2} -> Int]
      /\ holdFile \in [bill : Nat, channel : Nat, customer : {"", "Success"}]
      /\ plainFile \in [bill : Nat, customer : {"", "Success"},
                        merchant : {"", "Open", "Paid"}]
  BY <1>1 DEF DemoTypeOK
<1>3. Largest \in {1, 2} /\ DOMAIN jitBills = 1 .. Len(jitBills) /\ Len(jitBills) \in Nat
  BY <1>1, <1>2, LargestChannel, BillsChange
<1>4. \A i \in DOMAIN jitBills : jitBills[i] \in JitBill
  BY <1>2, <1>3, ElementOfSeq
<1>5. ASSUME UNCHANGED <<still, plainBills, plainFile>>, HoldsStay, HoldRecords',
             wallet' \in [{1, 2} -> Int],
             holdFile' \in [bill : Nat, channel : Nat, customer : {"", "Success"}],
             \/ op' = op
             \/ \E p \in Actors, o \in [kind : {"none", "pay"}, at : {"", "waiting"},
                                        bill : Nat] :
                   /\ op' = [op EXCEPT ![p] = o] /\ op[p].kind # "reset"
                   /\ o.kind = "none" \/ child[1] = "up"
      PROVE  DemoInv'
  <2>1. PlainsStay
    BY <1>1, <1>5, BillsChange
  <2>2. DemoTypeOK' /\ Alone'
    <3>1. CASE op' = op
      BY <1>2, <1>5, <2>1, <3>1, ActFrame
    <3>2. CASE op' # op
      <4>1. PICK p \in Actors, o \in [kind : {"none", "pay"}, at : {"", "waiting"},
                                      bill : Nat] :
               /\ op' = [op EXCEPT ![p] = o] /\ op[p].kind # "reset"
               /\ o.kind = "none" \/ child[1] = "up"
        BY <1>5, <3>2
      <4>2. o \in [kind : Kinds \ {"reset"}, at : {"", "waiting", "answered", "sent"},
                   bill : Nat]
        BY DEF Kinds
      <4> QED
        BY <1>2, <1>5, <2>1, <4>1, <4>2, ActFrame
    <3> QED
      BY <3>1, <3>2
  <2>3. \A q \in {"dash", "cli"} :
           op'[q] = op[q] \/ op'[q].kind \notin {"regular-invoice", "regular-pay"}
    BY <1>1, <1>5 DEF DemoTypeOK
  <2>4. PlainRecords'
    BY <1>1, <1>5, <2>1, <2>3, PlainFrame
  <2> QED
    BY <1>5, <2>2, <2>4 DEF DemoInv
<1>6. ASSUME NEW i \in 1..MaxCheckouts, JitEnds(i) PROVE DemoInv'
  <2>1. /\ i \in DOMAIN jitBills /\ jitBills[i].state = "held"
        /\ UNCHANGED <<still, op, plainBills, holdFile, plainFile>>
    BY <1>6 DEF JitEnds
  <2>2. PICK s \in {"settled", "refunded"} :
           /\ jitBills' = [jitBills EXCEPT ![i].state = s]
           /\ wallet' = IF s = "settled" THEN wallet
                        ELSE [wallet EXCEPT ![jitBills[i].via] = @ + jitBills[i].amount]
    BY <1>6 DEF JitEnds
  <2>3. [jitBills[i] EXCEPT !.state = s] \in JitBill
    BY <1>4, <2>1 DEF JitBill
  <2>4. HoldsStay
    BY <1>1, <1>3, <2>1, <2>2, <2>3, BillsChange
  <2>5. HoldRecords'
    BY <1>1, <2>1, <2>4, HoldFrame DEF HoldFileStays
  <2>6. wallet' \in [{1, 2} -> Int]
    <3>1. jitBills[i] \in JitBill
      BY <1>4, <2>1
    <3>2. jitBills[i].amount \in Int
      BY <3>1, BillFields
    <3>3. ASSUME wallet' = [wallet EXCEPT ![jitBills[i].via] = @ + jitBills[i].amount]
          PROVE  wallet' \in [{1, 2} -> Int]
      <4>1. jitBills[i].via \in {0, 1, 2}
        BY <3>1, BillFields
      <4>2. CASE jitBills[i].via \in {1, 2}
        <5>1. wallet[jitBills[i].via] \in Int
          BY <1>2, <4>2
        <5>2. PICK v \in Int : v = wallet[jitBills[i].via] + jitBills[i].amount
          BY <3>2, <5>1
        <5>3. wallet' = [wallet EXCEPT ![jitBills[i].via] = v]
          BY <3>3, <5>2
        <5> QED
          BY <1>2, <4>2, <5>3
      <4>3. CASE jitBills[i].via = 0
        <5>1. wallet' = [c \in {1, 2} |->
                            IF c = 0 THEN wallet[0] + jitBills[i].amount ELSE wallet[c]]
          BY <1>2, <3>3, <4>3
        <5>2. wallet' = [c \in {1, 2} |-> wallet[c]]
          BY <5>1
        <5> QED
          BY <1>2, <5>2
      <4> QED
        BY <4>1, <4>2, <4>3
    <3> QED
      BY <1>2, <2>2, <3>3
  <2> QED
    BY <1>2, <1>5, <2>1, <2>4, <2>5, <2>6
<1>7. ASSUME NEW i \in 1..MaxCheckouts, Watched(i) PROVE DemoInv'
  <2>1. /\ i \in DOMAIN jitBills /\ jitBills[i].state = "settled"
        /\ jitBills' = [jitBills EXCEPT ![i].told = TRUE]
        /\ holdFile' = [holdFile EXCEPT !.channel = i]
        /\ UNCHANGED <<still, op, plainBills, plainFile, wallet>>
    BY <1>7 DEF Watched
  <2>2. /\ [jitBills[i] EXCEPT !.told = TRUE] \in JitBill
        /\ [jitBills[i] EXCEPT !.told = TRUE].state = "settled"
    BY <1>4, <2>1 DEF JitBill
  <2>3. HoldsStay
    BY <1>1, <1>3, <2>1, <2>2, BillsChange
  <2>4. holdFile' \in [bill : Nat, channel : Nat, customer : {"", "Success"}]
    <3>1. holdFile' = [bill |-> holdFile.bill, channel |-> i,
                       customer |-> holdFile.customer]
      BY <1>2, <2>1
    <3>2. holdFile.bill \in Nat /\ holdFile.customer \in {"", "Success"}
      BY <1>2
    <3>3. PICK n \in Nat : n = i
      BY <1>3, <2>1
    <3>4. holdFile' = [bill |-> holdFile.bill, channel |-> n,
                       customer |-> holdFile.customer]
      BY <3>1, <3>3
    <3> QED
      BY <3>2, <3>4
  <2>5. HoldRecords'
    <3>1. i \in 1 .. Len(jitBills') /\ jitBills'[i].state = "settled"
      BY <1>1, <1>3, <2>1, <2>3, StaysIn DEF HoldsStay
    <3>2. \A q \in {"dash", "cli"} :
             op'[q].kind = "pay" => op'[q].bill \in 1 .. Len(jitBills')
      BY <1>1, <2>1, <2>3, StaysIn DEF HoldRecords
    <3> QED
      BY <3>1, <3>2 DEF HoldRecords
  <2> QED
    BY <1>2, <1>5, <2>1, <2>3, <2>4, <2>5
<1>8. ASSUME NEW p \in Actors, NEW a \in Asked, RequestInvoice(p, a) PROVE DemoInv'
  <2> DEFINE b == [amount |-> a, via |-> 0, state |-> "open", told |-> FALSE]
  <2>1. /\ jitBills' = Append(jitBills, b)
        /\ holdFile' = [NoHold EXCEPT !.bill = Len(jitBills) + 1]
        /\ UNCHANGED <<still, op, plainBills, plainFile, wallet>>
    BY <1>8 DEF RequestInvoice
  <2>2. b \in JitBill
    BY DEF JitBill
  <2>3. HoldsStay
    BY <1>1, <2>1, <2>2, BillsChange
  <2>4. /\ holdFile' \in [bill : Nat, channel : Nat, customer : {"", "Success"}]
        /\ holdFile'.channel = 0 /\ holdFile'.customer = ""
    <3>1. PICK n \in Nat : n = Len(jitBills) + 1
      BY <1>3
    <3>2. holdFile' = [bill |-> n, channel |-> 0, customer |-> ""]
      BY <2>1, <3>1 DEF NoHold
    <3> QED
      BY <3>2
  <2>5. HoldRecords'
    BY <1>1, <2>1, <2>3, <2>4, HoldFrame DEF HoldFileStays
  <2> QED
    BY <1>2, <1>5, <2>1, <2>3, <2>4, <2>5
<1>9. ASSUME NEW p \in Actors, NEW i \in 1..MaxCheckouts, PayInvoice(p, i) PROVE DemoInv'
  <2> DEFINE o == [kind |-> "pay", at |-> "waiting", bill |-> i]
             b == [jitBills[i] EXCEPT !.state = "held", !.via = Largest]
  <2>1. /\ i \in DOMAIN jitBills /\ jitBills[i].state = "open" /\ Up
        /\ op[p] = Idle /\ op' = [op EXCEPT ![p] = o]
        /\ jitBills' = [jitBills EXCEPT ![i].state = "held", ![i].via = Largest]
        /\ wallet' = [wallet EXCEPT ![Largest] = @ - jitBills[i].amount]
        /\ UNCHANGED <<still, plainBills, holdFile, plainFile>>
    BY <1>9 DEF PayInvoice, Begin, FreeToAct, Debit
  <2>2. b \in JitBill
    BY <1>3, <1>4, <2>1 DEF JitBill
  <2>3. jitBills' = [jitBills EXCEPT ![i] = b]
    BY <1>2, <1>3, <2>1
  <2>4. HoldsStay
    BY <1>1, <1>3, <2>1, <2>2, <2>3, BillsChange
  <2>5. HoldRecords'
    <3>1. op'[p] = o /\ \A q \in {"dash", "cli"} \ {p} : op'[q] = op[q]
      BY <1>1, <2>1 DEF DemoTypeOK, Actors
    <3>2. \A q \in {"dash", "cli"} :
             op'[q].kind = "pay" => op'[q].bill \in 1 .. Len(jitBills')
      BY <1>1, <1>3, <2>1, <2>4, <3>1, StaysIn DEF HoldRecords
    <3>3. holdFile' = holdFile
      BY <2>1
    <3>4. holdFile.channel # 0 \/ holdFile.customer = "Success" =>
             \E j \in 1 .. Len(jitBills') : jitBills'[j].state = "settled"
      BY <1>1, <2>4, StaysIn DEF HoldRecords, HoldsStay
    <3> QED
      BY <3>2, <3>3, <3>4 DEF HoldRecords
  <2>6. wallet' \in [{1, 2} -> Int]
    <3>1. jitBills[i].amount \in Int
      <4>1. jitBills[i] \in JitBill
        BY <1>4, <2>1
      <4> QED
        BY <4>1, BillFields
    <3>2. Largest \in {1, 2}
      BY <1>3
    <3>3. wallet[Largest] \in Int
      BY <1>2, <3>2
    <3>4. PICK v \in Int : v = wallet[Largest] - jitBills[i].amount
      BY <3>1, <3>3
    <3>5. wallet' = [wallet EXCEPT ![Largest] = v]
      BY <2>1, <3>4
    <3> QED
      BY <1>2, <3>2, <3>5
  <2>7. /\ o \in [kind : {"none", "pay"}, at : {"", "waiting"}, bill : Nat]
        /\ op[p].kind # "reset" /\ child[1] = "up"
    <3>1. PICK n \in Nat : n = i
      BY <1>3, <2>1
    <3>2. o \in [kind : {"none", "pay"}, at : {"", "waiting"}, bill : Nat]
      <4>1. [kind |-> "pay", at |-> "waiting", bill |-> n]
               \in [kind : {"none", "pay"}, at : {"", "waiting"}, bill : Nat]
        OBVIOUS
      <4>2. o = [kind |-> "pay", at |-> "waiting", bill |-> n]
        BY <3>1
      <4> HIDE DEF o
      <4> QED
        BY <4>1, <4>2
    <3>3. op[p].kind # "reset"
      <4>1. op[p] = Idle
        BY <2>1
      <4>2. Idle.kind # "reset"
        BY DEF Idle
      <4> QED
        BY <4>1, <4>2
    <3>4. child[1] = "up"
      BY <2>1 DEF Up
    <3> QED
      BY <3>2, <3>3, <3>4
  <2> QED
    BY <1>2, <1>5, <2>1, <2>4, <2>5, <2>6, <2>7
<1>10. ASSUME NEW p \in Actors, PaidInvoice(p) PROVE DemoInv'
  <2>1. /\ op[p].kind = "pay" /\ jitBills[op[p].bill].state = "settled"
        /\ holdFile' = [holdFile EXCEPT !.customer = "Success"]
        /\ op' = [op EXCEPT ![p] = Idle]
        /\ UNCHANGED <<still, jitBills, plainBills, plainFile, wallet>>
    BY <1>10 DEF PaidInvoice, End
  <2>2. HoldsStay
    BY <1>1, <2>1, BillsChange
  <2>3. holdFile' \in [bill : Nat, channel : Nat, customer : {"", "Success"}]
    BY <1>2, <2>1
  <2>4. op[p].bill \in 1 .. Len(jitBills)
    BY <1>1, <2>1 DEF HoldRecords, Actors
  <2>5. HoldRecords'
    <3>1. /\ op'[p].kind = "none"
          /\ \A q \in {"dash", "cli"} \ {p} : op'[q] = op[q]
      BY <1>1, <2>1 DEF DemoTypeOK, Actors, Idle
    <3> QED
      BY <1>1, <2>1, <2>4, <3>1 DEF HoldRecords
  <2>6. Idle \in [kind : {"none", "pay"}, at : {"", "waiting"}, bill : Nat]
        /\ op[p].kind # "reset" /\ Idle.kind = "none"
    BY <2>1 DEF Idle
  <2> QED
    BY <1>2, <1>5, <2>1, <2>2, <2>3, <2>5, <2>6
<1> QED
  BY <1>6, <1>7, <1>8, <1>9, <1>10

\* What an actor does to a regular invoice or the rent, and an operation that fails.
LEMMA RegularSteps ==
    ASSUME DemoInv, NEW p \in Actors,
           \/ \E a \in Asked : RequestRegular(p, a) \/ StreamRent(p, a)
           \/ RegularAsked(p) \/ PayRegular(p) \/ RegularPaid(p) \/ OpFails(p)
    PROVE  DemoInv'
<1>1. DemoTypeOK /\ Alone /\ PlainRecords /\ HoldRecords
  BY DEF DemoInv
<1>2. /\ plainBills \in Seq(PlainBill) /\ wallet \in [{1, 2} -> Int]
      /\ holdFile \in [bill : Nat, channel : Nat, customer : {"", "Success"}]
      /\ plainFile \in [bill : Nat, customer : {"", "Success"},
                        merchant : {"", "Open", "Paid"}]
      /\ op \in [{"dash", "cli"} -> [kind : Kinds,
                   at : {"", "waiting", "answered", "sent"}, bill : Nat]]
      /\ p \in {"dash", "cli"}
  BY <1>1 DEF DemoTypeOK, Actors
<1>3. /\ Largest \in {1, 2}
      /\ DOMAIN plainBills = 1 .. Len(plainBills) /\ Len(plainBills) \in Nat
  BY <1>1, <1>2, LargestChannel, BillsChange
<1>4. \A i \in DOMAIN plainBills : plainBills[i] \in PlainBill
  BY <1>2, <1>3, ElementOfSeq
<1>5. Idle \in [kind : Kinds \ {"reset", "pay"}, at : {"", "waiting", "answered", "sent"},
                bill : Nat] /\ Idle.kind = "none"
  BY DEF Idle, Kinds
<1>6. ASSUME UNCHANGED <<still, jitBills, holdFile>>, PlainsStay, PlainRecords',
             wallet' \in [{1, 2} -> Int],
             plainFile' \in [bill : Nat, customer : {"", "Success"},
                             merchant : {"", "Open", "Paid"}],
             \/ op' = op
             \/ \E o \in [kind : Kinds \ {"reset", "pay"},
                          at : {"", "waiting", "answered", "sent"}, bill : Nat] :
                   /\ op' = [op EXCEPT ![p] = o] /\ op[p].kind # "reset"
                   /\ o.kind = "none" \/ child[1] = "up"
      PROVE  DemoInv'
  <2>1. HoldsStay
    BY <1>1, <1>6, BillsChange
  <2>2. DemoTypeOK' /\ Alone'
    BY <1>2, <1>6, <2>1, ActFrame
  <2>3. \A q \in {"dash", "cli"} : op'[q] = op[q] \/ op'[q].kind # "pay"
    BY <1>2, <1>6
  <2>4. HoldRecords'
    BY <1>1, <1>6, <2>1, <2>3, HoldFrame DEF HoldFileStays
  <2> QED
    BY <1>6, <2>2, <2>4 DEF DemoInv
<1>7. ASSUME NEW a \in Asked, RequestRegular(p, a) PROVE DemoInv'
  <2> DEFINE b == [amount |-> a, state |-> "Open"]
             o == [kind |-> "regular-invoice", at |-> "answered",
                   bill |-> Len(plainBills) + 1]
  <2>1. /\ plainBills' = Append(plainBills, b) /\ op' = [op EXCEPT ![p] = o]
        /\ op[p] = Idle /\ Up /\ UNCHANGED <<still, jitBills, holdFile, plainFile, wallet>>
    BY <1>7 DEF RequestRegular, Begin, FreeToAct
  <2>2. b \in PlainBill
    BY DEF PlainBill
  <2>3. PlainsStay /\ Len(plainBills') = Len(plainBills) + 1
    BY <1>1, <2>1, <2>2, BillsChange
  <2>4. /\ o \in [kind : Kinds \ {"reset", "pay"}, at : {"", "waiting", "answered", "sent"},
                  bill : Nat]
        /\ op[p].kind # "reset" /\ child[1] = "up"
    <3>1. o \in [kind : Kinds \ {"reset", "pay"}, at : {"", "waiting", "answered", "sent"},
                  bill : Nat]
      <4>1. PICK n \in Nat : n = Len(plainBills) + 1
        BY <1>3
      <4>2. "regular-invoice" \in Kinds \ {"reset", "pay"}
        BY DEF Kinds
      <4>3. [kind |-> "regular-invoice", at |-> "answered", bill |-> n]
               \in [kind : Kinds \ {"reset", "pay"},
                    at : {"", "waiting", "answered", "sent"}, bill : Nat]
        BY <4>2
      <4>4. o = [kind |-> "regular-invoice", at |-> "answered", bill |-> n]
        BY <4>1
      <4> HIDE DEF o
      <4> QED
        BY <4>3, <4>4
    <3>2. op[p].kind # "reset"
      <4>1. op[p] = Idle
        BY <2>1
      <4>2. Idle.kind # "reset"
        BY DEF Idle
      <4> QED
        BY <4>1, <4>2
    <3>3. child[1] = "up"
      BY <2>1 DEF Up
    <3> QED
      BY <3>1, <3>2, <3>3
  <2>5. /\ op'[p] = o /\ \A q \in {"dash", "cli"} \ {p} : op'[q] = op[q]
    BY <1>2, <2>1
  <2>6. Len(plainBills) + 1 \in 1 .. Len(plainBills')
    BY <1>3, <2>3
  <2>7. PlainRecords'
    <3>1. \A i \in 1 .. Len(plainBills) : i \in 1 .. Len(plainBills')
      BY <1>3, <2>3
    <3>2. \A q \in {"dash", "cli"} :
             /\ op'[q].kind \in {"regular-invoice", "regular-pay"} =>
                   op'[q].bill \in 1 .. Len(plainBills')
             /\ op'[q].kind = "regular-pay" => plainBills'[op'[q].bill].state = "Paid"
      BY <1>1, <2>3, <2>5, <2>6, <3>1 DEF PlainRecords, PlainsStay
    <3>3. /\ plainFile.bill # 0 => plainFile.bill \in 1 .. Len(plainBills')
          /\ plainFile.customer = "Success" =>
                /\ plainFile.bill \in 1 .. Len(plainBills')
                /\ plainBills'[plainFile.bill].state = "Paid"
      BY <1>1, <2>3, <3>1 DEF PlainRecords, PlainsStay
    <3> QED
      BY <2>1, <3>2, <3>3 DEF PlainRecords
  <2> QED
    BY <1>2, <1>6, <2>1, <2>3, <2>4, <2>7
<1>8. ASSUME NEW a \in Asked, StreamRent(p, a) PROVE DemoInv'
  <2>1. UNCHANGED <<still, op, jitBills, plainBills, holdFile, plainFile, wallet>>
    BY <1>8 DEF StreamRent
  <2>2. PlainsStay
    BY <1>1, <2>1, BillsChange
  <2>3. PlainRecords'
    BY <1>1, <2>1, <2>2, PlainFrame
  <2> QED
    BY <1>2, <1>6, <2>1, <2>2, <2>3
<1>9. ASSUME OpFails(p) PROVE DemoInv'
  <2>1. /\ UNCHANGED <<still, jitBills, plainBills, holdFile, plainFile, wallet>>
        /\ op' = [op EXCEPT ![p] = Idle] /\ op[p].kind # "reset"
    BY <1>9 DEF OpFails, End, world
  <2>2. PlainsStay
    BY <1>1, <2>1, BillsChange
  <2>3. /\ op'[p] = Idle /\ \A q \in {"dash", "cli"} \ {p} : op'[q] = op[q]
    BY <1>2, <2>1
  <2>4. PlainRecords'
    BY <1>1, <1>5, <2>1, <2>2, <2>3, PlainFrame
  <2> QED
    BY <1>2, <1>5, <1>6, <2>1, <2>2, <2>4
<1>10. ASSUME RegularAsked(p) PROVE DemoInv'
  <2>1. /\ UNCHANGED <<still, jitBills, plainBills, holdFile, wallet>>
        /\ op' = [op EXCEPT ![p] = Idle] /\ op[p].kind = "regular-invoice"
        /\ plainFile' = [bill |-> op[p].bill, customer |-> "", merchant |-> "Open"]
    BY <1>10 DEF RegularAsked, End, PlainIssued
  <2>2. PlainsStay
    BY <1>1, <2>1, BillsChange
  <2>3. /\ op'[p] = Idle /\ \A q \in {"dash", "cli"} \ {p} : op'[q] = op[q]
    BY <1>2, <2>1
  <2>4. op[p].bill \in 1 .. Len(plainBills) /\ op[p].bill \in Nat
    BY <1>1, <1>2, <2>1 DEF PlainRecords
  <2>5. plainFile' \in [bill : Nat, customer : {"", "Success"},
                        merchant : {"", "Open", "Paid"}]
    BY <2>1, <2>4
  <2>6. PlainRecords'
    BY <1>1, <1>5, <2>1, <2>3, <2>4 DEF PlainRecords
  <2> QED
    BY <1>2, <1>5, <1>6, <2>1, <2>2, <2>5, <2>6
<1>11. ASSUME PayRegular(p) PROVE DemoInv'
  <2> DEFINE i == plainFile.bill
             b == [plainBills[i] EXCEPT !.state = "Paid"]
             o == [kind |-> "regular-pay", at |-> "sent", bill |-> i]
  <2>1. /\ UNCHANGED <<still, jitBills, holdFile, plainFile>> /\ Up
        /\ i \in DOMAIN plainBills /\ op[p] = Idle /\ op' = [op EXCEPT ![p] = o]
        /\ plainBills' = [plainBills EXCEPT ![i].state = "Paid"]
        /\ wallet' = [wallet EXCEPT ![Largest] = @ - plainBills[i].amount]
    BY <1>11 DEF PayRegular, Begin, FreeToAct, Debit
  <2>2. b \in PlainBill /\ b.state = "Paid" /\ plainBills[i].amount \in Int
    <3>1. plainBills[i] \in PlainBill
      BY <1>4, <2>1
    <3>2. b \in PlainBill /\ b.state = "Paid"
      BY <3>1 DEF PlainBill
    <3> QED
      BY <3>1, <3>2, BillFields
  <2>3. PlainsStay /\ Len(plainBills') = Len(plainBills) /\ plainBills'[i].state = "Paid"
    BY <1>1, <1>3, <2>1, <2>2, BillsChange
  <2>4. wallet' \in [{1, 2} -> Int]
    <3>1. Largest \in {1, 2} /\ plainBills[i].amount \in Int
      BY <1>3, <2>2
    <3>2. wallet[Largest] \in Int
      BY <1>2, <3>1
    <3>3. PICK v \in Int : v = wallet[Largest] - plainBills[i].amount
      BY <3>1, <3>2
    <3>4. wallet' = [wallet EXCEPT ![Largest] = v]
      BY <2>1, <3>3
    <3> QED
      BY <1>2, <3>1, <3>4
  <2>5. /\ o \in [kind : Kinds \ {"reset", "pay"}, at : {"", "waiting", "answered", "sent"},
                  bill : Nat]
        /\ op[p].kind # "reset" /\ child[1] = "up"
    <3>1. o \in [kind : Kinds \ {"reset", "pay"}, at : {"", "waiting", "answered", "sent"},
                  bill : Nat]
      <4>1. PICK n \in Nat : n = i
        BY <1>2
      <4>2. "regular-pay" \in Kinds \ {"reset", "pay"}
        BY DEF Kinds
      <4>3. [kind |-> "regular-pay", at |-> "sent", bill |-> n]
               \in [kind : Kinds \ {"reset", "pay"},
                    at : {"", "waiting", "answered", "sent"}, bill : Nat]
        BY <4>2
      <4>4. o = [kind |-> "regular-pay", at |-> "sent", bill |-> n]
        BY <4>1
      <4> HIDE DEF o
      <4> QED
        BY <4>3, <4>4
    <3>2. op[p].kind # "reset"
      <4>1. op[p] = Idle
        BY <2>1
      <4>2. Idle.kind # "reset"
        BY DEF Idle
      <4> QED
        BY <4>1, <4>2
    <3>3. child[1] = "up"
      BY <2>1 DEF Up
    <3> QED
      BY <3>1, <3>2, <3>3
  <2>6. op'[p] = o /\ \A q \in {"dash", "cli"} \ {p} : op'[q] = op[q]
    BY <1>2, <2>1
  <2>7. PlainRecords'
    <3>1. \A q \in {"dash", "cli"} :
             /\ op'[q].kind \in {"regular-invoice", "regular-pay"} =>
                   op'[q].bill \in 1 .. Len(plainBills')
             /\ op'[q].kind = "regular-pay" => plainBills'[op'[q].bill].state = "Paid"
      BY <1>1, <1>3, <2>1, <2>3, <2>6 DEF PlainRecords, PlainsStay
    <3>2. /\ plainFile.bill # 0 => plainFile.bill \in 1 .. Len(plainBills')
          /\ plainFile.customer = "Success" =>
                /\ plainFile.bill \in 1 .. Len(plainBills')
                /\ plainBills'[plainFile.bill].state = "Paid"
      BY <1>1, <2>3 DEF PlainRecords
    <3> QED
      BY <2>1, <3>1, <3>2 DEF PlainRecords
  <2> QED
    BY <1>2, <1>6, <2>1, <2>3, <2>4, <2>5, <2>7
<1>12. ASSUME RegularPaid(p) PROVE DemoInv'
  <2>1. /\ UNCHANGED <<still, jitBills, plainBills, holdFile, wallet>>
        /\ op' = [op EXCEPT ![p] = Idle] /\ op[p].kind = "regular-pay"
        /\ plainFile' = [bill |-> op[p].bill, customer |-> "Success", merchant |-> "Paid"]
    BY <1>12 DEF RegularPaid, End
  <2>2. PlainsStay
    BY <1>1, <2>1, BillsChange
  <2>3. /\ op'[p] = Idle /\ \A q \in {"dash", "cli"} \ {p} : op'[q] = op[q]
    BY <1>2, <2>1
  <2>4. /\ op[p].bill \in 1 .. Len(plainBills) /\ op[p].bill \in Nat
        /\ plainBills[op[p].bill].state = "Paid"
    BY <1>1, <1>2, <2>1 DEF PlainRecords
  <2>5. plainFile' \in [bill : Nat, customer : {"", "Success"},
                        merchant : {"", "Open", "Paid"}]
    BY <2>1, <2>4
  <2>6. PlainRecords'
    BY <1>1, <1>5, <2>1, <2>3, <2>4 DEF PlainRecords
  <2> QED
    BY <1>2, <1>5, <1>6, <2>1, <2>2, <2>5, <2>6
<1> QED
  BY <1>7, <1>8, <1>9, <1>10, <1>11, <1>12

\* Every step of manager, controller and command line keeps what the records say true.
LEMMA DemoInvStep == DemoInv /\ [DemoNext]_demoVars => DemoInv'
<1>1. DemoInv /\ DemoNext => DemoInv'
  BY ManagerSteps, CheckoutSteps, RegularSteps DEF DemoNext
<1>2. ASSUME DemoInv, UNCHANGED demoVars PROVE DemoInv'
  <2>1. UNCHANGED <<hosted, topology, child, children, ready, manager, op, jitBills,
                    plainBills, holdFile, plainFile, rentFile, wallet>>
    BY <1>2 DEF demoVars, run, world
  <2>2. DemoTypeOK'
    BY <1>2, <2>1 DEF DemoInv, DemoTypeOK
  <2>3. Alone'
    BY <1>2, <2>1 DEF DemoInv, Alone, Quiet, Idle
  <2>4. PlainRecords'
    BY <1>2, <2>1 DEF DemoInv, PlainRecords
  <2>5. HoldRecords'
    BY <1>2, <2>1 DEF DemoInv, HoldRecords
  <2> QED
    BY <2>2, <2>3, <2>4, <2>5 DEF DemoInv
<1> QED
  BY <1>1, <1>2

\* What the dashboard shows is true, whichever actor does what beside which
\* restart, reset or failure (operations.mjs, action-controller.mjs).
THEOREM RecordsStayTrue == DemoSpec => []RecordTrue
<1>1. ASSUME DemoInv PROVE RecordTrue
  <2>1. /\ DOMAIN plainBills = 1 .. Len(plainBills)
        /\ DOMAIN jitBills = 1 .. Len(jitBills)
    BY <1>1, BillsChange DEF DemoInv
  <2>2. /\ ShownPlain.settled => plainFile.customer = "Success"
        /\ ShownPlain.bill = plainFile.bill
    BY DEF ShownPlain
  <2>3. ShownCheckout.settled \/ ShownCheckout.customer = "Success" =>
           holdFile.channel # 0 \/ holdFile.customer = "Success"
    BY DEF ShownCheckout
  <2> QED
    BY <1>1, <2>1, <2>2, <2>3 DEF DemoInv, PlainRecords, HoldRecords, RecordTrue
<1> QED
  BY <1>1, DemoInvInit, DemoInvStep, PTL DEF DemoSpec

=============================================================================
