-------------------------- MODULE JitServiceProofs --------------------------
(***************************************************************************)
(* What holds of the JIT engine for every set of orders and under every    *)
(* fault of JitService: type correctness, the order of effects "hold       *)
(* before funding, merchant payment before hold settlement", one channel   *)
(* per start of the process, and nothing spent on an expired order.        *)
(*                                                                         *)
(* And what it keeps when some faults are left out: a refunded order is a  *)
(* released one, a committed payment is never refunded, and the engine     *)
(* implements the escrow of JitEscrow.                                     *)
(***************************************************************************)
EXTENDS JitService, TLAPS

\* Where a handler may be before the customer's money is known to be locked.
EarlyPcs == {"off", "askHold", "gotHold", "cancelling", "gotCancel"}

\* The hold invoice and the customer's money agree.
HoldAgrees(o) ==
    /\ hold[o] = "Received" => payer[o] = "locked"
    /\ hold[o] = "Paid" <=> payer[o] = "taken"

\* What is stored, spent or being done is backed by the customer's money.
Backed(o) ==
    /\ state[o] \in {"payment_held", "opening", "forwarding"}
         => payer[o] # "unpaid"
    /\ pc[o]["run"] = "gotHold" /\ reply[o]["run"] \in {"Received", "Paid"}
         => payer[o] # "unpaid"
    /\ \A h \in Handlers : pc[o][h] \notin EarlyPcs => payer[o] # "unpaid"
    /\ opens[o] > 0 \/ pay[o] # "None" => payer[o] # "unpaid"

\* A handler that goes on to settle holds an answer that cannot become stale:
\* neither a successful payment nor a paid invoice is ever undone.
Proven(o) ==
    /\ \A h \in Handlers :
         /\ pc[o][h] = "gotPaid" /\ reply[o][h] = "Success" => pay[o] = "Success"
         /\ pc[o][h] = "settling" => pay[o] = "Success"
         /\ pc[o][h] = "gotSettle" /\ reply[o][h] = "ok" => hold[o] = "Paid"
    /\ payer[o] = "taken" => pay[o] = "Success"
    /\ state[o] = "settled" => hold[o] = "Paid"

OrderInv(o) == HoldAgrees(o) /\ Backed(o) /\ Proven(o)

IndInv == TypeOK /\ \A o \in Orders : OrderInv(o)

-----------------------------------------------------------------------------
(* Type correctness *)

\* Sending a handler to one of its program points keeps the type of pc (Goto).
LEMMA GotoType ==
  ASSUME TypeOK, NEW o \in Orders, NEW h \in Handlers, NEW p \in Pcs, Goto(o, h, p)
  PROVE  pc' \in [Orders -> [Handlers -> Pcs]]
<1> QED
  BY DEF TypeOK, Goto

\* Handing a handler an answer keeps the types of pc and reply (Answer).
LEMMA AnswerType ==
  ASSUME TypeOK, NEW o \in Orders, NEW h \in Handlers, NEW r \in Replies,
         NEW p \in Pcs, Answer(o, h, r, p)
  PROVE  /\ pc' \in [Orders -> [Handlers -> Pcs]]
         /\ reply' \in [Orders -> [Handlers -> Replies]]
<1> QED
  BY GotoType DEF TypeOK, Answer

\* Writing a state of an order keeps the type of the stored states (Become).
LEMMA BecomeType ==
  ASSUME TypeOK, NEW o \in Orders, NEW s \in States, Become(o, s)
  PROVE  state' \in [Orders -> States]
<1> QED
  BY DEF TypeOK, Become

\* Where a handler resumes, tries or returns to is one of its program points.
LEMMA PcTypes ==
  /\ \A h \in Handlers : AfterTry(h) \in Pcs
  /\ \A o, s, known : TryFrom(o, s, known) \in Pcs
  /\ \A s : EntryPc(s) \in Pcs
  /\ "run" \in Handlers /\ "reveal" \in Handlers /\ "cancel" \in Handlers
<1> QED
  BY DEF AfterTry, TryFrom, EntryPc, Pcs, OpenPcs, ForwardPcs, SettlePcs, Handlers

\* A restart and a death give every handler a place to be.
LEMMA StartedType ==
  /\ \A p \in Pcs : Started(p) \in [Handlers -> Pcs]
  /\ NoReplies \in [Orders -> [Handlers -> Replies]]
<1> QED
  BY DEF Started, NoReplies, Pcs, Replies

\* Dying leaves the process variables with their types (Die).
LEMMA DieType ==
  ASSUME TypeOK, Die
  PROVE  /\ pc' \in [Orders -> [Handlers -> Pcs]]
         /\ reply' \in [Orders -> [Handlers -> Replies]]
         /\ armed' \in [Orders -> BOOLEAN]
         /\ up' \in BOOLEAN
         /\ crashes' \in Nat
<1>1. crashes' \in Nat
  BY DEF TypeOK, Die
<1>2. "off" \in Pcs
  BY DEF Pcs
<1> QED
  BY <1>1, <1>2, StartedType DEF Die

\* Every variable keeps its type in every step of every instance.
LEMMA TypeStep == TypeOK /\ [Next]_vars => TypeOK'
<1> SUFFICES ASSUME TypeOK, [Next]_vars PROVE TypeOK'
  OBVIOUS
<1> USE PcTypes
<1> USE DEF TypeOK, Pcs, OpenPcs, ForwardPcs, SettlePcs,
            States, Terminal, Replies, HoldStatus, PayStatus, Phases,
            stored, volatile, process, escrowed, channels, node
<1>1. ASSUME NEW o \in Orders, AskHold(o) PROVE TypeOK'
  <2>1. PICK r \in {hold[o]} \cup RpcError : Answer(o, "run", r, "gotHold")
    BY <1>1 DEF AskHold
  <2>2. r \in Replies
    BY DEF RpcError
  <2> QED
    BY <1>1, <2>1, <2>2, AnswerType DEF AskHold
<1>2. ASSUME NEW o \in Orders, HoldSeen(o) PROVE TypeOK'
  BY <1>2, GotoType, BecomeType DEF HoldSeen
<1>3. ASSUME NEW o \in Orders, HoldGone(o) PROVE TypeOK'
  BY <1>3, GotoType, BecomeType DEF HoldGone
<1>4. ASSUME NEW o \in Orders, HoldNotSeen(o) PROVE TypeOK'
  BY <1>4, GotoType, BecomeType DEF HoldNotSeen
<1>5. ASSUME NEW o \in Orders, TakeOpenLock(o) PROVE TypeOK'
  BY <1>5, GotoType, BecomeType DEF TakeOpenLock
<1>6. ASSUME NEW o \in Orders, OpenChannel(o) PROVE TypeOK'
  <2>1. chan' \in [Orders -> {"none", "pending", "ready", "abandoned"}]
    BY <1>6 DEF OpenChannel
  <2>2. opens' \in [Orders -> Nat]
    <3>1. CASE opens' = [opens EXCEPT ![o] = IF @ = MaxOpens THEN @ ELSE @ + 1]
      <4>1. \A n \in Nat : (IF n = MaxOpens THEN n ELSE n + 1) \in Nat
        OBVIOUS
      <4> QED
        BY <3>1, <4>1
    <3> QED
      BY <1>6, <3>1 DEF OpenChannel
  <2>3. pc' \in [Orders -> [Handlers -> Pcs]]
    BY <1>6, GotoType DEF OpenChannel
  <2> QED
    BY <1>6, <2>1, <2>2, <2>3 DEF OpenChannel
<1>7. ASSUME NEW o \in Orders, ReadySeen(o) PROVE TypeOK'
  BY <1>7, GotoType, BecomeType DEF ReadySeen
<1>8. ASSUME NEW o \in Orders, ReadyMissed(o) PROVE TypeOK'
  BY <1>8, GotoType, BecomeType DEF ReadyMissed
<1>9. ASSUME NEW o \in Orders, AbandonOrphan(o) PROVE TypeOK'
  <2>1. chan' \in [Orders -> {"none", "pending", "ready", "abandoned"}]
    <3>1. chan' = chan \/ chan' = [chan EXCEPT ![o] = "abandoned"]
      BY <1>9 DEF AbandonOrphan
    <3> QED
      BY <3>1
  <2> QED
    BY <1>9, <2>1, GotoType DEF AbandonOrphan
<1>10. ASSUME NEW o \in Orders, CheckDeadline(o) PROVE TypeOK'
  BY <1>10, GotoType, BecomeType DEF CheckDeadline
<1>11. ASSUME NEW o \in Orders, CommittedSeen(o) PROVE TypeOK'
  BY <1>11, GotoType, BecomeType DEF CommittedSeen
<1>12. ASSUME NEW o \in Orders, ExistingSeen(o) PROVE TypeOK'
  <2>1. PICK a \in BOOLEAN : armed' = [armed EXCEPT ![o] = a]
    BY <1>12 DEF ExistingSeen
  <2>2. armed' \in [Orders -> BOOLEAN]
    BY <2>1
  <2>3. pc' \in [Orders -> [Handlers -> Pcs]]
    BY <1>12, GotoType DEF ExistingSeen
  <2> QED
    BY <1>12, <2>2, <2>3 DEF ExistingSeen
<1>13. ASSUME NEW o \in Orders, SendPayment(o) PROVE TypeOK'
  <2>1. pay' \in [Orders -> PayStatus]
    <3>1. PICK s \in PayStatus : pay' = pay \/ pay' = [pay EXCEPT ![o] = s]
      BY <1>13 DEF SendPayment
    <3> QED
      BY <3>1
  <2>2. armed' \in [Orders -> BOOLEAN]
    BY <1>13 DEF SendPayment
  <2>3. pc' \in [Orders -> [Handlers -> Pcs]]
    BY <1>13, GotoType DEF SendPayment
  <2> QED
    BY <1>13, <2>1, <2>2, <2>3 DEF SendPayment
<1>14. ASSUME NEW o \in Orders, ForwardPaid(o) PROVE TypeOK'
  BY <1>14, GotoType, BecomeType DEF ForwardPaid
<1>15. ASSUME NEW o \in Orders, ForwardAgain(o) PROVE TypeOK'
  BY <1>15, GotoType, BecomeType DEF ForwardAgain
<1>16. ASSUME NEW o \in Orders, ForwardFailed(o) PROVE TypeOK'
  BY <1>16, GotoType, BecomeType DEF ForwardFailed
<1>17. ASSUME NEW o \in Orders, Observe(o) PROVE TypeOK'
  BY <1>17, GotoType, BecomeType DEF Observe
<1>18. ASSUME NEW o \in Orders, Try(o) PROVE TypeOK'
  BY <1>18, GotoType, BecomeType DEF Try
<1>19. ASSUME NEW o \in Orders, Retry(o) PROVE TypeOK'
  BY <1>19, GotoType, BecomeType DEF Retry
<1>20. ASSUME NEW o \in Orders, NEW h \in Handlers, AskPayment(o, h) PROVE TypeOK'
  <2>1. PICK x \in PaymentReads : \E r \in PaymentAnswers(o) : Answer(o, h, r, x[2])
    BY <1>20 DEF AskPayment
  <2>2. PICK r \in PaymentAnswers(o) : Answer(o, h, r, x[2])
    BY <2>1
  <2>3. r \in Replies
    <3>1. r = "error" \/ (r = pay[o] /\ pay[o] # "None")
      BY <2>2 DEF PaymentAnswers, RpcError
    <3> QED
      BY <3>1
  <2>4. x[2] \in Pcs
    BY <2>1 DEF PaymentReads
  <2> QED
    BY <1>20, <2>2, <2>3, <2>4, AnswerType DEF AskPayment
<1>21. ASSUME NEW o \in Orders, NEW h \in Handlers, AskPreimage(o, h) PROVE TypeOK'
  <2>1. PICK r \in Replies : Answer(o, h, r, "gotPreimage")
    BY <1>21, PreimageReadsAssumption DEF AskPreimage
  <2> QED
    BY <1>21, <2>1, AnswerType DEF AskPreimage
<1>22. ASSUME NEW o \in Orders, NEW h \in Handlers, PreimageRead(o, h) PROVE TypeOK'
  BY <1>22, GotoType, BecomeType DEF PreimageRead
<1>23. ASSUME NEW o \in Orders, NEW h \in Handlers, PreimageUnread(o, h) PROVE TypeOK'
  BY <1>23, GotoType, BecomeType DEF PreimageUnread
<1>24. ASSUME NEW o \in Orders, NEW h \in Handlers, PaidSeen(o, h) PROVE TypeOK'
  BY <1>24, GotoType, BecomeType DEF PaidSeen
<1>25. ASSUME NEW o \in Orders, NEW h \in Handlers, SettleInvoice(o, h) PROVE TypeOK'
  <2>1. PICK r \in Replies : Answer(o, h, r, "gotSettle")
    BY <1>25 DEF SettleInvoice, RpcError
  <2> QED
    BY <1>25, <2>1, AnswerType DEF SettleInvoice
<1>26. ASSUME NEW o \in Orders, NEW h \in Handlers, SettleDone(o, h) PROVE TypeOK'
  BY <1>26, GotoType, BecomeType DEF SettleDone
<1>27. ASSUME NEW o \in Orders, NEW h \in Handlers, CancelInvoice(o, h) PROVE TypeOK'
  BY <1>27, GotoType, BecomeType DEF CancelInvoice
<1>28. ASSUME NEW o \in Orders, NEW h \in Handlers, CancelDone(o, h) PROVE TypeOK'
  BY <1>28, GotoType, BecomeType DEF CancelDone
<1>29. ASSUME NEW o \in Orders, Cancel(o) PROVE TypeOK'
  BY <1>29, GotoType, BecomeType DEF Cancel
<1>30. ASSUME NEW o \in Orders, Reveal(o) PROVE TypeOK'
  BY <1>30, GotoType, BecomeType DEF Reveal
<1>31. ASSUME NEW o \in Orders, CustomerPays(o) PROVE TypeOK'
  BY <1>31, GotoType, BecomeType DEF CustomerPays
<1>32. ASSUME NEW o \in Orders, HoldLapses(o) PROVE TypeOK'
  BY <1>32, GotoType, BecomeType DEF HoldLapses
<1>33. ASSUME NEW o \in Orders, ChannelReady(o) PROVE TypeOK'
  BY <1>33, GotoType, BecomeType DEF ChannelReady
<1>34. ASSUME NEW o \in Orders, PaymentStarts(o) PROVE TypeOK'
  BY <1>34, GotoType, BecomeType DEF PaymentStarts
<1>35. ASSUME NEW o \in Orders, PaymentEnds(o) PROVE TypeOK'
  BY <1>35, GotoType, BecomeType DEF PaymentEnds
<1>36. ASSUME NEW o \in Orders, Tick(o) PROVE TypeOK'
  BY <1>36, GotoType, BecomeType DEF Tick
<1>37. ASSUME NEW o \in Orders, CrashAfterHeld(o) PROVE TypeOK'
  BY <1>37, BecomeType, DieType DEF CrashAfterHeld
<1>38. CASE Crash
  BY <1>38, DieType DEF Crash
<1>39. CASE Boot
  BY <1>39, StartedType DEF Boot, EntryState
<1>40. CASE UNCHANGED vars
  BY <1>40 DEF vars
<1> HIDE DEF TypeOK
<1> QED
  BY <1>1, <1>2, <1>3, <1>4, <1>5, <1>6, <1>7, <1>8, <1>9, <1>10, <1>11,
     <1>12, <1>13, <1>14, <1>15, <1>16, <1>17, <1>18, <1>19, <1>20, <1>21,
     <1>22, <1>23, <1>24, <1>25, <1>26, <1>27, <1>28, <1>29, <1>30, <1>31,
     <1>32, <1>33, <1>34, <1>35, <1>36, <1>37, <1>38, <1>39, <1>40
  DEF Next, RunStep, SharedStep, Request, World

-----------------------------------------------------------------------------
(* The inductive invariant *)

\* No order has done anything yet.
LEMMA InvInit == Init => IndInv
<1> SUFFICES ASSUME Init PROVE IndInv
  OBVIOUS
<1>1. TypeOK
  BY DEF Init, TypeOK, Started, NoReplies, States, Terminal, Pcs, OpenPcs,
         ForwardPcs, SettlePcs, Replies, HoldStatus, PayStatus, Phases
<1>2. ASSUME NEW o \in Orders PROVE OrderInv(o)
  BY DEF Init, OrderInv, HoldAgrees, Backed, Proven, EarlyPcs, Started,
         NoReplies, Handlers
<1> QED
  BY <1>1, <1>2 DEF IndInv

\* What is the same of an order but for what the invariant does not look at.
Same(q) ==
    /\ state'[q] = state[q] /\ pc'[q] = pc[q] /\ reply'[q] = reply[q]
    /\ hold'[q] = hold[q] /\ payer'[q] = payer[q]
    /\ opens'[q] = opens[q] /\ pay'[q] = pay[q]

\* A step that leaves an order alone keeps its part of the invariant.
LEMMA SameInv == ASSUME NEW q \in Orders, OrderInv(q), Same(q) PROVE OrderInv(q)'
<1> QED
  BY DEF OrderInv, HoldAgrees, Backed, Proven, Same

\* Moving a handler keeps the invariant, unless it moves to where it must hold
\* an answer, or past the hold check without the customer's money.
LEMMA MoveInv ==
  ASSUME TypeOK, NEW o \in Orders, NEW h \in Handlers, OrderInv(o),
         NEW p \in Pcs \ {"gotHold", "gotPaid", "settling", "gotSettle"},
         p \in EarlyPcs \/ payer[o] # "unpaid",
         Goto(o, h, p), UNCHANGED <<state, reply, hold, payer, opens, pay>>
  PROVE  OrderInv(o)'
<1>1. /\ pc'[o][h] = p
      /\ \A k \in Handlers \ {h} : pc'[o][k] = pc[o][k]
  BY DEF TypeOK, Goto
<1>2. HoldAgrees(o)'
  BY DEF OrderInv, HoldAgrees
<1>3. Backed(o)'
  BY <1>1, PcTypes DEF OrderInv, Backed
<1>4. Proven(o)'
  BY <1>1 DEF OrderInv, Proven
<1> QED
  BY <1>2, <1>3, <1>4 DEF OrderInv

\* Every step of every handler, of the nodes and of the customer keeps the
\* invariant: the steps of an order keep its part, and leave the others alone.
LEMMA InvStep == IndInv /\ [Next]_vars => IndInv'
<1> SUFFICES ASSUME IndInv, [Next]_vars PROVE IndInv'
  OBVIOUS
<1> USE PcTypes
<1>t. TypeOK /\ TypeOK'
  BY TypeStep DEF IndInv
<1>i. \A q \in Orders : OrderInv(q)
  BY DEF IndInv
<1>g. SUFFICES \A q \in Orders : OrderInv(q)'
  BY <1>t DEF IndInv
<1> USE DEF Goto, Answer, Become, stored, volatile, process, escrowed,
            channels, node
<1>1. ASSUME NEW o \in Orders, AskHold(o)
      PROVE  \A q \in Orders : OrderInv(q)'
  <2>1. \A q \in Orders \ {o} : Same(q)
    BY <1>1, <1>t DEF AskHold, Same, TypeOK
  <2>2. OrderInv(o)'
    BY <1>1, <1>t, <1>i DEF AskHold, RpcError,
       OrderInv, HoldAgrees, Backed, Proven, EarlyPcs, TypeOK, Handlers
  <2> QED
    BY <1>i, <2>1, <2>2, SameInv
<1>2. ASSUME NEW o \in Orders, HoldSeen(o)
      PROVE  \A q \in Orders : OrderInv(q)'
  <2>1. \A q \in Orders \ {o} : Same(q)
    BY <1>2, <1>t DEF HoldSeen, Same, TypeOK
  <2>2. OrderInv(o)'
    BY <1>2, <1>t, <1>i DEF HoldSeen,
       OrderInv, HoldAgrees, Backed, Proven, EarlyPcs, TypeOK, Handlers
  <2> QED
    BY <1>i, <2>1, <2>2, SameInv
<1>3. ASSUME NEW o \in Orders, HoldGone(o)
      PROVE  \A q \in Orders : OrderInv(q)'
  <2>1. \A q \in Orders \ {o} : Same(q)
    BY <1>3, <1>t DEF HoldGone, Same, TypeOK
  <2>2. OrderInv(o)'
    BY <1>3, <1>t, <1>i DEF HoldGone,
       OrderInv, HoldAgrees, Backed, Proven, EarlyPcs, TypeOK, Handlers
  <2> QED
    BY <1>i, <2>1, <2>2, SameInv
<1>4. ASSUME NEW o \in Orders, HoldNotSeen(o)
      PROVE  \A q \in Orders : OrderInv(q)'
  <2>1. \A q \in Orders \ {o} : Same(q)
    BY <1>4, <1>t DEF HoldNotSeen, Same, TypeOK
  <2>2. PICK p \in {"askHold", "cancelling"} : Goto(o, "run", p)
    BY <1>4 DEF HoldNotSeen
  <2>3. p \in EarlyPcs \/ payer[o] # "unpaid"
    BY <1>4, <1>i, <2>2 DEF HoldNotSeen, OrderInv, Backed, EarlyPcs
  <2>4. p \in Pcs \ {"gotHold", "gotPaid", "settling", "gotSettle"}
    BY <2>2 DEF Pcs, OpenPcs, ForwardPcs, SettlePcs
  <2>5. OrderInv(o)'
    <3> HIDE DEF Goto
    <3> QED
      BY <1>4, <1>t, <1>i, <2>2, <2>3, <2>4, MoveInv DEF HoldNotSeen
  <2> QED
    BY <1>i, <2>1, <2>5, SameInv
<1>5. ASSUME NEW o \in Orders, TakeOpenLock(o)
      PROVE  \A q \in Orders : OrderInv(q)'
  <2>1. \A q \in Orders \ {o} : Same(q)
    BY <1>5, <1>t DEF TakeOpenLock, Same, TypeOK
  <2>2. Goto(o, "run", "opening") /\ UNCHANGED <<state, reply, hold, payer, opens, pay>>
    BY <1>5 DEF TakeOpenLock
  <2>3. payer[o] # "unpaid"
    BY <1>5, <1>i DEF TakeOpenLock, OrderInv, Backed, EarlyPcs
  <2>4. "opening" \in Pcs \ {"gotHold", "gotPaid", "settling", "gotSettle"}
    BY DEF Pcs, OpenPcs, ForwardPcs, SettlePcs
  <2>5. OrderInv(o)'
    <3> HIDE DEF Goto
    <3> QED
      BY <1>t, <1>i, <2>2, <2>3, <2>4, MoveInv
  <2> QED
    BY <1>i, <2>1, <2>5, SameInv
<1>6. ASSUME NEW o \in Orders, OpenChannel(o)
      PROVE  \A q \in Orders : OrderInv(q)'
  <2>1. \A q \in Orders \ {o} : Same(q)
    BY <1>6, <1>t DEF OpenChannel, Same, TypeOK
  <2>2. /\ payer[o] # "unpaid"
        /\ UNCHANGED <<state, reply, hold, payer, pay>>
        /\ \A h \in Handlers : pc'[o][h] = pc[o][h] \/ pc'[o][h] \in {"awaitReady", "cancelling"}
    <3>1. payer[o] # "unpaid"
      BY <1>6, <1>i DEF OpenChannel, OrderInv, Backed, EarlyPcs
    <3>2. PICK p \in {"awaitReady", "cancelling"} : Goto(o, "run", p)
      BY <1>6 DEF OpenChannel
    <3>3. \A h \in Handlers : pc'[o][h] = pc[o][h] \/ pc'[o][h] = p
      BY <1>t, <3>2 DEF TypeOK
    <3>4. UNCHANGED <<state, reply, hold, payer, pay>>
      BY <1>6 DEF OpenChannel
    <3> QED
      BY <3>1, <3>2, <3>3, <3>4
  <2>3. HoldAgrees(o)'
    BY <2>2, <1>i DEF OrderInv, HoldAgrees
  <2>4. Backed(o)'
    BY <2>2, <1>i DEF OrderInv, Backed
  <2>5. Proven(o)'
    BY <2>2, <1>i DEF OrderInv, Proven
  <2> QED
    BY <1>i, <2>1, <2>3, <2>4, <2>5, SameInv DEF OrderInv
<1>7. ASSUME NEW o \in Orders, ReadySeen(o)
      PROVE  \A q \in Orders : OrderInv(q)'
  <2>1. \A q \in Orders \ {o} : Same(q)
    BY <1>7, <1>t DEF ReadySeen, Same, TypeOK
  <2>2. OrderInv(o)'
    BY <1>7, <1>t, <1>i DEF ReadySeen,
       OrderInv, HoldAgrees, Backed, Proven, EarlyPcs, TypeOK, Handlers
  <2> QED
    BY <1>i, <2>1, <2>2, SameInv
<1>8. ASSUME NEW o \in Orders, ReadyMissed(o)
      PROVE  \A q \in Orders : OrderInv(q)'
  <2>1. \A q \in Orders \ {o} : Same(q)
    BY <1>8, <1>t DEF ReadyMissed, Same, TypeOK
  <2>2. PICK p \in {"abandoning", "cancelling"} : Goto(o, "run", p)
    BY <1>8 DEF ReadyMissed
  <2>3. p \in EarlyPcs \/ payer[o] # "unpaid"
    BY <1>8, <1>i, <2>2 DEF ReadyMissed, OrderInv, Backed, EarlyPcs
  <2>4. p \in Pcs \ {"gotHold", "gotPaid", "settling", "gotSettle"}
    BY <2>2 DEF Pcs, OpenPcs, ForwardPcs, SettlePcs
  <2>5. OrderInv(o)'
    <3> HIDE DEF Goto
    <3> QED
      BY <1>8, <1>t, <1>i, <2>2, <2>3, <2>4, MoveInv DEF ReadyMissed
  <2> QED
    BY <1>i, <2>1, <2>5, SameInv
<1>9. ASSUME NEW o \in Orders, AbandonOrphan(o)
      PROVE  \A q \in Orders : OrderInv(q)'
  <2>1. \A q \in Orders \ {o} : Same(q)
    BY <1>9, <1>t DEF AbandonOrphan, Same, TypeOK
  <2>2. OrderInv(o)'
    BY <1>9, <1>t, <1>i DEF AbandonOrphan,
       OrderInv, HoldAgrees, Backed, Proven, EarlyPcs, TypeOK, Handlers
  <2> QED
    BY <1>i, <2>1, <2>2, SameInv
<1>10. ASSUME NEW o \in Orders, CheckDeadline(o)
      PROVE  \A q \in Orders : OrderInv(q)'
  <2>1. \A q \in Orders \ {o} : Same(q)
    BY <1>10, <1>t DEF CheckDeadline, Same, TypeOK
  <2>2. PICK p \in {"askExisting", "askCommitted"} : Goto(o, "run", p)
    BY <1>10 DEF CheckDeadline
  <2>3. p \in EarlyPcs \/ payer[o] # "unpaid"
    BY <1>10, <1>i, <2>2 DEF CheckDeadline, OrderInv, Backed, EarlyPcs
  <2>4. p \in Pcs \ {"gotHold", "gotPaid", "settling", "gotSettle"}
    BY <2>2 DEF Pcs, OpenPcs, ForwardPcs, SettlePcs
  <2>5. OrderInv(o)'
    <3> HIDE DEF Goto
    <3> QED
      BY <1>10, <1>t, <1>i, <2>2, <2>3, <2>4, MoveInv DEF CheckDeadline
  <2> QED
    BY <1>i, <2>1, <2>5, SameInv
<1>11. ASSUME NEW o \in Orders, CommittedSeen(o)
      PROVE  \A q \in Orders : OrderInv(q)'
  <2>1. \A q \in Orders \ {o} : Same(q)
    BY <1>11, <1>t DEF CommittedSeen, Same, TypeOK
  <2>2. PICK p \in {"askExisting", "cancelling"} : Goto(o, "run", p)
    BY <1>11 DEF CommittedSeen
  <2>3. p \in EarlyPcs \/ payer[o] # "unpaid"
    BY <1>11, <1>i, <2>2 DEF CommittedSeen, OrderInv, Backed, EarlyPcs
  <2>4. p \in Pcs \ {"gotHold", "gotPaid", "settling", "gotSettle"}
    BY <2>2 DEF Pcs, OpenPcs, ForwardPcs, SettlePcs
  <2>5. OrderInv(o)'
    <3> HIDE DEF Goto
    <3> QED
      BY <1>11, <1>t, <1>i, <2>2, <2>3, <2>4, MoveInv DEF CommittedSeen
  <2> QED
    BY <1>i, <2>1, <2>5, SameInv
<1>12. ASSUME NEW o \in Orders, ExistingSeen(o)
      PROVE  \A q \in Orders : OrderInv(q)'
  <2>1. \A q \in Orders \ {o} : Same(q)
    BY <1>12, <1>t DEF ExistingSeen, Same, TypeOK
  <2>2. PICK p \in {"askForward", "sending"} : Goto(o, "run", p)
    BY <1>12 DEF ExistingSeen
  <2>3. p \in EarlyPcs \/ payer[o] # "unpaid"
    BY <1>12, <1>i, <2>2 DEF ExistingSeen, OrderInv, Backed, EarlyPcs
  <2>4. p \in Pcs \ {"gotHold", "gotPaid", "settling", "gotSettle"}
    BY <2>2 DEF Pcs, OpenPcs, ForwardPcs, SettlePcs
  <2>5. OrderInv(o)'
    <3> HIDE DEF Goto
    <3> QED
      BY <1>12, <1>t, <1>i, <2>2, <2>3, <2>4, MoveInv DEF ExistingSeen
  <2> QED
    BY <1>i, <2>1, <2>5, SameInv
<1>13. ASSUME NEW o \in Orders, SendPayment(o)
      PROVE  \A q \in Orders : OrderInv(q)'
  <2>1. \A q \in Orders \ {o} : Same(q)
    BY <1>13, <1>t DEF SendPayment, Same, TypeOK
  <2>2. OrderInv(o)'
    <3>1. payer[o] # "unpaid"
      BY <1>13, <1>i DEF SendPayment, OrderInv, Backed, EarlyPcs
    <3>2. /\ UNCHANGED <<state, reply, hold, payer, opens>>
          /\ pay'[o] = pay[o] \/ pay[o] # "Success"
      BY <1>13, <1>t DEF SendPayment, TypeOK
    <3>3. \A k \in Handlers :
             pc'[o][k] = pc[o][k] \/ pc'[o][k] \in {"askForward", "cancelling"}
      BY <1>13, <1>t DEF SendPayment, TypeOK
    <3>4. HoldAgrees(o)'
      BY <3>2, <1>i DEF OrderInv, HoldAgrees
    <3>5. Backed(o)'
      BY <3>1, <3>2, <3>3, <1>i DEF OrderInv, Backed
    <3>6. Proven(o)'
      BY <3>2, <3>3, <1>i DEF OrderInv, Proven
    <3> QED
      BY <3>4, <3>5, <3>6 DEF OrderInv
  <2> QED
    BY <1>i, <2>1, <2>2, SameInv
<1>14. ASSUME NEW o \in Orders, ForwardPaid(o)
      PROVE  \A q \in Orders : OrderInv(q)'
  <2>1. \A q \in Orders \ {o} : Same(q)
    BY <1>14, <1>t DEF ForwardPaid, Same, TypeOK
  <2>2. PICK p \in {"observing", "trying"} : Goto(o, "run", p)
    BY <1>14 DEF ForwardPaid
  <2>3. p \in EarlyPcs \/ payer[o] # "unpaid"
    BY <1>14, <1>i, <2>2 DEF ForwardPaid, OrderInv, Backed, EarlyPcs
  <2>4. p \in Pcs \ {"gotHold", "gotPaid", "settling", "gotSettle"}
    BY <2>2 DEF Pcs, OpenPcs, ForwardPcs, SettlePcs
  <2>5. OrderInv(o)'
    <3> HIDE DEF Goto
    <3> QED
      BY <1>14, <1>t, <1>i, <2>2, <2>3, <2>4, MoveInv DEF ForwardPaid
  <2> QED
    BY <1>i, <2>1, <2>5, SameInv
<1>15. ASSUME NEW o \in Orders, ForwardAgain(o)
      PROVE  \A q \in Orders : OrderInv(q)'
  <2>1. \A q \in Orders \ {o} : Same(q)
    BY <1>15, <1>t DEF ForwardAgain, Same, TypeOK
  <2>2. PICK p \in {"askForward"} : Goto(o, "run", p)
    BY <1>15 DEF ForwardAgain
  <2>3. p \in EarlyPcs \/ payer[o] # "unpaid"
    BY <1>15, <1>i, <2>2 DEF ForwardAgain, OrderInv, Backed, EarlyPcs
  <2>4. p \in Pcs \ {"gotHold", "gotPaid", "settling", "gotSettle"}
    BY <2>2 DEF Pcs, OpenPcs, ForwardPcs, SettlePcs
  <2>5. OrderInv(o)'
    <3> HIDE DEF Goto
    <3> QED
      BY <1>15, <1>t, <1>i, <2>2, <2>3, <2>4, MoveInv DEF ForwardAgain
  <2> QED
    BY <1>i, <2>1, <2>5, SameInv
<1>16. ASSUME NEW o \in Orders, ForwardFailed(o)
      PROVE  \A q \in Orders : OrderInv(q)'
  <2>1. \A q \in Orders \ {o} : Same(q)
    BY <1>16, <1>t DEF ForwardFailed, Same, TypeOK
  <2>2. OrderInv(o)'
    BY <1>16, <1>t, <1>i DEF ForwardFailed,
       OrderInv, HoldAgrees, Backed, Proven, EarlyPcs, TypeOK, Handlers
  <2> QED
    BY <1>i, <2>1, <2>2, SameInv
<1>17. ASSUME NEW o \in Orders, Observe(o)
      PROVE  \A q \in Orders : OrderInv(q)'
  <2>1. \A q \in Orders \ {o} : Same(q)
    BY <1>17, <1>t DEF Observe, Same, TypeOK
  <2>2. PICK p \in {"trying"} : Goto(o, "run", p)
    BY <1>17 DEF Observe
  <2>3. p \in EarlyPcs \/ payer[o] # "unpaid"
    BY <1>17, <1>i, <2>2 DEF Observe, OrderInv, Backed, EarlyPcs
  <2>4. p \in Pcs \ {"gotHold", "gotPaid", "settling", "gotSettle"}
    BY <2>2 DEF Pcs, OpenPcs, ForwardPcs, SettlePcs
  <2>5. OrderInv(o)'
    <3> HIDE DEF Goto
    <3> QED
      BY <1>17, <1>t, <1>i, <2>2, <2>3, <2>4, MoveInv DEF Observe
  <2> QED
    BY <1>i, <2>1, <2>5, SameInv
<1>18. ASSUME NEW o \in Orders, Try(o)
      PROVE  \A q \in Orders : OrderInv(q)'
  <2>1. \A q \in Orders \ {o} : Same(q)
    BY <1>18, <1>t DEF Try, Same, TypeOK
  <2>2. OrderInv(o)'
    BY <1>18, <1>t, <1>i DEF Try, TryFrom,
       OrderInv, HoldAgrees, Backed, Proven, EarlyPcs, TypeOK, Handlers
  <2> QED
    BY <1>i, <2>1, <2>2, SameInv
<1>19. ASSUME NEW o \in Orders, Retry(o)
      PROVE  \A q \in Orders : OrderInv(q)'
  <2>1. \A q \in Orders \ {o} : Same(q)
    BY <1>19, <1>t DEF Retry, Same, TypeOK
  <2>2. OrderInv(o)'
    BY <1>19, <1>t, <1>i DEF Retry,
       OrderInv, HoldAgrees, Backed, Proven, EarlyPcs, TypeOK, Handlers
  <2> QED
    BY <1>i, <2>1, <2>2, SameInv
<1>20. ASSUME NEW o \in Orders, NEW h \in Handlers, AskPayment(o, h)
      PROVE  \A q \in Orders : OrderInv(q)'
  <2>1. \A q \in Orders \ {o} : Same(q)
    BY <1>20, <1>t DEF AskPayment, Same, TypeOK
  <2>2. OrderInv(o)'
    BY <1>20, <1>t, <1>i DEF AskPayment, PaymentReads, PaymentAnswers, RpcError,
       OrderInv, HoldAgrees, Backed, Proven, EarlyPcs, TypeOK, Handlers
  <2> QED
    BY <1>i, <2>1, <2>2, SameInv
<1>21. ASSUME NEW o \in Orders, NEW h \in Handlers, AskPreimage(o, h)
      PROVE  \A q \in Orders : OrderInv(q)'
  <2>1. \A q \in Orders \ {o} : Same(q)
    BY <1>21, <1>t DEF AskPreimage, Same, TypeOK
  <2>2. OrderInv(o)'
    BY <1>21, <1>t, <1>i DEF AskPreimage,
       OrderInv, HoldAgrees, Backed, Proven, EarlyPcs, TypeOK, Handlers
  <2> QED
    BY <1>i, <2>1, <2>2, SameInv
<1>22. ASSUME NEW o \in Orders, NEW h \in Handlers, PreimageRead(o, h)
      PROVE  \A q \in Orders : OrderInv(q)'
  <2>1. \A q \in Orders \ {o} : Same(q)
    BY <1>22, <1>t DEF PreimageRead, Same, TypeOK
  <2>2. /\ payer[o] # "unpaid"
        /\ state'[o] = "forwarding"
        /\ UNCHANGED <<reply, hold, payer, opens, pay>>
        /\ \A k \in Handlers : pc'[o][k] = pc[o][k] \/ pc'[o][k] \in {"askPaid", "cancelling"}
    <3>1. payer[o] # "unpaid"
      BY <1>22, <1>i DEF PreimageRead, OrderInv, Backed, EarlyPcs
    <3>2. state'[o] = "forwarding" /\ UNCHANGED <<reply, hold, payer, opens, pay>>
      BY <1>22, <1>t DEF PreimageRead, TypeOK
    <3>3. TryFrom(o, "forwarding", TRUE) \in {"askPaid", "cancelling"}
      BY DEF TryFrom
    <3>4. PICK p \in {"askPaid", "cancelling"} : Goto(o, h, p)
      BY <1>22, <3>3 DEF PreimageRead
    <3>5. \A k \in Handlers : pc'[o][k] = pc[o][k] \/ pc'[o][k] \in {"askPaid", "cancelling"}
      BY <3>4, <1>t DEF Goto, TypeOK
    <3> QED
      BY <3>1, <3>2, <3>5
  <2>3. HoldAgrees(o)'
    BY <2>2, <1>i DEF OrderInv, HoldAgrees
  <2>4. Backed(o)'
    BY <2>2, <1>i DEF OrderInv, Backed
  <2>5. Proven(o)'
    BY <2>2, <1>i DEF OrderInv, Proven
  <2> QED
    BY <1>i, <2>1, <2>3, <2>4, <2>5, SameInv DEF OrderInv
<1>23. ASSUME NEW o \in Orders, NEW h \in Handlers, PreimageUnread(o, h)
      PROVE  \A q \in Orders : OrderInv(q)'
  <2>1. \A q \in Orders \ {o} : Same(q)
    BY <1>23, <1>t DEF PreimageUnread, Same, TypeOK
  <2>2. OrderInv(o)'
    BY <1>23, <1>t, <1>i DEF PreimageUnread, AfterTry,
       OrderInv, HoldAgrees, Backed, Proven, EarlyPcs, TypeOK, Handlers
  <2> QED
    BY <1>i, <2>1, <2>2, SameInv
<1>24. ASSUME NEW o \in Orders, NEW h \in Handlers, PaidSeen(o, h)
      PROVE  \A q \in Orders : OrderInv(q)'
  <2>1. \A q \in Orders \ {o} : Same(q)
    BY <1>24, <1>t DEF PaidSeen, Same, TypeOK
  <2>2. OrderInv(o)'
    BY <1>24, <1>t, <1>i DEF PaidSeen, AfterTry,
       OrderInv, HoldAgrees, Backed, Proven, EarlyPcs, TypeOK, Handlers
  <2> QED
    BY <1>i, <2>1, <2>2, SameInv
<1>25. ASSUME NEW o \in Orders, NEW h \in Handlers, SettleInvoice(o, h)
      PROVE  \A q \in Orders : OrderInv(q)'
  <2>1. \A q \in Orders \ {o} : Same(q)
    BY <1>25, <1>t DEF SettleInvoice, Same, TypeOK
  <2>2. OrderInv(o)'
    <3>1. HoldAgrees(o)'
      BY <1>25, <1>t, <1>i, SMTT(60) DEF SettleInvoice, RpcError,
         OrderInv, HoldAgrees, Backed, Proven, EarlyPcs, TypeOK, Handlers
    <3>2. Backed(o)'
      BY <1>25, <1>t, <1>i, SMTT(60) DEF SettleInvoice, RpcError,
         OrderInv, HoldAgrees, Backed, Proven, EarlyPcs, TypeOK, Handlers
    <3>3. Proven(o)'
      BY <1>25, <1>t, <1>i, SMTT(60) DEF SettleInvoice, RpcError,
         OrderInv, HoldAgrees, Backed, Proven, EarlyPcs, TypeOK, Handlers
    <3> QED
      BY <3>1, <3>2, <3>3 DEF OrderInv
  <2> QED
    BY <1>i, <2>1, <2>2, SameInv
<1>26. ASSUME NEW o \in Orders, NEW h \in Handlers, SettleDone(o, h)
      PROVE  \A q \in Orders : OrderInv(q)'
  <2>1. \A q \in Orders \ {o} : Same(q)
    BY <1>26, <1>t DEF SettleDone, Same, TypeOK
  <2>2. /\ payer[o] # "unpaid"
        /\ state'[o] = state[o] \/ (state'[o] = "settled" /\ hold[o] = "Paid")
        /\ UNCHANGED <<reply, hold, payer, opens, pay>>
        /\ \A k \in Handlers : pc'[o][k] = pc[o][k] \/ pc'[o][k] \in {"retrying", "off"}
    <3>1. payer[o] # "unpaid"
      BY <1>26, <1>t, <1>i DEF SettleDone, OrderInv, Backed, EarlyPcs
    <3>2. reply[o][h] = "ok" => hold[o] = "Paid"
      BY <1>26, <1>t, <1>i DEF SettleDone, OrderInv, Proven
    <3> QED
      BY <1>26, <1>t, <3>1, <3>2 DEF SettleDone, AfterTry, TypeOK
  <2>3. HoldAgrees(o)'
    BY <2>2, <1>i DEF OrderInv, HoldAgrees
  <2>4. Backed(o)'
    BY <2>2, <1>i DEF OrderInv, Backed
  <2>5. Proven(o)'
    BY <2>2, <1>i DEF OrderInv, Proven
  <2> QED
    BY <1>i, <2>1, <2>3, <2>4, <2>5, SameInv DEF OrderInv
<1>27. ASSUME NEW o \in Orders, NEW h \in Handlers, CancelInvoice(o, h)
      PROVE  \A q \in Orders : OrderInv(q)'
  <2>1. \A q \in Orders \ {o} : Same(q)
    BY <1>27, <1>t DEF CancelInvoice, Same, TypeOK
  <2>2. OrderInv(o)'
    BY <1>27, <1>t, <1>i DEF CancelInvoice,
       OrderInv, HoldAgrees, Backed, Proven, EarlyPcs, TypeOK, Handlers
  <2> QED
    BY <1>i, <2>1, <2>2, SameInv
<1>28. ASSUME NEW o \in Orders, NEW h \in Handlers, CancelDone(o, h)
      PROVE  \A q \in Orders : OrderInv(q)'
  <2>1. \A q \in Orders \ {o} : Same(q)
    BY <1>28, <1>t DEF CancelDone, Same, TypeOK
  <2>2. OrderInv(o)'
    BY <1>28, <1>t, <1>i DEF CancelDone,
       OrderInv, HoldAgrees, Backed, Proven, EarlyPcs, TypeOK, Handlers
  <2> QED
    BY <1>i, <2>1, <2>2, SameInv
<1>29. ASSUME NEW o \in Orders, Cancel(o)
      PROVE  \A q \in Orders : OrderInv(q)'
  <2>1. \A q \in Orders \ {o} : Same(q)
    BY <1>29, <1>t DEF Cancel, Same, TypeOK
  <2>2. OrderInv(o)'
    BY <1>29, <1>t, <1>i DEF Cancel,
       OrderInv, HoldAgrees, Backed, Proven, EarlyPcs, TypeOK, Handlers
  <2> QED
    BY <1>i, <2>1, <2>2, SameInv
<1>30. ASSUME NEW o \in Orders, Reveal(o)
      PROVE  \A q \in Orders : OrderInv(q)'
  <2>1. \A q \in Orders \ {o} : Same(q)
    BY <1>30, <1>t DEF Reveal, Same, TypeOK
  <2>2. OrderInv(o)'
    BY <1>30, <1>t, <1>i DEF Reveal, TryFrom,
       OrderInv, HoldAgrees, Backed, Proven, EarlyPcs, TypeOK, Handlers
  <2> QED
    BY <1>i, <2>1, <2>2, SameInv
<1>31. ASSUME NEW o \in Orders, CustomerPays(o)
      PROVE  \A q \in Orders : OrderInv(q)'
  <2>1. \A q \in Orders \ {o} : Same(q)
    BY <1>31, <1>t DEF CustomerPays, Same, TypeOK
  <2>2. OrderInv(o)'
    BY <1>31, <1>t, <1>i DEF CustomerPays,
       OrderInv, HoldAgrees, Backed, Proven, EarlyPcs, TypeOK, Handlers
  <2> QED
    BY <1>i, <2>1, <2>2, SameInv
<1>32. ASSUME NEW o \in Orders, HoldLapses(o)
      PROVE  \A q \in Orders : OrderInv(q)'
  <2>1. \A q \in Orders \ {o} : Same(q)
    BY <1>32, <1>t DEF HoldLapses, Same, TypeOK
  <2>2. OrderInv(o)'
    BY <1>32, <1>t, <1>i DEF HoldLapses,
       OrderInv, HoldAgrees, Backed, Proven, EarlyPcs, TypeOK, Handlers
  <2> QED
    BY <1>i, <2>1, <2>2, SameInv
<1>33. ASSUME NEW o \in Orders, ChannelReady(o)
      PROVE  \A q \in Orders : OrderInv(q)'
  <2>1. \A q \in Orders \ {o} : Same(q)
    BY <1>33, <1>t DEF ChannelReady, Same, TypeOK
  <2>2. OrderInv(o)'
    BY <1>33, <1>t, <1>i DEF ChannelReady,
       OrderInv, HoldAgrees, Backed, Proven, EarlyPcs, TypeOK, Handlers
  <2> QED
    BY <1>i, <2>1, <2>2, SameInv
<1>34. ASSUME NEW o \in Orders, PaymentStarts(o)
      PROVE  \A q \in Orders : OrderInv(q)'
  <2>1. \A q \in Orders \ {o} : Same(q)
    BY <1>34, <1>t DEF PaymentStarts, Same, TypeOK
  <2>2. OrderInv(o)'
    BY <1>34, <1>t, <1>i DEF PaymentStarts,
       OrderInv, HoldAgrees, Backed, Proven, EarlyPcs, TypeOK, Handlers
  <2> QED
    BY <1>i, <2>1, <2>2, SameInv
<1>35. ASSUME NEW o \in Orders, PaymentEnds(o)
      PROVE  \A q \in Orders : OrderInv(q)'
  <2>1. \A q \in Orders \ {o} : Same(q)
    BY <1>35, <1>t DEF PaymentEnds, Same, TypeOK
  <2>2. OrderInv(o)'
    BY <1>35, <1>t, <1>i DEF PaymentEnds,
       OrderInv, HoldAgrees, Backed, Proven, EarlyPcs, TypeOK, Handlers
  <2> QED
    BY <1>i, <2>1, <2>2, SameInv
<1>36. ASSUME NEW o \in Orders, Tick(o)
      PROVE  \A q \in Orders : OrderInv(q)'
  <2>1. \A q \in Orders \ {o} : Same(q)
    BY <1>36, <1>t DEF Tick, Same, TypeOK
  <2>2. OrderInv(o)'
    BY <1>36, <1>t, <1>i DEF Tick,
       OrderInv, HoldAgrees, Backed, Proven, EarlyPcs, TypeOK, Handlers
  <2> QED
    BY <1>i, <2>1, <2>2, SameInv
<1>37. ASSUME NEW o \in Orders, CrashAfterHeld(o)
      PROVE  \A q \in Orders : OrderInv(q)'
  BY <1>37, <1>t, <1>i DEF CrashAfterHeld, Die, Started, NoReplies,
     OrderInv, HoldAgrees, Backed, Proven, EarlyPcs, TypeOK, Handlers
<1>38. CASE Crash
  BY <1>38, <1>t, <1>i DEF Crash, Die, Started, NoReplies,
     OrderInv, HoldAgrees, Backed, Proven, EarlyPcs, TypeOK, Handlers
<1>39. CASE Boot
  BY <1>39, <1>t, <1>i DEF Boot, EntryState, EntryPc, Started,
     OrderInv, HoldAgrees, Backed, Proven, EarlyPcs, TypeOK, Handlers
<1>40. CASE UNCHANGED vars
  BY <1>40, <1>i, SameInv DEF Same, vars
<1> QED
  BY <1>1, <1>2, <1>3, <1>4, <1>5, <1>6, <1>7, <1>8, <1>9, <1>10, <1>11,
     <1>12, <1>13, <1>14, <1>15, <1>16, <1>17, <1>18, <1>19, <1>20, <1>21,
     <1>22, <1>23, <1>24, <1>25, <1>26, <1>27, <1>28, <1>29, <1>30, <1>31,
     <1>32, <1>33, <1>34, <1>35, <1>36, <1>37, <1>38, <1>39, <1>40
  DEF Next, RunStep, SharedStep, Request, World

-----------------------------------------------------------------------------
(* Theorems *)

\* The inductive invariant holds of every behaviour of the engine.
THEOREM Inductive == Spec => []IndInv
<1> QED
  BY InvInit, InvStep, PTL DEF Spec

\* Every variable keeps its type, in every instance.
THEOREM TypeCorrect == Spec => []TypeOK
<1>1. IndInv => TypeOK
  BY DEF IndInv
<1> QED
  BY <1>1, Inductive, PTL

\* Under every fault the customer's money is taken only for a merchant payment
\* that succeeded (trySettle).
THEOREM NoSettlementWithoutPayment == Spec => []MerchantPaidFirst
<1>1. IndInv => MerchantPaidFirst
  BY DEF IndInv, OrderInv, Proven, MerchantPaidFirst
<1> QED
  BY <1>1, Inductive, PTL

\* Under every fault capital and the merchant's payment are spent only for a
\* customer whose money was locked (run's order of effects).
THEOREM NoCapitalWithoutHold == Spec => []HeldBeforeCapital
<1>1. IndInv => HeldBeforeCapital
  BY DEF IndInv, OrderInv, Backed, HeldBeforeCapital
<1> QED
  BY <1>1, Inductive, PTL

\* Under every fault an order stored as settled has its hold paid out to the
\* LSP (trySettle's last update).
THEOREM SettledMeansPaid == Spec => []SettledIsPaid
<1>1. IndInv => SettledIsPaid
  BY DEF IndInv, OrderInv, Proven, SettledIsPaid
<1> QED
  BY <1>1, Inductive, PTL

-----------------------------------------------------------------------------
(* One channel per start of the process *)

\* The places of run() before it has asked for a channel.
FreshPcs == {"askHold", "gotHold", "waitLock", "opening"}

\* A run() that has yet to ask for its channel, or is to be started, finds at
\* most one channel for every crash so far; a dead process runs nothing.
StartInv ==
    \A o \in Orders :
        /\ opens[o] <= 1 + crashes
        /\ pc[o]["run"] \in FreshPcs => opens[o] <= crashes
        /\ ~up => opens[o] <= crashes /\ pc[o]["run"] = "off"

\* run() of p neither wakes from "off" nor goes back to before its opening.
Onward(p) ==
    pc'[p]["run"] # pc[p]["run"] =>
        /\ pc[p]["run"] # "off"
        /\ pc'[p]["run"] \in FreshPcs => pc[p]["run"] \in FreshPcs

\* Sending a run() that is not off to a later place, or another handler
\* anywhere, leaves every run() onward (Goto).
LEMMA GotoOnward ==
  ASSUME TypeOK, NEW o \in Orders, NEW h \in Handlers, NEW p, Goto(o, h, p),
         h = "run" => /\ pc[o]["run"] # "off"
                      /\ p \in FreshPcs => pc[o]["run"] \in FreshPcs
  PROVE  \A q \in Orders : Onward(q)
<1> SUFFICES ASSUME NEW q \in Orders PROVE Onward(q)
  OBVIOUS
<1>1. "run" \in Handlers
  BY DEF Handlers
<1>2. pc'[q]["run"] = IF q = o /\ h = "run" THEN p ELSE pc[q]["run"]
  BY <1>1 DEF TypeOK, Goto
<1> QED
  BY <1>2 DEF Onward

\* No step but a death and a boot sends a run() back to before its opening.
LEMMA StepsOnward ==
  ASSUME TypeOK, NEW o \in Orders, RunStep(o) \/ Request(o)
  PROVE  \A q \in Orders : Onward(q)
<1> USE PcTypes, GotoOnward DEF FreshPcs
<1>1. CASE AskHold(o)
  BY <1>1 DEF AskHold, Answer
<1>2. CASE HoldSeen(o)
  BY <1>2 DEF HoldSeen
<1>3. CASE HoldGone(o)
  BY <1>3 DEF HoldGone
<1>4. CASE HoldNotSeen(o)
  BY <1>4 DEF HoldNotSeen
<1>5. CASE TakeOpenLock(o)
  BY <1>5 DEF TakeOpenLock
<1>6. CASE OpenChannel(o)
  BY <1>6 DEF OpenChannel
<1>7. CASE ReadySeen(o)
  BY <1>7 DEF ReadySeen
<1>8. CASE ReadyMissed(o)
  BY <1>8 DEF ReadyMissed
<1>9. CASE AbandonOrphan(o)
  BY <1>9 DEF AbandonOrphan
<1>10. CASE CheckDeadline(o)
  BY <1>10 DEF CheckDeadline
<1>11. CASE CommittedSeen(o)
  BY <1>11 DEF CommittedSeen
<1>12. CASE ExistingSeen(o)
  BY <1>12 DEF ExistingSeen
<1>13. CASE SendPayment(o)
  BY <1>13 DEF SendPayment
<1>14. CASE ForwardPaid(o)
  BY <1>14 DEF ForwardPaid
<1>15. CASE ForwardAgain(o)
  BY <1>15 DEF ForwardAgain
<1>16. CASE ForwardFailed(o)
  BY <1>16 DEF ForwardFailed
<1>17. CASE Observe(o)
  BY <1>17 DEF Observe
<1>18. CASE Try(o)
  BY <1>18 DEF Try, TryFrom
<1>19. CASE Retry(o)
  BY <1>19 DEF Retry
<1>20. CASE Cancel(o)
  BY <1>20 DEF Cancel
<1>21. CASE Reveal(o)
  BY <1>21 DEF Reveal
<1> QED
  BY <1>1, <1>2, <1>3, <1>4, <1>5, <1>6, <1>7, <1>8, <1>9, <1>10, <1>11,
     <1>12, <1>13, <1>14, <1>15, <1>16, <1>17, <1>18, <1>19, <1>20, <1>21
     DEF RunStep, Request

\* The shared code is late code: it goes on to no place before the opening.
LEMMA SharedOnward ==
  ASSUME TypeOK, NEW o \in Orders, NEW h \in Handlers, SharedStep(o, h)
  PROVE  \A q \in Orders : Onward(q)
<1> USE GotoOnward DEF FreshPcs
<1>1. CASE AskPayment(o, h)
  <2>1. PICK x \in PaymentReads :
            pc[o][h] = x[1] /\ \E r \in PaymentAnswers(o) : Answer(o, h, r, x[2])
    BY <1>1 DEF AskPayment
  <2>2. Goto(o, h, x[2]) /\ pc[o][h] = x[1]
    BY <2>1 DEF Answer
  <2>3. x[1] # "off" /\ x[2] \notin FreshPcs
    BY DEF PaymentReads
  <2> QED
    BY <2>2, <2>3
<1>2. CASE AskPreimage(o, h)
  BY <1>2 DEF AskPreimage, Answer
<1>3. CASE PreimageRead(o, h)
  BY <1>3 DEF PreimageRead, TryFrom
<1>4. CASE PreimageUnread(o, h)
  BY <1>4 DEF PreimageUnread, AfterTry
<1>5. CASE PaidSeen(o, h)
  BY <1>5 DEF PaidSeen, AfterTry
<1>6. CASE SettleInvoice(o, h)
  BY <1>6 DEF SettleInvoice, Answer
<1>7. CASE SettleDone(o, h)
  BY <1>7 DEF SettleDone, AfterTry
<1>8. CASE CancelInvoice(o, h)
  BY <1>8 DEF CancelInvoice
<1>9. CASE CancelDone(o, h)
  BY <1>9 DEF CancelDone
<1> QED
  BY <1>1, <1>2, <1>3, <1>4, <1>5, <1>6, <1>7, <1>8, <1>9 DEF SharedStep

\* Steps in which every run() goes onward, and no channel is opened, keep it.
LEMMA OnwardKeeps ==
  ASSUME StartInv, UNCHANGED <<process, opens>>, \A q \in Orders : Onward(q)
  PROVE  StartInv'
<1> QED
  BY DEF StartInv, Onward, process

\* A death pays for one more channel.
LEMMA DeathKeeps ==
  ASSUME TypeOK, StartInv, Die, opens' = opens
  PROVE  StartInv'
<1>1. \A o \in Orders : pc'[o]["run"] = "off"
  BY DEF Die, Started, Handlers
<1>2. crashes \in Nat /\ crashes' = crashes + 1 /\ \A o \in Orders : opens[o] \in Nat
  BY DEF TypeOK, Die
<1> QED
  BY <1>1, <1>2 DEF StartInv, FreshPcs

\* Every step keeps the count of channels within that of the starts.
LEMMA StartStep == TypeOK /\ StartInv /\ [Next]_vars => StartInv'
<1> SUFFICES ASSUME TypeOK, StartInv, [Next]_vars PROVE StartInv'
  OBVIOUS
<1> USE DEF stored, volatile, process, escrowed, channels, node
<1>1. ASSUME NEW o \in Orders, OpenChannel(o) PROVE StartInv'
  <2>1. \A q \in Orders : Onward(q)
    BY <1>1, StepsOnward DEF RunStep
  <2>2. CASE UNCHANGED opens
    BY <1>1, <2>1, <2>2, OnwardKeeps DEF OpenChannel
  <2>3. CASE opens' = [opens EXCEPT ![o] = IF @ = MaxOpens THEN @ ELSE @ + 1]
    <3>1. pc[o]["run"] = "opening" /\ pc'[o]["run"] \in {"awaitReady", "cancelling"}
      BY <1>1, <2>3, PcTypes DEF OpenChannel, Goto, TypeOK
    <3>2. opens[o] <= crashes /\ up
      BY <3>1 DEF StartInv, FreshPcs
    <3>3. /\ crashes \in Nat /\ opens[o] \in Nat
          /\ opens'[o] \in {opens[o], opens[o] + 1}
          /\ \A q \in Orders \ {o} : opens'[q] = opens[q]
      BY <2>3 DEF TypeOK
    <3>4. UNCHANGED process
      BY <1>1 DEF OpenChannel
    <3>5. opens'[o] <= 1 + crashes
      BY <3>2, <3>3
    <3>6. pc'[o]["run"] \notin FreshPcs
      BY <3>1 DEF FreshPcs
    <3> QED
      BY <2>1, <3>2, <3>3, <3>4, <3>5, <3>6 DEF StartInv, Onward
  <2> QED
    BY <1>1, <2>2, <2>3 DEF OpenChannel
<1>2. ASSUME NEW o \in Orders, RunStep(o) \/ Request(o), ~OpenChannel(o)
      PROVE  StartInv'
  <2>1. UNCHANGED <<process, opens>>
    BY <1>2 DEF RunStep, Request, AskHold, HoldSeen, HoldGone, HoldNotSeen,
       TakeOpenLock, ReadySeen, ReadyMissed, AbandonOrphan, CheckDeadline,
       CommittedSeen, ExistingSeen, SendPayment, ForwardPaid, ForwardAgain,
       ForwardFailed, Observe, Try, Retry, Cancel, Reveal
  <2> QED
    BY <1>2, <2>1, StepsOnward, OnwardKeeps
<1>3. ASSUME NEW o \in Orders, NEW h \in Handlers, SharedStep(o, h) PROVE StartInv'
  <2>1. UNCHANGED <<process, opens>>
    BY <1>3 DEF SharedStep, AskPayment, AskPreimage, PreimageRead, PreimageUnread,
       PaidSeen, SettleInvoice, SettleDone, CancelInvoice, CancelDone
  <2> QED
    BY <1>3, <2>1, SharedOnward, OnwardKeeps
<1>4. ASSUME NEW o \in Orders, World(o) PROVE StartInv'
  <2>1. UNCHANGED <<process, opens, pc>>
    BY <1>4 DEF World, CustomerPays, HoldLapses, ChannelReady, PaymentStarts,
       PaymentEnds, Tick
  <2> QED
    BY <2>1, OnwardKeeps DEF Onward
<1>5. CASE Crash
  BY <1>5, DeathKeeps DEF Crash
<1>6. ASSUME NEW o \in Orders, CrashAfterHeld(o) PROVE StartInv'
  BY <1>6, DeathKeeps DEF CrashAfterHeld
<1>7. CASE Boot
  <2>1. ~up /\ up' /\ UNCHANGED <<crashes, opens>>
    BY <1>7 DEF Boot
  <2>2. \A o \in Orders : opens[o] <= crashes
    BY <2>1 DEF StartInv
  <2>3. crashes \in Nat /\ \A o \in Orders : opens[o] \in Nat
    BY DEF TypeOK
  <2> QED
    BY <2>1, <2>2, <2>3 DEF StartInv
<1>8. CASE UNCHANGED vars
  BY <1>8, OnwardKeeps DEF vars, Onward
<1> QED
  BY <1>1, <1>2, <1>3, <1>4, <1>5, <1>6, <1>7, <1>8 DEF Next

\* However often the process dies and whatever fails, the LSP opens at most one
\* channel for an order per start of the process (openChannelAndAwait).
THEOREM OneChannelPerStart == Spec => []OpensPerStart
<1>1. Init => StartInv
  <2> SUFFICES ASSUME Init PROVE StartInv
    OBVIOUS
  <2>1. up = TRUE /\ crashes = 0 /\ \A o \in Orders : opens[o] = 0
    BY DEF Init
  <2>2. 0 <= 0 /\ 0 <= 1 + 0
    OBVIOUS
  <2> QED
    BY <2>1, <2>2, Zenon DEF StartInv
<1>2. TypeOK /\ StartInv /\ [Next]_vars => StartInv'
  BY StartStep
<1>3. StartInv => OpensPerStart
  BY DEF StartInv, OpensPerStart
<1> QED
  BY <1>1, <1>2, <1>3, TypeCorrect, PTL DEF Spec

-----------------------------------------------------------------------------
(* With some faults left out                                                *)

\* No call fails, no budget is outrun and nobody cancels; and the process does
\* not die while a payment the node took may still be only Created.
Careful ==
    /\ Faults \cap {"cancel", "rpc", "slow"} = {}
    /\ ~({"crash", "queued"} \subseteq Faults)

\* The places of run() before its forward, and in it before it has paid.
BeforePcs == {"askHold", "gotHold", "waitLock"} \cup OpenPcs
UnsentPcs == {"checkDeadline", "askCommitted", "gotCommitted", "askExisting",
              "gotExisting", "sending"}

\* The money is locked while the hold is held, and taken of honest orders only.
Agrees(o) ==
    /\ payer[o] = "locked" => hold[o] = "Received"
    /\ hold[o] = "Open" => payer[o] = "unpaid"
    /\ payer[o] = "taken" => Linked(o)

\* Only run() cancels a hold; a dead process runs nothing.
RunCancels(o) ==
    /\ pc[o]["cancel"] = "off"
    /\ pc[o]["reveal"] \notin {"askPreimage", "gotPreimage", "cancelling", "gotCancel"}
    /\ ~up => "crash" \in Faults /\ pc[o]["run"] = "off"
    /\ pc[o]["run"] = "gotHold" /\ reply[o]["run"] = "Cancelled"
         => hold[o] = "Cancelled"

\* The merchant's payment is sent in forwarding only, and what run() has read
\* of it stays true where run() acts on it.
SentRight(o) ==
    /\ pay[o] # "None" \/ pc[o]["run"] \in UnsentPcs
         => state[o] \notin {"created", "payment_held", "opening"}
    /\ pc[o]["run"] \in BeforePcs => pay[o] = "None"
    /\ pay[o] = "Created" => "crash" \notin Faults /\ pc[o]["run"] \notin UnsentPcs
    /\ pc[o]["run"] \in {"gotCommitted", "gotExisting"}
         /\ reply[o]["run"] \notin {"Success", "Inflight"}
         => pay[o] \in {"None", "Failed"}
    /\ pc[o]["run"] = "gotExisting" /\ reply[o]["run"] = "Success"
         => pay[o] = "Success"
    /\ pc[o]["run"] = "sending" => pay[o] \in {"None", "Failed"}
    /\ pc[o]["run"] = "gotForward" /\ reply[o]["run"] \in {"Success", "Failed"}
         => pay[o] = reply[o]["run"]
    /\ pc[o]["run"] \in SettlePcs \cup {"observing"} => pay[o] = "Success"
    /\ pc[o]["run"] = "gotPaid" => reply[o]["run"] = "Success"
    /\ Linked(o) /\ pc[o]["run"] = "cancelling" => pay[o] \in {"None", "Failed"}

\* What is refunded, or about to be called so, is released.
Freed(o) ==
    pc[o]["run"] = "gotCancel" \/ state[o] = "refunded"
      => payer[o] \in {"unpaid", "returned"} /\ hold[o] # "Open"

RefundInv(o) == Agrees(o) /\ RunCancels(o) /\ SentRight(o) /\ Freed(o)

-----------------------------------------------------------------------------
(* Which orders a step touches *)

\* Everything that is kept of an order.
Untouched(q) ==
    /\ Same(q)
    /\ preimage'[q] = preimage[q] /\ armed'[q] = armed[q] /\ phase'[q] = phase[q]

\* Every step but a crash and a boot is a step of one order, which leaves all
\* other orders and the process alone.
LEMMA OneOrderSteps ==
  ASSUME TypeOK, NEW o \in Orders,
         \/ RunStep(o) \/ Request(o) \/ World(o)
         \/ \E h \in Handlers : SharedStep(o, h)
  PROVE  UNCHANGED process /\ \A q \in Orders \ {o} : Untouched(q)
<1> USE DEF Untouched, Same, TypeOK, Goto, Answer, Become, stored, volatile,
            escrowed, channels, node
<1>1. CASE RunStep(o)
  <2>1. CASE AskHold(o)
    BY <2>1 DEF AskHold
  <2>2. CASE HoldSeen(o)
    BY <2>2 DEF HoldSeen
  <2>3. CASE HoldGone(o)
    BY <2>3 DEF HoldGone
  <2>4. CASE HoldNotSeen(o)
    BY <2>4 DEF HoldNotSeen
  <2>5. CASE TakeOpenLock(o)
    BY <2>5 DEF TakeOpenLock
  <2>6. CASE OpenChannel(o)
    BY <2>6 DEF OpenChannel
  <2>7. CASE ReadySeen(o)
    BY <2>7 DEF ReadySeen
  <2>8. CASE ReadyMissed(o)
    BY <2>8 DEF ReadyMissed
  <2>9. CASE AbandonOrphan(o)
    BY <2>9 DEF AbandonOrphan
  <2>10. CASE CheckDeadline(o)
    BY <2>10 DEF CheckDeadline
  <2>11. CASE CommittedSeen(o)
    BY <2>11 DEF CommittedSeen
  <2>12. CASE ExistingSeen(o)
    BY <2>12 DEF ExistingSeen
  <2>13. CASE SendPayment(o)
    BY <2>13 DEF SendPayment
  <2>14. CASE ForwardPaid(o)
    BY <2>14 DEF ForwardPaid
  <2>15. CASE ForwardAgain(o)
    BY <2>15 DEF ForwardAgain
  <2>16. CASE ForwardFailed(o)
    BY <2>16 DEF ForwardFailed
  <2>17. CASE Observe(o)
    BY <2>17 DEF Observe
  <2>18. CASE Try(o)
    BY <2>18 DEF Try
  <2>19. CASE Retry(o)
    BY <2>19 DEF Retry
  <2> QED
    BY <1>1, <2>1, <2>2, <2>3, <2>4, <2>5, <2>6, <2>7, <2>8, <2>9, <2>10, <2>11,
       <2>12, <2>13, <2>14, <2>15, <2>16, <2>17, <2>18, <2>19 DEF RunStep
<1>2. CASE Request(o)
  BY <1>2 DEF Request, Cancel, Reveal
<1>3. CASE World(o)
  BY <1>3 DEF World, CustomerPays, HoldLapses, ChannelReady, PaymentStarts,
     PaymentEnds, Tick
<1>4. ASSUME NEW h \in Handlers, SharedStep(o, h)
      PROVE  UNCHANGED process /\ \A q \in Orders \ {o} : Untouched(q)
  <2>1. CASE AskPayment(o, h)
    BY <2>1 DEF AskPayment
  <2>2. CASE AskPreimage(o, h) \/ PreimageRead(o, h) \/ PreimageUnread(o, h)
    BY <2>2 DEF AskPreimage, PreimageRead, PreimageUnread
  <2>3. CASE PaidSeen(o, h) \/ SettleInvoice(o, h) \/ SettleDone(o, h)
    BY <2>3 DEF PaidSeen, SettleInvoice, SettleDone
  <2>4. CASE CancelInvoice(o, h) \/ CancelDone(o, h)
    BY <2>4 DEF CancelInvoice, CancelDone
  <2> QED
    BY <1>4, <2>1, <2>2, <2>3, <2>4 DEF SharedStep
<1> QED
  BY <1>1, <1>2, <1>3, <1>4

-----------------------------------------------------------------------------
(* Expired orders *)

\* An order that is still waited for, or was given up, has cost nothing, and no
\* handler of it is past the wait: that is what expiry rests on (waitForHold).
Unspent(o) ==
    (\/ state[o] \in {"created", "expired"}
     \/ pc[o]["run"] \in {"askHold", "gotHold"})
    => /\ opens[o] = 0 /\ pay[o] = "None"
       /\ state[o] \in {"created", "refunded", "expired"}
       /\ \A h \in Handlers : pc[o][h] \in EarlyPcs

\* A step of run() keeps it: only HoldGone calls an order expired, from the wait.
LEMMA RunUnspent ==
  ASSUME TypeOK, NEW o \in Orders, Unspent(o), RunStep(o)
  PROVE  Unspent(o)'
<1> USE DEF TypeOK, Unspent, Goto, Answer, Become, Handlers, EarlyPcs,
            stored, volatile, process, escrowed, channels, node
<1>1. CASE AskHold(o)
  BY <1>1 DEF AskHold
<1>2. CASE HoldSeen(o)
  BY <1>2 DEF HoldSeen
<1>3. CASE HoldGone(o)
  BY <1>3 DEF HoldGone
<1>4. CASE HoldNotSeen(o)
  BY <1>4 DEF HoldNotSeen
<1>5. CASE TakeOpenLock(o)
  BY <1>5 DEF TakeOpenLock
<1>6. CASE OpenChannel(o)
  BY <1>6 DEF OpenChannel
<1>7. CASE ReadySeen(o)
  BY <1>7 DEF ReadySeen
<1>8. CASE ReadyMissed(o)
  BY <1>8 DEF ReadyMissed
<1>9. CASE AbandonOrphan(o)
  BY <1>9 DEF AbandonOrphan
<1>10. CASE CheckDeadline(o)
  BY <1>10 DEF CheckDeadline
<1>11. CASE CommittedSeen(o)
  BY <1>11 DEF CommittedSeen
<1>12. CASE ExistingSeen(o)
  BY <1>12 DEF ExistingSeen
<1>13. CASE SendPayment(o)
  BY <1>13 DEF SendPayment
<1>14. CASE ForwardPaid(o)
  BY <1>14 DEF ForwardPaid
<1>15. CASE ForwardAgain(o)
  BY <1>15 DEF ForwardAgain
<1>16. CASE ForwardFailed(o)
  BY <1>16 DEF ForwardFailed
<1>17. CASE Observe(o)
  BY <1>17 DEF Observe
<1>18. CASE Try(o)
  BY <1>18 DEF Try, TryFrom
<1>19. CASE Retry(o)
  BY <1>19 DEF Retry
<1> QED
  <2> HIDE DEF TypeOK, Unspent, Goto, Answer, Become, Handlers, EarlyPcs,
           stored, volatile, process, escrowed, channels, node
  <2> QED
    BY <1>1, <1>2, <1>3, <1>4, <1>5, <1>6, <1>7, <1>8, <1>9, <1>10, <1>11, <1>12,
       <1>13, <1>14, <1>15, <1>16, <1>17, <1>18, <1>19 DEF RunStep

\* So does every other step of an order: a cancellation leads from the wait to
\* refunded, a reveal goes nowhere while the order is created, and the nodes
\* move only what run() has set going.
LEMMA OtherUnspent ==
  ASSUME TypeOK, NEW o \in Orders, Unspent(o),
         \/ Request(o) \/ World(o) \/ \E h \in Handlers : SharedStep(o, h)
  PROVE  Unspent(o)'
<1> USE DEF TypeOK, Unspent, Goto, Answer, Become, Handlers, EarlyPcs,
            stored, volatile, process, escrowed, channels, node
<1>1. CASE Cancel(o)
  BY <1>1 DEF Cancel
<1>2. CASE Reveal(o)
  BY <1>2 DEF Reveal, TryFrom, Terminal
<1>3. CASE World(o)
  BY <1>3 DEF World, CustomerPays, HoldLapses, ChannelReady, PaymentStarts,
     PaymentEnds, Tick
<1>4. ASSUME NEW h \in Handlers, AskPayment(o, h) PROVE Unspent(o)'
  <2>1. PICK x \in PaymentReads, r \in PaymentAnswers(o) :
            pc[o][h] = x[1] /\ Answer(o, h, r, x[2])
    BY <1>4 DEF AskPayment
  <2>2. /\ pc[o][h] \notin EarlyPcs
        /\ pc'[o]["run"] \notin {"askHold", "gotHold"} \/ pc'[o]["run"] = pc[o]["run"]
        /\ state' = state
    BY <1>4, <2>1 DEF AskPayment, PaymentReads
  <2> QED
    BY <2>2
<1>5. ASSUME NEW h \in Handlers, AskPreimage(o, h) PROVE Unspent(o)'
  BY <1>5 DEF AskPreimage
<1>6. ASSUME NEW h \in Handlers, PreimageRead(o, h) PROVE Unspent(o)'
  BY <1>6 DEF PreimageRead, TryFrom
<1>7. ASSUME NEW h \in Handlers, PreimageUnread(o, h) PROVE Unspent(o)'
  BY <1>7 DEF PreimageUnread, AfterTry
<1>8. ASSUME NEW h \in Handlers, PaidSeen(o, h) PROVE Unspent(o)'
  BY <1>8 DEF PaidSeen, AfterTry
<1>9. ASSUME NEW h \in Handlers, SettleInvoice(o, h) PROVE Unspent(o)'
  BY <1>9 DEF SettleInvoice
<1>10. ASSUME NEW h \in Handlers, SettleDone(o, h) PROVE Unspent(o)'
  BY <1>10 DEF SettleDone, AfterTry
<1>11. ASSUME NEW h \in Handlers, CancelInvoice(o, h) PROVE Unspent(o)'
  BY <1>11 DEF CancelInvoice
<1>12. ASSUME NEW h \in Handlers, CancelDone(o, h) PROVE Unspent(o)'
  BY <1>12 DEF CancelDone
<1> QED
  <2> HIDE DEF TypeOK, Unspent, Goto, Answer, Become, Handlers, EarlyPcs,
           stored, volatile, process, escrowed, channels, node
  <2> QED
    BY <1>1, <1>2, <1>3, <1>4, <1>5, <1>6, <1>7, <1>8, <1>9, <1>10, <1>11, <1>12
       DEF Request, SharedStep

\* Leaving an order alone keeps its part.
LEMMA UntouchedUnspent ==
  ASSUME NEW q \in Orders, Unspent(q), Untouched(q)
  PROVE  Unspent(q)'
<1> QED
  BY DEF Unspent, Untouched, Same

\* Every step keeps every order's part; a boot waits again only for an order
\* the disk calls created.
LEMMA UnspentStep ==
  ASSUME TypeOK, [Next]_vars, \A o \in Orders : Unspent(o)
  PROVE  \A o \in Orders : Unspent(o)'
<1>1. ASSUME NEW o \in Orders,
             \/ RunStep(o) \/ Request(o) \/ World(o)
             \/ \E h \in Handlers : SharedStep(o, h)
      PROVE  \A q \in Orders : Unspent(q)'
  <2>1. Unspent(o)'
    BY <1>1, RunUnspent, OtherUnspent
  <2> QED
    BY <1>1, <2>1, OneOrderSteps, UntouchedUnspent
<1> USE DEF Unspent, Handlers, EarlyPcs, Started, node
<1>2. ASSUME NEW o \in Orders, CrashAfterHeld(o) PROVE \A q \in Orders : Unspent(q)'
  <2>1. /\ \A q \in Orders : pc'[q] = Started("off")
        /\ \A q \in Orders : state'[q] = IF q = o THEN "payment_held" ELSE state[q]
        /\ UNCHANGED node
    BY <1>2 DEF CrashAfterHeld, Die, Become, TypeOK
  <2> QED
    BY <2>1
<1>3. CASE Crash
  <2>1. /\ \A q \in Orders : pc'[q] = Started("off")
        /\ UNCHANGED <<state, node>>
    BY <1>3 DEF Crash, Die, stored
  <2> QED
    BY <2>1
<1>4. CASE Boot
  <2> SUFFICES ASSUME NEW q \in Orders PROVE Unspent(q)'
    OBVIOUS
  <2>1. /\ pc'[q] = Started(EntryPc(state[q]))
        /\ state'[q] = EntryState(state[q])
        /\ UNCHANGED <<opens, pay>>
    BY <1>4 DEF Boot
  <2>2. /\ EntryPc(state[q]) \in {"askHold", "gotHold"} => state[q] = "created"
        /\ EntryState(state[q]) \in {"created", "expired"} => EntryState(state[q]) = state[q]
        /\ state[q] \in {"created", "expired"} => EntryPc(state[q]) \in {"askHold", "off"}
    BY DEF EntryPc, EntryState
  <2>3. /\ pc'[q]["run"] = EntryPc(state[q])
        /\ \A h \in Handlers : h # "run" => pc'[q][h] = "off"
    BY <2>1
  <2>4. ASSUME state'[q] \in {"created", "expired"} \/ pc'[q]["run"] \in {"askHold", "gotHold"}
        PROVE  /\ state[q] \in {"created", "expired"}
               /\ state'[q] = state[q]
               /\ \A h \in Handlers : pc'[q][h] \in {"askHold", "off"}
    BY <2>1, <2>2, <2>3, <2>4 DEF EntryState
  <2> QED
    BY <2>1, <2>4
<1>5. CASE UNCHANGED vars
  BY <1>5 DEF vars
<1> QED
  BY <1>1, <1>2, <1>3, <1>4, <1>5 DEF Next

\* Under every fault, and with every race of cancel() and reveal() against the
\* last poll, an expired order has opened no channel, sent no payment and taken
\* no money (waitForHold).
THEOREM ExpiredIsFree == Spec => []ExpiredTookNothing
<1> DEFINE Kept == \A o \in Orders : Unspent(o)
<1>1. Init => Kept
  BY DEF Init, Unspent, Started, Handlers, EarlyPcs
<1>2. TypeOK /\ Kept /\ [Next]_vars => Kept'
  BY UnspentStep
<1>3. Kept /\ MerchantPaidFirst => ExpiredTookNothing
  BY DEF Unspent, MerchantPaidFirst, ExpiredTookNothing
<1> HIDE DEF Kept
<1> QED
  BY <1>1, <1>2, <1>3, TypeCorrect, NoSettlementWithoutPayment, PTL DEF Spec

\* Under every fault the orderings of run and trySettle hold together: hold
\* before capital, merchant payment before settlement, settled only when paid
\* out, expired only when nothing was spent.
THEOREM EffectsOrdered == Spec => []EffectsInOrder
  BY NoSettlementWithoutPayment, NoCapitalWithoutHold, SettledMeansPaid,
     ExpiredIsFree, PTL DEF EffectsInOrder

-----------------------------------------------------------------------------
(* Refunds *)

\* Leaving an order alone keeps its part of the invariant.
LEMMA UntouchedFreed ==
  ASSUME NEW q \in Orders, RefundInv(q), Untouched(q), UNCHANGED process
  PROVE  RefundInv(q)'
<1> QED
  BY DEF RefundInv, Agrees, RunCancels, SentRight, Freed, Untouched, Same, process,
     Linked

-----------------------------------------------------------------------------
\* A step of run() keeps its order's part (RunStep).
LEMMA RunFreed ==
  ASSUME Careful, IndInv, IndInv', NEW o \in Orders, RefundInv(o), RunStep(o)
  PROVE  RefundInv(o)'
<1> USE DEF Careful, IndInv, OrderInv, HoldAgrees, Backed, Proven, TypeOK,
            RefundInv, Agrees, RunCancels, SentRight, Freed, Goto, Answer, Become,
            Linked, Handlers, EarlyPcs, BeforePcs, UnsentPcs, OpenPcs, SettlePcs,
            stored, volatile, process, escrowed, channels, node
<1>1. CASE AskHold(o)
  BY <1>1 DEF AskHold, RpcError
<1>2. CASE HoldSeen(o)
  BY <1>2 DEF HoldSeen
<1>3. CASE HoldGone(o)
  BY <1>3 DEF HoldGone
<1>4. CASE HoldNotSeen(o)
  BY <1>4 DEF HoldNotSeen
<1>5. CASE TakeOpenLock(o)
  BY <1>5 DEF TakeOpenLock
<1>6. CASE OpenChannel(o)
  BY <1>6 DEF OpenChannel
<1>7. CASE ReadySeen(o)
  BY <1>7 DEF ReadySeen
<1>8. CASE ReadyMissed(o)
  BY <1>8 DEF ReadyMissed
<1>9. CASE AbandonOrphan(o)
  BY <1>9 DEF AbandonOrphan
<1>10. CASE CheckDeadline(o)
  BY <1>10 DEF CheckDeadline
<1>11. CASE CommittedSeen(o)
  BY <1>11 DEF CommittedSeen
<1>12. CASE ExistingSeen(o)
  BY <1>12 DEF ExistingSeen
<1>13. CASE SendPayment(o)
  BY <1>13 DEF SendPayment
<1>14. CASE ForwardPaid(o)
  BY <1>14 DEF ForwardPaid
<1>15. CASE ForwardAgain(o)
  BY <1>15 DEF ForwardAgain
<1>16. CASE ForwardFailed(o)
  BY <1>16 DEF ForwardFailed
<1>17. CASE Observe(o)
  BY <1>17 DEF Observe
<1>18. CASE Try(o)
  BY <1>18 DEF Try, TryFrom
<1>19. CASE Retry(o)
  BY <1>19 DEF Retry
<1> QED
  <2> HIDE DEF IndInv, OrderInv, HoldAgrees, Backed, Proven, TypeOK, RefundInv, Agrees,
           RunCancels, SentRight, Freed, Goto, Answer, Become, Handlers, EarlyPcs,
           BeforePcs, UnsentPcs, OpenPcs, SettlePcs, stored, volatile, process,
           escrowed, channels, node
  <2> QED
    BY <1>1, <1>2, <1>3, <1>4, <1>5, <1>6, <1>7, <1>8, <1>9, <1>10, <1>11, <1>12,
       <1>13, <1>14, <1>15, <1>16, <1>17, <1>18, <1>19 DEF RunStep

\* Every other step of an order keeps its part.
LEMMA OtherFreed ==
  ASSUME Careful, IndInv, IndInv', NEW o \in Orders, RefundInv(o),
         \/ Request(o) \/ World(o) \/ \E h \in Handlers : SharedStep(o, h)
  PROVE  RefundInv(o)'
<1> USE DEF Careful, IndInv, OrderInv, HoldAgrees, Backed, Proven, TypeOK,
            RefundInv, Agrees, RunCancels, SentRight, Freed, Goto, Answer, Become,
            Linked, Handlers, EarlyPcs, BeforePcs, UnsentPcs, OpenPcs, SettlePcs,
            stored, volatile, process, escrowed, channels, node
<1>1. CASE Cancel(o)
  BY <1>1 DEF Cancel
<1>2. CASE Reveal(o)
  BY <1>2 DEF Reveal, TryFrom
<1>3. CASE CustomerPays(o)
  BY <1>3 DEF CustomerPays
<1>4. CASE HoldLapses(o)
  BY <1>4 DEF HoldLapses
<1>5. CASE ChannelReady(o)
  BY <1>5 DEF ChannelReady
<1>6. CASE PaymentStarts(o)
  BY <1>6 DEF PaymentStarts
<1>7. CASE PaymentEnds(o)
  BY <1>7 DEF PaymentEnds
<1>8. CASE Tick(o)
  BY <1>8 DEF Tick
<1>9. ASSUME NEW h \in Handlers, AskPayment(o, h) PROVE RefundInv(o)'
  <2>1. PICK x \in PaymentReads, r \in PaymentAnswers(o) :
            pc[o][h] = x[1] /\ Answer(o, h, r, x[2])
    BY <1>9 DEF AskPayment
  <2>2. /\ r = IF pay[o] = "None" THEN "error" ELSE pay[o]
        /\ UNCHANGED <<state, up, hold, payer, pay>>
    BY <1>9, <2>1 DEF AskPayment, PaymentAnswers, RpcError
  <2>3. /\ h \in {"run", "reveal"}
        /\ \A k \in Handlers \ {h} : pc'[o][k] = pc[o][k] /\ reply'[o][k] = reply[o][k]
    BY <2>1 DEF PaymentReads
  <2>4. \/ pc[o][h] = "askCommitted" /\ pc'[o][h] = "gotCommitted"
        \/ pc[o][h] = "askExisting" /\ pc'[o][h] = "gotExisting"
        \/ pc[o][h] = "askForward" /\ pc'[o][h] = "gotForward"
        \/ pc[o][h] = "askPaid" /\ pc'[o][h] = "gotPaid"
    BY <2>1 DEF PaymentReads
  <2>5. /\ reply'[o][h] = r
        /\ pay[o] \in {"None", "Created", "Inflight", "Success", "Failed"}
    BY <2>1 DEF PayStatus
  <2> HIDE DEF IndInv, Goto
  <2> QED
    BY <2>2, <2>3, <2>4, <2>5
<1>10. ASSUME NEW h \in Handlers, AskPreimage(o, h) PROVE RefundInv(o)'
  BY <1>10 DEF AskPreimage
<1>11. ASSUME NEW h \in Handlers, PreimageRead(o, h) PROVE RefundInv(o)'
  <2>1. h = "run" /\ pc[o]["run"] = "gotPreimage" /\ pay[o] = "Success"
    BY <1>11 DEF PreimageRead
  <2>2. /\ state'[o] = "forwarding"
        /\ UNCHANGED <<reply, up, hold, payer, pay>>
    BY <1>11 DEF PreimageRead
  <2>3. /\ pc'[o]["run"] = IF Linked(o) THEN "askPaid" ELSE "cancelling"
        /\ pc'[o]["reveal"] = pc[o]["reveal"] /\ pc'[o]["cancel"] = pc[o]["cancel"]
    BY <1>11, <2>1 DEF PreimageRead, TryFrom
  <2> HIDE DEF IndInv, Goto
  <2> QED
    BY <2>1, <2>2, <2>3
<1>12. ASSUME NEW h \in Handlers, PreimageUnread(o, h) PROVE RefundInv(o)'
  BY <1>12 DEF PreimageUnread, AfterTry
<1>13. ASSUME NEW h \in Handlers, PaidSeen(o, h) PROVE RefundInv(o)'
  BY <1>13 DEF PaidSeen, AfterTry
<1>14. ASSUME NEW h \in Handlers, SettleInvoice(o, h) PROVE RefundInv(o)'
  BY <1>14 DEF SettleInvoice, RpcError
<1>15. ASSUME NEW h \in Handlers, SettleDone(o, h) PROVE RefundInv(o)'
  BY <1>15 DEF SettleDone, AfterTry
<1>16. ASSUME NEW h \in Handlers, CancelInvoice(o, h) PROVE RefundInv(o)'
  BY <1>16 DEF CancelInvoice
<1>17. ASSUME NEW h \in Handlers, CancelDone(o, h) PROVE RefundInv(o)'
  BY <1>17 DEF CancelDone
<1> QED
  <2> HIDE DEF IndInv, OrderInv, HoldAgrees, Backed, Proven, TypeOK, RefundInv, Agrees,
           RunCancels, SentRight, Freed, Goto, Answer, Become, Handlers, EarlyPcs,
           BeforePcs, UnsentPcs, OpenPcs, SettlePcs, stored, volatile, process,
           escrowed, channels, node
  <2> QED
    BY <1>1, <1>2, <1>3, <1>4, <1>5, <1>6, <1>7, <1>8, <1>9, <1>10, <1>11, <1>12,
       <1>13, <1>14, <1>15, <1>16, <1>17 DEF Request, World, SharedStep

\* Every step keeps every order's part; a death forgets what run() knew, and a
\* boot sends no order whose payment was sent back to before its forward.
LEMMA RefundStep ==
  ASSUME Careful, IndInv, IndInv', [Next]_vars, \A o \in Orders : RefundInv(o)
  PROVE  \A o \in Orders : RefundInv(o)'
<1>t. TypeOK
  BY DEF IndInv
<1>1. ASSUME NEW o \in Orders,
             \/ RunStep(o) \/ Request(o) \/ World(o)
             \/ \E h \in Handlers : SharedStep(o, h)
      PROVE  \A q \in Orders : RefundInv(q)'
  <2>1. RefundInv(o)'
    BY <1>1, RunFreed, OtherFreed
  <2> QED
    BY <1>1, <1>t, <2>1, OneOrderSteps, UntouchedFreed
<1> USE DEF RefundInv, Agrees, RunCancels, SentRight, Freed, Linked, Handlers,
            BeforePcs, UnsentPcs, OpenPcs, SettlePcs
<1>2. ASSUME NEW o \in Orders, CrashAfterHeld(o) PROVE \A q \in Orders : RefundInv(q)'
  <2>1. /\ "crash" \in Faults /\ up' = FALSE
        /\ \A q \in Orders : pc'[q] = Started("off")
        /\ \A q \in Orders : state'[q] = IF q = o THEN "payment_held" ELSE state[q]
        /\ UNCHANGED node
    BY <1>2, <1>t DEF CrashAfterHeld, Die, Become, TypeOK
  <2>2. pc[o]["run"] = "gotHold"
    BY <1>2 DEF CrashAfterHeld
  <2> QED
    BY <2>1, <2>2 DEF Started, node
<1>3. CASE Crash
  <2>1. /\ "crash" \in Faults /\ up' = FALSE
        /\ \A q \in Orders : pc'[q] = Started("off")
        /\ UNCHANGED <<state, node>>
    BY <1>3 DEF Crash, Die, stored
  <2> QED
    BY <2>1 DEF Started, node
<1>4. CASE Boot
  <2> SUFFICES ASSUME NEW q \in Orders PROVE RefundInv(q)'
    OBVIOUS
  <2>1. up' /\ "crash" \in Faults
    BY <1>4 DEF Boot
  <2>2. /\ pc'[q]["cancel"] = "off" /\ pc'[q]["reveal"] = "off"
        /\ pc'[q]["run"] = EntryPc(state[q])
        /\ state'[q] = EntryState(state[q])
        /\ UNCHANGED <<reply, hold, payer, pay>>
    BY <1>4 DEF Boot, Started, node
  <2>3. EntryPc(state[q]) = IF state[q] = "created" THEN "askHold"
                            ELSE IF state[q] \in {"payment_held", "opening"} THEN "waitLock"
                            ELSE IF state[q] = "forwarding" THEN "checkDeadline" ELSE "off"
    BY DEF EntryPc
  <2> QED
    BY <2>1, <2>2, <2>3 DEF EntryState
<1>5. CASE UNCHANGED vars
  BY <1>5 DEF vars
<1> QED
  BY <1>1, <1>2, <1>3, <1>4, <1>5 DEF Next

\* No order has done anything yet.
LEMMA RefundInit == Init => \A o \in Orders : RefundInv(o)
<1> SUFFICES ASSUME Init, NEW o \in Orders PROVE RefundInv(o)
  OBVIOUS
<1>1. /\ up /\ state[o] = "created" /\ pay[o] = "None"
      /\ hold[o] = "Open" /\ payer[o] = "unpaid"
  BY DEF Init
<1>2. /\ pc[o]["run"] = "askHold"
      /\ pc[o]["reveal"] = "off" /\ pc[o]["cancel"] = "off"
  BY DEF Init, Started, Handlers
<1> QED
  BY <1>1, <1>2 DEF RefundInv, Agrees, RunCancels, SentRight, Freed, BeforePcs,
     UnsentPcs, OpenPcs, SettlePcs

\* The invariant of refunds holds of every careful behaviour of the engine.
LEMMA RefundsInductive == ASSUME Careful PROVE Spec => [](\A o \in Orders : RefundInv(o))
<1>1. IndInv /\ IndInv' /\ (\A o \in Orders : RefundInv(o)) /\ [Next]_vars
        => (\A o \in Orders : RefundInv(o))'
  BY RefundStep
<1> QED
  BY <1>1, RefundInit, Inductive, PTL DEF Spec

\* In every careful instance, however often the process dies, whatever events
\* are missed and whoever forges, an order stored as refunded has its
\* customer's money free (refund and the tail of cancel).
THEOREM RefundsRelease == Careful => (Spec => []RefundedIsReleased)
<1> SUFFICES ASSUME Careful PROVE Spec => []RefundedIsReleased
  OBVIOUS
<1>1. (\A o \in Orders : RefundInv(o)) => RefundedIsReleased
  BY DEF RefundInv, Freed, RefundedIsReleased
<1> QED
  BY <1>1, RefundsInductive, PTL

\* In every careful instance no step cancels the hold of an honest merchant
\* whose payment is in flight or made (merchantCommitted, refund).
THEOREM CommittedNotRefunded == Careful => (Spec => NeverRefundCommitted)
<1> SUFFICES ASSUME Careful PROVE Spec => NeverRefundCommitted
  OBVIOUS
<1> DEFINE Safe == \A o \in Honest : hold[o] # "Cancelled" /\ hold'[o] = "Cancelled"
                                    => pay[o] \notin {"Inflight", "Success"}
<1>1. ASSUME IndInv, \A o \in Orders : RefundInv(o), [Next]_vars PROVE Safe
  <2> SUFFICES ASSUME NEW q \in Honest, hold[q] # "Cancelled", hold'[q] = "Cancelled"
               PROVE  pay[q] \in {"None", "Failed"}
    OBVIOUS
  <2>q. q \in Orders /\ Linked(q) /\ TypeOK
    BY <1>1 DEF Honest, Linked, IndInv
  <2> USE DEF stored, volatile, process, escrowed, channels, node
  <2>1. ASSUME NEW o \in Orders, RunStep(o) \/ Request(o) PROVE hold' = hold
    BY <2>1 DEF RunStep, Request, AskHold, HoldSeen, HoldGone, HoldNotSeen,
       TakeOpenLock, OpenChannel, ReadySeen, ReadyMissed, AbandonOrphan,
       CheckDeadline, CommittedSeen, ExistingSeen, SendPayment, ForwardPaid,
       ForwardAgain, ForwardFailed, Observe, Try, Retry, Cancel, Reveal
  <2>2. ASSUME NEW o \in Orders, World(o) PROVE hold'[q] # "Cancelled"
    BY <2>2, <2>q DEF World, CustomerPays, HoldLapses, ChannelReady, PaymentStarts,
       PaymentEnds, Tick, TypeOK
  <2>3. ASSUME NEW o \in Orders, NEW h \in Handlers, SharedStep(o, h)
        PROVE  h = "run" /\ o = q /\ pc[o]["run"] = "cancelling"
    <3>1. CASE CancelInvoice(o, h)
      BY <1>1, <3>1, <2>q DEF CancelInvoice, RefundInv, RunCancels, Handlers, TypeOK
    <3>2. CASE SettleInvoice(o, h)
      BY <3>2, <2>q DEF SettleInvoice, TypeOK
    <3>3. hold' = hold \/ CancelInvoice(o, h) \/ SettleInvoice(o, h)
      BY <2>3 DEF SharedStep, AskPayment, AskPreimage, PreimageRead, PreimageUnread,
         PaidSeen, SettleDone, CancelDone
    <3> QED
      BY <3>1, <3>2, <3>3
  <2>4. Crash \/ Boot \/ UNCHANGED vars \/ (\E o \in Orders : CrashAfterHeld(o))
           => hold' = hold
    BY DEF Crash, Boot, CrashAfterHeld, vars
  <2>5. PICK o \in Orders : \E h \in Handlers : SharedStep(o, h)
    BY <1>1, <2>1, <2>2, <2>4 DEF Next
  <2> QED
    BY <1>1, <2>3, <2>5, <2>q DEF RefundInv, SentRight
<1>2. IndInv /\ (\A o \in Orders : RefundInv(o)) /\ [Next]_vars => [Safe]_vars
  BY <1>1
<1> QED
  BY <1>2, RefundsInductive, Inductive, PTL DEF Spec, NeverRefundCommitted

-----------------------------------------------------------------------------
(* The escrow *)

\* No restarts either, and a preimage that is missed can be read.
Prompt ==
    /\ Faults \subseteq {"reveal", "queued", "misses"}
    /\ "misses" \in Faults => PreimageReads = {"preimage"}

\* The places of run() from the payment on.
PayingPcs == {"askForward", "gotForward", "observing"} \cup SettlePcs

\* While run() forwards and settles there is time: the process lives, and a
\* forward and a settlement keep to their budgets.
OnTime(o) ==
    /\ up
    /\ pc[o]["run"] \in ForwardPcs => phase[o] \in {"ample", "close"}
    /\ pc[o]["run"] \in SettlePcs => phase[o] # "over"
    /\ payer[o] = "returned" => phase[o] = "over" \/ pc[o]["run"] \in {"gotCancel", "off"}

\* A payment that was sent is in the hands of run() until the money is taken.
InHand(o) ==
    /\ pay[o] \in {"Created", "Inflight", "Success"}
         => pc[o]["run"] \in PayingPcs \/ payer[o] = "taken"
    /\ pc[o]["run"] \in UnsentPcs => pay[o] = "None"
    /\ pc[o]["run"] \in {"gotCommitted", "gotExisting"} => reply[o]["run"] = "error"
    /\ pc[o]["run"] \in ForwardPcs \cup SettlePcs => payer[o] \in {"locked", "taken"}

\* What run() forwards over is there, and the order is stored as forwarding
\* until a reveal settles it.
Funded(o) ==
    /\ pc[o]["run"] \in UnsentPcs \cup PayingPcs \cup {"awaitReady"} => opens[o] > 0
    /\ pc[o]["run"] \in UnsentPcs \cup PayingPcs
         => state[o] = "forwarding" \/ payer[o] = "taken"

\* run() has the preimage, or reads it, by the time it settles.
Known(o) ==
    /\ "misses" \notin Faults =>
         /\ pc[o]["run"] \in {"sending", "askForward", "gotForward", "observing"}
              => armed[o]
         /\ pc[o]["run"] = "trying" => preimage[o] \/ payer[o] = "taken"
         /\ pc[o]["run"] = "askPreimage" => payer[o] = "taken"
    /\ pc[o]["run"] = "gotPreimage" => reply[o]["run"] = "preimage" \/ payer[o] = "taken"
    /\ pc[o]["run"] \in {"gotSettle", "retrying"} => payer[o] = "taken"

EscrowInv(o) == OnTime(o) /\ InHand(o) /\ Funded(o) /\ Known(o)

\* Leaving an order alone keeps its part of the invariant.
LEMMA UntouchedKept ==
  ASSUME NEW q \in Orders, EscrowInv(q), Untouched(q), UNCHANGED process
  PROVE  EscrowInv(q)'
<1> QED
  BY DEF EscrowInv, OnTime, InHand, Funded, Known, Untouched, Same, process

\* What settle_invoice, the answers of get_payment and time do to an order.
LEMMA SettleChanges ==
  ASSUME Prompt, TypeOK, NEW o \in Honest, NEW h \in Handlers, SettleInvoice(o, h)
  PROVE  /\ pc[o][h] = "settling" /\ pc'[o][h] = "gotSettle"
         /\ \A k \in Handlers \ {h} : pc'[o][k] = pc[o][k] /\ reply'[o][k] = reply[o][k]
         /\ payer'[o] = "taken" \/ (hold[o] # "Received" /\ payer'[o] = payer[o])
         /\ UNCHANGED <<state, preimage, armed, up, opens, pay, phase>>
<1>o. o \in Orders /\ Linked(o) /\ RpcError = {}
  BY DEF Honest, Linked, RpcError, Prompt
<1>1. PICK r : Answer(o, h, r, "gotSettle")
  BY DEF SettleInvoice
<1>2. /\ pc'[o][h] = "gotSettle"
      /\ \A k \in Handlers \ {h} : pc'[o][k] = pc[o][k] /\ reply'[o][k] = reply[o][k]
  BY <1>o, <1>1 DEF TypeOK, Answer, Goto
<1>3. /\ pc[o][h] = "settling"
      /\ UNCHANGED <<state, preimage, armed, up, opens, pay, phase>>
      /\ payer' = [payer EXCEPT ![o] = "taken"] \/ UNCHANGED payer
  BY DEF SettleInvoice, stored, process, channels, escrowed
<1>4. hold[o] = "Received" => payer' = [payer EXCEPT ![o] = "taken"]
  BY <1>o, Zenon DEF SettleInvoice
<1> QED
  BY <1>o, <1>2, <1>3, <1>4 DEF TypeOK

\* A step of run() keeps its order's part (RunStep).
LEMMA RunKept ==
  ASSUME Prompt, IndInv, IndInv', NEW o \in Honest, RefundInv(o), RefundInv(o)',
         EscrowInv(o), RunStep(o)
  PROVE  EscrowInv(o)'
<1>o. o \in Orders /\ Linked(o)
  BY DEF Honest, Linked
<1> USE <1>o
<1>t. TypeOK
  BY DEF IndInv
<1> USE DEF TypeOK, Goto, Answer, Become, Handlers, stored, volatile, process,
            escrowed, channels, node
<1>c. ASSUME CheckDeadline(o)
      PROVE  /\ pc[o]["run"] = "checkDeadline"
             /\ pc'[o]["run"] \in {"askExisting", "askCommitted"}
             /\ pc'[o]["run"] = "askExisting" => phase[o] = "ample"
             /\ UNCHANGED <<state, payer, opens, pay, phase>>
             /\ reply' = reply /\ armed' = armed /\ up' = up
  BY <1>c, <1>t DEF CheckDeadline, Prompt
<1>e. ASSUME ExistingSeen(o)
      PROVE  /\ pc[o]["run"] = "gotExisting"
             /\ pc'[o]["run"] = IF reply[o]["run"] \in {"Success", "Inflight"}
                                THEN "askForward" ELSE "sending"
             /\ reply[o]["run"] = "error" /\ "misses" \notin Faults => armed'[o]
             /\ UNCHANGED <<state, payer, opens, pay, phase>>
             /\ up' = up
  <2>1. PICK a : /\ armed' = [armed EXCEPT ![o] = a]
                 /\ reply[o]["run"] = "error" /\ "misses" \notin Faults => a = TRUE
    BY <1>e DEF ExistingSeen
  <2>2. a = TRUE => armed'[o]
    BY <1>t, <2>1
  <2>3. /\ pc[o]["run"] = "gotExisting"
        /\ pc'[o]["run"] = IF reply[o]["run"] \in {"Success", "Inflight"}
                           THEN "askForward" ELSE "sending"
        /\ UNCHANGED <<state, payer, opens, pay, phase>>
        /\ up' = up
    BY <1>e, <1>t DEF ExistingSeen
  <2> QED
    BY <2>1, <2>2, <2>3
<1> USE DEF Prompt, IndInv, OrderInv, HoldAgrees, Backed, Proven, TypeOK,
            RefundInv, Agrees, RunCancels, SentRight, Freed, Goto, Answer, Become,
            Handlers, EarlyPcs, BeforePcs, UnsentPcs, OpenPcs, SettlePcs, ForwardPcs,
            PayingPcs, EscrowInv, OnTime, InHand, Funded, Known,
            stored, volatile, process, escrowed, channels, node
<1>1. CASE AskHold(o)
  BY <1>1 DEF AskHold, RpcError
<1>2. CASE HoldSeen(o)
  BY <1>2 DEF HoldSeen
<1>3. CASE HoldGone(o)
  BY <1>3 DEF HoldGone
<1>4. CASE HoldNotSeen(o)
  BY <1>4 DEF HoldNotSeen
<1>5. CASE TakeOpenLock(o)
  BY <1>5 DEF TakeOpenLock
<1>6. CASE OpenChannel(o)
  <2>1. /\ pc[o]["run"] = "opening" /\ pc'[o]["run"] \in {"awaitReady", "cancelling"}
        /\ pc'[o]["run"] = "awaitReady" => opens'[o] > 0
    <3>1. CASE opens' = [opens EXCEPT ![o] = IF @ = MaxOpens THEN @ ELSE @ + 1]
      <4>1. \A n \in Nat : (IF n = MaxOpens THEN n ELSE n + 1) > 0
        BY MaxCrashesAssumption DEF MaxOpens
      <4> QED
        BY <1>6, <3>1, <4>1 DEF OpenChannel
    <3>2. CASE Goto(o, "run", "cancelling")
      BY <1>6, <3>2 DEF OpenChannel
    <3> QED
      BY <1>6, <3>1, <3>2 DEF OpenChannel
  <2>2. UNCHANGED <<state, up, payer, pay, phase>>
    BY <1>6 DEF OpenChannel
  <2> HIDE DEF IndInv, Goto
  <2> QED
    BY <2>1, <2>2
<1>7. CASE ReadySeen(o)
  BY <1>7 DEF ReadySeen
<1>8. CASE ReadyMissed(o)
  BY <1>8 DEF ReadyMissed
<1>9. CASE AbandonOrphan(o)
  BY <1>9 DEF AbandonOrphan
<1>10. CASE CheckDeadline(o)
  <2>1. payer[o] \in {"locked", "taken", "returned"}
    BY <1>10, <1>c
  <2> HIDE DEF IndInv, Goto
  <2> QED
    BY <1>10, <1>c, <2>1
<1>11. CASE CommittedSeen(o)
  BY <1>11 DEF CommittedSeen
<1>12. CASE ExistingSeen(o)
  <2> HIDE DEF IndInv, Goto
  <2> QED
    BY <1>12, <1>e
<1>13. CASE SendPayment(o)
  BY <1>13 DEF SendPayment
<1>14. CASE ForwardPaid(o)
  BY <1>14 DEF ForwardPaid
<1>15. CASE ForwardAgain(o)
  BY <1>15 DEF ForwardAgain
<1>16. CASE ForwardFailed(o)
  BY <1>16 DEF ForwardFailed
<1>17. CASE Observe(o)
  <2>1. /\ pc[o]["run"] = "observing" /\ pc'[o]["run"] = "trying"
        /\ UNCHANGED <<state, up, payer, opens, pay, phase>>
    BY <1>17 DEF Observe
  <2>2. "misses" \notin Faults => preimage'[o]
    BY <1>17 DEF Observe
  <2> HIDE DEF IndInv, Goto
  <2> QED
    BY <2>1, <2>2
<1>18. CASE Try(o)
  BY <1>18 DEF Try, TryFrom
<1>19. CASE Retry(o)
  BY <1>19 DEF Retry
<1> QED
  <2> HIDE DEF IndInv, OrderInv, HoldAgrees, Backed, Proven, TypeOK, RefundInv, Agrees,
           RunCancels, SentRight, Freed, Goto, Answer, Become, Handlers, EarlyPcs,
           BeforePcs, UnsentPcs, OpenPcs, SettlePcs, ForwardPcs,
           PayingPcs, EscrowInv, OnTime, InHand, Funded, Known, stored, volatile, process,
           escrowed, channels, node
  <2> QED
    BY <1>1, <1>2, <1>3, <1>4, <1>5, <1>6, <1>7, <1>8, <1>9, <1>10, <1>11, <1>12,
       <1>13, <1>14, <1>15, <1>16, <1>17, <1>18, <1>19 DEF RunStep

\* Every other step of an order keeps its part.
LEMMA OtherKept ==
  ASSUME Prompt, IndInv, IndInv', NEW o \in Honest, RefundInv(o), RefundInv(o)',
         EscrowInv(o),
         \/ Request(o) \/ World(o) \/ \E h \in Handlers : SharedStep(o, h)
  PROVE  EscrowInv(o)'
<1>o. o \in Orders /\ Linked(o)
  BY DEF Honest, Linked
<1> USE <1>o
<1>t. TypeOK
  BY DEF IndInv
<1> USE DEF TypeOK, Goto, Answer, Become, Handlers, stored, volatile, process,
            escrowed, channels, node
<1>d. ASSUME Tick(o)
      PROVE  /\ pc[o]["run"] \in ForwardPcs => phase'[o] = "close"
             /\ phase'[o] = "over" => pc[o]["run"] \notin ForwardPcs \cup SettlePcs
             /\ phase[o] # "over"
             /\ UNCHANGED <<state, pc, reply, payer, opens, pay>>
             /\ preimage' = preimage /\ armed' = armed /\ up' = up
  BY <1>d, <1>t DEF Tick, Prompt
<1>p. ASSUME NEW h \in Handlers, AskPreimage(o, h)
      PROVE  /\ pc[o][h] = "askPreimage" /\ pc'[o][h] = "gotPreimage"
             /\ \A k \in Handlers \ {h} : pc'[o][k] = pc[o][k] /\ reply'[o][k] = reply[o][k]
             /\ pay[o] = "Success" /\ PreimageReads = {"preimage"} => reply'[o][h] = "preimage"
             /\ UNCHANGED <<state, payer, opens, pay, phase>>
             /\ preimage' = preimage /\ armed' = armed /\ up' = up
  BY <1>p, <1>t DEF AskPreimage, Prompt
<1>s. ASSUME NEW h \in Handlers, SettleInvoice(o, h)
      PROVE  /\ pc[o][h] = "settling" /\ pc'[o][h] = "gotSettle"
             /\ h # "run" => pc'[o]["run"] = pc[o]["run"] /\ reply'[o]["run"] = reply[o]["run"]
             /\ payer'[o] = "taken" \/ (hold[o] # "Received" /\ payer'[o] = payer[o])
             /\ UNCHANGED <<state, opens, pay, phase>>
             /\ preimage' = preimage /\ armed' = armed /\ up' = up
  <2> HIDE DEF TypeOK, Goto, Answer, Become, stored, volatile, process, escrowed,
           channels, node
  <2> QED
    BY <1>s, <1>t, SettleChanges
<1> USE DEF Prompt, IndInv, OrderInv, HoldAgrees, Backed, Proven, TypeOK,
            RefundInv, Agrees, RunCancels, SentRight, Freed, Goto, Answer, Become,
            Handlers, EarlyPcs, BeforePcs, UnsentPcs, OpenPcs, SettlePcs, ForwardPcs,
            PayingPcs, EscrowInv, OnTime, InHand, Funded, Known,
            stored, volatile, process, escrowed, channels, node
<1>1. CASE Cancel(o)
  BY <1>1 DEF Cancel
<1>2. CASE Reveal(o)
  BY <1>2 DEF Reveal, TryFrom
<1>3. CASE CustomerPays(o)
  BY <1>3 DEF CustomerPays
<1>4. CASE HoldLapses(o)
  BY <1>4 DEF HoldLapses
<1>5. CASE ChannelReady(o)
  BY <1>5 DEF ChannelReady
<1>6. CASE PaymentStarts(o)
  BY <1>6 DEF PaymentStarts
<1>7. CASE PaymentEnds(o)
  BY <1>7 DEF PaymentEnds
<1>8. CASE Tick(o)
  <2> HIDE DEF IndInv, Goto
  <2> QED
    BY <1>8, <1>d
<1>9. ASSUME NEW h \in Handlers, AskPayment(o, h) PROVE EscrowInv(o)'
  BY <1>9 DEF AskPayment, PaymentReads, PaymentAnswers, RpcError
<1>10. ASSUME NEW h \in Handlers, AskPreimage(o, h) PROVE EscrowInv(o)'
  <2> HIDE DEF IndInv, Goto
  <2> QED
    BY <1>10, <1>p
<1>11. ASSUME NEW h \in Handlers, PreimageRead(o, h) PROVE EscrowInv(o)'
  BY <1>11 DEF PreimageRead, TryFrom, AfterTry
<1>12. ASSUME NEW h \in Handlers, PreimageUnread(o, h) PROVE EscrowInv(o)'
  BY <1>12 DEF PreimageUnread, AfterTry
<1>13. ASSUME NEW h \in Handlers, PaidSeen(o, h) PROVE EscrowInv(o)'
  BY <1>13 DEF PaidSeen, AfterTry
<1>14. ASSUME NEW h \in Handlers, SettleInvoice(o, h) PROVE EscrowInv(o)'
  <2>1. hold[o] # "Received" /\ payer[o] \in {"locked", "taken"} => payer[o] = "taken"
    OBVIOUS
  <2> HIDE DEF IndInv, Goto
  <2>2. CASE h = "run"
    BY <1>14, <1>s, <2>1, <2>2
  <2>3. CASE h # "run"
    <3>1. OnTime(o)'
      BY <1>14, <1>s, <2>3, ZenonT(40)
    <3>2. InHand(o)'
      BY <1>14, <1>s, <2>3, ZenonT(40)
    <3>3. Funded(o)'
      BY <1>14, <1>s, <2>3
    <3>4. Known(o)'
      BY <1>14, <1>s, <2>3
    <3> QED
      BY <3>1, <3>2, <3>3, <3>4 DEF EscrowInv
  <2> QED
    BY <2>2, <2>3
<1>15. ASSUME NEW h \in Handlers, SettleDone(o, h) PROVE EscrowInv(o)'
  BY <1>15 DEF SettleDone, AfterTry
<1>16. ASSUME NEW h \in Handlers, CancelInvoice(o, h) PROVE EscrowInv(o)'
  BY <1>16 DEF CancelInvoice
<1>17. ASSUME NEW h \in Handlers, CancelDone(o, h) PROVE EscrowInv(o)'
  BY <1>17 DEF CancelDone
<1>18. ASSUME NEW h \in Handlers, SharedStep(o, h) PROVE EscrowInv(o)'
  <2> HIDE DEF EscrowInv
  <2> QED
    BY <1>9, <1>10, <1>11, <1>12, <1>13, <1>14, <1>15, <1>16, <1>17, <1>18
       DEF SharedStep
<1> HIDE DEF EscrowInv
<1> QED
  BY <1>1, <1>2, <1>3, <1>4, <1>5, <1>6, <1>7, <1>8, <1>18 DEF Request, World

\* A prompt instance is a careful one.
LEMMA PromptIsCareful == Prompt => Careful
<1> QED
  BY DEF Prompt, Careful

\* Every step keeps the part of every honest order.
LEMMA EscrowStep ==
  ASSUME Prompt, IndInv, IndInv', [Next]_vars,
         \A o \in Orders : RefundInv(o), \A o \in Orders : RefundInv(o)',
         \A o \in Honest : EscrowInv(o)
  PROVE  \A o \in Honest : EscrowInv(o)'
<1> SUFFICES ASSUME NEW q \in Honest PROVE EscrowInv(q)'
  OBVIOUS
<1>q. q \in Orders /\ TypeOK
  BY DEF Honest, IndInv
<1>1. ASSUME NEW o \in Orders,
             \/ RunStep(o) \/ Request(o) \/ World(o)
             \/ \E h \in Handlers : SharedStep(o, h)
      PROVE  EscrowInv(q)'
  <2>1. CASE o = q
    BY <1>1, <1>q, <2>1, RunKept, OtherKept
  <2>2. CASE o # q
    BY <1>1, <1>q, <2>2, OneOrderSteps, UntouchedKept
  <2> QED
    BY <2>1, <2>2
<1>2. ASSUME NEW o \in Orders, CrashAfterHeld(o) PROVE FALSE
  BY <1>2 DEF CrashAfterHeld, Die, Prompt
<1>3. ~Crash
  BY DEF Crash, Die, Prompt
<1>4. ~Boot
  BY DEF Boot, EscrowInv, OnTime
<1>5. CASE UNCHANGED vars
  BY <1>5, <1>q, UntouchedKept DEF vars, Untouched, Same, process
<1> QED
  BY <1>1, <1>2, <1>3, <1>4, <1>5 DEF Next

\* No order has done anything yet, and there is time.
LEMMA EscrowInit == Init => \A o \in Honest : EscrowInv(o)
<1> SUFFICES ASSUME Init, NEW o \in Honest PROVE EscrowInv(o)
  OBVIOUS
<1>1. /\ up /\ state[o] = "created" /\ pay[o] = "None"
      /\ payer[o] = "unpaid" /\ phase[o] = "ample"
  BY DEF Init, Honest
<1>2. pc[o]["run"] = "askHold"
  BY DEF Init, Started, Handlers, Honest
<1> QED
  BY <1>1, <1>2 DEF EscrowInv, OnTime, InHand, Funded, Known, UnsentPcs, PayingPcs,
     ForwardPcs, SettlePcs

\* All that is known of a prompt behaviour.
PromptInv ==
    /\ IndInv
    /\ \A o \in Orders : RefundInv(o)
    /\ \A o \in Honest : EscrowInv(o)

\* The invariant of the escrow holds of every prompt behaviour of the engine.
LEMMA EscrowInductive == ASSUME Prompt PROVE Spec => []PromptInv
<1>1. Careful
  BY PromptIsCareful
<1>2. /\ IndInv /\ IndInv' /\ [Next]_vars
      /\ \A o \in Orders : RefundInv(o)
      /\ (\A o \in Orders : RefundInv(o))'
      /\ \A o \in Honest : EscrowInv(o)
      => (\A o \in Honest : EscrowInv(o))'
  BY EscrowStep
<1>3. Spec => [](\A o \in Orders : RefundInv(o))
  BY <1>1, RefundsInductive
<1>4. Spec => [](\A o \in Honest : EscrowInv(o))
  BY <1>2, <1>3, EscrowInit, Inductive, PTL DEF Spec
<1> QED
  BY <1>3, <1>4, Inductive, PTL DEF PromptInv

\* In every prompt instance, while the payment to an honest merchant is in
\* flight or made, the customer's money is locked or taken (run, trySettle).
THEOREM CommitmentStays == Prompt => (Spec => []CommitmentKept)
<1> SUFFICES ASSUME Prompt PROVE Spec => []CommitmentKept
  OBVIOUS
<1>1. PromptInv => CommitmentKept
  BY DEF PromptInv, EscrowInv, InHand, PayingPcs, ForwardPcs, CommitmentKept
<1> QED
  BY <1>1, EscrowInductive, PTL

-----------------------------------------------------------------------------
(* The refinement *)

\* What the promise is about stays as it is.
Stays(o) ==
    /\ payer'[o] = payer[o]
    /\ (opens'[o] > 0) = (opens[o] > 0)
    /\ Stage(pay'[o]) = Stage(pay[o])

\* Orders that stay are a stutter of the escrow.
LEMMA StayStutters == ASSUME \A q \in Honest : Stays(q) PROVE UNCHANGED Escrow!vars
<1>1. [o \in Honest |-> payer[o]]' = [o \in Honest |-> payer[o]]
  BY DEF Stays
<1>2. [o \in Honest |-> opens[o] > 0]' = [o \in Honest |-> opens[o] > 0]
  BY Zenon DEF Stays
<1>3. [o \in Honest |-> Stage(pay[o])]' = [o \in Honest |-> Stage(pay[o])]
  BY DEF Stays
<1> QED
  BY <1>1, <1>2, <1>3 DEF Escrow!vars

\* An order whose customer's money moves, and nothing else.
LEMMA PayerMoves ==
  ASSUME NEW o \in Honest, NEW m, payer'[o] = m,
         (opens'[o] > 0) = (opens[o] > 0), Stage(pay'[o]) = Stage(pay[o]),
         \A q \in Honest \ {o} : Stays(q),
         \/ payer[o] = "unpaid" /\ m = "locked"
         \/ payer[o] = "locked" /\ m = "taken" /\ Stage(pay[o]) = "paid"
         \/ payer[o] = "locked" /\ m = "returned" /\ Stage(pay[o]) = "unpaid"
  PROVE  Escrow!Next
<1>1. [q \in Honest |-> payer[q]]' = [[q \in Honest |-> payer[q]] EXCEPT ![o] = m]
  BY DEF Stays
<1>2. [q \in Honest |-> opens[q] > 0]' = [q \in Honest |-> opens[q] > 0]
  BY Zenon DEF Stays
<1>3. [q \in Honest |-> Stage(pay[q])]' = [q \in Honest |-> Stage(pay[q])]
  BY DEF Stays
<1>4. /\ [q \in Honest |-> payer[q]][o] = payer[o]
      /\ [q \in Honest |-> Stage(pay[q])][o] = Stage(pay[o])
  OBVIOUS
<1>5. Escrow!Lock(o) \/ Escrow!Take(o) \/ Escrow!Return(o)
  BY <1>1, <1>2, <1>3, <1>4 DEF Escrow!Lock, Escrow!Take, Escrow!Return
<1> QED
  BY <1>5 DEF Escrow!Next

\* An order whose merchant's payment moves, and nothing else.
LEMMA MerchantMoves ==
  ASSUME NEW o \in Honest, NEW m, Stage(pay'[o]) = m,
         payer'[o] = payer[o], (opens'[o] > 0) = (opens[o] > 0),
         \A q \in Honest \ {o} : Stays(q),
         \/ opens[o] > 0 /\ payer[o] = "locked" /\ Stage(pay[o]) = "unpaid" /\ m = "paying"
         \/ Stage(pay[o]) = "paying" /\ m \in {"paid", "unpaid"}
  PROVE  Escrow!Next
<1>1. [q \in Honest |-> payer[q]]' = [q \in Honest |-> payer[q]]
  BY DEF Stays
<1>2. [q \in Honest |-> opens[q] > 0]' = [q \in Honest |-> opens[q] > 0]
  BY Zenon DEF Stays
<1>3. [q \in Honest |-> Stage(pay[q])]'
        = [[q \in Honest |-> Stage(pay[q])] EXCEPT ![o] = m]
  BY DEF Stays
<1>4. /\ [q \in Honest |-> payer[q]][o] = payer[o]
      /\ [q \in Honest |-> Stage(pay[q])][o] = Stage(pay[o])
  OBVIOUS
<1>5. opens[o] > 0 => [q \in Honest |-> opens[q] > 0][o]
  BY Zenon
<1>6. Escrow!Offer(o) \/ Escrow!Conclude(o)
  BY <1>1, <1>2, <1>3, <1>4, <1>5 DEF Escrow!Offer, Escrow!Conclude
<1> QED
  BY <1>6 DEF Escrow!Next

\* An order for which capital is put into a channel, and nothing else.
LEMMA CapitalMoves ==
  ASSUME NEW o \in Honest, opens'[o] > 0, payer[o] # "unpaid",
         payer'[o] = payer[o], Stage(pay'[o]) = Stage(pay[o]),
         \A q \in Honest \ {o} : Stays(q)
  PROVE  Escrow!Next
<1>1. [q \in Honest |-> payer[q]]' = [q \in Honest |-> payer[q]]
  BY DEF Stays
<1>2. [q \in Honest |-> opens[q] > 0]'
        = [[q \in Honest |-> opens[q] > 0] EXCEPT ![o] = TRUE]
  BY Zenon DEF Stays
<1>3. [q \in Honest |-> Stage(pay[q])]' = [q \in Honest |-> Stage(pay[q])]
  BY DEF Stays
<1>4. [q \in Honest |-> payer[q]][o] = payer[o]
  OBVIOUS
<1>5. Escrow!Fund(o)
  BY <1>1, <1>2, <1>3, <1>4 DEF Escrow!Fund
<1> QED
  BY <1>5 DEF Escrow!Next

\* What a step leaves of an order stays.
LEMMA UntouchedStays == ASSUME NEW q, Untouched(q) PROVE Stays(q)
<1> QED
  BY DEF Untouched, Same, Stays

\* The steps of an honest order are steps of its escrow, or stutter.
LEMMA HonestStep ==
  ASSUME PromptInv, Prompt, NEW o \in Honest,
         \/ RunStep(o) \/ Request(o) \/ World(o)
         \/ \E h \in Handlers : SharedStep(o, h)
  PROVE  [Escrow!Next]_(Escrow!vars)
<1>o. /\ o \in Orders /\ Linked(o) /\ TypeOK
      /\ OrderInv(o) /\ RefundInv(o) /\ EscrowInv(o)
  BY DEF Honest, Linked, PromptInv, IndInv
<1>q. \A q \in Honest \ {o} : Stays(q)
  BY <1>o, OneOrderSteps, UntouchedStays DEF Honest
<1>s. CASE Stays(o)
  <2>1. UNCHANGED Escrow!vars
    BY <1>q, <1>s, StayStutters
  <2> QED
    BY <2>1
<1> USE DEF stored, volatile, process, escrowed, channels, node
<1>1. CASE RunStep(o) \/ Request(o)
  <2>1. CASE OpenChannel(o) /\ opens' = [opens EXCEPT ![o] = IF @ = MaxOpens THEN @ ELSE @ + 1]
    <3>1. \A n \in Nat : (IF n = MaxOpens THEN n ELSE n + 1) > 0
      BY MaxCrashesAssumption DEF MaxOpens
    <3>2. opens'[o] > 0
      BY <1>o, <2>1, <3>1 DEF TypeOK
    <3>3. payer[o] # "unpaid"
      BY <1>o, <2>1 DEF OpenChannel, OrderInv, Backed, EarlyPcs, Handlers
    <3>4. payer'[o] = payer[o] /\ Stage(pay'[o]) = Stage(pay[o])
      BY <2>1 DEF OpenChannel
    <3> QED
      BY <1>q, <3>2, <3>3, <3>4, CapitalMoves
  <2>2. CASE SendPayment(o) /\ ~UNCHANGED pay
    <3>1. pc[o]["run"] = "sending" /\ UNCHANGED <<payer, opens>>
      BY <2>2 DEF SendPayment
    <3>2. Stage(pay[o]) = "unpaid" /\ Stage(pay'[o]) = "paying"
      BY <1>o, <2>2 DEF SendPayment, Stage, TypeOK
    <3>3. payer[o] = "locked" /\ opens[o] > 0
      BY <1>o, <3>1 DEF EscrowInv, InHand, Funded, UnsentPcs, ForwardPcs, OrderInv,
         Proven
    <3> QED
      BY <1>q, <3>1, <3>2, <3>3, MerchantMoves
  <2>3. \/ UNCHANGED <<payer, opens, pay>>
        \/ OpenChannel(o) /\ opens' = [opens EXCEPT ![o] = IF @ = MaxOpens THEN @ ELSE @ + 1]
        \/ SendPayment(o) /\ ~UNCHANGED pay
    BY <1>1 DEF RunStep, Request, AskHold, HoldSeen, HoldGone, HoldNotSeen,
       TakeOpenLock, OpenChannel, ReadySeen, ReadyMissed, AbandonOrphan,
       CheckDeadline, CommittedSeen, ExistingSeen, SendPayment, ForwardPaid,
       ForwardAgain, ForwardFailed, Observe, Try, Retry, Cancel, Reveal
  <2> QED
    BY <1>s, <2>1, <2>2, <2>3 DEF Stays
<1>2. CASE World(o)
  <2>1. CASE CustomerPays(o)
    <3>1. payer[o] = "unpaid" /\ payer'[o] = "locked" /\ UNCHANGED <<opens, pay>>
      BY <1>o, <2>1 DEF CustomerPays, RefundInv, Agrees, TypeOK
    <3> QED
      BY <1>q, <3>1, PayerMoves
  <2>2. CASE HoldLapses(o)
    <3>1. UNCHANGED <<opens, pay>> /\ phase[o] = "over"
      BY <2>2 DEF HoldLapses
    <3>2. payer'[o] = IF payer[o] = "locked" THEN "returned" ELSE payer[o]
      BY <1>o, <2>2 DEF HoldLapses, TypeOK
    <3>3. payer[o] = "locked" => Stage(pay[o]) = "unpaid"
      BY <1>o, <3>1 DEF EscrowInv, OnTime, InHand, PayingPcs, ForwardPcs, Stage
    <3> QED
      BY <1>q, <1>s, <3>1, <3>2, <3>3, PayerMoves DEF Stays
  <2>3. CASE PaymentStarts(o)
    <3>1. Stage(pay'[o]) = Stage(pay[o]) /\ UNCHANGED <<payer, opens>>
      BY <1>o, <2>3 DEF PaymentStarts, Stage, TypeOK
    <3> QED
      BY <1>s, <3>1 DEF Stays
  <2>4. CASE PaymentEnds(o)
    <3>1. /\ Stage(pay[o]) = "paying" /\ Stage(pay'[o]) \in {"paid", "unpaid"}
          /\ UNCHANGED <<payer, opens>>
      BY <1>o, <2>4 DEF PaymentEnds, Stage, TypeOK
    <3> QED
      BY <1>q, <3>1, MerchantMoves
  <2>5. CASE ChannelReady(o) \/ Tick(o)
    BY <1>s, <2>5 DEF ChannelReady, Tick, Stays
  <2> QED
    BY <1>2, <2>1, <2>2, <2>3, <2>4, <2>5 DEF World
<1>3. ASSUME NEW h \in Handlers, SharedStep(o, h) PROVE [Escrow!Next]_(Escrow!vars)
  <2>1. CASE SettleInvoice(o, h)
    <3>1. UNCHANGED <<opens, pay>> /\ pc[o][h] = "settling"
      BY <2>1 DEF SettleInvoice
    <3>2. UNCHANGED payer \/ (hold[o] = "Received" /\ payer' = [payer EXCEPT ![o] = "taken"])
      BY <2>1 DEF SettleInvoice
    <3>3. Stage(pay[o]) = "paid"
      BY <1>o, <3>1 DEF OrderInv, Proven, Stage
    <3>4. hold[o] = "Received" => payer[o] = "locked"
      BY <1>o DEF OrderInv, HoldAgrees
    <3>5. CASE UNCHANGED payer
      BY <1>s, <3>1, <3>5 DEF Stays
    <3>6. CASE hold[o] = "Received" /\ payer' = [payer EXCEPT ![o] = "taken"]
      <4>1. payer'[o] = "taken"
        BY <1>o, <3>6 DEF TypeOK
      <4> QED
        BY <1>q, <3>1, <3>3, <3>4, <3>6, <4>1, PayerMoves
    <3> QED
      BY <3>2, <3>5, <3>6
  <2>2. CASE CancelInvoice(o, h)
    <3>1. UNCHANGED <<opens, pay>> /\ pc[o][h] = "cancelling"
      BY <2>2 DEF CancelInvoice
    <3>2. payer'[o] = payer[o] \/ (payer[o] = "locked" /\ payer'[o] = "returned")
      BY <1>o, <2>2 DEF CancelInvoice, TypeOK
    <3>3. Stage(pay[o]) = "unpaid"
      BY <1>o, <3>1 DEF RefundInv, RunCancels, SentRight, Handlers, Stage
    <3> QED
      BY <1>q, <1>s, <3>1, <3>2, <3>3, PayerMoves DEF Stays
  <2>3. UNCHANGED <<payer, opens, pay>> \/ SettleInvoice(o, h) \/ CancelInvoice(o, h)
    BY <1>3 DEF SharedStep, AskPayment, AskPreimage, PreimageRead, PreimageUnread,
       PaidSeen, SettleDone, CancelDone
  <2> QED
    BY <1>s, <2>1, <2>2, <2>3 DEF Stays
<1> QED
  BY <1>1, <1>2, <1>3

\* In every prompt instance, for any number of orders, honest or not, the engine
\* implements the escrow for the honest ones (JitEscrow).
THEOREM EscrowImplemented == Prompt => (Spec => EscrowKept)
<1> SUFFICES ASSUME Prompt PROVE Spec => EscrowKept
  OBVIOUS
<1>1. Init => Escrow!Init
  <2> SUFFICES ASSUME Init PROVE Escrow!Init
    OBVIOUS
  <2>1. \A o \in Honest : payer[o] = "unpaid" /\ Stage(pay[o]) = "unpaid"
    BY DEF Init, Honest, Stage
  <2>2. \A o \in Honest : (opens[o] > 0) = FALSE
    <3>1. \A o \in Honest : opens[o] = 0
      BY DEF Init, Honest
    <3>2. (0 > 0) = FALSE
      OBVIOUS
    <3> QED
      BY <3>1, <3>2, Zenon
  <2>3. [o \in Honest |-> payer[o]] = [o \in Honest |-> "unpaid"]
    BY <2>1
  <2>4. [o \in Honest |-> opens[o] > 0] = [o \in Honest |-> FALSE]
    BY <2>2, Zenon
  <2>5. [o \in Honest |-> Stage(pay[o])] = [o \in Honest |-> "unpaid"]
    BY <2>1
  <2> QED
    BY <2>3, <2>4, <2>5 DEF Escrow!Init
<1>2. PromptInv /\ [Next]_vars => [Escrow!Next]_(Escrow!vars)
  <2> SUFFICES ASSUME PromptInv, [Next]_vars PROVE [Escrow!Next]_(Escrow!vars)
    OBVIOUS
  <2>1. ASSUME NEW o \in Orders,
               \/ RunStep(o) \/ Request(o) \/ World(o)
               \/ \E h \in Handlers : SharedStep(o, h)
        PROVE  [Escrow!Next]_(Escrow!vars)
    <3>1. CASE o \in Honest
      BY <2>1, <3>1, HonestStep
    <3>2. CASE o \notin Honest
      <4>1. \A q \in Honest : Stays(q)
        BY <2>1, <3>2, OneOrderSteps, UntouchedStays DEF Honest, PromptInv, IndInv
      <4> QED
        BY <4>1, StayStutters
    <3> QED
      BY <3>1, <3>2
  <2>2. CASE UNCHANGED vars \/ Crash \/ Boot \/ \E o \in Orders : CrashAfterHeld(o)
    <3>1. UNCHANGED <<payer, opens, pay>>
      BY <2>2 DEF vars, Crash, Boot, CrashAfterHeld, node
    <3> QED
      BY <3>1, StayStutters DEF Stays
  <2> QED
    BY <2>1, <2>2 DEF Next
<1> QED
  BY <1>1, <1>2, EscrowInductive, PTL DEF Spec, EscrowKept, Escrow!Spec

=============================================================================
