----------------------------- MODULE JitService -----------------------------
(***************************************************************************)
(* The just-in-time channel engine: packages/lsp-server/src/jit.ts.        *)
(*                                                                         *)
(* For each order the LSP waits for the customer's payment to be held on   *)
(* its hold node, opens a channel to the merchant, pays the merchant's     *)
(* invoice over it, and settles the hold with the preimage that payment    *)
(* revealed.  Three handlers of one process work on an order: run(), and   *)
(* the merchant's reveal() and cancel().  JavaScript runs one handler at a *)
(* time and switches only at an `await', so a handler is cut at its RPCs:  *)
(* one step in which the node acts and answers, and one step that runs the *)
(* handler from that answer to its next await.                             *)
(*                                                                         *)
(* The two Fiber nodes, the customer and the merchant are external: they   *)
(* are the variables hold, payer, pay, chan and the actions on them.       *)
(***************************************************************************)
EXTENDS Naturals

CONSTANTS
    Orders,         \* jit_order_id of every order, each with hashes of its own
    Target,         \* Target[o] is request.target_pubkey, the key of openLock
    Forged,         \* orders whose merchant preimage does not unlock the hold
    PreimageReads,  \* what get_payment of a paid payment may carry
    MaxCrashes,     \* bound on restarts of the LSP process
    Faults          \* what may go wrong, or be called, in this instance

AllFaults ==
    { "cancel",   \* the merchant calls cancel()
      "reveal",   \* the merchant calls reveal()
      "crash",    \* the LSP process dies and boots again
      "rpc",      \* an RPC fails, before or after it took effect
      "queued",   \* a payment the node took is for a while only Created
      "slow",     \* a payment outlasts the polling budget, or time is lost
      "misses" }  \* the paying-node observer is not armed or misses its event

ASSUME FaultsAssumption == Faults \subseteq AllFaults
ASSUME PreimageReadsAssumption ==
    PreimageReads \subseteq {"preimage", "nothing"} /\ PreimageReads # {}
ASSUME MaxCrashesAssumption == MaxCrashes \in Nat

\* Where the count of channels stops: one above what OpensPerStart allows.
MaxOpens == MaxCrashes + 2

VARIABLES
    state,     \* stored order: its JitOrderState
    preimage,  \* stored order: the merchant preimage is recorded
    pc,        \* where each handler of each order waits
    reply,     \* the last RPC answer each handler received
    armed,     \* forward() holds an armed preimage observation
    up,        \* the LSP process runs
    crashes,   \* restarts so far
    hold,      \* hold node: status of the hold invoice
    payer,     \* where the customer's money is
    chan,      \* paying node: the channel last opened for the order
    opens,     \* channels opened for the order, MaxOpens standing for more
    pay,       \* paying node: the payment to the merchant
    phase      \* time left before the hold's deadline

stored == <<state, preimage>>
volatile == <<pc, reply, armed>>
process == <<up, crashes>>
escrowed == <<hold, payer>>
channels == <<chan, opens>>
node == <<hold, payer, chan, opens, pay, phase>>
vars == <<state, preimage, pc, reply, armed, up, crashes,
          hold, payer, chan, opens, pay, phase>>

Terminal == {"settled", "refunded", "expired"}
States == Terminal \cup {"created", "payment_held", "opening", "forwarding"}
Handlers == {"run", "reveal", "cancel"}

\* Where a handler is: "askX" waits for a node to act, "gotX" has its answer.
OpenPcs == {"opening", "awaitReady", "abandoning"}
ForwardPcs == {"askExisting", "gotExisting", "sending",
               "askForward", "gotForward", "observing"}
SettlePcs == {"trying", "askPreimage", "gotPreimage", "askPaid", "gotPaid",
              "settling", "gotSettle", "retrying"}
Pcs == {"off", "askHold", "gotHold", "waitLock", "checkDeadline",
        "askCommitted", "gotCommitted", "cancelling", "gotCancel"}
       \cup OpenPcs \cup ForwardPcs \cup SettlePcs

HoldStatus == {"Open", "Received", "Paid", "Cancelled", "Expired"}
PayStatus == {"None", "Created", "Inflight", "Success", "Failed"}
Phases == {"ample", "close", "margin", "over"}
Replies == HoldStatus \cup (PayStatus \ {"None"}) \cup
           {"none", "error", "ok", "preimage", "nothing"}

TypeOK ==
    /\ state \in [Orders -> States]
    /\ preimage \in [Orders -> BOOLEAN]
    /\ pc \in [Orders -> [Handlers -> Pcs]]
    /\ reply \in [Orders -> [Handlers -> Replies]]
    /\ armed \in [Orders -> BOOLEAN]
    /\ up \in BOOLEAN
    /\ crashes \in Nat
    /\ hold \in [Orders -> HoldStatus]
    /\ payer \in [Orders -> {"unpaid", "locked", "taken", "returned"}]
    /\ chan \in [Orders -> {"none", "pending", "ready", "abandoned"}]
    /\ opens \in [Orders -> Nat]
    /\ pay \in [Orders -> PayStatus]
    /\ phase \in [Orders -> Phases]

-----------------------------------------------------------------------------
(* Helpers *)

Linked(o) == o \notin Forged
RpcError == IF "rpc" \in Faults THEN {"error"} ELSE {}

Goto(o, h, p) == pc' = [pc EXCEPT ![o][h] = p]
Answer(o, h, r, p) == /\ reply' = [reply EXCEPT ![o][h] = r]
                      /\ Goto(o, h, p)
Become(o, s) == state' = [state EXCEPT ![o] = s]

\* trySettle returned an order still in forwarding: run() loops in
\* settleWithRetry, reveal() answers its caller.
AfterTry(h) == IF h = "run" THEN "retrying" ELSE "off"

-----------------------------------------------------------------------------
(* Slips: mistakes one could make in the steps below, none of them in the   *)
(* code.  Each lets an order break one of the properties at the end.        *)

\* The preimage is not checked against the hold's hash.
TryFromUnlinked(o, s, known) ==
    IF s # "forwarding" THEN "off"
    ELSE IF known THEN "askPaid" ELSE "askPreimage"

\* resume() forgets an order that died while its channel was opening.
EntryPcForgetful(s) ==
    CASE s = "created" -> "askHold"
      [] s = "payment_held" -> "waitLock"
      [] s = "forwarding" -> "checkDeadline"
      [] OTHER -> "off"

\* resume() waits for the hold again, whatever was done since.
EntryPcPolls(s) ==
    CASE s \in {"created", "payment_held", "opening"} -> "askHold"
      [] s = "forwarding" -> "checkDeadline"
      [] OTHER -> "off"

\* Orders of one merchant wait for each other.
TakeOpenLockShy(o) ==
    /\ pc[o]["run"] = "waitLock"
    /\ \A p \in Orders \ {o} :
          Target[p] = Target[o] => pc[p]["run"] \notin OpenPcs \cup {"waitLock"}
    /\ Goto(o, "run", "opening")
    /\ UNCHANGED <<stored, reply, armed, process, node>>

\* An opening that timed out is simply tried again.
ReadyMissedReopens(o) ==
    /\ pc[o]["run"] = "awaitReady"
    /\ chan[o] # "ready"
    /\ Goto(o, "run", "opening")
    /\ UNCHANGED <<stored, reply, armed, process, node>>

\* No look at the time before the payment is sent.
CheckDeadlineNever(o) ==
    /\ pc[o]["run"] = "checkDeadline"
    /\ Goto(o, "run", "askExisting")
    /\ UNCHANGED <<stored, reply, armed, process, node>>

\* Only a finished payment counts as committed.
CommittedSeenPaid(o) ==
    /\ pc[o]["run"] = "gotCommitted"
    /\ Goto(o, "run", IF reply[o]["run"] = "Success" THEN "askExisting"
                      ELSE "cancelling")
    /\ UNCHANGED <<stored, reply, armed, process, node>>

\* An order near its deadline goes on whatever the answer.
CommittedSeenAlways(o) ==
    /\ pc[o]["run"] = "gotCommitted"
    /\ Goto(o, "run", "askExisting")
    /\ UNCHANGED <<stored, reply, armed, process, node>>

\* The order is closed without cancelling its hold.
ForwardFailedKeeps(o) ==
    /\ pc[o]["run"] = "gotForward"
    /\ reply[o]["run"] = "Failed"
    /\ armed' = [armed EXCEPT ![o] = FALSE]
    /\ Goto(o, "run", "gotCancel")
    /\ UNCHANGED <<stored, reply, process, node>>

\* A payment in flight is as good as a paid one.
PaidSeenEarly(o, h) ==
    /\ pc[o][h] = "gotPaid"
    /\ Goto(o, h, IF reply[o][h] \in {"Success", "Inflight"} THEN "settling"
                  ELSE AfterTry(h))
    /\ UNCHANGED <<stored, reply, armed, process, node>>

-----------------------------------------------------------------------------
(* More helpers *)

\* get_payment's answer on the status: an unknown payment is an error.
PaymentAnswers(o) ==
    (IF pay[o] = "None" THEN {"error"} ELSE {pay[o]}) \cup RpcError

PaymentReads ==
    { <<"askCommitted", "gotCommitted">>, <<"askExisting", "gotExisting">>,
      <<"askForward", "gotForward">>, <<"askPaid", "gotPaid">> }

\* What trySettle does up to its first await, on the record as stored: return
\* at once, read the preimage, refund a broken link, or check the payment.
TryFrom(o, s, known) ==
    IF s # "forwarding" THEN "off"
    ELSE IF ~known THEN "askPreimage"
    ELSE IF Linked(o) THEN "askPaid" ELSE "cancelling"

\* How far run() gets, from the stored state, before its first await.
EntryPc(s) ==
    CASE s = "created" -> "askHold"
      [] s \in {"payment_held", "opening"} -> "waitLock"
      [] s = "forwarding" -> "checkDeadline"
      [] OTHER -> "off"

\* Only run() is active, at p.
Started(p) == [h \in Handlers |-> IF h = "run" THEN p ELSE "off"]
NoReplies == [o \in Orders |-> [h \in Handlers |-> "none"]]

EntryState(s) == IF s = "payment_held" THEN "opening" ELSE s

-----------------------------------------------------------------------------
(* Every order has just been created, and the API has started its run().   *)

Init ==
    /\ state = [o \in Orders |-> "created"]
    /\ preimage = [o \in Orders |-> FALSE]
    /\ pc = [o \in Orders |-> Started("askHold")]
    /\ reply = NoReplies
    /\ armed = [o \in Orders |-> FALSE]
    /\ up = TRUE
    /\ crashes = 0
    /\ hold = [o \in Orders |-> "Open"]
    /\ payer = [o \in Orders |-> "unpaid"]
    /\ chan = [o \in Orders |-> "none"]
    /\ opens = [o \in Orders |-> 0]
    /\ pay = [o \in Orders |-> "None"]
    /\ phase = [o \in Orders |-> "ample"]

-----------------------------------------------------------------------------
(* run(): waitForHold *)

AskHold(o) ==
    /\ pc[o]["run"] = "askHold"
    /\ \E r \in {hold[o]} \cup RpcError : Answer(o, "run", r, "gotHold")
    /\ UNCHANGED <<stored, armed, process, node>>

\* Held: payment_held and opening are written back to back, then the lock.
HoldSeen(o) ==
    /\ pc[o]["run"] = "gotHold"
    /\ reply[o]["run"] \in {"Received", "Paid"}
    /\ Become(o, "opening")
    /\ Goto(o, "run", "waitLock")
    /\ UNCHANGED <<preimage, reply, armed, process, node>>

HoldGone(o) ==
    /\ pc[o]["run"] = "gotHold"
    /\ \/ /\ \/ reply[o]["run"] = "Expired"
             \/ reply[o]["run"] = "Open" /\ phase[o] = "over"
          /\ Become(o, "expired")
       \/ /\ reply[o]["run"] = "Cancelled"
          /\ Become(o, "refunded")
    /\ Goto(o, "run", "off")
    /\ UNCHANGED <<preimage, reply, armed, process, node>>

\* Still unpaid: sleep and poll again.  A failed read throws into run()'s
\* catch, which refunds.
HoldNotSeen(o) ==
    /\ pc[o]["run"] = "gotHold"
    /\ \/ /\ reply[o]["run"] = "Open" /\ phase[o] # "over"
          /\ Goto(o, "run", "askHold")
       \/ /\ reply[o]["run"] = "error"
          /\ Goto(o, "run", "cancelling")
    /\ UNCHANGED <<stored, reply, armed, process, node>>

-----------------------------------------------------------------------------
(* run(): openAndAwait, under openLock *)

TakeOpenLock(o) ==
    /\ pc[o]["run"] = "waitLock"
    /\ \A p \in Orders \ {o} :
          Target[p] = Target[o] => pc[p]["run"] \notin OpenPcs
    /\ Goto(o, "run", "opening")
    /\ UNCHANGED <<stored, reply, armed, process, node>>

\* The node takes the open (its answer may be lost), or refuses it.
OpenChannel(o) ==
    /\ pc[o]["run"] = "opening"
    /\ \/ /\ chan' = [chan EXCEPT ![o] = "pending"]
          /\ opens' = [opens EXCEPT ![o] = IF @ = MaxOpens THEN @ ELSE @ + 1]
          /\ \/ Goto(o, "run", "awaitReady")
             \/ "rpc" \in Faults /\ Goto(o, "run", "cancelling")
       \/ /\ Goto(o, "run", "cancelling")
          /\ UNCHANGED channels
    /\ UNCHANGED <<stored, reply, armed, process, escrowed, pay, phase>>

ReadySeen(o) ==
    /\ pc[o]["run"] = "awaitReady"
    /\ chan[o] = "ready"
    /\ Become(o, "forwarding")
    /\ Goto(o, "run", "checkDeadline")
    /\ UNCHANGED <<preimage, reply, armed, process, node>>

\* The last poll found no ready channel; a poll that fails throws.
ReadyMissed(o) ==
    /\ pc[o]["run"] = "awaitReady"
    /\ \/ chan[o] # "ready" /\ Goto(o, "run", "abandoning")
       \/ "rpc" \in Faults /\ Goto(o, "run", "cancelling")
    /\ UNCHANGED <<stored, reply, armed, process, node>>

\* abandonOrphanOnTimeout: best effort, and only a channel still not ready.
AbandonOrphan(o) ==
    /\ pc[o]["run"] = "abandoning"
    /\ \/ /\ chan[o] = "pending"
          /\ chan' = [chan EXCEPT ![o] = "abandoned"]
       \/ /\ chan[o] # "pending" \/ "rpc" \in Faults
          /\ UNCHANGED chan
    /\ Goto(o, "run", "cancelling")
    /\ UNCHANGED <<stored, reply, armed, process, escrowed, opens, pay, phase>>

-----------------------------------------------------------------------------
(* run(): the deadline check and forward() *)

\* effectiveHoldDeadline falls back to the later invoice expiry when the read
\* of the channel list fails.
CheckDeadline(o) ==
    /\ pc[o]["run"] = "checkDeadline"
    /\ \/ /\ phase[o] = "ample" \/ "rpc" \in Faults
          /\ Goto(o, "run", "askExisting")
       \/ /\ phase[o] # "ample"
          /\ Goto(o, "run", "askCommitted")
    /\ UNCHANGED <<stored, reply, armed, process, node>>

\* get_payment, awaited by merchantCommitted, forward (twice) and trySettle.
AskPayment(o, h) ==
    /\ \E x \in PaymentReads :
          /\ pc[o][h] = x[1]
          /\ \E r \in PaymentAnswers(o) : Answer(o, h, r, x[2])
    /\ UNCHANGED <<stored, armed, process, node>>

\* Too little time: go on only if the merchant's money is already committed.
CommittedSeen(o) ==
    /\ pc[o]["run"] = "gotCommitted"
    /\ Goto(o, "run", IF reply[o]["run"] \in {"Success", "Inflight"}
                      THEN "askExisting" ELSE "cancelling")
    /\ UNCHANGED <<stored, reply, armed, process, node>>

\* The observer is armed before the payment is sent.
ExistingSeen(o) ==
    /\ pc[o]["run"] = "gotExisting"
    /\ \E a \in (IF reply[o]["run"] = "Success" THEN {FALSE}
                 ELSE IF "misses" \in Faults THEN BOOLEAN ELSE {TRUE}) :
          armed' = [armed EXCEPT ![o] = a]
    /\ Goto(o, "run", IF reply[o]["run"] \in {"Success", "Inflight"}
                      THEN "askForward" ELSE "sending")
    /\ UNCHANGED <<stored, reply, process, node>>

\* The node takes the payment (its answer may be lost), or refuses it; it
\* refuses a second payment of a hash that is under way or paid.
SendPayment(o) ==
    /\ pc[o]["run"] = "sending"
    /\ \/ /\ pay[o] \in {"None", "Failed"}
          /\ \E s \in {"Inflight"} \cup (IF "queued" \in Faults THEN {"Created"} ELSE {}) :
                pay' = [pay EXCEPT ![o] = s]
          /\ \/ Goto(o, "run", "askForward") /\ UNCHANGED armed
             \/ /\ "rpc" \in Faults
                /\ Goto(o, "run", "cancelling")
                /\ armed' = [armed EXCEPT ![o] = FALSE]
       \/ /\ Goto(o, "run", "cancelling")
          /\ armed' = [armed EXCEPT ![o] = FALSE]
          /\ UNCHANGED pay
    /\ UNCHANGED <<stored, reply, process, escrowed, channels, phase>>

ForwardPaid(o) ==
    /\ pc[o]["run"] = "gotForward"
    /\ reply[o]["run"] = "Success"
    /\ Goto(o, "run", IF armed[o] THEN "observing" ELSE "trying")
    /\ UNCHANGED <<stored, reply, armed, process, node>>

\* Neither paid nor failed: poll again.
ForwardAgain(o) ==
    /\ pc[o]["run"] = "gotForward"
    /\ reply[o]["run"] \in {"Created", "Inflight", "error"}
    /\ Goto(o, "run", "askForward")
    /\ UNCHANGED <<stored, reply, armed, process, node>>

\* forward() returns false, and run() refunds: the payment failed, or the last
\* of readyPollAttempts polls did not see it end.
ForwardFailed(o) ==
    /\ pc[o]["run"] = "gotForward"
    /\ \/ reply[o]["run"] = "Failed"
       \/ reply[o]["run"] \in {"Created", "Inflight", "error"} /\ "slow" \in Faults
    /\ armed' = [armed EXCEPT ![o] = FALSE]
    /\ Goto(o, "run", "cancelling")
    /\ UNCHANGED <<stored, reply, process, node>>

\* The race of the observation against one poll interval, and
\* persistObservedPreimage, which keeps only a value that unlocks the hold.
Observe(o) ==
    /\ pc[o]["run"] = "observing"
    /\ \E delivered \in (IF "misses" \in Faults THEN BOOLEAN ELSE {TRUE}) :
          preimage' = [preimage EXCEPT ![o] = @ \/ (delivered /\ Linked(o))]
    /\ armed' = [armed EXCEPT ![o] = FALSE]
    /\ Goto(o, "run", "trying")
    /\ UNCHANGED <<state, reply, process, node>>

-----------------------------------------------------------------------------
(* settleWithRetry and trySettle, in run() and in reveal() *)

Try(o) ==
    /\ pc[o]["run"] = "trying"
    /\ Goto(o, "run", TryFrom(o, state[o], preimage[o]))
    /\ UNCHANGED <<stored, reply, armed, process, node>>

\* merchantPreimageFromPayment: every failure reads as no preimage.
AskPreimage(o, h) ==
    /\ pc[o][h] = "askPreimage"
    /\ \E r \in (IF pay[o] = "Success" THEN PreimageReads ELSE {"nothing"})
                \cup (IF "rpc" \in Faults THEN {"nothing"} ELSE {}) :
          Answer(o, h, r, "gotPreimage")
    /\ UNCHANGED <<stored, armed, process, node>>

\* The record read before the await is written back with the preimage: its
\* state, forwarding, overwrites whatever was stored in between.
PreimageRead(o, h) ==
    /\ pc[o][h] = "gotPreimage"
    /\ reply[o][h] = "preimage"
    /\ Become(o, "forwarding")
    /\ preimage' = [preimage EXCEPT ![o] = TRUE]
    /\ Goto(o, h, TryFrom(o, "forwarding", TRUE))
    /\ UNCHANGED <<reply, armed, process, node>>

PreimageUnread(o, h) ==
    /\ pc[o][h] = "gotPreimage"
    /\ reply[o][h] = "nothing"
    /\ Goto(o, h, AfterTry(h))
    /\ UNCHANGED <<stored, reply, armed, process, node>>

\* The merchant must have been paid.  A failed read is not caught: run()
\* refunds, reveal() rejects.
PaidSeen(o, h) ==
    /\ pc[o][h] = "gotPaid"
    /\ Goto(o, h, CASE reply[o][h] = "Success" -> "settling"
                    [] reply[o][h] = "error" ->
                         IF h = "run" THEN "cancelling" ELSE "off"
                    [] OTHER -> AfterTry(h))
    /\ UNCHANGED <<stored, reply, armed, process, node>>

\* settle_invoice releases a held payment to the LSP, given the value that
\* unlocks it.
SettleInvoice(o, h) ==
    /\ pc[o][h] = "settling"
    /\ \/ /\ hold[o] = "Received" /\ Linked(o)
          /\ hold' = [hold EXCEPT ![o] = "Paid"]
          /\ payer' = [payer EXCEPT ![o] = "taken"]
          /\ \E r \in {"ok"} \cup RpcError : Answer(o, h, r, "gotSettle")
       \/ /\ \E r \in (CASE hold[o] = "Received" /\ Linked(o) -> RpcError
                         [] hold[o] = "Paid" -> {"ok", "error"}
                         [] OTHER -> {"error"}) : Answer(o, h, r, "gotSettle")
          /\ UNCHANGED escrowed
    /\ UNCHANGED <<stored, armed, process, channels, pay, phase>>

SettleDone(o, h) ==
    /\ pc[o][h] = "gotSettle"
    /\ \/ /\ reply[o][h] = "ok"
          /\ Become(o, "settled")
          /\ preimage' = [preimage EXCEPT ![o] = FALSE]
          /\ Goto(o, h, "off")
       \/ /\ reply[o][h] = "error"
          /\ Goto(o, h, AfterTry(h))
          /\ UNCHANGED stored
    /\ UNCHANGED <<reply, armed, process, node>>

\* settleWithRetry: stop near expires_at, when the order is not forwarding any
\* more, or when the attempts are spent; else sleep and try again.
Retry(o) ==
    /\ pc[o]["run"] = "retrying"
    /\ \/ /\ state[o] = "forwarding"
          /\ phase[o] \in {"ample", "close"}
          /\ Goto(o, "run", "trying")
       \/ /\ \/ state[o] # "forwarding"
             \/ phase[o] \in {"margin", "over"}
             \/ "slow" \in Faults
          /\ Goto(o, "run", "off")
    /\ UNCHANGED <<stored, reply, armed, process, node>>

-----------------------------------------------------------------------------
(* refund() and the tail of cancel(), which are the same two steps *)

\* cancel_invoice works on an open, a held and an expired invoice; its
\* errors are swallowed.
CancelInvoice(o, h) ==
    /\ pc[o][h] = "cancelling"
    /\ \/ /\ hold[o] \in {"Open", "Received", "Expired"}
          /\ hold' = [hold EXCEPT ![o] = "Cancelled"]
          /\ payer' = [payer EXCEPT ![o] = IF @ = "locked" THEN "returned" ELSE @]
       \/ /\ hold[o] \in {"Paid", "Cancelled"} \/ "rpc" \in Faults
          /\ UNCHANGED escrowed
    /\ Goto(o, h, "gotCancel")
    /\ UNCHANGED <<stored, reply, armed, process, channels, pay, phase>>

CancelDone(o, h) ==
    /\ pc[o][h] = "gotCancel"
    /\ Become(o, "refunded")
    /\ Goto(o, h, "off")
    /\ UNCHANGED <<preimage, reply, armed, process, node>>

-----------------------------------------------------------------------------
(* The merchant's requests.  Those that change nothing (a wrong token or     *)
(* preimage, an order already over, a cancel too late) are not steps.        *)

Cancel(o) ==
    /\ "cancel" \in Faults /\ up
    /\ pc[o]["cancel"] = "off"
    /\ state[o] \in {"created", "payment_held"}
    /\ Goto(o, "cancel", "cancelling")
    /\ UNCHANGED <<stored, reply, armed, process, node>>

Reveal(o) ==
    /\ "reveal" \in Faults /\ up
    /\ pc[o]["reveal"] = "off"
    /\ state[o] \notin Terminal
    /\ Linked(o)
    /\ preimage' = [preimage EXCEPT ![o] = TRUE]
    /\ Goto(o, "reveal", TryFrom(o, state[o], TRUE))
    /\ UNCHANGED <<state, reply, armed, process, node>>

-----------------------------------------------------------------------------
(* The process dies, and boots again with resume() *)

Die ==
    /\ "crash" \in Faults
    /\ up
    /\ crashes < MaxCrashes
    /\ up' = FALSE
    /\ crashes' = crashes + 1
    /\ pc' = [o \in Orders |-> Started("off")]
    /\ reply' = NoReplies
    /\ armed' = [o \in Orders |-> FALSE]

Crash ==
    /\ Die
    /\ UNCHANGED <<stored, node>>

\* Death between the two writes of HoldSeen leaves payment_held on disk.
CrashAfterHeld(o) ==
    /\ pc[o]["run"] = "gotHold"
    /\ reply[o]["run"] \in {"Received", "Paid"}
    /\ Die
    /\ Become(o, "payment_held")
    /\ UNCHANGED <<preimage, node>>

Boot ==
    /\ ~up
    /\ up' = TRUE
    /\ state' = [o \in Orders |-> EntryState(state[o])]
    /\ pc' = [o \in Orders |-> Started(EntryPc(state[o]))]
    /\ UNCHANGED <<preimage, reply, armed, crashes, node>>

-----------------------------------------------------------------------------
(* The world outside the process *)

CustomerPays(o) ==
    /\ hold[o] = "Open"
    /\ phase[o] # "over"
    /\ hold' = [hold EXCEPT ![o] = "Received"]
    /\ payer' = [payer EXCEPT ![o] = "locked"]
    /\ UNCHANGED <<stored, volatile, process, channels, pay, phase>>

\* Past the deadline an unpaid hold expires, and a held payment goes back.
HoldLapses(o) ==
    /\ phase[o] = "over"
    /\ hold[o] \in {"Open", "Received"}
    /\ hold' = [hold EXCEPT ![o] = "Expired"]
    /\ payer' = [payer EXCEPT ![o] = IF @ = "locked" THEN "returned" ELSE @]
    /\ UNCHANGED <<stored, volatile, process, channels, pay, phase>>

ChannelReady(o) ==
    /\ chan[o] = "pending"
    /\ chan' = [chan EXCEPT ![o] = "ready"]
    /\ UNCHANGED <<stored, volatile, process, escrowed, opens, pay, phase>>

PaymentStarts(o) ==
    /\ pay[o] = "Created"
    /\ pay' = [pay EXCEPT ![o] = "Inflight"]
    /\ UNCHANGED <<stored, volatile, process, escrowed, channels, phase>>

PaymentEnds(o) ==
    /\ pay[o] = "Inflight"
    /\ \E s \in {"Success", "Failed"} : pay' = [pay EXCEPT ![o] = s]
    /\ UNCHANGED <<stored, volatile, process, escrowed, channels, phase>>

\* ample: openBudget + settleMargin remain; close: they do not; margin: only
\* settleMargin remains; over: the deadline has passed.  Unless "slow", a
\* forward keeps to openBudget and a settlement to settleMargin.
Tick(o) ==
    /\ \/ phase[o] = "ample" /\ phase' = [phase EXCEPT ![o] = "close"]
       \/ /\ phase[o] = "close"
          /\ pc[o]["run"] \in ForwardPcs => "slow" \in Faults
          /\ phase' = [phase EXCEPT ![o] = "margin"]
       \/ /\ phase[o] = "margin"
          /\ pc[o]["run"] \in ForwardPcs \cup SettlePcs => "slow" \in Faults
          /\ phase' = [phase EXCEPT ![o] = "over"]
    /\ UNCHANGED <<stored, volatile, process, escrowed, channels, pay>>

-----------------------------------------------------------------------------

RunStep(o) ==
    \/ AskHold(o) \/ HoldSeen(o) \/ HoldGone(o) \/ HoldNotSeen(o)
    \/ TakeOpenLock(o) \/ OpenChannel(o) \/ ReadySeen(o) \/ ReadyMissed(o)
    \/ AbandonOrphan(o) \/ CheckDeadline(o) \/ CommittedSeen(o)
    \/ ExistingSeen(o) \/ SendPayment(o)
    \/ ForwardPaid(o) \/ ForwardAgain(o) \/ ForwardFailed(o) \/ Observe(o)
    \/ Try(o) \/ Retry(o)

\* Steps of code that several handlers share.
SharedStep(o, h) ==
    \/ AskPayment(o, h) \/ AskPreimage(o, h)
    \/ PreimageRead(o, h) \/ PreimageUnread(o, h)
    \/ PaidSeen(o, h) \/ SettleInvoice(o, h) \/ SettleDone(o, h)
    \/ CancelInvoice(o, h) \/ CancelDone(o, h)

Request(o) == Cancel(o) \/ Reveal(o)

World(o) ==
    \/ CustomerPays(o) \/ HoldLapses(o) \/ ChannelReady(o)
    \/ PaymentStarts(o) \/ PaymentEnds(o) \/ Tick(o)

Next ==
    \/ \E o \in Orders :
          \/ RunStep(o) \/ Request(o) \/ World(o) \/ CrashAfterHeld(o)
          \/ \E h \in Handlers : SharedStep(o, h)
    \/ Crash
    \/ Boot

\* The event loop keeps running handlers whose RPC has been answered, nodes
\* answer, the process is restarted, an in-flight payment ends (its TLC
\* expires at the latest) and time passes.  Customers and merchants owe nothing.
Fairness ==
    /\ \A o \in Orders :
          /\ WF_vars(RunStep(o) \/ SharedStep(o, "run"))
          /\ \A h \in {"reveal", "cancel"} : WF_vars(SharedStep(o, h))
          /\ WF_vars(PaymentStarts(o))
          /\ WF_vars(PaymentEnds(o))
          /\ WF_vars(HoldLapses(o))
          /\ WF_vars(Tick(o))
    /\ WF_vars(Boot)

Spec == Init /\ [][Next]_vars
FairSpec == Spec /\ Fairness

-----------------------------------------------------------------------------
(* Properties *)

\* The customer's money is taken only after the merchant's payment succeeded:
\* a hold is settled by nothing but a proven payment (trySettle).
MerchantPaidFirst ==
    \A o \in Orders : payer[o] = "taken" => pay[o] = "Success"

\* The LSP opens a channel, and sends a payment, only for an order whose
\* customer had locked the money (run's order of effects).
HeldBeforeCapital ==
    \A o \in Orders :
        (opens[o] > 0 \/ pay[o] # "None") => payer[o] # "unpaid"

\* An order the store, the API and the webhooks call settled is one whose hold
\* invoice was paid out to the LSP (trySettle's last update).
SettledIsPaid ==
    \A o \in Orders : state[o] = "settled" => hold[o] = "Paid"

\* A merchant whose hashes are not linked, and whose preimage is therefore of
\* no use, does not hold up the order for ever: once paid, it is refunded and
\* the customer's money is free again (the linkage backstop of trySettle).
ForgedIsRefunded ==
    \A o \in Forged :
        pay[o] = "Success" ~> (state[o] = "refunded" /\ payer[o] = "returned")

Honest == Orders \ Forged

\* Once the payment to an honest merchant is in flight or made, the customer's
\* money does not go back: the LSP never pays such a merchant for nothing.
CommitmentKept ==
    \A o \in Honest :
        pay[o] \in {"Inflight", "Success"} => payer[o] \in {"locked", "taken"}

\* An order called expired has cost nobody anything, although its customer may
\* have paid after the last poll (waitForHold does not cancel the hold, which
\* returns that money by itself): no channel, no payment, no money taken.
ExpiredTookNothing ==
    \A o \in Orders :
        state[o] = "expired" => opens[o] = 0 /\ pay[o] = "None" /\ payer[o] # "taken"

\* The effects of an order keep their order: the customer's money is locked
\* before the LSP's capital moves, the merchant is paid before that money is
\* taken, and the order is called settled only then, and expired only when
\* nothing was spent on it.
EffectsInOrder ==
    HeldBeforeCapital /\ MerchantPaidFirst /\ SettledIsPaid /\ ExpiredTookNothing

\* The LSP's capital goes into one channel per start of the process: run()
\* never opens a second one by itself (openChannelAndAwait returns or throws,
\* and both end the opening).
OpensPerStart == \A o \in Orders : opens[o] <= 1 + crashes

\* The LSP never cancels a hold whose payment to an honest merchant is in flight
\* or made ("capital is committed; never refund past this", merchantCommitted);
\* that of a merchant with forged hashes it does (ForgedIsRefunded).
NeverRefundCommitted ==
    [][\A o \in Honest :
          hold[o] # "Cancelled" /\ hold'[o] = "Cancelled"
          => pay[o] \notin {"Inflight", "Success"}]_vars

\* An order is called refunded only when the customer's money is not locked
\* any more ("hold cancelled, payer refunded").
RefundedIsReleased ==
    \A o \in Orders : state[o] = "refunded" => payer[o] \notin {"locked", "taken"}

\* Every order ends: it is settled, refunded or expired, and stays so.
EveryOrderEnds == \A o \in Orders : <>[](state[o] \in Terminal)

\* After restarts an order can be left unfinished only in forwarding with the
\* merchant paid, the case that waits for reveal().
EndsOrAwaitsReveal ==
    \A o \in Orders :
        <>[](\/ state[o] \in Terminal
            \/ (state[o] = "forwarding" /\ pay[o] = "Success"))

\* How far the merchant is paid, to whom only the promise matters.
Stage(s) == IF s \in {"Created", "Inflight"} THEN "paying"
            ELSE IF s = "Success" THEN "paid" ELSE "unpaid"

\* What the parties are promised, as JitEscrow states it, when the merchant's
\* hashes are linked.
Escrow == INSTANCE JitEscrow WITH
    Orders <- Honest,
    payer <- [o \in Honest |-> payer[o]],
    capital <- [o \in Honest |-> opens[o] > 0],
    merchant <- [o \in Honest |-> Stage(pay[o])]

EscrowKept == Escrow!Spec

=============================================================================
