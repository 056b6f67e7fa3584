--------------------------- MODULE InvoiceWebhooks ---------------------------
(***************************************************************************)
(* The settlement webhooks of a merchant backend:                          *)
(* packages/lsp-server/src/invoiceWebhooks.ts, over watchStore.ts.         *)
(*                                                                         *)
(* A watch is stored, and a loop polls the merchant's node until the       *)
(* invoice is over, stores a receipt and posts one event.  resume() starts *)
(* the loops again after a restart.  A loop is cut at its awaits; the one  *)
(* turn that follows an answer writes the store up to twice, and the       *)
(* process may die between the two writes.                                 *)
(*                                                                         *)
(* External: the merchant's node, its customers, and the posted-to server. *)
(***************************************************************************)
EXTENDS Naturals

CONSTANTS
    Watches,     \* the watches, each of one invoice
    MaxCrashes,  \* bound on restarts of the process
    Faults       \* what may go wrong in this instance

AllFaults ==
    { "crash",    \* the process dies and boots again
      "rpc",      \* get_invoice fails, for as long as the node likes
      "post",     \* the POST of an event fails, before or after it arrived
      "giveUp" }  \* a loop spends its pollAttempts

ASSUME WatchFaultsAssumption == Faults \subseteq AllFaults
ASSUME WatchCrashesAssumption == MaxCrashes \in Nat

VARIABLES
    status,   \* stored watch: last observed status, "none" before it exists
    receipt,  \* stored watch: the status on its receipt, "none" before one
    pc,       \* where the loop of each watch stands
    reply,    \* the last answer each loop received
    up,       \* the process runs
    crashes,  \* restarts so far
    invoice,  \* merchant's node: status of the invoice
    posted    \* events the backend received for the watch, 2 standing for more

vars == <<status, receipt, pc, reply, up, crashes, invoice, posted>>
stored == <<status, receipt>>
process == <<up, crashes>>

Final == {"Paid", "Cancelled", "Expired"}
InvoiceStatus == {"Open", "Received"} \cup Final
Pcs == {"off", "ask", "got", "fire", "gaveUp"}

Goto(w, p) == pc' = [pc EXCEPT ![w] = p]

Init ==
    /\ status = [w \in Watches |-> "none"]
    /\ receipt = [w \in Watches |-> "none"]
    /\ pc = [w \in Watches |-> "off"]
    /\ reply = [w \in Watches |-> "none"]
    /\ up = TRUE
    /\ crashes = 0
    /\ invoice = [w \in Watches |-> "Open"]
    /\ posted = [w \in Watches |-> 0]

-----------------------------------------------------------------------------
(* Slips: mistakes one could make in the steps below.                       *)

\* resume() takes up only the watches that nothing was ever seen of.
EntryPcOpen(w) ==
    IF receipt[w] = "none" /\ status[w] = "Open" THEN "ask" ELSE "off"

\* A held payment counts as a received one.
FinalizeHeld(w) ==
    /\ pc[w] = "got"
    /\ reply[w] \in Final \cup {"Received"}
    /\ status' = [status EXCEPT ![w] = reply[w]]
    /\ receipt' = [receipt EXCEPT ![w] =
                     IF reply[w] = "Received" THEN "Paid" ELSE reply[w]]
    /\ Goto(w, "fire")
    /\ UNCHANGED <<reply, process, invoice, posted>>

\* A POST that failed is made again.
FireRetries(w) ==
    /\ pc[w] = "fire"
    /\ \/ /\ posted' = [posted EXCEPT ![w] = IF @ = 2 THEN 2 ELSE @ + 1]
          /\ Goto(w, "off") \/ ("post" \in Faults /\ Goto(w, "fire"))
       \/ /\ "post" \in Faults
          /\ Goto(w, "fire")
          /\ UNCHANGED posted
    /\ UNCHANGED <<stored, reply, process, invoice>>

-----------------------------------------------------------------------------

\* resume() takes up what has no receipt and no final status.
EntryPc(w) ==
    IF receipt[w] = "none" /\ status[w] \in InvoiceStatus \ Final
    THEN "ask" ELSE "off"

\* register() or watchExisting(): begin stores the watch and spawns its loop.
Begin(w) ==
    /\ up
    /\ status[w] = "none"
    /\ status' = [status EXCEPT ![w] = "Open"]
    /\ Goto(w, "ask")
    /\ UNCHANGED <<receipt, reply, process, invoice, posted>>

AskAnswered(w) ==
    /\ pc[w] = "ask"
    /\ reply' = [reply EXCEPT ![w] = invoice[w]]
    /\ Goto(w, "got")
    /\ UNCHANGED <<stored, process, invoice, posted>>

AskFailed(w) ==
    /\ "rpc" \in Faults
    /\ pc[w] = "ask"
    /\ reply' = [reply EXCEPT ![w] = "error"]
    /\ Goto(w, "got")
    /\ UNCHANGED <<stored, process, invoice, posted>>

\* Not over, or not known: keep the status, sleep, and poll again.
NotOver(w) ==
    /\ pc[w] = "got"
    /\ reply[w] \notin Final
    /\ status' = [status EXCEPT ![w] = IF reply[w] = "error" THEN @ ELSE reply[w]]
    /\ Goto(w, "ask")
    /\ UNCHANGED <<receipt, reply, process, invoice, posted>>

\* The same after the last of pollAttempts: the watch is left as it is.
GiveUp(w) ==
    /\ "giveUp" \in Faults
    /\ pc[w] = "got"
    /\ reply[w] \notin Final
    /\ status' = [status EXCEPT ![w] = IF reply[w] = "error" THEN @ ELSE reply[w]]
    /\ Goto(w, "gaveUp")
    /\ UNCHANGED <<receipt, reply, process, invoice, posted>>

\* The status, then the receipt, are stored, and the event is posted.
Finalize(w) ==
    /\ pc[w] = "got"
    /\ reply[w] \in Final
    /\ status' = [status EXCEPT ![w] = reply[w]]
    /\ receipt' = [receipt EXCEPT ![w] = reply[w]]
    /\ Goto(w, "fire")
    /\ UNCHANGED <<reply, process, invoice, posted>>

\* Best effort: a failed POST, whether it arrived or not, ends the loop too.
Fire(w) ==
    /\ pc[w] = "fire"
    /\ \/ posted' = [posted EXCEPT ![w] = IF @ = 2 THEN 2 ELSE @ + 1]
       \/ "post" \in Faults /\ UNCHANGED posted
    /\ Goto(w, "off")
    /\ UNCHANGED <<stored, reply, process, invoice>>

-----------------------------------------------------------------------------
(* The process and the node *)

Die ==
    /\ "crash" \in Faults
    /\ up
    /\ crashes < MaxCrashes
    /\ up' = FALSE
    /\ crashes' = crashes + 1
    /\ pc' = [w \in Watches |-> "off"]
    /\ reply' = [w \in Watches |-> "none"]

Crash == Die /\ UNCHANGED <<stored, invoice, posted>>

\* Death between the two writes of Finalize.
CrashInFinalize(w) ==
    /\ pc[w] = "got"
    /\ reply[w] \in Final
    /\ Die
    /\ status' = [status EXCEPT ![w] = reply[w]]
    /\ UNCHANGED <<receipt, invoice, posted>>

Boot ==
    /\ ~up
    /\ up' = TRUE
    /\ pc' = [w \in Watches |-> EntryPc(w)]
    /\ UNCHANGED <<stored, reply, crashes, invoice, posted>>

InvoiceMoves(w) ==
    /\ \/ /\ invoice[w] = "Open"
          /\ \E s \in {"Received", "Paid", "Cancelled", "Expired"} :
                invoice' = [invoice EXCEPT ![w] = s]
       \/ /\ invoice[w] = "Received"
          /\ \E s \in Final : invoice' = [invoice EXCEPT ![w] = s]
    /\ UNCHANGED <<stored, pc, reply, process, posted>>

LoopTurn(w) == NotOver(w) \/ GiveUp(w) \/ Finalize(w) \/ Fire(w)

Next ==
    \/ \E w \in Watches :
          \/ Begin(w) \/ AskAnswered(w) \/ AskFailed(w) \/ LoopTurn(w)
          \/ CrashInFinalize(w) \/ InvoiceMoves(w)
    \/ Crash
    \/ Boot

\* Loops run on, the process is restarted, and a node that is asked for ever
\* does not fail for ever.
Fairness ==
    /\ \A w \in Watches : WF_vars(LoopTurn(w)) /\ SF_vars(AskAnswered(w))
    /\ WF_vars(Boot)

Spec == Init /\ [][Next]_vars
FairSpec == Spec /\ Fairness

-----------------------------------------------------------------------------
(* Properties *)

TypeOK ==
    /\ status \in [Watches -> InvoiceStatus \cup {"none"}]
    /\ receipt \in [Watches -> Final \cup {"none"}]
    /\ pc \in [Watches -> Pcs]
    /\ reply \in [Watches -> InvoiceStatus \cup {"none", "error"}]
    /\ up \in BOOLEAN
    /\ crashes \in Nat
    /\ invoice \in [Watches -> InvoiceStatus]
    /\ posted \in [Watches -> 0..2]

\* The backend gets at most one event for a watch, over any number of
\* restarts and however its POSTs fail.
OneEvent == \A w \in Watches : posted[w] <= 1

\* An event, and a receipt in the store, tell how the invoice really ended.
ReceiptIsTrue ==
    \A w \in Watches :
        posted[w] > 0 \/ receipt[w] # "none" => receipt[w] = invoice[w]

\* The end of a watched invoice is seen, whatever restarts and failed polls
\* come between, unless its loop spent its polls: resume() loses no watch.
SettlementSeen ==
    \A w \in Watches :
        status[w] # "none" /\ invoice[w] \in Final
        ~> status[w] = invoice[w] \/ pc[w] = "gaveUp"

\* The merchant backend is told of the end of every invoice it watches ("never
\* loses a settlement notification", watchStore.ts).
SettlementNotified ==
    \A w \in Watches :
        status[w] # "none" /\ invoice[w] \in Final ~> posted[w] > 0

=============================================================================
