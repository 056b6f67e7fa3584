------------------------------ MODULE Checkout ------------------------------
(***************************************************************************)
(* From the invoice shown to the receipt filed: MerchantCheckout, the      *)
(* strategies DirectReceive, JitReceive and autoStrategy, PaymentWatcher,  *)
(* the session of JitCheckout and SettlementLedger (packages/client/src).  *)
(*                                                                         *)
(* A just-in-time intent has two invoices: the hold invoice of the LSP,    *)
(* which the customer pays, and the merchant's own, which the LSP pays.    *)
(* The session watches the latter and then the LSP's order; a second       *)
(* awaitSettlement finds no session and watches the intent's hash.         *)
(***************************************************************************)
EXTENDS Integers, FiniteSets

CONSTANTS
    Intents,    \* payment intents
    Calls,      \* calls of awaitSettlement for each
    HashModes,  \* JIT modes: "same-hash", "linked"
    MaxFails, MaxRestarted    \* bounds on failing reads, and on restarts

ASSUME CheckoutAssumption == IsFiniteSet(Intents)

VARIABLES
    strategy, mode,  \* of the checkout, and of its JIT sessions
    keeps,           \* the LSP never refunds what it paid the merchant for
    how,             \* by what an intent was originated: none, built-in, direct, jit
    durable,         \* the ledger is kept in a file
    session,         \* the backend still has the session of the intent
    handle,          \* pending: nobody took that session yet
    own, jit,        \* the merchant's invoice; the LSP's order
    call,            \* where each awaitSettlement is
    shownReceipt,    \* the receipts returned
    notices,         \* statuses posted to the merchant's webhook, by intent
    revealed,        \* the merchant's preimage was handed to the LSP
    filed,           \* the ledger: receipts recorded
    audit,           \* reconcile(): idle, running, done or failed
    todo, flagged,   \* its receipts still to compare, and the discrepancies
    atStart,         \* history: the invoices of its receipts when it started
    fails, restarted

checkoutTerms == <<strategy, mode, keeps, durable>>
outside == <<own, jit>>
books == <<filed, audit, todo, flagged, atStart>>
sessions == <<session, handle>>
counted == <<fails, restarted>>
checkoutVars == <<checkoutTerms, how, sessions, own, jit, call, shownReceipt,
                  notices, revealed, filed, audit, todo, flagged, atStart, counted>>

Ends == {"Paid", "Cancelled", "Expired"}
Waits == Intents \X Calls

CheckoutInit ==
    /\ strategy \in {"none", "direct", "jit", "auto"}
    /\ mode \in HashModes
    /\ keeps \in BOOLEAN /\ durable \in BOOLEAN
    /\ how = [i \in Intents |-> "none"]
    /\ session = [i \in Intents |-> FALSE] /\ handle = session
    /\ own = [i \in Intents |-> "none"]
    /\ jit = [i \in Intents |-> "none"]
    /\ call = [w \in Waits |-> "off"]
    /\ shownReceipt = [w \in Waits |-> "none"]
    /\ notices = [i \in Intents |-> {}]
    /\ revealed = [i \in Intents |-> FALSE]
    /\ filed = {}
    /\ audit = "idle" /\ todo = {} /\ flagged = {}
    /\ atStart = [w \in Waits |-> "none"]
    /\ fails = 0 /\ restarted = 0

-----------------------------------------------------------------------------
(* Slips: mistakes one could make in the steps below, none of them in the   *)
(* code.                                                                    *)

\* A payment that is only held counts as made.
OutcomeHasty(answer) == IF answer = "Received" THEN "Paid" ELSE answer

\* Only receipts of payments are compared.
DiffersPaid(w, answer) == shownReceipt[w] = "Paid" /\ answer # "Paid"

-----------------------------------------------------------------------------
(* createIntent *)

\* What originates the intent: the built-in path, the strategy, or the one
\* autoStrategy picks from the readiness it reads.
Originators ==
    CASE strategy = "none" -> {"built-in"}
      [] strategy = "auto" -> {"direct", "jit"}
      [] OTHER -> {strategy}

CreateIntent(i) ==
    /\ how[i] = "none"
    /\ \E m \in Originators :
          /\ how' = [how EXCEPT ![i] = m]
          /\ session' = [session EXCEPT ![i] = m # "built-in"]
          /\ handle' = [handle EXCEPT ![i] = m # "built-in"]
          /\ jit' = [jit EXCEPT ![i] = IF m = "jit" THEN "open" ELSE "none"]
    /\ own' = [own EXCEPT ![i] = "Open"]
    /\ UNCHANGED <<checkoutTerms, call, shownReceipt, notices, revealed, books, counted>>

-----------------------------------------------------------------------------
(* awaitSettlement *)

FirstWatch(i) == IF how[i] = "jit" /\ handle[i] THEN "own" ELSE "watch"

\* The session is taken out of pending before it is awaited.
Await(i, c) ==
    /\ how[i] # "none" /\ call[<<i, c>>] = "off"
    /\ call' = [call EXCEPT ![<<i, c>>] = FirstWatch(i)]
    /\ handle' = [handle EXCEPT ![i] = FALSE]
    /\ UNCHANGED <<checkoutTerms, how, session, outside, shownReceipt, notices, revealed,
                   books, counted>>

\* What the merchant's node answers for the intent's hash, which in a linked
\* session is that of the LSP's invoice.
Answers(i) ==
    IF how[i] = "jit" /\ mode = "linked" THEN {"Open", "unknown"} ELSE {own[i]}

\* buildReceipt, and the event of a final status, posted as well as it may.
ShowReceipt(i, c, answer) ==
    /\ shownReceipt' = [shownReceipt EXCEPT ![<<i, c>>] = answer]
    /\ notices' = [notices EXCEPT ![i] = @ \cup ({answer} \cap Ends)]
    /\ call' = [call EXCEPT ![<<i, c>>] = "done"]

Outcome(answer) == answer

\* waitForPayment: to a final status, or until the attempts are used up.
Watch(i, c) ==
    /\ call[<<i, c>>] = "watch"
    /\ \E answer \in Answers(i) :
          IF answer = "unknown"
          THEN /\ call' = [call EXCEPT ![<<i, c>>] = "threw"]
               /\ UNCHANGED <<shownReceipt, notices>>
          ELSE ShowReceipt(i, c, Outcome(answer))
    /\ UNCHANGED <<checkoutTerms, how, sessions, outside, revealed, books, counted>>

\* The session, first: the merchant's own invoice.
WatchOwn(i, c) ==
    /\ call[<<i, c>>] = "own"
    /\ IF own[i] = "Paid"
       THEN /\ call' = [call EXCEPT ![<<i, c>>] = "order"]
            /\ UNCHANGED <<shownReceipt, notices>>
       ELSE ShowReceipt(i, c, IF own[i] \in Ends THEN own[i] ELSE "Open")
    /\ UNCHANGED <<checkoutTerms, how, sessions, outside, revealed, books, counted>>

\* Then the LSP's order.
WatchOrder(i, c) ==
    /\ call[<<i, c>>] = "order"
    /\ ShowReceipt(i, c, CASE jit[i] = "settled" -> "Paid"
                      [] jit[i] = "refunded" -> "Cancelled"
                      [] jit[i] = "expired" -> "Expired"
                      [] OTHER -> "Open")
    /\ UNCHANGED <<checkoutTerms, how, sessions, outside, revealed, books, counted>>

\* A read fails: the session makes it an open receipt, the watcher throws.
ReadFails(i, c) ==
    /\ fails < MaxFails /\ fails' = fails + 1
    /\ \/ /\ call[<<i, c>>] = "watch"
          /\ call' = [call EXCEPT ![<<i, c>>] = "threw"]
          /\ UNCHANGED <<shownReceipt, notices>>
       \/ call[<<i, c>>] \in {"own", "order"} /\ ShowReceipt(i, c, "Open")
    /\ UNCHANGED <<checkoutTerms, how, sessions, outside, revealed, books, restarted>>

-----------------------------------------------------------------------------
(* The session's other calls *)

RevealFallback(i) ==
    /\ how[i] = "jit" /\ session[i] /\ ~revealed[i]
    /\ own[i] = "Paid"
    /\ revealed' = [revealed EXCEPT ![i] = TRUE]
    /\ UNCHANGED <<checkoutTerms, how, sessions, outside, call, shownReceipt, notices,
                   books, counted>>

\* session.cancel: the LSP refunds what it has not paid for.
Cancel(i) ==
    /\ session[i] /\ jit[i] = "open" /\ own[i] = "Open"
    /\ jit' = [jit EXCEPT ![i] = "refunded"]
    /\ UNCHANGED <<checkoutTerms, how, sessions, own, call, shownReceipt, notices,
                   revealed, books, counted>>

-----------------------------------------------------------------------------
(* The ledger *)

Record(w) ==
    /\ call[w] = "done" /\ w \notin filed
    /\ filed' = filed \cup {w}
    /\ UNCHANGED <<checkoutTerms, how, sessions, outside, call, shownReceipt, notices,
                   revealed, audit, todo, flagged, atStart, counted>>

\* reconcile() takes what is recorded now ...
Reconcile ==
    /\ audit = "idle" /\ filed # {}
    /\ audit' = "running"
    /\ todo' = filed
    /\ atStart' = [w \in Waits |-> IF w \in filed THEN own[w[1]] ELSE "none"]
    /\ UNCHANGED <<checkoutTerms, how, sessions, outside, call, shownReceipt, notices,
                   revealed, filed, flagged, counted>>

Differs(w, answer) == answer # shownReceipt[w]

\* ... and asks the node for one receipt after the other.
Compare(w) ==
    /\ audit = "running" /\ w \in todo
    /\ \E answer \in Answers(w[1]) :
          IF answer = "unknown"
          THEN /\ audit' = "failed"
               /\ UNCHANGED <<todo, flagged>>
          ELSE /\ todo' = todo \ {w}
               /\ audit' = IF todo' = {} THEN "done" ELSE "running"
               /\ flagged' = IF Differs(w, answer) THEN flagged \cup {w} ELSE flagged
    /\ UNCHANGED <<checkoutTerms, how, sessions, outside, call, shownReceipt, notices,
                   revealed, filed, atStart, counted>>

\* totals(): what the paid receipts add up to, an intent being of one unit.
Totals == [receipts |-> Cardinality(filed),
           received |-> Cardinality({w \in filed : shownReceipt[w] = "Paid"})]

\* The backend starts again.  What waited is cut, receipts not filed are gone, and
\* so are the sessions with their secrets; a ledger in a file has its receipts.
Reload == IF durable THEN filed ELSE {}
BackendRestarts ==
    /\ restarted < MaxRestarted /\ restarted' = restarted + 1
    /\ filed' = Reload
    /\ call' = [w \in Waits |-> IF call[w] # "off" /\ w \notin filed' THEN "threw"
                               ELSE call[w]]
    /\ session' = [i \in Intents |-> FALSE] /\ handle' = session'
    /\ audit' = "idle" /\ todo' = {} /\ flagged' = {}
    /\ atStart' = [w \in Waits |-> "none"]
    /\ UNCHANGED <<checkoutTerms, how, outside, shownReceipt, notices, revealed, fails>>

-----------------------------------------------------------------------------
(* The customer, the nodes and the LSP *)

OwnMoves(i) ==
    /\ \/ /\ own[i] = "Open"
          /\ how[i] = "jit" => jit[i] = "open"
          /\ own' = [own EXCEPT ![i] = "Received"]
       \/ /\ own[i] = "Open"
          /\ \E s \in {"Cancelled", "Expired"} : own' = [own EXCEPT ![i] = s]
       \/ /\ own[i] = "Received"
          /\ own' = [own EXCEPT ![i] = "Paid"]
    /\ UNCHANGED <<checkoutTerms, how, sessions, jit, call, shownReceipt, notices,
                   revealed, books, counted>>

OrderEnds(i) ==
    /\ jit[i] = "open"
    /\ \/ /\ own[i] = "Paid"
          /\ jit' = [jit EXCEPT ![i] = "settled"]
       \/ /\ own[i] \in {"Received", "Paid"} => ~keeps
          /\ \E s \in {"refunded", "expired"} : jit' = [jit EXCEPT ![i] = s]
    /\ UNCHANGED <<checkoutTerms, how, sessions, own, call, shownReceipt, notices,
                   revealed, books, counted>>

CheckoutNext ==
    \/ \E i \in Intents :
          \/ CreateIntent(i) \/ RevealFallback(i) \/ Cancel(i)
          \/ OwnMoves(i) \/ OrderEnds(i)
          \/ \E c \in Calls :
                \/ Await(i, c) \/ Watch(i, c) \/ WatchOwn(i, c)
                \/ WatchOrder(i, c) \/ ReadFails(i, c)
    \/ \E w \in Waits : Record(w) \/ Compare(w)
    \/ Reconcile \/ BackendRestarts

CheckoutSpec == CheckoutInit /\ [][CheckoutNext]_checkoutVars

-----------------------------------------------------------------------------
(* Properties *)

\* A receipt or an event that says Paid is for money the merchant's node has,
\* and so is a preimage handed to the LSP; a receipt over the merchant's own
\* invoice agrees with it; and if the LSP keeps to its part, two calls for one
\* intent, of which one has the session and the other not, never tell the
\* merchant of two different ends (awaitSettlement, deliver, the reveal).  What
\* the ledger says was received came in, each intent filed once.
ReceiptsTrue ==
    /\ (\A w, x \in filed : w[1] = x[1] => w = x)
           => Totals.received <= Cardinality({i \in Intents : own[i] = "Paid"})
    /\ \A i \in Intents :
        /\ "Paid" \in notices[i] \/ revealed[i] => own[i] = "Paid"
        /\ keeps => Cardinality(notices[i]) <= 1
        /\ \A c \in Calls :
            /\ shownReceipt[<<i, c>>] = "Paid" => own[i] = "Paid"
            /\ how[i] # "jit" /\ shownReceipt[<<i, c>>] \in Ends
                  => shownReceipt[<<i, c>>] = own[i]

\* A report of reconcile() flags every receipt whose invoice had ended in
\* another way when it started, such as a payment that came after the waiting.
LateMoneyFlagged ==
    audit = "done" =>
        \A w \in Waits : \/ w \in flagged
                         \/ atStart[w] \notin Ends
                         \/ how[w[1]] = "jit" /\ mode = "linked"
                         \/ shownReceipt[w] = atStart[w]

\* What a merchant is told and files is true, and an audit finds the money that
\* came after it stopped waiting (MerchantCheckout, SettlementLedger).
BooksTrue == ReceiptsTrue /\ LateMoneyFlagged

=============================================================================
