------------------------------ MODULE JitCreate ------------------------------
(***************************************************************************)
(* How a JIT order comes to be: JitCheckout.checkout of the merchant's SDK *)
(* (packages/client/src/JitCheckout.ts) composed with createOrder of the   *)
(* LSP (packages/lsp-server/src/jit.ts) and createLock between them.       *)
(*                                                                         *)
(* A creation is either a checkout of the SDK, or a request somebody wrote *)
(* by hand, whose fields need not fit each other.  The awaits cut it into  *)
(* steps: the linkage verifier, parse_invoice and new_invoice of the hold  *)
(* node.  Both invoices and the proof stand for the secret they come from. *)
(***************************************************************************)
EXTENDS Integers, Sequences, SequencesExt

CONSTANTS
    Checkouts, Requests,        \* creations: by the SDK, by hand
    Secrets, Secret,            \* Secret[c]: what checkout c drew
    HasVerifier, HasPayNode,    \* what the deployment was given
    FeeBps, FeeBase, MinPayment,        \* JitTerms
    MinCapacity, MaxCapacity, Multiplier,  \* of the offering, and sizing
    OpenBudget, SettleMargin, MaxExpiry, DefaultExpiry, \* seconds
    Buffer,                     \* merchantInvoiceExpiryBufferSeconds
    Amounts, Asks, Sizes, Lives, \* inputs; 0 in Asks and Sizes is no wish
    MaxNow, MaxCrashes          \* bounds of the clock and of restarts

Creations == Checkouts \cup Requests

ASSUME SecretAssumption ==
    /\ Secret \in [Checkouts -> Secrets]
    /\ \A c, d \in Checkouts : Secret[c] = Secret[d] => c = d
ASSUME RequestsAssumption == Checkouts \cap Requests = {}
ASSUME DeploymentAssumption ==
    /\ HasVerifier \in BOOLEAN /\ HasPayNode \in BOOLEAN
    /\ HasVerifier \/ HasPayNode
ASSUME TermsAssumption ==
    /\ FeeBps \in Nat /\ FeeBase \in Nat /\ MinPayment \in Nat
    /\ MinCapacity \in Nat /\ MaxCapacity \in Nat /\ Multiplier \in Nat
    /\ OpenBudget \in Nat /\ SettleMargin \in Nat /\ Buffer \in Nat
    /\ MaxExpiry \in Nat /\ DefaultExpiry \in Nat
    /\ Amounts \subseteq Nat /\ Asks \subseteq Nat /\ Sizes \subseteq Nat
    /\ Lives \subseteq Nat

VARIABLES
    createAt,  \* where each creation is
    body,      \* the CreateJitOrderRequest of each creation
    line,      \* createLock: the creations in it, in the order of their calls
    grant,     \* hold window and time of a creation that passed its checks
    store,     \* the JIT orders stored, by creation
    issued,    \* hold node: creations it made a hold invoice for
    now, crashes

createVars == <<createAt, body, line, grant, store, issued, now, crashes>>

Larger(a, b) == IF a > b THEN a ELSE b
Smaller(a, b) == IF a < b THEN a ELSE b

Modes == (IF HasVerifier THEN {"linked"} ELSE {})
         \cup (IF HasPayNode THEN {"same_hash"} ELSE {})

\* sha256(S), and sha256(poseidon(S)).
Plain(s) == <<"sha256", s>>
Derived(s) == <<"poseidon", s>>
Hashes == {Plain(s) : s \in Secrets} \cup {Derived(s) : s \in Secrets}

JitFee(gross) == (gross * FeeBps + 9999) \div 10000 + FeeBase
Forward(gross) == gross - JitFee(gross)

\* A slip, not the code's: the floor of the window for one opening only.
MinExpiryBare == OpenBudget + SettleMargin
MinExpiry == 2 * OpenBudget + SettleMargin
TooClose(time, deadline) == time + OpenBudget + SettleMargin >= deadline

\* The window granted for a wish, 0 being none.
Window(ask) ==
    LET wish == IF ask = 0 THEN Larger(DefaultExpiry, MinExpiry) ELSE ask
    IN  Smaller(Larger(wish, MinExpiry), MaxExpiry)

Capacity(b) ==
    Larger(IF b.size = 0 THEN b.gross * Multiplier ELSE b.size, MinCapacity)

NoBody == [mode |-> "none"]
NoGrant == [window |-> 0, at |-> 0]

CreateInit ==
    /\ createAt = [c \in Creations |-> "idle"]
    /\ body = [c \in Creations |-> NoBody]
    /\ line = <<>>
    /\ grant = [c \in Creations |-> NoGrant]
    /\ store = [c \in Creations |-> "none"]
    /\ issued = {}
    /\ now = 0
    /\ crashes = 0

-----------------------------------------------------------------------------
(* Slips: mistakes one could make in the steps below, none of them in the   *)
(* code.                                                                    *)

\* Creations do not wait for each other.
MyTurnAlways(c) == c \in ToSet(line)

\* The net amount rounds the fee down where the LSP rounds it up.
NetFloor(gross) == gross - ((gross * FeeBps) \div 10000 + FeeBase)

-----------------------------------------------------------------------------
(* The SDK *)

\* jitForwardAmount, as the merchant's side computes it.
Net(gross) == Forward(gross)

SelectMode(pinned) ==
    IF pinned # "any" THEN pinned
    ELSE IF "same_hash" \in Modes THEN "same_hash" ELSE "linked"

\* checkout(): mode, secret, net amount, merchant invoice and proof, all with
\* the terms read just before.  A pinned mode that is not offered, or a fee
\* that eats the payment, ends it here.
Checkout(c) ==
    /\ createAt[c] = "idle"
    /\ c \in Checkouts
    /\ \E pinned \in {"any", "linked", "same_hash"}, gross \in Amounts,
          ask \in Asks, size \in Sizes :
          LET mode == SelectMode(pinned)
              merchant == Plain(Secret[c])
          IN  IF mode \notin Modes \/ Net(gross) <= 0
              THEN /\ createAt' = [createAt EXCEPT ![c] = "given up"]
                   /\ UNCHANGED body
              ELSE /\ createAt' = [createAt EXCEPT ![c] = "sent"]
                   /\ body' = [body EXCEPT ![c] =
                        [mode |-> mode, gross |-> gross, net |-> Net(gross),
                         merchant |-> merchant, invoice |-> merchant,
                         hold |-> IF mode = "linked" THEN Derived(Secret[c])
                                  ELSE merchant,
                         proof |-> mode = "linked", address |-> TRUE,
                         ask |-> ask, size |-> size,
                         until |-> now + Larger(ask, MaxExpiry) + Buffer]]
    /\ UNCHANGED <<line, grant, store, issued, now, crashes>>

\* A request that did not come from the SDK: its net amount and its invoice
\* may be those of another.
Post(c) ==
    /\ createAt[c] = "idle"
    /\ c \in Requests
    /\ \E mode \in {"linked", "same_hash"}, gross \in Amounts,
          hold, merchant, invoice \in Hashes, ask \in Asks, life \in Lives,
          proof, address \in BOOLEAN :
       \E net \in {gross, Forward(gross)} :
          body' = [body EXCEPT ![c] =
              [mode |-> mode, gross |-> gross, net |-> net,
               merchant |-> merchant, invoice |-> invoice, hold |-> hold,
               proof |-> proof, address |-> address,
               ask |-> ask, size |-> 0, until |-> now + life]]
    /\ createAt' = [createAt EXCEPT ![c] = "sent"]
    /\ UNCHANGED <<line, grant, store, issued, now, crashes>>

-----------------------------------------------------------------------------
(* The LSP *)

\* createOrder: the call takes its place in createLock.
Create(c) ==
    /\ createAt[c] = "sent"
    /\ line' = Append(line, c)
    /\ createAt' = [createAt EXCEPT ![c] = "waiting"]
    /\ UNCHANGED <<body, grant, store, issued, now, crashes>>

\* No creation for this merchant hash is in the lock ahead of c.
MyTurn(c) ==
    \E i \in DOMAIN line :
        /\ line[i] = c
        /\ \A j \in 1 .. i - 1 : body[line[j]].merchant # body[c].merchant

\* The creation answers and leaves the lock.
Answer(c, code) ==
    /\ createAt' = [createAt EXCEPT ![c] = code]
    /\ \E i \in DOMAIN line : line[i] = c /\ line' = RemoveAt(line, i)

\* It answers with an error; its request is gone.
Refuse(c, code) == Answer(c, code) /\ body' = [body EXCEPT ![c] = NoBody]
Pass(c, next) == createAt' = [createAt EXCEPT ![c] = next] /\ UNCHANGED <<line, body>>

\* The checks before the first await, and the mode's own: a proof holds for
\* the two hashes of one secret.
Proven(b) ==
    b.proof /\ \E s \in Secrets : b.hold = Derived(s) /\ b.merchant = Plain(s)

EntryCode(b) ==
    IF ~b.address THEN "missing_target_address"
    ELSE IF b.mode \notin Modes THEN "unsupported_mode"
    ELSE IF b.gross < MinPayment THEN "amount_too_small"
    ELSE IF (b.mode = "linked") = (b.hold = b.merchant) THEN "hash_mismatch"
    ELSE IF b.mode = "linked" /\ ~Proven(b) THEN "linkage_invalid"
    ELSE "ok"

Admit(c) ==
    /\ createAt[c] = "waiting"
    /\ MyTurn(c)
    /\ IF EntryCode(body[c]) = "ok"
       THEN Pass(c, "admitted")
       ELSE Refuse(c, EntryCode(body[c]))
    /\ UNCHANGED <<grant, store, issued, now, crashes>>

\* assertNoDuplicate looks at the orders that have not ended.
Duplicate(b) ==
    \E d \in Creations :
        /\ store[d] = "active"
        /\ \/ body[d].hold = b.hold \/ body[d].merchant = b.merchant
           \/ body[d].invoice = b.invoice

NoDuplicate(c) ==
    /\ createAt[c] = "admitted"
    /\ IF Duplicate(body[c]) THEN Refuse(c, "duplicate_order")
       ELSE IF JitFee(body[c].gross) >= body[c].gross
       THEN Refuse(c, "fee_exceeds_amount")
       ELSE Pass(c, "parsing")
    /\ UNCHANGED <<grant, store, issued, now, crashes>>

InvoiceCode(b) ==
    IF b.invoice # b.merchant THEN "hash_mismatch"
    ELSE IF b.net # Forward(b.gross) THEN "amount_mismatch"
    ELSE IF Capacity(b) < Forward(b.gross) THEN "capacity_too_small"
    ELSE IF Capacity(b) > MaxCapacity THEN "capacity_too_large"
    ELSE IF MinExpiry > MaxExpiry THEN "expiry_unsafe"
    ELSE IF b.until < now + Window(b.ask) THEN "merchant_invoice_expiry_too_short"
    ELSE "ok"

\* parse_invoice answers; the window is granted from the time it does.
Parsed(c) ==
    /\ createAt[c] = "parsing"
    /\ IF InvoiceCode(body[c]) = "ok"
       THEN /\ Pass(c, "issuing")
            /\ grant' = [grant EXCEPT ![c] =
                            [window |-> Window(body[c].ask), at |-> now]]
       ELSE Refuse(c, InvoiceCode(body[c])) /\ UNCHANGED grant
    /\ UNCHANGED <<store, issued, now, crashes>>

\* The hold node makes the invoice.
Issue(c) ==
    /\ createAt[c] = "issuing"
    /\ issued' = issued \cup {c}
    /\ createAt' = [createAt EXCEPT ![c] = "issued"]
    /\ UNCHANGED <<body, line, grant, store, now, crashes>>

\* An RPC of the creation fails, new_invoice possibly after it took effect.
RpcFails(c) ==
    /\ createAt[c] \in {"parsing", "issuing", "issued"}
    /\ Refuse(c, "internal")
    /\ UNCHANGED <<grant, store, issued, now, crashes>>

\* The order is stored, run() is started and the merchant has the invoice.
Put(c) ==
    /\ createAt[c] = "issued"
    /\ store' = [store EXCEPT ![c] = "active"]
    /\ Answer(c, "created")
    /\ UNCHANGED <<body, grant, issued, now, crashes>>

\* The order ends, as JitService tells.
OrderEnds(c) ==
    /\ store[c] = "active"
    /\ store' = [store EXCEPT ![c] = "over"]
    /\ UNCHANGED <<createAt, body, line, grant, issued, now, crashes>>

\* The process dies with the requests it was serving; the file stays.
Crash ==
    /\ crashes < MaxCrashes
    /\ crashes' = crashes + 1
    /\ createAt' = [c \in Creations |-> IF c \in ToSet(line) THEN "lost" ELSE createAt[c]]
    /\ body' = [c \in Creations |-> IF c \in ToSet(line) THEN NoBody ELSE body[c]]
    /\ line' = <<>>
    /\ UNCHANGED <<grant, store, issued, now>>

Tick ==
    /\ now < MaxNow
    /\ now' = now + 1
    /\ UNCHANGED <<createAt, body, line, grant, store, issued, crashes>>

CreateNext ==
    \/ \E c \in Creations :
          \/ Checkout(c) \/ Post(c) \/ Create(c) \/ Admit(c) \/ NoDuplicate(c)
          \/ Parsed(c) \/ Issue(c) \/ RpcFails(c) \/ Put(c) \/ OrderEnds(c)
    \/ Crash
    \/ Tick

CreateSpec == CreateInit /\ [][CreateNext]_createVars

-----------------------------------------------------------------------------
(* Properties *)

\* Two orders that have not ended never promise the same merchant invoice,
\* and in one mode never the same hold, however creations interleave
\* (createLock around assertNoDuplicate and the store write).
NoTwoActive ==
    \A c, d \in Creations :
        store[c] = "active" /\ store[d] = "active" /\ c # d =>
        /\ body[c].merchant # body[d].merchant
        /\ body[c].mode = body[d].mode => body[c].hold # body[d].hold

\* Every order can be carried through: a customer who pays at once, and a
\* channel that opens within its budget, leave the time that forwarding asks
\* for (tooCloseToDeadline); and at any time forwarding still starts, it ends
\* before the hold and the merchant's invoice do, with the settle margin left.
Feasible ==
    \A c \in Creations : store[c] # "none" =>
        LET deadline == grant[c].at + grant[c].window
        IN  /\ \A t \in 0 .. OpenBudget - 1 : ~TooClose(grant[c].at + t, deadline)
            /\ deadline <= body[c].until
            /\ body[c].net <= Capacity(body[c])

\* A checkout of the SDK fits the LSP's checks: it is refused only for the
\* size of its payment or channel, for a hash in use, for an RPC failure, or
\* for reaching the LSP later than its buffer allows.
CheckoutFits ==
    \A c \in Checkouts :
        /\ createAt[c] \notin {"missing_target_address", "unsupported_mode",
                         "hash_mismatch", "linkage_invalid", "amount_mismatch",
                         "fee_exceeds_amount", "expiry_unsafe"}
        /\ createAt[c] = "merchant_invoice_expiry_too_short" => now > Buffer

=============================================================================
