# Fiber LSP kit: specifications

TLA+ specifications of the software in this repository: the LSP's just-in-time
channel engine with the services and locks around it, the merchant's SDK, and the
servers, tools and demo they run in; the TLC configurations that check them on small
instances, and TLAPS proofs of what matters most.

    tlc -config JitAllFaults.cfg MCJitService.tla     # any run of the tables below
    tlapm JitServiceProofs.tla                        # any *Proofs module

## 1. Inventory

Paths are relative to `packages/`, unless they begin with `examples/`, `tools/` or `scripts/`.

| Component | State it keeps | Operations | What makes it correct | Module |
| --- | --- | --- | --- | --- |
| JIT engine, `lsp-server/src/jit.ts`, `jitModes.ts`, `jitStore.ts` | per order: stored state, recorded preimage; in memory: which handlers run and where they wait | `run`, `reveal`, `cancel`, `resume` | hold before capital, merchant payment before settlement; never refund what is committed; every order ends | `JitService`, `JitEscrow` |
| the creation of its orders, `jit.ts`, `client/src/JitCheckout.ts`, `fiber/src/timing.ts` | `createLock`, the stored orders | `checkout`, `createOrder` | no two running orders for one invoice; every order can be carried through in time | `JitCreate` |
| Keyed lock, `lsp-server/src/keyedLock.ts` | map from key to the last promise | `run(key, fn)` | calls of a key exclude each other in order, none waits for ever, the map does not grow | `KeyedLock`, `KeyedMutex` |
| Channel opening, `fiber/src/openChannel.ts` | the channels it saw before it opened | `openChannelAndAwait` | the channel returned is the one opened; a given-up one is the opener's own | `OpenChannel` |
| Prepaid orders, `lsp-server/src/prepaid.ts`, `orderStore.ts` | per order: stored state | `createOrder`, `settleFee`, `provision` | no channel without a paid fee, one channel per order, every opening ends | `Prepaid` |
| Invoice webhooks, `lsp-server/src/invoiceWebhooks.ts`, `watchStore.ts` | per watch: stored status and receipt; the running loops | `register`, `watchExisting`, `run`, `resume` | one true event per invoice, none lost | `InvoiceWebhooks` |
| Authentication, `auth/src/` | open challenges, policies and their file | `issue`, `consume`, the middleware, the admin API | a challenge is worth one token, of its key; orders within the policy; answered policy changes survive | `MerchantAuth` |
| Preimage observation, `fiber/src/preimageSource.ts` | one socket and two promises | `observe`, `close` | its own preimage or nothing, none missed, whatever the order of events | `PreimageSource` |
| Rebalance, `lsp-server/src/rebalance.ts` | none; a list read at the start | `rebalance` | the donor keeps its floor | `Rebalance` |
| Streaming lease and its close, `client/src/StreamingLease.ts`, `lsp-server/src/leaseClose.ts` | periods, misses, lapsed | `payDue`, `start`, `closeLease` | a paid period is not a miss; totals are what was paid | `StreamingLease` |
| Receiving, `client/src/InvoiceService.ts`, `LiquidityMonitor.ts`, `LspClient.ts` | the monitor's loop | `receive`, `check`, `buyInboundLiquidity` | invoices only while they can be paid; the floor is restored | `Inbound` |
| Checkout and books, `client/src/MerchantCheckout.ts`, `ReceiveStrategy.ts`, `PaymentWatcher.ts`, `SettlementLedger.ts` | sessions, receipts and their file | `createIntent`, `awaitSettlement`, `record`, `reconcile` | receipts and events are true, the preimage is revealed for money only, late money is found | `Checkout` |
| Market, `registry/src/`, `client/src/quotes.ts`, `protocol/src/fee.ts`, `lease.ts` | none | `discoverProviders`, `compareQuotes`, `bestQuote`, `computeFee`, `validateOrder` | one entry per node; the best quote is the cheapest and the price charged | `Market` |
| Linkage prover, `prover-linked/src/`, `tools/linkage-prover/` | converted key: a promise and a file | proving calls | a call fails only with its prover; no key in parts | `LinkedProver` |
| Reference server, HTTP API, facade, `examples/reference-lsp/server.mjs`, `lsp-server/src/api.ts`, `lsp.ts`, `merchantApi.ts` | what its stores keep | boot, requests, resume | what was answered is kept and worked on | `LspServer` |
| Mock network, `scripts/demo/shared/mock-node.mjs`; client `fiber/src/rpc.ts`; `lsp-server/src/ledger.ts` | peers, channels, invoices, payments | the node's RPC calls | balances move with the payments, what the nodes know of one fits together | `MockWorld` |
| Demo, `scripts/demo/` | state files, controllers | preflight, operations, resets | what it shows is true | `Demo` |
| Cryptography, wire types, dashboard page, release scripts | none | | | see section 6 |

**How they interact.** A merchant finds an LSP (`Market`), gets a token (`MerchantAuth`)
and has an order created (`JitCreate`, `Prepaid`) by the served API (`LspServer`). The API
starts `JitService.run` for every JIT order and calls `reveal` and `cancel` for the
merchant. `run` asks the *hold node* for the customer's payment, takes `openLock`
(`KeyedLock`) for the merchant, lets `openChannelAndAwait` (`OpenChannel`) open a channel
from the *paying node*, arms the preimage observation (`PreimageSource`), pays the
merchant's invoice over the channel, and settles or cancels the hold. `settleFee` of a
prepaid order calls the same `openChannelAndAwait` on the same node, without the lock. On
the merchant's side the checkout shows the invoice, waits and files a receipt
(`Checkout`), after the gate and the monitor saw to the inbound (`Inbound`), and a
streaming lease pays for it (`StreamingLease`); the webhook service polls the merchant's
own node and posts events to its backend. The Fiber nodes, the customers and the clock
are outside the repository; the modules contain what the code relies on of them, and the
map marks it external.

**What is hard.** JavaScript runs one handler at a time, so the hazards are at the
`await`s: a state that was checked before an await and used after it (`cancel`,
`settleFee`, `trySettle`'s write-back, a donor's balance, a quota); answers that are lost
after the node acted; polling budgets that end before the thing polled for; a process
that dies between two writes; files shared by processes; channels that cannot be told
apart. `PROJECT.json` lists each at its line, with the properties that cover it.

## 2. How the project is split

One module per component, written so that it can be checked alone: its own variables with
its own prefix or names, `Init`, one action per operation or turn of a handler, `Next`,
and the specification. `JitEscrow` and `KeyedMutex` are abstract specifications, which
`JitService` and `KeyedLock` implement. The `*Proofs` modules extend the modules they are
about, one module or several that are proved alike; `SumProofs` has the lemmas on sums
that two of them need.
An `MC*` module gives values for TLC; four of them hold components side by side:

- `MCMerchant`: `Inbound`, `InvoiceWebhooks`, `KeyedLock`;
- `MCCreate`: `MerchantAuth`, `JitCreate`, `OpenChannel`;
- `MCLspNode`: `Prepaid`, `MockWorld`;
- `MCDesk`: `Market`, `Checkout`, `StreamingLease`, `LinkedProver`, `Rebalance`,
  `PreimageSource`, `LspServer`, `Demo`.

The components of such a module have no variable in common, so interleaving them would
only multiply their states: the variable `part`, chosen at the start, says which one a
behaviour is of, and the others stay in one initial state. Every behaviour of each
component is checked, and a property of one is trivially true of the others' parts. Where
components do act on each other, one module holds both sides: the merchant's checkout with
the LSP's creation and its lock (`JitCreate`), the SDK's lease with the LSP's close, the
monitor with the checkouts that share its balance, the prover with its check, the server
with its stores and files, the demo's controllers with the operations they share.

Left to do, should the project grow: proofs of the liveness properties.

## 3. Modules

### JitService (with MCJitService, JitServiceProofs)

One order is a record spread over the functions `state` and `preimage` (stored) and
`pc`, `reply`, `armed` (in memory). `pc[o][h]` says where handler `h` of order `o`
waits; an RPC is two steps, `Ask...`, in which the node acts and answers, and
`...Seen` or `...Done`, which runs the handler from that answer to its next await. So
every interleaving of `run`, `reveal` and `cancel`, of several orders, and of the
nodes is a behaviour, and none that would need a handler to be interrupted between
two awaits.

| Code | Actions |
| --- | --- |
| `waitForHold` | `AskHold`, `HoldSeen`, `HoldGone`, `HoldNotSeen` |
| `openAndAwait` under `openLock` | `TakeOpenLock`, `OpenChannel`, `ReadySeen`, `ReadyMissed`, `AbandonOrphan` |
| `tooCloseToDeadline`, `merchantCommitted` | `CheckDeadline`, `AskPayment`, `CommittedSeen` |
| `forward`, `persistObservedPreimage` | `AskPayment`, `ExistingSeen`, `SendPayment`, `ForwardPaid`, `ForwardAgain`, `ForwardFailed`, `Observe` |
| `settleWithRetry`, `trySettle` | `Try`, `AskPreimage`, `PreimageRead`, `PreimageUnread`, `AskPayment`, `PaidSeen`, `SettleInvoice`, `SettleDone`, `Retry` |
| `refund`, end of `cancel` | `CancelInvoice`, `CancelDone` |
| `cancel`, `reveal` | `Cancel`, `Reveal` |
| `resume`, death of the process | `Boot`, `Crash`, `CrashAfterHeld` |
| nodes, customer, clock | `CustomerPays`, `HoldLapses`, `ChannelReady`, `PaymentStarts`, `PaymentEnds`, `Tick` |

`Faults` names what may happen in an instance: `cancel`, `reveal`, `crash`, `rpc` (any
call may fail, before or after it took effect), `queued` (a payment is `Created` for a
while), `slow` (polling budgets end early, time is lost) and `misses` (the preimage
observation fails). Runs differ mainly in this set.

What the module abstracts:

- Amounts, fees, capacities and webhooks. A hash or preimage is its order; a merchant
  whose preimage does not unlock the hold is a member of `Forged`.
- Time: `phase` says how much of the hold's time is left, in the three thresholds the
  code compares with. Unless `slow`, a forward keeps within the budget that
  `tooCloseToDeadline` checked for, and a settlement within its margin; `Tick` says so.
- Creation, the subject of `JitCreate`: an order starts with its record stored and `run` called.
- Which channel is the order's: attributed exactly here, and the subject of `OpenChannel`.
- The queue of `openLock`: any waiting order may be next; `KeyedLock` gives the order.
- Requests that change nothing (wrong token, wrong preimage, ended order) are no steps.
- A call under way when the process dies is dropped, or the node has already acted.
- The node: it refuses a second payment of a hash that is under way or paid, settles
  only a held invoice with the right preimage, and cancels open, held or expired ones.
  Settling a hold that is already paid may be answered either way.

`JitEscrow` is what the parties are promised: money locked, capital, merchant paid,
money taken, or the money returned. `EscrowKept` is `JitService` implementing it, with
the mapping `capital <- opens > 0` and the merchant's payment.

### KeyedLock, KeyedMutex (with MerchantProofs; in MCMerchant)

`KeyedLock` is the promise chain: `Run` chains a call behind the tail and makes it the
tail, `Start` and `End` are the turns in which its function begins and settles, `Sweep`
the later turn that drops the entry if it is still the tail. `earlier` is a history
variable. `KeyedMutex` is the abstract lock: calls of a key run one at a time, in the
order they were made.

### OpenChannel (with CreateProofs; in MCCreate)

Several `openChannelAndAwait` calls for one merchant. A channel is named by the opener
whose `open_channel` made it, which the code cannot see: it keeps the listing `before`
and takes any ready channel of the asset that was not in it. `Locked` are the openers
that hold `openLock`, `Abandons` those that clean up and retry on missing features
(JIT orders); prepaid orders are in neither.

### Prepaid (with MCPrepaid, PrepaidProofs; in MCLspNode)

`settleFee`, `provision` and the invoice verifier, as any number of concurrent calls;
`createOrder` of a from-capacity order is the call `"create"`, which begins inside
`provision`. `ready` and `opens` are the node's channels of the order, attributed exactly.

### InvoiceWebhooks (with MCInvoiceWebhooks, MerchantProofs; in MCMerchant)

One poll loop per watch. `Finalize` is the turn that stores the status and the receipt
and begins the POST; `CrashInFinalize` is death between its two writes. `GiveUp` is the
end of `pollAttempts`, allowed at any poll by the fault `giveUp`; only a restart takes
such a watch up again.

### JitCreate (with CreateProofs; in MCCreate)

`Checkout` is `JitCheckout.checkout`, which builds the request, the merchant's invoice and
the proof from one secret; `Post` is a request somebody wrote, whose hashes, amount and
proof need not fit. `Create` enters `createLock`, and the awaits of `createOrderLocked` cut
the rest: `Admit` (the checks, the linkage verifier), `NoDuplicate`, `Parsed` (the
merchant's invoice, amounts, capacity, window), `Issue`, `Put`; `RpcFails` may end it at
any of them, also after the hold invoice was made. Times are in seconds here: `Window` is
the granted expiry, `TooClose` the test of `forward`, `Capacity` and `JitFee` the sizing
and the fee. `line` is the promise chain of `createLock` for all hashes at once: a creation
has its turn when none for its merchant hash is ahead of it.

### MerchantAuth (with CreateProofs; in MCCreate)

Challenge, signed invoice, token, order. A request parses (an await), consumes the
challenge, is issued a token with the policy of that moment; an order's request asks for
its token's permission, then for the quota, then opens. The admin changes policies: memory,
file, answer. A restart forgets challenges and requests, but not a channel on its way, and
reads the policies from the file. `raced`
are the merchants whose creates overlapped: the quota of those is not promised, since it
is read before the channel exists.

### PreimageSource (with DeskProofs; in MCDesk)

One socket: `wire` holds what the node sent and the socket has not delivered. `Acked`,
`Refused` and `Event` are the message handler, `SocketError`, `SocketClose` and `Close` the
ways to the end, `SendAfter` the caller, which pays once `observe` resolved.

### Rebalance, StreamingLease (with DeskProofs, ClientProofs, SumProofs; in MCDesk)

`Rebalance` is one pass: list, choose, price, preflight, submit, against payments of others
(`Traffic`), each at any time; `moved` are the channels others changed since the list.
`StreamingLease` is `payDue` with its awaits, run by the loop of `start` and by hand at
once: a keysend that outlives the polls of its pass (`late`) may still succeed, and the
lapse makes the LSP close the channel (`closeLease`).

### Inbound, Checkout (with MerchantProofs, ClientProofs; in MCMerchant, MCDesk)

`Inbound` has `receive` with its gate, purchase and second gate, the monitor's passes, the
purchase both make (`buyInboundLiquidity`), and the customers who use the inbound up.
`Checkout` has an intent by `DirectReceive`, `JitReceive` or `autoStrategy`, concurrent
`awaitSettlement` calls of which one has the session, the reveal, the ledger with its file
and `reconcile`. `keeps` says whether the LSP keeps to its part.

### Market (with ClientProofs; in MCDesk)

Registry rows that answer in any order, the pages of the graph, `byKey`, the quotes and
`bestQuote`, then the order on the price read earlier, while operators change their offers
or go down. `Norm` is the normalisation of a public key, `Ranked` the stable sort: the
permutation `InOrder`.

### LinkedProver (with MCProver, DeskProofs; in MCDesk)

Calls of several processes over one converted key: `ark` is the inode under its name,
`promise` is what the calls of a process share. Commands may fail or be killed, processes
die. A proof is the record of what it was made from; `Verified` is the LSP's comparison.

### LspServer, MockWorld, Demo (with DeskProofs, DemoProofs, SumProofs)

(`MockWorld` in MCLspNode, the others in MCDesk.)

`LspServer` boots in the environments of `MCDeployments`, against nodes that come and go,
resumes, and serves; a write is the temporary file and then the rename.

`MockWorld` is the mock's network for every caller of the RPC client: a channel has two
ends, a payment moves one unit along them, and `Liquidity` and `Summary` are the LSP's
reads. As in `mock-node.mjs`, no call asks for a status: `SendPayment` pays again what was
paid, held or cancelled, `SettleMock` and `CancelMock` write theirs over any other; a
repeated payment writes over its one record, and a second holder over the first.
`list_payments` has keysends and the self-payments of a rebalance too (`RouterPay`), each
under a fresh hash (`fresh`). What callers do is kept: they name issued invoices, whose
hashes are drawn afresh, and two different channels for a self-payment. A hold reserves
nothing, so settling it may take a balance below zero, which the code writes as `0x-1`
and `BigInt` then rejects: a call that comes to such a number to rewrite it throws, with
the writes before it done and `Paid` already stored by `settle_invoice`. These are the
`Stops` actions (`Writes` is the order of `moveAcrossRoute`). The histories are
`flowed`, how often a payment of an invoice by a node moved money, and `torn`, whether a
call stopped so.

`Demo` is the preflight over `MCTopologies`, the hosted process manager, the dashboard's
controller and the command line over the same operations, and the state files; `jitBills`
and `plainBills` are the invoices the world really has.

The definitions under "Slips" in each module are small mistakes of the kind a change
could introduce. They are in no specification; substituting one for the definition it
resembles must break the property it is listed with in `PROJECT.json`, which shows that
the property watches that line.

## 4. Runs

| Run (cfg) | Instance | Shows |
| --- | --- | --- |
| `JitAllFaults` | 1 order, every fault, 2 crashes | `EffectsInOrder`, which is `HeldBeforeCapital`, `MerchantPaidFirst`, `SettledIsPaid` and `ExpiredTookNothing`, whatever goes wrong |
| `JitTwoOrders` | 2 orders of one merchant, one forged; reveals | `CommitmentKept`, `EscrowKept` (the refinement), `EveryOrderEnds` through the lock, `ForgedIsRefunded` |
| `JitCrash` | 1 order; 2 crashes, missed events, reveals | `OpensPerStart`, `RefundedIsReleased`, `NeverRefundCommitted`, `EndsOrAwaitsReveal` |
| `LspNode` | a prepaid and a from-capacity order, 1 call at a time, a crash, all faults; the mock with 3 nodes, 2 channels, a hold and a regular invoice, 2 payments or closes | `FeeBeforeChannel`, `OneChannel`, `EndIsFinal`, `OpeningEnds`; `MoneyFollowsPayments`, `RecordsAgree` |
| `Merchant` | 2 sales and the monitor; 2 watches, 2 crashes, all faults; 4 calls on 2 keys | `GateHolds`, `FloorRestored`; `OneEvent`, `ReceiptIsTrue`, `SettlementSeen`; `NothingKept`, `MutexKept` (the refinement), `EveryCallEnds` |
| `Create` | 2 merchants, 2 requests, 1 challenge, a restart; 1 checkout and 1 request by hand, a restart; 3 openers of 2 assets | `OneTokenPerChallenge`, `QuotaKept`, `AckedPolicyKept`; `NoTwoActive`, `Feasible`, `CheckoutFits`; `OwnChannel`, `AbandonsOwn` |
| `Desk` | see the constants of the cfg | `BestIsCheapest`; `BooksTrue`, which is `ReceiptsTrue` and `LateMoneyFlagged`; `RentAccounted`, `LapseIsDue`; `FailsWithProver`; `DonorKeepsFloor`; `OwnPreimageOnly`; `AnsweredIsKept`; `RecordTrue` |

The following runs end with a counterexample, each of a statement the repository makes:

| Run (cfg) | Refutes | What happens |
| --- | --- | --- |
| `JitCancelRace` | `CommitmentKept` | `cancel` is answered after `run` has paid the merchant |
| `JitSlowPayment` | `NeverRefundCommitted` | the polling budget ends with the payment in flight, and `run` refunds |
| `PrepaidTwoCalls` | `OneChannel` | two settle calls pass the same check |
| `WebhookLost` | `SettlementNotified` | the process dies after the receipt is stored and before the POST |
| `ProverCacheRace` | `ServedAnyway` | two calls find the cached key corrupt; the later discard removes the key the earlier one rebuilt |

**Which fault breaks which property.** `JitTwoOrders` and `JitCrash` leave faults out,
because their properties hold only without them. Adding one to the `Faults` of the
configuration shows a trace of each, and the theorems about these properties exclude no
other (`Careful`, `Prompt` and `OneCall` in section 5):

- `NeverRefundCommitted` fails with `"rpc"` (`send_payment` takes effect and its answer is
  lost, or a later `get_payment` fails), and with `"queued"` and a crash (after the restart
  a payment that is `Created` is sent again, refused, and refunded).
- `RefundedIsReleased` fails with `"cancel"` and with `"rpc"`: `refund` and the end of
  `cancel` ignore a failed `cancel_invoice`. It fails with `"reveal"` beside `"slow"`, or
  beside `"queued"` and a crash: `run` refunds a payment that then succeeds, and the reveal
  settles the hold under it.
- `EscrowKept` and `CommitmentKept` fail with `"cancel"` and with `"slow"`, as the
  violation runs show; with `"rpc"`; with a crash, when the process is down until the hold
  lapses; and with `"misses"` if no preimage can be read, when only a reveal settles.
- `OwnChannel` fails as soon as one opener of the merchant is not in `Locked`, as
  prepaid orders are not: it returns the channel another opener made.

And what the code does that no property here forbids:

- an order can be stored as expired although the customer paid between the last poll of
  the hold and the expiry; the money stays locked until the hold times out (`HoldNotSeen`
  and `HoldGone`), and is not taken (`ExpiredTookNothing`);
- with the preimage missed, a reveal and readable preimages, `trySettle` writes the record
  it read before an await over a settled order;
- a channel that becomes ready between the last poll and the clean-up is kept although the
  order is given up (`PollEnds`, `ListOrphans`);
- a prepaid order that was opening when the process died stays opening, since nothing
  resumes it; its `expires_at` is stored and never read, so an unpaid order waits for ever;
- two creates of one merchant that overlap can exceed its quota (`raced`), and a capability
  keeps what its policy said when it was issued;
- on the mock network, a cancel that comes after the settlement leaves the invoice
  cancelled at its issuer and the payment a success at its payer; the first of two holders
  of an invoice stays in flight for ever; and what a call that stopped halfway wrote stays
  (`torn`);
- the ledger, "what the LSP node has actually paid out" (`ledger.ts:2`), counts the
  self-payment of a rebalance as sent, and an invoice that was paid twice once: on the mock
  the second payment writes over the record of the first;
- the demo merges what an older checkout opened into a newer record, so `RecordTrue` asks
  of a checkout shown as settled only that some checkout settled.

**Bounds.** `MaxCrashes` bounds restarts: one to reach what `resume` takes up, a second
to die in that. Counters of channels and events stop one above what the properties
about them allow (`MaxOpens` in `JitService`, 2 in the others). Orders interact only through
`openLock` and are otherwise independent, so faults are explored with one order and the
lock with two; `OpenChannel` takes three openers, so that a leftover of a first can mislead
a second and a third. The lock is checked with four calls, so that one key has a chain of
calls beside another key's. Two concurrent settle calls are the least that race;
`LspNode` has one, since `OneChannel` and `EndIsFinal` fail with two; what holds for
any number of calls is proved for any number. Polling loops are not counted: a
poll may be the last only under `slow` or `giveUp`.

In `Create`, the clock reaches the time at which the SDK's buffer ends and one second more;
the amounts, wishes and terms are such that each refusal happens and that the fee rounds.
In `Desk`, three rent periods are one more than grace and the first, and a unit of inbound
less than the unit leased lets a sale change the rent, down to nothing; two proofs of one
process and a third of another share the key; two starts and two flaps let a node go down
before and come back after a boot; `MaxCheckouts = 2` lets a newer record follow an older.
In `LspNode`, two channels let a payment be relayed; `MaxCalls = 2` lets a payment be
repeated, a regular one use up what a held one counts on, a channel close under a held
payment, and a self-payment take a balance below zero before another call comes to it.
The other `Max` constants bound faults of a kind (`MaxFails`, `MaxFaults`,
`MaxReadFails`, `MaxExits`, `MaxResets`), each at least one. Symmetry is used in `Create`
only, over merchants and over requests: nothing in `MerchantAuth` distinguishes them and
the run has no liveness property.

Deadlock is not checked: when orders have ended and bounds are spent these systems
stop, as they should. Waiting for ever is what the liveness properties exclude.

**Fairness.** `FairSpec` assumes that a handler whose RPC was answered runs on and that
nodes answer (weak fairness of each handler's steps; the RPC client awaits `fetch`,
which ends), that a process that died is restarted, that a payment in flight ends
(its TLCs expire) and that time passes. `WF(RunStep(o) \/ SharedStep(o, "run"))` treats
`openLock` as weakly fair; the chain of `KeyedLock` is first-come, and its
`EveryCallEnds` is checked. In `InvoiceWebhooks` a node that is asked again and again
answers at last (strong fairness of `AskAnswered`). In `Inbound` the monitor's loop goes on
and an opening ends; which way is the LSP's choice. The fairness of `MerchantSpec` is that
of its three components, whose owed steps are disabled while their part has not begun;
`LspNodeSpec` has that of `Prepaid`, whose `OpeningEnds` is asked of the openings alone:
while the mock moves an opening does not, so a behaviour of the mock is not a fair one.
Nothing is assumed of customers, merchants, channels becoming ready, or clients.

## 5. Proofs

Each theorem holds for every set of orders, calls, openers, requests, watches, sales,
bills or intents (finite, for `Intents`), every choice of faults and every number of
restarts. The named assumptions of the modules (`Faults` within `AllFaults`, amounts and
times natural numbers, and so on) are all that is used, with these exceptions, stated in
the theorems: `AllLocked`, `MinExpiry <= MaxExpiry`, `Careful`, `Prompt` and `OneCall`.
None of the invariants is inductive as the runs check it; each part below names what has
to be added and why.

- **JitServiceProofs**: `TypeCorrect`, `NoSettlementWithoutPayment`, `NoCapitalWithoutHold`,
  `SettledMeansPaid`, `ExpiredIsFree`, their sum `EffectsOrdered`, and `OneChannelPerStart`. A handler may
  wait with an answer it got earlier, so `IndInv` adds what such an answer means, per
  handler: an order past the hold has been paid by the customer, a handler about to settle
  has a proven payment, a successful settlement has a paid hold, a `Success` read is a
  payment that stays `Success`. A step of a handler changes one place of `pc` (`MoveInv`),
  so most actions need only the facts of the place it moves to. `OneChannelPerStart` has an
  invariant of its own, `StartInv`: a `run()` that has yet to ask for a channel finds at
  most one per crash, and within one start no step takes it back to before its opening
  (`StepsOnward`, `SharedOnward`). `ExpiredIsFree` rests on `Unspent`: while `run` waits for
  the hold, and when it has given up, nothing was spent and no other handler is past the
  wait either, though a cancel may be ending.
  Further: `RefundsRelease` and `CommittedNotRefunded`, assuming `Careful`: no
  failing calls, no cancelling, no slow budgets, and not both restarts and payments that
  stay `Created` for a while. They rest on what `run` knows of the merchant's payment
  (`SentRight`): where it is about to send it is not sent, where it is about to cancel it
  is not sent or has failed for good; and on nobody else cancelling (`RunCancels`), so that
  what `run` finds when it cancels is a hold that can be cancelled (`Agrees`, `Freed`).
  Then `CommitmentStays` and `EscrowImplemented`, the refinement of `JitEscrow`, assuming
  `Prompt`: no restarts either, and a missed preimage can be read. Here `EscrowInv` adds
  that while `run` forwards and settles there is time (`OnTime`), that a payment once sent
  is in its hands until the money is taken (`InHand`), over a channel (`Funded`), with the
  preimage when it needs it (`Known`). The refinement is proved per order and variable: each
  step of an honest order moves its `payer`, its `capital` or the stage of its payment as
  one action of `JitEscrow`, or leaves them (`HonestStep`), and a step of one order
  leaves all others (`OneOrderSteps`). Section 4 has what each excluded fault does.
- **CreateProofs**, of `JitCreate`: `OrdersApart`, `InTime`, `CheckoutsFit`. `NoTwoActive`
  rests on the order in the lock: a creation past its entry has none of its merchant hash
  ahead of it in `line` (`Queued`), so two that check and write at once are of different
  hashes (`Alone`), and no stored order has the hash of one past the check. That two orders
  of one mode also differ in the hold follows from the linkage: both hashes come of one
  secret (`Linked`). `InTime` carries the window from its grant to the store (`Granted`);
  `CheckoutsFit` follows one honest request through every check, where the longest window
  allowed holds the shortest needed.
  Of `MerchantAuth`: `AuthTypeCorrect`, `OneTokenEach`, `OrdersAreOwn`,
  `AnsweredPoliciesStay`, `QuotaStays`. A challenge stands once in the store and not at all
  once consumed (`Spent`); a request that passed the verifier is the only one that waits
  for its token (`OneWaits`); the file is never ahead of memory, nor answers ahead of the
  file (`Stored`). For a merchant that is not `raced` one request opens (`OneOpens`) and
  its token has room (`HasRoom`): what the check read is true when the channel comes.
  Of `OpenChannel`: `OwnChannelFound` and `OthersKept`, assuming `AllLocked`, that every
  opener of the merchant holds the lock. The lock lets one opener work (`OneWorks`), and
  from its snapshot on every channel that is not its own is in the snapshot
  (`SnapshotHolds`). Without the assumption both fail, see above.
- **PrepaidProofs**: `NoChannelWithoutFee`, `NoActiveWithoutChannel`, for any number of
  concurrent calls: a call past the fee check works on a paid order (`PaidRight`). Assuming
  `OneCall`, that the client waits for an answer before it asks again: `OneChannelEach`
  and `EndsStay`, over any number of restarts and failures. One call works on an order, and
  where it stands agrees with the stored state and the channels (`Single`).
- **MerchantProofs**, of `KeyedLock`: `Exclusive`, `NothingLeft`, and `Implements`, the
  refinement of `KeyedMutex`. A call waits for one promise only; `ChainedRight` says that
  through it it waits for all earlier calls of its key, `TailRight` that the tail is behind
  all of them, `SweptRight` that a removed entry is not named again. `Implements` maps each
  step to a step of `KeyedMutex` or to a stutter (`Sweep`).
  Of `InvoiceWebhooks`: `AtMostOneEvent`, `ReceiptsAreTrue`, over any number of restarts: a
  loop that still polls has cut no receipt (`PollingRight`).
  Of `Inbound`: `GateKept`, for any number of sales, buyers and older invoices: a sale on
  its way to its invoice passed its last gate with the amount covered (`SaleRight`).
- **DeskProofs**, of `PreimageSource`: `ObservesOwn`. The node answers a subscription once
  (`AnswersOnce`), so an armed observer has no refusal coming, and a payment sent by then
  is published; the socket is there until the promise is settled (`SrcWaits`).
  Of `LspServer`: `AnsweredKept`: an answered order is in its file or was lost with the
  memory, and a server that listens has it in memory and driven (`AnsweredSafe`); one that
  is being written is in memory, and in a file or about to be (`Admitted`).
  Of `Rebalance`: `DonorStaysAbove`: what was listed still stands of channels others left
  alone (`SeenStands`), and the donor of a priced plan can bear the debit (`PlanStands`).
  Of `LinkedProver`: `FailsOnlyWithProver`, for any processes, dying and killed. As long as
  at most one call discarded the key (`Few`), a process has one conversion (`OneActive`),
  nobody else writes its partial file and what stands under the name is whole
  (`WritesAlone`), a call that suspects the key still has the promise to forget
  (`PromiseStays`), and its second try finds a new key (`SecondTry`).
- **ClientProofs**, of `Market`: `CheapestIsChosen`. The directory has one row for a key
  (`OneRowEach`), a quote is on an offer that fits (`QuotesFit`), and the best was chosen
  when all were in (`ChosenLast`).
  Of `Checkout`: `BooksStayTrue`, by `ReceiptsStayTrue` and `LateMoneyIsFlagged`. The
  invariant `CkInv` relates the LSP's order to the merchant's invoice (`OrdersFit`), a call
  to what it waits for (`CallsFit`), what was told to what is (`ToldTrue`), and a running
  audit to what it found at its start (`AuditFits`). What the ledger counts as received is
  bounded by an injection of its filed receipts into the paid invoices (`ReceivedCameIn`).
  Of `StreamingLease`: `RentStaysTrue`, with the total as the sum of what was owed for the
  periods paid (`TotalRight`), and `LapsesWhenDue`. The loop and a call by hand never
  share a period (`OwnPeriod`), an end recorded is one the keysend cannot refute
  (`EndsHold`), and the count of misses is that of the periods since the last one
  recorded (`MissesCounted`).
- **SumProofs**: what `SumFunctionOnSet` of the community modules gives over any finite set,
  in whatever order it takes it: the empty sum, one element more, less or changed, a bound,
  and a sum split into parts (`SumAdd`, `SumChange`, `SumParts`). The fold obeys its
  equation (`FoldExists`, `FoldUnique`, `SumEquation`), and induction is over sets: the
  strict subsets of a finite set are well founded, so a set that has each subset whose
  smaller ones it has, has the whole (`SetInduction`).
- **DemoProofs**, of `MockWorld`: `MoneyStaysRight`, for any finite network in which nobody
  meets itself (`WorldAssumption`). `MoneyInv` says of each node that its ends sum up to
  what was funded, less what it sent, plus what it got (`Balanced`), counted by the payments
  that moved money, repeated ones too. A channel has two ends and a number of its own
  (`Paired`, `Numbered`), so hops that lead from payer to issuer (`LeadTo`) take one unit of
  the first, bring one to the last, and leave every other node what it had (`ShiftMoves`);
  a payment to oneself takes none (`Carry`). A route does lead so, since the shortest comes
  to no node twice (`NoDetour`, `RouteLeads`), and the way of a payment that is held still
  does when it is settled, whatever was opened and closed meanwhile (`HoldsLead`). All this
  lasts until a call stops halfway; the records and counts do beyond (`LastingInv`), so that
  the ledger's part holds always: a regular invoice has its record exactly where its money
  moved, and a settled hold invoice's record has no amount (`LedgerRight`, `LedgerSum`).
  Also `NodesAgree`, on that no node is named `""` (`NamesAssumption`), the name `heldBy` has
  for nobody: a payment that is held is of a hold invoice, in flight at its payer, and
  received or, when a settlement stopped, paid (`HeldRight`); what is known to have
  succeeded moved money, and an invoice whose money moved is not open (`PaidRightly`).
  Of `Demo`: `RecordsStayTrue`. The manager clears the world only while nobody else works
  on it (`Alone`), so what an operation and a file have of an invoice is of this world
  (`PlainRecords`, `HoldRecords`).

Type invariants, `MutualExclusion`, `OwnOrdersOnly`, `ActiveIsReady` and the parts of
`EffectsInOrder` and `BooksTrue` are proved and not run again by name. Only model-checked:
the liveness properties (`EveryOrderEnds`, `ForgedIsRefunded`, `EndsOrAwaitsReveal`,
`OpeningEnds`, `SettlementSeen`, `FloorRestored`, `EveryCallEnds`), since fairness and
`ENABLED` are beyond the prover. Every safety property of the passing runs is a theorem.

## 6. Not modelled

- Cryptography: hashes, signatures, circuits and the proof arithmetic. A preimage does or
  does not unlock a hold; a proof is a record of what it was made from.
- The format of the proving keys (`zkey.rs`, vendored) and the browser's prover glue, which
  is generated.
- Request and response bodies, error texts, the encoding of RPC calls, number parsing, and
  routing beyond which routes are mounted.
- The dashboard's page, which draws what the dashboard's server answers; `query()` of the
  ledger and the list filters, which keep no state.
- Release, ceremony and download scripts, and the end-to-end script, which calls the demo's
  operations in one order.
- Webhooks of the JIT and prepaid services: fire-and-forget calls after a store write that
  change nothing. A ready channel without an outpoint, which `run` takes for a failed opening.
- In `Demo`, two processes that write one state file within the read and the write of one
  `updateState`.
