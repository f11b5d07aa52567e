# TLA+ models of suverse-pay

suverse-pay moves stablecoin payments between buyers, resource servers and settlement
providers over the x402 and MPP protocols. What can go wrong in it is seldom in one function: it
is in what several requests, retries, workers and crashes do to one payment. These modules model
that part of the code, await by await, so that TLC can try the interleavings and TLAPS can prove
the invariants for any number of requests.

## The system

| component | source | its state | its operations | talks to |
|---|---|---|---|---|
| settlement ledger, `POST /settle` | `services/orchestrator/src/{ledger,fallback,router}.ts`, `apps/api/src/routes/settle.ts` | `payments`, `payment_attempts`, the Redis lock `idem:<key>` | create or fetch, wait for a row, attempts, finalize, release | provider adapters, Postgres, Redis |
| MPP charges | `apps/api/src/routes/mpp.ts`, `packages/adapters/mpp` | the same `payments` | read the receipt twice, then file a row and finalize it | chain, ledger |
| facilitator | `apps/api/src/routes/facilitator.ts`, `services/facilitator/src/*` | `facilitator_payments`, `facilitator_failover_events`, rate-limit buckets in Redis | rate limit, split the fee, insert or fetch under a derived key, failover, finalize, notify | adapters, webhook queue |
| seller middleware | `packages/x402-server-node/src/core.ts` | the tries of one call | verify, settle with retries, verdict | facilitator over HTTP |
| webhooks | `services/webhooks/src/*`, the dashboard's retry route | `webhook_deliveries`, the BullMQ queue, `webhook_endpoints` | fan-out, deliver, record, retry by hand | merchants' endpoints |
| seller proxy | `apps/proxy/src/{handler,upstream-x402}.ts` | outbound rows in `facilitator_payments`, `refunds_pending` | dispatch to a handler or upstream, pay an x402 upstream, enqueue a refund | facilitator, upstreams, refund worker |
| refund worker | `apps/proxy/src/{refund-worker,refunds}.ts` | `refunds_pending`, `swap_refunds`, row locks | tick, claim, send, record | chains |
| swap | `apps/proxy/src/{swap,swap-base,swap-store}.ts` | `swap_transactions`, one shared wallet per chain | quote, take the payment, claim, pull, swap, send on, refund | DEX aggregators, chains, refund worker |
| CDP adapter | `packages/adapters/coinbase-cdp`, `services/orchestrator/src/redis-usage-tracker.ts` | a monthly counter in Redis | supports, settle with retries, count | CDP |
| MCP gateway | `apps/mcp/src/{session,tools/pay-and-call}.ts` | sessions and an idempotency cache in memory | open and destroy a session, call, sign, pay, cache | resource servers |
| catalogue sync | `apps/api/src/catalogs/*`, `apps/api/src/routes/admin-catalog.ts` | `external_endpoints` | read a source page by page, upsert, archive what it lacks | external catalogues |
| catalogue listings | `apps/dashboard/src/lib/catalog-store.ts` and its routes | `catalog_listings` | submit, edit, suspend, review | Postgres |
| health, capabilities, metrics | `services/orchestrator`, `apps/api` | advisory rows | poll, upsert | providers |
| buyer clients, dashboard | `packages/x402-client`, `packages/x402-mcp-buyer`, `apps/dashboard` | a history file; the tables above | sign and pay; pages, CRUD, manual retry | facilitator, Postgres, the queue |

What makes each correct, and what is hard about it:

- **Ledger.** One payment per idempotency key although the lock has a TTL and `releaseLock`
  deletes it whoever holds it; an attempt on file before any provider is called; a settled row
  that names the provider that really moved the money although an error may hide a transaction
  that lands later; nobody left waiting for a dead owner.
- **MPP.** The client has paid before it asks; what it is told must be about its key's payment,
  and the same table holds settlements under the same keys.
- **Facilitator.** One broadcaster per key under concurrent retries; a gapless audit trail
  behind each resolved payment; a success told to anyone is never taken back, nor is any outcome
  told to the webhook or to the request that settled the payment. (A replay's refusal may be: the
  response has no word for a pending row.) Its key contains the hour. Its limiter interpolates between two counters.
- **Seller.** It serves only what is settled although its tries overlap at the facilitator.
- **Webhooks.** Row and queue are two stores without a common transaction; a manual retry puts a
  second job on the row, or, for the wrong endpoint, none; the worker can die between the POST and
  the record.
- **Refunds.** The transfer is made inside the transaction that marks it, and only the row lock
  keeps two workers apart.
- **Proxy.** Every failure after the buyer has paid must leave a refund on file, on every branch,
  and our own spend at an x402 upstream must be on file too.
- **Swap.** Executions share a wallet, which quote payments, refunds and settles move as well, and
  measure what a swap bought as a difference of its balance; some conversions stand outside any
  `try`; a transaction may land after its sender has given it up; what fails must be refunded,
  and what was delivered must not be.
- **CDP adapter.** The cap is checked before a settlement and counted after it.
- **MCP gateway.** The cache is read before a payment and written after it; its key is what a
  session lists first, and it is gone with the process.
- **Catalogue.** The list changes while it is read by offset, two sources may list one row, and an
  administrator's sync may cross a tick.
- **Listings.** An edit reads the row in one query and writes the status it computed from it in
  another; a reviewer decides on a page that was shown earlier.

## Modules

| module | models |
|---|---|
| `IdempotentPayment` | the abstract promise of a settle endpoint: at most one payment per key, resolved once, and answers that are about it; a parameter says whether the endpoint is candid about pending payments |
| `PaymentLedger` | the orchestrator's `POST /settle`; implements `IdempotentPayment` |
| `FacilitatorSettle` | `POST /facilitator/settle`; implements `IdempotentPayment` with the hour in the key, as an endpoint that is not candid |
| `SellerSettle` | extends `FacilitatorSettle` with the seller's tries |
| `WebhookDelivery` | fan-out, queue, worker, manual retry, endpoint lifecycle |
| `RefundWorker` | the refund queues and their workers |
| `ProxyRequest` | extends `RefundWorker` with the requests that fill its queue, each for an endpoint and with a payment, which together are the unique key of a refund |
| `QuoteEscrow` | the abstract promise of a swap: of all who pay for a quote one at most is given anything, output or refund, both only if the output was lost sight of, and replies that say so |
| `SwapExecution` | quotes and their executions on one wallet; `swap.ts` and `swap-base.ts` are one algorithm, with the chain a variable that is fixed at the start; a quote may be of the other chain; `Others` are the moves of the wallet by what is not an execution; implements `QuoteEscrow` |
| `MppCharge` | `POST /mpp/charge` on an instance of `IdempotentPayment`, which stands for the ledger |
| `RateLimit` | `check()` with its two buckets, on a discrete clock |
| `FeeSplit` | `computeFee` as the row is inserted with it |
| `CdpUsage` | the CDP adapter's `supports`, `settle` and counter |
| `PayAndCall` | one repeated call of an agent, its sessions, the cache and its key, restarts |
| `CatalogSync` | the mirror of external catalogues |
| `CatalogListing` | one listing of the public catalogue under edits and reviews |
| `MC*` | instances for TLC; `MCGateway` takes the last seven modules, of which a behaviour picks one |
| `IdempotentPayment_proofs`, `QuoteEscrow_proofs` | what the abstract promises come to; instantiated by the proofs of what implements them |
| `PaymentLedger_proofs`, `WebhookDelivery_proofs`, `SwapExecution_proofs` | inductive invariants, theorems and refinements of the module in their name |
| `FacilitatorSettle_proofs` | the same for `FacilitatorSettle` and, composed with it, `SellerSettle` |
| `RefundWorker_proofs` | the same for `RefundWorker` and, composed with it, `ProxyRequest` |
| `Gateway_proofs` | the same for `FeeSplit`, `CdpUsage`, `MppCharge`, `PayAndCall`, `CatalogSync`, `CatalogListing`, `RateLimit` |

**How state corresponds.** A table is a function from the request that inserts the row to the
row's columns (`status`, `final`, `attempts` in the ledger; `status`, `used`, `hash` at the
facilitator): a request inserts at most one, with a fresh id. `pc` (or `place`, `at`, `step`,
`phase`) is the await a request or worker is suspended at; an action is everything between two
awaits, so every Redis, Postgres, HTTP and chain call is a point where others may run. A unique
index is the guard of the insert; `ON CONFLICT` is its other branch. Redis' lock is `lock[k]`, and
`LockExpires` is its TTL. A provider or adapter call is two steps, `Call…` and `…Returns`; `calls`
holds what may still land, and `Land` is the chain, which consumes an authorization once. `calls`
outlives errors, answers and crashes. In `WebhookDelivery` the worker's `try` block is broken at
each query; in `RefundWorker` `held` is whether the Postgres connection, and with it the row lock, is
still there. In `SwapExecution` an execution has three transactions (`pull`, `swap`, `out`), each
`flying` until the chain lands or reverts it, whatever its sender was told. In `RateLimit` a
pipeline reaches Redis some time after its clock was read. In `CatalogSync` a row is identified by
URL and `pay_to`, a page holds one entry, and the lists are changed by others between pages. In
`CatalogListing` an offer is the three fields a change of which asks for a review.

**Abstractions.** Scores, prices, addresses, wording and HTTP statuses beyond their class are left
out; a ranking is any sequence of distinct providers. Requests refused before they have any state
are left out. Time is the hour or month bucket where the code computes with it, ticks in
`RateLimit`, and otherwise a step that may be taken at any moment (TTL, deadline, abort, expiry of a
quote or a session).

## Runs

| run | instance | shows |
|---|---|---|
| `ledger` | 2 requests, 1 key, 2 providers, 2 attempts | `TypeOK`, `OnePaymentPerKey`, `AttemptBeforeCall`, `SettledIsPaid`, `PendingIsExplained`, `Implements`, `EveryRequestAnswered` |
| `facilitator` | 3 requests, 1 payload, 2 adapters, 2 hours | `OneSettlePerKey`, `FailoverTrail`, `HashIsPayment`, `ToldIsOnFile`, `Implements` |
| `seller` | 1 exchange of 3 tries, 1 adapter, 2 hours | `AcceptedIsSettled`, `EveryExchangeEnds` |
| `webhooks` | 1 delivery, 2 jobs of 2 tries, 1 fault, any number of stray retries | `SuccessWasAcked`, `PendingHasJob`, `DeadWasTried`, `PostsAreBounded`, `EveryDeliveryEnds` |
| `refund_drain` | 2 rows (1 unpayable), 2 workers, 2 tries, 1 fault | `RefundedWasSent`, `SentOncePerTry`, `EveryRefundEnds` |
| `proxy` | 2 requests, 2 endpoints, 2 payments (1 hashed), 1 worker, 1 fault | `FailureIsQueued`, `PaidBackOnce`, `SpendIsOnFile` |
| `swap` | 2 quotes or 1 of the other chain, 2 requests or 1 and another payment, both chains, 1 fault or throw | `ExecutedOnce`, `CompletedWasDelivered`, `FailureIsRefunded`, `NotPaidTwice`, `DeliveredIsBought`, `ExecutingIsExplained`, `Implements` |
| `parts`: rate limit | 3 checks, limit 1, a minute of 2 ticks, 6 ticks | `WindowIsBounded` |
| `parts`: fee | rates 0, 1, 150 and 1000 basis points, cap 12, amounts to 130 | `SplitIsFair` |
| `parts`: CDP | 3 settlements (1 of the facilitator), cap 1, 2 tries, 2 months | `CapIsKept` |
| `parts`: MPP | 3 charges and a settlement, 1 key, 2 transfers | `OkIsPaid` |
| `parts`: MCP | 2 calls, 3 sessions (2 of one order of networks), 2 hours, any number of restarts | `PaidOnce` |
| `parts`: catalogue | 2 sources, 3 rows, 2 syncs, 1 change, 2 pages | `ListedIsVisible`, `DelistedIsHidden` |
| `parts`: listing | 2 fields of 2 values, 2 edits, 1 review, each again and again | `ApprovalStands` |
| `seller_hour` | as `seller` | violates `RetryIsDeduplicated` |
| `refund_skip` | 2 rows (1 unpayable), 1 worker, a batch of 1, no fault | violates `SkippedRowsDoNoHarm` |
| `proxy_cut` | as `proxy` | violates `FailureAlwaysQueued` |
| `swap_paid` | as `swap` | violates `PaidIsServedOrRefunded` |

The other modules' type invariants are part of the inductive invariants and proved.
`CHECK_DEADLOCK FALSE` because a finite set of requests, jobs, syncs or hours comes to an end; only
the refund workers' ticks go on.

**Why the bounds are enough.**

- Two requests are an owner and a replay, which is what the ledger's races are between; the replay
  overtakes the lock when it expires and becomes a second owner. The facilitator has three, since a
  third request may replay what a second one opened in the next hour. Two providers give one
  failover and a last candidate, where the code differs.
- A webhook job has two tries where the code has seven: the code only asks whether a try is the last
  one. Two jobs are the fan-out's own and one manual retry's. One fault is a job or a producer cut
  short; what the others do meanwhile is not bounded by it.
- Two refund rows are enough for a row to be in front of another, two workers for a claim to meet a
  lock, two retries for a try that is not the last. The rows of this run are in one table and on
  Base: a third row, on Solana or in `swap_refunds`, makes the instance too large. What is proved of
  the worker holds for both tables and chains. The batch of two has room beside the unpayable row;
  `refund_skip` is the batch without.
- Two endpoints and two payments, one of them with a transaction hash, are the four ways two
  requests can share the key of the unique index or miss it.
- Two requests at one quote are the race for it; at two quotes, in any directions, the race on the
  wallet. Amounts are units: what matters is whose they are. A swap that buys less than the floor
  is one whose gain another execution took away. A payment of others into the wallet takes the place
  of the second request and a quote of the other chain that of both quotes, one of two requests at
  most is hit by a fault or a throw or loses sight of a transaction, and no quote is left that nobody
  asks for (`FewTroubles`, the constraint of the runs, without which the instance is too large). What
  is proved of the executions has no such bound.
- In `parts` the three checks are two of the limit and one more, over two buckets and a third in
  which the first has expired; the fee's rates and amounts are on both sides of the minimum, the cap
  and the first unit of rounding; three settlements can be in flight together beyond a cap of one;
  three charges and a settlement are an owner, a replay, a charge by another transfer and a row that
  is no charge. The catalogue's two sources share a row, two rows share a URL, the list of three
  entries is longer than the pager's two pages, one change moves an entry past the pager or takes it
  away, and the two syncs are two ticks, two of the administrator's, or one crossing the other.
  Three sessions are an old and a new one with the same network first and one with another.
  Two edits of a listing overlap each other, a review or a suspension; two fields make a patch of one
  of them and of both.

`LastHour`, `LastMonth`, `Ticks`, `LastGross`, `MaxFaults`, `MaxSyncs`, `MaxChanges` and the finite sets of
requests, jobs, rows, checks and calls are the only bounds on behaviours, and each is named in its module.

**Fairness.** Weak, and only where the event loop justifies it: a request that has arrived goes on
because each of its awaits has a timeout (`FairSpec` of the ledger); a seller's try ends after thirty
seconds (`SellerSpec`); a webhook worker is up and a producer goes on unless it fails; a refund
worker's timer keeps firing. Nothing is asked of arrivals, faults, TTLs, chains, adapters or a dead
facilitator. `SwapExecution` and the parts state no liveness: a swap waits for chains and
aggregators, and nothing in the code takes an interrupted execution up again.

**Divergences.** Four runs state what a comment says and find that the code does otherwise:

- `seller_hour`: a retry after the hour derives another key and opens a second payment;
- `refund_skip`: unpayable refunds at the head of the queue starve those behind them;
- `proxy_cut`: an upstream body that is cut off while it is read leaves no refund;
- `swap_paid`: a buyer who pays for a quote that was taken or has expired meanwhile leaves no refund.

The passing properties make their exceptions explicit in the same terms (`faulted`, `strayed`, `hit`,
the chain of a row). Further places where code and comments part, which the models contain and no run singles out:

- A replay at the ledger is answered with the row as it was read, pending or not, although the owner may
  have settled it by then. `IdempotentPayment` allows it.
- `docs/facilitator-integration.md:72-73` says that a call "replayed within the hour → returns the original
  response". `facilitatorSettleResponse` knows "settled" and everything else: a replay that finds the
  row pending, because the first try is at work or its final UPDATE was lost, is told
  `success: false`, `unexpected_settle_error`, and the payment may settle after that.
  `ToldIsOnFile` excepts this answer.
- The retry route says "Scope check FIRST" (its lines 35-36), but that check is of the endpoint in the
  URL; whether the delivery is that endpoint's is looked at after the row was reset to pending
  (lines 46-54). A mismatch is a 404 and queues nothing: the delivery stays pending (`strayed`).
- `upstream-x402.ts:325` turns the price of an upstream's challenge, checked only to be a string, into a
  `BigInt` outside any `try`: if it is no number the buyer, who has paid, gets a 500 and no refund
  row, as with a body that is cut off (`handler.ts:1526-1528`).
- `refunds_pending` is unique per endpoint and transaction hash (`refunds.ts:85-86`): a payment that is
  replayed at two endpoints of a seller, and fails at both, is paid back twice. `PaidBackOnce`
  is about one endpoint.
- `findByQuoteId` does not ask for a network. A quote of Solana paid for at the Base route throws in
  `getAddress` (`swap-base.ts:842-843`) after `markExecuting`; amounts and addresses of the aggregator
  are converted outside any `try`, too (`swap.ts:1029,1180`, `swap-base.ts:915,971,1054`). The buyer
  has paid, the row stays in execution and there is no refund, although `swap.ts:925-926` says that a
  failure after the payment inserts one (`hit` has `"throw"`).
- The swap wallet is paid for quotes (`swap.ts:1331-1366`) and moved by refunds and settles: a reverse
  execution between its two balance reads delivers that, too (`crossed`).
- `pay-and-call.ts:338-341` says that a new session of the same wallet is idempotent against calls
  of a prior one. The key holds the network and the address that the session lists first (lines 429-437),
  so that a session with its networks in another order pays again, and so does one of a new
  process, whose cache is empty (lines 24-25 accept that). `PaidOnce` is about one process and one key.
- An empty hash from the last adapter of a route is settled; from any other it is failed over.
- Webhook tries go on past `max_attempts`, which nobody reads; BullMQ's own count ends them.
- A reverse swap without the buyer's approval is refunded input and fee in the input token, although
  `swap.ts:963-967` speaks of "a pending refund of the fee" and only the fee was taken.
- A payment without a transaction hash is outside the unique index of `refunds_pending`: each of its
  replays that fails leaves a row, and each is paid. `refunds.ts` leaves duplicates to the operator;
  the worker does not wait for one. `PaidBackOnce` is about hashed payments.
- Two proxy requests with one payment: one may be served and the other refunded.
- `cdp-bazaar.ts:92-93` says that a pager that stops short is logged as `partial`; `sync.ts:86-87`
  looks at rows that could not be written only, and records `ok`. `cdp-bazaar.ts:11-12` says that
  the next tick picks up the rest of a list that is longer than the page cap (20 there, 100 at
  line 27); every pass starts at offset 0, and what lies behind the cap is archived, not
  picked up. `ListedIsVisible` excepts these entries.
- `catalog-store.ts:400-402` says that significant changes of a listing put it back to `pending` so that
  admins re-review. An edit that read the row as approved and changes nothing significant writes
  `approved` back over the `pending` of an edit that came between, or over a suspension. And
  `moderateListing` asks for a pending row only: if the owner edits while the reviewer reads, the
  new offer is approved. `ApprovalStands` holds but for these two (`tainted`).

## Proofs

What is proved holds for every value of the constants under the modules' named assumptions: counts are natural
numbers, sets that are counted are finite, `None` is none of the values, a failover order is
without repetition, and the constants of a composed module match (`Requests` of the facilitator are
the tries of the sellers; `Rows` of the refund worker include the proxy's requests). None of the
safety properties but the uniqueness of rows is inductive by itself; each proof module states what
a request's place in the code implies of its rows, has a lemma per conjunct with one step per
action, and derives the properties.

- **`PaymentLedger`**: `TypeOK`, `OnePaymentPerKey`, `AttemptBeforeCall`, `SettledIsPaid`,
  `PendingIsExplained`, and `Spec => Promise!Spec`. The invariant adds `RowByPlace` (no row before the INSERT, a
  pending one until finalize, a resolved one at the re-read), `AnswerByPlace`, `AttemptsByPlace` (the
  last attempt is the one being called, all before it failed, and "settled" means that the chain
  has the payload through that provider) and `Settled`. That `paidBy` never changes once set
  carries `SettledIsPaid` over the steps of other requests. In the refinement insert is `Open`, finalize
  is `Resolve`, and every poll, lock, attempt and fault is a stutter, an `Answer` or an `Error`.
- **`IdempotentPayment`**: `Spec => []OneOutcome`: two callers of one key are told of one payment, and
  never of two different outcomes of it, but for a refusal by an endpoint that is not candid; and
  `Spec => [][SuccessIsKept]_vars`: once one was told of a settlement, nobody is told of anything else
  from then on. The invariant: one row is opened per key, whoever is told of a
  payment is told of the row of its key, and an outcome, once told, is the row's. With the
  refinements this holds of the ledger (`OneOutcomePerKey`), of MPP charges beside settlements of the same
  table (`OneOutcomeToClients`), both candid, and of the facilitator alone and under
  sellers whose tries overlap (`SuccessIsKeptPerPayload`, `SuccessIsKeptToSellers`), which is not,
  without another look at any of them.
- **`FacilitatorSettle`**: the type invariant, `OneSettlePerKey`, `FailoverTrail`, `HashIsPayment`,
  `ToldIsOnFile`, and the refinement. The invariant adds the row by place, one row per key, a row
  behind every call, the trail so far (its length is at most the failovers, and equals it
  at a resolved row) and that a hash vouches for the chain from the moment an adapter returns it.
- **`SellerSettle`**: a seller's step is a step of the facilitator or none, so the facilitator's
  invariant and refinement hold in the composition; with it, `AcceptedIsSettled`, which needs that an
  answer is about a row of its request's key and that settled rows stay settled.
- **`WebhookDelivery`**: `TypeOK`, `SuccessWasAcked`, `DeadWasTried`, `PendingHasJob`, `PostsAreBounded`.
  `PendingHasJob` is proved from something stronger: the job of a pending delivery has not recorded a
  success yet, since a job that has does not look at the row again. For `PostsAreBounded` the tries that
  a delivery's jobs have spent are slots `<<job, try>>` of a finite set: a POST adds one, a failed try keeps its
  own, and a worker that dies loses one, for which its fault pays.
- **`RefundWorker`**: `RefundTypeOK`, `RefundedWasSent`, `SentOncePerTry`. The invariant counts: what a row
  was sent, plus the workers about to send it, is at most its retries on file, the faults, and one
  for a row that is locked or refunded. That locks exclude each other is what keeps the second
  summand at one.
- **`ProxyRequest`**: `FailureIsQueued`, `PaidBackOnce`, `SpendIsOnFile`, and the worker's
  `SentOncePerTry` in the composition, where a request's step is a producer's or none.
- **`SwapExecution`**: the type invariant and the six properties of the `swap` run. The invariant says that
  whoever has taken a quote is alone with it whatever overwrites the row (`HolderTook`,
  `HolderIsAlone`), that the transfer comes last (`TransferIsLast`), what lies behind a
  request at each place (`BehindIt`, `BoughtBySwap`), who explains a row in execution or completed, and
  that, of a request nothing crosses, the balance is what it read plus what it bought
  (`BalanceIsExplained`). And `Spec => Promise!Spec`: an output that lands is `Deliver`, a transfer whose
  confirmation fails is `Lose`, the refund row is `Refund`, a query or a conversion that throws is `Fail`, and whatever moves the
  wallet or a row only is a stutter. That whoever is given something is the first to be rests on
  `HolderIsAlone`; that a late output is one the proxy lost sight of, on `OutIsSeen`; that whoever is refused
  has nothing in flight, on `TransferIsLast` and `LostWasSent`.
- **`QuoteEscrow`**: `Spec => []Fair`, and with the refinement `BuyersAreTreatedFairly` of the executions: of
  those who pay for a quote one at most is given anything, and "ok", "failed", "refused" and
  "rejected" are said only to whom they are true of, now and later, but for a failed query, a
  throw outside any `try` and, on Solana, an output taken for sent on a confirmation whose error is not read.
- **`Gateway_proofs`**:
  - `SplitIsFair` for every amount, rate up to 1000 basis points and cap. It rests on arithmetic
    lemmas: the share grows by at most one from an amount to the next, and so does the clamped fee.
  - `PaidOnce`: a call that is over keeps its result, and a settled one keeps its cache entry until the
    process ends, when no call that began after it is under way any more.
  - `OkIsPaid`: the abstract ledger's promise is the only thing used of the ledger.
  - `CapIsKept`: the settlements made in a month are counted or in flight; the counter
    is below the cap when one is let in, and `peak` bounds those that are in flight with it.
  - `ListedIsVisible`, `DelistedIsHidden`: an entry that stays listed is on a page that
    was read or ahead of the offset (`Reading`), then on display as soon as the upserts are past it
    (`Written`); what is unlisted is never read (`Unlisted`); and two passes meet only if one of
    them is the administrator's, and then neither promises anything (`Uncrossed`).
  - `WindowIsBounded`: the counters miss none of the checks admitted in their own minute and the
    one before (`CountersCover`; missed are the checks the property excepts), and the last check
    admitted in a window had room for all those before it, with at least the weight the window gives
    the earlier bucket. It needs that a counter outlives the minute after its own: its TTL is at
    least two minutes, which `EXPIRE` with 120 seconds grants.
  - `ApprovalStands`: whoever has not been overtaken still knows the row: an edit about to write
    `approved` changes nothing of an approved offer (`FreshEdit`), a review is of the offer on file
    (`FreshReview`).

**Only model-checked**: liveness everywhere (`EveryRequestAnswered`, `EveryExchangeEnds`,
`EveryDeliveryEnds`, `EveryRefundEnds`), which is out of the prover's reach. `EveryRefundEnds` asks that
the unpayable rows of a table be fewer than a batch. Every invariant and
refinement that a passing run checks is also proved. `OneOutcome`,
`SuccessIsKept` and `Fair` are proved and in no run.

## Status and what could follow

Modelled, checked and proved: the ledger, the facilitator, the webhooks, the refund worker, the swap
execution, MPP charges, the fee, the rate limiter and the catalogue sync; modelled in part: the
listings (without the e-mail verification, which changes no status), the seller's middleware (its
settle half), the proxy (from the payment on), the CDP adapter and the MCP gateway (the operations
with state). Worth adding next: the composition of `SwapExecution` with `RefundWorker` on
`swap_refunds`, which would carry `Fair` on to the transfers a refund row leads to, and the statuses a
provider's health check may pass through.

## Not modelled

`PROJECT.json` lists every component with its status. Left out for good: pure I/O and formatting
(payloads, signatures, OpenAPI, the seventy data products behind the proxy, which are the larger part of
the source), configuration, the dashboard's pages, migrations, read-only routes and single
statements. Health checks and capability discovery write advisory rows that only change a ranking,
and a ranking is arbitrary in the models. The buyer clients sign one request at a time
and share no state.
