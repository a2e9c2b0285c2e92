# A formal model of the SISTEMA CISNE backend

SISTEMA CISNE RONDÔNIA is the business system of a service company: clients,
requests, proposals, service orders, measurements, billing, receivables,
accounting, stock and payroll. It is a monorepo of a NestJS API
(`apps/api/src`), a React client (`apps/web`) and a PostgreSQL schema
(`packages/database`). Several API and worker processes share one database;
there is no other shared state. What can go wrong across them is therefore
always the same kind of thing: SQL statements and transactions of different
processes in an order nobody tried, and processes that die, stall or lose an
answer between two of them. That is what these modules model.

Paths below are relative to `apps/api/src` unless they start with `packages`
or `docs`.

## 1. Inventory

### Modelled

| Component | State | Operations | Interacts with |
|---|---|---|---|
| Job queue and worker (`platform/background-jobs`, `worker/main.ts`) | rows of `plt.background_jobs`; in each worker: poll timer, in-flight promises, shutdown flag | enqueue, release expired leases, claim, execute with timeout, four verdicts, stop, start | producers enqueue; handlers run notification dispatch and others |
| Transactional outbox (`platform/outbox`, `events`) | rows of `evt.outbox_events`, `evt.domain_events`, `evt.notification_intents`; in each publisher: claimed batch | append in the caller's transaction, claim, record the domain event, enqueue its job, mark published / failed / retry | written by every business transaction, feeds the job queue |
| Notification delivery (`notifications`, `integrations/acl`) | `evt.notification_intents`, `ntf.notifications`, `ntf.delivery_attempts`; messages the provider accepted | dispatch an intent over its channels, record attempts, apply delivery reports | run by the job queue, calls providers, called by webhooks |
| Billing (`billing`) | `bil.billing_records`, `bil.billing_documents` and their idempotency keys | prepare, void, issue, cancel, replace | reads measurements, opens and cancels receivables |
| Receivables and collections (`finance`) | `fin.receivables`, `fin.settlements`, `fin.receivable_collections`, `fin.collection_promises` | open from billing, settle, cancel, open a case, promise, close by settlement | called by billing through `FinanceReceivablePort` |
| Treasury (`finance`: treasury) | `fin.financial_accounts`, `fin.financial_transactions`, `fin.financial_transfers`; row locks of each transaction | post a credit or a debit, transfer, reverse a movement, reverse a transfer | its movements are what bank lines are matched with |
| Bank import and reconciliation (`finance`: bank-reconciliation) | `fin.bank_statement_imports` and their lines, `fin.reconciliations`; the clients of the connection pool | import a file, match automatically, suggest, confirm, take back | reads the treasury's movements; shares the pool with every request |
| Authentication sessions (`auth`) | `identity.sessions`, `identity.refresh_token_families`, `identity.refresh_tokens`; row locks | login, refresh, detection of reuse, logout, logout of all sessions | every other request presents the session's access token |
| Procurement and payables (`procurement`, `finance`: payables) | `prc.purchase_requests`, `prc.supplier_purchase_orders`, `prc.goods_receipts`, `prc.supplier_invoices`, `fin.payables`, `fin.payments` | submit, decide, issue, receive, cancel, register and validate an invoice, open, pay, reverse, cancel a payable | receipts and invoices open payables in finance, and so may a client |

What makes them correct, and what is hard about it:

* **Job queue.** A job is judged once, its verdict stands, it is not tried more
  often than `max_attempts`, and it is judged in the end. No verdict is fenced:
  every one is `UPDATE ... WHERE id = $1`. A timeout does not stop the handler
  it gives up on. `claimJobs` never reads `max_attempts`. A shutdown may fall
  anywhere in a poll cycle.
* **Outbox.** A published event has its job; events are settled once and in the
  end; events of an aggregate keep their order. A batch shares the time of one
  lease; the publisher's statements are in no transaction; claims skip locked
  rows.
* **Notifications.** One message per channel, an intent that is dispatched only
  when every channel is settled, and a status that is true. Runs overlap after
  a timeout, the provider may accept what was given up, a record may fail after
  the message is out, reports race with the run.
* **Billing and receivables.** A measurement is billed once, a cancelled
  document leaves no debt, no debt is overpaid or paid after it is cancelled, a
  case is closed by full payment only. Billing and finance own their schemas
  and use separate transactions, so a request may end between them.
* **Treasury.** No account without overdraft goes below zero, a movement is
  never reversed beyond its amount, and calls that lock several rows do not lock each other out. A
  transfer locks accounts in the order of their ids; the reversal of a movement
  locks the movement first.
* **Bank reconciliation.** A line has one reconciliation that stands and a
  movement stands for one line. Callbacks of a transaction query the pool on a
  second connection: what they read is not what the transaction sees, and they
  wait for a client while they hold one. `autoMatch` works from lists.
* **Sessions.** Tokens of a session follow one another, nothing is issued in
  a revoked family, an active session can be refreshed. Refresh locks the token
  and then the session, logouts lock the session first; each statement of a
  transaction sees what is committed when it starts.
* **Procurement.** Orders stand on approved requests, receipts fit their order,
  a payable is worth the goods it is for, also beside clients that open payables
  themselves. Each call reads, checks and writes in
  transactions of its own; receipts and invoices look for each other's payable
  before they open one.

### Not modelled

`PROJECT.json` lists every other part with its reason. The ones worth modelling,
in the order of the plan, are the integration inbox, inventory, service orders
with allocation and measurements, and accounting postings. Registers
(clients, suppliers, people, establishments, catalog) are create-and-edit under
optimistic row versions; alerts, dashboards, analytics, reports and search are
read models; observability and operations tooling stand beside the system; tax
and payroll rules are decimal arithmetic over tables; the web client shares no
state. The test harnesses (`chaos-recovery`, `concurrency`,
`failure-injection`, `uat` and others) are read as documentation.

## 2. Modules

| Module | What it is |
|---|---|
| `BackgroundJobs` | the queue table and its workers, a statement at a time |
| `JobContract` | what the queue promises to producers: no worker, lease or timer in it |
| `Outbox` | the outbox table, its publishers, and what they write elsewhere |
| `OutboxContract` | what becomes of an event, with no publisher, lease or timer in it |
| `NotificationDelivery` | the runs of one dispatch job, the providers and delivery reports |
| `BillingReceivables` | billing and finance, a transaction at a time |
| `Treasury` | movements and transfers, a row lock at a time |
| `Ledger` | the book that the treasury keeps, with no call, lock or version in it |
| `BankReconciliation` | bank lines and what they are matched with, on a pool of clients |
| `Sessions` | sessions, token families and tokens, a statement and a row lock at a time |
| `Procurement` | from the purchase request to the payable, a transaction at a time |
| `..._proofs` | theorems about the module of that name: all of these but `Ledger` and the contracts |
| `MC...` | constants and symmetry sets for TLC |

The components meet as follows: a business transaction appends to the outbox
(`AppendEvent`); the publisher enqueues a dispatch job (`EnqueueDispatch` in
`Outbox`, `Enqueue` in `BackgroundJobs`); the worker runs the handler
(`HandlerReturns`, `TimeOut`), which is a run in `NotificationDelivery`
(`Begin` ... `Finish`, with `Abandon` for the queue's timeout). Each module keeps
the part of its neighbours that it depends on: `NotificationDelivery` starts a
new run when the queue would, `Outbox` keeps the set of jobs that exist, and
`BankReconciliation` has a fixed set of posted movements. `Procurement` holds
both sides of its interaction, procurement and payables, as `BillingReceivables`
holds billing and receivables. A composed module of outbox, queue and delivery
is planned.

### BackgroundJobs

A row of `plt.background_jobs` is `status`, `leaseOwner`, `lease`,
`attemptCount` and `runAfter`; an execution is named by job and attempt number,
which no two claims share. `run` says where `executeJob` stands for it, and
what verdict it has still to write. A worker is `phase` (where `pollCycle`
stands), `pollTimer`, `slots`, `batch`, `shuttingDown` and `stopCall`.

| Code | Actions |
|---|---|
| `enqueueJob` | `Enqueue` |
| `pollCycle`, `runOnce` | `Poll`, `ReleaseExpired`, `Claim`, `BeginBatch`, `EndCycle`; `PollError`, `ClaimLost` when a statement fails or its answer is lost |
| `executeJobInner`, `withTimeout` | `HandlerReturns`, `TimeOut`, `AbandonedHandlerEnds` |
| `markCompleted`, `markFailedPermanent`, `markDead`, `scheduleRetry` | `Settle`, by `MarkCompleted` ... `YieldRow`; `VerdictError`, `VerdictAckLost` |
| `stop`, `start`, `shutdown` of `main.ts` | `Stop`, `StopReturns`, `Exit`, `Start`, `Crash` |

Abstractions. Time is countdown timers in ticks. Which due rows a claim takes,
when there are more than slots, is left open (the code orders them by priority
and time). `max_attempts` and the timeouts are the same for all jobs. Errors are
reduced to their class. `forfeits` is a history variable: attempts that ended
without a verdict. `MaxClaims` bounds attempt numbers in the guard of the claim;
it is above what the other bounds let a job use.

### Outbox

A row of `evt.outbox_events` is `status`, `leaseOwner`, `lease`, `attempts`,
`wait` and `sequence`; `earlier` orders rows by `available_at`. `domainEvents`,
`intents` and `jobs` are the rows written outside it. A publisher is `pc`, the
statement of `publishClaimedEvent` that comes next, the `held` rows of its batch
and the `current` one. `budget` is the time its batch may still take.

`Claim` is `claimPending` with its ORDER BY; `LookUp`, `InsertEvent` and
`InsertIntent` are the statements of `recordDomainEvent`; `EnqueueDispatch` and
the three verdicts follow. `WriteAnswered`, `StatementError` and `WriteAckLost`
are one write that succeeds, fails, or commits without an answer.

Abstractions. An event type has one intent. Sequence numbers are given in commit
order, as if appending transactions never overlapped. An event that is found
duplicate at enqueue is one whose job exists.

### NotificationDelivery

`intent`, `notification` and `attempt` are the tables; `accepted` is what the
provider has taken, by attempt number, which is its idempotency key. A run is
`pc`, the channels in `todo`, the current `channel`, its attempt `number` and
the `outcome` it will record. Every statement and provider call is a step;
`ReportDelivery` and `ShowDelivery` are the two statements of
`applyDeliveryUpdate`.

Abstractions. Channels are tried in any order. A provider accepts one message
per key and does not refuse a message it knows. A report that finds no attempt
changes nothing.

### BillingReceivables

`record`, `document`, `billed` and `issueKey` are billing's tables,
`receivable`, `posted`, `paid`, `collection` and `promise` those of finance. A
receivable is named by its document. A request is a record of what it does next
and what it has read, so that a decision taken before a transaction and used in
it (`ReadRecord` and `IssueDocument`, `ReadDebt` and `OpenCase`) is two steps.
`issue` is `ReadRecord`, then `IssueDocument` or `ReplayIssue`, then
`OpenReceivable`; `cancel` and `replace` are `StartTakingBack`, then
`CancelDocument` or `ReplaceDocument`. A settlement is `CheckSettlement` under
the row lock, then `PostSettlement`; `Locked` is the lock. `Abort` ends a
request between any two steps: a refused guard, an error, a crash. `missed` is a
history variable: documents whose receivable a cancellation did not find.

Abstractions. All records are of one measurement. Amounts are small integers.
The caller's `rowVersion` is the current one. Whether a debt is overdue is left
open. Only a receivable's latest case is kept. Idempotent replays that change
nothing are stutters. The purchase-order balance, numbering, the PDF artefact,
instalments, contact logs and history rows are left out.

### Treasury

An `order` is what a caller wants under an idempotency key; a movement is named
by key and account. Each operation is one transaction: `Begin`, `Lock` row by row
in the order of `Wanted` (waiting for those that other calls hold), `Verify` for
what a reversal reads before its account, `Check` against the balance or what is
left to reverse, `Write`. `Replay` answers a key that is used already;
`RefuseStale` is a row version that has moved on, `RefuseReversed` a transfer
that is reversed, `RefuseAmount` what does not fit; `Abort` is a rollback, by an
error or as the victim of a deadlock. `found` holds what a call has read, so that
its use is a later step than its reading.

Abstractions. `balance` is the sum that `derivedBalance` computes, kept as a
variable. Currencies, categories and accounting entries are left out. Accounts
are opened in `Init`.

### BankReconciliation

`imported`, `statement`, `match` and `recon` are the tables. A request at
`connect` waits for one of `PoolSize` clients; one that is at `lock` or `work`
holds one, and may need a second to go on (`findActiveByLine`,
`countConfirmedMatchesForLine`, `listLines`). `PoolTimeout` is
`connectionTimeoutMillis`. `autoMatch` is `ReadMovements`, `ReadLines`, then
`NextLine` for each line, with a transaction for what it marks or suggests.

Abstractions. A line is named by its fingerprint, and lines of two files that
have the same one are the same line. What is equal in direction, amount and day
is the constant `Exact`. Parsing and lines typed in by hand are left out.

### Sessions

`status`, `family` and `token` are the tables; a transaction is `rest`, the
statements before it, `plan`, the rows its statement has selected and not yet
locked, `held`, what it has locked, and `marked`, what it will revoke at COMMIT
(`Revoke`). That is READ COMMITTED: the plan is made from what is committed when
a statement starts, and a row that had to be waited for is looked at again
(`LockRow`). `refresh` is `BeginRefresh`, `LockToken` (with reuse, which
becomes a call that revokes), `Rotate`; `BreakDeadlock` is PostgreSQL's
detection. `overlapped` is a history variable: sessions whose login met a
`logoutAll`.

Abstractions. One identity. Sessions and tokens do not expire by the clock.
Access tokens, which are checked without state, are left out.

### Procurement

`request`, `order`, `receipt` and `invoice` are procurement's tables, `payable`
those of finance with the history field `byClient`. An order has the id of the
request it is issued for. A call is
`pc` and `task`, which holds the version its client has read and the payable it
has found: `Read` and `Ask` are the checks outside the transaction,
`WriteRequest` and `CancelOrder` the transactions that compare versions.
`receiveOrder` is `Receive` or `ReceiveAgain`, `FindInvoice`, `OpenForReceipt`,
`Attach`; the validation of an invoice is `Prepare`, `OpenForInvoice`,
`Validate`. `Abort` ends a call between any two of them.

`OpenByClient` is `POST finance/payables` (`PayablesAccessService.open`): a client
that may open payables names the origin, which may be a receipt or an invoice, and
the principal. Nobody looks up whether there is such an origin or what it is worth,
and `OpenPayable`, as `openOnClient`, gives the row there is to the receipt or the
invoice that comes later. The action has no guard. `byClient` is not in the table:
it records which rows came about that way, for the properties alone.

Abstractions. An order has one line and a unit price of 1, so that quantities
are amounts. The snapshots of the three-way match are left out, as nothing reads
them.

## 3. What TLC checks

Every module has one type invariant, `TypeOK`. The other properties:

| Property | Says |
|---|---|
| `WriterHoldsLease` | an execution that will still write to its row holds the row's lease under its latest attempt |
| `TerminalIsFinal` | a job with a final verdict is never run, retried or judged again |
| `RetryBudget` | attempts exceed `max_attempts` only by those that ended without a verdict |
| `KeepsContract` | the queue implements `JobContract`, the outbox `OutboxContract` |
| `EveryJobIsJudged` | a submitted job gets a verdict |
| `WaitedStopDrains` | a `stop()` that waited and returned in time leaves its worker no leased row but those of an earlier process with the same id |
| `HolderHoldsLease` | a publisher holds the lease of every event it has still to publish, the last of a batch included |
| `OnlyTornEventsAreLost` | a published event has its job, unless its recording was cut in two |
| `EveryEventIsSettled` | an appended event is in the end published or failed, and stays so |
| `DispatchedMeansSettled` | a dispatched intent has, per channel, an attempt accepted or refused for good |
| `ShownIsTrue` | a notification shows SENT or DELIVERED only for a recorded, accepted message |
| `OneMessagePerChannel` | a provider accepts one message per channel |
| `EventuallyDispatched` | the intent is dispatched while failures are fewer than attempts |
| `NoOverpayment` | settlements never add up to more than the principal |
| `OnlyActiveDebtsArePaid` | no money is posted to a receivable that is not active |
| `OrphansWereMissed` | an active receivable of a cancelled document was looked for before it was opened |
| `DoubleBillingNeedsVoid` | two live documents of a measurement are of different records, one of them voided |
| `ClosedCasesArePaid` | a case is closed on full payment only, and promises wait only in open cases |
| `NoOverdraft` | an account without overdraft never goes below zero |
| `KeepsLedger` | overlapping calls post as if one after the other: the treasury implements `Ledger`, whose entries fit the balance and what is left to reverse at the moment they are made |
| `DeadlockNeedsReversal` | two transactions of the treasury wait for each other only if one reverses a movement |
| `OneActive` | one reconciliation that stands per line and per movement |
| `ShownMatches` | what a line shows agrees with its reconciliations, but for a line that `autoMatch` marks for review |
| `EveryRequestEnds` | requests that starve each other of clients end |
| `RotationIsLinear` | a session has one token that can be rotated; a revoked session has lost its family |
| `ActiveCanRotate` | an active session has its family and a live token, unless its login met a `logoutAll` |
| `DeadlockNeedsRefresh` | transactions wait in a circle only if one of them refreshes |
| `NoTokenInRevokedFamily` | no token is issued in a revoked family, though `refresh` reads the family before it waits for the token and not again, unless the session's login met a `logoutAll` |
| `EveryCallEnds` | calls end, those that deadlock too |
| `OrdersStand` | an order stands on an approved request, receives nothing once cancelled, shows the sum of its receipts and no more than was ordered |
| `GoodsAreOwed` | a payable is worth the goods attached to it, or, if a client opened it, the document it names is; but for an invoice that names both an order and one of its receipts |

### Runs that pass

| Run | Instance | Distinct states | Shows |
|---|---|---|---|
| `jobs_two_workers` | 1 job, 2 workers, 2 attempts, 1 fault (crash, failed statement, lost claim), 1 stop | 175 k | leases, budget, finality, the contract, liveness |
| `jobs_all_faults` | 2 jobs, 1 worker with 2 slots, 1 fault of any kind, 2 stops | 165 k | what a shutdown leaves, also beside the rows of an earlier process |
| `outbox_two_publishers` | 2 events, 2 publishers, batches of 2, 2 faults | 190 k | leases of whole batches, loss only by a tear, the contract of an event |
| `outbox_liveness` | 1 event, 2 publishers, 2 faults of any kind, 1 stop | 55 k | every event is settled |
| `notify_overlap` | 2 channels, 2 runs, 3 faults of eight kinds, timeouts included | 1.1 M | overlapping runs do not lie about the outcome, send twice only after the faults named, and dispatch in the end |
| `billing_overlap` | 2 records, 2 documents, 2 requests, 2 settlement keys, principal 2 | 2.3 M | money stays right under every interleaving |
| `treasury_overlap` | 2 accounts, 3 keys, amounts 1 and 2, 2 calls | 400 k | the book is that of calls one after the other; which operations deadlock |
| `bank_pool` | 2 files that share a line, 2 movements, 2 reconciliations, 2 requests, 2 clients | 446 k | unique matches, what lines show, and that starving requests end |
| `sessions` | 1 session, 4 tokens, 2 calls | 43 k | rotation in one line, revocation that sticks, deadlocks that end |
| `procure_overlap` | 1 purchase of 2, 2 receipts, 1 invoice, 2 calls, 1 payable of a client | 2.0 M | orders and receipts stay right, payables are worth their goods |

Why the bounds are enough. The races are between two actors over one row, so
two workers, publishers, runs, requests or calls show them; a third adds
waiting, not new conflicts. Two attempts give a first, a last and, with the
attempts that a fault uses up, one beyond; a lease of two ticks against a timeout
or batch time of one gives every order of expiry, timeout and poll. Two documents
are needed for replacement and double billing, and two settlements of a principal
of two for paying in part, in full and too much. One or two faults are needed for
each scenario in the list of hazards; three in `notify_overlap`, for a refusal, a
timeout and a failed record together. Two accounts and three keys let a transfer
be made, reversed and contested by a movement of a third key, with amounts that
fit once and not twice. A pool of two is emptied by two requests, which is where
they starve; two files share one line, and two movements make it ambiguous. Four
tokens let a session rotate twice, reuse the first token and present the third
while it is revoked. Two receipts of a purchase of two fill it in part, in full
and too much, beside one invoice. Two action constraints keep that instance small.
`NoCallInVain` begins no call that what is committed refuses already and for good:
it would end without a write. `OneByClient` has a client open one payable, of
another amount than the receipt or invoice it names, once that is there: one of the
same amount is what the receipt or the invoice opens itself, only sooner, and nothing
looks at one for a document that does not exist yet. `Amount` bounds
what clients choose by the largest quantity ordered. `TypeCorrect`,
`OrdersKeepTheirGround` and `PayablesAreWorthTheGoods` hold without the two
constraints, for payables of clients of any number and at any time. The theorems of section 4 then remove the
bounds for most of these properties. Symmetry is used where only invariants and
action properties are checked. Deadlock is checked in all runs but those of
notifications and billing: a notification whose job is over and a billing system
in which all ids are used rightly stop.

Fairness. `BackgroundJobs` and `Outbox` assume that timers fire (`Tick`), that
a worker's statements are answered (weak fairness of the poll cycle and of each
verdict), that `stop()` returns, which its deadline ensures, and that a
supervisor restarts a process that ended. The timers are Node's `setTimeout`,
the poll is re-armed in a `finally`, the processes run under Docker restart
policies. Nothing is assumed of handlers: one that never returns is cut off by
the timeout. Faults are never fair, and are bounded, as a system in which every
claim fails settles nothing. `NotificationDelivery` assumes that the queue
starts runs and that statements and providers answer in some way.
`BankReconciliation` assumes that a request takes its next step, be it to give
up after `connectionTimeoutMillis`, and `Sessions` that a transaction takes its
next step, be it to be failed by the database. A row lock is granted to those who
wait in the order of their arrival, which is strong fairness of the step that
takes it: others may hold the lock again and again, but not for ever overtake.

### Runs that find the code at odds with what it says

| Run | Property violated | What happens |
|---|---|---|
| `outbox_order_violation` | `OrderedPerAggregate` | a second publisher skips the locked first event and records the later one before it |
| `procure_second_violation` | `NoSecondPayable` | an invoice that is validated during or after a receipt opens a second payable for the same goods |

Both are in `PROJECT.json` with the line of the code and the line of the document
or test that says otherwise. Other disagreements are visible in the passing
properties, each of which states the most that does hold:

* `WaitedStopDrains` speaks only of a `stop()` that waited, and leaves out the
  rows of an earlier process: a first `stop()` that gave up leaves them leased to
  the same `WORKER_ID`, which a second may find. `stop()` during a
  claim returns at once and leaves the worker polling, unlike what
  `platform/background-jobs/background-worker.integration.spec.ts:177` tests.
* `OnlyTornEventsAreLost`. A crash between the two inserts of
  `recordDomainEvent` makes the retry publish the event without a job;
  `docs/14-transaction-design/outbox-pattern-assessment.md:12` says that nothing is lost.
* `OneMessagePerChannel` names the faults after which a message goes out twice:
  the provider has accepted it, and the insert of the SENT attempt fails or the
  call was given up. The retry has a new key, unlike in
  `notification-delivery.integration.spec.ts:185`.
* `DoubleBillingNeedsVoid`. A record that is voided under its document lets the
  measurement be billed again (`billing.integration.spec.ts:402`).
* `ShownMatches` leaves out lines that show REVIEW_REQUIRED: `autoMatch` marks a
  line that was confirmed after it read its list, against ADR-003 line 34.
* `GoodsAreOwed` takes a payable that a client opened as it is: `openOnClient`
  (`payables.repository.ts:149`) returns it without comparing its amount, so goods
  are attached to a debt that may be smaller or larger than they are worth. What
  stays true of it is that the receipt or invoice it names is worth the goods.
* `GoodsAreOwed` leaves out invoices that name both an order and a receipt:
  `findValidatedInvoicePayableForOrder` does not ask that `goods_receipt_id` be
  null, so later receipts are attached to the payable of an earlier one.
* `EveryRequestEnds` holds by the pool's timeout alone: the requests that hold
  all clients and wait for one more end only by failing.
* `DeadlockNeedsReversal` and `DeadlockNeedsRefresh` name the operations whose
  lock order differs from the others.

## 4. What is proved

TLAPS proves the following for every value of the constants: any number of jobs,
workers, events, publishers, documents and requests, any durations and any
bounds on faults, stops and claims. Jobs, rows and receipts are finite sets
where a theorem needs that a set of them has a last element or a sum.

**BackgroundJobs.** `TypeCorrect` holds under any faults. The theorems
on verdicts assume `Timely`: the job timeout is shorter than the lease, nothing stalls and
no committed verdict is reported as an error. Without it they are false, and the
code does not ensure it (`worker.config.ts` reads both durations and compares
nothing); the defaults are 30 s and 60 s. `LeaseInv` strengthens
`WriterHoldsLease` with time: as long as an execution may write, its row's lease
has more ticks than its timeout leaves it, so `ReleaseExpired` cannot
take the row away. It is inductive because an unwritten verdict is written
before time passes (`Prompt`). From it follow `WriterAlwaysHoldsLease`,
`VerdictsAreFinal`, and `AttemptsStayInBudget` by `BudgetInv`. `RowSteps` lists
what any step may do to one row; `QueueKeepsContract` maps each of these to a
step or a stutter of `JobContract`. `WaitedStopsDrain` needs no timing, only that
no fault has occurred. `DrainInv` is its invariant: `Standing` says where a worker
may be in its poll cycle, what it then has under way, and that a `stop()` that
waited and has drained finds no execution alive; `OwnedRow` that a leased row is
leased for its last attempt, which is alive or ended with its process. Neither
is inductive alone: a worker that drained claims nothing more because of its phase.

**Outbox.** `TypeCorrect`, and under its own `Timely` (a batch ends within its
lease) `HoldersAlwaysHoldLease`, `OutcomesAreFinal`, `LossNeedsTear` and
`OutboxKeepsContract`. The `LeaseInv` here covers the claimed rows still waiting
in a batch, against the batch's `budget`. `LossInv` says what each point of `publishClaimedEvent` may
rely on in the other tables. The refinement maps a row, the tables and the
publisher that is recording it to one record of `OutboxContract`; `RowChange` lists
what a step may do to a row, and the lease keeps two publishers from recording
the same event at once, so that a part of a record is one publisher's.

**NotificationDelivery.** All invariants of `notify_overlap`, for any number of
runs, channels and faults. `CountInv` says that the attempts on a channel are no
more than the runs that are done with it; without it an attempt number could
outgrow the number of runs. `RunInv` says what a run may rely on where it stands,
among others that each channel behind it is settled or makes the job fail.
`OneMessage` rests on `AloneInv`, which holds as long as runs follow one another:
attempts are numbered without gaps, so that the number of an accepted message
that was not recorded is the one that the next run counts.

**BillingReceivables.** All properties of `billing_overlap`, without any
assumption. `DebtInv` adds to `NoOverpayment` what a request between its check
and its insert knows (the receivable is active, the amount still fits) and that
the row lock makes it the only one. `OrphanInv` says that a document being taken
back, or taken back, has a receivable that is cancelled or was missed, which no
step undoes. `BillingInv` says that a record has one live document and that one
record at a time is prepared. `ClosedCasesStayPaid` needs `DebtInv`, as a closed
case must not see its debt change.

**Treasury.** `TypeCorrect`, `NeverOverdrawn`, `ReversalsAlwaysFit`,
`DeadlocksNeedReversals` and `TreasuryKeepsLedger`. `LockInv` says that a row is locked by one call, that
the locks of a call are among the rows its order names, and that accounts are
locked in their order: two calls that wait for each other over accounts alone
would each be behind the other. `BookInv` says that what a key posts is all of
its order or nothing, `ReadInv` that a balance or a remainder that was read is
still right while the locks are held. The money properties are not inductive
without it: the comparison and the insert are different steps. `PairInv` and
`SignInv` add what a transfer looks like; then each `Write` is an entry of `Ledger`
and every other step a stutter, so that calls take effect at their commit.

**BankReconciliation.** `TypeCorrect`, `OneReconciliationStands` and
`LinesShowTheirMatch`. `IInv` joins the last two, as each needs the other when a
reconciliation is taken back. What `findActiveByLine` reads on its second
connection stays true because the transaction has locked the line; a movement is
kept for one line by the unique index.

**Procurement.** `TypeCorrect`, `OrdersKeepTheirGround` and
`PayablesAreWorthTheGoods`. `Checks` is the argument of the first: what
`Read` and `Ask` have found stands for as long as the row keeps the version that the
client has read, and the transaction writes under that version only. `NothingYet`
and `ShowsSome` tie the status of an order to its receipts, `Shows` what it shows to
their sum: a receipt and the sum are written in one transaction. `Owed` is the
argument of the second: `Founded` gives each receipt that has a payable, and
each call that is still to attach one, the reason (its own, that of its invoice,
or that of an invoice which names the order), and `Stays` lists what no step
takes back, so that a reason found in one transaction still stands in the next.
The row that a reason leads to has the amount of its document unless a client
opened it; then the reason itself, which keeps that the invoice's amount matched
(`AmountMatches`), bounds the goods by the document (`Worth`).
The sums come from the library's fold; that a finite set has one, whatever the
order, is proved by the search for a least counterexample among its subsets
(`LeastSubset`), from which `SumLess` and `SumPart` follow.

**Sessions.** `TypeCorrect`, `LinearRotation`, `ActiveRotates`,
`RevokedFamilyGetsNoToken` and `LogoutsDoNotDeadlock`. `LockInv` says that only one
transaction holds a row, marks only rows it holds, and that a token under rotation is live and held: with it `OneLive`
is inductive. `PassInv` says what a transaction answers for once it has passed a
statement: each session in its scope that is active is marked or met a
`logoutAll`, and each session that it marks has its family marked or revoked.
`TableInv` follows when it commits: an active session that met no `logoutAll` has
its family. `RevokedFamilyGetsNoToken` rests on it (`NewTokenStep`): the last thing
that `refresh` asks is the session, and what it has read of the family may be stale
by then; that the family is not revoked is known only because whoever revokes it
revokes the session with it, in the same commit or an earlier one. `ClimbInv` says that a logout has locked only
rows before those it is still to lock, in the order of tables and, within a table,
in the one order in which the model's scans go through it (the statements have no
`ORDER BY`; that two of them visit the same rows in the same order is assumed). In a circle without a refresh the last of the
rows waited for (`LastRow`; rows are finite) is held by a call that waits for a
later one.

The proofs use no axioms; constants are constrained by `ConstantsAssumption` of
each module, which TLC evaluates in every run.

**Only model-checked.** The liveness properties, `EveryJobIsJudged`,
`EveryEventIsSettled`, `EventuallyDispatched`, `EveryRequestEnds` and
`EveryCallEnds`: fairness speaks of ENABLED, which is beyond the prover. All
other properties of the passing runs are theorems.

## 5. Plan

Modules, most important first:

1. `Inbox` (`integrations/inbox`): a third leased queue, whose handlers have no
   timeout and are made idempotent by effect keys. Effects happen once; a
   redelivered message with another payload is a duplicate all the same; the
   worker's stop.
2. `Inventory`: movements and reservations under position locks; available
   stock never negative; a reservation consumed or released, never both.
3. `ServiceOrders`: allocation of assets without overlap (the exclusion
   constraint), execution, measurement, and the measurement that billing takes;
   then `BillingReceivables` for several measurements, with the purchase-order
   balance.
4. `AccountingPosting`: a confirmed event is posted once, also when the posting
   fails after the operation has committed.
5. `Pipeline`: outbox, queue and delivery composed, from `OutboxContract` and
   `JobContract`; an appended event leads
   to one message per channel unless a named fault occurs.

For the present modules: a property that no case stays open on a debt that was
paid while it was opened; that a document and its receivable agree when no
request is under way, but for named races; reports that come before their
attempt; sessions that expire, and identities that are disabled; instalments and
the payables of expenses.

Theorems: contracts like `Ledger` for debts and for matched bank lines; the
refinement of the composed pipeline, from the two contracts of its queues; that a
due job or event is claimable, the safety half of the liveness properties.

Runs keep to the present sizes: two actors, one or two rows, one or two faults.
