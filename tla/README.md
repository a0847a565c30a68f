# event-portal: a formal model of the ticketing system

The repository is a small ticketing shop: a Go API (`backend/`) over PostgreSQL and a
Next.js frontend (`frontend/`). Guests buy without an account, pay by QRIS through Midtrans,
get tickets by email and have them scanned at the door; admins maintain the catalogue.
This directory holds TLA+ modules of the parts whose correctness depends on the order in
which things happen, the TLC configurations that check them on small instances, and proofs
that TLAPS checks for every instance.

Paths below are relative to the repository root.

## 1. The system

### Components, their state and their operations

| component | code | state | operations that change it |
|---|---|---|---|
| guest checkout | `backend/internal/order/` | `orders`, `order_items`, `attendees` | `Checkout` = TX1 (`reserveOnce`), gateway call, TX2 (`UpdatePaymentDetails`) or `compensate` |
| payment | `backend/internal/payment/service.go`, `status.go`, `handler.go`, `repository.go` | `payments` (append only), `orders.status` | `HandleNotification`, `RefreshStatus`, `applyProviderResult`, `applyOutcome` |
| expiry sweeper | `backend/internal/payment/sweeper.go` | none (reads `orders`) | `ExpireDueOrders` every interval |
| payment gateway | `backend/internal/payment/midtrans.go` | held by Midtrans | charge, status query, signature check |
| catalogue and quota | `backend/internal/event/repository.go` | `ticket_types.quota` | `CheckAndDeductQuota`, `RestoreQuota` |
| catalogue admin | `backend/internal/event/admin_*.go` | `events`, `ticket_types` | create, update, delete of both |
| tickets | `backend/internal/ticket/` | `tickets` | `IssueTicketsForOrder`, `Validate` (read), `MarkUsed` |
| notification | `backend/internal/notification/` | `orders.email_sent` | `SendTicketEmail`, the admin's resend |
| transactions | `backend/pkg/db/db.go` | connection pool, row locks | `InTx` |
| admin login | `backend/internal/admin/` | none (JWT) | login, token check |
| process | `backend/cmd/api/main.go`, `adapters.go` | goroutines, contexts | start, service, drain, graceful shutdown |
| guest order page | `backend/internal/order/public_service.go`, `frontend/app/orders`, `frontend/components/order`, `frontend/lib/queries.ts` | query cache, countdown, button, rate limiter | polling, "check payment status" |
| lists and event pages | `backend/internal/event/service.go`, `backend/internal/order/admin_service.go` | none (several reads each) | event page, sold counts, attendees, lines of an order |
| admin pages | `frontend/app/admin`, `frontend/lib/auth.ts` | token, form and scan state | scan, admit, edit, session expiry |

### How they interact

* **Calls.** Checkout calls catalogue (quota) inside TX1 and the gateway between its two
  transactions. A notification or a status check runs `applyProviderResult`, which writes a
  payments row, then runs `applyOutcome`: one transaction that moves the order if it is still
  PENDING and, with it, returns the seats of its lines.
* **Messages.** Midtrans notifies over HTTP and repeats a notification until it is answered;
  it may deliver late, twice or out of order.
* **Shared state.** `ticket_types.quota` and `orders.status` are written by checkout,
  compensation, webhook, status check and sweeper; the sole protection is the conditional
  UPDATE (`quota >= n`, `status = 'PENDING'`).
* **Goroutines.** A sale starts `fulfillAsync`, which issues tickets and emails them; nothing
  persists that it has to. Handlers, these goroutines and the sweeper share one pool of
  connections; the shutdown waits for the first two, stops the third and closes the pool.
* **Pages.** Browsers poll the order and ask for lists; each answer is put together from
  several statements, and arrives when it does.

### What is hard

1. Four paths may decide an order at once, each on a read it took earlier.
2. A checkout has three steps (database, gateway, database) and can fail or be cut after
   each; the gateway call itself can fail after the provider opened the session.
3. Notifications are duplicated, delayed and reordered.
4. The sweeper reads a bounded batch and must reach every due order in the end.
5. What happens after a sale happens once, in memory.
6. Checks followed by writes in separate transactions: ticket issuance, catalogue guards.
7. Answers to two requests of one browser page come back in any order.
8. Transactions hold a connection and row locks while they wait for others, and a shutdown may
   begin at any statement.
9. A page reads several times outside any transaction and shows one answer.
10. Client-made numbers are summed in 32 bits, and prices truncated to whole rupiah twice.

What makes each component correct:

* **Quota**: free seats and the seats of PENDING and PAID orders always add up to the opening
  quota; checkout takes all lines or none.
* **Orders**: PAID, CANCELLED and EXPIRED are terminal; an order is decided for a recorded
  reason, expires only after its deadline or the provider's word, and is in the end decided.
* **Payment**: PAID means the money settled; money for an order that is already given up is
  reported to the admins, and only such an order is.
* **Fulfilment**: starts once per order, with the step that sells it.
* **Tickets**: one ticket for each attendee of a paid order; each admits once.
* **Catalogue**: nothing an order refers to is deleted; the guards answer before the database
  constraint does.
* **Process**: nothing leaks, nothing waits for ever, and a clean exit cuts no work.
* **Pages**: what is shown agrees with the database of some moment, a dead code goes away, and
  a final status comes and stays.

## 2. Modules

| module | role |
|---|---|
| `OrderLines` | the constants shared by the next two: orders, their lines, the opening quotas |
| `SeatLedger` | abstract specification: seats held, sold or released by orders |
| `PaymentStatus` | the pure table of `status.go` from provider answers to decisions |
| `OrderLifecycle` | checkout, provider, webhooks, status checks, sweeper, fulfilment, crashes; implements `SeatLedger` |
| `ApiProcess` | the same transactions opened up into the statements that wait, over a bounded pool, from start to exit |
| `CheckoutRequest` | pure: validation of the request, the amounts of a charge, how gateway answers are read |
| `GuestOrder` | the request and the order page of one guest, on `CheckoutRequest` |
| `CatalogAdmin` | admin requests and checkouts over the catalogue, statement by statement, with row locks and foreign keys |
| `CatalogPages` | `CatalogAdmin` with publication and with the pages that read it; implements `CatalogAdmin` |
| `TicketIssue` | ticket generation and its email, for fulfilment goroutines and admin resends |
| `TicketDoor` | the validate pages of the doors and the two requests they make |
| `MCOrderLifecycle`, `MCApiProcess`, `MCGuestOrder`, `MCCatalogPages`, `MCTicketIssue`, `MCTicketDoor` | instances for TLC |
| `SeatLedgerProofs`, `OrderLifecycleProofs`, `OrderPaymentProofs`, `ApiProcessProofs`, `CatalogPagesProofs` (of `CatalogAdmin`, too), `TicketIssueProofs`, `TicketDoorProofs`, `GuestOrderProofs` | theorems and proofs |

### SeatLedger

One variable `free[t]` (the quota column) and one `stage[o]`. `Hold` takes all lines of an
order if each fits (`CheckAndDeductQuota` for every line in one transaction), `Sell` keeps
them, `Release` gives them back. A *seat* is an attendee row, so the conservation law is
stated with a set of seats and its cardinality rather than a sum. It has no run of its own:
`OrderLifecycle` is checked, and proved, to implement it, and its properties are checked there.

### OrderLifecycle

State: `quota`, `status`, `deadline` (`payment_expires_at`, 0 for NULL) and `payments` are
columns; `session` and `expiry` are the provider's own record of a payment; `checkout`,
`worker`, `sweep` and `fulfil` are what the process holds in memory and loses in a `Crash`;
`alerts` are the "needs manual reconciliation" log lines; `clock` counts the expiries that have
gone by.

Each database transaction is one action; so is each read whose result is used later.

| code | actions |
|---|---|
| `Checkout` | `ReserveOnce` or `InsufficientQuota` (TX1); `CreateTransaction` or `CreateTransactionFails`; `UpdatePaymentDetails` or its failure (TX2); `Compensate` or its failure |
| `HandleNotification` | `HandleNotification` (order read), `RecordAnswer`, `ApplyAnswer` |
| `RefreshStatus` | `RefreshStatus` (order read), `RefreshExpires` or `RefreshNotDue`, `FetchStatus`, `RecordAnswer`, `ApplyAnswer` |
| `ExpireDueOrders` | `ListDueOrders`, then `ExpireDueOrder` or its failure for each order of the batch, oldest first |
| `fulfillAsync` | `IssueTickets`, `SendTicketEmail` and their failures |

A worker is a request goroutine. It remembers the status it read (`seen`), because
`applyProviderResult` decides with it whether the order was already paid or the success comes
too late. `applyOutcome` alone looks at the current status.

`CreateTransactionFails` may leave an open session at the provider (timeout, unreadable
reply). `CompensateFails` stands for a database error and for a guest who hung up: the
transaction runs under the request's context. `GuestPays` needs the QR code, which the order
page gets with the deadline in TX2.

`CurrentAnswers(s)` is what the provider answers about a session in state `s`: for a settled one
any of `Receipts` (settlement, or an accepted capture), for a declined one any of `Declines` (deny,
cancel, failure). `Notifications(s)` adds what it may have said before, in any order of arrival.

Wall-clock time is abstracted to the order of session expiries. All sessions live equally
long (`PAYMENT_EXPIRY`), so the n-th session opened expires at time n, and `Tick` is enabled
while an opened session has not expired.

### ApiProcess

State: `phase` and `code` are where `run()` is and how it leaves; `todo[t]` are the statements a
goroutine still has to run; `holder` and `owner` say whose each connection and each row lock is;
`intent` is the write of an open transaction; `status` and `dated` are the committed columns that
decide which statements follow; `cancelled` are the goroutines whose context has ended.

| code | definitions |
|---|---|
| `run` in `main.go` | `Boot`, `BootFails`, `ListenFails`, `Signal`, `Shutdown`, `ShutdownTimesOut`, `WaitForFulfillment`, `ClosePool` |
| `Checkout`, `compensate`, `HandleNotification`, `applyOutcome`, fulfilment | the scripts `Checkout`, `Compensate`, `HandleNotification`, `Release`, `Sell`, `Fulfil` |
| the sweeper's loop | `SweeperTick`, `ExpireNext` |
| `InTx` | `BeginTx`, the statements, `CommitTx`, `CommitUnanswered`, `Rollback` |
| PostgreSQL, pgxpool (external) | `Lockable`, `DeadlockAbort`, `PoolClosed` |

Computation is left to `OrderLifecycle`; here a statement is what it waits for. `Release` reads
the line items through the pool inside its transaction, as `applyOutcome` does, and the rows come
back in any order. The sweeper's context ends at shutdown only, so a tick that waits for a
connection has nobody to end it; the clients of others have time limits. The 30 seconds of
`e.Shutdown` are a choice (`ShutdownTimesOut`) while a handler runs.

### CheckoutRequest and GuestOrder

`Validate` counts as `dto.go` does in `int32`, in integers that wrap at `IntLimit` (there 2^31);
`ChargeOf` truncates the unit prices and the total to whole rupiah separately, as `toRupiah` is applied; `OpensSession` and
`FetchStatus` read the gateway's answers by HTTP status, repeated status code and completeness.

`GuestOrder` sends a body, charges it, then opens the page. `order` is the row; `clock` is the
server's, `skew` the device's error; `data`, `offset`, `expired`, `failing`, `button` and `fetches`
are the page's. Settling is any of the paths of `OrderLifecycle`, as one step. React Query is
modelled from how the hooks use it: one read of a key at a time, invalidation cancels it and starts
another, a failed read keeps the data and shows an error. `Latency` is the longest a read may be
under way, waiting for the network included, `Burst` the tokens of the refresh limiter, of which
one comes back each tick.

The guest may `Leave` the page and `Return`. What the components hold goes when they are unmounted
(`offset`, `expired`, the button); what React Query holds stays (`data`, `failing`, a read under
way, whose answer then goes to the cache alone) until a reload or the end of its five minutes
(`Forget`). A page that returns shows what the cache has, measures its clock offset by that answer,
and reads the order; `answered` tells whether it has had an answer of its own. `Refocus` is the
read on focus or on reconnecting.

`Refresh` is the status check: it moves the order by the deadline or the provider's answer
(`Reconciles`, `Reconciled`) and is answered, or it fails at a read or a transaction, before the
order was moved or after it.

### CatalogAdmin

State: `event`, `type` and `quota` are the rows of the catalogue; `stage` is what each order's
transactions have come to; `lock` is the transaction that has written a ticket type's row and
not ended; `admin` is what each admin request has read. `allocated` is history: what an admin
last put on sale, the seats already sold included.

| code | actions |
|---|---|
| `reserveOnce` | `CheckAndDeductQuota` for each line, `CreateOrder` (the inserts and the commit), `RollBack` |
| `applyOutcome` with restoration | `RestoreQuota` for each line, `ApplyOutcome` (the commit), `RollBack` |
| `CreateEvent`; `CreateTicketType`; `UpdateTicketType` | `CreateEvent`; `GetEventByID`, `InsertTicketType`; `UpdateTicketType` |
| `DeleteTicketType` | `HasOrdersForTicketType`, `DeleteTicketType` (the DELETE and the commit) |
| `DeleteEvent` | `ListTicketTypeIDs`, `HasOrdersForTicketTypes`, `BeginDeleteTypes`, `LockType` for each row, `DeleteTypes`, `DeleteEvent` (and the commit) |
| any of these that ends with an error | `Refuse` |

The database is PostgreSQL under its default READ COMMITTED: each statement sees what is
committed when it starts, a row that another transaction wrote is waited for, a foreign key is
checked at the end of the statement. A transaction's writes are applied when it commits; the
locks hide the difference. `OrderLifecycle` takes such a transaction as one step over a fixed
catalogue; here its statements interleave and the catalogue changes.

### CatalogPages

Adds `status` (`events.status`), and per page request what it has read so far (`page`); `offered`
and `published` are history. A guest's checkout orders only what an event page has offered, since
the ids of ticket types are random. A page is read in the code's statements: the event and its
types; the types with their quotas and then their sold counts; the attendees or lines and then the
names. Between any two of them a checkout, a release or an admin's statement may commit. Of a quota
a page keeps by how much it was short of what was on sale (`short`): that and `sold` are what the
property compares.

### TicketIssue

State: `tickets`, `paid` (`orders.status = 'PAID'`) and `emailSent` are the database; `inbox`
is what reached buyers; `step` and `listed` are what each goroutine or request holds, lost in
a `Crash`. It refines two actions of `OrderLifecycle`, `IssueTickets` and `SendTicketEmail`,
into their queries.

| code | actions |
|---|---|
| `applyOutcome`, `fulfillAsync` | `FulfillAsync`: the update guarded on PENDING, and the goroutine it starts |
| `GenerateForOrder` | `ListExisting`; `CreateTickets` (the transaction) or its failure, `CodeTaken` when a drawn code exists; `ListAfterError` or `ListIssued` |
| `SendTicketEmail` | `OrderForDelivery`, `TicketDetailsForOrder`, `MailerSend` or its failure, `MarkEmailSent` or its failure |
| `resend` | `Resend`, then the same steps at any time, also for an order that is not paid |

`createOneTicket` has a loop of five attempts, but a unique violation aborts the surrounding
transaction and the loop returns it: one draw per run is all there is. A commit whose answer is
lost may have taken place: `CreateTickets` ends in either branch, and `ListAfterError` then finds
the tickets. A mailer error may come after the server took the message, so `MailerSendFails` may
deliver.

### TicketDoor

State: `status` is `tickets.status`, `granted` counts the mark-used requests that applied;
each page has `calls` (its requests, waiting or answered but not yet handled), its `card`, and
`marking`, the request its button waits for. The code check is typed or scanned: the form is
disabled while a check is pending, the camera is not, so checks overlap and every answer
replaces the card. `MarkUsed` is the guarded UPDATE, `GetStatusByCode` the read after a
refused one. `Revoke` is an operator's UPDATE: no code does it, all readers handle it.

## 3. Runs

| run | instance | what it shows |
|---|---|---|
| `order_races` | 1 order, 2 workers, 1 crash | every race of two requests, compensation and sweeper keeps eight safety properties, and `WebhookResolvesEveryOrder` |
| `order_sweeper` | 3 orders over 2 types, batch of 1, no worker, 1 crash | types, `NeverOversold` and `DeadlinesAreEnforced` |
| `api_process` | 1 request, 2 orders with opposite line orders, 2 connections, the sweeper | no lock or connection stays behind, an order is settled once, a clean exit cuts nothing, no sweep and no shutdown hangs |
| `guest_order` | 3 types, quantities of 3 bits, a device clock 3 behind, right or 2 ahead | validation is exact, the charge is off by what truncation takes; the page drops a dead code and learns the end, also after visits elsewhere |
| `catalog_admin` | 1 event with 2 types, 2 orders, 2 admin requests, 1 page request | no deletion takes a row that is referred to or half an event; quota adds up; pages tell no untruth |
| `ticket_issue` | 2 orders (2 and 1 attendees), 2 payments competing for one and one for the other, 2 resends, 4 codes, 1 crash | tickets and emails come complete or not at all; `email_sent` is earned |
| `ticket_door` | 1 ticket and 1 unknown code, 2 pages with 2 requests each | nobody is admitted twice, no refusal is stale |
| `failed_initiation`, `unticketed_sale` | 1 order, 1 worker | disagreements 1 and 2 of section 6 |
| `pool_deadlock` | that of `api_process` | disagreement 3 |
| `unpublished_sale` | 1 event, 1 type, 1 order | disagreement 4 |
| `remounted_page` | one body, the page of `guest_order` | disagreement 5 |

### The bounds and why they are enough

* *Orders.* Orders meet only in the quota they share, in the sweeper's batch and in the order
  of expiries. Three orders over two types, with seats for some of them and a batch of one,
  show all three: an order is turned away or served from returned seats, and a backlog
  waits for two sweeps. Races over one order need one order and as many handlers as a race has
  parties: two workers, the sweeper and the checkout itself meet in pairs, with a third that
  reads before and writes after both. The proofs need no such bound.
* *Crashes.* A crash ends everything in memory. One crash between any two steps is enough for
  safety, since the state after it has nothing in flight.
* *Clock.* `Tick` of `OrderLifecycle` stops when every opened session has expired: later times
  cannot be told apart. The guest's page opens at time 1 and its code dies at 4; watching it until
  8 leaves time for the longest answer before and after that, and for a visit elsewhere across the
  deadline. The cache's life is not counted: `Forget` comes at any time or not at all. In the code
  an answer of the 13th minute is still there when the guest returns in the 16th.
* *Answers.* Two wordings of a receipt, of which one goes through the fraud check, and one of a
  refusal: the table treats deny, cancel and failure alike. The proofs take any of them.
* *Connections.* Two are the fewest with which one transaction can wait for another connection
  and some other goroutine has it. With two, one release at a time can still go on; both held by
  releases is the deadlock. One connection would not even expire an order, and pgxpool's default
  is at least four. One request, the two post-payment goroutines and the sweeper are twice as many
  as connections, and the sweeper may meet the request in either order of rows.
* *Requests of a guest.* Three lines of three tickets make nine, which wraps to one in three
  bits: the smallest case in which 32-bit totals could lie. One of three prices is not whole.
  Bodies are lists of up to three lines, with empty, nil and non-positive ones and one type twice,
  and every list of up to three attendees.
* *Tickets.* An order with two attendees can be left half issued, one with one cannot; four
  codes leave one to spare, so draws collide or not. Two resends meet each other and the
  first delivery. Two payments of one order are a replayed notification; the guarded update lets
  one of them start a goroutine.
* *Catalogue.* An order over both types of the event can be caught between its two deductions,
  one over a single type cannot; two admin requests are two deletions of one event, or a
  deletion beside a creation, at any pair of steps. Ids are not used twice, so every row is
  created and deleted once. Quotas of 0 and 1 make a type sold out or not. Pages do not write, so
  one reader is enough for every page.
* *Doors.* Tickets do not interact, so one is enough for every race over it. Two requests on
  each of two pages are a race between doors and one within each: a page shows an answer
  while another is on its way.
* *Symmetry.* Admin requests in `catalog_admin`, codes and resends in `ticket_issue`, pages in
  `ticket_door`: runs without liveness in which no constant tells them apart.

### Fairness

* `SweptSpec`: time passes; the sweeper's ticker fires as long as an order is due
  (`sweeper.go`, no exit but shutdown); the transaction that expires an order, tried again by
  each sweep, succeeds some day. Nothing is assumed of guests, requests or Midtrans.
* `NotifiedSpec`: Midtrans ends every session and repeats the notification of its latest
  state until it is answered; requests end (each call in them has a timeout); a notification
  repeated for ever is processed to its end some day. Nothing is assumed of the sweeper. The
  safety properties of `order_races` are checked under it too; a safety property holds of the
  same steps with and without fairness.
* `FulfilledSpec`: a goroutine that was started runs. Nothing makes it succeed, which is
  what the violation shows.
* `FairSpec` of `ApiProcess`: waiting goroutines and transactions are served in turn, so what
  is possible for one again and again happens (strong); calls return and clients give up, for the
  gateway client, the mail dialer and the post-payment context have time limits (weak). Nothing
  makes a request or a signal come, and the sweeper's own wait has no limit.
* `FairSpec` of `GuestOrder`: the page polls, and the network is not down for good: a read that
  can be answered again and again is answered and its answer arrives. The device's clock, the
  button and the order's fate have no fairness.

Deadlock checking is on for `api_process`, whose last state repeats itself. It is off elsewhere: a
shop in which every order is decided and every session has ended rightly has nothing left to do.

## 4. Properties

* `SeatsConserved`, `NeverOversold`, `ImplementsLedger`: seats are never lost or invented,
  whichever of four paths gets to an order first.
* `TerminalStatusesStay`, `FulfilledOncePerSale`: action properties over stale reads and
  replays.
* `PaidOnlyIfCollected`: relates the shop's status to the provider's own record.
* `DecisionsAreAudited`: each status has its reason in the payments table, in the checkout's
  answer or on the clock.
* `NeverExpiredEarly`: neither sweeper nor status check expires an order before its deadline.
* `AlertsAreReal`: an order reported for reconciliation has been given up and its money taken. The
  converse is false (section 6).
* `DeadlinesAreEnforced`, `WebhookResolvesEveryOrder`: the two independent ways in which an
  order is in the end decided, each without help from the other.
* `NothingLeaks`: every error path of every transaction gives back its connection and locks.
* `OrdersSettleOnce`: the committed status under interleaved statements, deadlock aborts and commits
  nobody answered; what `OrderLifecycle` assumes when it takes a transaction as one step.
* `CleanExitCutsNothing`: whoever was still at work when the drain began, the waits that `run()`
  goes through before exit code 0 see the end of it.
* `ShutdownTerminates`, `EverySweepEnds`: circular waits for rows are broken by the database,
  those for connections by the client behind one of them.
* `AcceptedBodiesAreExact`: wrapped sums against the true ones, for every line.
* `ChargeOmitsFractions`: two truncations, of each unit price and of the total, against each
  other: by how much they differ, exactly, and so when.
* `CodeDiesInTime`: the device's clock, the server's and an answer of unknown age; a page that has
  had no answer yet and shows the cache's is reading the order. `DeadCodesStayHidden` is what one
  would want of that page too, and it fails (section 6).
* `FinalStatusStaysShown`, `FinalStatusIsShown`: the page against reads that overtake each other,
  countdowns, failures and visits elsewhere. The second promises a page that has a final status
  nothing more: polling is off then, so when the guest returns to such an order and the read fails,
  the error stays until the next focus.
* `OneTicketPerAttendee`, `EmailsStayComplete`: all or nothing, related across three steps and
  two databases (the shop's and the buyer's inbox), for every later state.
* `FlagMeansDelivered`: `email_sent` against what the mailer did.
* `OrdersKeepTypes`, `TypesKeepEvents`: guard and deletion are separate statements, and what is
  committed between them must count.
* `QuotaBalances`: an absolute edit between the statements of checkouts and releases. What was put
  on sale is taken from the edit itself: that it may have come from a form older than the last
  sales is not something this property sees.
* `ListedOrdersAreNamed`, `SalesAreNotUnderreported`: two reads of one page, with deletions,
  checkouts and releases between them. The second holds because the sold count counts every order
  ever committed and is read last; the other order of reads, or a count of current orders only,
  would lose a seat.
* `DraftsDoNotSell`: publication against orders, over pages loaded in between.
* `AdmittedOnce`: the door's race, with retries after lost answers.
* `RefusalsStayTrue`: answers read in one step and shown in a later one. Only VALID may go
  stale, and mark-used checks it again.

Each property has a mutation of the code's translation beside the definition it changes (a
dropped guard, a swapped check, a forgotten case); the property fails on it.

## 5. Proofs

Everything proved holds for any orders, types, lines, prices, quotas, workers, connections, batch
size, clock error and number of crashes, from the named assumptions beside the constants: natural
quantities, finitely many orders where they are counted, `None` outside the other sets, and
integers that wrap at some positive limit.

* `SeatLedgerProofs`. `SeatsConserved` is not inductive without types and without knowing
  that the seats of different orders are disjoint. The lemmas give the finiteness of
  `SeatsOut(t)` and how it changes when an order joins or leaves the holders; the inductive
  invariant is `TypeOK /\ SeatsConserved`. `LedgerNeverOversold` follows since free seats are
  never negative.
* `OrderLifecycleProofs`. `Inv` is `TypeOK` with two facts: a worker about to apply an answer
  holds one that decides something, and an order without a row is one whose checkout has not
  passed TX1 (else a second `ReserveOnce` could touch a settled order). From it follow
  `TypeCorrectness`, `TerminalStatuses` and `Refinement`: each action is a `Hold`, `Sell` or
  `Release` of the ledger or leaves it alone. `Conservation` and `NoOverselling` are then the
  ledger's theorems, carried over by the refinement.
* `OrderPaymentProofs`. `PaidMeansCollected` needs that each answer a worker carries is one
  the provider may have given for the session as it is *now*; sessions only move forward and
  what could be said before can still be said (`NotificationsGrow`), so a stale answer stays
  genuine, whatever the wordings in `Receipts` and `Declines`. `FulfilmentOnce` needs that a fulfilment goroutine exists for sold orders only. The
  second half (`AuditInv`) says what a stale read is worth: a deadline is recorded by the last step
  of a checkout and never changed (`DeadlineIsLast`), what the sweeper's batch holds was overdue
  and stays so (`BatchIsDue`), and what a worker has seen is either PENDING or final, with the
  row it is about to act on already in the payments table (`JobsKnow`). `DecisionsHaveRecords`,
  `ExpiryIsDue` and `AlarmsAreTrue` follow.
* `ApiProcessProofs`. The statements a goroutine has left are of the kinds its work contains
  (`Fits`): only a request can sell, so only a request starts a post-payment goroutine. With it
  `PhasesInOrder` is inductive: after the drain no request works, so nothing new can start while
  `run()` waits. `LocksAreHeld` ties row locks to connections. `CleanExits`,
  `ProcessTyped` and `SweeperStops` follow.
  The second half needs the shape of what is left to do (`Kept`, `ScriptsAreKept`). A goroutine
  that holds a connection is inside a transaction (`Brackets`): between any `begin` and its
  `commit` each statement is followed by one of the same transaction, whichever scripts were put
  one behind the other. So one with nothing left holds nothing: `NothingIsLeaked`. An order is
  entered by one goroutine, once (`EnteredOnce`); one about to be settled is locked and PENDING
  (`ClaimsLocked`), because the conditional UPDATE locks the row it found PENDING and nobody writes
  it before the commit; post-payment work is for a sold order and started once (`SoldOnce`).
  `SettledOnce` follows: statements of any number of goroutines interleave, and the committed
  status still goes from PENDING to one end only (`OrdersSettleOnce`), which is what
  `OrderLifecycle` takes for granted when it makes each transaction one step.
* `CatalogPagesProofs`, first half: of `CatalogAdmin`. The invariant says what a row lock is worth (`OrderLocks`,
  `AdminLocks`): a row that a checkout wrote is there and has the seats; a row that a deletion
  wrote is there, is of the event, and once the foreign keys were checked no order can come to
  refer to it, for a checkout would have to write it first. `OrdersKeepTypes` alone is not
  inductive: a type could go between a checkout's deduction and its commit. The guards play
  no part in the proof; the foreign keys do. `EventsWhole` is the action property that a single
  step takes one type of an event or the event with all of them.
  Second half: each step of the pages' specification is one of the catalogue's or leaves
  it alone (`PagesImplementCatalog`), so what was proved of the catalogue holds while pages are
  read (`PagesKeepCatalog`). `PagesInv` adds what each request has read and may rely on (`PageOK`):
  committed orders are never forgotten, so sold counts only grow and a referenced type stays; and
  `OnlyPublished`: what was offered, locked by a checkout or ordered is of an event that was
  published.
* `TicketIssueProofs`. Tickets of an order are inserted by one goroutine that found none; the
  invariant says that an order has one goroutine at most (`StartedOnce`) and no tickets while that
  is at or before its transaction (`NothingIssuedYet`). Issuance itself does not ensure it: nothing
  locks the order and `attendee_id` is not unique, so two generations for one order that both read
  no tickets insert a set each. It is the guard of the update that pays an order which keeps the
  second from starting, and without it `OneTicketPerAttendee` is false (`FulfillAsyncReplayed`).
  `FulfilmentOnce` and `SoldOnce` are the same fact of `OrderLifecycle` and of `ApiProcess`, where
  that update is one of four paths' and runs beside the others.
* `TicketDoorProofs`. The invariant is the conjunction of `TypeOK`, `AdmittedOnce` and
  `RefusalsStayTrue`; the row of a ticket changes in two ways only (`RowStep`), neither of
  which can falsify a refusal (`ReliableStays`), and every page action is one call of one page
  put to something reliable (`PageStep`). `FinalRows` is the action property that a row leaves
  ACTIVE once.

* `GuestOrderProofs`. On the page the invariant says what an answer is worth: one read is under way
  at a time (`OneRead`), it is at most `Latency` old, a code in its answer was alive when the server
  answered and a final status in it is final for good (`ReadsAreFresh`). The offset of a page that
  has had an answer was computed from that one (`OffsetIsFresh`), so the corrected clock is behind
  the server's by no more than its age, whatever the device's error (`CountdownIsRight`); a page
  that has had none is waiting for its first: `CodesDie`. A status that is final on the page or in
  the cache is that of the order and of any answer still to come (`AnswersAgree`):
  `StatusStaysShown`. It fails for a page with two reads under way, which is why `OneRead` belongs
  to it.
  `BodiesAreExact` and `ChargesAddUp` are about folds over the lines of a request. A fold picks
  elements in an unspecified order; that it has a value at all (`FoldExists`) and what it keeps
  (`SubsetInduction`) are shown by induction over *sets* of numbers and of subsets, first order,
  where the library's induction theorems would want a predicate. The argument: a wrapped total
  that equals the length of a list is below the limit, so no counter of list elements wraps
  (`CountsAreExact`); the lines name disjoint sets of attendees that together are all of them, so
  the wrapped total is the true one after all. For the charge, a line's price is whole rupiah and
  fractions (`LineSplits`), so are the sums over any set of lines (`ChargeSplits`), and truncating
  such a sum takes what the whole rupiah were and the truncated fractions (`TruncateSum`).

Only model-checked: the liveness properties (`WebhookResolvesEveryOrder`, `DeadlinesAreEnforced`,
`ShutdownTerminates`, `EverySweepEnds`, `FinalStatusIsShown`), for reasoning under fairness is
outside the prover's reach. Every invariant and action property of the passing runs is proved.

## 6. Where the code and its documents disagree

1. **Failed initiation keeps its seats** (`order/service.go:241`, FR-021; run
   `failed_initiation`). The compensation runs once under the request's context; if it fails, the
   order stays PENDING with no deadline, and nothing ever releases it.
2. **Paid without tickets** (`payment/service.go:404`, FR-026; run `unticketed_sale`). Fulfilment
   runs once; after an error or a crash nothing repeats it. One such error is a ticket code that is
   taken: `ticket/repository.go:19` says a fresh one is drawn, `createOneTicket` returns the error.
3. **A second connection inside a transaction** (`payment/service.go:372`; run `pool_deadlock`).
   `event/repository.go:132-133` avoids it because it "can deadlock under concurrency";
   `applyOutcome` does it. With two connections: the sweeper expires an order, holds its row and one
   connection and waits for the other to read the line items; a notification that sells the order
   holds the other connection and waits for the row. As many releases as there are connections are
   another such state. It lasts until a client gives up (`EverySweepEnds` holds only because some
   client does).
4. **Tickets of an unpublished event** (`order/service.go:153`; run `unpublished_sale`). The
   contract of `POST /checkout` asks for a PUBLISHED event; the checkout never reads it.
5. **A dead code returns with its page** (`components/order/expiry-countdown.tsx:49`; run
   `remounted_page`). An unpaid order opened after its deadline is to show "no QRIS code" (004,
   US4), and its status is never to be served from a cache (`lib/queries.ts:96`). But `staleTime: 0`
   only asks for another read; what React Query has is shown meanwhile, and it keeps an answer for
   five minutes (`app/providers.tsx` sets no `gcTime`). A guest who left the page and returns past
   the deadline sees the old answer's code, and as the offset is measured from its `server_time`
   against the present, the countdown runs again until the read is answered. The page that stayed
   open is right: `CodeDiesInTime`.

The following have no run of their own:

* A late success is not always raised (`payment/service.go:216`, 004 US4 scenario 5). If the order
  expires after the handler read it, the guest's money is mentioned at INFO only.
* A used ticket may be shown as VALID (`frontend/app/admin/validate/page.tsx:30`). A check made
  before an admission and answered after the re-validation replaces the card that was to "reflect
  the ticket's new state" (38-39). Mark-used is refused, so nobody is admitted twice.
* If TX2 fails (`order/service.go:99`) the order awaits payment without a deadline, against
  FR-023 of 004; `order_races` shows that notifications alone settle it.
* `GenerateForOrder` is idempotent for calls one after the other only (section 5,
  `TicketIssueProofs`), whereas `ticket/service_test.go:73` asks one ticket of five concurrent
  calls.
* "Past it, the order is expired no matter what the provider says" (`OrderRef` in
  `payment/service.go`), but a settlement handled before the next sweep sells it: the
  notification path does not look at the deadline.
* The guard shares the DELETE's transaction "so no order can appear between the check and the
  DELETE" (`event/admin_service.go:233`). Under READ COMMITTED one can: a checkout that
  deducted before the guard and commits after it. The foreign key then refuses the deletion
  with the raw constraint violation that `order_checker.go:18` wants to avoid. Nothing is lost:
  `OrdersKeepTypes`.
* "Truncating both consistently keeps that invariant" (`payment/midtrans.go:149-150`): with prices
  that are not whole rupiah it does not, three tickets at 1.50 are charged as 4 while the items
  make 3. `ChargeOmitsFractions` is what holds: they agree when prices are whole, and differ once the
  fractions come to a rupiah. The gateway refuses such a charge.
* A line "whose ticket type has since been deleted simply leaves the name blank"
  (`order/public_service.go:166-169`): that never happens, as `OrdersAreNamed` shows.
* After a 429 the button is disabled until the panel is mounted anew
  (`frontend/app/orders/[orderNumber]/page.tsx`, `StatusChecker`), whereas its comment speaks of a
  cooldown to wait out.
* The QR image may be served from a cache for 60 seconds (`order/handler.go:88`), whereas
  `order/public_service.go:86-91` has it disappear "at exactly the moment the payment instruction
  does". The panel that shows it does go in time while its page is open: `CodeDiesInTime`.
* Why a session ended is "remembered until the login screen consumes it" (`frontend/lib/auth.ts`);
  no page calls `takeSessionEndReason`.

## 7. Not modelled, and what comes next

* *Admin login and session.* On the server a password comparison and a token's signature and
  expiry, without state. In the browser a token in local storage: `adminFetch` clears it on any
  401 (`frontend/lib/api-client.ts:90-99`) without comparing it with the token it sent, so a late
  401 to an old request ends a newer session. The admin logs in again; no other state depends on it.
* *The catalogue's forms.* The form of a ticket type keeps its values when another type is edited
  (`components/admin/ticket-type-form.tsx:46`). There is no second actor to interleave; what the
  server does with the saved values is `UpdateTicketType`.
* *Pure input and output*: field validation of the admin's forms, error rendering, logging,
  metrics and tracing; password hashing, JWT and notification signatures; PDF, SMTP and QR
  composition; lists that are a single read; the visual components.
* *The rate limiter* is a library: one token bucket as a guest meets it is in `GuestOrder`.

Next, proofs that join modules. `SettledOnce` is the part of an implementation of
`OrderLifecycle`'s statuses by `ApiProcess` that matters most; the whole of it needs a map from
scripts to the workers of `OrderLifecycle`. `TicketIssue` refines the fulfilment of
`OrderLifecycle` into queries, and `CatalogAdmin` its seats; both could be shown step by step, as
`Refinement` and `PagesImplementCatalog` are.
