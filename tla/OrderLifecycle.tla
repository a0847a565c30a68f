--------------------------- MODULE OrderLifecycle ---------------------------
(***************************************************************************)
(* The life of an order in the ticketing backend: guest checkout (order    *)
(* domain), provider notifications, the guest's "check payment status"     *)
(* and the expiry sweeper (payment domain), and the fulfilment goroutine   *)
(* that follows a sale.  Every database transaction is one step; what      *)
(* happens between two transactions (a gateway call, a read whose result   *)
(* is used later, a process crash) is where the steps interleave.          *)
(*                                                                         *)
(* READ COMMITTED transactions that write are steps of their own because   *)
(* each of them locks every row it writes until it commits; the order in   *)
(* which row locks are taken is not visible here.                          *)
(***************************************************************************)
EXTENDS PaymentStatus, OrderLines, Integers, FiniteSets

CONSTANTS
  Workers,      \* request goroutines serving webhooks and status checks
  BatchSize,    \* expiryBatchSize
  MaxCrashes,   \* bound: how often the API process dies
  Receipts,     \* answers in which the provider reports money it collected
  Declines,     \* answers in which it reports a payment that came to nothing
  None          \* no order / no answer in an idle worker

SessionAnswer(transaction, fraud) == [transaction |-> transaction, fraud |-> fraud]

ASSUME OrderLifecycleAssumption ==
  /\ IsFiniteSet(Orders)
  /\ BatchSize \in Nat \ {0}
  /\ MaxCrashes \in Nat
  /\ Receipts \subseteq {SessionAnswer("settlement", "accept"), SessionAnswer("capture", "accept")}
  /\ Declines \subseteq {SessionAnswer(t, "accept") : t \in {"deny", "cancel", "failure"}}
  /\ None \notin Orders
  /\ None \notin Answer

VARIABLES
  quota,     \* ticket_types.quota
  status,    \* orders.status, "NONE" before the row exists
  deadline,  \* orders.payment_expires_at, 0 for NULL
  payments,  \* the provider's answers logged for the order (append-only table)
  session,   \* the provider's own record of the payment
  expiry,    \* expiry_time of that session, 0 before there is one
  clock,     \* the wall clock, in session expiries that have gone by
  checkout,  \* where the order's checkout request is
  worker,    \* what each request goroutine is doing
  sweep,     \* orders of the sweeper's current batch still to be handled
  fulfil,    \* the order's post-payment goroutine
  alerts,    \* orders logged as "needs manual reconciliation"
  crashes

database == <<quota, status, deadline, payments>>
provider == <<session, expiry>>
memory   == <<checkout, worker, sweep, fulfil>>
vars     == <<database, provider, memory, clock, alerts, crashes>>

-----------------------------------------------------------------------------
(* Types *)

Statuses == {"NONE", "PENDING"} \cup SettledStatuses

Sessions == {"none", "open", "challenged", "settled", "declined", "expired"}

CheckoutSteps ==
  {"idle",          \* the request has not arrived
   "turnedAway",    \* TX1 found too few seats and rolled back
   "charging",      \* TX1 committed, CreateTransaction under way
   "stamping",      \* session open, TX2 to come
   "compensating",  \* CreateTransaction failed
   "accepted",      \* 201: the guest has an order page with a code on it
   "refused",       \* 502 PAYMENT_INITIATION_FAILED
   "cut"}           \* the process died under the request

InFlight == {"charging", "stamping", "compensating"}

FulfilSteps ==
  {"none", "issuing", "mailing",
   "delivered",     \* tickets issued, email sent
   "unmailed",      \* tickets issued, email failed or lost in a crash
   "unissued"}      \* ticket generation failed or lost in a crash

Job == [pc : {"checkDue", "fetch", "record", "apply"},
        order : Orders, seen : Statuses, due : Nat, answer : Answer \cup {None}]

Idle == [pc |-> "idle", order |-> None, seen |-> "NONE", due |-> 0, answer |-> None]

Init ==
  /\ quota = Capacity
  /\ status = [o \in Orders |-> "NONE"]
  /\ deadline = [o \in Orders |-> 0]
  /\ payments = [o \in Orders |-> {}]
  /\ session = [o \in Orders |-> "none"]
  /\ expiry = [o \in Orders |-> 0]
  /\ clock = 0
  /\ checkout = [o \in Orders |-> "idle"]
  /\ worker = [w \in Workers |-> Idle]
  /\ sweep = {}
  /\ fulfil = [o \in Orders |-> "none"]
  /\ alerts = {}
  /\ crashes = 0

-----------------------------------------------------------------------------
(* Quota arithmetic, shared by every transaction that moves seats. *)

Deducted(o) == [t \in TicketTypes |-> quota[t] - Lines[o][t]]

Restored(o) == [t \in TicketTypes |-> quota[t] + Lines[o][t]]

\* Mutation of ApplyOutcome: the order's status is guarded, the restoration
\* of its quota is not.
ApplyOutcomeRestoringAlways(o, outcome) ==
  /\ status' = IF status[o] = "PENDING"
                 THEN [status EXCEPT ![o] = outcome.orderStatus] ELSE status
  /\ quota' = IF outcome.restoreQuota THEN Restored(o) ELSE quota

\* Mutation of ApplyOutcome: the guard only keeps a sale from being undone.
ApplyOutcomeUnlessPaid(o, outcome) ==
  IF status[o] # "PAID"
    THEN /\ status' = [status EXCEPT ![o] = outcome.orderStatus]
         /\ quota' = IF outcome.restoreQuota THEN Restored(o) ELSE quota
    ELSE UNCHANGED <<status, quota>>

(* One transaction: move the order if it is still PENDING, and with it, when
   the outcome says so, give every line's seats back. *)
ApplyOutcome(o, outcome) ==
  IF status[o] = "PENDING"
    THEN /\ status' = [status EXCEPT ![o] = outcome.orderStatus]
         /\ quota' = IF outcome.restoreQuota THEN Restored(o) ELSE quota
    ELSE UNCHANGED <<status, quota>>

PastDeadline(due) == due # 0 /\ due <= clock

-----------------------------------------------------------------------------
(* Checkout: TX1, the gateway call, TX2 or the compensation. *)

\* Mutation of ReserveOnce: the decrement does not repeat the comparison with
\* what is left, so it can take more than there is.
ReserveUnguarded(o) ==
  /\ checkout[o] = "idle"
  /\ quota' = Deducted(o)
  /\ status' = [status EXCEPT ![o] = "PENDING"]
  /\ checkout' = [checkout EXCEPT ![o] = "charging"]
  /\ UNCHANGED <<deadline, payments, provider, worker, sweep, fulfil, clock, alerts, crashes>>

(* TX1: the conditional decrement of every line, then the order, its items and
   its attendees.  A retry after an order-number collision starts from scratch,
   so only the attempt that commits is a step. *)
ReserveOnce(o) ==
  /\ checkout[o] = "idle"
  /\ \A t \in TicketTypes : Lines[o][t] <= quota[t]
  /\ quota' = Deducted(o)
  /\ status' = [status EXCEPT ![o] = "PENDING"]
  /\ checkout' = [checkout EXCEPT ![o] = "charging"]
  /\ UNCHANGED <<deadline, payments, provider, worker, sweep, fulfil, clock, alerts, crashes>>

InsufficientQuota(o) ==
  /\ checkout[o] = "idle"
  /\ \E t \in TicketTypes : Lines[o][t] > quota[t]
  /\ checkout' = [checkout EXCEPT ![o] = "turnedAway"]
  /\ UNCHANGED <<database, provider, worker, sweep, fulfil, clock, alerts, crashes>>

Opened == {o \in Orders : session[o] # "none"}

(* Every session lives equally long (PAYMENT_EXPIRY), so expiries come in the
   order in which the provider opened the sessions. *)
OpenSession(o) ==
  /\ session' = [session EXCEPT ![o] = "open"]
  /\ expiry' = [expiry EXCEPT ![o] = Cardinality(Opened) + 1]

CreateTransaction(o) ==
  /\ checkout[o] = "charging"
  /\ OpenSession(o)
  /\ checkout' = [checkout EXCEPT ![o] = "stamping"]
  /\ UNCHANGED <<database, worker, sweep, fulfil, clock, alerts, crashes>>

(* The call failed.  A timeout, an unreadable reply or a missing qr_string
   leaves a session at the provider that the backend knows nothing about. *)
CreateTransactionFails(o) ==
  /\ checkout[o] = "charging"
  /\ checkout' = [checkout EXCEPT ![o] = "compensating"]
  /\ \/ UNCHANGED provider
     \/ OpenSession(o)
  /\ UNCHANGED <<database, worker, sweep, fulfil, clock, alerts, crashes>>

Compensate(o) ==
  /\ checkout[o] = "compensating"
  /\ ApplyOutcome(o, Released("CANCELLED"))
  /\ checkout' = [checkout EXCEPT ![o] = "refused"]
  /\ UNCHANGED <<deadline, payments, provider, worker, sweep, fulfil, clock, alerts, crashes>>

(* The compensating transaction runs under the request's context, so it fails
   when the database does and also when the guest has hung up. *)
CompensateFails(o) ==
  /\ checkout[o] = "compensating"
  /\ checkout' = [checkout EXCEPT ![o] = "refused"]
  /\ UNCHANGED <<database, provider, worker, sweep, fulfil, clock, alerts, crashes>>

UpdatePaymentDetails(o) ==
  /\ checkout[o] = "stamping"
  /\ deadline' = [deadline EXCEPT ![o] = expiry[o]]
  /\ checkout' = [checkout EXCEPT ![o] = "accepted"]
  /\ UNCHANGED <<quota, status, payments, provider, worker, sweep, fulfil, clock, alerts, crashes>>

UpdatePaymentDetailsFails(o) ==
  /\ checkout[o] = "stamping"
  /\ checkout' = [checkout EXCEPT ![o] = "refused"]
  /\ UNCHANGED <<database, provider, worker, sweep, fulfil, clock, alerts, crashes>>

Checkout(o) ==
  \/ ReserveOnce(o) \/ InsufficientQuota(o)
  \/ CreateTransaction(o) \/ CreateTransactionFails(o)
  \/ Compensate(o) \/ CompensateFails(o)
  \/ UpdatePaymentDetails(o) \/ UpdatePaymentDetailsFails(o)

-----------------------------------------------------------------------------
(* The payment provider (external).  A guest can pay once the code reached
   the order page; a copy of the code outlives whatever the page shows. *)

MoveSession(o, from, to) ==
  /\ session[o] = from
  /\ session' = [session EXCEPT ![o] = to]
  /\ UNCHANGED <<database, expiry, memory, clock, alerts, crashes>>

GuestPays(o) ==
  /\ deadline[o] # 0
  /\ MoveSession(o, "open", "settled") \/ MoveSession(o, "open", "challenged")

ProviderReviews(o) ==
  MoveSession(o, "challenged", "settled") \/ MoveSession(o, "challenged", "declined")

ProviderDeclines(o) == MoveSession(o, "open", "declined")

ProviderExpires(o) == expiry[o] <= clock /\ MoveSession(o, "open", "expired")

(* What FetchStatus may answer while the session is in state s; for a session
   that does not exist it returns ErrOrderNotFound. *)
CurrentAnswers(s) ==
  CASE s = "none"       -> {}
    [] s = "open"       -> {SessionAnswer("pending", "accept")}
    [] s = "challenged" -> {SessionAnswer("capture", "challenge")}
    [] s = "settled"    -> Receipts
    [] s = "declined"   -> Declines
    [] s = "expired"    -> {SessionAnswer("expire", "accept")}

Before(s) ==
  CASE s \in {"none", "open"}         -> {}
    [] s \in {"challenged", "expired"} -> {"open"}
    [] OTHER                           -> {"open", "challenged"}

(* Notifications the provider may have sent by then.  Each may be delivered
   late, out of order, many times or never; a settled session may also send
   what the table has no case for, such as a refund. *)
Notifications(s) ==
  LET said == UNION {CurrentAnswers(t) : t \in Before(s) \cup {s}}
  IN IF s = "settled" THEN said \cup {SessionAnswer("other", "accept")} ELSE said

Provider(o) ==
  GuestPays(o) \/ ProviderReviews(o) \/ ProviderDeclines(o) \/ ProviderExpires(o)

(* Bound: once every open session's expiry has gone by, more time changes
   nothing. *)
Tick ==
  /\ clock < Cardinality(Opened)
  /\ clock' = clock + 1
  /\ UNCHANGED <<database, provider, memory, alerts, crashes>>

-----------------------------------------------------------------------------
(* applyProviderResult, run by a worker for a notification or for the answer
   to a status check.  It decides on the order it read before it started. *)

Become(w, job) == worker' = [worker EXCEPT ![w] = job]

HandleNotification(w, o, answer) ==
  /\ worker[w] = Idle
  /\ answer \in Notifications(session[o])
  /\ Become(w, [pc |-> "record", order |-> o, seen |-> status[o], due |-> 0, answer |-> answer])
  /\ UNCHANGED <<database, provider, checkout, sweep, fulfil, clock, alerts, crashes>>

Decision(job) == MapProviderStatus(job.answer.transaction, job.answer.fraud)

\* Mutation of RecordAnswer: the audit row is written only on the path that
\* goes on to change the order's status to something other than PAID.
RecordOnlyReleases(w) ==
  LET job == worker[w]
      o == job.order
      outcome == Decision(job)
      success == outcome.orderStatus = "PAID"
      late == success /\ job.seen \notin {"PENDING", "PAID"}
  IN /\ job.pc = "record"
     /\ payments' = IF success THEN payments
                    ELSE [payments EXCEPT ![o] = @ \cup {job.answer}]
     /\ IF job.seen = "PAID" \/ ~ChangesOrder(outcome) \/ late
          THEN Become(w, Idle)
          ELSE Become(w, [job EXCEPT !.pc = "apply"])
     /\ alerts' = IF late THEN alerts \cup {o} ELSE alerts
     /\ UNCHANGED <<quota, status, deadline, provider, checkout, sweep, fulfil, clock, crashes>>

\* Mutation of RecordAnswer: the late-success check comes before the
\* already-paid one, so a replay for a paid order raises the alarm.
RecordAlarmingOnReplay(w) ==
  LET job == worker[w]
      o == job.order
      outcome == Decision(job)
      success == outcome.orderStatus = "PAID"
      late == success /\ job.seen # "PENDING"
  IN /\ job.pc = "record"
     /\ payments' = [payments EXCEPT ![o] = @ \cup {job.answer}]
     /\ IF job.seen = "PAID" \/ ~ChangesOrder(outcome) \/ late
          THEN Become(w, Idle)
          ELSE Become(w, [job EXCEPT !.pc = "apply"])
     /\ alerts' = IF late THEN alerts \cup {o} ELSE alerts
     /\ UNCHANGED <<quota, status, deadline, provider, checkout, sweep, fulfil, clock, crashes>>

(* CreatePayment, then the early returns: already paid, no decision in the
   answer, or money for an order that was no longer pending when it was read
   (raised to the admins, never applied). *)
RecordAnswer(w) ==
  LET job == worker[w]
      o == job.order
      outcome == Decision(job)
      success == outcome.orderStatus = "PAID"
      late == success /\ job.seen \notin {"PENDING", "PAID"}
  IN /\ job.pc = "record"
     /\ payments' = [payments EXCEPT ![o] = @ \cup {job.answer}]
     /\ IF job.seen = "PAID" \/ ~ChangesOrder(outcome) \/ late
          THEN Become(w, Idle)
          ELSE Become(w, [job EXCEPT !.pc = "apply"])
     /\ alerts' = IF late THEN alerts \cup {o} ELSE alerts
     /\ UNCHANGED <<quota, status, deadline, provider, checkout, sweep, fulfil, clock, crashes>>

\* Mutation of ApplyAnswer: fulfilment starts for every successful answer,
\* whether or not this handler's transition applied.
ApplyAnswerFulfillingAlways(w) ==
  LET o == worker[w].order
      outcome == Decision(worker[w])
      success == outcome.orderStatus = "PAID"
  IN /\ worker[w].pc = "apply"
     /\ ApplyOutcome(o, outcome)
     /\ fulfil' = IF success THEN [fulfil EXCEPT ![o] = "issuing"] ELSE fulfil
     /\ Become(w, Idle)
     /\ UNCHANGED <<deadline, payments, provider, checkout, sweep, clock, alerts, crashes>>

(* The guarded transaction; only the handler whose transition applied starts
   the fulfilment goroutine. *)
ApplyAnswer(w) ==
  LET o == worker[w].order
      outcome == Decision(worker[w])
      success == outcome.orderStatus = "PAID"
  IN /\ worker[w].pc = "apply"
     /\ ApplyOutcome(o, outcome)
     /\ fulfil' = IF success /\ status[o] = "PENDING"
                    THEN [fulfil EXCEPT ![o] = "issuing"] ELSE fulfil
     /\ Become(w, Idle)
     /\ UNCHANGED <<deadline, payments, provider, checkout, sweep, clock, alerts, crashes>>

(* A database error, an unreachable provider or a caller that hung up ends
   the request with nothing changed; the provider will notify again. *)
RequestFails(w) ==
  /\ worker[w] # Idle
  /\ Become(w, Idle)
  /\ UNCHANGED <<database, provider, checkout, sweep, fulfil, clock, alerts, crashes>>

(* RefreshStatus: the guest's button.  A settled order is answered at once. *)
RefreshStatus(w, o) ==
  /\ worker[w] = Idle
  /\ status[o] = "PENDING"
  /\ Become(w, [pc |-> "checkDue", order |-> o, seen |-> "PENDING", due |-> deadline[o], answer |-> None])
  /\ UNCHANGED <<database, provider, checkout, sweep, fulfil, clock, alerts, crashes>>

\* Mutation of RefreshExpires: the deadline read with the order is not
\* compared with the clock.
RefreshExpiresUndue(w) ==
  LET job == worker[w]
  IN /\ job.pc = "checkDue"
     /\ ApplyOutcome(job.order, Released("EXPIRED"))
     /\ Become(w, IF status[job.order] = "PENDING" THEN Idle ELSE [job EXCEPT !.pc = "fetch"])
     /\ UNCHANGED <<deadline, payments, provider, checkout, sweep, fulfil, clock, alerts, crashes>>

(* Past its deadline the order expires on the spot; if another path moved it
   first, the code goes on to ask the provider all the same. *)
RefreshExpires(w) ==
  LET job == worker[w]
  IN /\ job.pc = "checkDue"
     /\ PastDeadline(job.due)
     /\ ApplyOutcome(job.order, Released("EXPIRED"))
     /\ Become(w, IF status[job.order] = "PENDING" THEN Idle ELSE [job EXCEPT !.pc = "fetch"])
     /\ UNCHANGED <<deadline, payments, provider, checkout, sweep, fulfil, clock, alerts, crashes>>

RefreshNotDue(w) ==
  /\ worker[w].pc = "checkDue"
  /\ ~PastDeadline(worker[w].due)
  /\ Become(w, [worker[w] EXCEPT !.pc = "fetch"])
  /\ UNCHANGED <<database, provider, checkout, sweep, fulfil, clock, alerts, crashes>>

(* Without a session the guest is told ErrProviderHasNoRecord. *)
FetchStatus(w) ==
  LET answers == CurrentAnswers(session[worker[w].order])
  IN /\ worker[w].pc = "fetch"
     /\ \/ answers = {} /\ Become(w, Idle)
        \/ \E answer \in answers :
             Become(w, [worker[w] EXCEPT !.pc = "record", !.answer = answer])
     /\ UNCHANGED <<database, provider, checkout, sweep, fulfil, clock, alerts, crashes>>

Proceed(w) ==
  \/ RefreshExpires(w) \/ RefreshNotDue(w) \/ FetchStatus(w)
  \/ RecordAnswer(w) \/ ApplyAnswer(w) \/ RequestFails(w)

Serve(w) ==
  \/ \E o \in Orders, answer \in Answer : HandleNotification(w, o, answer)
  \/ \E o \in Orders : RefreshStatus(w, o)
  \/ Proceed(w)

-----------------------------------------------------------------------------
(* The sweeper: a read of the oldest due orders, then one guarded
   transaction for each of them; an error skips to the next. *)

Due == {o \in Orders : status[o] = "PENDING" /\ PastDeadline(deadline[o])}

\* Mutation of DueForExpiry: only the orders whose deadline passed since the
\* last tick are looked for.
DueForExpiryJustNow ==
  {o \in Due : deadline[o] = clock
              /\ Cardinality({p \in Due : deadline[p] < deadline[o]}) < BatchSize}

DueForExpiry ==
  {o \in Due : Cardinality({p \in Due : deadline[p] < deadline[o]}) < BatchSize}

ListDueOrders ==
  /\ sweep = {}
  /\ Due # {}
  /\ sweep' = DueForExpiry
  /\ UNCHANGED <<database, provider, checkout, worker, fulfil, clock, alerts, crashes>>

NextInBatch(o) == o \in sweep /\ \A p \in sweep : deadline[o] <= deadline[p]

ExpireDueOrder(o) ==
  /\ NextInBatch(o)
  /\ ApplyOutcome(o, Released("EXPIRED"))
  /\ sweep' = sweep \ {o}
  /\ UNCHANGED <<deadline, payments, provider, checkout, worker, fulfil, clock, alerts, crashes>>

ExpireDueOrderFails(o) ==
  /\ NextInBatch(o)
  /\ sweep' = sweep \ {o}
  /\ UNCHANGED <<database, provider, checkout, worker, fulfil, clock, alerts, crashes>>

Sweeper ==
  ListDueOrders \/ \E o \in Orders : ExpireDueOrder(o) \/ ExpireDueOrderFails(o)

-----------------------------------------------------------------------------
(* fulfillAsync: tickets first, the email after them, and no second try. *)

FulfilStep(o, from, to) ==
  /\ fulfil[o] = from
  /\ fulfil' = [fulfil EXCEPT ![o] = to]
  /\ UNCHANGED <<database, provider, checkout, worker, sweep, clock, alerts, crashes>>

IssueTickets(o) == FulfilStep(o, "issuing", "mailing")

IssueTicketsFails(o) == FulfilStep(o, "issuing", "unissued")

SendTicketEmail(o) == FulfilStep(o, "mailing", "delivered")

SendTicketEmailFails(o) == FulfilStep(o, "mailing", "unmailed")

FulfillAsync(o) ==
  \/ IssueTickets(o) \/ IssueTicketsFails(o)
  \/ SendTicketEmail(o) \/ SendTicketEmailFails(o)

(* The process dies: requests, the sweep and the goroutines are gone, the
   database and the provider are not, and nothing resumes on restart. *)
Crash ==
  /\ crashes < MaxCrashes
  /\ crashes' = crashes + 1
  /\ checkout' = [o \in Orders |-> IF checkout[o] \in InFlight THEN "cut" ELSE checkout[o]]
  /\ worker' = [w \in Workers |-> Idle]
  /\ sweep' = {}
  /\ fulfil' = [o \in Orders |-> CASE fulfil[o] = "issuing" -> "unissued"
                                   [] fulfil[o] = "mailing" -> "unmailed"
                                   [] OTHER -> fulfil[o]]
  /\ UNCHANGED <<database, provider, clock, alerts>>

-----------------------------------------------------------------------------
Next ==
  \/ \E o \in Orders : Checkout(o) \/ Provider(o) \/ FulfillAsync(o)
  \/ \E w \in Workers : Serve(w)
  \/ Sweeper
  \/ Tick
  \/ Crash

Spec == Init /\ [][Next]_vars

-----------------------------------------------------------------------------
(* Fairness. *)

(* The sweeper: a ticker that never stops, time that passes, and an order
   whose expiry keeps being tried succeeds some day ("the next tick retries
   it").  Nothing is assumed of guests, workers or the provider. *)
SweeperFairness ==
  /\ WF_vars(Tick)
  /\ WF_vars(ListDueOrders)
  /\ \A o \in Orders : SF_vars(ExpireDueOrder(o))

SweptSpec == Spec /\ SweeperFairness

(* The provider ends every session and notifies again until it is answered,
   a request ends (every call in it has a timeout), and a notification that
   keeps arriving is some day processed to the end.  Nothing is assumed of
   the sweeper. *)
LatestAnswer(w, o) ==
  worker[w].order = o /\ worker[w].answer \in CurrentAnswers(session[o])

ProviderFairness ==
  /\ WF_vars(Tick)
  /\ \A w \in Workers : WF_vars(Proceed(w))
  /\ \A o \in Orders :
       /\ WF_vars(ProviderExpires(o))
       /\ WF_vars(ProviderReviews(o))
       /\ SF_vars(\E w \in Workers, answer \in CurrentAnswers(session[o]) :
                    HandleNotification(w, o, answer))
       /\ SF_vars(\E w \in Workers : LatestAnswer(w, o) /\ RecordAnswer(w))
       /\ SF_vars(\E w \in Workers : LatestAnswer(w, o) /\ ApplyAnswer(w))

NotifiedSpec == Spec /\ ProviderFairness

(* A goroutine that was started runs. *)
FulfilledSpec == Spec /\ \A o \in Orders : WF_vars(FulfillAsync(o))

-----------------------------------------------------------------------------
(* Properties *)

TypeOK ==
  /\ quota \in [TicketTypes -> Nat]
  /\ status \in [Orders -> Statuses]
  /\ deadline \in [Orders -> Nat]
  /\ payments \in [Orders -> SUBSET Answer]
  /\ session \in [Orders -> Sessions]
  /\ expiry \in [Orders -> Nat]
  /\ clock \in Nat
  /\ checkout \in [Orders -> CheckoutSteps]
  /\ worker \in [Workers -> Job \cup {Idle}]
  /\ sweep \in SUBSET Orders
  /\ fulfil \in [Orders -> FulfilSteps]
  /\ alerts \in SUBSET Orders
  /\ crashes \in 0 .. MaxCrashes

Stage ==
  [o \in Orders |-> CASE status[o] = "NONE"    -> "none"
                     [] status[o] = "PENDING" -> "held"
                     [] status[o] = "PAID"    -> "sold"
                     [] OTHER                 -> "released"]

Ledger == INSTANCE SeatLedger WITH free <- quota, stage <- Stage

(* The whole lifecycle, races and crashes included, is a run of SeatLedger:
   whichever of webhook, status check, sweeper and compensation gets to an
   order first takes or returns its seats, and the others do nothing.       *)
ImplementsLedger == Ledger!Spec

(* FR-024: quota and the seats of PENDING and PAID orders always add up to
   the opening quota, so no seat is returned twice or not at all when
   compensation, webhook, status check and sweeper race over one order.     *)
SeatsConserved == Ledger!SeatsConserved

(* FR-006: however checkouts overlap, the PENDING and PAID orders together
   never hold more seats of a type than it opened with.                     *)
NeverOversold == Ledger!NeverOversold

(* PAID, CANCELLED and EXPIRED are terminal (data-model.md, "Invariants"): a
   handler that decided on a stale read never moves an order again.         *)
TerminalStatusesStay ==
  [][\A o \in Orders :
       status[o] \in SettledStatuses => status'[o] = status[o]]_vars

(* FR-013, FR-014, FR-025: fulfilment starts once per order, in the very step
   that makes it PAID, however many handlers carry the same good news.      *)
FulfilledOncePerSale ==
  [][\A o \in Orders :
       fulfil'[o] = "issuing" /\ fulfil[o] # "issuing" =>
         fulfil[o] = "none" /\ status[o] = "PENDING" /\ status'[o] = "PAID"]_vars

(* Tickets are only given away for money: an order is PAID only if the
   provider's session really settled, whatever mix of early, duplicated and
   reordered answers the handlers worked from.                              *)
PaidOnlyIfCollected ==
  \A o \in Orders : status[o] = "PAID" => session[o] = "settled"

Logged(o, s) == payments[o] \cap CurrentAnswers(s) # {}

(* FR-028: the payments table explains every order the provider decided.  A
   cancelled order without such a row was compensated by its own checkout,
   an expired one without it is past its recorded deadline.                 *)
DecisionsAreAudited ==
  \A o \in Orders :
    /\ status[o] = "PAID" => Logged(o, "settled")
    /\ status[o] = "CANCELLED" => Logged(o, "declined") \/ checkout[o] = "refused"
    /\ status[o] = "EXPIRED" => Logged(o, "expired") \/ PastDeadline(deadline[o])

(* A guest never loses seats while the countdown still runs: an order expires
   only after its deadline or after the provider closed the session.        *)
NeverExpiredEarly ==
  \A o \in Orders :
    status[o] = "EXPIRED" => PastDeadline(deadline[o]) \/ session[o] = "expired"

(* "Needs manual reconciliation" is said only of an order whose money was
   taken and whose seats were given back, never of a sold or open one.      *)
AlertsAreReal ==
  \A o \in alerts :
    session[o] = "settled" /\ status[o] \in {"CANCELLED", "EXPIRED"}

(* With the sweeper alone (no guest, worker or notification helping, requests
   and the process failing) every order with a recorded deadline is settled,
   also when more orders are due than fit in one batch.                     *)
DeadlinesAreEnforced ==
  \A o \in Orders :
    status[o] = "PENDING" /\ deadline[o] # 0 ~> status[o] # "PENDING"

(* service.go: when TX2 fails "the webhook still resolves it either way".  An
   order with a session is settled by notifications alone, stamped or not.  *)
WebhookResolvesEveryOrder ==
  \A o \in Orders :
    status[o] = "PENDING" /\ session[o] # "none" ~> status[o] # "PENDING"

-----------------------------------------------------------------------------
(* What the documents say and the code does not do. *)

(* FR-021: no order is left holding quota because of a failed payment
   initiation: a refused guest without a session has no PENDING order.      *)
FailedInitiationHoldsNothing ==
  \A o \in Orders :
    checkout[o] = "refused" /\ session[o] = "none" => status[o] # "PENDING"

(* FR-026: once the payment succeeded the tickets are issued.               *)
PaidOrdersGetTickets ==
  \A o \in Orders :
    status[o] = "PAID" ~> fulfil[o] \in {"mailing", "delivered", "unmailed"}
=============================================================================
