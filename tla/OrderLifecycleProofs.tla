------------------------ MODULE OrderLifecycleProofs ------------------------
(***************************************************************************)
(* OrderLifecycle for any number of orders, ticket types, workers, crashes *)
(* and any batch size: its variables keep their types, it implements       *)
(* SeatLedger, and therefore never loses, invents or oversells a seat.     *)
(***************************************************************************)
EXTENDS OrderLifecycle, FiniteSetTheorems, TLAPS

(* The only outcomes a handler ever applies. *)
Decisive == {Sold, Released("CANCELLED"), Released("EXPIRED")}

LEMMA DecisiveTable ==
  ASSUME NEW answer \in Answer,
         ChangesOrder(MapProviderStatus(answer.transaction, answer.fraud))
  PROVE  MapProviderStatus(answer.transaction, answer.fraud) \in Decisive
BY DEF Answer, Transactions, Frauds, ChangesOrder, MapProviderStatus, Decisive,
       Sold, Released, NoDecision, Unrecognized, Unchanged

LEMMA OpenedCount == Cardinality(Opened) \in Nat
<1>1. Opened \in SUBSET Orders
  BY DEF Opened
<1>2. IsFiniteSet(Opened)
  BY <1>1, FS_Subset, OrderLifecycleAssumption DEF OrderLifecycleAssumption
<1> QED
  BY <1>2, FS_CardinalityType

(* A worker that is about to apply an answer holds a decisive one, and an  *)
(* order row exists only once its checkout got past TX1.                   *)
JobsHoldAnswers ==
  \A w \in Workers :
    /\ worker[w].pc \in {"record", "apply"} => worker[w].answer \in Answer
    /\ worker[w].pc = "apply" => ChangesOrder(Decision(worker[w]))

NoRowBeforeCheckout ==
  \A o \in Orders : checkout[o] \in {"idle", "turnedAway"} => status[o] = "NONE"

Inv == TypeOK /\ JobsHoldAnswers /\ NoRowBeforeCheckout

(* What a transaction that applies a decisive outcome leaves behind.       *)
LEMMA ApplyOutcomeTypes ==
  ASSUME TypeOK, NEW o \in Orders, NEW outcome \in Decisive, ApplyOutcome(o, outcome)
  PROVE  /\ quota' \in [TicketTypes -> Nat]
         /\ status' \in [Orders -> Statuses]
<1>1. Restored(o) \in [TicketTypes -> Nat]
  <2> SUFFICES ASSUME NEW t \in TicketTypes PROVE quota[t] + Lines[o][t] \in Nat
    BY DEF Restored
  <2>1. quota[t] \in Nat /\ Lines[o][t] \in Nat
    BY OrderLinesAssumption DEF TypeOK, OrderLinesAssumption
  <2> QED
    BY <2>1
<1>2. outcome.orderStatus \in Statuses
  BY DEF Decisive, Sold, Released, Statuses, SettledStatuses
<1> QED
  BY <1>1, <1>2 DEF ApplyOutcome, TypeOK

LEMMA ReservationTypes ==
  ASSUME TypeOK, NEW o \in Orders, ReserveOnce(o)
  PROVE  quota' \in [TicketTypes -> Nat]
<1> SUFFICES ASSUME NEW t \in TicketTypes PROVE quota[t] - Lines[o][t] \in Nat
  BY DEF ReserveOnce, Deducted
<1>1. quota[t] \in Nat /\ Lines[o][t] \in Nat
  BY OrderLinesAssumption DEF TypeOK, OrderLinesAssumption
<1>2. Lines[o][t] <= quota[t]
  BY DEF ReserveOnce
<1> QED
  BY <1>1, <1>2

-----------------------------------------------------------------------------
(* Steps of a checkout. *)
LEMMA CheckoutStep ==
  ASSUME Inv, NEW o \in Orders, Checkout(o)
  PROVE  Inv'
<1> USE DEF Inv, database, provider, memory
<1>1. CASE ReserveOnce(o)
  <2>1. quota' \in [TicketTypes -> Nat]
    BY <1>1, ReservationTypes
  <2>2. TypeOK'
    BY <1>1, <2>1 DEF ReserveOnce, TypeOK, Statuses, CheckoutSteps
  <2>3. JobsHoldAnswers'
    BY <1>1 DEF ReserveOnce, JobsHoldAnswers, Decision
  <2>4. NoRowBeforeCheckout'
    BY <1>1 DEF ReserveOnce, NoRowBeforeCheckout, TypeOK
  <2> QED
    BY <2>2, <2>3, <2>4
<1>2. CASE InsufficientQuota(o)
  <2>2. TypeOK'
    BY <1>2 DEF InsufficientQuota, TypeOK, Statuses, CheckoutSteps
  <2>3. JobsHoldAnswers'
    BY <1>2 DEF InsufficientQuota, JobsHoldAnswers, Decision
  <2>4. NoRowBeforeCheckout'
    BY <1>2 DEF InsufficientQuota, NoRowBeforeCheckout, TypeOK
  <2> QED
    BY <2>2, <2>3, <2>4
<1>3. ASSUME OpenSession(o)
      PROVE  session' \in [Orders -> Sessions] /\ expiry' \in [Orders -> Nat]
  BY <1>3, OpenedCount DEF OpenSession, TypeOK, Sessions
<1>4. CASE CreateTransaction(o)
  <2>2. TypeOK'
    BY <1>4, <1>3 DEF CreateTransaction, TypeOK, CheckoutSteps
  <2>3. JobsHoldAnswers'
    BY <1>4 DEF CreateTransaction, JobsHoldAnswers, Decision
  <2>4. NoRowBeforeCheckout'
    BY <1>4 DEF CreateTransaction, NoRowBeforeCheckout, TypeOK
  <2> QED
    BY <2>2, <2>3, <2>4
<1>5. CASE CreateTransactionFails(o)
  <2>2. TypeOK'
    BY <1>5, <1>3 DEF CreateTransactionFails, TypeOK, CheckoutSteps
  <2>3. JobsHoldAnswers'
    BY <1>5 DEF CreateTransactionFails, JobsHoldAnswers, Decision
  <2>4. NoRowBeforeCheckout'
    BY <1>5 DEF CreateTransactionFails, NoRowBeforeCheckout, TypeOK
  <2> QED
    BY <2>2, <2>3, <2>4
<1>6. CASE Compensate(o)
  <2>1. Released("CANCELLED") \in Decisive
    BY DEF Decisive
  <2>2. TypeOK'
    BY <1>6, <2>1, ApplyOutcomeTypes DEF Compensate, TypeOK, CheckoutSteps
  <2>3. JobsHoldAnswers'
    BY <1>6 DEF Compensate, JobsHoldAnswers, Decision
  <2>4. NoRowBeforeCheckout'
    BY <1>6 DEF Compensate, ApplyOutcome, NoRowBeforeCheckout, TypeOK
  <2> QED
    BY <2>2, <2>3, <2>4
<1>7. CASE CompensateFails(o)
  <2>2. TypeOK'
    BY <1>7 DEF CompensateFails, TypeOK, CheckoutSteps
  <2>3. JobsHoldAnswers'
    BY <1>7 DEF CompensateFails, JobsHoldAnswers, Decision
  <2>4. NoRowBeforeCheckout'
    BY <1>7 DEF CompensateFails, NoRowBeforeCheckout, TypeOK
  <2> QED
    BY <2>2, <2>3, <2>4
<1>8. CASE UpdatePaymentDetails(o)
  <2>2. TypeOK'
    BY <1>8 DEF UpdatePaymentDetails, TypeOK, CheckoutSteps
  <2>3. JobsHoldAnswers'
    BY <1>8 DEF UpdatePaymentDetails, JobsHoldAnswers, Decision
  <2>4. NoRowBeforeCheckout'
    BY <1>8 DEF UpdatePaymentDetails, NoRowBeforeCheckout, TypeOK
  <2> QED
    BY <2>2, <2>3, <2>4
<1>9. CASE UpdatePaymentDetailsFails(o)
  <2>2. TypeOK'
    BY <1>9 DEF UpdatePaymentDetailsFails, TypeOK, CheckoutSteps
  <2>3. JobsHoldAnswers'
    BY <1>9 DEF UpdatePaymentDetailsFails, JobsHoldAnswers, Decision
  <2>4. NoRowBeforeCheckout'
    BY <1>9 DEF UpdatePaymentDetailsFails, NoRowBeforeCheckout, TypeOK
  <2> QED
    BY <2>2, <2>3, <2>4
<1> QED
  BY <1>1, <1>2, <1>4, <1>5, <1>6, <1>7, <1>8, <1>9 DEF Checkout

(* Steps of the provider and of time. *)
LEMMA ProviderStep ==
  ASSUME Inv, NEW o \in Orders, Provider(o)
  PROVE  Inv'
<1> USE DEF Inv, database, memory
<1>1. PICK from, to \in Sessions : MoveSession(o, from, to)
  BY DEF Provider, GuestPays, ProviderReviews, ProviderDeclines, ProviderExpires, Sessions
<1>2. TypeOK'
  BY <1>1 DEF MoveSession, TypeOK
<1>3. JobsHoldAnswers'
  BY <1>1 DEF MoveSession, JobsHoldAnswers, Decision
<1>4. NoRowBeforeCheckout'
  BY <1>1 DEF MoveSession, NoRowBeforeCheckout
<1> QED
  BY <1>2, <1>3, <1>4

LEMMA TickStep ==
  ASSUME Inv, Tick
  PROVE  Inv'
<1> USE DEF Inv, Tick, database, provider, memory
<1>1. TypeOK'
  BY DEF TypeOK
<1>2. JobsHoldAnswers'
  BY DEF JobsHoldAnswers, Decision
<1>3. NoRowBeforeCheckout'
  BY DEF NoRowBeforeCheckout
<1> QED
  BY <1>1, <1>2, <1>3

-----------------------------------------------------------------------------
(* Steps of a worker.  Every one of them replaces the job by a well-formed *)
(* one, so two facts about the new job carry the invariant over.           *)
WellFormed(job) ==
  /\ job \in Job \cup {Idle}
  /\ job.pc \in {"record", "apply"} => job.answer \in Answer
  /\ job.pc = "apply" => ChangesOrder(Decision(job))

LEMMA BecomeKeepsJobs ==
  ASSUME Inv, NEW w \in Workers, NEW job, WellFormed(job), Become(w, job)
  PROVE  /\ worker' \in [Workers -> Job \cup {Idle}]
         /\ JobsHoldAnswers'
<1>1. worker' = [worker EXCEPT ![w] = job]
  BY DEF Become
<1>2. worker' \in [Workers -> Job \cup {Idle}]
  BY <1>1 DEF WellFormed, Inv, TypeOK
<1>3. ASSUME NEW v \in Workers
      PROVE  /\ worker'[v].pc \in {"record", "apply"} => worker'[v].answer \in Answer
             /\ worker'[v].pc = "apply" => ChangesOrder(Decision(worker'[v]))
  <2>1. CASE v = w
    BY <1>1, <2>1 DEF WellFormed, Inv, TypeOK
  <2>2. CASE v # w
    <3>1. worker'[v] = worker[v]
      BY <1>1, <2>2 DEF Inv, TypeOK
    <3> QED
      BY <3>1 DEF Inv, JobsHoldAnswers
  <2> QED
    BY <2>1, <2>2
<1> QED
  BY <1>2, <1>3 DEF JobsHoldAnswers

LEMMA IdleWellFormed == WellFormed(Idle)
BY DEF WellFormed, Idle

LEMMA JobFields ==
  ASSUME Inv, NEW w \in Workers, worker[w].pc # "idle"
  PROVE  /\ worker[w] \in Job
         /\ worker[w].order \in Orders
         /\ worker[w].answer \in Answer \cup {None}
BY DEF Inv, TypeOK, Job, Idle

LEMMA CurrentAnswerTypes ==
  ASSUME NEW s \in Sessions
  PROVE  CurrentAnswers(s) \subseteq Answer
<1>1. ASSUME NEW t \in Transactions, NEW f \in Frauds
      PROVE  SessionAnswer(t, f) \in Answer
  BY DEF SessionAnswer, Answer
<1>2. Receipts \subseteq Answer /\ Declines \subseteq Answer
  BY <1>1, OrderLifecycleAssumption DEF OrderLifecycleAssumption, Transactions, Frauds
<1> QED
  BY <1>1, <1>2 DEF Sessions, CurrentAnswers, Transactions, Frauds

LEMMA HandleNotificationStep ==
  ASSUME Inv, NEW w \in Workers, NEW o \in Orders, NEW answer \in Answer,
         HandleNotification(w, o, answer)
  PROVE  Inv'
<1> USE DEF Inv, database, provider
<1> DEFINE job == [pc |-> "record", order |-> o, seen |-> status[o], due |-> 0, answer |-> answer]
<1>1. WellFormed(job)
  BY DEF WellFormed, Job, TypeOK
<1>2. Become(w, job)
  BY DEF HandleNotification
<1>3. worker' \in [Workers -> Job \cup {Idle}] /\ JobsHoldAnswers'
  BY <1>1, <1>2, BecomeKeepsJobs
<1>4. TypeOK'
  BY <1>3 DEF HandleNotification, TypeOK
<1>5. NoRowBeforeCheckout'
  BY DEF HandleNotification, NoRowBeforeCheckout
<1> QED
  BY <1>3, <1>4, <1>5

LEMMA RefreshStatusStep ==
  ASSUME Inv, NEW w \in Workers, NEW o \in Orders, RefreshStatus(w, o)
  PROVE  Inv'
<1> USE DEF Inv, database, provider
<1> DEFINE job == [pc |-> "checkDue", order |-> o, seen |-> "PENDING", due |-> deadline[o], answer |-> None]
<1>1. WellFormed(job)
  BY DEF WellFormed, Job, TypeOK, Statuses
<1>2. Become(w, job)
  BY DEF RefreshStatus
<1>3. worker' \in [Workers -> Job \cup {Idle}] /\ JobsHoldAnswers'
  BY <1>1, <1>2, BecomeKeepsJobs
<1>4. TypeOK'
  BY <1>3 DEF RefreshStatus, TypeOK
<1>5. NoRowBeforeCheckout'
  BY DEF RefreshStatus, NoRowBeforeCheckout
<1> QED
  BY <1>3, <1>4, <1>5

LEMMA RecordAnswerStep ==
  ASSUME Inv, NEW w \in Workers, RecordAnswer(w)
  PROVE  Inv'
<1> USE DEF Inv, database, provider
<1>1. worker[w].pc = "record" /\ "record" # "idle"
  BY DEF RecordAnswer
<1>2. /\ worker[w] \in Job /\ worker[w].order \in Orders
      /\ worker[w].answer \in Answer
  BY <1>1, JobFields DEF JobsHoldAnswers
<1>3. PICK job : WellFormed(job) /\ Become(w, job)
  <2>1. CASE Become(w, Idle)
    BY <2>1, IdleWellFormed
  <2>2. CASE ChangesOrder(Decision(worker[w])) /\ Become(w, [worker[w] EXCEPT !.pc = "apply"])
    <3>1. WellFormed([worker[w] EXCEPT !.pc = "apply"])
      BY <1>2, <2>2 DEF WellFormed, Job, Decision
    <3> QED
      BY <2>2, <3>1
  <2> QED
    BY <2>1, <2>2 DEF RecordAnswer
<1>4. worker' \in [Workers -> Job \cup {Idle}] /\ JobsHoldAnswers'
  BY <1>3, BecomeKeepsJobs
<1>5. payments' \in [Orders -> SUBSET Answer]
  BY <1>2 DEF RecordAnswer, TypeOK
<1>6. alerts' \in SUBSET Orders
  BY <1>2 DEF RecordAnswer, TypeOK
<1>7. TypeOK'
  BY <1>4, <1>5, <1>6 DEF RecordAnswer, TypeOK
<1>8. NoRowBeforeCheckout'
  BY DEF RecordAnswer, NoRowBeforeCheckout
<1> QED
  BY <1>4, <1>7, <1>8

(* The outcome that ApplyAnswer applies is one of the three decisive ones. *)
LEMMA ApplyAnswerIsDecisive ==
  ASSUME Inv, NEW w \in Workers, worker[w].pc = "apply"
  PROVE  worker[w].order \in Orders /\ Decision(worker[w]) \in Decisive
<1>1. worker[w].order \in Orders
  BY JobFields
<1>2. worker[w].answer \in Answer /\ ChangesOrder(Decision(worker[w]))
  BY DEF Inv, JobsHoldAnswers
<1> QED
  BY <1>1, <1>2, DecisiveTable DEF Decision

LEMMA ApplyAnswerStep ==
  ASSUME Inv, NEW w \in Workers, ApplyAnswer(w)
  PROVE  Inv'
<1> USE DEF Inv, provider
<1> DEFINE o == worker[w].order
<1>1. worker[w].pc = "apply"
  BY DEF ApplyAnswer
<1>2. o \in Orders /\ Decision(worker[w]) \in Decisive
  BY <1>1, ApplyAnswerIsDecisive
<1>3. ApplyOutcome(o, Decision(worker[w])) /\ Become(w, Idle)
  BY DEF ApplyAnswer
<1>4. quota' \in [TicketTypes -> Nat] /\ status' \in [Orders -> Statuses]
  BY <1>2, <1>3, ApplyOutcomeTypes
<1>5. worker' \in [Workers -> Job \cup {Idle}] /\ JobsHoldAnswers'
  BY <1>3, IdleWellFormed, BecomeKeepsJobs
<1>6. fulfil' \in [Orders -> FulfilSteps]
  BY <1>2 DEF ApplyAnswer, TypeOK, FulfilSteps
<1>7. TypeOK'
  BY <1>4, <1>5, <1>6 DEF ApplyAnswer, TypeOK
<1>8. NoRowBeforeCheckout'
  BY <1>2, <1>3 DEF ApplyAnswer, ApplyOutcome, NoRowBeforeCheckout, TypeOK
<1> QED
  BY <1>5, <1>7, <1>8

LEMMA RefreshExpiresStep ==
  ASSUME Inv, NEW w \in Workers, RefreshExpires(w)
  PROVE  Inv'
<1> USE DEF Inv, provider
<1> DEFINE o == worker[w].order
<1>1. worker[w].pc = "checkDue" /\ "checkDue" # "idle"
  BY DEF RefreshExpires
<1>2. worker[w] \in Job /\ o \in Orders
  BY <1>1, JobFields
<1>3. ApplyOutcome(o, Released("EXPIRED")) /\ Released("EXPIRED") \in Decisive
  BY DEF RefreshExpires, Decisive
<1>4. quota' \in [TicketTypes -> Nat] /\ status' \in [Orders -> Statuses]
  BY <1>2, <1>3, ApplyOutcomeTypes
<1>5. WellFormed([worker[w] EXCEPT !.pc = "fetch"])
  BY <1>2 DEF WellFormed, Job
<1>6. worker' \in [Workers -> Job \cup {Idle}] /\ JobsHoldAnswers'
  <2>1. Become(w, Idle) \/ Become(w, [worker[w] EXCEPT !.pc = "fetch"])
    BY DEF RefreshExpires
  <2> QED
    BY <1>5, <2>1, IdleWellFormed, BecomeKeepsJobs
<1>7. TypeOK'
  BY <1>4, <1>6 DEF RefreshExpires, TypeOK
<1>8. NoRowBeforeCheckout'
  BY <1>2, <1>3 DEF RefreshExpires, ApplyOutcome, NoRowBeforeCheckout, TypeOK
<1> QED
  BY <1>6, <1>7, <1>8

(* The steps of a worker that touch nothing but its own job.               *)
LEMMA QuietWorkerStep ==
  ASSUME Inv, NEW w \in Workers, NEW job, WellFormed(job), Become(w, job),
         UNCHANGED <<database, provider, checkout, sweep, fulfil, clock, alerts, crashes>>
  PROVE  Inv'
<1> USE DEF Inv, database, provider
<1>1. worker' \in [Workers -> Job \cup {Idle}] /\ JobsHoldAnswers'
  BY BecomeKeepsJobs
<1>2. TypeOK'
  BY <1>1 DEF TypeOK
<1>3. NoRowBeforeCheckout'
  BY DEF NoRowBeforeCheckout
<1> QED
  BY <1>1, <1>2, <1>3

LEMMA ServeStep ==
  ASSUME Inv, NEW w \in Workers, Serve(w)
  PROVE  Inv'
<1>1. ASSUME NEW o \in Orders, NEW answer \in Answer, HandleNotification(w, o, answer)
      PROVE  Inv'
  BY <1>1, HandleNotificationStep
<1>2. ASSUME NEW o \in Orders, RefreshStatus(w, o) PROVE Inv'
  BY <1>2, RefreshStatusStep
<1>3. CASE RefreshExpires(w)
  BY <1>3, RefreshExpiresStep
<1>4. CASE RecordAnswer(w)
  BY <1>4, RecordAnswerStep
<1>5. CASE ApplyAnswer(w)
  BY <1>5, ApplyAnswerStep
<1>6. CASE RequestFails(w)
  BY <1>6, IdleWellFormed, QuietWorkerStep DEF RequestFails
<1>7. CASE RefreshNotDue(w)
  <2>1. worker[w] \in Job
    BY <1>7, JobFields DEF RefreshNotDue
  <2>2. WellFormed([worker[w] EXCEPT !.pc = "fetch"])
    BY <2>1 DEF WellFormed, Job
  <2> QED
    BY <1>7, <2>2, QuietWorkerStep DEF RefreshNotDue
<1>8. CASE FetchStatus(w)
  <2>1. worker[w] \in Job /\ worker[w].order \in Orders
    BY <1>8, JobFields DEF FetchStatus
  <2>2. CASE Become(w, Idle)
    BY <1>8, <2>2, IdleWellFormed, QuietWorkerStep DEF FetchStatus
  <2>3. ASSUME NEW answer \in CurrentAnswers(session[worker[w].order]),
               Become(w, [worker[w] EXCEPT !.pc = "record", !.answer = answer])
        PROVE  Inv'
    <3> DEFINE job == [worker[w] EXCEPT !.pc = "record", !.answer = answer]
    <3>1. answer \in Answer
      BY <2>1, CurrentAnswerTypes DEF Inv, TypeOK
    <3>2. WellFormed(job)
      BY <2>1, <3>1 DEF WellFormed, Job
    <3>3. Become(w, job)
      BY <2>3
    <3>4. UNCHANGED <<database, provider, checkout, sweep, fulfil, clock, alerts, crashes>>
      BY <1>8 DEF FetchStatus
    <3> HIDE DEF job
    <3> QED
      BY <3>2, <3>3, <3>4, QuietWorkerStep
  <2> QED
    BY <1>8, <2>2, <2>3 DEF FetchStatus
<1> QED
  BY <1>1, <1>2, <1>3, <1>4, <1>5, <1>6, <1>7, <1>8 DEF Serve, Proceed

-----------------------------------------------------------------------------
(* Steps of the sweeper, of fulfilment and of a crash. *)
LEMMA SweeperStep ==
  ASSUME Inv, Sweeper
  PROVE  Inv'
<1> USE DEF Inv, database, provider
<1>1. CASE ListDueOrders
  <2>1. TypeOK'
    BY <1>1 DEF ListDueOrders, DueForExpiry, Due, TypeOK
  <2>2. JobsHoldAnswers' /\ NoRowBeforeCheckout'
    BY <1>1 DEF ListDueOrders, JobsHoldAnswers, NoRowBeforeCheckout, Decision
  <2> QED
    BY <2>1, <2>2
<1>2. ASSUME NEW o \in Orders, ExpireDueOrder(o) PROVE Inv'
  <2>1. ApplyOutcome(o, Released("EXPIRED")) /\ Released("EXPIRED") \in Decisive
    BY <1>2 DEF ExpireDueOrder, Decisive
  <2>2. quota' \in [TicketTypes -> Nat] /\ status' \in [Orders -> Statuses]
    BY <2>1, ApplyOutcomeTypes
  <2>3. TypeOK'
    BY <1>2, <2>2 DEF ExpireDueOrder, TypeOK
  <2>4. JobsHoldAnswers'
    BY <1>2 DEF ExpireDueOrder, JobsHoldAnswers, Decision
  <2>5. NoRowBeforeCheckout'
    BY <1>2, <2>1 DEF ExpireDueOrder, ApplyOutcome, NoRowBeforeCheckout, TypeOK
  <2> QED
    BY <2>3, <2>4, <2>5
<1>3. ASSUME NEW o \in Orders, ExpireDueOrderFails(o) PROVE Inv'
  <2>1. TypeOK'
    BY <1>3 DEF ExpireDueOrderFails, TypeOK
  <2>2. JobsHoldAnswers' /\ NoRowBeforeCheckout'
    BY <1>3 DEF ExpireDueOrderFails, JobsHoldAnswers, NoRowBeforeCheckout, Decision
  <2> QED
    BY <2>1, <2>2
<1> QED
  BY <1>1, <1>2, <1>3 DEF Sweeper

LEMMA FulfilmentStep ==
  ASSUME Inv, NEW o \in Orders, FulfillAsync(o)
  PROVE  Inv'
<1> USE DEF Inv, database, provider
<1>1. PICK from, to \in FulfilSteps : FulfilStep(o, from, to)
  BY DEF FulfillAsync, IssueTickets, IssueTicketsFails, SendTicketEmail,
         SendTicketEmailFails, FulfilSteps
<1>2. TypeOK'
  BY <1>1 DEF FulfilStep, TypeOK
<1>3. JobsHoldAnswers' /\ NoRowBeforeCheckout'
  BY <1>1 DEF FulfilStep, JobsHoldAnswers, NoRowBeforeCheckout, Decision
<1> QED
  BY <1>2, <1>3

LEMMA CrashStep ==
  ASSUME Inv, Crash
  PROVE  Inv'
<1> USE DEF Inv, database, provider
<1>1. crashes' \in 0 .. MaxCrashes
  BY OrderLifecycleAssumption DEF Crash, TypeOK, OrderLifecycleAssumption
<1>2. checkout' \in [Orders -> CheckoutSteps]
  BY DEF Crash, TypeOK, CheckoutSteps
<1>3. fulfil' \in [Orders -> FulfilSteps]
  <2> SUFFICES ASSUME NEW o \in Orders
               PROVE  (CASE fulfil[o] = "issuing" -> "unissued"
                         [] fulfil[o] = "mailing" -> "unmailed"
                         [] OTHER -> fulfil[o]) \in FulfilSteps
    BY DEF Crash
  <2> QED
    BY DEF TypeOK, FulfilSteps
<1>4. worker' \in [Workers -> Job \cup {Idle}]
  BY DEF Crash
<1>5. TypeOK'
  BY <1>1, <1>2, <1>3, <1>4 DEF Crash, TypeOK
<1>6. JobsHoldAnswers'
  BY DEF Crash, JobsHoldAnswers, Idle
<1>7. NoRowBeforeCheckout'
  BY DEF Crash, NoRowBeforeCheckout, InFlight, TypeOK
<1> QED
  BY <1>5, <1>6, <1>7

LEMMA InitInv == Init => Inv
<1> SUFFICES ASSUME Init PROVE Inv
  OBVIOUS
<1>1. TypeOK
  BY OrderLinesAssumption, OrderLifecycleAssumption
  DEF Init, TypeOK, OrderLinesAssumption, OrderLifecycleAssumption, Statuses, Sessions, CheckoutSteps, FulfilSteps
<1>2. JobsHoldAnswers /\ NoRowBeforeCheckout
  BY DEF Init, JobsHoldAnswers, NoRowBeforeCheckout, Idle
<1> QED
  BY <1>1, <1>2 DEF Inv

(* The inductive invariant: types, what jobs hold, and no row without TX1. *)
THEOREM Invariance == Spec => []Inv
<1>1. Inv /\ [Next]_vars => Inv'
  <2> SUFFICES ASSUME Inv, [Next]_vars PROVE Inv'
    OBVIOUS
  <2>1. ASSUME NEW o \in Orders, Checkout(o) PROVE Inv'
    BY <2>1, CheckoutStep
  <2>2. ASSUME NEW o \in Orders, Provider(o) PROVE Inv'
    BY <2>2, ProviderStep
  <2>3. ASSUME NEW o \in Orders, FulfillAsync(o) PROVE Inv'
    BY <2>3, FulfilmentStep
  <2>4. ASSUME NEW w \in Workers, Serve(w) PROVE Inv'
    BY <2>4, ServeStep
  <2>5. CASE Sweeper
    BY <2>5, SweeperStep
  <2>6. CASE Tick
    BY <2>6, TickStep
  <2>7. CASE Crash
    BY <2>7, CrashStep
  <2>8. CASE UNCHANGED vars
    BY <2>8 DEF vars, database, provider, memory, Inv, TypeOK, JobsHoldAnswers,
                NoRowBeforeCheckout, Decision
  <2> QED
    BY <2>1, <2>2, <2>3, <2>4, <2>5, <2>6, <2>7, <2>8 DEF Next
<1> QED
  BY <1>1, InitInv, PTL DEF Spec

(* Every variable keeps its type: in particular ticket_types.quota never    *)
(* becomes negative, for any load of checkouts and any order of releases.   *)
THEOREM TypeCorrectness == Spec => []TypeOK
<1>1. Inv => TypeOK
  BY DEF Inv
<1> QED
  BY <1>1, Invariance, PTL

-----------------------------------------------------------------------------
(* All that a step can do to the seats and to the status of the orders.    *)
SeatStep ==
  \/ UNCHANGED <<quota, status>>
  \/ \E o \in Orders : ReserveOnce(o)
  \/ \E o \in Orders, outcome \in Decisive : ApplyOutcome(o, outcome)

LEMMA EveryStepIsASeatStep ==
  ASSUME Inv, [Next]_vars
  PROVE  SeatStep
<1> USE DEF SeatStep, database
<1>1. ASSUME NEW o \in Orders, Checkout(o) PROVE SeatStep
  <2>1. CASE Compensate(o)
    BY <2>1 DEF Compensate, Decisive
  <2>2. CASE ReserveOnce(o)
    BY <2>2
  <2> QED
    BY <1>1, <2>1, <2>2
    DEF Checkout, InsufficientQuota, CreateTransaction, CreateTransactionFails,
        CompensateFails, UpdatePaymentDetails, UpdatePaymentDetailsFails
<1>2. ASSUME NEW o \in Orders, Provider(o) PROVE SeatStep
  BY <1>2 DEF Provider, GuestPays, ProviderReviews, ProviderDeclines, ProviderExpires, MoveSession
<1>3. ASSUME NEW o \in Orders, FulfillAsync(o) PROVE SeatStep
  BY <1>3 DEF FulfillAsync, IssueTickets, IssueTicketsFails, SendTicketEmail,
              SendTicketEmailFails, FulfilStep
<1>4. ASSUME NEW w \in Workers, Serve(w) PROVE SeatStep
  <2>1. CASE ApplyAnswer(w)
    <3>1. worker[w].order \in Orders /\ Decision(worker[w]) \in Decisive
      BY <2>1, ApplyAnswerIsDecisive DEF ApplyAnswer
    <3>2. ApplyOutcome(worker[w].order, Decision(worker[w]))
      BY <2>1 DEF ApplyAnswer
    <3> QED
      BY <3>1, <3>2
  <2>2. CASE RefreshExpires(w)
    <3>1. worker[w].order \in Orders /\ Released("EXPIRED") \in Decisive
      BY <2>2, JobFields DEF RefreshExpires, Decisive
    <3>2. ApplyOutcome(worker[w].order, Released("EXPIRED"))
      BY <2>2 DEF RefreshExpires
    <3> QED
      BY <3>1, <3>2
  <2> QED
    BY <1>4, <2>1, <2>2
    DEF Serve, Proceed, HandleNotification, RefreshStatus, RefreshNotDue, FetchStatus,
        RecordAnswer, RequestFails
<1>5. CASE Sweeper
  BY <1>5 DEF Sweeper, ListDueOrders, ExpireDueOrder, ExpireDueOrderFails, Decisive
<1>6. CASE Tick \/ Crash \/ UNCHANGED vars
  BY <1>6 DEF Tick, Crash, vars
<1> QED
  BY <1>1, <1>2, <1>3, <1>4, <1>5, <1>6 DEF Next

(* TerminalStatusesStay, for any number of racing handlers: an order that   *)
(* is PAID, CANCELLED or EXPIRED never moves again.                         *)
THEOREM TerminalStatuses == Spec => TerminalStatusesStay
<1>1. Inv /\ [Next]_vars => [\A o \in Orders :
        status[o] \in SettledStatuses => status'[o] = status[o]]_vars
  <2> SUFFICES ASSUME Inv, [Next]_vars, NEW o \in Orders, status[o] \in SettledStatuses
               PROVE  status'[o] = status[o]
    OBVIOUS
  <2>1. status[o] # "NONE" /\ status[o] # "PENDING"
    BY DEF SettledStatuses
  <2>2. ASSUME NEW p \in Orders, ReserveOnce(p) PROVE status'[o] = status[o]
    BY <2>1, <2>2 DEF ReserveOnce, Inv, NoRowBeforeCheckout, TypeOK
  <2>3. ASSUME NEW p \in Orders, NEW outcome \in Decisive, ApplyOutcome(p, outcome)
        PROVE  status'[o] = status[o]
    BY <2>1, <2>3 DEF ApplyOutcome, Inv, TypeOK
  <2> QED
    BY <2>2, <2>3, EveryStepIsASeatStep DEF SeatStep
<1> QED
  BY <1>1, Invariance, PTL DEF Spec, TerminalStatusesStay

-----------------------------------------------------------------------------
(* The refinement: a reservation is a Hold, a decisive outcome applied to a *)
(* pending order is a Sell or a Release, everything else is a stutter.      *)
LEMMA ReserveHolds ==
  ASSUME Inv, NEW o \in Orders, ReserveOnce(o)
  PROVE  Ledger!Hold(o)
<1>1. status[o] = "NONE" /\ status' = [status EXCEPT ![o] = "PENDING"]
  BY DEF ReserveOnce, Inv, NoRowBeforeCheckout
<1>2. Stage[o] = "none"
  BY <1>1 DEF Stage
<1>3. Stage' = [Stage EXCEPT ![o] = "held"]
  BY <1>1 DEF Stage, Inv, TypeOK
<1>4. /\ \A t \in TicketTypes : Lines[o][t] <= quota[t]
      /\ quota' = [t \in TicketTypes |-> quota[t] - Lines[o][t]]
  BY DEF ReserveOnce, Deducted
<1> QED
  BY <1>2, <1>3, <1>4 DEF Ledger!Hold

LEMMA OutcomeSellsOrReleases ==
  ASSUME Inv, NEW o \in Orders, NEW outcome \in Decisive, ApplyOutcome(o, outcome)
  PROVE  Ledger!Sell(o) \/ Ledger!Release(o) \/ UNCHANGED <<quota, status>>
<1> USE DEF Decisive, Sold, Released, Inv, TypeOK
<1>1. CASE status[o] # "PENDING"
  BY <1>1 DEF ApplyOutcome
<1>2. CASE status[o] = "PENDING" /\ outcome.orderStatus = "PAID"
  <2>1. quota' = quota /\ status' = [status EXCEPT ![o] = "PAID"]
    BY <1>2 DEF ApplyOutcome
  <2>2. Stage[o] = "held"
    BY <1>2 DEF Stage
  <2>3. Stage' = [Stage EXCEPT ![o] = "sold"]
    BY <2>1 DEF Stage
  <2> QED
    BY <2>1, <2>2, <2>3 DEF Ledger!Sell
<1>3. CASE status[o] = "PENDING" /\ outcome.orderStatus # "PAID"
  <2>1. PICK s \in {"CANCELLED", "EXPIRED"} : status' = [status EXCEPT ![o] = s]
    BY <1>3 DEF ApplyOutcome
  <2>2. quota' = [t \in TicketTypes |-> quota[t] + Lines[o][t]]
    BY <1>3 DEF ApplyOutcome, Restored
  <2>3. Stage[o] = "held"
    BY <1>3 DEF Stage
  <2>4. Stage' = [Stage EXCEPT ![o] = "released"]
    BY <2>1 DEF Stage
  <2> QED
    BY <2>2, <2>3, <2>4 DEF Ledger!Release
<1> QED
  BY <1>1, <1>2, <1>3

LEMMA StepRefines ==
  ASSUME Inv, [Next]_vars
  PROVE  [Ledger!Next]_(Ledger!ledger)
<1>1. CASE UNCHANGED <<quota, status>>
  BY <1>1 DEF Ledger!ledger, Stage
<1>2. ASSUME NEW o \in Orders, ReserveOnce(o) PROVE Ledger!Next
  BY <1>2, ReserveHolds DEF Ledger!Next
<1>3. ASSUME NEW o \in Orders, NEW outcome \in Decisive, ApplyOutcome(o, outcome)
      PROVE  Ledger!Next \/ UNCHANGED <<quota, status>>
  BY <1>3, OutcomeSellsOrReleases DEF Ledger!Next
<1> QED
  BY <1>1, <1>2, <1>3, EveryStepIsASeatStep DEF SeatStep

(* ImplementsLedger: checkout, compensation, webhook, status check, sweeper *)
(* and crashes together are a run of SeatLedger, whatever the instance.     *)
THEOREM Refinement == Spec => ImplementsLedger
<1>1. Init => Ledger!Init
  BY DEF Init, Ledger!Init, Stage
<1>2. Inv /\ [Next]_vars => [Ledger!Next]_(Ledger!ledger)
  BY StepRefines
<1> QED
  BY <1>1, <1>2, Invariance, PTL DEF Spec, Ledger!Spec, ImplementsLedger

LedgerProofs == INSTANCE SeatLedgerProofs WITH free <- quota, stage <- Stage

(* The ledger that the proofs are about is the one the lifecycle implements. *)
LEMMA LedgerRuns == ImplementsLedger => LedgerProofs!Spec
<1>1. Ledger!Init => LedgerProofs!Init
  BY DEF Ledger!Init, LedgerProofs!Init
<1>2. [Ledger!Next]_(Ledger!ledger) => [LedgerProofs!Next]_(LedgerProofs!ledger)
  BY DEF Ledger!Next, Ledger!Hold, Ledger!Sell, Ledger!Release, Ledger!ledger,
         LedgerProofs!Next, LedgerProofs!Hold, LedgerProofs!Sell, LedgerProofs!Release,
         LedgerProofs!ledger
<1> QED
  BY <1>1, <1>2, PTL DEF ImplementsLedger, Ledger!Spec, LedgerProofs!Spec

LEMMA LedgerConstants == LedgerProofs!OrderLinesAssumption
BY OrderLinesAssumption DEF OrderLinesAssumption, LedgerProofs!OrderLinesAssumption

(* SeatsConserved for the whole backend: what the ledger proves of its runs *)
(* holds of the lifecycle because it is one of them.                        *)
THEOREM Conservation == Spec => []SeatsConserved
<1>1. LedgerProofs!Spec => []LedgerProofs!SeatsConserved
  BY LedgerConstants, LedgerProofs!LedgerConserves, PTL
<1>2. LedgerProofs!SeatsConserved => SeatsConserved
  BY DEF SeatsConserved, Ledger!SeatsConserved, Ledger!SeatsOut, Ledger!Holders, Ledger!SeatsOf,
         LedgerProofs!SeatsConserved, LedgerProofs!SeatsOut, LedgerProofs!Holders,
         LedgerProofs!SeatsOf, Ledger!Cardinality, LedgerProofs!Cardinality
<1> QED
  BY <1>1, <1>2, LedgerRuns, Refinement, PTL

(* NeverOversold for the whole backend: no load of checkouts, however they  *)
(* overlap with releases, sells a seat that does not exist.                 *)
THEOREM NoOverselling == Spec => []NeverOversold
<1>1. LedgerProofs!Spec => []LedgerProofs!NeverOversold
  BY LedgerConstants, LedgerProofs!LedgerNeverOversold, PTL
<1>2. LedgerProofs!NeverOversold => NeverOversold
  BY DEF NeverOversold, Ledger!NeverOversold, Ledger!SeatsOut, Ledger!Holders, Ledger!SeatsOf,
         LedgerProofs!NeverOversold, LedgerProofs!SeatsOut, LedgerProofs!Holders,
         LedgerProofs!SeatsOf, Ledger!Cardinality, LedgerProofs!Cardinality
<1> QED
  BY <1>1, <1>2, LedgerRuns, Refinement, PTL
=============================================================================
