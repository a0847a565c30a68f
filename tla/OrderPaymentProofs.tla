------------------------- MODULE OrderPaymentProofs -------------------------
(***************************************************************************)
(* Money and tickets, for any number of orders and racing handlers: only   *)
(* an order whose payment settled is ever PAID, and its fulfilment starts  *)
(* once, in the step that sells it.  The second half is about the audit.   *)
(***************************************************************************)
EXTENDS OrderLifecycleProofs

(* The provider opens a session only after TX1 and only once; the answer a *)
(* worker carries is one the provider may have given; and the goroutine    *)
(* that issues tickets exists for sold orders only.                        *)
SessionsFollowReservation ==
  \A o \in Orders :
    checkout[o] \in {"idle", "turnedAway", "charging"} => session[o] = "none"

AnswersAreGenuine ==
  \A w \in Workers :
    worker[w].pc \in {"record", "apply"} =>
      worker[w].answer \in Notifications(session[worker[w].order])

FulfilmentFollowsSale ==
  \A o \in Orders : fulfil[o] # "none" => status[o] = "PAID"

PaymentInv ==
  SessionsFollowReservation /\ AnswersAreGenuine /\ PaidOnlyIfCollected /\ FulfilmentFollowsSale

(* How a session can move.                                                 *)
SessionMoves ==
  {<<"none", "open">>,
   <<"open", "settled">>, <<"open", "challenged">>, <<"open", "declined">>, <<"open", "expired">>,
   <<"challenged", "settled">>, <<"challenged", "declined">>}

(* What the provider said once it may still say later.                     *)
LEMMA NotificationsGrow ==
  ASSUME NEW s, NEW t, <<s, t>> \in SessionMoves
  PROVE  Notifications(s) \subseteq Notifications(t)
<1>1. /\ Before("none") = {} /\ Before("open") = {}
      /\ Before("challenged") = {"open"} /\ Before("expired") = {"open"}
      /\ Before("settled") = {"open", "challenged"} /\ Before("declined") = {"open", "challenged"}
  BY DEF Before
<1>2. Notifications("none") = {}
  BY <1>1 DEF Notifications, CurrentAnswers
<1>3. CASE s = "none"
  BY <1>2, <1>3
<1>4. CASE s = "open"
  <2>1. t \in {"settled", "challenged", "declined", "expired"}
    BY <1>4 DEF SessionMoves
  <2>2. Before(s) \cup {s} \subseteq Before(t) \cup {t}
    BY <1>1, <1>4, <2>1
  <2> QED
    BY <1>4, <2>2 DEF Notifications
<1>5. CASE s = "challenged"
  <2>1. t \in {"settled", "declined"}
    BY <1>5 DEF SessionMoves
  <2>2. Before(s) \cup {s} \subseteq Before(t) \cup {t}
    BY <1>1, <1>5, <2>1
  <2> QED
    BY <1>5, <2>2 DEF Notifications
<1> QED
  BY <1>3, <1>4, <1>5 DEF SessionMoves

(* What the provider's answers decide, and which answers those are.         *)
LEMMA AnswersDecide ==
  ASSUME NEW s \in Sessions, NEW answer \in Notifications(s)
  PROVE  LET to == MapProviderStatus(answer.transaction, answer.fraud).orderStatus IN
         /\ to = "PAID" => answer \in CurrentAnswers("settled") /\ s = "settled"
         /\ to = "CANCELLED" => answer \in CurrentAnswers("declined")
         /\ to = "EXPIRED" => answer \in CurrentAnswers("expired") /\ s = "expired"
<1> DEFINE To(a) == MapProviderStatus(a.transaction, a.fraud).orderStatus
<1>1. ASSUME NEW t, NEW f
      PROVE  SessionAnswer(t, f).transaction = t /\ SessionAnswer(t, f).fraud = f
  BY DEF SessionAnswer
<1>2. /\ MapProviderStatus("pending", "accept").orderStatus = Unchanged
      /\ MapProviderStatus("capture", "challenge").orderStatus = Unchanged
      /\ MapProviderStatus("other", "accept").orderStatus = Unchanged
      /\ MapProviderStatus("expire", "accept").orderStatus = "EXPIRED"
      /\ \A t \in {"settlement", "capture"} : MapProviderStatus(t, "accept").orderStatus = "PAID"
      /\ \A t \in {"deny", "cancel", "failure"} :
           MapProviderStatus(t, "accept").orderStatus = "CANCELLED"
  BY DEF MapProviderStatus, Sold, Released, NoDecision, Unrecognized, Unchanged
<1>3. ASSUME NEW a \in CurrentAnswers("open") \cup CurrentAnswers("challenged")
                        \cup {SessionAnswer("other", "accept")}
      PROVE  To(a) = Unchanged
  BY <1>1, <1>2 DEF CurrentAnswers
<1>4. ASSUME NEW a \in CurrentAnswers("settled") PROVE To(a) = "PAID"
  BY <1>1, <1>2, OrderLifecycleAssumption DEF CurrentAnswers, OrderLifecycleAssumption
<1>5. ASSUME NEW a \in CurrentAnswers("declined") PROVE To(a) = "CANCELLED"
  BY <1>1, <1>2, OrderLifecycleAssumption DEF CurrentAnswers, OrderLifecycleAssumption
<1>6. ASSUME NEW a \in CurrentAnswers("expired") PROVE To(a) = "EXPIRED"
  BY <1>1, <1>2 DEF CurrentAnswers
<1>7. CurrentAnswers("none") = {}
  BY DEF CurrentAnswers
<1>8. \/ answer \in CurrentAnswers("open") \cup CurrentAnswers("challenged")
                      \cup {SessionAnswer("other", "accept")}
      \/ answer \in CurrentAnswers("settled") /\ s = "settled"
      \/ answer \in CurrentAnswers("declined")
      \/ answer \in CurrentAnswers("expired") /\ s = "expired"
  <2>1. CASE answer = SessionAnswer("other", "accept")
    BY <2>1
  <2>2. ASSUME NEW t \in Before(s) \cup {s}, answer \in CurrentAnswers(t)
        PROVE  <1>8!1 \/ <1>8!2 \/ <1>8!3 \/ <1>8!4
    <3>1. t \in Sessions /\ (t \in {"settled", "expired"} => s = t)
      BY DEF Sessions, Before
    <3> QED
      BY <1>7, <2>2, <3>1 DEF Sessions
  <2> QED
    BY <2>1, <2>2 DEF Notifications
<1> HIDE DEF To
<1>9. /\ To(answer) = "PAID" => answer \in CurrentAnswers("settled") /\ s = "settled"
      /\ To(answer) = "CANCELLED" => answer \in CurrentAnswers("declined")
      /\ To(answer) = "EXPIRED" => answer \in CurrentAnswers("expired") /\ s = "expired"
  BY <1>3, <1>4, <1>5, <1>6, <1>8 DEF Unchanged
<1> QED
  BY <1>9 DEF To

(* Only a settled session can have said that the money is there.           *)
LEMMA SuccessMeansSettled ==
  ASSUME NEW s \in Sessions, NEW answer \in Notifications(s),
         MapProviderStatus(answer.transaction, answer.fraud).orderStatus = "PAID"
  PROVE  s = "settled"
BY AnswersDecide

LEMMA CurrentAnswersAreNotified ==
  ASSUME NEW s
  PROVE  CurrentAnswers(s) \subseteq Notifications(s)
BY DEF Notifications

-----------------------------------------------------------------------------
(* A step leaves a session alone or moves it along SessionMoves.           *)
LEMMA SessionStep ==
  ASSUME Inv, SessionsFollowReservation, [Next]_vars, NEW o \in Orders
  PROVE  session'[o] = session[o] \/ <<session[o], session'[o]>> \in SessionMoves
<1> USE DEF provider, SessionMoves
<1>1. ASSUME NEW p \in Orders, Checkout(p)
      PROVE  session'[o] = session[o] \/ <<session[o], session'[o]>> \in SessionMoves
  <2>1. CASE CreateTransaction(p) \/ CreateTransactionFails(p)
    BY <2>1 DEF CreateTransaction, CreateTransactionFails, OpenSession, SessionsFollowReservation,
                Inv, TypeOK
  <2> QED
    BY <1>1, <2>1 DEF Checkout, ReserveOnce, InsufficientQuota, Compensate, CompensateFails,
                      UpdatePaymentDetails, UpdatePaymentDetailsFails
<1>2. ASSUME NEW p \in Orders, Provider(p)
      PROVE  session'[o] = session[o] \/ <<session[o], session'[o]>> \in SessionMoves
  BY <1>2 DEF Provider, GuestPays, ProviderReviews, ProviderDeclines, ProviderExpires,
              MoveSession, Inv, TypeOK
<1>3. ASSUME NEW p \in Orders, FulfillAsync(p) PROVE session' = session
  BY <1>3 DEF FulfillAsync, IssueTickets, IssueTicketsFails, SendTicketEmail,
              SendTicketEmailFails, FulfilStep
<1>4. ASSUME NEW w \in Workers, Serve(w) PROVE session' = session
  BY <1>4 DEF Serve, Proceed, HandleNotification, RefreshStatus, RefreshExpires, RefreshNotDue,
              FetchStatus, RecordAnswer, ApplyAnswer, RequestFails
<1>5. CASE Sweeper
  BY <1>5 DEF Sweeper, ListDueOrders, ExpireDueOrder, ExpireDueOrderFails
<1>6. CASE Tick \/ Crash \/ UNCHANGED vars
  BY <1>6 DEF Tick, Crash, vars
<1> QED
  BY <1>1, <1>2, <1>3, <1>4, <1>5, <1>6 DEF Next

(* A step leaves the answer a worker is about to use alone, or hands it an *)
(* answer the provider may just have given.                                *)
LEMMA AnswerStep ==
  ASSUME Inv, AnswersAreGenuine, [Next]_vars, NEW w \in Workers,
         worker'[w].pc \in {"record", "apply"}
  PROVE  /\ worker'[w].order \in Orders
         /\ worker'[w].answer \in Notifications(session[worker'[w].order])
<1> DEFINE Genuine == /\ worker'[w].order \in Orders
                      /\ worker'[w].answer \in Notifications(session[worker'[w].order])
<1>1. CASE worker'[w] = worker[w]
  BY <1>1, JobFields DEF AnswersAreGenuine
<1>2. ASSUME NEW v \in Workers, NEW job, Become(v, job), v # w PROVE worker'[w] = worker[w]
  BY <1>2 DEF Become, Inv, TypeOK
<1>3. ASSUME NEW job, Become(w, job) PROVE worker'[w] = job
  BY <1>3 DEF Become, Inv, TypeOK
<1>4. ASSUME Become(w, Idle) PROVE FALSE
  BY <1>3, <1>4 DEF Idle
<1>5. ASSUME NEW v \in Workers, Serve(v) PROVE Genuine
  <2>1. PICK given : Become(v, given)
    BY <1>5 DEF Serve, Proceed, HandleNotification, RefreshStatus, RefreshExpires, RefreshNotDue,
                FetchStatus, RecordAnswer, ApplyAnswer, RequestFails
  <2>2. CASE v # w
    BY <1>1, <1>2, <2>1, <2>2
  <2>3. CASE v = w
    <3>1. ASSUME NEW o \in Orders, NEW answer \in Answer, HandleNotification(w, o, answer)
          PROVE  Genuine
      BY <1>3, <3>1 DEF HandleNotification
    <3>2. ASSUME NEW o \in Orders, RefreshStatus(w, o) PROVE FALSE
      BY <1>3, <3>2 DEF RefreshStatus
    <3>3. CASE RefreshNotDue(w)
      BY <1>3, <3>3, JobFields DEF RefreshNotDue, Job
    <3>4. CASE RefreshExpires(w)
      <4>1. worker[w] \in Job
        BY <3>4, JobFields DEF RefreshExpires
      <4>2. Become(w, [worker[w] EXCEPT !.pc = "fetch"])
        BY <1>4, <3>4 DEF RefreshExpires
      <4> QED
        BY <1>3, <4>1, <4>2 DEF Job
    <3>5. CASE FetchStatus(w)
      <4>1. worker[w] \in Job /\ worker[w].order \in Orders
        BY <3>5, JobFields DEF FetchStatus
      <4>2. PICK answer \in CurrentAnswers(session[worker[w].order]) :
              Become(w, [worker[w] EXCEPT !.pc = "record", !.answer = answer])
        BY <1>4, <3>5 DEF FetchStatus
      <4> DEFINE job == [worker[w] EXCEPT !.pc = "record", !.answer = answer]
      <4>3. answer \in Notifications(session[worker[w].order])
        BY <4>2, CurrentAnswersAreNotified
      <4>4. worker'[w] = job
        BY <1>3, <4>2
      <4>5. job.order = worker[w].order /\ job.answer = answer
        BY <4>1 DEF Job
      <4> QED
        BY <4>1, <4>3, <4>4, <4>5
    <3>6. CASE RecordAnswer(w)
      <4>1. worker[w] \in Job /\ worker[w].order \in Orders
        BY <3>6, JobFields DEF RecordAnswer
      <4>2. worker'[w] = [worker[w] EXCEPT !.pc = "apply"]
        BY <1>3, <1>4, <3>6 DEF RecordAnswer
      <4>3. worker[w].answer \in Notifications(session[worker[w].order])
        BY <3>6 DEF RecordAnswer, AnswersAreGenuine
      <4> QED
        BY <4>1, <4>2, <4>3 DEF Job
    <3>7. CASE ApplyAnswer(w) \/ RequestFails(w)
      BY <1>4, <3>7 DEF ApplyAnswer, RequestFails
    <3> QED
      BY <1>5, <2>3, <3>1, <3>2, <3>3, <3>4, <3>5, <3>6, <3>7 DEF Serve, Proceed
  <2> QED
    BY <2>2, <2>3
<1>6. CASE Crash
  BY <1>6 DEF Crash, Idle
<1>7. ASSUME NEW p \in Orders, Checkout(p) PROVE worker' = worker
  BY <1>7 DEF Checkout, ReserveOnce, InsufficientQuota, CreateTransaction,
              CreateTransactionFails, Compensate, CompensateFails, UpdatePaymentDetails,
              UpdatePaymentDetailsFails
<1>8. ASSUME NEW p \in Orders, Provider(p) PROVE worker' = worker
  BY <1>8 DEF Provider, GuestPays, ProviderReviews, ProviderDeclines, ProviderExpires,
              MoveSession, memory
<1>9. ASSUME NEW p \in Orders, FulfillAsync(p) PROVE worker' = worker
  BY <1>9 DEF FulfillAsync, IssueTickets, IssueTicketsFails, SendTicketEmail,
              SendTicketEmailFails, FulfilStep
<1>10. CASE Sweeper \/ Tick \/ UNCHANGED vars
  BY <1>1, <1>10 DEF Sweeper, ListDueOrders, ExpireDueOrder, ExpireDueOrderFails, Tick, vars, memory
<1> QED
  BY <1>1, <1>5, <1>6, <1>7, <1>8, <1>9, <1>10 DEF Next

-----------------------------------------------------------------------------
(* The four parts of the invariant, each kept by every step. *)
LEMMA SessionsStillFollow ==
  ASSUME Inv, SessionsFollowReservation, [Next]_vars
  PROVE  SessionsFollowReservation'
<1> USE DEF SessionsFollowReservation, Inv, TypeOK, provider, memory
<1>1. ASSUME NEW o \in Orders, Checkout(o) PROVE SessionsFollowReservation'
  BY <1>1 DEF Checkout, ReserveOnce, InsufficientQuota, CreateTransaction,
              CreateTransactionFails, Compensate, CompensateFails, UpdatePaymentDetails,
              UpdatePaymentDetailsFails, OpenSession
<1>2. ASSUME NEW o \in Orders, Provider(o) PROVE SessionsFollowReservation'
  BY <1>2 DEF Provider, GuestPays, ProviderReviews, ProviderDeclines, ProviderExpires, MoveSession
<1>3. ASSUME NEW o \in Orders, FulfillAsync(o) PROVE SessionsFollowReservation'
  BY <1>3 DEF FulfillAsync, IssueTickets, IssueTicketsFails, SendTicketEmail,
              SendTicketEmailFails, FulfilStep
<1>4. ASSUME NEW w \in Workers, Serve(w) PROVE SessionsFollowReservation'
  BY <1>4 DEF Serve, Proceed, HandleNotification, RefreshStatus, RefreshExpires, RefreshNotDue,
              FetchStatus, RecordAnswer, ApplyAnswer, RequestFails
<1>5. CASE Sweeper
  BY <1>5 DEF Sweeper, ListDueOrders, ExpireDueOrder, ExpireDueOrderFails
<1>6. CASE Crash
  BY <1>6 DEF Crash, InFlight
<1>7. CASE Tick \/ UNCHANGED vars
  BY <1>7 DEF Tick, vars
<1> QED
  BY <1>1, <1>2, <1>3, <1>4, <1>5, <1>6, <1>7 DEF Next

LEMMA AnswersStayGenuine ==
  ASSUME Inv, Inv', SessionsFollowReservation, AnswersAreGenuine, [Next]_vars
  PROVE  AnswersAreGenuine'
<1> SUFFICES ASSUME NEW w \in Workers, worker'[w].pc \in {"record", "apply"}
             PROVE  worker'[w].answer \in Notifications(session'[worker'[w].order])
  BY DEF AnswersAreGenuine
<1>1. /\ worker'[w].order \in Orders
      /\ worker'[w].answer \in Notifications(session[worker'[w].order])
  BY AnswerStep
<1>2. PICK o \in Orders : o = worker'[w].order
  BY <1>1
<1>3. session'[o] = session[o] \/ <<session[o], session'[o]>> \in SessionMoves
  BY SessionStep
<1>4. Notifications(session[o]) \subseteq Notifications(session'[o])
  BY <1>3, NotificationsGrow, Zenon
<1> QED
  BY <1>1, <1>2, <1>4

(* An order is sold only by a worker whose answer says so; fulfilment only *)
(* starts in that step.                                                    *)
LEMMA SaleStep ==
  ASSUME Inv, AnswersAreGenuine, [Next]_vars, NEW o \in Orders,
         status'[o] = "PAID", status[o] # "PAID"
  PROVE  status[o] = "PENDING" /\ session[o] = "settled"
<1> USE DEF database
<1>1. ASSUME NEW p \in Orders, ReserveOnce(p) PROVE FALSE
  BY <1>1 DEF ReserveOnce, Inv, TypeOK
<1>2. ASSUME NEW p \in Orders, NEW s \in {"CANCELLED", "EXPIRED"}, ApplyOutcome(p, Released(s))
      PROVE  FALSE
  BY <1>2 DEF ApplyOutcome, Released, Inv, TypeOK
<1>3. ASSUME NEW p \in Orders, Checkout(p) PROVE FALSE
  BY <1>1, <1>2, <1>3
  DEF Checkout, InsufficientQuota, CreateTransaction, CreateTransactionFails, Compensate,
      CompensateFails, UpdatePaymentDetails, UpdatePaymentDetailsFails
<1>4. ASSUME NEW p \in Orders, Provider(p) PROVE FALSE
  BY <1>4 DEF Provider, GuestPays, ProviderReviews, ProviderDeclines, ProviderExpires, MoveSession
<1>5. ASSUME NEW p \in Orders, FulfillAsync(p) PROVE FALSE
  BY <1>5 DEF FulfillAsync, IssueTickets, IssueTicketsFails, SendTicketEmail,
              SendTicketEmailFails, FulfilStep
<1>6. ASSUME NEW w \in Workers, ApplyAnswer(w)
      PROVE  status[o] = "PENDING" /\ session[o] = "settled"
  <2>1. worker[w].order \in Orders /\ worker[w].pc = "apply"
    BY <1>6, ApplyAnswerIsDecisive DEF ApplyAnswer
  <2>2. worker[w].order = o /\ status[o] = "PENDING" /\ Decision(worker[w]).orderStatus = "PAID"
    BY <1>6, <2>1 DEF ApplyAnswer, ApplyOutcome, Inv, TypeOK
  <2>3. worker[w].answer \in Notifications(session[o]) /\ session[o] \in Sessions
    BY <2>1, <2>2 DEF AnswersAreGenuine, Inv, TypeOK
  <2> QED
    BY <2>2, <2>3, SuccessMeansSettled DEF Decision
<1>7. ASSUME NEW w \in Workers, Serve(w), ~ApplyAnswer(w) PROVE FALSE
  <2>1. CASE RefreshExpires(w)
    BY <1>2, <2>1, JobFields DEF RefreshExpires
  <2> QED
    BY <1>7, <2>1 DEF Serve, Proceed, HandleNotification, RefreshStatus,
                      RefreshNotDue, FetchStatus, RecordAnswer, RequestFails
<1>8. CASE Sweeper
  BY <1>2, <1>8 DEF Sweeper, ListDueOrders, ExpireDueOrder, ExpireDueOrderFails
<1>9. CASE Tick \/ Crash \/ UNCHANGED vars
  BY <1>9 DEF Tick, Crash, vars
<1> QED
  BY <1>3, <1>4, <1>5, <1>6, <1>7, <1>8, <1>9 DEF Next

LEMMA FulfilmentStarts ==
  ASSUME Inv, [Next]_vars, NEW o \in Orders, fulfil'[o] # "none", fulfil[o] = "none"
  PROVE  /\ status[o] = "PENDING" /\ status'[o] = "PAID"
<1> USE DEF memory
<1>1. ASSUME NEW p \in Orders, Checkout(p) PROVE FALSE
  BY <1>1 DEF Checkout, ReserveOnce, InsufficientQuota, CreateTransaction,
              CreateTransactionFails, Compensate, CompensateFails, UpdatePaymentDetails,
              UpdatePaymentDetailsFails
<1>2. ASSUME NEW p \in Orders, Provider(p) PROVE FALSE
  BY <1>2 DEF Provider, GuestPays, ProviderReviews, ProviderDeclines, ProviderExpires, MoveSession
<1>3. ASSUME NEW p \in Orders, FulfillAsync(p) PROVE FALSE
  BY <1>3 DEF FulfillAsync, IssueTickets, IssueTicketsFails, SendTicketEmail,
              SendTicketEmailFails, FulfilStep, Inv, TypeOK
<1>4. ASSUME NEW w \in Workers, ApplyAnswer(w)
      PROVE  status[o] = "PENDING" /\ status'[o] = "PAID"
  <2>1. worker[w].order \in Orders
    BY <1>4, ApplyAnswerIsDecisive DEF ApplyAnswer
  <2> QED
    BY <1>4, <2>1 DEF ApplyAnswer, ApplyOutcome, Inv, TypeOK
<1>5. ASSUME NEW w \in Workers, Serve(w), ~ApplyAnswer(w) PROVE FALSE
  BY <1>5 DEF Serve, Proceed, HandleNotification, RefreshStatus, RefreshExpires,
              RefreshNotDue, FetchStatus, RecordAnswer, RequestFails
<1>6. CASE Sweeper \/ Tick \/ UNCHANGED vars
  BY <1>6 DEF Sweeper, ListDueOrders, ExpireDueOrder, ExpireDueOrderFails, Tick, vars
<1>7. CASE Crash
  BY <1>7 DEF Crash
<1> QED
  BY <1>1, <1>2, <1>3, <1>4, <1>5, <1>6, <1>7 DEF Next

(* A goroutine that ran does not start over. *)
LEMMA NoRestart ==
  ASSUME Inv, [Next]_vars, NEW o \in Orders, status[o] = "PAID", fulfil[o] # "issuing"
  PROVE  fulfil'[o] # "issuing"
<1> USE DEF memory
<1>1. ASSUME NEW p \in Orders, Checkout(p) PROVE fulfil' = fulfil
  BY <1>1 DEF Checkout, ReserveOnce, InsufficientQuota, CreateTransaction,
              CreateTransactionFails, Compensate, CompensateFails, UpdatePaymentDetails,
              UpdatePaymentDetailsFails
<1>2. ASSUME NEW p \in Orders, Provider(p) PROVE fulfil' = fulfil
  BY <1>2 DEF Provider, GuestPays, ProviderReviews, ProviderDeclines, ProviderExpires, MoveSession
<1>3. ASSUME NEW p \in Orders, FulfillAsync(p) PROVE fulfil'[o] # "issuing"
  BY <1>3 DEF FulfillAsync, IssueTickets, IssueTicketsFails, SendTicketEmail,
              SendTicketEmailFails, FulfilStep, Inv, TypeOK
<1>4. ASSUME NEW w \in Workers, ApplyAnswer(w) PROVE fulfil'[o] # "issuing"
  <2>1. worker[w].order \in Orders
    BY <1>4, ApplyAnswerIsDecisive DEF ApplyAnswer
  <2> QED
    BY <1>4, <2>1 DEF ApplyAnswer, Inv, TypeOK
<1>5. ASSUME NEW w \in Workers, Serve(w), ~ApplyAnswer(w) PROVE fulfil' = fulfil
  BY <1>5 DEF Serve, Proceed, HandleNotification, RefreshStatus, RefreshExpires,
              RefreshNotDue, FetchStatus, RecordAnswer, RequestFails
<1>6. CASE Sweeper \/ Tick \/ UNCHANGED vars
  BY <1>6 DEF Sweeper, ListDueOrders, ExpireDueOrder, ExpireDueOrderFails, Tick, vars
<1>7. CASE Crash
  BY <1>7 DEF Crash, Inv, TypeOK, FulfilSteps
<1> QED
  BY <1>1, <1>2, <1>3, <1>4, <1>5, <1>6, <1>7 DEF Next

LEMMA SalesAreFinal ==
  ASSUME Inv, [Next]_vars, NEW o \in Orders, status[o] = "PAID"
  PROVE  status'[o] = "PAID"
<1>1. ASSUME NEW p \in Orders, ReserveOnce(p) PROVE status'[o] = "PAID"
  BY <1>1 DEF ReserveOnce, Inv, NoRowBeforeCheckout, TypeOK
<1>2. ASSUME NEW p \in Orders, NEW outcome \in Decisive, ApplyOutcome(p, outcome)
      PROVE  status'[o] = "PAID"
  BY <1>2 DEF ApplyOutcome, Inv, TypeOK
<1> QED
  BY <1>1, <1>2, EveryStepIsASeatStep DEF SeatStep

THEOREM PaymentInvariance == Spec => []PaymentInv
<1>1. Init => PaymentInv
  BY DEF Init, PaymentInv, SessionsFollowReservation, AnswersAreGenuine, PaidOnlyIfCollected,
         FulfilmentFollowsSale, Idle
<1>2. Inv /\ Inv' /\ PaymentInv /\ [Next]_vars => PaymentInv'
  <2> SUFFICES ASSUME Inv, Inv', PaymentInv, [Next]_vars PROVE PaymentInv'
    OBVIOUS
  <2> USE DEF PaymentInv
  <2>1. SessionsFollowReservation'
    BY SessionsStillFollow
  <2>2. AnswersAreGenuine'
    BY AnswersStayGenuine
  <2>3. PaidOnlyIfCollected'
    <3> SUFFICES ASSUME NEW o \in Orders, status'[o] = "PAID" PROVE session'[o] = "settled"
      BY DEF PaidOnlyIfCollected
    <3>1. session[o] = "settled"
      BY SaleStep DEF PaidOnlyIfCollected
    <3> QED
      BY <3>1, SessionStep DEF SessionMoves
  <2>4. FulfilmentFollowsSale'
    <3> SUFFICES ASSUME NEW o \in Orders, fulfil'[o] # "none" PROVE status'[o] = "PAID"
      BY DEF FulfilmentFollowsSale
    <3> QED
      BY FulfilmentStarts, SalesAreFinal DEF FulfilmentFollowsSale
  <2> QED
    BY <2>1, <2>2, <2>3, <2>4
<1> QED
  BY <1>1, <1>2, Invariance, PTL DEF Spec

(* PaidOnlyIfCollected: no order is sold unless its payment settled at the  *)
(* provider, for any number of webhooks and status checks in any order.     *)
THEOREM PaidMeansCollected == Spec => []PaidOnlyIfCollected
<1>1. PaymentInv => PaidOnlyIfCollected
  BY DEF PaymentInv
<1> QED
  BY <1>1, PaymentInvariance, PTL

(* FulfilledOncePerSale: tickets are issued by one goroutine per order,     *)
(* started by the one handler whose transition sold it.                     *)
THEOREM FulfilmentOnce == Spec => FulfilledOncePerSale
<1>1. Inv /\ PaymentInv /\ [Next]_vars => [\A o \in Orders :
        fulfil'[o] = "issuing" /\ fulfil[o] # "issuing" =>
          fulfil[o] = "none" /\ status[o] = "PENDING" /\ status'[o] = "PAID"]_vars
  <2> SUFFICES ASSUME Inv, PaymentInv, [Next]_vars, NEW o \in Orders,
                      fulfil'[o] = "issuing", fulfil[o] # "issuing"
               PROVE  fulfil[o] = "none" /\ status[o] = "PENDING" /\ status'[o] = "PAID"
    OBVIOUS
  <2>1. CASE fulfil[o] = "none"
    BY <2>1, FulfilmentStarts
  <2>2. CASE fulfil[o] # "none"
    <3>1. status[o] = "PAID"
      BY <2>2 DEF PaymentInv, FulfilmentFollowsSale
    <3>2. fulfil'[o] # "issuing"
      BY <2>2, <3>1, NoRestart
    <3> QED
      BY <3>2
  <2> QED
    BY <2>1, <2>2
<1> QED
  BY <1>1, Invariance, PaymentInvariance, PTL DEF Spec, FulfilledOncePerSale

-----------------------------------------------------------------------------
(***************************************************************************)
(* The audit: why an order ended as it did.  The payments table explains   *)
(* what the provider decided, no order expires early, and no alarm is      *)
(* false.  What a handler has read before is still true when it acts on    *)
(* it, because settled statuses, rows of payments and recorded deadlines   *)
(* are never changed.                                                      *)
(***************************************************************************)
(* A deadline is recorded by the checkout's last step, an order's row comes *)
(* with its first, and the sweeper's batch is made of overdue orders.       *)
DeadlineIsLast ==
  \A o \in Orders : deadline[o] # 0 => checkout[o] = "accepted"

RowsFollowReservation ==
  \A o \in Orders : status[o] = "NONE" => checkout[o] \in {"idle", "turnedAway"}

BatchIsDue == \A o \in sweep : PastDeadline(deadline[o])

(* What a handler has read and is going to rely on.                         *)
JobsKnow ==
  \A w \in Workers :
    LET job == worker[w]
        o == job.order
    IN /\ job.pc = "checkDue" /\ job.due # 0 => deadline[o] = job.due
       /\ job.pc \in {"checkDue", "fetch"} => job.seen = "PENDING"
       /\ job.pc = "record" =>
            job.seen # "NONE" /\ (job.seen \in SettledStatuses => status[o] = job.seen)
       /\ job.pc = "apply" => job.answer \in payments[o]

AuditInv ==
  /\ DeadlineIsLast /\ RowsFollowReservation /\ BatchIsDue /\ JobsKnow
  /\ DecisionsAreAudited /\ NeverExpiredEarly /\ AlertsAreReal

LEMMA SilentBeforeSession ==
  ASSUME NEW s \in Sessions, Notifications(s) # {}
  PROVE  s # "none"
BY DEF Sessions, Notifications, Before, CurrentAnswers

-----------------------------------------------------------------------------
(* What does not change any more.                                          *)
LEMMA SettledStays ==
  ASSUME Inv, [Next]_vars, NEW o \in Orders, status[o] \in SettledStatuses
  PROVE  status'[o] = status[o]
<1>1. status[o] # "NONE" /\ status[o] # "PENDING"
  BY DEF SettledStatuses
<1>2. ASSUME NEW p \in Orders, ReserveOnce(p) PROVE status'[o] = status[o]
  BY <1>1, <1>2 DEF ReserveOnce, Inv, NoRowBeforeCheckout, TypeOK
<1>3. ASSUME NEW p \in Orders, NEW outcome \in Decisive, ApplyOutcome(p, outcome)
      PROVE  status'[o] = status[o]
  BY <1>1, <1>3 DEF ApplyOutcome, Inv, TypeOK
<1> QED
  BY <1>2, <1>3, EveryStepIsASeatStep DEF SeatStep

(* The steps, by what they leave alone.                                    *)
LEMMA StepsByEffect ==
  ASSUME [Next]_vars
  PROVE  \/ \E o \in Orders : Checkout(o) /\ UNCHANGED <<payments, worker, sweep, alerts, clock>>
         \/ \E w \in Workers : Serve(w) /\ UNCHANGED <<deadline, checkout, sweep, clock, session>>
         \/ Sweeper /\ UNCHANGED <<deadline, payments, checkout, worker, alerts, clock>>
         \/ Crash /\ UNCHANGED <<status, deadline, payments, alerts, clock, session>>
         \/ UNCHANGED <<status, deadline, payments, checkout, worker, sweep, alerts>> /\ clock' = clock
         \/ Tick /\ UNCHANGED <<status, deadline, payments, checkout, worker, sweep, alerts>>
<1> USE DEF database, provider, memory
<1>1. ASSUME NEW o \in Orders, Checkout(o)
      PROVE  UNCHANGED <<payments, worker, sweep, alerts, clock>>
  BY <1>1 DEF Checkout, ReserveOnce, InsufficientQuota, CreateTransaction,
              CreateTransactionFails, Compensate, CompensateFails, UpdatePaymentDetails,
              UpdatePaymentDetailsFails
<1>2. ASSUME NEW w \in Workers, Serve(w)
      PROVE  UNCHANGED <<deadline, checkout, sweep, clock, session>>
  BY <1>2 DEF Serve, Proceed, HandleNotification, RefreshStatus, RefreshExpires, RefreshNotDue,
              FetchStatus, RecordAnswer, ApplyAnswer, RequestFails
<1>3. Sweeper => UNCHANGED <<deadline, payments, checkout, worker, alerts, clock>>
  BY DEF Sweeper, ListDueOrders, ExpireDueOrder, ExpireDueOrderFails
<1>4. Crash => UNCHANGED <<status, deadline, payments, alerts, clock, session>>
  BY DEF Crash
<1>5. ASSUME NEW o \in Orders, Provider(o)
      PROVE  UNCHANGED <<status, deadline, payments, checkout, worker, sweep, alerts, clock>>
  BY <1>5 DEF Provider, GuestPays, ProviderReviews, ProviderDeclines, ProviderExpires, MoveSession
<1>6. ASSUME NEW o \in Orders, FulfillAsync(o)
      PROVE  UNCHANGED <<status, deadline, payments, checkout, worker, sweep, alerts, clock>>
  BY <1>6 DEF FulfillAsync, IssueTickets, IssueTicketsFails, SendTicketEmail,
              SendTicketEmailFails, FulfilStep
<1>7. Tick => UNCHANGED <<status, deadline, payments, checkout, worker, sweep, alerts>>
  BY DEF Tick
<1>8. UNCHANGED vars =>
        UNCHANGED <<status, deadline, payments, checkout, worker, sweep, alerts, clock>>
  BY DEF vars
<1> QED
  BY <1>1, <1>2, <1>3, <1>4, <1>5, <1>6, <1>7, <1>8 DEF Next

LEMMA RecordsStay ==
  ASSUME Inv, DeadlineIsLast, [Next]_vars, NEW o \in Orders
  PROVE  /\ payments[o] \subseteq payments'[o]
         /\ deadline[o] # 0 => deadline'[o] = deadline[o]
         /\ checkout[o] = "refused" => checkout'[o] = "refused"
         /\ PastDeadline(deadline[o]) => PastDeadline(deadline[o])'
<1> DEFINE Stay == /\ payments[o] \subseteq payments'[o]
                   /\ deadline[o] # 0 => deadline'[o] = deadline[o]
                   /\ checkout[o] = "refused" => checkout'[o] = "refused"
                   /\ clock <= clock'
<1>0. TypeOK /\ clock \in Nat
  BY DEF Inv, TypeOK
<1>1. ASSUME NEW p \in Orders, Checkout(p), UNCHANGED <<payments, clock>>
      PROVE  Stay
  BY <1>0, <1>1 DEF DeadlineIsLast, TypeOK, database, Checkout, ReserveOnce, InsufficientQuota,
     CreateTransaction, CreateTransactionFails, Compensate, CompensateFails,
     UpdatePaymentDetails, UpdatePaymentDetailsFails
<1>2. ASSUME NEW w \in Workers, Serve(w), UNCHANGED <<deadline, checkout, clock>>
      PROVE  Stay
  <2>1. ASSUME RecordAnswer(w)
        PROVE  payments[o] \subseteq payments'[o]
    BY <1>0, <2>1 DEF RecordAnswer, TypeOK
  <2>2. RecordAnswer(w) \/ payments' = payments
    BY <1>2
    DEF Serve, Proceed, HandleNotification, RefreshStatus, RefreshExpires, RefreshNotDue,
        FetchStatus, ApplyAnswer, RequestFails, database
  <2> QED
    BY <1>0, <1>2, <2>1, <2>2
<1>3. ASSUME Crash, UNCHANGED <<deadline, payments, clock>>
      PROVE  Stay
  BY <1>0, <1>3 DEF Crash, InFlight
<1>4. ASSUME Tick, UNCHANGED <<deadline, payments, checkout>>
      PROVE  Stay
  BY <1>0, <1>4 DEF Tick, TypeOK
<1>5. ASSUME UNCHANGED <<deadline, payments, checkout, clock>>
      PROVE  Stay
  BY <1>0, <1>5
<1>6. Stay
  BY <1>1, <1>2, <1>3, <1>4, <1>5, StepsByEffect
<1>7. clock \in Nat /\ clock' \in Nat /\ deadline[o] \in Nat
  <2>1. clock' \in Nat
    BY <1>0, StepsByEffect DEF Tick, TypeOK
  <2> QED
    BY <1>0, <2>1 DEF TypeOK
<1> QED
  BY <1>6, <1>7 DEF PastDeadline

-----------------------------------------------------------------------------
(* Checkouts, the sweeper and crashes keep rows and deadlines in step.     *)
LEMMA RowsStillFollow ==
  ASSUME Inv, DeadlineIsLast, RowsFollowReservation, [Next]_vars
  PROVE  DeadlineIsLast' /\ RowsFollowReservation'
<1> DEFINE Goal == DeadlineIsLast' /\ RowsFollowReservation'
<1> USE DEF DeadlineIsLast, RowsFollowReservation
<1>0. TypeOK
  BY DEF Inv
<1>1. ASSUME NEW o \in Orders, Checkout(o) PROVE Goal
  <2>1. CASE Compensate(o)
    BY <1>0, <2>1 DEF Compensate, ApplyOutcome, Released, TypeOK
  <2> QED
    BY <1>0, <1>1, <2>1
    DEF Checkout, ReserveOnce, InsufficientQuota, CreateTransaction, CreateTransactionFails,
        CompensateFails, UpdatePaymentDetails, UpdatePaymentDetailsFails, TypeOK, database
<1>2. \A o \in Orders : status'[o] = "NONE" => status[o] = "NONE"
  <2>1. ASSUME NEW p \in Orders, ReserveOnce(p), NEW o \in Orders, status'[o] = "NONE"
        PROVE  status[o] = "NONE"
    BY <1>0, <2>1 DEF ReserveOnce, TypeOK
  <2>2. ASSUME NEW p \in Orders, NEW outcome \in Decisive, ApplyOutcome(p, outcome),
               NEW o \in Orders, status'[o] = "NONE"
        PROVE  status[o] = "NONE"
    BY <1>0, <2>2 DEF ApplyOutcome, Decisive, Sold, Released, TypeOK
  <2> QED
    BY <2>1, <2>2, EveryStepIsASeatStep DEF SeatStep
<1>3. ASSUME UNCHANGED <<deadline, checkout>> PROVE Goal
  BY <1>2, <1>3
<1>4. ASSUME Crash, UNCHANGED <<status, deadline>> PROVE Goal
  BY <1>0, <1>4 DEF Crash, InFlight
<1> QED
  BY <1>1, <1>3, <1>4, StepsByEffect

LEMMA BatchStaysDue ==
  ASSUME Inv, DeadlineIsLast, BatchIsDue, [Next]_vars
  PROVE  BatchIsDue'
<1>1. sweep \subseteq Orders
  BY DEF Inv, TypeOK
<1>2. ASSUME NEW o \in Orders, PastDeadline(deadline[o])
      PROVE  PastDeadline(deadline[o])'
  BY <1>2, RecordsStay
<1>3. ASSUME sweep' \subseteq sweep PROVE BatchIsDue'
  BY <1>1, <1>2, <1>3 DEF BatchIsDue
<1>4. ASSUME ListDueOrders PROVE BatchIsDue'
  <2>1. \A o \in sweep' : o \in Orders /\ PastDeadline(deadline[o])
    BY <1>4 DEF ListDueOrders, DueForExpiry, Due
  <2> QED
    BY <1>2, <2>1 DEF BatchIsDue
<1>5. Sweeper => ListDueOrders \/ sweep' \subseteq sweep
  BY DEF Sweeper, ExpireDueOrder, ExpireDueOrderFails
<1>6. Crash => sweep' \subseteq sweep
  BY DEF Crash
<1> QED
  BY <1>3, <1>4, <1>5, <1>6, StepsByEffect

(* An order for which the provider has an answer exists.                   *)
LEMMA AnsweredOrdersExist ==
  ASSUME Inv, PaymentInv, RowsFollowReservation, NEW o \in Orders, session[o] # "none"
  PROVE  status[o] # "NONE"
BY DEF PaymentInv, SessionsFollowReservation, RowsFollowReservation

(* What a handler has read stays true until it uses it.                    *)
Knows(job) ==
  LET o == job.order IN
  /\ job.pc = "checkDue" /\ job.due # 0 => deadline[o] = job.due
  /\ job.pc \in {"checkDue", "fetch"} => job.seen = "PENDING"
  /\ job.pc = "record" =>
       job.seen # "NONE" /\ (job.seen \in SettledStatuses => status[o] = job.seen)
  /\ job.pc = "apply" => job.answer \in payments[o]

LEMMA KnowledgeStays ==
  ASSUME Inv, DeadlineIsLast, [Next]_vars, NEW job \in Job, Knows(job)
  PROVE  Knows(job)'
<1>1. PICK o \in Orders : o = job.order
  BY DEF Job
<1>2. /\ payments[o] \subseteq payments'[o]
      /\ deadline[o] # 0 => deadline'[o] = deadline[o]
      /\ status[o] \in SettledStatuses => status'[o] = status[o]
  BY RecordsStay, SettledStays
<1> QED
  BY <1>1, <1>2 DEF Knows

(* A handler learns what is so.                                            *)
LEMMA LearnsTruth ==
  ASSUME Inv, PaymentInv, AuditInv, NEW w \in Workers, Serve(w)
  PROVE  /\ \A v \in Workers \ {w} : worker'[v] = worker[v]
         /\ Knows(worker[w])'
<1> DEFINE Learns == Knows(worker[w])'
<1>0. Idle.pc = "idle" /\ (worker[w] # Idle => worker[w] \in Job /\ Knows(worker[w]))
  BY DEF Inv, TypeOK, AuditInv, JobsKnow, Knows, Idle
<1>1. ASSUME NEW job, Become(w, job) PROVE worker'[w] = job
  BY <1>1 DEF Become, Inv, TypeOK
<1>2. ASSUME Become(w, Idle) PROVE Learns
  BY <1>0, <1>1, <1>2 DEF Knows
<1>3. ASSUME NEW o \in Orders, NEW answer \in Answer, HandleNotification(w, o, answer)
      PROVE  Learns
  <2>1. worker'[w] = [pc |-> "record", order |-> o, seen |-> status[o], due |-> 0, answer |-> answer]
        /\ status' = status
    BY <1>1, <1>3 DEF HandleNotification, database
  <2>2. session[o] \in Sessions /\ Notifications(session[o]) # {}
    BY <1>3 DEF HandleNotification, Inv, TypeOK
  <2>3. status[o] # "NONE"
    BY <2>2, SilentBeforeSession, AnsweredOrdersExist DEF AuditInv
  <2> QED
    BY <2>1, <2>3 DEF Knows
<1>4. ASSUME NEW o \in Orders, RefreshStatus(w, o)
      PROVE  Learns
  <2>1. worker'[w] = [pc |-> "checkDue", order |-> o, seen |-> "PENDING", due |-> deadline[o], answer |-> None]
        /\ deadline' = deadline
    BY <1>1, <1>4 DEF RefreshStatus, database
  <2> QED
    BY <2>1 DEF Knows
<1>5. ASSUME RefreshExpires(w) \/ RefreshNotDue(w)
      PROVE  Learns
  <2> DEFINE job == [worker[w] EXCEPT !.pc = "fetch"]
  <2>1. Become(w, Idle) \/ Become(w, job)
    BY <1>5 DEF RefreshExpires, RefreshNotDue
  <2>2. worker[w] \in Job /\ worker[w].seen = "PENDING"
    BY <1>0, <1>5 DEF RefreshExpires, RefreshNotDue, Knows
  <2>3. job.pc = "fetch" /\ job.seen = "PENDING"
    BY <2>2 DEF Job
  <2> HIDE DEF job
  <2>4. CASE Become(w, job)
    BY <1>1, <2>3, <2>4 DEF Knows
  <2> QED
    BY <1>2, <2>1, <2>4
<1>6. ASSUME FetchStatus(w)
      PROVE  Learns
  <2> DEFINE Told(answer) == [worker[w] EXCEPT !.pc = "record", !.answer = answer]
  <2>1. worker[w] \in Job /\ worker[w].seen = "PENDING"
    BY <1>0, <1>6 DEF FetchStatus, Knows
  <2>2. ASSUME NEW answer, Become(w, Told(answer))
        PROVE  Learns
    <3>1. Told(answer).pc = "record" /\ Told(answer).seen = "PENDING"
      BY <2>1 DEF Job
    <3>2. worker'[w] = Told(answer)
      BY <1>1, <2>2
    <3> HIDE DEF Told
    <3> QED
      BY <3>1, <3>2 DEF Knows, SettledStatuses
  <2> QED
    BY <1>2, <1>6, <2>2 DEF FetchStatus
<1>7. ASSUME RecordAnswer(w)
      PROVE  Learns
  <2> DEFINE job == [worker[w] EXCEPT !.pc = "apply"]
  <2>1. Become(w, Idle) \/ Become(w, job)
    BY <1>7 DEF RecordAnswer
  <2>2. worker[w] \in Job /\ worker[w].order \in Orders
    BY <1>7, JobFields DEF RecordAnswer
  <2>3. job.pc = "apply" /\ job.order = worker[w].order /\ job.answer = worker[w].answer
    BY <2>2 DEF Job
  <2>4. worker[w].answer \in payments'[worker[w].order]
    BY <1>7, <2>2 DEF RecordAnswer, Inv, TypeOK
  <2> HIDE DEF job
  <2>5. CASE Become(w, job)
    BY <1>1, <2>3, <2>4, <2>5 DEF Knows
  <2> QED
    BY <1>2, <2>1, <2>5
<1>8. ASSUME ApplyAnswer(w) \/ RequestFails(w)
      PROVE  Learns
  BY <1>2, <1>8 DEF ApplyAnswer, RequestFails
<1>9. \E job : Become(w, job)
  BY DEF Serve, Proceed, HandleNotification, RefreshStatus, RefreshExpires, RefreshNotDue,
         FetchStatus, RecordAnswer, ApplyAnswer, RequestFails
<1>10. \A v \in Workers \ {w} : worker'[v] = worker[v]
  BY <1>9 DEF Become, Inv, TypeOK
<1> QED
  BY <1>3, <1>4, <1>5, <1>6, <1>7, <1>8, <1>10 DEF Serve, Proceed

LEMMA JobsStillKnow ==
  ASSUME Inv, PaymentInv, AuditInv, [Next]_vars
  PROVE  JobsKnow'
<1>0. \A w \in Workers : worker[w] \in Job \cup {Idle} /\ Knows(worker[w])
  BY DEF Inv, TypeOK, AuditInv, JobsKnow, Knows
<1>1. ASSUME NEW w \in Workers, worker'[w] = worker[w]
      PROVE  Knows(worker[w])'
  <2>1. CASE worker[w] \in Job
    <3>1. PICK job \in Job : job = worker[w]
      BY <2>1
    <3>2. Knows(job)'
      BY <1>0, <3>1, KnowledgeStays DEF AuditInv
    <3> QED
      BY <1>1, <3>1, <3>2 DEF Knows
  <2>2. CASE worker[w] = Idle
    BY <1>1, <2>2 DEF Knows, Idle
  <2> QED
    BY <1>0, <2>1, <2>2
<1>2. \A w \in Workers : Knows(worker[w])'
  <2>1. CASE UNCHANGED worker
    BY <1>1, <2>1
  <2>2. CASE Crash
    BY <2>2 DEF Crash, Knows, Idle
  <2>3. ASSUME NEW v \in Workers, Serve(v)
        PROVE  \A w \in Workers : Knows(worker[w])'
    BY <1>1, <2>3, LearnsTruth
  <2> QED
    BY <2>1, <2>2, <2>3, StepsByEffect
<1> QED
  BY <1>2 DEF JobsKnow, Knows

-----------------------------------------------------------------------------
(* Whoever settles an order has the reason on record.                      *)
Explained(o, s) ==
  /\ s = "PAID" => Logged(o, "settled")
  /\ s = "CANCELLED" => Logged(o, "declined") \/ checkout[o] = "refused"
  /\ s = "EXPIRED" => Logged(o, "expired") \/ PastDeadline(deadline[o])
  /\ s = "EXPIRED" => PastDeadline(deadline[o]) \/ session[o] = "expired"

LEMMA ExplanationsStay ==
  ASSUME Inv, PaymentInv, DeadlineIsLast, [Next]_vars, NEW o \in Orders,
         NEW s \in Statuses, Explained(o, s)
  PROVE  Explained(o, s)'
<1>1. session[o] = "expired" => session'[o] = "expired"
  BY SessionStep DEF SessionMoves, PaymentInv
<1> QED
  BY <1>1, RecordsStay DEF Explained, Logged

LEMMA SettledForAReason ==
  ASSUME Inv, PaymentInv, AuditInv, [Next]_vars, NEW o \in Orders, status'[o] # status[o]
  PROVE  Explained(o, status[o])'
<1> USE DEF database, provider
<1>0. TypeOK
  BY DEF Inv
<1>1. ASSUME NEW p \in Orders, NEW outcome \in Decisive, ApplyOutcome(p, outcome)
      PROVE  p = o /\ status'[o] = outcome.orderStatus
  BY <1>0, <1>1 DEF ApplyOutcome, TypeOK
<1>2. ASSUME UNCHANGED status PROVE FALSE
  BY <1>2
<1>3. ASSUME NEW p \in Orders, Checkout(p)
      PROVE  Explained(o, status[o])'
  <2>1. CASE ReserveOnce(p)
    <3>1. status'[o] = "PENDING"
      BY <1>0, <2>1 DEF ReserveOnce, TypeOK
    <3> QED
      BY <3>1 DEF Explained
  <2>2. CASE Compensate(p)
    <3>1. p = o /\ status'[o] = "CANCELLED"
      BY <1>1, <2>2 DEF Compensate, Decisive, Released
    <3>2. checkout'[o] = "refused"
      BY <1>0, <2>2, <3>1 DEF Compensate, TypeOK
    <3> QED
      BY <3>1, <3>2 DEF Explained
  <2> QED
    BY <1>2, <1>3, <2>1, <2>2
    DEF Checkout, InsufficientQuota, CreateTransaction, CreateTransactionFails,
        CompensateFails, UpdatePaymentDetails, UpdatePaymentDetailsFails
<1>4. ASSUME NEW w \in Workers, ApplyAnswer(w)
      PROVE  Explained(o, status[o])'
  <2>1. /\ worker[w].order = o /\ status'[o] = Decision(worker[w]).orderStatus
        /\ worker[w].pc = "apply"
    <3>1. Decision(worker[w]) \in Decisive /\ worker[w].order \in Orders
      BY <1>4, ApplyAnswerIsDecisive DEF ApplyAnswer
    <3> QED
      BY <1>1, <1>4, <3>1 DEF ApplyAnswer
  <2>2. worker[w].answer \in payments'[o]
    BY <1>4, <2>1 DEF ApplyAnswer, AuditInv, JobsKnow
  <2>3. session[o] \in Sessions /\ worker[w].answer \in Notifications(session[o])
    BY <1>0, <2>1 DEF PaymentInv, AnswersAreGenuine, TypeOK
  <2>4. session' = session
    BY <1>4 DEF ApplyAnswer
  <2>5. /\ status'[o] = "PAID" => worker[w].answer \in CurrentAnswers("settled")
        /\ status'[o] = "CANCELLED" => worker[w].answer \in CurrentAnswers("declined")
        /\ status'[o] = "EXPIRED" =>
             worker[w].answer \in CurrentAnswers("expired") /\ session[o] = "expired"
    BY <2>1, <2>3, AnswersDecide DEF Decision
  <2> QED
    BY <2>2, <2>4, <2>5 DEF Explained, Logged
<1>5. ASSUME NEW p \in Orders, ApplyOutcome(p, Released("EXPIRED")), PastDeadline(deadline[p]),
             UNCHANGED <<deadline, clock>>
      PROVE  Explained(o, status[o])'
  <2>1. p = o /\ status'[o] = "EXPIRED"
    BY <1>1, <1>5 DEF Decisive, Released
  <2>2. PastDeadline(deadline[o])'
    BY <1>5, <2>1 DEF PastDeadline
  <2> QED
    BY <2>1, <2>2 DEF Explained
<1>6. ASSUME NEW w \in Workers, RefreshExpires(w)
      PROVE  Explained(o, status[o])'
  <2>1. worker[w].order \in Orders
    BY <1>6, JobFields DEF RefreshExpires
  <2>2. PastDeadline(deadline[worker[w].order])
    BY <1>6 DEF RefreshExpires, PastDeadline, AuditInv, JobsKnow
  <2> QED
    BY <1>5, <1>6, <2>1, <2>2 DEF RefreshExpires
<1>7. ASSUME NEW w \in Workers, Serve(w), ~ ApplyAnswer(w), ~ RefreshExpires(w)
      PROVE  FALSE
  BY <1>2, <1>7 DEF Serve, Proceed, HandleNotification, RefreshStatus, RefreshNotDue,
                    FetchStatus, RecordAnswer, RequestFails
<1>8. ASSUME NEW p \in Orders, ExpireDueOrder(p)
      PROVE  Explained(o, status[o])'
  <2>1. PastDeadline(deadline[p])
    BY <1>8 DEF ExpireDueOrder, NextInBatch, AuditInv, BatchIsDue
  <2> QED
    BY <1>5, <1>8, <2>1 DEF ExpireDueOrder
<1>9. ASSUME Sweeper, \A p \in Orders : ~ ExpireDueOrder(p)
      PROVE  FALSE
  BY <1>2, <1>9 DEF Sweeper, ListDueOrders, ExpireDueOrderFails
<1> QED
  BY <1>2, <1>3, <1>4, <1>6, <1>7, <1>8, <1>9, StepsByEffect

LEMMA AlertsStayReal ==
  ASSUME Inv, PaymentInv, AuditInv, [Next]_vars
  PROVE  AlertsAreReal'
<1>1. ASSUME NEW o \in alerts
      PROVE  session'[o] = "settled" /\ status'[o] \in {"CANCELLED", "EXPIRED"}
  <2>1. /\ o \in Orders /\ session[o] = "settled"
        /\ status[o] \in {"CANCELLED", "EXPIRED"} /\ status[o] \in SettledStatuses
    BY DEF AuditInv, AlertsAreReal, Inv, TypeOK, SettledStatuses
  <2>2. session'[o] = "settled"
    BY <2>1, SessionStep DEF SessionMoves, PaymentInv
  <2> QED
    BY <2>1, <2>2, SettledStays
<1>2. ASSUME NEW w \in Workers, RecordAnswer(w), NEW o \in alerts', o \notin alerts
      PROVE  session'[o] = "settled" /\ status'[o] \in {"CANCELLED", "EXPIRED"}
  <2>1. /\ o = worker[w].order /\ worker[w].pc = "record"
        /\ Decision(worker[w]).orderStatus = "PAID"
        /\ worker[w].seen \notin {"PENDING", "PAID"}
        /\ UNCHANGED <<status, session>>
    BY <1>2 DEF RecordAnswer, provider
  <2>2. o \in Orders /\ worker[w].seen \in Statuses
    BY <2>1, JobFields DEF Job
  <2>3. status[o] = worker[w].seen /\ worker[w].seen \in {"CANCELLED", "EXPIRED"}
    BY <2>1, <2>2 DEF AuditInv, JobsKnow, Statuses, SettledStatuses
  <2>4. session[o] = "settled"
    <3>1. session[o] \in Sessions /\ worker[w].answer \in Notifications(session[o])
      BY <2>1, <2>2 DEF PaymentInv, AnswersAreGenuine, Inv, TypeOK
    <3> QED
      BY <2>1, <3>1, SuccessMeansSettled DEF Decision
  <2> QED
    BY <2>1, <2>3, <2>4
<1>3. ASSUME NEW w \in Workers, Serve(w)
      PROVE  RecordAnswer(w) \/ UNCHANGED alerts
  BY <1>3 DEF Serve, Proceed, HandleNotification, RefreshStatus, RefreshExpires, RefreshNotDue,
              FetchStatus, ApplyAnswer, RequestFails
<1>4. UNCHANGED alerts \/ \E w \in Workers : RecordAnswer(w)
  BY <1>3, StepsByEffect
<1> QED
  BY <1>1, <1>2, <1>4 DEF AlertsAreReal

-----------------------------------------------------------------------------
(* The reasons and the alarms of every reachable state.                    *)
THEOREM AuditInvariance == Spec => []AuditInv
<1>1. Init => AuditInv
  BY DEF Init, AuditInv, DeadlineIsLast, RowsFollowReservation, BatchIsDue, JobsKnow, Idle,
         DecisionsAreAudited, NeverExpiredEarly, AlertsAreReal
<1>2. Inv /\ Inv' /\ PaymentInv /\ AuditInv /\ [Next]_vars => AuditInv'
  <2> SUFFICES ASSUME Inv, Inv', PaymentInv, AuditInv, [Next]_vars PROVE AuditInv'
    OBVIOUS
  <2>1. DeadlineIsLast' /\ RowsFollowReservation' /\ BatchIsDue'
    BY RowsStillFollow, BatchStaysDue DEF AuditInv
  <2>2. JobsKnow' /\ AlertsAreReal'
    BY JobsStillKnow, AlertsStayReal
  <2>3. \A o \in Orders : Explained(o, status[o])'
    <3> SUFFICES ASSUME NEW o \in Orders PROVE Explained(o, status[o])'
      OBVIOUS
    <3>1. CASE status'[o] = status[o]
      <4>1. PICK s \in Statuses : s = status[o]
        BY DEF Inv, TypeOK
      <4>2. Explained(o, s)
        BY <4>1 DEF Explained, AuditInv, DecisionsAreAudited, NeverExpiredEarly
      <4>3. Explained(o, s)'
        BY <4>2, ExplanationsStay DEF AuditInv
      <4> QED
        BY <3>1, <4>1, <4>3 DEF Explained
    <3>2. CASE status'[o] # status[o]
      BY <3>2, SettledForAReason
    <3> QED
      BY <3>1, <3>2
  <2>4. DecisionsAreAudited' /\ NeverExpiredEarly'
    BY <2>3 DEF Explained, DecisionsAreAudited, NeverExpiredEarly
  <2> QED
    BY <2>1, <2>2, <2>4 DEF AuditInv
<1> QED
  BY <1>1, <1>2, Invariance, PaymentInvariance, PTL DEF Spec

(* DecisionsAreAudited: the payments table explains every order that the    *)
(* provider decided, for any number of handlers racing over it.             *)
THEOREM DecisionsHaveRecords == Spec => []DecisionsAreAudited
<1>1. AuditInv => DecisionsAreAudited
  BY DEF AuditInv
<1> QED
  BY <1>1, AuditInvariance, PTL

(* NeverExpiredEarly: seats are taken from a guest only after the deadline  *)
(* or the provider's own expiry.                                            *)
THEOREM ExpiryIsDue == Spec => []NeverExpiredEarly
<1>1. AuditInv => NeverExpiredEarly
  BY DEF AuditInv
<1> QED
  BY <1>1, AuditInvariance, PTL

(* AlertsAreReal: the alarm for the admins is raised only for an order with *)
(* money and without seats.                                                 *)
THEOREM AlarmsAreTrue == Spec => []AlertsAreReal
<1>1. AuditInv => AlertsAreReal
  BY DEF AuditInv
<1> QED
  BY <1>1, AuditInvariance, PTL
=============================================================================
