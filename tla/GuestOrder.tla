----------------------------- MODULE GuestOrder -----------------------------
(***************************************************************************)
(* One guest's order from the checkout form to the order page: the request *)
(* is validated, charged, and then watched on /orders/<number>, a page     *)
(* that polls the order, counts down to the payment deadline on a device   *)
(* whose clock may be wrong, and has a rate-limited "check payment status" *)
(* button.  The guest may leave the page and return to it; the cache of    *)
(* the orders read, React Query's, outlives it for a while.                *)
(*                                                                         *)
(* The seats and the races between webhook, sweeper and reconciliation are *)
(* OrderLifecycle's; here the order simply leaves PENDING at some moment.  *)
(***************************************************************************)
EXTENDS CheckoutRequest

CONSTANTS
  Bodies,    \* the request bodies a guest may send
  Skews,     \* how far the device's clock may be ahead of the server's
  Lifetime,  \* PAYMENT_EXPIRY, in ticks of the clock
  Latency,   \* bound: ticks a read takes at most, waiting for the network included
  MaxClock,  \* bound: how long the page is watched
  Burst,     \* paymentRefreshBurst; one token comes back each tick
  None

ASSUME GuestOrderAssumption ==
  /\ \A r \in Bodies : IsCheckoutRequest(r)
  /\ Skews \subseteq Int
  /\ {Lifetime, Latency, Burst} \subseteq Nat \ {0} /\ MaxClock \in Nat

VARIABLES
  body,      \* the request body under way, None when there is none
  stage,     \* where the guest is; "away" is off the order page
  charge,    \* the charge sent to the gateway
  order,     \* the orders row: status, QR payload recorded, payment_expires_at
  clock,     \* the server's clock
  skew,      \* the device's clock minus the server's
  data,      \* the order as last received, on the page or in the cache
  offset,    \* clockOffsetMs
  expired,   \* locallyExpired
  failing,   \* the last read failed: the page shows an error
  answered,  \* the page that is open has received an answer
  fetches,   \* reads of the order under way
  button,    \* the "check payment status" control
  tokens     \* the guest's bucket of the refresh rate limiter

view == <<data, offset, expired, failing, answered>>
page == <<view, fetches, button>>
vars == <<body, stage, charge, order, clock, skew, page, tokens>>

Final == {"PAID", "CANCELLED", "EXPIRED"}

(* PublicOrderDetail: payment is 0 for null, or the deadline it carries. *)
Detail == [status : {"PENDING"} \cup Final, payment : Nat, serverTime : Nat]

Fetch == [sentAt : Nat, reply : Detail \cup {None}]

\* A read that starts now.
NewRead == {[sentAt |-> clock, reply |-> None]}

NoOrder == [status |-> "NONE", qr |-> FALSE, deadline |-> 0]

Init ==
  /\ body \in Bodies
  /\ stage = "form"
  /\ charge = None
  /\ order = NoOrder
  /\ clock = 1
  /\ skew \in Skews
  /\ data = None /\ offset = 0 /\ expired = FALSE /\ failing = FALSE /\ answered = FALSE
  /\ fetches = {}
  /\ button = "ready"
  /\ tokens = Burst

-----------------------------------------------------------------------------
(* Checkout. *)

Refuse ==
  /\ stage = "form" /\ Validate(body) # "ok"
  /\ stage' = "refused"
  /\ UNCHANGED <<body, charge, order, clock, skew, page, tokens>>

(* TX1 commits, and the charge goes out. *)
Reserve ==
  /\ stage = "form" /\ Validate(body) = "ok"
  /\ stage' = "charging"
  /\ order' = [NoOrder EXCEPT !.status = "PENDING"]
  /\ charge' = ChargeOf(body)
  /\ UNCHANGED <<body, clock, skew, page, tokens>>

\* The gateway accepts no charge whose items do not add up.
Acceptable(a) == a.http = "2xx" => ItemsTotal(charge) = charge.gross

CompensateCharge(a) ==
  /\ stage = "charging" /\ Acceptable(a) /\ ~ OpensSession(a)
  /\ stage' = "refused"
  /\ order' = [order EXCEPT !.status = "CANCELLED"]
  /\ UNCHANGED <<body, charge, clock, skew, page, tokens>>

(* TX2 records the session, the answer is 201, and the checkout page routes
   the guest to the order page. *)
OpenPage(a) ==
  /\ stage = "charging" /\ Acceptable(a) /\ OpensSession(a)
  /\ stage' = "page"
  /\ order' = [order EXCEPT !.qr = a.qr, !.deadline = clock + Lifetime]
  /\ body' = None /\ charge' = None
  /\ fetches' = NewRead
  /\ UNCHANGED <<clock, skew, view, button, tokens>>

-----------------------------------------------------------------------------
(* The server's side of the page. *)

PaymentInstruction ==
  IF order.status = "PENDING" /\ order.qr /\ order.deadline > clock
    THEN order.deadline ELSE 0

(* Notifications and the sweeper: see OrderLifecycle. *)
Settle(status) ==
  /\ stage \in {"page", "away"} /\ order.status = "PENDING"
  /\ status = "EXPIRED" => order.deadline <= clock
  /\ order' = [order EXCEPT !.status = status]
  /\ UNCHANGED <<body, stage, charge, clock, skew, page, tokens>>

OrderByNumber(f) ==
  /\ f \in fetches /\ f.reply = None
  /\ fetches' = (fetches \ {f}) \cup
       {[f EXCEPT !.reply = [status |-> order.status, payment |-> PaymentInstruction,
                             serverTime |-> clock]]}
  /\ UNCHANGED <<body, stage, charge, order, clock, skew, view, button, tokens>>

-----------------------------------------------------------------------------
(* The page. *)

DeviceTime == clock + skew

\* Mutation of Offset: the device's clock is taken to be right.
NoOffset(detail) == 0

Offset(detail) == detail.serverTime - DeviceTime

PaymentShown ==
  stage = "page" /\ data # None /\ ~ failing /\ data.payment # 0 /\ ~ expired

Counted(now) == data.payment <= now + skew + offset

\* Mutation of Polling: a page without a live code has nothing to wait for.
PollingWhileShown == PaymentShown

Polling == stage = "page" /\ (data # None => data.status \notin Final)

(* refetchInterval; React Query has one read of a key under way at a time. *)
Poll ==
  /\ Polling /\ fetches = {}
  /\ fetches' = NewRead
  /\ UNCHANGED <<body, stage, charge, order, clock, skew, view, button, tokens>>

\* The button is part of the panel: when the panel goes, its state goes too (a
\* request still under way is Settle and Poll to the page).
ButtonOf(panel) == IF panel THEN button ELSE "ready"

\* A new deadline is a new code: the countdown starts over.
FreshInstruction(detail) ==
  detail.payment # 0 /\ (data = None \/ detail.payment # data.payment)

\* With the page away, the answer goes to the cache alone.
Receive(f) ==
  /\ f \in fetches /\ f.reply # None
  /\ fetches' = fetches \ {f}
  /\ data' = f.reply /\ failing' = FALSE
  /\ IF stage = "page"
       THEN /\ offset' = Offset(f.reply)
            /\ expired' = (expired /\ ~ FreshInstruction(f.reply))
            /\ answered' = TRUE
            /\ button' = ButtonOf(f.reply.payment # 0 /\ ~ expired')
       ELSE UNCHANGED <<offset, expired, answered, button>>
  /\ UNCHANGED <<body, stage, charge, order, clock, skew, tokens>>

(* The retries included, a read may fail; the page says so until the next
   one. *)
ReceiveError(f) ==
  /\ f \in fetches
  /\ fetches' = fetches \ {f}
  /\ failing' = TRUE
  /\ button' = ButtonOf(FALSE)
  /\ UNCHANGED <<body, stage, charge, order, clock, skew, data, offset, expired, answered,
                 tokens>>

(* A second of the countdown, or a few: at zero the panel goes. *)
Tick ==
  /\ stage \in {"page", "away"} /\ clock < MaxClock
  /\ \A f \in fetches : clock < f.sentAt + Latency
  /\ clock' = clock + 1
  /\ expired' = (expired \/ (PaymentShown /\ Counted(clock')))
  /\ button' = ButtonOf(~ expired')
  /\ tokens' = IF tokens < Burst THEN tokens + 1 ELSE tokens
  /\ UNCHANGED <<body, stage, charge, order, skew, data, offset, failing, answered, fetches>>

-----------------------------------------------------------------------------
(* Leaving the page and returning to it.  What the components hold goes with
   them: offset, expired and the button's state.  What React Query holds
   stays: the last answer, whether the last read failed, and the read under
   way, which goes on. *)

Leave ==
  /\ stage = "page"
  /\ stage' = "away"
  /\ offset' = 0 /\ expired' = FALSE /\ answered' = FALSE /\ button' = "ready"
  /\ UNCHANGED <<body, charge, order, clock, skew, data, failing, fetches, tokens>>

(* A reload, or the end of the cache's life: gcTime, five minutes when nobody
   sets it. *)
Forget ==
  /\ stage = "away" /\ data # None
  /\ data' = None /\ failing' = FALSE /\ fetches' = {}
  /\ UNCHANGED <<body, stage, charge, order, clock, skew, offset, expired, answered, button,
                 tokens>>

(* The page shows what the cache has, measures the offset by it all the same,
   and reads the order, or waits for the read under way. *)
Return ==
  /\ stage = "away"
  /\ stage' = "page"
  /\ offset' = IF data # None THEN Offset(data) ELSE 0
  /\ fetches' = IF fetches # {} THEN fetches ELSE NewRead
  /\ UNCHANGED <<body, charge, order, clock, skew, data, expired, failing, answered, button,
                 tokens>>

(* refetchOnWindowFocus and refetchOnReconnect. *)
Refocus ==
  /\ stage = "page" /\ fetches = {}
  /\ fetches' = NewRead
  /\ UNCHANGED <<body, stage, charge, order, clock, skew, view, button, tokens>>

-----------------------------------------------------------------------------
(* The button: POST /orders/<number>/payment/refresh. *)

Press ==
  /\ PaymentShown /\ button \in {"ready", "failed"}
  /\ button' = "pending"
  /\ UNCHANGED <<body, stage, charge, order, clock, skew, view, fetches, tokens>>

TooSoon ==
  /\ button = "pending" /\ tokens = 0
  /\ button' = "limited"
  /\ UNCHANGED <<body, stage, charge, order, clock, skew, view, fetches, tokens>>

(* RefreshStatus decides without the provider about a settled or overdue
   order, and by its answer otherwise. *)
Reconciles(a) ==
  order.status # "PENDING" \/ order.deadline <= clock \/ FetchStatus(a) = "answer"

Reconciled(status) ==
  [order EXCEPT !.status =
     IF @ # "PENDING" THEN @ ELSE IF order.deadline <= clock THEN "EXPIRED" ELSE status]

\* Mutation of Invalidate: the read under way is not cancelled.
InvalidateKeeping == fetches' = fetches \cup NewRead

(* invalidateQueries cancels the read under way and starts another. *)
Invalidate == fetches' = NewRead

\* Mutation of Refresh: the limiter lets everybody through.
RefreshUnlimited(a, status) ==
  /\ button = "pending"
  /\ tokens' = tokens - 1
  /\ \/ /\ Reconciles(a) /\ order' = Reconciled(status)
        /\ Invalidate /\ button' = "ready"
     \/ /\ order' = order \/ (Reconciles(a) /\ order' = Reconciled(status))
        /\ button' = "failed" /\ UNCHANGED fetches
  /\ UNCHANGED <<body, stage, charge, clock, skew, view>>

(* A read or the transaction may fail instead, the last read also when the
   order was moved already: the guest is told of a failure. *)
Refresh(a, status) ==
  /\ button = "pending" /\ tokens > 0
  /\ tokens' = tokens - 1
  /\ \/ /\ Reconciles(a) /\ order' = Reconciled(status)
        /\ Invalidate /\ button' = "ready"
     \/ /\ order' = order \/ (Reconciles(a) /\ order' = Reconciled(status))
        /\ button' = "failed" /\ UNCHANGED fetches
  /\ UNCHANGED <<body, stage, charge, clock, skew, view>>

-----------------------------------------------------------------------------
Next ==
  \/ Refuse \/ Reserve
  \/ \E a \in ChargeAnswer : CompensateCharge(a) \/ OpenPage(a)
  \/ \E status \in Final : Settle(status)
  \/ Poll \/ Tick \/ Press \/ TooSoon
  \/ Leave \/ Forget \/ Return \/ Refocus
  \/ \E f \in fetches : OrderByNumber(f) \/ Receive(f) \/ ReceiveError(f)
  \/ \E a \in StatusAnswer, status \in {"PENDING"} \cup Final : Refresh(a, status)

Spec == Init /\ [][Next]_vars

(* The page keeps polling, and the network is not down for good: a read that
   can be answered again and again is answered, and its answer arrives. *)
Fairness ==
  /\ WF_vars(Poll)
  /\ SF_vars(\E f \in fetches : OrderByNumber(f))
  /\ SF_vars(\E f \in fetches : Receive(f))

FairSpec == Spec /\ Fairness

-----------------------------------------------------------------------------
(* Properties. *)

TypeOK ==
  /\ body \in Bodies \cup {None}
  /\ stage \in {"form", "charging", "page", "away", "refused"}
  /\ order \in [status : {"NONE", "PENDING"} \cup Final, qr : BOOLEAN, deadline : Nat]
  /\ clock \in Nat /\ skew \in Skews /\ offset \in Int /\ tokens \in 0..Burst
  /\ data \in Detail \cup {None} /\ fetches \subseteq Fetch
  /\ expired \in BOOLEAN /\ failing \in BOOLEAN /\ answered \in BOOLEAN
  /\ button \in {"ready", "pending", "limited", "failed"}

\* Whole numbers, without the width the code counts in.
Attendees(r, t) == {k \in DOMAIN r.attendees : r.attendees[k] = t}

(* A request that passes validation names, for each of its ticket types, as
   many attendees as it orders tickets, and nobody else, although totals and
   counters are 32-bit integers that may wrap.  A ticket is issued for every
   attendee and a seat taken for every ticket ordered: a difference would sell
   one for the other.  (dto.go: CheckoutRequest.Validate) *)
AcceptedBodiesAreExact ==
  stage = "charging" =>
    /\ \A i \in DOMAIN body.items :
         Cardinality(Attendees(body, body.items[i].type)) = body.items[i].quantity
    /\ \A i, j \in DOMAIN body.items : body.items[i].type = body.items[j].type => i = j
    /\ \A k \in DOMAIN body.attendees :
         \E i \in DOMAIN body.items : body.items[i].type = body.attendees[k]

(* The items the gateway is told of add up to what it is told the order costs,
   but for the whole rupiah in the fractions that truncation took off the unit
   prices: they agree when prices are whole, and wherever those fractions come
   to a rupiah they do not, and the gateway refuses the charge.
   (midtrans.go: CreateTransaction, toRupiah) *)
ChargeOmitsFractions ==
  stage = "charging" =>
    charge.gross = ItemsTotal(charge) + ToRupiah(FractionsTotal(body))

(* A page that has had an answer never shows a code longer after its deadline
   than an answer takes to arrive, however wrong the device's clock is and
   whether or not the server has expired the order by then; and a page that
   shows an older one, from the cache, has a read under way that will end
   that.  (expiry-countdown.tsx, page.tsx) *)
CodeDiesInTime ==
  PaymentShown =>
    clock < order.deadline + Latency \/ (~ answered /\ fetches # {})

(* What the specification's acceptance test says of an unpaid order whose
   deadline has passed, whenever its page is opened: no code is on it, an
   answer's time later.  (queries.ts: "never serve it from a cache") *)
DeadCodesStayHidden == PaymentShown => clock < order.deadline + Latency

(* The page does not take back a final status it has shown, and after a visit
   elsewhere the cache does not, either: an answer from before the change never
   arrives after one from after it. *)
FinalStatusStaysShown ==
  [][data # None /\ data' # None /\ data.status \in Final => data'.status = data.status]_vars

(* A page that is open learns how the order ended, also when its countdown ran
   out first, a read failed or the cache had an older status, unless the guest
   leaves it.  (queries.ts: useOrderDetail) *)
FinalStatusIsShown ==
  (stage = "page" /\ order.status \in Final /\ (data # None => data.status \notin Final))
    ~> (stage = "away" \/ (data # None /\ data.status = order.status /\ ~ failing))
=============================================================================
