--------------------------- MODULE GuestOrderProofs ---------------------------
(***************************************************************************)
(* One guest's request and page, for any prices, bodies, widths of the     *)
(* integers, clocks, latencies and limits.  On the page: at most one read  *)
(* is under way, an answer is at most Latency old, and the countdown       *)
(* corrects the device's clock by such an answer, or shows what the cache  *)
(* has while one is awaited.  In the request: a sum that wraps agrees with *)
(* the true one when every part of it was checked, and what truncated      *)
(* prices omit is the sum of their fractions.                              *)
(***************************************************************************)
EXTENDS GuestOrder, FiniteSetTheorems, WellFoundedInduction, TLAPS

(* What each stage may rely on.                                            *)
Stages ==
  /\ stage \in {"form", "charging"} => body \in Bodies
  /\ stage = "charging" =>
       /\ Validate(body) = "ok" /\ charge = ChargeOf(body)
       /\ order.status = "PENDING"
  /\ stage \in {"page", "away"} => order.status \in {"PENDING"} \cup Final
  /\ stage \notin {"page", "away"} => data = None /\ fetches = {}
  /\ stage # "page" => button = "ready" /\ ~ answered

OneRead == \A f, g \in fetches : f = g

(* A read under way was sent at most Latency ago.  Its answer is from the  *)
(* time since then: a code in it is the order's and was alive, a final     *)
(* status in it is the order's.                                            *)
Fresh(f) ==
  /\ f.sentAt <= clock /\ clock <= f.sentAt + Latency
  /\ f.reply # None =>
       /\ f.sentAt <= f.reply.serverTime /\ f.reply.serverTime <= clock
       /\ f.reply.payment # 0 =>
            f.reply.payment = order.deadline /\ f.reply.serverTime < order.deadline
       /\ f.reply.status \in Final => order.status = f.reply.status

ReadsAreFresh == \A f \in fetches : Fresh(f)

(* While a code is shown from an answer the page has had, the corrected    *)
(* clock has not reached its deadline, and it is behind the server's by no *)
(* more than an answer's age.                                              *)
OffsetIsFresh ==
  /\ data.payment = order.deadline
  /\ clock + skew + offset < data.payment
  /\ skew + offset + Latency >= 0

(* A code from the cache is shown only while an answer is awaited.         *)
CountdownIsRight ==
  PaymentShown => IF answered THEN OffsetIsFresh ELSE fetches # {}

(* A final status on the page is the order's, and every later answer's.    *)
AnswersAgree ==
  data # None /\ data.status \in Final =>
    /\ order.status = data.status
    /\ \A f \in fetches : f.reply # None => f.reply.status = data.status

Inv ==
  /\ TypeOK /\ Stages /\ OneRead /\ ReadsAreFresh /\ CountdownIsRight /\ AnswersAgree

-----------------------------------------------------------------------------
(* The constants, the rows and the answers.                                *)
LEMMA Constants ==
  /\ Lifetime \in Nat /\ Latency \in Nat /\ Latency > 0 /\ Burst \in Nat /\ MaxClock \in Nat
  /\ Skews \subseteq Int
BY GuestOrderAssumption

(* Without a page nothing is shown or read.                                *)
LEMMA PageOnly ==
  ASSUME Inv, stage \notin {"page", "away"}
  PROVE  /\ data = None /\ fetches = {} /\ button = "ready" /\ ~ answered /\ ~ PaymentShown
BY DEF Inv, Stages, PaymentShown

(* The steps of the checkout: up to the page, nothing is under way on it.  *)
LEMMA CheckoutKeepsInv ==
  ASSUME Inv,
         Refuse \/ Reserve \/ \E a \in ChargeAnswer : CompensateCharge(a) \/ OpenPage(a)
  PROVE  Inv'
<1>1. /\ stage \notin {"page", "away"}
      /\ UNCHANGED <<skew, clock, data, offset, expired, failing, answered, button, tokens>>
      /\ stage' \in {"charging", "page", "refused"}
  BY DEF Refuse, Reserve, CompensateCharge, OpenPage, page, view
<1>2. data = None /\ fetches = {} /\ button = "ready" /\ ~ answered
  BY <1>1, PageOnly
<1>3. /\ order \in [status : {"NONE", "PENDING"} \cup Final, qr : BOOLEAN, deadline : Nat]
      /\ clock \in Nat /\ body \in Bodies \cup {None}
  BY DEF Inv, TypeOK
<1> DEFINE Opened ==
      /\ body' \in Bodies \cup {None}
      /\ order' \in [status : {"NONE", "PENDING"} \cup Final, qr : BOOLEAN, deadline : Nat]
      /\ stage' = "page" => order'.status = "PENDING"
      /\ stage' = "charging" =>
           /\ body' \in Bodies /\ Validate(body') = "ok" /\ charge' = ChargeOf(body')
           /\ order'.status = "PENDING"
<1>4. Opened
  <2>1. CASE Refuse
    BY <1>3, <2>1 DEF Refuse
  <2>2. CASE Reserve
    <3>1. order' = [status |-> "PENDING", qr |-> FALSE, deadline |-> 0]
      BY <2>2 DEF Reserve, NoOrder
    <3>2. order' \in [status : {"NONE", "PENDING"} \cup Final, qr : BOOLEAN, deadline : Nat]
      BY <3>1
    <3>3. body' = body /\ body \in Bodies /\ stage' = "charging"
      BY <2>2 DEF Reserve, Inv, Stages
    <3>4. Validate(body) = "ok" /\ charge' = ChargeOf(body)
      BY <2>2 DEF Reserve
    <3> QED
      BY <3>1, <3>2, <3>3, <3>4
  <2>3. ASSUME NEW a \in ChargeAnswer, CompensateCharge(a)
        PROVE  Opened
    BY <1>3, <2>3 DEF CompensateCharge, Final
  <2>4. ASSUME NEW a \in ChargeAnswer, OpenPage(a)
        PROVE  Opened
    <3>1. order.status = "PENDING"
      BY <2>4 DEF OpenPage, Inv, Stages
    <3>2. a.qr \in BOOLEAN
      BY DEF ChargeAnswer
    <3>3. clock + Lifetime \in Nat
      BY <1>3, Constants
    <3>4. /\ order' = [order EXCEPT !.qr = a.qr, !.deadline = clock + Lifetime]
          /\ body' = None /\ stage' = "page"
      BY <2>4 DEF OpenPage
    <3> QED
      BY <1>3, <3>1, <3>2, <3>3, <3>4
  <2> QED
    BY <2>1, <2>2, <2>3, <2>4
<1>5. \/ fetches' = {}
      \/ stage' = "page" /\ fetches' = {[sentAt |-> clock, reply |-> None]}
  BY <1>2 DEF Refuse, Reserve, CompensateCharge, OpenPage, NewRead, page
<1>6. /\ fetches' \subseteq Fetch /\ OneRead' /\ ReadsAreFresh'
  BY <1>1, <1>3, <1>5, Constants DEF Fetch, OneRead, ReadsAreFresh, Fresh
<1>7. TypeOK'
  BY <1>1, <1>4, <1>6 DEF Inv, TypeOK
<1>8. Stages'
  BY <1>1, <1>2, <1>4, <1>5 DEF Stages
<1>9. CountdownIsRight' /\ AnswersAgree'
  BY <1>1, <1>2 DEF CountdownIsRight, PaymentShown, AnswersAgree
<1> QED
  BY <1>6, <1>7, <1>8, <1>9 DEF Inv

(* Types on a page that is open, for the steps below.                      *)
LEMMA OpenPageTypes ==
  ASSUME Inv
  PROVE  /\ order.status \in {"NONE", "PENDING"} \cup Final /\ order.qr \in BOOLEAN
         /\ order.deadline \in Nat
         /\ clock \in Nat /\ skew \in Int /\ offset \in Int
         /\ data # None =>
              /\ data.payment \in Nat /\ data.serverTime \in Nat
              /\ data.status \in {"PENDING"} \cup Final
         /\ \A f \in fetches :
              /\ f \in Fetch /\ f.sentAt \in Nat
              /\ f.reply # None =>
                   /\ f.reply \in Detail /\ f.reply.payment \in Nat /\ f.reply.serverTime \in Nat
                   /\ f.reply.status \in {"PENDING"} \cup Final
<1>1. order \in [status : {"NONE", "PENDING"} \cup Final, qr : BOOLEAN, deadline : Nat]
  BY DEF Inv, TypeOK
<1>2. clock \in Nat /\ skew \in Int /\ offset \in Int
  BY Constants DEF Inv, TypeOK
<1>3. data # None =>
        /\ data.payment \in Nat /\ data.serverTime \in Nat
        /\ data.status \in {"PENDING"} \cup Final
  BY DEF Inv, TypeOK, Detail
<1>4. ASSUME NEW f \in fetches
      PROVE  /\ f \in Fetch /\ f.sentAt \in Nat
             /\ f.reply # None =>
                  /\ f.reply \in Detail /\ f.reply.payment \in Nat /\ f.reply.serverTime \in Nat
                  /\ f.reply.status \in {"PENDING"} \cup Final
  <2>1. f \in Fetch
    BY DEF Inv, TypeOK
  <2>2. f.sentAt \in Nat /\ f.reply \in Detail \cup {None}
    BY <2>1 DEF Fetch
  <2>3. f.reply # None => f.reply \in Detail
    BY <2>2
  <2> QED
    BY <2>1, <2>2, <2>3 DEF Detail
<1> QED
  BY <1>1, <1>2, <1>3, <1>4

(* The order ends while the page watches: no read carries a final status   *)
(* yet, and neither does the page.                                         *)
LEMMA SettleKeepsInv ==
  ASSUME Inv, NEW status \in Final, Settle(status)
  PROVE  Inv'
<1>1. /\ stage \in {"page", "away"} /\ order.status = "PENDING"
      /\ order' = [order EXCEPT !.status = status]
      /\ UNCHANGED <<body, stage, charge, clock, skew, page, tokens>>
  BY DEF Settle
<1>2. UNCHANGED <<body, stage, charge, clock, skew, data, offset, expired, failing, answered,
                  fetches, button, tokens>>
  BY <1>1 DEF page, view
<1>3. order \in [status : {"NONE", "PENDING"} \cup Final, qr : BOOLEAN, deadline : Nat]
  BY DEF Inv, TypeOK
<1>4. /\ order' \in [status : {"NONE", "PENDING"} \cup Final, qr : BOOLEAN, deadline : Nat]
      /\ order'.deadline = order.deadline /\ order'.status = status
  BY <1>1, <1>3
<1>5. TypeOK'
  BY <1>2, <1>4 DEF Inv, TypeOK
<1>6. Stages' /\ OneRead'
  BY <1>1, <1>2, <1>4 DEF Inv, Stages, OneRead
<1>7. order.status \notin Final
  BY <1>1 DEF Final
<1>8. ReadsAreFresh'
  BY <1>2, <1>4, <1>7 DEF Inv, ReadsAreFresh, Fresh
<1>9. CountdownIsRight' /\ AnswersAgree'
  BY <1>2, <1>4, <1>7 DEF Inv, CountdownIsRight, OffsetIsFresh, PaymentShown, AnswersAgree
<1> QED
  BY <1>5, <1>6, <1>8, <1>9 DEF Inv

(* The server answers: the one read under way now carries the order.       *)
LEMMA AnswerKeepsInv ==
  ASSUME Inv, NEW f \in fetches, OrderByNumber(f)
  PROVE  Inv'
<1> DEFINE reply == [status |-> order.status, payment |-> PaymentInstruction,
                     serverTime |-> clock]
           g == [f EXCEPT !.reply = reply]
<1>1. /\ fetches' = (fetches \ {f}) \cup {g}
      /\ UNCHANGED <<body, stage, charge, order, clock, skew, data, offset, expired, failing,
                     answered, button, tokens>>
  BY DEF OrderByNumber, view
<1>2. fetches = {f} /\ fetches' = {g}
  BY <1>1 DEF Inv, OneRead
<1>3. stage \in {"page", "away"} /\ order.status \in {"PENDING"} \cup Final
  BY <1>2 DEF Inv, Stages
<1>4. /\ PaymentInstruction \in Nat
      /\ PaymentInstruction # 0 => PaymentInstruction = order.deadline /\ clock < order.deadline
  BY OpenPageTypes DEF PaymentInstruction
<1>5. reply \in Detail
  BY <1>3, <1>4, OpenPageTypes DEF Detail
<1>6. f \in [sentAt : Nat, reply : Detail \cup {None}]
  BY DEF Inv, TypeOK, Fetch
<1>7. g \in Fetch /\ g.sentAt = f.sentAt /\ g.reply = reply
  BY <1>5, <1>6 DEF Fetch
<1>8. /\ reply.status = order.status /\ reply.payment = PaymentInstruction
      /\ reply.serverTime = clock
  OBVIOUS
<1>9. f.sentAt <= clock /\ clock <= f.sentAt + Latency
  BY DEF Inv, ReadsAreFresh, Fresh
<1> HIDE DEF g, reply
<1>10. TypeOK'
  BY <1>1, <1>2, <1>7 DEF Inv, TypeOK
<1>11. Stages' /\ OneRead'
  BY <1>1, <1>2, <1>3 DEF Inv, Stages, OneRead
<1>12. ReadsAreFresh'
  BY <1>1, <1>2, <1>4, <1>7, <1>8, <1>9, OpenPageTypes DEF ReadsAreFresh, Fresh
<1>13. CountdownIsRight' /\ AnswersAgree'
  BY <1>1, <1>2, <1>7, <1>8
  DEF Inv, CountdownIsRight, OffsetIsFresh, PaymentShown, AnswersAgree
<1> QED
  BY <1>10, <1>11, <1>12, <1>13 DEF Inv

(* An answer reaches the page.  Its age is what the corrected clock is     *)
(* behind by.                                                              *)
LEMMA ReceiveKeepsInv ==
  ASSUME Inv, NEW f \in fetches, Receive(f)
  PROVE  Inv'
<1>1. /\ f.reply # None /\ fetches' = fetches \ {f} /\ data' = f.reply /\ failing' = FALSE
      /\ UNCHANGED <<body, stage, charge, order, clock, skew, tokens>>
      /\ \/ /\ stage = "page" /\ answered' = TRUE
            /\ offset' = f.reply.serverTime - (clock + skew)
            /\ expired' \in BOOLEAN
            /\ button' = ButtonOf(f.reply.payment # 0 /\ ~ expired')
         \/ /\ stage # "page"
            /\ UNCHANGED <<offset, expired, answered, button>>
  BY DEF Receive, Offset, DeviceTime, FreshInstruction
<1>2. fetches = {f} /\ fetches' = {} /\ stage \in {"page", "away"}
  BY <1>1 DEF Inv, OneRead, Stages
<1>3. /\ f.reply \in Detail /\ f.reply.serverTime \in Nat /\ f.sentAt \in Nat
      /\ clock \in Nat /\ skew \in Int /\ order.deadline \in Nat
  BY <1>1, OpenPageTypes
<1>4. Fresh(f)
  BY DEF Inv, ReadsAreFresh
<1>5. /\ button' \in {"ready", "pending", "limited", "failed"}
      /\ expired' \in BOOLEAN /\ answered' \in BOOLEAN
      /\ stage # "page" => button' = "ready" /\ ~ answered'
  <2>1. /\ button \in {"ready", "pending", "limited", "failed"}
        /\ expired \in BOOLEAN /\ answered \in BOOLEAN
        /\ stage # "page" => button = "ready" /\ ~ answered
    BY DEF Inv, TypeOK, Stages
  <2>2. CASE stage = "page"
    BY <1>1, <2>1, <2>2 DEF ButtonOf
  <2>3. CASE stage # "page"
    BY <1>1, <2>1, <2>3
  <2> QED
    BY <2>2, <2>3
<1>6. offset' \in Int
  BY <1>1, <1>3 DEF Inv, TypeOK
<1>7. TypeOK'
  BY <1>1, <1>2, <1>3, <1>5, <1>6 DEF Inv, TypeOK
<1>8. Stages' /\ OneRead' /\ ReadsAreFresh'
  BY <1>1, <1>2, <1>5 DEF Inv, Stages, OneRead, ReadsAreFresh
<1>9. AnswersAgree'
  BY <1>1, <1>2, <1>4 DEF AnswersAgree, Fresh
<1>10. CountdownIsRight'
  <2>1. SUFFICES ASSUME PaymentShown'
                 PROVE  answered' /\ OffsetIsFresh'
    BY DEF CountdownIsRight
  <2>2. f.reply.payment # 0 /\ stage = "page"
    BY <1>1, <2>1 DEF PaymentShown
  <2>3. answered' /\ offset' = f.reply.serverTime - (clock + skew)
    BY <1>1, <2>2
  <2>4. /\ f.reply.payment = order.deadline /\ f.reply.serverTime < order.deadline
        /\ f.sentAt <= f.reply.serverTime /\ clock <= f.sentAt + Latency
    BY <1>1, <1>4, <2>2 DEF Fresh
  <2>5. clock + skew + offset' = f.reply.serverTime /\ skew + offset' = f.reply.serverTime - clock
    BY <1>3, <2>3
  <2>6. skew + offset' + Latency >= 0
    BY <1>3, <2>4, <2>5, Constants
  <2> QED
    BY <1>1, <2>3, <2>4, <2>5, <2>6 DEF OffsetIsFresh
<1> QED
  BY <1>7, <1>8, <1>9, <1>10 DEF Inv

(* A read starts or fails: a code is not shown without an answer to it.     *)
LEMMA ReadKeepsInv ==
  ASSUME Inv, Poll \/ Refocus \/ \E f \in fetches : ReceiveError(f)
  PROVE  Inv'
<1>1. /\ UNCHANGED <<body, stage, charge, order, clock, skew, data, offset, expired, answered,
                     tokens>>
      /\ stage \in {"page", "away"}
      /\ button' = button \/ button' = "ready"
  BY DEF Poll, Polling, Refocus, ReceiveError, ButtonOf, view, Inv, Stages
<1>2. \/ fetches' \subseteq fetches /\ failing' = TRUE
      \/ fetches' = {[sentAt |-> clock, reply |-> None]} /\ failing' = failing /\ stage = "page"
  BY DEF Poll, Polling, Refocus, ReceiveError, NewRead, view
<1>3. button' \in {"ready", "pending", "limited", "failed"} /\ failing' \in BOOLEAN
  BY <1>1, <1>2 DEF Inv, TypeOK
<1>4. fetches' \subseteq Fetch /\ OneRead' /\ ReadsAreFresh'
  <2>1. CASE fetches' \subseteq fetches
    BY <1>1, <2>1 DEF Inv, TypeOK, OneRead, ReadsAreFresh, Fresh
  <2>2. CASE fetches' = {[sentAt |-> clock, reply |-> None]}
    <3>1. clock <= clock /\ clock <= clock + Latency
      BY OpenPageTypes, Constants
    <3> QED
      BY <1>1, <2>2, <3>1, OpenPageTypes DEF Fetch, OneRead, ReadsAreFresh, Fresh
  <2> QED
    BY <1>2, <2>1, <2>2
<1>5. TypeOK'
  BY <1>1, <1>3, <1>4 DEF Inv, TypeOK
<1>6. Stages'
  BY <1>1 DEF Inv, Stages
<1>7. CountdownIsRight'
  BY <1>1, <1>2 DEF Inv, CountdownIsRight, OffsetIsFresh, PaymentShown
<1>8. AnswersAgree'
  BY <1>1, <1>2 DEF Inv, AnswersAgree
<1> QED
  BY <1>4, <1>5, <1>6, <1>7, <1>8 DEF Inv

(* The guest leaves the page, loses the cache, or returns to the page with *)
(* what the cache has: then a read is under way.                           *)
LEMMA VisitKeepsInv ==
  ASSUME Inv, Leave \/ Forget \/ Return
  PROVE  Inv'
<1>1. /\ UNCHANGED <<body, charge, order, clock, skew, tokens>>
      /\ stage \in {"page", "away"} /\ stage' \in {"page", "away"}
      /\ \/ UNCHANGED <<data, failing>>
         \/ data' = None /\ failing' = FALSE
  BY DEF Leave, Forget, Return
<1>2. \/ fetches' = fetches
      \/ fetches' = {}
      \/ fetches' = {[sentAt |-> clock, reply |-> None]}
  BY DEF Leave, Forget, Return, NewRead
<1>3. stage = "away" => button = "ready" /\ ~ answered
  BY DEF Inv, Stages
<1>4. button' = "ready" /\ answered' \in BOOLEAN /\ ~ answered'
  <2>1. CASE Leave
    BY <2>1 DEF Leave
  <2>2. CASE Forget \/ Return
    <3>1. button' = button /\ answered' = answered /\ stage = "away"
      BY <2>2 DEF Forget, Return
    <3> QED
      BY <1>3, <3>1 DEF Inv, TypeOK
  <2> QED
    BY <2>1, <2>2
<1>5. fetches' \subseteq Fetch /\ OneRead' /\ ReadsAreFresh'
  <2>1. CASE fetches' \subseteq fetches
    BY <1>1, <2>1 DEF Inv, TypeOK, OneRead, ReadsAreFresh, Fresh
  <2>2. CASE fetches' = {[sentAt |-> clock, reply |-> None]}
    <3>1. clock <= clock /\ clock <= clock + Latency
      BY OpenPageTypes, Constants
    <3> QED
      BY <1>1, <2>2, <3>1, OpenPageTypes DEF Fetch, OneRead, ReadsAreFresh, Fresh
  <2> QED
    BY <1>2, <2>1, <2>2
<1>6. offset' \in Int /\ expired' \in BOOLEAN
  <2>1. data # None => Offset(data) \in Int
    BY OpenPageTypes DEF Offset, DeviceTime
  <2>2. offset \in Int /\ expired \in BOOLEAN
    BY DEF Inv, TypeOK
  <2>3. CASE Leave
    <3>1. offset' = 0 /\ expired' = FALSE
      BY <2>3 DEF Leave
    <3>2. offset' \in Int
      BY <3>1
    <3> QED
      BY <3>1, <3>2
  <2>4. CASE Forget
    BY <2>2, <2>4 DEF Forget
  <2>5. CASE Return
    <3>1. offset' = (IF data # None THEN Offset(data) ELSE 0) /\ expired' = expired
      BY <2>5 DEF Return
    <3> QED
      BY <2>1, <2>2, <3>1
  <2> QED
    BY <2>3, <2>4, <2>5
<1>7. TypeOK'
  BY <1>1, <1>4, <1>5, <1>6 DEF Inv, TypeOK
<1>8. Stages'
  BY <1>1, <1>4 DEF Inv, Stages
<1>9. CountdownIsRight'
  <2>1. stage' = "page" => fetches' # {}
    BY <1>1 DEF Leave, Forget, Return, NewRead
  <2> QED
    BY <1>4, <2>1 DEF CountdownIsRight, PaymentShown
<1>10. AnswersAgree'
  BY <1>1, <1>2 DEF Inv, AnswersAgree
<1> QED
  BY <1>5, <1>7, <1>8, <1>9, <1>10 DEF Inv

(* A tick of the countdown: it hides the code before the corrected clock   *)
(* reaches the deadline, and no answer gets older than Latency.            *)
LEMMA TickKeepsInv ==
  ASSUME Inv, Tick
  PROVE  Inv'
<1>1. /\ stage \in {"page", "away"} /\ clock' = clock + 1
      /\ \A f \in fetches : clock < f.sentAt + Latency
      /\ expired' = (expired \/ (PaymentShown /\ Counted(clock')))
      /\ button' = ButtonOf(~ expired')
      /\ tokens' = IF tokens < Burst THEN tokens + 1 ELSE tokens
      /\ UNCHANGED <<body, stage, charge, order, skew, data, offset, failing, answered, fetches>>
  BY DEF Tick
<1>2. clock \in Nat /\ clock' \in Nat /\ skew \in Int /\ offset \in Int
  BY <1>1, OpenPageTypes
<1>3. button' \in {"ready", "pending", "limited", "failed"} /\ button' \in {button, "ready"}
  BY <1>1 DEF Inv, TypeOK, ButtonOf
<1>4. tokens' \in 0 .. Burst
  BY <1>1, Constants DEF Inv, TypeOK
<1>5. expired' \in BOOLEAN
  BY <1>1 DEF Inv, TypeOK, PaymentShown, Counted
<1>6. TypeOK'
  BY <1>1, <1>2, <1>3, <1>4, <1>5 DEF Inv, TypeOK
<1>7. Stages' /\ OneRead' /\ AnswersAgree'
  BY <1>1, <1>3 DEF Inv, Stages, OneRead, AnswersAgree
<1>8. ReadsAreFresh'
  <2>1. SUFFICES ASSUME NEW f \in fetches
                 PROVE  Fresh(f)'
    BY <1>1 DEF ReadsAreFresh
  <2>2. Fresh(f) /\ clock < f.sentAt + Latency
    BY <1>1 DEF Inv, ReadsAreFresh
  <2> QED
    BY <1>1, <1>2, <2>2, OpenPageTypes, Constants DEF Fresh
<1>9. CountdownIsRight'
  <2>1. SUFFICES ASSUME PaymentShown'
                 PROVE  IF answered THEN OffsetIsFresh' ELSE fetches # {}
    BY <1>1 DEF CountdownIsRight
  <2>2. PaymentShown /\ ~ Counted(clock')
    BY <1>1, <2>1 DEF PaymentShown
  <2>3. data # None /\ data.payment \in Nat
    BY <2>2, OpenPageTypes DEF PaymentShown
  <2> QED
    BY <1>1, <1>2, <2>2, <2>3 DEF Inv, CountdownIsRight, OffsetIsFresh, Counted
<1> QED
  BY <1>6, <1>7, <1>8, <1>9 DEF Inv

(* Pressing the button, and being refused by the rate limiter.             *)
LEMMA ButtonKeepsInv ==
  ASSUME Inv, Press \/ TooSoon
  PROVE  Inv'
<1>1. /\ UNCHANGED <<body, stage, charge, order, clock, skew, data, offset, expired, failing,
                     answered, fetches, tokens>>
      /\ button' \in {"pending", "limited"}
  BY DEF Press, TooSoon, view
<1>2. stage = "page"
  BY DEF Press, TooSoon, Inv, Stages, PaymentShown
<1>3. TypeOK' /\ Stages' /\ OneRead'
  BY <1>1, <1>2 DEF Inv, TypeOK, Stages, OneRead
<1>4. ReadsAreFresh'
  BY <1>1 DEF Inv, ReadsAreFresh, Fresh
<1>5. CountdownIsRight' /\ AnswersAgree'
  BY <1>1 DEF Inv, CountdownIsRight, OffsetIsFresh, PaymentShown, AnswersAgree
<1> QED
  BY <1>3, <1>4, <1>5 DEF Inv

(* The status check: a final status stays, and either the read under way   *)
(* is replaced by one that starts after the change, or the check failed    *)
(* and the read under way goes on, answered before the change or after it. *)
LEMMA RefreshKeepsInv ==
  ASSUME Inv, NEW a \in StatusAnswer, NEW status \in {"PENDING"} \cup Final, Refresh(a, status)
  PROVE  Inv'
<1>1. /\ button = "pending" /\ tokens > 0 /\ tokens' = tokens - 1
      /\ UNCHANGED <<body, stage, charge, clock, skew, data, offset, expired, failing, answered>>
  BY DEF Refresh, view
<1>2. stage = "page"
  BY <1>1 DEF Inv, Stages
<1>3. tokens' \in 0 .. Burst
  BY <1>1, Constants DEF Inv, TypeOK
<1>4. button' \in {"ready", "failed"}
  BY <1>2 DEF Refresh
<1>5. order \in [status : {"NONE", "PENDING"} \cup Final, qr : BOOLEAN, deadline : Nat]
  BY DEF Inv, TypeOK
<1>6. /\ order' \in [status : {"NONE", "PENDING"} \cup Final, qr : BOOLEAN, deadline : Nat]
      /\ order'.deadline = order.deadline /\ order'.status \in {"PENDING"} \cup Final
      /\ order.status \in Final => order'.status = order.status
      /\ \/ fetches' = {[sentAt |-> clock, reply |-> None]}
         \/ fetches' = fetches
  <2>1. order.status \in {"PENDING"} \cup Final
    BY <1>2 DEF Inv, Stages
  <2>2. /\ order' = order \/ order' = Reconciled(status)
        /\ fetches' = fetches \/ fetches' = {[sentAt |-> clock, reply |-> None]}
    BY DEF Refresh, Invalidate, NewRead
  <2>3. CASE order' = order
    BY <1>5, <2>1, <2>2, <2>3
  <2>4. CASE order' = Reconciled(status)
    <3>1. PICK s \in {"PENDING"} \cup Final :
            order' = [order EXCEPT !.status = s] /\ (order.status \in Final => s = order.status)
      BY <2>1, <2>4 DEF Reconciled, Final
    <3> QED
      BY <1>5, <2>2, <3>1
  <2> QED
    BY <2>2, <2>3, <2>4
<1>7. fetches' \subseteq Fetch /\ OneRead' /\ ReadsAreFresh'
  <2>1. CASE fetches' = fetches
    BY <1>1, <1>6, <2>1 DEF Inv, TypeOK, OneRead, ReadsAreFresh, Fresh
  <2>2. CASE fetches' = {[sentAt |-> clock, reply |-> None]}
    <3>1. clock <= clock /\ clock <= clock + Latency
      BY OpenPageTypes, Constants
    <3> QED
      BY <1>1, <2>2, <3>1, OpenPageTypes DEF Fetch, OneRead, ReadsAreFresh, Fresh
  <2> QED
    BY <1>6, <2>1, <2>2
<1>8. TypeOK'
  BY <1>1, <1>3, <1>4, <1>6, <1>7 DEF Inv, TypeOK
<1>9. Stages'
  BY <1>1, <1>2, <1>6 DEF Inv, Stages
<1>10. CountdownIsRight'
  BY <1>1, <1>6 DEF Inv, CountdownIsRight, OffsetIsFresh, PaymentShown
<1>11. AnswersAgree'
  BY <1>1, <1>6 DEF Inv, AnswersAgree
<1> QED
  BY <1>7, <1>8, <1>9, <1>10, <1>11 DEF Inv

(* The invariant, from a request that has not been sent.                   *)
LEMMA GuestInvariant == Spec => []Inv
<1>1. Init => Inv
  <2>1. SUFFICES ASSUME Init PROVE Inv
    OBVIOUS
  <2>2. NoOrder \in [status : {"NONE", "PENDING"} \cup Final, qr : BOOLEAN, deadline : Nat]
    BY DEF NoOrder
  <2>3. TypeOK
    <3>1. /\ order \in [status : {"NONE", "PENDING"} \cup Final, qr : BOOLEAN, deadline : Nat]
          /\ body \in Bodies \cup {None} /\ data \in Detail \cup {None} /\ fetches \subseteq Fetch
      BY <2>1, <2>2 DEF Init
    <3>2. clock \in Nat /\ skew \in Skews /\ offset \in Int /\ tokens \in 0 .. Burst
      BY <2>1, Constants DEF Init
    <3>3. /\ stage \in {"form", "charging", "page", "away", "refused"}
          /\ expired \in BOOLEAN /\ failing \in BOOLEAN /\ answered \in BOOLEAN
          /\ button \in {"ready", "pending", "limited", "failed"}
      BY <2>1 DEF Init
    <3> QED
      BY <3>1, <3>2, <3>3 DEF TypeOK
  <2>4. Stages /\ OneRead /\ ReadsAreFresh
    BY <2>1 DEF Init, Stages, OneRead, ReadsAreFresh
  <2>5. CountdownIsRight /\ AnswersAgree
    BY <2>1 DEF Init, CountdownIsRight, PaymentShown, AnswersAgree
  <2> QED
    BY <2>3, <2>4, <2>5 DEF Inv
<1>2. Inv /\ [Next]_vars => Inv'
  <2>1. SUFFICES ASSUME Inv, [Next]_vars PROVE Inv'
    OBVIOUS
  <2>2. CASE Refuse \/ Reserve \/ \E a \in ChargeAnswer : CompensateCharge(a) \/ OpenPage(a)
    BY <2>1, <2>2, CheckoutKeepsInv
  <2>3. CASE \E status \in Final : Settle(status)
    BY <2>1, <2>3, SettleKeepsInv
  <2>4. CASE \E f \in fetches : OrderByNumber(f)
    BY <2>1, <2>4, AnswerKeepsInv
  <2>5. CASE \E f \in fetches : Receive(f)
    BY <2>1, <2>5, ReceiveKeepsInv
  <2>6. CASE Poll \/ Refocus \/ \E f \in fetches : ReceiveError(f)
    BY <2>1, <2>6, ReadKeepsInv
  <2>7. CASE Tick
    BY <2>1, <2>7, TickKeepsInv
  <2>8. CASE Press \/ TooSoon
    BY <2>1, <2>8, ButtonKeepsInv
  <2>9. CASE \E a \in StatusAnswer, status \in {"PENDING"} \cup Final : Refresh(a, status)
    BY <2>1, <2>9, RefreshKeepsInv
  <2>10. CASE Leave \/ Forget \/ Return
    BY <2>1, <2>10, VisitKeepsInv
  <2>11. CASE UNCHANGED vars
    <3>1. UNCHANGED <<body, stage, charge, order, clock, skew, data, offset, expired, failing,
                      answered, fetches, button, tokens>>
      BY <2>11 DEF vars, page, view
    <3>2. TypeOK' /\ Stages' /\ OneRead'
      BY <2>1, <3>1 DEF Inv, TypeOK, Stages, OneRead
    <3>3. ReadsAreFresh'
      BY <2>1, <3>1 DEF Inv, ReadsAreFresh, Fresh
    <3>4. CountdownIsRight' /\ AnswersAgree'
      BY <2>1, <3>1 DEF Inv, CountdownIsRight, OffsetIsFresh, PaymentShown, AnswersAgree
    <3> QED
      BY <3>2, <3>3, <3>4 DEF Inv
  <2> QED
    BY <2>1, <2>2, <2>3, <2>4, <2>5, <2>6, <2>7, <2>8, <2>9, <2>10, <2>11 DEF Next
<1> QED
  BY <1>1, <1>2, PTL DEF Spec

-----------------------------------------------------------------------------
(* The request, the order, the clocks and the page keep their types.       *)
THEOREM GuestTyped == Spec => []TypeOK
<1>1. Inv => TypeOK
  BY DEF Inv
<1> QED
  BY <1>1, GuestInvariant, PTL

(* However wrong the device's clock is, the countdown of a page that has   *)
(* had an answer hides the code before its deadline is older than an       *)
(* answer can be, and a page reopened with an answer from the cache shows  *)
(* the code no longer than the read that replaces it is under way.         *)
(* (expiry-countdown.tsx)                                                  *)
THEOREM CodesDie == Spec => []CodeDiesInTime
<1>1. Inv => CodeDiesInTime
  <2>1. SUFFICES ASSUME Inv, PaymentShown, answered
                 PROVE  clock < order.deadline + Latency
    BY DEF CodeDiesInTime, Inv, CountdownIsRight
  <2>2. /\ data.payment = order.deadline /\ clock + skew + offset < data.payment
        /\ skew + offset + Latency >= 0
    BY <2>1 DEF Inv, CountdownIsRight, OffsetIsFresh
  <2> QED
    BY <2>1, <2>2, OpenPageTypes, Constants
<1> QED
  BY <1>1, GuestInvariant, PTL

(* A final status that the page shows stays: no answer from before the     *)
(* change arrives after one from after it, because one read is under way   *)
(* at a time and the button cancels it.  (queries.ts: useOrderDetail)      *)
THEOREM StatusStaysShown == Spec => FinalStatusStaysShown
<1> DEFINE Stays == data # None /\ data' # None /\ data.status \in Final => data'.status = data.status
<1>1. Inv /\ [Next]_vars => [Stays]_vars
  <2>1. SUFFICES ASSUME Inv, [Next]_vars, data # None, data' # None, data.status \in Final
                 PROVE  data'.status = data.status
    OBVIOUS
  <2>2. CASE \E f \in fetches : Receive(f)
    BY <2>1, <2>2 DEF Inv, AnswersAgree, Receive
  <2>3. CASE data' = data
    BY <2>3
  <2>4. (\E f \in fetches : Receive(f)) \/ data' = data
    BY <2>1 DEF Next, Refuse, Reserve, CompensateCharge, OpenPage, Settle, OrderByNumber, Poll,
                ReceiveError, Tick, Press, TooSoon, Refresh, Leave, Forget, Return, Refocus,
                vars, page, view
  <2> QED
    BY <2>2, <2>3, <2>4
<1> QED
  BY <1>1, GuestInvariant, PTL DEF Spec, FinalStatusStaysShown

-----------------------------------------------------------------------------
(* Sums over the lines of a request.  A fold picks the elements of a set   *)
(* one by one; what it returns is shown by induction, over sets of numbers *)
(* and of subsets instead of predicates.                                   *)
Pick(s) == CHOOSE x \in s : TRUE

LEMMA PickOne ==
  ASSUME NEW s, s # {}
  PROVE  Pick(s) \in s
BY DEF Pick

LEMMA NatSetInduction ==
  ASSUME NEW A, 0 \in A, \A n \in Nat : n \in A => n + 1 \in A
  PROVE  Nat \subseteq A
<1> DEFINE Missing == {n \in Nat : n \notin A}
<1>1. SUFFICES ASSUME Missing # {}
               PROVE  FALSE
  OBVIOUS
<1>2. PICK n \in Missing : \A m \in Missing : n <= m
  <2> DEFINE Less == OpToRel(<, Nat)
  <2>1. \A m, n \in Nat : <<m, n>> \in Less <=> m < n
    BY DEF OpToRel
  <2>2. IsWellFoundedOn(Less, Nat)
    BY NatLessThanWellFounded
  <2> HIDE DEF Less
  <2>3. \E n \in Missing : \A m \in Missing : ~ (<<m, n>> \in Less)
    BY <1>1, <2>2, WFMin
  <2>4. \A m, n \in Missing : n <= m <=> ~ (m < n)
    OBVIOUS
  <2> QED
    BY <2>1, <2>3, <2>4
<1>3. n \in Nat /\ n # 0 /\ n - 1 \in Nat
  BY <1>2
<1>4. n - 1 \notin Missing
  BY <1>2, <1>3
<1>5. n - 1 \in A
  BY <1>3, <1>4
<1>6. (n - 1) + 1 \in A
  BY <1>3, <1>5
<1> QED
  BY <1>2, <1>3, <1>6

(* What the empty set has, and every set that has it without the element   *)
(* picked from it, the whole set has.                                      *)
LEMMA SubsetInduction ==
  ASSUME NEW S, IsFiniteSet(S), NEW Good, {} \in Good,
         \A s \in SUBSET S : s # {} /\ s \ {Pick(s)} \in Good => s \in Good
  PROVE  S \in Good
<1> DEFINE A == {n \in Nat : \A s \in SUBSET S : Cardinality(s) = n => s \in Good}
<1>1. 0 \in A
  <2>1. ASSUME NEW s \in SUBSET S, Cardinality(s) = 0
        PROVE  s \in Good
    <3>1. IsFiniteSet(s)
      BY FS_Subset
    <3>2. s = {}
      BY <2>1, <3>1, FS_EmptySet
    <3> QED
      BY <3>2
  <2> QED
    BY <2>1
<1>2. \A n \in Nat : n \in A => n + 1 \in A
  <2>1. SUFFICES ASSUME NEW n \in Nat, n \in A, NEW s \in SUBSET S, Cardinality(s) = n + 1
                 PROVE  s \in Good
    OBVIOUS
  <2>2. IsFiniteSet(s)
    BY FS_Subset
  <2>3. s # {}
    BY <2>1, <2>2, FS_EmptySet
  <2>4. Pick(s) \in s
    BY <2>3, PickOne
  <2>5. Cardinality(s \ {Pick(s)}) = Cardinality(s) - 1
    BY <2>2, <2>4, FS_RemoveElement
  <2>6. Cardinality(s \ {Pick(s)}) = n
    BY <2>1, <2>5
  <2>7. s \ {Pick(s)} \in Good
    BY <2>1, <2>6
  <2> QED
    BY <2>3, <2>7
<1> HIDE DEF A
<1>3. Nat \subseteq A
  BY <1>1, <1>2, NatSetInduction
<1>4. Cardinality(S) \in A
  BY <1>3, FS_CardinalityType
<1> QED
  BY <1>4 DEF A

(* The value of a fold whose step at x turns v into G[x][v].               *)
IsFold(F, S, G) ==
  F = [s \in SUBSET S |-> IF s = {} THEN 0 ELSE G[Pick(s)][F[s \ {Pick(s)}]]]

(* One exists: the sets of n elements at most have one, for every n.       *)
LEMMA FoldExists ==
  ASSUME NEW S, IsFiniteSet(S), NEW G \in [S -> [Int -> Int]]
  PROVE  \E F \in [SUBSET S -> Int] : IsFold(F, S, G)
<1> DEFINE D(n) == {s \in SUBSET S : Cardinality(s) <= n}
           Folds(F, n) == \A s \in D(n) : F[s] = IF s = {} THEN 0 ELSE G[Pick(s)][F[s \ {Pick(s)}]]
           A == {n \in Nat : \E F \in [D(n) -> Int] : Folds(F, n)}
<1>1. ASSUME NEW s \in SUBSET S
      PROVE  /\ IsFiniteSet(s) /\ Cardinality(s) \in Nat /\ (Cardinality(s) = 0 <=> s = {})
             /\ Cardinality(s) <= Cardinality(S)
             /\ s # {} => Pick(s) \in s /\ Cardinality(s \ {Pick(s)}) = Cardinality(s) - 1
  <2>1. IsFiniteSet(s) /\ Cardinality(s) <= Cardinality(S)
    BY FS_Subset
  <2>2. Cardinality(s) \in Nat /\ (Cardinality(s) = 0 <=> s = {})
    BY <2>1, FS_CardinalityType, FS_EmptySet
  <2>3. ASSUME s # {}
        PROVE  Pick(s) \in s /\ Cardinality(s \ {Pick(s)}) = Cardinality(s) - 1
    <3>1. Pick(s) \in s
      BY <2>3, PickOne
    <3> QED
      BY <2>1, <3>1, FS_RemoveElement
  <2> QED
    BY <2>1, <2>2, <2>3
<1> DEFINE rest(s) == s \ {Pick(s)}
<1>a. \A s \in SUBSET S : s # {} => Pick(s) \in S /\ rest(s) \in SUBSET S
  BY <1>1
<1>b. \A s \in SUBSET S : Cardinality(s) \in Nat /\ (Cardinality(s) = 0 <=> s = {})
  BY <1>1
<1>c. \A s \in SUBSET S : s # {} => Cardinality(rest(s)) = Cardinality(s) - 1
  BY <1>1
<1> HIDE DEF rest
<1>2. 0 \in A
  <2>0. \A s \in SUBSET S : Cardinality(s) <= 0 <=> s = {}
    BY <1>b
  <2>1. D(0) = {{}}
    BY <2>0
  <2> DEFINE E == [s \in D(0) |-> 0]
  <2>2. E \in [D(0) -> Int]
    OBVIOUS
  <2>3. Folds(E, 0)
    BY <2>1
  <2> QED
    BY <2>2, <2>3
<1>3. \A n \in Nat : n \in A => n + 1 \in A
  <2>1. SUFFICES ASSUME NEW n \in Nat, NEW F \in [D(n) -> Int], Folds(F, n)
                 PROVE  \E E \in [D(n + 1) -> Int] : Folds(E, n + 1)
    <3> HIDE DEF D, Folds
    <3> QED
      OBVIOUS
  <2> DEFINE next(s) == IF s = {} THEN 0 ELSE G[Pick(s)][F[s \ {Pick(s)}]]
             E == [s \in D(n + 1) |-> next(s)]
  <2>2. ASSUME NEW s \in D(n + 1), s # {}
        PROVE  s \ {Pick(s)} \in D(n) /\ Pick(s) \in S
    <3>1. s \in SUBSET S /\ Cardinality(s) <= n + 1
      OBVIOUS
    <3>2. Cardinality(rest(s)) <= n
      BY <1>b, <1>c, <2>2, <3>1
    <3>3. rest(s) \in D(n)
      BY <1>a, <2>2, <3>1, <3>2
    <3> QED
      BY <1>a, <2>2, <3>1, <3>3 DEF rest
  <2>3. ASSUME NEW s \in D(n + 1)
        PROVE  next(s) \in Int
    <3>1. CASE s = {}
      BY <3>1
    <3>2. CASE s # {}
      <4>1. F[s \ {Pick(s)}] \in Int
        BY <2>1, <2>2, <3>2
      <4> QED
        BY <2>2, <3>2, <4>1
    <3> QED
      BY <3>1, <3>2
  <2>4. \A s \in D(n) : s \in D(n + 1) /\ F[s] = next(s)
    <3>1. \A s \in SUBSET S : Cardinality(s) <= n => Cardinality(s) <= n + 1
      BY <1>b
    <3> QED
      BY <2>1, <3>1
  <2> HIDE DEF next, D
  <2>5. /\ E \in [D(n + 1) -> Int]
        /\ \A s \in D(n + 1) : E[s] = next(s)
    BY <2>3
  <2> HIDE DEF E
  <2>6. ASSUME NEW s \in D(n + 1)
        PROVE  E[s] = IF s = {} THEN 0 ELSE G[Pick(s)][E[s \ {Pick(s)}]]
    <3>1. CASE s = {}
      BY <2>5, <3>1 DEF next
    <3>2. CASE s # {}
      <4>1. E[s \ {Pick(s)}] = F[s \ {Pick(s)}]
        BY <2>2, <2>4, <2>5, <3>2
      <4> QED
        BY <2>5, <3>2, <4>1 DEF next
    <3> QED
      BY <3>1, <3>2
  <2> QED
    BY <2>5, <2>6
<1>4. Cardinality(S) \in A
  <2> HIDE DEF A
  <2>1. Nat \subseteq A
    BY <1>2, <1>3, NatSetInduction
  <2> QED
    BY <2>1, FS_CardinalityType
<1>5. D(Cardinality(S)) = SUBSET S
  BY <1>1
<1>6. PICK F \in [SUBSET S -> Int] :
        \A s \in SUBSET S : F[s] = IF s = {} THEN 0 ELSE G[Pick(s)][F[s \ {Pick(s)}]]
  BY <1>4, <1>5
<1>7. IsFold(F, S, G)
  BY <1>6 DEF IsFold
<1> QED
  BY <1>7

(* A fold that adds up weights.                                            *)
IsSum(F, S, w) ==
  F = [s \in SUBSET S |-> IF s = {} THEN 0 ELSE F[s \ {Pick(s)}] + w[Pick(s)]]

LEMMA SumExists ==
  ASSUME NEW S, IsFiniteSet(S), NEW w \in [S -> Int]
  PROVE  \E F : IsSum(F, S, w)
<1> DEFINE G == [x \in S |-> [v \in Int |-> v + w[x]]]
<1>1. G \in [S -> [Int -> Int]]
  OBVIOUS
<1>2. \A x \in S, v \in Int : G[x][v] = v + w[x]
  OBVIOUS
<1> HIDE DEF G
<1>3. PICK F \in [SUBSET S -> Int] : IsFold(F, S, G)
  BY <1>1, FoldExists
<1>4. ASSUME NEW s \in SUBSET S, s # {}
      PROVE  G[Pick(s)][F[s \ {Pick(s)}]] = F[s \ {Pick(s)}] + w[Pick(s)]
  <2>1. Pick(s) \in S /\ F[s \ {Pick(s)}] \in Int
    BY <1>3, <1>4, PickOne
  <2> QED
    BY <1>2, <2>1
<1>5. IsSum(F, S, w)
  BY <1>3, <1>4 DEF IsFold, IsSum
<1> QED
  BY <1>5

(* The amounts of a charge are such sums.                                  *)
LineAmounts(r) == [i \in DOMAIN r.items |-> Price[r.items[i].type] * r.items[i].quantity]
LineFractions(r) ==
  [i \in DOMAIN r.items |-> (Price[r.items[i].type] % PartsPerRupiah) * r.items[i].quantity]
ItemAmounts(c) == [i \in DOMAIN c.items |-> c.items[i].price * c.items[i].quantity]

LEMMA AmountIsSum ==
  ASSUME NEW r, IsFiniteSet(DOMAIN r.items), LineAmounts(r) \in [DOMAIN r.items -> Int]
  PROVE  \E F : IsSum(F, DOMAIN r.items, LineAmounts(r)) /\ TotalAmount(r) = F[DOMAIN r.items]
<1> DEFINE S == DOMAIN r.items
           Adds(F) == F = [s \in SUBSET S |-> IF s = {} THEN 0
                             ELSE F[s \ {CHOOSE x \in s : TRUE}]
                                    + Price[r.items[CHOOSE x \in s : TRUE].type]
                                        * r.items[CHOOSE x \in s : TRUE].quantity]
<1>1. TotalAmount(r) = (CHOOSE F : Adds(F))[S]
  BY DEF TotalAmount, FoldSeq, FoldFunction, FoldFunctionOnSet, MapThenFoldSet
<1>2. ASSUME NEW F
      PROVE  Adds(F) <=> IsSum(F, S, LineAmounts(r))
  <2>1. ASSUME NEW s \in SUBSET S, s # {}
        PROVE  LineAmounts(r)[Pick(s)] = Price[r.items[Pick(s)].type] * r.items[Pick(s)].quantity
    BY <2>1, PickOne DEF LineAmounts
  <2> DEFINE amount(x) == Price[r.items[x].type] * r.items[x].quantity
  <2>2. IsSum(F, S, LineAmounts(r)) <=>
          F = [s \in SUBSET S |-> IF s = {} THEN 0 ELSE F[s \ {Pick(s)}] + amount(Pick(s))]
    <3> HIDE DEF amount
    <3>1. \A s \in SUBSET S : s # {} => LineAmounts(r)[Pick(s)] = amount(Pick(s))
      BY <2>1 DEF amount
    <3> QED
      BY <3>1 DEF IsSum
  <2> QED
    BY <2>2 DEF Pick
<1>3. \E F : IsSum(F, S, LineAmounts(r))
  BY SumExists
<1> HIDE DEF Adds
<1>4. Adds(CHOOSE F : Adds(F))
  BY <1>2, <1>3
<1> QED
  BY <1>1, <1>2, <1>4

LEMMA FractionsAreSum ==
  ASSUME NEW r, IsFiniteSet(DOMAIN r.items), LineFractions(r) \in [DOMAIN r.items -> Int]
  PROVE  \E F : IsSum(F, DOMAIN r.items, LineFractions(r)) /\ FractionsTotal(r) = F[DOMAIN r.items]
<1> DEFINE S == DOMAIN r.items
           Adds(F) == F = [s \in SUBSET S |-> IF s = {} THEN 0
                             ELSE F[s \ {CHOOSE x \in s : TRUE}]
                                    + (Price[r.items[CHOOSE x \in s : TRUE].type] % PartsPerRupiah)
                                        * r.items[CHOOSE x \in s : TRUE].quantity]
<1>1. FractionsTotal(r) = (CHOOSE F : Adds(F))[S]
  BY DEF FractionsTotal, FoldSeq, FoldFunction, FoldFunctionOnSet, MapThenFoldSet
<1>2. ASSUME NEW F
      PROVE  Adds(F) <=> IsSum(F, S, LineFractions(r))
  <2>1. ASSUME NEW s \in SUBSET S, s # {}
        PROVE  LineFractions(r)[Pick(s)] =
                 (Price[r.items[Pick(s)].type] % PartsPerRupiah) * r.items[Pick(s)].quantity
    BY <2>1, PickOne DEF LineFractions
  <2> DEFINE amount(x) == (Price[r.items[x].type] % PartsPerRupiah) * r.items[x].quantity
  <2>2. IsSum(F, S, LineFractions(r)) <=>
          F = [s \in SUBSET S |-> IF s = {} THEN 0 ELSE F[s \ {Pick(s)}] + amount(Pick(s))]
    <3> HIDE DEF amount
    <3>1. \A s \in SUBSET S : s # {} => LineFractions(r)[Pick(s)] = amount(Pick(s))
      BY <2>1 DEF amount
    <3> QED
      BY <3>1 DEF IsSum
  <2> QED
    BY <2>2 DEF Pick
<1>3. \E F : IsSum(F, S, LineFractions(r))
  BY SumExists
<1> HIDE DEF Adds
<1>4. Adds(CHOOSE F : Adds(F))
  BY <1>2, <1>3
<1> QED
  BY <1>1, <1>2, <1>4

LEMMA ItemsAreSum ==
  ASSUME NEW c, IsFiniteSet(DOMAIN c.items), ItemAmounts(c) \in [DOMAIN c.items -> Int]
  PROVE  \E F : IsSum(F, DOMAIN c.items, ItemAmounts(c)) /\ ItemsTotal(c) = F[DOMAIN c.items]
<1> DEFINE S == DOMAIN c.items
           Adds(F) == F = [s \in SUBSET S |-> IF s = {} THEN 0
                             ELSE F[s \ {CHOOSE x \in s : TRUE}]
                                    + c.items[CHOOSE x \in s : TRUE].price
                                        * c.items[CHOOSE x \in s : TRUE].quantity]
<1>1. ItemsTotal(c) = (CHOOSE F : Adds(F))[S]
  BY DEF ItemsTotal, FoldSeq, FoldFunction, FoldFunctionOnSet, MapThenFoldSet
<1>2. ASSUME NEW F
      PROVE  Adds(F) <=> IsSum(F, S, ItemAmounts(c))
  <2>1. ASSUME NEW s \in SUBSET S, s # {}
        PROVE  ItemAmounts(c)[Pick(s)] = c.items[Pick(s)].price * c.items[Pick(s)].quantity
    BY <2>1, PickOne DEF ItemAmounts
  <2> QED
    BY <2>1 DEF IsSum, Pick
<1>3. \E F : IsSum(F, S, ItemAmounts(c))
  BY SumExists
<1> HIDE DEF Adds
<1>4. Adds(CHOOSE F : Adds(F))
  BY <1>2, <1>3
<1> QED
  BY <1>1, <1>2, <1>4

(* Wrapping leaves a number an int32 holds as it is, and only such numbers. *)
LEMMA WrapFits ==
  ASSUME NEW n \in Int
  PROVE  /\ Wrap(n) \in Int /\ -IntLimit <= Wrap(n) /\ Wrap(n) < IntLimit
         /\ n \in 0 .. (IntLimit - 1) => Wrap(n) = n
<1>1. IntLimit \in Nat /\ IntLimit > 0
  BY CheckoutRequestAssumption
<1>2. (n + IntLimit) % (2 * IntLimit) \in 0 .. (2 * IntLimit - 1)
  BY <1>1
<1>3. ASSUME n \in 0 .. (IntLimit - 1)
      PROVE  (n + IntLimit) % (2 * IntLimit) = n + IntLimit
  BY <1>1, <1>3
<1> QED
  BY <1>1, <1>2, <1>3 DEF Wrap

(* The running total of the quantities is such a number, too.              *)
LEMMA TotalIsHeld ==
  ASSUME NEW r, IsFiniteSet(DOMAIN r.items), \A i \in DOMAIN r.items : r.items[i].quantity \in Int
  PROVE  TotalQuantity(r) \in Int /\ TotalQuantity(r) < IntLimit
<1> DEFINE S == DOMAIN r.items
           Adds(F) == F = [s \in SUBSET S |-> IF s = {} THEN 0
                             ELSE Wrap(F[s \ {CHOOSE x \in s : TRUE}]
                                         + r.items[CHOOSE x \in s : TRUE].quantity)]
           G == [x \in S |-> [v \in Int |-> Wrap(v + r.items[x].quantity)]]
<1>1. TotalQuantity(r) = (CHOOSE F : Adds(F))[S]
  BY DEF TotalQuantity, FoldSeq, FoldFunction, FoldFunctionOnSet, MapThenFoldSet
<1>2. \E F : Adds(F)
  <2>1. G \in [S -> [Int -> Int]] /\ \A x \in S, v \in Int : G[x][v] = Wrap(v + r.items[x].quantity)
    <3>1. \A x \in S, v \in Int : Wrap(v + r.items[x].quantity) \in Int
      BY WrapFits
    <3> QED
      BY <3>1
  <2> HIDE DEF G
  <2>2. PICK F \in [SUBSET S -> Int] : IsFold(F, S, G)
    BY <2>1, FoldExists
  <2>3. ASSUME NEW s \in SUBSET S, s # {}
        PROVE  G[Pick(s)][F[s \ {Pick(s)}]] = Wrap(F[s \ {Pick(s)}] + r.items[Pick(s)].quantity)
    <3>1. Pick(s) \in S /\ F[s \ {Pick(s)}] \in Int
      BY <2>2, <2>3, PickOne
    <3> QED
      BY <2>1, <3>1
  <2>4. Adds(F)
    BY <2>2, <2>3 DEF IsFold, Pick
  <2> QED
    BY <2>4
<1> DEFINE F == CHOOSE F : Adds(F)
           Good == {s \in SUBSET S : F[s] \in Int /\ F[s] < IntLimit}
<1>3. Adds(F)
  <2> HIDE DEF Adds
  <2> QED
    BY <1>2
<1>4. /\ F[{}] = 0
      /\ \A s \in SUBSET S : s # {} => F[s] = Wrap(F[s \ {Pick(s)}] + r.items[Pick(s)].quantity)
  <2> HIDE DEF F
  <2> QED
    BY <1>3 DEF Pick
<1> HIDE DEF F
<1>5. {} \in Good
  BY <1>4, CheckoutRequestAssumption
<1>6. ASSUME NEW s \in SUBSET S, s # {}, s \ {Pick(s)} \in Good
      PROVE  s \in Good
  <2>1. F[s \ {Pick(s)}] + r.items[Pick(s)].quantity \in Int
    BY <1>6, PickOne
  <2> QED
    BY <1>4, <1>6, <2>1, WrapFits
<1> HIDE DEF Good
<1>7. S \in Good
  BY <1>5, <1>6, SubsetInduction
<1> QED
  BY <1>1, <1>7 DEF Good, F

(* What a request that was accepted is known to be.                        *)
Accepted(r) ==
  /\ r.items \in Seq(CheckoutItem) /\ r.attendees \in Seq(TicketTypes \cup {NilType})
  /\ ~ Incomplete(r) /\ ~ AttendeesMiscounted(r)

LEMMA AcceptedLines ==
  ASSUME NEW r, Accepted(r)
  PROVE  /\ IsFiniteSet(DOMAIN r.items) /\ IsFiniteSet(DOMAIN r.attendees)
         /\ Cardinality(DOMAIN r.attendees) = Len(r.attendees) /\ Len(r.attendees) \in Nat
         /\ \A i \in DOMAIN r.items :
              /\ r.items[i].type \in TicketTypes /\ r.items[i].quantity \in Nat
              /\ Price[r.items[i].type] \in Nat
         /\ \A i, j \in DOMAIN r.items : r.items[i].type = r.items[j].type => i = j
         /\ \A k \in DOMAIN r.attendees :
              \E i \in DOMAIN r.items : r.items[i].type = r.attendees[k]
         /\ TotalQuantity(r) = Len(r.attendees)
<1>1. /\ Len(r.items) \in Nat /\ DOMAIN r.items = 1 .. Len(r.items)
      /\ Len(r.attendees) \in Nat /\ DOMAIN r.attendees = 1 .. Len(r.attendees)
  BY DEF Accepted
<1>2. /\ IsFiniteSet(DOMAIN r.items) /\ IsFiniteSet(DOMAIN r.attendees)
      /\ Cardinality(DOMAIN r.attendees) = Len(r.attendees)
  <2>1. \A n \in Nat : IsFiniteSet(1 .. n) /\ Cardinality(1 .. n) = n
    BY FS_Interval
  <2> QED
    BY <1>1, <2>1
<1>3. ASSUME NEW i \in DOMAIN r.items
      PROVE  /\ r.items[i].type \in TicketTypes /\ r.items[i].quantity \in Nat
             /\ Price[r.items[i].type] \in Nat
  <2>1. r.items[i] \in CheckoutItem
    BY <1>1 DEF Accepted
  <2>2. r.items[i].type \in TicketTypes \cup {NilType} /\ r.items[i].quantity \in Int
    BY <2>1 DEF CheckoutItem
  <2>3. r.items[i].type # NilType /\ ~ (r.items[i].quantity < 1)
    BY DEF Accepted, Incomplete
  <2> QED
    BY <2>2, <2>3, CheckoutRequestAssumption
<1>4. /\ \A i, j \in DOMAIN r.items : r.items[i].type = r.items[j].type => i = j
      /\ \A k \in DOMAIN r.attendees :
           \E i \in DOMAIN r.items : r.items[i].type = r.attendees[k]
      /\ TotalQuantity(r) = Len(r.attendees)
  BY DEF Accepted, Incomplete, AttendeesMiscounted
<1> QED
  BY <1>1, <1>2, <1>3, <1>4

(* The counters of the attendees do not wrap: no type is named more often  *)
(* than there are attendees, and their number is a total an int32 held.    *)
LEMMA CountsAreExact ==
  ASSUME NEW r, Accepted(r), NEW i \in DOMAIN r.items
  PROVE  Cardinality(Attendees(r, r.items[i].type)) = r.items[i].quantity
<1> DEFINE named == Attendees(r, r.items[i].type)
<1>1. named \subseteq DOMAIN r.attendees
  BY DEF Attendees
<1>2. IsFiniteSet(named) /\ Cardinality(named) <= Len(r.attendees)
  BY <1>1, AcceptedLines, FS_Subset
<1>3. Cardinality(named) \in Nat
  BY <1>2, FS_CardinalityType
<1>4. Len(r.attendees) < IntLimit
  <2>1. \A k \in DOMAIN r.items : r.items[k].quantity \in Int
    BY AcceptedLines
  <2> QED
    BY <2>1, AcceptedLines, TotalIsHeld
<1>5. Cardinality(named) \in 0 .. (IntLimit - 1)
  BY <1>2, <1>3, <1>4, AcceptedLines, CheckoutRequestAssumption
<1>6. Got(r, r.items[i].type) = Wrap(Cardinality(named))
  BY DEF Got, Attendees
<1>7. Got(r, r.items[i].type) = r.items[i].quantity
  BY DEF Accepted, AttendeesMiscounted
<1> HIDE DEF named
<1>8. Wrap(Cardinality(named)) = Cardinality(named)
  BY <1>3, <1>5, WrapFits
<1> QED
  BY <1>6, <1>7, <1>8 DEF named

(* A line's price is what the gateway is told of it and its fractions.     *)
LEMMA LineSplits ==
  ASSUME NEW p \in Nat, NEW q \in Nat, NEW k \in Nat \ {0}
  PROVE  /\ p * q \in Int /\ (p \div k) * q \in Int /\ (p % k) * q \in Int
         /\ p * q = k * ((p \div k) * q) + (p % k) * q
<1> DEFINE d == p \div k
           m == p % k
<1>1. d \in Int /\ m \in Int /\ p = k * d + m
  OBVIOUS
<1> HIDE DEF d, m
<1>2. p * q = k * (d * q) + m * q
  BY <1>1
<1>3. d * q \in Int /\ m * q \in Int /\ p * q \in Int
  BY <1>1
<1> QED
  BY <1>2, <1>3 DEF d, m

(* Whole rupiah can be taken out before truncating.                        *)
LEMMA TruncateSum ==
  ASSUME NEW k \in Nat \ {0}, NEW y \in Int, NEW z \in Int
  PROVE  (k * y + z) \div k = y + (z \div k)
<1> DEFINE d == z \div k
           m == z % k
           e == (k * y + z) \div k
           n == (k * y + z) % k
<1>1. d \in Int /\ m \in 0 .. (k - 1) /\ z = k * d + m
  OBVIOUS
<1>2. k * y + z \in Int
  OBVIOUS
<1>3. e \in Int /\ n \in 0 .. (k - 1) /\ k * y + z = k * e + n
  BY <1>2
<1> HIDE DEF d, m, e, n
<1>4. k * (y + d - e) = n - m
  <2>1. k * (y + d - e) = k * y + k * d - k * e
    BY <1>1, <1>3
  <2>2. k * y \in Int /\ k * d \in Int /\ k * e \in Int
    BY <1>1, <1>3
  <2> QED
    BY <1>1, <1>3, <2>1, <2>2
<1>5. ~ (y + d - e >= 1)
  <2>1. SUFFICES ASSUME y + d - e >= 1 PROVE FALSE
    OBVIOUS
  <2>2. k * (y + d - e) >= k
    BY <1>1, <1>3, <2>1
  <2> QED
    BY <1>1, <1>3, <1>4, <2>2
<1>6. ~ (y + d - e <= -1)
  <2>1. SUFFICES ASSUME y + d - e <= -1 PROVE FALSE
    OBVIOUS
  <2>2. k * (y + d - e) <= -k
    BY <1>1, <1>3, <2>1
  <2> QED
    BY <1>1, <1>3, <1>4, <2>2
<1>7. e = y + d
  BY <1>1, <1>3, <1>5, <1>6
<1> QED
  BY <1>7 DEF d, e

(* The whole charge: line by line, the order's price is what the gateway   *)
(* is told of the items and the fractions it is not told of.               *)
LEMMA ChargeSplits ==
  ASSUME NEW r, Accepted(r)
  PROVE  ChargeOf(r).gross = ItemsTotal(ChargeOf(r)) + ToRupiah(FractionsTotal(r))
<1> DEFINE S == DOMAIN r.items
           k == PartsPerRupiah
           c == ChargeOf(r)
           p(i) == Price[r.items[i].type]
           q(i) == r.items[i].quantity
<1>1. k \in Nat \ {0}
  BY CheckoutRequestAssumption
<1>2. \A i \in S : p(i) \in Nat /\ q(i) \in Nat
  BY AcceptedLines
<1>3. /\ c.gross = TotalAmount(r) \div k /\ DOMAIN c.items = S
      /\ \A i \in S : c.items[i].price = p(i) \div k /\ c.items[i].quantity = q(i)
  BY DEF ChargeOf, ChargeItems, ToRupiah
<1>4. \A i \in S :
        /\ p(i) * q(i) \in Int /\ (p(i) \div k) * q(i) \in Int /\ (p(i) % k) * q(i) \in Int
        /\ p(i) * q(i) = k * ((p(i) \div k) * q(i)) + (p(i) % k) * q(i)
  BY <1>1, <1>2, LineSplits
<1>5. /\ LineAmounts(r) \in [S -> Int] /\ \A i \in S : LineAmounts(r)[i] = p(i) * q(i)
  BY <1>4 DEF LineAmounts
<1>6. /\ ItemAmounts(c) \in [S -> Int] /\ \A i \in S : ItemAmounts(c)[i] = (p(i) \div k) * q(i)
  <2> HIDE DEF c, p, q, k
  <2> QED
    BY <1>3, <1>4 DEF ItemAmounts
<1>7. /\ LineFractions(r) \in [S -> Int]
      /\ \A i \in S : LineFractions(r)[i] = (p(i) % k) * q(i)
  BY <1>4 DEF LineFractions
<1>8. PICK A : IsSum(A, S, LineAmounts(r)) /\ TotalAmount(r) = A[S]
  BY <1>5, AmountIsSum, AcceptedLines
<1>9. PICK C : IsSum(C, S, LineFractions(r)) /\ FractionsTotal(r) = C[S]
  BY <1>7, FractionsAreSum, AcceptedLines
<1> HIDE DEF c
<1>10. PICK B : IsSum(B, S, ItemAmounts(c)) /\ ItemsTotal(c) = B[S]
  BY <1>3, <1>6, ItemsAreSum, AcceptedLines
<1> DEFINE a(s) == p(Pick(s)) * q(Pick(s))
           b(s) == (p(Pick(s)) \div k) * q(Pick(s))
           f(s) == (p(Pick(s)) % k) * q(Pick(s))
<1>11. /\ A[{}] = 0 /\ B[{}] = 0 /\ C[{}] = 0
       /\ \A s \in SUBSET S : s # {} =>
            /\ A[s] = A[s \ {Pick(s)}] + a(s)
            /\ B[s] = B[s \ {Pick(s)}] + b(s)
            /\ C[s] = C[s \ {Pick(s)}] + f(s)
  <2>1. \A s \in SUBSET S : s # {} => Pick(s) \in S
    BY PickOne
  <2> HIDE DEF p, q, k
  <2> QED
    BY <1>5, <1>6, <1>7, <1>8, <1>9, <1>10, <2>1 DEF IsSum
<1>12. \A s \in SUBSET S : s # {} =>
         a(s) \in Int /\ b(s) \in Int /\ f(s) \in Int /\ a(s) = k * b(s) + f(s)
  BY <1>4, PickOne
<1> DEFINE Good == {s \in SUBSET S : /\ A[s] \in Int /\ B[s] \in Int /\ C[s] \in Int
                                     /\ A[s] = k * B[s] + C[s]}
<1> HIDE DEF p, q, k, a, b, f
<1>13. {} \in Good
  BY <1>1, <1>11
<1>14. ASSUME NEW s \in SUBSET S, s # {}, s \ {Pick(s)} \in Good
       PROVE  s \in Good
  <2> DEFINE t == s \ {Pick(s)}
  <2>1. A[t] \in Int /\ B[t] \in Int /\ C[t] \in Int /\ A[t] = k * B[t] + C[t]
    BY <1>14
  <2>2. A[s] = A[t] + a(s) /\ B[s] = B[t] + b(s) /\ C[s] = C[t] + f(s)
    BY <1>11, <1>14
  <2>3. a(s) \in Int /\ b(s) \in Int /\ f(s) \in Int /\ a(s) = k * b(s) + f(s)
    BY <1>12, <1>14
  <2> HIDE DEF t
  <2>4. k * B[s] = k * B[t] + k * b(s) /\ k * B[t] \in Int /\ k * b(s) \in Int
    BY <1>1, <2>1, <2>2, <2>3
  <2>5. A[s] \in Int /\ B[s] \in Int /\ C[s] \in Int /\ A[s] = k * B[s] + C[s]
    BY <2>1, <2>2, <2>3, <2>4
  <2> QED
    BY <2>5
<1>15. S \in Good
  <2> HIDE DEF Good
  <2> QED
    BY <1>13, <1>14, SubsetInduction, AcceptedLines
<1>16. A[S] = k * B[S] + C[S] /\ B[S] \in Int /\ C[S] \in Int
  BY <1>15
<1>17. A[S] \div k = B[S] + (C[S] \div k)
  BY <1>1, <1>16, TruncateSum
<1>18. c.gross = A[S] \div k /\ ToRupiah(FractionsTotal(r)) = C[S] \div k
  BY <1>3, <1>8, <1>9 DEF ToRupiah, k
<1> QED
  BY <1>10, <1>17, <1>18 DEF c

-----------------------------------------------------------------------------
(* What is charged was accepted.                                           *)
LEMMA ChargedIsAccepted ==
  ASSUME Inv, stage = "charging"
  PROVE  Accepted(body) /\ charge = ChargeOf(body)
<1>1. body \in Bodies /\ Validate(body) = "ok" /\ charge = ChargeOf(body)
  BY DEF Inv, Stages
<1>2. IsCheckoutRequest(body)
  BY <1>1, GuestOrderAssumption
<1>3. ~ Incomplete(body) /\ ~ AttendeesMiscounted(body)
  BY <1>1 DEF Validate
<1> QED
  BY <1>1, <1>2, <1>3 DEF IsCheckoutRequest, Accepted

(* A body that passes validation names exactly the attendees it orders     *)
(* tickets for, type by type, whatever the width of the integers it is     *)
(* counted in and whatever its lines.  (dto.go: CheckoutRequest.Validate)  *)
THEOREM BodiesAreExact == Spec => []AcceptedBodiesAreExact
<1>1. Inv => AcceptedBodiesAreExact
  <2>1. SUFFICES ASSUME Inv, stage = "charging"
                 PROVE  AcceptedBodiesAreExact
    BY DEF AcceptedBodiesAreExact
  <2>2. Accepted(body)
    BY <2>1, ChargedIsAccepted
  <2>3. \A i \in DOMAIN body.items :
          Cardinality(Attendees(body, body.items[i].type)) = body.items[i].quantity
    BY <2>2, CountsAreExact
  <2> QED
    BY <2>2, <2>3, AcceptedLines DEF AcceptedBodiesAreExact
<1> QED
  BY <1>1, GuestInvariant, PTL

(* What the gateway is told of the items falls short of the order's price  *)
(* by the whole rupiah in their fractions and by nothing else, whatever    *)
(* the prices and the lines.  (midtrans.go: CreateTransaction, toRupiah)   *)
THEOREM ChargesAddUp == Spec => []ChargeOmitsFractions
<1>1. Inv => ChargeOmitsFractions
  <2>1. SUFFICES ASSUME Inv, stage = "charging"
                 PROVE  charge.gross = ItemsTotal(charge) + ToRupiah(FractionsTotal(body))
    BY DEF ChargeOmitsFractions
  <2> QED
    BY <2>1, ChargedIsAccepted, ChargeSplits
<1> QED
  BY <1>1, GuestInvariant, PTL

=============================================================================
