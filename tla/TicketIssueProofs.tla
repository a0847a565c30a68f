------------------------- MODULE TicketIssueProofs -------------------------
(***************************************************************************)
(* TicketIssue for any orders, attendees, codes, payments, resend requests *)
(* and crashes.  Everything rests on the guard of the update that pays an  *)
(* order: it starts one issuance, which alone gives the order its tickets. *)
(***************************************************************************)
EXTENDS TicketIssue, TLAPS

(* An order's issuance is the only one that was started, so that before    *)
(* its insertion there are no tickets; what a delivery read is still all   *)
(* there is; a flag about to be set has its email.                         *)
Types ==
  /\ tickets \in SUBSET Ticket
  /\ step \in [Deliveries -> Steps]
  /\ listed \in [Deliveries -> SUBSET Codes]

NothingIssuedYet ==
  \A f \in Fulfilments :
    step[f] \in {"listing", "inserting"} => TicketsOf(OrderOf[f]) = {}

StartedMeansPaid ==
  \A f \in Fulfilments : step[f] # "waiting" => OrderOf[f] \in paid

StartedOnce ==
  \A f, g \in Fulfilments :
    step[f] # "waiting" /\ step[g] # "waiting" /\ OrderOf[f] = OrderOf[g] => f = g

ListsStayComplete ==
  \A d \in Deliveries :
    step[d] \in {"sending", "flagging"} => listed[d] # {} /\ listed[d] = CodesOf(OrderOf[d])

FlagFollowsEmail ==
  \A d \in Deliveries : step[d] = "flagging" => \E m \in inbox : m.order = OrderOf[d]

Inv ==
  /\ Types /\ NothingIssuedYet /\ StartedMeansPaid /\ StartedOnce
  /\ ListsStayComplete /\ FlagFollowsEmail
  /\ OneTicketPerAttendee /\ EmailsStayComplete /\ FlagMeansDelivered

USE TicketIssueAssumption DEF Deliveries

LEMMA Initially == Init => Inv
BY DEF TicketIssueAssumption, Init, Inv, Types, NothingIssuedYet, StartedMeansPaid, StartedOnce,
       ListsStayComplete, FlagFollowsEmail, OneTicketPerAttendee, EmailsStayComplete, FlagMeansDelivered,
       TicketsOf, Steps

-----------------------------------------------------------------------------
(* A step that leaves the tickets alone leaves every order's tickets alone. *)
LEMMA SameTickets ==
  ASSUME tickets' = tickets
  PROVE  /\ \A o : TicketsOf(o)' = TicketsOf(o)
         /\ \A o : CodesOf(o)' = CodesOf(o)
BY DEF TicketsOf, CodesOf

(* What the transaction of CreateTickets leaves behind.                    *)
LEMMA NewTickets ==
  ASSUME Inv, NEW f \in Fulfilments, CreateTickets(f)
  PROVE  /\ tickets' \in SUBSET Ticket
         /\ TicketsOf(OrderOf[f]) = {}
         /\ \A o : o # OrderOf[f] => TicketsOf(o)' = TicketsOf(o)
         /\ {t.attendee : t \in TicketsOf(OrderOf[f])'} = AttendeesOf[OrderOf[f]]
         /\ \A t, u \in TicketsOf(OrderOf[f])' : t.attendee = u.attendee => t = u
<1> DEFINE o == OrderOf[f]
<1>0. o \in Orders
  BY DEF TicketIssueAssumption
<1>1. TicketsOf(o) = {}
  BY DEF Inv, NothingIssuedYet, CreateTickets, Go
<1>2. PICK draw \in [AttendeesOf[o] -> Codes] :
        tickets' = tickets \cup {Row(o, a, draw[a]) : a \in AttendeesOf[o]}
  BY DEF CreateTickets, Injection
<1>3. AttendeesOf[o] \subseteq Attendees
  BY <1>0 DEF Attendees
<1>4. \A a \in AttendeesOf[o] : Row(o, a, draw[a]) \in Ticket
  BY <1>0, <1>2, <1>3 DEF Row, Ticket
<1>5. tickets' \in SUBSET Ticket
  BY <1>2, <1>4 DEF Inv, Types
<1>6. \A p : p # o => TicketsOf(p)' = TicketsOf(p)
  BY <1>2 DEF TicketsOf, Row
<1>7. TicketsOf(o)' = {Row(o, a, draw[a]) : a \in AttendeesOf[o]}
  BY <1>1, <1>2 DEF TicketsOf, Row
<1>8. {t.attendee : t \in TicketsOf(o)'} = AttendeesOf[o]
  <2>1. \A t \in TicketsOf(o)' : t.attendee \in AttendeesOf[o]
    BY <1>7 DEF Row
  <2>2. \A a \in AttendeesOf[o] : Row(o, a, draw[a]) \in TicketsOf(o)' /\ Row(o, a, draw[a]).attendee = a
    BY <1>7 DEF Row
  <2> HIDE DEF o
  <2> QED
    BY <2>1, <2>2
<1>9. \A t, u \in TicketsOf(o)' : t.attendee = u.attendee => t = u
  BY <1>7 DEF Row
<1> QED
  BY <1>1, <1>5, <1>6, <1>8, <1>9

(* The inserting transaction is the one step that changes the tickets, and *)
(* an order whose tickets somebody has read has them already.              *)
LEMMA CreateTicketsStep ==
  ASSUME Inv, NEW f \in Fulfilments, CreateTickets(f)
  PROVE  Inv'
<1> DEFINE o == OrderOf[f]
<1>0. o \in Orders /\ AttendeesOf[o] # {}
  BY DEF TicketIssueAssumption
<1>1. /\ step[f] = "inserting"
      /\ \/ step' = [step EXCEPT ![f] = "confirming"]
         \/ step' = [step EXCEPT ![f] = "aborted"]
      /\ UNCHANGED <<paid, emailSent, inbox, listed, crashes>>
  BY DEF CreateTickets, Go
<1>2. \A p : p # o => TicketsOf(p)' = TicketsOf(p) /\ CodesOf(p)' = CodesOf(p)
  BY NewTickets DEF CodesOf
<1>3. CodesOf(o) = {}
  BY NewTickets DEF CodesOf
<1>4. Types'
  BY <1>1, NewTickets DEF Inv, Types, Steps
<1>5. NothingIssuedYet'
  <2>1. SUFFICES ASSUME NEW g \in Fulfilments, step'[g] \in {"listing", "inserting"}
                 PROVE  TicketsOf(OrderOf[g])' = {}
    BY DEF NothingIssuedYet
  <2>2. g # f /\ step[g] = step'[g]
    BY <1>1, <2>1 DEF Inv, Types
  <2>3. OrderOf[g] # o
    BY <1>1, <2>1, <2>2 DEF Inv, StartedOnce
  <2> QED
    BY <1>2, <2>1, <2>2, <2>3 DEF Inv, NothingIssuedYet
<1>6. StartedMeansPaid' /\ StartedOnce'
  BY <1>1 DEF Inv, Types, StartedMeansPaid, StartedOnce
<1>7. ListsStayComplete'
  BY <1>1, <1>2, <1>3 DEF Inv, Types, ListsStayComplete
<1>8. FlagFollowsEmail'
  BY <1>1 DEF Inv, Types, FlagFollowsEmail
<1>9. OneTicketPerAttendee'
  BY <1>0, <1>1, <1>2, NewTickets DEF Inv, StartedMeansPaid, OneTicketPerAttendee
<1>10. EmailsStayComplete'
  BY <1>1, <1>2, <1>3 DEF Inv, EmailsStayComplete
<1>11. FlagMeansDelivered'
  BY <1>1 DEF Inv, FlagMeansDelivered
<1> QED
  BY <1>4, <1>5, <1>6, <1>7, <1>8, <1>9, <1>10, <1>11 DEF Inv

(* Every other step.                                                       *)
LEMMA DeliveryReads ==
  ASSUME Inv, NEW d \in Deliveries, TicketDetailsForOrder(d)
  PROVE  Inv'
<1>1. /\ step[d] = "collecting"
      /\ step' = [step EXCEPT ![d] = IF TicketsOf(OrderOf[d]) = {} THEN "failed" ELSE "sending"]
      /\ listed' = [listed EXCEPT ![d] = CodesOf(OrderOf[d])]
      /\ UNCHANGED <<tickets, paid, emailSent, inbox, crashes>>
  BY DEF TicketDetailsForOrder, Go, database
<1>2. CodesOf(OrderOf[d]) \in SUBSET Codes
  BY DEF Inv, Types, Ticket, CodesOf, TicketsOf
<1>3. TicketsOf(OrderOf[d]) # {} => CodesOf(OrderOf[d]) # {}
  BY DEF CodesOf
<1>4. Types'
  BY <1>1, <1>2 DEF Inv, Types, Steps
<1>5. NothingIssuedYet' /\ StartedMeansPaid' /\ StartedOnce'
  BY <1>1, SameTickets DEF Inv, Types, NothingIssuedYet, StartedMeansPaid, StartedOnce
<1>6. ListsStayComplete'
  BY <1>1, <1>3, SameTickets DEF Inv, Types, ListsStayComplete
<1>7. FlagFollowsEmail'
  BY <1>1 DEF Inv, Types, FlagFollowsEmail
<1>8. OneTicketPerAttendee' /\ EmailsStayComplete' /\ FlagMeansDelivered'
  BY <1>1, SameTickets DEF Inv, OneTicketPerAttendee, EmailsStayComplete, FlagMeansDelivered
<1> QED
  BY <1>4, <1>5, <1>6, <1>7, <1>8 DEF Inv

(* A mail goes out: the message is complete because the list is.           *)
LEMMA DeliverySends ==
  ASSUME Inv, NEW d \in Deliveries, MailerSend(d) \/ MailerSendFails(d)
  PROVE  Inv'
<1>1. /\ step[d] = "sending"
      /\ \/ step' = [step EXCEPT ![d] = "flagging"] /\ Deliver(d)
         \/ step' = [step EXCEPT ![d] = "failed"] /\ (UNCHANGED inbox \/ Deliver(d))
      /\ UNCHANGED <<tickets, paid, emailSent, listed, crashes>>
  BY DEF MailerSend, MailerSendFails, Go, database
<1> DEFINE m == [order |-> OrderOf[d], codes |-> listed[d]]
<1>2. listed[d] # {} /\ listed[d] = CodesOf(OrderOf[d])
  BY <1>1 DEF Inv, ListsStayComplete
<1>3. inbox' = inbox \/ inbox' = inbox \cup {m}
  BY <1>1 DEF Deliver
<1>4. Types'
  BY <1>1 DEF Inv, Types, Steps
<1>5. NothingIssuedYet' /\ StartedMeansPaid' /\ StartedOnce'
  BY <1>1, SameTickets DEF Inv, Types, NothingIssuedYet, StartedMeansPaid, StartedOnce
<1>6. ListsStayComplete'
  BY <1>1, <1>2, SameTickets DEF Inv, Types, ListsStayComplete
<1>7. FlagFollowsEmail'
  <2>1. step'[d] = "flagging" => m \in inbox' /\ m.order = OrderOf[d]
    BY <1>1 DEF Inv, Types, Deliver
  <2>2. \A e \in Deliveries : e # d /\ step'[e] = "flagging" => step[e] = "flagging"
    BY <1>1 DEF Inv, Types
  <2>3. inbox \subseteq inbox'
    BY <1>3
  <2> QED
    BY <2>1, <2>2, <2>3 DEF Inv, FlagFollowsEmail
<1>8. EmailsStayComplete'
  BY <1>1, <1>2, <1>3, SameTickets DEF Inv, EmailsStayComplete
<1>9. OneTicketPerAttendee' /\ FlagMeansDelivered'
  BY <1>1, <1>3, SameTickets DEF Inv, OneTicketPerAttendee, FlagMeansDelivered
<1> QED
  BY <1>4, <1>5, <1>6, <1>7, <1>8, <1>9 DEF Inv

LEMMA FlagStep ==
  ASSUME Inv, NEW d \in Deliveries, MarkEmailSent(d)
  PROVE  Inv'
<1>1. /\ step[d] = "flagging" /\ step' = [step EXCEPT ![d] = "done"]
      /\ emailSent' = emailSent \cup {OrderOf[d]}
      /\ UNCHANGED <<tickets, paid, inbox, listed, crashes>>
  BY DEF MarkEmailSent, Go
<1>2. /\ Types' /\ NothingIssuedYet' /\ StartedMeansPaid' /\ StartedOnce'
      /\ ListsStayComplete' /\ FlagFollowsEmail'
  BY <1>1, SameTickets DEF Inv, Types, Steps, NothingIssuedYet, StartedMeansPaid, StartedOnce,
                           ListsStayComplete, FlagFollowsEmail
<1>3. OneTicketPerAttendee' /\ EmailsStayComplete'
  BY <1>1, SameTickets DEF Inv, OneTicketPerAttendee, EmailsStayComplete
<1>4. FlagMeansDelivered'
  BY <1>1 DEF Inv, FlagFollowsEmail, FlagMeansDelivered
<1> QED
  BY <1>2, <1>3, <1>4 DEF Inv

(* A payment starts the issuance of an order that was not paid: it is the  *)
(* first, and the order has no tickets.                                    *)
LEMMA FulfillmentStarts ==
  ASSUME Inv, NEW f \in Fulfilments, FulfillAsync(f)
  PROVE  Inv'
<1> DEFINE o == OrderOf[f]
<1>1. /\ o \notin paid /\ o \in Orders /\ step[f] = "waiting"
      /\ step' = [step EXCEPT ![f] = "listing"]
      /\ paid' = paid \cup {o}
      /\ UNCHANGED <<tickets, emailSent, inbox, listed, crashes>>
  BY DEF FulfillAsync, Go, TicketIssueAssumption
<1>2. TicketsOf(o) = {}
  BY <1>1 DEF Inv, OneTicketPerAttendee
<1>3. \A g \in Fulfilments : step[g] # "waiting" => OrderOf[g] # o
  BY <1>1 DEF Inv, StartedMeansPaid
<1>4. Types'
  BY <1>1 DEF Inv, Types, Steps
<1>5. NothingIssuedYet'
  BY <1>1, <1>2, SameTickets DEF Inv, Types, NothingIssuedYet
<1>6. StartedMeansPaid' /\ StartedOnce'
  BY <1>1, <1>3 DEF Inv, Types, StartedMeansPaid, StartedOnce
<1>7. ListsStayComplete' /\ FlagFollowsEmail'
  BY <1>1, SameTickets DEF Inv, Types, ListsStayComplete, FlagFollowsEmail
<1>8. OneTicketPerAttendee' /\ EmailsStayComplete' /\ FlagMeansDelivered'
  BY <1>1, SameTickets DEF Inv, OneTicketPerAttendee, EmailsStayComplete, FlagMeansDelivered
<1> QED
  BY <1>4, <1>5, <1>6, <1>7, <1>8 DEF Inv

(* Steps that only move goroutines that were started, or end them all.     *)
LEMMA QuietStep ==
  ASSUME Inv, UNCHANGED <<tickets, emailSent, inbox, listed, paid>>,
         step' \in [Deliveries -> Steps],
         \A d \in Deliveries :
           step'[d] # step[d] =>
             /\ step'[d] \notin {"waiting", "listing", "sending", "flagging"}
             /\ step'[d] = "inserting" => TicketsOf(OrderOf[d]) = {}
             /\ d \in Fulfilments => step[d] # "waiting"
  PROVE  Inv'
<1>1. Types'
  BY DEF Inv, Types
<1>2. NothingIssuedYet'
  BY SameTickets DEF Inv, NothingIssuedYet
<1>3. StartedMeansPaid' /\ StartedOnce'
  <2>1. \A f \in Fulfilments : step'[f] # "waiting" => step[f] # "waiting"
    OBVIOUS
  <2> QED
    BY <2>1 DEF Inv, StartedMeansPaid, StartedOnce
<1>4. ListsStayComplete' /\ FlagFollowsEmail'
  BY SameTickets DEF Inv, ListsStayComplete, FlagFollowsEmail
<1>5. OneTicketPerAttendee'
  <2> SUFFICES ASSUME NEW o \in Orders, TicketsOf(o)' # {}
               PROVE  /\ o \in paid'
                      /\ {t.attendee : t \in TicketsOf(o)'} = AttendeesOf[o]
                      /\ \A t, u \in TicketsOf(o)' : t.attendee = u.attendee => t = u
    BY DEF OneTicketPerAttendee
  <2>1. TicketsOf(o)' = TicketsOf(o)
    BY SameTickets
  <2> QED
    BY <2>1 DEF Inv, OneTicketPerAttendee
<1>6. EmailsStayComplete' /\ FlagMeansDelivered'
  BY SameTickets DEF Inv, EmailsStayComplete, FlagMeansDelivered
<1> QED
  BY <1>1, <1>2, <1>3, <1>4, <1>5, <1>6 DEF Inv

LEMMA NextStep ==
  ASSUME Inv, [Next]_vars
  PROVE  Inv'
<1> USE DEF Go, database, Steps
<1>0. step \in [Deliveries -> Steps]
  BY DEF Inv, Types
<1>1. ASSUME NEW f \in Fulfilments, IssueTickets(f) PROVE Inv'
  <2>1. CASE CreateTickets(f)
    BY <2>1, CreateTicketsStep
  <2>2. CASE FulfillAsync(f)
    BY <2>2, FulfillmentStarts
  <2>3. CASE ListExisting(f)
    BY <1>0, <2>3, QuietStep DEF ListExisting
  <2>4. CASE CodeTaken(f) \/ CreateTicketsFails(f)
    BY <1>0, <2>4, QuietStep DEF CodeTaken, CreateTicketsFails
  <2>5. CASE ListAfterError(f)
    BY <1>0, <2>5, QuietStep DEF ListAfterError
  <2>6. CASE ListIssued(f)
    BY <1>0, <2>6, QuietStep DEF ListIssued
  <2> QED
    BY <1>1, <2>1, <2>2, <2>3, <2>4, <2>5, <2>6 DEF IssueTickets
<1>2. ASSUME NEW r \in Resends, Resend(r) PROVE Inv'
  BY <1>0, <1>2, QuietStep DEF Resend, TicketIssueAssumption
<1>3. ASSUME NEW d \in Deliveries, SendTicketEmail(d) PROVE Inv'
  <2>1. CASE OrderForDelivery(d)
    BY <1>0, <2>1, QuietStep DEF OrderForDelivery
  <2>2. CASE TicketDetailsForOrder(d)
    BY <2>2, DeliveryReads
  <2>3. CASE MailerSend(d) \/ MailerSendFails(d)
    BY <2>3, DeliverySends
  <2>4. CASE MarkEmailSent(d)
    BY <2>4, FlagStep
  <2>5. CASE MarkEmailSentFails(d)
    BY <1>0, <2>5, QuietStep DEF MarkEmailSentFails
  <2> QED
    BY <1>3, <2>1, <2>2, <2>3, <2>4, <2>5 DEF SendTicketEmail
<1>4. ASSUME NEW d \in Deliveries, QueryFails(d) PROVE Inv'
  BY <1>0, <1>4, QuietStep DEF QueryFails
<1>5. CASE Crash
  BY <1>0, <1>5, QuietStep DEF Crash, AtRest
<1>6. CASE UNCHANGED vars
  BY <1>0, <1>6, QuietStep DEF vars
<1> QED
  BY <1>1, <1>2, <1>3, <1>4, <1>5, <1>6 DEF Next

LEMMA Invariance == Spec => []Inv
<1>1. Inv /\ [Next]_vars => Inv'
  BY NextStep
<1> QED
  BY <1>1, Initially, PTL DEF Spec

-----------------------------------------------------------------------------
(* Types, the uniqueness of codes among them, need nothing else.           *)

(* The drawn codes are new and differ from each other.                     *)
LEMMA NewCodes ==
  ASSUME TypeOK, NEW f \in Fulfilments, CreateTickets(f)
  PROVE  TypeOK'
<1> DEFINE o == OrderOf[f]
<1>0. o \in Orders
  BY DEF TicketIssueAssumption
<1>1. PICK draw \in Injection(AttendeesOf[o], Codes \ Taken) :
        tickets' = tickets \cup {Row(o, a, draw[a]) : a \in AttendeesOf[o]}
  BY DEF CreateTickets
<1>2. /\ \A a \in AttendeesOf[o] : draw[a] \in Codes \ Taken
      /\ \A a, b \in AttendeesOf[o] : draw[a] = draw[b] => a = b
  BY <1>1 DEF Injection, IsInjective
<1>3. \A a \in AttendeesOf[o] : Row(o, a, draw[a]) \in Ticket
  BY <1>0, <1>2 DEF Row, Ticket, Attendees
<1>4. tickets' \in SUBSET Ticket
  BY <1>1, <1>3 DEF TypeOK
<1>5. ASSUME NEW t \in tickets', NEW u \in tickets', t.code = u.code
      PROVE  t = u
  <2>1. \A a \in AttendeesOf[o] : Row(o, a, draw[a]).code \notin Taken
    BY <1>2 DEF Row
  <2>2. CASE t \in tickets /\ u \in tickets
    BY <1>5, <2>2 DEF TypeOK
  <2>3. CASE t \in tickets /\ u \notin tickets
    BY <1>1, <1>5, <2>1, <2>3 DEF Taken
  <2>4. CASE t \notin tickets /\ u \in tickets
    BY <1>1, <1>5, <2>1, <2>4 DEF Taken
  <2>5. CASE t \notin tickets /\ u \notin tickets
    BY <1>1, <1>2, <1>5, <2>5 DEF Row
  <2> QED
    BY <2>2, <2>3, <2>4, <2>5
<1>6. step' \in [Deliveries -> Steps]
  BY DEF CreateTickets, Go, TypeOK, Steps
<1> QED
  BY <1>4, <1>5, <1>6 DEF CreateTickets, TypeOK

(* A step that leaves the tickets alone.                                   *)
LEMMA TypesStay ==
  ASSUME TypeOK, UNCHANGED tickets, step' \in [Deliveries -> Steps],
         paid' \subseteq Orders, emailSent' \subseteq Orders, inbox' \subseteq Email,
         listed' \in [Deliveries -> SUBSET Codes], crashes' \in 0 .. MaxCrashes
  PROVE  TypeOK'
BY DEF TypeOK

(* No two tickets of any orders have the same code, however they are drawn *)
(* and whoever draws them; the other variables keep their types.           *)
THEOREM IssueTyped == Spec => []TypeOK
<1>1. Init => TypeOK
  BY DEF TicketIssueAssumption, Init, TypeOK, Steps
<1>2. ASSUME TypeOK, [Next]_vars PROVE TypeOK'
  <2>0. /\ \A d \in Deliveries : OrderOf[d] \in Orders
        /\ crashes \in 0 .. MaxCrashes
    BY <1>2 DEF TicketIssueAssumption, TypeOK
  <2> USE <1>2, <2>0, TypesStay DEF TypeOK, database
  <2>1. ASSUME NEW f \in Fulfilments, IssueTickets(f) PROVE TypeOK'
    <3> USE DEF Go, Steps
    <3>1. CASE CreateTickets(f)
      BY <3>1, NewCodes
    <3>2. CASE FulfillAsync(f)
      BY <3>2 DEF FulfillAsync
    <3>3. CASE ListExisting(f) \/ ListAfterError(f) \/ ListIssued(f)
      BY <3>3 DEF ListExisting, ListAfterError, ListIssued
    <3>4. CASE CodeTaken(f) \/ CreateTicketsFails(f)
      BY <3>4 DEF CodeTaken, CreateTicketsFails
    <3> QED
      BY <2>1, <3>1, <3>2, <3>3, <3>4 DEF IssueTickets
  <2>2. ASSUME NEW r \in Resends, Resend(r) PROVE TypeOK'
    BY <2>2 DEF Resend, Go, Steps
  <2>3. ASSUME NEW d \in Deliveries, SendTicketEmail(d) PROVE TypeOK'
    <3> USE DEF Go, Steps
    <3>1. CASE OrderForDelivery(d) \/ MarkEmailSentFails(d)
      BY <3>1 DEF OrderForDelivery, MarkEmailSentFails
    <3>2. CASE TicketDetailsForOrder(d)
      <4>1. CodesOf(OrderOf[d]) \subseteq Codes
        BY DEF CodesOf, TicketsOf, Ticket
      <4> QED
        BY <3>2, <4>1 DEF TicketDetailsForOrder
    <3>3. CASE MailerSend(d) \/ MailerSendFails(d)
      <4>1. inbox' = inbox \/ Deliver(d)
        BY <3>3 DEF MailerSend, MailerSendFails
      <4>2. inbox' \subseteq Email
        BY <4>1 DEF Deliver, Email
      <4> QED
        BY <3>3, <4>2 DEF MailerSend, MailerSendFails
    <3>4. CASE MarkEmailSent(d)
      BY <3>4 DEF MarkEmailSent
    <3> QED
      BY <2>3, <3>1, <3>2, <3>3, <3>4 DEF SendTicketEmail
  <2>4. ASSUME NEW d \in Deliveries, QueryFails(d) PROVE TypeOK'
    BY <2>4 DEF QueryFails, Steps
  <2>5. CASE Crash
    BY <2>5 DEF Crash, AtRest, Steps, TicketIssueAssumption
  <2>6. CASE UNCHANGED vars
    BY <2>6 DEF vars
  <2> QED
    BY <2>1, <2>2, <2>3, <2>4, <2>5, <2>6 DEF Next
<1> QED
  BY <1>1, <1>2, PTL DEF Spec

(* A paid order has no ticket yet or exactly one for each attendee,        *)
(* whatever fails and whatever runs beside its issuance.                   *)
THEOREM OneTicketEach == Spec => []OneTicketPerAttendee
<1>1. Inv => OneTicketPerAttendee
  BY DEF Inv
<1> QED
  BY <1>1, Invariance, PTL

(* Every email carries all tickets its order has or will ever have.        *)
THEOREM CompleteEmails == Spec => []EmailsStayComplete
<1>1. Inv => EmailsStayComplete
  BY DEF Inv
<1> QED
  BY <1>1, Invariance, PTL

(* email_sent says that the buyer has the tickets.                         *)
THEOREM FlaggedMeansDelivered == Spec => []FlagMeansDelivered
<1>1. Inv => FlagMeansDelivered
  BY DEF Inv
<1> QED
  BY <1>1, Invariance, PTL
=============================================================================
