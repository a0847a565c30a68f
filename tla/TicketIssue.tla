---------------------------- MODULE TicketIssue ----------------------------
(***************************************************************************)
(* Tickets after a sale: issuance (ticket domain) and the email that       *)
(* carries them (notification domain), both for the goroutine that follows *)
(* a payment and for the resend requests of admins, which may come at any  *)
(* time.  Every query and every transaction is one step.                   *)
(***************************************************************************)
EXTENDS Naturals, FiniteSets, Functions

CONSTANTS
  Orders,
  AttendeesOf,   \* AttendeesOf[o]: the attendee rows of order o
  Codes,         \* what GenerateCode can draw
  Fulfilments,   \* goroutines that payments would start to issue an order's tickets
  Resends,       \* resend requests of admins
  OrderOf,       \* the order a fulfilment or a resend is about
  MaxCrashes     \* bound: how often the API process dies

Deliveries == Fulfilments \cup Resends

ASSUME TicketIssueAssumption ==
  /\ OrderOf \in [Deliveries -> Orders]
  /\ \A o \in Orders : AttendeesOf[o] # {}
  /\ Fulfilments \cap Resends = {}
  /\ MaxCrashes \in Nat

VARIABLES
  tickets,    \* the tickets table; its codes are UNIQUE
  paid,       \* orders whose status is PAID
  emailSent,  \* orders whose email_sent is true
  inbox,      \* emails that reached a buyer: the order and the codes in the PDF
  step,       \* where each goroutine or resend request is
  listed,     \* the codes it has read for its email
  crashes

database == <<tickets, paid, emailSent>>
vars     == <<database, inbox, step, listed, crashes>>

Attendees == UNION {AttendeesOf[o] : o \in Orders}

Ticket == [code : Codes, order : Orders, attendee : Attendees]

Email == [order : Orders, codes : SUBSET Codes]

Steps ==
  {"waiting",     \* not started
   "listing",     \* GenerateForOrder looks for existing tickets
   "inserting",   \* the transaction that inserts them
   "aborted",     \* it returned an error: aborted, or the commit not answered
   "confirming",  \* it committed
   "reading", "collecting", "sending", "flagging",  \* SendTicketEmail
   "done",        \* the email is out
   "failed"}      \* an error was returned, or the process died

AtRest == {"waiting", "done", "failed"}

Init ==
  /\ tickets = {}
  /\ paid = {}
  /\ emailSent = {}
  /\ inbox = {}
  /\ step = [d \in Deliveries |-> "waiting"]
  /\ listed = [d \in Deliveries |-> {}]
  /\ crashes = 0

TicketsOf(o) == {t \in tickets : t.order = o}

CodesOf(o) == {t.code : t \in TicketsOf(o)}

Taken == {t.code : t \in tickets}

Go(d, from, to) == step[d] = from /\ step' = [step EXCEPT ![d] = to]

-----------------------------------------------------------------------------
(* Issuance: GenerateForOrder. *)

\* Mutation of FulfillAsync: the update that pays an order is not guarded on
\* PENDING, and a replayed notification starts a second goroutine.
FulfillAsyncReplayed(f) ==
  /\ Go(f, "waiting", "listing")
  /\ paid' = paid \cup {OrderOf[f]}
  /\ UNCHANGED <<tickets, emailSent, inbox, listed, crashes>>

(* A payment moved the order from PENDING to PAID and started the goroutine. *)
FulfillAsync(f) ==
  /\ OrderOf[f] \notin paid
  /\ Go(f, "waiting", "listing")
  /\ paid' = paid \cup {OrderOf[f]}
  /\ UNCHANGED <<tickets, emailSent, inbox, listed, crashes>>

ListExisting(f) ==
  /\ Go(f, "listing", IF TicketsOf(OrderOf[f]) = {} THEN "inserting" ELSE "reading")
  /\ UNCHANGED <<database, inbox, listed, crashes>>

Row(o, a, c) == [code |-> c, order |-> o, attendee |-> a]

\* Mutation of CreateTickets: each ticket is committed on its own instead of
\* in the order's transaction.
CreateTicketsOneByOne(f) ==
  LET o == OrderOf[f]
      rest == AttendeesOf[o] \ {t.attendee : t \in TicketsOf(o)}
  IN \E a \in rest, c \in Codes \ Taken :
       /\ Go(f, "inserting", IF rest = {a} THEN "confirming" ELSE "inserting")
       /\ tickets' = tickets \cup {Row(o, a, c)}
       /\ UNCHANGED <<paid, emailSent, inbox, listed, crashes>>

\* Mutation of CreateTickets: without the UNIQUE constraint the codes drawn
\* may be those of other tickets.
CreateTicketsUnchecked(f) ==
  LET o == OrderOf[f]
  IN \E draw \in Injection(AttendeesOf[o], Codes) :
       /\ Go(f, "inserting", "confirming")
       /\ tickets' = tickets \cup {Row(o, a, draw[a]) : a \in AttendeesOf[o]}
       /\ UNCHANGED <<paid, emailSent, inbox, listed, crashes>>

(* One transaction inserts a ticket for each attendee; the codes it drew are
   all new.  Whether the commit that took place was answered is another
   matter. *)
CreateTickets(f) ==
  LET o == OrderOf[f]
  IN \E draw \in Injection(AttendeesOf[o], Codes \ Taken) :
       /\ Go(f, "inserting", "confirming") \/ Go(f, "inserting", "aborted")
       /\ tickets' = tickets \cup {Row(o, a, draw[a]) : a \in AttendeesOf[o]}
       /\ UNCHANGED <<paid, emailSent, inbox, listed, crashes>>

(* A code was drawn that is already taken: the unique violation aborts the
   transaction, and the loop that would draw again returns the error. *)
CodeTaken(f) ==
  /\ Taken # {} \/ Cardinality(AttendeesOf[OrderOf[f]]) > 1
  /\ Go(f, "inserting", "aborted")
  /\ UNCHANGED <<database, inbox, listed, crashes>>

CreateTicketsFails(f) ==
  /\ Go(f, "inserting", "aborted")
  /\ UNCHANGED <<database, inbox, listed, crashes>>

(* After the error: tickets that exist all the same are as good. *)
ListAfterError(f) ==
  /\ Go(f, "aborted", IF TicketsOf(OrderOf[f]) = {} THEN "failed" ELSE "reading")
  /\ UNCHANGED <<database, inbox, listed, crashes>>

ListIssued(f) ==
  /\ Go(f, "confirming", "reading")
  /\ UNCHANGED <<database, inbox, listed, crashes>>

IssueTickets(f) ==
  \/ FulfillAsync(f) \/ ListExisting(f)
  \/ CreateTickets(f) \/ CodeTaken(f) \/ CreateTicketsFails(f)
  \/ ListAfterError(f) \/ ListIssued(f)

-----------------------------------------------------------------------------
(* Delivery: SendTicketEmail, after issuance or for an admin. *)

Resend(r) ==
  /\ Go(r, "waiting", "reading")
  /\ UNCHANGED <<database, inbox, listed, crashes>>

OrderForDelivery(d) ==
  /\ Go(d, "reading", IF OrderOf[d] \in paid THEN "collecting" ELSE "failed")
  /\ UNCHANGED <<database, inbox, listed, crashes>>

TicketDetailsForOrder(d) ==
  /\ Go(d, "collecting", IF TicketsOf(OrderOf[d]) = {} THEN "failed" ELSE "sending")
  /\ listed' = [listed EXCEPT ![d] = CodesOf(OrderOf[d])]
  /\ UNCHANGED <<database, inbox, crashes>>

Deliver(d) == inbox' = inbox \cup {[order |-> OrderOf[d], codes |-> listed[d]]}

MailerSend(d) ==
  /\ Go(d, "sending", "flagging")
  /\ Deliver(d)
  /\ UNCHANGED <<database, listed, crashes>>

\* Mutation of MailerSendFails: the mailer's error is logged like the one of
\* MarkEmailSent, and the flag is set all the same.
MailerSendFailsFlagging(d) ==
  /\ Go(d, "sending", "flagging")
  /\ UNCHANGED inbox \/ Deliver(d)
  /\ UNCHANGED <<database, listed, crashes>>

(* An SMTP error may come after the server accepted the message. *)
MailerSendFails(d) ==
  /\ Go(d, "sending", "failed")
  /\ UNCHANGED inbox \/ Deliver(d)
  /\ UNCHANGED <<database, listed, crashes>>

MarkEmailSent(d) ==
  /\ Go(d, "flagging", "done")
  /\ emailSent' = emailSent \cup {OrderOf[d]}
  /\ UNCHANGED <<tickets, paid, inbox, listed, crashes>>

(* Logged only: the email is out. *)
MarkEmailSentFails(d) ==
  /\ Go(d, "flagging", "done")
  /\ UNCHANGED <<database, inbox, listed, crashes>>

SendTicketEmail(d) ==
  \/ OrderForDelivery(d) \/ TicketDetailsForOrder(d)
  \/ MailerSend(d) \/ MailerSendFails(d)
  \/ MarkEmailSent(d) \/ MarkEmailSentFails(d)

(* A read fails, or the time for the whole work is up. *)
QueryFails(d) ==
  /\ step[d] \in {"listing", "aborted", "confirming", "reading", "collecting"}
  /\ step' = [step EXCEPT ![d] = "failed"]
  /\ UNCHANGED <<database, inbox, listed, crashes>>

Crash ==
  /\ crashes < MaxCrashes
  /\ crashes' = crashes + 1
  /\ step' = [d \in Deliveries |-> IF step[d] \in AtRest THEN step[d] ELSE "failed"]
  /\ UNCHANGED <<database, inbox, listed>>

Next ==
  \/ \E f \in Fulfilments : IssueTickets(f)
  \/ \E r \in Resends : Resend(r)
  \/ \E d \in Deliveries : SendTicketEmail(d) \/ QueryFails(d)
  \/ Crash

Spec == Init /\ [][Next]_vars

-----------------------------------------------------------------------------
TypeOK ==
  /\ tickets \in SUBSET Ticket
  /\ \A t, u \in tickets : t.code = u.code => t = u
  /\ paid \in SUBSET Orders
  /\ emailSent \in SUBSET Orders
  /\ inbox \in SUBSET Email
  /\ step \in [Deliveries -> Steps]
  /\ listed \in [Deliveries -> SUBSET Codes]
  /\ crashes \in 0 .. MaxCrashes

(* Constitution, critical data flow: a paid order has no ticket yet or exactly
   one for each attendee and for nobody else, however its transaction fails
   and whatever else runs; service_test.go:73 asks it of concurrent runs.   *)
OneTicketPerAttendee ==
  \A o \in Orders :
    \/ TicketsOf(o) = {}
    \/ /\ o \in paid
       /\ {t.attendee : t \in TicketsOf(o)} = AttendeesOf[o]
       /\ \A t, u \in TicketsOf(o) : t.attendee = u.attendee => t = u

(* 003 FR-007, FR-011: whoever triggered it and whenever it was read, an email
   carries all tickets of its order, and they are still the order's tickets
   after any number of resends.                                             *)
EmailsStayComplete ==
  \A m \in inbox : m.codes # {} /\ m.codes = CodesOf(m.order)

(* "The flag means: the buyer has it" (notification/service.go): email_sent is
   set for an order only after an email with its tickets went out.          *)
FlagMeansDelivered ==
  \A o \in emailSent : \E m \in inbox : m.order = o
=============================================================================
