--------------------------- MODULE CheckoutRequest ---------------------------
(***************************************************************************)
(* What the backend decides about a checkout before and around the gateway *)
(* call, without the database: the validation of the request body, the     *)
(* amounts of the charge, and how the gateway's HTTP answers are read.     *)
(*                                                                         *)
(* A blank or malformed name, email address or phone number anywhere in    *)
(* the body is the flag "incomplete"; an attendee is the ticket type it    *)
(* names.  Amounts are in hundredths, or any other share, of a rupiah.     *)
(***************************************************************************)
EXTENDS Integers, Sequences, FiniteSets, SequencesExt

CONSTANTS
  TicketTypes,  \* rows of ticket_types
  NilType,      \* uuid.Nil
  Price,        \* Price[t]: ticket_types.price, in parts of a rupiah
  PartsPerRupiah,
  IntLimit      \* first whole number an int32 cannot hold (2^31)

ASSUME CheckoutRequestAssumption ==
  /\ NilType \notin TicketTypes
  /\ Price \in [TicketTypes -> Nat]
  /\ PartsPerRupiah \in Nat \ {0}
  /\ IntLimit \in Nat \ {0}

CheckoutItem == [type : TicketTypes \cup {NilType}, quantity : Int]

IsCheckoutRequest(r) ==
  /\ r.incomplete \in BOOLEAN
  /\ r.items \in Seq(CheckoutItem)
  /\ r.attendees \in Seq(TicketTypes \cup {NilType})

-----------------------------------------------------------------------------
(* Validation. *)

\* Two's complement: what is left of n in an integer of that size.
Wrap(n) == ((n + IntLimit) % (2 * IntLimit)) - IntLimit

TotalQuantity(r) == FoldSeq(LAMBDA item, sum : Wrap(sum + item.quantity), 0, r.items)

\* How many attendees name type t, as the counter of the loop counts them.
Got(r, t) == Wrap(Cardinality({i \in DOMAIN r.attendees : r.attendees[i] = t}))

Incomplete(r) ==
  \/ r.incomplete
  \/ r.items = <<>>
  \/ \E i \in DOMAIN r.items : r.items[i].type = NilType \/ r.items[i].quantity < 1
  \/ \E i, j \in DOMAIN r.items : i # j /\ r.items[i].type = r.items[j].type

AttendeesMiscounted(r) ==
  \/ TotalQuantity(r) # Len(r.attendees)
  \/ \E i \in DOMAIN r.items : Got(r, r.items[i].type) # r.items[i].quantity
  \/ \E k \in DOMAIN r.attendees : \A i \in DOMAIN r.items : r.items[i].type # r.attendees[k]

\* Mutation of Validate: "the totals match" is taken to be enough.
ValidateTotalsOnly(r) ==
  CASE Incomplete(r)                          -> "VALIDATION_ERROR"
    [] TotalQuantity(r) # Len(r.attendees)    -> "ATTENDEE_COUNT_MISMATCH"
    [] OTHER                                  -> "ok"

Validate(r) ==
  CASE Incomplete(r)           -> "VALIDATION_ERROR"
    [] AttendeesMiscounted(r)  -> "ATTENDEE_COUNT_MISMATCH"
    [] OTHER                   -> "ok"

-----------------------------------------------------------------------------
(* The amounts of a charge: the server's own total and, line by line, what
   the gateway is told. *)

TotalAmount(r) ==
  FoldSeq(LAMBDA item, sum : sum + Price[item.type] * item.quantity, 0, r.items)

\* Truncation to whole rupiah.
ToRupiah(amount) == amount \div PartsPerRupiah

\* Mutation of ChargeItems: the price of the line instead of the unit price.
ChargeLinePrices(r) ==
  [i \in DOMAIN r.items |->
     [price |-> ToRupiah(Price[r.items[i].type] * r.items[i].quantity),
      quantity |-> r.items[i].quantity]]

ChargeItems(r) ==
  [i \in DOMAIN r.items |->
     [price |-> ToRupiah(Price[r.items[i].type]), quantity |-> r.items[i].quantity]]

ChargeOf(r) == [items |-> ChargeItems(r), gross |-> ToRupiah(TotalAmount(r))]

\* What truncation takes off the unit prices of all tickets.
FractionsTotal(r) ==
  FoldSeq(LAMBDA item, sum : sum + (Price[item.type] % PartsPerRupiah) * item.quantity,
          0, r.items)

ItemsTotal(charge) ==
  FoldSeq(LAMBDA item, sum : sum + item.price * item.quantity, 0, charge.items)

-----------------------------------------------------------------------------
(* The gateway's answers.  "code" is the status_code Midtrans repeats in the
   body; it need not agree with the HTTP status. *)

ChargeAnswer ==
  [reached : BOOLEAN, readable : BOOLEAN, http : {"2xx", "404", "other"},
   qr : BOOLEAN, expiry : BOOLEAN]

StatusAnswer ==
  [reached : BOOLEAN, readable : BOOLEAN, http : {"2xx", "404", "other"},
   code : {"", "2xx", "404", "other"}]

(* CreateTransaction returns a session, or an error that has the order
   compensated. *)
OpensSession(a) == a.reached /\ a.readable /\ a.http = "2xx" /\ a.qr /\ a.expiry

(* FetchStatus: an error, "no such transaction", or an answer to be applied. *)
FetchStatus(a) ==
  CASE ~ a.reached \/ ~ a.readable       -> "error"
    [] a.http = "404" \/ a.code = "404"  -> "noRecord"
    [] a.http # "2xx"                    -> "error"
    [] a.code = "other"                  -> "error"
    [] OTHER                             -> "answer"
=============================================================================
