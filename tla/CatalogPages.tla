---------------------------- MODULE CatalogPages ----------------------------
(***************************************************************************)
(* What guests and admins are shown of the catalogue while CatalogAdmin    *)
(* changes it: the guest's event page, the admin's event page with its     *)
(* sold counts, the lists of attendees and the lines of an order.  Each is *)
(* put together from several statements on the pool, outside any           *)
(* transaction: between two of them anything may be committed.             *)
(*                                                                         *)
(* A guest orders what some event page has offered.                        *)
(***************************************************************************)
EXTENDS CatalogAdmin

CONSTANT
  Readers       \* page requests that may be under way together

VARIABLES
  status,       \* events.status
  offered,      \* history: the ticket types some guest's event page has shown
  published,    \* history: the events that have ever been published
  page          \* what each page request has read so far

pageVars == <<status, offered, published, page>>
allVars == <<vars, pageVars>>

\* "DRAFT" is COMPLETED too: nothing but PUBLISHED is ever asked for.
Statuses == {"DRAFT", "PUBLISHED"}

PageSteps == {"idle", "event", "detail", "listed", "sold", "scoped", "attendees",
              "lines", "named"}

\* Of a quota a page keeps what the property below needs: by how much it was short
\* of what is on sale, as it was read.
PageRow(at, ev, ts, named, short, sold) ==
  [at |-> at, event |-> ev, types |-> ts, named |-> named, short |-> short, sold |-> sold]

\* A page of the given ticket types, with nothing more of them.
Page(at, ev, ts) == PageRow(at, ev, ts, {}, <<>>, <<>>)

Blank == Page("idle", {}, {})

PagesInit ==
  /\ Init
  /\ status = [e \in Events |-> "DRAFT"]
  /\ offered = {}
  /\ published = {}
  /\ page = [r \in Readers |-> Blank]

Show(r, p) ==
  /\ page' = [page EXCEPT ![r] = p]
  /\ UNCHANGED <<vars, status, published>>

-----------------------------------------------------------------------------
(* The event page of a guest. *)

\* Mutation of GetPublishedEventBySlug: any event answers to its slug.
GetEventBySlug(r, e) ==
  /\ page[r].at = "idle"
  /\ event[e] = "present"
  /\ Show(r, Page("event", {e}, {}))
  /\ UNCHANGED offered

GetPublishedEventBySlug(r, e) ==
  /\ page[r].at = "idle"
  /\ event[e] = "present" /\ status[e] = "PUBLISHED"
  /\ Show(r, Page("event", {e}, {}))
  /\ UNCHANGED offered

ListTicketTypesByEventID(r) ==
  /\ page[r].at = "event"
  /\ offered' = offered \cup UNION {TypesOf(e) : e \in page[r].event}
  /\ Show(r, Blank)

-----------------------------------------------------------------------------
(* The event page of an admin: the types with their sold counts. *)

GetEventDetail(r, e) ==
  /\ page[r].at = "idle"
  /\ event[e] = "present"
  /\ Show(r, Page("detail", {e}, {}))
  /\ UNCHANGED offered

ListTicketTypesAdmin(r) ==
  /\ page[r].at = "detail"
  /\ LET ts == UNION {TypesOf(e) : e \in page[r].event} IN
       Show(r, PageRow("listed", {}, ts, {}, [t \in ts |-> allocated[t] - quota[t]], <<>>))
  /\ UNCHANGED offered

\* Mutation of Sold: only the orders that still hold their seats are counted.
SoldNow(t) == Cardinality(SeatsOut(t))

\* SUM(order_items.quantity), whatever has become of the orders.
Sold(t) == Cardinality(UNION {{o} \X (1 .. Lines[o][t]) : o \in Committed})

SoldCountByTicketType(r) ==
  /\ page[r].at = "listed"
  /\ LET ts == page[r].types IN
       Show(r, PageRow("sold", {}, ts, {}, page[r].short, [t \in ts |-> Sold(t)]))
  /\ UNCHANGED offered

-----------------------------------------------------------------------------
(* Lists of attendees, and the lines of an order. *)

\* The optional event filter, turned into ids of ticket types.
TicketTypeScope(r, ts) ==
  /\ page[r].at = "idle"
  /\ Show(r, Page("scoped", {}, ts))
  /\ UNCHANGED offered

ListAttendeesAdmin(r) ==
  /\ page[r].at = "scoped"
  /\ Show(r, Page("attendees", {}, {t \in page[r].types : Referenced(t)}))
  /\ UNCHANGED offered

ListOrderItemsByOrderID(r, o) ==
  /\ page[r].at = "idle" /\ o \in Committed
  /\ Show(r, Page("lines", {}, Ordered(o)))
  /\ UNCHANGED offered

\* The names of the types on the page are looked up last; for an order's page
\* the lookup joins the event of each.
TicketTypeNames(r) ==
  /\ page[r].at = "attendees"
  /\ LET ts == page[r].types IN
       Show(r, PageRow("named", {}, ts, {t \in ts : Present(t)}, <<>>, <<>>))
  /\ UNCHANGED offered

TicketTypeDisplays(r) ==
  /\ page[r].at = "lines"
  /\ LET ts == page[r].types
         found == {t \in ts : Present(t) /\ event[EventOf[t]] = "present"}
     IN Show(r, PageRow("named", {}, ts, found, <<>>, <<>>))
  /\ UNCHANGED offered

\* The answer is sent, or the request ends earlier with an error.
Respond(r) ==
  /\ page[r].at # "idle"
  /\ Show(r, Blank)
  /\ UNCHANGED offered

ReadStep ==
  \E r \in Readers :
    \/ \E e \in Events : GetPublishedEventBySlug(r, e) \/ GetEventDetail(r, e)
    \/ \E ts \in {TicketTypes} \cup {TypesOf(e) : e \in Events} : TicketTypeScope(r, ts)
    \/ \E o \in Orders : ListOrderItemsByOrderID(r, o)
    \/ ListTicketTypesByEventID(r) \/ ListTicketTypesAdmin(r)
    \/ SoldCountByTicketType(r) \/ ListAttendeesAdmin(r)
    \/ TicketTypeNames(r) \/ TicketTypeDisplays(r) \/ Respond(r)

-----------------------------------------------------------------------------
(* The catalogue's own steps. *)

\* The line a checkout deducts in this step.
Deducts(o, t) == lock[t] # o /\ lock'[t] = o /\ stage[o] \in {"none", "reserving"}

SetStatus(e, s) ==
  /\ status' = [status EXCEPT ![e] = s]
  /\ published' = IF s = "PUBLISHED" THEN published \cup {e} ELSE published

\* An event is made in the status the request names.
CreateEventAs(e, s) ==
  /\ CreateEvent(e)
  /\ SetStatus(e, s)
  /\ UNCHANGED <<offered, page>>

UpdateEvent(e, s) ==
  /\ event[e] = "present"
  /\ SetStatus(e, s)
  /\ UNCHANGED <<vars, offered, page>>

CheckoutStep ==
  /\ OrderStep
  /\ \A o \in Orders, t \in TicketTypes : Deducts(o, t) => t \in offered
  /\ UNCHANGED pageVars

AdminStep ==
  /\ \/ DeleteStep
     \/ \E t \in TicketTypes, q \in 0 .. MaxQuota :
          \/ UpdateTicketType(t, q)
          \/ \E a \in Admins : InsertTicketType(a, t, q)
     \/ \E a \in Admins, e \in Events : GetEventByID(a, e)
  /\ UNCHANGED pageVars

PagesNext ==
  \/ ReadStep \/ CheckoutStep \/ AdminStep
  \/ \E e \in Events, s \in Statuses : CreateEventAs(e, s) \/ UpdateEvent(e, s)

PagesSpec == PagesInit /\ [][PagesNext]_allVars

-----------------------------------------------------------------------------
(* Properties.                                                             *)

PagesTypeOK ==
  /\ TypeOK
  /\ status \in [Events -> Statuses]
  /\ offered \subseteq TicketTypes
  /\ published \subseteq Events
  /\ \A r \in Readers :
       LET p == page[r] IN
       /\ p.at \in PageSteps /\ p.event \subseteq Events
       /\ p.named \subseteq p.types /\ p.types \subseteq TicketTypes
       /\ p.at \in {"listed", "sold"} => p.short \in [p.types -> Nat]
       /\ p.at = "sold" => p.sold \in [p.types -> Nat]

(* Every line of an order and every attendee in a list gets the name of its *)
(* ticket type and event, although names are looked up after the rows: what *)
(* has an order is not deleted in between.                                  *)
ListedOrdersAreNamed ==
  \A r \in Readers : page[r].at = "named" => page[r].named = page[r].types

(* An admin's page never loses a seat that changes hands between its two    *)
(* reads: the remaining quota and the sold count it shows make up at least  *)
(* what was on sale as the quota was read.                                  *)
SalesAreNotUnderreported ==
  \A r \in Readers : page[r].at = "sold" =>
    \A t \in page[r].types : page[r].sold[t] >= page[r].short[t]

(* A guest who uses the pages never gets an order for an event that has not *)
(* at some time been published: the types of a draft are not to be had.     *)
DraftsDoNotSell ==
  \A o \in Committed : \A t \in Ordered(o) : EventOf[t] \in published

(* What contracts/api.md says of POST /checkout: the ticket types belong to *)
(* an event that is published now.                                          *)
OnlyPublishedEventsSell ==
  [][\A o \in Orders, t \in TicketTypes :
       Deducts(o, t) => status[EventOf[t]] = "PUBLISHED"]_allVars
=============================================================================
