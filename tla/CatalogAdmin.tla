---------------------------- MODULE CatalogAdmin ----------------------------
(***************************************************************************)
(* Admins create, edit and delete events and ticket types while guests     *)
(* check out and orders return their seats.  What OrderLifecycle takes as  *)
(* one step, a transaction over several rows, is here the statements it is *)
(* made of, under READ COMMITTED: a statement that writes a row waits for  *)
(* the transaction that wrote it before, and sees what others committed.   *)
(*                                                                         *)
(* A transaction's writes are applied when it commits.  Until then the     *)
(* rows it wrote are locked, so that nobody can tell the difference; a     *)
(* statement that is a transaction of its own is one step.                 *)
(***************************************************************************)
EXTENDS Integers, FiniteSets

CONSTANTS
  Events,       \* ids of events
  TicketTypes,  \* ids of ticket types
  EventOf,      \* ticket_types.event_id, which no request can change
  Orders,       \* checkout requests, and the orders they make
  Lines,        \* Lines[o][t]: how many tickets of type t order o asks for
  Admins,       \* the admin requests that may be under way together
  MaxQuota,     \* bounds the quota an admin submits
  None          \* no transaction

ASSUME CatalogAssumption ==
  /\ EventOf \in [TicketTypes -> Events]
  /\ Lines \in [Orders -> [TicketTypes -> Nat]]
  /\ MaxQuota \in Nat
  /\ Orders \cap Admins = {}
  /\ None \notin Orders \cup Admins

VARIABLES
  event,      \* event[e]: whether the row has not been made, is there, is gone
  type,       \* type[t]: the same of a ticket type
  quota,      \* ticket_types.quota
  allocated,  \* history: the seats an admin last put on sale, sold ones included
  stage,      \* what each order's transactions have come to
  lock,       \* lock[t]: the transaction that has written the row of t
  admin       \* what each admin request does next and the rows it has read

vars == <<event, type, quota, allocated, stage, lock, admin>>

RowStates == {"absent", "present", "deleted"}
Stages == {"none", "reserving", "placed", "releasing", "released"}
AdminSteps ==
  {"idle", "insert", "delete", "listed", "guarded", "locking", "unreferenced"}

\* Request a goes on to step "at" with what it knows of an event and its types.
Goto(a, at, ev, ts) ==
  [admin EXCEPT ![a] = [at |-> at, event |-> ev, types |-> ts]]

Idle(a) == Goto(a, "idle", {}, {})

Init ==
  /\ event = [e \in Events |-> "absent"]
  /\ type = [t \in TicketTypes |-> "absent"]
  /\ quota = [t \in TicketTypes |-> 0]
  /\ allocated = [t \in TicketTypes |-> 0]
  /\ stage = [o \in Orders |-> "none"]
  /\ lock = [t \in TicketTypes |-> None]
  /\ admin = [a \in Admins |-> [at |-> "idle", event |-> {}, types |-> {}]]

Present(t) == type[t] = "present"
TypesOf(e) == {t \in TicketTypes : EventOf[t] = e /\ Present(t)}
LockedBy(x) == {t \in TicketTypes : lock[t] = x}
Ordered(o) == {t \in TicketTypes : Lines[o][t] > 0}

\* A transaction ends and its row locks with it.
Unlocked(x) == [t \in TicketTypes |-> IF lock[t] = x THEN None ELSE lock[t]]

\* Orders whose rows in order_items and attendees are committed, whatever has
\* become of the order: nothing deletes them.
Committed == {o \in Orders : stage[o] \in {"placed", "releasing", "released"}}

Referenced(t) == \E o \in Committed : t \in Ordered(o)

-----------------------------------------------------------------------------
(* Checkout's first transaction.                                           *)

\* One line: the conditional UPDATE of its ticket type.  The lines come in the
\* order the client sent them, which may be any.
CheckAndDeductQuota(o, t) ==
  /\ stage[o] \in {"none", "reserving"}
  /\ t \in Ordered(o)
  /\ lock[t] = None
  /\ Present(t)
  /\ quota[t] >= Lines[o][t]
  /\ stage' = [stage EXCEPT ![o] = "reserving"]
  /\ lock' = [lock EXCEPT ![t] = o]
  /\ UNCHANGED <<event, type, quota, allocated, admin>>

\* Each line has its seats: the rows of the order are inserted, and commit.
CreateOrder(o) ==
  /\ stage[o] = "reserving"
  /\ LockedBy(o) = Ordered(o)
  /\ quota' = [t \in TicketTypes |-> quota[t] - Lines[o][t]]
  /\ stage' = [stage EXCEPT ![o] = "placed"]
  /\ lock' = Unlocked(o)
  /\ UNCHANGED <<event, type, allocated, admin>>

\* One line of an order that is cancelled or expires: the row must be there.
RestoreQuota(o, t) ==
  /\ stage[o] \in {"placed", "releasing"}
  /\ t \in Ordered(o)
  /\ lock[t] = None
  /\ Present(t)
  /\ stage' = [stage EXCEPT ![o] = "releasing"]
  /\ lock' = [lock EXCEPT ![t] = o]
  /\ UNCHANGED <<event, type, quota, allocated, admin>>

ApplyOutcome(o) ==
  /\ stage[o] = "releasing"
  /\ LockedBy(o) = Ordered(o)
  /\ quota' = [t \in TicketTypes |-> quota[t] + Lines[o][t]]
  /\ stage' = [stage EXCEPT ![o] = "released"]
  /\ lock' = Unlocked(o)
  /\ UNCHANGED <<event, type, allocated, admin>>

\* A statement of either transaction fails: a type that is gone or sold out,
\* an order number that is taken, a deadlock, a lost connection.  A checkout
\* may try again, and so may the next webhook or sweep.
RollBack(o) ==
  /\ \/ stage[o] = "reserving" /\ stage' = [stage EXCEPT ![o] = "none"]
     \/ stage[o] = "releasing" /\ stage' = [stage EXCEPT ![o] = "placed"]
  /\ lock' = Unlocked(o)
  /\ UNCHANGED <<event, type, quota, allocated, admin>>

OrderStep ==
  \E o \in Orders :
    \/ \E t \in TicketTypes : CheckAndDeductQuota(o, t) \/ RestoreQuota(o, t)
    \/ CreateOrder(o) \/ ApplyOutcome(o) \/ RollBack(o)

-----------------------------------------------------------------------------
(* Creation and edits.                                                     *)

CreateEvent(e) ==
  /\ event[e] = "absent"
  /\ event' = [event EXCEPT ![e] = "present"]
  /\ UNCHANGED <<type, quota, allocated, stage, lock, admin>>

\* CreateTicketType reads the event, so that an unknown one gets a clear answer.
GetEventByID(a, e) ==
  /\ admin[a].at = "idle"
  /\ event[e] = "present"
  /\ admin' = Goto(a, "insert", {e}, {})
  /\ UNCHANGED <<event, type, quota, allocated, stage, lock>>

\* The INSERT: its foreign key holds the event.
InsertTicketType(a, t, q) ==
  /\ admin[a].at = "insert"
  /\ EventOf[t] \in admin[a].event
  /\ event[EventOf[t]] = "present"
  /\ type[t] = "absent"
  /\ type' = [type EXCEPT ![t] = "present"]
  /\ quota' = [quota EXCEPT ![t] = q]
  /\ allocated' = [allocated EXCEPT ![t] = q]
  /\ admin' = Idle(a)
  /\ UNCHANGED <<event, stage, lock>>

\* An attendee row is a seat.
SeatsOut(t) ==
  UNION {{o} \X (1 .. Lines[o][t]) : o \in {p \in Orders : stage[p] \in {"placed", "releasing"}}}

\* Mutation of UpdateTicketType: the submitted number is taken for the
\* original total, from which sales are subtracted again.
UpdateFromTotal(t, q) ==
  /\ Present(t)
  /\ lock[t] = None
  /\ q >= Cardinality(SeatsOut(t))
  /\ quota' = [quota EXCEPT ![t] = q - Cardinality(SeatsOut(t))]
  /\ allocated' = [allocated EXCEPT ![t] = q + Cardinality(SeatsOut(t))]
  /\ UNCHANGED <<event, type, stage, lock, admin>>

\* Mutation of UpdateTicketType: no wait for the row's last writer.
UpdateOverLock(t, q) ==
  /\ Present(t)
  /\ quota' = [quota EXCEPT ![t] = q]
  /\ allocated' = [allocated EXCEPT ![t] = q + Cardinality(SeatsOut(t))]
  /\ UNCHANGED <<event, type, stage, lock, admin>>

\* One statement sets the remaining quota to the number submitted.
UpdateTicketType(t, q) ==
  /\ Present(t)
  /\ lock[t] = None
  /\ quota' = [quota EXCEPT ![t] = q]
  /\ allocated' = [allocated EXCEPT ![t] = q + Cardinality(SeatsOut(t))]
  /\ UNCHANGED <<event, type, stage, lock, admin>>

EditStep ==
  \/ \E e \in Events : CreateEvent(e)
  \/ \E t \in TicketTypes, q \in 0 .. MaxQuota : UpdateTicketType(t, q)
  \/ \E a \in Admins :
       \/ \E e \in Events : GetEventByID(a, e)
       \/ \E t \in TicketTypes, q \in 0 .. MaxQuota : InsertTicketType(a, t, q)

-----------------------------------------------------------------------------
(* Deletions, each a transaction.                                          *)

\* DeleteTicketType's guard, which an order that has not committed passes.
HasOrdersForTicketType(a, t) ==
  /\ admin[a].at = "idle"
  /\ ~ Referenced(t)
  /\ admin' = Goto(a, "delete", {}, {t})
  /\ UNCHANGED <<event, type, quota, allocated, stage, lock>>

\* Mutation of DeleteTicketType: the guard is relied upon, without the
\* foreign keys.
DeleteGuarded(a, t) ==
  /\ admin[a].at = "delete"
  /\ t \in admin[a].types
  /\ lock[t] = None
  /\ Present(t)
  /\ type' = [type EXCEPT ![t] = "deleted"]
  /\ admin' = Idle(a)
  /\ UNCHANGED <<event, quota, allocated, stage, lock>>

\* The DELETE waits for the row's last writer; then order_items and attendees
\* must not refer to it.
DeleteTicketType(a, t) ==
  /\ admin[a].at = "delete"
  /\ t \in admin[a].types
  /\ lock[t] = None
  /\ Present(t)
  /\ ~ Referenced(t)
  /\ type' = [type EXCEPT ![t] = "deleted"]
  /\ admin' = Idle(a)
  /\ UNCHANGED <<event, quota, allocated, stage, lock>>

\* DeleteEvent first lists the ids its guard is to look at.
ListTicketTypeIDs(a, e) ==
  /\ admin[a].at = "idle"
  /\ admin' = Goto(a, "listed", {e}, TypesOf(e))
  /\ UNCHANGED <<event, type, quota, allocated, stage, lock>>

HasOrdersForTicketTypes(a) ==
  /\ admin[a].at = "listed"
  /\ \A t \in admin[a].types : ~ Referenced(t)
  /\ admin' = Goto(a, "guarded", admin[a].event, admin[a].types)
  /\ UNCHANGED <<event, type, quota, allocated, stage, lock>>

\* The statement that deletes the event's types begins: it looks for rows
\* again, and finds what was created since.
BeginDeleteTypes(a) ==
  /\ admin[a].at = "guarded"
  /\ admin' = Goto(a, "locking", admin[a].event,
                    UNION {TypesOf(e) : e \in admin[a].event})
  /\ UNCHANGED <<event, type, quota, allocated, stage, lock>>

\* It takes a row it found, or passes over one that is gone by now.
LockType(a, t) ==
  /\ admin[a].at = "locking"
  /\ t \in admin[a].types
  /\ lock[t] = None
  /\ IF Present(t)
       THEN lock' = [lock EXCEPT ![t] = a] /\ UNCHANGED admin
       ELSE admin' = Goto(a, "locking", admin[a].event, admin[a].types \ {t}) /\ UNCHANGED lock
  /\ UNCHANGED <<event, type, quota, allocated, stage>>

\* All rows taken, the foreign keys of the statement are checked.
DeleteTypes(a) ==
  /\ admin[a].at = "locking"
  /\ LockedBy(a) = admin[a].types
  /\ \A t \in admin[a].types : ~ Referenced(t)
  /\ admin' = Goto(a, "unreferenced", admin[a].event, admin[a].types)
  /\ UNCHANGED <<event, type, quota, allocated, stage, lock>>

\* Mutation of DeleteEvent: a type created meanwhile is forgotten.
DeleteEventAnyway(a, e) ==
  /\ admin[a].at = "unreferenced"
  /\ e \in admin[a].event
  /\ event[e] = "present"
  /\ event' = [event EXCEPT ![e] = "deleted"]
  /\ type' = [t \in TicketTypes |-> IF lock[t] = a THEN "deleted" ELSE type[t]]
  /\ lock' = Unlocked(a)
  /\ admin' = Idle(a)
  /\ UNCHANGED <<quota, allocated, stage>>

\* The event's row goes unless a type refers to it, and the transaction commits.
DeleteEvent(a, e) ==
  /\ admin[a].at = "unreferenced"
  /\ e \in admin[a].event
  /\ event[e] = "present"
  /\ TypesOf(e) \subseteq LockedBy(a)
  /\ event' = [event EXCEPT ![e] = "deleted"]
  /\ type' = [t \in TicketTypes |-> IF lock[t] = a THEN "deleted" ELSE type[t]]
  /\ lock' = Unlocked(a)
  /\ admin' = Idle(a)
  /\ UNCHANGED <<quota, allocated, stage>>

\* A request that ends with an error, at whatever step: a guard or a foreign key
\* says no, the row is not there, the connection is lost.
Refuse(a) ==
  /\ admin[a].at # "idle"
  /\ lock' = Unlocked(a)
  /\ admin' = Idle(a)
  /\ UNCHANGED <<event, type, quota, allocated, stage>>

DeleteStep ==
  \E a \in Admins :
    \/ \E t \in TicketTypes :
         HasOrdersForTicketType(a, t) \/ DeleteTicketType(a, t) \/ LockType(a, t)
    \/ \E e \in Events : ListTicketTypeIDs(a, e) \/ DeleteEvent(a, e)
    \/ HasOrdersForTicketTypes(a) \/ BeginDeleteTypes(a) \/ DeleteTypes(a)
    \/ Refuse(a)

Next == OrderStep \/ EditStep \/ DeleteStep

Spec == Init /\ [][Next]_vars

-----------------------------------------------------------------------------
(* Properties.                                                             *)

(* Types of the variables, the column's CHECK (quota >= 0) among them: it   *)
(* never rejects a write.                                                   *)
TypeOK ==
  /\ event \in [Events -> RowStates]
  /\ type \in [TicketTypes -> RowStates]
  /\ quota \in [TicketTypes -> Nat]
  /\ allocated \in [TicketTypes -> Nat]
  /\ stage \in [Orders -> Stages]
  /\ lock \in [TicketTypes -> Orders \cup Admins \cup {None}]
  /\ admin \in [Admins ->
       [at : AdminSteps, event : SUBSET Events, types : SUBSET TicketTypes]]

(* Sales and edits balance: what an admin last put on sale is what remains  *)
(* plus what orders hold, wherever the edit fell among the statements of    *)
(* checkouts and releases.                                                  *)
QuotaBalances ==
  \A t \in TicketTypes : quota[t] + Cardinality(SeatsOut(t)) = allocated[t]

(* A ticket type that an order was ever placed for stays, and its event     *)
(* with it, so that a cancelled order can always return its seats: no       *)
(* deletion slips in between a checkout's statements.                       *)
OrdersKeepTypes ==
  \A o \in Committed : \A t \in Ordered(o) :
    Present(t) /\ event[EventOf[t]] = "present"

(* No ticket type outlives its event, also if it is created while the       *)
(* event is being deleted.                                                  *)
TypesKeepEvents ==
  \A t \in TicketTypes : Present(t) => event[EventOf[t]] = "present"

(* An event goes with all of its types or keeps all of them: its types are  *)
(* never taken off several at a time from an event that stays.              *)
EventsGoWhole ==
  [][\A e \in Events : event'[e] = "present" =>
       \A t, u \in TypesOf(e) : (~ Present(t)' /\ ~ Present(u)') => t = u]_vars
=============================================================================
