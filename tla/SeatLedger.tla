----------------------------- MODULE SeatLedger -----------------------------
(***************************************************************************)
(* What the ticketing backend promises about seats, with every handler,    *)
(* transaction and message forgotten: an order holds all of its seats or   *)
(* none, a held order is sold or released exactly once, and a released     *)
(* order puts back precisely what it took.                                 *)
(*                                                                         *)
(* OrderLifecycle is shown to implement this module: its column            *)
(* ticket_types.quota is "free" and orders.status decides "stage".         *)
(***************************************************************************)
EXTENDS OrderLines, Integers, FiniteSets

VARIABLES
  free,   \* seats of each type that nobody holds
  stage   \* what has become of each order

ledger == <<free, stage>>

Stages == {"none", "held", "sold", "released"}

Init ==
  /\ free = Capacity
  /\ stage = [o \in Orders |-> "none"]

Hold(o) ==
  /\ stage[o] = "none"
  /\ \A t \in TicketTypes : Lines[o][t] <= free[t]
  /\ free' = [t \in TicketTypes |-> free[t] - Lines[o][t]]
  /\ stage' = [stage EXCEPT ![o] = "held"]

Sell(o) ==
  /\ stage[o] = "held"
  /\ stage' = [stage EXCEPT ![o] = "sold"]
  /\ UNCHANGED free

Release(o) ==
  /\ stage[o] = "held"
  /\ free' = [t \in TicketTypes |-> free[t] + Lines[o][t]]
  /\ stage' = [stage EXCEPT ![o] = "released"]

Next == \E o \in Orders : Hold(o) \/ Sell(o) \/ Release(o)

Spec == Init /\ [][Next]_ledger

TypeOK ==
  /\ free \in [TicketTypes -> Nat]
  /\ stage \in [Orders -> Stages]

-----------------------------------------------------------------------------
(***************************************************************************)
(* A seat is one attendee row: checkout inserts exactly as many for a line *)
(* as its quantity, so <<o, i>> with i \in 1..Lines[o][t] names the i-th   *)
(* attendee that order o registers for type t.                             *)
(***************************************************************************)
SeatsOf(o, t) == {o} \X (1 .. Lines[o][t])

Holders == {o \in Orders : stage[o] \in {"held", "sold"}}

SeatsOut(t) == UNION {SeatsOf(o, t) : o \in Holders}

(* Seats are neither lost nor invented: what is free and what orders hold  *)
(* always add up to the quota the type started with.  (The quota moves of  *)
(* CheckAndDeductQuota and RestoreQuota balance over any history.)         *)
SeatsConserved ==
  \A t \in TicketTypes : free[t] + Cardinality(SeatsOut(t)) = Capacity[t]

(* FR-006: concurrent checkouts never deduct more than there is.           *)
NeverOversold ==
  \A t \in TicketTypes : Cardinality(SeatsOut(t)) <= Capacity[t]
=============================================================================
