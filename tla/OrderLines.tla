----------------------------- MODULE OrderLines -----------------------------
(***************************************************************************)
(* What the orders of an instance ask for and how many seats there are:    *)
(* the constants that SeatLedger and OrderLifecycle share.                 *)
(***************************************************************************)
EXTENDS Naturals

CONSTANTS
  Orders,       \* order numbers, one for each checkout request
  TicketTypes,  \* rows of ticket_types
  Lines,        \* Lines[o][t]: how many tickets of type t order o asks for
  Capacity      \* Capacity[t]: ticket_types.quota before the first sale

ASSUME OrderLinesAssumption ==
  /\ Lines \in [Orders -> [TicketTypes -> Nat]]
  /\ Capacity \in [TicketTypes -> Nat]
=============================================================================
