-------------------------- MODULE MCOrderLifecycle --------------------------
(* Instances of OrderLifecycle for TLC. *)
EXTENDS OrderLifecycle, TLC

CONSTANTS o1, o2, standing, seated

\* Orders o1 and o2 compete for seated tickets; o2 has a line of each type.
MCLines ==
  [o \in Orders |-> [t \in TicketTypes |->
     CASE o = o1 -> IF t = seated THEN 2 ELSE 0
       [] OTHER  -> 1]]

MCCapacity == standing :> 1 @@ seated :> 3

MCReceipts == {SessionAnswer("settlement", "accept"), SessionAnswer("capture", "accept")}

MCDeclines == {SessionAnswer("cancel", "accept")}
=============================================================================
