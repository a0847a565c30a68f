--------------------------- MODULE MCCatalogPages ---------------------------
(* An instance of CatalogPages for TLC: one event with two ticket types, an   *)
(* order with a line of each and one for a single type.                       *)
EXTENDS CatalogPages, TLC

CONSTANTS concert, standing, seated, both, single

MCEventOf == [t \in TicketTypes |-> concert]

MCLines ==
  [o \in Orders |-> [t \in TicketTypes |-> IF o = both \/ t = seated THEN 1 ELSE 0]]

AdminSymmetry == Permutations(Admins)
=============================================================================
