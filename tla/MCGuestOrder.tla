---------------------------- MODULE MCGuestOrder ----------------------------
(* Instances of GuestOrder for TLC. *)
EXTENDS GuestOrder, TLC

CONSTANTS standing, seated, balcony

\* In half rupiah: a place on the balcony costs one and a half.
MCPrice == standing :> 2 @@ seated :> 4 @@ balcony :> 3

Line(t, n) == [type |-> t, quantity |-> n]

\* Quantities have three bits: three lines of three make a total of one.
MCItems ==
  { <<>>, <<Line(NilType, 1)>>, <<Line(seated, 0)>>, <<Line(seated, -1)>>,
    <<Line(seated, 1)>>, <<Line(seated, 1), Line(seated, 1)>>,
    <<Line(balcony, 3)>>, <<Line(seated, 1), Line(balcony, 1)>>,
    <<Line(standing, 1), Line(seated, 1), Line(balcony, 1)>>,
    <<Line(standing, 3), Line(seated, 3)>>,
    <<Line(standing, 3), Line(seated, 3), Line(balcony, 3)>> }

MCAttendees == UNION {[1..n -> TicketTypes] : n \in 0..3}

MCBodies ==
  {[incomplete |-> FALSE, items |-> items, attendees |-> attendees] :
     items \in MCItems, attendees \in MCAttendees}
  \cup {[incomplete |-> TRUE, items |-> <<Line(seated, 1)>>, attendees |-> <<seated>>]}

\* One seat, for a run about the page alone.
MCOneBody == {[incomplete |-> FALSE, items |-> <<Line(seated, 1)>>, attendees |-> <<seated>>]}

MCSkews == {-3, 0, 2}
=============================================================================
