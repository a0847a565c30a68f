---------------------------- MODULE MCApiProcess ----------------------------
(* Instances of ApiProcess for TLC. *)
EXTENDS ApiProcess, TLC

CONSTANTS o1, o2, standing, seated

\* Two orders for the same two ticket types, listed in opposite order.
MCCart == o1 :> <<standing, seated>> @@ o2 :> <<seated, standing>>

=============================================================================
