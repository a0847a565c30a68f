---------------------------- MODULE MCTicketDoor ----------------------------
(* Instances of TicketDoor for TLC. *)
EXTENDS TicketDoor, TLC

PageSymmetry == Permutations(Pages)
=============================================================================
