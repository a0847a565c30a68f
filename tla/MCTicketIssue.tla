--------------------------- MODULE MCTicketIssue ---------------------------
(* Instances of TicketIssue for TLC. *)
EXTENDS TicketIssue, TLC

CONSTANTS o1, o2, f1, f2, f3, r1, r2, ann, bob, cas, c1, c2, c3, c4

MCAttendees == [o \in Orders |-> IF o = o1 THEN {ann, bob} ELSE {cas}]

\* The first order has two resend requests, and two payments compete for it.
MCOrderOf == [d \in Deliveries |-> IF d = f2 THEN o2 ELSE o1]

CodeSymmetry == Permutations(Codes) \cup Permutations(Resends) \cup Permutations({f1, f3})
=============================================================================
