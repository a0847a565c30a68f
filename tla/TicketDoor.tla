----------------------------- MODULE TicketDoor -----------------------------
(***************************************************************************)
(* The door: pages on which admins check ticket codes and mark tickets     *)
(* used (frontend/app/admin/validate), and the two requests they make      *)
(* (ticket domain).  A page may have several requests under way: the       *)
(* camera can be turned on again while an earlier check is unanswered, and *)
(* answers arrive in any order.                                            *)
(***************************************************************************)
EXTENDS Naturals

CONSTANTS
  Codes,   \* codes of issued tickets
  Typos,   \* codes that name no ticket
  Pages,   \* open validate pages, one for each admin at a door
  Slots    \* bound: requests of one page under way at once, 1 .. n

ASSUME TicketDoorAssumption ==
  /\ Codes \cap Typos = {}
  /\ Slots \subseteq Nat \ {0}

VARIABLES
  status,     \* tickets.status
  granted,    \* how many mark-used requests were told that they applied
  calls,      \* the requests of each page
  card,       \* the verdict a page shows
  marking     \* the mark-used request its button waits for, 0 for none

vars == <<status, granted, calls, card, marking>>

(* Each member stands for the strings NormalizeCode maps to one code. *)
Entered == Codes \cup Typos

Verdicts == {"VALID", "ALREADY_USED", "INVALID"}

Blank == [code |-> "", verdict |-> ""]

Card == [code : Entered, verdict : Verdicts]

NoCall == [kind |-> "none", code |-> "", answer |-> ""]

Call ==
  [kind : {"check"}, code : Entered, answer : {"waiting"} \cup Verdicts]
    \cup
  [kind : {"admit"}, code : Entered,
   answer : {"waiting", "notApplied", "admitted", "conflict", "notFound"}]

Request(kind, code) == [kind |-> kind, code |-> code, answer |-> "waiting"]

Init ==
  /\ status = [c \in Codes |-> "ACTIVE"]
  /\ granted = [c \in Codes |-> 0]
  /\ calls = [p \in Pages |-> [i \in Slots |-> NoCall]]
  /\ card = [p \in Pages |-> Blank]
  /\ marking = [p \in Pages |-> 0]

-----------------------------------------------------------------------------
(* The API. *)

Put(p, i, call) == calls' = [calls EXCEPT ![p][i] = call]

Waiting(p, i, kinds) == calls[p][i].kind \in kinds /\ calls[p][i].answer = "waiting"

Answer(p, i, answer) == Put(p, i, [calls[p][i] EXCEPT !.answer = answer])

\* Mutation of Verdict: everything that is not ACTIVE reads as used.
VerdictUsedUnlessActive(code) ==
  IF code \notin Codes THEN "INVALID"
  ELSE IF status[code] = "ACTIVE" THEN "VALID" ELSE "ALREADY_USED"

Verdict(code) ==
  IF code \notin Codes THEN "INVALID"
  ELSE CASE status[code] = "ACTIVE"  -> "VALID"
         [] status[code] = "USED"    -> "ALREADY_USED"
         [] status[code] = "REVOKED" -> "INVALID"

Validate(p, i) ==
  /\ Waiting(p, i, {"check"})
  /\ Answer(p, i, Verdict(calls[p][i].code))
  /\ UNCHANGED <<status, granted, card, marking>>

\* Mutation of MarkUsed: the UPDATE has no status in its WHERE clause.
MarkUsedUnguarded(p, i) ==
  LET code == calls[p][i].code
  IN /\ Waiting(p, i, {"admit"})
     /\ IF code \in Codes
          THEN /\ status' = [status EXCEPT ![code] = "USED"]
               /\ granted' = [granted EXCEPT ![code] = @ + 1]
               /\ Answer(p, i, "admitted")
          ELSE Answer(p, i, "notApplied") /\ UNCHANGED <<status, granted>>
     /\ UNCHANGED <<card, marking>>

(* The guarded UPDATE alone decides who admits; a request it did not apply to
   goes on to read why. *)
MarkUsed(p, i) ==
  LET code == calls[p][i].code
  IN /\ Waiting(p, i, {"admit"})
     /\ IF code \in Codes /\ status[code] = "ACTIVE"
          THEN /\ status' = [status EXCEPT ![code] = "USED"]
               /\ granted' = [granted EXCEPT ![code] = @ + 1]
               /\ Answer(p, i, "admitted")
          ELSE Answer(p, i, "notApplied") /\ UNCHANGED <<status, granted>>
     /\ UNCHANGED <<card, marking>>

GetStatusByCode(p, i) ==
  /\ calls[p][i].answer = "notApplied"
  /\ Answer(p, i, IF calls[p][i].code \in Codes THEN "conflict" ELSE "notFound")
  /\ UNCHANGED <<status, granted, card, marking>>

(* Nothing in the repository revokes a ticket, though everything that reads
   one expects it: an operator does it in the database. *)
Revoke(c) ==
  /\ status[c] = "ACTIVE"
  /\ status' = [status EXCEPT ![c] = "REVOKED"]
  /\ UNCHANGED <<granted, calls, card, marking>>

-----------------------------------------------------------------------------
(* The page. *)

\* The button is free again when the request it waits for has ended.
Unmark(p, i) == marking' = IF marking[p] = i THEN [marking EXCEPT ![p] = 0] ELSE marking

(* check: a typed or scanned code; it resets the button. *)
Check(p, i, code) ==
  /\ calls[p][i] = NoCall
  /\ Put(p, i, Request("check", code))
  /\ marking' = [marking EXCEPT ![p] = 0]
  /\ UNCHANGED <<status, granted, card>>

(* An answered check replaces the card, whatever was asked since. *)
ShowVerdict(p, i) ==
  LET call == calls[p][i]
  IN /\ call.answer \in Verdicts
     /\ card' = [card EXCEPT ![p] = [code |-> call.code, verdict |-> call.answer]]
     /\ Put(p, i, NoCall)
     /\ UNCHANGED <<status, granted, marking>>

(* admit: the button is there for a VALID card only. *)
Admit(p, i) ==
  /\ card[p].verdict = "VALID"
  /\ marking[p] = 0
  /\ calls[p][i] = NoCall
  /\ Put(p, i, Request("admit", card[p].code))
  /\ marking' = [marking EXCEPT ![p] = i]
  /\ UNCHANGED <<status, granted, card>>

(* After an admission the page validates the code again. *)
Admitted(p, i) ==
  /\ calls[p][i].answer = "admitted"
  /\ Put(p, i, Request("check", calls[p][i].code))
  /\ Unmark(p, i)
  /\ UNCHANGED <<status, granted, card>>

\* Mutation of Refused: an error leaves the button waiting.
RefusedKeepingButton(p, i) ==
  /\ calls[p][i].answer \in {"conflict", "notFound"}
  /\ Put(p, i, NoCall)
  /\ UNCHANGED <<status, granted, card, marking>>

Refused(p, i) ==
  /\ calls[p][i].answer \in {"conflict", "notFound"}
  /\ Put(p, i, NoCall)
  /\ Unmark(p, i)
  /\ UNCHANGED <<status, granted, card>>

(* A request or its answer is lost: an alert, and the card stays. *)
CallFails(p, i) ==
  /\ calls[p][i] # NoCall
  /\ Put(p, i, NoCall)
  /\ Unmark(p, i)
  /\ UNCHANGED <<status, granted, card>>

Next ==
  \/ \E p \in Pages, i \in Slots :
       \/ Validate(p, i) \/ MarkUsed(p, i) \/ GetStatusByCode(p, i)
       \/ \E code \in Entered : Check(p, i, code)
       \/ ShowVerdict(p, i)
       \/ Admit(p, i) \/ Admitted(p, i) \/ Refused(p, i)
       \/ CallFails(p, i)
  \/ \E c \in Codes : Revoke(c)

Spec == Init /\ [][Next]_vars

-----------------------------------------------------------------------------
TypeOK ==
  /\ status \in [Codes -> {"ACTIVE", "USED", "REVOKED"}]
  /\ granted \in [Codes -> Nat]
  /\ calls \in [Pages -> [Slots -> Call \cup {NoCall}]]
  /\ card \in [Pages -> Card \cup {Blank}]
  /\ marking \in [Pages -> Slots \cup {0}]
  /\ \A p \in Pages : marking[p] # 0 => calls[p][marking[p]].kind = "admit"

(* "Two admins scanning the same ticket at the same moment cannot both be told
   they admitted it" (ticket/repository.go): a ticket is granted once if it is
   USED and never otherwise, also when answers are lost and pages try again. *)
AdmittedOnce ==
  \A c \in Codes : granted[c] = IF status[c] = "USED" THEN 1 ELSE 0

(* A refusal can be relied on: what a door was told of a ticket it must not
   admit is still true when the answer arrives and while it is on the card.
   Only VALID can become stale, and MarkUsed checks it again.               *)
Reliable(row, code, answer) ==
  /\ answer \in {"ALREADY_USED", "admitted"} => code \in Codes /\ row[code] = "USED"
  /\ answer = "INVALID" /\ code \in Codes => row[code] = "REVOKED"
  /\ answer \in {"notApplied", "conflict"} /\ code \in Codes => row[code] # "ACTIVE"
  /\ answer = "notFound" => code \notin Codes

RefusalsStayTrue ==
  \A p \in Pages :
    /\ Reliable(status, card[p].code, card[p].verdict)
    /\ \A i \in Slots : Reliable(status, calls[p][i].code, calls[p][i].answer)

(* Mark-used is irreversible, and a revoked ticket is never admitted.       *)
UsedAndRevokedAreFinal ==
  [][\A c \in Codes : status[c] # "ACTIVE" => status'[c] = status[c]]_vars

=============================================================================
