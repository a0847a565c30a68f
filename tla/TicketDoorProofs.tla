-------------------------- MODULE TicketDoorProofs --------------------------
(***************************************************************************)
(* TicketDoor for any number of tickets, doors and requests under way:     *)
(* nobody is admitted twice, and every refusal stays true.                 *)
(***************************************************************************)
EXTENDS TicketDoor, TLAPS

(* How the row of a ticket can change in one step.                         *)
RowStep ==
  \A c \in Codes :
    \/ status'[c] = status[c] /\ granted'[c] = granted[c]
    \/ status[c] = "ACTIVE" /\ status'[c] = "USED" /\ granted'[c] = granted[c] + 1
    \/ status[c] = "ACTIVE" /\ status'[c] = "REVOKED" /\ granted'[c] = granted[c]

RowTypes ==
  status \in [Codes -> {"ACTIVE", "USED", "REVOKED"}] /\ granted \in [Codes -> Nat]

CallTypes == calls \in [Pages -> [Slots -> Call \cup {NoCall}]]

PageTypes ==
  /\ card \in [Pages -> Card \cup {Blank}]
  /\ marking \in [Pages -> Slots \cup {0}]

ButtonHasRequest ==
  \A p \in Pages : marking[p] # 0 => calls[p][marking[p]].kind = "admit"

Inv == TypeOK /\ AdmittedOnce /\ RefusalsStayTrue

LEMMA TypeParts == TypeOK <=> RowTypes /\ CallTypes /\ PageTypes /\ ButtonHasRequest
BY DEF TypeOK, RowTypes, CallTypes, PageTypes, ButtonHasRequest

LEMMA Initially == Init => Inv
<1> SUFFICES ASSUME Init PROVE Inv
  OBVIOUS
<1>1. TypeOK
  BY DEF Init, TypeOK
<1>2. AdmittedOnce
  BY DEF Init, AdmittedOnce
<1>3. RefusalsStayTrue
  BY DEF Init, RefusalsStayTrue, Reliable, Blank, NoCall
<1> QED
  BY <1>1, <1>2, <1>3 DEF Inv

(* A refusal is about a row that no longer changes.                        *)
LEMMA ReliableStays ==
  ASSUME RowStep, NEW code, NEW answer, Reliable(status, code, answer)
  PROVE  Reliable(status', code, answer)
BY DEF RowStep, Reliable

LEMMA AdmissionStays ==
  ASSUME TypeOK, AdmittedOnce, RowStep
  PROVE  AdmittedOnce'
BY DEF TypeOK, AdmittedOnce, RowStep

(* What the answer of a call says of its kind.                             *)
LEMMA CallShape ==
  ASSUME NEW call \in Call \cup {NoCall}, call.answer # ""
  PROVE  /\ call \in Call
         /\ call.code \in Entered
         /\ call.answer \in {"notApplied", "admitted", "conflict", "notFound"} => call.kind = "admit"
         /\ call.answer \in Verdicts => call.kind \in {"check"}
<1>1. CASE call = NoCall
  BY <1>1 DEF NoCall
<1>2. CASE call \in Call
  BY <1>2 DEF Call, Verdicts
<1> QED
  BY <1>1, <1>2

(* One call of one page changes, and it is put to something reliable.      *)
LEMMA CallStep ==
  ASSUME Inv, RowStep, NEW p \in Pages, NEW i \in Slots, NEW call \in Call \cup {NoCall},
         Put(p, i, call),
         Reliable(status', call.code, call.answer)
  PROVE  /\ CallTypes'
         /\ \A q \in Pages, j \in Slots :
              Reliable(status', calls'[q][j].code, calls'[q][j].answer)
         /\ calls'[p][i] = call
         /\ \A q \in Pages, j \in Slots : q # p \/ j # i => calls'[q][j] = calls[q][j]
<1>1. /\ CallTypes'
      /\ calls'[p][i] = call
      /\ \A q \in Pages, j \in Slots : q # p \/ j # i => calls'[q][j] = calls[q][j]
  BY DEF Inv, TypeOK, CallTypes, Put
<1>2. ASSUME NEW q \in Pages, NEW j \in Slots
      PROVE  Reliable(status', calls'[q][j].code, calls'[q][j].answer)
  <2>1. CASE q = p /\ j = i
    BY <1>1, <2>1
  <2>2. CASE q # p \/ j # i
    <3>1. Reliable(status', calls[q][j].code, calls[q][j].answer)
      BY ReliableStays DEF Inv, RefusalsStayTrue
    <3> QED
      BY <1>1, <2>2, <3>1
  <2> QED
    BY <2>1, <2>2
<1> QED
  BY <1>1, <1>2

(* A step that leaves the cards alone leaves them reliable.                *)
LEMMA CardsStay ==
  ASSUME Inv, RowStep, UNCHANGED card, NEW p \in Pages
  PROVE  Reliable(status', card'[p].code, card'[p].verdict)
BY ReliableStays DEF Inv, RefusalsStayTrue

(* One request of one page moves on, with what it changes on the page.     *)
LEMMA PageStep ==
  ASSUME Inv, RowStep, RowTypes', PageTypes',
         NEW p \in Pages, NEW i \in Slots, NEW call \in Call \cup {NoCall}, Put(p, i, call),
         Reliable(status', call.code, call.answer),
         \A q \in Pages : Reliable(status', card'[q].code, card'[q].verdict),
         \A q \in Pages :
           \/ marking'[q] = 0
           \/ q = p /\ marking'[q] = i /\ call.kind = "admit"
           \/ (q # p \/ marking'[q] # i) /\ marking'[q] = marking[q]
  PROVE  Inv'
<1>1. /\ CallTypes'
      /\ \A q \in Pages, j \in Slots :
           Reliable(status', calls'[q][j].code, calls'[q][j].answer)
      /\ calls'[p][i] = call
      /\ \A q \in Pages, j \in Slots : q # p \/ j # i => calls'[q][j] = calls[q][j]
  BY CallStep
<1>2. ButtonHasRequest'
  <2> SUFFICES ASSUME NEW q \in Pages, marking'[q] # 0
               PROVE  calls'[q][marking'[q]].kind = "admit"
    BY DEF ButtonHasRequest
  <2>1. marking'[q] \in Slots
    BY DEF PageTypes
  <2>2. CASE q = p /\ marking'[q] = i /\ call.kind = "admit"
    BY <1>1, <2>2
  <2>3. CASE (q # p \/ marking'[q] # i) /\ marking'[q] = marking[q]
    <3>1. calls[q][marking[q]].kind = "admit"
      BY <2>3 DEF Inv, TypeOK
    <3> QED
      BY <1>1, <2>1, <2>3, <3>1
  <2> QED
    BY <2>2, <2>3
<1>3. TypeOK'
  BY <1>1, <1>2 DEF TypeOK, RowTypes, CallTypes, PageTypes, ButtonHasRequest
<1>4. AdmittedOnce'
  BY AdmissionStays DEF Inv
<1>5. RefusalsStayTrue'
  BY <1>1 DEF RefusalsStayTrue
<1> QED
  BY <1>3, <1>4, <1>5 DEF Inv

(* A request of the API is answered; the page does not know yet.           *)
LEMMA AnswerStep ==
  ASSUME Inv, RowStep, RowTypes', NEW p \in Pages, NEW i \in Slots, NEW answer,
         Answer(p, i, answer), UNCHANGED <<card, marking>>,
         [calls[p][i] EXCEPT !.answer = answer] \in Call,
         calls[p][i] \in Call,
         Reliable(status', calls[p][i].code, answer)
  PROVE  Inv'
<1> DEFINE call == [calls[p][i] EXCEPT !.answer = answer]
<1>1. call.code = calls[p][i].code /\ call.kind = calls[p][i].kind /\ call.answer = answer
  BY DEF Call
<1>2. PageTypes'
  BY DEF Inv, TypeOK, PageTypes
<1>3. \A q \in Pages : Reliable(status', card'[q].code, card'[q].verdict)
  BY CardsStay
<1>4. call \in Call \cup {NoCall} /\ Put(p, i, call) /\ Reliable(status', call.code, call.answer)
  BY <1>1 DEF Answer
<1>5. marking[p] = i => call.kind = "admit"
  BY <1>1, TicketDoorAssumption DEF Inv, TypeOK, TicketDoorAssumption
<1> HIDE DEF call
<1>6. \A q \in Pages :
        \/ marking'[q] = 0
        \/ q = p /\ marking'[q] = i /\ call.kind = "admit"
        \/ (q # p \/ marking'[q] # i) /\ marking'[q] = marking[q]
  BY <1>5
<1> QED
  BY <1>2, <1>3, <1>4, <1>6, PageStep

LEMMA ValidateStep ==
  ASSUME Inv, NEW p \in Pages, NEW i \in Slots, Validate(p, i)
  PROVE  Inv'
<1> DEFINE code == calls[p][i].code
<1>1. calls[p][i] \in Call /\ calls[p][i].kind \in {"check"} /\ code \in Entered
  <2>1. calls[p][i] \in Call \cup {NoCall}
    BY DEF Inv, TypeOK
  <2>2. calls[p][i].answer = "waiting" /\ calls[p][i].kind \in {"check"}
    BY DEF Validate, Waiting
  <2> QED
    BY <2>1, <2>2, CallShape
<1>2. RowStep /\ RowTypes'
  BY DEF Validate, RowStep, RowTypes, Inv, TypeOK
<1>3. Verdict(code) \in Verdicts /\ Reliable(status', code, Verdict(code))
  BY <1>1 DEF Verdict, Verdicts, Reliable, Validate, Inv, TypeOK
<1>4. [calls[p][i] EXCEPT !.answer = Verdict(code)] \in Call
  BY <1>1, <1>3 DEF Call
<1> QED
  BY <1>1, <1>2, <1>3, <1>4, AnswerStep DEF Validate

LEMMA MarkUsedStep ==
  ASSUME Inv, NEW p \in Pages, NEW i \in Slots, MarkUsed(p, i)
  PROVE  Inv'
<1> DEFINE code == calls[p][i].code
<1>1. calls[p][i] \in Call /\ calls[p][i].kind = "admit" /\ code \in Entered
  <2>1. calls[p][i] \in Call \cup {NoCall}
    BY DEF Inv, TypeOK
  <2>2. calls[p][i].answer = "waiting" /\ calls[p][i].kind = "admit"
    BY DEF MarkUsed, Waiting
  <2> QED
    BY <2>1, <2>2, CallShape
<1> DEFINE granting == code \in Codes /\ status[code] = "ACTIVE"
<1>2. RowStep /\ RowTypes'
  <2>1. CASE granting
    <3>1. /\ status' = [status EXCEPT ![code] = "USED"]
          /\ granted' = [granted EXCEPT ![code] = @ + 1]
      BY <2>1 DEF MarkUsed
    <3>2. status \in [Codes -> {"ACTIVE", "USED", "REVOKED"}] /\ granted \in [Codes -> Nat]
      BY DEF Inv, TypeOK
    <3> HIDE DEF code
    <3> QED
      BY <2>1, <3>1, <3>2 DEF RowStep, RowTypes
  <2>2. CASE ~granting
    <3>1. UNCHANGED <<status, granted>>
      BY <2>2 DEF MarkUsed
    <3> QED
      BY <3>1 DEF RowStep, RowTypes, Inv, TypeOK
  <2> QED
    BY <2>1, <2>2
<1>3. CASE code \in Codes /\ status[code] = "ACTIVE"
  <2>1. Answer(p, i, "admitted") /\ status'[code] = "USED"
    BY <1>3 DEF MarkUsed, Inv, TypeOK
  <2>2. [calls[p][i] EXCEPT !.answer = "admitted"] \in Call
    BY <1>1 DEF Call, Verdicts
  <2>3. Reliable(status', code, "admitted")
    BY <1>3, <2>1 DEF Reliable
  <2> QED
    BY <1>1, <1>2, <2>1, <2>2, <2>3, AnswerStep DEF MarkUsed
<1>4. CASE ~(code \in Codes /\ status[code] = "ACTIVE")
  <2>1. Answer(p, i, "notApplied") /\ UNCHANGED status
    BY <1>4 DEF MarkUsed
  <2>2. [calls[p][i] EXCEPT !.answer = "notApplied"] \in Call
    BY <1>1 DEF Call, Verdicts
  <2>3. Reliable(status', code, "notApplied")
    BY <1>4, <2>1 DEF Reliable
  <2> QED
    BY <1>1, <1>2, <2>1, <2>2, <2>3, AnswerStep DEF MarkUsed
<1> QED
  BY <1>3, <1>4

LEMMA GetStatusStep ==
  ASSUME Inv, NEW p \in Pages, NEW i \in Slots, GetStatusByCode(p, i)
  PROVE  Inv'
<1> DEFINE code == calls[p][i].code
           answer == IF code \in Codes THEN "conflict" ELSE "notFound"
<1>1. calls[p][i] \in Call /\ calls[p][i].kind = "admit" /\ code \in Entered
  <2>1. calls[p][i] \in Call \cup {NoCall}
    BY DEF Inv, TypeOK
  <2>2. calls[p][i].answer = "notApplied"
    BY DEF GetStatusByCode
  <2> QED
    BY <2>1, <2>2, CallShape
<1>2. RowStep /\ RowTypes'
  BY DEF GetStatusByCode, RowStep, RowTypes, Inv, TypeOK
<1>3. Reliable(status, code, "notApplied")
  BY DEF GetStatusByCode, Inv, RefusalsStayTrue
<1>4. Reliable(status', code, answer)
  BY <1>3 DEF Reliable, GetStatusByCode
<1>5. [calls[p][i] EXCEPT !.answer = answer] \in Call
  BY <1>1 DEF Call, Verdicts
<1> QED
  BY <1>1, <1>2, <1>4, <1>5, AnswerStep DEF GetStatusByCode

(* The page: it asks, shows an answer, or gives a request up.              *)
LEMMA NoRowMoves ==
  ASSUME Inv, UNCHANGED <<status, granted>>
  PROVE  RowStep /\ RowTypes'
BY DEF RowStep, RowTypes, Inv, TypeOK

LEMMA CheckStep ==
  ASSUME Inv, NEW p \in Pages, NEW i \in Slots, NEW code \in Entered, Check(p, i, code)
  PROVE  Inv'
<1>1. RowStep /\ RowTypes'
  BY NoRowMoves DEF Check
<1>2. PageTypes'
  BY DEF Check, Inv, TypeOK, PageTypes
<1>3. Request("check", code) \in Call \cup {NoCall}
  BY DEF Request, Call
<1>4. Reliable(status', Request("check", code).code, Request("check", code).answer)
  BY DEF Request, Reliable
<1>5. \A q \in Pages : Reliable(status', card'[q].code, card'[q].verdict)
  BY <1>1, CardsStay DEF Check
<1>6. \A q \in Pages : marking'[q] = 0 \/ (marking'[q] = marking[q] /\ q # p)
  BY DEF Check, Inv, TypeOK
<1>7. Put(p, i, Request("check", code))
  BY DEF Check
<1> QED
  BY <1>1, <1>2, <1>3, <1>4, <1>5, <1>6, <1>7, PageStep

LEMMA ShowStep ==
  ASSUME Inv, NEW p \in Pages, NEW i \in Slots, ShowVerdict(p, i)
  PROVE  Inv'
<1> DEFINE call == calls[p][i]
<1>1. RowStep /\ RowTypes'
  BY NoRowMoves DEF ShowVerdict
<1>2. call \in Call /\ call.code \in Entered /\ call.kind # "admit" /\ call.answer \in Verdicts
  <2>1. call \in Call \cup {NoCall}
    BY DEF Inv, TypeOK
  <2>2. call.answer \in Verdicts
    BY DEF ShowVerdict
  <2> QED
    BY <2>1, <2>2, CallShape DEF Verdicts
<1>3. [code |-> call.code, verdict |-> call.answer] \in Card
  BY <1>2 DEF Card
<1> HIDE DEF call
<1>4. PageTypes'
  <2>1. card' \in [Pages -> Card \cup {Blank}]
    BY <1>3 DEF ShowVerdict, Inv, TypeOK, call
  <2> QED
    BY <2>1 DEF ShowVerdict, PageTypes, Inv, TypeOK
<1>5. \A q \in Pages : Reliable(status', card'[q].code, card'[q].verdict)
  <2> SUFFICES ASSUME NEW q \in Pages PROVE Reliable(status', card'[q].code, card'[q].verdict)
    OBVIOUS
  <2>1. CASE q = p
    <3>1. card'[q] = [code |-> call.code, verdict |-> call.answer]
      BY <2>1 DEF ShowVerdict, Inv, TypeOK, call
    <3>2. Reliable(status', call.code, call.answer)
      BY <1>1, ReliableStays DEF Inv, RefusalsStayTrue, call
    <3> QED
      BY <3>1, <3>2
  <2>2. CASE q # p
    <3>1. card'[q] = card[q]
      BY <2>2 DEF ShowVerdict, Inv, TypeOK
    <3>2. Reliable(status', card[q].code, card[q].verdict)
      BY <1>1, ReliableStays DEF Inv, RefusalsStayTrue
    <3> QED
      BY <3>1, <3>2
  <2> QED
    BY <2>1, <2>2
<1>6. marking[p] # i
  BY <1>2, TicketDoorAssumption DEF Inv, TypeOK, TicketDoorAssumption, call
<1>7. Put(p, i, NoCall) /\ Reliable(status', NoCall.code, NoCall.answer)
  BY DEF ShowVerdict, NoCall, Reliable
<1>8. UNCHANGED marking
  BY DEF ShowVerdict
<1> QED
  BY <1>1, <1>4, <1>5, <1>6, <1>7, <1>8, PageStep

LEMMA AdmitStep ==
  ASSUME Inv, NEW p \in Pages, NEW i \in Slots, Admit(p, i)
  PROVE  Inv'
<1> DEFINE call == Request("admit", card[p].code)
<1>1. RowStep /\ RowTypes'
  BY NoRowMoves DEF Admit
<1>2. PageTypes'
  BY DEF Admit, Inv, TypeOK, PageTypes
<1>3. card[p].code \in Entered
  <2>1. card[p] \in Card \cup {Blank} /\ card[p].verdict = "VALID"
    BY DEF Admit, Inv, TypeOK
  <2>2. card[p] # Blank
    <3>1. Blank.verdict = "" /\ "" # "VALID"
      BY DEF Blank
    <3> QED
      BY <2>1, <3>1
  <2>3. card[p] \in [code : Entered, verdict : Verdicts]
    BY <2>1, <2>2 DEF Card
  <2> QED
    BY <2>3
<1>4. call \in Call \cup {NoCall} /\ call.kind = "admit"
  BY <1>3 DEF Request, Call
<1>5. Reliable(status', call.code, call.answer)
  BY DEF Request, Reliable
<1>6. \A q \in Pages : Reliable(status', card'[q].code, card'[q].verdict)
  BY <1>1, CardsStay DEF Admit
<1>7. marking'[p] = i /\ \A q \in Pages : q # p => marking'[q] = marking[q]
  BY DEF Admit, Inv, TypeOK
<1>8. Put(p, i, call)
  BY DEF Admit
<1> HIDE DEF call
<1> QED
  BY <1>1, <1>2, <1>4, <1>5, <1>6, <1>7, <1>8, PageStep

(* A request ends, and with it the button's waiting for it.                *)
LEMMA EndStep ==
  ASSUME Inv, NEW p \in Pages, NEW i \in Slots, NEW call \in Call \cup {NoCall},
         Put(p, i, call), call.answer \in {"", "waiting"}, Unmark(p, i),
         UNCHANGED <<status, granted, card>>
  PROVE  Inv'
<1>1. RowStep /\ RowTypes'
  BY NoRowMoves
<1>2. PageTypes'
  BY DEF Unmark, Inv, TypeOK, PageTypes
<1>3. Reliable(status', call.code, call.answer)
  BY DEF Reliable
<1>4. \A q \in Pages : Reliable(status', card'[q].code, card'[q].verdict)
  BY <1>1, CardsStay
<1>5. \A q \in Pages :
        marking'[q] = 0 \/ ((q # p \/ marking'[q] # i) /\ marking'[q] = marking[q])
  BY DEF Unmark, Inv, TypeOK
<1> QED
  BY <1>1, <1>2, <1>3, <1>4, <1>5, PageStep

LEMMA NextStep ==
  ASSUME Inv, [Next]_vars
  PROVE  Inv'
<1>1. ASSUME NEW p \in Pages, NEW i \in Slots, Validate(p, i) \/ MarkUsed(p, i) \/ GetStatusByCode(p, i)
      PROVE  Inv'
  BY <1>1, ValidateStep, MarkUsedStep, GetStatusStep
<1>2. ASSUME NEW p \in Pages, NEW i \in Slots, NEW code \in Entered, Check(p, i, code) PROVE Inv'
  BY <1>2, CheckStep
<1>3. ASSUME NEW p \in Pages, NEW i \in Slots, ShowVerdict(p, i) \/ Admit(p, i) PROVE Inv'
  BY <1>3, ShowStep, AdmitStep
<1>4. ASSUME NEW p \in Pages, NEW i \in Slots, Admitted(p, i) PROVE Inv'
  <2>1. calls[p][i] \in Call \cup {NoCall} /\ calls[p][i].answer = "admitted"
    BY <1>4 DEF Admitted, Inv, TypeOK
  <2>2. calls[p][i].code \in Entered
    BY <2>1, CallShape
  <2> DEFINE call == Request("check", calls[p][i].code)
  <2>3. call \in Call \cup {NoCall} /\ call.answer = "waiting"
    BY <2>2 DEF Request, Call
  <2>4. Put(p, i, call) /\ Unmark(p, i) /\ UNCHANGED <<status, granted, card>>
    BY <1>4 DEF Admitted
  <2> HIDE DEF call
  <2> QED
    BY <2>3, <2>4, EndStep
<1>5. ASSUME NEW p \in Pages, NEW i \in Slots, Refused(p, i) \/ CallFails(p, i) PROVE Inv'
  <2>1. Put(p, i, NoCall) /\ Unmark(p, i) /\ UNCHANGED <<status, granted, card>>
    BY <1>5 DEF Refused, CallFails
  <2>2. NoCall.answer = ""
    BY DEF NoCall
  <2> QED
    BY <2>1, <2>2, EndStep
<1>6. ASSUME UNCHANGED <<calls, card, marking>>, RowStep, RowTypes' PROVE Inv'
  <2>1. TypeOK'
    BY <1>6, TypeParts DEF Inv, TypeOK, RowTypes
  <2>2. AdmittedOnce'
    BY <1>6, AdmissionStays DEF Inv
  <2>3. RefusalsStayTrue'
    BY <1>6, ReliableStays DEF Inv, RefusalsStayTrue
  <2> QED
    BY <2>1, <2>2, <2>3 DEF Inv
<1>7. ASSUME NEW c \in Codes, Revoke(c) PROVE Inv'
  <2>1. RowStep /\ RowTypes'
    BY <1>7 DEF Revoke, RowStep, RowTypes, Inv, TypeOK
  <2> QED
    BY <1>6, <1>7, <2>1 DEF Revoke
<1>8. CASE UNCHANGED vars
  BY <1>6, <1>8, NoRowMoves DEF vars
<1> QED
  BY <1>1, <1>2, <1>3, <1>4, <1>5, <1>7, <1>8 DEF Next

(* Requests, cards and buttons of any number of pages stay well formed: a   *)
(* button that waits has its request.                                       *)
THEOREM DoorTyped == Spec => []TypeOK
<1>1. Inv /\ [Next]_vars => Inv'
  BY NextStep
<1>2. Inv => TypeOK
  BY DEF Inv
<1> QED
  BY <1>1, <1>2, Initially, PTL DEF Spec

(* For any number of doors a ticket admits once.                           *)
THEOREM OneAdmission == Spec => []AdmittedOnce
<1>1. Inv /\ [Next]_vars => Inv'
  BY NextStep
<1>2. Inv => AdmittedOnce
  BY DEF Inv
<1> QED
  BY <1>1, <1>2, Initially, PTL DEF Spec

(* A door that was told not to admit can rely on it.                       *)
THEOREM ReliableRefusals == Spec => []RefusalsStayTrue
<1>1. Inv /\ [Next]_vars => Inv'
  BY NextStep
<1>2. Inv => RefusalsStayTrue
  BY DEF Inv
<1> QED
  BY <1>1, <1>2, Initially, PTL DEF Spec

(* The row of a ticket leaves ACTIVE once: no request and no operator takes *)
(* back an admission or a revocation.                                       *)
THEOREM FinalRows == Spec => UsedAndRevokedAreFinal
<1> DEFINE Final == \A c \in Codes : status[c] # "ACTIVE" => status'[c] = status[c]
<1>1. ASSUME Inv, [Next]_vars PROVE [Final]_vars
  <2> SUFFICES ASSUME NEW c \in Codes, status[c] # "ACTIVE"
               PROVE  status'[c] = status[c]
    OBVIOUS
  <2> status \in [Codes -> {"ACTIVE", "USED", "REVOKED"}]
    BY <1>1 DEF Inv, TypeOK
  <2>1. ASSUME NEW p \in Pages, NEW i \in Slots, MarkUsed(p, i)
        PROVE  status'[c] = status[c]
    BY <2>1 DEF MarkUsed
  <2>2. ASSUME NEW d \in Codes, Revoke(d) PROVE status'[c] = status[c]
    BY <2>2 DEF Revoke
  <2>3. ASSUME NEW p \in Pages, NEW i \in Slots,
               \/ Validate(p, i) \/ GetStatusByCode(p, i) \/ ShowVerdict(p, i) \/ Admit(p, i)
               \/ Admitted(p, i) \/ Refused(p, i) \/ CallFails(p, i)
               \/ \E code \in Entered : Check(p, i, code)
        PROVE  status'[c] = status[c]
    BY <2>3 DEF Validate, GetStatusByCode, ShowVerdict, Admit, Admitted, Refused, CallFails,
                Check
  <2>4. CASE UNCHANGED vars
    BY <2>4 DEF vars
  <2> QED
    BY <1>1, <2>1, <2>2, <2>3, <2>4 DEF Next
<1>2. Inv /\ [Next]_vars => Inv'
  BY NextStep
<1> QED
  BY <1>1, <1>2, Initially, PTL DEF Spec, UsedAndRevokedAreFinal
=============================================================================
