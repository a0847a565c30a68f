-------------------------- MODULE ApiProcessProofs --------------------------
(***************************************************************************)
(* How the process comes to its end, for any pool, any number of requests  *)
(* and any carts: no lock without an open transaction, no exit inside one, *)
(* nothing cut short by a clean exit, and a stopped sweeper that opens no  *)
(* transaction.  The argument needs to know which goroutine can start      *)
(* which statements: the sweeper and the post-payment goroutines never     *)
(* start post-payment work, so once the last request has ended there is    *)
(* only less of it.  The second half shows that no way out of a            *)
(* transaction keeps its connection or its locks: it needs the shape of    *)
(* what every goroutine has left to do, and that an order is settled once. *)
(***************************************************************************)
EXTENDS ApiProcess, SequenceTheorems, TLAPS

(* What goroutine t may have to do: only a request sells and starts        *)
(* post-payment work, what is written is an order, and a claim settles it. *)
Fit(t) ==
  {s \in Statements :
     /\ s.do \in {"write", "claim", "call", "spawn"} => s.on \in Orders
     /\ s.do = "lock" => s.on \in Rows
     /\ s.do = "claim" => s.to \in {"PAID", "RELEASED"}
     /\ s.do = "write" => s.to \in {"PENDING", "DATED"}
     /\ s.do \notin {"write", "claim"} => s.to = "NONE"
     /\ t \notin Requests => s.do # "spawn" /\ s.to # "PAID"}

(* TypeOK, and every goroutine has only what is fit for it.                *)
Fits ==
  /\ TypeOK
  /\ \A t \in Tasks : todo[t] \in Seq(Fit(t))
  /\ \A t \in Tasks \ Requests : intent[t].to # "PAID"

(* A row is locked by an open transaction.                                 *)
LocksAreHeld ==
  \A x \in Rows : owner[x] # NoTask => \E c \in Connections : holder[c] = owner[x]

(* What each phase of run() may rely on.                                   *)
PhasesInOrder ==
  /\ phase = "starting" => \A t \in Tasks : ~ Working(t)
  /\ phase \in {"starting", "exited"} => \A c \in Connections : holder[c] = NoTask
  /\ phase = "waiting" => \A r \in Requests : ~ Working(r)
  /\ phase \in {"closing", "exited"} /\ code = 0 =>
       \A t \in Requests \cup Orders : ~ Working(t)
  /\ phase \in {"waiting", "closing"} => Sweeper \in cancelled

Inv == Fits /\ LocksAreHeld /\ PhasesInOrder

-----------------------------------------------------------------------------
(* The statements goroutines are given are fit for them.                   *)
LEMMA OneFits ==
  ASSUME NEW t \in Tasks, NEW o \in Orders
  PROVE  /\ Begin \in Fit(t) /\ Commit \in Fit(t) /\ DueForExpiry \in Fit(t)
         /\ On("query", o) \in Fit(t) /\ On("call", o) \in Fit(t)
         /\ On("lock", o) \in Fit(t)
         /\ \A x \in TicketTypes : On("lock", x) \in Fit(t)
         /\ \A to \in {"PENDING", "DATED"} : WriteOrder(o, to) \in Fit(t)
         /\ UpdateStatusIfPending(o, "RELEASED") \in Fit(t)
         /\ t \in Requests =>
              UpdateStatusIfPending(o, "PAID") \in Fit(t) /\ On("spawn", o) \in Fit(t)
BY DEF Begin, Commit, DueForExpiry, On, WriteOrder, UpdateStatusIfPending, Fit,
       Statements, OrderStatuses, Rows

LEMMA LockTypesFits ==
  ASSUME NEW t \in Tasks, NEW o \in Orders, NEW types \in Seq(TicketTypes)
  PROVE  LockTypes(types) \in Seq(Fit(t))
<1> DEFINE n == Len(types)
<1>1. n \in Nat /\ DOMAIN types = 1 .. n /\ \A i \in 1 .. n : types[i] \in TicketTypes
  BY LenProperties
<1>2. LockTypes(types) = [i \in 1 .. n |-> On("lock", types[i])]
  BY <1>1 DEF LockTypes
<1>3. \A i \in 1 .. n : On("lock", types[i]) \in Fit(t)
  BY <1>1, OneFits
<1> HIDE DEF n
<1>4. LockTypes(types) \in [1 .. n -> Fit(t)]
  BY <1>2, <1>3
<1> QED
  BY <1>1, <1>4, SeqDef

LEMMA LineOrdersAreSequences ==
  ASSUME NEW o \in Orders, NEW types \in LineOrders(o)
  PROVE  types \in Seq(TicketTypes)
<1> DEFINE n == Len(Cart[o])
<1>1. Cart[o] \in Seq(TicketTypes)
  BY ApiProcessAssumption
<1>2. n \in Nat /\ DOMAIN Cart[o] = 1 .. n /\ \A i \in 1 .. n : Cart[o][i] \in TicketTypes
  BY <1>1, LenProperties
<1>3. [i \in 1 .. n |-> Cart[o][n + 1 - i]] \in [1 .. n -> TicketTypes]
  BY <1>2
<1>4. [i \in 1 .. n |-> Cart[o][n + 1 - i]] \in Seq(TicketTypes)
  BY <1>2, <1>3, SeqDef
<1> QED
  BY <1>1, <1>2, <1>4 DEF LineOrders

LEMMA ScriptsFit ==
  ASSUME NEW t \in Tasks, NEW o \in Orders
  PROVE  /\ <<>> \in Seq(Fit(t)) /\ <<Commit>> \in Seq(Fit(t))
         /\ <<DueForExpiry>> \in Seq(Fit(t))
         /\ Checkout(o) \in Seq(Fit(t)) /\ Compensate(o) \in Seq(Fit(t))
         /\ \A types \in LineOrders(o) : Release(o, types) \in Seq(Fit(t))
         /\ Fulfil(o) \in Seq(Fit(t))
         /\ t \in Requests => <<On("spawn", o)>> \in Seq(Fit(t))
<1>1. LockTypes(Cart[o]) \in Seq(Fit(t))
  BY LockTypesFits, ApiProcessAssumption
<1>2. ASSUME NEW types \in LineOrders(o)
      PROVE  LockTypes(types) \in Seq(Fit(t))
  BY LockTypesFits, LineOrdersAreSequences
<1>3. <<Commit>> \in Seq(Fit(t)) /\ <<DueForExpiry>> \in Seq(Fit(t)) /\ <<Begin>> \in Seq(Fit(t))
  BY OneFits
<1>4. Checkout(o) \in Seq(Fit(t))
  <2>1. <<WriteOrder(o, "PENDING"), Commit, CreateTransaction(o), Begin,
          WriteOrder(o, "DATED"), Commit>> \in Seq(Fit(t))
    BY OneFits DEF CreateTransaction
  <2>2. <<Begin>> \o LockTypes(Cart[o]) \in Seq(Fit(t))
    BY <1>1, <1>3, ConcatProperties
  <2> QED
    BY <2>1, <2>2, ConcatProperties DEF Checkout
<1>5. Compensate(o) \in Seq(Fit(t))
  <2>1. <<Begin, UpdateStatusIfPending(o, "RELEASED")>> \in Seq(Fit(t))
    BY OneFits
  <2>2. <<Begin, UpdateStatusIfPending(o, "RELEASED")>> \o LockTypes(Cart[o]) \in Seq(Fit(t))
    BY <1>1, <2>1, ConcatProperties
  <2> QED
    BY <1>3, <2>2, ConcatProperties DEF Compensate
<1>6. ASSUME NEW types \in LineOrders(o)
      PROVE  Release(o, types) \in Seq(Fit(t))
  <2>1. <<Begin, UpdateStatusIfPending(o, "RELEASED"), LineItems(o)>> \in Seq(Fit(t))
    BY OneFits DEF LineItems
  <2>2. <<Begin, UpdateStatusIfPending(o, "RELEASED"), LineItems(o)>> \o LockTypes(types)
          \in Seq(Fit(t))
    BY <1>2, <2>1, ConcatProperties
  <2> QED
    BY <1>3, <2>2, ConcatProperties DEF Release
<1>7. Fulfil(o) \in Seq(Fit(t))
  BY OneFits DEF Fulfil, AttendeeIDs, OrderForDelivery, SendEmail
<1>8. t \in Requests => <<On("spawn", o)>> \in Seq(Fit(t))
  BY OneFits
<1> QED
  BY <1>3, <1>4, <1>5, <1>6, <1>7, <1>8

LEMMA NotificationsFit ==
  ASSUME NEW r \in Requests, NEW handler \in Notifications
  PROVE  handler \in Seq(Fit(r))
<1>1. r \in Tasks
  BY DEF Tasks
<1>2. PICK o \in Orders :
        \/ handler = HandleNotification(o, Sell(o))
        \/ \E types \in LineOrders(o) : handler = HandleNotification(o, Release(o, types))
  BY DEF Notifications
<1>3. Sell(o) \in Seq(Fit(r)) /\ <<OrderByNumber(o), CreatePayment(o)>> \in Seq(Fit(r))
  BY <1>1, OneFits DEF Sell, OrderByNumber, CreatePayment
<1>4. \A types \in LineOrders(o) : Release(o, types) \in Seq(Fit(r))
  BY <1>1, ScriptsFit
<1> QED
  BY <1>2, <1>3, <1>4, ConcatProperties DEF HandleNotification

(* The next statement of a goroutine, and what is left after it.           *)
LEMMA NextStatement ==
  ASSUME Fits, NEW t \in Tasks, Working(t)
  PROVE  /\ Head(todo[t]) \in Fit(t)
         /\ Tail(todo[t]) \in Seq(Fit(t))
BY HeadTailProperties DEF Fits, Working

(* Scripts that are assigned to goroutines leave everybody with fit ones.  *)
LEMMA TodoFits ==
  ASSUME Fits, NEW t \in Tasks, NEW script \in Seq(Fit(t)),
         todo' = [todo EXCEPT ![t] = script]
  PROVE  /\ todo' \in [Tasks -> Seq(Statements)]
         /\ \A u \in Tasks : todo'[u] \in Seq(Fit(u))
         /\ \A u \in Tasks \ {t} : todo'[u] = todo[u]
<1>1. script \in Seq(Statements)
  BY SeqMonotonic DEF Fit
<1> QED
  BY <1>1 DEF Fits, TypeOK

-----------------------------------------------------------------------------
(* One statement of a goroutine t.  What becomes of the goroutines: others *)
(* go on as they were, but for the post-payment work a request starts.     *)
TodoMoves(t) ==
  /\ todo' \in [Tasks -> Seq(Statements)]
  /\ \A u \in Tasks : todo'[u] \in Seq(Fit(u))
  /\ \A u \in Tasks \ {t} : todo'[u] = todo[u] \/ (t \in Requests /\ u \in Orders)

LEMMA ScriptMoves ==
  ASSUME Fits, NEW t \in Tasks, NEW script \in Seq(Fit(t)),
         todo' = [todo EXCEPT ![t] = script]
  PROVE  TodoMoves(t)
BY TodoFits DEF TodoMoves

(* What becomes of connections and row locks.                              *)
PoolMoves(t) ==
  /\ holder' \in [Connections -> Tasks \cup {NoTask}]
  /\ owner' \in [Rows -> Tasks \cup {NoTask}]
  /\ LocksAreHeld'

LEMMA TransactionEnds ==
  ASSUME Fits, LocksAreHeld, NEW t \in Tasks, EndTransaction(t)
  PROVE  PoolMoves(t) /\ intent' \in [Tasks -> Intents]
         /\ \A u \in Tasks \ Requests : intent'[u].to # "PAID"
<1>1. t # NoTask
  BY ApiProcessAssumption DEF Tasks
<1> QED
  BY <1>1
  DEF EndTransaction, Unheld, Unlocked, PoolMoves, LocksAreHeld, Fits, TypeOK, Intents, NoIntent

(* Taking a connection or a row: a row only inside a transaction.          *)
LEMMA TransactionGoesOn ==
  ASSUME Fits, LocksAreHeld, NEW t \in Tasks,
         \/ owner' = owner /\ \E c \in Free : holder' = [holder EXCEPT ![c] = t]
         \/ /\ holder' = holder
            /\ \E c \in Connections : holder[c] = t
            /\ \E x \in Rows : owner' = [owner EXCEPT ![x] = t]
         \/ UNCHANGED <<holder, owner>>
  PROVE  PoolMoves(t)
<1>1. t # NoTask
  BY ApiProcessAssumption DEF Tasks
<1>2. CASE owner' = owner /\ \E c \in Free : holder' = [holder EXCEPT ![c] = t]
  BY <1>1, <1>2 DEF PoolMoves, LocksAreHeld, Fits, TypeOK, Free
<1>3. CASE /\ holder' = holder
           /\ \E c \in Connections : holder[c] = t
           /\ \E x \in Rows : owner' = [owner EXCEPT ![x] = t]
  BY <1>3 DEF PoolMoves, LocksAreHeld, Fits, TypeOK
<1>4. CASE UNCHANGED <<holder, owner>>
  BY <1>4 DEF PoolMoves, LocksAreHeld, Fits, TypeOK
<1> QED
  BY <1>2, <1>3, <1>4

(* A write that commits is one of an order.                                *)
LEMMA CommitsApply ==
  ASSUME Fits, NEW t \in Tasks, Apply(intent[t])
  PROVE  status' \in [Orders -> OrderStatuses] /\ dated' \subseteq Orders
<1>1. intent[t] \in Intents /\ status \in [Orders -> OrderStatuses] /\ dated \subseteq Orders
  BY DEF Fits, TypeOK
<1>2. CASE intent[t] = NoIntent
  BY <1>1, <1>2 DEF Apply, NoIntent
<1>3. CASE intent[t] \in [on : Orders, to : OrderStatuses \cup {"DATED"}]
  BY <1>1, <1>3 DEF Apply
<1> QED
  BY <1>1, <1>2, <1>3 DEF Intents

(* What a statement of t leaves in order, apart from the phases.           *)
Moves(t) ==
  /\ TodoMoves(t)
  /\ PoolMoves(t)
  /\ intent' \in [Tasks -> Intents]
  /\ \A u \in Tasks \ Requests : intent'[u].to # "PAID"
  /\ status' \in [Orders -> OrderStatuses]
  /\ dated' \subseteq Orders /\ batch' \subseteq Orders
  /\ UNCHANGED <<process, requests, cancelled>>
  /\ Running /\ Working(t)

LEMMA RollbackMoves ==
  ASSUME Fits, LocksAreHeld, NEW t \in Tasks, Rollback(t), Running, Working(t)
  PROVE  Moves(t)
<1>1. <<>> \in Seq(Fit(t))
  BY EmptySeq
<1>2. TodoMoves(t)
  BY <1>1, ScriptMoves DEF Rollback
<1>3. PoolMoves(t) /\ intent' \in [Tasks -> Intents]
      /\ \A u \in Tasks \ Requests : intent'[u].to # "PAID"
  BY TransactionEnds DEF Rollback
<1> QED
  BY <1>2, <1>3 DEF Rollback, Moves, Fits, TypeOK, database, requests, process

LEMMA StepMoves ==
  ASSUME Fits, LocksAreHeld, NEW t \in Tasks, Step(t) \/ CommitUnanswered(t)
  PROVE  Moves(t)
<1> USE DEF Ready, ReadyInTx
<1>1. ASSUME Working(t), Advance(t)
      PROVE  TodoMoves(t)
  BY <1>1, NextStatement, ScriptMoves DEF Advance
<1>2. /\ holder \in [Connections -> Tasks \cup {NoTask}]
      /\ intent \in [Tasks -> Intents]
      /\ \A u \in Tasks \ Requests : intent[u].to # "PAID"
      /\ status \in [Orders -> OrderStatuses]
      /\ dated \subseteq Orders /\ batch \subseteq Orders
  BY DEF Fits, TypeOK
<1>3. CASE BeginTx(t)
  <2>1. TodoMoves(t) /\ PoolMoves(t)
    BY <1>1, <1>3, TransactionGoesOn DEF BeginTx
  <2> QED
    BY <1>2, <1>3, <2>1 DEF BeginTx, Moves, database
<1>4. CASE Query(t)
  <2>1. TodoMoves(t) /\ PoolMoves(t)
    BY <1>1, <1>4, TransactionGoesOn DEF Query, pool
  <2>2. batch' \subseteq Orders
    BY <1>2, <1>4 DEF Query
  <2> QED
    BY <1>2, <1>4, <2>1, <2>2 DEF Query, Moves, database, pool
<1>5. CASE PoolClosed(t)
  BY <1>5, RollbackMoves DEF PoolClosed
<1>6. CASE Lock(t)
  <2>1. Head(todo[t]).on \in Rows
    BY <1>6, NextStatement DEF Lock, Fit
  <2>2. TodoMoves(t) /\ PoolMoves(t)
    BY <1>1, <1>6, <2>1, TransactionGoesOn DEF Lock
  <2> QED
    BY <1>2, <1>6, <2>2 DEF Lock, Moves, database
<1>7. CASE Write(t)
  <2>1. /\ Head(todo[t]).on \in Orders /\ Head(todo[t]).on \in Rows
        /\ Head(todo[t]).to \in OrderStatuses \cup {"DATED"}
        /\ t \notin Requests => Head(todo[t]).to # "PAID"
    BY <1>7, NextStatement DEF Write, Fit, Statements, Rows
  <2>2. TodoMoves(t) /\ PoolMoves(t)
    BY <1>1, <1>7, <2>1, TransactionGoesOn DEF Write
  <2>3. /\ intent' \in [Tasks -> Intents]
        /\ \A u \in Tasks \ Requests : intent'[u].to # "PAID"
    BY <1>2, <1>7, <2>1 DEF Write, Intents
  <2> QED
    BY <1>2, <1>7, <2>2, <2>3 DEF Write, Moves, database
<1>8. CASE Claim(t)
  <2> DEFINE s == Head(todo[t])
  <2>1. /\ s.on \in Orders /\ s.on \in Rows
        /\ s.to \in OrderStatuses \cup {"DATED"}
        /\ t \notin Requests => s.to # "PAID"
    BY <1>8, NextStatement DEF Claim, Fit, Statements, Rows
  <2>2. CASE status[s.on] = "PENDING"
    <3>1. TodoMoves(t) /\ PoolMoves(t)
      BY <1>1, <1>8, <2>1, <2>2, TransactionGoesOn DEF Claim
    <3>2. /\ intent' \in [Tasks -> Intents]
          /\ \A u \in Tasks \ Requests : intent'[u].to # "PAID"
      BY <1>2, <1>8, <2>1, <2>2 DEF Claim, Intents
    <3> QED
      BY <1>2, <1>8, <3>1, <3>2 DEF Claim, Moves, database
  <2>3. CASE status[s.on] # "PENDING"
    <3>1. <<Commit>> \in Seq(Fit(t))
      BY <2>1, ScriptsFit
    <3>2. TodoMoves(t) /\ PoolMoves(t)
      BY <1>8, <2>3, <3>1, ScriptMoves, TransactionGoesOn DEF Claim
    <3> QED
      BY <1>2, <1>8, <2>3, <3>2 DEF Claim, Moves, database
  <2> QED
    BY <2>2, <2>3
<1>9. CASE CommitTx(t)
  <2>1. Working(t) /\ Tail(todo[t]) \in Seq(Fit(t))
    BY <1>9, NextStatement DEF CommitTx
  <2>2. intent[t].to = "PAID" => <<On("spawn", intent[t].on)>> \in Seq(Fit(t))
    <3> SUFFICES ASSUME intent[t].to = "PAID" PROVE <<On("spawn", intent[t].on)>> \in Seq(Fit(t))
      OBVIOUS
    <3>1. t \in Requests /\ intent[t].on \in Orders
      BY <1>2 DEF Intents, NoIntent
    <3> QED
      BY <3>1, ScriptsFit
  <2>3. TodoMoves(t)
    <3>1. CASE intent[t].to = "PAID"
      <4>1. todo' = [todo EXCEPT ![t] = <<On("spawn", intent[t].on)>>]
        BY <1>9, <3>1 DEF CommitTx
      <4> QED
        BY <2>2, <3>1, <4>1, ScriptMoves
    <3>2. CASE intent[t].to # "PAID"
      <4>1. todo' = [todo EXCEPT ![t] = Tail(todo[t])]
        BY <1>9, <3>2 DEF CommitTx
      <4> QED
        BY <2>1, <4>1, ScriptMoves
    <3> QED
      BY <3>1, <3>2
  <2>4. PoolMoves(t) /\ intent' \in [Tasks -> Intents]
        /\ \A u \in Tasks \ Requests : intent'[u].to # "PAID"
    BY <1>9, TransactionEnds DEF CommitTx
  <2>5. status' \in [Orders -> OrderStatuses] /\ dated' \subseteq Orders
    BY <1>9, CommitsApply DEF CommitTx
  <2> QED
    BY <1>2, <1>9, <2>1, <2>3, <2>4, <2>5 DEF CommitTx, Moves
<1>10. CASE CommitUnanswered(t)
  <2>1. TodoMoves(t)
    BY <1>10, EmptySeq, ScriptMoves DEF CommitUnanswered
  <2>2. PoolMoves(t) /\ intent' \in [Tasks -> Intents]
        /\ \A u \in Tasks \ Requests : intent'[u].to # "PAID"
    BY <1>10, TransactionEnds DEF CommitUnanswered
  <2>3. status' \in [Orders -> OrderStatuses] /\ dated' \subseteq Orders
    BY <1>10, CommitsApply DEF CommitUnanswered
  <2> QED
    BY <1>2, <1>10, <2>1, <2>2, <2>3 DEF CommitUnanswered, Moves
<1>11. CASE StatementFails(t)
  BY <1>11, RollbackMoves DEF StatementFails
<1>12. CASE Call(t)
  <2>1. TodoMoves(t) /\ PoolMoves(t)
    BY <1>1, <1>12, TransactionGoesOn DEF Call, pool
  <2> QED
    BY <1>2, <1>12, <2>1 DEF Call, Moves, database, pool
<1>13. CASE CallFails(t)
  <2>1. Head(todo[t]).on \in Orders
    BY <1>13, NextStatement DEF CallFails, Fit
  <2>2. (IF t \in Requests THEN Compensate(Head(todo[t]).on) ELSE <<>>) \in Seq(Fit(t))
    BY <2>1, ScriptsFit
  <2>3. TodoMoves(t) /\ PoolMoves(t)
    BY <1>13, <2>2, ScriptMoves, TransactionGoesOn DEF CallFails, pool
  <2> QED
    BY <1>2, <1>13, <2>3 DEF CallFails, Moves, database, pool
<1>14. CASE FulfilAsync(t)
  <2> DEFINE o == Head(todo[t]).on
  <2>1. o \in Orders /\ t \in Requests /\ o \in Tasks /\ o # t
    BY <1>14, NextStatement, ApiProcessAssumption DEF FulfilAsync, Fit, Tasks
  <2>2. Tail(todo[t]) \in Seq(Fit(t)) /\ Fulfil(o) \in Seq(Fit(o))
    BY <1>14, <2>1, NextStatement, ScriptsFit DEF FulfilAsync
  <2>3. Tail(todo[t]) \in Seq(Statements) /\ Fulfil(o) \in Seq(Statements)
    BY <2>2, SeqMonotonic DEF Fit
  <2>4. todo' = [todo EXCEPT ![t] = Tail(todo[t]), ![o] = Fulfil(o)]
    BY <1>14 DEF FulfilAsync
  <2>5. todo \in [Tasks -> Seq(Statements)] /\ \A u \in Tasks : todo[u] \in Seq(Fit(u))
    BY DEF Fits, TypeOK
  <2> HIDE DEF o
  <2>6. TodoMoves(t)
    BY <2>1, <2>2, <2>3, <2>4, <2>5 DEF TodoMoves
  <2>7. PoolMoves(t)
    BY <1>14, TransactionGoesOn DEF FulfilAsync, pool
  <2> QED
    BY <1>2, <1>14, <2>6, <2>7 DEF FulfilAsync, Moves, database, pool
<1>15. CASE DeadlockAbort(t)
  <2>1. Running /\ Working(t)
    BY <1>15 DEF DeadlockAbort, WaitsForRow
  <2> QED
    BY <1>15, <2>1, RollbackMoves DEF DeadlockAbort
<1> QED
  BY <1>3, <1>4, <1>5, <1>6, <1>7, <1>8, <1>9, <1>10, <1>11, <1>12, <1>13, <1>14, <1>15
  DEF Step

-----------------------------------------------------------------------------
(* A statement keeps the invariant: what matters to the phases is that only *)
(* a request starts post-payment work, and that none is left once run()     *)
(* waits for that work.                                                     *)
LEMMA StatementKeepsInv ==
  ASSUME Inv, NEW t \in Tasks, Step(t) \/ CommitUnanswered(t)
  PROVE  Inv'
<1>1. Moves(t)
  BY StepMoves DEF Inv
<1>2. Fits' /\ LocksAreHeld'
  BY <1>1 DEF Moves, TodoMoves, PoolMoves, Inv, Fits, TypeOK, process, requests
<1>3. PhasesInOrder'
  <2>1. phase' = phase /\ code' = code /\ cancelled' = cancelled
        /\ phase \notin {"starting", "exited"} /\ Working(t)
    BY <1>1 DEF Moves, process, Running
  <2>2. ASSUME t \notin Requests, NEW u \in Requests \cup Orders, ~ Working(u)
        PROVE  ~ Working(u)'
    BY <1>1, <2>1, <2>2 DEF Moves, TodoMoves, Working, Tasks
  <2>3. t \in Requests => phase # "waiting" /\ ~ (phase = "closing" /\ code = 0)
    BY <2>1 DEF Inv, PhasesInOrder
  <2> QED
    BY <2>1, <2>2, <2>3 DEF Inv, PhasesInOrder
<1> QED
  BY <1>2, <1>3 DEF Inv

(* Work given to one goroutine: to a request only while run() serves, and  *)
(* otherwise to the sweeper alone.                                         *)
LEMMA AssignmentKeepsInv ==
  ASSUME Inv, NEW t \in Tasks \ Orders, NEW script \in Seq(Fit(t)),
         todo' = [todo EXCEPT ![t] = script],
         UNCHANGED <<process, pool, database, cancelled>>,
         arrived' \subseteq Requests, ordered' \subseteq Orders, batch' \subseteq Orders,
         phase \notin {"starting", "exited"},
         t \in Requests => phase = "serving"
  PROVE  Inv'
<1>1. /\ todo' \in [Tasks -> Seq(Statements)]
      /\ \A u \in Tasks : todo'[u] \in Seq(Fit(u))
      /\ \A u \in Tasks \ {t} : todo'[u] = todo[u]
  BY TodoFits DEF Inv
<1>2. Fits' /\ LocksAreHeld'
  BY <1>1 DEF Inv, Fits, TypeOK, LocksAreHeld, process, pool, database
<1>3. PhasesInOrder'
  BY <1>1 DEF Inv, PhasesInOrder, Working, process, pool, Tasks
<1> QED
  BY <1>2, <1>3 DEF Inv

(* So none arrives that run() does not wait for any more.                  *)
LEMMA ArrivalKeepsInv ==
  ASSUME Inv,
         \/ \E r \in Requests, o \in Orders : ArriveCheckout(r, o)
         \/ \E r \in Requests : \E handler \in Notifications : ArriveNotification(r, handler)
         \/ SweeperTick
         \/ \E o \in batch : \E types \in LineOrders(o) : ExpireNext(o, types)
  PROVE  Inv'
<1>0. /\ arrived \subseteq Requests /\ ordered \subseteq Orders /\ batch \subseteq Orders
      /\ Sweeper \in Tasks \ Orders /\ Sweeper \notin Requests
      /\ \A r \in Requests : r \in Tasks \ Orders
  BY ApiProcessAssumption DEF Inv, Fits, TypeOK, Tasks
<1>1. ASSUME NEW r \in Requests, NEW o \in Orders, ArriveCheckout(r, o)
      PROVE  Inv'
  <2>1. /\ todo' = [todo EXCEPT ![r] = Checkout(o)]
        /\ Checkout(o) \in Seq(Fit(r))
        /\ UNCHANGED <<process, pool, database, cancelled>>
        /\ arrived' \subseteq Requests /\ ordered' \subseteq Orders /\ batch' \subseteq Orders
        /\ phase = "serving"
    BY <1>0, <1>1, ScriptsFit DEF ArriveCheckout
  <2> QED
    BY <1>0, <2>1, AssignmentKeepsInv
<1>2. ASSUME NEW r \in Requests, NEW handler \in Notifications, ArriveNotification(r, handler)
      PROVE  Inv'
  <2>1. /\ todo' = [todo EXCEPT ![r] = handler]
        /\ handler \in Seq(Fit(r))
        /\ UNCHANGED <<process, pool, database, cancelled>>
        /\ arrived' \subseteq Requests /\ ordered' \subseteq Orders /\ batch' \subseteq Orders
        /\ phase = "serving"
    BY <1>0, <1>2, NotificationsFit DEF ArriveNotification
  <2> QED
    BY <1>0, <2>1, AssignmentKeepsInv
<1>3. ASSUME SweeperTick
      PROVE  Inv'
  <2>1. DueForExpiry \in Fit(Sweeper)
    BY DEF DueForExpiry, On, Fit, Statements, OrderStatuses
  <2>2. <<DueForExpiry>> \in Seq(Fit(Sweeper))
    BY <2>1
  <2>3. /\ todo' = [todo EXCEPT ![Sweeper] = <<DueForExpiry>>]
        /\ UNCHANGED <<process, pool, database, cancelled>>
        /\ arrived' \subseteq Requests /\ ordered' \subseteq Orders /\ batch' \subseteq Orders
        /\ phase \notin {"starting", "exited"}
    BY <1>0, <1>3 DEF SweeperTick, requests, Running
  <2> QED
    BY <1>0, <2>2, <2>3, AssignmentKeepsInv
<1>4. ASSUME NEW o \in batch, NEW types \in LineOrders(o), ExpireNext(o, types)
      PROVE  Inv'
  <2>1. /\ todo' = [todo EXCEPT ![Sweeper] = Release(o, types)]
        /\ Release(o, types) \in Seq(Fit(Sweeper))
        /\ UNCHANGED <<process, pool, database, cancelled>>
        /\ arrived' \subseteq Requests /\ ordered' \subseteq Orders /\ batch' \subseteq Orders
        /\ phase \notin {"starting", "exited"}
    BY <1>0, <1>4, ScriptsFit DEF ExpireNext, requests, Running
  <2> QED
    BY <1>0, <2>1, AssignmentKeepsInv
<1> QED
  BY <1>1, <1>2, <1>3, <1>4

(* The steps of run(), and the ends of contexts, touch no goroutine.       *)
LEMMA RunKeepsInv ==
  ASSUME Inv,
         \/ Boot \/ BootFails \/ ListenFails \/ Signal
         \/ Shutdown \/ ShutdownTimesOut \/ WaitForFulfillment \/ ClosePool
         \/ \E t \in Tasks : ContextEnds(t)
         \/ UNCHANGED vars
  PROVE  Inv'
<1>1. /\ UNCHANGED <<todo, pool, database, requests, batch>>
      /\ phase' \in Phases /\ code' \in {0, 1}
      /\ cancelled \subseteq cancelled' /\ cancelled' \subseteq Tasks
  BY DEF Boot, BootFails, ListenFails, ReturnError, Signal, Shutdown, ShutdownTimesOut,
         WaitForFulfillment, ClosePool, ContextEnds, Phases, Inv, Fits, TypeOK,
         process, vars, Tasks
<1>2. Fits' /\ LocksAreHeld'
  BY <1>1 DEF Inv, Fits, TypeOK, LocksAreHeld, pool, database, requests
<1>3. PhasesInOrder'
  <2>1. ASSUME phase' = phase, code' = code
        PROVE  PhasesInOrder'
    BY <1>1, <2>1 DEF Inv, PhasesInOrder, Working, pool
  <2>2. ASSUME ListenFails \/ ShutdownTimesOut
        PROVE  PhasesInOrder'
    BY <1>1, <2>2 DEF ListenFails, ShutdownTimesOut, ReturnError, PhasesInOrder
  <2>3. CASE Boot \/ BootFails \/ Signal
    BY <1>1, <2>3 DEF Boot, BootFails, Signal, Inv, PhasesInOrder, Working, pool
  <2>4. CASE Shutdown \/ WaitForFulfillment \/ ClosePool
    BY <1>1, <2>4 DEF Shutdown, WaitForFulfillment, ClosePool, Inv, PhasesInOrder, Working, pool
  <2> QED
    BY <2>1, <2>2, <2>3, <2>4 DEF ContextEnds, process, vars
<1> QED
  BY <1>2, <1>3 DEF Inv

(* The invariant holds in every reachable state of the process.            *)
THEOREM ProcessInvariant == Spec => []Inv
<1>1. Init => Inv
  <2> SUFFICES ASSUME Init PROVE Inv
    OBVIOUS
  <2>1. todo \in [Tasks -> Seq(Statements)] /\ \A t \in Tasks : todo[t] \in Seq(Fit(t))
    BY EmptySeq DEF Init
  <2>2. Fits
    BY <2>1 DEF Init, Fits, TypeOK, Phases, Intents, NoIntent, OrderStatuses
  <2> QED
    BY <2>2 DEF Init, Inv, LocksAreHeld, PhasesInOrder, Working, Tasks
<1>2. Inv /\ [Next]_vars => Inv'
  BY StatementKeepsInv, ArrivalKeepsInv, RunKeepsInv DEF Next, Terminated
<1> QED
  BY <1>1, <1>2, PTL DEF Spec

(* TypeOK: every goroutine runs statements it can run.                     *)
THEOREM ProcessTyped == Spec => []TypeOK
<1>1. Inv => TypeOK
  BY DEF Inv, Fits
<1> QED
  BY <1>1, ProcessInvariant, PTL

(* CleanExitCutsNothing, for any number of requests: exit code 0 means that *)
(* no request and no post-payment work was cut short.                       *)
THEOREM CleanExits == Spec => []CleanExitCutsNothing
<1>1. Inv => CleanExitCutsNothing
  BY DEF Inv, PhasesInOrder, CleanExitCutsNothing
<1> QED
  BY <1>1, ProcessInvariant, PTL

(* StoppedSweeperOpensNothing: stopSweeper ends the sweeper's context before *)
(* run() waits, and a transaction is begun under that context.               *)
THEOREM SweeperStops == Spec => StoppedSweeperOpensNothing
<1> DEFINE Stopped == SweeperBegins => phase \notin {"waiting", "closing"}
<1>1. ASSUME Inv, [Next]_vars
      PROVE  [Stopped]_vars
  <2> SUFFICES ASSUME SweeperBegins, phase \in {"waiting", "closing"} PROVE FALSE
    OBVIOUS
  <2>1. Sweeper \in cancelled
    BY <1>1 DEF Inv, PhasesInOrder
  <2>2. PICK c \in Connections : holder[c] # Sweeper /\ holder'[c] = Sweeper
    BY DEF SweeperBegins
  <2>3. PICK t \in Tasks : Step(t) \/ CommitUnanswered(t)
    <3>1. holder' # holder
      BY <2>2
    <3> QED
      BY <1>1, <3>1
      DEF Next, vars, pool, Terminated, Boot, BootFails, ListenFails, ReturnError, Signal,
          Shutdown, ShutdownTimesOut, WaitForFulfillment, ClosePool, ContextEnds,
          ArriveCheckout, ArriveNotification, SweeperTick, ExpireNext
  <2>4. BeginTx(t) \/ EndTransaction(t)
    BY <2>2, <2>3
    DEF Step, Query, PoolClosed, Lock, Write, Claim, CommitTx, StatementFails, Call,
        CallFails, FulfilAsync, DeadlockAbort, CommitUnanswered, Rollback, pool
  <2>5. holder \in [Connections -> Tasks \cup {NoTask}] /\ Sweeper # NoTask
    BY <1>1, ApiProcessAssumption DEF Inv, Fits, TypeOK
  <2>6. ASSUME BeginTx(t)
        PROVE  FALSE
    BY <2>1, <2>2, <2>5, <2>6 DEF BeginTx, Free
  <2>7. ASSUME EndTransaction(t)
        PROVE  FALSE
    BY <2>2, <2>5, <2>7 DEF EndTransaction, Unheld
  <2> QED
    BY <2>4, <2>6, <2>7
<1>2. Inv /\ Inv' /\ [Next]_vars => [Stopped]_vars
  BY <1>1
<1> QED
  BY <1>2, ProcessInvariant, PTL DEF Spec, StoppedSweeperOpensNothing

-----------------------------------------------------------------------------
(* No way out of a transaction keeps its connection or its locks, and      *)
(* transactions settle an order once.  This needs the shape of what every  *)
(* goroutine has left to do.                                               *)

(* Position i of script s lies between a begin and its commit.  The reads  *)
(* there are followed by locks or the commit, other reads never are.       *)
Inside(s, i) ==
  /\ i \in DOMAIN s
  /\ \/ s[i].do \in {"lock", "write", "claim", "commit"}
     \/ s[i].do = "query" /\ i + 1 \in DOMAIN s /\ s[i + 1].do \in {"lock", "commit"}

(* What every script looks like: a transaction that was begun goes on until *)
(* its commit, an order is entered once, and starting post-payment work is  *)
(* all there is to do.                                                      *)
Shaped(s) ==
  /\ \A i \in DOMAIN s : s[i].do \in {"begin", "lock", "write", "claim"} => Inside(s, i + 1)
  /\ \A i, j \in DOMAIN s : s[i].to = "PENDING" /\ s[j].to = "PENDING" => i = j
  /\ \A i \in DOMAIN s : s[i].do = "spawn" => Len(s) = 1

Holds(t) == \E c \in Connections : holder[c] = t

(* Goroutine t has yet to enter order o, or has not committed it yet; it   *)
(* has yet to start the post-payment work of o.                            *)
Enters(t, o) ==
  \/ \E i \in DOMAIN todo[t] : todo[t][i].to = "PENDING" /\ todo[t][i].on = o
  \/ intent[t] = [on |-> o, to |-> "PENDING"]

Spawns(t, o) == \E i \in DOMAIN todo[t] : todo[t][i].do = "spawn" /\ todo[t][i].on = o

(* An open transaction goes on inside it.                                  *)
Brackets ==
  \A t \in Tasks : Shaped(todo[t]) /\ (Holds(t) => Inside(todo[t], 1))

(* A request does nothing before it arrives, and no order number is known  *)
(* before a checkout draws it.                                             *)
ArrivedFirst ==
  /\ \A r \in Requests : Working(r) => r \in arrived
  /\ \A o \in Orders : status[o] # "NONE" => o \in ordered

(* An order is entered by one goroutine, once.                             *)
EnteredOnce ==
  /\ \A t \in Tasks, o \in Orders : Enters(t, o) => o \in ordered /\ status[o] = "NONE"
  /\ \A t, u \in Tasks, o \in Orders : Enters(t, o) /\ Enters(u, o) => t = u
  /\ \A t \in Tasks : intent[t].to = "PENDING" =>
       \A i \in DOMAIN todo[t] : todo[t][i].to # "PENDING"

(* Only an open transaction has something to write.                        *)
OpenWrites ==
  \A t \in Tasks : intent[t] # NoIntent => Holds(t) /\ intent[t].to # "NONE"

(* Whoever is about to settle an order has its row, and it is PENDING.     *)
ClaimsLocked ==
  \A t \in Tasks : intent[t].to \in {"PAID", "RELEASED"} =>
    owner[intent[t].on] = t /\ status[intent[t].on] = "PENDING"

(* Post-payment work is for a sold order, and started once.                *)
SoldOnce ==
  /\ \A o \in Orders : Working(o) => status[o] = "PAID"
  /\ \A t \in Tasks, o \in Orders : Spawns(t, o) => status[o] = "PAID" /\ ~ Working(o)
  /\ \A t, u \in Tasks, o \in Orders : Spawns(t, o) /\ Spawns(u, o) => t = u

Kept == Brackets /\ OpenWrites /\ ArrivedFirst /\ EnteredOnce /\ ClaimsLocked /\ SoldOnce

-----------------------------------------------------------------------------
(* The scripts of goroutines have that shape, and keep it as they run.     *)

(* Where the parts of a joined sequence are.                               *)
LEMMA Joins ==
  ASSUME NEW S, NEW a \in Seq(S), NEW b \in Seq(S)
  PROVE  /\ a \o b \in Seq(S)
         /\ Len(a) \in Nat /\ Len(b) \in Nat /\ Len(a \o b) = Len(a) + Len(b)
         /\ DOMAIN a = 1 .. Len(a) /\ DOMAIN b = 1 .. Len(b)
         /\ DOMAIN (a \o b) = 1 .. Len(a) + Len(b)
         /\ \A i \in 1 .. Len(a) : (a \o b)[i] = a[i]
         /\ \A i \in 1 .. Len(b) : (a \o b)[Len(a) + i] = b[i]
<1>1. /\ a \o b \in Seq(S) /\ Len(a) \in Nat /\ Len(b) \in Nat
      /\ Len(a \o b) = Len(a) + Len(b)
      /\ DOMAIN a = 1 .. Len(a) /\ DOMAIN b = 1 .. Len(b)
  BY ConcatProperties, LenProperties
<1>2. DOMAIN (a \o b) = 1 .. Len(a \o b)
  BY <1>1, LenProperties
<1> QED
  BY <1>1, <1>2, ConcatProperties

(* What is in the locks of a list, and in a script with such a part.       *)
LEMMA LocksAreLocks ==
  ASSUME NEW types \in Seq(TicketTypes)
  PROVE  /\ LockTypes(types) \in Seq(Statements)
         /\ \A i \in DOMAIN LockTypes(types) :
              LockTypes(types)[i].do = "lock" /\ LockTypes(types)[i].to = "NONE"
<1> DEFINE n == Len(types)
           l == LockTypes(types)
<1>1. n \in Nat /\ DOMAIN types = 1 .. n /\ \A i \in 1 .. n : types[i] \in TicketTypes
  BY LenProperties
<1>2. l = [i \in 1 .. n |-> On("lock", types[i])]
  BY <1>1 DEF LockTypes
<1>3. \A i \in 1 .. n : On("lock", types[i]) \in Statements
  BY <1>1 DEF On, Statements, OrderStatuses, Rows
<1>4. l \in Seq(Statements)
  <2> HIDE DEF n, l
  <2>1. l \in [1 .. n -> Statements]
    BY <1>2, <1>3
  <2> QED
    BY <1>1, <2>1, SeqDef
<1> QED
  BY <1>2, <1>4 DEF On

(* A part a in front of a script: what it starts goes on in it or in what  *)
(* follows.                                                                *)
Leads(a, s) ==
  \A i \in DOMAIN a :
    /\ a[i].do # "spawn" /\ a[i].to # "PENDING"
    /\ a[i].do \in {"begin", "lock", "write", "claim"} =>
         IF i = Len(a) THEN Inside(s, 1)
           ELSE \/ a[i + 1].do \in {"lock", "write", "claim", "commit"}
                \/ a[i + 1].do = "query" /\ i + 1 = Len(a) /\ s[1].do \in {"lock", "commit"}

Unspawning(s) == \A i \in DOMAIN s : s[i].do # "spawn"

Unentering(s) == \A i \in DOMAIN s : s[i].to # "PENDING"

EntersOnly(s, o) == \A i \in DOMAIN s : s[i].to = "PENDING" => s[i].on = o

LEMMA ShapedJoin ==
  ASSUME NEW a \in Seq(Statements), NEW s \in Seq(Statements), s # <<>>,
         Shaped(s), Unspawning(s), Leads(a, s)
  PROVE  /\ a \o s \in Seq(Statements) /\ a \o s # <<>>
         /\ Shaped(a \o s) /\ Unspawning(a \o s)
         /\ (a \o s)[1] = IF a = <<>> THEN s[1] ELSE a[1]
         /\ Unentering(s) => Unentering(a \o s)
         /\ \A o \in Orders : EntersOnly(s, o) => EntersOnly(a \o s, o)
<1> DEFINE p == Len(a)
           q == Len(s)
           z == a \o s
<1>1. /\ z \in Seq(Statements) /\ p \in Nat /\ q \in Nat /\ Len(z) = p + q
      /\ DOMAIN a = 1 .. p /\ DOMAIN s = 1 .. q /\ DOMAIN z = 1 .. p + q
      /\ \A i \in 1 .. p : z[i] = a[i]
      /\ \A i \in 1 .. q : z[p + i] = s[i]
  BY Joins
<1>2. q > 0 /\ (a = <<>> <=> p = 0)
  BY <1>1, EmptySeq
<1> HIDE DEF p, q, z
<1>3. \A i \in 1 .. p + q : i \in 1 .. p \/ (i - p \in 1 .. q /\ z[i] = s[i - p])
  <2> SUFFICES ASSUME NEW i \in 1 .. p + q, i \notin 1 .. p
               PROVE  i - p \in 1 .. q /\ z[i] = s[i - p]
    OBVIOUS
  <2>1. i - p \in 1 .. q /\ p + (i - p) = i
    BY <1>1
  <2>2. z[p + (i - p)] = s[i - p]
    BY <1>1, <2>1
  <2> QED
    BY <2>1, <2>2
<1>4. Unspawning(z)
  <2> SUFFICES ASSUME NEW i \in 1 .. p + q PROVE z[i].do # "spawn"
    BY <1>1 DEF Unspawning
  <2>1. CASE i \in 1 .. p
    BY <1>1, <2>1 DEF Leads
  <2>2. CASE i \notin 1 .. p
    <3>1. i - p \in 1 .. q /\ z[i] = s[i - p]
      BY <1>3, <2>2
    <3> QED
      BY <1>1, <3>1 DEF Unspawning
  <2> QED
    BY <2>1, <2>2
<1>5. ASSUME NEW i \in 1 .. q, Inside(s, i)
      PROVE  Inside(z, p + i)
  <2>1. p + i \in 1 .. p + q /\ z[p + i] = s[i]
    BY <1>1
  <2>2. i + 1 \in 1 .. q => p + i + 1 \in 1 .. p + q /\ z[p + i + 1] = s[i + 1]
    <3>1. p + (i + 1) = p + i + 1
      BY <1>1
    <3> QED
      BY <1>1, <3>1
  <2> QED
    BY <1>1, <1>5, <2>1, <2>2 DEF Inside
<1>6. ASSUME NEW i \in 1 .. p, a[i].do \in {"begin", "lock", "write", "claim"}
      PROVE  Inside(z, i + 1)
  <2>1. CASE i = p
    <3>1. Inside(s, 1) /\ 1 \in 1 .. q
      BY <1>1, <1>2, <1>6, <2>1 DEF Leads, p
    <3> QED
      BY <1>5, <2>1, <3>1
  <2>2. CASE i # p
    <3>1. i + 1 \in 1 .. p /\ i + 1 \in 1 .. p + q /\ z[i + 1] = a[i + 1]
      BY <1>1, <2>2
    <3>2. \/ a[i + 1].do \in {"lock", "write", "claim", "commit"}
          \/ a[i + 1].do = "query" /\ i + 1 = p /\ s[1].do \in {"lock", "commit"}
      BY <1>1, <1>6, <2>2 DEF Leads, p
    <3>3. 1 \in 1 .. q /\ z[p + 1] = s[1] /\ p + 1 \in 1 .. p + q
      BY <1>1, <1>2
    <3> QED
      BY <1>1, <3>1, <3>2, <3>3 DEF Inside
  <2> QED
    BY <2>1, <2>2
<1>7. ASSUME NEW i \in 1 .. q, s[i].do \in {"begin", "lock", "write", "claim"}
      PROVE  Inside(z, p + i + 1)
  <2>1. Inside(s, i + 1) /\ i + 1 \in 1 .. q
    BY <1>1, <1>7 DEF Shaped, Inside
  <2>2. p + (i + 1) = p + i + 1
    BY <1>1
  <2> QED
    BY <1>5, <2>1, <2>2
<1>8. ASSUME NEW i \in DOMAIN z, z[i].do \in {"begin", "lock", "write", "claim"}
      PROVE  Inside(z, i + 1)
  <2>1. CASE i \in 1 .. p
    BY <1>1, <1>6, <1>8, <2>1
  <2>2. CASE i \notin 1 .. p
    <3>1. i - p \in 1 .. q /\ z[i] = s[i - p] /\ p + (i - p) + 1 = i + 1
      BY <1>1, <1>3, <2>2
    <3> QED
      BY <1>7, <1>8, <3>1
  <2> QED
    BY <2>1, <2>2
<1>9. ASSUME NEW i \in DOMAIN z, z[i].to = "PENDING"
      PROVE  i - p \in 1 .. q /\ z[i] = s[i - p]
  BY <1>1, <1>3, <1>9 DEF Leads
<1>10. \A i, j \in DOMAIN z : z[i].to = "PENDING" /\ z[j].to = "PENDING" => i = j
  <2> SUFFICES ASSUME NEW i \in DOMAIN z, NEW j \in DOMAIN z,
                      z[i].to = "PENDING", z[j].to = "PENDING"
               PROVE  i = j
    OBVIOUS
  <2>1. i - p = j - p
    BY <1>1, <1>9 DEF Shaped
  <2> QED
    BY <1>1, <2>1
<1>11. Shaped(z)
  BY <1>4, <1>8, <1>10 DEF Shaped, Unspawning
<1>12. z[1] = IF a = <<>> THEN s[1] ELSE a[1]
  <2>1. CASE p = 0
    BY <1>1, <1>2, <2>1
  <2>2. CASE p # 0
    BY <1>1, <1>2, <2>2
  <2> QED
    BY <2>1, <2>2
<1>13. z # <<>>
  BY <1>1, <1>2, EmptySeq
<1> QED
  BY <1>1, <1>4, <1>9, <1>11, <1>12, <1>13 DEF z, Unentering, EntersOnly

(* Locks may come before whatever is inside.                               *)
LEMMA LocksLead ==
  ASSUME NEW types \in Seq(TicketTypes), NEW s \in Seq(Statements), s # <<>>,
         Shaped(s), Unspawning(s), Inside(s, 1), s[1].do \in {"write", "commit"}
  PROVE  LET z == LockTypes(types) \o s
         IN  /\ z \in Seq(Statements) /\ z # <<>> /\ Shaped(z) /\ Unspawning(z)
             /\ z[1].do \in {"lock", "write", "commit"}
             /\ Unentering(s) => z[1].do \in {"lock", s[1].do} /\ Unentering(z)
             /\ \A o \in Orders : EntersOnly(s, o) => EntersOnly(z, o)
<1> DEFINE l == LockTypes(types)
<1>1. /\ l \in Seq(Statements)
      /\ \A i \in DOMAIN l : l[i].do = "lock" /\ l[i].to = "NONE"
      /\ DOMAIN l = 1 .. Len(l) /\ Len(l) \in Nat
  BY LocksAreLocks, LenProperties
<1> HIDE DEF l
<1>2. Leads(l, s)
  BY <1>1 DEF Leads
<1>3. l # <<>> => 1 \in DOMAIN l
  BY <1>1, EmptySeq
<1> QED
  BY <1>1, <1>2, <1>3, ShapedJoin DEF l

(* The scripts that are written out.                                       *)
LEMMA ListsShaped ==
  ASSUME NEW o \in Orders
  PROVE  /\ Shaped(<<>>) /\ Shaped(<<DueForExpiry>>) /\ Shaped(<<On("spawn", o)>>)
         /\ Shaped(<<Commit>>) /\ Shaped(Sell(o)) /\ Shaped(Fulfil(o))
         /\ \A s \in {<<>>, <<DueForExpiry>>, <<Commit>>, Sell(o), Fulfil(o)} :
              Unspawning(s) /\ Unentering(s)
         /\ Inside(<<Commit>>, 1)
<1>1. Shaped(<<>>) /\ Shaped(<<DueForExpiry>>) /\ Shaped(<<On("spawn", o)>>) /\ Shaped(<<Commit>>)
  BY DEF Shaped, DueForExpiry, On, Commit, Inside
<1>2. Shaped(Sell(o))
  BY DEF Shaped, Sell, Begin, Commit, On, UpdateStatusIfPending, Inside
<1>3. Shaped(Fulfil(o))
  BY DEF Shaped, Fulfil, Begin, Commit, On, AttendeeIDs, OrderForDelivery, SendEmail, Inside
<1>4. \A s \in {<<>>, <<DueForExpiry>>, <<Commit>>, Sell(o), Fulfil(o)} :
        Unspawning(s) /\ Unentering(s)
  BY DEF Unspawning, Unentering, DueForExpiry, Sell, Fulfil, Begin, Commit, On, AttendeeIDs,
         OrderForDelivery, SendEmail, UpdateStatusIfPending
<1> QED
  BY <1>1, <1>2, <1>3, <1>4 DEF Inside, Commit, On

LEMMA ScriptsShaped ==
  ASSUME NEW o \in Orders
  PROVE  /\ Shaped(Checkout(o)) /\ Unspawning(Checkout(o))
         /\ EntersOnly(Checkout(o), o)
         /\ Shaped(Compensate(o)) /\ Unspawning(Compensate(o)) /\ Unentering(Compensate(o))
         /\ \A types \in LineOrders(o) :
              /\ Shaped(Release(o, types)) /\ Unspawning(Release(o, types))
              /\ Unentering(Release(o, types))
              /\ Release(o, types) # <<>> /\ Release(o, types) \in Seq(Statements)
              /\ Release(o, types)[1].do = "begin"
<1> DEFINE begun == <<Begin>>
           claimed == <<Begin, UpdateStatusIfPending(o, "RELEASED")>>
           read == <<Begin, UpdateStatusIfPending(o, "RELEASED"), LineItems(o)>>
           rest == <<WriteOrder(o, "PENDING"), Commit, CreateTransaction(o), Begin,
                     WriteOrder(o, "DATED"), Commit>>
           end == <<Commit>>
<1>1. Cart[o] \in Seq(TicketTypes) /\ \A types \in LineOrders(o) : types \in Seq(TicketTypes)
  BY ApiProcessAssumption, LineOrdersAreSequences
<1>2. /\ \A s \in {begun, claimed, read, rest, end} : s \in Seq(Statements) /\ s # <<>>
      /\ Len(begun) = 1 /\ Len(claimed) = 2 /\ Len(read) = 3
      /\ DOMAIN begun = 1 .. 1 /\ DOMAIN claimed = 1 .. 2 /\ DOMAIN read = 1 .. 3
  BY DEF Begin, UpdateStatusIfPending, LineItems, WriteOrder, Commit, CreateTransaction, On,
         Statements, OrderStatuses, Rows
<1>3. /\ Shaped(rest) /\ Unspawning(rest) /\ Inside(rest, 1) /\ rest[1].do = "write"
      /\ EntersOnly(rest, o)
  BY DEF EntersOnly, Shaped, Unspawning, Inside, Begin, WriteOrder, Commit, CreateTransaction, On
<1>4. Shaped(end) /\ Unspawning(end) /\ Unentering(end) /\ Inside(end, 1) /\ end[1].do = "commit"
  BY ListsShaped DEF Commit, On
<1>5. /\ begun[1].do = "begin" /\ begun[1].to = "NONE"
      /\ claimed[1].do = "begin" /\ claimed[1].to = "NONE"
      /\ claimed[2].do = "claim" /\ claimed[2].to = "RELEASED"
      /\ read[1].do = "begin" /\ read[1].to = "NONE"
      /\ read[2].do = "claim" /\ read[2].to = "RELEASED"
      /\ read[3].do = "query" /\ read[3].to = "NONE"
  BY DEF Begin, UpdateStatusIfPending, LineItems, On
<1>6. ASSUME NEW types \in Seq(TicketTypes), NEW a \in {begun, claimed, read},
             NEW b \in {rest, end}
      PROVE  (a \o LockTypes(types)) \o b = a \o (LockTypes(types) \o b)
  BY <1>2, LocksAreLocks, ConcatAssociative
<1> HIDE DEF begun, claimed, read, rest, end
<1>7. /\ Shaped(Checkout(o)) /\ Unspawning(Checkout(o))
      /\ EntersOnly(Checkout(o), o)
  <2> DEFINE z == LockTypes(Cart[o]) \o rest
  <2>1. /\ z \in Seq(Statements) /\ z # <<>> /\ Shaped(z) /\ Unspawning(z)
        /\ z[1].do \in {"lock", "write", "commit"}
        /\ EntersOnly(z, o)
    BY <1>1, <1>2, <1>3, LocksLead
  <2> HIDE DEF z
  <2>2. 1 \in DOMAIN z
    BY <2>1, EmptySeq, LenProperties
  <2>3. Leads(begun, z)
    BY <1>2, <1>5, <2>1, <2>2 DEF Leads, Inside
  <2>4. Checkout(o) = begun \o z
    BY <1>1, <1>6 DEF Checkout, z, begun, rest
  <2> QED
    BY <1>2, <2>1, <2>3, <2>4, ShapedJoin
<1>8. ASSUME NEW types \in Seq(TicketTypes)
      PROVE  LET z == LockTypes(types) \o end
             IN  /\ z \in Seq(Statements) /\ z # <<>> /\ Shaped(z) /\ Unspawning(z)
                 /\ z[1].do \in {"lock", "commit"} /\ Unentering(z) /\ 1 \in DOMAIN z
  <2> DEFINE z == LockTypes(types) \o end
  <2>1. /\ z \in Seq(Statements) /\ z # <<>> /\ Shaped(z) /\ Unspawning(z)
        /\ z[1].do \in {"lock", "commit"} /\ Unentering(z)
    BY <1>2, <1>4, LocksLead
  <2> HIDE DEF z
  <2>2. 1 \in DOMAIN z
    BY <2>1, EmptySeq, LenProperties
  <2> QED
    BY <2>1, <2>2 DEF z
<1>9. Shaped(Compensate(o)) /\ Unspawning(Compensate(o)) /\ Unentering(Compensate(o))
  <2> DEFINE z == LockTypes(Cart[o]) \o end
  <2>1. /\ z \in Seq(Statements) /\ z # <<>> /\ Shaped(z) /\ Unspawning(z)
        /\ z[1].do \in {"lock", "commit"} /\ Unentering(z) /\ 1 \in DOMAIN z
    BY <1>1, <1>8
  <2> HIDE DEF z
  <2>2. Leads(claimed, z)
    BY <1>2, <1>5, <2>1 DEF Leads, Inside
  <2>3. Compensate(o) = claimed \o z
    BY <1>1, <1>6 DEF Compensate, z, claimed, end
  <2> QED
    BY <1>2, <2>1, <2>2, <2>3, ShapedJoin
<1>10. ASSUME NEW types \in LineOrders(o)
       PROVE  /\ Shaped(Release(o, types)) /\ Unspawning(Release(o, types))
              /\ Unentering(Release(o, types))
              /\ Release(o, types) # <<>> /\ Release(o, types) \in Seq(Statements)
              /\ Release(o, types)[1].do = "begin"
  <2> DEFINE z == LockTypes(types) \o end
  <2>1. /\ z \in Seq(Statements) /\ z # <<>> /\ Shaped(z) /\ Unspawning(z)
        /\ z[1].do \in {"lock", "commit"} /\ Unentering(z) /\ 1 \in DOMAIN z
    BY <1>1, <1>8
  <2> HIDE DEF z
  <2>2. Leads(read, z)
    BY <1>2, <1>5, <2>1 DEF Leads, Inside
  <2>3. Release(o, types) = read \o z
    BY <1>1, <1>6 DEF Release, z, read, end
  <2> QED
    BY <1>2, <1>5, <2>1, <2>2, <2>3, ShapedJoin
<1> QED
  BY <1>7, <1>9, <1>10

LEMMA NotificationsShaped ==
  ASSUME NEW handler \in Notifications
  PROVE  Shaped(handler) /\ Unspawning(handler) /\ Unentering(handler)
<1>1. PICK o \in Orders :
        \/ handler = HandleNotification(o, Sell(o))
        \/ \E types \in LineOrders(o) : handler = HandleNotification(o, Release(o, types))
  BY DEF Notifications
<1> DEFINE reads == <<OrderByNumber(o), CreatePayment(o)>>
<1>2. /\ reads \in Seq(Statements) /\ Len(reads) = 2 /\ DOMAIN reads = 1 .. 2
      /\ reads[1].do = "query" /\ reads[2].do = "query"
      /\ reads[1].to = "NONE" /\ reads[2].to = "NONE"
  BY DEF OrderByNumber, CreatePayment, On, Statements, OrderStatuses, Rows
<1>3. /\ Sell(o) \in Seq(Statements) /\ Sell(o) # <<>>
      /\ Shaped(Sell(o)) /\ Unspawning(Sell(o)) /\ Unentering(Sell(o))
  <2>1. Shaped(Sell(o)) /\ Unspawning(Sell(o)) /\ Unentering(Sell(o))
    BY ListsShaped
  <2> QED
    BY <2>1
    DEF Sell, Begin, Commit, On, UpdateStatusIfPending, Statements, OrderStatuses, Rows
<1> HIDE DEF reads
<1>4. PICK outcome \in Seq(Statements) :
        /\ handler = reads \o outcome /\ outcome # <<>>
        /\ Shaped(outcome) /\ Unspawning(outcome) /\ Unentering(outcome)
  BY <1>1, <1>3, ScriptsShaped DEF HandleNotification, reads
<1>5. Leads(reads, outcome)
  BY <1>2 DEF Leads
<1> QED
  BY <1>2, <1>4, <1>5, ShapedJoin

-----------------------------------------------------------------------------
(* Goroutine t goes on with z: it starts nothing it did not have to start. *)
Less(s, z) ==
  /\ Unspawning(z)
  /\ \A i \in DOMAIN z : z[i].to = "PENDING" =>
       \E j \in DOMAIN s : j # 1 /\ s[j].to = "PENDING" /\ s[j].on = z[i].on

LEMMA TailShaped ==
  ASSUME NEW s \in Seq(Statements), s # <<>>, Shaped(s)
  PROVE  /\ Tail(s) \in Seq(Statements)
         /\ Head(s) = s[1] /\ 1 \in DOMAIN s
         /\ Shaped(Tail(s)) /\ Less(s, Tail(s))
         /\ Inside(s, 2) => Inside(Tail(s), 1)
         /\ Head(s).do = "spawn" => Tail(s) = <<>>
<1> DEFINE n == Len(s)
           z == Tail(s)
<1>1. /\ z \in Seq(Statements) /\ n \in Nat /\ n > 0 /\ Head(s) = s[1]
      /\ DOMAIN s = 1 .. n /\ DOMAIN z = 1 .. n - 1 /\ Len(z) = n - 1
      /\ \A i \in 1 .. n - 1 : z[i] = s[i + 1]
  BY HeadTailProperties, LenProperties, EmptySeq
<1> HIDE DEF n, z
<1>2. ASSUME NEW i \in 1 .. n - 1
      PROVE  i + 1 \in 1 .. n /\ z[i] = s[i + 1] /\ s[i + 1].do # "spawn" /\ i + 1 # 1
  <2>1. i + 1 \in 1 .. n /\ n # 1 /\ i + 1 # 1
    BY <1>1
  <2> QED
    BY <1>1, <2>1 DEF Shaped, n
<1>3. ASSUME NEW i \in 1 .. n - 1, Inside(s, i + 1)
      PROVE  Inside(z, i)
  <2>1. i + 1 + 1 \in 1 .. n => i + 1 \in 1 .. n - 1 /\ z[i + 1] = s[i + 1 + 1]
    BY <1>1
  <2> QED
    BY <1>1, <1>2, <1>3, <2>1 DEF Inside
<1>4. ASSUME NEW i \in DOMAIN z, z[i].do \in {"begin", "lock", "write", "claim"}
      PROVE  Inside(z, i + 1)
  <2>1. Inside(s, i + 1 + 1) /\ i + 1 + 1 \in 1 .. n
    BY <1>1, <1>2, <1>4 DEF Shaped, Inside
  <2>2. i + 1 \in 1 .. n - 1
    BY <1>1, <2>1
  <2> QED
    BY <1>3, <2>1, <2>2
<1>5. \A i, j \in DOMAIN z : z[i].to = "PENDING" /\ z[j].to = "PENDING" => i = j
  <2> SUFFICES ASSUME NEW i \in DOMAIN z, NEW j \in DOMAIN z,
                      z[i].to = "PENDING", z[j].to = "PENDING"
               PROVE  i = j
    OBVIOUS
  <2>1. i + 1 = j + 1
    BY <1>1, <1>2 DEF Shaped
  <2> QED
    BY <1>1, <2>1
<1>6. Shaped(z) /\ Less(s, z)
  BY <1>1, <1>2, <1>4, <1>5 DEF Shaped, Less, Unspawning
<1>7. Inside(s, 2) => Inside(z, 1)
  BY <1>1, <1>3 DEF Inside
<1>8. Head(s).do = "spawn" => z = <<>>
  <2>1. Head(s).do = "spawn" => Len(z) = 0
    BY <1>1 DEF Shaped, n
  <2> QED
    BY <1>1, <2>1, EmptySeq
<1> QED
  BY <1>1, <1>6, <1>7, <1>8 DEF z

(* What becomes of the write of t's transaction before it commits.         *)
IntentMoves(t) ==
  LET s == Head(todo[t]) IN
  \/ intent'[t] = NoIntent
  \/ intent'[t] = intent[t] /\ \A x \in Rows : owner[x] = t => owner'[x] = t
  \/ s.do = "write" /\ Holds(t) /\ intent'[t] = [on |-> s.on, to |-> s.to]
  \/ /\ s.do = "claim" /\ Holds(t) /\ intent'[t] = [on |-> s.on, to |-> s.to]
     /\ owner'[s.on] = t /\ status[s.on] = "PENDING"

(* A goroutine that goes on, or gives up, before it commits.               *)
GoesOn(t, z) ==
  /\ Working(t)
  /\ todo' = [todo EXCEPT ![t] = z]
  /\ z \in Seq(Statements) /\ Less(todo[t], z)
  /\ \A u \in Tasks : u # t => intent'[u] = intent[u]
  /\ \A x \in Rows : owner[x] # t /\ owner[x] # NoTask => owner'[x] = owner[x]
  /\ IntentMoves(t)
  /\ UNCHANGED <<database, requests>>

LEMMA GoingOnKeeps ==
  ASSUME Fits, Kept, NEW t \in Tasks, NEW z, GoesOn(t, z)
  PROVE  ArrivedFirst' /\ EnteredOnce' /\ ClaimsLocked' /\ SoldOnce'
<1> DEFINE s == Head(todo[t])
<1>1. /\ todo' = [todo EXCEPT ![t] = z] /\ todo \in [Tasks -> Seq(Statements)]
      /\ intent \in [Tasks -> Intents]
      /\ status' = status /\ ordered' = ordered /\ arrived' = arrived
      /\ Working(t) /\ Less(todo[t], z)
  BY DEF GoesOn, Fits, TypeOK, database, requests
<1>2. /\ s \in Fit(t) /\ s = todo[t][1] /\ 1 \in DOMAIN todo[t]
      /\ Shaped(todo[t])
  BY <1>1, NextStatement, TailShaped DEF Kept, Brackets, Working
<1>3. todo'[t] = z /\ \A u \in Tasks : u # t => todo'[u] = todo[u] /\ intent'[u] = intent[u]
  BY <1>1 DEF GoesOn
<1> HIDE DEF s
<1>4. \A u \in Tasks : Working(u)' => Working(u)
  BY <1>1, <1>3 DEF Working
<1>5. ASSUME NEW o \in Orders, Enters(t, o)'
      PROVE  Enters(t, o)
  <2>1. CASE \E i \in DOMAIN z : z[i].to = "PENDING" /\ z[i].on = o
    BY <1>1, <2>1 DEF Less, Enters
  <2>2. CASE intent'[t] = [on |-> o, to |-> "PENDING"]
    <3>1. CASE intent'[t] = intent[t]
      BY <2>2, <3>1 DEF Enters
    <3>2. CASE s.to = "PENDING" /\ s.on = o
      BY <1>2, <3>2 DEF Enters
    <3>3. intent'[t] # NoIntent
      BY <2>2 DEF NoIntent
    <3> QED
      BY <2>2, <3>1, <3>2, <3>3 DEF GoesOn, IntentMoves, s
  <2> QED
    BY <1>3, <1>5, <2>1, <2>2 DEF Enters
<1>6. \A u \in Tasks, o \in Orders : Enters(u, o)' => Enters(u, o)
  <2> SUFFICES ASSUME NEW u \in Tasks, NEW o \in Orders, u # t, Enters(u, o)'
               PROVE  Enters(u, o)
    BY <1>5
  <2> QED
    BY <1>3 DEF Enters
<1>7. ASSUME intent'[t].to = "PENDING", NEW i \in DOMAIN z, z[i].to = "PENDING"
      PROVE  FALSE
  <2>1. PICK j \in DOMAIN todo[t] : j # 1 /\ todo[t][j].to = "PENDING"
    BY <1>1, <1>7 DEF Less
  <2>2. CASE intent'[t] = intent[t]
    BY <1>7, <2>1, <2>2 DEF Kept, EnteredOnce
  <2>3. CASE s.to = "PENDING"
    BY <1>2, <2>1, <2>3 DEF Shaped
  <2>4. intent'[t] # NoIntent
    BY <1>7 DEF NoIntent
  <2> QED
    BY <1>7, <2>2, <2>3, <2>4 DEF GoesOn, IntentMoves, s
<1>8. EnteredOnce'
  <2>1. \A u \in Tasks, o \in Orders : Enters(u, o)' => o \in ordered' /\ status'[o] = "NONE"
    BY <1>1, <1>6 DEF Kept, EnteredOnce
  <2>2. \A u, v \in Tasks, o \in Orders : Enters(u, o)' /\ Enters(v, o)' => u = v
    BY <1>6 DEF Kept, EnteredOnce
  <2>3. ASSUME NEW u \in Tasks, intent'[u].to = "PENDING"
        PROVE  \A i \in DOMAIN todo'[u] : todo'[u][i].to # "PENDING"
    BY <1>3, <1>7, <2>3 DEF Kept, EnteredOnce
  <2> QED
    BY <2>1, <2>2, <2>3 DEF EnteredOnce
<1>9. ASSUME NEW u \in Tasks, intent'[u].to \in {"PAID", "RELEASED"}
      PROVE  owner'[intent'[u].on] = u /\ status'[intent'[u].on] = "PENDING"
  <2>1. ASSUME intent'[u] = intent[u]
        PROVE  /\ intent[u].on \in Rows /\ owner[intent[u].on] = u
               /\ status[intent[u].on] = "PENDING"
    BY <1>1, <1>9, <2>1 DEF Kept, ClaimsLocked, Intents, NoIntent, Rows
  <2>2. CASE u # t
    <3>1. u # NoTask
      BY ApiProcessAssumption DEF Tasks
    <3> QED
      BY <1>1, <1>3, <2>1, <2>2, <3>1 DEF GoesOn
  <2>3. CASE u = t
    <3>1. CASE intent'[t] = NoIntent
      BY <1>9, <2>3, <3>1 DEF NoIntent
    <3>2. CASE intent'[t] = intent[t] /\ \A x \in Rows : owner[x] = t => owner'[x] = t
      BY <1>1, <2>1, <2>3, <3>2
    <3>3. CASE s.do = "write" /\ Holds(t) /\ intent'[t] = [on |-> s.on, to |-> s.to]
      BY <1>2, <1>9, <2>3, <3>3 DEF Fit
    <3>4. CASE /\ s.do = "claim" /\ Holds(t) /\ intent'[t] = [on |-> s.on, to |-> s.to]
               /\ owner'[s.on] = t /\ status[s.on] = "PENDING"
      BY <1>1, <2>3, <3>4
    <3> QED
      BY <3>1, <3>2, <3>3, <3>4 DEF GoesOn, IntentMoves, s
  <2> QED
    BY <2>2, <2>3
<1>10. \A u \in Tasks, o \in Orders : Spawns(u, o)' => Spawns(u, o)
  <2> SUFFICES ASSUME NEW u \in Tasks, NEW o \in Orders, Spawns(u, o)'
               PROVE  Spawns(u, o)
    OBVIOUS
  <2>1. u # t
    BY <1>1, <1>3 DEF Less, Unspawning, Spawns
  <2> QED
    BY <1>3, <2>1 DEF Spawns
<1>11. SoldOnce'
  BY <1>1, <1>4, <1>10 DEF Kept, SoldOnce, Tasks
<1>12. ArrivedFirst'
  BY <1>1, <1>4 DEF Kept, ArrivedFirst, Tasks
<1> QED
  BY <1>8, <1>9, <1>11, <1>12 DEF ClaimsLocked

LEMMA NothingShaped == Shaped(<<>>) /\ <<>> \in Seq(Statements)
BY EmptySeq DEF Shaped

LEMMA BracketsGo ==
  ASSUME Fits, Kept, NEW t \in Tasks, NEW z, Shaped(z),
         todo' = [todo EXCEPT ![t] = z],
         \A u \in Tasks : u # t => (Holds(u)' <=> Holds(u)) /\ intent'[u] = intent[u],
         Holds(t)' => Inside(z, 1),
         \/ intent'[t] = NoIntent
         \/ Holds(t)' /\ (intent'[t] = intent[t] \/ intent'[t].to # "NONE")
  PROVE  Brackets' /\ OpenWrites'
<1>1. todo'[t] = z /\ \A u \in Tasks : u # t => todo'[u] = todo[u]
  BY DEF Fits, TypeOK
<1> QED
  BY <1>1 DEF Kept, Brackets, OpenWrites

(* At the end of a transaction its connection goes back.                   *)
LEMMA ConnectionReturned ==
  ASSUME NEW t \in Tasks, EndTransaction(t)
  PROVE  ~ Holds(t)' /\ \A u \in Tasks : u # t => (Holds(u)' <=> Holds(u))
<1>1. t # NoTask /\ \A u \in Tasks : u # NoTask
  BY ApiProcessAssumption DEF Tasks
<1> QED
  BY <1>1 DEF EndTransaction, Unheld, Holds

LEMMA LeavingNothing ==
  ASSUME NEW s
  PROVE  /\ Less(s, <<>>) /\ Less(s, <<Commit>>)
         /\ \A o \in Orders : Less(s, Compensate(o)) /\ Compensate(o) \in Seq(Statements)
<1>1. Less(s, <<>>) /\ Less(s, <<Commit>>)
  BY DEF Less, Unspawning, Commit, On
<1>2. ASSUME NEW o \in Orders
      PROVE  Less(s, Compensate(o)) /\ Compensate(o) \in Seq(Statements)
  <2>1. Unspawning(Compensate(o)) /\ Unentering(Compensate(o))
    BY ScriptsShaped
  <2>2. LockTypes(Cart[o]) \in Seq(Statements)
    BY LocksAreLocks, ApiProcessAssumption
  <2>3. /\ <<Begin, UpdateStatusIfPending(o, "RELEASED")>> \in Seq(Statements)
        /\ <<Commit>> \in Seq(Statements)
    BY DEF Begin, Commit, On, UpdateStatusIfPending, Statements, OrderStatuses, Rows
  <2> QED
    BY <2>1, <2>2, <2>3, ConcatProperties DEF Less, Unentering, Compensate
<1> QED
  BY <1>1, <1>2

(* An error ends the transaction and the goroutine's work.                 *)
LEMMA RollbackKeeps ==
  ASSUME Fits, Kept, NEW t \in Tasks, Rollback(t), Working(t)
  PROVE  Kept'
<1>1. todo' = [todo EXCEPT ![t] = <<>>] /\ EndTransaction(t)
      /\ UNCHANGED <<database, requests>>
  BY DEF Rollback
<1>2. Brackets' /\ OpenWrites'
  <2>1. intent'[t] = NoIntent /\ \A u \in Tasks : u # t => intent'[u] = intent[u]
    BY <1>1 DEF EndTransaction, Fits, TypeOK
  <2> QED
    BY <1>1, <2>1, ConnectionReturned, BracketsGo, NothingShaped
<1>3. GoesOn(t, <<>>)
  BY <1>1, LeavingNothing, EmptySeq
  DEF GoesOn, IntentMoves, EndTransaction, Unlocked, Fits, TypeOK
<1> QED
  BY <1>2, <1>3, GoingOnKeeps DEF Kept

(* One statement of a goroutine, but for the commit and for fulfilAsync.   *)
LEMMA StatementKeeps ==
  ASSUME Fits, Kept, NEW t \in Tasks, Step(t), ~ CommitTx(t), ~ FulfilAsync(t)
  PROVE  Kept'
<1> USE DEF Ready, ReadyInTx
<1> DEFINE s == Head(todo[t])
           rest == Tail(todo[t])
<1>1. /\ todo[t] \in Seq(Statements) /\ Shaped(todo[t])
      /\ Holds(t) => Inside(todo[t], 1)
      /\ intent \in [Tasks -> Intents]
  BY DEF Fits, TypeOK, Kept, Brackets
<1>2. ASSUME Working(t)
      PROVE  /\ rest \in Seq(Statements) /\ s = todo[t][1] /\ 1 \in DOMAIN todo[t]
             /\ Shaped(rest) /\ Less(todo[t], rest)
             /\ Inside(todo[t], 2) => Inside(rest, 1)
             /\ s \in Fit(t)
  BY <1>1, <1>2, TailShaped, NextStatement DEF Working
<1>3. ASSUME Working(t), s.do \in {"begin", "lock", "write", "claim"}
      PROVE  Inside(rest, 1)
  BY <1>2, <1>3, <1>1 DEF Shaped
<1> HIDE DEF s, rest
<1>4. ASSUME Rollback(t), Working(t)
      PROVE  Kept'
  BY <1>4, RollbackKeeps
<1>5. ASSUME NEW z \in Seq(Statements), GoesOn(t, z), Shaped(z),
             \A u \in Tasks : u # t => (Holds(u)' <=> Holds(u)),
             Holds(t) => Holds(t)',
             Holds(t)' => Inside(z, 1)
      PROVE  Kept'
  <2>1. /\ todo' = [todo EXCEPT ![t] = z] /\ Working(t)
        /\ \A u \in Tasks : u # t => intent'[u] = intent[u]
    BY <1>5 DEF GoesOn
  <2>2. \/ intent'[t] = NoIntent
        \/ Holds(t)' /\ (intent'[t] = intent[t] \/ intent'[t].to # "NONE")
    <3>1. \/ intent'[t] = NoIntent \/ intent'[t] = intent[t]
          \/ s.do \in {"write", "claim"} /\ Holds(t) /\ intent'[t].to = s.to
      BY <1>5 DEF GoesOn, IntentMoves, s
    <3>2. intent[t] # NoIntent => Holds(t)
      BY DEF Kept, OpenWrites
    <3>3. s.do \in {"write", "claim"} => s.to # "NONE"
      BY <1>2, <2>1 DEF Fit
    <3> QED
      BY <1>5, <3>1, <3>2, <3>3
  <2> QED
    BY <1>5, <2>1, <2>2, GoingOnKeeps, BracketsGo DEF Kept
<1>6. CASE BeginTx(t)
  <2>1. Working(t) /\ s.do = "begin" /\ todo' = [todo EXCEPT ![t] = rest]
    BY <1>6 DEF BeginTx, Advance, s, rest
  <2>2. GoesOn(t, rest)
    BY <1>2, <1>6, <2>1 DEF BeginTx, GoesOn, IntentMoves
  <2>3. (\A u \in Tasks : u # t => (Holds(u)' <=> Holds(u))) /\ (Holds(t) => Holds(t)')
    <3>1. \A u \in Tasks : u # NoTask
      BY ApiProcessAssumption DEF Tasks
    <3> QED
      BY <1>6, <3>1 DEF BeginTx, Holds, Free, Fits, TypeOK
  <2> QED
    BY <1>2, <1>3, <1>5, <2>1, <2>2, <2>3
<1>7. CASE Query(t)
  <2>1. Working(t) /\ s.do = "query" /\ todo' = [todo EXCEPT ![t] = rest] /\ holder' = holder
    BY <1>7 DEF Query, Advance, s, rest, pool
  <2>2. GoesOn(t, rest)
    BY <1>2, <1>7, <2>1 DEF Query, GoesOn, IntentMoves, pool
  <2>3. Holds(t)' => Inside(rest, 1)
    <3>1. Holds(t)' => Inside(todo[t], 1)
      BY <1>1, <2>1 DEF Holds
    <3>2. Inside(todo[t], 1) => Inside(todo[t], 2)
      BY <1>2, <2>1 DEF Inside
    <3> QED
      BY <1>2, <2>1, <3>1, <3>2
  <2> QED
    BY <1>2, <1>5, <2>1, <2>2, <2>3 DEF Holds
<1>8. CASE PoolClosed(t) \/ StatementFails(t) \/ DeadlockAbort(t)
  BY <1>4, <1>8 DEF PoolClosed, StatementFails, DeadlockAbort, WaitsForRow
<1>9. CASE Lock(t)
  <2>1. Working(t) /\ s.do = "lock" /\ todo' = [todo EXCEPT ![t] = rest] /\ holder' = holder
    BY <1>9 DEF Lock, Advance, s, rest
  <2>2. GoesOn(t, rest)
    <3>1. \A x \in Rows : owner[x] # t /\ owner[x] # NoTask => owner'[x] = owner[x]
      BY <1>9 DEF Lock, Lockable, Fits, TypeOK
    <3>2. \A x \in Rows : owner[x] = t => owner'[x] = t
      BY <1>9 DEF Lock, Fits, TypeOK
    <3> QED
      BY <1>2, <1>9, <2>1, <3>1, <3>2 DEF Lock, GoesOn, IntentMoves
  <2> QED
    BY <1>2, <1>3, <1>5, <2>1, <2>2 DEF Holds
<1>10. CASE Write(t)
  <2>1. Working(t) /\ Holds(t) /\ s.do = "write" /\ todo' = [todo EXCEPT ![t] = rest] /\ holder' = holder
        /\ intent' = [intent EXCEPT ![t] = [on |-> s.on, to |-> s.to]]
    BY <1>10 DEF Write, Advance, Holds, s, rest
  <2>2. GoesOn(t, rest)
    <3>1. \A x \in Rows : owner[x] # t /\ owner[x] # NoTask => owner'[x] = owner[x]
      BY <1>10 DEF Write, Lockable, Fits, TypeOK
    <3>2. IntentMoves(t)
      BY <1>1, <2>1 DEF IntentMoves, s
    <3> QED
      BY <1>1, <1>2, <1>10, <2>1, <3>1, <3>2 DEF Write, GoesOn
  <2> QED
    BY <1>2, <1>3, <1>5, <2>1, <2>2 DEF Holds
<1>11. CASE Claim(t)
  <2>1. Working(t) /\ Holds(t) /\ s.do = "claim" /\ holder' = holder /\ UNCHANGED <<database, requests>>
        /\ Lockable(t, s.on) /\ s.on \in Rows
    BY <1>2, <1>11 DEF Claim, Holds, s, Fit, Rows
  <2>2. CASE status[s.on] = "PENDING"
    <3>1. /\ todo' = [todo EXCEPT ![t] = rest]
          /\ owner' = [owner EXCEPT ![s.on] = t]
          /\ intent' = [intent EXCEPT ![t] = [on |-> s.on, to |-> s.to]]
      BY <1>11, <2>2 DEF Claim, Advance, s, rest
    <3>2. /\ \A x \in Rows : owner[x] # t /\ owner[x] # NoTask => owner'[x] = owner[x]
          /\ owner'[s.on] = t
      BY <2>1, <3>1 DEF Lockable, Fits, TypeOK
    <3>3. IntentMoves(t)
      BY <1>1, <2>1, <2>2, <3>1, <3>2 DEF IntentMoves, s
    <3>4. GoesOn(t, rest)
      BY <1>1, <1>2, <2>1, <3>1, <3>2, <3>3 DEF GoesOn
    <3> QED
      BY <1>2, <1>3, <1>5, <2>1, <3>4 DEF Holds
  <2>3. CASE status[s.on] # "PENDING"
    <3>1. todo' = [todo EXCEPT ![t] = <<Commit>>] /\ UNCHANGED <<owner, intent>>
      BY <1>11, <2>3 DEF Claim, s
    <3>2. <<Commit>> \in Seq(Statements) /\ Shaped(<<Commit>>) /\ Inside(<<Commit>>, 1)
      <4>1. s.on \in Orders
        BY <1>2, <2>1 DEF Fit
      <4>2. Commit \in Statements
        BY DEF Commit, On, Statements, OrderStatuses
      <4>3. <<Commit>> \in Seq(Statements)
        BY <4>2
      <4> QED
        BY <4>1, <4>3, ListsShaped
    <3>3. GoesOn(t, <<Commit>>)
      BY <2>1, <3>1, <3>2, LeavingNothing DEF GoesOn, IntentMoves
    <3> QED
      BY <1>5, <2>1, <3>2, <3>3 DEF Holds
  <2> QED
    BY <2>2, <2>3
<1>12. CASE Call(t) \/ CallFails(t)
  <2>1. Working(t) /\ s.do = "call" /\ UNCHANGED <<pool, database, requests>>
    BY <1>12 DEF Call, CallFails, s
  <2>2. ~ Holds(t)
    BY <1>1, <1>2, <2>1 DEF Inside
  <2>3. s.on \in Orders
    BY <1>2, <2>1 DEF Fit
  <2>4. PICK z \in Seq(Statements) :
          todo' = [todo EXCEPT ![t] = z] /\ Shaped(z) /\ Less(todo[t], z)
    <3>1. CASE Call(t)
      BY <1>2, <2>1, <3>1 DEF Call, Advance, rest
    <3>2. CASE CallFails(t) /\ t \in Requests
      <4>1. todo' = [todo EXCEPT ![t] = Compensate(s.on)]
        BY <3>2 DEF CallFails, s
      <4> QED
        BY <2>3, <4>1, LeavingNothing, ScriptsShaped
    <3>3. CASE CallFails(t) /\ t \notin Requests
      <4>1. todo' = [todo EXCEPT ![t] = <<>>]
        BY <3>3 DEF CallFails
      <4> QED
        BY <4>1, LeavingNothing, NothingShaped
    <3> QED
      BY <1>12, <3>1, <3>2, <3>3
  <2>5. GoesOn(t, z)
    BY <2>1, <2>4 DEF GoesOn, IntentMoves, pool
  <2> QED
    BY <1>5, <2>1, <2>2, <2>4, <2>5 DEF Holds, pool
<1> QED
  BY <1>6, <1>7, <1>8, <1>9, <1>10, <1>11, <1>12 DEF Step

-----------------------------------------------------------------------------
(* What a commit does to an order: it enters one that is not there, or it  *)
(* settles one that is PENDING and whose row it has locked.                *)
LEMMA CommitSettles ==
  ASSUME Fits, Kept, NEW t \in Tasks, Apply(intent[t])
  PROVE  \/ status' = status /\ intent[t].to \notin {"PENDING", "PAID", "RELEASED"}
         \/ /\ intent[t].on \in Orders /\ intent[t].on \in Rows
            /\ status' = [status EXCEPT ![intent[t].on] = intent[t].to]
            /\ \/ intent[t].to = "PENDING" /\ status[intent[t].on] = "NONE"
               \/ /\ intent[t].to \in {"PAID", "RELEASED"}
                  /\ status[intent[t].on] = "PENDING" /\ owner[intent[t].on] = t
<1> DEFINE i == intent[t]
<1>1. i \in Intents
  BY DEF Fits, TypeOK
<1>2. CASE i = NoIntent \/ i.to = "DATED"
  BY <1>2 DEF Apply, NoIntent
<1>3. CASE i # NoIntent /\ i.to # "DATED"
  <2>1. /\ i.on \in Orders /\ i.on \in Rows /\ i = [on |-> i.on, to |-> i.to]
        /\ i.to \in {"PENDING", "PAID", "RELEASED"}
    BY <1>1, <1>3 DEF Intents, OrderStatuses, Kept, OpenWrites, Rows
  <2>2. i.to = "PENDING" => status[i.on] = "NONE"
    BY <2>1 DEF Kept, EnteredOnce, Enters
  <2>3. i.to \in {"PAID", "RELEASED"} => status[i.on] = "PENDING" /\ owner[i.on] = t
    BY DEF Kept, ClaimsLocked
  <2> QED
    BY <1>3, <2>1, <2>2, <2>3 DEF Apply
<1> QED
  BY <1>2, <1>3

LEMMA CommitKeeps ==
  ASSUME Fits, Kept, NEW t \in Tasks, CommitTx(t) \/ CommitUnanswered(t)
  PROVE  Kept'
<1> DEFINE i == intent[t]
           z == todo'[t]
<1>1. /\ Working(t) /\ Apply(i) /\ EndTransaction(t) /\ UNCHANGED requests
      /\ todo \in [Tasks -> Seq(Statements)] /\ status \in [Orders -> OrderStatuses]
      /\ i \in Intents
      /\ i.to = "PAID" => t \in Requests
  BY DEF CommitTx, CommitUnanswered, ReadyInTx, Ready, Fits, TypeOK
<1>2. /\ todo' = [todo EXCEPT ![t] = z]
      /\ \/ z = Tail(todo[t]) \/ z = <<>>
         \/ i.to = "PAID" /\ z = <<On("spawn", i.on)>>
  BY <1>1 DEF CommitTx, CommitUnanswered
<1>3. \A u \in Tasks : u # t => todo'[u] = todo[u]
  BY <1>1, <1>2
<1>4. /\ todo[t] \in Seq(Statements) /\ Shaped(todo[t]) /\ todo[t] # <<>>
  BY <1>1 DEF Kept, Brackets, Working
<1>5. /\ intent'[t] = NoIntent /\ \A u \in Tasks : u # t => intent'[u] = intent[u]
      /\ \A x \in Rows, u \in Tasks : u # t /\ owner[x] = u => owner'[x] = u
  BY <1>1 DEF EndTransaction, Unlocked, Fits, TypeOK
<1> HIDE DEF i, z
<1>6. \/ status' = status /\ i.to \notin {"PENDING", "PAID", "RELEASED"}
      \/ /\ i.on \in Orders /\ i.on \in Rows
         /\ status' = [status EXCEPT ![i.on] = i.to]
         /\ \/ i.to = "PENDING" /\ status[i.on] = "NONE"
            \/ /\ i.to \in {"PAID", "RELEASED"}
               /\ status[i.on] = "PENDING" /\ owner[i.on] = t
  BY <1>1, CommitSettles DEF i
<1>7. i.to \in {"PENDING", "PAID", "RELEASED"} => i.on \in Orders /\ i = [on |-> i.on, to |-> i.to]
  BY <1>1 DEF Intents, NoIntent
<1>8. Less(todo[t], z) \/ (i.to = "PAID" /\ i.on \in Orders /\ z = <<On("spawn", i.on)>>)
  BY <1>2, <1>4, <1>7, TailShaped, LeavingNothing
<1>9. Brackets' /\ OpenWrites'
  <2>1. Shaped(z)
    BY <1>2, <1>4, <1>7, TailShaped, NothingShaped, ListsShaped
  <2> QED
    BY <1>1, <1>2, <1>5, <2>1, ConnectionReturned, BracketsGo
<1>10. ASSUME NEW u \in Tasks, NEW o \in Orders, Enters(u, o)'
       PROVE  /\ Enters(u, o)
              /\ u = t => \E j \in DOMAIN todo[t] : todo[t][j].to = "PENDING"
  <2>1. CASE u # t
    BY <1>3, <1>5, <1>10, <2>1 DEF Enters
  <2>2. CASE u = t
    <3>1. PICK j \in DOMAIN z : z[j].to = "PENDING" /\ z[j].on = o
      BY <1>5, <1>10, <2>2 DEF Enters, z, NoIntent
    <3>2. Less(todo[t], z)
      BY <1>8, <3>1 DEF On
    <3> QED
      BY <2>2, <3>1, <3>2 DEF Less, Enters
  <2> QED
    BY <2>1, <2>2
<1>11. EnteredOnce'
  <2>1. ASSUME NEW u \in Tasks, NEW o \in Orders, Enters(u, o)'
        PROVE  o \in ordered' /\ status'[o] = "NONE"
    <3>1. o \in ordered /\ status[o] = "NONE" /\ Enters(u, o)
      BY <1>10, <2>1 DEF Kept, EnteredOnce
    <3>2. CASE i.to = "PENDING" /\ i.on = o
      <4>1. Enters(t, o)
        BY <1>7, <3>2 DEF Enters, i
      <4>2. u = t
        BY <3>1, <4>1 DEF Kept, EnteredOnce
      <4> QED
        BY <1>10, <2>1, <3>2, <4>2 DEF Kept, EnteredOnce, i
    <3>3. CASE ~ (i.to = "PENDING" /\ i.on = o)
      BY <1>1, <1>6, <3>1, <3>3 DEF requests
    <3> QED
      BY <3>2, <3>3
  <2>2. \A u, v \in Tasks, o \in Orders : Enters(u, o)' /\ Enters(v, o)' => u = v
    BY <1>10 DEF Kept, EnteredOnce
  <2>3. ASSUME NEW u \in Tasks, intent'[u].to = "PENDING"
        PROVE  \A j \in DOMAIN todo'[u] : todo'[u][j].to # "PENDING"
    <3>1. u # t
      BY <1>5, <2>3 DEF NoIntent
    <3> QED
      BY <1>3, <1>5, <2>3, <3>1 DEF Kept, EnteredOnce
  <2> QED
    BY <2>1, <2>2, <2>3 DEF EnteredOnce
<1>12. ASSUME NEW u \in Tasks, intent'[u].to \in {"PAID", "RELEASED"}
       PROVE  owner'[intent'[u].on] = u /\ status'[intent'[u].on] = "PENDING"
  <2>1. u # t /\ intent'[u] = intent[u]
    BY <1>5, <1>12 DEF NoIntent
  <2>2. owner[intent[u].on] = u /\ status[intent[u].on] = "PENDING"
    BY <1>12, <2>1 DEF Kept, ClaimsLocked
  <2>3. intent[u].on \in Orders /\ intent[u].on \in Rows
    BY <1>12, <2>1 DEF Fits, TypeOK, Intents, NoIntent, Rows
  <2>4. status'[intent[u].on] = status[intent[u].on]
    BY <1>1, <1>6, <2>1, <2>2, <2>3
  <2> QED
    BY <1>5, <2>1, <2>2, <2>3, <2>4
<1>13. \A o \in Orders : status[o] = "PAID" => status'[o] = "PAID"
  BY <1>1, <1>6
<1>14. \A u \in Tasks : Working(u)' => Working(u)
  BY <1>1, <1>3 DEF Working
<1>15. ASSUME NEW u \in Tasks, NEW o \in Orders, Spawns(u, o)'
       PROVE  Spawns(u, o) \/ (u = t /\ i.to = "PAID" /\ i.on = o)
  <2>1. CASE u # t
    BY <1>3, <1>15, <2>1 DEF Spawns
  <2>2. CASE u = t
    <3>1. PICK j \in DOMAIN z : z[j].do = "spawn" /\ z[j].on = o
      BY <1>15, <2>2 DEF Spawns, z
    <3>2. i.to = "PAID" /\ z = <<On("spawn", i.on)>>
      BY <1>8, <3>1 DEF Less, Unspawning
    <3> QED
      BY <2>2, <3>1, <3>2 DEF On
  <2> QED
    BY <2>1, <2>2
<1>16. SoldOnce'
  <2>1. ASSUME NEW o \in Orders, i.to = "PAID", i.on = o
        PROVE  /\ status'[o] = "PAID" /\ ~ Working(o)'
               /\ \A u \in Tasks : ~ Spawns(u, o)
    <3>1. status[o] = "PENDING" /\ status'[o] = "PAID"
      BY <1>1, <1>6, <2>1
    <3>2. ~ Working(o) /\ o \in Tasks /\ \A u \in Tasks : ~ Spawns(u, o)
      BY <3>1 DEF Kept, SoldOnce, Tasks
    <3> QED
      BY <1>14, <3>1, <3>2
  <2>2. ASSUME NEW o \in Orders, Working(o)'
        PROVE  status'[o] = "PAID"
    BY <1>13, <1>14, <2>2 DEF Kept, SoldOnce, Tasks
  <2>3. ASSUME NEW u \in Tasks, NEW o \in Orders, Spawns(u, o)'
        PROVE  status'[o] = "PAID" /\ ~ Working(o)'
    <3>1. CASE Spawns(u, o)
      BY <1>13, <1>14, <3>1 DEF Kept, SoldOnce, Tasks
    <3>2. CASE i.to = "PAID" /\ i.on = o
      BY <2>1, <3>2
    <3> QED
      BY <1>15, <2>3, <3>1, <3>2
  <2>4. ASSUME NEW u \in Tasks, NEW v \in Tasks, NEW o \in Orders,
               Spawns(u, o)', Spawns(v, o)'
        PROVE  u = v
    <3>1. CASE i.to = "PAID" /\ i.on = o
      BY <1>15, <2>1, <2>4, <3>1
    <3>2. CASE ~ (i.to = "PAID" /\ i.on = o)
      BY <1>15, <2>4, <3>2 DEF Kept, SoldOnce
    <3> QED
      BY <3>1, <3>2
  <2> QED
    BY <2>2, <2>3, <2>4 DEF SoldOnce
<1>17. ArrivedFirst'
  <2>1. ASSUME NEW o \in Orders, status'[o] # "NONE"
        PROVE  o \in ordered
    <3>1. CASE i.to = "PENDING" /\ i.on = o
      <4>1. Enters(t, o)
        BY <1>7, <3>1 DEF Enters, i
      <4> QED
        BY <4>1 DEF Kept, EnteredOnce
    <3>2. CASE ~ (i.to = "PENDING" /\ i.on = o)
      BY <1>1, <1>6, <2>1, <3>2 DEF Kept, ArrivedFirst
    <3> QED
      BY <3>1, <3>2
  <2> QED
    BY <1>1, <1>14, <2>1 DEF Kept, ArrivedFirst, requests, Tasks
<1> QED
  BY <1>9, <1>11, <1>12, <1>16, <1>17 DEF Kept, ClaimsLocked

(* An order's post-payment goroutine is started by one that holds nothing, *)
(* and was not running.                                                    *)
LEMMA FulfilAsyncKeeps ==
  ASSUME Fits, Kept, NEW t \in Tasks, FulfilAsync(t)
  PROVE  Kept'
<1> DEFINE o == Head(todo[t]).on
<1>1. /\ Working(t) /\ Head(todo[t]).do = "spawn"
      /\ todo' = [todo EXCEPT ![t] = Tail(todo[t]), ![o] = Fulfil(o)]
      /\ UNCHANGED <<requests, pool, database>>
      /\ todo \in [Tasks -> Seq(Statements)]
  BY DEF FulfilAsync, Ready, Fits, TypeOK
<1>2. o \in Orders /\ o \in Tasks /\ o # t
  BY <1>1, NextStatement, ApiProcessAssumption DEF Fit, Tasks
<1>3. Tail(todo[t]) = <<>> /\ todo[t][1] = Head(todo[t]) /\ 1 \in DOMAIN todo[t]
  BY <1>1, TailShaped DEF Kept, Brackets, Working
<1>4. Spawns(t, o)
  BY <1>1, <1>3 DEF Spawns
<1> HIDE DEF o
<1>5. status[o] = "PAID" /\ ~ Working(o)
  BY <1>2, <1>4 DEF Kept, SoldOnce
<1>6. /\ todo'[t] = <<>> /\ todo'[o] = Fulfil(o)
      /\ \A u \in Tasks : u \notin {t, o} => todo'[u] = todo[u]
  BY <1>1, <1>2, <1>3
<1>7. ~ Holds(t) /\ ~ Holds(o)
  <2>1. ~ Inside(todo[t], 1) /\ ~ Inside(todo[o], 1)
    BY <1>1, <1>3, <1>5 DEF Inside, Working
  <2> QED
    BY <1>2, <2>1 DEF Kept, Brackets
<1>8. Shaped(Fulfil(o)) /\ Unspawning(Fulfil(o)) /\ Unentering(Fulfil(o))
  BY <1>2, ListsShaped
<1>9. \A u \in Tasks : Holds(u)' <=> Holds(u)
  BY <1>1 DEF Holds, pool
<1>10. Brackets' /\ OpenWrites'
  BY <1>1, <1>6, <1>7, <1>8, <1>9, NothingShaped DEF Kept, Brackets, OpenWrites, pool
<1>11. \A u \in Tasks, p \in Orders : Enters(u, p)' => Enters(u, p)
  <2> SUFFICES ASSUME NEW u \in Tasks, NEW p \in Orders, Enters(u, p)'
               PROVE  Enters(u, p)
    OBVIOUS
  <2>1. CASE u \in {t, o}
    BY <1>1, <1>6, <1>8, <2>1 DEF Enters, Unentering, pool
  <2>2. CASE u \notin {t, o}
    BY <1>1, <1>6, <2>2 DEF Enters, pool
  <2> QED
    BY <2>1, <2>2
<1>12. \A u \in Tasks, p \in Orders : Spawns(u, p)' => Spawns(u, p) /\ u # t
  <2> SUFFICES ASSUME NEW u \in Tasks, NEW p \in Orders, Spawns(u, p)'
               PROVE  Spawns(u, p) /\ u # t
    OBVIOUS
  <2>1. u \notin {t, o}
    BY <1>6, <1>8 DEF Spawns, Unspawning
  <2> QED
    BY <1>6, <2>1 DEF Spawns
<1>13. EnteredOnce'
  <2>1. ASSUME NEW u \in Tasks, intent[u].to = "PENDING"
        PROVE  \A j \in DOMAIN todo'[u] : todo'[u][j].to # "PENDING"
    <3>1. CASE u \in {t, o}
      BY <1>6, <1>8, <3>1 DEF Unentering
    <3>2. CASE u \notin {t, o}
      BY <1>6, <2>1, <3>2 DEF Kept, EnteredOnce
    <3> QED
      BY <3>1, <3>2
  <2> QED
    BY <1>1, <1>11, <2>1 DEF Kept, EnteredOnce, pool, database, requests
<1>14. \A u \in Tasks : Working(u)' => u = o \/ Working(u)
  BY <1>1, <1>6 DEF Working
<1>15. SoldOnce'
  <2>1. \A p \in Orders : Working(p)' => status'[p] = "PAID"
    BY <1>1, <1>5, <1>14 DEF Kept, SoldOnce, Tasks, database
  <2>2. ASSUME NEW u \in Tasks, NEW p \in Orders, Spawns(u, p)'
        PROVE  status'[p] = "PAID" /\ ~ Working(p)'
    <3>1. Spawns(u, p) /\ u # t
      BY <1>12, <2>2
    <3>2. p # o /\ status[p] = "PAID" /\ ~ Working(p)
      BY <1>4, <3>1 DEF Kept, SoldOnce
    <3> QED
      BY <1>1, <1>14, <3>2 DEF Tasks, database
  <2>3. \A u, v \in Tasks, p \in Orders : Spawns(u, p)' /\ Spawns(v, p)' => u = v
    BY <1>12 DEF Kept, SoldOnce
  <2> QED
    BY <2>1, <2>2, <2>3 DEF SoldOnce
<1>16. ArrivedFirst' /\ ClaimsLocked'
  <2>1. \A r \in Requests : Working(r)' => Working(r)
    BY <1>2, <1>14, ApiProcessAssumption DEF Tasks
  <2> QED
    BY <1>1, <2>1 DEF Kept, ArrivedFirst, ClaimsLocked, pool, database, requests
<1> QED
  BY <1>10, <1>13, <1>15, <1>16 DEF Kept

(* Work for one that has none: it enters an order that only now gets its   *)
(* number, or none.                                                        *)
LEMMA AssignmentKeeps ==
  ASSUME Fits, Kept, NEW t \in Tasks \ Orders, ~ Working(t), NEW z, Shaped(z), Unspawning(z),
         todo' = [todo EXCEPT ![t] = z],
         UNCHANGED <<pool, database>>,
         arrived \subseteq arrived', t \in Requests => t \in arrived',
         \/ ordered' = ordered /\ Unentering(z)
         \/ \E o \in Orders : o \notin ordered /\ ordered' = ordered \cup {o} /\ EntersOnly(z, o)
  PROVE  Kept'
<1>1. /\ todo'[t] = z /\ \A u \in Tasks : u # t => todo'[u] = todo[u]
      /\ holder' = holder /\ owner' = owner /\ intent' = intent /\ status' = status
      /\ todo[t] = <<>>
  BY DEF Fits, TypeOK, pool, database, Working
<1>2. ~ Holds(t) /\ intent[t] = NoIntent
  <2>1. ~ Inside(todo[t], 1)
    BY <1>1 DEF Inside
  <2> QED
    BY <2>1 DEF Kept, Brackets, OpenWrites
<1>3. Brackets' /\ OpenWrites'
  <2>1. \A u \in Tasks : Holds(u)' <=> Holds(u)
    BY <1>1 DEF Holds
  <2> QED
    BY <1>1, <1>2, <2>1 DEF Kept, Brackets, OpenWrites
<1>4. ASSUME NEW u \in Tasks, NEW o \in Orders, Enters(u, o)'
      PROVE  Enters(u, o) \/ (u = t /\ o \notin ordered /\ o \in ordered')
  <2>1. CASE u # t
    BY <1>1, <1>4, <2>1 DEF Enters
  <2>2. CASE u = t
    <3>1. PICK j \in DOMAIN z : z[j].to = "PENDING" /\ z[j].on = o
      BY <1>1, <1>2, <1>4, <2>2 DEF Enters, NoIntent
    <3> QED
      BY <2>2, <3>1 DEF Unentering, EntersOnly
  <2> QED
    BY <2>1, <2>2
<1>5. EnteredOnce'
  <2>1. ASSUME NEW u \in Tasks, NEW o \in Orders, Enters(u, o)'
        PROVE  o \in ordered' /\ status'[o] = "NONE"
    BY <1>1, <1>4, <2>1 DEF Kept, EnteredOnce, ArrivedFirst
  <2>2. ASSUME NEW u \in Tasks, NEW v \in Tasks, NEW o \in Orders,
               Enters(u, o)', Enters(v, o)'
        PROVE  u = v
    BY <1>4, <2>2 DEF Kept, EnteredOnce
  <2>3. ASSUME NEW u \in Tasks, intent'[u].to = "PENDING"
        PROVE  \A j \in DOMAIN todo'[u] : todo'[u][j].to # "PENDING"
    BY <1>1, <1>2, <2>3 DEF Kept, EnteredOnce, NoIntent
  <2> QED
    BY <2>1, <2>2, <2>3 DEF EnteredOnce
<1>6. \A u \in Tasks, o \in Orders : Spawns(u, o)' => Spawns(u, o)
  BY <1>1 DEF Spawns, Unspawning
<1>7. \A o \in Orders : Working(o)' => Working(o)
  BY <1>1 DEF Working, Tasks
<1>8. SoldOnce' /\ ClaimsLocked'
  BY <1>1, <1>6, <1>7 DEF Kept, SoldOnce, ClaimsLocked
<1>9. ArrivedFirst'
  BY <1>1 DEF Kept, ArrivedFirst, Working, Tasks
<1> QED
  BY <1>3, <1>5, <1>8, <1>9 DEF Kept

LEMMA ArrivalKeeps ==
  ASSUME Fits, Kept,
         \/ \E r \in Requests, o \in Orders : ArriveCheckout(r, o)
         \/ \E r \in Requests : \E handler \in Notifications : ArriveNotification(r, handler)
         \/ SweeperTick
         \/ \E o \in batch : \E types \in LineOrders(o) : ExpireNext(o, types)
  PROVE  Kept'
<1>0. /\ Sweeper \in Tasks \ Orders /\ Sweeper \notin Requests /\ batch \subseteq Orders
      /\ \A r \in Requests : r \in Tasks \ Orders /\ (r \notin arrived => ~ Working(r))
  BY ApiProcessAssumption DEF Fits, TypeOK, Tasks, Kept, ArrivedFirst
<1>1. ASSUME NEW r \in Requests, NEW o \in Orders, ArriveCheckout(r, o)
      PROVE  Kept'
  BY <1>0, <1>1, ScriptsShaped, AssignmentKeeps DEF ArriveCheckout
<1>2. ASSUME NEW r \in Requests, NEW handler \in Notifications, ArriveNotification(r, handler)
      PROVE  Kept'
  BY <1>0, <1>2, NotificationsShaped, AssignmentKeeps DEF ArriveNotification
<1>3. ASSUME SweeperTick
      PROVE  Kept'
  <2>1. Shaped(<<DueForExpiry>>) /\ Unspawning(<<DueForExpiry>>) /\ Unentering(<<DueForExpiry>>)
    BY DEF Shaped, Unspawning, Unentering, DueForExpiry, On, Inside
  <2> QED
    BY <1>0, <1>3, <2>1, AssignmentKeeps DEF SweeperTick, requests
<1>4. ASSUME NEW o \in batch, NEW types \in LineOrders(o), ExpireNext(o, types)
      PROVE  Kept'
  BY <1>0, <1>4, ScriptsShaped, AssignmentKeeps DEF ExpireNext, requests
<1> QED
  BY <1>1, <1>2, <1>3, <1>4

(* The goroutines keep to their scripts in every reachable state, for any  *)
(* pool, any number of requests and any carts.                             *)
THEOREM ScriptsAreKept == Spec => []Kept
<1>1. Init => Kept
  <2> SUFFICES ASSUME Init PROVE Kept
    OBVIOUS
  <2>1. \A t \in Tasks : todo[t] = <<>> /\ intent[t] = NoIntent /\ ~ Holds(t)
    <3>1. \A t \in Tasks : t # NoTask
      BY ApiProcessAssumption DEF Tasks
    <3> QED
      BY <3>1 DEF Init, Holds
  <2>2. \A o \in Orders : status[o] # "NONE" => o \in ordered
    BY DEF Init
  <2>3. \A t \in Tasks, o \in Orders : ~ Enters(t, o) /\ ~ Spawns(t, o)
    BY <2>1 DEF Enters, Spawns, NoIntent
  <2> QED
    BY <2>1, <2>2, <2>3, NothingShaped
    DEF Kept, Brackets, OpenWrites, ArrivedFirst, EnteredOnce, ClaimsLocked, SoldOnce, Working,
        NoIntent, Tasks
<1>2. Inv /\ Kept /\ [Next]_vars => Kept'
  <2> SUFFICES ASSUME Fits, Kept, [Next]_vars PROVE Kept'
    BY DEF Inv
  <2>1. ASSUME NEW t \in Tasks, Step(t) \/ CommitUnanswered(t)
        PROVE  Kept'
    BY <2>1, StatementKeeps, CommitKeeps, FulfilAsyncKeeps
  <2>2. ASSUME UNCHANGED <<todo, pool, database, requests>>
        PROVE  Kept'
    BY <2>2
    DEF Kept, Brackets, OpenWrites, ArrivedFirst, EnteredOnce, ClaimsLocked, SoldOnce, Enters,
        Spawns, Holds, Working, pool, database, requests
  <2>3. \/ Boot \/ BootFails \/ ListenFails \/ Signal
        \/ Shutdown \/ ShutdownTimesOut \/ WaitForFulfillment \/ ClosePool
        \/ (\E t \in Tasks : ContextEnds(t)) \/ UNCHANGED vars
        => UNCHANGED <<todo, pool, database, requests>>
    BY DEF Boot, BootFails, ListenFails, ReturnError, Signal, Shutdown, ShutdownTimesOut,
           WaitForFulfillment, ClosePool, ContextEnds, vars
  <2> QED
    BY <2>1, <2>2, <2>3, ArrivalKeeps DEF Next, Terminated
<1> QED
  BY <1>1, <1>2, ProcessInvariant, PTL DEF Spec

(* NothingLeaks, for a pool of any size, any number of requests and any    *)
(* carts: a goroutine that has come to its end, however it failed on the   *)
(* way, has left neither a lock nor a connection behind.                   *)
THEOREM NothingIsLeaked == Spec => []NothingLeaks
<1>1. Inv /\ Kept => NothingLeaks
  <2> SUFFICES ASSUME Inv, Kept PROVE NothingLeaks
    OBVIOUS
  <2>1. ASSUME NEW c \in Connections, holder[c] # NoTask
        PROVE  Working(holder[c])
    <3>1. holder[c] \in Tasks /\ Holds(holder[c])
      BY <2>1 DEF Inv, Fits, TypeOK, Holds
    <3>2. Inside(todo[holder[c]], 1)
      BY <3>1 DEF Kept, Brackets
    <3> QED
      BY <3>2 DEF Inside, Working
  <2> QED
    BY <2>1 DEF NothingLeaks, Inv, LocksAreHeld
<1> QED
  BY <1>1, ProcessInvariant, ScriptsAreKept, PTL

(* OrdersSettleOnce: however their statements interleave, any number of     *)
(* requests, sweeps and fulfilments on a pool of any size do to an order    *)
(* what they would do one after the other: CreateOrder enters it once       *)
(* and applyOutcome settles it once.                                        *)
THEOREM SettledOnce == Spec => OrdersSettleOnce
<1>1. Inv /\ Kept /\ [Next]_vars => [\A o \in Orders : StatusMoves(o)]_vars
  <2> SUFFICES ASSUME Fits, Kept, [Next]_vars, NEW o \in Orders
               PROVE  StatusMoves(o)
    BY DEF Inv
  <2>1. ASSUME NEW t \in Tasks, Apply(intent[t])
        PROVE  StatusMoves(o)
    <3>1. status \in [Orders -> OrderStatuses]
      BY DEF Fits, TypeOK
    <3> QED
      BY <2>1, <3>1, CommitSettles DEF StatusMoves
  <2>2. \/ status' = status
        \/ \E t \in Tasks : CommitTx(t) \/ CommitUnanswered(t)
    BY DEF Next, Terminated, vars, database, Boot, BootFails, ListenFails, ReturnError, Signal,
           Shutdown, ShutdownTimesOut, WaitForFulfillment, ClosePool, ContextEnds,
           ArriveCheckout, ArriveNotification, SweeperTick, ExpireNext, Step, BeginTx, Query,
           PoolClosed, Lock, Write, Claim, StatementFails, Call, CallFails, FulfilAsync,
           DeadlockAbort, Rollback
  <2> QED
    BY <2>1, <2>2 DEF StatusMoves, CommitTx, CommitUnanswered
<1> QED
  BY <1>1, ProcessInvariant, ScriptsAreKept, PTL DEF Spec, OrdersSettleOnce
=============================================================================
