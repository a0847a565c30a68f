----------------------------- MODULE ApiProcess -----------------------------
(***************************************************************************)
(* The API process as its goroutines see it: cmd/api/main.go starts it,    *)
(* serves, drains and stops it; the request handlers, the expiry sweeper   *)
(* and the post-payment goroutines share one bounded pool of database      *)
(* connections and contend for row locks.                                  *)
(*                                                                         *)
(* OrderLifecycle takes every transaction as one step.  Here a transaction *)
(* is opened up into the statements that wait: taking a connection, taking *)
(* a row lock, borrowing a second connection, committing.  What the        *)
(* statements compute is left to OrderLifecycle; only the status of an     *)
(* order is kept, because it decides which statements follow.              *)
(***************************************************************************)
EXTENDS Naturals, Sequences, FiniteSets

CONSTANTS
  Connections,  \* the pool's connections (pgxpool's MaxConns of them)
  Requests,     \* HTTP requests that may arrive
  Orders,       \* order numbers
  TicketTypes,  \* rows of ticket_types
  Cart,         \* Cart[o]: the ticket types of order o as the client lists them
  Sweeper,      \* the sweeper goroutine
  NoTask        \* nobody

(* With a single connection the first expiry would wait for itself: pgxpool's
   default is at least four. *)
ASSUME ApiProcessAssumption ==
  /\ IsFiniteSet(Connections) /\ Cardinality(Connections) >= 2
  /\ IsFiniteSet(Requests) /\ IsFiniteSet(Orders)
  /\ Cart \in [Orders -> Seq(TicketTypes)]
  /\ Requests \cap Orders = {}
  /\ Orders \cap TicketTypes = {}
  /\ Sweeper \notin Requests \cup Orders
  /\ NoTask \notin Requests \cup Orders \cup TicketTypes \cup {Sweeper}

VARIABLES
  phase,      \* where run() is
  code,       \* the exit code run() leaves with
  todo,       \* todo[t]: the statements goroutine t still has to run
  holder,     \* holder[c]: the goroutine that holds connection c
  owner,      \* owner[x]: the goroutine whose transaction has row x locked
  intent,     \* intent[t]: the order write of t's open transaction
  status,     \* orders.status as committed
  dated,      \* orders whose payment_expires_at is recorded
  batch,      \* due orders the current sweep has not handled yet
  cancelled,  \* goroutines whose context has ended
  arrived,    \* requests that have arrived
  ordered     \* orders some checkout has drawn a number for

process  == <<phase, code>>
requests == <<arrived, ordered>>
pool     == <<holder, owner, intent>>
database == <<status, dated>>
vars     == <<process, requests, pool, database, todo, batch, cancelled>>

(* The post-payment goroutine of order o is named o: an order is sold once. *)
Tasks == Requests \cup Orders \cup {Sweeper}
Rows  == Orders \cup TicketTypes

Phases ==
  {"starting",   \* configuration, tracing, pool
   "serving",
   "draining",   \* in e.Shutdown: no new request, the running ones go on
   "waiting",    \* in WaitForFulfillment
   "closing",    \* in the deferred pool.Close
   "exited"}

OrderStatuses == {"NONE", "PENDING", "PAID", "RELEASED"}

NoIntent == [on |-> NoTask, to |-> "NONE"]

Intents == [on : Orders, to : OrderStatuses \cup {"DATED"}] \cup {NoIntent}

Statements ==
  [do : {"begin", "lock", "write", "claim", "query", "commit", "call", "spawn"},
   on : Rows \cup {NoTask}, to : OrderStatuses \cup {"DATED"}]

Working(t) == todo[t] # <<>>

Init ==
  /\ phase = "starting"
  /\ code = 0
  /\ todo = [t \in Tasks |-> <<>>]
  /\ holder = [c \in Connections |-> NoTask]
  /\ owner = [x \in Rows |-> NoTask]
  /\ intent = [t \in Tasks |-> NoIntent]
  /\ status \in [Orders -> {"NONE", "PENDING"}]
  /\ dated = {o \in Orders : status[o] = "PENDING"}
  /\ batch = {}
  /\ cancelled = {}
  /\ arrived = {}
  /\ ordered = dated

-----------------------------------------------------------------------------
(* The statements that may have to wait, named for the calls. *)

On(do, x) == [do |-> do, on |-> x, to |-> "NONE"]

Begin  == On("begin", NoTask)
Commit == On("commit", NoTask)

\* A read or write outside the transaction borrows a connection of its own.
OrderByNumber(o) == On("query", o)
CreatePayment(o) == On("query", o)
LineItems(o)     == On("query", o)
AttendeeIDs(o)   == On("query", o)
DueForExpiry     == On("query", NoTask)
OrderForDelivery(o) == On("query", o)

CreateTransaction(o) == On("call", o)
SendEmail(o)         == On("call", o)

UpdateStatusIfPending(o, to) == [do |-> "claim", on |-> o, to |-> to]

WriteOrder(o, to) == [do |-> "write", on |-> o, to |-> to]

\* CheckAndDeductQuota and RestoreQuota lock the ticket types of a list one
\* after the other.
LockTypes(types) == [i \in DOMAIN types |-> On("lock", types[i])]

(* order.Service.Checkout: TX1, the gateway call, TX2. *)
Checkout(o) ==
  <<Begin>> \o LockTypes(Cart[o]) \o
  <<WriteOrder(o, "PENDING"), Commit,
    CreateTransaction(o), Begin, WriteOrder(o, "DATED"), Commit>>

Compensate(o) ==
  <<Begin, UpdateStatusIfPending(o, "RELEASED")>> \o LockTypes(Cart[o]) \o <<Commit>>

\* The query for the line items has no ORDER BY.
LineOrders(o) == {Cart[o], [i \in DOMAIN Cart[o] |-> Cart[o][Len(Cart[o]) + 1 - i]]}

(* payment.Service.applyOutcome for an outcome that gives seats back: the line
   items are read from the pool while the transaction holds a connection. *)
Release(o, types) ==
  <<Begin, UpdateStatusIfPending(o, "RELEASED"), LineItems(o)>> \o LockTypes(types) \o <<Commit>>

(* ... and for a sale. *)
Sell(o) == <<Begin, UpdateStatusIfPending(o, "PAID"), Commit>>

HandleNotification(o, outcome) == <<OrderByNumber(o), CreatePayment(o)>> \o outcome

(* Ticket generation, then the email, then the flag on the order's row. *)
Fulfil(o) ==
  <<AttendeeIDs(o), Begin, Commit, OrderForDelivery(o), SendEmail(o),
    Begin, On("lock", o), Commit>>

(* A notification sells an order or gives its seats back. *)
Notifications ==
  UNION {{HandleNotification(o, Sell(o))}
         \cup {HandleNotification(o, Release(o, types)) : types \in LineOrders(o)} :
           o \in {p \in Orders : status[p] # "NONE"}}

-----------------------------------------------------------------------------
(* Start, service, shutdown: run(). *)

Boot ==
  /\ phase = "starting"
  /\ phase' = "serving"
  /\ UNCHANGED <<code, requests, pool, database, todo, batch, cancelled>>

(* A bad setting, an unreachable database. *)
BootFails ==
  /\ phase = "starting"
  /\ phase' = "exited" /\ code' = 1
  /\ UNCHANGED <<requests, pool, database, todo, batch, cancelled>>

(* return err: the deferred stopSweeper runs, then pool.Close. *)
ReturnError ==
  /\ phase' = "closing" /\ code' = 1
  /\ cancelled' = cancelled \cup {Sweeper}
  /\ UNCHANGED <<requests, pool, database, todo, batch>>

(* The port is taken, or the listener breaks down. *)
ListenFails == phase = "serving" /\ ReturnError

Signal ==
  /\ phase = "serving"
  /\ phase' = "draining"
  /\ UNCHANGED <<code, requests, pool, database, todo, batch, cancelled>>

(* e.Shutdown returns when no handler runs any more; stopSweeper follows. *)
Shutdown ==
  /\ phase = "draining"
  /\ \A r \in Requests : ~ Working(r)
  /\ phase' = "waiting"
  /\ cancelled' = cancelled \cup {Sweeper}
  /\ UNCHANGED <<code, requests, pool, database, todo, batch>>

(* ... or when its 30 seconds are over: run() returns the error and waits for
   no post-payment work. *)
ShutdownTimesOut ==
  /\ phase = "draining"
  /\ \E r \in Requests : Working(r)
  /\ ReturnError

\* Mutation of WaitForFulfillment: the wait is left out.
SkipFulfillment ==
  /\ phase = "waiting"
  /\ phase' = "closing"
  /\ UNCHANGED <<code, requests, pool, database, todo, batch, cancelled>>

WaitForFulfillment ==
  /\ phase = "waiting"
  /\ \A o \in Orders : ~ Working(o)
  /\ phase' = "closing"
  /\ UNCHANGED <<code, requests, pool, database, todo, batch, cancelled>>

(* pool.Close waits until every connection has been given back. *)
ClosePool ==
  /\ phase = "closing"
  /\ \A c \in Connections : holder[c] = NoTask
  /\ phase' = "exited"
  /\ UNCHANGED <<code, requests, pool, database, todo, batch, cancelled>>

-----------------------------------------------------------------------------
(* Work arrives: requests, the sweeper's ticks, fulfilments (Commit). *)

ArriveCheckout(r, o) ==
  /\ phase = "serving" /\ r \notin arrived /\ o \notin ordered
  /\ arrived' = arrived \cup {r}
  /\ ordered' = ordered \cup {o}
  /\ todo' = [todo EXCEPT ![r] = Checkout(o)]
  /\ UNCHANGED <<process, pool, database, batch, cancelled>>

ArriveNotification(r, handler) ==
  /\ phase = "serving" /\ r \notin arrived
  /\ arrived' = arrived \cup {r}
  /\ todo' = [todo EXCEPT ![r] = handler]
  /\ UNCHANGED <<process, ordered, pool, database, batch, cancelled>>

Running == phase \notin {"starting", "exited"}

(* When a tick and the cancellation are both ready, select takes either. *)
SweeperTick ==
  /\ Running /\ ~ Working(Sweeper) /\ batch = {}
  /\ todo' = [todo EXCEPT ![Sweeper] = <<DueForExpiry>>]
  /\ UNCHANGED <<process, requests, pool, database, batch, cancelled>>

(* One due order of the batch after the other; a failed one is skipped. *)
ExpireNext(o, types) ==
  /\ Running /\ ~ Working(Sweeper) /\ o \in batch
  /\ batch' = batch \ {o}
  /\ todo' = [todo EXCEPT ![Sweeper] = Release(o, types)]
  /\ UNCHANGED <<process, requests, pool, database, cancelled>>

\* Mutation of ContextEnds: handlers are cut loose from their clients.
ContextEndsForFulfilments(t) ==
  /\ Running /\ t \in Orders /\ Working(t) /\ t \notin cancelled
  /\ cancelled' = cancelled \cup {t}
  /\ UNCHANGED <<process, requests, pool, database, todo, batch>>

(* A client hangs up (all of them give up sometime); a fulfilment reaches its
   two minutes. *)
ContextEnds(t) ==
  /\ Running /\ t # Sweeper /\ Working(t) /\ t \notin cancelled
  /\ cancelled' = cancelled \cup {t}
  /\ UNCHANGED <<process, requests, pool, database, todo, batch>>

-----------------------------------------------------------------------------
(* One statement of goroutine t. *)

Ready(t, do) == Running /\ Working(t) /\ Head(todo[t]).do = do

\* The statements of a transaction run on its connection.
ReadyInTx(t, do) == Ready(t, do) /\ \E c \in Connections : holder[c] = t

Free == {c \in Connections : holder[c] = NoTask}

Advance(t) == todo' = [todo EXCEPT ![t] = Tail(@)]

Unheld(t) == [c \in Connections |-> IF holder[c] = t THEN NoTask ELSE holder[c]]

Unlocked(t) == [x \in Rows |-> IF owner[x] = t THEN NoTask ELSE owner[x]]

\* Mutation of EndTransaction: the connection goes back, the transaction on it
\* stays open.
ReturnOpen(t) ==
  /\ holder' = Unheld(t)
  /\ intent' = [intent EXCEPT ![t] = NoIntent]
  /\ UNCHANGED owner

EndTransaction(t) ==
  /\ holder' = Unheld(t)
  /\ owner' = Unlocked(t)
  /\ intent' = [intent EXCEPT ![t] = NoIntent]

\* Mutation of Rollback: an error path that forgets to roll back.
ReturnWithoutRollback(t) ==
  /\ todo' = [todo EXCEPT ![t] = <<>>]
  /\ UNCHANGED <<process, requests, pool, database, batch, cancelled>>

(* InTx returns the error after rolling back; nothing of the task follows. *)
Rollback(t) ==
  /\ EndTransaction(t)
  /\ todo' = [todo EXCEPT ![t] = <<>>]
  /\ UNCHANGED <<process, requests, database, batch, cancelled>>

(* A closing pool hands out no connection any more. *)
BeginTx(t) ==
  /\ Ready(t, "begin") /\ t \notin cancelled /\ phase # "closing"
  /\ \E c \in Free : holder' = [holder EXCEPT ![c] = t]
  /\ Advance(t)
  /\ UNCHANGED <<process, requests, owner, intent, database, batch, cancelled>>

\* What the sweeper's query may find due: the clock is not modelled.
Query(t) ==
  /\ Ready(t, "query") /\ t \notin cancelled /\ phase # "closing"
  /\ Free # {}
  /\ IF t = Sweeper /\ Head(todo[t]) = DueForExpiry
       THEN batch' \in SUBSET {o \in dated : status[o] = "PENDING"}
       ELSE UNCHANGED batch
  /\ Advance(t)
  /\ UNCHANGED <<process, requests, pool, database, cancelled>>

PoolClosed(t) ==
  /\ phase = "closing" /\ (Ready(t, "begin") \/ Ready(t, "query")) /\ Free # {}
  /\ Rollback(t)

Lockable(t, x) == owner[x] \in {NoTask, t}

Lock(t) ==
  /\ ReadyInTx(t, "lock") /\ Lockable(t, Head(todo[t]).on)
  /\ owner' = [owner EXCEPT ![Head(todo[t]).on] = t]
  /\ Advance(t)
  /\ UNCHANGED <<process, requests, holder, intent, database, batch, cancelled>>

Write(t) ==
  /\ ReadyInTx(t, "write") /\ Lockable(t, Head(todo[t]).on)
  /\ owner' = [owner EXCEPT ![Head(todo[t]).on] = t]
  /\ intent' = [intent EXCEPT ![t] = [on |-> Head(todo[t]).on, to |-> Head(todo[t]).to]]
  /\ Advance(t)
  /\ UNCHANGED <<process, requests, holder, database, batch, cancelled>>

\* Mutation of Claim: the status is compared before the wait for the row, when
\* the order's number was looked up, and not again after it.
ClaimUnchecked(t) ==
  LET s == Head(todo[t]) IN
  /\ ReadyInTx(t, "claim") /\ Lockable(t, s.on)
  /\ owner' = [owner EXCEPT ![s.on] = t]
  /\ intent' = [intent EXCEPT ![t] = [on |-> s.on, to |-> s.to]]
  /\ Advance(t)
  /\ UNCHANGED <<process, requests, holder, database, batch, cancelled>>

(* UPDATE ... WHERE status = 'PENDING' waits for whoever has the row, then
   looks at the status again; a settled order leaves nothing but the commit. *)
Claim(t) ==
  LET s == Head(todo[t]) IN
  /\ ReadyInTx(t, "claim") /\ Lockable(t, s.on)
  /\ IF status[s.on] = "PENDING"
       THEN /\ owner' = [owner EXCEPT ![s.on] = t]
            /\ intent' = [intent EXCEPT ![t] = [on |-> s.on, to |-> s.to]]
            /\ Advance(t)
       ELSE /\ todo' = [todo EXCEPT ![t] = <<Commit>>]
            /\ UNCHANGED <<owner, intent>>
  /\ UNCHANGED <<process, requests, holder, database, batch, cancelled>>

\* Mutation of Apply: recording the deadline writes the status as well.
ApplyToStatus(i) ==
  /\ status' = IF i = NoIntent THEN status ELSE [status EXCEPT ![i.on] = i.to]
  /\ dated' = IF i.to = "DATED" THEN dated \cup {i.on} ELSE dated

(* What a transaction's write means once it is committed. *)
Apply(i) ==
  /\ status' = IF i = NoIntent \/ i.to = "DATED" THEN status
                 ELSE [status EXCEPT ![i.on] = i.to]
  /\ dated' = IF i.to = "DATED" THEN dated \cup {i.on} ELSE dated

(* A sale is followed by fulfilAsync. *)
CommitTx(t) ==
  /\ ReadyInTx(t, "commit") /\ t \notin cancelled
  /\ Apply(intent[t])
  /\ EndTransaction(t)
  /\ todo' = [todo EXCEPT ![t] = IF intent[t].to = "PAID" THEN <<On("spawn", intent[t].on)>> ELSE Tail(@)]
  /\ UNCHANGED <<process, requests, batch, cancelled>>

(* The COMMIT reached the database, its answer did not come back: InTx
   reports an error for a transaction that took place. *)
CommitUnanswered(t) ==
  /\ ReadyInTx(t, "commit")
  /\ Apply(intent[t])
  /\ EndTransaction(t)
  /\ todo' = [todo EXCEPT ![t] = <<>>]
  /\ UNCHANGED <<process, requests, batch, cancelled>>

(* Every statement fails once its context has ended. *)
StatementFails(t) ==
  /\ \E do \in {"begin", "query", "lock", "write", "claim", "commit"} : Ready(t, do)
  /\ t \in cancelled
  /\ Rollback(t)

Call(t) ==
  /\ Ready(t, "call")
  /\ Advance(t)
  /\ UNCHANGED <<process, requests, pool, database, batch, cancelled>>

(* A failed CreateTransaction is compensated, a failed email is not. *)
CallFails(t) ==
  /\ Ready(t, "call")
  /\ todo' = [todo EXCEPT ![t] = IF t \in Requests THEN Compensate(Head(@).on) ELSE <<>>]
  /\ UNCHANGED <<process, requests, pool, database, batch, cancelled>>

FulfilAsync(t) ==
  LET o == Head(todo[t]).on IN
  /\ Ready(t, "spawn")
  /\ todo' = [todo EXCEPT ![t] = Tail(@), ![o] = Fulfil(o)]
  /\ UNCHANGED <<process, requests, pool, database, batch, cancelled>>

WaitsForRow(t) ==
  /\ \E do \in {"lock", "write", "claim"} : Ready(t, do)
  /\ ~ Lockable(t, Head(todo[t]).on)

Blocker(t) == owner[Head(todo[t]).on]

(* PostgreSQL aborts one transaction of a cycle of row locks. *)
DeadlockAbort(t) ==
  /\ \E S \in SUBSET Tasks :
       t \in S /\ \A u \in S : WaitsForRow(u) /\ Blocker(u) \in S
  /\ Rollback(t)

Step(t) ==
  \/ BeginTx(t) \/ Query(t) \/ PoolClosed(t)
  \/ Lock(t) \/ Write(t) \/ Claim(t)
  \/ CommitTx(t) \/ StatementFails(t)
  \/ Call(t) \/ CallFails(t) \/ FulfilAsync(t)
  \/ DeadlockAbort(t)

Terminated == phase = "exited" /\ UNCHANGED vars

Next ==
  \/ Boot \/ BootFails \/ ListenFails \/ Signal
  \/ Shutdown \/ ShutdownTimesOut \/ WaitForFulfillment \/ ClosePool
  \/ \E r \in Requests, o \in Orders : ArriveCheckout(r, o)
  \/ \E r \in Requests : \E handler \in Notifications : ArriveNotification(r, handler)
  \/ SweeperTick
  \/ \E o \in batch : \E types \in LineOrders(o) : ExpireNext(o, types)
  \/ \E t \in Tasks : ContextEnds(t) \/ CommitUnanswered(t) \/ Step(t)
  \/ Terminated

Spec == Init /\ [][Next]_vars

(* pgxpool serves waiting goroutines and PostgreSQL waiting transactions in
   turn, so what is possible again and again for a goroutine happens (SF).
   Calls return: the gateway client and the mail dialer have time-outs.
   Clients do not wait forever, fulfilments have their two minutes. *)
Fairness ==
  /\ WF_vars(Shutdown) /\ WF_vars(WaitForFulfillment) /\ WF_vars(ClosePool)
  /\ \A t \in Tasks : SF_vars(Step(t)) /\ WF_vars(ContextEnds(t))

FairSpec == Spec /\ Fairness

-----------------------------------------------------------------------------
(* Properties. *)

TypeOK ==
  /\ phase \in Phases /\ code \in {0, 1}
  /\ todo \in [Tasks -> Seq(Statements)]
  /\ holder \in [Connections -> Tasks \cup {NoTask}]
  /\ owner \in [Rows -> Tasks \cup {NoTask}]
  /\ intent \in [Tasks -> Intents]
  /\ status \in [Orders -> OrderStatuses]
  /\ dated \subseteq Orders /\ batch \subseteq Orders /\ ordered \subseteq Orders
  /\ cancelled \subseteq Tasks /\ arrived \subseteq Requests

(* A row lock belongs to an open transaction on a connection of the pool, and a
   goroutine that has come to its end, however it failed on the way, has left
   neither a lock nor a connection behind: a leaked one would be gone until the
   restart.  (db.InTx) *)
NothingLeaks ==
  /\ \A x \in Rows : owner[x] # NoTask => \E c \in Connections : holder[c] = owner[x]
  /\ \A c \in Connections : holder[c] # NoTask => Working(holder[c])

StatusMoves(o) ==
  \/ status'[o] = status[o]
  \/ status[o] = "NONE" /\ status'[o] = "PENDING"
  \/ status[o] = "PENDING" /\ status'[o] \in {"PAID", "RELEASED"}

(* Statement by statement the handlers do to an order what their transactions
   would do one after the other: a claim that waited behind another one looks
   at the status again, and TX2 writes beside whoever settled the order since
   TX1.  (UpdateStatusIfPending, UpdatePaymentDetails) *)
OrdersSettleOnce == [][\A o \in Orders : StatusMoves(o)]_vars

(* Exit code 0 means that every request and every post-payment goroutine,
   those a draining request started included, came to its end first.
   (main.go: e.Shutdown before WaitForFulfillment) *)
CleanExitCutsNothing ==
  phase = "exited" /\ code = 0 => \A t \in Requests \cup Orders : ~ Working(t)

SweeperBegins == \E c \in Connections : holder[c] # Sweeper /\ holder'[c] = Sweeper

(* While run() waits for post-payment work the sweeper opens no transaction
   any more, even if it is in the middle of a batch.  (main.go: stopSweeper) *)
StoppedSweeperOpensNothing ==
  [][SweeperBegins => phase \notin {"waiting", "closing"}]_vars

(* A signal ends in the end of the process, whatever the goroutines were
   waiting for: a row, a connection, or each other. *)
ShutdownTerminates == phase = "draining" ~> phase = "exited"

(* No sweep hangs: a cycle of row locks is broken by the database, a circular
   wait for connections by the client behind one of the goroutines, although
   the sweeper itself would wait forever. *)
EverySweepEnds == Working(Sweeper) ~> (~ Working(Sweeper) \/ phase = "exited")

\* A goroutine that holds a connection and cannot go on without another one.
WaitsForConnection(t) == Ready(t, "query") /\ Free = {}

(* What repository.go demands of a read inside a transaction, and what made it
   pass the transaction on: no set of goroutines holds the whole pool while
   each of them waits for a connection or for a row of another one. *)
PoolNeverDeadlocks ==
  ~ \E S \in SUBSET Tasks :
      /\ \A c \in Connections : holder[c] \in S
      /\ \A t \in S : WaitsForConnection(t) \/ (WaitsForRow(t) /\ Blocker(t) \in S)
=============================================================================
