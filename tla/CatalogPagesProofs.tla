------------------------- MODULE CatalogPagesProofs -------------------------
(***************************************************************************)
(* The safety of the catalogue and of the pages that read it, for any      *)
(* pages, events, types, orders, lines and number of admin requests.  The  *)
(* catalogue's invariant says what a row lock is worth: a row that a       *)
(* checkout has locked is there and has the seats, one that a deletion has *)
(* locked is there and belongs to the event, and once the foreign keys     *)
(* were checked no order can come to refer to it.  The catalogue keeps it  *)
(* while pages are read (the pages' specification implements               *)
(* CatalogAdmin), and what a page has read stays true because orders are   *)
(* never forgotten, their types are never deleted and an event stays one   *)
(* that was published.                                                     *)
(***************************************************************************)
EXTENDS CatalogPages, FiniteSetTheorems, TLAPS

(* What an order's transaction has locked.                                 *)
OrderLocks ==
  \A o \in Orders : \A t \in LockedBy(o) :
    /\ stage[o] \in {"reserving", "releasing"}
    /\ t \in Ordered(o)
    /\ Present(t)
    /\ stage[o] = "reserving" => quota[t] >= Lines[o][t]

(* What a deletion has locked, and for which event.                        *)
AdminLocks ==
  \A a \in Admins :
    /\ \A t \in LockedBy(a) :
         /\ admin[a].at \in {"locking", "unreferenced"}
         /\ t \in admin[a].types
         /\ Present(t)
    /\ admin[a].at \in {"locking", "unreferenced"} =>
         \A t \in admin[a].types : EventOf[t] \in admin[a].event
    /\ \A d, e \in admin[a].event : d = e
    /\ admin[a].at = "unreferenced" =>
         \A t \in LockedBy(a) : ~ Referenced(t)

Rows == TypeOK /\ OrderLocks /\ AdminLocks /\ OrdersKeepTypes /\ TypesKeepEvents

(* The set of seats that are out has a size.                               *)
Counted == \A t \in TicketTypes : IsFiniteSet(SeatsOut(t))

Inv == Rows /\ Counted /\ QuotaBalances

-----------------------------------------------------------------------------
(* A transaction is an order's or an admin's, never both, and None is no   *)
(* transaction.                                                            *)
LEMMA Transactions ==
  /\ \A o \in Orders, a \in Admins : o # a
  /\ \A x \in Orders \cup Admins : x # None
BY CatalogAssumption

(* The statements of checkouts and releases keep the rows in order.        *)
LEMMA OrderKeepsRows ==
  ASSUME Rows, OrderStep
  PROVE  Rows'
<1> USE CatalogAssumption, Transactions
<1> USE DEF Rows, TypeOK, OrderLocks, AdminLocks, OrdersKeepTypes, TypesKeepEvents,
            Present, LockedBy, Ordered, Referenced, Committed, Stages
<1>1. ASSUME NEW o \in Orders, NEW t \in TicketTypes, CheckAndDeductQuota(o, t)
      PROVE  Rows'
  BY <1>1 DEF CheckAndDeductQuota
<1>2. ASSUME NEW o \in Orders, NEW t \in TicketTypes, RestoreQuota(o, t)
      PROVE  Rows'
  BY <1>2 DEF RestoreQuota
<1>3. ASSUME NEW o \in Orders, CreateOrder(o)
      PROVE  Rows'
  <2>1. \A t \in TicketTypes : quota[t] - Lines[o][t] \in Nat
    BY <1>3 DEF CreateOrder
  <2>2. TypeOK'
    BY <1>3, <2>1 DEF CreateOrder, Unlocked
  <2>3. OrderLocks'
    BY <1>3 DEF CreateOrder, Unlocked
  <2>4. AdminLocks'
    BY <1>3 DEF CreateOrder, Unlocked
  <2>5. OrdersKeepTypes' /\ TypesKeepEvents'
    BY <1>3 DEF CreateOrder
  <2> QED
    BY <2>2, <2>3, <2>4, <2>5
<1>4. ASSUME NEW o \in Orders, ApplyOutcome(o)
      PROVE  Rows'
  BY <1>4 DEF ApplyOutcome, Unlocked
<1>5. ASSUME NEW o \in Orders, RollBack(o)
      PROVE  Rows'
  <2>1. CASE stage[o] = "reserving" /\ stage' = [stage EXCEPT ![o] = "none"]
    BY <1>5, <2>1 DEF RollBack, Unlocked
  <2>2. CASE stage[o] = "releasing" /\ stage' = [stage EXCEPT ![o] = "placed"]
    BY <1>5, <2>2 DEF RollBack, Unlocked
  <2> QED
    BY <1>5, <2>1, <2>2 DEF RollBack
<1> QED
  BY <1>1, <1>2, <1>3, <1>4, <1>5 DEF OrderStep

(* Creations and edits keep them.                                          *)
LEMMA EditKeepsRows ==
  ASSUME Rows, Counted, EditStep
  PROVE  Rows'
<1> USE CatalogAssumption, Transactions
<1> USE DEF Rows, TypeOK, OrderLocks, AdminLocks, OrdersKeepTypes, TypesKeepEvents,
            Present, LockedBy, Ordered, Referenced, Committed, RowStates, AdminSteps
<1>1. ASSUME NEW e \in Events, CreateEvent(e)
      PROVE  Rows'
  BY <1>1 DEF CreateEvent
<1>2. ASSUME NEW t \in TicketTypes, NEW q \in 0 .. MaxQuota, UpdateTicketType(t, q)
      PROVE  Rows'
  <2>1. q + Cardinality(SeatsOut(t)) \in Nat
    BY FS_CardinalityType DEF Counted
  <2>2. TypeOK'
    BY <1>2, <2>1 DEF UpdateTicketType
  <2>3. OrderLocks'
    BY <1>2 DEF UpdateTicketType
  <2> QED
    BY <1>2, <2>2, <2>3 DEF UpdateTicketType
<1>3. ASSUME NEW a \in Admins, NEW e \in Events, GetEventByID(a, e)
      PROVE  Rows'
  BY <1>3 DEF GetEventByID, Goto
<1>4. ASSUME NEW a \in Admins, NEW t \in TicketTypes, NEW q \in 0 .. MaxQuota,
             InsertTicketType(a, t, q)
      PROVE  Rows'
  BY <1>4 DEF InsertTicketType, Idle, Goto
<1> QED
  BY <1>1, <1>2, <1>3, <1>4 DEF EditStep

(* A step that changes nothing but what one admin request has read keeps   *)
(* the rows in order, if it is honest about the locks the request holds.   *)
LEMMA RequestMoves ==
  ASSUME Rows, NEW a \in Admins,
         NEW at \in AdminSteps, NEW ev \in SUBSET Events, NEW ts \in SUBSET TicketTypes,
         admin' = Goto(a, at, ev, ts),
         UNCHANGED <<event, type, quota, allocated, stage, lock>>,
         \A t \in LockedBy(a) : at \in {"locking", "unreferenced"} /\ t \in ts,
         at \in {"locking", "unreferenced"} => \A t \in ts : EventOf[t] \in ev,
         \A d, e \in ev : d = e,
         at = "unreferenced" => \A t \in LockedBy(a) : ~ Referenced(t)
  PROVE  Rows'
<1> USE DEF Rows, TypeOK, LockedBy, Present, Referenced, Committed, Ordered, Goto
<1>1. TypeOK'
  OBVIOUS
<1>2. OrderLocks'
  BY DEF OrderLocks
<1>3. AdminLocks'
  BY DEF AdminLocks
<1>4. OrdersKeepTypes' /\ TypesKeepEvents'
  BY DEF OrdersKeepTypes, TypesKeepEvents
<1> QED
  BY <1>1, <1>2, <1>3, <1>4

(* The steps of an event's deletion that only change what it has read.     *)
LEMMA DeletionKeepsRows ==
  ASSUME Rows, NEW a \in Admins,
         \/ HasOrdersForTicketTypes(a)
         \/ BeginDeleteTypes(a)
         \/ DeleteTypes(a)
         \/ \E t \in TicketTypes : LockType(a, t) /\ ~ Present(t)
  PROVE  Rows'
<1> DEFINE ev == admin[a].event
           ts == admin[a].types
<1>1. /\ ev \in SUBSET Events
      /\ ts \in SUBSET TicketTypes
      /\ \A d, e \in ev : d = e
      /\ \A t \in LockedBy(a) : admin[a].at \in {"locking", "unreferenced"} /\ t \in ts
      /\ admin[a].at \in {"locking", "unreferenced"} => \A t \in ts : EventOf[t] \in ev
  BY DEF Rows, TypeOK, AdminLocks
<1>2. /\ "guarded" \in AdminSteps
      /\ "locking" \in AdminSteps
      /\ "unreferenced" \in AdminSteps
  BY DEF AdminSteps
<1>3. CASE HasOrdersForTicketTypes(a)
  <2>1. /\ admin' = Goto(a, "guarded", ev, ts)
        /\ UNCHANGED <<event, type, quota, allocated, stage, lock>>
        /\ LockedBy(a) = {}
    BY <1>1, <1>3 DEF HasOrdersForTicketTypes
  <2> HIDE DEF ev, ts
  <2> QED
    BY <1>1, <1>2, <2>1, RequestMoves
<1>4. CASE BeginDeleteTypes(a)
  <2> DEFINE found == UNION {TypesOf(e) : e \in ev}
  <2>1. /\ admin' = Goto(a, "locking", ev, found)
        /\ UNCHANGED <<event, type, quota, allocated, stage, lock>>
        /\ LockedBy(a) = {}
    BY <1>1, <1>4 DEF BeginDeleteTypes
  <2>2. found \in SUBSET TicketTypes /\ \A t \in found : EventOf[t] \in ev
    BY DEF TypesOf
  <2> HIDE DEF ev, found
  <2> QED
    BY <1>1, <1>2, <2>1, <2>2, RequestMoves
<1>5. CASE DeleteTypes(a)
  <2>1. /\ admin' = Goto(a, "unreferenced", ev, ts)
        /\ UNCHANGED <<event, type, quota, allocated, stage, lock>>
        /\ LockedBy(a) = ts
        /\ admin[a].at = "locking"
        /\ \A t \in ts : ~ Referenced(t)
    BY <1>5 DEF DeleteTypes
  <2> HIDE DEF ev, ts
  <2> QED
    BY <1>1, <1>2, <2>1, RequestMoves
<1>6. ASSUME NEW t \in TicketTypes, LockType(a, t), ~ Present(t)
      PROVE  Rows'
  <2> DEFINE rest == ts \ {t}
  <2>1. /\ admin' = Goto(a, "locking", ev, rest)
        /\ UNCHANGED <<event, type, quota, allocated, stage, lock>>
        /\ admin[a].at = "locking"
        /\ lock[t] = None
    BY <1>6 DEF LockType
  <2>2. t \notin LockedBy(a)
    BY <2>1, Transactions DEF LockedBy
  <2>3. /\ rest \in SUBSET TicketTypes
        /\ \A u \in rest : EventOf[u] \in ev
        /\ \A u \in LockedBy(a) : u \in rest
    BY <1>1, <2>1, <2>2
  <2> HIDE DEF ev, rest
  <2> QED
    BY <1>1, <1>2, <2>1, <2>3, RequestMoves
<1> QED
  BY <1>3, <1>4, <1>5, <1>6

(* Deletions keep them: this is where the foreign keys are needed.         *)
LEMMA DeleteKeepsRows ==
  ASSUME Rows, DeleteStep
  PROVE  Rows'
<1> USE CatalogAssumption, Transactions
<1> USE DEF Rows, TypeOK, OrderLocks, AdminLocks, OrdersKeepTypes, TypesKeepEvents,
            Present, LockedBy, Ordered, Referenced, Committed, RowStates, AdminSteps
<1>1. ASSUME NEW a \in Admins, NEW t \in TicketTypes, HasOrdersForTicketType(a, t)
      PROVE  Rows'
  BY <1>1 DEF HasOrdersForTicketType, Goto
<1>2. ASSUME NEW a \in Admins, NEW t \in TicketTypes, DeleteTicketType(a, t)
      PROVE  Rows'
  BY <1>2 DEF DeleteTicketType, Idle, Goto
<1>3. ASSUME NEW a \in Admins, NEW t \in TicketTypes, LockType(a, t)
      PROVE  Rows'
  <2>1. CASE /\ Present(t)
             /\ lock' = [lock EXCEPT ![t] = a]
             /\ UNCHANGED admin
    BY <1>3, <2>1 DEF LockType
  <2>2. CASE ~ Present(t)
    <3>1. \E u \in TicketTypes : LockType(a, u) /\ ~ Present(u)
      BY <1>3, <2>2
    <3> QED
      BY <3>1, DeletionKeepsRows, Zenon
  <2> QED
    BY <1>3, <2>1, <2>2 DEF LockType
<1>4. ASSUME NEW a \in Admins, NEW e \in Events, ListTicketTypeIDs(a, e)
      PROVE  Rows'
  BY <1>4 DEF ListTicketTypeIDs, TypesOf, Goto
<1>5. ASSUME NEW a \in Admins, NEW e \in Events, DeleteEvent(a, e)
      PROVE  Rows'
  BY <1>5 DEF DeleteEvent, TypesOf, Idle, Goto, Unlocked
<1>6. ASSUME NEW a \in Admins,
             HasOrdersForTicketTypes(a) \/ BeginDeleteTypes(a) \/ DeleteTypes(a)
      PROVE  Rows'
  BY <1>6, DeletionKeepsRows, Zenon
<1>7. ASSUME NEW a \in Admins, Refuse(a)
      PROVE  Rows'
  BY <1>7 DEF Refuse, Idle, Goto, Unlocked
<1> QED
  BY <1>1, <1>2, <1>3, <1>4, <1>5, <1>6, <1>7 DEF DeleteStep

-----------------------------------------------------------------------------
(* A set and a disjoint set put together count for their sum.              *)
LEMMA DisjointCount ==
  ASSUME NEW S, NEW T, IsFiniteSet(S), IsFiniteSet(T), S \cap T = {}
  PROVE  /\ IsFiniteSet(S \cup T)
         /\ Cardinality(S \cup T) = Cardinality(S) + Cardinality(T)
<1>1. Cardinality(S \cap T) = 0
  BY FS_EmptySet
<1>2. Cardinality(S) \in Nat /\ Cardinality(T) \in Nat
  BY FS_CardinalityType
<1>3. /\ IsFiniteSet(S \cup T)
      /\ Cardinality(S \cup T) = Cardinality(S) + Cardinality(T) - Cardinality(S \cap T)
  BY FS_Union, Zenon
<1> QED
  BY <1>1, <1>2, <1>3

(* One order's seats of one type are as many as its line asks for.         *)
LEMMA LineCount ==
  ASSUME NEW o \in Orders, NEW t \in TicketTypes
  PROVE  /\ IsFiniteSet({o} \X (1 .. Lines[o][t]))
         /\ Cardinality({o} \X (1 .. Lines[o][t])) = Lines[o][t]
<1>1. Lines[o][t] \in Nat
  BY CatalogAssumption
<1>2. ASSUME NEW n \in Nat
      PROVE  IsFiniteSet(1 .. n) /\ Cardinality(1 .. n) = n
  <2>1. 1 \in Int /\ n \in Int
    OBVIOUS
  <2>2. IsFiniteSet(1 .. n) /\ Cardinality(1 .. n) = IF 1 > n THEN 0 ELSE n - 1 + 1
    BY <2>1, FS_Interval, Zenon
  <2> QED
    BY <2>2
<1>3. IsFiniteSet(1 .. Lines[o][t]) /\ Cardinality(1 .. Lines[o][t]) = Lines[o][t]
  BY <1>1, <1>2
<1>4. IsFiniteSet({o}) /\ Cardinality({o}) = 1
  BY FS_Singleton
<1>5. /\ IsFiniteSet({o} \X (1 .. Lines[o][t]))
      /\ Cardinality({o} \X (1 .. Lines[o][t]))
           = Cardinality({o}) * Cardinality(1 .. Lines[o][t])
  BY <1>3, <1>4, FS_Product, Zenon
<1>6. 1 * Lines[o][t] = Lines[o][t]
  BY <1>1
<1> QED
  BY <1>3, <1>4, <1>5, <1>6, Zenon

Out == {o \in Orders : stage[o] \in {"placed", "releasing"}}

(* A commit of a checkout adds its seats to those that are out.            *)
LEMMA CreateOrderCounts ==
  ASSUME Inv, NEW o \in Orders, CreateOrder(o), NEW t \in TicketTypes
  PROVE  /\ IsFiniteSet(SeatsOut(t)')
         /\ Cardinality(SeatsOut(t)') = Cardinality(SeatsOut(t)) + Lines[o][t]
<1> DEFINE mine == {o} \X (1 .. Lines[o][t])
<1>1. Out' = Out \cup {o} /\ o \notin Out
  BY DEF Inv, Rows, TypeOK, CreateOrder, Out, Stages
<1>2. SeatsOut(t)' = SeatsOut(t) \cup mine
  BY <1>1 DEF SeatsOut, Out
<1>3. SeatsOut(t) \cap mine = {}
  BY <1>1 DEF SeatsOut, Out
<1>4. IsFiniteSet(SeatsOut(t)) /\ IsFiniteSet(mine) /\ Cardinality(mine) = Lines[o][t]
  BY LineCount DEF Inv, Counted
<1> HIDE DEF mine
<1>5. /\ IsFiniteSet(SeatsOut(t) \cup mine)
      /\ Cardinality(SeatsOut(t) \cup mine) = Cardinality(SeatsOut(t)) + Cardinality(mine)
  BY <1>3, <1>4, DisjointCount, Zenon
<1> QED
  BY <1>2, <1>4, <1>5

(* A commit of a release takes exactly the order's own seats away.         *)
LEMMA ApplyOutcomeCounts ==
  ASSUME Inv, NEW o \in Orders, ApplyOutcome(o), NEW t \in TicketTypes
  PROVE  /\ IsFiniteSet(SeatsOut(t)')
         /\ Cardinality(SeatsOut(t)) = Cardinality(SeatsOut(t)') + Lines[o][t]
<1> DEFINE mine == {o} \X (1 .. Lines[o][t])
<1>1. Out' = Out \ {o} /\ o \in Out
  BY DEF Inv, Rows, TypeOK, ApplyOutcome, Out, Stages
<1>2. SeatsOut(t) = SeatsOut(t)' \cup mine
  BY <1>1 DEF SeatsOut, Out
<1>3. SeatsOut(t)' \cap mine = {}
  BY <1>1 DEF SeatsOut, Out
<1>4. IsFiniteSet(mine) /\ Cardinality(mine) = Lines[o][t]
  BY LineCount
<1>5. IsFiniteSet(SeatsOut(t)')
  <2>1. SeatsOut(t)' \in SUBSET SeatsOut(t)
    BY <1>2
  <2> QED
    BY <2>1, FS_Subset DEF Inv, Counted
<1> HIDE DEF mine
<1>6. Cardinality(SeatsOut(t)' \cup mine) = Cardinality(SeatsOut(t)') + Cardinality(mine)
  BY <1>3, <1>4, <1>5, DisjointCount, Zenon
<1> QED
  BY <1>2, <1>4, <1>5, <1>6

(* No other step moves a seat.                                             *)
LEMMA OthersMoveNoSeat ==
  ASSUME Inv, Next \/ UNCHANGED vars,
         \A o \in Orders : ~ CreateOrder(o) /\ ~ ApplyOutcome(o)
  PROVE  \A t \in TicketTypes : SeatsOut(t)' = SeatsOut(t)
<1>1. \A o \in Orders : (o \in Out) <=> (o \in Out')
  <2>1. CASE UNCHANGED stage
    BY <2>1 DEF Out
  <2>2. ASSUME NEW o \in Orders, NEW t \in TicketTypes,
               CheckAndDeductQuota(o, t) \/ RestoreQuota(o, t)
        PROVE  \A p \in Orders : (p \in Out) <=> (p \in Out')
    BY <2>2 DEF CheckAndDeductQuota, RestoreQuota, Inv, Rows, TypeOK, Out
  <2>3. ASSUME NEW o \in Orders, RollBack(o)
        PROVE  \A p \in Orders : (p \in Out) <=> (p \in Out')
    BY <2>3 DEF RollBack, Inv, Rows, TypeOK, Out
  <2>4. EditStep => UNCHANGED stage
    BY DEF EditStep, CreateEvent, UpdateTicketType, GetEventByID, InsertTicketType
  <2>5. DeleteStep => UNCHANGED stage
    BY DEF DeleteStep, HasOrdersForTicketType, DeleteTicketType, LockType,
           ListTicketTypeIDs, DeleteEvent, HasOrdersForTicketTypes, BeginDeleteTypes,
           DeleteTypes, Refuse
  <2> QED
    BY <2>1, <2>2, <2>3, <2>4, <2>5 DEF Next, OrderStep, vars
<1>2. Out' = Out
  BY <1>1 DEF Out
<1> QED
  BY <1>2 DEF SeatsOut, Out

(* Each step balances: a commit moves as many seats as it moves quota, an   *)
(* edit resets both sides together, and while nobody has written a row its  *)
(* seats stay.                                                              *)
LEMMA StepBalances ==
  ASSUME Inv, Rows', [Next]_vars
  PROVE  (Counted /\ QuotaBalances)'
<1>0. ASSUME NEW t \in TicketTypes
      PROVE  /\ quota[t] \in Nat /\ allocated[t] \in Nat
             /\ Cardinality(SeatsOut(t)) \in Nat
             /\ quota[t] + Cardinality(SeatsOut(t)) = allocated[t]
             /\ \A o \in Orders : Lines[o][t] \in Nat
  BY FS_CardinalityType, CatalogAssumption DEF Inv, Rows, TypeOK, Counted, QuotaBalances
<1>1. SUFFICES ASSUME NEW t \in TicketTypes
               PROVE  /\ IsFiniteSet(SeatsOut(t)')
                      /\ quota'[t] + Cardinality(SeatsOut(t)') = allocated'[t]
  BY DEF Counted, QuotaBalances
<1>2. ASSUME NEW o \in Orders, CreateOrder(o)
      PROVE  /\ IsFiniteSet(SeatsOut(t)')
             /\ quota'[t] + Cardinality(SeatsOut(t)') = allocated'[t]
  <2>1. quota'[t] = quota[t] - Lines[o][t] /\ allocated'[t] = allocated[t]
    BY <1>2 DEF CreateOrder
  <2>2. /\ IsFiniteSet(SeatsOut(t)')
        /\ Cardinality(SeatsOut(t)') = Cardinality(SeatsOut(t)) + Lines[o][t]
    BY <1>2, CreateOrderCounts
  <2> QED
    BY <1>0, <2>1, <2>2
<1>3. ASSUME NEW o \in Orders, ApplyOutcome(o)
      PROVE  /\ IsFiniteSet(SeatsOut(t)')
             /\ quota'[t] + Cardinality(SeatsOut(t)') = allocated'[t]
  <2>1. quota'[t] = quota[t] + Lines[o][t] /\ allocated'[t] = allocated[t]
    BY <1>3 DEF ApplyOutcome
  <2>2. /\ IsFiniteSet(SeatsOut(t)')
        /\ Cardinality(SeatsOut(t)) = Cardinality(SeatsOut(t)') + Lines[o][t]
    BY <1>3, ApplyOutcomeCounts
  <2>3. Cardinality(SeatsOut(t)') \in Nat
    BY <2>2, FS_CardinalityType
  <2> QED
    BY <1>0, <2>1, <2>2, <2>3
<1>4. CASE \A o \in Orders : ~ CreateOrder(o) /\ ~ ApplyOutcome(o)
  <2>1. SeatsOut(t)' = SeatsOut(t) /\ IsFiniteSet(SeatsOut(t))
    BY <1>4, OthersMoveNoSeat DEF Inv, Counted
  <2>2. CASE quota' = quota /\ allocated' = allocated
    BY <1>0, <2>1, <2>2
  <2>3. ASSUME NEW u \in TicketTypes, NEW q \in 0 .. MaxQuota, UpdateTicketType(u, q)
        PROVE  quota'[t] + Cardinality(SeatsOut(t)') = allocated'[t]
    <3>1. CASE u = t
      BY <1>0, <2>1, <2>3, <3>1, CatalogAssumption DEF UpdateTicketType, Inv, Rows, TypeOK
    <3>2. CASE u # t
      BY <1>0, <2>1, <2>3, <3>2 DEF UpdateTicketType, Inv, Rows, TypeOK
    <3> QED
      BY <3>1, <3>2
  <2>4. ASSUME NEW a \in Admins, NEW u \in TicketTypes, NEW q \in 0 .. MaxQuota,
               InsertTicketType(a, u, q)
        PROVE  quota'[t] + Cardinality(SeatsOut(t)') = allocated'[t]
    <3>1. CASE u # t
      BY <1>0, <2>1, <2>4, <3>1 DEF InsertTicketType, Inv, Rows, TypeOK
    <3>2. CASE u = t
      <4>1. \A o \in Out : Lines[o][t] = 0
        <5> SUFFICES ASSUME NEW o \in Out, Lines[o][t] # 0 PROVE FALSE
          OBVIOUS
        <5>1. o \in Committed /\ t \in Ordered(o)
          BY <1>0 DEF Out, Committed, Ordered
        <5> QED
          BY <2>4, <3>2, <5>1 DEF InsertTicketType, Inv, Rows, OrdersKeepTypes, Present
      <4>2. \A o \in Out : 1 .. Lines[o][t] = {}
        BY <4>1
      <4>3. SeatsOut(t) = {}
        BY <4>2 DEF SeatsOut, Out
      <4>4. Cardinality(SeatsOut(t)) = 0
        BY <4>3, FS_EmptySet
      <4>5. quota'[t] = q /\ allocated'[t] = q /\ q \in Nat
        BY <2>4, <3>2, CatalogAssumption DEF InsertTicketType, Inv, Rows, TypeOK
      <4> QED
        BY <2>1, <4>4, <4>5
    <3> QED
      BY <3>1, <3>2
  <2>5. OrderStep => quota' = quota /\ allocated' = allocated
    BY <1>4 DEF OrderStep, CheckAndDeductQuota, RestoreQuota, RollBack
  <2>6. DeleteStep => quota' = quota /\ allocated' = allocated
    BY DEF DeleteStep, HasOrdersForTicketType, DeleteTicketType, LockType,
           ListTicketTypeIDs, DeleteEvent, HasOrdersForTicketTypes, BeginDeleteTypes,
           DeleteTypes, Refuse
  <2>7. CASE EditStep
    <3>1. ASSUME NEW e \in Events, CreateEvent(e)
          PROVE  quota' = quota /\ allocated' = allocated
      BY <3>1 DEF CreateEvent
    <3>2. ASSUME NEW a \in Admins, NEW e \in Events, GetEventByID(a, e)
          PROVE  quota' = quota /\ allocated' = allocated
      BY <3>2 DEF GetEventByID
    <3> QED
      BY <2>1, <2>2, <2>3, <2>4, <2>7, <3>1, <3>2 DEF EditStep
  <2> QED
    BY <2>1, <2>2, <2>5, <2>6, <2>7 DEF Next, vars
<1> QED
  BY <1>2, <1>3, <1>4

(* The invariant holds in every reachable state of the catalogue.          *)
THEOREM CatalogInvariant == Spec => []Inv
<1>1. Init => Inv
  <2> SUFFICES ASSUME Init PROVE Inv
    OBVIOUS
  <2>1. Rows
    BY Transactions
    DEF Init, Rows, TypeOK, OrderLocks, AdminLocks, OrdersKeepTypes, TypesKeepEvents,
        Present, LockedBy, Committed, RowStates, Stages, AdminSteps
  <2>2. \A t \in TicketTypes : SeatsOut(t) = {}
    BY DEF Init, SeatsOut
  <2>3. Counted /\ QuotaBalances
    <3>1. \A t \in TicketTypes : IsFiniteSet(SeatsOut(t)) /\ Cardinality(SeatsOut(t)) = 0
      BY <2>2, FS_EmptySet
    <3> QED
      BY <3>1 DEF Init, Counted, QuotaBalances
  <2> QED
    BY <2>1, <2>3 DEF Inv
<1>2. Inv /\ [Next]_vars => Inv'
  <2> SUFFICES ASSUME Inv, [Next]_vars PROVE Inv'
    OBVIOUS
  <2>1. Rows'
    <3>1. CASE UNCHANGED vars
      BY <3>1
      DEF Inv, Rows, vars, TypeOK, OrderLocks, AdminLocks, OrdersKeepTypes,
          TypesKeepEvents, Present, LockedBy, Committed, Referenced, Ordered
    <3> QED
      BY <3>1, OrderKeepsRows, EditKeepsRows, DeleteKeepsRows DEF Inv, Next
  <2> QED
    BY <2>1, StepBalances DEF Inv
<1> QED
  BY <1>1, <1>2, PTL DEF Spec

(* QuotaBalances for any history: what checkouts, releases and edits do to  *)
(* a quota adds up.                                                         *)
THEOREM CatalogBalances == Spec => []QuotaBalances
<1>1. Inv => QuotaBalances
  BY DEF Inv
<1> QED
  BY <1>1, CatalogInvariant, PTL

(* Nothing an order refers to is ever deleted, and no type outlives its     *)
(* event, however many requests and checkouts run together.                 *)
THEOREM CatalogKeepsRows == Spec => [](TypeOK /\ OrdersKeepTypes /\ TypesKeepEvents)
<1>1. Inv => TypeOK /\ OrdersKeepTypes /\ TypesKeepEvents
  BY DEF Inv, Rows
<1> QED
  BY <1>1, CatalogInvariant, PTL

(* EventsGoWhole: an event's types go one by one or with their event.       *)
THEOREM EventsWhole == Spec => EventsGoWhole
<1> DEFINE Whole ==
      \A e \in Events : event'[e] = "present" =>
        \A t, u \in TypesOf(e) : (~ Present(t)' /\ ~ Present(u)') => t = u
<1>1. Inv /\ [Next]_vars => [Whole]_vars
  <2> SUFFICES ASSUME Inv, Next,
                      NEW e \in Events, event'[e] = "present",
                      NEW t \in TypesOf(e), NEW u \in TypesOf(e),
                      ~ Present(t)', ~ Present(u)'
               PROVE  t = u
    BY DEF vars
  <2>1. type'[t] # type[t] /\ type'[u] # type[u] /\ t \in TicketTypes /\ u \in TicketTypes
    BY DEF TypesOf, Present
  <2>2. ~ OrderStep
    BY <2>1 DEF OrderStep, CheckAndDeductQuota, RestoreQuota, CreateOrder, ApplyOutcome, RollBack
  <2>3. ~ EditStep
    BY <2>1
    DEF EditStep, CreateEvent, UpdateTicketType, GetEventByID, InsertTicketType, TypesOf,
        Present, Inv, Rows, TypeOK
  <2>4. PICK a \in Admins :
          \/ \E s \in TicketTypes : DeleteTicketType(a, s)
          \/ \E d \in Events : DeleteEvent(a, d)
    BY <2>1, <2>2, <2>3
    DEF Next, DeleteStep, HasOrdersForTicketType, LockType, ListTicketTypeIDs,
        HasOrdersForTicketTypes, BeginDeleteTypes, DeleteTypes, Refuse
  <2>5. ASSUME NEW d \in Events, DeleteEvent(a, d)
        PROVE  FALSE
    <3>1. lock[t] = a
      BY <2>1, <2>5 DEF DeleteEvent
    <3>2. EventOf[t] = e /\ EventOf[t] \in admin[a].event /\ d \in admin[a].event
      BY <2>1, <2>5, <3>1 DEF DeleteEvent, Inv, Rows, AdminLocks, LockedBy, TypesOf
    <3>3. d = e
      BY <3>2 DEF Inv, Rows, AdminLocks
    <3> QED
      BY <2>5, <3>3 DEF DeleteEvent, Inv, Rows, TypeOK
  <2>6. ASSUME NEW s \in TicketTypes, DeleteTicketType(a, s)
        PROVE  t = u
    BY <2>1, <2>6 DEF DeleteTicketType, Inv, Rows, TypeOK
  <2> QED
    BY <2>4, <2>5, <2>6
<1> HIDE DEF Whole
<1>2. Spec => [][Whole]_vars
  BY <1>1, CatalogInvariant, PTL DEF Spec
<1> QED
  BY <1>2 DEF Whole, EventsGoWhole

-----------------------------------------------------------------------------
(* The seats ever sold of a type; Sold is their number.                    *)
SoldSeats(t) == UNION {{o} \X (1 .. Lines[o][t]) : o \in Committed}

SoldCounted == \A t \in TicketTypes : IsFiniteSet(SoldSeats(t))

(* What a page request may rely on at each of its steps.                   *)
PageOK(p) ==
  /\ p = [at |-> p.at, event |-> p.event, types |-> p.types, named |-> p.named,
          short |-> p.short, sold |-> p.sold]
  /\ p.at \in PageSteps /\ p.event \subseteq Events
  /\ p.types \subseteq TicketTypes /\ p.named \subseteq p.types
  /\ p.at \in {"listed", "sold"} => p.short \in [p.types -> Nat]
  /\ p.at = "sold" => p.sold \in [p.types -> Nat]
  /\ p.at = "listed" => \A t \in p.types : p.short[t] <= Sold(t)
  /\ p.at = "sold" => \A t \in p.types : p.sold[t] >= p.short[t]
  /\ p.at \in {"attendees", "lines"} => \A t \in p.types : Referenced(t)
  /\ p.at = "named" => p.named = p.types
  /\ p.at = "event" => p.event \subseteq published

PagesOK ==
  /\ page = [r \in Readers |-> page[r]]
  /\ \A r \in Readers : PageOK(page[r])

(* Only an event that was published once is on a guest's page, so its types *)
(* alone are ordered.                                                       *)
OnlyPublished ==
  /\ status \in [Events -> Statuses]
  /\ offered \subseteq TicketTypes
  /\ published \subseteq Events
  /\ \A e \in Events : status[e] = "PUBLISHED" => e \in published
  /\ \A t \in offered : EventOf[t] \in published
  /\ \A o \in Orders : stage[o] = "reserving" =>
       \A t \in LockedBy(o) : EventOf[t] \in published
  /\ \A o \in Committed : \A t \in Ordered(o) : EventOf[t] \in published

PagesInv == SoldCounted /\ PagesOK /\ OnlyPublished

-----------------------------------------------------------------------------
(* A step of the pages is a step of the catalogue or leaves it alone.      *)
LEMMA PagesStepIsCatalogStep ==
  ASSUME [PagesNext]_allVars
  PROVE  [Next]_vars
<1>1. ReadStep => UNCHANGED vars
  BY DEF ReadStep, GetPublishedEventBySlug, GetEventDetail, TicketTypeScope,
         ListOrderItemsByOrderID, ListTicketTypesByEventID, ListTicketTypesAdmin,
         SoldCountByTicketType, ListAttendeesAdmin, TicketTypeNames,
         TicketTypeDisplays, Respond, Show
<1>2. CheckoutStep => Next
  BY DEF CheckoutStep, Next
<1>3. AdminStep => Next
  BY DEF AdminStep, Next, EditStep
<1>4. ASSUME NEW e \in Events, NEW s \in Statuses, CreateEventAs(e, s) \/ UpdateEvent(e, s)
      PROVE  [Next]_vars
  BY <1>4 DEF CreateEventAs, UpdateEvent, Next, EditStep
<1> QED
  BY <1>1, <1>2, <1>3, <1>4 DEF PagesNext, allVars, vars

(* The pages' specification implements the catalogue's, so all that is      *)
(* proved of the catalogue holds while pages are read.                      *)
THEOREM PagesImplementCatalog == PagesSpec => Spec
<1>1. PagesInit => Init
  BY DEF PagesInit
<1> QED
  BY <1>1, PagesStepIsCatalogStep, PTL DEF PagesSpec, Spec

-----------------------------------------------------------------------------
(* Orders are never forgotten: a step adds one to the committed orders or   *)
(* none.                                                                    *)
LEMMA CommittedGrows ==
  ASSUME Inv, [Next]_vars
  PROVE  \/ Committed' = Committed
         \/ \E o \in Orders : Committed' = Committed \cup {o}
<1> USE DEF Committed
<1>1. CASE UNCHANGED stage
  BY <1>1
<1>2. CASE OrderStep
  <2>1. ASSUME NEW o \in Orders, NEW t \in TicketTypes,
               CheckAndDeductQuota(o, t) \/ RestoreQuota(o, t)
        PROVE  Committed' = Committed
    BY <2>1 DEF CheckAndDeductQuota, RestoreQuota, Inv, Rows, TypeOK
  <2>2. ASSUME NEW o \in Orders, CreateOrder(o)
        PROVE  Committed' = Committed \cup {o}
    BY <2>2 DEF CreateOrder, Inv, Rows, TypeOK
  <2>3. ASSUME NEW o \in Orders, ApplyOutcome(o) \/ RollBack(o)
        PROVE  Committed' = Committed
    BY <2>3 DEF ApplyOutcome, RollBack, Inv, Rows, TypeOK
  <2> QED
    BY <1>2, <2>1, <2>2, <2>3 DEF OrderStep
<1>3. EditStep => UNCHANGED stage
  BY DEF EditStep, CreateEvent, UpdateTicketType, GetEventByID, InsertTicketType
<1>4. DeleteStep => UNCHANGED stage
  BY DEF DeleteStep, HasOrdersForTicketType, DeleteTicketType, LockType,
         ListTicketTypeIDs, DeleteEvent, HasOrdersForTicketTypes, BeginDeleteTypes,
         DeleteTypes, Refuse
<1> QED
  BY <1>1, <1>2, <1>3, <1>4 DEF Next, vars

(* Sold counts a finite set, and the count never falls.                     *)
LEMMA SalesGrow ==
  ASSUME Inv, SoldCounted, [Next]_vars, NEW t \in TicketTypes
  PROVE  /\ IsFiniteSet(SoldSeats(t)')
         /\ Sold(t) \in Nat /\ Sold(t)' \in Nat /\ Sold(t) <= Sold(t)'
<1>1. Sold(t) = Cardinality(SoldSeats(t)) /\ IsFiniteSet(SoldSeats(t))
  BY DEF Sold, SoldSeats, SoldCounted
<1>2. Sold(t)' = Cardinality(SoldSeats(t)')
  BY DEF Sold, SoldSeats
<1>3. CASE Committed' = Committed
  <2>1. SoldSeats(t)' = SoldSeats(t)
    BY <1>3 DEF SoldSeats
  <2> QED
    BY <1>1, <1>2, <2>1, FS_CardinalityType
<1>4. ASSUME NEW o \in Orders, Committed' = Committed \cup {o}
      PROVE  /\ IsFiniteSet(SoldSeats(t)')
             /\ Sold(t) \in Nat /\ Sold(t)' \in Nat /\ Sold(t) <= Sold(t)'
  <2> DEFINE mine == {o} \X (1 .. Lines[o][t])
  <2>1. SoldSeats(t)' = SoldSeats(t) \cup mine
    BY <1>4 DEF SoldSeats
  <2>2. IsFiniteSet(mine)
    BY LineCount
  <2> HIDE DEF mine
  <2>3. IsFiniteSet(SoldSeats(t)')
    BY <1>1, <2>1, <2>2, FS_Union, Zenon
  <2>4. SoldSeats(t) \in SUBSET SoldSeats(t)'
    BY <2>1
  <2>5. Cardinality(SoldSeats(t)) <= Cardinality(SoldSeats(t)')
    BY <2>3, <2>4, FS_Subset
  <2> QED
    BY <1>1, <1>2, <2>3, <2>5, FS_CardinalityType
<1> QED
  BY <1>3, <1>4, CommittedGrows

(* No more seats are out than were ever sold.                               *)
LEMMA OutAreSold ==
  ASSUME Inv, SoldCounted, NEW t \in TicketTypes
  PROVE  /\ allocated[t] - quota[t] \in Nat
         /\ allocated[t] - quota[t] <= Sold(t)
<1>1. SeatsOut(t) \in SUBSET SoldSeats(t)
  BY DEF SeatsOut, SoldSeats, Committed
<1>2. IsFiniteSet(SoldSeats(t))
  BY DEF SoldCounted
<1>3. Cardinality(SeatsOut(t)) \in Nat /\ Cardinality(SeatsOut(t)) <= Cardinality(SoldSeats(t))
  BY <1>1, <1>2, FS_Subset, FS_CardinalityType
<1>4. /\ quota[t] \in Nat /\ allocated[t] \in Nat
      /\ quota[t] + Cardinality(SeatsOut(t)) = allocated[t]
  BY DEF Inv, Rows, TypeOK, QuotaBalances
<1>5. Sold(t) = Cardinality(SoldSeats(t))
  BY DEF Sold, SoldSeats
<1> QED
  BY <1>3, <1>4, <1>5

-----------------------------------------------------------------------------
(* What a page relies on stays true in a step that does not move the page.  *)
LEMMA PageKept ==
  ASSUME Inv, SoldCounted, [Next]_vars, published \subseteq published',
         NEW r \in Readers, PageOK(page[r]), page'[r] = page[r]
  PROVE  PageOK(page[r])'
<1> DEFINE p == page[r]
<1>1. ASSUME NEW t \in TicketTypes, Referenced(t)
      PROVE  Referenced(t)'
  <2>1. Committed \subseteq Committed'
    BY CommittedGrows
  <2> QED
    BY <1>1, <2>1 DEF Referenced, Ordered
<1>2. p.at \in {"attendees", "lines"} => \A t \in p.types : Referenced(t)'
  BY <1>1 DEF PageOK
<1>3. p.at = "listed" => \A t \in p.types : p.short[t] <= Sold(t)'
  <2> SUFFICES ASSUME p.at = "listed", NEW t \in p.types
               PROVE  p.short[t] <= Sold(t)'
    OBVIOUS
  <2>1. t \in TicketTypes /\ p.short[t] \in Nat /\ p.short[t] <= Sold(t)
    BY DEF PageOK
  <2>2. Sold(t) \in Nat /\ Sold(t)' \in Nat /\ Sold(t) <= Sold(t)'
    BY <2>1, SalesGrow
  <2> QED
    BY <2>1, <2>2
<1>4. p.at = "event" => p.event \subseteq published'
  BY DEF PageOK
<1>5. p' = p
  OBVIOUS
<1> HIDE DEF p
<1>6. PageOK(p)
  BY DEF p
<1>7. PageOK(p)'
  BY <1>2, <1>3, <1>4, <1>5, <1>6 DEF PageOK
<1> QED
  BY <1>7 DEF p

(* A read moves one page, to one that may rely on what it says.             *)
LEMMA ReadMovesPage ==
  ASSUME Inv, PagesInv, NEW r \in Readers, NEW p, Show(r, p), PageOK(p),
         offered' \in {offered, offered \cup UNION {TypesOf(e) : e \in page[r].event}},
         offered' # offered => page[r].at = "event"
  PROVE  PagesInv'
<1> USE DEF Show
<1>1. SoldCounted'
  BY DEF PagesInv, SoldCounted, SoldSeats, Committed, vars
<1>2. page' = [page EXCEPT ![r] = p]
  OBVIOUS
<1>3. page' = [q \in Readers |-> page'[q]] /\ page'[r] = p
  BY <1>2 DEF PagesInv, PagesOK
<1>4. ASSUME NEW q \in Readers
      PROVE  PageOK(page[q])'
  <2>1. CASE q = r
    <3>1. PageOK(page[q])' <=> PageOK(p)
      BY <1>3, <2>1 DEF PageOK, Sold, Referenced, Committed, vars
    <3> QED
      BY <3>1
  <2>2. CASE q # r
    <3>1. page'[q] = page[q]
      BY <1>2, <2>2 DEF PagesInv, PagesOK
    <3> QED
      BY <3>1, PageKept DEF PagesInv, PagesOK
  <2> QED
    BY <2>1, <2>2
<1>5. OnlyPublished'
  <2>1. offered' \subseteq TicketTypes /\ \A t \in offered' : EventOf[t] \in published
    BY DEF PagesInv, PagesOK, PageOK, OnlyPublished, TypesOf
  <2> QED
    BY <2>1 DEF PagesInv, OnlyPublished, Committed, LockedBy, vars
<1> QED
  BY <1>1, <1>3, <1>4, <1>5 DEF PagesInv, PagesOK

(* A page that has read nothing yet may rely on nothing.                    *)
LEMMA FreshPage ==
  ASSUME NEW at \in PageSteps, NEW ev \in SUBSET Events, NEW ts \in SUBSET TicketTypes,
         at \notin {"listed", "sold"},
         at \in {"attendees", "lines"} => \A t \in ts : Referenced(t),
         at = "named" => ts = {},
         at = "event" => ev \subseteq published
  PROVE  PageOK(Page(at, ev, ts))
BY DEF PageOK, Page, PageRow

(* The quotas of an event's types, with what they are short of.             *)
LEMMA ListedPage ==
  ASSUME Inv, SoldCounted, NEW ts \in SUBSET TicketTypes
  PROVE  PageOK(PageRow("listed", {}, ts, {}, [t \in ts |-> allocated[t] - quota[t]], <<>>))
<1> DEFINE gap == [t \in ts |-> allocated[t] - quota[t]]
<1>1. gap \in [ts -> Nat] /\ \A t \in ts : gap[t] <= Sold(t)
  BY OutAreSold
<1> HIDE DEF gap
<1>2. PageOK(PageRow("listed", {}, ts, {}, gap, <<>>))
  BY <1>1 DEF PageOK, PageRow, PageSteps
<1> QED
  BY <1>2 DEF gap

(* ... and what was sold of them, which is read later and not less.         *)
LEMMA SoldPage ==
  ASSUME Inv, SoldCounted, NEW p, PageOK(p), p.at = "listed"
  PROVE  PageOK(PageRow("sold", {}, p.types, {}, p.short, [t \in p.types |-> Sold(t)]))
<1> DEFINE sales == [t \in p.types |-> Sold(t)]
<1>1. sales \in [p.types -> Nat] /\ \A t \in p.types : sales[t] >= p.short[t]
  <2> SUFFICES ASSUME NEW t \in p.types
               PROVE  Sold(t) \in Nat /\ Sold(t) >= p.short[t]
    OBVIOUS
  <2>1. t \in TicketTypes /\ p.short[t] \in Nat /\ p.short[t] <= Sold(t)
    BY DEF PageOK
  <2>2. Sold(t) \in Nat
    BY <2>1, FS_CardinalityType DEF Sold, SoldCounted, SoldSeats
  <2> QED
    BY <2>1, <2>2
<1> HIDE DEF sales
<1>2. p.types \subseteq TicketTypes /\ p.short \in [p.types -> Nat]
  BY DEF PageOK
<1>3. PageOK(PageRow("sold", {}, p.types, {}, p.short, sales))
  BY <1>1, <1>2 DEF PageOK, PageRow, PageSteps
<1> QED
  BY <1>3 DEF sales

(* The names come last, and are all there: nothing referenced was deleted.  *)
LEMMA NamedPage ==
  ASSUME Inv, NEW p, PageOK(p), p.at \in {"attendees", "lines"},
         NEW ts, \/ ts = {t \in p.types : Present(t)}
                 \/ ts = {t \in p.types : Present(t) /\ event[EventOf[t]] = "present"}
  PROVE  PageOK(PageRow("named", {}, p.types, ts, <<>>, <<>>))
<1>1. ts = p.types /\ p.types \subseteq TicketTypes
  BY DEF PageOK, Referenced, Inv, Rows, OrdersKeepTypes
<1> QED
  BY <1>1 DEF PageOK, PageRow, PageSteps

(* Each read of a page keeps the invariant.                                 *)
LEMMA ReadKeepsPages ==
  ASSUME Inv, PagesInv, ReadStep
  PROVE  PagesInv'
<1> USE DEF PageSteps, Blank
<1>0. SoldCounted /\ \A r \in Readers : PageOK(page[r])
  BY DEF PagesInv, PagesOK
<1>1. ASSUME NEW r \in Readers, NEW e \in Events, GetPublishedEventBySlug(r, e)
      PROVE  PagesInv'
  <2>1. Show(r, Page("event", {e}, {})) /\ offered' = offered
    BY <1>1 DEF GetPublishedEventBySlug
  <2>2. {e} \subseteq published
    BY <1>1 DEF GetPublishedEventBySlug, PagesInv, OnlyPublished
  <2>3. PageOK(Page("event", {e}, {}))
    BY <2>2, FreshPage
  <2> QED
    BY <2>1, <2>3, ReadMovesPage
<1>2. ASSUME NEW r \in Readers, NEW e \in Events, GetEventDetail(r, e)
      PROVE  PagesInv'
  <2>1. Show(r, Page("detail", {e}, {})) /\ offered' = offered
    BY <1>2 DEF GetEventDetail
  <2>2. PageOK(Page("detail", {e}, {}))
    BY FreshPage
  <2> QED
    BY <2>1, <2>2, ReadMovesPage
<1>3. ASSUME NEW r \in Readers, NEW ts \in {TicketTypes} \cup {TypesOf(e) : e \in Events},
             TicketTypeScope(r, ts)
      PROVE  PagesInv'
  <2>1. Show(r, Page("scoped", {}, ts)) /\ offered' = offered
    BY <1>3 DEF TicketTypeScope
  <2>2. ts \in SUBSET TicketTypes
    BY DEF TypesOf
  <2>3. PageOK(Page("scoped", {}, ts))
    BY <2>2, FreshPage
  <2> QED
    BY <2>1, <2>3, ReadMovesPage
<1>4. ASSUME NEW r \in Readers, NEW o \in Orders, ListOrderItemsByOrderID(r, o)
      PROVE  PagesInv'
  <2>1. Show(r, Page("lines", {}, Ordered(o))) /\ offered' = offered
    BY <1>4 DEF ListOrderItemsByOrderID
  <2>2. Ordered(o) \in SUBSET TicketTypes /\ \A t \in Ordered(o) : Referenced(t)
    BY <1>4 DEF ListOrderItemsByOrderID, Ordered, Referenced
  <2>3. PageOK(Page("lines", {}, Ordered(o)))
    BY <2>2, FreshPage
  <2> QED
    BY <2>1, <2>3, ReadMovesPage
<1>5. ASSUME NEW r \in Readers, ListTicketTypesByEventID(r)
      PROVE  PagesInv'
  <2>1. /\ Show(r, Blank) /\ page[r].at = "event"
        /\ offered' = offered \cup UNION {TypesOf(e) : e \in page[r].event}
    BY <1>5 DEF ListTicketTypesByEventID
  <2>2. PageOK(Blank)
    BY FreshPage
  <2> QED
    BY <2>1, <2>2, ReadMovesPage
<1>6. ASSUME NEW r \in Readers, ListTicketTypesAdmin(r)
      PROVE  PagesInv'
  <2> DEFINE ts == UNION {TypesOf(e) : e \in page[r].event}
             p == PageRow("listed", {}, ts, {}, [t \in ts |-> allocated[t] - quota[t]], <<>>)
  <2>1. Show(r, p) /\ offered' = offered
    BY <1>6 DEF ListTicketTypesAdmin
  <2>2. ts \in SUBSET TicketTypes
    BY DEF TypesOf
  <2> HIDE DEF ts
  <2>3. PageOK(p)
    BY <1>0, <2>2, ListedPage
  <2> HIDE DEF p
  <2> QED
    BY <2>1, <2>3, ReadMovesPage
<1>7. ASSUME NEW r \in Readers, SoldCountByTicketType(r)
      PROVE  PagesInv'
  <2> DEFINE p == PageRow("sold", {}, page[r].types, {}, page[r].short,
                          [t \in page[r].types |-> Sold(t)])
  <2>1. Show(r, p) /\ offered' = offered /\ page[r].at = "listed"
    BY <1>7 DEF SoldCountByTicketType
  <2>2. PageOK(p)
    BY <1>0, <2>1, SoldPage
  <2> HIDE DEF p
  <2> QED
    BY <2>1, <2>2, ReadMovesPage
<1>8. ASSUME NEW r \in Readers, ListAttendeesAdmin(r)
      PROVE  PagesInv'
  <2> DEFINE ts == {t \in page[r].types : Referenced(t)}
  <2>1. Show(r, Page("attendees", {}, ts)) /\ offered' = offered
    BY <1>8 DEF ListAttendeesAdmin
  <2>2. ts \in SUBSET TicketTypes /\ \A t \in ts : Referenced(t)
    BY <1>0 DEF PageOK
  <2> HIDE DEF ts
  <2>3. PageOK(Page("attendees", {}, ts))
    BY <2>2, FreshPage
  <2> QED
    BY <2>1, <2>3, ReadMovesPage
<1>9. ASSUME NEW r \in Readers, TicketTypeNames(r) \/ TicketTypeDisplays(r)
      PROVE  PagesInv'
  <2>1. PICK ts : /\ \/ ts = {t \in page[r].types : Present(t)}
                     \/ ts = {t \in page[r].types : Present(t) /\ event[EventOf[t]] = "present"}
                  /\ Show(r, PageRow("named", {}, page[r].types, ts, <<>>, <<>>))
    BY <1>9 DEF TicketTypeNames, TicketTypeDisplays
  <2> DEFINE p == PageRow("named", {}, page[r].types, ts, <<>>, <<>>)
  <2>2. page[r].at \in {"attendees", "lines"} /\ offered' = offered
    BY <1>9 DEF TicketTypeNames, TicketTypeDisplays
  <2>3. PageOK(p)
    BY <1>0, <2>1, <2>2, NamedPage
  <2>4. Show(r, p)
    BY <2>1
  <2> HIDE DEF p
  <2> QED
    BY <2>2, <2>3, <2>4, ReadMovesPage
<1>10. ASSUME NEW r \in Readers, Respond(r)
       PROVE  PagesInv'
  <2>1. Show(r, Blank) /\ offered' = offered
    BY <1>10 DEF Respond
  <2>2. PageOK(Blank)
    BY FreshPage
  <2> QED
    BY <2>1, <2>2, ReadMovesPage
<1> QED
  BY <1>1, <1>2, <1>3, <1>4, <1>5, <1>6, <1>7, <1>8, <1>9, <1>10 DEF ReadStep

-----------------------------------------------------------------------------
(* The steps of the catalogue move no page.                                 *)
LEMMA PagesStay ==
  ASSUME Inv, PagesInv, [Next]_vars, page' = page, published \subseteq published'
  PROVE  SoldCounted' /\ PagesOK'
<1>1. SoldCounted'
  BY SalesGrow DEF PagesInv, SoldCounted
<1>2. PagesOK'
  BY PageKept DEF PagesInv, PagesOK
<1> QED
  BY <1>1, <1>2

(* A checkout orders what some page has offered, so nothing of a draft.     *)
LEMMA CheckoutKeepsPublished ==
  ASSUME Inv, PagesInv, CheckoutStep
  PROVE  OnlyPublished'
<1> USE DEF PagesInv, OnlyPublished, pageVars
<1>0. pageVars' = pageVars /\ TypeOK /\ OrderLocks
  BY DEF CheckoutStep, Inv, Rows
<1>1. ASSUME NEW o \in Orders, NEW t \in TicketTypes, CheckAndDeductQuota(o, t)
      PROVE  OnlyPublished'
  <2>1. lock[t] # o /\ lock'[t] = o /\ stage[o] \in {"none", "reserving"}
    BY <1>0, <1>1, Transactions DEF CheckAndDeductQuota, TypeOK
  <2>2. EventOf[t] \in published
    BY <2>1 DEF CheckoutStep, Deducts
  <2>3. Committed' = Committed
    BY <1>0, <1>1 DEF CheckAndDeductQuota, Committed, TypeOK
  <2>4. ASSUME NEW p \in Orders, stage'[p] = "reserving", NEW u \in TicketTypes, lock'[u] = p
        PROVE  EventOf[u] \in published
    <3>1. CASE u = t
      BY <2>2, <3>1
    <3>2. CASE u # t
      <4>1. lock[u] = p
        BY <1>0, <1>1, <2>4, <3>2 DEF CheckAndDeductQuota, TypeOK
      <4>2. stage[p] = "reserving"
        BY <1>0, <1>1, <2>4, <4>1 DEF CheckAndDeductQuota, TypeOK, OrderLocks, LockedBy
      <4> QED
        BY <4>1, <4>2 DEF LockedBy
    <3> QED
      BY <3>1, <3>2
  <2> QED
    BY <1>0, <2>3, <2>4 DEF Ordered, LockedBy
<1>2. ASSUME NEW o \in Orders, CreateOrder(o)
      PROVE  OnlyPublished'
  <2>1. Committed' = Committed \cup {o} /\ \A t \in Ordered(o) : EventOf[t] \in published
    BY <1>0, <1>2 DEF CreateOrder, Committed, TypeOK
  <2>2. ASSUME NEW p \in Orders, stage'[p] = "reserving", NEW u \in TicketTypes, lock'[u] = p
        PROVE  stage[p] = "reserving" /\ lock[u] = p
    BY <1>0, <1>2, <2>2, Transactions DEF CreateOrder, Unlocked, TypeOK
  <2> QED
    BY <1>0, <2>1, <2>2 DEF Ordered, LockedBy
<1>3. ASSUME NEW o \in Orders, NEW t \in TicketTypes,
             RestoreQuota(o, t) \/ ApplyOutcome(o) \/ RollBack(o)
      PROVE  OnlyPublished'
  <2>1. Committed' = Committed
    BY <1>0, <1>3 DEF RestoreQuota, ApplyOutcome, RollBack, Committed, TypeOK
  <2>2. ASSUME NEW p \in Orders, stage'[p] = "reserving", NEW u \in TicketTypes, lock'[u] = p
        PROVE  stage[p] = "reserving" /\ lock[u] = p
    BY <1>0, <1>3, <2>2, Transactions
    DEF RestoreQuota, ApplyOutcome, RollBack, Unlocked, TypeOK
  <2> QED
    BY <1>0, <2>1, <2>2 DEF Ordered, LockedBy
<1>4. CASE \E o \in Orders : ApplyOutcome(o) \/ RollBack(o)
  <2>1. PICK o \in Orders : ApplyOutcome(o) \/ RollBack(o)
    BY <1>4
  <2>2. Committed' = Committed
    BY <1>0, <2>1 DEF ApplyOutcome, RollBack, Committed, TypeOK
  <2>3. ASSUME NEW p \in Orders, stage'[p] = "reserving", NEW u \in TicketTypes, lock'[u] = p
        PROVE  stage[p] = "reserving" /\ lock[u] = p
    BY <1>0, <2>1, <2>3, Transactions DEF ApplyOutcome, RollBack, Unlocked, TypeOK
  <2> QED
    BY <1>0, <2>2, <2>3 DEF Ordered, LockedBy
<1> QED
  BY <1>1, <1>2, <1>3, <1>4 DEF CheckoutStep, OrderStep

(* Every other step of the catalogue leaves the orders' locks alone.        *)
LEMMA AdminKeepsPublished ==
  ASSUME Inv, PagesInv,
         \/ AdminStep
         \/ \E e \in Events, s \in Statuses : CreateEventAs(e, s) \/ UpdateEvent(e, s)
  PROVE  OnlyPublished' /\ page' = page /\ published \subseteq published'
<1>0. TypeOK /\ OnlyPublished
  BY DEF Inv, Rows, PagesInv
<1>1. /\ stage' = stage
      /\ \A o \in Orders : LockedBy(o)' \subseteq LockedBy(o)
  <2>1. ASSUME NEW a \in Admins, NEW t \in TicketTypes, LockType(a, t)
        PROVE  stage' = stage /\ \A o \in Orders : LockedBy(o)' \subseteq LockedBy(o)
    BY <1>0, <2>1, Transactions DEF LockType, LockedBy, TypeOK
  <2>2. ASSUME NEW a \in Admins, NEW e \in Events, DeleteEvent(a, e) \/ Refuse(a)
        PROVE  stage' = stage /\ \A o \in Orders : LockedBy(o)' \subseteq LockedBy(o)
    BY <1>0, <2>2, Transactions DEF DeleteEvent, Refuse, Unlocked, LockedBy, TypeOK
  <2>3. ASSUME NEW a \in Admins, Refuse(a)
        PROVE  stage' = stage /\ \A o \in Orders : LockedBy(o)' \subseteq LockedBy(o)
    BY <1>0, <2>3, Transactions DEF Refuse, Unlocked, LockedBy, TypeOK
  <2>4. DeleteStep =>
          \/ UNCHANGED <<stage, lock>>
          \/ \E a \in Admins, t \in TicketTypes : LockType(a, t)
          \/ \E a \in Admins : (\E e \in Events : DeleteEvent(a, e)) \/ Refuse(a)
    BY DEF DeleteStep, HasOrdersForTicketType, DeleteTicketType, ListTicketTypeIDs,
           HasOrdersForTicketTypes, BeginDeleteTypes, DeleteTypes
  <2>5. ASSUME NEW t \in TicketTypes, NEW q \in 0 .. MaxQuota,
               \/ UpdateTicketType(t, q)
               \/ \E a \in Admins : InsertTicketType(a, t, q)
        PROVE  UNCHANGED <<stage, lock>>
    BY <2>5 DEF UpdateTicketType, InsertTicketType
  <2>6. (\E a \in Admins, e \in Events : GetEventByID(a, e)) => UNCHANGED <<stage, lock>>
    BY DEF GetEventByID
  <2>7. AdminStep => DeleteStep \/ UNCHANGED <<stage, lock>>
    BY <2>5, <2>6 DEF AdminStep
  <2>8. (\E e \in Events, s \in Statuses : CreateEventAs(e, s) \/ UpdateEvent(e, s))
          => UNCHANGED <<stage, lock>>
    BY DEF CreateEventAs, CreateEvent, UpdateEvent, vars
  <2>9. UNCHANGED <<stage, lock>> =>
          stage' = stage /\ \A o \in Orders : LockedBy(o)' \subseteq LockedBy(o)
    BY DEF LockedBy
  <2> QED
    BY <2>1, <2>2, <2>3, <2>4, <2>7, <2>8, <2>9
<1>2. CASE UNCHANGED pageVars
  BY <1>0, <1>1, <1>2 DEF OnlyPublished, pageVars, Committed, Ordered
<1>3. ASSUME NEW e \in Events, NEW s \in Statuses, SetStatus(e, s),
             UNCHANGED <<offered, page>>
      PROVE  OnlyPublished' /\ page' = page /\ published \subseteq published'
  <2>1. published \subseteq published' /\ published' \subseteq Events
    BY <1>0, <1>3 DEF SetStatus, OnlyPublished
  <2>2. /\ status' \in [Events -> Statuses]
        /\ \A d \in Events : status'[d] = "PUBLISHED" => d \in published'
    BY <1>0, <1>3 DEF SetStatus, OnlyPublished
  <2> QED
    BY <1>0, <1>1, <1>3, <2>1, <2>2 DEF OnlyPublished, Committed, Ordered
<1> QED
  BY <1>2, <1>3 DEF AdminStep, CreateEventAs, UpdateEvent

-----------------------------------------------------------------------------
(* What pages have read is as good when they are answered.                  *)
THEOREM PagesInvariant == PagesSpec => []PagesInv
<1>1. PagesInit => PagesInv
  <2> SUFFICES ASSUME PagesInit PROVE PagesInv
    OBVIOUS
  <2>1. Committed = {} /\ \A o \in Orders : stage[o] # "reserving"
    BY DEF PagesInit, Init, Committed
  <2>2. SoldCounted
    <3>1. \A t \in TicketTypes : SoldSeats(t) = {}
      BY <2>1 DEF SoldSeats
    <3> QED
      BY <3>1, FS_EmptySet DEF SoldCounted
  <2>3. PageOK(Blank)
    BY FreshPage DEF Blank, PageSteps
  <2>4. PagesOK
    BY <2>3 DEF PagesOK, PagesInit
  <2>5. OnlyPublished
    BY <2>1 DEF OnlyPublished, PagesInit, Statuses
  <2> QED
    BY <2>2, <2>4, <2>5 DEF PagesInv
<1>2. Inv /\ PagesInv /\ [PagesNext]_allVars => PagesInv'
  <2> SUFFICES ASSUME Inv, PagesInv, [PagesNext]_allVars PROVE PagesInv'
    OBVIOUS
  <2>1. [Next]_vars
    BY PagesStepIsCatalogStep
  <2>2. CASE ReadStep
    BY <2>2, ReadKeepsPages
  <2>3. CASE CheckoutStep
    <3>1. page' = page /\ published \subseteq published'
      BY <2>3 DEF CheckoutStep, pageVars
    <3> QED
      BY <2>1, <2>3, <3>1, PagesStay, CheckoutKeepsPublished DEF PagesInv
  <2>4. CASE \/ AdminStep
             \/ \E e \in Events, s \in Statuses : CreateEventAs(e, s) \/ UpdateEvent(e, s)
    BY <2>1, <2>4, PagesStay, AdminKeepsPublished DEF PagesInv
  <2>5. CASE UNCHANGED allVars
    <3>1. page' = page /\ published \subseteq published' /\ OnlyPublished'
      BY <2>5
      DEF allVars, vars, pageVars, PagesInv, OnlyPublished, Committed, Ordered, LockedBy
    <3> QED
      BY <2>1, <3>1, PagesStay DEF PagesInv
  <2> QED
    BY <2>2, <2>3, <2>4, <2>5 DEF PagesNext
<1>3. PagesSpec => []Inv
  BY PagesImplementCatalog, CatalogInvariant, PTL
<1> QED
  BY <1>1, <1>2, <1>3, PTL DEF PagesSpec

(* PagesTypeOK for any catalogue: no page mixes up what it has read.        *)
THEOREM PagesTyped == PagesSpec => []PagesTypeOK
<1>1. Inv /\ PagesInv => PagesTypeOK
  BY DEF Inv, Rows, PagesInv, OnlyPublished, PagesOK, PageOK, PagesTypeOK
<1>2. PagesSpec => []Inv
  BY PagesImplementCatalog, CatalogInvariant, PTL
<1> QED
  BY <1>1, <1>2, PagesInvariant, PTL

(* ListedOrdersAreNamed: the name of every ordered ticket type is there,    *)
(* whatever was deleted between the two reads of a page.                    *)
THEOREM OrdersAreNamed == PagesSpec => []ListedOrdersAreNamed
<1>1. PagesInv => ListedOrdersAreNamed
  BY DEF PagesInv, PagesOK, PageOK, ListedOrdersAreNamed
<1> QED
  BY <1>1, PagesInvariant, PTL

(* SalesAreNotUnderreported: the sold count of an admin's page is never     *)
(* behind its quotas.                                                       *)
THEOREM SalesReported == PagesSpec => []SalesAreNotUnderreported
<1>1. PagesInv => SalesAreNotUnderreported
  BY DEF PagesInv, PagesOK, PageOK, SalesAreNotUnderreported
<1> QED
  BY <1>1, PagesInvariant, PTL

(* DraftsDoNotSell: no order for an event that was never published.         *)
THEOREM DraftsAreNotSold == PagesSpec => []DraftsDoNotSell
<1>1. PagesInv => DraftsDoNotSell
  BY DEF PagesInv, OnlyPublished, DraftsDoNotSell
<1> QED
  BY <1>1, PagesInvariant, PTL

(* The catalogue's own safety, while pages are read.                        *)
THEOREM PagesKeepCatalog ==
  PagesSpec => [](QuotaBalances /\ OrdersKeepTypes /\ TypesKeepEvents)
<1>1. Inv => QuotaBalances /\ OrdersKeepTypes /\ TypesKeepEvents
  BY DEF Inv, Rows
<1> QED
  BY <1>1, PagesImplementCatalog, CatalogInvariant, PTL
=============================================================================
