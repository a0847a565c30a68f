-------------------------- MODULE SeatLedgerProofs --------------------------
(***************************************************************************)
(* Conservation of seats, for any set of orders, ticket types, lines and   *)
(* quotas.  The invariant carries the finiteness of the set of seats that  *)
(* are out, without which their Cardinality would mean nothing.            *)
(***************************************************************************)
EXTENDS SeatLedger, FiniteSetTheorems, TLAPS

(* The ledger's variables keep their types: quota never goes negative.     *)
THEOREM LedgerType == Spec => []TypeOK
<1>1. Init => TypeOK
  BY OrderLinesAssumption DEF Init, TypeOK, Stages
<1>2. TypeOK /\ [Next]_ledger => TypeOK'
  <2> SUFFICES ASSUME TypeOK, [Next]_ledger PROVE TypeOK'
    OBVIOUS
  <2>1. ASSUME NEW o \in Orders, Hold(o) PROVE TypeOK'
    <3>1. \A t \in TicketTypes : free'[t] \in Nat
      <4> SUFFICES ASSUME NEW t \in TicketTypes PROVE free'[t] \in Nat
        OBVIOUS
      <4>1. Lines[o][t] \in Nat /\ free[t] \in Nat
        BY OrderLinesAssumption DEF TypeOK
      <4> QED
        BY <2>1, <4>1 DEF Hold
    <3> QED
      BY <2>1, <3>1 DEF Hold, TypeOK, Stages
  <2>2. ASSUME NEW o \in Orders, Sell(o) PROVE TypeOK'
    BY <2>2 DEF Sell, TypeOK, Stages
  <2>3. ASSUME NEW o \in Orders, Release(o) PROVE TypeOK'
    <3>1. \A t \in TicketTypes : free'[t] \in Nat
      <4> SUFFICES ASSUME NEW t \in TicketTypes PROVE free'[t] \in Nat
        OBVIOUS
      <4>1. Lines[o][t] \in Nat /\ free[t] \in Nat
        BY OrderLinesAssumption DEF TypeOK
      <4> QED
        BY <2>3, <4>1 DEF Release
    <3> QED
      BY <2>3, <3>1 DEF Release, TypeOK, Stages
  <2>4. CASE UNCHANGED ledger
    BY <2>4 DEF ledger, TypeOK
  <2> QED
    BY <2>1, <2>2, <2>3, <2>4 DEF Next
<1> QED
  BY <1>1, <1>2, PTL DEF Spec

-----------------------------------------------------------------------------
(* One order's seats of one type are as many as its line asks for.         *)
LEMMA SeatsOfCount ==
  ASSUME NEW o \in Orders, NEW t \in TicketTypes
  PROVE  /\ IsFiniteSet(SeatsOf(o, t))
         /\ Cardinality(SeatsOf(o, t)) = Lines[o][t]
<1>1. Lines[o][t] \in Nat
  BY OrderLinesAssumption
<1>2. IsFiniteSet(1 .. Lines[o][t]) /\ Cardinality(1 .. Lines[o][t]) = Lines[o][t]
  <2>1. ASSUME NEW n \in Nat
        PROVE  IsFiniteSet(1 .. n) /\ Cardinality(1 .. n) = n
    <3>1. 1 \in Int /\ n \in Int
      OBVIOUS
    <3>2. IsFiniteSet(1 .. n) /\ Cardinality(1 .. n) = IF 1 > n THEN 0 ELSE n - 1 + 1
      BY <3>1, FS_Interval, Zenon
    <3> QED
      BY <3>2
  <2> QED
    BY <1>1, <2>1
<1>3. IsFiniteSet({o}) /\ Cardinality({o}) = 1
  BY FS_Singleton
<1>4. /\ IsFiniteSet({o} \X (1 .. Lines[o][t]))
      /\ Cardinality({o} \X (1 .. Lines[o][t]))
           = Cardinality({o}) * Cardinality(1 .. Lines[o][t])
  BY <1>2, <1>3, FS_Product, Zenon
<1>5. 1 * Lines[o][t] = Lines[o][t]
  BY <1>1
<1> QED
  BY <1>2, <1>3, <1>4, <1>5, Zenon DEF SeatsOf

(* A set and a disjoint set put together count for their sum.              *)
LEMMA DisjointCount ==
  ASSUME NEW S, NEW T, IsFiniteSet(S), IsFiniteSet(T), S \cap T = {}
  PROVE  /\ IsFiniteSet(S \cup T)
         /\ Cardinality(S \cup T) = Cardinality(S) + Cardinality(T)
<1>1. Cardinality(S \cap T) = 0
  BY FS_EmptySet
<1>2. Cardinality(S) \in Nat /\ Cardinality(T) \in Nat
  BY FS_CardinalityType
<1>3. /\ IsFiniteSet(S \cup T)
      /\ Cardinality(S \cup T) = Cardinality(S) + Cardinality(T) - Cardinality(S \cap T)
  BY FS_Union, Zenon
<1> QED
  BY <1>1, <1>2, <1>3

LedgerInv ==
  /\ TypeOK
  /\ \A t \in TicketTypes : IsFiniteSet(SeatsOut(t))
  /\ SeatsConserved

(* An order that starts to hold adds its seats to those that are out.      *)
LEMMA HoldCounts ==
  ASSUME LedgerInv, NEW o \in Orders, Hold(o), NEW t \in TicketTypes
  PROVE  /\ IsFiniteSet(SeatsOut(t)')
         /\ Cardinality(SeatsOut(t)') = Cardinality(SeatsOut(t)) + Lines[o][t]
<1>1. Holders' = Holders \cup {o} /\ o \notin Holders
  BY DEF LedgerInv, TypeOK, Hold, Holders, Stages
<1>2. SeatsOut(t)' = SeatsOut(t) \cup SeatsOf(o, t)
  BY <1>1 DEF SeatsOut, SeatsOf
<1>3. SeatsOut(t) \cap SeatsOf(o, t) = {}
  BY <1>1 DEF SeatsOut, SeatsOf
<1>4. IsFiniteSet(SeatsOut(t))
  BY DEF LedgerInv
<1>5. IsFiniteSet(SeatsOf(o, t)) /\ Cardinality(SeatsOf(o, t)) = Lines[o][t]
  BY SeatsOfCount
<1>6. /\ IsFiniteSet(SeatsOut(t) \cup SeatsOf(o, t))
      /\ Cardinality(SeatsOut(t) \cup SeatsOf(o, t))
           = Cardinality(SeatsOut(t)) + Cardinality(SeatsOf(o, t))
  BY <1>3, <1>4, <1>5, DisjointCount, Zenon
<1> QED
  BY <1>2, <1>5, <1>6

(* An order that is released takes exactly its own seats away.             *)
LEMMA ReleaseCounts ==
  ASSUME LedgerInv, NEW o \in Orders, Release(o), NEW t \in TicketTypes
  PROVE  /\ IsFiniteSet(SeatsOut(t)')
         /\ Cardinality(SeatsOut(t)) = Cardinality(SeatsOut(t)') + Lines[o][t]
<1>1. Holders' = Holders \ {o} /\ o \in Holders
  BY DEF LedgerInv, TypeOK, Release, Holders, Stages
<1>2. SeatsOut(t) = SeatsOut(t)' \cup SeatsOf(o, t)
  BY <1>1 DEF SeatsOut, SeatsOf
<1>3. SeatsOut(t)' \cap SeatsOf(o, t) = {}
  BY <1>1 DEF SeatsOut, SeatsOf
<1>4. IsFiniteSet(SeatsOut(t)')
  <2>1. SeatsOut(t)' \in SUBSET SeatsOut(t)
    BY <1>2
  <2> QED
    BY <2>1, FS_Subset DEF LedgerInv
<1>5. IsFiniteSet(SeatsOf(o, t)) /\ Cardinality(SeatsOf(o, t)) = Lines[o][t]
  BY SeatsOfCount
<1>6. Cardinality(SeatsOut(t)' \cup SeatsOf(o, t))
        = Cardinality(SeatsOut(t)') + Cardinality(SeatsOf(o, t))
  BY <1>3, <1>4, <1>5, DisjointCount, Zenon
<1> QED
  BY <1>2, <1>4, <1>5, <1>6

(* Selling moves no seat.                                                  *)
LEMMA SellCounts ==
  ASSUME LedgerInv, NEW o \in Orders, Sell(o), NEW t \in TicketTypes
  PROVE  SeatsOut(t)' = SeatsOut(t)
<1>1. Holders' = Holders
  BY DEF LedgerInv, TypeOK, Sell, Holders, Stages
<1> QED
  BY <1>1 DEF SeatsOut, SeatsOf

(* The inductive invariant holds in every reachable state.                 *)
THEOREM LedgerInvariant == Spec => []LedgerInv
<1>1. Init => LedgerInv
  <2> SUFFICES ASSUME Init PROVE LedgerInv
    OBVIOUS
  <2>1. Holders = {}
    BY DEF Init, Holders
  <2>2. \A t \in TicketTypes : SeatsOut(t) = {}
    BY <2>1 DEF SeatsOut
  <2>3. TypeOK
    BY OrderLinesAssumption DEF Init, TypeOK, Stages
  <2>4. SeatsConserved
    <3> SUFFICES ASSUME NEW t \in TicketTypes
                 PROVE  free[t] + Cardinality(SeatsOut(t)) = Capacity[t]
      BY DEF SeatsConserved
    <3>1. Cardinality(SeatsOut(t)) = 0
      BY <2>2, FS_EmptySet
    <3>2. free[t] = Capacity[t] /\ Capacity[t] \in Nat
      BY OrderLinesAssumption DEF Init
    <3> QED
      BY <3>1, <3>2
  <2> QED
    BY <2>2, <2>3, <2>4, FS_EmptySet DEF LedgerInv
<1>2. LedgerInv /\ TypeOK' /\ [Next]_ledger => LedgerInv'
  <2> SUFFICES ASSUME LedgerInv, TypeOK', [Next]_ledger
               PROVE  /\ (\A t \in TicketTypes : IsFiniteSet(SeatsOut(t)))'
                      /\ SeatsConserved'
    BY DEF LedgerInv
  <2> USE DEF SeatsConserved
  <2>0. ASSUME NEW t \in TicketTypes
        PROVE  /\ free[t] \in Nat /\ Cardinality(SeatsOut(t)) \in Nat
               /\ free[t] + Cardinality(SeatsOut(t)) = Capacity[t]
    BY FS_CardinalityType DEF LedgerInv, TypeOK
  <2>1. ASSUME NEW o \in Orders, Hold(o), NEW t \in TicketTypes
        PROVE  IsFiniteSet(SeatsOut(t)') /\ free'[t] + Cardinality(SeatsOut(t)') = Capacity[t]
    <3>1. free'[t] = free[t] - Lines[o][t]
      BY <2>1 DEF Hold
    <3> QED
      BY <2>0, <2>1, <3>1, HoldCounts, OrderLinesAssumption
  <2>2. ASSUME NEW o \in Orders, Sell(o), NEW t \in TicketTypes
        PROVE  IsFiniteSet(SeatsOut(t)') /\ free'[t] + Cardinality(SeatsOut(t)') = Capacity[t]
    BY <2>0, <2>2, SellCounts DEF Sell, LedgerInv
  <2>3. ASSUME NEW o \in Orders, Release(o), NEW t \in TicketTypes
        PROVE  IsFiniteSet(SeatsOut(t)') /\ free'[t] + Cardinality(SeatsOut(t)') = Capacity[t]
    <3>1. free'[t] = free[t] + Lines[o][t]
      BY <2>3 DEF Release
    <3>2. IsFiniteSet(SeatsOut(t)') /\ Cardinality(SeatsOut(t)) = Cardinality(SeatsOut(t)') + Lines[o][t]
      BY <2>3, ReleaseCounts
    <3>3. Cardinality(SeatsOut(t)') \in Nat
      BY <3>2, FS_CardinalityType
    <3> QED
      BY <2>0, <3>1, <3>2, <3>3, OrderLinesAssumption
  <2>4. CASE UNCHANGED ledger
    BY <2>4 DEF ledger, LedgerInv, SeatsOut, SeatsOf, Holders
  <2> QED
    BY <2>1, <2>2, <2>3, <2>4 DEF Next
<1> QED
  BY <1>1, <1>2, LedgerType, PTL DEF Spec

(* SeatsConserved holds in every reachable state of the ledger: over any   *)
(* history, what checkouts deduct and what releases restore balance.       *)
THEOREM LedgerConserves == Spec => []SeatsConserved
<1>1. LedgerInv => SeatsConserved
  BY DEF LedgerInv
<1> QED
  BY <1>1, LedgerInvariant, PTL

(* FR-006 for any load: the orders that hold or bought seats never have    *)
(* more of them than the type's opening quota.                             *)
THEOREM LedgerNeverOversold == Spec => []NeverOversold
<1>1. LedgerInv => NeverOversold
  <2> SUFFICES ASSUME LedgerInv, NEW t \in TicketTypes
               PROVE  Cardinality(SeatsOut(t)) <= Capacity[t]
    BY DEF NeverOversold
  <2>1. free[t] \in Nat
    BY DEF LedgerInv, TypeOK
  <2>2. free[t] + Cardinality(SeatsOut(t)) = Capacity[t]
    BY DEF LedgerInv, SeatsConserved
  <2>3. Cardinality(SeatsOut(t)) \in Nat
    BY FS_CardinalityType DEF LedgerInv
  <2> QED
    BY <2>1, <2>2, <2>3
<1> QED
  BY <1>1, LedgerInvariant, PTL
=============================================================================
