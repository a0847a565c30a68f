--------------------------- MODULE PaymentStatus ---------------------------
(***************************************************************************)
(* The pure table of backend/internal/payment/status.go that turns a       *)
(* provider answer into a decision about an order.                         *)
(*                                                                         *)
(* Each member of Transactions and Frauds stands for the class of strings  *)
(* that normalize (trim and lower-case) maps to it; "other" is every       *)
(* string the switch has no case for.                                      *)
(***************************************************************************)

Transactions ==
  {"settlement", "capture", "pending", "deny", "cancel", "failure", "expire", "other"}

Frauds == {"accept", "challenge", "other"}

Answer == [transaction : Transactions, fraud : Frauds]

\* The statuses an order can leave PENDING for.
SettledStatuses == {"PAID", "CANCELLED", "EXPIRED"}

\* OrderStatusUnchanged
Unchanged == ""

Outcome ==
  [orderStatus : SettledStatuses \cup {Unchanged},
   restoreQuota : BOOLEAN, handled : BOOLEAN]

ChangesOrder(outcome) == outcome.orderStatus # Unchanged

Sold == [orderStatus |-> "PAID", restoreQuota |-> FALSE, handled |-> TRUE]

Released(status) ==
  [orderStatus |-> status, restoreQuota |-> TRUE, handled |-> TRUE]

NoDecision == [orderStatus |-> Unchanged, restoreQuota |-> FALSE, handled |-> TRUE]

Unrecognized == [NoDecision EXCEPT !.handled = FALSE]

\* Mutation of MapProviderStatus: a capture counts as money although the
\* provider's fraud review has not accepted it yet.
MapIgnoringFraud(transaction, fraud) ==
  CASE transaction \in {"settlement", "capture"}      -> Sold
    [] transaction = "pending"                        -> NoDecision
    [] transaction \in {"deny", "cancel", "failure"}  -> Released("CANCELLED")
    [] transaction = "expire"                         -> Released("EXPIRED")
    [] OTHER                                          -> Unrecognized

\* Mutation of MapProviderStatus: the expire notification is taken for a
\* no-op because the sweeper expires orders anyway.
MapLeavingExpiryToSweeper(transaction, fraud) ==
  CASE transaction = "settlement"                           -> Sold
    [] transaction = "capture" /\ fraud = "accept"          -> Sold
    [] transaction \in {"capture", "pending", "expire"}     -> NoDecision
    [] transaction \in {"deny", "cancel", "failure"}        -> Released("CANCELLED")
    [] OTHER                                                -> Unrecognized

MapProviderStatus(transaction, fraud) ==
  CASE transaction = "settlement"                           -> Sold
    [] transaction = "capture" /\ fraud = "accept"          -> Sold
    [] transaction = "capture" /\ fraud = "challenge"       -> NoDecision
    [] transaction = "pending"                              -> NoDecision
    [] transaction \in {"deny", "cancel", "failure"}        -> Released("CANCELLED")
    [] transaction = "expire"                               -> Released("EXPIRED")
    [] OTHER                                                -> Unrecognized
=============================================================================
