--------------------------- MODULE LongOnlyAccount ---------------------------
(***************************************************************************)
(* What the paper engine promises of its account, whatever strategy, risk  *)
(* rule or market drives it: spot, long only, one position at a time.  A   *)
(* position is paid in full from cash when it opens, is sold whole, and    *)
(* only its sale realises a profit or a loss.                              *)
(***************************************************************************)
EXTENDS Integers

CONSTANT Deposit       \* the cash the account starts with

VARIABLES cash, quantity, basis, realizedPnl

account == <<cash, quantity, basis, realizedPnl>>

Init ==
  /\ cash = Deposit
  /\ quantity = 0 /\ basis = 0 /\ realizedPnl = 0

Open ==
  /\ quantity = 0
  /\ quantity' \in Nat \ {0}
  /\ cash' \in Nat
  /\ cash' < cash
  /\ basis' = cash - cash'
  /\ UNCHANGED realizedPnl

CloseAll ==
  /\ quantity > 0
  /\ quantity' = 0 /\ basis' = 0
  /\ cash' \in Nat
  /\ cash' >= cash
  /\ realizedPnl' = realizedPnl + (cash' - cash) - basis

Next == Open \/ CloseAll

Spec == Init /\ [][Next]_account
=============================================================================
