------------------------------- MODULE Ledger -------------------------------
(***************************************************************************)
(* What the two money ledgers of a rider, the wallet and the ride credits, *)
(* promise their callers: an account never goes below zero, and a movement *)
(* changes the balance and writes its ledger entry in one step, once per   *)
(* idempotency key.                                                        *)
(***************************************************************************)
EXTENDS Integers

CONSTANTS
  Accounts,   \* one wallet and one credit account per rider
  Keys,       \* idempotency keys
  Amounts     \* signed amounts that are posted

VARIABLES
  balance,    \* account -> balance_cents
  entries     \* the ledger rows

ledgerVars == <<balance, entries>>

Entry == [key: Keys, account: Accounts, amount: Amounts]

Posted(key) == \E e \in entries: e.key = key

Init ==
  /\ balance \in [Accounts -> Nat]
  /\ entries = {}

Post(e) ==
  /\ ~ Posted(e.key)
  /\ balance[e.account] + e.amount >= 0
  /\ balance' = [balance EXCEPT ![e.account] = @ + e.amount]
  /\ entries' = entries \cup {e}

Next == \E e \in Entry: Post(e)

Spec == Init /\ [][Next]_ledgerVars

=============================================================================
