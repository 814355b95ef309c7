------------------------------- MODULE Ledger -------------------------------
(***************************************************************************)
(* What the ledger promises its callers: a journal is posted at once, once *)
(* per idempotency key, only if it is balanced, and never so that an       *)
(* account other than SYSTEM_EXTERNAL goes below zero.                     *)
(***************************************************************************)
EXTENDS Journals

VARIABLES balance, posted

ledgerVars == <<balance, posted>>

Init ==
    /\ balance = Opening
    /\ posted = {}

Post(k) ==
    /\ k \notin posted
    /\ Balanced(k)
    /\ NoZeroLine(k)
    /\ balance' = [a \in Accounts |-> balance[a] + Net(k, a)]
    /\ \A a \in Accounts \ External: balance'[a] >= 0
    /\ posted' = posted \union {k}

Next == \E k \in Keys: Post(k)

Spec == Init /\ [][Next]_ledgerVars

=============================================================================
