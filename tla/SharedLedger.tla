---------------------------- MODULE SharedLedger ----------------------------
(***************************************************************************)
(* What is left of the promise of Ledger when handlers post to the same    *)
(* accounts at the same time.  A journal is still posted at once, once per *)
(* key, and only if it is balanced.  It may go wrong on accounts it is     *)
(* about, which are spoiled from then on; every other account receives     *)
(* exactly its net, and an account never spoiled is never overdrawn.       *)
(***************************************************************************)
EXTENDS Journals

VARIABLES
    balance,
    posted,
    spoiled     \* the accounts some journal has gone wrong on

sharedVars == <<balance, posted, spoiled>>

Init ==
    /\ balance = Opening
    /\ posted = {}
    /\ spoiled = {}

Post(k) ==
    \E wrong \in SUBSET {a \in Accounts: Touches(k, a)}:
        /\ k \notin posted
        /\ Balanced(k)
        /\ NoZeroLine(k)
        /\ balance' \in [Accounts -> Int]
        /\ \A a \in Accounts \ wrong: balance'[a] = balance[a] + Net(k, a)
        /\ spoiled' = spoiled \union wrong
        /\ \A a \in Accounts \ (External \union spoiled'): balance'[a] >= 0
        /\ posted' = posted \union {k}

Next == \E k \in Keys: Post(k)

Spec == Init /\ [][Next]_sharedVars

=============================================================================
