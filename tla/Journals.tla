------------------------------ MODULE Journals ------------------------------
(***************************************************************************)
(* The journals the ledger is asked to post (PostJournalInput in           *)
(* ledger-posting.service.ts): every idempotency key names one list of     *)
(* lines, each an account and a signed delta.  Amounts are whole pesewas,  *)
(* so the Decimal(18,2) arithmetic of the code is integer arithmetic here. *)
(***************************************************************************)
EXTENDS Integers, Sequences, Functions

CONSTANTS
    Accounts,   \* LedgerAccount ids
    External,   \* the accounts of type SYSTEM_EXTERNAL
    Keys,       \* idempotency keys callers may use
    Journal,    \* Journal[k]: the lines a caller with key k submits
    Opening     \* balances when the behaviour starts

Line == [account: Accounts, delta: Int]

ASSUME JournalsAssumption ==
    /\ External \subseteq Accounts
    /\ Journal \in [Keys -> Seq(Line)]
    /\ Opening \in [Accounts -> Int]
    /\ \A a \in Accounts \ External: Opening[a] >= 0

Deltas(k) == [i \in 1..Len(Journal[k]) |-> Journal[k][i].delta]

\* What journal k adds to account a, all its lines together.
Net(k, a) ==
    SumFunctionOnSet(Deltas(k), {i \in 1..Len(Journal[k]): Journal[k][i].account = a})

\* A line of journal k is about account a.
Touches(k, a) == \E i \in 1..Len(Journal[k]): Journal[k][i].account = a

\* assertBalanced: at least two lines, deltas summing to zero.
Balanced(k) ==
    /\ Len(Journal[k]) >= 2
    /\ SumFunction(Deltas(k)) = 0

NoZeroLine(k) == \A i \in 1..Len(Journal[k]): Journal[k][i].delta # 0

=============================================================================
