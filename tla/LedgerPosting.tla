--------------------------- MODULE LedgerPosting ----------------------------
(***************************************************************************)
(* LedgerPostingService.postJournal / postJournalInTx, statement by        *)
(* statement, for several request handlers that run at the same time.      *)
(*                                                                         *)
(* No isolation level is configured, so Postgres runs every $transaction   *)
(* at READ COMMITTED: a read sees what is committed when the statement     *)
(* runs (plus the transaction's own writes), an UPDATE takes the row lock  *)
(* and keeps it until the transaction ends, and an INSERT whose unique     *)
(* idempotencyKey another open transaction holds waits for that            *)
(* transaction.                                                            *)
(***************************************************************************)
EXTENDS Journals

CONSTANTS
    Workers,    \* request handlers that may post concurrently
    None        \* "no value"

ASSUME WorkersAssumption ==
    /\ None \notin Int
    /\ None \notin Keys

VARIABLES
    balance,    \* committed LedgerAccount.balance
    posted,     \* committed LedgerTransaction.idempotencyKey values
    book,       \* committed LedgerLine rows, in commit order
    pc,         \* pc[w]: the statement handler w executes next
    key,        \* key[w]: the key of its current, or else its last, call
    at,         \* at[w]: the line it is working on
    projected,  \* projected[w][a]: projectedBalances.get(a), None if absent
    account,    \* account[w]: the balance the write loop has just read
    written,    \* written[w][a]: uncommitted balance, None if a is not locked
    created,    \* created[w]: its uncommitted LedgerLine rows
    result      \* result[w]: how its last call ended

committedVars == <<balance, posted, book>>
vars == <<balance, posted, book, pc, key, at, projected, account, written,
          created, result>>

Steps == {"idle", "find", "check", "insert", "read", "write", "commit"}
Results == {"none", "posted", "duplicate", "error"}
NoBalances == [a \in Accounts |-> None]

LedgerLine == [key: Keys, idx: Nat, account: Accounts, delta: Int, balanceAfter: Int]

Init ==
    /\ balance = Opening
    /\ posted = {}
    /\ book = << >>
    /\ pc = [w \in Workers |-> "idle"]
    /\ key = [w \in Workers |-> None]
    /\ at = [w \in Workers |-> 0]
    /\ projected = [w \in Workers |-> NoBalances]
    /\ account = [w \in Workers |-> None]
    /\ written = [w \in Workers |-> NoBalances]
    /\ created = [w \in Workers |-> << >>]
    /\ result = [w \in Workers |-> "none"]

-----------------------------------------------------------------------------

CurrentLine(w) == Journal[key[w]][at[w]]

\* The balance a statement of w's transaction sees.
Visible(w, a) == IF written[w][a] # None THEN written[w][a] ELSE balance[a]

\* w has inserted its LedgerTransaction row and not yet ended.
HasInserted(w) == pc[w] \in {"read", "write", "commit"}

\* The transaction of w ends; its locks and uncommitted rows go with it.
EndTx(w, how) ==
    /\ pc' = [pc EXCEPT ![w] = "idle"]
    /\ at' = [at EXCEPT ![w] = 0]
    /\ projected' = [projected EXCEPT ![w] = NoBalances]
    /\ account' = [account EXCEPT ![w] = None]
    /\ written' = [written EXCEPT ![w] = NoBalances]
    /\ created' = [created EXCEPT ![w] = << >>]
    /\ result' = [result EXCEPT ![w] = how]
    /\ UNCHANGED key

\* Mutant: the lines written so far stay, as without a $transaction.
RollbackLeavesLines(w) ==
    /\ EndTx(w, "error")
    /\ book' = book \o created[w]
    /\ UNCHANGED <<balance, posted>>

Rollback(w) ==
    /\ EndTx(w, "error")
    /\ UNCHANGED committedVars

\* postJournal(input): the transaction opens; an unbalanced journal throws.
PostJournal(w, k) ==
    /\ pc[w] = "idle"
    /\ key' = [key EXCEPT ![w] = k]
    /\ IF Balanced(k)
       THEN /\ pc' = [pc EXCEPT ![w] = "find"]
            /\ result' = [result EXCEPT ![w] = "none"]
       ELSE /\ result' = [result EXCEPT ![w] = "error"]
            /\ UNCHANGED pc
    /\ UNCHANGED <<committedVars, at, projected, account, written, created>>

KeyHeldByOther(w) == \E v \in Workers \ {w}: HasInserted(v) /\ key[v] = key[w]

\* findUnique on the idempotency key: a committed journal ends the call.
FindExisting(w) ==
    /\ pc[w] = "find"
    /\ IF key[w] \in posted
       THEN /\ EndTx(w, "duplicate")
            /\ UNCHANGED committedVars
       ELSE /\ pc' = [pc EXCEPT ![w] = "check"]
            /\ at' = [at EXCEPT ![w] = 1]
            /\ UNCHANGED <<committedVars, key, projected, account, written, created, result>>

\* assertNonNegativeAfterDelta for one line, against the projected balance of
\* the lines before it.  SYSTEM_EXTERNAL accounts are exempt.
\* Mutant: every line is checked against the stored balance.
NextUnprojected(w, a) == balance[a] + CurrentLine(w).delta

NextProjected(w, a) ==
    (IF projected[w][a] # None THEN projected[w][a] ELSE balance[a]) + CurrentLine(w).delta

\* Mutant: zero lines pass.
CheckPassesZero(w) ==
    CurrentLine(w).account \notin External => NextProjected(w, CurrentLine(w).account) >= 0

CheckPasses(w) ==
    /\ CurrentLine(w).delta # 0
    /\ CurrentLine(w).account \notin External => NextProjected(w, CurrentLine(w).account) >= 0

\* Mutant: the loop runs once too often.
CheckLineTooFar(w) ==
    /\ pc[w] = "check"
    /\ CheckPasses(w)
    /\ at' = [at EXCEPT ![w] = @ + 1]
    /\ pc' = IF at[w] <= Len(Journal[key[w]]) THEN pc ELSE [pc EXCEPT ![w] = "insert"]
    /\ UNCHANGED <<committedVars, key, projected, account, written, created, result>>

CheckLine(w) ==
    /\ pc[w] = "check"
    /\ CheckPasses(w)
    /\ projected' = IF CurrentLine(w).account \in External THEN projected
                    ELSE [projected EXCEPT ![w][CurrentLine(w).account] =
                                NextProjected(w, CurrentLine(w).account)]
    /\ IF at[w] < Len(Journal[key[w]])
       THEN /\ at' = [at EXCEPT ![w] = @ + 1]
            /\ UNCHANGED pc
       ELSE /\ pc' = [pc EXCEPT ![w] = "insert"]
            /\ at' = [at EXCEPT ![w] = 1]
    /\ UNCHANGED <<committedVars, key, account, written, created, result>>

RejectLine(w) ==
    /\ pc[w] = "check"
    /\ ~CheckPasses(w)
    /\ Rollback(w)

\* Mutant: no unique index on idempotencyKey.
InsertNotUnique(w) ==
    /\ pc[w] = "insert"
    /\ pc' = [pc EXCEPT ![w] = "read"]
    /\ UNCHANGED <<committedVars, key, at, projected, account, written, created, result>>

\* ledgerTransaction.create under the unique index on idempotencyKey.
InsertTransaction(w) ==
    /\ pc[w] = "insert"
    /\ ~KeyHeldByOther(w)
    /\ key[w] \notin posted
    /\ pc' = [pc EXCEPT ![w] = "read"]
    /\ UNCHANGED <<committedVars, key, at, projected, account, written, created, result>>

\* Mutant: the insert is tried again on a unique violation.
RetryUniqueViolation(w) ==
    /\ pc[w] = "insert"
    /\ key[w] \in posted
    /\ UNCHANGED vars

UniqueViolation(w) ==
    /\ pc[w] = "insert"
    /\ key[w] \in posted
    /\ Rollback(w)

\* Mutant: the account is read through this.prisma, outside the transaction.
ReadOutsideTx(w) ==
    /\ pc[w] = "read"
    /\ account' = [account EXCEPT ![w] = balance[CurrentLine(w).account]]
    /\ pc' = [pc EXCEPT ![w] = "write"]
    /\ UNCHANGED <<committedVars, key, at, projected, written, created, result>>

\* The write loop: read the account, ...
ReadAccount(w) ==
    /\ pc[w] = "read"
    /\ account' = [account EXCEPT ![w] = Visible(w, CurrentLine(w).account)]
    /\ pc' = [pc EXCEPT ![w] = "write"]
    /\ UNCHANGED <<committedVars, key, at, projected, written, created, result>>

RowLockedByOther(w, a) == \E v \in Workers \ {w}: written[v][a] # None

\* ... write the balance computed from that read, and create the line.
WriteLine(w) ==
    LET line == CurrentLine(w)
        nextBalance == account[w] + line.delta
    IN  /\ pc[w] = "write"
        /\ ~RowLockedByOther(w, line.account)
        /\ written' = [written EXCEPT ![w][line.account] = nextBalance]
        /\ created' = [created EXCEPT ![w] =
                Append(@, [key |-> key[w], idx |-> at[w], account |-> line.account,
                           delta |-> line.delta, balanceAfter |-> nextBalance])]
        /\ IF at[w] < Len(Journal[key[w]])
           THEN /\ at' = [at EXCEPT ![w] = @ + 1]
                /\ pc' = [pc EXCEPT ![w] = "read"]
           ELSE /\ pc' = [pc EXCEPT ![w] = "commit"]
                /\ UNCHANGED at
        /\ account' = [account EXCEPT ![w] = None]
        /\ UNCHANGED <<committedVars, key, projected, result>>

\* Mutant: balances are incremented by the deltas; balanceAfter is from the read.
CommitIncrements(w) ==
    /\ pc[w] = "commit"
    /\ balance' = [a \in Accounts |-> balance[a] + Net(key[w], a)]
    /\ posted' = posted \union {key[w]}
    /\ book' = book \o created[w]
    /\ EndTx(w, "posted")

Commit(w) ==
    /\ pc[w] = "commit"
    /\ balance' = [a \in Accounts |-> Visible(w, a)]
    /\ posted' = posted \union {key[w]}
    /\ book' = book \o created[w]
    /\ EndTx(w, "posted")

\* The transaction is lost at any point: the process dies, the interactive
\* transaction times out, or the caller's own later statement throws.
Abort(w) ==
    /\ pc[w] # "idle"
    /\ Rollback(w)

\* w waits for a lock of v.
WaitsFor(w, v) ==
    /\ w # v
    /\ \/ pc[w] = "insert" /\ HasInserted(v) /\ key[v] = key[w]
       \/ pc[w] = "write" /\ written[v][CurrentLine(w).account] # None

\* Postgres ends a cycle of waiting transactions by aborting one of them.
InWaitCycle(w) ==
    \E S \in SUBSET Workers:
        /\ w \in S
        /\ \A x \in S: \E y \in S: WaitsFor(x, y)
        /\ \A x \in S: \E y \in S: WaitsFor(y, x)

DeadlockVictim(w) ==
    /\ InWaitCycle(w)
    /\ Rollback(w)

Advance(w) ==
    \/ FindExisting(w) \/ CheckLine(w) \/ RejectLine(w)
    \/ InsertTransaction(w) \/ UniqueViolation(w)
    \/ ReadAccount(w) \/ WriteLine(w) \/ Commit(w)

Next ==
    \E w \in Workers:
        \/ \E k \in Keys: PostJournal(w, k)
        \/ Advance(w)
        \/ Abort(w)
        \/ DeadlockVictim(w)

Spec == Init /\ [][Next]_vars

\* A statement that can run does run, a wait cycle is broken, and lock queues
\* are served in turn, so a handler is not overtaken for ever at a lock.
Fairness ==
    \A w \in Workers:
        /\ SF_vars(Advance(w))
        /\ WF_vars(DeadlockVictim(w))

-----------------------------------------------------------------------------
(* Properties *)

\* Types of the columns and of a handler's locals; the line a handler works on
\* is a line of its journal.
TypeOK ==
    /\ balance \in [Accounts -> Int]
    /\ posted \subseteq Keys
    /\ book \in Seq(LedgerLine)
    /\ pc \in [Workers -> Steps]
    /\ key \in [Workers -> Keys \union {None}]
    /\ at \in [Workers -> Nat]
    /\ projected \in [Workers -> [Accounts -> Int \union {None}]]
    /\ account \in [Workers -> Int \union {None}]
    /\ written \in [Workers -> [Accounts -> Int \union {None}]]
    /\ created \in [Workers -> Seq(LedgerLine)]
    /\ result \in [Workers -> Results]
    /\ \A w \in Workers:
        /\ pc[w] # "idle" => key[w] \in Keys /\ Len(Journal[key[w]]) >= 2
        /\ pc[w] = "write" => account[w] \in Int
        /\ pc[w] \notin {"idle", "find"} => at[w] \in 1..Len(Journal[key[w]])

\* However many handlers post with the same idempotency key at the same time,
\* the lines of its journal are in the ledger once: "returns duplicate without
\* double-posting when idempotency key exists", and also when it does not yet.
OneJournalPerKey ==
    \A i, j \in 1..Len(book):
        book[i].key = book[j].key /\ book[i].idx = book[j].idx => i = j

\* A journal is in the ledger with all of its lines or with none, whatever
\* aborts a transaction between two lines.
WholeJournals ==
    /\ \A k \in posted: \A n \in 1..Len(Journal[k]):
          \E i \in 1..Len(book): book[i].key = k /\ book[i].idx = n
    /\ \A i \in 1..Len(book): book[i].key \in posted

\* The stored balance of an account is the balanceAfter of the last committed
\* line on it, even after concurrent postings to that account: the statement a
\* ledger explorer shows ends at the balance the wallet shows.
LastLineOf(a, i) ==
    /\ book[i].account = a
    /\ \A j \in (i + 1)..Len(book): book[j].account # a

BalanceIsLastLine ==
    \A i \in 1..Len(book): \A a \in Accounts:
        LastLineOf(a, i) => balance[a] = book[i].balanceAfter

\* Sum of the deltas of the committed lines on a.
SumOfLines(a) ==
    SumFunctionOnSet([i \in 1..Len(book) |-> book[i].delta],
                     {i \in 1..Len(book): book[i].account = a})

\* The stored balance is the sum of the lines: a line's delta is the "signed
\* delta applied to account balance" (schema.prisma:445).
BalanceIsSumOfLines == \A a \in Accounts: balance[a] = Opening[a] + SumOfLines(a)

\* No account other than SYSTEM_EXTERNAL is ever overdrawn: "rejects postings
\* that would make internal accounts negative".
NonNegative == \A a \in Accounts \ External: balance[a] >= 0

\* Every call of postJournal comes to an end, also when handlers lock the same
\* accounts in opposite orders.
EveryCallEnds == \A w \in Workers: pc[w] # "idle" ~> pc[w] = "idle"

\* With one handler at a time the statements of postJournalInTx implement the
\* atomic ledger.
AtomicLedger == INSTANCE Ledger WITH balance <- balance, posted <- posted
ImplementsLedger == AtomicLedger!Spec

=============================================================================
