------------------------ MODULE LedgerPostingProofs -------------------------
(***************************************************************************)
(* Theorems about LedgerPosting and LedgerRaces for any number of          *)
(* handlers, accounts and keys, and for journals of any length.            *)
(***************************************************************************)
EXTENDS LedgerRaces, SumLemmas

(* The actions that only end w's transaction without committing it. *)
Ends(w) == RejectLine(w) \/ UniqueViolation(w) \/ Abort(w) \/ DeadlockVictim(w)

\* The part of TypeOK about one handler's position in its journal.
LocalOK(v) ==
    /\ pc[v] # "idle" => key[v] \in Keys /\ Len(Journal[key[v]]) >= 2
    /\ pc[v] = "write" => account[v] \in Int
    /\ pc[v] \notin {"idle", "find"} => at[v] \in 1..Len(Journal[key[v]])

\* The current line of a handler past the key look-up is a line of its journal.
LEMMA CurrentLineType ==
    ASSUME TypeOK, NEW w \in Workers, pc[w] \notin {"idle", "find"}
    PROVE  /\ key[w] \in Keys
           /\ Journal[key[w]] \in Seq(Line)
           /\ at[w] \in 1..Len(Journal[key[w]])
           /\ CurrentLine(w) \in Line
           /\ CurrentLine(w).account \in Accounts
           /\ CurrentLine(w).delta \in Int
  <1>1. key[w] \in Keys /\ at[w] \in 1..Len(Journal[key[w]])
    BY DEF TypeOK
  <1>2. Journal[key[w]] \in Seq(Line)
    BY <1>1, JournalsAssumption
  <1>3. CurrentLine(w) \in Line
    BY <1>1, <1>2 DEF CurrentLine
  <1> QED BY <1>1, <1>2, <1>3 DEF Line

\* Ending a transaction keeps the types, whatever it leaves committed.
LEMMA EndTxType ==
    ASSUME TypeOK, NEW w \in Workers, NEW how \in Results, EndTx(w, how),
           balance' \in [Accounts -> Int], posted' \subseteq Keys, book' \in Seq(LedgerLine)
    PROVE  TypeOK'
  <1>1. /\ pc' \in [Workers -> Steps]
        /\ key' \in [Workers -> Keys \union {None}]
        /\ at' \in [Workers -> Nat]
        /\ result' \in [Workers -> Results]
    BY DEF TypeOK, EndTx, Steps
  <1>2. /\ projected' \in [Workers -> [Accounts -> Int \union {None}]]
        /\ account' \in [Workers -> Int \union {None}]
        /\ written' \in [Workers -> [Accounts -> Int \union {None}]]
        /\ created' \in [Workers -> Seq(LedgerLine)]
    BY DEF TypeOK, EndTx, NoBalances
  <1>3. ASSUME NEW v \in Workers
        PROVE  LocalOK(v)'
    BY DEF TypeOK, LocalOK, EndTx
  <1> QED BY <1>1, <1>2, <1>3 DEF TypeOK, LocalOK

LEMMA RollbackType ==
    ASSUME TypeOK, NEW w \in Workers, Rollback(w)
    PROVE  TypeOK'
  BY EndTxType DEF Rollback, committedVars, TypeOK, Results

\* Every step keeps the types (the base of every other invariant).
LEMMA TypeStep == TypeOK /\ [Next]_vars => TypeOK'
<1> SUFFICES ASSUME TypeOK, [Next]_vars PROVE TypeOK'
  OBVIOUS
<1>1. CASE UNCHANGED vars
  BY <1>1 DEF vars, TypeOK
<1>2. ASSUME NEW w \in Workers, NEW k \in Keys, PostJournal(w, k) PROVE TypeOK'
  <2>1. UNCHANGED <<balance, posted, book, at, projected, account, written, created>>
    BY <1>2 DEF PostJournal, committedVars
  <2>2. /\ pc' \in [Workers -> Steps]
        /\ key' \in [Workers -> Keys \union {None}]
        /\ result' \in [Workers -> Results]
    BY <1>2 DEF PostJournal, TypeOK, Steps, Results
  <2>3. ASSUME NEW v \in Workers
        PROVE  LocalOK(v)'
    BY <1>2, <2>1 DEF PostJournal, TypeOK, LocalOK, Balanced
  <2> QED BY <2>1, <2>2, <2>3 DEF TypeOK, LocalOK
<1>3. ASSUME NEW w \in Workers, FindExisting(w) PROVE TypeOK'
  <2>1. CASE key[w] \in posted
    BY <1>3, <2>1, EndTxType DEF FindExisting, TypeOK, committedVars, Results
  <2>2. CASE key[w] \notin posted
    <3>1. /\ UNCHANGED <<balance, posted, book, key, projected, account, written, created, result>>
          /\ pc' = [pc EXCEPT ![w] = "check"]
          /\ at' = [at EXCEPT ![w] = 1]
      BY <1>3, <2>2 DEF FindExisting, committedVars
    <3>2. 1 \in 1..Len(Journal[key[w]])
      <4>1. key[w] \in Keys /\ Len(Journal[key[w]]) >= 2
        BY <1>3 DEF TypeOK, FindExisting
      <4>2. Journal[key[w]] \in Seq(Line)
        BY <4>1, JournalsAssumption
      <4>3. Len(Journal[key[w]]) \in Nat
        BY <4>2
      <4> QED BY <4>1, <4>3
    <3>3. pc' \in [Workers -> Steps] /\ at' \in [Workers -> Nat]
      BY <3>1 DEF TypeOK, Steps
    <3>4. ASSUME NEW v \in Workers PROVE LocalOK(v)'
      BY <1>3, <3>1, <3>2 DEF TypeOK, LocalOK, FindExisting
    <3> QED BY <3>1, <3>3, <3>4 DEF TypeOK, LocalOK
  <2> QED BY <2>1, <2>2
<1>4. ASSUME NEW w \in Workers, CheckLine(w) PROVE TypeOK'
  <2>1. /\ CurrentLine(w).account \in Accounts
        /\ CurrentLine(w).delta \in Int
        /\ at[w] \in 1..Len(Journal[key[w]])
        /\ Len(Journal[key[w]]) \in Nat
    BY <1>4, CurrentLineType DEF CheckLine
  <2>2. NextProjected(w, CurrentLine(w).account) \in Int
    BY <2>1 DEF TypeOK, NextProjected
  <2>3. projected' \in [Workers -> [Accounts -> Int \union {None}]]
    BY <1>4, <2>1, <2>2 DEF CheckLine, TypeOK
  <2>4. /\ pc[w] = "check"
        /\ UNCHANGED <<balance, posted, book, key, account, written, created, result>>
        /\ \/ /\ at[w] < Len(Journal[key[w]])
              /\ at' = [at EXCEPT ![w] = @ + 1]
              /\ UNCHANGED pc
           \/ /\ pc' = [pc EXCEPT ![w] = "insert"]
              /\ at' = [at EXCEPT ![w] = 1]
    BY <1>4 DEF CheckLine, committedVars
  <2>5. pc' \in [Workers -> Steps] /\ at' \in [Workers -> Nat]
    <3>1. at \in [Workers -> Nat] /\ pc \in [Workers -> Steps]
      BY DEF TypeOK
    <3>2. at[w] + 1 \in Nat
      BY <3>1
    <3> QED BY <2>4, <3>1, <3>2 DEF Steps
  <2>6. ASSUME NEW v \in Workers PROVE LocalOK(v)'
    <3>1. CASE v = w
      <4>1. key[w] \in Keys /\ Len(Journal[key[w]]) >= 2
        BY <2>4 DEF TypeOK
      <4>2. pc'[w] \in {"check", "insert"} /\ at'[w] \in 1..Len(Journal[key[w]])
        BY <2>1, <2>4 DEF TypeOK
      <4> QED BY <2>4, <3>1, <4>1, <4>2 DEF LocalOK
    <3>2. CASE v # w
      BY <2>4, <3>2 DEF TypeOK, LocalOK
    <3> QED BY <3>1, <3>2
  <2> QED BY <2>3, <2>4, <2>5, <2>6 DEF TypeOK, LocalOK
<1>5. ASSUME NEW w \in Workers, InsertTransaction(w) PROVE TypeOK'
  BY <1>5 DEF InsertTransaction, TypeOK, committedVars, Steps, Results
<1>6. ASSUME NEW w \in Workers, ReadAccount(w) PROVE TypeOK'
  <2>1. Visible(w, CurrentLine(w).account) \in Int
    <3>1. CurrentLine(w).account \in Accounts
      BY <1>6, CurrentLineType DEF ReadAccount
    <3> QED BY <3>1 DEF Visible, TypeOK
  <2> QED BY <1>6, <2>1 DEF ReadAccount, TypeOK, committedVars, Steps, Results
<1>7. ASSUME NEW w \in Workers, WriteLine(w) PROVE TypeOK'
  <2> DEFINE line == CurrentLine(w)
             next == account[w] + line.delta
             row == [key |-> key[w], idx |-> at[w], account |-> line.account,
                     delta |-> line.delta, balanceAfter |-> next]
  <2>1. /\ line.account \in Accounts
        /\ line.delta \in Int
        /\ key[w] \in Keys
        /\ at[w] \in 1..Len(Journal[key[w]])
        /\ Len(Journal[key[w]]) \in Nat
    BY <1>7, CurrentLineType DEF WriteLine
  <2>2. next \in Int
    BY <1>7, <2>1 DEF WriteLine, TypeOK
  <2>3. row \in LedgerLine
    BY <2>1, <2>2 DEF LedgerLine
  <2>4. created' \in [Workers -> Seq(LedgerLine)]
    <3>1. created[w] \in Seq(LedgerLine)
      BY DEF TypeOK
    <3>2. Append(created[w], row) \in Seq(LedgerLine)
      BY <3>1, <2>3
    <3>3. created' = [created EXCEPT ![w] = Append(created[w], row)]
      BY <1>7 DEF WriteLine
    <3> HIDE DEF row
    <3> QED BY <3>2, <3>3 DEF TypeOK
  <2>5. written' \in [Workers -> [Accounts -> Int \union {None}]]
    BY <1>7, <2>1, <2>2 DEF WriteLine, TypeOK
  <2>6. /\ pc[w] = "write"
        /\ UNCHANGED <<balance, posted, book, key, projected, result>>
        /\ account' = [account EXCEPT ![w] = None]
        /\ \/ /\ at[w] < Len(Journal[key[w]])
              /\ at' = [at EXCEPT ![w] = @ + 1]
              /\ pc' = [pc EXCEPT ![w] = "read"]
           \/ /\ pc' = [pc EXCEPT ![w] = "commit"]
              /\ UNCHANGED at
    BY <1>7 DEF WriteLine, committedVars
  <2> HIDE DEF row, next, line
  <2>7. /\ pc' \in [Workers -> Steps]
        /\ at' \in [Workers -> Nat]
        /\ account' \in [Workers -> Int \union {None}]
    <3>1. at \in [Workers -> Nat] /\ pc \in [Workers -> Steps]
      BY DEF TypeOK
    <3>2. at[w] + 1 \in Nat
      BY <3>1
    <3>3. account' \in [Workers -> Int \union {None}]
      BY <2>6 DEF TypeOK
    <3> QED BY <2>6, <3>1, <3>2, <3>3 DEF Steps
  <2>8. ASSUME NEW v \in Workers PROVE LocalOK(v)'
    <3>1. CASE v = w
      <4>1. key[w] \in Keys /\ Len(Journal[key[w]]) >= 2
        BY <2>6 DEF TypeOK
      <4>2. pc'[w] \in {"read", "commit"} /\ at'[w] \in 1..Len(Journal[key[w]])
        BY <2>1, <2>6 DEF TypeOK
      <4> QED BY <2>6, <3>1, <4>1, <4>2 DEF LocalOK
    <3>2. CASE v # w
      BY <2>6, <3>2 DEF TypeOK, LocalOK
    <3> QED BY <3>1, <3>2
  <2> QED BY <2>4, <2>5, <2>6, <2>7, <2>8 DEF TypeOK, LocalOK
<1>8. ASSUME NEW w \in Workers, Commit(w) PROVE TypeOK'
  <2>1. balance' \in [Accounts -> Int]
    BY <1>8 DEF Commit, Visible, TypeOK
  <2>2. book' \in Seq(LedgerLine)
    BY <1>8 DEF Commit, TypeOK
  <2>3. posted' \subseteq Keys
    BY <1>8 DEF Commit, TypeOK
  <2> QED BY <1>8, <2>1, <2>2, <2>3, EndTxType DEF Commit, Results
<1>9. ASSUME NEW w \in Workers, Ends(w) PROVE TypeOK'
  BY <1>9, RollbackType DEF Ends, RejectLine, UniqueViolation, Abort, DeadlockVictim
<1> QED
  BY <1>1, <1>2, <1>3, <1>4, <1>5, <1>6, <1>7, <1>8, <1>9 DEF Next, Advance, Ends

LEMMA TypeInit == Init => TypeOK
  BY JournalsAssumption DEF Init, TypeOK, NoBalances, Steps, Results

\* Types hold in every reachable state, for any workers, accounts and journals.
THEOREM TypeCorrect == Spec => []TypeOK
  BY TypeInit, TypeStep, PTL DEF Spec

-----------------------------------------------------------------------------
(* The inductive invariant behind the once-per-key theorem.  A handler that  *)
(* has inserted its LedgerTransaction row owns its key: nobody has committed *)
(* it and no other handler holds it.  What it has created so far are the     *)
(* lines 1 .. n of its own journal.                                          *)

Owned(w) == HasInserted(w) => key[w] \notin posted

Exclusive(v, w) == v # w /\ HasInserted(v) /\ HasInserted(w) => key[v] # key[w]

BookKeys == \A i \in 1..Len(book): book[i].key \in posted

KeysInv ==
    /\ \A w \in Workers: Owned(w)
    /\ \A v, w \in Workers: Exclusive(v, w)
    /\ BookKeys

Count(w) ==
    IF pc[w] = "commit" THEN Len(Journal[key[w]])
    ELSE IF pc[w] \in {"insert", "read", "write"} THEN at[w] - 1 ELSE 0

CreatedOK(w) ==
    /\ Len(created[w]) = Count(w)
    /\ \A j \in 1..Len(created[w]): created[w][j].key = key[w] /\ created[w][j].idx = j

CreatedInv == \A w \in Workers: CreatedOK(w)

\* A step that ends w's transaction with nothing committed keeps CreatedInv.
LEMMA EndTxCreated ==
    ASSUME TypeOK, CreatedInv, NEW w \in Workers, NEW how, EndTx(w, how)
    PROVE  CreatedInv'
  <1> SUFFICES ASSUME NEW v \in Workers PROVE CreatedOK(v)'
    BY DEF CreatedInv
  <1>1. CASE v = w
    BY <1>1 DEF TypeOK, EndTx, CreatedOK, Count
  <1>2. CASE v # w
    BY <1>2 DEF TypeOK, CreatedInv, EndTx, CreatedOK, Count
  <1> QED BY <1>1, <1>2

LEMMA RollbackKeys ==
    ASSUME TypeOK, KeysInv, NEW w \in Workers, Rollback(w)
    PROVE  KeysInv'
  <1>1. ASSUME NEW v \in Workers PROVE Owned(v)'
    BY DEF TypeOK, KeysInv, Owned, HasInserted, Rollback, EndTx, committedVars
  <1>2. ASSUME NEW u \in Workers, NEW v \in Workers PROVE Exclusive(u, v)'
    BY DEF TypeOK, KeysInv, Exclusive, HasInserted, Rollback, EndTx, committedVars
  <1>3. BookKeys'
    BY DEF KeysInv, BookKeys, Rollback, committedVars
  <1> QED BY <1>1, <1>2, <1>3 DEF KeysInv

\* A step that moves no handler past the insert and commits nothing keeps KeysInv.
LEMMA QuietKeys ==
    ASSUME KeysInv, UNCHANGED <<posted, book>>,
           \A v \in Workers: HasInserted(v)' => HasInserted(v) /\ key'[v] = key[v]
    PROVE  KeysInv'
  <1>1. ASSUME NEW v \in Workers PROVE Owned(v)'
    BY DEF KeysInv, Owned
  <1>2. ASSUME NEW u \in Workers, NEW v \in Workers PROVE Exclusive(u, v)'
    BY DEF KeysInv, Exclusive
  <1>3. BookKeys'
    BY DEF KeysInv, BookKeys
  <1> QED BY <1>1, <1>2, <1>3 DEF KeysInv

LEMMA CommitKeys ==
    ASSUME TypeOK, KeysInv, CreatedInv, NEW w \in Workers, Commit(w)
    PROVE  KeysInv'
  <1>1. /\ pc[w] = "commit"
        /\ pc' = [pc EXCEPT ![w] = "idle"]
        /\ key' = key
        /\ posted' = posted \union {key[w]}
        /\ book' = book \o created[w]
    BY DEF Commit, EndTx
  <1>2. ASSUME NEW v \in Workers PROVE Owned(v)'
    BY <1>1 DEF TypeOK, KeysInv, Owned, Exclusive, HasInserted
  <1>3. ASSUME NEW u \in Workers, NEW v \in Workers PROVE Exclusive(u, v)'
    BY <1>1 DEF TypeOK, KeysInv, Exclusive, HasInserted
  <1>4. BookKeys'
    <2> SUFFICES ASSUME NEW i \in 1..Len(book') PROVE book'[i].key \in posted'
      BY DEF BookKeys
    <2>1. book \in Seq(LedgerLine) /\ created[w] \in Seq(LedgerLine)
      BY DEF TypeOK
    <2>2. CASE i \in 1..Len(book)
      BY <1>1, <2>1, <2>2 DEF KeysInv, BookKeys
    <2>3. CASE i \notin 1..Len(book)
      <3>1. i - Len(book) \in 1..Len(created[w]) /\ book'[i] = created[w][i - Len(book)]
        BY <1>1, <2>1, <2>3
      <3>2. book'[i].key = key[w]
        BY <3>1 DEF CreatedInv, CreatedOK
      <3> QED BY <1>1, <3>2
    <2> QED BY <2>2, <2>3
  <1> QED BY <1>2, <1>3, <1>4 DEF KeysInv

LEMMA KeysStep == TypeOK /\ KeysInv /\ CreatedInv /\ [Next]_vars => KeysInv'
<1> SUFFICES ASSUME TypeOK, KeysInv, CreatedInv, [Next]_vars PROVE KeysInv'
  OBVIOUS
<1>1. CASE UNCHANGED vars
  BY <1>1, QuietKeys DEF vars, KeysInv, Owned, Exclusive, BookKeys, HasInserted
<1>2. ASSUME NEW w \in Workers, NEW k \in Keys, PostJournal(w, k) PROVE KeysInv'
  <2>1. \A v \in Workers: HasInserted(v)' => HasInserted(v) /\ key'[v] = key[v]
    BY <1>2 DEF TypeOK, PostJournal, HasInserted
  <2> QED BY <1>2, <2>1, QuietKeys DEF PostJournal, committedVars
<1>3. ASSUME NEW w \in Workers, FindExisting(w) PROVE KeysInv'
  <2>1. \A v \in Workers: HasInserted(v)' => HasInserted(v) /\ key'[v] = key[v]
    BY <1>3 DEF TypeOK, FindExisting, EndTx, HasInserted
  <2> QED BY <1>3, <2>1, QuietKeys DEF FindExisting, committedVars
<1>4. ASSUME NEW w \in Workers, CheckLine(w) PROVE KeysInv'
  <2>1. \A v \in Workers: HasInserted(v)' => HasInserted(v) /\ key'[v] = key[v]
    BY <1>4 DEF TypeOK, CheckLine, HasInserted
  <2> QED BY <1>4, <2>1, QuietKeys DEF CheckLine, committedVars
<1>5. ASSUME NEW w \in Workers, InsertTransaction(w) PROVE KeysInv'
  <2>1. /\ pc' = [pc EXCEPT ![w] = "read"]
        /\ UNCHANGED <<posted, book, key>>
        /\ key[w] \notin posted
        /\ \A v \in Workers \ {w}: HasInserted(v) => key[v] # key[w]
    BY <1>5 DEF InsertTransaction, KeyHeldByOther, committedVars
  <2>2. ASSUME NEW v \in Workers PROVE Owned(v)'
    BY <2>1 DEF TypeOK, KeysInv, Owned, HasInserted
  <2>3. ASSUME NEW u \in Workers, NEW v \in Workers PROVE Exclusive(u, v)'
    BY <2>1 DEF TypeOK, KeysInv, Exclusive, HasInserted
  <2>4. BookKeys'
    BY <2>1 DEF KeysInv, BookKeys
  <2> QED BY <2>2, <2>3, <2>4 DEF KeysInv
<1>6. ASSUME NEW w \in Workers, ReadAccount(w) PROVE KeysInv'
  <2>1. \A v \in Workers: HasInserted(v)' => HasInserted(v) /\ key'[v] = key[v]
    BY <1>6 DEF TypeOK, ReadAccount, HasInserted
  <2> QED BY <1>6, <2>1, QuietKeys DEF ReadAccount, committedVars
<1>7. ASSUME NEW w \in Workers, WriteLine(w) PROVE KeysInv'
  <2>1. \A v \in Workers: HasInserted(v)' => HasInserted(v) /\ key'[v] = key[v]
    BY <1>7 DEF TypeOK, WriteLine, HasInserted
  <2> QED BY <1>7, <2>1, QuietKeys DEF WriteLine, committedVars
<1>8. ASSUME NEW w \in Workers, Commit(w) PROVE KeysInv'
  BY <1>8, CommitKeys
<1>9. ASSUME NEW w \in Workers, Ends(w) PROVE KeysInv'
  BY <1>9, RollbackKeys DEF Ends, RejectLine, UniqueViolation, Abort, DeadlockVictim
<1> QED
  BY <1>1, <1>2, <1>3, <1>4, <1>5, <1>6, <1>7, <1>8, <1>9 DEF Next, Advance, Ends

\* A step that leaves v's transaction alone keeps what is known of its lines.
LEMMA QuietCreated ==
    ASSUME NEW v \in Workers, CreatedOK(v), created'[v] = created[v],
           Count(v)' = Count(v), Len(created[v]) > 0 => key'[v] = key[v]
    PROVE  CreatedOK(v)'
  BY DEF CreatedOK

LEMMA CreatedStep == TypeOK /\ CreatedInv /\ [Next]_vars => CreatedInv'
<1> SUFFICES ASSUME TypeOK, CreatedInv, [Next]_vars, NEW v \in Workers PROVE CreatedOK(v)'
  BY DEF CreatedInv
<1>0. CreatedOK(v) /\ created[v] \in Seq(LedgerLine)
  BY DEF CreatedInv, TypeOK
<1>1. CASE UNCHANGED vars
  BY <1>0, <1>1 DEF vars, CreatedOK, Count
<1>2. ASSUME NEW w \in Workers, NEW k \in Keys, PostJournal(w, k) PROVE CreatedOK(v)'
  <2>1. created' = created /\ at' = at
    BY <1>2 DEF PostJournal
  <2>2. CASE v = w
    <3>1. Len(created[v]) = 0
      BY <1>0, <1>2, <2>2 DEF CreatedOK, Count, PostJournal
    <3>2. pc'[v] \in {"idle", "find"}
      BY <1>2, <2>2 DEF PostJournal, TypeOK
    <3> QED BY <2>1, <3>1, <3>2 DEF CreatedOK, Count
  <2>3. CASE v # w
    <3>1. pc'[v] = pc[v] /\ key'[v] = key[v]
      BY <1>2, <2>3 DEF PostJournal, TypeOK
    <3> QED BY <1>0, <2>1, <3>1, QuietCreated DEF Count
  <2> QED BY <2>2, <2>3
<1>3. ASSUME NEW w \in Workers, FindExisting(w) PROVE CreatedOK(v)'
  <2>1. CASE key[w] \in posted
    BY <1>3, <2>1, EndTxCreated DEF FindExisting, CreatedInv
  <2>2. CASE key[w] \notin posted
    <3>1. /\ created' = created /\ key' = key /\ pc[w] = "find"
          /\ pc' = [pc EXCEPT ![w] = "check"]
          /\ at' = [at EXCEPT ![w] = 1]
      BY <1>3, <2>2 DEF FindExisting
    <3>2. Count(v)' = Count(v)
      BY <3>1 DEF Count, TypeOK
    <3> QED BY <1>0, <3>1, <3>2, QuietCreated
  <2> QED BY <2>1, <2>2
<1>4. ASSUME NEW w \in Workers, CheckLine(w) PROVE CreatedOK(v)'
  <2>1. /\ created' = created /\ key' = key /\ pc[w] = "check"
        /\ \/ /\ at' = [at EXCEPT ![w] = @ + 1]
              /\ UNCHANGED pc
           \/ /\ pc' = [pc EXCEPT ![w] = "insert"]
              /\ at' = [at EXCEPT ![w] = 1]
    BY <1>4 DEF CheckLine
  <2>2. Count(v)' = Count(v)
    BY <2>1, 1 - 1 = 0 DEF Count, TypeOK
  <2> QED BY <1>0, <2>1, <2>2, QuietCreated
<1>5. ASSUME NEW w \in Workers, InsertTransaction(w) PROVE CreatedOK(v)'
  <2>1. /\ created' = created /\ key' = key /\ at' = at
        /\ pc[w] = "insert" /\ pc' = [pc EXCEPT ![w] = "read"]
    BY <1>5 DEF InsertTransaction
  <2>2. Count(v)' = Count(v)
    BY <2>1 DEF Count, TypeOK
  <2> QED BY <1>0, <2>1, <2>2, QuietCreated
<1>6. ASSUME NEW w \in Workers, ReadAccount(w) PROVE CreatedOK(v)'
  <2>1. /\ created' = created /\ key' = key /\ at' = at
        /\ pc[w] = "read" /\ pc' = [pc EXCEPT ![w] = "write"]
    BY <1>6 DEF ReadAccount
  <2>2. Count(v)' = Count(v)
    BY <2>1 DEF Count, TypeOK
  <2> QED BY <1>0, <2>1, <2>2, QuietCreated
<1>7. ASSUME NEW w \in Workers, WriteLine(w) PROVE CreatedOK(v)'
  <2> DEFINE row == [key |-> key[w], idx |-> at[w], account |-> CurrentLine(w).account,
                     delta |-> CurrentLine(w).delta,
                     balanceAfter |-> account[w] + CurrentLine(w).delta]
  <2>1. /\ created' = [created EXCEPT ![w] = Append(@, row)]
        /\ row.key = key[w] /\ row.idx = at[w]
    BY <1>7 DEF WriteLine
  <2> HIDE DEF row
  <2>2. /\ pc[w] = "write" /\ key' = key
        /\ at[w] \in 1..Len(Journal[key[w]]) /\ Len(Journal[key[w]]) \in Nat
        /\ \/ /\ at[w] < Len(Journal[key[w]])
              /\ at' = [at EXCEPT ![w] = @ + 1]
              /\ pc' = [pc EXCEPT ![w] = "read"]
           \/ /\ at[w] = Len(Journal[key[w]])
              /\ pc' = [pc EXCEPT ![w] = "commit"]
              /\ UNCHANGED at
    BY <1>7, CurrentLineType DEF WriteLine
  <2>3. CASE v = w
    <3>1. Len(created[v]) = at[v] - 1
      BY <1>0, <2>2, <2>3 DEF CreatedOK, Count
    <3>2. Count(v)' = at[v]
      BY <2>2, <2>3 DEF Count, TypeOK
    <3>3. created'[v] = Append(created[v], row)
      BY <2>1, <2>3 DEF TypeOK
    <3>4. Len(created'[v]) = at[v]
      BY <1>0, <2>2, <2>3, <3>1, <3>3
    <3>5. ASSUME NEW j \in 1..at[v]
          PROVE  created'[v][j].key = key[v] /\ created'[v][j].idx = j
      <4>1. CASE j = at[v]
        BY <1>0, <2>1, <2>2, <2>3, <3>1, <3>3, <4>1
      <4>2. CASE j # at[v]
        <5>1. j \in 1..Len(created[v])
          BY <2>2, <2>3, <3>1, <4>2
        <5>2. created'[v][j] = created[v][j]
          BY <1>0, <3>3, <5>1
        <5> QED BY <1>0, <5>1, <5>2 DEF CreatedOK
      <4> QED BY <4>1, <4>2
    <3> QED BY <2>2, <3>2, <3>4, <3>5 DEF CreatedOK
  <2>4. CASE v # w
    <3>1. created'[v] = created[v]
      BY <2>1, <2>4 DEF TypeOK
    <3>2. Count(v)' = Count(v)
      BY <2>2, <2>4 DEF Count, TypeOK
    <3> QED BY <1>0, <2>2, <3>1, <3>2, QuietCreated
  <2> QED BY <2>3, <2>4
<1>8. ASSUME NEW w \in Workers, Commit(w) PROVE CreatedOK(v)'
  BY <1>8, EndTxCreated DEF Commit, CreatedInv
<1>9. ASSUME NEW w \in Workers, Ends(w) PROVE CreatedOK(v)'
  BY <1>9, EndTxCreated
     DEF Ends, RejectLine, UniqueViolation, Abort, DeadlockVictim, Rollback, CreatedInv
<1> QED
  BY <1>1, <1>2, <1>3, <1>4, <1>5, <1>6, <1>7, <1>8, <1>9 DEF Next, Advance, Ends

-----------------------------------------------------------------------------

\* Only a commit changes the ledger lines and the committed keys.
LEMMA OnlyCommitPosts ==
    ASSUME [Next]_vars
    PROVE  \/ UNCHANGED <<posted, book>>
           \/ \E w \in Workers: Commit(w)
  BY DEF Next, Advance, PostJournal, FindExisting, CheckLine, RejectLine, InsertTransaction,
         UniqueViolation, ReadAccount, WriteLine, Abort, DeadlockVictim, Rollback,
         committedVars, vars

LEMMA OnceStep ==
    ASSUME TypeOK, KeysInv, CreatedInv, OneJournalPerKey, [Next]_vars
    PROVE  OneJournalPerKey'
<1>1. CASE UNCHANGED <<posted, book>>
  BY <1>1 DEF OneJournalPerKey
<1>2. ASSUME NEW w \in Workers, Commit(w) PROVE OneJournalPerKey'
  <2>1. /\ book' = book \o created[w] /\ HasInserted(w)
        /\ book \in Seq(LedgerLine) /\ created[w] \in Seq(LedgerLine)
    BY <1>2 DEF Commit, HasInserted, TypeOK
  <2> DEFINE n == Len(book)
  <2>2. n \in Nat /\ Len(created[w]) \in Nat /\ Len(book') = n + Len(created[w])
    BY <2>1
  <2>3. ASSUME NEW i \in 1..n PROVE book'[i] = book[i] /\ book[i].key # key[w]
    BY <2>1 DEF KeysInv, Owned, BookKeys
  <2>4. ASSUME NEW i \in 1..Len(book'), i \notin 1..n
        PROVE  book'[i].key = key[w] /\ book'[i].idx = i - n
    <3>1. i - n \in 1..Len(created[w]) /\ book'[i] = created[w][i - n]
      BY <2>1, <2>2, <2>4
    <3> QED BY <3>1 DEF CreatedInv, CreatedOK
  <2> SUFFICES ASSUME NEW i \in 1..Len(book'), NEW j \in 1..Len(book'),
                      book'[i].key = book'[j].key, book'[i].idx = book'[j].idx
               PROVE  i = j
    BY DEF OneJournalPerKey
  <2>5. CASE i \in 1..n /\ j \in 1..n
    BY <2>3, <2>5 DEF OneJournalPerKey
  <2>6. CASE i \notin 1..n /\ j \notin 1..n
    BY <2>2, <2>4, <2>6
  <2>7. CASE i \in 1..n /\ j \notin 1..n
    BY <2>3, <2>4, <2>7
  <2>8. CASE i \notin 1..n /\ j \in 1..n
    BY <2>3, <2>4, <2>8
  <2> QED BY <2>5, <2>6, <2>7, <2>8
<1> QED BY <1>1, <1>2, OnlyCommitPosts

LEMMA WholeStep ==
    ASSUME TypeOK, KeysInv, CreatedInv, WholeJournals, [Next]_vars
    PROVE  WholeJournals'
<1>1. CASE UNCHANGED <<posted, book>>
  BY <1>1 DEF WholeJournals
<1>2. ASSUME NEW w \in Workers, Commit(w) PROVE WholeJournals'
  <2>1. /\ book' = book \o created[w] /\ posted' = posted \union {key[w]}
        /\ book \in Seq(LedgerLine) /\ created[w] \in Seq(LedgerLine)
        /\ Len(created[w]) = Len(Journal[key[w]])
    BY <1>2 DEF Commit, TypeOK, CreatedInv, CreatedOK, Count
  <2>2. ASSUME NEW k \in posted', NEW m \in 1..Len(Journal[k])
        PROVE  \E i \in 1..Len(book'): book'[i].key = k /\ book'[i].idx = m
    <3>1. CASE k \in posted
      <4>1. PICK i \in 1..Len(book): book[i].key = k /\ book[i].idx = m
        BY <3>1 DEF WholeJournals
      <4>2. i \in 1..Len(book') /\ book'[i] = book[i]
        BY <2>1
      <4> QED BY <4>1, <4>2
    <3>2. CASE k = key[w]
      <4>1. m \in 1..Len(created[w])
        BY <2>1, <3>2
      <4>2. Len(book) + m \in 1..Len(book') /\ book'[Len(book) + m] = created[w][m]
        BY <2>1, <4>1
      <4>3. created[w][m].key = k /\ created[w][m].idx = m
        BY <3>2, <4>1 DEF CreatedInv, CreatedOK
      <4> QED BY <4>2, <4>3
    <3> QED BY <2>1, <3>1, <3>2
  <2>3. BookKeys'
    BY <1>2, CommitKeys DEF KeysInv
  <2> QED BY <2>2, <2>3 DEF WholeJournals, BookKeys
<1> QED BY <1>1, <1>2, OnlyCommitPosts

LEMMA InvInit == Init => KeysInv /\ CreatedInv /\ OneJournalPerKey /\ WholeJournals
  <1> SUFFICES ASSUME Init PROVE KeysInv /\ CreatedInv /\ OneJournalPerKey /\ WholeJournals
    OBVIOUS
  <1>1. book = << >> /\ posted = {} /\ Len(book) = 0
    BY DEF Init
  <1>2. KeysInv
    BY <1>1 DEF Init, KeysInv, Owned, Exclusive, BookKeys, HasInserted
  <1>3. CreatedInv
    BY DEF Init, CreatedInv, CreatedOK, Count
  <1> QED BY <1>1, <1>2, <1>3 DEF OneJournalPerKey, WholeJournals

\* For any number of concurrent handlers: however they interleave, retry, abort
\* or deadlock, a key's journal is in the ledger at most once.
THEOREM PostedOnce == Spec => []OneJournalPerKey
  <1>1. TypeOK /\ KeysInv /\ CreatedInv /\ OneJournalPerKey /\ [Next]_vars
          => (TypeOK /\ KeysInv /\ CreatedInv /\ OneJournalPerKey)'
    BY TypeStep, KeysStep, CreatedStep, OnceStep
  <1> QED BY <1>1, TypeInit, InvInit, PTL DEF Spec

\* ... and it is there with all of its lines, or with none.
THEOREM PostedWhole == Spec => []WholeJournals
  <1>1. TypeOK /\ KeysInv /\ CreatedInv /\ WholeJournals /\ [Next]_vars
          => (TypeOK /\ KeysInv /\ CreatedInv /\ WholeJournals)'
    BY TypeStep, KeysStep, CreatedStep, WholeStep
  <1> QED BY <1>1, TypeInit, InvInit, PTL DEF Spec

-----------------------------------------------------------------------------
(* The line an account's balance comes from.                                *)

LastCreated(w, a, i) ==
    /\ created[w][i].account = a
    /\ \A j \in (i + 1)..Len(created[w]): created[w][j].account # a

\* An uncommitted balance is the balanceAfter of the handler's own last line on
\* the account, and an account without such a line is not written.
WrittenOK(w) ==
    /\ \A a \in Accounts: written[w][a] # None =>
          \E i \in 1..Len(created[w]): created[w][i].account = a
    /\ \A a \in Accounts: \A i \in 1..Len(created[w]):
          LastCreated(w, a, i) => written[w][a] = created[w][i].balanceAfter

WrittenInv == \A w \in Workers: WrittenOK(w)

\* Only WriteLine adds an uncommitted balance or line; the rest keep or drop both.
LEMMA WrittenKept ==
    ASSUME TypeOK, [Next]_vars, NEW v \in Workers, ~WriteLine(v)
    PROVE  \/ created'[v] = created[v] /\ written'[v] = written[v]
           \/ created'[v] = << >> /\ written'[v] = NoBalances
<1>1. CASE UNCHANGED vars
  BY <1>1 DEF vars
<1>2. ASSUME NEW w \in Workers, NEW k \in Keys, PostJournal(w, k)
      PROVE  created'[v] = created[v] /\ written'[v] = written[v]
  BY <1>2 DEF PostJournal
<1>3. ASSUME NEW w \in Workers, NEW how, EndTx(w, how)
      PROVE  \/ created'[v] = created[v] /\ written'[v] = written[v]
             \/ created'[v] = << >> /\ written'[v] = NoBalances
  BY <1>3 DEF EndTx, TypeOK
<1>4. ASSUME NEW w \in Workers, CheckLine(w) \/ InsertTransaction(w) \/ ReadAccount(w)
      PROVE  created'[v] = created[v] /\ written'[v] = written[v]
  BY <1>4 DEF CheckLine, InsertTransaction, ReadAccount
<1>5. ASSUME NEW w \in Workers, WriteLine(w)
      PROVE  created'[v] = created[v] /\ written'[v] = written[v]
  BY <1>5 DEF WriteLine, TypeOK
<1>6. ASSUME NEW w \in Workers, FindExisting(w)
      PROVE  \/ created'[v] = created[v] /\ written'[v] = written[v]
             \/ EndTx(w, "duplicate")
  BY <1>6 DEF FindExisting
<1>7. ASSUME NEW w \in Workers, Ends(w) \/ Commit(w)
      PROVE  EndTx(w, "error") \/ EndTx(w, "posted")
  BY <1>7 DEF Ends, RejectLine, UniqueViolation, Abort, DeadlockVictim, Rollback, Commit
<1> QED
  BY <1>1, <1>2, <1>3, <1>4, <1>5, <1>6, <1>7 DEF Next, Advance, Ends

LEMMA WrittenStep == TypeOK /\ WrittenInv /\ [Next]_vars => WrittenInv'
<1> SUFFICES ASSUME TypeOK, WrittenInv, [Next]_vars, NEW v \in Workers PROVE WrittenOK(v)'
  BY DEF WrittenInv
<1>0. WrittenOK(v) /\ created[v] \in Seq(LedgerLine)
  BY DEF WrittenInv, TypeOK
<1>1. CASE ~WriteLine(v)
  <2>1. CASE created'[v] = created[v] /\ written'[v] = written[v]
    BY <1>0, <2>1 DEF WrittenOK, LastCreated
  <2>2. CASE created'[v] = << >> /\ written'[v] = NoBalances
    BY <2>2 DEF WrittenOK, LastCreated, NoBalances
  <2> QED BY <1>1, <2>1, <2>2, WrittenKept
<1>2. CASE WriteLine(v)
  <2> DEFINE b == CurrentLine(v).account
             next == account[v] + CurrentLine(v).delta
             row == [key |-> key[v], idx |-> at[v], account |-> b,
                     delta |-> CurrentLine(v).delta, balanceAfter |-> next]
             n == Len(created[v])
  <2>1. /\ created'[v] = Append(created[v], row)
        /\ written'[v] = [written[v] EXCEPT ![b] = next]
        /\ b \in Accounts /\ next \in Int
    <3>1. b \in Accounts /\ CurrentLine(v).delta \in Int /\ account[v] \in Int
      BY <1>2, CurrentLineType DEF WriteLine, TypeOK
    <3>2. /\ created' = [created EXCEPT ![v] = Append(@, row)]
          /\ written' = [written EXCEPT ![v][b] = next]
      BY <1>2 DEF WriteLine
    <3>3. next \in Int
      BY <3>1
    <3> HIDE DEF row, next, b
    <3> QED BY <3>1, <3>2, <3>3 DEF TypeOK
  <2>2. row.account = b /\ row.balanceAfter = next
    OBVIOUS
  <2>3. n \in Nat /\ written[v] \in [Accounts -> Int \union {None}] /\ None # next
    BY <1>0, <2>1, WorkersAssumption DEF TypeOK
  <2> HIDE DEF row, next, b
  <2>4. /\ Len(created'[v]) = n + 1 /\ created'[v][n + 1] = row
        /\ \A i \in 1..n: created'[v][i] = created[v][i]
    BY <1>0, <2>1
  <2> HIDE DEF n
  <2>5. ASSUME NEW a \in Accounts, written'[v][a] # None
        PROVE  \E i \in 1..Len(created'[v]): created'[v][i].account = a
    <3>1. CASE a = b
      BY <2>2, <2>3, <2>4, <3>1
    <3>2. CASE a # b
      <4>1. PICK i \in 1..n: created[v][i].account = a
        BY <1>0, <2>1, <2>3, <2>5, <3>2 DEF WrittenOK, n
      <4> QED BY <2>3, <2>4, <4>1
    <3> QED BY <3>1, <3>2
  <2>6. ASSUME NEW a \in Accounts, NEW i \in 1..Len(created'[v]), LastCreated(v, a, i)'
        PROVE  written'[v][a] = created'[v][i].balanceAfter
    <3>0. /\ created'[v][i].account = a
          /\ \A j \in (i + 1)..(n + 1): created'[v][j].account # a
      BY <2>4, <2>6 DEF LastCreated
    <3>1. CASE i = n + 1
      BY <2>1, <2>2, <2>3, <2>4, <3>0, <3>1
    <3>2. CASE i # n + 1
      <4>1. i \in 1..n /\ n + 1 \in (i + 1)..(n + 1)
        BY <2>3, <2>4, <3>2
      <4>2. a # b
        BY <2>2, <2>4, <3>0, <4>1
      <4>3. LastCreated(v, a, i)
        <5>1. \A j \in (i + 1)..n: j \in (i + 1)..(n + 1) /\ j \in 1..n
          BY <2>3, <4>1
        <5> QED BY <2>4, <3>0, <4>1, <5>1 DEF LastCreated, n
      <4>4. written[v][a] = created[v][i].balanceAfter
        BY <1>0, <4>1, <4>3 DEF WrittenOK, n
      <4> QED BY <2>1, <2>3, <2>4, <4>1, <4>2, <4>4
    <3> QED BY <3>1, <3>2
  <2> QED BY <2>5, <2>6 DEF WrittenOK
<1> QED BY <1>1, <1>2

LEMMA LastLineStep ==
    ASSUME TypeOK, WrittenInv, BalanceIsLastLine, [Next]_vars
    PROVE  BalanceIsLastLine'
<1>1. CASE UNCHANGED <<balance, book>>
  BY <1>1 DEF BalanceIsLastLine, LastLineOf
<1>2. ASSUME NEW w \in Workers, Commit(w) PROVE BalanceIsLastLine'
  <2> SUFFICES ASSUME NEW i \in 1..Len(book'), NEW a \in Accounts, LastLineOf(a, i)'
               PROVE  balance'[a] = book'[i].balanceAfter
    BY DEF BalanceIsLastLine
  <2> DEFINE n == Len(book)
             m == Len(created[w])
  <2>1. /\ book' = book \o created[w]
        /\ balance'[a] = IF written[w][a] # None THEN written[w][a] ELSE balance[a]
        /\ book \in Seq(LedgerLine) /\ created[w] \in Seq(LedgerLine) /\ WrittenOK(w)
    BY <1>2 DEF Commit, Visible, TypeOK, WrittenInv
  <2>2. /\ n \in Nat /\ m \in Nat /\ Len(book') = n + m
        /\ \A j \in 1..n: book'[j] = book[j]
        /\ \A j \in 1..m: book'[n + j] = created[w][j]
    BY <2>1
  <2>3. /\ book'[i].account = a
        /\ \A j \in (i + 1)..Len(book'): book'[j].account # a
    BY DEF LastLineOf
  <2>4. CASE i \in 1..n
    <3>1. ASSUME NEW j \in 1..m PROVE created[w][j].account # a
      <4>1. n + j \in (i + 1)..Len(book')
        BY <2>2, <2>4
      <4> QED BY <2>2, <2>3, <4>1
    <3>2. balance'[a] = balance[a]
      BY <2>1, <3>1 DEF WrittenOK
    <3>3. LastLineOf(a, i)
      <4>1. \A j \in (i + 1)..n: j \in (i + 1)..Len(book') /\ j \in 1..n
        BY <2>2, <2>4
      <4> QED BY <2>2, <2>3, <2>4, <4>1 DEF LastLineOf
    <3> QED BY <2>2, <2>4, <3>2, <3>3 DEF BalanceIsLastLine
  <2>5. CASE i \notin 1..n
    <3> DEFINE l == i - n
    <3>1. l \in 1..m /\ i = n + l
      BY <2>2, <2>5
    <3>2. book'[i] = created[w][l]
      BY <2>2, <3>1
    <3>3. ASSUME NEW j \in (l + 1)..m PROVE created[w][j].account # a
      <4>1. j \in 1..m /\ n + j \in (i + 1)..Len(book')
        BY <2>2, <3>1
      <4> QED BY <2>2, <2>3, <4>1
    <3>4. written[w][a] = created[w][l].balanceAfter
      BY <2>1, <2>3, <3>1, <3>2, <3>3 DEF WrittenOK, LastCreated
    <3>5. created[w][l].balanceAfter \in Int
      <4>1. created[w][l] \in LedgerLine
        BY <2>1, <3>1
      <4> QED BY <4>1 DEF LedgerLine
    <3> QED BY <2>1, <3>2, <3>4, <3>5, WorkersAssumption
  <2> QED BY <2>4, <2>5
<1>3. UNCHANGED <<balance, book>> \/ \E w \in Workers: Commit(w)
  BY DEF Next, Advance, PostJournal, FindExisting, CheckLine, RejectLine, InsertTransaction,
         UniqueViolation, ReadAccount, WriteLine, Abort, DeadlockVictim, Rollback,
         committedVars, vars
<1> QED BY <1>1, <1>2, <1>3

\* For any number of handlers, lost updates included: the balance a wallet shows
\* is the balanceAfter of the last line the ledger explorer lists for it.
THEOREM BalanceIsShown == Spec => []BalanceIsLastLine
  <1>1. Init => WrittenInv /\ BalanceIsLastLine
    BY DEF Init, WrittenInv, WrittenOK, NoBalances, BalanceIsLastLine
  <1>2. TypeOK /\ WrittenInv /\ BalanceIsLastLine /\ [Next]_vars
          => (TypeOK /\ WrittenInv /\ BalanceIsLastLine)'
    BY TypeStep, WrittenStep, LastLineStep
  <1> QED BY <1>1, <1>2, TypeInit, PTL DEF Spec

-----------------------------------------------------------------------------
(* What the lost update does not reach.  A balance is checked and written    *)
(* from an earlier read; what a handler knows of an account holds until      *)
(* another commit changes that account, and LedgerRaces records which.       *)

\* w is past the key look-up, and may have read balances.
Posting(w) == pc[w] \notin {"idle", "find"}

\* What the first n lines of journal k add to account a.
Partial(k, a, n) ==
    SumFunctionOnSet(Deltas(k), {i \in 1..n: Journal[k][i].account = a})

\* The balance assertNonNegativeAfterDelta starts from.
Seen(w, a) == IF projected[w][a] # None THEN projected[w][a] ELSE balance[a]

LEMMA JournalLines ==
    ASSUME NEW k \in Keys
    PROVE  /\ Len(Journal[k]) \in Nat
           /\ \A i \in 1..Len(Journal[k]):
                 /\ Journal[k][i].account \in Accounts /\ Journal[k][i].delta \in Int
                 /\ Deltas(k)[i] = Journal[k][i].delta
  <1>1. Journal[k] \in Seq(Line)
    BY JournalsAssumption
  <1>2. Len(Journal[k]) \in Nat /\ \A i \in 1..Len(Journal[k]): Journal[k][i] \in Line
    BY <1>1
  <1>3. \A i \in 1..Len(Journal[k]): Deltas(k)[i] = Journal[k][i].delta
    BY DEF Deltas
  <1> QED BY <1>2, <1>3 DEF Line

LEMMA PartialInt ==
    ASSUME NEW k \in Keys, NEW a, NEW n \in 0..Len(Journal[k])
    PROVE  Partial(k, a, n) \in Int
  <1> DEFINE S == {i \in 1..n: Journal[k][i].account = a}
  <1>1. Len(Journal[k]) \in Nat
    BY JournalLines
  <1>2. \A i \in S: Deltas(k)[i] \in Int
    <2>1. \A i \in 1..n: i \in 1..Len(Journal[k])
      BY <1>1
    <2> QED BY <2>1, JournalLines
  <1>3. IsFiniteSet(S)
    <2>1. IsFiniteSet(1..n) /\ S \subseteq 1..n
      BY <1>1, FS_Interval
    <2> HIDE DEF S
    <2> QED BY <2>1, FS_Subset
  <1> HIDE DEF S
  <1>4. SumFunctionOnSet(Deltas(k), S) \in Int
    BY <1>2, <1>3, SumInt
  <1> QED BY <1>4 DEF Partial, S

LEMMA PartialZero ==
    ASSUME NEW k, NEW a
    PROVE  Partial(k, a, 0) = 0
  <1>1. {i \in 1..0: Journal[k][i].account = a} = {}
    OBVIOUS
  <1> QED BY <1>1, SumEmpty DEF Partial

\* One more line adds its delta to its own account.
LEMMA PartialNext ==
    ASSUME NEW k \in Keys, NEW a, NEW n \in 1..Len(Journal[k])
    PROVE  /\ Partial(k, a, n - 1) \in Int
           /\ Partial(k, a, n) = Partial(k, a, n - 1) +
                 IF Journal[k][n].account = a THEN Journal[k][n].delta ELSE 0
  <1> DEFINE S == {i \in 1..(n - 1): Journal[k][i].account = a}
             T == {i \in 1..n: Journal[k][i].account = a}
  <1>1. n - 1 \in 0..Len(Journal[k]) /\ n \in Nat /\ n >= 1
    BY JournalLines
  <1>2. Partial(k, a, n - 1) \in Int
    BY <1>1, PartialInt
  <1>3. CASE Journal[k][n].account # a
    <2>1. T = S
      BY <1>1, <1>3
    <2>2. Partial(k, a, n) = Partial(k, a, n - 1)
      BY <2>1 DEF Partial
    <2> QED BY <1>2, <1>3, <2>2
  <1>4. CASE Journal[k][n].account = a
    <2>1. T = S \union {n} /\ n \notin S
      BY <1>1, <1>4
    <2>2. IsFiniteSet(S)
      <3>0. 1 \in Int /\ n - 1 \in Int
        BY <1>1
      <3>1. IsFiniteSet(1..(n - 1)) /\ S \subseteq 1..(n - 1)
        BY <3>0, FS_Interval, Zenon
      <3> HIDE DEF S
      <3> QED BY <3>1, FS_Subset
    <2>3. /\ \A i \in S: Deltas(k)[i] \in Int
          /\ Deltas(k)[n] \in Int /\ Deltas(k)[n] = Journal[k][n].delta
      <3>1. \A i \in S: i \in 1..Len(Journal[k])
        BY <1>1
      <3> QED BY <3>1, JournalLines
    <2>4. Partial(k, a, n) = SumFunctionOnSet(Deltas(k), S \union {n})
      BY <2>1 DEF Partial
    <2>5. Partial(k, a, n - 1) = SumFunctionOnSet(Deltas(k), S)
      BY DEF Partial
    <2> HIDE DEF S, T
    <2>6. SumFunctionOnSet(Deltas(k), S \union {n}) = SumFunctionOnSet(Deltas(k), S) + Deltas(k)[n]
      BY <2>1, <2>2, <2>3, SumAdd
    <2> QED BY <1>2, <1>4, <2>3, <2>4, <2>5, <2>6
  <1> QED BY <1>2, <1>3, <1>4

LEMMA PartialAll ==
    ASSUME NEW k, NEW a
    PROVE  Partial(k, a, Len(Journal[k])) = Net(k, a)
  BY DEF Partial, Net

LEMMA PartialUntouched ==
    ASSUME NEW k \in Keys, NEW a, NEW n \in 0..Len(Journal[k]),
           \A i \in 1..n: Journal[k][i].account # a
    PROVE  Partial(k, a, n) = 0
  <1>1. {i \in 1..n: Journal[k][i].account = a} = {}
    OBVIOUS
  <1> QED BY <1>1, SumEmpty DEF Partial

\* The accounts w's check still holds for.
Sound(w) == Accounts \ (External \union overtaken[w] \union spoiled)

\* Line i has been checked, and written.
Projects(w, i) == Journal[key[w]][i].account \notin External =>
                        projected[w][Journal[key[w]][i].account] # None

Writes(w, i) == written[w][Journal[key[w]][i].account] # None

\* What a handler knows at each statement: what it has checked, and that the
\* balance it sees is the committed one with its own lines applied.  It knows it
\* of the accounts on which no commit has overtaken its reads.
KnowsOK(w) ==
    /\ overtaken[w] \subseteq Accounts
    /\ pc[w] # "idle" => Balanced(key[w])
    /\ ~Posting(w) => projected[w] = NoBalances /\ overtaken[w] = {}
    /\ pc[w] \notin {"read", "write", "commit"} => written[w] = NoBalances
    /\ pc[w] = "insert" => at[w] = 1
    /\ Posting(w) => \A a \in Accounts: ~Touches(key[w], a) =>
          projected[w][a] = None /\ written[w][a] = None /\ a \notin overtaken[w]

CheckOK(w) ==
    /\ pc[w] = "check" =>
          /\ \A i \in 1..(at[w] - 1): Journal[key[w]][i].delta # 0 /\ Projects(w, i)
          /\ \A a \in Sound(w):
                Seen(w, a) = balance[a] + Partial(key[w], a, at[w] - 1) /\ Seen(w, a) >= 0
    /\ pc[w] \in {"insert", "read", "write", "commit"} =>
          /\ NoZeroLine(key[w])
          /\ \A i \in 1..Len(Journal[key[w]]): Projects(w, i)
          /\ \A a \in Sound(w): balance[a] + Net(key[w], a) >= 0

WriteOK(w) ==
    /\ pc[w] \in {"read", "write"} =>
          /\ \A i \in 1..(at[w] - 1): Writes(w, i)
          /\ \A a \in Accounts \ overtaken[w]:
                Visible(w, a) = balance[a] + Partial(key[w], a, at[w] - 1)
    /\ pc[w] = "write" /\ CurrentLine(w).account \notin overtaken[w] =>
          account[w] = Visible(w, CurrentLine(w).account)
    /\ pc[w] = "commit" =>
          /\ \A i \in 1..Len(Journal[key[w]]): Writes(w, i)
          /\ \A a \in Accounts \ overtaken[w]: Visible(w, a) = balance[a] + Net(key[w], a)

SerialOK(w) == KnowsOK(w) /\ CheckOK(w) /\ WriteOK(w)

\* No account that was never spoiled is overdrawn.
SolventInv == \A a \in Accounts \ (External \union spoiled): balance[a] >= 0

\* The steps of one handler.
Step(w) ==
    \/ \E k \in Keys: PostJournal(w, k)
    \/ Advance(w)
    \/ Abort(w)
    \/ DeadlockVictim(w)

\* Another handler's step leaves v's locals alone, and only a commit changes what
\* is committed.
LEMMA OthersKept ==
    ASSUME TypeOK, NEW w \in Workers, Step(w)
    PROVE  /\ \A v \in Workers \ {w}:
                 /\ pc'[v] = pc[v] /\ key'[v] = key[v] /\ at'[v] = at[v]
                 /\ projected'[v] = projected[v] /\ account'[v] = account[v]
                 /\ written'[v] = written[v]
           /\ UNCHANGED committedVars \/ Commit(w)
<1>1. UNCHANGED committedVars \/ Commit(w)
  BY DEF Step, Advance, PostJournal, FindExisting, CheckLine, RejectLine, InsertTransaction,
         UniqueViolation, ReadAccount, WriteLine, Abort, DeadlockVictim, Rollback
<1>2. ASSUME NEW v \in Workers \ {w}
      PROVE  /\ pc'[v] = pc[v] /\ key'[v] = key[v] /\ at'[v] = at[v]
             /\ projected'[v] = projected[v] /\ account'[v] = account[v]
             /\ written'[v] = written[v]
  <2>1. ASSUME NEW how, EndTx(w, how)
        PROVE  /\ pc'[v] = pc[v] /\ key'[v] = key[v] /\ at'[v] = at[v]
               /\ projected'[v] = projected[v] /\ account'[v] = account[v]
               /\ written'[v] = written[v]
    BY <2>1 DEF EndTx, TypeOK
  <2>2. CASE RejectLine(w) \/ UniqueViolation(w) \/ Abort(w) \/ DeadlockVictim(w) \/ Commit(w)
    BY <2>1, <2>2 DEF RejectLine, UniqueViolation, Abort, DeadlockVictim, Rollback, Commit
  <2>3. CASE FindExisting(w)
    BY <2>1, <2>3 DEF FindExisting, TypeOK
  <2>4. ASSUME NEW k \in Keys, PostJournal(w, k)
        PROVE  /\ pc'[v] = pc[v] /\ key'[v] = key[v] /\ at'[v] = at[v]
               /\ projected'[v] = projected[v] /\ account'[v] = account[v]
               /\ written'[v] = written[v]
    BY <2>4 DEF PostJournal, TypeOK
  <2>5. CASE CheckLine(w)
    BY <2>5 DEF CheckLine, TypeOK
  <2>6. CASE InsertTransaction(w) \/ ReadAccount(w) \/ WriteLine(w)
    BY <2>6 DEF InsertTransaction, ReadAccount, WriteLine, TypeOK
  <2> QED BY <2>2, <2>3, <2>4, <2>5, <2>6 DEF Step, Advance
<1> QED BY <1>1, <1>2

\* The history after a step of u.
LEMMA RacesOfStep ==
    ASSUME TypeOK, KeysInv, NEW u \in Workers, Step(u), RecordRaces
    PROVE  /\ pc'[u] = "idle" => overtaken'[u] = {}
           /\ pc'[u] # "idle" => overtaken'[u] = overtaken[u] /\ UNCHANGED committedVars
           /\ UNCHANGED committedVars => spoiled' = spoiled
           /\ Commit(u) => spoiled' = spoiled \union overtaken[u]
<1>1. overtaken'[u] = IF pc'[u] = "idle" THEN {} ELSE
            overtaken[u] \union {a \in Accounts: HasRead(u, a) /\ balance'[a] # balance[a]}
  BY DEF RecordRaces
<1>2. pc'[u] # "idle" => UNCHANGED committedVars
  <2>1. Commit(u) => pc'[u] = "idle"
    BY DEF Commit, EndTx, TypeOK
  <2> QED BY <2>1, OthersKept
<1>3. pc'[u] # "idle" => overtaken'[u] = overtaken[u]
  <2>1. UNCHANGED committedVars => {a \in Accounts: HasRead(u, a) /\ balance'[a] # balance[a]} = {}
    BY DEF committedVars
  <2> QED BY <1>1, <1>2, <2>1
<1>4. ASSUME UNCHANGED committedVars PROVE spoiled' = spoiled
  <2>1. ASSUME NEW v \in Workers, Commit(v) PROVE FALSE
    <3>1. pc[v] = "commit" /\ posted' = posted \union {key[v]}
      BY <2>1 DEF Commit
    <3>2. key[v] \notin posted
      BY <3>1 DEF KeysInv, Owned, HasInserted
    <3> QED BY <1>4, <3>1, <3>2 DEF committedVars
  <2>2. {v \in Workers: Commit(v)} = {}
    BY <2>1
  <2>3. UNION {overtaken[w]: w \in {v \in Workers: Commit(v)}} = {}
    BY <2>2
  <2> QED BY <2>3 DEF RecordRaces
<1>5. ASSUME Commit(u) PROVE spoiled' = spoiled \union overtaken[u]
  <2>1. ASSUME NEW v \in Workers, Commit(v), v # u PROVE FALSE
    <3>1. /\ pc[u] = "commit" /\ pc'[u] = pc[u] /\ pc' = [pc EXCEPT ![u] = "idle"]
      BY <1>5, <2>1 DEF Commit, EndTx, TypeOK
    <3> QED BY <3>1 DEF TypeOK
  <2>2. {v \in Workers: Commit(v)} = {u}
    BY <1>5, <2>1
  <2>3. UNION {overtaken[w]: w \in {v \in Workers: Commit(v)}} = overtaken[u]
    BY <2>2
  <2> QED BY <2>3 DEF RecordRaces
<1> QED BY <1>1, <1>2, <1>3, <1>4, <1>5

LEMMA SerialEnds ==
    ASSUME TypeOK, NEW w \in Workers, NEW how, EndTx(w, how), overtaken'[w] = {}
    PROVE  SerialOK(w)'
  <1>1. pc'[w] = "idle" /\ projected'[w] = NoBalances /\ written'[w] = NoBalances
    BY DEF EndTx, TypeOK
  <1> QED BY <1>1 DEF SerialOK, KnowsOK, CheckOK, WriteOK, NoBalances, Posting

\* A handler's own step keeps what it knows.
LEMMA SerialOwn ==
    ASSUME NEW u \in Workers, TypeOK, KeysInv, SolventInv, SerialOK(u), Step(u), RecordRaces
    PROVE  SerialOK(u)'
<1>0. u \in Workers /\ NoBalances \in [Accounts -> {None}] /\ None \notin Int
  BY WorkersAssumption DEF NoBalances
<1>1. /\ pc'[u] = "idle" => overtaken'[u] = {}
      /\ pc'[u] # "idle" => /\ overtaken'[u] = overtaken[u] /\ UNCHANGED committedVars
                            /\ Sound(u)' = Sound(u)
      /\ KnowsOK(u) /\ CheckOK(u) /\ WriteOK(u)
  BY RacesOfStep DEF Sound, SerialOK
<1>2. ASSUME NEW k \in Keys, PostJournal(u, k) PROVE SerialOK(u)'
  <2>1. pc[u] = "idle" /\ UNCHANGED <<balance, projected, written>>
    BY <1>2 DEF PostJournal, committedVars
  <2>2. pc'[u] = "idle" \/ (pc'[u] = "find" /\ key'[u] = k /\ Balanced(k))
    BY <1>0, <1>2 DEF PostJournal, TypeOK
  <2>3. overtaken'[u] = {}
    BY <1>1, <2>1, <2>2 DEF KnowsOK, Posting
  <2> QED BY <1>1, <2>1, <2>2, <2>3 DEF SerialOK, KnowsOK, CheckOK, WriteOK, Posting
<1>3. CASE FindExisting(u)
  <2>1. CASE key[u] \in posted
    <3>1. EndTx(u, "duplicate")
      BY <1>3, <2>1 DEF FindExisting
    <3>2. overtaken'[u] = {}
      BY <1>1, <3>1 DEF EndTx, TypeOK
    <3> QED BY <3>1, <3>2, SerialEnds
  <2>2. CASE key[u] \notin posted
    <3>1. /\ pc[u] = "find" /\ pc'[u] = "check" /\ at'[u] = 1
          /\ UNCHANGED <<balance, key, projected, written>>
          /\ overtaken'[u] = overtaken[u] /\ Sound(u)' = Sound(u)
      BY <1>0, <1>1, <1>3, <2>2 DEF FindExisting, TypeOK, committedVars
    <3>2. /\ Balanced(key'[u]) /\ projected[u] = NoBalances /\ written'[u] = NoBalances
          /\ overtaken'[u] = {}
      BY <1>1, <3>1 DEF KnowsOK, Posting
    <3>3. \A i \in 1..(at'[u] - 1): Journal[key'[u]][i].delta # 0 /\ Projects(u, i)'
      BY <3>1
    <3>4. ASSUME NEW a \in Sound(u)
          PROVE  /\ Seen(u, a)' = balance'[a] + Partial(key'[u], a, at'[u] - 1)
                 /\ Seen(u, a)' >= 0
      <4>1. Seen(u, a)' = balance[a] /\ a \in Accounts
        BY <1>0, <3>1, <3>2 DEF Seen, Sound
      <4>2. balance[a] >= 0 /\ balance[a] \in Int
        BY DEF SolventInv, TypeOK, Sound
      <4>3. at'[u] - 1 = 0 /\ Partial(key'[u], a, 0) = 0
        BY <3>1, PartialZero
      <4>4. Partial(key'[u], a, at'[u] - 1) = 0
        BY <4>3, Zenon
      <4> QED BY <3>1, <4>1, <4>2, <4>4
    <3>5. \A a \in Accounts: projected'[u][a] = None /\ written'[u][a] = None
      BY <3>1, <3>2 DEF NoBalances
    <3>6. KnowsOK(u)'
      BY <3>1, <3>2, <3>5 DEF KnowsOK, Posting
    <3>7. CheckOK(u)' /\ WriteOK(u)'
      BY <3>1, <3>3, <3>4 DEF CheckOK, WriteOK
    <3> QED BY <3>6, <3>7 DEF SerialOK
  <2> QED BY <2>1, <2>2
<1>4. CASE CheckLine(u)
  <2> DEFINE k == key[u]
             n == at[u]
             b == CurrentLine(u).account
             d == CurrentLine(u).delta
  <2>1. /\ pc[u] = "check" /\ k \in Keys /\ n \in 1..Len(Journal[k])
        /\ b \in Accounts /\ d \in Int /\ d # 0 /\ Len(Journal[k]) \in Nat
        /\ b = Journal[k][n].account /\ d = Journal[k][n].delta
    BY <1>0, <1>4, CurrentLineType, JournalLines DEF CheckLine, CheckPasses, CurrentLine
  <2>2. /\ UNCHANGED <<balance, posted, key, written>>
        /\ b \notin External => Seen(u, b) + d >= 0
        /\ projected' = IF b \in External THEN projected
                        ELSE [projected EXCEPT ![u][b] = Seen(u, b) + d]
        /\ \/ /\ n < Len(Journal[k])
              /\ at'[u] = n + 1 /\ pc'[u] = "check"
           \/ /\ n = Len(Journal[k])
              /\ at'[u] = 1 /\ pc'[u] = "insert"
    BY <1>0, <1>4, <2>1
       DEF CheckLine, CheckPasses, NextProjected, Seen, TypeOK, committedVars
  <2> HIDE DEF b, d
  <2>3. /\ Balanced(k) /\ written[u] = NoBalances /\ overtaken[u] \subseteq Accounts
        /\ overtaken'[u] = overtaken[u] /\ Sound(u)' = Sound(u)
        /\ \A i \in 1..(n - 1): Journal[k][i].delta # 0 /\ Projects(u, i)
        /\ \A a \in Sound(u): Seen(u, a) = balance[a] + Partial(k, a, n - 1) /\ Seen(u, a) >= 0
        /\ \A a \in Accounts: ~Touches(k, a) =>
              projected[u][a] = None /\ written[u][a] = None /\ a \notin overtaken[u]
    BY <1>1, <2>1, <2>2 DEF KnowsOK, CheckOK, Posting
  <2>p. Seen(u, b) + d \in Int /\ projected \in [Workers -> [Accounts -> Int \union {None}]]
    BY <2>1 DEF TypeOK, Seen
  <2>4. \A i \in 1..n: Journal[k][i].delta # 0 /\ Projects(u, i)'
    <3>1. \A i \in 1..n: i = n \/ i \in 1..(n - 1)
      BY <2>1
    <3>2. \A a \in Accounts: projected[u][a] # None => projected'[u][a] # None
      BY <1>0, <2>2, <2>p
    <3>3. ASSUME NEW i \in 1..(n - 1) PROVE Projects(u, i)'
      <4>1. Journal[k][i].account \in Accounts
        BY <2>1, <3>3, JournalLines
      <4> QED BY <2>2, <2>3, <3>2, <4>1 DEF Projects
    <3>4. b \notin External => projected'[u][b] # None
      BY <1>0, <2>1, <2>2, <2>p
    <3>5. ASSUME NEW i \in 1..n, i = n PROVE Projects(u, i)'
      <4>1. Journal[k][i].account = b
        BY <2>1, <3>5
      <4> QED BY <2>2, <3>4, <4>1 DEF Projects
    <3> QED BY <2>1, <2>3, <3>1, <3>3, <3>5
  <2>5. ASSUME NEW a \in Sound(u)
        PROVE  /\ Seen(u, a)' = balance[a] + Partial(k, a, n)
               /\ Seen(u, a)' >= 0
    <3>0. /\ Partial(k, a, n - 1) \in Int
          /\ Partial(k, a, n) = Partial(k, a, n - 1) + IF b = a THEN d ELSE 0
          /\ a \in Accounts \ External
      BY <2>1, PartialNext DEF Sound
    <3>1. /\ Seen(u, a) = balance[a] + Partial(k, a, n - 1) /\ Seen(u, a) >= 0
          /\ balance[a] \in Int
      BY <2>3, <3>0 DEF TypeOK
    <3>3. CASE a = b
      <4>1. projected'[u][b] = Seen(u, b) + d
        BY <1>0, <2>1, <2>2, <2>p, <3>0, <3>3
      <4>2. Seen(u, a)' = Seen(u, a) + d /\ Seen(u, a) + d >= 0
        BY <1>0, <2>2, <2>p, <3>0, <3>3, <4>1 DEF Seen
      <4> QED BY <2>1, <3>0, <3>1, <3>3, <4>2
    <3>4. CASE a # b
      <4>1. projected'[u][a] = projected[u][a]
        BY <1>0, <2>1, <2>2, <2>p, <3>0, <3>4
      <4>2. Seen(u, a)' = Seen(u, a)
        BY <2>2, <4>1 DEF Seen
      <4> QED BY <3>0, <3>1, <3>4, <4>2
    <3> QED BY <3>3, <3>4
  <2>8. ASSUME NEW a \in Accounts, ~Touches(k, a)
        PROVE  projected'[u][a] = None /\ written'[u][a] = None
    <3>1. a # b
      BY <2>1, <2>8 DEF Touches
    <3> QED BY <1>0, <2>1, <2>2, <2>3, <2>8, <3>1 DEF TypeOK
  <2>6. CASE pc'[u] = "check"
    <3>1. at'[u] = n + 1 /\ at'[u] - 1 = n
      BY <2>1, <2>2, <2>6
    <3>2. /\ \A i \in 1..(at'[u] - 1): Journal[key'[u]][i].delta # 0 /\ Projects(u, i)'
          /\ \A a \in Sound(u)':
                /\ Seen(u, a)' = balance'[a] + Partial(key'[u], a, at'[u] - 1)
                /\ Seen(u, a)' >= 0
      BY <2>2, <2>3, <2>4, <2>5, <3>1
    <3> HIDE DEF k, n
    <3>3. KnowsOK(u)'
      BY <2>2, <2>3, <2>6, <2>8 DEF KnowsOK, Posting, k
    <3>4. CheckOK(u)' /\ WriteOK(u)'
      BY <2>6, <3>2 DEF CheckOK, WriteOK
    <3> QED BY <3>3, <3>4 DEF SerialOK
  <2>7. CASE pc'[u] = "insert"
    <3>1. n = Len(Journal[k]) /\ at'[u] = 1
      BY <2>2, <2>7
    <3>2. NoZeroLine(k) /\ \A i \in 1..Len(Journal[k]): Projects(u, i)'
      BY <2>4, <3>1 DEF NoZeroLine
    <3>3. \A a \in Sound(u): balance[a] + Net(k, a) >= 0
      BY <2>5, <3>1, PartialAll
    <3> HIDE DEF k, n
    <3>4. KnowsOK(u)'
      BY <2>2, <2>3, <2>7, <2>8, <3>1 DEF KnowsOK, Posting, k
    <3>5. CheckOK(u)' /\ WriteOK(u)'
      BY <2>2, <2>3, <2>7, <3>2, <3>3 DEF CheckOK, WriteOK, k
    <3> QED BY <3>4, <3>5 DEF SerialOK
  <2> QED BY <2>2, <2>6, <2>7
<1>5. CASE InsertTransaction(u)
  <2>1. /\ pc[u] = "insert" /\ pc'[u] = "read"
        /\ UNCHANGED <<balance, posted, key, at, projected, written>>
        /\ overtaken'[u] = overtaken[u] /\ Sound(u)' = Sound(u)
    BY <1>0, <1>1, <1>5 DEF InsertTransaction, TypeOK, committedVars
  <2>2. written[u] = NoBalances /\ at[u] = 1
    BY <1>1, <2>1 DEF KnowsOK
  <2>3. ASSUME NEW a \in Accounts
        PROVE  Visible(u, a)' = balance'[a] + Partial(key'[u], a, at'[u] - 1)
    <3>1. Visible(u, a)' = balance[a] /\ balance[a] \in Int
      BY <1>0, <2>1, <2>2 DEF Visible, TypeOK
    <3>2. at'[u] - 1 = 0 /\ Partial(key'[u], a, 0) = 0
      BY <2>1, <2>2, PartialZero
    <3>3. Partial(key'[u], a, at'[u] - 1) = 0
      BY <3>2, Zenon
    <3> QED BY <2>1, <3>1, <3>3
  <2>4. \A i \in 1..(at'[u] - 1): Writes(u, i)'
    BY <2>1, <2>2
  <2>5. KnowsOK(u)'
    BY <1>1, <2>1 DEF KnowsOK, Posting
  <2>6. CheckOK(u)'
    BY <1>1, <2>1 DEF CheckOK, Projects
  <2>7. WriteOK(u)'
    BY <2>1, <2>3, <2>4 DEF WriteOK
  <2> QED BY <2>5, <2>6, <2>7 DEF SerialOK
<1>6. CASE ReadAccount(u)
  <2>1. /\ pc[u] = "read" /\ pc'[u] = "write"
        /\ account'[u] = Visible(u, CurrentLine(u).account)
        /\ UNCHANGED <<balance, posted, key, at, projected, written>>
        /\ overtaken'[u] = overtaken[u] /\ Sound(u)' = Sound(u)
    BY <1>0, <1>1, <1>6 DEF ReadAccount, TypeOK, committedVars
  <2>2. KnowsOK(u)'
    BY <1>1, <2>1 DEF KnowsOK, Posting
  <2>3. CheckOK(u)'
    BY <1>1, <2>1 DEF CheckOK, Projects
  <2>4. WriteOK(u)'
    BY <1>1, <2>1 DEF WriteOK, Writes, Visible, CurrentLine
  <2> QED BY <2>2, <2>3, <2>4 DEF SerialOK
<1>7. CASE WriteLine(u)
  <2> DEFINE k == key[u]
             n == at[u]
             b == CurrentLine(u).account
             d == CurrentLine(u).delta
  <2>1. /\ pc[u] = "write" /\ k \in Keys /\ n \in 1..Len(Journal[k])
        /\ b \in Accounts /\ d \in Int /\ Len(Journal[k]) \in Nat
        /\ b = Journal[k][n].account /\ d = Journal[k][n].delta
    BY <1>0, <1>7, CurrentLineType, JournalLines DEF WriteLine, CurrentLine
  <2>2. /\ UNCHANGED <<balance, posted, key, projected>>
        /\ written' = [written EXCEPT ![u][b] = account[u] + d]
        /\ \/ /\ n < Len(Journal[k])
              /\ at'[u] = n + 1 /\ pc'[u] = "read"
           \/ /\ n = Len(Journal[k])
              /\ pc'[u] = "commit"
    BY <1>0, <1>7, <2>1 DEF WriteLine, TypeOK, committedVars
  <2>3. /\ b \notin overtaken[u] => account[u] = Visible(u, b)
        /\ account[u] + d \in Int
        /\ written \in [Workers -> [Accounts -> Int \union {None}]]
    BY <1>1, <2>1 DEF WriteOK, TypeOK
  <2> HIDE DEF b, d
  <2>4. /\ overtaken'[u] = overtaken[u] /\ Sound(u)' = Sound(u) /\ overtaken[u] \subseteq Accounts
        /\ \A i \in 1..(n - 1): Writes(u, i)
        /\ \A a \in Accounts \ overtaken[u]: Visible(u, a) = balance[a] + Partial(k, a, n - 1)
        /\ Balanced(k)
        /\ \A a \in Accounts: ~Touches(k, a) =>
              projected[u][a] = None /\ written[u][a] = None /\ a \notin overtaken[u]
    BY <1>1, <2>1, <2>2 DEF KnowsOK, WriteOK, Posting
  <2>5. ASSUME NEW a \in Accounts \ overtaken[u]
        PROVE  Visible(u, a)' = balance[a] + Partial(k, a, n)
    <3>0. /\ Partial(k, a, n - 1) \in Int
          /\ Partial(k, a, n) = Partial(k, a, n - 1) + IF b = a THEN d ELSE 0
      BY <2>1, PartialNext
    <3>1. Visible(u, a) = balance[a] + Partial(k, a, n - 1) /\ balance[a] \in Int
      BY <2>4 DEF TypeOK
    <3>3. CASE a = b
      <4>1. written'[u][b] = account[u] + d
        BY <1>0, <2>1, <2>2, <2>3
      <4>2. Visible(u, a)' = Visible(u, a) + d
        BY <1>0, <2>3, <3>3, <4>1 DEF Visible
      <4> QED BY <2>1, <3>0, <3>1, <3>3, <4>2
    <3>4. CASE a # b
      <4>1. written'[u][a] = written[u][a]
        BY <1>0, <2>1, <2>2, <2>3, <3>4
      <4>2. Visible(u, a)' = Visible(u, a)
        BY <2>2, <4>1 DEF Visible
      <4> QED BY <3>0, <3>1, <3>4, <4>2
    <3> QED BY <3>3, <3>4
  <2>6. \A i \in 1..n: Writes(u, i)'
    <3>1. \A i \in 1..n: i = n \/ i \in 1..(n - 1)
      BY <2>1
    <3>2. \A a \in Accounts: written[u][a] # None => written'[u][a] # None
      BY <1>0, <2>2, <2>3
    <3>3. ASSUME NEW i \in 1..(n - 1) PROVE Writes(u, i)'
      <4>1. Journal[k][i].account \in Accounts
        BY <2>1, <3>3, JournalLines
      <4> QED BY <2>2, <2>4, <3>2, <4>1 DEF Writes
    <3>4. ASSUME NEW i \in 1..n, i = n PROVE Writes(u, i)'
      <4>1. Journal[k][i].account = b
        BY <2>1, <3>4
      <4>2. written'[u][b] # None
        BY <1>0, <2>1, <2>2, <2>3
      <4> QED BY <2>2, <4>1, <4>2 DEF Writes
    <3> QED BY <3>1, <3>3, <3>4
  <2>7. ASSUME NEW a \in Accounts, ~Touches(k, a)
        PROVE  projected'[u][a] = None /\ written'[u][a] = None
    <3>1. a # b
      BY <2>1, <2>7 DEF Touches
    <3> QED BY <1>0, <2>1, <2>2, <2>4, <2>7, <3>1 DEF TypeOK
  <2>8. KnowsOK(u)'
    <3> HIDE DEF k, n
    <3> QED BY <2>2, <2>4, <2>7 DEF KnowsOK, Posting, k
  <2>9. CheckOK(u)'
    BY <1>1, <2>1, <2>2, <2>4 DEF CheckOK, Projects
  <2>10. WriteOK(u)'
    <3>1. CASE pc'[u] = "read"
      <4>1. at'[u] - 1 = n
        BY <2>1, <2>2, <3>1
      <4>2. /\ \A i \in 1..(at'[u] - 1): Writes(u, i)'
            /\ \A a \in Accounts \ overtaken'[u]:
                  Visible(u, a)' = balance'[a] + Partial(key'[u], a, at'[u] - 1)
        BY <2>2, <2>4, <2>5, <2>6, <4>1
      <4> HIDE DEF k, n
      <4> QED BY <3>1, <4>2 DEF WriteOK
    <3>2. CASE pc'[u] = "commit"
      <4>1. /\ \A i \in 1..Len(Journal[key'[u]]): Writes(u, i)'
            /\ \A a \in Accounts \ overtaken'[u]:
                  Visible(u, a)' = balance'[a] + Net(key'[u], a)
        BY <2>2, <2>4, <2>5, <2>6, <3>2, PartialAll
      <4> HIDE DEF k, n
      <4> QED BY <3>2, <4>1 DEF WriteOK
    <3> QED BY <2>2, <3>1, <3>2
  <2> QED BY <2>8, <2>9, <2>10 DEF SerialOK
<1>8. CASE Commit(u) \/ Ends(u)
  <2>1. PICK how: EndTx(u, how)
    BY <1>8 DEF Commit, Ends, RejectLine, UniqueViolation, Abort, DeadlockVictim, Rollback
  <2>2. overtaken'[u] = {}
    BY <1>1, <2>1 DEF EndTx, TypeOK
  <2> QED BY <2>1, <2>2, SerialEnds
<1> QED BY <1>2, <1>3, <1>4, <1>5, <1>6, <1>7, <1>8 DEF Step, Advance, Ends

\* A commit of w takes from v what v knew of the accounts it had read and w has
\* moved; of an account v has not read yet, v knows as much as before.
LEMMA SerialOther ==
    ASSUME TypeOK, KeysInv, SolventInv', NEW w \in Workers, Step(w), RecordRaces,
           NEW v \in Workers \ {w}, SerialOK(v)
    PROVE  SerialOK(v)'
<1> DEFINE k == key[v]
<1>1. /\ pc'[v] = pc[v] /\ key'[v] = key[v] /\ at'[v] = at[v]
      /\ projected'[v] = projected[v] /\ account'[v] = account[v]
      /\ written'[v] = written[v] /\ CurrentLine(v)' = CurrentLine(v)
  BY OthersKept DEF CurrentLine
<1>2. /\ KnowsOK(v) /\ CheckOK(v) /\ WriteOK(v)
      /\ balance' \in [Accounts -> Int] /\ balance \in [Accounts -> Int]
  <2>1. [Next]_vars
    BY DEF Next, Step
  <2> QED BY <2>1, TypeStep DEF SerialOK, TypeOK
<1>3. overtaken'[v] = IF pc[v] = "idle" THEN {} ELSE
            overtaken[v] \union {a \in Accounts: HasRead(v, a) /\ balance'[a] # balance[a]}
  BY <1>1 DEF RecordRaces
<1>4. spoiled \subseteq spoiled'
  BY DEF RecordRaces
<1>5. CASE ~Posting(v)
  <2>1. ~Posting(v)' /\ projected[v] = NoBalances /\ written[v] = NoBalances
    BY <1>1, <1>2, <1>5 DEF Posting, KnowsOK
  <2>2. \A a \in Accounts: ~HasRead(v, a)
    BY <1>5, <2>1 DEF HasRead, NoBalances, Posting
  <2>3. overtaken'[v] = {}
    <3>1. overtaken[v] = {}
      BY <1>2, <1>5 DEF KnowsOK
    <3> QED BY <1>3, <2>2, <3>1
  <2>4. KnowsOK(v)'
    BY <1>1, <1>2, <2>1, <2>3 DEF KnowsOK, Posting
  <2>5. CheckOK(v)' /\ WriteOK(v)'
    BY <1>1, <1>5 DEF CheckOK, WriteOK, Posting
  <2> QED BY <2>4, <2>5 DEF SerialOK
<1>6. CASE Posting(v)
  <2>1. /\ k \in Keys /\ Len(Journal[k]) \in Nat /\ at[v] \in 1..Len(Journal[k])
        /\ at[v] - 1 \in 0..Len(Journal[k]) /\ pc[v] # "idle"
        /\ CurrentLine(v).account \in Accounts /\ Touches(k, CurrentLine(v).account)
    BY <1>6, JournalLines DEF TypeOK, Posting, CurrentLine, Touches
  <2>2. ASSUME NEW a \in Accounts \ overtaken'[v]
        PROVE  a \notin overtaken[v] /\ (balance'[a] = balance[a] \/ ~HasRead(v, a))
    BY <1>3, <2>1
  <2>3. ASSUME NEW a \in Sound(v)'
        PROVE  a \in Sound(v) /\ balance'[a] >= 0 /\ a \in Accounts \ overtaken'[v] /\ a \notin External
    BY <1>4, <2>2 DEF Sound, SolventInv
  <2>4. KnowsOK(v)'
    <3>1. ASSUME NEW a \in Accounts, ~Touches(k, a) PROVE a \notin overtaken'[v]
      <4>1. /\ projected[v][a] = None /\ written[v][a] = None /\ a \notin overtaken[v]
            /\ CurrentLine(v).account # a
        BY <1>2, <1>6, <2>1, <3>1 DEF KnowsOK
      <4> QED BY <1>3, <2>1, <4>1 DEF HasRead
    <3>2. overtaken'[v] \subseteq Accounts
      BY <1>2, <1>3, <2>1 DEF KnowsOK
    <3> QED BY <1>1, <1>2, <1>6, <3>1, <3>2 DEF KnowsOK, Posting
  <2>5. CheckOK(v)'
    <3>1. ASSUME pc[v] = "check", NEW a \in Sound(v)'
          PROVE  /\ Seen(v, a)' = balance'[a] + Partial(k, a, at[v] - 1)
                 /\ Seen(v, a)' >= 0
      <4>1. CASE balance'[a] = balance[a]
        <5>1. Seen(v, a)' = Seen(v, a)
          BY <1>1, <4>1 DEF Seen
        <5> QED BY <1>2, <2>3, <3>1, <4>1, <5>1 DEF CheckOK
      <4>2. CASE ~HasRead(v, a)
        <5>1. projected[v][a] = None /\ Seen(v, a)' = balance'[a]
          BY <1>1, <4>2 DEF HasRead, Seen
        <5>2. \A i \in 1..(at[v] - 1): Journal[k][i].account # a
          BY <1>2, <2>3, <3>1, <5>1 DEF CheckOK, Projects
        <5>3. Partial(k, a, at[v] - 1) = 0
          BY <2>1, <5>2, PartialUntouched
        <5> QED BY <1>2, <2>3, <5>1, <5>3
      <4> QED BY <2>2, <2>3, <4>1, <4>2
    <3>2. ASSUME pc[v] \in {"insert", "read", "write", "commit"}, NEW a \in Sound(v)'
          PROVE  balance'[a] + Net(k, a) >= 0
      <4>1. CASE balance'[a] = balance[a]
        BY <1>2, <2>3, <3>2, <4>1 DEF CheckOK
      <4>2. CASE ~HasRead(v, a)
        <5>1. projected[v][a] = None
          BY <4>2 DEF HasRead
        <5>2. \A i \in 1..Len(Journal[k]): Journal[k][i].account # a
          BY <1>2, <2>3, <3>2, <5>1 DEF CheckOK, Projects
        <5>3. Net(k, a) = 0
          <6>1. Len(Journal[k]) \in 0..Len(Journal[k])
            BY <2>1
          <6> QED BY <2>1, <5>2, <6>1, PartialUntouched, PartialAll
        <5> QED BY <1>2, <2>3, <5>3
      <4> QED BY <2>2, <2>3, <4>1, <4>2
    <3>3. \A i: Projects(v, i)' <=> Projects(v, i)
      BY <1>1 DEF Projects
    <3> QED BY <1>1, <1>2, <3>1, <3>2, <3>3 DEF CheckOK
  <2>6. WriteOK(v)'
    <3>1. ASSUME pc[v] \in {"read", "write"}, NEW a \in Accounts \ overtaken'[v]
          PROVE  Visible(v, a)' = balance'[a] + Partial(k, a, at[v] - 1)
      <4>1. CASE balance'[a] = balance[a]
        <5>1. Visible(v, a)' = Visible(v, a)
          BY <1>1, <4>1 DEF Visible
        <5> QED BY <1>2, <2>2, <3>1, <4>1, <5>1 DEF WriteOK
      <4>2. CASE ~HasRead(v, a)
        <5>1. written[v][a] = None /\ Visible(v, a)' = balance'[a]
          BY <1>1, <4>2 DEF HasRead, Visible
        <5>2. \A i \in 1..(at[v] - 1): Journal[k][i].account # a
          BY <1>2, <3>1, <5>1 DEF WriteOK, Writes
        <5>3. Partial(k, a, at[v] - 1) = 0
          BY <2>1, <5>2, PartialUntouched
        <5> QED BY <1>2, <5>1, <5>3
      <4> QED BY <2>2, <4>1, <4>2
    <3>2. ASSUME pc[v] = "commit", NEW a \in Accounts \ overtaken'[v]
          PROVE  Visible(v, a)' = balance'[a] + Net(k, a)
      <4>1. CASE balance'[a] = balance[a]
        <5>1. Visible(v, a)' = Visible(v, a)
          BY <1>1, <4>1 DEF Visible
        <5> QED BY <1>2, <2>2, <3>2, <4>1, <5>1 DEF WriteOK
      <4>2. CASE ~HasRead(v, a)
        <5>1. written[v][a] = None /\ Visible(v, a)' = balance'[a]
          BY <1>1, <4>2 DEF HasRead, Visible
        <5>2. \A i \in 1..Len(Journal[k]): Journal[k][i].account # a
          BY <1>2, <3>2, <5>1 DEF WriteOK, Writes
        <5>3. Net(k, a) = 0
          <6>1. Len(Journal[k]) \in 0..Len(Journal[k])
            BY <2>1
          <6> QED BY <2>1, <5>2, <6>1, PartialUntouched, PartialAll
        <5> QED BY <1>2, <5>1, <5>3
      <4> QED BY <2>2, <4>1, <4>2
    <3>3. ASSUME pc[v] = "write", CurrentLine(v).account \notin overtaken'[v]
          PROVE  account'[v] = Visible(v, CurrentLine(v).account)'
      <4> DEFINE b == CurrentLine(v).account
      <4>1. b \in Accounts /\ b \notin overtaken[v] /\ balance'[b] = balance[b]
        BY <2>1, <2>2, <3>3 DEF HasRead
      <4>2. Visible(v, CurrentLine(v).account)' =
              IF written'[v][b] # None THEN written'[v][b] ELSE balance'[b]
        BY <1>1 DEF Visible
      <4>3. account[v] = Visible(v, b)
        BY <1>2, <3>3, <4>1 DEF WriteOK
      <4> QED BY <1>1, <4>1, <4>2, <4>3 DEF Visible
    <3>4. \A i: Writes(v, i)' <=> Writes(v, i)
      BY <1>1 DEF Writes
    <3> QED BY <1>1, <1>2, <3>1, <3>2, <3>3, <3>4 DEF WriteOK
  <2> QED BY <2>4, <2>5, <2>6 DEF SerialOK
<1> QED BY <1>5, <1>6

SerialInv == TypeOK /\ KeysInv /\ CreatedInv /\ SolventInv /\ \A w \in Workers: SerialOK(w)

LEMMA SolventStep ==
    ASSUME TypeOK, KeysInv, SolventInv, NEW w \in Workers, SerialOK(w), Step(w), RecordRaces
    PROVE  SolventInv'
<1>1. CASE UNCHANGED committedVars
  <2>1. spoiled' = spoiled
    BY <1>1, RacesOfStep
  <2> QED BY <1>1, <2>1 DEF SolventInv, committedVars
<1>2. CASE Commit(w)
  <2>1. /\ pc[w] = "commit" /\ \A a \in Accounts: balance'[a] = Visible(w, a)
        /\ spoiled' = spoiled \union overtaken[w]
    BY <1>2, RacesOfStep DEF Commit
  <2>2. ASSUME NEW a \in Accounts \ (External \union spoiled') PROVE balance'[a] >= 0
    <3>1. a \in Sound(w) /\ a \in Accounts \ overtaken[w]
      BY <2>1 DEF Sound
    <3> QED BY <2>1, <3>1 DEF SerialOK, CheckOK, WriteOK
  <2> QED BY <2>2 DEF SolventInv
<1> QED BY <1>1, <1>2, OthersKept

LEMMA SerialInvInductive ==
    /\ RaceInit => SerialInv
    /\ SerialInv /\ [RaceNext]_raceVars => SerialInv'
<1>1. ASSUME RaceInit PROVE SerialInv
  <2>1. SolventInv
    BY <1>1, JournalsAssumption DEF RaceInit, Init, SolventInv
  <2>2. \A w \in Workers: SerialOK(w)
    BY <1>1 DEF RaceInit, Init, SerialOK, KnowsOK, CheckOK, WriteOK, Posting
  <2> QED BY <1>1, <2>1, <2>2, TypeInit, InvInit DEF SerialInv, RaceInit
<1>2. ASSUME SerialInv, UNCHANGED raceVars PROVE SerialInv'
  <2>1. SolventInv'
    BY <1>2 DEF SerialInv, SolventInv, raceVars, vars
  <2>2. ASSUME NEW w \in Workers PROVE SerialOK(w)'
    <3>1. UNCHANGED <<balance, pc, key, at, projected, account, written, overtaken, spoiled>>
      BY <1>2 DEF raceVars, vars
    <3>2. SerialOK(w)
      BY <1>2 DEF SerialInv
    <3> QED BY <3>1, <3>2 DEF SerialOK, KnowsOK, CheckOK, WriteOK, Seen, Visible, CurrentLine,
                              Posting, Sound, Projects, Writes
  <2> QED BY <1>2, <2>1, <2>2, TypeStep, KeysStep, CreatedStep DEF SerialInv, raceVars
<1>3. ASSUME SerialInv, NEW w \in Workers, Step(w), RecordRaces PROVE SerialInv'
  <2>1. Next
    BY <1>3 DEF Next, Step
  <2>2. SolventInv'
    BY <1>3, SolventStep DEF SerialInv
  <2>3. SerialOK(w)'
    BY <1>3, SerialOwn DEF SerialInv
  <2>4. \A v \in Workers \ {w}: SerialOK(v)'
    BY <1>3, <2>2, SerialOther DEF SerialInv
  <2> QED BY <1>3, <2>1, <2>2, <2>3, <2>4, TypeStep, KeysStep, CreatedStep DEF SerialInv
<1>4. RaceNext => RecordRaces /\ \E w \in Workers: Step(w)
  BY DEF RaceNext, Next, Step
<1> QED BY <1>1, <1>2, <1>3, <1>4

\* What a step of RaceNext commits: nothing, or one journal, wrong at most on the
\* accounts it has been overtaken on.
LEMMA CommittedByStep ==
    ASSUME SerialInv, [RaceNext]_raceVars
    PROVE  \/ UNCHANGED <<balance, posted, book, spoiled>>
           \/ \E u \in Workers:
                 /\ Commit(u) /\ pc[u] = "commit" /\ key[u] \in Keys /\ key[u] \notin posted
                 /\ spoiled' = spoiled \union overtaken[u]
                 /\ \A a \in overtaken[u]: a \in Accounts /\ Touches(key[u], a)
                 /\ \A a \in Accounts \ overtaken[u]: balance'[a] = balance[a] + Net(key[u], a)
<1>1. CASE UNCHANGED raceVars
  BY <1>1 DEF raceVars, vars
<1>2. ASSUME NEW u \in Workers, Step(u), RecordRaces, ~Commit(u)
      PROVE  UNCHANGED <<balance, posted, book, spoiled>>
  BY <1>2, OthersKept, RacesOfStep DEF SerialInv, committedVars
<1>3. ASSUME NEW u \in Workers, Commit(u), RecordRaces
      PROVE  /\ pc[u] = "commit" /\ key[u] \in Keys /\ key[u] \notin posted
             /\ spoiled' = spoiled \union overtaken[u]
             /\ \A a \in overtaken[u]: a \in Accounts /\ Touches(key[u], a)
             /\ \A a \in Accounts \ overtaken[u]: balance'[a] = balance[a] + Net(key[u], a)
  <2>1. /\ pc[u] = "commit" /\ \A a \in Accounts: balance'[a] = Visible(u, a)
        /\ key[u] \in Keys /\ key[u] \notin posted
    BY <1>3 DEF Commit, SerialInv, TypeOK, KeysInv, Owned, HasInserted
  <2>2. Step(u)
    BY <1>3 DEF Step, Advance
  <2>3. SerialOK(u) /\ Posting(u)
    BY <2>1 DEF SerialInv, Posting
  <2>4. \A a \in overtaken[u]: a \in Accounts /\ Touches(key[u], a)
    BY <2>3 DEF SerialOK, KnowsOK
  <2>5. \A a \in Accounts \ overtaken[u]: balance'[a] = balance[a] + Net(key[u], a)
    BY <2>1, <2>3 DEF SerialOK, WriteOK
  <2> QED BY <1>3, <2>1, <2>2, <2>4, <2>5, RacesOfStep DEF SerialInv
<1>4. RaceNext => RecordRaces /\ \E w \in Workers: Step(w)
  BY DEF RaceNext, Next, Step
<1> QED BY <1>1, <1>2, <1>3, <1>4

\* With any number of handlers at once the statements of postJournalInTx are, seen
\* from the committed tables, the postings of the shared ledger: whole, once per
\* key, and wrong at most on accounts whose balance another commit had changed
\* after this one read it.
THEOREM PostingIsShared == RaceSpec => ImplementsSharedLedger
<1>1. RaceInit => Shared!Init
  BY DEF RaceInit, Init, Shared!Init
<1>2. ASSUME SerialInv, [RaceNext]_raceVars, SerialInv'
      PROVE  [Shared!Next]_Shared!sharedVars
  <2>1. CASE UNCHANGED <<balance, posted, book, spoiled>>
    BY <2>1 DEF Shared!sharedVars
  <2>2. ASSUME NEW u \in Workers, Commit(u), pc[u] = "commit",
               key[u] \in Keys, key[u] \notin posted, spoiled' = spoiled \union overtaken[u],
               \A a \in overtaken[u]: a \in Accounts /\ Touches(key[u], a),
               \A a \in Accounts \ overtaken[u]: balance'[a] = balance[a] + Net(key[u], a)
        PROVE  [Shared!Next]_Shared!sharedVars
    <3> DEFINE k == key[u]
    <3>1. Balanced(k) /\ NoZeroLine(k)
      BY <1>2, <2>2 DEF SerialInv, SerialOK, KnowsOK, CheckOK
    <3>2. /\ balance' \in [Accounts -> Int] /\ posted' = posted \union {k}
          /\ \A a \in Accounts \ (External \union spoiled'): balance'[a] >= 0
      BY <1>2, <2>2 DEF Commit, SerialInv, TypeOK, SolventInv
    <3>3. overtaken[u] \in SUBSET {a \in Accounts: Touches(k, a)}
      BY <2>2
    <3>4. Shared!Balanced(k)
      BY <3>1 DEF Balanced, Shared!Balanced, Deltas, Shared!Deltas,
             SumFunction, Shared!SumFunction,
             SumFunctionOnSet, Shared!SumFunctionOnSet,
             FoldFunctionOnSet, Shared!FoldFunctionOnSet,
             MapThenFoldSet, Shared!MapThenFoldSet
    <3>5. Shared!NoZeroLine(k) /\ \A a: Shared!Touches(k, a) <=> Touches(k, a)
      BY <3>1 DEF NoZeroLine, Shared!NoZeroLine, Touches, Shared!Touches
    <3>6. \A a: Shared!Net(k, a) = Net(k, a)
      BY DEF Net, Shared!Net, Deltas, Shared!Deltas,
             SumFunctionOnSet, Shared!SumFunctionOnSet,
             FoldFunctionOnSet, Shared!FoldFunctionOnSet,
             MapThenFoldSet, Shared!MapThenFoldSet
    <3> HIDE DEF k
    <3>7. Shared!Post(k)
      <4>1. overtaken[u] \in SUBSET {a \in Accounts: Shared!Touches(k, a)}
        BY <3>3, <3>5
      <4>2. \A a \in Accounts \ overtaken[u]: balance'[a] = balance[a] + Shared!Net(k, a)
        BY <2>2, <3>6 DEF k
      <4>3. k \notin posted
        BY <2>2 DEF k
      <4> QED BY <2>2, <3>2, <3>4, <3>5, <4>1, <4>2, <4>3 DEF Shared!Post
    <3>8. k \in Keys
      BY <2>2 DEF k
    <3> QED BY <3>7, <3>8 DEF Shared!Next
  <2> QED BY <1>2, <2>1, <2>2, CommittedByStep
<1> QED BY <1>1, <1>2, SerialInvInductive, PTL DEF RaceSpec, ImplementsSharedLedger, Shared!Spec

-----------------------------------------------------------------------------
(* The balance as the sum of the lines.                                      *)

\* The lines a handler has created are those of its journal, in order.
LinesOK(w) ==
    \A j \in 1..Len(created[w]):
        /\ created[w][j].account = Journal[key[w]][j].account
        /\ created[w][j].delta = Journal[key[w]][j].delta

LEMMA LinesStep ==
    ASSUME TypeOK, CreatedInv, \A w \in Workers: LinesOK(w), [Next]_vars, NEW v \in Workers
    PROVE  LinesOK(v)'
<1>0. LinesOK(v) /\ CreatedOK(v) /\ created[v] \in Seq(LedgerLine)
  BY DEF CreatedInv, TypeOK
<1>1. CASE WriteLine(v)
  <2> DEFINE row == [key |-> key[v], idx |-> at[v], account |-> CurrentLine(v).account,
                     delta |-> CurrentLine(v).delta,
                     balanceAfter |-> account[v] + CurrentLine(v).delta]
             n == Len(created[v])
  <2>1. /\ created' = [created EXCEPT ![v] = Append(@, row)]
        /\ key' = key /\ pc[v] = "write" /\ at[v] \in Nat
    BY <1>1 DEF WriteLine, TypeOK
  <2>2. /\ row.account = Journal[key[v]][at[v]].account
        /\ row.delta = Journal[key[v]][at[v]].delta
    BY DEF CurrentLine
  <2> HIDE DEF row
  <2>3. created'[v] = Append(created[v], row)
    BY <2>1 DEF TypeOK
  <2>4. n \in Nat /\ n + 1 = at[v]
    BY <1>0, <2>1 DEF CreatedOK, Count
  <2>5. /\ Len(created'[v]) = n + 1 /\ created'[v][n + 1] = row
        /\ \A j \in 1..n: created'[v][j] = created[v][j]
    BY <1>0, <2>3
  <2>6. \A j \in 1..(n + 1): j = at[v] \/ j \in 1..n
    BY <2>4
  <2> QED BY <1>0, <2>1, <2>2, <2>4, <2>5, <2>6 DEF LinesOK
<1>2. CASE ~WriteLine(v)
  <2>1. CASE created'[v] = << >>
    BY <2>1 DEF LinesOK
  <2>2. CASE created'[v] = created[v] /\ key'[v] = key[v]
    BY <1>0, <2>2 DEF LinesOK
  <2>3. CASE created'[v] = created[v] /\ key'[v] # key[v]
    <3>1. PICK w \in Workers, k \in Keys: PostJournal(w, k)
      BY <2>3 DEF Next, Advance, FindExisting, CheckLine, RejectLine, InsertTransaction,
             UniqueViolation, ReadAccount, WriteLine, Commit, Abort, DeadlockVictim, Rollback,
             EndTx, vars
    <3>2. w = v /\ pc[v] = "idle"
      BY <2>3, <3>1 DEF PostJournal, TypeOK
    <3>3. Len(created[v]) = 0
      BY <1>0, <3>2 DEF CreatedOK, Count
    <3> QED BY <2>3, <3>3 DEF LinesOK
  <2> QED BY <1>2, <2>1, <2>2, <2>3, WrittenKept
<1> QED BY <1>1, <1>2

\* Committing w's lines adds the journal's net to the sum of the lines on a.
LEMMA SumOfLinesCommit ==
    ASSUME TypeOK, CreatedInv, NEW w \in Workers, LinesOK(w), Commit(w), NEW a \in Accounts
    PROVE  /\ SumOfLines(a) \in Int /\ Net(key[w], a) \in Int
           /\ SumOfLines(a)' = SumOfLines(a) + Net(key[w], a)
<1> DEFINE k == key[w]
           n == Len(book)
           m == Len(Journal[k])
           D == [i \in 1..Len(book) |-> book[i].delta]
           E == [i \in 1..Len(book') |-> book'[i].delta]
           S == {i \in 1..Len(book): book[i].account = a}
           T == {i \in 1..Len(book'): book'[i].account = a}
           B == {j \in 1..m: Journal[k][j].account = a}
           h == [j \in B |-> n + j]
           M == {h[j]: j \in B}
<1>1. /\ book' = book \o created[w] /\ pc[w] = "commit"
      /\ book \in Seq(LedgerLine) /\ created[w] \in Seq(LedgerLine)
  BY DEF Commit, TypeOK
<1>2. k \in Keys /\ m \in Nat /\ Len(created[w]) = m
  BY <1>1, JournalLines DEF TypeOK, CreatedInv, CreatedOK, Count
<1>3. /\ n \in Nat /\ Len(book') = n + m
      /\ \A i \in 1..n: book'[i] = book[i] /\ book[i] \in LedgerLine
      /\ \A j \in 1..m: book'[n + j] = created[w][j] /\ created[w][j] \in LedgerLine
  <2>1. n \in Nat /\ \A i \in 1..n: book[i] \in LedgerLine
    BY <1>1
  <2>2. \A j \in 1..m: created[w][j] \in LedgerLine
    BY <1>1, <1>2
  <2>3. /\ Len(book') = n + m
        /\ \A i \in 1..n: book'[i] = book[i]
        /\ \A j \in 1..m: book'[n + j] = created[w][j]
    <3>1. m = Len(created[w]) /\ created[w] \in Seq(LedgerLine)
      BY <1>1, <1>2
    <3> HIDE DEF m
    <3> QED BY <1>1, <3>1
  <2> QED BY <2>1, <2>2, <2>3
<1>4. \A j \in 1..m: /\ book'[n + j].account = Journal[k][j].account
                     /\ book'[n + j].delta = Journal[k][j].delta
  BY <1>2, <1>3 DEF LinesOK
<1>5. T = S \union M /\ S \cap M = {}
  <2>1. \A i \in 1..(n + m): i \in 1..n \/ (i - n \in 1..m /\ i = n + (i - n))
    BY <1>2, <1>3
  <2>2. \A i \in 1..n: i \in 1..(n + m)
    BY <1>2, <1>3
  <2>3. \A j \in 1..m: n + j \in 1..(n + m) /\ n + j \notin 1..n
    BY <1>2, <1>3
  <2>4. M = {n + j: j \in B}
    OBVIOUS
  <2>5. \A i: i \in T <=> i \in S \/ i \in {n + j: j \in B}
    <3> TAKE i
    <3>1. ASSUME i \in T PROVE i \in S \/ i \in {n + j: j \in B}
      <4>1. i \in 1..(n + m) /\ book'[i].account = a
        BY <1>3, <3>1
      <4>2. CASE i \in 1..n
        BY <1>3, <4>1, <4>2
      <4>3. CASE i \notin 1..n
        <5>1. i - n \in 1..m /\ i = n + (i - n)
          BY <2>1, <4>1, <4>3
        <5>2. Journal[k][i - n].account = a
          BY <1>4, <4>1, <5>1
        <5> QED BY <5>1, <5>2
      <4> QED BY <4>2, <4>3
    <3>2. ASSUME i \in S PROVE i \in T
      BY <1>3, <2>2, <3>2
    <3>3. ASSUME i \in {n + j: j \in B} PROVE i \in T
      BY <1>3, <1>4, <2>3, <3>3
    <3> QED BY <3>1, <3>2, <3>3
  <2>6. S \cap {n + j: j \in B} = {}
    BY <2>3
  <2> HIDE DEF S, T, B, M
  <2> QED BY <2>4, <2>5, <2>6
<1>6. IsFiniteSet(S) /\ IsFiniteSet(B)
  <2>1. 1 \in Int /\ n \in Int /\ m \in Int
    BY <1>2, <1>3
  <2>2. IsFiniteSet(1..n) /\ IsFiniteSet(1..m)
    BY <2>1, FS_Interval, Zenon
  <2>3. S \subseteq 1..n /\ B \subseteq 1..m
    OBVIOUS
  <2> HIDE DEF S, B
  <2> QED BY <2>2, <2>3, FS_Subset
<1>7. \A i \in S: D[i] \in Int /\ E[i] = D[i]
  BY <1>2, <1>3 DEF LedgerLine
<1>8. \A j \in B: Deltas(k)[j] \in Int /\ E[h[j]] = Deltas(k)[j] /\ h[j] = n + j
  <2>1. \A j \in 1..m: n + j \in 1..Len(book')
    BY <1>2, <1>3
  <2> QED BY <1>2, <1>4, <2>1, JournalLines
<1>9. \A i, j \in B: h[i] = h[j] => i = j
  BY <1>3
<1>10. IsFiniteSet(M)
  <2>1. 1 \in Int /\ n + m \in Int
    BY <1>2, <1>3
  <2>2. IsFiniteSet(1..(n + m))
    BY <2>1, FS_Interval, Zenon
  <2>3. M \subseteq 1..(n + m)
    <3>1. M \subseteq T
      BY <1>5, Zenon
    <3> QED BY <1>3, <3>1
  <2> HIDE DEF M
  <2> QED BY <2>2, <2>3, FS_Subset
<1>11. SumFunctionOnSet(E, S \union M) = SumFunctionOnSet(E, S) + SumFunctionOnSet(E, M)
  <2>1. \A i \in S \union M: E[i] \in Int
    BY <1>7, <1>8
  <2> HIDE DEF S, M, E
  <2> QED BY <1>5, <1>6, <1>10, <2>1, SumDisjoint
<1>12. SumFunctionOnSet(E, S) = SumFunctionOnSet(D, S) /\ SumFunctionOnSet(D, S) \in Int
  <2> HIDE DEF S, D, E
  <2> QED BY <1>6, <1>7, SumSame, SumInt
<1>13. SumFunctionOnSet(E, M) = SumFunctionOnSet(Deltas(k), B)
  <2> HIDE DEF B, E, h
  <2> QED BY <1>6, <1>8, <1>9, SumRenamed
<1>14. SumFunctionOnSet(Deltas(k), B) \in Int
  <2> HIDE DEF B
  <2> QED BY <1>6, <1>8, SumInt
<1>15. /\ SumOfLines(a) = SumFunctionOnSet(D, S)
       /\ SumOfLines(a)' = SumFunctionOnSet(E, T)
       /\ Net(key[w], a) = SumFunctionOnSet(Deltas(k), B)
  BY DEF SumOfLines, Net
<1>16. SumFunctionOnSet(E, T) = SumFunctionOnSet(E, S \union M)
  BY <1>5, Zenon
<1> HIDE DEF D, E, S, T, B, M, h, k
<1> QED BY <1>11, <1>12, <1>13, <1>14, <1>15, <1>16

\* Any number of handlers: a balance is the opening balance and the signed deltas
\* of the committed lines (schema.prisma:445), and not overdrawn, unless a journal
\* was committed on the account from a read another commit had overtaken.
THEOREM RightOrSpoiled == RaceSpec => []RightUnlessSpoiled
<1> DEFINE SumInv == \A a \in Accounts \ spoiled: balance[a] = Opening[a] + SumOfLines(a)
           Inv == SerialInv /\ (\A w \in Workers: LinesOK(w)) /\ SumInv
<1>1. ASSUME RaceInit PROVE Inv
  <2>1. SerialInv
    BY <1>1, SerialInvInductive
  <2>2. \A w \in Workers: LinesOK(w)
    BY <1>1 DEF RaceInit, Init, LinesOK
  <2>3. ASSUME NEW a \in Accounts PROVE balance[a] = Opening[a] + SumOfLines(a)
    <3>1. {i \in 1..Len(book): book[i].account = a} = {}
      BY <1>1 DEF RaceInit, Init
    <3>2. SumOfLines(a) = 0
      BY <3>1, SumEmpty DEF SumOfLines
    <3> QED BY <1>1, <3>2, JournalsAssumption DEF RaceInit, Init
  <2> QED BY <2>1, <2>2, <2>3
<1>2. ASSUME Inv, [RaceNext]_raceVars PROVE Inv'
  <2>1. SerialInv'
    BY <1>2, SerialInvInductive
  <2>2. \A w \in Workers: LinesOK(w)'
    <3>1. [Next]_vars
      BY <1>2 DEF RaceNext, raceVars
    <3> QED BY <1>2, <3>1, LinesStep DEF SerialInv
  <2>3. CASE UNCHANGED <<balance, posted, book, spoiled>>
    <3>1. \A a: SumOfLines(a)' = SumOfLines(a)
      BY <2>3 DEF SumOfLines
    <3> QED BY <1>2, <2>1, <2>2, <2>3, <3>1
  <2>4. ASSUME NEW u \in Workers, Commit(u), spoiled' = spoiled \union overtaken[u],
               \A a \in Accounts \ overtaken[u]: balance'[a] = balance[a] + Net(key[u], a)
        PROVE  Inv'
    <3>1. ASSUME NEW a \in Accounts \ spoiled' PROVE balance'[a] = Opening[a] + SumOfLines(a)'
      <4>1. /\ SumOfLines(a) \in Int /\ Net(key[u], a) \in Int
            /\ SumOfLines(a)' = SumOfLines(a) + Net(key[u], a)
        BY <1>2, <2>4, SumOfLinesCommit DEF SerialInv
      <4>2. balance'[a] = balance[a] + Net(key[u], a) /\ a \in Accounts \ spoiled
        BY <2>4
      <4>3. balance[a] = Opening[a] + SumOfLines(a) /\ Opening[a] \in Int
        BY <1>2, <4>2, JournalsAssumption
      <4> QED BY <4>1, <4>2, <4>3
    <3> QED BY <2>1, <2>2, <3>1
  <2> QED BY <1>2, <2>3, <2>4, CommittedByStep
<1>3. Inv => RightUnlessSpoiled
  BY DEF RightUnlessSpoiled, SerialInv, SolventInv
<1> HIDE DEF Inv
<1> QED BY <1>1, <1>2, <1>3, PTL DEF RaceSpec

\* In particular with one handler at a time no read is ever overtaken, so every
\* balance is the sum of its lines and no account but SYSTEM_EXTERNAL is overdrawn.
COROLLARY OneHandler ==
    ASSUME NEW u, Workers = {u}
    PROVE  RaceSpec => [](NonNegative /\ BalanceIsSumOfLines)
<1> DEFINE Inv == SerialInv /\ spoiled = {} /\ overtaken[u] = {}
<1>1. ASSUME RaceInit PROVE Inv
  BY <1>1, SerialInvInductive DEF RaceInit
<1>2. ASSUME Inv, [RaceNext]_raceVars PROVE Inv'
  <2>1. SerialInv'
    BY <1>2, SerialInvInductive
  <2>2. CASE UNCHANGED raceVars
    BY <1>2, <2>1, <2>2 DEF raceVars
  <2>3. CASE RaceNext
    <3>1. Step(u) /\ RecordRaces
      BY <2>3 DEF RaceNext, Next, Step
    <3> QED BY <1>2, <2>1, <3>1, RacesOfStep, OthersKept DEF SerialInv
  <2> QED BY <1>2, <2>2, <2>3
<1>3. Inv /\ RightUnlessSpoiled => NonNegative /\ BalanceIsSumOfLines
  BY DEF RightUnlessSpoiled, NonNegative, BalanceIsSumOfLines
<1> HIDE DEF Inv
<1> QED BY <1>1, <1>2, <1>3, RightOrSpoiled, PTL DEF RaceSpec

=============================================================================
