----------------------------- MODULE LedgerRaces -----------------------------
(***************************************************************************)
(* LedgerPosting with a record of its lost updates.  postJournalInTx reads *)
(* a balance, in assertNonNegativeAfterDelta and again in its write loop,  *)
(* and relies on it until it commits.  The two variables added here say    *)
(* whose reads another commit has overtaken, and on which accounts a       *)
(* journal was committed all the same.  They are history: no action of     *)
(* LedgerPosting looks at them.                                            *)
(***************************************************************************)
EXTENDS LedgerPosting

VARIABLES
    overtaken,  \* overtaken[w]: accounts whose balance has changed since w read it
    spoiled     \* accounts a journal was committed on from an overtaken read

raceVars == <<vars, overtaken, spoiled>>

\* w has read the balance of a in its current call.
HasRead(w, a) ==
    \/ projected[w][a] # None
    \/ pc[w] = "write" /\ CurrentLine(w).account = a
    \/ written[w][a] # None

RaceInit ==
    /\ Init
    /\ overtaken = [w \in Workers |-> {}]
    /\ spoiled = {}

\* A read is overtaken when another commit changes the balance before the
\* handler's transaction ends; a commit spoils the accounts it was overtaken on.
RecordRaces ==
    /\ overtaken' = [w \in Workers |->
            IF pc'[w] = "idle" THEN {}
            ELSE overtaken[w] \union {a \in Accounts: HasRead(w, a) /\ balance'[a] # balance[a]}]
    /\ spoiled' = spoiled \union UNION {overtaken[w]: w \in {v \in Workers: Commit(v)}}

RaceNext == Next /\ RecordRaces

RaceSpec == RaceInit /\ [][RaceNext]_raceVars

FairRaceSpec == RaceSpec /\ Fairness

-----------------------------------------------------------------------------
(* Properties *)

\* The lost update is the only way a balance goes wrong, and it stays on the
\* accounts it happened on: unless a journal was committed on an account from a
\* read that another commit had overtaken, its balance is the opening balance and
\* the lines committed on it, and it is not overdrawn.
RightUnlessSpoiled ==
    \A a \in Accounts \ spoiled:
        /\ balance[a] = Opening[a] + SumOfLines(a)
        /\ a \notin External => balance[a] >= 0

\* With any handlers at once the statements of postJournalInTx implement the
\* shared ledger.
Shared == INSTANCE SharedLedger WITH balance <- balance, posted <- posted, spoiled <- spoiled
ImplementsSharedLedger == Shared!Spec

=============================================================================
