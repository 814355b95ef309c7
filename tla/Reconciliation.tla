--------------------------- MODULE Reconciliation ---------------------------
(***************************************************************************)
(* ReconciliationSummaryService as far as it is about withdrawals: what HQ *)
(* and DailyReconciliationJob are told when the rows and the balances do   *)
(* not fit together.  getSummary only reads, but it reads one query after  *)
(* the other outside any transaction, while withdrawals go on; each query  *)
(* is a step here, in the order of the code.  Amounts are whole cedis, so  *)
(* that every difference exceeds its tolerance of 0.01.                    *)
(***************************************************************************)
EXTENDS Withdrawals

VARIABLES
    at,         \* the query getSummary makes next
    balance,    \* the clearing balance it has read, 0 once it has been compared
    pushed,     \* the kind of discrepancy the last query has pushed, or "nothing"
    quiet       \* history: no row and no journal has changed since it began

summaryVars == <<at, balance, pushed, quiet>>
allVars == <<vars, summaryVars>>

Queries == {"clearing", "pending", "stale", "held", "negative", "reference"}

HeldRows == {w \in Requests: status[w] \in Held}

\* Mutant: a withdrawal counts as held only once the provider has accepted it.
HeldInClearingSent == Total({w \in Requests: status[w] = "PROCESSING"})

\* memberHeldInClearing and adminHeldInClearing: what the clearing account should hold.
HeldInClearing == Total(HeldRows)

ReconciledInit ==
    /\ Init
    /\ at = "clearing"
    /\ balance = 0
    /\ pushed = "nothing"
    /\ quiet = FALSE

\* The first query reads the clearing account.
GetSummary ==
    /\ at = "clearing"
    /\ at' = "pending"
    /\ balance' = Clearing
    /\ pushed' = "nothing"
    /\ quiet' = TRUE
    /\ UNCHANGED vars

\* A query of the summary, which pushes a discrepancy if it has found one.  The
\* list of them only grows, so the last one is kept.
Query(here, next, kind, discrepancy) ==
    /\ at = here
    /\ at' = next
    /\ pushed' = IF discrepancy THEN kind ELSE "nothing"
    /\ balance' = IF here = "held" THEN 0 ELSE balance
    /\ UNCHANGED <<vars, quiet>>

\* pendingWithdrawals: money in clearing and nothing to hold it for.
CountPending == Query("pending", "stale", "unheld", balance > 0 /\ HeldRows = {})

\* staleMemberProcessingCount: PROCESSING rows requested more than 30 minutes ago.
CountStale ==
    \E old \in SUBSET Requests:
        Query("stale", "held", "stuck", \E w \in old: status[w] = "PROCESSING")

SumHeld == Query("held", "negative", "mismatch", balance # HeldInClearing)

FindNegative ==
    Query("negative", "reference", "negative", Clearing < 0 \/ \E m \in Members: Wallet(m) < 0)

CountWithoutRef ==
    Query("reference", "clearing", "reference",
          \E w \in Requests: status[w] = "COMPLETED" /\ ref[w] = None)

Summary ==
    \/ GetSummary \/ CountPending \/ CountStale \/ SumHeld
    \/ FindNegative \/ CountWithoutRef

\* Withdrawals go on between two queries.
WhileReading ==
    /\ Next
    /\ quiet' = (quiet /\ rowVars' = rowVars)
    /\ UNCHANGED <<at, balance, pushed>>

ReconciledSpec == ReconciledInit /\ [][Summary \/ WhileReading]_allVars

-----------------------------------------------------------------------------
(* Properties *)

\* A completion and a failure that overtook each other do not stay unseen: a summary
\* during which no row and no journal changed reports a mismatch of the clearing
\* account exactly when some hold has left it both ways.  Crashes, aborted
\* transactions and open withdrawals raise no such alarm (an old PROCESSING row
\* raises one of its own).  A negative balance is only ever found after a double
\* settlement, and a COMPLETED row without a reference never, by a summary that
\* overlaps withdrawals too.
DoubleSettlementReported ==
    LET double == \E w \in Requests: {"complete", "release"} \subseteq journals[w]
    IN  /\ quiet /\ at = "negative" => (pushed = "mismatch" <=> double)
        /\ quiet /\ pushed = "unheld" => double
        /\ pushed = "negative" => double
        /\ pushed # "reference"

=============================================================================
