---------------------------- MODULE Withdrawals -----------------------------
(***************************************************************************)
(* WithdrawalsService: a member's withdrawal from the hold to its          *)
(* settlement, with everything that may settle it at the same time: the    *)
(* request that started the disbursement, provider callbacks, polls (by    *)
(* the member's list page and by StaleWithdrawalMonitorJob) and HQ's       *)
(* manual override.                                                        *)
(*                                                                         *)
(* Between two awaits of a handler any other handler may run.  A           *)
(* $transaction is three steps: the read of the status, the check of the   *)
(* journal (find the key, non-negative clearing), and the commit.  The     *)
(* ledger is the set of journals posted per withdrawal; balances are the   *)
(* sums of their lines (LedgerPosting asks whether the stored column is).  *)
(***************************************************************************)
EXTENDS Integers, FiniteSets, Functions

CONSTANTS
    Requests,       \* WithdrawalRequest ids, each created at most once
    Handlers,       \* handlers that callbacks, polls and HQ requests run in
    Members,        \* owners of wallets
    Owner,          \* Owner[w]: the member who asks for w
    Amount,         \* Amount[w]
    Opening,        \* Opening[m]: MEMBER_WALLET balance of m at the start
    MaxDaily,       \* WITHDRAWAL_MAX_DAILY_AMOUNT
    None

ASSUME WithdrawalsAssumption ==
    /\ Requests \intersect Handlers = {}
    /\ Owner \in [Requests -> Members]
    /\ Amount \in [Requests -> Nat \ {0}]
    /\ Opening \in [Members -> Nat]
    /\ MaxDaily \in Nat
    /\ None \notin Requests \union {"provider", "manual", "COMPLETED", "FAILED"}

VARIABLES
    status,     \* WithdrawalRequest.status, "none" before the row exists
    ref,        \* WithdrawalRequest.providerRef: the provider's, HQ's own, or None
    journals,   \* journals[w]: which of w's three journals are posted
    provider,   \* the transfer as the provider knows it; "mock": the mock provider
    cached,     \* the callback's runOnce key has a stored result (24 h)
    pc,         \* pc[p]: next step of p, a handler or the request that created w
    target,     \* target[p]: the withdrawal p works on
    outcome,    \* outcome[p]: the outcome p is settling with
    via,        \* via[p]: what p runs for
    found       \* found[p]: postJournalInTx found p's key already posted

vars == <<status, ref, journals, provider, cached, pc, target, outcome, via, found>>
rowVars == <<status, ref, journals>>
jobVars == <<target, outcome, via, found>>

Procs == Requests \union Handlers
Statuses == {"none", "PENDING", "PROCESSING", "COMPLETED", "FAILED"}
Held == {"PENDING", "PROCESSING"}
Terminal == {"COMPLETED", "FAILED"}
ProviderStates == {"none", "pending", "paid", "rejected", "mock"}
Kinds == {"hold", "complete", "release"}
Refs == {"provider", "manual", None}
Steps == {"new", "hold", "send", "mark", "notify", "lookup", "verify",
          "completeRead", "completeCheck", "completeCommit",
          "failRead", "failCheck", "failCommit", "idle"}
CompleteSteps == {"completeRead", "completeCheck", "completeCommit"}
TxSteps == CompleteSteps \union {"failRead", "failCheck", "failCommit"}

Total(S) == SumFunctionOnSet(Amount, S)
With(kind) == {w \in Requests: kind \in journals[w]}
Of(m) == {w \in Requests: Owner[w] = m}

\* WITHDRAWAL_CLEARING and MEMBER_WALLET, from the posted lines.
Clearing == Total(With("hold")) - Total(With("complete")) - Total(With("release"))
Wallet(m) == Opening[m] - Total(With("hold") \intersect Of(m))
                        + Total(With("release") \intersect Of(m))

Init ==
    /\ status = [w \in Requests |-> "none"]
    /\ ref = [w \in Requests |-> None]
    /\ journals = [w \in Requests |-> {}]
    /\ \E mock \in BOOLEAN:     \* DISBURSEMENT_PROVIDER=mock, or the live provider
        provider = [w \in Requests |-> IF mock THEN "mock" ELSE "none"]
    /\ cached = [w \in Requests |-> FALSE]
    /\ pc = [p \in Procs |-> IF p \in Requests THEN "new" ELSE "idle"]
    /\ target = [p \in Procs |-> IF p \in Requests THEN p ELSE None]
    /\ outcome = [p \in Procs |-> None]
    /\ via = [p \in Procs |-> "start"]
    /\ found = [p \in Procs |-> FALSE]

Goto(p, step) == pc' = [pc EXCEPT ![p] = step]

\* p returns.  A callback runs inside runOnce, which stores the result unless p
\* throws (as it does when the notification after the commit fails).
Return(p) ==
    /\ Goto(p, "idle")
    /\ \/ via[p] = "webhook" /\ cached' = [cached EXCEPT ![target[p]] = TRUE]
       \/ UNCHANGED cached

\* p throws.  The mock settlement is awaited inside the try of
\* startAutomaticDisbursement, whose catch fails the withdrawal.
Throw(p) ==
    /\ Goto(p, IF p \in Requests /\ pc[p] \in CompleteSteps THEN "failRead" ELSE "idle")
    /\ UNCHANGED cached

-----------------------------------------------------------------------------
(* Creating the hold and starting the disbursement. *)

\* getMemberWalletSummary: the wallet less the withdrawals still open (which
\* have left the wallet already, so they are counted twice).
AvailableBalance(m) == Wallet(m) - Total({w \in Of(m): status[w] \in Held})

\* assertWithdrawalWithinLimits: today's open and completed withdrawals.
DailyTotal(m) == Total({w \in Of(m): status[w] \in Held \union {"COMPLETED"}})

WithinLimits(w) ==
    /\ AvailableBalance(Owner[w]) >= Amount[w]
    /\ DailyTotal(Owner[w]) + Amount[w] <= MaxDaily

\* The checks of createWithdrawalHold, made outside its transaction.
CheckCreate(w) ==
    /\ pc[w] = "new"
    /\ WithinLimits(w)
    /\ Goto(w, "hold")
    /\ UNCHANGED <<rowVars, provider, cached, jobVars>>

\* Refused: by the checks above, an unverified or restricted member, or a bad number.
RejectCreate(w) ==
    /\ pc[w] = "new"
    /\ Goto(w, "idle")
    /\ UNCHANGED <<rowVars, provider, cached, jobVars>>

\* Mutant: the reference the provider will use is stored with the hold.
CreateHoldWithRef(w) ==
    /\ pc[w] = "hold"
    /\ status' = [status EXCEPT ![w] = "PENDING"]
    /\ ref' = [ref EXCEPT ![w] = "provider"]
    /\ journals' = [journals EXCEPT ![w] = @ \union {"hold"}]
    /\ Goto(w, "send")
    /\ UNCHANGED <<provider, cached, jobVars>>

\* The transaction of createWithdrawalHold: the row and the hold journal.
CreateHold(w) ==
    /\ pc[w] = "hold"
    /\ IF Wallet(Owner[w]) >= Amount[w]
       THEN /\ status' = [status EXCEPT ![w] = "PENDING"]
            /\ journals' = [journals EXCEPT ![w] = @ \union {"hold"}]
            /\ Goto(w, "send")
       ELSE /\ Goto(w, "idle")
            /\ UNCHANGED <<status, journals>>
    /\ UNCHANGED <<ref, provider, cached, jobVars>>

\* disbursement.requestTransfer: accepted and answered; or an exception, with
\* the transfer accepted (the answer was lost) or not.  The mock provider
\* keeps no transfers and always answers.
RequestTransfer(w) ==
    /\ pc[w] = "send"
    /\ \E accepted, answered \in BOOLEAN:
        /\ answered => accepted
        /\ provider[w] = "mock" => answered
        /\ provider' = [provider EXCEPT ![w] = IF @ = "none" /\ accepted THEN "pending" ELSE @]
        /\ Goto(w, IF answered THEN "mark" ELSE "failRead")
    /\ UNCHANGED <<rowVars, cached, jobVars>>

\* Mutant: the provider's reference is not stored.
MarkProcessingNoRef(w) ==
    /\ pc[w] = "mark"
    /\ status' = [status EXCEPT ![w] = "PROCESSING"]
    /\ Goto(w, "notify")
    /\ UNCHANGED <<ref, journals, provider, cached, jobVars>>

\* The unconditional update to PROCESSING with the provider's reference.
MarkProcessing(w) ==
    /\ pc[w] = "mark"
    /\ \/ /\ status' = [status EXCEPT ![w] = "PROCESSING"]
          /\ ref' = [ref EXCEPT ![w] = "provider"]
          /\ Goto(w, "notify")
       \/ /\ Goto(w, "failRead")        \* the update throws
          /\ UNCHANGED <<status, ref>>
    /\ UNCHANGED <<journals, provider, cached, jobVars>>

\* notifications.create, inside the same try; then the mock provider settles.
NotifyProcessing(w) ==
    /\ pc[w] = "notify"
    /\ \/ Goto(w, "failRead") /\ UNCHANGED outcome      \* it throws
       \/ provider[w] # "mock" /\ Goto(w, "idle") /\ UNCHANGED outcome
       \/ /\ provider[w] = "mock"
          /\ Goto(w, "lookup")
          /\ outcome' = [outcome EXCEPT ![w] = "COMPLETED"]
    /\ UNCHANGED <<rowVars, provider, cached, target, via, found>>

-----------------------------------------------------------------------------
(* What starts a handler. *)

Begin(h, w, step, out, how) ==
    /\ pc[h] = "idle"
    /\ Goto(h, step)
    /\ target' = [target EXCEPT ![h] = w]
    /\ outcome' = [outcome EXCEPT ![h] = out]
    /\ via' = [via EXCEPT ![h] = how]
    /\ found' = [found EXCEPT ![h] = FALSE]
    /\ UNCHANGED <<rowVars, provider, cached>>

\* The provider decides; the money has moved, or it has not.
ProviderDecides(w) ==
    /\ provider[w] = "pending"
    /\ \E decision \in {"paid", "rejected"}:
        provider' = [provider EXCEPT ![w] = decision]
    /\ UNCHANGED <<rowVars, cached, pc, jobVars>>

\* What the provider answers when asked: the mock one always says COMPLETED.
Decided(w) == provider[w] \in {"paid", "rejected", "mock"}
\* Mutant: the provider's word is used as the status.
DecisionUnmapped(w) == provider[w]

Decision(w) == IF provider[w] = "rejected" THEN "FAILED" ELSE "COMPLETED"

\* A callback, first or repeated, which reports the decision or makes the handler
\* ask for it.  Once a run has stored its result the key is answered from the cache.
Webhook(h, w) ==
    /\ ~cached[w]
    /\ \/ /\ provider[w] \in {"paid", "rejected"}
          /\ Begin(h, w, "lookup", Decision(w), "webhook")
       \/ /\ provider[w] = "pending"
          /\ Begin(h, w, "verify", None, "webhook")

\* pollProcessingWithdrawal reads the row, ...
Poll(h, w) ==
    /\ ref[w] # None
    /\ status[w] = "PROCESSING"
    /\ Begin(h, w, "verify", None, "poll")

\* Mutant: a transfer the provider has accepted counts as COMPLETED.
VerifyAccepted(h) ==
    /\ pc[h] = "verify"
    /\ Goto(h, "lookup")
    /\ outcome' = [outcome EXCEPT ![h] = "COMPLETED"]
    /\ UNCHANGED <<rowVars, provider, cached, target, via, found>>

\* ... and, like a callback that does not tell, asks the provider; no answer or
\* "pending" ends it.
VerifyTransfer(h) ==
    /\ pc[h] = "verify"
    /\ \/ /\ Decided(target[h])
          /\ Goto(h, "lookup")
          /\ outcome' = [outcome EXCEPT ![h] = Decision(target[h])]
          /\ UNCHANGED cached
       \/ Return(h) /\ UNCHANGED outcome
    /\ UNCHANGED <<rowVars, provider, target, via, found>>

\* HQ confirms with a reference of its own, or fails the withdrawal: both only
\* if they read PROCESSING.
HqConfirm(h, w) ==
    /\ status[w] = "PROCESSING"
    /\ Begin(h, w, "completeRead", "COMPLETED", "hq")

HqFail(h, w) ==
    /\ status[w] = "PROCESSING"
    /\ Begin(h, w, "failRead", "FAILED", "hq")

-----------------------------------------------------------------------------
(* Settlement, by any of them. *)

\* The providerRef p stores when it completes the withdrawal.
NewRef(p) == IF via[p] = "hq" THEN "manual" ELSE "provider"

\* settleByProviderRef: look the row up by providerRef; a settled one is a duplicate.
Lookup(p) ==
    /\ pc[p] = "lookup"
    /\ IF ref[target[p]] # "provider" \/ status[target[p]] \in Terminal
       THEN Return(p)
       ELSE /\ Goto(p, IF outcome[p] = "COMPLETED" THEN "completeRead" ELSE "failRead")
            /\ UNCHANGED cached
    /\ UNCHANGED <<rowVars, provider, jobVars>>

\* completeWithdrawalInternal, first statement of its transaction.
CompleteRead(p) ==
    /\ pc[p] = "completeRead"
    /\ CASE status[target[p]] = "COMPLETED" -> Return(p)
         [] status[target[p]] \in Held      -> Goto(p, "completeCheck") /\ UNCHANGED cached
         [] OTHER                           -> Throw(p)
    /\ UNCHANGED <<rowVars, provider, jobVars>>

\* failWithdrawalInternal: the read before the transaction and its first
\* statement make the same decision; the later one counts.
FailRead(p) ==
    /\ pc[p] = "failRead"
    /\ CASE status[target[p]] = "FAILED"    -> Return(p)
         [] status[target[p]] = "COMPLETED" -> Throw(p)
         [] OTHER                           -> Goto(p, "failCheck") /\ UNCHANGED cached
    /\ UNCHANGED <<rowVars, provider, jobVars>>

\* postJournalInTx before its insert: a posted key is a duplicate, otherwise the
\* clearing account must cover the amount.
CheckJournal(p, kind, step) ==
    /\ \/ /\ kind \in journals[target[p]] \/ Clearing >= Amount[target[p]]
          /\ found' = [found EXCEPT ![p] = kind \in journals[target[p]]]
          /\ Goto(p, step)
          /\ UNCHANGED cached
       \/ /\ kind \notin journals[target[p]] /\ Clearing < Amount[target[p]]
          /\ Throw(p)
          /\ UNCHANGED found
    /\ UNCHANGED <<rowVars, provider, target, outcome, via>>

CompleteCheck(p) == pc[p] = "completeCheck" /\ CheckJournal(p, "complete", "completeCommit")
FailCheck(p) == pc[p] = "failCheck" /\ CheckJournal(p, "release", "failCommit")

\* The insert under the unique key, the lines, the row update, the commit.  A key
\* posted since the check is a unique violation, which aborts the transaction.
Violates(p, kind) == ~found[p] /\ kind \in journals[target[p]]

CompleteCommit(p) ==
    /\ pc[p] = "completeCommit"
    /\ IF Violates(p, "complete")
       THEN Throw(p) /\ UNCHANGED rowVars
       ELSE /\ journals' = [journals EXCEPT ![target[p]] = @ \union {"complete"}]
            /\ status' = [status EXCEPT ![target[p]] = "COMPLETED"]
            /\ ref' = [ref EXCEPT ![target[p]] = NewRef(p)]
            /\ Return(p)
    /\ UNCHANGED <<provider, jobVars>>

\* Mutant: the row is not updated when the hold is released.
FailCommitRowKept(p) ==
    /\ pc[p] = "failCommit"
    /\ journals' = [journals EXCEPT ![target[p]] = @ \union {"release"}]
    /\ Return(p)
    /\ UNCHANGED <<status, ref, provider, jobVars>>

FailCommit(p) ==
    /\ pc[p] = "failCommit"
    /\ IF Violates(p, "release")
       THEN Throw(p) /\ UNCHANGED rowVars
       ELSE /\ journals' = [journals EXCEPT ![target[p]] = @ \union {"release"}]
            /\ status' = [status EXCEPT ![target[p]] = "FAILED"]
            /\ Return(p)
            /\ UNCHANGED ref
    /\ UNCHANGED <<provider, jobVars>>

\* The database aborts p's transaction (deadlock, time-out, lost connection).
AbortTx(p) ==
    /\ pc[p] \in TxSteps
    /\ Throw(p)
    /\ UNCHANGED <<rowVars, provider, jobVars>>

\* The API process running p dies: an open transaction rolls back, nothing resumes p.
Crash(p) ==
    /\ pc[p] \notin {"new", "idle"}
    /\ Goto(p, "idle")
    /\ UNCHANGED <<rowVars, provider, cached, jobVars>>

Settle(p) ==
    \/ Lookup(p)
    \/ CompleteRead(p) \/ CompleteCheck(p) \/ CompleteCommit(p)
    \/ FailRead(p) \/ FailCheck(p) \/ FailCommit(p)

Start(w) ==
    \/ CheckCreate(w) \/ RejectCreate(w) \/ CreateHold(w)
    \/ RequestTransfer(w) \/ MarkProcessing(w) \/ NotifyProcessing(w)

\* Everything but failures of the API process or the database.
Work ==
    \/ \E w \in Requests: Start(w) \/ ProviderDecides(w)
    \/ \E h \in Handlers, w \in Requests:
        Webhook(h, w) \/ Poll(h, w) \/ HqConfirm(h, w) \/ HqFail(h, w)
    \/ \E h \in Handlers: VerifyTransfer(h)
    \/ \E p \in Procs: Settle(p)

Failure == \E p \in Procs: AbortTx(p) \/ Crash(p)

Next == Work \/ Failure

Spec == Init /\ [][Next]_vars

-----------------------------------------------------------------------------
(* Properties *)

\* Types of the rows and of the handlers' locals.
TypeOK ==
    /\ status \in [Requests -> Statuses]
    /\ ref \in [Requests -> Refs]
    /\ journals \in [Requests -> SUBSET Kinds]
    /\ provider \in [Requests -> ProviderStates]
    /\ cached \in [Requests -> BOOLEAN]
    /\ pc \in [Procs -> Steps]
    /\ target \in [Procs -> Requests \union {None}]
    /\ outcome \in [Procs -> Terminal \union {None}]
    /\ via \in [Procs -> {"start", "webhook", "poll", "hq"}]
    /\ found \in [Procs -> BOOLEAN]
    /\ \A p \in Procs: pc[p] # "idle" => target[p] \in Requests
    /\ \A w \in Requests: target[w] = w

\* What the row says is what the ledger did: there is a hold exactly for the rows
\* that exist, COMPLETED rows have been disbursed and FAILED ones released, and a
\* row whose hold has left clearing is settled, whatever failed in between.
StatusMatchesJournals ==
    \A w \in Requests:
        /\ status[w] # "none" <=> "hold" \in journals[w]
        /\ status[w] = "COMPLETED" => "complete" \in journals[w]
        /\ status[w] = "FAILED" => "release" \in journals[w]
        /\ journals[w] \intersect {"complete", "release"} # {} => status[w] \in Terminal

\* A settled withdrawal is never reopened, although the update to PROCESSING does
\* not look at the status: nothing can settle a row before it has a providerRef.
SettledStaysSettled ==
    [][\A w \in Requests: status[w] \in Terminal => status'[w] \in Terminal]_vars

\* A withdrawal completed under the provider's own reference has been paid out by
\* the provider; only HQ's override completes without that.
CompletedWasPaid ==
    \A w \in Requests:
        status[w] = "COMPLETED" =>
            /\ ref[w] # None
            /\ ref[w] = "provider" => provider[w] \in {"paid", "mock"}

\* "Webhook / polling settlement - idempotent" (withdrawals.service.ts:305): a
\* withdrawal's hold leaves clearing one way only.
SettledOneWay ==
    \A w \in Requests: ~({"complete", "release"} \subseteq journals[w])

\* "Withdrawals fail safely (funds returned)" (REAL_MONEY_PILOT_CHECKLIST.md:154): a
\* hold is returned only if the provider has not paid.
FailedNotPaid ==
    \A w \in Requests: status[w] = "FAILED" => provider[w] # "paid"

=============================================================================
