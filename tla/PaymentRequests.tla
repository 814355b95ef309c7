-------------------------- MODULE PaymentRequests ---------------------------
(***************************************************************************)
(* PaymentRequestsService: the MoMo payment requests for one contribution, *)
(* from their initiation to the recorded payment.  A request is settled by *)
(* whoever learns first what the provider has decided: its callback, or    *)
(* the member's app, which polls the request while it is PENDING.  With    *)
(* the mock provider the app approves its own request.                     *)
(*                                                                         *)
(* Between two awaits of a handler any other handler may run; the          *)
(* transaction of recordContributionSettlement is one step, because its    *)
(* first statement locks the contribution row.  runOnce keeps nobody out:  *)
(* a caller that does not get the lock waits 50 ms and runs all the same,  *)
(* so only the stored results matter, and of those only the callback's:    *)
(* the result of settle:ref:outcome is stored when the row is no longer    *)
(* PENDING, and then a second run would change nothing either.             *)
(***************************************************************************)
EXTENDS Integers, FiniteSets

CONSTANTS
    Requests,       \* PaymentRequest ids, each created at most once
    Handlers,       \* handlers that requests of the app and callbacks run in
    Days,           \* expectedDayCount of the contribution
    None

ASSUME PaymentRequestsAssumption ==
    /\ IsFiniteSet(Requests)
    /\ Days \in Nat \ {0}
    /\ None \notin Requests \union {"APPROVED", "FAILED"}

VARIABLES
    live,           \* isLiveMomoProvider
    paidDayCount,   \* of the contribution; PAID when it is Days
    status,         \* PaymentRequest.status, "none" before the row exists
    expired,        \* expiresAt has passed
    provider,       \* the collection as the provider knows it
    payments,       \* the requests whose externalRef is that of a Payment row
    cached,         \* the callback's runOnce key has a stored result (24 h)
    job             \* job[h]: what handler h is doing

rowVars == <<paidDayCount, status, payments>>
worldVars == <<live, expired, provider>>
vars == <<rowVars, worldVars, cached, job>>

Statuses == {"none", "PENDING", "APPROVED", "FAILED", "EXPIRED"}
Steps == {"idle", "create", "send", "initFailed", "expire", "verify", "settle", "markExpired",
          "markFailed", "check", "record", "approve"}

Idle == [step |-> "idle", request |-> None, outcome |-> None, via |-> "app", day |-> 0]

Init ==
    /\ live \in BOOLEAN
    /\ paidDayCount = 0
    /\ status = [r \in Requests |-> "none"]
    /\ expired = [r \in Requests |-> FALSE]
    /\ provider = [r \in Requests |-> "none"]
    /\ payments = {}
    /\ cached = [r \in Requests |-> FALSE]
    /\ job = [h \in Handlers |-> Idle]

At(h, step) == job[h].step = step
Goto(h, step) == job' = [job EXCEPT ![h].step = step]
End(h) == job' = [job EXCEPT ![h] = Idle]

Begin(h, step, r, outcome, via) ==
    /\ job[h] = Idle
    /\ job' = [job EXCEPT ![h] = [Idle EXCEPT !.step = step, !.request = r,
                                              !.outcome = outcome, !.via = via]]
    /\ UNCHANGED <<rowVars, worldVars, cached>>

SetStatus(h, value) == status' = [status EXCEPT ![job[h].request] = value]

\* h returns; a callback's runOnce stores the result, unless that fails.
Return(h) ==
    /\ End(h)
    /\ \/ job[h].via = "webhook" /\ cached' = [cached EXCEPT ![job[h].request] = TRUE]
       \/ UNCHANGED cached

\* h throws: nothing is stored.
Throw(h) == End(h) /\ UNCHANGED cached

-----------------------------------------------------------------------------
(* Initiating a request. *)

\* initiateContributionPayment: no request of this contribution is open.  That the
\* contribution can still be paid is not asked.
BeginInitiate(h, r) ==
    /\ \A x \in Requests: status[x] = "PENDING" => expired[x]
    /\ status[r] = "none"
    /\ \A x \in Handlers: job[x].request # r
    /\ Begin(h, "create", r, None, "app")

CreateRequest(h) ==
    /\ At(h, "create")
    /\ SetStatus(h, "PENDING")
    /\ Goto(h, "send")
    /\ UNCHANGED <<paidDayCount, payments, worldVars, cached>>

\* requestToPay and the update of providerRef.  With a live provider an exception of
\* either fails the request, whether or not the provider has accepted it.
RequestToPay(h) ==
    /\ At(h, "send")
    /\ \/ ~live /\ End(h) /\ UNCHANGED provider
       \/ /\ live
          /\ \E accepted, returned \in BOOLEAN:
                /\ returned => accepted
                /\ provider' = IF accepted
                               THEN [provider EXCEPT ![job[h].request] = "pending"] ELSE provider
                /\ IF returned THEN End(h) ELSE Goto(h, "initFailed")
    /\ UNCHANGED <<rowVars, live, expired, cached>>

\* The catch: an unconditional update.
FailInitiate(h) ==
    /\ At(h, "initFailed")
    /\ SetStatus(h, "FAILED")
    /\ End(h)
    /\ UNCHANGED <<paidDayCount, payments, worldVars, cached>>

-----------------------------------------------------------------------------
(* The rest of the world. *)

ProviderDecides(r) ==
    /\ provider[r] = "pending"
    /\ \E decision \in {"collected", "declined"}:
        provider' = [provider EXCEPT ![r] = decision]
    /\ UNCHANGED <<rowVars, live, expired, cached, job>>

\* REQUEST_TTL_MS has passed.
Expire(r) ==
    /\ status[r] # "none" /\ ~expired[r]
    /\ expired' = [expired EXCEPT ![r] = TRUE]
    /\ UNCHANGED <<rowVars, live, provider, cached, job>>

-----------------------------------------------------------------------------
(* What settles a request. *)

Outcome(r) == IF provider[r] = "collected" THEN "APPROVED" ELSE "FAILED"
Decided(r) == provider[r] \in {"collected", "declined"}

\* getRequest, from the app while the request is PENDING: it expires the row, or
\* asks the provider.
PollRequest(h, r) ==
    /\ status[r] = "PENDING"
    /\ \/ expired[r] /\ Begin(h, "expire", r, None, "app")
       \/ ~expired[r] /\ live /\ Begin(h, "verify", r, None, "app")

\* getRequest's unconditional update.
WriteExpired(h) ==
    /\ At(h, "expire")
    /\ SetStatus(h, "EXPIRED")
    /\ End(h)
    /\ UNCHANGED <<paidDayCount, payments, worldVars, cached>>

\* applyMtnWebhook: a callback, first or repeated, that tells the decision or makes
\* the handler ask for it.
Webhook(h, r) ==
    /\ ~cached[r]
    /\ \/ Decided(r) /\ Begin(h, "settle", r, Outcome(r), "webhook")
       \/ provider[r] # "none" /\ Begin(h, "verify", r, None, "webhook")

\* mockApprove
MockApprove(h, r) ==
    /\ ~live
    /\ status[r] # "none"
    /\ Begin(h, "settle", r, "APPROVED", "mock")

\* Mutant: a request the provider has accepted counts as paid.
VerifyAccepted(h) ==
    /\ At(h, "verify")
    /\ job' = [job EXCEPT ![h].step = "settle", ![h].outcome = "APPROVED"]
    /\ UNCHANGED <<rowVars, worldVars, cached>>

\* verifyTransaction: no answer or "pending" ends it.
VerifyTransaction(h) ==
    /\ At(h, "verify")
    /\ \/ /\ Decided(job[h].request)
          /\ job' = [job EXCEPT ![h].step = "settle", ![h].outcome = Outcome(job[h].request)]
          /\ UNCHANGED cached
       \/ job[h].via = "webhook" /\ Return(h)
       \/ Throw(h)
    /\ UNCHANGED <<rowVars, worldVars>>

\* settleByExternalRef and executeMockApprove: what the row says.
Settle(h) ==
    LET r == job[h].request
    IN  /\ At(h, "settle")
        /\ \/ status[r] # "PENDING" /\ (IF job[h].via = "mock" THEN Throw(h) ELSE Return(h))
           \/ /\ status[r] = "PENDING"
              /\ Goto(h, IF expired[r] THEN "markExpired"
                         ELSE IF job[h].outcome = "FAILED" THEN "markFailed" ELSE "check")
              /\ UNCHANGED cached
        /\ UNCHANGED <<rowVars, worldVars>>

MarkExpired(h) ==
    /\ At(h, "markExpired")
    /\ SetStatus(h, "EXPIRED")
    /\ IF job[h].via = "mock" THEN Throw(h) ELSE Return(h)
    /\ UNCHANGED <<paidDayCount, payments, worldVars>>

MarkFailed(h) ==
    /\ At(h, "markFailed")
    /\ SetStatus(h, "FAILED")
    /\ Return(h)
    /\ UNCHANGED <<paidDayCount, payments, worldVars>>

\* Mutant: the row is approved before the payment is recorded.
CheckPayableApproving(h) ==
    /\ At(h, "check")
    /\ SetStatus(h, "APPROVED")
    /\ IF paidDayCount < Days
       THEN job' = [job EXCEPT ![h].step = "record", ![h].day = paidDayCount + 1]
       ELSE End(h)
    /\ UNCHANGED <<paidDayCount, payments, worldVars, cached>>

\* Mutant: that the contribution is fully paid is not looked at.
CheckPayableAgain(h) ==
    /\ At(h, "check")
    /\ job' = [job EXCEPT ![h].step = "record", ![h].day = paidDayCount + 1]
    /\ UNCHANGED <<rowVars, worldVars, cached>>

\* recordContributionPayment: its checks, and the day it is going to record.  That the
\* cycle is over or the member may not take part any more is one of Crash's exceptions.
CheckPayable(h) ==
    /\ At(h, "check")
    /\ IF paidDayCount < Days
       THEN job' = [job EXCEPT ![h].step = "record", ![h].day = paidDayCount + 1]
       ELSE End(h)
    /\ UNCHANGED <<rowVars, worldVars, cached>>

\* Mutant: the count is written without looking at it again.
RecordUnchecked(h) ==
    /\ At(h, "record")
    /\ paidDayCount' = job[h].day
    /\ payments' = payments \union {job[h].request}
    /\ Goto(h, "approve")
    /\ UNCHANGED <<status, worldVars, cached>>

\* recordContributionSettlement: the count, then the Payment row and its journal
\* unless the externalRef has one; the count is committed all the same.  The
\* notification, the audit log and the sync that follow a new row may throw (Crash).
Record(h) ==
    /\ At(h, "record")
    /\ IF paidDayCount # job[h].day - 1
       THEN End(h) /\ UNCHANGED rowVars
       ELSE /\ paidDayCount' = job[h].day
            /\ payments' = payments \union {job[h].request}
            /\ Goto(h, "approve")
            /\ UNCHANGED status
    /\ UNCHANGED <<worldVars, cached>>

\* approvePendingRequest's unconditional update.
Approve(h) ==
    /\ At(h, "approve")
    /\ SetStatus(h, "APPROVED")
    /\ Return(h)
    /\ UNCHANGED <<paidDayCount, payments, worldVars>>

\* A statement throws, or the process running h dies.
Crash(h) ==
    /\ job[h] # Idle
    /\ Throw(h)
    /\ UNCHANGED <<rowVars, worldVars>>

Work(h) ==
    \/ CreateRequest(h) \/ RequestToPay(h) \/ FailInitiate(h)
    \/ WriteExpired(h) \/ VerifyTransaction(h)
    \/ Settle(h) \/ MarkExpired(h) \/ MarkFailed(h)
    \/ CheckPayable(h) \/ Record(h) \/ Approve(h)

Next ==
    \/ \E r \in Requests: ProviderDecides(r) \/ Expire(r)
    \/ \E h \in Handlers, r \in Requests:
        BeginInitiate(h, r) \/ PollRequest(h, r) \/ Webhook(h, r) \/ MockApprove(h, r)
    \/ \E h \in Handlers: Work(h) \/ Crash(h)

Spec == Init /\ [][Next]_vars

-----------------------------------------------------------------------------
(* Properties *)

Job == [step: Steps, request: Requests \union {None}, outcome: {"APPROVED", "FAILED", None},
        via: {"app", "webhook", "mock"}, day: 0..Days]

\* Types of the rows and of the handlers' locals.
TypeOK ==
    /\ live \in BOOLEAN
    /\ paidDayCount \in 0..Days
    /\ status \in [Requests -> Statuses]
    /\ expired \in [Requests -> BOOLEAN]
    /\ provider \in [Requests -> {"none", "pending", "collected", "declined"}]
    /\ payments \subseteq Requests
    /\ cached \in [Requests -> BOOLEAN]
    /\ job \in [Handlers -> Job]
    /\ \A h \in Handlers: ~At(h, "idle") => job[h].request \in Requests

\* A live payment is recorded only for money the provider has collected, whatever
\* callbacks, polls and expiries overtake each other on the way to it.
RecordedWasCollected ==
    live => \A r \in payments: provider[r] = "collected"

\* A request the app shows as confirmed has its Payment row: every handler that writes
\* APPROVED comes from a settlement that has recorded it or has found it recorded.
ApprovedIsRecorded ==
    \A r \in Requests: status[r] = "APPROVED" => r \in payments

\* No recorded payment is lost from the count: two settlements that have read the same
\* count do not both record its next day.  (The count may be ahead of the payments.)
EveryPaymentCounts == Cardinality(payments) <= paidDayCount

=============================================================================
