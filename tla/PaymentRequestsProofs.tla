----------------------- MODULE PaymentRequestsProofs ------------------------
(***************************************************************************)
(* The invariants of PaymentRequests for any number of requests, handlers  *)
(* and days.                                                               *)
(***************************************************************************)
EXTENDS PaymentRequests, FiniteSetTheorems, TLAPS

Creating(h) == job[h].step \in {"create", "send"}

\* The provider has not heard of a request that is still being created, and only
\* one handler creates it: a request is never sent for a second time.
SentOnce ==
    /\ \A r \in Requests: status[r] = "none" => provider[r] = "none"
    /\ \A h \in Handlers: Creating(h) =>
          /\ provider[job[h].request] = "none"
          /\ At(h, "send") => status[job[h].request] # "none"
          /\ \A x \in Handlers: Creating(x) /\ job[x].request = job[h].request => x = h

\* A handler on its way to record a payment, or past it.
Settling(h) ==
    \/ job[h].step \in {"check", "record", "approve"}
    \/ At(h, "settle") /\ job[h].outcome # "FAILED"

\* What a live handler is going to record has been collected.
SettlingCollected ==
    live => \A h \in Handlers: Settling(h) => provider[job[h].request] = "collected"

\* A handler about to write APPROVED has recorded the payment or found it recorded.
ApprovingRecorded ==
    \A h \in Handlers: At(h, "approve") => job[h].request \in payments

PInv ==
    /\ TypeOK
    /\ SentOnce
    /\ SettlingCollected /\ RecordedWasCollected
    /\ ApprovingRecorded /\ ApprovedIsRecorded
    /\ EveryPaymentCounts

-----------------------------------------------------------------------------
LEMMA IdleType == Idle \in Job
  BY PaymentRequestsAssumption DEF Idle, Job, Steps

LEMMA PInvInit == Init => PInv
<1> SUFFICES ASSUME Init PROVE PInv
  OBVIOUS
<1>1. TypeOK
  BY IdleType, PaymentRequestsAssumption DEF Init, TypeOK, Statuses, At, Idle
<1>2. SentOnce /\ SettlingCollected /\ RecordedWasCollected /\ ApprovingRecorded /\ ApprovedIsRecorded
  BY DEF Init, SentOnce, Creating, At, Idle, SettlingCollected, Settling, RecordedWasCollected,
         ApprovingRecorded, ApprovedIsRecorded
<1>3. EveryPaymentCounts
  BY FS_EmptySet DEF Init, EveryPaymentCounts
<1> QED BY <1>1, <1>2, <1>3 DEF PInv

\* The parts of the invariant that a step of handler h leaves alone when it moves only
\* h's own locals, to nothing or to something that is neither creating nor settling.
LEMMA Quiet ==
    ASSUME PInv, NEW h \in Handlers, NEW j \in Job, j.step # "idle" => j.request \in Requests,
           job' = [job EXCEPT ![h] = j],
           j.step \notin {"create", "send", "check", "record", "approve"},
           j.step = "settle" => j.outcome = "FAILED" \/ ~live \/ provider[j.request] = "collected",
           UNCHANGED <<rowVars, worldVars>>, cached' \in [Requests -> BOOLEAN]
    PROVE  PInv'
<1> USE DEF rowVars, worldVars
<1>0. TypeOK'
  BY DEF PInv, TypeOK, At
<1>1. SentOnce'
  BY DEF PInv, TypeOK, SentOnce, Creating, At
<1>2. SettlingCollected' /\ RecordedWasCollected'
  BY DEF PInv, TypeOK, SettlingCollected, Settling, RecordedWasCollected, At
<1>3. ApprovingRecorded' /\ ApprovedIsRecorded' /\ EveryPaymentCounts'
  BY DEF PInv, TypeOK, ApprovingRecorded, ApprovedIsRecorded, EveryPaymentCounts, At
<1> QED BY <1>0, <1>1, <1>2, <1>3 DEF PInv

\* A row is written and nothing goes on: only PENDING, EXPIRED and FAILED.
LEMMA Written ==
    ASSUME PInv, NEW h \in Handlers, job[h].step # "idle", NEW v \in {"EXPIRED", "FAILED"},
           SetStatus(h, v), End(h), cached' \in [Requests -> BOOLEAN],
           UNCHANGED <<paidDayCount, payments, worldVars>>
    PROVE  PInv'
<1> USE DEF worldVars, SetStatus, End
<1>r. job[h].request \in Requests
  BY DEF PInv, TypeOK, At
<1>0. TypeOK'
  BY <1>r, IdleType DEF PInv, TypeOK, Statuses, At, Idle
<1>1. SentOnce'
  BY <1>r DEF PInv, TypeOK, SentOnce, Creating, At, Idle
<1>2. SettlingCollected' /\ RecordedWasCollected'
  BY DEF PInv, TypeOK, SettlingCollected, Settling, RecordedWasCollected, At, Idle
<1>3. ApprovingRecorded' /\ ApprovedIsRecorded' /\ EveryPaymentCounts'
  BY <1>r DEF PInv, TypeOK, ApprovingRecorded, ApprovedIsRecorded, EveryPaymentCounts, At, Idle
<1> QED BY <1>0, <1>1, <1>2, <1>3 DEF PInv

LEMMA ReturnFacts ==
    ASSUME TypeOK, NEW h \in Handlers, Return(h), job[h].request \in Requests
    PROVE  End(h) /\ cached' \in [Requests -> BOOLEAN]
  BY DEF TypeOK, Return

-----------------------------------------------------------------------------
(* The steps. *)

LEMMA BeginStep ==
    ASSUME PInv, NEW h \in Handlers, NEW r \in Requests
    PROVE  /\ BeginInitiate(h, r) => PInv'
           /\ PollRequest(h, r) => PInv'
           /\ Webhook(h, r) => PInv'
           /\ MockApprove(h, r) => PInv'
<1> DEFINE Local(s, o, v) == [Idle EXCEPT !.step = s, !.request = r, !.outcome = o, !.via = v]
<1>t. TypeOK
  BY DEF PInv
<1>j. ASSUME NEW s \in Steps, NEW o \in {"APPROVED", "FAILED", None},
             NEW v \in {"app", "webhook", "mock"}, Begin(h, s, r, o, v)
      PROVE  /\ Local(s, o, v) \in Job /\ Local(s, o, v).step = s
             /\ Local(s, o, v).request = r /\ Local(s, o, v).outcome = o
             /\ job' = [job EXCEPT ![h] = Local(s, o, v)] /\ job[h] = Idle
             /\ UNCHANGED <<rowVars, worldVars>> /\ cached' \in [Requests -> BOOLEAN]
  BY <1>j, <1>t, PaymentRequestsAssumption DEF Begin, Idle, Job, Steps, TypeOK
<1> HIDE DEF Local
<1>1. ASSUME BeginInitiate(h, r) PROVE PInv'
  <2> DEFINE j == Local("create", None, "app")
  <2>1. /\ j \in Job /\ j.step = "create" /\ j.request = r /\ j.outcome = None
        /\ job' = [job EXCEPT ![h] = j] /\ job[h] = Idle
        /\ UNCHANGED <<rowVars, worldVars>> /\ cached' \in [Requests -> BOOLEAN]
    BY <1>1, <1>j DEF BeginInitiate, Steps
  <2>2. status[r] = "none" /\ \A x \in Handlers: job[x].request # r
    BY <1>1 DEF BeginInitiate
  <2> HIDE DEF j
  <2>3. TypeOK'
    BY <2>1, <1>t DEF TypeOK, At, rowVars, worldVars
  <2>4. SentOnce'
    BY <2>1, <2>2, <1>t DEF PInv, TypeOK, SentOnce, Creating, At, rowVars, worldVars
  <2>5. SettlingCollected' /\ RecordedWasCollected'
    BY <2>1, <1>t DEF PInv, TypeOK, SettlingCollected, Settling, RecordedWasCollected, At, rowVars,
                      worldVars
  <2>6. ApprovingRecorded' /\ ApprovedIsRecorded' /\ EveryPaymentCounts'
    BY <2>1, <1>t DEF PInv, TypeOK, ApprovingRecorded, ApprovedIsRecorded, EveryPaymentCounts, At,
                      rowVars, worldVars
  <2> QED BY <2>3, <2>4, <2>5, <2>6 DEF PInv
<1>2. ASSUME NEW s \in {"expire", "verify"}, NEW v \in {"app", "webhook"}, Begin(h, s, r, None, v)
      PROVE  PInv'
  <2>1. s \in Steps
    BY DEF Steps
  <2>2. /\ Local(s, None, v) \in Job /\ Local(s, None, v).step = s
        /\ Local(s, None, v).request = r
        /\ job' = [job EXCEPT ![h] = Local(s, None, v)]
        /\ UNCHANGED <<rowVars, worldVars>> /\ cached' \in [Requests -> BOOLEAN]
    BY <1>2, <1>j, <2>1
  <2> QED BY <2>2, Quiet
<1>3. ASSUME NEW o \in {"APPROVED", "FAILED"}, NEW v \in {"webhook", "mock"},
             Begin(h, "settle", r, o, v), o = "APPROVED" => ~live \/ provider[r] = "collected"
      PROVE  PInv'
  <2>1. "settle" \in Steps
    BY DEF Steps
  <2>2. /\ Local("settle", o, v) \in Job /\ Local("settle", o, v).step = "settle"
        /\ Local("settle", o, v).request = r /\ Local("settle", o, v).outcome = o
        /\ job' = [job EXCEPT ![h] = Local("settle", o, v)]
        /\ UNCHANGED <<rowVars, worldVars>> /\ cached' \in [Requests -> BOOLEAN]
    BY <1>3, <1>j, <2>1
  <2> QED BY <2>2, <1>3, Quiet
<1>4. PollRequest(h, r) => PInv'
  BY <1>2 DEF PollRequest
<1>5. Webhook(h, r) => PInv'
  <2>1. Outcome(r) \in {"APPROVED", "FAILED"} /\ (Outcome(r) = "APPROVED" => provider[r] = "collected")
    BY DEF Outcome
  <2> QED BY <1>2, <1>3, <2>1 DEF Webhook
<1>6. MockApprove(h, r) => PInv'
  BY <1>3 DEF MockApprove
<1> QED BY <1>1, <1>4, <1>5, <1>6

LEMMA InitiateStep ==
    ASSUME PInv, NEW h \in Handlers
    PROVE  CreateRequest(h) \/ RequestToPay(h) \/ FailInitiate(h) \/ WriteExpired(h) => PInv'
<1>t. TypeOK
  BY DEF PInv
<1>1. ASSUME CreateRequest(h) PROVE PInv'
  <2> USE DEF CreateRequest, At, Goto, SetStatus, worldVars
  <2>1. job[h].request \in Requests
    BY <1>1, <1>t DEF TypeOK
  <2>2. TypeOK'
    BY <1>1, <1>t, <2>1 DEF TypeOK, Statuses, Steps, Job
  <2>3. SentOnce'
    BY <1>1, <1>t, <2>1 DEF PInv, TypeOK, SentOnce, Creating, Job
  <2>4. SettlingCollected' /\ RecordedWasCollected'
    BY <1>1, <1>t DEF PInv, TypeOK, SettlingCollected, Settling, RecordedWasCollected, Job
  <2>5. ApprovingRecorded' /\ ApprovedIsRecorded' /\ EveryPaymentCounts'
    BY <1>1, <1>t, <2>1 DEF PInv, TypeOK, ApprovingRecorded, ApprovedIsRecorded, EveryPaymentCounts, Job
  <2> QED BY <2>2, <2>3, <2>4, <2>5 DEF PInv
<1>2. ASSUME RequestToPay(h) PROVE PInv'
  <2>1. /\ At(h, "send") /\ job[h].request \in Requests /\ provider[job[h].request] = "none"
        /\ status[job[h].request] # "none"
        /\ UNCHANGED <<rowVars, live, expired, cached>>
    BY <1>2, <1>t DEF PInv, RequestToPay, TypeOK, SentOnce, Creating, At
  <2>2. \/ provider' = provider
        \/ provider' = [provider EXCEPT ![job[h].request] = "pending"]
    BY <1>2 DEF RequestToPay
  <2>3. PICK j \in Job: /\ job' = [job EXCEPT ![h] = j]
                        /\ j.step \in {"idle", "initFailed"}
                        /\ j.step # "idle" => j.request \in Requests
    <3>1. CASE End(h)
      BY <3>1, IdleType DEF End, Idle
    <3>2. CASE Goto(h, "initFailed")
      <4>1. [job[h] EXCEPT !.step = "initFailed"] \in Job
        BY <1>t DEF TypeOK, Job, Steps
      <4> QED BY <3>2, <4>1, <2>1, <1>t DEF Goto, TypeOK, Job
    <3> QED BY <1>2, <3>1, <3>2 DEF RequestToPay
  <2> USE DEF rowVars
  <2>4. TypeOK'
    BY <2>1, <2>2, <2>3, <1>t DEF TypeOK, At
  <2>5. SentOnce'
    BY <2>1, <2>2, <2>3, <1>t DEF PInv, TypeOK, SentOnce, Creating, At
  <2>6. SettlingCollected' /\ RecordedWasCollected'
    BY <2>1, <2>2, <2>3, <1>t DEF PInv, TypeOK, SettlingCollected, Settling, RecordedWasCollected, At
  <2>7. ApprovingRecorded' /\ ApprovedIsRecorded' /\ EveryPaymentCounts'
    BY <2>1, <2>3, <1>t DEF PInv, TypeOK, ApprovingRecorded, ApprovedIsRecorded, EveryPaymentCounts, At
  <2> QED BY <2>4, <2>5, <2>6, <2>7 DEF PInv
<1>3. FailInitiate(h) => PInv'
  BY <1>t, Written DEF FailInitiate, At, TypeOK
<1>4. WriteExpired(h) => PInv'
  BY <1>t, Written DEF WriteExpired, At, TypeOK
<1> QED BY <1>1, <1>2, <1>3, <1>4

LEMMA SettleStep ==
    ASSUME PInv, NEW h \in Handlers
    PROVE  VerifyTransaction(h) \/ Settle(h) \/ MarkExpired(h) \/ MarkFailed(h) => PInv'
<1>t. TypeOK
  BY DEF PInv
<1>e. ASSUME End(h), cached' \in [Requests -> BOOLEAN], UNCHANGED <<rowVars, worldVars>> PROVE PInv'
  BY <1>e, IdleType, Quiet DEF End, Idle
<1>r. job[h].step # "idle" => job[h].request \in Requests
  BY <1>t DEF TypeOK, At
<1>c. /\ Return(h) /\ job[h].step # "idle" => End(h) /\ cached' \in [Requests -> BOOLEAN]
      /\ Throw(h) => End(h) /\ cached' \in [Requests -> BOOLEAN]
  BY <1>t, <1>r, ReturnFacts DEF Throw, TypeOK
<1>1. ASSUME VerifyTransaction(h) PROVE PInv'
  <2>1. job[h].step = "verify" /\ UNCHANGED <<rowVars, worldVars>>
    BY <1>1 DEF VerifyTransaction, At
  <2>2. CASE /\ Decided(job[h].request) /\ UNCHANGED cached
             /\ job' = [job EXCEPT ![h].step = "settle", ![h].outcome = Outcome(job[h].request)]
    <3> DEFINE j == [job[h] EXCEPT !.step = "settle", !.outcome = Outcome(job[h].request)]
    <3>1. /\ j \in Job /\ j.step = "settle" /\ j.request \in Requests
          /\ j.outcome = "FAILED" \/ provider[j.request] = "collected"
      BY <2>1, <1>r, <1>t DEF TypeOK, Job, Steps, Outcome
    <3>2. job' = [job EXCEPT ![h] = j]
      BY <2>2, <1>t DEF TypeOK
    <3>3. cached' \in [Requests -> BOOLEAN]
      BY <2>2, <1>t DEF TypeOK
    <3> HIDE DEF j
    <3> QED BY <3>1, <3>2, <3>3, <2>1, Quiet
  <2> QED BY <1>1, <2>1, <2>2, <1>e, <1>c DEF VerifyTransaction
<1>2. ASSUME Settle(h) PROVE PInv'
  <2>1. job[h].step = "settle" /\ UNCHANGED <<rowVars, worldVars>> /\ job[h].request \in Requests
    BY <1>2, <1>r DEF Settle, At
  <2>2. CASE End(h) /\ cached' \in [Requests -> BOOLEAN]
    BY <2>1, <2>2, <1>e
  <2>3. CASE UNCHANGED cached /\ (Goto(h, "markExpired") \/ Goto(h, "markFailed"))
    <3>1. PICK s \in {"markExpired", "markFailed"}: Goto(h, s)
      BY <2>3
    <3> DEFINE j == [job[h] EXCEPT !.step = s]
    <3>2. j \in Job /\ j.step = s /\ j.request \in Requests
      BY <2>1, <1>t DEF TypeOK, Job, Steps
    <3>3. job' = [job EXCEPT ![h] = j] /\ cached' \in [Requests -> BOOLEAN]
      BY <2>3, <3>1, <1>t DEF Goto, TypeOK
    <3> HIDE DEF j
    <3> QED BY <2>1, <3>2, <3>3, Quiet
  <2>4. CASE UNCHANGED cached /\ Goto(h, "check") /\ job[h].outcome # "FAILED"
    <3> USE DEF Goto, At, rowVars, worldVars
    <3>1. TypeOK'
      BY <2>1, <2>4, <1>t DEF TypeOK, Job, Steps
    <3>2. SentOnce'
      BY <2>1, <2>4, <1>t DEF PInv, TypeOK, SentOnce, Creating, Job
    <3>3. SettlingCollected' /\ RecordedWasCollected'
      BY <2>1, <2>4, <1>t DEF PInv, TypeOK, SettlingCollected, Settling, RecordedWasCollected, Job
    <3>4. ApprovingRecorded' /\ ApprovedIsRecorded' /\ EveryPaymentCounts'
      BY <2>1, <2>4, <1>t DEF PInv, TypeOK, ApprovingRecorded, ApprovedIsRecorded, EveryPaymentCounts, Job
    <3> QED BY <3>1, <3>2, <3>3, <3>4 DEF PInv
  <2> QED BY <1>2, <2>1, <2>2, <2>3, <2>4, <1>c DEF Settle
<1>3. MarkExpired(h) => PInv'
  BY <1>t, <1>c, Written DEF MarkExpired, At
<1>4. MarkFailed(h) => PInv'
  BY <1>t, <1>c, Written DEF MarkFailed, At
<1> QED BY <1>1, <1>2, <1>3, <1>4

LEMMA RecordStep ==
    ASSUME PInv, NEW h \in Handlers
    PROVE  CheckPayable(h) \/ Record(h) \/ Approve(h) \/ Crash(h) => PInv'
<1>t. TypeOK
  BY DEF PInv
<1>e. ASSUME End(h), cached' \in [Requests -> BOOLEAN], UNCHANGED <<rowVars, worldVars>> PROVE PInv'
  BY <1>e, IdleType, Quiet DEF End, Idle
<1>c. cached \in [Requests -> BOOLEAN]
  BY <1>t DEF TypeOK
<1>1. ASSUME CheckPayable(h) PROVE PInv'
  <2>1. CASE End(h)
    BY <1>1, <2>1, <1>e, <1>c DEF CheckPayable
  <2>2. CASE paidDayCount < Days /\ job' = [job EXCEPT ![h].step = "record", ![h].day = paidDayCount + 1]
    <3> USE DEF CheckPayable, At, rowVars, worldVars
    <3>0. Days \in Nat /\ paidDayCount + 1 \in 0..Days
      BY <2>2, <1>t, PaymentRequestsAssumption DEF TypeOK
    <3> DEFINE j == [job[h] EXCEPT !.step = "record", !.day = paidDayCount + 1]
    <3>j. j \in Job /\ j.step = "record" /\ j.request \in Requests /\ job' = [job EXCEPT ![h] = j]
      BY <1>1, <2>2, <3>0, <1>t DEF TypeOK, Job, Steps
    <3> HIDE DEF j
    <3>1. TypeOK'
      BY <1>1, <3>j, <1>t DEF TypeOK
    <3>2. SentOnce'
      BY <1>1, <2>2, <1>t DEF PInv, TypeOK, SentOnce, Creating, Job
    <3>3. SettlingCollected' /\ RecordedWasCollected'
      BY <1>1, <2>2, <1>t DEF PInv, TypeOK, SettlingCollected, Settling, RecordedWasCollected, Job
    <3>4. ApprovingRecorded' /\ ApprovedIsRecorded' /\ EveryPaymentCounts'
      BY <1>1, <2>2, <1>t DEF PInv, TypeOK, ApprovingRecorded, ApprovedIsRecorded, EveryPaymentCounts, Job
    <3> QED BY <3>1, <3>2, <3>3, <3>4 DEF PInv
  <2> QED BY <1>1, <2>1, <2>2 DEF CheckPayable
<1>2. ASSUME Record(h) PROVE PInv'
  <2>1. CASE End(h) /\ UNCHANGED rowVars
    BY <1>2, <2>1, <1>e, <1>c DEF Record
  <2>2. CASE /\ paidDayCount = job[h].day - 1
             /\ paidDayCount' = job[h].day
             /\ payments' = payments \union {job[h].request}
             /\ Goto(h, "approve") /\ UNCHANGED status
    <3> USE DEF Record, At, Goto, worldVars
    <3>0. job[h].request \in Requests
      BY <1>2, <1>t DEF TypeOK
    <3>1. TypeOK'
      BY <1>2, <2>2, <3>0, <1>t DEF TypeOK, Job, Steps
    <3>2. SentOnce'
      BY <1>2, <2>2, <1>t DEF PInv, TypeOK, SentOnce, Creating, Job
    <3>3. SettlingCollected' /\ RecordedWasCollected'
      BY <1>2, <2>2, <3>0, <1>t DEF PInv, TypeOK, SettlingCollected, Settling, RecordedWasCollected, Job
    <3>4. ApprovingRecorded' /\ ApprovedIsRecorded'
      BY <1>2, <2>2, <1>t DEF PInv, TypeOK, ApprovingRecorded, ApprovedIsRecorded, Job
    <3>5. EveryPaymentCounts'
      <4>1. IsFiniteSet(payments)
        BY <1>t, PaymentRequestsAssumption, FS_Subset DEF TypeOK
      <4>2. Cardinality(payments) \in Nat
        BY <4>1, FS_CardinalityType
      <4>3. \/ Cardinality(payments') = Cardinality(payments)
            \/ Cardinality(payments') = Cardinality(payments) + 1
        BY <4>1, <2>2, FS_AddElement
      <4>4. /\ paidDayCount' = paidDayCount + 1 /\ paidDayCount \in Int
        <5>1. job[h].day \in Int /\ paidDayCount \in Int
          BY <1>t, PaymentRequestsAssumption DEF TypeOK, Job
        <5> QED BY <2>2, <5>1
      <4>5. Cardinality(payments) <= paidDayCount
        BY DEF PInv, EveryPaymentCounts
      <4> QED BY <4>2, <4>3, <4>4, <4>5 DEF EveryPaymentCounts
    <3> QED BY <3>1, <3>2, <3>3, <3>4, <3>5 DEF PInv
  <2> QED BY <1>2, <2>1, <2>2 DEF Record
<1>3. ASSUME Approve(h) PROVE PInv'
  <2> USE DEF Approve, At, SetStatus, worldVars
  <2>1. job[h].request \in Requests /\ job[h].request \in payments
    BY <1>3, <1>t DEF PInv, TypeOK, ApprovingRecorded
  <2>2. End(h) /\ cached' \in [Requests -> BOOLEAN]
    BY <1>3, <2>1, <1>t, ReturnFacts
  <2> USE DEF End
  <2>3. TypeOK'
    BY <1>3, <2>1, <2>2, IdleType, <1>t DEF TypeOK, Statuses, Idle
  <2>4. SentOnce'
    BY <1>3, <2>1, <2>2, <1>t DEF PInv, TypeOK, SentOnce, Creating, Idle
  <2>5. SettlingCollected' /\ RecordedWasCollected'
    BY <1>3, <2>2, <1>t DEF PInv, TypeOK, SettlingCollected, Settling, RecordedWasCollected, Idle
  <2>6. ApprovingRecorded' /\ ApprovedIsRecorded' /\ EveryPaymentCounts'
    BY <1>3, <2>1, <2>2, <1>t DEF PInv, TypeOK, ApprovingRecorded, ApprovedIsRecorded,
                                  EveryPaymentCounts, Idle
  <2> QED BY <2>3, <2>4, <2>5, <2>6 DEF PInv
<1>4. Crash(h) => PInv'
  BY <1>e, <1>c DEF Crash, Throw
<1> QED BY <1>1, <1>2, <1>3, <1>4

LEMMA WorldStep ==
    ASSUME PInv, NEW r \in Requests
    PROVE  ProviderDecides(r) \/ Expire(r) => PInv'
<1> USE DEF rowVars
<1>t. TypeOK
  BY DEF PInv
<1>1. ASSUME ProviderDecides(r) PROVE PInv'
  <2>1. TypeOK'
    BY <1>1, <1>t DEF ProviderDecides, TypeOK, At
  <2>2. SentOnce'
    BY <1>1, <1>t DEF PInv, ProviderDecides, TypeOK, SentOnce, Creating, At
  <2>3. SettlingCollected' /\ RecordedWasCollected'
    BY <1>1, <1>t DEF PInv, ProviderDecides, TypeOK, SettlingCollected, Settling, RecordedWasCollected, At
  <2>4. ApprovingRecorded' /\ ApprovedIsRecorded' /\ EveryPaymentCounts'
    BY <1>1 DEF PInv, ProviderDecides, ApprovingRecorded, ApprovedIsRecorded, EveryPaymentCounts, At
  <2> QED BY <2>1, <2>2, <2>3, <2>4 DEF PInv
<1>2. Expire(r) => PInv'
  BY <1>t DEF PInv, Expire, TypeOK, SentOnce, Creating, SettlingCollected, Settling,
              RecordedWasCollected, ApprovingRecorded, ApprovedIsRecorded, EveryPaymentCounts, At
<1> QED BY <1>1, <1>2

LEMMA PInvStep == PInv /\ [Next]_vars => PInv'
<1> SUFFICES ASSUME PInv, [Next]_vars PROVE PInv'
  OBVIOUS
<1>1. CASE UNCHANGED vars
  BY <1>1 DEF vars, rowVars, worldVars, PInv, TypeOK, SentOnce, Creating, SettlingCollected, Settling,
              RecordedWasCollected, ApprovingRecorded, ApprovedIsRecorded, EveryPaymentCounts, At
<1>2. CASE Next
  BY <1>2, BeginStep, InitiateStep, SettleStep, RecordStep, WorldStep DEF Next, Work
<1> QED BY <1>1, <1>2

-----------------------------------------------------------------------------
(* Theorems *)

LEMMA Invariant == Spec => []PInv
  BY PInvInit, PInvStep, PTL DEF Spec

\* The rows, the count and the handlers' locals keep their types; no more days are
\* paid than the contribution has.
THEOREM Types == Spec => []TypeOK
<1>1. PInv => TypeOK
  BY DEF PInv
<1> QED BY <1>1, Invariant, PTL

\* A live payment is only recorded for money the provider has collected.
THEOREM Collected == Spec => []RecordedWasCollected
<1>1. PInv => RecordedWasCollected
  BY DEF PInv
<1> QED BY <1>1, Invariant, PTL

\* A request shown as confirmed has its Payment row.
THEOREM Recorded == Spec => []ApprovedIsRecorded
<1>1. PInv => ApprovedIsRecorded
  BY DEF PInv
<1> QED BY <1>1, Invariant, PTL

\* No recorded payment is missing from the count.
THEOREM Counted == Spec => []EveryPaymentCounts
<1>1. PInv => EveryPaymentCounts
  BY DEF PInv
<1> QED BY <1>1, Invariant, PTL

=============================================================================
