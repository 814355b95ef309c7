------------------------- MODULE WithdrawalsProofs --------------------------
(***************************************************************************)
(* Theorems about Withdrawals for any number of members, requests and      *)
(* concurrent handlers.                                                    *)
(***************************************************************************)
EXTENDS Reconciliation, SumLemmas

\* The states of the request that creates w before w has a providerRef.
Early == {"new", "hold", "send", "mark"}

\* Until then the row is the one createWithdrawalHold wrote.
RowInv ==
    \A w \in Requests:
        /\ pc[w] \in {"new", "hold"} => status[w] = "none"
        /\ pc[w] \in {"send", "mark"} => status[w] = "PENDING"
        /\ pc[w] \in Early => ref[w] = None
        /\ status[w] = "none" => ref[w] = None /\ journals[w] = {}

\* So no handler is settling w before the creating request is past that point:
\* look-ups go by providerRef, and HQ asks for PROCESSING.
TxInv ==
    \A p \in Procs:
        pc[p] \in TxSteps \union {"notify"} =>
            /\ pc[target[p]] \notin Early
            /\ status[target[p]] # "none"

\* Whoever completes w for the provider has been told COMPLETED by it.
PaidInv ==
    \A p \in Procs:
        \/ /\ pc[p] \in CompleteSteps
           /\ via[p] # "hq"
        \/ /\ pc[p] = "lookup"
           /\ outcome[p] = "COMPLETED"
        => provider[target[p]] \in {"paid", "mock"}

IInv == TypeOK /\ RowInv /\ TxInv /\ PaidInv /\ StatusMatchesJournals /\ CompletedWasPaid

-----------------------------------------------------------------------------
(* Types *)

\* Moving one process, and nothing else about the processes, keeps the types.
Locals ==
    /\ pc \in [Procs -> Steps]
    /\ target \in [Procs -> Requests \union {None}]
    /\ outcome \in [Procs -> Terminal \union {None}]
    /\ via \in [Procs -> {"start", "webhook", "poll", "hq"}]
    /\ found \in [Procs -> BOOLEAN]
    /\ \A p \in Procs: pc[p] # "idle" => target[p] \in Requests
    /\ \A w \in Requests: target[w] = w

Rows ==
    /\ status \in [Requests -> Statuses]
    /\ ref \in [Requests -> Refs]
    /\ journals \in [Requests -> SUBSET Kinds]
    /\ provider \in [Requests -> ProviderStates]
    /\ cached \in [Requests -> BOOLEAN]

LEMMA TypeParts == TypeOK <=> Rows /\ Locals
  BY DEF TypeOK, Rows, Locals

LEMMA GotoType ==
    ASSUME Locals, NEW p \in Procs, NEW step \in Steps, Goto(p, step),
           target[p] \in Requests, UNCHANGED jobVars
    PROVE  Locals'
  BY DEF Locals, Goto, jobVars

LEMMA ReturnType ==
    ASSUME TypeOK, NEW p \in Procs, target[p] \in Requests, Return(p)
    PROVE  /\ Goto(p, "idle") /\ "idle" \in Steps
           /\ cached' \in [Requests -> BOOLEAN]
  BY DEF Return, TypeOK, Steps

LEMMA ThrowType ==
    ASSUME NEW p \in Procs, Throw(p)
    PROVE  /\ \E step \in Steps: Goto(p, step)
           /\ cached' = cached
  BY DEF Throw, Steps

LEMMA BeginType ==
    ASSUME TypeOK, NEW h \in Handlers, NEW w \in Requests,
           NEW step \in Steps, NEW out \in Terminal \union {None},
           NEW how \in {"start", "webhook", "poll", "hq"},
           Begin(h, w, step, out, how)
    PROVE  TypeOK'
  <1>1. h \in Procs /\ h \notin Requests
    BY WithdrawalsAssumption DEF Procs
  <1>2. Rows'
    BY TypeParts DEF Begin, Rows, rowVars
  <1>3. Locals'
    BY <1>1, TypeParts DEF Locals, Begin, Goto
  <1> QED BY <1>2, <1>3, TypeParts DEF TypeOK, Rows, Locals

LEMMA TypeStep == TypeOK /\ [Next]_vars => TypeOK'
<1> SUFFICES ASSUME TypeOK, [Next]_vars PROVE TypeOK'
  OBVIOUS
<1> USE DEF Procs
<1>0. Rows /\ Locals
  BY TypeParts
<1>p. Rows' /\ Locals' => TypeOK'
  BY DEF TypeOK, Rows, Locals
<1>1. CASE UNCHANGED vars
  BY <1>1 DEF vars, TypeOK
<1>2. ASSUME NEW w \in Requests, Start(w) PROVE TypeOK'
  <2>1. target[w] \in Requests
    BY <1>0 DEF Locals
  <2>2. CASE CheckCreate(w) \/ RejectCreate(w)
    BY <1>0, <1>p, <2>1, <2>2, GotoType DEF CheckCreate, RejectCreate, Rows, rowVars, Steps
  <2>3. CASE CreateHold(w)
    BY <1>0, <1>p, <2>1, <2>3, GotoType DEF CreateHold, Rows, Steps, Statuses, Kinds
  <2>4. CASE RequestTransfer(w)
    BY <1>0, <1>p, <2>1, <2>4, GotoType DEF RequestTransfer, Rows, rowVars, Steps, ProviderStates
  <2>5. CASE MarkProcessing(w)
    BY <1>0, <1>p, <2>1, <2>5, GotoType DEF MarkProcessing, Rows, Steps, Statuses, Refs
  <2>6. CASE NotifyProcessing(w)
    BY <1>0, <1>p, <2>1, <2>6 DEF NotifyProcessing, Rows, Locals, Goto, rowVars, Steps, Terminal
  <2> QED BY <1>2, <2>2, <2>3, <2>4, <2>5, <2>6 DEF Start
<1>3. ASSUME NEW w \in Requests, ProviderDecides(w) PROVE TypeOK'
  BY <1>3 DEF ProviderDecides, TypeOK, rowVars, jobVars, ProviderStates
<1>4. ASSUME NEW h \in Handlers, NEW w \in Requests,
             Webhook(h, w) \/ Poll(h, w) \/ HqConfirm(h, w) \/ HqFail(h, w)
      PROVE TypeOK'
  BY <1>4, BeginType DEF Webhook, Poll, HqConfirm, HqFail, Decision, Steps, Terminal
<1>5. ASSUME NEW h \in Handlers, VerifyTransfer(h) PROVE TypeOK'
  BY <1>0, <1>p, <1>5 DEF VerifyTransfer, Return, Rows, Locals, Goto, rowVars, Steps, Terminal, Decision
<1>6. ASSUME NEW p \in Procs, Settle(p) PROVE TypeOK'
  <2>1. target[p] \in Requests
    BY <1>0, <1>6 DEF Locals, Settle, Lookup, CompleteRead, CompleteCheck, CompleteCommit,
                      FailRead, FailCheck, FailCommit
  <2>2. CASE Lookup(p) \/ CompleteRead(p) \/ FailRead(p)
    <3>1. UNCHANGED <<rowVars, provider, jobVars>>
      BY <2>2 DEF Lookup, CompleteRead, FailRead
    <3>2. Return(p) \/ Throw(p) \/ (\E step \in Steps: Goto(p, step) /\ UNCHANGED cached)
      BY <2>2 DEF Lookup, CompleteRead, FailRead, Steps
    <3> QED BY <1>0, <1>p, <2>1, <3>1, <3>2, GotoType, ReturnType, ThrowType DEF Rows, rowVars
  <2>3. CASE CompleteCheck(p) \/ FailCheck(p)
    <3>1. PICK kind \in Kinds, step \in Steps: CheckJournal(p, kind, step)
      BY <2>3 DEF CompleteCheck, FailCheck, Kinds, Steps
    <3>a. UNCHANGED <<status, ref, journals, provider, cached, target, outcome, via>>
      BY <3>1, ThrowType DEF CheckJournal, rowVars
    <3>b. \E to \in Steps: Goto(p, to)
      BY <3>1, ThrowType DEF CheckJournal
    <3>c. found' \in [Procs -> BOOLEAN]
      <4>1. (kind \in journals[target[p]]) \in BOOLEAN
        OBVIOUS
      <4>2. found \in [Procs -> BOOLEAN]
        BY <1>0 DEF Locals
      <4>3. found' = found \/ found' = [found EXCEPT ![p] = kind \in journals[target[p]]]
        BY <3>1, Zenon DEF CheckJournal
      <4> QED BY <4>1, <4>2, <4>3, Zenon
    <3>2. Rows'
      BY <1>0, <3>a DEF Rows
    <3>3. Locals'
      BY <1>0, <2>1, <3>a, <3>b, <3>c DEF Locals, Goto
    <3> QED BY <1>p, <3>2, <3>3
  <2>4. CASE CompleteCommit(p) \/ FailCommit(p)
    <3>1. UNCHANGED <<provider, jobVars>>
      BY <2>4 DEF CompleteCommit, FailCommit
    <3>2. Return(p) \/ Throw(p)
      BY <2>4 DEF CompleteCommit, FailCommit
    <3>3. /\ status' \in [Requests -> Statuses]
          /\ ref' \in [Requests -> Refs]
          /\ journals' \in [Requests -> SUBSET Kinds]
      BY <1>0, <2>1, <2>4 DEF CompleteCommit, FailCommit, rowVars, Rows, Statuses, Refs, Kinds, NewRef
    <3> QED BY <1>0, <1>p, <2>1, <3>1, <3>2, <3>3, GotoType, ReturnType, ThrowType DEF Rows
  <2> QED BY <1>6, <2>2, <2>3, <2>4 DEF Settle
<1>7. ASSUME NEW p \in Procs, AbortTx(p) \/ Crash(p) PROVE TypeOK'
  <2>1. target[p] \in Requests
    BY <1>0, <1>7 DEF Locals, AbortTx, Crash, TxSteps, CompleteSteps
  <2>2. UNCHANGED <<rowVars, provider, cached, jobVars>>
    BY <1>7 DEF AbortTx, Crash, Throw
  <2>3. \E step \in Steps: Goto(p, step)
    BY <1>7, ThrowType DEF AbortTx, Crash, Steps
  <2> QED BY <1>0, <1>p, <2>1, <2>2, <2>3, GotoType DEF Rows, rowVars
<1> QED BY <1>1, <1>2, <1>3, <1>4, <1>5, <1>6, <1>7 DEF Next, Work, Failure

\* The rows and the handlers' locals keep their types: no step of the withdrawal
\* flow writes a status, a reference or a journal the code does not know.
THEOREM TypeCorrect == Spec => []TypeOK
<1>1. Init => TypeOK
  BY WithdrawalsAssumption DEF Init, TypeOK, Procs, Statuses, Refs, Kinds, Steps, ProviderStates
<1>2. TypeOK /\ [Next]_vars => TypeOK'
  BY TypeStep
<1> QED BY <1>1, <1>2, PTL DEF Spec

-----------------------------------------------------------------------------
(* The rows *)

\* The two commits of a settlement, as changes of p's row.
Completes(p) ==
    /\ pc[p] = "completeCommit"
    /\ journals' = [journals EXCEPT ![target[p]] = @ \union {"complete"}]
    /\ status' = [status EXCEPT ![target[p]] = "COMPLETED"]
    /\ ref' = [ref EXCEPT ![target[p]] = NewRef(p)]

Releases(p) ==
    /\ pc[p] = "failCommit"
    /\ journals' = [journals EXCEPT ![target[p]] = @ \union {"release"}]
    /\ status' = [status EXCEPT ![target[p]] = "FAILED"]
    /\ ref' = ref

Unsettled(w) == pc[w] \in Early \/ status[w] = "none"

\* What a settlement step does to p and to the row it works on: only a row whose
\* creating request is past the early states enters a settlement transaction.
LEMMA SettleFacts ==
    ASSUME IInv, NEW p \in Procs, Settle(p)
    PROVE  /\ target[p] \in Requests
           /\ UNCHANGED <<provider, target, outcome, via>>
           /\ \E step \in TxSteps \union {"idle"}:
                /\ Goto(p, step)
                /\ step # "idle" => ~Unsettled(target[p])
                /\ step \in CompleteSteps =>
                    \/ pc[p] \in CompleteSteps
                    \/ pc[p] = "lookup" /\ outcome[p] = "COMPLETED"
           /\ pc[p] \in TxSteps \union {"lookup"}
           /\ UNCHANGED rowVars \/ Completes(p) \/ Releases(p)
<1> USE DEF Procs
<1>1. target[p] \in Requests
  BY DEF IInv, TypeOK, Settle, Lookup, CompleteRead, CompleteCheck, CompleteCommit,
         FailRead, FailCheck, FailCommit
<1>2. UNCHANGED <<provider, target, outcome, via>>
  BY DEF Settle, Lookup, CompleteRead, CompleteCheck, CompleteCommit,
         FailRead, FailCheck, FailCommit, CheckJournal, jobVars
<1>3. UNCHANGED rowVars \/ Completes(p) \/ Releases(p)
  BY DEF Settle, Lookup, CompleteRead, CompleteCheck, CompleteCommit,
         FailRead, FailCheck, FailCommit, CheckJournal, Completes, Releases, rowVars
<1>4. pc[p] \in TxSteps \union {"lookup"}
  BY DEF Settle, Lookup, CompleteRead, CompleteCheck, CompleteCommit,
         FailRead, FailCheck, FailCommit, TxSteps, CompleteSteps
<1>5. CASE pc[p] = "lookup"
  <2>1. Lookup(p)
    BY <1>5 DEF Settle, Lookup, CompleteRead, CompleteCheck, CompleteCommit,
                FailRead, FailCheck, FailCommit
  <2>2. CASE ref[target[p]] # "provider" \/ status[target[p]] \in Terminal
    BY <1>1, <1>2, <1>3, <1>4, <2>1, <2>2 DEF Lookup, Return, CompleteSteps
  <2>3. CASE ref[target[p]] = "provider"
    <3>1. ~Unsettled(target[p])
      BY <1>1, <2>3, WithdrawalsAssumption DEF IInv, RowInv, Unsettled, Refs
    <3> QED BY <1>1, <1>2, <1>3, <1>4, <1>5, <2>1, <3>1
            DEF Lookup, Return, TxSteps, CompleteSteps
  <2> QED BY <2>2, <2>3
<1>6. CASE pc[p] \in TxSteps
  <2>1. ~Unsettled(target[p])
    BY <1>6 DEF IInv, TxInv, Unsettled
  <2>2. \E step \in TxSteps \union {"idle"}: 
            /\ Goto(p, step) 
            /\ step \in CompleteSteps => pc[p] \in CompleteSteps
    <3>1. \/ pc[p] = "completeRead" /\ CompleteRead(p)
          \/ pc[p] = "completeCheck" /\ CheckJournal(p, "complete", "completeCommit")
          \/ pc[p] = "failRead" /\ FailRead(p)
          \/ pc[p] = "failCheck" /\ CheckJournal(p, "release", "failCommit")
          \/ pc[p] = "completeCommit" /\ CompleteCommit(p)
          \/ pc[p] = "failCommit" /\ FailCommit(p)
      BY <1>6 DEF Settle, Lookup, CompleteRead, CompleteCheck, CompleteCommit,
                  FailRead, FailCheck, FailCommit, TxSteps, CompleteSteps
    <3>2. CASE pc[p] = "completeRead" /\ CompleteRead(p)
      BY <3>2 DEF CompleteRead, Return, Throw, TxSteps, CompleteSteps
    <3>3. CASE pc[p] = "completeCheck" /\ CheckJournal(p, "complete", "completeCommit")
      BY <3>3 DEF CheckJournal, Throw, TxSteps, CompleteSteps
    <3>4. CASE pc[p] = "failRead" /\ FailRead(p)
      BY <3>4 DEF FailRead, Return, Throw, TxSteps, CompleteSteps
    <3>5. CASE pc[p] = "failCheck" /\ CheckJournal(p, "release", "failCommit")
      BY <3>5 DEF CheckJournal, Throw, TxSteps, CompleteSteps
    <3>6. CASE pc[p] = "completeCommit" /\ CompleteCommit(p)
      BY <3>6 DEF CompleteCommit, Return, Throw, TxSteps, CompleteSteps
    <3>7. CASE pc[p] = "failCommit" /\ FailCommit(p)
      BY <3>7 DEF FailCommit, Return, Throw, TxSteps, CompleteSteps
    <3> QED BY <3>1, <3>2, <3>3, <3>4, <3>5, <3>6, <3>7
  <2> QED BY <1>1, <1>2, <1>3, <1>4, <2>1, <2>2
<1> QED BY <1>4, <1>5, <1>6

-----------------------------------------------------------------------------
(* The invariant *)

RowParts == RowInv /\ TxInv /\ PaidInv /\ StatusMatchesJournals /\ CompletedWasPaid

\* A process that moves without touching a row, an outcome or the provider keeps
\* the invariant if it does not enter a settlement it may not be in.
LEMMA MoveKeeps ==
    ASSUME IInv, NEW p \in Procs, NEW step \in Steps, Goto(p, step),
           UNCHANGED <<rowVars, provider, target, outcome, via>>,
           p \in Requests /\ step \in Early => pc[p] \in Early,
           p \in Requests /\ step \in {"new", "hold"} => status[p] = "none",
           p \in Requests /\ step \in {"send", "mark"} => status[p] = "PENDING",
           step \in TxSteps \union {"notify"} => pc[p] # "idle" /\ ~Unsettled(target[p]),
           step = "lookup" => pc[p] = "lookup",
           step \in CompleteSteps =>
                \/ pc[p] \in CompleteSteps
                \/ pc[p] = "lookup" /\ outcome[p] = "COMPLETED"
    PROVE  RowParts'
<1> USE DEF Procs
<1>1. RowInv'
  BY DEF IInv, TypeOK, RowInv, Goto, rowVars
<1>2. TxInv'
  <2> SUFFICES ASSUME NEW q \in Procs, pc'[q] \in TxSteps \union {"notify"}
               PROVE  pc'[target[q]] \notin Early /\ status[target[q]] # "none"
    BY DEF TxInv, rowVars
  <2>1. target[q] \in Requests
    BY DEF IInv, TypeOK, Goto, TxSteps, CompleteSteps
  <2>2. pc[target[q]] \notin Early /\ status[target[q]] # "none"
    BY DEF IInv, TypeOK, TxInv, Unsettled, Goto
  <2>3. pc'[target[q]] \in Early => pc[target[q]] \in Early
    BY <2>1 DEF IInv, TypeOK, Goto
  <2> QED BY <2>2, <2>3
<1>3. PaidInv'
  BY DEF IInv, TypeOK, PaidInv, Goto, CompleteSteps
<1>4. StatusMatchesJournals' /\ CompletedWasPaid'
  BY DEF IInv, StatusMatchesJournals, CompletedWasPaid, rowVars
<1> QED BY <1>1, <1>2, <1>3, <1>4 DEF RowParts

LEMMA StartKeeps ==
    ASSUME IInv, NEW w \in Requests, Start(w)
    PROVE  RowParts'
<1> USE DEF Procs
<1>0. TypeOK /\ RowInv /\ TxInv /\ PaidInv /\ StatusMatchesJournals /\ CompletedWasPaid
  BY DEF IInv
<1>t. target[w] = w /\ w \in Procs
  BY <1>0 DEF TypeOK
<1>1. CASE CheckCreate(w) \/ RejectCreate(w)
  BY <1>0, <1>t, <1>1, MoveKeeps DEF CheckCreate, RejectCreate, rowVars, jobVars, Steps, Early, TxSteps, CompleteSteps, RowInv
<1>2. CASE CreateHold(w)
  <2>1. CASE Wallet(Owner[w]) >= Amount[w]
    <3>1. /\ pc[w] = "hold"
          /\ status' = [status EXCEPT ![w] = "PENDING"]
          /\ journals' = [journals EXCEPT ![w] = @ \union {"hold"}]
          /\ pc' = [pc EXCEPT ![w] = "send"]
          /\ UNCHANGED <<ref, provider, target, outcome, via>>
      BY <1>2, <2>1 DEF CreateHold, Goto, jobVars
    <3>2. status[w] = "none" /\ journals[w] = {} /\ ref[w] = None
      BY <1>0, <3>1 DEF RowInv
    <3>3. RowInv'
      BY <1>0, <3>1, <3>2 DEF TypeOK, RowInv, Early
    <3>4. TxInv'
      BY <1>0, <1>t, <3>1, <3>2 DEF TypeOK, TxInv, Early, TxSteps, CompleteSteps
    <3>5. PaidInv'
      BY <1>0, <3>1 DEF TypeOK, PaidInv, CompleteSteps
    <3>6. StatusMatchesJournals'
      BY <1>0, <3>1, <3>2 DEF TypeOK, StatusMatchesJournals, Terminal
    <3>7. CompletedWasPaid'
      BY <1>0, <3>1 DEF TypeOK, CompletedWasPaid
    <3> QED BY <3>3, <3>4, <3>5, <3>6, <3>7 DEF RowParts
  <2>2. CASE ~(Wallet(Owner[w]) >= Amount[w])
    BY <1>0, <1>t, <1>2, <2>2, MoveKeeps DEF CreateHold, rowVars, jobVars, Steps, Early, TxSteps, CompleteSteps
  <2> QED BY <2>1, <2>2
<1>3. CASE RequestTransfer(w)
  <2>1. PICK step \in {"mark", "failRead"}: 
            /\ pc[w] = "send"
            /\ pc' = [pc EXCEPT ![w] = step]
            /\ UNCHANGED <<status, ref, journals, target, outcome, via>>
    BY <1>3 DEF RequestTransfer, Goto, rowVars, jobVars
  <2>2. \A v \in Requests: provider[v] \in {"paid", "mock"} => provider'[v] = provider[v]
    BY <1>0, <1>3 DEF RequestTransfer, TypeOK
  <2>3. status[w] = "PENDING"
    BY <1>0, <2>1 DEF RowInv
  <2>4. RowInv'
    BY <1>0, <2>1, <2>3 DEF TypeOK, RowInv, Early
  <2>5. TxInv'
    BY <1>0, <1>t, <2>1, <2>3 DEF TypeOK, TxInv, Early, TxSteps, CompleteSteps
  <2>6. PaidInv'
    BY <1>0, <2>1, <2>2 DEF TypeOK, PaidInv, CompleteSteps
  <2>7. StatusMatchesJournals' /\ CompletedWasPaid'
    BY <1>0, <2>1, <2>2 DEF TypeOK, StatusMatchesJournals, CompletedWasPaid
  <2> QED BY <2>4, <2>5, <2>6, <2>7 DEF RowParts
<1>4. CASE MarkProcessing(w)
  <2>0. status[w] = "PENDING"
    BY <1>0, <1>4 DEF RowInv, MarkProcessing
  <2>1. CASE pc' = [pc EXCEPT ![w] = "notify"]
    <3>1. /\ pc[w] = "mark"
          /\ status' = [status EXCEPT ![w] = "PROCESSING"]
          /\ ref' = [ref EXCEPT ![w] = "provider"]
          /\ UNCHANGED <<journals, provider, target, outcome, via>>
      BY <1>0, <1>4, <2>1 DEF MarkProcessing, Goto, jobVars, TypeOK
    <3>2. RowInv'
      BY <1>0, <2>1, <3>1 DEF TypeOK, RowInv, Early
    <3>3. TxInv'
      BY <1>0, <1>t, <2>1, <3>1 DEF TypeOK, TxInv, Early, TxSteps, CompleteSteps
    <3>4. PaidInv'
      BY <1>0, <2>1, <3>1 DEF TypeOK, PaidInv, CompleteSteps
    <3>5. StatusMatchesJournals'
      BY <1>0, <2>0, <3>1 DEF TypeOK, StatusMatchesJournals, Terminal
    <3>6. CompletedWasPaid'
      BY <1>0, <3>1 DEF TypeOK, CompletedWasPaid
    <3> QED BY <3>2, <3>3, <3>4, <3>5, <3>6 DEF RowParts
  <2>2. CASE Goto(w, "failRead") /\ UNCHANGED <<status, ref>>
    <3>1. pc[w] = "mark" /\ UNCHANGED <<rowVars, provider, target, outcome, via>>
      BY <1>4, <2>2 DEF MarkProcessing, rowVars, jobVars
    <3>2. pc' = [pc EXCEPT ![w] = "failRead"]
      BY <2>2 DEF Goto
    <3>3. RowInv'
      BY <1>0, <3>1, <3>2 DEF TypeOK, RowInv, Early, rowVars
    <3>4. TxInv'
      BY <1>0, <1>t, <2>0, <3>1, <3>2 DEF TypeOK, TxInv, Early, TxSteps, CompleteSteps, rowVars
    <3>5. PaidInv'
      BY <1>0, <3>1, <3>2 DEF TypeOK, PaidInv, CompleteSteps
    <3>6. StatusMatchesJournals' /\ CompletedWasPaid'
      BY <1>0, <3>1 DEF StatusMatchesJournals, CompletedWasPaid, rowVars
    <3> QED BY <3>3, <3>4, <3>5, <3>6 DEF RowParts
  <2> QED BY <1>4, <2>1, <2>2 DEF MarkProcessing, Goto
<1>5. CASE NotifyProcessing(w)
  <2>1. ~Unsettled(w)
    BY <1>0, <1>t, <1>5 DEF NotifyProcessing, TxInv, Unsettled
  <2>2. CASE UNCHANGED outcome /\ (Goto(w, "idle") \/ Goto(w, "failRead"))
    BY <1>0, <1>t, <1>5, <2>1, <2>2, MoveKeeps
       DEF NotifyProcessing, Steps, Early, TxSteps, CompleteSteps, rowVars
  <2>3. CASE provider[w] = "mock" /\ Goto(w, "lookup") /\ outcome' = [outcome EXCEPT ![w] = "COMPLETED"]
    <3>1. /\ pc[w] = "notify"
          /\ pc' = [pc EXCEPT ![w] = "lookup"]
          /\ UNCHANGED <<status, ref, journals, provider, target, via>>
      BY <1>5, <2>3 DEF NotifyProcessing, Goto, rowVars
    <3>2. RowInv'
      BY <1>0, <3>1 DEF TypeOK, RowInv, Early
    <3>3. TxInv'
      BY <1>0, <1>t, <3>1 DEF TypeOK, TxInv, Early, TxSteps, CompleteSteps
    <3>4. PaidInv'
      BY <1>0, <1>t, <2>3, <3>1 DEF TypeOK, PaidInv, CompleteSteps
    <3>5. StatusMatchesJournals' /\ CompletedWasPaid'
      BY <1>0, <3>1 DEF StatusMatchesJournals, CompletedWasPaid
    <3> QED BY <3>2, <3>3, <3>4, <3>5 DEF RowParts
  <2> QED BY <1>5, <2>2, <2>3 DEF NotifyProcessing
<1> QED BY <1>1, <1>2, <1>3, <1>4, <1>5 DEF Start

LEMMA BeginKeeps ==
    ASSUME IInv, NEW h \in Handlers, NEW w \in Requests,
           Webhook(h, w) \/ Poll(h, w) \/ HqConfirm(h, w) \/ HqFail(h, w)
    PROVE  RowParts'
<1> USE DEF Procs
<1>0. TypeOK /\ RowInv /\ TxInv /\ PaidInv /\ StatusMatchesJournals /\ CompletedWasPaid
  BY DEF IInv
<1>1. PICK step \in {"lookup", "verify", "completeRead", "failRead"},
           out \in Terminal \union {None}, how \in {"webhook", "poll", "hq"}:
        /\ Begin(h, w, step, out, how)
        /\ step \in TxSteps => status[w] = "PROCESSING"
        /\ step \in CompleteSteps => how = "hq"
        /\ step = "lookup" /\ out = "COMPLETED" => provider[w] \in {"paid", "mock"}
  BY DEF Webhook, Poll, HqConfirm, HqFail, Decision, Terminal, TxSteps, CompleteSteps
<1>2. /\ pc[h] = "idle"
      /\ pc' = [pc EXCEPT ![h] = step]
      /\ target' = [target EXCEPT ![h] = w]
      /\ outcome' = [outcome EXCEPT ![h] = out]
      /\ via' = [via EXCEPT ![h] = how]
      /\ UNCHANGED <<status, ref, journals, provider>>
  BY <1>1 DEF Begin, Goto, rowVars
<1>3. h \in Procs /\ h \notin Requests
  BY WithdrawalsAssumption
<1>4. RowInv'
  BY <1>0, <1>2, <1>3 DEF TypeOK, RowInv
<1>5. TxInv'
  <2> SUFFICES ASSUME NEW q \in Procs, pc'[q] \in TxSteps \union {"notify"}
               PROVE  pc[target'[q]] \notin Early /\ status[target'[q]] # "none" /\ target'[q] # h
    BY <1>0, <1>2 DEF TxInv, TypeOK
  <2>1. target'[q] \in Requests
    BY <1>0, <1>2 DEF TypeOK, TxSteps, CompleteSteps
  <2>2. CASE q = h
    BY <1>0, <1>1, <1>2, <1>3, <2>1, <2>2 DEF TypeOK, RowInv, Early
  <2>3. CASE q # h
    BY <1>0, <1>2, <1>3, <2>1, <2>3 DEF TypeOK, TxInv
  <2> QED BY <2>2, <2>3
<1>6. PaidInv'
  BY <1>0, <1>1, <1>2, <1>3 DEF TypeOK, PaidInv, CompleteSteps
<1>7. StatusMatchesJournals' /\ CompletedWasPaid'
  BY <1>0, <1>2 DEF StatusMatchesJournals, CompletedWasPaid
<1> QED BY <1>4, <1>5, <1>6, <1>7 DEF RowParts

LEMMA SettleKeeps ==
    ASSUME IInv, NEW p \in Procs, Settle(p)
    PROVE  RowParts'
<1> USE DEF Procs
<1>0. TypeOK /\ RowInv /\ TxInv /\ PaidInv /\ StatusMatchesJournals /\ CompletedWasPaid
  BY DEF IInv
<1>1. /\ target[p] \in Requests
      /\ UNCHANGED <<provider, target, outcome, via>>
      /\ pc[p] \in TxSteps \union {"lookup"}
      /\ UNCHANGED rowVars \/ Completes(p) \/ Releases(p)
  BY SettleFacts
<1>2. PICK step \in TxSteps \union {"idle"}:
        /\ Goto(p, step)
        /\ step # "idle" => ~Unsettled(target[p])
        /\ step \in CompleteSteps =>
            \/ pc[p] \in CompleteSteps
            \/ pc[p] = "lookup" /\ outcome[p] = "COMPLETED"
  BY SettleFacts
<1>3. step \in Steps /\ step \notin Early /\ step # "notify" /\ step # "lookup"
  BY DEF TxSteps, CompleteSteps, Steps, Early
<1>4. CASE UNCHANGED rowVars
  BY <1>1, <1>2, <1>3, <1>4, MoveKeeps DEF TxSteps, CompleteSteps, Early
<1>5. CASE Completes(p) \/ Releases(p)
  <2> DEFINE t == target[p]
  <2>1. pc[p] \in TxSteps /\ pc[t] \notin Early /\ status[t] # "none"
    BY <1>0, <1>5 DEF Completes, Releases, TxInv, TxSteps, CompleteSteps
  <2>2. \A w \in Requests: status[w] = "none" => status'[w] = "none" /\ journals'[w] = journals[w] /\ ref'[w] = ref[w]
    BY <1>0, <1>1, <1>5, <2>1 DEF TypeOK, Completes, Releases
  <2>3. \A w \in Requests: pc'[w] \in Early => pc[w] = pc'[w] /\ w # t
    BY <1>0, <1>1, <1>2, <1>3, <2>1 DEF TypeOK, Goto, Early, TxSteps, CompleteSteps
  <2>4. \A w \in Requests: w # t => status'[w] = status[w] /\ ref'[w] = ref[w] /\ journals'[w] = journals[w]
    BY <1>0, <1>1, <1>5 DEF TypeOK, Completes, Releases
  <2>5. status'[t] \in Terminal
    BY <1>0, <1>1, <1>5 DEF TypeOK, Completes, Releases, Terminal
  <2>6. RowInv'
    BY <1>0, <1>1, <2>2, <2>3, <2>4, <2>5 DEF RowInv, Early, Terminal
  <2>7. TxInv'
    <3> SUFFICES ASSUME NEW q \in Procs, pc'[q] \in TxSteps \union {"notify"}
                 PROVE  pc'[target[q]] \notin Early /\ status'[target[q]] # "none"
      BY <1>1 DEF TxInv
    <3>1. pc[q] \in TxSteps \union {"notify"}
      BY <1>0, <1>2, <2>1 DEF TypeOK, Goto
    <3>2. target[q] \in Requests
      BY <1>0, <3>1 DEF TypeOK, TxSteps, CompleteSteps
    <3>3. pc[target[q]] \notin Early /\ status[target[q]] # "none"
      BY <1>0, <3>1 DEF TxInv
    <3> QED BY <2>3, <2>4, <2>5, <3>2, <3>3 DEF Terminal
  <2>8. PaidInv'
    BY <1>0, <1>1, <1>2, <1>3 DEF TypeOK, PaidInv, Goto, CompleteSteps
  <2>9. StatusMatchesJournals'
    <3>1. CASE Completes(p)
      BY <1>0, <1>1, <2>1, <3>1 DEF TypeOK, StatusMatchesJournals, Completes, Terminal
    <3>2. CASE Releases(p)
      BY <1>0, <1>1, <2>1, <3>2 DEF TypeOK, StatusMatchesJournals, Releases, Terminal
    <3> QED BY <1>5, <3>1, <3>2
  <2>10. CompletedWasPaid'
    <3>1. CASE Completes(p)
      <4>1. via[p] # "hq" => provider[t] \in {"paid", "mock"}
        BY <1>0, <3>1 DEF PaidInv, Completes, CompleteSteps
      <4> QED BY <1>0, <1>1, <3>1, <4>1, WithdrawalsAssumption 
              DEF TypeOK, CompletedWasPaid, Completes, NewRef
    <3>2. CASE Releases(p)
      BY <1>0, <1>1, <3>2 DEF TypeOK, CompletedWasPaid, Releases
    <3> QED BY <1>5, <3>1, <3>2
  <2> QED BY <2>6, <2>7, <2>8, <2>9, <2>10 DEF RowParts
<1> QED BY <1>1, <1>4, <1>5

LEMMA InvStep == IInv /\ [Next]_vars => IInv'
<1> SUFFICES ASSUME IInv, [Next]_vars PROVE IInv'
  OBVIOUS
<1> USE DEF Procs
<1>0. TypeOK /\ RowInv /\ TxInv /\ PaidInv /\ StatusMatchesJournals /\ CompletedWasPaid
  BY DEF IInv
<1>t. TypeOK'
  BY <1>0, TypeStep
<1>1. CASE UNCHANGED vars
  <2>1. UNCHANGED <<status, ref, journals, provider, pc, target, outcome, via>>
    BY <1>1 DEF vars
  <2>2. RowInv' /\ TxInv'
    BY <1>0, <2>1 DEF RowInv, TxInv
  <2>3. PaidInv'
    BY <1>0, <2>1 DEF PaidInv
  <2>4. StatusMatchesJournals'
    BY <1>0, <2>1 DEF StatusMatchesJournals
  <2>5. CompletedWasPaid'
    BY <1>0, <2>1 DEF CompletedWasPaid
  <2> QED BY <1>t, <2>2, <2>3, <2>4, <2>5 DEF IInv
<1>2. ASSUME NEW w \in Requests, Start(w) PROVE RowParts'
  BY <1>2, StartKeeps
<1>3. ASSUME NEW w \in Requests, ProviderDecides(w) PROVE RowParts'
  <2>1. UNCHANGED <<status, ref, journals, pc, target, outcome, via>>
    BY <1>3 DEF ProviderDecides, rowVars, jobVars
  <2>2. \A v \in Requests: provider[v] \in {"paid", "mock"} => provider'[v] = provider[v]
    BY <1>0, <1>3 DEF ProviderDecides, TypeOK
  <2>3. RowInv' /\ TxInv' /\ StatusMatchesJournals'
    BY <1>0, <2>1 DEF RowInv, TxInv, StatusMatchesJournals
  <2>4. PaidInv' /\ CompletedWasPaid'
    BY <1>0, <2>1, <2>2 DEF TypeOK, PaidInv, CompletedWasPaid, CompleteSteps
  <2> QED BY <2>3, <2>4 DEF RowParts
<1>4. ASSUME NEW h \in Handlers, NEW w \in Requests,
             Webhook(h, w) \/ Poll(h, w) \/ HqConfirm(h, w) \/ HqFail(h, w)
      PROVE RowParts'
  BY <1>4, BeginKeeps
<1>5. ASSUME NEW h \in Handlers, VerifyTransfer(h) PROVE RowParts'
  <2>1. PICK step \in {"lookup", "idle"}:
            /\ pc' = [pc EXCEPT ![h] = step]
            /\ UNCHANGED <<status, ref, journals, provider, target, via>>
            /\ \/ step = "idle" /\ outcome' = outcome
               \/ outcome' = [outcome EXCEPT ![h] = Decision(target[h])] /\ Decided(target[h])
    BY <1>5 DEF VerifyTransfer, Return, Goto, rowVars
  <2>2. h \in Procs /\ h \notin Requests
    BY WithdrawalsAssumption
  <2>3. RowInv'
    BY <1>0, <2>1, <2>2 DEF TypeOK, RowInv
  <2>4. TxInv'
    BY <1>0, <2>1, <2>2 DEF TypeOK, TxInv, Early, TxSteps, CompleteSteps
  <2>5. PaidInv'
    BY <1>0, <2>1, <2>2 DEF TypeOK, PaidInv, CompleteSteps, Decision, Decided
  <2>6. StatusMatchesJournals' /\ CompletedWasPaid'
    BY <1>0, <2>1 DEF StatusMatchesJournals, CompletedWasPaid
  <2> QED BY <2>3, <2>4, <2>5, <2>6 DEF RowParts
<1>6. ASSUME NEW p \in Procs, Settle(p) PROVE RowParts'
  BY <1>6, SettleKeeps
<1>7. ASSUME NEW p \in Procs, AbortTx(p) \/ Crash(p) PROVE RowParts'
  <2>1. UNCHANGED <<rowVars, provider, target, outcome, via>>
    BY <1>7 DEF AbortTx, Crash, jobVars
  <2>2. CASE Goto(p, "idle")
    BY <2>1, <2>2, MoveKeeps DEF Steps, Early, TxSteps, CompleteSteps
  <2>3. CASE pc[p] \in TxSteps /\ Goto(p, "failRead")
    <3>1. ~Unsettled(target[p])
      BY <1>0, <2>3 DEF TxInv, Unsettled
    <3> QED BY <2>1, <2>3, <3>1, MoveKeeps DEF Steps, Early, TxSteps, CompleteSteps
  <2> QED BY <1>7, <2>2, <2>3 DEF AbortTx, Crash, Throw
<1> QED BY <1>t, <1>1, <1>2, <1>3, <1>4, <1>5, <1>6, <1>7 DEF Next, Work, Failure, IInv, RowParts

LEMMA InvInit == Init => IInv
<1> SUFFICES ASSUME Init PROVE IInv
  OBVIOUS
<1>1. TypeOK
  BY WithdrawalsAssumption DEF Init, TypeOK, Procs, Statuses, Refs, Kinds, Steps, ProviderStates
<1>2. RowInv
  BY DEF Init, RowInv, Procs, Early
<1>3. TxInv /\ PaidInv
  BY DEF Init, TxInv, PaidInv, TxSteps, CompleteSteps
<1>4. StatusMatchesJournals /\ CompletedWasPaid
  BY DEF Init, StatusMatchesJournals, CompletedWasPaid, Terminal
<1> QED BY <1>1, <1>2, <1>3, <1>4 DEF IInv

\* Whatever fails in between, the row's status says which journals were posted.
THEOREM StatusMatches == Spec => []StatusMatchesJournals
<1>1. IInv => StatusMatchesJournals
  BY DEF IInv
<1> QED BY <1>1, InvInit, InvStep, PTL DEF Spec

\* A withdrawal completed under the provider's reference was paid by the provider.
THEOREM PaidWhenCompleted == Spec => []CompletedWasPaid
<1>1. IInv => CompletedWasPaid
  BY DEF IInv
<1> QED BY <1>1, InvInit, InvStep, PTL DEF Spec

\* The unconditional update to PROCESSING never reopens a settled withdrawal.
THEOREM NeverReopened == Spec => SettledStaysSettled
<1>1. ASSUME IInv, [Next]_vars
      PROVE  [\A w \in Requests: status[w] \in Terminal => status'[w] \in Terminal]_vars
  <2> USE DEF Procs
  <2> SUFFICES ASSUME NEW v \in Requests, status[v] \in Terminal, Next
               PROVE  status'[v] \in Terminal
    BY <1>1
  <2>0. TypeOK /\ RowInv
    BY <1>1 DEF IInv
  <2>1. ASSUME NEW w \in Requests, Start(w) PROVE status'[v] \in Terminal
    <3>1. CASE UNCHANGED status
      BY <3>1
    <3>2. CASE CreateHold(w)
      BY <2>0, <3>2 DEF CreateHold, TypeOK, RowInv, Terminal
    <3>3. CASE MarkProcessing(w)
      BY <2>0, <3>3 DEF MarkProcessing, TypeOK, RowInv, Terminal
    <3> QED BY <2>1, <3>1, <3>2, <3>3
            DEF Start, CheckCreate, RejectCreate, RequestTransfer, NotifyProcessing, rowVars
  <2>2. ASSUME NEW p \in Procs, Settle(p) PROVE status'[v] \in Terminal
    <3>1. target[p] \in Requests /\ (UNCHANGED rowVars \/ Completes(p) \/ Releases(p))
      BY <1>1, <2>2, SettleFacts
    <3> QED BY <2>0, <3>1 DEF TypeOK, Completes, Releases, rowVars, Terminal
  <2>3. ASSUME NEW w \in Requests, ProviderDecides(w) PROVE status'[v] \in Terminal
    BY <2>3 DEF ProviderDecides, rowVars
  <2>4. ASSUME NEW h \in Handlers, NEW w \in Requests,
               Webhook(h, w) \/ Poll(h, w) \/ HqConfirm(h, w) \/ HqFail(h, w)
        PROVE status'[v] \in Terminal
    BY <2>4 DEF Webhook, Poll, HqConfirm, HqFail, Begin, rowVars
  <2>5. ASSUME NEW h \in Handlers, VerifyTransfer(h) PROVE status'[v] \in Terminal
    BY <2>5 DEF VerifyTransfer, rowVars
  <2>6. ASSUME NEW p \in Procs, AbortTx(p) \/ Crash(p) PROVE status'[v] \in Terminal
    BY <2>6 DEF AbortTx, Crash, rowVars
  <2> QED BY <2>1, <2>2, <2>3, <2>4, <2>5, <2>6 DEF Next, Work, Failure
<1> QED BY <1>1, InvInit, InvStep, PTL DEF Spec, SettledStaysSettled

-----------------------------------------------------------------------------
(* The balances, and what the daily reconciliation makes of them.            *)

\* There may be withdrawals without end, but only finitely many so far.
FiniteHolds == IsFiniteSet(With("hold"))

\* A hold is only taken from a wallet that covers it.
WalletsCover == \A m \in Members: Wallet(m) >= 0

SumInv == IInv /\ FiniteHolds /\ WalletsCover

LEMMA AmountNat ==
    ASSUME NEW S, S \subseteq Requests
    PROVE  \A w \in S: Amount[w] \in Nat /\ Amount[w] \in Int /\ Amount[w] > 0
  BY WithdrawalsAssumption

LEMMA TotalNat ==
    ASSUME NEW S, S \subseteq Requests, IsFiniteSet(S)
    PROVE  Total(S) \in Nat
  BY AmountNat, SumNat DEF Total

LEMMA TotalAdd ==
    ASSUME NEW S, S \subseteq Requests, IsFiniteSet(S), NEW w \in Requests, w \notin S
    PROVE  Total(S \union {w}) = Total(S) + Amount[w]
<1>1. (\A v \in S: Amount[v] \in Int) /\ Amount[w] \in Int
  BY WithdrawalsAssumption
<1> QED BY <1>1, SumAdd DEF Total

\* What leaves clearing leaves it after a hold, so these sets are finite too.
LEMMA HoldsBound ==
    ASSUME IInv, FiniteHolds
    PROVE  /\ With("complete") \subseteq With("hold") /\ With("release") \subseteq With("hold")
           /\ With("hold") \subseteq Requests
           /\ \A S: S \subseteq With("hold") => IsFiniteSet(S)
<1>1. With("complete") \subseteq With("hold") /\ With("release") \subseteq With("hold")
  BY DEF IInv, StatusMatchesJournals, With, Terminal
<1>2. With("hold") \subseteq Requests
  BY DEF With
<1>3. \A S: S \subseteq With("hold") => IsFiniteSet(S)
  BY FS_Subset DEF FiniteHolds
<1> QED BY <1>1, <1>2, <1>3

\* The three ways a step posts a journal.
LEMMA JournalSteps ==
    ASSUME IInv, [Next]_vars
    PROVE  \/ UNCHANGED journals
           \/ \E w \in Requests: /\ journals' = [journals EXCEPT ![w] = @ \union {"hold"}]
                                 /\ journals[w] = {} /\ Wallet(Owner[w]) >= Amount[w]
           \/ \E w \in Requests, kind \in {"complete", "release"}:
                 journals' = [journals EXCEPT ![w] = @ \union {kind}]
<1>1. CASE UNCHANGED vars
  BY <1>1 DEF vars
<1>2. ASSUME NEW w \in Requests, CreateHold(w), ~UNCHANGED journals
      PROVE  /\ journals' = [journals EXCEPT ![w] = @ \union {"hold"}]
             /\ journals[w] = {} /\ Wallet(Owner[w]) >= Amount[w]
  BY <1>2 DEF CreateHold, IInv, RowInv
<1>3. ASSUME NEW w \in Requests, Start(w) PROVE UNCHANGED journals \/ CreateHold(w)
  BY <1>3 DEF Start, CheckCreate, RejectCreate, RequestTransfer, MarkProcessing,
              NotifyProcessing, rowVars
<1>4. ASSUME NEW p \in Procs, Settle(p)
      PROVE  /\ target[p] \in Requests
             /\ \/ UNCHANGED journals
                \/ journals' = [journals EXCEPT ![target[p]] = @ \union {"complete"}]
                \/ journals' = [journals EXCEPT ![target[p]] = @ \union {"release"}]
  <2>1. target[p] \in Requests /\ (UNCHANGED rowVars \/ Completes(p) \/ Releases(p))
    BY <1>4, SettleFacts
  <2> QED BY <2>1 DEF Completes, Releases, rowVars
<1>5. ASSUME NEW h \in Handlers, NEW w \in Requests,
             Webhook(h, w) \/ Poll(h, w) \/ HqConfirm(h, w) \/ HqFail(h, w)
      PROVE UNCHANGED journals
  BY <1>5 DEF Webhook, Poll, HqConfirm, HqFail, Begin, rowVars
<1>6. ASSUME NEW w \in Requests, ProviderDecides(w) PROVE UNCHANGED journals
  BY <1>6 DEF ProviderDecides, rowVars
<1>7. ASSUME NEW h \in Handlers, VerifyTransfer(h) PROVE UNCHANGED journals
  BY <1>7 DEF VerifyTransfer, rowVars
<1>8. ASSUME NEW p \in Procs, AbortTx(p) \/ Crash(p) PROVE UNCHANGED journals
  BY <1>8 DEF AbortTx, Crash, rowVars
<1> QED BY <1>1, <1>2, <1>3, <1>4, <1>5, <1>6, <1>7, <1>8 DEF Next, Work, Failure

LEMMA BalancesStep ==
    ASSUME SumInv, [Next]_vars
    PROVE  FiniteHolds' /\ WalletsCover'
<1> DEFINE H == With("hold")
           R == With("release")
<1>0. /\ IInv /\ IsFiniteSet(H) /\ R \subseteq H /\ H \subseteq Requests
      /\ \A S: S \subseteq H => IsFiniteSet(S)
      /\ journals \in [Requests -> SUBSET Kinds]
  BY HoldsBound DEF SumInv, FiniteHolds, IInv, TypeOK
<1>m. ASSUME NEW m \in Members
      PROVE  /\ Opening[m] \in Nat
             /\ Total(H \intersect Of(m)) \in Nat /\ Total(R \intersect Of(m)) \in Nat
             /\ Wallet(m) = Opening[m] - Total(H \intersect Of(m)) + Total(R \intersect Of(m))
             /\ Wallet(m) >= 0
  <2>1. /\ H \intersect Of(m) \subseteq H /\ R \intersect Of(m) \subseteq H
        /\ H \intersect Of(m) \subseteq Requests /\ R \intersect Of(m) \subseteq Requests
    BY <1>0
  <2>2. IsFiniteSet(H \intersect Of(m)) /\ IsFiniteSet(R \intersect Of(m))
    BY <1>0, <2>1
  <2>3. Total(H \intersect Of(m)) \in Nat /\ Total(R \intersect Of(m)) \in Nat
    BY <2>1, <2>2, TotalNat
  <2> QED BY <2>3, WithdrawalsAssumption DEF Wallet, SumInv, WalletsCover
<1>w. \A m \in Members: Wallet(m)' = Opening[m] - Total(H' \intersect Of(m)) + Total(R' \intersect Of(m))
  BY DEF Wallet, Of, Total
<1>1. CASE UNCHANGED journals
  <2>1. H' = H /\ R' = R
    BY <1>1 DEF With
  <2>2. \A m \in Members: Wallet(m)' = Wallet(m)
    BY <1>m, <1>w, <2>1, Zenon
  <2> QED BY <1>0, <1>m, <2>1, <2>2 DEF FiniteHolds, WalletsCover
<1>2. ASSUME NEW w \in Requests, journals' = [journals EXCEPT ![w] = @ \union {"hold"}],
             journals[w] = {}, Wallet(Owner[w]) >= Amount[w]
      PROVE  FiniteHolds' /\ WalletsCover'
  <2>1. H' = H \union {w} /\ R' = R /\ w \notin H
    BY <1>0, <1>2 DEF With
  <2>2. IsFiniteSet(H')
    <3> HIDE DEF H
    <3> QED BY <1>0, <2>1, FS_AddElement
  <2>3. ASSUME NEW m \in Members PROVE Wallet(m)' >= 0
    <3> DEFINE S == H \intersect Of(m)
    <3>0. S \subseteq Requests /\ IsFiniteSet(S) /\ w \notin S /\ Amount[w] \in Nat
      BY <1>0, <2>1, WithdrawalsAssumption
    <3>1. CASE Owner[w] = m
      <4>1. H' \intersect Of(m) = S \union {w}
        BY <2>1, <3>1 DEF Of
      <4>2. Total(S \union {w}) = Total(S) + Amount[w]
        <5> HIDE DEF S
        <5> QED BY <3>0, TotalAdd
      <4>3. Total(H' \intersect Of(m)) = Total(S) + Amount[w]
        BY <4>1, <4>2, Zenon
      <4>4. Total(R' \intersect Of(m)) = Total(R \intersect Of(m))
        BY <2>1, Zenon
      <4>5. Wallet(m)' = Opening[m] - Total(H' \intersect Of(m)) + Total(R' \intersect Of(m))
        BY <1>w
      <4>6. Wallet(m) >= Amount[w]
        BY <1>2, <3>1
      <4> HIDE DEF H, R
      <4> QED BY <1>m, <3>0, <4>3, <4>4, <4>5, <4>6 DEF H, R
    <3>2. CASE Owner[w] # m
      <4>1. H' \intersect Of(m) = H \intersect Of(m)
        BY <2>1, <3>2 DEF Of
      <4>2. Wallet(m)' = Wallet(m)
        BY <1>m, <1>w, <2>1, <4>1, Zenon
      <4> QED BY <1>m, <4>2
    <3> QED BY <3>1, <3>2
  <2> QED BY <2>2, <2>3 DEF FiniteHolds, WalletsCover
<1>3. ASSUME NEW w \in Requests, NEW kind \in {"complete", "release"},
             journals' = [journals EXCEPT ![w] = @ \union {kind}]
      PROVE  FiniteHolds' /\ WalletsCover'
  <2>1. H' = H
    BY <1>0, <1>3 DEF With
  <2>2. R' = R \/ (R' = R \union {w} /\ w \notin R)
    BY <1>0, <1>3 DEF With
  <2>3. ASSUME NEW m \in Members PROVE Wallet(m)' >= 0
    <3> DEFINE S == R \intersect Of(m)
    <3>h. Total(H' \intersect Of(m)) = Total(H \intersect Of(m))
      BY <2>1, Zenon
    <3>0. S \subseteq Requests /\ IsFiniteSet(S) /\ Amount[w] \in Nat
      <4>1. S \subseteq H
        BY <1>0
      <4> QED BY <1>0, <4>1, WithdrawalsAssumption
    <3>1. Total(R' \intersect Of(m)) = Total(S) \/ Total(R' \intersect Of(m)) = Total(S) + Amount[w]
      <4>1. CASE R' \intersect Of(m) = S
        BY <4>1, Zenon
      <4>2. CASE R' \intersect Of(m) = S \union {w} /\ w \notin S
        <5>1. Total(S \union {w}) = Total(S) + Amount[w]
          <6> HIDE DEF S
          <6> QED BY <3>0, <4>2, TotalAdd
        <5> QED BY <4>2, <5>1, Zenon
      <4>3. \/ R' \intersect Of(m) = S
            \/ R' \intersect Of(m) = S \union {w} /\ w \notin S
        BY <2>2
      <4> QED BY <4>1, <4>2, <4>3
    <3>2. Wallet(m)' = Opening[m] - Total(H' \intersect Of(m)) + Total(R' \intersect Of(m))
      BY <1>w
    <3>3. Total(S) = Total(R \intersect Of(m))
      OBVIOUS
    <3> HIDE DEF H, R, S
    <3> QED BY <1>m, <3>h, <3>0, <3>1, <3>2, <3>3 DEF H, R
  <2> QED BY <1>0, <2>1, <2>3 DEF FiniteHolds, WalletsCover
<1> QED BY <1>0, <1>1, <1>2, <1>3, JournalSteps

LEMMA SumInit == Init => SumInv
<1> SUFFICES ASSUME Init PROVE SumInv
  OBVIOUS
<1>1. With("hold") = {} /\ With("release") = {}
  BY DEF Init, With
<1>2. FiniteHolds
  BY <1>1, FS_EmptySet DEF FiniteHolds
<1>3. ASSUME NEW m \in Members PROVE Wallet(m) >= 0
  <2>1. With("hold") \intersect Of(m) = {} /\ With("release") \intersect Of(m) = {}
    BY <1>1
  <2>2. Total(With("hold") \intersect Of(m)) = 0 /\ Total(With("release") \intersect Of(m)) = 0
    BY <2>1, SumEmpty DEF Total
  <2> QED BY <2>2, WithdrawalsAssumption DEF Wallet
<1> QED BY <1>2, <1>3, InvInit DEF SumInv, WalletsCover

LEMMA SumStep == SumInv /\ [Next]_vars => SumInv'
  BY InvStep, BalancesStep DEF SumInv

\* The clearing account is short of the open holds by what left it both ways.
LEMMA ClearingIs ==
    ASSUME SumInv
    PROVE  LET both == With("complete") \intersect With("release")
           IN  /\ Clearing = HeldInClearing - Total(both)
               /\ HeldInClearing \in Nat /\ Total(both) \in Nat
               /\ both # {} => Total(both) > 0
               /\ both = {} => Total(both) = 0
               /\ HeldRows = {} => HeldInClearing = 0
<1> DEFINE H == With("hold")
           C == With("complete")
           R == With("release")
           O == HeldRows
           B == C \intersect R
           D == C \ R
<1>1. /\ IInv /\ C \subseteq H /\ R \subseteq H /\ H \subseteq Requests
      /\ \A S: S \subseteq H => IsFiniteSet(S)
  BY HoldsBound DEF SumInv
<1>2. H = O \union (D \union R) /\ O \intersect (D \union R) = {}
  BY <1>1 DEF IInv, TypeOK, StatusMatchesJournals, With, HeldRows, Statuses, Terminal, Held
<1>3. C = D \union B /\ D \intersect B = {} /\ D \intersect R = {}
  OBVIOUS
<1>4. /\ O \subseteq H /\ B \subseteq H /\ D \subseteq H /\ D \union R \subseteq H
  BY <1>1, <1>2
<1>5. /\ IsFiniteSet(O) /\ IsFiniteSet(B) /\ IsFiniteSet(D) /\ IsFiniteSet(R)
      /\ IsFiniteSet(D \union R)
  BY <1>1, <1>4
<1> HIDE DEF O, B, D, C, R, H
<1>6. \A S, T: S \subseteq H /\ T \subseteq H /\ S \intersect T = {}
                 => Total(S \union T) = Total(S) + Total(T)
  <2> SUFFICES ASSUME NEW S, NEW T, S \subseteq H, T \subseteq H, S \intersect T = {}
               PROVE  Total(S \union T) = Total(S) + Total(T)
    OBVIOUS
  <2>1. \A w \in S \union T: Amount[w] \in Int
    BY <1>1, WithdrawalsAssumption
  <2> QED BY <1>1, <2>1, SumDisjoint DEF Total
<1>7. /\ Total(O) \in Nat /\ Total(B) \in Nat /\ Total(D) \in Nat /\ Total(R) \in Nat
  BY <1>1, <1>4, <1>5, TotalNat
<1>8. Total(H) = Total(O) + (Total(D) + Total(R))
  <2>1. Total(D \union R) = Total(D) + Total(R)
    BY <1>1, <1>3, <1>4, <1>6
  <2>2. Total(O \union (D \union R)) = Total(O) + Total(D \union R)
    BY <1>2, <1>4, <1>6
  <2> QED BY <1>2, <2>1, <2>2, Zenon
<1>9. Total(C) = Total(D) + Total(B)
  <2>1. Total(D \union B) = Total(D) + Total(B)
    BY <1>3, <1>4, <1>6
  <2> QED BY <1>3, <2>1, Zenon
<1>10. Clearing = Total(O) - Total(B)
  <2>1. Clearing = Total(H) - Total(C) - Total(R)
    BY DEF Clearing, H, C, R
  <2> QED BY <1>7, <1>8, <1>9, <2>1
<1>11. B # {} => Total(B) > 0
  <2> SUFFICES ASSUME NEW w \in B PROVE Total(B) > 0
    OBVIOUS
  <2>1. (\A v \in B: Amount[v] \in Nat) /\ Amount[w] > 0 /\ Amount[w] \in Nat
    BY <1>1, <1>4, WithdrawalsAssumption
  <2>2. Amount[w] <= Total(B)
    BY <1>5, <2>1, SumAtLeast DEF Total
  <2> QED BY <1>7, <2>1, <2>2
<1>12. (B = {} => Total(B) = 0) /\ (O = {} => Total(O) = 0)
  BY SumEmpty DEF Total
<1> QED BY <1>7, <1>10, <1>11, <1>12 DEF HeldInClearing, B, C, R, O

-----------------------------------------------------------------------------
(* The daily summary *)

Double == \E w \in Requests: {"complete", "release"} \subseteq journals[w]

\* What each query of the summary would find, all at one instant.
LEMMA AtOneInstant ==
    ASSUME SumInv
    PROVE  /\ Clearing # HeldInClearing <=> Double
           /\ Clearing > 0 /\ HeldRows = {} => Double
           /\ (Clearing < 0 \/ \E m \in Members: Wallet(m) < 0) => Double
           /\ ~\E w \in Requests: status[w] = "COMPLETED" /\ ref[w] = None
<1> DEFINE both == With("complete") \intersect With("release")
<1>1. /\ Clearing = HeldInClearing - Total(both)
      /\ HeldInClearing \in Nat /\ Total(both) \in Nat
      /\ both # {} => Total(both) > 0
      /\ both = {} => Total(both) = 0
      /\ HeldRows = {} => HeldInClearing = 0
  BY ClearingIs
<1>2. both # {} <=> Double
  BY DEF With, Double
<1> HIDE DEF both
<1>3. /\ Clearing # HeldInClearing <=> Double
      /\ Clearing > 0 /\ HeldRows = {} => Double
      /\ Clearing < 0 => Double
  BY <1>1, <1>2
<1>4. ASSUME NEW m \in Members PROVE ~(Wallet(m) < 0)
  <2>1. /\ With("hold") \intersect Of(m) \subseteq With("hold")
        /\ With("release") \intersect Of(m) \subseteq With("hold")
    BY HoldsBound DEF SumInv
  <2>2. /\ Total(With("hold") \intersect Of(m)) \in Nat
        /\ Total(With("release") \intersect Of(m)) \in Nat
    BY <2>1, HoldsBound, TotalNat DEF SumInv
  <2>3. Wallet(m) \in Int /\ Wallet(m) >= 0
    BY <2>2, WithdrawalsAssumption DEF Wallet, SumInv, WalletsCover
  <2> QED BY <2>3
<1>5. ~\E w \in Requests: status[w] = "COMPLETED" /\ ref[w] = None
  BY DEF SumInv, IInv, CompletedWasPaid
<1> QED BY <1>3, <1>4, <1>5

\* Journals are only ever added.
LEMMA DoubleStays ==
    ASSUME SumInv, [Next]_vars, Double
    PROVE  Double'
<1>1. PICK w \in Requests: {"complete", "release"} \subseteq journals[w]
  BY DEF Double
<1>2. journals \in [Requests -> SUBSET Kinds]
  BY DEF SumInv, IInv, TypeOK
<1>3. journals[w] \subseteq journals'[w]
  BY <1>2, JournalSteps DEF SumInv
<1> QED BY <1>1, <1>3 DEF Double

\* While nothing moves, what the summary has read is still so.
SummaryInv ==
    /\ quiet /\ at \in {"pending", "stale", "held"} => balance = Clearing
    /\ DoubleSettlementReported

LEMMA QueryStep ==
    ASSUME SumInv, SummaryInv, Summary
    PROVE  SummaryInv'
<1>1. UNCHANGED vars
  BY DEF Summary, GetSummary, Query, CountPending, CountStale, SumHeld,
         FindNegative, CountWithoutRef
<1>2. Clearing' = Clearing /\ (Double' <=> Double)
  BY <1>1 DEF Clearing, With, Double, vars
<1>3. /\ quiet /\ at \in {"pending", "stale", "held"} => balance = Clearing
      /\ pushed = "negative" => Double
  BY DEF SummaryInv, DoubleSettlementReported, Double
<1> DEFINE Good == /\ quiet /\ at \in {"pending", "stale", "held"} => balance = Clearing
                   /\ quiet /\ at = "negative" => (pushed = "mismatch" <=> Double)
                   /\ quiet /\ pushed = "unheld" => Double
                   /\ pushed = "negative" => Double
                   /\ pushed # "reference"
<1> SUFFICES Good'
  BY DEF SummaryInv, DoubleSettlementReported, Double
<1>4. CASE GetSummary
  BY <1>2, <1>4 DEF GetSummary
<1>5. CASE CountPending
  BY <1>2, <1>3, <1>5, AtOneInstant DEF CountPending, Query
<1>6. CASE CountStale
  BY <1>2, <1>3, <1>6 DEF CountStale, Query
<1>7. CASE SumHeld
  BY <1>2, <1>3, <1>7, AtOneInstant DEF SumHeld, Query
<1>8. CASE FindNegative
  BY <1>2, <1>8, AtOneInstant DEF FindNegative, Query
<1>9. CASE CountWithoutRef
  BY <1>2, <1>9, AtOneInstant DEF CountWithoutRef, Query
<1> QED BY <1>4, <1>5, <1>6, <1>7, <1>8, <1>9 DEF Summary

LEMMA OverlapStep ==
    ASSUME SumInv, SummaryInv, WhileReading \/ UNCHANGED allVars
    PROVE  SummaryInv'
<1>1. /\ [Next]_vars /\ UNCHANGED <<at, balance, pushed>>
      /\ quiet' => quiet /\ UNCHANGED rowVars
  <2>1. CASE WhileReading
    <3>1. Next /\ UNCHANGED <<at, balance, pushed>>
      BY <2>1 DEF WhileReading
    <3>2. quiet' => quiet /\ rowVars' = rowVars
      BY <2>1, Zenon DEF WhileReading
    <3> QED BY <3>1, <3>2
  <2>2. CASE UNCHANGED allVars
    BY <2>2 DEF allVars, vars, summaryVars, rowVars
  <2> QED BY <2>1, <2>2
<1>2. Double => Double'
  BY <1>1, DoubleStays
<1>3. UNCHANGED rowVars => Clearing' = Clearing /\ (Double' <=> Double)
  BY DEF Clearing, With, Double, rowVars
<1>4. /\ quiet /\ at \in {"pending", "stale", "held"} => balance = Clearing
      /\ quiet /\ at = "negative" => (pushed = "mismatch" <=> Double)
      /\ quiet /\ pushed = "unheld" => Double
      /\ pushed = "negative" => Double
      /\ pushed # "reference"
  BY DEF SummaryInv, DoubleSettlementReported, Double
<1>5. (/\ quiet /\ at \in {"pending", "stale", "held"} => balance = Clearing
       /\ quiet /\ at = "negative" => (pushed = "mismatch" <=> Double)
       /\ quiet /\ pushed = "unheld" => Double
       /\ pushed = "negative" => Double
       /\ pushed # "reference")'
  BY <1>1, <1>2, <1>3, <1>4
<1> QED BY <1>5 DEF SummaryInv, DoubleSettlementReported, Double

\* For any number of withdrawals, members and handlers: a summary of getSummary that
\* nothing overlaps reports a mismatch exactly when some hold has left clearing both
\* ways, and no summary finds a negative balance without that or a COMPLETED row
\* without a reference.
THEOREM DoubleSettlementSeen == ReconciledSpec => []DoubleSettlementReported
<1>1. ReconciledInit => SumInv /\ SummaryInv
  BY SumInit DEF ReconciledInit, SummaryInv, DoubleSettlementReported
<1>2. SumInv /\ SummaryInv /\ [Summary \/ WhileReading]_allVars => SumInv' /\ SummaryInv'
  <2> SUFFICES ASSUME SumInv, SummaryInv, [Summary \/ WhileReading]_allVars
               PROVE  SumInv' /\ SummaryInv'
    OBVIOUS
  <2>1. [Next]_vars
    BY DEF Summary, GetSummary, Query, CountPending, CountStale, SumHeld, FindNegative,
           CountWithoutRef, WhileReading, allVars
  <2>2. SumInv'
    BY <2>1, SumStep
  <2>3. SummaryInv'
    BY QueryStep, OverlapStep
  <2> QED BY <2>2, <2>3
<1>3. SummaryInv => DoubleSettlementReported
  BY DEF SummaryInv
<1> QED BY <1>1, <1>2, <1>3, PTL DEF ReconciledSpec

=============================================================================
