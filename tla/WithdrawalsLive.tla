-------------------------- MODULE WithdrawalsLive ---------------------------
(***************************************************************************)
(* Withdrawals with finitely many failures, to ask what happens once the   *)
(* API process and the database have stopped failing.                      *)
(***************************************************************************)
EXTENDS Withdrawals

CONSTANT MaxFailures    \* bound on crashes and aborted transactions

ASSUME MaxFailuresAssumption == MaxFailures \in Nat

VARIABLE failures       \* how many there have been

liveVars == <<vars, failures>>

LiveInit == Init /\ failures = 0

LiveWork == Work /\ UNCHANGED failures

LiveFailure ==
    /\ failures < MaxFailures
    /\ failures' = failures + 1
    /\ Failure

PollRow(w) == (\E h \in Handlers: Poll(h, w)) /\ UNCHANGED failures
Answered(h) == VerifyTransfer(h) /\ pc'[h] = "lookup" /\ UNCHANGED failures
Proceed(p) ==
    /\ Settle(p) \/ (p \in Handlers /\ VerifyTransfer(p))
    /\ UNCHANGED failures

\* StaleWithdrawalMonitorJob comes back every five minutes and polls every stale
\* row, a handler that has been started goes on, and the provider's status
\* endpoint, asked again and again, answers some time.  Nobody is obliged to ask
\* for a withdrawal, to call back, or to override at HQ.
Fairness ==
    /\ \A w \in Requests: SF_liveVars(PollRow(w))
    /\ \A h \in Handlers: SF_liveVars(Answered(h))
    /\ \A p \in Procs: WF_liveVars(Proceed(p))

LiveNext == LiveWork \/ LiveFailure

LiveSpec == LiveInit /\ [][LiveNext]_liveVars /\ Fairness

\* A PROCESSING withdrawal the provider has decided is settled in the end, unless a
\* hold, its own or another's, has left clearing both ways: the account is then short
\* of what the open withdrawals hold, and their settlement may be refused for ever.
\* A callback that came before the reference was stored and was then answered from the
\* cache, and handlers that crashed on the way, do not keep it open.
ProcessingSettles ==
    \A w \in Requests:
        status[w] = "PROCESSING" /\ Decided(w)
            ~> \/ status[w] \in Terminal
               \/ \E v \in Requests: {"complete", "release"} \subseteq journals[v]

=============================================================================
