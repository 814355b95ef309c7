------------------------- MODULE MCWithdrawalsLive --------------------------
(* WithdrawalsLive with two withdrawals; w2's transfer has been accepted    *)
(* before w1 is asked for, and the provider has still to decide it.         *)
EXTENDS WithdrawalsLive, TLC

CONSTANTS w1, w2

MCOneOwner == [w \in Requests |-> "m1"]
MCAmount == [w \in Requests |-> 1]
MCOpening == ("m1" :> 4)

MCInit ==
    /\ status = (w1 :> "none" @@ w2 :> "PROCESSING")
    /\ ref = (w1 :> None @@ w2 :> "provider")
    /\ journals = (w1 :> {} @@ w2 :> {"hold"})
    /\ provider = (w1 :> "none" @@ w2 :> "pending")
    /\ cached = [w \in Requests |-> FALSE]
    /\ pc = [p \in Procs |-> IF p = w1 THEN "new" ELSE "idle"]
    /\ target = [p \in Procs |-> IF p \in Requests THEN p ELSE None]
    /\ outcome = [p \in Procs |-> None]
    /\ via = [p \in Procs |-> "start"]
    /\ found = [p \in Procs |-> FALSE]
    /\ failures = 0

MCSpec == MCInit /\ [][LiveNext]_liveVars /\ Fairness

=============================================================================
