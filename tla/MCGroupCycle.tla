---------------------------- MODULE MCGroupCycle -----------------------------
(* GroupCycle with members m1 to m5 in turn order. *)
EXTENDS WalletSummary, TLC

CONSTANTS m1, m2, m3, m4, m5

MCTurnOrder == [m \in Members |-> CHOOSE i \in 1..5: <<m1, m2, m3, m4, m5>>[i] = m]

(* A cut for runs that look for one behaviour of more members: payments are made
   one by one, the last in turn order first, and no day passes before the second
   cycle. *)
OneByOne ==
    /\ currentCycle = 1 => day = 0
    /\ \A p \in paying: p.cycle = currentCycle
    /\ \A x, y \in Members:
          /\ TurnOrder[x] < TurnOrder[y]
          /\ Paid(currentCycle, x) \/ \E p \in paying: p.member = x
          => Paid(currentCycle, y)

\* A cut besides: one settlement is repeated at most.
OneRepeat == SumFunction([c \in Cycles |-> SumFunction(repeats[c])]) <= 1

=============================================================================
