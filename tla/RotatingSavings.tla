-------------------------- MODULE RotatingSavings ---------------------------
(***************************************************************************)
(* What a savings group promises its members: the rounds are paid out one  *)
(* after the other, each once, to one member, in full, and only from money *)
(* that is in the pool; nothing else ever leaves the pool.                 *)
(***************************************************************************)
EXTENDS Integers

CONSTANTS
    Savers,
    Rounds,     \* rounds of the group, 1 .. Rounds
    Payout,     \* what leaves the pool for a round
    NoOne

VARIABLES
    round,      \* the round that is being saved for, Rounds + 1 at the end
    receiver,   \* receiver[r]: who round r was paid to
    pool

savingsVars == <<round, receiver, pool>>

Init ==
    /\ round = 1
    /\ receiver = [r \in 1..Rounds |-> NoOne]
    /\ pool = 0

PayIn ==
    /\ pool' > pool
    /\ UNCHANGED <<round, receiver>>

PayOut(m) ==
    /\ round <= Rounds
    /\ pool >= Payout
    /\ pool' = pool - Payout
    /\ receiver' = [receiver EXCEPT ![round] = m]
    /\ round' = round + 1

Next == PayIn \/ \E m \in Savers: PayOut(m)

Spec == Init /\ [][Next]_savingsVars

=============================================================================
