-------------------------- MODULE PayoutReadiness ---------------------------
(***************************************************************************)
(* What the admin's payout screen says of a group (getPayoutReadiness):    *)
(* whether the current cycle can be finalized.  The screen offers          *)
(* finalizeCycle only then.  The answer is computed from the rows, without *)
(* a look at the pool; finalizeCycle checks less of the rows and the       *)
(* ledger checks the pool.  Queries only: operators over GroupCycle, and   *)
(* no step.                                                                *)
(***************************************************************************)
EXTENDS GroupCycle

\* Mutant: a DEFAULTED member does not block, as in assertCycleContributionsReadyForFinalize.
AllAnswered == \A m \in Members: Paid(currentCycle, m) \/ cycleStanding[m] = "DEFAULTED"

\* allPaid: also the DEFAULTED members have paid.
AllPaid == \A m \in Members: Paid(currentCycle, m)

NoEligibleRecipient == Recipients = {} /\ ~AllowPayoutOverride

\* canFinalize
CanFinalize ==
    /\ groupStatus = "ACTIVE"
    /\ AllPaid
    /\ recipient[currentCycle] = None
    /\ ~NoEligibleRecipient

\* What the screen offers is backed by money: a cycle shown as ready passes the checks
\* of finalizeCycle, and its gross payout is in the pool but for the days that repeated
\* settlements have credited in this cycle, whatever earlier cycles, their repeats
\* included, have taken from it and however defaulted members were covered for.
OfferedIsFunded ==
    CanFinalize =>
        /\ Ready /\ Recipients # {}
        /\ pool + DailyAmount * SumFunction(repeats[currentCycle]) >= Gross

=============================================================================
