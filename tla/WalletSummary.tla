--------------------------- MODULE WalletSummary ----------------------------
(***************************************************************************)
(* What the operator's wallet summary adds up for one group: the members'  *)
(* wallets, the deposits in escrow, the revenue account and the pool.      *)
(* The totals are sums of account balances, which nothing in the program   *)
(* compares with the contribution rows they come from.  Queries only:      *)
(* operators over GroupCycle, and no step.                                 *)
(***************************************************************************)
EXTENDS PayoutReadiness

\* totalMemberDepositEscrow: a deposit leaves its escrow when it is forfeited or released.
DepositEscrow == Contribution * Cardinality({m \in Members: depositStatus[m] = "HELD"})

\* totalMemberWalletLiabilities
MemberLiabilities == SumFunction(available) + SumFunction(reserved) + DepositEscrow

\* myturnRevenueBalance: the margin of every payout made.
RevenueBalance ==
    ServiceMargin(Gross, ServiceMarginBps) * Cardinality({c \in Cycles: recipient[c] # None})

\* totalWalletLiabilities
WalletLiabilities == MemberLiabilities + RevenueBalance + pool

\* What came in from outside, by the rows: a deposit of every member, and every day
\* recorded as paid but those that a repeated settlement has credited or a default
\* cover has completed.
FullCovers == {v \in coverages: v.covered = v.missed}
PaidIn ==
    Contribution * N
    + DailyAmount * SumFunction([c \in Cycles |-> SumFunction(paidDayCount[c])])
    - DailyAmount * SumFunction([c \in Cycles |-> SumFunction(repeats[c])])
    - SumFunction([v \in FullCovers |-> v.covered])

\* Money is neither made nor lost: whatever payments, releases, covers, forfeited
\* deposits, payouts and the completion of the group do to each other, the wallets
\* together hold exactly what the members have paid in.
MoneyConserved == WalletLiabilities = PaidIn

=============================================================================
