--------------------------- MODULE GroupCycleMoney ---------------------------
(***************************************************************************)
(* The money of a group, for any number of members, days and handlers, and *)
(* any amounts: the types of rows and balances, the reserves, the pool,    *)
(* the wallets, and what the payout screen promises.                       *)
(*                                                                         *)
(* TypeInv is inductive by itself.  The reserves need it because a payout  *)
(* overwrites the row of its cycle and a completion closes all of them;    *)
(* the pool and the wallets need it for what a cover takes; the screen     *)
(* needs, besides, that nobody has paid for a cycle not yet opened.  Every *)
(* step is one of five (MoneySteps), and what it does to a sum is one of   *)
(* the facts of SumLemmas.                                                 *)
(***************************************************************************)
EXTENDS GroupCycleRefinement, WalletSummary, SumLemmas

\* What a reserve row still holds, as the wallet that backs it counts it.
Held(c) == reserve[c].original - reserve[c].released - reserve[c].used

\* A row is ACTIVE as long as something remains in it; an unlocked unit may have taken
\* more than remained, so that the wallet holds less, never more; and only a payout
\* makes a row.
Rows ==
    \A c \in Cycles:
        /\ reserve[c].status = "ACTIVE" <=> reserve[c].remaining > 0
        /\ Held(c) <= reserve[c].remaining
        /\ recipient[c] = None => reserve[c] = NoReserve

\* A cover is never more than what was missed.
Covers ==
    /\ IsFiniteSet(coverages)
    /\ \A v \in coverages: v.covered <= v.missed

\* The rows, the balances and the order of the payouts: the base of what follows.
TypeInv == RInv /\ DefaultForfeits /\ TypeOK /\ Rows /\ Covers

PaidOut == {c \in Cycles: recipient[c] # None}
Released == {m \in Members: depositStatus[m] = "RELEASED"}

\* What the members' wallets hold, and covers have taken out of them, is what payouts
\* and released deposits have brought in.
Wallets ==
    SumFunction(available) + SumFunction(reserved) + SumFunction([v \in coverages |-> v.covered])
        = Net * Cardinality(PaidOut) + Contribution * Cardinality(Released)

\* Nothing is paid, and no handler works, for a cycle that has not been opened.
NotAhead ==
    /\ \A p \in paying: p.cycle <= currentCycle
    /\ \A h \in Handlers: job[h].cycle <= currentCycle
    /\ \A c \in Cycles, m \in Members: c > currentCycle => paidDayCount[c][m] = 0

\* What has been paid for the current cycle is still in the pool, but for the days that
\* repeated settlements have credited.
CycleFunded ==
    groupStatus = "ACTIVE" =>
        pool + DailyAmount * SumFunction(repeats[currentCycle])
            >= DailyAmount * SumFunction(paidDayCount[currentCycle])

-----------------------------------------------------------------------------
(* Amounts *)

\* A share of at most d of d parts is not more than the whole.
LEMMA ShareOf ==
    ASSUME NEW a \in Nat, NEW b \in Nat, NEW d \in Nat \ {0}, b <= d
    PROVE  (a * b) \div d \in Nat /\ (a * b) \div d <= a
<1>1. a * b \in Nat
  BY ProductType
<1>2. (a * b) \div d \in Nat
  BY <1>1, NatQuotient
<1>3. a * b <= a * d
  OBVIOUS
<1>4. (a * b) \div d <= a
  <2> DEFINE p == a * b
             q == p \div d
  <2>1. p \in Nat /\ p <= a * d
    BY <1>1, <1>3
  <2> HIDE DEF p
  <2>2. q \in Nat /\ q * d <= p
    BY <2>1
  <2> HIDE DEF q
  <2>3. q * d <= a * d
    BY <2>1, <2>2
  <2>4. q <= a
    BY <2>2, <2>3
  <2> QED BY <2>4 DEF q, p
<1> QED BY <1>2, <1>4

\* The pool of a cycle and the payout are amounts, the payout the smaller.
LEMMA NetType == Gross \in Nat /\ Net \in Nat /\ Contribution \in Nat /\ Gross = Contribution * N
<1>1. /\ N \in Nat /\ DailyAmount \in Nat /\ DaysPerCycle \in Nat
      /\ ServiceMarginBps \in Nat /\ ServiceMarginBps <= BpsDenominator
      /\ BpsDenominator \in Nat \ {0}
  BY NType, GroupCycleAssumption DEF BpsDenominator
<1>2. Gross \in Nat /\ Gross = Contribution * N
  <2>1. DailyAmount * N \in Nat /\ (DailyAmount * N) * DaysPerCycle \in Nat
    BY <1>1, ProductType
  <2>2. (DailyAmount * N) * DaysPerCycle = (DailyAmount * DaysPerCycle) * N
    BY <1>1
  <2> QED BY <2>1, <2>2 DEF Gross, GrossPool, Contribution
<1>3. ServiceMargin(Gross, ServiceMarginBps) \in Nat /\ ServiceMargin(Gross, ServiceMarginBps) <= Gross
  BY <1>1, <1>2, ShareOf DEF ServiceMargin
<1>4. Net \in Nat
  BY <1>2, <1>3 DEF Net
<1> QED BY <1>2, <1>4, ContributionType

\* The reserve held back from a payout is part of it.
LEMMA NewRow ==
    ASSUME NEW c \in Cycles
    PROVE  /\ Reserve(c) \in ReserveRow
           /\ Reserve(c).status = "ACTIVE" <=> Reserve(c).remaining > 0
           /\ Reserve(c).released = 0 /\ Reserve(c).used = 0
           /\ Reserve(c).original = Reserve(c).remaining
           /\ Reserve(c).original <= Net
<1>1. /\ BpsDenominator \in Nat \ {0} /\ MaxReserveBps \in Nat /\ MaxReserveBps <= BpsDenominator
      /\ N \in Nat \ {0} /\ c \in Nat \ {0} /\ c <= N /\ DaysPerCycle \in Nat
  BY GroupCycleAssumption, NType DEF BpsDenominator, Cycles
<1> DEFINE bps == ReserveBps(c, N, MaxReserveBps)
           amount == ReserveAmount(Net, bps)
           units == PostPayoutUnits(c, N, DaysPerCycle)
<1>2. bps \in Nat /\ bps <= BpsDenominator
  <2>1. N - c \in Nat /\ N - c <= N
    BY <1>1
  <2>2. (MaxReserveBps * (N - c)) \div N \in Nat /\ (MaxReserveBps * (N - c)) \div N <= MaxReserveBps
    BY <1>1, <2>1, ShareOf
  <2> QED BY <1>1, <2>2 DEF ReserveBps
<1>3. amount \in Nat /\ amount <= Net
  <2> HIDE DEF bps
  <2> QED BY <1>1, <1>2, NetType, ShareOf DEF ReserveAmount
<1>4. units \in Nat
  <2>1. N - c \in Nat
    BY <1>1
  <2> QED BY <1>1, <2>1, ProductType DEF PostPayoutUnits
<1>5. Reserve(c) = IF amount = 0 THEN NoReserve
                   ELSE [NoReserve EXCEPT !.status = "ACTIVE", !.original = amount,
                                          !.remaining = amount, !.units = units]
  BY DEF Reserve
<1> HIDE DEF amount, units
<1>6. CASE amount = 0
  BY <1>3, <1>5, <1>6, NetType DEF NoReserve, ReserveRow
<1>7. CASE amount # 0
  <2>1. Reserve(c) = [status |-> "ACTIVE", original |-> amount, remaining |-> amount,
                      released |-> 0, used |-> 0, units |-> units, unitsReleased |-> 0]
    BY <1>5, <1>7 DEF NoReserve
  <2> QED BY <1>3, <1>4, <1>7, <2>1 DEF ReserveRow
<1> QED BY <1>6, <1>7

-----------------------------------------------------------------------------
(* The reserve rows *)

\* Row r gives amount to a wallet or to the pool, and stays ACTIVE as long as some of
\* it remains.
Draws(r, amount) ==
    \E row \in ReserveRow:
        /\ reserve' = [reserve EXCEPT ![r] = row]
        /\ row.status = "ACTIVE" <=> row.remaining > 0
        /\ row.original - row.released - row.used = Held(r) - amount
        /\ Held(r) - amount <= row.remaining

LEMMA ReleaseDraws ==
    ASSUME TypeOK, Rows, NEW m \in Members, NEW r \in ActiveReserves(m), NEW c,
           Unlocks(r, c), ReleaseUnit(r, m)
    PROVE  \E amount \in Nat:
              /\ amount <= reserved[m]
              /\ reserved' = [reserved EXCEPT ![m] = @ - amount]
              /\ available' = [available EXCEPT ![m] = @ + amount]
              /\ Draws(r, amount)
<1> DEFINE row == reserve[r]
           amount == UnitRelease(r)
           left == row.remaining - amount
           units == row.unitsReleased + 1
           a == IF left > 0 THEN left ELSE 0
           b == row.released + amount
           status == IF left <= 0 \/ units >= row.units THEN "RELEASED" ELSE "ACTIVE"
           new == [row EXCEPT !.remaining = a, !.released = b,
                              !.unitsReleased = units, !.status = status]
<1>1. r \in Cycles /\ row \in ReserveRow
  BY DEF TypeOK, ActiveReserves
<1>2. /\ row.original \in Nat /\ row.remaining \in Nat /\ row.released \in Nat /\ row.used \in Nat
      /\ row.units \in Nat /\ row.unitsReleased \in Nat
  BY <1>1 DEF ReserveRow
<1>3. row.remaining > 0 /\ row.unitsReleased < row.units
  BY DEF Unlocks
<1>4. amount = IF units >= row.units THEN row.remaining ELSE row.original \div row.units
  BY <1>2, <1>3 DEF UnitRelease, NextReserveRelease
<1>5. amount \in Nat
  <2>1. row.original \div row.units \in Nat
    BY <1>2, <1>3, NatQuotient
  <2> QED BY <1>2, <1>4, <2>1
<1>6. /\ amount <= reserved[m]
      /\ reserved' = [reserved EXCEPT ![m] = @ - amount]
      /\ available' = [available EXCEPT ![m] = @ + amount]
      /\ reserve' = [reserve EXCEPT ![r] = new]
  BY <1>5 DEF ReleaseUnit, TypeOK
<1>7. row.original - row.released - row.used <= row.remaining
  BY <1>1 DEF Rows, Held
<1>8. Held(r) = row.original - row.released - row.used
  BY DEF Held
<1> HIDE DEF row, amount
<1>9. new \in ReserveRow /\ new.original = row.original /\ new.used = row.used /\ new.released = b
      /\ new.remaining = a /\ new.status = status
  <2>1. a \in Nat /\ b \in Nat /\ units \in Nat /\ status \in {"NONE", "ACTIVE", "RELEASED"}
    BY <1>2, <1>5
  <2> HIDE DEF a, b, units, status
  <2> QED BY <1>1, <2>1 DEF ReserveRow
<1>10. status = "ACTIVE" <=> a > 0
  BY <1>2, <1>3, <1>4, <1>5
<1>11. row.original - b - row.used = Held(r) - amount /\ Held(r) - amount <= a
  BY <1>2, <1>5, <1>7, <1>8
<1> HIDE DEF new, a, b, status
<1>12. Draws(r, amount)
  BY <1>6, <1>9, <1>10, <1>11 DEF Draws
<1> QED BY <1>5, <1>6, <1>12

\* A cover takes no more than is missed and no more than remains.
LEMMA CoverDraws ==
    ASSUME TypeOK, Rows, NEW m \in Members, NEW c \in Cycles, NEW r \in ActiveReserves(m),
           Coverable(r, c, m), ~Paid(c, m), CoverFromReserve(r, c, m)
    PROVE  \E cover \in Nat:
              LET missed == MissedContribution(Contribution, DaysPerCycle, paidDayCount[c][m])
              IN  /\ missed = DailyAmount * (DaysPerCycle - paidDayCount[c][m])
                  /\ missed \in Nat /\ cover <= missed /\ cover <= reserved[m]
                  /\ reserved' = [reserved EXCEPT ![m] = @ - cover]
                  /\ UNCHANGED available
                  /\ pool' = pool + Forfeit(m) + cover
                  /\ coverages' = coverages \union
                        {[reserve |-> r, cycle |-> c, member |-> m, covered |-> cover, missed |-> missed]}
                  /\ paidDayCount' = IF cover = missed
                                     THEN [paidDayCount EXCEPT ![c][m] = DaysPerCycle]
                                     ELSE paidDayCount
                  /\ Draws(r, cover)
<1> DEFINE row == reserve[r]
           missed == MissedContribution(Contribution, DaysPerCycle, paidDayCount[c][m])
           cover == IF missed < row.remaining THEN missed ELSE row.remaining
           left == row.remaining - cover
           b == row.used + cover
           status == IF left <= 0 THEN "RELEASED" ELSE row.status
           new == [row EXCEPT !.remaining = left, !.used = b, !.status = status]
<1>1. r \in Cycles /\ row \in ReserveRow /\ row.status = "ACTIVE"
  BY DEF TypeOK, ActiveReserves
<1>2. /\ row.original \in Nat /\ row.remaining \in Nat /\ row.released \in Nat /\ row.used \in Nat
  BY <1>1 DEF ReserveRow
<1>3. missed = DailyAmount * (DaysPerCycle - paidDayCount[c][m]) /\ missed \in Nat
  <2>1. /\ paidDayCount[c][m] \in 0..DaysPerCycle /\ paidDayCount[c][m] # DaysPerCycle
        /\ DaysPerCycle \in Nat \ {0} /\ DailyAmount \in Nat
    BY ContributionType DEF TypeOK, Paid
  <2> DEFINE k == DaysPerCycle - paidDayCount[c][m]
  <2>2. k \in Nat /\ ~(paidDayCount[c][m] >= DaysPerCycle)
    BY <2>1
  <2>3. missed = (Contribution * k) \div DaysPerCycle
    BY <2>2 DEF MissedContribution
  <2> HIDE DEF k
  <2>4. DailyAmount * k \in Nat /\ Contribution * k = (DailyAmount * k) * DaysPerCycle
    BY <2>1, <2>2 DEF Contribution
  <2>5. ASSUME NEW x \in Nat PROVE (x * DaysPerCycle) \div DaysPerCycle = x
    BY <2>1
  <2>6. missed = DailyAmount * k
    BY <2>3, <2>4, <2>5
  <2> QED BY <2>4, <2>6 DEF k
<1>4. /\ reserved[m] >= cover
      /\ reserved' = [reserved EXCEPT ![m] = @ - cover]
      /\ UNCHANGED available
      /\ pool' = pool + Forfeit(m) + cover
      /\ coverages' = coverages \union
            {[reserve |-> r, cycle |-> c, member |-> m, covered |-> cover, missed |-> missed]}
      /\ paidDayCount' = IF cover >= missed THEN [paidDayCount EXCEPT ![c][m] = DaysPerCycle]
                         ELSE paidDayCount
      /\ reserve' = [reserve EXCEPT ![r] = new]
  BY DEF CoverFromReserve
<1>5. row.original - row.released - row.used <= row.remaining
  BY <1>1 DEF Rows, Held
<1>6. Held(r) = row.original - row.released - row.used /\ reserved[m] \in Nat
  BY DEF Held, TypeOK
<1> HIDE DEF row, missed
<1>7. cover \in Nat /\ cover <= missed /\ cover <= row.remaining /\ (cover >= missed <=> cover = missed)
  BY <1>2, <1>3
<1> HIDE DEF cover
<1>8. new \in ReserveRow /\ new.original = row.original /\ new.used = b /\ new.released = row.released
      /\ new.remaining = left /\ new.status = status
  <2>1. left \in Nat /\ b \in Nat /\ status \in {"NONE", "ACTIVE", "RELEASED"}
    BY <1>1, <1>2, <1>7
  <2> HIDE DEF left, b, status
  <2> QED BY <1>1, <2>1 DEF ReserveRow
<1>9. status = "ACTIVE" <=> left > 0
  BY <1>1, <1>2, <1>7
<1>10. row.original - row.released - b = Held(r) - cover /\ Held(r) - cover <= left
  BY <1>2, <1>5, <1>6, <1>7
<1> HIDE DEF new, left, b, status
<1>11. Draws(r, cover)
  BY <1>4, <1>8, <1>9, <1>10 DEF Draws
<1>12. cover <= reserved[m]
  BY <1>4, <1>6, <1>7
<1> QED BY <1>3, <1>4, <1>7, <1>11, <1>12 DEF missed

-----------------------------------------------------------------------------
(* What a step does to rows and balances *)

\* A unit of a reserve of m is unlocked.
Unlocked(m) ==
    \E r \in ActiveReserves(m): \E amount \in Nat:
        /\ amount <= reserved[m]
        /\ reserved' = [reserved EXCEPT ![m] = @ - amount]
        /\ available' = [available EXCEPT ![m] = @ + amount]
        /\ Draws(r, amount)

\* What m still owes for cycle c.
Missed(c, m) == DailyAmount * (DaysPerCycle - paidDayCount[c][m])

\* A reserve of m pays for what m has missed of cycle c, or for some of it.
CoverTaken(c, m) ==
    \E r \in ActiveReserves(m): \E cover \in Nat:
        /\ ~Covered(r, c, m)
        /\ cover <= Missed(c, m) /\ cover <= reserved[m]
        /\ reserved' = [reserved EXCEPT ![m] = @ - cover]
        /\ UNCHANGED available
        /\ pool' = pool + Forfeit(m) + cover
        /\ coverages' = coverages \union {[reserve |-> r, cycle |-> c, member |-> m,
                                           covered |-> cover, missed |-> Missed(c, m)]}
        /\ paidDayCount' = IF cover = Missed(c, m)
                           THEN [paidDayCount EXCEPT ![c][m] = DaysPerCycle] ELSE paidDayCount
        /\ Draws(r, cover)

\* recordContributionSettlement
LEMMA SettleMoves ==
    ASSUME TypeInv, NEW p \in paying, Settle(p)
    PROVE  /\ p.member \in Members /\ p.cycle \in Cycles /\ p.dayIndex \in 1..DaysPerCycle
           /\ paidDayCount[p.cycle][p.member] = p.dayIndex - 1
           /\ paidDayCount' = [paidDayCount EXCEPT ![p.cycle][p.member] = p.dayIndex]
           /\ \/ pool' = pool + DailyAmount /\ UNCHANGED repeats
              \/ /\ UNCHANGED pool
                 /\ repeats' = [repeats EXCEPT ![p.cycle][p.member] = @ + 1]
           /\ UNCHANGED <<groupVars, depositStatus, coverages>>
           /\ UNCHANGED <<reserve, available, reserved>> \/ Unlocked(p.member)
<1>1. p.member \in Members /\ p.cycle \in Cycles /\ p.dayIndex \in 1..DaysPerCycle
  BY DEF TypeInv, TypeOK
<1>2. \/ UNCHANGED <<reserve, available, reserved>>
      \/ \E r \in ActiveReserves(p.member): Unlocks(r, p.cycle) /\ ReleaseUnit(r, p.member)
  BY DEF Settle
<1>3. ASSUME NEW r \in ActiveReserves(p.member), Unlocks(r, p.cycle), ReleaseUnit(r, p.member)
      PROVE  Unlocked(p.member)
  BY <1>1, <1>3, ReleaseDraws DEF TypeInv, Unlocked
<1> QED BY <1>1, <1>2, <1>3 DEF Settle, Recordable, memberVars

\* The default transaction of syncGroupCompliance
LEMMA DefaultMoves ==
    ASSUME TypeInv, NEW h \in Handlers, NEW d \in job[h].todo, ApplyDefault(h, d)
    PROVE  /\ d.member \in Members /\ job[h].cycle \in Cycles
           /\ depositStatus' = IF depositStatus[d.member] = "HELD"
                               THEN [depositStatus EXCEPT ![d.member] = "FORFEITED"]
                               ELSE depositStatus
           /\ UNCHANGED repeats
           /\ \/ NoCover(d.member)
              \/ (~Paid(job[h].cycle, d.member) /\ CoverTaken(job[h].cycle, d.member))
<1> DEFINE m == d.member
           c == job[h].cycle
<1>1. job[h].todo \subseteq [member: Members, what: {"resolve", "active", "late", "default"}]
  BY DEF TypeInv, TypeOK, Job
<1>2. m \in Members /\ c \in Cycles
  BY <1>1 DEF TypeInv, RInv, Shape, Idle
<1>3. depositStatus' = IF depositStatus[m] = "HELD"
                       THEN [depositStatus EXCEPT ![m] = "FORFEITED"] ELSE depositStatus
  BY Zenon DEF ApplyDefault
<1>4. \/ NoCover(m)
      \/ /\ ~Paid(c, m)
         /\ \E r \in ActiveReserves(m): Coverable(r, c, m) /\ CoverFromReserve(r, c, m)
  BY Zenon DEF ApplyDefault
<1>5. UNCHANGED repeats
  BY <1>4, Zenon DEF NoCover, CoverFromReserve
<1>6. ASSUME ~Paid(c, m), NEW r \in ActiveReserves(m), Coverable(r, c, m), CoverFromReserve(r, c, m)
      PROVE  CoverTaken(c, m)
  <2> DEFINE missed == MissedContribution(Contribution, DaysPerCycle, paidDayCount[c][m])
  <2> HIDE DEF m, c
  <2>1. PICK cover \in Nat:
            /\ missed = DailyAmount * (DaysPerCycle - paidDayCount[c][m])
            /\ missed \in Nat /\ cover <= missed /\ cover <= reserved[m]
            /\ reserved' = [reserved EXCEPT ![m] = @ - cover]
            /\ UNCHANGED available
            /\ pool' = pool + Forfeit(m) + cover
            /\ coverages' = coverages \union
                  {[reserve |-> r, cycle |-> c, member |-> m, covered |-> cover, missed |-> missed]}
            /\ paidDayCount' = IF cover = missed
                               THEN [paidDayCount EXCEPT ![c][m] = DaysPerCycle]
                               ELSE paidDayCount
            /\ Draws(r, cover)
    BY <1>2, <1>6, CoverDraws DEF TypeInv
  <2> HIDE DEF missed
  <2>2. missed = Missed(c, m) /\ ~Covered(r, c, m)
    BY <1>6, <2>1 DEF Missed, Coverable
  <2> QED BY <2>1, <2>2 DEF CoverTaken
<1> QED BY <1>2, <1>3, <1>4, <1>5, <1>6

\* What finalizeCycle commits, of a cycle that is not the last.
LEMMA CommitMoves ==
    ASSUME TypeInv, NEW h \in Handlers, CommitCycle(h)
    PROVE  /\ groupStatus = "ACTIVE" /\ job[h].recipient \in Members
           /\ currentCycle \in Cycles /\ recipient[currentCycle] = None
           /\ currentCycle + 1 \in Cycles /\ currentCycle' = currentCycle + 1
           /\ pool >= Gross /\ pool' = pool - Gross
           /\ recipient' = [recipient EXCEPT ![currentCycle] = job[h].recipient]
           /\ reserve' = [reserve EXCEPT ![currentCycle] = Reserve(currentCycle)]
           /\ available' = [available EXCEPT ![job[h].recipient] =
                                @ + Net - Reserve(currentCycle).original]
           /\ reserved' = [reserved EXCEPT ![job[h].recipient] =
                                @ + Reserve(currentCycle).original]
           /\ UNCHANGED <<groupStatus, paidDayCount, repeats, depositStatus, coverages>>
<1>1. /\ groupStatus = "ACTIVE" /\ job[h].recipient \in Members
      /\ pool >= Gross /\ pool' = pool - Gross
      /\ recipient' = [recipient EXCEPT ![currentCycle] = job[h].recipient]
      /\ \/ /\ currentCycle < N /\ currentCycle' = currentCycle + 1 /\ UNCHANGED groupStatus
         \/ /\ currentCycle = N /\ UNCHANGED currentCycle /\ groupStatus' = "COMPLETED"
  BY CommitFacts DEF TypeInv
<1>2. UNCHANGED groupStatus /\ currentCycle' = job[h].cycle + 1 /\ recipient[job[h].cycle] = None
  BY DEF CommitCycle, Allocate
<1>3. currentCycle \in 1..N /\ N \in Nat
  BY NType DEF TypeInv, TypeOK, Cycles
<1>4. currentCycle < N /\ currentCycle' = currentCycle + 1
  BY <1>1, <1>2
<1>5. job[h].cycle \in Cycles
  BY DEF CommitCycle, TypeInv, RInv, Shape, Idle
<1>6. job[h].cycle = currentCycle
  BY <1>2, <1>3, <1>4, <1>5 DEF Cycles
<1>7. currentCycle + 1 \in Cycles /\ currentCycle \in Cycles
  BY <1>3, <1>4 DEF Cycles
<1> QED BY <1>1, <1>2, <1>4, <1>6, <1>7 DEF CommitCycle

\* What the completion takes out of the reserved wallet of x.
Swept(x) == IF HasActiveReserve(x) THEN reserved[x] ELSE 0

\* What it commits of the last one.
LEMMA LastMoves ==
    ASSUME TypeInv, NEW h \in Handlers, CommitLastCycle(h)
    PROVE  /\ groupStatus = "ACTIVE" /\ groupStatus' = "COMPLETED" /\ job[h].recipient \in Members
           /\ N \in Cycles /\ currentCycle = N /\ recipient[N] = None
           /\ pool >= Gross /\ pool' = pool - Gross
           /\ recipient' = [recipient EXCEPT ![N] = job[h].recipient]
           /\ \A x \in Members: reserved[x] >=
                  SumFunctionOnSet([r \in Cycles |-> reserve[r].remaining], ActiveReserves(x))
           /\ depositStatus' = [x \in Members |->
                  IF DepositReleased(x) THEN "RELEASED" ELSE depositStatus[x]]
           /\ reserve' = [r \in Cycles |-> CloseReserve(r)]
           /\ reserved' = [x \in Members |-> reserved[x] - Swept(x)]
           /\ available' = [x \in Members |->
                  available[x] + Swept(x) + (IF x = job[h].recipient THEN Net ELSE 0)
                               + (IF DepositReleased(x) THEN Contribution ELSE 0)]
           /\ UNCHANGED <<currentCycle, paidDayCount, repeats, coverages>>
<1>1. /\ groupStatus = "ACTIVE" /\ job[h].recipient \in Members
      /\ pool >= Gross /\ pool' = pool - Gross
      /\ recipient' = [recipient EXCEPT ![currentCycle] = job[h].recipient]
      /\ \/ /\ currentCycle < N /\ currentCycle' = currentCycle + 1 /\ UNCHANGED groupStatus
         \/ /\ currentCycle = N /\ UNCHANGED currentCycle /\ groupStatus' = "COMPLETED"
  BY CommitFacts DEF TypeInv
<1>2. job[h].cycle = N /\ recipient[N] = None /\ groupStatus' = "COMPLETED" /\ UNCHANGED currentCycle
  BY DEF CommitLastCycle, Allocate
<1>3. currentCycle = N /\ N \in Cycles
  BY <1>1, <1>2 DEF TypeInv, TypeOK
<1> QED BY <1>1, <1>2, <1>3, Zenon DEF CommitLastCycle, Swept

\* Nothing else touches rows and balances.
LEMMA MoneySteps ==
    ASSUME TypeInv, [Next]_vars
    PROVE  \/ UNCHANGED <<groupVars, paidDayCount, depositStatus, reserve, coverages, moneyVars>>
           \/ \E p \in paying: Settle(p)
           \/ \E h \in Handlers: \E d \in job[h].todo:
                ApplyDefault(h, d) /\ UNCHANGED groupVars
           \/ \E h \in Handlers: CommitCycle(h)
           \/ \E h \in Handlers: CommitLastCycle(h)
<1>1. ASSUME NEW h \in Handlers, Apply(h)
      PROVE  \/ UNCHANGED <<groupVars, paidDayCount, depositStatus, reserve, coverages, moneyVars>>
             \/ \E d \in job[h].todo: ApplyDefault(h, d) /\ UNCHANGED groupVars
  BY <1>1, Zenon DEF Apply, ApplyUpdate, ApplyResolve, groupVars
<1> QED BY <1>1 DEF Next, Work, vars, memberVars, NextDay, CheckPayment, DropPayment, BeginSync,
                    Stop, FinalizeRead

-----------------------------------------------------------------------------
(* Types *)

\* Of finitely many numbers one is the largest.
LEMMA HasLargest ==
    ASSUME NEW S, IsFiniteSet(S), S # {}, NEW f, \A x \in S: f[x] \in Int
    PROVE  \E x \in S: \A y \in S: f[y] <= f[x]
<1> DEFINE G == {t \in SUBSET S: t = {} \/ \E x \in t: \A y \in t: f[y] <= f[x]}
<1>1. {} \in G
  OBVIOUS
<1>2. ASSUME NEW t \in SUBSET S, NEW z \in t, t \ {z} \in G PROVE t \in G
  <2>1. CASE t \ {z} = {}
    <3>1. \A y \in t: y = z
      BY <2>1
    <3>2. \A y \in t: f[y] <= f[z]
      BY <3>1
    <3> QED BY <3>2
  <2>2. ASSUME NEW x \in t \ {z}, \A y \in t \ {z}: f[y] <= f[x] PROVE t \in G
    <3>1. f[x] \in Int /\ f[z] \in Int
      OBVIOUS
    <3>2. CASE f[x] <= f[z]
      <4>1. \A y \in t: f[y] <= f[z]
        BY <2>2, <3>1, <3>2
      <4> QED BY <4>1
    <3>3. CASE f[z] <= f[x]
      <4>1. \A y \in t: f[y] <= f[x]
        BY <2>2, <3>1, <3>3
      <4> QED BY <4>1
    <3> QED BY <3>1, <3>2, <3>3
  <2> QED BY <1>2, <2>1, <2>2
<1> HIDE DEF G
<1>3. S \in G
  BY <1>1, <1>2, SubsetInduction
<1> QED BY <1>3 DEF G

\* The end of the queue.
LEMMA QueueType ==
    ASSUME TypeInv, NEW h \in Handlers, NEW d \in job[h].todo, ApplyDefault(h, d)
    PROVE  effectivePayoutOrder' \in [Members -> Nat]
<1> DEFINE orders == {effectivePayoutOrder[x]: x \in Members}
           largest == CHOOSE o \in orders: \A x \in Members: effectivePayoutOrder[x] <= o
<1>1. effectivePayoutOrder \in [Members -> Nat] /\ IsFiniteSet(Members) /\ Members # {}
  BY NType, FS_EmptySet, GroupCycleAssumption DEF TypeInv, TypeOK, N
<1>2. PICK x \in Members: \A y \in Members: effectivePayoutOrder[y] <= effectivePayoutOrder[x]
  <2>1. \A x \in Members: effectivePayoutOrder[x] \in Int
    BY <1>1
  <2> QED BY <1>1, <2>1, HasLargest
<1>3. \E o \in orders: \A y \in Members: effectivePayoutOrder[y] <= o
  BY <1>2
<1>4. largest \in orders
  BY <1>3
<1>5. orders \subseteq Nat
  BY <1>1
<1>6. \/ UNCHANGED effectivePayoutOrder
      \/ effectivePayoutOrder' = [effectivePayoutOrder EXCEPT ![d.member] = 1 + largest]
  BY Zenon DEF ApplyDefault
<1> HIDE DEF largest, orders
<1>7. 1 + largest \in Nat
  BY <1>4, <1>5
<1> QED BY <1>1, <1>6, <1>7

\* A draw leaves the rows in order.
LEMMA DrawsRows ==
    ASSUME TypeInv, NEW m \in Members, NEW r \in ActiveReserves(m), NEW amount \in Nat,
           Draws(r, amount), UNCHANGED recipient
    PROVE  reserve' \in [Cycles -> ReserveRow] /\ Rows'
<1>1. r \in Cycles /\ recipient[r] # None
  BY GroupCycleAssumption DEF ActiveReserves
<1>2. PICK row \in ReserveRow:
        /\ reserve' = [reserve EXCEPT ![r] = row]
        /\ row.status = "ACTIVE" <=> row.remaining > 0
        /\ row.original - row.released - row.used = Held(r) - amount
        /\ Held(r) - amount <= row.remaining
  BY DEF Draws
<1>3. reserve \in [Cycles -> ReserveRow] /\ Rows
  BY DEF TypeInv, TypeOK
<1>4. reserve' \in [Cycles -> ReserveRow]
  BY <1>2, <1>3
<1>5. ASSUME NEW c \in Cycles
      PROVE  /\ reserve'[c].status = "ACTIVE" <=> reserve'[c].remaining > 0
             /\ Held(c)' <= reserve'[c].remaining
             /\ recipient'[c] = None => reserve'[c] = NoReserve
  <2>1. CASE c = r
    <3>1. reserve'[c] = row
      BY <1>1, <1>2, <1>3, <2>1
    <3> QED BY <1>1, <1>2, <2>1, <3>1 DEF Held
  <2>2. CASE c # r
    <3>1. reserve'[c] = reserve[c]
      BY <1>1, <1>2, <1>3, <2>2
    <3> QED BY <1>3, <3>1 DEF Held, Rows
  <2> QED BY <2>1, <2>2
<1> QED BY <1>4, <1>5 DEF Rows

\* The part of TypeOK that is about money.
Balances ==
    /\ pool \in Nat
    /\ repeats \in [Cycles -> [Members -> Nat]]
    /\ available \in [Members -> Nat]
    /\ reserved \in [Members -> Nat]
    /\ reserve \in [Cycles -> ReserveRow]
    /\ coverages \subseteq [reserve: Cycles, cycle: Cycles, member: Members,
                            covered: Nat, missed: Nat]

LEMMA SettleTypes ==
    ASSUME TypeInv, NEW p \in paying, Settle(p)
    PROVE  Balances' /\ Rows' /\ Covers'
<1>1. /\ p.member \in Members /\ p.cycle \in Cycles
      /\ \/ pool' = pool + DailyAmount /\ UNCHANGED repeats
         \/ UNCHANGED pool /\ repeats' = [repeats EXCEPT ![p.cycle][p.member] = @ + 1]
      /\ UNCHANGED <<groupVars, coverages>>
      /\ UNCHANGED <<reserve, available, reserved>> \/ Unlocked(p.member)
  BY SettleMoves
<1>2. Covers' /\ pool' \in Nat /\ repeats' \in [Cycles -> [Members -> Nat]]
  <2>1. Covers' /\ pool' \in Nat
    BY <1>1, ContributionType DEF TypeInv, TypeOK, Covers
  <2>2. repeats \in [Cycles -> [Members -> Nat]]
    BY DEF TypeInv, TypeOK
  <2>3. CASE repeats' = [repeats EXCEPT ![p.cycle][p.member] = @ + 1]
    <3>1. repeats[p.cycle][p.member] + 1 \in Nat
      BY <1>1, <2>2
    <3> QED BY <1>1, <2>1, <2>2, <2>3, <3>1
  <2> QED BY <1>1, <2>1, <2>2, <2>3
<1>3. CASE UNCHANGED <<reserve, available, reserved>>
  BY <1>1, <1>2, <1>3 DEF TypeInv, TypeOK, Rows, Held, Balances, groupVars
<1>4. CASE Unlocked(p.member)
  <2>1. PICK r \in ActiveReserves(p.member), amount \in Nat:
          /\ amount <= reserved[p.member]
          /\ reserved' = [reserved EXCEPT ![p.member] = @ - amount]
          /\ available' = [available EXCEPT ![p.member] = @ + amount]
          /\ Draws(r, amount)
    BY <1>4 DEF Unlocked
  <2>2. reserve' \in [Cycles -> ReserveRow] /\ Rows'
    BY <1>1, <2>1, DrawsRows DEF groupVars
  <2>3. reserved' \in [Members -> Nat] /\ available' \in [Members -> Nat]
    BY <1>1, <2>1 DEF TypeInv, TypeOK
  <2> QED BY <1>1, <1>2, <2>2, <2>3 DEF Balances, TypeInv, TypeOK
<1> QED BY <1>1, <1>3, <1>4

LEMMA DefaultTypes ==
    ASSUME TypeInv, NEW h \in Handlers, NEW d \in job[h].todo, ApplyDefault(h, d),
           UNCHANGED groupVars
    PROVE  Balances' /\ Rows' /\ Covers'
<1> DEFINE m == d.member
           c == job[h].cycle
<1>1. /\ m \in Members /\ c \in Cycles /\ UNCHANGED repeats
      /\ NoCover(m) \/ (~Paid(c, m) /\ CoverTaken(c, m))
  BY DefaultMoves
<1> HIDE DEF m, c
<1>2. Forfeit(m) \in Nat
  BY ContributionType DEF Forfeit
<1>3. CASE NoCover(m)
  BY <1>2, <1>3 DEF NoCover, TypeInv, TypeOK, Rows, Held, Balances, Covers, groupVars
<1>4. CASE CoverTaken(c, m)
  <2>1. PICK r \in ActiveReserves(m), cover \in Nat:
          /\ cover <= Missed(c, m) /\ cover <= reserved[m]
          /\ reserved' = [reserved EXCEPT ![m] = @ - cover]
          /\ UNCHANGED available
          /\ pool' = pool + Forfeit(m) + cover
          /\ coverages' = coverages \union {[reserve |-> r, cycle |-> c, member |-> m,
                                             covered |-> cover, missed |-> Missed(c, m)]}
          /\ Draws(r, cover)
    BY <1>4 DEF CoverTaken
  <2>2. reserve' \in [Cycles -> ReserveRow] /\ Rows'
    BY <1>1, <2>1, DrawsRows DEF groupVars
  <2>3. Missed(c, m) \in Nat
    <3>1. /\ DaysPerCycle - paidDayCount[c][m] \in Nat /\ DailyAmount \in Nat
      BY <1>1, ContributionType DEF TypeInv, TypeOK
    <3> QED BY <3>1, ProductType DEF Missed
  <2>4. /\ pool' \in Nat /\ available' \in [Members -> Nat] /\ reserved' \in [Members -> Nat]
    BY <1>1, <1>2, <2>1 DEF TypeInv, TypeOK
  <2> DEFINE v == [reserve |-> r, cycle |-> c, member |-> m,
                   covered |-> cover, missed |-> Missed(c, m)]
  <2>5. /\ v \in [reserve: Cycles, cycle: Cycles, member: Members, covered: Nat, missed: Nat]
        /\ v.covered <= v.missed
    BY <1>1, <2>1, <2>3 DEF ActiveReserves
  <2>6. coverages' = coverages \union {v}
    BY <2>1
  <2> HIDE DEF v
  <2>7. Covers'
    BY <2>5, <2>6, FS_AddElement DEF TypeInv, Covers
  <2> QED BY <1>1, <2>2, <2>4, <2>5, <2>6, <2>7 DEF Balances, TypeInv, TypeOK
<1> QED BY <1>1, <1>3, <1>4

LEMMA CommitTypes ==
    ASSUME TypeInv, NEW h \in Handlers, CommitCycle(h)
    PROVE  Balances' /\ Rows' /\ Covers'
<1> DEFINE m == job[h].recipient
           k == currentCycle
<1>1. /\ m \in Members /\ k \in Cycles
      /\ pool >= Gross /\ pool' = pool - Gross
      /\ recipient' = [recipient EXCEPT ![k] = m]
      /\ reserve' = [reserve EXCEPT ![k] = Reserve(k)]
      /\ available' = [available EXCEPT ![m] = @ + Net - Reserve(k).original]
      /\ reserved' = [reserved EXCEPT ![m] = @ + Reserve(k).original]
      /\ UNCHANGED <<repeats, coverages>>
  BY CommitMoves
<1> HIDE DEF m, k
<1>2. /\ Reserve(k) \in ReserveRow
      /\ Reserve(k).status = "ACTIVE" <=> Reserve(k).remaining > 0
      /\ Reserve(k).released = 0 /\ Reserve(k).used = 0
      /\ Reserve(k).original = Reserve(k).remaining
      /\ Reserve(k).original <= Net
  BY <1>1, NewRow
<1>3. Reserve(k).original \in Nat
  BY <1>2 DEF ReserveRow
<1>4. /\ pool \in Nat /\ available \in [Members -> Nat] /\ reserved \in [Members -> Nat]
      /\ reserve \in [Cycles -> ReserveRow] /\ recipient \in [Cycles -> Members \union {None}]
      /\ None \notin Members /\ Rows
  BY GroupCycleAssumption DEF TypeInv, TypeOK
<1>5. Balances'
  <2>1. pool' \in Nat
    BY <1>1, <1>4, NetType
  <2>2. available' \in [Members -> Nat] /\ reserved' \in [Members -> Nat]
    BY <1>1, <1>2, <1>3, <1>4, NetType
  <2>3. reserve' \in [Cycles -> ReserveRow]
    BY <1>1, <1>2, <1>4
  <2> QED BY <1>1, <2>1, <2>2, <2>3 DEF Balances, TypeInv, TypeOK
<1>6. ASSUME NEW c \in Cycles
      PROVE  /\ reserve'[c].status = "ACTIVE" <=> reserve'[c].remaining > 0
             /\ Held(c)' <= reserve'[c].remaining
             /\ recipient'[c] = None => reserve'[c] = NoReserve
  <2>1. CASE c = k
    <3>1. reserve'[c] = Reserve(k) /\ recipient'[c] = m
      BY <1>1, <1>4, <2>1
    <3> QED BY <1>1, <1>2, <1>3, <1>4, <3>1 DEF Held
  <2>2. CASE c # k
    <3>1. reserve'[c] = reserve[c] /\ recipient'[c] = recipient[c]
      BY <1>1, <1>4, <2>2
    <3> QED BY <1>4, <3>1 DEF Held, Rows
  <2> QED BY <2>1, <2>2
<1> QED BY <1>1, <1>5, <1>6 DEF Rows, TypeInv, Covers

\* The completion closes a row.
LEMMA ClosedFacts ==
    ASSUME TypeInv, NEW c \in Cycles
    PROVE  /\ CloseReserve(c) \in ReserveRow
           /\ CloseReserve(c).status # "ACTIVE"
           /\ CloseReserve(c).remaining = 0
           /\ CloseReserve(c).original - CloseReserve(c).released - CloseReserve(c).used
                = Held(c) - reserve[c].remaining
           /\ reserve[c] = NoReserve => CloseReserve(c) = NoReserve
<1> DEFINE row == reserve[c]
<1>1. row \in ReserveRow /\ (row.status = "ACTIVE" <=> row.remaining > 0)
  BY DEF TypeInv, TypeOK, Rows
<1>2. /\ row.original \in Nat /\ row.remaining \in Nat /\ row.released \in Nat /\ row.used \in Nat
      /\ row.units \in Nat /\ Held(c) = row.original - row.released - row.used
  BY <1>1 DEF ReserveRow, Held
<1>3. row = NoReserve => row.status # "ACTIVE"
  BY DEF NoReserve
<1>4. CASE row.status # "ACTIVE"
  <2>1. CloseReserve(c) = row
    BY <1>4 DEF CloseReserve
  <2> HIDE DEF row
  <2>2. row.remaining = 0
    BY <1>1, <1>2, <1>4
  <2>3. row.original - row.released - row.used = Held(c) - row.remaining
    BY <1>2, <2>2
  <2> QED BY <1>1, <1>4, <2>1, <2>2, <2>3 DEF row
<1>5. CASE row.status = "ACTIVE"
  <2> DEFINE b == row.released + row.remaining
             u == row.units
             new == [row EXCEPT !.released = b, !.remaining = 0, !.unitsReleased = u,
                                !.status = "RELEASED"]
  <2>1. CloseReserve(c) = new
    BY <1>5 DEF CloseReserve
  <2>2. b \in Nat /\ u \in Nat
    BY <1>2
  <2>3. row.original - b - row.used = Held(c) - row.remaining
    BY <1>2
  <2> HIDE DEF row, b, u
  <2>4. /\ new \in ReserveRow /\ new.status = "RELEASED" /\ new.remaining = 0
        /\ new.original = row.original /\ new.released = b /\ new.used = row.used
    <3>1. ASSUME NEW z \in Nat, NEW w \in {"NONE", "ACTIVE", "RELEASED"}
          PROVE  LET n == [row EXCEPT !.released = b, !.remaining = z, !.unitsReleased = u,
                                      !.status = w]
                 IN  /\ n \in ReserveRow /\ n.status = w /\ n.remaining = z
                     /\ n.original = row.original /\ n.released = b /\ n.used = row.used
      BY <1>1, <2>2 DEF ReserveRow
    <3>2. 0 \in Nat /\ "RELEASED" \in {"NONE", "ACTIVE", "RELEASED"}
      OBVIOUS
    <3> QED BY <3>1, <3>2, Zenon DEF new
  <2> HIDE DEF new
  <2> QED BY <1>3, <1>5, <2>1, <2>3, <2>4 DEF row
<1> QED BY <1>4, <1>5

LEMMA LastTypes ==
    ASSUME TypeInv, NEW h \in Handlers, CommitLastCycle(h)
    PROVE  Balances' /\ Rows' /\ Covers'
<1>1. /\ N \in Cycles /\ pool >= Gross /\ pool' = pool - Gross
      /\ recipient' = [recipient EXCEPT ![N] = job[h].recipient]
      /\ reserve' = [r \in Cycles |-> CloseReserve(r)]
      /\ reserved' = [x \in Members |-> reserved[x] - Swept(x)]
      /\ available' = [x \in Members |->
                available[x] + Swept(x) + (IF x = job[h].recipient THEN Net ELSE 0)
                             + (IF DepositReleased(x) THEN Contribution ELSE 0)]
      /\ job[h].recipient \in Members /\ UNCHANGED <<repeats, coverages>>
  BY LastMoves
<1>2. /\ pool \in Nat /\ available \in [Members -> Nat] /\ reserved \in [Members -> Nat]
      /\ recipient \in [Cycles -> Members \union {None}] /\ None \notin Members /\ Rows
  BY GroupCycleAssumption DEF TypeInv, TypeOK
<1>3. ASSUME NEW x \in Members
      PROVE  /\ reserved[x] - Swept(x) \in Nat
             /\ available[x] + Swept(x) + (IF x = job[h].recipient THEN Net ELSE 0)
                             + (IF DepositReleased(x) THEN Contribution ELSE 0) \in Nat
  <2>1. reserved[x] \in Nat /\ available[x] \in Nat /\ Swept(x) \in {0, reserved[x]}
    BY <1>2 DEF Swept
  <2>2. \A net \in {0, Net}, deposit \in {0, Contribution}:
            available[x] + Swept(x) + net + deposit \in Nat
    BY <2>1, NetType
  <2> QED BY <2>1, <2>2
<1>4. Balances'
  <2>1. pool' \in Nat
    BY <1>1, <1>2, NetType
  <2>2. available' \in [Members -> Nat] /\ reserved' \in [Members -> Nat]
    BY <1>1, <1>3
  <2>3. reserve' \in [Cycles -> ReserveRow]
    BY <1>1, ClosedFacts
  <2> QED BY <1>1, <2>1, <2>2, <2>3 DEF Balances, TypeInv, TypeOK
<1>5. ASSUME NEW c \in Cycles
      PROVE  /\ reserve'[c].status = "ACTIVE" <=> reserve'[c].remaining > 0
             /\ Held(c)' <= reserve'[c].remaining
             /\ recipient'[c] = None => reserve'[c] = NoReserve
  <2>1. reserve'[c] = CloseReserve(c)
    BY <1>1
  <2>2. /\ CloseReserve(c).status # "ACTIVE" /\ CloseReserve(c).remaining = 0
        /\ Held(c)' = Held(c) - reserve[c].remaining
        /\ reserve[c] = NoReserve => CloseReserve(c) = NoReserve
    BY <2>1, ClosedFacts DEF Held
  <2>3. Held(c) <= reserve[c].remaining /\ (recipient[c] = None => reserve[c] = NoReserve)
    BY <1>2 DEF Rows
  <2>4. Held(c) \in Int /\ reserve[c].remaining \in Nat
    BY DEF TypeInv, TypeOK, ReserveRow, Held
  <2>5. recipient'[c] = None => recipient[c] = None
    BY <1>1, <1>2
  <2> QED BY <2>1, <2>2, <2>3, <2>4, <2>5
<1> QED BY <1>1, <1>4, <1>5 DEF Rows, TypeInv, Covers

\* The days and the queue.
LEMMA RestTypes ==
    ASSUME TypeInv, [Next]_vars
    PROVE  day' \in 0..MaxDay /\ effectivePayoutOrder' \in [Members -> Nat]
<1>1. day \in 0..MaxDay /\ effectivePayoutOrder \in [Members -> Nat]
  BY DEF TypeInv, TypeOK
<1>2. MaxDay \in Nat
  <2>1. N * DaysPerCycle \in Nat /\ DefaultGraceDays \in Nat
    BY NType, ContributionType, ProductType, GroupCycleAssumption
  <2> QED BY <2>1 DEF MaxDay
<1>3. day' \in 0..MaxDay
  <2>1. UNCHANGED day \/ (day < MaxDay /\ day' = day + 1)
    BY DEF Next, Work, vars, NextDay, CheckPayment, Settle, DropPayment, BeginSync, Apply,
           Stop, FinalizeRead, CommitCycle, CommitLastCycle
  <2> QED BY <1>1, <1>2, <2>1
<1>4. ASSUME NEW h \in Handlers, Apply(h) PROVE effectivePayoutOrder' \in [Members -> Nat]
  <2>1. PICK d \in job[h].todo: ApplyUpdate(h, d) \/ ApplyResolve(h, d) \/ ApplyDefault(h, d)
    BY <1>4 DEF Apply
  <2>2. CASE ApplyDefault(h, d)
    BY <2>1, <2>2, QueueType
  <2> QED BY <1>1, <2>1, <2>2 DEF ApplyUpdate, ApplyResolve
<1>5. \/ UNCHANGED effectivePayoutOrder
      \/ \E h \in Handlers: Apply(h)
  BY DEF Next, Work, vars, memberVars, NextDay, CheckPayment, Settle, DropPayment, BeginSync,
         Stop, FinalizeRead, CommitCycle, CommitLastCycle
<1> QED BY <1>1, <1>3, <1>4, <1>5

LEMMA TypeStep == TypeInv /\ [Next]_vars => TypeInv'
<1> SUFFICES ASSUME TypeInv, [Next]_vars PROVE TypeInv'
  OBVIOUS
<1>1. RInv' /\ DefaultForfeits'
  BY RInvStep, DefaultForfeitsStep DEF TypeInv, RInv
<1>2. CASE UNCHANGED <<groupVars, paidDayCount, depositStatus, reserve, coverages, moneyVars>>
  <2>1. Balances' /\ Rows' /\ Covers'
    BY <1>2 DEF TypeInv, TypeOK, Balances, Rows, Held, Covers, groupVars, moneyVars
  <2> QED BY <1>1, <2>1, RestTypes DEF TypeInv, TypeOK, Balances, RInv, Shape
<1>3. CASE ~UNCHANGED <<groupVars, paidDayCount, depositStatus, reserve, coverages, moneyVars>>
  <2>1. Balances' /\ Rows' /\ Covers'
    BY <1>3, MoneySteps, SettleTypes, DefaultTypes, CommitTypes, LastTypes
  <2> QED BY <1>1, <2>1, RestTypes DEF TypeInv, TypeOK, Balances, RInv, Shape
<1> QED BY <1>2, <1>3

LEMMA TypeInit == Init => TypeInv
<1> SUFFICES ASSUME Init PROVE TypeInv
  OBVIOUS
<1>1. RInv /\ DefaultForfeits
  BY RInvInit, InitGInv DEF GInv
<1>2. TypeOK
  <2>1. day \in 0..MaxDay
    <3>1. N * DaysPerCycle \in Nat /\ DefaultGraceDays \in Nat
      BY NType, ContributionType, ProductType, GroupCycleAssumption
    <3> QED BY <3>1 DEF Init, MaxDay
  <2>2. effectivePayoutOrder \in [Members -> Nat]
    BY NType, GroupCycleAssumption DEF Init, Cycles
  <2>3. NoReserve \in ReserveRow
    BY DEF NoReserve, ReserveRow
  <2> QED BY <1>1, <2>1, <2>2, <2>3 DEF Init, TypeOK, RInv, Shape
<1>3. Rows
  BY DEF Init, Rows, Held, NoReserve
<1>4. Covers
  BY FS_EmptySet DEF Init, Covers
<1> QED BY <1>1, <1>2, <1>3, <1>4 DEF TypeInv

\* The rows, the balances and the handlers' locals keep their types for any amounts,
\* and no balance of the group ever becomes negative (assertSufficientBalance and the
\* guards of finalizeCycle, a reserve's release and its cover).
THEOREM TypesKept == Spec => []TypeOK
<1>1. TypeInv => TypeOK
  BY DEF TypeInv
<1> QED BY <1>1, TypeInit, TypeStep, PTL DEF Spec

-----------------------------------------------------------------------------
(* The reserves *)

HeldRows == [c \in Cycles |-> Held(c)]
PaidTo(m) == {c \in Cycles: recipient[c] = m}

\* ReserveAccounted, without what Rows says.
Accounted == \A m \in Members: reserved[m] = SumFunctionOnSet(HeldRows, PaidTo(m))

LEMMA RowSets ==
    ASSUME TypeInv
    PROVE  /\ IsFiniteSet(Cycles) /\ \A m: IsFiniteSet(PaidTo(m))
           /\ \A m: IsFiniteSet(ActiveReserves(m))
           /\ \A c \in Cycles: HeldRows[c] \in Int /\ HeldRows[c] = Held(c)
                               /\ reserve[c].remaining \in Nat
<1>1. IsFiniteSet(Cycles)
  BY NType, FS_Interval DEF Cycles
<1>2. \A m: IsFiniteSet(PaidTo(m)) /\ IsFiniteSet(ActiveReserves(m))
  BY <1>1, FS_Subset DEF PaidTo, ActiveReserves
<1>3. \A c \in Cycles: HeldRows[c] \in Int /\ HeldRows[c] = Held(c) /\ reserve[c].remaining \in Nat
  BY DEF TypeInv, TypeOK, ReserveRow, HeldRows, Held
<1> QED BY <1>1, <1>2, <1>3

\* A draw is taken from the wallet and from one row of the wallet's owner.
LEMMA DrawAccounted ==
    ASSUME TypeInv, TypeInv', Accounted, NEW m \in Members, NEW r \in ActiveReserves(m),
           NEW amount \in Nat, Draws(r, amount), UNCHANGED recipient,
           reserved' = [reserved EXCEPT ![m] = @ - amount]
    PROVE  Accounted'
<1> DEFINE f == HeldRows
           g == HeldRows'
<1>1. r \in Cycles /\ recipient[r] = m
  BY DEF ActiveReserves
<1>2. PICK row \in ReserveRow:
        /\ reserve' = [reserve EXCEPT ![r] = row]
        /\ row.original - row.released - row.used = Held(r) - amount
  BY DEF Draws
<1>3. reserve \in [Cycles -> ReserveRow] /\ reserved \in [Members -> Nat]
  BY DEF TypeInv, TypeOK
<1>4. /\ \A c \in Cycles: f[c] \in Int
      /\ \A c \in Cycles: g[c] \in Int
  BY DEF TypeInv, TypeOK, ReserveRow, HeldRows, Held
<1>5. /\ \A c \in Cycles \ {r}: g[c] = f[c]
      /\ g[r] = f[r] - amount
  BY <1>1, <1>2, <1>3 DEF HeldRows, Held
<1>6. \A x: PaidTo(x)' = PaidTo(x) /\ IsFiniteSet(PaidTo(x)) /\ PaidTo(x) \subseteq Cycles
  BY RowSets DEF PaidTo
<1> HIDE DEF f, g
<1>7. ASSUME NEW x \in Members
      PROVE  reserved'[x] = SumFunctionOnSet(g, PaidTo(x))
  <2>1. reserved[x] = SumFunctionOnSet(f, PaidTo(x))
    BY DEF Accounted, f
  <2>2. CASE x = m
    <3>1. r \in PaidTo(x)
      BY <1>1, <2>2 DEF PaidTo
    <3>2. SumFunctionOnSet(g, PaidTo(x)) = SumFunctionOnSet(f, PaidTo(x)) + (g[r] - f[r])
      BY <1>4, <1>5, <1>6, <3>1, SumPointChange
    <3>3. reserved'[x] = reserved[x] - amount /\ reserved[x] \in Int /\ f[r] \in Int
      BY <1>1, <1>3, <1>4, <2>2
    <3> QED BY <1>5, <2>1, <3>2, <3>3
  <2>3. CASE x # m
    <3>1. r \notin PaidTo(x)
      BY <1>1, <2>3 DEF PaidTo
    <3>2. SumFunctionOnSet(f, PaidTo(x)) = SumFunctionOnSet(g, PaidTo(x))
      BY <1>5, <1>6, <3>1, SumSame
    <3> QED BY <1>3, <2>1, <2>3, <3>2
  <2> QED BY <2>2, <2>3
<1> QED BY <1>6, <1>7 DEF Accounted, g

\* A payout adds its reserve to both sides.
LEMMA CommitAccounted ==
    ASSUME TypeInv, TypeInv', Accounted, NEW h \in Handlers, CommitCycle(h)
    PROVE  Accounted'
<1> DEFINE m == job[h].recipient
           k == currentCycle
           f == HeldRows
           g == HeldRows'
<1>1. /\ m \in Members /\ k \in Cycles /\ recipient[k] = None
      /\ recipient' = [recipient EXCEPT ![k] = m]
      /\ reserve' = [reserve EXCEPT ![k] = Reserve(k)]
      /\ reserved' = [reserved EXCEPT ![m] = @ + Reserve(k).original]
  BY CommitMoves
<1> HIDE DEF m, k
<1>2. /\ reserve \in [Cycles -> ReserveRow] /\ reserved \in [Members -> Nat]
      /\ recipient \in [Cycles -> Members \union {None}] /\ None \notin Members
  BY GroupCycleAssumption DEF TypeInv, TypeOK
<1>3. /\ \A c \in Cycles: f[c] \in Int
      /\ \A c \in Cycles: g[c] \in Int
  BY DEF TypeInv, TypeOK, ReserveRow, HeldRows, Held
<1>4. /\ \A c \in Cycles \ {k}: g[c] = f[c]
      /\ g[k] = Reserve(k).original /\ Reserve(k).original \in Int
  <2>1. Reserve(k).released = 0 /\ Reserve(k).used = 0 /\ Reserve(k) \in ReserveRow
    BY <1>1, NewRow
  <2>2. Reserve(k).original \in Int
    BY <2>1 DEF ReserveRow
  <2> QED BY <1>1, <1>2, <2>1, <2>2 DEF HeldRows, Held
<1>5. \A x \in Members: /\ PaidTo(x)' = IF x = m THEN PaidTo(x) \union {k} ELSE PaidTo(x)
                        /\ IsFiniteSet(PaidTo(x)) /\ PaidTo(x) \subseteq Cycles
                        /\ k \notin PaidTo(x)
  BY <1>1, <1>2, RowSets DEF PaidTo
<1> HIDE DEF f, g
<1>6. ASSUME NEW x \in Members
      PROVE  reserved'[x] = SumFunctionOnSet(g, PaidTo(x)')
  <2>1. SumFunctionOnSet(f, PaidTo(x)) = SumFunctionOnSet(g, PaidTo(x))
    BY <1>4, <1>5, SumSame
  <2>2. reserved[x] = SumFunctionOnSet(g, PaidTo(x))
    BY <2>1 DEF Accounted, f
  <2>3. CASE x = m
    <3>1. SumFunctionOnSet(g, PaidTo(x) \union {k}) = SumFunctionOnSet(g, PaidTo(x)) + g[k]
      BY <1>3, <1>4, <1>5, SumAdd
    <3> QED BY <1>1, <1>2, <1>4, <1>5, <2>2, <2>3, <3>1
  <2>4. CASE x # m
    BY <1>1, <1>2, <1>5, <2>2, <2>4
  <2> QED BY <2>3, <2>4
<1> QED BY <1>6 DEF Accounted, g

\* When the group is completed the reserved wallets hold exactly what the ACTIVE rows
\* say remains, so that the completion empties them.
LEMMA LastRows ==
    ASSUME TypeInv, Accounted, NEW h \in Handlers, CommitLastCycle(h), NEW x \in Members
    PROVE  /\ \A c \in PaidTo(x): Held(c) = reserve[c].remaining
           /\ reserved[x] = Swept(x)
<1> DEFINE f == HeldRows
           g == [r \in Cycles |-> reserve[r].remaining]
<1>1. reserved[x] >= SumFunctionOnSet(g, ActiveReserves(x))
  BY LastMoves
<1>2. reserved[x] = SumFunctionOnSet(f, PaidTo(x))
  BY DEF Accounted
<1>3. /\ \A c \in PaidTo(x): f[c] \in Int /\ g[c] \in Int /\ f[c] <= g[c]
      /\ \A c \in PaidTo(x): g[c] \in Int
      /\ \A c \in PaidTo(x) \ ActiveReserves(x): g[c] = 0
      /\ ActiveReserves(x) \in SUBSET PaidTo(x)
      /\ IsFiniteSet(PaidTo(x))
  <2>1. \A c \in Cycles: /\ f[c] \in Int /\ f[c] = Held(c) /\ g[c] = reserve[c].remaining
                         /\ reserve[c].remaining \in Nat
                         /\ Held(c) <= reserve[c].remaining
                         /\ reserve[c].status = "ACTIVE" <=> reserve[c].remaining > 0
    BY RowSets DEF TypeInv, Rows
  <2>2. ActiveReserves(x) = {c \in PaidTo(x): reserve[c].status = "ACTIVE"}
    BY DEF ActiveReserves, PaidTo
  <2>3. \A c \in PaidTo(x): c \in Cycles
    BY DEF PaidTo
  <2> HIDE DEF f, g
  <2> QED BY <2>1, <2>2, <2>3, RowSets
<1> HIDE DEF f, g
<1>4. SumFunctionOnSet(g, PaidTo(x)) = SumFunctionOnSet(g, ActiveReserves(x))
  BY <1>3, SumSupport
<1>5. \A c \in PaidTo(x): f[c] = g[c]
  BY <1>1, <1>2, <1>3, <1>4, SumTight
<1>6. \A c \in PaidTo(x): Held(c) = reserve[c].remaining
  BY <1>5 DEF f, g, HeldRows, PaidTo
<1>7. ASSUME ActiveReserves(x) = {} PROVE reserved[x] = 0
  <2>1. \A c \in PaidTo(x): f[c] = 0
    BY <1>3, <1>5, <1>7
  <2> QED BY <1>2, <1>3, <2>1, SumZero
<1> QED BY <1>6, <1>7 DEF Swept, HasActiveReserve

LEMMA LastAccounted ==
    ASSUME TypeInv, TypeInv', Accounted, NEW h \in Handlers, CommitLastCycle(h)
    PROVE  Accounted' /\ \A x \in Members: reserved'[x] = 0
<1>1. /\ N \in Cycles /\ recipient[N] = None
      /\ recipient' = [recipient EXCEPT ![N] = job[h].recipient]
      /\ reserve' = [r \in Cycles |-> CloseReserve(r)]
      /\ reserved' = [x \in Members |-> reserved[x] - Swept(x)]
  BY LastMoves
<1>2. reserved \in [Members -> Nat] /\ recipient \in [Cycles -> Members \union {None}]
  BY DEF TypeInv, TypeOK
<1>3. ASSUME NEW x \in Members
      PROVE  reserved'[x] = 0 /\ SumFunctionOnSet(HeldRows', PaidTo(x)') = 0
  <2>1. reserved'[x] = 0
    BY <1>1, <1>2, LastRows
  <2>2. ASSUME NEW c \in PaidTo(x)' PROVE HeldRows'[c] = 0
    <3>1. c \in Cycles
      BY DEF PaidTo
    <3>2. HeldRows'[c] = Held(c) - reserve[c].remaining
      <4>1. reserve'[c] = CloseReserve(c)
        BY <1>1, <3>1
      <4> QED BY <3>1, <4>1, ClosedFacts DEF HeldRows, Held
    <3>3. Held(c) = reserve[c].remaining /\ reserve[c].remaining \in Nat
      <4>1. reserve[c].remaining \in Nat
        BY <3>1, RowSets
      <4>2. CASE c = N
        <5>1. reserve[c] = NoReserve
          BY <1>1, <3>1, <4>2 DEF TypeInv, Rows
        <5> QED BY <4>1, <5>1 DEF Held, NoReserve
      <4>3. CASE c # N
        <5>1. c \in PaidTo(x)
          BY <1>1, <1>2, <3>1, <4>3 DEF PaidTo
        <5> QED BY <4>1, <5>1, LastRows
      <4> QED BY <4>2, <4>3
    <3> QED BY <3>2, <3>3
  <2>3. IsFiniteSet(PaidTo(x)')
    <3>1. IsFiniteSet(Cycles) /\ PaidTo(x)' \subseteq Cycles
      BY RowSets DEF PaidTo
    <3> QED BY <3>1, FS_Subset
  <2> QED BY <2>1, <2>2, <2>3, SumZero
<1> QED BY <1>3 DEF Accounted

LEMMA AccountedStep ==
    ASSUME TypeInv, TypeInv', Accounted, [Next]_vars
    PROVE  Accounted'
<1>1. CASE UNCHANGED <<recipient, reserve, reserved>>
  BY <1>1 DEF Accounted, HeldRows, Held, PaidTo
<1>2. ASSUME NEW p \in paying, Settle(p) PROVE Accounted'
  <2>1. /\ p.member \in Members /\ UNCHANGED recipient
        /\ UNCHANGED <<reserve, reserved>> \/ Unlocked(p.member)
    BY <1>2, SettleMoves DEF groupVars
  <2>2. CASE Unlocked(p.member)
    <3>1. PICK r \in ActiveReserves(p.member), amount \in Nat:
            reserved' = [reserved EXCEPT ![p.member] = @ - amount] /\ Draws(r, amount)
      BY <2>2 DEF Unlocked
    <3> QED BY <2>1, <3>1, DrawAccounted
  <2> QED BY <1>1, <2>1, <2>2
<1>3. ASSUME NEW h \in Handlers, NEW d \in job[h].todo, ApplyDefault(h, d), UNCHANGED groupVars
      PROVE  Accounted'
  <2> DEFINE m == d.member
             c == job[h].cycle
  <2>1. m \in Members /\ (NoCover(m) \/ CoverTaken(c, m)) /\ UNCHANGED recipient
    BY <1>3, DefaultMoves DEF groupVars
  <2> HIDE DEF m, c
  <2>2. CASE NoCover(m)
    BY <1>1, <2>1, <2>2 DEF NoCover
  <2>3. CASE CoverTaken(c, m)
    <3>1. PICK r \in ActiveReserves(m), amount \in Nat:
            reserved' = [reserved EXCEPT ![m] = @ - amount] /\ Draws(r, amount)
      BY <2>3 DEF CoverTaken
    <3> QED BY <2>1, <3>1, DrawAccounted
  <2> QED BY <2>1, <2>2, <2>3
<1>4. ASSUME NEW h \in Handlers, CommitCycle(h) PROVE Accounted'
  BY <1>4, CommitAccounted
<1>5. ASSUME NEW h \in Handlers, CommitLastCycle(h) PROVE Accounted'
  BY <1>5, LastAccounted
<1>6. \/ UNCHANGED <<recipient, reserve, reserved>>
      \/ \E p \in paying: Settle(p)
      \/ \E h \in Handlers: \E d \in job[h].todo: ApplyDefault(h, d) /\ UNCHANGED groupVars
      \/ \E h \in Handlers: CommitCycle(h)
      \/ \E h \in Handlers: CommitLastCycle(h)
  BY MoneySteps DEF groupVars, moneyVars
<1> QED BY <1>1, <1>2, <1>3, <1>4, <1>5, <1>6

LEMMA AccountedInit == Init => Accounted
<1> SUFFICES ASSUME Init, NEW m \in Members
             PROVE  SumFunctionOnSet(HeldRows, PaidTo(m)) = 0
  BY DEF Init, Accounted
<1>1. PaidTo(m) = {}
  BY GroupCycleAssumption DEF Init, PaidTo
<1> QED BY <1>1, SumEmpty

LEMMA AccountedIs == TypeInv /\ Accounted => ReserveAccounted
  BY DEF TypeInv, Rows, Accounted, ReserveAccounted, HeldRows, Held, PaidTo

\* For any amounts and any order of payments, covers and payouts, a member's reserved
\* wallet holds what the member's ContributionReserve rows say has been neither
\* released nor used (createReserveOnPayoutInTx, tryReleaseOnPaymentSettledInTx,
\* coverDefaultFromReserveInTx, releaseAllActiveReservesOnGroupCompletedInTx).
THEOREM ReservesAccounted == Spec => []ReserveAccounted
<1>1. Init => TypeInv /\ Accounted
  BY TypeInit, AccountedInit
<1>2. TypeInv /\ Accounted /\ [Next]_vars => TypeInv' /\ Accounted'
  BY TypeStep, AccountedStep
<1> QED BY <1>1, <1>2, AccountedIs, PTL DEF Spec

LEMMA UnlockedStep ==
    ASSUME TypeInv, TypeInv', Accounted, NothingLockedAtEnd, [Next]_vars
    PROVE  NothingLockedAtEnd'
<1> SUFFICES ASSUME groupStatus' = "COMPLETED"
             PROVE  /\ \A m \in Members: depositStatus'[m] # "HELD" /\ reserved'[m] = 0
                    /\ \A c \in Cycles: reserve'[c].status # "ACTIVE"
  BY DEF NothingLockedAtEnd
<1>1. ASSUME NEW h \in Handlers, CommitLastCycle(h)
      PROVE  /\ \A m \in Members: depositStatus'[m] # "HELD" /\ reserved'[m] = 0
             /\ \A c \in Cycles: reserve'[c].status # "ACTIVE"
  <2>1. /\ depositStatus' = [x \in Members |->
                IF DepositReleased(x) THEN "RELEASED" ELSE depositStatus[x]]
        /\ reserve' = [r \in Cycles |-> CloseReserve(r)]
    BY <1>1, LastMoves
  <2>2. \A c \in Cycles: reserve'[c].status # "ACTIVE"
    BY <2>1, ClosedFacts
  <2>3. \A m \in Members: depositStatus'[m] # "HELD"
    BY <2>1 DEF DepositReleased, TypeInv, DefaultForfeits
  <2> QED BY <1>1, <2>2, <2>3, LastAccounted
<1>2. ASSUME groupStatus = "COMPLETED"
      PROVE  UNCHANGED <<reserve, reserved>> /\ \A m \in Members: depositStatus'[m] # "HELD"
  <2>1. /\ \A m \in Members: depositStatus[m] # "HELD"
        /\ \A m: ActiveReserves(m) = {}
    BY <1>2 DEF NothingLockedAtEnd, ActiveReserves
  <2>2. ASSUME NEW p \in paying, Settle(p)
        PROVE  UNCHANGED <<reserve, reserved, depositStatus>>
    BY <2>1, <2>2, SettleMoves DEF Unlocked
  <2>3. ASSUME NEW h \in Handlers, NEW d \in job[h].todo, ApplyDefault(h, d)
        PROVE  UNCHANGED <<reserve, reserved, depositStatus>>
    BY <2>1, <2>3, DefaultMoves DEF CoverTaken, NoCover
  <2>4. ASSUME NEW h \in Handlers, CommitCycle(h) \/ CommitLastCycle(h)
        PROVE  FALSE
    BY <1>2, <2>4, CommitFacts DEF TypeInv
  <2> QED BY <2>1, <2>2, <2>3, <2>4, MoneySteps DEF moneyVars
<1>3. groupStatus = "COMPLETED" \/ \E h \in Handlers: CommitLastCycle(h)
  <2>1. ASSUME NEW p \in paying, Settle(p) PROVE UNCHANGED groupStatus
    BY <2>1 DEF Settle, groupVars
  <2>2. ASSUME NEW h \in Handlers, CommitCycle(h) PROVE UNCHANGED groupStatus
    BY <2>2 DEF CommitCycle
  <2> QED BY <2>1, <2>2, MoneySteps DEF groupVars
<1>4. CASE groupStatus = "COMPLETED"
  BY <1>2, <1>4 DEF NothingLockedAtEnd
<1> QED BY <1>1, <1>3, <1>4

\* A completed group of any size leaves no deposit HELD, no reserve ACTIVE and nothing
\* in a reserved wallet (releaseAllHeldDepositsForGroup and the release of the reserves
\* in finalizeCycle), and no late payment or sync locks anything again.
THEOREM NothingLocked == Spec => []NothingLockedAtEnd
<1>1. Init => TypeInv /\ Accounted /\ NothingLockedAtEnd
  <2>1. Init => NothingLockedAtEnd
    BY DEF Init, NothingLockedAtEnd
  <2> QED BY <2>1, TypeInit, AccountedInit
<1>2. TypeInv /\ Accounted /\ NothingLockedAtEnd /\ [Next]_vars
        => TypeInv' /\ Accounted' /\ NothingLockedAtEnd'
  BY TypeStep, AccountedStep, UnlockedStep
<1> QED BY <1>1, <1>2, PTL DEF Spec

-----------------------------------------------------------------------------
(* The sums *)

AllRows(f) == SumFunction([c \in Cycles |-> SumFunction(f[c])])
CycleDays(c) == SumFunction(paidDayCount[c])
DaysPaid == AllRows(paidDayCount)
CycleRepeats(c) == SumFunction(repeats[c])
DaysRepeated == AllRows(repeats)
CoveredBy(S) == SumFunction([v \in S |-> v.covered])

\* The sum of the balances changes by as much as the one that changes.
LEMMA BalanceChange ==
    ASSUME NEW f \in [Members -> Int], NEW m \in Members, NEW b \in Int,
           NEW g, g = [f EXCEPT ![m] = b]
    PROVE  SumFunction(g) = SumFunction(f) + (b - f[m]) /\ SumFunction(f) \in Int
<1>1. IsFiniteSet(Members) /\ DOMAIN f = Members /\ DOMAIN g = Members
  BY GroupCycleAssumption
<1>2. /\ \A x \in Members: f[x] \in Int /\ g[x] \in Int
      /\ \A x \in Members \ {m}: f[x] = g[x]
      /\ g[m] = b
  OBVIOUS
<1>3. SumFunctionOnSet(g, Members) = SumFunctionOnSet(f, Members) + (g[m] - f[m])
  BY <1>1, <1>2, SumPointChange
<1>4. SumFunctionOnSet(f, Members) \in Int
  BY <1>1, <1>2, SumInt
<1> QED BY <1>1, <1>2, <1>3, <1>4 DEF SumFunction

\* Rows of amounts have a sum, and so have all rows together.
LEMMA RowsType ==
    ASSUME NEW f \in [Cycles -> [Members -> Nat]]
    PROVE  /\ \A c \in Cycles: SumFunction(f[c]) \in Nat
           /\ AllRows(f) \in Nat
<1>1. IsFiniteSet(Cycles) /\ IsFiniteSet(Members)
  BY NType, FS_Interval, GroupCycleAssumption DEF Cycles
<1>2. \A c \in Cycles: SumFunction(f[c]) \in Nat
  <2> TAKE c \in Cycles
  <2>1. DOMAIN f[c] = Members /\ \A x \in Members: f[c][x] \in Nat
    OBVIOUS
  <2> QED BY <1>1, <2>1, SumNat DEF SumFunction
<1> DEFINE g == [c \in Cycles |-> SumFunction(f[c])]
<1>3. DOMAIN g = Cycles /\ \A c \in Cycles: g[c] \in Nat
  BY <1>2
<1> HIDE DEF g
<1>4. SumFunction(g) \in Nat
  BY <1>1, <1>3, SumNat DEF SumFunction
<1> QED BY <1>2, <1>4 DEF g, AllRows

LEMMA SumsType ==
    ASSUME TypeOK
    PROVE  /\ IsFiniteSet(Cycles)
           /\ SumFunction(available) \in Int /\ SumFunction(reserved) \in Int
           /\ \A c \in Cycles: CycleDays(c) \in Int /\ CycleRepeats(c) \in Nat
           /\ DaysPaid \in Int /\ DaysRepeated \in Int
<1>1. IsFiniteSet(Cycles) /\ IsFiniteSet(Members)
  BY NType, FS_Interval, GroupCycleAssumption DEF Cycles
<1>2. ASSUME NEW f \in [Members -> Nat] PROVE SumFunction(f) \in Int
  <2>1. DOMAIN f = Members /\ \A x \in Members: f[x] \in Int
    OBVIOUS
  <2> QED BY <1>1, <2>1, SumInt DEF SumFunction
<1>3. SumFunction(available) \in Int /\ SumFunction(reserved) \in Int
  BY <1>2 DEF TypeOK
<1>4. paidDayCount \in [Cycles -> [Members -> Nat]] /\ repeats \in [Cycles -> [Members -> Nat]]
  BY ContributionType DEF TypeOK
<1>5. /\ \A c \in Cycles: CycleDays(c) \in Nat /\ CycleRepeats(c) \in Nat
      /\ DaysPaid \in Nat /\ DaysRepeated \in Nat
  BY <1>4, RowsType DEF CycleDays, CycleRepeats, DaysPaid, DaysRepeated
<1> QED BY <1>1, <1>3, <1>5

\* The row of one member in one cycle grows by n.
RowSum(f, c) == SumFunction(f[c])
RowGrows(f, g, c, m, n) ==
    /\ c \in Cycles /\ m \in Members
    /\ f \in [Cycles -> [Members -> Nat]]
    /\ n \in Int
    /\ g = [f EXCEPT ![c][m] = @ + n]

LEMMA RowChange ==
    ASSUME NEW f, NEW g, NEW c, NEW m, NEW n, RowGrows(f, g, c, m, n)
    PROVE  /\ AllRows(g) = AllRows(f) + n
           /\ RowSum(g, c) = RowSum(f, c) + n
           /\ \A x \in Cycles \ {c}: RowSum(g, x) = RowSum(f, x)
<1> DEFINE sf == [x \in Cycles |-> SumFunction(f[x])]
           sg == [x \in Cycles |-> SumFunction(g[x])]
<1>1. /\ c \in Cycles /\ m \in Members
      /\ f \in [Cycles -> [Members -> Nat]] /\ n \in Int /\ g = [f EXCEPT ![c][m] = @ + n]
  BY DEF RowGrows
<1>2. SumFunction(g[c]) = SumFunction(f[c]) + n
  <2> DEFINE old == f[c]
             new == g[c]
  <2>1. old \in [Members -> Int] /\ new = [old EXCEPT ![m] = old[m] + n]
    BY <1>1
  <2> HIDE DEF old, new
  <2>2. old[m] + n \in Int /\ (old[m] + n) - old[m] = n
    BY <1>1, <2>1
  <2>3. SumFunction(new) = SumFunction(old) + ((old[m] + n) - old[m])
    BY <1>1, <2>1, <2>2, BalanceChange
  <2> QED BY <2>2, <2>3 DEF old, new
<1>3. \A x \in Cycles \ {c}: SumFunction(g[x]) = SumFunction(f[x])
  BY <1>1
<1>4. \A x \in Cycles: SumFunction(f[x]) \in Int
  <2>1. \A x \in Cycles: SumFunction(f[x]) \in Nat
    BY <1>1, RowsType
  <2> QED BY <2>1
<1>5. SumFunction(g[c]) \in Int
  BY <1>1, <1>2, <1>4
<1>6. /\ DOMAIN sf = Cycles /\ DOMAIN sg = Cycles
      /\ \A x \in Cycles: sf[x] \in Int /\ sg[x] \in Int
      /\ \A x \in Cycles \ {c}: sf[x] = sg[x]
      /\ sg[c] = sf[c] + n
  <2>1. \A x \in Cycles: SumFunction(g[x]) \in Int
    BY <1>1, <1>3, <1>4, <1>5
  <2> QED BY <1>1, <1>2, <1>3, <1>4, <2>1
<1> HIDE DEF sf, sg
<1>7. IsFiniteSet(Cycles)
  BY NType, FS_Interval DEF Cycles
<1>8. SumFunctionOnSet(sg, Cycles) = SumFunctionOnSet(sf, Cycles) + (sg[c] - sf[c])
  BY <1>1, <1>6, <1>7, SumPointChange
<1>9. SumFunction(sg) = SumFunction(sf) + n
  BY <1>1, <1>6, <1>8 DEF SumFunction
<1>10. AllRows(f) = SumFunction(sf) /\ AllRows(g) = SumFunction(sg)
  BY DEF AllRows, sf, sg
<1> QED BY <1>2, <1>3, <1>9, <1>10 DEF RowSum

\* One contribution row changes.
LEMMA DaysChange ==
    ASSUME TypeOK, NEW c \in Cycles, NEW m \in Members, NEW k \in Int,
           paidDayCount' = [paidDayCount EXCEPT ![c][m] = k]
    PROVE  LET more == k - paidDayCount[c][m]
           IN  /\ DaysPaid' = DaysPaid + more
               /\ CycleDays(c)' = CycleDays(c) + more
               /\ \A x \in Cycles \ {c}: CycleDays(x)' = CycleDays(x)
<1> DEFINE more == k - paidDayCount[c][m]
<1>1. paidDayCount \in [Cycles -> [Members -> Nat]]
  BY ContributionType DEF TypeOK
<1>2. paidDayCount[c][m] \in Int
  BY <1>1
<1>3. more \in Int /\ paidDayCount[c][m] + more = k
  BY <1>2
<1>4. paidDayCount' = [paidDayCount EXCEPT ![c][m] = @ + more]
  BY <1>1, <1>3
<1> HIDE DEF more
<1>5. RowGrows(paidDayCount, paidDayCount', c, m, more)
  BY <1>1, <1>3, <1>4 DEF RowGrows
<1>6. AllRows(paidDayCount') = AllRows(paidDayCount) + more
  BY <1>5, RowChange
<1>7. RowSum(paidDayCount', c) = RowSum(paidDayCount, c) + more
  BY <1>5, RowChange
<1>8. \A x \in Cycles \ {c}: RowSum(paidDayCount', x) = RowSum(paidDayCount, x)
  BY <1>5, RowChange
<1> QED BY <1>6, <1>7, <1>8, Zenon DEF more, DaysPaid, CycleDays, RowSum

\* A day is credited that no money came for.
LEMMA RepeatsChange ==
    ASSUME TypeOK, NEW c \in Cycles, NEW m \in Members,
           repeats' = [repeats EXCEPT ![c][m] = @ + 1]
    PROVE  /\ DaysRepeated' = DaysRepeated + 1
           /\ SumFunction(repeats'[c]) = SumFunction(repeats[c]) + 1
           /\ \A x \in Cycles \ {c}: SumFunction(repeats'[x]) = SumFunction(repeats[x])
<1> DEFINE one == 1
<1>1. RowGrows(repeats, repeats', c, m, one)
  BY DEF TypeOK, RowGrows
<1> HIDE DEF one
<1>2. AllRows(repeats') = AllRows(repeats) + one
  BY <1>1, RowChange
<1>3. RowSum(repeats', c) = RowSum(repeats, c) + one
  BY <1>1, RowChange
<1>4. \A x \in Cycles \ {c}: RowSum(repeats', x) = RowSum(repeats, x)
  BY <1>1, RowChange
<1> QED BY <1>2, <1>3, <1>4, Zenon DEF one, DaysRepeated, RowSum

\* A cover more.
LEMMA CoverAdded ==
    ASSUME NEW S, IsFiniteSet(S), \A w \in S: w.covered \in Int,
           NEW v, v \notin S, v.covered \in Int
    PROVE  CoveredBy(S \union {v}) = CoveredBy(S) + v.covered /\ CoveredBy(S) \in Int
<1> DEFINE f == [w \in S |-> w.covered]
           g == [w \in S \union {v} |-> w.covered]
<1>1. /\ DOMAIN f = S /\ DOMAIN g = S \union {v}
      /\ \A w \in S: f[w] = g[w] /\ f[w] \in Int /\ g[w] \in Int
      /\ g[v] = v.covered
  OBVIOUS
<1>2. CoveredBy(S) = SumFunctionOnSet(f, S) /\ CoveredBy(S \union {v}) = SumFunctionOnSet(g, S \union {v})
  BY <1>1 DEF CoveredBy, SumFunction
<1> HIDE DEF f, g
<1>3. SumFunctionOnSet(f, S) = SumFunctionOnSet(g, S) /\ SumFunctionOnSet(f, S) \in Int
  BY <1>1, SumSame, SumInt
<1>4. SumFunctionOnSet(g, S \union {v}) = SumFunctionOnSet(g, S) + g[v]
  BY <1>1, SumAdd
<1> QED BY <1>1, <1>2, <1>3, <1>4

LEMMA Distribute ==
    ASSUME NEW a \in Int, NEW x \in Int, NEW y \in Int
    PROVE  a * (x + y) = a * x + a * y /\ a * x \in Int /\ a * y \in Int
OBVIOUS

\* What a cover adds to the recorded days or, if it is a part of what is missed, to the
\* partial covers.
LEMMA CoverSums ==
    ASSUME TypeInv, NEW c \in Cycles, NEW m \in Members, ~Paid(c, m), CoverTaken(c, m)
    PROVE  \E cover \in Nat:
              /\ reserved' = [reserved EXCEPT ![m] = @ - cover]
              /\ UNCHANGED available
              /\ pool' = pool + Forfeit(m) + cover
              /\ CoveredBy(coverages)' = CoveredBy(coverages) + cover
              /\ DailyAmount * DaysPaid' + CoveredBy(PartialCovers)'
                    = DailyAmount * DaysPaid + CoveredBy(PartialCovers) + cover
              /\ \A x \in Cycles: DailyAmount * CycleDays(x)' <= DailyAmount * CycleDays(x) + cover
              /\ \A x \in Cycles \ {c}: CycleDays(x)' = CycleDays(x)
<1>1. PICK r \in ActiveReserves(m), cover \in Nat:
        /\ ~Covered(r, c, m)
        /\ cover <= Missed(c, m) /\ cover <= reserved[m]
        /\ reserved' = [reserved EXCEPT ![m] = @ - cover]
        /\ UNCHANGED available
        /\ pool' = pool + Forfeit(m) + cover
        /\ coverages' = coverages \union {[reserve |-> r, cycle |-> c, member |-> m,
                                           covered |-> cover, missed |-> Missed(c, m)]}
        /\ paidDayCount' = IF cover = Missed(c, m)
                           THEN [paidDayCount EXCEPT ![c][m] = DaysPerCycle] ELSE paidDayCount
        /\ Draws(r, cover)
  BY DEF CoverTaken
<1> DEFINE v == [reserve |-> r, cycle |-> c, member |-> m,
                 covered |-> cover, missed |-> Missed(c, m)]
           k == DaysPerCycle - paidDayCount[c][m]
<1>2. /\ v.reserve = r /\ v.cycle = c /\ v.member = m /\ v.covered = cover /\ v.missed = Missed(c, m)
      /\ coverages' = coverages \union {v}
  BY <1>1
<1> HIDE DEF v
<1>3. v \notin coverages
  BY <1>1, <1>2 DEF Covered
<1>4. k \in Nat /\ DailyAmount \in Nat /\ Missed(c, m) = DailyAmount * k /\ DaysPerCycle \in Int
  BY ContributionType DEF TypeInv, TypeOK, Missed
<1>5. IsFiniteSet(coverages) /\ \A w \in coverages: w.covered \in Int
  BY DEF TypeInv, TypeOK, Covers
<1>6. CoveredBy(coverages)' = CoveredBy(coverages) + cover
  <2>1. CoveredBy(coverages)' = CoveredBy(coverages \union {v})
    BY <1>2 DEF CoveredBy
  <2> QED BY <1>2, <1>3, <1>5, <2>1, CoverAdded
<1>7. /\ DaysPaid \in Int /\ \A x \in Cycles: CycleDays(x) \in Int
      /\ IsFiniteSet(PartialCovers) /\ PartialCovers \subseteq coverages
      /\ \A w \in PartialCovers: w.covered \in Int
  BY <1>5, SumsType, FS_Subset DEF TypeInv, PartialCovers
<1>8. CoveredBy(PartialCovers) \in Int /\ CoveredBy(PartialCovers \union {v}) = CoveredBy(PartialCovers) + cover
  <2>1. v \notin PartialCovers
    BY <1>3, <1>7
  <2> QED BY <1>2, <1>7, <2>1, CoverAdded
<1>9. PartialCovers' = IF cover < Missed(c, m) THEN PartialCovers \union {v} ELSE PartialCovers
  <2>1. PartialCovers' = {w \in coverages': w.covered < w.missed}
    BY DEF PartialCovers
  <2> QED BY <1>2, <2>1 DEF PartialCovers
<1>10. CASE cover = Missed(c, m)
  <2>1. paidDayCount' = [paidDayCount EXCEPT ![c][m] = DaysPerCycle]
    BY <1>1, <1>10
  <2>2. /\ DaysPaid' = DaysPaid + k /\ CycleDays(c)' = CycleDays(c) + k
        /\ \A x \in Cycles \ {c}: CycleDays(x)' = CycleDays(x)
    BY <1>4, <2>1, DaysChange DEF TypeInv
  <2>3. CoveredBy(PartialCovers)' = CoveredBy(PartialCovers)
    <3>1. PartialCovers' = PartialCovers
      BY <1>4, <1>9, <1>10
    <3> QED BY <3>1 DEF CoveredBy
  <2> HIDE DEF k
  <2>4. DailyAmount * (DaysPaid + k) = DailyAmount * DaysPaid + cover /\ DailyAmount * DaysPaid \in Int
    BY <1>4, <1>7, <1>10, Distribute
  <2>5. \A x \in Cycles: DailyAmount * (CycleDays(x) + k) = DailyAmount * CycleDays(x) + cover
                         /\ DailyAmount * CycleDays(x) \in Int
    BY <1>4, <1>7, <1>10, Distribute
  <2>6. DailyAmount * DaysPaid' + CoveredBy(PartialCovers)'
            = DailyAmount * DaysPaid + CoveredBy(PartialCovers) + cover
    BY <1>8, <2>2, <2>3, <2>4
  <2>7. \A x \in Cycles: DailyAmount * CycleDays(x)' <= DailyAmount * CycleDays(x) + cover
    <3> TAKE x \in Cycles
    <3>1. CASE x = c
      BY <2>2, <2>5, <3>1
    <3>2. CASE x # c
      BY <2>2, <2>5, <3>2
    <3> QED BY <3>1, <3>2
  <2> QED BY <1>1, <1>6, <2>2, <2>6, <2>7
<1>11. CASE cover < Missed(c, m)
  <2>1. UNCHANGED paidDayCount
    BY <1>1, <1>4, <1>11
  <2>2. DaysPaid' = DaysPaid /\ \A x \in Cycles: CycleDays(x)' = CycleDays(x)
    BY <2>1 DEF DaysPaid, CycleDays
  <2>3. CoveredBy(PartialCovers)' = CoveredBy(PartialCovers) + cover
    <3>1. PartialCovers' = PartialCovers \union {v}
      BY <1>9, <1>11
    <3> QED BY <1>8, <3>1 DEF CoveredBy
  <2>4. DailyAmount * DaysPaid \in Int /\ \A x \in Cycles: DailyAmount * CycleDays(x) \in Int
    BY <1>4, <1>7, Distribute
  <2>5. DailyAmount * DaysPaid' + CoveredBy(PartialCovers)'
            = DailyAmount * DaysPaid + CoveredBy(PartialCovers) + cover
    BY <1>8, <2>2, <2>3, <2>4
  <2>6. \A x \in Cycles: DailyAmount * CycleDays(x)' <= DailyAmount * CycleDays(x) + cover
    BY <2>2, <2>4
  <2> QED BY <1>1, <1>6, <2>2, <2>5, <2>6
<1>12. cover = Missed(c, m) \/ cover < Missed(c, m)
  <2>1. Missed(c, m) \in Int
    BY <1>4
  <2> QED BY <1>1, <2>1
<1> QED BY <1>10, <1>11, <1>12

-----------------------------------------------------------------------------
(* Deposits and payouts, counted *)

\* A default moves a deposit that is HELD, and no other, to the forfeited ones.
LEMMA ForfeitCount ==
    ASSUME TypeInv, NEW m \in Members,
           depositStatus' = IF depositStatus[m] = "HELD"
                            THEN [depositStatus EXCEPT ![m] = "FORFEITED"] ELSE depositStatus
    PROVE  /\ Contribution * Cardinality(Forfeited') = Contribution * Cardinality(Forfeited) + Forfeit(m)
           /\ Released' = Released
           /\ Contribution * Cardinality(Forfeited) \in Nat /\ Forfeit(m) \in Nat
<1>1. depositStatus \in [Members -> {"HELD", "FORFEITED", "RELEASED"}]
  BY DEF TypeInv, TypeOK
<1>2. IsFiniteSet(Forfeited) /\ Contribution \in Nat
  BY FS_Subset, NetType, GroupCycleAssumption DEF Forfeited
<1>3. Cardinality(Forfeited) \in Nat
  BY <1>2, FS_CardinalityType
<1>4. Contribution * Cardinality(Forfeited) \in Nat /\ Forfeit(m) \in Nat
  BY <1>2, <1>3, ProductType DEF Forfeit
<1>5. CASE depositStatus[m] = "HELD"
  <2>1. Forfeited' = Forfeited \union {m} /\ m \notin Forfeited /\ Released' = Released
    BY <1>1, <1>5 DEF Forfeited, Released
  <2>2. Cardinality(Forfeited') = Cardinality(Forfeited) + 1
    BY <1>2, <2>1, FS_AddElement
  <2>3. Contribution * (Cardinality(Forfeited) + 1) = Contribution * Cardinality(Forfeited) + Contribution
    BY <1>2, <1>3
  <2> QED BY <1>4, <1>5, <2>1, <2>2, <2>3 DEF Forfeit
<1>6. CASE depositStatus[m] # "HELD"
  BY <1>4, <1>6 DEF Forfeit, Forfeited, Released
<1> QED BY <1>5, <1>6

LEMMA PaidOutCount ==
    ASSUME TypeInv, NEW k \in Cycles, NEW m \in Members, recipient[k] = None,
           recipient' = [recipient EXCEPT ![k] = m]
    PROVE  /\ Cardinality(PaidOut) \in Nat
           /\ Cardinality(PaidOut') = Cardinality(PaidOut) + 1
<1>1. IsFiniteSet(PaidOut)
  BY SumsType, FS_Subset DEF TypeInv, PaidOut
<1>2. PaidOut' = PaidOut \union {k} /\ k \notin PaidOut
  BY GroupCycleAssumption DEF TypeInv, TypeOK, PaidOut
<1> QED BY <1>1, <1>2, FS_AddElement, FS_CardinalityType

-----------------------------------------------------------------------------
(* The pool *)

LEMMA CountsType ==
    ASSUME TypeInv
    PROVE  /\ Cardinality(PaidOut) \in Nat /\ Gross * Cardinality(PaidOut) \in Nat
           /\ Net * Cardinality(PaidOut) \in Nat
           /\ Cardinality(Forfeited) \in Nat /\ Contribution * Cardinality(Forfeited) \in Nat
           /\ Cardinality(Released) \in Nat /\ Contribution * Cardinality(Released) \in Nat
           /\ DaysPaid \in Int /\ DailyAmount * DaysPaid \in Int
           /\ DaysRepeated \in Int /\ DailyAmount * DaysRepeated \in Int
           /\ CoveredBy(PartialCovers) \in Int /\ CoveredBy(coverages) \in Int
           /\ pool \in Nat /\ DailyAmount \in Nat
<1>1. IsFiniteSet(PaidOut) /\ IsFiniteSet(Forfeited) /\ IsFiniteSet(Released)
  BY SumsType, FS_Subset, GroupCycleAssumption DEF TypeInv, PaidOut, Forfeited, Released
<1>2. /\ Cardinality(PaidOut) \in Nat /\ Cardinality(Forfeited) \in Nat
      /\ Cardinality(Released) \in Nat
  BY <1>1, FS_CardinalityType
<1>3. DaysPaid \in Int /\ DaysRepeated \in Int /\ DailyAmount \in Nat
  BY SumsType, ContributionType DEF TypeInv
<1>4. ASSUME NEW S \in SUBSET coverages PROVE CoveredBy(S) \in Int
  <2> DEFINE f == [v \in S |-> v.covered]
  <2>1. IsFiniteSet(S) /\ DOMAIN f = S /\ \A v \in S: f[v] \in Int
    BY FS_Subset DEF TypeInv, TypeOK, Covers
  <2> HIDE DEF f
  <2>2. SumFunctionOnSet(f, S) \in Int
    BY <2>1, SumInt
  <2> QED BY <2>1, <2>2 DEF CoveredBy, SumFunction, f
<1>5. CoveredBy(PartialCovers) \in Int /\ CoveredBy(coverages) \in Int
  BY <1>4 DEF PartialCovers
<1>6. DailyAmount * DaysPaid \in Int /\ DailyAmount * DaysRepeated \in Int
  BY <1>3, IntProduct
<1> QED BY <1>2, <1>3, <1>5, <1>6, NetType, ProductType DEF TypeInv, TypeOK

\* PoolMatchesContributions with its amounts named.
OutTotal == Gross * Cardinality(PaidOut)
RepeatTotal == DailyAmount * DaysRepeated
DayTotal == DailyAmount * DaysPaid
PartTotal == CoveredBy(PartialCovers)
ForfeitTotal == Contribution * Cardinality(Forfeited)

PoolTotal == pool + OutTotal + RepeatTotal = DayTotal + PartTotal + ForfeitTotal

LEMMA TotalsType ==
    ASSUME TypeInv
    PROVE  /\ pool \in Nat /\ DailyAmount \in Nat /\ Gross \in Nat
           /\ OutTotal \in Int /\ RepeatTotal \in Int
           /\ DayTotal \in Int /\ PartTotal \in Int /\ ForfeitTotal \in Int
  BY CountsType, NetType DEF OutTotal, RepeatTotal, DayTotal, PartTotal, ForfeitTotal

LEMMA SettlePool ==
    ASSUME TypeInv, PoolTotal, NEW p \in paying, Settle(p)
    PROVE  PoolTotal'
<1>1. /\ p.member \in Members /\ p.cycle \in Cycles /\ p.dayIndex \in 1..DaysPerCycle
      /\ paidDayCount[p.cycle][p.member] = p.dayIndex - 1
      /\ paidDayCount' = [paidDayCount EXCEPT ![p.cycle][p.member] = p.dayIndex]
      /\ \/ pool' = pool + DailyAmount /\ UNCHANGED repeats
         \/ UNCHANGED pool /\ repeats' = [repeats EXCEPT ![p.cycle][p.member] = @ + 1]
      /\ UNCHANGED <<groupVars, depositStatus, coverages>>
  BY SettleMoves
<1>2. DaysPaid' = DaysPaid + 1
  <2>1. p.dayIndex \in Int
    BY <1>1, ContributionType
  <2>2. DaysPaid' = DaysPaid + (p.dayIndex - paidDayCount[p.cycle][p.member])
    BY <1>1, <2>1, DaysChange DEF TypeInv
  <2>3. p.dayIndex - paidDayCount[p.cycle][p.member] = 1
    BY <1>1, <2>1
  <2> QED BY <2>2, <2>3, Zenon
<1>3. OutTotal' = OutTotal /\ PartTotal' = PartTotal /\ ForfeitTotal' = ForfeitTotal
  BY <1>1 DEF groupVars, OutTotal, PartTotal, ForfeitTotal, PaidOut, Forfeited, PartialCovers,
              CoveredBy
<1>4. DayTotal' = DayTotal + DailyAmount
  <2>1. DailyAmount * (DaysPaid + 1) = DailyAmount * DaysPaid + DailyAmount
    BY CountsType
  <2> QED BY <1>2, <2>1 DEF DayTotal
<1>5. CASE pool' = pool + DailyAmount /\ UNCHANGED repeats
  <2>1. RepeatTotal' = RepeatTotal
    BY <1>5 DEF RepeatTotal, DaysRepeated
  <2> QED BY <1>3, <1>4, <1>5, <2>1, TotalsType DEF PoolTotal
<1>6. CASE UNCHANGED pool /\ repeats' = [repeats EXCEPT ![p.cycle][p.member] = @ + 1]
  <2>1. DaysRepeated' = DaysRepeated + 1
    BY <1>1, <1>6, RepeatsChange DEF TypeInv
  <2>2. DailyAmount * (DaysRepeated + 1) = DailyAmount * DaysRepeated + DailyAmount
    BY CountsType
  <2>3. RepeatTotal' = RepeatTotal + DailyAmount
    BY <2>1, <2>2 DEF RepeatTotal
  <2> QED BY <1>3, <1>4, <1>6, <2>3, TotalsType DEF PoolTotal
<1> QED BY <1>1, <1>5, <1>6

LEMMA DefaultPool ==
    ASSUME TypeInv, PoolTotal, NEW h \in Handlers, NEW d \in job[h].todo, ApplyDefault(h, d),
           UNCHANGED groupVars
    PROVE  PoolTotal'
<1> DEFINE m == d.member
           c == job[h].cycle
<1>1. /\ m \in Members /\ c \in Cycles
      /\ depositStatus' = IF depositStatus[m] = "HELD"
                          THEN [depositStatus EXCEPT ![m] = "FORFEITED"] ELSE depositStatus
      /\ NoCover(m) \/ (~Paid(c, m) /\ CoverTaken(c, m))
      /\ UNCHANGED repeats
  BY DefaultMoves
<1> HIDE DEF m, c
<1>2. ForfeitTotal' = ForfeitTotal + Forfeit(m) /\ Forfeit(m) \in Nat
  BY <1>1, ForfeitCount DEF ForfeitTotal
<1>3. OutTotal' = OutTotal /\ RepeatTotal' = RepeatTotal
  BY <1>1 DEF groupVars, OutTotal, PaidOut, RepeatTotal, DaysRepeated
<1>4. CASE NoCover(m)
  <2>1. pool' = pool + Forfeit(m) /\ DayTotal' = DayTotal /\ PartTotal' = PartTotal
    BY <1>4 DEF NoCover, DayTotal, DaysPaid, PartTotal, PartialCovers, CoveredBy
  <2> QED BY <1>2, <1>3, <2>1, TotalsType DEF PoolTotal
<1>5. CASE ~Paid(c, m) /\ CoverTaken(c, m)
  <2>1. PICK cover \in Nat:
          /\ pool' = pool + Forfeit(m) + cover
          /\ DayTotal' + PartTotal' = DayTotal + PartTotal + cover
    BY <1>1, <1>5, CoverSums DEF DayTotal, PartTotal
  <2> QED BY <1>2, <1>3, <2>1, TotalsType DEF PoolTotal
<1> QED BY <1>1, <1>4, <1>5

LEMMA CommitPool ==
    ASSUME TypeInv, PoolTotal, NEW h \in Handlers, CommitCycle(h) \/ CommitLastCycle(h)
    PROVE  PoolTotal'
<1>1. /\ job[h].recipient \in Members /\ pool' = pool - Gross /\ currentCycle \in Cycles
      /\ recipient[currentCycle] = None
      /\ recipient' = [recipient EXCEPT ![currentCycle] = job[h].recipient]
      /\ UNCHANGED <<paidDayCount, repeats, coverages>> /\ Forfeited' = Forfeited
  <2>1. CASE CommitCycle(h)
    BY <2>1, CommitMoves DEF Forfeited
  <2>2. CASE CommitLastCycle(h)
    <3>1. Forfeited' = Forfeited
      BY <2>2, LastMoves DEF Forfeited, DepositReleased
    <3> QED BY <2>2, <3>1, LastMoves
  <2> QED BY <2>1, <2>2
<1>2. OutTotal' = OutTotal + Gross
  <2>1. Cardinality(PaidOut) \in Nat /\ Cardinality(PaidOut') = Cardinality(PaidOut) + 1
    BY <1>1, PaidOutCount
  <2>2. Gross * (Cardinality(PaidOut) + 1) = Gross * Cardinality(PaidOut) + Gross
    BY <2>1, NetType
  <2> QED BY <2>1, <2>2 DEF OutTotal
<1>3. /\ DayTotal' = DayTotal /\ RepeatTotal' = RepeatTotal /\ PartTotal' = PartTotal
      /\ ForfeitTotal' = ForfeitTotal
  BY <1>1 DEF DayTotal, DaysPaid, RepeatTotal, DaysRepeated, PartTotal, PartialCovers, CoveredBy,
              ForfeitTotal
<1> QED BY <1>1, <1>2, <1>3, TotalsType DEF PoolTotal

LEMMA PoolStep ==
    ASSUME TypeInv, PoolTotal, [Next]_vars
    PROVE  PoolTotal'
<1>1. CASE UNCHANGED <<groupVars, paidDayCount, depositStatus, reserve, coverages, moneyVars>>
  BY <1>1 DEF PoolTotal, OutTotal, RepeatTotal, DayTotal, PartTotal, ForfeitTotal, DaysPaid,
              DaysRepeated, PartialCovers, CoveredBy, PaidOut, Forfeited, groupVars, moneyVars
<1> QED BY <1>1, MoneySteps, SettlePool, DefaultPool, CommitPool

LEMMA PoolInit == Init => PoolTotal
<1> SUFFICES ASSUME Init PROVE PoolTotal
  OBVIOUS
<1>1. PaidOut = {} /\ Forfeited = {} /\ PartialCovers = {}
  BY DEF Init, PaidOut, Forfeited, PartialCovers
<1>2. CoveredBy({}) = 0
  BY SumEmpty DEF CoveredBy, SumFunction
<1>3. DaysPaid = 0 /\ DaysRepeated = 0
  <2> DEFINE f == [c \in Cycles |-> SumFunction(paidDayCount[c])]
  <2>1. \A c \in Cycles: SumFunction(paidDayCount[c]) = 0
    <3> TAKE c \in Cycles
    <3>1. DOMAIN paidDayCount[c] = Members /\ \A m \in Members: paidDayCount[c][m] = 0
      BY DEF Init
    <3> QED BY <3>1, SumZero, GroupCycleAssumption DEF SumFunction
  <2>2. DOMAIN f = Cycles /\ \A c \in Cycles: f[c] = 0
    BY <2>1
  <2>3. paidDayCount = repeats
    BY DEF Init
  <2> HIDE DEF f
  <2>4. SumFunctionOnSet(f, Cycles) = 0
    BY <2>2, SumZero, SumsType, TypeInit DEF TypeInv
  <2> QED BY <2>2, <2>3, <2>4 DEF DaysPaid, DaysRepeated, AllRows, SumFunction, f
<1>4. Cardinality({}) = 0
  BY FS_EmptySet
<1>5. pool = 0 /\ Gross * 0 = 0 /\ Contribution * 0 = 0 /\ DailyAmount * 0 = 0
  BY NetType, ContributionType DEF Init
<1> QED BY <1>1, <1>2, <1>3, <1>4, <1>5
        DEF PoolTotal, OutTotal, RepeatTotal, DayTotal, PartTotal, ForfeitTotal

LEMMA PoolTotalIs == PoolTotal => PoolMatchesContributions
  BY DEF PoolTotal, PoolMatchesContributions, OutTotal, RepeatTotal, DayTotal, PartTotal,
         ForfeitTotal, DaysPaid, DaysRepeated, AllRows, CoveredBy, PaidOut

\* For any amounts and any interleaving the pool holds what the Contribution rows, the
\* partial covers and the forfeited deposits say was paid into it, less the payouts
\* (recordContributionSettlement, coverDefaultFromReserveInTx,
\* forfeitDepositForDefaulted and allocateCycleFinalizationInTx).
THEOREM PoolMatches == Spec => []PoolMatchesContributions
<1>1. Init => TypeInv /\ PoolTotal
  BY TypeInit, PoolInit
<1>2. TypeInv /\ PoolTotal /\ [Next]_vars => TypeInv' /\ PoolTotal'
  BY TypeStep, PoolStep
<1> QED BY <1>1, <1>2, PoolTotalIs, PTL DEF Spec

-----------------------------------------------------------------------------
(* The wallets *)

LEMMA SettleWallets ==
    ASSUME TypeInv, Wallets, NEW p \in paying, Settle(p)
    PROVE  Wallets'
<1> DEFINE m == p.member
<1>1. /\ m \in Members /\ UNCHANGED <<groupVars, depositStatus, coverages>>
      /\ UNCHANGED <<available, reserved>> \/ Unlocked(m)
  BY SettleMoves
<1> HIDE DEF m
<1>2. PaidOut' = PaidOut /\ Released' = Released /\ UNCHANGED coverages
  BY <1>1 DEF PaidOut, Released, groupVars
<1>3. SumFunction(available)' + SumFunction(reserved)' = SumFunction(available) + SumFunction(reserved)
  <2>1. CASE Unlocked(m)
    <3>1. PICK amount \in Nat: /\ reserved' = [reserved EXCEPT ![m] = @ - amount]
                               /\ available' = [available EXCEPT ![m] = @ + amount]
      BY <2>1 DEF Unlocked
    <3>2. available \in [Members -> Int] /\ reserved \in [Members -> Int]
      BY DEF TypeInv, TypeOK
    <3>3. available[m] + amount \in Int /\ reserved[m] - amount \in Int
          /\ available[m] \in Int /\ reserved[m] \in Int
      BY <1>1, <3>2
    <3>4. /\ SumFunction(available') = SumFunction(available) + ((available[m] + amount) - available[m])
          /\ SumFunction(available) \in Int
      BY <1>1, <3>1, <3>2, <3>3, BalanceChange
    <3>5. /\ SumFunction(reserved') = SumFunction(reserved) + ((reserved[m] - amount) - reserved[m])
          /\ SumFunction(reserved) \in Int
      BY <1>1, <3>1, <3>2, <3>3, BalanceChange
    <3> QED BY <3>3, <3>4, <3>5
  <2> QED BY <1>1, <2>1
<1> QED BY <1>2, <1>3 DEF Wallets

LEMMA DefaultWallets ==
    ASSUME TypeInv, Wallets, NEW h \in Handlers, NEW d \in job[h].todo, ApplyDefault(h, d),
           UNCHANGED groupVars
    PROVE  Wallets'
<1> DEFINE m == d.member
           c == job[h].cycle
<1>1. /\ m \in Members /\ c \in Cycles
      /\ depositStatus' = IF depositStatus[m] = "HELD"
                          THEN [depositStatus EXCEPT ![m] = "FORFEITED"] ELSE depositStatus
      /\ NoCover(m) \/ (~Paid(c, m) /\ CoverTaken(c, m))
  BY DefaultMoves
<1> HIDE DEF m, c
<1>2. Released' = Released /\ PaidOut' = PaidOut
  BY <1>1, ForfeitCount DEF groupVars, PaidOut
<1>3. CASE NoCover(m)
  BY <1>2, <1>3 DEF NoCover, Wallets
<1>4. CASE ~Paid(c, m) /\ CoverTaken(c, m)
  <2>1. PICK cover \in Nat:
          /\ reserved' = [reserved EXCEPT ![m] = @ - cover]
          /\ UNCHANGED available
          /\ CoveredBy(coverages)' = CoveredBy(coverages) + cover
    BY <1>1, <1>4, CoverSums
  <2>2. reserved \in [Members -> Int] /\ reserved[m] \in Int /\ reserved[m] - cover \in Int
    BY <1>1 DEF TypeInv, TypeOK
  <2>3. SumFunction(reserved') = SumFunction(reserved) + ((reserved[m] - cover) - reserved[m])
    BY <1>1, <2>1, <2>2, BalanceChange
  <2>4. SumFunction(reserved) \in Int /\ SumFunction(available) \in Int /\ CoveredBy(coverages) \in Int
    BY SumsType, CountsType DEF TypeInv
  <2>5. SumFunction(reserved)' + CoveredBy(coverages)' = SumFunction(reserved) + CoveredBy(coverages)
    BY <2>1, <2>2, <2>3, <2>4
  <2>6. SumFunction(reserved)' = SumFunction(reserved) - cover
    BY <2>2, <2>3, <2>4
  <2>7. SumFunction(available) + SumFunction(reserved) + CoveredBy(coverages)
          = Net * Cardinality(PaidOut) + Contribution * Cardinality(Released)
    BY DEF Wallets, CoveredBy
  <2>8. SumFunction(available)' + SumFunction(reserved)' + CoveredBy(coverages)'
          = Net * Cardinality(PaidOut') + Contribution * Cardinality(Released')
    BY <1>2, <2>1, <2>4, <2>6, <2>7
  <2> QED BY <2>8 DEF Wallets, CoveredBy
<1> QED BY <1>1, <1>3, <1>4

LEMMA CommitWallets ==
    ASSUME TypeInv, Wallets, NEW h \in Handlers, CommitCycle(h)
    PROVE  Wallets'
<1> DEFINE m == job[h].recipient
           k == currentCycle
           held == Reserve(k).original
<1>1. /\ m \in Members /\ k \in Cycles /\ recipient[k] = None
      /\ recipient' = [recipient EXCEPT ![k] = m]
      /\ available' = [available EXCEPT ![m] = @ + Net - held]
      /\ reserved' = [reserved EXCEPT ![m] = @ + held]
      /\ UNCHANGED <<depositStatus, coverages>>
  BY CommitMoves
<1>2. held \in Int /\ Net \in Int
  BY <1>1, NewRow, NetType DEF ReserveRow
<1> HIDE DEF m, k, held
<1>3. Cardinality(PaidOut) \in Nat /\ Cardinality(PaidOut') = Cardinality(PaidOut) + 1
  BY <1>1, PaidOutCount
<1>4. Net * (Cardinality(PaidOut) + 1) = Net * Cardinality(PaidOut) + Net
  BY <1>2, <1>3
<1>5. available \in [Members -> Int] /\ reserved \in [Members -> Int]
  BY DEF TypeInv, TypeOK
<1>6. available[m] \in Int /\ reserved[m] \in Int
  BY <1>1, <1>5
<1>7. available[m] + Net - held \in Int /\ reserved[m] + held \in Int
  BY <1>2, <1>6
<1>8. /\ SumFunction(available') = SumFunction(available) + ((available[m] + Net - held) - available[m])
      /\ SumFunction(available) \in Int
  BY <1>1, <1>5, <1>7, BalanceChange
<1>9. /\ SumFunction(reserved') = SumFunction(reserved) + ((reserved[m] + held) - reserved[m])
      /\ SumFunction(reserved) \in Int
  BY <1>1, <1>5, <1>7, BalanceChange
<1>10. SumFunction(available') + SumFunction(reserved')
          = SumFunction(available) + SumFunction(reserved) + Net
  BY <1>2, <1>6, <1>8, <1>9
<1>11. Released' = Released /\ CoveredBy(coverages)' = CoveredBy(coverages)
  BY <1>1 DEF Released, CoveredBy
<1>12. SumFunction(available) + SumFunction(reserved) + CoveredBy(coverages)
          = Net * Cardinality(PaidOut) + Contribution * Cardinality(Released)
  BY DEF Wallets, CoveredBy
<1>13. SumFunction(available') + SumFunction(reserved') + CoveredBy(coverages)'
          = Net * Cardinality(PaidOut') + Contribution * Cardinality(Released')
  BY <1>2, <1>3, <1>4, <1>8, <1>9, <1>10, <1>11, <1>12, CountsType
<1> QED BY <1>13 DEF Wallets, CoveredBy

\* The completion gives back the deposits that are HELD, and no other.
LEMMA ReleaseCount ==
    ASSUME TypeInv, NEW h \in Handlers, CommitLastCycle(h)
    PROVE  /\ Released = {}
           /\ Released' = {x \in Members: DepositReleased(x)}
<1>1. groupStatus = "ACTIVE" /\ depositStatus' = [x \in Members |->
          IF DepositReleased(x) THEN "RELEASED" ELSE depositStatus[x]]
  BY LastMoves
<1>2. Released = {}
  BY <1>1 DEF Released, TypeInv, DefaultForfeits
<1> QED BY <1>1, <1>2 DEF Released

LEMMA LastWallets ==
    ASSUME TypeInv, Wallets, NEW h \in Handlers, CommitLastCycle(h)
    PROVE  Wallets'
<1> DEFINE m == job[h].recipient
           back == {x \in Members: DepositReleased(x)}
           net == [x \in Members |-> IF x \in {m} THEN Net ELSE 0]
           deposit == [x \in Members |-> IF x \in back THEN Contribution ELSE 0]
           old == [x \in Members |-> available[x] + reserved[x]]
           more == [x \in Members |-> old[x] + net[x]]
           new == [x \in Members |-> more[x] + deposit[x]]
           Sum(f) == SumFunctionOnSet(f, Members)
<1>1. /\ m \in Members /\ N \in Cycles /\ recipient[N] = None
      /\ recipient' = [recipient EXCEPT ![N] = m]
      /\ reserved' = [x \in Members |-> reserved[x] - Swept(x)]
      /\ available' = [x \in Members |->
                available[x] + Swept(x) + (IF x = m THEN Net ELSE 0)
                             + (IF DepositReleased(x) THEN Contribution ELSE 0)]
      /\ UNCHANGED coverages
  BY LastMoves
<1>2. Released = {} /\ Released' = back
  BY ReleaseCount
<1>3. IsFiniteSet(Members) /\ Net \in Int /\ Contribution \in Int
  BY NetType, GroupCycleAssumption
<1>4. \A x \in Members: /\ available[x] \in Int /\ reserved[x] \in Int /\ Swept(x) \in Int
                        /\ net[x] = (IF x \in {m} THEN Net ELSE 0)
                        /\ deposit[x] = (IF x \in back THEN Contribution ELSE 0)
                        /\ net[x] \in Int /\ deposit[x] \in Int
  BY <1>3 DEF TypeInv, TypeOK, Swept
<1>5. \A x \in Members: /\ available'[x] = available[x] + Swept(x) + net[x] + deposit[x]
                        /\ reserved'[x] = reserved[x] - Swept(x)
  BY <1>1
<1>6. {m} \in SUBSET Members /\ back \in SUBSET Members
  BY <1>1
<1> HIDE DEF m, net, deposit, back
<1>7. Sum(net) = Net * Cardinality({m}) /\ Sum(deposit) = Contribution * Cardinality(back)
  <2>1. Sum(net) = Net * Cardinality({m})
    <3>1. \A x \in Members: net[x] = IF x \in {m} THEN Net ELSE 0
      BY <1>4
    <3> QED BY ONLY <1>3, <1>6, <3>1, SumCount
  <2>2. Sum(deposit) = Contribution * Cardinality(back)
    <3>1. \A x \in Members: deposit[x] = IF x \in back THEN Contribution ELSE 0
      BY <1>4
    <3> QED BY ONLY <1>3, <1>6, <3>1, SumCount
  <2> QED BY <2>1, <2>2
<1>8. Cardinality({m}) = 1
  BY FS_Singleton
<1>9. \A x \in Members: /\ old[x] = available[x] + reserved[x] /\ old[x] \in Int
                        /\ more[x] = old[x] + net[x] /\ more[x] \in Int
                        /\ new[x] = more[x] + deposit[x] /\ new[x] \in Int
                        /\ new[x] = available'[x] + reserved'[x]
                        /\ available'[x] \in Int /\ reserved'[x] \in Int
  BY <1>4, <1>5
<1> HIDE DEF old, more, new
<1>10. /\ Sum(old) = Sum(available) + Sum(reserved)
       /\ Sum(more) = Sum(old) + Sum(net)
       /\ Sum(new) = Sum(more) + Sum(deposit)
       /\ Sum(new) = Sum(available') + Sum(reserved')
  <2>1. Sum(old) = Sum(available) + Sum(reserved)
    BY <1>3, <1>4, <1>9, SumPlus
  <2>2. Sum(more) = Sum(old) + Sum(net)
    BY <1>3, <1>4, <1>9, SumPlus
  <2>3. Sum(new) = Sum(more) + Sum(deposit)
    BY <1>3, <1>4, <1>9, SumPlus
  <2>4. Sum(new) = Sum(available') + Sum(reserved')
    BY <1>3, <1>9, SumPlus
  <2> QED BY <2>1, <2>2, <2>3, <2>4
<1>11. /\ SumFunction(available) = Sum(available) /\ SumFunction(reserved) = Sum(reserved)
       /\ SumFunction(available') = Sum(available') /\ SumFunction(reserved') = Sum(reserved')
  <2>1. /\ DOMAIN available = Members /\ DOMAIN reserved = Members
        /\ DOMAIN available' = Members /\ DOMAIN reserved' = Members
    BY <1>1 DEF TypeInv, TypeOK
  <2> QED BY <2>1 DEF SumFunction
<1>12. Sum(available) \in Int /\ Sum(reserved) \in Int
  BY <1>11, SumsType DEF TypeInv
<1>13. Cardinality(PaidOut) \in Nat /\ Cardinality(PaidOut') = Cardinality(PaidOut) + 1
  BY <1>1, PaidOutCount
<1>14. Cardinality(Released) = 0 /\ Cardinality(back) \in Nat
  BY <1>2, <1>3, <1>6, FS_EmptySet, FS_Subset, FS_CardinalityType
<1> HIDE DEF Sum
<1>15. SumFunction(available') + SumFunction(reserved')
          = SumFunction(available) + SumFunction(reserved) + Net + Contribution * Cardinality(back)
  <2>1. Contribution * Cardinality(back) \in Int /\ Net * 1 = Net
    BY <1>3, <1>14, IntProduct
  <2> QED BY <1>3, <1>7, <1>8, <1>10, <1>11, <1>12, <2>1
<1>16. CoveredBy(coverages)' = CoveredBy(coverages)
  BY <1>1 DEF CoveredBy
<1>17. SumFunction(available) + SumFunction(reserved) + CoveredBy(coverages)
          = Net * Cardinality(PaidOut) + Contribution * Cardinality(Released)
  BY DEF Wallets, CoveredBy
<1>18. Net * (Cardinality(PaidOut) + 1) = Net * Cardinality(PaidOut) + Net /\ Contribution * 0 = 0
  BY <1>3, <1>13
<1>19. SumFunction(available') + SumFunction(reserved') + CoveredBy(coverages)'
          = Net * Cardinality(PaidOut') + Contribution * Cardinality(Released')
  <2>1. Contribution * Cardinality(back) \in Int /\ Net * Cardinality(PaidOut) \in Int
        /\ CoveredBy(coverages) \in Int
    BY <1>3, <1>13, <1>14, IntProduct, CountsType
  <2> QED BY <1>2, <1>3, <1>11, <1>12, <1>13, <1>14, <1>15, <1>16, <1>17, <1>18, <2>1
<1> QED BY <1>19 DEF Wallets, CoveredBy

LEMMA WalletsStep ==
    ASSUME TypeInv, Wallets, [Next]_vars
    PROVE  Wallets'
<1>1. CASE UNCHANGED <<groupVars, paidDayCount, depositStatus, reserve, coverages, moneyVars>>
  BY <1>1 DEF Wallets, PaidOut, Released, groupVars, moneyVars
<1> QED BY <1>1, MoneySteps, SettleWallets, DefaultWallets, CommitWallets, LastWallets

LEMMA WalletsInit == Init => Wallets
<1> SUFFICES ASSUME Init PROVE Wallets
  OBVIOUS
<1>1. PaidOut = {} /\ Released = {} /\ Cardinality({}) = 0
  BY FS_EmptySet DEF Init, PaidOut, Released
<1>2. SumFunction([v \in coverages |-> v.covered]) = 0
  BY SumEmpty DEF Init, SumFunction
<1>3. SumFunction(available) = 0 /\ SumFunction(reserved) = 0
  <2>1. ASSUME NEW f, f = [m \in Members |-> 0] PROVE SumFunction(f) = 0
    BY <2>1, SumZero, GroupCycleAssumption DEF SumFunction
  <2> QED BY <2>1 DEF Init
<1>4. Net * 0 = 0 /\ Contribution * 0 = 0
  BY NetType
<1> QED BY <1>1, <1>2, <1>3, <1>4 DEF Wallets

\* Every cover is of all that is missed or of a part of it.
LEMMA CoversSplit ==
    ASSUME TypeInv
    PROVE  CoveredBy(coverages) = CoveredBy(PartialCovers) + CoveredBy(FullCovers)
           /\ CoveredBy(FullCovers) \in Int
<1> DEFINE all == [v \in coverages |-> v.covered]
           part == [v \in coverages |-> IF v \in PartialCovers THEN v.covered ELSE 0]
           full == [v \in coverages |-> IF v \in FullCovers THEN v.covered ELSE 0]
           Sum(f, S) == SumFunctionOnSet(f, S)
<1>1. IsFiniteSet(coverages) /\ PartialCovers \in SUBSET coverages /\ FullCovers \in SUBSET coverages
  BY DEF TypeInv, Covers, PartialCovers, FullCovers
<1>2. \A v \in coverages: /\ v.covered \in Int /\ v.missed \in Int
                          /\ v \in PartialCovers <=> ~(v \in FullCovers)
  <2> TAKE v \in coverages
  <2>1. v.covered \in Int /\ v.missed \in Int /\ v.covered <= v.missed
    BY DEF TypeInv, TypeOK, Covers
  <2>2. (v \in PartialCovers <=> v.covered < v.missed) /\ (v \in FullCovers <=> v.covered = v.missed)
    BY DEF PartialCovers, FullCovers
  <2> QED BY <2>1, <2>2
<1>3. /\ \A v \in coverages: /\ all[v] \in Int /\ part[v] \in Int /\ full[v] \in Int
                             /\ all[v] = part[v] + full[v]
      /\ \A v \in coverages \ PartialCovers: part[v] = 0
      /\ \A v \in coverages \ FullCovers: full[v] = 0
      /\ \A v \in PartialCovers: part[v] = v.covered
      /\ \A v \in FullCovers: full[v] = v.covered
  BY <1>1, <1>2
<1>4. ASSUME NEW S \in SUBSET coverages, NEW f, \A v \in S: f[v] = v.covered
      PROVE  CoveredBy(S) = Sum(f, S) /\ CoveredBy(S) \in Int
  <2> DEFINE g == [v \in S |-> v.covered]
  <2>1. DOMAIN g = S /\ IsFiniteSet(S) /\ \A v \in S: g[v] = f[v] /\ g[v] \in Int
    BY <1>1, <1>2, <1>4, FS_Subset
  <2> HIDE DEF g
  <2>2. Sum(g, S) = Sum(f, S) /\ Sum(g, S) \in Int
    BY <2>1, SumSame, SumInt
  <2> QED BY <2>1, <2>2 DEF CoveredBy, SumFunction, g
<1>5. CoveredBy(coverages) = Sum(all, coverages)
  BY <1>4
<1> HIDE DEF all, part, full
<1>6. Sum(all, coverages) = Sum(part, coverages) + Sum(full, coverages)
  BY <1>1, <1>3, SumPlus
<1>7. Sum(part, coverages) = Sum(part, PartialCovers) /\ Sum(full, coverages) = Sum(full, FullCovers)
  BY <1>1, <1>3, SumSupport
<1>8. /\ Sum(part, PartialCovers) = CoveredBy(PartialCovers)
      /\ Sum(full, FullCovers) = CoveredBy(FullCovers) /\ CoveredBy(FullCovers) \in Int
  BY <1>1, <1>3, <1>4
<1> QED BY <1>5, <1>6, <1>7, <1>8

\* Every deposit is in escrow, forfeited or given back.
LEMMA DepositsSplit ==
    ASSUME TypeInv
    PROVE  LET held == {m \in Members: depositStatus[m] = "HELD"}
           IN  /\ Cardinality(held) \in Nat
               /\ Cardinality(held) + Cardinality(Forfeited) + Cardinality(Released) = N
<1> DEFINE held == {m \in Members: depositStatus[m] = "HELD"}
<1>1. IsFiniteSet(held) /\ IsFiniteSet(Forfeited) /\ IsFiniteSet(Released)
  BY FS_Subset, GroupCycleAssumption DEF Forfeited, Released
<1>2. /\ held \cap Forfeited = {} /\ (held \union Forfeited) \cap Released = {}
      /\ (held \union Forfeited) \union Released = Members
  BY DEF TypeInv, TypeOK, Forfeited, Released
<1> HIDE DEF held
<1>3. /\ IsFiniteSet(held \union Forfeited)
      /\ Cardinality(held \union Forfeited) = Cardinality(held) + Cardinality(Forfeited) - Cardinality({})
  BY <1>1, <1>2, FS_Union
<1>4. Cardinality(Members)
        = Cardinality(held \union Forfeited) + Cardinality(Released) - Cardinality({})
  BY <1>1, <1>2, <1>3, FS_Union
<1>5. /\ Cardinality(held) \in Nat /\ Cardinality(Forfeited) \in Nat
      /\ Cardinality(Released) \in Nat /\ Cardinality({}) = 0
  BY <1>1, FS_CardinalityType, FS_EmptySet
<1>6. Cardinality(held) + Cardinality(Forfeited) + Cardinality(Released) = Cardinality(Members)
  BY <1>3, <1>4, <1>5
<1> QED BY <1>5, <1>6 DEF held, N

LEMMA MoneyTotal ==
    ASSUME TypeInv, PoolTotal, Wallets
    PROVE  MoneyConserved
<1> DEFINE held == Cardinality({m \in Members: depositStatus[m] = "HELD"})
           forfeited == Cardinality(Forfeited)
           released == Cardinality(Released)
           paidOut == Cardinality(PaidOut)
           margin == ServiceMargin(Gross, ServiceMarginBps)
           wallets == SumFunction(available) + SumFunction(reserved)
           days == DailyAmount * DaysPaid
           repeated == DailyAmount * DaysRepeated
           part == CoveredBy(PartialCovers)
           full == CoveredBy(FullCovers)
<1>1. held \in Nat /\ held + forfeited + released = N
  BY DepositsSplit
<1>2. /\ forfeited \in Nat /\ released \in Nat /\ paidOut \in Nat /\ pool \in Nat
      /\ days \in Int /\ repeated \in Int /\ part \in Int /\ full \in Int /\ wallets \in Int
  <2>1. SumFunction(available) \in Int /\ SumFunction(reserved) \in Int
    BY SumsType DEF TypeInv
  <2>2. wallets \in Int
    BY <2>1
  <2> QED BY <2>2, CountsType, CoversSplit
<1>3. CoveredBy(coverages) = part + full
  BY CoversSplit
<1>4. margin \in Int /\ Gross \in Int /\ Contribution \in Int /\ Net = Gross - margin
  <2>1. margin \in Int
    <3>1. Gross * ServiceMarginBps \in Int /\ BpsDenominator \in Nat \ {0}
      BY NetType, IntProduct, GroupCycleAssumption DEF BpsDenominator
    <3> QED BY <3>1, QuotientType DEF ServiceMargin
  <2> QED BY <2>1, NetType DEF Net
<1>5. wallets + CoveredBy(coverages) = Net * paidOut + Contribution * released
  BY DEF Wallets, CoveredBy
<1>6. pool + Gross * paidOut + repeated = days + part + Contribution * forfeited
  BY DEF PoolTotal, OutTotal, RepeatTotal, DayTotal, PartTotal, ForfeitTotal
<1>7. MoneyConserved <=>
        wallets + Contribution * held + margin * paidOut + pool
            = Contribution * N + days - repeated - full
  BY DEF MoneyConserved, WalletLiabilities, MemberLiabilities, DepositEscrow, RevenueBalance,
         PaidIn, PaidOut, DaysPaid, DaysRepeated, AllRows, CoveredBy
<1> HIDE DEF held, forfeited, released, paidOut, margin, wallets, days, repeated, part, full
<1>8. /\ Contribution * N = Contribution * held + Contribution * forfeited + Contribution * released
      /\ Net * paidOut = Gross * paidOut - margin * paidOut
      /\ Contribution * held \in Int /\ Contribution * forfeited \in Int
      /\ Contribution * released \in Int /\ Gross * paidOut \in Int /\ margin * paidOut \in Int
  <2>1. ASSUME NEW a \in Int, NEW x \in Int, NEW y \in Int, NEW z \in Int
        PROVE  a * (x + y + z) = a * x + a * y + a * z
    OBVIOUS
  <2>2. ASSUME NEW a \in Int, NEW x \in Int, NEW y \in Int
        PROVE  (x - y) * a = x * a - y * a
    OBVIOUS
  <2>3. Contribution * N = Contribution * held + Contribution * forfeited + Contribution * released
    BY <1>1, <1>2, <1>4, <2>1
  <2>4. Net * paidOut = Gross * paidOut - margin * paidOut
    BY <1>2, <1>4, <2>2
  <2> QED BY <1>1, <1>2, <1>4, <2>3, <2>4, IntProduct
<1> QED BY <1>2, <1>3, <1>5, <1>6, <1>7, <1>8

\* For any number of members and any amounts the operator's wallet totals are what the
\* rows say the members have paid in, to the unit, in every state that payments,
\* releases, covers, defaults and payouts can reach (getWalletSummary).
THEOREM MoneyIsConserved == Spec => []MoneyConserved
<1>1. Init => TypeInv /\ PoolTotal /\ Wallets
  BY TypeInit, PoolInit, WalletsInit
<1>2. TypeInv /\ PoolTotal /\ Wallets /\ [Next]_vars => TypeInv' /\ PoolTotal' /\ Wallets'
  BY TypeStep, PoolStep, WalletsStep
<1>3. TypeInv /\ PoolTotal /\ Wallets => MoneyConserved
  BY MoneyTotal
<1> QED BY <1>1, <1>2, <1>3, PTL DEF Spec

-----------------------------------------------------------------------------
(* The payout screen *)

LEMMA NotAheadStep ==
    ASSUME TypeInv, NotAhead, [Next]_vars
    PROVE  NotAhead'
<1>1. currentCycle' >= currentCycle /\ currentCycle \in Int /\ currentCycle' \in Int
  BY CycleGrows, NType DEF TypeInv, TypeOK, Cycles
<1>2. ASSUME NEW p \in paying' PROVE p.cycle <= currentCycle'
  <2>1. p \in paying \/ p.cycle = currentCycle
    <3>1. ASSUME NEW m \in Members, CheckPayment(m) PROVE p \in paying \/ p.cycle = currentCycle
      BY <3>1 DEF CheckPayment
    <3>2. paying' \subseteq paying \/ \E m \in Members: CheckPayment(m)
      BY DEF Next, Work, vars, NextDay, Settle, DropPayment, BeginSync, Apply,
             Stop, FinalizeRead, CommitCycle, CommitLastCycle
    <3> QED BY <3>1, <3>2
  <2>2. CASE p \in paying
    <3>1. p.cycle \in Int /\ p.cycle <= currentCycle
      BY <2>2, NType DEF NotAhead, TypeInv, TypeOK, Cycles
    <3> QED BY <1>1, <3>1
  <2> QED BY <1>1, <2>1, <2>2
<1>3. ASSUME NEW h \in Handlers PROVE job'[h].cycle <= currentCycle'
  <2>0. job[h].cycle \in Int /\ job[h].cycle <= currentCycle
    BY NType DEF NotAhead, TypeInv, TypeOK, Job
  <2>1. job'[h].cycle \in {0, job[h].cycle, currentCycle}
    <3>1. ASSUME NEW x \in Handlers, FinalizeRead(x) PROVE job'[h].cycle = job[h].cycle
      BY <3>1 DEF FinalizeRead, TypeInv, TypeOK, Job
    <3>2. ASSUME NEW x \in Handlers, Apply(x) PROVE job'[h].cycle = job[h].cycle
      <4>1. PICK d: Done(x, d)
        BY <3>2 DEF Apply
      <4> QED BY <4>1 DEF Done, TypeInv, TypeOK, Job
    <3>3. ASSUME NEW x \in Handlers, BeginSync(x) PROVE job'[h].cycle \in {job[h].cycle, currentCycle}
      BY <3>3 DEF BeginSync, TypeInv, TypeOK
    <3>4. ASSUME NEW x \in Handlers, Stop(x) \/ CommitCycle(x) \/ CommitLastCycle(x)
          PROVE  job'[h].cycle \in {0, job[h].cycle}
      <4>1. job' = [job EXCEPT ![x] = Idle]
        BY <3>4 DEF Stop, CommitCycle, CommitLastCycle
      <4> QED BY <4>1 DEF TypeInv, TypeOK, Idle
    <3>5. \/ UNCHANGED job
          \/ \E x \in Handlers: \/ FinalizeRead(x) \/ Apply(x) \/ BeginSync(x)
                                \/ Stop(x) \/ CommitCycle(x) \/ CommitLastCycle(x)
      BY DEF Next, Work, vars, NextDay, CheckPayment, Settle, DropPayment
    <3> QED BY <3>1, <3>2, <3>3, <3>4, <3>5
  <2>2. currentCycle >= 0
    BY DEF TypeInv, TypeOK, Cycles
  <2> QED BY <1>1, <2>0, <2>1, <2>2
<1>4. ASSUME NEW c \in Cycles, NEW m \in Members, c > currentCycle'
      PROVE  paidDayCount'[c][m] = 0
  <2>1. c \in Int /\ c > currentCycle /\ paidDayCount[c][m] = 0
    <3>1. c \in Int
      BY NType DEF Cycles
    <3> QED BY <1>1, <1>4, <3>1 DEF NotAhead
  <2>2. ASSUME NEW k \in Cycles, k <= currentCycle, NEW x \in Members, NEW n,
               paidDayCount' = [paidDayCount EXCEPT ![k][x] = n]
        PROVE  paidDayCount'[c][m] = 0
    BY <1>1, <2>1, <2>2 DEF TypeInv, TypeOK
  <2>3. ASSUME NEW p \in paying, Settle(p) PROVE paidDayCount'[c][m] = 0
    <3>1. /\ p.member \in Members /\ p.cycle \in Cycles
          /\ paidDayCount' = [paidDayCount EXCEPT ![p.cycle][p.member] = p.dayIndex]
      BY <2>3, SettleMoves
    <3> QED BY <2>2, <3>1 DEF NotAhead
  <2>4. ASSUME NEW h \in Handlers, NEW d \in job[h].todo, ApplyDefault(h, d)
        PROVE  paidDayCount'[c][m] = 0
    <3>1. /\ d.member \in Members /\ job[h].cycle \in Cycles
          /\ NoCover(d.member) \/ CoverTaken(job[h].cycle, d.member)
      BY <2>4, DefaultMoves
    <3>2. \/ paidDayCount' = paidDayCount
          \/ paidDayCount' = [paidDayCount EXCEPT ![job[h].cycle][d.member] = DaysPerCycle]
      BY <3>1 DEF NoCover, CoverTaken
    <3> QED BY <2>1, <2>2, <3>1, <3>2 DEF NotAhead
  <2>5. ASSUME NEW h \in Handlers, CommitCycle(h) \/ CommitLastCycle(h)
        PROVE  paidDayCount'[c][m] = 0
    BY <2>1, <2>5 DEF CommitCycle, CommitLastCycle
  <2> QED BY <2>1, <2>3, <2>4, <2>5, MoneySteps
<1> QED BY <1>2, <1>3, <1>4 DEF NotAhead

LEMMA FundedType ==
    ASSUME TypeInv
    PROVE  /\ currentCycle \in Cycles
           /\ \A c \in Cycles: /\ CycleDays(c) \in Int /\ DailyAmount * CycleDays(c) \in Int
                               /\ CycleRepeats(c) \in Nat /\ DailyAmount * CycleRepeats(c) \in Int
           /\ pool \in Nat /\ DailyAmount \in Nat
  BY SumsType, CountsType, IntProduct DEF TypeInv, TypeOK

\* What has been paid for the current cycle is in the pool: an earlier payout has not
\* taken it, because nothing was paid ahead of it.
LEMMA FundedStep ==
    ASSUME TypeInv, NotAhead, CycleFunded, [Next]_vars
    PROVE  CycleFunded'
<1> DEFINE after(x) == SumFunction(paidDayCount'[x])
           short(x) == DailyAmount * SumFunction(repeats'[x])
           k == currentCycle
<1> SUFFICES ASSUME groupStatus' = "ACTIVE"
             PROVE  pool' + short(currentCycle') >= DailyAmount * after(currentCycle')
  BY DEF CycleFunded
<1>0. k \in Cycles /\ CycleDays(k) \in Int /\ DailyAmount * CycleDays(k) \in Int
      /\ CycleRepeats(k) \in Nat /\ DailyAmount * CycleRepeats(k) \in Int
      /\ pool \in Nat /\ DailyAmount \in Nat
  BY FundedType
<1>1. groupStatus = "ACTIVE" => pool + DailyAmount * CycleRepeats(k) >= DailyAmount * CycleDays(k)
  BY DEF CycleFunded, CycleDays, CycleRepeats
<1>2. CASE UNCHANGED <<groupVars, paidDayCount, depositStatus, reserve, coverages, moneyVars>>
  BY <1>1, <1>2 DEF groupVars, moneyVars, CycleDays, CycleRepeats
<1>3. ASSUME NEW p \in paying, Settle(p)
      PROVE  pool' + short(currentCycle') >= DailyAmount * after(currentCycle')
  <2>1. /\ p.member \in Members /\ p.cycle \in Cycles /\ p.dayIndex \in 1..DaysPerCycle
        /\ paidDayCount[p.cycle][p.member] = p.dayIndex - 1
        /\ paidDayCount' = [paidDayCount EXCEPT ![p.cycle][p.member] = p.dayIndex]
        /\ \/ pool' = pool + DailyAmount /\ UNCHANGED repeats
           \/ UNCHANGED pool /\ repeats' = [repeats EXCEPT ![p.cycle][p.member] = @ + 1]
        /\ UNCHANGED <<groupStatus, currentCycle>>
    BY <1>3, SettleMoves DEF groupVars
  <2>2. p.dayIndex \in Int /\ p.dayIndex - paidDayCount[p.cycle][p.member] = 1
    BY <2>1, ContributionType
  <2>3. /\ after(p.cycle) = CycleDays(p.cycle) + (p.dayIndex - paidDayCount[p.cycle][p.member])
        /\ \A x \in Cycles \ {p.cycle}: after(x) = CycleDays(x)
    BY <2>1, <2>2, DaysChange DEF TypeInv, CycleDays
  <2>4. CASE pool' = pool + DailyAmount /\ UNCHANGED repeats
    <3>1. short(k) = DailyAmount * CycleRepeats(k)
      BY <2>4 DEF CycleRepeats
    <3> HIDE DEF after, short
    <3>2. after(k) = CycleDays(k) + 1 \/ after(k) = CycleDays(k)
      BY <1>0, <2>2, <2>3
    <3>3. DailyAmount * (CycleDays(k) + 1) = DailyAmount * CycleDays(k) + DailyAmount
      BY <1>0
    <3> QED BY <1>0, <1>1, <2>1, <2>4, <3>1, <3>2, <3>3
  <2>5. CASE UNCHANGED pool /\ repeats' = [repeats EXCEPT ![p.cycle][p.member] = @ + 1]
    <3> DEFINE again(x) == SumFunction(repeats'[x])
    <3>1. /\ again(p.cycle) = CycleRepeats(p.cycle) + 1
          /\ \A x \in Cycles \ {p.cycle}: again(x) = CycleRepeats(x)
      BY <2>1, <2>5, RepeatsChange DEF TypeInv, CycleRepeats
    <3>2. short(k) = DailyAmount * again(k)
      OBVIOUS
    <3> HIDE DEF after, short, again
    <3>3. \/ after(k) = CycleDays(k) + 1 /\ again(k) = CycleRepeats(k) + 1
          \/ after(k) = CycleDays(k) /\ again(k) = CycleRepeats(k)
      BY <1>0, <2>2, <2>3, <3>1
    <3>4. /\ DailyAmount * (CycleDays(k) + 1) = DailyAmount * CycleDays(k) + DailyAmount
          /\ DailyAmount * (CycleRepeats(k) + 1) = DailyAmount * CycleRepeats(k) + DailyAmount
      BY <1>0
    <3> QED BY <1>0, <1>1, <2>1, <2>5, <3>2, <3>3, <3>4
  <2> QED BY <2>1, <2>4, <2>5
<1>4. ASSUME NEW h \in Handlers, NEW d \in job[h].todo, ApplyDefault(h, d), UNCHANGED groupVars
      PROVE  pool' + short(currentCycle') >= DailyAmount * after(currentCycle')
  <2> DEFINE m == d.member
             c == job[h].cycle
  <2>1. /\ m \in Members /\ c \in Cycles
        /\ depositStatus' = IF depositStatus[m] = "HELD"
                            THEN [depositStatus EXCEPT ![m] = "FORFEITED"] ELSE depositStatus
        /\ NoCover(m) \/ (~Paid(c, m) /\ CoverTaken(c, m))
        /\ UNCHANGED <<groupStatus, currentCycle, repeats>>
    BY <1>4, DefaultMoves DEF groupVars
  <2> HIDE DEF m, c
  <2>2. Forfeit(m) \in Nat
    BY <2>1, ForfeitCount
  <2>3. \E cover \in Nat: /\ pool' = pool + Forfeit(m) + cover
                          /\ DailyAmount * after(k) <= DailyAmount * CycleDays(k) + cover
    <3>1. CASE NoCover(m)
      <4>1. pool' = pool + Forfeit(m) + 0 /\ after(k) = CycleDays(k)
        BY <1>0, <2>2, <3>1 DEF NoCover, CycleDays
      <4>2. DailyAmount * after(k) <= DailyAmount * CycleDays(k) + 0
        BY <1>0, <4>1
      <4> QED BY <4>1, <4>2
    <3>2. CASE ~Paid(c, m) /\ CoverTaken(c, m)
      <4>1. PICK cover \in Nat:
              /\ pool' = pool + Forfeit(m) + cover
              /\ \A x \in Cycles: DailyAmount * after(x) <= DailyAmount * CycleDays(x) + cover
        BY <2>1, <3>2, CoverSums DEF CycleDays
      <4> QED BY <1>0, <4>1
    <3> QED BY <2>1, <3>1, <3>2
  <2>4. DailyAmount * after(k) \in Int
    <3>1. TypeOK'
      BY TypeStep DEF TypeInv
    <3>2. paidDayCount'[k] \in [Members -> Nat]
      BY <1>0, <3>1, ContributionType DEF TypeOK
    <3>3. DOMAIN paidDayCount'[k] = Members /\ \A x \in Members: paidDayCount'[k][x] \in Int
      BY <3>2
    <3>4. after(k) \in Int
      BY <3>3, SumInt, GroupCycleAssumption DEF SumFunction
    <3> QED BY <1>0, <3>4, IntProduct
  <2>5. short(k) = DailyAmount * CycleRepeats(k)
    BY <2>1 DEF CycleRepeats
  <2> HIDE DEF after, short
  <2> QED BY <1>0, <1>1, <2>1, <2>2, <2>3, <2>4, <2>5
<1>5. ASSUME NEW h \in Handlers, CommitCycle(h)
      PROVE  pool' + short(currentCycle') >= DailyAmount * after(currentCycle')
  <2>1. /\ k + 1 \in Cycles /\ currentCycle' = k + 1
        /\ pool >= Gross /\ pool' = pool - Gross /\ UNCHANGED <<paidDayCount, repeats>>
    BY <1>5, CommitMoves
  <2>2. after(k + 1) = 0
    <3>1. k + 1 > currentCycle
      BY <1>0, NType DEF Cycles
    <3>2. /\ DOMAIN paidDayCount'[k + 1] = Members
          /\ \A m \in Members: paidDayCount'[k + 1][m] = 0
      BY <2>1, <3>1 DEF NotAhead, TypeInv, TypeOK
    <3> QED BY <3>2, SumZero, GroupCycleAssumption DEF SumFunction
  <2>3. short(k + 1) \in Nat
    <3>1. SumFunction(repeats'[k + 1]) \in Nat
      BY <2>1, RowsType DEF TypeInv, TypeOK
    <3> QED BY <1>0, <3>1, ProductType
  <2> HIDE DEF after, short
  <2>4. DailyAmount * 0 = 0
    BY <1>0
  <2> QED BY <1>0, <2>1, <2>2, <2>3, <2>4, NetType
<1>6. ASSUME NEW h \in Handlers, CommitLastCycle(h) PROVE FALSE
  BY <1>6, LastMoves
<1> QED BY <1>2, <1>3, <1>4, <1>5, <1>6, MoneySteps

\* Somebody is first in the queue from the cycle's own place on.
LEMMA SomebodyIsNext ==
    ASSUME TypeInv, AllowPayoutOverride
    PROVE  Recipients # {}
<1> DEFINE distance(x) == (Place[x] - (currentCycle - 1)) % N
           f == [x \in Members |-> 0 - distance(x)]
<1>1. DOMAIN Place = Members /\ Cardinality(Members) = N
  BY DEF Place, N
<1>2. \A x \in Members: Place[x] \in Nat
  <2> TAKE x \in Members
  <2> DEFINE before == {y \in Members:
                          \/ effectivePayoutOrder[y] < effectivePayoutOrder[x]
                          \/ /\ effectivePayoutOrder[y] = effectivePayoutOrder[x]
                             /\ TurnOrder[y] < TurnOrder[x]}
  <2>1. IsFiniteSet(before)
    BY FS_Subset, GroupCycleAssumption
  <2>2. Place[x] = Cardinality(before)
    BY DEF Place
  <2> HIDE DEF before
  <2> QED BY <2>1, <2>2, FS_CardinalityType
<1>3. \A x \in Members: distance(x) \in Int
  BY <1>2, NType DEF TypeInv, TypeOK, Cycles
<1> HIDE DEF distance
<1>4. IsFiniteSet(Members) /\ Members # {} /\ \A x \in Members: f[x] \in Int
  BY <1>3, NType, FS_EmptySet, GroupCycleAssumption DEF N
<1>5. PICK m \in Members: \A x \in Members: f[x] <= f[m]
  BY <1>4, HasLargest
<1>6. \A x \in Members: distance(m) <= distance(x)
  BY <1>3, <1>5
<1>7. m \in Recipients
  BY <1>1, <1>6 DEF Recipients, PayoutRecipients, distance
<1> QED BY <1>7

LEMMA OfferFunded ==
    ASSUME TypeInv, CycleFunded, CanFinalize
    PROVE  /\ Ready /\ Recipients # {}
           /\ pool + DailyAmount * SumFunction(repeats[currentCycle]) >= Gross
<1>1. AllPaid /\ groupStatus = "ACTIVE" /\ ~NoEligibleRecipient
  BY DEF CanFinalize
<1>2. Ready
  BY <1>1 DEF AllPaid, Ready
<1>3. Recipients # {}
  BY <1>1, SomebodyIsNext DEF NoEligibleRecipient
<1>4. SumFunction(paidDayCount[currentCycle]) = DaysPerCycle * N
  <2>1. /\ DOMAIN paidDayCount[currentCycle] = Members /\ DaysPerCycle \in Int
        /\ \A m \in Members: paidDayCount[currentCycle][m] = DaysPerCycle
    BY <1>1, ContributionType DEF AllPaid, Paid, TypeInv, TypeOK
  <2> QED BY <2>1, SumConstant, GroupCycleAssumption DEF SumFunction, N
<1>5. DailyAmount * (DaysPerCycle * N) = Gross
  <2>1. DailyAmount \in Nat /\ DaysPerCycle \in Nat /\ N \in Nat
    BY ContributionType, NType
  <2>2. DailyAmount * (DaysPerCycle * N) = (DailyAmount * DaysPerCycle) * N
    BY <2>1
  <2> QED BY <2>2, NetType DEF Contribution
<1>6. pool + DailyAmount * SumFunction(repeats[currentCycle]) >= Gross
  BY <1>1, <1>4, <1>5 DEF CycleFunded
<1> QED BY <1>2, <1>3, <1>6

LEMMA FundedInit == Init => NotAhead /\ CycleFunded
<1> SUFFICES ASSUME Init PROVE NotAhead /\ CycleFunded
  OBVIOUS
<1>1. NotAhead
  BY DEF Init, NotAhead, Idle
<1>2. CycleFunded
  <2>1. /\ DOMAIN paidDayCount[currentCycle] = Members
        /\ \A m \in Members: paidDayCount[currentCycle][m] = 0
    BY NType DEF Init, Cycles
  <2>2. SumFunction(paidDayCount[currentCycle]) = 0
    BY <2>1, SumZero, GroupCycleAssumption DEF SumFunction
  <2>3. DailyAmount * 0 = 0 /\ pool = 0 /\ repeats[currentCycle] = paidDayCount[currentCycle]
    BY ContributionType, NType DEF Init, Cycles
  <2> QED BY <2>2, <2>3 DEF CycleFunded
<1> QED BY <1>1, <1>2

\* Whatever earlier cycles have taken out of the pool, the payout that the admin's
\* screen offers passes the checks of finalizeCycle and is in the pool, for any amounts
\* and any margin (getPayoutReadiness, which does not look at the pool).
THEOREM OffersAreFunded == Spec => []OfferedIsFunded
<1>1. Init => TypeInv /\ NotAhead /\ CycleFunded
  BY TypeInit, FundedInit
<1>2. TypeInv /\ NotAhead /\ CycleFunded /\ [Next]_vars => TypeInv' /\ NotAhead' /\ CycleFunded'
  BY TypeStep, NotAheadStep, FundedStep
<1>3. TypeInv /\ CycleFunded => OfferedIsFunded
  BY OfferFunded DEF OfferedIsFunded
<1> QED BY <1>1, <1>2, <1>3, PTL DEF Spec

=============================================================================
