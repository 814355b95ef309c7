------------------------ MODULE GroupCycleRefinement -------------------------
(***************************************************************************)
(* GroupCycle implements RotatingSavings for any number of members, days   *)
(* and handlers, and any amounts.  The argument: cycles before the current *)
(* one, and only those, have a payout row; a handler that is about to      *)
(* commit belongs to a cycle that has been opened; and every other change  *)
(* of the pool adds to it, because a cover is never negative.              *)
(***************************************************************************)
EXTENDS GroupCycleProofs

IntRow == [status: {"NONE", "ACTIVE", "RELEASED"}, original: Int, remaining: Int,
           released: Int, used: Int, units: Int, unitsReleased: Int]

Amounts ==
    /\ pool \in Int
    /\ reserve \in [Cycles -> IntRow]

PaidInOrder ==
    /\ \A c \in Cycles: recipient[c] # None <=> c < currentCycle \/ groupStatus = "COMPLETED"
    /\ groupStatus = "COMPLETED" => currentCycle = N

Committing ==
    \A h \in Handlers: job[h].step = "commit" =>
        /\ job[h].recipient \in Members
        /\ job[h].cycle <= currentCycle

RInv == Shape /\ Amounts /\ PaidInOrder /\ Committing

-----------------------------------------------------------------------------
(* Arithmetic *)

LEMMA QuotientType == ASSUME NEW a \in Int, NEW b \in Nat \ {0} PROVE a \div b \in Int
  OBVIOUS

LEMMA NatQuotient == ASSUME NEW a \in Nat, NEW b \in Nat \ {0} PROVE a \div b \in Nat
  OBVIOUS

LEMMA ProductType == ASSUME NEW a \in Nat, NEW b \in Nat PROVE a * b \in Nat
  OBVIOUS

LEMMA IntProduct == ASSUME NEW a \in Int, NEW b \in Int PROVE a * b \in Int
  OBVIOUS

LEMMA MissedType ==
    ASSUME NEW amount \in Nat, NEW days \in Nat \ {0}, NEW paid \in 0..days
    PROVE  MissedContribution(amount, days, paid) \in Nat
<1>1. CASE paid >= days
  BY <1>1 DEF MissedContribution
<1>2. CASE ~(paid >= days)
  <2>1. days - paid \in Nat
    BY <1>2
  <2>2. amount * (days - paid) \in Nat
    BY <2>1, ProductType
  <2>3. (amount * (days - paid)) \div days \in Nat
    BY <2>2, NatQuotient
  <2> QED BY <1>2, <2>3 DEF MissedContribution
<1> QED BY <1>1, <1>2

LEMMA ContributionType == Contribution \in Nat /\ DaysPerCycle \in Nat \ {0} /\ DailyAmount \in Nat \ {0}
<1>1. DaysPerCycle \in Nat \ {0} /\ DailyAmount \in Nat \ {0}
  BY GroupCycleAssumption
<1> QED BY <1>1, ProductType DEF Contribution

LEMMA ReleaseType ==
    ASSUME NEW original \in Int, NEW remaining \in Int, NEW units \in Int, NEW unitsReleased \in Int
    PROVE  NextReserveRelease(original, remaining, units, unitsReleased) \in Int
<1>1. CASE units < 1
  BY <1>1 DEF NextReserveRelease
<1>2. CASE ~(units < 1)
  <2>1. original \div units \in Int
    BY <1>2, QuotientType
  <2> QED BY <1>2, <2>1 DEF NextReserveRelease
<1> QED BY <1>1, <1>2

LEMMA GrossType == Gross \in Int /\ Net \in Int
<1>1. BpsDenominator \in Nat \ {0} /\ ServiceMarginBps \in Int /\ N \in Int /\ DailyAmount \in Int
      /\ DaysPerCycle \in Int
  BY GroupCycleAssumption, NType DEF BpsDenominator
<1>2. Gross \in Int
  BY <1>1, IntProduct DEF Gross, GrossPool
<1>3. ServiceMargin(Gross, ServiceMarginBps) \in Int
  BY <1>1, <1>2, IntProduct, QuotientType DEF ServiceMargin
<1> QED BY <1>2, <1>3 DEF Net

-----------------------------------------------------------------------------
(* The reserve rows *)

LEMMA RowTypes ==
    ASSUME NEW row \in IntRow, NEW a \in Int, NEW b \in Int, NEW c \in Int,
           NEW status \in {"NONE", "ACTIVE", "RELEASED"}
    PROVE  /\ [row EXCEPT !.remaining = a, !.released = b, !.unitsReleased = c,
                          !.status = status] \in IntRow
           /\ [row EXCEPT !.remaining = a, !.used = b, !.status = status] \in IntRow
           /\ [row EXCEPT !.released = b, !.remaining = 0, !.unitsReleased = c,
                          !.status = "RELEASED"] \in IntRow
           /\ [row EXCEPT !.status = status, !.original = a, !.remaining = a,
                          !.units = b] \in IntRow
<1>1. [row EXCEPT !.remaining = a, !.released = b, !.unitsReleased = c,
                  !.status = status] \in IntRow
  BY DEF IntRow
<1>2. [row EXCEPT !.remaining = a, !.used = b, !.status = status] \in IntRow
  BY DEF IntRow
<1>3. [row EXCEPT !.released = b, !.remaining = 0, !.unitsReleased = c,
                  !.status = "RELEASED"] \in IntRow
  <2>1. ASSUME NEW z \in Int, NEW released \in {"NONE", "ACTIVE", "RELEASED"}
        PROVE  [row EXCEPT !.released = b, !.remaining = z, !.unitsReleased = c,
                           !.status = released] \in IntRow
    BY DEF IntRow
  <2>2. 0 \in Int /\ "RELEASED" \in {"NONE", "ACTIVE", "RELEASED"}
    OBVIOUS
  <2> QED BY <2>1, <2>2, Zenon
<1>4. [row EXCEPT !.status = status, !.original = a, !.remaining = a, !.units = b] \in IntRow
  BY DEF IntRow
<1> QED BY <1>1, <1>2, <1>3, <1>4

LEMMA ReserveType == ASSUME NEW c \in Cycles PROVE Reserve(c) \in IntRow
<1>1. BpsDenominator \in Nat \ {0} /\ MaxReserveBps \in Int /\ N \in Nat \ {0} /\ c \in Int
      /\ DaysPerCycle \in Int
  BY GroupCycleAssumption, NType DEF BpsDenominator, Cycles
<1>2. ReserveBps(c, N, MaxReserveBps) \in Int
  <2>1. MaxReserveBps * (N - c) \in Int
    BY <1>1, IntProduct
  <2>2. (MaxReserveBps * (N - c)) \div N \in Int
    BY <1>1, <2>1, QuotientType
  <2> QED BY <2>2 DEF ReserveBps
<1>3. ReserveAmount(Net, ReserveBps(c, N, MaxReserveBps)) \in Int
  BY <1>1, <1>2, GrossType, IntProduct, QuotientType DEF ReserveAmount
<1>4. PostPayoutUnits(c, N, DaysPerCycle) \in Int
  BY <1>1, IntProduct DEF PostPayoutUnits
<1> DEFINE amount == ReserveAmount(Net, ReserveBps(c, N, MaxReserveBps))
           units == PostPayoutUnits(c, N, DaysPerCycle)
<1>5. Reserve(c) = IF amount = 0 THEN NoReserve
                   ELSE [NoReserve EXCEPT !.status = "ACTIVE", !.original = amount,
                                          !.remaining = amount, !.units = units]
  BY DEF Reserve
<1>6. amount \in Int /\ units \in Int
  BY <1>3, <1>4
<1>7. NoReserve \in IntRow
  BY DEF NoReserve, IntRow
<1> HIDE DEF amount, units
<1>8. [NoReserve EXCEPT !.status = "ACTIVE", !.original = amount, !.remaining = amount,
                        !.units = units] \in IntRow
  BY <1>6, <1>7, RowTypes
<1> QED BY <1>5, <1>7, <1>8

LEMMA ReleasedRow ==
    ASSUME Amounts, NEW r \in Cycles, NEW m, ReleaseUnit(r, m)
    PROVE  reserve' \in [Cycles -> IntRow]
<1> DEFINE row == reserve[r]
           amount == UnitRelease(r)
           left == row.remaining - amount
           units == row.unitsReleased + 1
           a == IF left > 0 THEN left ELSE 0
           status == IF left <= 0 \/ units >= row.units THEN "RELEASED" ELSE "ACTIVE"
           new == [row EXCEPT !.remaining = a, !.released = row.released + amount,
                              !.unitsReleased = units, !.status = status]
<1>1. row \in IntRow
  BY DEF Amounts
<1>2. /\ row.original \in Int /\ row.remaining \in Int /\ row.released \in Int
      /\ row.units \in Int /\ row.unitsReleased \in Int
  BY <1>1 DEF IntRow
<1>3. amount \in Int
  BY <1>2, ReleaseType DEF UnitRelease
<1>4. a \in Int /\ units \in Int /\ row.released + amount \in Int
  BY <1>2, <1>3
<1>5. status \in {"NONE", "ACTIVE", "RELEASED"}
  OBVIOUS
<1>6. reserve' = [reserve EXCEPT ![r] = new]
  BY DEF ReleaseUnit
<1>7. new \in IntRow
  <2> DEFINE b == row.released + amount
  <2> HIDE DEF row, amount, left, units, a, b, status
  <2>1. [row EXCEPT !.remaining = a, !.released = b, !.unitsReleased = units,
                    !.status = status] \in IntRow
    BY <1>1, <1>4, <1>5, RowTypes DEF b
  <2> QED BY <2>1 DEF b
<1> HIDE DEF new
<1> QED BY <1>6, <1>7 DEF Amounts

\* A cover is never negative, so that a default never takes from the pool.
LEMMA CoveredRow ==
    ASSUME Shape, Amounts, NEW r \in Cycles, NEW c \in Cycles, NEW m \in Members,
           Coverable(r, c, m), CoverFromReserve(r, c, m)
    PROVE  /\ reserve' \in [Cycles -> IntRow]
           /\ pool' \in Int /\ pool' >= pool
<1> DEFINE row == reserve[r]
           missed == MissedContribution(Contribution, DaysPerCycle, paidDayCount[c][m])
           cover == IF missed < row.remaining THEN missed ELSE row.remaining
           left == row.remaining - cover
           status == IF left <= 0 THEN "RELEASED" ELSE row.status
           new == [row EXCEPT !.remaining = left, !.used = row.used + cover, !.status = status]
<1>1. row \in IntRow
  BY DEF Amounts
<1>2. row.remaining \in Int /\ row.used \in Int /\ row.status \in {"NONE", "ACTIVE", "RELEASED"}
  BY <1>1 DEF IntRow
<1>3. missed \in Nat
  <2>1. paidDayCount[c][m] \in 0..DaysPerCycle
    BY DEF Shape
  <2> QED BY <2>1, ContributionType, MissedType
<1>4. row.remaining > 0
  BY DEF Coverable
<1>a. /\ reserve' = [reserve EXCEPT ![r] = new]
      /\ pool' = pool + Forfeit(m) + cover
  BY DEF CoverFromReserve
<1> HIDE DEF missed
<1>5. cover \in Nat /\ left \in Int /\ row.used + cover \in Int
  BY <1>2, <1>3, <1>4
<1>6. status \in {"NONE", "ACTIVE", "RELEASED"}
  BY <1>2
<1>7. new \in IntRow
  <2> DEFINE b == row.used + cover
  <2> HIDE DEF row, cover, left, b, status
  <2>1. [row EXCEPT !.remaining = left, !.used = b, !.status = status] \in IntRow
    BY <1>1, <1>5, <1>6, RowTypes DEF b
  <2> QED BY <2>1 DEF b
<1>8. Forfeit(m) \in Nat
  BY ContributionType DEF Forfeit
<1> HIDE DEF new, cover
<1> QED BY <1>a, <1>5, <1>7, <1>8 DEF Amounts

LEMMA ClosedRow ==
    ASSUME Amounts, NEW r \in Cycles
    PROVE  CloseReserve(r) \in IntRow
<1> DEFINE row == reserve[r]
<1>1. row \in IntRow
  BY DEF Amounts
<1>2. row.remaining \in Int /\ row.released \in Int /\ row.units \in Int
  BY <1>1 DEF IntRow
<1> DEFINE b == row.released + row.remaining
           u == row.units
<1>3. CloseReserve(r) = row \/
      CloseReserve(r) = [row EXCEPT !.released = b, !.remaining = 0, !.unitsReleased = u,
                                    !.status = "RELEASED"]
  BY DEF CloseReserve
<1>4. b \in Int /\ u \in Int
  BY <1>2
<1> HIDE DEF row, b, u
<1>5. [row EXCEPT !.released = b, !.remaining = 0, !.unitsReleased = u,
                  !.status = "RELEASED"] \in IntRow
  BY <1>1, <1>4, RowTypes
<1> QED BY <1>1, <1>3, <1>5

-----------------------------------------------------------------------------
(* The pool *)

LEMMA SettleMoney ==
    ASSUME Shape, Amounts, NEW p \in paying, Settle(p)
    PROVE  Amounts' /\ pool' >= pool /\ UNCHANGED groupVars
<1>1. (pool' = pool \/ pool' = pool + DailyAmount) /\ UNCHANGED groupVars
  BY DEF Settle
<1>2. \/ UNCHANGED reserve
      \/ \E r \in ActiveReserves(p.member): ReleaseUnit(r, p.member)
  BY DEF Settle
<1>3. reserve' \in [Cycles -> IntRow]
  BY <1>2, ReleasedRow DEF Amounts, ActiveReserves
<1>4. pool' \in Int /\ pool' >= pool
  BY <1>1, ContributionType DEF Amounts
<1> QED BY <1>1, <1>3, <1>4 DEF Amounts

LEMMA ApplyMoney ==
    ASSUME Shape, Amounts, NEW h \in Handlers, Apply(h)
    PROVE  Amounts' /\ pool' >= pool /\ UNCHANGED groupVars
<1>1. PICK d \in job[h].todo:
          /\ d \in [member: Members, what: {"resolve", "active", "late", "default"}]
          /\ ApplyUpdate(h, d) \/ ApplyResolve(h, d) \/ ApplyDefault(h, d)
          /\ UNCHANGED <<groupVars, paying>>
  BY ApplyFacts
<1>2. job[h].cycle \in Cycles /\ d.member \in Members
  BY <1>1 DEF Shape, Idle
<1>3. CASE ApplyUpdate(h, d) \/ ApplyResolve(h, d)
  BY <1>1, <1>3 DEF ApplyUpdate, ApplyResolve, moneyVars, Amounts
<1>4. CASE ApplyDefault(h, d)
  <2> DEFINE m == d.member
             c == job[h].cycle
  <2>1. \/ NoCover(m)
        \/ \E r \in ActiveReserves(m): Coverable(r, c, m) /\ CoverFromReserve(r, c, m)
    BY <1>4, Zenon DEF ApplyDefault
  <2>2. CASE NoCover(m)
    <3>1. Forfeit(m) \in Nat
      BY ContributionType DEF Forfeit
    <3> QED BY <1>1, <2>2, <3>1 DEF NoCover, Amounts
  <2>3. ASSUME NEW r \in ActiveReserves(m), Coverable(r, c, m), CoverFromReserve(r, c, m)
        PROVE  reserve' \in [Cycles -> IntRow] /\ pool' \in Int /\ pool' >= pool
    <3>1. r \in Cycles
      BY DEF ActiveReserves
    <3> QED BY <1>2, <2>3, <3>1, CoveredRow
  <2> QED BY <1>1, <2>1, <2>2, <2>3 DEF Amounts
<1> QED BY <1>1, <1>3, <1>4

LEMMA CommitMoney ==
    ASSUME Shape, Amounts, NEW h \in Handlers, CommitCycle(h) \/ CommitLastCycle(h)
    PROVE  Amounts'
<1>1. pool' \in Int
  BY GrossType DEF CommitCycle, CommitLastCycle, Allocate, Amounts
<1>2. CASE CommitCycle(h)
  <2>1. job[h].cycle \in Cycles
    BY <1>2 DEF CommitCycle, Shape, Idle
  <2>2. reserve' = [reserve EXCEPT ![job[h].cycle] = Reserve(job[h].cycle)]
    BY <1>2 DEF CommitCycle
  <2> QED BY <1>1, <2>1, <2>2, ReserveType DEF Amounts
<1>3. CASE CommitLastCycle(h)
  <2>1. reserve' = [r \in Cycles |-> CloseReserve(r)]
    BY <1>3 DEF CommitLastCycle
  <2> QED BY <1>1, <2>1, ClosedRow DEF Amounts
<1> QED BY <1>2, <1>3

-----------------------------------------------------------------------------
(* The payouts *)

\* What a commit does to the group: it pays out the current cycle.
LEMMA CommitFacts ==
    ASSUME RInv, NEW h \in Handlers, CommitCycle(h) \/ CommitLastCycle(h)
    PROVE  /\ groupStatus = "ACTIVE" /\ job[h].recipient \in Members
           /\ pool >= Gross /\ pool' = pool - Gross
           /\ recipient' = [recipient EXCEPT ![currentCycle] = job[h].recipient]
           /\ job' = [job EXCEPT ![h] = Idle]
           /\ \/ /\ currentCycle < N /\ currentCycle' = currentCycle + 1 /\ UNCHANGED groupStatus
              \/ /\ currentCycle = N /\ UNCHANGED currentCycle /\ groupStatus' = "COMPLETED"
<1> DEFINE c == job[h].cycle
<1>1. /\ job[h].step = "commit" /\ Allocate(c, job[h].recipient)
      /\ job' = [job EXCEPT ![h] = Idle]
      /\ \/ c < N /\ currentCycle' = c + 1 /\ UNCHANGED groupStatus
         \/ c = N /\ UNCHANGED currentCycle /\ groupStatus' = "COMPLETED"
  BY DEF CommitCycle, CommitLastCycle
<1>2. c \in Cycles /\ c <= currentCycle /\ job[h].recipient \in Members
  BY <1>1 DEF RInv, Shape, Committing, Idle
<1>3. recipient[c] = None /\ pool >= Gross /\ pool' = pool - Gross
      /\ recipient' = [recipient EXCEPT ![c] = job[h].recipient]
  BY <1>1 DEF Allocate
<1>4. ~(c < currentCycle) /\ groupStatus # "COMPLETED"
  BY <1>2, <1>3 DEF RInv, PaidInOrder
<1>5. c = currentCycle /\ groupStatus = "ACTIVE"
  BY <1>2, <1>4, NType DEF RInv, Shape, Cycles
<1> QED BY <1>1, <1>2, <1>3, <1>5

LEMMA PaidInOrderStep ==
    ASSUME RInv, [Next]_vars
    PROVE  PaidInOrder'
<1>1. ASSUME UNCHANGED groupVars PROVE PaidInOrder'
  BY <1>1 DEF groupVars, RInv, PaidInOrder
<1>2. ASSUME NEW h \in Handlers, CommitCycle(h) \/ CommitLastCycle(h) PROVE PaidInOrder'
  <2> DEFINE m == job[h].recipient
  <2>1. /\ groupStatus = "ACTIVE" /\ m \in Members
        /\ recipient' = [recipient EXCEPT ![currentCycle] = m]
        /\ \/ /\ currentCycle < N /\ currentCycle' = currentCycle + 1 /\ UNCHANGED groupStatus
           \/ /\ currentCycle = N /\ UNCHANGED currentCycle /\ groupStatus' = "COMPLETED"
    BY <1>2, CommitFacts
  <2> HIDE DEF m
  <2>2. /\ recipient \in [Cycles -> Members \union {None}] /\ currentCycle \in Cycles
        /\ \A c \in Cycles: recipient[c] # None <=> c < currentCycle
        /\ Cycles = 1..N /\ N \in Nat /\ None \notin Members
    BY <2>1, NType, GroupCycleAssumption DEF RInv, Shape, PaidInOrder, Cycles
  <2>3. \A c \in Cycles: recipient'[c] = IF c = currentCycle THEN m ELSE recipient[c]
    BY <2>1, <2>2
  <2>4. \A c \in Cycles: recipient'[c] # None <=> c < currentCycle \/ c = currentCycle
    BY <2>1, <2>2, <2>3
  <2>5. CASE currentCycle < N /\ currentCycle' = currentCycle + 1 /\ UNCHANGED groupStatus
    BY <2>1, <2>2, <2>4, <2>5 DEF PaidInOrder
  <2>6. CASE currentCycle = N /\ UNCHANGED currentCycle /\ groupStatus' = "COMPLETED"
    BY <2>1, <2>2, <2>4, <2>6 DEF PaidInOrder
  <2> QED BY <2>1, <2>5, <2>6
<1>3. UNCHANGED groupVars \/ \E h \in Handlers: CommitCycle(h) \/ CommitLastCycle(h)
  BY DEF Next, Work, vars, groupVars, NextDay, CheckPayment, Settle, DropPayment,
         BeginSync, Stop, FinalizeRead, Apply
<1> QED BY <1>1, <1>2, <1>3

\* The current cycle never goes back.
LEMMA CycleGrows ==
    ASSUME RInv, [Next]_vars
    PROVE  currentCycle' >= currentCycle /\ currentCycle' \in Cycles
<1>1. currentCycle \in Cycles /\ currentCycle' \in Cycles /\ Cycles = 1..N /\ N \in Nat
  BY ShapeStep, NType DEF RInv, Shape, Cycles
<1>2. ASSUME NEW h \in Handlers, CommitCycle(h) \/ CommitLastCycle(h)
      PROVE  currentCycle' = currentCycle + 1 \/ UNCHANGED currentCycle
  BY <1>2, CommitFacts
<1>3. UNCHANGED currentCycle \/ \E h \in Handlers: CommitCycle(h) \/ CommitLastCycle(h)
  BY DEF Next, Work, vars, groupVars, NextDay, CheckPayment, Settle, DropPayment,
         BeginSync, Stop, FinalizeRead, Apply
<1> QED BY <1>1, <1>2, <1>3

LEMMA CommittingStep ==
    ASSUME RInv, [Next]_vars
    PROVE  Committing'
<1>1. currentCycle' >= currentCycle /\ currentCycle \in Int /\ currentCycle' \in Int
  BY CycleGrows, NType DEF RInv, Shape, Cycles
<1>2. ASSUME NEW h \in Handlers, job'[h].step = "commit",
             job'[h] = job[h]
      PROVE  job'[h].recipient \in Members /\ job'[h].cycle <= currentCycle'
  <2>1. job[h] # Idle
    BY <1>2 DEF Idle
  <2>2. job[h].cycle \in Int /\ job[h].cycle <= currentCycle /\ job[h].recipient \in Members
    BY <1>2, <2>1, NType DEF RInv, Committing, Shape, Cycles
  <2> QED BY <1>1, <1>2, <2>2
<1>3. ASSUME NEW h \in Handlers, FinalizeRead(h)
      PROVE  \E m \in Members: job' = [job EXCEPT ![h].step = "commit", ![h].recipient = m]
  <2>1. PICK m \in Recipients: job' = [job EXCEPT ![h].step = "commit", ![h].recipient = m]
    BY <1>3 DEF FinalizeRead
  <2>2. m \in Members
    BY <2>1 DEF Recipients, PayoutRecipients, Place
  <2> QED BY <2>1, <2>2
<1>4. ASSUME NEW h \in Handlers, FinalizeRead(h)
      PROVE  Committing'
  <2>1. PICK m \in Members: job' = [job EXCEPT ![h].step = "commit", ![h].recipient = m]
    BY <1>3, <1>4
  <2>2. job[h].cycle = currentCycle /\ UNCHANGED currentCycle
    BY <1>4 DEF FinalizeRead, groupVars
  <2>3. ASSUME NEW g \in Handlers, job'[g].step = "commit"
        PROVE  job'[g].recipient \in Members /\ job'[g].cycle <= currentCycle'
    <3>1. CASE g = h
      <4>1. job[h] \in Job
        BY DEF RInv, Shape
      <4>2. job'[h].recipient = m /\ job'[h].cycle = job[h].cycle
        BY <2>1, <4>1 DEF RInv, Shape, Job
      <4> QED BY <1>1, <2>2, <3>1, <4>2
    <3>2. CASE g # h
      <4>1. job'[g] = job[g]
        BY <2>1, <3>2 DEF RInv, Shape
      <4> QED BY <1>2, <2>3, <4>1
    <3> QED BY <3>1, <3>2
  <2> QED BY <2>3 DEF Committing
<1>5. ASSUME NEW h \in Handlers, NEW new, job' = [job EXCEPT ![h] = new], new.step # "commit"
      PROVE  Committing'
  <2>1. ASSUME NEW g \in Handlers, job'[g].step = "commit"
        PROVE  job'[g] = job[g]
    BY <1>5, <2>1 DEF RInv, Shape
  <2> QED BY <1>2, <2>1 DEF Committing
<1>6. CASE UNCHANGED job
  BY <1>2, <1>6 DEF Committing
<1>7. ASSUME NEW h \in Handlers, Apply(h)
      PROVE  Committing'
  <2>1. PICK d \in job[h].todo: job' = [job EXCEPT ![h].todo = @ \ {d}]
    BY <1>7, Zenon DEF Apply, Done
  <2>2. ASSUME NEW g \in Handlers, job'[g].step = "commit"
        PROVE  job'[g].recipient \in Members /\ job'[g].cycle <= currentCycle'
    <3>1. job[g] \in Job
      BY DEF RInv, Shape
    <3>2. /\ job'[g].step = job[g].step /\ job'[g].recipient = job[g].recipient
          /\ job'[g].cycle = job[g].cycle
      BY <2>1, <3>1 DEF RInv, Shape, Job
    <3>3. job[g].recipient \in Members /\ job[g].cycle <= currentCycle /\ job[g] # Idle
      BY <2>2, <3>2 DEF RInv, Committing, Idle
    <3>4. job[g].cycle \in Int
      BY <3>3, NType DEF RInv, Shape, Cycles
    <3> QED BY <1>1, <3>2, <3>3, <3>4
  <2> QED BY <2>2 DEF Committing
<1>8. ASSUME NEW h \in Handlers, BeginSync(h)
      PROVE  Committing'
  <2> DEFINE new == [step |-> "sync", cycle |-> currentCycle, todo |-> Decisions,
                     recipient |-> None]
  <2>1. job' = [job EXCEPT ![h] = new] /\ new.step # "commit"
    BY <1>8 DEF BeginSync
  <2> HIDE DEF new
  <2> QED BY <1>5, <2>1
<1>9. ASSUME NEW h \in Handlers, Stop(h) \/ CommitCycle(h) \/ CommitLastCycle(h)
      PROVE  Committing'
  <2>1. job' = [job EXCEPT ![h] = Idle] /\ Idle.step # "commit"
    BY <1>9 DEF Stop, CommitCycle, CommitLastCycle, Idle
  <2> QED BY <1>5, <2>1
<1>10. \/ UNCHANGED job
       \/ \E h \in Handlers: \/ FinalizeRead(h) \/ Apply(h) \/ BeginSync(h)
                            \/ Stop(h) \/ CommitCycle(h) \/ CommitLastCycle(h)
  BY DEF Next, Work, vars, NextDay, CheckPayment, Settle, DropPayment
<1> QED BY <1>4, <1>6, <1>7, <1>8, <1>9, <1>10

-----------------------------------------------------------------------------
(* The refinement *)

\* What a step does to the group and the pool.
LEMMA StepMoney ==
    ASSUME RInv, [Next]_vars
    PROVE  /\ Amounts'
           /\ \/ UNCHANGED groupVars /\ pool' >= pool
              \/ \E h \in Handlers: CommitCycle(h) \/ CommitLastCycle(h)
<1> USE DEF RInv
<1>1. ASSUME UNCHANGED <<groupVars, pool, reserve>>
      PROVE  Amounts' /\ UNCHANGED groupVars /\ pool' >= pool
  BY <1>1 DEF Amounts
<1>2. ASSUME NEW p \in paying, Settle(p)
      PROVE  Amounts' /\ UNCHANGED groupVars /\ pool' >= pool
  BY <1>2, SettleMoney DEF Amounts
<1>3. ASSUME NEW h \in Handlers, Apply(h)
      PROVE  Amounts' /\ UNCHANGED groupVars /\ pool' >= pool
  BY <1>3, ApplyMoney
<1>4. ASSUME NEW h \in Handlers, CommitCycle(h) \/ CommitLastCycle(h)
      PROVE  Amounts'
  BY <1>4, CommitMoney
<1>5. \/ UNCHANGED <<groupVars, pool, reserve>>
      \/ \E p \in paying: Settle(p)
      \/ \E h \in Handlers: Apply(h) \/ CommitCycle(h) \/ CommitLastCycle(h)
  BY DEF Next, Work, vars, moneyVars, NextDay, CheckPayment, DropPayment, BeginSync,
         FinalizeRead, Stop
<1> QED BY <1>1, <1>2, <1>3, <1>4, <1>5

LEMMA RInvInit == Init => RInv
<1> SUFFICES ASSUME Init PROVE RInv
  OBVIOUS
<1>1. Shape
  BY NType, IdleType, GroupCycleAssumption DEF Init, Shape, Cycles
<1>2. Amounts
  BY DEF Init, Amounts, NoReserve, IntRow
<1>3. PaidInOrder
  BY NType DEF Init, PaidInOrder, Cycles
<1>4. Committing
  BY DEF Init, Committing, Idle
<1> QED BY <1>1, <1>2, <1>3, <1>4 DEF RInv

LEMMA RInvStep == RInv /\ [Next]_vars => RInv'
  BY ShapeStep, StepMoney, PaidInOrderStep, CommittingStep DEF RInv

LEMMA RefineInit == Init => Savings!Init
  BY DEF Init, Savings!Init, Cycles

LEMMA RefineStep == RInv /\ [Next]_vars => [Savings!Next]_(Savings!savingsVars)
<1> SUFFICES ASSUME RInv, [Next]_vars
             PROVE  [Savings!Next]_(Savings!savingsVars)
  OBVIOUS
<1> DEFINE round == IF groupStatus = "COMPLETED" THEN N + 1 ELSE currentCycle
<1>1. CASE UNCHANGED groupVars /\ pool' >= pool
  <2>1. UNCHANGED <<round, recipient>> /\ (pool' > pool \/ UNCHANGED pool)
    BY <1>1, StepMoney DEF groupVars, Amounts, RInv
  <2> QED BY <2>1 DEF Savings!Next, Savings!PayIn, Savings!savingsVars
<1>2. ASSUME NEW h \in Handlers, CommitCycle(h) \/ CommitLastCycle(h)
      PROVE  \E m \in Members: Savings!PayOut(m)
  <2> DEFINE m == job[h].recipient
  <2>1. /\ groupStatus = "ACTIVE" /\ m \in Members
        /\ pool >= Gross /\ pool' = pool - Gross
        /\ recipient' = [recipient EXCEPT ![currentCycle] = m]
        /\ \/ /\ currentCycle < N /\ currentCycle' = currentCycle + 1 /\ UNCHANGED groupStatus
           \/ /\ currentCycle = N /\ UNCHANGED currentCycle /\ groupStatus' = "COMPLETED"
    BY <1>2, CommitFacts
  <2>2. currentCycle \in 1..N /\ N \in Nat
    BY NType DEF RInv, Shape, Cycles
  <2> HIDE DEF m
  <2>3. round = currentCycle /\ round <= N /\ round' = round + 1
    <3>1. round = currentCycle /\ round <= N
      BY <2>1, <2>2
    <3>2. CASE currentCycle' = currentCycle + 1 /\ UNCHANGED groupStatus
      BY <2>1, <3>1, <3>2
    <3>3. CASE currentCycle = N /\ groupStatus' = "COMPLETED"
      <4>1. round' = IF groupStatus' = "COMPLETED" THEN N + 1 ELSE currentCycle'
        OBVIOUS
      <4> QED BY <3>1, <3>3, <4>1
    <3> QED BY <2>1, <3>1, <3>2, <3>3
  <2>4. recipient' = [recipient EXCEPT ![round] = m]
    BY <2>1, <2>3
  <2>5. Savings!PayOut(m)
    BY <2>1, <2>3, <2>4 DEF Savings!PayOut
  <2> QED BY <2>1, <2>5
<1> QED BY <1>1, <1>2, StepMoney DEF Savings!Next

\* A group with any number of members, days and handlers, and any amounts, keeps the
\* promise of RotatingSavings (finalizeCycle, recordContributionPayment and
\* syncGroupCompliance interleaved in every way, each failing anywhere).
THEOREM KeepsPromise == Spec => ImplementsSavings
<1>1. RInv /\ UNCHANGED vars => RInv'
  BY RInvStep
<1> QED BY RInvInit, RInvStep, RefineInit, RefineStep, PTL DEF Spec, ImplementsSavings, Savings!Spec

=============================================================================
