----------------------------- MODULE GroupCycle -----------------------------
(***************************************************************************)
(* One ACTIVE group with PayoutMode CYCLE, from its activation to its      *)
(* completion: members pay their daily contributions, cycle compliance     *)
(* marks them LATE and DEFAULTED, defaults are covered from deposits and   *)
(* reserves, and each cycle is finalized with a payout to one member.      *)
(*                                                                         *)
(* A $transaction is one step, except that of finalizeCycle, whose reads   *)
(* and commit are two.  What a handler reads before its transaction is     *)
(* kept in its own state, and anything may happen in between: a payment is *)
(* checked and settled in two steps, and syncGroupCompliance decides from  *)
(* one snapshot and applies its decisions member by member, in the order   *)
(* the database returned them (no orderBy: any order).                     *)
(***************************************************************************)
EXTENDS SharedFinance, Functions

CONSTANTS
    Members,        \* the ACTIVE members, one per slot
    TurnOrder,      \* TurnOrder[m], 1 .. n
    DaysPerCycle,
    DailyAmount,    \* contributionAmount, in minor units
    ServiceMarginBps,
    MaxReserveBps,  \* CONTRIBUTION_RESERVE_MAX_BPS, 0 if reserves are disabled
    DefaultGraceDays,
    AllowPayoutOverride,
    Handlers,       \* requests and jobs that run syncGroupCompliance or finalizeCycle
    MaxPaying,      \* bound: payments between their check and their settlement
    None

N == Cardinality(Members)
Cycles == 1..N

ASSUME GroupCycleAssumption ==
    /\ IsFiniteSet(Members) /\ N > 0
    /\ TurnOrder \in [Members -> Cycles]
    /\ \A x, y \in Members: TurnOrder[x] = TurnOrder[y] => x = y
    /\ DaysPerCycle \in Nat \ {0}
    /\ DailyAmount \in Nat \ {0}
    /\ ServiceMarginBps \in 0..BpsDenominator
    /\ MaxReserveBps \in 0..BpsDenominator
    /\ DefaultGraceDays \in Nat
    /\ AllowPayoutOverride \in BOOLEAN
    /\ MaxPaying \in Nat
    /\ None \notin Members

VARIABLES
    day,            \* calendar days since groupStartDate
    groupStatus,
    currentCycle,
    paidDayCount,   \* paidDayCount[c][m]; the row is PAID when it is DaysPerCycle
    repeats,        \* repeats[c][m]: the days of it that have no Payment and brought no money
    cycleStanding,
    effectivePayoutOrder,
    depositStatus,  \* HELD: the deposit is in the member's escrow
    recipient,      \* recipient[c] of cycle c's Payout row, None without one
    reserve,        \* reserve[c]: the reserve row created by cycle c's payout
    coverages,      \* DefaultCoverage rows
    pool,           \* GROUP_POOL balance
    available,      \* MEMBER_WALLET_AVAILABLE
    reserved,       \* MEMBER_WALLET_RESERVED
    paying,         \* payments that have passed their checks
    job             \* job[h]: what handler h is doing

moneyVars == <<pool, repeats, available, reserved>>
memberVars == <<cycleStanding, effectivePayoutOrder, depositStatus>>
groupVars == <<groupStatus, currentCycle, recipient>>
vars == <<day, groupVars, paidDayCount, memberVars, reserve, coverages,
          moneyVars, paying, job>>

MaxDay == N * DaysPerCycle + DefaultGraceDays + 1     \* every deadline has passed

Contribution == DailyAmount * DaysPerCycle
Gross == GrossPool(DailyAmount, N, DaysPerCycle)
\* Mutant: the margin is booked as revenue and not deducted.
NetUndeducted == Gross

Net == Gross - ServiceMargin(Gross, ServiceMarginBps)
Paid(c, m) == paidDayCount[c][m] = DaysPerCycle

NoReserve == [status |-> "NONE", original |-> 0, remaining |-> 0, released |-> 0,
              used |-> 0, units |-> 0, unitsReleased |-> 0]
Idle == [step |-> "idle", cycle |-> 0, todo |-> {}, recipient |-> None]

Init ==
    /\ day = 0
    /\ groupStatus = "ACTIVE"
    /\ currentCycle = 1
    /\ paidDayCount = [c \in Cycles |-> [m \in Members |-> 0]]
    /\ repeats = [c \in Cycles |-> [m \in Members |-> 0]]
    /\ cycleStanding = [m \in Members |-> "ACTIVE"]
    /\ effectivePayoutOrder = TurnOrder
    /\ depositStatus = [m \in Members |-> "HELD"]
    /\ recipient = [c \in Cycles |-> None]
    /\ reserve = [c \in Cycles |-> NoReserve]
    /\ coverages = {}
    /\ pool = 0
    /\ available = [m \in Members |-> 0]
    /\ reserved = [m \in Members |-> 0]
    /\ paying = {}
    /\ job = [h \in Handlers |-> Idle]

NextDay ==
    /\ day < MaxDay
    /\ day' = day + 1
    /\ UNCHANGED <<groupVars, paidDayCount, memberVars, reserve, coverages, moneyVars, paying, job>>

\* The cycles whose payout went to m and whose reserve is ACTIVE.
ActiveReserves(m) == {c \in Cycles: recipient[c] = m /\ reserve[c].status = "ACTIVE"}

-----------------------------------------------------------------------------
(* Payments. *)

\* The checks of recordContributionPayment, made before the transaction.  A payment is
\* repeated if its externalRef is that of a Payment of this contribution already: its
\* request is settled a second time.
CheckPayment(m) ==
    /\ groupStatus = "ACTIVE"
    /\ ~Paid(currentCycle, m)
    /\ Cardinality(paying) < MaxPaying
    /\ \E repeated \in BOOLEAN:
          /\ repeated => paidDayCount[currentCycle][m] > repeats[currentCycle][m]
          /\ paying' = paying \union
                {[member |-> m, cycle |-> currentCycle,
                  dayIndex |-> paidDayCount[currentCycle][m] + 1, repeated |-> repeated]}
    /\ UNCHANGED <<day, groupVars, paidDayCount, memberVars, reserve, coverages, moneyVars, job>>

\* Mutant: the row is not looked at again.
RecordableUnchecked(p) == TRUE

\* The row is still as the check has seen it: updateMany ... where paidDayCount.
Recordable(p) ==
    /\ ~Paid(p.cycle, p.member)
    /\ paidDayCount[p.cycle][p.member] = p.dayIndex - 1

\* Reserves a payment for cycle c unlocks a unit of: at most one, taken by findFirst.
Unlocks(r, c) ==
    /\ c > r
    /\ reserve[r].remaining > 0
    /\ reserve[r].unitsReleased < reserve[r].units

UnitRelease(r) ==
    NextReserveRelease(reserve[r].original, reserve[r].remaining,
                       reserve[r].units, reserve[r].unitsReleased)

\* tryReleaseOnPaymentSettledInTx, for the ACTIVE reserve r.
ReleaseUnit(r, m) ==
    LET amount == UnitRelease(r)
        left == reserve[r].remaining - amount
        units == reserve[r].unitsReleased + 1
    IN  /\ reserved[m] >= amount
        /\ reserved' = [reserved EXCEPT ![m] = @ - amount]
        /\ available' = [available EXCEPT ![m] = @ + amount]
        /\ reserve' = [reserve EXCEPT ![r] =
              [reserve[r] EXCEPT !.remaining = IF left > 0 THEN left ELSE 0,
                                 !.released = @ + amount,
                                 !.unitsReleased = units,
                                 !.status = IF left <= 0 \/ units >= reserve[r].units
                                            THEN "RELEASED" ELSE "ACTIVE"]]

\* recordContributionSettlement: the day, then the Payment, the four-line inflow and
\* the release, unless there is a Payment; the day is committed all the same.
Settle(p) ==
    /\ p \in paying
    /\ paying' = paying \ {p}
    /\ Recordable(p)
    /\ paidDayCount' = [paidDayCount EXCEPT ![p.cycle][p.member] = p.dayIndex]
    /\ IF p.repeated
       THEN /\ repeats' = [repeats EXCEPT ![p.cycle][p.member] = @ + 1]
            /\ UNCHANGED <<reserve, pool, available, reserved>>
       ELSE /\ pool' = pool + DailyAmount
            /\ UNCHANGED repeats
            /\ IF ActiveReserves(p.member) = {} THEN UNCHANGED <<reserve, available, reserved>>
               ELSE \E r \in ActiveReserves(p.member):
                       IF Unlocks(r, p.cycle) /\ UnitRelease(r) > 0
                       THEN ReleaseUnit(r, p.member)
                       ELSE UNCHANGED <<reserve, available, reserved>>
    /\ UNCHANGED <<day, groupVars, memberVars, coverages, job>>

\* The release the settlement of p would make is more than the account holds.
Refused(p) ==
    /\ ~p.repeated
    /\ \E r \in ActiveReserves(p.member):
          Unlocks(r, p.cycle) /\ UnitRelease(r) > reserved[p.member]

\* The settlement throws, or its process dies: nothing is recorded.
DropPayment(p) ==
    /\ p \in paying
    /\ paying' = paying \ {p}
    /\ UNCHANGED <<day, groupVars, paidDayCount, memberVars, reserve, coverages, moneyVars, job>>

-----------------------------------------------------------------------------
(* Cycle compliance. *)

CycleStart(c) == (c - 1) * DaysPerCycle
Overdue(c) == day > CycleStart(c) + DaysPerCycle + DefaultGraceDays
RequiredPaid(c) ==
    LET since == day - CycleStart(c)
    IN  IF since < 0 THEN 0 ELSE IF since > DaysPerCycle THEN DaysPerCycle ELSE since

\* What syncGroupCompliance will do about m, judged from what it has read.
Decision(m) ==
    LET standing == cycleStanding[m]
        late == paidDayCount[currentCycle][m] < RequiredPaid(currentCycle)
    IN  CASE Paid(currentCycle, m) ->
                 IF standing = "DEFAULTED" THEN "resolve"
                 ELSE IF standing = "LATE" THEN "active" ELSE "none"
          [] ~Paid(currentCycle, m) /\ standing = "DEFAULTED" -> "none"
          [] ~Paid(currentCycle, m) /\ standing # "DEFAULTED" ->
                 IF Overdue(currentCycle) THEN "default"
                 ELSE IF ~late THEN "active"
                 ELSE IF standing = "LATE" THEN "none" ELSE "late"

Decisions ==
    {d \in [member: Members, what: {"resolve", "active", "late", "default"}]:
        d.what = Decision(d.member)}

\* From the daily job, a group page, a recorded payment, or as the first thing
\* finalizeCycle does.
BeginSync(h) ==
    /\ job[h] = Idle
    /\ groupStatus = "ACTIVE"
    /\ job' = [job EXCEPT ![h] = [step |-> "sync", cycle |-> currentCycle,
                                  todo |-> Decisions, recipient |-> None]]
    /\ UNCHANGED <<day, groupVars, paidDayCount, memberVars, reserve, coverages, moneyVars, paying>>

Done(h, d) == job' = [job EXCEPT ![h].todo = @ \ {d}]

SetStanding(m, standing) == cycleStanding' = [cycleStanding EXCEPT ![m] = standing]

\* The unconditional updates to ACTIVE and LATE.
ApplyUpdate(h, d) ==
    /\ d.what \in {"active", "late"}
    /\ SetStanding(d.member, IF d.what = "late" THEN "LATE" ELSE "ACTIVE")
    /\ UNCHANGED <<effectivePayoutOrder, depositStatus, paidDayCount, reserve, coverages, moneyVars>>

\* onContributionFullySettled reads the standing again.
ApplyResolve(h, d) ==
    /\ d.what = "resolve"
    /\ IF cycleStanding[d.member] = "DEFAULTED" THEN SetStanding(d.member, "ACTIVE")
       ELSE UNCHANGED cycleStanding
    /\ UNCHANGED <<effectivePayoutOrder, depositStatus, paidDayCount, reserve, coverages, moneyVars>>

\* forfeitDepositForDefaulted: what goes from the escrow to the pool.
Forfeit(m) == IF depositStatus[m] = "HELD" THEN Contribution ELSE 0

\* coverDefaultFromReserveInTx, for the ACTIVE reserve r and the contribution of
\* m for cycle c.
Covered(r, c, m) == \E v \in coverages: v.reserve = r /\ v.cycle = c /\ v.member = m

CoverFromReserve(r, c, m) ==
    LET missed == MissedContribution(Contribution, DaysPerCycle, paidDayCount[c][m])
        cover == IF missed < reserve[r].remaining THEN missed ELSE reserve[r].remaining
        left == reserve[r].remaining - cover
    IN  /\ reserved[m] >= cover
        /\ reserved' = [reserved EXCEPT ![m] = @ - cover]
        /\ pool' = pool + Forfeit(m) + cover
        /\ reserve' = [reserve EXCEPT ![r] =
              [reserve[r] EXCEPT !.remaining = left,
                                 !.used = @ + cover,
                                 !.status = IF left <= 0 THEN "RELEASED" ELSE @]]
        /\ coverages' = coverages \union
              {[reserve |-> r, cycle |-> c, member |-> m, covered |-> cover, missed |-> missed]}
        /\ paidDayCount' = IF cover >= missed
                           THEN [paidDayCount EXCEPT ![c][m] = DaysPerCycle]
                           ELSE paidDayCount
        /\ UNCHANGED <<repeats, available>>

\* Whether the cover looks at a reserve that can still pay for c.
Coverable(r, c, m) == ~Covered(r, c, m) /\ reserve[r].remaining > 0

NoCover(m) ==
    /\ pool' = pool + Forfeit(m)
    /\ UNCHANGED <<paidDayCount, repeats, reserve, coverages, available, reserved>>

HasReceivedPayout(m) == \E c \in Cycles: recipient[c] = m

\* The default transaction: the standing, the deposit, then the reserve of a
\* member who has had the payout, or the end of the queue for one who has not.
ApplyDefault(h, d) ==
    LET m == d.member
        c == job[h].cycle
    IN  /\ d.what = "default"
        /\ SetStanding(m, "DEFAULTED")
        /\ depositStatus' = IF depositStatus[m] = "HELD"
                            THEN [depositStatus EXCEPT ![m] = "FORFEITED"] ELSE depositStatus
        /\ IF HasReceivedPayout(m)
           THEN /\ IF Paid(c, m) \/ ActiveReserves(m) = {} THEN NoCover(m)
                   ELSE \E r \in ActiveReserves(m):
                            IF Coverable(r, c, m) THEN CoverFromReserve(r, c, m) ELSE NoCover(m)
                /\ UNCHANGED effectivePayoutOrder
           ELSE /\ NoCover(m)
                /\ effectivePayoutOrder' = [effectivePayoutOrder EXCEPT ![m] =
                        1 + CHOOSE o \in {effectivePayoutOrder[x]: x \in Members}:
                                \A x \in Members: effectivePayoutOrder[x] <= o]

Apply(h) ==
    \E d \in job[h].todo:
        /\ ApplyUpdate(h, d) \/ ApplyResolve(h, d) \/ ApplyDefault(h, d)
        /\ Done(h, d)
        /\ UNCHANGED <<day, groupVars, paying>>

\* A sync that nothing follows is over; or its process died, a transaction failed or
\* a notification threw before it was.
Stop(h) ==
    /\ job[h] # Idle
    /\ job' = [job EXCEPT ![h] = Idle]
    /\ UNCHANGED <<day, groupVars, paidDayCount, memberVars, reserve, coverages, moneyVars, paying>>

-----------------------------------------------------------------------------
(* Finalizing a cycle. *)

\* Mutant: LATE members do not block either.
ReadyLate == \A m \in Members: Paid(currentCycle, m) \/ cycleStanding[m] # "ACTIVE"

\* assertCycleContributionsReadyForFinalize
Ready == \A m \in Members: Paid(currentCycle, m) \/ cycleStanding[m] = "DEFAULTED"

\* The queue: by effectivePayoutOrder; the rows come ordered by turnOrder and the
\* sort is stable.
Place == [m \in Members |-> Cardinality({x \in Members:
            \/ effectivePayoutOrder[x] < effectivePayoutOrder[m]
            \/ /\ effectivePayoutOrder[x] = effectivePayoutOrder[m]
               /\ TurnOrder[x] < TurnOrder[m]})]

Recipients == PayoutRecipients(Place, cycleStanding, currentCycle, AllowPayoutOverride)

\* finalizeCycle after its sync: the reads and checks of its transaction.
FinalizeRead(h) ==
    /\ job[h].step = "sync" /\ job[h].todo = {}
    /\ groupStatus = "ACTIVE" /\ currentCycle = job[h].cycle
    /\ Ready
    /\ \E m \in Recipients:
        job' = [job EXCEPT ![h].step = "commit", ![h].recipient = m]
    /\ UNCHANGED <<day, groupVars, paidDayCount, memberVars, reserve, coverages, moneyVars, paying>>

\* computeSplit and createReserveOnPayoutInTx
Reserve(c) ==
    LET amount == ReserveAmount(Net, ReserveBps(c, N, MaxReserveBps))
    IN  IF amount = 0 THEN NoReserve
        ELSE [NoReserve EXCEPT !.status = "ACTIVE", !.original = amount, !.remaining = amount,
                               !.units = PostPayoutUnits(c, N, DaysPerCycle)]

\* Mutant: the pool's balance is not looked at.
AllocateUnchecked(c, m) ==
    /\ recipient[c] = None
    /\ pool' = pool - Gross
    /\ recipient' = [recipient EXCEPT ![c] = m]

\* Mutant: the margin is not taken out of the pool.
AllocateNet(c, m) ==
    /\ recipient[c] = None
    /\ pool >= Gross
    /\ pool' = pool - Net
    /\ recipient' = [recipient EXCEPT ![c] = m]

\* The payout row, unique per cycle, and allocateCycleFinalizationInTx.
Allocate(c, m) ==
    /\ recipient[c] = None
    /\ pool >= Gross
    /\ pool' = pool - Gross
    /\ recipient' = [recipient EXCEPT ![c] = m]

\* A cycle that is not the last: the next one is opened.
CommitCycle(h) ==
    LET c == job[h].cycle
        m == job[h].recipient
    IN  /\ job[h].step = "commit" /\ c < N
        /\ Allocate(c, m)
        /\ reserve' = [reserve EXCEPT ![c] = Reserve(c)]
        /\ available' = [available EXCEPT ![m] = @ + Net - Reserve(c).original]
        /\ reserved' = [reserved EXCEPT ![m] = @ + Reserve(c).original]
        /\ currentCycle' = c + 1
        /\ cycleStanding' = [x \in Members |->
                IF cycleStanding[x] = "LATE" THEN "ACTIVE" ELSE cycleStanding[x]]
        /\ job' = [job EXCEPT ![h] = Idle]
        /\ UNCHANGED <<day, groupStatus, paidDayCount, repeats, effectivePayoutOrder, depositStatus,
                       coverages, paying>>

\* Mutant: only ACTIVE members get the deposit back.
DepositReleasedActive(m) == depositStatus[m] = "HELD" /\ cycleStanding[m] = "ACTIVE"

\* releaseAllHeldDepositsForGroup
DepositReleased(m) == depositStatus[m] = "HELD" /\ cycleStanding[m] # "DEFAULTED"

\* releaseAllActiveReservesOnGroupCompletedInTx; the sweep that follows it moves
\* what is left in the reserved account once no reserve is ACTIVE.
CloseReserve(r) ==
    IF reserve[r].status # "ACTIVE" THEN reserve[r]
    ELSE [reserve[r] EXCEPT !.released = @ + reserve[r].remaining, !.remaining = 0,
                            !.unitsReleased = reserve[r].units, !.status = "RELEASED"]

HasActiveReserve(m) == ActiveReserves(m) # {}

\* The last cycle (its payout has no reserve): the group is completed.
CommitLastCycle(h) ==
    LET c == job[h].cycle
        m == job[h].recipient
        swept(x) == IF HasActiveReserve(x) THEN reserved[x] ELSE 0
    IN  /\ job[h].step = "commit" /\ c = N
        /\ Allocate(c, m)
        /\ \A x \in Members:
              reserved[x] >= SumFunctionOnSet([r \in Cycles |-> reserve[r].remaining], ActiveReserves(x))
        /\ groupStatus' = "COMPLETED"
        /\ depositStatus' = [x \in Members |->
                IF DepositReleased(x) THEN "RELEASED" ELSE depositStatus[x]]
        /\ reserve' = [r \in Cycles |-> CloseReserve(r)]
        /\ reserved' = [x \in Members |-> reserved[x] - swept(x)]
        /\ available' = [x \in Members |->
                available[x] + swept(x) + (IF x = m THEN Net ELSE 0)
                             + (IF DepositReleased(x) THEN Contribution ELSE 0)]
        /\ job' = [job EXCEPT ![h] = Idle]
        /\ UNCHANGED <<day, currentCycle, paidDayCount, repeats, cycleStanding,
                       effectivePayoutOrder, coverages, paying>>

Work(h) == Apply(h) \/ FinalizeRead(h) \/ CommitCycle(h) \/ CommitLastCycle(h)

Next ==
    \/ NextDay
    \/ \E m \in Members: CheckPayment(m)
    \/ \E p \in paying: Settle(p) \/ DropPayment(p)
    \/ \E h \in Handlers: BeginSync(h) \/ Work(h) \/ Stop(h)

Spec == Init /\ [][Next]_vars

-----------------------------------------------------------------------------
(* Properties *)

ReserveRow == [status: {"NONE", "ACTIVE", "RELEASED"}, original: Nat, remaining: Nat,
               released: Nat, used: Nat, units: Nat, unitsReleased: Nat]
Job == [step: {"idle", "sync", "commit"}, cycle: 0..N,
        todo: SUBSET [member: Members, what: {"resolve", "active", "late", "default"}],
        recipient: Members \union {None}]

\* Types of the rows, the balances and the handlers' locals; no balance of the
\* group is negative.
TypeOK ==
    /\ day \in 0..MaxDay
    /\ groupStatus \in {"ACTIVE", "COMPLETED"}
    /\ currentCycle \in Cycles
    /\ paidDayCount \in [Cycles -> [Members -> 0..DaysPerCycle]]
    /\ repeats \in [Cycles -> [Members -> Nat]]
    /\ cycleStanding \in [Members -> {"ACTIVE", "LATE", "DEFAULTED"}]
    /\ effectivePayoutOrder \in [Members -> Nat]
    /\ depositStatus \in [Members -> {"HELD", "FORFEITED", "RELEASED"}]
    /\ recipient \in [Cycles -> Members \union {None}]
    /\ reserve \in [Cycles -> ReserveRow]
    /\ coverages \subseteq [reserve: Cycles, cycle: Cycles, member: Members,
                         covered: Nat, missed: Nat]
    /\ pool \in Nat
    /\ available \in [Members -> Nat]
    /\ reserved \in [Members -> Nat]
    /\ paying \subseteq [member: Members, cycle: Cycles, dayIndex: 1..DaysPerCycle,
                      repeated: BOOLEAN]
    /\ job \in [Handlers -> Job]

\* The pool holds what the contribution rows say was paid: every recorded day, every
\* partial cover and every forfeited deposit, less the payouts made, whichever of
\* a payment, a cover and a finalization overtakes another.  It is short of the rows
\* only by the days that repeated settlements have credited.
Forfeited == {m \in Members: depositStatus[m] = "FORFEITED"}
PartialCovers == {v \in coverages: v.covered < v.missed}

PoolMatchesContributions ==
    pool + Gross * Cardinality({c \in Cycles: recipient[c] # None})
         + DailyAmount * SumFunction([c \in Cycles |-> SumFunction(repeats[c])])
        = DailyAmount * SumFunction([c \in Cycles |-> SumFunction(paidDayCount[c])])
          + SumFunction([v \in PartialCovers |-> v.covered])
          + Contribution * Cardinality(Forfeited)

\* A member's reserved wallet holds what the reserve rows of the payouts to that
\* member say has been neither released nor used, and a row is ACTIVE as long as
\* some of it remains, in whatever order payments and covers draw on it.
ReserveAccounted ==
    /\ \A c \in Cycles: reserve[c].status = "ACTIVE" <=> reserve[c].remaining > 0
    /\ \A m \in Members:
        reserved[m] = SumFunctionOnSet(
            [c \in Cycles |-> reserve[c].original - reserve[c].released - reserve[c].used],
            {c \in Cycles: recipient[c] = m})

\* A cycle is paid out only when everyone's contribution to it is PAID or has been
\* answered for with a forfeited deposit, although standings change, and stale ones
\* are written back, between the checks of finalizeCycle and its commit.
PayoutBacked ==
    \A c \in Cycles: recipient[c] # None =>
        \A m \in Members: Paid(c, m) \/ depositStatus[m] = "FORFEITED"

\* In a group in which nobody has defaulted the payouts go round in turn order,
\* however syncs, payments and finalizations interleave.
FairRotation ==
    Forfeited = {} =>
        \A c \in Cycles: recipient[c] # None => TurnOrder[recipient[c]] = c

\* When the group is completed nothing of its members stays locked: no reserve is
\* ACTIVE, no deposit is HELD, and the reserved wallets are empty.
NothingLockedAtEnd ==
    groupStatus = "COMPLETED" =>
        /\ \A m \in Members: depositStatus[m] # "HELD" /\ reserved[m] = 0
        /\ \A c \in Cycles: reserve[c].status # "ACTIVE"

\* The group keeps the promise of a savings group, whatever its syncs, payments and
\* finalizations do to each other: cycles are paid out in order, each once, in full
\* and never on credit, and nothing but a payout takes money out of the pool.
Savings == INSTANCE RotatingSavings WITH
    Savers <- Members,
    Rounds <- N,
    Payout <- Gross,
    NoOne <- None,
    round <- IF groupStatus = "COMPLETED" THEN N + 1 ELSE currentCycle,
    receiver <- recipient,
    pool <- pool

ImplementsSavings == Savings!Spec

\* "Keep contributing on time to unlock the rest of your reserve"
\* (default-protection.messages.ts:6): a due contribution that has passed its checks
\* is not refused because of the reserve it should unlock.
DuePaymentAccepted == \A p \in paying: Recordable(p) => ~Refused(p)

=============================================================================
