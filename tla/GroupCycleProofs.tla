-------------------------- MODULE GroupCycleProofs --------------------------
(***************************************************************************)
(* PayoutBacked and FairRotation for any number of members, days and       *)
(* handlers, and any amounts: no payout is made for a cycle that somebody  *)
(* has neither paid nor answered for with a deposit, and in a group nobody *)
(* has defaulted in the payouts go round in turn order.                    *)
(***************************************************************************)
EXTENDS GroupCycle, FiniteSetTheorems, TLAPS

\* The types of what the argument is about; the amounts play no part in it.
Shape ==
    /\ groupStatus \in {"ACTIVE", "COMPLETED"}
    /\ currentCycle \in Cycles
    /\ paidDayCount \in [Cycles -> [Members -> 0..DaysPerCycle]]
    /\ cycleStanding \in [Members -> {"ACTIVE", "LATE", "DEFAULTED"}]
    /\ depositStatus \in [Members -> {"HELD", "FORFEITED", "RELEASED"}]
    /\ recipient \in [Cycles -> Members \union {None}]
    /\ paying \subseteq [member: Members, cycle: Cycles, dayIndex: 1..DaysPerCycle, repeated: BOOLEAN]
    /\ job \in [Handlers -> Job]
    /\ \A h \in Handlers: job[h] # Idle => job[h].cycle \in Cycles

\* Everyone has paid for cycle c or has lost the deposit.
Answered(c) == \A m \in Members: Paid(c, m) \/ depositStatus[m] = "FORFEITED"

\* A DEFAULTED member's deposit is gone while the group is ACTIVE: it is forfeited
\* in the transaction that writes DEFAULTED, and deposits are only given back by
\* the one that completes the group.
DefaultForfeits ==
    \A m \in Members:
        /\ cycleStanding[m] = "DEFAULTED" => depositStatus[m] # "HELD"
        /\ depositStatus[m] = "RELEASED" => groupStatus = "COMPLETED"

\* What finalizeCycle has checked still holds when it commits.
CommitAnswered ==
    \A h \in Handlers: job[h].step = "commit" => Answered(job[h].cycle)

GInv == Shape /\ DefaultForfeits /\ CommitAnswered /\ PayoutBacked

-----------------------------------------------------------------------------
LEMMA NType == N \in Nat \ {0}
  BY GroupCycleAssumption, FS_CardinalityType DEF N

LEMMA IdleType == Idle \in Job
  BY NType DEF Idle, Job

\* A payment is recorded one day after the last, of a contribution not yet PAID.
LEMMA SettleFacts ==
    ASSUME Shape, NEW p \in paying, Settle(p)
    PROVE  /\ p \in [member: Members, cycle: Cycles, dayIndex: 1..DaysPerCycle, repeated: BOOLEAN]
           /\ ~Paid(p.cycle, p.member)
           /\ paidDayCount' = [paidDayCount EXCEPT ![p.cycle][p.member] = p.dayIndex]
           /\ paying' = paying \ {p}
           /\ UNCHANGED <<groupVars, memberVars, job>>
  <1> USE DEF Settle, Recordable
  <1>1. paying \subseteq [member: Members, cycle: Cycles, dayIndex: 1..DaysPerCycle, repeated: BOOLEAN]
    BY DEF Shape
  <1> QED BY <1>1

\* The default transaction, as far as it matters here.
LEMMA DefaultFacts ==
    ASSUME Shape, NEW h \in Handlers, NEW d, ApplyDefault(h, d)
    PROVE  /\ SetStanding(d.member, "DEFAULTED")
           /\ depositStatus' = IF depositStatus[d.member] = "HELD"
                               THEN [depositStatus EXCEPT ![d.member] = "FORFEITED"]
                               ELSE depositStatus
           /\ \/ paidDayCount' = paidDayCount
              \/ paidDayCount' = [paidDayCount EXCEPT ![job[h].cycle][d.member] = DaysPerCycle]
  <1>1. \/ NoCover(d.member)
        \/ \E r \in ActiveReserves(d.member): CoverFromReserve(r, job[h].cycle, d.member)
    BY Zenon DEF ApplyDefault
  <1>2. \/ paidDayCount' = paidDayCount
        \/ paidDayCount' = [paidDayCount EXCEPT ![job[h].cycle][d.member] = DaysPerCycle]
    BY <1>1, Zenon DEF NoCover, CoverFromReserve
  <1> QED BY <1>2, Zenon DEF ApplyDefault

\* An applied decision was in the sync's list, which it leaves.
LEMMA ApplyFacts ==
    ASSUME Shape, NEW h \in Handlers, Apply(h)
    PROVE  \E d \in job[h].todo:
              /\ d \in [member: Members, what: {"resolve", "active", "late", "default"}]
              /\ ApplyUpdate(h, d) \/ ApplyResolve(h, d) \/ ApplyDefault(h, d)
              /\ Done(h, d)
              /\ UNCHANGED <<groupVars, paying>>
  <1>1. PICK d \in job[h].todo:
              /\ ApplyUpdate(h, d) \/ ApplyResolve(h, d) \/ ApplyDefault(h, d)
              /\ Done(h, d)
              /\ UNCHANGED <<day, groupVars, paying>>
    BY DEF Apply
  <1>2. d \in [member: Members, what: {"resolve", "active", "late", "default"}]
    BY <1>1 DEF Shape, Job
  <1> QED BY <1>1, <1>2

-----------------------------------------------------------------------------
(* Types *)

\* Only one handler's locals change.
LEMMA JobType ==
    ASSUME Shape, NEW h \in Handlers, NEW j \in Job, j # Idle => j.cycle \in Cycles,
           job' = [job EXCEPT ![h] = j]
    PROVE  /\ job' \in [Handlers -> Job]
           /\ \A x \in Handlers: job'[x] # Idle => job'[x].cycle \in Cycles
  BY DEF Shape

LEMMA ShapeStep == Shape /\ [Next]_vars => Shape'
<1> SUFFICES ASSUME Shape, [Next]_vars PROVE Shape'
  OBVIOUS
<1> USE DEF groupVars, memberVars, moneyVars
<1>0. N \in Nat \ {0} /\ DaysPerCycle \in Nat \ {0} /\ Idle \in Job
  BY NType, IdleType, GroupCycleAssumption
<1>1. CASE UNCHANGED vars
  BY <1>1 DEF vars, Shape
<1>2. CASE NextDay
  BY <1>2 DEF NextDay, Shape
<1>3. ASSUME NEW m \in Members, CheckPayment(m) PROVE Shape'
  <2>0. /\ paidDayCount[currentCycle][m] \in 0..DaysPerCycle
        /\ paidDayCount[currentCycle][m] # DaysPerCycle
    BY <1>3 DEF Shape, CheckPayment, Paid
  <2>1. paidDayCount[currentCycle][m] + 1 \in 1..DaysPerCycle
    BY <1>0, <2>0
  <2> QED BY <1>3, <2>1 DEF Shape, CheckPayment
<1>4. ASSUME NEW p \in paying, Settle(p) PROVE Shape'
  <2>0. /\ p \in [member: Members, cycle: Cycles, dayIndex: 1..DaysPerCycle, repeated: BOOLEAN]
        /\ paidDayCount' = [paidDayCount EXCEPT ![p.cycle][p.member] = p.dayIndex]
        /\ paying' = paying \ {p}
        /\ UNCHANGED <<groupVars, memberVars, job>>
    BY <1>4, SettleFacts, Zenon
  <2>1. p.member \in Members /\ p.cycle \in Cycles /\ p.dayIndex \in 0..DaysPerCycle
    BY <1>0, <2>0
  <2>2. paidDayCount' \in [Cycles -> [Members -> 0..DaysPerCycle]]
    BY <2>0, <2>1 DEF Shape
  <2> QED BY <2>0, <2>2 DEF Shape
<1>5. ASSUME NEW p \in paying, DropPayment(p) PROVE Shape'
  BY <1>5 DEF DropPayment, Shape
<1>6. ASSUME NEW h \in Handlers, BeginSync(h) PROVE Shape'
  <2> DEFINE j == [step |-> "sync", cycle |-> currentCycle, todo |-> Decisions, recipient |-> None]
  <2>1. Decisions \subseteq [member: Members, what: {"resolve", "active", "late", "default"}]
    BY DEF Decisions
  <2>2. j \in Job /\ j.cycle \in Cycles
    BY <1>0, <2>1 DEF Job, Shape, Cycles
  <2>3. job' = [job EXCEPT ![h] = j]
    BY <1>6 DEF BeginSync
  <2> HIDE DEF j
  <2>4. /\ job' \in [Handlers -> Job]
        /\ \A x \in Handlers: job'[x] # Idle => job'[x].cycle \in Cycles
    BY <2>2, <2>3, JobType
  <2> QED BY <1>6, <2>4 DEF BeginSync, Shape
<1>7. ASSUME NEW h \in Handlers, Apply(h) PROVE Shape'
  <2>1. PICK d \in job[h].todo:
              /\ d \in [member: Members, what: {"resolve", "active", "late", "default"}]
              /\ ApplyUpdate(h, d) \/ ApplyResolve(h, d) \/ ApplyDefault(h, d)
              /\ Done(h, d)
              /\ UNCHANGED <<groupVars, paying>>
    BY <1>7, ApplyFacts
  <2>2. job[h] # Idle /\ job[h] \in Job /\ job[h].cycle \in Cycles
    BY <2>1 DEF Idle, Shape
  <2>3. /\ job' \in [Handlers -> Job]
        /\ \A x \in Handlers: job'[x] # Idle => job'[x].cycle \in Cycles
    <3> DEFINE j == [job[h] EXCEPT !.todo = @ \ {d}]
    <3>1. j \in Job /\ j.cycle \in Cycles
      BY <2>2 DEF Job
    <3>2. job' = [job EXCEPT ![h] = Idle] \/ job' = [job EXCEPT ![h] = j]
      BY <2>1, <2>2 DEF Done, Shape
    <3> HIDE DEF j
    <3> QED BY <1>0, <3>1, <3>2, JobType
  <2>4. /\ cycleStanding' \in [Members -> {"ACTIVE", "LATE", "DEFAULTED"}]
        /\ depositStatus' \in [Members -> {"HELD", "FORFEITED", "RELEASED"}]
        /\ paidDayCount' \in [Cycles -> [Members -> 0..DaysPerCycle]]
    <3>1. CASE ApplyUpdate(h, d) \/ ApplyResolve(h, d)
      BY <2>1, <3>1 DEF ApplyUpdate, ApplyResolve, SetStanding, Shape
    <3>2. CASE ApplyDefault(h, d)
      <4>0. /\ SetStanding(d.member, "DEFAULTED")
            /\ depositStatus' = IF depositStatus[d.member] = "HELD"
                                THEN [depositStatus EXCEPT ![d.member] = "FORFEITED"]
                                ELSE depositStatus
            /\ \/ paidDayCount' = paidDayCount
               \/ paidDayCount' = [paidDayCount EXCEPT ![job[h].cycle][d.member] = DaysPerCycle]
        BY <3>2, DefaultFacts, Zenon
      <4>1. DaysPerCycle \in 0..DaysPerCycle /\ d.member \in Members
        BY <1>0, <2>1
      <4>2. paidDayCount' \in [Cycles -> [Members -> 0..DaysPerCycle]]
        <5>1. CASE paidDayCount' = paidDayCount
          BY <5>1 DEF Shape
        <5>2. CASE paidDayCount' =
                    [paidDayCount EXCEPT ![job[h].cycle][d.member] = DaysPerCycle]
          BY <2>2, <4>1, <5>2 DEF Shape
        <5> QED BY <4>0, <5>1, <5>2
      <4> QED BY <4>0, <4>1, <4>2 DEF SetStanding, Shape
    <3> QED BY <2>1, <3>1, <3>2
  <2> QED BY <2>1, <2>3, <2>4 DEF Shape
<1>8. ASSUME NEW h \in Handlers, Stop(h) PROVE Shape'
  BY <1>0, <1>8, JobType DEF Stop, Shape
<1>9. ASSUME NEW h \in Handlers, FinalizeRead(h) PROVE Shape'
  <2>1. PICK m \in Recipients: job' = [job EXCEPT ![h].step = "commit", ![h].recipient = m]
    BY <1>9 DEF FinalizeRead
  <2> DEFINE j == [job[h] EXCEPT !.step = "commit", !.recipient = m]
  <2>2. m \in Members
    BY DEF Recipients, PayoutRecipients, Place
  <2>3. j \in Job /\ j.cycle \in Cycles
    BY <1>9, <2>2 DEF FinalizeRead, Shape, Job
  <2>4. job' = [job EXCEPT ![h] = j]
    BY <2>1 DEF Shape
  <2> HIDE DEF j
  <2>5. /\ job' \in [Handlers -> Job]
        /\ \A x \in Handlers: job'[x] # Idle => job'[x].cycle \in Cycles
    BY <2>3, <2>4, JobType
  <2> QED BY <1>9, <2>5 DEF FinalizeRead, Shape
<1>10. ASSUME NEW h \in Handlers, CommitCycle(h) PROVE Shape'
  <2>1. job[h].cycle \in Cycles /\ job[h].recipient \in Members \union {None}
    BY <1>10 DEF CommitCycle, Shape, Job, Idle
  <2>2. job[h].cycle + 1 \in Cycles
    BY <1>0, <1>10, <2>1 DEF CommitCycle, Cycles
  <2>3. recipient' \in [Cycles -> Members \union {None}]
    BY <1>10, <2>1 DEF CommitCycle, Allocate, Shape
  <2>4. cycleStanding' \in [Members -> {"ACTIVE", "LATE", "DEFAULTED"}]
    BY <1>10 DEF CommitCycle, Shape
  <2>5. /\ job' \in [Handlers -> Job]
        /\ \A x \in Handlers: job'[x] # Idle => job'[x].cycle \in Cycles
    BY <1>0, <1>10, JobType DEF CommitCycle
  <2> QED BY <1>10, <2>2, <2>3, <2>4, <2>5 DEF CommitCycle, Shape
<1>11. ASSUME NEW h \in Handlers, CommitLastCycle(h) PROVE Shape'
  <2>1. job[h].recipient \in Members \union {None}
    BY <1>11 DEF Shape, Job
  <2>2. recipient' \in [Cycles -> Members \union {None}]
    BY <1>11, <2>1 DEF CommitLastCycle, Allocate, Shape
  <2>3. depositStatus' \in [Members -> {"HELD", "FORFEITED", "RELEASED"}]
    BY <1>11 DEF CommitLastCycle, Shape
  <2>4. /\ job' \in [Handlers -> Job]
        /\ \A x \in Handlers: job'[x] # Idle => job'[x].cycle \in Cycles
    BY <1>0, <1>11, JobType DEF CommitLastCycle
  <2> QED BY <1>11, <2>2, <2>3, <2>4 DEF CommitLastCycle, Shape
<1> QED BY <1>1, <1>2, <1>3, <1>4, <1>5, <1>6, <1>7, <1>8, <1>9, <1>10, <1>11
        DEF Next, BeginSync, Work

-----------------------------------------------------------------------------
(* What has been answered for stays so. *)

\* No step takes a full payment back.
LEMMA PaidKept ==
    ASSUME Shape, [Next]_vars, NEW c \in Cycles, NEW m \in Members, Paid(c, m)
    PROVE  Paid(c, m)'
<1> USE DEF Paid
<1>1. ASSUME UNCHANGED paidDayCount PROVE Paid(c, m)'
  BY <1>1
<1>2. ASSUME NEW p \in paying, Settle(p) PROVE Paid(c, m)'
  <2>1. /\ p.member \in Members /\ p.cycle \in Cycles
        /\ ~Paid(p.cycle, p.member)
        /\ paidDayCount' = [paidDayCount EXCEPT ![p.cycle][p.member] = p.dayIndex]
    <3>1. /\ p \in [member: Members, cycle: Cycles, dayIndex: 1..DaysPerCycle, repeated: BOOLEAN]
          /\ ~Paid(p.cycle, p.member)
          /\ paidDayCount' = [paidDayCount EXCEPT ![p.cycle][p.member] = p.dayIndex]
      BY <1>2, SettleFacts, Zenon
    <3> QED BY <3>1
  <2> QED BY <2>1 DEF Shape
<1>3. ASSUME NEW h \in Handlers, Apply(h) PROVE Paid(c, m)'
  <2>1. PICK d \in job[h].todo:
              /\ d \in [member: Members, what: {"resolve", "active", "late", "default"}]
              /\ ApplyUpdate(h, d) \/ ApplyResolve(h, d) \/ ApplyDefault(h, d)
    BY <1>3, ApplyFacts
  <2>2. \/ paidDayCount' = paidDayCount
        \/ paidDayCount' = [paidDayCount EXCEPT ![job[h].cycle][d.member] = DaysPerCycle]
    <3>1. CASE ApplyDefault(h, d)
      BY <3>1, DefaultFacts, Zenon
    <3> QED BY <2>1, <3>1 DEF ApplyUpdate, ApplyResolve
  <2>3. CASE paidDayCount' = [paidDayCount EXCEPT ![job[h].cycle][d.member] = DaysPerCycle]
    BY <2>3 DEF Shape
  <2> QED BY <1>1, <2>2, <2>3
<1> QED BY <1>1, <1>2, <1>3
        DEF Next, Work, vars, NextDay, CheckPayment, DropPayment, BeginSync,
            Stop, FinalizeRead, CommitCycle, CommitLastCycle

\* Deposits change by the default transaction and at completion only.
LEMMA DepositFacts ==
    ASSUME Shape, [Next]_vars
    PROVE  \/ UNCHANGED depositStatus
           \/ \E m \in Members:
                /\ depositStatus[m] = "HELD"
                /\ depositStatus' = [depositStatus EXCEPT ![m] = "FORFEITED"]
                /\ UNCHANGED groupStatus
                /\ SetStanding(m, "DEFAULTED")
           \/ /\ depositStatus' = [x \in Members |->
                    IF DepositReleased(x) THEN "RELEASED" ELSE depositStatus[x]]
              /\ groupStatus' = "COMPLETED"
              /\ UNCHANGED cycleStanding
<1>1. ASSUME NEW h \in Handlers, Apply(h)
      PROVE  \/ UNCHANGED depositStatus
             \/ \E m \in Members:
                  /\ depositStatus[m] = "HELD"
                  /\ depositStatus' = [depositStatus EXCEPT ![m] = "FORFEITED"]
                  /\ UNCHANGED groupStatus
                  /\ SetStanding(m, "DEFAULTED")
  <2>1. PICK d \in job[h].todo:
              /\ d \in [member: Members, what: {"resolve", "active", "late", "default"}]
              /\ ApplyUpdate(h, d) \/ ApplyResolve(h, d) \/ ApplyDefault(h, d)
              /\ UNCHANGED <<groupVars, paying>>
    BY <1>1, ApplyFacts
  <2>2. CASE ApplyDefault(h, d)
    <3>1. /\ SetStanding(d.member, "DEFAULTED")
          /\ depositStatus' = IF depositStatus[d.member] = "HELD"
                              THEN [depositStatus EXCEPT ![d.member] = "FORFEITED"]
                              ELSE depositStatus
      BY <2>2, DefaultFacts, Zenon
    <3> QED BY <2>1, <3>1 DEF groupVars
  <2> QED BY <2>1, <2>2 DEF ApplyUpdate, ApplyResolve
<1>2. ASSUME NEW h \in Handlers, CommitLastCycle(h)
      PROVE  /\ depositStatus' = [x \in Members |->
                    IF DepositReleased(x) THEN "RELEASED" ELSE depositStatus[x]]
             /\ groupStatus' = "COMPLETED"
             /\ UNCHANGED cycleStanding
  BY <1>2 DEF CommitLastCycle
<1> QED BY <1>1, <1>2
        DEF Next, Work, vars, memberVars, NextDay, CheckPayment, Settle, DropPayment,
            BeginSync, Stop, FinalizeRead, CommitCycle

LEMMA AnsweredKept ==
    ASSUME Shape, [Next]_vars, NEW c \in Cycles, Answered(c)
    PROVE  Answered(c)'
<1> SUFFICES ASSUME NEW m \in Members
             PROVE  Paid(c, m)' \/ depositStatus'[m] = "FORFEITED"
  BY DEF Answered
<1>1. CASE Paid(c, m)
  BY <1>1, PaidKept
<1>2. CASE depositStatus[m] = "FORFEITED"
  BY <1>2, DepositFacts DEF Shape, DepositReleased
<1> QED BY <1>1, <1>2 DEF Answered

-----------------------------------------------------------------------------
(* The invariant *)

\* A step writes DEFAULTED only with the deposit's forfeiture.
LEMMA StandingFacts ==
    ASSUME Shape, [Next]_vars, NEW m \in Members,
           cycleStanding'[m] = "DEFAULTED", cycleStanding[m] # "DEFAULTED"
    PROVE  depositStatus'[m] # "HELD"
<1>1. ASSUME UNCHANGED cycleStanding PROVE FALSE
  BY <1>1
<1>2. ASSUME NEW h \in Handlers, Apply(h) PROVE depositStatus'[m] # "HELD"
  <2>1. PICK d \in job[h].todo:
              /\ d \in [member: Members, what: {"resolve", "active", "late", "default"}]
              /\ ApplyUpdate(h, d) \/ ApplyResolve(h, d) \/ ApplyDefault(h, d)
    BY <1>2, ApplyFacts
  <2>2. CASE ApplyUpdate(h, d) \/ ApplyResolve(h, d)
    BY <2>1, <2>2 DEF ApplyUpdate, ApplyResolve, SetStanding, Shape
  <2>3. CASE ApplyDefault(h, d)
    <3>1. /\ SetStanding(d.member, "DEFAULTED")
          /\ depositStatus' = IF depositStatus[d.member] = "HELD"
                              THEN [depositStatus EXCEPT ![d.member] = "FORFEITED"]
                              ELSE depositStatus
      BY <2>3, DefaultFacts, Zenon
    <3> QED BY <2>1, <3>1 DEF SetStanding, Shape
  <2> QED BY <2>1, <2>2, <2>3
<1>3. ASSUME NEW h \in Handlers, CommitCycle(h) PROVE FALSE
  BY <1>3 DEF CommitCycle, Shape
<1> QED BY <1>1, <1>2, <1>3
        DEF Next, Work, vars, memberVars, NextDay, CheckPayment, Settle, DropPayment,
            BeginSync, Stop, FinalizeRead, CommitLastCycle

\* A completed group stays completed.
LEMMA CompletedKept ==
    ASSUME [Next]_vars, groupStatus = "COMPLETED"
    PROVE  groupStatus' = "COMPLETED"
  BY DEF Next, Work, vars, groupVars, NextDay, CheckPayment, Settle, DropPayment,
         BeginSync, Stop, FinalizeRead, CommitCycle, CommitLastCycle, Apply

LEMMA DefaultForfeitsStep ==
    ASSUME Shape, DefaultForfeits, [Next]_vars
    PROVE  DefaultForfeits'
<1> SUFFICES ASSUME NEW m \in Members
             PROVE  /\ cycleStanding'[m] = "DEFAULTED" => depositStatus'[m] # "HELD"
                    /\ depositStatus'[m] = "RELEASED" => groupStatus' = "COMPLETED"
  BY DEF DefaultForfeits
<1>0. Shape /\ DefaultForfeits
  OBVIOUS
<1>1. ASSUME cycleStanding'[m] = "DEFAULTED" PROVE depositStatus'[m] # "HELD"
  <2>1. CASE cycleStanding[m] = "DEFAULTED"
    BY <1>0, <2>1, DepositFacts DEF DefaultForfeits, Shape, DepositReleased
  <2> QED BY <1>0, <1>1, <2>1, StandingFacts
<1>2. ASSUME depositStatus'[m] = "RELEASED" PROVE groupStatus' = "COMPLETED"
  <2>1. CASE depositStatus[m] = "RELEASED"
    BY <1>0, <2>1, CompletedKept DEF DefaultForfeits
  <2> QED BY <1>0, <1>2, <2>1, DepositFacts DEF Shape
<1> QED BY <1>1, <1>2

\* A handler comes to its commit through the checks of FinalizeRead.
LEMMA CommitAnsweredStep ==
    ASSUME GInv, [Next]_vars
    PROVE  CommitAnswered'
<1> SUFFICES ASSUME NEW h \in Handlers, job'[h].step = "commit", NEW c, c = job'[h].cycle
             PROVE  Answered(c)'
  BY DEF CommitAnswered, Answered, Paid
<1>0. Shape /\ DefaultForfeits /\ CommitAnswered
  BY DEF GInv
<1>1. CASE job'[h].cycle = job[h].cycle /\ job[h].step = "commit"
  <2>1. c \in Cycles /\ Answered(c)
    BY <1>0, <1>1 DEF Shape, Idle, CommitAnswered
  <2> QED BY <1>0, <2>1, AnsweredKept
<1>2. CASE FinalizeRead(h)
  <2>1. c = currentCycle /\ c \in Cycles
    BY <1>0, <1>2 DEF FinalizeRead, Shape, Job
  <2>2. Answered(c)
    BY <1>0, <1>2, <2>1 DEF FinalizeRead, Ready, Answered, DefaultForfeits, Shape
  <2> QED BY <1>0, <2>1, <2>2, AnsweredKept
<1>3. ASSUME NEW x \in Handlers, x # h, FinalizeRead(x)
      PROVE  job'[h].cycle = job[h].cycle /\ job[h].step = "commit"
  BY <1>0, <1>3 DEF FinalizeRead, Shape
<1>4. ASSUME NEW x \in Handlers, Apply(x)
      PROVE  job'[h].cycle = job[h].cycle /\ job[h].step = "commit"
  <2>1. PICK d: Done(x, d)
    BY <1>4 DEF Apply
  <2> QED BY <1>0, <2>1 DEF Done, Shape, Idle, Job
<1>5. ASSUME NEW x \in Handlers, BeginSync(x)
      PROVE  job'[h].cycle = job[h].cycle /\ job[h].step = "commit"
  BY <1>0, <1>5 DEF BeginSync, Shape
<1>6. ASSUME NEW x \in Handlers, Stop(x) \/ CommitCycle(x) \/ CommitLastCycle(x)
      PROVE  job'[h].cycle = job[h].cycle /\ job[h].step = "commit"
  BY <1>0, <1>6 DEF Stop, CommitCycle, CommitLastCycle, Shape, Idle
<1>7. CASE UNCHANGED job
  BY <1>1, <1>7
<1> QED BY <1>1, <1>2, <1>3, <1>4, <1>5, <1>6, <1>7
        DEF Next, Work, vars, NextDay, CheckPayment, Settle, DropPayment,
            BeginSync

LEMMA PayoutBackedStep ==
    ASSUME GInv, [Next]_vars
    PROVE  PayoutBacked'
<1>0. Shape /\ CommitAnswered /\ PayoutBacked
  BY DEF GInv
<1> SUFFICES ASSUME NEW c \in Cycles, recipient'[c] # None
             PROVE  Answered(c)'
  BY DEF PayoutBacked, Answered
<1>1. ASSUME recipient[c] # None PROVE Answered(c)
  BY <1>0, <1>1 DEF PayoutBacked, Answered
<1>2. ASSUME NEW h \in Handlers, CommitCycle(h) \/ CommitLastCycle(h), recipient[c] = None
      PROVE  Answered(c)
  <2>1. job[h].cycle = c /\ job[h].step = "commit"
    BY <1>0, <1>2 DEF CommitCycle, CommitLastCycle, Allocate, Shape
  <2> QED BY <1>0, <2>1 DEF CommitAnswered
<1>3. recipient' = recipient \/ \E h \in Handlers: CommitCycle(h) \/ CommitLastCycle(h)
  BY DEF Next, Work, vars, groupVars, NextDay, CheckPayment, Settle, DropPayment,
         BeginSync, Stop, FinalizeRead, Apply
<1> QED BY <1>0, <1>1, <1>2, <1>3, AnsweredKept

LEMMA InitGInv == Init => GInv
<1> SUFFICES ASSUME Init PROVE GInv
  OBVIOUS
<1>1. N \in Nat \ {0} /\ DaysPerCycle \in Nat \ {0} /\ Idle \in Job /\ Idle.step = "idle"
  BY NType, IdleType, GroupCycleAssumption DEF Idle
<1>2. Shape
  BY <1>1 DEF Init, Shape, Cycles
<1> QED BY <1>1, <1>2 DEF Init, GInv, DefaultForfeits, CommitAnswered, PayoutBacked

\* No cycle is paid out on behalf of somebody who has neither paid nor lost the
\* deposit, whatever happens between the checks and the commit of finalizeCycle.
THEOREM PayoutsBacked == Spec => []PayoutBacked
<1>1. Init => GInv
  BY InitGInv
<1>2. GInv /\ [Next]_vars => GInv'
  BY ShapeStep, DefaultForfeitsStep, CommitAnsweredStep, PayoutBackedStep DEF GInv
<1>3. GInv => PayoutBacked
  BY DEF GInv
<1> QED BY <1>1, <1>2, <1>3, PTL DEF Spec

-----------------------------------------------------------------------------
(* The rotation *)

\* While nobody has forfeited a deposit the queue is the turn order, and a handler
\* about to commit pays the member whose turn the cycle is.
InTurn ==
    /\ groupStatus = "ACTIVE" /\ Forfeited = {} => effectivePayoutOrder = TurnOrder
    /\ Forfeited = {} => \A h \in Handlers:
          job[h].step = "commit" => /\ job[h].recipient \in Members
                                    /\ TurnOrder[job[h].recipient] = job[h].cycle

FairInv == Shape /\ DefaultForfeits /\ InTurn /\ FairRotation

LEMMA TurnOrderOnto == TurnOrder \in Bijection(Members, Cycles)
<1>1. N \in Nat /\ IsFiniteSet(Cycles) /\ Cardinality(Cycles) = N
  BY NType, FS_Interval DEF Cycles
<1>2. IsFiniteSet(Members) /\ Cardinality(Members) = N
  BY GroupCycleAssumption DEF N
<1>3. TurnOrder \in Injection(Members, Cycles)
  BY GroupCycleAssumption DEF Injection, IsInjective
<1>4. TurnOrder \in Surjection(Members, Cycles)
  BY <1>1, <1>2, <1>3, FS_Injection
<1> QED BY <1>3, <1>4 DEF Bijection

\* The place of a member in a queue that is the turn order.
LEMMA PlaceInTurn ==
    ASSUME effectivePayoutOrder = TurnOrder, NEW m \in Members
    PROVE  Place[m] = TurnOrder[m] - 1
<1> DEFINE before == {x \in Members: TurnOrder[x] < TurnOrder[m]}
           first == 1..(TurnOrder[m] - 1)
           f == [x \in before |-> TurnOrder[x]]
<1>1. /\ TurnOrder[m] \in 1..N /\ N \in Nat
      /\ \A x \in Members: TurnOrder[x] \in 1..N
      /\ \A x, y \in Members: TurnOrder[x] = TurnOrder[y] => x = y
  BY NType, GroupCycleAssumption DEF Cycles
<1>2. IsFiniteSet(before)
  BY FS_Subset, GroupCycleAssumption
<1>3. f \in Injection(before, first)
  BY <1>1 DEF Injection, IsInjective
<1>4. f \in Surjection(before, first)
  <2>1. ASSUME NEW k \in first PROVE \E x \in before: f[x] = k
    <3>1. k \in Cycles
      BY <1>1 DEF Cycles
    <3>2. PICK x \in Members: TurnOrder[x] = k
      BY <3>1, TurnOrderOnto DEF Bijection, Surjection
    <3> QED BY <1>1, <3>2
  <2> QED BY <1>3, <2>1 DEF Surjection, Injection
<1>5. ExistsBijection(before, first)
  BY <1>3, <1>4 DEF ExistsBijection, Bijection
<1>6. Cardinality(first) = Cardinality(before)
  BY <1>2, <1>5, FS_Bijection
<1>7. Cardinality(first) = TurnOrder[m] - 1
  BY <1>1, FS_Interval
<1>8. {x \in Members:
          \/ effectivePayoutOrder[x] < effectivePayoutOrder[m]
          \/ /\ effectivePayoutOrder[x] = effectivePayoutOrder[m]
             /\ TurnOrder[x] < TurnOrder[m]} = before
  BY <1>1
<1> QED BY <1>6, <1>7, <1>8 DEF Place

LEMMA ModFacts ==
    ASSUME NEW n \in Nat \ {0}, NEW i \in 1..n, NEW k \in 1..n
    PROVE  /\ (i - k) % n >= 0
           /\ (i - k) % n <= 0 => i = k
           /\ (k - k) % n = 0
OBVIOUS

\* Without a default the recipient of a cycle is the member whose turn it is.
LEMMA RecipientInTurn ==
    ASSUME NEW m \in Recipients, effectivePayoutOrder = TurnOrder, currentCycle \in Cycles,
           \A x \in Members: cycleStanding[x] # "DEFAULTED"
    PROVE  m \in Members /\ TurnOrder[m] = currentCycle
<1> DEFINE c == currentCycle
           distance(x) == (Place[x] - (c - 1)) % N
<1>1. DOMAIN Place = Members /\ Cardinality(Members) = N
  BY DEF Place, N
<1>2. m \in Members /\ \A x \in Members: distance(m) <= distance(x)
  BY <1>1 DEF Recipients, PayoutRecipients
<1>3. N \in Nat \ {0} /\ c \in 1..N /\ \A x \in Members: TurnOrder[x] \in 1..N
  BY NType, GroupCycleAssumption DEF Cycles
<1>4. \A x \in Members: distance(x) = (TurnOrder[x] - c) % N
  <2> TAKE x \in Members
  <2>1. Place[x] - (c - 1) = TurnOrder[x] - c
    BY <1>3, PlaceInTurn
  <2> QED BY <2>1
<1>5. PICK x \in Members: TurnOrder[x] = c
  BY TurnOrderOnto DEF Bijection, Surjection
<1>6. (TurnOrder[m] - c) % N <= (c - c) % N
  BY <1>2, <1>4, <1>5
<1> QED BY <1>2, <1>3, <1>6, ModFacts

\* Forfeited deposits stay forfeited.
LEMMA ForfeitedKept ==
    ASSUME Shape, [Next]_vars, Forfeited' = {}
    PROVE  Forfeited = {}
<1> SUFFICES ASSUME NEW m \in Members, depositStatus[m] = "FORFEITED"
             PROVE  depositStatus'[m] = "FORFEITED"
  BY DEF Forfeited
<1> QED BY DepositFacts DEF Shape, DepositReleased

\* The queue changes by a default only.
LEMMA QueueFacts ==
    ASSUME FairInv, [Next]_vars, groupStatus' = "ACTIVE", Forfeited' = {}
    PROVE  UNCHANGED effectivePayoutOrder
<1>1. Forfeited = {} /\ groupStatus = "ACTIVE"
  BY ForfeitedKept, CompletedKept DEF FairInv, Shape
<1>2. ASSUME NEW h \in Handlers, Apply(h) PROVE UNCHANGED effectivePayoutOrder
  <2>1. PICK d \in job[h].todo:
              /\ d \in [member: Members, what: {"resolve", "active", "late", "default"}]
              /\ ApplyUpdate(h, d) \/ ApplyResolve(h, d) \/ ApplyDefault(h, d)
    BY <1>2, ApplyFacts DEF FairInv
  <2>2. ASSUME ApplyDefault(h, d) PROVE FALSE
    <3>1. depositStatus' = IF depositStatus[d.member] = "HELD"
                           THEN [depositStatus EXCEPT ![d.member] = "FORFEITED"]
                           ELSE depositStatus
      BY <2>2, Zenon DEF ApplyDefault
    <3>2. depositStatus[d.member] = "HELD"
      BY <1>1, <2>1 DEF FairInv, Shape, DefaultForfeits, Forfeited
    <3>3. depositStatus'[d.member] = "FORFEITED" /\ d.member \in Members
      BY <2>1, <3>1, <3>2 DEF FairInv, Shape
    <3> QED BY <3>3 DEF Forfeited
  <2> QED BY <2>1, <2>2 DEF ApplyUpdate, ApplyResolve
<1> QED BY <1>2 DEF Next, Work, vars, memberVars, NextDay, CheckPayment, Settle, DropPayment,
                    BeginSync, Stop, FinalizeRead, CommitCycle, CommitLastCycle

LEMMA InTurnStep ==
    ASSUME FairInv, [Next]_vars
    PROVE  InTurn'
<1>0. Shape /\ DefaultForfeits /\ InTurn
  BY DEF FairInv
<1>1. ASSUME groupStatus' = "ACTIVE", Forfeited' = {} PROVE effectivePayoutOrder' = TurnOrder
  <2>1. Forfeited = {} /\ groupStatus = "ACTIVE"
    BY <1>0, <1>1, ForfeitedKept, CompletedKept DEF Shape
  <2>2. UNCHANGED effectivePayoutOrder
    BY <1>1, QueueFacts
  <2> QED BY <1>0, <2>1, <2>2 DEF InTurn
<1>2. ASSUME Forfeited' = {}, NEW h \in Handlers, job'[h].step = "commit"
      PROVE  job'[h].recipient \in Members /\ TurnOrder[job'[h].recipient] = job'[h].cycle
  <2>0. Forfeited = {}
    BY <1>0, <1>2, ForfeitedKept
  <2>1. CASE /\ job'[h].cycle = job[h].cycle /\ job[h].step = "commit"
             /\ job'[h].recipient = job[h].recipient
    BY <1>0, <2>0, <2>1 DEF InTurn
  <2>2. CASE FinalizeRead(h)
    <3>1. PICK m \in Recipients: job' = [job EXCEPT ![h].step = "commit", ![h].recipient = m]
      BY <2>2 DEF FinalizeRead
    <3>2. job'[h].recipient = m /\ job'[h].cycle = currentCycle
      BY <1>0, <2>2, <3>1 DEF FinalizeRead, Shape, Job
    <3>3. \A x \in Members: cycleStanding[x] # "DEFAULTED"
      BY <1>0, <2>0, <2>2 DEF FinalizeRead, DefaultForfeits, Forfeited, Shape
    <3>4. effectivePayoutOrder = TurnOrder /\ currentCycle \in Cycles
      BY <1>0, <2>0, <2>2 DEF FinalizeRead, InTurn, Shape
    <3> QED BY <3>2, <3>3, <3>4, RecipientInTurn
  <2>3. ASSUME NEW x \in Handlers, x # h, FinalizeRead(x)
        PROVE  job'[h] = job[h]
    BY <1>0, <2>3 DEF FinalizeRead, Shape
  <2>4. ASSUME NEW x \in Handlers, Apply(x)
        PROVE  /\ job'[h].cycle = job[h].cycle /\ job[h].step = "commit"
               /\ job'[h].recipient = job[h].recipient
    <3>1. PICK d: Done(x, d)
      BY <2>4 DEF Apply
    <3> QED BY <1>0, <1>2, <3>1 DEF Done, Shape, Idle, Job
  <2>5. ASSUME NEW x \in Handlers, BeginSync(x)
        PROVE  job'[h] = job[h]
    BY <1>0, <1>2, <2>5 DEF BeginSync, Shape
  <2>6. ASSUME NEW x \in Handlers, Stop(x) \/ CommitCycle(x) \/ CommitLastCycle(x)
        PROVE  job'[h] = job[h]
    BY <1>0, <1>2, <2>6 DEF Stop, CommitCycle, CommitLastCycle, Shape, Idle
  <2>7. CASE job'[h] = job[h]
    BY <1>2, <2>1, <2>7
  <2>8. CASE UNCHANGED job
    BY <2>7, <2>8
  <2>9. \/ UNCHANGED job
        \/ \E x \in Handlers: \/ FinalizeRead(x) \/ Apply(x) \/ BeginSync(x)
                              \/ Stop(x) \/ CommitCycle(x) \/ CommitLastCycle(x)
    BY DEF Next, Work, vars, NextDay, CheckPayment, Settle, DropPayment
  <2> QED BY <2>1, <2>2, <2>3, <2>4, <2>5, <2>6, <2>7, <2>8, <2>9
<1> QED BY <1>1, <1>2 DEF InTurn

LEMMA FairRotationStep ==
    ASSUME FairInv, [Next]_vars
    PROVE  FairRotation'
<1>0. Shape /\ InTurn /\ FairRotation
  BY DEF FairInv
<1> SUFFICES ASSUME Forfeited' = {}, NEW c \in Cycles, recipient'[c] # None
             PROVE  TurnOrder[recipient'[c]] = c
  BY DEF FairRotation
<1>1. Forfeited = {}
  BY <1>0, ForfeitedKept
<1>2. ASSUME NEW h \in Handlers, CommitCycle(h) \/ CommitLastCycle(h)
      PROVE  TurnOrder[recipient'[c]] = c
  <2>1. /\ job[h].step = "commit"
        /\ recipient' = [recipient EXCEPT ![job[h].cycle] = job[h].recipient]
    BY <1>2 DEF CommitCycle, CommitLastCycle, Allocate
  <2>2. TurnOrder[job[h].recipient] = job[h].cycle
    BY <1>0, <1>1, <2>1 DEF InTurn
  <2>3. CASE job[h].cycle = c
    BY <1>0, <2>1, <2>2, <2>3 DEF Shape
  <2>4. CASE job[h].cycle # c
    BY <1>0, <1>1, <2>1, <2>4 DEF Shape, FairRotation
  <2> QED BY <2>3, <2>4
<1>3. recipient' = recipient \/ \E h \in Handlers: CommitCycle(h) \/ CommitLastCycle(h)
  BY DEF Next, Work, vars, groupVars, NextDay, CheckPayment, Settle, DropPayment,
         BeginSync, Stop, FinalizeRead, Apply
<1>4. CASE recipient' = recipient
  BY <1>0, <1>1, <1>4 DEF FairRotation
<1> QED BY <1>2, <1>3, <1>4

\* In a group of any size in which no deposit has been forfeited every payout goes to
\* the member whose turn it is (selectPayoutRecipient with effectivePayoutOrder),
\* although the recipient is chosen from rows that others may change before the commit.
THEOREM FairInTurn == Spec => []FairRotation
<1>1. Init => FairInv
  <2> SUFFICES ASSUME Init PROVE FairInv
    OBVIOUS
  <2>1. Shape /\ DefaultForfeits
    BY InitGInv DEF GInv
  <2>2. InTurn
    BY DEF Init, InTurn, Idle
  <2>3. FairRotation
    BY DEF Init, FairRotation
  <2> QED BY <2>1, <2>2, <2>3 DEF FairInv
<1>2. FairInv /\ [Next]_vars => FairInv'
  <2> SUFFICES ASSUME FairInv, [Next]_vars PROVE FairInv'
    OBVIOUS
  <2>1. Shape' /\ DefaultForfeits'
    BY ShapeStep, DefaultForfeitsStep DEF FairInv
  <2> QED BY <2>1, InTurnStep, FairRotationStep DEF FairInv
<1>3. FairInv => FairRotation
  BY DEF FairInv
<1> QED BY <1>1, <1>2, <1>3, PTL DEF Spec

=============================================================================
