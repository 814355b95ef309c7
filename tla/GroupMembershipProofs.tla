------------------------ MODULE GroupMembershipProofs ------------------------
(***************************************************************************)
(* DebtorsHaveDeposited, GroupsStartFull, DepositsAccounted and TypeOK for *)
(* any number of groups, users and requests, and any amounts.  The first   *)
(* two are about the deposit a row records, which never changes once the   *)
(* row exists; the balances are then the sums of what the rows record.     *)
(***************************************************************************)
EXTENDS GroupMembership, SumLemmas

\* u has a row and, unless g was ever DAILY, a deposit with it.
Secured(g, u) == member[g][u] # NoRow /\ (g \in wasDaily \/ member[g][u].depositAmount > 0)
Debtors(g) == {u \in Users: contributions[g][u] > 0}

Shape ==
    /\ groupStatus \in [Groups -> {"NONE", "DRAFT", "ACTIVE", "COMPLETED"}]
    /\ memberSlots \in [Groups -> 0..MaxSlots]
    /\ required \in [Groups -> Nat]
    /\ wasDaily \subseteq Groups
    /\ member \in [Groups -> [Users -> Row]]
    /\ contributions \in [Groups -> [Users -> Nat]]
    /\ task \in [Requests -> Task]

\* What a group that exists asks for.
GroupsAsk ==
    \A g \in Groups: groupStatus[g] # "NONE" =>
        memberSlots[g] >= MinSlots /\ (g \in wasDaily \/ required[g] > 0)

\* A row is missing, or in a group that was always CYCLE it records a deposit.
RowsDeposited ==
    \A g \in Groups, u \in Users: member[g][u] = NoRow \/ Secured(g, u)

\* Of whoever owes a contribution.
DebtorsSecured == \A g \in Groups, u \in Users: contributions[g][u] > 0 => Secured(g, u)

\* A request that will write a row brings a deposit with it, unless it read a group that
\* was DAILY, and one that will activate a group has read enough members.
GoodTask(t) ==
    /\ t.op # "idle" => t.group \in Groups /\ groupStatus[t.group] # "NONE"
    /\ t.op \in {"join", "replace"} => t.user \in Users
    /\ t.op = "replace" => t.other \in Users /\ Secured(t.group, t.other)
    /\ t.op \in {"join", "replace"} => t.group \in wasDaily \/ t.deposit > 0
    /\ t.op = "update" => t.slots >= MinSlots
    /\ t.op = "activate" =>
          /\ Cardinality(t.roster) >= MinSlots
          /\ \A u \in t.roster: Secured(t.group, u)

TasksGood == \A r \in Requests: GoodTask(task[r])

MInv ==
    /\ Shape /\ GroupsAsk /\ RowsDeposited /\ TasksGood
    /\ DebtorsSecured /\ GroupsStartFull

\* What no step does: a group does not disappear, nor its having been DAILY, and a row
\* does not lose its deposit.
Grows ==
    /\ wasDaily \subseteq wasDaily'
    /\ \A g \in Groups: groupStatus[g] # "NONE" => groupStatus'[g] # "NONE"
    /\ \A g \in Groups, u \in Users: Secured(g, u) => Secured(g, u)'

-----------------------------------------------------------------------------
LEMMA NoTaskType == NoTask \in Task /\ NoRow \in Row
  BY MembershipAssumption DEF NoTask, Task, NoRow, Row

LEMMA MInvInit == Init => MInv
<1> SUFFICES ASSUME Init PROVE MInv
  OBVIOUS
<1>1. Shape
  BY NoTaskType, MembershipAssumption DEF Init, Shape
<1>2. GroupsAsk /\ RowsDeposited /\ TasksGood
  BY DEF Init, GroupsAsk, RowsDeposited, TasksGood, GoodTask, NoTask
<1>3. DebtorsSecured /\ GroupsStartFull
  BY DEF Init, DebtorsSecured, GroupsStartFull
<1> QED BY <1>1, <1>2, <1>3 DEF MInv

\* The requests that a step does not serve, and the one it ends, are no obstacle.
LEMMA TasksStay ==
    ASSUME Shape, TasksGood, Grows, \A r \in Requests: task'[r] = task[r] \/ task'[r] = NoTask
    PROVE  TasksGood'
<1> SUFFICES ASSUME NEW r \in Requests PROVE GoodTask(task[r])'
  BY DEF TasksGood
<1>1. CASE task'[r] = NoTask
  BY <1>1 DEF GoodTask, NoTask
<1>2. CASE task'[r] = task[r]
  <2>1. GoodTask(task[r]) /\ task[r].roster \subseteq Users
    BY DEF TasksGood, Shape, Task
  <2> QED BY <1>2, <2>1 DEF GoodTask, Grows, Secured
<1> QED BY <1>1, <1>2

\* Finish gives the task variable its type.
LEMMA FinishType ==
    ASSUME Shape, NEW r \in Requests, Finish(r)
    PROVE  /\ task' \in [Requests -> Task]
           /\ \A x \in Requests: task'[x] = task[x] \/ task'[x] = NoTask
  BY NoTaskType DEF Shape, Finish

\* Enough debtors stay enough when no debtor is lost.
LEMMA MoreDebtors ==
    ASSUME NEW S, NEW T, S \subseteq T, T \subseteq Users, Cardinality(S) >= MinSlots
    PROVE  Cardinality(T) >= MinSlots
<1>1. IsFiniteSet(T)
  BY MembershipAssumption, FS_Subset
<1>2. Cardinality(S) \in Nat /\ Cardinality(T) \in Nat /\ Cardinality(S) <= Cardinality(T)
  BY <1>1, FS_Subset, FS_CardinalityType
<1> QED BY <1>2, MembershipAssumption

\* When one debtor makes room for somebody who was none.
LEMMA SwapDebtor ==
    ASSUME NEW S, NEW T, NEW x, NEW y, S \subseteq Users, T \subseteq Users,
           y \notin S, (S \ {x}) \union {y} \subseteq T, Cardinality(S) >= MinSlots
    PROVE  Cardinality(T) >= MinSlots
<1> DEFINE R == S \ {x}
<1>1. IsFiniteSet(S) /\ IsFiniteSet(T) /\ IsFiniteSet(R)
  BY MembershipAssumption, FS_Subset
<1>2. Cardinality(R) >= Cardinality(S) - 1 /\ Cardinality(S) \in Nat /\ Cardinality(R) \in Nat
  BY <1>1, FS_RemoveElement, FS_CardinalityType
<1>3. IsFiniteSet(R \union {y}) /\ Cardinality(R \union {y}) = Cardinality(R) + 1
  BY <1>1, FS_AddElement
<1>4. Cardinality(R \union {y}) <= Cardinality(T) /\ Cardinality(T) \in Nat
  BY <1>1, FS_Subset, FS_CardinalityType
<1> QED BY <1>2, <1>3, <1>4, MembershipAssumption

\* No update of a row forgets the deposit it records.
LEMMA RowUpdates ==
    ASSUME NEW row \in Row
    PROVE  /\ LET left == [row EXCEPT !.status = "LEFT"]
              IN  left \in Row /\ left.depositAmount = row.depositAmount
                  /\ left.status = "LEFT"
           /\ LET defaulted == [row EXCEPT !.standing = "DEFAULTED",
                                   !.depositStatus = IF @ = "HELD" THEN "FORFEITED" ELSE @]
              IN  defaulted \in Row /\ defaulted.depositAmount = row.depositAmount
                  /\ defaulted.status = row.status
           /\ LET resolved == [row EXCEPT !.standing = "ACTIVE"]
              IN  resolved \in Row /\ resolved.depositAmount = row.depositAmount
                  /\ resolved.status = row.status
           /\ LET released == [row EXCEPT !.depositStatus = "RELEASED"]
              IN  released \in Row /\ released.depositAmount = row.depositAmount
                  /\ released.depositStatus = "RELEASED"
  BY DEF Row

-----------------------------------------------------------------------------
(* The steps. *)

\* A request begins: nothing but its task changes.
LEMMA BeginKeeps ==
    ASSUME MInv, NEW r \in Requests, NEW t \in Task, GoodTask(t), Begin(r, t)
    PROVE  MInv'
<1> USE DEF Begin, groupVars, moneyVars
<1>1. Shape'
  BY DEF MInv, Shape
<1>2. GroupsAsk' /\ RowsDeposited' /\ DebtorsSecured' /\ GroupsStartFull'
  BY DEF MInv, GroupsAsk, RowsDeposited, Secured, DebtorsSecured, GroupsStartFull
<1>3. TasksGood'
  <2> SUFFICES ASSUME NEW x \in Requests PROVE GoodTask(task[x])'
    BY DEF TasksGood
  <2>1. GoodTask(task'[x])
    BY DEF MInv, Shape, TasksGood
  <2> QED BY <2>1 DEF GoodTask, Secured
<1> QED BY <1>1, <1>2, <1>3 DEF MInv

LEMMA BeginSteps ==
    ASSUME MInv, NEW r \in Requests, NEW g \in Groups
    PROVE  /\ \A u \in Users: BeginJoin(r, g, u) \/ BeginAdd(r, g, u) => MInv'
           /\ \A slots \in MinSlots..MaxSlots, deposit \in Deposits:
                BeginUpdate(r, g, slots, deposit) => MInv'
           /\ BeginActivate(r, g) => MInv'
           /\ \A old, new \in Users: BeginReplace(r, g, old, new) => MInv'
<1> USE DEF MInv
<1>a. groupStatus[g] # "NONE" =>
         memberSlots[g] >= MinSlots /\ (g \in wasDaily \/ required[g] > 0)
  BY DEF Shape, GroupsAsk
<1>n. /\ MaxSlots \in Nat /\ MinSlots \in Nat /\ 0 \in 0..MaxSlots
      /\ {} \subseteq Users /\ required[g] \in Nat
  BY MembershipAssumption DEF Shape
<1>1. ASSUME NEW u \in Users, BeginJoin(r, g, u) \/ BeginAdd(r, g, u) PROVE MInv'
  <2>1. Begin(r, JoinTask(g, u)) /\ groupStatus[g] # "NONE"
    BY <1>1 DEF BeginJoin, BeginAdd, AcceptsNewMembers
  <2>2. JoinTask(g, u) \in Task
    BY <1>n DEF JoinTask, NoTask, Task
  <2>3. GoodTask(JoinTask(g, u))
    BY <1>a, <2>1 DEF JoinTask, NoTask, GoodTask
  <2> QED BY <2>1, <2>2, <2>3, BeginKeeps
<1>2. ASSUME NEW slots \in MinSlots..MaxSlots, NEW deposit \in Deposits,
             BeginUpdate(r, g, slots, deposit)
      PROVE  MInv'
  <2> DEFINE t == [NoTask EXCEPT !.op = "update", !.group = g, !.slots = slots, !.deposit = deposit]
  <2>1. Begin(r, t) /\ groupStatus[g] # "NONE"
    BY <1>2 DEF BeginUpdate
  <2>2. deposit \in Nat /\ slots \in 0..MaxSlots /\ slots >= MinSlots
    BY <1>n, MembershipAssumption
  <2>3. t \in Task /\ GoodTask(t)
    BY <1>n, <2>1, <2>2 DEF NoTask, Task, GoodTask
  <2> HIDE DEF t
  <2> QED BY <2>1, <2>3, BeginKeeps
<1>3. ASSUME BeginActivate(r, g) PROVE MInv'
  <2> DEFINE t == [NoTask EXCEPT !.op = "activate", !.group = g, !.roster = ActiveMembers(g)]
  <2>1. Begin(r, t) /\ groupStatus[g] # "NONE" /\ SlotsFilled(g)
    BY <1>3 DEF BeginActivate
  <2>2. \A u \in ActiveMembers(g): u \in Users /\ Secured(g, u)
    BY DEF ActiveMembers, RowsDeposited, NoRow
  <2>3. Cardinality(ActiveMembers(g)) >= MinSlots
    BY <1>a, <2>1 DEF SlotsFilled
  <2>4. t \in Task /\ GoodTask(t)
    BY <1>n, <2>1, <2>2, <2>3 DEF NoTask, Task, GoodTask
  <2> HIDE DEF t
  <2> QED BY <2>1, <2>4, BeginKeeps
<1>4. ASSUME NEW old \in Users, NEW new \in Users, BeginReplace(r, g, old, new) PROVE MInv'
  <2> DEFINE t == [NoTask EXCEPT !.op = "replace", !.group = g, !.user = new, !.other = old,
                                 !.deposit = required[g]]
  <2>1. Begin(r, t) /\ groupStatus[g] # "NONE"
    BY <1>4 DEF BeginReplace
  <2>3. Secured(g, old)
    BY <1>4 DEF BeginReplace, ActiveMembers, RowsDeposited, NoRow
  <2>2. t \in Task /\ GoodTask(t)
    BY <1>n, <1>a, <2>1, <2>3 DEF NoTask, Task, GoodTask
  <2> HIDE DEF t
  <2> QED BY <2>1, <2>2, BeginKeeps
<1> QED BY <1>1, <1>2, <1>3, <1>4

LEMMA JoinStep == ASSUME MInv, NEW r \in Requests, CommitJoin(r) PROVE MInv'
<1> DEFINE g == task[r].group
           u == task[r].user
           d == task[r].deposit
<1>0. /\ g \in Groups /\ u \in Users /\ d \in Nat /\ (g \in wasDaily \/ d > 0)
      /\ member[g][u] = NoRow
      /\ member' = [member EXCEPT ![g][u] = NewRow(d)]
      /\ NewRow(d) \in Row /\ NewRow(d).depositAmount = d /\ NewRow(d).status = "ACTIVE"
      /\ Finish(r) /\ UNCHANGED <<groupStatus, memberSlots, required, wasDaily, contributions>>
  BY DEF MInv, Shape, TasksGood, GoodTask, CommitJoin, Hold, Task, NewRow, Row, groupVars
<1> HIDE DEF g, u, d
<1>1. \A h \in Groups, x \in Users: member'[h][x] = IF h = g /\ x = u THEN NewRow(d) ELSE member[h][x]
  BY <1>0 DEF MInv, Shape
<1>2. Shape'
  BY <1>0, FinishType DEF MInv, Shape
<1>n. NewRow(d) # NoRow
  BY <1>0 DEF NoRow
<1>3. Grows
  BY <1>0, <1>1 DEF Grows, Secured
<1>4. GroupsAsk' /\ RowsDeposited'
  BY <1>0, <1>1, <1>n DEF MInv, GroupsAsk, RowsDeposited, Secured
<1>5. TasksGood'
  BY <1>0, <1>3, FinishType, TasksStay DEF MInv
<1>6. DebtorsSecured' /\ GroupsStartFull'
  BY <1>0, <1>3 DEF MInv, Grows, Secured, DebtorsSecured, GroupsStartFull
<1> QED BY <1>2, <1>4, <1>5, <1>6 DEF MInv

LEMMA UpdateStep ==
    ASSUME MInv, NEW r \in Requests, CommitUpdate(r)
    PROVE  MInv'
<1> DEFINE t == task[r]
<1>0. /\ t \in Task /\ t.group \in Groups /\ t.slots >= MinSlots /\ t.deposit \in Nat
      /\ memberSlots' = [memberSlots EXCEPT ![t.group] = t.slots]
      /\ required' = [required EXCEPT ![t.group] = t.deposit]
      /\ wasDaily' = IF t.deposit = 0 THEN wasDaily \union {t.group} ELSE wasDaily
      /\ Finish(r) /\ UNCHANGED <<groupStatus, member, contributions>>
  BY DEF MInv, Shape, TasksGood, GoodTask, CommitUpdate, Ask, Task
<1> HIDE DEF t
<1>1. Shape'
  BY <1>0, FinishType DEF MInv, Shape, Task
<1>2. GroupsAsk'
  BY <1>0 DEF MInv, Shape, GroupsAsk
<1>3. TasksGood'
  <2>1. Grows
    BY <1>0 DEF Grows, Secured
  <2> QED BY <1>0, <2>1, FinishType, TasksStay DEF MInv
<1>4. RowsDeposited' /\ DebtorsSecured' /\ GroupsStartFull'
  BY <1>0 DEF MInv, RowsDeposited, Secured, DebtorsSecured, GroupsStartFull
<1> QED BY <1>1, <1>2, <1>3, <1>4 DEF MInv

LEMMA ActivateStep == ASSUME MInv, NEW r \in Requests, CommitActivate(r) PROVE MInv'
<1> DEFINE g == task[r].group
           R == task[r].roster
           more == [u \in Users |-> IF u \in R THEN contributions[g][u] + 1 ELSE contributions[g][u]]
<1>0. /\ g \in Groups /\ R \subseteq Users /\ Cardinality(R) >= MinSlots
      /\ \A u \in R: Secured(g, u)
      /\ groupStatus[g] # "NONE"
      /\ groupStatus' = [groupStatus EXCEPT ![g] = "ACTIVE"]
      /\ contributions' = [contributions EXCEPT ![g] = more]
      /\ Finish(r) /\ UNCHANGED <<memberSlots, required, wasDaily, member>>
  BY DEF MInv, Shape, TasksGood, GoodTask, CommitActivate, Task
<1>m. more \in [Users -> Nat] /\ \A u \in R: more[u] > 0
  BY <1>0 DEF MInv, Shape
<1>u. \A u \in Users \ R: more[u] = contributions[g][u]
  OBVIOUS
<1> HIDE DEF g, R, more
<1>1. Shape'
  BY <1>0, <1>m, FinishType DEF MInv, Shape
<1>2. GroupsAsk'
  BY <1>0 DEF MInv, Shape, GroupsAsk
<1>3. TasksGood'
  <2>1. Grows
    BY <1>0 DEF MInv, Shape, Grows, Secured
  <2> QED BY <1>0, <2>1, FinishType, TasksStay DEF MInv
<1>4. RowsDeposited'
  BY <1>0 DEF MInv, RowsDeposited, Secured
<1>5. DebtorsSecured'
  BY <1>0, <1>u DEF MInv, Shape, DebtorsSecured, Secured
<1>6. GroupsStartFull'
  <2> SUFFICES ASSUME NEW h \in Groups, groupStatus'[h] \in {"ACTIVE", "COMPLETED"}
               PROVE  Cardinality(Debtors(h)') >= MinSlots
    BY DEF GroupsStartFull, Debtors
  <2>1. CASE h = g
    <3>1. R \subseteq Debtors(h)' /\ Debtors(h)' \subseteq Users
      BY <1>0, <1>m, <2>1 DEF Debtors, MInv, Shape
    <3> QED BY <1>0, <3>1, MoreDebtors
  <2>2. CASE h # g
    <3>1. groupStatus'[h] = groupStatus[h] /\ Debtors(h)' = Debtors(h)
      BY <1>0, <2>2 DEF MInv, Shape, Debtors
    <3> QED BY <3>1 DEF MInv, GroupsStartFull, Debtors
  <2> QED BY <2>1, <2>2
<1> QED BY <1>1, <1>2, <1>3, <1>4, <1>5, <1>6 DEF MInv

LEMMA ReplaceStep == ASSUME MInv, NEW r \in Requests, CommitReplace(r) PROVE MInv'
<1> DEFINE g == task[r].group
           old == task[r].other
           new == task[r].user
           d == task[r].deposit
           left == [member[g][old] EXCEPT !.status = "LEFT"]
           after == {u \in Users: contributions'[g][u] > 0}
<1>0. /\ g \in Groups /\ old \in Users /\ new \in Users /\ d \in Nat
      /\ g \in wasDaily \/ d > 0
      /\ member[g][new] = NoRow /\ Secured(g, old)
      /\ member' = [member EXCEPT ![g][old].status = "LEFT", ![g][new] = NewRow(d)]
      /\ NewRow(d) \in Row /\ NewRow(d).depositAmount = d /\ NewRow(d).status = "ACTIVE"
      /\ contributions' = IF contributions[g][old] = 0 THEN contributions
                          ELSE [contributions EXCEPT ![g][old] = @ - 1, ![g][new] = @ + 1]
      /\ Finish(r) /\ UNCHANGED <<groupStatus, memberSlots, required, wasDaily>>
  BY DEF MInv, Shape, TasksGood, GoodTask, CommitReplace, TakeOver, Task, NewRow, Row, groupVars
<1>d. /\ member[g][old] \in Row /\ member \in [Groups -> [Users -> Row]]
      /\ contributions \in [Groups -> [Users -> Nat]]
      /\ \A u \in Users: contributions[g][u] > 0 => Secured(g, u)
  BY <1>0 DEF MInv, Shape, DebtorsSecured
<1> HIDE DEF g, old, new, d
<1>l. left \in Row /\ left # NoRow /\ (g \in wasDaily \/ left.depositAmount > 0)
  <2>1. left \in Row /\ left.depositAmount = member[g][old].depositAmount
    BY <1>d, RowUpdates
  <2>2. left.status = "LEFT"
    BY <1>d DEF Row
  <2> QED BY <1>0, <2>1, <2>2 DEF Secured, NoRow
<1>o. ~Secured(g, new) /\ NewRow(d) # NoRow
  BY <1>0 DEF Secured, NoRow
<1>e. old # new
  BY <1>0, <1>o
<1>n. contributions[g][new] = 0
  BY <1>0, <1>d, <1>o
<1>r. /\ member' \in [Groups -> [Users -> Row]]
      /\ \A h \in Groups, x \in Users:
            member'[h][x] = IF h = g /\ x = new THEN NewRow(d)
                            ELSE IF h = g /\ x = old THEN left ELSE member[h][x]
  BY <1>0, <1>d, <1>e, <1>l
<1>t. /\ contributions' \in [Groups -> [Users -> Nat]]
      /\ \/ UNCHANGED contributions
         \/ /\ contributions[g][old] > 0
            /\ \A h \in Groups, x \in Users:
                  contributions'[h][x] = IF h = g /\ x = new THEN 1
                                         ELSE IF h = g /\ x = old THEN contributions[g][old] - 1
                                         ELSE contributions[h][x]
  <2>1. CASE contributions[g][old] = 0
    BY <1>0, <1>d, <2>1
  <2>2. CASE contributions[g][old] # 0
    <3> DEFINE row == [contributions[g] EXCEPT ![old] = contributions[g][old] - 1, ![new] = 1]
    <3>1. row \in [Users -> Nat]
      BY <1>0, <1>d, <2>2
    <3>2. contributions' = [contributions EXCEPT ![g] = row]
      BY <1>0, <1>d, <1>e, <1>n, <2>2
    <3> QED BY <1>0, <1>d, <1>e, <2>2, <3>1, <3>2
  <2> QED BY <1>0, <1>d, <2>1, <2>2
<1>c. \A h \in Groups, x \in Users:
         contributions'[h][x] > 0 => contributions[h][x] > 0 \/ (h = g /\ x = new)
  BY <1>0, <1>d, <1>t
<1>s. \/ UNCHANGED contributions
      \/ /\ \A h \in Groups \ {g}, x \in Users: contributions'[h][x] = contributions[h][x]
         /\ (Debtors(g) \ {old}) \union {new} \subseteq after
  BY <1>0, <1>d, <1>t DEF Debtors
<1> HIDE DEF left
<1>1. Shape'
  BY <1>0, <1>r, <1>t, FinishType DEF MInv, Shape
<1>2. Grows
  BY <1>0, <1>r, <1>l, <1>o DEF Grows, Secured
<1>3. GroupsAsk' /\ RowsDeposited'
  BY <1>0, <1>r, <1>l, <1>o DEF MInv, GroupsAsk, RowsDeposited, Secured
<1>4. TasksGood'
  BY <1>0, <1>2, FinishType, TasksStay DEF MInv
<1>5. DebtorsSecured'
  <2> SUFFICES ASSUME NEW h \in Groups, NEW x \in Users, contributions'[h][x] > 0
               PROVE  Secured(h, x)'
    BY DEF DebtorsSecured, Secured
  <2>1. CASE contributions[h][x] > 0
    BY <1>2, <2>1 DEF MInv, Grows, Secured, DebtorsSecured
  <2>2. CASE h = g /\ x = new
    BY <1>0, <1>r, <1>o, <2>2 DEF Secured
  <2> QED BY <1>c, <2>1, <2>2
<1>6. GroupsStartFull'
  <2> SUFFICES ASSUME NEW h \in Groups, groupStatus'[h] \in {"ACTIVE", "COMPLETED"}
               PROVE  Cardinality(Debtors(h)') >= MinSlots
    BY DEF GroupsStartFull, Debtors
  <2>1. Cardinality(Debtors(h)) >= MinSlots
    BY <1>0 DEF MInv, GroupsStartFull, Debtors
  <2>2. CASE UNCHANGED contributions \/ h # g
    <3>1. Debtors(h)' = Debtors(h)
      BY <1>s, <2>2 DEF Debtors
    <3> QED BY <2>1, <3>1
  <2>3. CASE h = g /\ (Debtors(g) \ {old}) \union {new} \subseteq after
    <3> DEFINE S == Debtors(g)
    <3>1. S \subseteq Users /\ after \subseteq Users /\ new \notin S
      BY <1>n DEF Debtors
    <3>2. Cardinality(S) >= MinSlots /\ (S \ {old}) \union {new} \subseteq after
      BY <2>1, <2>3
    <3>3. Debtors(h)' = after
      BY <2>3 DEF Debtors
    <3> HIDE DEF S, after
    <3>4. Cardinality(after) >= MinSlots
      BY <3>1, <3>2, SwapDebtor
    <3> QED BY <3>3, <3>4
  <2> QED BY <1>s, <2>2, <2>3
<1> QED BY <1>1, <1>3, <1>4, <1>5, <1>6 DEF MInv

\* A group that a create request adds has no rows yet.
LEMMA CreateStep ==
    ASSUME MInv, NEW g \in Groups, NEW slots \in MinSlots..MaxSlots, NEW deposit \in Deposits,
           Create(g, slots, deposit)
    PROVE  MInv'
<1> USE DEF Create, Ask, moneyVars
<1>0. slots \in 0..MaxSlots /\ slots >= MinSlots /\ deposit \in Nat
  BY MembershipAssumption
<1>1. Shape'
  BY <1>0 DEF MInv, Shape
<1>2. GroupsAsk'
  BY <1>0 DEF MInv, Shape, GroupsAsk
<1>3. TasksGood'
  <2>1. Grows
    BY DEF MInv, Shape, Grows, Secured
  <2> QED BY <2>1, TasksStay DEF MInv
<1>4. RowsDeposited' /\ DebtorsSecured'
  BY DEF MInv, RowsDeposited, Secured, DebtorsSecured
<1>5. GroupsStartFull'
  BY DEF MInv, Shape, GroupsStartFull
<1> QED BY <1>1, <1>2, <1>3, <1>4, <1>5 DEF MInv

\* A step that changes no group but its status, and no deposit a row records.
LEMMA RowsChange ==
    ASSUME MInv, UNCHANGED <<memberSlots, required, wasDaily, contributions, task>>,
           groupStatus' \in [Groups -> {"NONE", "DRAFT", "ACTIVE", "COMPLETED"}],
           \A g \in Groups: \/ groupStatus'[g] = groupStatus[g]
                            \/ groupStatus[g] = "ACTIVE" /\ groupStatus'[g] = "COMPLETED",
           member' \in [Groups -> [Users -> Row]],
           \A g \in Groups, u \in Users:
                \/ member'[g][u] = member[g][u]
                \/ /\ member[g][u] # NoRow /\ member'[g][u] # NoRow
                   /\ member'[g][u].depositAmount = member[g][u].depositAmount
    PROVE  MInv'
<1>1. Shape'
  BY DEF MInv, Shape
<1>2. Grows
  BY DEF Grows, Secured
<1>3. TasksGood'
  BY <1>2, TasksStay DEF MInv
<1>4. GroupsAsk' /\ RowsDeposited'
  BY DEF MInv, GroupsAsk, RowsDeposited, Secured
<1>5. DebtorsSecured' /\ GroupsStartFull'
  BY <1>2 DEF MInv, Grows, Secured, DebtorsSecured, GroupsStartFull
<1> QED BY <1>1, <1>3, <1>4, <1>5 DEF MInv

LEMMA CycleSteps ==
    ASSUME MInv, NEW g \in Groups
    PROVE  /\ \A u \in Users: Default(g, u) \/ SettleDefault(g, u) \/ Resolve(g, u) => MInv'
           /\ ResetStandings(g) \/ Complete(g) => MInv'
<1> USE DEF groupVars, moneyVars
<1>s. Shape
  BY DEF MInv
<1>1. ASSUME NEW u \in Users, Default(g, u) PROVE MInv'
  <2> DEFINE row == [member[g][u] EXCEPT !.standing = "DEFAULTED",
                        !.depositStatus = IF @ = "HELD" THEN "FORFEITED" ELSE @]
  <2>1. member[g][u] \in Row /\ member[g][u].status = "ACTIVE"
    BY <1>1, <1>s DEF Default, Shape
  <2>2. /\ row \in Row /\ row.depositAmount = member[g][u].depositAmount
        /\ member[g][u] # NoRow /\ row # NoRow
    <3>1. /\ row \in Row /\ row.depositAmount = member[g][u].depositAmount
          /\ row.status = "ACTIVE"
      BY <2>1, RowUpdates
    <3> HIDE DEF row
    <3>2. member[g][u] # NoRow /\ row # NoRow
      BY <2>1, <3>1 DEF NoRow
    <3> QED BY <3>1, <3>2
  <2>3. member' = [member EXCEPT ![g][u] = row] /\ UNCHANGED <<groupVars, contributions, task>>
    BY <1>1 DEF Default
  <2> HIDE DEF row
  <2>4. member' \in [Groups -> [Users -> Row]] /\ groupStatus' \in [Groups -> {"NONE", "DRAFT", "ACTIVE", "COMPLETED"}]
    BY <2>2, <2>3, <1>s DEF Shape
  <2>5. \A h \in Groups, x \in Users:
           \/ member'[h][x] = member[h][x]
           \/ /\ member[h][x] # NoRow /\ member'[h][x] # NoRow
              /\ member'[h][x].depositAmount = member[h][x].depositAmount
    BY <2>2, <2>3, <1>s DEF Shape
  <2> QED BY <2>3, <2>4, <2>5, RowsChange
<1>2. ASSUME NEW u \in Users, Resolve(g, u) PROVE MInv'
  <2> DEFINE row == [member[g][u] EXCEPT !.standing = "ACTIVE"]
  <2>1. member[g][u] \in Row /\ member[g][u].status = "ACTIVE"
    BY <1>2, <1>s DEF Resolve, Shape
  <2>2. /\ row \in Row /\ row.depositAmount = member[g][u].depositAmount
        /\ member[g][u] # NoRow /\ row # NoRow
    <3>1. /\ row \in Row /\ row.depositAmount = member[g][u].depositAmount
          /\ row.status = "ACTIVE"
      BY <2>1, RowUpdates
    <3> HIDE DEF row
    <3>2. member[g][u] # NoRow /\ row # NoRow
      BY <2>1, <3>1 DEF NoRow
    <3> QED BY <3>1, <3>2
  <2>3. member' = [member EXCEPT ![g][u] = row] /\ UNCHANGED <<groupVars, contributions, task>>
    BY <1>2 DEF Resolve
  <2> HIDE DEF row
  <2>4. member' \in [Groups -> [Users -> Row]] /\ groupStatus' \in [Groups -> {"NONE", "DRAFT", "ACTIVE", "COMPLETED"}]
    BY <2>2, <2>3, <1>s DEF Shape
  <2>5. \A h \in Groups, x \in Users:
           \/ member'[h][x] = member[h][x]
           \/ /\ member[h][x] # NoRow /\ member'[h][x] # NoRow
              /\ member'[h][x].depositAmount = member[h][x].depositAmount
    BY <2>2, <2>3, <1>s DEF Shape
  <2> QED BY <2>3, <2>4, <2>5, RowsChange
<1>3. ASSUME Complete(g) PROVE MInv'
  <2> DEFINE row(u) == IF Released(g, u) > 0 THEN [member[g][u] EXCEPT !.depositStatus = "RELEASED"]
                       ELSE member[g][u]
  <2>1. \A u \in Users: /\ row(u) \in Row
                        /\ row(u) = member[g][u] \/ /\ row(u).depositAmount = member[g][u].depositAmount
                                                    /\ member[g][u] # NoRow /\ row(u) # NoRow
    <3> SUFFICES ASSUME NEW u \in Users, Released(g, u) > 0
                 PROVE  /\ row(u) \in Row /\ row(u).depositAmount = member[g][u].depositAmount
                        /\ member[g][u] # NoRow /\ row(u) # NoRow
      BY <1>s DEF Shape
    <3>1. member[g][u] \in Row /\ member[g][u].depositStatus = "HELD"
      BY <1>s DEF Shape, Released
    <3>2. row(u) \in Row /\ row(u).depositAmount = member[g][u].depositAmount /\ row(u) # NoRow
      <4> DEFINE released == [member[g][u] EXCEPT !.depositStatus = "RELEASED"]
      <4>1. /\ released \in Row /\ released.depositAmount = member[g][u].depositAmount
            /\ released.depositStatus = "RELEASED"
        BY <3>1, RowUpdates
      <4>2. row(u) = released
        OBVIOUS
      <4> QED BY <4>1, <4>2 DEF NoRow
    <3>3. member[g][u] # NoRow
      BY <3>1 DEF NoRow
    <3> QED BY <3>2, <3>3
  <2>2. member' = [member EXCEPT ![g] = [u \in Users |-> row(u)]]
    BY <1>3 DEF Complete
  <2>3. /\ groupStatus' \in [Groups -> {"NONE", "DRAFT", "ACTIVE", "COMPLETED"}]
        /\ \A h \in Groups: \/ groupStatus'[h] = groupStatus[h]
                            \/ groupStatus[h] = "ACTIVE" /\ groupStatus'[h] = "COMPLETED"
        /\ UNCHANGED <<memberSlots, required, wasDaily, contributions, task>>
    BY <1>3, <1>s DEF Complete, Shape, groupVars, moneyVars
  <2> HIDE DEF row
  <2>4. /\ member' \in [Groups -> [Users -> Row]]
        /\ \A h \in Groups, u \in Users:
              \/ member'[h][u] = member[h][u]
              \/ /\ member[h][u] # NoRow /\ member'[h][u] # NoRow
                 /\ member'[h][u].depositAmount = member[h][u].depositAmount
    BY <2>1, <2>2, <1>s DEF Shape
  <2> QED BY <2>3, <2>4, RowsChange
<1>4. ASSUME NEW u \in Users, SettleDefault(g, u) PROVE MInv'
  <2>1. UNCHANGED <<groupVars, member, contributions, task>>
    BY <1>4 DEF SettleDefault
  <2> QED BY <2>1, <1>s, RowsChange DEF Shape
<1>5. ASSUME ResetStandings(g) PROVE MInv'
  <2> DEFINE row(u) == IF member[g][u].status = "ACTIVE" THEN [member[g][u] EXCEPT !.standing = "ACTIVE"]
                       ELSE member[g][u]
  <2>1. ASSUME NEW u \in Users
        PROVE  /\ row(u) \in Row
               /\ row(u) = member[g][u] \/ /\ row(u).depositAmount = member[g][u].depositAmount
                                           /\ member[g][u] # NoRow /\ row(u) # NoRow
    <3>1. member[g][u] \in Row
      BY <1>s DEF Shape
    <3>2. CASE member[g][u].status = "ACTIVE"
      <4> DEFINE resolved == [member[g][u] EXCEPT !.standing = "ACTIVE"]
      <4>1. /\ resolved \in Row /\ resolved.depositAmount = member[g][u].depositAmount
            /\ resolved.status = "ACTIVE" /\ row(u) = resolved
        BY <3>1, <3>2, RowUpdates
      <4> QED BY <3>2, <4>1 DEF NoRow
    <3> QED BY <3>1, <3>2
  <2>2. member' = [member EXCEPT ![g] = [u \in Users |-> row(u)]]
    BY <1>5 DEF ResetStandings
  <2>3. UNCHANGED <<groupVars, contributions, task>>
    BY <1>5 DEF ResetStandings
  <2> HIDE DEF row
  <2>4. /\ member' \in [Groups -> [Users -> Row]]
        /\ \A h \in Groups, u \in Users:
              \/ member'[h][u] = member[h][u]
              \/ /\ member[h][u] # NoRow /\ member'[h][u] # NoRow
                 /\ member'[h][u].depositAmount = member[h][u].depositAmount
    BY <2>1, <2>2, <1>s DEF Shape
  <2> QED BY <2>3, <2>4, <1>s, RowsChange DEF Shape
<1> QED BY <1>1, <1>2, <1>3, <1>4, <1>5

LEMMA FailStep == ASSUME MInv, NEW r \in Requests, Fail(r) PROVE MInv'
<1> USE DEF Fail, groupVars, moneyVars
<1>1. Shape' /\ GroupsAsk' /\ RowsDeposited' /\ DebtorsSecured' /\ GroupsStartFull'
  BY FinishType DEF MInv, Shape, GroupsAsk, RowsDeposited, Secured, DebtorsSecured,
                    GroupsStartFull
<1>2. Grows
  BY DEF Grows, Secured
<1>3. TasksGood'
  BY <1>2, FinishType, TasksStay DEF MInv
<1> QED BY <1>1, <1>3 DEF MInv

LEMMA MInvStep == MInv /\ [Next]_vars => MInv'
<1> SUFFICES ASSUME MInv, [Next]_vars PROVE MInv'
  OBVIOUS
<1>1. CASE UNCHANGED vars
  BY <1>1 DEF vars, groupVars, moneyVars, MInv, Shape, GroupsAsk, RowsDeposited, Secured,
              TasksGood, GoodTask, DebtorsSecured, GroupsStartFull
<1>2. CASE Next
  BY <1>2, BeginSteps, JoinStep, UpdateStep, ActivateStep, ReplaceStep, CreateStep, CycleSteps,
     FailStep DEF Next
<1> QED BY <1>1, <1>2

-----------------------------------------------------------------------------
(* Theorems *)

LEMMA Invariant == Spec => []MInv
  BY MInvInit, MInvStep, PTL DEF Spec

\* In a group that has always been CYCLE nobody owes a contribution without a deposit on
\* record for that group.
THEOREM DebtorsDeposited == Spec => []DebtorsHaveDeposited
<1>1. MInv => DebtorsHaveDeposited
  BY DEF MInv, DebtorsSecured, Secured, DebtorsHaveDeposited
<1> QED BY <1>1, Invariant, PTL

\* A group that has started has at least the least number of debtors.
THEOREM StartedFull == Spec => []GroupsStartFull
<1>1. MInv => GroupsStartFull
  BY DEF MInv
<1> QED BY <1>1, Invariant, PTL

-----------------------------------------------------------------------------
(* The balances: what the rows of a user, and of a group, record in all.     *)

UserSum(u, st) == SumFunction([g \in Groups |-> Deposited(g, u, st)])
GroupSum(g, st) == SumFunction([u \in Users |-> Deposited(g, u, st)])

\* A step leaves the deposit that u's row in g records as it is.
SameDeposit(g, u) ==
    /\ member'[g][u].depositStatus = member[g][u].depositStatus
    /\ member'[g][u].depositAmount = member[g][u].depositAmount

Money ==
    /\ settled \in [Groups -> SUBSET Users]
    /\ escrow \in [Users -> Int] /\ wallet \in [Users -> Int] /\ forfeits \in [Groups -> Int]
    /\ DepositsAccounted

LEMMA DepositedNat ==
    ASSUME Shape, NEW g \in Groups, NEW u \in Users, NEW st
    PROVE  Deposited(g, u, st) \in Nat
<1>1. member[g][u] \in Row
  BY DEF Shape
<1> QED BY <1>1 DEF Deposited, Row

LEMMA SumsNat ==
    ASSUME Shape, NEW st
    PROVE  /\ \A u \in Users: UserSum(u, st) \in Nat
           /\ \A g \in Groups: GroupSum(g, st) \in Nat
<1>1. ASSUME NEW u \in Users PROVE UserSum(u, st) \in Nat
  <2> DEFINE f == [g \in Groups |-> Deposited(g, u, st)]
  <2>1. DOMAIN f = Groups /\ \A g \in Groups: f[g] \in Nat
    BY DepositedNat
  <2>2. UserSum(u, st) = SumFunctionOnSet(f, DOMAIN f)
    BY DEF UserSum, SumFunction
  <2> HIDE DEF f
  <2> QED BY <2>1, <2>2, SumNat, MembershipAssumption
<1>2. ASSUME NEW g \in Groups PROVE GroupSum(g, st) \in Nat
  <2> DEFINE f == [u \in Users |-> Deposited(g, u, st)]
  <2>1. DOMAIN f = Users /\ \A u \in Users: f[u] \in Nat
    BY DepositedNat
  <2>2. GroupSum(g, st) = SumFunctionOnSet(f, DOMAIN f)
    BY DEF GroupSum, SumFunction
  <2> HIDE DEF f
  <2> QED BY <2>1, <2>2, SumNat, MembershipAssumption
<1> QED BY <1>1, <1>2

\* A user's sum moves with the one group where a deposit changes.
LEMMA UserMoves ==
    ASSUME Shape, Shape', NEW st, NEW u \in Users, NEW h \in Groups,
           \A g \in Groups \ {h}: SameDeposit(g, u)
    PROVE  UserSum(u, st)' = UserSum(u, st) + (Deposited(h, u, st)' - Deposited(h, u, st))
<1> DEFINE f == [g \in Groups |-> Deposited(g, u, st)]
           e == [g \in Groups |-> Deposited(g, u, st)']
<1>1. /\ DOMAIN f = Groups /\ DOMAIN e = Groups
      /\ f[h] = Deposited(h, u, st) /\ e[h] = Deposited(h, u, st)'
  OBVIOUS
<1>2. \A g \in Groups: f[g] \in Int /\ e[g] \in Int
  <2> SUFFICES ASSUME NEW g \in Groups PROVE f[g] \in Int /\ e[g] \in Int
    OBVIOUS
  <2>1. Deposited(g, u, st) \in Nat
    BY DepositedNat
  <2>2. member'[g][u] \in Row
    BY DEF Shape
  <2>3. Deposited(g, u, st)' \in Nat
    BY <2>2 DEF Deposited, Row
  <2> QED BY <2>1, <2>3
<1>3. \A g \in Groups \ {h}: f[g] = e[g]
  BY DEF SameDeposit, Deposited
<1>4. UserSum(u, st) = SumFunctionOnSet(f, DOMAIN f) /\ UserSum(u, st)' = SumFunctionOnSet(e, DOMAIN e)
  BY DEF UserSum, SumFunction
<1> HIDE DEF f, e
<1>5. SumFunctionOnSet(e, Groups) = SumFunctionOnSet(f, Groups) + (e[h] - f[h])
  BY <1>2, <1>3, SumPointChange, MembershipAssumption
<1> QED BY <1>1, <1>4, <1>5

\* A group's sum moves with the one user whose deposit changes.
LEMMA GroupMoves ==
    ASSUME Shape, Shape', NEW st, NEW g \in Groups, NEW x \in Users,
           \A u \in Users \ {x}: SameDeposit(g, u)
    PROVE  GroupSum(g, st)' = GroupSum(g, st) + (Deposited(g, x, st)' - Deposited(g, x, st))
<1> DEFINE f == [u \in Users |-> Deposited(g, u, st)]
           e == [u \in Users |-> Deposited(g, u, st)']
<1>1. /\ DOMAIN f = Users /\ DOMAIN e = Users
      /\ f[x] = Deposited(g, x, st) /\ e[x] = Deposited(g, x, st)'
  OBVIOUS
<1>2. \A u \in Users: f[u] \in Int /\ e[u] \in Int
  <2> SUFFICES ASSUME NEW u \in Users PROVE f[u] \in Int /\ e[u] \in Int
    OBVIOUS
  <2>1. Deposited(g, u, st) \in Nat
    BY DepositedNat
  <2>2. member'[g][u] \in Row
    BY DEF Shape
  <2>3. Deposited(g, u, st)' \in Nat
    BY <2>2 DEF Deposited, Row
  <2> QED BY <2>1, <2>3
<1>3. \A u \in Users \ {x}: f[u] = e[u]
  BY DEF SameDeposit, Deposited
<1>4. GroupSum(g, st) = SumFunctionOnSet(f, DOMAIN f) /\ GroupSum(g, st)' = SumFunctionOnSet(e, DOMAIN e)
  BY DEF GroupSum, SumFunction
<1> HIDE DEF f, e
<1>5. SumFunctionOnSet(e, Users) = SumFunctionOnSet(f, Users) + (e[x] - f[x])
  BY <1>2, <1>3, SumPointChange, MembershipAssumption
<1> QED BY <1>1, <1>4, <1>5

\* Where nothing counted by st changes, the sums do not.
LEMMA SumsStay ==
    ASSUME NEW st
    PROVE  /\ \A u \in Users: (\A g \in Groups: Deposited(g, u, st)' = Deposited(g, u, st))
                 => UserSum(u, st)' = UserSum(u, st)
           /\ \A g \in Groups: (\A u \in Users: Deposited(g, u, st)' = Deposited(g, u, st))
                 => GroupSum(g, st)' = GroupSum(g, st)
<1>1. ASSUME NEW u \in Users, \A g \in Groups: Deposited(g, u, st)' = Deposited(g, u, st)
      PROVE  UserSum(u, st)' = UserSum(u, st)
  <2>1. [g \in Groups |-> Deposited(g, u, st)'] = [g \in Groups |-> Deposited(g, u, st)]
    BY <1>1
  <2>2. SumFunction([g \in Groups |-> Deposited(g, u, st)']) =
          SumFunction([g \in Groups |-> Deposited(g, u, st)])
    BY <2>1
  <2> QED BY <2>2 DEF UserSum
<1>2. ASSUME NEW g \in Groups, \A u \in Users: Deposited(g, u, st)' = Deposited(g, u, st)
      PROVE  GroupSum(g, st)' = GroupSum(g, st)
  <2>1. [u \in Users |-> Deposited(g, u, st)'] = [u \in Users |-> Deposited(g, u, st)]
    BY <1>2
  <2>2. SumFunction([u \in Users |-> Deposited(g, u, st)']) =
          SumFunction([u \in Users |-> Deposited(g, u, st)])
    BY <2>1
  <2> QED BY <2>2 DEF GroupSum
<1> QED BY <1>1, <1>2

LEMMA AccountedIs ==
    DepositsAccounted <=>
        /\ \A u \in Users: escrow[u] = UserSum(u, {"HELD"}) /\ wallet[u] = UserSum(u, {"RELEASED"})
        /\ \A g \in Groups: forfeits[g] = GroupSum(g, {"FORFEITED"})
  BY DEF DepositsAccounted, UserSum, GroupSum

LEMMA MoneyInit == Init => Money
<1> SUFFICES ASSUME Init PROVE Money
  OBVIOUS
<1>1. \A g \in Groups, u \in Users: member[g][u].depositStatus = "NOT_REQUIRED"
  BY DEF Init, NoRow
<1>2. ASSUME NEW st, "NOT_REQUIRED" \notin st, NEW u \in Users PROVE UserSum(u, st) = 0
  <2> DEFINE f == [g \in Groups |-> Deposited(g, u, st)]
  <2>1. DOMAIN f = Groups /\ \A g \in Groups: f[g] = 0
    BY <1>1, <1>2 DEF Deposited
  <2>2. UserSum(u, st) = SumFunctionOnSet(f, DOMAIN f)
    BY DEF UserSum, SumFunction
  <2> HIDE DEF f
  <2> QED BY <2>1, <2>2, SumZero, MembershipAssumption
<1>3. ASSUME NEW st, "NOT_REQUIRED" \notin st, NEW g \in Groups PROVE GroupSum(g, st) = 0
  <2> DEFINE f == [u \in Users |-> Deposited(g, u, st)]
  <2>1. DOMAIN f = Users /\ \A u \in Users: f[u] = 0
    BY <1>1, <1>3 DEF Deposited
  <2>2. GroupSum(g, st) = SumFunctionOnSet(f, DOMAIN f)
    BY DEF GroupSum, SumFunction
  <2> HIDE DEF f
  <2> QED BY <2>1, <2>2, SumZero, MembershipAssumption
<1>4. DepositsAccounted
  BY <1>2, <1>3, AccountedIs DEF Init
<1> QED BY <1>4 DEF Init, Money

\* A step that touches neither a balance nor a deposit.
LEMMA MoneyQuiet ==
    ASSUME Money, UNCHANGED moneyVars, settled' \in [Groups -> SUBSET Users],
           \A g \in Groups, u \in Users: SameDeposit(g, u)
    PROVE  Money'
<1>1. \A st: \A g \in Groups, u \in Users: Deposited(g, u, st)' = Deposited(g, u, st)
  BY DEF SameDeposit, Deposited
<1>2. /\ \A u \in Users: /\ UserSum(u, {"HELD"})' = UserSum(u, {"HELD"})
                         /\ UserSum(u, {"RELEASED"})' = UserSum(u, {"RELEASED"})
      /\ \A g \in Groups: GroupSum(g, {"FORFEITED"})' = GroupSum(g, {"FORFEITED"})
  BY <1>1, SumsStay
<1>3. DepositsAccounted'
  BY <1>2, AccountedIs DEF Money, moneyVars, DepositsAccounted, UserSum, GroupSum
<1> QED BY <1>3 DEF Money, moneyVars

\* A member who joins or takes over puts a deposit in escrow.
LEMMA MoneyHold ==
    ASSUME Shape, Shape', Money, NEW h \in Groups, NEW x \in Users, NEW d \in Nat,
           member[h][x] = NoRow, member'[h][x] = NewRow(d),
           \A g \in Groups, u \in Users: (g = h /\ u = x) \/ SameDeposit(g, u),
           escrow' = [escrow EXCEPT ![x] = @ + d],
           settled' \in [Groups -> SUBSET Users], UNCHANGED <<wallet, forfeits>>
    PROVE  Money'
<1>1. /\ Deposited(h, x, {"HELD"}) = 0 /\ Deposited(h, x, {"HELD"})' = d
      /\ Deposited(h, x, {"RELEASED"}) = 0 /\ Deposited(h, x, {"RELEASED"})' = 0
      /\ Deposited(h, x, {"FORFEITED"}) = 0 /\ Deposited(h, x, {"FORFEITED"})' = 0
  BY DEF Deposited, NoRow, NewRow
<1>2. \A st: \A g \in Groups, u \in Users:
         (g = h /\ u = x) \/ Deposited(g, u, st)' = Deposited(g, u, st)
  BY DEF SameDeposit, Deposited
<1>3. /\ \A u \in Users: UserSum(u, {"RELEASED"})' = UserSum(u, {"RELEASED"})
      /\ \A g \in Groups: GroupSum(g, {"FORFEITED"})' = GroupSum(g, {"FORFEITED"})
      /\ \A u \in Users \ {x}: UserSum(u, {"HELD"})' = UserSum(u, {"HELD"})
  BY <1>1, <1>2, SumsStay
<1>4. UserSum(x, {"HELD"})' = UserSum(x, {"HELD"}) + (d - 0)
  BY <1>1, UserMoves
<1>5. \A u \in Users: UserSum(u, {"HELD"}) \in Int
  BY SumsNat
<1>6. \A u \in Users: escrow'[u] = UserSum(u, {"HELD"})'
  BY <1>3, <1>4, <1>5, AccountedIs DEF Money
<1>7. DepositsAccounted'
  BY <1>3, <1>6, AccountedIs DEF Money, DepositsAccounted, UserSum, GroupSum
<1> QED BY <1>7 DEF Money

\* forfeitDepositForDefaulted: from the member's escrow to the group's pool.
LEMMA MoneyDefault ==
    ASSUME Shape, Shape', Money, NEW h \in Groups, NEW x \in Users, Default(h, x)
    PROVE  Money'
<1> DEFINE row == member[h][x]
           amount == IF row.depositStatus = "HELD" THEN row.depositAmount ELSE 0
           lost == [row EXCEPT !.standing = "DEFAULTED",
                               !.depositStatus = IF @ = "HELD" THEN "FORFEITED" ELSE @]
<1>1. /\ member' = [member EXCEPT ![h][x] = lost]
      /\ escrow' = [escrow EXCEPT ![x] = @ - amount]
      /\ forfeits' = [forfeits EXCEPT ![h] = @ + amount]
      /\ UNCHANGED <<settled, wallet>>
  BY DEF Default
<1>2. row \in Row /\ amount \in Nat
  BY DEF Shape, Row
<1>3. /\ lost.depositAmount = row.depositAmount
      /\ lost.depositStatus = IF row.depositStatus = "HELD" THEN "FORFEITED" ELSE row.depositStatus
  BY <1>2 DEF Row
<1>4. /\ member'[h][x] = lost
      /\ \A g \in Groups, u \in Users: (g = h /\ u = x) \/ SameDeposit(g, u)
  <2> HIDE DEF lost
  <2> QED BY <1>1 DEF Shape, SameDeposit
<1>5. /\ Deposited(h, x, {"HELD"})' - Deposited(h, x, {"HELD"}) = 0 - amount
      /\ Deposited(h, x, {"RELEASED"})' = Deposited(h, x, {"RELEASED"})
      /\ Deposited(h, x, {"FORFEITED"})' - Deposited(h, x, {"FORFEITED"}) = amount
  <2> HIDE DEF lost
  <2>1. row.depositAmount \in Nat
    BY <1>2 DEF Row
  <2> QED BY <1>3, <1>4, <2>1 DEF Deposited
<1> HIDE DEF row, amount, lost
<1>6. \A st: \A g \in Groups, u \in Users:
         (g = h /\ u = x) \/ Deposited(g, u, st)' = Deposited(g, u, st)
  BY <1>4 DEF SameDeposit, Deposited
<1>7. /\ \A u \in Users: UserSum(u, {"RELEASED"})' = UserSum(u, {"RELEASED"})
      /\ \A g \in Groups \ {h}: GroupSum(g, {"FORFEITED"})' = GroupSum(g, {"FORFEITED"})
      /\ \A u \in Users \ {x}: UserSum(u, {"HELD"})' = UserSum(u, {"HELD"})
  BY <1>5, <1>6, SumsStay
<1>8. UserSum(x, {"HELD"})' = UserSum(x, {"HELD"}) + (0 - amount)
  BY <1>4, <1>5, UserMoves
<1>9. GroupSum(h, {"FORFEITED"})' = GroupSum(h, {"FORFEITED"}) + amount
  BY <1>4, <1>5, GroupMoves
<1>10. /\ \A u \in Users: UserSum(u, {"HELD"}) \in Int
       /\ \A g \in Groups: GroupSum(g, {"FORFEITED"}) \in Int
  BY SumsNat
<1>11. \A u \in Users: escrow'[u] = UserSum(u, {"HELD"})'
  BY <1>1, <1>2, <1>7, <1>8, <1>10, AccountedIs DEF Money
<1>12. \A g \in Groups: forfeits'[g] = GroupSum(g, {"FORFEITED"})'
  BY <1>1, <1>2, <1>7, <1>9, <1>10, AccountedIs DEF Money
<1>13. DepositsAccounted'
  BY <1>1, <1>7, <1>11, <1>12, AccountedIs DEF Money, DepositsAccounted, UserSum, GroupSum
<1> QED BY <1>1, <1>2, <1>13 DEF Money

\* releaseAllHeldDepositsForGroup: from escrow to the wallets.
LEMMA MoneyComplete ==
    ASSUME Shape, Shape', Money, NEW h \in Groups, Complete(h)
    PROVE  Money'
<1>1. /\ member' = [member EXCEPT ![h] = [u \in Users |->
            IF Released(h, u) > 0 THEN [member[h][u] EXCEPT !.depositStatus = "RELEASED"]
            ELSE member[h][u]]]
      /\ escrow' = [u \in Users |-> escrow[u] - Released(h, u)]
      /\ wallet' = [u \in Users |-> wallet[u] + Released(h, u)]
      /\ UNCHANGED <<settled, forfeits>>
  BY DEF Complete
<1>2. \A u \in Users: member[h][u] \in Row /\ Released(h, u) \in Nat
  BY DEF Shape, Row, Released
<1>3. \A g \in Groups \ {h}, u \in Users: SameDeposit(g, u)
  BY <1>1 DEF Shape, SameDeposit
<1>4. ASSUME NEW u \in Users
      PROVE  /\ Deposited(h, u, {"HELD"})' - Deposited(h, u, {"HELD"}) = 0 - Released(h, u)
             /\ Deposited(h, u, {"RELEASED"})' - Deposited(h, u, {"RELEASED"}) = Released(h, u)
             /\ Deposited(h, u, {"FORFEITED"})' = Deposited(h, u, {"FORFEITED"})
  <2>0. member[h][u].depositAmount \in Nat /\ Released(h, u) \in Nat
    BY <1>2 DEF Row
  <2>1. CASE Released(h, u) > 0
    <3>1. /\ member[h][u].depositStatus = "HELD"
          /\ Released(h, u) = member[h][u].depositAmount
      BY <2>1 DEF Released
    <3>2. /\ member'[h][u].depositStatus = "RELEASED"
          /\ member'[h][u].depositAmount = member[h][u].depositAmount
      BY <1>1, <1>2, <2>1 DEF Shape, Row
    <3> QED BY <2>0, <3>1, <3>2 DEF Deposited
  <2>2. CASE Released(h, u) = 0
    <3>1. member'[h][u] = member[h][u]
      BY <1>1, <2>2 DEF Shape
    <3> QED BY <2>0, <2>2, <3>1 DEF Deposited
  <2> QED BY <2>0, <2>1, <2>2
<1>5. ASSUME NEW u \in Users
      PROVE  /\ UserSum(u, {"HELD"})' = UserSum(u, {"HELD"}) + (0 - Released(h, u))
             /\ UserSum(u, {"RELEASED"})' = UserSum(u, {"RELEASED"}) + Released(h, u)
  <2>1. \A g \in Groups \ {h}: SameDeposit(g, u)
    BY <1>3
  <2>2. /\ UserSum(u, {"HELD"})' = UserSum(u, {"HELD"})
               + (Deposited(h, u, {"HELD"})' - Deposited(h, u, {"HELD"}))
        /\ UserSum(u, {"RELEASED"})' = UserSum(u, {"RELEASED"})
               + (Deposited(h, u, {"RELEASED"})' - Deposited(h, u, {"RELEASED"}))
    BY <2>1, UserMoves
  <2> QED BY <1>4, <2>2
<1>6. \A g \in Groups: GroupSum(g, {"FORFEITED"})' = GroupSum(g, {"FORFEITED"})
  <2>1. \A g \in Groups, u \in Users: Deposited(g, u, {"FORFEITED"})' = Deposited(g, u, {"FORFEITED"})
    BY <1>3, <1>4 DEF SameDeposit, Deposited
  <2> QED BY <2>1, SumsStay
<1>7. \A u \in Users: UserSum(u, {"HELD"}) \in Int /\ UserSum(u, {"RELEASED"}) \in Int
  BY SumsNat
<1>8. \A u \in Users: /\ escrow'[u] = UserSum(u, {"HELD"})'
                      /\ wallet'[u] = UserSum(u, {"RELEASED"})'
  BY <1>1, <1>2, <1>5, <1>7, AccountedIs DEF Money
<1>9. DepositsAccounted'
  BY <1>1, <1>6, <1>8, AccountedIs DEF Money, DepositsAccounted, UserSum, GroupSum
<1> QED BY <1>1, <1>2, <1>9 DEF Money

LEMMA MoneyStep == MInv /\ MInv' /\ Money /\ [Next]_vars => Money'
<1> SUFFICES ASSUME Shape, Shape', TasksGood, Money, [Next]_vars PROVE Money'
  BY DEF MInv
<1> USE DEF groupVars, moneyVars
<1>t. settled \in [Groups -> SUBSET Users]
  BY DEF Money
<1>1. ASSUME UNCHANGED <<member, settled, moneyVars>> PROVE Money'
  BY <1>1, <1>t, MoneyQuiet DEF SameDeposit
<1>2. ASSUME NEW r \in Requests, CommitJoin(r) PROVE Money'
  <2> DEFINE g == task[r].group
             u == task[r].user
             d == task[r].deposit
  <2>1. /\ g \in Groups /\ u \in Users /\ d \in Nat /\ member[g][u] = NoRow
        /\ member' = [member EXCEPT ![g][u] = NewRow(d)]
        /\ escrow' = [escrow EXCEPT ![u] = @ + d]
        /\ UNCHANGED <<settled, wallet, forfeits>>
    BY <1>2 DEF Shape, TasksGood, GoodTask, CommitJoin, Hold, Task
  <2> HIDE DEF g, u, d
  <2>2. /\ member'[g][u] = NewRow(d)
        /\ \A h \in Groups, x \in Users: (h = g /\ x = u) \/ SameDeposit(h, x)
    BY <2>1 DEF Shape, SameDeposit
  <2> QED BY <1>t, <2>1, <2>2, MoneyHold
<1>3. ASSUME NEW r \in Requests, CommitReplace(r) PROVE Money'
  <2> DEFINE g == task[r].group
             old == task[r].other
             new == task[r].user
             d == task[r].deposit
             left == [member[g][old] EXCEPT !.status = "LEFT"]
  <2>1. /\ g \in Groups /\ old \in Users /\ new \in Users /\ d \in Nat
        /\ member[g][new] = NoRow /\ Secured(g, old)
        /\ member' = [member EXCEPT ![g][old].status = "LEFT", ![g][new] = NewRow(d)]
        /\ escrow' = [escrow EXCEPT ![new] = @ + d]
        /\ settled' = [settled EXCEPT ![g] = @ \ {old}]
        /\ UNCHANGED <<wallet, forfeits>>
    BY <1>3 DEF Shape, TasksGood, GoodTask, CommitReplace, TakeOver, Task
  <2> HIDE DEF g, old, new, d
  <2>2. old # new
    BY <2>1 DEF Secured, NoRow
  <2>3. /\ left.depositStatus = member[g][old].depositStatus
        /\ left.depositAmount = member[g][old].depositAmount
    <3>1. member[g][old] \in Row
      BY <2>1 DEF Shape
    <3> QED BY <3>1 DEF Row
  <2>4. \A h \in Groups, x \in Users:
           member'[h][x] = IF h = g /\ x = new THEN NewRow(d)
                           ELSE IF h = g /\ x = old THEN left ELSE member[h][x]
    BY <2>1, <2>2 DEF Shape
  <2> HIDE DEF left
  <2>5. \A h \in Groups, x \in Users: (h = g /\ x = new) \/ SameDeposit(h, x)
    BY <2>3, <2>4 DEF SameDeposit
  <2>6. settled' \in [Groups -> SUBSET Users] /\ member'[g][new] = NewRow(d)
    BY <1>t, <2>1, <2>4
  <2> QED BY <2>1, <2>5, <2>6, MoneyHold
<1>4. ASSUME NEW g \in Groups, NEW u \in Users, SettleDefault(g, u) PROVE Money'
  <2>1. settled' \in [Groups -> SUBSET Users] /\ UNCHANGED <<member, moneyVars>>
    BY <1>4, <1>t DEF SettleDefault
  <2> QED BY <2>1, MoneyQuiet DEF SameDeposit
<1>5. ASSUME NEW g \in Groups, NEW u \in Users, Resolve(g, u) PROVE Money'
  <2>1. settled' \in [Groups -> SUBSET Users] /\ UNCHANGED moneyVars
    BY <1>5, <1>t DEF Resolve
  <2>2. ASSUME NEW h \in Groups, NEW x \in Users PROVE SameDeposit(h, x)
    <3>1. member' = [member EXCEPT ![g][u].standing = "ACTIVE"]
      BY <1>5 DEF Resolve
    <3>2. member[h][x] \in Row /\ member \in [Groups -> [Users -> Row]]
      BY DEF Shape
    <3>3. \/ member'[h][x] = member[h][x]
          \/ member'[h][x] = [member[h][x] EXCEPT !.standing = "ACTIVE"]
      BY <3>1, <3>2
    <3> QED BY <3>2, <3>3 DEF SameDeposit, Row
  <2> QED BY <2>1, <2>2, MoneyQuiet
<1>r. ASSUME NEW g \in Groups, ResetStandings(g) PROVE Money'
  <2>1. settled' \in [Groups -> SUBSET Users] /\ UNCHANGED moneyVars
    BY <1>r, <1>t DEF ResetStandings
  <2>2. ASSUME NEW h \in Groups, NEW x \in Users PROVE SameDeposit(h, x)
    <3>1. member' = [member EXCEPT ![g] = [u \in Users |->
             IF member[g][u].status = "ACTIVE" THEN [member[g][u] EXCEPT !.standing = "ACTIVE"]
             ELSE member[g][u]]]
      BY <1>r DEF ResetStandings
    <3>2. member[h][x] \in Row /\ member \in [Groups -> [Users -> Row]]
      BY DEF Shape
    <3>3. \/ member'[h][x] = member[h][x]
          \/ member'[h][x] = [member[h][x] EXCEPT !.standing = "ACTIVE"]
      BY <3>1, <3>2
    <3> QED BY <3>2, <3>3 DEF SameDeposit, Row
  <2> QED BY <2>1, <2>2, MoneyQuiet
<1>6. ASSUME NEW g \in Groups, NEW u \in Users, Default(g, u) PROVE Money'
  BY <1>6, MoneyDefault
<1>7. ASSUME NEW g \in Groups, Complete(g) PROVE Money'
  BY <1>7, MoneyComplete
<1>8. CASE UNCHANGED vars
  BY <1>1, <1>8 DEF vars
<1>9. ASSUME NEW r \in Requests, CommitUpdate(r) \/ CommitActivate(r) \/ Fail(r) PROVE Money'
  BY <1>1, <1>9 DEF CommitUpdate, CommitActivate, Fail
<1>10. ASSUME NEW g \in Groups, NEW slots, NEW deposit, Create(g, slots, deposit) PROVE Money'
  BY <1>1, <1>10 DEF Create
<1>11. ASSUME NEW r \in Requests, NEW t, Begin(r, t) PROVE Money'
  BY <1>1, <1>11 DEF Begin
<1> HIDE DEF groupVars, moneyVars
<1>12. ASSUME NEW g \in Groups, NEW r \in Requests
       PROVE  /\ \A u \in Users: BeginJoin(r, g, u) \/ BeginAdd(r, g, u) => Money'
              /\ \A slots, deposit: BeginUpdate(r, g, slots, deposit) => Money'
              /\ BeginActivate(r, g) => Money'
              /\ \A old, new \in Users: BeginReplace(r, g, old, new) => Money'
  BY <1>11 DEF BeginJoin, BeginAdd, BeginUpdate, BeginActivate, BeginReplace
<1> QED
  BY <1>2, <1>3, <1>4, <1>5, <1>6, <1>7, <1>8, <1>9, <1>10, <1>12, <1>r DEF Next

LEMMA MoneyInvariant == Spec => [](MInv /\ Money)
<1>1. MInv /\ Money /\ [Next]_vars => (MInv /\ Money)'
  BY MInvStep, MoneyStep
<1> QED BY <1>1, MInvInit, MoneyInit, PTL DEF Spec

\* However joins, changes of the draft, defaults and replacements overlap: a member's
\* escrow holds the deposits of the groups whose rows say HELD, and what left it is in
\* the wallet or in the pool of the group that took it.
THEOREM DepositsKept == Spec => []DepositsAccounted
<1>1. MInv /\ Money => DepositsAccounted
  BY DEF Money
<1> QED BY <1>1, MoneyInvariant, PTL

\* The types, among them that no escrow, wallet or pool is ever negative: what is
\* released or forfeited is never more than what was held.
THEOREM MembershipTyped == Spec => []TypeOK
<1>1. ASSUME MInv, Money PROVE TypeOK
  <2>1. Shape
    BY <1>1 DEF MInv
  <2>2. /\ \A u \in Users: escrow[u] \in Nat /\ wallet[u] \in Nat
        /\ \A g \in Groups: forfeits[g] \in Nat
    BY <1>1, <2>1, SumsNat, AccountedIs DEF Money
  <2>3. escrow \in [Users -> Nat] /\ wallet \in [Users -> Nat] /\ forfeits \in [Groups -> Nat]
    BY <1>1, <2>2 DEF Money
  <2> QED BY <1>1, <2>1, <2>3 DEF Shape, Money, TypeOK
<1>2. MInv /\ Money => TypeOK
  BY <1>1
<1> QED BY <1>2, MoneyInvariant, PTL

=============================================================================
