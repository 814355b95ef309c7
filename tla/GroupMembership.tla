--------------------------- MODULE GroupMembership ---------------------------
(***************************************************************************)
(* The roster of savings groups and the security deposits behind it: an    *)
(* admin drafts a group, members join it, it is activated, members who     *)
(* default lose their deposit and are replaced, and the deposits go back   *)
(* when the group completes.                                               *)
(*                                                                         *)
(* A $transaction is one step.  What a request reads before its            *)
(* transaction (the group, its roster, the deposit it asks for) is kept in *)
(* its task, and other requests run in between.  What the cycles do to a   *)
(* member (Default, SettleDefault, Resolve, Complete) is GroupCycle seen    *)
(* from here.  Of a group's terms the deposit they ask for is kept; it is  *)
(* 0 in PayoutMode DAILY and above 0 in CYCLE, and the draft may be changed *)
(* from one to the other.                                                  *)
(***************************************************************************)
EXTENDS Integers, FiniteSetsExt, Functions

CONSTANTS
    Groups, Users,
    Requests,       \* requests being served
    MinSlots,       \* the least group size, 5 in the code
    MaxSlots,       \* bound on the group sizes asked for
    Deposits,       \* what the groups asked for take of a member, 0 in DAILY mode
    None

ASSUME MembershipAssumption ==
    /\ IsFiniteSet(Groups) /\ IsFiniteSet(Users)
    /\ MinSlots \in Nat \ {0} /\ MaxSlots \in Nat
    /\ Deposits \subseteq Nat
    /\ None \notin Groups \union Users

VARIABLES
    groupStatus,
    memberSlots,
    required,       \* required[g]: the deposit g's payoutMode and amounts ask for
    wasDaily,       \* history: groups that have been in DAILY mode
    member,         \* member[g][u]: the GroupMember row, NoRow without one
    contributions,  \* contributions[g][u]: u's Contribution rows for the current cycle
    settled,        \* settled[g]: DEFAULTED members whose contribution is PAID by now
    escrow,         \* MEMBER_DEPOSIT_ESCROW balances
    wallet,         \* deposits returned to MEMBER_WALLET_AVAILABLE
    forfeits,       \* forfeited deposits in the GROUP_POOL
    task            \* task[r]: what request r has read

groupVars == <<groupStatus, memberSlots, required, wasDaily>>
moneyVars == <<escrow, wallet, forfeits>>
vars == <<groupVars, member, contributions, settled, moneyVars, task>>

NoRow == [status |-> "NONE", standing |-> "ACTIVE",
          depositStatus |-> "NOT_REQUIRED", depositAmount |-> 0]
NoTask == [op |-> "idle", group |-> None, user |-> None, other |-> None,
           roster |-> {}, slots |-> 0, deposit |-> 0]

ActiveMembers(g) == {u \in Users: member[g][u].status = "ACTIVE"}

Init ==
    /\ groupStatus = [g \in Groups |-> "NONE"]
    /\ memberSlots = [g \in Groups |-> 0]
    /\ required = [g \in Groups |-> 0]
    /\ wasDaily = {}
    /\ member = [g \in Groups |-> [u \in Users |-> NoRow]]
    /\ contributions = [g \in Groups |-> [u \in Users |-> 0]]
    /\ settled = [g \in Groups |-> {}]
    /\ escrow = [u \in Users |-> 0]
    /\ wallet = [u \in Users |-> 0]
    /\ forfeits = [g \in Groups |-> 0]
    /\ task = [r \in Requests |-> NoTask]

\* payoutMode, contributionAmount and daysPerCycle of the group are written.
Ask(g, deposit) ==
    /\ required' = [required EXCEPT ![g] = deposit]
    /\ wasDaily' = IF deposit = 0 THEN wasDaily \union {g} ELSE wasDaily

\* create
Create(g, slots, deposit) ==
    /\ groupStatus[g] = "NONE"
    /\ groupStatus' = [groupStatus EXCEPT ![g] = "DRAFT"]
    /\ memberSlots' = [memberSlots EXCEPT ![g] = slots]
    /\ Ask(g, deposit)
    /\ UNCHANGED <<member, contributions, settled, moneyVars, task>>

Begin(r, t) ==
    /\ task[r] = NoTask
    /\ task' = [task EXCEPT ![r] = t]
    /\ UNCHANGED <<groupVars, member, contributions, settled, moneyVars>>

Finish(r) == task' = [task EXCEPT ![r] = NoTask]

\* The request's transaction fails (a unique violation is one reason), or its
\* process dies before it.
Fail(r) ==
    /\ task[r] # NoTask
    /\ Finish(r)
    /\ UNCHANGED <<groupVars, member, contributions, settled, moneyVars>>

-----------------------------------------------------------------------------
(* Joining. *)

\* findUnresolvedDefaultRestrictions
Restricted(u) == \E g \in Groups:
    /\ groupStatus[g] = "ACTIVE"
    /\ member[g][u].status = "ACTIVE" /\ member[g][u].standing = "DEFAULTED"
    /\ u \notin settled[g]

AcceptsNewMembers(g) ==
    /\ Cardinality(ActiveMembers(g)) < memberSlots[g]
    /\ \/ groupStatus[g] = "DRAFT"
       \/ groupStatus[g] = "ACTIVE" /\ ActiveMembers(g) = {}

JoinTask(g, u) == [NoTask EXCEPT !.op = "join", !.group = g, !.user = u, !.deposit = required[g]]

\* joinWithInvite up to its transaction.
BeginJoin(r, g, u) ==
    /\ AcceptsNewMembers(g)
    /\ u \notin ActiveMembers(g)
    /\ ~Restricted(u)
    /\ Begin(r, JoinTask(g, u))

\* addMember, by the group's admin, up to its transaction.
BeginAdd(r, g, u) ==
    /\ groupStatus[g] = "DRAFT"
    /\ Cardinality({x \in Users: member[g][x] # NoRow}) < memberSlots[g]
    /\ member[g][u] = NoRow
    /\ Begin(r, JoinTask(g, u))

\* The row of a new member, unique per group and user, and applyDepositOnJoin.
NewRow(deposit) ==
    [status |-> "ACTIVE", standing |-> "ACTIVE",
     depositStatus |-> IF deposit = 0 THEN "NOT_REQUIRED" ELSE "HELD",
     depositAmount |-> deposit]

\* Mutant: the row says what the group asks for now, not what was taken.
HoldAsked(g, u, deposit) ==
    /\ member[g][u] = NoRow
    /\ member' = [member EXCEPT ![g][u] = NewRow(required[g])]
    /\ escrow' = [escrow EXCEPT ![u] = @ + deposit]

Hold(g, u, deposit) ==
    /\ member[g][u] = NoRow
    /\ member' = [member EXCEPT ![g][u] = NewRow(deposit)]
    /\ escrow' = [escrow EXCEPT ![u] = @ + deposit]

CommitJoin(r) ==
    /\ task[r].op = "join"
    /\ Hold(task[r].group, task[r].user, task[r].deposit)
    /\ Finish(r)
    /\ UNCHANGED <<groupVars, contributions, settled, wallet, forfeits>>

-----------------------------------------------------------------------------
(* The draft and its activation. *)

\* updateDraft up to its update: the admin may change the size, the amount and the
\* payoutMode.
BeginUpdate(r, g, slots, deposit) ==
    /\ groupStatus[g] = "DRAFT"
    /\ slots >= Cardinality(ActiveMembers(g)) /\ slots >= MinSlots
    /\ Begin(r, [NoTask EXCEPT !.op = "update", !.group = g, !.slots = slots, !.deposit = deposit])

\* It takes no deposit from those who have joined, and returns none.
CommitUpdate(r) ==
    LET t == task[r]
    IN  /\ t.op = "update"
        /\ memberSlots' = [memberSlots EXCEPT ![t.group] = t.slots]
        /\ Ask(t.group, t.deposit)
        /\ Finish(r)
        /\ UNCHANGED <<groupStatus, member, contributions, settled, moneyVars>>

\* Mutant: an empty slot does not keep the group from starting.
SlotsFilledMostly(g) == Cardinality(ActiveMembers(g)) >= memberSlots[g] - 1

\* "Fill all member slots before activating"
SlotsFilled(g) == Cardinality(ActiveMembers(g)) = memberSlots[g]

\* activate up to its transaction.
BeginActivate(r, g) ==
    /\ SlotsFilled(g)
    /\ groupStatus[g] = "DRAFT"
    /\ Begin(r, [NoTask EXCEPT !.op = "activate", !.group = g, !.roster = ActiveMembers(g)])

\* One contribution for each member that was read.
CommitActivate(r) ==
    LET g == task[r].group
    IN  /\ task[r].op = "activate"
        /\ groupStatus' = [groupStatus EXCEPT ![g] = "ACTIVE"]
        /\ contributions' = [contributions EXCEPT ![g] =
              [u \in Users |-> IF u \in task[r].roster THEN @[u] + 1 ELSE @[u]]]
        /\ Finish(r)
        /\ UNCHANGED <<memberSlots, required, wasDaily, member, settled, moneyVars>>

-----------------------------------------------------------------------------
(* Defaults and replacements. *)

\* The default transaction of syncGroupCompliance, with forfeitDepositForDefaulted.
Default(g, u) ==
    LET row == member[g][u]
        amount == IF row.depositStatus = "HELD" THEN row.depositAmount ELSE 0
    IN  /\ groupStatus[g] = "ACTIVE" /\ required[g] > 0
        /\ row.status = "ACTIVE" /\ row.standing # "DEFAULTED"
        /\ contributions[g][u] > 0
        /\ member' = [member EXCEPT
              ![g][u].standing = "DEFAULTED",
              ![g][u].depositStatus = IF @ = "HELD" THEN "FORFEITED" ELSE @]
        /\ escrow' = [escrow EXCEPT ![u] = @ - amount]
        /\ forfeits' = [forfeits EXCEPT ![g] = @ + amount]
        /\ UNCHANGED <<groupVars, contributions, settled, wallet, task>>

\* A payment, or the reserve's cover, completes the contribution of a defaulted member.
SettleDefault(g, u) ==
    /\ groupStatus[g] = "ACTIVE"
    /\ member[g][u].status = "ACTIVE" /\ member[g][u].standing = "DEFAULTED"
    /\ contributions[g][u] > 0 /\ u \notin settled[g]
    /\ settled' = [settled EXCEPT ![g] = @ \union {u}]
    /\ UNCHANGED <<groupVars, member, contributions, moneyVars, task>>

\* onContributionFullySettled, by the next sync.
Resolve(g, u) ==
    /\ groupStatus[g] = "ACTIVE" /\ required[g] > 0
    /\ member[g][u].status = "ACTIVE"
    /\ u \in settled[g]
    /\ member' = [member EXCEPT ![g][u].standing = "ACTIVE"]
    /\ settled' = [settled EXCEPT ![g] = @ \ {u}]
    /\ UNCHANGED <<groupVars, contributions, moneyVars, task>>

\* syncGroupCompliance of a DAILY group, which an update may have made of one in CYCLE.
ResetStandings(g) ==
    /\ groupStatus[g] = "ACTIVE" /\ required[g] = 0
    /\ member' = [member EXCEPT ![g] = [u \in Users |->
          IF @[u].status = "ACTIVE" THEN [@[u] EXCEPT !.standing = "ACTIVE"] ELSE @[u]]]
    /\ settled' = [settled EXCEPT ![g] = {}]
    /\ UNCHANGED <<groupVars, contributions, moneyVars, task>>

\* replaceDefaultingMember up to its transaction.
BeginReplace(r, g, old, new) ==
    /\ groupStatus[g] = "ACTIVE"
    /\ old \in ActiveMembers(g) /\ member[g][old].standing = "DEFAULTED"
    /\ new \notin ActiveMembers(g)
    /\ Begin(r, [NoTask EXCEPT !.op = "replace", !.group = g, !.user = new, !.other = old,
                               !.deposit = required[g]])

\* Mutant: nothing is held of the replacement.
TakeOverFree(g, old, new, deposit) ==
    /\ member[g][new] = NoRow
    /\ member' = [member EXCEPT ![g][old].status = "LEFT", ![g][new] = NewRow(0)]
    /\ UNCHANGED escrow

\* The old member leaves and the new one puts up a deposit.
TakeOver(g, old, new, deposit) ==
    /\ member[g][new] = NoRow
    /\ member' = [member EXCEPT ![g][old].status = "LEFT", ![g][new] = NewRow(deposit)]
    /\ escrow' = [escrow EXCEPT ![new] = @ + deposit]

\* The new member also takes over one contribution, if the old one still has one.
CommitReplace(r) ==
    LET g == task[r].group
        old == task[r].other
        new == task[r].user
    IN  /\ task[r].op = "replace"
        /\ TakeOver(g, old, new, task[r].deposit)
        /\ contributions' =
              IF contributions[g][old] = 0 THEN contributions
              ELSE [contributions EXCEPT ![g][old] = @ - 1, ![g][new] = @ + 1]
        /\ settled' = [settled EXCEPT ![g] = @ \ {old}]
        /\ Finish(r)
        /\ UNCHANGED <<groupVars, wallet, forfeits>>

\* Mutant: what the group asks for is returned, not what was held.
ReleasedAsked(g, u) ==
    IF member[g][u].depositStatus = "HELD" /\ member[g][u].standing # "DEFAULTED"
    THEN required[g] ELSE 0

\* releaseAllHeldDepositsForGroup
Released(g, u) ==
    IF member[g][u].depositStatus = "HELD" /\ member[g][u].standing # "DEFAULTED"
    THEN member[g][u].depositAmount ELSE 0

\* The last finalizeCycle.
Complete(g) ==
    /\ groupStatus[g] = "ACTIVE"
    /\ groupStatus' = [groupStatus EXCEPT ![g] = "COMPLETED"]
    /\ member' = [member EXCEPT ![g] = [u \in Users |->
          IF Released(g, u) > 0 THEN [@[u] EXCEPT !.depositStatus = "RELEASED"] ELSE @[u]]]
    /\ escrow' = [u \in Users |-> escrow[u] - Released(g, u)]
    /\ wallet' = [u \in Users |-> wallet[u] + Released(g, u)]
    /\ UNCHANGED <<memberSlots, required, wasDaily, contributions, settled, forfeits, task>>

Next ==
    \/ \E g \in Groups, slots \in MinSlots..MaxSlots, deposit \in Deposits:
          Create(g, slots, deposit) \/ \E r \in Requests: BeginUpdate(r, g, slots, deposit)
    \/ \E r \in Requests, g \in Groups, u \in Users: BeginJoin(r, g, u) \/ BeginAdd(r, g, u)
    \/ \E r \in Requests, g \in Groups: BeginActivate(r, g)
    \/ \E r \in Requests, g \in Groups, old, new \in Users: BeginReplace(r, g, old, new)
    \/ \E r \in Requests:
          CommitJoin(r) \/ CommitUpdate(r) \/ CommitActivate(r) \/ CommitReplace(r) \/ Fail(r)
    \/ \E g \in Groups, u \in Users: Default(g, u) \/ SettleDefault(g, u) \/ Resolve(g, u)
    \/ \E g \in Groups: ResetStandings(g) \/ Complete(g)

Spec == Init /\ [][Next]_vars

-----------------------------------------------------------------------------
(* Properties *)

Row == [status: {"NONE", "ACTIVE", "LEFT"}, standing: {"ACTIVE", "DEFAULTED"},
        depositStatus: {"NOT_REQUIRED", "HELD", "FORFEITED", "RELEASED"}, depositAmount: Nat]
Task == [op: {"idle", "join", "update", "activate", "replace"}, group: Groups \union {None},
         user: Users \union {None}, other: Users \union {None}, roster: SUBSET Users,
         slots: 0..MaxSlots, deposit: Nat]

\* Types of the rows, the balances and the requests' locals; no escrow is negative.
TypeOK ==
    /\ groupStatus \in [Groups -> {"NONE", "DRAFT", "ACTIVE", "COMPLETED"}]
    /\ memberSlots \in [Groups -> 0..MaxSlots]
    /\ required \in [Groups -> Nat]
    /\ wasDaily \subseteq Groups
    /\ member \in [Groups -> [Users -> Row]]
    /\ contributions \in [Groups -> [Users -> Nat]]
    /\ settled \in [Groups -> SUBSET Users]
    /\ escrow \in [Users -> Nat] /\ wallet \in [Users -> Nat] /\ forfeits \in [Groups -> Nat]
    /\ task \in [Requests -> Task]

Deposited(g, u, statuses) ==
    IF member[g][u].depositStatus \in statuses THEN member[g][u].depositAmount ELSE 0

\* A member's escrow holds the deposits of exactly those groups whose rows say HELD,
\* and what left it is in the wallet or in the pool of the group that took it, although
\* the amount a group asks for may change after some have joined.
DepositsAccounted ==
    /\ \A u \in Users:
          /\ escrow[u] = SumFunction([g \in Groups |-> Deposited(g, u, {"HELD"})])
          /\ wallet[u] = SumFunction([g \in Groups |-> Deposited(g, u, {"RELEASED"})])
    /\ \A g \in Groups:
          forfeits[g] = SumFunction([u \in Users |-> Deposited(g, u, {"FORFEITED"})])

\* In a group that has always been in CYCLE mode nobody owes a contribution who has not
\* put up a deposit, whether by joining, by being added or by replacing someone.  (Of a
\* draft that updateDraft has switched from DAILY to CYCLE the code does not keep this.)
DebtorsHaveDeposited ==
    \A g \in Groups, u \in Users:
        contributions[g][u] > 0 => g \in wasDaily \/ member[g][u].depositAmount > 0

\* A group that runs has at least MinSlots members with a contribution, although the
\* size may be changed while it is activated and members replaced afterwards.
GroupsStartFull ==
    \A g \in Groups: groupStatus[g] \in {"ACTIVE", "COMPLETED"} =>
        Cardinality({u \in Users: contributions[g][u] > 0}) >= MinSlots

=============================================================================
