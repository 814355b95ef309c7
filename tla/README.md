# MyTurn: TLA+ models of the money-moving backend

MyTurn is a rotating savings ("susu") platform. Members of a group pay a daily contribution; in each cycle one
member receives the pot; after as many cycles as members the group is complete. The code that can go wrong
expensively is the backend, `src/services/backend-api/src` (NestJS, Prisma on Postgres, Redis, the MTN MoMo
collection and disbursement APIs) and the arithmetic it shares with the screens, `src/packages/shared/src`.
This directory models that part.

Paths below are relative to `src/services/backend-api/src` unless they start with `src/`.

## 1. Inventory

| Component | State it keeps | Operations | Works with | What makes it correct |
|---|---|---|---|---|
| Ledger posting (`ledger-accounts/ledger-posting.service.ts`) | accounts with a stored balance, journals with a unique `idempotencyKey`, lines | `postJournal`, `postJournalInTx`, `postTransferInTx` | every service that moves money calls it inside its own `$transaction` | once per key, all lines or none, balance = sum of lines, no overdraft, every call ends |
| Withdrawals (`withdrawals/`) | `WithdrawalRequest` rows, the clearing account | hold, start disbursement, settle, fail, poll, HQ confirm/fail, stale monitor | ledger, disbursement provider, webhooks, notifications | row and ledger agree, one outcome only, COMPLETED means paid, a decided transfer is settled in the end |
| Disbursement and collection providers (`withdrawals/providers/`, `payments/providers/`) | transfers and requests, outside | request, status | withdrawals, payment requests | - (external) |
| Webhooks, idempotency (`webhooks/`, `common/idempotency/`) | Redis locks and cached results | callbacks, `runOnce` | providers, withdrawals, payment requests | a repeated callback changes nothing |
| Contribution payments (`payments/`, `ledger-accounts/financial-allocation.service.ts`) | `Contribution.paidDayCount`, `Payment` rows | check, settle, allocate | ledger, reserve, compliance | the pool holds what the rows say was paid |
| Compliance, default protection (`cycle-risk/`) | `cycleStanding`, `effectivePayoutOrder`, deposits, coverages | sync of a group, default, cover, resolve | payments, reserve, ledger | decisions from a stale snapshot break nothing |
| Contribution guarantee reserve (`ledger-accounts/contribution-guarantee-reserve.service.ts`) | reserve rows, the reserved wallet account | create on payout, release per payment, cover, release at completion | payouts, payments, compliance | rows and wallet agree, nothing stays locked |
| Payouts (`payouts/`) | `Payout` rows, `currentCycle`, group status | `finalizeCycle` | all of the above | payouts are backed and go round fairly |
| Payment requests (`payment-requests/`) | request rows with an expiry | initiate, poll, expire, settle, mock approval | collection provider, `runOnce`, payments | what is recorded was collected, what is shown as confirmed is recorded, no payment is lost from the count |
| Groups and members (`groups/`, `group-members/`) | groups, members with a turn order | create, join, add, edit the draft, activate, replace, payout screen | deposits, contributions, compliance | deposits and rows agree, whoever owes to a group that was always CYCLE has deposited, groups start full, what is offered can be done |
| Authentication, OTP, verification, admin requests | OTP in Redis, authorization level, review status | request, verify, review | users | bounded attempts, one verdict |
| Reconciliation (`reconciliation/`) | none of its own | daily summary | ledger, withdrawals | what has gone wrong is reported, and an undisturbed summary reports nothing else of the clearing account |
| Wallet summary (`ledger-accounts/hq-wallets-summary.service.ts`) | none of its own | totals of wallets, escrow, revenue, pools | ledger | the totals are what was paid in |
| Financial overview, explorers | none of their own | queries | ledger | - (they change nothing that others read) |
| Users, settings, audit, notifications, health, start-up | flags, message rows | rows written once | - | - |
| Web portal, mobile app, API client, platform configuration | screens | HTTP calls | backend | - |

`PROJECT.json` lists the same parts file by file, with what is modelled of each.

**Hard behaviours.** Several API processes and Node's event loop interleave handlers at every `await`. No isolation
level is configured, so transactions run at READ COMMITTED: a value read in a transaction can be stale when it is
written back. Providers lose answers and call back early, late, twice or never. Many handlers check outside the
transaction that acts. A notification that throws after a commit makes its caller believe nothing happened. Jobs
retry every few minutes. `PROJECT.json` lists the hazards with their lines
and the property that watches each, or why none does.

## 2. Modules

```
Journals ─┬─ Ledger                   abstract ledger: one atomic step per journal
          ├─ SharedLedger             the same, as far as handlers keep it that post at the same time
          └─ LedgerPosting            statement by statement
               └─ LedgerRaces         with a record of lost updates; refines SharedLedger,
                    │                 and Ledger with one handler
                    ├─ LedgerPostingProofs
                    └─ MCLedger       LedgerSerial, LedgerRace, LedgerLostUpdate
Withdrawals                           hold to settlement, all settlers at once
   ├─ MCWithdrawals                   WithdrawalsOneWay, WithdrawalsFailedPaid
   ├─ Reconciliation                  the summary HQ reads, query by query
   │     ├─ WithdrawalsProofs
   │     └─ MCReconciliation          Withdrawals
   └─ WithdrawalsLive ─ MCWithdrawalsLive   bounded failures, fairness: WithdrawalsLive
SharedFinance                         pool, margin, reserve units, recipients
   └─ GroupCycle                      payments, compliance, reserves, payouts of one group
        │  (INSTANCE RotatingSavings: the promise it implements)
        ├─ GroupCycleProofs ─ GroupCycleRefinement ─┐
        └─ PayoutReadiness ─ WalletSummary ─────────┴─ GroupCycleMoney
                                 └─ MCGroupCycle      GroupCycle, GroupCycleThree, GroupCycleUnlock
PaymentRequests                       one contribution's MoMo requests, request to record
   ├─ PaymentRequestsProofs
   └─ MCPaymentRequests               PaymentRequests
GroupMembership                       rosters and deposits, draft to completion
   ├─ GroupMembershipProofs
   └─ MCGroupMembership               GroupMembership
SumLemmas                             sums over finite sets, used by LedgerPostingProofs,
                                      WithdrawalsProofs, GroupCycleMoney, GroupMembershipProofs
```

The modules meet where the components do. `PaymentRequests.Record` and `GroupCycle.Settle` are the same call
(`recordContributionSettlement`), seen by the request that waits for it and by the pool it fills, in both with its
early return when the `Payment` is there already;
`GroupMembership.Default` and `Complete` are `GroupCycle`'s `ApplyDefault` and `CommitLastCycle` seen by the deposits;
every "balance" of the other modules is an account of `LedgerPosting`.

**Journals, LedgerPosting, Ledger.** A journal is a sequence of lines (account, signed delta) posted under a key.
One action of `LedgerPosting` is one statement of `postJournalInTx`: `FindExisting` (the `findUnique` on the key),
`CheckLine`/`RejectLine` (the loop of `assertNonNegativeAfterDelta` with its projected balances),
`InsertTransaction`/`UniqueViolation`, then `ReadAccount` and `WriteLine` for each line, and `Commit`. `written`
and `created` are the uncommitted writes of a transaction, an account in `written[w]` is row-locked by `w`. Locks,
the unique index, aborts and deadlock victims are Postgres' and marked external. `Ledger` is what callers are
promised: `Post(k)` in one step. `LedgerRaces` adds two history variables: `overtaken[w]`, the accounts whose balance
another commit has changed since handler `w` read it, and `spoiled`, the accounts on which a journal was committed all
the same. `SharedLedger` is the promise of `Ledger` with that exception: a journal is posted in one step, whole, once,
balanced, and moves every account by exactly its net, except those it spoils.

**Withdrawals.** `status`, `ref`, `journals` are the row and what the ledger did for it; `provider` is the truth at
the provider. A process is either the request that created the withdrawal (hold, send, mark, notify, and for the
mock provider settle) or a handler started by a callback, a poll or HQ. Each `$transaction` is a read of the
status, a check of the journal and a commit, and any other process may run in between. `Crash` ends a process
anywhere, `AbortTx` a transaction, and `RequestTransfer` can be accepted without being answered. `runOnce` appears
as `cached`: once a callback's result is stored, later callbacks are answered from it; before that they run, also
concurrently, because a caller that does not get the Redis lock waits 50 ms and runs anyway. `WithdrawalsLive` adds
a bound on failures and the fairness of section 4.

**SharedFinance, GroupCycle.** `SharedFinance` is the arithmetic of `src/packages/shared/src`: pool, margin in basis
points with its rounding, reserve percentage by position, units after a payout and what the next one releases, and
the choice of the recipient from the queue. `GroupCycle` is one group from activation to completion. A
`$transaction` is one step except `finalizeCycle`'s, whose reads (`FinalizeRead`) and commit (`CommitCycle`,
`CommitLastCycle`) are two; a payment is checked (`CheckPayment`) and settled (`Settle`) in two steps;
`Settle` may be `repeated`, the settlement of a payment that is recorded already: the count
goes up and is committed without a `Payment`, an inflow or a release, and `repeats` counts such days.
`syncGroupCompliance` takes its decisions from one snapshot (`BeginSync`) and applies them one member at a time in any
order (`ApplyUpdate`, `ApplyResolve`, `ApplyDefault`), while anything else happens. `Stop` and `DropPayment` are
processes that die, or transactions and notifications that throw. Every handler begins with a sync and may go on to
finalize, so that two syncs, two finalizations or one of each can overlap.

**RotatingSavings** is what the members are promised, in two actions: `PayIn` (the pool grows) and `PayOut` (the
round's amount leaves the pool for one member and the next round begins). `GroupCycle` instantiates it with the pool,
the recipients, and the current cycle (one more when the group is COMPLETED); deposits, reserves, standings and
handlers disappear.

**PayoutReadiness** adds to `GroupCycle` what the admin's payout screen computes (`getPayoutReadiness`): operators, no
step. **WalletSummary** adds the operator's totals (`HqWalletsSummaryService.getSummary`, and `totalWalletLiabilities`
of the reconciliation summary), and compares them with what the rows say has come in from outside: a deposit of each
member and every paid day, less the days a default cover completed out of money that was already in and the days that
repeated settlements credited.
**Reconciliation** adds to `Withdrawals` the daily summary HQ reads. `getSummary` makes its queries outside any
transaction, so each is a step, in the code's order, and withdrawals go on in between: the clearing balance, the
comparison with no open row at all, the stale PROCESSING rows (an alarm of their own), the comparison with what the
open rows hold, negative balances, COMPLETED rows without a reference. `quiet` is history: no row and no journal has
changed since the summary began.

**PaymentRequests.** The requests of one member for one contribution: `status` and `expired` are the rows, `payments`
the requests whose `externalRef` has a `Payment`, `paidDayCount` the contribution, `provider` what the payer and MTN
know. A handler is a member's request, a poll or a callback, and keeps in `job` what it has read; one action is one
`await` of `PaymentRequestsService`, so that the unconditional updates (`WriteExpired`, `FailInitiate`, `Approve`) come
as late as they can in the code. `Record` is the settlement's transaction: it refuses a count that has moved since
`CheckPayable`, and counts the day also when the `Payment` row is there already. `Crash` is an exception or a death
anywhere, also between `Record` and `Approve`. `runOnce` is reduced to the stored result of a callback: its lock
keeps nobody out for more than 50 ms.

**GroupMembership.** `member[g][u]` is the row with status, standing and deposit; `required[g]` is what a deposit
costs now, 0 in a DAILY group (`applyDepositOnJoin` returns early), `depositAmount` what was taken. A draft may be
created DAILY or CYCLE and switched by an update (`Ask`); `wasDaily` is history. `BeginJoin`, `BeginAdd`,
`BeginUpdate`, `BeginActivate` and `BeginReplace` are a request up to its transaction, with what it has read in
`task`, and `Commit...` is the transaction, which looks at nothing again except the unique index of `GroupMember`.
`Default`, `SettleDefault`, `Resolve` and `Complete` are what the cycles do to a member, and `ResetStandings` what the
sync does instead in a DAILY group.

A definition whose comment starts with "Mutant:" is not part of the model. It is a plausible mistake in the code,
and `PROJECT.json` says which property finds it when it takes the place of the real definition.

## 3. Runs

| Run | Instance | Question |
|---|---|---|
| `LedgerSerial` | 1 handler, 3 accounts, 7 journals (two holds, a release, a four-line inflow, two debits of one account, a zero journal, an unbalanced one) | Do the statements, aborted anywhere, implement the atomic ledger? Is every balance the sum of its lines, and none negative? |
| `LedgerRace` | 2 handlers, 3 journals that lock the same accounts in opposite orders | What survives concurrency: once per key, whole journals, `balanceAfter` of the last line, every call ends, the shared ledger is implemented, and an account without a lost update is right |
| `LedgerLostUpdate` | 2 handlers, 2 holds of one wallet | violated: a balance is the sum of its lines |
| `Withdrawals` | 2 interchangeable withdrawals of one member, 1 more handler, mock or live provider, a summary of the reconciliation going on in between | Row and ledger agree, settled stays settled, COMPLETED means paid; a summary nothing overlaps reports a clearing mismatch exactly if a hold went both ways, and any summary a negative balance only then |
| `WithdrawalsLive` | 2 withdrawals, one of them PROCESSING already, 1 more handler, at most 2 failures | A PROCESSING withdrawal the provider has decided is settled in the end, unless some hold has gone both ways |
| `WithdrawalsOneWay` | 2 withdrawals, 2 handlers | violated: a hold leaves clearing one way only |
| `WithdrawalsFailedPaid` | 2 withdrawals, 1 handler | violated: a hold is returned only if the provider has not paid |
| `GroupCycle` | 2 members, 1 payment per cycle, two handlers that sync or finalize, one payment in flight | No balance goes negative; payouts are backed; payouts follow turn order while nobody has forfeited a deposit; the group implements `RotatingSavings` |
| `PaymentRequests` | 2 requests, 3 handlers, a contribution of 2 days, mock or live provider | Recorded means collected; confirmed means recorded; every recorded payment counts |
| `GroupMembership` | 3 users, 2 requests at a time, sizes 2 and 3, deposits of 0 (DAILY), 1 and 2; one group with overlapping requests or two groups with shared members (`Scope`) | Escrow, wallets and pools agree with the rows; whoever owes to a group that was always CYCLE has deposited; a running group was filled |
| `GroupCycleThree` | 3 members, 2 payments per cycle, reserves of up to 60 %, one handler, `OneByOne`, `OneRepeat` | Pool = what was paid less what was paid out and what a repeated settlement credited, also when a default cover overtakes a payment; an offered payout is in the pool but for days credited so in its cycle; reserve rows and reserved wallets agree; nothing stays locked at completion; no money is made or lost between pool, wallets, escrow and revenue |
| `GroupCycleUnlock` | 5 members, 1 payment per cycle, the default 30 % reserve, `OneByOne` | violated: a due payment is not refused because of the reserve it should unlock |

**Bounds, and why they are enough.**
- Ledger: a journal of the code has two to four lines, and the races are between two transactions. Two handlers give
  every race of a statement of one with a statement of the other, and lock cycles. A third could only wait. Two
  handlers are also the least for which a unique violation and a deadlock exist.
- Withdrawals: the clearing account pools the holds, so a second withdrawal lets the balance check of a late second
  settlement pass on the other one's hold; with one withdrawal that check would stop it. The creating request and one
  handler already race; the `WithdrawalsOneWay` run uses two handlers so that callbacks and HQ race with each other.
  `WithdrawalsLive` needs the second withdrawal too, because one that is settled both ways takes the money the other
  waits for; its second withdrawal starts PROCESSING with its transfer undecided, a state `Withdrawals` reaches.
  In `Withdrawals` the two are interchangeable and of one amount (symmetry); its `VIEW` forgets the locals of
  handlers that have returned, which the next `Begin` sets.
- GroupCycle: the program asks for five members at least. Two members and one payment per cycle are enough for a
  payment, a sync, a default and a finalization to overtake each other in every order, and are what can be explored
  in full. Reserves with several units need several payments per cycle, and two active reserves a third member. That
  run has the maximal reserve raised (`CONTRIBUTION_RESERVE_MAX_BPS` is a setting) so that full and partial covers
  both happen and a unit can still be released after a full one; it gives up the second handler and, by the
  constraint `OneByOne` of `MCGroupCycle`, the order of the members' payments within a cycle; `OneRepeat` allows one
  repeated settlement. What the two constraints cut away is left to the theorems, which have neither. With one payment
  per cycle a count cannot be raised twice, so the run `GroupCycle` has no repeated settlement. `GroupCycleUnlock` uses
  the five members and the 30 % the program really starts with, so that its finding needs no unusual setting.
- PaymentRequests: a second request is created when the first has expired or failed, so two requests are the least
  whose settlements race for one day; with three handlers a callback, a poll and another settlement are between any
  two steps of each other. Two days make the difference between a contribution that is full and one that is not.
  Requests and handlers are interchangeable (symmetry; the run has no liveness property).
- GroupMembership: the code's least group size is five (`MinSlots`); two and three have an empty slot, a full group and
  a replacement from outside. Overlapping requests concern one group; what needs a second group (deposits of one user
  in two groups, restrictions across groups) needs no overlap. The constraint `Scope` keeps these two cases apart, and
  limits a group that has been DAILY to the amounts 0 and 1.
- `MaxPaying` bounds payments between their check and their settlement, `MaxDay` is the day on which the last
  deadline has passed; later days change nothing. `MaxFailures` bounds crashes and aborts in `WithdrawalsLive`
  only.
- Deadlock is checked for the ledger. It is off for withdrawals, payment requests and groups, which really stop: all
  withdrawals settled and nothing left to ask, all requests decided, the group completed.

## 4. Fairness

`LedgerPosting`: strong fairness of a handler's own statements and weak fairness of the deadlock victim. Postgres
serves lock queues in order and breaks cycles after `deadlock_timeout`; a handler is never obliged to start a call,
and aborts are possible but never required.

`WithdrawalsLive`: strong fairness of `PollRow` (`StaleWithdrawalMonitorJob` comes back every five minutes and polls
every stale row, also if a handler was busy in between), of `Answered` (a status endpoint asked again and again
answers some time; the provider's *decision* is not required, only that it is told once it exists), and weak
fairness of `Proceed` (a started handler goes on). No fairness for members, callbacks, HQ or failures. The job takes
the 50 oldest rows; with fewer stale rows than that it polls all of them, which is the case modelled.

## 5. Where the code and what it says of itself disagree

1. **Lost update on balances** (`LedgerLostUpdate`; `ledger-posting.service.ts:68`). The write loop reads the balance
   with a plain SELECT, adds in memory and writes the sum. Two postings to one account can both read before either
   writes: both lines are committed, one delta is not in the balance. What still holds under concurrency is the list
   of `LedgerRace`; `RightUnlessSpoiled` says that nothing else makes a balance wrong. `Withdrawals` and `GroupCycle`
   therefore take an account's balance to be the sum of its lines, and are about what goes wrong even if it is.
2. **A hold settled both ways** (`WithdrawalsOneWay`; `withdrawals.service.ts:674`). Completing and failing read the
   status without a lock and post under different keys; if both read PROCESSING, both commit.
3. **Returned and paid** (`WithdrawalsFailedPaid`; `withdrawals.service.ts:295`). The catch around the disbursement
   releases the hold after any exception, also one raised after the provider accepted.
4. **A due payment refused** (`GroupCycleUnlock`; `src/packages/shared/src/contribution-reserve.ts:72`). The unit to
   release is not limited to what a default cover has left of the reserve; the transfer would overdraw the reserved
   wallet, and the settlement that carries it is rolled back, each time the member tries.

Met while modelling, and not given a run; the first three are in the models, and the properties named there say how far
they reach:
- A withdrawal can be stuck for ever (`withdrawals.service.ts:685`). The second settlement of finding 2 is taken from
  another withdrawal's hold. The clearing account is then short of that one's amount, and completing and failing it
  both throw, for the monitor and for HQ alike, although docs/REAL_MONEY_PILOT_CHECKLIST.md:174 says "HQ may **Fail
  stuck** if PROCESSING > threshold". `ProcessingSettles` makes an exception of just this case.
- A day can be credited twice (`financial-allocation.service.ts:92`). A settlement of a request that already has its
  `Payment`, for instance when the notification after the first one threw and the callback came again, commits the
  raised `paidDayCount` and nothing else. docs/REAL_MONEY_PILOT_CHECKLIST.md:71 says "Duplicate webhook does not
  double-pay"; the money is not taken twice, but a day counts that nobody paid. `EveryPaymentCounts` is the direction
  that holds, and `PoolMatchesContributions`, `MoneyConserved` and `OfferedIsFunded` say that such days are all that
  the pool is short of.
- A member can owe without a deposit (`groups/groups.service.ts:985`). An update may switch a DAILY draft, whose
  members joined without one, to CYCLE, and nobody is asked afterwards, although
  `services/backend-api/prisma/schema.prisma:267` calls `depositAmount` what is held of each member in CYCLE mode.
  `DebtorsHaveDeposited` is about groups that were never DAILY.
- MTN callbacks are not authenticated (`webhooks/webhook-auth.ts:28-31`), and `parseWebhook` takes the status from the
  body (`payments/providers/mtn-momo-sandbox.provider.ts:174-179`), although `webhooks/webhooks.service.ts:82` says
  "settlement requires API verify + known reference" and docs/MTN_WEBHOOK_SECURITY.md:20 that settlement applies only to
  what the verification returns. That callbacks tell the provider's decision is therefore an assumption of `Withdrawals`
  and `PaymentRequests`, which `CompletedWasPaid` and `RecordedWasCollected` rest on, and not something the code ensures.
- `payouts/payout-contribution-readiness.ts:14` says that DEFAULTED members do not block finalization. The payout screen
  (`groups.service.ts:397`) requires everybody's payment and disables its button otherwise
  (`src/apps/web-portal/src/app/admin/payouts/page.tsx:175`), so that a group with an unpaid default is finalized only
  by calling the API directly. The stricter condition is what makes `OfferedIsFunded` true, up to repeated settlements.
- Two activations that overlap create the contributions of cycle 1 twice (`groups.service.ts:259`); two joins overfill
  a group, which then never activates (`groups.service.ts:641`); the branch of `groupAcceptsNewMembers` for an ACTIVE
  group with an empty roster cannot be reached.
- `reconciliation/reconciliation-summary.service.ts:207` says "Float ≈ Group Pools + Member Available + Member Reserved +
  MyTurn Revenue + Clearing". A contribution debits and credits the float by the same amount
  (`financial-allocation.service.ts:130`) and a deposit goes from the external account to the escrow
  (`cycle-risk/cycle-deposits.service.ts:141`), so that the float stays at zero and the sum is backed by the external
  account instead (`MoneyConserved`).
- A sign-in sets the level of a verified member back to PHONE_VERIFIED (`auth/otp.service.ts:212`) although
  `member-verification/member-verification.service.ts:155` told the member "You can now contribute and receive
  payouts".

And in the cycles of a group: a partial default cover adds to the pool but not to `paidDayCount`, so the
member is later asked for the whole contribution (`PoolMatchesContributions` counts such covers separately); a
cycle can be "ready" because everybody who has not paid is DEFAULTED while the pool is still too small, in which
case the ledger refuses the payout; a member who is paid, defaults and is queued again can be chosen twice; the
message sent with a full cover says "Your participation is active again" while the standing stays DEFAULTED until
the next sync; a payment checked in one cycle can settle after that cycle was finalized.

## 6. What is proved

TLAPS checks these for every value of the constants; the runs show the same properties on small instances. Every
invariant that a passing run checks is a theorem, and so are `SettledStaysSettled` and the refinements of
`RotatingSavings` and of `SharedLedger`. Only the invariants of `LedgerSerial` are proved as in that run, for one handler.

**SumLemmas** (no assumption). The balances, pools and totals are sums over sets of any size, so that the proofs need
what a fold computes for every set, while the library's induction theorems take an operator as a parameter and cannot be
used. Instead a claim about all subsets of a finite set is refuted by a smallest subset (`MinimalSubset`), which
exists because the strict subset order is well founded (`WFMin`, `FS_StrictSubsetOrderingWellFounded`).
`SubsetInduction` states that for claims given as a set of subsets. The fold of the community modules is a recursive
function that takes out a `CHOOSE`n element: `UnfoldsUnique` and `UnfoldsExists` show that there is exactly one such
function, and `SumRemove` that the order of the elements does not matter. From it follow what the other modules cite: the
change of one point (`SumPointChange`), the sum of a sum, of a constant, of a disjoint union, along a bijection, and the
bounds (`SumAtLeast`, `SumAtMost`, `SumTight`).

**LedgerPostingProofs** (from `JournalsAssumption`, `WorkersAssumption`: any accounts, any finite journals, any set of
handlers).
- `TypeCorrect`: `TypeOK` is inductive once it says that the line a handler works on exists.
- `PostedOnce` (`OneJournalPerKey`) and `PostedWhole` (`WholeJournals`): the invariant relates the uncommitted rows
  `created[w]` of a handler to the prefix of the journal it has written, and says that at most one handler holds a
  key between its insert and its end and that no such key is committed; a commit then appends exactly one complete
  copy of a journal not yet in the book.
- `BalanceIsShown` (`BalanceIsLastLine`): `WrittenInv` says that an uncommitted balance is the `balanceAfter` of the
  handler's own last line on that account, also when it was computed from a stale read; a commit carries both over
  together.
- `PostingIsShared` (`RaceSpec => ImplementsSharedLedger`) and `RightOrSpoiled` (`RightUnlessSpoiled`) are about
  `LedgerRaces`, with any number of handlers on the same accounts: nothing is assumed of how they interleave. They say
  that the lost update of finding 1 is the only thing between the code and the ledger it promises, and that it does
  its harm only on the account it happens on. Several lines on one account, rejections, aborts, deadlocks and races
  for one key do none. Their invariant `SerialInv` says of every handler (`SerialOK`), for the accounts it has not
  been overtaken on: what the check has projected is the committed balance plus the lines checked so far; past the
  check the journal leaves no account below zero; what is visible while writing is the committed balance plus the
  lines written so far (`Partial`, up to `Net`). A read another handler's commit makes stale moves its account into
  `overtaken`, so that the claim is dropped for just that account. A commit is then `Post` of the shared ledger and
  every other step a stutter. `RightOrSpoiled` adds that the created lines are the journal's (`LinesOK`), and splits
  the sum over the longer book into the old lines and the new ones.
- `OneHandler`, a corollary: with one handler nothing is ever overtaken, and `NonNegative` and `BalanceIsSumOfLines`
  hold of every account. That the statements then implement `Ledger` itself is left to the run `LedgerSerial`.

**WithdrawalsProofs** (from `WithdrawalsAssumption`; any number of withdrawals, handlers and members). `IInv == TypeOK
/\ RowInv /\ TxInv /\ PaidInv /\ StatusMatchesJournals /\ CompletedWasPaid`. `RowInv`: until the update to PROCESSING
the row is what `createWithdrawalHold` wrote, PENDING without a `providerRef`. `TxInv`: so no settlement of it has
begun, as look-ups go by `providerRef` and HQ asks for PROCESSING. `PaidInv`: a process settling with COMPLETED other
than for HQ has the provider's word for it. `TypeCorrect`, `StatusMatches` and `PaidWhenCompleted` are its
consequences, and `NeverReopened` is the action property `SettledStaysSettled`: the unconditional update to PROCESSING
is harmless because nothing can look a row up before that very update has stored its reference. `DoubleSettlementSeen`
is about `Reconciliation`, query by query, from `IInv`, finitely many holds (`FiniteHolds`; the withdrawals may be
infinitely many) and `WalletsCover`: a hold is only taken from a wallet that covers it. So the clearing account is
what the open holds add up to, less the amounts of the withdrawals settled both ways (`ClearingIs`). In a quiet
summary the balance it has read is still the clearing account when it is compared, and the difference it reports is
positive exactly if there is such a withdrawal. An overlapped summary may raise a mismatch for nothing, which the
theorem does not exclude, but finds a negative balance only after a double settlement, and a COMPLETED row without a
reference never.

**GroupCycleProofs** (from `GroupCycleAssumption`; any number of members, days, amounts, handlers). `GInv == Shape /\
DefaultForfeits /\ CommitAnswered /\ PayoutBacked`. `DefaultForfeits`: while the group is ACTIVE a DEFAULTED member's
deposit is forfeited. `CommitAnswered`: what `finalizeCycle` has checked about a cycle is still true at its commit,
although standings changed in between, because a paid contribution and a forfeited deposit are never taken back (the
sync's stale "active" decisions change standings only). `PayoutsBacked` follows. `FairInTurn` (`FairRotation`) needs
`InTurn`: until a deposit is forfeited the queue is the turn order and a handler about to commit has chosen the member
whose turn its cycle is. That the choice is this member, and only this one, is `RecipientInTurn`: the turn order is a
bijection, so a member's place in the queue is its turn, and only one is at distance 0.

**GroupCycleRefinement** (same assumption): `KeepsPromise`, `Spec => ImplementsSavings`. `RInv == Shape /\ Amounts /\
PaidInOrder /\ Committing`. `PaidInOrder`: the cycles with a payout row are exactly those before the current one, and the
last one too once the group is COMPLETED. `Committing`: a handler about to commit belongs to a cycle that has been
opened. So a commit that finds no payout row is for the current cycle (`CommitFacts`) and maps to `PayOut`; every other
step leaves the group alone and the pool no smaller, because a default cover is never negative (`CoveredRow`), and maps
to `PayIn` or a stutter. This is why two handlers finalizing the same cycle do no harm: the second finds the row.

**GroupCycleMoney** (same assumption; any amounts, margins, reserves). Four steps move money (`MoneySteps`): a
settlement, a default with its cover and forfeiture, and the two commits.
- `TypesKept` (`TypeOK`, so no pool, wallet or reserve is negative): `TypeInv == RInv /\ DefaultForfeits /\ TypeOK /\
  Rows /\ Covers`. `Rows`: a reserve row is ACTIVE as long as something remains in it, its wallet share is at most
  what remains, and only a payout makes a row. `Covers`: covers are finitely many, and none is more than what was
  missed.
- `ReservesAccounted`: `Accounted`, a member's reserved wallet is the sum of what the rows of the cycles paid to this
  member still hold. A release or a cover changes one row and the wallet by the same amount; a payout adds a row that
  had not counted.
- `NothingLocked`: from `Accounted`, as at the completion every row holds nothing, and afterwards no step adds to one.
- `PoolMatches`: `PoolTotal`, the same equation with its sums named. A repeated settlement raises one of them, the
  counted days, together with another, the repeated ones, and leaves the pool alone. A full cover counts through
  `paidDayCount` and a partial one through `coverages`, and the default that makes either adds exactly that to the
  pool.
- `MoneyIsConserved`: `PoolTotal` and `Wallets` (what the wallets hold, and covers have taken, is what payouts and
  released deposits have brought in), added up.
- `OffersAreFunded`: `CycleFunded`, the pool and the days repeated for the current cycle make up at least what its
  rows count, and `NotAhead`, nobody has paid for a cycle not opened yet, so that a payout never takes the next
  cycle's money. The screen asks for everybody's payment, and that is the gross amount less at most those days.

**PaymentRequestsProofs** (from `PaymentRequestsAssumption`; any number of requests, handlers and days). `Types`;
`Collected`, because a settlement with APPROVED carries the provider's decision from the callback or the poll to
`Record`, and that decision is final as a request is sent only once (`SentOnce`); `Recorded`, because only a handler
that has passed `Record` reaches `Approve` and payments are never removed; `Counted`, because a transaction that adds
a payment has raised the count by one in the same step.

**GroupMembershipProofs** (from `MembershipAssumption`; any groups, users and requests). `DebtorsDeposited`: a request
about to activate has read only members that are `Secured`: they have a row and, unless the group has ever been DAILY,
a deposit in it. Deposits in rows are never lowered, and a contribution moves only to a row that `TakeOver` has just
created. Without "unless" the statement is false (section 5). `StartedFull`: a group asks for at least `MinSlots`,
also in an update that is still to come; what an activation has read was as large; and afterwards contributions only
change hands. `DepositsKept` (`DepositsAccounted`) and `MembershipTyped` (`TypeOK`): `Money` has the balances as
integers only, and equal to sums of deposits of rows; a step changes one row's deposit, or those of one group at its
completion, and the balances by that much (`SumPointChange`). That the balances are not negative is then a
consequence, as a sum of what rows record is not.

Only model-checked: the liveness properties `EveryCallEnds` and `ProcessingSettles` (liveness under fairness and
ENABLED are outside the prover's reach), `ImplementsLedger`, and the four violations, which are counterexamples.

## 7. What is abstracted or left out

- Withdrawals: "manual" stands for any reference HQ types, the provider's own included, and makes no claim about
  payment; one daily limit stands for the five limits that refuse a request in the same place; callbacks report the
  provider's decision, which the code does not verify (section 5); the test callbacks of the mock provider are left
  out; admins have no withdrawals (`createAdminWithdrawal` is deprecated and throws).
- GroupCycle: a sync's reads of standings and of contributions are one snapshot (the code reads the group, then the
  contributions); the group mode is CYCLE, not DAILY; every member's deposit is held at the start (`DebtorsDeposited`
  shows that of groups that were always CYCLE; section 5 is about the others); the queue is the turn order;
  replacement of members, minimum reserve percentage, changes of settings while the group runs, and a member in
  several groups are left out; `CONTRIBUTION_RESERVE_ENABLED` is taken as on, and `MaxReserveBps = 0` is off.
- Journals of payments and payouts are reduced to the balances they move; `LedgerPosting` is what happens inside.
- PaymentRequests: one contribution of one member; callbacks tell the provider's decision (section 5); that the cycle
  is over or the member may no longer take part is one of the exceptions of `Crash`.
- GroupMembership: turn orders, invite codes, accounts and passwords, the payouts of DAILY groups, and the settings of
  cycle risk are left out (DAILY drafts and their switch to CYCLE are modelled); the deposit of a group is one amount;
  a DEFAULTED member's contribution is paid or not (`settled`), and the days in between are `GroupCycle`'s.
- Reconciliation: its checks of pools, margins, payouts and legacy wallets are left out; which PROCESSING rows are older
  than the threshold is any choice; of the discrepancies only the last one pushed is kept.

Not modelled, and why:
- OTP, verification of members, admin requests: they move no money, and the modelled handlers only know being refused.
  Their races are listed as hazards.
- Screens (web portal, mobile app, API client), queries for them, exports, tooling, seeds, start-up and health: they
  keep no state that a modelled step reads. They are most of the repository's lines.
- Legacy migrations (`Wallet` rows, deposit escrow): one-off, under keys that `LedgerPosting` covers.

## 8. Plan

Done: ledger, withdrawals with their reconciliation, one group's life with its refinement, payment requests, rosters and
deposits, in that order because each relies on the one before. Next:

1. Proofs: an abstract specification of a withdrawal, of a payment request and of a group's roster, and that the modules
   implement it.
2. The statements of the default transaction, to interleave two of them (`default-protection.service.ts:202`), and
   replacement of members inside `GroupCycle`.
3. A small module for the three read-then-write reviews and the sign-in that lowers a level.
