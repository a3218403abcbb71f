# Salapi: TLA+ models, checks and proofs

Salapi is a wallet for community finance on Stellar: a set of Soroban contracts
(`contracts/`, Rust) that hold the money, a Next.js application (`web/`) that
signs and submits calls to them, and a Supabase database (`web/supabase/`) with
the off-chain state. This directory models its core logic in TLA+, checks it
with TLC on small instances, and proves part of it with TLAPS for all of them.

## 1. Inventory

What each part keeps, what it does, and what makes it correct. `PROJECT.json`
lists the same parts with their files, and every hazard with its line.

| part | state | operations | must hold | status |
|---|---|---|---|---|
| Arisan Rooms (`contracts/arisan_rooms`) | rooms, rosters, locks, a pool per installment room, draw deadlines, commitments, reveals, winners; one token balance | create (legacy, installment, scheduled), deposit, join, leave, cancel, start, commit, reveal, finalize, postpone, dissolve | nobody loses a token; everyone wins once; dates kept; draws bound; no stranded pool | modelled, proved |
| Disaster vault (`contracts/disaster`) | proposals, approvals, pause switch with its epoch, 24 h spending history, token balance | contribute, propose, approve, execute | pays once, as approved, after the timelock, under the rolling cap; no stale pause or unpause | modelled, proved |
| Donation campaign (`contracts/donation-campaign`) | campaigns, escrows, contributions, approvals; one token balance | create, donate, submit_proof, approve, release, refund, close_empty | paid out or refunded, never both, never stranded, to the token | modelled, proved |
| Paluwagan, smart savings, base vault (`contracts/*`) | a fixed rotation; goals with a date; one owner's pool | initialize, contribute, payout; open, deposit, withdraw; deposit, disburse | conservation; each round completes; locks hold | not modelled |
| Username registry (`contracts/username-registry`) | name to account, account to name | register, rename | a name never changes hands; old names stay aliases | modelled |
| Keepalive worker (`web/lib/server/arisanScheduledKeepalive.ts`, migrations) | a lease per room and signer, one pending envelope, a daily schedule | claim, reconcile, prepare, send, finish | never two envelopes at once; no early expiry; nothing sent is forgotten | modelled, proved |
| Campaign e-mail outbox (`campaignUpdates.ts`, `campaign_updates.sql`) | subscriptions, updates, leased outbox rows | subscribe, unsubscribe, publish, claim, send, finish | one e-mail per update and recipient; consent respected; no retry once the key may be forgotten | modelled, refines a promise, proved |
| Gatherings and inbox (`arisanGatherings.ts`, its panel, migration) | meetings with revisions, RSVPs, reminders, inbox; room watch | save, rsvp, remind; watch, discover | no lost edit; idempotent retries; no stale reminder | the meeting modelled, proved; watch and discovery not |
| Submission and its guard (`stellar.ts`, `useUnresolvedSubmission.ts`) | a signed envelope's status; a lock per context in the tab | begin, sign, submit, check, recover | nothing is sent beside an open submission; signed as reviewed | modelled, proved |
| Wallets (`userWallet.ts`, `walletReadiness.ts`) | one wallet row per user; an account on Testnet | sign in, draw a key, store, read back, fund | one canonical key per user, only it is funded and signs | modelled, proved |
| Username onboarding, payments to a handle (`usernameOnboarding.ts`, `app/actions.ts`) | none of their own | read status, register, read back; look up, send | a confirmed handle is the registered one; the reviewed account is paid | server side modelled; the dialog not |
| Funding client, donors, other actions (`app/*-actions.ts`) | none, or one insert | check account and terms, sign, record | as for submissions | the steps that sign: modelled |
| Circle links, photos, money helpers | link rows with a trigger; files; none | archive, upload, allocate | one-way archive; exact sums | not modelled |
| Read models, screens, build | caches | read | - | not modelled: no control of their own |

How they interact: server actions sign with the user's custodial key and submit
one contract call at a time; each Soroban invocation is atomic and calls are
ordered by the ledger, so *between* calls everything can happen: other members,
other rooms, the clock, lost answers. The contracts trust nobody off-chain and
repeat every check; the web layer adds its own durable state (leases, outbox,
locks) where a lost answer would otherwise repeat a payment or an e-mail.

What is hard here:
- many rooms or campaigns over **one** token balance, with money flowing along
  different paths (locks, pools, pots, refunds);
- deadlines that actors race: join window, commit and reveal windows, review
  deadline, timelock and 24-hour window on two different clocks;
- members, hosts and approvers who stop acting at any point;
- off-chain: lost answers, expired leases, retries, workers that overlap, calls
  that are carried out after their caller has given up, sessions that change
  while a request waits.

## 2. Modules

| module | what it is |
|---|---|
| `ArisanRooms` | the arisan contract: one action per entry point, `Tick` for ledger time |
| `Rotation` | what a room promises its members, without dates, draws and where the tokens lie; `ArisanRooms` implements it |
| `MC_ArisanRooms` | constants, symmetry and room terms for its runs |
| `DisasterVault`, `MC_DisasterVault` | the relief vault and its instance |
| `DonationCampaign`, `MC_DonationCampaign` | the campaign escrow and its instance |
| `FloorShare` | the basis-point split both escrow contracts compute |
| `Totals` | a sum of amounts, as the number of coins in them |
| `Submissions`, `MC_Submissions` | one browser tab, its locks, the server actions that sign, the network |
| `KeepaliveWorker`, `MC_KeepaliveWorker` | the cron worker that keeps scheduled rooms from expiring |
| `CampaignOutbox`, `MC_CampaignOutbox` | publishing, consent, dispatching and the mail provider |
| `ConsentedMail` | what subscribers are promised, without the machinery; `CampaignOutbox` implements it |
| `Gatherings`, `MC_Gatherings` | the meeting of a room: panels, saves, answers, reminders |
| `Accounts`, `MC_Accounts` | wallets, handles and payments to handles |
| `<module>_proofs` | the inductive invariant of a module and the theorems that follow from it: `ArisanRooms`, `DisasterVault`, `DonationCampaign`, `KeepaliveWorker`, `CampaignOutbox`, `Accounts`, `Submissions`, `Gatherings` |

A definition named `X_Something` next to `X` and commented *faulty variant* is
not part of the specification: it is `X` with a plausible bug, and every
property is shown to fail when one of them takes the place of `X`
(`PROJECT.json`, `mutants`).

**ArisanRooms.** Each `DataKey` of the contract is a variable, a function of the
room and, where the key has them, the round and the member; an absent key is a
value of its own. `room[r]` is the `Room` struct. Actions have the contract's
names and guards. A token transfer is a guard (the payer can cover it) and two
updates, `wallet` and `vault`; `vault` is the contract's one balance. `CancelRoom`
and `LeaveRoom` share `Refund`, as the code shares `refund_member`.
`FinalizeDraw` chooses any candidate of the pool: the code hashes the revealed
secrets, and nothing here depends on which of them the hash points at. A
commitment is the record of what the code hashes, so that a copied value is
recognisably somebody else's. `RevealCount` only feeds an event and is left out.
`TurnsAsPromised` maps the rooms to the circles of `Rotation`: `members` are the seated,
`won` the served, `Claims` (what a room still owes each account, locks and pots) is
what is owed, `wallet` is the purse, and an id without a room is an open circle that
nobody has joined.

**DisasterVault.** A proposal is a record, approvals a set. `CloseLedger`
advances the ledger number by one and the timestamp by one of `Gaps`: the
timelock counts ledgers, the cap's window counts seconds. `payouts`, the event log,
keeps every payout and is what `RollingCap` is stated on; `spends` is the history
the code keeps and prunes, as the set of the places its entries have in that log. `execute` is split in two actions by the kind of
proposal, as the code's `match`. `quorum_at` is history too,
the ledger of each proposal's second approval, which the contract does not keep:
`TimelockKept` compares the `ready_ledger` it does keep with it. Recipients of payouts are outside the donors,
so that a wallet only ever shrinks.

**DonationCampaign.** The configuration a creator asks for is chosen from
`Configs`, also one the contract refuses. `Contribution.refunded` is the set of
refunded donors. `release` needs no signature and is enabled for everybody.

**Submissions.** One tab: `slot` says which page each of its two mounted hooks
shows, `lock` is the tab's session storage, one lock per context. A server action
is a record `call[c]` with a program counter over the steps its source takes
(`"account"`, `"terms"`, `"saved"`, `"any"`, `"send"`, `"friend"`); the catalogue at
the top of the module has one entry per action and one per page. Answers are
delivered, lost, or come after the page was left; a status check of an old hash
may end on another page. The guarantee is per tab, because session storage is:
two tabs may each send. Three simplifications, all allowing more than the code:
the sequence numbers of concurrent envelopes are ignored, the React state that
disables a button beside a locked context is ignored (the lock itself decides),
and pages that review nothing have the review `None`. A browser that refuses to
store the lock refuses the click, which is the same as no click. An envelope that
expires unseen stays "unknown" for the code, so its lock lasts as long as the
session; the model has that too. The pages of scheduled rooms have contexts of
their own with the same steps as the installment ones and are not repeated.

**KeepaliveWorker.** A run of the cron route is a process; its number is its
lease token, `row` and `signer` are the two tables. Every call has a timeout: a
database call that was given up moves to `late` and may be carried out later
(`ApplyLate`), and a run that takes no further step has died. Ledgers close
behind the server's clock, `Prepared` compares an envelope's bounds with the time as
the SQL function does, and the RPC node forgets transactions older than
`RETENTION`. `sequence` makes two envelopes of one sequence number exclude each
other; `SignedElsewhere` is the same signer at work for others.

**CampaignOutbox.** The organizer's tab with its stored request id, the
subscription, `campaign_updates`, the outbox rows with their leases, dispatches as
processes, and a provider that drops a key it accepted within `RETENTION`. `intent`
and `intents` are history: which text the organizer meant a request for.
`KeepsPromise` maps the outbox to `ConsentedMail`: a row not yet settled is owed, a
claimed row whose recipient's subscription is still to be read is taken, and started
from then on. The consent check is two steps, `CheckSubscription` and `CheckAccount`,
because the code awaits the subscription and the account's address one after the other;
the recipient may unsubscribe between them. Two things the code leaves open are in the model: a row may
be recorded `rejected` although an earlier attempt with an unknown outcome was
accepted; and a run that holds a claimed row may still send it after its recipient
unsubscribed and subscribed again in between.

**Gatherings.** `plan` is the sequence of revisions of one meeting, `jobs`, `rsvps`
and `inbox` are the tables, `saved` the receipts by mutation id. A panel remembers
what it shows, the revision its draft was made from and the save whose outcome it
does not know. A request reads the roster first and works on the database later,
as the code does; an answer that nobody waits for is dropped, and "unavailable"
stands for every answer that does not settle a save. `drafted` and `seen` are
history: what the author of a request had in view. The start is the only detail of
a meeting in which two plans differ, and the host stays the same. A reminder run lists
some of the due jobs: the query has a limit.

Three more variables are history of the drafts: `tried`, the mutation ids under which
a panel has sent its present draft; `dropped`, those of drafts given up after
"conflict"; `forgotten`, those a panel gave up on a 4xx while an
earlier attempt had been saved or was still under way.
Only "conflict" is claimed to mean that nothing was saved, by any attempt for the draft:
a refusal as too soon or as past may follow an earlier attempt that was. Even for
"conflict" the code has one way out of this, which the property names instead of
hiding it: a save's answer is lost, its retry is refused with a 4xx, so that the panel
forgets the id and keeps the draft (`ArisanGatheringPanel.tsx:109`); the first attempt
lands, the draft is sent again under a new id, and the host hears "conflict" about a
draft that was saved. No comment, document or test of the repository speaks of this
case, so it is an exception (`forgotten`) and not a finding.

**Accounts.** `row` is the `wallets` table, `Name` and `Owner` the two `DataKey`s of
the registry, `active` the accounts that exist on Testnet. A request is a record
with the step it is `at`; every read, write and submission is a step, so that two
first sign-ins interleave at each of them. An envelope lives on in `net` after its
request has gone. Keys are numbers, drawn in order, `0` being the demo account
guests share. `reviewed` and `told` are what pages have been shown.

## 3. Runs

| run | instance | properties |
|---|---|---|
| `arisan_one` | one room, of any of the three kinds, 3 members and a contract account, `MaxTime` 10 | `TypeOK`, `MemberWhole`, `CycleProgress`, `ScheduleKept`, `RevealersWin`, `DrawsStayAgreed` |
| `arisan_two` | two rooms over one balance | `PoolHoldsClaims`, `TurnsAsPromised` |
| `arisan_draws` | one legacy room, members also commit to any published value | `RevealsBound` |
| `arisan_live` | one room, one diligent member and one diligent outsider, no symmetry | `ActiveRoomSettles`, `OpenRoomEnds` |
| `arisan_any_caller` | a scheduled room; a **violation** is expected | `PermissionlessFinalize` |
| `disaster_vault` | 3 signers, 3 proposals, cap of half the pool, day of 3, ledgers 1 or 2 apart | `TypeOK`, `PaidAsApproved`, `RollingCap`, `ControlHistory`, `TimelockKept` |
| `donation_campaign` | 2 campaigns, 2 donors, 3 approvers, deadlines at 1, 2 and 3; one configuration has a single account as creator, beneficiary and donor | `TypeOK`, `EscrowBacked`, `AccountsSettled`, `RefundRightKept`, `QuorumBinds`, `DonationSettles` |
| `submissions` | 2 people, a guest, 2 hooks, 2 calls, 1 change of terms, each area of the application | `TypeOK`, `OpenKeepsLock`, `UnverifiedKeepsLock`, `SignedAsReviewed` |
| `keepalive_worker` | 1 room, 3 overlapping runs, 1 late call, 1 envelope of the signer elsewhere, `MaxTime` 5 | `TypeOK`, `NothingForgotten`, `VerdictsTrue`, `OneOutstanding` |
| `campaign_outbox` | 1 subscriber with 2 addresses, 2 request ids (the first followed to the inbox), 2 dispatches, `MaxTime` 3 | `TypeOK`, `PublishedOnce`, `KeepsPromise` |
| `gatherings` | a host and a member, 3 requests, 1 reminder run at a time, `MaxTime` 2 | `TypeOK`, `EditsAsReviewed`, `ConflictMeansUnsaved`, `RemindersCurrent` |
| `accounts` | 2 users and a guest, 2 handles, 4 requests, 2 of them or of their envelopes at once | `TypeOK`, `OneWallet`, `HandlesStand` |

What `arisan_two` shows beyond one room: the one balance covers what every room owes,
and each call moves one room only, as the rotation allows: the stakes are equal when
a room starts, a turn pays its winner exactly what it is owed, and a room that ends
early pays everybody back, none of it with another room's money.

What the runs of the funds show. `disaster_vault`: the second approval, neither the first
nor a third, starts the timelock, nothing is executed without two approvals, and no
payout before its timelock has passed. `donation_campaign`: a quorum forms only in time,
from then on only the payout can happen, and nothing is paid out without one; the
books of an account balance also when it is creator, beneficiary and donor at once.

What the off-chain runs show. `submissions`: while anything may still land that a
tab has sent, the tab is locked by exactly that call, however answers, page
changes and late checks interleave; what is signed is what was reviewed.
`keepalive_worker`: the signer of a room never has two envelopes that can both land,
what the network was given is on record until it is settled, and a verdict, also
"expired", is what happened. `campaign_outbox`: one publication per text, one mail per
recipient, and none taken up without consent. `gatherings`: a revision counts only
if its author saw the one before it, a host who drops a draft after "conflict" has
not saved it by any attempt except one the panel had forgotten, and a
reminder is of the meeting as it then stands. `accounts`: a
user has one wallet for good and signs with nothing else, and a handle that a page
was shown or a user was told keeps naming the same account through every later
registration and rename. `sendByUsername`'s second look-up therefore never finds
another account; it is modelled all the same.

**Bounds and why they are enough.** A room has three members because the
contract's minimum is three (`MIN_MEMBERS`): the smallest cycle with a first, a
middle and a last round. One time unit stands for the shortest window, and every
window has at least one unit, so each boundary (`<` against `<=`) is met from both
sides. `MaxTime` lets the last round of the cycle fall due after every
postponement, and the last dissolution after its grace period
(`HorizonReached` in `MC_ArisanRooms`, where liveness is checked). `Amounts` holds a part payment and a full
one. In the vault three proposals allow an unpause, a payout or a pause before
it and a stale control proposal, and a payout twice within a day and once just
outside it. Two campaigns suffice for money of one to leak into the other; the
three ticks are funding, review, and after. `Wealth` bounds what can be paid in.
All `MaxRooms`, `MaxTime`, `MaxLedger`, `MaxProposals`, `MaxCampaigns` are named
bounds and appear only in guards of the actions that grow what they bound.

Off-chain, one unit of time stands for the validity of an envelope
(`keepalive_worker`), for more than the minute between publications and a lease
(`campaign_outbox`: a lease and a pause of 1, 2 units in which a request may be
repeated, 3 in which the provider remembers it), for the 30 seconds between edits
and the lead of a reminder (`gatherings`). Three runs of the worker are one that
dies with an envelope pending, one that outlives its lease, and one that takes over.
Two dispatches are enough for a late one to meet its successor; with a single
subscriber a claim never has more rows than `LIMIT`. Three gathering requests are a
save, its retry and another's edit, or two edits and an answer; three also suffice for a
forgotten id to meet a conflict. Its three instants are before, at and after the moment a
reminder falls due, the last of them the start itself. One reminder run at a time races
edits and answers; runs that overlap are covered by the proof of `RemindersCurrent`, which
is for any set of runs. Four account
requests are a registration, a rename, somebody else's registration of the old
handle, and a payment. Assumptions of these models: one clock for server and
database; a process that takes no further step has died; and, in `OutboxAssumption`,
that the timeouts between the last look at the clock and the provider's acceptance
(`STALL`) fit into the hour between the 23 and the 24 hours.

`CHECK_DEADLOCK FALSE` is set where the system rightly has nothing left to do once
time or requests reach their bound and everything is settled: the contracts,
`keepalive_worker`, `campaign_outbox` and `accounts`. `submissions` and `gatherings` check
for deadlock: a page can always be left.

**Fairness.** `Spec` alone has none; all safety runs use it. `arisan_live` uses
`FairSpec`: ledger time goes on, and the accounts in `Diligent` keep calling
`finalize_draw` when a draw is due and `cancel_room` when the join window of an
unstarted room has passed. The contract promises progress only if somebody calls
it; the run shows that *one* member (for an Active room) or *any* account (for
an Open one) is enough. `donation_campaign` assumes that time passes, that
somebody releases a campaign that has its quorum (anybody may), and that each
donor comes back for a refund, which only that donor can pull.

**Finding.** A comment on `emergency_dissolve` (`contracts/arisan_rooms/src/lib.rs:1126`)
speaks of "the permissionless `finalize_draw()`". The code admits the room's
members only (`lib.rs:949-951`), which `arisan_any_caller` shows; the operations
docs (`docs/instawards/week-2-d2.md:22`) describe the code.

## 4. Proofs

Proved by TLAPS, for every value of the constants that satisfies the named
assumptions (`BoundsAssumption`, `TimingAssumption`, `InputAssumption`,
`ConfigAssumption`, `VaultInputAssumption`, `CampaignAssumption`, `OutboxAssumption`,
`KeepaliveAssumption`, `AccountsAssumption`, `SubmissionsAssumption`,
`GatheringsAssumption`): finitely many accounts, natural numbers
where the code has unsigned ones, positive windows, `None` outside the values it
stands beside; nothing is assumed about how windows compare, except what
`OutboxAssumption` states (section 3). Each module has one inductive invariant, which
TLC checked on the module's run before it was proved, and one lemma per action.
Every safety property of every passing run, action properties and the two refinements
included, is a theorem; two more (`NoPayoutStarves`, `NothingStranded`) state what a run
can only show of liveness under fairness: that no guard stands in the way.
The proofs of the three contracts begin with the lemmas they need on sums, as the
cardinality of a set of coins (`Totals`): what a sum is, and how it changes with one amount.

**ArisanRooms_proofs.**

- `TypeCorrect`: `Spec => []TypeOK`. `TypeOK` is not inductive: `finalize_draw`
  counts the round up without a bound of its own. `TypeInv` adds
  `RoundsBounded`: a room has at most `MAX_MEMBERS` seats, and an Active room is
  in one of its `member_count` rounds, which keeps every index into the per-round
  maps within its domain.
- `RevealsAreBound`, `DrawsStand` (`DrawsStayAgreed`): the safety of the draw
  from one invariant, `DrawInv`. It adds to `TypeInv` that rooms are numbered in
  order (`RoomsInOrder`: an id not handed out has no storage entries) and the
  history of every draw (`DrawHistory`): only a started room's rounds up to the
  current one have commitments, and those are counted; a revealed secret opens
  its own member's commitment; and when the current round has a reveal, its
  deadline has passed. The last part is what makes the action
  property follow: a commitment after a reveal would need the commit phase,
  which ended for good.
- `EveryoneWinsOnce`: `Spec => []CycleProgress`, from `CycleInv`: before a room
  starts nobody has won; once it has started its roster stands, the members marked
  as winners are exactly the winners recorded for the rounds gone by, and the
  round is one more than their number. Since a round's winner is picked outside
  that set, each `finalize_draw` adds one to both sides, and the last round leaves
  nobody out. The link between the recorded winners and the marks is the part
  `CycleProgress` alone cannot carry through a step.
- `NobodyLoses` (`MemberWhole`) and `PoolsBacked` (`PoolHoldsClaims`), from
  `MoneyInv`, which adds the two to `CycleInv` with `LocksAt`: an id without a
  room has no members, a legacy seat is paid for whole, and every member of an Active room has locked exactly one pot. That is
  why N payouts of a pot use up what N members paid in, although `finalize_draw` and
  `emergency_dissolve` compute what they transfer from the terms and never read a
  lock. `start_room` establishes it: for an installment room through its funding gate.
  `Booked` is the step all actions share: the books of every room balance if those of
  the one room a call touches do, because the sums over rooms change by that room's
  share only; `OnePays` is its case of one payer or payee. The last payout of a room
  leaves no claim behind because `CycleInv` says that everyone has won by then.
- `NoPayoutStarves`: `Spec => []PayoutsCovered`, from `MoneyInv` and `CycleProgress`. An
  Active room always has somebody to draw, and the balance (for an installment room
  its own pool as well) covers the next pot and what dissolving would pay; for an Open
  one it covers each leave and the cancellation. So the transfers of `finalize_draw`,
  `emergency_dissolve`, `leave_room` and `cancel_room` never fail, and only caller and
  date decide. The argument is `DebtCovered`: what a room owes to any of its members
  is part of what it owes, which is part of what all rooms owe, which is the balance.
  `PayoutsCovered` is defined beside its proof; TLC found it to hold on the instances
  of `arisan_one` and `arisan_two` before it was proved.
- `OnlyRevealersWin` (`RevealersWin`), from `WinnersInv`: only rounds gone by have
  winners, so no reveal arrives after a winner is drawn; and who revealed in the
  current round has not won yet, so the pool of revealers that `finalize_draw` draws
  from is empty only if nobody revealed.
- `RoomsAreRotations`: `Spec => TurnsAsPromised`, the refinement of `Rotation`, from
  `MoneyInv`. The lemma of an action shows with the invariant that the action is a
  `Prefund`, `Leave`, `Close`, `Turn` or `Dissolve` of one circle; creating a room,
  committing, revealing, postponing and the clock are stutters. `LocksAt` is what it
  rests on: it makes the stakes equal at `Close`, and the pot `finalize_draw` computes
  what the winner is owed. `CycleInv` says that a circle is done just when everybody
  has been served.
- `DatesKept` (`ScheduleKept`), from `DatesInv`: a round's date is its planned date
  plus at most one postponement for each earlier round, and one more if it is itself
  marked as postponed; a started room's current round has a date. The mark is what
  the bound of `ScheduleKept` alone lacks: without it a second postponement of the
  same round would fit.

**DisasterVault_proofs.** `VaultTyped`, `PaidOnce` (`PaidAsApproved`),
`CapNeverExceeded` (`RollingCap`), `StaleControlHarmless` (`ControlHistory`),
`PayoutsWait` (`TimelockKept`), from `VaultInv`. The cap is the interesting one:
`RollingCap` speaks of every payout ever made, `execute` only sees a pruned history.
`LogKept` is the link: whatever is less than a day old is still in `spends`, which
pruning preserves because the clock only goes forward; so what `recent_spends` adds
up is the whole window. `FloorShareExact` shows that the way
the code divides, quotient and remainder apart, is the floor of the exact share.
`EndedEarlier` (an executed control proposal ended its own epoch) is what
`ControlHistory` needs to survive the next execution; `Funded` and `AllPayable` keep
amounts positive and the vault out of the recipients. `PayoutsWait` adds to `VaultInv` only
itself: approvals only grow, so a proposal's quorum forms once and an approval after it
leaves the ready ledger alone; `execute` compares it with the present ledger, and ledgers
only go forward.

**DonationCampaign_proofs.** `CampaignTyped`, `EscrowsBacked`, `EveryoneSettled`
(`AccountsSettled`), `RefundRightHeld` (`RefundRightKept`), `QuorumsBind`
(`QuorumBinds`), from `CampaignInv`: for every campaign, `total` is the sum of what its
donors paid, `escrow` is what they have not been given back until it is paid out or
empty, and the first refund ends every other way on; and the one token balance is the
sum of the escrows. `QuorumsBind` says when a quorum can form, that only the payout can
follow it, and that there is no payout without it. That sum over all campaigns is what keeps one campaign's release
from being paid with another's money.
`NothingStranded`: `Spec => []WayOut`, says of the guards of `release`, `refund` and
`close_empty` together that they leave no gap: past its review deadline a campaign that has
not ended can be released, closed as empty, or has a donor it still owes, and each of
these can pull the refund. It needs `WayOutInv`: a quorum leads to the payout only, and a
campaign in the middle of its refunds still holds something; without the first a
quorum reached in time could meet a state from which `release` refuses while it
forbids refunds. TLC found `WayOut` and `WayOutInv` to hold on the instance of
`donation_campaign` before they were proved.

**KeepaliveWorker_proofs.** `KeepaliveTyped`, `NeverForgotten`
(`NothingForgotten`), `VerdictsStand` (`VerdictsTrue`), `OneAtATime`
(`OneOutstanding`), from `KeepaliveInv`. Its parts: an envelope is included at most
once (`LandedOnce`); a run that may still send an envelope has it from a row that keeps
it, or it is settled (`RunOK`); and a verdict that a run has in hand, or a call that
was given up and may still be carried out (`CallOK`), is already final on the chain: included,
or past its validity by the ledger's own clock. No part mentions a lease, so the
theorems do not depend on how long leases are or on who believes to hold one: that
only one envelope is outstanding rests on what the SQL functions compare.

**CampaignOutbox_proofs.** `OutboxKeepsPromise`: `Spec => KeepsPromise`, the
refinement of `ConsentedMail`, action by action; `UpdatePublishedOnce`, `OutboxTyped`. Two
invariants that share only the updates. `Delivery`: a claimed row has its first
attempt on record, and that is no later than what the provider remembers; a request
that may go out was let through within `WINDOW` of it; so a provider that has forgotten
the key cannot be asked again, given `OutboxAssumption`. `Publishing`: a request id
belongs to one intent until it is answered, and published ids are among those sent.

**Accounts_proofs.** `AccountsTyped`, `OneWalletForGood`, `HandlesStandForGood`, from
`AccountsInv`: what a request knows of its wallet at each of its steps (`RequestOK`), that
an envelope in the network has its requester's key (`EnvelopeOK`), that slots and
fresh key pairs belong to one request each, and that a handle once registered names
the same account ever after (`Grows`), which lets everything told or shown stand.

**Submissions_proofs.** `SubmissionsTyped`, `OpenSubmissionLocked` (`OpenKeepsLock`),
`SuccessLockedUntilVerified` (`UnverifiedKeepsLock`), `SignedAsUserReviewed`
(`SignedAsReviewed`), for every area of the application, from `SubmissionsInv`. A lock is
released when an answer, a status check or a verification comes back, perhaps much
later and on another page; what makes each of them safe are facts about the call it
speaks of. Of the envelopes of a call only the last can be open, and only while the call
waits for it or after it has answered "pending" (`EnvelopesOK`); a lock or a check that
knows a hash knows the last one of a call that has answered (`LockOK`, `CheckOK`), so a
ledger result for that hash is the end of the call; a page that keeps its lock through
success sends one envelope, in its last step (`KeepOK`), and the pages that share a
context agree on it (`ContextsAgree`). What these need of the catalogue of pages and
actions is stated once, in `CatalogueOK`. `ReviewOK` says where in its steps a call has
already compared account and terms with what was reviewed.

**Gatherings_proofs.** `GatheringsTyped`, `NoEditLost` (`EditsAsReviewed`),
`ConflictIsFinal` (`ConflictMeansUnsaved`), `NoStaleReminder` (the action property
`RemindersCurrent`), from `GatheringsInv`, and for
`ConflictIsFinal` from `DraftsInv` on top of it. Requests may be carried out in any order, twice,
or after their page has given up, so the invariant speaks of every body that is on its way
or that a panel would send again (`Known`). A mutation id belongs to one body there, and
the revision a body expects is the one its author saw (`BodyOK`): a save that is taken
was drafted from the revision it replaces. Every revision's id has its receipt, so a
second copy finds the receipt and makes no other. A body refused as a conflict expects a
revision that has been overtaken; since revisions only grow, no copy of it is ever taken. `DraftsInv` carries this from one
body to a draft. A panel takes a new id for its draft only when it no longer waits for
the old one, so of the attempts it has tried, at most one has an unknown outcome; the
others are dead (no receipt, and nobody would send them again) unless they were
forgotten. When "conflict" comes, the one that is left is the refused one, which expects
an overtaken revision; so the ids of a dropped draft, except forgotten ones, never get a
receipt.
Reminders need less: a run's list names jobs that are there, and whether one is still
due is decided again in the step that enqueues.

Only model-checked, because out of the prover's reach: liveness
under fairness (`DonationSettles`, `ActiveRoomSettles`, `OpenRoomEnds`), anything with
`ENABLED` (`PermissionlessFinalize`), and induction over data. No module uses
`RECURSIVE`: sums that a proof is about are cardinalities of sets of coins
(`Total` in `Totals`), which the finite-set theorems can reason about.

## 5. Not modelled, and why

- Storage rent (TTL extension, archival): `ArisanRooms` lets no entry expire. An
  archived persistent entry can be restored and none of the contract's values
  depend on it; `KeepaliveWorker` models the worker that is there to avoid it.
- The three small contracts (paluwagan, smart savings, base vault): a few guards
  each, with a hazard noted for the paluwagan; the server actions in front of them
  are in `Submissions`.
- The room watch of the inbox (events with one row per key), the discovery cursor,
  and read marks. The status in a watch's snapshot, which decides whether the worker
  looks at a room, is `watched` in `KeepaliveWorker`.
- The onboarding dialog and its five-minute cache of a confirmed handle:
  presentation in front of the server action in `Accounts`.
- Circle links, photos, money helpers: a one-way flag under a trigger, uploads, and
  arithmetic the unit tests enumerate.
- Encryption of stored secrets, fees and sponsorship, rate limits: data the
  properties do not tell apart.
- i128/u64 overflow: the workspace builds with `overflow-checks = true`, so an
  overflow rolls the call back; sums are bounded by tokens that exist.
- Authentication: `require_auth` is the identity of the caller argument.
- Events, names, titles, URLs, code syntax: not read back by any entry point.
- Reads, screens, translations, styles, build and deployment scripts.

## 6. Plan

Done: `ArisanRooms`; `DisasterVault`; `DonationCampaign`; `KeepaliveWorker`;
`CampaignOutbox` over `ConsentedMail`; `Submissions`; `Gatherings` (the meeting);
`Accounts`; `ArisanRooms` over `Rotation`; the proofs of section 4.

Left, in this order:

1. The room watch and discovery, composed with `Gatherings`.
2. `Paluwagan`, `SmartSavings`, `BaseVault` over one token: conservation, and rounds
   that complete unless a member is listed twice.
3. The money helpers as functions against reference definitions.
