----------------------------- MODULE ArisanRooms -----------------------------
(***************************************************************************)
(* The Arisan Rooms contract (contracts/arisan_rooms/src/lib.rs): a ROSCA  *)
(* in which every member prefunds the whole cycle of N payouts, a          *)
(* commit-reveal draw picks one winner per round, and every way out of a   *)
(* room gives back what has not been paid out.                             *)
(*                                                                         *)
(* One contract holds every room and ONE token balance.  Each entry point  *)
(* is one atomic action (a Soroban invocation either commits as a whole or *)
(* is rolled back), so a guard is the conjunction of the entry point's     *)
(* early returns and of the panics that roll it back, such as a token      *)
(* transfer that the payer cannot cover.                                   *)
(*                                                                         *)
(* Abstracted: a roster is a set (the code refuses a member twice, and     *)
(* roster order only feeds the hash that picks the winner); SHA-256 is an  *)
(* injective record for commitments and an arbitrary choice for the draw;  *)
(* names, event payloads and the syntax of codes are left out, and so are  *)
(* i128/u64 overflow checks; storage rent (refresh_installment_state) has  *)
(* no effect on any value here.                                            *)
(***************************************************************************)
EXTENDS Integers, FiniteSets, Totals

CONSTANTS
  MaxRooms,         \* bound: rooms created in a behaviour
  MaxTime,          \* bound: last ledger timestamp
  Accounts,         \* every address that may call the contract
  ContractAccounts, \* those of them that are contract addresses, not wallets
  Codes,            \* invite codes callers choose from
  Secrets,          \* draw secrets members choose from
  None,             \* an absent address, code, hash or secret
  Wealth,           \* every account's token balance before the first room
  LegacyTerms,      \* parameters callers pass to create_room,
  InstallmentTerms, \* ... create_installment_room
  ScheduledTerms,   \* ... and create_scheduled_room
  Amounts,          \* amounts members pass to deposit_room
  Delays,           \* delays hosts pass to postpone_kocok
  CopyHashes,       \* whether members also try to commit to published hashes
  Diligent          \* accounts assumed to keep calling (liveness only)

\* The contract's own constants (their values differ between the demo and the
\* production-cadences build), and the length of each cadence.
CONSTANTS
  JOIN_WINDOW, MAX_POSTPONE_SECONDS, GRACE_PERIOD, REVEAL_WINDOW,
  FIRST_COMMIT_WINDOW, SCHEDULED_REVEAL_WINDOW, MIN_MEMBERS, MAX_MEMBERS,
  MAX_FUNDING_WINDOW, MAX_FIRST_DRAW_DELAY, MAX_SCHEDULED_SHARE, MAX_TTL,
  SECONDS_PER_DAY, MIN_INTERVAL_DAYS, MAX_INTERVAL_DAYS, CadenceSeconds

Cadences == {"Weekly", "Biweekly", "Monthly"}
Rooms    == 1..MaxRooms
Rounds   == 1..MAX_MEMBERS
Hashes   == [room : Rooms, round : Rounds, member : Accounts, secret : Secrets]

ASSUME BoundsAssumption ==
  /\ MaxRooms \in Nat \ {0} /\ MaxTime \in Nat /\ Wealth \in Nat
  /\ IsFiniteSet(Accounts)
  /\ ContractAccounts \subseteq Accounts /\ Diligent \subseteq Accounts
  /\ None \notin Accounts \cup Codes \cup Secrets \cup Hashes

ASSUME TimingAssumption ==
  /\ JOIN_WINDOW \in Nat \ {0} /\ MAX_POSTPONE_SECONDS \in Nat
  /\ GRACE_PERIOD \in Nat /\ REVEAL_WINDOW \in Nat \ {0}
  /\ FIRST_COMMIT_WINDOW \in Nat \ {0}
  /\ SCHEDULED_REVEAL_WINDOW \in Nat \ {0}
  /\ MAX_FUNDING_WINDOW \in Nat /\ MAX_FIRST_DRAW_DELAY \in Nat
  /\ MAX_TTL \in Nat /\ SECONDS_PER_DAY \in Nat \ {0}
  /\ MIN_INTERVAL_DAYS \in Nat \ {0} /\ MAX_INTERVAL_DAYS \in Nat
  /\ CadenceSeconds \in [Cadences -> Nat \ {0}]
  /\ MIN_MEMBERS \in Nat \ {0} /\ MAX_MEMBERS \in Nat
  /\ MAX_SCHEDULED_SHARE \in Nat

ASSUME InputAssumption ==
  /\ LegacyTerms \subseteq
       [member_target : Nat, share : Nat, cadence : Cadences,
        first_kocok : Nat, join_deadline : Nat]
  /\ InstallmentTerms \subseteq
       [member_target : Nat, share : Nat, cadence : Cadences,
        funding_deadline : Nat]
  /\ ScheduledTerms \subseteq
       [member_target : Nat, share : Nat, interval_seconds : Nat,
        first_draw_at : Nat, funding_deadline : Nat]
  /\ Amounts \subseteq Nat /\ Delays \subseteq Nat /\ CopyHashes \in BOOLEAN

VARIABLES
  now,           \* ledger timestamp
  initialized,   \* DataKey::Token is set
  scheduledOnly, \* DataKey::ScheduledOnly
  roomCount,     \* DataKey::RoomCount
  room,          \* DataKey::Room(room_id); status "Missing" is an absent key
  members,       \* DataKey::Members(room_id)
  installment,   \* DataKey::Installment(room_id)
  schedule,      \* DataKey::RoomSchedule(room_id); interval 0 is an absent key
  locked,        \* DataKey::Locked(room_id, member); 0 is an absent key
  roomPool,      \* DataKey::RoomPool(room_id)
  won,           \* members with DataKey::Won(room_id, member)
  winner,        \* DataKey::Winner(room_id, round)
  kocokAt,       \* DataKey::KocokAt(room_id, round); 0 is an absent key
  postponed,     \* rounds with DataKey::Postponed(room_id, round)
  commitment,    \* DataKey::Commitment(room_id, round, member)
  reveal,        \* DataKey::Reveal(room_id, round, member)
  commitCount,   \* DataKey::CommitCount(room_id, round)
  wallet,        \* token balance of each account
  vault          \* token balance of the contract, shared by every room

roomVars == <<roomCount, room, members, installment, schedule>>
moneyVars == <<locked, roomPool, wallet, vault>>
drawVars == <<won, winner, kocokAt, postponed, commitment, reveal, commitCount>>
deployVars == <<initialized, scheduledOnly>>
vars == <<now, deployVars, roomVars, moneyVars, drawVars>>

-----------------------------------------------------------------------------
(* What the handlers read.                                                 *)

Statuses == {"Missing", "Open", "Active", "Done", "Dissolved"}

RoomRecord ==
  [host : Accounts \cup {None}, code : Codes \cup {None}, member_target : Nat,
   share : Nat, cadence : Cadences, first_kocok : Nat, join_deadline : Nat,
   status : Statuses, member_count : Nat, round : 0..(MAX_MEMBERS + 1)]

ScheduleRecord ==
  [interval_seconds : Nat, first_draw_at : Nat, first_commit_at : Nat]

NoRoom ==
  [host |-> None, code |-> None, member_target |-> 0, share |-> 0,
   cadence |-> "Weekly", first_kocok |-> 0, join_deadline |-> 0,
   status |-> "Missing", member_count |-> 0, round |-> 0]

NoSchedule ==
  [interval_seconds |-> 0, first_draw_at |-> 0, first_commit_at |-> 0]

\* SHA-256 over contract, room, round, member and secret, without collisions.
CommitmentHash(r, n, m, s) ==
  [room |-> r, round |-> n, member |-> m, secret |-> s]

IsScheduled(r) == schedule[r].interval_seconds > 0

Obligation(r) == room[r].share * room[r].member_target

\* What one payout, or one emergency refund, transfers.
Pot(r) == room[r].share * room[r].member_count

RevealWindow(r) ==
  IF IsScheduled(r) THEN SCHEDULED_REVEAL_WINDOW ELSE REVEAL_WINDOW

Deadline(r) == kocokAt[r][room[r].round]

\* draw_phase_for, defined for an Active room.
DrawPhase(r) ==
  IF now < Deadline(r) THEN "Commit"
  ELSE IF now < Deadline(r) + RevealWindow(r) THEN "Reveal"
  ELSE "Finalizable"

Eligible(r, m) ==
  room[r].status = "Active" /\ m \in members[r] /\ m \notin won[r]

Revealers(r) ==
  {m \in members[r] \ won[r] : reveal[r][room[r].round][m] # None}

\* Time between one draw's deadline and the next one's.
Interval(r) ==
  IF IsScheduled(r) THEN schedule[r].interval_seconds
                    ELSE CadenceSeconds[room[r].cadence]

-----------------------------------------------------------------------------
(* Deployment and the passing of ledger time.                              *)

Init ==
  /\ now = 0 /\ initialized = FALSE /\ scheduledOnly = FALSE
  /\ roomCount = 0
  /\ room = [r \in Rooms |-> NoRoom]
  /\ members = [r \in Rooms |-> {}]
  /\ installment = [r \in Rooms |-> FALSE]
  /\ schedule = [r \in Rooms |-> NoSchedule]
  /\ locked = [r \in Rooms |-> [a \in Accounts |-> 0]]
  /\ roomPool = [r \in Rooms |-> 0]
  /\ won = [r \in Rooms |-> {}]
  /\ winner = [r \in Rooms |-> [n \in Rounds |-> None]]
  /\ kocokAt = [r \in Rooms |-> [n \in Rounds |-> 0]]
  /\ postponed = [r \in Rooms |-> {}]
  /\ commitment = [r \in Rooms |-> [n \in Rounds |-> [a \in Accounts |-> None]]]
  /\ reveal = [r \in Rooms |-> [n \in Rounds |-> [a \in Accounts |-> None]]]
  /\ commitCount = [r \in Rooms |-> [n \in Rounds |-> 0]]
  /\ wallet = [a \in Accounts |-> Wealth]
  /\ vault = 0

Tick ==
  /\ now < MaxTime
  /\ now' = now + 1
  /\ UNCHANGED <<deployVars, roomVars, moneyVars, drawVars>>

Initialize ==
  /\ ~initialized
  /\ initialized' = TRUE
  /\ UNCHANGED <<now, scheduledOnly, roomVars, moneyVars, drawVars>>

InitializeScheduled ==
  /\ ~initialized
  /\ initialized' = TRUE /\ scheduledOnly' = TRUE
  /\ UNCHANGED <<now, roomVars, moneyVars, drawVars>>

-----------------------------------------------------------------------------
(* Creating and funding a room.                                            *)

SeatsValid(t) ==
  t.member_target \in MIN_MEMBERS..MAX_MEMBERS /\ t.share > 0

\* A scheduled-only deployment admits account addresses only.
AddressAllowed(a) == scheduledOnly => a \notin ContractAccounts

CodeUnused(code) == \A r \in Rooms : room[r].code # code

NewRoom(h, code, t, cadence, firstKocok, deadline) ==
  [host |-> h, code |-> code, member_target |-> t.member_target,
   share |-> t.share, cadence |-> cadence, first_kocok |-> firstKocok,
   join_deadline |-> deadline, status |-> "Open", member_count |-> 1,
   round |-> 0]

\* What every creation stores: the next id, its room and the host's seat.
SeatHost(record) ==
  /\ initialized
  /\ roomCount < MaxRooms
  /\ CodeUnused(record.code)
  /\ roomCount' = roomCount + 1
  /\ room' = [room EXCEPT ![roomCount + 1] = record]
  /\ members' = [members EXCEPT ![roomCount + 1] = {record.host}]

\* Account a pays amount into the contract, or is paid amount out of it.
PayIn(a, amount) ==
  /\ wallet[a] >= amount
  /\ wallet' = [wallet EXCEPT ![a] = @ - amount]
  /\ vault' = vault + amount

PayOut(a, amount) ==
  /\ vault >= amount
  /\ wallet' = [wallet EXCEPT ![a] = @ + amount]
  /\ vault' = vault - amount

CreateRoom(h, code, t) ==
  LET total == t.share * t.member_target IN
  /\ ~scheduledOnly
  /\ SeatsValid(t)
  /\ t.first_kocok >= now + JOIN_WINDOW
  /\ t.join_deadline < t.first_kocok
  /\ SeatHost(NewRoom(h, code, t, t.cadence, t.first_kocok, t.join_deadline))
  /\ PayIn(h, total)
  /\ locked' = [locked EXCEPT ![roomCount + 1][h] = total]
  /\ UNCHANGED <<now, deployVars, installment, schedule, roomPool, drawVars>>

\* create_installment_room_inner's bounds on a funding deadline.
FundingDeadlineValid(d) ==
  /\ d > now /\ d - now <= MAX_FUNDING_WINDOW
  /\ d - now + FIRST_COMMIT_WINDOW <= MAX_TTL

CreateInstallmentRoom(h, code, t) ==
  /\ ~scheduledOnly
  /\ SeatsValid(t)
  /\ FundingDeadlineValid(t.funding_deadline)
  /\ SeatHost(NewRoom(h, code, t, t.cadence, 0, t.funding_deadline))
  /\ installment' = [installment EXCEPT ![roomCount + 1] = TRUE]
  /\ UNCHANGED <<now, deployVars, schedule, moneyVars, drawVars>>

IntervalValid(i) ==
  /\ i % SECONDS_PER_DAY = 0
  /\ i >= MIN_INTERVAL_DAYS * SECONDS_PER_DAY
  /\ i <= MAX_INTERVAL_DAYS * SECONDS_PER_DAY

\* The first commitment window opens after funding closes and lasts.
FirstDrawValid(t) ==
  /\ t.first_draw_at > now /\ t.first_draw_at - now <= MAX_FIRST_DRAW_DELAY
  /\ t.first_draw_at >= SCHEDULED_REVEAL_WINDOW
  /\ t.first_draw_at - SCHEDULED_REVEAL_WINDOW
       >= t.funding_deadline + FIRST_COMMIT_WINDOW

CreateScheduledRoom(h, code, t) ==
  LET firstCommitAt == t.first_draw_at - SCHEDULED_REVEAL_WINDOW
      cadence == IF t.interval_seconds = 30 * SECONDS_PER_DAY
                 THEN "Monthly" ELSE "Weekly"
  IN
  /\ AddressAllowed(h)
  /\ SeatsValid(t) /\ t.share <= MAX_SCHEDULED_SHARE
  /\ IntervalValid(t.interval_seconds)
  /\ FundingDeadlineValid(t.funding_deadline)
  /\ FirstDrawValid(t)
  /\ SeatHost(NewRoom(h, code, t, cadence, firstCommitAt, t.funding_deadline))
  /\ installment' = [installment EXCEPT ![roomCount + 1] = TRUE]
  /\ schedule' = [schedule EXCEPT ![roomCount + 1] =
                    [interval_seconds |-> t.interval_seconds,
                     first_draw_at |-> t.first_draw_at,
                     first_commit_at |-> firstCommitAt]]
  /\ UNCHANGED <<now, deployVars, moneyVars, drawVars>>

DepositRoom(r, m, amount) ==
  /\ installment[r] /\ room[r].status = "Open"
  /\ now < room[r].join_deadline
  /\ m \in members[r]
  /\ amount > 0 /\ amount <= Obligation(r) - locked[r][m]
  /\ PayIn(m, amount)
  /\ locked' = [locked EXCEPT ![r][m] = @ + amount]
  /\ roomPool' = [roomPool EXCEPT ![r] = @ + amount]
  /\ UNCHANGED <<now, deployVars, roomVars, drawVars>>

\* What taking a seat costs: the whole cycle, or nothing yet.
SeatPrice(r) == IF installment[r] THEN 0 ELSE Obligation(r)

JoinRoom(r, code, m) ==
  /\ AddressAllowed(m)
  /\ room[r].status = "Open" /\ room[r].code = code
  /\ now < room[r].join_deadline
  /\ m \notin members[r]
  /\ Cardinality(members[r]) < room[r].member_target
  /\ PayIn(m, SeatPrice(r))
  /\ members' = [members EXCEPT ![r] = @ \cup {m}]
  /\ locked' = [locked EXCEPT ![r][m] = SeatPrice(r)]
  /\ room' = [room EXCEPT ![r].member_count = Cardinality(members[r]) + 1]
  /\ UNCHANGED <<now, deployVars, roomCount, installment, schedule, roomPool,
                 drawVars>>

-----------------------------------------------------------------------------
(* Ways out of an Open room.                                               *)

\* refund_member for each account of S: pay back its lock and forget it.
Refund(r, S) ==
  LET total == Total(locked[r], S) IN
  /\ vault >= total
  /\ installment[r] => roomPool[r] >= total
  /\ wallet' = [a \in Accounts |->
                  IF a \in S THEN wallet[a] + locked[r][a] ELSE wallet[a]]
  /\ vault' = vault - total
  /\ roomPool' = [roomPool EXCEPT ![r] =
                    IF installment[r] THEN @ - total ELSE @]
  /\ locked' = [locked EXCEPT ![r] =
                  [a \in Accounts |-> IF a \in S THEN 0 ELSE locked[r][a]]]

LeaveRoom(r, m) ==
  /\ room[r].status = "Open"
  /\ m # room[r].host
  /\ m \in members[r]
  /\ Refund(r, {m})
  /\ members' = [members EXCEPT ![r] = @ \ {m}]
  /\ room' = [room EXCEPT ![r].member_count = Cardinality(members[r]) - 1]
  /\ UNCHANGED <<now, deployVars, roomCount, installment, schedule, drawVars>>

\* Faulty variant: only the host can ever cancel.
JoinWindowOpen_Always(r) == TRUE
\* Legacy rooms keep their historical boundary, one second later.
JoinWindowOpen(r) ==
  IF installment[r] THEN now < room[r].join_deadline
                    ELSE now <= room[r].join_deadline

CancelRoom(r, caller) ==
  /\ room[r].status = "Open"
  /\ caller = room[r].host \/ ~JoinWindowOpen(r)
  /\ Refund(r, members[r])
  /\ room' = [room EXCEPT ![r].status = "Dissolved"]
  /\ UNCHANGED <<now, deployVars, roomCount, members, installment, schedule,
                 drawVars>>

-----------------------------------------------------------------------------
(* Starting the cycle and drawing its winners.                             *)

StartBefore(r) ==
  IF installment[r] THEN room[r].join_deadline ELSE room[r].first_kocok

\* Faulty variant: the contract's whole balance stands in for the room's.
FullyFunded_AnyBalance(r) ==
  vault >= Obligation(r) * room[r].member_target

\* Every member's own payments and the room's own pool are complete.
FullyFunded(r) ==
  /\ \A m \in members[r] : locked[r][m] = Obligation(r)
  /\ roomPool[r] = Obligation(r) * room[r].member_target

\* The deadline of the first draw, fixed when the room starts.
FirstKocok(r) ==
  IF IsScheduled(r) THEN schedule[r].first_commit_at
  ELSE IF installment[r] THEN now + FIRST_COMMIT_WINDOW
  ELSE room[r].first_kocok

StartRoom(r, caller) ==
  /\ caller = room[r].host
  /\ room[r].status = "Open"
  /\ now < StartBefore(r)
  /\ Cardinality(members[r]) = room[r].member_target
  /\ installment[r] => FullyFunded(r)
  /\ IsScheduled(r) => now < schedule[r].first_commit_at
  /\ room' = [room EXCEPT ![r].status = "Active", ![r].round = 1,
                          ![r].member_count = room[r].member_target,
                          ![r].first_kocok = FirstKocok(r)]
  /\ kocokAt' = [kocokAt EXCEPT ![r][1] = FirstKocok(r)]
  /\ UNCHANGED <<now, deployVars, roomCount, members, installment, schedule,
                 moneyVars, won, winner, postponed, commitment, reveal,
                 commitCount>>

\* Faulty variant: commitments are taken until the draw can be finalized.
CommitOpen_UntilFinalizable(r) == DrawPhase(r) # "Finalizable"
CommitOpen(r) == DrawPhase(r) = "Commit"

CommitDraw(r, m, hash) ==
  LET n == room[r].round IN
  /\ Eligible(r, m)
  /\ CommitOpen(r)
  /\ commitment[r][n][m] = None
  /\ commitment' = [commitment EXCEPT ![r][n][m] = hash]
  /\ commitCount' = [commitCount EXCEPT ![r][n] = @ + 1]
  /\ UNCHANGED <<now, deployVars, roomVars, moneyVars, won, winner, kocokAt,
                 postponed, reveal>>

\* Faulty variant: a commitment opens with its secret alone.
Opens_AnyContext(r, m, secret) ==
  /\ commitment[r][room[r].round][m] # None
  /\ commitment[r][room[r].round][m].secret = secret
Opens(r, m, secret) ==
  commitment[r][room[r].round][m] = CommitmentHash(r, room[r].round, m, secret)

RevealDraw(r, m, secret) ==
  LET n == room[r].round IN
  /\ Eligible(r, m)
  /\ DrawPhase(r) = "Reveal"
  /\ reveal[r][n][m] = None
  /\ Opens(r, m, secret)
  /\ reveal' = [reveal EXCEPT ![r][n][m] = secret]
  /\ UNCHANGED <<now, deployVars, roomVars, moneyVars, won, winner, kocokAt,
                 postponed, commitment, commitCount>>

\* Faulty variants: members who did not reveal can win too; nobody can win a
\* round without reveals.
DrawPool_Unwon(r) == members[r] \ won[r]
DrawPool_RevealersOnly(r) == Revealers(r)
\* Only revealers can win; without any, everyone who has not won can.
DrawPool(r) ==
  IF Revealers(r) # {} THEN Revealers(r) ELSE members[r] \ won[r]

\* Faulty variant: the next deadline counts from this finalization.
NextKocok_FromNow(r) == now + Interval(r)
NextKocok(r) == Deadline(r) + Interval(r)

\* Faulty variants: the winner stays in the draw; the cycle ends a round early.
WonAfter_Forgotten(r, w) == won[r]
WonAfter(r, w) == won[r] \cup {w}
LastRound_Early(r) == room[r].round + 1 >= room[r].member_count
LastRound(r) == room[r].round >= room[r].member_count

\* Faulty variant: the round moves on twice.
NextRound_Twice(r) == IF LastRound(r) THEN room[r].round + 2 ELSE room[r].round + 1
NextRound(r) == room[r].round + 1

FinalizeDraw(r, caller) ==
  LET n == room[r].round IN
  /\ room[r].status = "Active"
  /\ caller \in members[r]
  /\ DrawPhase(r) = "Finalizable"
  /\ installment[r] => roomPool[r] >= Pot(r)
  /\ \E w \in DrawPool(r) :
       /\ PayOut(w, Pot(r))
       /\ won' = [won EXCEPT ![r] = WonAfter(r, w)]
       /\ winner' = [winner EXCEPT ![r][n] = w]
  /\ roomPool' = [roomPool EXCEPT ![r] =
                    IF installment[r] THEN @ - Pot(r) ELSE @]
  /\ IF LastRound(r)
     THEN /\ room' = [room EXCEPT ![r].status = "Done",
                                  ![r].round = NextRound(r)]
          /\ UNCHANGED kocokAt
     ELSE /\ room' = [room EXCEPT ![r].round = NextRound(r)]
          /\ kocokAt' = [kocokAt EXCEPT ![r][n + 1] = NextKocok(r)]
  /\ UNCHANGED <<now, deployVars, roomCount, members, installment, schedule,
                 locked, postponed, commitment, reveal, commitCount>>

\* Faulty variant: committed members do not hold the deadline in place.
CommitStarted_Never(r) == FALSE
CommitStarted(r) == commitCount[r][room[r].round] > 0
AlreadyPostponed(r) == room[r].round \in postponed[r]

PostponeKocok(r, caller, delay) ==
  LET n == room[r].round IN
  /\ caller = room[r].host
  /\ room[r].status = "Active"
  /\ ~IsScheduled(r)
  /\ DrawPhase(r) = "Commit"
  /\ ~CommitStarted(r)
  /\ delay > 0 /\ delay <= MAX_POSTPONE_SECONDS
  /\ ~AlreadyPostponed(r)
  /\ kocokAt' = [kocokAt EXCEPT ![r][n] = @ + delay]
  /\ postponed' = [postponed EXCEPT ![r] = @ \cup {n}]
  /\ UNCHANGED <<now, deployVars, roomVars, moneyVars, won, winner, commitment,
                 reveal, commitCount>>

DissolveAt(r) == Deadline(r) + RevealWindow(r) + GRACE_PERIOD

\* Faulty variant: those who have won are refunded as well.
Unpaid_Everyone(r) == members[r]
Unpaid(r) == members[r] \ won[r]

EmergencyDissolve(r, caller) ==
  LET total == Pot(r) * Cardinality(Unpaid(r)) IN
  /\ room[r].status = "Active"
  /\ caller \in members[r]
  /\ now >= DissolveAt(r)
  /\ vault >= total /\ (installment[r] => roomPool[r] >= total)
  /\ wallet' = [a \in Accounts |->
                  IF a \in Unpaid(r) THEN wallet[a] + Pot(r) ELSE wallet[a]]
  /\ vault' = vault - total
  /\ roomPool' = [roomPool EXCEPT ![r] =
                    IF installment[r] THEN @ - total ELSE @]
  /\ room' = [room EXCEPT ![r].status = "Dissolved"]
  /\ UNCHANGED <<now, deployVars, roomCount, members, installment, schedule,
                 locked, drawVars>>

-----------------------------------------------------------------------------
(* The specification.                                                      *)

\* A commitment is 32 bytes of the caller's choice: its own hash, or a value
\* that is public because somebody already submitted it.
PublishedHashes ==
  {commitment[r][n][m] : r \in Rooms, n \in Rounds, m \in Accounts} \ {None}

CommitInputs(r, m) ==
  {CommitmentHash(r, room[r].round, m, s) : s \in Secrets}
    \cup (IF CopyHashes THEN PublishedHashes ELSE {})

CreateStep ==
  \E h \in Accounts, code \in Codes :
    \/ \E t \in LegacyTerms : CreateRoom(h, code, t)
    \/ \E t \in InstallmentTerms : CreateInstallmentRoom(h, code, t)
    \/ \E t \in ScheduledTerms : CreateScheduledRoom(h, code, t)

FundStep(r) ==
  \E a \in Accounts :
    \/ \E amount \in Amounts : DepositRoom(r, a, amount)
    \/ \E code \in Codes : JoinRoom(r, code, a)

CloseOpenStep(r) ==
  \E a \in Accounts : LeaveRoom(r, a) \/ StartRoom(r, a) \/ CancelRoom(r, a)

DrawStep(r) ==
  \E a \in Accounts :
    \/ \E hash \in CommitInputs(r, a) : CommitDraw(r, a, hash)
    \/ \E secret \in Secrets : RevealDraw(r, a, secret)
    \/ FinalizeDraw(r, a)
    \/ \E delay \in Delays : PostponeKocok(r, a, delay)
    \/ EmergencyDissolve(r, a)

Next ==
  \/ Tick
  \/ Initialize
  \/ InitializeScheduled
  \/ CreateStep
  \/ \E r \in Rooms : FundStep(r) \/ CloseOpenStep(r) \/ DrawStep(r)

Spec == Init /\ [][Next]_vars

\* Ledger time keeps passing, and the diligent accounts keep doing what the
\* contract leaves to its members: finalizing draws that are due and
\* cancelling rooms whose join window has passed.  Nobody else needs to act.
FairSpec ==
  /\ Spec
  /\ WF_vars(Tick)
  /\ \A r \in Rooms, d \in Diligent :
       WF_vars(FinalizeDraw(r, d)) /\ WF_vars(CancelRoom(r, d))

-----------------------------------------------------------------------------
(* Properties.                                                             *)

\* Every variable has the shape of the storage entry it stands for.
TypeOK ==
  /\ now \in 0..MaxTime
  /\ initialized \in BOOLEAN /\ scheduledOnly \in BOOLEAN
  /\ roomCount \in 0..MaxRooms
  /\ room \in [Rooms -> RoomRecord]
  /\ members \in [Rooms -> SUBSET Accounts]
  /\ installment \in [Rooms -> BOOLEAN]
  /\ schedule \in [Rooms -> ScheduleRecord]
  /\ locked \in [Rooms -> [Accounts -> Nat]]
  /\ roomPool \in [Rooms -> Nat]
  /\ won \in [Rooms -> SUBSET Accounts]
  /\ winner \in [Rooms -> [Rounds -> Accounts \cup {None}]]
  /\ kocokAt \in [Rooms -> [Rounds -> Nat]]
  /\ postponed \in [Rooms -> SUBSET Rounds]
  /\ commitment \in [Rooms -> [Rounds -> [Accounts -> Hashes \cup {None}]]]
  /\ reveal \in [Rooms -> [Rounds -> [Accounts -> Secrets \cup {None}]]]
  /\ commitCount \in [Rooms -> [Rounds -> Nat]]
  /\ wallet \in [Accounts -> Nat]
  /\ vault \in Nat

\* What room r still owes account a: its lock while the room is Open, its
\* whole prefunded cycle until it has won, nothing afterwards.
Claim(r, a) ==
  IF \/ room[r].status = "Open" /\ a \in members[r]
     \/ room[r].status = "Active" /\ a \in members[r] \ won[r]
  THEN locked[r][a] ELSE 0

\* What each room owes account a; what room r owes each account and in all.
Owed(a) == [r \in Rooms |-> Claim(r, a)]
Claims(r) == [a \in Accounts |-> Claim(r, a)]
Owes(r) == Total(Claims(r), Accounts)
Debts == [r \in Rooms |-> Owes(r)]

\* "Late payment, default, and abscond are structurally impossible" (lib.rs
\* header): at every moment an account's tokens plus what its rooms owe it are
\* exactly what it started with, whatever order of joins, deposits, draws,
\* leaves, cancellations and dissolutions led there.
MemberWhole ==
  \A a \in Accounts : wallet[a] + Total(Owed(a), Rooms) = Wealth

\* The shared token balance is exactly what all rooms owe, and an installment
\* room's attributed pool is exactly what that room owes: no room ever pays
\* with another one's tokens ("a balance belonging to another room cannot
\* satisfy this gate", lib.rs start_room).
PoolHoldsClaims ==
  /\ vault = Total(Debts, Rooms)
  /\ \A r \in Rooms : installment[r] => roomPool[r] = Owes(r)

\* "Every member locks their FULL cycle commitment", "each round ... a random
\* winner from members who haven't won yet", "after N rounds everyone has won
\* exactly once" (lib.rs header): every room turns as a rotation among members
\* who put in the same, whose rosters and claims nothing else touches once it
\* has started, and which is over for good when it is Done or Dissolved.
Phase(r) == IF room[r].status = "Missing" THEN "Open" ELSE room[r].status
Circle == INSTANCE Rotation WITH
  Circles <- Rooms, Members <- Accounts,
  phase  <- [r \in Rooms |-> Phase(r)],
  seated <- members,
  served <- won,
  owed   <- [r \in Rooms |-> Claims(r)],
  purse  <- wallet
TurnsAsPromised == Circle!Spec

\* "After N rounds everyone has won exactly once" (lib.rs header): an Active
\* room's round is one more than its winners, each recorded for one round, and
\* a Done room has paid every member.
CycleProgress ==
  \A r \in Rooms :
    /\ room[r].status \in {"Active", "Done"} =>
         /\ room[r].round = Cardinality(won[r]) + 1
         /\ won[r] = {winner[r][n] : n \in 1..(room[r].round - 1)}
    /\ room[r].status = "Active" => won[r] # members[r]
    /\ room[r].status = "Done" => won[r] = members[r]

\* A scheduled room's draw dates are the ones its members agreed to, however
\* late its rounds are finalized; any other room's draw is at most one
\* postponement per round later than its start fixed it.
ScheduleKept ==
  \A r \in Rooms, n \in Rounds : kocokAt[r][n] > 0 =>
    LET planned == room[r].first_kocok + (n - 1) * Interval(r) IN
    /\ IsScheduled(r) => /\ kocokAt[r][n] = planned
                         /\ room[r].first_kocok = schedule[r].first_commit_at
    /\ kocokAt[r][n] >= planned
    /\ kocokAt[r][n] <= planned + n * MAX_POSTPONE_SECONDS

\* What members have committed to stands.  From a round's first commitment on
\* the host can no longer move its deadline ("Changing the deadline after a
\* commitment exists would change the agreed protocol window", lib.rs
\* postpone_kocok); from its first revealed secret on nobody can commit any
\* more, so no commitment is chosen knowing a secret it is drawn against.
DrawsStayAgreed ==
  [][\A r \in Rooms, n \in Rounds :
       /\ (\E m \in Accounts : commitment[r][n][m] # None)
            => kocokAt'[r][n] = kocokAt[r][n]
       /\ (\E m \in Accounts : reveal[r][n][m] # None)
            => commitment'[r][n] = commitment[r][n]]_vars

\* A revealed secret opens a commitment that its own member made for that very
\* room and round: values copied from another member, round or room never do
\* (lib.rs reveal_draw).
RevealsBound ==
  \A r \in Rooms, n \in Rounds, m \in Accounts :
    reveal[r][n][m] # None =>
      commitment[r][n][m] = CommitmentHash(r, n, m, reveal[r][n][m])

\* A round somebody revealed in was won by somebody who revealed (lib.rs
\* finalize_draw), also when it was finalized long after its window.
RevealersWin ==
  \A r \in Rooms, n \in Rounds :
    (winner[r][n] # None /\ \E m \in Accounts : reveal[r][n][m] # None)
      => reveal[r][n][winner[r][n]] # None

\* One diligent member is enough for an Active room to pay out or refund
\* everybody: silent members, an absent host and missed reveals cannot strand
\* the prefunded pool (lib.rs header, "so the prefunded pool cannot be
\* stranded").
ActiveRoomSettles ==
  \A r \in Rooms, d \in Diligent :
    (room[r].status = "Active" /\ d \in members[r])
      ~> room[r].status \in {"Done", "Dissolved"}

\* One diligent account, member or not, is enough for a room that was never
\* started to end: it is started, or cancelled with every lock refunded
\* ("anti-deadlock", lib.rs cancel_room).
OpenRoomEnds ==
  \A r \in Rooms : Diligent # {} =>
    (room[r].status = "Open" ~> room[r].status # "Open")

\* "In normal use the permissionless finalize_draw() keeps this from ever
\* firing" (lib.rs emergency_dissolve): whoever calls, a due draw is finalized.
\* The code admits the room's members only.
PermissionlessFinalize ==
  \A r \in Rooms :
    (room[r].status = "Active" /\ DrawPhase(r) = "Finalizable")
      => \A a \in Accounts : ENABLED FinalizeDraw(r, a)
=============================================================================
