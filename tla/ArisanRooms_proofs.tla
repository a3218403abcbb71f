-------------------------- MODULE ArisanRooms_proofs --------------------------
(***************************************************************************)
(* Proofs about ArisanRooms, for every number of rooms, accounts, members, *)
(* every share, every timing and any order of calls.                       *)
(***************************************************************************)
EXTENDS ArisanRooms, FiniteSetTheorems, TLAPS

-----------------------------------------------------------------------------
(* Sums of amounts.                                                        *)

\* The coins of finitely many finite amounts are finitely many.
LEMMA TotalType ==
  ASSUME NEW S, IsFiniteSet(S), NEW f, \A x \in S : f[x] \in Nat
  PROVE  IsFiniteSet(Coins(f, S)) /\ Total(f, S) \in Nat
<1> DEFINE T == {{x} \X (1..f[x]) : x \in S}
           g == [x \in S |-> {x} \X (1..f[x])]
<1>1. g \in Surjection(S, T)
  BY DEF Surjection
<1>2. IsFiniteSet(T)
  BY <1>1, FS_Surjection
<1>3. \A U \in T : IsFiniteSet(U)
  <2> TAKE U \in T
  <2>1. PICK x \in S : U = {x} \X (1..f[x])
    OBVIOUS
  <2>2. IsFiniteSet({x})
    BY FS_Singleton
  <2>3. f[x] \in Int /\ 1 \in Int
    OBVIOUS
  <2>4. IsFiniteSet(1..f[x])
    BY <2>3, FS_Interval
  <2> QED BY <2>1, <2>2, <2>4, FS_Product
<1>4. IsFiniteSet(UNION T)
  BY <1>2, <1>3, FS_UNION
<1> QED BY <1>4, FS_CardinalityType DEF Coins, Total

\* Only the amounts at S matter.
LEMMA TotalSame ==
  ASSUME NEW S, NEW f, NEW g, \A x \in S : f[x] = g[x]
  PROVE  Total(f, S) = Total(g, S)
<1>1. Coins(f, S) = Coins(g, S)
  BY DEF Coins
<1> QED BY <1>1 DEF Total

LEMMA TotalSingle ==
  ASSUME NEW f, NEW x, f[x] \in Nat
  PROVE  Total(f, {x}) = f[x]
<1>1. Coins(f, {x}) = {x} \X (1..f[x])
  BY DEF Coins
<1>2. IsFiniteSet({x}) /\ Cardinality({x}) = 1
  BY FS_Singleton
<1>3. IsFiniteSet(1..f[x]) /\ Cardinality(1..f[x]) = f[x]
  BY FS_Interval
<1>4. Cardinality({x} \X (1..f[x])) = 1 * f[x]
  <2>1. Cardinality({x} \X (1..f[x])) = Cardinality({x}) * Cardinality(1..f[x])
    BY <1>2, <1>3, FS_Product, Zenon
  <2> QED BY <1>2, <1>3, <2>1, Zenon
<1>5. 1 * f[x] = f[x]
  OBVIOUS
<1> QED BY <1>1, <1>4, <1>5, Zenon DEF Total

\* Disjoint sets add up.
LEMMA TotalUnion ==
  ASSUME NEW S, IsFiniteSet(S), NEW T, IsFiniteSet(T), S \cap T = {},
         NEW f, \A x \in S \cup T : f[x] \in Nat
  PROVE  Total(f, S \cup T) = Total(f, S) + Total(f, T)
<1>1. IsFiniteSet(Coins(f, S)) /\ IsFiniteSet(Coins(f, T))
  BY TotalType
<1>2. Coins(f, S \cup T) = Coins(f, S) \cup Coins(f, T)
  BY DEF Coins
<1>3. Coins(f, S) \cap Coins(f, T) = {}
  <2>1. ASSUME NEW p, p \in Coins(f, S), p \in Coins(f, T)
        PROVE  FALSE
    <3>1. PICK x \in S : p \in {x} \X (1..f[x])
      BY <2>1 DEF Coins
    <3>2. PICK y \in T : p \in {y} \X (1..f[y])
      BY <2>1 DEF Coins
    <3>3. p[1] = x /\ p[1] = y
      BY <3>1, <3>2
    <3> QED BY <3>3
  <2> QED BY <2>1
<1>4. Cardinality(Coins(f, S) \cap Coins(f, T)) = 0
  BY <1>3, FS_EmptySet
<1>5. /\ Cardinality(Coins(f, S)) \in Nat
      /\ Cardinality(Coins(f, T)) \in Nat
  BY <1>1, FS_CardinalityType
<1>6. Cardinality(Coins(f, S) \cup Coins(f, T))
        = Cardinality(Coins(f, S)) + Cardinality(Coins(f, T)) - 0
  BY <1>1, <1>4, FS_Union
<1>7. Cardinality(Coins(f, S) \cup Coins(f, T))
        = Cardinality(Coins(f, S)) + Cardinality(Coins(f, T))
  BY <1>5, <1>6
<1> QED BY <1>2, <1>7, Zenon DEF Total

\* One element's amount and the rest.
LEMMA TotalSplit ==
  ASSUME NEW S, IsFiniteSet(S), NEW f, \A y \in S : f[y] \in Nat, NEW x \in S
  PROVE  /\ Total(f, S) = f[x] + Total(f, S \ {x})
         /\ Total(f, S \ {x}) \in Nat
<1>1. IsFiniteSet({x}) /\ IsFiniteSet(S \ {x})
  BY FS_Singleton, FS_RemoveElement
<1>2. S = {x} \cup (S \ {x}) /\ {x} \cap (S \ {x}) = {}
  OBVIOUS
<1>3. Total(f, {x} \cup (S \ {x})) = Total(f, {x}) + Total(f, S \ {x})
  BY <1>1, <1>2, TotalUnion
<1>4. Total(f, {x}) = f[x]
  BY TotalSingle
<1>5. Total(f, S \ {x}) \in Nat
  BY <1>1, TotalType
<1> QED BY <1>2, <1>3, <1>4, <1>5

\* What changes at one element changes the total.
LEMMA TotalChange ==
  ASSUME NEW S, IsFiniteSet(S), NEW x \in S,
         NEW f, \A y \in S : f[y] \in Nat,
         NEW g, \A y \in S : g[y] \in Nat,
         \A y \in S \ {x} : g[y] = f[y]
  PROVE  /\ Total(g, S) = Total(f, S) - f[x] + g[x]
         /\ Total(f, S) \in Nat /\ f[x] <= Total(f, S)
<1>1. Total(f, S) = f[x] + Total(f, S \ {x}) /\ Total(f, S \ {x}) \in Nat
  BY TotalSplit
<1>2. Total(g, S) = g[x] + Total(g, S \ {x})
  BY TotalSplit
<1>3. Total(g, S \ {x}) = Total(f, S \ {x})
  BY TotalSame
<1> QED BY <1>1, <1>2, <1>3

LEMMA TotalZero ==
  ASSUME NEW S, NEW f, \A x \in S : f[x] = 0
  PROVE  Total(f, S) = 0
<1>1. Coins(f, S) = {}
  BY DEF Coins
<1> QED BY <1>1, FS_EmptySet DEF Total

\* Equal amounts.
LEMMA TotalTimes ==
  ASSUME NEW S, IsFiniteSet(S), NEW k \in Nat, NEW f, \A x \in S : f[x] = k
  PROVE  Total(f, S) = k * Cardinality(S)
<1>1. Coins(f, S) = S \X (1..k)
  BY DEF Coins
<1>2. IsFiniteSet(1..k) /\ Cardinality(1..k) = k
  BY FS_Interval
<1>3. Cardinality(S \X (1..k)) = Cardinality(S) * k
  BY <1>2, FS_Product
<1>4. Cardinality(S) \in Nat
  BY FS_CardinalityType
<1>5. Cardinality(S) * k = k * Cardinality(S)
  BY <1>4
<1> QED BY <1>1, <1>3, <1>5, Zenon DEF Total

\* Only the elements with an amount matter.
LEMMA TotalWithin ==
  ASSUME NEW S, IsFiniteSet(S), NEW T, T \subseteq S,
         NEW f, \A x \in T : f[x] \in Nat, \A x \in S \ T : f[x] = 0
  PROVE  Total(f, S) = Total(f, T)
<1>1. IsFiniteSet(T) /\ IsFiniteSet(S \ T) /\ T \cup (S \ T) = S /\ T \cap (S \ T) = {}
  BY FS_Subset
<1>2. Total(f, T \cup (S \ T)) = Total(f, T) + Total(f, S \ T)
  BY <1>1, TotalUnion
<1>3. Total(f, S \ T) = 0 /\ Total(f, T) \in Nat
  BY <1>1, TotalZero, TotalType
<1>4. Total(f, S) = Total(f, T) + Total(f, S \ T)
  BY <1>1, <1>2, Zenon
<1> QED BY <1>3, <1>4

-----------------------------------------------------------------------------
(* Facts about the operators the model is built from.                      *)

LEMMA ProductType == \A i, j \in Nat : i * j \in Nat
OBVIOUS

-----------------------------------------------------------------------------
(* Type correctness.                                                       *)

\* What keeps round numbers within their range: a room has at most
\* MAX_MEMBERS seats and an Active room is in one of its member_count rounds.
RoundsBounded ==
  \A r \in Rooms :
    /\ room[r].member_target <= MAX_MEMBERS
    /\ room[r].status # "Missing" => room[r].member_target >= 1
    /\ room[r].status = "Active" =>
         room[r].round >= 1 /\ room[r].round <= room[r].member_count
         /\ room[r].member_count <= MAX_MEMBERS

TypeInv == TypeOK /\ RoundsBounded

LEMMA TypeInit == Init => TypeInv
<1> SUFFICES ASSUME Init PROVE TypeInv
  OBVIOUS
<1> USE BoundsAssumption, TimingAssumption
<1>1. NoRoom \in RoomRecord
  BY DEF NoRoom, RoomRecord, Statuses, Cadences
<1>2. NoSchedule \in ScheduleRecord
  BY DEF NoSchedule, ScheduleRecord
<1>3. TypeOK
  <2>1. now \in 0..MaxTime /\ roomCount \in 0..MaxRooms
    BY DEF Init
  <2>6. initialized \in BOOLEAN /\ scheduledOnly \in BOOLEAN
    BY Zenon DEF Init
  <2>2. /\ room \in [Rooms -> RoomRecord]
        /\ members \in [Rooms -> SUBSET Accounts]
        /\ installment \in [Rooms -> BOOLEAN]
        /\ schedule \in [Rooms -> ScheduleRecord]
    BY <1>1, <1>2 DEF Init
  <2>3. /\ locked \in [Rooms -> [Accounts -> Nat]]
        /\ roomPool \in [Rooms -> Nat]
        /\ wallet \in [Accounts -> Nat] /\ vault \in Nat
    BY DEF Init
  <2>4. /\ won \in [Rooms -> SUBSET Accounts]
        /\ winner \in [Rooms -> [Rounds -> Accounts \cup {None}]]
        /\ kocokAt \in [Rooms -> [Rounds -> Nat]]
        /\ postponed \in [Rooms -> SUBSET Rounds]
        /\ commitCount \in [Rooms -> [Rounds -> Nat]]
    BY DEF Init
  <2>5. /\ commitment \in [Rooms -> [Rounds -> [Accounts -> Hashes \cup {None}]]]
        /\ reveal \in [Rooms -> [Rounds -> [Accounts -> Secrets \cup {None}]]]
    BY DEF Init
  <2> QED BY <2>1, <2>2, <2>3, <2>4, <2>5, <2>6 DEF TypeOK
<1>4. RoundsBounded
  BY DEF Init, RoundsBounded, NoRoom
<1> QED BY <1>3, <1>4 DEF TypeInv

LEMMA SeatHostType ==
  ASSUME TypeInv, NEW record \in RoomRecord, SeatHost(record),
         record.host \in Accounts, record.status = "Open",
         record.member_target \in 1..MAX_MEMBERS
  PROVE  /\ roomCount' \in 0..MaxRooms
         /\ room' \in [Rooms -> RoomRecord]
         /\ members' \in [Rooms -> SUBSET Accounts]
         /\ RoundsBounded'
<1> USE BoundsAssumption, TimingAssumption
<1>1. roomCount + 1 \in Rooms /\ roomCount' \in 0..MaxRooms
  BY DEF SeatHost, Rooms, TypeInv, TypeOK
<1>2. room' = [room EXCEPT ![roomCount + 1] = record]
  BY DEF SeatHost
<1>3. room \in [Rooms -> RoomRecord]
  BY DEF TypeInv, TypeOK
<1>4. room' \in [Rooms -> RoomRecord]
  BY <1>1, <1>2, <1>3
<1>5. members' \in [Rooms -> SUBSET Accounts]
  BY <1>1 DEF SeatHost, TypeInv, TypeOK
<1>6. \A r \in Rooms : room'[r] = IF r = roomCount + 1 THEN record ELSE room[r]
  BY <1>1, <1>2, <1>3
<1>7. RoundsBounded'
  BY <1>6 DEF RoundsBounded, TypeInv
<1> QED BY <1>1, <1>4, <1>5, <1>7

LEMMA NewRoomType ==
  ASSUME NEW h \in Accounts, NEW code \in Codes,
         NEW t, t.member_target \in Nat, t.share \in Nat, SeatsValid(t),
         NEW cadence \in Cadences, NEW firstKocok \in Nat, NEW deadline \in Nat
  PROVE  LET record == NewRoom(h, code, t, cadence, firstKocok, deadline) IN
         /\ record \in RoomRecord
         /\ record.host = h /\ record.status = "Open"
         /\ record.member_target \in 1..MAX_MEMBERS
BY TimingAssumption DEF NewRoom, RoomRecord, Statuses, SeatsValid

LEMMA PayInType ==
  ASSUME TypeOK, NEW a \in Accounts, NEW amount \in Nat, PayIn(a, amount)
  PROVE  wallet' \in [Accounts -> Nat] /\ vault' \in Nat
BY DEF TypeOK, PayIn

LEMMA RefundType ==
  ASSUME TypeOK, NEW r \in Rooms, NEW S, S \subseteq Accounts, Refund(r, S)
  PROVE  /\ wallet' \in [Accounts -> Nat] /\ vault' \in Nat
         /\ roomPool' \in [Rooms -> Nat]
         /\ locked' \in [Rooms -> [Accounts -> Nat]]
<1>1. locked[r] \in [Accounts -> Nat]
  BY DEF TypeOK
<1>2. IsFiniteSet(S)
  BY BoundsAssumption, FS_Subset
<1>3. Total(locked[r], S) \in Nat
  BY <1>1, <1>2, TotalType
<1> QED BY <1>1, <1>3 DEF Refund, TypeOK

\* The next-state relation, one alternative per entry point.
LEMMA NextCases ==
  ASSUME NEW P, [Next]_vars,
         UNCHANGED vars => P,
         Tick => P, Initialize => P, InitializeScheduled => P,
         \A h \in Accounts, code \in Codes :
           /\ \A t \in LegacyTerms : CreateRoom(h, code, t) => P
           /\ \A t \in InstallmentTerms : CreateInstallmentRoom(h, code, t) => P
           /\ \A t \in ScheduledTerms : CreateScheduledRoom(h, code, t) => P,
         \A r \in Rooms, a \in Accounts :
           /\ \A amount \in Amounts : DepositRoom(r, a, amount) => P
           /\ \A code \in Codes : JoinRoom(r, code, a) => P
           /\ LeaveRoom(r, a) => P
           /\ StartRoom(r, a) => P
           /\ CancelRoom(r, a) => P
           /\ \A hash \in CommitInputs(r, a) : CommitDraw(r, a, hash) => P
           /\ \A secret \in Secrets : RevealDraw(r, a, secret) => P
           /\ FinalizeDraw(r, a) => P
           /\ \A delay \in Delays : PostponeKocok(r, a, delay) => P
           /\ EmergencyDissolve(r, a) => P
  PROVE  P
BY Zenon DEF Next, CreateStep, FundStep, CloseOpenStep, DrawStep

LEMMA CreateRoomType ==
  ASSUME TypeInv, NEW h \in Accounts, NEW code \in Codes,
         NEW t \in LegacyTerms, CreateRoom(h, code, t)
  PROVE  TypeInv'
<1> DEFINE total == t.share * t.member_target
           record == NewRoom(h, code, t, t.cadence, t.first_kocok, t.join_deadline)
<1>1. /\ t.member_target \in Nat /\ t.share \in Nat /\ t.cadence \in Cadences
      /\ t.first_kocok \in Nat /\ t.join_deadline \in Nat
  BY InputAssumption
<1>2. /\ record \in RoomRecord /\ record.host = h /\ record.status = "Open"
      /\ record.member_target \in 1..MAX_MEMBERS
  BY <1>1, NewRoomType DEF CreateRoom
<1>3. total \in Nat
  BY <1>1, ProductType
<1>4. /\ roomCount' \in 0..MaxRooms /\ room' \in [Rooms -> RoomRecord]
      /\ members' \in [Rooms -> SUBSET Accounts] /\ RoundsBounded'
  BY <1>2, SeatHostType DEF CreateRoom
<1>5. wallet' \in [Accounts -> Nat] /\ vault' \in Nat
  BY <1>3, PayInType DEF CreateRoom, TypeInv
<1>6. locked' \in [Rooms -> [Accounts -> Nat]]
  BY <1>3 DEF CreateRoom, TypeInv, TypeOK
<1> QED BY <1>4, <1>5, <1>6 DEF TypeInv, TypeOK, CreateRoom, deployVars, drawVars

LEMMA CreateInstallmentRoomType ==
  ASSUME TypeInv, NEW h \in Accounts, NEW code \in Codes,
         NEW t \in InstallmentTerms, CreateInstallmentRoom(h, code, t)
  PROVE  TypeInv'
<1> DEFINE record == NewRoom(h, code, t, t.cadence, 0, t.funding_deadline)
<1>1. /\ t.member_target \in Nat /\ t.share \in Nat /\ t.cadence \in Cadences
      /\ t.funding_deadline \in Nat
  BY InputAssumption
<1>2. /\ record \in RoomRecord /\ record.host = h /\ record.status = "Open"
      /\ record.member_target \in 1..MAX_MEMBERS
  BY <1>1, NewRoomType DEF CreateInstallmentRoom
<1>3. /\ roomCount' \in 0..MaxRooms /\ room' \in [Rooms -> RoomRecord]
      /\ members' \in [Rooms -> SUBSET Accounts] /\ RoundsBounded'
  BY <1>2, SeatHostType DEF CreateInstallmentRoom
<1>4. installment' \in [Rooms -> BOOLEAN]
  BY DEF CreateInstallmentRoom, TypeInv, TypeOK
<1> QED BY <1>3, <1>4
        DEF TypeInv, TypeOK, CreateInstallmentRoom, deployVars, drawVars, moneyVars

LEMMA CreateScheduledRoomType ==
  ASSUME TypeInv, NEW h \in Accounts, NEW code \in Codes,
         NEW t \in ScheduledTerms, CreateScheduledRoom(h, code, t)
  PROVE  TypeInv'
<1> DEFINE firstCommitAt == t.first_draw_at - SCHEDULED_REVEAL_WINDOW
           cadence == IF t.interval_seconds = 30 * SECONDS_PER_DAY
                      THEN "Monthly" ELSE "Weekly"
           record == NewRoom(h, code, t, cadence, firstCommitAt, t.funding_deadline)
           terms == [interval_seconds |-> t.interval_seconds,
                     first_draw_at |-> t.first_draw_at,
                     first_commit_at |-> firstCommitAt]
<1>1. /\ t.member_target \in Nat /\ t.share \in Nat /\ t.interval_seconds \in Nat
      /\ t.first_draw_at \in Nat /\ t.funding_deadline \in Nat
  BY InputAssumption
<1>2. firstCommitAt \in Nat /\ cadence \in Cadences
  BY <1>1, TimingAssumption DEF CreateScheduledRoom, FirstDrawValid, Cadences
<1>3. /\ record \in RoomRecord /\ record.host = h /\ record.status = "Open"
      /\ record.member_target \in 1..MAX_MEMBERS
  <2>1. SeatsValid(t)
    BY DEF CreateScheduledRoom
  <2> HIDE DEF firstCommitAt, cadence
  <2> QED BY <1>1, <1>2, <2>1, NewRoomType
<1>4. SeatHost(record)
  BY DEF CreateScheduledRoom
<1>5. /\ roomCount' \in 0..MaxRooms /\ room' \in [Rooms -> RoomRecord]
      /\ members' \in [Rooms -> SUBSET Accounts] /\ RoundsBounded'
  <2> HIDE DEF record
  <2> QED BY <1>3, <1>4, SeatHostType
<1>6. installment' \in [Rooms -> BOOLEAN]
  BY DEF CreateScheduledRoom, TypeInv, TypeOK
<1>7. terms \in ScheduleRecord
  <2> HIDE DEF firstCommitAt
  <2> QED BY <1>1, <1>2 DEF ScheduleRecord
<1>8. schedule' \in [Rooms -> ScheduleRecord]
  <2>1. schedule' = [schedule EXCEPT ![roomCount + 1] = terms]
    BY DEF CreateScheduledRoom
  <2> HIDE DEF terms
  <2> QED BY <1>7, <2>1 DEF TypeInv, TypeOK
<1>9. UNCHANGED <<now, deployVars, moneyVars, drawVars>>
  BY DEF CreateScheduledRoom
<1> QED BY <1>5, <1>6, <1>8, <1>9
        DEF TypeInv, TypeOK, deployVars, drawVars, moneyVars

LEMMA RosterFinite ==
  ASSUME TypeOK, NEW r \in Rooms
  PROVE  /\ members[r] \subseteq Accounts /\ IsFiniteSet(members[r])
         /\ Cardinality(members[r]) \in Nat
<1>1. members[r] \subseteq Accounts
  BY DEF TypeOK
<1> QED BY <1>1, BoundsAssumption, FS_Subset, FS_CardinalityType

\* Only the head count of a room that is still Open changes.
LEMMA CountChangeType ==
  ASSUME TypeInv, NEW r \in Rooms, NEW k \in Nat, room[r].status = "Open",
         room' = [room EXCEPT ![r].member_count = k]
  PROVE  room' \in [Rooms -> RoomRecord] /\ RoundsBounded'
<1>1. room \in [Rooms -> RoomRecord]
  BY DEF TypeInv, TypeOK
<1>2. room' \in [Rooms -> RoomRecord]
  BY <1>1 DEF RoomRecord
<1>3. \A p \in Rooms : /\ room'[p].member_target = room[p].member_target
                       /\ room'[p].status = room[p].status
                       /\ room'[p].round = room[p].round
                       /\ p # r => room'[p] = room[p]
  BY <1>1 DEF RoomRecord
<1>4. RoundsBounded'
  BY <1>3 DEF TypeInv, RoundsBounded
<1> QED BY <1>2, <1>4

\* A dissolved room keeps everything but its status.
LEMMA DissolvedRoomType ==
  ASSUME TypeInv, NEW r \in Rooms, room[r].status # "Missing",
         room' = [room EXCEPT ![r].status = "Dissolved"]
  PROVE  room' \in [Rooms -> RoomRecord] /\ RoundsBounded'
<1>1. room \in [Rooms -> RoomRecord]
  BY DEF TypeInv, TypeOK
<1>2. room' \in [Rooms -> RoomRecord]
  BY <1>1 DEF RoomRecord, Statuses
<1>3. \A p \in Rooms : /\ room'[p].member_target = room[p].member_target
                       /\ p # r => room'[p] = room[p]
  BY <1>1 DEF RoomRecord
<1>4. room'[r].status # "Active"
  BY <1>1 DEF RoomRecord
<1>5. RoundsBounded'
  BY <1>3, <1>4 DEF TypeInv, RoundsBounded
<1> QED BY <1>2, <1>5

\* A Done room's round may be one past its last.
LEMMA DoneRoomType ==
  ASSUME TypeInv, NEW r \in Rooms, room[r].status # "Missing",
         NEW n \in 0..(MAX_MEMBERS + 1),
         room' = [room EXCEPT ![r].status = "Done", ![r].round = n]
  PROVE  room' \in [Rooms -> RoomRecord] /\ RoundsBounded'
<1>1. room \in [Rooms -> RoomRecord]
  BY DEF TypeInv, TypeOK
<1>2. room' \in [Rooms -> RoomRecord]
  <2> DEFINE done == [room[r] EXCEPT !.status = "Done", !.round = n]
  <2>1. done \in RoomRecord
    BY <1>1 DEF RoomRecord, Statuses
  <2>2. room' = [room EXCEPT ![r] = done]
    BY <1>1
  <2> HIDE DEF done
  <2> QED BY <1>1, <2>1, <2>2
<1>3. \A p \in Rooms : /\ room'[p].member_target = room[p].member_target
                       /\ p # r => room'[p] = room[p]
  BY <1>1 DEF RoomRecord
<1>4. room'[r].status = "Done"
  BY <1>1 DEF RoomRecord
<1>5. RoundsBounded'
  BY <1>3, <1>4 DEF TypeInv, RoundsBounded
<1> QED BY <1>2, <1>5

LEMMA DepositRoomType ==
  ASSUME TypeInv, NEW r \in Rooms, NEW m \in Accounts, NEW amount \in Amounts,
         DepositRoom(r, m, amount)
  PROVE  TypeInv'
<1>1. amount \in Nat
  BY InputAssumption
<1>2. wallet' \in [Accounts -> Nat] /\ vault' \in Nat
  BY <1>1, PayInType DEF DepositRoom, TypeInv
<1>3. /\ locked' \in [Rooms -> [Accounts -> Nat]]
      /\ roomPool' \in [Rooms -> Nat]
  BY <1>1 DEF DepositRoom, TypeInv, TypeOK
<1> QED BY <1>2, <1>3
        DEF TypeInv, TypeOK, RoundsBounded, DepositRoom, deployVars, roomVars, drawVars

LEMMA JoinRoomType ==
  ASSUME TypeInv, NEW r \in Rooms, NEW code \in Codes, NEW m \in Accounts,
         JoinRoom(r, code, m)
  PROVE  TypeInv'
<1>1. SeatPrice(r) \in Nat
  <2>1. room[r].share \in Nat /\ room[r].member_target \in Nat
    BY DEF TypeInv, TypeOK, RoomRecord
  <2>2. Obligation(r) \in Nat
    BY <2>1, ProductType DEF Obligation
  <2> QED BY <2>2 DEF SeatPrice
<1>2. wallet' \in [Accounts -> Nat] /\ vault' \in Nat
  BY <1>1, PayInType DEF JoinRoom, TypeInv
<1>3. locked' \in [Rooms -> [Accounts -> Nat]]
  BY <1>1 DEF JoinRoom, TypeInv, TypeOK
<1>4. members' \in [Rooms -> SUBSET Accounts]
  BY DEF JoinRoom, TypeInv, TypeOK
<1>5. Cardinality(members[r]) + 1 \in Nat
  BY RosterFinite DEF TypeInv
<1>6. room' \in [Rooms -> RoomRecord] /\ RoundsBounded'
  BY <1>5, CountChangeType DEF JoinRoom
<1> QED BY <1>2, <1>3, <1>4, <1>6
        DEF TypeInv, TypeOK, JoinRoom, deployVars, drawVars

LEMMA LeaveRoomType ==
  ASSUME TypeInv, NEW r \in Rooms, NEW m \in Accounts, LeaveRoom(r, m)
  PROVE  TypeInv'
<1>1. /\ wallet' \in [Accounts -> Nat] /\ vault' \in Nat
      /\ roomPool' \in [Rooms -> Nat]
      /\ locked' \in [Rooms -> [Accounts -> Nat]]
  BY RefundType DEF LeaveRoom, TypeInv
<1>2. members' \in [Rooms -> SUBSET Accounts]
  BY DEF LeaveRoom, TypeInv, TypeOK
<1>3. Cardinality(members[r]) - 1 \in Nat
  <2>1. IsFiniteSet(members[r]) /\ Cardinality(members[r]) \in Nat
    BY RosterFinite DEF TypeInv
  <2>2. m \in members[r]
    BY DEF LeaveRoom
  <2>3. Cardinality(members[r]) # 0
    BY <2>1, <2>2, FS_EmptySet
  <2> QED BY <2>1, <2>3
<1>4. room' \in [Rooms -> RoomRecord] /\ RoundsBounded'
  BY <1>3, CountChangeType DEF LeaveRoom
<1> QED BY <1>1, <1>2, <1>4
        DEF TypeInv, TypeOK, LeaveRoom, deployVars, drawVars

LEMMA CancelRoomType ==
  ASSUME TypeInv, NEW r \in Rooms, NEW caller \in Accounts, CancelRoom(r, caller)
  PROVE  TypeInv'
<1>1. /\ wallet' \in [Accounts -> Nat] /\ vault' \in Nat
      /\ roomPool' \in [Rooms -> Nat]
      /\ locked' \in [Rooms -> [Accounts -> Nat]]
  BY RefundType DEF CancelRoom, TypeInv, TypeOK
<1>2. /\ room' = [room EXCEPT ![r].status = "Dissolved"]
      /\ room[r].status # "Missing"
  BY DEF CancelRoom
<1>3. room' \in [Rooms -> RoomRecord] /\ RoundsBounded'
  BY <1>2, DissolvedRoomType
<1> QED BY <1>1, <1>3
        DEF TypeInv, TypeOK, CancelRoom, deployVars, drawVars

LEMMA StartRoomType ==
  ASSUME TypeInv, NEW r \in Rooms, NEW caller \in Accounts, StartRoom(r, caller)
  PROVE  TypeInv'
<1> DEFINE target == room[r].member_target
           first == FirstKocok(r)
<1>1. room \in [Rooms -> RoomRecord] /\ kocokAt \in [Rooms -> [Rounds -> Nat]]
  BY DEF TypeInv, TypeOK
<1>2. first \in Nat
  BY <1>1, BoundsAssumption, TimingAssumption
     DEF TypeInv, TypeOK, FirstKocok, RoomRecord, ScheduleRecord
<1>3. target \in Nat /\ target <= MAX_MEMBERS
  BY <1>1 DEF TypeInv, RoundsBounded, RoomRecord
<1>4. target >= 1
  BY DEF StartRoom, TypeInv, RoundsBounded
<1>5. room' = [room EXCEPT ![r].status = "Active", ![r].round = 1,
                           ![r].member_count = target, ![r].first_kocok = first]
  BY DEF StartRoom
<1>6. kocokAt' = [kocokAt EXCEPT ![r][1] = first]
  BY DEF StartRoom
<1> HIDE DEF target, first
<1>7. 1 \in Rounds /\ 1 \in 0..(MAX_MEMBERS + 1)
  BY <1>3, <1>4, TimingAssumption DEF Rounds
<1>8. room' \in [Rooms -> RoomRecord]
  <2> DEFINE started == [room[r] EXCEPT !.status = "Active", !.round = 1,
                                        !.member_count = target,
                                        !.first_kocok = first]
  <2>1. started \in RoomRecord
    BY <1>1, <1>2, <1>3, <1>7 DEF RoomRecord, Statuses
  <2>2. room' = [room EXCEPT ![r] = started]
    BY <1>1, <1>5
  <2> HIDE DEF started
  <2> QED BY <1>1, <2>1, <2>2
<1>9. RoundsBounded'
  <2>1. \A p \in Rooms : room'[p].member_target = room[p].member_target
    BY <1>1, <1>5 DEF RoomRecord
  <2>2. \A p \in Rooms \ {r} : room'[p] = room[p]
    BY <1>1, <1>5
  <2>3. room'[r].round = 1 /\ room'[r].member_count = target
    BY <1>1, <1>5 DEF RoomRecord
  <2>4. room[r].status # "Missing"
    BY DEF StartRoom
  <2> QED BY <1>3, <1>4, <2>1, <2>2, <2>3, <2>4 DEF RoundsBounded, TypeInv
<1>10. kocokAt' \in [Rooms -> [Rounds -> Nat]]
  BY <1>1, <1>2, <1>6, <1>7
<1> QED BY <1>8, <1>9, <1>10
        DEF TypeInv, TypeOK, StartRoom, deployVars, moneyVars

LEMMA ActiveRound ==
  ASSUME TypeInv, NEW r \in Rooms, room[r].status = "Active"
  PROVE  /\ room[r].round \in Rounds /\ Deadline(r) \in Nat
         /\ room[r].round <= room[r].member_count
<1>1. room[r].round >= 1 /\ room[r].round <= room[r].member_count /\ room[r].member_count <= MAX_MEMBERS
      /\ room[r].round \in Nat /\ room[r].member_count \in Nat
  BY DEF TypeInv, TypeOK, RoundsBounded, RoomRecord
<1>2. room[r].round \in Rounds
  BY <1>1, TimingAssumption DEF Rounds
<1>3. Deadline(r) \in Nat
  BY <1>2 DEF TypeInv, TypeOK, Deadline
<1> QED BY <1>1, <1>2, <1>3

LEMMA CommitDrawType ==
  ASSUME TypeInv, NEW r \in Rooms, NEW m \in Accounts,
         NEW hash \in CommitInputs(r, m), CommitDraw(r, m, hash)
  PROVE  TypeInv'
<1>1. room[r].round \in Rounds
  BY ActiveRound DEF CommitDraw, Eligible
<1>2. hash \in Hashes
  BY <1>1 DEF CommitInputs, PublishedHashes, CommitmentHash, Hashes, TypeInv, TypeOK
<1>3. commitment' \in [Rooms -> [Rounds -> [Accounts -> Hashes \cup {None}]]]
  BY <1>1, <1>2 DEF CommitDraw, TypeInv, TypeOK
<1>4. commitCount' \in [Rooms -> [Rounds -> Nat]]
  BY <1>1 DEF CommitDraw, TypeInv, TypeOK
<1> QED BY <1>3, <1>4
        DEF TypeInv, TypeOK, RoundsBounded, CommitDraw, deployVars, roomVars, moneyVars

LEMMA RevealDrawType ==
  ASSUME TypeInv, NEW r \in Rooms, NEW m \in Accounts, NEW secret \in Secrets,
         RevealDraw(r, m, secret)
  PROVE  TypeInv'
<1>1. room[r].round \in Rounds
  BY ActiveRound DEF RevealDraw, Eligible
<1>2. reveal' \in [Rooms -> [Rounds -> [Accounts -> Secrets \cup {None}]]]
  BY <1>1 DEF RevealDraw, TypeInv, TypeOK
<1> QED BY <1>2
        DEF TypeInv, TypeOK, RoundsBounded, RevealDraw, deployVars, roomVars, moneyVars

LEMMA PostponeKocokType ==
  ASSUME TypeInv, NEW r \in Rooms, NEW caller \in Accounts, NEW delay \in Delays,
         PostponeKocok(r, caller, delay)
  PROVE  TypeInv'
<1>1. room[r].round \in Rounds /\ delay \in Nat
  BY ActiveRound, InputAssumption DEF PostponeKocok
<1>2. kocokAt' \in [Rooms -> [Rounds -> Nat]]
  BY <1>1 DEF PostponeKocok, TypeInv, TypeOK
<1>3. postponed' \in [Rooms -> SUBSET Rounds]
  BY <1>1 DEF PostponeKocok, TypeInv, TypeOK
<1> QED BY <1>2, <1>3
        DEF TypeInv, TypeOK, RoundsBounded, PostponeKocok, deployVars, roomVars,
            moneyVars

LEMMA FinalizeDrawType ==
  ASSUME TypeInv, NEW r \in Rooms, NEW caller \in Accounts, FinalizeDraw(r, caller)
  PROVE  TypeInv'
<1> DEFINE n == room[r].round
           pot == Pot(r)
           next == NextKocok(r)
<1>1. /\ room \in [Rooms -> RoomRecord] /\ kocokAt \in [Rooms -> [Rounds -> Nat]]
      /\ members \in [Rooms -> SUBSET Accounts]
  BY DEF TypeInv, TypeOK
<1>2. /\ n \in Rounds /\ n \in Nat /\ n <= room[r].member_count
      /\ room[r].member_count <= MAX_MEMBERS /\ MAX_MEMBERS \in Nat
      /\ room[r].member_count \in Nat
  <2>1. room[r].status = "Active"
    BY DEF FinalizeDraw
  <2>2. room[r].member_count \in Nat
    BY <1>1 DEF RoomRecord
  <2>3. n \in Rounds /\ n <= room[r].member_count
    BY <2>1, ActiveRound
  <2>4. room[r].member_count <= MAX_MEMBERS
    BY <2>1 DEF TypeInv, RoundsBounded
  <2> HIDE DEF n
  <2>5. n \in Nat
    BY <2>3 DEF Rounds
  <2> QED BY <2>2, <2>3, <2>4, <2>5, TimingAssumption
<1>3. pot \in Nat
  BY <1>1, ProductType DEF Pot, RoomRecord
<1>4. next \in Nat
  <2>1. Deadline(r) \in Nat
    BY ActiveRound DEF FinalizeDraw
  <2>2. Interval(r) \in Nat
    BY <1>1, TimingAssumption DEF Interval, TypeInv, TypeOK, ScheduleRecord, RoomRecord
  <2> QED BY <2>1, <2>2 DEF NextKocok
<1>5. PICK w \in DrawPool(r) :
        /\ PayOut(w, pot)
        /\ won' = [won EXCEPT ![r] = WonAfter(r, w)]
        /\ winner' = [winner EXCEPT ![r][n] = w]
  BY DEF FinalizeDraw
<1>6. w \in Accounts
  BY <1>1 DEF DrawPool, Revealers
<1>7. wallet' \in [Accounts -> Nat] /\ vault' \in Nat
  BY <1>3, <1>5, <1>6 DEF PayOut, TypeInv, TypeOK
<1>8. /\ won' \in [Rooms -> SUBSET Accounts]
      /\ winner' \in [Rooms -> [Rounds -> Accounts \cup {None}]]
  BY <1>2, <1>5, <1>6 DEF WonAfter, TypeInv, TypeOK
<1>9. roomPool' \in [Rooms -> Nat]
  <2>1. /\ installment[r] => roomPool[r] >= pot
        /\ roomPool' = [roomPool EXCEPT ![r] =
                          IF installment[r] THEN @ - pot ELSE @]
    BY DEF FinalizeDraw
  <2> HIDE DEF pot
  <2> QED BY <1>3, <2>1 DEF TypeInv, TypeOK
<1>10. /\ room' \in [Rooms -> RoomRecord] /\ RoundsBounded'
       /\ kocokAt' \in [Rooms -> [Rounds -> Nat]]
  <2>1. n + 1 \in 0..(MAX_MEMBERS + 1) /\ NextRound(r) = n + 1
    BY <1>2 DEF NextRound
  <2>2. CASE LastRound(r)
    <3>1. room' = [room EXCEPT ![r].status = "Done", ![r].round = n + 1]
      BY <2>1, <2>2 DEF FinalizeDraw
    <3>2. kocokAt' = kocokAt
      BY <2>2 DEF FinalizeDraw
    <3> QED BY <1>1, <2>1, <3>1, <3>2, DoneRoomType DEF FinalizeDraw
  <2>3. CASE ~LastRound(r)
    <3>1. room' = [room EXCEPT ![r].round = n + 1]
      BY <2>1, <2>3 DEF FinalizeDraw
    <3>2. kocokAt' = [kocokAt EXCEPT ![r][n + 1] = next]
      BY <2>3 DEF FinalizeDraw
    <3>3. n + 1 <= room[r].member_count /\ n + 1 \in Rounds
      BY <1>2, <2>3 DEF LastRound, Rounds
    <3> HIDE DEF n, next
    <3>4. kocokAt' \in [Rooms -> [Rounds -> Nat]]
      BY <1>1, <1>4, <3>2, <3>3
    <3>5. room' \in [Rooms -> RoomRecord]
      BY <1>1, <2>1, <3>1 DEF RoomRecord
    <3>6. \A p \in Rooms : /\ room'[p].member_target = room[p].member_target
                           /\ room'[p].member_count = room[p].member_count
                           /\ room'[p].status = room[p].status
                           /\ p # r => room'[p] = room[p]
      BY <1>1, <3>1 DEF RoomRecord
    <3>7. room'[r].round = n + 1
      BY <1>1, <3>1 DEF RoomRecord
    <3>8. RoundsBounded'
      BY <1>2, <3>3, <3>6, <3>7 DEF RoundsBounded, TypeInv, Rounds
    <3> QED BY <3>4, <3>5, <3>8
  <2> QED BY <2>2, <2>3
<1> QED BY <1>7, <1>8, <1>9, <1>10
        DEF TypeInv, TypeOK, FinalizeDraw, deployVars

LEMMA EmergencyDissolveType ==
  ASSUME TypeInv, NEW r \in Rooms, NEW caller \in Accounts,
         EmergencyDissolve(r, caller)
  PROVE  TypeInv'
<1> DEFINE pot == Pot(r)
           total == pot * Cardinality(Unpaid(r))
<1>1. room \in [Rooms -> RoomRecord]
  BY DEF TypeInv, TypeOK
<1>2. pot \in Nat
  BY <1>1, ProductType DEF Pot, RoomRecord
<1>3. Cardinality(Unpaid(r)) \in Nat
  BY RosterFinite, FS_Subset, FS_CardinalityType DEF Unpaid, TypeInv
<1>4. total \in Nat
  <2> HIDE DEF pot
  <2> QED BY <1>2, <1>3, ProductType
<1>5. /\ vault >= total /\ (installment[r] => roomPool[r] >= total)
      /\ wallet' = [a \in Accounts |->
                      IF a \in Unpaid(r) THEN wallet[a] + pot ELSE wallet[a]]
      /\ vault' = vault - total
      /\ roomPool' = [roomPool EXCEPT ![r] =
                        IF installment[r] THEN @ - total ELSE @]
  BY DEF EmergencyDissolve
<1>6. /\ wallet' \in [Accounts -> Nat] /\ vault' \in Nat
      /\ roomPool' \in [Rooms -> Nat]
  <2> HIDE DEF pot, total
  <2> QED BY <1>2, <1>4, <1>5 DEF TypeInv, TypeOK
<1>7. room' \in [Rooms -> RoomRecord] /\ RoundsBounded'
  BY DissolvedRoomType DEF EmergencyDissolve
<1> QED BY <1>6, <1>7
        DEF TypeInv, TypeOK, EmergencyDissolve, deployVars, drawVars

LEMMA ClockAndDeployType ==
  ASSUME TypeInv, Tick \/ Initialize \/ InitializeScheduled \/ UNCHANGED vars
  PROVE  TypeInv'
<1>1. now' \in 0..MaxTime
  BY BoundsAssumption
     DEF TypeInv, TypeOK, Tick, Initialize, InitializeScheduled, vars
<1>2. initialized' \in BOOLEAN
  BY Zenon DEF TypeInv, TypeOK, Tick, Initialize, InitializeScheduled, vars, deployVars
<1>3. scheduledOnly' \in BOOLEAN
  BY Zenon DEF TypeInv, TypeOK, Tick, Initialize, InitializeScheduled, vars, deployVars
<1>4. UNCHANGED <<roomVars, moneyVars, drawVars>>
  BY Zenon DEF Tick, Initialize, InitializeScheduled, vars
<1> QED BY <1>1, <1>2, <1>3, <1>4
        DEF TypeInv, TypeOK, RoundsBounded, roomVars, moneyVars, drawVars

LEMMA TypeStep == TypeInv /\ [Next]_vars => TypeInv'
<1> SUFFICES ASSUME TypeInv, [Next]_vars PROVE TypeInv'
  OBVIOUS
<1>1. \A h \in Accounts, code \in Codes :
        /\ \A t \in LegacyTerms : CreateRoom(h, code, t) => TypeInv'
        /\ \A t \in InstallmentTerms : CreateInstallmentRoom(h, code, t) => TypeInv'
        /\ \A t \in ScheduledTerms : CreateScheduledRoom(h, code, t) => TypeInv'
  BY CreateRoomType, CreateInstallmentRoomType, CreateScheduledRoomType
<1>2. \A r \in Rooms, a \in Accounts :
        /\ \A amount \in Amounts : DepositRoom(r, a, amount) => TypeInv'
        /\ \A code \in Codes : JoinRoom(r, code, a) => TypeInv'
        /\ LeaveRoom(r, a) => TypeInv'
        /\ StartRoom(r, a) => TypeInv'
        /\ CancelRoom(r, a) => TypeInv'
        /\ \A hash \in CommitInputs(r, a) : CommitDraw(r, a, hash) => TypeInv'
        /\ \A secret \in Secrets : RevealDraw(r, a, secret) => TypeInv'
        /\ FinalizeDraw(r, a) => TypeInv'
        /\ \A delay \in Delays : PostponeKocok(r, a, delay) => TypeInv'
        /\ EmergencyDissolve(r, a) => TypeInv'
  BY DepositRoomType, JoinRoomType, LeaveRoomType, StartRoomType, CancelRoomType,
     CommitDrawType, RevealDrawType, FinalizeDrawType, PostponeKocokType,
     EmergencyDissolveType
<1>3. /\ UNCHANGED vars => TypeInv'
      /\ Tick => TypeInv'
      /\ Initialize => TypeInv'
      /\ InitializeScheduled => TypeInv'
  BY ClockAndDeployType
<1> QED BY <1>1, <1>2, <1>3, NextCases, Zenon

\* Whatever the callers do, every storage entry keeps its shape: no balance,
\* lock or pool goes below zero, and no round runs past the last seat.
THEOREM TypeCorrect == Spec => []TypeOK
<1>1. TypeInv => TypeOK
  BY DEF TypeInv
<1> QED BY <1>1, TypeInit, TypeStep, PTL DEF Spec

-----------------------------------------------------------------------------
(* The commit-reveal draw: revealed secrets are bound to their member,     *)
(* room and round, commitments close before the first reveal, and they     *)
(* hold their round's deadline in place.                                   *)

\* Rooms get consecutive ids, so the next id's storage is still empty.
RoomsInOrder ==
  \A r \in Rooms : r > roomCount => room[r].status = "Missing"

Unstarted == {"Missing", "Open"}

\* Commitments exist for the rounds a started room has reached, and are
\* counted; reveals open them, and those of the current round lie after its
\* deadline.
DrawAt(r, n, m) ==
  /\ commitment[r][n][m] # None =>
       /\ commitCount[r][n] > 0
       /\ room[r].status \notin Unstarted /\ n <= room[r].round
  /\ reveal[r][n][m] # None =>
       /\ commitment[r][n][m] = CommitmentHash(r, n, m, reveal[r][n][m])
       /\ (room[r].status = "Active" /\ n = room[r].round) => now >= kocokAt[r][n]

DrawHistory ==
  \A r \in Rooms, n \in Rounds, m \in Accounts : DrawAt(r, n, m)

DrawInv == TypeInv /\ RoomsInOrder /\ DrawHistory

-----------------------------------------------------------------------------
(* Most entry points leave the draws alone.                                *)

Quiet ==
  /\ UNCHANGED <<kocokAt, postponed, commitment, reveal, commitCount>>
  /\ now' >= now
  /\ \A r \in Rooms : room[r].status \notin Unstarted =>
       /\ room'[r].round = room[r].round
       /\ room'[r].status \notin Unstarted
       /\ room'[r].status = "Active" => room[r].status = "Active"

\* One alternative per kind of draw step; every other step is quiet.
DrawKinds ==
  \/ Quiet
  \/ \E r \in Rooms, a \in Accounts :
       \/ StartRoom(r, a)
       \/ \E hash \in Hashes : CommitDraw(r, a, hash)
       \/ \E secret \in Secrets : RevealDraw(r, a, secret)
       \/ FinalizeDraw(r, a)
       \/ \E delay \in Delays : PostponeKocok(r, a, delay)

LEMMA HashInputs ==
  ASSUME TypeInv, NEW r \in Rooms, NEW m \in Accounts,
         NEW hash \in CommitInputs(r, m), CommitDraw(r, m, hash)
  PROVE  hash \in Hashes
<1>1. room[r].round \in Rounds
  BY ActiveRound DEF CommitDraw, Eligible
<1> QED BY <1>1 DEF CommitInputs, PublishedHashes, CommitmentHash, Hashes, TypeInv, TypeOK

LEMMA SeatHostQuiet ==
  ASSUME TypeInv, RoomsInOrder, NEW record, SeatHost(record),
         record.status = "Open"
  PROVE  /\ RoomsInOrder'
         /\ \A r \in Rooms : room[r].status \notin Unstarted => room'[r] = room[r]
<1>1. /\ room' = [room EXCEPT ![roomCount + 1] = record]
      /\ roomCount' = roomCount + 1 /\ roomCount \in Nat
      /\ room \in [Rooms -> RoomRecord]
  BY DEF SeatHost, TypeInv, TypeOK
<1>2. \A r \in Rooms : r # roomCount + 1 => room'[r] = room[r]
  BY <1>1
<1>3. \A r \in Rooms : r = roomCount + 1 => room[r].status = "Missing"
  BY <1>1 DEF RoomsInOrder, Rooms
<1>4. RoomsInOrder'
  BY <1>1, <1>2 DEF RoomsInOrder, Rooms
<1> QED BY <1>2, <1>3, <1>4 DEF Unstarted

LEMMA CreateQuiet ==
  ASSUME TypeInv, RoomsInOrder, NEW h \in Accounts, NEW code \in Codes,
         \/ \E t \in LegacyTerms : CreateRoom(h, code, t)
         \/ \E t \in InstallmentTerms : CreateInstallmentRoom(h, code, t)
         \/ \E t \in ScheduledTerms : CreateScheduledRoom(h, code, t)
  PROVE  Quiet /\ RoomsInOrder'
<1>1. \E record : SeatHost(record) /\ record.status = "Open"
  <2>1. \A t, cadence, first, deadline :
          NewRoom(h, code, t, cadence, first, deadline).status = "Open"
    BY DEF NewRoom
  <2>2. \E t, cadence, first, deadline :
          SeatHost(NewRoom(h, code, t, cadence, first, deadline))
    BY Zenon DEF CreateRoom, CreateInstallmentRoom, CreateScheduledRoom
  <2> QED BY <2>1, <2>2
<1>2. UNCHANGED <<now, drawVars>>
  BY Zenon DEF CreateRoom, CreateInstallmentRoom, CreateScheduledRoom
<1>3. /\ RoomsInOrder'
      /\ \A r \in Rooms : room[r].status \notin Unstarted => room'[r] = room[r]
  BY <1>1, SeatHostQuiet
<1> QED BY <1>2, <1>3 DEF Quiet, drawVars, TypeInv, TypeOK

\* Apart from creation, no entry point gives an unused id a room.
LEMMA OrderKept ==
  ASSUME TypeInv, RoomsInOrder, NEW r \in Rooms, room[r].status # "Missing",
         roomCount' = roomCount, \A p \in Rooms \ {r} : room'[p] = room[p]
  PROVE  RoomsInOrder'
BY DEF RoomsInOrder

LEMMA RoomQuiet ==
  ASSUME TypeInv, RoomsInOrder, NEW r \in Rooms, NEW a \in Accounts,
         \/ \E amount \in Amounts : DepositRoom(r, a, amount)
         \/ \E code \in Codes : JoinRoom(r, code, a)
         \/ LeaveRoom(r, a)
         \/ CancelRoom(r, a)
         \/ EmergencyDissolve(r, a)
  PROVE  Quiet /\ RoomsInOrder'
<1>1. /\ UNCHANGED <<now, roomCount, kocokAt, postponed, commitment, reveal, commitCount>>
      /\ now \in Nat /\ room \in [Rooms -> RoomRecord]
  BY DEF DepositRoom, JoinRoom, LeaveRoom, CancelRoom, EmergencyDissolve,
     drawVars, roomVars, TypeInv, TypeOK
<1>2. /\ \A p \in Rooms \ {r} : room'[p] = room[p]
      /\ room[r].status # "Missing"
  BY <1>1 DEF DepositRoom, JoinRoom, LeaveRoom, CancelRoom, EmergencyDissolve, roomVars
<1>3. \/ room[r].status = "Open"
      \/ room'[r].round = room[r].round /\ room'[r].status = "Dissolved"
  BY <1>1 DEF DepositRoom, JoinRoom, LeaveRoom, CancelRoom, EmergencyDissolve, RoomRecord
<1>4. RoomsInOrder'
  BY <1>1, <1>2, OrderKept
<1> QED BY <1>1, <1>2, <1>3, <1>4 DEF Quiet, Unstarted

LEMMA ClockQuiet ==
  ASSUME TypeInv, RoomsInOrder,
         Tick \/ Initialize \/ InitializeScheduled \/ UNCHANGED vars
  PROVE  Quiet /\ RoomsInOrder'
<1>1. UNCHANGED <<roomVars, drawVars>>
  BY Zenon DEF Tick, Initialize, InitializeScheduled, vars
<1>2. now' >= now
  BY DEF Tick, Initialize, InitializeScheduled, vars, TypeInv, TypeOK
<1> QED BY <1>1, <1>2 DEF Quiet, RoomsInOrder, roomVars, drawVars

\* Every step of the system is quiet or one of the draw steps.
LEMMA StepKinds ==
  ASSUME TypeInv, RoomsInOrder, [Next]_vars
  PROVE  DrawKinds
<1>1. \A h \in Accounts, code \in Codes :
        /\ \A t \in LegacyTerms : CreateRoom(h, code, t) => DrawKinds
        /\ \A t \in InstallmentTerms : CreateInstallmentRoom(h, code, t) => DrawKinds
        /\ \A t \in ScheduledTerms : CreateScheduledRoom(h, code, t) => DrawKinds
  BY CreateQuiet DEF DrawKinds
<1>2. ASSUME NEW r \in Rooms, NEW a \in Accounts
      PROVE  /\ \A amount \in Amounts : DepositRoom(r, a, amount) => DrawKinds
             /\ \A code \in Codes : JoinRoom(r, code, a) => DrawKinds
             /\ LeaveRoom(r, a) => DrawKinds
             /\ StartRoom(r, a) => DrawKinds
             /\ CancelRoom(r, a) => DrawKinds
             /\ \A hash \in CommitInputs(r, a) : CommitDraw(r, a, hash) => DrawKinds
             /\ \A secret \in Secrets : RevealDraw(r, a, secret) => DrawKinds
             /\ FinalizeDraw(r, a) => DrawKinds
             /\ \A delay \in Delays : PostponeKocok(r, a, delay) => DrawKinds
             /\ EmergencyDissolve(r, a) => DrawKinds
  <2>1. \A hash \in CommitInputs(r, a) : CommitDraw(r, a, hash) => hash \in Hashes
    BY HashInputs
  <2>2. /\ \A amount \in Amounts : DepositRoom(r, a, amount) => Quiet
        /\ \A code \in Codes : JoinRoom(r, code, a) => Quiet
        /\ LeaveRoom(r, a) => Quiet
        /\ CancelRoom(r, a) => Quiet
        /\ EmergencyDissolve(r, a) => Quiet
    BY RoomQuiet
  <2> QED BY <2>1, <2>2, Zenon DEF DrawKinds
<1>3. /\ UNCHANGED vars => DrawKinds
      /\ Tick => DrawKinds
      /\ Initialize => DrawKinds
      /\ InitializeScheduled => DrawKinds
  BY ClockQuiet DEF DrawKinds
<1> QED BY <1>1, <1>2, <1>3, NextCases, Zenon

LEMMA DrawOrderKept ==
  ASSUME TypeInv, RoomsInOrder, NEW r \in Rooms, NEW a \in Accounts,
         \/ StartRoom(r, a)
         \/ \E hash \in Hashes : CommitDraw(r, a, hash)
         \/ \E secret \in Secrets : RevealDraw(r, a, secret)
         \/ FinalizeDraw(r, a)
         \/ \E delay \in Delays : PostponeKocok(r, a, delay)
  PROVE  RoomsInOrder'
<1>1. roomCount' = roomCount
  BY DEF StartRoom, CommitDraw, RevealDraw, FinalizeDraw, PostponeKocok, roomVars
<1>2. room[r].status # "Missing"
  BY DEF StartRoom, CommitDraw, RevealDraw, FinalizeDraw, PostponeKocok, Eligible
<1>3. room \in [Rooms -> RoomRecord]
  BY DEF TypeInv, TypeOK
<1>4. \A p \in Rooms \ {r} : room'[p] = room[p]
  <2>1. CASE StartRoom(r, a)
    BY <1>3, <2>1 DEF StartRoom
  <2>2. CASE FinalizeDraw(r, a)
    BY <1>3, <2>2 DEF FinalizeDraw
  <2>3. CASE UNCHANGED room
    BY <2>3
  <2> QED BY <2>1, <2>2, <2>3 DEF CommitDraw, RevealDraw, PostponeKocok, roomVars
<1> QED BY <1>1, <1>2, <1>4, OrderKept

LEMMA OrderStep ==
  ASSUME TypeInv, RoomsInOrder, [Next]_vars
  PROVE  RoomsInOrder'
<1>1. \A h \in Accounts, code \in Codes :
        /\ \A t \in LegacyTerms : CreateRoom(h, code, t) => RoomsInOrder'
        /\ \A t \in InstallmentTerms :
             CreateInstallmentRoom(h, code, t) => RoomsInOrder'
        /\ \A t \in ScheduledTerms : CreateScheduledRoom(h, code, t) => RoomsInOrder'
  BY CreateQuiet
<1>2. ASSUME NEW r \in Rooms, NEW a \in Accounts
      PROVE  /\ \A amount \in Amounts : DepositRoom(r, a, amount) => RoomsInOrder'
             /\ \A code \in Codes : JoinRoom(r, code, a) => RoomsInOrder'
             /\ LeaveRoom(r, a) => RoomsInOrder'
             /\ StartRoom(r, a) => RoomsInOrder'
             /\ CancelRoom(r, a) => RoomsInOrder'
             /\ \A hash \in CommitInputs(r, a) :
                  CommitDraw(r, a, hash) => RoomsInOrder'
             /\ \A secret \in Secrets : RevealDraw(r, a, secret) => RoomsInOrder'
             /\ FinalizeDraw(r, a) => RoomsInOrder'
             /\ \A delay \in Delays : PostponeKocok(r, a, delay) => RoomsInOrder'
             /\ EmergencyDissolve(r, a) => RoomsInOrder'
  <2>1. \A hash \in CommitInputs(r, a) : CommitDraw(r, a, hash) => hash \in Hashes
    BY HashInputs
  <2> QED BY <2>1, RoomQuiet, DrawOrderKept
<1>3. /\ UNCHANGED vars => RoomsInOrder'
      /\ Tick => RoomsInOrder'
      /\ Initialize => RoomsInOrder'
      /\ InitializeScheduled => RoomsInOrder'
  BY ClockQuiet
<1> QED BY <1>1, <1>2, <1>3, NextCases, Zenon

\* A revealed secret's commitment is there.
LEMMA RevealImpliesCommitment ==
  ASSUME TypeInv, NEW r \in Rooms, NEW n \in Rounds, NEW m \in Accounts,
         reveal[r][n][m] # None,
         commitment[r][n][m] = CommitmentHash(r, n, m, reveal[r][n][m])
  PROVE  commitment[r][n][m] # None
<1>1. reveal[r][n][m] \in Secrets
  BY DEF TypeInv, TypeOK
<1>2. CommitmentHash(r, n, m, reveal[r][n][m]) \in Hashes
  BY <1>1 DEF CommitmentHash, Hashes
<1> QED BY <1>2, BoundsAssumption

-----------------------------------------------------------------------------
(* The invariant.                                                          *)

LEMMA DrawInit == Init => DrawInv
<1> SUFFICES ASSUME Init PROVE DrawInv
  OBVIOUS
<1>1. RoomsInOrder
  BY DEF Init, RoomsInOrder, NoRoom
<1>2. DrawHistory
  BY DEF Init, DrawHistory, DrawAt
<1> QED BY <1>1, <1>2, TypeInit DEF DrawInv

LEMMA QuietDraws ==
  ASSUME DrawInv, Quiet, TypeInv',
         NEW r \in Rooms, NEW n \in Rounds, NEW m \in Accounts
  PROVE  DrawAt(r, n, m)'
<1>1. DrawAt(r, n, m)
  BY DEF DrawInv, DrawHistory
<1>2. reveal[r][n][m] # None => commitment[r][n][m] # None
  BY <1>1, RevealImpliesCommitment DEF DrawAt, DrawInv
<1>3. now \in Nat /\ now' \in Nat /\ kocokAt[r][n] \in Nat
  BY DEF DrawInv, TypeInv, TypeOK
<1> QED BY <1>1, <1>2, <1>3 DEF Quiet, DrawAt

\* A room that starts has no commitments yet.
LEMMA StartDraws ==
  ASSUME DrawInv, NEW p \in Rooms, NEW a \in Accounts, StartRoom(p, a),
         NEW r \in Rooms, NEW n \in Rounds, NEW m \in Accounts
  PROVE  DrawAt(r, n, m)'
<1>1. DrawAt(r, n, m) /\ room \in [Rooms -> RoomRecord]
  BY DEF DrawInv, DrawHistory, TypeInv, TypeOK
<1>2. UNCHANGED <<now, commitment, reveal, commitCount>>
  BY DEF StartRoom
<1>3. reveal[r][n][m] # None => commitment[r][n][m] # None
  BY <1>1, RevealImpliesCommitment DEF DrawAt, DrawInv
<1>4. CASE r = p
  BY <1>1, <1>2, <1>3, <1>4 DEF DrawAt, StartRoom, Unstarted
<1>5. CASE r # p
  <2>1. room'[r] = room[r] /\ kocokAt'[r] = kocokAt[r]
    BY <1>1, <1>5 DEF StartRoom, DrawInv, TypeInv, TypeOK
  <2> QED BY <1>1, <1>2, <2>1 DEF DrawAt
<1> QED BY <1>4, <1>5

LEMMA CommitDraws ==
  ASSUME DrawInv, NEW p \in Rooms, NEW a \in Accounts, NEW hash \in Hashes,
         CommitDraw(p, a, hash),
         NEW r \in Rooms, NEW n \in Rounds, NEW m \in Accounts
  PROVE  DrawAt(r, n, m)'
<1>1. DrawAt(r, n, m)
  BY DEF DrawInv, DrawHistory
<1>2. UNCHANGED <<now, room, kocokAt, reveal>>
  BY DEF CommitDraw, roomVars
<1>3. /\ commitment' = [commitment EXCEPT ![p][room[p].round][a] = hash]
      /\ commitCount' = [commitCount EXCEPT ![p][room[p].round] = @ + 1]
      /\ commitment[p][room[p].round][a] = None
      /\ room[p].status = "Active"
  BY DEF CommitDraw, Eligible
<1>4. room[p].round \in Rounds
  BY <1>3, ActiveRound DEF DrawInv
<1>5. /\ commitment \in [Rooms -> [Rounds -> [Accounts -> Hashes \cup {None}]]]
      /\ commitCount \in [Rooms -> [Rounds -> Nat]]
  BY DEF DrawInv, TypeInv, TypeOK
<1>6. /\ commitCount'[r][n] >= commitCount[r][n] /\ commitCount[r][n] \in Nat
      /\ commitCount'[r][n] \in Nat
      /\ (r = p /\ n = room[p].round) => commitCount'[r][n] > 0
  BY <1>3, <1>4, <1>5
<1>7. CASE r = p /\ n = room[p].round /\ m = a
  <2>1. reveal[r][n][m] = None
    BY <1>1, <1>3, <1>7, RevealImpliesCommitment DEF DrawAt, DrawInv
  <2> QED BY <1>2, <1>3, <1>4, <1>6, <1>7, <2>1 DEF DrawAt, Unstarted, Rounds
<1>8. CASE ~(r = p /\ n = room[p].round /\ m = a)
  <2>1. commitment'[r][n][m] = commitment[r][n][m]
    BY <1>3, <1>4, <1>5, <1>8
  <2> QED BY <1>1, <1>2, <1>5, <1>6, <2>1 DEF DrawAt
<1> QED BY <1>7, <1>8

LEMMA RevealDraws ==
  ASSUME DrawInv, NEW p \in Rooms, NEW a \in Accounts, NEW secret \in Secrets,
         RevealDraw(p, a, secret),
         NEW r \in Rooms, NEW n \in Rounds, NEW m \in Accounts
  PROVE  DrawAt(r, n, m)'
<1>1. DrawAt(r, n, m)
  BY DEF DrawInv, DrawHistory
<1>2. UNCHANGED <<now, room, kocokAt, commitment, commitCount>>
  BY DEF RevealDraw, roomVars
<1>3. /\ reveal' = [reveal EXCEPT ![p][room[p].round][a] = secret]
      /\ commitment[p][room[p].round][a]
           = CommitmentHash(p, room[p].round, a, secret)
      /\ room[p].status = "Active" /\ DrawPhase(p) = "Reveal"
  BY DEF RevealDraw, Eligible, Opens
<1>4. room[p].round \in Rounds /\ Deadline(p) \in Nat /\ now \in Nat
  BY <1>3, ActiveRound DEF DrawInv, TypeInv, TypeOK
<1>5. now >= kocokAt[p][room[p].round]
  BY <1>3, <1>4 DEF DrawPhase, Deadline
<1>6. reveal \in [Rooms -> [Rounds -> [Accounts -> Secrets \cup {None}]]]
  BY DEF DrawInv, TypeInv, TypeOK
<1>7. CASE r = p /\ n = room[p].round /\ m = a
  <2>1. reveal'[r][n][m] = secret
    BY <1>3, <1>4, <1>6, <1>7
  <2> QED BY <1>1, <1>2, <1>3, <1>5, <1>7, <2>1 DEF DrawAt
<1>8. CASE ~(r = p /\ n = room[p].round /\ m = a)
  <2>1. reveal'[r][n][m] = reveal[r][n][m]
    BY <1>3, <1>4, <1>6, <1>8
  <2> QED BY <1>1, <1>2, <2>1 DEF DrawAt
<1> QED BY <1>7, <1>8

\* The round a finalization opens has no commitments yet.
LEMMA FinalizeDraws ==
  ASSUME DrawInv, NEW p \in Rooms, NEW a \in Accounts, FinalizeDraw(p, a),
         NEW r \in Rooms, NEW n \in Rounds, NEW m \in Accounts
  PROVE  DrawAt(r, n, m)'
<1>1. DrawAt(r, n, m)
  BY DEF DrawInv, DrawHistory
<1>2. UNCHANGED <<now, commitment, reveal, commitCount>>
  BY DEF FinalizeDraw
<1>3. /\ room \in [Rooms -> RoomRecord] /\ room[p].status = "Active"
      /\ room[p].round \in Nat
  BY DEF DrawInv, TypeInv, TypeOK, FinalizeDraw, RoomRecord
<1>4. reveal[r][n][m] # None => commitment[r][n][m] # None
  BY <1>1, RevealImpliesCommitment DEF DrawAt, DrawInv
<1>5. CASE r = p
  <2>1. room'[p].round = room[p].round + 1 /\ room'[p].status \in {"Active", "Done"}
    BY <1>3 DEF FinalizeDraw, NextRound, RoomRecord
  <2>2. n \in Nat
    BY TimingAssumption DEF Rounds
  <2> QED BY <1>1, <1>2, <1>3, <1>4, <1>5, <2>1, <2>2 DEF DrawAt, Unstarted
<1>6. CASE r # p
  <2>1. room'[r] = room[r]
    BY <1>3, <1>6 DEF FinalizeDraw
  <2>2. kocokAt'[r] = kocokAt[r]
    BY <1>6 DEF FinalizeDraw, DrawInv, TypeInv, TypeOK
  <2> QED BY <1>1, <1>2, <2>1, <2>2 DEF DrawAt
<1> QED BY <1>5, <1>6

\* A deadline moves only while its round has no commitments.
LEMMA PostponeDraws ==
  ASSUME DrawInv, NEW p \in Rooms, NEW a \in Accounts, NEW delay \in Delays,
         PostponeKocok(p, a, delay),
         NEW r \in Rooms, NEW n \in Rounds, NEW m \in Accounts
  PROVE  DrawAt(r, n, m)'
<1>1. DrawAt(r, n, m)
  BY DEF DrawInv, DrawHistory
<1>2. UNCHANGED <<now, room, commitment, reveal, commitCount>>
  BY DEF PostponeKocok, roomVars
<1>3. reveal[r][n][m] # None => commitment[r][n][m] # None
  BY <1>1, RevealImpliesCommitment DEF DrawAt, DrawInv
<1>4. CASE r = p /\ n = room[p].round
  BY <1>1, <1>2, <1>3, <1>4 DEF DrawAt, PostponeKocok, CommitStarted
<1>5. CASE ~(r = p /\ n = room[p].round)
  <2>1. kocokAt'[r][n] = kocokAt[r][n]
    BY <1>5 DEF PostponeKocok, DrawInv, TypeInv, TypeOK
  <2> QED BY <1>1, <1>2, <2>1 DEF DrawAt
<1> QED BY <1>4, <1>5

LEMMA DrawStepInv == DrawInv /\ [Next]_vars => DrawInv'
<1> SUFFICES ASSUME DrawInv, [Next]_vars PROVE DrawInv'
  OBVIOUS
<1>1. TypeInv'
  BY TypeStep DEF DrawInv
<1>2. DrawKinds
  BY StepKinds DEF DrawInv
<1>3. RoomsInOrder'
  BY OrderStep DEF DrawInv
<1>4. DrawHistory'
  BY <1>1, <1>2, QuietDraws, StartDraws, CommitDraws, RevealDraws, FinalizeDraws,
     PostponeDraws DEF DrawKinds, DrawHistory
<1> QED BY <1>1, <1>3, <1>4 DEF DrawInv

LEMMA DrawInvHolds == Spec => []DrawInv
BY DrawInit, DrawStepInv, PTL DEF Spec

\* Whatever values members copy from one another, from other rooms or from
\* earlier rounds, a secret is only ever revealed against the commitment its
\* own member made for that room and round.
THEOREM RevealsAreBound == Spec => []RevealsBound
<1>1. DrawInv => RevealsBound
  BY DEF DrawInv, DrawHistory, DrawAt, RevealsBound
<1> QED BY <1>1, DrawInvHolds, PTL

\* No step changes the deadline of a round that has a commitment.
LEMMA DeadlineStep ==
  ASSUME DrawInv, [Next]_vars, NEW r \in Rooms, NEW n \in Rounds,
         NEW m \in Accounts, commitment[r][n][m] # None
  PROVE  kocokAt'[r][n] = kocokAt[r][n]
<1>1. /\ commitCount[r][n] > 0 /\ room[r].status \notin Unstarted
      /\ n <= room[r].round
  BY DEF DrawInv, DrawHistory, DrawAt
<1>2. kocokAt \in [Rooms -> [Rounds -> Nat]] /\ n \in Nat
  <2>1. kocokAt \in [Rooms -> [Rounds -> Nat]]
    BY DEF DrawInv, TypeInv, TypeOK
  <2>2. n \in Nat
    BY TimingAssumption DEF Rounds
  <2> QED BY <2>1, <2>2
<1>3. ASSUME NEW p \in Rooms, NEW a \in Accounts, StartRoom(p, a)
      PROVE  kocokAt'[r][n] = kocokAt[r][n]
  BY <1>1, <1>2, <1>3 DEF StartRoom, Unstarted
<1>4. ASSUME NEW p \in Rooms, NEW a \in Accounts, FinalizeDraw(p, a)
      PROVE  kocokAt'[r][n] = kocokAt[r][n]
  <2>1. room[p].round \in Nat
    BY DEF DrawInv, TypeInv, TypeOK, RoomRecord
  <2> QED BY <1>1, <1>2, <1>4, <2>1 DEF FinalizeDraw
<1>5. ASSUME NEW p \in Rooms, NEW a \in Accounts, NEW delay \in Delays,
             PostponeKocok(p, a, delay)
      PROVE  kocokAt'[r][n] = kocokAt[r][n]
  BY <1>1, <1>2, <1>5 DEF PostponeKocok, CommitStarted
<1>6. DrawKinds
  BY StepKinds DEF DrawInv
<1> QED BY <1>3, <1>4, <1>5, <1>6 DEF DrawKinds, Quiet, CommitDraw, RevealDraw

\* No step adds a commitment to a round with a reveal.
LEMMA CommitmentStep ==
  ASSUME DrawInv, [Next]_vars, NEW r \in Rooms, NEW n \in Rounds,
         NEW m \in Accounts, reveal[r][n][m] # None
  PROVE  commitment'[r][n] = commitment[r][n]
<1>1. (room[r].status = "Active" /\ n = room[r].round) => now >= kocokAt[r][n]
  BY DEF DrawInv, DrawHistory, DrawAt
<1>2. commitment \in [Rooms -> [Rounds -> [Accounts -> Hashes \cup {None}]]]
  BY DEF DrawInv, TypeInv, TypeOK
<1>3. ASSUME NEW p \in Rooms, NEW a \in Accounts, NEW hash \in Hashes,
             CommitDraw(p, a, hash)
      PROVE  commitment'[r][n] = commitment[r][n]
  <2>1. /\ room[p].status = "Active" /\ DrawPhase(p) = "Commit"
        /\ commitment' = [commitment EXCEPT ![p][room[p].round][a] = hash]
    BY <1>3 DEF CommitDraw, Eligible, CommitOpen
  <2>2. room[p].round \in Rounds /\ Deadline(p) \in Nat /\ now \in Nat
    BY <2>1, ActiveRound DEF DrawInv, TypeInv, TypeOK
  <2>3. now < kocokAt[p][room[p].round] /\ kocokAt[p][room[p].round] \in Nat
    BY <2>1, <2>2 DEF DrawPhase, Deadline
  <2>4. ~(r = p /\ n = room[p].round)
    BY <1>1, <2>1, <2>2, <2>3
  <2> QED BY <1>2, <2>1, <2>2, <2>4
<1>4. DrawKinds
  BY StepKinds DEF DrawInv
<1>5. \/ UNCHANGED commitment
      \/ \E p \in Rooms, a \in Accounts, hash \in Hashes : CommitDraw(p, a, hash)
  <2>1. Quiet => UNCHANGED commitment
    BY Zenon DEF Quiet
  <2>2. ASSUME NEW p \in Rooms, NEW a \in Accounts, StartRoom(p, a)
        PROVE  UNCHANGED commitment
    BY <2>2, Zenon DEF StartRoom
  <2>3. ASSUME NEW p \in Rooms, NEW a \in Accounts, NEW secret \in Secrets,
               RevealDraw(p, a, secret)
        PROVE  UNCHANGED commitment
    BY <2>3, Zenon DEF RevealDraw
  <2>4. ASSUME NEW p \in Rooms, NEW a \in Accounts, FinalizeDraw(p, a)
        PROVE  UNCHANGED commitment
    BY <2>4, Zenon DEF FinalizeDraw
  <2>5. ASSUME NEW p \in Rooms, NEW a \in Accounts, NEW delay \in Delays,
               PostponeKocok(p, a, delay)
        PROVE  UNCHANGED commitment
    BY <2>5, Zenon DEF PostponeKocok
  <2> QED BY <1>4, <2>1, <2>2, <2>3, <2>4, <2>5, Zenon DEF DrawKinds
<1> QED BY <1>3, <1>5

\* From a round's first commitment on its deadline stays where it is, and from
\* its first reveal on nobody commits.
THEOREM DrawsStand == Spec => DrawsStayAgreed
<1> DEFINE A == \A r \in Rooms, n \in Rounds :
                  /\ (\E m \in Accounts : commitment[r][n][m] # None)
                       => kocokAt'[r][n] = kocokAt[r][n]
                  /\ (\E m \in Accounts : reveal[r][n][m] # None)
                       => commitment'[r][n] = commitment[r][n]
<1>1. DrawInv /\ [Next]_vars => A
  BY DeadlineStep, CommitmentStep
<1>2. DrawInv /\ [Next]_vars => [A]_vars
  BY <1>1
<1> QED BY <1>2, DrawInvHolds, PTL DEF Spec, DrawsStayAgreed

-----------------------------------------------------------------------------
(* The cycle: an Active room's round is one more than its winners, and a   *)
(* Done room has paid every member exactly once.                           *)

(* Only starting a room and finalizing a draw move its cycle.              *)

DissolvedFrom(record) == [record EXCEPT !.status = "Dissolved"]

Calm ==
  /\ UNCHANGED <<won, winner>>
  /\ \A r \in Rooms :
       IF room[r].status \in Unstarted
       THEN room'[r].status \in Unstarted \cup {"Dissolved"}
       ELSE /\ members'[r] = members[r] /\ schedule'[r] = schedule[r]
            /\ room'[r] \in {room[r], DissolvedFrom(room[r])}

CycleKinds ==
  Calm \/ \E r \in Rooms, a \in Accounts : StartRoom(r, a) \/ FinalizeDraw(r, a)

LEMMA SeatHostCalm ==
  ASSUME TypeInv, RoomsInOrder, NEW record, SeatHost(record),
         record.status = "Open"
  PROVE  \A r \in Rooms :
           IF room[r].status \in Unstarted
           THEN room'[r].status \in Unstarted
           ELSE /\ members'[r] = members[r] /\ room'[r] = room[r]
                /\ r # roomCount + 1
<1>1. /\ room' = [room EXCEPT ![roomCount + 1] = record]
      /\ members' = [members EXCEPT ![roomCount + 1] = {record.host}]
      /\ roomCount \in Nat /\ room \in [Rooms -> RoomRecord]
      /\ members \in [Rooms -> SUBSET Accounts]
  BY DEF SeatHost, TypeInv, TypeOK
<1>2. \A r \in Rooms : r = roomCount + 1 => room[r].status = "Missing"
  BY <1>1 DEF RoomsInOrder, Rooms
<1> QED BY <1>1, <1>2 DEF Unstarted

LEMMA CreateCalm ==
  ASSUME TypeInv, RoomsInOrder, NEW h \in Accounts, NEW code \in Codes,
         \/ \E t \in LegacyTerms : CreateRoom(h, code, t)
         \/ \E t \in InstallmentTerms : CreateInstallmentRoom(h, code, t)
         \/ \E t \in ScheduledTerms : CreateScheduledRoom(h, code, t)
  PROVE  Calm
<1>1. \E record : SeatHost(record) /\ record.status = "Open"
  <2>1. \A t, cadence, first, deadline :
          NewRoom(h, code, t, cadence, first, deadline).status = "Open"
    BY DEF NewRoom
  <2>2. \E t, cadence, first, deadline :
          SeatHost(NewRoom(h, code, t, cadence, first, deadline))
    BY Zenon DEF CreateRoom, CreateInstallmentRoom, CreateScheduledRoom
  <2> QED BY <2>1, <2>2
<1>2. UNCHANGED <<won, winner>>
  BY Zenon DEF CreateRoom, CreateInstallmentRoom, CreateScheduledRoom, drawVars
<1>3. \A r \in Rooms :
        IF room[r].status \in Unstarted
        THEN room'[r].status \in Unstarted
        ELSE /\ members'[r] = members[r] /\ room'[r] = room[r]
             /\ r # roomCount + 1
  BY <1>1, SeatHostCalm
<1>4. \A r \in Rooms : r # roomCount + 1 => schedule'[r] = schedule[r]
  <2>1. schedule' = schedule \/ \E s : schedule' = [schedule EXCEPT ![roomCount + 1] = s]
    BY Zenon DEF CreateRoom, CreateInstallmentRoom, CreateScheduledRoom
  <2> QED BY <2>1 DEF TypeInv, TypeOK
<1>5. ASSUME NEW r \in Rooms, room[r].status \notin Unstarted
      PROVE  /\ members'[r] = members[r] /\ schedule'[r] = schedule[r]
             /\ room'[r] = room[r]
  BY <1>3, <1>4, <1>5
<1>6. \A r \in Rooms : room[r].status \in Unstarted => room'[r].status \in Unstarted
  BY <1>3
<1> QED BY <1>2, <1>5, <1>6 DEF Calm

LEMMA RoomCalm ==
  ASSUME TypeInv, NEW r \in Rooms, NEW a \in Accounts,
         \/ \E amount \in Amounts : DepositRoom(r, a, amount)
         \/ \E code \in Codes : JoinRoom(r, code, a)
         \/ LeaveRoom(r, a)
         \/ CancelRoom(r, a)
         \/ EmergencyDissolve(r, a)
  PROVE  Calm
<1>1. UNCHANGED <<won, winner, schedule>>
  BY DEF DepositRoom, JoinRoom, LeaveRoom, CancelRoom, EmergencyDissolve,
     drawVars, roomVars
<1>2. /\ room \in [Rooms -> RoomRecord] /\ members \in [Rooms -> SUBSET Accounts]
  BY DEF TypeInv, TypeOK
<1>3. \A p \in Rooms \ {r} : room'[p] = room[p] /\ members'[p] = members[p]
  BY <1>2 DEF DepositRoom, JoinRoom, LeaveRoom, CancelRoom, EmergencyDissolve, roomVars
<1>4. \/ room[r].status = "Open" /\ room'[r].status \in {"Open", "Dissolved"}
      \/ /\ room[r].status = "Active"
         /\ members'[r] = members[r] /\ room'[r] = DissolvedFrom(room[r])
  BY <1>2 DEF DepositRoom, JoinRoom, LeaveRoom, CancelRoom, EmergencyDissolve,
     roomVars, DissolvedFrom, RoomRecord
<1> QED BY <1>1, <1>3, <1>4 DEF Calm, Unstarted

LEMMA StillCalm ==
  ASSUME UNCHANGED <<roomVars, won, winner>>
  PROVE  Calm
BY DEF roomVars, Calm

LEMMA CycleStepKinds ==
  ASSUME TypeInv, RoomsInOrder, [Next]_vars
  PROVE  CycleKinds
<1>1. \A h \in Accounts, code \in Codes :
        /\ \A t \in LegacyTerms : CreateRoom(h, code, t) => CycleKinds
        /\ \A t \in InstallmentTerms : CreateInstallmentRoom(h, code, t) => CycleKinds
        /\ \A t \in ScheduledTerms : CreateScheduledRoom(h, code, t) => CycleKinds
  BY CreateCalm DEF CycleKinds
<1>2. ASSUME NEW r \in Rooms, NEW a \in Accounts
      PROVE  /\ \A amount \in Amounts : DepositRoom(r, a, amount) => CycleKinds
             /\ \A code \in Codes : JoinRoom(r, code, a) => CycleKinds
             /\ LeaveRoom(r, a) => CycleKinds
             /\ StartRoom(r, a) => CycleKinds
             /\ CancelRoom(r, a) => CycleKinds
             /\ \A hash \in CommitInputs(r, a) : CommitDraw(r, a, hash) => CycleKinds
             /\ \A secret \in Secrets : RevealDraw(r, a, secret) => CycleKinds
             /\ FinalizeDraw(r, a) => CycleKinds
             /\ \A delay \in Delays : PostponeKocok(r, a, delay) => CycleKinds
             /\ EmergencyDissolve(r, a) => CycleKinds
  <2>1. /\ \A hash : CommitDraw(r, a, hash) => Calm
        /\ \A secret : RevealDraw(r, a, secret) => Calm
        /\ \A delay : PostponeKocok(r, a, delay) => Calm
    BY StillCalm DEF CommitDraw, RevealDraw, PostponeKocok
  <2>2. /\ \A amount \in Amounts : DepositRoom(r, a, amount) => Calm
        /\ \A code \in Codes : JoinRoom(r, code, a) => Calm
        /\ LeaveRoom(r, a) => Calm
        /\ CancelRoom(r, a) => Calm
        /\ EmergencyDissolve(r, a) => Calm
    BY RoomCalm
  <2> QED BY <2>1, <2>2, Zenon DEF CycleKinds
<1>3. /\ UNCHANGED vars => CycleKinds
      /\ Tick => CycleKinds
      /\ Initialize => CycleKinds
      /\ InitializeScheduled => CycleKinds
  BY StillCalm, Zenon
     DEF Tick, Initialize, InitializeScheduled, vars, drawVars, CycleKinds
<1> QED BY <1>1, <1>2, <1>3, NextCases, Zenon

-----------------------------------------------------------------------------
(* Winners, one per round.                                                 *)

Started == {"Active", "Done"}

\* Nobody has won before the start.  From then on the roster stands, and the
\* members who have won are those recorded for the rounds gone by.
CycleAt(r) ==
  /\ room[r].status \in Unstarted => won[r] = {}
  /\ room[r].status \in Started =>
       /\ won[r] \subseteq members[r]
       /\ Cardinality(members[r]) = room[r].member_count
       /\ room[r].round = Cardinality(won[r]) + 1
       /\ won[r] = {winner[r][n] : n \in 1..(room[r].round - 1)}
  /\ room[r].status = "Done" => won[r] = members[r]

CycleInv == DrawInv /\ \A r \in Rooms : CycleAt(r)

LEMMA CycleInit == Init => CycleInv
<1> SUFFICES ASSUME Init PROVE CycleInv
  OBVIOUS
<1>1. \A r \in Rooms : CycleAt(r)
  BY DEF Init, CycleAt, NoRoom, Started
<1> QED BY <1>1, DrawInit DEF CycleInv

LEMMA CalmCycle ==
  ASSUME CycleInv, Calm, NEW r \in Rooms
  PROVE  CycleAt(r)'
<1>1. CycleAt(r) /\ room[r] \in RoomRecord
  BY DEF CycleInv, DrawInv, TypeInv, TypeOK
<1>2. won'[r] = won[r] /\ winner'[r] = winner[r]
  BY DEF Calm
<1>3. CASE room[r].status \in Unstarted
  <2>1. room'[r].status \in Unstarted \cup {"Dissolved"} /\ won[r] = {}
    BY <1>1, <1>3 DEF Calm, CycleAt
  <2> QED BY <1>2, <2>1 DEF CycleAt, Unstarted, Started
<1>4. CASE room[r].status \notin Unstarted
  <2>1. /\ members'[r] = members[r]
        /\ room'[r] = room[r] \/ room'[r] = DissolvedFrom(room[r])
    BY <1>4 DEF Calm
  <2>2. CASE room'[r] = room[r]
    BY <1>1, <1>2, <2>1, <2>2 DEF CycleAt
  <2>3. CASE room'[r] = DissolvedFrom(room[r])
    BY <1>1, <2>3 DEF CycleAt, DissolvedFrom, RoomRecord, Unstarted, Started
  <2> QED BY <2>1, <2>2, <2>3
<1> QED BY <1>3, <1>4

LEMMA StartCycle ==
  ASSUME CycleInv, NEW p \in Rooms, NEW a \in Accounts, StartRoom(p, a),
         NEW r \in Rooms
  PROVE  CycleAt(r)'
<1>1. CycleAt(r) /\ room \in [Rooms -> RoomRecord]
  BY DEF CycleInv, DrawInv, TypeInv, TypeOK
<1>2. UNCHANGED <<members, won, winner>>
  BY DEF StartRoom
<1>3. CASE r = p
  <2>1. /\ won[r] = {} /\ Cardinality(members[r]) = room[r].member_target
    BY <1>1, <1>3 DEF StartRoom, CycleAt, Unstarted
  <2>2. /\ room'[r].status = "Active" /\ room'[r].round = 1
        /\ room'[r].member_count = room[r].member_target
    BY <1>1, <1>3 DEF StartRoom, RoomRecord
  <2>3. Cardinality({}) = 0
    BY FS_EmptySet
  <2> QED BY <1>2, <2>1, <2>2, <2>3 DEF CycleAt, Unstarted, Started
<1>4. CASE r # p
  <2>1. room'[r] = room[r]
    BY <1>1, <1>4 DEF StartRoom
  <2> QED BY <1>1, <1>2, <2>1 DEF CycleAt
<1> QED BY <1>3, <1>4

\* The winner of a round is one more member who has won.
LEMMA FinalizeCycle ==
  ASSUME CycleInv, NEW p \in Rooms, NEW a \in Accounts, FinalizeDraw(p, a),
         NEW r \in Rooms
  PROVE  CycleAt(r)'
<1>1. /\ CycleAt(r) /\ room \in [Rooms -> RoomRecord]
      /\ won \in [Rooms -> SUBSET Accounts]
      /\ winner \in [Rooms -> [Rounds -> Accounts \cup {None}]]
  BY DEF CycleInv, DrawInv, TypeInv, TypeOK
<1>2. UNCHANGED members
  BY DEF FinalizeDraw
<1>3. PICK w \in DrawPool(p) :
        /\ won' = [won EXCEPT ![p] = won[p] \cup {w}]
        /\ winner' = [winner EXCEPT ![p][room[p].round] = w]
  BY DEF FinalizeDraw, WonAfter
<1>4. CASE r # p
  <2>1. /\ room'[r] = room[r] /\ won'[r] = won[r]
        /\ winner'[r] = winner[r] /\ members'[r] = members[r]
    BY <1>1, <1>2, <1>3, <1>4 DEF FinalizeDraw
  <2> QED BY <1>1, <2>1 DEF CycleAt
<1>5. CASE r = p
  <2> DEFINE n == room[r].round
             W == won[r] \cup {w}
  <2>1. /\ won[r] \subseteq members[r]
        /\ Cardinality(members[r]) = room[r].member_count
        /\ n = Cardinality(won[r]) + 1
        /\ won[r] = {winner[r][k] : k \in 1..(n - 1)}
    BY <1>1, <1>5 DEF CycleAt, FinalizeDraw, Started
  <2>2. w \in members[r] \ won[r]
    BY <1>5 DEF DrawPool, Revealers
  <2>3. n \in Rounds /\ n \in Nat /\ n <= room[r].member_count
    <3>1. room[r].status = "Active"
      BY <1>5 DEF FinalizeDraw
    <3>2. n \in Rounds /\ n <= room[r].member_count
      BY <3>1, ActiveRound DEF CycleInv, DrawInv
    <3>3. n \in Nat
      BY <1>1 DEF RoomRecord
    <3> QED BY <3>2, <3>3
  <2>4. IsFiniteSet(members[r]) /\ IsFiniteSet(won[r])
    BY <2>1, RosterFinite, FS_Subset DEF CycleInv, DrawInv, TypeInv
  <2>5. IsFiniteSet(W) /\ Cardinality(W) = n
    BY <2>1, <2>2, <2>4, FS_AddElement
  <2>6. won'[r] = W /\ winner'[r] = [winner[r] EXCEPT ![n] = w]
    BY <1>1, <1>3, <1>5
  <2>7. W = {winner'[r][k] : k \in 1..n}
    <3> HIDE DEF n
    <3>1. winner'[r][n] = w
      BY <1>1, <2>3, <2>6
    <3>2. \A k \in 1..(n - 1) : winner'[r][k] = winner[r][k]
      BY <1>1, <2>3, <2>6
    <3>3. 1..n = (1..(n - 1)) \cup {n}
      BY <2>3 DEF Rounds
    <3>4. {winner'[r][k] : k \in 1..n}
            = {winner'[r][k] : k \in 1..(n - 1)} \cup {winner'[r][n]}
      BY <3>3
    <3>5. {winner'[r][k] : k \in 1..(n - 1)} = won[r]
      BY <2>1, <3>2
    <3> QED BY <3>1, <3>4, <3>5
  <2>8. /\ room'[r].round = n + 1 /\ room'[r].member_count = room[r].member_count
        /\ IF LastRound(r) THEN room'[r].status = "Done"
                            ELSE room'[r].status = "Active"
    BY <1>1, <1>5 DEF FinalizeDraw, NextRound, RoomRecord
  <2>9. LastRound(r) => W = members[r]
    <3>1. SUFFICES ASSUME LastRound(r) PROVE W = members[r]
      OBVIOUS
    <3>2. Cardinality(W) = Cardinality(members[r])
      <4>1. n >= room[r].member_count /\ room[r].member_count \in Nat
        BY <1>1, <3>1 DEF LastRound, RoomRecord
      <4>2. n \in Nat /\ n <= room[r].member_count
        BY <2>3
      <4>3. Cardinality(members[r]) = room[r].member_count
        BY <2>1
      <4>4. Cardinality(W) = n
        BY <2>5
      <4> HIDE DEF n, W
      <4>5. n = room[r].member_count
        BY <4>1, <4>2
      <4> QED BY <4>3, <4>4, <4>5
    <3>3. W \subseteq members[r]
      BY <2>1, <2>2
    <3> HIDE DEF W
    <3> QED BY <2>4, <3>2, <3>3, FS_Subset
  <2> HIDE DEF n, W
  <2>10. W \subseteq members[r]
    BY <2>1, <2>2 DEF W
  <2>11. room'[r].round - 1 = n /\ members'[r] = members[r]
    BY <1>2, <2>3, <2>8
  <2>12. won'[r] = {winner'[r][k] : k \in 1..(room'[r].round - 1)}
    BY <2>6, <2>7, <2>11
  <2>13. room'[r].round = Cardinality(won'[r]) + 1
    BY <2>5, <2>6, <2>8
  <2>14. /\ room'[r].status \notin Unstarted
         /\ room'[r].status = "Done" => won'[r] = members'[r]
    BY <2>6, <2>8, <2>9, <2>11 DEF Unstarted
  <2> QED BY <2>1, <2>6, <2>8, <2>10, <2>11, <2>12, <2>13, <2>14 DEF CycleAt
<1> QED BY <1>4, <1>5

LEMMA CycleStep == CycleInv /\ [Next]_vars => CycleInv'
<1> SUFFICES ASSUME CycleInv, [Next]_vars PROVE CycleInv'
  OBVIOUS
<1>1. DrawInv'
  BY DrawStepInv DEF CycleInv
<1>2. CycleKinds
  BY CycleStepKinds DEF CycleInv, DrawInv
<1>3. \A r \in Rooms : CycleAt(r)'
  BY <1>2, CalmCycle, StartCycle, FinalizeCycle DEF CycleKinds
<1> QED BY <1>1, <1>3 DEF CycleInv

LEMMA CycleInvHolds == Spec => []CycleInv
BY CycleInit, CycleStep, PTL DEF Spec

\* In every room at every moment the round is one more than the number of
\* members paid, and the cycle is Done exactly when all of them are.
THEOREM EveryoneWinsOnce == Spec => []CycleProgress
<1>1. CycleInv => CycleProgress
  <2> SUFFICES ASSUME CycleInv, NEW r \in Rooms
      PROVE  /\ room[r].status \in {"Active", "Done"} =>
                  /\ room[r].round = Cardinality(won[r]) + 1
                  /\ won[r] = {winner[r][n] : n \in 1..(room[r].round - 1)}
             /\ room[r].status = "Active" => won[r] # members[r]
             /\ room[r].status = "Done" => won[r] = members[r]
    BY DEF CycleProgress
  <2>1. CycleAt(r)
    BY DEF CycleInv
  <2>2. room[r].status = "Active" => won[r] # members[r]
    <3>1. SUFFICES ASSUME room[r].status = "Active", won[r] = members[r]
                   PROVE  FALSE
      OBVIOUS
    <3>2. /\ Cardinality(members[r]) = room[r].member_count
          /\ room[r].round = Cardinality(members[r]) + 1
      BY <2>1, <3>1 DEF CycleAt, Started
    <3>3. room[r].round <= room[r].member_count /\ room[r].member_count \in Nat
      BY <3>1, ActiveRound DEF CycleInv, DrawInv, TypeInv, TypeOK, RoomRecord
    <3> QED BY <3>2, <3>3
  <2> QED BY <2>1, <2>2 DEF CycleAt, Started
<1> QED BY <1>1, CycleInvHolds, PTL

-----------------------------------------------------------------------------
(* The money: what an account has and is owed is what it began with, and   *)
(* what the contract has is what its rooms owe.                            *)

\* A room that is not there holds nothing.  A legacy seat is paid for whole;
\* once a room is Active every member has locked exactly one pot, so that N
\* payouts of a pot use up what N members paid in.
LocksAt(r) ==
  /\ room[r].status = "Missing" =>
       /\ members[r] = {} /\ ~installment[r] /\ roomPool[r] = 0
       /\ \A a \in Accounts : locked[r][a] = 0
  /\ room[r].status = "Open" /\ ~installment[r] =>
       \A m \in members[r] : locked[r][m] = Obligation(r)
  /\ room[r].status = "Active" =>
       \A m \in members[r] : locked[r][m] = Pot(r)

Books == (\A r \in Rooms : LocksAt(r)) /\ MemberWhole /\ PoolHoldsClaims
MoneyInv == CycleInv /\ Books

LEMMA MoneyTypes ==
  ASSUME CycleInv
  PROVE  TypeInv /\ TypeOK
BY DEF CycleInv, DrawInv, TypeInv

LEMMA ClaimType ==
  ASSUME TypeOK, NEW r \in Rooms, NEW a \in Accounts
  PROVE  Claim(r, a) \in Nat /\ locked[r][a] \in Nat
BY DEF TypeOK, Claim

LEMMA FiniteInstance == IsFiniteSet(Rooms) /\ IsFiniteSet(Accounts)
BY BoundsAssumption, FS_Interval DEF Rooms

LEMMA OwesType ==
  ASSUME TypeOK, NEW r \in Rooms
  PROVE  Owes(r) \in Nat
<1>1. \A a \in Accounts : Claims(r)[a] \in Nat
  BY ClaimType DEF Claims
<1> QED BY <1>1, FiniteInstance, TotalType DEF Owes

\* A step touches what it touches of one room only.
Apart(r) ==
  \A p \in Rooms \ {r} :
    /\ room'[p] = room[p] /\ members'[p] = members[p] /\ won'[p] = won[p]
    /\ locked'[p] = locked[p] /\ roomPool'[p] = roomPool[p] /\ installment'[p] = installment[p]

LEMMA RoomApart ==
  ASSUME NEW r \in Rooms, Apart(r), NEW p \in Rooms \ {r}
  PROVE  /\ \A a \in Accounts : Claim(p, a)' = Claim(p, a)
         /\ LocksAt(p) => LocksAt(p)'
<1>1. \A a \in Accounts : Claim(p, a)' = Claim(p, a)
  BY DEF Apart, Claim
<1>2. LocksAt(p) => LocksAt(p)'
  BY DEF Apart, LocksAt, Obligation, Pot
<1> QED BY <1>1, <1>2

\* The books balance after a step on room r if its own books do.
LEMMA Booked ==
  ASSUME MoneyInv, TypeOK', NEW r \in Rooms, Apart(r), LocksAt(r)',
         \A a \in Accounts : wallet'[a] + Claim(r, a)' = wallet[a] + Claim(r, a),
         vault' + Owes(r) = vault + Owes(r)',
         installment'[r] => roomPool'[r] = Owes(r)'
  PROVE  Books'
<1>1. TypeOK
  BY MoneyTypes DEF MoneyInv
<1>2. \A p \in Rooms : LocksAt(p)'
  BY RoomApart DEF MoneyInv, Books
<1>3. \A p \in Rooms, a \in Accounts : Claim(p, a) \in Nat /\ Claim(p, a)' \in Nat
  <2>1. \A p \in Rooms, a \in Accounts : Claim(p, a)' \in Nat
    BY DEF TypeOK, Claim
  <2> QED BY <1>1, <2>1, ClaimType
<1>4. MemberWhole'
  <2> SUFFICES ASSUME NEW a \in Accounts PROVE wallet'[a] + Total(Owed(a)', Rooms) = Wealth
    BY DEF MemberWhole
  <2>1. PICK f : f = Owed(a)
    OBVIOUS
  <2>2. PICK g : g = Owed(a)'
    OBVIOUS
  <2>3. \A p \in Rooms : f[p] = Claim(p, a) /\ g[p] = Claim(p, a)'
    BY <2>1, <2>2 DEF Owed
  <2>4. \A p \in Rooms : f[p] \in Nat /\ g[p] \in Nat
    BY <1>3, <2>3
  <2>5. \A p \in Rooms \ {r} : g[p] = f[p]
    BY <2>3, RoomApart
  <2>6. Total(g, Rooms) = Total(f, Rooms) - f[r] + g[r] /\ Total(f, Rooms) \in Nat
    BY <2>4, <2>5, FiniteInstance, TotalChange
  <2>7. wallet[a] + Total(f, Rooms) = Wealth /\ wallet[a] \in Nat /\ wallet'[a] \in Nat
    BY <1>1, <2>1 DEF MoneyInv, Books, MemberWhole, TypeOK
  <2>8. wallet'[a] + g[r] = wallet[a] + f[r]
    BY <2>3
  <2>9. wallet'[a] + Total(g, Rooms) = Wealth
    <3>1. f[r] \in Nat /\ g[r] \in Nat
      BY <2>4
    <3> QED BY <2>6, <2>7, <2>8, <3>1
  <2> QED BY <2>2, <2>9
<1>5. \A p \in Rooms \ {r} : Owes(p)' = Owes(p)
  <2> SUFFICES ASSUME NEW p \in Rooms \ {r} PROVE Total(Claims(p)', Accounts) = Total(Claims(p), Accounts)
    BY DEF Owes
  <2>1. \A a \in Accounts : Claims(p)'[a] = Claims(p)[a]
    BY RoomApart DEF Claims
  <2> QED BY <2>1, TotalSame
<1>6. \A p \in Rooms : Owes(p) \in Nat /\ Owes(p)' \in Nat
  <2>1. ASSUME NEW p \in Rooms PROVE Owes(p)' \in Nat
    <3>1. \A a \in Accounts : Claims(p)'[a] \in Nat
      BY <1>3 DEF Claims
    <3>2. Total(Claims(p)', Accounts) \in Nat
      BY <3>1, FiniteInstance, TotalType
    <3> QED BY <3>2 DEF Owes
  <2> QED BY <1>1, <2>1, OwesType
<1>7. vault' = Total(Debts', Rooms)
  <2>1. PICK f : f = Debts
    OBVIOUS
  <2>2. PICK g : g = Debts'
    OBVIOUS
  <2>3. \A p \in Rooms : f[p] = Owes(p) /\ g[p] = Owes(p)'
    BY <2>1, <2>2 DEF Debts
  <2>4. Total(g, Rooms) = Total(f, Rooms) - f[r] + g[r] /\ Total(f, Rooms) \in Nat
    BY <1>5, <1>6, <2>3, FiniteInstance, TotalChange
  <2>5. vault = Total(f, Rooms)
    BY <2>1 DEF MoneyInv, Books, PoolHoldsClaims
  <2>6. vault' + f[r] = vault + g[r] /\ vault' \in Nat /\ f[r] \in Nat /\ g[r] \in Nat
    BY <1>6, <2>3 DEF TypeOK
  <2>7. vault' = Total(g, Rooms)
    BY <2>4, <2>5, <2>6
  <2> QED BY <2>2, <2>7
<1>8. \A p \in Rooms : installment'[p] => roomPool'[p] = Owes(p)'
  BY <1>5 DEF MoneyInv, Books, PoolHoldsClaims, Apart
<1>9. PoolHoldsClaims'
  BY <1>7, <1>8 DEF PoolHoldsClaims
<1> QED BY <1>2, <1>4, <1>9 DEF Books

\* The case of one account that pays or is paid.
LEMMA OnePays ==
  ASSUME MoneyInv, TypeOK', NEW r \in Rooms, Apart(r), LocksAt(r)', NEW a \in Accounts,
         \A b \in Accounts \ {a} : Claim(r, b)' = Claim(r, b) /\ wallet'[b] = wallet[b],
         wallet'[a] + Claim(r, a)' = wallet[a] + Claim(r, a),
         vault' + Claim(r, a) = vault + Claim(r, a)',
         installment'[r] => installment[r] /\ roomPool'[r] + Claim(r, a) = roomPool[r] + Claim(r, a)'
  PROVE  Books'
<1>1. TypeOK
  BY MoneyTypes DEF MoneyInv
<1>2. PICK f : f = Claims(r)
  OBVIOUS
<1>3. PICK g : g = Claims(r)'
  OBVIOUS
<1>4. \A b \in Accounts : f[b] = Claim(r, b) /\ g[b] = Claim(r, b)'
  BY <1>2, <1>3 DEF Claims
<1>5. \A b \in Accounts : f[b] \in Nat /\ g[b] \in Nat
  <2>1. \A b \in Accounts : Claim(r, b)' \in Nat
    BY DEF TypeOK, Claim
  <2> QED BY <1>1, <1>4, <2>1, ClaimType
<1>6. Total(g, Accounts) = Total(f, Accounts) - f[a] + g[a] /\ Total(f, Accounts) \in Nat
  BY <1>4, <1>5, FiniteInstance, TotalChange
<1>7. Owes(r) = Total(f, Accounts) /\ Owes(r)' = Total(g, Accounts)
  BY <1>2, <1>3 DEF Owes
<1>8. vault \in Nat /\ vault' \in Nat /\ roomPool[r] \in Nat /\ roomPool'[r] \in Nat
  BY <1>1 DEF TypeOK
<1>9. vault' + Owes(r) = vault + Owes(r)'
  <2>1. vault' + f[a] = vault + g[a] /\ f[a] \in Nat /\ g[a] \in Nat
    BY <1>4, <1>5
  <2> QED BY <1>6, <1>7, <1>8, <2>1
<1>10. installment'[r] => roomPool'[r] = Owes(r)'
  <2> SUFFICES ASSUME installment'[r] PROVE roomPool'[r] = Total(g, Accounts)
    BY <1>7
  <2>1. roomPool'[r] + f[a] = roomPool[r] + g[a] /\ f[a] \in Nat /\ g[a] \in Nat
    BY <1>4, <1>5
  <2>2. roomPool[r] = Total(f, Accounts)
    BY <1>7 DEF MoneyInv, Books, PoolHoldsClaims
  <2>3. roomPool[r] \in Nat /\ roomPool'[r] \in Nat
    BY <1>8
  <2>4. PICK k : k = Total(f, Accounts)
    OBVIOUS
  <2>5. Total(g, Accounts) = k - f[a] + g[a] /\ k \in Nat
    BY <1>6, <2>4
  <2> QED BY <2>1, <2>2, <2>3, <2>4, <2>5
<1>11. \A b \in Accounts : wallet'[b] + Claim(r, b)' = wallet[b] + Claim(r, b)
  OBVIOUS
<1> QED BY <1>9, <1>10, <1>11, Booked

-----------------------------------------------------------------------------
(* The same steps as those of a rotation, by what they do to one room.     *)

LEMMA Becoming ==
  ASSUME NEW r \in Rooms, Apart(r), NEW p, Phase(r)' = p
  PROVE  Circle!Becomes(r, p, members'[r], won'[r])
<1>1. \A q \in Rooms \ {r} : Phase(q)' = Phase(q) /\ members'[q] = members[q] /\ won'[q] = won[q]
  BY DEF Apart, Phase
<1>2. \A q \in Rooms \ {r}, m \in Accounts : Claim(q, m)' = Claim(q, m)
  BY RoomApart
<1> QED BY <1>1, <1>2 DEF Circle!Becomes, Claims

LEMMA Prefunds ==
  ASSUME NEW r \in Rooms, NEW a \in Accounts, Apart(r),
         room[r].status \in Unstarted, room'[r].status = "Open",
         members'[r] = members[r] \cup {a}, won'[r] = won[r],
         \A b \in Accounts \ {a} : Claim(r, b)' = Claim(r, b) /\ wallet'[b] = wallet[b],
         Claim(r, a)' >= Claim(r, a),
         wallet'[a] + Claim(r, a)' = wallet[a] + Claim(r, a)
  PROVE  Circle!Next
<1>1. Phase(r) = "Open" /\ Phase(r)' = "Open"
  BY DEF Phase, Unstarted
<1>2. Circle!Becomes(r, "Open", members'[r], won'[r])
  BY <1>1, Becoming
<1>3. Circle!PaysIn(r, a)
  BY DEF Circle!PaysIn, Claims
<1>4. Circle!Prefund(r, a)
  BY <1>1, <1>2, <1>3 DEF Circle!Prefund
<1> QED BY <1>4 DEF Circle!Next

LEMMA PaysBackAs ==
  ASSUME NEW r \in Rooms, NEW S, S \subseteq Accounts,
         \A a \in S : Claim(r, a)' = 0 /\ wallet'[a] = wallet[a] + Claim(r, a),
         \A a \in Accounts \ S : Claim(r, a)' = Claim(r, a) /\ wallet'[a] = wallet[a]
  PROVE  Circle!PaysBack(r, S)
BY DEF Circle!PaysBack, Claims

LEMMA Leaves ==
  ASSUME NEW r \in Rooms, NEW a \in Accounts, Apart(r),
         room[r].status = "Open", room'[r].status = "Open", a \in members[r],
         members'[r] = members[r] \ {a}, won'[r] = won[r], Circle!PaysBack(r, {a})
  PROVE  Circle!Next
<1>1. Phase(r) = "Open" /\ Phase(r)' = "Open"
  BY DEF Phase
<1>2. Circle!Becomes(r, "Open", members'[r], won'[r])
  BY <1>1, Becoming
<1>3. Circle!Leave(r, a)
  BY <1>1, <1>2 DEF Circle!Leave
<1> QED BY <1>3 DEF Circle!Next

LEMMA Closes ==
  ASSUME NEW r \in Rooms, Apart(r), room[r].status = "Open", room'[r].status = "Active",
         UNCHANGED <<members, won>>, won[r] = {}, members[r] \subseteq Accounts,
         NEW pot, \A m \in members[r] : Claim(r, m) = pot, Circle!PaysBack(r, {})
  PROVE  Circle!Next
<1>1. Phase(r) = "Open" /\ Phase(r)' = "Active"
  BY DEF Phase
<1>2. Circle!Becomes(r, "Active", members'[r], won'[r])
  BY <1>1, Becoming
<1>3. \A m, n \in members[r] : Claims(r)[m] = Claims(r)[n]
  BY DEF Claims
<1>4. Circle!Close(r)
  BY <1>1, <1>2, <1>3 DEF Circle!Close
<1> QED BY <1>4 DEF Circle!Next

LEMMA Turns ==
  ASSUME NEW r \in Rooms, NEW a \in Accounts, Apart(r), room[r].status = "Active",
         a \in members[r] \ won[r], members'[r] = members[r], won'[r] = won[r] \cup {a},
         room'[r].status = IF won'[r] = members[r] THEN "Done" ELSE "Active",
         Circle!PaysBack(r, {a})
  PROVE  Circle!Next
<1>1. Phase(r) = "Active" /\ Phase(r)' = room'[r].status
  BY DEF Phase
<1>2. Circle!Becomes(r, room'[r].status, members'[r], won'[r])
  BY <1>1, Becoming
<1>3. Circle!Turn(r, a)
  BY <1>1, <1>2 DEF Circle!Turn
<1> QED BY <1>3 DEF Circle!Next

LEMMA Dissolves ==
  ASSUME NEW r \in Rooms, Apart(r), room[r].status \in {"Open", "Active"},
         room'[r].status = "Dissolved", members'[r] = members[r], won'[r] = won[r],
         Circle!PaysBack(r, Accounts)
  PROVE  Circle!Next
<1>1. Phase(r) \in {"Open", "Active"} /\ Phase(r)' = "Dissolved"
  BY DEF Phase
<1>2. Circle!Becomes(r, "Dissolved", members'[r], won'[r])
  BY <1>1, Becoming
<1>3. Circle!Dissolve(r)
  BY <1>1, <1>2 DEF Circle!Dissolve
<1> QED BY <1>3 DEF Circle!Next

LEMMA CircleStill ==
  ASSUME UNCHANGED <<room, members, won, locked, wallet>>
  PROVE  UNCHANGED Circle!vars
<1>1. \A r \in Rooms : Phase(r)' = Phase(r)
  BY DEF Phase
<1>2. [r \in Rooms |-> Phase(r)]' = [r \in Rooms |-> Phase(r)]
  BY <1>1
<1>3. \A r \in Rooms : Claims(r)' = Claims(r)
  BY DEF Claims, Claim
<1>4. [r \in Rooms |-> Claims(r)]' = [r \in Rooms |-> Claims(r)]
  BY <1>3
<1> QED BY <1>2, <1>4 DEF Circle!vars

-----------------------------------------------------------------------------
(* The steps, one by one.                                                  *)

LEMMA DepositMoney ==
  ASSUME MoneyInv, TypeOK', NEW r \in Rooms, NEW m \in Accounts, NEW amount \in Amounts,
         DepositRoom(r, m, amount)
  PROVE  Books' /\ Circle!Next
<1>1. TypeOK /\ amount \in Nat
  BY MoneyTypes, InputAssumption DEF MoneyInv
<1>2. /\ locked' = [locked EXCEPT ![r][m] = @ + amount]
      /\ roomPool' = [roomPool EXCEPT ![r] = @ + amount]
      /\ wallet' = [wallet EXCEPT ![m] = @ - amount] /\ vault' = vault + amount
      /\ installment[r] /\ room[r].status = "Open" /\ m \in members[r]
      /\ UNCHANGED <<room, members, installment, won>>
  BY DEF DepositRoom, PayIn, roomVars, drawVars
<1>3. /\ locked \in [Rooms -> [Accounts -> Nat]] /\ roomPool \in [Rooms -> Nat]
      /\ wallet \in [Accounts -> Nat] /\ vault \in Nat
  BY <1>1 DEF TypeOK
<1>4. Apart(r)
  BY <1>2, <1>3 DEF Apart
<1>5. LocksAt(r)'
  BY <1>2 DEF LocksAt
<1>6. /\ Claim(r, m) = locked[r][m] /\ Claim(r, m)' = locked[r][m] + amount
      /\ \A b \in Accounts \ {m} : Claim(r, b)' = Claim(r, b)
  BY <1>2, <1>3 DEF Claim
<1>7. /\ wallet'[m] = wallet[m] - amount /\ roomPool'[r] = roomPool[r] + amount
      /\ \A b \in Accounts \ {m} : wallet'[b] = wallet[b]
  BY <1>2, <1>3
<1>8. /\ wallet'[m] + Claim(r, m)' = wallet[m] + Claim(r, m)
      /\ vault' + Claim(r, m) = vault + Claim(r, m)'
      /\ roomPool'[r] + Claim(r, m) = roomPool[r] + Claim(r, m)'
  <2>1. locked[r][m] \in Nat /\ wallet[m] \in Nat /\ roomPool[r] \in Nat
    BY <1>3
  <2> QED BY <1>1, <1>2, <1>3, <1>6, <1>7, <2>1
<1>9. Books'
  BY <1>2, <1>4, <1>5, <1>6, <1>7, <1>8, OnePays
<1>10. Circle!Next
  <2>1. /\ members'[r] = members[r] \cup {m} /\ won'[r] = won[r]
        /\ room[r].status \in Unstarted /\ room'[r].status = "Open"
    BY <1>2 DEF Unstarted
  <2>2. Claim(r, m)' >= Claim(r, m)
    BY <1>1, <1>3, <1>6
  <2> QED BY <1>4, <1>6, <1>7, <1>8, <2>1, <2>2, Prefunds
<1> QED BY <1>9, <1>10

LEMMA JoinMoney ==
  ASSUME MoneyInv, TypeOK', NEW r \in Rooms, NEW code \in Codes, NEW m \in Accounts,
         JoinRoom(r, code, m)
  PROVE  Books' /\ Circle!Next
<1>1. TypeOK
  BY MoneyTypes DEF MoneyInv
<1>2. PICK price : price = SeatPrice(r)
  OBVIOUS
<1>3. PICK k : k = Cardinality(members[r]) + 1
  OBVIOUS
<1>4. /\ locked' = [locked EXCEPT ![r][m] = price]
      /\ members' = [members EXCEPT ![r] = @ \cup {m}]
      /\ room' = [room EXCEPT ![r].member_count = k]
      /\ wallet' = [wallet EXCEPT ![m] = @ - price] /\ vault' = vault + price
      /\ room[r].status = "Open" /\ m \notin members[r]
      /\ UNCHANGED <<installment, roomPool, won>>
  BY <1>2, <1>3 DEF JoinRoom, PayIn, drawVars
<1>5. /\ locked \in [Rooms -> [Accounts -> Nat]] /\ members \in [Rooms -> SUBSET Accounts]
      /\ room \in [Rooms -> RoomRecord] /\ roomPool \in [Rooms -> Nat]
      /\ wallet \in [Accounts -> Nat] /\ vault \in Nat
  BY <1>1 DEF TypeOK
<1>6. Apart(r)
  BY <1>4, <1>5 DEF Apart
<1>7. /\ room'[r].status = "Open" /\ room'[r].share = room[r].share
      /\ room'[r].member_target = room[r].member_target
  BY <1>4, <1>5 DEF RoomRecord
<1>8. LocksAt(r)'
  <2>1. Obligation(r)' = Obligation(r)
    BY <1>7 DEF Obligation
  <2>2. locked'[r][m] = price /\ members'[r] = members[r] \cup {m}
        /\ \A b \in Accounts \ {m} : locked'[r][b] = locked[r][b]
    BY <1>4, <1>5
  <2>3. ~installment[r] => price = Obligation(r)
    BY <1>2 DEF SeatPrice
  <2>4. ~installment[r] => \A b \in members[r] : locked[r][b] = Obligation(r)
    BY <1>4 DEF MoneyInv, Books, LocksAt
  <2>5. members[r] \subseteq Accounts
    BY <1>5
  <2> QED BY <1>4, <1>7, <2>1, <2>2, <2>3, <2>4, <2>5 DEF LocksAt
<1>9. /\ Claim(r, m) = 0 /\ Claim(r, m)' = price
      /\ \A b \in Accounts \ {m} : Claim(r, b)' = Claim(r, b)
  BY <1>4, <1>5, <1>7 DEF Claim
<1>10. /\ wallet'[m] = wallet[m] - price
       /\ \A b \in Accounts \ {m} : wallet'[b] = wallet[b]
  BY <1>4, <1>5
<1>11. price \in Nat
  <2>1. room[r].share \in Nat /\ room[r].member_target \in Nat
    BY <1>5 DEF RoomRecord
  <2>2. Obligation(r) \in Nat
    BY <2>1, ProductType DEF Obligation
  <2> QED BY <1>2, <2>2 DEF SeatPrice
<1>12. installment[r] => price = 0
  BY <1>2 DEF SeatPrice
<1>13. /\ wallet'[m] + Claim(r, m)' = wallet[m] + Claim(r, m)
       /\ vault' + Claim(r, m) = vault + Claim(r, m)'
       /\ installment[r] => roomPool'[r] + Claim(r, m) = roomPool[r] + Claim(r, m)'
  <2>1. wallet[m] \in Nat /\ roomPool[r] \in Nat
    BY <1>5
  <2> QED BY <1>4, <1>5, <1>9, <1>10, <1>11, <1>12, <2>1
<1>14. Books'
  BY <1>4, <1>6, <1>8, <1>9, <1>10, <1>13, OnePays
<1>15. Circle!Next
  <2>1. /\ members'[r] = members[r] \cup {m} /\ won'[r] = won[r]
        /\ room[r].status \in Unstarted
    BY <1>4, <1>5 DEF Unstarted
  <2>2. Claim(r, m)' >= Claim(r, m)
    BY <1>9, <1>11
  <2> QED BY <1>6, <1>7, <1>9, <1>10, <1>13, <2>1, <2>2, Prefunds
<1> QED BY <1>14, <1>15

LEMMA LeaveMoney ==
  ASSUME MoneyInv, TypeOK', NEW r \in Rooms, NEW m \in Accounts, LeaveRoom(r, m)
  PROVE  Books' /\ Circle!Next
<1>1. TypeOK
  BY MoneyTypes DEF MoneyInv
<1>2. /\ locked \in [Rooms -> [Accounts -> Nat]] /\ members \in [Rooms -> SUBSET Accounts]
      /\ room \in [Rooms -> RoomRecord] /\ roomPool \in [Rooms -> Nat]
      /\ wallet \in [Accounts -> Nat] /\ vault \in Nat
  BY <1>1 DEF TypeOK
<1>3. PICK due \in Nat : due = locked[r][m]
  BY <1>2
<1>4. Total(locked[r], {m}) = due
  BY <1>3, TotalSingle
<1>5. PICK k : k = Cardinality(members[r]) - 1
  OBVIOUS
<1>6. /\ wallet' = [a \in Accounts |-> IF a \in {m} THEN wallet[a] + locked[r][a] ELSE wallet[a]]
      /\ vault >= due /\ vault' = vault - due
      /\ roomPool' = [roomPool EXCEPT ![r] = IF installment[r] THEN @ - due ELSE @]
      /\ installment[r] => roomPool[r] >= due
      /\ locked' = [locked EXCEPT ![r] = [a \in Accounts |-> IF a \in {m} THEN 0 ELSE locked[r][a]]]
      /\ members' = [members EXCEPT ![r] = @ \ {m}]
      /\ room' = [room EXCEPT ![r].member_count = k]
      /\ room[r].status = "Open" /\ m \in members[r]
      /\ UNCHANGED <<installment, won>>
  BY <1>4, <1>5 DEF LeaveRoom, Refund, drawVars
<1>7. Apart(r)
  BY <1>2, <1>6 DEF Apart
<1>8. /\ room'[r].status = "Open" /\ room'[r].share = room[r].share
      /\ room'[r].member_target = room[r].member_target
  BY <1>2, <1>6 DEF RoomRecord
<1>9. /\ members'[r] = members[r] \ {m}
      /\ \A b \in Accounts \ {m} : locked'[r][b] = locked[r][b] /\ wallet'[b] = wallet[b]
      /\ wallet'[m] = wallet[m] + due
      /\ installment[r] => roomPool'[r] = roomPool[r] - due
  BY <1>2, <1>3, <1>6
<1>10. LocksAt(r)'
  <2>1. Obligation(r)' = Obligation(r)
    BY <1>8 DEF Obligation
  <2>2. ~installment[r] => \A b \in members[r] : locked[r][b] = Obligation(r)
    BY <1>6 DEF MoneyInv, Books, LocksAt
  <2>3. members[r] \subseteq Accounts
    BY <1>2
  <2> QED BY <1>6, <1>8, <1>9, <2>1, <2>2, <2>3 DEF LocksAt
<1>11. /\ Claim(r, m) = due /\ Claim(r, m)' = 0
       /\ \A b \in Accounts \ {m} : Claim(r, b)' = Claim(r, b)
  BY <1>3, <1>6, <1>8, <1>9 DEF Claim
<1>12. /\ wallet'[m] + Claim(r, m)' = wallet[m] + Claim(r, m)
       /\ vault' + Claim(r, m) = vault + Claim(r, m)'
       /\ installment[r] => roomPool'[r] + Claim(r, m) = roomPool[r] + Claim(r, m)'
  <2>1. wallet[m] \in Nat /\ roomPool[r] \in Nat
    BY <1>2
  <2> QED BY <1>2, <1>3, <1>6, <1>9, <1>11, <2>1
<1>13. Books'
  BY <1>6, <1>7, <1>9, <1>10, <1>11, <1>12, OnePays
<1>14. Circle!Next
  <2>1. Circle!PaysBack(r, {m})
    BY <1>9, <1>11, PaysBackAs
  <2> QED BY <1>6, <1>7, <1>8, <1>9, <2>1, Leaves
<1> QED BY <1>13, <1>14

\* What an Open room owes is what its members have locked.
LEMMA CancelMoney ==
  ASSUME MoneyInv, TypeOK', NEW r \in Rooms, NEW caller \in Accounts, CancelRoom(r, caller)
  PROVE  Books' /\ Circle!Next
<1>1. TypeOK
  BY MoneyTypes DEF MoneyInv
<1>2. /\ locked \in [Rooms -> [Accounts -> Nat]] /\ members \in [Rooms -> SUBSET Accounts]
      /\ room \in [Rooms -> RoomRecord] /\ roomPool \in [Rooms -> Nat]
      /\ wallet \in [Accounts -> Nat] /\ vault \in Nat
  BY <1>1 DEF TypeOK
<1>3. PICK due : due = Total(locked[r], members[r])
  OBVIOUS
<1>4. /\ wallet' = [a \in Accounts |-> IF a \in members[r] THEN wallet[a] + locked[r][a] ELSE wallet[a]]
      /\ vault >= due /\ vault' = vault - due
      /\ roomPool' = [roomPool EXCEPT ![r] = IF installment[r] THEN @ - due ELSE @]
      /\ locked' = [locked EXCEPT ![r] = [a \in Accounts |-> IF a \in members[r] THEN 0 ELSE locked[r][a]]]
      /\ room' = [room EXCEPT ![r].status = "Dissolved"]
      /\ room[r].status = "Open"
      /\ UNCHANGED <<members, installment, won>>
  BY <1>3 DEF CancelRoom, Refund, drawVars
<1>5. Apart(r)
  BY <1>2, <1>4 DEF Apart
<1>6. room'[r].status = "Dissolved"
  BY <1>2, <1>4 DEF RoomRecord
<1>7. LocksAt(r)'
  BY <1>6 DEF LocksAt
<1>8. \A a \in Accounts : /\ Claim(r, a) = IF a \in members[r] THEN locked[r][a] ELSE 0
                          /\ Claim(r, a)' = 0
  BY <1>4, <1>6 DEF Claim
<1>9. \A a \in Accounts : wallet'[a] + Claim(r, a)' = wallet[a] + Claim(r, a)
  BY <1>2, <1>4, <1>8
<1>10. Owes(r) = due
  <2>1. PICK f : f = Claims(r)
    OBVIOUS
  <2>2. \A a \in Accounts : f[a] = IF a \in members[r] THEN locked[r][a] ELSE 0
    BY <1>8, <2>1 DEF Claims
  <2>3. members[r] \subseteq Accounts
    BY <1>2
  <2>4. /\ \A a \in members[r] : f[a] = locked[r][a] /\ f[a] \in Nat
        /\ \A a \in Accounts \ members[r] : f[a] = 0
    BY <1>2, <2>2, <2>3
  <2>5. Total(f, Accounts) = Total(f, members[r])
    BY <2>3, <2>4, FiniteInstance, TotalWithin
  <2>6. Total(f, members[r]) = Total(locked[r], members[r])
    BY <2>4, TotalSame
  <2> QED BY <1>3, <2>1, <2>5, <2>6 DEF Owes
<1>11. Owes(r)' = 0
  <2>1. \A a \in Accounts : Claims(r)'[a] = 0
    BY <1>8 DEF Claims
  <2>2. Total(Claims(r)', Accounts) = 0
    BY <2>1, TotalZero
  <2> QED BY <2>2 DEF Owes
<1>12. due \in Nat
  BY <1>1, <1>10, OwesType
<1>13. vault' + Owes(r) = vault + Owes(r)'
  BY <1>2, <1>4, <1>10, <1>11, <1>12
<1>14. installment'[r] => roomPool'[r] = Owes(r)'
  <2> SUFFICES ASSUME installment'[r] PROVE roomPool'[r] = 0
    BY <1>11
  <2>1. installment[r]
    BY <1>4
  <2>2. roomPool[r] = due
    BY <1>10, <2>1 DEF MoneyInv, Books, PoolHoldsClaims
  <2> QED BY <1>2, <1>4, <1>12, <2>1, <2>2
<1>15. Books'
  BY <1>5, <1>7, <1>9, <1>13, <1>14, Booked
<1>16. Circle!Next
  <2>1. \A a \in Accounts : wallet'[a] = wallet[a] + Claim(r, a)
    BY <1>2, <1>4, <1>8
  <2>2. Circle!PaysBack(r, Accounts)
    BY <1>8, <2>1, PaysBackAs
  <2>3. members'[r] = members[r] /\ won'[r] = won[r]
    BY <1>4
  <2> QED BY <1>4, <1>5, <1>6, <2>2, <2>3, Dissolves
<1> QED BY <1>15, <1>16

\* A step that moves no tokens leaves the books alone if the claims stay.
LEMMA ClaimsStay ==
  ASSUME MoneyInv, TypeOK', NEW r \in Rooms, Apart(r), LocksAt(r)',
         \A a \in Accounts : Claim(r, a)' = Claim(r, a),
         UNCHANGED <<wallet, vault, roomPool, installment>>
  PROVE  Books'
<1>1. Owes(r)' = Owes(r)
  <2>1. \A a \in Accounts : Claims(r)'[a] = Claims(r)[a]
    BY DEF Claims
  <2>2. Total(Claims(r)', Accounts) = Total(Claims(r), Accounts)
    BY <2>1, TotalSame
  <2> QED BY <2>2 DEF Owes
<1>2. installment'[r] => roomPool'[r] = Owes(r)'
  BY <1>1 DEF MoneyInv, Books, PoolHoldsClaims
<1>3. /\ \A a \in Accounts : wallet'[a] + Claim(r, a)' = wallet[a] + Claim(r, a)
      /\ vault' + Owes(r) = vault + Owes(r)'
  BY <1>1
<1> QED BY <1>2, <1>3, Booked

\* A full room that starts has been paid for whole by each of its members.
LEMMA StartMoney ==
  ASSUME MoneyInv, TypeOK', NEW r \in Rooms, NEW caller \in Accounts, StartRoom(r, caller)
  PROVE  Books' /\ Circle!Next
<1>1. TypeOK
  BY MoneyTypes DEF MoneyInv
<1>2. PICK first : first = FirstKocok(r)
  OBVIOUS
<1>3. /\ room' = [room EXCEPT ![r].status = "Active", ![r].round = 1,
                              ![r].member_count = room[r].member_target,
                              ![r].first_kocok = first]
      /\ room[r].status = "Open"
      /\ installment[r] => FullyFunded(r)
      /\ UNCHANGED <<members, installment, locked, roomPool, wallet, vault, won>>
  BY <1>2 DEF StartRoom, moneyVars
<1>4. room \in [Rooms -> RoomRecord]
  BY <1>1 DEF TypeOK
<1>5. Apart(r)
  BY <1>3, <1>4 DEF Apart
<1>6. /\ room'[r].status = "Active" /\ room'[r].share = room[r].share
      /\ room'[r].member_count = room[r].member_target
  BY <1>3, <1>4 DEF RoomRecord
<1>7. won[r] = {}
  <2>1. CycleAt(r)
    BY DEF MoneyInv, CycleInv
  <2> QED BY <1>3, <2>1 DEF CycleAt, Unstarted
<1>8. LocksAt(r)'
  <2>1. Pot(r)' = Obligation(r)
    BY <1>6 DEF Pot, Obligation
  <2>2. \A m \in members[r] : locked[r][m] = Obligation(r)
    <3>1. LocksAt(r)
      BY DEF MoneyInv, Books
    <3>2. ~installment[r] => \A m \in members[r] : locked[r][m] = Obligation(r)
      BY <1>3, <3>1 DEF LocksAt
    <3>3. installment[r] => \A m \in members[r] : locked[r][m] = Obligation(r)
      BY <1>3 DEF FullyFunded
    <3> QED BY <3>2, <3>3
  <2> QED BY <1>3, <1>6, <2>1, <2>2 DEF LocksAt
<1>9. \A a \in Accounts : Claim(r, a)' = Claim(r, a)
  <2>1. members'[r] = members[r] /\ won'[r] = {} /\ locked'[r] = locked[r]
    BY <1>3, <1>7
  <2> QED BY <1>3, <1>6, <1>7, <2>1 DEF Claim
<1>10. Books'
  BY <1>3, <1>5, <1>8, <1>9, ClaimsStay
<1>11. Circle!Next
  <2>1. Circle!PaysBack(r, {})
    BY <1>3, <1>9, PaysBackAs
  <2>2. \A m \in members[r] : Claim(r, m) = Pot(r)'
    <3>1. \A m \in members'[r] : locked'[r][m] = Pot(r)'
      BY <1>6, <1>8 DEF LocksAt
    <3> QED BY <1>3, <3>1 DEF Claim
  <2>3. members[r] \subseteq Accounts
    BY <1>1 DEF TypeOK
  <2>4. PICK pot : pot = Pot(r)'
    OBVIOUS
  <2> QED BY <1>3, <1>5, <1>6, <1>7, <2>1, <2>2, <2>3, <2>4, Closes
<1> QED BY <1>10, <1>11

\* The winner is paid what it was owed, one pot.
LEMMA FinalizeMoney ==
  ASSUME MoneyInv, TypeOK', CycleInv', NEW r \in Rooms, NEW caller \in Accounts, FinalizeDraw(r, caller)
  PROVE  Books' /\ Circle!Next
<1>1. TypeOK
  BY MoneyTypes DEF MoneyInv
<1>2. /\ locked \in [Rooms -> [Accounts -> Nat]] /\ members \in [Rooms -> SUBSET Accounts]
      /\ room \in [Rooms -> RoomRecord] /\ roomPool \in [Rooms -> Nat]
      /\ wallet \in [Accounts -> Nat] /\ vault \in Nat /\ won \in [Rooms -> SUBSET Accounts]
  BY <1>1 DEF TypeOK
<1>3. PICK pot \in Nat : pot = Pot(r)
  <2>1. room[r].share \in Nat /\ room[r].member_count \in Nat
    BY <1>2 DEF RoomRecord
  <2> QED BY <2>1, ProductType DEF Pot
<1>4. PICK w \in DrawPool(r) : PayOut(w, pot) /\ won' = [won EXCEPT ![r] = won[r] \cup {w}]
  BY <1>3 DEF FinalizeDraw, WonAfter
<1>5. w \in members[r] \ won[r] /\ w \in Accounts
  BY <1>2, <1>4 DEF DrawPool, Revealers
<1>6. /\ wallet' = [wallet EXCEPT ![w] = @ + pot] /\ vault >= pot /\ vault' = vault - pot
      /\ roomPool' = [roomPool EXCEPT ![r] = IF installment[r] THEN @ - pot ELSE @]
      /\ installment[r] => roomPool[r] >= pot
      /\ room[r].status = "Active"
      /\ UNCHANGED <<members, installment, locked>>
  BY <1>3, <1>4 DEF FinalizeDraw, PayOut
<1>7. PICK next : next = NextRound(r)
  OBVIOUS
<1>8. IF LastRound(r) THEN room' = [room EXCEPT ![r].status = "Done", ![r].round = next]
                      ELSE room' = [room EXCEPT ![r].round = next]
  BY <1>7 DEF FinalizeDraw
<1>9. Apart(r)
  BY <1>2, <1>4, <1>6, <1>8 DEF Apart
<1>10. /\ room'[r].status \in {"Active", "Done"}
       /\ Pot(r)' = Pot(r)
  <2>1. /\ room'[r].share = room[r].share /\ room'[r].member_count = room[r].member_count
        /\ room'[r].status \in {"Active", "Done"}
    BY <1>2, <1>6, <1>8 DEF RoomRecord
  <2> QED BY <2>1 DEF Pot
<1>11. \A m \in members[r] : locked[r][m] = pot
  BY <1>3, <1>6 DEF MoneyInv, Books, LocksAt
<1>12. LocksAt(r)'
  BY <1>3, <1>6, <1>10, <1>11 DEF LocksAt
<1>13. room'[r].status = "Done" => won'[r] = members[r]
  <2>1. CycleAt(r)'
    BY DEF CycleInv
  <2> QED BY <1>6, <2>1 DEF CycleAt
<1>14. /\ Claim(r, w) = pot /\ Claim(r, w)' = 0
       /\ \A b \in Accounts \ {w} : Claim(r, b)' = Claim(r, b)
  <2>1. won'[r] = won[r] \cup {w}
    BY <1>2, <1>4
  <2>2. \A b \in Accounts : /\ Claim(r, b) = IF b \in members[r] \ won[r] THEN locked[r][b] ELSE 0
                            /\ Claim(r, b)' = IF b \in members[r] \ won'[r] THEN locked[r][b] ELSE 0
    BY <1>6, <1>10, <1>13 DEF Claim
  <2> QED BY <1>5, <1>11, <2>1, <2>2
<1>15. /\ wallet'[w] = wallet[w] + pot
       /\ \A b \in Accounts \ {w} : wallet'[b] = wallet[b]
       /\ installment[r] => roomPool'[r] = roomPool[r] - pot
  BY <1>2, <1>5, <1>6
<1>16. /\ wallet'[w] + Claim(r, w)' = wallet[w] + Claim(r, w)
       /\ vault' + Claim(r, w) = vault + Claim(r, w)'
       /\ installment[r] => roomPool'[r] + Claim(r, w) = roomPool[r] + Claim(r, w)'
  <2>1. wallet[w] \in Nat /\ roomPool[r] \in Nat
    BY <1>2, <1>5
  <2> QED BY <1>2, <1>3, <1>6, <1>14, <1>15, <2>1
<1>17. Books'
  BY <1>5, <1>6, <1>9, <1>12, <1>14, <1>15, <1>16, OnePays
<1>18. Circle!Next
  <2>1. won'[r] = won[r] \cup {w}
    BY <1>2, <1>4
  <2>2. room'[r].status = IF won'[r] = members[r] THEN "Done" ELSE "Active"
    <3>1. ASSUME room'[r].status = "Active" PROVE won'[r] # members'[r]
      <4>1. SUFFICES ASSUME won'[r] = members'[r] PROVE FALSE
        OBVIOUS
      <4>2. /\ Cardinality(members'[r]) = room'[r].member_count
            /\ room'[r].round = Cardinality(members'[r]) + 1
        <5>1. CycleAt(r)'
          BY DEF CycleInv
        <5> QED BY <3>1, <4>1, <5>1 DEF CycleAt, Started
      <4>3. room'[r].round <= room'[r].member_count /\ room'[r].member_count \in Nat
        <5>1. RoundsBounded' /\ TypeOK'
          BY DEF CycleInv, DrawInv, TypeInv
        <5> QED BY <3>1, <5>1 DEF RoundsBounded, TypeOK, RoomRecord
      <4> QED BY <4>2, <4>3
    <3>2. members'[r] = members[r]
      BY <1>6
    <3> QED BY <1>10, <1>13, <3>1, <3>2
  <2>3. \A b \in Accounts \ {w} : wallet'[b] = wallet[b] /\ Claim(r, b)' = Claim(r, b)
    BY <1>14, <1>15
  <2>4. Circle!PaysBack(r, {w})
    BY <1>5, <1>14, <1>15, <2>3, PaysBackAs
  <2> QED BY <1>5, <1>6, <1>9, <2>1, <2>2, <2>4, Turns
<1> QED BY <1>17, <1>18

\* What an Active room owes is a pot to each member it has not paid.
LEMMA DissolveMoney ==
  ASSUME MoneyInv, TypeOK', NEW r \in Rooms, NEW caller \in Accounts, EmergencyDissolve(r, caller)
  PROVE  Books' /\ Circle!Next
<1>1. TypeOK
  BY MoneyTypes DEF MoneyInv
<1>2. /\ locked \in [Rooms -> [Accounts -> Nat]] /\ members \in [Rooms -> SUBSET Accounts]
      /\ room \in [Rooms -> RoomRecord] /\ roomPool \in [Rooms -> Nat]
      /\ wallet \in [Accounts -> Nat] /\ vault \in Nat
  BY <1>1 DEF TypeOK
<1>3. PICK pot \in Nat : pot = Pot(r)
  <2>1. room[r].share \in Nat /\ room[r].member_count \in Nat
    BY <1>2 DEF RoomRecord
  <2> QED BY <2>1, ProductType DEF Pot
<1>4. PICK U : U = Unpaid(r)
  OBVIOUS
<1>5. PICK due : due = pot * Cardinality(U)
  OBVIOUS
<1>6. /\ wallet' = [a \in Accounts |-> IF a \in U THEN wallet[a] + pot ELSE wallet[a]]
      /\ vault >= due /\ vault' = vault - due
      /\ roomPool' = [roomPool EXCEPT ![r] = IF installment[r] THEN @ - due ELSE @]
      /\ room' = [room EXCEPT ![r].status = "Dissolved"]
      /\ room[r].status = "Active"
      /\ UNCHANGED <<members, installment, locked, won>>
  BY <1>3, <1>4, <1>5 DEF EmergencyDissolve, drawVars
<1>7. Apart(r)
  BY <1>2, <1>6 DEF Apart
<1>8. room'[r].status = "Dissolved"
  BY <1>2, <1>6 DEF RoomRecord
<1>9. LocksAt(r)'
  BY <1>8 DEF LocksAt
<1>10. U \subseteq Accounts /\ U \subseteq members[r] /\ U = members[r] \ won[r]
  BY <1>2, <1>4 DEF Unpaid
<1>11. \A a \in Accounts : /\ Claim(r, a) = IF a \in U THEN pot ELSE 0
                           /\ Claim(r, a)' = 0
  <2>1. \A m \in members[r] : locked[r][m] = pot
    BY <1>3, <1>6 DEF MoneyInv, Books, LocksAt
  <2> QED BY <1>6, <1>8, <1>10, <2>1 DEF Claim
<1>12. \A a \in Accounts : wallet'[a] + Claim(r, a)' = wallet[a] + Claim(r, a)
  BY <1>2, <1>3, <1>6, <1>11
<1>13. Owes(r) = due
  <2>1. PICK f : f = Claims(r)
    OBVIOUS
  <2>2. /\ \A a \in U : f[a] = pot /\ f[a] \in Nat
        /\ \A a \in Accounts \ U : f[a] = 0
    BY <1>3, <1>10, <1>11, <2>1 DEF Claims
  <2>3. Total(f, Accounts) = Total(f, U)
    BY <1>10, <2>2, FiniteInstance, TotalWithin
  <2>4. IsFiniteSet(U)
    BY <1>10, FiniteInstance, FS_Subset
  <2>5. Total(f, U) = pot * Cardinality(U)
    BY <1>3, <2>2, <2>4, TotalTimes
  <2> QED BY <1>5, <2>1, <2>3, <2>5 DEF Owes
<1>14. Owes(r)' = 0
  <2>1. \A a \in Accounts : Claims(r)'[a] = 0
    BY <1>11 DEF Claims
  <2>2. Total(Claims(r)', Accounts) = 0
    BY <2>1, TotalZero
  <2> QED BY <2>2 DEF Owes
<1>15. due \in Nat
  BY <1>1, <1>13, OwesType
<1>16. vault' + Owes(r) = vault + Owes(r)'
  BY <1>2, <1>6, <1>13, <1>14, <1>15
<1>17. installment'[r] => roomPool'[r] = Owes(r)'
  <2> SUFFICES ASSUME installment'[r] PROVE roomPool'[r] = 0
    BY <1>14
  <2>1. installment[r]
    BY <1>6
  <2>2. roomPool[r] = due
    BY <1>13, <2>1 DEF MoneyInv, Books, PoolHoldsClaims
  <2> QED BY <1>2, <1>6, <1>15, <2>1, <2>2
<1>18. Books'
  BY <1>7, <1>9, <1>12, <1>16, <1>17, Booked
<1>19. Circle!Next
  <2>1. \A a \in Accounts : wallet'[a] = wallet[a] + Claim(r, a)
    BY <1>2, <1>3, <1>6, <1>11
  <2>2. Circle!PaysBack(r, Accounts)
    BY <1>11, <2>1, PaysBackAs
  <2>3. members'[r] = members[r] /\ won'[r] = won[r]
    BY <1>6
  <2> QED BY <1>6, <1>7, <1>8, <2>2, <2>3, Dissolves
<1> QED BY <1>18, <1>19

\* A creation fills the next free room, which holds nothing yet.
LEMMA FreeRoom ==
  ASSUME MoneyInv, NEW record, SeatHost(record), record.status = "Open"
  PROVE  \E r \in Rooms :
           /\ r = roomCount + 1
           /\ room[r].status = "Missing" /\ members[r] = {}
           /\ ~installment[r] /\ roomPool[r] = 0
           /\ \A a \in Accounts : locked[r][a] = 0 /\ Claim(r, a) = 0
           /\ room' = [room EXCEPT ![r] = record] /\ room'[r] = record
           /\ members' = [members EXCEPT ![r] = {record.host}]
           /\ members'[r] = {record.host}
<1>1. /\ TypeOK /\ RoomsInOrder
  BY MoneyTypes DEF MoneyInv, CycleInv, DrawInv
<1>2. PICK r \in Rooms : r = roomCount + 1
  BY <1>1, BoundsAssumption DEF SeatHost, TypeOK, Rooms
<1>3. room[r].status = "Missing"
  <2>1. roomCount \in Nat
    BY <1>1, BoundsAssumption DEF TypeOK
  <2> QED BY <1>1, <1>2, <2>1 DEF RoomsInOrder, Rooms
<1>4. LocksAt(r)
  BY DEF MoneyInv, Books
<1>5. /\ members[r] = {} /\ ~installment[r] /\ roomPool[r] = 0
      /\ \A a \in Accounts : locked[r][a] = 0 /\ Claim(r, a) = 0
  BY <1>3, <1>4 DEF LocksAt, Claim
<1>6. /\ room' = [room EXCEPT ![r] = record] /\ room'[r] = record
      /\ members' = [members EXCEPT ![r] = {record.host}]
      /\ members'[r] = {record.host}
  BY <1>1, <1>2 DEF SeatHost, TypeOK
<1> QED BY <1>2, <1>3, <1>5, <1>6

LEMMA CreateRoomMoney ==
  ASSUME MoneyInv, TypeOK', NEW h \in Accounts, NEW code \in Codes, NEW t \in LegacyTerms,
         CreateRoom(h, code, t)
  PROVE  Books' /\ Circle!Next
<1>1. TypeOK
  BY MoneyTypes DEF MoneyInv
<1>2. PICK record : record = NewRoom(h, code, t, t.cadence, t.first_kocok, t.join_deadline)
  OBVIOUS
<1>3. /\ record.status = "Open" /\ record.host = h
      /\ record.share = t.share /\ record.member_target = t.member_target
  BY <1>2 DEF NewRoom
<1>4. PICK total \in Nat : total = t.share * t.member_target
  BY InputAssumption, ProductType
<1>5. /\ SeatHost(record) /\ wallet[h] >= total
      /\ wallet' = [wallet EXCEPT ![h] = @ - total] /\ vault' = vault + total
      /\ locked' = [locked EXCEPT ![roomCount + 1][h] = total]
      /\ UNCHANGED <<installment, roomPool, won>>
  BY <1>2, <1>4 DEF CreateRoom, PayIn, drawVars
<1>6. PICK r \in Rooms :
        /\ r = roomCount + 1
        /\ room[r].status = "Missing" /\ members[r] = {}
        /\ ~installment[r] /\ roomPool[r] = 0
        /\ \A a \in Accounts : locked[r][a] = 0 /\ Claim(r, a) = 0
        /\ room' = [room EXCEPT ![r] = record] /\ room'[r] = record
        /\ members' = [members EXCEPT ![r] = {record.host}]
        /\ members'[r] = {record.host}
  BY <1>3, <1>5, FreeRoom
<1>7. /\ locked \in [Rooms -> [Accounts -> Nat]] /\ members \in [Rooms -> SUBSET Accounts]
      /\ room \in [Rooms -> RoomRecord] /\ wallet \in [Accounts -> Nat] /\ vault \in Nat
  BY <1>1 DEF TypeOK
<1>8. /\ locked'[r][h] = total
      /\ \A a \in Accounts \ {h} : locked'[r][a] = 0 /\ wallet'[a] = wallet[a]
      /\ wallet'[h] = wallet[h] - total
  BY <1>5, <1>6, <1>7
<1>9. Apart(r)
  BY <1>5, <1>6, <1>7 DEF Apart
<1>10. LocksAt(r)'
  <2>1. Obligation(r)' = total
    BY <1>3, <1>4, <1>6 DEF Obligation
  <2> QED BY <1>3, <1>6, <1>8, <2>1 DEF LocksAt
<1>11. /\ Claim(r, h) = 0 /\ Claim(r, h)' = total
       /\ \A a \in Accounts \ {h} : Claim(r, a)' = Claim(r, a)
  BY <1>3, <1>6, <1>8 DEF Claim
<1>12. /\ wallet'[h] + Claim(r, h)' = wallet[h] + Claim(r, h)
       /\ vault' + Claim(r, h) = vault + Claim(r, h)'
  <2>1. wallet[h] \in Nat
    BY <1>7
  <2> QED BY <1>4, <1>5, <1>7, <1>8, <1>11, <2>1
<1>13. ~installment'[r]
  BY <1>5, <1>6
<1>14. Books'
  BY <1>8, <1>9, <1>10, <1>11, <1>12, <1>13, OnePays
<1>15. Circle!Next
  <2>1. /\ members'[r] = members[r] \cup {h} /\ won'[r] = won[r]
        /\ room[r].status \in Unstarted /\ room'[r].status = "Open"
    BY <1>3, <1>5, <1>6 DEF Unstarted
  <2>2. Claim(r, h)' >= Claim(r, h)
    BY <1>4, <1>11
  <2>3. \A a \in Accounts \ {h} : Claim(r, a)' = Claim(r, a) /\ wallet'[a] = wallet[a]
    BY <1>8, <1>11
  <2> QED BY <1>9, <1>12, <2>1, <2>2, <2>3, Prefunds
<1> QED BY <1>14, <1>15

\* An installment room starts with nothing paid.
LEMMA EmptyRoomMoney ==
  ASSUME MoneyInv, TypeOK', NEW record, SeatHost(record), record.status = "Open",
         record.host \in Accounts, installment' = [installment EXCEPT ![roomCount + 1] = TRUE],
         UNCHANGED <<wallet, vault, roomPool, locked, won>>
  PROVE  Books' /\ Circle!Next
<1>1. TypeOK
  BY MoneyTypes DEF MoneyInv
<1>2. PICK r \in Rooms :
        /\ r = roomCount + 1
        /\ room[r].status = "Missing" /\ members[r] = {}
        /\ ~installment[r] /\ roomPool[r] = 0
        /\ \A a \in Accounts : locked[r][a] = 0 /\ Claim(r, a) = 0
        /\ room' = [room EXCEPT ![r] = record] /\ room'[r] = record
        /\ members' = [members EXCEPT ![r] = {record.host}]
        /\ members'[r] = {record.host}
  BY FreeRoom
<1>3. /\ installment \in [Rooms -> BOOLEAN] /\ members \in [Rooms -> SUBSET Accounts]
      /\ room \in [Rooms -> RoomRecord] /\ vault \in Nat
  BY <1>1 DEF TypeOK
<1>4. installment'[r] /\ \A p \in Rooms \ {r} : installment'[p] = installment[p]
  BY <1>2, <1>3
<1>5. Apart(r)
  BY <1>2, <1>3, <1>4 DEF Apart
<1>6. LocksAt(r)'
  BY <1>2, <1>4 DEF LocksAt
<1>7. \A a \in Accounts : Claim(r, a) = 0 /\ Claim(r, a)' = 0
  BY <1>2 DEF Claim
<1>8. Owes(r) = 0 /\ Owes(r)' = 0
  <2>1. \A a \in Accounts : Claims(r)[a] = 0 /\ Claims(r)'[a] = 0
    BY <1>7 DEF Claims
  <2>2. Total(Claims(r), Accounts) = 0 /\ Total(Claims(r)', Accounts) = 0
    BY <2>1, TotalZero
  <2> QED BY <2>2 DEF Owes
<1>9. roomPool'[r] = Owes(r)' /\ vault' + Owes(r) = vault + Owes(r)'
  BY <1>2, <1>8
<1>10. \A a \in Accounts : wallet'[a] + Claim(r, a)' = wallet[a] + Claim(r, a)
  BY <1>7
<1>11. Books'
  BY <1>5, <1>6, <1>9, <1>10, Booked
<1>12. Circle!Next
  <2>1. /\ members'[r] = members[r] \cup {record.host} /\ won'[r] = won[r]
        /\ room[r].status \in Unstarted /\ room'[r].status = "Open"
    BY <1>2 DEF Unstarted
  <2>2. Claim(r, record.host)' >= Claim(r, record.host)
    BY <1>7
  <2>3. \A a \in Accounts \ {record.host} : Claim(r, a)' = Claim(r, a) /\ wallet'[a] = wallet[a]
    BY <1>7
  <2>4. wallet'[record.host] + Claim(r, record.host)' = wallet[record.host] + Claim(r, record.host)
    BY <1>7
  <2> QED BY <1>5, <2>1, <2>2, <2>3, <2>4, Prefunds
<1> QED BY <1>11, <1>12

LEMMA CreateInstallmentMoney ==
  ASSUME MoneyInv, TypeOK', NEW h \in Accounts, NEW code \in Codes,
         \/ \E t \in InstallmentTerms : CreateInstallmentRoom(h, code, t)
         \/ \E t \in ScheduledTerms : CreateScheduledRoom(h, code, t)
  PROVE  Books' /\ Circle!Next
<1>1. PICK record : SeatHost(record) /\ record.status = "Open" /\ record.host = h
  <2>1. \A t, cadence, first, deadline :
          /\ NewRoom(h, code, t, cadence, first, deadline).status = "Open"
          /\ NewRoom(h, code, t, cadence, first, deadline).host = h
    BY DEF NewRoom
  <2>2. \E t, cadence, first, deadline :
          SeatHost(NewRoom(h, code, t, cadence, first, deadline))
    BY Zenon DEF CreateInstallmentRoom, CreateScheduledRoom
  <2> QED BY <2>1, <2>2
<1>2. /\ installment' = [installment EXCEPT ![roomCount + 1] = TRUE]
      /\ UNCHANGED <<wallet, vault, roomPool, locked, won>>
  BY Zenon DEF CreateInstallmentRoom, CreateScheduledRoom, moneyVars, drawVars
<1> QED BY <1>1, <1>2, EmptyRoomMoney

\* The clock, the deployment and a draw before its payout move no tokens.
LEMMA NoMoney ==
  ASSUME MoneyInv, UNCHANGED <<roomVars, moneyVars, won>>
  PROVE  Books' /\ UNCHANGED Circle!vars
<1>1. UNCHANGED <<room, members, installment, won, locked, roomPool, wallet, vault>>
  BY DEF roomVars, moneyVars
<1>2. \A r \in Rooms : LocksAt(r)'
  BY <1>1 DEF MoneyInv, Books, LocksAt, Obligation, Pot
<1>3. \A r \in Rooms, a \in Accounts : Claim(r, a)' = Claim(r, a)
  BY <1>1 DEF Claim
<1>4. MemberWhole'
  <2> SUFFICES ASSUME NEW a \in Accounts PROVE wallet'[a] + Total(Owed(a)', Rooms) = Wealth
    BY DEF MemberWhole
  <2>1. \A r \in Rooms : Owed(a)'[r] = Owed(a)[r]
    BY <1>3 DEF Owed
  <2>2. Total(Owed(a)', Rooms) = Total(Owed(a), Rooms)
    BY <2>1, TotalSame
  <2>3. wallet[a] + Total(Owed(a), Rooms) = Wealth
    BY DEF MoneyInv, Books, MemberWhole
  <2> QED BY <1>1, <2>2, <2>3
<1>5. \A r \in Rooms : Owes(r)' = Owes(r)
  <2> SUFFICES ASSUME NEW r \in Rooms PROVE Total(Claims(r)', Accounts) = Total(Claims(r), Accounts)
    BY DEF Owes
  <2>1. \A a \in Accounts : Claims(r)'[a] = Claims(r)[a]
    BY <1>3 DEF Claims
  <2> QED BY <2>1, TotalSame
<1>6. Total(Debts', Rooms) = Total(Debts, Rooms)
  <2>1. \A r \in Rooms : Debts'[r] = Debts[r]
    BY <1>5 DEF Debts
  <2> QED BY <2>1, TotalSame
<1>7. PoolHoldsClaims'
  <2>1. vault = Total(Debts, Rooms)
    BY DEF MoneyInv, Books, PoolHoldsClaims
  <2>2. \A r \in Rooms : installment[r] => roomPool[r] = Owes(r)
    BY DEF MoneyInv, Books, PoolHoldsClaims
  <2>3. vault' = Total(Debts', Rooms)
    BY <1>1, <1>6, <2>1
  <2>4. \A r \in Rooms : installment'[r] => roomPool'[r] = Owes(r)'
    BY <1>1, <1>5, <2>2
  <2> QED BY <2>3, <2>4 DEF PoolHoldsClaims
<1>8. UNCHANGED Circle!vars
  BY <1>1, CircleStill
<1> QED BY <1>2, <1>4, <1>7, <1>8 DEF Books

LEMMA MoneyInit == Init => MoneyInv
<1> SUFFICES ASSUME Init PROVE MoneyInv
  OBVIOUS
<1>1. CycleInv
  BY CycleInit
<1>2. /\ \A r \in Rooms : /\ room[r].status = "Missing" /\ members[r] = {}
                          /\ ~installment[r] /\ roomPool[r] = 0
      /\ \A r \in Rooms, a \in Accounts : locked[r][a] = 0
      /\ \A a \in Accounts : wallet[a] = Wealth
      /\ vault = 0
  BY DEF Init, NoRoom
<1>3. \A r \in Rooms : LocksAt(r)
  BY <1>2 DEF LocksAt
<1>4. \A r \in Rooms, a \in Accounts : Claim(r, a) = 0
  BY <1>2 DEF Claim
<1>5. MemberWhole
  <2> SUFFICES ASSUME NEW a \in Accounts PROVE wallet[a] + Total(Owed(a), Rooms) = Wealth
    BY DEF MemberWhole
  <2>1. \A r \in Rooms : Owed(a)[r] = 0
    BY <1>4 DEF Owed
  <2>2. Total(Owed(a), Rooms) = 0
    BY <2>1, TotalZero
  <2> QED BY <1>2, <2>2, BoundsAssumption
<1>6. \A r \in Rooms : Owes(r) = 0
  <2> SUFFICES ASSUME NEW r \in Rooms PROVE Total(Claims(r), Accounts) = 0
    BY DEF Owes
  <2>1. \A a \in Accounts : Claims(r)[a] = 0
    BY <1>4 DEF Claims
  <2> QED BY <2>1, TotalZero
<1>7. Total(Debts, Rooms) = 0
  <2>1. \A r \in Rooms : Debts[r] = 0
    BY <1>6 DEF Debts
  <2> QED BY <2>1, TotalZero
<1>8. PoolHoldsClaims
  BY <1>2, <1>6, <1>7 DEF PoolHoldsClaims
<1> QED BY <1>1, <1>3, <1>5, <1>8 DEF MoneyInv, Books

LEMMA MoneyStep ==
  MoneyInv /\ [Next]_vars => MoneyInv' /\ [Circle!Next]_(Circle!vars)
<1> SUFFICES ASSUME MoneyInv, [Next]_vars PROVE MoneyInv' /\ [Circle!Next]_(Circle!vars)
  OBVIOUS
<1> DEFINE P == Books' /\ [Circle!Next]_(Circle!vars)
<1>1. CycleInv'
  BY CycleStep DEF MoneyInv
<1>2. TypeOK'
  BY <1>1 DEF CycleInv, DrawInv, TypeInv
<1>3. /\ UNCHANGED vars => P
      /\ Tick => P
      /\ Initialize => P
      /\ InitializeScheduled => P
  BY NoMoney, Zenon DEF Tick, Initialize, InitializeScheduled, vars, drawVars
<1>4. \A h \in Accounts, code \in Codes :
        /\ \A t \in LegacyTerms : CreateRoom(h, code, t) => P
        /\ \A t \in InstallmentTerms : CreateInstallmentRoom(h, code, t) => P
        /\ \A t \in ScheduledTerms : CreateScheduledRoom(h, code, t) => P
  BY <1>2, CreateRoomMoney, CreateInstallmentMoney
<1>5. ASSUME NEW r \in Rooms, NEW a \in Accounts
      PROVE  /\ \A amount \in Amounts : DepositRoom(r, a, amount) => P
             /\ \A code \in Codes : JoinRoom(r, code, a) => P
             /\ LeaveRoom(r, a) => P
             /\ StartRoom(r, a) => P
             /\ CancelRoom(r, a) => P
             /\ \A hash \in CommitInputs(r, a) : CommitDraw(r, a, hash) => P
             /\ \A secret \in Secrets : RevealDraw(r, a, secret) => P
             /\ FinalizeDraw(r, a) => P
             /\ \A delay \in Delays : PostponeKocok(r, a, delay) => P
             /\ EmergencyDissolve(r, a) => P
  <2>1. /\ \A hash : CommitDraw(r, a, hash) => P
        /\ \A secret : RevealDraw(r, a, secret) => P
        /\ \A delay : PostponeKocok(r, a, delay) => P
    BY NoMoney, Zenon DEF CommitDraw, RevealDraw, PostponeKocok
  <2>2. /\ \A amount \in Amounts : DepositRoom(r, a, amount) => P
        /\ \A code \in Codes : JoinRoom(r, code, a) => P
        /\ LeaveRoom(r, a) => P
        /\ StartRoom(r, a) => P
    BY <1>2, DepositMoney, JoinMoney, LeaveMoney, StartMoney
  <2>3. /\ CancelRoom(r, a) => P
        /\ FinalizeDraw(r, a) => P
        /\ EmergencyDissolve(r, a) => P
    BY <1>1, <1>2, CancelMoney, FinalizeMoney, DissolveMoney
  <2> QED BY <2>1, <2>2, <2>3
<1>6. P
  BY <1>3, <1>4, <1>5, NextCases, Zenon
<1> QED BY <1>1, <1>6 DEF MoneyInv

LEMMA CircleInit == Init => Circle!Init
<1> SUFFICES ASSUME Init PROVE Circle!Init
  OBVIOUS
<1>1. \A r \in Rooms : Phase(r) = "Open" /\ \A a \in Accounts : Claim(r, a) = 0
  BY DEF Init, NoRoom, Phase, Claim
<1>2. [r \in Rooms |-> Phase(r)] = [r \in Rooms |-> "Open"]
  BY <1>1
<1>3. [r \in Rooms |-> Claims(r)] = [r \in Rooms |-> [a \in Accounts |-> 0]]
  BY <1>1 DEF Claims
<1> QED BY <1>2, <1>3 DEF Init, Circle!Init

LEMMA MoneyInvHolds == Spec => []MoneyInv
BY MoneyInit, MoneyStep, PTL DEF Spec

\* Whatever order of joins, deposits, draws, leaves, cancellations and
\* dissolutions led there, no account is ever poorer, or richer, than what its
\* rooms owe it explains.
THEOREM NobodyLoses == Spec => []MemberWhole
<1>1. MoneyInv => MemberWhole
  BY DEF MoneyInv, Books
<1> QED BY <1>1, MoneyInvHolds, PTL

\* The contract's one token balance is always what its rooms owe, and an
\* installment room's own pool what that room owes.
THEOREM PoolsBacked == Spec => []PoolHoldsClaims
<1>1. MoneyInv => PoolHoldsClaims
  BY DEF MoneyInv, Books
<1> QED BY <1>1, MoneyInvHolds, PTL

\* Every room is a rotation among members who put in the same, whatever the
\* calls: each of its steps is one of the rotation's, or none of them.
THEOREM RoomsAreRotations == Spec => TurnsAsPromised
BY CircleInit, MoneyStep, MoneyInvHolds, PTL DEF Spec, TurnsAsPromised, Circle!Spec

\* The balance, and an installment room's own pool, suffice for an amount.
Covers(r, amount) == vault >= amount /\ (installment[r] => roomPool[r] >= amount)

\* "So the prefunded pool cannot be stranded" (lib.rs header), the part that
\* needs no fairness: whatever happened in this and in every other room, there is
\* always a member left to draw, and tokens for the next payout, for dissolving
\* the room, for each member to leave and for a cancellation.  None of these
\* calls can fail in its transfers, only for its caller or its date.
PayoutsCovered ==
  \A r \in Rooms :
    /\ room[r].status = "Open" =>
         /\ Covers(r, Total(locked[r], members[r]))
         /\ \A m \in members[r] : Covers(r, Total(locked[r], {m}))
    /\ room[r].status = "Active" =>
         /\ DrawPool(r) # {}
         /\ Covers(r, Pot(r)) /\ Covers(r, Pot(r) * Cardinality(Unpaid(r)))

\* Whatever a room owes, or owes some of its members, is covered.
LEMMA DebtCovered ==
  ASSUME MoneyInv, NEW r \in Rooms, NEW S \in SUBSET Accounts
  PROVE  /\ Total(Claims(r), S) \in Nat
         /\ Covers(r, Total(Claims(r), S))
<1>1. TypeOK
  BY MoneyTypes DEF MoneyInv
<1>2. PICK f : f = Claims(r)
  OBVIOUS
<1>3. \A a \in Accounts : f[a] \in Nat
  BY <1>1, <1>2, ClaimType DEF Claims
<1>4. IsFiniteSet(S) /\ IsFiniteSet(Accounts \ S) /\ S \cap (Accounts \ S) = {} /\ S \cup (Accounts \ S) = Accounts
  BY FiniteInstance, FS_Subset
<1>5. Total(f, S) \in Nat /\ Total(f, Accounts \ S) \in Nat
  BY <1>3, <1>4, TotalType
<1>6. Total(f, S \cup (Accounts \ S)) = Total(f, S) + Total(f, Accounts \ S)
  BY <1>3, <1>4, TotalUnion
<1>7. Owes(r) = Total(f, S) + Total(f, Accounts \ S)
  BY <1>2, <1>4, <1>6, Zenon DEF Owes
<1>8. vault = Owes(r) + Total(Debts, Rooms \ {r}) /\ Total(Debts, Rooms \ {r}) \in Nat
  <2>1. \A p \in Rooms : Debts[p] \in Nat
    BY <1>1, OwesType DEF Debts
  <2>2. Total(Debts, Rooms) = Debts[r] + Total(Debts, Rooms \ {r}) /\ Total(Debts, Rooms \ {r}) \in Nat
    BY <2>1, FiniteInstance, TotalSplit
  <2>3. vault = Total(Debts, Rooms)
    BY DEF MoneyInv, Books, PoolHoldsClaims
  <2> QED BY <2>2, <2>3, Zenon DEF Debts
<1>9. installment[r] => roomPool[r] = Owes(r)
  BY DEF MoneyInv, Books, PoolHoldsClaims
<1>10. vault >= Total(f, S)
  BY <1>5, <1>7, <1>8
<1>11. installment[r] => roomPool[r] >= Total(f, S)
  BY <1>5, <1>7, <1>9
<1> QED BY <1>2, <1>5, <1>10, <1>11 DEF Covers

\* While a room is Open, its members' locks are what it owes.
LEMMA OpenCovered ==
  ASSUME MoneyInv, NEW r \in Rooms, room[r].status = "Open", NEW S \in SUBSET members[r]
  PROVE  Covers(r, Total(locked[r], S))
<1>1. members[r] \subseteq Accounts
  BY MoneyTypes DEF MoneyInv, TypeOK
<1>2. \A a \in S : Claims(r)[a] = locked[r][a]
  BY <1>1 DEF Claims, Claim
<1>3. Total(Claims(r), S) = Total(locked[r], S)
  BY <1>2, TotalSame
<1>4. Covers(r, Total(Claims(r), S))
  BY <1>1, DebtCovered
<1> QED BY <1>3, <1>4, Zenon

\* An Active room owes a pot to each member it has not paid.
LEMMA ActiveCovered ==
  ASSUME MoneyInv, NEW r \in Rooms, room[r].status = "Active", NEW S \in SUBSET Unpaid(r)
  PROVE  Covers(r, Pot(r) * Cardinality(S))
<1>1. /\ members[r] \subseteq Accounts /\ room[r].share \in Nat /\ room[r].member_count \in Nat
  BY MoneyTypes DEF MoneyInv, TypeOK, RoomRecord
<1>2. PICK pot \in Nat : pot = Pot(r)
  BY <1>1, ProductType DEF Pot
<1>3. S \subseteq members[r] \ won[r] /\ S \subseteq Accounts
  BY <1>1 DEF Unpaid
<1>4. \A m \in members[r] : locked[r][m] = pot
  BY <1>2 DEF MoneyInv, Books, LocksAt
<1>5. PICK f : f = Claims(r)
  OBVIOUS
<1>6. \A a \in S : f[a] = pot
  BY <1>3, <1>4, <1>5 DEF Claims, Claim
<1>7. IsFiniteSet(S)
  BY <1>3, FiniteInstance, FS_Subset
<1>8. Total(f, S) = pot * Cardinality(S)
  BY <1>2, <1>6, <1>7, TotalTimes
<1>9. Covers(r, Total(f, S))
  BY <1>3, <1>5, DebtCovered
<1> QED BY <1>2, <1>8, <1>9, Zenon

\* No payout is ever refused for want of tokens, in whatever order the calls
\* of any number of rooms come.
THEOREM NoPayoutStarves == Spec => []PayoutsCovered
<1>1. ASSUME MoneyInv, CycleProgress PROVE PayoutsCovered
  <2> SUFFICES ASSUME NEW r \in Rooms
               PROVE  /\ room[r].status = "Open" =>
                           /\ Covers(r, Total(locked[r], members[r]))
                           /\ \A m \in members[r] : Covers(r, Total(locked[r], {m}))
                      /\ room[r].status = "Active" =>
                           /\ DrawPool(r) # {}
                           /\ Covers(r, Pot(r)) /\ Covers(r, Pot(r) * Cardinality(Unpaid(r)))
    BY DEF PayoutsCovered
  <2>1. ASSUME room[r].status = "Open"
        PROVE  /\ Covers(r, Total(locked[r], members[r]))
               /\ \A m \in members[r] : Covers(r, Total(locked[r], {m}))
    <3>1. Covers(r, Total(locked[r], members[r]))
      BY <1>1, <2>1, OpenCovered
    <3>2. \A m \in members[r] : Covers(r, Total(locked[r], {m}))
      BY <1>1, <2>1, OpenCovered
    <3> QED BY <3>1, <3>2
  <2>2. ASSUME room[r].status = "Active"
        PROVE  /\ DrawPool(r) # {}
               /\ Covers(r, Pot(r)) /\ Covers(r, Pot(r) * Cardinality(Unpaid(r)))
    <3>1. PICK m \in members[r] : m \notin won[r]
      <4>1. won[r] # members[r] /\ won[r] \subseteq members[r]
        BY <1>1, <2>2 DEF CycleProgress, MoneyInv, CycleInv, CycleAt, Started
      <4> QED BY <4>1
    <3>2. DrawPool(r) # {}
      BY <3>1 DEF DrawPool
    <3>3. Covers(r, Pot(r) * Cardinality(Unpaid(r)))
      BY <1>1, <2>2, ActiveCovered
    <3>4. Covers(r, Pot(r))
      <4>1. {m} \in SUBSET Unpaid(r)
        BY <3>1 DEF Unpaid
      <4>2. Cardinality({m}) = 1
        BY FS_Singleton
      <4>3. Covers(r, Pot(r) * Cardinality({m}))
        BY <1>1, <2>2, <4>1, ActiveCovered
      <4>4. Pot(r) \in Nat
        <5>1. room[r].share \in Nat /\ room[r].member_count \in Nat
          BY <1>1, MoneyTypes DEF MoneyInv, TypeOK, RoomRecord
        <5> QED BY <5>1, ProductType DEF Pot
      <4>5. Pot(r) * Cardinality({m}) = Pot(r)
        BY <4>2, <4>4
      <4> QED BY <4>3, <4>5, Zenon
    <3> QED BY <3>2, <3>3, <3>4
  <2> QED BY <2>1, <2>2
<1> QED BY <1>1, MoneyInvHolds, EveryoneWinsOnce, PTL

-----------------------------------------------------------------------------
(* Who wins: only a member who revealed, once somebody has.                *)

\* Only rounds gone by have winners, and whoever reveals in a round has not
\* won yet.
WinnersAt(r) ==
  /\ \A n \in Rounds : winner[r][n] # None =>
       room[r].status \notin Unstarted /\ n < room[r].round
  /\ \A n \in Rounds, m \in Accounts :
       (reveal[r][n][m] # None /\ winner[r][n] # None) => reveal[r][n][winner[r][n]] # None
  /\ room[r].status = "Active" =>
       \A m \in Accounts : reveal[r][room[r].round][m] # None => m \in members[r] \ won[r]

WinnersInv == CycleInv /\ \A r \in Rooms : WinnersAt(r)

LEMMA WinnersTypes ==
  ASSUME CycleInv
  PROVE  /\ TypeInv /\ room \in [Rooms -> RoomRecord] /\ won \in [Rooms -> SUBSET Accounts]
         /\ winner \in [Rooms -> [Rounds -> Accounts \cup {None}]]
         /\ reveal \in [Rooms -> [Rounds -> [Accounts -> Secrets \cup {None}]]]
         /\ members \in [Rooms -> SUBSET Accounts]
BY DEF CycleInv, DrawInv, TypeInv, TypeOK

LEMMA NextActiveRound ==
  ASSUME TypeInv, [Next]_vars, NEW r \in Rooms, room'[r].status = "Active"
  PROVE  room'[r].round \in Rounds
<1>1. TypeInv'
  BY TypeStep
<1>2. /\ room'[r].round >= 1 /\ room'[r].round <= room'[r].member_count
      /\ room'[r].member_count <= MAX_MEMBERS
  BY <1>1 DEF TypeInv, RoundsBounded
<1>3. room'[r].member_count \in Nat /\ room'[r].round \in Nat
  BY <1>1, TimingAssumption DEF TypeInv, TypeOK, RoomRecord
<1> QED BY <1>2, <1>3, TimingAssumption DEF Rounds

\* Rounds that have not come yet have no reveals.
LEMMA RevealsReached ==
  ASSUME CycleInv, NEW r \in Rooms, NEW n \in Rounds, NEW m \in Accounts,
         reveal[r][n][m] # None
  PROVE  room[r].status \notin Unstarted /\ n <= room[r].round
<1>1. commitment[r][n][m] # None
  BY RevealImpliesCommitment DEF CycleInv, DrawInv, DrawHistory, DrawAt
<1> QED BY <1>1 DEF CycleInv, DrawInv, DrawHistory, DrawAt

LEMMA CalmWinners ==
  ASSUME WinnersInv, Calm, UNCHANGED reveal, NEW r \in Rooms
  PROVE  WinnersAt(r)'
<1>1. /\ WinnersAt(r) /\ room[r] \in RoomRecord
      /\ won'[r] = won[r] /\ winner'[r] = winner[r] /\ reveal'[r] = reveal[r]
  BY WinnersTypes DEF WinnersInv, Calm
<1>2. CASE room[r].status \in Unstarted
  <2>1. \A n \in Rounds : winner'[r][n] = None
    BY <1>1, <1>2 DEF WinnersAt
  <2>2. room'[r].status # "Active"
    BY <1>2 DEF Calm, Unstarted
  <2> QED BY <2>1, <2>2 DEF WinnersAt
<1>3. CASE room[r].status \notin Unstarted
  <2>1. /\ members'[r] = members[r]
        /\ room'[r] = room[r] \/ room'[r] = DissolvedFrom(room[r])
    BY <1>3 DEF Calm
  <2>2. CASE room'[r] = room[r]
    BY <1>1, <2>1, <2>2 DEF WinnersAt
  <2>3. CASE room'[r] = DissolvedFrom(room[r])
    <3>1. room'[r].status = "Dissolved" /\ room'[r].round = room[r].round
      BY <1>1, <2>3 DEF DissolvedFrom, RoomRecord
    <3> QED BY <1>1, <3>1 DEF WinnersAt, Unstarted
  <2> QED BY <2>1, <2>2, <2>3
<1> QED BY <1>2, <1>3

LEMMA RevealWinners ==
  ASSUME WinnersInv, NEW p \in Rooms, NEW a \in Accounts, NEW secret \in Secrets,
         RevealDraw(p, a, secret), NEW r \in Rooms
  PROVE  WinnersAt(r)'
<1>1. /\ WinnersAt(r) /\ room[r] \in RoomRecord
      /\ reveal \in [Rooms -> [Rounds -> [Accounts -> Secrets \cup {None}]]]
  BY WinnersTypes DEF WinnersInv
<1>2. /\ UNCHANGED <<room, members, won, winner>>
      /\ reveal' = [reveal EXCEPT ![p][room[p].round][a] = secret]
      /\ room[p].status = "Active" /\ a \in members[p] \ won[p]
  BY DEF RevealDraw, Eligible, roomVars
<1>3. CASE r # p
  <2>1. reveal'[r] = reveal[r]
    BY <1>1, <1>2, <1>3
  <2> QED BY <1>1, <1>2, <2>1 DEF WinnersAt
<1>4. CASE r = p
  <2>1. PICK n \in Rounds : n = room[r].round
    BY <1>2, <1>4, WinnersTypes, ActiveRound DEF WinnersInv
  <2>2. \A k \in Rounds, m \in Accounts : ~(k = n /\ m = a) => reveal'[r][k][m] = reveal[r][k][m]
    BY <1>1, <1>2, <1>4, <2>1
  <2>3. \A m \in Accounts : reveal'[r][n][m] # None => m \in members[r] \ won[r]
    BY <1>1, <1>2, <1>4, <2>1, <2>2 DEF WinnersAt
  <2>4. winner[r][n] = None
    <3>1. n \in Nat
      BY <2>1, TimingAssumption DEF Rounds
    <3> QED BY <1>1, <2>1, <3>1 DEF WinnersAt
  <2>5. ASSUME NEW k \in Rounds, NEW m \in Accounts, reveal'[r][k][m] # None, winner'[r][k] # None
        PROVE  reveal'[r][k][winner'[r][k]] # None
    <3>1. k # n /\ winner'[r][k] = winner[r][k] /\ winner[r][k] \in Accounts
      BY <1>2, <2>4, <2>5, WinnersTypes DEF WinnersInv
    <3> QED BY <1>1, <2>2, <2>5, <3>1 DEF WinnersAt
  <2>6. \A k \in Rounds : winner'[r][k] # None =>
          room'[r].status \notin Unstarted /\ k < room'[r].round
    BY <1>1, <1>2 DEF WinnersAt
  <2> QED BY <1>2, <2>1, <2>3, <2>5, <2>6 DEF WinnersAt
<1> QED BY <1>3, <1>4

LEMMA StartWinners ==
  ASSUME WinnersInv, NEW p \in Rooms, NEW a \in Accounts, StartRoom(p, a), NEW r \in Rooms
  PROVE  WinnersAt(r)'
<1>1. /\ WinnersAt(r) /\ room \in [Rooms -> RoomRecord]
      /\ UNCHANGED <<members, won, winner, reveal>>
  BY WinnersTypes DEF WinnersInv, StartRoom
<1>2. CASE r # p
  <2>1. room'[r] = room[r]
    BY <1>1, <1>2 DEF StartRoom
  <2> QED BY <1>1, <2>1 DEF WinnersAt
<1>3. CASE r = p
  <2>1. room[r].status \in Unstarted
    BY <1>3 DEF StartRoom, Unstarted
  <2>2. room'[r].round \in Rounds
    <3>1. room'[r].status = "Active"
      BY <1>1, <1>3 DEF StartRoom, RoomRecord
    <3>2. [Next]_vars
      BY DEF Next, CloseOpenStep
    <3> QED BY <3>1, <3>2, NextActiveRound, WinnersTypes DEF WinnersInv
  <2>3. \A n \in Rounds : winner'[r][n] = None
    BY <1>1, <2>1 DEF WinnersAt
  <2>4. \A n \in Rounds, m \in Accounts : reveal'[r][n][m] = None
    BY <1>1, <2>1, RevealsReached DEF WinnersInv
  <2> QED BY <2>2, <2>3, <2>4 DEF WinnersAt
<1> QED BY <1>2, <1>3

\* If anybody revealed, the draw is among those who did.
LEMMA FinalizeWinners ==
  ASSUME WinnersInv, NEW p \in Rooms, NEW a \in Accounts, FinalizeDraw(p, a), NEW r \in Rooms
  PROVE  WinnersAt(r)'
<1>1. /\ WinnersAt(r) /\ room \in [Rooms -> RoomRecord]
      /\ won \in [Rooms -> SUBSET Accounts] /\ members \in [Rooms -> SUBSET Accounts]
      /\ winner \in [Rooms -> [Rounds -> Accounts \cup {None}]]
      /\ UNCHANGED <<members, reveal>>
  BY WinnersTypes DEF WinnersInv, FinalizeDraw
<1>2. PICK w \in DrawPool(p) :
        /\ won' = [won EXCEPT ![p] = WonAfter(p, w)]
        /\ winner' = [winner EXCEPT ![p][room[p].round] = w]
  BY DEF FinalizeDraw
<1>3. CASE r # p
  <2>1. room'[r] = room[r] /\ won'[r] = won[r] /\ winner'[r] = winner[r]
    BY <1>1, <1>2, <1>3 DEF FinalizeDraw
  <2> QED BY <1>1, <2>1 DEF WinnersAt
<1>4. CASE r = p
  <2>1. PICK n \in Rounds : n = room[r].round
    BY <1>4, WinnersTypes, ActiveRound DEF WinnersInv, FinalizeDraw
  <2>2. n \in Nat /\ \A k \in Rounds : k \in Nat
    BY TimingAssumption DEF Rounds
  <2>3. /\ winner'[r][n] = w
        /\ \A k \in Rounds \ {n} : winner'[r][k] = winner[r][k]
    BY <1>1, <1>2, <1>4, <2>1
  <2>4. room'[r].round = n + 1 /\ room'[r].status \in Started
    BY <1>1, <1>4, <2>1 DEF FinalizeDraw, NextRound, RoomRecord, Started
  <2>5. \A k \in Rounds : winner'[r][k] # None =>
          room'[r].status \notin Unstarted /\ k < room'[r].round
    <3>1. \A k \in Rounds : winner'[r][k] # None => k <= n
      BY <1>1, <2>1, <2>2, <2>3 DEF WinnersAt
    <3>2. ASSUME NEW k \in Rounds, k <= n PROVE k < room'[r].round
      <4>1. k \in Nat /\ room'[r].round = n + 1
        BY <2>2, <2>4
      <4> QED BY <2>2, <3>2, <4>1
    <3>3. room'[r].status \notin Unstarted
      BY <2>4 DEF Started, Unstarted
    <3> QED BY <3>1, <3>2, <3>3
  <2>6. ASSUME NEW m \in Accounts, reveal[r][n][m] # None
        PROVE  reveal[r][n][w] # None
    <3>1. m \in members[r] \ won[r]
      BY <1>1, <1>4, <2>1, <2>6 DEF WinnersAt, FinalizeDraw
    <3>2. m \in Revealers(r)
      BY <2>1, <2>6, <3>1 DEF Revealers
    <3>3. w \in Revealers(r)
      BY <1>2, <1>4, <3>2 DEF DrawPool
    <3> QED BY <2>1, <3>3 DEF Revealers
  <2>7. \A k \in Rounds, m \in Accounts :
          (reveal'[r][k][m] # None /\ winner'[r][k] # None) => reveal'[r][k][winner'[r][k]] # None
    BY <1>1, <2>3, <2>6 DEF WinnersAt
  <2>8. ASSUME room'[r].status = "Active", NEW m \in Accounts,
               reveal'[r][room'[r].round][m] # None
        PROVE  FALSE
    <3>1. PICK k \in Rounds : k = room'[r].round
      <4>1. [Next]_vars
        BY DEF Next, DrawStep
      <4> QED BY <2>8, <4>1, NextActiveRound, WinnersTypes DEF WinnersInv
    <3>2. k <= n
      BY <1>1, <2>1, <2>8, <3>1, RevealsReached DEF WinnersInv
    <3> QED BY <2>2, <2>4, <3>1, <3>2
  <2> QED BY <2>5, <2>7, <2>8 DEF WinnersAt
<1> QED BY <1>3, <1>4

LEMMA WinnersStep == WinnersInv /\ [Next]_vars => WinnersInv'
<1> SUFFICES ASSUME WinnersInv, [Next]_vars PROVE WinnersInv'
  OBVIOUS
<1>1. CycleInv'
  BY CycleStep DEF WinnersInv
<1>2. CycleKinds /\ DrawKinds
  BY CycleStepKinds, StepKinds DEF WinnersInv, CycleInv, DrawInv
<1>3. \/ UNCHANGED reveal
      \/ \E p \in Rooms, a \in Accounts, secret \in Secrets : RevealDraw(p, a, secret)
  <2>1. Quiet => UNCHANGED reveal
    BY Zenon DEF Quiet
  <2>2. \A p \in Rooms, a \in Accounts :
          /\ StartRoom(p, a) => UNCHANGED reveal
          /\ \A hash \in Hashes : CommitDraw(p, a, hash) => UNCHANGED reveal
          /\ FinalizeDraw(p, a) => UNCHANGED reveal
          /\ \A delay \in Delays : PostponeKocok(p, a, delay) => UNCHANGED reveal
    <3> TAKE p \in Rooms, a \in Accounts
    <3>1. StartRoom(p, a) => UNCHANGED reveal
      BY DEF StartRoom
    <3>2. \A hash \in Hashes : CommitDraw(p, a, hash) => UNCHANGED reveal
      BY DEF CommitDraw
    <3>3. FinalizeDraw(p, a) => UNCHANGED reveal
      BY DEF FinalizeDraw, drawVars
    <3>4. \A delay \in Delays : PostponeKocok(p, a, delay) => UNCHANGED reveal
      BY DEF PostponeKocok
    <3> QED BY <3>1, <3>2, <3>3, <3>4
  <2> QED BY <1>2, <2>1, <2>2, Zenon DEF DrawKinds
<1>4. ASSUME NEW r \in Rooms PROVE WinnersAt(r)'
  BY <1>2, <1>3, CalmWinners, RevealWinners, StartWinners, FinalizeWinners DEF CycleKinds
<1> QED BY <1>1, <1>4 DEF WinnersInv

LEMMA WinnersInit == Init => WinnersInv
<1> SUFFICES ASSUME Init PROVE WinnersInv
  OBVIOUS
<1>1. \A r \in Rooms : WinnersAt(r)
  BY DEF Init, WinnersAt, NoRoom
<1> QED BY <1>1, CycleInit DEF WinnersInv

LEMMA WinnersInvHolds == Spec => []WinnersInv
BY WinnersInit, WinnersStep, PTL DEF Spec

\* Keeping a secret back never wins a round in which somebody revealed,
\* however late and by whomever it is finalized.
THEOREM OnlyRevealersWin == Spec => []RevealersWin
<1>1. WinnersInv => RevealersWin
  BY DEF WinnersInv, WinnersAt, RevealersWin
<1> QED BY <1>1, WinnersInvHolds, PTL

-----------------------------------------------------------------------------
(* The dates of the draws.                                                 *)

\* When the draw of round n was planned, as soon as the room is started.
Planned(r, n) == room[r].first_kocok + (n - 1) * Interval(r)

\* Every earlier round may have brought one postponement, this round too if it
\* is marked so; a scheduled room takes none.
DateAt(r, n) ==
  kocokAt[r][n] > 0 =>
    /\ kocokAt[r][n] >= Planned(r, n)
    /\ kocokAt[r][n] <= Planned(r, n)
         + (IF n \in postponed[r] THEN n ELSE n - 1) * MAX_POSTPONE_SECONDS
    /\ IsScheduled(r) => /\ kocokAt[r][n] = Planned(r, n)
                         /\ room[r].first_kocok = schedule[r].first_commit_at

DatesAt(r) ==
  /\ room[r].status \in Unstarted => \A n \in Rounds : kocokAt[r][n] = 0
  /\ room[r].status = "Active" => kocokAt[r][room[r].round] > 0
  /\ \A n \in Rounds : DateAt(r, n)

DatesInv == TypeInv /\ RoomsInOrder /\ \A r \in Rooms : DatesAt(r)

LEMMA DatesTypes ==
  ASSUME TypeInv
  PROVE  /\ now \in Nat /\ room \in [Rooms -> RoomRecord] /\ schedule \in [Rooms -> ScheduleRecord]
         /\ kocokAt \in [Rooms -> [Rounds -> Nat]] /\ postponed \in [Rooms -> SUBSET Rounds]
         /\ \A n \in Rounds : n \in Nat /\ n >= 1
         /\ \A r \in Rooms : Interval(r) \in Nat \ {0} /\ room[r].first_kocok \in Nat
<1>1. /\ now \in Nat /\ room \in [Rooms -> RoomRecord] /\ schedule \in [Rooms -> ScheduleRecord]
      /\ kocokAt \in [Rooms -> [Rounds -> Nat]] /\ postponed \in [Rooms -> SUBSET Rounds]
  BY BoundsAssumption DEF TypeInv, TypeOK
<1>2. \A n \in Rounds : n \in Nat /\ n >= 1
  BY TimingAssumption DEF Rounds
<1>3. \A r \in Rooms : Interval(r) \in Nat \ {0} /\ room[r].first_kocok \in Nat
  BY <1>1, TimingAssumption DEF Interval, IsScheduled, RoomRecord, ScheduleRecord
<1> QED BY <1>1, <1>2, <1>3

\* What DateAt says of a room depends on these entries alone.
LEMMA SameDates ==
  ASSUME NEW r \in Rooms, NEW n \in Rounds, DateAt(r, n),
         kocokAt'[r][n] = kocokAt[r][n], postponed'[r] = postponed[r],
         schedule'[r] = schedule[r], room'[r].first_kocok = room[r].first_kocok,
         room'[r].cadence = room[r].cadence
  PROVE  DateAt(r, n)'
<1>1. /\ IsScheduled(r)' = IsScheduled(r) /\ Interval(r)' = Interval(r)
  BY DEF IsScheduled, Interval
<1>2. Planned(r, n)' = Planned(r, n)
  BY <1>1 DEF Planned
<1> QED BY <1>1, <1>2 DEF DateAt

LEMMA CalmDates ==
  ASSUME DatesInv, Calm, UNCHANGED <<kocokAt, postponed>>, NEW r \in Rooms
  PROVE  DatesAt(r)'
<1>1. /\ DatesAt(r) /\ room[r] \in RoomRecord
  BY DatesTypes DEF DatesInv
<1>2. CASE room[r].status \in Unstarted
  <2>1. \A n \in Rounds : kocokAt'[r][n] = 0
    BY <1>1, <1>2 DEF DatesAt
  <2>2. room'[r].status # "Active"
    BY <1>2 DEF Calm, Unstarted
  <2>3. \A n \in Rounds : DateAt(r, n)'
    BY <2>1 DEF DateAt
  <2> QED BY <2>1, <2>2, <2>3 DEF DatesAt
<1>3. CASE room[r].status \notin Unstarted
  <2>1. /\ schedule'[r] = schedule[r]
        /\ room'[r] = room[r] \/ room'[r] = DissolvedFrom(room[r])
    BY <1>3 DEF Calm
  <2>2. /\ room'[r].first_kocok = room[r].first_kocok /\ room'[r].cadence = room[r].cadence
        /\ room'[r].round = room[r].round
        /\ room'[r].status = room[r].status \/ room'[r].status = "Dissolved"
    BY <1>1, <2>1 DEF DissolvedFrom, RoomRecord
  <2>3. \A n \in Rounds : DateAt(r, n)'
    BY <1>1, <2>1, <2>2, SameDates DEF DatesAt
  <2>4. room'[r].status \notin Unstarted
    BY <1>3, <2>2 DEF Unstarted
  <2>5. room'[r].status = "Active" => kocokAt'[r][room'[r].round] > 0
    BY <1>1, <2>2 DEF DatesAt
  <2> QED BY <2>3, <2>4, <2>5 DEF DatesAt
<1> QED BY <1>2, <1>3

LEMMA StartDates ==
  ASSUME DatesInv, NEW p \in Rooms, NEW a \in Accounts, StartRoom(p, a), NEW r \in Rooms
  PROVE  DatesAt(r)'
<1>1. /\ DatesAt(r) /\ TypeInv
      /\ room \in [Rooms -> RoomRecord] /\ kocokAt \in [Rooms -> [Rounds -> Nat]]
      /\ UNCHANGED <<schedule, postponed>>
  BY DatesTypes DEF DatesInv, StartRoom
<1>2. PICK first : first = FirstKocok(p)
  OBVIOUS
<1>3. /\ room' = [room EXCEPT ![p].status = "Active", ![p].round = 1,
                              ![p].member_count = room[p].member_target,
                              ![p].first_kocok = first]
      /\ kocokAt' = [kocokAt EXCEPT ![p][1] = first]
  BY <1>2 DEF StartRoom
<1>4. CASE r # p
  <2>1. room'[r] = room[r] /\ kocokAt'[r] = kocokAt[r]
    BY <1>1, <1>3, <1>4
  <2>2. \A n \in Rounds : DateAt(r, n)'
    BY <1>1, <2>1, SameDates DEF DatesAt
  <2> QED BY <1>1, <2>1, <2>2 DEF DatesAt
<1>5. CASE r = p
  <2>1. /\ room'[r].status = "Active" /\ room'[r].round = 1 /\ room'[r].first_kocok = first
    BY <1>1, <1>3, <1>5 DEF RoomRecord
  <2>2. 1 \in Rounds
    <3>1. [Next]_vars
      BY DEF Next, CloseOpenStep
    <3> QED BY <1>1, <2>1, <3>1, NextActiveRound
  <2>3. \A n \in Rounds : kocokAt[r][n] = 0
    BY <1>1, <1>5 DEF DatesAt, StartRoom, Unstarted
  <2>4. /\ kocokAt'[r][1] = first
        /\ \A n \in Rounds \ {1} : kocokAt'[r][n] = 0
    BY <1>1, <1>3, <1>5, <2>2, <2>3
  <2>5. first \in Nat /\ first > 0 /\ (IsScheduled(r) => first = schedule[r].first_commit_at)
    <3>1. /\ now \in Nat /\ room[r].first_kocok \in Nat /\ schedule[r].first_commit_at \in Nat
      BY <1>1, DatesTypes DEF ScheduleRecord
    <3>2. /\ IsScheduled(r) => now < schedule[r].first_commit_at
          /\ ~installment[r] => now < room[r].first_kocok
      BY <1>5 DEF StartRoom, StartBefore
    <3> QED BY <1>2, <1>5, <3>1, <3>2, TimingAssumption DEF FirstKocok
  <2>6. DateAt(r, 1)'
    <3>1. PICK i \in Nat : i = Interval(r)'
      <4>1. Interval(r)' \in Nat
        <5>1. [Next]_vars
          BY DEF Next, CloseOpenStep
        <5>2. TypeInv'
          BY <1>1, <5>1, TypeStep
        <5>3. /\ room'[r].cadence \in Cadences /\ schedule'[r].interval_seconds \in Nat
          BY <5>2 DEF TypeInv, TypeOK, RoomRecord, ScheduleRecord
        <5> QED BY <5>3, TimingAssumption DEF Interval, IsScheduled
      <4> QED BY <4>1
    <3>2. Planned(r, 1)' = first
      <4>1. Planned(r, 1)' = first + (1 - 1) * i
        BY <2>1, <3>1 DEF Planned
      <4> QED BY <2>5, <3>1, <4>1
    <3>3. IsScheduled(r)' = IsScheduled(r)
      BY <1>1 DEF IsScheduled
    <3>4. (IF 1 \in postponed'[r] THEN 1 ELSE 1 - 1) * MAX_POSTPONE_SECONDS \in Nat
      BY TimingAssumption
    <3> QED BY <1>1, <2>1, <2>4, <2>5, <3>2, <3>3, <3>4 DEF DateAt
  <2>7. \A n \in Rounds \ {1} : DateAt(r, n)'
    BY <2>4 DEF DateAt
  <2>8. kocokAt'[r][room'[r].round] > 0
    BY <2>1, <2>4, <2>5
  <2> QED BY <2>1, <2>6, <2>7, <2>8 DEF DatesAt, Unstarted
<1> QED BY <1>4, <1>5

\* The next draw is one interval after this one's date, not after today.
LEMMA FinalizeDates ==
  ASSUME DatesInv, NEW p \in Rooms, NEW a \in Accounts, FinalizeDraw(p, a), NEW r \in Rooms
  PROVE  DatesAt(r)'
<1>1. /\ DatesAt(r) /\ TypeInv
      /\ room \in [Rooms -> RoomRecord] /\ kocokAt \in [Rooms -> [Rounds -> Nat]]
      /\ UNCHANGED <<schedule, postponed>>
  BY DatesTypes DEF DatesInv, FinalizeDraw
<1>2. CASE r # p
  <2>1. room'[r] = room[r] /\ kocokAt'[r] = kocokAt[r]
    BY <1>1, <1>2 DEF FinalizeDraw
  <2>2. \A n \in Rounds : DateAt(r, n)'
    BY <1>1, <2>1, SameDates DEF DatesAt
  <2> QED BY <1>1, <2>1, <2>2 DEF DatesAt
<1>3. CASE r = p
  <2>1. PICK n \in Rounds : n = room[r].round
    BY <1>1, <1>3, ActiveRound DEF FinalizeDraw
  <2>2. /\ room'[r].first_kocok = room[r].first_kocok /\ room'[r].cadence = room[r].cadence
        /\ room'[r].round = n + 1
        /\ IF LastRound(r) THEN room'[r].status = "Done" ELSE room'[r].status = "Active"
    BY <1>1, <1>3, <2>1 DEF FinalizeDraw, NextRound, RoomRecord
  <2>3. CASE LastRound(r)
    <3>1. kocokAt'[r] = kocokAt[r]
      BY <1>3, <2>3 DEF FinalizeDraw
    <3>2. \A k \in Rounds : DateAt(r, k)'
      BY <1>1, <2>2, <3>1, SameDates DEF DatesAt
    <3> QED BY <2>2, <2>3, <3>2 DEF DatesAt, Unstarted
  <2>4. CASE ~LastRound(r)
    <3>1. n + 1 \in Rounds
      <4>1. [Next]_vars
        BY DEF Next, DrawStep
      <4> QED BY <1>1, <2>2, <2>4, <4>1, NextActiveRound
    <3>2. PICK i \in Nat \ {0} : i = Interval(r)
      BY <1>1, DatesTypes
    <3>3. PICK d \in Nat : d = kocokAt[r][n]
      BY <1>1
    <3>4. kocokAt' = [kocokAt EXCEPT ![r][n + 1] = d + i]
      BY <1>3, <2>1, <2>4, <3>2, <3>3 DEF FinalizeDraw, NextKocok, Deadline
    <3>5. /\ kocokAt'[r][n + 1] = d + i
          /\ \A k \in Rounds \ {n + 1} : kocokAt'[r][k] = kocokAt[r][k]
      BY <1>1, <3>1, <3>4
    <3>6. \A k \in Rounds \ {n + 1} : DateAt(r, k)'
      BY <1>1, <2>2, <3>5, SameDates DEF DatesAt
    <3>7. d > 0
      BY <1>1, <1>3, <2>1, <3>3 DEF DatesAt, FinalizeDraw
    <3>8. DateAt(r, n + 1)'
      <4>1. PICK f \in Nat : f = room[r].first_kocok
        BY <1>1, DatesTypes
      <4>2. PICK M \in Nat : M = MAX_POSTPONE_SECONDS
        BY TimingAssumption
      <4>3. n \in Nat /\ n >= 1
        BY <1>1, DatesTypes
      <4>4. /\ IsScheduled(r)' = IsScheduled(r) /\ Interval(r)' = i
        BY <1>1, <2>2, <3>2 DEF IsScheduled, Interval
      <4>5. PICK x \in Nat : x = (n - 1) * i
        <5>1. n - 1 \in Nat
          BY <4>3
        <5> QED BY <3>2, <5>1, ProductType
      <4>6. Planned(r, n) = f + x
        BY <3>2, <4>1, <4>5 DEF Planned
      <4>7. Planned(r, n + 1)' = f + x + i
        <5>1. Planned(r, n + 1)' = f + ((n + 1) - 1) * i
          BY <2>2, <4>1, <4>4 DEF Planned
        <5>2. ((n + 1) - 1) * i = (n - 1) * i + i
          BY <3>2, <4>3
        <5> QED BY <3>2, <4>1, <4>5, <5>1, <5>2
      <4>8. /\ d >= f + x /\ d <= f + x + (IF n \in postponed[r] THEN n ELSE n - 1) * M
            /\ IsScheduled(r) => d = f + x /\ room[r].first_kocok = schedule[r].first_commit_at
        <5>1. DateAt(r, n)
          BY <1>1 DEF DatesAt
        <5> QED BY <3>3, <3>7, <4>2, <4>6, <5>1 DEF DateAt
      <4>9. PICK y \in Nat : y = n * M
        BY <4>2, <4>3, ProductType
      <4>10. d <= f + x + y
        <5>1. (n - 1) * M <= n * M /\ (n - 1) * M \in Nat
          <6>1. n * M = (n - 1) * M + M
            BY <4>2, <4>3
          <6>2. n - 1 \in Nat
            BY <4>3
          <6>3. (n - 1) * M \in Nat
            BY <4>2, <6>2, ProductType
          <6> QED BY <4>2, <6>1, <6>3
        <5> QED BY <4>1, <4>5, <4>8, <4>9, <5>1
      <4>11. y <= (IF n + 1 \in postponed'[r] THEN n + 1 ELSE (n + 1) - 1) * M
        <5>1. (n + 1) * M = y + M /\ ((n + 1) - 1) * M = y
          BY <4>2, <4>3, <4>9
        <5> QED BY <4>2, <4>9, <5>1
      <4>12. PICK z \in Nat : z = (IF n + 1 \in postponed'[r] THEN n + 1 ELSE (n + 1) - 1) * M
        BY <4>2, <4>3, ProductType
      <4>13. /\ kocokAt'[r][n + 1] >= Planned(r, n + 1)'
             /\ kocokAt'[r][n + 1] <= Planned(r, n + 1)' + z
        BY <3>2, <3>5, <4>1, <4>5, <4>7, <4>8, <4>9, <4>10, <4>11, <4>12
      <4>14. IsScheduled(r)' => /\ kocokAt'[r][n + 1] = Planned(r, n + 1)'
                                /\ room'[r].first_kocok = schedule'[r].first_commit_at
        BY <1>1, <2>2, <3>2, <3>5, <4>1, <4>4, <4>5, <4>7, <4>8
      <4> QED BY <4>2, <4>12, <4>13, <4>14 DEF DateAt
    <3>9. kocokAt'[r][room'[r].round] > 0
      BY <2>2, <3>2, <3>5
    <3> QED BY <2>2, <2>4, <3>6, <3>8, <3>9 DEF DatesAt, Unstarted
  <2> QED BY <2>3, <2>4
<1> QED BY <1>2, <1>3

\* A round is postponed once, by no more than the maximum.
LEMMA PostponeDates ==
  ASSUME DatesInv, NEW p \in Rooms, NEW a \in Accounts, NEW delay \in Delays,
         PostponeKocok(p, a, delay), NEW r \in Rooms
  PROVE  DatesAt(r)'
<1>1. /\ DatesAt(r) /\ TypeInv
      /\ kocokAt \in [Rooms -> [Rounds -> Nat]] /\ postponed \in [Rooms -> SUBSET Rounds]
      /\ delay \in Nat /\ UNCHANGED <<room, schedule>>
  BY DatesTypes, InputAssumption DEF DatesInv, PostponeKocok, roomVars
<1>2. CASE r # p
  <2>1. kocokAt'[r] = kocokAt[r] /\ postponed'[r] = postponed[r]
    BY <1>1, <1>2 DEF PostponeKocok
  <2>2. \A n \in Rounds : DateAt(r, n)'
    BY <1>1, <2>1, SameDates DEF DatesAt
  <2> QED BY <1>1, <2>1, <2>2 DEF DatesAt
<1>3. CASE r = p
  <2>1. PICK n \in Rounds : n = room[r].round
    BY <1>1, <1>3, ActiveRound DEF PostponeKocok
  <2>2. /\ room[r].status = "Active" /\ ~IsScheduled(r) /\ delay <= MAX_POSTPONE_SECONDS
        /\ n \notin postponed[r]
        /\ kocokAt' = [kocokAt EXCEPT ![r][n] = @ + delay]
        /\ postponed' = [postponed EXCEPT ![r] = @ \cup {n}]
    BY <1>3, <2>1 DEF PostponeKocok, AlreadyPostponed
  <2>3. PICK d \in Nat : d = kocokAt[r][n]
    BY <1>1
  <2>4. /\ kocokAt'[r][n] = d + delay /\ postponed'[r] = postponed[r] \cup {n}
        /\ \A k \in Rounds \ {n} : kocokAt'[r][k] = kocokAt[r][k]
    BY <1>1, <2>2, <2>3
  <2>5. d > 0
    BY <1>1, <2>1, <2>2, <2>3 DEF DatesAt
  <2>6. /\ IsScheduled(r)' = IsScheduled(r) /\ \A k \in Rounds : Planned(r, k)' = Planned(r, k)
    BY <1>1 DEF IsScheduled, Planned, Interval
  <2>7. ASSUME NEW k \in Rounds \ {n} PROVE DateAt(r, k)'
    <3>1. DateAt(r, k) /\ kocokAt'[r][k] = kocokAt[r][k]
      BY <1>1, <2>4 DEF DatesAt
    <3>2. (k \in postponed'[r]) <=> (k \in postponed[r])
      BY <2>4
    <3> QED BY <1>1, <2>6, <3>1, <3>2 DEF DateAt
  <2>8. DateAt(r, n)'
    <3>1. PICK M \in Nat : M = MAX_POSTPONE_SECONDS
      BY TimingAssumption
    <3>2. n \in Nat /\ n >= 1
      BY <1>1, DatesTypes
    <3>3. PICK x \in Nat : x = (n - 1) * M
      <4>1. n - 1 \in Nat
        BY <3>2
      <4> QED BY <3>1, <4>1, ProductType
    <3>4. PICK q \in Nat : q = Planned(r, n)
      <4>1. n - 1 \in Nat /\ Interval(r) \in Nat /\ room[r].first_kocok \in Nat
        BY <1>1, <3>2, DatesTypes
      <4>2. (n - 1) * Interval(r) \in Nat
        BY <4>1, ProductType
      <4> QED BY <4>1, <4>2 DEF Planned
    <3>5. d >= q /\ d <= q + x
      <4>1. DateAt(r, n)
        BY <1>1 DEF DatesAt
      <4> QED BY <2>2, <2>3, <2>5, <3>1, <3>3, <3>4, <4>1 DEF DateAt
    <3>6. n * M = x + M
      BY <3>1, <3>2, <3>3
    <3>7. kocokAt'[r][n] >= q /\ kocokAt'[r][n] <= q + n * M
      BY <1>1, <2>2, <2>3, <2>4, <3>1, <3>3, <3>4, <3>5, <3>6
    <3>8. n \in postponed'[r] /\ Planned(r, n)' = q /\ ~IsScheduled(r)'
      BY <2>2, <2>4, <2>6, <3>4
    <3> QED BY <3>1, <3>7, <3>8 DEF DateAt
  <2>9. kocokAt'[r][room'[r].round] > 0
    BY <1>1, <2>1, <2>3, <2>4, <2>5
  <2>10. room'[r].status \notin Unstarted
    BY <1>1, <2>2 DEF Unstarted
  <2> QED BY <2>7, <2>8, <2>9, <2>10 DEF DatesAt
<1> QED BY <1>2, <1>3

LEMMA DatesStep == DatesInv /\ [Next]_vars => DatesInv'
<1> SUFFICES ASSUME DatesInv, [Next]_vars PROVE DatesInv'
  OBVIOUS
<1>1. TypeInv' /\ RoomsInOrder'
  BY TypeStep, OrderStep DEF DatesInv
<1>2. CycleKinds /\ DrawKinds
  BY CycleStepKinds, StepKinds DEF DatesInv
<1>3. \/ UNCHANGED <<kocokAt, postponed>>
      \/ \E p \in Rooms, a \in Accounts :
           \/ StartRoom(p, a) \/ FinalizeDraw(p, a)
           \/ \E delay \in Delays : PostponeKocok(p, a, delay)
  <2>1. Quiet => UNCHANGED <<kocokAt, postponed>>
    BY Zenon DEF Quiet
  <2>2. \A p \in Rooms, a \in Accounts :
          /\ \A hash \in Hashes : CommitDraw(p, a, hash) => UNCHANGED <<kocokAt, postponed>>
          /\ \A secret \in Secrets : RevealDraw(p, a, secret) => UNCHANGED <<kocokAt, postponed>>
    BY Zenon DEF CommitDraw, RevealDraw
  <2> QED BY <1>2, <2>1, <2>2, Zenon DEF DrawKinds
<1>4. ASSUME NEW r \in Rooms PROVE DatesAt(r)'
  BY <1>2, <1>3, CalmDates, StartDates, FinalizeDates, PostponeDates DEF CycleKinds
<1> QED BY <1>1, <1>4 DEF DatesInv

LEMMA DatesInit == Init => DatesInv
<1> SUFFICES ASSUME Init PROVE DatesInv
  OBVIOUS
<1>1. TypeInv /\ RoomsInOrder
  BY DrawInit DEF DrawInv
<1>2. \A r \in Rooms : room[r].status = "Missing" /\ \A n \in Rounds : kocokAt[r][n] = 0
  BY DEF Init, NoRoom
<1>3. \A r \in Rooms : DatesAt(r)
  BY <1>2 DEF DatesAt, DateAt
<1> QED BY <1>1, <1>3 DEF DatesInv

LEMMA DatesInvHolds == Spec => []DatesInv
BY DatesInit, DatesStep, PTL DEF Spec

\* However late its draws are finalized, a scheduled room keeps its dates, and
\* any other room falls behind by one postponement per round at most.
THEOREM DatesKept == Spec => []ScheduleKept
<1>1. DatesInv => ScheduleKept
  <2> SUFFICES ASSUME DatesInv, NEW r \in Rooms, NEW n \in Rounds, kocokAt[r][n] > 0
      PROVE  LET planned == room[r].first_kocok + (n - 1) * Interval(r) IN
             /\ IsScheduled(r) => /\ kocokAt[r][n] = planned
                                  /\ room[r].first_kocok = schedule[r].first_commit_at
             /\ kocokAt[r][n] >= planned
             /\ kocokAt[r][n] <= planned + n * MAX_POSTPONE_SECONDS
    BY DEF ScheduleKept
  <2>1. DateAt(r, n) /\ TypeInv
    BY DEF DatesInv, DatesAt
  <2>2. PICK M \in Nat : M = MAX_POSTPONE_SECONDS
    BY TimingAssumption
  <2>3. n \in Nat /\ n >= 1 /\ kocokAt[r][n] \in Nat
    BY <2>1, DatesTypes
  <2>4. (n - 1) * M <= n * M
    BY <2>2, <2>3
  <2>5. PICK planned : planned = Planned(r, n)
    OBVIOUS
  <2>6. planned \in Nat
    <3>1. n - 1 \in Nat /\ Interval(r) \in Nat /\ room[r].first_kocok \in Nat
      BY <2>1, <2>3, DatesTypes
    <3>2. (n - 1) * Interval(r) \in Nat
      BY <3>1, ProductType
    <3> QED BY <2>5, <3>1, <3>2 DEF Planned
  <2>7. /\ kocokAt[r][n] >= planned
        /\ kocokAt[r][n] <= planned + (IF n \in postponed[r] THEN n ELSE n - 1) * M
        /\ IsScheduled(r) => /\ kocokAt[r][n] = planned
                             /\ room[r].first_kocok = schedule[r].first_commit_at
    BY <2>1, <2>2, <2>5 DEF DateAt
  <2>8. kocokAt[r][n] <= planned + n * M
    <3>1. (n - 1) * M \in Int /\ n * M \in Int
      BY <2>2, <2>3
    <3> QED BY <2>3, <2>4, <2>6, <2>7, <3>1
  <2> QED BY <2>2, <2>5, <2>7, <2>8 DEF Planned
<1> QED BY <1>1, DatesInvHolds, PTL
=============================================================================
