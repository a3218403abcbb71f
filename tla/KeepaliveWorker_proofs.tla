------------------------ MODULE KeepaliveWorker_proofs ------------------------
(***************************************************************************)
(* Proofs about KeepaliveWorker, for any rooms, any number of cron runs    *)
(* that overlap, stall or die anywhere, any number of database calls that  *)
(* arrive late, any leases, validity, margin and retention.                *)
(***************************************************************************)
EXTENDS KeepaliveWorker, FiniteSetTheorems, TLAPS

-----------------------------------------------------------------------------
(* The inductive invariant.  No conjunct mentions a lease: that no envelope *)
(* is lost or misjudged rests on what the SQL functions compare, and the    *)
(* leases only save work.                                                   *)

\* What a recorded outcome claims, strong enough to stay true.
True(e, outcome) ==
  LET ls == {l \in landed : l.env = e} IN
  CASE outcome = "confirmed" -> \E l \in ls : l.ok
    [] outcome = "failed" -> ls # {} /\ \A l \in ls : ~l.ok
    [] outcome = "expired" -> ls = {} /\ ledger > e.max

\* Inclusion uses an envelope's sequence number up, within its bounds.
LandedOnce ==
  \A l \in landed :
    /\ l.env.seq <= sequence /\ l.env.min <= l.at
    /\ \A k \in landed : k.env = l.env => k = l

Kept(e) == Verdicts(e) # {} \/ row[e.room].pending = e

Recorded == Final \cup {"pending", "deferred"}

\* A run that may send what it has in hand has it from the database.
RunOK(k) ==
  /\ k.pc \in {"fresh", "prepare", "recover", "send", "poll", "finish", "catch"}
       => k.room \in Rooms
  /\ k.pc \in {"prepare", "recover", "send", "poll"} => k.env \in Envelopes
  /\ k.pc \in {"recover", "send", "poll"} => Kept(k.env)
  /\ k.pc = "finish" => k.outcome \in Recorded
  /\ k.pc = "catch" => k.outcome \in {"pending", "deferred"}
  /\ k.pc = "finish" /\ k.outcome \in Final =>
       k.env \in Envelopes /\ True(k.env, k.outcome)

CallOK(c) ==
  /\ c.op = "prepare" => c.env \in Envelopes
  /\ c.op = "finish" => c.outcome \in Recorded
  /\ c.op = "finish" /\ c.outcome \in Final =>
       c.env \in Envelopes /\ True(c.env, c.outcome)

VerdictsHold == \A v \in verdict : True(v.env, v.outcome)

KeepaliveInv ==
  /\ TypeOK /\ LandedOnce
  /\ \A w \in Runs : RunOK(run[w])
  /\ \A c \in late : CallOK(c)
  /\ VerdictsHold
  /\ NothingForgotten

-----------------------------------------------------------------------------
(* What stays true when the world, the database or one run moves.          *)

ClaimsStand == \A e \in Envelopes, o \in Final : True(e, o) => True(e, o)'
NothingLost == \A e \in Envelopes : Kept(e) => Kept(e)'

LEMMA RunStays ==
  ASSUME ClaimsStand, NothingLost, NEW k \in RunRecord, RunOK(k)
  PROVE  RunOK(k)'
BY Zenon DEF ClaimsStand, NothingLost, RunOK

LEMMA CallStays ==
  ASSUME ClaimsStand, NEW c \in Call, CallOK(c)
  PROVE  CallOK(c)'
BY Zenon DEF ClaimsStand, CallOK

LEMMA Move ==
  ASSUME KeepaliveInv, ClaimsStand, NothingLost,
         NEW w \in Runs, NEW k \in RunRecord, RunOK(k)',
         run' = [run EXCEPT ![w] = k]
  PROVE  run' \in [Runs -> RunRecord] /\ (\A v \in Runs : RunOK(run[v]))'
<1>1. run \in [Runs -> RunRecord]
  BY DEF KeepaliveInv, TypeOK
<1>2. run' \in [Runs -> RunRecord]
  BY <1>1
<1>3. ASSUME NEW v \in Runs PROVE RunOK(run[v])'
  <2>1. PICK m \in RunRecord : m = run'[v] /\ RunOK(m)'
    <3>1. CASE v = w
      BY <1>1, <3>1
    <3>2. CASE v # w
      <4>1. run'[v] = run[v] /\ run[v] \in RunRecord
        BY <1>1, <3>2
      <4>2. PICK m \in RunRecord : m = run[v]
        BY <4>1
      <4>3. RunOK(m)
        BY <4>2 DEF KeepaliveInv
      <4>4. RunOK(m)'
        BY <4>3, RunStays
      <4> QED BY <4>1, <4>2, <4>4
    <3> QED BY <3>1, <3>2
  <2> QED BY <2>1, Zenon DEF RunOK
<1> QED BY <1>2, <1>3

LEMMA RunsStay ==
  ASSUME KeepaliveInv, ClaimsStand, NothingLost, UNCHANGED run
  PROVE  run' \in [Runs -> RunRecord] /\ (\A v \in Runs : RunOK(run[v]))'
<1>1. run' \in [Runs -> RunRecord]
  BY DEF KeepaliveInv, TypeOK
<1>2. ASSUME NEW v \in Runs PROVE RunOK(run[v])'
  <2>1. PICK m \in RunRecord : m = run[v] /\ RunOK(m)
    BY DEF KeepaliveInv, TypeOK
  <2>2. RunOK(m)' /\ m = run'[v]
    BY <2>1, RunStays
  <2> QED BY <2>2, Zenon DEF RunOK
<1> QED BY <1>1, <1>2

LEMMA LateStays ==
  ASSUME KeepaliveInv, ClaimsStand, NEW c \in Call, CallOK(c),
         late' \subseteq late \cup {c}
  PROVE  late' \subseteq Call /\ (\A d \in late : CallOK(d))'
<1>1. late' \subseteq Call
  BY DEF KeepaliveInv, TypeOK
<1>2. ASSUME NEW d \in late' PROVE CallOK(d)'
  <2>1. d \in Call /\ CallOK(d)
    BY <1>2 DEF KeepaliveInv, TypeOK
  <2> QED BY <2>1, CallStays
<1> QED BY <1>1, <1>2

LEMMA ChainStill ==
  ASSUME KeepaliveInv, UNCHANGED landed, ledger' \in Nat, ledger <= ledger',
         sequence' \in Nat, sequence <= sequence'
  PROVE  ClaimsStand /\ LandedOnce'
<1>1. ledger \in Nat /\ sequence \in Nat
  BY KeepaliveAssumption DEF KeepaliveInv, TypeOK, Time
<1>2. ASSUME NEW e \in Envelopes, NEW o \in Final, True(e, o) PROVE True(e, o)'
  <2>1. e.max \in Int
    BY KeepaliveAssumption DEF Envelopes
  <2>2. ledger > e.max => ledger' > e.max
    BY <1>1, <2>1
  <2> QED BY <1>2, <2>2 DEF True, Final
<1>3. ASSUME NEW l \in landed PROVE l.env.seq \in Nat
  BY DEF KeepaliveInv, TypeOK, Envelopes
<1>4. ASSUME NEW l \in landed PROVE l.env.seq <= sequence'
  <2>1. l.env.seq <= sequence
    BY DEF KeepaliveInv, LandedOnce
  <2> QED BY <1>1, <1>3, <2>1
<1>5. LandedOnce'
  BY <1>4 DEF KeepaliveInv, LandedOnce
<1> QED BY <1>2, <1>5 DEF ClaimsStand

LEMMA RowStill ==
  ASSUME UNCHANGED verdict, \A r \in Rooms : row'[r].pending = row[r].pending
  PROVE  NothingLost
BY DEF NothingLost, Kept, Verdicts, Envelopes

LEMMA VerdictsStay ==
  ASSUME KeepaliveInv, ClaimsStand, UNCHANGED verdict
  PROVE  VerdictsHold'
<1>1. ASSUME NEW v \in verdict PROVE True(v.env, v.outcome)'
  <2>1. PICK e \in Envelopes, o \in Final : e = v.env /\ o = v.outcome
    BY DEF KeepaliveInv, TypeOK
  <2>2. True(e, o)
    BY <2>1 DEF KeepaliveInv, VerdictsHold
  <2> QED BY <2>1, <2>2 DEF ClaimsStand
<1> QED BY <1>1 DEF VerdictsHold

LEMMA SentStays ==
  ASSUME KeepaliveInv, NothingLost,
         \A e \in sent' : e \in sent \/ (e \in Envelopes /\ Kept(e))
  PROVE  NothingForgotten' /\ sent' \subseteq Envelopes
<1>1. ASSUME NEW e \in sent' PROVE e \in Envelopes /\ Kept(e)'
  <2>1. e \in Envelopes /\ Kept(e)
    BY <1>1 DEF KeepaliveInv, TypeOK, NothingForgotten, Kept
  <2> QED BY <2>1 DEF NothingLost
<1> QED BY <1>1 DEF NothingForgotten, Kept

-----------------------------------------------------------------------------
(* The world around the worker.                                            *)

LEMMA WorldStep ==
  ASSUME KeepaliveInv, UNCHANGED <<sent, dbVars, run, late>>, ClaimsStand,
         LandedOnce',
         now' \in Time, ledger' \in 0..now', sequence' \in Nat,
         \A l \in landed' : l.env \in sent /\ l.ok \in BOOLEAN /\ l.at \in Time,
         live' \subseteq Rooms, watched' \subseteq Rooms
  PROVE  KeepaliveInv'
<1>1. UNCHANGED <<row, signer, verdict, sent, run, late>>
  BY DEF dbVars
<1>2. NothingLost
  BY <1>1, RowStill
<1>3. (\A v \in Runs : RunOK(run[v]))'
  BY <1>1, <1>2, RunsStay
<1>4. (\A c \in late : CallOK(c))'
  <2>1. ASSUME NEW c \in late' PROVE CallOK(c)'
    BY <1>1, <2>1, CallStays DEF KeepaliveInv, TypeOK
  <2> QED BY <2>1
<1>5. VerdictsHold'
  BY <1>1, VerdictsStay
<1>6. NothingForgotten'
  BY <1>1, <1>2, SentStays
<1>7. TypeOK'
  BY <1>1 DEF KeepaliveInv, TypeOK
<1> QED BY <1>3, <1>4, <1>5, <1>6, <1>7 DEF KeepaliveInv

LEMMA ClockFacts ==
  ASSUME KeepaliveInv
  PROVE  /\ now \in Nat /\ ledger \in Nat /\ ledger <= now /\ sequence \in Nat
         /\ now <= MaxTime /\ MaxTime \in Nat
         /\ \A t \in Nat : t <= MaxTime => t \in Time
         /\ \A t \in Time : t \in Nat
BY KeepaliveAssumption DEF KeepaliveInv, TypeOK, Time

LEMMA TickKeeps ==
  ASSUME KeepaliveInv, Tick
  PROVE  KeepaliveInv'
<1>1. now' = now + 1 /\ now < MaxTime /\ UNCHANGED <<chainVars, roomVars, dbVars, run, late>>
  BY DEF Tick
<1>2. UNCHANGED <<ledger, sequence, sent, landed, live, watched>>
  BY <1>1 DEF chainVars, roomVars
<1>3. now' \in Time /\ ledger' \in 0..now'
  BY <1>1, <1>2, ClockFacts
<1>4. ClaimsStand /\ LandedOnce'
  BY <1>2, ClockFacts, ChainStill
<1> QED BY <1>1, <1>2, <1>3, <1>4, WorldStep DEF KeepaliveInv, TypeOK

LEMMA CloseLedgerKeeps ==
  ASSUME KeepaliveInv, CloseLedger
  PROVE  KeepaliveInv'
<1>1. /\ ledger < now /\ ledger' = ledger + 1
      /\ UNCHANGED <<now, sequence, sent, landed, roomVars, dbVars, run, late>>
  BY DEF CloseLedger
<1>2. now' \in Time /\ ledger' \in 0..now' /\ ledger' \in Nat /\ ledger <= ledger'
  BY <1>1, ClockFacts DEF KeepaliveInv, TypeOK
<1>3. ClaimsStand /\ LandedOnce'
  BY <1>1, <1>2, ClockFacts, ChainStill
<1> QED BY <1>1, <1>2, <1>3, WorldStep DEF KeepaliveInv, TypeOK, roomVars

LEMMA SignedElsewhereKeeps ==
  ASSUME KeepaliveInv, SignedElsewhere
  PROVE  KeepaliveInv'
<1>1. /\ sequence' = sequence + 1
      /\ UNCHANGED <<now, ledger, sent, landed, roomVars, dbVars, run, late>>
  BY DEF SignedElsewhere
<1>2. sequence' \in Nat /\ sequence <= sequence'
  BY <1>1, ClockFacts
<1>3. ClaimsStand /\ LandedOnce'
  BY <1>1, <1>2, ClockFacts, ChainStill
<1> QED BY <1>1, <1>2, <1>3, WorldStep DEF KeepaliveInv, TypeOK, roomVars

LEMMA RoomsKeep ==
  ASSUME KeepaliveInv, NEW r \in Rooms, RoomEnds(r) \/ WatchSync(r)
  PROVE  KeepaliveInv'
<1>1. UNCHANGED <<now, chainVars, dbVars, run, late>>
  BY DEF RoomEnds, WatchSync
<1>2. UNCHANGED <<now, ledger, sequence, sent, landed>>
  BY <1>1 DEF chainVars
<1>3. live' \subseteq Rooms /\ watched' \subseteq Rooms
  BY DEF RoomEnds, WatchSync, KeepaliveInv, TypeOK
<1>4. ClaimsStand /\ LandedOnce'
  BY <1>2, ClockFacts, ChainStill
<1> QED BY <1>1, <1>2, <1>3, <1>4, WorldStep DEF KeepaliveInv, TypeOK

\* Including an envelope cannot contradict what was claimed of it: it is used
\* up or out of its bounds by then.
LEMMA IncludeKeeps ==
  ASSUME KeepaliveInv, NEW e \in sent, NEW ok \in BOOLEAN, Include(e, ok)
  PROVE  KeepaliveInv'
<1>1. PICK l : l = [env |-> e, ok |-> ok, at |-> ledger]
  OBVIOUS
<1>2. /\ e.seq = sequence + 1 /\ e.max >= ledger /\ e.min <= ledger
      /\ landed' = landed \cup {l} /\ sequence' = e.seq
      /\ UNCHANGED <<now, ledger, sent, roomVars, dbVars, run, late>>
  BY <1>1 DEF Include, Includable
<1>3. e \in Envelopes /\ sequence \in Nat /\ ledger \in Nat /\ e.max \in Int
  BY ClockFacts, KeepaliveAssumption DEF KeepaliveInv, TypeOK, Envelopes
<1>4. \A k \in landed : k.env.seq \in Nat /\ k.env.seq <= sequence /\ k.env # e
  BY <1>2, <1>3 DEF KeepaliveInv, TypeOK, LandedOnce, Envelopes
<1>5. ASSUME NEW f \in Envelopes, NEW o \in Final, True(f, o) PROVE True(f, o)'
  <2>1. CASE f = e
    <3>1. {k \in landed : k.env = f} = {}
      BY <1>4, <2>1
    <3>2. ~(ledger > f.max)
      BY <1>2, <1>3, <2>1
    <3> QED BY <1>5, <3>1, <3>2 DEF True, Final
  <2>2. CASE f # e
    <3>1. {k \in landed' : k.env = f} = {k \in landed : k.env = f}
      BY <1>1, <1>2, <2>2
    <3> QED BY <1>2, <1>5, <3>1 DEF True, Final
  <2> QED BY <2>1, <2>2
<1>6. LandedOnce'
  <2>1. ASSUME NEW k \in landed
        PROVE  k.env.seq <= sequence' /\ k.env.min <= k.at
    <3>1. k.env.seq <= sequence /\ k.env.min <= k.at
      BY DEF KeepaliveInv, LandedOnce
    <3> QED BY <1>2, <1>3, <1>4, <3>1
  <2>2. l.env.seq <= sequence' /\ l.env.min <= l.at
    BY <1>1, <1>2, <1>3
  <2>3. ASSUME NEW k \in landed', NEW j \in landed', j.env = k.env PROVE j = k
    BY <1>1, <1>2, <1>4, <2>3 DEF KeepaliveInv, LandedOnce
  <2> QED BY <1>2, <2>1, <2>2, <2>3 DEF LandedOnce
<1>7. sequence' \in Nat
  BY <1>2, <1>3
<1>8. \A k \in landed' : k.env \in sent /\ k.ok \in BOOLEAN /\ k.at \in Time
  <2>1. l.env \in sent /\ l.ok \in BOOLEAN /\ l.at \in Time
    <3>1. ledger \in Time
      BY ClockFacts
    <3> QED BY <1>1, <3>1
  <2> QED BY <1>2, <2>1 DEF KeepaliveInv, TypeOK
<1>9. ClaimsStand
  BY <1>5 DEF ClaimsStand
<1> QED BY <1>2, <1>6, <1>7, <1>8, <1>9, WorldStep DEF KeepaliveInv, TypeOK, roomVars

-----------------------------------------------------------------------------
(* The database.                                                           *)

DatabaseTyped ==
  /\ row \in [Rooms -> Row]
  /\ \A r \in Rooms :
       /\ row[r].pending # None => row[r].pending.room = r
       /\ (row[r].token = None) = (row[r].until = Never)
  /\ signer \in [token : Runs \cup {None}, until : Int]
  /\ verdict \subseteq [env : Envelopes, outcome : Final]

RowShape(k, r) ==
  /\ k \in Row /\ (k.pending # None => k.pending.room = r)
  /\ (k.token = None) = (k.until = Never)

LEMMA RowChange ==
  ASSUME KeepaliveInv, NEW r \in Rooms, NEW k, RowShape(k, r),
         row' = [row EXCEPT ![r] = k]
  PROVE  /\ row' \in [Rooms -> Row]
         /\ \A q \in Rooms : RowShape(row'[q], q)
         /\ row'[r] = k /\ \A q \in Rooms \ {r} : row'[q] = row[q]
<1>1. row \in [Rooms -> Row] /\ \A q \in Rooms : RowShape(row[q], q)
  BY DEF KeepaliveInv, TypeOK, RowShape
<1>2. row' \in [Rooms -> Row] /\ row'[r] = k /\ \A q \in Rooms \ {r} : row'[q] = row[q]
  BY <1>1 DEF RowShape
<1>3. \A q \in Rooms : RowShape(row'[q], q)
  <2> SUFFICES ASSUME NEW q \in Rooms PROVE RowShape(row'[q], q)
    OBVIOUS
  <2>1. CASE q = r
    BY <1>2, <2>1, Zenon
  <2>2. CASE q # r
    <3>1. row'[q] = row[q] /\ RowShape(row[q], q)
      BY <1>1, <1>2, <2>2, Zenon
    <3> QED BY <3>1, Zenon
  <2> QED BY <2>1, <2>2
<1> QED BY <1>2, <1>3

\* An envelope is stored only beside nothing pending.
LEMMA PrepareHow ==
  ASSUME KeepaliveInv, NEW c \in Call, c.op = "prepare", c.env \in Envelopes, Apply(c)
  PROVE  DatabaseTyped' /\ NothingLost /\ Kept(c.env)' /\ UNCHANGED verdict
<1>1. PICK e \in Envelopes : e = c.env
  OBVIOUS
<1>2. PICK r \in Rooms : r = e.room
  BY DEF Envelopes
<1>3. /\ row[r].pending = None
      /\ row' = [row EXCEPT ![r].pending = e]
      /\ UNCHANGED <<signer, verdict>>
  BY <1>1, <1>2 DEF Apply, Prepared
<1>4. PICK k : k = [row[r] EXCEPT !.pending = e]
  OBVIOUS
<1>5. row[r] \in Row /\ (row[r].token = None) = (row[r].until = Never)
  BY DEF KeepaliveInv, TypeOK
<1>6. k \in Row /\ k.pending = e /\ k.token = row[r].token /\ k.until = row[r].until
  BY <1>4, <1>5 DEF Row, MaybeEnvelope
<1>7. row' = [row EXCEPT ![r] = k]
  BY <1>3, <1>4 DEF KeepaliveInv, TypeOK
<1>8. RowShape(k, r)
  BY <1>2, <1>5, <1>6 DEF RowShape
<1>9. /\ row' \in [Rooms -> Row] /\ \A q \in Rooms : RowShape(row'[q], q)
      /\ row'[r] = k /\ \A q \in Rooms \ {r} : row'[q] = row[q]
  BY <1>7, <1>8, RowChange
<1>10. DatabaseTyped'
  BY <1>3, <1>9 DEF DatabaseTyped, RowShape, KeepaliveInv, TypeOK
<1>11. NothingLost
  <2> SUFFICES ASSUME NEW f \in Envelopes, Kept(f) PROVE Kept(f)'
    BY DEF NothingLost
  <2>1. Verdicts(f)' = Verdicts(f)
    BY <1>3 DEF Verdicts
  <2>2. CASE row[f.room].pending = f
    <3>1. f.room \in Rooms /\ f # None
      BY KeepaliveAssumption DEF Envelopes
    <3>2. f.room # r
      BY <1>3, <2>2, <3>1
    <3> QED BY <1>9, <2>2, <3>1, <3>2 DEF Kept
  <2> QED BY <2>1, <2>2 DEF Kept
<1>12. Kept(c.env)'
  BY <1>1, <1>2, <1>6, <1>9 DEF Kept
<1> QED BY <1>3, <1>10, <1>11, <1>12

\* The pending envelope goes only together with its verdict.
LEMMA FinishHow ==
  ASSUME KeepaliveInv, NEW c \in Call, c.op = "finish", CallOK(c), Apply(c)
  PROVE  /\ DatabaseTyped' /\ NothingLost
         /\ verdict' \subseteq verdict \cup
              {v \in [env : Envelopes, outcome : Final] : True(v.env, v.outcome)}
<1>1. PICK r \in Rooms, e \in MaybeEnvelope, o \in Recorded :
        r = c.room /\ e = c.env /\ o = c.outcome
  BY DEF Call, CallOK
<1>2. PICK confirmed : confirmed = IF o = "confirmed" THEN now ELSE row[r].lastConfirmed
  OBVIOUS
<1>3. PICK pending : pending = IF o = "pending" THEN row[r].pending ELSE None
  OBVIOUS
<1>4. /\ Finishes(c.w, r, e, o)
      /\ row' = [row EXCEPT ![r] = Finished(@, o)]
      /\ signer' = [token |-> None, until |-> Never]
      /\ verdict' = IF Settled(o) THEN verdict \cup {[env |-> e, outcome |-> o]}
                                  ELSE verdict
  BY <1>1 DEF Apply
<1>5. /\ row \in [Rooms -> Row] /\ row[r] \in Row
      /\ row[r].pending # None => row[r].pending.room = r
  BY DEF KeepaliveInv, TypeOK
<1>6. PICK j : j = [row[r] EXCEPT !.lastConfirmed = confirmed, !.pending = pending]
  OBVIOUS
<1>7. PICK k : k = [j EXCEPT !.token = None, !.until = Never]
  OBVIOUS
<1>8. row' = [row EXCEPT ![r] = k]
  <2>1. j = [row[r] EXCEPT
               !.lastConfirmed = IF o = "confirmed" THEN now ELSE @,
               !.pending = IF o = "pending" THEN @ ELSE None]
    BY <1>2, <1>3, <1>5, <1>6 DEF Row
  <2>2. k = Finished(row[r], o)
    BY <1>7, <2>1 DEF Finished, Released
  <2> QED BY <1>4, <2>2, Zenon
<1>9. now \in Int /\ Never \in Int
  BY ClockFacts, KeepaliveAssumption
<1>10. j \in Row /\ j.pending = pending
  BY <1>2, <1>3, <1>5, <1>6, <1>9 DEF Row, MaybeEnvelope
<1>11. k \in Row /\ k.pending = pending /\ k.token = None /\ k.until = Never
  BY <1>7, <1>9, <1>10 DEF Row
<1>12. RowShape(k, r)
  BY <1>3, <1>5, <1>11 DEF RowShape
<1>13. /\ row' \in [Rooms -> Row] /\ \A q \in Rooms : RowShape(row'[q], q)
       /\ row'[r] = k /\ \A q \in Rooms \ {r} : row'[q] = row[q]
  BY <1>8, <1>12, RowChange
<1>14. signer' \in [token : Runs \cup {None}, until : Int]
  BY <1>4, <1>9
<1>15. /\ verdict' \subseteq verdict \cup
              {v \in [env : Envelopes, outcome : Final] : True(v.env, v.outcome)}
       /\ verdict' \subseteq [env : Envelopes, outcome : Final]
  <2>1. CASE Settled(o)
    <3>1. o \in Final /\ e \in Envelopes /\ True(e, o)
      BY <1>1, <2>1 DEF Settled, Final, CallOK
    <3>2. PICK v : v = [env |-> e, outcome |-> o]
      OBVIOUS
    <3>3. v \in [env : Envelopes, outcome : Final] /\ True(v.env, v.outcome)
      BY <3>1, <3>2
    <3>4. verdict' = verdict \cup {v}
      BY <1>4, <2>1, <3>2
    <3> QED BY <3>3, <3>4 DEF KeepaliveInv, TypeOK
  <2>2. CASE ~Settled(o)
    BY <1>4, <2>2 DEF KeepaliveInv, TypeOK
  <2> QED BY <2>1, <2>2
<1>16. DatabaseTyped'
  BY <1>13, <1>14, <1>15 DEF DatabaseTyped, RowShape
<1>17. NothingLost
  <2> SUFFICES ASSUME NEW f \in Envelopes, Kept(f) PROVE Kept(f)'
    BY DEF NothingLost
  <2>1. verdict \subseteq verdict'
    BY <1>4
  <2>2. CASE Verdicts(f) # {}
    <3>1. Verdicts(f)' # {}
      BY <2>1, <2>2 DEF Verdicts
    <3> QED BY <3>1 DEF Kept
  <2>3. CASE row[f.room].pending = f /\ f.room # r
    <3>1. f.room \in Rooms
      BY DEF Envelopes
    <3>2. row'[f.room] = row[f.room]
      BY <1>13, <2>3, <3>1
    <3> QED BY <2>3, <3>2 DEF Kept
  <2>4. CASE row[f.room].pending = f /\ f.room = r
    <3>1. f # None
      BY KeepaliveAssumption
    <3>2. CASE o = "pending"
      BY <1>3, <1>11, <1>13, <2>4, <3>2 DEF Kept
    <3>3. CASE o # "pending"
      <4>1. o # "deferred" /\ e = f
        BY <1>4, <2>4, <3>1 DEF Finishes
      <4>2. CASE Settled(o)
        <5>1. [env |-> f, outcome |-> o] \in verdict'
          BY <1>4, <4>1, <4>2
        <5>2. o \in Verdicts(f)'
          BY <5>1 DEF Verdicts
        <5> QED BY <5>2 DEF Kept
      <4>3. CASE ~Settled(o)
        <5> QED BY <3>3, <4>1, <4>3 DEF Recorded, Final, Settled
      <4> QED BY <4>2, <4>3
    <3> QED BY <3>2, <3>3
  <2> QED BY <2>2, <2>3, <2>4 DEF Kept
<1> QED BY <1>15, <1>16, <1>17

\* Whatever becomes of one call, the claims and the pending envelopes stand.
LEMMA DatabaseMoves ==
  ASSUME KeepaliveInv, UNCHANGED <<now, chainVars>>, NEW c \in Call, CallOK(c),
         Apply(c) \/ UNCHANGED dbVars
  PROVE  /\ ClaimsStand /\ NothingLost /\ LandedOnce' /\ DatabaseTyped'
         /\ VerdictsHold' /\ NothingForgotten'
         /\ Apply(c) /\ c.op = "prepare" => Kept(c.env)'
<1>1. UNCHANGED <<ledger, sequence, sent, landed>>
  BY DEF chainVars
<1>2. ClaimsStand /\ LandedOnce'
  BY <1>1, ClockFacts, ChainStill
<1>3. /\ DatabaseTyped' /\ NothingLost
      /\ verdict' \subseteq verdict \cup
              {v \in [env : Envelopes, outcome : Final] : True(v.env, v.outcome)}
      /\ Apply(c) /\ c.op = "prepare" => Kept(c.env)'
  <2>1. CASE Apply(c) /\ c.op = "prepare"
    <3>1. c.env \in Envelopes
      BY <2>1 DEF CallOK
    <3>2. DatabaseTyped' /\ NothingLost /\ Kept(c.env)' /\ UNCHANGED verdict
      BY <2>1, <3>1, PrepareHow
    <3> QED BY <3>2
  <2>2. CASE Apply(c) /\ c.op = "finish"
    <3>1. ~(c.op = "prepare")
      BY <2>2
    <3> QED BY <2>2, <3>1, FinishHow
  <2>3. CASE ~Apply(c)
    <3>1. UNCHANGED <<row, signer, verdict>>
      BY <2>3 DEF dbVars
    <3>2. DatabaseTyped'
      BY <3>1 DEF KeepaliveInv, TypeOK, DatabaseTyped
    <3>3. NothingLost
      BY <3>1, RowStill
    <3> QED BY <2>3, <3>1, <3>2, <3>3
  <2>4. c.op \in {"prepare", "finish"}
    BY DEF Call
  <2> QED BY <2>1, <2>2, <2>3, <2>4
<1>4. VerdictsHold'
  <2>1. ASSUME NEW v \in verdict' PROVE True(v.env, v.outcome)'
    <3>1. PICK e \in Envelopes, o \in Final : e = v.env /\ o = v.outcome
      BY <1>3 DEF DatabaseTyped
    <3>2. True(e, o)
      BY <1>3, <3>1 DEF KeepaliveInv, VerdictsHold
    <3> QED BY <1>2, <3>1, <3>2 DEF ClaimsStand
  <2> QED BY <2>1 DEF VerdictsHold
<1>5. NothingForgotten'
  BY <1>1, <1>3, SentStays
<1> QED BY <1>2, <1>3, <1>4, <1>5

LEMMA DatabaseStill ==
  ASSUME KeepaliveInv, UNCHANGED <<now, ledger, sequence, landed, dbVars>>
  PROVE  ClaimsStand /\ NothingLost /\ LandedOnce' /\ DatabaseTyped' /\ VerdictsHold'
<1>1. UNCHANGED <<row, signer, verdict>>
  BY DEF dbVars
<1>2. ClaimsStand /\ LandedOnce'
  BY ClockFacts, ChainStill
<1>3. DatabaseTyped'
  BY <1>1 DEF KeepaliveInv, TypeOK, DatabaseTyped
<1>4. NothingLost
  BY <1>1, RowStill
<1>5. VerdictsHold'
  BY <1>1, <1>2, VerdictsStay
<1> QED BY <1>2, <1>3, <1>4, <1>5

LEMMA Conclude ==
  ASSUME KeepaliveInv, UNCHANGED <<now, ledger, sequence, landed, roomVars>>,
         LandedOnce', DatabaseTyped', VerdictsHold', NothingForgotten',
         sent \subseteq sent', sent' \subseteq Envelopes,
         run' \in [Runs -> RunRecord], (\A v \in Runs : RunOK(run[v]))',
         late' \subseteq Call, (\A c \in late : CallOK(c))'
  PROVE  KeepaliveInv'
<1>1. TypeOK'
  BY DEF KeepaliveInv, TypeOK, DatabaseTyped, roomVars
<1> QED BY <1>1 DEF KeepaliveInv

-----------------------------------------------------------------------------
(* How a run goes on.                                                      *)

LEMMA RunShape ==
  ASSUME KeepaliveInv, NEW w \in Runs
  PROVE  run \in [Runs -> RunRecord] /\ run[w] \in RunRecord /\ RunOK(run[w])
BY DEF KeepaliveInv, TypeOK

LEMMA GotoHow ==
  ASSUME KeepaliveInv, NEW w \in Runs, NEW pc \in {"send", "poll"}, Goto(w, pc)
  PROVE  \E k \in RunRecord :
           /\ run' = [run EXCEPT ![w] = k]
           /\ k.pc = pc /\ k.room = run[w].room /\ k.env = run[w].env
<1>1. PICK k : k = [run[w] EXCEPT !.pc = pc]
  OBVIOUS
<1>2. /\ k \in RunRecord /\ k.pc = pc /\ k.room = run[w].room
      /\ k.env = run[w].env
  BY <1>1, RunShape DEF RunRecord
<1>3. run' = [run EXCEPT ![w] = k]
  BY <1>1, RunShape DEF Goto
<1> QED BY <1>2, <1>3

LEMMA DoneHow ==
  ASSUME NEW w \in Runs, Done(w)
  PROVE  \E k \in RunRecord : run' = [run EXCEPT ![w] = k] /\ RunOK(k)'
<1>1. PICK k : k = [pc |-> "done", room |-> None, env |-> None, outcome |-> None]
  OBVIOUS
<1>2. k \in RunRecord
  BY <1>1 DEF RunRecord, MaybeRoom, MaybeEnvelope, Outcomes
<1>3. k = [NoRun EXCEPT !.pc = "done"]
  BY <1>1 DEF NoRun
<1>4. run' = [run EXCEPT ![w] = k]
  BY <1>3, Zenon DEF Done
<1>5. RunOK(k)'
  BY <1>1 DEF RunOK
<1> QED BY <1>2, <1>4, <1>5

LEMMA EndingHow ==
  ASSUME KeepaliveInv, NEW w \in Runs, NEW o \in Recorded, Ending(w, o),
         run[w].room \in Rooms,
         o \in Final => run[w].env \in Envelopes /\ True(run[w].env, o),
         ClaimsStand
  PROVE  \E k \in RunRecord : run' = [run EXCEPT ![w] = k] /\ RunOK(k)'
<1>1. PICK k : k = [run[w] EXCEPT !.pc = "finish", !.outcome = o]
  OBVIOUS
<1>2. /\ k \in RunRecord /\ k.pc = "finish" /\ k.outcome = o
      /\ k.room = run[w].room /\ k.env = run[w].env
  BY <1>1, RunShape DEF RunRecord, Outcomes, Recorded
<1>3. run' = [run EXCEPT ![w] = k]
  BY <1>1, RunShape DEF Ending
<1>4. o \in Final => k.env \in Envelopes /\ True(k.env, o)'
  <2>1. PICK e : e = run[w].env
    OBVIOUS
  <2>2. o \in Final => e \in Envelopes /\ True(e, o)
    BY <2>1
  <2> QED BY <1>2, <2>1, <2>2, Zenon DEF ClaimsStand
<1>5. RunOK(k)'
  BY <1>2, <1>4 DEF RunOK
<1> QED BY <1>2, <1>3, <1>5

LEMMA FailingHow ==
  ASSUME KeepaliveInv, NEW w \in Runs, Failing(w), run[w].room \in Rooms
  PROVE  \E k \in RunRecord : run' = [run EXCEPT ![w] = k] /\ RunOK(k)'
<1>1. PICK o \in {"pending", "deferred"} :
        o = IF run[w].env = None THEN "deferred" ELSE "pending"
  OBVIOUS
<1>2. PICK k : k = [run[w] EXCEPT !.pc = "catch", !.outcome = o]
  OBVIOUS
<1>3. /\ k \in RunRecord /\ k.pc = "catch" /\ k.outcome = o
      /\ k.room = run[w].room
  BY <1>2, RunShape DEF RunRecord, Outcomes
<1>4. run' = [run EXCEPT ![w] = k]
  BY <1>1, <1>2, RunShape DEF Failing
<1>5. RunOK(k)'
  BY <1>3 DEF RunOK, Recorded
<1> QED BY <1>3, <1>4, <1>5

\* A run that only moves itself on, and may have sent what is stored.
LEMMA RunStep ==
  ASSUME KeepaliveInv, UNCHANGED <<now, ledger, sequence, landed, roomVars, dbVars, late>>,
         sent \subseteq sent',
         \A e \in sent' : e \in sent \/ (e \in Envelopes /\ Kept(e)),
         NEW w \in Runs,
         \E k \in RunRecord : run' = [run EXCEPT ![w] = k] /\ RunOK(k)'
  PROVE  KeepaliveInv'
<1>1. ClaimsStand /\ NothingLost /\ LandedOnce' /\ DatabaseTyped' /\ VerdictsHold'
  BY DatabaseStill
<1>2. NothingForgotten' /\ sent' \subseteq Envelopes
  BY <1>1, SentStays
<1>3. run' \in [Runs -> RunRecord] /\ (\A v \in Runs : RunOK(run[v]))'
  BY <1>1, Move
<1>4. late' \subseteq Call /\ (\A c \in late : CallOK(c))'
  <2>1. late' = late /\ late \subseteq Call /\ \A c \in late : CallOK(c)
    BY DEF KeepaliveInv, TypeOK
  <2>2. ASSUME NEW c \in late' PROVE CallOK(c)'
    BY <1>1, <2>1, <2>2, CallStays
  <2> QED BY <2>1, <2>2
<1> QED BY <1>1, <1>2, <1>3, <1>4, Conclude

\* A run that makes a call: it takes effect, is refused, or is given up.
LEMMA CallStep ==
  ASSUME KeepaliveInv, UNCHANGED <<now, chainVars, roomVars>>,
         NEW c \in Call, CallOK(c), Apply(c) \/ UNCHANGED dbVars,
         late' \subseteq late \cup {c},
         NEW w \in Runs,
         \E k \in RunRecord : run' = [run EXCEPT ![w] = k] /\ RunOK(k)'
  PROVE  KeepaliveInv'
<1>1. /\ ClaimsStand /\ NothingLost /\ LandedOnce' /\ DatabaseTyped'
      /\ VerdictsHold' /\ NothingForgotten'
  BY DatabaseMoves
<1>2. run' \in [Runs -> RunRecord] /\ (\A v \in Runs : RunOK(run[v]))'
  BY <1>1, Move
<1>3. late' \subseteq Call /\ (\A d \in late : CallOK(d))'
  BY <1>1, LateStays
<1>4. UNCHANGED <<ledger, sequence, sent, landed>> /\ sent' \subseteq Envelopes
  BY DEF chainVars, KeepaliveInv, TypeOK
<1> QED BY <1>1, <1>2, <1>3, <1>4, Conclude

-----------------------------------------------------------------------------
(* The steps of a run.                                                     *)

LEMMA StartKeeps ==
  ASSUME KeepaliveInv, NEW w \in Runs, Start(w)
  PROVE  KeepaliveInv'
<1>1. UNCHANGED <<now, chainVars, roomVars, verdict, late>>
  BY DEF Start
<1>2. CASE Claimable = {} /\ Done(w) /\ UNCHANGED <<row, signer>>
  <2>1. \E k \in RunRecord : run' = [run EXCEPT ![w] = k] /\ RunOK(k)'
    BY <1>2, DoneHow
  <2>2. \A e \in sent' : e \in sent
    BY <1>1 DEF chainVars
  <2>3. UNCHANGED <<now, ledger, sequence, landed, roomVars, dbVars, late>>
    BY <1>1, <1>2 DEF chainVars, dbVars
  <2>4. sent \subseteq sent'
    BY <1>1 DEF chainVars
  <2> QED BY <2>1, <2>2, <2>3, <2>4, RunStep
<1>3. ASSUME NEW r \in Rooms, Claim(w, r),
             \/ run' = [run EXCEPT ![w].room = r, ![w].env = row[r].pending,
                          ![w].pc = IF row[r].pending = None THEN "fresh" ELSE "recover"]
             \/ Done(w)
      PROVE  KeepaliveInv'
  <2>1. PICK until : until = now + LEASE
    OBVIOUS
  <2>2. until \in Nat /\ until # Never /\ w \in Runs /\ w # None /\ now \in Nat
    BY <2>1, ClockFacts, KeepaliveAssumption DEF Runs
  <2>3. PICK j : j = [row[r] EXCEPT !.token = w, !.until = until]
    OBVIOUS
  <2>4. PICK k : k = [j EXCEPT !.lastAttempt = now]
    OBVIOUS
  <2>5. /\ row \in [Rooms -> Row] /\ row[r] \in Row
        /\ row[r].pending # None => row[r].pending.room = r
    BY DEF KeepaliveInv, TypeOK
  <2>6. j \in Row /\ j.pending = row[r].pending /\ j.token = w /\ j.until = until
    <3>1. PICK i : i = [row[r] EXCEPT !.token = w]
      OBVIOUS
    <3>2. i \in Row /\ i.pending = row[r].pending /\ i.token = w
      BY <2>5, <3>1 DEF Row
    <3>3. j = [i EXCEPT !.until = until] /\ until \in Int
      BY <2>2, <2>3, <3>1
    <3> QED BY <3>2, <3>3 DEF Row
  <2>7. k \in Row /\ k.pending = row[r].pending /\ k.token = w /\ k.until = until
    BY <2>2, <2>4, <2>6 DEF Row
  <2>8. row' = [row EXCEPT ![r] = k]
    BY <1>3, <2>1, <2>3, <2>4, <2>5 DEF Claim
  <2>9. RowShape(k, r)
    BY <2>2, <2>5, <2>7 DEF RowShape
  <2>10. /\ row' \in [Rooms -> Row] /\ \A q \in Rooms : RowShape(row'[q], q)
         /\ row'[r] = k /\ \A q \in Rooms \ {r} : row'[q] = row[q]
    BY <2>8, <2>9, RowChange
  <2>11. signer' \in [token : Runs \cup {None}, until : Int]
    BY <1>3, <2>1, <2>2 DEF Claim
  <2>12. DatabaseTyped'
    BY <1>1, <2>10, <2>11 DEF DatabaseTyped, RowShape, KeepaliveInv, TypeOK
  <2>13. UNCHANGED <<ledger, sequence, sent, landed>>
    BY <1>1 DEF chainVars
  <2>14. ClaimsStand /\ LandedOnce'
    BY <2>13, ClockFacts, ChainStill
  <2>15. NothingLost
    BY <1>1, <2>7, <2>10, RowStill
  <2>16. VerdictsHold' /\ NothingForgotten' /\ sent' \subseteq Envelopes
    BY <1>1, <2>13, <2>14, <2>15, VerdictsStay, SentStays
  <2>17. \E m \in RunRecord : run' = [run EXCEPT ![w] = m] /\ RunOK(m)'
    <3>1. CASE Done(w)
      BY <3>1, DoneHow
    <3>2. CASE run' = [run EXCEPT ![w].room = r, ![w].env = row[r].pending,
                         ![w].pc = IF row[r].pending = None THEN "fresh" ELSE "recover"]
      <4>1. PICK pc \in {"fresh", "recover"} :
              pc = IF row[r].pending = None THEN "fresh" ELSE "recover"
        OBVIOUS
      <4>2. PICK e \in MaybeEnvelope : e = row[r].pending
        BY <2>5 DEF Row
      <4>3. PICK n : n = [run[w] EXCEPT !.room = r, !.env = e]
        OBVIOUS
      <4>4. PICK m : m = [n EXCEPT !.pc = pc]
        OBVIOUS
      <4>5. n \in RunRecord /\ n.room = r /\ n.env = e
        BY <4>3, RunShape DEF RunRecord, MaybeRoom
      <4>6. m \in RunRecord /\ m.room = r /\ m.env = e /\ m.pc = pc
        BY <4>4, <4>5 DEF RunRecord
      <4>7. run' = [run EXCEPT ![w] = m]
        BY <3>2, <4>1, <4>2, <4>3, <4>4, RunShape
      <4>8. pc = "recover" => e \in Envelopes /\ Kept(e)'
        <5>1. SUFFICES ASSUME pc = "recover" PROVE e \in Envelopes /\ Kept(e)'
          OBVIOUS
        <5>2. e # None /\ e \in Envelopes /\ e.room = r
          BY <2>5, <4>1, <4>2, <5>1 DEF MaybeEnvelope
        <5>3. Kept(e)
          BY <4>2, <5>2 DEF Kept
        <5> QED BY <2>15, <5>2, <5>3 DEF NothingLost
      <4>9. RunOK(m)'
        <5>1. CASE pc = "fresh"
          BY <4>6, <5>1 DEF RunOK
        <5>2. CASE pc = "recover"
          BY <4>6, <4>8, <5>2 DEF RunOK
        <5> QED BY <5>1, <5>2
      <4> QED BY <4>6, <4>7, <4>9
    <3> QED BY <1>3, <3>1, <3>2
  <2>18. run' \in [Runs -> RunRecord] /\ (\A v \in Runs : RunOK(run[v]))'
    BY <2>14, <2>15, <2>17, Move
  <2>19. late' \subseteq Call /\ (\A c \in late : CallOK(c))'
    <3>1. late' = late /\ late \subseteq Call /\ \A c \in late : CallOK(c)
      BY <1>1 DEF KeepaliveInv, TypeOK
    <3>2. ASSUME NEW c \in late' PROVE CallOK(c)'
      BY <2>14, <3>1, <3>2, CallStays
    <3> QED BY <3>1, <3>2
  <2> QED BY <1>1, <2>12, <2>13, <2>14, <2>16, <2>18, <2>19, Conclude
<1> QED BY <1>2, <1>3 DEF Start

LEMMA BuildKeeps ==
  ASSUME KeepaliveInv, NEW w \in Runs, Build(w)
  PROVE  KeepaliveInv'
<1>1. run[w].pc = "fresh" /\ UNCHANGED <<now, chainVars, roomVars, dbVars, late>>
  BY DEF Build, At
<1>2. run[w].room \in Rooms
  BY <1>1, RunShape DEF RunOK
<1>3. UNCHANGED <<ledger, sequence, sent, landed>>
  BY <1>1 DEF chainVars
<1>4. ClaimsStand
  BY <1>1, <1>3, DatabaseStill
<1>5. \E k \in RunRecord : run' = [run EXCEPT ![w] = k] /\ RunOK(k)'
  <2>1. CASE Ending(w, "deferred")
    BY <1>2, <1>4, <2>1, EndingHow DEF Recorded, Final
  <2>2. CASE Failing(w)
    BY <1>2, <2>2, FailingHow
  <2>3. ASSUME run' = [run EXCEPT ![w].pc = "prepare",
                 ![w].env = [room |-> run[w].room, seq |-> sequence + 1,
                             min |-> now - BEFORE, max |-> now + VALID]]
        PROVE  \E k \in RunRecord : run' = [run EXCEPT ![w] = k] /\ RunOK(k)'
    <3>1. PICK e : e = [room |-> run[w].room, seq |-> sequence + 1,
                        min |-> now - BEFORE, max |-> now + VALID]
      OBVIOUS
    <3>2. /\ sequence + 1 \in Nat \ {0}
          /\ now - BEFORE \in (0 - BEFORE)..MaxTime
          /\ now + VALID \in 0..(MaxTime + VALID)
      BY ClockFacts, KeepaliveAssumption
    <3>3. e \in Envelopes
      BY <1>2, <3>1, <3>2 DEF Envelopes
    <3>4. PICK k : k = [run[w] EXCEPT !.pc = "prepare", !.env = e]
      OBVIOUS
    <3>5. /\ k \in RunRecord /\ k.pc = "prepare" /\ k.env = e
          /\ k.room = run[w].room
      BY <3>3, <3>4, RunShape DEF RunRecord, MaybeEnvelope
    <3>6. run' = [run EXCEPT ![w] = k]
      BY <2>3, <3>1, <3>4, RunShape
    <3>7. RunOK(k)'
      BY <1>2, <3>3, <3>5 DEF RunOK
    <3> QED BY <3>5, <3>6, <3>7
  <2> QED BY <2>1, <2>2, <2>3 DEF Build
<1> QED BY <1>1, <1>3, <1>5, RunStep

\* What the network answers of an envelope is so, and what it no longer
\* remembers is not concluded.
LEMMA FoundTells ==
  ASSUME KeepaliveInv, NEW e \in Envelopes
  PROVE  /\ \A l \in Found(e) : True(e, IF l.ok THEN "confirmed" ELSE "failed")
         /\ Found(e) = {} /\ Expired(e) => True(e, "expired")
<1>1. ASSUME NEW l \in Found(e)
      PROVE  True(e, IF l.ok THEN "confirmed" ELSE "failed")
  <2>1. l \in landed /\ l.env = e
    BY DEF Found
  <2>2. \A k \in landed : k.env = e => k = l
    BY <2>1 DEF KeepaliveInv, LandedOnce
  <2>3. CASE l.ok
    BY <2>1, <2>3 DEF True
  <2>4. CASE ~l.ok
    BY <2>1, <2>2, <2>4 DEF True
  <2> QED BY <2>3, <2>4
<1>2. ASSUME Found(e) = {}, Expired(e) PROVE True(e, "expired")
  <2>1. e.min \in Int /\ e.max \in Int /\ MARGIN \in Nat /\ ledger \in Nat
    BY ClockFacts, KeepaliveAssumption DEF Envelopes
  <2>2. ledger > e.max
    BY <1>2, <2>1 DEF Expired
  <2>3. OldestLedger <= e.min /\ OldestLedger \in Int
    BY <1>2, <2>1, KeepaliveAssumption DEF Expired, OldestLedger
  <2>4. ASSUME NEW l \in landed, l.env = e PROVE FALSE
    <3>1. e.min <= l.at /\ l.at \in Nat
      BY <2>4, ClockFacts DEF KeepaliveInv, LandedOnce, TypeOK
    <3>2. l.at >= OldestLedger
      BY <2>1, <2>3, <3>1
    <3> QED BY <1>2, <2>4, <3>2 DEF Found
  <2>5. {l \in landed : l.env = e} = {}
    BY <2>4
  <2> QED BY <2>2, <2>5 DEF True
<1> QED BY <1>1, <1>2

LEMMA RecoverKeeps ==
  ASSUME KeepaliveInv, NEW w \in Runs, Recover(w)
  PROVE  KeepaliveInv'
<1>1. PICK e : e = run[w].env
  OBVIOUS
<1>2. run[w].pc = "recover" /\ UNCHANGED <<now, chainVars, roomVars, dbVars, late>>
  BY DEF Recover, At
<1>3. run[w].room \in Rooms /\ e \in Envelopes /\ Kept(e)
  BY <1>1, <1>2, RunShape DEF RunOK
<1>4. UNCHANGED <<ledger, sequence, sent, landed>>
  BY <1>2 DEF chainVars
<1>5. ClaimsStand /\ NothingLost
  BY <1>2, <1>4, DatabaseStill
<1>6. \E k \in RunRecord : run' = [run EXCEPT ![w] = k] /\ RunOK(k)'
  <2>1. ASSUME NEW l \in Found(e), Ending(w, IF l.ok THEN "confirmed" ELSE "failed")
        PROVE  \E k \in RunRecord : run' = [run EXCEPT ![w] = k] /\ RunOK(k)'
    <3>1. PICK o \in {"confirmed", "failed"} : o = IF l.ok THEN "confirmed" ELSE "failed"
      OBVIOUS
    <3>2. True(e, o) /\ Ending(w, o)
      BY <1>3, <2>1, <3>1, FoundTells
    <3>3. o \in Recorded
      BY DEF Recorded, Final
    <3> QED BY <1>1, <1>3, <1>5, <3>2, <3>3, EndingHow
  <2>2. CASE Found(e) = {} /\ Expired(e) /\ Ending(w, "expired")
    <3>1. True(e, "expired")
      BY <1>3, <2>2, FoundTells
    <3>2. "expired" \in Recorded
      BY DEF Recorded, Final
    <3> QED BY <1>1, <1>3, <1>5, <2>2, <3>1, <3>2, EndingHow
  <2>3. CASE Ending(w, "pending")
    BY <1>3, <1>5, <2>3, EndingHow DEF Recorded, Final
  <2>4. CASE Goto(w, "send")
    <3>1. PICK k \in RunRecord :
            /\ run' = [run EXCEPT ![w] = k]
            /\ k.pc = "send" /\ k.room = run[w].room /\ k.env = e
      BY <1>1, <2>4, GotoHow
    <3>2. Kept(k.env)'
      BY <1>3, <1>5, <3>1 DEF NothingLost
    <3>3. RunOK(k)'
      BY <1>3, <3>1, <3>2 DEF RunOK
    <3> QED BY <3>1, <3>3
  <2>5. CASE Failing(w)
    BY <1>3, <2>5, FailingHow
  <2> QED BY <1>1, <2>1, <2>2, <2>3, <2>4, <2>5 DEF Recover
<1> QED BY <1>2, <1>4, <1>6, RunStep

LEMMA SendKeeps ==
  ASSUME KeepaliveInv, NEW w \in Runs, Send(w)
  PROVE  KeepaliveInv'
<1>1. PICK e : e = run[w].env
  OBVIOUS
<1>2. /\ run[w].pc = "send" /\ sent' \in {sent, sent \cup {e}}
      /\ UNCHANGED <<now, ledger, sequence, landed, roomVars, dbVars, late>>
  BY <1>1 DEF Send, At
<1>3. run[w].room \in Rooms /\ e \in Envelopes /\ Kept(e)
  BY <1>1, <1>2, RunShape DEF RunOK
<1>4. ClaimsStand /\ NothingLost
  BY <1>2, DatabaseStill
<1>5. \E k \in RunRecord : run' = [run EXCEPT ![w] = k] /\ RunOK(k)'
  <2>1. CASE Goto(w, "poll")
    <3>1. PICK k \in RunRecord :
            /\ run' = [run EXCEPT ![w] = k]
            /\ k.pc = "poll" /\ k.room = run[w].room /\ k.env = e
      BY <1>1, <2>1, GotoHow
    <3>2. Kept(k.env)'
      BY <1>3, <1>4, <3>1 DEF NothingLost
    <3>3. RunOK(k)'
      BY <1>3, <3>1, <3>2 DEF RunOK
    <3> QED BY <3>1, <3>3
  <2>2. CASE Failing(w)
    BY <1>3, <2>2, FailingHow
  <2> QED BY <2>1, <2>2 DEF Send
<1>6. sent \subseteq sent' /\ \A f \in sent' : f \in sent \/ (f \in Envelopes /\ Kept(f))
  BY <1>2, <1>3
<1> QED BY <1>2, <1>5, <1>6, RunStep

LEMMA PollKeeps ==
  ASSUME KeepaliveInv, NEW w \in Runs, Poll(w)
  PROVE  KeepaliveInv'
<1>1. PICK e : e = run[w].env
  OBVIOUS
<1>2. run[w].pc = "poll" /\ UNCHANGED <<now, chainVars, roomVars, dbVars, late>>
  BY DEF Poll, At
<1>3. run[w].room \in Rooms /\ e \in Envelopes
  BY <1>1, <1>2, RunShape DEF RunOK
<1>4. UNCHANGED <<ledger, sequence, sent, landed>>
  BY <1>2 DEF chainVars
<1>5. ClaimsStand
  BY <1>2, <1>4, DatabaseStill
<1>6. \E k \in RunRecord : run' = [run EXCEPT ![w] = k] /\ RunOK(k)'
  <2>1. ASSUME NEW l \in Found(e), Ending(w, IF l.ok THEN "confirmed" ELSE "failed")
        PROVE  \E k \in RunRecord : run' = [run EXCEPT ![w] = k] /\ RunOK(k)'
    <3>1. PICK o \in {"confirmed", "failed"} : o = IF l.ok THEN "confirmed" ELSE "failed"
      OBVIOUS
    <3>2. True(e, o) /\ Ending(w, o)
      BY <1>3, <2>1, <3>1, FoundTells
    <3>3. o \in Recorded
      BY DEF Recorded, Final
    <3> QED BY <1>1, <1>3, <1>5, <3>2, <3>3, EndingHow
  <2>2. CASE Ending(w, "pending")
    BY <1>3, <1>5, <2>2, EndingHow DEF Recorded, Final
  <2>3. CASE Failing(w)
    BY <1>3, <2>3, FailingHow
  <2> QED BY <1>1, <2>1, <2>2, <2>3 DEF Poll
<1> QED BY <1>2, <1>4, <1>6, RunStep

LEMMA PrepareKeeps ==
  ASSUME KeepaliveInv, NEW w \in Runs, Prepare(w)
  PROVE  KeepaliveInv'
<1>1. PICK c : c = PrepareCall(w)
  OBVIOUS
<1>2. run[w].pc = "prepare" /\ UNCHANGED <<now, chainVars, roomVars>>
  BY DEF Prepare, At
<1>3. run[w].room \in Rooms /\ run[w].env \in Envelopes
  BY <1>2, RunShape DEF RunOK
<1>4. c \in Call /\ c.op = "prepare" /\ c.env = run[w].env /\ CallOK(c)
  <2>1. c \in Call /\ c.op = "prepare" /\ c.env = run[w].env
    BY <1>1, <1>3 DEF PrepareCall, Call, MaybeEnvelope, Outcomes
  <2> QED BY <1>3, <2>1 DEF CallOK
<1>5. CASE Apply(c) /\ Goto(w, "send") /\ UNCHANGED late
  <2>1. ClaimsStand /\ NothingLost /\ Kept(c.env)'
    BY <1>2, <1>4, <1>5, DatabaseMoves
  <2>2. PICK k \in RunRecord :
          /\ run' = [run EXCEPT ![w] = k]
          /\ k.pc = "send" /\ k.room = run[w].room /\ k.env = c.env
    BY <1>4, <1>5, GotoHow
  <2>3. Kept(k.env)'
    BY <2>1, <2>2 DEF Kept
  <2>4. RunOK(k)'
    BY <1>3, <1>4, <2>2, <2>3 DEF RunOK
  <2> QED BY <1>2, <1>4, <1>5, <2>2, <2>4, CallStep
<1>6. CASE Failing(w) /\ UNCHANGED dbVars /\ late' \subseteq late \cup {c}
  BY <1>2, <1>3, <1>4, <1>6, FailingHow, CallStep
<1> QED BY <1>1, <1>5, <1>6 DEF Prepare, StoredFirst, GiveUp

LEMMA FinishCallOK ==
  ASSUME KeepaliveInv, NEW w \in Runs, run[w].pc \in {"finish", "catch"},
         RunOK(run[w])
  PROVE  FinishCall(w) \in Call /\ CallOK(FinishCall(w))
<1>1. PICK c : c = FinishCall(w)
  OBVIOUS
<1>2. /\ run[w].room \in Rooms /\ run[w].outcome \in Recorded
      /\ run[w].env \in MaybeEnvelope
  BY RunShape DEF RunOK, RunRecord, Recorded
<1>3. /\ c \in Call /\ c.op = "finish"
      /\ c.env = run[w].env /\ c.outcome = run[w].outcome
  BY <1>1, <1>2 DEF FinishCall, Call, Outcomes, Recorded
<1>4. c.outcome \in Final => c.env \in Envelopes /\ True(c.env, c.outcome)
  BY <1>3, RunShape DEF RunOK, Final
<1>5. CallOK(c)
  BY <1>2, <1>3, <1>4 DEF CallOK
<1> QED BY <1>1, <1>3, <1>5

LEMMA FinishKeeps ==
  ASSUME KeepaliveInv, NEW w \in Runs, Finish(w)
  PROVE  KeepaliveInv'
<1>1. PICK c : c = FinishCall(w)
  OBVIOUS
<1>2. run[w].pc = "finish" /\ UNCHANGED <<now, chainVars, roomVars>>
  BY DEF Finish, At
<1>3. run[w].room \in Rooms
  BY <1>2, RunShape DEF RunOK
<1>4. c \in Call /\ CallOK(c)
  BY <1>1, <1>2, RunShape, FinishCallOK
<1>5. CASE Apply(c) /\ Done(w) /\ UNCHANGED late
  BY <1>2, <1>4, <1>5, DoneHow, CallStep
<1>6. CASE Failing(w) /\ UNCHANGED dbVars /\ late' \subseteq late \cup {c}
  BY <1>2, <1>3, <1>4, <1>6, FailingHow, CallStep
<1> QED BY <1>1, <1>5, <1>6 DEF Finish, GiveUp

LEMMA CatchKeeps ==
  ASSUME KeepaliveInv, NEW w \in Runs, Catch(w)
  PROVE  KeepaliveInv'
<1>1. PICK c : c = FinishCall(w)
  OBVIOUS
<1>2. run[w].pc = "catch" /\ UNCHANGED <<now, chainVars, roomVars>> /\ Done(w)
  BY DEF Catch, At
<1>3. c \in Call /\ CallOK(c)
  BY <1>1, <1>2, RunShape, FinishCallOK
<1>4. (Apply(c) \/ UNCHANGED dbVars) /\ late' \subseteq late \cup {c}
  BY <1>1 DEF Catch, GiveUp
<1> QED BY <1>2, <1>3, <1>4, DoneHow, CallStep

LEMMA ApplyLateKeeps ==
  ASSUME KeepaliveInv, ApplyLate
  PROVE  KeepaliveInv'
<1>1. PICK c \in late : /\ late' = late \ {c}
                        /\ Apply(c) \/ (~Accepted(c) /\ UNCHANGED dbVars)
  BY DEF ApplyLate
<1>2. UNCHANGED <<now, chainVars, roomVars, run>>
  BY DEF ApplyLate
<1>3. c \in Call /\ CallOK(c)
  BY DEF KeepaliveInv, TypeOK
<1>4. /\ ClaimsStand /\ NothingLost /\ LandedOnce' /\ DatabaseTyped'
      /\ VerdictsHold' /\ NothingForgotten'
  BY <1>1, <1>2, <1>3, DatabaseMoves
<1>5. run' \in [Runs -> RunRecord] /\ (\A v \in Runs : RunOK(run[v]))'
  BY <1>2, <1>4, RunsStay
<1>6. late' \subseteq Call /\ (\A d \in late : CallOK(d))'
  BY <1>1, <1>3, <1>4, LateStays
<1>7. UNCHANGED <<ledger, sequence, sent, landed>> /\ sent' \subseteq Envelopes
  BY <1>2 DEF chainVars, KeepaliveInv, TypeOK
<1> QED BY <1>2, <1>4, <1>5, <1>6, <1>7, Conclude

-----------------------------------------------------------------------------
(* Theorems.                                                               *)

LEMMA KeepaliveInit == Init => KeepaliveInv
<1> SUFFICES ASSUME Init PROVE KeepaliveInv
  OBVIOUS
<1>1. /\ now = 0 /\ ledger = 0 /\ sequence = 0 /\ sent = {} /\ landed = {}
      /\ live = Rooms /\ watched = Rooms /\ late = {} /\ verdict = {}
  BY DEF Init
<1>2. now \in Time /\ ledger \in 0..now /\ Never \in Int
  BY <1>1, KeepaliveAssumption DEF Time
<1>3. NoRow \in Row /\ NoRow.pending = None /\ NoRow.token = None /\ NoRow.until = Never
  BY <1>2 DEF NoRow, Row, MaybeEnvelope
<1>4. /\ row \in [Rooms -> Row] /\ \A r \in Rooms : row[r] = NoRow
  BY <1>3 DEF Init
<1>5. signer \in [token : Runs \cup {None}, until : Int]
  BY <1>2 DEF Init
<1>6. NoRun \in RunRecord /\ NoRun.pc = "new"
  BY DEF NoRun, RunRecord, MaybeRoom, MaybeEnvelope, Outcomes
<1>7. run \in [Runs -> RunRecord] /\ \A w \in Runs : run[w].pc = "new"
  BY <1>6 DEF Init
<1>8. TypeOK
  BY <1>1, <1>2, <1>3, <1>4, <1>5, <1>7 DEF TypeOK
<1>9. \A w \in Runs : RunOK(run[w])
  BY <1>7 DEF RunOK
<1>10. LandedOnce /\ VerdictsHold /\ NothingForgotten
  BY <1>1 DEF LandedOnce, VerdictsHold, NothingForgotten
<1> QED BY <1>1, <1>8, <1>9, <1>10 DEF KeepaliveInv

LEMMA KeepaliveStep == KeepaliveInv /\ [Next]_vars => KeepaliveInv'
<1> SUFFICES ASSUME KeepaliveInv, [Next]_vars PROVE KeepaliveInv'
  OBVIOUS
<1>1. CASE UNCHANGED vars
  <2>1. UNCHANGED <<now, ledger, sequence, sent, landed, live, watched, dbVars, run, late>>
    BY <1>1 DEF vars, chainVars, roomVars
  <2>2. ClaimsStand /\ LandedOnce'
    BY <2>1, DatabaseStill
  <2> QED BY <2>1, <2>2, WorldStep DEF KeepaliveInv, TypeOK
<1>2. CASE Tick \/ CloseLedger \/ SignedElsewhere \/ ApplyLate
  BY <1>2, TickKeeps, CloseLedgerKeeps, SignedElsewhereKeeps, ApplyLateKeeps
<1>3. ASSUME NEW e \in sent, NEW ok \in BOOLEAN, Include(e, ok) PROVE KeepaliveInv'
  BY <1>3, IncludeKeeps
<1>4. ASSUME NEW r \in Rooms, RoomEnds(r) \/ WatchSync(r) PROVE KeepaliveInv'
  BY <1>4, RoomsKeep
<1>5. ASSUME NEW w \in Runs,
             \/ Start(w) \/ Build(w) \/ Prepare(w) \/ Recover(w)
             \/ Send(w) \/ Poll(w) \/ Finish(w) \/ Catch(w)
      PROVE  KeepaliveInv'
  BY <1>5, StartKeeps, BuildKeeps, PrepareKeeps, RecoverKeeps,
     SendKeeps, PollKeeps, FinishKeeps, CatchKeeps
<1> QED BY <1>1, <1>2, <1>3, <1>4, <1>5 DEF Next

LEMMA KeepaliveInvHolds == Spec => []KeepaliveInv
<1> QED BY KeepaliveInit, KeepaliveStep, PTL DEF Spec

\* The tables, the runs and the recorded outcomes keep their shape.
THEOREM KeepaliveTyped == Spec => []TypeOK
<1>1. KeepaliveInv => TypeOK
  BY DEF KeepaliveInv
<1> QED BY <1>1, KeepaliveInvHolds, PTL

\* No submission is forgotten: what the network was given is settled or still
\* pending in its room's row, whichever runs died or calls came late.
THEOREM NeverForgotten == Spec => []NothingForgotten
<1>1. KeepaliveInv => NothingForgotten
  BY DEF KeepaliveInv
<1> QED BY <1>1, KeepaliveInvHolds, PTL

\* A recorded outcome is what the chain did, and an expired envelope is never
\* included later (reconciliation by ledger time).
THEOREM VerdictsStand == Spec => []VerdictsTrue
<1>1. KeepaliveInv => VerdictsTrue
  <2> SUFFICES ASSUME KeepaliveInv, NEW v \in verdict
               PROVE  LET ls == {l \in landed : l.env = v.env} IN
                      CASE v.outcome = "confirmed" -> \E l \in ls : l.ok
                        [] v.outcome = "failed" -> ls # {} /\ \A l \in ls : ~l.ok
                        [] v.outcome = "expired" -> ls = {}
    BY DEF VerdictsTrue
  <2>1. True(v.env, v.outcome) /\ v.outcome \in Final
    BY DEF KeepaliveInv, VerdictsHold, TypeOK
  <2> QED BY <2>1 DEF True, Final
<1> QED BY <1>1, KeepaliveInvHolds, PTL

\* What is settled can no longer be included.
LEMMA SettledSpent ==
  ASSUME KeepaliveInv, NEW e \in Envelopes, Verdicts(e) # {}
  PROVE  ~Includable(e)
<1>1. PICK v \in verdict : v.env = e
  BY DEF Verdicts
<1>2. True(e, v.outcome) /\ v.outcome \in Final
  BY <1>1 DEF KeepaliveInv, VerdictsHold, TypeOK
<1>3. e.seq \in Nat /\ e.max \in Int /\ sequence \in Nat /\ ledger \in Nat
  BY ClockFacts, KeepaliveAssumption DEF Envelopes
<1>4. CASE v.outcome = "expired"
  <2>1. ledger > e.max
    BY <1>2, <1>4 DEF True
  <2> QED BY <1>3, <2>1 DEF Includable
<1>5. CASE v.outcome \in {"confirmed", "failed"}
  <2>1. PICK l \in landed : l.env = e
    BY <1>2, <1>5 DEF True
  <2>2. e.seq <= sequence
    BY <2>1 DEF KeepaliveInv, LandedOnce
  <2> QED BY <1>3, <2>2 DEF Includable
<1> QED BY <1>2, <1>4, <1>5 DEF Final

\* At most one envelope of a room can still be included: the one its row
\* holds ("Never replace one while its acceptance is unknown").
THEOREM OneAtATime == Spec => []OneOutstanding
<1>1. KeepaliveInv => OneOutstanding
  <2> SUFFICES ASSUME KeepaliveInv, NEW r \in Rooms
               PROVE  Cardinality({e \in sent : e.room = r /\ Includable(e)}) <= 1
    BY DEF OneOutstanding
  <2>1. PICK S : S = {e \in sent : e.room = r /\ Includable(e)}
    OBVIOUS
  <2>2. ASSUME NEW e \in S PROVE e = row[r].pending
    <3>1. e \in sent /\ e \in Envelopes /\ e.room = r /\ Includable(e)
      BY <2>1 DEF KeepaliveInv, TypeOK
    <3>2. Verdicts(e) = {}
      BY <3>1, SettledSpent
    <3> QED BY <3>1, <3>2 DEF KeepaliveInv, NothingForgotten
  <2>3. S \subseteq {row[r].pending}
    BY <2>2
  <2>4. /\ IsFiniteSet({row[r].pending}) /\ Cardinality({row[r].pending}) = 1
    BY FS_Singleton
  <2>5. Cardinality(S) <= 1
    BY <2>3, <2>4, FS_Subset
  <2> QED BY <2>1, <2>5
<1> QED BY <1>1, KeepaliveInvHolds, PTL
=============================================================================
