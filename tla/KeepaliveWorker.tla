--------------------------- MODULE KeepaliveWorker ---------------------------
(***************************************************************************)
(* The rent keepalive of scheduled rooms                                   *)
(* (web/lib/server/arisanScheduledKeepalive.ts and its three SQL           *)
(* functions): each cron run leases one room, reconciles the envelope an   *)
(* earlier run left pending or signs and stores a new one, sends only what *)
(* is stored, and records what became of it.                               *)
(*                                                                         *)
(* A run is a process; its number is its lease token.  Every call it makes *)
(* is bounded by a timeout, so any call may be lost, or be carried out     *)
(* after the run has given it up.  A run that takes no further step died   *)
(* there: no action waits for it.                                          *)
(* The database and the server share the clock now; ledgers close behind   *)
(* it, and the RPC node forgets transactions older than RETENTION.  Fees,  *)
(* signatures and the shape of the envelope are left out.                  *)
(***************************************************************************)
EXTENDS Integers, FiniteSets

CONSTANTS
  Rooms,     \* rooms of the scheduled deployment
  MaxRuns,   \* bound: cron runs
  MaxTime,   \* bound: last instant
  MaxLate,   \* bound: database calls given up and still on their way
  MaxElsewhere, \* bound: sequence number up to which others use the signer
  None,      \* no lease, no pending envelope
  Never,     \* an absent timestamp, earlier than every other by DAY
  BEFORE,    \* validity of an envelope before the clock it was built at (5 s)
  VALID,     \* and after it (60 s)
  MARGIN,    \* ledger time past the validity before giving up (30 s)
  LEASE,     \* length of both leases (5 minutes)
  RETRY,     \* pause before a pending envelope is looked at again (10 minutes)
  ATTEMPT,   \* pause between attempts (6 hours)
  DAY,       \* cadence of confirmed keepalives (1 day)
  RETENTION  \* ledger time the RPC node looks back

Runs == 1..MaxRuns
Time == 0..MaxTime

\* A signed envelope: equal fields are the same transaction hash.
Envelopes ==
  [room : Rooms, seq : Nat \ {0},
   min : (0 - BEFORE)..MaxTime, max : 0..(MaxTime + VALID)]

ASSUME KeepaliveAssumption ==
  /\ MaxRuns \in Nat /\ MaxTime \in Nat
  /\ MaxLate \in Nat /\ MaxElsewhere \in Nat
  /\ BEFORE \in Nat /\ VALID \in Nat \ {0} /\ MARGIN \in Nat
  /\ LEASE \in Nat \ {0} /\ RETRY \in Nat /\ ATTEMPT \in Nat /\ DAY \in Nat
  /\ RETENTION \in Nat /\ Never \in Int
  /\ None \notin Nat /\ None \notin Envelopes
  /\ Never + DAY <= 0 /\ Never + ATTEMPT <= 0 /\ Never + RETRY <= 0

VARIABLES
  now,      \* clock of the database and of the server
  ledger,   \* close time of the latest ledger
  sequence, \* sequence number of the operational signer's account
  sent,     \* envelopes the network was given
  landed,   \* [env, ok, at] of included envelopes
  live,     \* rooms whose status on chain is Open or Active
  watched,  \* rooms whose saved snapshot says Open or Active
  row,      \* arisan_scheduled_keepalive
  signer,   \* arisan_operational_signer_leases: lease of the one signer
  run,      \* each run: pc, room, envelope in hand, outcome to record
  late,     \* database calls given up by their run but not yet carried out
  verdict   \* history: [env, outcome] that finish has settled

chainVars == <<ledger, sequence, sent, landed>>
roomVars == <<live, watched>>
dbVars == <<row, signer, verdict>>
vars == <<now, chainVars, roomVars, dbVars, run, late>>

NoRow == [lastConfirmed |-> Never, lastAttempt |-> Never,
          token |-> None, until |-> Never, pending |-> None]
NoRun == [pc |-> "new", room |-> None, env |-> None, outcome |-> None]

Init ==
  /\ now = 0 /\ ledger = 0 /\ sequence = 0 /\ sent = {} /\ landed = {}
  /\ live = Rooms /\ watched = Rooms
  /\ row = [r \in Rooms |-> NoRow]
  /\ signer = [token |-> None, until |-> Never]
  /\ run = [w \in Runs |-> NoRun]
  /\ late = {} /\ verdict = {}

-----------------------------------------------------------------------------
\* The world around the worker.

Tick ==
  /\ now < MaxTime
  /\ now' = now + 1
  /\ UNCHANGED <<chainVars, roomVars, dbVars, run, late>>

\* An envelope can only be in a ledger that closes within its time bounds and
\* while it carries the account's next sequence number.
Includable(e) == e.seq = sequence + 1 /\ e.max >= ledger

CloseLedger ==
  /\ ledger < now
  /\ ledger' = ledger + 1
  /\ UNCHANGED <<now, sequence, sent, landed, roomVars, dbVars, run, late>>

Include(e, ok) ==
  /\ Includable(e) /\ e.min <= ledger
  /\ landed' = landed \cup {[env |-> e, ok |-> ok, at |-> ledger]}
  /\ sequence' = e.seq
  /\ UNCHANGED <<now, ledger, sent, roomVars, dbVars, run, late>>

\* The demo account that signs keepalives signs other transactions too, so an
\* envelope can lose its sequence number.
SignedElsewhere ==
  /\ sequence < MaxElsewhere
  /\ sequence' = sequence + 1
  /\ UNCHANGED <<now, ledger, sent, landed, roomVars, dbVars, run, late>>

RoomEnds(r) ==
  /\ r \in live
  /\ live' = live \ {r}
  /\ UNCHANGED <<now, chainVars, watched, dbVars, run, late>>

\* A watcher saves a snapshot, perhaps of a room that has ended since.
WatchSync(r) ==
  /\ \/ watched' = watched \cup {r}
     \/ r \notin live /\ watched' = watched \ {r}
  /\ watched' # watched
  /\ UNCHANGED <<now, chainVars, live, dbVars, run, late>>

-----------------------------------------------------------------------------
\* The SQL functions.

Due(r) ==
  LET k == row[r] IN
  /\ k.until <= now
  /\ \/ k.pending # None /\ k.lastAttempt + RETRY <= now
     \/ /\ k.pending = None
        /\ k.lastConfirmed + DAY <= now /\ k.lastAttempt + ATTEMPT <= now
        /\ r \in watched

Claimable == IF signer.until > now THEN {} ELSE {r \in Rooms : Due(r)}

NextDue(r) ==
  r \in Claimable /\ \A q \in Claimable : row[r].lastAttempt <= row[q].lastAttempt

Claim(w, r) ==
  /\ row' = [row EXCEPT ![r].token = w, ![r].until = now + LEASE,
                        ![r].lastAttempt = now]
  /\ signer' = [token |-> w, until |-> now + LEASE]

LeaseHeld(w, r) ==
  /\ signer.token = w /\ signer.until > now
  /\ row[r].token = w /\ row[r].until > now

Prepared(w, e) ==
  /\ e.min >= now - VALID /\ e.max > now
  /\ LeaseHeld(w, e.room) /\ row[e.room].pending = None

Finishes(w, r, e, outcome) ==
  /\ signer.token = w /\ row[r].token = w
  /\ IF outcome = "deferred" THEN row[r].pending = None
                             ELSE row[r].pending # None /\ row[r].pending = e

\* Faulty variant: the lease keeps its token.
Released_Until(k) == [k EXCEPT !.until = Never]
Released(k) == [k EXCEPT !.token = None, !.until = Never]

Finished(k, outcome) ==
  Released([k EXCEPT !.lastConfirmed = IF outcome = "confirmed" THEN now ELSE @,
                     !.pending = IF outcome = "pending" THEN @ ELSE None])

Settled(outcome) == outcome \in {"confirmed", "failed", "expired"}

\* The effect of one call on the database; a call that fails its checks has
\* none and answers false.
Apply(call) ==
  \/ /\ call.op = "prepare" /\ Prepared(call.w, call.env)
     /\ row' = [row EXCEPT ![call.env.room].pending = call.env]
     /\ UNCHANGED <<signer, verdict>>
  \/ /\ call.op = "finish" /\ Finishes(call.w, call.room, call.env, call.outcome)
     /\ row' = [row EXCEPT ![call.room] = Finished(@, call.outcome)]
     /\ signer' = [token |-> None, until |-> Never]
     /\ verdict' = IF Settled(call.outcome)
                   THEN verdict \cup {[env |-> call.env, outcome |-> call.outcome]}
                   ELSE verdict

Accepted(call) ==
  IF call.op = "prepare" THEN Prepared(call.w, call.env)
                         ELSE Finishes(call.w, call.room, call.env, call.outcome)

\* The run goes on without an answer; the call may still be carried out.
GiveUp(call) == Cardinality(late) < MaxLate /\ late' = late \cup {call}

PrepareCall(w) == [op |-> "prepare", w |-> w, room |-> run[w].room,
                   env |-> run[w].env, outcome |-> None]
FinishCall(w) == [op |-> "finish", w |-> w, room |-> run[w].room,
                  env |-> run[w].env, outcome |-> run[w].outcome]

ApplyLate ==
  /\ \E call \in late :
       /\ late' = late \ {call}
       /\ Apply(call) \/ (~Accepted(call) /\ UNCHANGED dbVars)
  /\ UNCHANGED <<now, chainVars, roomVars, run>>

-----------------------------------------------------------------------------
\* One cron run: dispatchArisanScheduledKeepalive.

At(w, pc) == run[w].pc = pc
Goto(w, pc) == run' = [run EXCEPT ![w].pc = pc]
Done(w) == run' = [run EXCEPT ![w] = [NoRun EXCEPT !.pc = "done"]]
Ending(w, outcome) == run' = [run EXCEPT ![w].pc = "finish", ![w].outcome = outcome]

\* The catch block: whatever has a hash stays pending.
Failing(w) ==
  run' = [run EXCEPT ![w].pc = "catch",
                     ![w].outcome = IF run[w].env = None THEN "deferred" ELSE "pending"]

Start(w) ==
  /\ At(w, "new") /\ \A v \in Runs : v < w => ~At(v, "new")
  /\ \/ /\ Claimable = {}
        /\ Done(w) /\ UNCHANGED <<row, signer>>
     \/ \E r \in Rooms :
          /\ NextDue(r) /\ Claim(w, r)
          /\ \/ run' = [run EXCEPT ![w].room = r, ![w].env = row[r].pending,
                                   ![w].pc = IF row[r].pending = None THEN "fresh" ELSE "recover"]
             \/ Done(w) \* the answer to the claim is lost
  /\ UNCHANGED <<now, chainVars, roomVars, verdict, late>>

\* readArisanNotificationRoom, getAccount and the simulation: any may fail.
Build(w) ==
  /\ At(w, "fresh")
  /\ \/ (run[w].room \notin live /\ Ending(w, "deferred"))
     \/ Failing(w)
     \/ /\ run[w].room \in live
        /\ run' = [run EXCEPT ![w].pc = "prepare",
             ![w].env = [room |-> run[w].room, seq |-> sequence + 1,
                         min |-> now - BEFORE, max |-> now + VALID]]
  /\ UNCHANGED <<now, chainVars, roomVars, dbVars, late>>

\* Faulty variant: the envelope goes out whatever prepare answered.
StoredFirst_Not(ok) == TRUE
StoredFirst(ok) == ok

Prepare(w) ==
  LET call == PrepareCall(w) IN
  /\ At(w, "prepare")
  /\ \/ /\ Apply(call) /\ Goto(w, "send") /\ UNCHANGED late
     \/ /\ ~Accepted(call) /\ UNCHANGED <<dbVars, late>>
        /\ IF StoredFirst(FALSE) THEN Goto(w, "send") ELSE Failing(w)
     \/ Failing(w) /\ GiveUp(call) /\ UNCHANGED dbVars
  /\ UNCHANGED <<now, chainVars, roomVars>>

OldestLedger == ledger - RETENTION
Found(e) == {l \in landed : l.env = e /\ l.at >= OldestLedger}

\* Faulty variants: expiry read off the server's clock, or without asking
\* whether the node still remembers the whole validity window.
Expired_ServerClock(e) == now > e.max + MARGIN /\ OldestLedger <= e.min
Expired_AnyRetention(e) == ledger > e.max + MARGIN
Expired(e) ==
  /\ ledger > e.max + MARGIN
  /\ OldestLedger <= e.min

Recover(w) ==
  LET e == run[w].env IN
  /\ At(w, "recover")
  /\ \/ \E l \in Found(e) : Ending(w, IF l.ok THEN "confirmed" ELSE "failed")
     \/ /\ Found(e) = {}
        /\ IF Expired(e) THEN Ending(w, "expired")
           ELSE IF now > e.max THEN Ending(w, "pending")
           ELSE Goto(w, "send")
     \/ Failing(w)
  /\ UNCHANGED <<now, chainVars, roomVars, dbVars, late>>

\* The network may have taken an envelope whose answer never came.
Send(w) ==
  /\ At(w, "send")
  /\ sent' \in {sent, sent \cup {run[w].env}}
  /\ \/ Goto(w, "poll") \/ Failing(w)
  /\ UNCHANGED <<now, ledger, sequence, landed, roomVars, dbVars, late>>

Poll(w) ==
  LET e == run[w].env IN
  /\ At(w, "poll")
  /\ \/ \E l \in Found(e) : Ending(w, IF l.ok THEN "confirmed" ELSE "failed")
     \/ Found(e) = {} /\ Ending(w, "pending")
     \/ Failing(w)
  /\ UNCHANGED <<now, chainVars, roomVars, dbVars, late>>

\* finish throws unless the database answers true, and the catch block then
\* tries once more to keep the envelope pending.
Finish(w) ==
  LET call == FinishCall(w) IN
  /\ At(w, "finish")
  /\ \/ Apply(call) /\ Done(w) /\ UNCHANGED late
     \/ ~Accepted(call) /\ Failing(w) /\ UNCHANGED <<dbVars, late>>
     \/ Failing(w) /\ GiveUp(call) /\ UNCHANGED dbVars
  /\ UNCHANGED <<now, chainVars, roomVars>>

Catch(w) ==
  LET call == FinishCall(w) IN
  /\ At(w, "catch")
  /\ Done(w)
  /\ \/ Apply(call) /\ UNCHANGED late
     \/ ~Accepted(call) /\ UNCHANGED <<dbVars, late>>
     \/ GiveUp(call) /\ UNCHANGED dbVars
  /\ UNCHANGED <<now, chainVars, roomVars>>

Next ==
  \/ Tick \/ CloseLedger \/ SignedElsewhere \/ ApplyLate
  \/ \E e \in sent, ok \in BOOLEAN : Include(e, ok)
  \/ \E r \in Rooms : RoomEnds(r) \/ WatchSync(r)
  \/ \E w \in Runs :
       \/ Start(w) \/ Build(w) \/ Prepare(w) \/ Recover(w)
       \/ Send(w) \/ Poll(w) \/ Finish(w) \/ Catch(w)

Spec == Init /\ [][Next]_vars

-----------------------------------------------------------------------------

MaybeEnvelope == Envelopes \cup {None}
MaybeRoom == Rooms \cup {None}
Final == {"confirmed", "failed", "expired"}
Outcomes == Final \cup {"pending", "deferred", None}

Row == [lastConfirmed : Int, lastAttempt : Int, token : Runs \cup {None},
        until : Int, pending : MaybeEnvelope]
RunRecord == [pc : {"new", "fresh", "recover", "prepare", "send", "poll",
                    "finish", "catch", "done"},
              room : MaybeRoom, env : MaybeEnvelope, outcome : Outcomes]
Call == [op : {"prepare", "finish"}, w : Runs, room : Rooms,
         env : MaybeEnvelope, outcome : Outcomes]

\* The shape of the two tables, of the runs, of the calls on their way and of
\* the recorded outcomes; a lease without an owner has run out.
TypeOK ==
  /\ now \in Time /\ ledger \in 0..now /\ sequence \in Nat
  /\ sent \subseteq Envelopes
  /\ \A l \in landed : l.env \in sent /\ l.ok \in BOOLEAN /\ l.at \in Time
  /\ live \subseteq Rooms /\ watched \subseteq Rooms
  /\ row \in [Rooms -> Row]
  /\ \A r \in Rooms :
       /\ row[r].pending # None => row[r].pending.room = r
       /\ (row[r].token = None) = (row[r].until = Never)
  /\ signer \in [token : Runs \cup {None}, until : Int]
  /\ run \in [Runs -> RunRecord]
  /\ late \subseteq Call
  /\ verdict \subseteq [env : Envelopes, outcome : Final]

Verdicts(e) == {v.outcome : v \in {u \in verdict : u.env = e}}

\* Whatever the network was given is either settled or still the envelope its
\* room's row holds, through lost answers, late database calls and dead runs:
\* no submission is ever forgotten (arisanScheduledKeepalive.ts:108-114).
NothingForgotten ==
  \A e \in sent : Verdicts(e) # {} \/ row[e.room].pending = e

\* What was recorded is what the chain did, for good: confirmed was included
\* and succeeded, failed was included and failed, and expired was not included
\* and never will be (:72-83, "Ledger time, not the browser/server clock,
\* proves the entire validity window passed").
VerdictsTrue ==
  \A v \in verdict :
    LET ls == {l \in landed : l.env = v.env} IN
    CASE v.outcome = "confirmed" -> \E l \in ls : l.ok
      [] v.outcome = "failed" -> ls # {} /\ \A l \in ls : ~l.ok
      [] v.outcome = "expired" -> ls = {}

\* At any moment at most one envelope of a room can still be included: none is
\* signed beside one whose acceptance is unknown (:57-58 of the first
\* migration, "Never replace one while its acceptance is unknown").
OneOutstanding ==
  \A r \in Rooms :
    Cardinality({e \in sent : e.room = r /\ Includable(e)}) <= 1

=============================================================================
