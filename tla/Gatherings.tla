----------------------------- MODULE Gatherings -----------------------------
(***************************************************************************)
(* The meeting of one arisan room (lib/server/arisanGatherings.ts, its     *)
(* panel, and the functions of its migration): the host plans and edits    *)
(* it, members answer, every member of the room finds each edit and each   *)
(* reminder in an in-app inbox.  Requests are slow, answers get lost and   *)
(* saves are retried, several panels are open, members come and go,        *)
(* reminder runs overlap, and the clock goes on.                           *)
(*                                                                         *)
(* Abstracted: the details of a meeting are its start, which is what two   *)
(* plans differ in here; the room is its roster, the rest of it being the  *)
(* business of the room watch; the host of a room never changes; one       *)
(* mutation id always carries one body, as the panel has it.               *)
(***************************************************************************)
EXTENDS Integers, Sequences, FiniteSets

CONSTANTS Host, Others,  \* accounts that may be members of the room
          Panels,        \* open pages
          Viewer,        \* panel -> the account signed in there
          Runs,          \* reminder runs that may overlap
          None,
          Starts,        \* the starts a host chooses from, None for no date yet
          Offsets,       \* how long before the start a reminder is due
          WAIT,          \* shortest time between two revisions
          MaxTime,       \* bound: the last instant
          MaxRequests    \* bound: requests sent

ASSUME GatheringsAssumption ==
  /\ Host \notin Others /\ None \notin Nat \cup [id : Nat, rev : Nat, starts : Starts, seen : Nat]
  /\ Viewer \in [Panels -> {Host} \cup Others]
  /\ Starts \subseteq Nat \cup {None} /\ Offsets \subseteq Nat \ {0} /\ WAIT \in Nat \ {0}
  /\ MaxTime \in Nat /\ MaxRequests \in Nat

VARIABLES
  now,      \* the database's clock
  members,  \* the room's roster on chain
  plan,     \* the revisions of arisan_gatherings, the last one current:
            \*   [starts, at, id, drafted], drafted being what its author saw
  saved,    \* mutation ids with a row in arisan_gathering_saves
  jobs,     \* arisan_gathering_reminders: [rev, offset, state]
  rsvps,    \* arisan_gathering_rsvps: [who, rev, seen]
  inbox,    \* arisan_member_notifications: [who, rev, offset], 0 an edit
  panel,    \* panel -> [shown, draft, mutation, waiting]
  sent,     \* number of requests sent
  request,  \* those the server still works on
  run,      \* run -> [due, roster], or None
  \* Only the properties read what follows:
  tried,    \* panel -> the mutation ids it sent for the draft it has
  dropped,  \* mutation ids sent for drafts that were dropped on a conflict
  forgotten \* those a panel let go of although they were saved or still might be
dbVars == <<plan, saved, jobs, rsvps, inbox>>
netVars == <<sent, request>>
historyVars == <<tried, dropped, forgotten>>
vars == <<now, members, dbVars, panel, netVars, run, historyVars>>

Revision == Len(plan)
Current  == plan[Revision]
Future(starts) == starts # None /\ starts > now
Startable(starts) == starts = None \/ Future(starts)

Closed == [shown |-> None, draft |-> None, mutation |-> None, waiting |-> 0]
Init ==
  /\ now = 0 /\ members = {Host}
  /\ plan = <<>> /\ saved = {} /\ jobs = {} /\ rsvps = {} /\ inbox = {}
  /\ panel = [p \in Panels |-> Closed]
  /\ sent = 0 /\ request = {}
  /\ tried = [p \in Panels |-> {}] /\ dropped = {} /\ forgotten = {}
  /\ run = [w \in Runs |-> None]

----------------------------------------------------------------------------
(* The panel: the revision it shows, the one its draft was made from, and  *)
(* the save whose outcome it does not know.                                *)

\* The meeting is read again, as this step leaves it; a page that cannot read
\* it shows none.
Loaded(p, view) ==
  \E shown \in {Revision', None} : panel' = [panel EXCEPT ![p] = [view EXCEPT !.shown = shown]]

load(p) ==
  /\ panel[p].waiting = 0
  /\ UNCHANGED <<now, members, dbVars, netVars, run, historyVars>>
  /\ Loaded(p, panel[p])

edit(p) ==
  /\ Viewer[p] = Host /\ panel[p].shown # None /\ panel[p].draft = None /\ panel[p].waiting = 0
  /\ panel' = [panel EXCEPT ![p].draft = panel[p].shown]
  /\ UNCHANGED <<now, members, dbVars, netVars, run, historyVars>>

cancelEdit(p) ==
  /\ panel[p].draft # None /\ panel[p].mutation = None /\ panel[p].waiting = 0
  /\ panel' = [panel EXCEPT ![p].draft = None]
  /\ tried' = [tried EXCEPT ![p] = {}]
  /\ UNCHANGED <<now, members, dbVars, netVars, run, dropped, forgotten>>

Send(p, view, body) ==
  /\ sent < MaxRequests /\ panel[p].waiting = 0 /\ panel[p].shown # None
  /\ sent' = sent + 1
  /\ request' = request \cup {[n |-> sent', who |-> Viewer[p], body |-> body, roster |-> {}]}
  /\ panel' = [panel EXCEPT ![p] = [view EXCEPT !.waiting = sent']]
  /\ UNCHANGED <<now, members, dbVars, run, dropped, forgotten>>

\* The revision a new save expects.
\* Faulty variant: the one the page shows by now.
draftRevision_Shown(p) == panel[p].shown
draftRevision(p) == panel[p].draft

\* A new body, or the one whose outcome is unknown, unchanged.
save(p, starts) ==
  LET body == [id |-> sent + 1, rev |-> draftRevision(p), starts |-> starts, seen |-> panel[p].draft] IN
  /\ panel[p].draft # None /\ panel[p].mutation = None /\ Startable(starts)
  /\ Send(p, [panel[p] EXCEPT !.mutation = body], body)
  /\ tried' = [tried EXCEPT ![p] = @ \cup {body.id}]
retry(p) ==
  /\ panel[p].mutation # None
  /\ Send(p, panel[p], panel[p].mutation)
  /\ UNCHANGED tried
rsvp(p) ==
  /\ panel[p].shown \notin {None, 0} /\ panel[p].mutation = None
  /\ plan[panel[p].shown].starts # None
  /\ Send(p, panel[p], [id |-> 0, rev |-> panel[p].shown, starts |-> None, seen |-> panel[p].shown])
  /\ UNCHANGED tried

\* Other attempts than r may have saved the same body, or may yet.
InDoubt(r) == r.body.id \in saved \/ \E q \in request \ {r} : q.body.id = r.body.id

\* What becomes of the attempts for a draft when an answer to one of them comes.
Told(p, r, answer) ==
  /\ tried' = IF answer \in {"ok", "conflict"} THEN [tried EXCEPT ![p] = {}] ELSE tried
  /\ dropped' = IF answer = "conflict" THEN dropped \cup tried[p] ELSE dropped
  /\ forgotten' = IF answer = "invalid" /\ InDoubt(r) THEN forgotten \cup {r.body.id} ELSE forgotten

\* An answer to the panel that waits for it.  5xx, or none that can be read,
\* leaves the outcome of a save unknown; any other refusal settles it.
Receive(r, answer) ==
  \E p \in Panels :
    LET view == [panel[p] EXCEPT !.waiting = 0]
        settled == [view EXCEPT !.mutation = None]
    IN
    /\ panel[p].waiting = r.n
    /\ IF r.body.id = 0
       THEN Loaded(p, view) /\ UNCHANGED historyVars
       ELSE /\ Told(p, r, answer)
            /\ CASE answer = "unavailable" -> panel' = [panel EXCEPT ![p] = view]
                 [] answer = "invalid"     -> Loaded(p, settled)
                 [] OTHER                  -> Loaded(p, [settled EXCEPT !.draft = None])

\* No answer within 15 s; the server goes on.
giveUp(p) ==
  /\ panel[p].waiting # 0
  /\ panel' = [panel EXCEPT ![p].waiting = 0]
  /\ UNCHANGED <<now, members, dbVars, netVars, run, historyVars>>

unmount(p) ==
  /\ panel' = [panel EXCEPT ![p] = Closed]
  /\ tried' = [tried EXCEPT ![p] = {}]
  /\ UNCHANGED <<now, members, dbVars, netVars, run, dropped, forgotten>>

----------------------------------------------------------------------------
(* The server, one request at a time: verify the session and the roster,   *)
(* then one transaction in the database.                                   *)

\* The answer reaches the panel if it still waits and nothing fails on the
\* way back; an answer that comes later is the same as a later read.
Answer(r, answer) ==
  /\ request' = request \ {r}
  /\ IF \E p \in Panels : panel[p].waiting = r.n
     THEN \E a \in {answer, "unavailable"} : Receive(r, a)
     ELSE UNCHANGED <<panel, historyVars>>
  /\ UNCHANGED <<now, members, sent, run>>

readRoom(r) ==
  /\ r.roster = {} /\ r.who \in members
  /\ r.body.id # 0 => r.who = Host /\ Startable(r.body.starts)
  /\ request' = (request \ {r}) \cup {[r EXCEPT !.roster = members]}
  /\ UNCHANGED <<now, members, dbVars, panel, sent, run, historyVars>>

\* Signed out, not a member, or the start is past by now; or a read fails, and
\* the answer is unavailable.
refuse(r) ==
  /\ r.roster = {}
  /\ UNCHANGED dbVars
  /\ Answer(r, "invalid")

\* Faulty variant: the receipt of an earlier attempt is not looked at.
Replayed_Never(body) == FALSE
Replayed(body) == body.id \in saved
Expected(body) == body.rev = Revision
Same(body) == Revision > 0 /\ Current.starts = body.starts
TooSoon == Revision > 0 /\ Current.at > now - WAIT

replaySave(r) ==
  /\ Replayed(r.body)
  /\ UNCHANGED dbVars /\ Answer(r, "ok")
conflictSave(r) ==
  /\ ~Replayed(r.body) /\ ~Expected(r.body)
  /\ UNCHANGED dbVars /\ Answer(r, "conflict")
sameSave(r) ==
  /\ ~Replayed(r.body) /\ Expected(r.body) /\ Same(r.body)
  /\ saved' = saved \cup {r.body.id}
  /\ UNCHANGED <<plan, jobs, rsvps, inbox>> /\ Answer(r, "ok")
Revises(body) == ~Replayed(body) /\ Expected(body) /\ ~Same(body)
tooSoonSave(r) ==
  /\ Revises(r.body) /\ TooSoon
  /\ UNCHANGED dbVars /\ Answer(r, "invalid")
pastSave(r) ==
  /\ Revises(r.body) /\ ~TooSoon /\ ~Startable(r.body.starts)
  /\ UNCHANGED dbVars /\ Answer(r, "unavailable")

\* Faulty variant: the reminders of the last revision stay.
Cancelled_None(js) == js
Cancelled(js) == {IF j.state = "open" THEN [j EXCEPT !.state = "cancelled"] ELSE j : j \in js}
Scheduled(rev, starts) ==
  {[rev |-> rev, offset |-> o, state |-> "open"] :
     o \in {o \in Offsets : starts # None /\ starts - o > now}}
reviseSave(r) ==
  LET rev == Revision + 1 IN
  /\ Revises(r.body) /\ ~TooSoon /\ Startable(r.body.starts)
  /\ plan' = Append(plan, [starts |-> r.body.starts, at |-> now, id |-> r.body.id, drafted |-> r.body.seen])
  /\ jobs' = Cancelled(jobs) \cup Scheduled(rev, r.body.starts)
  /\ inbox' = inbox \cup {[who |-> m, rev |-> rev, offset |-> 0] : m \in r.roster}
  /\ saved' = saved \cup {r.body.id}
  /\ UNCHANGED rsvps /\ Answer(r, "ok")

arisan_gathering_save(r) ==
  /\ r.roster # {} /\ r.body.id # 0
  /\ \/ replaySave(r) \/ conflictSave(r) \/ sameSave(r)
     \/ tooSoonSave(r) \/ pastSave(r) \/ reviseSave(r)

\* rsvpArisanGathering compares the revision once before; it only grows.
arisan_gathering_rsvp(r) ==
  /\ r.roster # {} /\ r.body.id = 0
  /\ UNCHANGED <<plan, saved, jobs, inbox>>
  /\ IF r.body.rev = Revision /\ Future(Current.starts)
     THEN /\ rsvps' = rsvps \cup {[who |-> r.who, rev |-> Revision, seen |-> r.body.seen]}
          /\ Answer(r, "ok")
     ELSE UNCHANGED rsvps /\ Answer(r, "conflict")

----------------------------------------------------------------------------
(* A reminder run: list due jobs, read the room once, enqueue each.        *)

Due(j) == j.state = "open" /\ j.rev = Revision /\ Future(Current.starts) /\ Current.starts - j.offset <= now

\* The list is limited, and other meetings have their jobs on it.
arisan_gathering_due_reminders(w) ==
  /\ run[w] = None
  /\ \E listed \in SUBSET {j \in jobs : Due(j)} :
       /\ listed # {}
       /\ run' = [run EXCEPT ![w] = [due |-> {[rev |-> j.rev, offset |-> j.offset] : j \in listed}, roster |-> {}]]
  /\ UNCHANGED <<now, members, dbVars, panel, netVars, historyVars>>

runRoom(w) ==
  /\ run[w] # None /\ run[w].roster = {}
  /\ run' = [run EXCEPT ![w].roster = members]
  /\ UNCHANGED <<now, members, dbVars, panel, netVars, historyVars>>

\* The conditions under the meeting's lock.
\* Faulty variant: the run's own list is believed.
StillDue_Listed(j) == j \in jobs
StillDue(j) == Due(j)
arisan_gathering_reminder_enqueue(w, k) ==
  /\ run[w] # None /\ run[w].roster # {} /\ k \in run[w].due
  /\ LET j == CHOOSE j \in jobs : j.rev = k.rev /\ j.offset = k.offset IN
     IF StillDue(j)
     THEN /\ inbox' = inbox \cup {[who |-> m, rev |-> j.rev, offset |-> j.offset] : m \in run[w].roster}
          /\ jobs' = (jobs \ {j}) \cup {[j EXCEPT !.state = "processed"]}
     ELSE UNCHANGED <<inbox, jobs>>
  /\ run' = [run EXCEPT ![w].due = @ \ {k}]
  /\ UNCHANGED <<now, members, plan, saved, rsvps, panel, netVars, historyVars>>

\* All done, out of time, a read failed, or the run died.
runEnds(w) ==
  /\ run[w] # None
  /\ run' = [run EXCEPT ![w] = None]
  /\ UNCHANGED <<now, members, dbVars, panel, netVars, historyVars>>

----------------------------------------------------------------------------
Tick ==
  /\ now < MaxTime /\ now' = now + 1
  /\ UNCHANGED <<members, dbVars, panel, netVars, run, historyVars>>
ChangeRoster ==
  /\ \E m \in Others : members' = (members \ {m}) \cup ({m} \ members)
  /\ UNCHANGED <<now, dbVars, panel, netVars, run, historyVars>>

Next ==
  \/ Tick \/ ChangeRoster
  \/ \E p \in Panels :
       \/ load(p) \/ edit(p) \/ cancelEdit(p) \/ retry(p) \/ rsvp(p)
       \/ \E starts \in Starts : save(p, starts)
       \/ giveUp(p) \/ unmount(p)
  \/ \E r \in request :
       readRoom(r) \/ refuse(r) \/ arisan_gathering_save(r) \/ arisan_gathering_rsvp(r)
  \/ \E w \in Runs :
       \/ arisan_gathering_due_reminders(w) \/ runRoom(w) \/ runEnds(w)
       \/ run[w] # None /\ \E k \in run[w].due : arisan_gathering_reminder_enqueue(w, k)
Spec == Init /\ [][Next]_vars

----------------------------------------------------------------------------
(* Properties. *)

Ids == 1 .. MaxRequests
Revisions == 1 .. Revision
Bodies == [id : {0} \cup Ids, rev : 0 .. Revision, starts : Starts \cup {None}, seen : 0 .. Revision]

\* Also: only the current revision has open reminders, nothing in an inbox is
\* of a revision that does not exist, and a panel waits for at most one of
\* the requests that are under way.
TypeOK ==
  /\ now \in 0 .. MaxTime /\ Host \in members /\ members \subseteq {Host} \cup Others
  /\ \A v \in Revisions : plan[v] \in [starts : Starts, at : 0 .. now, id : Ids, drafted : 0 .. Revision]
  /\ saved \subseteq Ids /\ sent \in 0 .. MaxRequests
  /\ tried \in [Panels -> SUBSET Ids] /\ dropped \subseteq Ids /\ forgotten \subseteq Ids
  /\ jobs \subseteq [rev : Revisions, offset : Offsets, state : {"open", "processed", "cancelled"}]
  /\ \A j \in jobs : j.state = "open" => j.rev = Revision
  /\ rsvps \subseteq [who : {Host} \cup Others, rev : Revisions, seen : Revisions]
  /\ inbox \subseteq [who : {Host} \cup Others, rev : Revisions, offset : {0} \cup Offsets]
  /\ \A r \in request : r.n \in 1 .. sent /\ r.body \in Bodies /\ r.roster \subseteq {Host} \cup Others
  /\ \A p \in Panels :
       /\ panel[p].shown \in 0 .. Revision \cup {None} /\ panel[p].draft \in 0 .. Revision \cup {None}
       /\ panel[p].mutation \in Bodies \cup {None}
       /\ panel[p].waiting # 0 => \E r \in request : r.n = panel[p].waiting /\ r.who = Viewer[p]
  /\ \A w \in Runs : run[w] # None => run[w].due \subseteq [rev : Revisions, offset : Offsets]

\* No edit is lost and none is made twice: the author of a revision had the
\* one before it in view when drafting, however late or often the save
\* arrived, and an answer counts for the meeting its member saw
\* (expectedRevision, draftRevision, mutationId).
EditsAsReviewed ==
  /\ \A v \in Revisions : plan[v].drafted = v - 1
  /\ \A v, u \in Revisions : plan[v].id = plan[u].id => u = v
  /\ \A a \in rsvps : a.rev = a.seen

\* A host who is told that the meeting changed meanwhile, and loses the draft,
\* did not save it by any attempt for that draft, whether its answer was lost
\* or it still arrives (arisan_gathering_saves).  There is one exception: a
\* body whose retry is refused with a 4xx, while an attempt before it was saved
\* or is still under way; the panel forgets its mutation id, keeps the draft
\* and sends it under a new id (ArisanGatheringPanel.tsx:109).
ConflictMeansUnsaved == dropped \cap saved \subseteq forgotten

\* A reminder that enters an inbox is of the meeting as it then stands, due,
\* and before it starts, whatever a run listed earlier ("Concurrent workers
\* cannot send an old revision after an edit commits").
RemindersCurrent ==
  [][\A n \in inbox' \ inbox : n.offset # 0 =>
       /\ n.rev = Revision /\ Future(Current.starts)
       /\ Current.starts - n.offset <= now]_vars
=============================================================================
