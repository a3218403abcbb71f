-------------------------- MODULE Gatherings_proofs --------------------------
(***************************************************************************)
(* Proofs about Gatherings, for any accounts, pages and reminder runs, any *)
(* starts and reminder offsets, and any order of requests, answers, edits  *)
(* and runs.                                                               *)
(***************************************************************************)
EXTENDS Gatherings, TLAPS

-----------------------------------------------------------------------------
(* The inductive invariant: what the tables hold, and what requests and    *)
(* panels may still ask of them.                                           *)

Accounts == {Host} \cup Others
Plan  == [starts : Starts, at : Nat, id : Ids, drafted : Nat]
Job   == [rev : Revisions, offset : Offsets, state : {"open", "processed", "cancelled"}]
Shown == 0 .. Revision \cup {None}

\* The revisions up to the current one; a save that made one has its receipt.
\* A run's list is of jobs that are there, in whatever state by now.
TablesInv ==
  /\ now \in 0 .. MaxTime /\ Host \in members /\ members \subseteq Accounts
  /\ plan \in Seq(Plan) /\ \A v \in Revisions : plan[v].at <= now
  /\ saved \subseteq Ids /\ \A v \in Revisions : plan[v].id \in saved
  /\ jobs \subseteq Job /\ \A j \in jobs : j.state = "open" => j.rev = Revision
  /\ rsvps \subseteq [who : Accounts, rev : Revisions, seen : Revisions]
  /\ inbox \subseteq [who : Accounts, rev : Revisions, offset : {0} \cup Offsets]
  /\ \A w \in Runs : run[w] # None =>
       /\ run[w].due \subseteq {[rev |-> j.rev, offset |-> j.offset] : j \in jobs}
       /\ run[w].roster \subseteq Accounts
  /\ run \in [Runs -> {None} \cup [due : SUBSET [rev : Nat, offset : Offsets], roster : SUBSET Accounts]]
  /\ EditsAsReviewed

\* A body is made from what its author saw, which was there.
BodyOK(b) ==
  /\ b \in Bodies /\ b.id <= sent /\ b.seen = b.rev
  /\ b.id = 0 => b.rev # 0
  /\ b.id # 0 => b.starts \in Starts

\* What requests carry, and what panels would send again.
Known ==
  {r.body : r \in request}
    \cup {panel[p].mutation : p \in {p \in Panels : panel[p].mutation # None}}

\* A mutation id belongs to one body, a number to one request, and an answer to
\* one panel.
RequestsInv ==
  /\ sent \in 0 .. MaxRequests
  /\ saved \subseteq 1 .. sent
  /\ request \subseteq [n : 1 .. sent, who : Accounts, body : Bodies, roster : SUBSET Accounts]
  /\ panel \in [Panels -> [shown : Shown, draft : Shown, mutation : Bodies \cup {None}, waiting : 0 .. sent]]
  /\ \A b \in Known : BodyOK(b)
  /\ \A b, c \in Known : b.id = c.id /\ b.id # 0 => b = c
  /\ \A p \in Panels : panel[p].mutation # None => panel[p].mutation.id # 0
  /\ \A r, q \in request : r.n = q.n => r = q
  /\ \A p \in Panels : panel[p].waiting # 0 =>
       /\ \E r \in request : r.n = panel[p].waiting /\ r.who = Viewer[p]
       /\ \A q \in Panels : panel[q].waiting = panel[p].waiting => q = p

GatheringsInv == TablesInv /\ RequestsInv

\* The save that a panel would send again, and one that nobody sends again and
\* that has no receipt.
Unsettled(p, id) == panel[p].mutation # None /\ panel[p].mutation.id = id
Dead(id) == id \notin saved /\ \A b \in Known : b.id # id

\* Of the attempts for a panel's draft, all but the one whose outcome is unknown
\* are dead, unless they were forgotten; those for a dropped draft are unsaved,
\* and whatever still sends one expects a revision that has been overtaken.
DraftsInv ==
  /\ tried \in [Panels -> SUBSET (1 .. sent)]
  /\ dropped \subseteq 1 .. sent /\ forgotten \subseteq 1 .. sent
  /\ \A p, q \in Panels : \A id : Unsettled(p, id) /\ Unsettled(q, id) => p = q
  /\ \A p \in Panels, r \in request :
       panel[p].waiting = r.n /\ r.body.id # 0 => panel[p].mutation = r.body
  /\ \A p \in Panels : \A id \in tried[p] \ forgotten : Unsettled(p, id) \/ Dead(id)
  /\ \A id \in dropped \ forgotten :
       id \notin saved /\ \A b \in Known : b.id = id => b.rev < Revision

-----------------------------------------------------------------------------
(* What the invariant says of types, and what grows with the revisions.    *)

LEMMA Numbers ==
  ASSUME TablesInv
  PROVE  /\ Revision \in Nat /\ now \in Nat /\ now <= MaxTime
         /\ \A v \in Revisions : plan[v] \in Plan
<1>1. plan \in Seq(Plan) /\ now \in 0 .. MaxTime
  BY DEF TablesInv
<1> QED BY <1>1, GatheringsAssumption DEF Revision, Revisions

\* Views and bodies may speak of every revision up to the current one.
LEMMA Grows ==
  ASSUME Revision \in Nat, Revision' \in Nat, Revision <= Revision'
  PROVE  Bodies \subseteq Bodies' /\ Shown \subseteq Shown'
<1>1. 0 .. Revision \subseteq 0 .. Revision'
  OBVIOUS
<1> QED BY <1>1 DEF Bodies, Shown

LEMMA KnownBodies ==
  ASSUME RequestsInv
  PROVE  /\ \A r \in request : r.body \in Known /\ BodyOK(r.body)
         /\ \A p \in Panels : panel[p].mutation # None =>
              /\ panel[p].mutation \in Known /\ BodyOK(panel[p].mutation)
              /\ panel[p].mutation.id # 0
BY DEF RequestsInv, Known

\* The parts of the invariant say what the run checks.
LEMMA InvImpliesType ==
  ASSUME GatheringsInv, DraftsInv
  PROVE  TypeOK
<1>1. TablesInv /\ RequestsInv
  BY DEF GatheringsInv
<1>2. /\ Revision \in Nat /\ now \in Nat
      /\ \A v \in Revisions : plan[v] \in Plan /\ plan[v].at <= now /\ plan[v].drafted = v - 1
  BY <1>1, Numbers DEF TablesInv, EditsAsReviewed
<1>3. ASSUME NEW v \in Revisions
      PROVE  plan[v] \in [starts : Starts, at : 0 .. now, id : Ids, drafted : 0 .. Revision]
  <2>1. v \in 1 .. Revision
    BY DEF Revisions
  <2>2. plan[v].at \in 0 .. now /\ plan[v].drafted \in 0 .. Revision
    BY <1>2, <2>1 DEF Plan
  <2> QED BY <1>2, <2>2 DEF Plan
<1>4. ASSUME NEW w \in Runs, run[w] # None
      PROVE  run[w].due \subseteq [rev : Revisions, offset : Offsets]
  BY <1>1, <1>4 DEF TablesInv, Job
<1>5. ASSUME NEW r \in request
      PROVE  r.n \in 1 .. sent /\ r.body \in Bodies /\ r.roster \subseteq Accounts
  BY <1>1 DEF RequestsInv
<1>6. ASSUME NEW p \in Panels
      PROVE  /\ panel[p].shown \in Shown /\ panel[p].draft \in Shown
             /\ panel[p].mutation \in Bodies \cup {None}
             /\ panel[p].waiting # 0 => \E r \in request : r.n = panel[p].waiting /\ r.who = Viewer[p]
  BY <1>1 DEF RequestsInv
<1>7. /\ tried \in [Panels -> SUBSET Ids] /\ dropped \subseteq Ids /\ forgotten \subseteq Ids
      /\ sent \in 0 .. MaxRequests
  <2>1. sent \in 0 .. MaxRequests
    BY <1>1 DEF RequestsInv
  <2>2. 1 .. sent \subseteq Ids
    BY <2>1, GatheringsAssumption DEF Ids
  <2> QED BY <2>1, <2>2 DEF DraftsInv
<1>8. /\ now \in 0 .. MaxTime /\ Host \in members /\ members \subseteq Accounts
      /\ saved \subseteq Ids /\ jobs \subseteq Job
      /\ \A j \in jobs : j.state = "open" => j.rev = Revision
      /\ rsvps \subseteq [who : Accounts, rev : Revisions, seen : Revisions]
      /\ inbox \subseteq [who : Accounts, rev : Revisions, offset : {0} \cup Offsets]
  BY <1>1 DEF TablesInv
<1> QED BY <1>3, <1>4, <1>5, <1>6, <1>7, <1>8 DEF TypeOK, Accounts, Job, Shown

-----------------------------------------------------------------------------
(* What the parts of the invariant depend on.                              *)

\* The tables stay, time goes on, other members come and go.
LEMMA TablesKept ==
  ASSUME TablesInv, UNCHANGED <<dbVars, run>>,
         now' \in 0 .. MaxTime, now <= now', Host \in members', members' \subseteq Accounts
  PROVE  TablesInv' /\ Revision' = Revision
<1>1. /\ plan' = plan /\ saved' = saved /\ jobs' = jobs /\ rsvps' = rsvps
      /\ inbox' = inbox /\ run' = run
  BY DEF dbVars
<1>2. Revision' = Revision /\ Revisions' = Revisions
  BY <1>1 DEF Revision, Revisions
<1>3. \A v \in Revisions : plan[v].at \in Nat /\ plan[v].at <= now
  BY Numbers DEF TablesInv, Plan
<1>4. now \in Nat /\ now' \in Nat
  BY Numbers, GatheringsAssumption
<1>5. \A v \in Revisions : plan[v].at <= now'
  BY <1>3, <1>4
<1> QED BY <1>1, <1>2, <1>5 DEF TablesInv, EditsAsReviewed, Job

\* What a panel may become when it asks for nothing new.
View == [shown : Shown, draft : Shown, mutation : Bodies \cup {None}, waiting : 0 .. sent]

Awaited(p) == \E r \in request : r.n = panel[p].waiting /\ r.who = Viewer[p]

\* Requests are answered, panels let go of what they wait for and would send.
LEMMA RequestsKept ==
  ASSUME RequestsInv, Revision \in Nat, Revision' \in Nat, Revision <= Revision',
         sent' = sent, request' \subseteq request,
         saved' \subseteq 1 .. sent,
         panel' \in [Panels -> View'],
         \A p \in Panels :
           /\ panel'[p].mutation \in {None, panel[p].mutation}
           /\ panel'[p].waiting # 0 =>
                panel'[p].waiting = panel[p].waiting /\ Awaited(p)'
  PROVE  RequestsInv'
<1>1. Bodies \subseteq Bodies'
  BY Grows
<1>2. Known' \subseteq Known
  BY DEF Known
<1>3. \A b \in Known' : BodyOK(b)'
  <2> TAKE b \in Known'
  <2>1. b \in Known /\ BodyOK(b)
    BY <1>2 DEF RequestsInv
  <2> QED BY <1>1, <2>1 DEF BodyOK
<1>4. request' \subseteq [n : 1 .. sent, who : Accounts, body : Bodies, roster : SUBSET Accounts]'
  BY <1>1 DEF RequestsInv, Accounts
<1>5. \A p \in Panels : panel'[p].waiting # 0 =>
        /\ \E r \in request' : r.n = panel'[p].waiting /\ r.who = Viewer[p]
        /\ \A q \in Panels : panel'[q].waiting = panel'[p].waiting => q = p
  BY DEF RequestsInv, Awaited
<1>6. \A p \in Panels : panel'[p].mutation # None => panel'[p].mutation.id # 0
  BY DEF RequestsInv
<1>7. \A b, c \in Known' : b.id = c.id /\ b.id # 0 => b = c
  BY <1>2 DEF RequestsInv
<1>8. \A r, q \in request' : r.n = q.n => r = q
  BY DEF RequestsInv
<1>9. sent' \in 0 .. MaxRequests
  BY DEF RequestsInv
<1> QED BY <1>3, <1>4, <1>5, <1>6, <1>7, <1>8, <1>9 DEF RequestsInv, View

-----------------------------------------------------------------------------
(* Panels.                                                                 *)

\* A panel that asks for nothing changes only itself.
LEMMA PanelStep ==
  ASSUME GatheringsInv, NEW p \in Panels, NEW view \in View,
         panel' = [panel EXCEPT ![p] = view],
         view.mutation \in {None, panel[p].mutation}, view.waiting \in {0, panel[p].waiting},
         UNCHANGED <<now, members, dbVars, netVars, run>>
  PROVE  GatheringsInv'
<1>1. TablesInv /\ RequestsInv
  BY DEF GatheringsInv
<1>2. now \in 0 .. MaxTime /\ Host \in members /\ members \subseteq Accounts /\ now \in Nat
  BY <1>1, Numbers DEF TablesInv
<1>3. TablesInv' /\ Revision' = Revision
  BY <1>1, <1>2, TablesKept DEF Accounts
<1>4. saved' = saved /\ sent' = sent /\ request' = request
  BY DEF dbVars, netVars
<1>5. panel \in [Panels -> View] /\ View' = View
  BY <1>1, <1>3, <1>4 DEF RequestsInv, View, Shown, Bodies
<1>6. panel' \in [Panels -> View']
  BY <1>5
<1>7. ASSUME NEW q \in Panels
      PROVE  /\ panel'[q].mutation \in {None, panel[q].mutation}
             /\ panel'[q].waiting # 0 =>
                  panel'[q].waiting = panel[q].waiting /\ Awaited(q)'
  <2>1. q = p => panel'[q] = view
    BY <1>5
  <2>2. q # p => panel'[q] = panel[q]
    BY <1>5
  <2>3. panel[q].waiting # 0 => \E r \in request : r.n = panel[q].waiting /\ r.who = Viewer[q]
    BY <1>1 DEF RequestsInv
  <2> QED BY <1>4, <2>1, <2>2, <2>3 DEF Awaited
<1>8. Revision \in Nat /\ saved \subseteq 1 .. sent
  BY <1>1, Numbers DEF RequestsInv
<1>9. RequestsInv'
  BY <1>1, <1>3, <1>4, <1>6, <1>7, <1>8, RequestsKept
<1> QED BY <1>3, <1>9 DEF GatheringsInv

LEMMA Views ==
  ASSUME GatheringsInv
  PROVE  /\ panel \in [Panels -> View]
         /\ Revision \in Nat /\ Revision \in Shown /\ None \in Shown
         /\ None \in Bodies \cup {None} /\ 0 \in 0 .. sent
<1>1. TablesInv /\ RequestsInv
  BY DEF GatheringsInv
<1>2. Revision \in Nat /\ sent \in 0 .. MaxRequests
  BY <1>1, Numbers DEF RequestsInv
<1> QED BY <1>1, <1>2, GatheringsAssumption DEF RequestsInv, View, Shown

LEMMA loadStep ==
  ASSUME GatheringsInv, NEW p \in Panels, load(p)
  PROVE  GatheringsInv'
<1>1. plan' = plan
  BY DEF load, dbVars
<1>2. PICK shown \in {Revision, None} : panel' = [panel EXCEPT ![p] = [panel[p] EXCEPT !.shown = shown]]
  BY <1>1 DEF load, Loaded, Revision
<1> DEFINE view == [panel[p] EXCEPT !.shown = shown]
<1>3. view \in View /\ view.mutation = panel[p].mutation /\ view.waiting = panel[p].waiting
  BY Views DEF View
<1> QED BY <1>2, <1>3, PanelStep DEF load

LEMMA editStep ==
  ASSUME GatheringsInv, NEW p \in Panels, edit(p)
  PROVE  GatheringsInv'
<1> DEFINE view == [panel[p] EXCEPT !.draft = panel[p].shown]
<1>1. view \in View /\ view.mutation = panel[p].mutation /\ view.waiting = panel[p].waiting
  BY Views DEF View
<1>2. panel' = [panel EXCEPT ![p] = view]
  BY DEF edit
<1> QED BY <1>1, <1>2, PanelStep DEF edit

LEMMA cancelEditStep ==
  ASSUME GatheringsInv, NEW p \in Panels, cancelEdit(p)
  PROVE  GatheringsInv'
<1> DEFINE view == [panel[p] EXCEPT !.draft = None]
<1>1. view \in View /\ view.mutation = panel[p].mutation /\ view.waiting = panel[p].waiting
  BY Views DEF View
<1>2. panel' = [panel EXCEPT ![p] = view]
  BY DEF cancelEdit
<1> QED BY <1>1, <1>2, PanelStep DEF cancelEdit

LEMMA giveUpStep ==
  ASSUME GatheringsInv, NEW p \in Panels, giveUp(p)
  PROVE  GatheringsInv'
<1> DEFINE view == [panel[p] EXCEPT !.waiting = 0]
<1>1. view \in View /\ view.mutation = panel[p].mutation /\ view.waiting = 0
  BY Views DEF View
<1>2. panel' = [panel EXCEPT ![p] = view]
  BY DEF giveUp
<1> QED BY <1>1, <1>2, PanelStep DEF giveUp

LEMMA unmountStep ==
  ASSUME GatheringsInv, NEW p \in Panels, unmount(p)
  PROVE  GatheringsInv'
<1>1. Closed \in View /\ Closed.mutation = None /\ Closed.waiting = 0
  BY Views DEF View, Closed
<1>2. panel' = [panel EXCEPT ![p] = Closed]
  BY DEF unmount
<1> QED BY <1>1, <1>2, PanelStep DEF unmount

\* A request with a new number.  Its body is one that its panel keeps, or an
\* answer; a body with a new id is nobody else's.
LEMMA SendStep ==
  ASSUME GatheringsInv, NEW p \in Panels, NEW mutation \in Bodies \cup {None}, NEW body \in Bodies,
         Send(p, [panel[p] EXCEPT !.mutation = mutation], body),
         mutation # None => mutation = body /\ body.id # 0,
         body.seen = body.rev, body.id = 0 => body.rev # 0, body.id # 0 => body.starts \in Starts,
         body.id = 0 \/ body.id = sent + 1 \/ body \in Known
  PROVE  GatheringsInv'
<1>1. TablesInv /\ RequestsInv
  BY DEF GatheringsInv
<1> DEFINE new == [n |-> sent + 1, who |-> Viewer[p], body |-> body, roster |-> {}]
           view == [panel[p] EXCEPT !.mutation = mutation, !.waiting = sent + 1]
<1>2. /\ sent' = sent + 1 /\ sent < MaxRequests
      /\ request' = request \cup {new}
      /\ panel' = [panel EXCEPT ![p] = view]
      /\ UNCHANGED <<now, members, dbVars, run>>
  <2>1. [[panel[p] EXCEPT !.mutation = mutation] EXCEPT !.waiting = sent + 1] = view
    BY Views DEF View
  <2> QED BY <2>1 DEF Send
<1>3. saved' = saved /\ plan' = plan
  BY <1>2 DEF dbVars
<1>4. now \in 0 .. MaxTime /\ Host \in members /\ members \subseteq Accounts /\ now \in Nat
  BY <1>1, Numbers DEF TablesInv
<1>5. TablesInv' /\ Revision' = Revision /\ Bodies' = Bodies
  <2>1. TablesInv' /\ Revision' = Revision
    BY <1>1, <1>2, <1>4, TablesKept DEF Accounts
  <2> QED BY <2>1 DEF Bodies
<1>6. sent \in Nat /\ MaxRequests \in Nat /\ sent' \in 1 .. MaxRequests /\ 1 .. sent \subseteq 1 .. sent'
  BY <1>1, <1>2, GatheringsAssumption DEF RequestsInv
<1>7. panel \in [Panels -> View] /\ view \in View'
  <2>1. panel \in [Panels -> View] /\ sent + 1 \in 0 .. sent'
    BY <1>2, <1>6, Views
  <2> QED BY <1>5, <2>1 DEF View, Shown
<1>8. panel' \in [Panels -> View']
  BY <1>2, <1>5, <1>6, <1>7 DEF View, Shown
<1>9. /\ panel'[p] = view /\ view.mutation = mutation /\ view.waiting = sent + 1
      /\ \A q \in Panels \ {p} : panel'[q] = panel[q]
  BY <1>2, <1>7 DEF View
<1>10. new \in [n : 1 .. sent, who : Accounts, body : Bodies, roster : SUBSET Accounts]'
  <2>1. sent + 1 \in 1 .. sent' /\ Viewer[p] \in Accounts
    BY <1>2, <1>6, GatheringsAssumption DEF Accounts
  <2> QED BY <1>5, <2>1 DEF Accounts
<1>11. request' \subseteq [n : 1 .. sent, who : Accounts, body : Bodies, roster : SUBSET Accounts]'
  <2>1. request \subseteq [n : 1 .. sent, who : Accounts, body : Bodies, roster : SUBSET Accounts]
    BY <1>1 DEF RequestsInv
  <2>2. ASSUME NEW r \in request
        PROVE  r \in [n : 1 .. sent, who : Accounts, body : Bodies, roster : SUBSET Accounts]'
    BY <1>5, <1>6, <2>1, <2>2 DEF Accounts
  <2> QED BY <1>2, <1>10, <2>2
<1>12. Known' \subseteq Known \cup {body}
  <2>1. \A r \in request' : r.body \in Known \cup {body}
    BY <1>2 DEF Known
  <2>2. \A q \in Panels : panel'[q].mutation # None => panel'[q].mutation \in Known \cup {body}
    BY <1>9 DEF Known
  <2> QED BY <2>1, <2>2 DEF Known
<1>13. \A b \in Known : BodyOK(b) /\ b.id \in Nat /\ b.id <= sent
  BY <1>1 DEF RequestsInv, BodyOK, Bodies, Ids
<1>14. body \notin Known => (body.id = 0 \/ \A b \in Known : b.id # body.id)
  BY <1>6, <1>13
<1>15. \A b \in Known' : BodyOK(b)'
  <2>1. ASSUME NEW b \in Known
        PROVE  BodyOK(b)'
    BY <1>2, <1>3, <1>5, <1>6, <1>13, <2>1 DEF BodyOK
  <2>2. body \notin Known => BodyOK(body)'
    <3>1. body \notin Known => body.id <= sent + 1
      BY <1>6
    <3> QED BY <1>2, <1>3, <1>5, <3>1 DEF BodyOK
  <2> QED BY <1>12, <2>1, <2>2
<1>16. \A b, c \in Known' : b.id = c.id /\ b.id # 0 => b = c
  <2>1. \A b, c \in Known : b.id = c.id /\ b.id # 0 => b = c
    BY <1>1 DEF RequestsInv
  <2> QED BY <1>12, <1>14, <2>1
<1>17. \A r \in request : r.n \in Nat /\ r.n <= sent
  BY <1>1, <1>6 DEF RequestsInv
<1>18. \A r, q \in request' : r.n = q.n => r = q
  <2>1. \A r, q \in request : r.n = q.n => r = q
    BY <1>1 DEF RequestsInv
  <2>2. \A r \in request : r.n # new.n
    BY <1>6, <1>17
  <2> QED BY <1>2, <2>1, <2>2
<1>19. ASSUME NEW q \in Panels, panel'[q].waiting # 0
       PROVE  /\ \E r \in request' : r.n = panel'[q].waiting /\ r.who = Viewer[q]
              /\ \A s \in Panels : panel'[s].waiting = panel'[q].waiting => s = q
  <2>1. \A s \in Panels : panel[s].waiting \in Nat /\ panel[s].waiting <= sent
    BY <1>6, <1>7 DEF View
  <2>2. CASE q = p
    <3>1. new \in request' /\ new.n = sent + 1 /\ new.who = Viewer[p]
      BY <1>2
    <3>2. \A s \in Panels \ {p} : panel'[s].waiting # sent + 1
      BY <1>6, <1>9, <2>1
    <3> QED BY <1>9, <2>2, <3>1, <3>2
  <2>3. CASE q # p
    <3>1. panel'[q] = panel[q] /\ panel'[p].waiting # panel[q].waiting
      BY <1>6, <1>9, <2>1, <2>3
    <3>2. /\ \E r \in request : r.n = panel[q].waiting /\ r.who = Viewer[q]
          /\ \A s \in Panels : panel[s].waiting = panel[q].waiting => s = q
      BY <1>1, <1>19, <3>1 DEF RequestsInv
    <3> QED BY <1>2, <1>9, <3>1, <3>2
  <2> QED BY <2>2, <2>3
<1>20. \A q \in Panels : panel'[q].mutation # None => panel'[q].mutation.id # 0
  <2> HIDE DEF view
  <2>1. panel'[p].mutation # None => panel'[p].mutation.id # 0
    BY <1>9
  <2>2. \A q \in Panels \ {p} : panel[q].mutation # None => panel[q].mutation.id # 0
    BY <1>1, Zenon DEF RequestsInv
  <2> QED BY <1>9, <2>1, <2>2, Zenon
<1>21. saved' \subseteq 1 .. sent' /\ sent' \in 0 .. MaxRequests
  BY <1>1, <1>3, <1>6 DEF RequestsInv
<1>22. RequestsInv'
  BY <1>8, <1>11, <1>15, <1>16, <1>18, <1>19, <1>20, <1>21 DEF RequestsInv, View
<1> QED BY <1>5, <1>22 DEF GatheringsInv

LEMMA saveStep ==
  ASSUME GatheringsInv, NEW p \in Panels, NEW starts \in Starts, save(p, starts)
  PROVE  GatheringsInv'
<1> DEFINE body == [id |-> sent + 1, rev |-> panel[p].draft, starts |-> starts, seen |-> panel[p].draft]
<1>1. RequestsInv /\ Revision \in Nat /\ panel[p] \in View
  BY Views DEF GatheringsInv
<1>2. panel[p].draft # None /\ Send(p, [panel[p] EXCEPT !.mutation = body], body)
  BY DEF save, draftRevision
<1>3. sent + 1 \in Ids /\ sent + 1 # 0
  BY <1>1, <1>2, GatheringsAssumption DEF RequestsInv, Send, Ids
<1>4. panel[p].draft \in 0 .. Revision
  BY <1>1, <1>2 DEF View, Shown
<1>5. body \in Bodies
  BY <1>3, <1>4 DEF Bodies
<1> HIDE DEF body
<1>6. body.id = sent + 1 /\ body.seen = body.rev /\ body.starts \in Starts
  BY DEF body
<1> QED BY <1>2, <1>3, <1>5, <1>6, SendStep

LEMMA retryStep ==
  ASSUME GatheringsInv, NEW p \in Panels, retry(p)
  PROVE  GatheringsInv'
<1> DEFINE body == panel[p].mutation
<1>1. RequestsInv /\ panel[p] \in View
  BY Views DEF GatheringsInv
<1>2. body # None /\ Send(p, panel[p], body)
  BY DEF retry
<1>3. body \in Known /\ BodyOK(body) /\ body.id # 0
  BY <1>1, <1>2, KnownBodies
<1>4. body \in Bodies /\ body.seen = body.rev /\ body.starts \in Starts
  BY <1>3 DEF BodyOK
<1>5. panel[p] = [panel[p] EXCEPT !.mutation = body]
  BY <1>1 DEF View
<1> HIDE DEF body
<1>6. Send(p, [panel[p] EXCEPT !.mutation = body], body)
  BY <1>2, <1>5
<1> QED BY <1>3, <1>4, <1>6, SendStep

LEMMA rsvpStep ==
  ASSUME GatheringsInv, NEW p \in Panels, rsvp(p)
  PROVE  GatheringsInv'
<1> DEFINE body == [id |-> 0, rev |-> panel[p].shown, starts |-> None, seen |-> panel[p].shown]
<1>1. Revision \in Nat /\ panel[p] \in View /\ None \in Bodies \cup {None}
  BY Views
<1>2. panel[p].mutation = None /\ panel[p].shown \notin {None, 0} /\ Send(p, panel[p], body)
  BY DEF rsvp
<1>3. panel[p].shown \in 0 .. Revision
  BY <1>1, <1>2 DEF View, Shown
<1>4. body \in Bodies
  BY <1>3 DEF Bodies
<1>5. panel[p] = [panel[p] EXCEPT !.mutation = None]
  BY <1>1, <1>2 DEF View
<1>6. body.id = 0 /\ body.seen = body.rev /\ body.rev # 0
  BY <1>2
<1> HIDE DEF body
<1>7. Send(p, [panel[p] EXCEPT !.mutation = None], body)
  BY <1>2, <1>5
<1> QED BY <1>1, <1>4, <1>6, <1>7, SendStep

-----------------------------------------------------------------------------
(* The server.                                                             *)

LEMMA readRoomStep ==
  ASSUME GatheringsInv, NEW r \in request, readRoom(r)
  PROVE  GatheringsInv'
<1>1. TablesInv /\ RequestsInv
  BY DEF GatheringsInv
<1> DEFINE read == [r EXCEPT !.roster = members]
<1>2. /\ request' = (request \ {r}) \cup {read}
      /\ UNCHANGED <<now, members, dbVars, panel, sent, run>>
  BY DEF readRoom
<1>3. now \in 0 .. MaxTime /\ Host \in members /\ members \subseteq Accounts /\ now \in Nat
  BY <1>1, Numbers DEF TablesInv
<1>4. TablesInv' /\ Revision' = Revision
  BY <1>1, <1>2, <1>3, TablesKept DEF Accounts
<1>5. /\ saved' = saved /\ Bodies' = Bodies /\ Shown' = Shown
      /\ sent' = sent /\ panel' = panel
  BY <1>2, <1>4 DEF dbVars, Bodies, Shown
<1>6. r \in [n : 1 .. sent, who : Accounts, body : Bodies, roster : SUBSET Accounts]
  BY <1>1 DEF RequestsInv
<1>7. /\ read \in [n : 1 .. sent, who : Accounts, body : Bodies, roster : SUBSET Accounts]
      /\ read.n = r.n /\ read.who = r.who /\ read.body = r.body
  BY <1>3, <1>6
<1> HIDE DEF read
<1>8. request' \subseteq [n : 1 .. sent, who : Accounts, body : Bodies, roster : SUBSET Accounts]'
  BY <1>1, <1>2, <1>5, <1>7 DEF RequestsInv, Accounts
<1>9. Known' = Known
  BY <1>2, <1>5, <1>7 DEF Known
<1>10. \A q, s \in request' : q.n = s.n => q = s
  BY <1>1, <1>2, <1>7 DEF RequestsInv
<1>11. \A q \in request : \E s \in request' : s.n = q.n /\ s.who = q.who
  BY <1>2, <1>7
<1>12. \A p \in Panels : panel'[p].waiting # 0 =>
         /\ \E q \in request' : q.n = panel'[p].waiting /\ q.who = Viewer[p]
         /\ \A q \in Panels : panel'[q].waiting = panel'[p].waiting => q = p
  <2> SUFFICES ASSUME NEW p \in Panels, panel[p].waiting # 0
               PROVE  /\ \E q \in request' : q.n = panel[p].waiting /\ q.who = Viewer[p]
                      /\ \A q \in Panels : panel[q].waiting = panel[p].waiting => q = p
    BY <1>5
  <2>1. PICK q \in request : q.n = panel[p].waiting /\ q.who = Viewer[p]
    BY <1>1 DEF RequestsInv
  <2>2. \A s \in Panels : panel[s].waiting = panel[p].waiting => s = p
    BY <1>1 DEF RequestsInv
  <2> QED BY <1>11, <2>1, <2>2
<1>13. \A b \in Known' : BodyOK(b)'
  BY <1>1, <1>4, <1>5, <1>9 DEF RequestsInv, BodyOK
<1>14. RequestsInv'
  BY <1>1, <1>5, <1>8, <1>9, <1>10, <1>12, <1>13 DEF RequestsInv
<1> QED BY <1>4, <1>14 DEF GatheringsInv

\* What an answer does to the panel that waits for it, if there is one.
AnsweredPanel(p, r, a) ==
  /\ panel[p].waiting = r.n
  /\ IF r.body.id = 0 THEN UNCHANGED historyVars ELSE Told(p, r, a)
  /\ \E view \in View' :
       /\ panel' = [panel EXCEPT ![p] = view] /\ view.waiting = 0
       /\ view.mutation = IF r.body.id = 0 \/ a = "unavailable" THEN panel[p].mutation ELSE None

LEMMA Answered ==
  ASSUME GatheringsInv, NEW r \in request, NEW answer, Answer(r, answer),
         Revision' \in Nat, Revision <= Revision'
  PROVE  /\ request' = request \ {r} /\ UNCHANGED <<now, members, sent, run>>
         /\ \/ \E p \in Panels, a \in {answer, "unavailable"} : AnsweredPanel(p, r, a)
            \/ UNCHANGED <<panel, historyVars>> /\ \A p \in Panels : panel[p].waiting # r.n
<1>1. panel \in [Panels -> View] /\ Revision \in Nat /\ 0 \in 0 .. sent
  BY Views
<1>2. sent' = sent /\ Bodies \subseteq Bodies' /\ Shown \subseteq Shown'
  BY <1>1, Grows DEF Answer
<1>3. Revision' \in Shown' /\ None \in Shown'
  BY DEF Shown
<1>4. ASSUME NEW p \in Panels
      PROVE  panel[p] \in View'
  BY <1>1, <1>2 DEF View
<1>5. ASSUME NEW a, Receive(r, a)
      PROVE  \E p \in Panels : AnsweredPanel(p, r, a)
  <2>1. PICK p \in Panels :
          LET view == [panel[p] EXCEPT !.waiting = 0]
              settled == [view EXCEPT !.mutation = None]
          IN
          /\ panel[p].waiting = r.n
          /\ IF r.body.id = 0
             THEN Loaded(p, view) /\ UNCHANGED historyVars
             ELSE /\ Told(p, r, a)
                  /\ CASE a = "unavailable" -> panel' = [panel EXCEPT ![p] = view]
                       [] a = "invalid"     -> Loaded(p, settled)
                       [] OTHER             -> Loaded(p, [settled EXCEPT !.draft = None])
    BY <1>5 DEF Receive
  <2> DEFINE view == [panel[p] EXCEPT !.waiting = 0]
             settled == [view EXCEPT !.mutation = None]
             closed == [settled EXCEPT !.draft = None]
             mutation == IF r.body.id = 0 \/ a = "unavailable" THEN panel[p].mutation ELSE None
  <2>2. view \in View' /\ view.waiting = 0 /\ view.mutation = panel[p].mutation
    BY <1>1, <1>2, <1>4 DEF View
  <2>3. /\ settled \in View' /\ settled.waiting = 0 /\ settled.mutation = None
        /\ closed \in View' /\ closed.waiting = 0 /\ closed.mutation = None
    BY <1>3, <2>2 DEF View
  <2>4. \/ r.body.id # 0 /\ a = "unavailable" /\ panel' = [panel EXCEPT ![p] = view]
        \/ r.body.id = 0 /\ Loaded(p, view)
        \/ r.body.id # 0 /\ a # "unavailable" /\ (Loaded(p, settled) \/ Loaded(p, closed))
    <3>1. r.body.id = 0 => Loaded(p, view)
      BY <2>1
    <3>2. r.body.id # 0 /\ a = "unavailable" => panel' = [panel EXCEPT ![p] = view]
      BY <2>1
    <3>3. r.body.id # 0 /\ a = "invalid" => Loaded(p, settled)
      BY <2>1
    <3>4. r.body.id # 0 /\ a \notin {"unavailable", "invalid"} => Loaded(p, closed)
      BY <2>1
    <3> HIDE DEF view, settled, closed
    <3> QED BY <3>1, <3>2, <3>3, <3>4
  <2> HIDE DEF view, settled, closed
  <2>5. ASSUME NEW v \in View', v.waiting = 0, v.mutation = mutation, Loaded(p, v)
        PROVE  AnsweredPanel(p, r, a)
    <3>1. PICK shown \in {Revision', None} : panel' = [panel EXCEPT ![p] = [v EXCEPT !.shown = shown]]
      BY <2>5 DEF Loaded
    <3> DEFINE w == [v EXCEPT !.shown = shown]
    <3>2. w \in View' /\ w.waiting = 0 /\ w.mutation = mutation
      BY <1>3, <2>5 DEF View
    <3> QED BY <2>1, <3>1, <3>2 DEF AnsweredPanel
  <2>6. r.body.id # 0 /\ a = "unavailable" /\ panel' = [panel EXCEPT ![p] = view] => AnsweredPanel(p, r, a)
    BY <2>1, <2>2 DEF AnsweredPanel
  <2> QED BY <2>2, <2>3, <2>4, <2>5, <2>6
<1>6. CASE \E p \in Panels : panel[p].waiting = r.n
  <2>1. PICK a \in {answer, "unavailable"} : Receive(r, a)
    BY <1>6 DEF Answer
  <2> QED BY <1>5, <2>1 DEF Answer
<1>7. CASE \A p \in Panels : panel[p].waiting # r.n
  BY <1>7 DEF Answer
<1> QED BY <1>6, <1>7

\* What is left to show of a step that answers a request: the tables.
LEMMA AnswerStep ==
  ASSUME GatheringsInv, NEW r \in request, NEW answer, Answer(r, answer),
         Revision' \in Nat, Revision <= Revision', TablesInv',
         saved' \subseteq saved \cup {r.body.id}, r.body.id \in saved' => r.body.id # 0
  PROVE  GatheringsInv'
<1>1. RequestsInv /\ Revision \in Nat
  BY Views DEF GatheringsInv
<1>2. /\ request' = request \ {r} /\ sent' = sent
      /\ \/ \E p \in Panels, a \in {answer, "unavailable"} : AnsweredPanel(p, r, a)
         \/ panel' = panel /\ \A p \in Panels : panel[p].waiting # r.n
  BY Answered
<1>3. r.body \in Known /\ r.body.id \in Nat /\ r.body.id <= sent /\ sent \in Nat
  BY <1>1, KnownBodies DEF BodyOK, Bodies, Ids, RequestsInv
<1>4. saved' \subseteq 1 .. sent
  <2>1. saved \subseteq 1 .. sent
    BY <1>1 DEF RequestsInv
  <2>2. r.body.id # 0 => r.body.id \in 1 .. sent
    BY <1>3
  <2> QED BY <2>1, <2>2
<1>5. panel \in [Panels -> View] /\ View \subseteq View'
  <2>1. panel \in [Panels -> View] /\ Bodies \subseteq Bodies' /\ Shown \subseteq Shown'
    BY <1>1, Views, Grows
  <2> QED BY <1>2, <2>1 DEF View
<1>6. panel' \in [Panels -> View']
  BY <1>2, <1>5 DEF AnsweredPanel
<1>7. ASSUME NEW p \in Panels
      PROVE  /\ panel'[p].mutation \in {None, panel[p].mutation}
             /\ panel'[p].waiting # 0 => panel'[p].waiting = panel[p].waiting /\ panel[p].waiting # r.n
  <2>1. CASE panel' = panel /\ \A q \in Panels : panel[q].waiting # r.n
    BY <2>1
  <2>2. ASSUME NEW q \in Panels, NEW a \in {answer, "unavailable"}, AnsweredPanel(q, r, a)
        PROVE  /\ panel'[p].mutation \in {None, panel[p].mutation}
               /\ panel'[p].waiting # 0 => panel'[p].waiting = panel[p].waiting /\ panel[p].waiting # r.n
    <3>1. PICK view \in View' : /\ panel' = [panel EXCEPT ![q] = view]
                                /\ view.waiting = 0 /\ view.mutation \in {None, panel[q].mutation}
      BY <2>2 DEF AnsweredPanel
    <3>2. panel[q].waiting = r.n
      BY <2>2 DEF AnsweredPanel
    <3>3. r.n # 0
      BY <1>1, <1>3 DEF RequestsInv
    <3>4. p # q => panel[p].waiting # panel[q].waiting
      BY <1>1, <3>2, <3>3 DEF RequestsInv
    <3>5. p # q => panel'[p] = panel[p]
      BY <1>5, <3>1
    <3>6. p = q => panel'[p] = view
      BY <1>5, <3>1
    <3> QED BY <3>1, <3>2, <3>4, <3>5, <3>6
  <2> QED BY <1>2, <2>1, <2>2
<1>8. ASSUME NEW p \in Panels, panel'[p].waiting # 0
      PROVE  Awaited(p)'
  <2>1. panel'[p].waiting = panel[p].waiting /\ panel[p].waiting # r.n
    BY <1>7, <1>8
  <2>2. PICK q \in request : q.n = panel[p].waiting /\ q.who = Viewer[p]
    BY <1>1, <1>8, <2>1 DEF RequestsInv
  <2> QED BY <1>2, <2>1, <2>2 DEF Awaited
<1>9. RequestsInv'
  <2>1. request' \subseteq request
    BY <1>2
  <2> QED BY <1>1, <1>2, <1>4, <1>6, <1>7, <1>8, <2>1, RequestsKept
<1> QED BY <1>9 DEF GatheringsInv

\* Steps that answer and leave the tables as they are.
LEMMA ReadOnlyAnswer ==
  ASSUME GatheringsInv, NEW r \in request, NEW answer, UNCHANGED dbVars, Answer(r, answer)
  PROVE  GatheringsInv'
<1>1. TablesInv /\ RequestsInv
  BY DEF GatheringsInv
<1>2. UNCHANGED <<now, members, run>>
  BY DEF Answer
<1>3. now \in 0 .. MaxTime /\ Host \in members /\ members \subseteq Accounts /\ now \in Nat
  BY <1>1, Numbers DEF TablesInv
<1>4. TablesInv' /\ Revision' = Revision /\ Revision \in Nat
  BY <1>1, <1>2, <1>3, TablesKept, Numbers DEF Accounts
<1>5. saved' = saved /\ 0 \notin saved
  BY <1>1 DEF dbVars, TablesInv, Ids
<1> QED BY <1>4, <1>5, AnswerStep

\* Calls that change nothing, whatever they answer.
LEMMA UnchangedSteps ==
  ASSUME GatheringsInv, NEW r \in request,
         refuse(r) \/ replaySave(r) \/ conflictSave(r) \/ tooSoonSave(r) \/ pastSave(r)
  PROVE  GatheringsInv'
BY ReadOnlyAnswer DEF refuse, replaySave, conflictSave, tooSoonSave, pastSave

\* A save that takes effect, or has nothing to change, expects the meeting as it is.
LEMMA SaveExpected ==
  ASSUME GatheringsInv, NEW r \in request, Expected(r.body), r.body.id # 0
  PROVE  r.body.id \in Ids /\ r.body.seen = Revision /\ r.body.starts \in Starts
<1>1. BodyOK(r.body) /\ Revision \in Nat
  BY KnownBodies, Views DEF GatheringsInv
<1> QED BY <1>1 DEF BodyOK, Bodies, Expected

LEMMA sameSaveStep ==
  ASSUME GatheringsInv, NEW r \in request, sameSave(r), r.body.id # 0
  PROVE  GatheringsInv'
<1>1. /\ Expected(r.body) /\ saved' = saved \cup {r.body.id}
      /\ UNCHANGED <<plan, jobs, rsvps, inbox>> /\ Answer(r, "ok")
  BY DEF sameSave
<1>2. r.body.id \in Ids
  BY <1>1, SaveExpected
<1>3. TablesInv /\ UNCHANGED <<now, members, run>>
  BY <1>1 DEF GatheringsInv, Answer
<1>4. Revision' = Revision /\ Revision \in Nat /\ Revisions' = Revisions
  BY <1>1, <1>3, Numbers DEF Revision, Revisions
<1>5. TablesInv'
  BY <1>1, <1>2, <1>3, <1>4 DEF TablesInv, EditsAsReviewed, Job
<1>6. Revision <= Revision'
  BY <1>4
<1> QED BY <1>1, <1>2, <1>4, <1>5, <1>6, AnswerStep

\* A new revision adds one to the end, and leaves the others as they were.
LEMMA reviseSaveStep ==
  ASSUME GatheringsInv, NEW r \in request, reviseSave(r), r.roster # {}, r.body.id # 0
  PROVE  GatheringsInv'
<1> DEFINE rev == Revision + 1
           new == [starts |-> r.body.starts, at |-> now, id |-> r.body.id, drafted |-> r.body.seen]
<1>1. /\ Expected(r.body) /\ r.body.id \notin saved
      /\ plan' = Append(plan, new)
      /\ jobs' = Cancelled(jobs) \cup Scheduled(rev, r.body.starts)
      /\ inbox' = inbox \cup {[who |-> m, rev |-> rev, offset |-> 0] : m \in r.roster}
      /\ saved' = saved \cup {r.body.id}
      /\ rsvps' = rsvps /\ Answer(r, "ok")
  BY DEF reviseSave, Revises, Replayed
<1>2. r.body.id \in Ids /\ r.body.seen = Revision /\ r.body.starts \in Starts
  BY <1>1, SaveExpected
<1>3. TablesInv /\ RequestsInv /\ now' = now /\ members' = members /\ run' = run
  BY <1>1 DEF GatheringsInv, Answer
<1>4. Revision \in Nat /\ now \in Nat /\ plan \in Seq(Plan) /\ \A v \in Revisions : plan[v] \in Plan
  BY <1>3, Numbers DEF TablesInv
<1>5. new \in Plan
  BY <1>2, <1>4 DEF Plan
<1> HIDE DEF new
<1>6. /\ Revision' = rev /\ plan' \in Seq(Plan) /\ plan'[rev] = new
      /\ \A v \in Revisions : plan'[v] = plan[v]
  BY <1>1, <1>4, <1>5 DEF Revision, Revisions
<1>7. Revisions' = Revisions \cup {rev} /\ rev \notin Revisions /\ rev \in Revisions'
  BY <1>4, <1>6 DEF Revisions
<1>8. \A v \in Revisions' : plan'[v].at <= now /\ plan'[v].id \in saved'
  <2>1. \A v \in Revisions : plan[v].at <= now /\ plan[v].id \in saved
    BY <1>3 DEF TablesInv
  <2>2. new.at <= now /\ new.id \in saved'
    BY <1>1, <1>4 DEF new
  <2> QED BY <1>1, <1>6, <1>7, <2>1, <2>2
<1>9. EditsAsReviewed'
  <2>1. \A v \in Revisions' : plan'[v].drafted = v - 1
    <3>1. new.drafted = rev - 1
      BY <1>2, <1>4 DEF new
    <3> QED BY <1>3, <1>6, <1>7, <3>1 DEF TablesInv, EditsAsReviewed
  <2>2. \A v \in Revisions : plan[v].id # new.id
    BY <1>1, <1>3 DEF TablesInv, new
  <2>3. \A v, u \in Revisions' : plan'[v].id = plan'[u].id => u = v
    BY <1>3, <1>6, <1>7, <2>2 DEF TablesInv, EditsAsReviewed
  <2>4. \A a \in rsvps' : a.rev = a.seen
    BY <1>1, <1>3 DEF TablesInv, EditsAsReviewed
  <2> QED BY <2>1, <2>3, <2>4 DEF EditsAsReviewed
<1>10. ASSUME NEW j \in jobs
       PROVE  LET k == IF j.state = "open" THEN [j EXCEPT !.state = "cancelled"] ELSE j IN
              k \in Job' /\ k.state # "open" /\ k.rev = j.rev /\ k.offset = j.offset
  <2>1. j \in Job
    BY <1>3 DEF TablesInv
  <2> QED BY <1>7, <2>1 DEF Job
<1>11. \A j \in Cancelled(jobs) : j \in Job' /\ j.state # "open"
  BY <1>10 DEF Cancelled
<1>12. \A j \in Scheduled(rev, r.body.starts) : j \in Job' /\ j.rev = rev
  BY <1>7 DEF Scheduled, Job
<1>13. jobs' \subseteq Job' /\ \A j \in jobs' : j.state = "open" => j.rev = Revision'
  BY <1>1, <1>6, <1>11, <1>12
<1>14. \A j \in jobs : \E k \in jobs' : k.rev = j.rev /\ k.offset = j.offset
  BY <1>1, <1>10 DEF Cancelled
<1>15. ASSUME NEW w \in Runs, run[w] # None
       PROVE  /\ run[w].due \subseteq {[rev |-> j.rev, offset |-> j.offset] : j \in jobs'}
              /\ run[w].roster \subseteq Accounts
  <2>1. /\ run[w].due \subseteq {[rev |-> j.rev, offset |-> j.offset] : j \in jobs}
        /\ run[w].roster \subseteq Accounts
    BY <1>3, <1>15 DEF TablesInv
  <2> QED BY <1>14, <2>1
<1>16. inbox' \subseteq [who : Accounts, rev : Revisions, offset : {0} \cup Offsets]'
  <2>1. r.roster \subseteq Accounts
    BY <1>3 DEF RequestsInv
  <2>2. inbox \subseteq [who : Accounts, rev : Revisions, offset : {0} \cup Offsets]
    BY <1>3 DEF TablesInv
  <2>3. \A m \in r.roster : [who |-> m, rev |-> rev, offset |-> 0] \in [who : Accounts, rev : Revisions', offset : {0} \cup Offsets]
    BY <1>7, <2>1
  <2> QED BY <1>1, <1>7, <2>2, <2>3 DEF Accounts
<1>17. rsvps' \subseteq [who : Accounts, rev : Revisions, seen : Revisions]'
  BY <1>1, <1>3, <1>7 DEF TablesInv, Accounts
<1>18. saved' \subseteq Ids
  BY <1>1, <1>2, <1>3 DEF TablesInv
<1>19. TablesInv'
  BY <1>3, <1>6, <1>8, <1>9, <1>13, <1>15, <1>16, <1>17, <1>18 DEF TablesInv, Accounts, Ids, Plan
<1>20. Revision' \in Nat /\ Revision <= Revision'
  BY <1>4, <1>6
<1> QED BY <1>1, <1>2, <1>19, <1>20, AnswerStep

LEMMA SavesKept ==
  ASSUME GatheringsInv, NEW r \in request, arisan_gathering_save(r)
  PROVE  GatheringsInv'
<1>1. /\ r.roster # {} /\ r.body.id # 0
      /\ \/ replaySave(r) \/ conflictSave(r) \/ sameSave(r)
         \/ tooSoonSave(r) \/ pastSave(r) \/ reviseSave(r)
  BY DEF arisan_gathering_save
<1> QED BY <1>1, UnchangedSteps, sameSaveStep, reviseSaveStep

\* An answer that counts is for the revision its member had in view.
LEMMA arisan_gathering_rsvpStep ==
  ASSUME GatheringsInv, NEW r \in request, arisan_gathering_rsvp(r)
  PROVE  GatheringsInv'
<1>1. r.body.id = 0 /\ UNCHANGED <<plan, saved, jobs, inbox>>
  BY DEF arisan_gathering_rsvp
<1>2. CASE UNCHANGED rsvps /\ Answer(r, "conflict")
  <2>1. UNCHANGED dbVars
    BY <1>1, <1>2 DEF dbVars
  <2> QED BY <1>1, <1>2, <2>1, ReadOnlyAnswer
<1>3. CASE /\ r.body.rev = Revision
           /\ rsvps' = rsvps \cup {[who |-> r.who, rev |-> Revision, seen |-> r.body.seen]}
           /\ Answer(r, "ok")
  <2>1. TablesInv /\ RequestsInv /\ now' = now /\ members' = members /\ run' = run
    BY <1>3 DEF GatheringsInv, Answer
  <2>2. Revision' = Revision /\ Revisions' = Revisions /\ Revision \in Nat
    BY <1>1, <2>1, Numbers DEF Revision, Revisions
  <2>3. r.who \in Accounts /\ r.body.seen = Revision /\ Revision # 0
    <3>1. BodyOK(r.body) /\ r.who \in Accounts
      BY <2>1, KnownBodies DEF RequestsInv
    <3> QED BY <1>1, <1>3, <3>1 DEF BodyOK
  <2>4. Revision \in Revisions
    BY <2>2, <2>3 DEF Revisions
  <2>5. TablesInv'
    <3>1. EditsAsReviewed'
      BY <1>1, <1>3, <2>1, <2>2, <2>3 DEF TablesInv, EditsAsReviewed
    <3>2. rsvps' \subseteq [who : Accounts, rev : Revisions, seen : Revisions]
      BY <1>3, <2>1, <2>3, <2>4 DEF TablesInv
    <3>3. plan' = plan /\ saved' = saved /\ jobs' = jobs /\ inbox' = inbox
      BY <1>1
    <3> QED BY <2>1, <2>2, <3>1, <3>2, <3>3 DEF TablesInv, Job, Accounts
  <2>6. saved' = saved /\ 0 \notin saved /\ Revision <= Revision'
    BY <1>1, <2>1, <2>2 DEF TablesInv, Ids
  <2> QED BY <1>1, <1>3, <2>2, <2>5, <2>6, AnswerStep
<1> QED BY <1>2, <1>3 DEF arisan_gathering_rsvp

-----------------------------------------------------------------------------
(* Reminder runs, the clock and the roster.                                *)

\* Requests and panels are as they were, and so is the plan.
LEMMA OutsideRequests ==
  ASSUME GatheringsInv, UNCHANGED <<plan, saved, panel, netVars>>
  PROVE  RequestsInv' /\ Revision' = Revision /\ Revisions' = Revisions
<1>1. sent' = sent /\ request' = request
  BY DEF netVars
<1>2. Revision' = Revision /\ Revisions' = Revisions
  BY DEF Revision, Revisions
<1>3. Bodies' = Bodies /\ Shown' = Shown
  BY <1>2 DEF Bodies, Shown
<1>4. Known' = Known
  BY <1>1 DEF Known
<1>5. \A b : BodyOK(b)' <=> BodyOK(b)
  BY <1>1, <1>2, <1>3 DEF BodyOK
<1> QED BY <1>1, <1>2, <1>3, <1>4, <1>5 DEF GatheringsInv, RequestsInv

LEMMA RunStep ==
  ASSUME GatheringsInv, NEW w \in Runs,
         NEW list \in {None} \cup [due : SUBSET [rev : Nat, offset : Offsets], roster : SUBSET Accounts],
         list # None => list.due \subseteq {[rev |-> j.rev, offset |-> j.offset] : j \in jobs},
         run' = [run EXCEPT ![w] = list],
         UNCHANGED <<now, members, dbVars, panel, netVars>>
  PROVE  GatheringsInv'
<1>1. /\ plan' = plan /\ saved' = saved /\ jobs' = jobs /\ rsvps' = rsvps
      /\ inbox' = inbox /\ now' = now /\ members' = members
  BY DEF dbVars
<1>2. RequestsInv' /\ Revision' = Revision /\ Revisions' = Revisions
  BY <1>1, OutsideRequests
<1>3. TablesInv
  BY DEF GatheringsInv
<1>4. run' \in [Runs -> {None} \cup [due : SUBSET [rev : Nat, offset : Offsets], roster : SUBSET Accounts]]
  BY <1>3 DEF TablesInv
<1>5. ASSUME NEW v \in Runs, run'[v] # None
      PROVE  /\ run'[v].due \subseteq {[rev |-> j.rev, offset |-> j.offset] : j \in jobs}
             /\ run'[v].roster \subseteq Accounts
  <2>1. v = w => run'[v] = list
    BY <1>3 DEF TablesInv
  <2>2. v # w => run'[v] = run[v]
    BY <1>3 DEF TablesInv
  <2> QED BY <1>3, <1>5, <2>1, <2>2 DEF TablesInv
<1>6. TablesInv'
  BY <1>1, <1>2, <1>3, <1>4, <1>5 DEF TablesInv, EditsAsReviewed, Job, Accounts
<1> QED BY <1>2, <1>6 DEF GatheringsInv

LEMMA arisan_gathering_due_remindersStep ==
  ASSUME GatheringsInv, NEW w \in Runs, arisan_gathering_due_reminders(w)
  PROVE  GatheringsInv'
<1>1. jobs \subseteq Job /\ Revision \in Nat
  BY Numbers DEF GatheringsInv, TablesInv
<1>2. \A j \in jobs : j.rev \in Nat /\ j.offset \in Offsets
  BY <1>1 DEF Job, Revisions
<1>3. PICK listed \in SUBSET {j \in jobs : Due(j)} :
        run' = [run EXCEPT ![w] = [due |-> {[rev |-> j.rev, offset |-> j.offset] : j \in listed}, roster |-> {}]]
  BY DEF arisan_gathering_due_reminders
<1> DEFINE list == [due |-> {[rev |-> j.rev, offset |-> j.offset] : j \in listed}, roster |-> {}]
<1>4. listed \subseteq jobs
  OBVIOUS
<1>5. list.due \subseteq {[rev |-> j.rev, offset |-> j.offset] : j \in jobs}
  BY <1>4
<1>6. list \in [due : SUBSET [rev : Nat, offset : Offsets], roster : SUBSET Accounts]
  BY <1>2, <1>4
<1>7. run' = [run EXCEPT ![w] = list] /\ UNCHANGED <<now, members, dbVars, panel, netVars>>
  BY <1>3 DEF arisan_gathering_due_reminders
<1> HIDE DEF list
<1> QED BY <1>5, <1>6, <1>7, RunStep

LEMMA runRoomStep ==
  ASSUME GatheringsInv, NEW w \in Runs, runRoom(w)
  PROVE  GatheringsInv'
<1> DEFINE list == [run[w] EXCEPT !.roster = members]
<1>1. TablesInv /\ run[w] # None /\ members \subseteq Accounts
  BY DEF GatheringsInv, TablesInv, runRoom
<1>2. run[w] \in [due : SUBSET [rev : Nat, offset : Offsets], roster : SUBSET Accounts]
  BY <1>1 DEF TablesInv
<1>3. list \in [due : SUBSET [rev : Nat, offset : Offsets], roster : SUBSET Accounts]
      /\ list.due = run[w].due
  BY <1>1, <1>2
<1>4. list.due \subseteq {[rev |-> j.rev, offset |-> j.offset] : j \in jobs}
  BY <1>1, <1>3 DEF TablesInv
<1>5. run' = [run EXCEPT ![w] = list] /\ UNCHANGED <<now, members, dbVars, panel, netVars>>
  BY DEF runRoom
<1> HIDE DEF list
<1> QED BY <1>3, <1>4, <1>5, RunStep

LEMMA runEndsStep ==
  ASSUME GatheringsInv, NEW w \in Runs, runEnds(w)
  PROVE  GatheringsInv'
<1>1. run' = [run EXCEPT ![w] = None] /\ UNCHANGED <<now, members, dbVars, panel, netVars>>
  BY DEF runEnds
<1> QED BY <1>1, RunStep

\* The job a run has on its list is there, in whatever state.
LEMMA ListedJob ==
  ASSUME GatheringsInv, NEW w \in Runs, run[w] # None, NEW k \in run[w].due
  PROVE  LET j == CHOOSE j \in jobs : j.rev = k.rev /\ j.offset = k.offset IN
         j \in jobs /\ j \in Job /\ j.rev = k.rev /\ j.offset = k.offset
<1>1. \E j \in jobs : j.rev = k.rev /\ j.offset = k.offset
  BY DEF GatheringsInv, TablesInv
<1>2. jobs \subseteq Job
  BY DEF GatheringsInv, TablesInv
<1> QED BY <1>1, <1>2

LEMMA arisan_gathering_reminder_enqueueStep ==
  ASSUME GatheringsInv, NEW w \in Runs, run[w] # None, NEW k \in run[w].due,
         arisan_gathering_reminder_enqueue(w, k)
  PROVE  GatheringsInv'
<1> DEFINE j == CHOOSE j \in jobs : j.rev = k.rev /\ j.offset = k.offset
           done == [j EXCEPT !.state = "processed"]
           shorter == [run[w] EXCEPT !.due = @ \ {k}]
<1>1. j \in jobs /\ j \in Job
  BY ListedJob
<1>2. \/ /\ inbox' = inbox \cup {[who |-> m, rev |-> j.rev, offset |-> j.offset] : m \in run[w].roster}
         /\ jobs' = (jobs \ {j}) \cup {done}
      \/ UNCHANGED <<inbox, jobs>>
  BY DEF arisan_gathering_reminder_enqueue
<1>3. /\ run' = [run EXCEPT ![w].due = @ \ {k}]
      /\ UNCHANGED <<now, members, plan, saved, rsvps, panel, netVars>>
  BY DEF arisan_gathering_reminder_enqueue
<1>4. TablesInv
  BY DEF GatheringsInv
<1>5. done \in Job /\ done.state # "open" /\ done.rev = j.rev /\ done.offset = j.offset
  BY <1>1 DEF Job
<1>6. /\ run[w] \in [due : SUBSET [rev : Nat, offset : Offsets], roster : SUBSET Accounts]
      /\ run[w].due \subseteq {[rev |-> i.rev, offset |-> i.offset] : i \in jobs}
      /\ run[w].roster \subseteq Accounts
  BY <1>4 DEF TablesInv
<1>7. /\ shorter \in [due : SUBSET [rev : Nat, offset : Offsets], roster : SUBSET Accounts]
      /\ shorter.due \subseteq run[w].due /\ shorter.roster = run[w].roster
  BY <1>6
<1>8. run' = [run EXCEPT ![w] = shorter]
  BY <1>3
<1> HIDE DEF done, shorter
<1>9. RequestsInv' /\ Revision' = Revision /\ Revisions' = Revisions
  BY <1>3, OutsideRequests
<1>10. jobs' \subseteq Job /\ \A i \in jobs' : i.state = "open" => i.rev = Revision
  BY <1>2, <1>4, <1>5 DEF TablesInv
<1>11. \A i \in jobs : \E l \in jobs' : l.rev = i.rev /\ l.offset = i.offset
  BY <1>2, <1>5
<1>12. ASSUME NEW v \in Runs, run'[v] # None
       PROVE  /\ run'[v].due \subseteq {[rev |-> i.rev, offset |-> i.offset] : i \in jobs'}
              /\ run'[v].roster \subseteq Accounts
  <2>1. \/ v = w /\ run'[v] = shorter
        \/ v # w /\ run'[v] = run[v]
    BY <1>4, <1>8 DEF TablesInv
  <2>2. /\ run'[v].due \subseteq {[rev |-> i.rev, offset |-> i.offset] : i \in jobs}
        /\ run'[v].roster \subseteq Accounts
    BY <1>4, <1>6, <1>7, <1>12, <2>1 DEF TablesInv
  <2> QED BY <1>11, <2>2
<1>13. run' \in [Runs -> {None} \cup [due : SUBSET [rev : Nat, offset : Offsets], roster : SUBSET Accounts]]
  BY <1>4, <1>7, <1>8 DEF TablesInv
<1>14. inbox' \subseteq [who : Accounts, rev : Revisions, offset : {0} \cup Offsets]
  <2>1. inbox \subseteq [who : Accounts, rev : Revisions, offset : {0} \cup Offsets]
    BY <1>4 DEF TablesInv
  <2>2. \A m \in run[w].roster :
          [who |-> m, rev |-> j.rev, offset |-> j.offset] \in [who : Accounts, rev : Revisions, offset : {0} \cup Offsets]
    BY <1>1, <1>6 DEF Job
  <2> QED BY <1>2, <2>1, <2>2
<1>15. EditsAsReviewed'
  BY <1>3, <1>4, <1>9 DEF TablesInv, EditsAsReviewed
<1>16. TablesInv'
  BY <1>3, <1>4, <1>9, <1>10, <1>12, <1>13, <1>14, <1>15 DEF TablesInv, Job, Accounts
<1> QED BY <1>9, <1>16 DEF GatheringsInv

LEMMA ClockAndRoster ==
  ASSUME GatheringsInv, Tick \/ ChangeRoster
  PROVE  GatheringsInv'
<1>1. TablesInv /\ UNCHANGED <<dbVars, panel, netVars, run>> /\ plan' = plan /\ saved' = saved
  BY DEF GatheringsInv, Tick, ChangeRoster, dbVars
<1>2. now \in 0 .. MaxTime /\ Host \in members /\ members \subseteq Accounts /\ now \in Nat
  BY <1>1, Numbers DEF TablesInv
<1>3. now' \in 0 .. MaxTime /\ now <= now'
  BY <1>2, GatheringsAssumption DEF Tick, ChangeRoster
<1>4. Host \in members' /\ members' \subseteq Accounts
  BY <1>2, GatheringsAssumption DEF Tick, ChangeRoster, Accounts
<1>5. TablesInv'
  BY <1>1, <1>3, <1>4, TablesKept DEF Accounts
<1>6. RequestsInv'
  BY <1>1, OutsideRequests
<1> QED BY <1>5, <1>6 DEF GatheringsInv

-----------------------------------------------------------------------------
(* The invariant.                                                          *)

LEMMA InitInv ==
  ASSUME Init
  PROVE  GatheringsInv
<1>1. Revision = 0 /\ Revisions = {} /\ plan \in Seq(Plan)
  BY DEF Init, Revision, Revisions
<1>2. TablesInv
  BY <1>1, GatheringsAssumption DEF Init, TablesInv, EditsAsReviewed, Job, Accounts
<1>3. panel \in [Panels -> [shown : Shown, draft : Shown, mutation : Bodies \cup {None}, waiting : 0 .. sent]]
  BY DEF Init, Closed, Shown
<1>4. Known = {}
  BY DEF Init, Known, Closed
<1>5. RequestsInv
  BY <1>3, <1>4, GatheringsAssumption DEF Init, RequestsInv, Closed
<1> QED BY <1>2, <1>5 DEF GatheringsInv

LEMMA NextInv ==
  ASSUME GatheringsInv, [Next]_vars
  PROVE  GatheringsInv'
<1>1. CASE Tick \/ ChangeRoster
  BY <1>1, ClockAndRoster
<1>2. ASSUME NEW p \in Panels,
             \/ load(p) \/ edit(p) \/ cancelEdit(p) \/ retry(p) \/ rsvp(p)
             \/ \E starts \in Starts : save(p, starts)
             \/ giveUp(p) \/ unmount(p)
      PROVE  GatheringsInv'
  BY <1>2, loadStep, editStep, cancelEditStep, retryStep, rsvpStep, saveStep, giveUpStep, unmountStep
<1>3. ASSUME NEW r \in request,
             readRoom(r) \/ refuse(r) \/ arisan_gathering_save(r) \/ arisan_gathering_rsvp(r)
      PROVE  GatheringsInv'
  BY <1>3, readRoomStep, UnchangedSteps, SavesKept, arisan_gathering_rsvpStep
<1>4. ASSUME NEW w \in Runs,
             \/ arisan_gathering_due_reminders(w) \/ runRoom(w) \/ runEnds(w)
             \/ run[w] # None /\ \E k \in run[w].due : arisan_gathering_reminder_enqueue(w, k)
      PROVE  GatheringsInv'
  BY <1>4, arisan_gathering_due_remindersStep, runRoomStep, runEndsStep,
     arisan_gathering_reminder_enqueueStep
<1>5. CASE UNCHANGED vars
  <2>1. /\ UNCHANGED <<dbVars, run, panel, netVars>> /\ now' = now /\ members' = members
        /\ plan' = plan /\ saved' = saved
    BY <1>5 DEF vars, dbVars
  <2>2. TablesInv /\ now \in 0 .. MaxTime /\ Host \in members /\ members \subseteq Accounts /\ now \in Nat
    BY Numbers DEF GatheringsInv, TablesInv
  <2>3. TablesInv'
    BY <2>1, <2>2, TablesKept DEF Accounts
  <2> QED BY <2>1, <2>3, OutsideRequests DEF GatheringsInv
<1> QED BY <1>1, <1>2, <1>3, <1>4, <1>5 DEF Next

-----------------------------------------------------------------------------
(* Drafts.                                                                 *)

\* Nothing is asked for that was not asked before, panels keep or settle the
\* save they would send again, and what is saved expected the meeting as it was.
LEMMA DraftsKept ==
  ASSUME RequestsInv, DraftsInv, Revision \in Nat, Revision' \in Nat, Revision <= Revision',
         sent' = sent, \A r \in request' : \E q \in request : q.n = r.n /\ q.body = r.body,
         \A p \in Panels : panel'[p].mutation \in {None, panel[p].mutation},
         \A p \in Panels : panel'[p].waiting # 0 =>
           panel'[p].waiting = panel[p].waiting /\ panel'[p].mutation = panel[p].mutation,
         \A id \in saved' \ saved : \E b \in Known : b.id = id /\ b.rev = Revision,
         tried' \in [Panels -> SUBSET (1 .. sent)], dropped' \subseteq 1 .. sent,
         forgotten' \subseteq 1 .. sent, forgotten \subseteq forgotten',
         \A p \in Panels : \A id \in tried'[p] \ forgotten' :
           id \in tried[p] /\ (Unsettled(p, id) => Unsettled(p, id)' \/ Dead(id)'),
         \A id \in (dropped' \ dropped) \ forgotten' :
           id \notin saved' /\ \A b \in Known' : b.id = id => b.rev < Revision'
  PROVE  DraftsInv'
<1>1. Known' \subseteq Known
  BY DEF Known
<1>2. \A id : Dead(id) => Dead(id)'
  BY <1>1 DEF Dead
<1>3. \A p, q \in Panels : \A id : Unsettled(p, id)' /\ Unsettled(q, id)' => p = q
  <2>1. \A p \in Panels : \A id : Unsettled(p, id)' => Unsettled(p, id)
    BY DEF Unsettled
  <2> QED BY <2>1 DEF DraftsInv
<1>4. ASSUME NEW p \in Panels, NEW r \in request', panel'[p].waiting = r.n, r.body.id # 0
      PROVE  panel'[p].mutation = r.body
  <2>1. PICK q \in request : q.n = r.n /\ q.body = r.body
    OBVIOUS
  <2>2. q.n # 0
    BY DEF RequestsInv
  <2>3. panel[p].waiting = q.n /\ panel'[p].mutation = panel[p].mutation
    BY <1>4, <2>1, <2>2
  <2> QED BY <1>4, <2>1, <2>3 DEF DraftsInv
<1>5. ASSUME NEW p \in Panels, NEW id \in tried'[p] \ forgotten'
      PROVE  Unsettled(p, id)' \/ Dead(id)'
  <2>1. id \in tried[p] \ forgotten /\ (Unsettled(p, id) => Unsettled(p, id)' \/ Dead(id)')
    OBVIOUS
  <2>2. Unsettled(p, id) \/ Dead(id)
    BY <2>1 DEF DraftsInv
  <2> QED BY <1>2, <2>1, <2>2
<1>6. ASSUME NEW id \in dropped' \ forgotten'
      PROVE  id \notin saved' /\ \A b \in Known' : b.id = id => b.rev < Revision'
  <2>1. CASE id \notin dropped
    BY <2>1
  <2>2. CASE id \in dropped
    <3>1. id \notin saved /\ \A b \in Known : b.id = id => b.rev < Revision
      BY <2>2 DEF DraftsInv
    <3>2. \A b \in Known : b.rev \in Nat
      BY DEF RequestsInv, BodyOK, Bodies
    <3> QED BY <1>1, <3>1, <3>2
  <2> QED BY <2>1, <2>2
<1> QED BY <1>3, <1>4, <1>5, <1>6 DEF DraftsInv

\* A panel that asks for nothing keeps its attempts, or has none any more.
LEMMA PanelDrafts ==
  ASSUME GatheringsInv, DraftsInv, NEW p \in Panels, NEW view,
         panel' = [panel EXCEPT ![p] = view],
         \/ view.mutation = panel[p].mutation /\ view.waiting \in {0, panel[p].waiting} /\ tried' = tried
         \/ view.mutation = None /\ view.waiting = 0 /\ tried' = [tried EXCEPT ![p] = {}],
         UNCHANGED <<dbVars, netVars, dropped, forgotten>>
  PROVE  DraftsInv'
<1>1. RequestsInv /\ Revision \in Nat /\ panel \in [Panels -> View]
  BY Views DEF GatheringsInv
<1>2. plan' = plan /\ saved' = saved /\ sent' = sent /\ request' = request
  BY DEF dbVars, netVars
<1>3. Revision' = Revision
  BY <1>2 DEF Revision
<1>4. tried \in [Panels -> SUBSET (1 .. sent)] /\ dropped \subseteq 1 .. sent /\ forgotten \subseteq 1 .. sent
  BY DEF DraftsInv
<1>5. panel'[p] = view /\ \A q \in Panels \ {p} : panel'[q] = panel[q]
  BY <1>1
<1>6. \A q \in Panels : panel'[q].mutation \in {None, panel[q].mutation}
  BY <1>5
<1>7. \A q \in Panels : panel'[q].waiting # 0 =>
        panel'[q].waiting = panel[q].waiting /\ panel'[q].mutation = panel[q].mutation
  BY <1>5
<1>8. tried' \in [Panels -> SUBSET (1 .. sent)]
  BY <1>4
<1>9. ASSUME NEW q \in Panels, NEW id \in tried'[q] \ forgotten'
      PROVE  id \in tried[q] /\ (Unsettled(q, id) => Unsettled(q, id)')
  <2>1. tried'[q] = tried[q] \/ tried'[q] = {}
    BY <1>4
  <2>2. panel'[q].mutation = panel[q].mutation
    BY <1>4, <1>5, <1>9
  <2> QED BY <2>1, <2>2 DEF Unsettled
<1>10. \A r \in request' : \E q \in request : q.n = r.n /\ q.body = r.body
  BY <1>2
<1> QED BY <1>1, <1>2, <1>3, <1>4, <1>6, <1>7, <1>8, <1>9, <1>10, DraftsKept

\* No panel hears anything and nothing is saved.
LEMMA DraftsRest ==
  ASSUME GatheringsInv, DraftsInv, UNCHANGED <<plan, saved, panel, sent, historyVars>>,
         \A r \in request' : \E q \in request : q.n = r.n /\ q.body = r.body
  PROVE  DraftsInv'
<1>1. RequestsInv /\ Revision \in Nat /\ Revision' = Revision
  BY Views DEF GatheringsInv, Revision
<1>2. tried' = tried /\ dropped' = dropped /\ forgotten' = forgotten
  BY DEF historyVars
<1>3. \A p \in Panels : \A id : Unsettled(p, id) => Unsettled(p, id)'
  BY DEF Unsettled
<1>4. tried \in [Panels -> SUBSET (1 .. sent)] /\ dropped \subseteq 1 .. sent /\ forgotten \subseteq 1 .. sent
  BY DEF DraftsInv
<1> QED BY <1>1, <1>2, <1>3, <1>4, DraftsKept

\* A request with a new number, for a new draft, an attempt repeated, or an answer.
LEMMA SendDrafts ==
  ASSUME GatheringsInv, DraftsInv, NEW p \in Panels, NEW mutation, NEW body,
         Send(p, [panel[p] EXCEPT !.mutation = mutation], body),
         \/ /\ panel[p].mutation = None /\ mutation = body /\ body # None /\ body.id = sent + 1
            /\ tried' = [tried EXCEPT ![p] = @ \cup {body.id}]
         \/ /\ body = mutation \/ body.id = 0
            /\ body.id = 0 \/ body \in Known
            /\ mutation = panel[p].mutation /\ tried' = tried
  PROVE  DraftsInv'
<1>1. RequestsInv /\ panel \in [Panels -> View] /\ sent \in Nat
  BY Views DEF GatheringsInv, RequestsInv
<1> DEFINE new == [n |-> sent + 1, who |-> Viewer[p], body |-> body, roster |-> {}]
           view == [panel[p] EXCEPT !.mutation = mutation, !.waiting = sent + 1]
<1>2. /\ sent' = sent + 1 /\ request' = request \cup {new}
      /\ panel' = [panel EXCEPT ![p] = view]
      /\ saved' = saved /\ plan' = plan /\ dropped' = dropped /\ forgotten' = forgotten
  <2>1. [[panel[p] EXCEPT !.mutation = mutation] EXCEPT !.waiting = sent + 1] = view
    BY <1>1 DEF View
  <2> QED BY <2>1 DEF Send, dbVars
<1>3. /\ panel'[p] = view /\ view.mutation = mutation /\ view.waiting = sent + 1
      /\ \A q \in Panels \ {p} : panel'[q] = panel[q]
  BY <1>1, <1>2 DEF View
<1>4. new.n = sent + 1 /\ new.body = body
  OBVIOUS
<1> HIDE DEF new, view
<1>5. Known' \subseteq Known \cup {body}
  <2>1. \A r \in request' : r.body \in Known \cup {body}
    BY <1>2, <1>4 DEF Known
  <2>2. panel'[p].mutation # None => panel'[p].mutation \in Known \cup {body}
    BY <1>3 DEF Known
  <2>3. \A q \in Panels \ {p} : panel'[q].mutation # None => panel'[q].mutation \in Known \cup {body}
    BY <1>3 DEF Known
  <2> QED BY <2>1, <2>2, <2>3 DEF Known
<1>6. /\ tried \in [Panels -> SUBSET (1 .. sent)] /\ dropped \subseteq 1 .. sent /\ forgotten \subseteq 1 .. sent
      /\ 1 .. sent \subseteq 1 .. sent' /\ sent + 1 \in 1 .. sent'
  BY <1>1, <1>2 DEF DraftsInv
<1>7. \A id \in 1 .. sent : body.id = id => body \in Known
  BY <1>1
<1>8. tried' \in [Panels -> SUBSET (1 .. sent')]
  BY <1>6
<1>9. \A q \in Panels : \A id : Unsettled(q, id) => id # sent + 1
  BY <1>1, KnownBodies DEF Unsettled, BodyOK, Bodies, Ids
<1>10. ASSUME NEW q \in Panels, NEW s \in Panels, NEW id, Unsettled(q, id)', Unsettled(s, id)'
       PROVE  q = s
  <2>1. \A u \in Panels \ {p} : Unsettled(u, id)' => Unsettled(u, id)
    BY <1>3 DEF Unsettled
  <2>2. Unsettled(p, id)' => id = sent + 1 \/ Unsettled(p, id)
    BY <1>3 DEF Unsettled
  <2> QED BY <1>9, <1>10, <2>1, <2>2 DEF DraftsInv
<1>11. ASSUME NEW q \in Panels, NEW r \in request', panel'[q].waiting = r.n, r.body.id # 0
       PROVE  panel'[q].mutation = r.body
  <2>1. \A s \in request : s.n # sent + 1
    BY <1>1 DEF RequestsInv
  <2>2. CASE q = p
    <3>1. r = new
      BY <1>2, <1>3, <1>11, <2>1, <2>2
    <3> QED BY <1>3, <1>4, <1>11, <2>2, <3>1
  <2>3. CASE q # p
    <3>1. panel'[q] = panel[q] /\ panel[q].waiting # sent + 1
      BY <1>1, <1>3, <2>3 DEF View
    <3>2. r \in request
      BY <1>2, <1>4, <1>11, <3>1
    <3> QED BY <1>11, <3>1, <3>2 DEF DraftsInv
  <2> QED BY <2>2, <2>3
<1>12. \A id \in 1 .. sent : Dead(id) => Dead(id)'
  BY <1>2, <1>5, <1>7 DEF Dead
<1>13. ASSUME NEW q \in Panels, NEW id \in tried'[q] \ forgotten'
       PROVE  Unsettled(q, id)' \/ Dead(id)'
  <2>1. CASE id \notin tried[q]
    <3>1. q = p /\ mutation = body /\ body # None /\ id = body.id
      BY <1>6, <2>1
    <3> QED BY <1>3, <3>1 DEF Unsettled
  <2>2. CASE id \in tried[q]
    <3>1. id \in 1 .. sent /\ (Unsettled(q, id) \/ Dead(id))
      BY <1>2, <1>6, <2>2 DEF DraftsInv
    <3>2. Unsettled(q, id) => Unsettled(q, id)'
      BY <1>3 DEF Unsettled
    <3> QED BY <1>12, <3>1, <3>2
  <2> QED BY <2>1, <2>2
<1>14. ASSUME NEW id \in dropped' \ forgotten'
       PROVE  id \notin saved' /\ \A b \in Known' : b.id = id => b.rev < Revision'
  <2>1. id \in 1 .. sent /\ id \notin saved /\ \A b \in Known : b.id = id => b.rev < Revision
    BY <1>2, <1>6 DEF DraftsInv
  <2>2. Revision' = Revision
    BY <1>2 DEF Revision
  <2> QED BY <1>2, <1>5, <1>7, <2>1, <2>2
<1> QED BY <1>2, <1>6, <1>8, <1>10, <1>11, <1>13, <1>14 DEF DraftsInv

LEMMA SavesAreBodies ==
  ASSUME GatheringsInv, NEW b \in Known, b.id # 0
  PROVE  b # None
<1>1. BodyOK(b) /\ Revision \in Nat
  BY Views DEF GatheringsInv, RequestsInv
<1>2. b \in [id : Nat, rev : Nat, starts : Starts, seen : Nat]
  BY <1>1 DEF BodyOK, Bodies, Ids
<1> QED BY <1>2, GatheringsAssumption

\* The outcome of an answer for the attempts of the draft it is about.
LEMMA ToldDrafts ==
  ASSUME GatheringsInv, DraftsInv, NEW r \in request, NEW p \in Panels,
         NEW a \in {"ok", "conflict", "invalid", "unavailable"},
         AnsweredPanel(p, r, a), request' = request \ {r}, sent' = sent,
         Revision' \in Nat, Revision <= Revision',
         \A id \in saved' \ saved : \E b \in Known : b.id = id /\ b.rev = Revision,
         a = "invalid" => saved' = saved,
         a = "conflict" /\ r.body.id # 0 => r.body.id \notin saved' /\ r.body.rev < Revision'
  PROVE  DraftsInv'
<1>1. RequestsInv /\ Revision \in Nat /\ panel \in [Panels -> View]
  BY Views DEF GatheringsInv
<1>2. /\ tried \in [Panels -> SUBSET (1 .. sent)] /\ dropped \subseteq 1 .. sent /\ forgotten \subseteq 1 .. sent
      /\ panel[p].waiting = r.n
  BY DEF DraftsInv, AnsweredPanel
<1>3. PICK view \in View' :
        /\ panel' = [panel EXCEPT ![p] = view] /\ view.waiting = 0
        /\ view.mutation = IF r.body.id = 0 \/ a = "unavailable" THEN panel[p].mutation ELSE None
  BY DEF AnsweredPanel
<1>4. panel'[p] = view /\ \A q \in Panels \ {p} : panel'[q] = panel[q]
  BY <1>1, <1>3
<1>5. \A q \in Panels : panel'[q].mutation \in {None, panel[q].mutation}
  BY <1>3, <1>4
<1>6. \A q \in Panels : panel'[q].waiting # 0 =>
        panel'[q].waiting = panel[q].waiting /\ panel'[q].mutation = panel[q].mutation
  BY <1>3, <1>4
<1>7. \A s \in request' : \E q \in request : q.n = s.n /\ q.body = s.body
  OBVIOUS
<1>8. \A q \in Panels \ {p} : \A id : Unsettled(q, id) => Unsettled(q, id)'
  BY <1>4 DEF Unsettled
<1>9. Known' \subseteq Known
  BY <1>5 DEF Known
<1>10. r.body \in Known /\ r.body.id \in Nat /\ r.body.id <= sent /\ sent \in Nat
  BY <1>1, KnownBodies DEF BodyOK, Bodies, Ids, RequestsInv
<1>11. CASE r.body.id = 0 \/ a = "unavailable"
  <2>1. tried' = tried /\ dropped' = dropped /\ forgotten' = forgotten
    BY <1>11 DEF AnsweredPanel, Told, historyVars
  <2>2. \A id : Unsettled(p, id) => Unsettled(p, id)'
    BY <1>3, <1>4, <1>11 DEF Unsettled
  <2> QED BY <1>1, <1>2, <1>5, <1>6, <1>7, <1>8, <2>1, <2>2, DraftsKept
<1>12. CASE r.body.id # 0 /\ a # "unavailable"
  <2>1. Told(p, r, a) /\ panel[p].mutation = r.body
    BY <1>2, <1>12 DEF AnsweredPanel, DraftsInv
  <2>2. \A id : Unsettled(p, id) => id = r.body.id
    BY <2>1 DEF Unsettled
  <2>3. CASE a = "invalid"
    <3>1. /\ tried' = tried /\ dropped' = dropped
          /\ forgotten' = IF InDoubt(r) THEN forgotten \cup {r.body.id} ELSE forgotten
      BY <2>1, <2>3 DEF Told
    <3>2. r.body.id \in forgotten' \/ Dead(r.body.id)'
      <4>1. SUFFICES ASSUME ~InDoubt(r)
                     PROVE  Dead(r.body.id)'
        BY <3>1
      <4>2. r.body.id \notin saved' /\ \A q \in request' : q.body.id # r.body.id
        BY <2>3, <4>1 DEF InDoubt
      <4>3. panel'[p].mutation = None
        BY <1>3, <1>4, <1>12
      <4>4. Unsettled(p, r.body.id)
        BY <1>10, <1>12, <2>1, SavesAreBodies DEF Unsettled
      <4>5. \A q \in Panels \ {p} : panel'[q].mutation # None => panel'[q].mutation.id # r.body.id
        BY <1>4, <4>4, <2>1 DEF DraftsInv, Unsettled
      <4> QED BY <4>2, <4>3, <4>5 DEF Dead, Known
    <3>3. \A q \in Panels : \A id \in tried'[q] \ forgotten' :
            id \in tried[q] /\ (Unsettled(q, id) => Unsettled(q, id)' \/ Dead(id)')
      BY <1>8, <2>2, <3>1, <3>2
    <3>4. forgotten' \subseteq 1 .. sent /\ forgotten \subseteq forgotten'
      <4>1. r.body.id \in 1 .. sent
        BY <1>10, <1>12
      <4> QED BY <1>2, <3>1, <4>1
    <3> QED BY <1>1, <1>2, <1>5, <1>6, <1>7, <3>1, <3>3, <3>4, DraftsKept
  <2>4. CASE a # "invalid"
    <3>1. /\ tried' = IF a \in {"ok", "conflict"} THEN [tried EXCEPT ![p] = {}] ELSE tried
          /\ dropped' = IF a = "conflict" THEN dropped \cup tried[p] ELSE dropped
          /\ forgotten' = forgotten
      BY <2>1, <2>4 DEF Told
    <3>2. tried' = [tried EXCEPT ![p] = {}]
      BY <1>12, <2>4, <3>1
    <3>3. tried' \in [Panels -> SUBSET (1 .. sent)] /\ dropped' \subseteq 1 .. sent
      BY <1>2, <3>1, <3>2
    <3>4. \A q \in Panels : \A id \in tried'[q] \ forgotten' :
            id \in tried[q] /\ (Unsettled(q, id) => Unsettled(q, id)')
      BY <1>2, <1>8, <3>2
    <3>5. ASSUME NEW id \in (dropped' \ dropped) \ forgotten'
          PROVE  id \notin saved' /\ \A b \in Known' : b.id = id => b.rev < Revision'
      <4>1. a = "conflict" /\ id \in tried[p] \ forgotten
        BY <3>1
      <4>2. CASE Unsettled(p, id)
        <5>1. id = r.body.id /\ \A b \in Known : b.id = id => b = r.body
          BY <1>1, <1>10, <1>12, <2>2, <4>2 DEF RequestsInv
        <5> QED BY <1>9, <1>12, <4>1, <5>1
      <4>3. CASE Dead(id)
        BY <1>9, <4>3 DEF Dead
      <4> QED BY <4>1, <4>2, <4>3 DEF DraftsInv
    <3> QED BY <1>1, <1>2, <1>5, <1>6, <1>7, <3>1, <3>3, <3>4, <3>5, DraftsKept
  <2> QED BY <2>3, <2>4
<1> QED BY <1>11, <1>12

LEMMA AnswerDrafts ==
  ASSUME GatheringsInv, DraftsInv, NEW r \in request, Revision' \in Nat, Revision <= Revision',
         NEW answer \in {"ok", "conflict", "invalid", "unavailable"}, Answer(r, answer),
         saved' = saved \/ (answer = "ok" /\ saved' = saved \cup {r.body.id} /\ Expected(r.body)),
         answer = "conflict" /\ r.body.id # 0 => r.body.id \notin saved' /\ r.body.rev < Revision'
  PROVE  DraftsInv'
<1>1. /\ request' = request \ {r} /\ sent' = sent
      /\ \/ \E p \in Panels, a \in {answer, "unavailable"} : AnsweredPanel(p, r, a)
         \/ UNCHANGED <<panel, historyVars>>
  BY Answered
<1>2. RequestsInv /\ Revision \in Nat /\ r.body \in Known
  BY Views, KnownBodies DEF GatheringsInv
<1>3. \A id \in saved' \ saved : \E b \in Known : b.id = id /\ b.rev = Revision
  BY <1>2 DEF Expected
<1>4. CASE \E p \in Panels, a \in {answer, "unavailable"} : AnsweredPanel(p, r, a)
  <2>1. PICK p \in Panels, a \in {answer, "unavailable"} : AnsweredPanel(p, r, a)
    BY <1>4
  <2>2. /\ a \in {"ok", "conflict", "invalid", "unavailable"}
        /\ a = "invalid" => saved' = saved
        /\ a = "conflict" /\ r.body.id # 0 => r.body.id \notin saved' /\ r.body.rev < Revision'
    BY <2>1
  <2> QED BY <1>1, <1>3, <2>1, <2>2, ToldDrafts
<1>5. CASE UNCHANGED <<panel, historyVars>>
  <2>1. tried' = tried /\ dropped' = dropped /\ forgotten' = forgotten
    BY <1>5 DEF historyVars
  <2>2. tried \in [Panels -> SUBSET (1 .. sent)] /\ dropped \subseteq 1 .. sent /\ forgotten \subseteq 1 .. sent
    BY DEF DraftsInv
  <2>3. \A p \in Panels : \A id : Unsettled(p, id) => Unsettled(p, id)'
    BY <1>5 DEF Unsettled
  <2>4. \A s \in request' : \E q \in request : q.n = s.n /\ q.body = s.body
    BY <1>1
  <2> QED BY <1>1, <1>2, <1>3, <1>5, <2>1, <2>2, <2>3, <2>4, DraftsKept
<1> QED BY <1>1, <1>4, <1>5

LEMMA InitDrafts ==
  ASSUME Init
  PROVE  DraftsInv
BY DEF Init, DraftsInv, Unsettled, Closed

\* What a panel does.
LEMMA PanelsDrafts ==
  ASSUME GatheringsInv, DraftsInv, NEW p \in Panels,
         \/ load(p) \/ edit(p) \/ cancelEdit(p) \/ retry(p) \/ rsvp(p)
         \/ \E starts \in Starts : save(p, starts)
         \/ giveUp(p) \/ unmount(p)
  PROVE  DraftsInv'
<1>1. RequestsInv /\ panel \in [Panels -> View] /\ Revision \in Nat
  BY Views DEF GatheringsInv
<1>2. panel[p] \in View
  BY <1>1
<1>3. CASE load(p)
  <2>1. PICK shown : panel' = [panel EXCEPT ![p] = [panel[p] EXCEPT !.shown = shown]]
    BY <1>3 DEF load, Loaded
  <2> DEFINE view == [panel[p] EXCEPT !.shown = shown]
  <2>2. view.mutation = panel[p].mutation /\ view.waiting = panel[p].waiting
    BY <1>2 DEF View
  <2> HIDE DEF view
  <2>3. panel' = [panel EXCEPT ![p] = view]
    BY <2>1 DEF view
  <2> QED BY <1>3, <2>2, <2>3, PanelDrafts DEF load, historyVars
<1>4. CASE edit(p)
  <2> DEFINE view == [panel[p] EXCEPT !.draft = panel[p].shown]
  <2>1. view.mutation = panel[p].mutation /\ view.waiting = panel[p].waiting
    BY <1>2 DEF View
  <2>2. panel' = [panel EXCEPT ![p] = view]
    BY <1>4 DEF edit
  <2> HIDE DEF view
  <2> QED BY <1>4, <2>1, <2>2, PanelDrafts DEF edit, historyVars
<1>5. CASE cancelEdit(p)
  <2> DEFINE view == [panel[p] EXCEPT !.draft = None]
  <2>1. view.mutation = None /\ view.waiting = 0
    BY <1>2, <1>5 DEF View, cancelEdit
  <2>2. panel' = [panel EXCEPT ![p] = view]
    BY <1>5 DEF cancelEdit
  <2> HIDE DEF view
  <2> QED BY <1>5, <2>1, <2>2, PanelDrafts DEF cancelEdit
<1>6. CASE giveUp(p)
  <2> DEFINE view == [panel[p] EXCEPT !.waiting = 0]
  <2>1. view.mutation = panel[p].mutation /\ view.waiting = 0
    BY <1>2 DEF View
  <2>2. panel' = [panel EXCEPT ![p] = view]
    BY <1>6 DEF giveUp
  <2> HIDE DEF view
  <2> QED BY <1>6, <2>1, <2>2, PanelDrafts DEF giveUp, historyVars
<1>7. CASE unmount(p)
  BY <1>7, PanelDrafts DEF unmount, Closed
<1>8. CASE retry(p)
  <2> DEFINE body == panel[p].mutation
  <2>1. body # None /\ Send(p, panel[p], body) /\ tried' = tried
    BY <1>8 DEF retry
  <2>2. body \in Known
    BY <2>1 DEF Known
  <2>3. panel[p] = [panel[p] EXCEPT !.mutation = body]
    BY <1>2 DEF View
  <2>4. Send(p, [panel[p] EXCEPT !.mutation = body], body)
    BY <2>1, <2>3
  <2> QED BY <2>1, <2>2, <2>4, SendDrafts
<1>9. CASE rsvp(p)
  <2> DEFINE body == [id |-> 0, rev |-> panel[p].shown, starts |-> None, seen |-> panel[p].shown]
  <2>1. Send(p, panel[p], body) /\ tried' = tried
    BY <1>9 DEF rsvp
  <2>2. panel[p] = [panel[p] EXCEPT !.mutation = panel[p].mutation]
    BY <1>2 DEF View
  <2>3. body.id = 0
    OBVIOUS
  <2> HIDE DEF body
  <2>4. Send(p, [panel[p] EXCEPT !.mutation = panel[p].mutation], body)
    BY <2>1, <2>2
  <2> QED BY <2>1, <2>3, <2>4, SendDrafts
<1>10. ASSUME NEW starts \in Starts, save(p, starts)
       PROVE  DraftsInv'
  <2> DEFINE body == [id |-> sent + 1, rev |-> panel[p].draft, starts |-> starts, seen |-> panel[p].draft]
  <2>1. /\ panel[p].draft # None /\ panel[p].mutation = None
        /\ Send(p, [panel[p] EXCEPT !.mutation = body], body)
        /\ tried' = [tried EXCEPT ![p] = @ \cup {body.id}]
    BY <1>10 DEF save, draftRevision
  <2>2. panel[p].draft \in Nat /\ sent + 1 \in Nat
    BY <1>1, <1>2, <2>1 DEF View, Shown, RequestsInv
  <2>3. body # None /\ body.id = sent + 1
    BY <2>2, GatheringsAssumption
  <2> HIDE DEF body
  <2> QED BY <2>1, <2>3, SendDrafts
<1> QED BY <1>3, <1>4, <1>5, <1>6, <1>7, <1>8, <1>9, <1>10

LEMMA RequestsDrafts ==
  ASSUME GatheringsInv, GatheringsInv', DraftsInv, NEW r \in request,
         readRoom(r) \/ refuse(r) \/ arisan_gathering_save(r) \/ arisan_gathering_rsvp(r)
  PROVE  DraftsInv'
<1>1. r.body \in Known /\ BodyOK(r.body) /\ Revision \in Nat
  BY Views, KnownBodies DEF GatheringsInv
<1>2. Revision' \in Nat /\ plan \in Seq(Plan)
  <2>1. plan' \in Seq(Plan') /\ plan \in Seq(Plan)
    BY DEF GatheringsInv, TablesInv
  <2> QED BY <2>1 DEF Revision
<1>3. plan' = plan => Revision' = Revision /\ Revision <= Revision'
  BY <1>1 DEF Revision
<1>4. CASE readRoom(r)
  <2>1. \A q \in request' : \E s \in request : s.n = q.n /\ s.body = q.body
    <3>1. r \in [n : 1 .. sent, who : Accounts, body : Bodies, roster : SUBSET Accounts]
      BY DEF GatheringsInv, RequestsInv
    <3>2. [r EXCEPT !.roster = members].n = r.n /\ [r EXCEPT !.roster = members].body = r.body
      BY <3>1
    <3> QED BY <1>4, <3>2 DEF readRoom
  <2> QED BY <1>4, <2>1, DraftsRest DEF readRoom, dbVars
<1>5. CASE refuse(r)
  BY <1>2, <1>3, <1>5, AnswerDrafts DEF refuse, dbVars
<1>6. CASE arisan_gathering_rsvp(r)
  <2>1. r.body.id = 0 /\ plan' = plan /\ saved' = saved /\ \E a \in {"ok", "conflict"} : Answer(r, a)
    BY <1>6 DEF arisan_gathering_rsvp
  <2> QED BY <1>2, <1>3, <2>1, AnswerDrafts
<1>7. CASE replaySave(r) \/ tooSoonSave(r) \/ pastSave(r)
  BY <1>2, <1>3, <1>7, AnswerDrafts DEF replaySave, tooSoonSave, pastSave, dbVars
<1>8. CASE conflictSave(r)
  <2>1. /\ Answer(r, "conflict") /\ plan' = plan /\ saved' = saved
        /\ r.body.id \notin saved /\ r.body.rev # Revision
    BY <1>8 DEF conflictSave, Replayed, Expected, dbVars
  <2>2. r.body.rev < Revision
    BY <1>1, <2>1 DEF BodyOK, Bodies
  <2> QED BY <1>2, <1>3, <2>1, <2>2, AnswerDrafts
<1>9. CASE sameSave(r)
  BY <1>2, <1>3, <1>9, AnswerDrafts DEF sameSave
<1>10. CASE reviseSave(r)
  <2>1. /\ Answer(r, "ok") /\ saved' = saved \cup {r.body.id} /\ Expected(r.body)
        /\ \E e : plan' = Append(plan, e)
    BY <1>10 DEF reviseSave, Revises
  <2>2. Revision <= Revision'
    BY <1>2, <2>1 DEF Revision
  <2> QED BY <1>2, <2>1, <2>2, AnswerDrafts
<1> QED BY <1>4, <1>5, <1>6, <1>7, <1>8, <1>9, <1>10 DEF arisan_gathering_save

LEMMA NextDrafts ==
  ASSUME GatheringsInv, DraftsInv, [Next]_vars
  PROVE  DraftsInv'
<1>1. GatheringsInv'
  BY NextInv
<1>2. ASSUME UNCHANGED <<plan, saved, panel, netVars, historyVars>>
      PROVE  DraftsInv'
  BY <1>2, DraftsRest DEF netVars
<1>3. CASE Tick \/ ChangeRoster
  BY <1>2, <1>3 DEF Tick, ChangeRoster, dbVars
<1>4. ASSUME NEW w \in Runs,
             \/ arisan_gathering_due_reminders(w) \/ runRoom(w) \/ runEnds(w)
             \/ run[w] # None /\ \E k \in run[w].due : arisan_gathering_reminder_enqueue(w, k)
      PROVE  DraftsInv'
  BY <1>2, <1>4 DEF arisan_gathering_due_reminders, runRoom, runEnds,
     arisan_gathering_reminder_enqueue, dbVars
<1>5. CASE UNCHANGED vars
  BY <1>2, <1>5 DEF vars, dbVars
<1> QED BY <1>1, <1>3, <1>4, <1>5, PanelsDrafts, RequestsDrafts DEF Next

LEMMA InvHolds == Spec => [](GatheringsInv /\ DraftsInv)
<1>1. Init => GatheringsInv /\ DraftsInv
  BY InitInv, InitDrafts
<1>2. GatheringsInv /\ DraftsInv /\ [Next]_vars => (GatheringsInv /\ DraftsInv)'
  BY NextInv, NextDrafts
<1> QED BY <1>1, <1>2, PTL DEF Spec

\* Everything has its type, only the current revision has open reminders, and
\* whoever a panel waits for is at work on its request.
THEOREM GatheringsTyped == Spec => []TypeOK
<1>1. GatheringsInv /\ DraftsInv => TypeOK
  BY InvImpliesType
<1> QED BY <1>1, InvHolds, PTL

\* However late or often a save arrives, it makes one revision at most, and
\* only of the meeting its author saw; answers count for the meeting seen.
THEOREM NoEditLost == Spec => []EditsAsReviewed
<1>1. GatheringsInv => EditsAsReviewed
  BY DEF GatheringsInv, TablesInv
<1> QED BY <1>1, InvHolds, PTL

\* No attempt for a draft that its host lost on a conflict was saved, or ever
\* will be, but for those that a panel forgot while they could still be.
THEOREM ConflictIsFinal == Spec => []ConflictMeansUnsaved
<1>1. DraftsInv => ConflictMeansUnsaved
  BY DEF DraftsInv, ConflictMeansUnsaved
<1> QED BY <1>1, InvHolds, PTL

-----------------------------------------------------------------------------
(* Reminders.                                                              *)

LEMMA ReminderStep ==
  ASSUME GatheringsInv, [Next]_vars, NEW n \in inbox' \ inbox, n.offset # 0
  PROVE  n.rev = Revision /\ Future(Current.starts) /\ Current.starts - n.offset <= now
<1>1. \/ UNCHANGED inbox
      \/ \E r \in request : reviseSave(r)
      \/ \E w \in Runs : \E k \in run[w].due : arisan_gathering_reminder_enqueue(w, k)
  <2>1. ASSUME NEW p \in Panels,
               \/ load(p) \/ edit(p) \/ cancelEdit(p) \/ retry(p) \/ rsvp(p)
               \/ \E starts \in Starts : save(p, starts)
               \/ giveUp(p) \/ unmount(p)
        PROVE  UNCHANGED inbox
    BY <2>1 DEF load, edit, cancelEdit, retry, rsvp, save, giveUp, unmount, Send, dbVars
  <2>2. ASSUME NEW r \in request,
               readRoom(r) \/ refuse(r) \/ arisan_gathering_save(r) \/ arisan_gathering_rsvp(r)
        PROVE  UNCHANGED inbox \/ reviseSave(r)
    <3>1. CASE readRoom(r) \/ refuse(r)
      BY <3>1 DEF readRoom, refuse, dbVars
    <3>2. CASE arisan_gathering_save(r)
      BY <3>2 DEF arisan_gathering_save, replaySave, conflictSave, sameSave, tooSoonSave, pastSave, dbVars
    <3>3. CASE arisan_gathering_rsvp(r)
      BY <3>3 DEF arisan_gathering_rsvp
    <3> QED BY <2>2, <3>1, <3>2, <3>3
  <2>3. ASSUME NEW w \in Runs, arisan_gathering_due_reminders(w) \/ runRoom(w) \/ runEnds(w)
        PROVE  UNCHANGED inbox
    BY <2>3 DEF arisan_gathering_due_reminders, runRoom, runEnds, dbVars
  <2>4. Tick \/ ChangeRoster \/ UNCHANGED vars => UNCHANGED inbox
    BY DEF Tick, ChangeRoster, vars, dbVars
  <2> QED BY <2>1, <2>2, <2>3, <2>4 DEF Next
<1>2. ASSUME NEW r \in request, reviseSave(r)
      PROVE  FALSE
  BY <1>2 DEF reviseSave
<1>3. ASSUME NEW w \in Runs, NEW k \in run[w].due, arisan_gathering_reminder_enqueue(w, k)
      PROVE  n.rev = Revision /\ Future(Current.starts) /\ Current.starts - n.offset <= now
  <2> DEFINE j == CHOOSE j \in jobs : j.rev = k.rev /\ j.offset = k.offset
  <2>1. Due(j) /\ n \in {[who |-> m, rev |-> j.rev, offset |-> j.offset] : m \in run[w].roster}
    BY <1>3 DEF arisan_gathering_reminder_enqueue, StillDue
  <2> HIDE DEF j
  <2> QED BY <2>1 DEF Due
<1> QED BY <1>1, <1>2, <1>3

\* No run, however late, reminds anybody of a meeting that has been changed, or
\* that has begun.
THEOREM NoStaleReminder == Spec => RemindersCurrent
<1> DEFINE A == \A n \in inbox' \ inbox : n.offset # 0 =>
                  /\ n.rev = Revision /\ Future(Current.starts)
                  /\ Current.starts - n.offset <= now
<1>1. GatheringsInv /\ [Next]_vars => A
  BY ReminderStep
<1>2. GatheringsInv /\ [Next]_vars => [A]_vars
  BY <1>1
<1> QED BY <1>2, InvHolds, PTL DEF Spec, RemindersCurrent
=============================================================================
