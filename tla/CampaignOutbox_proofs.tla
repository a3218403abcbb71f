------------------------ MODULE CampaignOutbox_proofs ------------------------
(***************************************************************************)
(* Proofs about CampaignOutbox, for any subscribers, request ids,          *)
(* dispatches and times.  Two invariants that share nothing but the        *)
(* updates: Delivery, of the outbox, the dispatches and the provider, and  *)
(* Publishing, of the organizer's tab and its calls.                       *)
(***************************************************************************)
EXTENDS CampaignOutbox, FiniteSetTheorems, TLAPS

-----------------------------------------------------------------------------
(* Delivery.                                                               *)

Statuses == {"absent", "pending", "inflight", "unknown", "accepted", "rejected", "cancelled", "needs_review"}
RowType == [status : Statuses, email : Nat, first : Nat \cup {None}, retry : Int,
            token : Runs \cup {None}, until : Int]
Places == {"new", "next", "check", "account", "send", "accepted", "unknown", "rejected", "cancelled"}
RunType == [pc : Places, queue : SUBSET Rows, row : Rows \cup {None}, since : Nat]

DeliveryTyped ==
  /\ now \in Nat /\ now <= MaxTime
  /\ account \in [People -> Nat]
  /\ sub \in [People -> [active : BOOLEAN, email : Nat]]
  /\ outbox \in [Rows -> RowType]
  /\ run \in [Runs -> RunType]
  /\ provider \in [Rows -> Nat \cup {None}] /\ mails \in [Rows -> Nat]

\* A row's first attempt is older than what the provider remembers of it.
RowOK(m) ==
  LET o == outbox[m] IN
  /\ o.status = "inflight" <=> o.token # None
  /\ m[1] \notin Published => o.status = "absent"
  /\ o.status = "absent" => o = NoRow
  /\ o.status = "pending" => o.first = None
  /\ o.status = "accepted" => mails[m] > 0
  /\ o.first # None => o.first <= now
  /\ provider[m] # None => o.first # None /\ o.first <= provider[m]
  /\ provider[m] = None <=> mails[m] = 0

\* A claimed row has its first attempt; a request that may go out was let
\* through within the window.
Attempted(m) == outbox[m].first # None
InWindow(m, t) == t < outbox[m].first + WINDOW
RunOK(w) ==
  LET x == run[w] IN
  /\ \A m \in x.queue : Attempted(m)
  /\ x.pc \notin {"new", "next"} => x.row \in Rows /\ Attempted(x.row)
  /\ x.pc \in {"check", "account", "send"} => InWindow(x.row, x.since)
  /\ x.pc = "accepted" => mails[x.row] > 0

Delivery ==
  /\ DeliveryTyped
  /\ \A m \in Rows : RowOK(m)
  /\ \A w \in Runs : RunOK(w)

LEMMA ConstantsTyped ==
  /\ MaxTime \in Nat /\ LEASE \in Nat /\ PAUSE \in Nat /\ STALL \in Nat
  /\ WINDOW \in Nat /\ RETENTION \in Nat /\ RETENTION >= WINDOW + STALL /\ None \notin Int
  /\ Runs \subseteq Nat /\ Ids \subseteq Nat /\ Mailed \subseteq Ids
BY OutboxAssumption DEF Runs, Ids, Mailed

LEMMA NoRowTyped == NoRow \in RowType /\ NoRow.first = None /\ NoRow.token = None /\ NoRow.status = "absent"
BY DEF NoRow, RowType, Statuses

LEMMA DeliveryInit == Init => Delivery
<1> SUFFICES ASSUME Init PROVE Delivery
  OBVIOUS
<1>1. DeliveryTyped
  <2>1. NoRun \in RunType
    BY DEF NoRun, RunType, Places
  <2>2. now \in Nat /\ now <= MaxTime
    BY ConstantsTyped DEF Init
  <2>3. outbox \in [Rows -> RowType]
    BY NoRowTyped DEF Init
  <2>4. sub \in [People -> [active : BOOLEAN, email : Nat]]
    BY DEF Init
  <2> QED BY <2>1, <2>2, <2>3, <2>4 DEF Init, DeliveryTyped
<1>2. ASSUME NEW m \in Rows PROVE RowOK(m)
  BY NoRowTyped DEF Init, RowOK, NoRow
<1>3. ASSUME NEW w \in Runs PROVE RunOK(w)
  BY DEF Init, RunOK, NoRun
<1> QED BY <1>1, <1>2, <1>3 DEF Delivery

-----------------------------------------------------------------------------
(* What a step leaves alone.                                               *)

FirstsKept == \A m \in Rows : Attempted(m) => outbox'[m].first = outbox[m].first
MailsKept == \A m \in Rows : mails[m] > 0 => mails'[m] > 0

LEMMA RowStays ==
  ASSUME Delivery, NEW m \in Rows, Published \subseteq Published',
         outbox'[m] = outbox[m], provider'[m] = provider[m], mails'[m] = mails[m],
         now' \in Nat, now <= now'
  PROVE  RowOK(m)'
<1>1. RowOK(m) /\ outbox[m] \in RowType /\ now \in Nat
  BY DEF Delivery, DeliveryTyped
<1>2. outbox[m].first # None => outbox[m].first <= now'
  <2>1. outbox[m].first # None => outbox[m].first \in Nat /\ outbox[m].first <= now
    BY <1>1 DEF RowOK, RowType
  <2> QED BY <1>1, <2>1
<1> QED BY <1>1, <1>2 DEF RowOK

LEMMA RowStaysNow ==
  ASSUME Delivery, NEW m \in Rows, Published \subseteq Published',
         outbox'[m] = outbox[m], provider'[m] = provider[m], mails'[m] = mails[m], now' = now
  PROVE  RowOK(m)'
<1>1. now' \in Nat /\ now <= now'
  BY DEF Delivery, DeliveryTyped
<1> QED BY <1>1, RowStays

LEMMA RunStays ==
  ASSUME NEW w \in Runs, RunOK(w), run \in [Runs -> RunType], run'[w] = run[w], FirstsKept, MailsKept
  PROVE  RunOK(w)'
<1>1. run[w].queue \subseteq Rows
  BY DEF RunType
<1>2. \A m \in Rows : Attempted(m) => Attempted(m)'
  BY DEF FirstsKept, Attempted
<1>3. \A m \in run'[w].queue : Attempted(m)'
  BY <1>1, <1>2 DEF RunOK
<1>4. run[w].pc \notin {"new", "next"} => run[w].row \in Rows /\ Attempted(run[w].row)
  BY DEF RunOK
<1>5. run'[w].pc \in {"check", "account", "send"} => InWindow(run[w].row, run[w].since)'
  BY <1>4 DEF Attempted, RunOK, InWindow, FirstsKept
<1>6. run'[w].pc = "accepted" => mails'[run'[w].row] > 0
  BY <1>4 DEF RunOK, MailsKept
<1> QED BY <1>2, <1>3, <1>4, <1>5, <1>6 DEF RunOK

LEMMA SameKept ==
  ASSUME UNCHANGED <<outbox, mails>>
  PROVE  FirstsKept /\ MailsKept
BY DEF FirstsKept, MailsKept

\* Steps of the clock, the accounts and the organizer's tab.
LEMMA DeliveryAside ==
  ASSUME Delivery, UNCHANGED <<outbox, run, provider, mails, updates>>,
         now' \in Nat, now <= now', now' <= MaxTime,
         account' \in [People -> Nat], sub' \in [People -> [active : BOOLEAN, email : Nat]]
  PROVE  Delivery'
<1>1. DeliveryTyped'
  BY DEF Delivery, DeliveryTyped
<1>2. \A m \in Rows : RowOK(m)'
  BY RowStays DEF Published
<1>3. \A w \in Runs : RunOK(w)'
  BY RunStays, SameKept DEF Delivery, DeliveryTyped
<1> QED BY <1>1, <1>2, <1>3 DEF Delivery

LEMMA TabKeepsDelivery ==
  ASSUME Delivery, Read \/ Reload \/ Publish \/ WriteAnother
  PROVE  Delivery'
<1>1. UNCHANGED <<now, account, sub, outbox, run, provider, mails, updates>>
  BY DEF Read, Reload, Publish, WriteAnother, subVars
<1> QED BY <1>1, DeliveryAside DEF Delivery, DeliveryTyped

LEMMA TickKeepsDelivery == ASSUME Delivery, Tick PROVE Delivery'
<1>1. /\ UNCHANGED <<account, sub, outbox, run, provider, mails, updates>>
      /\ now' = now + 1 /\ now < MaxTime
  BY DEF Tick, subVars
<1>2. now' \in Nat /\ now <= now' /\ now' <= MaxTime
  BY <1>1, ConstantsTyped DEF Delivery, DeliveryTyped
<1> QED BY <1>1, <1>2, DeliveryAside DEF Delivery, DeliveryTyped

LEMMA ChangeKeepsDelivery == ASSUME Delivery, NEW u \in People, ChangeEmail(u) PROVE Delivery'
<1>1. /\ UNCHANGED <<now, sub, outbox, run, provider, mails, updates>>
      /\ account' = [account EXCEPT ![u] = @ + 1]
  BY DEF ChangeEmail
<1>2. account' \in [People -> Nat]
  BY <1>1 DEF Delivery, DeliveryTyped
<1> QED BY <1>1, <1>2, DeliveryAside DEF Delivery, DeliveryTyped

LEMMA SubscribeKeepsDelivery == ASSUME Delivery, NEW u \in People, Subscribe(u) PROVE Delivery'
<1>1. /\ UNCHANGED <<now, account, outbox, run, provider, mails, updates>>
      /\ sub' = [sub EXCEPT ![u] = [active |-> TRUE, email |-> account[u]]]
  BY DEF Subscribe
<1>2. sub' \in [People -> [active : BOOLEAN, email : Nat]]
  BY <1>1 DEF Delivery, DeliveryTyped
<1> QED BY <1>1, <1>2, DeliveryAside DEF Delivery, DeliveryTyped

\* A row is released: no dispatch holds it.
Released(o, s, n) == [o EXCEPT !.status = s, !.token = None, !.until = 0, !.retry = n]

LEMMA RowReleased ==
  ASSUME NEW o \in RowType, NEW s \in Statuses, NEW n \in Int
  PROVE  /\ Released(o, s, n) \in RowType /\ Released(o, s, n).status = s
         /\ Released(o, s, n).first = o.first /\ Released(o, s, n).token = None
<1>0. PICK p : p = Released(o, s, n)
  OBVIOUS
<1>1. PICK q : q = [o EXCEPT !.status = s, !.token = None]
  OBVIOUS
<1>2. q \in RowType
  BY <1>1 DEF RowType
<1>3. PICK z : z = [q EXCEPT !.until = 0]
  OBVIOUS
<1>4. z \in RowType
  BY <1>2, <1>3 DEF RowType
<1>5. p = [z EXCEPT !.retry = n]
  BY <1>0, <1>1, <1>3 DEF Released
<1>6. p \in RowType
  BY <1>4, <1>5 DEF RowType
<1>7. p.status = s /\ p.first = o.first /\ p.token = None
  BY <1>0 DEF Released, RowType
<1> QED BY <1>0, <1>6, <1>7

LEMMA CancelledRow ==
  ASSUME NEW o \in RowType
  PROVE  /\ Cancelled(o) \in RowType /\ Cancelled(o).status = "cancelled"
         /\ Cancelled(o).first = o.first /\ Cancelled(o).token = None
<1>1. "cancelled" \in Statuses /\ 0 \in Int
  BY DEF Statuses
<1>2. Cancelled(o) = Released(o, "cancelled", 0)
  BY DEF Cancelled, Released
<1> QED BY <1>1, <1>2, RowReleased

LEMMA UnsubscribeKeepsDelivery == ASSUME Delivery, NEW u \in People, Unsubscribe(u) PROVE Delivery'
<1>1. /\ UNCHANGED <<now, account, run, provider, mails, updates>>
      /\ sub' = [sub EXCEPT ![u].active = FALSE]
      /\ outbox' = [m \in Rows |->
           IF m[2] = u /\ outbox[m].status \in Cancellable
           THEN Cancelled(outbox[m]) ELSE outbox[m]]
  BY DEF Unsubscribe, tabVars
<1>2. DeliveryTyped /\ \A m \in Rows : outbox[m] \in RowType
  BY DEF Delivery, DeliveryTyped
<1>3. DeliveryTyped'
  <2>1. sub' \in [People -> [active : BOOLEAN, email : Nat]]
    BY <1>1, <1>2 DEF DeliveryTyped
  <2>2. outbox' \in [Rows -> RowType]
    BY <1>1, <1>2, CancelledRow
  <2> QED BY <1>1, <1>2, <2>1, <2>2 DEF DeliveryTyped
<1>4. FirstsKept /\ MailsKept
  BY <1>1, <1>2, CancelledRow DEF FirstsKept, MailsKept
<1>5. ASSUME NEW m \in Rows PROVE RowOK(m)'
  <2>1. RowOK(m)
    BY DEF Delivery
  <2>2. CASE outbox'[m] = outbox[m]
    BY <1>1, <2>1, <2>2, RowStaysNow DEF Published
  <2>3. CASE outbox'[m] = Cancelled(outbox[m]) /\ outbox[m].status \in Cancellable
    <3>1. /\ outbox'[m].status = "cancelled" /\ outbox'[m].first = outbox[m].first /\ outbox'[m].token = None
      BY <1>2, <2>3, CancelledRow
    <3>2. m[1] \in Published
      BY <2>1, <2>3 DEF RowOK, Cancellable
    <3> QED BY <1>1, <2>1, <3>1, <3>2 DEF RowOK, Published
  <2> QED BY <1>1, <2>2, <2>3
<1>6. \A w \in Runs : RunOK(w)'
  BY <1>1, <1>2, <1>4, RunStays DEF Delivery, DeliveryTyped
<1> QED BY <1>3, <1>5, <1>6 DEF Delivery

-----------------------------------------------------------------------------
(* An update reaches the server.                                           *)

LEMMA PublishedGrows ==
  ASSUME NEW id, NEW at, updates' = updates \cup {[id |-> id, at |-> at]}
  PROVE  Published' = Published \cup {id}
<1>1. Published' \subseteq Published \cup {id}
  BY DEF Published
<1>2. Published \subseteq Published'
  BY DEF Published
<1>3. [id |-> id, at |-> at].id = id
  OBVIOUS
<1>4. id \in Published'
  BY <1>3 DEF Published
<1> QED BY <1>1, <1>2, <1>4

LEMMA HandleKeepsDelivery == ASSUME Delivery, NEW id \in Ids, HandlePublish(id) PROVE Delivery'
<1>1. UNCHANGED <<now, account, sub, run, provider, mails>>
  BY DEF HandlePublish, subVars
<1>2. CASE id \in Published \/ TooSoon
  <2>1. UNCHANGED <<updates, outbox>>
    BY <1>2 DEF HandlePublish
  <2>2. now' \in Nat /\ now <= now' /\ now' <= MaxTime
    BY <1>1 DEF Delivery, DeliveryTyped
  <2> QED BY <1>1, <2>1, <2>2, DeliveryAside DEF Delivery, DeliveryTyped
<1>3. CASE ~(id \in Published \/ TooSoon)
  <2>1. /\ updates' = updates \cup {[id |-> id, at |-> now]}
        /\ outbox' = [m \in Rows |->
               IF m[1] = id /\ sub[m[2]].active
               THEN [NoRow EXCEPT !.status = "pending", !.email = sub[m[2]].email]
               ELSE outbox[m]]
    BY <1>3 DEF HandlePublish
  <2>2. Published' = Published \cup {id} /\ id \notin Published
    BY <1>3, <2>1, PublishedGrows
  <2>3. DeliveryTyped
    BY DEF Delivery
  <2>4. ASSUME NEW m \in Rows, NEW o, o = [NoRow EXCEPT !.status = "pending", !.email = sub[m[2]].email]
        PROVE  o \in RowType /\ o.status = "pending" /\ o.first = None /\ o.token = None
    <3>1. m[2] \in People
      BY DEF Rows
    <3>2. sub[m[2]].email \in Nat
      BY <2>3, <3>1 DEF DeliveryTyped
    <3> QED BY <2>4, <3>2, NoRowTyped DEF RowType, Statuses
  <2>5. outbox' \in [Rows -> RowType]
    BY <2>1, <2>3, <2>4 DEF DeliveryTyped
  <2>6. DeliveryTyped'
    BY <1>1, <2>3, <2>5 DEF DeliveryTyped
  <2>7. ASSUME NEW m \in Rows, m[1] = id
        PROVE  outbox[m].status = "absent" /\ ~Attempted(m) /\ provider[m] = None /\ mails[m] = 0
    BY <2>2, <2>7, NoRowTyped DEF Delivery, RowOK, Attempted
  <2>8. FirstsKept /\ MailsKept
    BY <1>1, <2>1, <2>7 DEF FirstsKept, MailsKept
  <2>9. ASSUME NEW m \in Rows PROVE RowOK(m)'
    <3>1. RowOK(m)
      BY DEF Delivery
    <3>2. CASE outbox'[m] = outbox[m]
      BY <1>1, <2>2, <3>1, <3>2, RowStaysNow
    <3>3. CASE m[1] = id /\ outbox'[m] = [NoRow EXCEPT !.status = "pending", !.email = sub[m[2]].email]
      <4>1. outbox'[m].status = "pending" /\ outbox'[m].first = None /\ outbox'[m].token = None
        BY <2>4, <3>3
      <4>2. provider'[m] = None /\ mails'[m] = 0
        BY <1>1, <2>7, <3>3
      <4>3. m[1] \in Published'
        BY <2>2, <3>3
      <4> QED BY <4>1, <4>2, <4>3 DEF RowOK
    <3> QED BY <2>1, <3>2, <3>3
  <2>10. \A w \in Runs : RunOK(w)'
    BY <1>1, <2>3, <2>8, RunStays DEF Delivery, DeliveryTyped
  <2> QED BY <2>6, <2>9, <2>10 DEF Delivery
<1> QED BY <1>2, <1>3

-----------------------------------------------------------------------------
(* A dispatch claims its rows.                                             *)

Claimed(o, w, f, t) == [o EXCEPT !.status = "inflight", !.token = w, !.until = t, !.first = f]

LEMMA RowClaimed ==
  ASSUME NEW o \in RowType, NEW w \in Runs, NEW f \in Nat, NEW t \in Int
  PROVE  /\ Claimed(o, w, f, t) \in RowType /\ Claimed(o, w, f, t).status = "inflight"
         /\ Claimed(o, w, f, t).first = f /\ Claimed(o, w, f, t).token = w
<1>0. PICK p : p = Claimed(o, w, f, t)
  OBVIOUS
<1>1. PICK q : q = [o EXCEPT !.status = "inflight", !.token = w]
  OBVIOUS
<1>2. q \in RowType
  BY <1>1 DEF RowType, Statuses
<1>3. PICK z : z = [q EXCEPT !.until = t]
  OBVIOUS
<1>4. z \in RowType
  BY <1>2, <1>3 DEF RowType
<1>5. p = [z EXCEPT !.first = f]
  BY <1>0, <1>1, <1>3 DEF Claimed
<1>6. p \in RowType
  BY <1>4, <1>5 DEF RowType
<1>7. p.status = "inflight" /\ p.first = f /\ p.token = w
  BY <1>0 DEF Claimed, RowType
<1> QED BY <1>0, <1>6, <1>7

\* What a claim leaves of a row.
ClaimLeaves(m, w, mine) ==
  LET o == outbox[m] IN
  \/ m \in mine /\ outbox'[m] = Claimed(o, w, IF o.first = None THEN now ELSE o.first, now + LEASE)
  \/ m \notin mine /\ TooOld(m) /\ outbox'[m] = Released(o, "needs_review", 0)
  \/ m \notin mine /\ outbox'[m] = o

LEMMA ClaimHow ==
  ASSUME Delivery, NEW w \in Runs, NEW id \in Mailed, Claim(w, id)
  PROVE  /\ UNCHANGED <<now, account, sub, updates, provider, mails>> /\ id \in Published
         /\ run[w].pc = "new"
         /\ \E mine \in SUBSET Rows :
              /\ \A m \in mine : m[1] = id /\ Eligible(m)
              /\ outbox' \in [Rows -> RowType] /\ \A m \in Rows : ClaimLeaves(m, w, mine)
              /\ run' = [run EXCEPT ![w] = [NoRun EXCEPT !.pc = "next", !.queue = mine]]
<1> DEFINE rows == {m \in Rows : m[1] = id}
           able == {m \in rows : Eligible(m)}
<1>1. PICK mine \in SUBSET able :
        /\ outbox' = [m \in Rows |->
            IF m \in mine
            THEN [outbox[m] EXCEPT !.status = "inflight", !.token = w, !.until = now + LEASE,
                                   !.first = IF @ = None THEN now ELSE @]
            ELSE IF m \in rows /\ TooOld(m)
            THEN [outbox[m] EXCEPT !.status = "needs_review", !.token = None, !.until = 0, !.retry = 0]
            ELSE outbox[m]]
        /\ run' = [run EXCEPT ![w] = [NoRun EXCEPT !.pc = "next", !.queue = mine]]
  BY DEF Claim
<1>2. mine \subseteq Rows /\ \A m \in mine : m[1] = id /\ Eligible(m)
  OBVIOUS
<1>3. DeliveryTyped /\ \A m \in Rows : outbox[m] \in RowType
  BY DEF Delivery, DeliveryTyped
<1>4. now \in Nat /\ now + LEASE \in Int
  BY <1>3, ConstantsTyped DEF DeliveryTyped
<1>5. ASSUME NEW m \in Rows PROVE ClaimLeaves(m, w, mine) /\ outbox'[m] \in RowType
  <2> DEFINE f == IF outbox[m].first = None THEN now ELSE outbox[m].first
  <2>1. CASE m \in mine
    <3>1. f \in Nat
      BY <1>3, <1>4 DEF RowType
    <3>2. outbox'[m] = [outbox[m] EXCEPT !.status = "inflight", !.token = w, !.until = now + LEASE,
                                         !.first = IF @ = None THEN now ELSE @]
      BY <1>1, <2>1
    <3>3. outbox'[m] = Claimed(outbox[m], w, f, now + LEASE)
      BY <1>3, <3>2 DEF Claimed, RowType
    <3> HIDE DEF f
    <3>4. Claimed(outbox[m], w, f, now + LEASE) \in RowType
      BY <1>3, <1>4, <3>1, RowClaimed
    <3> QED BY <2>1, <3>3, <3>4 DEF ClaimLeaves, f
  <2>2. CASE m \notin mine /\ m \in rows /\ TooOld(m)
    <3>1. outbox'[m] = Released(outbox[m], "needs_review", 0)
      BY <1>1, <2>2 DEF Released
    <3>2. "needs_review" \in Statuses /\ 0 \in Int
      BY DEF Statuses
    <3>3. Released(outbox[m], "needs_review", 0) \in RowType
      BY <1>3, <3>2, RowReleased
    <3> QED BY <2>2, <3>1, <3>3 DEF ClaimLeaves
  <2>3. CASE m \notin mine /\ ~(m \in rows /\ TooOld(m))
    BY <1>1, <1>3, <2>3 DEF ClaimLeaves
  <2> QED BY <2>1, <2>2, <2>3
<1>6. outbox' \in [Rows -> RowType]
  BY <1>1, <1>5
<1>7. UNCHANGED <<now, account, sub, updates, provider, mails>> /\ id \in Published /\ run[w].pc = "new"
  BY DEF Claim, subVars
<1> QED BY <1>1, <1>2, <1>5, <1>6, <1>7

LEMMA ClaimKeepsDelivery ==
  ASSUME Delivery, NEW w \in Runs, NEW id \in Mailed, Claim(w, id) PROVE Delivery'
<1>1. /\ UNCHANGED <<now, account, sub, updates, provider, mails>> /\ id \in Published
      /\ run[w].pc = "new"
  BY ClaimHow
<1>2. PICK mine \in SUBSET Rows :
        /\ \A m \in mine : m[1] = id /\ Eligible(m)
        /\ outbox' \in [Rows -> RowType] /\ \A m \in Rows : ClaimLeaves(m, w, mine)
        /\ run' = [run EXCEPT ![w] = [NoRun EXCEPT !.pc = "next", !.queue = mine]]
  BY ClaimHow
<1>3. DeliveryTyped /\ \A m \in Rows : outbox[m] \in RowType /\ RowOK(m)
  BY DEF Delivery, DeliveryTyped
<1>4. now \in Nat /\ now + LEASE \in Int
  BY <1>3, ConstantsTyped DEF DeliveryTyped
<1>5. PICK x : x = [NoRun EXCEPT !.pc = "next", !.queue = mine]
  OBVIOUS
<1>6. x \in RunType /\ x.pc = "next" /\ x.queue = mine
  BY <1>5 DEF NoRun, RunType, Places
<1>7. run' = [run EXCEPT ![w] = x]
  BY <1>2, <1>5
<1>8. DeliveryTyped'
  <2>1. run' \in [Runs -> RunType]
    BY <1>3, <1>6, <1>7 DEF DeliveryTyped
  <2> QED BY <1>1, <1>2, <1>3, <2>1 DEF DeliveryTyped
<1>9. ASSUME NEW m \in Rows
      PROVE  /\ RowOK(m)'
             /\ Attempted(m) => outbox'[m].first = outbox[m].first
             /\ m \in mine => outbox'[m].first # None
  <2>1. ClaimLeaves(m, w, mine) /\ RowOK(m) /\ outbox[m] \in RowType
    BY <1>2, <1>3
  <2>2. CASE m \in mine /\ outbox'[m] = Claimed(outbox[m], w, IF outbox[m].first = None THEN now ELSE outbox[m].first, now + LEASE)
    <3> DEFINE f == IF outbox[m].first = None THEN now ELSE outbox[m].first
    <3>1. f \in Nat
      BY <1>4, <2>1 DEF RowType
    <3>2. outbox[m].first # None => f = outbox[m].first
      OBVIOUS
    <3>3. outbox'[m] = Claimed(outbox[m], w, f, now + LEASE)
      BY <2>2
    <3> HIDE DEF f
    <3>4. outbox'[m].status = "inflight" /\ outbox'[m].first = f /\ outbox'[m].token = w
      BY <1>4, <2>1, <3>1, <3>3, RowClaimed
    <3>5. w # None /\ f # None
      BY <3>1, ConstantsTyped
    <3>6. m[1] \in Published'
      BY <1>1, <1>2, <2>2 DEF Published
    <3>7. provider'[m] # None => outbox'[m].first # None /\ outbox'[m].first <= provider'[m]
      BY <1>1, <2>1, <3>2, <3>4, <3>5 DEF RowOK
    <3>8. provider'[m] = None <=> mails'[m] = 0
      BY <1>1, <2>1 DEF RowOK
    <3>10. outbox'[m].first <= now'
      <4>1. outbox[m].first # None => outbox[m].first <= now
        BY <2>1 DEF RowOK
      <4>2. f <= now
        BY <1>4, <4>1 DEF f
      <4> QED BY <1>1, <3>4, <4>2
    <3>9. RowOK(m)'
      BY <3>4, <3>5, <3>6, <3>7, <3>8, <3>10 DEF RowOK
    <3> QED BY <3>2, <3>4, <3>5, <3>9 DEF Attempted
  <2>3. CASE m \notin mine /\ TooOld(m) /\ outbox'[m] = Released(outbox[m], "needs_review", 0)
    <3>1. "needs_review" \in Statuses /\ 0 \in Int
      BY DEF Statuses
    <3>2. outbox'[m].status = "needs_review" /\ outbox'[m].first = outbox[m].first /\ outbox'[m].token = None
      BY <2>1, <2>3, <3>1, RowReleased
    <3>3. m[1] \in Published'
      BY <1>1, <2>1, <2>3 DEF RowOK, TooOld, Published
    <3>4. RowOK(m)'
      BY <1>1, <2>1, <3>2, <3>3 DEF RowOK
    <3> QED BY <2>3, <3>2, <3>4
  <2>4. CASE m \notin mine /\ outbox'[m] = outbox[m]
    BY <1>1, <2>1, <2>4, RowStaysNow DEF Published
  <2> QED BY <2>1, <2>2, <2>3, <2>4 DEF ClaimLeaves
<1>10. FirstsKept /\ MailsKept
  BY <1>1, <1>9 DEF FirstsKept, MailsKept
<1>11. ASSUME NEW v \in Runs PROVE RunOK(v)'
  <2>1. CASE v # w
    <3>1. run'[v] = run[v]
      BY <1>3, <1>7, <2>1 DEF DeliveryTyped
    <3> QED BY <1>3, <1>10, <3>1, RunStays DEF Delivery, DeliveryTyped
  <2>2. CASE v = w
    <3>1. run'[v] = x
      BY <1>3, <1>7, <2>2 DEF DeliveryTyped
    <3>2. \A m \in mine : Attempted(m)'
      BY <1>9 DEF Attempted
    <3> QED BY <1>6, <3>1, <3>2 DEF RunOK
  <2> QED BY <2>1, <2>2
<1> QED BY <1>8, <1>9, <1>11 DEF Delivery

-----------------------------------------------------------------------------
(* A dispatch goes through its rows.                                       *)

\* Steps of one dispatch that touch neither the outbox nor the provider.
LEMMA RunMoves ==
  ASSUME Delivery, NEW w \in Runs, NEW x \in RunType, run' = [run EXCEPT ![w] = x],
         UNCHANGED <<now, account, sub, updates, outbox, provider, mails>>,
         \A m \in x.queue : Attempted(m),
         x.pc \notin {"new", "next"} => x.row \in Rows /\ Attempted(x.row),
         x.pc \in {"check", "account", "send"} => InWindow(x.row, x.since),
         x.pc = "accepted" => mails[x.row] > 0
  PROVE  Delivery'
<1>1. DeliveryTyped'
  BY DEF Delivery, DeliveryTyped
<1>2. \A m \in Rows : RowOK(m)'
  BY RowStaysNow DEF Delivery, Published
<1>3. ASSUME NEW v \in Runs PROVE RunOK(v)'
  <2>1. CASE v # w
    BY <2>1, RunStays, SameKept DEF Delivery, DeliveryTyped
  <2>2. CASE v = w
    <3>1. run'[v] = x
      BY <2>2 DEF Delivery, DeliveryTyped
    <3>2. (\A m \in x.queue : Attempted(m)') /\ (Attempted(x.row) => Attempted(x.row)')
      BY DEF Attempted
    <3>3. InWindow(x.row, x.since) => InWindow(x.row, x.since)'
      BY DEF InWindow
    <3> QED BY <3>1, <3>2, <3>3 DEF RunOK
  <2> QED BY <2>1, <2>2
<1> QED BY <1>1, <1>2, <1>3 DEF Delivery

LEMMA RunTyped ==
  ASSUME Delivery, NEW w \in Runs
  PROVE  run[w] \in RunType /\ RunOK(w) /\ run[w].queue \subseteq Rows
BY DEF Delivery, DeliveryTyped, RunType

\* What taking a row does to the dispatch.
LEMMA TakeRowHow ==
  ASSUME Delivery, NEW w \in Runs, TakeRow(w)
  PROVE  /\ run[w].pc = "next"
         /\ UNCHANGED <<now, account, sub, tab, stored, intent, calls, intents, updates, outbox, provider, mails>>
         /\ \E m \in run[w].queue, x \in RunType :
              /\ run' = [run EXCEPT ![w] = x]
              /\ x.queue = run[w].queue \ {m}
              /\ \/ x.pc = "check" /\ x.row = m /\ x.since = now /\ RetryAllowed(m)
                 \/ x.pc = "next"
<1>1. PICK m \in run[w].queue :
        run' = [run EXCEPT ![w].queue = @ \ {m},
                 ![w].row = IF RetryAllowed(m) THEN m ELSE None,
                 ![w].pc = IF RetryAllowed(m) THEN "check" ELSE "next",
                 ![w].since = IF RetryAllowed(m) THEN now ELSE 0]
  BY DEF TakeRow
<1>2. run \in [Runs -> RunType] /\ run[w] \in RunType /\ now \in Nat /\ m \in Rows
  BY DEF Delivery, DeliveryTyped, RunType
<1>3. PICK r, p, s : /\ r = IF RetryAllowed(m) THEN m ELSE None
                     /\ p = IF RetryAllowed(m) THEN "check" ELSE "next"
                     /\ s = IF RetryAllowed(m) THEN now ELSE 0
  OBVIOUS
<1>4. r \in Rows \cup {None} /\ p \in Places /\ s \in Nat
  BY <1>2, <1>3 DEF Places
<1>5. PICK x : x = [run[w] EXCEPT !.queue = @ \ {m}, !.row = r, !.pc = p, !.since = s]
  OBVIOUS
<1>6. x \in RunType
  <2>1. PICK y : y = [run[w] EXCEPT !.queue = @ \ {m}, !.row = r]
    OBVIOUS
  <2>2. y \in RunType
    BY <1>2, <1>4, <2>1 DEF RunType
  <2>3. PICK z : z = [y EXCEPT !.pc = p]
    OBVIOUS
  <2>4. z \in RunType
    BY <1>4, <2>2, <2>3 DEF RunType
  <2>5. x = [z EXCEPT !.since = s]
    BY <1>5, <2>1, <2>3
  <2> QED BY <1>4, <2>4, <2>5 DEF RunType
<1>7. run' = [run EXCEPT ![w].queue = @ \ {m}, ![w].row = r, ![w].pc = p, ![w].since = s]
  BY <1>1, <1>3
<1>8. run' = [run EXCEPT ![w] = x]
  <2>1. run' = [run EXCEPT ![w] = [run[w] EXCEPT !.queue = @ \ {m}, !.row = r, !.pc = p, !.since = s]]
    BY <1>2, <1>7
  <2> QED BY <1>5, <2>1
<1>9. run[w].pc = "next"
      /\ UNCHANGED <<now, account, sub, tab, stored, intent, calls, intents, updates, outbox, provider, mails>>
  BY DEF TakeRow, subVars, tabVars
<1>10. x.queue = run[w].queue \ {m} /\ x.pc = p /\ x.row = r /\ x.since = s
  BY <1>2, <1>5 DEF RunType
<1> QED BY <1>3, <1>6, <1>8, <1>9, <1>10

LEMMA TakeRowKeepsDelivery ==
  ASSUME Delivery, NEW w \in Runs, TakeRow(w) PROVE Delivery'
<1>1. UNCHANGED <<now, account, sub, updates, outbox, provider, mails>>
  BY TakeRowHow
<1>2. PICK m \in run[w].queue, x \in RunType :
        /\ run' = [run EXCEPT ![w] = x]
        /\ x.queue = run[w].queue \ {m}
        /\ \/ x.pc = "check" /\ x.row = m /\ x.since = now /\ RetryAllowed(m)
           \/ x.pc = "next"
  BY TakeRowHow
<1>3. m \in Rows /\ Attempted(m) /\ \A k \in run[w].queue : Attempted(k)
  BY RunTyped DEF RunOK
<1>4. RetryAllowed(m) => InWindow(m, now)
  <2>1. outbox[m].first \in Nat /\ now \in Nat /\ WINDOW \in Nat
    BY <1>3, ConstantsTyped DEF Attempted, Delivery, DeliveryTyped, RowType
  <2> QED BY <2>1 DEF RetryAllowed, InWindow
<1> QED BY <1>1, <1>2, <1>3, <1>4, RunMoves

LEMMA FinishingHow ==
  ASSUME Delivery, NEW w \in Runs, NEW s \in Places, Finishing(w, s)
  PROVE  \E x \in RunType :
           /\ run' = [run EXCEPT ![w] = x]
           /\ x.pc = s /\ x.queue = run[w].queue /\ x.row = run[w].row /\ x.since = run[w].since
<1>1. run \in [Runs -> RunType] /\ run[w] \in RunType
  BY DEF Delivery, DeliveryTyped
<1>2. PICK x : x = [run[w] EXCEPT !.pc = s]
  OBVIOUS
<1>3. x \in RunType
  BY <1>1, <1>2 DEF RunType
<1>4. run' = [run EXCEPT ![w] = x]
  BY <1>1, <1>2 DEF Finishing
<1>5. x.pc = s /\ x.queue = run[w].queue /\ x.row = run[w].row /\ x.since = run[w].since
  BY <1>1, <1>2 DEF RunType
<1> QED BY <1>3, <1>4, <1>5

LEMMA CheckHow ==
  ASSUME NEW w \in Runs, CheckSubscription(w) \/ CheckAccount(w)
  PROVE  /\ run[w].pc \in {"check", "account"}
         /\ UNCHANGED <<now, account, sub, updates, outbox, provider, mails>>
         /\ \/ run[w].pc = "check" /\ Finishing(w, "account") /\ Subscribed(run[w].row)
            \/ run[w].pc = "account" /\ Finishing(w, "send")
            \/ \E s \in {"cancelled", "unknown"} : Finishing(w, s)
BY DEF CheckSubscription, CheckAccount, Reads, subVars

LEMMA CheckKeepsDelivery ==
  ASSUME Delivery, NEW w \in Runs, CheckSubscription(w) \/ CheckAccount(w) PROVE Delivery'
<1>1. PICK s \in {"account", "send", "cancelled", "unknown"} : Finishing(w, s)
  BY CheckHow
<1>2. s \in Places
  BY DEF Places
<1>3. PICK x \in RunType :
        /\ run' = [run EXCEPT ![w] = x]
        /\ x.pc = s /\ x.queue = run[w].queue /\ x.row = run[w].row /\ x.since = run[w].since
  BY <1>1, <1>2, FinishingHow
<1>4. run[w].pc \in {"check", "account"} /\ UNCHANGED <<now, account, sub, updates, outbox, provider, mails>>
  BY CheckHow
<1>5. /\ \A m \in x.queue : Attempted(m)
      /\ x.row \in Rows /\ Attempted(x.row) /\ InWindow(x.row, x.since)
  BY <1>3, <1>4, RunTyped DEF RunOK
<1> QED BY <1>3, <1>4, <1>5, RunMoves

\* The provider still remembers a key whose request may go out: the window
\* and the longest way to the provider fit in its retention.
LEMMA StillRemembered ==
  ASSUME Delivery, NEW w \in Runs, run[w].pc = "send", now <= run[w].since + STALL,
         provider[run[w].row] # None
  PROVE  Remembered(run[w].row)
<1> DEFINE m == run[w].row
<1>1. m \in Rows /\ Attempted(m) /\ InWindow(m, run[w].since)
  BY RunTyped DEF RunOK
<1>2. outbox[m].first <= provider[m]
  BY <1>1 DEF Delivery, RowOK
<1>3. outbox[m].first \in Nat /\ provider[m] \in Nat /\ now \in Nat /\ run[w].since \in Nat
  BY <1>1, RunTyped DEF Attempted, Delivery, DeliveryTyped, RowType, RunType
<1>4. WINDOW \in Nat /\ STALL \in Nat /\ RETENTION \in Nat /\ RETENTION >= WINDOW + STALL
  BY ConstantsTyped
<1>5. run[w].since < outbox[m].first + WINDOW
  BY <1>1 DEF InWindow
<1> HIDE DEF m
<1>6. now < provider[m] + RETENTION
  BY <1>2, <1>3, <1>4, <1>5
<1> QED BY <1>6 DEF Remembered, m

LEMMA SendHow ==
  ASSUME Delivery, NEW w \in Runs, Send(w)
  PROVE  /\ run[w].pc = "send" /\ UNCHANGED <<now, account, sub, updates, outbox>>
         /\ \/ /\ provider[run[w].row] = None /\ mails[run[w].row] = 0
               /\ provider' = [provider EXCEPT ![run[w].row] = now]
               /\ mails' = [mails EXCEPT ![run[w].row] = @ + 1]
               /\ \E s \in {"accepted", "unknown"} : Finishing(w, s)
            \/ /\ UNCHANGED <<provider, mails>> /\ provider[run[w].row] # None
               /\ \E s \in {"accepted", "unknown"} : Finishing(w, s)
            \/ /\ UNCHANGED <<provider, mails>>
               /\ \E s \in {"rejected", "unknown"} : Finishing(w, s)
<1> DEFINE m == run[w].row
<1>1. run[w].pc = "send" /\ now <= run[w].since + STALL /\ UNCHANGED <<now, account, sub, updates, outbox>>
  BY DEF Send, subVars
<1>2. m \in Rows
  BY <1>1, RunTyped DEF RunOK
<1>3. provider[m] = None => mails[m] = 0
  BY <1>2 DEF Delivery, RowOK
<1>4. Remembered(m) <=> provider[m] # None
  BY <1>1, StillRemembered DEF Remembered
<1>5. CASE Remembered(m)
  BY <1>1, <1>4, <1>5 DEF Send
<1>6. CASE ~Remembered(m)
  BY <1>1, <1>3, <1>4, <1>6 DEF Send
<1> QED BY <1>5, <1>6

LEMMA SendKeepsDelivery ==
  ASSUME Delivery, NEW w \in Runs, Send(w) PROVE Delivery'
<1>0. PICK m : m = run[w].row
  OBVIOUS
<1>1. run[w].pc = "send" /\ UNCHANGED <<now, account, sub, updates, outbox>>
  BY SendHow
<1>2. m \in Rows /\ Attempted(m) /\ \A k \in run[w].queue : Attempted(k)
  BY <1>0, <1>1, RunTyped DEF RunOK
<1>3. /\ now \in Nat /\ mails \in [Rows -> Nat] /\ provider \in [Rows -> Nat \cup {None}]
      /\ outbox[m] \in RowType /\ RowOK(m) /\ run \in [Runs -> RunType]
  BY <1>2 DEF Delivery, DeliveryTyped
<1>4. ASSUME NEW s \in {"accepted", "rejected", "unknown"}, Finishing(w, s), UNCHANGED <<provider, mails>>,
             s = "accepted" => provider[m] # None
      PROVE  Delivery'
  <2>1. s \in Places
    BY DEF Places
  <2>2. PICK x \in RunType :
          /\ run' = [run EXCEPT ![w] = x]
          /\ x.pc = s /\ x.queue = run[w].queue /\ x.row = m
    BY <1>0, <1>4, <2>1, FinishingHow
  <2>3. s = "accepted" => mails[m] > 0
    BY <1>2, <1>3, <1>4 DEF RowOK
  <2> QED BY <1>1, <1>2, <1>4, <2>2, <2>3, RunMoves
<1>5. ASSUME NEW s \in {"accepted", "unknown"}, Finishing(w, s),
             provider[m] = None, mails[m] = 0,
             provider' = [provider EXCEPT ![m] = now], mails' = [mails EXCEPT ![m] = @ + 1]
      PROVE  Delivery'
  <2>1. s \in Places
    BY DEF Places
  <2>2. PICK x \in RunType :
          /\ run' = [run EXCEPT ![w] = x]
          /\ x.pc = s /\ x.queue = run[w].queue /\ x.row = m
    BY <1>0, <1>5, <2>1, FinishingHow
  <2>3. provider'[m] = now /\ mails'[m] = 1
    BY <1>2, <1>3, <1>5
  <2>4. DeliveryTyped'
    <3>1. provider' \in [Rows -> Nat \cup {None}]
      BY <1>3, <1>5
    <3>2. mails' \in [Rows -> Nat]
      <4>1. mails' = [mails EXCEPT ![m] = 1]
        BY <1>5
      <4> QED BY <1>3, <4>1
    <3>3. run' \in [Runs -> RunType]
      BY <1>3, <2>2
    <3> QED BY <1>1, <3>1, <3>2, <3>3 DEF Delivery, DeliveryTyped
  <2>5. FirstsKept /\ MailsKept
    <3>1. FirstsKept
      BY <1>1 DEF FirstsKept
    <3>2. MailsKept
      BY <1>3, <1>5, <2>3 DEF MailsKept
    <3> QED BY <3>1, <3>2
  <2>6. ASSUME NEW k \in Rows PROVE RowOK(k)'
    <3>1. CASE k # m
      <4>1. provider'[k] = provider[k] /\ mails'[k] = mails[k]
        BY <1>2, <1>3, <1>5, <3>1
      <4> QED BY <1>1, <4>1, RowStaysNow DEF Delivery, Published
    <3>2. CASE k = m
      <4>1. outbox[m].first \in Nat /\ outbox[m].first <= now
        <5>1. outbox[m].first \in Nat
          BY <1>2, <1>3 DEF Attempted, RowType
        <5>2. outbox[m].first <= now
          BY <1>2, <1>3 DEF RowOK, Attempted
        <5> QED BY <5>1, <5>2
      <4> QED BY <1>1, <1>2, <1>3, <2>3, <3>2, <4>1, ConstantsTyped DEF RowOK, Attempted, Published
    <3> QED BY <3>1, <3>2
  <2>7. ASSUME NEW v \in Runs PROVE RunOK(v)'
    <3>1. CASE v # w
      <4>1. run'[v] = run[v]
        BY <1>3, <2>2, <3>1
      <4> QED BY <1>3, <2>5, <4>1, RunStays DEF Delivery
    <3>2. CASE v = w
      <4>1. run'[v] = x
        BY <1>3, <2>2, <3>2
      <4>2. (\A k \in x.queue : Attempted(k)') /\ Attempted(m)'
        BY <1>1, <1>2, <2>2 DEF Attempted
      <4>3. mails'[m] > 0
        BY <2>3
      <4>4. x.pc \notin {"check", "account", "send"}
        BY <2>2
      <4>5. x.row = m
        BY <2>2
      <4> QED BY <1>2, <4>1, <4>2, <4>3, <4>4, <4>5 DEF RunOK, Attempted
    <3> QED BY <3>1, <3>2
  <2> QED BY <2>4, <2>6, <2>7 DEF Delivery
<1> QED BY <1>0, <1>4, <1>5, SendHow

LEMMA FinishHow ==
  ASSUME Delivery, NEW w \in Runs, Finish(w)
  PROVE  /\ UNCHANGED <<now, account, sub, updates, provider, mails>>
         /\ run[w].pc \in {"accepted", "unknown", "rejected", "cancelled"}
         /\ \E x \in RunType :
              run' = [run EXCEPT ![w] = x] /\ x.pc = "next" /\ x.queue = run[w].queue
         /\ \/ outbox' = outbox
            \/ /\ outbox[run[w].row].status = "inflight"
               /\ \E n \in Int :
                    outbox' = [outbox EXCEPT ![run[w].row] = Released(outbox[run[w].row], run[w].pc, n)]
<1>0. PICK m : m = run[w].row
  OBVIOUS
<1>1. /\ UNCHANGED <<now, account, sub, updates, provider, mails>>
      /\ run[w].pc \in {"accepted", "unknown", "rejected", "cancelled"}
      /\ run' = [run EXCEPT ![w].pc = "next", ![w].row = None, ![w].since = 0]
      /\ \/ /\ outbox[m].status = "inflight"
            /\ outbox' = [outbox EXCEPT ![m].status = run[w].pc, ![m].token = None, ![m].until = 0,
                            ![m].retry = IF run[w].pc = "unknown" THEN now + PAUSE ELSE 0]
         \/ outbox' = outbox
  BY <1>0 DEF Finish, subVars
<1>2. /\ run \in [Runs -> RunType] /\ run[w] \in RunType /\ outbox \in [Rows -> RowType]
      /\ now \in Nat /\ now + PAUSE \in Int
  BY ConstantsTyped DEF Delivery, DeliveryTyped
<1>3. \E x \in RunType :
        run' = [run EXCEPT ![w] = x] /\ x.pc = "next" /\ x.queue = run[w].queue
  <2>1. PICK x : x = [run[w] EXCEPT !.pc = "next", !.row = None, !.since = 0]
    OBVIOUS
  <2>2. PICK y : y = [run[w] EXCEPT !.pc = "next", !.row = None]
    OBVIOUS
  <2>3. y \in RunType
    BY <1>2, <2>2 DEF RunType, Places
  <2>4. x = [y EXCEPT !.since = 0]
    BY <2>1, <2>2
  <2>5. x \in RunType
    BY <2>3, <2>4 DEF RunType
  <2>6. run' = [run EXCEPT ![w] = x]
    BY <1>1, <1>2, <2>1
  <2>7. x.pc = "next" /\ x.queue = run[w].queue
    BY <1>2, <2>1 DEF RunType
  <2> QED BY <2>5, <2>6, <2>7
<1>4. m \in Rows
  BY <1>0, <1>1, RunTyped DEF RunOK
<1>5. CASE outbox' = outbox
  BY <1>1, <1>3, <1>5
<1>6. CASE /\ outbox[m].status = "inflight"
           /\ outbox' = [outbox EXCEPT ![m].status = run[w].pc, ![m].token = None, ![m].until = 0,
                            ![m].retry = IF run[w].pc = "unknown" THEN now + PAUSE ELSE 0]
  <2>1. PICK n : n = IF run[w].pc = "unknown" THEN now + PAUSE ELSE 0
    OBVIOUS
  <2>2. n \in Int
    BY <1>2, <2>1
  <2>3. outbox' = [outbox EXCEPT ![m].status = run[w].pc, ![m].token = None, ![m].until = 0, ![m].retry = n]
    BY <1>6, <2>1
  <2>4. outbox' = [outbox EXCEPT ![m] = Released(outbox[m], run[w].pc, n)]
    BY <1>2, <1>4, <2>3 DEF Released
  <2> QED BY <1>0, <1>1, <1>3, <1>6, <2>2, <2>4
<1> QED BY <1>1, <1>5, <1>6

LEMMA FinishKeepsDelivery ==
  ASSUME Delivery, NEW w \in Runs, Finish(w) PROVE Delivery'
<1>0. PICK m, s : m = run[w].row /\ s = run[w].pc
  OBVIOUS
<1>1. UNCHANGED <<now, account, sub, updates, provider, mails>>
      /\ s \in {"accepted", "unknown", "rejected", "cancelled"}
  BY <1>0, FinishHow
<1>2. PICK x \in RunType :
        run' = [run EXCEPT ![w] = x] /\ x.pc = "next" /\ x.queue = run[w].queue
  BY FinishHow
<1>3. /\ m \in Rows /\ Attempted(m) /\ \A k \in run[w].queue : Attempted(k)
      /\ s = "accepted" => mails[m] > 0
  BY <1>0, <1>1, RunTyped DEF RunOK
<1>4. /\ DeliveryTyped /\ run \in [Runs -> RunType] /\ outbox \in [Rows -> RowType] /\ outbox[m] \in RowType
      /\ RowOK(m)
  BY <1>3 DEF Delivery, DeliveryTyped
<1>5. CASE outbox' = outbox
  BY <1>1, <1>2, <1>3, <1>5, RunMoves
<1>6. CASE outbox[m].status = "inflight" /\ \E n \in Int : outbox' = [outbox EXCEPT ![m] = Released(outbox[m], s, n)]
  <2>1. PICK n \in Int : outbox' = [outbox EXCEPT ![m] = Released(outbox[m], s, n)]
    BY <1>6
  <2>2. PICK o : o = Released(outbox[m], s, n)
    OBVIOUS
  <2>3. s \in Statuses
    BY <1>1 DEF Statuses
  <2>4. o \in RowType /\ o.status = s /\ o.first = outbox[m].first /\ o.token = None
    BY <1>4, <2>2, <2>3, RowReleased
  <2>5. outbox' = [outbox EXCEPT ![m] = o]
    BY <2>1, <2>2
  <2>6. DeliveryTyped'
    BY <1>1, <1>2, <1>4, <2>4, <2>5 DEF DeliveryTyped
  <2>7. FirstsKept /\ MailsKept
    BY <1>1, <1>3, <1>4, <2>4, <2>5 DEF FirstsKept, MailsKept
  <2>8. ASSUME NEW k \in Rows PROVE RowOK(k)'
    <3>1. CASE k # m
      BY <1>1, <1>4, <2>5, <3>1, RowStaysNow DEF Published
    <3>2. CASE k = m
      <4>1. outbox'[m] = o
        BY <1>3, <1>4, <2>5
      <4>2. m[1] \in Published
        BY <1>4, <1>6 DEF RowOK
      <4> QED BY <1>1, <1>3, <1>4, <2>4, <3>2, <4>1, <4>2 DEF RowOK, Published
    <3> QED BY <3>1, <3>2
  <2>9. ASSUME NEW v \in Runs PROVE RunOK(v)'
    <3>1. CASE v # w
      <4>1. run'[v] = run[v]
        BY <1>2, <1>4, <3>1
      <4> QED BY <1>4, <2>7, <4>1, RunStays DEF Delivery
    <3>2. CASE v = w
      <4>1. run'[v] = x
        BY <1>2, <1>4, <3>2
      <4>2. \A k \in x.queue : Attempted(k)'
        <5> SUFFICES ASSUME NEW k \in x.queue PROVE Attempted(k)'
          OBVIOUS
        <5>1. k \in Rows /\ Attempted(k)
          BY <1>2, <1>3, RunTyped
        <5> QED BY <2>7, <5>1 DEF FirstsKept, Attempted
      <4> QED BY <1>2, <4>1, <4>2 DEF RunOK
    <3> QED BY <3>1, <3>2
  <2> QED BY <2>6, <2>8, <2>9 DEF Delivery
<1> QED BY <1>0, <1>5, <1>6, FinishHow

LEMMA DeliveryStep == Delivery /\ [Next]_vars => Delivery'
<1> SUFFICES ASSUME Delivery, [Next]_vars PROVE Delivery'
  OBVIOUS
<1>1. CASE UNCHANGED vars
  <2>1. UNCHANGED <<now, account, sub, outbox, run, provider, mails, updates>>
    BY <1>1 DEF vars, subVars
  <2>2. now' \in Nat /\ now <= now' /\ now' <= MaxTime
    BY <2>1 DEF Delivery, DeliveryTyped
  <2> QED BY <2>1, <2>2, DeliveryAside DEF Delivery, DeliveryTyped
<1>2. CASE Tick \/ Read \/ Reload \/ Publish \/ WriteAnother
  BY <1>2, TickKeepsDelivery, TabKeepsDelivery
<1>3. ASSUME NEW u \in People, ChangeEmail(u) \/ setCampaignUpdateSubscription(u) PROVE Delivery'
  BY <1>3, ChangeKeepsDelivery, SubscribeKeepsDelivery, UnsubscribeKeepsDelivery
     DEF setCampaignUpdateSubscription
<1>4. ASSUME NEW id \in Ids, HandlePublish(id) PROVE Delivery'
  BY <1>4, HandleKeepsDelivery
<1>5. ASSUME NEW w \in Runs, dispatchCampaignUpdateEmails(w) PROVE Delivery'
  BY <1>5, ClaimKeepsDelivery, TakeRowKeepsDelivery, CheckKeepsDelivery, SendKeepsDelivery,
     FinishKeepsDelivery DEF dispatchCampaignUpdateEmails
<1> QED BY <1>1, <1>2, <1>3, <1>4, <1>5 DEF Next

LEMMA DeliveryHolds == Spec => []Delivery
BY DeliveryInit, DeliveryStep, PTL DEF Spec

-----------------------------------------------------------------------------
(* The outbox keeps the promise: every step is a step of ConsentedMail, or *)
(* changes nothing it speaks of.                                           *)

Active == {u \in People : sub[u].active}
Shown == Published \cap Mailed
Owed == {m \in Rows : outbox[m].status \in {"pending", "unknown", "inflight"}}
TakenBy(w) == run[w].queue \cup (IF run[w].pc = "check" THEN {run[w].row} ELSE {})
Taken == UNION {TakenBy(w) : w \in Runs}
Started == {run[w].row : w \in {v \in Runs : run[v].pc \in {"account", "send"}}}

LEMMA MailsAreRows == Promise!Mails = Rows
BY DEF Promise!Mails, Rows

LEMMA PromiseInit == Init => Promise!Init
<1> SUFFICES ASSUME Init PROVE Promise!Init
  OBVIOUS
<1>1. Active = {}
  BY DEF Init, Active
<1>2. Shown = {}
  BY DEF Init, Shown, Published
<1>3. Owed = {}
  BY NoRowTyped DEF Init, Owed
<1>4. \A w \in Runs : run[w].queue = {} /\ run[w].pc = "new"
  BY DEF Init, NoRun
<1>5. Taken = {}
  BY <1>4 DEF Taken, TakenBy
<1>6. Started = {}
  BY <1>4 DEF Started
<1>7. mails = [m \in Promise!Mails |-> 0]
  BY MailsAreRows DEF Init
<1> QED BY <1>1, <1>2, <1>3, <1>5, <1>6, <1>7
       DEF Promise!Init, Active, Shown, Owed, Taken, TakenBy, Started

LEMMA PromiseStutters ==
  ASSUME UNCHANGED <<Active, Shown, Owed, Taken, Started, mails>>
  PROVE  UNCHANGED Promise!vars
BY DEF Promise!vars, Active, Shown, Owed, Taken, TakenBy, Started

LEMMA PromiseWorks ==
  ASSUME UNCHANGED <<Active, Shown>>, Owed' \subseteq Owed,
         \A m \in Taken' : m \in Taken \/ (m \in Owed /\ m[2] \in Active),
         \A m \in Started' : m \in Started \/ (m \in Taken /\ m[2] \in Active),
         \A m \in Rows : mails'[m] # mails[m] => m \in Started /\ mails[m] = 0 /\ mails'[m] = 1
  PROVE  Promise!Work
BY MailsAreRows
   DEF Promise!Work, Promise!Take, Promise!Start, Promise!Send, Active, Shown, Owed, Taken, TakenBy, Started

LEMMA PromiseSubscribes ==
  ASSUME NEW u \in People, Active' = Active \cup {u}, UNCHANGED <<Shown, Owed, Taken, Started, mails>>
  PROVE  Promise!Next
BY DEF Promise!Next, Promise!Subscribe, Active, Shown, Owed, Taken, TakenBy, Started

LEMMA PromiseUnsubscribes ==
  ASSUME NEW u \in People, Active' = Active \ {u}, Owed' = {m \in Owed : m[2] # u},
         UNCHANGED <<Shown, Taken, Started, mails>>
  PROVE  Promise!Next
BY DEF Promise!Next, Promise!Unsubscribe, Active, Shown, Owed, Taken, TakenBy, Started

LEMMA PromisePublishes ==
  ASSUME NEW id \in Mailed, id \notin Shown, Shown' = Shown \cup {id},
         Owed' = Owed \cup {<<id, u>> : u \in Active},
         UNCHANGED <<Active, Taken, Started, mails>>
  PROVE  Promise!Next
BY DEF Promise!Next, Promise!Publish, Active, Shown, Owed, Taken, TakenBy, Started

-----------------------------------------------------------------------------
(* The steps, one by one.                                                  *)

LEMMA AsideStutters ==
  ASSUME UNCHANGED <<sub, updates, outbox, run, mails>>
  PROVE  UNCHANGED Promise!vars
<1>1. UNCHANGED <<Active, Shown, Owed, Taken, Started, mails>>
  BY DEF Active, Shown, Published, Owed, Taken, TakenBy, Started
<1> QED BY <1>1, PromiseStutters

LEMMA SubscribePromised ==
  ASSUME Delivery, NEW u \in People, Subscribe(u) PROVE Promise!Next
<1>1. /\ UNCHANGED <<updates, outbox, run, mails>>
      /\ sub' = [sub EXCEPT ![u] = [active |-> TRUE, email |-> account[u]]]
  BY DEF Subscribe
<1>2. sub \in [People -> [active : BOOLEAN, email : Nat]]
  BY DEF Delivery, DeliveryTyped
<1>3. sub'[u].active /\ \A v \in People : v # u => sub'[v] = sub[v]
  BY <1>1, <1>2
<1>4. Active' = Active \cup {u}
  BY <1>3 DEF Active
<1>5. UNCHANGED <<Shown, Owed, Taken, Started, mails>>
  BY <1>1 DEF Shown, Published, Owed, Taken, TakenBy, Started
<1> QED BY <1>4, <1>5, PromiseSubscribes

LEMMA UnsubscribePromised ==
  ASSUME Delivery, NEW u \in People, Unsubscribe(u) PROVE Promise!Next
<1>1. /\ UNCHANGED <<updates, run, mails>>
      /\ sub' = [sub EXCEPT ![u].active = FALSE]
      /\ outbox' = [m \in Rows |->
           IF m[2] = u /\ outbox[m].status \in Cancellable
           THEN Cancelled(outbox[m]) ELSE outbox[m]]
  BY DEF Unsubscribe, tabVars
<1>2. sub \in [People -> [active : BOOLEAN, email : Nat]] /\ \A m \in Rows : outbox[m] \in RowType
  BY DEF Delivery, DeliveryTyped
<1>3. ~sub'[u].active /\ \A v \in People : v # u => sub'[v] = sub[v]
  BY <1>1, <1>2
<1>4. Active' = Active \ {u}
  BY <1>3 DEF Active
<1>5. UNCHANGED <<Shown, Taken, Started, mails>>
  BY <1>1 DEF Shown, Published, Taken, TakenBy, Started
<1>6. Owed' = {m \in Owed : m[2] # u}
  <2>1. ASSUME NEW m \in Rows
        PROVE  outbox'[m].status \in {"pending", "unknown", "inflight"}
               <=> outbox[m].status \in {"pending", "unknown", "inflight"} /\ m[2] # u
    <3>1. CASE m[2] = u /\ outbox[m].status \in Cancellable
      <4>1. outbox'[m].status = "cancelled"
        BY <1>1, <1>2, <3>1, CancelledRow
      <4> QED BY <3>1, <4>1
    <3>2. CASE ~(m[2] = u /\ outbox[m].status \in Cancellable)
      <4>1. outbox'[m] = outbox[m]
        BY <1>1, <3>2
      <4> QED BY <3>2, <4>1 DEF Cancellable
    <3> QED BY <3>1, <3>2
  <2> QED BY <2>1 DEF Owed
<1> QED BY <1>4, <1>5, <1>6, PromiseUnsubscribes

LEMMA HandlePromised ==
  ASSUME Delivery, NEW id \in Ids, HandlePublish(id) PROVE [Promise!Next]_(Promise!vars)
<1>1. UNCHANGED <<sub, run, mails, now>>
  BY DEF HandlePublish, subVars
<1>2. CASE id \in Published \/ TooSoon
  <2>1. UNCHANGED <<updates, outbox>>
    BY <1>2 DEF HandlePublish
  <2> QED BY <1>1, <2>1, AsideStutters
<1>3. CASE ~(id \in Published \/ TooSoon)
  <2>1. /\ updates' = updates \cup {[id |-> id, at |-> now]}
        /\ outbox' = [m \in Rows |->
               IF m[1] = id /\ sub[m[2]].active
               THEN [NoRow EXCEPT !.status = "pending", !.email = sub[m[2]].email]
               ELSE outbox[m]]
    BY <1>3 DEF HandlePublish
  <2>2. Published' = Published \cup {id} /\ id \notin Published
    BY <1>3, <2>1, PublishedGrows
  <2>3. UNCHANGED <<Active, Taken, Started, mails>>
    BY <1>1 DEF Active, Taken, TakenBy, Started
  <2>4. ASSUME NEW m \in Rows
        PROVE  /\ m[1] = id /\ m[2] \in Active => outbox'[m].status = "pending"
               /\ ~(m[1] = id /\ m[2] \in Active) => outbox'[m] = outbox[m]
    <3>1. m[2] \in People
      BY DEF Rows
    <3>2. m[1] = id /\ m[2] \in Active =>
            outbox'[m] = [NoRow EXCEPT !.status = "pending", !.email = sub[m[2]].email]
      BY <2>1, <3>1 DEF Active
    <3>3. ~(m[1] = id /\ m[2] \in Active) => outbox'[m] = outbox[m]
      BY <2>1, <3>1 DEF Active
    <3> QED BY <3>2, <3>3 DEF NoRow
  <2>5. CASE id \in Mailed
    <3>1. id \notin Shown /\ Shown' = Shown \cup {id}
      BY <2>2, <2>5 DEF Shown
    <3>2. Owed' = Owed \cup {<<id, u>> : u \in Active}
      <4>1. ASSUME NEW m \in Rows
            PROVE  m \in {<<id, u>> : u \in Active} <=> m[1] = id /\ m[2] \in Active
        BY DEF Rows
      <4>2. \A u \in Active : <<id, u>> \in Rows
        BY <2>5 DEF Rows, Active
      <4>3. ASSUME NEW m \in Rows
            PROVE  m \in Owed' <=> m \in Owed \/ (m[1] = id /\ m[2] \in Active)
        BY <2>4 DEF Owed
      <4>4. Owed \subseteq Rows /\ Owed' \subseteq Rows
        BY DEF Owed
      <4> QED BY <4>1, <4>2, <4>3, <4>4
    <3> QED BY <2>3, <2>5, <3>1, <3>2, PromisePublishes
  <2>6. CASE id \notin Mailed
    <3>1. \A m \in Rows : m[1] # id
      BY <2>6 DEF Rows
    <3>2. Owed' = Owed
      BY <2>4, <3>1 DEF Owed
    <3>3. Shown' = Shown
      BY <2>2, <2>6 DEF Shown
    <3> QED BY <2>3, <3>2, <3>3, PromiseStutters
  <2> QED BY <2>5, <2>6
<1> QED BY <1>2, <1>3

LEMMA TakenAfter ==
  ASSUME run \in [Runs -> RunType], NEW w \in Runs, NEW x, run' = [run EXCEPT ![w] = x], NEW m \in Taken'
  PROVE  m \in Taken \/ m \in x.queue \/ (x.pc = "check" /\ m = x.row)
<1>1. PICK v \in Runs : m \in run'[v].queue \/ (run'[v].pc = "check" /\ m = run'[v].row)
  BY DEF Taken, TakenBy
<1>2. CASE v = w
  <2>1. run'[v] = x
    BY <1>2
  <2> QED BY <1>1, <2>1
<1>3. CASE v # w
  <2>1. run'[v] = run[v]
    BY <1>3
  <2> QED BY <1>1, <2>1 DEF Taken, TakenBy
<1> QED BY <1>2, <1>3

LEMMA StartedAfter ==
  ASSUME run \in [Runs -> RunType], NEW w \in Runs, NEW x, run' = [run EXCEPT ![w] = x], NEW m \in Started'
  PROVE  m \in Started \/ (x.pc \in {"account", "send"} /\ m = x.row)
<1>1. PICK v \in Runs : run'[v].pc \in {"account", "send"} /\ m = run'[v].row
  BY DEF Started
<1>2. CASE v = w
  BY <1>1, <1>2
<1>3. CASE v # w
  <2>1. run'[v] = run[v]
    BY <1>3
  <2> QED BY <1>1, <2>1 DEF Started
<1> QED BY <1>2, <1>3

LEMMA TakenNow ==
  ASSUME NEW w \in Runs
  PROVE  /\ run[w].queue \subseteq Taken
         /\ run[w].pc = "check" => run[w].row \in Taken
         /\ run[w].pc \in {"account", "send"} => run[w].row \in Started
BY DEF Taken, TakenBy, Started

LEMMA ClaimPromised ==
  ASSUME Delivery, NEW w \in Runs, NEW id \in Mailed, Claim(w, id) PROVE Promise!Work
<1>1. UNCHANGED <<sub, updates, mails>>
  BY ClaimHow
<1>2. PICK mine \in SUBSET Rows :
        /\ \A m \in mine : m[1] = id /\ Eligible(m)
        /\ outbox' \in [Rows -> RowType] /\ \A m \in Rows : ClaimLeaves(m, w, mine)
        /\ run' = [run EXCEPT ![w] = [NoRun EXCEPT !.pc = "next", !.queue = mine]]
  BY ClaimHow
<1>3. PICK x : x = [NoRun EXCEPT !.pc = "next", !.queue = mine]
  OBVIOUS
<1>4. x.pc = "next" /\ x.queue = mine /\ run' = [run EXCEPT ![w] = x] /\ run \in [Runs -> RunType]
  BY <1>2, <1>3 DEF NoRun, Delivery, DeliveryTyped
<1>5. UNCHANGED <<Active, Shown>>
  BY <1>1 DEF Active, Shown, Published
<1>6. \A m \in mine : m \in Owed /\ m[2] \in Active
  BY <1>2 DEF Eligible, Subscribed, Owed, Active, Rows
<1>7. Owed' \subseteq Owed
  <2> SUFFICES ASSUME NEW m \in Rows, outbox'[m].status \in {"pending", "unknown", "inflight"}
               PROVE  m \in Owed
    BY DEF Owed
  <2>1. CASE m \in mine
    BY <1>6, <2>1
  <2>2. CASE outbox'[m] = Released(outbox[m], "needs_review", 0)
    <3>1. outbox[m] \in RowType /\ "needs_review" \in Statuses /\ 0 \in Int
      BY DEF Delivery, DeliveryTyped, Statuses
    <3>2. outbox'[m].status = "needs_review"
      BY <2>2, <3>1, RowReleased
    <3> QED BY <3>2
  <2>3. CASE outbox'[m] = outbox[m]
    BY <2>3 DEF Owed
  <2> QED BY <1>2, <2>1, <2>2, <2>3 DEF ClaimLeaves
<1>8. \A m \in Taken' : m \in Taken \/ (m \in Owed /\ m[2] \in Active)
  BY <1>4, <1>6, TakenAfter
<1>9. \A m \in Started' : m \in Started
  BY <1>4, StartedAfter
<1> QED BY <1>1, <1>5, <1>7, <1>8, <1>9, PromiseWorks

\* Steps of one dispatch that drop what they hold, or go on with it.
LEMMA HoldsOrDrops ==
  ASSUME Delivery, NEW w \in Runs, NEW x, run' = [run EXCEPT ![w] = x],
         UNCHANGED <<sub, updates, mails>>, Owed' \subseteq Owed,
         x.queue \subseteq run[w].queue, x.pc \notin {"account", "send"},
         x.pc = "check" => x.row \in run[w].queue
  PROVE  Promise!Work
<1>1. UNCHANGED <<Active, Shown>>
  BY DEF Active, Shown, Published
<1>2. run \in [Runs -> RunType]
  BY DEF Delivery, DeliveryTyped
<1>3. \A m \in Taken' : m \in Taken
  BY <1>2, TakenAfter, TakenNow
<1>4. \A m \in Started' : m \in Started
  BY <1>2, StartedAfter
<1> QED BY <1>1, <1>3, <1>4, PromiseWorks

LEMMA TakeRowPromised ==
  ASSUME Delivery, NEW w \in Runs, TakeRow(w) PROVE Promise!Work
<1>1. PICK m \in run[w].queue, x \in RunType :
        /\ run' = [run EXCEPT ![w] = x]
        /\ x.queue = run[w].queue \ {m}
        /\ \/ x.pc = "check" /\ x.row = m /\ x.since = now /\ RetryAllowed(m)
           \/ x.pc = "next"
  BY TakeRowHow
<1>2. UNCHANGED <<sub, updates, mails, outbox>>
  BY TakeRowHow
<1>3. Owed' \subseteq Owed
  BY <1>2 DEF Owed
<1> QED BY <1>1, <1>2, <1>3, HoldsOrDrops

LEMMA CheckPromised ==
  ASSUME Delivery, NEW w \in Runs, CheckSubscription(w) \/ CheckAccount(w) PROVE Promise!Work
<1>1. run[w].pc \in {"check", "account"} /\ UNCHANGED <<sub, updates, outbox, mails>>
  BY CheckHow
<1>2. PICK s \in {"account", "send", "cancelled", "unknown"} :
        /\ Finishing(w, s)
        /\ s = "account" => run[w].pc = "check" /\ Subscribed(run[w].row)
        /\ s = "send" => run[w].pc = "account"
  BY CheckHow
<1>3. s \in Places
  BY DEF Places
<1>4. PICK x \in RunType :
        /\ run' = [run EXCEPT ![w] = x]
        /\ x.pc = s /\ x.queue = run[w].queue /\ x.row = run[w].row /\ x.since = run[w].since
  BY <1>2, <1>3, FinishingHow
<1>5. run \in [Runs -> RunType] /\ run[w].row \in Rows
  BY <1>1, RunTyped DEF Delivery, DeliveryTyped, RunOK
<1>6. UNCHANGED <<Active, Shown>> /\ Owed' \subseteq Owed
  BY <1>1 DEF Active, Shown, Published, Owed
<1>7. \A m \in Taken' : m \in Taken
  BY <1>4, <1>5, TakenAfter, TakenNow
<1>8. \A m \in Started' : m \in Started \/ (m \in Taken /\ m[2] \in Active)
  <2> SUFFICES ASSUME NEW m \in Started' PROVE m \in Started \/ (m \in Taken /\ m[2] \in Active)
    OBVIOUS
  <2>1. m \in Started \/ (s \in {"account", "send"} /\ m = run[w].row)
    BY <1>4, <1>5, StartedAfter
  <2>2. CASE s = "account" /\ m = run[w].row
    <3>1. m \in Taken
      BY <1>2, <2>2, TakenNow
    <3>2. m[2] \in Active
      BY <1>2, <1>5, <2>2 DEF Subscribed, Active, Rows
    <3> QED BY <3>1, <3>2
  <2>3. CASE s = "send" /\ m = run[w].row
    BY <1>2, <2>3, TakenNow
  <2> QED BY <2>1, <2>2, <2>3
<1> QED BY <1>1, <1>6, <1>7, <1>8, PromiseWorks

LEMMA SendPromised ==
  ASSUME Delivery, NEW w \in Runs, Send(w) PROVE Promise!Work
<1>1. run[w].pc = "send" /\ UNCHANGED <<sub, updates, outbox>>
  BY SendHow
<1>2. PICK s \in {"accepted", "unknown", "rejected"} : Finishing(w, s)
  BY SendHow
<1>3. s \in Places
  BY DEF Places
<1>4. PICK x \in RunType :
        /\ run' = [run EXCEPT ![w] = x]
        /\ x.pc = s /\ x.queue = run[w].queue /\ x.row = run[w].row /\ x.since = run[w].since
  BY <1>2, <1>3, FinishingHow
<1>5. run \in [Runs -> RunType] /\ mails \in [Rows -> Nat]
  BY DEF Delivery, DeliveryTyped
<1>6. UNCHANGED <<Active, Shown>> /\ Owed' \subseteq Owed
  BY <1>1 DEF Active, Shown, Published, Owed
<1>7. \A m \in Taken' : m \in Taken
  BY <1>4, <1>5, TakenAfter, TakenNow
<1>8. \A m \in Started' : m \in Started
  BY <1>4, <1>5, StartedAfter
<1>9. \A m \in Rows : mails'[m] # mails[m] => m \in Started /\ mails[m] = 0 /\ mails'[m] = 1
  <2> SUFFICES ASSUME NEW m \in Rows, mails'[m] # mails[m]
               PROVE  m \in Started /\ mails[m] = 0 /\ mails'[m] = 1
    OBVIOUS
  <2>1. mails[run[w].row] = 0 /\ mails' = [mails EXCEPT ![run[w].row] = @ + 1]
    BY SendHow
  <2>2. m = run[w].row
    BY <1>5, <2>1
  <2>3. m \in Started
    BY <1>1, <2>2, TakenNow
  <2>4. mails[m] = 0 /\ mails' = [mails EXCEPT ![m] = @ + 1]
    BY <2>1, <2>2
  <2>5. mails'[m] = 1
    BY <1>5, <2>4
  <2> QED BY <2>3, <2>4, <2>5
<1> QED BY <1>6, <1>7, <1>8, <1>9, PromiseWorks

LEMMA FinishPromised ==
  ASSUME Delivery, NEW w \in Runs, Finish(w) PROVE Promise!Work
<1>1. UNCHANGED <<sub, updates, mails>>
  BY FinishHow
<1>2. PICK x \in RunType :
        run' = [run EXCEPT ![w] = x] /\ x.pc = "next" /\ x.queue = run[w].queue
  BY FinishHow
<1>3. PICK m, s : m = run[w].row /\ s = run[w].pc
  OBVIOUS
<1>4. \/ outbox' = outbox
      \/ outbox[m].status = "inflight" /\ \E n \in Int : outbox' = [outbox EXCEPT ![m] = Released(outbox[m], s, n)]
  BY <1>3, FinishHow
<1>5. Owed' \subseteq Owed
  <2>1. CASE outbox' = outbox
    BY <2>1 DEF Owed
  <2>2. CASE outbox[m].status = "inflight" /\ \E n \in Int : outbox' = [outbox EXCEPT ![m] = Released(outbox[m], s, n)]
    <3>1. \A k \in Rows : k # m => outbox'[k] = outbox[k]
      BY <2>2 DEF Delivery, DeliveryTyped
    <3>2. \A k \in Rows : outbox'[k] = outbox[k] \/ outbox[k].status = "inflight"
      BY <2>2, <3>1
    <3> QED BY <3>2 DEF Owed
  <2> QED BY <1>4, <2>1, <2>2
<1> QED BY <1>1, <1>2, <1>5, HoldsOrDrops

-----------------------------------------------------------------------------
LEMMA PromiseStep == Delivery /\ [Next]_vars => [Promise!Next]_(Promise!vars)
<1> SUFFICES ASSUME Delivery, [Next]_vars PROVE [Promise!Next]_(Promise!vars)
  OBVIOUS
<1>1. CASE UNCHANGED vars \/ Tick \/ Read \/ Reload \/ Publish \/ WriteAnother
           \/ \E u \in People : ChangeEmail(u)
  <2>1. UNCHANGED <<sub, updates, outbox, run, mails>>
    BY <1>1 DEF vars, subVars, Tick, Read, Reload, Publish, WriteAnother, ChangeEmail
  <2> QED BY <2>1, AsideStutters
<1>2. ASSUME NEW u \in People, setCampaignUpdateSubscription(u) PROVE Promise!Next
  BY <1>2, SubscribePromised, UnsubscribePromised DEF setCampaignUpdateSubscription
<1>3. ASSUME NEW id \in Ids, HandlePublish(id) PROVE [Promise!Next]_(Promise!vars)
  BY <1>3, HandlePromised
<1>4. ASSUME NEW w \in Runs, dispatchCampaignUpdateEmails(w) PROVE Promise!Next
  <2>1. Promise!Work
    BY <1>4, ClaimPromised, TakeRowPromised, CheckPromised, SendPromised, FinishPromised
       DEF dispatchCampaignUpdateEmails
  <2> QED BY <2>1 DEF Promise!Next
<1> QED BY <1>1, <1>2, <1>3, <1>4 DEF Next

\* The outbox keeps the promise to subscribers, whatever dispatches run at
\* once, die, answer late or repeat: a mail is taken up and started only with
\* its recipient's consent, sent at most once, and never taken up again after
\* an unsubscription.
THEOREM OutboxKeepsPromise == Spec => KeepsPromise
BY PromiseInit, PromiseStep, DeliveryHolds, PTL DEF Spec, KeepsPromise, Promise!Spec

-----------------------------------------------------------------------------
(* Publishing.                                                             *)

TabType == [loaded : BOOLEAN, id : Ids \cup {None}, status : {"idle", "unknown", "confirmed"}, waiting : BOOLEAN]
Sent == calls \cup Published

PublishingTyped ==
  /\ tab \in TabType /\ stored \in Ids \cup {None} /\ intent \in Nat \ {0}
  /\ intents \in [Ids -> Nat] /\ calls \subseteq Ids /\ Published \subseteq Ids

\* Request ids are made in order, for the intents so far.
IdsInOrder ==
  /\ \E k \in 0..MaxUpdates : UsedIds = 1..k
  /\ \A a \in Ids : intents[a] <= intent
  /\ Sent \subseteq UsedIds
  /\ \A p, q \in updates : p.id = q.id => p = q

\* What the tab and the storage hold is the update being written.
TabCurrent ==
  /\ stored # None => intents[stored] = intent
  /\ tab.id # None => intents[tab.id] = intent /\ stored \in {None, tab.id}
  /\ tab.loaded /\ tab.id = None => stored = None
  /\ ~tab.loaded => tab.id = None /\ tab.status = "idle" /\ ~tab.waiting
  /\ tab.waiting => tab.status # "confirmed"
  /\ tab.status = "confirmed" => stored = None /\ tab.id \in Published

\* The request id that was sent for it is in the tab, and stored until it is
\* known to be published.
SentKnown ==
  /\ \A a, b \in Sent : intents[a] = intents[b] => a = b
  /\ \A a \in Sent : intents[a] = intent => (tab.loaded /\ tab.id = a) \/ (~tab.loaded /\ stored = a)
  /\ tab.id \in Sent /\ tab.status # "confirmed" => stored = tab.id

Publishing == PublishingTyped /\ IdsInOrder /\ TabCurrent /\ SentKnown

LEMMA PublishingInit == Init => Publishing
<1> SUFFICES ASSUME Init PROVE Publishing
  OBVIOUS
<1>1. Published = {} /\ Sent = {} /\ UsedIds = {}
  BY DEF Init, Published, Sent, UsedIds
<1>2. PublishingTyped
  BY <1>1 DEF Init, PublishingTyped, FreshTab, TabType
<1>3. IdsInOrder
  <2>1. 0 \in 0..MaxUpdates /\ 1..0 = {}
    BY OutboxAssumption
  <2>2. \E k \in 0..MaxUpdates : UsedIds = 1..k
    BY <1>1, <2>1
  <2> QED BY <1>1, <2>2 DEF Init, IdsInOrder
<1>4. TabCurrent
  BY DEF Init, TabCurrent, FreshTab
<1>5. SentKnown
  BY <1>1, ConstantsTyped DEF Init, SentKnown, FreshTab
<1> QED BY <1>2, <1>3, <1>4, <1>5 DEF Publishing

\* Steps that leave the tab, its storage and its calls alone.
LEMMA PublishingAside ==
  ASSUME Publishing, UNCHANGED <<tab, stored, intent, calls, intents, updates>>
  PROVE  Publishing'
BY DEF Publishing, PublishingTyped, IdsInOrder, TabCurrent, SentKnown, Sent, Published, UsedIds

LEMMA NoneIsNoId == None \notin Ids
BY OutboxAssumption DEF Ids

LEMMA ReadKeepsPublishing == ASSUME Publishing, Read PROVE Publishing'
<1> USE NoneIsNoId
<1>1. PICK id : id = IF tab.id = None THEN stored ELSE tab.id
  OBVIOUS
<1>2. /\ ~tab.waiting
      /\ tab' = [loaded |-> TRUE, id |-> id, waiting |-> FALSE,
                 status |-> IF id \in Published THEN "confirmed"
                            ELSE IF tab.id = None /\ stored # None THEN "unknown" ELSE tab.status]
      /\ stored' = IF id \in Published THEN None ELSE stored
      /\ UNCHANGED <<intent, calls, intents, updates>>
  BY <1>1 DEF Read
<1>3. PublishingTyped /\ IdsInOrder /\ TabCurrent /\ SentKnown
  BY DEF Publishing
<1>4. UNCHANGED <<Sent, UsedIds, Published>>
  BY <1>2 DEF Sent, UsedIds, Published
<1>5. IdsInOrder'
  BY <1>2, <1>3, <1>4 DEF IdsInOrder
<1>6. id \in Ids \cup {None} /\ tab.status \in {"idle", "unknown", "confirmed"}
  BY <1>1, <1>3 DEF PublishingTyped, TabType
<1>7. PublishingTyped'
  BY <1>2, <1>3, <1>4, <1>6 DEF PublishingTyped, TabType
<1>8. tab'.loaded /\ ~tab'.waiting /\ tab'.id = id
  BY <1>2
<1>9. id \in Published => tab'.status = "confirmed" /\ stored' = None
  BY <1>2
<1>10. id \notin Published => tab'.status # "confirmed" /\ stored' = stored
  BY <1>1, <1>2, <1>3 DEF TabCurrent
<1>11. id # None => intents[id] = intent /\ stored \in {None, id}
  BY <1>1, <1>3 DEF TabCurrent
<1>12. id = None => stored = None
  BY <1>1
<1>13. TabCurrent'
  BY <1>2, <1>4, <1>8, <1>9, <1>10, <1>11, <1>12 DEF TabCurrent
<1>14. \A a \in Sent : intents[a] = intent => id = a
  BY <1>1, <1>3, <1>6 DEF SentKnown, TabCurrent, PublishingTyped, Sent
<1>15. id \in Sent /\ id \notin Published => stored = id
  BY <1>1, <1>3 DEF SentKnown, TabCurrent
<1>16. SentKnown'
  BY <1>2, <1>3, <1>4, <1>8, <1>9, <1>10, <1>14, <1>15 DEF SentKnown
<1> QED BY <1>5, <1>7, <1>13, <1>16 DEF Publishing

LEMMA ReloadKeepsPublishing == ASSUME Publishing, Reload PROVE Publishing'
<1> USE NoneIsNoId
<1>1. /\ tab.loaded /\ tab' = FreshTab
      /\ intent' = IF tab.status = "confirmed" THEN intent + 1 ELSE intent
      /\ UNCHANGED <<stored, calls, intents, updates>>
  BY DEF Reload
<1>2. PublishingTyped /\ IdsInOrder /\ TabCurrent /\ SentKnown
  BY DEF Publishing
<1>3. UNCHANGED <<Sent, UsedIds, Published>>
  BY <1>1 DEF Sent, UsedIds, Published
<1>4. ~tab'.loaded /\ tab'.id = None /\ tab'.status = "idle" /\ ~tab'.waiting
  BY <1>1 DEF FreshTab
<1>5. intent' \in Nat \ {0} /\ intent <= intent' /\ \A a \in Ids : intents[a] \in Nat /\ intents[a] <= intent
  BY <1>1, <1>2 DEF PublishingTyped, IdsInOrder
<1>6. PublishingTyped'
  BY <1>1, <1>2, <1>3, <1>5 DEF PublishingTyped, FreshTab, TabType
<1>7. IdsInOrder'
  <2>1. \A a \in Ids : intents'[a] <= intent'
    BY <1>1, <1>2, <1>5 DEF PublishingTyped
  <2> QED BY <1>1, <1>2, <1>3, <2>1 DEF IdsInOrder
<1>8. TabCurrent'
  BY <1>1, <1>2, <1>3, <1>4 DEF TabCurrent
<1>9. \A a \in Sent : a \in Ids /\ (intents[a] = intent' => stored = a)
  <2> SUFFICES ASSUME NEW a \in Sent PROVE a \in Ids /\ (intents[a] = intent' => stored = a)
    OBVIOUS
  <2>1. a \in Ids
    BY <1>2 DEF Sent, PublishingTyped
  <2>2. CASE tab.status = "confirmed"
    BY <1>1, <1>2, <1>5, <2>1, <2>2 DEF PublishingTyped
  <2>3. CASE tab.status # "confirmed"
    BY <1>1, <1>2, <2>1, <2>3 DEF SentKnown
  <2> QED BY <2>1, <2>2, <2>3
<1>10. SentKnown'
  BY <1>1, <1>2, <1>3, <1>4, <1>9 DEF SentKnown
<1> QED BY <1>6, <1>7, <1>8, <1>10 DEF Publishing

LEMMA AnotherKeepsPublishing == ASSUME Publishing, WriteAnother PROVE Publishing'
<1> USE NoneIsNoId
<1>1. /\ tab.status = "confirmed" /\ ~tab.waiting
      /\ tab' = [tab EXCEPT !.id = None, !.status = "idle"]
      /\ intent' = intent + 1
      /\ UNCHANGED <<stored, calls, intents, updates>>
  BY DEF WriteAnother
<1>2. PublishingTyped /\ IdsInOrder /\ TabCurrent /\ SentKnown
  BY DEF Publishing
<1>3. UNCHANGED <<Sent, UsedIds, Published>>
  BY <1>1 DEF Sent, UsedIds, Published
<1>4. tab'.id = None /\ tab'.status = "idle" /\ ~tab'.waiting /\ tab'.loaded = tab.loaded /\ tab.loaded
  <2>1. tab'.id = None /\ tab'.status = "idle" /\ tab'.waiting = tab.waiting /\ tab'.loaded = tab.loaded
    BY <1>1, <1>2 DEF PublishingTyped, TabType
  <2> QED BY <1>1, <1>2, <2>1 DEF TabCurrent
<1>5. intent' \in Nat \ {0} /\ intent < intent' /\ \A a \in Ids : intents[a] \in Nat /\ intents[a] <= intent
  BY <1>1, <1>2 DEF PublishingTyped, IdsInOrder
<1>6. PublishingTyped'
  BY <1>1, <1>2, <1>3, <1>5 DEF PublishingTyped, TabType
<1>7. IdsInOrder'
  <2>1. \A a \in Ids : intents'[a] <= intent'
    BY <1>1, <1>2, <1>5 DEF PublishingTyped
  <2> QED BY <1>1, <1>2, <1>3, <2>1 DEF IdsInOrder
<1>8. TabCurrent'
  BY <1>1, <1>2, <1>3, <1>4 DEF TabCurrent
<1>9. \A a \in Sent : intents[a] # intent'
  <2> SUFFICES ASSUME NEW a \in Sent PROVE intents[a] # intent'
    OBVIOUS
  <2>1. a \in Ids
    BY <1>2 DEF Sent, PublishingTyped
  <2> QED BY <1>2, <1>5, <2>1 DEF PublishingTyped
<1>10. SentKnown'
  BY <1>1, <1>2, <1>3, <1>4, <1>9 DEF SentKnown, Sent, PublishingTyped
<1> QED BY <1>6, <1>7, <1>8, <1>10 DEF Publishing

-----------------------------------------------------------------------------
(* A publication leaves the tab, and reaches the server.                   *)

LEMMA NextId ==
  ASSUME IdsInOrder
  PROVE  /\ Cardinality(UsedIds) + 1 \notin UsedIds
         /\ \A id \in Ids : id = Cardinality(UsedIds) + 1 =>
              \E k \in 0..MaxUpdates : UsedIds \cup {id} = 1..k
<1>1. PICK k \in 0..MaxUpdates : UsedIds = 1..k
  BY DEF IdsInOrder
<1>2. Cardinality(UsedIds) = k /\ k \in Nat /\ MaxUpdates \in Nat
  BY <1>1, FS_Interval, OutboxAssumption
<1>3. k + 1 \notin 1..k /\ (1..k) \cup {k + 1} = 1..(k + 1)
  BY <1>2
<1>4. ASSUME NEW id \in Ids, id = k + 1 PROVE \E j \in 0..MaxUpdates : UsedIds \cup {id} = 1..j
  <2>1. k + 1 \in 0..MaxUpdates
    BY <1>2, <1>4 DEF Ids
  <2> QED BY <1>1, <1>3, <1>4, <2>1
<1> QED BY <1>1, <1>2, <1>3, <1>4

\* The request id of a publication is the current one, or new.
LEMMA PublishHow ==
  ASSUME Publishing, Publish
  PROVE  \E id \in Ids :
           /\ tab.id = id \/ (tab.id = None /\ id \notin UsedIds)
           /\ \E k \in 0..MaxUpdates : UsedIds \cup {id} = 1..k
           /\ intents' = [intents EXCEPT ![id] = intent]
           /\ \/ /\ tab' = [tab EXCEPT !.id = id, !.waiting = TRUE]
                 /\ stored' = id /\ calls' = calls \cup {id}
              \/ /\ tab' = [tab EXCEPT !.id = id, !.status = "unknown"]
                 /\ UNCHANGED <<stored, calls>>
           /\ tab.loaded /\ ~tab.waiting /\ tab.status # "confirmed" /\ UNCHANGED <<intent, updates>>
<1>1. PICK id : id = IF tab.id = None THEN Cardinality(UsedIds) + 1 ELSE tab.id
  OBVIOUS
<1>2. /\ id \in Ids /\ intents' = [intents EXCEPT ![id] = intent]
      /\ \/ /\ tab' = [tab EXCEPT !.id = id, !.waiting = TRUE]
            /\ stored' = id /\ calls' = calls \cup {id}
         \/ /\ tab' = [tab EXCEPT !.id = id, !.status = "unknown"]
            /\ UNCHANGED <<stored, calls>>
      /\ tab.loaded /\ ~tab.waiting /\ tab.status # "confirmed" /\ UNCHANGED <<intent, updates>>
  BY <1>1 DEF Publish, Persisted
<1>3. CASE tab.id = None
  BY <1>1, <1>2, <1>3, NextId DEF Publishing
<1>4. CASE tab.id # None
  <2>1. tab.id = id /\ intents[id] = intent /\ intent # 0
    BY <1>1, <1>4 DEF Publishing, TabCurrent, PublishingTyped
  <2>2. id \in UsedIds
    BY <1>2, <2>1 DEF UsedIds
  <2>3. UsedIds \cup {id} = UsedIds
    BY <2>2
  <2> QED BY <1>2, <2>1, <2>3 DEF Publishing, IdsInOrder
<1> QED BY <1>3, <1>4

LEMMA PublishKeepsPublishing == ASSUME Publishing, Publish PROVE Publishing'
<1> USE NoneIsNoId
<1>1. PICK id \in Ids :
        /\ tab.id = id \/ (tab.id = None /\ id \notin UsedIds)
        /\ \E k \in 0..MaxUpdates : UsedIds \cup {id} = 1..k
        /\ intents' = [intents EXCEPT ![id] = intent]
        /\ \/ /\ tab' = [tab EXCEPT !.id = id, !.waiting = TRUE]
              /\ stored' = id /\ calls' = calls \cup {id}
           \/ /\ tab' = [tab EXCEPT !.id = id, !.status = "unknown"]
              /\ UNCHANGED <<stored, calls>>
        /\ tab.loaded /\ ~tab.waiting /\ tab.status # "confirmed" /\ UNCHANGED <<intent, updates>>
  BY PublishHow
<1>2. PublishingTyped /\ IdsInOrder /\ TabCurrent /\ SentKnown
  BY DEF Publishing
<1>3. Published' = Published /\ intents' \in [Ids -> Nat] /\ intents'[id] = intent
      /\ \A a \in Ids : a # id => intents'[a] = intents[a]
  BY <1>1, <1>2 DEF PublishingTyped, Published
<1>4. /\ tab'.id = id /\ tab'.loaded /\ tab'.status # "confirmed"
      /\ tab'.status \in {"idle", "unknown", "confirmed"} /\ tab' \in TabType
  BY <1>1, <1>2 DEF PublishingTyped, TabType
<1>5. /\ stored' = stored \/ stored' = id
      /\ calls' = calls \/ (calls' = calls \cup {id} /\ stored' = id)
  BY <1>1
<1>6. PublishingTyped'
  BY <1>1, <1>2, <1>3, <1>4, <1>5 DEF PublishingTyped
<1>7. UsedIds' = UsedIds \cup {id}
  BY <1>1, <1>2, <1>3 DEF UsedIds, PublishingTyped
<1>8. Sent' = Sent \/ (Sent' = Sent \cup {id} /\ stored' = id)
  BY <1>3, <1>5 DEF Sent
<1>9. Sent \subseteq Ids /\ \A a \in Sent : a \in UsedIds
  BY <1>2 DEF Sent, PublishingTyped, IdsInOrder
<1>10. \A a \in Ids : intents'[a] <= intent'
  BY <1>1, <1>2, <1>3 DEF IdsInOrder, PublishingTyped
<1>11. IdsInOrder'
  BY <1>1, <1>2, <1>7, <1>8, <1>9, <1>10 DEF IdsInOrder
<1>12. stored # None => stored = id
  BY <1>1, <1>2 DEF TabCurrent
<1>13. TabCurrent'
  <2>1. stored' # None => stored' = id
    BY <1>5, <1>12
  <2>2. tab'.id # None /\ intents'[id] = intent'
    BY <1>1, <1>3, <1>4
  <2> QED BY <1>4, <2>1, <2>2 DEF TabCurrent
<1>14. \A a \in Sent : intents'[a] = intents[a] /\ (intents[a] = intent => a = id)
  <2> SUFFICES ASSUME NEW a \in Sent PROVE intents'[a] = intents[a] /\ (intents[a] = intent => a = id)
    OBVIOUS
  <2>1. a \in Ids /\ a \in UsedIds
    BY <1>9
  <2>2. CASE a # id
    BY <1>1, <1>2, <1>3, <2>1, <2>2 DEF SentKnown
  <2>3. CASE a = id
    <3>1. tab.id = id
      BY <1>1, <2>1, <2>3
    <3>2. intents[id] = intent
      BY <1>2, <3>1 DEF TabCurrent
    <3> QED BY <1>3, <2>3, <3>2
  <2> QED BY <2>2, <2>3
<1>15. SentKnown'
  <2>1. \A a, b \in Sent' : intents'[a] = intents'[b] => a = b
    BY <1>2, <1>3, <1>8, <1>14 DEF SentKnown
  <2>2. \A a \in Sent' : intents'[a] = intent' => a = id
    BY <1>1, <1>8, <1>14
  <2>3. id \in Sent' => stored' = id
    <3>1. CASE id \in Sent
      <4>1. tab.id = id
        BY <1>1, <1>9, <3>1
      <4>2. stored = id
        BY <1>1, <1>2, <3>1, <4>1 DEF SentKnown
      <4> QED BY <1>5, <4>2
    <3>2. CASE id \notin Sent
      BY <1>8, <3>2
    <3> QED BY <3>1, <3>2
  <2> QED BY <1>4, <2>1, <2>2, <2>3 DEF SentKnown
<1> QED BY <1>6, <1>11, <1>13, <1>15 DEF Publishing

\* The answer reaches the tab, or is lost, and tells it no more than is so.
LEMMA AnsweredHow ==
  ASSUME Publishing, NEW id \in Ids, NEW ok \in BOOLEAN, Answered(id, ok)
  PROVE  \/ UNCHANGED <<tab, stored>>
         \/ /\ tab.waiting /\ tab.id = id /\ ok
            /\ tab' = [tab EXCEPT !.waiting = FALSE, !.status = "confirmed"] /\ stored' = None
         \/ /\ tab.waiting /\ tab.id = id
            /\ tab' = [tab EXCEPT !.waiting = FALSE, !.status = "unknown"] /\ stored' = stored
<1>1. CASE tab.waiting /\ tab.id = id
  <2>1. /\ tab' \in {[tab EXCEPT !.waiting = FALSE, !.status = s] :
                      s \in {IF ok THEN "confirmed" ELSE "unknown", "unknown"}}
        /\ stored' = IF tab'.status = "confirmed" THEN None ELSE stored
    BY <1>1 DEF Answered
  <2>2. PICK s \in {IF ok THEN "confirmed" ELSE "unknown", "unknown"} :
          tab' = [tab EXCEPT !.waiting = FALSE, !.status = s]
    BY <2>1
  <2>3. tab'.status = s
    BY <2>2 DEF Publishing, PublishingTyped, TabType
  <2>4. s = "unknown" \/ (s = "confirmed" /\ ok)
    BY <2>2
  <2> QED BY <1>1, <2>1, <2>2, <2>3, <2>4
<1>2. CASE ~(tab.waiting /\ tab.id = id)
  BY <1>2 DEF Answered
<1> QED BY <1>1, <1>2

LEMMA HandleKeepsPublishing == ASSUME Publishing, NEW id \in Ids, HandlePublish(id) PROVE Publishing'
<1> USE NoneIsNoId
<1>1. id \in calls /\ calls' = calls \ {id} /\ UNCHANGED <<intent, intents>>
  BY DEF HandlePublish
<1>2. PublishingTyped /\ IdsInOrder /\ TabCurrent /\ SentKnown
  BY DEF Publishing
<1>3. PICK ok \in BOOLEAN :
        /\ Answered(id, ok) /\ (ok => id \in Published')
        /\ \/ UNCHANGED updates
           \/ updates' = updates \cup {[id |-> id, at |-> now]} /\ id \notin Published
  <2>1. CASE id \in Published \/ TooSoon
    <3>1. Answered(id, id \in Published) /\ UNCHANGED updates /\ Published' = Published
      BY <2>1 DEF HandlePublish, Published
    <3>2. (id \in Published) \in BOOLEAN
      OBVIOUS
    <3> WITNESS (id \in Published) \in BOOLEAN
    <3> QED BY <3>1, Zenon
  <2>2. CASE ~(id \in Published \/ TooSoon)
    <3>1. Answered(id, TRUE) /\ updates' = updates \cup {[id |-> id, at |-> now]}
      BY <2>2 DEF HandlePublish
    <3> QED BY <2>2, <3>1, PublishedGrows
  <2> QED BY <2>1, <2>2
<1>4. /\ Published \subseteq Published' /\ Published' \subseteq Published \cup {id}
      /\ \A p, q \in updates' : p.id = q.id => p = q
  <2>1. CASE UNCHANGED updates
    BY <1>2, <2>1 DEF Published, IdsInOrder
  <2>2. CASE updates' = updates \cup {[id |-> id, at |-> now]} /\ id \notin Published
    <3>1. Published' = Published \cup {id}
      BY <2>2, PublishedGrows
    <3>2. PICK new : new = [id |-> id, at |-> now]
      OBVIOUS
    <3>3. new.id = id /\ \A p \in updates : p.id # id
      BY <2>2, <3>2 DEF Published
    <3>4. updates' = updates \cup {new}
      BY <2>2, <3>2
    <3> QED BY <1>2, <3>1, <3>3, <3>4 DEF IdsInOrder
  <2> QED BY <1>3, <2>1, <2>2
<1>5. Sent' \subseteq Sent /\ UsedIds' = UsedIds
  BY <1>1, <1>4 DEF Sent, UsedIds
<1>6. /\ tab' \in TabType /\ stored' \in Ids \cup {None}
      /\ tab'.id = tab.id /\ tab'.loaded = tab.loaded
      /\ \/ tab' = tab /\ stored' = stored
         \/ /\ tab'.status = "confirmed" /\ ~tab'.waiting /\ stored' = None /\ tab.waiting
            /\ tab.id \in Published'
         \/ tab'.status = "unknown" /\ ~tab'.waiting /\ stored' = stored /\ tab.waiting
  <2>1. tab \in TabType /\ stored \in Ids \cup {None}
    BY <1>2 DEF PublishingTyped
  <2>2. CASE UNCHANGED <<tab, stored>>
    BY <2>1, <2>2
  <2>3. CASE /\ tab.waiting /\ tab.id = id /\ ok
             /\ tab' = [tab EXCEPT !.waiting = FALSE, !.status = "confirmed"] /\ stored' = None
    BY <1>3, <2>1, <2>3 DEF TabType
  <2>4. CASE /\ tab.waiting /\ tab.id = id
             /\ tab' = [tab EXCEPT !.waiting = FALSE, !.status = "unknown"] /\ stored' = stored
    BY <2>1, <2>4 DEF TabType
  <2> QED BY <1>3, <2>2, <2>3, <2>4, AnsweredHow
<1>7. PublishingTyped'
  BY <1>1, <1>2, <1>4, <1>6 DEF PublishingTyped
<1>8. IdsInOrder'
  BY <1>1, <1>2, <1>4, <1>5 DEF IdsInOrder
<1>9. tab.waiting => tab.loaded /\ tab.status # "confirmed"
  BY <1>2 DEF TabCurrent
<1>10. TabCurrent'
  BY <1>1, <1>2, <1>4, <1>6, <1>9 DEF TabCurrent
<1>11. SentKnown'
  <2>1. \A a, b \in Sent' : intents'[a] = intents'[b] => a = b
    BY <1>1, <1>2, <1>5 DEF SentKnown
  <2>2. \A a \in Sent' : intents'[a] = intent' =>
          (tab'.loaded /\ tab'.id = a) \/ (~tab'.loaded /\ stored' = a)
    BY <1>1, <1>2, <1>5, <1>6, <1>9 DEF SentKnown
  <2>3. tab'.id \in Sent' /\ tab'.status # "confirmed" => stored' = tab'.id
    BY <1>2, <1>5, <1>6, <1>9 DEF SentKnown
  <2> QED BY <2>1, <2>2, <2>3 DEF SentKnown
<1> QED BY <1>7, <1>8, <1>10, <1>11 DEF Publishing

LEMMA PublishingStep == Publishing /\ [Next]_vars => Publishing'
<1> SUFFICES ASSUME Publishing, [Next]_vars PROVE Publishing'
  OBVIOUS
<1>1. CASE UNCHANGED vars \/ Tick
  BY <1>1, PublishingAside DEF vars, tabVars, Tick
<1>2. CASE Read \/ Reload \/ Publish \/ WriteAnother
  BY <1>2, ReadKeepsPublishing, ReloadKeepsPublishing, PublishKeepsPublishing, AnotherKeepsPublishing
<1>3. ASSUME NEW u \in People, ChangeEmail(u) \/ setCampaignUpdateSubscription(u) PROVE Publishing'
  BY <1>3, PublishingAside DEF ChangeEmail, setCampaignUpdateSubscription, Subscribe, Unsubscribe, tabVars
<1>4. ASSUME NEW id \in Ids, HandlePublish(id) PROVE Publishing'
  BY <1>4, HandleKeepsPublishing
<1>5. ASSUME NEW w \in Runs, dispatchCampaignUpdateEmails(w) PROVE Publishing'
  BY <1>5, PublishingAside
     DEF dispatchCampaignUpdateEmails, Claim, TakeRow, CheckSubscription, CheckAccount, Reads, Send, Finish, tabVars
<1> QED BY <1>1, <1>2, <1>3, <1>4, <1>5 DEF Next

LEMMA PublishingHolds == Spec => []Publishing
BY PublishingInit, PublishingStep, PTL DEF Spec

\* What the organizer wrote is published at most once, through lost answers,
\* reloads, retries and drafts that could not be stored.
THEOREM UpdatePublishedOnce == Spec => []PublishedOnce
<1>1. Publishing => PublishedOnce
  <2> SUFFICES ASSUME Publishing, NEW p \in updates, NEW q \in updates, intents[p.id] = intents[q.id]
               PROVE  p = q
    BY DEF PublishedOnce
  <2>1. p.id \in Sent /\ q.id \in Sent
    BY DEF Sent, Published
  <2>2. p.id = q.id
    BY <2>1 DEF Publishing, SentKnown
  <2> QED BY <2>2 DEF Publishing, IdsInOrder
<1> QED BY <1>1, PublishingHolds, PTL

\* A row is claimed exactly while it is in flight; an accepted one was mailed.
THEOREM OutboxTyped == Spec => []TypeOK
<1>1. Delivery /\ Publishing => TypeOK
  <2> SUFFICES ASSUME Delivery, Publishing PROVE TypeOK
    OBVIOUS
  <2>1. now \in 0..MaxTime
    BY ConstantsTyped DEF Delivery, DeliveryTyped
  <2>2. stored \in Ids \cup {None} /\ tab.id \in Ids \cup {None}
    BY DEF Publishing, PublishingTyped, TabType
  <2>3. ASSUME NEW m \in Rows
        PROVE  LET o == outbox[m] IN
               /\ (o.status = "inflight") = (o.token # None)
               /\ o.status = "absent" => m[1] \notin Published \/ o = NoRow
               /\ o.status = "pending" => o.first = None
               /\ o.status = "accepted" => mails[m] > 0
    BY DEF Delivery, RowOK
  <2> QED BY <2>1, <2>2, <2>3 DEF TypeOK
<1> QED BY <1>1, DeliveryHolds, PublishingHolds, PTL
=============================================================================
