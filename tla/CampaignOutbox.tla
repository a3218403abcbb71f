--------------------------- MODULE CampaignOutbox ---------------------------
(***************************************************************************)
(* Campaign update e-mails: the organizer's tab that publishes updates     *)
(* (web/components/CampaignOrganizerUpdates.tsx), the subscription box     *)
(* (CampaignUpdateSubscription.tsx), the server functions behind both      *)
(* (web/lib/server/campaignUpdates.ts with supabase/campaign_updates.sql)  *)
(* and the mail provider, which drops a request whose idempotency key it   *)
(* has accepted within RETENTION.                                          *)
(*                                                                         *)
(* Left out: texts, the reads of the chain that tie a campaign to its      *)
(* creator, and the sender's configuration.  A dispatch that takes no      *)
(* further step has died.  One unit of time is longer than the minute      *)
(* between publications and than a lease.                                  *)
(***************************************************************************)
EXTENDS Integers, FiniteSets

CONSTANTS
  People,      \* accounts that may subscribe
  MaxUpdates,  \* bound: request ids the organizer's tab makes
  MaxRuns,     \* bound: dispatches
  MaxMailed,   \* bound: request ids whose outbox rows are followed
  MaxTime,     \* bound: last instant
  MaxEmail,    \* bound: addresses of an account, numbered from 1
  None,
  LIMIT,       \* rows of one claim (5)
  LEASE,       \* 3 minutes
  PAUSE,       \* 1 minute, between publications and before a retry
  WINDOW,      \* 23 hours in which a request may be repeated
  RETENTION,   \* 24 hours in which the provider remembers a key
  STALL        \* from the last look at the clock to the provider: the timeouts
               \* of the two consent reads and of the request

Ids == 1..MaxUpdates
Runs == 1..MaxRuns
Mailed == 1..MaxMailed
Rows == Mailed \X People

ASSUME OutboxAssumption ==
  /\ MaxUpdates \in Nat /\ MaxRuns \in Nat /\ MaxMailed \in 0..MaxUpdates /\ MaxTime \in Nat /\ MaxEmail \in Nat \ {0}
  /\ LIMIT \in Nat \ {0} /\ LEASE \in Nat \ {0} /\ PAUSE \in Nat /\ STALL \in Nat /\ RETENTION \in Nat
  /\ WINDOW \in Nat \ {0} /\ RETENTION >= WINDOW + STALL /\ None \notin Int

VARIABLES
  now,
  account,   \* confirmed address of each account
  sub,       \* campaign_update_subscriptions: [active, email]
  tab,       \* the organizer's tab: [loaded, id, status, waiting]
  stored,    \* request id in the tab's session storage, or None
  intent,    \* history: the update the organizer is writing, numbered
  calls,     \* request ids of publications on their way to the server
  updates,   \* campaign_updates: [id, at]; intents: what each was meant to be
  intents,   \* history: request id -> intent
  outbox,    \* campaign_update_outbox, by row
  run,       \* dispatches: [pc, queue, row, since]
  provider,  \* idempotency keys: when first accepted
  mails      \* history: e-mails the provider accepted, by row

subVars == <<account, sub>>
tabVars == <<tab, stored, intent, calls, intents>>
vars == <<now, subVars, tabVars, updates, outbox, run, provider, mails>>

NoRow == [status |-> "absent", email |-> 0, first |-> None, retry |-> 0,
          token |-> None, until |-> 0]
NoRun == [pc |-> "new", queue |-> {}, row |-> None, since |-> 0]
FreshTab == [loaded |-> FALSE, id |-> None, status |-> "idle", waiting |-> FALSE]

Init ==
  /\ now = 0
  /\ account = [u \in People |-> 1]
  /\ sub = [u \in People |-> [active |-> FALSE, email |-> 0]]
  /\ tab = FreshTab /\ stored = None /\ intent = 1 /\ calls = {}
  /\ updates = {} /\ intents = [id \in Ids |-> 0]
  /\ outbox = [m \in Rows |-> NoRow]
  /\ run = [w \in Runs |-> NoRun]
  /\ provider = [m \in Rows |-> None] /\ mails = [m \in Rows |-> 0]

Tick ==
  /\ now < MaxTime
  /\ now' = now + 1
  /\ UNCHANGED <<subVars, tabVars, updates, outbox, run, provider, mails>>

-----------------------------------------------------------------------------
\* Subscribing.

ChangeEmail(u) ==
  /\ account[u] < MaxEmail
  /\ account' = [account EXCEPT ![u] = @ + 1]
  /\ UNCHANGED <<now, sub, tabVars, updates, outbox, run, provider, mails>>

\* The box asks for the account it shows, and another signed-in account is
\* refused; a stale box may ask for what already holds.
Subscribe(u) ==
  /\ sub' = [sub EXCEPT ![u] = [active |-> TRUE, email |-> account[u]]]
  /\ UNCHANGED <<now, account, tabVars, updates, outbox, run, provider, mails>>

Cancellable == {"pending", "unknown", "inflight"}

\* Faulty variant: the lease is left on the row.
Cancelled_Leased(o) == [o EXCEPT !.status = "cancelled", !.retry = 0]
Cancelled(o) == [o EXCEPT !.status = "cancelled", !.token = None, !.until = 0, !.retry = 0]

Unsubscribe(u) ==
  /\ sub' = [sub EXCEPT ![u].active = FALSE]
  /\ outbox' = [m \in Rows |->
       IF m[2] = u /\ outbox[m].status \in Cancellable
       THEN Cancelled(outbox[m]) ELSE outbox[m]]
  /\ UNCHANGED <<now, account, tabVars, updates, run, provider, mails>>

\* What the box's buttons ask the server for.
setCampaignUpdateSubscription(u) == Subscribe(u) \/ Unsubscribe(u)

-----------------------------------------------------------------------------
\* Publishing.

Published == {p.id : p \in updates}

\* The first and every later read of the page: a stored draft comes back with
\* its request id, and is confirmed once its update is listed.
Read ==
  LET id == IF tab.id = None THEN stored ELSE tab.id
      listed == id \in Published
  IN
  /\ ~tab.waiting
  /\ tab' = [loaded |-> TRUE, id |-> id, waiting |-> FALSE,
             status |-> IF listed THEN "confirmed"
                        ELSE IF tab.id = None /\ stored # None THEN "unknown" ELSE tab.status]
  /\ stored' = IF listed THEN None ELSE stored
  /\ UNCHANGED <<now, subVars, intent, calls, updates, intents, outbox, run, provider, mails>>

\* A reload, or a change of account, forgets everything but the storage.
Reload ==
  /\ tab.loaded
  /\ tab' = FreshTab
  /\ intent' = IF tab.status = "confirmed" THEN intent + 1 ELSE intent
  /\ UNCHANGED <<now, subVars, stored, calls, updates, intents, outbox, run, provider, mails>>

UsedIds == {id \in Ids : intents[id] # 0}

\* Faulty variant: the request id is not kept for a reload.
Persisted_Not(id) == stored
Persisted(id) == id

\* When the draft cannot be stored, nothing is sent.
Publish ==
  LET id == IF tab.id = None THEN Cardinality(UsedIds) + 1 ELSE tab.id IN
  /\ tab.loaded /\ ~tab.waiting /\ tab.status # "confirmed"
  /\ id \in Ids
  /\ intents' = [intents EXCEPT ![id] = intent]
  /\ \/ /\ tab' = [tab EXCEPT !.id = id, !.waiting = TRUE]
        /\ stored' = Persisted(id)
        /\ calls' = calls \cup {id}
     \/ /\ tab' = [tab EXCEPT !.id = id, !.status = "unknown"]
        /\ UNCHANGED <<stored, calls>>
  /\ UNCHANGED <<now, subVars, intent, updates, outbox, run, provider, mails>>

WriteAnother ==
  /\ tab.status = "confirmed" /\ ~tab.waiting
  /\ tab' = [tab EXCEPT !.id = None, !.status = "idle"]
  /\ intent' = intent + 1
  /\ UNCHANGED <<now, subVars, stored, calls, updates, intents, outbox, run, provider, mails>>

TooSoon == \E p \in updates : p.at > now - PAUSE

\* The answer, if the tab still waits for it, or a lost one.
Answered(id, ok) ==
  IF tab.waiting /\ tab.id = id
  THEN /\ tab' \in {[tab EXCEPT !.waiting = FALSE, !.status = s] :
                      s \in {IF ok THEN "confirmed" ELSE "unknown", "unknown"}}
       /\ stored' = IF tab'.status = "confirmed" THEN None ELSE stored
  ELSE UNCHANGED <<tab, stored>>

\* campaign_updates_publish, which repeats its answer for a known request id.
HandlePublish(id) ==
  /\ id \in calls /\ calls' = calls \ {id}
  /\ IF id \in Published \/ TooSoon
     THEN UNCHANGED <<updates, outbox>> /\ Answered(id, id \in Published)
     ELSE /\ updates' = updates \cup {[id |-> id, at |-> now]}
          /\ outbox' = [m \in Rows |->
               IF m[1] = id /\ sub[m[2]].active
               THEN [NoRow EXCEPT !.status = "pending", !.email = sub[m[2]].email]
               ELSE outbox[m]]
          /\ Answered(id, TRUE)
  /\ UNCHANGED <<now, subVars, intent, intents, run, provider, mails>>

-----------------------------------------------------------------------------
\* Dispatching.

\* Rows of an update whose key the provider is about to forget.
TooOld(m) ==
  /\ outbox[m].status \in {"unknown", "inflight"}
  /\ outbox[m].first <= now - WINDOW /\ outbox[m].until <= now

Subscribed(m) == sub[m[2]].active /\ sub[m[2]].email = outbox[m].email

Eligible(m) ==
  LET o == outbox[m] IN
  /\ Subscribed(m)
  /\ o.status \in {"pending", "unknown"} \/ (o.status = "inflight" /\ o.until <= now)
  /\ o.retry <= now
  /\ o.first = None \/ o.first > now - WINDOW

Claim(w, id) ==
  LET rows == {m \in Rows : m[1] = id}
      able == {m \in rows : Eligible(m)}
  IN
  /\ run[w].pc = "new" /\ \A v \in Runs : v < w => run[v].pc # "new"
  /\ id \in Published
  /\ \E mine \in SUBSET able :
       /\ Cardinality(mine) <= LIMIT /\ (mine # able => Cardinality(mine) = LIMIT)
       /\ outbox' = [m \in Rows |->
            IF m \in mine
            THEN [outbox[m] EXCEPT !.status = "inflight", !.token = w, !.until = now + LEASE,
                                   !.first = IF @ = None THEN now ELSE @]
            ELSE IF m \in rows /\ TooOld(m)
            THEN [outbox[m] EXCEPT !.status = "needs_review", !.token = None, !.until = 0, !.retry = 0]
            ELSE outbox[m]]
       /\ run' = [run EXCEPT ![w] = [NoRun EXCEPT !.pc = "next", !.queue = mine]]
  /\ UNCHANGED <<now, subVars, tabVars, updates, provider, mails>>

\* campaignEmailRetryAllowed; the claimed row carries its first attempt.
\* Faulty variant: only the claim looks at the clock.
RetryAllowed_Always(m) == TRUE
RetryAllowed(m) == now - outbox[m].first < WINDOW

TakeRow(w) ==
  /\ run[w].pc = "next"
  /\ \E m \in run[w].queue :
       run' = [run EXCEPT ![w].queue = @ \ {m},
                 ![w].row = IF RetryAllowed(m) THEN m ELSE None,
                 ![w].pc = IF RetryAllowed(m) THEN "check" ELSE "next",
                 ![w].since = IF RetryAllowed(m) THEN now ELSE 0]
  /\ UNCHANGED <<now, subVars, tabVars, updates, outbox, provider, mails>>

Finishing(w, status) == run' = [run EXCEPT ![w].pc = status]

\* recipientStillConsents reads the subscription, then the account, and either
\* read may fail.  The row itself is not read again.
Reads(w, consents, next) ==
  /\ \/ consents /\ Finishing(w, next)
     \/ ~consents /\ Finishing(w, "cancelled")
     \/ Finishing(w, "unknown")
  /\ UNCHANGED <<now, subVars, tabVars, updates, outbox, provider, mails>>
CheckSubscription(w) ==
  run[w].pc = "check" /\ Reads(w, Subscribed(run[w].row), "account")
CheckAccount(w) ==
  LET m == run[w].row IN
  run[w].pc = "account" /\ Reads(w, account[m[2]] = outbox[m].email, "send")

Remembered(m) == provider[m] # None /\ now < provider[m] + RETENTION

\* The provider takes the request (once per key) or not, and whatever it did
\* the answer may be missing, late or unreadable.
Send(w) ==
  LET m == run[w].row IN
  /\ run[w].pc = "send" /\ now <= run[w].since + STALL
  /\ \/ /\ IF Remembered(m) THEN UNCHANGED <<provider, mails>>
           ELSE /\ provider' = [provider EXCEPT ![m] = now]
                /\ mails' = [mails EXCEPT ![m] = @ + 1]
        /\ \E status \in {"accepted", "unknown"} : Finishing(w, status)
     \/ /\ \E status \in {"rejected", "unknown"} : Finishing(w, status)
        /\ UNCHANGED <<provider, mails>>
  /\ UNCHANGED <<now, subVars, tabVars, updates, outbox>>

Finish(w) ==
  LET m == run[w].row IN
  /\ run[w].pc \in {"accepted", "unknown", "rejected", "cancelled"}
  /\ \/ /\ outbox[m].status = "inflight" /\ outbox[m].token = w
        /\ outbox' = [outbox EXCEPT ![m].status = run[w].pc, ![m].token = None, ![m].until = 0,
                        ![m].retry = IF run[w].pc = "unknown" THEN now + PAUSE ELSE 0]
     \/ outbox' = outbox \* the lease is gone, or the call failed
  /\ run' = [run EXCEPT ![w].pc = "next", ![w].row = None, ![w].since = 0]
  /\ UNCHANGED <<now, subVars, tabVars, updates, provider, mails>>

dispatchCampaignUpdateEmails(w) ==
  \/ \E id \in Mailed : Claim(w, id)
  \/ TakeRow(w) \/ CheckSubscription(w) \/ CheckAccount(w) \/ Send(w) \/ Finish(w)

Next ==
  \/ Tick
  \/ \E u \in People : ChangeEmail(u) \/ setCampaignUpdateSubscription(u)
  \/ Read \/ Reload \/ Publish \/ WriteAnother
  \/ \E id \in Ids : HandlePublish(id)
  \/ \E w \in Runs : dispatchCampaignUpdateEmails(w)

Spec == Init /\ [][Next]_vars

-----------------------------------------------------------------------------

\* The shape of the tables, and what a status says: a row is claimed exactly
\* while it is in flight, and an accepted one has been mailed.
TypeOK ==
  /\ now \in 0..MaxTime
  /\ stored \in Ids \cup {None} /\ tab.id \in Ids \cup {None}
  /\ \A m \in Rows :
       LET o == outbox[m] IN
       /\ (o.status = "inflight") = (o.token # None)
       /\ o.status = "absent" => m[1] \notin Published \/ o = NoRow
       /\ o.status = "pending" => o.first = None
       /\ o.status = "accepted" => mails[m] > 0

\* What the organizer wrote is published at most once, through lost answers,
\* reloads and retries (CampaignOrganizerUpdates.tsx:138-141, "A reload must
\* keep the SAME request ID after an uncertain result").
PublishedOnce ==
  \A p, q \in updates : intents[p.id] = intents[q.id] => p = q

\* The promise to subscribers: a mail is taken while some dispatch that claimed
\* it has not read the recipient's subscription, started once it has.
Promise == INSTANCE ConsentedMail WITH
  Updates <- Mailed,
  subscribed <- {u \in People : sub[u].active},
  published <- Published \cap Mailed,
  owed <- {m \in Rows : outbox[m].status \in {"pending", "unknown", "inflight"}},
  taken <- UNION {run[w].queue \cup (IF run[w].pc = "check" THEN {run[w].row} ELSE {}) : w \in Runs},
  started <- {run[w].row : w \in {v \in Runs : run[v].pc \in {"account", "send"}}},
  sent <- mails

\* The outbox keeps the promise (campaignUpdates.ts:235-293).
KeepsPromise == Promise!Spec
=============================================================================
