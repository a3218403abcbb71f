---------------------------- MODULE Submissions ----------------------------
(***************************************************************************)
(* How a page sends a transaction that must not be sent twice.  A server   *)
(* action signs and submits on the server and answers with success,        *)
(* definite failure, or "pending" with the hash; the browser tab keeps a   *)
(* lock per context in sessionStorage from before the call until a result  *)
(* is definitive.  Answers get lost, pages are left and entered again,     *)
(* status checks of an old hash come back late, the account changes while  *)
(* a request waits.                                                        *)
(*                                                                         *)
(* A call is one server action; an envelope <<c, i>> is the i-th           *)
(* transaction call c signed (the demo-participant actions sign several).  *)
(***************************************************************************)
EXTENDS Naturals, Sequences, FiniteSets

CONSTANTS People,     \* accounts with a saved wallet
          Demo,       \* the shared demo account a guest's payment comes from
          Guest,      \* no session
          Slots,      \* the hooks a tab has mounted, on one page or on two
          None,       \* a lock that is clear, an answer that has not come
          MaxCalls,   \* bound: server actions sent
          MaxTerms    \* bound: changes of the terms a page reviews

ASSUME SubmissionsAssumption ==
  /\ Demo \notin People /\ Guest \notin People /\ Demo # Guest
  /\ None \notin People \cup Slots \cup {Guest}
  /\ None \notin [id : Nat, hash : Nat]
  /\ None \notin [kind : {"pending", "failed", "ok", "thrown"}, hash : Nat]
  /\ None \notin [account : People, terms : Nat]
  /\ MaxCalls \in Nat /\ MaxTerms \in Nat

Calls == 1 .. MaxCalls

(***************************************************************************)
(* The server actions: the steps each takes before the network has it.     *)
(*   "account"  the request's account must be the one reviewed             *)
(*   "terms"    the terms are read again and must be the ones reviewed     *)
(*   "saved"    the signing key of the signed-in account's saved wallet    *)
(*   "any"      that key, or the demo account's for a guest                *)
(*   "send"     sign, submit, confirm                                      *)
(*   "friend"   the same for one demo participant, unless it is done       *)
(***************************************************************************)
Action(steps, catches) == [steps |-> steps, catches |-> catches]

donateCircleTestnet == Action(<<"account", "terms", "saved", "account", "send">>, TRUE)
disasterContribute  == Action(<<"any", "send">>, TRUE)
privileged          == Action(<<"saved", "send">>, TRUE)
write               == Action(<<"saved", "send">>, TRUE)
arisanCreate        == Action(<<"saved", "send">>, TRUE)
arisanJoin          == Action(<<"account", "terms", "saved", "terms", "send">>, TRUE)
arisanMove          == Action(<<"saved", "send">>, TRUE)
arisanDraw          == Action(<<"saved", "send">>, TRUE)
arisanPostpone      == Action(<<"saved", "send">>, TRUE)
arisanFriendsJoin   == Action(<<"saved", "friend", "friend">>, TRUE)
arisanFriendsDrawAction == Action(<<"saved", "friend", "friend">>, TRUE)
fundingCreate       == Action(<<"account", "saved", "send">>, TRUE)
reviewedMutation    == Action(<<"account", "terms", "saved", "terms", "send">>, TRUE)
roomMutation        == Action(<<"account", "terms", "saved", "terms", "send">>, TRUE)
smartSavingsOpen     == Action(<<"any", "send">>, FALSE)
smartSavingsDeposit  == Action(<<"any", "send">>, FALSE)
smartSavingsWithdraw == Action(<<"any", "send">>, FALSE)
paluwaganPayMine    == Action(<<"any", "send">>, FALSE)
paluwaganCollect    == Action(<<"any", "send">>, FALSE)
paluwaganFriendsPay == Action(<<"saved", "friend", "friend">>, TRUE)

(***************************************************************************)
(* The pages: the context whose lock they hold, whether success keeps the  *)
(* lock until its record is verified, whether the account and the terms    *)
(* are reviewed, whether the success answer is itself the verification,    *)
(* and the actions they offer.                                             *)
(***************************************************************************)
Page(context, keep, reviewed, verifies, actions) ==
  [context |-> context, keep |-> keep, reviewed |-> reviewed,
   verifies |-> verifies, actions |-> actions]

CircleTestnetDonate == Page("circle-donate", TRUE, TRUE, FALSE, {donateCircleTestnet})
TransparencyScreen  == Page("disaster:d3", FALSE, FALSE, FALSE, {disasterContribute})
DisasterControls    == Page("disaster:d3", FALSE, FALSE, FALSE, {privileged})
CampaignScreen      == Page("campaign:d4", FALSE, FALSE, FALSE, {write})
ArisanCreateScreen  == Page("arisan:rooms", FALSE, FALSE, FALSE, {arisanCreate})
ArisanJoinScreen    == Page("arisan:rooms", FALSE, TRUE, FALSE, {arisanJoin})
ArisanRoomScreen    == Page("arisan:rooms", FALSE, FALSE, FALSE,
                            {arisanMove, arisanDraw, arisanPostpone, arisanFriendsJoin, arisanFriendsDrawAction})
FundingRooms        == Page("arisan:installment-rooms", FALSE, TRUE, FALSE,
                            {reviewedMutation, roomMutation})
FundingCreate       == Page("arisan:installment-create", TRUE, TRUE, TRUE, {fundingCreate})
SavingsScreen       == Page("savings:experimental", FALSE, FALSE, FALSE,
                            {smartSavingsOpen, smartSavingsDeposit, smartSavingsWithdraw})
PaluwaganScreen     == Page("paluwagan:legacy", FALSE, FALSE, FALSE,
                            {paluwaganPayMine, paluwaganFriendsPay, paluwaganCollect})

\* The pages a tab goes back and forth between within one area of the app.
Areas == { {CircleTestnetDonate}, {TransparencyScreen, DisasterControls}, {CampaignScreen},
           {ArisanCreateScreen, ArisanJoinScreen, ArisanRoomScreen},
           {FundingRooms, FundingCreate}, {SavingsScreen}, {PaluwaganScreen} }

VARIABLES
  area,      \* the pages of this tab's area
  slot,      \* slot -> page mounted there
  lock,      \* context -> None, or [id, hash] with hash 0 while none is known
  terms,     \* revision of what the pages review
  call,      \* the server actions sent so far, in order
  checks,    \* status checks in flight: [slot, id, hash, keep]
  verified   \* calls whose donor row is stored or whose room is verified
vars == <<area, slot, lock, terms, call, checks, verified>>

Contexts == {p.context : p \in area}
IsCall(c) == c \in 1 .. Len(call)

Init ==
  /\ area \in Areas
  /\ slot \in [Slots -> area]
  /\ lock = [x \in Contexts |-> None]
  /\ terms = 0
  /\ call = <<>> /\ checks = {} /\ verified = {}

----------------------------------------------------------------------------
(* The lock in the tab's session storage. *)

readSubmissionState(context) == lock[context]

beginSubmission(context, id) ==
  /\ readSubmissionState(context) = None
  /\ lock' = [lock EXCEPT ![context] = [id |-> id, hash |-> 0]]

\* What storage holds after `result` is reported for the record with this
\* id: nothing of a later record is touched.
\* Faulty variant: any record is resolved, whoever's it is.
Resolved_AnyRecord(l, id, result) ==
  IF l = None THEN l
  ELSE IF result.kind = "pending" THEN [l EXCEPT !.hash = IF result.hash = 0 THEN l.hash ELSE result.hash]
  ELSE None
Resolved(l, id, result) ==
  IF l = None \/ l.id # id THEN l
  ELSE IF result.kind = "pending" THEN [l EXCEPT !.hash = IF result.hash = 0 THEN l.hash ELSE result.hash]
  ELSE None

\* Some features keep the lock through success, until their own record of it
\* is verified.
\* Faulty variant: success always releases.
Kept_Never(keep, result) == result
Kept(keep, result) ==
  IF keep /\ result.kind = "ok" THEN [result EXCEPT !.kind = "pending"] ELSE result

resolveSubmission(context, id, keep, result) ==
  lock' = [lock EXCEPT ![context] = Resolved(lock[context], id, Kept(keep, result))]

----------------------------------------------------------------------------
(* The tab. *)

\* The account and the terms a page showed when its user confirmed: any it
\* may have read before.
Reviews(p) == IF p.reviewed THEN [account : People, terms : 0 .. terms] ELSE {None}

\* One call at a time per mounted hook, and nothing while a check runs.
\* Faulty variant: the reference is not looked at.
InFlight_Never(s) == FALSE
InFlight(s) == \/ \E c \in Calls : IsCall(c) /\ call[c].slot = s /\ call[c].waiting
               \/ \E k \in checks : k.slot = s

\* The user confirms: the marker is stored before the request is sent.
Click(s, a, review) ==
  /\ ~InFlight(s) /\ Len(call) < MaxCalls
  /\ beginSubmission(slot[s].context, Len(call) + 1)
  /\ call' = Append(call, [page |-> slot[s], slot |-> s, action |-> a, review |-> review,
                           who |-> None, seen |-> IF review = None THEN 0 ELSE review.terms,
                           pc |-> 0, envs |-> <<>>, answer |-> None, waiting |-> TRUE])
  /\ UNCHANGED <<area, slot, terms, checks, verified>>

\* Another page, or the same one again: its hook starts afresh while earlier
\* calls and checks of the tab go on.
Remount(s, p) ==
  /\ slot' = [slot EXCEPT ![s] = p]
  /\ call' = [c \in DOMAIN call |-> IF call[c].slot = s THEN [call[c] EXCEPT !.slot = None] ELSE call[c]]
  /\ checks' = {IF k.slot = s THEN [k EXCEPT !.slot = None] ELSE k : k \in checks}
  /\ UNCHANGED <<area, lock, terms, verified>>

\* The answer comes back to the tab.  Creating a funding room clears the lock
\* at once, if its page is still there: the answer names the verified room.
Deliver(c) ==
  LET d == call[c]
      settled == d.page.verifies /\ d.slot # None /\ d.answer.kind = "ok"
  IN
  /\ d.waiting /\ d.answer # None /\ d.answer.kind # "thrown"
  /\ call' = [call EXCEPT ![c] = [@ EXCEPT !.waiting = FALSE, !.slot = None]]
  /\ resolveSubmission(d.page.context, c, d.page.keep /\ ~settled, d.answer)
  /\ UNCHANGED <<area, slot, terms, checks, verified>>

\* The connection ends without an answer, the action throws, or the tab is
\* reloaded: the marker stays, and the server goes on.
Lost(c) ==
  /\ call[c].waiting
  /\ call' = [call EXCEPT ![c] = [@ EXCEPT !.waiting = FALSE, !.slot = None]]
  /\ UNCHANGED <<area, slot, lock, terms, checks, verified>>

\* "Check submitted status" needs a hash.
StartCheck(s) ==
  LET l == readSubmissionState(slot[s].context) IN
  /\ ~InFlight(s) /\ l # None /\ l.hash # 0
  /\ checks' = checks \cup {[slot |-> s, id |-> l.id, hash |-> l.hash, keep |-> slot[s].keep]}
  /\ UNCHANGED <<area, slot, lock, terms, call, verified>>

\* What the network says of an envelope: a ledger result, once it has one;
\* anything else is unknown.
Statuses(c, i) ==
  {[kind |-> "pending", hash |-> i]} \cup
  (CASE call[c].envs[i].status = "ok" -> {[kind |-> "ok", hash |-> i]}
     [] call[c].envs[i].status = "failed" -> {[kind |-> "failed", hash |-> i]}
     [] OTHER -> {})

\* submittedTransactionStatus answers; the record compared is the one read
\* when the check began.
EndCheck(k) ==
  /\ \E result \in Statuses(k.id, k.hash) :
       resolveSubmission(call[k.id].page.context, k.id, k.keep, result)
  /\ checks' = checks \ {k}
  /\ UNCHANGED <<area, slot, terms, call, verified>>

\* The server decodes the committed envelope: a donation, or the creation of
\* a room, that this wallet paid.
verifyCampaignDonationReceipt(e, wallet) == e.status = "ok" /\ e.account = wallet
verifyArisanFundingCreateReceipt(e, wallet) == e.status = "ok" /\ e.account = wallet

\* For whatever account the request's session is of: the donor row is inserted
\* or found inserted, the created room read back by its code and compared.
recordCampaignDonor(e) == \E who \in People : verifyCampaignDonationReceipt(e, who)
fundingRecoverCreate(e) == \E who \in People : verifyArisanFundingCreateReceipt(e, who)

\* The page asks with the hash of its lock.
Recover(s, page) ==
  LET l == readSubmissionState(slot[s].context) IN
  /\ slot[s] = page /\ l # None /\ l.hash # 0
  /\ verified' = verified \cup {l.id}
  /\ UNCHANGED <<area, slot, lock, terms, call, checks>>
LockedEnvelope(s) ==
  LET l == readSubmissionState(slot[s].context) IN call[l.id].envs[l.hash]
refreshSubmission(s) ==
  Recover(s, CircleTestnetDonate) /\ recordCampaignDonor(LockedEnvelope(s))
recoverCreatedRoom(s) ==
  Recover(s, FundingCreate) /\ fundingRecoverCreate(LockedEnvelope(s))

\* A verification of an envelope comes back: only that envelope's lock goes.
clearVerified(c, i) ==
  LET context == call[c].page.context IN
  /\ call[c].page.keep /\ c \in verified
  /\ lock[context] = [id |-> c, hash |-> i]
  /\ resolveSubmission(context, c, FALSE, [kind |-> "ok", hash |-> i])
  /\ UNCHANGED <<area, slot, terms, call, checks, verified>>

----------------------------------------------------------------------------
(* The server. *)

Step(c) == IF call[c].pc = 0 THEN "arrive"
           ELSE IF call[c].pc > Len(call[c].action.steps) THEN "end"
           ELSE call[c].action.steps[call[c].pc]
Running(c) == IsCall(c) /\ call[c].answer = None
\* An envelope is with the network and this call waits to hear of it.
Confirming(c) == call[c].envs # <<>> /\ ~call[c].envs[Len(call[c].envs)].known
Onward(c) == [call[c] EXCEPT !.pc = @ + 1]
Becomes(c, d) ==
  /\ call' = [call EXCEPT ![c] = d]
  /\ UNCHANGED <<area, slot, lock, terms, checks>>

\* The request is dispatched, with the cookie the browser then has: the user
\* may have signed in or out, here or in another tab, at any time.
Arrive(c) ==
  /\ Running(c) /\ Step(c) = "arrive"
  /\ \E who \in People \cup {Guest} : Becomes(c, [Onward(c) EXCEPT !.who = who])
  /\ UNCHANGED verified

\* Faulty variant: any signed-in account will do.
SameAccount_AnyOne(c) == call[c].who # Guest
SameAccount(c) == call[c].who = call[c].review.account
CheckAccount(c) ==
  /\ Running(c) /\ Step(c) = "account" /\ SameAccount(c)
  /\ Becomes(c, Onward(c))
  /\ UNCHANGED verified

CheckTerms(c) ==
  /\ Running(c) /\ Step(c) = "terms" /\ terms = call[c].review.terms
  /\ Becomes(c, [Onward(c) EXCEPT !.seen = terms])
  /\ UNCHANGED verified

\* getAuthenticatedSigner, getSigner.
FindSigner(c) ==
  /\ Running(c) /\ Step(c) \in {"saved", "any"}
  /\ Step(c) = "saved" => call[c].who # Guest
  /\ Becomes(c, Onward(c))
  /\ UNCHANGED verified

\* prepareTransaction simulated it; it is signed and handed to the network,
\* which may never have it.
invokeAs(c) ==
  LET payer == IF call[c].who = Guest \/ Step(c) = "friend" THEN Demo ELSE call[c].who IN
  /\ Running(c) /\ Step(c) \in {"send", "friend"} /\ ~Confirming(c)
  /\ Becomes(c, [call[c] EXCEPT !.envs =
       Append(call[c].envs, [account |-> payer, terms |-> call[c].seen, status |-> "open", known |-> FALSE])])
  /\ UNCHANGED verified

SkipFriend(c) ==
  /\ Running(c) /\ Step(c) = "friend" /\ ~Confirming(c)
  /\ Becomes(c, Onward(c))
  /\ UNCHANGED verified

\* A guard of the handler, an outage or a refused simulation ends it with
\* nothing (more) signed.  Where the handler does not catch the signer's
\* failure, the tab gets no result at all.
Refuse(c) ==
  /\ Running(c) /\ Step(c) \notin {"arrive", "end"} /\ ~Confirming(c)
  /\ Becomes(c, [call[c] EXCEPT !.answer =
       [kind |-> IF Step(c) = "any" /\ ~call[c].action.catches THEN "thrown" ELSE "failed", hash |-> 0]])
  /\ UNCHANGED verified

\* The network rejects the envelope when it is handed over.
Rejected(c) ==
  LET i == Len(call[c].envs) IN
  /\ Running(c) /\ Confirming(c) /\ call[c].envs[i].status = "open"
  /\ Becomes(c, [call[c] EXCEPT !.envs[i] = [@ EXCEPT !.status = "dead", !.known = TRUE],
                                !.answer = [kind |-> "failed", hash |-> i]])
  /\ UNCHANGED verified

\* What submitAndConfirm returns ends the action, except success of one demo
\* participant, after which comes the next.  A created room the server has
\* not read back is answered as pending.
Report(c) ==
  LET i == Len(call[c].envs) IN
  /\ Running(c) /\ Confirming(c)
  /\ \E result \in Statuses(c, i) :
       IF result.kind = "ok"
       THEN /\ Becomes(c, [Onward(c) EXCEPT !.envs[i].known = TRUE])
            /\ verified' = IF call[c].page.verifies THEN verified \cup {c} ELSE verified
       ELSE /\ Becomes(c, [call[c] EXCEPT !.envs[i].known = TRUE, !.answer = result])
            /\ UNCHANGED verified

Answer(c) ==
  /\ Running(c) /\ Step(c) = "end"
  /\ Becomes(c, [call[c] EXCEPT !.answer = [kind |-> "ok", hash |-> Len(call[c].envs)]])
  /\ UNCHANGED verified

----------------------------------------------------------------------------
(* The network and the world. *)

\* An envelope lands, fails, or can no longer land.
Ledger(c, i, outcome) ==
  /\ call[c].envs[i].status = "open"
  /\ call' = [call EXCEPT ![c].envs[i].status = outcome]
  /\ UNCHANGED <<area, slot, lock, terms, checks, verified>>

ChangeTerms ==
  /\ \E p \in area : p.reviewed
  /\ terms < MaxTerms /\ terms' = terms + 1
  /\ UNCHANGED <<area, slot, lock, call, checks, verified>>

TabStep ==
  \/ \E s \in Slots :
       \/ \E a \in slot[s].actions, r \in Reviews(slot[s]) : Click(s, a, r)
       \/ \E p \in area : Remount(s, p)
       \/ StartCheck(s)
       \/ refreshSubmission(s) \/ recoverCreatedRoom(s)
  \/ \E k \in checks : EndCheck(k)
  \/ \E c \in DOMAIN call :
       \/ Deliver(c) \/ Lost(c)
       \/ \E i \in DOMAIN call[c].envs : clearVerified(c, i)
ServerStep ==
  \E c \in DOMAIN call :
    \/ Arrive(c) \/ CheckAccount(c) \/ CheckTerms(c) \/ FindSigner(c) \/ invokeAs(c)
    \/ SkipFriend(c) \/ Refuse(c) \/ Rejected(c) \/ Report(c) \/ Answer(c)
WorldStep ==
  \/ \E c \in DOMAIN call : \E i \in DOMAIN call[c].envs, o \in {"ok", "failed", "dead"} : Ledger(c, i, o)
  \/ ChangeTerms

Next == TabStep \/ ServerStep \/ WorldStep
Spec == Init /\ [][Next]_vars

----------------------------------------------------------------------------
(* Properties. *)

\* Also: a mounted hook has at most one call or check of its own under way,
\* and a lock names a call of this tab and a hash it signed.
TypeOK ==
  /\ area \in Areas /\ slot \in [Slots -> area]
  /\ \A x \in Contexts : lock[x] = None \/ (lock[x].id \in DOMAIN call
                                            /\ lock[x].hash \in 0 .. Len(call[lock[x].id].envs))
  /\ terms \in 0 .. MaxTerms
  /\ Len(call) <= MaxCalls /\ verified \subseteq DOMAIN call
  /\ \A s \in Slots : Cardinality({c \in DOMAIN call : call[c].slot = s})
                      + Cardinality({k \in checks : k.slot = s}) <= 1
  /\ \A k \in checks : k.id \in DOMAIN call /\ k.hash \in DOMAIN call[k.id].envs

\* While a server action may still sign, or something it signed may still
\* land unreported, its context is locked for it: no page of the tab can send
\* a second one (submitAndConfirm's "a fresh transaction is NOT a safe retry
\* of an unknown accepted envelope", and the marker of beginSubmission).
MayStillMove(c) ==
  \/ call[c].answer = None /\ Step(c) # "end"
  \/ \E i \in DOMAIN call[c].envs : call[c].envs[i].status = "open"
OpenKeepsLock ==
  \A c \in DOMAIN call : MayStillMove(c) =>
    /\ lock[call[c].page.context] # None
    /\ lock[call[c].page.context].id = c

\* A donation or a created room that landed stays locked until its donor row
\* is stored, or the room is verified: its hash is not lost before that
\* (keepSuccessLocked, clearVerified).
UnverifiedKeepsLock ==
  \A c \in DOMAIN call :
    call[c].page.keep /\ c \notin verified
      /\ (\E i \in DOMAIN call[c].envs : call[c].envs[i].status = "ok")
    => lock[call[c].page.context] # None /\ lock[call[c].page.context].id = c

\* Where a page has its user review, the envelope is paid by the account that
\* reviewed it and made for the terms it reviewed, whatever the browser's
\* session or the room became since (expectedOwnerId, viewer, termsKey).
SignedAsReviewed ==
  \A c \in DOMAIN call : call[c].page.reviewed =>
    \A i \in DOMAIN call[c].envs :
      /\ call[c].envs[i].account = call[c].review.account
      /\ call[c].envs[i].terms = call[c].review.terms
=============================================================================
