-------------------------- MODULE Submissions_proofs --------------------------
(***************************************************************************)
(* Proofs about Submissions, for any accounts, any hooks mounted in a tab, *)
(* any number of server actions and changes of terms, every area of the    *)
(* application, and any order in which answers, status checks, the network *)
(* and the user take their steps.                                          *)
(***************************************************************************)
EXTENDS Submissions, FiniteSetTheorems, TLAPS

-----------------------------------------------------------------------------
(* The catalogue of pages and actions.                                     *)

Pages == UNION Areas
StepNames == {"account", "terms", "saved", "any", "send", "friend"}

\* What the catalogue has in common.  A reviewed page checks the account
\* first and never pays for a demo participant; a page that keeps its lock
\* through success sends one envelope, last.
ReviewSteps(s) == s[1] = "account" /\ \A i \in DOMAIN s : s[i] # "friend"
KeepSteps(s) == \A i \in DOMAIN s : s[i] # "friend" /\ (s[i] = "send" <=> i = Len(s))

PageOK(p) ==
  /\ p.keep \in BOOLEAN /\ p.reviewed \in BOOLEAN
  /\ p.verifies => p.keep
  /\ \A a \in p.actions :
       /\ a.steps \in Seq(StepNames) /\ Len(a.steps) >= 1
       /\ p.reviewed => ReviewSteps(a.steps)
       /\ p.keep => KeepSteps(a.steps)

-----------------------------------------------------------------------------
(* The inductive invariant.                                                *)

Kinds == {"pending", "failed", "ok", "thrown"}
EnvelopeType ==
  [account : People \cup {Demo}, terms : Nat,
   status : {"open", "ok", "failed", "dead"}, known : BOOLEAN]
AnswerType == [kind : Kinds, hash : Nat]
ReviewType == [account : People, terms : Nat]
Actions == UNION {p.actions : p \in Pages}
CallType ==
  [page : Pages, slot : Slots \cup {None}, action : Actions,
   review : ReviewType \cup {None}, who : People \cup {Guest, None}, seen : Nat, pc : Nat,
   envs : Seq(EnvelopeType), answer : AnswerType \cup {None}, waiting : BOOLEAN]

Steps(d) == Len(d.action.steps)
Through(d) == d.pc > Steps(d)
At(d) == d.action.steps[d.pc]
Last(d) == Len(d.envs)
Said(d, kinds) == d.answer # None /\ d.answer.kind \in kinds
Landed(d) == \E i \in DOMAIN d.envs : d.envs[i].status = "ok"

\* MayStillMove, of the record of a call.
Moving(d) ==
  \/ d.answer = None /\ ~Through(d)
  \/ \E i \in DOMAIN d.envs : d.envs[i].status = "open"

\* Only the last envelope can be open or unheard of, and only while the call
\* waits for it or after it has answered that it does not know.
EnvelopesOK(d) ==
  \A i \in DOMAIN d.envs :
    /\ ~d.envs[i].known =>
         i = Last(d) /\ d.answer = None /\ ~Through(d) /\ d.pc # 0 /\ At(d) \in {"send", "friend"}
    /\ d.envs[i].status = "open" => i = Last(d) /\ (d.envs[i].known => Said(d, {"pending"}))

AnswerOK(d) ==
  /\ Said(d, {"pending", "ok"}) => d.answer.hash = Last(d)
  /\ Said(d, {"pending"}) => Last(d) > 0
  /\ Said(d, {"failed", "thrown"}) => d.answer.hash <= Last(d)
  /\ Said(d, {"ok"}) => Through(d)

ReviewOK(d) ==
  /\ d.review \in ReviewType /\ d.seen = d.review.terms
  /\ d.pc > 1 => d.who = d.review.account
  /\ \A i \in DOMAIN d.envs :
       d.envs[i].account = d.review.account /\ d.envs[i].terms = d.review.terms

\* Where success keeps the lock there is one envelope, and the call stays at
\* the step that sent it until it has heard of it.
KeepOK(d) ==
  /\ Last(d) <= 1 /\ (Last(d) = 1 => d.pc >= Steps(d))
  /\ Last(d) = 1 /\ d.answer = None /\ ~Through(d) => ~d.envs[1].known
  /\ Said(d, {"failed", "thrown"}) => ~Landed(d)

CallOK(d) ==
  /\ d \in CallType /\ d.action \in d.page.actions
  /\ d.slot # None => d.waiting
  /\ d.pc <= Steps(d) + 1 /\ (d.pc # 0 => d.who # None)
  /\ EnvelopesOK(d) /\ AnswerOK(d)
  /\ d.page.reviewed => ReviewOK(d)
  /\ d.page.keep => KeepOK(d)

\* What is verified is over; a page that verifies its own success has done
\* so once the last step is through.
VerifiedOK ==
  /\ verified \subseteq DOMAIN call
  /\ \A c \in DOMAIN call :
       /\ c \in verified => ~Moving(call[c])
       /\ call[c].page.verifies /\ Through(call[c]) => c \in verified

\* A lock or a check that knows a hash knows the last one of a call that has
\* answered.
Answered(c, hash) == call[c].answer # None /\ hash = Last(call[c])
LockOK(x) ==
  lock[x] # None =>
    /\ lock[x] \in [id : Nat, hash : Nat]
    /\ lock[x].id \in DOMAIN call
    /\ call[lock[x].id].page.context = x
    /\ lock[x].hash # 0 => Answered(lock[x].id, lock[x].hash)
CheckOK(k) ==
  /\ k \in [slot : Slots \cup {None}, id : Nat, hash : Nat, keep : BOOLEAN]
  /\ k.id \in DOMAIN call /\ k.hash # 0 /\ Answered(k.id, k.hash)
  /\ k.keep = call[k.id].page.keep

\* A mounted hook has one call or one check of its own under way.
HooksApart ==
  /\ \A c, d \in DOMAIN call : call[c].slot # None /\ call[c].slot = call[d].slot => c = d
  /\ \A k, l \in checks : k.slot # None /\ k.slot = l.slot => k = l
  /\ \A c \in DOMAIN call, k \in checks : call[c].slot # None => call[c].slot # k.slot

\* The lock of c's context is c's.
Holds(c) == lock[call[c].page.context] # None /\ lock[call[c].page.context].id = c
Locked ==
  \A c \in DOMAIN call :
    /\ Moving(call[c]) => Holds(c)
    /\ call[c].page.keep /\ c \notin verified /\ Landed(call[c]) => Holds(c)

SubmissionsInv ==
  /\ area \in Areas /\ slot \in [Slots -> area] /\ terms \in 0 .. MaxTerms
  /\ DOMAIN lock = Contexts
  /\ call \in Seq(CallType) /\ Len(call) <= MaxCalls
  /\ \A c \in DOMAIN call : CallOK(call[c]) /\ call[c].page \in area
  /\ VerifiedOK
  /\ \A x \in Contexts : LockOK(x)
  /\ \A k \in checks : CheckOK(k)
  /\ HooksApart /\ Locked

-----------------------------------------------------------------------------
(* The catalogue has that in common.                                       *)

LEMMA StepsOf ==
  /\ \A a, b \in StepNames :
       LET s == <<a, b>> IN
       s \in Seq(StepNames) /\ Len(s) = 2 /\ DOMAIN s = 1 .. 2 /\ s[1] = a /\ s[2] = b
  /\ \A a, b, c \in StepNames :
       LET s == <<a, b, c>> IN
       s \in Seq(StepNames) /\ Len(s) = 3 /\ DOMAIN s = 1 .. 3 /\ s[1] = a /\ s[2] = b /\ s[3] = c
  /\ \A a, b, c, d, e \in StepNames :
       LET s == <<a, b, c, d, e>> IN
       s \in Seq(StepNames) /\ Len(s) = 5 /\ DOMAIN s = 1 .. 5
       /\ s[1] = a /\ s[2] = b /\ s[3] = c /\ s[4] = d /\ s[5] = e
OBVIOUS

LEMMA StepNamesAre ==
  "account" \in StepNames /\ "terms" \in StepNames /\ "saved" \in StepNames
  /\ "any" \in StepNames /\ "send" \in StepNames /\ "friend" \in StepNames
BY DEF StepNames

\* A page on which nothing is reviewed or kept only needs actions.
LEMMA PlainPage ==
  ASSUME NEW p, p.keep = FALSE, p.reviewed = FALSE, p.verifies = FALSE,
         \A a \in p.actions : a.steps \in Seq(StepNames) /\ Len(a.steps) >= 1
  PROVE  PageOK(p)
BY DEF PageOK

LEMMA CatalogueOK == \A p \in Pages : PageOK(p)
<1> SUFFICES ASSUME NEW p \in Pages PROVE PageOK(p)
  OBVIOUS
<1> DEFINE ActionOK(a) == a.steps \in Seq(StepNames) /\ Len(a.steps) >= 1
<1>a. ActionOK(disasterContribute) /\ ActionOK(privileged) /\ ActionOK(write) /\ ActionOK(arisanCreate)
  BY StepsOf, StepNamesAre DEF Action, disasterContribute, privileged, write, arisanCreate
<1>b. ActionOK(arisanMove) /\ ActionOK(arisanDraw) /\ ActionOK(arisanPostpone)
      /\ ActionOK(arisanFriendsJoin) /\ ActionOK(arisanFriendsDrawAction)
  BY StepsOf, StepNamesAre DEF Action, arisanMove, arisanDraw, arisanPostpone, arisanFriendsJoin, arisanFriendsDrawAction
<1>c. ActionOK(smartSavingsOpen) /\ ActionOK(smartSavingsDeposit) /\ ActionOK(smartSavingsWithdraw)
      /\ ActionOK(paluwaganPayMine) /\ ActionOK(paluwaganCollect) /\ ActionOK(paluwaganFriendsPay)
  BY StepsOf, StepNamesAre DEF Action, smartSavingsOpen, smartSavingsDeposit, smartSavingsWithdraw,
     paluwaganPayMine, paluwaganCollect, paluwaganFriendsPay
<1>1. PageOK(CircleTestnetDonate)
  <2>1. CircleTestnetDonate.keep = TRUE /\ CircleTestnetDonate.reviewed = TRUE
        /\ CircleTestnetDonate.verifies = FALSE /\ CircleTestnetDonate.actions = {donateCircleTestnet}
    BY DEF CircleTestnetDonate, Page
  <2>2. donateCircleTestnet.steps = <<"account", "terms", "saved", "account", "send">>
    BY DEF donateCircleTestnet, Action
  <2>3. ActionOK(donateCircleTestnet) /\ ReviewSteps(donateCircleTestnet.steps) /\ KeepSteps(donateCircleTestnet.steps)
    BY <2>2, StepsOf, StepNamesAre DEF ReviewSteps, KeepSteps
  <2> QED BY <2>1, <2>3 DEF PageOK
<1>6. PageOK(ArisanJoinScreen)
  <2>1. ArisanJoinScreen.keep = FALSE /\ ArisanJoinScreen.reviewed = TRUE
        /\ ArisanJoinScreen.verifies = FALSE /\ ArisanJoinScreen.actions = {arisanJoin}
    BY DEF ArisanJoinScreen, Page
  <2>2. arisanJoin.steps = <<"account", "terms", "saved", "terms", "send">>
    BY DEF arisanJoin, Action
  <2>3. ActionOK(arisanJoin) /\ ReviewSteps(arisanJoin.steps)
    BY <2>2, StepsOf, StepNamesAre DEF ReviewSteps, KeepSteps
  <2> QED BY <2>1, <2>3 DEF PageOK
<1>8. PageOK(FundingRooms)
  <2>1. FundingRooms.keep = FALSE /\ FundingRooms.reviewed = TRUE
        /\ FundingRooms.verifies = FALSE /\ FundingRooms.actions = {reviewedMutation, roomMutation}
    BY DEF FundingRooms, Page
  <2>2. /\ reviewedMutation.steps = <<"account", "terms", "saved", "terms", "send">>
        /\ roomMutation.steps = <<"account", "terms", "saved", "terms", "send">>
    BY DEF reviewedMutation, roomMutation, Action
  <2>3. ActionOK(reviewedMutation) /\ ActionOK(roomMutation)
        /\ ReviewSteps(reviewedMutation.steps) /\ ReviewSteps(roomMutation.steps)
    BY <2>2, StepsOf, StepNamesAre DEF ReviewSteps
  <2> QED BY <2>1, <2>3 DEF PageOK
<1>9. PageOK(FundingCreate)
  <2>1. FundingCreate.keep = TRUE /\ FundingCreate.reviewed = TRUE
        /\ FundingCreate.verifies = TRUE /\ FundingCreate.actions = {fundingCreate}
    BY DEF FundingCreate, Page
  <2>2. fundingCreate.steps = <<"account", "saved", "send">>
    BY DEF fundingCreate, Action
  <2>3. ActionOK(fundingCreate) /\ ReviewSteps(fundingCreate.steps) /\ KeepSteps(fundingCreate.steps)
    BY <2>2, StepsOf, StepNamesAre DEF ReviewSteps, KeepSteps
  <2> QED BY <2>1, <2>3 DEF PageOK
<1> HIDE DEF ActionOK
<1>2. PageOK(TransparencyScreen)
  BY <1>a, PlainPage DEF TransparencyScreen, Page, ActionOK
<1>3. PageOK(DisasterControls)
  BY <1>a, PlainPage DEF DisasterControls, Page, ActionOK
<1>4. PageOK(CampaignScreen)
  BY <1>a, PlainPage DEF CampaignScreen, Page, ActionOK
<1>5. PageOK(ArisanCreateScreen)
  BY <1>a, PlainPage DEF ArisanCreateScreen, Page, ActionOK
<1>7. PageOK(ArisanRoomScreen)
  BY <1>b, PlainPage DEF ArisanRoomScreen, Page, ActionOK
<1>10. PageOK(SavingsScreen)
  BY <1>c, PlainPage DEF SavingsScreen, Page, ActionOK
<1>11. PageOK(PaluwaganScreen)
  BY <1>c, PlainPage DEF PaluwaganScreen, Page, ActionOK
<1>12. p \in {CircleTestnetDonate, TransparencyScreen, DisasterControls, CampaignScreen,
              ArisanCreateScreen, ArisanJoinScreen, ArisanRoomScreen, FundingRooms,
              FundingCreate, SavingsScreen, PaluwaganScreen}
  BY Zenon DEF Pages, Areas
<1> QED BY <1>1, <1>2, <1>3, <1>4, <1>5, <1>6, <1>7, <1>8, <1>9, <1>10, <1>11, <1>12, Zenon

\* Pages that share a context agree on when its lock is released.
LEMMA ContextsAgree == \A p, q \in Pages : p.context = q.context => p.keep = q.keep
<1> USE DEF Page, CircleTestnetDonate, TransparencyScreen, DisasterControls, CampaignScreen,
            ArisanCreateScreen, ArisanJoinScreen, ArisanRoomScreen, FundingRooms,
            FundingCreate, SavingsScreen, PaluwaganScreen
<1>1. \A p \in Pages : p.keep <=> p.context \in {"circle-donate", "arisan:installment-create"}
  BY DEF Pages, Areas
<1>2. \A p \in Pages : p.keep \in BOOLEAN
  BY CatalogueOK DEF PageOK
<1> QED BY <1>1, <1>2

-----------------------------------------------------------------------------
(* Single calls.                                                           *)

LEMMA Constants ==
  /\ None \notin People /\ None \notin Slots /\ None # Guest /\ Guest \notin People /\ Demo \notin People
  /\ None \notin [id : Nat, hash : Nat] /\ None \notin AnswerType /\ None \notin ReviewType
  /\ MaxCalls \in Nat /\ MaxTerms \in Nat
BY SubmissionsAssumption DEF ReviewType, AnswerType, Kinds

LEMMA CallFields ==
  ASSUME NEW d \in CallType
  PROVE  /\ d.page \in Pages /\ d.slot \in Slots \cup {None} /\ d.review \in ReviewType \cup {None}
         /\ d.who \in People \cup {Guest, None} /\ d.seen \in Nat /\ d.pc \in Nat
         /\ d.envs \in Seq(EnvelopeType) /\ d.answer \in AnswerType \cup {None}
         /\ d.waiting \in BOOLEAN
BY DEF CallType

LEMMA LastType ==
  ASSUME NEW d \in CallType
  PROVE  /\ Last(d) \in Nat /\ DOMAIN d.envs = 1 .. Last(d)
         /\ \A i \in DOMAIN d.envs : d.envs[i] \in EnvelopeType
         /\ (d.envs = <<>> <=> Last(d) = 0)
BY CallFields DEF Last

LEMMA StepsType ==
  ASSUME NEW d, CallOK(d)
  PROVE  /\ d.action.steps \in Seq(StepNames) /\ Steps(d) \in Nat /\ Steps(d) >= 1
         /\ DOMAIN d.action.steps = 1 .. Steps(d)
         /\ d.page.reviewed => ReviewSteps(d.action.steps)
         /\ d.page.keep => KeepSteps(d.action.steps)
         /\ d.page.verifies => d.page.keep
         /\ d.page.reviewed \in BOOLEAN /\ d.page.keep \in BOOLEAN
         /\ d.pc # 0 /\ ~Through(d) => At(d) \in StepNames /\ d.pc \in 1 .. Steps(d)
<1>1. d.page \in Pages /\ d.action \in d.page.actions /\ d.pc \in Nat
  BY CallFields DEF CallOK
<1>2. PageOK(d.page)
  BY <1>1, CatalogueOK
<1>3. d.action.steps \in Seq(StepNames) /\ Len(d.action.steps) >= 1
  BY <1>1, <1>2 DEF PageOK
<1>4. Len(d.action.steps) \in Nat /\ DOMAIN d.action.steps = 1 .. Len(d.action.steps)
  BY <1>3
<1>5. d.pc # 0 /\ ~Through(d) => d.pc \in 1 .. Steps(d)
  BY <1>1, <1>4 DEF Through, Steps
<1>6. d.pc # 0 /\ ~Through(d) => At(d) \in StepNames
  BY <1>3, <1>4, <1>5 DEF At, Steps
<1> QED BY <1>1, <1>2, <1>3, <1>4, <1>5, <1>6 DEF PageOK, Steps

LEMMA StepIs ==
  ASSUME NEW c, CallOK(call[c])
  PROVE  /\ Step(c) = "arrive" <=> call[c].pc = 0
         /\ Step(c) = "end" <=> Through(call[c])
         /\ Step(c) \in StepNames => call[c].pc # 0 /\ ~Through(call[c]) /\ At(call[c]) = Step(c)
<1>1. call[c].pc \in Nat /\ Steps(call[c]) \in Nat
  BY CallFields, StepsType DEF CallOK
<1>2. "arrive" \notin StepNames /\ "end" \notin StepNames
  BY DEF StepNames
<1>3. CASE call[c].pc = 0
  BY <1>1, <1>2, <1>3 DEF Step, Through
<1>4. CASE call[c].pc # 0 /\ Through(call[c])
  BY <1>1, <1>2, <1>4 DEF Step, Through, Steps
<1>5. CASE call[c].pc # 0 /\ ~Through(call[c])
  <2>1. Step(c) = At(call[c])
    BY <1>5 DEF Step, Through, Steps, At
  <2> QED BY <1>2, <1>5, <2>1, StepsType
<1> QED BY <1>3, <1>4, <1>5

LEMMA MovingIs ==
  ASSUME NEW c, CallOK(call[c])
  PROVE  MayStillMove(c) <=> Moving(call[c])
BY StepIs DEF MayStillMove, Moving

\* Nothing this call sent is open or unheard of.
Settled(d) == \A i \in DOMAIN d.envs : d.envs[i].known /\ d.envs[i].status # "open"

LEMMA NotConfirming ==
  ASSUME NEW c, CallOK(call[c]), call[c].answer = None, ~Confirming(c)
  PROVE  Settled(call[c])
<1>1. call[c] \in CallType
  BY DEF CallOK
<1> SUFFICES ASSUME NEW i \in DOMAIN call[c].envs
             PROVE  call[c].envs[i].known /\ call[c].envs[i].status # "open"
  BY DEF Settled
<1>2. ~call[c].envs[i].known => Confirming(c)
  <2>1. ~call[c].envs[i].known => i = Last(call[c])
    BY DEF CallOK, EnvelopesOK
  <2>2. call[c].envs # <<>>
    BY <1>1, LastType
  <2> QED BY <2>1, <2>2 DEF Confirming, Last
<1>3. call[c].envs[i].status = "open" /\ call[c].envs[i].known => Said(call[c], {"pending"})
  BY DEF CallOK, EnvelopesOK
<1> QED BY <1>2, <1>3 DEF Said

\* A call whose answer is definitive has nothing open.
LEMMA Definitive ==
  ASSUME NEW d, CallOK(d), Said(d, {"failed", "ok", "thrown"})
  PROVE  Settled(d) /\ ~Moving(d)
<1>1. ~Said(d, {"pending"})
  BY DEF Said
<1>2. Settled(d)
  BY <1>1 DEF CallOK, EnvelopesOK, Settled, Said
<1> QED BY <1>2 DEF Settled, Moving, Said

\* Of a call that has answered only the last envelope can be open.
LEMMA OnlyLastOpen ==
  ASSUME NEW d, CallOK(d), d.answer # None, Last(d) # 0 => d.envs[Last(d)].status # "open"
  PROVE  ~Moving(d)
<1>1. \A i \in DOMAIN d.envs : d.envs[i].status = "open" => i = Last(d) /\ Last(d) # 0
  <2> SUFFICES ASSUME NEW i \in DOMAIN d.envs, d.envs[i].status = "open"
               PROVE  i = Last(d) /\ Last(d) # 0
    OBVIOUS
  <2>1. i = Last(d)
    BY DEF CallOK, EnvelopesOK
  <2>2. d \in CallType
    BY DEF CallOK
  <2> QED BY <2>1, <2>2, LastType
<1> QED BY <1>1 DEF Moving

-----------------------------------------------------------------------------
(* When the calls go on.                                                   *)

\* What the next record of a call keeps: its answer, and that it is over.
Onto(d, e) ==
  /\ e.page = d.page
  /\ d.answer # None => e.answer = d.answer /\ Last(e) = Last(d)
  /\ Moving(e) => Moving(d)
  /\ d.page.keep /\ Landed(e) => Landed(d) \/ Moving(d)
Course == DOMAIN call' = DOMAIN call /\ \A c \in DOMAIN call : Onto(call[c], call'[c])

LEMMA AnsweredGoesOn ==
  ASSUME Course, NEW c \in DOMAIN call, NEW hash, Answered(c, hash)
  PROVE  c \in DOMAIN call' /\ call'[c].page = call[c].page /\ Answered(c, hash)'
BY DEF Course, Onto, Answered

LEMMA LocksGoOn ==
  ASSUME SubmissionsInv, Course, NEW x \in Contexts, lock'[x] = lock[x]
  PROVE  LockOK(x)'
<1> SUFFICES ASSUME lock[x] # None
             PROVE  /\ lock[x] \in [id : Nat, hash : Nat] /\ lock[x].id \in DOMAIN call'
                    /\ call'[lock[x].id].page.context = x
                    /\ lock[x].hash # 0 => Answered(lock[x].id, lock[x].hash)'
  BY DEF LockOK, Answered
<1>1. LockOK(x)
  BY DEF SubmissionsInv
<1>2. lock[x].id \in DOMAIN call
  BY <1>1 DEF LockOK
<1>3. lock[x].id \in DOMAIN call' /\ call'[lock[x].id].page = call[lock[x].id].page
  BY <1>2 DEF Course, Onto
<1>4. lock[x].hash # 0 => Answered(lock[x].id, lock[x].hash)'
  BY <1>1, <1>2, AnsweredGoesOn DEF LockOK
<1> QED BY <1>1, <1>3, <1>4 DEF LockOK

LEMMA ChecksGoOn ==
  ASSUME Course, NEW l, CheckOK(l), NEW k \in [slot : Slots \cup {None}, id : Nat, hash : Nat, keep : BOOLEAN],
         k.id = l.id, k.hash = l.hash, k.keep = l.keep
  PROVE  CheckOK(k)'
<1>1. k.id \in DOMAIN call /\ Answered(k.id, k.hash) /\ k.hash # 0 /\ k.keep = call[k.id].page.keep
  BY DEF CheckOK
<1>2. k.id \in DOMAIN call' /\ call'[k.id].page = call[k.id].page /\ Answered(k.id, k.hash)'
  BY <1>1, AnsweredGoesOn
<1> QED BY <1>1, <1>2 DEF CheckOK, Answered

LEMMA LockedGoesOn ==
  ASSUME SubmissionsInv, Course, NEW c \in DOMAIN call, verified \subseteq verified',
         Moving(call'[c]) \/ (call'[c].page.keep /\ c \notin verified' /\ Landed(call'[c]))
  PROVE  Holds(c)
BY DEF SubmissionsInv, Locked, Course, Onto

LEMMA LockedStays ==
  ASSUME SubmissionsInv, Course, verified \subseteq verified',
         \A x \in Contexts : lock'[x] = lock[x]
  PROVE  Locked'
<1> SUFFICES ASSUME NEW c \in DOMAIN call',
                    Moving(call'[c]) \/ (call'[c].page.keep /\ c \notin verified' /\ Landed(call'[c]))
             PROVE  Holds(c)'
  BY DEF Locked
<1>1. c \in DOMAIN call /\ call'[c].page = call[c].page /\ call[c].page.context \in Contexts
  BY DEF Course, Onto, SubmissionsInv, Contexts
<1>2. Holds(c)
  BY <1>1, LockedGoesOn
<1> QED BY <1>1, <1>2 DEF Holds

\* One call's record becomes another, and nothing else of the tab changes.
LEMMA Become ==
  ASSUME SubmissionsInv, NEW c \in DOMAIN call, NEW e,
         CallOK(e), Onto(call[c], e), e.slot = call[c].slot \/ e.slot = None,
         call' = [call EXCEPT ![c] = e], UNCHANGED <<area, slot, lock, terms, checks>>,
         verified \subseteq verified', verified' \subseteq verified \cup {c},
         c \in verified' => ~Moving(e), e.page.verifies /\ Through(e) => c \in verified'
  PROVE  SubmissionsInv'
<1>1. call \in Seq(CallType) /\ e \in CallType
  BY DEF SubmissionsInv, CallOK
<1>2. /\ call' \in Seq(CallType) /\ DOMAIN call' = DOMAIN call /\ Len(call') = Len(call)
      /\ call'[c] = e /\ \A d \in DOMAIN call : d # c => call'[d] = call[d]
  BY <1>1
<1>3. Course
  <2>1. \A d \in DOMAIN call : d # c => Onto(call[d], call'[d])
    BY <1>2 DEF Onto
  <2> QED BY <1>2, <2>1 DEF Course
<1>4. \A d \in DOMAIN call' : CallOK(call'[d]) /\ call'[d].page \in area
  BY <1>2 DEF SubmissionsInv, Onto
<1>5. VerifiedOK'
  <2>1. verified' \subseteq DOMAIN call'
    BY <1>2 DEF SubmissionsInv, VerifiedOK
  <2>2. ASSUME NEW d \in DOMAIN call'
        PROVE  /\ d \in verified' => ~Moving(call'[d])
               /\ call'[d].page.verifies /\ Through(call'[d]) => d \in verified'
    <3>1. CASE d = c
      BY <1>2, <3>1
    <3>2. CASE d # c
      <4>1. call'[d] = call[d] /\ d \in DOMAIN call /\ (d \in verified' <=> d \in verified)
        BY <1>2, <3>2
      <4> QED BY <4>1 DEF SubmissionsInv, VerifiedOK
    <3> QED BY <3>1, <3>2
  <2> QED BY <2>1, <2>2 DEF VerifiedOK
<1>6. DOMAIN lock' = Contexts' /\ \A x \in Contexts' : LockOK(x)'
  <2>1. Contexts' = Contexts
    BY DEF Contexts
  <2>2. \A x \in Contexts : LockOK(x)'
    BY <1>3, LocksGoOn
  <2> QED BY <2>1, <2>2 DEF SubmissionsInv
<1>7. \A k \in checks' : CheckOK(k)'
  <2> SUFFICES ASSUME NEW k \in checks PROVE CheckOK(k)'
    OBVIOUS
  <2>1. CheckOK(k)
    BY DEF SubmissionsInv
  <2> QED BY <1>3, <2>1, ChecksGoOn DEF CheckOK
<1>8. HooksApart'
  <2>1. HooksApart
    BY DEF SubmissionsInv
  <2>2. \A d \in DOMAIN call : call'[d].slot = call[d].slot \/ call'[d].slot = None
    BY <1>2
  <2> QED BY <1>2, <2>1, <2>2 DEF HooksApart
<1>9. Locked'
  BY <1>3, LockedStays
<1> QED BY <1>2, <1>4, <1>5, <1>6, <1>7, <1>8, <1>9 DEF SubmissionsInv

-----------------------------------------------------------------------------
(* The server's steps.                                                     *)

\* The call goes to its next step with nothing new sent.
LEMMA Advance ==
  ASSUME NEW d, CallOK(d), d.answer = None, ~Through(d), Settled(d),
         NEW e \in CallType, e.page = d.page, e.action = d.action, e.slot = d.slot,
         e.waiting = d.waiting, e.review = d.review, e.envs = d.envs, e.answer = d.answer,
         e.pc = d.pc + 1, e.who # None,
         d.page.reviewed => e.seen = d.review.terms /\ (e.pc > 1 => e.who = d.review.account)
  PROVE  CallOK(e) /\ Onto(d, e)
<1>1. d \in CallType /\ d.pc \in Nat /\ Steps(d) \in Nat /\ Steps(e) = Steps(d) /\ Last(e) = Last(d)
  BY CallFields, StepsType DEF CallOK, Steps, Last
<1>2. e.pc <= Steps(e) + 1
  BY <1>1 DEF Through
<1>3. Settled(e)
  BY DEF Settled
<1>4. EnvelopesOK(e)
  BY <1>3 DEF EnvelopesOK, Settled
<1>5. AnswerOK(e)
  BY DEF AnswerOK, Said
<1>6. d.page.reviewed => ReviewOK(e)
  BY DEF CallOK, ReviewOK
<1>7. d.page.keep => KeepOK(e)
  <2> SUFFICES ASSUME d.page.keep PROVE KeepOK(e)
    OBVIOUS
  <2>1. KeepOK(d)
    BY DEF CallOK
  <2>2. Last(d) \in Nat /\ DOMAIN d.envs = 1 .. Last(d)
    BY <1>1, LastType
  <2>3. Last(d) = 0
    <3>1. Last(d) # 1
      BY <2>1, <2>2 DEF KeepOK, Settled
    <3> QED BY <2>1, <2>2, <3>1 DEF KeepOK
  <2> QED BY <1>1, <2>3 DEF KeepOK, Said
<1>8. Onto(d, e)
  <2>1. Moving(d)
    BY DEF Moving
  <2> QED BY <1>1, <2>1 DEF Onto
<1> QED BY <1>2, <1>4, <1>5, <1>6, <1>7, <1>8 DEF CallOK

\* It does not go through with the last step of a page that verifies.
LEMMA NotLast ==
  ASSUME NEW d, CallOK(d), ~Through(d), d.page.verifies, d.pc = 0 \/ At(d) # "send"
  PROVE  ~(d.pc + 1 > Steps(d))
<1>1. d.pc \in Nat /\ Steps(d) \in Nat /\ Steps(d) >= 1
  BY CallFields, StepsType DEF CallOK
<1>2. CASE d.pc = 0
  BY <1>1, <1>2
<1>3. CASE d.pc # 0
  <2>1. d.pc \in 1 .. Steps(d) /\ KeepSteps(d.action.steps) /\ DOMAIN d.action.steps = 1 .. Steps(d)
    BY <1>3, StepsType
  <2>2. d.pc # Steps(d)
    BY <1>3, <2>1 DEF KeepSteps, At, Steps
  <2> QED BY <1>1, <2>1, <2>2
<1> QED BY <1>2, <1>3

LEMMA CallKnown ==
  ASSUME SubmissionsInv, NEW c \in DOMAIN call
  PROVE  CallOK(call[c]) /\ call[c] \in CallType
BY DEF SubmissionsInv, CallOK

LEMMA AdvanceKeeps ==
  ASSUME SubmissionsInv, NEW c \in DOMAIN call, Running(c), ~Through(call[c]), Settled(call[c]),
         call[c].pc = 0 \/ At(call[c]) # "send",
         NEW who \in People \cup {Guest}, NEW seen \in Nat,
         call[c].page.reviewed =>
           seen = call[c].review.terms /\ (call[c].pc # 0 => who = call[c].review.account),
         NEW e, e = [call[c] EXCEPT !.pc = call[c].pc + 1, !.who = who, !.seen = seen],
         Becomes(c, e), UNCHANGED verified
  PROVE  SubmissionsInv'
<1>1. CallOK(call[c]) /\ call[c] \in CallType /\ call[c].answer = None
  BY CallKnown DEF Running
<1>3. /\ e \in CallType /\ e.page = call[c].page /\ e.action = call[c].action /\ e.slot = call[c].slot
      /\ e.waiting = call[c].waiting /\ e.review = call[c].review /\ e.envs = call[c].envs
      /\ e.answer = call[c].answer /\ e.pc = call[c].pc + 1 /\ e.who = who /\ e.seen = seen
  <2>1. PICK f : f = [call[c] EXCEPT !.pc = call[c].pc + 1]
    OBVIOUS
  <2>2. /\ f \in CallType /\ f.page = call[c].page /\ f.action = call[c].action /\ f.slot = call[c].slot
        /\ f.waiting = call[c].waiting /\ f.review = call[c].review /\ f.envs = call[c].envs
        /\ f.answer = call[c].answer /\ f.pc = call[c].pc + 1
    BY <1>1, <2>1 DEF CallType
  <2>3. PICK g : g = [f EXCEPT !.who = who]
    OBVIOUS
  <2>4. /\ g \in CallType /\ g.page = f.page /\ g.action = f.action /\ g.slot = f.slot
        /\ g.waiting = f.waiting /\ g.review = f.review /\ g.envs = f.envs
        /\ g.answer = f.answer /\ g.pc = f.pc /\ g.who = who
    BY <2>2, <2>3 DEF CallType
  <2>5. e = [g EXCEPT !.seen = seen]
    BY <2>1, <2>3
  <2>6. /\ e \in CallType /\ e.page = g.page /\ e.action = g.action /\ e.slot = g.slot
        /\ e.waiting = g.waiting /\ e.review = g.review /\ e.envs = g.envs
        /\ e.answer = g.answer /\ e.pc = g.pc /\ e.who = g.who /\ e.seen = seen
    BY <2>4, <2>5 DEF CallType
  <2> QED BY <2>2, <2>4, <2>6
<1>4. who # None /\ call[c].pc \in Nat
  BY <1>1, Constants, CallFields
<1>9. call[c].page.reviewed =>
        e.seen = call[c].review.terms /\ (e.pc > 1 => e.who = call[c].review.account)
  BY <1>3, <1>4
<1>10. e.who # None
  BY <1>3, <1>4
<1>5. CallOK(e) /\ Onto(call[c], e)
  BY <1>1, <1>3, <1>9, <1>10, Advance, Zenon
<1>6. e.page.verifies => ~Through(e)
  <2>1. Steps(e) = Steps(call[c])
    BY <1>3 DEF Steps
  <2> QED BY <1>1, <1>3, <2>1, NotLast DEF Through
<1>7. c \notin verified
  <2>1. Moving(call[c])
    BY <1>1 DEF Moving
  <2> QED BY <2>1 DEF SubmissionsInv, VerifiedOK
<1>8. call' = [call EXCEPT ![c] = e] /\ UNCHANGED <<area, slot, lock, terms, checks>>
  BY DEF Becomes
<1> QED BY <1>3, <1>5, <1>6, <1>7, <1>8, Become

LEMMA ArriveKeeps ==
  ASSUME SubmissionsInv, NEW c \in DOMAIN call, Arrive(c)
  PROVE  SubmissionsInv'
<1>1. CallOK(call[c]) /\ call[c] \in CallType /\ call[c].answer = None /\ Running(c)
  BY CallKnown DEF Arrive, Running
<1>2. call[c].pc = 0 /\ ~Through(call[c])
  <2>1. call[c].pc = 0
    BY <1>1, StepIs DEF Arrive
  <2> QED BY <1>1, <2>1, StepsType DEF Through
<1>3. Settled(call[c])
  BY <1>1, <1>2 DEF CallOK, EnvelopesOK, Settled, Said
<1>4. PICK who \in People \cup {Guest} : Becomes(c, [Onward(c) EXCEPT !.who = who])
  BY DEF Arrive
<1>5. PICK e : e = [Onward(c) EXCEPT !.who = who]
  OBVIOUS
<1>7. e = [call[c] EXCEPT !.pc = call[c].pc + 1, !.who = who, !.seen = call[c].seen]
  BY <1>1, <1>5 DEF Onward, CallType
<1>6. call[c].seen \in Nat /\ (call[c].page.reviewed => call[c].seen = call[c].review.terms)
  BY <1>1, CallFields DEF CallOK, ReviewOK
<1>8. Becomes(c, e) /\ UNCHANGED verified
  BY <1>4, <1>5 DEF Arrive
<1> QED BY <1>1, <1>2, <1>3, <1>6, <1>7, <1>8, AdvanceKeeps

LEMMA AtStep ==
  ASSUME SubmissionsInv, NEW c \in DOMAIN call, Running(c), Step(c) \in StepNames
  PROVE  /\ CallOK(call[c]) /\ call[c] \in CallType /\ call[c].answer = None
         /\ call[c].pc \in Nat /\ call[c].pc # 0 /\ ~Through(call[c]) /\ At(call[c]) = Step(c)
         /\ call[c].who \in People \cup {Guest} /\ call[c].seen \in Nat
         /\ call[c].page.reviewed => call[c].seen = call[c].review.terms
<1>1. CallOK(call[c]) /\ call[c] \in CallType /\ call[c].answer = None
  BY CallKnown DEF Running
<1>2. call[c].pc \in Nat /\ call[c].pc # 0 /\ ~Through(call[c]) /\ At(call[c]) = Step(c)
  BY <1>1, StepIs, CallFields
<1>3. call[c].who \in People \cup {Guest} /\ call[c].seen \in Nat
  BY <1>1, <1>2, CallFields DEF CallOK
<1> QED BY <1>1, <1>2, <1>3 DEF CallOK, ReviewOK

LEMMA Reviewed ==
  ASSUME NEW d, CallOK(d), d.pc # 0, ~Through(d), At(d) # "account", d.page.reviewed
  PROVE  d.who = d.review.account /\ d.review \in ReviewType /\ At(d) # "friend"
<1>1. ReviewOK(d) /\ d.pc \in Nat /\ d.pc \in 1 .. Steps(d) /\ ReviewSteps(d.action.steps)
      /\ DOMAIN d.action.steps = 1 .. Steps(d)
  BY CallFields, StepsType DEF CallOK
<1>2. d.pc # 1
  BY <1>1 DEF ReviewSteps, At
<1>3. d.pc > 1
  BY <1>1, <1>2
<1> QED BY <1>1, <1>3 DEF ReviewOK, ReviewSteps, At

\* A step that signs nothing goes on to the next.
LEMMA OnwardKeeps ==
  ASSUME SubmissionsInv, NEW c \in DOMAIN call, Running(c), Step(c) \in StepNames, Step(c) # "send",
         Settled(call[c]), NEW seen \in Nat,
         call[c].page.reviewed =>
           seen = call[c].review.terms /\ call[c].who = call[c].review.account,
         NEW e, e = [call[c] EXCEPT !.pc = call[c].pc + 1, !.who = call[c].who, !.seen = seen],
         Becomes(c, e), UNCHANGED verified
  PROVE  SubmissionsInv'
<1>1. ~Through(call[c]) /\ At(call[c]) # "send" /\ call[c].who \in People \cup {Guest}
  BY AtStep
<1>2. PICK who \in People \cup {Guest} : who = call[c].who
  BY <1>1
<1>3. e = [call[c] EXCEPT !.pc = call[c].pc + 1, !.who = who, !.seen = seen]
  BY <1>2
<1> QED BY <1>1, <1>2, <1>3, AdvanceKeeps

LEMMA OnwardIs ==
  ASSUME NEW c, call[c] \in CallType
  PROVE  Onward(c) = [call[c] EXCEPT !.pc = call[c].pc + 1, !.who = call[c].who, !.seen = call[c].seen]
BY DEF Onward, CallType

\* Steps that wait for nothing have nothing under way.
LEMMA SettledAt ==
  ASSUME SubmissionsInv, NEW c \in DOMAIN call, Running(c), Step(c) \in StepNames,
         Step(c) \notin {"send", "friend"}
  PROVE  Settled(call[c])
<1>1. EnvelopesOK(call[c]) /\ call[c].answer = None /\ At(call[c]) = Step(c)
  BY AtStep DEF CallOK
<1> QED BY <1>1 DEF EnvelopesOK, Settled, Said

LEMMA CheckKeeps ==
  ASSUME SubmissionsInv, NEW c \in DOMAIN call, CheckAccount(c) \/ CheckTerms(c)
  PROVE  SubmissionsInv'
<1>1. Running(c) /\ Step(c) \in {"account", "terms"}
  BY DEF CheckAccount, CheckTerms
<1>2. Step(c) \in StepNames /\ Settled(call[c]) /\ Step(c) # "send"
  BY <1>1, SettledAt DEF StepNames
<1>3. /\ CallOK(call[c]) /\ call[c] \in CallType /\ call[c].pc # 0 /\ ~Through(call[c])
      /\ At(call[c]) = Step(c) /\ call[c].seen \in Nat
      /\ call[c].page.reviewed => call[c].seen = call[c].review.terms
  BY <1>1, <1>2, AtStep
<1>4. CASE CheckAccount(c)
  <2>1. PICK e : e = Onward(c)
    OBVIOUS
  <2>2. Becomes(c, e) /\ UNCHANGED verified /\ call[c].who = call[c].review.account
    BY <1>4, <2>1 DEF CheckAccount, SameAccount
  <2>3. e = [call[c] EXCEPT !.pc = call[c].pc + 1, !.who = call[c].who, !.seen = call[c].seen]
    BY <1>3, <2>1, OnwardIs
  <2> QED BY <1>1, <1>2, <1>3, <2>2, <2>3, OnwardKeeps
<1>5. CASE CheckTerms(c)
  <2>1. PICK e : e = [Onward(c) EXCEPT !.seen = terms]
    OBVIOUS
  <2>2. Becomes(c, e) /\ UNCHANGED verified /\ terms = call[c].review.terms /\ Step(c) # "account"
    BY <1>5, <2>1 DEF CheckTerms
  <2>3. e = [call[c] EXCEPT !.pc = call[c].pc + 1, !.who = call[c].who, !.seen = terms]
    BY <1>3, <2>1 DEF Onward, CallType
  <2>4. terms \in Nat
    BY Constants DEF SubmissionsInv
  <2>5. call[c].page.reviewed => call[c].who = call[c].review.account
    BY <1>3, <2>2, Reviewed
  <2> QED BY <1>1, <1>2, <2>2, <2>3, <2>4, <2>5, OnwardKeeps
<1> QED BY <1>4, <1>5

LEMMA PassKeeps ==
  ASSUME SubmissionsInv, NEW c \in DOMAIN call, FindSigner(c) \/ SkipFriend(c)
  PROVE  SubmissionsInv'
<1>1. Running(c) /\ Step(c) \in {"saved", "any", "friend"}
  BY DEF FindSigner, SkipFriend
<1>2. Step(c) \in StepNames /\ Step(c) # "send" /\ Step(c) # "account"
  BY <1>1 DEF StepNames
<1>3. /\ CallOK(call[c]) /\ call[c] \in CallType /\ call[c].pc # 0 /\ ~Through(call[c])
      /\ At(call[c]) = Step(c) /\ call[c].seen \in Nat /\ call[c].answer = None
      /\ call[c].page.reviewed => call[c].seen = call[c].review.terms
  BY <1>1, <1>2, AtStep
<1>4. Settled(call[c])
  <2>1. CASE FindSigner(c)
    BY <1>1, <1>2, <2>1, SettledAt DEF FindSigner
  <2>2. CASE SkipFriend(c)
    BY <1>3, <2>2, NotConfirming DEF SkipFriend
  <2> QED BY <2>1, <2>2
<1>5. PICK e : e = Onward(c)
  OBVIOUS
<1>6. Becomes(c, e) /\ UNCHANGED verified
  BY <1>5 DEF FindSigner, SkipFriend
<1>7. e = [call[c] EXCEPT !.pc = call[c].pc + 1, !.who = call[c].who, !.seen = call[c].seen]
  BY <1>3, <1>5, OnwardIs
<1>8. call[c].page.reviewed => call[c].who = call[c].review.account
  BY <1>2, <1>3, Reviewed
<1> QED BY <1>1, <1>2, <1>3, <1>4, <1>6, <1>7, <1>8, OnwardKeeps

\* A call with nothing under way gives a definitive answer.
LEMMA AnswerWith ==
  ASSUME NEW d, CallOK(d), d.answer = None, Settled(d), d.pc # 0,
         NEW a \in AnswerType, a.kind \in {"failed", "thrown", "ok"},
         a.kind = "ok" => Through(d) /\ a.hash = Last(d),
         a.kind # "ok" => ~Through(d) /\ a.hash = 0,
         NEW e, e = [d EXCEPT !.answer = a]
  PROVE  /\ CallOK(e) /\ Onto(d, e) /\ ~Moving(e) /\ e.slot = d.slot
         /\ e.page = d.page /\ (Through(e) <=> Through(d))
<1>1. d \in CallType
  BY DEF CallOK
<1>2. /\ e \in CallType /\ e.page = d.page /\ e.action = d.action /\ e.slot = d.slot
      /\ e.waiting = d.waiting /\ e.review = d.review /\ e.envs = d.envs /\ e.who = d.who
      /\ e.seen = d.seen /\ e.pc = d.pc /\ e.answer = a
  BY <1>1 DEF CallType
<1>3. Steps(e) = Steps(d) /\ Last(e) = Last(d) /\ (Through(e) <=> Through(d)) /\ a # None
  BY <1>2, Constants DEF Steps, Last, Through
<1>4. Settled(e) /\ ~Moving(e)
  BY <1>2, <1>3 DEF Settled, Moving
<1>5. EnvelopesOK(e)
  BY <1>4 DEF EnvelopesOK, Settled
<1>6. AnswerOK(e)
  <2>1. Last(d) \in Nat
    BY <1>1, LastType
  <2> QED BY <1>2, <1>3, <2>1 DEF AnswerOK, Said
<1>7. d.page.reviewed => ReviewOK(e)
  BY <1>2 DEF CallOK, ReviewOK
<1>8. d.page.keep => KeepOK(e)
  <2> SUFFICES ASSUME d.page.keep PROVE KeepOK(e)
    OBVIOUS
  <2>1. KeepOK(d)
    BY DEF CallOK
  <2>2. Last(d) \in Nat /\ DOMAIN d.envs = 1 .. Last(d)
    BY <1>1, LastType
  <2>3. a.kind # "ok" => ~Landed(e)
    <3> SUFFICES ASSUME a.kind # "ok" PROVE ~Landed(e)
      OBVIOUS
    <3>1. Last(d) # 1
      BY <2>1, <2>2 DEF KeepOK, Settled
    <3>2. Last(d) = 0
      BY <2>1, <2>2, <3>1 DEF KeepOK
    <3> QED BY <1>2, <2>2, <3>2 DEF Landed
  <2> QED BY <1>2, <1>3, <2>1, <2>3 DEF KeepOK, Said
<1>9. Onto(d, e)
  <2>1. Landed(e) <=> Landed(d)
    BY <1>2 DEF Landed
  <2> QED BY <1>2, <1>4, <2>1 DEF Onto
<1>10. e.pc <= Steps(e) + 1 /\ (e.pc # 0 => e.who # None) /\ e.action \in e.page.actions
       /\ (e.slot # None => e.waiting)
  BY <1>2, <1>3 DEF CallOK
<1> QED BY <1>2, <1>3, <1>4, <1>5, <1>6, <1>7, <1>8, <1>9, <1>10 DEF CallOK

LEMMA AnswerKeeps ==
  ASSUME SubmissionsInv, NEW c \in DOMAIN call, Refuse(c) \/ Answer(c)
  PROVE  SubmissionsInv'
<1>1. CallOK(call[c]) /\ call[c] \in CallType /\ call[c].answer = None /\ call[c].pc \in Nat
  BY CallKnown, CallFields DEF Refuse, Answer, Running
<1>2. Last(call[c]) \in Nat /\ Steps(call[c]) \in Nat
  BY <1>1, LastType, StepsType
<1>3. PICK a \in AnswerType :
        /\ Becomes(c, [call[c] EXCEPT !.answer = a]) /\ UNCHANGED verified
        /\ a.kind \in {"failed", "thrown", "ok"} /\ call[c].pc # 0 /\ Settled(call[c])
        /\ a.kind = "ok" => Through(call[c]) /\ a.hash = Last(call[c])
        /\ a.kind # "ok" => ~Through(call[c]) /\ a.hash = 0
  <2>1. CASE Refuse(c)
    <3>1. PICK kind \in {"failed", "thrown"} :
            Becomes(c, [call[c] EXCEPT !.answer = [kind |-> kind, hash |-> 0]])
      BY <2>1 DEF Refuse
    <3>2. PICK a : a = [kind |-> kind, hash |-> 0]
      OBVIOUS
    <3>3. a \in AnswerType /\ a.kind = kind /\ a.hash = 0
      BY <3>2 DEF AnswerType, Kinds
    <3>4. ~Through(call[c]) /\ call[c].pc # 0
      BY <1>1, <2>1, StepIs DEF Refuse
    <3>5. Settled(call[c])
      BY <1>1, <2>1, NotConfirming DEF Refuse
    <3>6. Becomes(c, [call[c] EXCEPT !.answer = a]) /\ UNCHANGED verified
      BY <2>1, <3>1, <3>2 DEF Refuse
    <3> QED BY <3>3, <3>4, <3>5, <3>6
  <2>2. CASE Answer(c)
    <3>1. PICK a : a = [kind |-> "ok", hash |-> Len(call[c].envs)]
      OBVIOUS
    <3>2. a \in AnswerType /\ a.kind = "ok" /\ a.hash = Last(call[c])
      BY <1>2, <3>1 DEF AnswerType, Kinds, Last
    <3>3. Through(call[c])
      BY <1>1, <2>2, StepIs DEF Answer
    <3>4. call[c].pc # 0
      BY <1>1, <1>2, <3>3 DEF Through
    <3>5. Settled(call[c])
      BY <1>1, <3>3 DEF CallOK, EnvelopesOK, Settled, Said
    <3>6. Becomes(c, [call[c] EXCEPT !.answer = a]) /\ UNCHANGED verified
      BY <2>2, <3>1 DEF Answer
    <3> QED BY <3>2, <3>3, <3>4, <3>5, <3>6
  <2> QED BY <2>1, <2>2
<1>4. PICK e : e = [call[c] EXCEPT !.answer = a]
  OBVIOUS
<1>5. /\ CallOK(e) /\ Onto(call[c], e) /\ ~Moving(e) /\ e.slot = call[c].slot
      /\ e.page = call[c].page /\ (Through(e) <=> Through(call[c]))
  BY <1>1, <1>3, <1>4, AnswerWith
<1>6. e.page.verifies /\ Through(e) => c \in verified
  BY <1>5 DEF SubmissionsInv, VerifiedOK
<1>7. call' = [call EXCEPT ![c] = e] /\ UNCHANGED <<area, slot, lock, terms, checks>>
  BY <1>3, <1>4 DEF Becomes
<1> QED BY <1>3, <1>5, <1>6, <1>7, Become

\* A call signs an envelope and hands it to the network.
LEMMA SendWith ==
  ASSUME NEW d, CallOK(d), d.answer = None, Settled(d), d.pc # 0, ~Through(d),
         At(d) \in {"send", "friend"},
         NEW n \in EnvelopeType, n.status = "open", ~n.known,
         d.page.reviewed => n.account = d.review.account /\ n.terms = d.review.terms,
         NEW e, e = [d EXCEPT !.envs = Append(d.envs, n)]
  PROVE  CallOK(e) /\ Onto(d, e) /\ e.slot = d.slot /\ ~Through(e)
<1>1. d \in CallType /\ d.envs \in Seq(EnvelopeType)
  BY CallFields DEF CallOK
<1>2. PICK envs : envs = Append(d.envs, n)
  OBVIOUS
<1>3. /\ envs \in Seq(EnvelopeType) /\ Len(envs) = Last(d) + 1 /\ envs[Len(envs)] = n
      /\ DOMAIN envs = 1 .. Last(d) + 1 /\ DOMAIN d.envs = 1 .. Last(d)
      /\ \A i \in DOMAIN d.envs : envs[i] = d.envs[i]
  BY <1>1, <1>2 DEF Last
<1>4. /\ e \in CallType /\ e.page = d.page /\ e.action = d.action /\ e.slot = d.slot
      /\ e.waiting = d.waiting /\ e.review = d.review /\ e.envs = envs /\ e.who = d.who
      /\ e.seen = d.seen /\ e.pc = d.pc /\ e.answer = d.answer
  BY <1>1, <1>2, <1>3 DEF CallType
<1>5. /\ Last(e) = Last(d) + 1 /\ Last(d) \in Nat /\ Steps(e) = Steps(d)
      /\ (Through(e) <=> Through(d)) /\ At(e) = At(d)
  BY <1>1, <1>3, <1>4, LastType DEF Last, Steps, Through, At
<1>6. \A i \in DOMAIN e.envs : (i \in DOMAIN d.envs /\ e.envs[i] = d.envs[i]) \/ (i = Last(e) /\ e.envs[i] = n)
  <2> SUFFICES ASSUME NEW i \in DOMAIN e.envs
               PROVE  (i \in DOMAIN d.envs /\ e.envs[i] = d.envs[i]) \/ (i = Last(e) /\ e.envs[i] = n)
    OBVIOUS
  <2>1. i \in 1 .. Last(d) + 1 /\ Last(d) \in Nat
    BY <1>3, <1>4, <1>5
  <2>2. CASE i = Last(d) + 1
    BY <1>3, <1>4, <1>5, <2>2
  <2>3. CASE i # Last(d) + 1
    <3>1. i \in 1 .. Last(d)
      BY <2>1, <2>3
    <3>2. i \in DOMAIN d.envs /\ e.envs[i] = envs[i]
      BY <1>3, <1>4, <3>1
    <3> QED BY <1>3, <3>2
  <2> QED BY <2>2, <2>3
<1>7. EnvelopesOK(e)
  <2> SUFFICES ASSUME NEW i \in DOMAIN e.envs
               PROVE  /\ ~e.envs[i].known => i = Last(e) /\ e.answer = None /\ ~Through(e) /\ e.pc # 0
                                             /\ At(e) \in {"send", "friend"}
                      /\ e.envs[i].status = "open" => i = Last(e) /\ (e.envs[i].known => Said(e, {"pending"}))
    BY DEF EnvelopesOK
  <2>1. CASE i \in DOMAIN d.envs /\ e.envs[i] = d.envs[i]
    BY <2>1 DEF Settled
  <2>2. CASE i = Last(e) /\ e.envs[i] = n
    BY <1>4, <1>5, <2>2
  <2> QED BY <1>6, <2>1, <2>2
<1>8. AnswerOK(e)
  BY <1>4 DEF AnswerOK, Said
<1>9. d.page.reviewed => ReviewOK(e)
  <2> SUFFICES ASSUME d.page.reviewed PROVE ReviewOK(e)
    OBVIOUS
  <2>1. ReviewOK(d)
    BY DEF CallOK
  <2>2. \A i \in DOMAIN e.envs : e.envs[i].account = d.review.account /\ e.envs[i].terms = d.review.terms
    BY <1>6, <2>1 DEF ReviewOK
  <2> QED BY <1>4, <2>1, <2>2 DEF ReviewOK
<1>10. d.page.keep => KeepOK(e)
  <2> SUFFICES ASSUME d.page.keep PROVE KeepOK(e)
    OBVIOUS
  <2>1. KeepOK(d)
    BY DEF CallOK
  <2>2. Last(d) = 0
    <3>1. Last(d) # 1
      BY <1>3, <2>1 DEF KeepOK, Settled
    <3> QED BY <1>5, <2>1, <3>1 DEF KeepOK
  <2>3. /\ d.pc \in 1 .. Steps(d) /\ KeepSteps(d.action.steps) /\ DOMAIN d.action.steps = 1 .. Steps(d)
        /\ Steps(d) \in Nat
    BY StepsType
  <2>4. d.pc = Steps(d)
    BY <2>3 DEF KeepSteps, At, Steps
  <2>5. ~e.envs[1].known
    BY <1>3, <1>4, <1>5, <2>2
  <2> QED BY <1>4, <1>5, <2>2, <2>3, <2>4, <2>5 DEF KeepOK, Said
<1>11. Onto(d, e)
  <2>1. Moving(d)
    BY DEF Moving
  <2>2. Landed(e) => Landed(d)
    BY <1>6 DEF Landed
  <2> QED BY <1>4, <2>1, <2>2 DEF Onto
<1>12. e.pc <= Steps(e) + 1 /\ (e.pc # 0 => e.who # None) /\ e.action \in e.page.actions
       /\ (e.slot # None => e.waiting)
  BY <1>4, <1>5 DEF CallOK
<1> QED BY <1>4, <1>5, <1>7, <1>8, <1>9, <1>10, <1>11, <1>12 DEF CallOK

LEMMA Unverified ==
  ASSUME SubmissionsInv, NEW c \in DOMAIN call, Moving(call[c])
  PROVE  c \notin verified
BY DEF SubmissionsInv, VerifiedOK

LEMMA InvokeKeeps ==
  ASSUME SubmissionsInv, NEW c \in DOMAIN call, invokeAs(c)
  PROVE  SubmissionsInv'
<1>1. Running(c) /\ Step(c) \in {"send", "friend"} /\ ~Confirming(c) /\ Step(c) \in StepNames
  BY DEF invokeAs, StepNames
<1>2. /\ CallOK(call[c]) /\ call[c] \in CallType /\ call[c].answer = None
      /\ call[c].pc # 0 /\ ~Through(call[c]) /\ At(call[c]) = Step(c)
      /\ call[c].who \in People \cup {Guest} /\ call[c].seen \in Nat
      /\ call[c].page.reviewed => call[c].seen = call[c].review.terms
  BY <1>1, AtStep
<1>3. Settled(call[c])
  BY <1>1, <1>2, NotConfirming
<1>4. PICK payer : payer = IF call[c].who = Guest \/ Step(c) = "friend" THEN Demo ELSE call[c].who
  OBVIOUS
<1>5. payer \in People \cup {Demo}
  BY <1>2, <1>4
<1>6. call[c].page.reviewed => payer = call[c].review.account
  <2> SUFFICES ASSUME call[c].page.reviewed PROVE payer = call[c].review.account
    OBVIOUS
  <2>1. call[c].who = call[c].review.account /\ call[c].review \in ReviewType /\ Step(c) # "friend"
    BY <1>1, <1>2, Reviewed
  <2>2. call[c].who # Guest
    BY <2>1, Constants DEF ReviewType
  <2> QED BY <1>4, <2>1, <2>2
<1>7. PICK n : n = [account |-> payer, terms |-> call[c].seen, status |-> "open", known |-> FALSE]
  OBVIOUS
<1>8. /\ n \in EnvelopeType /\ n.status = "open" /\ ~n.known
      /\ call[c].page.reviewed => n.account = call[c].review.account /\ n.terms = call[c].review.terms
  BY <1>2, <1>5, <1>6, <1>7 DEF EnvelopeType
<1>9. PICK e : e = [call[c] EXCEPT !.envs = Append(call[c].envs, n)]
  OBVIOUS
<1>10. CallOK(e) /\ Onto(call[c], e) /\ e.slot = call[c].slot /\ ~Through(e)
  BY <1>1, <1>2, <1>3, <1>8, <1>9, SendWith
<1>11. c \notin verified
  <2>1. Moving(call[c])
    BY <1>2 DEF Moving
  <2> QED BY <2>1, Unverified
<1>12. call' = [call EXCEPT ![c] = e] /\ UNCHANGED <<area, slot, lock, terms, checks, verified>>
  BY <1>4, <1>7, <1>9 DEF invokeAs, Becomes
<1> QED BY <1>10, <1>11, <1>12, Become

-----------------------------------------------------------------------------
(* What becomes of an envelope.                                            *)

\* The network settles it, heard of or not.
LEMMA LedgerWith ==
  ASSUME NEW d, CallOK(d), NEW i \in DOMAIN d.envs, d.envs[i].status = "open",
         NEW o \in {"ok", "failed", "dead"},
         NEW e, e = [d EXCEPT !.envs = [d.envs EXCEPT ![i] = [d.envs[i] EXCEPT !.status = o]]]
  PROVE  /\ CallOK(e) /\ Onto(d, e) /\ e.slot = d.slot
         /\ e.page = d.page /\ (Through(e) <=> Through(d))
<1>1. d \in CallType /\ d.envs[i] \in EnvelopeType /\ DOMAIN d.envs = 1 .. Last(d) /\ Last(d) \in Nat
  BY LastType DEF CallOK
<1>2. PICK n : n = [d.envs[i] EXCEPT !.status = o]
  OBVIOUS
<1>3. n \in EnvelopeType /\ n.account = d.envs[i].account /\ n.terms = d.envs[i].terms
      /\ n.known = d.envs[i].known /\ n.status = o
  BY <1>1, <1>2 DEF EnvelopeType
<1>4. PICK envs : envs = [d.envs EXCEPT ![i] = n]
  OBVIOUS
<1>5. /\ envs \in Seq(EnvelopeType) /\ Len(envs) = Last(d) /\ DOMAIN envs = DOMAIN d.envs
      /\ envs[i] = n /\ \A j \in DOMAIN d.envs : j # i => envs[j] = d.envs[j]
      /\ \A j \in DOMAIN d.envs : envs[j].account = d.envs[j].account /\ envs[j].terms = d.envs[j].terms
  <2>1. d.envs \in Seq(EnvelopeType)
    BY <1>1, CallFields
  <2>2. /\ envs \in Seq(EnvelopeType) /\ Len(envs) = Last(d) /\ DOMAIN envs = DOMAIN d.envs
        /\ envs[i] = n /\ \A j \in DOMAIN d.envs : j # i => envs[j] = d.envs[j]
    BY <1>3, <1>4, <2>1 DEF Last
  <2> QED BY <1>3, <2>2
<1>6. e = [d EXCEPT !.envs = envs]
  BY <1>2, <1>4
<1>7. /\ e \in CallType /\ e.page = d.page /\ e.action = d.action /\ e.slot = d.slot
      /\ e.waiting = d.waiting /\ e.review = d.review /\ e.envs = envs /\ e.who = d.who
      /\ e.seen = d.seen /\ e.pc = d.pc /\ e.answer = d.answer
  BY <1>1, <1>5, <1>6 DEF CallType
<1>8. Last(e) = Last(d) /\ Steps(e) = Steps(d) /\ (Through(e) <=> Through(d)) /\ At(e) = At(d)
      /\ (\A kinds : Said(e, kinds) <=> Said(d, kinds))
  BY <1>5, <1>7 DEF Last, Steps, Through, At, Said
<1>9. /\ \A j \in DOMAIN envs : envs[j].known = d.envs[j].known
      /\ \A j \in DOMAIN envs : envs[j].status = "open" => d.envs[j].status = "open"
  BY <1>3, <1>5
<1>10. EnvelopesOK(e)
  <2>1. EnvelopesOK(d)
    BY DEF CallOK
  <2> QED BY <1>5, <1>7, <1>8, <1>9, <2>1 DEF EnvelopesOK
<1>11. AnswerOK(e)
  BY <1>7, <1>8 DEF CallOK, AnswerOK
<1>12. d.page.reviewed => ReviewOK(e)
  BY <1>5, <1>7 DEF CallOK, ReviewOK
<1>13. d.page.keep => KeepOK(e)
  <2> SUFFICES ASSUME d.page.keep PROVE KeepOK(e)
    OBVIOUS
  <2>1. KeepOK(d)
    BY DEF CallOK
  <2>2. ~Said(d, {"failed", "thrown"})
    <3>1. d.envs[i].known => Said(d, {"pending"})
      BY DEF CallOK, EnvelopesOK
    <3>2. ~d.envs[i].known => d.answer = None
      BY DEF CallOK, EnvelopesOK
    <3> QED BY <3>1, <3>2 DEF Said
  <2>3. Last(d) = 1 => e.envs[1].known = d.envs[1].known
    BY <1>1, <1>5, <1>7, <1>9
  <2> QED BY <1>7, <1>8, <2>1, <2>2, <2>3 DEF KeepOK
<1>14. Onto(d, e)
  <2>1. Moving(d)
    BY DEF Moving
  <2> QED BY <1>7, <1>8, <2>1 DEF Onto
<1>15. e.pc <= Steps(e) + 1 /\ (e.pc # 0 => e.who # None) /\ e.action \in e.page.actions
       /\ (e.slot # None => e.waiting)
  BY <1>7, <1>8 DEF CallOK
<1> QED BY <1>7, <1>8, <1>10, <1>11, <1>12, <1>13, <1>14, <1>15 DEF CallOK

LEMMA LedgerKeeps ==
  ASSUME SubmissionsInv, NEW c \in DOMAIN call, NEW i \in DOMAIN call[c].envs,
         NEW o \in {"ok", "failed", "dead"}, Ledger(c, i, o)
  PROVE  SubmissionsInv'
<1>1. CallOK(call[c]) /\ call[c].envs[i].status = "open"
  BY CallKnown DEF Ledger
<1>2. PICK e : e = [call[c] EXCEPT !.envs = [call[c].envs EXCEPT ![i] = [call[c].envs[i] EXCEPT !.status = o]]]
  OBVIOUS
<1>3. /\ CallOK(e) /\ Onto(call[c], e) /\ e.slot = call[c].slot
      /\ e.page = call[c].page /\ (Through(e) <=> Through(call[c]))
  BY <1>1, <1>2, LedgerWith
<1>4. c \notin verified
  <2>1. Moving(call[c])
    BY <1>1 DEF Moving
  <2> QED BY <2>1, Unverified
<1>5. e.page.verifies /\ Through(e) => c \in verified
  BY <1>3 DEF SubmissionsInv, VerifiedOK
<1>6. call' = [call EXCEPT ![c] = e] /\ UNCHANGED <<area, slot, lock, terms, checks, verified>>
  BY <1>2 DEF Ledger
<1> QED BY <1>3, <1>4, <1>5, <1>6, Become

\* The call hears of its last envelope: that ends it, or it goes on.
Ends(d, e, n) ==
  /\ e.pc = d.pc /\ e.answer \in AnswerType /\ e.answer.hash = Last(d)
  /\ e.answer.kind \in {"pending", "failed"}
  /\ e.answer.kind = "failed" => n.status \in {"failed", "dead"}
GoesOn(d, e, n) == e.pc = d.pc + 1 /\ e.answer = None /\ n.status = "ok"

LEMMA HeardWith ==
  ASSUME NEW d, CallOK(d), d.answer = None, d.pc # 0, ~Through(d), At(d) \in {"send", "friend"},
         NEW i \in DOMAIN d.envs, i = Last(d),
         NEW n \in EnvelopeType, n.known, n.account = d.envs[i].account, n.terms = d.envs[i].terms,
         NEW envs, envs = [d.envs EXCEPT ![i] = n],
         NEW e \in CallType, e.page = d.page, e.action = d.action, e.slot = d.slot,
         e.waiting = d.waiting, e.review = d.review, e.envs = envs, e.who = d.who, e.seen = d.seen,
         Ends(d, e, n) \/ GoesOn(d, e, n)
  PROVE  /\ CallOK(e) /\ Onto(d, e)
         /\ Ends(d, e, n) => ~Through(e)
         /\ GoesOn(d, e, n) => (~d.page.keep \/ Through(e)) /\ Settled(e)
<1>1. d \in CallType /\ DOMAIN d.envs = 1 .. Last(d) /\ Last(d) \in Nat /\ d.envs \in Seq(EnvelopeType)
  BY LastType, CallFields DEF CallOK
<1>2. /\ envs \in Seq(EnvelopeType) /\ Len(envs) = Last(d) /\ DOMAIN envs = DOMAIN d.envs
      /\ envs[i] = n /\ \A j \in DOMAIN d.envs : j # i => envs[j] = d.envs[j]
  BY <1>1 DEF Last
<1>3. \A j \in DOMAIN d.envs : envs[j].account = d.envs[j].account /\ envs[j].terms = d.envs[j].terms
  BY <1>2
<1>4. Last(e) = Last(d) /\ Steps(e) = Steps(d)
  BY <1>2 DEF Last, Steps
<1>5. /\ d.pc \in 1 .. Steps(d) /\ Steps(d) \in Nat /\ DOMAIN d.action.steps = 1 .. Steps(d)
      /\ d.page.keep => KeepSteps(d.action.steps)
  BY StepsType
<1>6. \A j \in DOMAIN envs : envs[j].known /\ (envs[j].status = "open" => j = i)
  <2>1. EnvelopesOK(d)
    BY DEF CallOK
  <2>2. \A j \in DOMAIN d.envs : j # i => d.envs[j].known /\ d.envs[j].status # "open"
    BY <2>1 DEF EnvelopesOK
  <2> QED BY <1>2, <2>2
<1>7. Ends(d, e, n) => ~Through(e)
  BY <1>4 DEF Ends, Through
<1>8. Ends(d, e, n) /\ n.status = "open" => Said(e, {"pending"})
  BY Constants DEF Ends, Said
<1>9. GoesOn(d, e, n) => Settled(e)
  BY <1>2, <1>6 DEF GoesOn, Settled
<1>10. EnvelopesOK(e)
  BY <1>2, <1>4, <1>6, <1>8, <1>9 DEF EnvelopesOK, Settled
<1>11. AnswerOK(e)
  <2>1. Last(d) > 0
    BY <1>1
  <2>2. CASE Ends(d, e, n)
    <3>1. e.answer.hash = Last(e) /\ Last(e) \in Nat /\ e.answer.kind # "ok"
      BY <1>1, <1>4, <2>2 DEF Ends
    <3> QED BY <1>4, <2>1, <3>1 DEF AnswerOK, Said
  <2>3. CASE GoesOn(d, e, n)
    BY <2>3 DEF AnswerOK, Said, GoesOn
  <2> QED BY <2>2, <2>3
<1>12. d.page.reviewed => ReviewOK(e)
  <2> SUFFICES ASSUME d.page.reviewed PROVE ReviewOK(e)
    OBVIOUS
  <2>1. ReviewOK(d)
    BY DEF CallOK
  <2>2. d.who = d.review.account
    <3>1. At(d) # "account"
      OBVIOUS
    <3> QED BY <3>1, Reviewed
  <2> QED BY <1>2, <1>3, <2>1, <2>2 DEF ReviewOK
<1>13. d.page.keep => d.pc = Steps(d) /\ Last(d) = 1
  <2> SUFFICES ASSUME d.page.keep PROVE d.pc = Steps(d) /\ Last(d) = 1
    OBVIOUS
  <2>1. Last(d) <= 1
    BY DEF CallOK, KeepOK
  <2>2. d.pc = Steps(d)
    BY <1>5 DEF KeepSteps, At, Steps
  <2> QED BY <1>1, <2>1, <2>2
<1>14. GoesOn(d, e, n) => ~d.page.keep \/ Through(e)
  BY <1>4, <1>5, <1>13 DEF GoesOn, Through
<1>15. d.page.keep => KeepOK(e)
  <2> SUFFICES ASSUME d.page.keep PROVE KeepOK(e)
    OBVIOUS
  <2>1. Last(e) = 1 /\ e.pc >= Steps(e)
    BY <1>4, <1>5, <1>13 DEF Ends, GoesOn
  <2>2. e.answer = None => Through(e)
    BY <1>14, Constants DEF Ends
  <2>3. Said(e, {"failed", "thrown"}) => ~Landed(e)
    <3> SUFFICES ASSUME Said(e, {"failed", "thrown"}) PROVE ~Landed(e)
      OBVIOUS
    <3>1. n.status \in {"failed", "dead"}
      BY DEF Said, Ends, GoesOn
    <3>2. \A j \in DOMAIN envs : envs[j] = n
      BY <1>1, <1>2, <1>13
    <3> QED BY <3>1, <3>2 DEF Landed
  <2> QED BY <2>1, <2>2, <2>3 DEF KeepOK
<1>16. Onto(d, e)
  <2>1. Moving(d)
    BY DEF Moving
  <2> QED BY <2>1 DEF Onto
<1>17. e.pc <= Steps(e) + 1 /\ (e.pc # 0 => e.who # None) /\ e.action \in e.page.actions
       /\ (e.slot # None => e.waiting)
  BY <1>4, <1>5 DEF CallOK, Ends, GoesOn
<1> QED BY <1>7, <1>9, <1>10, <1>11, <1>12, <1>14, <1>15, <1>16, <1>17 DEF CallOK

LEMMA WaitsAt ==
  ASSUME SubmissionsInv, NEW c \in DOMAIN call, Running(c), Confirming(c)
  PROVE  /\ CallOK(call[c]) /\ call[c] \in CallType /\ call[c].answer = None
         /\ call[c].pc # 0 /\ ~Through(call[c]) /\ At(call[c]) \in {"send", "friend"}
         /\ Last(call[c]) \in DOMAIN call[c].envs /\ c \notin verified
<1>1. CallOK(call[c]) /\ call[c] \in CallType /\ call[c].answer = None
  BY CallKnown DEF Running
<1>2. Last(call[c]) \in DOMAIN call[c].envs
  BY <1>1, LastType DEF Confirming
<1>3. ~call[c].envs[Last(call[c])].known
  BY DEF Confirming, Last
<1>4. call[c].pc # 0 /\ ~Through(call[c]) /\ At(call[c]) \in {"send", "friend"}
  BY <1>1, <1>2, <1>3 DEF CallOK, EnvelopesOK
<1>5. c \notin verified
  <2>1. Moving(call[c])
    BY <1>1, <1>4 DEF Moving
  <2> QED BY <2>1, Unverified
<1> QED BY <1>1, <1>2, <1>4, <1>5

LEMMA RejectedKeeps ==
  ASSUME SubmissionsInv, NEW c \in DOMAIN call, Rejected(c)
  PROVE  SubmissionsInv'
<1>1. Running(c) /\ Confirming(c)
  BY DEF Rejected
<1>2. /\ CallOK(call[c]) /\ call[c] \in CallType /\ call[c].answer = None
      /\ call[c].pc # 0 /\ ~Through(call[c]) /\ At(call[c]) \in {"send", "friend"}
      /\ Last(call[c]) \in DOMAIN call[c].envs /\ c \notin verified
  BY <1>1, WaitsAt
<1>3. PICK i : i = Last(call[c])
  OBVIOUS
<1>4. /\ i \in DOMAIN call[c].envs /\ call[c].envs[i] \in EnvelopeType /\ i \in Nat
  BY <1>2, <1>3, LastType
<1>5. PICK n : n = [call[c].envs[i] EXCEPT !.status = "dead", !.known = TRUE]
  OBVIOUS
<1>6. /\ n \in EnvelopeType /\ n.known /\ n.status = "dead"
      /\ n.account = call[c].envs[i].account /\ n.terms = call[c].envs[i].terms
  BY <1>4, <1>5 DEF EnvelopeType
<1>7. PICK envs : envs = [call[c].envs EXCEPT ![i] = n]
  OBVIOUS
<1>8. envs \in Seq(EnvelopeType)
  BY <1>2, <1>4, <1>6, <1>7, CallFields
<1>9. PICK a : a = [kind |-> "failed", hash |-> i]
  OBVIOUS
<1>10. a \in AnswerType /\ a.kind = "failed" /\ a.hash = i
  BY <1>4, <1>9 DEF AnswerType, Kinds
<1>11. PICK e : e = [call[c] EXCEPT !.envs = envs, !.answer = a]
  OBVIOUS
<1>12. /\ e \in CallType /\ e.page = call[c].page /\ e.action = call[c].action /\ e.slot = call[c].slot
       /\ e.waiting = call[c].waiting /\ e.review = call[c].review /\ e.envs = envs
       /\ e.who = call[c].who /\ e.seen = call[c].seen /\ e.pc = call[c].pc /\ e.answer = a
  <2>1. PICK f : f = [call[c] EXCEPT !.envs = envs]
    OBVIOUS
  <2>2. /\ f \in CallType /\ f.page = call[c].page /\ f.action = call[c].action /\ f.slot = call[c].slot
        /\ f.waiting = call[c].waiting /\ f.review = call[c].review /\ f.envs = envs
        /\ f.who = call[c].who /\ f.seen = call[c].seen /\ f.pc = call[c].pc
    BY <1>2, <1>8, <2>1 DEF CallType
  <2>3. e = [f EXCEPT !.answer = a]
    BY <1>11, <2>1
  <2> QED BY <1>10, <2>2, <2>3 DEF CallType
<1>13. Ends(call[c], e, n)
  BY <1>3, <1>6, <1>10, <1>12 DEF Ends
<1>14. CallOK(e) /\ Onto(call[c], e) /\ ~Through(e)
  BY <1>2, <1>3, <1>4, <1>6, <1>7, <1>12, <1>13, HeardWith
<1>15. call' = [call EXCEPT ![c] = e] /\ UNCHANGED <<area, slot, lock, terms, checks, verified>>
  <2>1. Becomes(c, [call[c] EXCEPT !.envs[i] = [@ EXCEPT !.status = "dead", !.known = TRUE],
                                   !.answer = [kind |-> "failed", hash |-> i]])
        /\ UNCHANGED verified
    BY <1>3 DEF Rejected, Last
  <2> QED BY <1>5, <1>7, <1>9, <1>11, <2>1 DEF Becomes
<1> QED BY <1>2, <1>12, <1>14, <1>15, Become

LEMMA StatusesAre ==
  ASSUME NEW c, NEW i \in Nat, NEW result \in Statuses(c, i)
  PROVE  /\ result \in AnswerType /\ result.hash = i /\ result.kind \in {"pending", "ok", "failed"}
         /\ result.kind = "ok" => call[c].envs[i].status = "ok"
         /\ result.kind = "failed" => call[c].envs[i].status = "failed"
BY DEF Statuses, AnswerType, Kinds

LEMMA ReportKeeps ==
  ASSUME SubmissionsInv, NEW c \in DOMAIN call, Report(c)
  PROVE  SubmissionsInv'
<1>1. Running(c) /\ Confirming(c)
  BY DEF Report
<1>2. /\ CallOK(call[c]) /\ call[c] \in CallType /\ call[c].answer = None
      /\ call[c].pc # 0 /\ ~Through(call[c]) /\ At(call[c]) \in {"send", "friend"}
      /\ Last(call[c]) \in DOMAIN call[c].envs /\ c \notin verified
  BY <1>1, WaitsAt
<1>3. PICK i : i = Last(call[c])
  OBVIOUS
<1>4. /\ i \in DOMAIN call[c].envs /\ call[c].envs[i] \in EnvelopeType /\ i \in Nat
  BY <1>2, <1>3, LastType
<1>5. PICK n : n = [call[c].envs[i] EXCEPT !.known = TRUE]
  OBVIOUS
<1>6. /\ n \in EnvelopeType /\ n.known /\ n.status = call[c].envs[i].status
      /\ n.account = call[c].envs[i].account /\ n.terms = call[c].envs[i].terms
  BY <1>4, <1>5 DEF EnvelopeType
<1>7. PICK envs : envs = [call[c].envs EXCEPT ![i] = n]
  OBVIOUS
<1>8. envs \in Seq(EnvelopeType)
  BY <1>2, <1>4, <1>6, <1>7, CallFields
<1>9. PICK f : f = [call[c] EXCEPT !.envs = envs]
  OBVIOUS
<1>10. /\ f \in CallType /\ f.page = call[c].page /\ f.action = call[c].action /\ f.slot = call[c].slot
       /\ f.waiting = call[c].waiting /\ f.review = call[c].review /\ f.envs = envs
       /\ f.who = call[c].who /\ f.seen = call[c].seen /\ f.pc = call[c].pc /\ f.answer = call[c].answer
  BY <1>2, <1>8, <1>9 DEF CallType
<1>11. PICK result \in Statuses(c, i) :
         IF result.kind = "ok"
         THEN /\ Becomes(c, [Onward(c) EXCEPT !.envs[i].known = TRUE])
              /\ verified' = IF call[c].page.verifies THEN verified \cup {c} ELSE verified
         ELSE /\ Becomes(c, [call[c] EXCEPT !.envs[i].known = TRUE, !.answer = result])
              /\ UNCHANGED verified
  BY <1>3 DEF Report, Last
<1>12. /\ result \in AnswerType /\ result.hash = i /\ result.kind \in {"pending", "ok", "failed"}
       /\ result.kind = "ok" => call[c].envs[i].status = "ok"
       /\ result.kind = "failed" => call[c].envs[i].status = "failed"
  BY <1>4, StatusesAre
<1>13. CASE result.kind = "ok"
  <2>1. PICK e : e = [f EXCEPT !.pc = call[c].pc + 1]
    OBVIOUS
  <2>2. /\ e \in CallType /\ e.page = call[c].page /\ e.action = call[c].action /\ e.slot = call[c].slot
        /\ e.waiting = call[c].waiting /\ e.review = call[c].review /\ e.envs = envs
        /\ e.who = call[c].who /\ e.seen = call[c].seen /\ e.pc = call[c].pc + 1 /\ e.answer = None
    <3>1. PICK k : k = call[c].pc + 1
      OBVIOUS
    <3>2. k \in Nat
      BY <1>2, <3>1 DEF CallType
    <3>3. e = [f EXCEPT !.pc = k] /\ f \in CallType
      BY <1>10, <2>1, <3>1
    <3>4. /\ e \in CallType /\ e.page = f.page /\ e.action = f.action /\ e.slot = f.slot
          /\ e.waiting = f.waiting /\ e.review = f.review /\ e.envs = f.envs
          /\ e.who = f.who /\ e.seen = f.seen /\ e.pc = k /\ e.answer = f.answer
      BY <3>2, <3>3 DEF CallType
    <3> QED BY <1>2, <1>10, <3>1, <3>4
  <2>3. GoesOn(call[c], e, n) /\ ~Ends(call[c], e, n)
    BY <1>6, <1>12, <1>13, <2>2, Constants DEF GoesOn, Ends
  <2>4. CallOK(e) /\ Onto(call[c], e) /\ (~call[c].page.keep \/ Through(e)) /\ Settled(e)
    BY <1>2, <1>3, <1>4, <1>6, <1>7, <2>2, <2>3, HeardWith
  <2>5. call' = [call EXCEPT ![c] = e] /\ UNCHANGED <<area, slot, lock, terms, checks>>
    <3>1. e = [Onward(c) EXCEPT !.envs[i].known = TRUE]
      BY <1>2, <1>5, <1>7, <1>9, <2>1 DEF Onward, CallType
    <3>2. Becomes(c, e)
      BY <1>11, <1>13, <3>1
    <3> QED BY <3>2 DEF Becomes
  <2>6. verified' = IF call[c].page.verifies THEN verified \cup {c} ELSE verified
    BY <1>11, <1>13
  <2>7. c \in verified' => ~Moving(e)
    <3>1. c \in verified' => call[c].page.verifies
      BY <1>2, <2>6
    <3>2. call[c].page.verifies => call[c].page.keep
      BY <1>2, StepsType
    <3> QED BY <2>2, <2>4, <3>1, <3>2 DEF Moving, Settled
  <2> QED BY <2>2, <2>4, <2>5, <2>6, <2>7, Become
<1>14. CASE result.kind # "ok"
  <2>1. PICK e : e = [f EXCEPT !.answer = result]
    OBVIOUS
  <2>2. /\ e \in CallType /\ e.page = call[c].page /\ e.action = call[c].action /\ e.slot = call[c].slot
        /\ e.waiting = call[c].waiting /\ e.review = call[c].review /\ e.envs = envs
        /\ e.who = call[c].who /\ e.seen = call[c].seen /\ e.pc = call[c].pc /\ e.answer = result
    BY <1>10, <1>12, <2>1 DEF CallType
  <2>3. Ends(call[c], e, n)
    BY <1>3, <1>6, <1>12, <1>14, <2>2 DEF Ends
  <2>4. CallOK(e) /\ Onto(call[c], e) /\ ~Through(e)
    BY <1>2, <1>3, <1>4, <1>6, <1>7, <2>2, <2>3, HeardWith
  <2>5. call' = [call EXCEPT ![c] = e] /\ UNCHANGED <<area, slot, lock, terms, checks, verified>>
    <3>1. e = [call[c] EXCEPT !.envs[i].known = TRUE, !.answer = result]
      BY <1>5, <1>7, <1>9, <2>1
    <3>2. Becomes(c, e) /\ UNCHANGED verified
      BY <1>11, <1>14, <3>1
    <3> QED BY <3>2 DEF Becomes
  <2> QED BY <1>2, <2>2, <2>4, <2>5, Become
<1> QED BY <1>13, <1>14

-----------------------------------------------------------------------------
(* The tab's steps.                                                        *)

LEMMA ChangeTermsKeeps ==
  ASSUME SubmissionsInv, ChangeTerms
  PROVE  SubmissionsInv'
<1>1. terms' \in 0 .. MaxTerms
  BY Constants DEF SubmissionsInv, ChangeTerms
<1>2. UNCHANGED <<area, slot, lock, call, checks, verified>>
  BY DEF ChangeTerms
<1>3. Contexts' = Contexts
  BY <1>2 DEF Contexts
<1>4. (\A x \in Contexts : LockOK(x)) => \A x \in Contexts' : LockOK(x)'
  BY <1>2, <1>3 DEF LockOK, Answered
<1>5. (\A k \in checks : CheckOK(k)) => \A k \in checks' : CheckOK(k)'
  BY <1>2 DEF CheckOK, Answered
<1>6. VerifiedOK => VerifiedOK'
  BY <1>2 DEF VerifiedOK
<1>7. HooksApart => HooksApart'
  BY <1>2 DEF HooksApart
<1>8. Locked => Locked'
  BY <1>2 DEF Locked, Holds
<1> QED BY <1>1, <1>2, <1>3, <1>4, <1>5, <1>6, <1>7, <1>8 DEF SubmissionsInv

LEMMA NewCall ==
  ASSUME SubmissionsInv, NEW s \in Slots, NEW a \in slot[s].actions, NEW review \in Reviews(slot[s]),
         NEW d, d = [page |-> slot[s], slot |-> s, action |-> a, review |-> review,
                     who |-> None, seen |-> IF review = None THEN 0 ELSE review.terms,
                     pc |-> 0, envs |-> <<>>, answer |-> None, waiting |-> TRUE]
  PROVE  /\ CallOK(d) /\ d.page = slot[s] /\ d.page \in area /\ d.slot = s
         /\ ~Through(d) /\ ~Landed(d)
<1>1. slot[s] \in area /\ slot[s] \in Pages
  BY DEF SubmissionsInv, Pages
<1>2. a \in Actions
  BY <1>1 DEF Actions
<1>3. PageOK(slot[s])
  BY <1>1, CatalogueOK
<1>4. slot[s].reviewed => review \in ReviewType
  <2>1. terms \in Nat
    BY Constants DEF SubmissionsInv
  <2> QED BY <2>1 DEF Reviews, ReviewType
<1>5. ~slot[s].reviewed => review = None
  BY DEF Reviews
<1>6. PICK seen : seen = IF review = None THEN 0 ELSE review.terms
  OBVIOUS
<1>7. /\ review \in ReviewType \cup {None} /\ seen \in Nat
      /\ slot[s].reviewed => seen = review.terms
  BY <1>3, <1>4, <1>5, <1>6, Constants DEF PageOK, ReviewType
<1>8. PICK envs : envs = <<>>
  OBVIOUS
<1>9. envs \in Seq(EnvelopeType) /\ Len(envs) = 0 /\ DOMAIN envs = {}
  BY <1>8
<1>10. d = [page |-> slot[s], slot |-> s, action |-> a, review |-> review, who |-> None, seen |-> seen,
            pc |-> 0, envs |-> envs, answer |-> None, waiting |-> TRUE]
  BY <1>6, <1>8
<1>11. /\ d \in CallType /\ d.page = slot[s] /\ d.slot = s /\ d.action = a /\ d.review = review
       /\ d.seen = seen /\ d.pc = 0 /\ d.envs = envs /\ d.answer = None /\ d.waiting = TRUE
  BY <1>1, <1>2, <1>7, <1>9, <1>10 DEF CallType
<1>12. Last(d) = 0 /\ DOMAIN d.envs = {} /\ ~Landed(d)
  BY <1>9, <1>11 DEF Last, Landed
<1>13. Steps(d) \in Nat /\ Steps(d) >= 1
  BY <1>3, <1>11 DEF PageOK, Steps
<1>14. EnvelopesOK(d) /\ AnswerOK(d)
  BY <1>11, <1>12 DEF EnvelopesOK, AnswerOK, Said
<1>15. d.page.reviewed => ReviewOK(d)
  BY <1>4, <1>7, <1>11, <1>12 DEF ReviewOK
<1>16. KeepOK(d)
  BY <1>11, <1>12 DEF KeepOK, Said
<1> QED BY <1>1, <1>11, <1>12, <1>13, <1>14, <1>15, <1>16 DEF CallOK, Through

LEMMA FreeHook ==
  ASSUME SubmissionsInv, NEW s \in Slots, ~InFlight(s)
  PROVE  /\ \A c \in DOMAIN call : call[c].slot # s
         /\ \A k \in checks : k.slot # s
<1>1. \A k \in checks : k.slot # s
  BY DEF InFlight
<1>2. ASSUME NEW c \in DOMAIN call, call[c].slot = s PROVE FALSE
  <2>1. call[c].waiting
    BY <1>2, CallKnown, Constants DEF CallOK
  <2>2. c \in 1 .. Len(call) /\ Len(call) \in Nat /\ Len(call) <= MaxCalls
    BY DEF SubmissionsInv
  <2>3. c \in Calls /\ IsCall(c)
    BY <2>2, Constants DEF Calls, IsCall
  <2> QED BY <1>2, <2>1, <2>3 DEF InFlight
<1> QED BY <1>1, <1>2

LEMMA ClickKeeps ==
  ASSUME SubmissionsInv, NEW s \in Slots, NEW a \in slot[s].actions, NEW review \in Reviews(slot[s]),
         Click(s, a, review)
  PROVE  SubmissionsInv'
<1>1. PICK d : d = [page |-> slot[s], slot |-> s, action |-> a, review |-> review,
                    who |-> None, seen |-> IF review = None THEN 0 ELSE review.terms,
                    pc |-> 0, envs |-> <<>>, answer |-> None, waiting |-> TRUE]
  OBVIOUS
<1>2. /\ CallOK(d) /\ d.page = slot[s] /\ d.page \in area /\ d.slot = s
      /\ ~Through(d) /\ ~Landed(d)
  BY <1>1, NewCall
<1>3. d \in CallType /\ call \in Seq(CallType) /\ Len(call) <= MaxCalls
  BY <1>2 DEF CallOK, SubmissionsInv
<1>4. /\ call' = Append(call, d) /\ UNCHANGED <<area, slot, terms, checks, verified>>
      /\ Len(call) < MaxCalls /\ ~InFlight(s)
  BY <1>1 DEF Click
<1>5. PICK n : n = Len(call) + 1
  OBVIOUS
<1>6. /\ call' \in Seq(CallType) /\ Len(call') = n /\ DOMAIN call' = DOMAIN call \cup {n}
      /\ n \notin DOMAIN call /\ n \in Nat /\ call'[n] = d
      /\ \A c \in DOMAIN call : call'[c] = call[c]
  BY <1>3, <1>4, <1>5
<1>7. PICK x : x = slot[s].context
  OBVIOUS
<1>8. x \in Contexts /\ DOMAIN lock = Contexts
  BY <1>7 DEF SubmissionsInv, Contexts
<1>9. PICK l : l = [id |-> n, hash |-> 0]
  OBVIOUS
<1>10. lock[x] = None /\ lock' = [lock EXCEPT ![x] = l]
  BY <1>5, <1>7, <1>9 DEF Click, beginSubmission, readSubmissionState
<1>11. l \in [id : Nat, hash : Nat] /\ l.id = n /\ l.hash = 0 /\ l # None
  <2>1. l \in [id : Nat, hash : Nat]
    BY <1>6, <1>9
  <2> QED BY <1>9, <2>1, Constants
<1>12. DOMAIN lock' = Contexts /\ lock'[x] = l /\ \A y \in Contexts : y # x => lock'[y] = lock[y]
  BY <1>8, <1>10
<1>13. Contexts' = Contexts
  BY <1>4 DEF Contexts
<1>14. \A c \in DOMAIN call' : CallOK(call'[c]) /\ call'[c].page \in area'
  BY <1>2, <1>4, <1>6 DEF SubmissionsInv
<1>15. VerifiedOK'
  <2>1. VerifiedOK
    BY DEF SubmissionsInv
  <2>2. n \notin verified
    BY <1>6, <2>1 DEF VerifiedOK
  <2> QED BY <1>2, <1>4, <1>6, <2>1, <2>2 DEF VerifiedOK
<1>16. \A y \in Contexts' : LockOK(y)'
  <2> SUFFICES ASSUME NEW y \in Contexts PROVE LockOK(y)'
    BY <1>13
  <2>1. CASE y = x
    BY <1>2, <1>6, <1>7, <1>11, <1>12, <2>1 DEF LockOK, Answered
  <2>2. CASE y # x
    <3>1. lock'[y] = lock[y] /\ LockOK(y)
      BY <1>12, <2>2 DEF SubmissionsInv
    <3>2. CASE lock[y] = None
      BY <3>1, <3>2 DEF LockOK
    <3>3. CASE lock[y] # None
      <4>1. PICK c \in DOMAIN call : c = lock[y].id
        BY <3>1, <3>3 DEF LockOK
      <4>2. c \in DOMAIN call' /\ call'[c] = call[c]
        BY <1>6
      <4>3. lock[y] \in [id : Nat, hash : Nat] /\ call[c].page.context = y
            /\ (lock[y].hash # 0 => Answered(c, lock[y].hash))
        BY <3>1, <3>3, <4>1 DEF LockOK
      <4> QED BY <3>1, <4>1, <4>2, <4>3 DEF LockOK, Answered
    <3> QED BY <3>2, <3>3
  <2> QED BY <2>1, <2>2
<1>17. \A k \in checks' : CheckOK(k)'
  <2> SUFFICES ASSUME NEW k \in checks PROVE CheckOK(k)'
    BY <1>4
  <2>1. CheckOK(k)
    BY DEF SubmissionsInv
  <2> QED BY <1>6, <2>1 DEF CheckOK, Answered
<1>18. HooksApart'
  <2>1. HooksApart
    BY DEF SubmissionsInv
  <2>2. /\ \A c \in DOMAIN call : call[c].slot # s
        /\ \A k \in checks : k.slot # s
    BY <1>4, FreeHook
  <2> QED BY <1>2, <1>4, <1>6, <2>1, <2>2 DEF HooksApart
<1>19. Locked'
  <2> SUFFICES ASSUME NEW c \in DOMAIN call',
                      Moving(call'[c]) \/ (call'[c].page.keep /\ c \notin verified' /\ Landed(call'[c]))
               PROVE  Holds(c)'
    BY DEF Locked
  <2>1. CASE c = n
    BY <1>2, <1>6, <1>7, <1>11, <1>12, <2>1 DEF Holds
  <2>2. CASE c \in DOMAIN call
    <3>1. Holds(c)
      BY <1>4, <1>6, <2>2 DEF SubmissionsInv, Locked
    <3>2. call[c].page.context \in Contexts
      BY <2>2 DEF SubmissionsInv, Contexts
    <3>3. call[c].page.context # x
      BY <1>10, <3>1 DEF Holds
    <3> QED BY <1>6, <1>12, <2>2, <3>1, <3>2, <3>3 DEF Holds
  <2> QED BY <1>6, <2>1, <2>2
<1> QED BY <1>3, <1>4, <1>6, <1>5, <1>12, <1>13, <1>14, <1>15, <1>16, <1>17, <1>18, <1>19,
           Constants DEF SubmissionsInv

\* The answer, or what a check found, for call c reaches the lock.
LEMMA ResolveKeeps ==
  ASSUME SubmissionsInv, Course, NEW c \in DOMAIN call, UNCHANGED <<area, verified>>,
         NEW keep \in BOOLEAN, NEW result \in AnswerType,
         resolveSubmission(call[c].page.context, c, keep, result),
         Kept(keep, result).kind = "pending" /\ result.hash # 0 => Answered(c, result.hash)',
         Kept(keep, result).kind # "pending" =>
           ~Moving(call'[c]) /\ ~(call'[c].page.keep /\ c \notin verified /\ Landed(call'[c]))
  PROVE  /\ DOMAIN lock' = Contexts' /\ \A y \in Contexts' : LockOK(y)'
         /\ Locked'
<1>1. PICK x : x = call[c].page.context
  OBVIOUS
<1>2. x \in Contexts /\ DOMAIN lock = Contexts /\ Contexts' = Contexts
  BY <1>1 DEF SubmissionsInv, Contexts
<1>3. PICK v : v = Resolved(lock[x], c, Kept(keep, result))
  OBVIOUS
<1>4. lock' = [lock EXCEPT ![x] = v]
  BY <1>1, <1>3 DEF resolveSubmission
<1>5. DOMAIN lock' = Contexts /\ lock'[x] = v /\ \A y \in Contexts : y # x => lock'[y] = lock[y]
  BY <1>2, <1>4
<1>6. LockOK(x)
  BY <1>2 DEF SubmissionsInv
<1>7. c \in DOMAIN call' /\ call'[c].page = call[c].page
  BY DEF Course, Onto
<1>8. Kept(keep, result).hash = result.hash /\ result.hash \in Nat
  BY DEF Kept, AnswerType
<1>9. CASE lock[x] = None \/ lock[x].id # c
  <2>1. v = lock[x]
    BY <1>3, <1>9 DEF Resolved
  <2>2. \A y \in Contexts : lock'[y] = lock[y]
    BY <1>5, <2>1
  <2>3. \A y \in Contexts : LockOK(y)'
    BY <2>2, LocksGoOn
  <2> QED BY <1>2, <1>5, <2>2, <2>3, LockedStays
<1>10. CASE lock[x] # None /\ lock[x].id = c
  <2>1. lock[x] \in [id : Nat, hash : Nat] /\ (lock[x].hash # 0 => Answered(c, lock[x].hash))
    BY <1>6, <1>10 DEF LockOK
  <2>2. LockOK(x)' /\ (v # None => v.id = c)
    <3>1. CASE Kept(keep, result).kind = "pending"
      <4>1. PICK h \in Nat : v = [lock[x] EXCEPT !.hash = h] /\ (h = lock[x].hash \/ (h = result.hash /\ h # 0))
        <5>1. PICK h : h = IF Kept(keep, result).hash = 0 THEN lock[x].hash ELSE Kept(keep, result).hash
          OBVIOUS
        <5>2. v = [lock[x] EXCEPT !.hash = h]
          BY <1>3, <1>10, <3>1, <5>1 DEF Resolved
        <5>3. lock[x].hash \in Nat
          BY <2>1
        <5> QED BY <1>8, <5>1, <5>2, <5>3
      <4>2. v \in [id : Nat, hash : Nat] /\ v.id = c /\ v.hash = h
        BY <1>10, <2>1, <4>1
      <4>3. h # 0 => Answered(c, h)'
        <5>1. CASE h = lock[x].hash
          BY <2>1, <5>1, AnsweredGoesOn
        <5>2. CASE h = result.hash
          BY <3>1, <5>2
        <5> QED BY <4>1, <5>1, <5>2
      <4>4. lock'[x] = v
        BY <1>5
      <4> QED BY <1>1, <1>7, <4>2, <4>3, <4>4 DEF LockOK, Answered
    <3>2. CASE Kept(keep, result).kind # "pending"
      <4>1. v = None
        BY <1>3, <1>10, <3>2 DEF Resolved
      <4> QED BY <1>5, <4>1 DEF LockOK
    <3> QED BY <3>1, <3>2
  <2>3. \A y \in Contexts : LockOK(y)'
    <3> SUFFICES ASSUME NEW y \in Contexts, y # x PROVE LockOK(y)'
      BY <2>2
    <3> QED BY <1>5, LocksGoOn
  <2>4. Locked'
    <3> SUFFICES ASSUME NEW b \in DOMAIN call',
                        Moving(call'[b]) \/ (call'[b].page.keep /\ b \notin verified' /\ Landed(call'[b]))
                 PROVE  Holds(b)'
      BY DEF Locked
    <3>1. b \in DOMAIN call /\ call'[b].page = call[b].page /\ call[b].page.context \in Contexts
      BY DEF Course, Onto, SubmissionsInv, Contexts
    <3>2. Holds(b)
      BY <3>1, LockedGoesOn
    <3>3. CASE call[b].page.context # x
      BY <1>5, <3>1, <3>2, <3>3 DEF Holds
    <3>4. CASE call[b].page.context = x
      <4>1. b = c
        BY <1>10, <3>2, <3>4 DEF Holds
      <4>2. Kept(keep, result).kind = "pending"
        BY <4>1
      <4>3. v # None /\ v.id = c
        <5>1. v = [lock[x] EXCEPT !.hash = IF Kept(keep, result).hash = 0 THEN lock[x].hash
                                                                          ELSE Kept(keep, result).hash]
          BY <1>3, <1>10, <4>2 DEF Resolved
        <5>2. v \in [id : Nat, hash : Nat]
          BY <1>8, <2>1, <5>1
        <5>3. v # None
          BY <5>2, Constants
        <5> QED BY <2>2, <5>3
      <4> QED BY <1>5, <3>1, <3>4, <4>1, <4>3 DEF Holds
    <3> QED BY <3>3, <3>4
  <2> QED BY <1>2, <1>5, <2>3, <2>4
<1> QED BY <1>9, <1>10

\* Only what the tab remembers of a call changes.
Detached(d, e) ==
  /\ e \in CallType /\ e.page = d.page /\ e.action = d.action /\ e.review = d.review /\ e.who = d.who
  /\ e.seen = d.seen /\ e.pc = d.pc /\ e.envs = d.envs /\ e.answer = d.answer
  /\ e.slot # None => e.waiting

LEMMA DetachedOK ==
  ASSUME NEW d, CallOK(d), NEW e, Detached(d, e)
  PROVE  /\ CallOK(e) /\ Onto(d, e) /\ (Through(e) <=> Through(d))
         /\ (Moving(e) <=> Moving(d)) /\ (Landed(e) <=> Landed(d))
<1>1. Steps(e) = Steps(d) /\ Last(e) = Last(d) /\ (Through(e) <=> Through(d)) /\ At(e) = At(d)
      /\ (\A kinds : Said(e, kinds) <=> Said(d, kinds))
  BY DEF Detached, Steps, Last, Through, At, Said
<1>2. (Moving(e) <=> Moving(d)) /\ (Landed(e) <=> Landed(d))
  BY <1>1 DEF Detached, Moving, Landed
<1>3. Onto(d, e)
  BY <1>1, <1>2 DEF Detached, Onto
<1>4. EnvelopesOK(e) /\ AnswerOK(e)
  BY <1>1 DEF CallOK, Detached, EnvelopesOK, AnswerOK
<1>5. d.page.reviewed => ReviewOK(e)
  BY DEF CallOK, Detached, ReviewOK
<1>6. d.page.keep => KeepOK(e)
  BY <1>1, <1>2 DEF CallOK, Detached, KeepOK
<1>7. e.pc <= Steps(e) + 1 /\ (e.pc # 0 => e.who # None) /\ e.action \in e.page.actions
       /\ (e.slot # None => e.waiting) /\ e \in CallType
  BY <1>1 DEF CallOK, Detached
<1> QED BY <1>1, <1>2, <1>3, <1>4, <1>5, <1>6, <1>7 DEF CallOK, Detached

LEMMA LetGo ==
  ASSUME NEW d \in CallType, NEW e, e = [d EXCEPT !.waiting = FALSE, !.slot = None]
  PROVE  Detached(d, e) /\ e.slot = None
<1>1. PICK f : f = [d EXCEPT !.waiting = FALSE]
  OBVIOUS
<1>2. /\ f \in CallType /\ f.page = d.page /\ f.action = d.action /\ f.review = d.review /\ f.who = d.who
      /\ f.seen = d.seen /\ f.pc = d.pc /\ f.envs = d.envs /\ f.answer = d.answer
  BY <1>1 DEF CallType
<1>3. e = [f EXCEPT !.slot = None]
  BY <1>1
<1> QED BY <1>2, <1>3 DEF CallType, Detached

\* The calls are those they were, for all but the tab.
LEMMA DetachedKeeps ==
  ASSUME SubmissionsInv, UNCHANGED verified, DOMAIN call' = DOMAIN call,
         \A c \in DOMAIN call : call'[c] = call[c] \/ Detached(call[c], call'[c])
  PROVE  /\ Course /\ VerifiedOK'
         /\ \A c \in DOMAIN call' : CallOK(call'[c]) /\ call'[c].page \in area
<1>1. \A c \in DOMAIN call : CallOK(call[c]) /\ call[c] \in CallType /\ call[c].page \in area
  BY DEF SubmissionsInv, CallOK
<1>2. \A c \in DOMAIN call :
        /\ CallOK(call'[c]) /\ Onto(call[c], call'[c]) /\ (Through(call'[c]) <=> Through(call[c]))
        /\ (Moving(call'[c]) <=> Moving(call[c]))
  <2> SUFFICES ASSUME NEW c \in DOMAIN call
               PROVE  /\ CallOK(call'[c]) /\ Onto(call[c], call'[c])
                      /\ (Through(call'[c]) <=> Through(call[c])) /\ (Moving(call'[c]) <=> Moving(call[c]))
    OBVIOUS
  <2>1. CASE call'[c] = call[c]
    BY <1>1, <2>1 DEF Onto
  <2>2. CASE Detached(call[c], call'[c])
    BY <1>1, <2>2, DetachedOK
  <2> QED BY <2>1, <2>2
<1>3. Course
  BY <1>2 DEF Course
<1>4. VerifiedOK'
  BY <1>2 DEF SubmissionsInv, VerifiedOK, Onto
<1> QED BY <1>1, <1>2, <1>3, <1>4 DEF Onto

LEMMA ChecksStay ==
  ASSUME SubmissionsInv, Course, checks' \subseteq checks
  PROVE  \A k \in checks' : CheckOK(k)'
<1> SUFFICES ASSUME NEW k \in checks' PROVE CheckOK(k)'
  OBVIOUS
<1>1. CheckOK(k)
  BY DEF SubmissionsInv
<1> QED BY <1>1, ChecksGoOn DEF CheckOK

LEMMA LetGoKeeps ==
  ASSUME SubmissionsInv, NEW c \in DOMAIN call, UNCHANGED <<checks, verified>>,
         call' = [call EXCEPT ![c] = [call[c] EXCEPT !.waiting = FALSE, !.slot = None]]
  PROVE  /\ call' \in Seq(CallType) /\ Len(call') = Len(call) /\ Course /\ VerifiedOK'
         /\ \A d \in DOMAIN call' : CallOK(call'[d]) /\ call'[d].page \in area
         /\ \A k \in checks' : CheckOK(k)'
         /\ HooksApart' /\ Detached(call[c], call'[c])
<1>1. PICK e : e = [call[c] EXCEPT !.waiting = FALSE, !.slot = None]
  OBVIOUS
<1>2. Detached(call[c], e) /\ e.slot = None
  BY <1>1, CallKnown, LetGo
<1>3. call \in Seq(CallType) /\ e \in CallType /\ call' = [call EXCEPT ![c] = e]
  BY <1>1, <1>2 DEF SubmissionsInv, Detached
<1>4. /\ call' \in Seq(CallType) /\ DOMAIN call' = DOMAIN call /\ Len(call') = Len(call)
      /\ call'[c] = e /\ \A d \in DOMAIN call : d # c => call'[d] = call[d]
  BY <1>3
<1>5. \A d \in DOMAIN call : call'[d] = call[d] \/ Detached(call[d], call'[d])
  BY <1>2, <1>4
<1>6. /\ Course /\ VerifiedOK'
      /\ \A d \in DOMAIN call' : CallOK(call'[d]) /\ call'[d].page \in area
  BY <1>4, <1>5, DetachedKeeps
<1>7. \A k \in checks' : CheckOK(k)'
  BY <1>6, ChecksStay
<1>8. HooksApart'
  BY <1>2, <1>4 DEF SubmissionsInv, HooksApart
<1> QED BY <1>2, <1>4, <1>6, <1>7, <1>8

LEMMA LocksStay ==
  ASSUME SubmissionsInv, Course, UNCHANGED <<area, lock>>, verified \subseteq verified'
  PROVE  DOMAIN lock' = Contexts' /\ (\A y \in Contexts' : LockOK(y)') /\ Locked'
<1>1. Contexts' = Contexts /\ DOMAIN lock = Contexts
  BY DEF Contexts, SubmissionsInv
<1>2. \A y \in Contexts : LockOK(y)'
  BY LocksGoOn
<1>3. Locked'
  BY LockedStays
<1> QED BY <1>1, <1>2, <1>3

LEMMA LostKeeps ==
  ASSUME SubmissionsInv, NEW c \in DOMAIN call, Lost(c)
  PROVE  SubmissionsInv'
<1>1. /\ call' = [call EXCEPT ![c] = [call[c] EXCEPT !.waiting = FALSE, !.slot = None]]
      /\ UNCHANGED <<area, slot, lock, terms, checks, verified>>
  BY DEF Lost
<1>2. /\ call' \in Seq(CallType) /\ Len(call') = Len(call) /\ Course /\ VerifiedOK'
      /\ \A d \in DOMAIN call' : CallOK(call'[d]) /\ call'[d].page \in area
      /\ \A k \in checks' : CheckOK(k)'
      /\ HooksApart'
  BY <1>1, LetGoKeeps
<1>3. DOMAIN lock' = Contexts' /\ (\A y \in Contexts' : LockOK(y)') /\ Locked'
  BY <1>1, <1>2, LocksStay
<1> QED BY <1>1, <1>2, <1>3 DEF SubmissionsInv

LEMMA DeliverKeeps ==
  ASSUME SubmissionsInv, NEW c \in DOMAIN call, Deliver(c)
  PROVE  SubmissionsInv'
<1>1. PICK d : d = call[c]
  OBVIOUS
<1>2. CallOK(d) /\ d \in CallType
  BY <1>1, CallKnown
<1>3. PICK keep : keep = (d.page.keep /\ ~(d.page.verifies /\ d.slot # None /\ d.answer.kind = "ok"))
  OBVIOUS
<1>4. /\ d.answer # None /\ d.answer.kind # "thrown"
      /\ call' = [call EXCEPT ![c] = [call[c] EXCEPT !.waiting = FALSE, !.slot = None]]
      /\ resolveSubmission(call[c].page.context, c, keep, d.answer)
      /\ UNCHANGED <<area, slot, terms, checks, verified>>
  BY <1>1, <1>3 DEF Deliver
<1>5. /\ call' \in Seq(CallType) /\ Len(call') = Len(call) /\ Course /\ VerifiedOK'
      /\ \A b \in DOMAIN call' : CallOK(call'[b]) /\ call'[b].page \in area
      /\ \A k \in checks' : CheckOK(k)'
      /\ HooksApart' /\ Detached(call[c], call'[c])
  BY <1>4, LetGoKeeps
<1>6. /\ (Moving(call'[c]) <=> Moving(d)) /\ (Landed(call'[c]) <=> Landed(d))
      /\ call'[c].page = d.page
  BY <1>1, <1>2, <1>5, DetachedOK DEF Detached
<1>7. d.answer \in AnswerType /\ d.answer.kind \in {"pending", "failed", "ok"}
  BY <1>2, <1>4, CallFields DEF AnswerType, Kinds
<1>8. d.page.keep \in BOOLEAN /\ keep \in BOOLEAN /\ (d.page.verifies => d.page.keep)
  BY <1>2, <1>3, StepsType
<1>9. PICK result : result = Kept(keep, d.answer)
  OBVIOUS
<1>10. result.kind = IF keep /\ d.answer.kind = "ok" THEN "pending" ELSE d.answer.kind
  BY <1>7, <1>9 DEF Kept, AnswerType
<1>11. result.kind = "pending" => Answered(c, d.answer.hash)'
  <2> SUFFICES ASSUME result.kind = "pending" PROVE Answered(c, d.answer.hash)'
    OBVIOUS
  <2>1. d.answer.kind \in {"pending", "ok"}
    BY <1>7, <1>10
  <2>2. d.answer.hash = Last(d)
    BY <1>2, <1>4, <2>1 DEF CallOK, AnswerOK, Said
  <2>3. Answered(c, d.answer.hash)
    BY <1>1, <1>4, <2>2 DEF Answered
  <2> QED BY <1>5, <2>3, AnsweredGoesOn
<1>12. result.kind # "pending" =>
         ~Moving(call'[c]) /\ ~(call'[c].page.keep /\ c \notin verified /\ Landed(call'[c]))
  <2> SUFFICES ASSUME result.kind # "pending"
               PROVE  ~Moving(d) /\ ~(d.page.keep /\ c \notin verified /\ Landed(d))
    BY <1>6
  <2>1. d.answer.kind \in {"failed", "ok"} /\ ~(keep /\ d.answer.kind = "ok")
    BY <1>7, <1>10
  <2>2. ~Moving(d)
    BY <1>2, <1>4, <2>1, Definitive DEF Said
  <2>3. CASE d.answer.kind = "failed"
    BY <1>2, <1>4, <2>2, <2>3 DEF CallOK, KeepOK, Said
  <2>4. CASE d.answer.kind = "ok" /\ d.page.keep
    <3>1. d.page.verifies
      BY <1>3, <1>8, <2>1, <2>4
    <3>2. Through(d)
      BY <1>2, <1>4, <2>4 DEF CallOK, AnswerOK, Said
    <3>3. c \in verified
      BY <1>1, <3>1, <3>2 DEF SubmissionsInv, VerifiedOK
    <3> QED BY <2>2, <3>3
  <2> QED BY <2>1, <2>2, <2>3, <2>4
<1>13. DOMAIN lock' = Contexts' /\ (\A y \in Contexts' : LockOK(y)') /\ Locked'
  BY <1>4, <1>5, <1>7, <1>8, <1>9, <1>11, <1>12, ResolveKeeps
<1> QED BY <1>4, <1>5, <1>13 DEF SubmissionsInv

\* The ledger's word on the last envelope of a call that has answered.
LEMMA Reported ==
  ASSUME SubmissionsInv, NEW c \in DOMAIN call, NEW hash, hash # 0, Answered(c, hash),
         NEW result \in Statuses(c, hash), result.kind # "pending"
  PROVE  /\ ~Moving(call[c])
         /\ call[c].page.keep /\ result.kind = "failed" => ~Landed(call[c])
<1>1. CallOK(call[c]) /\ call[c] \in CallType
  BY CallKnown
<1>2. call[c].answer # None /\ hash = Last(call[c]) /\ hash \in Nat
      /\ DOMAIN call[c].envs = 1 .. Last(call[c])
  BY <1>1, LastType DEF Answered
<1>3. /\ result.kind = "ok" => call[c].envs[hash].status = "ok"
      /\ result.kind = "failed" => call[c].envs[hash].status = "failed"
      /\ result.kind \in {"ok", "failed"}
  BY <1>2, StatusesAre
<1>4. ~Moving(call[c])
  BY <1>1, <1>2, <1>3, OnlyLastOpen
<1>5. call[c].page.keep /\ result.kind = "failed" => ~Landed(call[c])
  <2> SUFFICES ASSUME call[c].page.keep, result.kind = "failed" PROVE ~Landed(call[c])
    OBVIOUS
  <2>1. Last(call[c]) <= 1
    BY <1>1 DEF CallOK, KeepOK
  <2>2. \A i \in DOMAIN call[c].envs : i = hash
    BY <1>2, <2>1
  <2> QED BY <1>3, <2>2 DEF Landed
<1> QED BY <1>4, <1>5

LEMMA EndCheckKeeps ==
  ASSUME SubmissionsInv, NEW k \in checks, EndCheck(k)
  PROVE  SubmissionsInv'
<1>1. CheckOK(k)
  BY DEF SubmissionsInv
<1>2. PICK c \in DOMAIN call : c = k.id
  BY <1>1 DEF CheckOK
<1>3. /\ k.hash # 0 /\ k.hash \in Nat /\ Answered(c, k.hash) /\ k.keep = call[c].page.keep
      /\ k.keep \in BOOLEAN
  BY <1>1, <1>2 DEF CheckOK
<1>4. PICK result \in Statuses(c, k.hash) :
        resolveSubmission(call[c].page.context, c, k.keep, result)
  BY <1>2 DEF EndCheck
<1>5. UNCHANGED <<area, slot, terms, call, verified>> /\ checks' \subseteq checks
  BY DEF EndCheck
<1>6. Course
  BY <1>5 DEF Course, Onto
<1>7. result \in AnswerType /\ result.hash = k.hash /\ result.kind \in {"pending", "ok", "failed"}
  BY <1>3, StatusesAre
<1>8. PICK kept : kept = Kept(k.keep, result)
  OBVIOUS
<1>9. kept.kind = IF k.keep /\ result.kind = "ok" THEN "pending" ELSE result.kind
  BY <1>7, <1>8 DEF Kept, AnswerType
<1>10. kept.kind = "pending" => Answered(c, result.hash)'
  BY <1>3, <1>5, <1>7 DEF Answered
<1>11. kept.kind # "pending" =>
         ~Moving(call'[c]) /\ ~(call'[c].page.keep /\ c \notin verified /\ Landed(call'[c]))
  <2> SUFFICES ASSUME kept.kind # "pending"
               PROVE  ~Moving(call[c]) /\ ~(call[c].page.keep /\ c \notin verified /\ Landed(call[c]))
    BY <1>5
  <2>1. result.kind # "pending" /\ (result.kind = "failed" \/ ~call[c].page.keep)
    BY <1>3, <1>7, <1>9
  <2> QED BY <1>3, <2>1, Reported
<1>12. DOMAIN lock' = Contexts' /\ (\A y \in Contexts' : LockOK(y)') /\ Locked'
  BY <1>3, <1>4, <1>5, <1>6, <1>7, <1>8, <1>10, <1>11, ResolveKeeps
<1>13. \A l \in checks' : CheckOK(l)'
  BY <1>5, <1>6, ChecksStay
<1>14. HooksApart'
  BY <1>5 DEF SubmissionsInv, HooksApart
<1>15. VerifiedOK'
  BY <1>5 DEF SubmissionsInv, VerifiedOK
<1> QED BY <1>5, <1>12, <1>13, <1>14, <1>15 DEF SubmissionsInv

LEMMA ClearVerifiedKeeps ==
  ASSUME SubmissionsInv, NEW c \in DOMAIN call, NEW i \in DOMAIN call[c].envs, clearVerified(c, i)
  PROVE  SubmissionsInv'
<1>1. PICK result : result = [kind |-> "ok", hash |-> i]
  OBVIOUS
<1>2. /\ c \in verified /\ resolveSubmission(call[c].page.context, c, FALSE, result)
      /\ UNCHANGED <<area, slot, terms, call, checks, verified>>
  BY <1>1 DEF clearVerified
<1>3. i \in Nat
  BY CallKnown, LastType
<1>4. result \in AnswerType /\ Kept(FALSE, result).kind = "ok"
  BY <1>1, <1>3 DEF AnswerType, Kinds, Kept
<1>5. Course
  BY <1>2 DEF Course, Onto
<1>6. ~Moving(call'[c])
  BY <1>2 DEF SubmissionsInv, VerifiedOK
<1>7. DOMAIN lock' = Contexts' /\ (\A y \in Contexts' : LockOK(y)') /\ Locked'
  BY <1>2, <1>4, <1>5, <1>6, ResolveKeeps
<1>8. \A k \in checks' : CheckOK(k)'
  BY <1>2, <1>5, ChecksStay
<1>9. HooksApart'
  BY <1>2 DEF SubmissionsInv, HooksApart
<1>10. VerifiedOK'
  BY <1>2 DEF SubmissionsInv, VerifiedOK
<1> QED BY <1>2, <1>7, <1>8, <1>9, <1>10 DEF SubmissionsInv

\* A record that is verified is of an envelope that landed.
LEMMA RecoverKeeps ==
  ASSUME SubmissionsInv, NEW s \in Slots, NEW page, Recover(s, page), LockedEnvelope(s).status = "ok"
  PROVE  SubmissionsInv'
<1>1. PICK x : x = slot[s].context
  OBVIOUS
<1>2. x \in Contexts /\ LockOK(x)
  BY <1>1 DEF SubmissionsInv, Contexts
<1>3. /\ lock[x] # None /\ lock[x].hash # 0 /\ verified' = verified \cup {lock[x].id}
      /\ UNCHANGED <<area, slot, lock, terms, call, checks>>
  BY <1>1 DEF Recover, readSubmissionState
<1>4. PICK c \in DOMAIN call : c = lock[x].id
  BY <1>2, <1>3 DEF LockOK
<1>5. call[c].answer # None /\ lock[x].hash = Last(call[c])
  BY <1>2, <1>3, <1>4 DEF LockOK, Answered
<1>6. call[c].envs[Last(call[c])].status = "ok"
  BY <1>1, <1>4, <1>5 DEF LockedEnvelope, readSubmissionState
<1>7. ~Moving(call[c])
  BY <1>5, <1>6, CallKnown, OnlyLastOpen
<1>8. VerifiedOK'
  BY <1>3, <1>4, <1>7 DEF SubmissionsInv, VerifiedOK
<1>9. Course /\ verified \subseteq verified'
  BY <1>3 DEF Course, Onto
<1>10. DOMAIN lock' = Contexts' /\ (\A y \in Contexts' : LockOK(y)') /\ Locked'
  BY <1>3, <1>9, LocksStay
<1>11. \A k \in checks' : CheckOK(k)'
  BY <1>3, <1>9, ChecksStay
<1>12. HooksApart'
  BY <1>3 DEF SubmissionsInv, HooksApart
<1> QED BY <1>3, <1>8, <1>10, <1>11, <1>12 DEF SubmissionsInv

LEMMA StartCheckKeeps ==
  ASSUME SubmissionsInv, NEW s \in Slots, StartCheck(s)
  PROVE  SubmissionsInv'
<1>1. PICK x : x = slot[s].context
  OBVIOUS
<1>2. x \in Contexts /\ LockOK(x) /\ slot[s] \in area /\ slot[s] \in Pages
  BY <1>1 DEF SubmissionsInv, Contexts, Pages
<1>3. PICK n : n = [slot |-> s, id |-> lock[x].id, hash |-> lock[x].hash, keep |-> slot[s].keep]
  OBVIOUS
<1>4. /\ lock[x] # None /\ lock[x].hash # 0 /\ ~InFlight(s) /\ checks' = checks \cup {n}
      /\ UNCHANGED <<area, slot, lock, terms, call, verified>>
  BY <1>1, <1>3 DEF StartCheck, readSubmissionState
<1>5. /\ lock[x].id \in DOMAIN call /\ lock[x].id \in Nat /\ lock[x].hash \in Nat
      /\ Answered(lock[x].id, lock[x].hash) /\ call[lock[x].id].page.context = x
  BY <1>2, <1>4 DEF LockOK
<1>6. slot[s].keep \in BOOLEAN /\ slot[s].keep = call[lock[x].id].page.keep
  <2>1. call[lock[x].id].page \in Pages
    BY <1>5, CallKnown, CallFields
  <2> QED BY <1>1, <1>2, <1>5, <2>1, ContextsAgree, CatalogueOK DEF PageOK
<1>7. /\ n \in [slot : Slots \cup {None}, id : Nat, hash : Nat, keep : BOOLEAN]
      /\ n.slot = s /\ n.id = lock[x].id /\ n.hash = lock[x].hash /\ n.keep = slot[s].keep
  BY <1>3, <1>5, <1>6
<1>8. CheckOK(n)
  BY <1>4, <1>5, <1>6, <1>7 DEF CheckOK
<1>9. \A k \in checks' : CheckOK(k)'
  BY <1>4, <1>8 DEF SubmissionsInv, CheckOK, Answered
<1>10. HooksApart'
  <2>1. /\ \A c \in DOMAIN call : call[c].slot # s
        /\ \A k \in checks : k.slot # s
    BY <1>4, FreeHook
  <2> QED BY <1>4, <1>7, <2>1 DEF SubmissionsInv, HooksApart
<1>11. Course
  BY <1>4 DEF Course, Onto
<1>12. DOMAIN lock' = Contexts' /\ (\A y \in Contexts' : LockOK(y)') /\ Locked'
  BY <1>4, <1>11, LocksStay
<1>13. VerifiedOK'
  BY <1>4 DEF SubmissionsInv, VerifiedOK
<1> QED BY <1>4, <1>9, <1>10, <1>12, <1>13 DEF SubmissionsInv

LEMMA RemountKeeps ==
  ASSUME SubmissionsInv, NEW s \in Slots, NEW p \in area, Remount(s, p)
  PROVE  SubmissionsInv'
<1>1. /\ slot' = [slot EXCEPT ![s] = p]
      /\ call' = [c \in DOMAIN call |-> IF call[c].slot = s THEN [call[c] EXCEPT !.slot = None] ELSE call[c]]
      /\ checks' = {IF k.slot = s THEN [k EXCEPT !.slot = None] ELSE k : k \in checks}
      /\ UNCHANGED <<area, lock, terms, verified>>
  BY DEF Remount
<1>2. call \in Seq(CallType) /\ Len(call) \in Nat /\ DOMAIN call = 1 .. Len(call)
  BY DEF SubmissionsInv
<1>3. DOMAIN call' = DOMAIN call
  BY <1>1
<1>4. \A c \in DOMAIN call :
        /\ call[c].slot = s => Detached(call[c], call'[c]) /\ call'[c].slot = None
        /\ call[c].slot # s => call'[c] = call[c]
        /\ call'[c] \in CallType
  <2> SUFFICES ASSUME NEW c \in DOMAIN call
               PROVE  /\ call[c].slot = s => Detached(call[c], call'[c]) /\ call'[c].slot = None
                      /\ call[c].slot # s => call'[c] = call[c]
                      /\ call'[c] \in CallType
    OBVIOUS
  <2>1. call[c] \in CallType
    BY CallKnown
  <2>2. CASE call[c].slot = s
    <3>1. PICK e : e = [call[c] EXCEPT !.slot = None]
      OBVIOUS
    <3>2. call'[c] = e
      BY <1>1, <2>2, <3>1
    <3>3. /\ e \in CallType /\ e.page = call[c].page /\ e.action = call[c].action /\ e.review = call[c].review
          /\ e.who = call[c].who /\ e.seen = call[c].seen /\ e.pc = call[c].pc /\ e.envs = call[c].envs
          /\ e.answer = call[c].answer /\ e.slot = None
      BY <2>1, <3>1 DEF CallType
    <3> QED BY <2>2, <3>2, <3>3 DEF Detached
  <2>3. CASE call[c].slot # s
    BY <1>1, <2>1, <2>3
  <2> QED BY <2>2, <2>3
<1>5. call' \in Seq(CallType) /\ Len(call') = Len(call)
  <2>1. call' \in [1 .. Len(call) -> CallType]
    <3>1. call' = [c \in DOMAIN call |-> call'[c]]
      BY <1>1
    <3> QED BY <1>2, <1>4, <3>1
  <2> QED BY <1>2, <2>1
<1>6. /\ Course /\ VerifiedOK'
      /\ \A c \in DOMAIN call' : CallOK(call'[c]) /\ call'[c].page \in area
  BY <1>1, <1>3, <1>4, DetachedKeeps
<1>7. DOMAIN lock' = Contexts' /\ (\A y \in Contexts' : LockOK(y)') /\ Locked'
  BY <1>1, <1>6, LocksStay
<1>8. \A k \in checks' : \E l \in checks :
        /\ CheckOK(l) /\ k \in [slot : Slots \cup {None}, id : Nat, hash : Nat, keep : BOOLEAN]
        /\ k.id = l.id /\ k.hash = l.hash /\ k.keep = l.keep
        /\ (k = l /\ l.slot # s) \/ (k.slot = None)
  <2> SUFFICES ASSUME NEW l \in checks, NEW k, k = IF l.slot = s THEN [l EXCEPT !.slot = None] ELSE l
               PROVE  /\ CheckOK(l) /\ k \in [slot : Slots \cup {None}, id : Nat, hash : Nat, keep : BOOLEAN]
                      /\ k.id = l.id /\ k.hash = l.hash /\ k.keep = l.keep
                      /\ (k = l /\ l.slot # s) \/ (k.slot = None)
    BY <1>1
  <2>1. CheckOK(l)
    BY DEF SubmissionsInv
  <2> QED BY <2>1 DEF CheckOK
<1>9. \A k \in checks' : CheckOK(k)'
  BY <1>6, <1>8, ChecksGoOn
<1>10. HooksApart'
  <2>1. HooksApart
    BY DEF SubmissionsInv
  <2>2. \A c \in DOMAIN call : call'[c].slot = call[c].slot \/ call'[c].slot = None
    BY <1>4
  <2>3. \A k \in checks' : k.slot # None => k \in checks
    BY <1>8
  <2> QED BY <1>3, <2>1, <2>2, <2>3 DEF HooksApart
<1>11. slot' \in [Slots -> area]
  BY <1>1 DEF SubmissionsInv
<1> QED BY <1>1, <1>2, <1>5, <1>6, <1>7, <1>9, <1>10, <1>11 DEF SubmissionsInv

-----------------------------------------------------------------------------
(* Every reachable state.                                                  *)

LEMMA SubmissionsInit == Init => SubmissionsInv
<1> SUFFICES ASSUME Init PROVE SubmissionsInv
  OBVIOUS
<1>1. area \in Areas /\ slot \in [Slots -> area] /\ terms = 0 /\ checks = {} /\ verified = {}
  BY DEF Init
<1>2. call \in Seq(CallType) /\ Len(call) = 0 /\ DOMAIN call = {}
  BY DEF Init
<1>3. DOMAIN lock = Contexts /\ \A x \in Contexts : lock[x] = None
  BY DEF Init
<1>4. (\A x \in Contexts : LockOK(x)) /\ VerifiedOK /\ HooksApart /\ Locked
  BY <1>1, <1>2, <1>3 DEF LockOK, VerifiedOK, HooksApart, Locked
<1> QED BY <1>1, <1>2, <1>3, <1>4, Constants DEF SubmissionsInv

LEMMA SubmissionsStep == SubmissionsInv /\ [Next]_vars => SubmissionsInv'
<1> SUFFICES ASSUME SubmissionsInv, [Next]_vars PROVE SubmissionsInv'
  OBVIOUS
<1>1. CASE TabStep
  <2>1. CASE \E s \in Slots : \E a \in slot[s].actions, r \in Reviews(slot[s]) : Click(s, a, r)
    BY <2>1, ClickKeeps
  <2>2. CASE \E s \in Slots, p \in area : Remount(s, p)
    BY <2>2, RemountKeeps
  <2>3. CASE \E s \in Slots : StartCheck(s)
    BY <2>3, StartCheckKeeps
  <2>4. CASE \E s \in Slots : refreshSubmission(s)
    BY <2>4, RecoverKeeps DEF refreshSubmission, recordCampaignDonor, verifyCampaignDonationReceipt
  <2>5. CASE \E s \in Slots : recoverCreatedRoom(s)
    BY <2>5, RecoverKeeps DEF recoverCreatedRoom, fundingRecoverCreate, verifyArisanFundingCreateReceipt
  <2>6. CASE \E k \in checks : EndCheck(k)
    BY <2>6, EndCheckKeeps
  <2>7. CASE \E c \in DOMAIN call : Deliver(c)
    BY <2>7, DeliverKeeps
  <2>8. CASE \E c \in DOMAIN call : Lost(c)
    BY <2>8, LostKeeps
  <2>9. CASE \E c \in DOMAIN call : \E i \in DOMAIN call[c].envs : clearVerified(c, i)
    BY <2>9, ClearVerifiedKeeps
  <2> QED BY <1>1, <2>1, <2>2, <2>3, <2>4, <2>5, <2>6, <2>7, <2>8, <2>9 DEF TabStep
<1>2. CASE ServerStep
  <2> SUFFICES ASSUME NEW c \in DOMAIN call,
                      \/ Arrive(c) \/ CheckAccount(c) \/ CheckTerms(c) \/ FindSigner(c) \/ invokeAs(c)
                      \/ SkipFriend(c) \/ Refuse(c) \/ Rejected(c) \/ Report(c) \/ Answer(c)
               PROVE  SubmissionsInv'
    BY <1>2 DEF ServerStep
  <2> QED BY ArriveKeeps, CheckKeeps, PassKeeps, InvokeKeeps, AnswerKeeps, RejectedKeeps, ReportKeeps
<1>3. CASE WorldStep
  BY <1>3, LedgerKeeps, ChangeTermsKeeps DEF WorldStep
<1>4. CASE UNCHANGED vars
  <2>1. UNCHANGED <<area, slot, lock, terms, call, checks, verified>>
    BY <1>4 DEF vars
  <2>2. Course
    BY <2>1 DEF Course, Onto
  <2>3. DOMAIN lock' = Contexts' /\ (\A y \in Contexts' : LockOK(y)') /\ Locked'
    BY <2>1, <2>2, LocksStay
  <2>4. \A k \in checks' : CheckOK(k)'
    BY <2>1, <2>2, ChecksStay
  <2>5. HooksApart' /\ VerifiedOK'
    BY <2>1 DEF SubmissionsInv, HooksApart, VerifiedOK
  <2> QED BY <2>1, <2>3, <2>4, <2>5 DEF SubmissionsInv
<1> QED BY <1>1, <1>2, <1>3, <1>4 DEF Next

LEMMA SubmissionsInvHolds == Spec => []SubmissionsInv
BY SubmissionsInit, SubmissionsStep, PTL DEF Spec

-----------------------------------------------------------------------------
(* What holds of every reachable state.                                    *)

\* A hook mounted in the tab has at most one call or check of its own under
\* way, and a lock or a check names a call of this tab and a hash it signed.
THEOREM SubmissionsTyped == Spec => []TypeOK
<1>1. SubmissionsInv => TypeOK
  <2> SUFFICES ASSUME SubmissionsInv PROVE TypeOK
    OBVIOUS
  <2>1. \A c \in DOMAIN call : Last(call[c]) \in Nat /\ DOMAIN call[c].envs = 1 .. Last(call[c])
    BY CallKnown, LastType
  <2>2. \A x \in Contexts : lock[x] = None \/ (lock[x].id \in DOMAIN call
                                              /\ lock[x].hash \in 0 .. Len(call[lock[x].id].envs))
    <3> SUFFICES ASSUME NEW x \in Contexts, lock[x] # None
                 PROVE  lock[x].id \in DOMAIN call /\ lock[x].hash \in 0 .. Len(call[lock[x].id].envs)
      OBVIOUS
    <3>1. lock[x].id \in DOMAIN call /\ lock[x].hash \in Nat
          /\ (lock[x].hash # 0 => lock[x].hash = Last(call[lock[x].id]))
      BY DEF SubmissionsInv, LockOK, Answered
    <3> QED BY <2>1, <3>1 DEF Last
  <2>3. \A k \in checks : k.id \in DOMAIN call /\ k.hash \in DOMAIN call[k.id].envs
    <3> SUFFICES ASSUME NEW k \in checks
                 PROVE  k.id \in DOMAIN call /\ k.hash \in DOMAIN call[k.id].envs
      OBVIOUS
    <3>1. k.id \in DOMAIN call /\ k.hash # 0 /\ k.hash \in Nat /\ k.hash = Last(call[k.id])
      BY DEF SubmissionsInv, CheckOK, Answered
    <3> QED BY <2>1, <3>1
  <2>4. \A s \in Slots : Cardinality({c \in DOMAIN call : call[c].slot = s})
                        + Cardinality({k \in checks : k.slot = s}) <= 1
    <3> SUFFICES ASSUME NEW s \in Slots
                 PROVE  Cardinality({c \in DOMAIN call : call[c].slot = s})
                        + Cardinality({k \in checks : k.slot = s}) <= 1
      OBVIOUS
    <3>1. PICK C : C = {c \in DOMAIN call : call[c].slot = s}
      OBVIOUS
    <3>2. PICK K : K = {k \in checks : k.slot = s}
      OBVIOUS
    <3>3. s # None /\ HooksApart
      BY Constants DEF SubmissionsInv
    <3>4. (\A c, d \in C : c = d) /\ (\A k, l \in K : k = l) /\ (C = {} \/ K = {})
      BY <3>1, <3>2, <3>3 DEF HooksApart
    <3>5. (C = {} \/ \E c : C = {c}) /\ (K = {} \/ \E k : K = {k})
      BY <3>4
    <3>6. /\ C = {} => Cardinality(C) = 0
          /\ K = {} => Cardinality(K) = 0
          /\ Cardinality(C) \in {0, 1} /\ Cardinality(K) \in {0, 1}
      BY <3>5, FS_EmptySet, FS_Singleton
    <3> QED BY <3>1, <3>2, <3>4, <3>6
  <2>5. verified \subseteq DOMAIN call
    BY DEF SubmissionsInv, VerifiedOK
  <2> QED BY <2>2, <2>3, <2>4, <2>5 DEF SubmissionsInv, TypeOK
<1> QED BY <1>1, SubmissionsInvHolds, PTL

\* While a server action may still sign, or something it signed may still land
\* unreported, the lock of its context is its own, whatever answers were lost,
\* whatever pages were left and whatever old checks came back.
THEOREM OpenSubmissionLocked == Spec => []OpenKeepsLock
<1>1. SubmissionsInv => OpenKeepsLock
  <2> SUFFICES ASSUME SubmissionsInv, NEW c \in DOMAIN call, MayStillMove(c)
               PROVE  lock[call[c].page.context] # None /\ lock[call[c].page.context].id = c
    BY DEF OpenKeepsLock
  <2>1. Moving(call[c])
    BY CallKnown, MovingIs
  <2> QED BY <2>1 DEF SubmissionsInv, Locked, Holds
<1> QED BY <1>1, SubmissionsInvHolds, PTL

\* A donation or a created room that landed keeps its lock until its donor row
\* is stored or the room is verified.
THEOREM SuccessLockedUntilVerified == Spec => []UnverifiedKeepsLock
<1>1. SubmissionsInv => UnverifiedKeepsLock
  BY Zenon DEF SubmissionsInv, Locked, Holds, Landed, UnverifiedKeepsLock
<1> QED BY <1>1, SubmissionsInvHolds, PTL

\* What a reviewing page has signed is paid by the account that reviewed it,
\* for the terms it reviewed.
THEOREM SignedAsUserReviewed == Spec => []SignedAsReviewed
<1>1. SubmissionsInv => SignedAsReviewed
  BY DEF SubmissionsInv, CallOK, ReviewOK, SignedAsReviewed
<1> QED BY <1>1, SubmissionsInvHolds, PTL
=============================================================================
