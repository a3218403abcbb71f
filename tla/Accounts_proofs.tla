--------------------------- MODULE Accounts_proofs ---------------------------
(***************************************************************************)
(* Proofs about Accounts, for any users, handles, number of requests and   *)
(* order in which they, the ledger and Friendbot take their steps.         *)
(***************************************************************************)
EXTENDS Accounts, FiniteSetTheorems, TLAPS

-----------------------------------------------------------------------------
(* The inductive invariant.                                                *)

Places == {"resolve", "select", "insert", "reread", "ensure", "confirm",
           "sign", "wait", "before", "signer", "after"}
Requests ==
  [n : Slots, who : Callers, task : Tasks, name : Names \cup {None},
   to : Keys \cup Users \cup {None}, key : Keys \cup {None},
   result : (0 .. 3) \cup {None}, at : Places]

\* What a request knows of its wallet at each place, and that what it did to
\* the registry stands.
RequestOK(r) ==
  /\ r \in Requests
  /\ r.task = "prepare" => r.who # Guest /\ r.at \notin {"resolve", "sign", "wait"}
  /\ r.task # "prepare" => r.name \in Names
  /\ r.task = "send" => r.to \in Keys /\ Name[r.name] = r.to
  /\ r.at \in {"insert", "reread", "ensure", "confirm", "signer", "after"} => r.who # Guest
  /\ r.at = "insert" => r.key \in (1 .. minted) \ Saved
  /\ r.at \in {"reread", "after"} => row[r.who] # None
  /\ r.at \in {"ensure", "confirm", "sign", "wait", "signer"} =>
       r.key # None /\ r.key = Wallet(r.who)
  /\ r.at \in {"before", "signer", "after"} => r.task = "save"
  /\ r.task = "save" => r.at \in {"before", "signer", "sign", "wait", "after"}
  /\ r.task = "save" /\ r.at \in {"sign", "wait"} => r.who # Guest
  /\ r.result # None => r.at \in {"wait", "after"}
  /\ r.at = "wait" /\ r.result = 0 /\ r.task # "send" => Name[r.name] = r.key

EnvelopeOK(e) ==
  /\ e \in [n : Slots, who : Callers, task : Tasks, name : Names, to : Keys \cup Users \cup {None},
            key : Keys]
  /\ e.key = Wallet(e.who)
  /\ e.task # "prepare"
  /\ e.task = "send" => e.to \in Keys /\ Name[e.name] = e.to

\* A slot belongs to one request and to the envelope it waits for.
SlotsApart ==
  /\ \A r, s \in request : r.n = s.n => r = s
  /\ \A d, e \in net : d.n = e.n => d = e
  /\ \A r \in request, e \in net :
       r.n = e.n => r.at = "wait" /\ r.result = None /\ e = Envelope(r)

KeysFresh ==
  /\ Saved \subseteq 1 .. minted
  /\ \A r, s \in request : r.at = "insert" /\ s.at = "insert" /\ r.key = s.key => r = s

\* A request draws at most one key pair.
MayMint == {r \in request : r.at \in {"resolve", "select"}}
Budget == IsFiniteSet(request) /\ minted + Cardinality(MayMint) <= started

AccountsInv ==
  /\ TypeOK /\ OneWallet /\ HandlesStand
  /\ \A r \in request : RequestOK(r)
  /\ \A e \in net : EnvelopeOK(e)
  /\ SlotsApart /\ KeysFresh /\ Budget

LEMMA AccountsInit == Init => AccountsInv
<1> SUFFICES ASSUME Init PROVE AccountsInv
  OBVIOUS
<1> USE AccountsAssumption
<1>1. TypeOK
  BY DEF Init, TypeOK, Keys, Demo
<1>2. Saved = {}
  BY DEF Init, Saved
<1>3. OneWallet
  BY <1>2 DEF Init, OneWallet
<1>4. HandlesStand
  BY DEF Init, HandlesStand
<1>5. SlotsApart /\ KeysFresh
  BY <1>2 DEF Init, SlotsApart, KeysFresh
<1>6. Budget
  <2>1. MayMint = {} /\ request = {} /\ minted = 0 /\ started = 0
    BY DEF Init, MayMint
  <2> QED BY <2>1, FS_EmptySet DEF Budget
<1>7. request = {} /\ net = {}
  BY DEF Init
<1> QED BY <1>1, <1>3, <1>4, <1>5, <1>6, <1>7 DEF AccountsInv

-----------------------------------------------------------------------------
(* Slots and the budget of key pairs, when one request moves on or ends.   *)

NoEnvelope(r) == \A e \in net : e.n # r.n

LEMMA NotWaiting ==
  ASSUME SlotsApart, NEW r \in request, r.at # "wait" \/ r.result # None
  PROVE  NoEnvelope(r)
BY DEF SlotsApart, NoEnvelope

LEMMA SlotsBecome ==
  ASSUME SlotsApart, NEW r \in request, NoEnvelope(r), NEW s, s.n = r.n,
         Becomes(r, s), UNCHANGED net
  PROVE  SlotsApart'
BY DEF SlotsApart, NoEnvelope, Becomes, Envelope

LEMMA SlotsEnd ==
  ASSUME SlotsApart, request' \subseteq request, net' \subseteq net
  PROVE  SlotsApart'
BY DEF SlotsApart, Envelope

LEMMA FreshEnd ==
  ASSUME KeysFresh, request' \subseteq request, UNCHANGED <<row, minted>>
  PROVE  KeysFresh'
BY DEF KeysFresh, Saved

LEMMA BudgetTyped ==
  ASSUME TypeOK
  PROVE  minted \in Nat /\ started \in Nat /\ MaxRequests \in Nat
         /\ minted <= started /\ started <= MaxRequests
BY AccountsAssumption DEF TypeOK

\* Fewer requests that may still draw a key pair cannot exceed the budget.
LEMMA BudgetShrinks ==
  ASSUME Budget, TypeOK, IsFiniteSet(request'), MayMint' \subseteq MayMint,
         UNCHANGED <<minted, started>>
  PROVE  Budget'
<1>1. IsFiniteSet(MayMint)
  BY FS_Subset DEF Budget, MayMint
<1>2. /\ IsFiniteSet(MayMint') /\ Cardinality(MayMint') <= Cardinality(MayMint)
  BY <1>1, FS_Subset
<1>3. Cardinality(MayMint) \in Nat /\ Cardinality(MayMint') \in Nat
  BY <1>1, <1>2, FS_CardinalityType
<1>4. minted \in Nat /\ started \in Nat /\ minted + Cardinality(MayMint) <= started
  BY BudgetTyped DEF Budget
<1>5. minted + Cardinality(MayMint') <= started
  BY <1>2, <1>3, <1>4
<1> QED BY <1>5 DEF Budget

LEMMA BudgetEnd ==
  ASSUME Budget, TypeOK, request' \subseteq request, UNCHANGED <<minted, started>>
  PROVE  Budget'
<1>1. IsFiniteSet(request')
  BY FS_Subset DEF Budget
<1>2. MayMint' \subseteq MayMint
  BY DEF MayMint
<1> QED BY <1>1, <1>2, BudgetShrinks

LEMMA BecomesFinite ==
  ASSUME Budget, NEW r \in request, NEW s, Becomes(r, s)
  PROVE  IsFiniteSet(request')
<1>1. IsFiniteSet(request \ {r})
  BY FS_RemoveElement DEF Budget
<1>2. IsFiniteSet((request \ {r}) \cup {s})
  BY <1>1, FS_AddElement
<1> QED BY <1>2 DEF Becomes

\* A request that goes on from place to place keeps its slot's count.
LEMMA BudgetBecome ==
  ASSUME Budget, TypeOK, NEW r \in request, NEW s, Becomes(r, s),
         s.at \in {"resolve", "select"} => r.at \in {"resolve", "select"},
         UNCHANGED <<minted, started>>
  PROVE  Budget'
<1>1. IsFiniteSet(request') /\ IsFiniteSet(MayMint)
  BY BecomesFinite, FS_Subset DEF Budget, MayMint
<1>2. CASE s.at \notin {"resolve", "select"}
  <2>1. MayMint' \subseteq MayMint
    BY <1>2 DEF Becomes, MayMint
  <2> QED BY <1>1, <2>1, BudgetShrinks
<1>3. CASE s.at \in {"resolve", "select"}
  <2>1. r \in MayMint
    BY <1>3 DEF MayMint
  <2>2. MayMint' = (MayMint \ {r}) \cup {s}
    BY <1>3 DEF Becomes, MayMint
  <2>3. /\ IsFiniteSet(MayMint \ {r})
        /\ Cardinality(MayMint \ {r}) = Cardinality(MayMint) - 1
    BY <1>1, <2>1, FS_RemoveElement
  <2>4. /\ IsFiniteSet(MayMint')
        /\ Cardinality(MayMint') <= Cardinality(MayMint \ {r}) + 1
    <3>1. Cardinality((MayMint \ {r}) \cup {s})
            = IF s \in MayMint \ {r} THEN Cardinality(MayMint \ {r})
                                     ELSE Cardinality(MayMint \ {r}) + 1
      BY <2>3, FS_AddElement
    <3>2. Cardinality(MayMint \ {r}) \in Nat
      BY <2>3, FS_CardinalityType
    <3>3. IsFiniteSet((MayMint \ {r}) \cup {s})
      BY <2>3, FS_AddElement
    <3> QED BY <2>2, <3>1, <3>2, <3>3
  <2>5. Cardinality(MayMint) \in Nat /\ Cardinality(MayMint') \in Nat
    BY <1>1, <2>4, FS_CardinalityType
  <2>6. minted \in Nat /\ started \in Nat /\ minted + Cardinality(MayMint) <= started
    BY BudgetTyped DEF Budget
  <2>7. minted + Cardinality(MayMint') <= started
    BY <2>3, <2>4, <2>5, <2>6
  <2> QED BY <1>1, <2>7 DEF Budget
<1> QED BY <1>2, <1>3

-----------------------------------------------------------------------------
(* What only grows.                                                        *)

\* Saved wallets and registered handles are final.
Grows ==
  /\ \A u \in Users : row[u] # None => row'[u] = row[u]
  /\ \A h \in Names : Name[h] # None => Name'[h] = Name[h]
  /\ minted \in Nat /\ minted' \in Nat /\ minted <= minted'

LEMMA NoKeyIsNone == None \notin Keys /\ None \notin Names /\ Demo \in Keys /\ Keys \subseteq Nat
BY AccountsAssumption DEF Keys, Demo

LEMMA StillGrows ==
  ASSUME TypeOK, UNCHANGED <<row, minted, Name>>
  PROVE  Grows
BY BudgetTyped DEF Grows

LEMMA WalletStays ==
  ASSUME TypeOK, Grows, NEW w \in Callers, Wallet(w) # None
  PROVE  Wallet(w)' = Wallet(w)
BY DEF Grows, Wallet, Callers

LEMMA RequestStays ==
  ASSUME TypeOK, Grows, NEW r, RequestOK(r), r.at = "insert" => r.key \notin Saved'
  PROVE  RequestOK(r)'
<1> USE NoKeyIsNone
<1>1. r \in Requests /\ r.who \in Callers /\ r.key \in Keys \cup {None}
  BY DEF RequestOK, Requests
<1>2. r.task = "send" => Name'[r.name] = r.to
  <2> SUFFICES ASSUME r.task = "send" PROVE Name'[r.name] = r.to
    OBVIOUS
  <2>1. r.name \in Names /\ Name[r.name] = r.to /\ r.to \in Keys
    BY DEF RequestOK
  <2> QED BY <2>1 DEF Grows
<1>3. r.at = "insert" => r.key \in (1 .. minted') \ Saved'
  BY DEF RequestOK, Grows
<1>4. r.at \in {"reread", "after"} => row'[r.who] # None
  <2> SUFFICES ASSUME r.at \in {"reread", "after"} PROVE row'[r.who] # None
    OBVIOUS
  <2>1. r.who \in Users /\ row[r.who] # None
    BY <1>1 DEF RequestOK, Callers
  <2> QED BY <2>1 DEF Grows
<1>5. r.at \in {"ensure", "confirm", "sign", "wait", "signer"} =>
        r.key # None /\ r.key = Wallet(r.who)'
  <2> SUFFICES ASSUME r.at \in {"ensure", "confirm", "sign", "wait", "signer"}
               PROVE  r.key # None /\ r.key = Wallet(r.who)'
    OBVIOUS
  <2>1. r.key # None /\ r.key = Wallet(r.who)
    BY DEF RequestOK
  <2> QED BY <1>1, <2>1, WalletStays
<1>6. r.at = "wait" /\ r.result = 0 /\ r.task # "send" => Name'[r.name] = r.key
  <2> SUFFICES ASSUME r.at = "wait", r.result = 0, r.task # "send"
               PROVE  Name'[r.name] = r.key
    OBVIOUS
  <2>1. r.name \in Names /\ Name[r.name] = r.key /\ r.key # None
    BY DEF RequestOK
  <2> QED BY <2>1 DEF Grows
<1> QED BY <1>1, <1>2, <1>3, <1>4, <1>5, <1>6 DEF RequestOK

LEMMA EnvelopeStays ==
  ASSUME TypeOK, Grows, NEW e, EnvelopeOK(e)
  PROVE  EnvelopeOK(e)'
<1> USE NoKeyIsNone
<1>1. e.who \in Callers /\ e.key \in Keys /\ e.key = Wallet(e.who) /\ e.name \in Names
  BY DEF EnvelopeOK
<1>2. e.key = Wallet(e.who)'
  BY <1>1, WalletStays
<1>3. e.task = "send" => Name'[e.name] = e.to
  BY <1>1 DEF EnvelopeOK, Grows
<1> QED BY <1>2, <1>3 DEF EnvelopeOK

-----------------------------------------------------------------------------
(* Steps that touch neither the wallets' rows nor the registry.            *)

Standing == <<row, minted, registry, started, net, reviewed>>
ToldOK(t) ==
  /\ t.who \in Callers /\ t.handle \in Names /\ t = [who |-> t.who, handle |-> t.handle]
  /\ Name[t.handle] # None /\ Name[t.handle] = Wallet(t.who)

ShownOK(v) == v \in [name : Names, to : Keys] /\ Name[v.name] = v.to

LEMMA SavedAreKeys == ASSUME TypeOK PROVE Saved \subseteq Keys
BY DEF TypeOK, Saved

LEMMA ToldIsOK ==
  ASSUME AccountsInv, NEW t \in told
  PROVE  ToldOK(t)
BY DEF AccountsInv, TypeOK, HandlesStand, ToldOK

LEMMA ShownIsOK ==
  ASSUME AccountsInv, NEW v \in reviewed
  PROVE  ShownOK(v)
BY DEF AccountsInv, TypeOK, HandlesStand, ShownOK

LEMMA Quiet ==
  ASSUME AccountsInv, UNCHANGED <<row, minted, registry>>,
         started' \in Nat, started <= started', started' <= MaxRequests,
         asked' \subseteq Saved, active' \subseteq Keys,
         \A t \in told' : ToldOK(t), \A v \in reviewed' : ShownOK(v),
         \A r \in request' : RequestOK(r), \A e \in net' : EnvelopeOK(e),
         SlotsApart', KeysFresh', Budget'
  PROVE  AccountsInv'
<1> USE DEF registry
<1>1. TypeOK /\ OneWallet /\ HandlesStand /\ Grows
  BY StillGrows DEF AccountsInv
<1>2. Saved' = Saved /\ Saved \subseteq Keys
  BY <1>1, SavedAreKeys DEF Saved
<1>3. \A r \in request' : RequestOK(r)'
  <2> SUFFICES ASSUME NEW r \in request' PROVE RequestOK(r)'
    OBVIOUS
  <2>1. RequestOK(r)
    OBVIOUS
  <2>2. r.at = "insert" => r.key \notin Saved'
    BY <1>2, <2>1 DEF RequestOK
  <2> QED BY <1>1, <2>1, <2>2, RequestStays
<1>4. \A e \in net' : EnvelopeOK(e)'
  BY <1>1, EnvelopeStays
<1>5. TypeOK'
  <2>1. \A r \in request' : r.n \in Slots /\ r.who \in Callers /\ r.task \in Tasks /\ r.key \in Keys \cup {None}
    BY DEF RequestOK, Requests
  <2>2. told' \subseteq [who : Callers, handle : Names] /\ reviewed' \subseteq [name : Names, to : Keys]
    BY DEF ToldOK, ShownOK
  <2>3. asked' \subseteq Keys
    BY <1>2
  <2>4. \A e \in net' : e.n \in Slots /\ e.who \in Callers /\ e.task \in Tasks /\ e.key \in Keys
    BY DEF EnvelopeOK
  <2>5. minted' \in 0 .. started' /\ started' \in 0 .. MaxRequests
    <3>1. minted \in Nat /\ started \in Nat /\ MaxRequests \in Nat /\ minted <= started
      BY <1>1, BudgetTyped
    <3>2. minted' = minted
      OBVIOUS
    <3> QED BY <3>1, <3>2
  <2> QED BY <1>1, <2>1, <2>2, <2>3, <2>4, <2>5 DEF TypeOK
<1>6. OneWallet'
  <2>1. \A e \in net' : e.key = Wallet(e.who)'
    BY <1>4 DEF EnvelopeOK
  <2> QED BY <1>1, <1>2, <2>1 DEF OneWallet
<1>7. HandlesStand'
  BY <1>1, <1>4 DEF HandlesStand, ToldOK, ShownOK, EnvelopeOK, Wallet
<1> QED BY <1>3, <1>4, <1>5, <1>6, <1>7 DEF AccountsInv

LEMMA StandingQuiet ==
  ASSUME AccountsInv, UNCHANGED Standing
  PROVE  /\ UNCHANGED <<row, minted, registry>>
         /\ started' \in Nat /\ started <= started' /\ started' <= MaxRequests
         /\ \A v \in reviewed' : ShownOK(v)
         /\ \A e \in net' : EnvelopeOK(e)
BY BudgetTyped, ShownIsOK DEF Standing, AccountsInv

LEMMA QuietBecomes ==
  ASSUME AccountsInv, NEW r \in request, r.at # "wait" \/ r.result # None,
         NEW s, Becomes(r, s), RequestOK(s), s.n = r.n, s.at # "insert",
         s.at \in {"resolve", "select"} => r.at \in {"resolve", "select"},
         UNCHANGED Standing, UNCHANGED <<active, told>>, asked' \subseteq Saved
  PROVE  AccountsInv'
<1> USE DEF Standing
<1>1. \A t \in told' : ToldOK(t)
  BY ToldIsOK
<1>2. \A x \in request' : RequestOK(x)
  BY DEF AccountsInv, Becomes
<1>3. SlotsApart'
  <2>1. SlotsApart /\ NoEnvelope(r)
    BY NotWaiting DEF AccountsInv
  <2> QED BY <2>1, SlotsBecome
<1>4. KeysFresh'
  BY DEF AccountsInv, KeysFresh, Becomes, Saved
<1>5. Budget'
  BY BudgetBecome DEF AccountsInv
<1>6. active' \subseteq Keys
  BY DEF AccountsInv, TypeOK
<1> QED BY <1>1, <1>2, <1>3, <1>4, <1>5, <1>6, StandingQuiet, Quiet

\* An ending request may tell its page a handle.
LEMMA QuietEnds ==
  ASSUME AccountsInv, NEW r \in request, Ends(r), UNCHANGED Standing, UNCHANGED <<asked, active>>,
         \A t \in told' : ToldOK(t)
  PROVE  AccountsInv'
<1> USE DEF Standing
<1>1. request' \subseteq request
  BY DEF Ends
<1>2. \A x \in request' : RequestOK(x)
  BY <1>1 DEF AccountsInv
<1>3. SlotsApart' /\ KeysFresh' /\ Budget'
  BY <1>1, SlotsEnd, FreshEnd, BudgetEnd DEF AccountsInv
<1>4. active' \subseteq Keys /\ asked' \subseteq Saved
  BY DEF AccountsInv, TypeOK, OneWallet
<1> QED BY <1>2, <1>3, <1>4, StandingQuiet, Quiet

LEMMA ToldNothing ==
  ASSUME AccountsInv, UNCHANGED told
  PROVE  \A t \in told' : ToldOK(t)
BY ToldIsOK

LEMMA ToldOne ==
  ASSUME AccountsInv, NEW w \in Callers, NEW h \in Names, Tell(w, h),
         Name[h] # None, Name[h] = Wallet(w)
  PROVE  \A t \in told' : ToldOK(t)
BY ToldIsOK DEF Tell, ToldOK

-----------------------------------------------------------------------------
(* The quiet steps.                                                        *)

LEMMA RequestTyped ==
  ASSUME AccountsInv, NEW r \in request
  PROVE  r \in Requests /\ RequestOK(r)
BY DEF AccountsInv, RequestOK

\* The wallet of a user whose row is saved.
LEMMA SavedWallet ==
  ASSUME AccountsInv, NEW u \in Users, row[u] # None
  PROVE  row[u] \in Keys /\ row[u] \in Saved /\ u # Guest /\ Wallet(u) = row[u]
BY AccountsAssumption DEF AccountsInv, TypeOK, Saved, Wallet

\* The handle an account shows resolves to it.
LEMMA HandleShown ==
  ASSUME AccountsInv, NEW u \in Users, Handle(u) # None
  PROVE  /\ row[u] # None /\ Handle(u) = Owner[row[u]]
         /\ Handle(u) \in Names /\ Name[Handle(u)] = row[u] /\ Wallet(u) = row[u]
<1>1. row[u] # None /\ Handle(u) = Owner[row[u]]
  BY DEF Handle
<1>2. row[u] \in Keys /\ Wallet(u) = row[u]
  BY <1>1, SavedWallet
<1>3. Owner[row[u]] \in Names /\ Name[Owner[row[u]]] = row[u]
  BY <1>1, <1>2 DEF AccountsInv, TypeOK
<1> QED BY <1>1, <1>2, <1>3

LEMMA FailsKeeps ==
  ASSUME AccountsInv, NEW r \in request, Fails(r) PROVE AccountsInv'
BY QuietEnds, ToldNothing DEF Fails, Standing, wallets, pages

LEMMA UnconfirmedKeeps ==
  ASSUME AccountsInv, NEW r \in request, Unconfirmed(r) PROVE AccountsInv'
BY QuietEnds, ToldNothing DEF Unconfirmed, Standing, wallets, pages

LEMMA AskedSaved == ASSUME AccountsInv PROVE asked \subseteq Saved
BY DEF AccountsInv, OneWallet

LEMMA WalletOwnerKeeps ==
  ASSUME AccountsInv, NEW r \in request, walletOwner(r) PROVE AccountsInv'
<1> DEFINE s == [r EXCEPT !.key = Demo, !.at = "sign"]
<1>1. r \in Requests /\ RequestOK(r)
  BY RequestTyped
<1>2. RequestOK(s) /\ s.n = r.n /\ s.at = "sign"
  <2>1. s \in Requests
    BY <1>1, NoKeyIsNone DEF Requests, Places
  <2> QED BY <1>1, <2>1, NoKeyIsNone DEF RequestOK, walletOwner, Wallet, Requests
<1> HIDE DEF s
<1>3. Becomes(r, s) /\ r.at = "select"
  BY DEF walletOwner, s
<1> QED BY <1>2, <1>3, QuietBecomes, AskedSaved DEF walletOwner, Standing, wallets, pages

LEMMA RereadKeeps ==
  ASSUME AccountsInv, NEW r \in request, rereadWallet(r) PROVE AccountsInv'
<1> DEFINE s == [r EXCEPT !.key = row[r.who], !.at = "ensure"]
<1>1. r \in Requests /\ RequestOK(r) /\ r.at = "reread"
  BY RequestTyped DEF rereadWallet
<1>2. r.who \in Users /\ row[r.who] # None
  BY <1>1 DEF RequestOK, Requests, Callers
<1>3. row[r.who] \in Keys /\ Wallet(r.who) = row[r.who] /\ r.who # Guest
  BY <1>2, SavedWallet
<1>4. RequestOK(s) /\ s.n = r.n /\ s.at = "ensure"
  <2>1. s \in Requests
    BY <1>1, <1>3 DEF Requests, Places
  <2> QED BY <1>1, <1>2, <1>3, <2>1, NoKeyIsNone DEF RequestOK, Requests
<1> HIDE DEF s
<1>5. Becomes(r, s)
  BY DEF rereadWallet, s
<1> QED BY <1>1, <1>4, <1>5, QuietBecomes, AskedSaved DEF rereadWallet, Standing, wallets, pages

\* A request whose wallet is ready signs, or ends.
LEMMA ReadyKeeps ==
  ASSUME AccountsInv, NEW r \in request, r.at \in {"ensure", "confirm"}, Ready(r),
         UNCHANGED Standing, UNCHANGED <<active, asked, told>>
  PROVE  AccountsInv'
<1> DEFINE s == [r EXCEPT !.at = "sign"]
<1>1. r \in Requests /\ RequestOK(r)
  BY RequestTyped
<1>2. CASE r.task = "prepare"
  BY <1>2, QuietEnds, ToldNothing DEF Ready
<1>3. CASE r.task # "prepare"
  <2>1. RequestOK(s) /\ s.n = r.n /\ s.at = "sign"
    <3>1. s \in Requests
      BY <1>1 DEF Requests, Places
    <3> QED BY <1>1, <1>3, <3>1 DEF RequestOK, Requests
  <2> HIDE DEF s
  <2>2. Becomes(r, s)
    BY <1>3 DEF Ready, s
  <2> QED BY <2>1, <2>2, QuietBecomes, AskedSaved
<1> QED BY <1>2, <1>3

LEMMA EnsureKeeps ==
  ASSUME AccountsInv, NEW r \in request, ensureTestnetAccount(r) PROVE AccountsInv'
<1> DEFINE s == [r EXCEPT !.at = "confirm"]
<1>1. r \in Requests /\ RequestOK(r) /\ r.at = "ensure"
  BY RequestTyped DEF ensureTestnetAccount
<1>2. UNCHANGED Standing /\ UNCHANGED <<active, told>>
  BY DEF ensureTestnetAccount, Standing, pages
<1>3. CASE r.key \in active
  BY <1>1, <1>2, <1>3, ReadyKeeps DEF ensureTestnetAccount
<1>4. CASE r.key \notin active
  <2>1. r.who \in Users /\ r.who # Guest /\ r.key # None /\ r.key = Wallet(r.who)
    BY <1>1 DEF RequestOK, Requests, Callers
  <2>2. r.key \in Saved
    BY <2>1 DEF Saved, Wallet
  <2>3. asked' \subseteq Saved
    BY <1>4, <2>2, AskedSaved DEF ensureTestnetAccount
  <2>4. RequestOK(s) /\ s.n = r.n /\ s.at = "confirm"
    <3>1. s \in Requests
      BY <1>1 DEF Requests, Places
    <3> QED BY <1>1, <3>1 DEF RequestOK, Requests
  <2> HIDE DEF s
  <2>5. Becomes(r, s)
    BY <1>4 DEF ensureTestnetAccount, s
  <2> QED BY <1>1, <1>2, <2>3, <2>4, <2>5, QuietBecomes
<1> QED BY <1>3, <1>4

LEMMA ConfirmKeeps ==
  ASSUME AccountsInv, NEW r \in request, confirmTestnetAccount(r) PROVE AccountsInv'
<1>1. r.at = "confirm" /\ UNCHANGED Standing /\ UNCHANGED <<active, asked, told>>
  BY DEF confirmTestnetAccount, Standing, wallets, pages
<1>2. CASE r.key \in active
  BY <1>1, <1>2, ReadyKeeps DEF confirmTestnetAccount
<1>3. CASE r.key \notin active
  BY <1>1, <1>3, QuietEnds, ToldNothing DEF confirmTestnetAccount
<1> QED BY <1>2, <1>3

LEMMA FriendbotKeeps ==
  ASSUME AccountsInv, NEW k \in Keys, Friendbot(k) PROVE AccountsInv'
<1>1. /\ UNCHANGED Standing /\ UNCHANGED <<request, told, asked>>
      /\ active' \subseteq Keys
  BY DEF Friendbot, Standing, pages, AccountsInv, TypeOK
<1>2. \A t \in told' : ToldOK(t)
  BY <1>1, ToldNothing
<1>3. SlotsApart' /\ KeysFresh' /\ Budget'
  BY <1>1, SlotsEnd, FreshEnd, BudgetEnd DEF AccountsInv, Standing
<1> QED BY <1>1, <1>2, <1>3, StandingQuiet, Quiet, AskedSaved DEF AccountsInv

LEMMA ResolveKeeps ==
  ASSUME AccountsInv, NEW r \in request, resolveAgain(r) PROVE AccountsInv'
<1> DEFINE s == [r EXCEPT !.at = "select"]
<1>1. r \in Requests /\ RequestOK(r) /\ r.at = "resolve"
  BY RequestTyped DEF resolveAgain
<1>2. UNCHANGED Standing /\ UNCHANGED <<active, asked, told>>
  BY DEF resolveAgain, Standing, wallets, pages
<1>3. CASE Becomes(r, s)
  <2>1. RequestOK(s) /\ s.n = r.n /\ s.at = "select"
    <3>1. s \in Requests
      BY <1>1 DEF Requests, Places
    <3> QED BY <1>1, <3>1 DEF RequestOK, Requests
  <2> HIDE DEF s
  <2> QED BY <1>1, <1>2, <1>3, <2>1, QuietBecomes, AskedSaved
<1>4. CASE Ends(r)
  BY <1>2, <1>4, QuietEnds, ToldNothing
<1> QED BY <1>3, <1>4 DEF resolveAgain

-----------------------------------------------------------------------------
(* Answers, and what they tell a page.                                     *)

LEMMA ReadBeforeKeeps ==
  ASSUME AccountsInv, NEW r \in request, readBefore(r) PROVE AccountsInv'
<1> DEFINE s == [r EXCEPT !.key = row[r.who], !.at = "signer"]
           mine == r.who = r.to /\ r.who # Guest
<1>1. r \in Requests /\ RequestOK(r) /\ r.at = "before"
  BY RequestTyped DEF readBefore
<1>2. UNCHANGED Standing /\ UNCHANGED <<active, asked>>
  BY DEF readBefore, Standing, wallets
<1>3. CASE mine /\ row[r.who] # None /\ Handle(r.who) = None
  <2>1. r.who \in Users /\ row[r.who] # None
    BY <1>1, <1>3 DEF Requests, Callers
  <2>2. row[r.who] \in Keys /\ Wallet(r.who) = row[r.who] /\ r.who # Guest
    BY <2>1, SavedWallet
  <2>3. RequestOK(s) /\ s.n = r.n /\ s.at = "signer"
    <3>1. s \in Requests
      BY <1>1, <2>2 DEF Requests, Places
    <3> QED BY <1>1, <2>1, <2>2, <3>1, NoKeyIsNone DEF RequestOK, Requests
  <2>4. Becomes(r, s) /\ UNCHANGED told
    BY <1>3 DEF readBefore
  <2> HIDE DEF s
  <2> QED BY <1>1, <1>2, <2>3, <2>4, QuietBecomes, AskedSaved
<1>4. CASE ~(mine /\ row[r.who] # None /\ Handle(r.who) = None)
  <2>1. Ends(r) /\ IF mine /\ Handle(r.who) # None THEN Tell(r.who, Handle(r.who)) ELSE UNCHANGED told
    BY <1>4 DEF readBefore
  <2>2. \A t \in told' : ToldOK(t)
    <3>1. CASE mine /\ Handle(r.who) # None
      <4>1. r.who \in Users
        BY <1>1, <3>1 DEF Requests, Callers
      <4> QED BY <1>1, <2>1, <3>1, <4>1, HandleShown, ToldOne DEF Callers
    <3>2. CASE ~(mine /\ Handle(r.who) # None)
      BY <2>1, <3>2, ToldNothing
    <3> QED BY <3>1, <3>2
  <2> QED BY <1>2, <2>1, <2>2, QuietEnds
<1> QED BY <1>3, <1>4

LEMMA SignerKeeps ==
  ASSUME AccountsInv, NEW r \in request, getAuthenticatedSigner(r) PROVE AccountsInv'
<1> DEFINE s == [r EXCEPT !.at = "sign"]
<1>1. r \in Requests /\ RequestOK(r) /\ r.at = "signer"
  BY RequestTyped DEF getAuthenticatedSigner
<1>2. UNCHANGED Standing /\ UNCHANGED <<active, asked, told>>
  BY DEF getAuthenticatedSigner, Standing, wallets, pages
<1>3. CASE Becomes(r, s)
  <2>1. RequestOK(s) /\ s.n = r.n /\ s.at = "sign"
    <3>1. s \in Requests
      BY <1>1 DEF Requests, Places
    <3> QED BY <1>1, <3>1 DEF RequestOK, Requests
  <2> HIDE DEF s
  <2> QED BY <1>1, <1>2, <1>3, <2>1, QuietBecomes, AskedSaved
<1>4. CASE Ends(r)
  BY <1>2, <1>4, QuietEnds, ToldNothing
<1> QED BY <1>3, <1>4 DEF getAuthenticatedSigner

LEMMA ReadAfterKeeps ==
  ASSUME AccountsInv, NEW r \in request, readAfter(r) PROVE AccountsInv'
<1>1. r \in Requests /\ RequestOK(r) /\ r.at = "after"
  BY RequestTyped DEF readAfter
<1>2. UNCHANGED Standing /\ UNCHANGED <<active, asked>> /\ Ends(r)
  BY DEF readAfter, Standing, wallets
<1>3. r.who \in Users
  BY <1>1 DEF RequestOK, Requests, Callers
<1>4. \A t \in told' : ToldOK(t)
  <2>1. CASE Handle(r.who) # None
    <3>1. Tell(r.who, Handle(r.who))
      BY <2>1 DEF readAfter, Completed
    <3> QED BY <1>3, <2>1, <3>1, HandleShown, ToldOne DEF Callers
  <2>2. CASE Handle(r.who) = None
    BY <2>2, ToldNothing DEF readAfter, Completed
  <2> QED BY <2>1, <2>2
<1> QED BY <1>2, <1>4, QuietEnds

LEMMA ConfirmedKeeps ==
  ASSUME AccountsInv, NEW r \in request, Confirmed(r) PROVE AccountsInv'
<1> DEFINE s == [r EXCEPT !.at = "after"]
<1>1. r \in Requests /\ RequestOK(r) /\ r.at = "wait" /\ r.result # None
  BY RequestTyped DEF Confirmed
<1>2. UNCHANGED Standing /\ UNCHANGED <<active, asked>>
  BY DEF Confirmed, Standing, wallets
<1>3. CASE r.result = 0 /\ r.task = "save"
  <2>1. RequestOK(s) /\ s.n = r.n /\ s.at = "after"
    <3>1. s \in Requests
      BY <1>1 DEF Requests, Places
    <3>2. r.who # Guest /\ row[r.who] # None
      BY <1>1, <1>3 DEF RequestOK, Wallet
    <3> QED BY <1>1, <1>3, <3>1, <3>2 DEF RequestOK, Requests
  <2>2. Becomes(r, s) /\ UNCHANGED told
    BY <1>3 DEF Confirmed
  <2> HIDE DEF s
  <2> QED BY <1>1, <1>2, <2>1, <2>2, QuietBecomes, AskedSaved
<1>4. CASE ~(r.result = 0 /\ r.task = "save")
  <2>1. Ends(r) /\ IF r.result = 0 /\ r.task \in {"register", "rename"}
                   THEN Tell(r.who, r.name) ELSE UNCHANGED told
    BY <1>4 DEF Confirmed
  <2>2. \A t \in told' : ToldOK(t)
    <3>1. CASE r.result = 0 /\ r.task \in {"register", "rename"}
      <4>1. /\ r.who \in Callers /\ r.name \in Names
            /\ Name[r.name] # None /\ Name[r.name] = Wallet(r.who)
        BY <1>1, <3>1 DEF RequestOK, Requests
      <4> QED BY <2>1, <3>1, <4>1, ToldOne
    <3>2. CASE ~(r.result = 0 /\ r.task \in {"register", "rename"})
      BY <2>1, <3>2, ToldNothing
    <3> QED BY <3>1, <3>2
  <2> QED BY <1>2, <2>1, <2>2, QuietEnds
<1> QED BY <1>3, <1>4

LEMMA LookupKeeps ==
  ASSUME AccountsInv, NEW h \in Names, lookupRecipient(h) PROVE AccountsInv'
<1>1. /\ UNCHANGED <<row, minted, registry, started, request, net, active, asked, told>>
      /\ reviewed' = reviewed \cup {[name |-> h, to |-> Name[h]]} /\ Name[h] # None
  BY DEF lookupRecipient, wallets
<1>2. \A v \in reviewed' : ShownOK(v)
  <2>1. Name[h] \in Keys
    BY <1>1 DEF AccountsInv, TypeOK
  <2> QED BY <1>1, <2>1, ShownIsOK DEF ShownOK
<1>3. SlotsApart' /\ KeysFresh' /\ Budget'
  BY <1>1, SlotsEnd, FreshEnd, BudgetEnd DEF AccountsInv
<1>4. started \in Nat /\ started <= MaxRequests /\ active \subseteq Keys
  BY BudgetTyped DEF AccountsInv, TypeOK
<1>5. \A t \in told' : ToldOK(t)
  BY <1>1, ToldNothing
<1>6. /\ started' \in Nat /\ started <= started' /\ started' <= MaxRequests
      /\ active' \subseteq Keys /\ asked' \subseteq Saved
  BY <1>1, <1>4, AskedSaved
<1>7. (\A r \in request' : RequestOK(r)) /\ (\A e \in net' : EnvelopeOK(e))
  BY <1>1 DEF AccountsInv
<1> QED BY <1>1, <1>2, <1>3, <1>5, <1>6, <1>7, Quiet

LEMMA DropKeeps ==
  ASSUME AccountsInv, NEW d \in net, Drop(d) PROVE AccountsInv'
<1>1. /\ UNCHANGED <<row, minted, registry, started, request, active, asked, told, reviewed>>
      /\ net' \subseteq net
  BY DEF Drop, wallets, pages
<1>2. \A v \in reviewed' : ShownOK(v)
  BY <1>1, ShownIsOK
<1>3. SlotsApart' /\ KeysFresh' /\ Budget'
  BY <1>1, SlotsEnd, FreshEnd, BudgetEnd DEF AccountsInv
<1>4. started \in Nat /\ started <= MaxRequests /\ active \subseteq Keys
  BY BudgetTyped DEF AccountsInv, TypeOK
<1>5. \A t \in told' : ToldOK(t)
  BY <1>1, ToldNothing
<1>6. /\ started' \in Nat /\ started <= started' /\ started' <= MaxRequests
      /\ active' \subseteq Keys /\ asked' \subseteq Saved
  BY <1>1, <1>4, AskedSaved
<1>7. (\A r \in request' : RequestOK(r)) /\ (\A e \in net' : EnvelopeOK(e))
  BY <1>1 DEF AccountsInv
<1> QED BY <1>1, <1>2, <1>3, <1>5, <1>6, <1>7, Quiet

-----------------------------------------------------------------------------
(* Signing.                                                                *)

LEMMA SignKeeps ==
  ASSUME AccountsInv, NEW r \in request, invokeAs(r),
         net' = net \cup {Envelope(r)}, Becomes(r, [r EXCEPT !.at = "wait"])
  PROVE  AccountsInv'
<1> DEFINE s == [r EXCEPT !.at = "wait"]
<1>1. r \in Requests /\ RequestOK(r) /\ r.at = "sign"
  BY RequestTyped DEF invokeAs
<1>2. UNCHANGED <<row, minted, registry, started, active, asked, told, reviewed>>
  BY DEF invokeAs, wallets, pages
<1>3. r.task # "prepare" /\ r.name \in Names /\ r.key \in Keys /\ r.key = Wallet(r.who)
  BY <1>1, NoKeyIsNone DEF RequestOK, Requests
<1>4. EnvelopeOK(Envelope(r))
  BY <1>1, <1>3 DEF EnvelopeOK, Envelope, RequestOK, Requests
<1>5. RequestOK(s) /\ s.n = r.n /\ s.at = "wait" /\ s.result = None /\ Envelope(s) = Envelope(r)
  <2>1. s \in Requests
    BY <1>1 DEF Requests, Places
  <2>2. r.result = None
    BY <1>1 DEF RequestOK
  <2>3. None # 0
    BY AccountsAssumption
  <2> QED BY <1>1, <2>1, <2>2, <2>3 DEF RequestOK, Requests, Envelope
<1>6. Becomes(r, s)
  OBVIOUS
<1> HIDE DEF s
<1>7. SlotsApart'
  <2>1. SlotsApart /\ NoEnvelope(r)
    BY <1>1, NotWaiting DEF AccountsInv
  <2>2. Envelope(r).n = r.n /\ \A x \in request' : x = s \/ (x \in request /\ x # r)
    BY <1>6 DEF Becomes, Envelope
  <2>3. \A x, y \in request' : x.n = y.n => x = y
    BY <1>5, <2>1, <2>2 DEF SlotsApart
  <2>4. \A d, e \in net' : d.n = e.n => d = e
    BY <2>1, <2>2 DEF SlotsApart, NoEnvelope
  <2>5. \A x \in request', e \in net' : x.n = e.n => x.at = "wait" /\ x.result = None /\ e = Envelope(x)
    <3> SUFFICES ASSUME NEW x \in request', NEW e \in net', x.n = e.n
                 PROVE  x.at = "wait" /\ x.result = None /\ e = Envelope(x)
      OBVIOUS
    <3>1. CASE x = s
      <4>1. e \notin net
        BY <1>5, <2>1, <3>1 DEF NoEnvelope
      <4> QED BY <1>5, <3>1, <4>1
    <3>2. CASE x # s
      <4>1. x \in request /\ x # r /\ x.n # r.n
        BY <2>1, <2>2, <3>2 DEF SlotsApart
      <4>2. e \in net
        BY <2>2, <4>1
      <4> QED BY <2>1, <4>1, <4>2 DEF SlotsApart
    <3> QED BY <3>1, <3>2
  <2> QED BY <2>3, <2>4, <2>5 DEF SlotsApart, Envelope
<1>8. KeysFresh'
  BY <1>2, <1>5, <1>6 DEF AccountsInv, KeysFresh, Becomes, Saved
<1>9. Budget'
  BY <1>2, <1>5, <1>6, BudgetBecome DEF AccountsInv
<1>10. /\ started' \in Nat /\ started <= started' /\ started' <= MaxRequests
       /\ active' \subseteq Keys /\ asked' \subseteq Saved
  <2>1. started \in Nat /\ started <= MaxRequests /\ active \subseteq Keys
    BY BudgetTyped DEF AccountsInv, TypeOK
  <2> QED BY <1>2, <2>1, AskedSaved
<1>11. (\A t \in told' : ToldOK(t)) /\ (\A v \in reviewed' : ShownOK(v))
  BY <1>2, ToldNothing, ShownIsOK
<1>12. (\A x \in request' : RequestOK(x)) /\ (\A e \in net' : EnvelopeOK(e))
  BY <1>4, <1>5, <1>6 DEF AccountsInv, Becomes
<1> QED BY <1>2, <1>7, <1>8, <1>9, <1>10, <1>11, <1>12, Quiet

LEMMA InvokeKeeps ==
  ASSUME AccountsInv, NEW r \in request, invokeAs(r) PROVE AccountsInv'
<1> DEFINE s == [r EXCEPT !.at = "after"]
           Refused == r.key \notin active \/ (r.task = "send" /\ r.to = r.key) \/ Error(r) \notin {0, 2}
<1>1. r \in Requests /\ RequestOK(r) /\ r.at = "sign"
  BY RequestTyped DEF invokeAs
<1>2. UNCHANGED <<row, minted, registry, started, active, asked, told, reviewed>>
  BY DEF invokeAs, wallets, pages
<1>3. CASE Ends(r) /\ UNCHANGED net
  BY <1>2, <1>3, QuietEnds, ToldNothing DEF Standing
<1>4. CASE UNCHANGED net /\ Becomes(r, s) /\ r.task = "save"
  <2>1. RequestOK(s) /\ s.n = r.n /\ s.at = "after"
    <3>1. s \in Requests
      BY <1>1 DEF Requests, Places
    <3>2. r.who # Guest /\ row[r.who] # None
      BY <1>1, <1>4 DEF RequestOK, Wallet
    <3> QED BY <1>1, <1>4, <3>1, <3>2 DEF RequestOK, Requests
  <2>2. Becomes(r, s)
    BY <1>4
  <2> HIDE DEF s
  <2>3. UNCHANGED Standing /\ UNCHANGED <<active, told>> /\ asked' \subseteq Saved
    BY <1>2, <1>4, AskedSaved DEF Standing
  <2> QED BY <1>1, <2>1, <2>2, <2>3, QuietBecomes
<1>5. CASE net' = net \cup {Envelope(r)} /\ Becomes(r, [r EXCEPT !.at = "wait"])
  BY <1>5, SignKeeps
<1>6. \/ Ends(r) /\ UNCHANGED net
      \/ UNCHANGED net /\ Becomes(r, s) /\ r.task = "save"
      \/ net' = net \cup {Envelope(r)} /\ Becomes(r, [r EXCEPT !.at = "wait"])
  BY DEF invokeAs
<1> QED BY <1>3, <1>4, <1>5, <1>6

-----------------------------------------------------------------------------
(* The ledger includes an envelope.                                        *)

LEMMA ErrorType ==
  ASSUME NEW e
  PROVE  Error(e) \in 0 .. 3
BY DEF Error, RegisterError, RenameError

\* What including an envelope does to the registry: a free handle, or one the
\* account already holds, becomes the account's.
LEMMA RegistersHow ==
  ASSUME AccountsInv, NEW e \in net, Registers(e)
  PROVE  \/ UNCHANGED registry /\ (e.task = "send" \/ Error(e) # 0)
         \/ /\ e.name \in Names /\ e.key \in Keys /\ e.task # "send" /\ Error(e) = 0
            /\ Name[e.name] = None \/ Name[e.name] = e.key
            /\ Name' = [Name EXCEPT ![e.name] = e.key]
            /\ Owner' = [Owner EXCEPT ![e.key] = e.name]
<1>1. CASE e.task = "send" \/ Error(e) # 0
  BY <1>1 DEF Registers
<1>2. CASE ~(e.task = "send" \/ Error(e) # 0)
  <2>1. /\ e.name \in Names /\ e.key \in Keys /\ e.task \in Tasks /\ e.task # "prepare"
    BY DEF AccountsInv, EnvelopeOK
  <2>2. Name[e.name] = None \/ Name[e.name] = e.key
    <3>1. CASE e.task \in {"register", "save"}
      BY <1>2, <3>1 DEF Error, RegisterError, Taken
    <3>2. CASE e.task = "rename"
      <4>1. RenameError(e.key, e.name) = 0
        BY <1>2, <3>2 DEF Error
      <4>2. Owner[e.key] # None
        BY <2>1, <4>1, NoKeyIsNone DEF RenameError
      <4>3. CASE Owner[e.key] = e.name
        BY <2>1, <4>2, <4>3 DEF AccountsInv, TypeOK
      <4>4. CASE Owner[e.key] # e.name
        BY <4>1, <4>2, <4>4 DEF RenameError, Taken
      <4> QED BY <4>3, <4>4
    <3> QED BY <1>2, <2>1, <3>1, <3>2 DEF Tasks
  <2> QED BY <1>2, <2>1, <2>2 DEF Registers, Aliased
<1> QED BY <1>1, <1>2

LEMMA IncludeGrows ==
  ASSUME AccountsInv, NEW e \in net, Include(e)
  PROVE  Grows
<1>1. UNCHANGED <<row, minted>> /\ Registers(e) /\ minted \in Nat
  BY BudgetTyped DEF Include, wallets, AccountsInv
<1>2. \A h \in Names : Name[h] # None => Name'[h] = Name[h]
  BY <1>1, RegistersHow DEF AccountsInv, TypeOK, registry
<1> QED BY <1>1, <1>2 DEF Grows

LEMMA IncludeOwner ==
  ASSUME AccountsInv, NEW e \in net, Include(e)
  PROVE  /\ Name' \in [Names -> Keys \cup {None}] /\ Owner' \in [Keys -> Names \cup {None}]
         /\ \A k \in Keys : Owner'[k] # None => Name'[Owner'[k]] = k /\ k \in Saved \cup {Demo}
<1> USE NoKeyIsNone
<1>1. Registers(e) /\ TypeOK
  BY DEF Include, AccountsInv
<1>2. \A k \in Keys : Owner[k] # None => Name[Owner[k]] = k /\ k \in Saved \cup {Demo}
  BY DEF AccountsInv, TypeOK, OneWallet
<1>3. CASE UNCHANGED registry
  BY <1>1, <1>2, <1>3 DEF TypeOK, registry
<1>4. CASE ~ UNCHANGED registry
  <2>1. /\ e.name \in Names /\ e.key \in Keys
        /\ Name[e.name] = None \/ Name[e.name] = e.key
        /\ Name' = [Name EXCEPT ![e.name] = e.key]
        /\ Owner' = [Owner EXCEPT ![e.key] = e.name]
    BY <1>1, <1>4, RegistersHow
  <2>2. e.key \in Saved \cup {Demo}
    <3>1. e.who \in Callers /\ e.key = Wallet(e.who) /\ e.key # None
      BY <2>1 DEF AccountsInv, EnvelopeOK
    <3> QED BY <3>1 DEF Wallet, Saved, Callers
  <2>3. ASSUME NEW k \in Keys, Owner'[k] # None
        PROVE  Name'[Owner'[k]] = k /\ k \in Saved \cup {Demo}
    <3>1. CASE k = e.key
      BY <1>1, <2>1, <2>2, <3>1 DEF TypeOK
    <3>2. CASE k # e.key
      <4>1. Owner'[k] = Owner[k] /\ Owner[k] \in Names /\ Name[Owner[k]] = k /\ k \in Saved \cup {Demo}
        BY <1>1, <1>2, <2>1, <2>3, <3>2 DEF TypeOK
      <4>2. Owner[k] # e.name
        BY <2>1, <3>2, <4>1
      <4> QED BY <1>1, <2>1, <4>1, <4>2 DEF TypeOK
    <3> QED BY <3>1, <3>2
  <2> QED BY <1>1, <2>1, <2>3 DEF TypeOK
<1> QED BY <1>3, <1>4

Answered(r, e) == IF r.n = e.n THEN [r EXCEPT !.result = Error(e)] ELSE r

LEMMA AnsweredOK ==
  ASSUME AccountsInv, NEW e \in net, Include(e), NEW r \in request, NEW s, s = Answered(r, e)
  PROVE  /\ RequestOK(s)' /\ s.n = r.n /\ s.at = r.at /\ s.key = r.key
         /\ r.n # e.n => s = r
         /\ r.n = e.n => r.at = "wait"
<1> USE NoKeyIsNone
<1>1. r \in Requests /\ RequestOK(r) /\ Grows /\ TypeOK
  BY RequestTyped, IncludeGrows DEF AccountsInv
<1>2. RequestOK(r)'
  <2>1. UNCHANGED row
    BY DEF Include, wallets
  <2>2. r.at = "insert" => r.key \notin Saved'
    BY <1>1, <2>1 DEF RequestOK, Saved
  <2> QED BY <1>1, <2>2, RequestStays
<1>3. CASE r.n # e.n
  BY <1>2, <1>3 DEF Answered
<1>4. CASE r.n = e.n
  <2>0. s = [r EXCEPT !.result = Error(e)]
    BY <1>4 DEF Answered
  <2>1. r.at = "wait" /\ e = Envelope(r)
    BY <1>4 DEF AccountsInv, SlotsApart
  <2>2. e.task = r.task /\ e.name = r.name /\ e.key = r.key
    BY <2>1 DEF Envelope
  <2>3. Error(e) = 0 /\ r.task # "send" => Name'[r.name] = r.key
    <3> SUFFICES ASSUME Error(e) = 0, r.task # "send" PROVE Name'[r.name] = r.key
      OBVIOUS
    <3>1. Registers(e)
      BY DEF Include
    <3>2. /\ e.name \in Names /\ Name' = [Name EXCEPT ![e.name] = e.key]
      BY <2>2, <3>1, RegistersHow
    <3> QED BY <1>1, <2>2, <3>2 DEF TypeOK
  <2>4. s \in Requests
    BY <1>1, <2>0, ErrorType DEF Requests
  <2>6. /\ s.n = r.n /\ s.at = "wait" /\ s.key = r.key /\ s.who = r.who /\ s.task = r.task
        /\ s.name = r.name /\ s.to = r.to /\ s.result = Error(e)
    BY <1>1, <2>0, <2>1 DEF Requests
  <2>7. s.at = "wait" /\ s.result = 0 /\ s.task # "send" => Name'[s.name] = s.key
    BY <2>3, <2>6
  <2>8. s.task = "prepare" => s.who # Guest /\ s.at \notin {"resolve", "sign", "wait"}
    BY <1>1, <2>1, <2>6 DEF RequestOK
  <2>5. RequestOK(s)'
    BY <1>2, <2>1, <2>4, <2>6, <2>7, <2>8 DEF RequestOK
  <2> QED BY <1>4, <2>1, <2>5, <2>6
<1> QED BY <1>3, <1>4

\* Handles, recipients and wallets that stood before a step stand after it.
LEMMA HandlesStay ==
  ASSUME AccountsInv, Grows, UNCHANGED <<reviewed, told>>,
         \A e \in net' : EnvelopeOK(e)'
  PROVE  HandlesStand'
<1> USE NoKeyIsNone
<1>1. TypeOK /\ HandlesStand
  BY DEF AccountsInv
<1>2. \A v \in reviewed' : Name'[v.name] = v.to
  <2> SUFFICES ASSUME NEW v \in reviewed PROVE Name'[v.name] = v.to
    OBVIOUS
  <2>1. v.name \in Names /\ v.to \in Keys /\ Name[v.name] = v.to
    BY <1>1 DEF TypeOK, HandlesStand
  <2> QED BY <2>1 DEF Grows
<1>3. \A t \in told' : Name'[t.handle] # None /\ Name'[t.handle] = Wallet(t.who)'
  <2> SUFFICES ASSUME NEW t \in told
               PROVE  Name'[t.handle] # None /\ Name'[t.handle] = Wallet(t.who)'
    OBVIOUS
  <2>1. /\ t.who \in Callers /\ t.handle \in Names
        /\ Name[t.handle] # None /\ Name[t.handle] = Wallet(t.who)
    BY <1>1 DEF TypeOK, HandlesStand
  <2>2. Wallet(t.who)' = Wallet(t.who)
    BY <1>1, <2>1, WalletStays
  <2>3. Name'[t.handle] = Name[t.handle]
    BY <2>1 DEF Grows
  <2> QED BY <2>1, <2>2, <2>3
<1>4. \A e \in net' : e.task = "send" => Name'[e.name] = e.to
  BY DEF EnvelopeOK
<1> QED BY <1>2, <1>3, <1>4 DEF HandlesStand

LEMMA IncludeKeeps ==
  ASSUME AccountsInv, NEW d \in net, Include(d) PROVE AccountsInv'
<1>1. /\ UNCHANGED <<row, minted, asked, active, started, reviewed, told>>
      /\ net' = net \ {d}
      /\ request' = {Answered(r, d) : r \in request}
  BY DEF Include, wallets, pages, Answered
<1>2. Grows /\ TypeOK /\ OneWallet /\ SlotsApart /\ KeysFresh /\ Budget
  BY IncludeGrows DEF AccountsInv
<1>3. Saved' = Saved
  BY <1>1 DEF Saved
<1>4. \A e \in net' : EnvelopeOK(e)'
  BY <1>1, <1>2, EnvelopeStays DEF AccountsInv
<1>5. ASSUME NEW s \in request'
      PROVE  \E r \in request :
               /\ s = Answered(r, d) /\ RequestOK(s)' /\ s.n = r.n /\ s.at = r.at /\ s.key = r.key
               /\ r.n # d.n => s = r
               /\ r.n = d.n => r.at = "wait"
  BY <1>1, AnsweredOK
<1>6. TypeOK'
  <2>1. \A r \in request' : r.n \in Slots /\ r.who \in Callers /\ r.task \in Tasks /\ r.key \in Keys \cup {None}
    BY <1>5 DEF RequestOK, Requests
  <2>2. \A e \in net' : e.n \in Slots /\ e.who \in Callers /\ e.task \in Tasks /\ e.key \in Keys
    BY <1>4 DEF EnvelopeOK
  <2>3. /\ row' \in [Users -> Keys \cup {None}] /\ minted' \in 0 .. started'
        /\ asked' \subseteq Keys /\ active' \subseteq Keys /\ started' \in 0 .. MaxRequests
        /\ reviewed' \subseteq [name : Names, to : Keys] /\ told' \subseteq [who : Callers, handle : Names]
    BY <1>1, <1>2 DEF TypeOK
  <2> QED BY <2>1, <2>2, <2>3, IncludeOwner DEF TypeOK
<1>7. OneWallet'
  <2>1. \A u, v \in Users : row'[u] = row'[v] /\ row'[u] # None => u = v
    BY <1>1, <1>2 DEF OneWallet
  <2>2. Demo \notin Saved' /\ asked' \subseteq Saved'
    BY <1>1, <1>2, <1>3 DEF OneWallet
  <2>3. \A e \in net' : e.key = Wallet(e.who)'
    BY <1>4 DEF EnvelopeOK
  <2>4. \A k \in Keys : Owner'[k] # None => k \in Saved' \cup {Demo}
    BY <1>3, IncludeOwner
  <2> QED BY <2>1, <2>2, <2>3, <2>4 DEF OneWallet
<1>8. HandlesStand'
  BY <1>1, <1>2, <1>4, HandlesStay
<1>9. SlotsApart'
  <2>1. ASSUME NEW x \in request', NEW y \in request', x.n = y.n PROVE x = y
    <3>1. PICK r \in request : x = Answered(r, d) /\ x.n = r.n
      BY <1>5
    <3>2. PICK s \in request : y = Answered(s, d) /\ y.n = s.n
      BY <1>5
    <3>3. r = s
      BY <1>2, <2>1, <3>1, <3>2 DEF SlotsApart
    <3> QED BY <3>1, <3>2, <3>3
  <2>2. \A a, b \in net' : a.n = b.n => a = b
    BY <1>1, <1>2 DEF SlotsApart
  <2>3. ASSUME NEW x \in request', NEW e \in net', x.n = e.n
        PROVE  x.at = "wait" /\ x.result = None /\ e = Envelope(x)
    <3>1. PICK r \in request : x.n = r.n /\ (r.n # d.n => x = r)
      BY <1>5
    <3>2. e \in net /\ e.n # d.n
      BY <1>1, <1>2 DEF SlotsApart
    <3> QED BY <1>2, <2>3, <3>1, <3>2 DEF SlotsApart
  <2> QED BY <2>1, <2>2, <2>3 DEF SlotsApart, Envelope
<1>10. KeysFresh'
  <2>1. \A x \in request' : x.at = "insert" => x \in request
    BY <1>5
  <2> QED BY <1>1, <1>2, <1>3, <2>1 DEF KeysFresh
<1>11. Budget'
  <2>1. CASE \E r \in request : r.n = d.n
    <3>1. PICK r \in request : r.n = d.n
      BY <2>1
    <3>2. \A x \in request : x # r => x.n # d.n
      BY <1>2, <3>1 DEF SlotsApart
    <3> DEFINE s == Answered(r, d)
    <3>3. r.at = "wait" /\ s.at = "wait"
      BY <3>1, AnsweredOK
    <3>4. Becomes(r, s)
      BY <1>1, <3>2 DEF Becomes, Answered
    <3> HIDE DEF s
    <3> QED BY <1>1, <1>2, <3>3, <3>4, BudgetBecome
  <2>2. CASE \A r \in request : r.n # d.n
    <3>1. request' = request
      BY <1>1, <2>2 DEF Answered
    <3> QED BY <1>1, <1>2, <3>1, BudgetEnd
  <2> QED BY <2>1, <2>2
<1>12. \A r \in request' : RequestOK(r)'
  BY <1>5
<1> QED BY <1>4, <1>6, <1>7, <1>8, <1>9, <1>10, <1>11, <1>12 DEF AccountsInv

-----------------------------------------------------------------------------
(* A wallet is drawn and saved.                                            *)

LEMMA KeyRange == ASSUME NEW k PROVE k \in Keys <=> k \in Nat /\ k <= MaxRequests
BY AccountsAssumption DEF Keys, Demo

\* A request that may still draw a key pair leaves room for one.
LEMMA BudgetMint ==
  ASSUME Budget, TypeOK, NEW r \in MayMint, NEW s, Becomes(r, s),
         s.at \notin {"resolve", "select"}, minted' = minted + 1, UNCHANGED started
  PROVE  Budget' /\ minted' <= started /\ minted' \in Nat
<1>1. IsFiniteSet(request') /\ IsFiniteSet(MayMint)
  BY BecomesFinite, FS_Subset DEF Budget, MayMint
<1>2. /\ IsFiniteSet(MayMint \ {r})
      /\ Cardinality(MayMint \ {r}) = Cardinality(MayMint) - 1
  BY <1>1, FS_RemoveElement
<1>3. MayMint' \subseteq MayMint \ {r}
  BY DEF Becomes, MayMint
<1>4. IsFiniteSet(MayMint') /\ Cardinality(MayMint') <= Cardinality(MayMint \ {r})
  BY <1>2, <1>3, FS_Subset
<1>5. Cardinality(MayMint) \in Nat /\ Cardinality(MayMint') \in Nat
  BY <1>1, <1>4, FS_CardinalityType
<1>6. minted \in Nat /\ started \in Nat /\ minted + Cardinality(MayMint) <= started
  BY BudgetTyped DEF Budget
<1>7. minted' + Cardinality(MayMint') <= started' /\ minted' <= started /\ minted' \in Nat
  BY <1>2, <1>4, <1>5, <1>6
<1> QED BY <1>1, <1>7 DEF Budget

LEMMA MintKeeps ==
  ASSUME AccountsInv, NEW r \in request, selectWallet(r), row[r.who] = None
  PROVE  AccountsInv'
<1>0. PICK s : s = [r EXCEPT !.key = minted', !.at = "insert"]
  OBVIOUS
<1>1. r \in Requests /\ RequestOK(r) /\ r.at = "select" /\ r.who # Guest /\ r.who \in Users
  BY RequestTyped DEF selectWallet, Requests, Callers
<1>2. /\ minted' = minted + 1 /\ Becomes(r, s)
      /\ UNCHANGED <<row, asked, active, registry, Name, Owner, started, net, reviewed, told>>
  BY <1>0 DEF selectWallet, pages, registry
<1>3. TypeOK /\ OneWallet /\ HandlesStand /\ SlotsApart /\ KeysFresh /\ Budget
  BY DEF AccountsInv
<1>4. minted \in Nat /\ started \in Nat /\ MaxRequests \in Nat /\ started <= MaxRequests
  BY <1>3, BudgetTyped
<1>5. s.n = r.n /\ s.at = "insert" /\ s.key = minted' /\ s.who = r.who /\ s.task = r.task
      /\ s.name = r.name /\ s.to = r.to /\ s.result = r.result
  BY <1>0, <1>1 DEF Requests
<1>6. r \in MayMint
  BY <1>1 DEF MayMint
<1>7. Budget' /\ minted' <= started /\ minted' \in Nat
  <2>1. s.at \notin {"resolve", "select"}
    BY <1>5
  <2> QED BY <1>2, <1>3, <1>6, <2>1, BudgetMint
<1>8. minted' \in Keys /\ minted' \in 1 .. minted' /\ minted' \notin Saved
  <2>1. minted' \notin Saved
    BY <1>2, <1>3, <1>4 DEF KeysFresh
  <2>2. minted' <= MaxRequests
    BY <1>4, <1>7
  <2>3. minted' \in Keys
    BY <1>7, <2>2, KeyRange
  <2>4. minted' \in 1 .. minted'
    BY <1>2, <1>4, <1>7
  <2> QED BY <2>1, <2>3, <2>4
<1>9. Saved' = Saved /\ Grows
  BY <1>2, <1>3, <1>4, <1>7 DEF Saved, Grows
<1>10. s \in Requests
  BY <1>0, <1>1, <1>8 DEF Requests, Places
<1>11. RequestOK(s)'
  <2>1. s.task = "prepare" => s.who # Guest /\ s.at \notin {"resolve", "sign", "wait"}
    BY <1>1, <1>5
  <2>2. s.task # "save" /\ s.result = None /\ (s.task # "prepare" => s.name \in Names)
    BY <1>1, <1>5 DEF RequestOK
  <2>3. s.task = "send" => s.to \in Keys /\ Name'[s.name] = s.to
    BY <1>1, <1>2, <1>5 DEF RequestOK
  <2>4. s.key \in (1 .. minted') \ Saved'
    BY <1>5, <1>8, <1>9
  <2> QED BY <1>1, <1>5, <1>10, <2>1, <2>2, <2>3, <2>4 DEF RequestOK
<1>12. \A x \in request' : RequestOK(x)'
  <2>1. ASSUME NEW x \in request PROVE RequestOK(x)'
    BY <1>3, <1>9, RequestTyped, RequestStays DEF RequestOK
  <2> QED BY <1>2, <1>11, <2>1 DEF Becomes
<1>13. \A e \in net' : EnvelopeOK(e)'
  BY <1>2, <1>3, <1>9, EnvelopeStays DEF AccountsInv
<1>14. SlotsApart'
  BY <1>1, <1>2, <1>3, <1>5, NotWaiting, SlotsBecome
<1>15. KeysFresh'
  <2>1. ASSUME NEW x \in request, x.at = "insert" PROVE x.key # minted'
    <3>1. x.key \in 1 .. minted
      BY <2>1, RequestTyped DEF RequestOK
    <3> QED BY <1>2, <1>4, <3>1
  <2>2. Saved' \subseteq 1 .. minted'
    BY <1>2, <1>3, <1>4, <1>9 DEF KeysFresh
  <2> QED BY <1>2, <1>3, <1>5, <2>1, <2>2 DEF KeysFresh, Becomes
<1>16. HandlesStand'
  BY <1>2, <1>9, <1>13, HandlesStay
<1>17. OneWallet'
  BY <1>2, <1>3, <1>9 DEF OneWallet, Wallet
<1>18. TypeOK'
  <2>1. \A x \in request' : x.n \in Slots /\ x.who \in Callers /\ x.task \in Tasks /\ x.key \in Keys \cup {None}
    BY <1>12 DEF RequestOK, Requests
  <2>2. minted' \in 0 .. started'
    BY <1>2, <1>4, <1>7
  <2> QED BY <1>2, <1>3, <2>1, <2>2 DEF TypeOK
<1> QED BY <1>7, <1>12, <1>13, <1>14, <1>15, <1>16, <1>17, <1>18 DEF AccountsInv

LEMMA SelectKeeps ==
  ASSUME AccountsInv, NEW r \in request, selectWallet(r) PROVE AccountsInv'
<1>1. CASE row[r.who] = None
  BY <1>1, MintKeeps
<1>2. CASE row[r.who] # None
  <2> DEFINE s == [r EXCEPT !.key = row[r.who], !.at = "ensure"]
  <2>1. r \in Requests /\ RequestOK(r) /\ r.at = "select" /\ r.who # Guest /\ r.who \in Users
    BY RequestTyped DEF selectWallet, Requests, Callers
  <2>2. row[r.who] \in Keys /\ Wallet(r.who) = row[r.who]
    BY <1>2, <2>1, SavedWallet
  <2>3. RequestOK(s) /\ s.n = r.n /\ s.at = "ensure"
    <3>1. s \in Requests
      BY <2>1, <2>2 DEF Requests, Places
    <3> QED BY <1>2, <2>1, <2>2, <3>1, NoKeyIsNone DEF RequestOK, Requests
  <2>4. Becomes(r, s) /\ UNCHANGED Standing /\ UNCHANGED <<active, asked, told>>
    BY <1>2 DEF selectWallet, Standing, pages
  <2> HIDE DEF s
  <2> QED BY <2>1, <2>3, <2>4, QuietBecomes, AskedSaved
<1> QED BY <1>1, <1>2

LEMMA InsertKeeps ==
  ASSUME AccountsInv, NEW r \in request, insertWallet(r) PROVE AccountsInv'
<1> DEFINE s == [r EXCEPT !.at = "reread"]
<1>1. r \in Requests /\ RequestOK(r) /\ r.at = "insert" /\ r.who # Guest /\ r.who \in Users
  BY RequestTyped DEF insertWallet, Requests, Callers, RequestOK
<1>2. /\ row' = [row EXCEPT ![r.who] = IF row[r.who] = None THEN r.key ELSE row[r.who]]
      /\ Becomes(r, s) \/ Ends(r)
      /\ UNCHANGED <<minted, asked, active, Name, Owner, started, net, reviewed, told>>
  BY DEF insertWallet, Upsert, pages, registry
<1>3. TypeOK /\ OneWallet /\ HandlesStand /\ SlotsApart /\ KeysFresh /\ Budget
  BY DEF AccountsInv
<1>4. r.key \in 1 .. minted /\ r.key \notin Saved /\ r.key \in Keys /\ r.key # None /\ r.key # Demo
  <2>1. r.key \in (1 .. minted) \ Saved /\ minted \in Nat
    BY <1>1, <1>3, BudgetTyped DEF RequestOK
  <2>2. r.key # Demo
    BY <2>1 DEF Demo
  <2>3. r.key # None
    BY <2>1, AccountsAssumption
  <2> QED BY <1>1, <2>1, <2>2, <2>3 DEF Requests
<1>5. Grows /\ minted \in Nat
  BY <1>1, <1>2, <1>3, BudgetTyped DEF Grows, TypeOK
<1>6. row' \in [Users -> Keys \cup {None}] /\ row'[r.who] # None
  BY <1>1, <1>2, <1>3, <1>4 DEF TypeOK
<1>7. Saved \subseteq Saved' /\ Saved' \subseteq Saved \cup {r.key}
  <2>1. \A u \in Users : row[u] # None => row'[u] = row[u]
    BY <1>5 DEF Grows
  <2>2. \A u \in Users : row'[u] = row[u] \/ row'[u] = r.key
    BY <1>1, <1>2, <1>3 DEF TypeOK
  <2> QED BY <2>1, <2>2 DEF Saved
<1>8. s \in Requests /\ s.n = r.n /\ s.at = "reread" /\ s.who = r.who /\ s.task = r.task
      /\ s.name = r.name /\ s.to = r.to /\ s.result = r.result /\ s.key = r.key
  BY <1>1 DEF Requests, Places
<1>9. s.task # "save" /\ s.result = None
  BY <1>1, <1>8 DEF RequestOK
<1> HIDE DEF s
<1>10. RequestOK(s)'
  <2>1. s.task = "send" => s.to \in Keys /\ Name'[s.name] = s.to
    BY <1>1, <1>2, <1>8 DEF RequestOK
  <2>2. s.task # "prepare" => s.name \in Names
    BY <1>1, <1>8 DEF RequestOK
  <2>3. row'[s.who] # None
    BY <1>6, <1>8
  <2> QED BY <1>1, <1>8, <1>9, <2>1, <2>2, <2>3 DEF RequestOK
<1>11. ASSUME NEW x \in request, x # r PROVE RequestOK(x)'
  <2>1. x.at = "insert" => x.key \notin Saved'
    <3>1. x.at = "insert" => x.key \notin Saved /\ x.key # r.key
      BY <1>1, <1>3, <1>11, RequestTyped DEF RequestOK, KeysFresh
    <3> QED BY <1>7, <3>1
  <2> QED BY <1>3, <1>5, <2>1, RequestTyped, RequestStays
<1>12. \A x \in request' : x = s \/ (x \in request /\ x # r)
  BY <1>2 DEF Becomes, Ends
<1>13. \A x \in request' : RequestOK(x)'
  BY <1>10, <1>11, <1>12
<1>14. \A e \in net' : EnvelopeOK(e)'
  BY <1>2, <1>3, <1>5, EnvelopeStays DEF AccountsInv
<1>15. SlotsApart'
  <2>1. CASE Becomes(r, s)
    BY <1>1, <1>2, <1>3, <1>8, <2>1, NotWaiting, SlotsBecome
  <2>2. CASE Ends(r)
    BY <1>2, <1>3, <2>2, SlotsEnd DEF Ends
  <2> QED BY <1>2, <2>1, <2>2
<1>16. KeysFresh'
  <2>1. Saved' \subseteq 1 .. minted'
    BY <1>2, <1>3, <1>4, <1>7 DEF KeysFresh
  <2>2. \A x, y \in request' : x.at = "insert" /\ y.at = "insert" /\ x.key = y.key => x = y
    BY <1>3, <1>8, <1>12 DEF KeysFresh
  <2> QED BY <2>1, <2>2 DEF KeysFresh
<1>17. Budget'
  <2>1. CASE Becomes(r, s)
    BY <1>2, <1>3, <1>8, <2>1, BudgetBecome
  <2>2. CASE Ends(r)
    BY <1>2, <1>3, <2>2, BudgetEnd DEF Ends
  <2> QED BY <1>2, <2>1, <2>2
<1>18. HandlesStand'
  BY <1>2, <1>5, <1>14, HandlesStay
<1>19. OneWallet'
  <2>1. ASSUME NEW u \in Users, NEW v \in Users, row'[u] = row'[v], row'[u] # None PROVE u = v
    <3>1. ASSUME NEW w \in Users, w # r.who PROVE row'[w] = row[w]
      BY <1>2, <1>3, <3>1 DEF TypeOK
    <3>2. ASSUME NEW w \in Users PROVE row[w] # r.key
      BY <1>4 DEF Saved
    <3>3. row'[r.who] = r.key \/ row'[r.who] = row[r.who]
      BY <1>1, <1>2, <1>3 DEF TypeOK
    <3>4. \A a, b \in Users : row[a] = row[b] /\ row[a] # None => a = b
      BY <1>3 DEF OneWallet
    <3>5. CASE u = r.who /\ v # r.who
      BY <1>1, <2>1, <3>1, <3>2, <3>3, <3>4, <3>5
    <3>6. CASE v = r.who /\ u # r.who
      BY <1>1, <2>1, <3>1, <3>2, <3>3, <3>4, <3>6
    <3>7. CASE u # r.who /\ v # r.who
      BY <2>1, <3>1, <3>4, <3>7
    <3> QED BY <3>5, <3>6, <3>7
  <2>2. Demo \notin Saved' /\ asked' \subseteq Saved'
    BY <1>2, <1>3, <1>4, <1>7 DEF OneWallet
  <2>3. \A e \in net' : e.key = Wallet(e.who)'
    BY <1>14 DEF EnvelopeOK
  <2>4. \A k \in Keys : Owner'[k] # None => k \in Saved' \cup {Demo}
    BY <1>2, <1>3, <1>7 DEF OneWallet
  <2> QED BY <2>1, <2>2, <2>3, <2>4 DEF OneWallet
<1>20. TypeOK'
  <2>1. \A x \in request' : x.n \in Slots /\ x.who \in Callers /\ x.task \in Tasks /\ x.key \in Keys \cup {None}
    BY <1>13 DEF RequestOK, Requests
  <2> QED BY <1>2, <1>3, <1>6, <2>1 DEF TypeOK
<1> QED BY <1>13, <1>14, <1>15, <1>16, <1>17, <1>18, <1>19, <1>20 DEF AccountsInv

-----------------------------------------------------------------------------
(* A request starts.                                                       *)

LEMMA StartKeeps ==
  ASSUME AccountsInv, NEW who \in Callers, NEW task \in Tasks, NEW h, NEW to,
         Start(who, task, h, to),
         h \in Names \cup {None}, to \in Keys \cup Users \cup {None},
         task = "prepare" => who # Guest,
         task # "prepare" => h \in Names,
         task = "send" => to \in Keys /\ Name[h] = to
  PROVE  AccountsInv'
<1>1. PICK n \in Slots :
        /\ ~Busy(n)
        /\ request' = request \cup
             {[n |-> n, who |-> who, task |-> task, name |-> h, to |-> to, key |-> None, result |-> None,
               at |-> CASE task = "send" -> "resolve" [] task = "save" -> "before" [] OTHER -> "select"]}
  BY DEF Start
<1>2. PICK at : at = CASE task = "send" -> "resolve" [] task = "save" -> "before" [] OTHER -> "select"
  OBVIOUS
<1>3. PICK s : s = [n |-> n, who |-> who, task |-> task, name |-> h, to |-> to, key |-> None,
                    result |-> None, at |-> at]
  OBVIOUS
<1>4. request' = request \cup {s}
  BY <1>1, <1>2, <1>3
<1>5. UNCHANGED <<row, minted, registry, asked, active, net, reviewed, told>> /\ started' = started + 1
      /\ started < MaxRequests
  BY DEF Start, wallets, pages
<1>6. TypeOK /\ SlotsApart /\ KeysFresh /\ Budget
  BY DEF AccountsInv
<1>7. minted \in Nat /\ started \in Nat /\ MaxRequests \in Nat /\ minted <= started
  BY <1>6, BudgetTyped
<1>8. /\ at \in {"resolve", "before", "select"}
      /\ at = "resolve" <=> task = "send"
      /\ at = "before" <=> task = "save"
  BY <1>2
<1>9. RequestOK(s)
  <2>1. s \in Requests
    BY <1>3, <1>8 DEF Requests, Places
  <2>2. /\ s.who = who /\ s.task = task /\ s.name = h /\ s.to = to /\ s.result = None /\ s.at = at
    BY <1>3
  <2> QED BY <1>8, <2>1, <2>2 DEF RequestOK
<1>10. s.n = n /\ s.at \in {"resolve", "before", "select"} /\ s.result = None
  BY <1>3, <1>8
<1>11. (\A x \in request : x.n # n) /\ (\A e \in net : e.n # n)
  BY <1>1 DEF Busy
<1>12. SlotsApart'
  BY <1>4, <1>5, <1>6, <1>10, <1>11 DEF SlotsApart, Envelope
<1>13. KeysFresh'
  BY <1>4, <1>5, <1>6, <1>10 DEF KeysFresh, Saved
<1>14. Budget'
  <2>1. IsFiniteSet(request') /\ IsFiniteSet(MayMint)
    BY <1>4, <1>6, FS_AddElement, FS_Subset DEF Budget, MayMint
  <2>2. MayMint' \subseteq MayMint \cup {s}
    BY <1>4 DEF MayMint
  <2>3. /\ IsFiniteSet(MayMint \cup {s})
        /\ Cardinality(MayMint \cup {s}) = Cardinality(MayMint)
           \/ Cardinality(MayMint \cup {s}) = Cardinality(MayMint) + 1
    BY <2>1, FS_AddElement
  <2>4. IsFiniteSet(MayMint') /\ Cardinality(MayMint') <= Cardinality(MayMint \cup {s})
    BY <2>2, <2>3, FS_Subset
  <2>5. Cardinality(MayMint) \in Nat /\ Cardinality(MayMint') \in Nat
    BY <2>1, <2>4, FS_CardinalityType
  <2>6. minted + Cardinality(MayMint) <= started
    BY <1>6 DEF Budget
  <2>7. minted' + Cardinality(MayMint') <= started'
    BY <1>5, <1>7, <2>3, <2>4, <2>5, <2>6
  <2> QED BY <2>1, <2>7 DEF Budget
<1>15. /\ started' \in Nat /\ started <= started' /\ started' <= MaxRequests
  BY <1>5, <1>7
<1>16. active' \subseteq Keys /\ asked' \subseteq Saved
  BY <1>5, <1>6, AskedSaved DEF TypeOK
<1>17. (\A t \in told' : ToldOK(t)) /\ (\A v \in reviewed' : ShownOK(v))
  BY <1>5, ToldNothing, ShownIsOK
<1>18. (\A x \in request' : RequestOK(x)) /\ (\A e \in net' : EnvelopeOK(e))
  BY <1>4, <1>5, <1>9 DEF AccountsInv
<1> QED BY <1>5, <1>12, <1>13, <1>14, <1>15, <1>16, <1>17, <1>18, Quiet

-----------------------------------------------------------------------------
(* Every step, and the theorems.                                           *)

LEMMA StartsKeep ==
  ASSUME AccountsInv,
         \/ \E u \in Users : prepareAuthenticatedWallet(u)
         \/ \E who \in Callers, h \in Names :
              \/ registerUsername(who, h) \/ renameUsername(who, h)
              \/ \E expected \in Users : saveOnboardingUsername(who, expected, h)
         \/ \E who \in Callers, v \in reviewed : sendByUsername(who, v)
  PROVE  AccountsInv'
<1> USE DEF Tasks
<1>1. CASE \E u \in Users : prepareAuthenticatedWallet(u)
  BY <1>1, StartKeeps, AccountsAssumption DEF prepareAuthenticatedWallet, Callers
<1>2. CASE \E who \in Callers, h \in Names : registerUsername(who, h)
  BY <1>2, StartKeeps DEF registerUsername
<1>3. CASE \E who \in Callers, h \in Names : renameUsername(who, h)
  BY <1>3, StartKeeps DEF renameUsername
<1>4. CASE \E who \in Callers, h \in Names, expected \in Users : saveOnboardingUsername(who, expected, h)
  BY <1>4, StartKeeps DEF saveOnboardingUsername
<1>5. CASE \E who \in Callers, v \in reviewed : sendByUsername(who, v)
  <2>1. PICK who \in Callers, v \in reviewed : Start(who, "send", v.name, v.to)
    BY <1>5 DEF sendByUsername
  <2>2. v.name \in Names /\ v.to \in Keys /\ Name[v.name] = v.to
    BY ShownIsOK DEF ShownOK
  <2> QED BY <2>1, <2>2, StartKeeps
<1> QED BY <1>1, <1>2, <1>3, <1>4, <1>5

LEMMA AccountsStep == AccountsInv /\ [Next]_vars => AccountsInv'
<1> SUFFICES ASSUME AccountsInv, [Next]_vars PROVE AccountsInv'
  OBVIOUS
<1>1. CASE UNCHANGED vars
  <2>1. UNCHANGED Standing /\ UNCHANGED <<request, asked, active, told>>
    BY <1>1 DEF vars, wallets, registry, pages, Standing
  <2>2. SlotsApart' /\ KeysFresh' /\ Budget'
    BY <2>1, SlotsEnd, FreshEnd, BudgetEnd DEF AccountsInv, Standing
  <2>3. active' \subseteq Keys /\ asked' \subseteq Saved
    BY <2>1, AskedSaved DEF AccountsInv, TypeOK
  <2> QED BY <2>1, <2>2, <2>3, StandingQuiet, ToldNothing, Quiet DEF AccountsInv
<1>2. CASE \E h \in Names : lookupRecipient(h)
  BY <1>2, LookupKeeps
<1>3. CASE \/ \E u \in Users : prepareAuthenticatedWallet(u)
           \/ \E who \in Callers, h \in Names :
                \/ registerUsername(who, h) \/ renameUsername(who, h)
                \/ \E expected \in Users : saveOnboardingUsername(who, expected, h)
           \/ \E who \in Callers, v \in reviewed : sendByUsername(who, v)
  BY <1>3, StartsKeep
<1>4. ASSUME NEW r \in request,
             \/ Fails(r) \/ walletOwner(r) \/ selectWallet(r) \/ insertWallet(r) \/ rereadWallet(r)
             \/ ensureTestnetAccount(r) \/ confirmTestnetAccount(r) \/ resolveAgain(r) \/ invokeAs(r)
             \/ Confirmed(r) \/ Unconfirmed(r) \/ readBefore(r) \/ getAuthenticatedSigner(r) \/ readAfter(r)
      PROVE  AccountsInv'
  BY <1>4, FailsKeeps, WalletOwnerKeeps, SelectKeeps, InsertKeeps, RereadKeeps, EnsureKeeps, ConfirmKeeps,
     ResolveKeeps, InvokeKeeps, ConfirmedKeeps, UnconfirmedKeeps, ReadBeforeKeeps, SignerKeeps, ReadAfterKeeps
<1>5. ASSUME NEW k \in Keys, Friendbot(k) PROVE AccountsInv'
  BY <1>5, FriendbotKeeps
<1>6. ASSUME NEW e \in net, Include(e) \/ Drop(e) PROVE AccountsInv'
  BY <1>6, IncludeKeeps, DropKeeps
<1> QED BY <1>1, <1>2, <1>3, <1>4, <1>5, <1>6 DEF Next

LEMMA AccountsInvHolds == Spec => []AccountsInv
BY AccountsInit, AccountsStep, PTL DEF Spec

\* The wallet table, the registry and the requests keep their shape, and the
\* handle an account shows resolves to that account (TypeOK).
THEOREM AccountsTyped == Spec => []TypeOK
<1>1. AccountsInv => TypeOK
  BY DEF AccountsInv
<1> QED BY <1>1, AccountsInvHolds, PTL

\* However first sign-ins race, fail or lose their answers, a user has one
\* wallet for good; nothing else is funded, signs or is registered for them.
THEOREM OneWalletForGood == Spec => []OneWallet
<1>1. AccountsInv => OneWallet
  BY DEF AccountsInv
<1> QED BY <1>1, AccountsInvHolds, PTL

\* A handle stays with its account: what a page was shown or told stands
\* through every later registration and rename.
THEOREM HandlesStandForGood == Spec => []HandlesStand
<1>1. AccountsInv => HandlesStand
  BY DEF AccountsInv
<1> QED BY <1>1, AccountsInvHolds, PTL
=============================================================================
