------------------------------ MODULE Accounts ------------------------------
(***************************************************************************)
(* Who an account is: the custodial wallet of a user (userWallet.ts,       *)
(* walletReadiness.ts), the handle it registers (username-registry,        *)
(* usernameOnboarding.ts) and the payments sent to a handle                *)
(* (sendByUsername).  Server actions of several devices run at once, and   *)
(* each waits for the database, Horizon, Friendbot and the ledger in turn; *)
(* any of those may fail or answer late.                                   *)
(*                                                                         *)
(* Abstracted: a key pair is a number, drawn fresh; a session stays what   *)
(* it is while a request runs, or fails to be read; amounts and sequence   *)
(* numbers do not matter here.                                             *)
(***************************************************************************)
EXTENDS Integers, FiniteSets

CONSTANTS Users,        \* signed-in users
          Guest,        \* a visitor without a session
          Names,        \* handles
          None,
          MaxRequests,  \* bound: requests started
          MaxParallel   \* bound: requests, and envelopes left behind, at once

ASSUME AccountsAssumption ==
  /\ Guest \notin Users /\ None \notin Names \cup Nat
  /\ MaxRequests \in Nat /\ MaxParallel \in Nat \ {0}

VARIABLES
  row,       \* wallets: user -> public key, or None
  minted,    \* key pairs drawn so far
  asked,     \* keys Friendbot was asked to fund
  active,    \* accounts that exist on Testnet
  Name,      \* DataKey::Name: handle -> key, or None
  Owner,     \* DataKey::Owner: key -> handle, or None
  started,   \* number of requests started
  request,   \* server actions under way
  net,       \* signed envelopes the ledger may still include
  reviewed,  \* [name, to]: recipients a page has shown
  told       \* [who, handle]: handles a page was told are the user's
wallets  == <<row, minted, asked, active>>
registry == <<Name, Owner>>
pages    == <<reviewed, told>>
vars == <<wallets, registry, started, request, net, pages>>

Callers == Users \cup {Guest}
Demo == 0
Keys == Demo .. MaxRequests
Slots == 1 .. MaxParallel
Tasks == {"prepare", "register", "rename", "send", "save"}

Init ==
  /\ row = [u \in Users |-> None] /\ minted = 0
  /\ asked = {} /\ active = {Demo}
  /\ Name = [h \in Names |-> None] /\ Owner = [k \in Keys |-> None]
  /\ started = 0 /\ request = {} /\ net = {}
  /\ reviewed = {} /\ told = {}

----------------------------------------------------------------------------
(* Requests. *)

Busy(n) == \E x \in request \cup net : x.n = n
Becomes(r, s) == request' = (request \ {r}) \cup {s}
Ends(r) == request' = request \ {r}
Tell(who, h) == told' = told \cup {[who |-> who, handle |-> h]}

\* A page shows who a name belongs to.  (It refuses the viewer's own address;
\* here invokeAs does, for every payment.)
lookupRecipient(h) ==
  /\ Name[h] # None
  /\ reviewed' = reviewed \cup {[name |-> h, to |-> Name[h]]}
  /\ UNCHANGED <<wallets, registry, started, request, net, told>>

Start(who, task, h, to) ==
  /\ started < MaxRequests
  /\ \E n \in Slots :
       /\ ~Busy(n) /\ \A m \in Slots : m < n => Busy(m)
       /\ request' = request \cup
            {[n |-> n, who |-> who, task |-> task, name |-> h, to |-> to, key |-> None, result |-> None,
              at |-> CASE task = "send" -> "resolve" [] task = "save" -> "before" [] OTHER -> "select"]}
  /\ started' = started + 1
  /\ UNCHANGED <<wallets, registry, net, pages>>

\* Refused to guests.
prepareAuthenticatedWallet(u) == Start(u, "prepare", None, None)
registerUsername(who, h) == Start(who, "register", h, None)
renameUsername(who, h)   == Start(who, "rename", h, None)
sendByUsername(who, v)   == Start(who, "send", v.name, v.to)

\* The request's session need not be the account the page was opened for.
saveOnboardingUsername(who, expected, h) == Start(who, "save", h, expected)

\* A read or a write fails, or the connection to the caller does; nothing has
\* been signed.
Fails(r) ==
  /\ r.at # "wait" /\ Ends(r)
  /\ UNCHANGED <<wallets, registry, started, net, pages>>

----------------------------------------------------------------------------
(* resolveReadySigner: the saved wallet, or a new one, ready on Testnet.   *)

walletOwner(r) ==
  /\ r.at = "select" /\ r.who = Guest
  /\ Becomes(r, [r EXCEPT !.key = Demo, !.at = "sign"])
  /\ UNCHANGED <<wallets, registry, started, net, pages>>

selectWallet(r) ==
  /\ r.at = "select" /\ r.who # Guest
  /\ IF row[r.who] # None
     THEN /\ Becomes(r, [r EXCEPT !.key = row[r.who], !.at = "ensure"])
          /\ UNCHANGED minted
     ELSE /\ minted' = minted + 1
          /\ Becomes(r, [r EXCEPT !.key = minted', !.at = "insert"])
  /\ UNCHANGED <<row, asked, active, registry, started, net, pages>>

\* Faulty variant: the last writer wins.
Upsert_Replaces(saved, key) == key
\* upsert with ignoreDuplicates: the loser of the race changes nothing.
Upsert(saved, key) == IF saved = None THEN key ELSE saved
insertWallet(r) ==
  /\ r.at = "insert"
  /\ row' = [row EXCEPT ![r.who] = Upsert(@, r.key)]
  /\ \/ Becomes(r, [r EXCEPT !.at = "reread"])
     \/ Ends(r)  \* stored, but the answer is lost
  /\ UNCHANGED <<minted, asked, active, registry, started, net, pages>>

rereadWallet(r) ==
  /\ r.at = "reread"
  /\ Becomes(r, [r EXCEPT !.key = row[r.who], !.at = "ensure"])
  /\ UNCHANGED <<wallets, registry, started, net, pages>>

Ready(r) == IF r.task = "prepare" THEN Ends(r) ELSE Becomes(r, [r EXCEPT !.at = "sign"])

\* ensureTestnetAccount: Horizon, Friendbot when the account is missing, and
\* Horizon again, whatever Friendbot answered.
ensureTestnetAccount(r) ==
  /\ r.at = "ensure"
  /\ IF r.key \in active
     THEN Ready(r) /\ UNCHANGED asked
     ELSE asked' = asked \cup {r.key} /\ Becomes(r, [r EXCEPT !.at = "confirm"])
  /\ UNCHANGED <<row, minted, active, registry, started, net, pages>>

confirmTestnetAccount(r) ==
  /\ r.at = "confirm"
  /\ IF r.key \in active THEN Ready(r) ELSE Ends(r)
  /\ UNCHANGED <<wallets, registry, started, net, pages>>

Friendbot(k) ==
  /\ k \in asked \ active
  /\ active' = active \cup {k}
  /\ UNCHANGED <<row, minted, asked, registry, started, request, net, pages>>

----------------------------------------------------------------------------
(* The registry and the token, as an envelope finds them.                  *)

\* Faulty variant: only the account is checked.
Taken_Never(h) == FALSE
Taken(h) == Name[h] # None

\* What register and rename answer, 0 for success.
RegisterError(k, h) == IF Taken(h) THEN 1 ELSE IF Owner[k] # None THEN 2 ELSE 0
RenameError(k, h) ==
  CASE Owner[k] = None -> 3
    [] Owner[k] = h    -> 0
    [] OTHER           -> IF Taken(h) THEN 1 ELSE 0
Error(e) == CASE e.task \in {"register", "save"} -> RegisterError(e.key, e.name)
              [] e.task = "rename"              -> RenameError(e.key, e.name)
              [] OTHER                          -> 0

\* The old handle stays an alias of the account.
Aliased(k, h) == [Name EXCEPT ![h] = k]

Registers(e) ==
  IF e.task = "send" \/ Error(e) # 0
  THEN UNCHANGED registry
  ELSE Name' = Aliased(e.key, e.name) /\ Owner' = [Owner EXCEPT ![e.key] = e.name]

----------------------------------------------------------------------------
(* Signing: invokeAs and its callers.                                      *)

\* sendByUsername resolves the name once more and compares.
resolveAgain(r) ==
  /\ r.at = "resolve"
  /\ IF Name[r.name] = r.to THEN Becomes(r, [r EXCEPT !.at = "select"]) ELSE Ends(r)
  /\ UNCHANGED <<wallets, registry, started, net, pages>>

Envelope(r) == [n |-> r.n, who |-> r.who, task |-> r.task, name |-> r.name, to |-> r.to, key |-> r.key]

\* The simulation refuses what the contract would; otherwise the envelope is
\* signed and sent.  Nobody pays themselves.
invokeAs(r) ==
  /\ r.at = "sign"
  /\ IF r.key \notin active \/ (r.task = "send" /\ r.to = r.key) \/ Error(r) \notin {0, 2}
     THEN Ends(r) /\ UNCHANGED net
     ELSE IF Error(r) = 2
     THEN /\ IF r.task = "save" THEN Becomes(r, [r EXCEPT !.at = "after"]) ELSE Ends(r)
          /\ UNCHANGED net
     ELSE /\ net' = net \cup {Envelope(r)}
          /\ Becomes(r, [r EXCEPT !.at = "wait"])
  /\ UNCHANGED <<wallets, registry, started, pages>>

\* The ledger includes an envelope, whether or not its request still waits.
Include(e) ==
  /\ Registers(e)
  /\ net' = net \ {e}
  /\ request' = {IF r.n = e.n THEN [r EXCEPT !.result = Error(e)] ELSE r : r \in request}
  /\ UNCHANGED <<wallets, started, pages>>
Drop(e) ==
  /\ net' = net \ {e}
  /\ UNCHANGED <<wallets, registry, started, request, pages>>

\* The answer of a confirmed envelope.  A save reads the handle back.
Confirmed(r) ==
  /\ r.at = "wait" /\ r.result # None
  /\ IF r.result = 0 /\ r.task = "save"
     THEN Becomes(r, [r EXCEPT !.at = "after"]) /\ UNCHANGED told
     ELSE /\ Ends(r)
          /\ IF r.result = 0 /\ r.task \in {"register", "rename"}
             THEN Tell(r.who, r.name) ELSE UNCHANGED told
  /\ UNCHANGED <<wallets, registry, started, net, reviewed>>

\* Pending: nobody knows yet whether the envelope lands.
Unconfirmed(r) ==
  /\ r.at = "wait" /\ r.result = None
  /\ Ends(r)
  /\ UNCHANGED <<wallets, registry, started, net, pages>>

----------------------------------------------------------------------------
(* saveOnboardingUsername, around the envelope.                            *)

Handle(u) == IF row[u] = None THEN None ELSE Owner[row[u]]

\* readUsernameStatus, before: ready, required, or a reason to stop.
readBefore(r) ==
  /\ r.at = "before"
  /\ LET mine == r.who = r.to /\ r.who # Guest IN
     IF mine /\ row[r.who] # None /\ Handle(r.who) = None
     THEN Becomes(r, [r EXCEPT !.key = row[r.who], !.at = "signer"]) /\ UNCHANGED told
     ELSE /\ Ends(r)
          /\ IF mine /\ Handle(r.who) # None THEN Tell(r.who, Handle(r.who)) ELSE UNCHANGED told
  /\ UNCHANGED <<wallets, registry, started, net, reviewed>>

getAuthenticatedSigner(r) ==
  /\ r.at = "signer"
  /\ IF row[r.who] = r.key THEN Becomes(r, [r EXCEPT !.at = "sign"]) ELSE Ends(r)
  /\ UNCHANGED <<wallets, registry, started, net, pages>>

\* Faulty variant: the submitted name is taken for the registered one.
Completed_Submitted(r) == r.name
Completed(r) == Handle(r.who)
readAfter(r) ==
  /\ r.at = "after"
  /\ Ends(r)
  /\ IF Completed(r) # None THEN Tell(r.who, Completed(r)) ELSE UNCHANGED told
  /\ UNCHANGED <<wallets, registry, started, net, reviewed>>

----------------------------------------------------------------------------
Next ==
  \/ \E h \in Names : lookupRecipient(h)
  \/ \E u \in Users : prepareAuthenticatedWallet(u)
  \/ \E who \in Callers, h \in Names :
       \/ registerUsername(who, h) \/ renameUsername(who, h)
       \/ \E expected \in Users : saveOnboardingUsername(who, expected, h)
  \/ \E who \in Callers, v \in reviewed : sendByUsername(who, v)
  \/ \E r \in request :
       \/ Fails(r) \/ walletOwner(r) \/ selectWallet(r) \/ insertWallet(r) \/ rereadWallet(r)
       \/ ensureTestnetAccount(r) \/ confirmTestnetAccount(r) \/ resolveAgain(r) \/ invokeAs(r)
       \/ Confirmed(r) \/ Unconfirmed(r) \/ readBefore(r) \/ getAuthenticatedSigner(r) \/ readAfter(r)
  \/ \E k \in Keys : Friendbot(k)
  \/ \E e \in net : Include(e) \/ Drop(e)
Spec == Init /\ [][Next]_vars

----------------------------------------------------------------------------
(* Properties. *)

Wallet(who) == IF who = Guest THEN Demo ELSE row[who]
Saved == {row[u] : u \in Users} \ {None}

\* Also: the handle an account shows resolves to it.
TypeOK ==
  /\ row \in [Users -> Keys \cup {None}] /\ minted \in 0 .. started
  /\ asked \subseteq Keys /\ active \subseteq Keys /\ started \in 0 .. MaxRequests
  /\ Name \in [Names -> Keys \cup {None}] /\ Owner \in [Keys -> Names \cup {None}]
  /\ \A k \in Keys : Owner[k] # None => Name[Owner[k]] = k
  /\ \A r \in request : r.n \in Slots /\ r.who \in Callers /\ r.task \in Tasks /\ r.key \in Keys \cup {None}
  /\ \A e \in net : e.n \in Slots /\ e.who \in Callers /\ e.task \in Tasks /\ e.key \in Keys
  /\ reviewed \subseteq [name : Names, to : Keys] /\ told \subseteq [who : Callers, handle : Names]

\* A user has one wallet for good: however many first sign-ins race, fail or
\* lose their answers, no other key is ever funded, registered or used to
\* sign for the user, and a signed-in user never signs as the guest ("never
\* an orphan", "must NOT silently downgrade", userWallet.ts).
OneWallet ==
  /\ \A u, v \in Users : row[u] = row[v] /\ row[u] # None => u = v
  /\ Demo \notin Saved /\ asked \subseteq Saved
  /\ \A e \in net : e.key = Wallet(e.who)
  /\ \A k \in Keys : Owner[k] # None => k \in Saved \cup {Demo}

\* A handle stays with its account: a recipient that a page has shown, the
\* recipient of a payment under way, and a handle a user was told to have
\* registered are what the registry says, through every later registration
\* and rename ("money addressed to the old handle is never misrouted").
HandlesStand ==
  /\ \A v \in reviewed : Name[v.name] = v.to
  /\ \A e \in net : e.task = "send" => Name[e.name] = e.to
  /\ \A t \in told : Name[t.handle] # None /\ Name[t.handle] = Wallet(t.who)
=============================================================================
