---------------------------- MODULE ConsentedMail ----------------------------
(***************************************************************************)
(* What subscribers are promised about campaign update e-mails, whatever   *)
(* machinery sends them.  An update is owed to those subscribed when it is *)
(* published.  A mail is taken up, and its sending started, only while its *)
(* recipient is subscribed; it is sent at most once; and what was owed     *)
(* when a recipient unsubscribed is never taken up again, even under a new *)
(* subscription.                                                           *)
(***************************************************************************)
EXTENDS Integers

CONSTANTS People, Updates

Mails == Updates \X People

VARIABLES
  subscribed, \* people whose subscription is active
  published,  \* updates
  owed,       \* mails that may still be taken up
  taken,      \* mails taken up, with the recipient's consent yet to confirm
  started,    \* mails whose sending has started
  sent        \* how often each mail was sent

vars == <<subscribed, published, owed, taken, started, sent>>

Init ==
  /\ subscribed = {} /\ published = {}
  /\ owed = {} /\ taken = {} /\ started = {}
  /\ sent = [m \in Mails |-> 0]

Subscribe(u) ==
  /\ subscribed' = subscribed \cup {u}
  /\ UNCHANGED <<published, owed, taken, started, sent>>

Unsubscribe(u) ==
  /\ subscribed' = subscribed \ {u}
  /\ owed' = {m \in owed : m[2] # u}
  /\ UNCHANGED <<published, taken, started, sent>>

Publish(id) ==
  /\ id \notin published
  /\ published' = published \cup {id}
  /\ owed' = owed \cup {<<id, u>> : u \in subscribed}
  /\ UNCHANGED <<subscribed, taken, started, sent>>

Take(m) == m \in owed /\ m[2] \in subscribed
Start(m) == m \in taken /\ m[2] \in subscribed
Send(m) == m \in started /\ sent[m] = 0

\* A step of the machinery: it takes up, starts and sends what it may, and
\* drops what it likes.
Work ==
  /\ owed' \subseteq owed
  /\ \A m \in taken' : m \in taken \/ Take(m)
  /\ \A m \in started' : m \in started \/ Start(m)
  /\ \A m \in Mails : sent'[m] # sent[m] => Send(m) /\ sent'[m] = 1
  /\ UNCHANGED <<subscribed, published>>

Next ==
  \/ \E u \in People : Subscribe(u) \/ Unsubscribe(u)
  \/ \E id \in Updates : Publish(id)
  \/ Work

Spec == Init /\ [][Next]_vars
=============================================================================
