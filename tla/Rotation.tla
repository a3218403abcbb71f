------------------------------- MODULE Rotation -------------------------------
(***************************************************************************)
(* What an arisan room promises its members: everybody puts in the same    *)
(* before the first turn, each has one turn, which pays back what it is    *)
(* owed, and a circle that ends early pays everyone back.  Each circle     *)
(* does so with its own money only.                                        *)
(***************************************************************************)
EXTENDS Integers

CONSTANTS Circles, Members, Wealth

VARIABLES
  phase,  \* circle -> "Open", "Active", "Done" or "Dissolved"
  seated, \* circle -> its members
  served, \* circle -> those of them who had their turn
  owed,   \* circle -> member -> what the circle owes it
  purse   \* member -> its own tokens

vars == <<phase, seated, served, owed, purse>>

Init ==
  /\ phase = [c \in Circles |-> "Open"]
  /\ seated = [c \in Circles |-> {}] /\ served = [c \in Circles |-> {}]
  /\ owed = [c \in Circles |-> [m \in Members |-> 0]]
  /\ purse = [m \in Members |-> Wealth]

\* Circle c moves on, and every other circle stays as it is.
Becomes(c, p, roster, turns) ==
  /\ phase'[c] = p /\ seated'[c] = roster /\ served'[c] = turns
  /\ \A d \in Circles \ {c} :
       /\ phase'[d] = phase[d] /\ seated'[d] = seated[d] /\ served'[d] = served[d]
       /\ \A m \in Members : owed'[d][m] = owed[d][m]

\* What m pays is what it is owed more.
PaysIn(c, m) ==
  /\ owed'[c][m] >= owed[c][m] /\ purse'[m] + owed'[c][m] = purse[m] + owed[c][m]
  /\ \A a \in Members \ {m} : owed'[c][a] = owed[c][a] /\ purse'[a] = purse[a]

\* The members of S get exactly what they are owed.
PaysBack(c, S) ==
  /\ \A a \in S : owed'[c][a] = 0 /\ purse'[a] = purse[a] + owed[c][a]
  /\ \A a \in Members \ S : owed'[c][a] = owed[c][a] /\ purse'[a] = purse[a]

\* Take a seat, or pay more for it.
Prefund(c, m) ==
  /\ phase[c] = "Open"
  /\ Becomes(c, "Open", seated[c] \cup {m}, served[c])
  /\ PaysIn(c, m)

Leave(c, m) ==
  /\ phase[c] = "Open" /\ m \in seated[c]
  /\ Becomes(c, "Open", seated[c] \ {m}, served[c])
  /\ PaysBack(c, {m})

Close(c) ==
  /\ phase[c] = "Open" /\ served[c] = {}
  /\ \A m, n \in seated[c] : owed[c][m] = owed[c][n]
  /\ Becomes(c, "Active", seated[c], {})
  /\ PaysBack(c, {})

Turn(c, m) ==
  /\ phase[c] = "Active" /\ m \in seated[c] \ served[c]
  /\ Becomes(c, IF served[c] \cup {m} = seated[c] THEN "Done" ELSE "Active",
             seated[c], served[c] \cup {m})
  /\ PaysBack(c, {m})

Dissolve(c) ==
  /\ phase[c] \in {"Open", "Active"}
  /\ Becomes(c, "Dissolved", seated[c], served[c])
  /\ PaysBack(c, Members)

Next ==
  \E c \in Circles :
    \/ Close(c) \/ Dissolve(c)
    \/ \E m \in Members : Prefund(c, m) \/ Leave(c, m) \/ Turn(c, m)

Spec == Init /\ [][Next]_vars
=============================================================================
