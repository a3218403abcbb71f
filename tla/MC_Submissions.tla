--------------------------- MODULE MC_Submissions ---------------------------
\* Two accounts, a guest and the demo account; two server actions from the two
\* hooks of one tab, in every area of the app.
EXTENDS Submissions, TLC

CONSTANTS ani, budi, left, right
MCPeople == {ani, budi}
MCSlots == {left, right}
Symmetry == Permutations(MCPeople) \cup Permutations(MCSlots)
=============================================================================
