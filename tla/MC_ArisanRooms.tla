--------------------------- MODULE MC_ArisanRooms ---------------------------
(***************************************************************************)
(* Instances of ArisanRooms for TLC.  One unit of time stands for the      *)
(* shortest window, so the order of every deadline is kept: a reveal       *)
(* window is shorter than the interval to the next draw, and the grace     *)
(* period outlasts it.                                                     *)
(***************************************************************************)
EXTENDS ArisanRooms, TLC

CONSTANTS host, ana, budi, outsider

CadenceLength == [Weekly |-> 2, Biweekly |-> 3, Monthly |-> 4]

\* A room of every kind.
OneLegacy == {[member_target |-> 3, share |-> 1, cadence |-> "Weekly",
               first_kocok |-> 2, join_deadline |-> 1]}
OneInstallment == {[member_target |-> 3, share |-> 1, cadence |-> "Weekly",
                    funding_deadline |-> 2]}
OneScheduled == {[member_target |-> 3, share |-> 1, interval_seconds |-> 2,
                  first_draw_at |-> 4, funding_deadline |-> 2]}
NoTerms == {}

\* Where liveness is checked, the latest draw a legacy room can have, every
\* round postponed, falls due within the bound on time: MaxTime does not cut
\* it short.
ASSUME HorizonReached ==
  Diligent # {} => \A t \in LegacyTerms :
    t.first_kocok + (t.member_target - 1) * CadenceSeconds[t.cadence]
      + t.member_target * MAX_POSTPONE_SECONDS + REVEAL_WINDOW <= MaxTime

MemberSymmetry == Permutations(Accounts \ ContractAccounts)
=============================================================================
