------------------------- MODULE DisasterVault_proofs -------------------------
(***************************************************************************)
(* Proofs about DisasterVault, for any accounts and amounts, any cap,      *)
(* timelock and length of a day, any gaps between ledgers, and any order   *)
(* of calls.                                                               *)
(***************************************************************************)
EXTENDS DisasterVault, FiniteSetTheorems, TLAPS

-----------------------------------------------------------------------------
(* Sums of amounts.                                                        *)

\* The coins of finitely many finite amounts are finitely many.
LEMMA TotalType ==
  ASSUME NEW S, IsFiniteSet(S), NEW f, \A x \in S : f[x] \in Nat
  PROVE  IsFiniteSet(Coins(f, S)) /\ Total(f, S) \in Nat
<1> DEFINE T == {{x} \X (1..f[x]) : x \in S}
           g == [x \in S |-> {x} \X (1..f[x])]
<1>1. g \in Surjection(S, T)
  BY DEF Surjection
<1>2. IsFiniteSet(T)
  BY <1>1, FS_Surjection
<1>3. \A U \in T : IsFiniteSet(U)
  <2> TAKE U \in T
  <2>1. PICK x \in S : U = {x} \X (1..f[x])
    OBVIOUS
  <2>2. IsFiniteSet({x})
    BY FS_Singleton
  <2>3. f[x] \in Int /\ 1 \in Int
    OBVIOUS
  <2>4. IsFiniteSet(1..f[x])
    BY <2>3, FS_Interval
  <2> QED BY <2>1, <2>2, <2>4, FS_Product
<1>4. IsFiniteSet(UNION T)
  BY <1>2, <1>3, FS_UNION
<1> QED BY <1>4, FS_CardinalityType DEF Coins, Total

\* Only the amounts at S matter.
LEMMA TotalSame ==
  ASSUME NEW S, NEW f, NEW g, \A x \in S : f[x] = g[x]
  PROVE  Total(f, S) = Total(g, S)
<1>1. Coins(f, S) = Coins(g, S)
  BY DEF Coins
<1> QED BY <1>1 DEF Total

LEMMA TotalZero ==
  ASSUME NEW S, NEW f, \A x \in S : f[x] = 0
  PROVE  Total(f, S) = 0
<1>1. Coins(f, S) = {}
  BY DEF Coins
<1> QED BY <1>1, FS_EmptySet DEF Total

LEMMA TotalSingle ==
  ASSUME NEW f, NEW x, f[x] \in Nat
  PROVE  Total(f, {x}) = f[x]
<1>1. Coins(f, {x}) = {x} \X (1..f[x])
  BY DEF Coins
<1>2. IsFiniteSet({x}) /\ Cardinality({x}) = 1
  BY FS_Singleton
<1>3. IsFiniteSet(1..f[x]) /\ Cardinality(1..f[x]) = f[x]
  BY FS_Interval
<1>4. Cardinality({x} \X (1..f[x])) = 1 * f[x]
  <2>1. Cardinality({x} \X (1..f[x])) = Cardinality({x}) * Cardinality(1..f[x])
    BY <1>2, <1>3, FS_Product, Zenon
  <2> QED BY <1>2, <1>3, <2>1, Zenon
<1>5. 1 * f[x] = f[x]
  OBVIOUS
<1> QED BY <1>1, <1>4, <1>5, Zenon DEF Total

\* Disjoint sets add up.
LEMMA TotalUnion ==
  ASSUME NEW S, IsFiniteSet(S), NEW T, IsFiniteSet(T), S \cap T = {},
         NEW f, \A x \in S \cup T : f[x] \in Nat
  PROVE  Total(f, S \cup T) = Total(f, S) + Total(f, T)
<1>1. IsFiniteSet(Coins(f, S)) /\ IsFiniteSet(Coins(f, T))
  BY TotalType
<1>2. Coins(f, S \cup T) = Coins(f, S) \cup Coins(f, T)
  BY DEF Coins
<1>3. Coins(f, S) \cap Coins(f, T) = {}
  <2>1. ASSUME NEW p, p \in Coins(f, S), p \in Coins(f, T)
        PROVE  FALSE
    <3>1. PICK x \in S : p \in {x} \X (1..f[x])
      BY <2>1 DEF Coins
    <3>2. PICK y \in T : p \in {y} \X (1..f[y])
      BY <2>1 DEF Coins
    <3>3. p[1] = x /\ p[1] = y
      BY <3>1, <3>2
    <3> QED BY <3>3
  <2> QED BY <2>1
<1>4. Cardinality(Coins(f, S) \cap Coins(f, T)) = 0
  BY <1>3, FS_EmptySet
<1>5. /\ Cardinality(Coins(f, S)) \in Nat
      /\ Cardinality(Coins(f, T)) \in Nat
  BY <1>1, FS_CardinalityType
<1>6. Cardinality(Coins(f, S) \cup Coins(f, T))
        = Cardinality(Coins(f, S)) + Cardinality(Coins(f, T)) - 0
  BY <1>1, <1>4, FS_Union
<1>7. Cardinality(Coins(f, S) \cup Coins(f, T))
        = Cardinality(Coins(f, S)) + Cardinality(Coins(f, T))
  BY <1>5, <1>6
<1> QED BY <1>2, <1>7, Zenon DEF Total

\* One element's amount and the rest.
LEMMA TotalSplit ==
  ASSUME NEW S, IsFiniteSet(S), NEW f, \A y \in S : f[y] \in Nat, NEW x \in S
  PROVE  /\ Total(f, S) = f[x] + Total(f, S \ {x})
         /\ Total(f, S \ {x}) \in Nat
<1>1. IsFiniteSet({x}) /\ IsFiniteSet(S \ {x})
  BY FS_Singleton, FS_RemoveElement
<1>2. S = {x} \cup (S \ {x}) /\ {x} \cap (S \ {x}) = {}
  OBVIOUS
<1>3. Total(f, {x} \cup (S \ {x})) = Total(f, {x}) + Total(f, S \ {x})
  BY <1>1, <1>2, TotalUnion
<1>4. Total(f, {x}) = f[x]
  BY TotalSingle
<1>5. Total(f, S \ {x}) \in Nat
  BY <1>1, TotalType
<1> QED BY <1>2, <1>3, <1>4, <1>5

\* What changes at one element changes the total.
LEMMA TotalChange ==
  ASSUME NEW S, IsFiniteSet(S), NEW x \in S,
         NEW f, \A y \in S : f[y] \in Nat,
         NEW g, \A y \in S : g[y] \in Nat,
         \A y \in S \ {x} : g[y] = f[y]
  PROVE  /\ Total(g, S) = Total(f, S) - f[x] + g[x]
         /\ Total(f, S) \in Nat /\ f[x] <= Total(f, S)
<1>1. Total(f, S) = f[x] + Total(f, S \ {x}) /\ Total(f, S \ {x}) \in Nat
  BY TotalSplit
<1>2. Total(g, S) = g[x] + Total(g, S \ {x})
  BY TotalSplit
<1>3. Total(g, S \ {x}) = Total(f, S \ {x})
  BY TotalSame
<1> QED BY <1>1, <1>2, <1>3

-----------------------------------------------------------------------------
(* Basis points.                                                           *)

LEMMA DivWhole ==
  ASSUME NEW w \in Nat \ {0}, NEW q \in Nat, NEW r \in Nat
  PROVE  (q * w + r) \div w = q + r \div w
OBVIOUS

LEMMA DivBelow ==
  ASSUME NEW w \in Nat \ {0}, NEW x \in Nat
  PROVE  (x \div w) * w <= x
<1>1. x = w * (x \div w) + (x % w) /\ x % w \in Nat /\ x \div w \in Nat
  OBVIOUS
<1> QED BY <1>1

\* The quotient and remainder form gives the exact floor, and never more than
\* the amount.
LEMMA FloorShareExact ==
  ASSUME NEW amount \in Nat, NEW bps \in Nat, NEW whole \in Nat \ {0}
  PROVE  /\ FloorShare(amount, bps, whole) = (amount * bps) \div whole
         /\ FloorShare(amount, bps, whole) \in Nat
         /\ bps <= whole => FloorShare(amount, bps, whole) <= amount
<1> DEFINE q == amount \div whole
           r == amount % whole
<1>1. q \in Nat /\ r \in Nat /\ amount = q * whole + r
  OBVIOUS
<1> HIDE DEF q, r
<1>2. amount * bps = (q * bps) * whole + r * bps
  <2>1. amount * bps = (q * whole + r) * bps
    BY <1>1
  <2>2. (q * whole + r) * bps = (q * bps) * whole + r * bps
    BY <1>1
  <2> QED BY <2>1, <2>2
<1>3. q * bps \in Nat /\ r * bps \in Nat
  BY <1>1
<1>4. ((q * bps) * whole + r * bps) \div whole = q * bps + (r * bps) \div whole
  BY <1>3, DivWhole
<1>5. FloorShare(amount, bps, whole) = q * bps + (r * bps) \div whole
  BY DEF FloorShare, q, r
<1>6. (r * bps) \div whole \in Nat
  BY <1>3
<1>7. bps <= whole => q * bps + (r * bps) \div whole <= amount
  <2>1. SUFFICES ASSUME bps <= whole
                 PROVE  q * bps + (r * bps) \div whole <= amount
    OBVIOUS
  <2>2. q * bps <= q * whole
    BY <1>1, <2>1
  <2>3. r * bps <= r * whole
    BY <1>1, <2>1
  <2>4. (r * bps) \div whole <= r
    BY <1>1, <1>3, <2>3
  <2> QED BY <1>1, <1>3, <1>6, <2>2, <2>4
<1> QED BY <1>2, <1>3, <1>4, <1>5, <1>6, <1>7

-----------------------------------------------------------------------------
(* The inductive invariant.                                                *)

Proposal ==
  [action : Actions, approvals : SUBSET Signers, ready_ledger : Nat,
   executed : BOOLEAN, epoch : Nat]

\* Nobody gave more than they had; only valid payouts are proposed.
Funded == \A a \in Donors : wallet[a] <= Wealth

Payable(p) == ~IsControl(p) => p.action.amount > 0 /\ p.action.to # Vault

AllPayable == \A id \in DOMAIN proposals : Payable(proposals[id])

\* The log runs up to now, and pruning has dropped nothing of the last day.
LogKept ==
  \A k \in DOMAIN payouts :
    /\ payouts[k].timestamp <= now /\ payouts[k].amount \in Nat
    /\ now - payouts[k].timestamp < DAY => k \in spends

\* An executed control proposal ended its epoch.
EndedEarlier ==
  \A id \in DOMAIN proposals :
    proposals[id].executed /\ IsControl(proposals[id]) => proposals[id].epoch < epoch

VaultInv ==
  /\ TypeOK /\ Funded /\ AllPayable /\ LogKept /\ EndedEarlier
  /\ PaidAsApproved /\ RollingCap /\ ControlHistory

-----------------------------------------------------------------------------
(* What the operators depend on.                                           *)

\* Proposals may gain approvals and new ones may come, none is executed.
Deliberated ==
  /\ \A id \in DOMAIN proposals :
       /\ id \in DOMAIN proposals'
       /\ proposals'[id].action = proposals[id].action
       /\ proposals'[id].executed = proposals[id].executed
       /\ proposals'[id].epoch = proposals[id].epoch
  /\ \A id \in DOMAIN proposals' \ DOMAIN proposals :
       ~proposals'[id].executed /\ proposals'[id].epoch = epoch

LEMMA Entry ==
  ASSUME NEW S, NEW s \in Seq(S), NEW i \in DOMAIN s
  PROVE  s[i] \in S /\ i \in 1..Len(s)
<1>1. DOMAIN s = 1..Len(s)
  OBVIOUS
<1> QED BY <1>1

LEMMA ProposalShape ==
  ASSUME TypeOK, NEW id \in DOMAIN proposals
  PROVE  proposals[id] \in Proposal
<1>1. proposals \in Seq(Proposal)
  BY DEF TypeOK, Proposal
<1> QED BY <1>1, Entry, Zenon

LEMMA PayoutShape ==
  ASSUME TypeOK, NEW k \in DOMAIN payouts
  PROVE  payouts[k].timestamp \in Nat
<1>1. payouts[k] \in [id : Ids, amount : Amounts, timestamp : Nat, pool : Nat]
  BY Entry, Zenon DEF TypeOK
<1> QED BY <1>1

LEMMA Identified ==
  ASSUME VaultInv, NEW id \in DOMAIN proposals
  PROVE  id \in Ids
<1>1. id \in 1..Len(proposals)
  BY Entry DEF VaultInv, TypeOK
<1>2. Len(proposals) \in Nat /\ Len(proposals) <= MaxProposals
  BY VaultInputAssumption DEF VaultInv, TypeOK
<1> QED BY <1>1, <1>2, VaultInputAssumption DEF Ids

LEMMA DisbursementShape ==
  ASSUME NEW p \in Proposal, ~IsControl(p)
  PROVE  p.action.amount \in Amounts /\ p.action.amount \in Int
BY VaultInputAssumption DEF Proposal, Actions, IsControl

LEMMA PaidDeliberated ==
  ASSUME Deliberated
  PROVE  Paid' = Paid
BY DEF Deliberated, Paid, IsControl

LEMMA PaidKept ==
  ASSUME PaidAsApproved, UNCHANGED <<balance, wallet>>, Paid' = Paid,
         \A id \in Paid : proposals'[id].action = proposals[id].action
  PROVE  PaidAsApproved'
<1>1. [id \in Paid |-> proposals[id].action.amount]'
        = [id \in Paid |-> proposals[id].action.amount]
  OBVIOUS
<1> QED BY <1>1 DEF PaidAsApproved

LEMMA EndedDeliberated ==
  ASSUME Deliberated, NEW e
  PROVE  Ended(e)' = Ended(e)
BY DEF Deliberated, Ended, IsControl

LEMMA HistoryDeliberated ==
  ASSUME Deliberated, UNCHANGED controlVars, ControlHistory, EndedEarlier, TypeOK
  PROVE  ControlHistory' /\ EndedEarlier'
<1>1. EndedEarlier'
  BY DEF EndedEarlier, Deliberated, controlVars, IsControl
<1>2. ASSUME NEW e \in 0..(epoch - 1)
      PROVE  \E id \in Ended(e)' :
               Ended(e)' = {id} /\ proposals'[id].action.kind = Kind(e)
  <2>1. PICK id \in Ended(e) : Ended(e) = {id} /\ proposals[id].action.kind = Kind(e)
    BY <1>2 DEF ControlHistory
  <2>2. Ended(e)' = Ended(e)
    BY EndedDeliberated
  <2>3. id \in DOMAIN proposals
    BY <2>1 DEF Ended
  <2> QED BY <2>1, <2>2, <2>3 DEF Deliberated
<1>3. \A id \in DOMAIN proposals' : proposals'[id].epoch <= epoch
  <2>1. epoch <= epoch
    BY DEF TypeOK
  <2> QED BY <2>1 DEF Deliberated, ControlHistory
<1> QED BY <1>1, <1>2, <1>3, Zenon DEF ControlHistory, controlVars

LEMMA PayableDeliberated ==
  ASSUME Deliberated, AllPayable,
         \A id \in DOMAIN proposals' \ DOMAIN proposals : Payable(proposals'[id])
  PROVE  AllPayable'
BY DEF Deliberated, AllPayable, Payable, IsControl

LEMMA LogUntouched ==
  ASSUME UNCHANGED <<payouts, spends, now>>, LogKept, RollingCap
  PROVE  LogKept' /\ RollingCap'
<1>1. \A k : AmountOf(Window(k))' = AmountOf(Window(k))
  BY DEF AmountOf, Window
<1> QED BY <1>1 DEF LogKept, RollingCap

LEMMA PaidFinite ==
  ASSUME VaultInv
  PROVE  /\ IsFiniteSet(Paid)
         /\ \A id \in Paid : proposals[id].action.amount \in Nat
<1>1. IsFiniteSet(1..Len(proposals))
  BY FS_Interval DEF VaultInv, TypeOK
<1>2. Paid \subseteq 1..Len(proposals)
  BY DEF VaultInv, TypeOK, Paid
<1>3. IsFiniteSet(Paid)
  BY <1>1, <1>2, FS_Subset
<1>4. ASSUME NEW id \in Paid PROVE proposals[id].action.amount \in Nat
  <2>1. id \in DOMAIN proposals /\ ~IsControl(proposals[id])
    BY DEF Paid
  <2>2. proposals[id].action.amount \in Int
    BY <2>1, ProposalShape, DisbursementShape DEF VaultInv
  <2>3. proposals[id].action.amount > 0
    BY <2>1 DEF VaultInv, AllPayable, Payable
  <2> QED BY <2>2, <2>3
<1> QED BY <1>3, <1>4

-----------------------------------------------------------------------------
(* Every entry point keeps the invariant.                                  *)

LEMMA VaultInit == Init => VaultInv
<1> SUFFICES ASSUME Init PROVE VaultInv
  OBVIOUS
<1>1. TypeOK
  <2>1. proposals = <<>> /\ payouts = <<>> /\ next_id = 1 /\ Len(proposals) = 0
    BY DEF Init
  <2>2. MaxProposals \in Nat /\ MaxLedger \in Nat /\ Wealth \in Nat
    BY VaultInputAssumption
  <2>3. quorum_at \in [Ids -> Nat]
    BY DEF Init, None
  <2> QED BY <2>1, <2>2, <2>3 DEF Init, TypeOK
<1>2. DOMAIN proposals = {} /\ DOMAIN payouts = {}
  BY DEF Init
<1>3. Funded
  BY VaultInputAssumption DEF Init, Funded
<1>4. AllPayable /\ EndedEarlier /\ LogKept /\ RollingCap
  BY <1>2 DEF AllPayable, EndedEarlier, LogKept, RollingCap
<1>5. ControlHistory
  <2>1. paused = TRUE /\ epoch = 0 /\ epoch % 2 = 0
    BY DEF Init
  <2>2. 0..(epoch - 1) = {}
    BY <2>1
  <2>3. paused = (epoch % 2 = 0)
    BY <2>1
  <2> QED BY <1>2, <2>2, <2>3, Zenon DEF ControlHistory
<1>6. PaidAsApproved
  <2>1. Paid = {}
    BY <1>2 DEF Paid
  <2>2. Total([id \in Paid |-> proposals[id].action.amount], Paid) = 0
    BY <2>1, TotalZero
  <2>3. \A a \in Donors : [b \in Donors |-> Wealth - wallet[b]][a] = 0
    BY VaultInputAssumption DEF Init
  <2>4. Total([b \in Donors |-> Wealth - wallet[b]], Donors) = 0
    BY <2>3, TotalZero
  <2> QED BY <2>1, <2>2, <2>4 DEF PaidAsApproved, Init
<1> QED BY <1>1, <1>3, <1>4, <1>5, <1>6 DEF VaultInv

LEMMA Same == UNCHANGED proposals => Deliberated
BY DEF Deliberated

LEMMA CloseLedgerKeeps ==
  ASSUME VaultInv, CloseLedger
  PROVE  VaultInv'
<1>1. PICK gap \in Gaps : now' = now + gap
  BY DEF CloseLedger
<1>2. gap \in Nat \ {0} /\ MaxLedger \in Nat
  BY VaultInputAssumption
<1>3. UNCHANGED <<controlVars, proposalVars, poolVars>>
  BY DEF CloseLedger
<1>4. TypeOK'
  <2>1. ledger' \in 0..MaxLedger /\ now' \in Nat
    BY <1>1, <1>2 DEF CloseLedger, VaultInv, TypeOK
  <2> QED BY <1>3, <2>1 DEF VaultInv, TypeOK, controlVars, proposalVars, poolVars
<1>5. Funded' /\ AllPayable'
  BY <1>3 DEF VaultInv, Funded, AllPayable, proposalVars, poolVars
<1>6. LogKept'
  <2> SUFFICES ASSUME NEW k \in DOMAIN payouts
               PROVE  /\ payouts[k].timestamp <= now' /\ payouts[k].amount \in Nat
                      /\ now' - payouts[k].timestamp < DAY => k \in spends
    BY <1>3 DEF LogKept, poolVars
  <2>1. payouts[k].timestamp \in Nat
    BY PayoutShape DEF VaultInv
  <2>2. now \in Nat /\ DAY \in Nat
    BY ConfigAssumption DEF VaultInv, TypeOK
  <2> QED BY <1>1, <1>2, <2>1, <2>2 DEF VaultInv, LogKept
<1>7. RollingCap'
  <2>1. \A k : AmountOf(Window(k))' = AmountOf(Window(k))
    BY <1>3 DEF AmountOf, Window, poolVars
  <2> QED BY <1>3, <2>1 DEF VaultInv, RollingCap, poolVars
<1>8. Deliberated /\ UNCHANGED controlVars
  BY <1>3, Same DEF proposalVars
<1>9. ControlHistory' /\ EndedEarlier'
  BY <1>8, HistoryDeliberated DEF VaultInv
<1>10. PaidAsApproved'
  BY <1>3, <1>8, PaidDeliberated, PaidKept DEF VaultInv, proposalVars, poolVars
<1> QED BY <1>4, <1>5, <1>6, <1>7, <1>9, <1>10 DEF VaultInv

LEMMA GiveKeeps ==
  ASSUME VaultInv, NEW a \in Donors, NEW amount \in Gifts, Give(a, amount),
         contribution' \in [Donors -> Nat]
  PROVE  VaultInv'
<1>1. /\ amount \in Nat /\ amount > 0 /\ amount <= wallet[a]
  BY VaultInputAssumption DEF Give, VaultInv, TypeOK
<1>2. /\ wallet \in [Donors -> Nat] /\ balance \in Nat /\ Wealth \in Nat
  BY VaultInputAssumption DEF VaultInv, TypeOK
<1>3. /\ wallet' = [wallet EXCEPT ![a] = @ - amount]
      /\ balance' = balance + amount
      /\ UNCHANGED <<ledger, now, controlVars, proposalVars, spends, payouts>>
  BY DEF Give
<1>4. wallet' \in [Donors -> Nat] /\ balance' \in Nat
  BY <1>1, <1>2, <1>3
<1>5. TypeOK'
  BY <1>3, <1>4 DEF VaultInv, TypeOK, controlVars, proposalVars
<1>6. Funded'
  BY <1>1, <1>2, <1>3 DEF VaultInv, Funded
<1>7. Deliberated /\ UNCHANGED controlVars
  BY <1>3, Same DEF proposalVars
<1>8. ControlHistory' /\ EndedEarlier'
  BY <1>7, HistoryDeliberated DEF VaultInv
<1>9. AllPayable'
  BY <1>3 DEF VaultInv, AllPayable, proposalVars
<1>10. LogKept' /\ RollingCap'
  BY <1>3, LogUntouched DEF VaultInv
<1>11. PaidAsApproved'
  <2>1. PICK f : f = [b \in Donors |-> Wealth - wallet[b]]
    OBVIOUS
  <2>2. PICK g : g = [b \in Donors |-> Wealth - wallet'[b]]
    OBVIOUS
  <2>3. \A b \in Donors : f[b] \in Nat
    BY <1>2, <2>1 DEF VaultInv, Funded
  <2>4. \A b \in Donors : g[b] \in Nat
    BY <1>2, <1>4, <1>6, <2>2 DEF Funded
  <2>5. \A b \in Donors \ {a} : g[b] = f[b]
    BY <1>2, <1>3, <2>1, <2>2
  <2>6. g[a] = f[a] + amount
    BY <1>1, <1>2, <1>3, <2>1, <2>2
  <2>7. IsFiniteSet(Donors)
    BY ConfigAssumption, FS_Subset
  <2>8. /\ Total(g, Donors) = Total(f, Donors) - f[a] + g[a]
        /\ Total(f, Donors) \in Nat
    BY <2>3, <2>4, <2>5, <2>7, TotalChange
  <2>9. f[a] \in Nat
    BY <2>3
  <2>10. Total(g, Donors) = Total(f, Donors) + amount
    BY <1>1, <2>6, <2>8, <2>9
  <2>11. Paid' = Paid /\ proposals' = proposals
    BY <1>3, <1>7, PaidDeliberated DEF proposalVars
  <2>12. PICK p : p = Total([id \in Paid |-> proposals[id].action.amount], Paid)
    OBVIOUS
  <2>13. p \in Nat
    BY <2>12, PaidFinite, TotalType
  <2>14. balance + p = Total(f, Donors)
    BY <2>1, <2>12 DEF VaultInv, PaidAsApproved
  <2>15. balance' + p = Total(g, Donors)
    BY <1>1, <1>2, <1>3, <2>8, <2>10, <2>13, <2>14
  <2>16. \A id \in Paid : proposals[id].action.to # Vault
    BY DEF VaultInv, PaidAsApproved
  <2>17. balance' + Total([id \in Paid |-> proposals'[id].action.amount], Paid)
           = Total([b \in Donors |-> Wealth - wallet'[b]], Donors)
    BY <2>2, <2>11, <2>12, <2>15
  <2> QED BY <2>11, <2>16, <2>17 DEF PaidAsApproved
<1> QED BY <1>5, <1>6, <1>8, <1>9, <1>10, <1>11 DEF VaultInv

NewProposal(action) ==
  [action |-> action, approvals |-> {}, ready_ledger |-> None,
   executed |-> FALSE, epoch |-> epoch]

LEMMA ProposeKeeps ==
  ASSUME VaultInv, NEW a \in Accounts, NEW action \in Actions, propose(a, action)
  PROVE  VaultInv'
<1>1. /\ ActionValid(action) /\ next_id <= MaxProposals
      /\ proposals' = Append(proposals, NewProposal(action))
      /\ next_id' = next_id + 1
      /\ UNCHANGED <<ledger, now, quorum_at, controlVars, poolVars>>
  BY DEF propose, NewProposal
<1>2. NewProposal(action) \in Proposal
  BY DEF NewProposal, Proposal, None, VaultInv, TypeOK
<1>3. /\ proposals \in Seq(Proposal) /\ Len(proposals) = next_id - 1
      /\ next_id \in 1..(MaxProposals + 1) /\ MaxProposals \in Nat
  BY VaultInputAssumption DEF VaultInv, TypeOK, Proposal
<1>4. /\ proposals' \in Seq(Proposal) /\ Len(proposals') = Len(proposals) + 1
      /\ \A id \in DOMAIN proposals :
           id \in DOMAIN proposals' /\ proposals'[id] = proposals[id]
      /\ \A id \in DOMAIN proposals' \ DOMAIN proposals :
           proposals'[id] = NewProposal(action)
  BY <1>1, <1>2, <1>3
<1>5. TypeOK'
  <2>1. next_id' \in 1..(MaxProposals + 1) /\ Len(proposals') = next_id' - 1
    BY <1>1, <1>3, <1>4
  <2> QED BY <1>1, <1>4, <2>1 DEF VaultInv, TypeOK, Proposal, controlVars, poolVars
<1>6. Deliberated
  BY <1>4 DEF Deliberated, NewProposal
<1>7. ControlHistory' /\ EndedEarlier'
  BY <1>1, <1>6, HistoryDeliberated DEF VaultInv
<1>8. AllPayable'
  <2>1. Payable(NewProposal(action))
    BY <1>1 DEF Payable, IsControl, NewProposal, ActionValid
  <2> QED BY <1>4, <1>6, <2>1, PayableDeliberated DEF VaultInv
<1>9. Funded'
  BY <1>1 DEF VaultInv, Funded, poolVars
<1>10. LogKept' /\ RollingCap'
  BY <1>1, LogUntouched DEF VaultInv, poolVars
<1>11. PaidAsApproved'
  <2>1. \A id \in Paid : proposals'[id].action = proposals[id].action
    BY <1>4 DEF Paid
  <2> QED BY <1>1, <1>6, <2>1, PaidDeliberated, PaidKept DEF VaultInv, poolVars
<1> QED BY <1>5, <1>7, <1>8, <1>9, <1>10, <1>11 DEF VaultInv

LEMMA ApproveKeeps ==
  ASSUME VaultInv, NEW a \in Accounts, NEW n \in DOMAIN proposals, approve(a, n)
  PROVE  VaultInv'
<1>1. PICK timer :
        /\ timer \in {proposals[n].ready_ledger, ledger, ledger + TIMELOCK_LEDGERS}
        /\ proposals' = [proposals EXCEPT
             ![n].approvals = @ \cup {a}, ![n].ready_ledger = timer]
  <2>1. ledger + 0 = ledger
    BY DEF VaultInv, TypeOK
  <2> QED BY <2>1 DEF approve
<1>2. /\ a \in Signers
      /\ UNCHANGED <<ledger, now, next_id, controlVars, poolVars>>
      /\ quorum_at' \in [Ids -> Nat]
  <2>1. PICK at : at \in {quorum_at[n], ledger} /\ quorum_at' = [quorum_at EXCEPT ![n] = at]
    BY DEF approve
  <2>2. quorum_at \in [Ids -> Nat] /\ ledger \in Nat
    BY VaultInputAssumption DEF VaultInv, TypeOK
  <2>3. quorum_at' \in [Ids -> Nat]
    BY <2>1, <2>2
  <2> QED BY <2>3 DEF approve, IsSigner
<1>3. proposals \in Seq(Proposal) /\ proposals[n] \in Proposal
  BY ProposalShape DEF VaultInv, TypeOK, Proposal
<1>4. timer \in Nat
  <2>1. ledger \in Nat /\ TIMELOCK_LEDGERS \in Nat
    BY ConfigAssumption, VaultInputAssumption DEF VaultInv, TypeOK
  <2>2. proposals[n].ready_ledger \in Nat
    BY <1>3 DEF Proposal
  <2> QED BY <1>1, <2>1, <2>2
<1>5. PICK p :
        p = [proposals[n] EXCEPT !.approvals = @ \cup {a}, !.ready_ledger = timer]
  OBVIOUS
<1>6. proposals' = [proposals EXCEPT ![n] = p]
  BY <1>1, <1>3, <1>5
<1>7. /\ p \in Proposal /\ p.action = proposals[n].action
      /\ p.executed = proposals[n].executed /\ p.epoch = proposals[n].epoch
  <2>1. PICK q : q = [proposals[n] EXCEPT !.approvals = @ \cup {a}]
    OBVIOUS
  <2>2. /\ q \in Proposal /\ q.action = proposals[n].action
        /\ q.executed = proposals[n].executed /\ q.epoch = proposals[n].epoch
    BY <1>2, <1>3, <2>1 DEF Proposal
  <2>3. p = [q EXCEPT !.ready_ledger = timer]
    BY <1>5, <2>1
  <2> QED BY <1>4, <2>2, <2>3 DEF Proposal
<1>8. /\ proposals' \in Seq(Proposal) /\ Len(proposals') = Len(proposals)
      /\ DOMAIN proposals' = DOMAIN proposals
      /\ proposals'[n] = p
      /\ \A id \in DOMAIN proposals \ {n} : proposals'[id] = proposals[id]
  BY <1>3, <1>6, <1>7
<1>9. TypeOK'
  BY <1>2, <1>8 DEF VaultInv, TypeOK, Proposal, controlVars, poolVars
<1>10. Deliberated
  BY <1>7, <1>8 DEF Deliberated
<1>11. ControlHistory' /\ EndedEarlier'
  BY <1>2, <1>10, HistoryDeliberated DEF VaultInv
<1>12. AllPayable'
  BY <1>8, <1>10, PayableDeliberated DEF VaultInv
<1>13. Funded'
  BY <1>2 DEF VaultInv, Funded, poolVars
<1>14. LogKept' /\ RollingCap'
  BY <1>2, LogUntouched DEF VaultInv, poolVars
<1>15. PaidAsApproved'
  <2>1. \A id \in Paid : proposals'[id].action = proposals[id].action
    BY <1>10 DEF Paid, Deliberated
  <2> QED BY <1>2, <1>10, <2>1, PaidDeliberated, PaidKept DEF VaultInv, poolVars
<1> QED BY <1>9, <1>11, <1>12, <1>13, <1>14, <1>15 DEF VaultInv

\* What executing a proposal does to the proposals.
LEMMA Execution ==
  ASSUME VaultInv, NEW n \in DOMAIN proposals, ~proposals[n].executed,
         proposals' = MarkExecuted(n)
  PROVE  /\ proposals' \in Seq(Proposal) /\ Len(proposals') = Len(proposals)
         /\ DOMAIN proposals' = DOMAIN proposals
         /\ proposals'[n].executed
         /\ \A id \in DOMAIN proposals :
              /\ proposals'[id].action = proposals[id].action
              /\ proposals'[id].epoch = proposals[id].epoch
              /\ id # n => proposals'[id] = proposals[id]
         /\ AllPayable'
<1>1. proposals \in Seq(Proposal) /\ proposals[n] \in Proposal
  BY ProposalShape DEF VaultInv, TypeOK, Proposal
<1>2. PICK p : p = [proposals[n] EXCEPT !.executed = TRUE]
  OBVIOUS
<1>3. proposals' = [proposals EXCEPT ![n] = p]
  BY <1>1, <1>2 DEF MarkExecuted
<1>4. /\ p \in Proposal /\ p.action = proposals[n].action /\ p.executed
      /\ p.epoch = proposals[n].epoch
  BY <1>1, <1>2 DEF Proposal
<1>5. /\ proposals' \in Seq(Proposal) /\ Len(proposals') = Len(proposals)
      /\ DOMAIN proposals' = DOMAIN proposals
      /\ proposals'[n] = p
      /\ \A id \in DOMAIN proposals \ {n} : proposals'[id] = proposals[id]
  BY <1>1, <1>3, <1>4
<1>6. AllPayable'
  BY <1>4, <1>5 DEF VaultInv, AllPayable, Payable, IsControl
<1> QED BY <1>4, <1>5, <1>6

LEMMA ControlKeeps ==
  ASSUME VaultInv, NEW a \in Accounts, NEW n \in DOMAIN proposals,
         execute_control(a, n)
  PROVE  VaultInv'
<1>1. /\ ~proposals[n].executed /\ IsControl(proposals[n])
      /\ proposals[n].epoch = epoch
      /\ paused # (proposals[n].action.kind = "Pause")
      /\ epoch' = epoch + 1
      /\ paused' = (proposals[n].action.kind = "Pause")
      /\ proposals' = MarkExecuted(n)
      /\ UNCHANGED <<ledger, now, next_id, quorum_at, poolVars>>
  <2>1. proposals[n].epoch = epoch
    BY DEF execute_control, Stale
  <2> QED BY <2>1 DEF execute_control, Executable
<1>2. /\ proposals' \in Seq(Proposal) /\ Len(proposals') = Len(proposals)
      /\ DOMAIN proposals' = DOMAIN proposals
      /\ proposals'[n].executed
      /\ \A id \in DOMAIN proposals :
           /\ proposals'[id].action = proposals[id].action
           /\ proposals'[id].epoch = proposals[id].epoch
           /\ id # n => proposals'[id] = proposals[id]
      /\ AllPayable'
  BY <1>1, Execution
<1>3. epoch \in Nat /\ paused \in BOOLEAN
  BY DEF VaultInv, TypeOK
<1>4. TypeOK'
  <2>1. epoch' \in Nat
    BY <1>1, <1>3
  <2>2. paused' \in BOOLEAN
    BY <1>1, Zenon
  <2> QED BY <1>1, <1>2, <2>1, <2>2 DEF VaultInv, TypeOK, Proposal, poolVars
<1>5. Funded'
  BY <1>1 DEF VaultInv, Funded, poolVars
<1>6. LogKept' /\ RollingCap'
  BY <1>1, LogUntouched DEF VaultInv, poolVars
<1>7. PaidAsApproved'
  <2>1. Paid' = Paid
    BY <1>1, <1>2 DEF Paid, IsControl
  <2>2. \A id \in Paid : proposals'[id].action = proposals[id].action
    BY <1>2 DEF Paid
  <2> QED BY <1>1, <2>1, <2>2, PaidKept DEF VaultInv, poolVars
<1>8. EndedEarlier'
  <2> SUFFICES ASSUME NEW id \in DOMAIN proposals, proposals'[id].executed,
                      IsControl(proposals'[id])
               PROVE  proposals'[id].epoch < epoch + 1
    BY <1>1, <1>2 DEF EndedEarlier
  <2>1. proposals[id].epoch \in Nat
    BY ProposalShape DEF VaultInv, Proposal
  <2>2. proposals[id].epoch <= epoch
    BY DEF VaultInv, ControlHistory
  <2> QED BY <1>2, <1>3, <2>1, <2>2
<1>9. ControlHistory'
  <2>1. paused' = (epoch' % 2 = 0) /\ proposals[n].action.kind = Kind(epoch)
    <3>1. paused = (epoch % 2 = 0)
      BY DEF VaultInv, ControlHistory
    <3>2. proposals[n].action.kind \in {"Pause", "Unpause"}
      <4>1. proposals[n].action \in Actions
        BY ProposalShape DEF VaultInv, Proposal
      <4> QED BY <1>1, <4>1 DEF Actions, IsControl
    <3>3. CASE epoch % 2 = 0
      <4>1. ~(epoch' % 2 = 0)
        BY <1>1, <1>3, <3>3
      <4>2. paused = TRUE
        BY <3>1, <3>3, Zenon
      <4>3. proposals[n].action.kind # "Pause"
        BY <1>1, <4>2, Zenon
      <4>4. paused' = FALSE
        BY <1>1, <4>3, Zenon
      <4>5. paused' = (epoch' % 2 = 0)
        BY <4>1, <4>4, Zenon
      <4> QED BY <3>2, <3>3, <4>3, <4>5 DEF Kind
    <3>4. CASE ~(epoch % 2 = 0)
      <4>1. epoch' % 2 = 0
        BY <1>1, <1>3, <3>4
      <4>2. paused = FALSE
        BY <3>1, <3>4, Zenon
      <4>3. proposals[n].action.kind = "Pause"
        <5>1. CASE proposals[n].action.kind # "Pause"
          <6>1. (proposals[n].action.kind = "Pause") = FALSE
            BY <5>1, Zenon
          <6> QED BY <1>1, <4>2, <6>1, Zenon
        <5> QED BY <5>1
      <4>4. paused' = TRUE
        BY <1>1, <4>3, Zenon
      <4>5. paused' = (epoch' % 2 = 0)
        BY <4>1, <4>4, Zenon
      <4> QED BY <3>4, <4>3, <4>5 DEF Kind
    <3> QED BY <3>3, <3>4
  <2>2. ASSUME NEW e \in 0..(epoch' - 1)
        PROVE  \E id \in Ended(e)' :
                 Ended(e)' = {id} /\ proposals'[id].action.kind = Kind(e)
    <3>1. CASE e = epoch
      <4>1. ASSUME NEW id \in Ended(e)' PROVE id = n
        <5>1. /\ id \in DOMAIN proposals /\ proposals'[id].executed
              /\ IsControl(proposals'[id]) /\ proposals'[id].epoch = epoch
          BY <1>2, <3>1, <4>1 DEF Ended
        <5>2. CASE id # n
          <6>1. proposals[id].executed /\ IsControl(proposals[id])
            BY <1>2, <5>1, <5>2
          <6>2. proposals[id].epoch < epoch
            BY <5>1, <6>1 DEF VaultInv, EndedEarlier
          <6>3. proposals[id].epoch = epoch
            BY <1>2, <5>1
          <6> QED BY <1>3, <6>2, <6>3
        <5> QED BY <5>2
      <4>2. n \in Ended(e)'
        BY <1>1, <1>2, <3>1 DEF Ended, IsControl
      <4>3. Ended(e)' = {n}
        BY <4>1, <4>2
      <4>4. proposals'[n].action.kind = Kind(e)
        BY <1>2, <2>1, <3>1
      <4> QED BY <4>2, <4>3, <4>4
    <3>2. CASE e # epoch
      <4>1. e \in 0..(epoch - 1)
        BY <1>1, <1>3, <3>2
      <4>2. PICK id \in Ended(e) : Ended(e) = {id} /\ proposals[id].action.kind = Kind(e)
        BY <4>1 DEF VaultInv, ControlHistory
      <4>3. Ended(e)' = Ended(e)
        BY <1>1, <1>2, <3>2 DEF Ended, IsControl
      <4>4. proposals'[id].action = proposals[id].action
        BY <1>2, <4>2 DEF Ended
      <4> QED BY <4>2, <4>3, <4>4
    <3> QED BY <3>1, <3>2
  <2>3. ASSUME NEW id \in DOMAIN proposals' PROVE proposals'[id].epoch <= epoch'
    <3>1. id \in DOMAIN proposals
      BY <1>2
    <3>2. proposals[id].epoch \in Nat
      BY <3>1, ProposalShape DEF VaultInv, Proposal
    <3>3. proposals[id].epoch <= epoch
      BY <3>1 DEF VaultInv, ControlHistory
    <3> QED BY <1>1, <1>2, <1>3, <3>1, <3>2, <3>3
  <2> QED BY <2>1, <2>2, <2>3, Zenon DEF ControlHistory
<1> QED BY <1>2, <1>4, <1>5, <1>6, <1>7, <1>8, <1>9 DEF VaultInv

LEMMA DisburseKeeps ==
  ASSUME VaultInv, NEW a \in Accounts, NEW n \in DOMAIN proposals,
         execute_disburse(a, n)
  PROVE  VaultInv'
<1>0. PICK len : len = Len(payouts)
  OBVIOUS
<1>1. PICK amount : amount = proposals[n].action.amount
  OBVIOUS
<1>2. PICK entry : entry = [id |-> n, amount |-> amount,
                            timestamp |-> now, pool |-> balance]
  OBVIOUS
<1>3. /\ ~proposals[n].executed /\ ~IsControl(proposals[n])
      /\ amount <= balance
      /\ AmountOf(recent_spends) + amount <= cap
      /\ spends' = recent_spends \cup {len + 1}
      /\ balance' = balance - amount
      /\ payouts' = Append(payouts, entry)
      /\ proposals' = MarkExecuted(n)
      /\ UNCHANGED <<ledger, now, next_id, quorum_at, controlVars, contribution, wallet>>
  BY <1>0, <1>1, <1>2 DEF execute_disburse, Executable
<1>4. amount \in Nat /\ amount \in Amounts /\ proposals[n].action.to # Vault
  <2>1. amount \in Amounts /\ amount \in Int
    BY <1>1, <1>3, ProposalShape, DisbursementShape DEF VaultInv
  <2>2. amount > 0 /\ proposals[n].action.to # Vault
    BY <1>1, <1>3 DEF VaultInv, AllPayable, Payable
  <2> QED BY <2>1, <2>2
<1>5. /\ proposals' \in Seq(Proposal) /\ Len(proposals') = Len(proposals)
      /\ DOMAIN proposals' = DOMAIN proposals
      /\ proposals'[n].executed
      /\ \A id \in DOMAIN proposals :
           /\ proposals'[id].action = proposals[id].action
           /\ proposals'[id].epoch = proposals[id].epoch
           /\ id # n => proposals'[id] = proposals[id]
      /\ AllPayable'
  BY <1>3, Execution
<1>6. /\ balance \in Nat /\ now \in Nat /\ len \in Nat
      /\ payouts \in Seq([id : Ids, amount : Amounts, timestamp : Nat, pool : Nat])
      /\ spends \subseteq 1..len /\ DOMAIN payouts = 1..len
  BY <1>0 DEF VaultInv, TypeOK
<1>7. entry \in [id : Ids, amount : Amounts, timestamp : Nat, pool : Nat]
  <2>1. n \in Ids
    BY Identified
  <2> QED BY <1>2, <1>4, <1>6, <2>1
<1>8. /\ payouts' \in Seq([id : Ids, amount : Amounts, timestamp : Nat, pool : Nat])
      /\ DOMAIN payouts' = 1..(len + 1) /\ payouts'[len + 1] = entry
      /\ \A k \in 1..len : payouts'[k] = payouts[k]
  BY <1>0, <1>3, <1>6, <1>7
<1>9. recent_spends \subseteq 1..len
  BY <1>6 DEF recent_spends
<1>10. balance' \in Nat
  BY <1>3, <1>4, <1>6
<1>11. TypeOK'
  <2>1. spends' \subseteq DOMAIN payouts'
    <3>1. \A k \in 1..len : k \in 1..(len + 1)
      BY <1>6
    <3>2. len + 1 \in 1..(len + 1)
      BY <1>6
    <3> QED BY <1>3, <1>8, <1>9, <3>1, <3>2
  <2> QED BY <1>3, <1>5, <1>8, <1>10, <2>1 DEF VaultInv, TypeOK, Proposal, controlVars
<1>12. Funded'
  BY <1>3 DEF VaultInv, Funded
<1>13. ControlHistory' /\ EndedEarlier'
  <2>1. \A id \in DOMAIN proposals :
          /\ IsControl(proposals'[id]) = IsControl(proposals[id])
          /\ IsControl(proposals[id]) => proposals'[id] = proposals[id]
    BY <1>3, <1>5 DEF IsControl
  <2>2. \A e : Ended(e)' = Ended(e)
    BY <1>5, <2>1, Zenon DEF Ended
  <2>3. paused' = paused /\ epoch' = epoch
    BY <1>3 DEF controlVars
  <2>4. EndedEarlier'
    BY <1>5, <2>1, <2>3 DEF VaultInv, EndedEarlier
  <2>5. ASSUME NEW e \in 0..(epoch - 1)
        PROVE  \E id \in Ended(e)' :
                 Ended(e)' = {id} /\ proposals'[id].action.kind = Kind(e)
    <3>1. PICK id \in Ended(e) : Ended(e) = {id} /\ proposals[id].action.kind = Kind(e)
      BY <2>5 DEF VaultInv, ControlHistory
    <3>2. proposals'[id].action = proposals[id].action
      BY <1>5, <3>1 DEF Ended
    <3> QED BY <2>2, <3>1, <3>2
  <2>6. \A id \in DOMAIN proposals' : proposals'[id].epoch <= epoch'
    BY <1>5, <2>3 DEF VaultInv, ControlHistory
  <2>7. paused = (epoch % 2 = 0)
    BY DEF VaultInv, ControlHistory
  <2> QED BY <2>3, <2>4, <2>5, <2>6, <2>7, Zenon DEF ControlHistory
<1>14. LogKept'
  <2>1. ASSUME NEW k \in 1..len
        PROVE  /\ payouts'[k].timestamp <= now /\ payouts'[k].amount \in Nat
               /\ now - payouts'[k].timestamp < DAY => k \in spends'
    BY <1>3, <1>6, <1>8 DEF VaultInv, LogKept, recent_spends, Recent
  <2>2. /\ payouts'[len + 1].timestamp <= now /\ payouts'[len + 1].amount \in Nat
        /\ len + 1 \in spends'
    BY <1>2, <1>3, <1>4, <1>6, <1>8
  <2>3. \A k \in 1..(len + 1) : k \in 1..len \/ k = len + 1
    BY <1>6
  <2> QED BY <1>3, <1>8, <2>1, <2>2, <2>3 DEF LogKept
<1>15. RollingCap'
  <2>1. ASSUME NEW k \in 1..len
        PROVE  AmountOf(Window(k))' = AmountOf(Window(k))
    <3>1. \A j \in 1..k : j \in 1..len
      BY <1>6
    <3>2. Window(k)' = Window(k)
      BY <1>8, <3>1 DEF Window
    <3>3. PICK f : f = [j \in Window(k) |-> payouts[j].amount]
      OBVIOUS
    <3>4. PICK g : g = [j \in Window(k) |-> payouts'[j].amount]
      OBVIOUS
    <3>5. g = f
      BY <1>8, <3>1, <3>3, <3>4 DEF Window
    <3> QED BY <3>2, <3>3, <3>4, <3>5, Zenon DEF AmountOf
  <2>2. Window(len + 1)' = recent_spends \cup {len + 1}
    <3>1. \A j \in 1..(len + 1) : j \in 1..len \/ j = len + 1
      BY <1>6
    <3>2. \A j \in 1..len : j \in 1..(len + 1)
      BY <1>6
    <3>3. len + 1 \in 1..(len + 1)
      BY <1>6
    <3>4. payouts'[len + 1].timestamp = now /\ now - now < DAY
      BY <1>2, <1>6, <1>8, ConfigAssumption
    <3>5. \A j \in 1..len : now - payouts'[j].timestamp < DAY <=> j \in recent_spends
      BY <1>6, <1>8, <1>9 DEF VaultInv, LogKept, recent_spends, Recent
    <3>6. \A j : j \in Window(len + 1)' <=>
                   j \in 1..(len + 1) /\ now - payouts'[j].timestamp < DAY
      BY <3>4 DEF Window
    <3> QED BY <1>9, <3>1, <3>2, <3>3, <3>4, <3>5, <3>6
  <2>3. PICK g : g = [j \in recent_spends \cup {len + 1} |-> payouts'[j].amount]
    OBVIOUS
  <2>4. AmountOf(Window(len + 1))' = Total(g, recent_spends \cup {len + 1})
    BY <2>2, <2>3, Zenon DEF AmountOf
  <2>5. PICK f : f = [j \in recent_spends |-> payouts[j].amount]
    OBVIOUS
  <2>6. \A j \in recent_spends : g[j] = f[j] /\ g[j] \in Nat
    BY <1>6, <1>8, <1>9, <2>3, <2>5 DEF VaultInv, LogKept
  <2>7. g[len + 1] = amount
    BY <1>2, <1>8, <2>3
  <2>8. IsFiniteSet(recent_spends)
    <3>1. IsFiniteSet(1..len)
      BY <1>6, FS_Interval
    <3> QED BY <1>9, <3>1, FS_Subset
  <2>9. /\ IsFiniteSet({len + 1}) /\ recent_spends \cap {len + 1} = {}
        /\ \A j \in recent_spends \cup {len + 1} : g[j] \in Nat
    <3>1. IsFiniteSet({len + 1})
      BY FS_Singleton
    <3>2. len + 1 \notin 1..len
      BY <1>6
    <3> QED BY <1>4, <1>9, <2>6, <2>7, <3>1, <3>2
  <2>10. Total(g, recent_spends \cup {len + 1})
           = Total(g, recent_spends) + Total(g, {len + 1})
    BY <2>8, <2>9, TotalUnion
  <2>11. Total(g, {len + 1}) = amount
    BY <1>4, <2>7, TotalSingle
  <2>12. Total(g, recent_spends) = AmountOf(recent_spends)
    <3>1. Total(g, recent_spends) = Total(f, recent_spends)
      BY <2>6, TotalSame
    <3> QED BY <2>5, <3>1, Zenon DEF AmountOf
  <2>13. Total(g, recent_spends) \in Nat
    BY <2>6, <2>8, TotalType
  <2>14. cap * BPS <= balance * CAP_BPS /\ cap \in Nat
    <3>1. BPS \in Nat \ {0} /\ CAP_BPS \in Nat
      BY ConfigAssumption
    <3>2. cap = (balance * CAP_BPS) \div BPS /\ cap \in Nat
      <4>1. balance \in Nat
        BY <1>6
      <4>2. /\ FloorShare(balance, CAP_BPS, BPS) = (balance * CAP_BPS) \div BPS
            /\ FloorShare(balance, CAP_BPS, BPS) \in Nat
        BY <3>1, <4>1, FloorShareExact, ZenonT(40)
      <4> QED BY <4>2, Zenon DEF cap
    <3>3. balance * CAP_BPS \in Nat
      <4>1. \A i, j \in Nat : i * j \in Nat
        OBVIOUS
      <4>2. balance \in Nat
        BY <1>6
      <4> QED BY <3>1, <4>1, <4>2, Zenon
    <3> QED BY <3>1, <3>2, <3>3, DivBelow
  <2>15. AmountOf(Window(len + 1))' * BPS <= balance * CAP_BPS
    <3>1. PICK t : t = AmountOf(Window(len + 1))'
      OBVIOUS
    <3>2. t \in Nat /\ t <= cap
      BY <1>3, <1>4, <2>4, <2>10, <2>11, <2>12, <2>13, <3>1
    <3>3. BPS \in Nat /\ CAP_BPS \in Nat
      BY ConfigAssumption
    <3>4. t * BPS <= cap * BPS
      BY <2>14, <3>2, <3>3
    <3>5. t * BPS \in Nat /\ cap * BPS \in Nat /\ balance * CAP_BPS \in Nat
      BY <1>6, <2>14, <3>2, <3>3
    <3> QED BY <2>14, <3>1, <3>4, <3>5
  <2>16. payouts'[len + 1].pool = balance
    BY <1>2, <1>8
  <2>17. \A k \in 1..(len + 1) : k \in 1..len \/ k = len + 1
    BY <1>6
  <2>18. ASSUME NEW k \in 1..len
         PROVE  AmountOf(Window(k))' * BPS <= payouts'[k].pool * CAP_BPS
    BY <1>6, <1>8, <2>1 DEF VaultInv, RollingCap
  <2> QED BY <1>8, <2>15, <2>16, <2>17, <2>18 DEF RollingCap
<1>16. PaidAsApproved'
  <2>1. Paid' = Paid \cup {n} /\ n \notin Paid
    BY <1>3, <1>5 DEF Paid, IsControl
  <2>2. PICK f : f = [id \in Paid |-> proposals[id].action.amount]
    OBVIOUS
  <2>3. PICK g : g = [id \in Paid \cup {n} |-> proposals'[id].action.amount]
    OBVIOUS
  <2>4. IsFiniteSet(Paid) /\ \A id \in Paid : f[id] \in Nat
    BY <2>2, PaidFinite
  <2>5. \A id \in Paid : g[id] = f[id]
    BY <1>5, <2>2, <2>3 DEF Paid
  <2>6. g[n] = amount
    BY <1>1, <1>5, <2>3
  <2>7. /\ IsFiniteSet({n}) /\ Paid \cap {n} = {}
        /\ \A id \in Paid \cup {n} : g[id] \in Nat
    BY <1>4, <2>1, <2>4, <2>5, <2>6, FS_Singleton
  <2>8. Total(g, Paid \cup {n}) = Total(g, Paid) + Total(g, {n})
    BY <2>4, <2>7, TotalUnion
  <2>9. Total(g, {n}) = amount
    BY <1>4, <2>6, TotalSingle
  <2>10. Total(g, Paid) = Total(f, Paid)
    BY <2>5, TotalSame
  <2>11. Total(f, Paid) \in Nat
    BY <2>4, TotalType
  <2>12. balance + Total(f, Paid) = Total([b \in Donors |-> Wealth - wallet[b]], Donors)
    BY <2>2 DEF VaultInv, PaidAsApproved
  <2>13. balance' + Total(g, Paid \cup {n}) = balance + Total(f, Paid)
    BY <1>3, <1>4, <1>6, <2>8, <2>9, <2>10, <2>11
  <2>14. \A id \in Paid' : proposals'[id].action.to # Vault
    <3>1. \A id \in Paid : proposals'[id].action.to # Vault
      BY <1>5 DEF VaultInv, PaidAsApproved, Paid
    <3>2. proposals'[n].action.to # Vault
      BY <1>4, <1>5
    <3> QED BY <2>1, <3>1, <3>2
  <2>15. /\ Total([id \in Paid |-> proposals[id].action.amount], Paid)' = Total(g, Paid \cup {n})
         /\ Total([b \in Donors |-> Wealth - wallet[b]], Donors)'
              = Total([b \in Donors |-> Wealth - wallet[b]], Donors)
    BY <1>3, <2>1, <2>3
  <2> QED BY <2>12, <2>13, <2>14, <2>15 DEF PaidAsApproved
<1> QED BY <1>5, <1>11, <1>12, <1>13, <1>14, <1>15, <1>16 DEF VaultInv

-----------------------------------------------------------------------------
(* Theorems.                                                               *)

LEMMA VaultStep == VaultInv /\ [Next]_vars => VaultInv'
<1> SUFFICES ASSUME VaultInv, [Next]_vars PROVE VaultInv'
  OBVIOUS
<1>1. CASE UNCHANGED vars
  BY <1>1 DEF vars, controlVars, proposalVars, poolVars, VaultInv, TypeOK, Funded,
       AllPayable, LogKept, EndedEarlier, PaidAsApproved, RollingCap, ControlHistory,
       Paid, Ended, Window, AmountOf
<1>2. CASE CloseLedger
  BY <1>2, CloseLedgerKeeps
<1>3. ASSUME NEW a \in Donors, NEW amount \in Gifts,
             contribute(a, amount) \/ DirectDonation(a, amount)
      PROVE  VaultInv'
  <2>1. Give(a, amount)
    BY <1>3 DEF contribute, DirectDonation
  <2>2. contribution \in [Donors -> Nat] /\ amount \in Nat
    BY <2>1, VaultInputAssumption DEF VaultInv, TypeOK, Give
  <2>3. contribution' \in [Donors -> Nat]
    BY <1>3, <2>2 DEF contribute, DirectDonation
  <2> QED BY <2>1, <2>3, GiveKeeps
<1>4. ASSUME NEW a \in Accounts, NEW action \in Actions, propose(a, action)
      PROVE  VaultInv'
  BY <1>4, ProposeKeeps
<1>5. ASSUME NEW a \in Accounts, NEW id \in DOMAIN proposals,
             approve(a, id) \/ execute_disburse(a, id) \/ execute_control(a, id)
      PROVE  VaultInv'
  BY <1>5, ApproveKeeps, DisburseKeeps, ControlKeeps
<1> QED BY <1>1, <1>2, <1>3, <1>4, <1>5 DEF Next

LEMMA VaultInvHolds == Spec => []VaultInv
<1> QED BY VaultInit, VaultStep, PTL DEF Spec

\* Storage keeps the shape the contract declares.
THEOREM VaultTyped == Spec => []TypeOK
<1>1. VaultInv => TypeOK
  BY DEF VaultInv
<1> QED BY <1>1, VaultInvHolds, PTL

\* Every donated token is in the vault or was paid out by an executed
\* proposal, once each, and none to the vault itself (execute).
THEOREM PaidOnce == Spec => []PaidAsApproved
<1>1. VaultInv => PaidAsApproved
  BY DEF VaultInv
<1> QED BY <1>1, VaultInvHolds, PTL

\* No payout with those of the day before it exceeds the cap on its pool,
\* although every execution prunes the history (recent_spends, cap).
THEOREM CapNeverExceeded == Spec => []RollingCap
<1>1. VaultInv => RollingCap
  BY DEF VaultInv
<1> QED BY <1>1, VaultInvHolds, PTL

\* One control proposal ends each epoch, and the switch alternates: a stale
\* proposal never undoes a later pause (approve, execute).
THEOREM StaleControlHarmless == Spec => []ControlHistory
<1>1. VaultInv => ControlHistory
  BY DEF VaultInv
<1> QED BY <1>1, VaultInvHolds, PTL

\* What the timer of a proposal has to be.
Timed(id) ==
  LET p == proposals[id] IN
  /\ p.ready_ledger = IF HasQuorum(p) THEN Unlocked(id) ELSE None
  /\ p.executed => HasQuorum(p) /\ ledger >= Unlocked(id)

LEMMA TimerInit == Init => TimelockKept
<1>1. Init => DOMAIN proposals = {}
  BY DEF Init
<1> QED BY <1>1 DEF TimelockKept

\* A proposal that is left alone stays timed as ledgers close.
LEMMA TimerRests ==
  ASSUME VaultInv, NEW id \in DOMAIN proposals, Timed(id),
         proposals'[id] = proposals[id], quorum_at'[id] = quorum_at[id],
         ledger' \in Nat, ledger' >= ledger
  PROVE  Timed(id)'
<1>1. Unlocked(id)' = Unlocked(id)
  BY DEF Unlocked, IsControl
<1>2. Unlocked(id) \in Nat /\ ledger \in Nat
  <2>1. id \in Ids
    BY Identified
  <2>2. quorum_at \in [Ids -> Nat] /\ ledger \in 0..MaxLedger
    BY DEF VaultInv, TypeOK
  <2>3. quorum_at[id] \in Nat /\ ledger \in Nat /\ TIMELOCK_LEDGERS \in Nat
    BY <2>1, <2>2, ConfigAssumption, VaultInputAssumption
  <2> QED BY <2>3 DEF Unlocked
<1>3. proposals'[id].executed => ledger' >= Unlocked(id)
  BY <1>2 DEF Timed
<1> QED BY <1>1, <1>3 DEF Timed, HasQuorum

LEMMA ApproveTimes ==
  ASSUME VaultInv, TimelockKept, NEW a \in Accounts, NEW n \in DOMAIN proposals,
         approve(a, n)
  PROVE  Timed(n)'
<1>1. proposals[n] \in Proposal /\ n \in Ids
  BY ProposalShape, Identified DEF VaultInv
<1>2. PICK p : p = proposals[n]
  OBVIOUS
<1>3. PICK c : c = Cardinality(p.approvals)
  OBVIOUS
<1>4. PICK delay : delay = IF IsControl(p) THEN 0 ELSE TIMELOCK_LEDGERS
  OBVIOUS
<1>5. PICK timer : timer = IF c = 1 THEN ledger + delay ELSE p.ready_ledger
  OBVIOUS
<1>6. /\ proposals' = [proposals EXCEPT
           ![n].approvals = @ \cup {a}, ![n].ready_ledger = timer]
      /\ quorum_at' = [quorum_at EXCEPT ![n] = IF c = 1 THEN ledger ELSE @]
      /\ ~p.executed /\ a \notin p.approvals
  BY <1>2, <1>3, <1>4, <1>5 DEF approve, SecondApproval
<1>7. PICK q : q = [p EXCEPT !.approvals = @ \cup {a}, !.ready_ledger = timer]
  OBVIOUS
<1>8. proposals'[n] = q
  <2>1. proposals \in Seq(Proposal)
    BY DEF VaultInv, TypeOK, Proposal
  <2> QED BY <1>2, <1>6, <1>7, <2>1
<1>9. /\ q.approvals = p.approvals \cup {a} /\ q.ready_ledger = timer
      /\ ~q.executed /\ q.action = p.action
  <2>1. PICK r : r = [p EXCEPT !.approvals = @ \cup {a}]
    OBVIOUS
  <2>2. /\ r.approvals = p.approvals \cup {a} /\ r.action = p.action
        /\ r.executed = p.executed
        /\ r \in [action : Actions, approvals : SUBSET (Signers \cup {a}),
                  ready_ledger : Nat, executed : BOOLEAN, epoch : Nat]
    BY <1>1, <1>2, <2>1 DEF Proposal
  <2>3. q = [r EXCEPT !.ready_ledger = timer]
    BY <1>7, <2>1
  <2> QED BY <1>6, <2>2, <2>3
<1>10. c \in Nat /\ Cardinality(q.approvals) = c + 1
  <2>1. IsFiniteSet(p.approvals)
    <3>1. p.approvals \subseteq Accounts
      BY <1>1, <1>2, ConfigAssumption DEF Proposal
    <3> QED BY <3>1, ConfigAssumption, FS_Subset
  <2> QED BY <1>3, <1>6, <1>9, <2>1, FS_AddElement, FS_CardinalityType
<1>11. quorum_at'[n] = IF c = 1 THEN ledger ELSE quorum_at[n]
  BY <1>1, <1>6 DEF VaultInv, TypeOK
<1>12. Unlocked(n)' = quorum_at'[n] + delay /\ Unlocked(n) = quorum_at[n] + delay
  BY <1>2, <1>4, <1>8, <1>9 DEF Unlocked, IsControl
<1>13. p.ready_ledger = IF c >= 2 THEN quorum_at[n] + delay ELSE None
  BY <1>2, <1>3, <1>12 DEF TimelockKept, HasQuorum
<1>14. q.ready_ledger = IF c + 1 >= 2 THEN quorum_at'[n] + delay ELSE None
  <2>1. CASE c = 1
    BY <1>5, <1>9, <1>11, <2>1
  <2>2. CASE c # 1
    <3>1. c + 1 >= 2 <=> c >= 2
      BY <1>10, <2>2
    <3> QED BY <1>5, <1>9, <1>11, <1>13, <2>2, <3>1
  <2> QED BY <2>1, <2>2
<1> QED BY <1>8, <1>9, <1>10, <1>12, <1>14 DEF Timed, HasQuorum

LEMMA ExecuteTimes ==
  ASSUME VaultInv, TimelockKept, NEW a \in Accounts, NEW n \in DOMAIN proposals,
         Executable(a, n), proposals' = MarkExecuted(n),
         UNCHANGED <<ledger, quorum_at>>
  PROVE  Timed(n)'
<1>1. /\ proposals \in Seq(Proposal) /\ proposals[n] \in Proposal
  BY ProposalShape DEF VaultInv, TypeOK, Proposal
<1>2. proposals'[n] = [proposals[n] EXCEPT !.executed = TRUE]
  BY <1>1 DEF MarkExecuted
<1>3. /\ proposals'[n].approvals = proposals[n].approvals
      /\ proposals'[n].ready_ledger = proposals[n].ready_ledger
      /\ proposals'[n].action = proposals[n].action
  BY <1>1, <1>2 DEF Proposal
<1>4. Unlocked(n)' = Unlocked(n)
  BY <1>3 DEF Unlocked, IsControl
<1>5. HasQuorum(proposals[n]) /\ ledger >= proposals[n].ready_ledger
  BY DEF Executable, HasQuorum
<1>6. proposals[n].ready_ledger = Unlocked(n)
  BY <1>5 DEF TimelockKept
<1> QED BY <1>3, <1>4, <1>5, <1>6 DEF Timed, HasQuorum

LEMMA TimerStep == VaultInv /\ TimelockKept /\ [Next]_vars => TimelockKept'
<1> SUFFICES ASSUME VaultInv, TimelockKept, [Next]_vars
             PROVE  \A id \in DOMAIN proposals' : Timed(id)'
  BY DEF TimelockKept, Timed
<1>1. /\ proposals \in Seq(Proposal) /\ quorum_at \in [Ids -> Nat] /\ ledger \in Nat
      /\ \A id \in DOMAIN proposals : Timed(id)
  BY VaultInputAssumption DEF VaultInv, TypeOK, Proposal, TimelockKept, Timed
<1>2. CASE UNCHANGED <<proposals, quorum_at>> /\ ledger' \in {ledger, ledger + 1}
  <2>1. ledger' \in Nat /\ ledger' >= ledger
    BY <1>1, <1>2
  <2> QED BY <1>1, <1>2, <2>1, TimerRests
<1>3. ASSUME NEW a \in Accounts, NEW action \in Actions, propose(a, action)
      PROVE  \A id \in DOMAIN proposals' : Timed(id)'
  <2>1. /\ proposals' = Append(proposals, NewProposal(action))
        /\ UNCHANGED <<ledger, quorum_at>>
    BY <1>3 DEF propose, NewProposal
  <2>2. /\ \A id \in DOMAIN proposals : proposals'[id] = proposals[id]
        /\ \A id \in DOMAIN proposals' \ DOMAIN proposals : proposals'[id] = NewProposal(action)
    BY <1>1, <2>1
  <2>3. ASSUME NEW id \in DOMAIN proposals PROVE Timed(id)'
    BY <1>1, <2>1, <2>2, TimerRests
  <2>4. ASSUME NEW id \in DOMAIN proposals' \ DOMAIN proposals PROVE Timed(id)'
    <3>1. Cardinality({}) = 0
      BY FS_EmptySet
    <3>2. /\ ~HasQuorum(proposals'[id]) /\ ~proposals'[id].executed
          /\ proposals'[id].ready_ledger = None
      BY <2>2, <3>1 DEF NewProposal, HasQuorum
    <3> QED BY <3>2 DEF Timed
  <2> QED BY <2>3, <2>4
<1>4. ASSUME NEW a \in Accounts, NEW n \in DOMAIN proposals, approve(a, n)
      PROVE  \A id \in DOMAIN proposals' : Timed(id)'
  <2>1. /\ DOMAIN proposals' = DOMAIN proposals /\ ledger' = ledger
        /\ \A id \in DOMAIN proposals \ {n} : proposals'[id] = proposals[id]
        /\ \A id \in Ids \ {n} : quorum_at'[id] = quorum_at[id]
    BY <1>1, <1>4 DEF approve
  <2>2. ASSUME NEW id \in DOMAIN proposals \ {n} PROVE Timed(id)'
    <3>1. id \in Ids
      BY Identified
    <3> QED BY <1>1, <2>1, <3>1, TimerRests
  <2> QED BY <1>4, <2>1, <2>2, ApproveTimes
<1>5. ASSUME NEW a \in Accounts, NEW n \in DOMAIN proposals, Executable(a, n),
             proposals' = MarkExecuted(n), UNCHANGED <<ledger, quorum_at>>
      PROVE  \A id \in DOMAIN proposals' : Timed(id)'
  <2>1. /\ DOMAIN proposals' = DOMAIN proposals
        /\ \A id \in DOMAIN proposals \ {n} : proposals'[id] = proposals[id]
    BY <1>1, <1>5 DEF MarkExecuted
  <2>2. ASSUME NEW id \in DOMAIN proposals \ {n} PROVE Timed(id)'
    BY <1>1, <1>5, <2>1, TimerRests
  <2> QED BY <1>5, <2>1, <2>2, ExecuteTimes
<1> QED BY <1>2, <1>3, <1>4, <1>5 DEF Next, vars, proposalVars, CloseLedger,
           contribute, DirectDonation, Give, execute_disburse, execute_control

\* Exactly the second approval sets the ledger from which a proposal may be
\* executed, the timelock after its own, and no proposal is executed without
\* two approvals or before that ledger (approve, execute).
THEOREM PayoutsWait == Spec => []TimelockKept
<1> QED BY TimerInit, TimerStep, VaultInvHolds, PTL DEF Spec
=============================================================================
