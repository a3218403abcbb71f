----------------------- MODULE DonationCampaign_proofs -----------------------
(***************************************************************************)
(* Proofs about DonationCampaign, for any number of campaigns and donors,  *)
(* any configurations and amounts, and any order of calls.                 *)
(***************************************************************************)
EXTENDS DonationCampaign, FiniteSetTheorems, TLAPS

-----------------------------------------------------------------------------
(* Sums of amounts.                                                        *)

\* The coins of finitely many finite amounts are finitely many.
LEMMA TotalType ==
  ASSUME NEW S, IsFiniteSet(S), NEW f, \A x \in S : f[x] \in Nat
  PROVE  IsFiniteSet(Coins(f, S)) /\ Total(f, S) \in Nat
<1> DEFINE T == {{x} \X (1..f[x]) : x \in S}
           g == [x \in S |-> {x} \X (1..f[x])]
<1>1. g \in Surjection(S, T)
  BY DEF Surjection
<1>2. IsFiniteSet(T)
  BY <1>1, FS_Surjection
<1>3. \A U \in T : IsFiniteSet(U)
  <2> TAKE U \in T
  <2>1. PICK x \in S : U = {x} \X (1..f[x])
    OBVIOUS
  <2>2. IsFiniteSet({x})
    BY FS_Singleton
  <2>3. f[x] \in Int /\ 1 \in Int
    OBVIOUS
  <2>4. IsFiniteSet(1..f[x])
    BY <2>3, FS_Interval
  <2> QED BY <2>1, <2>2, <2>4, FS_Product
<1>4. IsFiniteSet(UNION T)
  BY <1>2, <1>3, FS_UNION
<1> QED BY <1>4, FS_CardinalityType DEF Coins, Total

\* Only the amounts at S matter.
LEMMA TotalSame ==
  ASSUME NEW S, NEW f, NEW g, \A x \in S : f[x] = g[x]
  PROVE  Total(f, S) = Total(g, S)
<1>1. Coins(f, S) = Coins(g, S)
  BY DEF Coins
<1> QED BY <1>1 DEF Total

LEMMA TotalZero ==
  ASSUME NEW S, NEW f, \A x \in S : f[x] = 0
  PROVE  Total(f, S) = 0
<1>1. Coins(f, S) = {}
  BY DEF Coins
<1> QED BY <1>1, FS_EmptySet DEF Total

LEMMA TotalSingle ==
  ASSUME NEW f, NEW x, f[x] \in Nat
  PROVE  Total(f, {x}) = f[x]
<1>1. Coins(f, {x}) = {x} \X (1..f[x])
  BY DEF Coins
<1>2. IsFiniteSet({x}) /\ Cardinality({x}) = 1
  BY FS_Singleton
<1>3. IsFiniteSet(1..f[x]) /\ Cardinality(1..f[x]) = f[x]
  BY FS_Interval
<1>4. Cardinality({x} \X (1..f[x])) = 1 * f[x]
  <2>1. Cardinality({x} \X (1..f[x])) = Cardinality({x}) * Cardinality(1..f[x])
    BY <1>2, <1>3, FS_Product, Zenon
  <2> QED BY <1>2, <1>3, <2>1, Zenon
<1>5. 1 * f[x] = f[x]
  OBVIOUS
<1> QED BY <1>1, <1>4, <1>5, Zenon DEF Total

\* Disjoint sets add up.
LEMMA TotalUnion ==
  ASSUME NEW S, IsFiniteSet(S), NEW T, IsFiniteSet(T), S \cap T = {},
         NEW f, \A x \in S \cup T : f[x] \in Nat
  PROVE  Total(f, S \cup T) = Total(f, S) + Total(f, T)
<1>1. IsFiniteSet(Coins(f, S)) /\ IsFiniteSet(Coins(f, T))
  BY TotalType
<1>2. Coins(f, S \cup T) = Coins(f, S) \cup Coins(f, T)
  BY DEF Coins
<1>3. Coins(f, S) \cap Coins(f, T) = {}
  <2>1. ASSUME NEW p, p \in Coins(f, S), p \in Coins(f, T)
        PROVE  FALSE
    <3>1. PICK x \in S : p \in {x} \X (1..f[x])
      BY <2>1 DEF Coins
    <3>2. PICK y \in T : p \in {y} \X (1..f[y])
      BY <2>1 DEF Coins
    <3>3. p[1] = x /\ p[1] = y
      BY <3>1, <3>2
    <3> QED BY <3>3
  <2> QED BY <2>1
<1>4. Cardinality(Coins(f, S) \cap Coins(f, T)) = 0
  BY <1>3, FS_EmptySet
<1>5. /\ Cardinality(Coins(f, S)) \in Nat
      /\ Cardinality(Coins(f, T)) \in Nat
  BY <1>1, FS_CardinalityType
<1>6. Cardinality(Coins(f, S) \cup Coins(f, T))
        = Cardinality(Coins(f, S)) + Cardinality(Coins(f, T)) - 0
  BY <1>1, <1>4, FS_Union
<1>7. Cardinality(Coins(f, S) \cup Coins(f, T))
        = Cardinality(Coins(f, S)) + Cardinality(Coins(f, T))
  BY <1>5, <1>6
<1> QED BY <1>2, <1>7, Zenon DEF Total

\* One element's amount and the rest.
LEMMA TotalSplit ==
  ASSUME NEW S, IsFiniteSet(S), NEW f, \A y \in S : f[y] \in Nat, NEW x \in S
  PROVE  /\ Total(f, S) = f[x] + Total(f, S \ {x})
         /\ Total(f, S \ {x}) \in Nat
<1>1. IsFiniteSet({x}) /\ IsFiniteSet(S \ {x})
  BY FS_Singleton, FS_RemoveElement
<1>2. S = {x} \cup (S \ {x}) /\ {x} \cap (S \ {x}) = {}
  OBVIOUS
<1>3. Total(f, {x} \cup (S \ {x})) = Total(f, {x}) + Total(f, S \ {x})
  BY <1>1, <1>2, TotalUnion
<1>4. Total(f, {x}) = f[x]
  BY TotalSingle
<1>5. Total(f, S \ {x}) \in Nat
  BY <1>1, TotalType
<1> QED BY <1>2, <1>3, <1>4, <1>5

\* What changes at one element changes the total.
LEMMA TotalChange ==
  ASSUME NEW S, IsFiniteSet(S), NEW x \in S,
         NEW f, \A y \in S : f[y] \in Nat,
         NEW g, \A y \in S : g[y] \in Nat,
         \A y \in S \ {x} : g[y] = f[y]
  PROVE  /\ Total(g, S) = Total(f, S) - f[x] + g[x]
         /\ Total(f, S) \in Nat /\ f[x] <= Total(f, S)
<1>1. Total(f, S) = f[x] + Total(f, S \ {x}) /\ Total(f, S \ {x}) \in Nat
  BY TotalSplit
<1>2. Total(g, S) = g[x] + Total(g, S \ {x})
  BY TotalSplit
<1>3. Total(g, S \ {x}) = Total(f, S \ {x})
  BY TotalSame
<1> QED BY <1>1, <1>2, <1>3

-----------------------------------------------------------------------------
(* Basis points.                                                           *)

LEMMA DivWhole ==
  ASSUME NEW w \in Nat \ {0}, NEW q \in Nat, NEW r \in Nat
  PROVE  (q * w + r) \div w = q + r \div w
OBVIOUS

\* The quotient and remainder form gives the exact floor, and never more than
\* the amount.
LEMMA FloorShareExact ==
  ASSUME NEW amount \in Nat, NEW bps \in Nat, NEW whole \in Nat \ {0}
  PROVE  /\ FloorShare(amount, bps, whole) = (amount * bps) \div whole
         /\ FloorShare(amount, bps, whole) \in Nat
         /\ bps <= whole => FloorShare(amount, bps, whole) <= amount
<1> DEFINE q == amount \div whole
           r == amount % whole
<1>1. q \in Nat /\ r \in Nat /\ amount = q * whole + r
  OBVIOUS
<1> HIDE DEF q, r
<1>2. amount * bps = (q * bps) * whole + r * bps
  <2>1. amount * bps = (q * whole + r) * bps
    BY <1>1
  <2>2. (q * whole + r) * bps = (q * bps) * whole + r * bps
    BY <1>1
  <2> QED BY <2>1, <2>2
<1>3. q * bps \in Nat /\ r * bps \in Nat
  BY <1>1
<1>4. ((q * bps) * whole + r * bps) \div whole = q * bps + (r * bps) \div whole
  BY <1>3, DivWhole
<1>5. FloorShare(amount, bps, whole) = q * bps + (r * bps) \div whole
  BY DEF FloorShare, q, r
<1>6. (r * bps) \div whole \in Nat
  BY <1>3
<1>7. bps <= whole => q * bps + (r * bps) \div whole <= amount
  <2>1. SUFFICES ASSUME bps <= whole
                 PROVE  q * bps + (r * bps) \div whole <= amount
    OBVIOUS
  <2>2. q * bps <= q * whole
    BY <1>1, <2>1
  <2>3. r * bps <= r * whole
    BY <1>1, <2>1
  <2>4. (r * bps) \div whole <= r
    BY <1>1, <1>3, <2>3
  <2> QED BY <1>1, <1>3, <1>6, <2>2, <2>4
<1> QED BY <1>2, <1>3, <1>4, <1>5, <1>6, <1>7

-----------------------------------------------------------------------------
(* The inductive invariant.                                                *)

Shaped == TypeOK /\ approvals \in [Campaigns -> SUBSET Accounts]

TermsKept(c) ==
  /\ c \in Configs /\ c.creator_cut_bps <= MAX_CUT
  /\ c.creator # Self /\ c.beneficiary # Self
  /\ c.funding_deadline < c.review_deadline

\* A campaign exists once its id is handed out, and nothing is stored for an
\* id before.  What it collected is what its donors paid; what it holds is
\* what it still owes them, until it has paid out or given everything back;
\* and the first refund ends every other way on.
CampaignAt(id) ==
  /\ state[id] = "Missing" <=> id >= next_id
  /\ state[id] = "Missing" =>
       total[id] = 0 /\ paid[id] = [d \in Donors |-> 0] /\ approvals[id] = {}
  /\ state[id] # "Missing" => TermsKept(config[id])
  /\ total[id] = Total(paid[id], Donors)
  /\ escrow[id] = IF state[id] \in {"Released", "Closed"} THEN 0 ELSE Unrefunded(id)
  /\ state[id] \notin {"Refundable", "Closed"} => refunded[id] = {}

Pooled == vault = Total(escrow, Campaigns)

CampaignInv ==
  Shaped /\ (\A id \in Campaigns : CampaignAt(id)) /\ Pooled /\ AccountsSettled

LEMMA DonorsFinite == IsFiniteSet(Donors) /\ IsFiniteSet(Campaigns)
<1>1. IsFiniteSet(Donors)
  BY CampaignAssumption, FS_Subset
<1>2. IsFiniteSet(Campaigns)
  BY CampaignAssumption, FS_Interval DEF Campaigns
<1> QED BY <1>1, <1>2

LEMMA CampaignInit == Init => CampaignInv
<1> SUFFICES ASSUME Init PROVE CampaignInv
  OBVIOUS
<1> USE CampaignAssumption
<1>1. Shaped
  BY DEF Init, Shaped, TypeOK, Campaigns, States
<1>2. \A S, id : id \in Campaigns => Total(paid[id], S \cap Donors) = 0
  <2> TAKE S, id
  <2> HAVE id \in Campaigns
  <2>1. \A d \in S \cap Donors : paid[id][d] = 0
    BY DEF Init
  <2> QED BY <2>1, TotalZero
<1>3. ASSUME NEW id \in Campaigns PROVE CampaignAt(id)
  <2>1. Total(paid[id], Donors) = 0 /\ Unrefunded(id) = 0
    <3>1. Donors \cap Donors = Donors /\ (Donors \ refunded[id]) \cap Donors = Donors \ refunded[id]
      OBVIOUS
    <3> QED BY <1>2, <3>1 DEF Unrefunded
  <2>2. id >= 1
    BY DEF Campaigns
  <2> QED BY <2>1, <2>2 DEF Init, CampaignAt
<1>4. Pooled
  <2>1. \A id \in Campaigns : escrow[id] = 0
    BY DEF Init
  <2>2. Total(escrow, Campaigns) = 0
    BY <2>1, TotalZero
  <2> QED BY <2>2 DEF Init, Pooled
<1>5. AccountsSettled
  <2> SUFFICES ASSUME NEW a \in Accounts
               PROVE  wallet[a] = (IF a \in Donors THEN Wealth ELSE 0)
                        - Total(Given(a), Campaigns) + Total(Received(a), Campaigns)
    BY DEF AccountsSettled
  <2>1. \A id \in Campaigns : Given(a)[id] = 0 /\ Received(a)[id] = 0
    BY DEF Init, Given, Received
  <2>2. Total(Given(a), Campaigns) = 0 /\ Total(Received(a), Campaigns) = 0
    BY <2>1, TotalZero
  <2>3. wallet[a] = IF a \in Donors THEN Wealth ELSE 0
    BY DEF Init
  <2> QED BY <2>2, <2>3
<1> QED BY <1>1, <1>3, <1>4, <1>5 DEF CampaignInv

-----------------------------------------------------------------------------
(* What one campaign's change does to the sums over all of them.           *)

\* A campaign no part of which changes is as it was.
LEMMA OthersKept ==
  ASSUME NEW id \in Campaigns, CampaignAt(id),
         state'[id] = state[id], config'[id] = config[id],
         total'[id] = total[id], escrow'[id] = escrow[id],
         approvals'[id] = approvals[id], paid'[id] = paid[id],
         refunded'[id] = refunded[id],
         id >= next_id' <=> id >= next_id
  PROVE  CampaignAt(id)'
BY DEF CampaignAt, Unrefunded

\* The share of a campaign with accepted terms is an amount.
LEMMA ShareType ==
  ASSUME Shaped, NEW id \in Campaigns, TermsKept(config[id]), NEW a
  PROVE  Share(id, a) \in Nat
<1> DEFINE bps == config[id].creator_cut_bps
           cut == (total[id] * bps) \div BPS
<1>1. total[id] \in Nat /\ bps \in Nat /\ bps <= BPS
  BY CampaignAssumption DEF Shaped, TypeOK, TermsKept
<1>2. cut \in Nat /\ cut <= total[id]
  <2> HIDE DEF bps
  <2>1. BPS \in Nat \ {0}
    BY CampaignAssumption
  <2>2. /\ FloorShare(total[id], bps, BPS) = (total[id] * bps) \div BPS
        /\ FloorShare(total[id], bps, BPS) \in Nat
        /\ bps <= BPS => FloorShare(total[id], bps, BPS) <= total[id]
    BY <1>1, <2>1, FloorShareExact, Zenon
  <2> QED BY <1>1, <2>2, Zenon DEF cut
<1> HIDE DEF cut
<1>3. total[id] - cut \in Nat
  BY <1>1, <1>2
<1>4. Share(id, a) = (IF a = config[id].creator THEN cut ELSE 0)
                       + (IF a = config[id].beneficiary THEN total[id] - cut ELSE 0)
  BY DEF Share, cut
<1> QED BY <1>2, <1>3, <1>4

LEMMA AccountsTyped ==
  ASSUME CampaignInv, NEW a \in Accounts, NEW id \in Campaigns
  PROVE  Given(a)[id] \in Nat /\ Received(a)[id] \in Nat
<1>1. Given(a)[id] \in Nat
  BY DEF CampaignInv, Shaped, TypeOK, Given
<1>2. state[id] = "Released" => Share(id, a) \in Nat
  <2>1. state[id] = "Released" => TermsKept(config[id])
    BY DEF CampaignInv, CampaignAt
  <2> QED BY <2>1, ShareType DEF CampaignInv
<1>3. Received(a)[id] \in Nat
  BY <1>2 DEF Received
<1> QED BY <1>1, <1>3

LEMMA SettledStep ==
  ASSUME CampaignInv, NEW a \in Accounts, NEW id \in Campaigns,
         \A q \in Campaigns \ {id} :
           Given(a)'[q] = Given(a)[q] /\ Received(a)'[q] = Received(a)[q],
         Given(a)'[id] \in Nat, Received(a)'[id] \in Nat,
         wallet'[a] = wallet[a] + (Given(a)[id] - Given(a)'[id])
                                + (Received(a)'[id] - Received(a)[id])
  PROVE  wallet'[a] = (IF a \in Donors THEN Wealth ELSE 0)
           - Total(Given(a)', Campaigns) + Total(Received(a)', Campaigns)
<1> DEFINE g == Given(a)
           h == Given(a)'
           s == Received(a)
           t == Received(a)'
           own == IF a \in Donors THEN Wealth ELSE 0
<1>1. /\ \A q \in Campaigns : g[q] \in Nat /\ s[q] \in Nat
      /\ \A q \in Campaigns : h[q] \in Nat /\ t[q] \in Nat
  BY AccountsTyped
<1>2. wallet[a] = own - Total(g, Campaigns) + Total(s, Campaigns)
  BY DEF CampaignInv, AccountsSettled
<1>3. /\ \A q \in Campaigns \ {id} : h[q] = g[q] /\ t[q] = s[q]
      /\ wallet'[a] = wallet[a] + (g[id] - h[id]) + (t[id] - s[id])
  OBVIOUS
<1>4. own \in Nat
  BY CampaignAssumption
<1> HIDE DEF g, h, s, t, own
<1>5. /\ Total(h, Campaigns) = Total(g, Campaigns) - g[id] + h[id]
      /\ Total(g, Campaigns) \in Nat
  BY <1>1, <1>3, DonorsFinite, TotalChange
<1>6. /\ Total(t, Campaigns) = Total(s, Campaigns) - s[id] + t[id]
      /\ Total(s, Campaigns) \in Nat
  BY <1>1, <1>3, DonorsFinite, TotalChange
<1>7. wallet'[a] = own - Total(h, Campaigns) + Total(t, Campaigns)
  BY <1>1, <1>2, <1>3, <1>4, <1>5, <1>6
<1> QED BY <1>7 DEF own, h, t

LEMMA PooledStep ==
  ASSUME Shaped, Pooled, NEW id \in Campaigns,
         escrow' \in [Campaigns -> Nat],
         \A q \in Campaigns \ {id} : escrow'[q] = escrow[q],
         vault' = vault + (escrow'[id] - escrow[id])
  PROVE  Pooled'
<1>1. /\ \A q \in Campaigns : escrow[q] \in Nat
      /\ \A q \in Campaigns : escrow'[q] \in Nat
  BY DEF Shaped, TypeOK
<1>2. /\ Total(escrow', Campaigns) = Total(escrow, Campaigns) - escrow[id] + escrow'[id]
      /\ Total(escrow, Campaigns) \in Nat
  BY <1>1, DonorsFinite, TotalChange
<1>3. Total(escrow', Campaigns) = vault'
  BY <1>1, <1>2 DEF Pooled
<1> QED BY <1>3 DEF Pooled

\* The calls that move no tokens leave the sums alone.
LEMMA StillMoney ==
  ASSUME CampaignInv, UNCHANGED <<paid, refunded, wallet, vault, escrow>>,
         \A id \in Campaigns :
           \/ state'[id] = state[id] /\ config'[id] = config[id] /\ total'[id] = total[id]
           \/ state[id] # "Released" /\ state'[id] # "Released"
  PROVE  Pooled' /\ AccountsSettled'
<1>1. Pooled'
  BY DEF CampaignInv, Pooled
<1>2. AccountsSettled'
  <2> SUFFICES ASSUME NEW a \in Accounts
               PROVE  (wallet[a] = (IF a \in Donors THEN Wealth ELSE 0)
                        - Total(Given(a), Campaigns) + Total(Received(a), Campaigns))'
    BY DEF AccountsSettled
  <2>1. Given(a)' = Given(a)
    BY DEF Given
  <2>2. \A id \in Campaigns : Received(a)'[id] = Received(a)[id]
    BY DEF Received, Share
  <2>3. Total(Received(a)', Campaigns) = Total(Received(a), Campaigns)
    BY <2>2, TotalSame
  <2> QED BY <2>1, <2>3 DEF CampaignInv, AccountsSettled
<1> QED BY <1>1, <1>2

-----------------------------------------------------------------------------
(* The invariant through every call.                                       *)

LEMMA ClockKept == CampaignInv /\ Tick => CampaignInv'
<1> SUFFICES ASSUME CampaignInv, Tick PROVE CampaignInv'
  OBVIOUS
<1>1. /\ UNCHANGED <<next_id, config, state, proof, approvals>>
      /\ UNCHANGED <<total, escrow, paid, refunded, wallet, vault>>
  BY DEF Tick, createVars, reviewVars, moneyVars
<1>2. Shaped'
  BY <1>1, CampaignAssumption DEF CampaignInv, Shaped, TypeOK, Tick
<1>3. \A id \in Campaigns : CampaignAt(id)'
  BY <1>1, OthersKept DEF CampaignInv
<1>4. Pooled' /\ AccountsSettled'
  BY <1>1, StillMoney
<1> QED BY <1>2, <1>3, <1>4 DEF CampaignInv

LEMMA CreateKept ==
  ASSUME CampaignInv, NEW c \in Configs, create(c)
  PROVE  CampaignInv'
<1> DEFINE new == next_id
<1>1. /\ new \in Campaigns /\ next_id' = new + 1
      /\ config' = [config EXCEPT ![new] = c]
      /\ state' = [state EXCEPT ![new] = "Funding"]
  BY CampaignAssumption DEF create, CampaignInv, Shaped, TypeOK, Campaigns
<1>2. UNCHANGED <<now, proof, approvals, total, escrow, paid, refunded, wallet, vault>>
  BY DEF create, reviewVars, moneyVars
<1>3. state[new] = "Missing" /\ CampaignAt(new) /\ new \in Nat
  BY <1>1 DEF CampaignInv, CampaignAt, Campaigns
<1>4. TermsKept(c)
  BY DEF create, ConfigValid, TermsKept
<1> HIDE DEF new
<1>5. Shaped'
  <2>1. /\ next_id' \in 1..(MaxCampaigns + 1)
        /\ config' \in [Campaigns -> Configs \cup {NoConfig}]
        /\ state' \in [Campaigns -> States \cup {"Missing"}]
    BY <1>1, CampaignAssumption DEF CampaignInv, Shaped, TypeOK, Campaigns, States
  <2>2. \A id \in Campaigns : approvals'[id] \subseteq config'[id].approvers
    BY <1>1, <1>2, <1>3 DEF CampaignInv, Shaped, TypeOK, CampaignAt
  <2> QED BY <1>2, <2>1, <2>2 DEF CampaignInv, Shaped, TypeOK
<1>6. ASSUME NEW id \in Campaigns PROVE CampaignAt(id)'
  <2>1. CASE id = new
    <3>1. state'[id] = "Funding" /\ config'[id] = c /\ ~(id >= next_id')
      BY <1>1, <1>3, <2>1 DEF CampaignInv, Shaped, TypeOK
    <3> QED BY <1>2, <1>3, <1>4, <2>1, <3>1 DEF CampaignAt, Unrefunded
  <2>2. CASE id # new
    <3>1. state'[id] = state[id] /\ config'[id] = config[id]
      BY <1>1, <2>2 DEF CampaignInv, Shaped, TypeOK
    <3>2. id >= next_id' <=> id >= next_id
      BY <1>1, <2>2 DEF Campaigns, new
    <3>3. CampaignAt(id)
      BY DEF CampaignInv
    <3> QED BY <1>2, <3>1, <3>2, <3>3, OthersKept
  <2> QED BY <2>1, <2>2
<1>7. Pooled' /\ AccountsSettled'
  <2>1. \A id \in Campaigns \ {new} : state'[id] = state[id] /\ config'[id] = config[id]
    BY <1>1 DEF CampaignInv, Shaped, TypeOK
  <2>2. state[new] # "Released" /\ state'[new] # "Released"
    BY <1>1, <1>3 DEF CampaignInv, Shaped, TypeOK
  <2> QED BY <1>2, <2>1, <2>2, StillMoney
<1> QED BY <1>5, <1>6, <1>7 DEF CampaignInv

LEMMA ProofKept ==
  ASSUME CampaignInv, NEW id \in Campaigns, NEW hash \in Proofs, submit_proof(id, hash)
  PROVE  CampaignInv'
<1>1. /\ state[id] = "Funding" /\ state' = [state EXCEPT ![id] = "PendingProof"]
      /\ proof' = [proof EXCEPT ![id] = hash]
  BY DEF submit_proof
<1>2. UNCHANGED <<now, next_id, config, approvals, total, escrow, paid, refunded, wallet, vault>>
  BY DEF submit_proof, createVars, moneyVars
<1>3. Shaped'
  BY <1>1, <1>2 DEF CampaignInv, Shaped, TypeOK, States
<1>4. /\ state'[id] = "PendingProof"
      /\ \A q \in Campaigns \ {id} : state'[q] = state[q]
  BY <1>1 DEF CampaignInv, Shaped, TypeOK
<1>5. ASSUME NEW q \in Campaigns PROVE CampaignAt(q)'
  <2>1. CampaignAt(q)
    BY DEF CampaignInv
  <2>2. CASE q = id
    BY <1>1, <1>2, <1>4, <2>1, <2>2 DEF CampaignAt, Unrefunded
  <2>3. CASE q # id
    BY <1>2, <1>4, <2>1, <2>3, OthersKept
  <2> QED BY <2>2, <2>3
<1>6. Pooled' /\ AccountsSettled'
  BY <1>1, <1>2, <1>4, StillMoney
<1> QED BY <1>3, <1>5, <1>6 DEF CampaignInv

LEMMA ApproveKept ==
  ASSUME CampaignInv, NEW id \in Campaigns, NEW a \in Accounts, NEW hash \in Proofs,
         approve(id, a, hash)
  PROVE  CampaignInv'
<1>1. /\ state[id] = "PendingProof" /\ a \in config[id].approvers
      /\ approvals' = [approvals EXCEPT ![id] = @ \cup {a}]
  BY DEF approve, IsApprover
<1>2. UNCHANGED <<now, next_id, config, state, proof, total, escrow, paid, refunded, wallet, vault>>
  BY DEF approve, createVars, moneyVars
<1>3. Shaped'
  BY <1>1, <1>2 DEF CampaignInv, Shaped, TypeOK
<1>4. ASSUME NEW q \in Campaigns PROVE CampaignAt(q)'
  <2>1. CampaignAt(q)
    BY DEF CampaignInv
  <2>2. CASE q = id
    BY <1>1, <1>2, <2>1, <2>2 DEF CampaignAt, Unrefunded
  <2>3. CASE q # id
    <3>1. approvals'[q] = approvals[q]
      BY <1>1, <2>3 DEF CampaignInv, Shaped, TypeOK
    <3> QED BY <1>2, <2>1, <3>1, OthersKept
  <2> QED BY <2>2, <2>3
<1>5. Pooled' /\ AccountsSettled'
  BY <1>2, StillMoney
<1> QED BY <1>3, <1>4, <1>5 DEF CampaignInv

LEMMA DonateKept ==
  ASSUME CampaignInv, NEW id \in Campaigns, NEW d \in Donors, NEW amount \in Gifts,
         donate(id, d, amount)
  PROVE  CampaignInv'
<1>1. /\ state[id] = "Funding" /\ amount \in Nat /\ amount > 0 /\ wallet[d] >= amount
      /\ paid' = [paid EXCEPT ![id][d] = @ + amount]
      /\ total' = [total EXCEPT ![id] = @ + amount]
      /\ escrow' = [escrow EXCEPT ![id] = @ + amount]
      /\ wallet' = [wallet EXCEPT ![d] = @ - amount]
      /\ vault' = vault + amount
  BY CampaignAssumption DEF donate
<1>2. UNCHANGED <<now, next_id, config, state, proof, approvals, refunded>>
  BY DEF donate, createVars, reviewVars
<1>3. /\ paid \in [Campaigns -> [Donors -> Nat]] /\ wallet \in [Accounts -> Nat]
      /\ total \in [Campaigns -> Nat] /\ escrow \in [Campaigns -> Nat] /\ vault \in Nat
      /\ CampaignAt(id) /\ d \in Accounts
  BY CampaignAssumption DEF CampaignInv, Shaped, TypeOK
<1>4. /\ paid'[id] = [paid[id] EXCEPT ![d] = @ + amount]
      /\ total'[id] = total[id] + amount /\ escrow'[id] = escrow[id] + amount
      /\ \A q \in Campaigns \ {id} :
           paid'[q] = paid[q] /\ total'[q] = total[q] /\ escrow'[q] = escrow[q]
  BY <1>1, <1>3
<1>5. Shaped'
  <2>1. paid' \in [Campaigns -> [Donors -> Nat]]
    BY <1>1, <1>3
  <2>2. total' \in [Campaigns -> Nat] /\ escrow' \in [Campaigns -> Nat] /\ vault' \in Nat
    BY <1>1, <1>3
  <2>3. wallet' \in [Accounts -> Nat]
    BY <1>1, <1>3
  <2> QED BY <1>2, <2>1, <2>2, <2>3 DEF CampaignInv, Shaped, TypeOK
<1>6. ASSUME NEW q \in Campaigns PROVE CampaignAt(q)'
  <2>1. CASE q = id
    <3>1. /\ refunded[id] = {} /\ total[id] = Total(paid[id], Donors)
          /\ escrow[id] = Total(paid[id], Donors)
      BY <1>1, <1>3 DEF CampaignAt, Unrefunded
    <3>2. /\ \A x \in Donors : paid[id][x] \in Nat
          /\ \A x \in Donors : paid'[id][x] \in Nat
          /\ \A x \in Donors \ {d} : paid'[id][x] = paid[id][x]
          /\ paid'[id][d] = paid[id][d] + amount
      BY <1>1, <1>3, <1>4
    <3>3. /\ Total(paid'[id], Donors) = Total(paid[id], Donors) - paid[id][d] + paid'[id][d]
          /\ Total(paid[id], Donors) \in Nat
      BY <3>2, DonorsFinite, TotalChange
    <3>4. Total(paid'[id], Donors) = Total(paid[id], Donors) + amount
      BY <1>1, <3>2, <3>3
    <3>5. Unrefunded(id)' = Total(paid'[id], Donors)
      <4>1. Donors \ refunded'[id] = Donors
        BY <1>2, <3>1
      <4> QED BY <4>1, Zenon DEF Unrefunded
    <3>6. /\ total'[id] = Total(paid'[id], Donors)
          /\ escrow'[id] = Unrefunded(id)'
      BY <1>4, <3>1, <3>4, <3>5
    <3> QED BY <1>1, <1>2, <1>3, <2>1, <3>1, <3>6 DEF CampaignAt
  <2>2. CASE q # id
    BY <1>2, <1>4, <2>2, OthersKept DEF CampaignInv
  <2> QED BY <2>1, <2>2
<1>7. Pooled'
  <2>1. escrow' \in [Campaigns -> Nat]
    BY <1>5 DEF Shaped, TypeOK
  <2>2. vault' = vault + (escrow'[id] - escrow[id])
    BY <1>1, <1>3, <1>4
  <2> QED BY <1>4, <2>1, <2>2, PooledStep DEF CampaignInv
<1>8. AccountsSettled'
  <2> SUFFICES ASSUME NEW a \in Accounts
               PROVE  (wallet[a] = (IF a \in Donors THEN Wealth ELSE 0)
                        - Total(Given(a), Campaigns) + Total(Received(a), Campaigns))'
    BY DEF AccountsSettled
  <2>1. \A q \in Campaigns \ {id} :
          Given(a)'[q] = Given(a)[q] /\ Received(a)'[q] = Received(a)[q]
    BY <1>2, <1>4 DEF Given, Received, Share
  <2>2. Received(a)'[id] = 0 /\ Received(a)[id] = 0
    BY <1>1, <1>2 DEF Received
  <2>3. refunded[id] = {}
    BY <1>1, <1>3 DEF CampaignAt
  <2>4. CASE a = d
    <3>1. /\ Given(a)[id] = paid[id][d] /\ Given(a)'[id] = paid'[id][d]
          /\ paid[id][d] \in Nat /\ paid'[id][d] = paid[id][d] + amount
      BY <1>2, <1>3, <1>4, <2>3, <2>4 DEF Given
    <3>2. wallet'[a] = wallet[a] - amount /\ wallet[a] \in Nat
      BY <1>1, <1>3, <2>4
    <3>3. Given(a)'[id] \in Nat /\ Received(a)'[id] \in Nat
      BY <1>1, <2>2, <3>1
    <3>4. wallet'[a] = wallet[a] + (Given(a)[id] - Given(a)'[id])
                                 + (Received(a)'[id] - Received(a)[id])
      BY <1>1, <2>2, <3>1, <3>2
    <3> QED BY <2>1, <3>3, <3>4, SettledStep
  <2>5. CASE a # d
    <3>1. Given(a)'[id] = Given(a)[id] /\ Given(a)[id] \in Nat
      BY <1>2, <1>3, <1>4, <2>5 DEF Given
    <3>2. wallet'[a] = wallet[a] /\ wallet[a] \in Nat
      BY <1>1, <1>3, <2>5
    <3>3. wallet'[a] = wallet[a] + (Given(a)[id] - Given(a)'[id])
                                 + (Received(a)'[id] - Received(a)[id])
      BY <2>2, <3>1, <3>2
    <3> QED BY <2>1, <2>2, <3>1, <3>3, SettledStep
  <2> QED BY <2>4, <2>5
<1> QED BY <1>5, <1>6, <1>7, <1>8 DEF CampaignInv

\* The payout shares out everything donated, to the last token.
LEMMA ReleaseKept ==
  ASSUME CampaignInv, NEW id \in Campaigns, release(id)
  PROVE  CampaignInv'
<1> DEFINE c == config[id]
           Due(a) == (IF a = c.creator THEN CreatorShare(id) ELSE 0)
                       + (IF a = c.beneficiary THEN escrow[id] - CreatorShare(id) ELSE 0)
<1>1. /\ state[id] = "PendingProof" /\ vault >= escrow[id]
      /\ state' = [state EXCEPT ![id] = "Released"]
      /\ escrow' = [escrow EXCEPT ![id] = 0]
      /\ wallet' = [a \in Accounts |-> wallet[a] + Due(a)]
      /\ vault' = vault - escrow[id]
  BY DEF release, EscrowAfterRelease
<1>2. UNCHANGED <<now, next_id, config, proof, approvals, total, paid, refunded>>
  BY DEF release, createVars, reviewVars
<1>3. /\ state \in [Campaigns -> States \cup {"Missing"}] /\ escrow \in [Campaigns -> Nat]
      /\ wallet \in [Accounts -> Nat] /\ vault \in Nat /\ total[id] \in Nat
      /\ CampaignAt(id)
  BY DEF CampaignInv, Shaped, TypeOK
<1>4. /\ state'[id] = "Released" /\ escrow'[id] = 0
      /\ \A q \in Campaigns \ {id} : state'[q] = state[q] /\ escrow'[q] = escrow[q]
  BY <1>1, <1>3
<1>5. refunded[id] = {} /\ escrow[id] = total[id] /\ TermsKept(c)
  <2>1. refunded[id] = {} /\ escrow[id] = Unrefunded(id) /\ TermsKept(c)
        /\ total[id] = Total(paid[id], Donors)
    BY <1>1, <1>3 DEF CampaignAt
  <2>2. Donors \ refunded[id] = Donors
    BY <2>1
  <2> QED BY <2>1, <2>2, Zenon DEF Unrefunded
<1>6. /\ CreatorShare(id) = (total[id] * c.creator_cut_bps) \div BPS
      /\ CreatorShare(id) \in Nat /\ total[id] - CreatorShare(id) \in Nat
  <2>1. /\ c.creator_cut_bps \in Nat /\ c.creator_cut_bps <= BPS /\ BPS \in Nat \ {0}
    BY <1>5, CampaignAssumption DEF TermsKept
  <2>2. CreatorShare(id) = FloorShare(total[id], c.creator_cut_bps, BPS)
    BY <1>5, Zenon DEF CreatorShare
  <2> HIDE DEF c
  <2>3. LET share == FloorShare(total[id], c.creator_cut_bps, BPS) IN
        /\ share = (total[id] * c.creator_cut_bps) \div BPS
        /\ share \in Nat
        /\ c.creator_cut_bps <= BPS => share <= total[id]
    BY <1>3, <2>1, FloorShareExact, Zenon
  <2>4. /\ CreatorShare(id) = (total[id] * c.creator_cut_bps) \div BPS
        /\ CreatorShare(id) \in Nat /\ CreatorShare(id) <= total[id]
    BY <2>1, <2>2, <2>3, Zenon
  <2>5. total[id] - CreatorShare(id) \in Nat
    BY <1>3, <2>4
  <2> QED BY <2>4, <2>5
<1> HIDE DEF c
<1>7. \A a : Due(a) \in Nat /\ Due(a) = Share(id, a)
  <2> TAKE a
  <2>1. Due(a) = Share(id, a)
    BY <1>5, <1>6, Zenon DEF Share, c
  <2>2. Due(a) \in Nat
    BY <1>5, <1>6
  <2> QED BY <2>1, <2>2
<1> HIDE DEF Due
<1>8. Shaped'
  <2>1. state' \in [Campaigns -> States \cup {"Missing"}] /\ escrow' \in [Campaigns -> Nat]
    BY <1>1, <1>3 DEF States
  <2>2. wallet' \in [Accounts -> Nat] /\ vault' \in Nat
    BY <1>1, <1>3, <1>7
  <2> QED BY <1>2, <2>1, <2>2 DEF CampaignInv, Shaped, TypeOK
<1>9. ASSUME NEW q \in Campaigns PROVE CampaignAt(q)'
  <2>1. CASE q = id
    BY <1>1, <1>2, <1>3, <1>4, <1>5, <2>1 DEF CampaignAt, c
  <2>2. CASE q # id
    BY <1>2, <1>4, <2>2, OthersKept DEF CampaignInv
  <2> QED BY <2>1, <2>2
<1>10. Pooled'
  <2>1. vault' = vault + (escrow'[id] - escrow[id])
    BY <1>1, <1>3, <1>4
  <2> QED BY <1>4, <1>8, <2>1, PooledStep DEF CampaignInv, Shaped, TypeOK
<1>11. AccountsSettled'
  <2> SUFFICES ASSUME NEW a \in Accounts
               PROVE  (wallet[a] = (IF a \in Donors THEN Wealth ELSE 0)
                        - Total(Given(a), Campaigns) + Total(Received(a), Campaigns))'
    BY DEF AccountsSettled
  <2>1. Given(a)' = Given(a)
    BY <1>2 DEF Given
  <2>2. \A q \in Campaigns \ {id} : Received(a)'[q] = Received(a)[q]
    BY <1>2, <1>4 DEF Received, Share
  <2>3. Received(a)[id] = 0
    BY <1>1 DEF Received
  <2>4. Received(a)'[id] = Due(a)
    <3>1. Share(id, a)' = Share(id, a)
      BY <1>2 DEF Share
    <3> QED BY <1>4, <1>7, <3>1 DEF Received
  <2>5. Given(a)[id] \in Nat
    BY AccountsTyped
  <2>6. wallet'[a] = wallet[a] + Due(a) /\ wallet[a] \in Nat /\ Due(a) \in Nat
    BY <1>1, <1>3, <1>7
  <2>7. wallet'[a] = wallet[a] + (Given(a)[id] - Given(a)'[id])
                               + (Received(a)'[id] - Received(a)[id])
    BY <2>1, <2>3, <2>4, <2>5, <2>6
  <2> QED BY <2>1, <2>2, <2>4, <2>5, <2>6, <2>7, SettledStep
<1> QED BY <1>8, <1>9, <1>10, <1>11 DEF CampaignInv

\* What is left when one donor has been paid back.
LEMMA UnrefundedAfter ==
  ASSUME CampaignInv, NEW id \in Campaigns, NEW d \in Donors \ refunded[id]
  PROVE  LET rest == Total(paid[id], Donors \ (refunded[id] \cup {d})) IN
         /\ Unrefunded(id) = paid[id][d] + rest
         /\ rest \in Nat
<1> DEFINE S == Donors \ refunded[id]
<1>1. IsFiniteSet(S) /\ \A x \in S : paid[id][x] \in Nat
  BY DonorsFinite, FS_Subset DEF CampaignInv, Shaped, TypeOK
<1>2. Donors \ (refunded[id] \cup {d}) = S \ {d}
  OBVIOUS
<1>3. Unrefunded(id) = Total(paid[id], S)
  BY DEF Unrefunded
<1> HIDE DEF S
<1>4. d \in S
  BY DEF S
<1>5. Total(paid[id], S) = paid[id][d] + Total(paid[id], S \ {d}) /\ Total(paid[id], S \ {d}) \in Nat
  BY <1>1, <1>4, TotalSplit
<1> QED BY <1>2, <1>3, <1>5

LEMMA RefundKept ==
  ASSUME CampaignInv, NEW id \in Campaigns, NEW d \in Donors, refund(id, d)
  PROVE  CampaignInv'
<1> DEFINE left == escrow[id] - paid[id][d]
<1>1. /\ RefundOpen(id) /\ paid[id][d] > 0 /\ d \notin refunded[id]
      /\ left >= 0 /\ vault >= paid[id][d]
      /\ escrow' = [escrow EXCEPT ![id] = left]
      /\ state' = [state EXCEPT ![id] = IF left = 0 THEN "Closed" ELSE "Refundable"]
      /\ refunded' = [refunded EXCEPT ![id] = @ \cup {d}]
      /\ wallet' = [wallet EXCEPT ![d] = @ + paid[id][d]]
      /\ vault' = vault - paid[id][d]
  BY DEF refund, MarkRefunded
<1>2. UNCHANGED <<now, next_id, config, proof, approvals, total, paid>>
  BY DEF refund, createVars, reviewVars
<1>3. /\ state \in [Campaigns -> States \cup {"Missing"}] /\ escrow \in [Campaigns -> Nat]
      /\ wallet \in [Accounts -> Nat] /\ vault \in Nat /\ paid[id][d] \in Nat
      /\ refunded \in [Campaigns -> SUBSET Donors] /\ d \in Accounts
      /\ CampaignAt(id)
  BY CampaignAssumption DEF CampaignInv, Shaped, TypeOK
<1>4. /\ left \in Nat /\ escrow'[id] = left /\ refunded'[id] = refunded[id] \cup {d}
      /\ state'[id] = IF left = 0 THEN "Closed" ELSE "Refundable"
      /\ \A q \in Campaigns \ {id} :
           state'[q] = state[q] /\ escrow'[q] = escrow[q] /\ refunded'[q] = refunded[q]
  BY <1>1, <1>3
<1>5. Shaped'
  <2>1. state' \in [Campaigns -> States \cup {"Missing"}] /\ escrow' \in [Campaigns -> Nat]
    BY <1>1, <1>3, <1>4 DEF States
  <2>2. wallet' \in [Accounts -> Nat] /\ vault' \in Nat
    BY <1>1, <1>3
  <2>3. refunded' \in [Campaigns -> SUBSET Donors]
    BY <1>1, <1>3
  <2> QED BY <1>2, <2>1, <2>2, <2>3 DEF CampaignInv, Shaped, TypeOK
<1>6. left = Unrefunded(id)'
  <2>1. escrow[id] = Unrefunded(id)
    BY <1>1, <1>3 DEF CampaignAt, RefundOpen, Ended
  <2>2. /\ Unrefunded(id) = paid[id][d] + Total(paid[id], Donors \ (refunded[id] \cup {d}))
        /\ Total(paid[id], Donors \ (refunded[id] \cup {d})) \in Nat
    BY <1>1, UnrefundedAfter
  <2>3. Unrefunded(id)' = Total(paid[id], Donors \ (refunded[id] \cup {d}))
    BY <1>2, <1>4, Zenon DEF Unrefunded
  <2> QED BY <1>3, <2>1, <2>2, <2>3
<1> HIDE DEF left
<1>7. ASSUME NEW q \in Campaigns PROVE CampaignAt(q)'
  <2>1. CASE q = id
    <3>1. /\ state[id] # "Missing" /\ state'[id] \in {"Closed", "Refundable"}
          /\ state'[id] = "Closed" => left = 0
      BY <1>1, <1>4 DEF RefundOpen, Ended
    <3>2. /\ ~(id >= next_id') /\ TermsKept(config'[id])
          /\ total'[id] = Total(paid'[id], Donors)
      BY <1>2, <1>3, <3>1 DEF CampaignAt
    <3>3. escrow'[id] = IF state'[id] \in {"Released", "Closed"} THEN 0 ELSE Unrefunded(id)'
      BY <1>4, <1>6, <3>1
    <3> QED BY <2>1, <3>1, <3>2, <3>3 DEF CampaignAt
  <2>2. CASE q # id
    BY <1>2, <1>4, <2>2, OthersKept DEF CampaignInv
  <2> QED BY <2>1, <2>2
<1>8. Pooled'
  <2>1. vault' = vault + (escrow'[id] - escrow[id])
    BY <1>1, <1>3, <1>4 DEF left
  <2> QED BY <1>4, <1>5, <2>1, PooledStep DEF CampaignInv, Shaped, TypeOK
<1>9. AccountsSettled'
  <2> SUFFICES ASSUME NEW a \in Accounts
               PROVE  (wallet[a] = (IF a \in Donors THEN Wealth ELSE 0)
                        - Total(Given(a), Campaigns) + Total(Received(a), Campaigns))'
    BY DEF AccountsSettled
  <2>1. \A q \in Campaigns \ {id} :
          Given(a)'[q] = Given(a)[q] /\ Received(a)'[q] = Received(a)[q]
    BY <1>2, <1>4 DEF Given, Received, Share
  <2>2. Received(a)'[id] = 0 /\ Received(a)[id] = 0
    BY <1>1, <1>4 DEF Received, RefundOpen, Ended
  <2>3. Given(a)[id] \in Nat
    BY AccountsTyped
  <2>4. CASE a = d
    <3>1. Given(a)[id] = paid[id][d] /\ Given(a)'[id] = 0
      BY <1>1, <1>2, <1>4, <2>4 DEF Given
    <3>2. wallet'[a] = wallet[a] + paid[id][d] /\ wallet[a] \in Nat
      BY <1>1, <1>3, <2>4
    <3>3. wallet'[a] = wallet[a] + (Given(a)[id] - Given(a)'[id])
                                 + (Received(a)'[id] - Received(a)[id])
      BY <1>3, <2>2, <3>1, <3>2
    <3> QED BY <2>1, <2>2, <3>1, <3>3, SettledStep
  <2>5. CASE a # d
    <3>1. Given(a)'[id] = Given(a)[id]
      BY <1>2, <1>4, <2>5 DEF Given
    <3>2. wallet'[a] = wallet[a] /\ wallet[a] \in Nat
      BY <1>1, <1>3, <2>5
    <3>3. wallet'[a] = wallet[a] + (Given(a)[id] - Given(a)'[id])
                                 + (Received(a)'[id] - Received(a)[id])
      BY <2>2, <2>3, <3>1, <3>2
    <3> QED BY <2>1, <2>2, <2>3, <3>1, <3>3, SettledStep
  <2> QED BY <2>4, <2>5
<1> QED BY <1>5, <1>7, <1>8, <1>9 DEF CampaignInv

LEMMA CloseKept ==
  ASSUME CampaignInv, NEW id \in Campaigns, close_empty(id)
  PROVE  CampaignInv'
<1>1. /\ RefundOpen(id) /\ total[id] = 0 /\ state' = [state EXCEPT ![id] = "Closed"]
  BY DEF close_empty
<1>2. UNCHANGED <<now, next_id, config, proof, approvals, total, escrow, paid, refunded, wallet, vault>>
  BY DEF close_empty, createVars, reviewVars, moneyVars
<1>3. Shaped'
  BY <1>1, <1>2 DEF CampaignInv, Shaped, TypeOK, States
<1>4. /\ state'[id] = "Closed" /\ state[id] \notin {"Missing", "Released", "Closed"}
      /\ \A q \in Campaigns \ {id} : state'[q] = state[q]
  BY <1>1 DEF CampaignInv, Shaped, TypeOK, RefundOpen, Ended
<1>5. escrow[id] = 0
  <2>1. /\ Total(paid[id], Donors) = 0 /\ escrow[id] = Unrefunded(id)
    BY <1>1, <1>4 DEF CampaignInv, CampaignAt
  <2>2. \A d \in Donors : paid[id][d] \in Nat
    BY DEF CampaignInv, Shaped, TypeOK
  <2>3. \A d \in Donors \ refunded[id] : paid[id][d] = 0
    <3> TAKE d \in Donors \ refunded[id]
    <3>1. /\ Total(paid[id], Donors) = paid[id][d] + Total(paid[id], Donors \ {d})
          /\ Total(paid[id], Donors \ {d}) \in Nat
      BY <2>2, DonorsFinite, TotalSplit
    <3> QED BY <2>1, <2>2, <3>1
  <2>4. Unrefunded(id) = 0
    BY <2>3, TotalZero DEF Unrefunded
  <2> QED BY <2>1, <2>4
<1>6. ASSUME NEW q \in Campaigns PROVE CampaignAt(q)'
  <2>1. CampaignAt(q)
    BY DEF CampaignInv
  <2>2. CASE q = id
    BY <1>2, <1>4, <1>5, <2>1, <2>2 DEF CampaignAt
  <2>3. CASE q # id
    BY <1>2, <1>4, <2>1, <2>3, OthersKept
  <2> QED BY <2>2, <2>3
<1>7. Pooled' /\ AccountsSettled'
  BY <1>2, <1>4, StillMoney
<1> QED BY <1>3, <1>6, <1>7 DEF CampaignInv

LEMMA CampaignStep == CampaignInv /\ [Next]_vars => CampaignInv'
<1> SUFFICES ASSUME CampaignInv, [Next]_vars PROVE CampaignInv'
  OBVIOUS
<1>1. CASE UNCHANGED vars
  <2>1. /\ UNCHANGED <<now, next_id, config, state, proof, approvals>>
        /\ UNCHANGED <<total, escrow, paid, refunded, wallet, vault>>
    BY <1>1 DEF vars, createVars, reviewVars, moneyVars
  <2>2. Shaped'
    BY <2>1 DEF CampaignInv, Shaped, TypeOK
  <2>3. \A id \in Campaigns : CampaignAt(id)'
    BY <2>1, OthersKept DEF CampaignInv
  <2>4. Pooled' /\ AccountsSettled'
    BY <2>1, StillMoney
  <2> QED BY <2>2, <2>3, <2>4 DEF CampaignInv
<1>2. ASSUME NEW id \in Campaigns
      PROVE  /\ \A d \in Donors, amount \in Gifts : donate(id, d, amount) => CampaignInv'
             /\ \A hash \in Proofs : submit_proof(id, hash) => CampaignInv'
             /\ \A a \in Accounts, hash \in Proofs : approve(id, a, hash) => CampaignInv'
             /\ release(id) => CampaignInv'
             /\ \A d \in Donors : refund(id, d) => CampaignInv'
             /\ close_empty(id) => CampaignInv'
  BY DonateKept, ProofKept, ApproveKept, ReleaseKept, RefundKept, CloseKept
<1> QED BY <1>1, <1>2, ClockKept, CreateKept, Zenon DEF Next

LEMMA CampaignInvHolds == Spec => []CampaignInv
BY CampaignInit, CampaignStep, PTL DEF Spec

-----------------------------------------------------------------------------
(* What follows.                                                           *)

\* Every call keeps every stored entry within its type.
THEOREM CampaignTyped == Spec => []TypeOK
<1>1. CampaignInv => TypeOK
  BY DEF CampaignInv, Shaped
<1> QED BY <1>1, CampaignInvHolds, PTL

\* The one token balance is the sum of the campaigns' escrows, and each escrow
\* is exactly what its own donors are still owed.
THEOREM EscrowsBacked == Spec => []EscrowBacked
<1>1. CampaignInv => EscrowBacked
  BY DEF CampaignInv, Pooled, CampaignAt, EscrowBacked
<1> QED BY <1>1, CampaignInvHolds, PTL

\* Nobody ever has more or less than what the rules give them.
THEOREM EveryoneSettled == Spec => []AccountsSettled
<1>1. CampaignInv => AccountsSettled
  BY DEF CampaignInv
<1> QED BY <1>1, CampaignInvHolds, PTL

\* A donor's refund, once open, leaves enough in escrow for the others'.
LEMMA OthersStillOwed ==
  ASSUME CampaignInv, NEW id \in Campaigns, NEW d \in Donors \ refunded[id],
         NEW x \in Donors \ refunded[id], x # d, RefundOpen(id),
         paid[id][d] > 0
  PROVE  escrow[id] - paid[id][x] # 0
<1> DEFINE rest == Donors \ (refunded[id] \cup {x})
<1>1. escrow[id] = Unrefunded(id)
  BY DEF CampaignInv, CampaignAt, RefundOpen, Ended
<1>2. /\ Unrefunded(id) = paid[id][x] + Total(paid[id], rest)
      /\ Total(paid[id], rest) \in Nat
  BY UnrefundedAfter
<1>3. /\ IsFiniteSet(rest) /\ d \in rest /\ \A y \in rest : paid[id][y] \in Nat
      /\ paid[id][x] \in Nat
  BY DonorsFinite, FS_Subset DEF CampaignInv, Shaped, TypeOK
<1> HIDE DEF rest
<1>4. /\ Total(paid[id], rest) = paid[id][d] + Total(paid[id], rest \ {d})
      /\ Total(paid[id], rest \ {d}) \in Nat
  BY <1>3, TotalSplit
<1> QED BY <1>1, <1>2, <1>3, <1>4

LEMMA RefundRightStep ==
  ASSUME CampaignInv, [Next]_vars, NEW id \in Campaigns, NEW d \in Donors,
         RefundOpen(id), paid[id][d] > 0, d \notin refunded[id]
  PROVE  RefundOpen(id)' \/ d \in refunded'[id]
<1>1. /\ state[id] \notin {"Missing", "Released", "Closed"} /\ now >= config[id].review_deadline
      /\ ~Quorum(id) /\ TermsKept(config[id]) /\ ~(id >= next_id)
  BY DEF RefundOpen, Ended, CampaignInv, CampaignAt
<1>2. /\ now \in Nat /\ next_id \in Nat /\ config[id].review_deadline \in Nat
      /\ config[id].funding_deadline \in Nat
      /\ config[id].funding_deadline < config[id].review_deadline
  BY <1>1, CampaignAssumption DEF CampaignInv, Shaped, TypeOK, TermsKept
<1>3. ASSUME state'[id] = state[id], config'[id] = config[id], approvals'[id] = approvals[id],
             now' \in Nat, now' >= now
      PROVE  RefundOpen(id)'
  <2>1. now' >= config'[id].review_deadline
    BY <1>1, <1>2, <1>3
  <2> QED BY <1>1, <1>3, <2>1 DEF RefundOpen, Ended, Quorum
<1>4. ASSUME UNCHANGED vars PROVE RefundOpen(id)'
  BY <1>2, <1>3, <1>4 DEF vars, createVars, reviewVars
<1>5. ASSUME Tick PROVE RefundOpen(id)'
  BY <1>2, <1>3, <1>5 DEF Tick, createVars, reviewVars
<1>6. ASSUME NEW c \in Configs, create(c) PROVE RefundOpen(id)'
  <2>1. next_id # id
    BY <1>1, <1>2
  <2>2. state'[id] = state[id] /\ config'[id] = config[id]
    BY <1>6, <2>1 DEF create, CampaignInv, Shaped, TypeOK
  <2> QED BY <1>2, <1>3, <1>6, <2>2 DEF create, reviewVars
<1>7. ASSUME NEW q \in Campaigns
      PROVE  /\ \A x \in Donors, amount \in Gifts : donate(q, x, amount) => RefundOpen(id)'
             /\ \A hash \in Proofs : submit_proof(q, hash) => RefundOpen(id)'
             /\ \A a \in Accounts, hash \in Proofs : approve(q, a, hash) => RefundOpen(id)'
             /\ release(q) => RefundOpen(id)'
             /\ \A x \in Donors : refund(q, x) => RefundOpen(id)' \/ d \in refunded'[id]
             /\ close_empty(q) => RefundOpen(id)'
  <2>1. ASSUME NEW x \in Donors, NEW amount \in Gifts, donate(q, x, amount)
        PROVE  RefundOpen(id)'
    BY <1>2, <1>3, <2>1 DEF donate, createVars, reviewVars
  <2>2. ASSUME NEW hash \in Proofs, submit_proof(q, hash) PROVE RefundOpen(id)'
    <3>1. q # id
      BY <1>1, <1>2, <2>2 DEF submit_proof, ReviewOpen
    <3>2. state'[id] = state[id]
      BY <2>2, <3>1 DEF submit_proof, CampaignInv, Shaped, TypeOK
    <3> QED BY <1>2, <1>3, <2>2, <3>2 DEF submit_proof, createVars
  <2>3. ASSUME NEW a \in Accounts, NEW hash \in Proofs, approve(q, a, hash) PROVE RefundOpen(id)'
    <3>1. q # id
      BY <1>1, <1>2, <2>3 DEF approve, ReviewOpen
    <3>2. approvals'[id] = approvals[id]
      BY <2>3, <3>1 DEF approve, CampaignInv, Shaped, TypeOK
    <3> QED BY <1>2, <1>3, <2>3, <3>2 DEF approve, createVars
  <2>4. ASSUME release(q) PROVE RefundOpen(id)'
    <3>1. q # id
      BY <1>1, <2>4 DEF release, ReleaseReady
    <3>2. state'[id] = state[id]
      BY <2>4, <3>1 DEF release, CampaignInv, Shaped, TypeOK
    <3> QED BY <1>2, <1>3, <2>4, <3>2 DEF release, createVars, reviewVars
  <2>5. ASSUME NEW x \in Donors, refund(q, x) PROVE RefundOpen(id)' \/ d \in refunded'[id]
    <3>1. UNCHANGED <<now, config, approvals>>
      BY <2>5 DEF refund, createVars, reviewVars
    <3>2. CASE q # id
      <4>1. state'[id] = state[id]
        BY <2>5, <3>2 DEF refund, CampaignInv, Shaped, TypeOK
      <4> QED BY <1>2, <1>3, <3>1, <4>1
    <3>3. CASE q = id /\ x = d
      BY <2>5, <3>3 DEF refund, MarkRefunded, CampaignInv, Shaped, TypeOK
    <3>4. CASE q = id /\ x # d
      <4>1. escrow[id] - paid[id][x] # 0
        BY <2>5, <3>4, OthersStillOwed DEF refund
      <4>2. state'[id] = "Refundable"
        BY <2>5, <3>4, <4>1 DEF refund, CampaignInv, Shaped, TypeOK
      <4> QED BY <1>1, <3>1, <4>2 DEF RefundOpen, Ended, Quorum
    <3> QED BY <3>2, <3>3, <3>4
  <2>6. ASSUME close_empty(q) PROVE RefundOpen(id)'
    <3>1. q # id
      <4>1. SUFFICES ASSUME q = id PROVE FALSE
        OBVIOUS
      <4>2. Total(paid[id], Donors) = 0 /\ \A y \in Donors : paid[id][y] \in Nat
        BY <2>6, <4>1 DEF close_empty, CampaignInv, CampaignAt, Shaped, TypeOK
      <4>3. /\ Total(paid[id], Donors) = paid[id][d] + Total(paid[id], Donors \ {d})
            /\ Total(paid[id], Donors \ {d}) \in Nat
        BY <4>2, DonorsFinite, TotalSplit
      <4> QED BY <4>2, <4>3
    <3>2. state'[id] = state[id]
      BY <2>6, <3>1 DEF close_empty, CampaignInv, Shaped, TypeOK
    <3> QED BY <1>2, <1>3, <2>6, <3>2 DEF close_empty, createVars, reviewVars
  <2> QED BY <2>1, <2>2, <2>3, <2>4, <2>5, <2>6
<1> QED BY <1>4, <1>5, <1>6, <1>7, Zenon DEF Next

\* Once a donor may pull a refund no step of anybody takes that away.
THEOREM RefundRightHeld == Spec => RefundRightKept
<1>1. CampaignInv /\ [Next]_vars =>
        [\A id \in Campaigns, d \in Donors :
           (RefundOpen(id) /\ paid[id][d] > 0 /\ d \notin refunded[id])
             => RefundOpen(id)' \/ d \in refunded'[id]]_vars
  BY RefundRightStep, Zenon
<1> QED BY <1>1, CampaignInvHolds, PTL DEF Spec, RefundRightKept

LEMMA QuorumStep ==
  ASSUME CampaignInv, [Next]_vars, NEW id \in Campaigns,
         state[id] = "PendingProof", Quorum(id)
  PROVE  /\ state'[id] \in {"PendingProof", "Released"}
         /\ state'[id] = "PendingProof" => escrow'[id] = escrow[id]
<1>1. ~(id >= next_id) /\ next_id \in Nat
  BY CampaignAssumption DEF CampaignInv, CampaignAt, Shaped, TypeOK
<1>2. ASSUME state'[id] = state[id], escrow'[id] = escrow[id]
      PROVE  /\ state'[id] \in {"PendingProof", "Released"}
             /\ state'[id] = "PendingProof" => escrow'[id] = escrow[id]
  BY <1>2
<1>3. CASE UNCHANGED vars \/ Tick
  BY <1>2, <1>3 DEF vars, moneyVars, Tick
<1>4. CASE \E c \in Configs : create(c)
  <2>1. next_id # id
    BY <1>1
  <2> QED BY <1>2, <1>4, <2>1 DEF create, moneyVars, CampaignInv, Shaped, TypeOK
<1>5. ASSUME NEW q \in Campaigns,
             \/ \E x \in Donors, amount \in Gifts : donate(q, x, amount)
             \/ \E hash \in Proofs : submit_proof(q, hash)
             \/ \E a \in Accounts, hash \in Proofs : approve(q, a, hash)
             \/ \E x \in Donors : refund(q, x)
             \/ close_empty(q)
      PROVE  state'[id] = state[id] /\ escrow'[id] = escrow[id]
  <2>1. ASSUME NEW x \in Donors, NEW amount \in Gifts, donate(q, x, amount)
        PROVE  state'[id] = state[id] /\ escrow'[id] = escrow[id]
    BY <2>1 DEF donate, CampaignInv, Shaped, TypeOK
  <2>2. ASSUME NEW hash \in Proofs, submit_proof(q, hash)
        PROVE  state'[id] = state[id] /\ escrow'[id] = escrow[id]
    BY <2>2 DEF submit_proof, moneyVars, CampaignInv, Shaped, TypeOK
  <2>3. ASSUME NEW a \in Accounts, NEW hash \in Proofs, approve(q, a, hash)
        PROVE  state'[id] = state[id] /\ escrow'[id] = escrow[id]
    BY <2>3 DEF approve, moneyVars
  <2>4. ASSUME NEW x \in Donors, refund(q, x)
        PROVE  state'[id] = state[id] /\ escrow'[id] = escrow[id]
    BY <2>4 DEF refund, RefundOpen, CampaignInv, Shaped, TypeOK
  <2>5. ASSUME close_empty(q)
        PROVE  state'[id] = state[id] /\ escrow'[id] = escrow[id]
    BY <2>5 DEF close_empty, RefundOpen, moneyVars, CampaignInv, Shaped, TypeOK
  <2> QED BY <1>5, <2>1, <2>2, <2>3, <2>4, <2>5
<1>6. ASSUME NEW q \in Campaigns, release(q)
      PROVE  /\ state'[id] \in {"PendingProof", "Released"}
             /\ state'[id] = "PendingProof" => escrow'[id] = escrow[id]
  BY <1>6 DEF release, CampaignInv, Shaped, TypeOK
<1> QED BY <1>2, <1>3, <1>4, <1>5, <1>6 DEF Next

\* Another campaign's step, or one that keeps state and approvals, neither forms
\* a quorum nor pays out.
LEMMA ReviewStep ==
  ASSUME CampaignInv, [Next]_vars, NEW id \in Campaigns
  PROVE  /\ ~Quorum(id) /\ Quorum(id)' =>
              state[id] = "PendingProof" /\ now < config[id].review_deadline
         /\ state[id] # "Released" /\ state'[id] = "Released" =>
              state[id] = "PendingProof" /\ Quorum(id)
<1> DEFINE Kept == approvals'[id] = approvals[id]
           Unpaid == state'[id] = state[id] \/ state'[id] # "Released"
<1>1. Kept => (Quorum(id)' <=> Quorum(id))
  BY DEF Quorum
<1>2. CASE UNCHANGED vars \/ Tick
  <2>1. Kept /\ Unpaid
    BY <1>2 DEF vars, reviewVars, Tick
  <2> QED BY <1>1, <2>1
<1>3. CASE \E c \in Configs : create(c)
  <2>1. Kept /\ Unpaid
    BY <1>3 DEF create, reviewVars, CampaignInv, Shaped, TypeOK
  <2> QED BY <1>1, <2>1
<1>4. ASSUME NEW q \in Campaigns,
             \/ \E x \in Donors, amount \in Gifts : donate(q, x, amount)
             \/ \E hash \in Proofs : submit_proof(q, hash)
             \/ \E x \in Donors : refund(q, x)
             \/ close_empty(q)
      PROVE  Kept /\ Unpaid
  <2>1. Kept
    BY <1>4 DEF donate, submit_proof, refund, close_empty, reviewVars
  <2>2. CASE \E x \in Donors : refund(q, x)
    <3>1. PICK to \in {"Closed", "Refundable"} : state' = [state EXCEPT ![q] = to]
      BY <2>2 DEF refund
    <3>2. Unpaid
      BY <3>1 DEF CampaignInv, Shaped, TypeOK
    <3> QED BY <2>1, <3>2
  <2>3. CASE ~\E x \in Donors : refund(q, x)
    <3>1. Unpaid
      BY <1>4, <2>3 DEF donate, submit_proof, close_empty, CampaignInv, Shaped, TypeOK
    <3> QED BY <2>1, <3>1
  <2> QED BY <2>2, <2>3
<1>5. ASSUME NEW q \in Campaigns, NEW a \in Accounts, NEW hash \in Proofs,
             approve(q, a, hash)
      PROVE  Unpaid /\ (Kept \/ (state[id] = "PendingProof" /\ now < config[id].review_deadline))
  <2>1. CASE q = id
    BY <1>5, <2>1 DEF approve, ReviewOpen
  <2>2. CASE q # id
    BY <1>5, <2>2 DEF approve, CampaignInv, Shaped
  <2> QED BY <2>1, <2>2
<1>6. ASSUME NEW q \in Campaigns, release(q)
      PROVE  Kept /\ (Unpaid \/ (state[id] = "PendingProof" /\ Quorum(id)))
  <2>1. Kept
    BY <1>6 DEF release, reviewVars
  <2>2. CASE q = id
    BY <1>6, <2>1, <2>2 DEF release, ReleaseReady
  <2>3. CASE q # id
    BY <1>6, <2>1, <2>3 DEF release, CampaignInv, Shaped, TypeOK
  <2> QED BY <2>2, <2>3
<1> QED BY <1>1, <1>2, <1>3, <1>4, <1>5, <1>6 DEF Next

\* A quorum forms in time or not at all, nothing but the payout follows it,
\* and nothing is paid out without it.
THEOREM QuorumsBind == Spec => QuorumBinds
<1>1. CampaignInv /\ [Next]_vars =>
        [\A id \in Campaigns :
           /\ ~Quorum(id) /\ Quorum(id)' =>
                state[id] = "PendingProof" /\ now < config[id].review_deadline
           /\ state[id] = "PendingProof" /\ Quorum(id) =>
                /\ state'[id] \in {"PendingProof", "Released"}
                /\ state'[id] = "PendingProof" => escrow'[id] = escrow[id]
           /\ state[id] # "Released" /\ state'[id] = "Released" =>
                state[id] = "PendingProof" /\ Quorum(id)]_vars
  BY QuorumStep, ReviewStep, Zenon
<1> QED BY <1>1, CampaignInvHolds, PTL DEF Spec, QuorumBinds

-----------------------------------------------------------------------------
(* Nothing is stranded: after its review deadline a campaign that has not   *)
(* ended can always be paid out, refunded or closed.                       *)

\* All that release and refund check.
ReleaseCovered(id) ==
  state[id] = "PendingProof" /\ Quorum(id) /\ vault >= escrow[id]
RefundCovered(id, d) ==
  /\ RefundOpen(id) /\ paid[id][d] > 0 /\ d \notin refunded[id]
  /\ escrow[id] - paid[id][d] >= 0 /\ vault >= paid[id][d]

\* The guards of release, refund and close_empty (lib.rs) leave no gap between
\* them: past the review deadline an approved campaign can be released, an
\* empty one closed, and any other has a donor whom it still owes; and every
\* donor still owed can pull the refund whatever the others, and the other
\* campaigns in the same balance, have done.
WayOut ==
  \A id \in Campaigns :
    /\ (~Ended(id) /\ now >= config[id].review_deadline) =>
         \/ ReleaseCovered(id)
         \/ RefundOpen(id) /\ total[id] = 0
         \/ \E d \in Donors : RefundCovered(id, d)
    /\ \A d \in Donors :
         (RefundOpen(id) /\ paid[id][d] > 0 /\ d \notin refunded[id])
           => RefundCovered(id, d)

\* A quorum only ever leads to the payout, and a campaign that is paying its
\* donors back still holds something.
WayOutAt(id) ==
  /\ Quorum(id) => state[id] \in {"PendingProof", "Released"}
  /\ state[id] = "Refundable" => escrow[id] # 0

WayOutInv == CampaignInv /\ \A id \in Campaigns : WayOutAt(id)

LEMMA WayOutInit == Init => WayOutInv
<1> SUFFICES ASSUME Init PROVE \A id \in Campaigns : WayOutAt(id)
  BY CampaignInit DEF WayOutInv
<1>1. \A id \in Campaigns : approvals[id] = {} /\ state[id] = "Missing"
  BY DEF Init
<1>2. ~(Cardinality({}) >= 2)
  BY FS_EmptySet
<1> QED BY <1>1, <1>2 DEF WayOutAt, Quorum

\* A campaign whose state, approvals and escrow stand is as it was.
LEMMA WayOutSame ==
  ASSUME NEW id, WayOutAt(id), state'[id] = state[id], approvals'[id] = approvals[id],
         escrow'[id] = escrow[id]
  PROVE  WayOutAt(id)'
BY DEF WayOutAt, Quorum

LEMMA WayOutStep == WayOutInv /\ [Next]_vars => WayOutInv'
<1> SUFFICES ASSUME WayOutInv, [Next]_vars, NEW id \in Campaigns PROVE WayOutAt(id)'
  BY CampaignStep DEF WayOutInv
<1>1. /\ WayOutAt(id) /\ CampaignAt(id)
      /\ state \in [Campaigns -> States \cup {"Missing"}] /\ escrow \in [Campaigns -> Nat]
      /\ approvals \in [Campaigns -> SUBSET Accounts] /\ next_id \in Nat
  BY DEF WayOutInv, CampaignInv, Shaped, TypeOK
<1>2. CASE UNCHANGED vars
  BY <1>1, <1>2, WayOutSame DEF vars, reviewVars, moneyVars
<1>3. CASE Tick
  BY <1>1, <1>3, WayOutSame DEF Tick, reviewVars, moneyVars
<1>4. ASSUME NEW c \in Configs, create(c) PROVE WayOutAt(id)'
  <2>1. /\ state' = [state EXCEPT ![next_id] = "Funding"]
        /\ approvals' = approvals /\ escrow' = escrow
    BY <1>4 DEF create, reviewVars, moneyVars
  <2>2. CASE id = next_id
    <3>1. state[id] = "Missing" /\ state'[id] = "Funding"
      BY <1>1, <2>1, <2>2 DEF CampaignAt
    <3> QED BY <1>1, <2>1, <3>1 DEF WayOutAt, Quorum
  <2>3. CASE id # next_id
    <3>1. state'[id] = state[id]
      BY <1>1, <2>1, <2>3
    <3> QED BY <1>1, <2>1, <3>1, WayOutSame
  <2> QED BY <2>2, <2>3
<1>5. ASSUME NEW q \in Campaigns
      PROVE  /\ \A d \in Donors, amount \in Gifts : donate(q, d, amount) => WayOutAt(id)'
             /\ \A hash \in Proofs : submit_proof(q, hash) => WayOutAt(id)'
             /\ \A a \in Accounts, hash \in Proofs : approve(q, a, hash) => WayOutAt(id)'
             /\ release(q) => WayOutAt(id)'
             /\ \A d \in Donors : refund(q, d) => WayOutAt(id)'
             /\ close_empty(q) => WayOutAt(id)'
  <2>1. ASSUME NEW d \in Donors, NEW amount \in Gifts, donate(q, d, amount)
        PROVE  WayOutAt(id)'
    <3>1. /\ state' = state /\ approvals' = approvals /\ state[q] = "Funding"
          /\ escrow' = [escrow EXCEPT ![q] = @ + amount]
      BY <2>1 DEF donate, reviewVars
    <3>2. id # q => escrow'[id] = escrow[id]
      BY <1>1, <3>1
    <3> QED BY <1>1, <3>1, <3>2 DEF WayOutAt, Quorum
  <2>2. ASSUME NEW hash \in Proofs, submit_proof(q, hash) PROVE WayOutAt(id)'
    <3>1. /\ approvals' = approvals /\ escrow' = escrow
          /\ state' = [state EXCEPT ![q] = "PendingProof"]
      BY <2>2 DEF submit_proof, moneyVars
    <3>2. state'[id] = IF id = q THEN "PendingProof" ELSE state[id]
      BY <1>1, <3>1
    <3> QED BY <1>1, <3>1, <3>2 DEF WayOutAt, Quorum
  <2>3. ASSUME NEW a \in Accounts, NEW hash \in Proofs, approve(q, a, hash) PROVE WayOutAt(id)'
    <3>1. /\ state' = state /\ escrow' = escrow /\ state[q] = "PendingProof"
          /\ approvals' = [approvals EXCEPT ![q] = @ \cup {a}]
      BY <2>3 DEF approve, moneyVars
    <3>2. id # q => approvals'[id] = approvals[id]
      BY <1>1, <3>1
    <3> QED BY <1>1, <3>1, <3>2 DEF WayOutAt, Quorum
  <2>4. ASSUME release(q) PROVE WayOutAt(id)'
    <3>1. /\ approvals' = approvals
          /\ state' = [state EXCEPT ![q] = "Released"]
          /\ escrow' = [escrow EXCEPT ![q] = EscrowAfterRelease(q)]
      BY <2>4 DEF release, reviewVars
    <3>2. IF id = q THEN state'[id] = "Released"
                    ELSE state'[id] = state[id] /\ escrow'[id] = escrow[id]
      BY <1>1, <3>1
    <3> QED BY <1>1, <3>1, <3>2 DEF WayOutAt, Quorum
  <2>5. ASSUME NEW d \in Donors, refund(q, d) PROVE WayOutAt(id)'
    <3>1. PICK left : left = escrow[q] - paid[q][d]
      OBVIOUS
    <3>2. /\ approvals' = approvals /\ ~Quorum(q)
          /\ state' = [state EXCEPT ![q] = IF left = 0 THEN "Closed" ELSE "Refundable"]
          /\ escrow' = [escrow EXCEPT ![q] = left]
      BY <2>5, <3>1 DEF refund, RefundOpen, reviewVars
    <3>3. IF id = q THEN escrow'[id] = left /\ state'[id] = IF left = 0 THEN "Closed" ELSE "Refundable"
                    ELSE state'[id] = state[id] /\ escrow'[id] = escrow[id]
      BY <1>1, <3>2
    <3> QED BY <1>1, <3>2, <3>3 DEF WayOutAt, Quorum
  <2>6. ASSUME close_empty(q) PROVE WayOutAt(id)'
    <3>1. /\ approvals' = approvals /\ escrow' = escrow /\ ~Quorum(q)
          /\ state' = [state EXCEPT ![q] = "Closed"]
      BY <2>6 DEF close_empty, RefundOpen, reviewVars, moneyVars
    <3>2. state'[id] = IF id = q THEN "Closed" ELSE state[id]
      BY <1>1, <3>1
    <3> QED BY <1>1, <3>1, <3>2 DEF WayOutAt, Quorum
  <2> QED BY <2>1, <2>2, <2>3, <2>4, <2>5, <2>6
<1> QED BY <1>2, <1>3, <1>4, <1>5, Zenon DEF Next

LEMMA WayOutInvHolds == Spec => []WayOutInv
BY WayOutInit, WayOutStep, PTL DEF Spec

\* The balance covers every campaign's escrow.
LEMMA EscrowCovered ==
  ASSUME CampaignInv, NEW id \in Campaigns
  PROVE  vault >= escrow[id]
<1>1. \A q \in Campaigns : escrow[q] \in Nat
  BY DEF CampaignInv, Shaped, TypeOK
<1>2. /\ Total(escrow, Campaigns) = escrow[id] + Total(escrow, Campaigns \ {id})
      /\ Total(escrow, Campaigns \ {id}) \in Nat
  BY <1>1, DonorsFinite, TotalSplit
<1> QED BY <1>1, <1>2 DEF CampaignInv, Pooled

\* A donor still owed can be paid.
LEMMA RefundIsCovered ==
  ASSUME CampaignInv, NEW id \in Campaigns, NEW d \in Donors,
         RefundOpen(id), paid[id][d] > 0, d \notin refunded[id]
  PROVE  RefundCovered(id, d)
<1>1. escrow[id] = Unrefunded(id) /\ escrow[id] \in Nat /\ vault \in Nat /\ paid[id][d] \in Nat
  BY DEF CampaignInv, CampaignAt, RefundOpen, Ended, Shaped, TypeOK
<1>2. PICK rest \in Nat : Unrefunded(id) = paid[id][d] + rest
  BY UnrefundedAfter
<1>3. escrow[id] - paid[id][d] >= 0 /\ vault >= paid[id][d]
  BY <1>1, <1>2, EscrowCovered
<1> QED BY <1>3 DEF RefundCovered

\* A campaign that still holds something still owes it to somebody.
LEMMA SomebodyOwed ==
  ASSUME CampaignInv, NEW id \in Campaigns, RefundOpen(id), escrow[id] # 0
  PROVE  \E d \in Donors : paid[id][d] > 0 /\ d \notin refunded[id]
<1>1. escrow[id] = Unrefunded(id)
  BY DEF CampaignInv, CampaignAt, RefundOpen, Ended
<1>2. SUFFICES ASSUME \A d \in Donors \ refunded[id] : ~(paid[id][d] > 0) PROVE FALSE
  OBVIOUS
<1>3. \A d \in Donors \ refunded[id] : paid[id][d] = 0
  BY <1>2 DEF CampaignInv, Shaped, TypeOK
<1>4. Total(paid[id], Donors \ refunded[id]) = 0
  BY <1>3, TotalZero
<1> QED BY <1>1, <1>4 DEF Unrefunded

\* Whoever calls in whatever order, no campaign past its review deadline is
\* left with a balance that no call can move.
THEOREM NothingStranded == Spec => []WayOut
<1>1. ASSUME WayOutInv, NEW id \in Campaigns, ~Ended(id), now >= config[id].review_deadline
      PROVE  \/ ReleaseCovered(id)
             \/ RefundOpen(id) /\ total[id] = 0
             \/ \E d \in Donors : RefundCovered(id, d)
  <2>1. CampaignInv /\ WayOutAt(id) /\ CampaignAt(id)
    BY <1>1 DEF WayOutInv, CampaignInv
  <2>2. CASE Quorum(id)
    <3>1. state[id] = "PendingProof"
      BY <1>1, <2>1, <2>2 DEF WayOutAt, Ended
    <3> QED BY <2>1, <2>2, <3>1, EscrowCovered DEF ReleaseCovered
  <2>3. CASE ~Quorum(id)
    <3>1. RefundOpen(id)
      BY <1>1, <2>3 DEF RefundOpen
    <3>2. CASE escrow[id] = 0
      <4>1. state[id] \in {"Funding", "PendingProof"} /\ refunded[id] = {} /\ escrow[id] = Unrefunded(id)
        BY <1>1, <2>1, <3>2 DEF WayOutAt, CampaignAt, Ended, CampaignInv, Shaped, TypeOK, States
      <4>2. Donors \ refunded[id] = Donors
        BY <4>1
      <4>3. total[id] = 0
        BY <2>1, <3>2, <4>1, <4>2, Zenon DEF CampaignAt, Unrefunded
      <4> QED BY <3>1, <4>3
    <3>3. CASE escrow[id] # 0
      <4>1. PICK d \in Donors : paid[id][d] > 0 /\ d \notin refunded[id]
        BY <2>1, <3>1, <3>3, SomebodyOwed
      <4> QED BY <2>1, <3>1, <4>1, RefundIsCovered
    <3> QED BY <3>2, <3>3
  <2> QED BY <2>2, <2>3
<1>2. WayOutInv => WayOut
  BY <1>1, RefundIsCovered, Zenon DEF WayOut, WayOutInv
<1> QED BY <1>2, WayOutInvHolds, PTL
=============================================================================
