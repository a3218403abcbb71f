-------------------------- MODULE DonationCampaign --------------------------
(***************************************************************************)
(* Per-campaign escrow (contracts/donation-campaign/src/lib.rs): donations *)
(* until a funding deadline, one proof by the creator, two of three        *)
(* approvals of exactly that proof before a review deadline, then a fixed  *)
(* payout by anybody; without a timely quorum, donors pull refunds.        *)
(*                                                                         *)
(* One contract holds every campaign and one token balance.  Each entry    *)
(* point is one atomic action.  Left out: titles, proof URLs, storage      *)
(* rent, reads, i128/u64 overflow, and tokens sent to the contract without *)
(* donate, which no entry point ever reads.                                *)
(***************************************************************************)
EXTENDS Integers, FiniteSets, FloorShare, Totals

CONSTANTS
  MaxCampaigns, \* bound: campaigns created
  MaxTime,      \* bound: last ledger timestamp
  Accounts,     \* every caller
  Donors,       \* those with tokens to give
  Self,         \* the contract's own address
  Configs,      \* configurations creators ask for
  Proofs,       \* proof hashes
  None,         \* no proof yet
  Wealth,       \* every donor's tokens
  Gifts,        \* amounts donors give
  BPS,          \* basis points in a whole (10 000 in the code)
  MAX_CUT       \* the largest creator cut (1 000 in the code)

Campaigns == 1..MaxCampaigns
States == {"Funding", "PendingProof", "Refundable", "Released", "Closed"}

ASSUME CampaignAssumption ==
  /\ MaxCampaigns \in Nat /\ MaxTime \in Nat /\ Wealth \in Nat
  /\ IsFiniteSet(Accounts) /\ Donors \subseteq Accounts /\ Self \notin Accounts
  /\ Gifts \subseteq Nat /\ None \notin Proofs
  /\ BPS \in Nat \ {0} /\ MAX_CUT \in 0..BPS
  /\ Configs \subseteq
       [creator : Accounts, beneficiary : Accounts \cup {Self},
        creator_cut_bps : Nat, funding_deadline : Nat, review_deadline : Nat,
        approvers : SUBSET Accounts]

VARIABLES
  now,       \* ledger timestamp
  next_id,   \* DataKey::NextId
  config,    \* Campaign(id).config
  state,     \* Campaign(id).state; "Missing" is an absent key
  total,     \* Campaign(id).total
  escrow,    \* Campaign(id).escrow
  proof,     \* Campaign(id).proof_hash
  approvals, \* Campaign(id).approvals
  paid,      \* Contribution(id, donor).amount
  refunded,  \* Contribution(id, donor).refunded, as the set of such donors
  wallet,    \* token balance of each account
  vault      \* token balance of the contract, shared by every campaign

createVars == <<next_id, config>>
reviewVars == <<proof, approvals>>
moneyVars == <<total, escrow, paid, refunded, wallet, vault>>
vars == <<now, createVars, state, reviewVars, moneyVars>>

-----------------------------------------------------------------------------

NoConfig ==
  [creator |-> Self, beneficiary |-> Self, creator_cut_bps |-> 0,
   funding_deadline |-> 0, review_deadline |-> 0, approvers |-> {}]

Init ==
  /\ now = 0 /\ next_id = 1
  /\ config = [id \in Campaigns |-> NoConfig]
  /\ state = [id \in Campaigns |-> "Missing"]
  /\ total = [id \in Campaigns |-> 0]
  /\ escrow = [id \in Campaigns |-> 0]
  /\ proof = [id \in Campaigns |-> None]
  /\ approvals = [id \in Campaigns |-> {}]
  /\ paid = [id \in Campaigns |-> [d \in Donors |-> 0]]
  /\ refunded = [id \in Campaigns |-> {}]
  /\ wallet = [a \in Accounts |-> IF a \in Donors THEN Wealth ELSE 0]
  /\ vault = 0

Tick ==
  /\ now < MaxTime
  /\ now' = now + 1
  /\ UNCHANGED <<createVars, state, reviewVars, moneyVars>>

ConfigValid(c) ==
  /\ Cardinality(c.approvers) = 3
  /\ c.funding_deadline > now /\ c.review_deadline > c.funding_deadline
  /\ c.creator_cut_bps <= MAX_CUT
  /\ c.creator # Self /\ c.beneficiary # Self

create(c) ==
  /\ ConfigValid(c)
  /\ next_id <= MaxCampaigns
  /\ config' = [config EXCEPT ![next_id] = c]
  /\ state' = [state EXCEPT ![next_id] = "Funding"]
  /\ next_id' = next_id + 1
  /\ UNCHANGED <<now, reviewVars, moneyVars>>

FundingOpen(id) == now < config[id].funding_deadline

donate(id, donor, amount) ==
  /\ state[id] = "Funding"
  /\ FundingOpen(id)
  /\ amount > 0 /\ wallet[donor] >= amount
  /\ paid' = [paid EXCEPT ![id][donor] = @ + amount]
  /\ total' = [total EXCEPT ![id] = @ + amount]
  /\ escrow' = [escrow EXCEPT ![id] = @ + amount]
  /\ wallet' = [wallet EXCEPT ![donor] = @ - amount]
  /\ vault' = vault + amount
  /\ UNCHANGED <<now, createVars, state, reviewVars, refunded>>

\* Faulty variant: a proof can still be approved after the review deadline.
ReviewOpen_Always(id) == TRUE
ReviewOpen(id) == now < config[id].review_deadline

submit_proof(id, hash) ==
  /\ proof[id] = None
  /\ state[id] = "Funding"
  /\ now >= config[id].funding_deadline
  /\ ReviewOpen(id)
  /\ proof' = [proof EXCEPT ![id] = hash]
  /\ state' = [state EXCEPT ![id] = "PendingProof"]
  /\ UNCHANGED <<now, createVars, approvals, moneyVars>>

\* Faulty variant: every account reviews.
IsApprover_Anyone(id, who) == TRUE
IsApprover(id, who) == who \in config[id].approvers

approve(id, who, hash) ==
  /\ IsApprover(id, who)
  /\ state[id] = "PendingProof"
  /\ ReviewOpen(id)
  /\ proof[id] = hash
  /\ who \notin approvals[id]
  /\ approvals' = [approvals EXCEPT ![id] = @ \cup {who}]
  /\ UNCHANGED <<now, createVars, state, proof, moneyVars>>

Quorum(id) == Cardinality(approvals[id]) >= 2

\* Faulty variant: every approver must agree before the payout.
ReleaseReady_All(id) == approvals[id] = config[id].approvers
ReleaseReady(id) == Quorum(id)

\* Faulty variant: the escrow keeps its amount after the payout.
EscrowAfterRelease_Kept(id) == escrow[id]
EscrowAfterRelease(id) == 0

\* Faulty variant: only whole lots of BPS tokens are shared.
CreatorShare_Coarse(id) ==
  FloorShare_Coarse(escrow[id], config[id].creator_cut_bps, BPS)
CreatorShare(id) == FloorShare(escrow[id], config[id].creator_cut_bps, BPS)

release(id) ==
  LET c == config[id]
      toCreator == CreatorShare(id)
      toBeneficiary == escrow[id] - toCreator
      Due(a) == (IF a = c.creator THEN toCreator ELSE 0)
                  + (IF a = c.beneficiary THEN toBeneficiary ELSE 0)
  IN
  /\ state[id] = "PendingProof"
  /\ ReleaseReady(id)
  /\ vault >= escrow[id]
  /\ state' = [state EXCEPT ![id] = "Released"]
  /\ escrow' = [escrow EXCEPT ![id] = EscrowAfterRelease(id)]
  /\ wallet' = [a \in Accounts |-> wallet[a] + Due(a)]
  /\ vault' = vault - escrow[id]
  /\ UNCHANGED <<now, createVars, reviewVars, total, paid, refunded>>

Ended(id) == state[id] \in {"Missing", "Released", "Closed"}

\* Faulty variant: a quorum does not stop refunds.
RefundOpen_Always(id) == ~Ended(id) /\ now >= config[id].review_deadline
RefundOpen(id) ==
  ~Ended(id) /\ now >= config[id].review_deadline /\ ~Quorum(id)

MarkRefunded(id, donor) == [refunded EXCEPT ![id] = @ \cup {donor}]

refund(id, donor) ==
  LET left == escrow[id] - paid[id][donor] IN
  /\ RefundOpen(id)
  /\ paid[id][donor] > 0 /\ donor \notin refunded[id]
  /\ left >= 0 /\ vault >= paid[id][donor]
  /\ escrow' = [escrow EXCEPT ![id] = left]
  /\ state' = [state EXCEPT ![id] = IF left = 0 THEN "Closed" ELSE "Refundable"]
  /\ refunded' = MarkRefunded(id, donor)
  /\ wallet' = [wallet EXCEPT ![donor] = @ + paid[id][donor]]
  /\ vault' = vault - paid[id][donor]
  /\ UNCHANGED <<now, createVars, reviewVars, total, paid>>

close_empty(id) ==
  /\ RefundOpen(id)
  /\ total[id] = 0
  /\ state' = [state EXCEPT ![id] = "Closed"]
  /\ UNCHANGED <<now, createVars, reviewVars, moneyVars>>

Next ==
  \/ Tick
  \/ \E c \in Configs : create(c)
  \/ \E id \in Campaigns :
       \/ \E d \in Donors, amount \in Gifts : donate(id, d, amount)
       \/ \E hash \in Proofs : submit_proof(id, hash)
       \/ \E a \in Accounts, hash \in Proofs : approve(id, a, hash)
       \/ release(id)
       \/ \E d \in Donors : refund(id, d)
       \/ close_empty(id)

Spec == Init /\ [][Next]_vars

\* Time passes, and each donor, who alone can pull a refund, but who like
\* anybody can also execute an authorized payout, comes back for it.
FairSpec ==
  /\ Spec
  /\ WF_vars(Tick)
  /\ \A id \in Campaigns :
       WF_vars(release(id)) /\ \A d \in Donors : WF_vars(refund(id, d))

-----------------------------------------------------------------------------

\* The shape of the stored campaigns and contributions.
TypeOK ==
  /\ now \in 0..MaxTime /\ next_id \in 1..(MaxCampaigns + 1)
  /\ config \in [Campaigns -> Configs \cup {NoConfig}]
  /\ state \in [Campaigns -> States \cup {"Missing"}]
  /\ total \in [Campaigns -> Nat] /\ escrow \in [Campaigns -> Nat]
  /\ proof \in [Campaigns -> Proofs \cup {None}]
  /\ \A id \in Campaigns : approvals[id] \subseteq config[id].approvers
  /\ paid \in [Campaigns -> [Donors -> Nat]]
  /\ refunded \in [Campaigns -> SUBSET Donors]
  /\ wallet \in [Accounts -> Nat] /\ vault \in Nat

\* What campaign id still owes its donors.
Unrefunded(id) == Total(paid[id], Donors \ refunded[id])

\* The shared balance is the sum of the escrows, and each campaign's escrow is
\* what its donors gave and did not get back, or nothing once it has paid out:
\* no campaign pays with the donations of another (lib.rs release, refund).
EscrowBacked ==
  /\ vault = Total(escrow, Campaigns)
  /\ \A id \in Campaigns :
       escrow[id] = IF state[id] \in {"Released", "Closed"}
                    THEN 0 ELSE Unrefunded(id)

\* What account a gets from the released campaign id: the creator the exact
\* floor of its cut of everything donated, the beneficiary the rest.
Share(id, a) ==
  LET cut == (total[id] * config[id].creator_cut_bps) \div BPS IN
  (IF a = config[id].creator THEN cut ELSE 0)
    + (IF a = config[id].beneficiary THEN total[id] - cut ELSE 0)

\* What account a gave and did not pull back, and what it was paid.
Given(a) ==
  [id \in Campaigns |-> IF a \in Donors \ refunded[id] THEN paid[id][a] ELSE 0]
Received(a) ==
  [id \in Campaigns |-> IF state[id] = "Released" THEN Share(id, a) ELSE 0]

\* Everybody has exactly what they should: their own tokens, less the
\* donations they did not pull back, plus their share of released campaigns,
\* whatever campaigns overlap and whoever is donor and beneficiary at once.
AccountsSettled ==
  \A a \in Accounts :
    wallet[a] = (IF a \in Donors THEN Wealth ELSE 0)
                  - Total(Given(a), Campaigns) + Total(Received(a), Campaigns)

\* Once a donor may pull a refund nobody can take that right away: no late
\* approval, payout or other donor's refund (lib.rs approve, refund).
RefundRightKept ==
  [][\A id \in Campaigns, d \in Donors :
       (RefundOpen(id) /\ paid[id][d] > 0 /\ d \notin refunded[id])
         => RefundOpen(id)' \/ d \in refunded'[id]]_vars

\* "Quorum can only form before review_deadline; timely quorum remains
\* releasable afterwards" (lib.rs approve, release): two approvals come
\* together only while the proof is under review and before the deadline;
\* from then on only the payout can still happen, of what donors gave by
\* then; and nothing is paid out without such a quorum.
QuorumBinds ==
  [][\A id \in Campaigns :
       /\ ~Quorum(id) /\ Quorum(id)' =>
            state[id] = "PendingProof" /\ now < config[id].review_deadline
       /\ state[id] = "PendingProof" /\ Quorum(id) =>
            /\ state'[id] \in {"PendingProof", "Released"}
            /\ state'[id] = "PendingProof" => escrow'[id] = escrow[id]
       /\ state[id] # "Released" /\ state'[id] = "Released" =>
            state[id] = "PendingProof" /\ Quorum(id)]_vars

\* No donation is stranded: it is paid out under an approved proof or comes
\* back to its donor, even if creator and approvers never act.
DonationSettles ==
  \A id \in Campaigns, d \in Donors :
    paid[id][d] > 0 ~> state[id] = "Released" \/ d \in refunded[id]
=============================================================================
