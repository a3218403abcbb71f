---------------------------- MODULE DisasterVault ----------------------------
(***************************************************************************)
(* The relief vault (contracts/disaster/src/lib.rs): three fixed signers   *)
(* pay donations out by proposals that two of them approve, after a        *)
(* timelock counted in ledgers and under a cap on what leaves within 24    *)
(* hours, and can pause and unpause payouts by the same kind of proposal.  *)
(*                                                                         *)
(* Each entry point is one atomic action.  Ledgers close one after the     *)
(* other while their timestamps advance by varying amounts, so the         *)
(* timelock and the 24-hour window run on two different clocks.  Left out: *)
(* storage rent, reads, and i128/u64 overflow.                             *)
(***************************************************************************)
EXTENDS Integers, Sequences, FiniteSets, FloorShare, Totals

CONSTANTS
  Signers,          \* Config.signers
  Accounts,         \* every caller; the signers are among them
  Donors,           \* those with tokens to give
  Recipients,       \* where a disbursement may be sent, Vault included
  Vault,            \* the contract's own address
  CAP_BPS, TIMELOCK_LEDGERS, \* Config.cap_bps and Config.timelock_ledgers
  DAY,              \* length of the spending window
  BPS,              \* basis points in a whole (10 000 in the code)
  Gaps,             \* time between one ledger and the next
  Wealth,           \* every donor's tokens
  Gifts,            \* amounts donors give
  Amounts,          \* amounts signers propose to disburse
  MaxLedger,        \* bound: last ledger
  MaxProposals      \* bound: proposals created

None == 0

ASSUME ConfigAssumption ==
  /\ Signers \subseteq Accounts /\ Cardinality(Signers) = 3
  /\ IsFiniteSet(Accounts) /\ Donors \subseteq Accounts
  /\ Recipients \cap Donors = {}   \* whoever is paid holds no donor's tokens
  /\ BPS \in Nat \ {0} /\ CAP_BPS \in 1..BPS
  /\ TIMELOCK_LEDGERS \in Nat \ {0} /\ DAY \in Nat \ {0}

ASSUME VaultInputAssumption ==
  /\ Gaps \subseteq Nat \ {0} /\ Wealth \in Nat
  /\ Gifts \subseteq Int /\ Amounts \subseteq Int
  /\ MaxLedger \in Nat /\ MaxProposals \in Nat

Ids == 1..MaxProposals

Actions ==
  [kind : {"Disburse"}, to : Recipients, amount : Amounts]
    \cup [kind : {"Pause", "Unpause"}]

VARIABLES
  ledger,       \* ledger sequence number
  now,          \* ledger timestamp
  paused,       \* DataKey::Paused
  epoch,        \* DataKey::Epoch
  next_id,      \* DataKey::NextId
  proposals,    \* DataKey::Proposal(id), for the ids handed out
  quorum_at,    \* the ledger of each proposal's second approval, as the event log shows
  spends,       \* DataKey::Spends: the payouts it keeps, by their place in the log
  contribution, \* DataKey::Contribution(who)
  wallet,       \* the donors' token balances
  balance,      \* the vault's token balance
  payouts       \* executed disbursements, as the event log keeps them

controlVars == <<paused, epoch>>
proposalVars == <<next_id, proposals, quorum_at>>
poolVars == <<spends, contribution, wallet, balance, payouts>>
vars == <<ledger, now, controlVars, proposalVars, poolVars>>

-----------------------------------------------------------------------------

\* Faulty variant: any caller passes for a signer.
IsSigner_Anyone(who) == TRUE
IsSigner(who) == who \in Signers

IsControl(p) == p.action.kind # "Disburse"

\* Faulty variant: a spend of exactly a day ago no longer counts a second early.
Recent_Early(s) == now - s.timestamp < DAY - 1
\* Window (now - DAY, now]: a payout expires at exactly one day.
Recent(s) == now - s.timestamp < DAY

recent_spends == {k \in spends : Recent(payouts[k])}

AmountOf(ks) == Total([k \in ks |-> payouts[k].amount], ks)

cap == FloorShare(balance, CAP_BPS, BPS)

Init ==
  /\ ledger = 0 /\ now = 0
  /\ paused = TRUE /\ epoch = 0
  /\ next_id = 1 /\ proposals = <<>> /\ quorum_at = [id \in Ids |-> None]
  /\ spends = {} /\ payouts = <<>>
  /\ contribution = [a \in Donors |-> 0]
  /\ wallet = [a \in Donors |-> Wealth]
  /\ balance = 0

CloseLedger ==
  /\ ledger < MaxLedger
  /\ ledger' = ledger + 1
  /\ \E gap \in Gaps : now' = now + gap
  /\ UNCHANGED <<controlVars, proposalVars, poolVars>>

\* A token transfer to the vault, by contribute or behind its back.
Give(from, amount) ==
  /\ amount > 0 /\ wallet[from] >= amount
  /\ wallet' = [wallet EXCEPT ![from] = @ - amount]
  /\ balance' = balance + amount
  /\ UNCHANGED <<ledger, now, controlVars, proposalVars, spends, payouts>>

contribute(from, amount) ==
  /\ Give(from, amount)
  /\ contribution' = [contribution EXCEPT ![from] = @ + amount]

DirectDonation(from, amount) ==
  Give(from, amount) /\ UNCHANGED contribution

ActionValid(action) ==
  IF action.kind = "Disburse"
  THEN action.amount > 0 /\ action.to # Vault
  ELSE paused = (action.kind = "Unpause")

propose(who, action) ==
  /\ IsSigner(who)
  /\ ActionValid(action)
  /\ next_id <= MaxProposals
  /\ proposals' = Append(proposals,
       [action |-> action, approvals |-> {}, ready_ledger |-> None,
        executed |-> FALSE, epoch |-> epoch])
  /\ next_id' = next_id + 1
  /\ UNCHANGED <<ledger, now, quorum_at, controlVars, poolVars>>

\* Faulty variant: an approval after the second restarts the timelock.
SecondApproval_OrLater(p) == Cardinality(p.approvals) >= 1
\* One approval is there, so that this one makes the quorum.
SecondApproval(p) == Cardinality(p.approvals) = 1

\* Faulty variant: control proposals of an earlier epoch stay valid.
Stale_Never(p) == FALSE
\* A control proposal made before the last change of the pause switch.
Stale(p) == IsControl(p) /\ p.epoch # epoch

approve(who, id) ==
  LET p == proposals[id]
      delay == IF IsControl(p) THEN 0 ELSE TIMELOCK_LEDGERS
  IN
  /\ IsSigner(who)
  /\ ~p.executed /\ ~Stale(p)
  /\ who \notin p.approvals
  /\ proposals' = [proposals EXCEPT
       ![id].approvals = @ \cup {who},
       ![id].ready_ledger = IF SecondApproval(p) THEN ledger + delay ELSE @]
  /\ quorum_at' = [quorum_at EXCEPT
       ![id] = IF Cardinality(p.approvals) = 1 THEN ledger ELSE @]
  /\ UNCHANGED <<ledger, now, next_id, controlVars, poolVars>>

\* Faulty variant: the same proposal can be executed again.
MarkExecuted_Never(id) == proposals
MarkExecuted(id) == [proposals EXCEPT ![id].executed = TRUE]

\* Faulty variant: the timelock is not looked at.
Executable_Unlocked(who, id) ==
  /\ IsSigner(who)
  /\ ~proposals[id].executed
  /\ Cardinality(proposals[id].approvals) >= 2
Executable(who, id) ==
  /\ IsSigner(who)
  /\ ~proposals[id].executed
  /\ Cardinality(proposals[id].approvals) >= 2
  /\ ledger >= proposals[id].ready_ledger

execute_disburse(who, id) ==
  LET amount == proposals[id].action.amount IN
  /\ Executable(who, id) /\ ~IsControl(proposals[id])
  /\ ~paused
  /\ amount <= balance
  /\ AmountOf(recent_spends) + amount <= cap
  /\ spends' = recent_spends \cup {Len(payouts) + 1}
  /\ balance' = balance - amount
  /\ payouts' = Append(payouts, [id |-> id, amount |-> amount,
                                 timestamp |-> now, pool |-> balance])
  /\ proposals' = MarkExecuted(id)
  /\ UNCHANGED <<ledger, now, next_id, quorum_at, controlVars, contribution, wallet>>

execute_control(who, id) ==
  LET p == proposals[id] IN
  /\ Executable(who, id) /\ IsControl(p)
  /\ ~Stale(p)
  /\ paused # (p.action.kind = "Pause")
  /\ epoch' = p.epoch + 1
  /\ paused' = (p.action.kind = "Pause")
  /\ proposals' = MarkExecuted(id)
  /\ UNCHANGED <<ledger, now, next_id, quorum_at, poolVars>>

Next ==
  \/ CloseLedger
  \/ \E a \in Donors, amount \in Gifts :
       contribute(a, amount) \/ DirectDonation(a, amount)
  \/ \E a \in Accounts :
       \/ \E action \in Actions : propose(a, action)
       \/ \E id \in DOMAIN proposals :
            approve(a, id) \/ execute_disburse(a, id) \/ execute_control(a, id)

Spec == Init /\ [][Next]_vars

-----------------------------------------------------------------------------

\* Storage has the shape the contract declares; ids are handed out in order.
TypeOK ==
  /\ ledger \in 0..MaxLedger /\ now \in Nat
  /\ paused \in BOOLEAN /\ epoch \in Nat
  /\ next_id \in 1..(MaxProposals + 1)
  /\ Len(proposals) = next_id - 1
  /\ proposals \in Seq(
       [action : Actions, approvals : SUBSET Signers, ready_ledger : Nat,
        executed : BOOLEAN, epoch : Nat])
  /\ quorum_at \in [Ids -> Nat]
  /\ spends \subseteq DOMAIN payouts
  /\ payouts \in Seq([id : Ids, amount : Amounts, timestamp : Nat, pool : Nat])
  /\ contribution \in [Donors -> Nat] /\ wallet \in [Donors -> Nat]
  /\ balance \in Nat

Paid == {id \in DOMAIN proposals :
           proposals[id].executed /\ ~IsControl(proposals[id])}

\* Every token given is in the vault or was paid out by an executed proposal,
\* once each: no proposal pays twice and no payout ends in the vault itself
\* ("Executed proposals cannot execute again", week-3-d3.md).
PaidAsApproved ==
  /\ balance + Total([id \in Paid |-> proposals[id].action.amount], Paid)
       = Total([a \in Donors |-> Wealth - wallet[a]], Donors)
  /\ \A id \in Paid : proposals[id].action.to # Vault

\* A payout with every payout of the day before it.
Window(k) == {j \in 1..k : payouts[k].timestamp - payouts[j].timestamp < DAY}

\* No payout, together with every payout of the day before it, exceeds the cap
\* on the pool it was paid from, although each execution prunes the history
\* the next one reads (lib.rs recent_spends).
RollingCap ==
  \A k \in DOMAIN payouts : AmountOf(Window(k)) * BPS <= payouts[k].pool * CAP_BPS

\* The control proposals executed in an epoch, and what the switch does at its end.
Ended(e) == {id \in DOMAIN proposals :
  /\ proposals[id].executed /\ IsControl(proposals[id])
  /\ proposals[id].epoch = e}
Kind(e) == IF e % 2 = 0 THEN "Unpause" ELSE "Pause"

\* "Old control proposals cannot undo a later pause" (week-3-d3.md): every
\* epoch ended by exactly one control proposal, made within that epoch; the
\* epochs are unpaused and paused in turn, and the switch shows the last one.
ControlHistory ==
  /\ paused = (epoch % 2 = 0)
  /\ \A e \in 0..(epoch - 1) : \E id \in Ended(e) :
       Ended(e) = {id} /\ proposals[id].action.kind = Kind(e)
  /\ \A id \in DOMAIN proposals : proposals[id].epoch <= epoch

HasQuorum(p) == Cardinality(p.approvals) >= 2

\* The first ledger in which a proposal with a quorum may be executed.
Unlocked(id) ==
  quorum_at[id] + IF IsControl(proposals[id]) THEN 0 ELSE TIMELOCK_LEDGERS

\* "Payouts wait 20 ledgers from the second approval. A third approval does
\* not restart the timer" (week-3-d3.md): the ready ledger is set by the
\* second approval, to its ledger and the delay, neither earlier nor anew, and
\* no proposal is executed without a quorum of two or before that ledger (an
\* execution takes no ledger: the state after it shows the one it happened in).
TimelockKept ==
  \A id \in DOMAIN proposals :
    LET p == proposals[id] IN
    /\ p.ready_ledger = IF HasQuorum(p) THEN Unlocked(id) ELSE None
    /\ p.executed => HasQuorum(p) /\ ledger >= Unlocked(id)
=============================================================================
