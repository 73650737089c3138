----------------------------- MODULE CampaignVault -----------------------------
(***************************************************************************)
(* The sponsor vaults of the gecko-vault program: a sponsor locks          *)
(* principal, builds a squad of creators with basis-point allocations,     *)
(* automation routes yield and releases milestones, the sponsor takes the  *)
(* rest back after the cliff.                                              *)
(*                                                                         *)
(* One action is one instruction.  A Solana transaction is atomic and an   *)
(* error reverts it whole, so an instruction either takes all of its       *)
(* effects or is not a step at all; what interleaves is the order in which *)
(* sponsor, automation, oracle and token holders get their transactions    *)
(* executed.  The signer of each instruction is fixed by its account       *)
(* constraints, and each action names it in its comment.                   *)
(*                                                                         *)
(* Accounts are addressed by their PDA seeds: member[v][c] is the          *)
(* SquadMember at [member, v, c], milestone[v][i] the PerformanceMilestone *)
(* at [milestone, v, i].  An account that does not exist has open = FALSE  *)
(* (status "none" for a vault or a milestone).  All token accounts hold    *)
(* the vaults' one mint.                                                   *)
(***************************************************************************)
EXTENDS GeckoMath, Functions, FiniteSets

CONSTANTS
    Vaults,             \* vault PDAs, one per (sponsor, campaign_id)
    Wallets,            \* keys that own an ordinary token account
    Creators,           \* wallets a sponsor may add to a squad
    SponsorOf,          \* the sponsor in each vault's seeds
    Treasury,           \* config.treasury
    FEE_BPS,            \* config.fee_bps
    Indices,            \* milestone indices in use (u8)
    AnyCreator,         \* Pubkey::default() as a milestone's target
    MIN_CLIFF_SECONDS,  \* 30 days; 1 under the `testing` feature
    MAX_I64,            \* i64::MAX: the last second of the modelled clock
    MAX_U8,             \* u8::MAX: the limit of member_count
    InitialFunds,       \* tokens in each wallet at the start
    \* argument values the actors submit
    Durations, Amounts, Allocations, Scores, Thresholds, Payouts, Targets,
    Donors              \* wallets that send tokens straight to a vault

ASSUME VaultAssumption ==
    /\ IsFiniteSet(Vaults) /\ IsFiniteSet(Wallets) /\ Vaults \cap Wallets = {}
    /\ Creators \subseteq Wallets
    /\ SponsorOf \in [Vaults -> Wallets]
    /\ Treasury \in Wallets
    /\ FEE_BPS \in 0..BPS_DENOMINATOR
    /\ MIN_CLIFF_SECONDS \in Nat \ {0} /\ MAX_I64 \in Nat /\ MAX_U8 \in Nat
    /\ InitialFunds \in [Wallets -> Nat]
    /\ Durations \subseteq Int /\ Amounts \subseteq U64
    /\ Allocations \subseteq Nat /\ Scores \subseteq Nat
    /\ Thresholds \subseteq Nat /\ Payouts \subseteq Nat
    /\ Targets \subseteq Creators \cup {AnyCreator}
    /\ Donors \subseteq Wallets

VARIABLES
    now,        \* Clock::unix_timestamp
    vault,      \* SponsorVault accounts
    member,     \* SquadMember accounts
    score,      \* SquadScore accounts
    milestone,  \* PerformanceMilestone accounts
    balance     \* SPL token accounts: vault_token of a vault, ATA of a wallet

vars == <<now, vault, member, score, milestone, balance>>

--------------------------------------------------------------------------------
(* Accounts *)

TokenAccounts == Vaults \cup Wallets

VaultAccount ==
    [status : {"none", "Active", "Closed"}, principal : U64, cliff_ts : 0..MAX_I64,
     end_ts : 0..MAX_I64, total_yield_routed : U64, gecko_fee_bps : 0..BPS_DENOMINATOR,
     member_count : 0..MAX_U8, total_allocation_bps : 0..BPS_DENOMINATOR]

SquadMember ==
    [open : BOOLEAN, allocation_bps : 0..BPS_DENOMINATOR, total_received : U64]

SquadScore == [open : BOOLEAN, score : 0..100]

PerformanceMilestone ==
    [status : {"none", "Pending", "Released"}, score_threshold : 0..100,
     payout_bps : 0..BPS_DENOMINATOR, target_creator : Creators \cup {AnyCreator}]

NoVault == [status |-> "none", principal |-> 0, cliff_ts |-> 0, end_ts |-> 0,
            total_yield_routed |-> 0, gecko_fee_bps |-> 0, member_count |-> 0,
            total_allocation_bps |-> 0]
NoMember == [open |-> FALSE, allocation_bps |-> 0, total_received |-> 0]
NoScore == [open |-> FALSE, score |-> 0]
NoMilestone == [status |-> "none", score_threshold |-> 0, payout_bps |-> 0,
                target_creator |-> AnyCreator]

Active(v) == vault[v].status = "Active"
Squad(v)  == {c \in Creators : member[v][c].open}

\* A transfer of the SPL token program, made only when `from` holds n.  Its
\* destination cannot overflow: the supply of a mint is itself a u64.
Transfer(bal, from, to, n) == [bal EXCEPT ![from] = @ - n, ![to] = @ + n]

Init ==
    /\ now = 0
    /\ vault = [v \in Vaults |-> NoVault]
    /\ member = [v \in Vaults |-> [c \in Creators |-> NoMember]]
    /\ score = [v \in Vaults |-> [c \in Creators |-> NoScore]]
    /\ milestone = [v \in Vaults |-> [i \in Indices |-> NoMilestone]]
    /\ balance = [a \in TokenAccounts |-> IF a \in Wallets THEN InitialFunds[a] ELSE 0]

--------------------------------------------------------------------------------
(* Vault lifecycle and principal *)

ValidSchedule(cliff_seconds, end_seconds) ==
    /\ cliff_seconds >= MIN_CLIFF_SECONDS
    /\ end_seconds >= cliff_seconds
    /\ now + end_seconds <= MAX_I64

NewVault(cliff_seconds, end_seconds, amount) ==
    [status |-> "Active", principal |-> amount, cliff_ts |-> now + cliff_seconds,
     end_ts |-> now + end_seconds, total_yield_routed |-> 0, gecko_fee_bps |-> FEE_BPS,
     member_count |-> 0, total_allocation_bps |-> 0]

\* Mutant: init_if_needed, which sets a closed vault up again with the dates it has.
BugInitAgain(v, cliff_seconds, end_seconds) ==
    /\ \/ /\ vault[v].status = "none" /\ ValidSchedule(cliff_seconds, end_seconds)
          /\ vault' = [vault EXCEPT ![v] = NewVault(cliff_seconds, end_seconds, 0)]
       \/ vault[v].status = "Closed" /\ vault' = [vault EXCEPT ![v].status = "Active"]
    /\ UNCHANGED <<now, member, score, milestone, balance>>

\* Signed by the sponsor.
InitVault(v, cliff_seconds, end_seconds) ==
    /\ vault[v].status = "none"
    /\ ValidSchedule(cliff_seconds, end_seconds)
    /\ vault' = [vault EXCEPT ![v] = NewVault(cliff_seconds, end_seconds, 0)]
    /\ UNCHANGED <<now, member, score, milestone, balance>>

\* Signed by the sponsor: init_vault and deposit in one instruction.
InitAndDeposit(v, cliff_seconds, end_seconds, amount) ==
    /\ vault[v].status = "none"
    /\ ValidSchedule(cliff_seconds, end_seconds)
    /\ amount > 0
    /\ balance[SponsorOf[v]] >= amount
    /\ balance' = Transfer(balance, SponsorOf[v], v, amount)
    /\ vault' = [vault EXCEPT ![v] = NewVault(cliff_seconds, end_seconds, amount)]
    /\ UNCHANGED <<now, member, score, milestone>>

\* Signed by the sponsor.
Deposit(v, amount) ==
    /\ amount > 0
    /\ Active(v)
    /\ balance[SponsorOf[v]] >= amount
    /\ FitsU64(vault[v].principal + amount)
    /\ balance' = Transfer(balance, SponsorOf[v], v, amount)
    /\ vault' = [vault EXCEPT ![v].principal = @ + amount]
    /\ UNCHANGED <<now, member, score, milestone>>

BugCloseWithoutMembers(v) ==   \* mutant: the doc's advice as a guard
    Active(v) /\ now >= vault[v].cliff_ts /\ vault[v].member_count = 0

BugCloseBeforeCliff(v) == Active(v)   \* mutant: no cliff check

CloseVaultAllowed(v) ==
    /\ vault[v].status \notin {"none", "Closed"}
    /\ now >= vault[v].cliff_ts

\* Mutant: the recorded principal survives the close.
BugCloseKeepsPrincipal(v) ==
    /\ CloseVaultAllowed(v)
    /\ balance' = Transfer(balance, v, SponsorOf[v], balance[v])
    /\ vault' = [vault EXCEPT ![v].status = "Closed"]
    /\ UNCHANGED <<now, member, score, milestone>>

\* Signed by the sponsor: the whole remaining balance goes back, yield not yet
\* routed included, so that the token program agrees to close the account.
CloseVault(v) ==
    /\ CloseVaultAllowed(v)
    /\ balance' = Transfer(balance, v, SponsorOf[v], balance[v])
    /\ vault' = [vault EXCEPT ![v].status = "Closed", ![v].principal = 0]
    /\ UNCHANGED <<now, member, score, milestone>>

--------------------------------------------------------------------------------
(* Squad *)

BugAddToClosedVault(v, c, allocation_bps) ==   \* mutant: no status check
    /\ vault[v].status # "none"
    /\ allocation_bps \in 1..(BPS_DENOMINATOR - vault[v].total_allocation_bps)
    /\ vault[v].member_count + 1 <= MAX_U8 /\ ~member[v][c].open /\ ~score[v][c].open

BugAddTwice(v, c, allocation_bps) ==   \* mutant: init_if_needed for init
    /\ Active(v) /\ vault[v].member_count + 1 <= MAX_U8
    /\ allocation_bps \in 1..(BPS_DENOMINATOR - vault[v].total_allocation_bps)

AddCreatorAllowed(v, c, allocation_bps) ==
    /\ Active(v)
    /\ allocation_bps \in 1..BPS_DENOMINATOR
    /\ vault[v].total_allocation_bps + allocation_bps <= BPS_DENOMINATOR
    /\ vault[v].member_count + 1 <= MAX_U8
    \* `init` of both PDAs fails on an account that already exists
    /\ ~member[v][c].open
    /\ ~score[v][c].open

\* Mutant: an unchecked addition, so that the member after the last counts as none.
BugAddWraps(v, c, allocation_bps) ==
    /\ Active(v) /\ ~member[v][c].open /\ ~score[v][c].open
    /\ allocation_bps \in 1..(BPS_DENOMINATOR - vault[v].total_allocation_bps)
    /\ member' = [member EXCEPT ![v][c] =
                    [open |-> TRUE, allocation_bps |-> allocation_bps, total_received |-> 0]]
    /\ score' = [score EXCEPT ![v][c] = [open |-> TRUE, score |-> 0]]
    /\ vault' = [vault EXCEPT ![v].member_count = (@ + 1) % (MAX_U8 + 1),
                              ![v].total_allocation_bps = @ + allocation_bps]
    /\ UNCHANGED <<now, milestone, balance>>

\* Signed by the sponsor, without the creator's signature.
AddCreator(v, c, allocation_bps) ==
    /\ AddCreatorAllowed(v, c, allocation_bps)
    /\ member' = [member EXCEPT ![v][c] =
                    [open |-> TRUE, allocation_bps |-> allocation_bps, total_received |-> 0]]
    /\ score' = [score EXCEPT ![v][c] = [open |-> TRUE, score |-> 0]]
    /\ vault' = [vault EXCEPT ![v].member_count = @ + 1,
                              ![v].total_allocation_bps = @ + allocation_bps]
    /\ UNCHANGED <<now, milestone, balance>>

RemoveCreatorAllowed(v, c) ==
    /\ Active(v)
    /\ member[v][c].open
    /\ vault[v].member_count > 1
    /\ vault[v].total_allocation_bps >= member[v][c].allocation_bps

\* Signed by the sponsor.  The SquadMember is closed; the SquadScore stays.
RemoveCreator(v, c) ==
    /\ RemoveCreatorAllowed(v, c)
    /\ vault' = [vault EXCEPT ![v].member_count = @ - 1,
                              ![v].total_allocation_bps = @ - member[v][c].allocation_bps]
    /\ member' = [member EXCEPT ![v][c] = NoMember]
    /\ UNCHANGED <<now, score, milestone, balance>>

\* Mutant: an unchecked score.
BugScoreUnchecked(v, c, new_score) ==
    /\ score[v][c].open
    /\ score' = [score EXCEPT ![v][c].score = new_score]
    /\ UNCHANGED <<now, vault, member, milestone, balance>>

\* Signed by config.oracle_authority, at any vault status.  approval_rate and
\* on_time_delivery are checked like score and are otherwise never read.
UpdateScore(v, c, new_score) ==
    /\ score[v][c].open
    /\ new_score <= 100
    /\ score' = [score EXCEPT ![v][c].score = new_score]
    /\ UNCHANGED <<now, vault, member, milestone, balance>>

--------------------------------------------------------------------------------
(* Milestones *)

InitMilestone(v, i, threshold, payout_bps, target) ==
    /\ Active(v)
    /\ milestone[v][i].status = "none"
    /\ threshold <= 100
    /\ payout_bps \in 1..BPS_DENOMINATOR
    /\ milestone' = [milestone EXCEPT ![v][i] =
                       [status |-> "Pending", score_threshold |-> threshold,
                        payout_bps |-> payout_bps, target_creator |-> target]]
    /\ UNCHANGED <<now, vault, member, score, balance>>

\* Signed by the sponsor.
CreateMilestone(v, i, threshold, payout_bps, target) ==
    /\ threshold >= 1
    /\ InitMilestone(v, i, threshold, payout_bps, target)

\* Signed by config.automation_authority; a threshold of 0 is always met.
CreateMilestoneByAutomation(v, i, threshold, payout_bps, target) ==
    InitMilestone(v, i, threshold, payout_bps, target)

Payout(v, i) == BpsOf(vault[v].principal, milestone[v][i].payout_bps)

BugReleaseAgain(v, i, c) ==   \* mutant: the milestone's status is not checked
    /\ Active(v) /\ milestone[v][i].status # "none" /\ score[v][c].open
    /\ score[v][c].score >= milestone[v][i].score_threshold
    /\ Payout(v, i) \in 1..balance[v]

ReleaseAllowed(v, i, c) ==
    /\ Active(v)
    /\ milestone[v][i].status = "Pending"
    /\ score[v][c].open
    /\ score[v][c].score >= milestone[v][i].score_threshold
    /\ BpsFits(vault[v].principal, milestone[v][i].payout_bps)
    /\ Payout(v, i) > 0
    /\ balance[v] >= Payout(v, i)
    /\ vault[v].principal >= Payout(v, i)

\* Signed by config.automation_authority.  c is the creator of the SquadScore
\* account the caller passes; milestone.target_creator is not compared with it.
ReleaseMilestone(v, i, c) ==
    /\ ReleaseAllowed(v, i, c)
    /\ balance' = Transfer(balance, v, c, Payout(v, i))
    /\ vault' = [vault EXCEPT ![v].principal = @ - Payout(v, i)]
    /\ milestone' = [milestone EXCEPT ![v][i].status = "Released"]
    /\ UNCHANGED <<now, member, score>>

--------------------------------------------------------------------------------
(* Yield *)

BugWholeBalance(v) == balance[v]   \* mutant: the principal floor is dropped

\* vault_balance.checked_sub(principal): when negative, no amount is within it.
AvailableYield(v) == balance[v] - vault[v].principal

\* Mutant: the fee is rounded up.
BugFeeRoundsUp(amount) == (amount * FEE_BPS + BPS_DENOMINATOR - 1) \div BPS_DENOMINATOR

GeckoFee(amount) == BpsOf(amount, FEE_BPS)

RouteYieldAllowed(v, c, amount) ==
    /\ amount > 0
    /\ Active(v)
    /\ vault[v].total_allocation_bps = BPS_DENOMINATOR
    /\ member[v][c].open
    /\ amount <= AvailableYield(v)
    /\ BpsFits(amount, FEE_BPS)
    /\ FitsU64(member[v][c].total_received + amount - GeckoFee(amount))
    /\ FitsU64(vault[v].total_yield_routed + amount)

\* Mutant: the member is credited with the amount before the fee.
BugCreditGross(v, c, amount) ==
    /\ RouteYieldAllowed(v, c, amount)
    /\ balance' = Transfer(Transfer(balance, v, Treasury, GeckoFee(amount)),
                           v, c, amount - GeckoFee(amount))
    /\ member' = [member EXCEPT ![v][c].total_received = @ + amount]
    /\ vault' = [vault EXCEPT ![v].total_yield_routed = @ + amount]
    /\ UNCHANGED <<now, score, milestone>>

\* Mutant: the fee is left out of the routed total.
BugRouteNet(v, c, amount) ==
    /\ RouteYieldAllowed(v, c, amount)
    /\ balance' = Transfer(Transfer(balance, v, Treasury, GeckoFee(amount)),
                           v, c, amount - GeckoFee(amount))
    /\ member' = [member EXCEPT ![v][c].total_received = @ + amount - GeckoFee(amount)]
    /\ vault' = [vault EXCEPT ![v].total_yield_routed = @ + amount - GeckoFee(amount)]
    /\ UNCHANGED <<now, score, milestone>>

\* Signed by config.automation_authority, once per member per epoch; no epoch is
\* given, so that a repeated instruction is another routing.
RouteYield(v, c, amount) ==
    /\ RouteYieldAllowed(v, c, amount)
    /\ LET fee   == GeckoFee(amount)
           share == amount - fee
       IN  /\ balance' = Transfer(Transfer(balance, v, Treasury, fee), v, c, share)
           /\ member' = [member EXCEPT ![v][c].total_received = @ + share]
    /\ vault' = [vault EXCEPT ![v].total_yield_routed = @ + amount]
    /\ UNCHANGED <<now, score, milestone>>

--------------------------------------------------------------------------------
(* Environment *)

\* Any holder may send tokens straight to a vault's token account, without the
\* program: this is how yield arrives in Phase 1.  The account exists from the
\* vault's creation until close_vault closes it.
ExternalTransfer(w, v, amount) ==
    /\ Active(v)
    /\ amount > 0
    /\ balance[w] >= amount
    /\ balance' = Transfer(balance, w, v, amount)
    /\ UNCHANGED <<now, vault, member, score, milestone>>

Tick ==
    /\ now < MAX_I64
    /\ now' = now + 1
    /\ UNCHANGED <<vault, member, score, milestone, balance>>

--------------------------------------------------------------------------------

SponsorStep(v) ==
    \/ \E cliff, end \in Durations :
          \/ InitVault(v, cliff, end)
          \/ \E amount \in Amounts : InitAndDeposit(v, cliff, end, amount)
    \/ \E amount \in Amounts : Deposit(v, amount)
    \/ \E c \in Creators : \/ \E bps \in Allocations : AddCreator(v, c, bps)
                           \/ RemoveCreator(v, c)
    \/ \E i \in Indices, threshold \in Thresholds, bps \in Payouts, t \in Targets :
          CreateMilestone(v, i, threshold, bps, t)
    \/ CloseVault(v)

AutomationStep(v) ==
    \/ \E i \in Indices, threshold \in Thresholds, bps \in Payouts, t \in Targets :
          CreateMilestoneByAutomation(v, i, threshold, bps, t)
    \/ \E i \in Indices, c \in Creators : ReleaseMilestone(v, i, c)
    \/ \E c \in Creators, amount \in Amounts : RouteYield(v, c, amount)

OracleStep(v) == \E c \in Creators, s \in Scores : UpdateScore(v, c, s)

Next ==
    \/ \E v \in Vaults : SponsorStep(v) \/ AutomationStep(v) \/ OracleStep(v)
    \/ \E w \in Donors, v \in Vaults, amount \in Amounts : ExternalTransfer(w, v, amount)
    \/ Tick

Spec == Init /\ [][Next]_vars

\* Time passes, and a sponsor who wants the funds back keeps submitting
\* close_vault until it is executed.  Nobody else is assumed to act.
TimePasses      == WF_vars(Tick)
KeepsClosing(v) == WF_vars(CloseVault(v))

FairSpec == Spec /\ TimePasses /\ \A v \in Vaults : KeepsClosing(v)
================================================================================
