------------------------------ MODULE GeckoProgram ------------------------------
(***************************************************************************)
(* The whole program: vaults, the confidence pool of one campaign, the     *)
(* reputations and the config they are gated by, under one clock.          *)
(*                                                                         *)
(* Each component is an instance over the variables of this module; an     *)
(* action here is an instruction of one component that leaves the others   *)
(* alone, under the condition its account constraints put on another one:  *)
(* eight instructions decode the config and fail when they cannot, and     *)
(* open_pool reads the vault.  Vaults and pools have token accounts of     *)
(* their own mints, so that balance and pool_balance are disjoint; nothing *)
(* makes a pool's mint the mint of its vault.                              *)
(*                                                                         *)
(* Of an older build the model keeps what outlives it: the config in its   *)
(* layout, and vaults that were opened, funded or closed.                  *)
(***************************************************************************)
EXTENDS GeckoMath, Sequences, FiniteSets

CONSTANTS
    Vaults, Wallets, Creators, SponsorOf, Treasury, Indices, AnyCreator,
    MIN_CLIFF_SECONDS, MAX_I64, MAX_U8, VaultFunds, Durations, Amounts, Allocations,
    Scores, Thresholds, Payouts, Targets, VaultDonors,
    Bettors, PoolDonors, PoolToken, PoolFunds, Stakes, MAX_U32,
    Keys, Mints, MintLists, NoKey,
    Earnings, MAX_CAMPAIGNS,
    Campaign,   \* the vault whose pool is modelled
    VaultMint   \* the mint every vault is created with

VARIABLES
    now,
    build, account,                             \* ProtocolConfig
    vault, member, score, milestone, balance,   \* CampaignVault
    pool, position, pool_balance,               \* ConfidencePool
    reputation, submitted                       \* Reputation

configVars     == <<build, account>>
vaultVars      == <<vault, member, score, milestone, balance>>
poolVars       == <<pool, position, pool_balance>>
reputationVars == <<reputation, submitted>>
vars           == <<now, configVars, vaultVars, poolVars, reputationVars>>

C == INSTANCE ProtocolConfig

V == INSTANCE CampaignVault WITH
        FEE_BPS <- DEFAULT_FEE_BPS, InitialFunds <- VaultFunds, Donors <- VaultDonors

\* The campaign as the pool sees it: it has not closed, or it has.
P == INSTANCE ConfidencePool WITH
        campaign <- IF vault[Campaign].status = "Closed" THEN "Closed" ELSE "Active",
        balance <- pool_balance, InitialFunds <- PoolFunds, Donors <- PoolDonors,
        END_TS <- MAX_I64

R == INSTANCE Reputation

ASSUME ProgramAssumption ==
    /\ V!VaultAssumption /\ P!PoolAssumption /\ C!ConfigAssumption /\ R!ReputationAssumption
    /\ Campaign \in Vaults /\ VaultMint \in Mints /\ Treasury \in Keys

\* The config of the model names Treasury.
Init ==
    /\ C!Init /\ account.treasury \in {NoKey, Treasury}
    /\ V!Init /\ P!Init /\ R!Init

--------------------------------------------------------------------------------
(* Vaults *)

\* init_vault and init_and_deposit decode the config and look for the mint in it.
CreateVault(v) ==
    /\ C!Readable
    /\ \E i \in DOMAIN C!AllowedMints : C!AllowedMints[i] = VaultMint
    /\ \E cliff, end \in Durations :
          \/ V!InitVault(v, cliff, end)
          \/ \E amount \in Amounts : build = "current" /\ V!InitAndDeposit(v, cliff, end, amount)
    /\ UNCHANGED <<configVars, poolVars, reputationVars>>

Deposit(v) ==
    /\ \E amount \in Amounts : V!Deposit(v, amount)
    /\ UNCHANGED <<configVars, poolVars, reputationVars>>

BugCloseReadsConfig(v) ==   \* mutant: close_vault takes the config account too
    /\ C!Readable
    /\ V!CloseVault(v)
    /\ UNCHANGED <<configVars, poolVars, reputationVars>>

CloseVault(v) ==
    /\ V!CloseVault(v)
    /\ UNCHANGED <<configVars, poolVars, reputationVars>>

\* The sponsor's other instructions.  None decodes the config.
ManageVault(v) ==
    /\ build = "current"
    /\ \/ \E c \in Creators : \/ \E bps \in Allocations : V!AddCreator(v, c, bps)
                              \/ V!RemoveCreator(v, c)
       \/ \E i \in Indices, threshold \in Thresholds, bps \in Payouts, t \in Targets :
             V!CreateMilestone(v, i, threshold, bps, t)
    /\ UNCHANGED <<configVars, poolVars, reputationVars>>

\* route_yield, release_milestone and create_milestone_by_automation, signed by
\* config.automation_authority, and update_score, signed by config.oracle_authority.
OperateVault(v) ==
    /\ build = "current" /\ C!Readable
    /\ V!AutomationStep(v) \/ V!OracleStep(v)
    /\ UNCHANGED <<configVars, poolVars, reputationVars>>

--------------------------------------------------------------------------------
(* The pool *)

\* The sponsor opens a pool for a vault that is Active at that moment.
OpenPool ==
    /\ UNCHANGED <<configVars, vaultVars, reputationVars>>
    /\ build = "current" /\ V!Active(Campaign)
    /\ P!OpenPool

Stake(b) ==
    /\ UNCHANGED <<configVars, vaultVars, reputationVars>>
    /\ \E side \in P!Sides, amount \in Stakes : P!Stake(b, side, amount)

\* Signed by config.oracle_authority.
SettlePool ==
    /\ UNCHANGED <<configVars, vaultVars, reputationVars>>
    /\ C!Readable
    /\ \E outcome \in P!Sides : P!SettlePool(outcome)

ClaimWinnings(b) ==
    /\ UNCHANGED <<configVars, vaultVars, reputationVars>>
    /\ P!ClaimWinnings(b)

--------------------------------------------------------------------------------
(* Reputation and config *)

SubmitUpdate(c) ==
    /\ \E s \in Scores, earned \in Earnings : R!SubmitUpdate(c, s, earned)
    /\ UNCHANGED <<now, configVars, vaultVars, poolVars>>

\* Signed by config.oracle_authority.
UpdateReputation(c, i) ==
    /\ build = "current" /\ C!Readable
    /\ i \in DOMAIN submitted[c] /\ R!UpdateReputation(c, submitted[c][i])
    /\ UNCHANGED <<now, configVars, vaultVars, poolVars>>

ConfigStep(step) == UNCHANGED <<now, vaultVars, poolVars, reputationVars>> /\ step

InitConfig ==
    ConfigStep(\E a, k, oracle \in Keys, mints \in MintLists :
                  C!InitConfig(a, Treasury, k, oracle, mints))
MigrateConfig == ConfigStep(\E a \in Keys : C!Migrate(a))
RepairConfig  == ConfigStep(\E a \in Keys : C!Repair(a))
Upgrade       == ConfigStep(C!Upgrade)

--------------------------------------------------------------------------------
(* Environment *)

Donate ==
    \/ /\ \E w \in VaultDonors, v \in Vaults, amount \in Amounts : V!ExternalTransfer(w, v, amount)
       /\ UNCHANGED <<configVars, poolVars, reputationVars>>
    \/ /\ UNCHANGED <<configVars, vaultVars, reputationVars>>
       /\ \E d \in PoolDonors, amount \in Stakes : P!ExternalTransfer(d, amount)

Tick == V!Tick /\ UNCHANGED <<configVars, poolVars, reputationVars>>

--------------------------------------------------------------------------------

Next ==
    \/ \E v \in Vaults : \/ CreateVault(v) \/ Deposit(v) \/ CloseVault(v)
                         \/ ManageVault(v) \/ OperateVault(v)
    \/ OpenPool \/ SettlePool
    \/ \E b \in Bettors : Stake(b) \/ ClaimWinnings(b)
    \/ \E c \in Creators : SubmitUpdate(c) \/ \E i \in DOMAIN submitted[c] : UpdateReputation(c, i)
    \/ InitConfig \/ MigrateConfig \/ RepairConfig \/ Upgrade
    \/ Donate
    \/ Tick

Spec == Init /\ [][Next]_vars

\* An actor who keeps submitting an instruction has it executed in the end, unless
\* it stops being possible again and again.
KeepsMigrating   == WF_vars(MigrateConfig)
KeepsRepairing   == WF_vars(RepairConfig)
KeepsSettling    == WF_vars(SettlePool)
KeepsClosing(v)  == WF_vars(CloseVault(v))
KeepsClaiming(b) == WF_vars(ClaimWinnings(b))
TimePasses       == WF_vars(Tick)
\* The oracle's latest update, whichever that is by then.
KeepsReporting(c) == WF_vars(UpdateReputation(c, Len(submitted[c])))

\* Sponsors and bettors ask for what is theirs.  Nobody need see to the config or
\* to the pool.
FairSpec ==
    /\ Spec /\ TimePasses
    /\ \A v \in Vaults : KeepsClosing(v)
    /\ \A b \in Bettors : KeepsClaiming(b)
================================================================================
