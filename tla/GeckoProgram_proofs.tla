-------------------------- MODULE GeckoProgram_proofs --------------------------
(***************************************************************************)
(* The composed program implements its components, for every value of the  *)
(* constants: whatever the config, the pool and the reputations do, the    *)
(* vaults behave as CampaignVault says, so that its theorems hold of the   *)
(* whole program; and the vaults behave towards the pool as the            *)
(* environment of ConfidencePool does. Then what the program adds: the     *)
(* rate a vault recorded is the one it is charged. Then the theorems about *)
(* the components are carried over to the program.                         *)
(*                                                                         *)
(* At the end, what happens in time: a pool is settled and a reputation    *)
(* catches up if the administrator and the oracle keep trying, and         *)
(* everybody is paid whether they try or not.                              *)
(***************************************************************************)
EXTENDS GeckoProgramProps, SequenceTheorems, TLAPS

LEMMA VaultStepRefines == [Next]_vars => [V!Next]_V!vars
  <1> SUFFICES ASSUME [Next]_vars PROVE [V!Next]_V!vars
    OBVIOUS
  <1>1. ASSUME NEW v \in Vaults, CreateVault(v) PROVE V!Next
    BY <1>1 DEF CreateVault, V!Next, V!SponsorStep
  <1>2. ASSUME NEW v \in Vaults, Deposit(v) PROVE V!Next
    BY <1>2 DEF Deposit, V!Next, V!SponsorStep
  <1>3. ASSUME NEW v \in Vaults, CloseVault(v) PROVE V!Next
    BY <1>3 DEF CloseVault, V!Next, V!SponsorStep
  <1>4. ASSUME NEW v \in Vaults, ManageVault(v) PROVE V!Next
    BY <1>4 DEF ManageVault, V!Next, V!SponsorStep
  <1>5. ASSUME NEW v \in Vaults, OperateVault(v) PROVE V!Next
    BY <1>5 DEF OperateVault, V!Next
  <1>6. CASE Donate
    BY <1>6 DEF Donate, V!Next, V!vars, vaultVars, P!ExternalTransfer
  <1>7. CASE Tick
    BY <1>7 DEF Tick, V!Next
  <1>8. CASE OpenPool \/ SettlePool \/ \E b \in Bettors : Stake(b) \/ ClaimWinnings(b)
    BY <1>8 DEF OpenPool, SettlePool, Stake, ClaimWinnings, V!vars, vaultVars,
                P!OpenPool, P!SettlePool, P!Stake, P!ClaimWinnings
  <1>9. CASE \E c \in Creators :
               SubmitUpdate(c) \/ \E i \in DOMAIN submitted[c] : UpdateReputation(c, i)
    BY <1>9 DEF SubmitUpdate, UpdateReputation, V!vars, vaultVars
  <1>10. CASE InitConfig \/ MigrateConfig \/ RepairConfig \/ Upgrade
    BY <1>10 DEF InitConfig, MigrateConfig, RepairConfig, Upgrade, ConfigStep, V!vars, vaultVars
  <1>11. CASE UNCHANGED vars
    BY <1>11 DEF vars, V!vars, vaultVars
  <1> QED
    BY <1>1, <1>2, <1>3, <1>4, <1>5, <1>6, <1>7, <1>8, <1>9, <1>10, <1>11 DEF Next

\* The composed program behaves as CampaignVault towards its vaults.
THEOREM ImplementsVaults == Spec => V!Spec
  BY VaultStepRefines, PTL DEF Spec, Init, V!Spec

--------------------------------------------------------------------------------
(* The campaign as the pool's environment *)

\* Every vault has a status, so that an update elsewhere in it keeps it.
HasStatus == DOMAIN vault = Vaults /\ \A v \in Vaults : "status" \in DOMAIN vault[v]

Status(v) == vault[v].status

StatusesKept == HasStatus' /\ \A v \in Vaults : Status(v)' = Status(v)

\* The status of v becomes s, and no other vault's changes.
BecomesAt(v, s) ==
    HasStatus' /\ \A u \in Vaults : Status(u)' = IF u = v THEN s ELSE Status(u)

LEMMA OpeningStatus ==
    ASSUME HasStatus, NEW v \in Vaults, NEW cliff, NEW end, NEW amount,
           V!InitVault(v, cliff, end) \/ V!InitAndDeposit(v, cliff, end, amount)
    PROVE  Status(v) = "none" /\ BecomesAt(v, "Active")
  BY DEF HasStatus, Status, BecomesAt, V!InitVault, V!InitAndDeposit, V!NewVault

LEMMA ClosingStatus ==
    ASSUME HasStatus, NEW v \in Vaults, V!CloseVault(v)
    PROVE  Status(v) \notin {"none", "Closed"} /\ BecomesAt(v, "Closed")
  BY DEF HasStatus, Status, BecomesAt, V!CloseVault, V!CloseVaultAllowed

LEMMA SponsorStatus ==
    ASSUME HasStatus, NEW v \in Vaults, NEW c, NEW amount, NEW i, NEW threshold, NEW t,
           \/ V!Deposit(v, amount) \/ V!AddCreator(v, c, amount) \/ V!RemoveCreator(v, c)
           \/ V!CreateMilestone(v, i, threshold, amount, t)
    PROVE  StatusesKept
  BY DEF HasStatus, Status, StatusesKept, V!Deposit, V!AddCreator, V!RemoveCreator,
         V!CreateMilestone, V!InitMilestone

LEMMA OperatorStatus ==
    ASSUME HasStatus, NEW v \in Vaults, V!AutomationStep(v) \/ V!OracleStep(v)
    PROVE  StatusesKept
  <1>1. ASSUME NEW i \in Indices, NEW c \in Creators, V!ReleaseMilestone(v, i, c)
        PROVE  StatusesKept
    BY <1>1 DEF HasStatus, Status, StatusesKept, V!ReleaseMilestone
  <1>2. ASSUME NEW c \in Creators, NEW amount \in Amounts, V!RouteYield(v, c, amount)
        PROVE  StatusesKept
    BY <1>2 DEF HasStatus, Status, StatusesKept, V!RouteYield
  <1>3. ASSUME NEW i \in Indices, NEW threshold \in Thresholds, NEW bps \in Payouts,
               NEW t \in Targets, V!CreateMilestoneByAutomation(v, i, threshold, bps, t)
        PROVE  StatusesKept
    BY <1>3 DEF HasStatus, Status, StatusesKept, V!CreateMilestoneByAutomation, V!InitMilestone
  <1>4. CASE V!OracleStep(v)
    BY <1>4 DEF HasStatus, Status, StatusesKept, V!OracleStep, V!UpdateScore
  <1> QED
    BY <1>1, <1>2, <1>3, <1>4 DEF V!AutomationStep

LEMMA HasStatusInit == Init => HasStatus
  BY DEF Init, V!Init, V!NoVault, HasStatus

LEMMA VaultInstructionStatus ==
    ASSUME HasStatus, NEW v \in Vaults,
           CreateVault(v) \/ Deposit(v) \/ CloseVault(v) \/ ManageVault(v) \/ OperateVault(v)
    PROVE  \/ StatusesKept
           \/ Status(v) = "none" /\ BecomesAt(v, "Active")
           \/ Status(v) \notin {"none", "Closed"} /\ BecomesAt(v, "Closed")
  <1>1. CASE CreateVault(v)
    BY <1>1, OpeningStatus DEF CreateVault
  <1>2. CASE Deposit(v)
    BY <1>2, SponsorStatus DEF Deposit
  <1>3. CASE CloseVault(v)
    BY <1>3, ClosingStatus DEF CloseVault
  <1>4. CASE ManageVault(v)
    BY <1>4, SponsorStatus DEF ManageVault
  <1>5. CASE OperateVault(v)
    BY <1>5, OperatorStatus DEF OperateVault
  <1> QED
    BY <1>1, <1>2, <1>3, <1>4, <1>5

\* No vault instruction touches the clock or the pool.
LEMMA VaultInstructionFrame ==
    ASSUME NEW v \in Vaults,
           CreateVault(v) \/ Deposit(v) \/ CloseVault(v) \/ ManageVault(v) \/ OperateVault(v)
    PROVE  UNCHANGED <<now, pool, position, pool_balance>>
  <1>1. CASE CreateVault(v)
    BY <1>1 DEF CreateVault, V!InitVault, V!InitAndDeposit, poolVars
  <1>2. CASE Deposit(v)
    BY <1>2 DEF Deposit, V!Deposit, poolVars
  <1>3. CASE CloseVault(v)
    BY <1>3 DEF CloseVault, V!CloseVault, poolVars
  <1>4. CASE ManageVault(v)
    BY <1>4 DEF ManageVault, V!AddCreator, V!RemoveCreator, V!CreateMilestone,
                V!InitMilestone, poolVars
  <1>5. CASE OperateVault(v)
    BY <1>5 DEF OperateVault, V!AutomationStep, V!OracleStep, V!ReleaseMilestone, V!RouteYield,
                V!CreateMilestoneByAutomation, V!InitMilestone, V!UpdateScore, poolVars
  <1> QED
    BY <1>1, <1>2, <1>3, <1>4, <1>5

\* A vault that is closed never opens again, so that the campaign's vault can only
\* close, once, which is what the pool expects of it.
LEMMA VaultInstructionRefines ==
    ASSUME HasStatus, NEW v \in Vaults,
           CreateVault(v) \/ Deposit(v) \/ CloseVault(v) \/ ManageVault(v) \/ OperateVault(v)
    PROVE  HasStatus' /\ [P!CampaignCloses]_(P!vars)
  <1>0. Campaign \in Vaults
    BY ProgramAssumption
  <1>1. UNCHANGED <<now, pool, position, pool_balance>>
    BY VaultInstructionFrame
  <1>2. CASE StatusesKept
    BY <1>0, <1>1, <1>2 DEF StatusesKept, Status, P!vars
  <1>3. CASE Status(v) = "none" /\ BecomesAt(v, "Active")
    BY <1>0, <1>1, <1>3 DEF BecomesAt, Status, P!vars
  <1>4. CASE Status(v) \notin {"none", "Closed"} /\ BecomesAt(v, "Closed")
    BY <1>0, <1>1, <1>4 DEF BecomesAt, Status, P!vars, P!CampaignCloses
  <1> QED
    BY <1>2, <1>3, <1>4, VaultInstructionStatus

LEMMA PoolStepRefines == HasStatus /\ [Next]_vars => HasStatus' /\ [P!Next]_(P!vars)
  <1> SUFFICES ASSUME HasStatus, [Next]_vars PROVE HasStatus' /\ [P!Next]_(P!vars)
    OBVIOUS
  <1>1. ASSUME NEW v \in Vaults,
               CreateVault(v) \/ Deposit(v) \/ CloseVault(v) \/ ManageVault(v) \/ OperateVault(v)
        PROVE  HasStatus' /\ [P!Next]_(P!vars)
    BY <1>1, VaultInstructionRefines DEF P!Next
  <1>2. CASE OpenPool
    BY <1>2 DEF OpenPool, vaultVars, HasStatus, P!Next
  <1>3. CASE SettlePool
    BY <1>3 DEF SettlePool, vaultVars, HasStatus, P!Next
  <1>4. ASSUME NEW b \in Bettors, Stake(b) \/ ClaimWinnings(b)
        PROVE  HasStatus' /\ [P!Next]_(P!vars)
    BY <1>4 DEF Stake, ClaimWinnings, vaultVars, HasStatus, P!Next
  <1>5. CASE Donate
    <2>1. ASSUME NEW w \in VaultDonors, NEW v \in Vaults, NEW amount \in Amounts,
                 V!ExternalTransfer(w, v, amount), UNCHANGED poolVars
          PROVE  HasStatus' /\ [P!Next]_(P!vars)
      BY <2>1 DEF V!ExternalTransfer, poolVars, HasStatus, P!vars
    <2>2. ASSUME NEW d \in PoolDonors, NEW amount \in Stakes,
                 P!ExternalTransfer(d, amount), UNCHANGED vaultVars
          PROVE  HasStatus' /\ [P!Next]_(P!vars)
      BY <2>2 DEF vaultVars, HasStatus, P!Next
    <2> QED
      BY <1>5, <2>1, <2>2 DEF Donate
  <1>6. CASE Tick
    BY <1>6 DEF Tick, V!Tick, P!Tick, poolVars, HasStatus, P!Next
  <1>7. CASE \/ \E c \in Creators :
                   SubmitUpdate(c) \/ \E i \in DOMAIN submitted[c] : UpdateReputation(c, i)
             \/ InitConfig \/ MigrateConfig \/ RepairConfig \/ Upgrade
             \/ UNCHANGED vars
    BY <1>7 DEF SubmitUpdate, UpdateReputation, InitConfig, MigrateConfig, RepairConfig,
                Upgrade, ConfigStep, vars, vaultVars, poolVars, HasStatus, P!vars
  <1> QED
    BY <1>1, <1>2, <1>3, <1>4, <1>5, <1>6, <1>7 DEF Next

\* The composed program behaves as ConfidencePool towards its pool: the vault that
\* the pool was opened for is the environment that module assumes.
THEOREM ImplementsPool == Spec => PoolSpec
  <1>1. Init => P!Init
    BY DEF Init
  <1> QED
    BY <1>1, HasStatusInit, PoolStepRefines, PTL DEF Spec, PoolSpec, P!Spec

--------------------------------------------------------------------------------
(* The rate *)

\* Every vault that exists recorded the standard rate.
VaultsRated ==
    /\ DOMAIN vault = Vaults
    /\ \A v \in Vaults :
          /\ {"status", "gecko_fee_bps"} \subseteq DOMAIN vault[v]
          /\ vault[v].status # "none" => vault[v].gecko_fee_bps = DEFAULT_FEE_BPS

\* Every header in the config's data, in use or left over, has the standard rate.
Rated(data) ==
    /\ DOMAIN data = C!Cells
    /\ \A c \in C!Cells : data[c].holds = "header" => data[c].fee_bps = DEFAULT_FEE_BPS

ConfigRated ==
    /\ DOMAIN account = {"size", "authority", "treasury", "automation_authority", "data"}
    /\ Rated(account.data)

RateInv == VaultsRated /\ ConfigRated

LEMMA SponsorRated ==
    ASSUME VaultsRated, NEW v \in Vaults, V!SponsorStep(v) PROVE VaultsRated'
  <1>1. ASSUME NEW cliff, NEW end, NEW amount,
               V!InitVault(v, cliff, end) \/ V!InitAndDeposit(v, cliff, end, amount)
        PROVE  VaultsRated'
    BY <1>1 DEF VaultsRated, V!InitVault, V!InitAndDeposit, V!NewVault
  <1>2. ASSUME NEW c, NEW amount, V!Deposit(v, amount) \/ V!AddCreator(v, c, amount)
               \/ V!RemoveCreator(v, c) \/ V!CloseVault(v)
        PROVE  VaultsRated'
    BY <1>2 DEF VaultsRated, V!Active, V!Deposit, V!AddCreator, V!AddCreatorAllowed,
                V!RemoveCreator, V!RemoveCreatorAllowed, V!CloseVault, V!CloseVaultAllowed
  <1>3. ASSUME NEW i, NEW threshold, NEW bps, NEW t, V!CreateMilestone(v, i, threshold, bps, t)
        PROVE  VaultsRated'
    BY <1>3 DEF VaultsRated, V!CreateMilestone, V!InitMilestone
  <1> QED
    BY <1>1, <1>2, <1>3 DEF V!SponsorStep

LEMMA OperatorRated ==
    ASSUME VaultsRated, NEW v \in Vaults, V!AutomationStep(v) \/ V!OracleStep(v)
    PROVE  VaultsRated'
  <1>1. ASSUME NEW i, NEW c, V!ReleaseMilestone(v, i, c) PROVE VaultsRated'
    BY <1>1 DEF VaultsRated, V!Active, V!ReleaseMilestone, V!ReleaseAllowed
  <1>2. ASSUME NEW c, NEW amount, V!RouteYield(v, c, amount) PROVE VaultsRated'
    BY <1>2 DEF VaultsRated, V!Active, V!RouteYield, V!RouteYieldAllowed
  <1>3. ASSUME NEW i, NEW threshold, NEW bps, NEW t,
               V!CreateMilestoneByAutomation(v, i, threshold, bps, t)
        PROVE  VaultsRated'
    BY <1>3 DEF VaultsRated, V!CreateMilestoneByAutomation, V!InitMilestone
  <1>4. CASE V!OracleStep(v)
    BY <1>4 DEF VaultsRated, V!OracleStep, V!UpdateScore
  <1> QED
    BY <1>1, <1>2, <1>3, <1>4 DEF V!AutomationStep

LEMMA VaultStepRated == VaultsRated /\ [V!Next]_V!vars => VaultsRated'
  <1> SUFFICES ASSUME VaultsRated, [V!Next]_V!vars PROVE VaultsRated'
    OBVIOUS
  <1>1. ASSUME NEW v \in Vaults, V!SponsorStep(v) \/ V!AutomationStep(v) \/ V!OracleStep(v)
        PROVE  VaultsRated'
    BY <1>1, SponsorRated, OperatorRated
  <1>2. ASSUME NEW w, NEW v, NEW amount, V!ExternalTransfer(w, v, amount) PROVE VaultsRated'
    BY <1>2 DEF VaultsRated, V!ExternalTransfer
  <1>3. CASE V!Tick \/ UNCHANGED V!vars
    BY <1>3 DEF VaultsRated, V!Tick, V!vars
  <1> QED
    BY <1>1, <1>2, <1>3 DEF V!Next

\* Keys and terms are written with no rate but the standard one.
LEMMA KeyRated ==
    ASSUME NEW data, Rated(data), NEW at, NEW key
    PROVE  Rated(C!WithKey(data, at, key))
  BY DEF Rated, C!WithKey, C!Piece

LEMMA TermsRated ==
    ASSUME NEW data, Rated(data), NEW header, NEW mints
    PROVE  Rated(C!WithTerms(data, header, DEFAULT_FEE_BPS, mints))
  <1> DEFINE e == C!WithTerms(data, header, DEFAULT_FEE_BPS, mints)
  <1>1. DOMAIN e = C!Cells
    BY DEF Rated, C!WithTerms
  <1>2. ASSUME NEW c \in C!Cells
        PROVE  e[c].holds = "header" => e[c].fee_bps = DEFAULT_FEE_BPS
    <2> DEFINE i == (c - header + 25) \div C!KEY_BYTES
    <2>1. e[c] = CASE c < header       -> data[c]
                   [] c = header       -> C!Header(DEFAULT_FEE_BPS, Len(mints))
                   [] i > Len(mints)   -> C!Zeros
                   [] OTHER            -> C!Piece(mints[i], C!Slot(header, i), c)
      BY DEF Rated, C!WithTerms
    <2> HIDE DEF e, i
    <2>2. \/ e[c] = data[c] \/ e[c] = C!Header(DEFAULT_FEE_BPS, Len(mints))
          \/ e[c] = C!Zeros \/ e[c] = C!Piece(mints[i], C!Slot(header, i), c)
      BY <2>1
    <2> QED
      BY <2>2 DEF Rated, C!Header, C!Zeros, C!Piece
  <1> QED
    BY <1>1, <1>2 DEF Rated

LEMMA BlankRated == Rated(C!Blank)
  BY DEF Rated, C!Blank, C!Zeros

LEMMA SameRate == C!DEFAULT_FEE_BPS = DEFAULT_FEE_BPS
  BY DEF DEFAULT_FEE_BPS, C!DEFAULT_FEE_BPS

LEMMA DataWritten ==
    ASSUME ConfigRated, NEW size, NEW data, Rated(data),
           \/ account' = [account EXCEPT !.size = size, !.data = data]
           \/ account' = [account EXCEPT !.data = data]
    PROVE  ConfigRated'
  <1>1. /\ DOMAIN account' = {"size", "authority", "treasury", "automation_authority", "data"}
        /\ account'.data = data
    BY DEF ConfigRated
  <1> QED
    BY <1>1 DEF ConfigRated, Rated

LEMMA ConfigStepRated == ConfigRated /\ [C!Next]_C!configVars => ConfigRated'
  <1> SUFFICES ASSUME ConfigRated, [C!Next]_C!configVars PROVE ConfigRated'
    OBVIOUS
  <1>1. ASSUME NEW a, NEW t, NEW k, NEW oracle, NEW mints, C!InitConfig(a, t, k, oracle, mints)
        PROVE  ConfigRated'
    BY <1>1, BlankRated, KeyRated, TermsRated, SameRate DEF ConfigRated, C!InitConfig
  <1>2. ASSUME NEW a, NEW oracle, C!MigrateConfig(a, oracle) PROVE ConfigRated'
    <2> DEFINE d == C!WithKey(account.data, C!OLD_HEADER, oracle)
    <2>1. Rated(d)
      BY KeyRated DEF ConfigRated
    <2>2. account' = [account EXCEPT !.size = C!NEW_SIZE, !.data = d]
      BY <1>2 DEF C!MigrateConfig
    <2> QED
      BY <2>1, <2>2, DataWritten
  <1>3. ASSUME NEW a, NEW oracle, NEW mints, C!RepairConfig(a, oracle, mints) PROVE ConfigRated'
    <2> DEFINE d == C!Repaired(account.data, oracle, mints)
    <2>1. Rated(d)
      BY KeyRated, TermsRated, SameRate DEF ConfigRated, C!Repaired
    <2>2. account' = [account EXCEPT !.data = d]
      BY <1>3 DEF C!RepairConfig
    <2> QED
      BY <2>1, <2>2, DataWritten
  <1>4. CASE C!Upgrade \/ UNCHANGED C!configVars
    BY <1>4 DEF ConfigRated, C!Upgrade, C!configVars
  <1> QED
    BY <1>1, <1>2, <1>3, <1>4 DEF C!Next, C!Migrate, C!Repair

LEMMA ConfigStepRefines == [Next]_vars => [C!Next]_C!configVars
  <1> SUFFICES ASSUME [Next]_vars PROVE [C!Next]_C!configVars
    OBVIOUS
  <1>1. CASE InitConfig
    BY <1>1, ProgramAssumption DEF InitConfig, ConfigStep, C!Next
  <1>2. CASE MigrateConfig \/ RepairConfig \/ Upgrade
    BY <1>2 DEF MigrateConfig, RepairConfig, Upgrade, ConfigStep, C!Next
  <1>3. CASE UNCHANGED configVars
    BY <1>3 DEF configVars, C!configVars
  <1> QED
    BY <1>1, <1>2, <1>3
    DEF Next, vars, CreateVault, Deposit, CloseVault, ManageVault, OperateVault, OpenPool, Stake,
        SettlePool, ClaimWinnings, SubmitUpdate, UpdateReputation, Donate, Tick

LEMMA InitRated == Init => RateInv
  <1> SUFFICES ASSUME Init PROVE RateInv
    OBVIOUS
  <1>1. VaultsRated
    BY DEF Init, V!Init, V!NoVault, VaultsRated
  <1>2. ASSUME account = C!NoAccount PROVE ConfigRated
    BY <1>2, BlankRated DEF ConfigRated, C!NoAccount
  <1>3. ASSUME account \in C!OldAccounts PROVE ConfigRated
    <2>1. PICK mints :
             /\ DOMAIN account = {"size", "authority", "treasury", "automation_authority", "data"}
             /\ account.data = C!WithTerms(C!Blank, C!OLD_HEADER, C!DEFAULT_FEE_BPS, mints)
      BY <1>3 DEF C!OldAccounts
    <2> QED
      BY <2>1, BlankRated, TermsRated, SameRate DEF ConfigRated
  <1> QED
    BY <1>1, <1>2, <1>3 DEF RateInv, Init, C!Init

LEMMA RateDecoded == RateInv => FeeAsRecorded
  <1>1. C!HeaderInUse \in C!Cells
    BY DEF C!HeaderInUse, C!Cells, C!OLD_HEADER, C!HEADER, C!NEW_SIZE, C!SizeOf,
           C!KEY_BYTES, C!MAX_MINTS
  <1> QED
    BY <1>1 DEF RateInv, VaultsRated, ConfigRated, Rated, FeeAsRecorded, C!Readable,
                C!ReadableAt, C!FeeBps

\* The rate a vault recorded at its creation, under any build of the program, is
\* the one route_yield charges from the config, whatever migrations and repairs
\* the config went through and whichever leftovers its data holds.
THEOREM RateNeverMoves == Spec => []FeeAsRecorded
  <1>1. RateInv /\ [Next]_vars => RateInv'
    BY VaultStepRefines, VaultStepRated, ConfigStepRefines, ConfigStepRated DEF RateInv
  <1> QED
    BY InitRated, RateDecoded, <1>1, PTL DEF Spec

--------------------------------------------------------------------------------
(* What is proved of a component alone holds in the whole program.  The proof *)
(* modules are instantiated like the components, and each copy of a component's *)
(* next-state relation is the one GeckoProgram takes its steps from. *)

VT == INSTANCE CampaignVaultBooks_proofs WITH
        FEE_BPS <- DEFAULT_FEE_BPS, InitialFunds <- VaultFunds, Donors <- VaultDonors

PT == INSTANCE ConfidencePool_proofs WITH
        campaign <- IF vault[Campaign].status = "Closed" THEN "Closed" ELSE "Active",
        balance <- pool_balance, InitialFunds <- PoolFunds, Donors <- PoolDonors,
        END_TS <- MAX_I64

LEMMA VaultTheoremsApply == VT!VaultAssumption /\ VT!MaxU64Assumption
  <1>1. \A S : V!IsFiniteSet(S) <=> VT!IsFiniteSet(S)
    BY DEF V!IsFiniteSet, VT!IsFiniteSet
  <1>2. V!U64 = VT!U64 /\ V!BPS_DENOMINATOR = VT!BPS_DENOMINATOR
    BY DEF V!U64, VT!U64, V!BPS_DENOMINATOR, VT!BPS_DENOMINATOR
  <1>3. VT!VaultAssumption
    BY <1>1, <1>2, ProgramAssumption DEF V!VaultAssumption, VT!VaultAssumption
  <1> QED
    BY <1>3, MaxU64Assumption DEF VT!MaxU64Assumption

LEMMA PoolTheoremsApply == PT!PoolAssumption /\ PT!MaxU64Assumption
  <1>1. \A S : P!IsFiniteSet(S) <=> PT!IsFiniteSet(S)
    BY DEF P!IsFiniteSet, PT!IsFiniteSet
  <1>2. P!U64 = PT!U64
    BY DEF P!U64, PT!U64
  <1>3. PT!PoolAssumption
    BY <1>1, <1>2, ProgramAssumption DEF P!PoolAssumption, PT!PoolAssumption
  <1> QED
    BY <1>3, MaxU64Assumption DEF PT!MaxU64Assumption

LEMMA SameVaults ==
    (V!Init <=> VT!Init) /\ ([V!Next]_(V!vars) <=> [VT!Next]_(VT!vars))
  BY DEF V!Transfer, VT!Transfer, V!Init, VT!Init, V!NewVault, VT!NewVault, V!ValidSchedule,
         VT!ValidSchedule, V!InitVault, VT!InitVault, V!InitAndDeposit, VT!InitAndDeposit,
         V!Active, VT!Active, V!Deposit, VT!Deposit, V!CloseVaultAllowed, VT!CloseVaultAllowed,
         V!CloseVault, VT!CloseVault, V!AddCreatorAllowed, VT!AddCreatorAllowed, V!AddCreator,
         VT!AddCreator, V!RemoveCreatorAllowed, VT!RemoveCreatorAllowed, V!RemoveCreator,
         VT!RemoveCreator, V!UpdateScore, VT!UpdateScore, V!InitMilestone, VT!InitMilestone,
         V!CreateMilestone, VT!CreateMilestone, V!CreateMilestoneByAutomation,
         VT!CreateMilestoneByAutomation, V!Payout, VT!Payout, V!ReleaseAllowed,
         VT!ReleaseAllowed, V!ReleaseMilestone, VT!ReleaseMilestone, V!AvailableYield,
         VT!AvailableYield, V!GeckoFee, VT!GeckoFee, V!RouteYieldAllowed, VT!RouteYieldAllowed,
         V!RouteYield, VT!RouteYield, V!ExternalTransfer, VT!ExternalTransfer, V!Tick, VT!Tick,
         V!SponsorStep, VT!SponsorStep, V!AutomationStep, VT!AutomationStep, V!OracleStep,
         VT!OracleStep, V!Next, VT!Next, V!NoVault, VT!NoVault, V!NoMember, VT!NoMember,
         V!NoScore, VT!NoScore, V!NoMilestone, VT!NoMilestone, V!TokenAccounts,
         VT!TokenAccounts, V!vars, VT!vars, V!FitsU64, VT!FitsU64, V!BpsFits, VT!BpsFits,
         V!BpsOf, VT!BpsOf, V!BPS_DENOMINATOR, VT!BPS_DENOMINATOR, V!U64, VT!U64

LEMMA SamePool ==
    (P!Init <=> PT!Init) /\ ([P!Next]_(P!vars) <=> [PT!Next]_(PT!vars))
  BY DEF P!vars, PT!vars, P!TokenAccounts, PT!TokenAccounts, P!Sides, PT!Sides, P!NoPool,
         PT!NoPool, P!NoPosition, PT!NoPosition, P!Transfer, PT!Transfer, P!SideTotal,
         PT!SideTotal, P!FullPool, PT!FullPool, P!Init, PT!Init, P!OpenPool, PT!OpenPool,
         P!StakeAllowed, PT!StakeAllowed, P!Stake, PT!Stake, P!SettleAllowed, PT!SettleAllowed,
         P!SettlePool, PT!SettlePool, P!Winnings, PT!Winnings, P!WinningsFit, PT!WinningsFit,
         P!ClaimAllowed, PT!ClaimAllowed, P!ClaimWinnings, PT!ClaimWinnings, P!CampaignCloses,
         PT!CampaignCloses, P!ExternalTransfer, PT!ExternalTransfer, P!Tick, PT!Tick, P!Next,
         PT!Next, P!FitsU64, PT!FitsU64, P!U64, PT!U64

LEMMA VaultSpec == Spec => VT!Spec
  <1>1. V!Spec => VT!Spec
    BY SameVaults, PTL DEF V!Spec, VT!Spec
  <1> QED
    BY <1>1, ImplementsVaults, PTL

LEMMA PoolTheoremSpec == Spec => PT!Spec
  <1>1. P!Spec => PT!Spec
    BY SamePool, PTL DEF P!Spec, PT!Spec
  <1> QED
    BY <1>1, ImplementsPool, PTL DEF PoolSpec

\* Under every build, config and pool, the vaults of the whole program keep what is
\* proved of CampaignVault: funds covered and swept, books right, closed for good, and
\* in all an escrow.
THEOREM ProgramKeepsVaults ==
    Spec => /\ [](VT!TypeOK /\ VT!PrincipalCovered /\ VT!NothingLeftBehind /\ VT!SquadBooks)
            /\ VT!ClosedIsFinal /\ VT!MilestonePaysOnce /\ VT!EscrowSpec
  <1>1. VT!Spec => []VT!TypeOK
    BY VaultTheoremsApply, VT!TypeCorrect DEF VT!VaultAssumption, VT!MaxU64Assumption
  <1>2. VT!Spec => []VT!PrincipalCovered
    BY VaultTheoremsApply, VT!PrincipalIsCovered DEF VT!VaultAssumption, VT!MaxU64Assumption
  <1>3. VT!Spec => []VT!NothingLeftBehind
    BY VaultTheoremsApply, VT!NoTokensLeftBehind DEF VT!VaultAssumption, VT!MaxU64Assumption
  <1>4. VT!Spec => []VT!SquadBooks
    BY VaultTheoremsApply, VT!CountersCountTheSquad DEF VT!VaultAssumption, VT!MaxU64Assumption
  <1>5. VT!Spec => VT!ClosedIsFinal
    BY VaultTheoremsApply, VT!ClosedForGood DEF VT!VaultAssumption, VT!MaxU64Assumption
  <1>6. VT!Spec => VT!MilestonePaysOnce
    BY VaultTheoremsApply, VT!MilestonesPayOnce DEF VT!VaultAssumption, VT!MaxU64Assumption
  <1>7. VT!Spec => VT!EscrowSpec
    BY VaultTheoremsApply, VT!ImplementsEscrow DEF VT!VaultAssumption, VT!MaxU64Assumption
  <1> QED
    BY <1>1, <1>2, <1>3, <1>4, <1>5, <1>6, <1>7, VaultSpec, PTL

\* And its yield: what was routed covers what was credited and the fee at its rate,
\* and all of it came from outside.
THEOREM ProgramKeepsYield ==
    ASSUME VT!TreasuryApart, VT!DonorsApart
    PROVE  Spec => [](VT!YieldBooks /\ VT!FeeWithinRate /\ VT!YieldComesFromOutside)
  <1>1. VT!Spec => []VT!YieldBooks
    BY VaultTheoremsApply, VT!RoutedCoversCredited DEF VT!VaultAssumption, VT!MaxU64Assumption
  <1>2. VT!Spec => []VT!FeeWithinRate
    BY VaultTheoremsApply, VT!FeesStayWithinRate DEF VT!VaultAssumption, VT!MaxU64Assumption
  <1>3. VT!Spec => []VT!YieldComesFromOutside
    BY VaultTheoremsApply, VT!YieldIsFromOutside DEF VT!VaultAssumption, VT!MaxU64Assumption
  <1> QED
    BY <1>1, <1>2, <1>3, VaultSpec, PTL

\* The pool of the whole program keeps what is proved of ConfidencePool, though it
\* is settled only while the config can be read and its campaign may close first.
THEOREM ProgramKeepsPool ==
    Spec => /\ [](PT!TypeOK /\ PT!StakesMatch /\ PT!PotConserved /\ PT!PoolSolvent)
            /\ [](PT!WinnersNeverLose /\ PT!DustBounded /\ PT!OnlyWidthStopsAClaim)
            /\ PT!SettlementIsFinal
  <1>1. PT!Spec => []PT!TypeOK
    BY PoolTheoremsApply, PT!PoolTypeCorrect DEF PT!PoolAssumption, PT!MaxU64Assumption
  <1>2. PT!Spec => []PT!StakesMatch
    BY PoolTheoremsApply, PT!TotalsAreTheStakes DEF PT!PoolAssumption, PT!MaxU64Assumption
  <1>3. PT!Spec => []PT!PotConserved
    BY PoolTheoremsApply, PT!PotIsConserved DEF PT!PoolAssumption, PT!MaxU64Assumption
  <1>4. PT!Spec => []PT!PoolSolvent
    BY PoolTheoremsApply, PT!NoWinnerIsShortPaid DEF PT!PoolAssumption, PT!MaxU64Assumption
  <1>5. PT!Spec => []PT!WinnersNeverLose
    BY PoolTheoremsApply, PT!BackingTheOutcomeNeverCosts
       DEF PT!PoolAssumption, PT!MaxU64Assumption
  <1>6. PT!Spec => []PT!DustBounded
    BY PoolTheoremsApply, PT!DustIsBounded DEF PT!PoolAssumption, PT!MaxU64Assumption
  <1>7. PT!Spec => []PT!OnlyWidthStopsAClaim
    BY PoolTheoremsApply, PT!OnlyOverflowStopsAWinner DEF PT!PoolAssumption, PT!MaxU64Assumption
  <1>8. PT!Spec => PT!SettlementIsFinal
    BY PoolTheoremsApply, PT!SettlementStands DEF PT!PoolAssumption, PT!MaxU64Assumption
  <1> QED
    BY <1>1, <1>2, <1>3, <1>4, <1>5, <1>6, <1>7, <1>8, PoolTheoremSpec, PTL

--------------------------------------------------------------------------------
(* The config of the whole program *)

CT == INSTANCE ProtocolConfig_proofs

LEMMA ConfigTheoremsApply == CT!ConfigAssumption /\ CT!MaxU64Assumption
  BY ProgramAssumption, MaxU64Assumption
     DEF C!ConfigAssumption, CT!ConfigAssumption, CT!MaxU64Assumption

LEMMA SameConfig ==
    /\ C!Init <=> CT!Init
    /\ [C!Next]_(C!configVars) <=> [CT!Next]_(CT!configVars)
    /\ (\E a \in Keys : C!Migrate(a)) <=> (\E a \in Keys : CT!Migrate(a))
    /\ (\E a \in Keys : C!Repair(a)) <=> (\E a \in Keys : CT!Repair(a))
    /\ C!Readable <=> CT!Readable
  BY DEF C!configVars, CT!configVars, C!KEY_BYTES, CT!KEY_BYTES, C!MAX_MINTS, CT!MAX_MINTS,
         C!OLD_HEADER, CT!OLD_HEADER, C!HEADER, CT!HEADER, C!SizeOf, CT!SizeOf, C!OLD_SIZE,
         CT!OLD_SIZE, C!NEW_SIZE, CT!NEW_SIZE, C!Cells, CT!Cells, C!Zeros, CT!Zeros, C!Header,
         CT!Header, C!Piece, CT!Piece, C!WithKey, CT!WithKey, C!Slot, CT!Slot, C!WithTerms,
         CT!WithTerms, C!Blank, CT!Blank, C!NoAccount, CT!NoAccount, C!ReadableAt,
         CT!ReadableAt, C!HeaderInUse, CT!HeaderInUse, C!Readable, CT!Readable, C!InitConfig,
         CT!InitConfig, C!MigrateConfig, CT!MigrateConfig, C!FirstMints, CT!FirstMints,
         C!Repaired, CT!Repaired, C!RepairConfig, CT!RepairConfig, C!OldAccounts,
         CT!OldAccounts, C!Init, CT!Init, C!Upgrade, CT!Upgrade, C!Migrate, CT!Migrate,
         C!Repair, CT!Repair, C!Next, CT!Next, C!DEFAULT_FEE_BPS, CT!DEFAULT_FEE_BPS

LEMMA ConfigSpec == Spec => CT!Spec
  <1>1. Init => CT!Init
    BY SameConfig DEF Init
  <1> QED
    BY <1>1, ConfigStepRefines, SameConfig, PTL DEF Spec, CT!Spec

\* Whatever vaults, pools and reputations do in between, the config of the whole program
\* keeps what is proved of ProtocolConfig: readers get what somebody submitted or nothing.
THEOREM ProgramKeepsConfig == Spec => CT!RecordSpec /\ []CT!TypeOK
  <1>1. CT!Spec => CT!RecordSpec
    BY ConfigTheoremsApply, CT!ImplementsRecord DEF CT!ConfigAssumption, CT!MaxU64Assumption
  <1>2. CT!Spec => []CT!TypeOK
    BY ConfigTheoremsApply, CT!ConfigTypeCorrect DEF CT!ConfigAssumption, CT!MaxU64Assumption
  <1> QED
    BY <1>1, <1>2, ConfigSpec, PTL

--------------------------------------------------------------------------------
(* The pool is settled *)

\* A vault is only created, and so a pool only opened, when there is a config.
ConfigBehindPool ==
    /\ HasStatus
    /\ \A v \in Vaults : Status(v) # "none" => account.size > 0
    /\ pool.status # "none" => CT!Up

SettlingInv == CT!ConfigInv /\ PT!TypeOK /\ ConfigBehindPool

LEMMA ConfigInvariant == Spec => []CT!ConfigInv
  <1>1. CT!Spec => []CT!ConfigInv
    BY ConfigTheoremsApply, CT!ConfigInvariant DEF CT!ConfigAssumption, CT!MaxU64Assumption
  <1> QED
    BY <1>1, ConfigSpec, PTL

\* The config that a step leaves behind.
LEMMA ConfigStaysUp ==
    ASSUME CT!ConfigInv, [Next]_vars
    PROVE  /\ account.size > 0 => account'.size > 0
           /\ CT!Up => CT!Up'
  <1>1. [CT!Next]_(CT!configVars)
    BY ConfigStepRefines, SameConfig
  <1>2. account.size > 0 => account'.size > 0
    BY <1>1, ConfigTheoremsApply, CT!AccountStays DEF CT!ConfigAssumption, CT!MaxU64Assumption
  <1>3. CT!Up => CT!Up'
    BY <1>1, ConfigTheoremsApply, CT!UpStep DEF CT!ConfigAssumption, CT!MaxU64Assumption
  <1> QED
    BY <1>2, <1>3

\* A pool comes from open_pool alone.
LEMMA NoPoolUnlessOpened ==
    ASSUME [Next]_vars, pool.status = "none", ~OpenPool
    PROVE  pool' = pool
  <1>1. ASSUME NEW v \in Vaults,
               CreateVault(v) \/ Deposit(v) \/ CloseVault(v) \/ ManageVault(v) \/ OperateVault(v)
        PROVE  pool' = pool
    BY <1>1, VaultInstructionFrame
  <1>2. CASE SettlePool \/ \E b \in Bettors : Stake(b) \/ ClaimWinnings(b)
    BY <1>2 DEF SettlePool, P!SettlePool, P!SettleAllowed, Stake, P!Stake, P!StakeAllowed,
                ClaimWinnings, P!ClaimWinnings
  <1>3. CASE Donate \/ Tick
    BY <1>3 DEF Donate, P!ExternalTransfer, Tick, poolVars
  <1>4. CASE \/ \E c \in Creators :
                   SubmitUpdate(c) \/ \E i \in DOMAIN submitted[c] : UpdateReputation(c, i)
             \/ InitConfig \/ MigrateConfig \/ RepairConfig \/ Upgrade
             \/ UNCHANGED vars
    BY <1>4 DEF SubmitUpdate, UpdateReputation, InitConfig, MigrateConfig, RepairConfig,
                Upgrade, ConfigStep, vars, poolVars
  <1> QED
    BY <1>1, <1>2, <1>3, <1>4 DEF Next

LEMMA VaultsKeepConfigBehind ==
    ASSUME ConfigBehindPool, CT!ConfigInv, [Next]_vars
    PROVE  \A u \in Vaults : Status(u)' # "none" => account'.size > 0
  <1>1. account.size > 0 => account'.size > 0
    BY ConfigStaysUp
  <1>2. CASE vault' = vault
    BY <1>1, <1>2 DEF ConfigBehindPool, Status
  <1>3. ASSUME NEW v \in Vaults, CreateVault(v)
        PROVE  account'.size > 0
    BY <1>3 DEF CreateVault, C!Readable, C!ReadableAt, configVars
  <1>4. ASSUME NEW v \in Vaults, Deposit(v) \/ CloseVault(v) \/ ManageVault(v) \/ OperateVault(v),
               NEW u \in Vaults, Status(u)' # "none"
        PROVE  Status(u) # "none"
    <2>1. HasStatus
      BY DEF ConfigBehindPool
    <2>2. CASE CloseVault(v)
      <3>1. Status(v) # "none" /\ BecomesAt(v, "Closed")
        BY <2>1, <2>2, ClosingStatus DEF CloseVault
      <3> QED
        BY <1>4, <3>1 DEF BecomesAt
    <2>3. CASE Deposit(v) \/ ManageVault(v) \/ OperateVault(v)
      <3>1. StatusesKept
        BY <2>1, <2>3, SponsorStatus, OperatorStatus DEF Deposit, ManageVault, OperateVault
      <3> QED
        BY <1>4, <3>1 DEF StatusesKept
    <2> QED
      BY <1>4, <2>2, <2>3
  <1>5. \/ vault' = vault
        \/ \E v \in Vaults : \/ CreateVault(v) \/ Deposit(v) \/ CloseVault(v)
                            \/ ManageVault(v) \/ OperateVault(v)
    BY DEF Next, vars, vaultVars, OpenPool, SettlePool, Stake, ClaimWinnings, SubmitUpdate,
           UpdateReputation, InitConfig, MigrateConfig, RepairConfig, Upgrade, ConfigStep,
           Donate, V!ExternalTransfer, Tick, V!Tick
  <1> QED
    BY <1>1, <1>2, <1>3, <1>4, <1>5 DEF ConfigBehindPool

LEMMA StepBehindPool ==
    ConfigBehindPool /\ CT!ConfigInv /\ [Next]_vars => ConfigBehindPool'
  <1> SUFFICES ASSUME ConfigBehindPool, CT!ConfigInv, [Next]_vars PROVE ConfigBehindPool'
    OBVIOUS
  <1>1. HasStatus'
    BY PoolStepRefines DEF ConfigBehindPool
  <1>2. CT!Up => CT!Up'
    BY ConfigStaysUp
  <1>3. ASSUME pool'.status # "none" PROVE CT!Up'
    <2>1. CASE pool.status # "none"
      BY <1>2, <2>1 DEF ConfigBehindPool
    <2>2. CASE OpenPool
      <3>1. build = "current" /\ Status(Campaign) # "none"
        BY <2>2 DEF OpenPool, V!Active, Status
      <3>2. account.size > 0
        BY <3>1, ProgramAssumption DEF ConfigBehindPool
      <3> QED
        BY <1>2, <3>1, <3>2 DEF CT!Up
    <2> QED
      BY <1>3, <2>1, <2>2, NoPoolUnlessOpened
  <1> QED
    BY <1>1, <1>3, VaultsKeepConfigBehind DEF ConfigBehindPool

LEMMA InitBehindPool == Init => ConfigBehindPool
  BY HasStatusInit DEF Init, V!Init, V!NoVault, P!Init, P!NoPool, ConfigBehindPool, Status

LEMMA SettlingInvariant == Spec => []SettlingInv
  <1>1. PT!Spec => []PT!TypeOK
    BY PoolTheoremsApply, PT!PoolTypeCorrect DEF PT!PoolAssumption, PT!MaxU64Assumption
  <1>2. Spec => []ConfigBehindPool
    BY ConfigInvariant, InitBehindPool, StepBehindPool, PTL DEF Spec
  <1> QED
    BY <1>1, <1>2, ConfigInvariant, PoolTheoremSpec, PTL DEF SettlingInv

\* The instructions written out, down to the value of every variable, and the rule of
\* ENABLED for actions of that form: one is enabled where, for some inputs, its guard
\* holds and a value differs.  The rules are of the logic, which the provers lack, and
\* true of any such action.  That the instructions are these actions, and when their
\* guards hold, is for the proofs to show.
MigrateWritten ==
    UNCHANGED <<now, vaultVars, poolVars, reputationVars>>
    /\ \E a \in Keys : \E oracle \in Keys :
          /\ build = "current"
          /\ account.size > 0 /\ account.authority = a
          /\ account' = [account EXCEPT !.size = C!NEW_SIZE,
                                !.data = C!WithKey(account.data, C!OLD_HEADER, oracle)]
          /\ UNCHANGED build

MigrateRule ==
    (\E a \in Keys : \E oracle \in Keys :
          /\ build = "current"
          /\ account.size > 0 /\ account.authority = a
          /\ [account EXCEPT !.size = C!NEW_SIZE,
                             !.data = C!WithKey(account.data, C!OLD_HEADER, oracle)] # account)
    => ENABLED <<MigrateWritten>>_vars

RepairWritten ==
    UNCHANGED <<now, vaultVars, poolVars, reputationVars>>
    /\ \E a \in Keys : \E oracle \in Keys, mints \in MintLists :
          /\ build = "current"
          /\ account.size >= 143 /\ account.authority = a
          /\ C!Slot(C!HEADER, C!MAX_MINTS + 1) <= account.size
          /\ account' = [account EXCEPT !.data = C!Repaired(account.data, oracle, mints)]
          /\ UNCHANGED build

RepairRule ==
    (\E a \in Keys : \E oracle \in Keys, mints \in MintLists :
          /\ build = "current"
          /\ account.size >= 143 /\ account.authority = a
          /\ C!Slot(C!HEADER, C!MAX_MINTS + 1) <= account.size
          /\ [account EXCEPT !.data = C!Repaired(account.data, oracle, mints)] # account)
    => ENABLED <<RepairWritten>>_vars

PoolSettled(outcome) ==
    [pool EXCEPT !.status = "Settled", !.outcome = outcome, !.settled_at = now]

SettleWritten ==
    /\ UNCHANGED <<configVars, vaultVars, reputationVars>>
    /\ C!Readable
    /\ \E outcome \in P!Sides :
          /\ P!SettleAllowed
          /\ pool' = PoolSettled(outcome)
          /\ UNCHANGED <<now, IF vault[Campaign].status = "Closed" THEN "Closed" ELSE "Active",
                         position, pool_balance>>

SettleRule ==
    (\E outcome \in P!Sides : C!Readable /\ P!SettleAllowed /\ PoolSettled(outcome) # pool)
    => ENABLED <<SettleWritten>>_vars

SameConfigData ==
    /\ C!NEW_SIZE = CT!NEW_SIZE /\ C!OLD_HEADER = CT!OLD_HEADER
    /\ C!Slot(C!HEADER, C!MAX_MINTS + 1) = CT!Slot(CT!HEADER, CT!MAX_MINTS + 1)
    /\ \A data, at, key : C!WithKey(data, at, key) = CT!WithKey(data, at, key)
    /\ \A data, oracle, mints : C!Repaired(data, oracle, mints) = CT!Repaired(data, oracle, mints)

LEMMA SameData == SameConfigData
  <1>1. /\ C!KEY_BYTES = CT!KEY_BYTES /\ C!MAX_MINTS = CT!MAX_MINTS
        /\ C!OLD_HEADER = CT!OLD_HEADER /\ C!HEADER = CT!HEADER
        /\ C!DEFAULT_FEE_BPS = CT!DEFAULT_FEE_BPS /\ C!NEW_SIZE = CT!NEW_SIZE
    BY DEF C!KEY_BYTES, CT!KEY_BYTES, C!MAX_MINTS, CT!MAX_MINTS, C!OLD_HEADER, CT!OLD_HEADER,
           C!HEADER, CT!HEADER, C!DEFAULT_FEE_BPS, CT!DEFAULT_FEE_BPS, C!NEW_SIZE, CT!NEW_SIZE,
           C!SizeOf, CT!SizeOf
  <1>2. \A header, i : C!Slot(header, i) = CT!Slot(header, i)
    BY <1>1 DEF C!Slot, CT!Slot
  <1>3. \A data, at, key : C!WithKey(data, at, key) = CT!WithKey(data, at, key)
    BY <1>1 DEF C!WithKey, CT!WithKey, C!Piece, CT!Piece
  <1>4. \A data, oracle, mints : C!Repaired(data, oracle, mints) = CT!Repaired(data, oracle, mints)
    BY <1>1 DEF C!Repaired, CT!Repaired, C!WithKey, CT!WithKey, C!Piece, CT!Piece, C!WithTerms,
           CT!WithTerms, C!Slot, CT!Slot, C!Header, CT!Header, C!Zeros, CT!Zeros, C!FirstMints,
           CT!FirstMints
  <1> QED
    BY <1>1, <1>2, <1>3, <1>4 DEF SameConfigData

LEMMA MigratingIsEnabled ==
    ASSUME SettlingInv, CT!Unmigrated, MigrateRule
    PROVE  ENABLED <<MigrateConfig>>_vars
  <1>1. \E a \in Keys : \E oracle \in Keys :
             /\ build = "current"
             /\ account.size > 0 /\ account.authority = a
             /\ [account EXCEPT !.size = CT!NEW_SIZE,
                      !.data = CT!WithKey(account.data, CT!OLD_HEADER, oracle)] # account
    BY ConfigTheoremsApply, CT!MayMigrate
       DEF SettlingInv, CT!ConfigAssumption, CT!MaxU64Assumption
  <1>2. ENABLED <<MigrateWritten>>_vars
    BY <1>1, SameData DEF SameConfigData, MigrateRule
  <1> QED
    BY <1>2 DEF MigrateWritten, MigrateConfig, ConfigStep, C!Migrate, C!MigrateConfig

LEMMA RepairingIsEnabled ==
    ASSUME SettlingInv, CT!ListsExist, CT!Unrepaired, RepairRule
    PROVE  ENABLED <<RepairConfig>>_vars
  <1>1. \E a \in Keys : \E oracle \in Keys, mints \in MintLists :
             /\ build = "current"
             /\ account.size >= 143 /\ account.authority = a
             /\ CT!Slot(CT!HEADER, CT!MAX_MINTS + 1) <= account.size
             /\ [account EXCEPT !.data = CT!Repaired(account.data, oracle, mints)] # account
    BY ConfigTheoremsApply, CT!MayRepair
       DEF SettlingInv, CT!ConfigAssumption, CT!MaxU64Assumption
  <1>2. ENABLED <<RepairWritten>>_vars
    BY <1>1, SameData DEF SameConfigData, RepairRule
  <1> QED
    BY <1>2 DEF RepairWritten, RepairConfig, ConfigStep, C!Repair, C!RepairConfig

LEMMA ListsInvariant == Spec => []CT!ListsExist
  <1>1. CT!Spec => []CT!ListsExist
    BY ConfigTheoremsApply, CT!SomeList DEF CT!ConfigAssumption, CT!MaxU64Assumption
  <1> QED
    BY <1>1, ConfigSpec, PTL

LEMMA SettlingIsEnabled ==
    ASSUME SettlingInv, CT!Recovered, pool.status = "Open", SettleRule
    PROVE  ENABLED <<SettlePool>>_vars
  <1>1. "YES" \in P!Sides
    BY DEF P!Sides
  <1>2. C!Readable /\ P!SettleAllowed
    BY SameConfig DEF CT!Recovered, P!SettleAllowed
  <1>3. PoolSettled("YES") # pool
    <2>1. PoolSettled("YES").status = "Settled"
      BY DEF PoolSettled, SettlingInv, PT!TypeOK, PT!PoolAccount
    <2> QED
      BY <2>1
  <1>4. ENABLED <<SettleWritten>>_vars
    BY <1>1, <1>2, <1>3 DEF SettleRule
  <1> QED
    BY <1>4 DEF SettleWritten, PoolSettled, SettlePool, P!SettlePool

LEMMA UpHasConfig ==
    SettlingInv /\ CT!Up => CT!Unmigrated \/ CT!Unrepaired \/ CT!Recovered
  <1>1. CT!UpState
    BY ConfigTheoremsApply, CT!UpCases DEF CT!ConfigAssumption, CT!MaxU64Assumption
  <1> QED
    BY <1>1 DEF SettlingInv, CT!UpState

LEMMA PoolHasStatus == SettlingInv => {"status", "outcome", "settled_at"} \subseteq DOMAIN pool
  BY DEF SettlingInv, PT!TypeOK, PT!PoolAccount

LEMMA OpenUntilSettled ==
    ASSUME SettlingInv, [Next]_vars, pool.status = "Open"
    PROVE  pool'.status \in {"Open", "Settled"}
  <1>1. [P!Next]_(P!vars)
    BY PoolStepRefines DEF SettlingInv, ConfigBehindPool
  <1>2. ASSUME NEW b, NEW side, NEW amount, P!Stake(b, side, amount) PROVE pool'.status = "Open"
    BY <1>2, PoolHasStatus DEF P!Stake
  <1>3. ASSUME NEW outcome, P!SettlePool(outcome) PROVE pool'.status = "Settled"
    BY <1>3, PoolHasStatus DEF P!SettlePool
  <1>4. ASSUME NEW b, NEW d, NEW amount,
               \/ P!ClaimWinnings(b) \/ P!CampaignCloses \/ P!ExternalTransfer(d, amount)
               \/ P!Tick \/ UNCHANGED P!vars
        PROVE  pool' = pool
    BY <1>4 DEF P!ClaimWinnings, P!CampaignCloses, P!ExternalTransfer, P!Tick, P!vars
  <1>5. ~P!OpenPool
    BY DEF P!OpenPool
  <1> QED
    BY <1>1, <1>2, <1>3, <1>4, <1>5 DEF P!Next

LEMMA SettlingSettles ==
    ASSUME SettlingInv, SettlePool
    PROVE  pool'.status = "Settled"
  BY PoolHasStatus DEF SettlePool, P!SettlePool

LEMMA RecoveryStep ==
    ASSUME SettlingInv, [Next]_vars
    PROVE  /\ CT!Unmigrated => CT!Unmigrated' \/ CT!Unrepaired' \/ CT!Recovered'
           /\ CT!Unrepaired => CT!Unrepaired' \/ CT!Recovered'
           /\ CT!Recovered => CT!Recovered'
           /\ CT!Unmigrated /\ MigrateConfig => CT!Unrepaired' \/ CT!Recovered'
           /\ RepairConfig => CT!Recovered'
  <1>1. CT!ConfigInv /\ [CT!Next]_(CT!configVars)
    BY ConfigStepRefines, SameConfig DEF SettlingInv
  <1>2. CT!Unmigrated => CT!Unmigrated' \/ CT!Unrepaired' \/ CT!Recovered'
    BY <1>1, ConfigTheoremsApply, CT!UnmigratedStep DEF CT!ConfigAssumption, CT!MaxU64Assumption
  <1>3. CT!Unrepaired => CT!Unrepaired' \/ CT!Recovered'
    BY <1>1, ConfigTheoremsApply, CT!UnrepairedStep DEF CT!ConfigAssumption, CT!MaxU64Assumption
  <1>4. CT!Recovered => CT!Recovered'
    BY <1>1, ConfigTheoremsApply, CT!RecoveredStep DEF CT!ConfigAssumption, CT!MaxU64Assumption
  <1>5. CT!Unmigrated /\ MigrateConfig => CT!Unrepaired' \/ CT!Recovered'
    <2>1. MigrateConfig => \E a \in Keys : CT!Migrate(a)
      BY SameConfig DEF MigrateConfig, ConfigStep
    <2> QED
      BY <1>1, <2>1, ConfigTheoremsApply, CT!MigratingMigrates
         DEF CT!ConfigAssumption, CT!MaxU64Assumption
  <1>6. RepairConfig => CT!Recovered'
    <2>1. RepairConfig => \E a \in Keys : CT!Repair(a)
      BY SameConfig DEF RepairConfig, ConfigStep
    <2> QED
      BY <1>1, <2>1, ConfigTheoremsApply, CT!RepairingRepairs
         DEF CT!ConfigAssumption, CT!MaxU64Assumption
  <1> QED
    BY <1>2, <1>3, <1>4, <1>5, <1>6

\* In the whole program too, a config that the current build finds becomes readable for
\* good if the administrator keeps submitting both instructions.
THEOREM ProgramRecoversConfig ==
    Spec /\ KeepsMigrating /\ KeepsRepairing /\ []MigrateRule /\ []RepairRule
       => CT!ConfigRecovers
  <1>1. SettlingInv /\ CT!Up => CT!Unmigrated \/ CT!Unrepaired \/ CT!Recovered
    BY UpHasConfig
  <1>2. SettlingInv /\ CT!Unmigrated /\ [Next]_vars
           => CT!Unmigrated' \/ CT!Unrepaired' \/ CT!Recovered'
    BY RecoveryStep
  <1>3. SettlingInv /\ CT!Unrepaired /\ [Next]_vars => CT!Unrepaired' \/ CT!Recovered'
    BY RecoveryStep
  <1>4. SettlingInv /\ CT!Recovered /\ [Next]_vars => CT!Recovered'
    BY RecoveryStep
  <1>5. SettlingInv /\ CT!Unmigrated /\ [Next]_vars /\ <<MigrateConfig>>_vars
           => CT!Unrepaired' \/ CT!Recovered'
    BY RecoveryStep
  <1>6. SettlingInv /\ [Next]_vars /\ <<RepairConfig>>_vars => CT!Recovered'
    BY RecoveryStep
  <1>7. SettlingInv /\ CT!Unmigrated /\ MigrateRule => ENABLED <<MigrateConfig>>_vars
    BY MigratingIsEnabled
  <1>8. SettlingInv /\ CT!ListsExist /\ CT!Unrepaired /\ RepairRule
           => ENABLED <<RepairConfig>>_vars
    BY RepairingIsEnabled
  <1>9. Spec /\ KeepsMigrating /\ KeepsRepairing /\ []MigrateRule /\ []RepairRule
           => (CT!Up ~> []CT!Recovered)
    BY <1>1, <1>2, <1>3, <1>4, <1>5, <1>6, <1>7, <1>8, SettlingInvariant, ListsInvariant, PTL
       DEF Spec, KeepsMigrating, KeepsRepairing
  <1> QED
    BY <1>9 DEF CT!ConfigRecovers, CT!Up, CT!Recovered

\* A pool that was opened is settled, for all vaults, stakes and layouts of the config,
\* once the administrator and the oracle keep trying: there is always a config behind a
\* pool, it becomes readable and stays so, and staking cannot put the settlement off.
THEOREM PoolIsSettled ==
    Spec /\ []MigrateRule /\ []RepairRule /\ []SettleRule => PoolEventuallySettled
  <1>1. SettlingInv /\ pool.status = "Open" => CT!Up
    BY DEF SettlingInv, ConfigBehindPool
  <1>2. SettlingInv /\ pool.status = "Open" /\ [Next]_vars
           => (pool.status = "Open")' \/ (pool.status = "Settled")'
    BY OpenUntilSettled
  <1>3. SettlingInv /\ <<SettlePool>>_vars => (pool.status = "Settled")'
    BY SettlingSettles
  <1>4. CT!ConfigRecovers => (CT!Up ~> []CT!Recovered)
    BY DEF CT!ConfigRecovers, CT!Up, CT!Recovered
  <1>5. SettlingInv /\ CT!Recovered /\ pool.status = "Open" /\ SettleRule
           => ENABLED <<SettlePool>>_vars
    BY SettlingIsEnabled
  <1> QED
    BY <1>1, <1>2, <1>3, <1>4, <1>5, ProgramRecoversConfig, SettlingInvariant, PTL
       DEF Spec, PoolEventuallySettled, KeepsSettling

--------------------------------------------------------------------------------
(* Reputations catch up *)

Report == [global_score : Scores, total_campaigns : Nat, total_yield_earned : Nat]

ReportInv == submitted \in [Creators -> Seq(Report)] /\ DOMAIN reputation = Creators

HasReport(c) == submitted[c] # <<>>

LEMMA SubmittedReport ==
    ASSUME ReportInv, NEW c \in Creators, NEW s \in Scores, NEW earned \in Earnings,
           R!SubmitUpdate(c, s, earned)
    PROVE  ReportInv' /\ \A d \in Creators : HasReport(d) => HasReport(d)'
  <1> DEFINE before == IF submitted[c] = <<>> THEN 0
                       ELSE submitted[c][Len(submitted[c])].total_yield_earned
             report == [global_score |-> s, total_campaigns |-> Len(submitted[c]) + 1,
                        total_yield_earned |-> before + earned]
  <1>1. submitted[c] \in Seq(Report) /\ Len(submitted[c]) \in Nat
    BY LenProperties DEF ReportInv
  <1>2. before \in Nat
    <2>1. CASE submitted[c] # <<>>
      <3>1. Len(submitted[c]) \in 1..Len(submitted[c])
        BY <1>1, <2>1, EmptySeq
      <3>2. submitted[c][Len(submitted[c])] \in Report
        BY <1>1, <3>1, ElementOfSeq
      <3> QED
        BY <2>1, <3>2 DEF Report
    <2> QED
      BY <2>1
  <1>3. earned \in Nat
    BY ProgramAssumption DEF R!ReputationAssumption
  <1>4. report \in Report
    BY <1>1, <1>2, <1>3 DEF Report
  <1>5. submitted' = [submitted EXCEPT ![c] = Append(submitted[c], report)]
    BY DEF R!SubmitUpdate
  <1>6. UNCHANGED reputation
    BY DEF R!SubmitUpdate
  <1> HIDE DEF report
  <1>7. Append(submitted[c], report) \in Seq(Report) /\ Append(submitted[c], report) # <<>>
    BY <1>1, <1>4, AppendProperties
  <1> QED
    BY <1>5, <1>6, <1>7 DEF ReportInv, HasReport

\* Reports are signed one by one and none is taken back.
LEMMA ReportStep ==
    ReportInv /\ [Next]_vars => ReportInv' /\ \A d \in Creators : HasReport(d) => HasReport(d)'
  <1> SUFFICES ASSUME ReportInv, [Next]_vars
               PROVE  ReportInv' /\ \A d \in Creators : HasReport(d) => HasReport(d)'
    OBVIOUS
  <1>1. ASSUME NEW c \in Creators, SubmitUpdate(c)
        PROVE  ReportInv' /\ \A d \in Creators : HasReport(d) => HasReport(d)'
    BY <1>1, SubmittedReport DEF SubmitUpdate
  <1>2. ASSUME NEW c \in Creators, NEW i, UpdateReputation(c, i)
        PROVE  ReportInv' /\ submitted' = submitted
    BY <1>2 DEF UpdateReputation, R!UpdateReputation, ReportInv
  <1>3. CASE UNCHANGED reputationVars
    BY <1>3 DEF reputationVars, ReportInv, HasReport
  <1>4. \/ UNCHANGED reputationVars
        \/ \E c \in Creators :
              SubmitUpdate(c) \/ \E i \in DOMAIN submitted[c] : UpdateReputation(c, i)
    BY DEF Next, vars, CreateVault, Deposit, CloseVault, ManageVault, OperateVault, OpenPool,
           Stake, SettlePool, ClaimWinnings, InitConfig, MigrateConfig, RepairConfig, Upgrade,
           ConfigStep, Donate, Tick
  <1> QED
    BY <1>1, <1>2, <1>3, <1>4 DEF HasReport

LEMMA ReportInvariant == Spec => []ReportInv
  <1>1. Init => ReportInv
    BY DEF Init, R!Init, ReportInv
  <1> QED
    BY <1>1, ReportStep, PTL DEF Spec

\* update_reputation with the latest report, written out like the others.
Latest(c) == submitted[c][Len(submitted[c])]

ReportWritten(c) ==
    /\ build = "current" /\ C!Readable
    /\ Len(submitted[c]) \in DOMAIN submitted[c]
       /\ /\ Latest(c).global_score <= 100
          /\ reputation' = [reputation EXCEPT ![c] = Latest(c)]
          /\ UNCHANGED submitted
    /\ UNCHANGED <<now, configVars, vaultVars, poolVars>>

ReportRule(c) ==
    /\ build = "current" /\ C!Readable
    /\ Len(submitted[c]) \in DOMAIN submitted[c]
    /\ Latest(c).global_score <= 100
    /\ [reputation EXCEPT ![c] = Latest(c)] # reputation
    => ENABLED <<ReportWritten(c)>>_vars

LEMMA ReportingIsEnabled ==
    ASSUME ReportInv, NEW c \in Creators, HasReport(c), CT!Recovered, ~UpToDate(c), ReportRule(c)
    PROVE  ENABLED <<UpdateReputation(c, Len(submitted[c]))>>_vars
  <1>1. build = "current" /\ C!Readable
    BY SameConfig DEF CT!Recovered
  <1>2. submitted[c] \in Seq(Report) /\ submitted[c] # <<>>
    BY DEF ReportInv, HasReport
  <1>3. Len(submitted[c]) \in DOMAIN submitted[c]
    BY <1>2, EmptySeq, LenProperties
  <1>4. Latest(c) \in Report
    BY <1>2, <1>3, ElementOfSeq, LenProperties DEF Latest
  <1>5. Latest(c).global_score <= 100 /\ reputation[c] # Latest(c)
    <2>1. Latest(c).global_score \in Nat
      BY <1>4, ProgramAssumption DEF Report, R!ReputationAssumption
    <2> QED
      BY <1>2, <2>1 DEF UpToDate, Latest
  <1>6. [reputation EXCEPT ![c] = Latest(c)] # reputation
    <2> DEFINE after == [reputation EXCEPT ![c] = Latest(c)]
    <2>1. after[c] = Latest(c)
      BY DEF ReportInv
    <2> HIDE DEF after
    <2>2. after # reputation
      BY <1>5, <2>1
    <2> QED
      BY <2>2 DEF after
  <1>7. ENABLED <<ReportWritten(c)>>_vars
    BY <1>1, <1>3, <1>5, <1>6 DEF ReportRule
  <1> QED
    BY <1>7 DEF ReportWritten, Latest, UpdateReputation, R!UpdateReputation

LEMMA ReportingReports ==
    ASSUME ReportInv, NEW c \in Creators, HasReport(c), UpdateReputation(c, Len(submitted[c]))
    PROVE  UpToDate(c)'
  BY DEF UpdateReputation, R!UpdateReputation, UpToDate, ReportInv, HasReport

\* However many reports were signed, and whichever of them are executed late or twice in
\* between, a reputation comes to show the latest, for all layouts of the config: once the
\* config is readable for good the latest report can always be executed where it is missing.
THEOREM ReputationsCatchUp ==
    Spec /\ []MigrateRule /\ []RepairRule /\ (\A c \in Creators : []ReportRule(c))
       => ReputationCatchesUp
  <1>1. ASSUME NEW c \in Creators
        PROVE  Spec /\ KeepsReporting(c) /\ []ReportRule(c) /\ (CT!Up ~> []CT!Recovered)
                  => (build = "current" /\ account.size > 0 /\ submitted[c] # <<>>
                         ~> UpToDate(c))
    <2>1. ReportInv /\ HasReport(c) /\ [Next]_vars => HasReport(c)'
      BY ReportStep
    <2>2. ReportInv /\ HasReport(c) /\ CT!Recovered /\ ~UpToDate(c) /\ ReportRule(c)
             => ENABLED <<UpdateReputation(c, Len(submitted[c]))>>_vars
      BY ReportingIsEnabled
    <2>3. ReportInv /\ HasReport(c) /\ <<UpdateReputation(c, Len(submitted[c]))>>_vars
             => UpToDate(c)'
      BY ReportingReports
    <2>4. build = "current" /\ account.size > 0 /\ submitted[c] # <<>>
             => CT!Up /\ HasReport(c)
      BY DEF CT!Up, HasReport
    <2> QED
      BY <2>1, <2>2, <2>3, <2>4, ReportInvariant, PTL DEF Spec, KeepsReporting
  <1>2. CT!ConfigRecovers => (CT!Up ~> []CT!Recovered)
    BY DEF CT!ConfigRecovers, CT!Up, CT!Recovered
  <1>3. Spec /\ KeepsMigrating /\ KeepsRepairing /\ []MigrateRule /\ []RepairRule
           => (CT!Up ~> []CT!Recovered)
    BY <1>2, ProgramRecoversConfig, PTL
  <1> QED
    BY <1>1, <1>3 DEF ReputationCatchesUp

--------------------------------------------------------------------------------
(* Everybody is paid *)

\* The clock passes the cliff of every vault that is opened.
CliffPasses(v) == V!Active(v) ~> now >= vault[v].cliff_ts

LEMMA ProgramFunds == Spec => []VT!FundsInv
  <1>1. VT!Spec => []VT!FundsInv
    BY VaultTheoremsApply, VT!FundsInvariant DEF VT!VaultAssumption, VT!MaxU64Assumption
  <1> QED
    BY <1>1, VaultSpec, PTL

LEMMA ProgramPot == Spec => []PT!PotInv
  <1>1. PT!Spec => []PT!PotInv
    BY PoolTheoremsApply, PT!PotInvariant DEF PT!PoolAssumption, PT!MaxU64Assumption
  <1> QED
    BY <1>1, PoolTheoremSpec, PTL

LEMMA SameClose == \A v : V!CloseVault(v) <=> VT!CloseVault(v)
  BY DEF V!CloseVault, VT!CloseVault, V!CloseVaultAllowed, VT!CloseVaultAllowed, V!Transfer,
         VT!Transfer, V!Active, VT!Active

LEMMA SameClaim ==
    \A b \in Bettors : /\ P!ClaimWinnings(b) <=> PT!ClaimWinnings(b)
                       /\ Owed(b) <=> PT!Owed(b)
                       /\ Owed(b)' <=> PT!Owed(b)'
  BY DEF P!ClaimWinnings, PT!ClaimWinnings, P!ClaimAllowed, PT!ClaimAllowed, P!Winnings,
         PT!Winnings, P!WinningsFit, PT!WinningsFit, P!SideTotal, PT!SideTotal, P!FullPool,
         PT!FullPool, P!Transfer, PT!Transfer, P!FitsU64, PT!FitsU64, P!U64, PT!U64, Owed,
         PT!Owed, PT!Settled, PT!Winners, PT!On

Closable(v) == V!Active(v) /\ now >= vault[v].cliff_ts

LEMMA VaultUntilClosed ==
    ASSUME VT!FundsInv, [Next]_vars, NEW v \in Vaults
    PROVE  /\ V!Active(v) => V!Active(v)' \/ vault'[v].status = "Closed"
           /\ Closable(v) => Closable(v)' \/ vault'[v].status = "Closed"
           /\ CloseVault(v) => vault'[v].status = "Closed"
  <1>1. [VT!Next]_(VT!vars)
    BY VaultStepRefines, SameVaults
  <1>2. VT!Active(v) => VT!Active(v)' \/ vault'[v].status = "Closed"
    BY <1>1, VaultTheoremsApply, VT!ActiveUntilClosed DEF VT!VaultAssumption, VT!MaxU64Assumption
  <1>3. VT!Closable(v) => VT!Closable(v)' \/ vault'[v].status = "Closed"
    BY <1>1, VaultTheoremsApply, VT!ClosableUntilClosed
       DEF VT!VaultAssumption, VT!MaxU64Assumption
  <1>4. CloseVault(v) => vault'[v].status = "Closed"
    BY SameClose, VaultTheoremsApply, VT!ClosingCloses
       DEF CloseVault, VT!VaultAssumption, VT!MaxU64Assumption
  <1> QED
    BY <1>2, <1>3, <1>4 DEF V!Active, VT!Active, Closable, VT!Closable

LEMMA OwedUntilPaid ==
    ASSUME PT!PotInv, HasStatus, [Next]_vars, NEW b \in Bettors
    PROVE  /\ Owed(b) => Owed(b)' \/ position'[b].claimed
           /\ ClaimWinnings(b) => position'[b].claimed
  <1>1. [PT!Next]_(PT!vars)
    BY PoolStepRefines, SamePool
  <1>2. PT!Owed(b) => PT!Owed(b)' \/ position'[b].claimed
    BY <1>1, PoolTheoremsApply, PT!OwedUntilClaimed DEF PT!PoolAssumption, PT!MaxU64Assumption
  <1>3. ClaimWinnings(b) => position'[b].claimed
    BY SameClaim, PoolTheoremsApply, PT!ClaimPays
       DEF ClaimWinnings, PT!PoolAssumption, PT!MaxU64Assumption
  <1> QED
    BY <1>2, <1>3, SameClaim

LEMMA PaidInv == Spec => [](VT!FundsInv /\ PT!PotInv /\ HasStatus)
  BY ProgramFunds, ProgramPot, HasStatusInit, PoolStepRefines, PTL DEF Spec

\* The two instructions that pay out, written out, with the rule of ENABLED.
CloseWritten(v) ==
    /\ /\ V!CloseVaultAllowed(v)
       /\ balance' = V!Transfer(balance, v, SponsorOf[v], balance[v])
       /\ vault' = [vault EXCEPT ![v].status = "Closed", ![v].principal = 0]
       /\ UNCHANGED <<now, member, score, milestone>>
    /\ UNCHANGED <<configVars, poolVars, reputationVars>>

CloseRule(v) ==
    /\ V!CloseVaultAllowed(v)
    /\ [vault EXCEPT ![v].status = "Closed", ![v].principal = 0] # vault
    => ENABLED <<CloseWritten(v)>>_vars

ClaimWritten(b) ==
    /\ UNCHANGED <<configVars, vaultVars, reputationVars>>
    /\ /\ P!ClaimAllowed(b)
       /\ pool_balance' = P!Transfer(pool_balance, PoolToken, b, P!Winnings(b))
       /\ position' = [position EXCEPT ![b].claimed = TRUE]
       /\ UNCHANGED <<now, IF vault[Campaign].status = "Closed" THEN "Closed" ELSE "Active", pool>>

ClaimRule(b) ==
    P!ClaimAllowed(b) /\ [position EXCEPT ![b].claimed = TRUE] # position
       => ENABLED <<ClaimWritten(b)>>_vars

LEMMA ClosingIsEnabled ==
    ASSUME VT!FundsInv, NEW v \in Vaults, Closable(v), CloseRule(v)
    PROVE  ENABLED <<CloseVault(v)>>_vars
  <1>1. V!CloseVaultAllowed(v)
    BY DEF Closable, V!Active, V!CloseVaultAllowed
  <1>2. [vault EXCEPT ![v].status = "Closed", ![v].principal = 0] # vault
    <2> DEFINE closed == [vault EXCEPT ![v].status = "Closed", ![v].principal = 0]
    <2>1. vault \in [Vaults -> VT!VaultAccount]
      BY DEF VT!FundsInv, VT!TypeOK
    <2>2. closed[v].status = "Closed"
      BY <2>1 DEF VT!VaultAccount
    <2> QED
      BY <2>2 DEF Closable, V!Active
  <1>3. ENABLED <<CloseWritten(v)>>_vars
    BY <1>1, <1>2 DEF CloseRule
  <1> QED
    BY <1>3 DEF CloseWritten, CloseVault, V!CloseVault

LEMMA ClaimingIsEnabled ==
    ASSUME PT!PotInv, NEW b \in Bettors, Owed(b), ClaimRule(b)
    PROVE  ENABLED <<ClaimWinnings(b)>>_vars
  <1>1. PT!Owed(b)
    BY SameClaim
  <1>2. P!ClaimAllowed(b)
    <2>1. PT!ClaimAllowed(b)
      BY <1>1, PoolTheoremsApply, PT!OwedIsAllowed DEF PT!PoolAssumption, PT!MaxU64Assumption
    <2> QED
      BY <2>1 DEF P!ClaimAllowed, PT!ClaimAllowed, P!Winnings, PT!Winnings, P!WinningsFit,
                  PT!WinningsFit, P!SideTotal, PT!SideTotal, P!FullPool, PT!FullPool,
                  P!FitsU64, PT!FitsU64, P!U64, PT!U64
  <1>3. [position EXCEPT ![b].claimed = TRUE] # position
    BY <1>1, PoolTheoremsApply, PT!ClaimingChanges DEF PT!PoolAssumption, PT!MaxU64Assumption
  <1>4. ENABLED <<ClaimWritten(b)>>_vars
    BY <1>2, <1>3 DEF ClaimRule
  <1> QED
    BY <1>4 DEF ClaimWritten, ClaimWinnings, P!ClaimWinnings

\* Nobody's funds are ever frozen: what close_vault and claim_winnings ask is written in
\* these two actions, where the config does not occur; it holds of a vault whose cliff has
\* passed and of a winner whose payout fits a u64, since the pot always covers the claims
\* to come.  An instruction that read the config would not be the action written here.
THEOREM NobodyIsFrozen ==
    Spec /\ [](\A v \in Vaults : CloseRule(v)) /\ [](\A b \in Bettors : ClaimRule(b))
       => []FundsNeverFrozen
  <1>1. /\ VT!FundsInv /\ PT!PotInv
        /\ \A v \in Vaults : CloseRule(v)
        /\ \A b \in Bettors : ClaimRule(b)
        => FundsNeverFrozen
    BY ClosingIsEnabled, ClaimingIsEnabled DEF FundsNeverFrozen, Closable
  <1> QED
    BY <1>1, PaidInv, PTL

\* Sponsors who keep closing get their principal and winners who keep claiming get their
\* winnings, whatever becomes of the config, and whether or not anybody ever migrates,
\* repairs or settles anything.
THEOREM ProgramPaysOut ==
    /\ FairSpec
    /\ [](\A v \in Vaults : CloseRule(v)) /\ [](\A b \in Bettors : ClaimRule(b))
    /\ \A v \in Vaults : CliffPasses(v)
    => FundsArePaidOut
  <1>1. ASSUME NEW v \in Vaults
        PROVE  Spec /\ KeepsClosing(v) /\ []FundsNeverFrozen /\ CliffPasses(v)
                  => (V!Active(v) ~> vault[v].status = "Closed")
    <2>1. FundsNeverFrozen => (Closable(v) => ENABLED <<CloseVault(v)>>_vars)
      BY DEF FundsNeverFrozen, Closable
    <2>2. VT!FundsInv /\ V!Active(v) /\ [Next]_vars
             => V!Active(v)' \/ (vault[v].status = "Closed")'
      BY VaultUntilClosed
    <2>3. VT!FundsInv /\ Closable(v) /\ [Next]_vars
             => Closable(v)' \/ (vault[v].status = "Closed")'
      BY VaultUntilClosed
    <2>4. VT!FundsInv /\ [Next]_vars /\ <<CloseVault(v)>>_vars => (vault[v].status = "Closed")'
      BY VaultUntilClosed
    <2>5. V!Active(v) /\ now >= vault[v].cliff_ts => Closable(v)
      BY DEF Closable
    <2> QED
      BY <2>1, <2>2, <2>3, <2>4, <2>5, PaidInv, PTL DEF Spec, KeepsClosing, CliffPasses
  <1>2. ASSUME NEW b \in Bettors
        PROVE  Spec /\ KeepsClaiming(b) /\ []FundsNeverFrozen
                  => (Owed(b) ~> position[b].claimed)
    <2>1. FundsNeverFrozen => (Owed(b) => ENABLED <<ClaimWinnings(b)>>_vars)
      BY DEF FundsNeverFrozen
    <2>2. PT!PotInv /\ HasStatus /\ Owed(b) /\ [Next]_vars
             => Owed(b)' \/ (position[b].claimed)'
      BY OwedUntilPaid
    <2>3. PT!PotInv /\ HasStatus /\ [Next]_vars /\ <<ClaimWinnings(b)>>_vars
             => (position[b].claimed)'
      BY OwedUntilPaid
    <2> QED
      BY <2>1, <2>2, <2>3, PaidInv, PTL DEF Spec, KeepsClaiming
  <1>3. /\ FairSpec
        /\ [](\A v \in Vaults : CloseRule(v)) /\ [](\A b \in Bettors : ClaimRule(b))
        => []FundsNeverFrozen
    BY NobodyIsFrozen DEF FairSpec
  <1> QED
    BY <1>1, <1>2, <1>3 DEF FairSpec, FundsArePaidOut

================================================================================
