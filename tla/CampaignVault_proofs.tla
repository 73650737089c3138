-------------------------- MODULE CampaignVault_proofs -------------------------
(***************************************************************************)
(* Theorems about CampaignVault for every set of vaults, wallets and       *)
(* creators, every schedule and every amount: the width of every field.    *)
(***************************************************************************)
EXTENDS CampaignVaultProps, GeckoMath_proofs

--------------------------------------------------------------------------------
(* Transfers *)

\* A covered transfer keeps balances natural and touches its two ends alone.
LEMMA TransferFacts ==
    ASSUME NEW bal \in [TokenAccounts -> Nat], NEW from \in TokenAccounts,
           NEW to \in TokenAccounts, NEW n \in Nat, n <= bal[from]
    PROVE  /\ Transfer(bal, from, to, n) \in [TokenAccounts -> Nat]
           /\ \A a \in TokenAccounts : a \notin {from, to} =>
                 Transfer(bal, from, to, n)[a] = bal[a]
           /\ from # to => /\ Transfer(bal, from, to, n)[from] = bal[from] - n
                           /\ Transfer(bal, from, to, n)[to] = bal[to] + n
  BY DEF Transfer

\* Vaults are token accounts and no wallet is a vault.
LEMMA Accounts ==
    /\ \A v \in Vaults : v \in TokenAccounts /\ v \notin Wallets
    /\ \A w \in Wallets : w \in TokenAccounts /\ w \notin Vaults
    /\ \A v \in Vaults : SponsorOf[v] \in Wallets
    /\ \A c \in Creators : c \in Wallets
    /\ \A d \in Donors : d \in Wallets
    /\ Treasury \in Wallets
  BY VaultAssumption DEF TokenAccounts

\* What leaves a vault in a routing, in two transfers, is the routed amount.
LEMMA RoutingFacts ==
    ASSUME TypeOK, NEW v \in Vaults, NEW c \in Creators, NEW amount \in Amounts,
           RouteYieldAllowed(v, c, amount)
    PROVE  LET fee == GeckoFee(amount)
               bal == Transfer(Transfer(balance, v, Treasury, fee), v, c, amount - fee)
           IN  /\ fee \in Nat /\ amount - fee \in Nat
               /\ bal \in [TokenAccounts -> Nat]
               /\ bal[v] = balance[v] - amount
               /\ \A u \in Vaults \ {v} : bal[u] = balance[u]
  <1> DEFINE fee == GeckoFee(amount)
             mid == Transfer(balance, v, Treasury, fee)
             bal == Transfer(mid, v, c, amount - fee)
  <1>1. amount \in Nat /\ FEE_BPS \in 0..BPS_DENOMINATOR
    BY VaultAssumption DEF U64
  <1>2. fee \in Nat /\ fee <= amount
    BY <1>1, BpsOfBounds DEF GeckoFee
  <1>3. balance \in [TokenAccounts -> Nat] /\ vault[v].principal \in Nat
    BY DEF TypeOK, VaultAccount, U64
  <1>4. v \in TokenAccounts /\ balance[v] \in Nat /\ amount <= balance[v]
    BY <1>1, <1>3, Accounts DEF RouteYieldAllowed, AvailableYield
  <1>5. /\ Treasury \in TokenAccounts /\ c \in TokenAccounts /\ v # Treasury /\ v # c
        /\ \A u \in Vaults : u \in TokenAccounts /\ u # Treasury /\ u # c
    BY Accounts
  <1>6. /\ mid \in [TokenAccounts -> Nat]
        /\ mid[v] = balance[v] - fee
        /\ \A u \in Vaults \ {v} : mid[u] = balance[u]
    <2>1. fee <= balance[v]
      BY <1>1, <1>2, <1>4
    <2> HIDE DEF fee
    <2> QED BY <2>1, <1>2, <1>3, <1>4, <1>5, TransferFacts
  <1>7. amount - fee \in Nat /\ amount - fee <= mid[v]
    BY <1>1, <1>2, <1>4, <1>6
  <1>8. /\ bal \in [TokenAccounts -> Nat]
        /\ bal[v] = mid[v] - (amount - fee)
        /\ \A u \in Vaults \ {v} : bal[u] = mid[u]
    <2> HIDE DEF mid, fee
    <2> QED BY <1>4, <1>5, <1>6, <1>7, TransferFacts
  <1>9. bal[v] = balance[v] - amount
    BY <1>1, <1>2, <1>4, <1>6, <1>8
  <1> QED
    BY <1>2, <1>6, <1>7, <1>8, <1>9

--------------------------------------------------------------------------------
(* Type correctness, one lemma per instruction that moves several fields *)

\* Argument values and constants, as the proofs use them.
LEMMA Arguments ==
    /\ MAX_U64 \in Nat /\ MAX_I64 \in Nat /\ MAX_U8 \in Nat /\ BPS_DENOMINATOR \in Nat
    /\ MIN_CLIFF_SECONDS \in Nat \ {0} /\ FEE_BPS \in 0..BPS_DENOMINATOR
    /\ \A d \in Durations : d \in Int
    /\ \A n \in Amounts : n \in Nat /\ n <= MAX_U64
    /\ \A n \in Allocations \cup Scores \cup Thresholds \cup Payouts : n \in Nat
    /\ \A t \in Targets : t \in Creators \cup {AnyCreator}
  BY VaultAssumption, MaxU64Assumption DEF U64, BPS_DENOMINATOR

LEMMA InitType == Init => TypeOK
  <1> SUFFICES ASSUME Init PROVE TypeOK
    OBVIOUS
  <1>1. NoVault \in VaultAccount /\ NoMember \in SquadMember /\ NoScore \in SquadScore
        /\ NoMilestone \in PerformanceMilestone /\ now \in 0..MAX_I64
    BY Arguments DEF Init, NoVault, VaultAccount, NoMember, SquadMember, NoScore,
       SquadScore, NoMilestone, PerformanceMilestone, U64
  <1>2. balance \in [TokenAccounts -> Nat]
    BY VaultAssumption DEF Init, TokenAccounts
  <1> QED
    BY <1>1, <1>2 DEF Init, TypeOK

\* Each instruction's field updates keep its account well-typed and leave the
\* fields it does not name alone.
LEMMA PrincipalUpdate ==
    ASSUME NEW r \in VaultAccount, NEW n \in U64
    PROVE  /\ [r EXCEPT !.principal = n] \in VaultAccount
           /\ [r EXCEPT !.principal = n].principal = n
           /\ [r EXCEPT !.principal = n].status = r.status
           /\ [r EXCEPT !.principal = n].cliff_ts = r.cliff_ts
           /\ [r EXCEPT !.principal = n].total_yield_routed = r.total_yield_routed
  BY DEF VaultAccount

LEMMA CloseUpdate ==
    ASSUME NEW r \in VaultAccount
    PROVE  LET s == [r EXCEPT !.status = "Closed", !.principal = 0]
           IN  /\ s \in VaultAccount
               /\ s.principal = 0 /\ s.status = "Closed"
               /\ s.cliff_ts = r.cliff_ts
               /\ s.total_yield_routed = r.total_yield_routed
  <1> DEFINE t == [r EXCEPT !.status = "Closed"]
  <1>1. /\ t \in VaultAccount /\ t.status = "Closed" /\ t.cliff_ts = r.cliff_ts
        /\ t.total_yield_routed = r.total_yield_routed
    BY DEF VaultAccount
  <1>2. 0 \in U64
    BY Arguments DEF U64
  <1>3. [r EXCEPT !.status = "Closed", !.principal = 0] = [t EXCEPT !.principal = 0]
    OBVIOUS
  <1> HIDE DEF t
  <1> QED
    BY <1>1, <1>2, <1>3, PrincipalUpdate

LEMMA SquadUpdate ==
    ASSUME NEW r \in VaultAccount, NEW n \in 0..MAX_U8, NEW m \in 0..BPS_DENOMINATOR
    PROVE  LET s == [r EXCEPT !.member_count = n, !.total_allocation_bps = m]
           IN  /\ s \in VaultAccount
               /\ s.member_count = n /\ s.total_allocation_bps = m
               /\ s.principal = r.principal /\ s.status = r.status
               /\ s.cliff_ts = r.cliff_ts
               /\ s.total_yield_routed = r.total_yield_routed
  BY DEF VaultAccount

LEMMA RoutedUpdate ==
    ASSUME NEW r \in VaultAccount, NEW n \in U64
    PROVE  LET s == [r EXCEPT !.total_yield_routed = n]
           IN  /\ s \in VaultAccount
               /\ s.total_yield_routed = n
               /\ s.principal = r.principal /\ s.status = r.status
               /\ s.cliff_ts = r.cliff_ts
  BY DEF VaultAccount

LEMMA ReceivedUpdate ==
    ASSUME NEW r \in SquadMember, NEW n \in U64
    PROVE  /\ [r EXCEPT !.total_received = n] \in SquadMember
           /\ [r EXCEPT !.total_received = n].allocation_bps = r.allocation_bps
           /\ [r EXCEPT !.total_received = n].open = r.open
  BY DEF SquadMember

LEMMA ScoreUpdate ==
    ASSUME NEW r \in SquadScore, NEW n \in 0..100
    PROVE  [r EXCEPT !.score = n] \in SquadScore
  BY DEF SquadScore

LEMMA ReleasedUpdate ==
    ASSUME NEW r \in PerformanceMilestone
    PROVE  [r EXCEPT !.status = "Released"] \in PerformanceMilestone
  BY DEF PerformanceMilestone

\* A new vault has a schedule within the clock's width.
LEMMA NewVaultType ==
    ASSUME TypeOK, NEW cliff \in Durations, NEW end \in Durations, NEW amount \in U64,
           ValidSchedule(cliff, end)
    PROVE  /\ NewVault(cliff, end, amount) \in VaultAccount
           /\ NewVault(cliff, end, amount).status = "Active"
           /\ NewVault(cliff, end, amount).principal = amount
           /\ NewVault(cliff, end, amount).cliff_ts > now
           /\ NewVault(cliff, end, amount).total_yield_routed = 0
  BY Arguments DEF TypeOK, ValidSchedule, NewVault, NoVault, VaultAccount, U64

LEMMA InitVaultType ==
    ASSUME TypeOK, NEW v \in Vaults, NEW cliff \in Durations, NEW end \in Durations,
           InitVault(v, cliff, end)
    PROVE  TypeOK'
  <1>1. NewVault(cliff, end, 0) \in VaultAccount
    BY NewVaultType, Arguments DEF InitVault, U64
  <1> QED
    BY <1>1 DEF TypeOK, InitVault

LEMMA InitAndDepositType ==
    ASSUME TypeOK, NEW v \in Vaults, NEW cliff \in Durations, NEW end \in Durations,
           NEW amount \in Amounts, InitAndDeposit(v, cliff, end, amount)
    PROVE  TypeOK'
  <1>1. NewVault(cliff, end, amount) \in VaultAccount
    BY NewVaultType, VaultAssumption DEF InitAndDeposit
  <1>2. balance' \in [TokenAccounts -> Nat]
    BY TransferFacts, Accounts, Arguments DEF TypeOK, InitAndDeposit
  <1> QED
    BY <1>1, <1>2 DEF TypeOK, InitAndDeposit

LEMMA DepositType ==
    ASSUME TypeOK, NEW v \in Vaults, NEW amount \in Amounts, Deposit(v, amount)
    PROVE  TypeOK'
  <1>1. vault[v].principal + amount \in U64
    BY Arguments DEF TypeOK, Deposit, VaultAccount, FitsU64, U64
  <1>2. vault' \in [Vaults -> VaultAccount]
    BY <1>1, PrincipalUpdate DEF TypeOK, Deposit
  <1>3. balance' \in [TokenAccounts -> Nat]
    BY TransferFacts, Accounts, Arguments DEF TypeOK, Deposit
  <1> QED
    BY <1>2, <1>3 DEF TypeOK, Deposit

LEMMA CloseVaultType ==
    ASSUME TypeOK, NEW v \in Vaults, CloseVault(v)
    PROVE  TypeOK'
  <1>1. vault' \in [Vaults -> VaultAccount]
    <2> DEFINE s == [vault[v] EXCEPT !.status = "Closed", !.principal = 0]
    <2>1. s \in VaultAccount
      BY CloseUpdate DEF TypeOK
    <2>2. vault' = [vault EXCEPT ![v] = s]
      BY DEF TypeOK, CloseVault
    <2>3. vault \in [Vaults -> VaultAccount]
      BY DEF TypeOK
    <2> HIDE DEF s
    <2> QED
      BY <2>1, <2>2, <2>3
  <1>2. balance' \in [TokenAccounts -> Nat]
    <2>1. balance \in [TokenAccounts -> Nat] /\ balance[v] \in Nat /\ balance[v] <= balance[v]
      BY Accounts DEF TypeOK
    <2>2. balance' = Transfer(balance, v, SponsorOf[v], balance[v])
      BY DEF CloseVault
    <2> QED
      BY <2>1, <2>2, TransferFacts, Accounts
  <1> QED
    BY <1>1, <1>2 DEF TypeOK, CloseVault

LEMMA AddCreatorType ==
    ASSUME TypeOK, NEW v \in Vaults, NEW c \in Creators, NEW bps \in Allocations,
           AddCreator(v, c, bps)
    PROVE  TypeOK'
  <1>1. /\ vault[v].member_count + 1 \in 0..MAX_U8
        /\ vault[v].total_allocation_bps + bps \in 0..BPS_DENOMINATOR
        /\ bps \in 0..BPS_DENOMINATOR
    BY Arguments DEF TypeOK, AddCreator, AddCreatorAllowed, VaultAccount
  <1>2. vault' \in [Vaults -> VaultAccount]
    BY <1>1, SquadUpdate DEF TypeOK, AddCreator
  <1>3. /\ [open |-> TRUE, allocation_bps |-> bps, total_received |-> 0] \in SquadMember
        /\ [open |-> TRUE, score |-> 0] \in SquadScore
    BY <1>1, Arguments DEF SquadMember, SquadScore, U64
  <1>4. /\ member' \in [Vaults -> [Creators -> SquadMember]]
        /\ score' \in [Vaults -> [Creators -> SquadScore]]
    BY <1>3 DEF TypeOK, AddCreator
  <1> QED
    BY <1>2, <1>4 DEF TypeOK, AddCreator

LEMMA RemoveCreatorType ==
    ASSUME TypeOK, NEW v \in Vaults, NEW c \in Creators, RemoveCreator(v, c)
    PROVE  TypeOK'
  <1>1. member[v][c].allocation_bps \in 0..BPS_DENOMINATOR
    BY DEF TypeOK, SquadMember
  <1>2. /\ vault[v].member_count - 1 \in 0..MAX_U8
        /\ vault[v].total_allocation_bps - member[v][c].allocation_bps \in 0..BPS_DENOMINATOR
    BY <1>1, Arguments DEF TypeOK, RemoveCreator, RemoveCreatorAllowed, VaultAccount
  <1>3. vault' \in [Vaults -> VaultAccount]
    BY <1>2, SquadUpdate DEF TypeOK, RemoveCreator
  <1>4. NoMember \in SquadMember
    BY Arguments DEF NoMember, SquadMember, U64
  <1>5. member' \in [Vaults -> [Creators -> SquadMember]]
    BY <1>4 DEF TypeOK, RemoveCreator
  <1> QED
    BY <1>3, <1>5 DEF TypeOK, RemoveCreator

LEMMA UpdateScoreType ==
    ASSUME TypeOK, NEW v \in Vaults, NEW c \in Creators, NEW s \in Scores,
           UpdateScore(v, c, s)
    PROVE  TypeOK'
  <1>1. s \in 0..100
    BY Arguments DEF UpdateScore
  <1>2. score' \in [Vaults -> [Creators -> SquadScore]]
    BY <1>1, ScoreUpdate DEF TypeOK, UpdateScore
  <1> QED
    BY <1>2 DEF TypeOK, UpdateScore

LEMMA InitMilestoneType ==
    ASSUME TypeOK, NEW v \in Vaults, NEW i \in Indices, NEW threshold \in Thresholds,
           NEW bps \in Payouts, NEW t \in Targets, InitMilestone(v, i, threshold, bps, t)
    PROVE  TypeOK'
  <1>1. [status |-> "Pending", score_threshold |-> threshold, payout_bps |-> bps,
         target_creator |-> t] \in PerformanceMilestone
    BY Arguments DEF InitMilestone, PerformanceMilestone
  <1>2. milestone' \in [Vaults -> [Indices -> PerformanceMilestone]]
    BY <1>1 DEF TypeOK, InitMilestone
  <1> QED
    BY <1>2 DEF TypeOK, InitMilestone

\* A release pays a natural number that neither the vault's principal nor its
\* token account falls short of.
LEMMA PayoutFacts ==
    ASSUME TypeOK, NEW v \in Vaults, NEW i \in Indices, NEW c \in Creators,
           ReleaseAllowed(v, i, c)
    PROVE  /\ Payout(v, i) \in Nat \ {0}
           /\ Payout(v, i) <= vault[v].principal
           /\ Payout(v, i) <= balance[v]
           /\ vault[v].principal \in Nat /\ balance[v] \in Nat
  <1>1. vault[v].principal \in Nat /\ milestone[v][i].payout_bps \in 0..BPS_DENOMINATOR
    BY Arguments DEF TypeOK, VaultAccount, PerformanceMilestone, U64
  <1>2. balance[v] \in Nat
    BY Accounts DEF TypeOK
  <1>3. Payout(v, i) \in Nat
    BY <1>1, BpsOfBounds DEF Payout
  <1>4. Payout(v, i) > 0 /\ balance[v] >= Payout(v, i) /\ vault[v].principal >= Payout(v, i)
    BY DEF ReleaseAllowed
  <1> QED
    BY <1>1, <1>2, <1>3, <1>4

LEMMA ReleaseMilestoneType ==
    ASSUME TypeOK, NEW v \in Vaults, NEW i \in Indices, NEW c \in Creators,
           ReleaseMilestone(v, i, c)
    PROVE  TypeOK'
  <1>1. ReleaseAllowed(v, i, c)
    BY DEF ReleaseMilestone
  <1>2. vault[v].principal - Payout(v, i) \in U64
    <2>1. vault[v].principal \in U64
      BY DEF TypeOK, VaultAccount
    <2> QED
      BY <1>1, <2>1, PayoutFacts, Arguments DEF U64
  <1>3. vault' \in [Vaults -> VaultAccount]
    BY <1>2, PrincipalUpdate DEF TypeOK, ReleaseMilestone
  <1>4. balance' \in [TokenAccounts -> Nat]
    BY <1>1, PayoutFacts, TransferFacts, Accounts DEF TypeOK, ReleaseMilestone
  <1>5. milestone' \in [Vaults -> [Indices -> PerformanceMilestone]]
    BY ReleasedUpdate DEF TypeOK, ReleaseMilestone
  <1> QED
    BY <1>3, <1>4, <1>5 DEF TypeOK, ReleaseMilestone

LEMMA RouteYieldType ==
    ASSUME TypeOK, NEW v \in Vaults, NEW c \in Creators, NEW amount \in Amounts,
           RouteYield(v, c, amount)
    PROVE  TypeOK'
  <1> DEFINE fee == GeckoFee(amount)
  <1>1. RouteYieldAllowed(v, c, amount)
    BY DEF RouteYield
  <1>2. /\ fee \in Nat /\ amount - fee \in Nat
        /\ balance' \in [TokenAccounts -> Nat]
    BY <1>1, RoutingFacts DEF RouteYield
  <1>3. /\ member[v][c].total_received \in Nat
        /\ vault[v].total_yield_routed \in Nat
    BY Arguments DEF TypeOK, SquadMember, VaultAccount, U64
  <1>4. /\ member[v][c].total_received + (amount - fee) \in U64
        /\ vault[v].total_yield_routed + amount \in U64
    BY <1>1, <1>2, <1>3, Arguments DEF RouteYieldAllowed, FitsU64, U64
  <1>5. vault' \in [Vaults -> VaultAccount]
    BY <1>4, RoutedUpdate DEF TypeOK, RouteYield
  <1>6. member' \in [Vaults -> [Creators -> SquadMember]]
    <2> HIDE DEF fee
    <2>1. member' = [member EXCEPT ![v][c].total_received = @ + (amount - fee)]
      BY DEF RouteYield, fee
    <2> QED
      BY <2>1, <1>4, ReceivedUpdate DEF TypeOK
  <1> QED
    BY <1>2, <1>5, <1>6 DEF TypeOK, RouteYield

LEMMA ExternalTransferType ==
    ASSUME TypeOK, NEW w \in Donors, NEW v \in Vaults, NEW amount \in Amounts,
           ExternalTransfer(w, v, amount)
    PROVE  TypeOK'
  <1>1. balance' \in [TokenAccounts -> Nat]
    BY TransferFacts, Accounts, Arguments DEF TypeOK, ExternalTransfer
  <1> QED
    BY <1>1 DEF TypeOK, ExternalTransfer

LEMMA TickType == TypeOK /\ Tick => TypeOK'
  BY Arguments DEF TypeOK, Tick

LEMMA StepType == TypeOK /\ [Next]_vars => TypeOK'
  <1> SUFFICES ASSUME TypeOK, [Next]_vars PROVE TypeOK'
    OBVIOUS
  <1>1. CASE UNCHANGED vars
    BY <1>1 DEF vars, TypeOK
  <1>2. ASSUME NEW v \in Vaults, SponsorStep(v) PROVE TypeOK'
    BY <1>2, InitVaultType, InitAndDepositType, DepositType, AddCreatorType,
       RemoveCreatorType, InitMilestoneType, CloseVaultType
       DEF SponsorStep, CreateMilestone
  <1>3. ASSUME NEW v \in Vaults, AutomationStep(v) PROVE TypeOK'
    BY <1>3, InitMilestoneType, ReleaseMilestoneType, RouteYieldType
       DEF AutomationStep, CreateMilestoneByAutomation
  <1>4. ASSUME NEW v \in Vaults, OracleStep(v) PROVE TypeOK'
    BY <1>4, UpdateScoreType DEF OracleStep
  <1> QED
    BY <1>1, <1>2, <1>3, <1>4, ExternalTransferType, TickType DEF Next

\* No instruction drives a field out of its width: balances and principals stay
\* natural, counters within their integer types, basis points within 10_000.
THEOREM TypeCorrect == Spec => []TypeOK
  BY InitType, StepType, PTL DEF Spec

================================================================================
