----------------------- MODULE CampaignVaultFunds_proofs -----------------------
(***************************************************************************)
(* Theorems about the money in CampaignVault: the principal is covered at  *)
(* every moment and a vault that is not open holds nothing.                *)
(* PrincipalCovered alone is not inductive: an InitAndDeposit on a vault   *)
(* that already held a balance, or a route on one that held less than its  *)
(* principal, would break it.  FundsInv adds the types and what a vault    *)
(* holds outside its Active life.                                          *)
(***************************************************************************)
EXTENDS CampaignVault_proofs

\* A vault that does not exist yet has routed nothing.
BlankBeforeInit == \A v \in Vaults :
    vault[v].status = "none" => vault[v].total_yield_routed = 0

FundsInv == TypeOK /\ PrincipalCovered /\ NothingLeftBehind /\ BlankBeforeInit

\* What one instruction on v does to the money: the values its vault ends with,
\* and no effect on any other vault or its tokens.
Effect(v, status, cliff, principal, routed, bal) ==
    /\ vault'[v].status = status
    /\ vault'[v].cliff_ts = cliff
    /\ vault'[v].principal = principal
    /\ vault'[v].total_yield_routed = routed
    /\ balance'[v] = bal
    /\ \A u \in Vaults \ {v} : vault'[u] = vault[u] /\ balance'[u] = balance[u]

\* The fields of a typed state that the money lemmas compute with.
LEMMA Fields ==
    ASSUME TypeOK, NEW v \in Vaults
    PROVE  /\ vault \in [Vaults -> VaultAccount] /\ vault[v] \in VaultAccount
           /\ balance \in [TokenAccounts -> Nat] /\ balance[v] \in Nat
           /\ vault[v].principal \in Nat /\ vault[v].total_yield_routed \in Nat
           /\ vault[v].cliff_ts \in Nat /\ now \in Nat
           /\ vault[v].status \in {"none", "Active", "Closed"}
  <1>1. balance[v] \in Nat
    BY Accounts DEF TypeOK
  <1> QED
    BY <1>1, Arguments DEF TypeOK, VaultAccount, U64

\* Tokens between a vault and a wallet leave every other vault's account alone.
LEMMA VaultTransfer ==
    ASSUME NEW bal \in [TokenAccounts -> Nat], NEW v \in Vaults, NEW w \in Wallets,
           NEW n \in Nat
    PROVE  /\ n <= bal[w] =>
                 /\ Transfer(bal, w, v, n)[v] = bal[v] + n
                 /\ \A u \in Vaults \ {v} : Transfer(bal, w, v, n)[u] = bal[u]
           /\ n <= bal[v] =>
                 /\ Transfer(bal, v, w, n)[v] = bal[v] - n
                 /\ \A u \in Vaults \ {v} : Transfer(bal, v, w, n)[u] = bal[u]
  <1>1. v \in TokenAccounts /\ w \in TokenAccounts /\ v # w
    BY Accounts
  <1>2. \A u \in Vaults \ {v} : u \in TokenAccounts /\ u # v /\ u # w
    BY Accounts
  <1> QED
    BY <1>1, <1>2 DEF Transfer

--------------------------------------------------------------------------------
(* The effect of each instruction *)

LEMMA InitVaultEffect ==
    ASSUME FundsInv, NEW v \in Vaults, NEW cliff \in Durations, NEW end \in Durations,
           InitVault(v, cliff, end)
    PROVE  Effect(v, "Active", now + cliff, 0, 0, 0) /\ now + cliff > now
  <1> DEFINE new == NewVault(cliff, end, 0)
  <1>1. 0 \in U64
    BY Arguments DEF U64
  <1>2. /\ new.status = "Active" /\ new.principal = 0 /\ new.total_yield_routed = 0
        /\ new.cliff_ts = now + cliff
    BY DEF NewVault
  <1>3. now + cliff > now
    BY Fields, Arguments DEF FundsInv, InitVault, ValidSchedule
  <1>4. vault' = [vault EXCEPT ![v] = new] /\ balance' = balance /\ balance[v] = 0
    BY DEF InitVault, FundsInv, NothingLeftBehind, Active
  <1>5. vault \in [Vaults -> VaultAccount]
    BY DEF FundsInv, TypeOK
  <1> HIDE DEF new
  <1> QED
    BY <1>2, <1>3, <1>4, <1>5 DEF Effect

LEMMA InitAndDepositEffect ==
    ASSUME FundsInv, NEW v \in Vaults, NEW cliff \in Durations, NEW end \in Durations,
           NEW amount \in Amounts, InitAndDeposit(v, cliff, end, amount)
    PROVE  Effect(v, "Active", now + cliff, amount, 0, amount) /\ now + cliff > now
  <1> DEFINE new == NewVault(cliff, end, amount)
  <1>1. /\ new.status = "Active" /\ new.principal = amount /\ new.total_yield_routed = 0
        /\ new.cliff_ts = now + cliff
    BY DEF NewVault
  <1>2. now + cliff > now
    BY Fields, Arguments DEF FundsInv, InitAndDeposit, ValidSchedule
  <1>3. /\ vault' = [vault EXCEPT ![v] = new] /\ balance[v] = 0
        /\ balance' = Transfer(balance, SponsorOf[v], v, amount)
        /\ amount <= balance[SponsorOf[v]] /\ amount \in Nat
    BY Arguments DEF InitAndDeposit, FundsInv, NothingLeftBehind, Active
  <1>4. vault \in [Vaults -> VaultAccount] /\ balance \in [TokenAccounts -> Nat]
    BY DEF FundsInv, TypeOK
  <1>5. balance'[v] = amount /\ \A u \in Vaults \ {v} : balance'[u] = balance[u]
    BY <1>3, <1>4, VaultTransfer, Accounts
  <1> HIDE DEF new
  <1> QED
    BY <1>1, <1>2, <1>3, <1>4, <1>5 DEF Effect

LEMMA DepositEffect ==
    ASSUME FundsInv, NEW v \in Vaults, NEW amount \in Amounts, Deposit(v, amount)
    PROVE  /\ Effect(v, "Active", vault[v].cliff_ts, vault[v].principal + amount,
                     vault[v].total_yield_routed, balance[v] + amount)
           /\ Active(v) /\ amount > 0
  <1> DEFINE new == [vault[v] EXCEPT !.principal = @ + amount]
  <1>1. vault[v].principal + amount \in U64
    BY Arguments, Fields DEF FundsInv, Deposit, FitsU64, U64
  <1>2. /\ new.principal = vault[v].principal + amount /\ new.status = vault[v].status
        /\ new.cliff_ts = vault[v].cliff_ts
        /\ new.total_yield_routed = vault[v].total_yield_routed
    BY <1>1, Fields, PrincipalUpdate DEF FundsInv
  <1>3. /\ vault' = [vault EXCEPT ![v] = new]
        /\ balance' = Transfer(balance, SponsorOf[v], v, amount)
        /\ amount <= balance[SponsorOf[v]] /\ amount \in Nat
        /\ amount > 0 /\ vault[v].status = "Active"
    BY Arguments DEF Deposit, Active
  <1>4. vault \in [Vaults -> VaultAccount] /\ balance \in [TokenAccounts -> Nat]
    BY DEF FundsInv, TypeOK
  <1>5. balance'[v] = balance[v] + amount
        /\ \A u \in Vaults \ {v} : balance'[u] = balance[u]
    BY <1>3, <1>4, VaultTransfer, Accounts
  <1> HIDE DEF new
  <1> QED
    BY <1>2, <1>3, <1>4, <1>5 DEF Effect, Active

LEMMA CloseVaultEffect ==
    ASSUME FundsInv, NEW v \in Vaults, CloseVault(v)
    PROVE  /\ Effect(v, "Closed", vault[v].cliff_ts, 0, vault[v].total_yield_routed, 0)
           /\ Active(v) /\ now >= vault[v].cliff_ts
  <1> DEFINE new == [vault[v] EXCEPT !.status = "Closed", !.principal = 0]
  <1>1. /\ new.status = "Closed" /\ new.principal = 0
        /\ new.cliff_ts = vault[v].cliff_ts
        /\ new.total_yield_routed = vault[v].total_yield_routed
    BY Fields, CloseUpdate DEF FundsInv
  <1>2. /\ vault' = [vault EXCEPT ![v] = new]
        /\ balance' = Transfer(balance, v, SponsorOf[v], balance[v])
        /\ vault[v].status \notin {"none", "Closed"} /\ now >= vault[v].cliff_ts
    BY DEF CloseVault, CloseVaultAllowed
  <1>3. Active(v)
    BY <1>2, Fields DEF FundsInv, Active
  <1>4. /\ vault \in [Vaults -> VaultAccount] /\ balance \in [TokenAccounts -> Nat]
        /\ balance[v] \in Nat /\ balance[v] <= balance[v] /\ balance[v] - balance[v] = 0
    BY Accounts DEF FundsInv, TypeOK
  <1>5. balance'[v] = 0 /\ \A u \in Vaults \ {v} : balance'[u] = balance[u]
    BY <1>2, <1>4, VaultTransfer, Accounts
  <1> HIDE DEF new
  <1> QED
    BY <1>1, <1>2, <1>3, <1>4, <1>5 DEF Effect

LEMMA ReleaseMilestoneEffect ==
    ASSUME FundsInv, NEW v \in Vaults, NEW i \in Indices, NEW c \in Creators,
           ReleaseMilestone(v, i, c)
    PROVE  /\ Effect(v, "Active", vault[v].cliff_ts, vault[v].principal - Payout(v, i),
                     vault[v].total_yield_routed, balance[v] - Payout(v, i))
           /\ Active(v) /\ Payout(v, i) \in Nat \ {0}
           /\ Payout(v, i) <= vault[v].principal
  <1> DEFINE pay == Payout(v, i)
             new == [vault[v] EXCEPT !.principal = @ - pay]
  <1>1. /\ pay \in Nat \ {0} /\ pay <= vault[v].principal /\ pay <= balance[v]
    BY PayoutFacts DEF FundsInv, ReleaseMilestone
  <1> HIDE DEF pay
  <1>2. vault[v].principal - pay \in U64
    <2>1. vault[v].principal \in U64
      BY DEF FundsInv, TypeOK, VaultAccount
    <2> QED
      BY <1>1, <2>1, Arguments DEF U64
  <1>3. /\ new.principal = vault[v].principal - pay /\ new.status = vault[v].status
        /\ new.cliff_ts = vault[v].cliff_ts
        /\ new.total_yield_routed = vault[v].total_yield_routed
    BY <1>2, Fields, PrincipalUpdate DEF FundsInv
  <1>4. /\ vault' = [vault EXCEPT ![v] = new]
        /\ balance' = Transfer(balance, v, c, pay)
        /\ vault[v].status = "Active"
    BY DEF ReleaseMilestone, ReleaseAllowed, Active, pay
  <1>5. vault \in [Vaults -> VaultAccount] /\ balance \in [TokenAccounts -> Nat]
    BY DEF FundsInv, TypeOK
  <1>6. balance'[v] = balance[v] - pay /\ \A u \in Vaults \ {v} : balance'[u] = balance[u]
    BY <1>1, <1>4, <1>5, VaultTransfer, Accounts
  <1> HIDE DEF new
  <1>7. Effect(v, "Active", vault[v].cliff_ts, vault[v].principal - pay,
               vault[v].total_yield_routed, balance[v] - pay)
    BY <1>3, <1>4, <1>5, <1>6 DEF Effect
  <1> QED
    BY <1>1, <1>4, <1>7 DEF Active, pay

LEMMA RouteYieldEffect ==
    ASSUME FundsInv, NEW v \in Vaults, NEW c \in Creators, NEW amount \in Amounts,
           RouteYield(v, c, amount)
    PROVE  /\ Effect(v, "Active", vault[v].cliff_ts, vault[v].principal,
                     vault[v].total_yield_routed + amount, balance[v] - amount)
           /\ Active(v) /\ amount > 0 /\ amount <= balance[v] - vault[v].principal
  <1> DEFINE new == [vault[v] EXCEPT !.total_yield_routed = @ + amount]
  <1>1. RouteYieldAllowed(v, c, amount)
    BY DEF RouteYield
  <1>2. /\ balance'[v] = balance[v] - amount
        /\ \A u \in Vaults \ {v} : balance'[u] = balance[u]
    BY <1>1, RoutingFacts DEF FundsInv, RouteYield
  <1>3. vault[v].total_yield_routed + amount \in U64
    BY <1>1, Fields, Arguments DEF FundsInv, RouteYieldAllowed, FitsU64, U64
  <1>4. /\ new.total_yield_routed = vault[v].total_yield_routed + amount
        /\ new.status = vault[v].status /\ new.principal = vault[v].principal
        /\ new.cliff_ts = vault[v].cliff_ts
    BY <1>3, Fields, RoutedUpdate DEF FundsInv
  <1>5. vault' = [vault EXCEPT ![v] = new] /\ vault \in [Vaults -> VaultAccount]
    BY DEF RouteYield, FundsInv, TypeOK
  <1>6. /\ vault[v].status = "Active" /\ amount > 0
        /\ amount <= balance[v] - vault[v].principal
    BY <1>1 DEF RouteYieldAllowed, AvailableYield, Active
  <1> HIDE DEF new
  <1> QED
    BY <1>2, <1>4, <1>5, <1>6 DEF Effect, Active

LEMMA ExternalTransferEffect ==
    ASSUME FundsInv, NEW w \in Donors, NEW v \in Vaults, NEW amount \in Amounts,
           ExternalTransfer(w, v, amount)
    PROVE  /\ Effect(v, "Active", vault[v].cliff_ts, vault[v].principal,
                     vault[v].total_yield_routed, balance[v] + amount)
           /\ Active(v) /\ amount > 0 /\ amount \in Nat
  <1>1. /\ balance' = Transfer(balance, w, v, amount) /\ vault' = vault
        /\ amount <= balance[w] /\ amount \in Nat /\ amount > 0 /\ Active(v)
    BY Arguments DEF ExternalTransfer
  <1>2. balance \in [TokenAccounts -> Nat]
    BY DEF FundsInv, TypeOK
  <1>3. balance'[v] = balance[v] + amount
        /\ \A u \in Vaults \ {v} : balance'[u] = balance[u]
    BY <1>1, <1>2, VaultTransfer, Accounts
  <1> QED
    BY <1>1, <1>3 DEF Effect, Active

\* Counters of the squad are not money.
LEMMA CountersEffect ==
    ASSUME TypeOK, NEW v \in Vaults, NEW n \in 0..MAX_U8, NEW m \in 0..BPS_DENOMINATOR,
           vault' = [vault EXCEPT ![v].member_count = n, ![v].total_allocation_bps = m],
           balance' = balance
    PROVE  Effect(v, vault[v].status, vault[v].cliff_ts, vault[v].principal,
                  vault[v].total_yield_routed, balance[v])
  <1> DEFINE new == [vault[v] EXCEPT !.member_count = n, !.total_allocation_bps = m]
  <1>1. vault \in [Vaults -> VaultAccount] /\ vault[v] \in VaultAccount
    BY DEF TypeOK
  <1>2. /\ new.status = vault[v].status /\ new.principal = vault[v].principal
        /\ new.cliff_ts = vault[v].cliff_ts
        /\ new.total_yield_routed = vault[v].total_yield_routed
    BY <1>1 DEF VaultAccount
  <1>3. vault' = [vault EXCEPT ![v] = new]
    BY <1>1
  <1> HIDE DEF new
  <1> QED
    BY <1>1, <1>2, <1>3 DEF Effect

LEMMA AddCreatorEffect ==
    ASSUME FundsInv, NEW v \in Vaults, NEW c \in Creators, NEW bps \in Allocations,
           AddCreator(v, c, bps)
    PROVE  Effect(v, vault[v].status, vault[v].cliff_ts, vault[v].principal,
                  vault[v].total_yield_routed, balance[v])
  <1>1. /\ vault[v].member_count + 1 \in 0..MAX_U8
        /\ vault[v].total_allocation_bps + bps \in 0..BPS_DENOMINATOR
    BY Arguments DEF FundsInv, TypeOK, AddCreator, AddCreatorAllowed, VaultAccount
  <1>2. /\ vault' = [vault EXCEPT
               ![v].member_count = vault[v].member_count + 1,
               ![v].total_allocation_bps = vault[v].total_allocation_bps + bps]
        /\ balance' = balance
    BY DEF AddCreator, FundsInv, TypeOK, VaultAccount
  <1> QED
    BY <1>1, <1>2, CountersEffect DEF FundsInv

LEMMA RemoveCreatorEffect ==
    ASSUME FundsInv, NEW v \in Vaults, NEW c \in Creators, RemoveCreator(v, c)
    PROVE  Effect(v, vault[v].status, vault[v].cliff_ts, vault[v].principal,
                  vault[v].total_yield_routed, balance[v])
  <1>1. member[v][c].allocation_bps \in 0..BPS_DENOMINATOR
    BY DEF FundsInv, TypeOK, SquadMember
  <1>2. /\ vault[v].member_count - 1 \in 0..MAX_U8
        /\ vault[v].total_allocation_bps - member[v][c].allocation_bps
              \in 0..BPS_DENOMINATOR
    BY <1>1, Arguments
       DEF FundsInv, TypeOK, RemoveCreator, RemoveCreatorAllowed, VaultAccount
  <1>3. /\ vault' = [vault EXCEPT
               ![v].member_count = vault[v].member_count - 1,
               ![v].total_allocation_bps =
                  vault[v].total_allocation_bps - member[v][c].allocation_bps]
        /\ balance' = balance
    BY DEF RemoveCreator, FundsInv, TypeOK, VaultAccount
  <1> QED
    BY <1>2, <1>3, CountersEffect DEF FundsInv

\* The instructions that touch neither a vault account nor a token account.
Quiet == vault' = vault /\ balance' = balance

LEMMA QuietSteps ==
    /\ \A v \in Vaults, c \in Creators, n \in Scores : UpdateScore(v, c, n) => Quiet
    /\ \A v \in Vaults, i \in Indices, t \in Thresholds, bps \in Payouts, g \in Targets :
          InitMilestone(v, i, t, bps, g) => Quiet
    /\ Tick => Quiet
  BY DEF UpdateScore, InitMilestone, Tick, Quiet

--------------------------------------------------------------------------------
(* The inductive invariant *)

LEMMA InitFunds == Init => FundsInv
  <1> SUFFICES ASSUME Init PROVE FundsInv
    OBVIOUS
  <1>1. \A v \in Vaults : balance[v] = 0 /\ vault[v] = NoVault
    BY Accounts DEF Init
  <1>2. NoVault.status = "none" /\ NoVault.principal = 0 /\ NoVault.total_yield_routed = 0
    BY DEF NoVault
  <1> QED
    BY <1>1, <1>2, InitType
       DEF FundsInv, PrincipalCovered, NothingLeftBehind, BlankBeforeInit, Active

\* An effect on one vault keeps the invariant when its own end state satisfies it.
LEMMA EffectKeeps ==
    ASSUME FundsInv, TypeOK', NEW v \in Vaults,
           NEW status, NEW cliff, NEW principal, NEW routed, NEW bal,
           Effect(v, status, cliff, principal, routed, bal),
           status = "Active" => bal >= principal,
           status # "Active" => bal = 0 /\ principal = 0,
           status = "none" => routed = 0
    PROVE  FundsInv'
  <1> SUFFICES ASSUME NEW u \in Vaults
               PROVE  /\ Active(u)' => balance'[u] >= vault'[u].principal
                      /\ ~Active(u)' => balance'[u] = 0 /\ vault'[u].principal = 0
                      /\ vault'[u].status = "none" => vault'[u].total_yield_routed = 0
    BY DEF FundsInv, PrincipalCovered, NothingLeftBehind, BlankBeforeInit, Active
  <1>1. CASE u = v
    BY <1>1 DEF Effect, Active
  <1>2. CASE u # v
    <2>1. vault'[u] = vault[u] /\ balance'[u] = balance[u]
      BY <1>2 DEF Effect
    <2> QED
      BY <2>1 DEF FundsInv, PrincipalCovered, NothingLeftBehind, BlankBeforeInit, Active
  <1> QED
    BY <1>1, <1>2

LEMMA QuietKeeps == FundsInv /\ TypeOK' /\ Quiet => FundsInv'
  BY DEF FundsInv, Quiet, PrincipalCovered, NothingLeftBehind, BlankBeforeInit, Active

LEMMA SponsorKeeps ==
    ASSUME FundsInv, TypeOK', NEW v \in Vaults, SponsorStep(v)
    PROVE  FundsInv'
  <1>1. ASSUME NEW cliff \in Durations, NEW end \in Durations, InitVault(v, cliff, end)
        PROVE  FundsInv'
    <2>1. Effect(v, "Active", now + cliff, 0, 0, 0)
      BY <1>1, InitVaultEffect
    <2> QED
      BY <2>1, EffectKeeps
  <1>2. ASSUME NEW cliff \in Durations, NEW end \in Durations, NEW amount \in Amounts,
               InitAndDeposit(v, cliff, end, amount)
        PROVE  FundsInv'
    <2>1. Effect(v, "Active", now + cliff, amount, 0, amount) /\ amount >= amount
      BY <1>2, InitAndDepositEffect, Arguments
    <2> QED
      BY <2>1, EffectKeeps
  <1>3. ASSUME NEW amount \in Amounts, Deposit(v, amount)
        PROVE  FundsInv'
    <2>1. /\ Effect(v, "Active", vault[v].cliff_ts, vault[v].principal + amount,
                    vault[v].total_yield_routed, balance[v] + amount)
          /\ Active(v)
      BY <1>3, DepositEffect
    <2>2. balance[v] + amount >= vault[v].principal + amount
      BY <2>1, Fields, Arguments DEF FundsInv, PrincipalCovered
    <2> QED
      BY <2>1, <2>2, EffectKeeps
  <1>4. ASSUME CloseVault(v)
        PROVE  FundsInv'
    <2>1. Effect(v, "Closed", vault[v].cliff_ts, 0, vault[v].total_yield_routed, 0)
      BY <1>4, CloseVaultEffect
    <2> QED
      BY <2>1, EffectKeeps
  <1>5. ASSUME \/ \E c \in Creators, bps \in Allocations : AddCreator(v, c, bps)
               \/ \E c \in Creators : RemoveCreator(v, c)
        PROVE  FundsInv'
    <2>1. Effect(v, vault[v].status, vault[v].cliff_ts, vault[v].principal,
                 vault[v].total_yield_routed, balance[v])
      BY <1>5, AddCreatorEffect, RemoveCreatorEffect
    <2>2. /\ vault[v].status = "Active" => balance[v] >= vault[v].principal
          /\ vault[v].status # "Active" => balance[v] = 0 /\ vault[v].principal = 0
          /\ vault[v].status = "none" => vault[v].total_yield_routed = 0
      BY DEF FundsInv, PrincipalCovered, NothingLeftBehind, BlankBeforeInit, Active
    <2> QED
      BY <2>1, <2>2, EffectKeeps
  <1>6. ASSUME NEW i \in Indices, NEW t \in Thresholds, NEW bps \in Payouts,
               NEW g \in Targets, CreateMilestone(v, i, t, bps, g)
        PROVE  FundsInv'
    BY <1>6, QuietSteps, QuietKeeps DEF CreateMilestone
  <1> QED
    BY <1>1, <1>2, <1>3, <1>4, <1>5, <1>6 DEF SponsorStep

LEMMA AutomationKeeps ==
    ASSUME FundsInv, TypeOK', NEW v \in Vaults, AutomationStep(v)
    PROVE  FundsInv'
  <1>1. ASSUME NEW i \in Indices, NEW t \in Thresholds, NEW bps \in Payouts,
               NEW g \in Targets, CreateMilestoneByAutomation(v, i, t, bps, g)
        PROVE  FundsInv'
    BY <1>1, QuietSteps, QuietKeeps DEF CreateMilestoneByAutomation
  <1>2. ASSUME NEW i \in Indices, NEW c \in Creators, ReleaseMilestone(v, i, c)
        PROVE  FundsInv'
    <2> DEFINE pay == Payout(v, i)
    <2>1. /\ Effect(v, "Active", vault[v].cliff_ts, vault[v].principal - pay,
                    vault[v].total_yield_routed, balance[v] - pay)
          /\ Active(v) /\ pay \in Nat
      BY <1>2, ReleaseMilestoneEffect
    <2> HIDE DEF pay
    <2>2. balance[v] - pay >= vault[v].principal - pay
      BY <2>1, Fields DEF FundsInv, PrincipalCovered
    <2> QED
      BY <2>1, <2>2, EffectKeeps
  <1>3. ASSUME NEW c \in Creators, NEW amount \in Amounts, RouteYield(v, c, amount)
        PROVE  FundsInv'
    <2>1. /\ Effect(v, "Active", vault[v].cliff_ts, vault[v].principal,
                    vault[v].total_yield_routed + amount, balance[v] - amount)
          /\ amount <= balance[v] - vault[v].principal
      BY <1>3, RouteYieldEffect
    <2>2. balance[v] - amount >= vault[v].principal
      BY <2>1, Fields, Arguments DEF FundsInv
    <2> QED
      BY <2>1, <2>2, EffectKeeps
  <1> QED
    BY <1>1, <1>2, <1>3 DEF AutomationStep

LEMMA DonorKeeps ==
    ASSUME FundsInv, TypeOK', NEW w \in Donors, NEW v \in Vaults, NEW amount \in Amounts,
           ExternalTransfer(w, v, amount)
    PROVE  FundsInv'
  <1>1. /\ Effect(v, "Active", vault[v].cliff_ts, vault[v].principal,
                  vault[v].total_yield_routed, balance[v] + amount)
        /\ Active(v) /\ amount \in Nat
    BY ExternalTransferEffect
  <1>2. balance[v] + amount >= vault[v].principal
    BY <1>1, Fields DEF FundsInv, PrincipalCovered
  <1> QED
    BY <1>1, <1>2, EffectKeeps

LEMMA StepFunds == FundsInv /\ [Next]_vars => FundsInv'
  <1> SUFFICES ASSUME FundsInv, [Next]_vars PROVE FundsInv'
    OBVIOUS
  <1>0. TypeOK'
    BY StepType DEF FundsInv
  <1>1. CASE UNCHANGED vars
    BY <1>0, <1>1, QuietKeeps DEF vars, Quiet
  <1>2. ASSUME NEW v \in Vaults, OracleStep(v) PROVE FundsInv'
    BY <1>0, <1>2, QuietSteps, QuietKeeps DEF OracleStep
  <1>3. CASE Tick
    BY <1>0, <1>3, QuietSteps, QuietKeeps
  <1> QED
    BY <1>0, <1>1, <1>2, <1>3, SponsorKeeps, AutomationKeeps, DonorKeeps DEF Next

\* The strengthened invariant of the money holds throughout.
THEOREM FundsInvariant == Spec => []FundsInv
  BY InitFunds, StepFunds, PTL DEF Spec

\* At every moment the token account of an Active vault holds the principal the
\* vault records, for every schedule of deposits, routes, releases and donations.
THEOREM PrincipalIsCovered == Spec => []PrincipalCovered
  <1>1. FundsInv => PrincipalCovered
    BY DEF FundsInv
  <1> QED
    BY <1>1, FundsInvariant, PTL

\* A vault that is closed, or not yet created, holds no tokens and records no
\* principal: close_vault sweeps everything, and nothing arrives afterwards.
THEOREM NoTokensLeftBehind == Spec => []NothingLeftBehind
  <1>1. FundsInv => NothingLeftBehind
    BY DEF FundsInv
  <1> QED
    BY <1>1, FundsInvariant, PTL

================================================================================
