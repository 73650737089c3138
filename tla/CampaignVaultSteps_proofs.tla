----------------------- MODULE CampaignVaultSteps_proofs -----------------------
(***************************************************************************)
(* Theorems about the single steps of CampaignVault, from the invariant of *)
(* CampaignVaultFunds_proofs, for every number of vaults, creators and     *)
(* milestones: a closed vault is final, a milestone pays at most once,     *)
(* every step is a step of CampaignEscrow or a stutter, and a vault whose  *)
(* sponsor keeps submitting close_vault is closed.                         *)
(*                                                                         *)
(* The refinement mapping is that of the INSTANCE Escrow: the locked pot   *)
(* is a vault's recorded principal and the surplus pot is what its token   *)
(* account holds above it, so every guard of the escrow is about the       *)
(* difference of two accounts that no instruction updates together in one  *)
(* place. The effects of the instructions, from CampaignVaultFunds_proofs, *)
(* are translated into changes of the pots once, in Pots. Whatever only    *)
(* concerns a campaign's due date is then proved of the escrow.            *)
(***************************************************************************)
EXTENDS CampaignVaultFunds_proofs

\* Vault v, its members, milestones and tokens after a step are those before.
Untouched(v) ==
    /\ vault'[v] = vault[v] /\ member'[v] = member[v] /\ milestone'[v] = milestone[v]
    /\ balance'[v] = balance[v]

\* A step on vault w touches no other vault, nor w itself once it is closed.
OnlyAt(w) ==
    /\ \A v \in Vaults \ {w} : Untouched(v)
    /\ vault[w].status = "Closed" => Untouched(w)

Released(v, i) ==
    /\ milestone[v][i].status = "Pending"
    /\ milestone'[v][i] = [milestone[v][i] EXCEPT !.status = "Released"]

\* What MilestonePaysOnce says of a step and a vault.
PaysOnce(v) ==
    /\ Active(v)' /\ vault'[v].principal < vault[v].principal
          => \E i \in Indices : Released(v, i)
    /\ \A i \in Indices : milestone[v][i].status # "none" =>
          \/ milestone'[v][i] = milestone[v][i]
          \/ Released(v, i) /\ vault'[v].principal < vault[v].principal

--------------------------------------------------------------------------------
(* Steps that leave the milestones alone *)

LEMMA UntouchedPays ==
    ASSUME FundsInv, NEW v \in Vaults, Untouched(v)
    PROVE  PaysOnce(v)
  BY Fields DEF FundsInv, Untouched, PaysOnce

\* An effect on an open vault that lowers no Active principal.
LEMMA EffectStep ==
    ASSUME FundsInv, NEW w \in Vaults,
           NEW status, NEW cliff, NEW principal \in Nat, NEW routed, NEW bal,
           Effect(w, status, cliff, principal, routed, bal),
           vault[w].status # "Closed",
           status # "Active" \/ principal >= vault[w].principal,
           milestone' = milestone,
           \A v \in Vaults \ {w} : member'[v] = member[v]
    PROVE  OnlyAt(w) /\ \A v \in Vaults : PaysOnce(v)
  <1>1. \A v \in Vaults \ {w} : Untouched(v)
    BY DEF Effect, Untouched
  <1>2. PaysOnce(w)
    BY Fields DEF FundsInv, Effect, PaysOnce, Active
  <1> QED
    BY <1>1, <1>2, UntouchedPays DEF OnlyAt

LEMMA QuietStep ==
    ASSUME FundsInv, Quiet, milestone' = milestone, member' = member, NEW w \in Vaults
    PROVE  OnlyAt(w) /\ \A v \in Vaults : PaysOnce(v)
  <1>1. \A v \in Vaults : Untouched(v)
    BY DEF Quiet, Untouched
  <1> QED
    BY <1>1, UntouchedPays DEF OnlyAt

LEMMA InitVaultStep ==
    ASSUME FundsInv, NEW w \in Vaults, NEW cliff \in Durations, NEW end \in Durations,
           InitVault(w, cliff, end)
    PROVE  OnlyAt(w) /\ \A v \in Vaults : PaysOnce(v)
  <1>1. Effect(w, "Active", now + cliff, 0, 0, 0)
    BY InitVaultEffect
  <1>2. /\ vault[w].status = "none" /\ vault[w].principal = 0
        /\ milestone' = milestone /\ member' = member
    BY DEF FundsInv, NothingLeftBehind, Active, InitVault
  <1> QED
    BY <1>1, <1>2, EffectStep

LEMMA InitAndDepositStep ==
    ASSUME FundsInv, NEW w \in Vaults, NEW cliff \in Durations, NEW end \in Durations,
           NEW amount \in Amounts, InitAndDeposit(w, cliff, end, amount)
    PROVE  OnlyAt(w) /\ \A v \in Vaults : PaysOnce(v)
  <1>1. Effect(w, "Active", now + cliff, amount, 0, amount)
    BY InitAndDepositEffect
  <1>2. /\ vault[w].status = "none" /\ vault[w].principal = 0 /\ amount \in Nat
        /\ milestone' = milestone /\ member' = member
    BY Arguments DEF FundsInv, NothingLeftBehind, Active, InitAndDeposit
  <1> QED
    BY <1>1, <1>2, EffectStep

LEMMA DepositStep ==
    ASSUME FundsInv, NEW w \in Vaults, NEW amount \in Amounts, Deposit(w, amount)
    PROVE  OnlyAt(w) /\ \A v \in Vaults : PaysOnce(v)
  <1>1. /\ Effect(w, "Active", vault[w].cliff_ts, vault[w].principal + amount,
                  vault[w].total_yield_routed, balance[w] + amount)
        /\ vault[w].status = "Active"
    BY DepositEffect DEF Active
  <1>2. vault[w].principal + amount \in Nat /\ vault[w].principal + amount >= vault[w].principal
    BY Fields, Arguments DEF FundsInv
  <1>3. milestone' = milestone /\ member' = member
    BY DEF Deposit
  <1> QED
    BY <1>1, <1>2, <1>3, EffectStep

LEMMA CloseStep ==
    ASSUME FundsInv, NEW w \in Vaults, CloseVault(w)
    PROVE  OnlyAt(w) /\ \A v \in Vaults : PaysOnce(v)
  <1>1. /\ Effect(w, "Closed", vault[w].cliff_ts, 0, vault[w].total_yield_routed, 0)
        /\ vault[w].status = "Active"
    BY CloseVaultEffect DEF Active
  <1>2. milestone' = milestone /\ member' = member
    BY DEF CloseVault
  <1> QED
    BY <1>1, <1>2, EffectStep

LEMMA SquadStep ==
    ASSUME FundsInv, NEW w \in Vaults, NEW c \in Creators,
           (\E bps \in Allocations : AddCreator(w, c, bps)) \/ RemoveCreator(w, c)
    PROVE  OnlyAt(w) /\ \A v \in Vaults : PaysOnce(v)
  <1>1. Effect(w, vault[w].status, vault[w].cliff_ts, vault[w].principal,
               vault[w].total_yield_routed, balance[w])
    BY AddCreatorEffect, RemoveCreatorEffect
  <1>2. vault[w].status = "Active"
    BY DEF AddCreator, AddCreatorAllowed, RemoveCreator, RemoveCreatorAllowed, Active
  <1>3. milestone' = milestone /\ \A v \in Vaults \ {w} : member'[v] = member[v]
    BY DEF FundsInv, TypeOK, AddCreator, RemoveCreator
  <1>4. vault[w].principal \in Nat /\ vault[w].principal >= vault[w].principal
    BY Fields DEF FundsInv
  <1> QED
    BY <1>1, <1>2, <1>3, <1>4, EffectStep

LEMMA RouteStep ==
    ASSUME FundsInv, NEW w \in Vaults, NEW c \in Creators, NEW amount \in Amounts,
           RouteYield(w, c, amount)
    PROVE  OnlyAt(w) /\ \A v \in Vaults : PaysOnce(v)
  <1>1. /\ Effect(w, "Active", vault[w].cliff_ts, vault[w].principal,
                  vault[w].total_yield_routed + amount, balance[w] - amount)
        /\ vault[w].status = "Active"
    BY RouteYieldEffect DEF Active
  <1>2. milestone' = milestone /\ \A v \in Vaults \ {w} : member'[v] = member[v]
    BY DEF FundsInv, TypeOK, RouteYield
  <1>3. vault[w].principal \in Nat /\ vault[w].principal >= vault[w].principal
    BY Fields DEF FundsInv
  <1> QED
    BY <1>1, <1>2, <1>3, EffectStep

LEMMA DonationStep ==
    ASSUME FundsInv, NEW d \in Donors, NEW w \in Vaults, NEW amount \in Amounts,
           ExternalTransfer(d, w, amount)
    PROVE  OnlyAt(w) /\ \A v \in Vaults : PaysOnce(v)
  <1>1. /\ Effect(w, "Active", vault[w].cliff_ts, vault[w].principal,
                  vault[w].total_yield_routed, balance[w] + amount)
        /\ vault[w].status = "Active"
    BY ExternalTransferEffect DEF Active
  <1>2. milestone' = milestone /\ member' = member
    BY DEF ExternalTransfer
  <1>3. vault[w].principal \in Nat /\ vault[w].principal >= vault[w].principal
    BY Fields DEF FundsInv
  <1> QED
    BY <1>1, <1>2, <1>3, EffectStep

--------------------------------------------------------------------------------
(* Steps on a milestone *)

\* A milestone is created where there was none.
LEMMA InitMilestoneStep ==
    ASSUME FundsInv, NEW w \in Vaults, NEW i \in Indices, NEW threshold, NEW bps, NEW target,
           InitMilestone(w, i, threshold, bps, target)
    PROVE  OnlyAt(w) /\ \A v \in Vaults : PaysOnce(v)
  <1>1. /\ vault[w].status = "Active" /\ milestone[w][i].status = "none"
        /\ vault' = vault /\ balance' = balance /\ member' = member
    BY DEF InitMilestone, Active
  <1>2. /\ \A v \in Vaults \ {w} : milestone'[v] = milestone[v]
        /\ \A j \in Indices \ {i} : milestone'[w][j] = milestone[w][j]
    BY DEF FundsInv, TypeOK, InitMilestone
  <1>3. \A v \in Vaults \ {w} : Untouched(v)
    BY <1>1, <1>2 DEF Untouched
  <1>4. PaysOnce(w)
    BY <1>1, <1>2, Fields DEF FundsInv, PaysOnce
  <1> QED
    BY <1>1, <1>3, <1>4, UntouchedPays DEF OnlyAt

\* A release lowers the principal and leaves its milestone Released.
LEMMA ReleaseStep ==
    ASSUME FundsInv, NEW w \in Vaults, NEW i \in Indices, NEW c \in Creators,
           ReleaseMilestone(w, i, c)
    PROVE  OnlyAt(w) /\ \A v \in Vaults : PaysOnce(v)
  <1> DEFINE pay == Payout(w, i)
  <1>1. /\ Effect(w, "Active", vault[w].cliff_ts, vault[w].principal - pay,
                  vault[w].total_yield_routed, balance[w] - pay)
        /\ vault[w].status = "Active" /\ pay \in Nat \ {0}
    BY ReleaseMilestoneEffect DEF Active
  <1> HIDE DEF pay
  <1>2. /\ milestone[w][i].status = "Pending"
        /\ milestone' = [milestone EXCEPT ![w][i].status = "Released"]
        /\ member' = member
    BY DEF ReleaseMilestone, ReleaseAllowed
  <1>3. /\ \A v \in Vaults \ {w} : milestone'[v] = milestone[v]
        /\ \A j \in Indices \ {i} : milestone'[w][j] = milestone[w][j]
        /\ Released(w, i)
    BY <1>2 DEF FundsInv, TypeOK, Released
  <1>4. vault'[w].principal < vault[w].principal
    BY <1>1, Fields DEF FundsInv, Effect
  <1>5. \A v \in Vaults \ {w} : Untouched(v)
    BY <1>1, <1>2, <1>3 DEF Effect, Untouched
  <1>6. PaysOnce(w)
    BY <1>3, <1>4 DEF PaysOnce
  <1> QED
    BY <1>1, <1>5, <1>6, UntouchedPays DEF OnlyAt

--------------------------------------------------------------------------------
(* Every step *)

LEMMA VaultStep ==
    ASSUME FundsInv, NEW w \in Vaults, SponsorStep(w) \/ AutomationStep(w) \/ OracleStep(w)
    PROVE  OnlyAt(w) /\ \A v \in Vaults : PaysOnce(v)
  <1>1. CASE SponsorStep(w)
    BY <1>1, InitVaultStep, InitAndDepositStep, DepositStep, CloseStep, SquadStep,
       InitMilestoneStep DEF SponsorStep, CreateMilestone
  <1>2. CASE AutomationStep(w)
    BY <1>2, InitMilestoneStep, ReleaseStep, RouteStep
       DEF AutomationStep, CreateMilestoneByAutomation
  <1>3. CASE OracleStep(w)
    BY <1>3, QuietStep DEF OracleStep, UpdateScore, Quiet
  <1> QED
    BY <1>1, <1>2, <1>3

LEMMA AnyStep ==
    ASSUME FundsInv, Next, NEW v \in Vaults
    PROVE  PaysOnce(v) /\ (vault[v].status = "Closed" => Untouched(v))
  <1>1. ASSUME NEW w \in Vaults, OnlyAt(w)
        PROVE  vault[v].status = "Closed" => Untouched(v)
    BY <1>1 DEF OnlyAt
  <1>2. CASE Tick
    BY <1>2, QuietStep DEF Tick, Quiet, OnlyAt
  <1> QED
    BY <1>1, <1>2, VaultStep, DonationStep DEF Next

\* Whatever is executed on a vault that is closed, and in whatever order, its
\* account, members, milestones and tokens stay as close_vault left them.
THEOREM ClosedForGood == Spec => ClosedIsFinal
  <1>1. FundsInv /\ [Next]_vars =>
           [\A v \in Vaults : vault[v].status = "Closed" =>
               /\ UNCHANGED <<vault[v], member[v], milestone[v]>>
               /\ balance'[v] = balance[v]]_vars
    BY AnyStep DEF Untouched
  <1> QED
    BY <1>1, FundsInvariant, PTL DEF Spec, ClosedIsFinal

\* However often a release is retried and whoever created the milestone, only its
\* one step from Pending to Released lowers the principal of an Active vault.
THEOREM MilestonesPayOnce == Spec => MilestonePaysOnce
  <1>1. FundsInv /\ [Next]_vars => [\A v \in Vaults : PaysOnce(v)]_vars
    BY AnyStep
  <1> QED
    BY <1>1, FundsInvariant, PTL DEF Spec, MilestonePaysOnce, PaysOnce, Released

--------------------------------------------------------------------------------
(* The escrow *)

\* The pots and the phases as the refinement mapping computes them.
Phase   == [v \in Vaults |-> vault[v].status]
Due     == [v \in Vaults |-> vault[v].cliff_ts]
Locked  == [v \in Vaults |-> vault[v].principal]
Surplus == [v \in Vaults |-> AvailableYield(v)]
Routed  == [v \in Vaults |-> vault[v].total_yield_routed]

\* An effect on v changes each pot at v alone.
LEMMA Pots ==
    ASSUME NEW v \in Vaults,
           NEW status, NEW cliff, NEW principal, NEW routed, NEW bal,
           Effect(v, status, cliff, principal, routed, bal)
    PROVE  /\ Phase' = [Phase EXCEPT ![v] = status] /\ Phase'[v] = status
           /\ Due' = [Due EXCEPT ![v] = cliff] /\ Due'[v] = cliff
           /\ Locked' = [Locked EXCEPT ![v] = principal] /\ Locked'[v] = principal
           /\ Surplus' = [Surplus EXCEPT ![v] = bal - principal]
           /\ Surplus'[v] = bal - principal
           /\ Routed' = [Routed EXCEPT ![v] = routed] /\ Routed'[v] = routed
  <1>1. Phase' = [Phase EXCEPT ![v] = status] /\ Phase'[v] = status
    BY DEF Effect, Phase
  <1>2. Due' = [Due EXCEPT ![v] = cliff] /\ Due'[v] = cliff
    BY DEF Effect, Due
  <1>3. Locked' = [Locked EXCEPT ![v] = principal] /\ Locked'[v] = principal
    BY DEF Effect, Locked
  <1>4. /\ Surplus' = [Surplus EXCEPT ![v] = bal - principal]
        /\ Surplus'[v] = bal - principal
    BY DEF Effect, Surplus, AvailableYield
  <1>5. Routed' = [Routed EXCEPT ![v] = routed] /\ Routed'[v] = routed
    BY DEF Effect, Routed
  <1> QED
    BY <1>1, <1>2, <1>3, <1>4, <1>5

\* A pot set at v to the value it has there is unchanged.
LEMMA SameValue ==
    ASSUME NEW v \in Vaults
    PROVE  /\ Phase[v] = vault[v].status /\ [Phase EXCEPT ![v] = vault[v].status] = Phase
           /\ Due[v] = vault[v].cliff_ts /\ [Due EXCEPT ![v] = vault[v].cliff_ts] = Due
           /\ Locked[v] = vault[v].principal
           /\ [Locked EXCEPT ![v] = vault[v].principal] = Locked
           /\ Surplus[v] = AvailableYield(v)
           /\ [Surplus EXCEPT ![v] = AvailableYield(v)] = Surplus
           /\ Routed[v] = vault[v].total_yield_routed
           /\ [Routed EXCEPT ![v] = vault[v].total_yield_routed] = Routed
  BY DEF Phase, Due, Locked, Surplus, Routed

LEMMA OpenRefines ==
    ASSUME FundsInv, NEW v \in Vaults, vault[v].status = "none", now' = now,
           NEW cliff \in Int, cliff > now, NEW amount \in Nat,
           Effect(v, "Active", cliff, amount, 0, amount)
    PROVE  Escrow!Open(v)
  <1>1. /\ vault[v].total_yield_routed = 0 /\ AvailableYield(v) = 0 /\ amount - amount = 0
        /\ cliff \in Nat
    BY Fields DEF FundsInv, NothingLeftBehind, BlankBeforeInit, Active, AvailableYield
  <1>2. /\ Phase[v] = "none" /\ Phase' = [Phase EXCEPT ![v] = "Active"]
        /\ Due' = [Due EXCEPT ![v] = Due'[v]] /\ Due'[v] = cliff
        /\ Locked' = [Locked EXCEPT ![v] = Locked'[v]] /\ Locked'[v] = amount
        /\ Surplus' = Surplus /\ Routed' = Routed
    BY <1>1, Pots, SameValue
  <1> QED
    BY <1>1, <1>2 DEF Escrow!Open, Escrow!OnlyAt, Phase, Due, Locked, Surplus, Routed

LEMMA LockRefines ==
    ASSUME FundsInv, NEW v \in Vaults, Active(v), now' = now,
           NEW principal \in Nat, principal > vault[v].principal,
           NEW bal, bal - principal = AvailableYield(v),
           Effect(v, "Active", vault[v].cliff_ts, principal,
                  vault[v].total_yield_routed, bal)
    PROVE  Escrow!Lock(v)
  <1>1. vault[v].status = "Active"
    BY DEF Active
  <1>2. /\ Phase[v] = "Active" /\ Phase' = Phase /\ Due' = Due
        /\ Locked' = [Locked EXCEPT ![v] = Locked'[v]]
        /\ Locked'[v] = principal /\ Locked[v] = vault[v].principal
        /\ Surplus' = Surplus /\ Routed' = Routed
    BY <1>1, Pots, SameValue
  <1> QED
    BY <1>2 DEF Escrow!Lock, Escrow!OnlyAt, Phase, Due, Locked, Surplus, Routed

LEMMA AccrueRefines ==
    ASSUME FundsInv, NEW v \in Vaults, Active(v), now' = now,
           NEW bal, bal - vault[v].principal \in Nat,
           bal - vault[v].principal > AvailableYield(v),
           Effect(v, "Active", vault[v].cliff_ts, vault[v].principal,
                  vault[v].total_yield_routed, bal)
    PROVE  Escrow!Accrue(v)
  <1>1. vault[v].status = "Active"
    BY DEF Active
  <1>2. /\ Phase[v] = "Active" /\ Phase' = Phase /\ Due' = Due /\ Locked' = Locked
        /\ Surplus' = [Surplus EXCEPT ![v] = Surplus'[v]]
        /\ Surplus'[v] = bal - vault[v].principal
        /\ Surplus[v] = AvailableYield(v) /\ Routed' = Routed
    BY <1>1, Pots, SameValue
  <1> QED
    BY <1>2 DEF Escrow!Accrue, Escrow!OnlyAt, Phase, Due, Locked, Surplus, Routed

LEMMA PayYieldRefines ==
    ASSUME FundsInv, NEW v \in Vaults, Active(v), now' = now,
           NEW amount \in Nat, amount > 0, amount <= balance[v] - vault[v].principal,
           Effect(v, "Active", vault[v].cliff_ts, vault[v].principal,
                  vault[v].total_yield_routed + amount, balance[v] - amount)
    PROVE  Escrow!PayYield(v)
  <1>1. /\ balance[v] - amount - vault[v].principal \in Nat
        /\ balance[v] - amount - vault[v].principal < AvailableYield(v)
        /\ AvailableYield(v) - (balance[v] - amount - vault[v].principal) = amount
    BY Fields DEF FundsInv, AvailableYield
  <1>2. vault[v].status = "Active"
    BY DEF Active
  <1>3. /\ Phase[v] = "Active" /\ Phase' = Phase /\ Due' = Due /\ Locked' = Locked
        /\ Surplus' = [Surplus EXCEPT ![v] = Surplus'[v]]
        /\ Surplus'[v] = balance[v] - amount - vault[v].principal
        /\ Surplus[v] = AvailableYield(v)
        /\ Routed' = [Routed EXCEPT ![v] = vault[v].total_yield_routed + amount]
        /\ Routed[v] = vault[v].total_yield_routed
    BY <1>2, Pots, SameValue
  <1>4. Routed' = [Routed EXCEPT ![v] = @ + (Surplus[v] - Surplus'[v])]
    BY <1>1, <1>3
  <1> QED
    BY <1>1, <1>3, <1>4
       DEF Escrow!PayYield, Escrow!OnlyAt, Phase, Due, Locked, Surplus, Routed

LEMMA PayBonusRefines ==
    ASSUME FundsInv, NEW v \in Vaults, Active(v), now' = now,
           NEW pay \in Nat \ {0}, pay <= vault[v].principal,
           Effect(v, "Active", vault[v].cliff_ts, vault[v].principal - pay,
                  vault[v].total_yield_routed, balance[v] - pay)
    PROVE  Escrow!PayBonus(v)
  <1>1. /\ balance[v] - pay - (vault[v].principal - pay) = AvailableYield(v)
        /\ vault[v].principal - pay \in Nat
        /\ vault[v].principal - pay < vault[v].principal
    BY Fields DEF FundsInv, AvailableYield
  <1>2. vault[v].status = "Active"
    BY DEF Active
  <1>3. /\ Phase[v] = "Active" /\ Phase' = Phase /\ Due' = Due
        /\ Locked' = [Locked EXCEPT ![v] = Locked'[v]]
        /\ Locked'[v] = vault[v].principal - pay /\ Locked[v] = vault[v].principal
        /\ Surplus' = Surplus /\ Routed' = Routed
    BY <1>1, <1>2, Pots, SameValue
  <1> QED
    BY <1>1, <1>3 DEF Escrow!PayBonus, Escrow!OnlyAt, Phase, Due, Locked, Surplus, Routed

LEMMA ReturnRefines ==
    ASSUME FundsInv, NEW v \in Vaults, Active(v), now >= vault[v].cliff_ts, now' = now,
           Effect(v, "Closed", vault[v].cliff_ts, 0, vault[v].total_yield_routed, 0)
    PROVE  Escrow!Return(v)
  <1>1. vault[v].status = "Active" /\ 0 - 0 = 0
    BY DEF Active
  <1>2. /\ Phase[v] = "Active" /\ Phase' = [Phase EXCEPT ![v] = "Closed"]
        /\ Due' = Due /\ Due[v] = vault[v].cliff_ts
        /\ Locked' = [Locked EXCEPT ![v] = 0] /\ Surplus' = [Surplus EXCEPT ![v] = 0]
        /\ Routed' = Routed
    BY <1>1, Pots, SameValue
  <1> QED
    BY <1>2 DEF Escrow!Return, Phase, Due, Locked, Surplus, Routed

\* Steps that leave vaults and tokens alone are stutters of the escrow, or time.
LEMMA QuietStutters == Quiet /\ now' = now => UNCHANGED Escrow!escrowVars
  BY DEF Quiet, Escrow!escrowVars, AvailableYield

--------------------------------------------------------------------------------
(* Every step refines *)

LEMMA SponsorRefines ==
    ASSUME FundsInv, NEW v \in Vaults, SponsorStep(v)
    PROVE  [Escrow!Next]_Escrow!escrowVars
  <1>1. ASSUME NEW cliff \in Durations, NEW end \in Durations, InitVault(v, cliff, end)
        PROVE  Escrow!Open(v)
    <2>1. Effect(v, "Active", now + cliff, 0, 0, 0) /\ now + cliff > now
      BY <1>1, InitVaultEffect
    <2>2. now + cliff \in Int
      BY Fields, Arguments DEF FundsInv
    <2>3. vault[v].status = "none" /\ now' = now /\ 0 \in Nat
      BY <1>1 DEF InitVault
    <2> QED
      BY <2>1, <2>2, <2>3, OpenRefines
  <1>2. ASSUME NEW cliff \in Durations, NEW end \in Durations, NEW amount \in Amounts,
               InitAndDeposit(v, cliff, end, amount)
        PROVE  Escrow!Open(v)
    <2>1. Effect(v, "Active", now + cliff, amount, 0, amount) /\ now + cliff > now
      BY <1>2, InitAndDepositEffect
    <2>2. now + cliff \in Int /\ amount \in Nat
      BY Fields, Arguments DEF FundsInv
    <2>3. vault[v].status = "none" /\ now' = now
      BY <1>2 DEF InitAndDeposit
    <2> QED
      BY <2>1, <2>2, <2>3, OpenRefines
  <1>3. ASSUME NEW amount \in Amounts, Deposit(v, amount)
        PROVE  Escrow!Lock(v)
    <2> DEFINE principal == vault[v].principal + amount
               bal == balance[v] + amount
    <2>1. /\ Effect(v, "Active", vault[v].cliff_ts, principal,
                    vault[v].total_yield_routed, bal)
          /\ Active(v) /\ amount > 0
      BY <1>3, DepositEffect
    <2>2. now' = now
      BY <1>3 DEF Deposit
    <2>3. /\ principal \in Nat /\ principal > vault[v].principal
          /\ bal - principal = AvailableYield(v)
      BY <2>1, Fields, Arguments DEF FundsInv, AvailableYield
    <2> HIDE DEF principal, bal
    <2> QED
      BY <2>1, <2>2, <2>3, LockRefines
  <1>4. ASSUME CloseVault(v)
        PROVE  Escrow!Return(v)
    BY <1>4, CloseVaultEffect, ReturnRefines DEF CloseVault
  <1>5. ASSUME \/ \E c \in Creators, bps \in Allocations : AddCreator(v, c, bps)
               \/ \E c \in Creators : RemoveCreator(v, c)
        PROVE  UNCHANGED Escrow!escrowVars
    <2>1. /\ Effect(v, vault[v].status, vault[v].cliff_ts, vault[v].principal,
                    vault[v].total_yield_routed, balance[v])
          /\ now' = now
      BY <1>5, AddCreatorEffect, RemoveCreatorEffect DEF AddCreator, RemoveCreator
    <2>2. /\ Phase' = Phase /\ Due' = Due /\ Locked' = Locked /\ Surplus' = Surplus
          /\ Routed' = Routed
      BY <2>1, Pots, SameValue DEF AvailableYield
    <2> QED
      BY <2>1, <2>2 DEF Escrow!escrowVars, Phase, Due, Locked, Surplus, Routed
  <1>6. ASSUME NEW i \in Indices, NEW t \in Thresholds, NEW bps \in Payouts,
               NEW g \in Targets, CreateMilestone(v, i, t, bps, g)
        PROVE  UNCHANGED Escrow!escrowVars
    <2>1. InitMilestone(v, i, t, bps, g) /\ now' = now
      BY <1>6 DEF CreateMilestone, InitMilestone
    <2> QED
      BY <2>1, QuietSteps, QuietStutters
  <1> QED
    BY <1>1, <1>2, <1>3, <1>4, <1>5, <1>6 DEF SponsorStep, Escrow!Next

LEMMA AutomationRefines ==
    ASSUME FundsInv, NEW v \in Vaults, AutomationStep(v)
    PROVE  [Escrow!Next]_Escrow!escrowVars
  <1>1. ASSUME NEW i \in Indices, NEW t \in Thresholds, NEW bps \in Payouts,
               NEW g \in Targets, CreateMilestoneByAutomation(v, i, t, bps, g)
        PROVE  UNCHANGED Escrow!escrowVars
    <2>1. InitMilestone(v, i, t, bps, g) /\ now' = now
      BY <1>1 DEF CreateMilestoneByAutomation, InitMilestone
    <2> QED
      BY <2>1, QuietSteps, QuietStutters
  <1>2. ASSUME NEW i \in Indices, NEW c \in Creators, ReleaseMilestone(v, i, c)
        PROVE  Escrow!PayBonus(v)
    <2>1. now' = now
      BY <1>2 DEF ReleaseMilestone
    <2> QED
      BY <1>2, <2>1, ReleaseMilestoneEffect, PayBonusRefines
  <1>3. ASSUME NEW c \in Creators, NEW amount \in Amounts, RouteYield(v, c, amount)
        PROVE  Escrow!PayYield(v)
    <2>1. now' = now
      BY <1>3 DEF RouteYield
    <2> QED
      BY <1>3, <2>1, RouteYieldEffect, PayYieldRefines, Arguments
  <1> QED
    BY <1>1, <1>2, <1>3 DEF AutomationStep, Escrow!Next

LEMMA StepRefines == FundsInv /\ [Next]_vars => [Escrow!Next]_Escrow!escrowVars
  <1> SUFFICES ASSUME FundsInv, [Next]_vars PROVE [Escrow!Next]_Escrow!escrowVars
    OBVIOUS
  <1>1. CASE UNCHANGED vars
    BY <1>1, QuietStutters DEF vars, Quiet
  <1>2. ASSUME NEW v \in Vaults, OracleStep(v) PROVE UNCHANGED Escrow!escrowVars
    <2>1. Quiet /\ now' = now
      BY <1>2, QuietSteps DEF OracleStep, UpdateScore
    <2> QED
      BY <2>1, QuietStutters
  <1>3. ASSUME NEW w \in Donors, NEW v \in Vaults, NEW amount \in Amounts,
               ExternalTransfer(w, v, amount)
        PROVE  Escrow!Accrue(v)
    <2>1. now' = now
      BY <1>3 DEF ExternalTransfer
    <2> DEFINE bal == balance[v] + amount
    <2>2. /\ Effect(v, "Active", vault[v].cliff_ts, vault[v].principal,
                    vault[v].total_yield_routed, bal)
          /\ Active(v) /\ amount > 0
      BY <1>3, ExternalTransferEffect
    <2>3. /\ bal - vault[v].principal \in Nat
          /\ bal - vault[v].principal > AvailableYield(v)
      BY <2>2, Fields, Arguments DEF FundsInv, PrincipalCovered, AvailableYield
    <2> HIDE DEF bal
    <2> QED
      BY <2>1, <2>2, <2>3, AccrueRefines
  <1>4. CASE Tick
    BY <1>4 DEF Tick, Escrow!Elapse, Escrow!Next, AvailableYield
  <1> QED
    BY <1>1, <1>2, <1>3, <1>4, SponsorRefines, AutomationRefines DEF Next, Escrow!Next

LEMMA InitRefines == Init => Escrow!Init
  <1> SUFFICES ASSUME Init PROVE Escrow!Init
    OBVIOUS
  <1>1. \A v \in Vaults : balance[v] = 0 /\ vault[v] = NoVault
    BY Accounts DEF Init
  <1>2. /\ NoVault.status = "none" /\ NoVault.principal = 0 /\ NoVault.cliff_ts = 0
        /\ NoVault.total_yield_routed = 0
    BY DEF NoVault
  <1>3. \A v \in Vaults :
           /\ vault[v].status = "none" /\ vault[v].principal = 0 /\ vault[v].cliff_ts = 0
           /\ vault[v].total_yield_routed = 0 /\ AvailableYield(v) = 0
    BY <1>1, <1>2 DEF AvailableYield
  <1>4. now = 0
    BY DEF Init
  <1> QED
    BY <1>3, <1>4 DEF Escrow!Init

\* Every behaviour of the vaults is one of the escrow: yield is only ever paid
\* from the surplus, bonuses only from the principal, and the sponsor gets the
\* rest back once, after the cliff.
THEOREM ImplementsEscrow == Spec => EscrowSpec
  BY InitRefines, StepRefines, FundsInvariant, PTL DEF Spec, EscrowSpec, Escrow!Spec

--------------------------------------------------------------------------------
(* Vaults are closed *)

\* close_vault written out, down to the value of every variable, and the rule of ENABLED
\* for an action of that form: it is enabled where its guard holds and a value differs.
\* The rule is one of the logic, which the provers lack, and true of any such action;
\* that CloseVault is this action is for the proof to show.
CloseWritten(v) ==
    /\ CloseVaultAllowed(v)
    /\ balance' = Transfer(balance, v, SponsorOf[v], balance[v])
    /\ vault' = [vault EXCEPT ![v].status = "Closed", ![v].principal = 0]
    /\ UNCHANGED <<now, member, score, milestone>>

CloseRule(v) ==
    /\ CloseVaultAllowed(v)
    /\ [vault EXCEPT ![v].status = "Closed", ![v].principal = 0] # vault
    => ENABLED <<CloseWritten(v)>>_vars

\* The clock passes the cliff of every vault that is opened.  TimePasses gives this, by
\* an induction over the clock.
CliffPasses(v) == Active(v) ~> now >= vault[v].cliff_ts

Closable(v) == Active(v) /\ now >= vault[v].cliff_ts

\* The escrow keeps a campaign's due date until it returns the campaign.
LEMMA EscrowKeepsDue ==
    ASSUME [Escrow!Next]_Escrow!escrowVars, NEW v \in Vaults, Active(v), now \in Int
    PROVE  \/ vault'[v].status = "Closed"
           \/ Active(v)' /\ vault'[v].cliff_ts = vault[v].cliff_ts /\ now' >= now
  <1> DEFINE Kept == Active(v)' /\ vault'[v].cliff_ts = vault[v].cliff_ts /\ now' >= now
  <1> DEFINE phase == [w \in Vaults |-> vault[w].status]
  <1> DEFINE due == [w \in Vaults |-> vault[w].cliff_ts]
  <1>1. ASSUME phase' = phase, due' = due, now' \in {now, now + 1} PROVE Kept
    <2>1. phase'[v] = phase[v] /\ due'[v] = due[v]
      BY <1>1
    <2> QED
      BY <1>1, <2>1 DEF Active
  <1>2. CASE UNCHANGED Escrow!escrowVars
    BY <1>1, <1>2 DEF Escrow!escrowVars
  <1>3. ASSUME NEW w \in Vaults, Escrow!Open(w) PROVE Kept
    <2>1. w # v
      BY <1>3 DEF Escrow!Open, Active
    <2>2. phase'[v] = phase[v] /\ due'[v] = due[v] /\ now' = now
      BY <1>3, <2>1 DEF Escrow!Open, Escrow!OnlyAt
    <2> QED
      BY <2>2 DEF Active
  <1>4. ASSUME NEW w \in Vaults, Escrow!Return(w)
        PROVE  Kept \/ vault'[v].status = "Closed"
    <2>1. phase'[v] \in {phase[v], "Closed"} /\ due'[v] = due[v] /\ now' = now
      BY <1>4 DEF Escrow!Return
    <2> QED
      BY <2>1 DEF Active
  <1>5. ASSUME NEW w \in Vaults,
               \/ Escrow!Lock(w) \/ Escrow!Accrue(w) \/ Escrow!PayYield(w)
               \/ Escrow!PayBonus(w) \/ Escrow!Elapse
        PROVE  Kept
    BY <1>1, <1>5 DEF Escrow!Lock, Escrow!Accrue, Escrow!PayYield, Escrow!PayBonus, Escrow!Elapse
  <1> QED
    BY <1>2, <1>3, <1>4, <1>5 DEF Escrow!Next

LEMMA ClosableUntilClosed ==
    ASSUME FundsInv, [Next]_vars, NEW v \in Vaults, Closable(v)
    PROVE  Closable(v)' \/ vault'[v].status = "Closed"
  <1>1. now \in Int /\ now' \in Int /\ vault[v].cliff_ts \in Int
    BY StepFunds, Fields DEF FundsInv, TypeOK
  <1> QED
    BY <1>1, StepRefines, EscrowKeepsDue DEF Closable

LEMMA ActiveUntilClosed ==
    ASSUME FundsInv, [Next]_vars, NEW v \in Vaults, Active(v)
    PROVE  Active(v)' \/ vault'[v].status = "Closed"
  BY StepRefines, EscrowKeepsDue DEF FundsInv, TypeOK

LEMMA ClosingCloses ==
    ASSUME FundsInv, NEW v \in Vaults, CloseVault(v)
    PROVE  vault'[v].status = "Closed"
  BY CloseVaultEffect DEF Effect

LEMMA ClosableIsEnabled ==
    ASSUME FundsInv, NEW v \in Vaults, Closable(v), CloseRule(v)
    PROVE  ENABLED <<CloseVault(v)>>_vars
  <1>1. CloseVaultAllowed(v)
    BY DEF Closable, Active, CloseVaultAllowed
  <1>2. [vault EXCEPT ![v].status = "Closed", ![v].principal = 0] # vault
    <2> DEFINE closed == [vault EXCEPT ![v].status = "Closed", ![v].principal = 0]
    <2>1. vault \in [Vaults -> VaultAccount] /\ vault[v] \in VaultAccount
      BY Fields DEF FundsInv
    <2>2. closed[v].status = "Closed"
      BY <2>1 DEF VaultAccount
    <2> QED
      BY <2>2 DEF Closable, Active
  <1>3. ENABLED <<CloseWritten(v)>>_vars
    BY <1>1, <1>2 DEF CloseRule
  <1> QED
    BY <1>3 DEF CloseWritten, CloseVault

\* Every vault that is opened is closed in the end, if its sponsor keeps submitting
\* close_vault: from the cliff on the close stays allowed, whatever squads, scores,
\* milestones, routings and donations there were and are.
THEOREM VaultsAreClosed ==
    FairSpec /\ (\A v \in Vaults : []CloseRule(v)) /\ (\A v \in Vaults : CliffPasses(v))
       => VaultEventuallyCloses
  <1> SUFFICES ASSUME NEW v \in Vaults
               PROVE  Spec /\ KeepsClosing(v) /\ []CloseRule(v) /\ CliffPasses(v)
                         => (Active(v) ~> vault[v].status = "Closed")
    BY DEF FairSpec, VaultEventuallyCloses
  <1>1. FundsInv /\ Closable(v) /\ CloseRule(v) => ENABLED <<CloseVault(v)>>_vars
    BY ClosableIsEnabled
  <1>2. FundsInv /\ Closable(v) /\ [Next]_vars
           => Closable(v)' \/ (vault[v].status = "Closed")'
    BY ClosableUntilClosed
  <1>3. FundsInv /\ Active(v) /\ [Next]_vars => Active(v)' \/ (vault[v].status = "Closed")'
    BY ActiveUntilClosed
  <1>4. FundsInv /\ <<CloseVault(v)>>_vars => (vault[v].status = "Closed")'
    BY ClosingCloses
  <1>5. Active(v) /\ now >= vault[v].cliff_ts => Closable(v)
    BY DEF Closable
  <1> QED
    BY <1>1, <1>2, <1>3, <1>4, <1>5, FundsInvariant, PTL
       DEF Spec, KeepsClosing, CliffPasses

================================================================================
