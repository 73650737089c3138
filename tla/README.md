# Gecko Vault in TLA+

Specifications of the `gecko-vault` Solana program (`programs/gecko-vault` of the
repository): the campaign vaults in which a sponsor locks stablecoins, the squads of
creators that are paid from them, the confidence pools in which the community stakes on
a campaign, and the config and reputations the program keeps beside them. TLC checks the
specifications on small instances; TLAPS proves the central results for every value of the constants.

## 1. The system

The program is one Anchor crate. Every account it owns is a PDA found from its seeds,
every token balance is an SPL token account, and each of its 19 instructions is a
transaction that either takes all of its effects or none. There are no threads and no
callbacks into the program. What makes it hard is that four parties act on the same
accounts without coordination, in whatever order the cluster executes them:

| actor | signs | constraint in the code |
|-------|-------|------------------------|
| sponsor | `init_vault`, `init_and_deposit`, `deposit`, `add_creator`, `remove_creator`, `create_milestone`, `open_pool`, `close_vault` | `has_one = sponsor`, or the seeds |
| automation relayer | `route_yield`, `create_milestone_by_automation`, `release_milestone` | `config.automation_authority` |
| oracle | `update_score`, `update_reputation`, `settle_pool` | `config.oracle_authority` |
| bettors | `stake`, `claim_winnings` | the `BettorPda` seeds |
| anyone | plain SPL transfers into a vault's or a pool's token account | none: they bypass the program |
| admin | `init_config`, `migrate_config`, `repair_config` | first caller at deployment, then the authority stored in the account |

### Components, state, operations

| component | state | operations | what makes it correct |
|-----------|-------|------------|-----------------------|
| Campaign vault (`sponsor_vault.rs`) | `status`, `principal`, `cliff_ts`, `end_ts`, the fee rate, two squad counters, `total_yield_routed`; the `vault_token` balance | `init_vault`, `init_and_deposit`, `deposit`, `close_vault` | the balance covers the principal; nothing leaves for the sponsor before the cliff; everything leaves at the close, once, and closing never becomes impossible |
| Squad and scores (`squad_member.rs`, `squad_score.rs`) | per (vault, creator): `allocation_bps`, `total_received`; an engagement score | `add_creator`, `remove_creator`, `update_score` | the vault's counters agree with the member accounts through every sequence of adds and removals |
| Milestones (`performance_milestone.rs`) | per (vault, index): threshold, payout bps, target, Pending or Released | `create_milestone`, `create_milestone_by_automation`, `release_milestone` | a milestone pays at most once, from the principal, and lowers balance and principal together |
| Yield routing (`route_yield.rs`) | none of its own: the vault's surplus over principal | `route_yield` | yield never dips into principal; fee and shares together are what was routed; rounding favours creators |
| Confidence pool (`confidence_pool.rs`, `bettor_pda.rs`) | totals per side, status, outcome; a position per bettor; the pool's token balance | `open_pool`, `stake`, `settle_pool`, `claim_winnings` | totals equal the positions; solvent in every order of claims; settlement final; winners get paid |
| Protocol config (`gecko_config.rs`) | authorities, treasury, fee rate, mints, in two historic byte layouts | `init_config`, `migrate_config`, `repair_config` | readable, and saying what was configured, after every upgrade path |
| Reputation (`reputation_account.rs`) | per creator: score, campaigns, yield | `update_reputation` | shows the oracle's latest report in the end, although nothing orders the updates |

Interactions: `route_yield`, `release_milestone`, `create_milestone_by_automation`,
`update_score`, `update_reputation`, `settle_pool` and the two instructions that create a
vault read the config. `add_creator` and `remove_creator` keep the vault's counters beside the
member accounts; `route_yield` is open only while they sum to 10 000. `release_milestone` joins
three accounts: the vault's principal, the milestone's terms, and a score that the oracle
writes at any time, also for creators already removed. `open_pool` reads the vault's status;
after that the pool never looks at the vault again.

### The hard behaviours

* Interleaving: yield is routed from a balance that deposits, donations, bonuses and other
  routings move between the relayer's computation and its execution; stakes race settlement;
  closing races everything.
* Long legal sequences: add/remove/add of one creator, closing with members left, milestones
  created by two parties for one index.
* Retries: automation, oracle and bettors resend what they believe lost. Milestones, claims and
  settlements must be idempotent; `route_yield` is not.
* Arithmetic: every payout is a rounded-down quotient of a checked u64 product. Rounding
  accumulates over calls; a product that overflows makes the instruction fail.
* Upgrades: a config written by an older build is migrated byte by byte, and is unreadable until
  a second instruction repairs it. Some instructions need it and some do not.
* Overwrites: the oracle's reputation updates carry absolute totals and no sequence number.

## 2. Modules

| module | models | proofs |
|--------|--------|--------|
| `GeckoMath` | basis points and checked u64 arithmetic (`constants.rs`) | `GeckoMath_proofs`, which also has the facts about sums |
| `CampaignVault` | the eleven instructions on vaults, squads, scores, milestones, yield | `CampaignVault_proofs` (types), `CampaignVaultFunds_proofs` (money), `CampaignVaultSteps_proofs` (action properties, refinement), `CampaignVaultBooks_proofs` (sums) |
| `CampaignEscrow` | abstract: what a vault promises, as two pots per campaign | `CampaignVaultSteps_proofs` |
| `CampaignVaultProps` | properties of `CampaignVault`, and the `INSTANCE` of the escrow | |
| `ConfidencePool` | the four pool instructions, with the campaign as environment | `ConfidencePool_proofs` |
| `ConfidencePoolProps` | properties of `ConfidencePool` | |
| `ProtocolConfig` | the bytes of the config account under both builds, and the three instructions that write them | `ProtocolConfig_proofs` |
| `ConfigRecord` | abstract: what readers of the config are promised, without bytes | `ProtocolConfig_proofs` |
| `ProtocolConfigProps` | properties of `ProtocolConfig`, and the `INSTANCE` of the record | |
| `Reputation` | `update_reputation`, and the oracle that signs the updates | |
| `GeckoProgram` | the composition: all 19 instructions under one clock, eight of them gated by the config | `GeckoProgram_proofs` |
| `GeckoProgramProps` | what the components guarantee together | |
| `MCCampaignVault`, `MCConfidencePool`, `MCProtocolConfig`, `MCGeckoProgram` | instances for TLC | |

`X EXTENDS GeckoMath`; `XProps EXTENDS X`; `MCX EXTENDS XProps`; a proof module extends the `Props`
module of its component, and those of the vault form the chain `CampaignVaultBooks_proofs` →
`CampaignVaultSteps_proofs` → `CampaignVaultFunds_proofs` → `CampaignVault_proofs`. `GeckoProgram_proofs`
also instantiates the proof modules of the vaults, of the pool and of the config. `GeckoProgram`
instantiates `ProtocolConfig`, `CampaignVault`, `ConfidencePool` and `Reputation` over its own
variables: each of its actions is an action of one component, the condition its account constraints
put on another, and `UNCHANGED` for the rest.

### How state and actions correspond to the code

* An account that may not exist is a record with `open = FALSE`, or with status `"none"`. Accounts
  are functions of the keys in their PDA seeds, so the seed constraints hold by indexing:
  `member[v][c]` is the `SquadMember` at `[member, v, c]`.
* Each instruction is one action of the same name. Its guard collects every `require!`, account
  constraint, `checked_*` operation and SPL failure (an `init` of an account that exists, a transfer
  larger than the balance); an instruction that would return an error is not a step, because the
  runtime reverts it whole. `XAllowed` operators hold a guard that a property or a variant needs too.
* `init_and_deposit`, `create_milestone` and `create_milestone_by_automation` share the guards they
  share in the code. The program stores the fee rate in each vault but charges
  `config.fee_bps`; `CampaignVault` charges the constant `FEE_BPS`, and `FeeAsRecorded` checks in the
  composition that the two are always the same.
* `balance` covers vault token accounts, wallets and the treasury, for the one mint the vaults are
  created with. The signer is named in each action's comment: keys are distinct by construction,
  and no property is about a wrong signer.
* The config account is its size, its first three keys and its data from byte 104 on. From there the
  boundaries of the old and the current layout cut the bytes into cells of 7 and 25 bytes in turn; a
  cell holds zeros, a header (`fee_bps`, `bump`, mint count) or one end of a key. A write copies cells; a
  reader gets a key only if both ends of one key lie where its layout has them. That is enough to
  tell a moved field from a field in place, and is what `migrate_config` gets wrong. Two facts about
  bytes are assumed: seven bytes of a key are not taken for a header, whose count would have to be at
  most five, and neither are zeros, whose bump is not the canonical one.
* `build` is the deployed program. An older build has the old layout and is replaced once, by `Upgrade`, or
  never. In the composition it can create, fund and close vaults; it has no pools, scores or
  milestones. The size of an old account is the current struct without `oracle_authority`, 271 bytes,
  which is the size `migrate_config` names.
* The eight instructions that decode the config have `C!Readable` as a conjunct. Which key must have
  signed is not: as elsewhere, no property is about a wrong signer. The mint of the vaults must be among
  `AllowedMints` when one is created. The pool reads the vault's status only in `OpenPool`.
* `submitted[c]` is the oracle's list of signed updates for creator `c`. `UpdateReputation` executes any of
  them, at any time, any number of times: late, repeated, reordered and lost updates are all covered.
* `ExternalTransfer` is the environment: yield arrives by plain token transfers ("Phase 1" in the
  repository), and anyone may send tokens. `Tick` advances the clock.
* Left out, as no instruction reads it: `campaign_id` beyond its role as a seed, `bump`s, the
  milestone's `description`, `created_at`/`updated_at`/`released_at` stamps, `approval_rate`,
  `on_time_delivery`, `campaigns_completed`. Error codes and log messages are left out.
* Operators whose names begin with `Bug` are deliberately wrong variants of the definition
  that follows them. They are used by no specification; substituting one for the definition must make
  a named property fail, which shows that the property constrains it.

## 3. Properties and runs

Run any of them in this directory with `tlc -config <Run>.cfg MC<Module>.tla`.

| cfg | instance | properties |
|-----|----------|------------|
| `VaultFunds` | one vault, one creator, two milestones, amounts {0, 49, 100}, clock to 2, `MAX_U64` = 10^6, `FairSpec` | `TypeOK`, `PrincipalCovered`, `ClosedIsFinal`, `MilestonePaysOnce`, `VaultEventuallyCloses` |
| `VaultSquad` | one vault, three creators, `MAX_U8` = 2, allocations {0, 2500, 5000, 10000, 10001}, symmetric creators | `SquadBooks`, `YieldBooks`, `YieldComesFromOutside` |
| `VaultPair` | two vaults of one sponsor, cliffs 1 or 2 | `NothingLeftBehind`, `FeeWithinRate`, `EscrowSpec` |
| `PoolPayout` | four bettors, `MAX_U32` = 3, stakes {2, 3, 7}, `MAX_U64` = 80, `FairSpec` | `TypeOK`, `StakesMatch`, `PoolSolvent`, `WinnersNeverLose`, `DustBounded`, `PotConserved`, `OnlyWidthStopsAClaim`, `SettlementIsFinal`, `WinnersGetPaid` |
| `ConfigLayouts` | two keys in every role, mint lists of 0 to 6 alternating between two mints, both builds, `FairSpec` | `TypeOK`, `RecordSpec`, `ConfigRecovers` |
| `Program` | one vault, one creator, one milestone, one bettor and one donor to the pool, both builds, two reputation reports, scores {60, 101}, `FairSpec` | `FeeAsRecorded`, `FundsNeverFrozen`, `PoolEventuallySettled`, `ReputationCatchesUp`, `FundsArePaidOut`, `PoolSpec` |

What they show, in the terms of the code:

* `PrincipalCovered`: the floor in `route_yield.rs` and the double decrement in
  `release_milestone.rs` keep `vault_token.amount >= principal` in every interleaving.
* `MilestonePaysOnce`: outside `close_vault` the principal falls only when exactly such a
  milestone goes from Pending to Released, whose terms have not changed since it was created.
* `ClosedIsFinal`, `NothingLeftBehind`: the vault account survives `close_vault`; no later
  instruction changes it, its members or its milestones, and no token stays or arrives.
* `SquadBooks`: the denormalised counters are the cardinality and the sum over open members. With a member
  limit that three creators can reach it also shows that `member_count` never wraps: an addition at the limit is
  refused.
* `YieldBooks`, `FeeWithinRate`: per-call rounding, over several calls, members and removals, never
  credits more than was routed nor gives the treasury more than its rate.
* `YieldComesFromOutside`: what was routed and what can still be routed is what donors sent, so that a
  relayer's repeated `route_yield`, which the program executes as another routing, is on the books and is
  paid from yield that arrived.
* `EscrowSpec`: the vaults implement `CampaignEscrow`. The mapping sends principal to the locked
  pot and *balance minus principal* to the surplus pot, so that every instruction must move two
  numbers consistently for the step to be one the escrow allows.
* `PoolSolvent`: after settlement the pool holds at least the sum of all outstanding payouts.
  `WinnersNeverLose` and `DustBounded` bound the payouts from both sides. `SettlementIsFinal`:
  no stake, second settlement or claim changes what payouts are computed from.
  `PotConserved`: tokens leave the pool for winners alone, so a pot that nobody won stays there whole.
  `OnlyWidthStopsAClaim`: a winner who was not paid can claim if and only if `stake * full_pool` fits a u64,
  so that the overflow of `PoolOverflow` in section 4 is the one way in which a settled pool fails a winner.
* `RecordSpec`: the config's bytes implement `ConfigRecord`. Through any sequence of creation, upgrade,
  migrations and repairs a reader is given the standard fee, one submitted oracle and at most five
  whole mints, or cannot decode the account; authority, treasury and automation key never change; and a
  config that can be read stays so, also when `migrate_config` is run again on it.
* `ConfigRecovers`: `repair_config` on an account that was not migrated is out of range and fails, and
  `migrate_config` alone does not help, but retrying both ends with a readable config, for good.
* `FeeAsRecorded`: the rate a vault recorded is the rate it is charged, across upgrade and repair.
  It holds because every writer uses `DEFAULT_FEE_BPS`; a repair with another rate would break it.
* `FundsNeverFrozen`: no state of the config stops a close after the cliff or a claim.
* `ReputationCatchesUp`: nothing orders the updates, so one that is executed late, or again, undoes a newer one and
  lowers the totals, and none is executed while the config cannot be read. Still the account comes to show the
  oracle's latest report, or the program refuses that report for its score, once the administrator
  migrates and repairs and the oracle goes on sending the latest.
* `PoolSpec`: the composed program implements `ConfidencePool`, whose campaign closes at most once.
* `FundsArePaidOut`: every vault that was opened is closed, and every winner whose payout fits is paid, as soon
  as they keep asking, also in the behaviours in which the config stays unreadable for ever.
* `PoolEventuallySettled`: stakes are accepted while the config cannot be read and settlement is refused, so the
  pool needs an administrator and an oracle who keep trying; with them it is settled.
* `VaultEventuallyCloses`, `WinnersGetPaid`, `ConfigRecovers`: the components' own liveness, below.

### Bounds, and why they are enough

Two creators suffice to see a payment to the wrong one, and three against a limit of two to see the
member count at its maximum. Two vaults share the sponsor's wallet and the treasury, which is all
that vaults share. The amounts are chosen for rounding: at 200 bps the fee of 49 is 0 and of 100 is
2; 149 funds one of each. `MAX_U64` is small enough that the product `principal * payout_bps`, or
`stake * full_pool`, exceeds it in reachable states while the quotient still fits; `MAX_U8` and
`MAX_U32` are at or below the number of creators and bettors in the instances of `VaultSquad` and `PoolPayout`. `MAX_I64` bounds the clock at
one second past the first cliff (in `Program`, at the cliff). Amounts, durations and allocations include values just outside what
the guards allow. The finite funds bound everything else. `ConfigLayouts` has mint lists of every
length up to one too long, and lists with two mints in alternation, so that a mint in the wrong slot, or one
shifted by a layout, is seen. `Program` is
the smallest instance in which every action of every component fires (about 74 000 states); it is for
what crosses components, and the components' own runs have the larger bounds. The theorems of section 5 hold without any
of these bounds.

`CHECK_DEADLOCK FALSE` is set in every configuration because the instances really can stop: once the
clock is at its bound, the funds are spent and the vaults are closed (or the winners paid) no
transaction can succeed, which is a normal end and not an error.

### Fairness

`CampaignVault!FairSpec` assumes that time passes, `WF(Tick)`, and that a sponsor who wants the
funds back resubmits `close_vault` until it is executed, `WF(CloseVault(v))`; nobody else must act.
Weak fairness is what a retrying client has: `close_vault` needs no other party, and once the cliff
has passed nothing disables it, whatever the others do. That is what the run confirms. The pool's
`FairSpec` has `WF(ClaimWinnings(b))` for each bettor, for the same reason; settlement is not assumed.

`ProtocolConfig!FairSpec` has weak fairness of `migrate_config` and of `repair_config`: an administrator who
sees a config that does not work submits each until it is executed (`scripts/repair-devnet.ts` is such a
submission). It is fairness of each instruction as a whole, over the signers, since only the key stored in the
account may sign. The upgrade itself is not assumed to happen; the property speaks of the time after it.

`GeckoProgram!FairSpec` assumes only that time passes and that sponsors and bettors ask for what is theirs. Nobody
has to look after the config, which is the point of `FundsArePaidOut`. `PoolEventuallySettled` needs more, and
says so itself: its hypotheses `KeepsMigrating`, `KeepsRepairing` and `KeepsSettling` are the administrator's
and the oracle's fairness. Settlement is disabled while the config cannot be read, and weak fairness of it
suffices because `RecordSpec` keeps a readable config readable. `ReputationCatchesUp` has `KeepsMigrating`,
`KeepsRepairing` and `KeepsReporting(c)`: an oracle that resends the latest report it signed for `c`,
whichever that is by then. What it sent before may be executed at any time and any number of times.

## 4. Where the code and its documentation disagree

Each of these runs checks a statement quoted from the repository and ends in a counterexample.

| cfg | statement | what happens |
|-----|-----------|--------------|
| `ReaddCreator` | freed bps can be re-assigned with `add_creator` (`remove_creator.rs`, and the tests re-add a removed creator) | the `SquadScore` account of the removed creator still exists, so `init` fails: a removed creator can never return |
| `BonusTarget` | the payout goes to the milestone's target creator (`release_milestone.rs`) | `target_creator` is never compared with the score's creator |
| `OrphanMember` | members left at the close can be closed by hand (`close_vault.rs`) | `remove_creator` needs an Active vault and refuses the last member: their rent stays locked |
| `PoolOverflow` | after settlement winners can claim (`settle_pool.rs`) | `stake * full_pool` is a u64 product; past 2^64 the claim fails for good |
| `MigrateAlone` | migration brings a config "to the current layout" (`migrate_config.rs`) | the oracle's key is written over the old fee, bump and mint count, and nothing is moved: the account has the current size and cannot be decoded |
| `EarlySettlement` | settlement follows `end_ts` (`settle_pool.rs`, `confidence_pool.rs`) | neither the clock nor `end_ts` is looked at |

One more disagreement is on the record without a run of its own. `docs/PRD.md:166` says "Max creators per vault |
Unlimited" and `squad_member.rs:6` "Each vault can have unlimited members", but `member_count` is a `u8` that
`add_creator.rs:58` raises with `checked_add`: a 256th creator is refused with `Overflow`. `AddCreatorAllowed`
has this guard, `SquadBooks` checks the count on an instance where it bites (`VaultSquad`, limit 2), and the
theorems `TypeCorrect` and `CountersCountTheSquad` together say that no vault ever has more than `MAX_U8` members.

## 5. Theorems

All in the modules ending in `_proofs`, checked by tlapm (SMT with Z3, Zenon, LS4 for the temporal
steps). They assume the named assumptions of the modules only: for the vaults, disjoint finite sets of vaults and
wallets, a fee rate up to 10 000 bps, natural bounds, submitted amounts that are u64 values; for the
pool and the config the like, and a default key that is nobody's. Three theorems on yield have a further
hypothesis, given with them; `ProgramKeepsYield` has both of these. The liveness theorems and `NobodyIsFrozen` have the rule
of `ENABLED`, and some have the clock, as hypotheses, explained with them.

### Vaults

* `TypeCorrect`: `Spec => []TypeOK`. One lemma per instruction; `TypeOK` is inductive as it stands,
  because each guard establishes the width of what the instruction writes.
  `BpsOfBounds` (a basis-point share is a natural number not exceeding the amount) carries the
  division, in `GeckoMath_proofs`.
* `PrincipalIsCovered`, `NoTokensLeftBehind`: `Spec => []PrincipalCovered` and
  `Spec => []NothingLeftBehind`. Neither is inductive alone. An `init_and_deposit` on a vault that
  already held tokens, or a close of a vault with an uncovered principal, would break one from a state
  that satisfies the other. The inductive invariant is
  `FundsInv == TypeOK /\ PrincipalCovered /\ NothingLeftBehind /\ BlankBeforeInit`. The argument has
  two parts. For each instruction, an `...Effect` lemma computes what it does to the money:
  `Effect(v, status, cliff, principal, routed, bal)` gives the values vault `v` ends with and that no
  other vault or its tokens changed. `EffectKeeps` then says once that an effect keeps `FundsInv` if its
  end values satisfy it. That no vault's token account is a wallet is where `Vaults \cap Wallets = {}` is
  needed.
* `ImplementsEscrow`: `Spec => EscrowSpec`. `Pots` turns an effect into a change of each pot at `v`
  alone; each kind of effect is then one escrow action, and squad, score and milestone creation
  are stutters. `FundsInv` is needed for accruing (the surplus must be a natural number) and for opening
  (a new vault starts from empty pots and nothing routed).
* `ClosedForGood`, `MilestonesPayOnce`: `Spec => ClosedIsFinal` and `Spec => MilestonePaysOnce`, from
  `FundsInv`. Each instruction on vault `v` leaves every other vault alone and either needs `v` to be Active
  or writes its score only. `BpsOfBounds` and the guard that a payout is positive make a release the one step
  that lowers the principal.
* `CountersCountTheSquad`: `Spec => []SquadBooks`. It allows an account that is not open to
  be part of the sum, and an `add_creator` that overwrites such a leftover allocation would break it. `SquadInv`
  adds the types and that a member which is not open, and a vault which does not exist, is blank. `SumChange`
  then gives the new sum when one allocation changes.
* `RoutedCoversCredited`, `FeesStayWithinRate`: `TreasuryApart` implies `Spec => []YieldBooks` and
  `Spec => []FeeWithinRate`. `TreasuryApart` says that the treasury's token account is not that of a creator or a
  sponsor. The properties read the treasury's balance as the fees it collected, which is wrong of an account that
  is also paid as a member. `YieldInv` writes both down as one statement about totals over all
  vaults, with `FundsInv`. A step enters this proof only as `Routes(n, k)`: it routes `n` in all,
  the treasury gets at most `k`, within its rate of `n`, and the members at most `n - k`. `route_yield` is
  `Routes(amount, fee)`, and every other instruction is `Routes(0, 0)`. So rounding is looked at once, in
  `RouteRoutes`: `fee * 10 000 <= FEE_BPS * amount`.
* `YieldIsFromOutside`: `DonorsApart` implies `Spec => []YieldComesFromOutside`. `DonorsApart` says that a
  donor neither sponsors a vault nor is paid by one, so that what the donors lack is what they sent. `OutsideInv` is
  the property over named sums, with `FundsInv`: the surplus is a natural number only while the principal is
  covered. A step is `Brings(n, m)`: donors send `m`, and the yield of all vaults grows by `n <= m`,
  less than `m` (it may fall) only in a step that leaves a vault closed. That a routing moves yield from
  routable to routed and brings nothing is what makes a repeated one harmless.

### Pool

* `PoolTypeCorrect`, `SettlementStands`: `Spec => []TypeOK` and `Spec => SettlementIsFinal` of the pool.
* `BackingTheOutcomeNeverCosts`: `Spec => []WinnersNeverLose`. The property relates a bettor's balance after
  a claim to the funds before the stake, and is not inductive: it says nothing of a bettor
  who has not claimed, and nothing of the totals. `PurseInv` adds that every open position is counted in
  its side's total (`StakesCounted`), and that a bettor's purse is the initial funds less the stake
  before the claim, and that plus the winnings after it (`PursesAddUp`). `ShareBounds` is the arithmetic: a share
  `s * (w + l) \div w` of a stake `s <= w` lies between `s` and `s + l`.
* `TotalsAreTheStakes`, `PotIsConserved`: `Spec => []StakesMatch` and `Spec => []PotConserved`. They are proved
  together with `PurseInv`, as `PotInv == PurseInv /\ StakesMatch /\ PotConserved /\ DonorsGive`. A
  stake keeps the totals because its bettor was on no side; a claim keeps the pot's equation because
  settlement froze the terms that every payout is computed from; `DonorsGive` (no donor gains) keeps donations a
  natural number.
* `NoWinnerIsShortPaid`, `DustIsBounded`: `Spec => []PoolSolvent` and `Spec => []DustBounded`. By `PotInv` the pool
  holds the pot and the donations less the payouts made. What is left is arithmetic on sums: with
  `StakesMatch`, the rounded shares of all winners together are at most the pot, and miss it by less than one
  unit for each winner.
* `OnlyOverflowStopsAWinner`: `Spec => []OnlyWidthStopsAClaim`. From `PoolSolvent`, since one unpaid winner's
  payout is at most the sum of all of them, and from `StakesMatch`, since a winner's side is not empty.

### Config, reputation, and the whole program

* `ImplementsRecord`: `Spec => RecordSpec`. The invariant `ConfigInv` says that either the cell where the current
  struct has its header holds none, or the account was written whole: every slot up to the count holds both
  ends of one mint. So an account that can be read was written whole.
  `TermsWritten` computes the cells a write of the header and the mints leaves, and `WrittenIsRead` that
  reading them gives those mints back; the offsets are evaluated, not abstract.
* `ConfigTypeCorrect`: `Spec => []TypeOK` of the config. `CellSlot` places each cell in the slot that covers it, so that
  `TermsFit` can say that what is written for the mints lies within the account under either layout.
* `ImplementsVaults`, `ImplementsPool`: `Spec => V!Spec` and `Spec => PoolSpec` of the composed program. The first is step
  by step, since gating only restricts a vault's actions; with it, every safety theorem on `CampaignVault` holds of the
  program. The second needs that every step takes the campaign's vault from none to Active, from Active to
  Closed, or leaves its status alone, so that the pool sees `CampaignCloses` or a stutter; its
  invariant `HasStatus` gives the vault the shape this is said about.
* `RateNeverMoves`: `Spec => []FeeAsRecorded`, on the composition. `RateInv` is stronger in two ways: it speaks of
  every header in the config's data, also the leftovers that another build or a later migration might
  read, and of the rate itself rather than of agreement.
* `ProgramKeepsVaults`, `ProgramKeepsYield`, `ProgramKeepsPool`, `ProgramKeepsConfig`: what is proved of the
  components alone, the two refinements of abstract specifications included, holds of the composed
  program. `GeckoProgram_proofs` instantiates the components' proof modules with the program's own variables (`VT`,
  `PT`, `CT`). The program's assumption gives theirs (`VaultTheoremsApply`, `PoolTheoremsApply`,
  `ConfigTheoremsApply`), `SameVaults`, `SamePool` and `SameConfig` identify the two instances of each specification
  definition by definition, and `ImplementsVaults`, `ImplementsPool` and `ConfigSpec` do the rest.

### What happens in time

A liveness theorem here is the rule for weak fairness, `WF1`, spelled out: a state `P` from which something
is due is kept by every step until it has happened, `P` makes the action possible, and the action makes it
happen. All three are proved from the inductive invariants; LS4 draws the conclusion. To the provers `ENABLED` is an
operator whose argument they can expand but of which they know no rule. The rule is therefore a hypothesis,
and it is stated so that it assumes nothing of the program:

* `CloseWritten`, `ClaimWritten`, `MigrateWritten`, `RepairWritten`, `SettleWritten` and `ReportWritten` write an
  instruction out as a guard and the next value of *every* variable. `CloseRule` and the others say of
  that formula: where the guard holds and some value differs, it is `ENABLED`. This is a law of the logic for
  any action of that form, whatever the program does.
* Three things are then proved. The guard holds, and a value differs: no history of squads, routings,
  claims, upgrades or repairs makes a guard fail for good (`ClosingIsEnabled`, `MayMigrate`, `MayRepair` and so on).
  And the instruction *is* the action written out, by expanding both. The last is what ties the theorem to the
  instruction: with a `close_vault` that also reads the config (`BugCloseReadsConfig`), `CloseVault` is no longer
  the action `CloseWritten`, and tlapm refuses `ClosingIsEnabled` and with it `NobodyIsFrozen`.

The second kind of hypothesis is `CliffPasses(v)`: the clock passes the cliff of an opened vault. It follows from
`TimePasses` by an induction over the clock, an induction over data with a temporal formula. TLC confirms it
as a temporal property on the instances of `VaultFunds` and `Program`.

* `VaultsAreClosed`: `FairSpec` gives `VaultEventuallyCloses`. That an active vault stays active with the same
  cliff until it is closed is read off the escrow it implements (`EscrowKeepsDue`), which has few actions and
  promises just that; implementing it is where `FundsInv` is needed.
* `WinnersArePaid`: `FairSpec` gives `WinnersGetPaid`. After settlement neither the totals nor a position
  change but by the winner's own claim, and `PotInv` makes the pool solvent for it.
* `ConfigIsRecovered`: `FairSpec` gives `ConfigRecovers`. Its phases are an account not migrated, one migrated and
  not repaired, and one that can be read; each is left for the next by one instruction only, and the last
  is never left, although `migrate_config` may run again in it. That there is a list of mints to repair with
  is an invariant (`SomeList`): the account was created with one.
* `ProgramRecoversConfig`, `PoolIsSettled`: the same in the composition, and from it `PoolEventuallySettled`. That an
  open pool has a config at all, so that there is one to recover, is an invariant of its own,
  `ConfigBehindPool`: creating a vault reads the config, and a pool is opened for an existing vault.
* `ReputationsCatchUp`: `Spec` gives `ReputationCatchesUp`, with `ProgramRecoversConfig` for the config. Signed
  reports are never taken back (`ReportStep`), and where the account does not show the latest, and its score is not
  refused, executing it is possible and changes something, whatever late reports were executed in between.
* `NobodyIsFrozen`: `Spec => []FundsNeverFrozen`. That a close after the cliff and a claim of an owed
  payout are enabled is proved from the two actions written out, in which no config occurs. A claim needs more than its
  own terms: that a settled pool always holds an unpaid winner's payout is `PotInv` again.
* `ProgramPaysOut`: `FairSpec` gives `FundsArePaidOut`, by `NobodyIsFrozen`. What is due stays due until it is
  paid, in all 19 instructions and under every config.

### Sums over finite sets

`SquadBooks`, `YieldBooks`, `FeeWithinRate`, `YieldComesFromOutside`, `StakesMatch`, `PoolSolvent`, `DustBounded` and
`PotConserved` are about sums, which the community modules define by a fold over a finite set. The library states
induction over finite sets with an operator as a parameter, which the installed provers cannot
instantiate. `GeckoMath_proofs` replaces the operator by a *set*: strict inclusion is well-founded
on the subsets of a finite set, so that a set of such subsets which has every subset whose proper subsets it
has is all of them; "the sum over `T` is a natural number", say, is used as the set of the `T` for which
it is true. `SumUnfolds` gives the recursion of the fold, and from it follow the lemmas that the proofs cite: one element
removed or added (`SumRemove`, `SumAdd`), one value changed (`SumChange`), two disjoint sets (`SumUnion`),
comparison term by term (`SumMonotone`, `SumEqual`), and a term against the sum (`SumBound`).

### What is only model-checked

Every property that a passing run checks is stated by a theorem. What stays with TLC is `CliffPasses`, the induction
over the clock; the rule of `ENABLED` is a law of the logic and TLC evaluates `ENABLED` itself. The
runs `VaultFunds`, `PoolPayout`, `ConfigLayouts` and `Program` check the conclusions without assuming them. TLC
also checked the inductive invariants `SquadInv`, `YieldInv`, `OutsideInv` and `PotInv` on the instances of
`VaultSquad`, `VaultPair`, `VaultFunds` and `PoolPayout` before they were proved; `MCCampaignVault` has TLC confirm
on every instance that the two hypotheses on wallets hold.

## 6. Not modelled, and what is left

Every instruction of the program is an action, and every component with state of its own is
modelled. Left out for good: the scripts and TypeScript tests (clients without state of their own),
Anchor's account machinery (rent, bumps, discriminators), error codes and log messages, and signer
checks.

Gaps of the model that are deliberate: the vault PDA itself is never added as a creator, and
creators' token accounts always exist; the mint of a pool, which the code does not tie to its vault's, is a
token of its own; vaults are created with one mint; an older build is known only by what it leaves
behind.

What could still be done: a larger `Program` instance with two vaults, which exceeds a few minutes of TLC; and,
with a prover that has the rule of `ENABLED` and inducts over temporal formulas, the liveness theorems without their
hypotheses.
