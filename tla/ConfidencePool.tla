---------------------------- MODULE ConfidencePool -----------------------------
(***************************************************************************)
(* The confidence pool of one campaign: community members stake tokens on  *)
(* whether the campaign succeeds, the oracle settles, and the winning side *)
(* shares the whole pot in proportion to its stakes.                       *)
(*                                                                         *)
(* The campaign itself is the environment here: its vault must be Active   *)
(* for the pool to be opened, has an end_ts, and may close at any time.    *)
(* Every instruction is atomic; position[b] is the BettorPda at            *)
(* [bettor, pool, b], and PoolToken is the pool's own token account.       *)
(***************************************************************************)
EXTENDS GeckoMath, Functions, FiniteSets

CONSTANTS
    Bettors,        \* wallets that stake
    Donors,         \* wallets that send tokens straight to the pool
    PoolToken,      \* the pool_token account
    InitialFunds,   \* tokens in each wallet at the start
    Stakes,         \* amounts bettors submit
    END_TS,         \* vault.end_ts of the campaign
    MAX_I64,        \* the last second of the modelled clock
    MAX_U32         \* u32::MAX: the limit of bettor_count

ASSUME PoolAssumption ==
    /\ IsFiniteSet(Bettors) /\ IsFiniteSet(Donors)
    /\ Bettors \cap Donors = {}
    /\ PoolToken \notin Bettors \cup Donors
    /\ InitialFunds \in [Bettors \cup Donors -> Nat]
    /\ Stakes \subseteq U64
    /\ END_TS \in Nat /\ MAX_I64 \in Nat /\ MAX_U32 \in Nat

VARIABLES
    now,        \* Clock::unix_timestamp
    campaign,   \* status of the campaign's vault
    pool,       \* the ConfidencePool account
    position,   \* BettorPda accounts
    balance     \* SPL token accounts

vars == <<now, campaign, pool, position, balance>>

--------------------------------------------------------------------------------

TokenAccounts == Bettors \cup Donors \cup {PoolToken}

Sides == {"YES", "NO"}

PoolAccount ==
    [status : {"none", "Open", "Settled"}, yes_amount : U64, no_amount : U64,
     bettor_count : 0..MAX_U32, outcome : Sides \cup {"None"}, settled_at : 0..MAX_I64]

BettorPda == [open : BOOLEAN, side : Sides, amount : U64, claimed : BOOLEAN]

NoPool == [status |-> "none", yes_amount |-> 0, no_amount |-> 0,
           bettor_count |-> 0, outcome |-> "None", settled_at |-> 0]
NoPosition == [open |-> FALSE, side |-> "NO", amount |-> 0, claimed |-> FALSE]

Transfer(bal, from, to, n) == [bal EXCEPT ![from] = @ - n, ![to] = @ + n]

SideTotal(side) == IF side = "YES" THEN pool.yes_amount ELSE pool.no_amount

FullPool == pool.yes_amount + pool.no_amount

Init ==
    /\ now = 0
    /\ campaign = "Active"
    /\ pool = NoPool
    /\ position = [b \in Bettors |-> NoPosition]
    /\ balance = [a \in TokenAccounts |-> IF a = PoolToken THEN 0 ELSE InitialFunds[a]]

--------------------------------------------------------------------------------
(* Instructions *)

\* Signed by the campaign's sponsor; the pool PDA can be created only once.
OpenPool ==
    /\ campaign = "Active"
    /\ pool.status = "none"
    /\ pool' = [NoPool EXCEPT !.status = "Open"]
    /\ UNCHANGED <<now, campaign, position, balance>>

BugStakeTwice(b, side, amount) ==   \* mutant: init_if_needed for init
    /\ amount > 0 /\ pool.status = "Open" /\ balance[b] >= amount
    /\ FitsU64(SideTotal(side) + amount) /\ pool.bettor_count + 1 <= MAX_U32

BugStakeUncounted(b, side, amount) ==   \* mutant: bettor_count wraps past u32
    /\ amount > 0 /\ pool.status = "Open" /\ ~position[b].open
    /\ balance[b] >= amount /\ FitsU64(SideTotal(side) + amount)

StakeAllowed(b, side, amount) ==
    /\ amount > 0
    /\ pool.status = "Open"
    /\ ~position[b].open
    /\ balance[b] >= amount
    /\ FitsU64(SideTotal(side) + amount)
    /\ pool.bettor_count + 1 <= MAX_U32

\* Signed by the bettor: one position per wallet, whatever the campaign's status
\* or end_ts.
Stake(b, side, amount) ==
    /\ StakeAllowed(b, side, amount)
    /\ balance' = Transfer(balance, b, PoolToken, amount)
    /\ pool' = [pool EXCEPT !.yes_amount = IF side = "YES" THEN @ + amount ELSE @,
                            !.no_amount = IF side = "NO" THEN @ + amount ELSE @,
                            !.bettor_count = @ + 1]
    /\ position' = [position EXCEPT ![b] =
                      [open |-> TRUE, side |-> side, amount |-> amount, claimed |-> FALSE]]
    /\ UNCHANGED <<now, campaign>>

BugSettleAgain == pool.status # "none"   \* mutant: the outcome can be replaced

SettleAllowed == pool.status = "Open"

\* Signed by config.oracle_authority; neither end_ts nor the vault's status counts.
SettlePool(outcome) ==
    /\ SettleAllowed
    /\ pool' = [pool EXCEPT !.status = "Settled", !.outcome = outcome, !.settled_at = now]
    /\ UNCHANGED <<now, campaign, position, balance>>

BugRoundUp(b) ==   \* mutant: payouts rounded up
    LET total == SideTotal(position[b].side)
    IN  (position[b].amount * FullPool + total - 1) \div total

BugDivideFirst(b) ==   \* mutant: divides before it multiplies
    (position[b].amount \div SideTotal(position[b].side)) * FullPool

BugLosersOnly(b) ==   \* mutant: the winner's own stake is not given back
    LET total == SideTotal(position[b].side)
    IN  (position[b].amount * (FullPool - total)) \div total

\* stake * full_pool / winning_total, rounded down.
Winnings(b) == (position[b].amount * FullPool) \div SideTotal(position[b].side)

\* The checked operations of the formula: the sum, the u64 product, the division.
WinningsFit(b) ==
    /\ FitsU64(FullPool)
    /\ FitsU64(position[b].amount * FullPool)
    /\ SideTotal(position[b].side) # 0

BugClaimWhileActive(b) ==   \* mutant: the campaign's status is checked
    /\ campaign = "Active" /\ pool.status = "Settled"
    /\ position[b].open /\ ~position[b].claimed /\ position[b].side = pool.outcome
    /\ WinningsFit(b) /\ balance[PoolToken] >= Winnings(b)

BugClaimAnySide(b) ==   \* mutant: the side is not compared with the outcome
    /\ pool.status = "Settled" /\ position[b].open /\ ~position[b].claimed
    /\ WinningsFit(b) /\ balance[PoolToken] >= Winnings(b)

ClaimAllowed(b) ==
    /\ pool.status = "Settled"
    /\ position[b].open
    /\ ~position[b].claimed
    /\ position[b].side = pool.outcome
    /\ WinningsFit(b)
    /\ balance[PoolToken] >= Winnings(b)

\* Signed by the bettor.
ClaimWinnings(b) ==
    /\ ClaimAllowed(b)
    /\ balance' = Transfer(balance, PoolToken, b, Winnings(b))
    /\ position' = [position EXCEPT ![b].claimed = TRUE]
    /\ UNCHANGED <<now, campaign, pool>>

--------------------------------------------------------------------------------
(* Environment *)

\* The sponsor closes the campaign's vault; the pool does not notice.
CampaignCloses ==
    /\ campaign = "Active"
    /\ campaign' = "Closed"
    /\ UNCHANGED <<now, pool, position, balance>>

\* Anyone may send tokens to the pool's token account without the program.
ExternalTransfer(d, amount) ==
    /\ pool.status # "none"
    /\ amount > 0
    /\ balance[d] >= amount
    /\ balance' = Transfer(balance, d, PoolToken, amount)
    /\ UNCHANGED <<now, campaign, pool, position>>

Tick ==
    /\ now < MAX_I64
    /\ now' = now + 1
    /\ UNCHANGED <<campaign, pool, position, balance>>

--------------------------------------------------------------------------------

Next ==
    \/ OpenPool
    \/ \E b \in Bettors, side \in Sides, amount \in Stakes : Stake(b, side, amount)
    \/ \E outcome \in Sides : SettlePool(outcome)
    \/ \E b \in Bettors : ClaimWinnings(b)
    \/ CampaignCloses
    \/ \E d \in Donors, amount \in Stakes : ExternalTransfer(d, amount)
    \/ Tick

Spec == Init /\ [][Next]_vars

\* A bettor who can claim eventually does; nobody else is assumed to act.
KeepsClaiming(b) == WF_vars(ClaimWinnings(b))

FairSpec == Spec /\ \A b \in Bettors : KeepsClaiming(b)
================================================================================
