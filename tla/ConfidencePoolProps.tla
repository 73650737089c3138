-------------------------- MODULE ConfidencePoolProps --------------------------
(***************************************************************************)
(* What ConfidencePool is meant to guarantee, and the statements of the    *)
(* repository that it does not keep.                                       *)
(***************************************************************************)
EXTENDS ConfidencePool

\* Bettors with a position on side, and among them those still to be paid.
On(side)     == {b \in Bettors : position[b].open /\ position[b].side = side}
Winners      == On(pool.outcome)
Unpaid       == {b \in Winners : ~position[b].claimed}
StakeOf      == [b \in Bettors |-> position[b].amount]
Settled      == pool.status = "Settled"

\* The pool and its positions stay well-typed, and no balance goes negative.
TypeOK ==
    /\ now \in 0..MAX_I64
    /\ campaign \in {"Active", "Closed"}
    /\ pool \in PoolAccount
    /\ position \in [Bettors -> BettorPda]
    /\ balance \in [TokenAccounts -> Nat]

\* The totals of a pool are the sums of the positions staked in it, through every
\* interleaving of stakes with settlement and claims.
StakesMatch ==
    /\ pool.yes_amount = SumFunctionOnSet(StakeOf, On("YES"))
    /\ pool.no_amount = SumFunctionOnSet(StakeOf, On("NO"))
    /\ pool.bettor_count = Cardinality(On("YES") \cup On("NO"))

\* In whatever order the winners claim, the pool can pay all those who have not:
\* rounding never lets an early claim eat into a later one.
PoolSolvent ==
    Settled => balance[PoolToken]
                  >= SumFunctionOnSet([b \in Bettors |-> Winnings(b)], Unpaid)

\* Nothing but the width of one product ever stops a winner who was not paid: the
\* pot, the sums and the other winners' claims leave the claim allowed.
OnlyWidthStopsAClaim ==
    Settled => \A b \in Unpaid :
       ClaimAllowed(b) <=> FitsU64(position[b].amount * FullPool)

\* A winner who has claimed ends with no less than before staking, and with no
\* more than the losing stakes on top: staking on the right side never costs.
WinnersNeverLose ==
    \A b \in Bettors : Settled /\ position[b].claimed =>
       balance[b] \in InitialFunds[b] ..
                      (InitialFunds[b] + FullPool - SideTotal(pool.outcome))

\* What rounding leaves in the pool after the last claim is less than one base
\* unit per winner, apart from tokens sent to it from outside.
DustBounded ==
    Settled /\ Winners # {} /\ Unpaid = {} =>
       balance[PoolToken] < Cardinality(Winners)
          + SumFunctionOnSet(InitialFunds, Donors) - SumFunctionOnSet(balance, Donors)

\* Tokens leave the pool for winners alone: what it holds is every stake and every
\* donation, less the payouts of the winners who claimed.  A pot nobody wins stays
\* there whole.
PotConserved ==
    balance[PoolToken] =
       FullPool + SumFunctionOnSet(InitialFunds, Donors) - SumFunctionOnSet(balance, Donors)
          - SumFunctionOnSet([b \in Bettors |-> Winnings(b)], Winners \ Unpaid)

\* Settlement is final: no stake joins a settled pool, the outcome and the totals
\* the payouts are computed from do not move, and no claim is undone.
SettlementIsFinal ==
    [][Settled =>
          /\ pool' = pool
          /\ \A b \in Bettors : \/ position'[b] = position[b]
                                \/ position[b].open /\ position'[b].claimed]_vars

\* Every winner of a pool whose payouts fit a u64 is eventually paid.
WinnersGetPaid ==
    \A b \in Bettors :
       Settled /\ b \in Winners /\ WinningsFit(b) ~> position[b].claimed

--------------------------------------------------------------------------------
(* Statements of the repository that the program does not keep *)

\* settle_pool.rs: "After settlement, winners can call claim_winnings to receive
\* their proportional share".
WinnersCanClaim == Settled => \A b \in Unpaid : ClaimAllowed(b)

\* confidence_pool.rs: "Oracle settles after campaign end_ts".
SettledAfterEnd == Settled => pool.settled_at >= END_TS
================================================================================
