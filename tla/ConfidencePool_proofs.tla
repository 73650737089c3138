------------------------- MODULE ConfidencePool_proofs -------------------------
(***************************************************************************)
(* Theorems about ConfidencePool for any number of bettors and donors, any *)
(* stakes and any integer width: types, the finality of settlement, the    *)
(* promise that backing the right side never costs, and the accounts of    *)
(* the pot: what it holds, what it owes, and what keeps a winner from it.  *)
(* And that winners who keep claiming are paid, from the fairness of       *)
(* FairSpec and from what ENABLED means for claim_winnings, which the      *)
(* provers do not know.                                                    *)
(***************************************************************************)
EXTENDS ConfidencePoolProps, GeckoMath_proofs

--------------------------------------------------------------------------------
(* Arithmetic and accounts *)

\* The share a * f \div t that a stake a of a side of t earns of a pot of f lies
\* between the stake and the stake plus what the other side put in.
LEMMA ShareBounds ==
    ASSUME NEW a \in Nat, NEW t \in Nat \ {0}, NEW k \in Nat, a <= t
    PROVE  (a * (t + k)) \div t \in a .. (a + k)
  <1> DEFINE q == (a * (t + k)) \div t
  <1>1. /\ a * (t + k) = a * t + a * k
        /\ a * t \in Nat /\ a * k \in Nat /\ t * k \in Nat /\ k * t = t * k
    OBVIOUS
  <1>2. q \in Nat /\ q * t <= a * (t + k) /\ a * (t + k) < q * t + t
    BY <1>1, DivFacts
  <1> HIDE DEF q
  <1>3. q * t \in Nat /\ (q + 1) * t = q * t + t
    BY <1>2
  <1>4. a <= q
    <2> SUFFICES ASSUME q + 1 <= a PROVE FALSE
      BY <1>2
    <2>1. (q + 1) * t <= a * t
      BY <1>2, TimesMonotone
    <2> QED
      BY <2>1, <1>1, <1>2, <1>3
  <1>5. q <= a + k
    <2>1. a * k <= t * k
      BY TimesMonotone
    <2>2. (a + k) * t = a * t + t * k
      BY <1>1
    <2>3. q * t <= (a + k) * t
      BY <2>1, <2>2, <1>1, <1>2, <1>3
    <2> QED
      BY <2>3, <1>2, TimesCancel
  <1> QED
    BY <1>2, <1>4, <1>5 DEF q

\* The three kinds of token accounts are disjoint.
LEMMA Accounts ==
    /\ PoolToken \in TokenAccounts
    /\ \A b \in Bettors : b \in TokenAccounts /\ b # PoolToken /\ b \notin Donors
    /\ \A d \in Donors : d \in TokenAccounts /\ d # PoolToken
  BY PoolAssumption DEF TokenAccounts

\* A covered transfer keeps balances natural and touches its two ends alone.
LEMMA TransferFacts ==
    ASSUME NEW bal \in [TokenAccounts -> Nat], NEW from \in TokenAccounts,
           NEW to \in TokenAccounts, NEW n \in Nat, n <= bal[from], from # to
    PROVE  /\ Transfer(bal, from, to, n) \in [TokenAccounts -> Nat]
           /\ Transfer(bal, from, to, n)[from] = bal[from] - n
           /\ Transfer(bal, from, to, n)[to] = bal[to] + n
           /\ \A a \in TokenAccounts \ {from, to} : Transfer(bal, from, to, n)[a] = bal[a]
  BY DEF Transfer

LEMMA Totals ==
    ASSUME TypeOK
    PROVE  /\ pool.yes_amount \in Nat /\ pool.no_amount \in Nat /\ FullPool \in Nat
           /\ \A side \in Sides : SideTotal(side) \in Nat /\ FullPool - SideTotal(side) \in Nat
           /\ \A b \in Bettors : /\ position[b].amount \in Nat /\ position[b].side \in Sides
                                 /\ position[b].open \in BOOLEAN
                                 /\ position[b].claimed \in BOOLEAN
  BY MaxU64Assumption DEF TypeOK, PoolAccount, BettorPda, FullPool, SideTotal, Sides, U64

LEMMA WinningsNatural ==
    ASSUME TypeOK, NEW b \in Bettors, SideTotal(position[b].side) # 0
    PROVE  Winnings(b) \in Nat
  BY Totals, DivFacts DEF Winnings

--------------------------------------------------------------------------------
(* Types *)

LEMMA InitType == Init => TypeOK
  BY PoolAssumption, MaxU64Assumption, Accounts
  DEF Init, TypeOK, PoolAccount, BettorPda, NoPool, NoPosition, Sides, U64, TokenAccounts

LEMMA StakeType ==
    ASSUME TypeOK, NEW b \in Bettors, NEW side \in Sides, NEW amount \in Stakes,
           Stake(b, side, amount)
    PROVE  TypeOK'
  <1>1. amount \in U64 /\ amount \in Nat /\ MAX_U64 \in Nat /\ MAX_U32 \in Nat
    BY PoolAssumption, MaxU64Assumption DEF U64
  <1>2. balance' \in [TokenAccounts -> Nat]
    BY <1>1, Accounts, TransferFacts DEF TypeOK, Stake, StakeAllowed
  <1>3. SideTotal(side) + amount \in U64 /\ pool.bettor_count + 1 \in 0..MAX_U32
    BY <1>1, Totals DEF TypeOK, PoolAccount, Stake, StakeAllowed, FitsU64, U64
  <1>4. pool' \in PoolAccount
    BY <1>1, <1>3 DEF TypeOK, PoolAccount, Stake, StakeAllowed, SideTotal, Sides
  <1>5. position' \in [Bettors -> BettorPda]
    BY <1>1 DEF TypeOK, BettorPda, Stake
  <1> QED
    BY <1>2, <1>4, <1>5 DEF TypeOK, Stake

LEMMA ClaimType ==
    ASSUME TypeOK, NEW b \in Bettors, ClaimWinnings(b)
    PROVE  TypeOK'
  <1>1. Winnings(b) \in Nat
    BY WinningsNatural DEF ClaimWinnings, ClaimAllowed, WinningsFit
  <1>2. balance' \in [TokenAccounts -> Nat]
    BY <1>1, Accounts, TransferFacts DEF TypeOK, ClaimWinnings, ClaimAllowed
  <1>3. position' \in [Bettors -> BettorPda]
    BY DEF TypeOK, BettorPda, ClaimWinnings
  <1> QED
    BY <1>2, <1>3 DEF TypeOK, ClaimWinnings

LEMMA StepType == TypeOK /\ [Next]_vars => TypeOK'
  <1> SUFFICES ASSUME TypeOK, [Next]_vars PROVE TypeOK'
    OBVIOUS
  <1>1. CASE OpenPool
    BY <1>1, PoolAssumption, MaxU64Assumption
    DEF OpenPool, TypeOK, PoolAccount, NoPool, Sides, U64
  <1>2. ASSUME NEW outcome \in Sides, SettlePool(outcome) PROVE TypeOK'
    BY <1>2 DEF SettlePool, TypeOK, PoolAccount
  <1>3. CASE CampaignCloses
    BY <1>3 DEF CampaignCloses, TypeOK
  <1>4. ASSUME NEW d \in Donors, NEW amount \in Stakes, ExternalTransfer(d, amount)
        PROVE  TypeOK'
    <2>1. amount \in Nat
      BY PoolAssumption DEF U64
    <2>2. balance' \in [TokenAccounts -> Nat]
      BY <2>1, <1>4, Accounts, TransferFacts DEF TypeOK, ExternalTransfer
    <2> QED
      BY <2>2, <1>4 DEF TypeOK, ExternalTransfer
  <1>5. CASE Tick
    BY <1>5, PoolAssumption DEF Tick, TypeOK
  <1>6. CASE UNCHANGED vars
    BY <1>6 DEF vars, TypeOK
  <1> QED
    BY <1>1, <1>2, <1>3, <1>4, <1>5, <1>6, StakeType, ClaimType DEF Next

\* The totals of a pool, its count and its positions keep their widths, and no
\* token balance goes negative, for any number of bettors.
THEOREM PoolTypeCorrect == Spec => []TypeOK
  BY InitType, StepType, PTL DEF Spec

--------------------------------------------------------------------------------
(* Settlement *)

LEMMA StepFinal ==
    TypeOK /\ [Next]_vars =>
       [Settled => /\ pool' = pool
                   /\ \A b \in Bettors : \/ position'[b] = position[b]
                                         \/ position[b].open /\ position'[b].claimed]_vars
  <1> SUFFICES ASSUME TypeOK, Next, Settled
               PROVE  /\ pool' = pool
                      /\ \A b \in Bettors : \/ position'[b] = position[b]
                                            \/ position[b].open /\ position'[b].claimed
    OBVIOUS
  <1>1. ASSUME NEW c \in Bettors, ClaimWinnings(c)
        PROVE  /\ pool' = pool
               /\ \A b \in Bettors : \/ position'[b] = position[b]
                                     \/ position[b].open /\ position'[b].claimed
    BY <1>1 DEF ClaimWinnings, ClaimAllowed, TypeOK, BettorPda
  <1>2. ASSUME NEW c \in Bettors, NEW side \in Sides, NEW amount \in Stakes
        PROVE  ~Stake(c, side, amount)
    BY DEF Settled, Stake, StakeAllowed
  <1>3. ~OpenPool /\ \A outcome \in Sides : ~SettlePool(outcome)
    BY DEF Settled, OpenPool, SettlePool, SettleAllowed
  <1> QED
    BY <1>1, <1>2, <1>3 DEF Next, CampaignCloses, ExternalTransfer, Tick

\* Once the oracle has settled a pool nothing its payouts are computed from moves.
THEOREM SettlementStands == Spec => SettlementIsFinal
  BY PoolTypeCorrect, StepFinal, PTL DEF Spec, SettlementIsFinal

--------------------------------------------------------------------------------
(* What a bettor ends with *)

\* Every open position is part of its side's total, which is never zero then; only
\* winners of a settled pool have claimed; a pool that does not exist has no stakes.
StakesCounted ==
    /\ pool.status = "none" => \A b \in Bettors : ~position[b].open
    /\ \A b \in Bettors :
          /\ position[b].open => position[b].amount \in 1..SideTotal(position[b].side)
          /\ position[b].claimed =>
                position[b].open /\ Settled /\ position[b].side = pool.outcome

Staked(b) == IF position[b].open THEN position[b].amount ELSE 0
Paid(b)   == IF position[b].claimed THEN Winnings(b) ELSE 0

\* A bettor's wallet tells the bettor's history.
PursesAddUp ==
    \A b \in Bettors : balance[b] = InitialFunds[b] - Staked(b) + Paid(b)

PurseInv == TypeOK /\ StakesCounted /\ PursesAddUp

LEMMA InitPurse == Init => PurseInv
  <1> SUFFICES ASSUME Init PROVE StakesCounted /\ PursesAddUp
    BY InitType DEF PurseInv
  <1>1. \A b \in Bettors : balance[b] = InitialFunds[b] /\ InitialFunds[b] \in Nat
    BY Accounts, PoolAssumption DEF Init
  <1>2. \A b \in Bettors : ~position[b].open /\ ~position[b].claimed
    BY DEF Init, NoPosition
  <1>3. StakesCounted
    BY <1>2 DEF StakesCounted
  <1>4. PursesAddUp
    BY <1>1, <1>2 DEF PursesAddUp, Staked, Paid
  <1> QED
    BY <1>3, <1>4

\* A step that moves no total, no position and no bettor's tokens, and settles
\* nothing again, keeps the invariant.
LEMMA OthersKeep ==
    ASSUME PurseInv, TypeOK', position' = position,
           \A b \in Bettors : balance'[b] = balance[b],
           \/ pool' = pool
           \/ /\ ~Settled /\ (pool'.status = "none" => pool.status = "none")
              /\ pool'.yes_amount = pool.yes_amount /\ pool'.no_amount = pool.no_amount
    PROVE  PurseInv'
  <1>1. /\ \A side \in Sides : SideTotal(side)' = SideTotal(side)
        /\ FullPool' = FullPool
    BY DEF SideTotal, FullPool
  <1>2. \A b \in Bettors : SideTotal(position[b].side)' = SideTotal(position[b].side)
    BY <1>1, Totals DEF PurseInv
  <1>3. \A b \in Bettors : Winnings(b)' = Winnings(b)
    BY <1>1, <1>2 DEF Winnings
  <1>4. StakesCounted'
    BY <1>2 DEF PurseInv, StakesCounted, Settled
  <1>5. PursesAddUp'
    BY <1>3 DEF PurseInv, PursesAddUp, Staked, Paid
  <1> QED
    BY <1>4, <1>5 DEF PurseInv

LEMMA OpenPoolKeeps ==
    ASSUME PurseInv, TypeOK', OpenPool
    PROVE  PurseInv'
  <1>1. \A b \in Bettors : ~position[b].open /\ ~position[b].claimed
    BY Totals DEF PurseInv, StakesCounted, OpenPool
  <1> QED
    BY <1>1 DEF PurseInv, StakesCounted, PursesAddUp, OpenPool, NoPool, Staked, Paid

LEMMA StakeKeeps ==
    ASSUME PurseInv, TypeOK', NEW c \in Bettors, NEW side \in Sides, NEW amount \in Stakes,
           Stake(c, side, amount)
    PROVE  PurseInv'
  <1>1. amount \in Nat \ {0} /\ amount <= balance[c] /\ ~position[c].open /\ pool.status = "Open"
    BY PoolAssumption DEF Stake, StakeAllowed, U64
  <1>2. /\ balance'[c] = balance[c] - amount
        /\ \A b \in Bettors \ {c} : balance'[b] = balance[b]
    BY <1>1, Accounts, TransferFacts DEF PurseInv, TypeOK, Stake
  <1>3. /\ position'[c] = [open |-> TRUE, side |-> side, amount |-> amount, claimed |-> FALSE]
        /\ \A b \in Bettors \ {c} : position'[b] = position[b]
    BY DEF PurseInv, TypeOK, Stake
  <1>4. /\ \A s \in Sides : SideTotal(s)' = SideTotal(s) + (IF s = side THEN amount ELSE 0)
        /\ pool'.status = "Open"
    BY <1>1, Totals DEF PurseInv, TypeOK, PoolAccount, Stake, SideTotal, Sides
  <1>5. \A b \in Bettors : ~position[b].claimed
    BY <1>1, Totals DEF PurseInv, StakesCounted, Settled
  <1>6. \A b \in Bettors : ~position'[b].claimed
    BY <1>3, <1>5
  <1>7. StakesCounted'
    <2>1. \A b \in Bettors : position'[b].open =>
             position'[b].amount \in 1..SideTotal(position[b].side)'
      <3> SUFFICES ASSUME NEW b \in Bettors, position'[b].open
                   PROVE  position'[b].amount \in 1..SideTotal(position[b].side)'
        OBVIOUS
      <3>1. CASE b = c
        BY <3>1, <1>1, <1>3, <1>4, Totals DEF PurseInv
      <3>2. CASE b # c
        <4>1. position[b].amount \in 1..SideTotal(position[b].side)
          BY <3>2, <1>3 DEF PurseInv, StakesCounted
        <4>2. position[b].side \in Sides /\ SideTotal(position[b].side) \in Nat
          BY Totals DEF PurseInv
        <4> QED
          BY <3>2, <4>1, <4>2, <1>1, <1>3, <1>4
      <3> QED
        BY <3>1, <3>2
    <2> QED
      BY <2>1, <1>4, <1>6 DEF StakesCounted, SideTotal
  <1>8. PursesAddUp'
    <2> SUFFICES ASSUME NEW b \in Bettors
                 PROVE  balance'[b] = InitialFunds[b] - Staked(b)' + 0
      BY <1>6 DEF PursesAddUp, Paid
    <2>1. InitialFunds[b] \in Nat /\ balance[b] = InitialFunds[b] - Staked(b)
      BY <1>5, Totals, PoolAssumption DEF PurseInv, PursesAddUp, Paid, Staked
    <2> QED
      BY <2>1, <1>1, <1>2, <1>3, Totals DEF Staked, PurseInv
  <1> QED
    BY <1>7, <1>8 DEF PurseInv

LEMMA ClaimKeeps ==
    ASSUME PurseInv, TypeOK', NEW c \in Bettors, ClaimWinnings(c)
    PROVE  PurseInv'
  <1>1. /\ Winnings(c) \in Nat /\ Winnings(c) <= balance[PoolToken]
        /\ position[c].open /\ ~position[c].claimed /\ Settled /\ position[c].side = pool.outcome
    BY WinningsNatural DEF PurseInv, ClaimWinnings, ClaimAllowed, WinningsFit, Settled
  <1>2. /\ balance'[c] = balance[c] + Winnings(c)
        /\ \A b \in Bettors \ {c} : balance'[b] = balance[b]
    BY <1>1, Accounts, TransferFacts DEF PurseInv, TypeOK, ClaimWinnings
  <1>3. /\ position'[c] = [position[c] EXCEPT !.claimed = TRUE]
        /\ \A b \in Bettors \ {c} : position'[b] = position[b]
        /\ pool' = pool
    BY DEF PurseInv, TypeOK, ClaimWinnings
  <1>4. \A b \in Bettors : /\ position'[b].open = position[b].open
                            /\ position'[b].amount = position[b].amount
                            /\ position'[b].side = position[b].side
    BY <1>3 DEF PurseInv, TypeOK, BettorPda
  <1>5. position'[c].claimed
    BY <1>3 DEF PurseInv, TypeOK, BettorPda
  <1>6. \A b \in Bettors : Winnings(b)' = Winnings(b)
    BY <1>3, <1>4 DEF Winnings, FullPool, SideTotal
  <1>7. StakesCounted'
    BY <1>1, <1>3, <1>4 DEF PurseInv, StakesCounted, Settled, SideTotal
  <1>8. PursesAddUp'
    <2> SUFFICES ASSUME NEW b \in Bettors
                 PROVE  balance'[b] = InitialFunds[b] - Staked(b)' + Paid(b)'
      BY DEF PursesAddUp
    <2>1. Staked(b)' = Staked(b) /\ Staked(b) \in Nat /\ InitialFunds[b] \in Nat
      BY <1>4, Totals, PoolAssumption DEF Staked, PurseInv
    <2>2. CASE b = c
      BY <2>1, <2>2, <1>1, <1>2, <1>5, <1>6 DEF PurseInv, PursesAddUp, Paid
    <2>3. CASE b # c
      BY <2>1, <2>3, <1>2, <1>3, <1>6 DEF PurseInv, PursesAddUp, Paid
    <2> QED
      BY <2>2, <2>3
  <1> QED
    BY <1>7, <1>8 DEF PurseInv

LEMMA StepPurse == PurseInv /\ [Next]_vars => PurseInv'
  <1> SUFFICES ASSUME PurseInv, [Next]_vars PROVE PurseInv'
    OBVIOUS
  <1>1. TypeOK'
    BY StepType DEF PurseInv
  <1>2. CASE OpenPool
    BY <1>1, <1>2, OpenPoolKeeps
  <1>3. ASSUME NEW outcome \in Sides, SettlePool(outcome) PROVE PurseInv'
    BY <1>1, <1>3, OthersKeep DEF SettlePool, SettleAllowed, Settled, PurseInv, TypeOK, PoolAccount
  <1>4. ASSUME NEW d \in Donors, NEW amount \in Stakes, ExternalTransfer(d, amount)
        PROVE  PurseInv'
    <2>1. amount \in Nat
      BY PoolAssumption DEF U64
    <2>2. \A b \in Bettors : balance'[b] = balance[b]
      <3>1. \A a \in TokenAccounts \ {d, PoolToken} : balance'[a] = balance[a]
        BY <2>1, <1>4, Accounts, TransferFacts DEF PurseInv, TypeOK, ExternalTransfer
      <3> QED
        BY <3>1, Accounts
    <2>3. position' = position /\ pool' = pool
      BY <1>4 DEF ExternalTransfer
    <2> QED
      BY <2>2, <2>3, <1>1, OthersKeep
  <1>5. CASE CampaignCloses \/ Tick \/ UNCHANGED vars
    BY <1>1, <1>5, OthersKeep DEF CampaignCloses, Tick, vars
  <1> QED
    BY <1>1, <1>2, <1>3, <1>4, <1>5, StakeKeeps, ClaimKeeps DEF Next

LEMMA PurseBounds == PurseInv => WinnersNeverLose
  <1> SUFFICES ASSUME PurseInv, NEW b \in Bettors, Settled, position[b].claimed
               PROVE  balance[b] \in InitialFunds[b] ..
                         (InitialFunds[b] + FullPool - SideTotal(pool.outcome))
    BY DEF WinnersNeverLose
  <1> DEFINE a == position[b].amount
             t == SideTotal(position[b].side)
             k == FullPool - t
  <1>1. position[b].open /\ position[b].side = pool.outcome /\ a \in 1..t
    BY DEF PurseInv, StakesCounted
  <1>2. a \in Nat /\ t \in Nat \ {0} /\ k \in Nat /\ a <= t /\ FullPool = t + k
    BY <1>1, Totals DEF PurseInv
  <1>3. Winnings(b) = (a * FullPool) \div t
    BY DEF Winnings
  <1>4. balance[b] = InitialFunds[b] - a + Winnings(b) /\ InitialFunds[b] \in Nat
    BY <1>1, PoolAssumption DEF PurseInv, PursesAddUp, Staked, Paid
  <1>5. FullPool - SideTotal(pool.outcome) = k
    BY <1>1
  <1>6. FullPool \in Nat
    BY Totals DEF PurseInv
  <1> HIDE DEF a, t, k
  <1>7. Winnings(b) \in a .. (a + k)
    BY <1>2, <1>3, ShareBounds
  <1>8. InitialFunds[b] + FullPool - SideTotal(pool.outcome) = InitialFunds[b] + k
    BY <1>1, <1>2, <1>4, <1>6 DEF k, t
  <1> QED
    BY <1>2, <1>4, <1>7, <1>8

\* In a pool of any size, a winner who has claimed has at least the funds from before
\* the stake, and at most the losing stakes on top of them.
THEOREM BackingTheOutcomeNeverCosts == Spec => []WinnersNeverLose
  <1>1. Spec => []PurseInv
    BY InitPurse, StepPurse, PTL DEF Spec
  <1> QED
    BY <1>1, PurseBounds, PTL

--------------------------------------------------------------------------------
(* The books of a pool *)

Gifts      == SumFunctionOnSet(InitialFunds, Donors) - SumFunctionOnSet(balance, Donors)
WinningsOf == [b \in Bettors |-> Winnings(b)]
PaidOut    == {b \in Bettors : position[b].claimed}

\* Donors only give.
DonorsGive == \A d \in Donors : balance[d] <= InitialFunds[d]

PotInv == PurseInv /\ StakesMatch /\ PotConserved /\ DonorsGive

LEMMA Finite ==
    /\ IsFiniteSet(Bettors) /\ IsFiniteSet(Donors)
    /\ \A side \in Sides : IsFiniteSet(On(side)) /\ On(side) \subseteq Bettors
    /\ IsFiniteSet(PaidOut) /\ PaidOut \subseteq Bettors
  <1>1. IsFiniteSet(Bettors) /\ IsFiniteSet(Donors)
    BY PoolAssumption
  <1>2. /\ PaidOut \subseteq Bettors
        /\ \A side \in Sides : On(side) \subseteq Bettors
    BY DEF PaidOut, On
  <1> QED
    BY <1>1, <1>2, FS_Subset

\* In a pool that nobody has claimed from only winners are paid.
LEMMA PaidAreWinners ==
    ASSUME PurseInv
    PROVE  /\ Winners \ Unpaid = PaidOut
           /\ ~Settled => PaidOut = {}
           /\ \A b \in PaidOut : Winnings(b) \in Nat
           /\ \A b \in Bettors : position[b].open => Winnings(b) \in Nat
  <1>1. \A b \in Bettors : position[b].claimed =>
           position[b].open /\ Settled /\ position[b].side = pool.outcome
    BY DEF PurseInv, StakesCounted
  <1>2. ASSUME NEW b \in Bettors, position[b].open PROVE Winnings(b) \in Nat
    <2>1. position[b].amount \in 1..SideTotal(position[b].side)
      BY <1>2 DEF PurseInv, StakesCounted
    <2>2. position[b].amount \in Nat /\ SideTotal(position[b].side) \in Nat
      BY Totals DEF PurseInv
    <2> QED
      BY <2>1, <2>2, WinningsNatural DEF PurseInv
  <1>3. PaidOut \subseteq {b \in Bettors : position[b].open}
    BY <1>1 DEF PaidOut
  <1> QED
    BY <1>1, <1>2, <1>3 DEF Winners, Unpaid, On, PaidOut

\* What the books say, in the terms the proofs compute with.
LEMMA Books ==
    ASSUME PurseInv
    PROVE  /\ PotConserved <=>
                 balance[PoolToken] = FullPool + Gifts - SumFunctionOnSet(WinningsOf, PaidOut)
           /\ SumFunctionOnSet(WinningsOf, PaidOut) \in Nat
           /\ Gifts \in Int
           /\ \A side \in Sides : SumFunctionOnSet(StakeOf, On(side)) \in Nat
  <1>1. Winners \ Unpaid = PaidOut
    BY PaidAreWinners
  <1>2. SumFunctionOnSet(WinningsOf, PaidOut) \in Nat
    <2>1. \A b \in PaidOut : WinningsOf[b] \in Nat
      BY PaidAreWinners DEF WinningsOf, PaidOut
    <2> QED
      BY <2>1, Finite, SumNatural
  <1>3. Gifts \in Int
    <2>1. \A d \in Donors : InitialFunds[d] \in Int /\ balance[d] \in Int
      BY PoolAssumption, Accounts DEF PurseInv, TypeOK
    <2>2. /\ SumFunctionOnSet(InitialFunds, Donors) \in Int
          /\ SumFunctionOnSet(balance, Donors) \in Int
      BY <2>1, Finite, SumRemove
    <2> QED
      BY <2>2 DEF Gifts
  <1>4. ASSUME NEW side \in Sides PROVE SumFunctionOnSet(StakeOf, On(side)) \in Nat
    <2>1. \A b \in On(side) : StakeOf[b] \in Nat
      BY Totals DEF StakeOf, On, PurseInv
    <2> QED
      BY <2>1, Finite, SumNatural
  <1> QED
    BY <1>1, <1>2, <1>3, <1>4 DEF PotConserved, Gifts, WinningsOf

\* The same after a step.
PotForm ==
    /\ PotConserved <=>
          balance[PoolToken] = FullPool + Gifts - SumFunctionOnSet(WinningsOf, PaidOut)
    /\ \A b \in PaidOut : Winnings(b) \in Nat

LEMMA NextBooks == PurseInv' => PotForm'
  <1>1. PurseInv => PotForm
    BY Books, PaidAreWinners DEF PotForm
  <1> QED
    BY <1>1, PTL

\* The sides and the stakes depend on the positions alone, and the winnings on the
\* positions and the totals.
LEMMA SameSums ==
    ASSUME position' = position, pool'.yes_amount = pool.yes_amount,
           pool'.no_amount = pool.no_amount
    PROVE  /\ \A side \in Sides : On(side)' = On(side)
           /\ StakeOf' = StakeOf /\ PaidOut' = PaidOut
           /\ FullPool' = FullPool /\ WinningsOf' = WinningsOf
  <1>1. /\ \A side \in Sides : On(side)' = On(side)
        /\ StakeOf' = StakeOf /\ PaidOut' = PaidOut
    BY DEF On, StakeOf, PaidOut
  <1>2. FullPool' = FullPool
    BY DEF FullPool
  <1>3. \A b \in Bettors : Winnings(b)' = Winnings(b)
    BY <1>2 DEF Winnings, SideTotal
  <1> QED
    BY <1>1, <1>2, <1>3 DEF WinningsOf

LEMMA InitPot == Init => PotInv
  <1> SUFFICES ASSUME Init PROVE StakesMatch /\ PotConserved /\ DonorsGive
    BY InitPurse DEF PotInv
  <1>1. PurseInv /\ "YES" \in Sides /\ "NO" \in Sides
    BY InitPurse DEF Sides
  <1>2. \A b \in Bettors : ~position[b].open /\ ~position[b].claimed
    BY DEF Init, NoPosition
  <1>3. On("YES") = {} /\ On("NO") = {} /\ PaidOut = {}
    BY <1>2 DEF On, PaidOut
  <1>4. StakesMatch
    BY <1>3, SumEmpty, FS_EmptySet DEF StakesMatch, Init, NoPool
  <1>5. \A d \in Donors : balance[d] = InitialFunds[d] /\ InitialFunds[d] \in Nat
    BY Accounts, PoolAssumption DEF Init
  <1>6. Gifts = 0
    <2>1. SumFunctionOnSet(balance, Donors) = SumFunctionOnSet(InitialFunds, Donors)
      BY <1>5, Finite, SumEqual
    <2>2. SumFunctionOnSet(InitialFunds, Donors) \in Int
      BY <1>5, Finite, SumRemove
    <2> QED
      BY <2>1, <2>2 DEF Gifts
  <1>7. balance[PoolToken] = 0 /\ FullPool = 0
    BY Accounts DEF Init, NoPool, FullPool
  <1>8. PotConserved
    BY <1>1, <1>3, <1>6, <1>7, Books, SumEmpty
  <1> QED
    BY <1>4, <1>5, <1>8 DEF DonorsGive

\* A step that moves no total, no position and no token of the pool or a donor.
LEMMA OthersKeepPot ==
    ASSUME PotInv, PurseInv', position' = position,
           pool'.yes_amount = pool.yes_amount, pool'.no_amount = pool.no_amount,
           pool'.bettor_count = pool.bettor_count, balance' = balance
    PROVE  PotInv'
  <1>1. /\ On("YES")' = On("YES") /\ On("NO")' = On("NO") /\ StakeOf' = StakeOf
        /\ PaidOut' = PaidOut /\ FullPool' = FullPool /\ WinningsOf' = WinningsOf
    BY SameSums DEF Sides
  <1>2. StakesMatch'
    BY <1>1 DEF PotInv, StakesMatch
  <1>3. Gifts' = Gifts /\ DonorsGive'
    BY DEF Gifts, PotInv, DonorsGive
  <1>4. balance'[PoolToken] = FullPool' + Gifts' - SumFunctionOnSet(WinningsOf, PaidOut)'
    BY <1>1, <1>3, Books DEF PotInv
  <1>5. PotConserved'
    BY <1>4, NextBooks DEF PotForm
  <1> QED
    BY <1>2, <1>3, <1>5 DEF PotInv

LEMMA OpenPoolPot ==
    ASSUME PotInv, PurseInv', OpenPool
    PROVE  PotInv'
  <1>1. \A b \in Bettors : ~position[b].open
    BY DEF PotInv, PurseInv, StakesCounted, OpenPool
  <1>2. On("YES") = {} /\ On("NO") = {}
    BY <1>1 DEF On
  <1>3. pool.yes_amount = 0 /\ pool.no_amount = 0 /\ pool.bettor_count = 0
    BY <1>2, SumEmpty, FS_EmptySet DEF PotInv, StakesMatch
  <1>4. pool'.yes_amount = 0 /\ pool'.no_amount = 0 /\ pool'.bettor_count = 0
    BY DEF OpenPool, NoPool
  <1> QED
    BY <1>3, <1>4, OthersKeepPot DEF OpenPool

LEMMA StakePot ==
    ASSUME PotInv, PurseInv', NEW c \in Bettors, NEW side \in Sides, NEW amount \in Stakes,
           Stake(c, side, amount)
    PROVE  PotInv'
  <1>1. /\ amount \in Nat \ {0} /\ amount <= balance[c] /\ ~position[c].open /\ ~Settled
        /\ TypeOK /\ PurseInv
    BY PoolAssumption DEF Stake, StakeAllowed, U64, Settled, PotInv, PurseInv
  <1>2. /\ balance'[PoolToken] = balance[PoolToken] + amount
        /\ balance[PoolToken] \in Nat
        /\ \A d \in Donors : balance'[d] = balance[d] /\ balance[d] \in Nat
    <2>1. \A a \in TokenAccounts \ {c, PoolToken} : balance'[a] = balance[a]
      BY <1>1, Accounts, TransferFacts DEF TypeOK, Stake
    <2>2. balance'[PoolToken] = balance[PoolToken] + amount
      BY <1>1, Accounts, TransferFacts DEF TypeOK, Stake
    <2> QED
      BY <2>1, <2>2, <1>1, Accounts DEF TypeOK
  <1>3. /\ position'[c] = [open |-> TRUE, side |-> side, amount |-> amount, claimed |-> FALSE]
        /\ \A b \in Bettors \ {c} : position'[b] = position[b]
    BY <1>1 DEF TypeOK, Stake
  <1>4. /\ pool'.yes_amount = pool.yes_amount + (IF side = "YES" THEN amount ELSE 0)
        /\ pool'.no_amount = pool.no_amount + (IF side = "NO" THEN amount ELSE 0)
        /\ pool'.bettor_count = pool.bettor_count + 1
    BY <1>1, Totals DEF TypeOK, PoolAccount, Stake
  <1>5. \A s \in Sides : /\ c \notin On(s)
                         /\ On(s)' = IF s = side THEN On(s) \cup {c} ELSE On(s)
    BY <1>1, <1>3 DEF On
  <1>6. StakeOf'[c] = amount /\ \A b \in Bettors \ {c} : StakeOf'[b] = StakeOf[b]
    BY <1>3 DEF StakeOf
  <1>7. \A b \in Bettors : StakeOf[b] \in Int
    BY <1>1, Totals DEF StakeOf
  <1>8. ASSUME NEW s \in Sides
        PROVE  /\ SumFunctionOnSet(StakeOf', On(s)) = SumFunctionOnSet(StakeOf, On(s))
               /\ SumFunctionOnSet(StakeOf', On(s) \cup {c}) =
                     amount + SumFunctionOnSet(StakeOf, On(s))
    <2>1. IsFiniteSet(On(s)) /\ On(s) \subseteq Bettors /\ c \notin On(s)
      BY <1>5, Finite
    <2>2. \A b \in On(s) : StakeOf[b] \in Int /\ StakeOf'[b] = StakeOf[b]
      BY <2>1, <1>6, <1>7
    <2>3. \A b \in On(s) \cup {c} : StakeOf'[b] \in Int
      BY <2>1, <2>2, <1>1, <1>6
    <2>4. SumFunctionOnSet(StakeOf', On(s)) = SumFunctionOnSet(StakeOf, On(s))
      BY <2>1, <2>2, SumEqual
    <2>5. SumFunctionOnSet(StakeOf', On(s) \cup {c}) =
             StakeOf'[c] + SumFunctionOnSet(StakeOf', On(s))
      BY <2>1, <2>3, SumAdd
    <2> QED
      BY <2>4, <2>5, <1>6
  <1>9. StakesMatch'
    <2>1. /\ "YES" \in Sides /\ "NO" \in Sides /\ side \in {"YES", "NO"}
          /\ SumFunctionOnSet(StakeOf, On("YES")) \in Nat
          /\ SumFunctionOnSet(StakeOf, On("NO")) \in Nat
      BY <1>1, Books DEF Sides
    <2>2. /\ pool'.yes_amount = SumFunctionOnSet(StakeOf', On("YES")')
          /\ pool'.no_amount = SumFunctionOnSet(StakeOf', On("NO")')
      <3>1. ASSUME NEW s \in Sides
            PROVE  SumFunctionOnSet(StakeOf', On(s)') =
                      SumFunctionOnSet(StakeOf, On(s)) + (IF s = side THEN amount ELSE 0)
        <4>1. SumFunctionOnSet(StakeOf, On(s)) \in Nat
          BY <1>1, Books
        <4>2. CASE s = side
          <5>1. On(s)' = On(s) \cup {c}
            BY <4>2, <1>5
          <5> QED
            BY <4>1, <4>2, <5>1, <1>1, <1>8
        <4>3. CASE s # side
          <5>1. SumFunctionOnSet(StakeOf', On(s)') = SumFunctionOnSet(StakeOf, On(s))
            BY <4>3, <1>5, <1>8
          <5> QED
            BY <4>1, <4>3, <5>1
        <4> QED
          BY <4>2, <4>3
      <3>2. /\ pool.yes_amount = SumFunctionOnSet(StakeOf, On("YES"))
            /\ pool.no_amount = SumFunctionOnSet(StakeOf, On("NO"))
        BY DEF PotInv, StakesMatch
      <3>3. /\ pool'.yes_amount = SumFunctionOnSet(StakeOf, On("YES"))
                                    + (IF "YES" = side THEN amount ELSE 0)
            /\ pool'.no_amount = SumFunctionOnSet(StakeOf, On("NO"))
                                    + (IF "NO" = side THEN amount ELSE 0)
        BY <3>2, <1>4
      <3> QED
        BY <2>1, <3>1, <3>3
    <2>3. (On("YES") \cup On("NO"))' = (On("YES") \cup On("NO")) \cup {c}
      BY <2>1, <1>5
    <2>4. /\ IsFiniteSet(On("YES") \cup On("NO")) /\ c \notin On("YES") \cup On("NO")
      BY <2>1, <1>5, Finite, FS_Union
    <2>5. Cardinality((On("YES") \cup On("NO")) \cup {c}) =
             Cardinality(On("YES") \cup On("NO")) + 1
      BY <2>4, FS_AddElement
    <2>6. pool'.bettor_count = Cardinality((On("YES") \cup On("NO"))')
      BY <2>3, <2>5, <1>4 DEF PotInv, StakesMatch
    <2> QED
      BY <2>2, <2>6 DEF StakesMatch
  <1>10. Gifts' = Gifts /\ DonorsGive'
    <2>1. SumFunctionOnSet(balance', Donors) = SumFunctionOnSet(balance, Donors)
      BY <1>2, Finite, SumEqual
    <2> QED
      BY <2>1, <1>2 DEF Gifts, DonorsGive, PotInv
  <1>11. PaidOut = {} /\ PaidOut' = {}
    <2>1. PaidOut = {}
      BY <1>1, PaidAreWinners
    <2> QED
      BY <2>1, <1>3 DEF PaidOut
  <1>12. FullPool' = FullPool + amount /\ FullPool \in Nat
    BY <1>1, <1>4, Totals DEF FullPool, Sides
  <1>13. PotConserved'
    <2>1. balance[PoolToken] = FullPool + Gifts - 0 /\ Gifts \in Int
      BY <1>1, <1>11, Books, SumEmpty DEF PotInv
    <2>2. balance'[PoolToken] = FullPool' + Gifts' - 0
      BY <2>1, <1>1, <1>2, <1>10, <1>12
    <2>3. SumFunctionOnSet(WinningsOf', PaidOut') = 0
      BY <1>11, SumEmpty
    <2> QED
      BY <2>2, <2>3, NextBooks DEF PotForm
  <1> QED
    BY <1>9, <1>10, <1>13 DEF PotInv

LEMMA ClaimPot ==
    ASSUME PotInv, PurseInv', NEW c \in Bettors, ClaimWinnings(c)
    PROVE  PotInv'
  <1>1. /\ PurseInv /\ TypeOK /\ position[c].open /\ ~position[c].claimed
        /\ Winnings(c) <= balance[PoolToken] /\ Winnings(c) \in Nat
    BY PaidAreWinners DEF PotInv, PurseInv, ClaimWinnings, ClaimAllowed
  <1>2. /\ balance'[PoolToken] = balance[PoolToken] - Winnings(c)
        /\ balance[PoolToken] \in Nat
        /\ \A d \in Donors : balance'[d] = balance[d] /\ balance[d] \in Nat
    <2>1. \A a \in TokenAccounts \ {PoolToken, c} : balance'[a] = balance[a]
      BY <1>1, Accounts, TransferFacts DEF TypeOK, ClaimWinnings
    <2>2. balance'[PoolToken] = balance[PoolToken] - Winnings(c)
      BY <1>1, Accounts, TransferFacts DEF TypeOK, ClaimWinnings
    <2> QED
      BY <2>1, <2>2, <1>1, Accounts DEF TypeOK
  <1>3. pool' = pool
    BY DEF ClaimWinnings
  <1>4. /\ position'[c].claimed
        /\ \A b \in Bettors : /\ position'[b].open = position[b].open
                              /\ position'[b].side = position[b].side
                              /\ position'[b].amount = position[b].amount
        /\ \A b \in Bettors \ {c} : position'[b] = position[b]
    BY <1>1 DEF TypeOK, BettorPda, ClaimWinnings
  <1>5. /\ On("YES")' = On("YES") /\ On("NO")' = On("NO") /\ StakeOf' = StakeOf
        /\ PaidOut' = PaidOut \cup {c} /\ c \notin PaidOut
    BY <1>1, <1>4 DEF On, StakeOf, PaidOut
  <1>6. FullPool' = FullPool /\ WinningsOf' = WinningsOf
    BY <1>3, <1>4 DEF WinningsOf, Winnings, FullPool, SideTotal
  <1>7. StakesMatch'
    BY <1>3, <1>5 DEF PotInv, StakesMatch
  <1>8. Gifts' = Gifts /\ DonorsGive'
    <2>1. SumFunctionOnSet(balance', Donors) = SumFunctionOnSet(balance, Donors)
      BY <1>2, Finite, SumEqual
    <2> QED
      BY <2>1, <1>2 DEF Gifts, DonorsGive, PotInv
  <1>9. SumFunctionOnSet(WinningsOf, PaidOut \cup {c}) =
           Winnings(c) + SumFunctionOnSet(WinningsOf, PaidOut)
    <2>1. \A b \in PaidOut \cup {c} : WinningsOf[b] \in Int
      BY <1>1, PaidAreWinners DEF WinningsOf, PaidOut
    <2>2. WinningsOf[c] = Winnings(c)
      BY DEF WinningsOf
    <2> QED
      BY <2>1, <2>2, <1>5, Finite, SumAdd
  <1>10. PotConserved'
    <2>1. /\ balance[PoolToken] = FullPool + Gifts - SumFunctionOnSet(WinningsOf, PaidOut)
          /\ SumFunctionOnSet(WinningsOf, PaidOut) \in Nat /\ Gifts \in Int
          /\ FullPool \in Nat
      BY <1>1, Books, Totals DEF PotInv
    <2>2. balance'[PoolToken] =
             FullPool + Gifts - SumFunctionOnSet(WinningsOf, PaidOut \cup {c})
      BY <2>1, <1>1, <1>2, <1>9
    <2>3. SumFunctionOnSet(WinningsOf', PaidOut') =
             SumFunctionOnSet(WinningsOf, PaidOut \cup {c})
      BY <1>5, <1>6
    <2> QED
      BY <2>2, <2>3, <1>6, <1>8, NextBooks DEF PotForm
  <1> QED
    BY <1>7, <1>8, <1>10 DEF PotInv

LEMMA ExternalTransferPot ==
    ASSUME PotInv, PurseInv', NEW d \in Donors, NEW amount \in Stakes,
           ExternalTransfer(d, amount)
    PROVE  PotInv'
  <1>1. amount \in Nat /\ amount <= balance[d] /\ PurseInv /\ TypeOK
    BY PoolAssumption DEF ExternalTransfer, U64, PotInv, PurseInv
  <1>2. /\ balance'[PoolToken] = balance[PoolToken] + amount
        /\ balance'[d] = balance[d] - amount
        /\ \A e \in Donors \ {d} : balance'[e] = balance[e]
        /\ balance[PoolToken] \in Nat /\ \A e \in Donors : balance[e] \in Nat
    <2>1. \A a \in TokenAccounts \ {d, PoolToken} : balance'[a] = balance[a]
      BY <1>1, Accounts, TransferFacts DEF TypeOK, ExternalTransfer
    <2>2. /\ balance'[PoolToken] = balance[PoolToken] + amount
          /\ balance'[d] = balance[d] - amount
      BY <1>1, Accounts, TransferFacts DEF TypeOK, ExternalTransfer
    <2> QED
      BY <2>1, <2>2, <1>1, Accounts DEF TypeOK
  <1>3. position' = position /\ pool' = pool
    BY DEF ExternalTransfer
  <1>4. /\ On("YES")' = On("YES") /\ On("NO")' = On("NO") /\ StakeOf' = StakeOf
        /\ PaidOut' = PaidOut /\ FullPool' = FullPool /\ WinningsOf' = WinningsOf
    BY <1>3, SameSums DEF Sides
  <1>5. StakesMatch'
    BY <1>3, <1>4 DEF PotInv, StakesMatch
  <1>6. Gifts' = Gifts + amount
    <2>1. SumFunctionOnSet(balance', Donors) =
             SumFunctionOnSet(balance, Donors) - balance[d] + balance'[d]
      <3>1. \A e \in Donors : balance[e] \in Int
        BY <1>2
      <3>2. balance'[d] \in Int
        BY <1>1, <1>2
      <3> QED
        BY <3>1, <3>2, <1>2, Finite, SumChange
    <2>2. \A e \in Donors : balance[e] \in Int /\ InitialFunds[e] \in Int
      BY <1>2, PoolAssumption
    <2>3. /\ SumFunctionOnSet(balance, Donors) \in Int
          /\ SumFunctionOnSet(InitialFunds, Donors) \in Int
      BY <2>2, Finite, SumRemove
    <2> QED
      BY <2>1, <2>3, <1>1, <1>2 DEF Gifts
  <1>7. DonorsGive'
    <2>1. \A e \in Donors : balance[e] <= InitialFunds[e] /\ InitialFunds[e] \in Nat
      BY PoolAssumption DEF PotInv, DonorsGive
    <2> QED
      BY <2>1, <1>1, <1>2 DEF DonorsGive
  <1>8. PotConserved'
    <2>1. /\ balance[PoolToken] = FullPool + Gifts - SumFunctionOnSet(WinningsOf, PaidOut)
          /\ SumFunctionOnSet(WinningsOf, PaidOut) \in Nat /\ Gifts \in Int
          /\ FullPool \in Nat
      BY <1>1, Books, Totals DEF PotInv
    <2>2. balance'[PoolToken] =
             FullPool' + Gifts' - SumFunctionOnSet(WinningsOf, PaidOut)
      BY <2>1, <1>1, <1>2, <1>4, <1>6
    <2> QED
      BY <2>2, <1>4, NextBooks DEF PotForm
  <1> QED
    BY <1>5, <1>7, <1>8 DEF PotInv

LEMMA StepPot == PotInv /\ [Next]_vars => PotInv'
  <1> SUFFICES ASSUME PotInv, [Next]_vars PROVE PotInv'
    OBVIOUS
  <1>1. PurseInv'
    BY StepPurse DEF PotInv
  <1>2. ASSUME NEW outcome \in Sides, SettlePool(outcome) PROVE PotInv'
    BY <1>1, <1>2, OthersKeepPot DEF SettlePool, PotInv, PurseInv, TypeOK, PoolAccount
  <1>3. CASE CampaignCloses \/ Tick \/ UNCHANGED vars
    BY <1>1, <1>3, OthersKeepPot DEF CampaignCloses, Tick, vars
  <1> QED
    BY <1>1, <1>2, <1>3, OpenPoolPot, StakePot, ClaimPot, ExternalTransferPot DEF Next

LEMMA PotInvariant == Spec => []PotInv
  BY InitPot, StepPot, PTL DEF Spec

\* The totals of a pool and its count of bettors are those of the positions staked in
\* it, for any number of bettors staking and claiming in any order.
THEOREM TotalsAreTheStakes == Spec => []StakesMatch
  BY PotInvariant, PTL DEF PotInv

\* No token enters or leaves the pool's account unrecorded: it is the stakes and the
\* donations less what the winners who claimed were paid, to the last unit.
THEOREM PotIsConserved == Spec => []PotConserved
  BY PotInvariant, PTL DEF PotInv

--------------------------------------------------------------------------------
(* What the pot can pay *)

\* What a share of the pot f of a stake a in a side of t is worth, without division.
LEMMA ShareFacts ==
    ASSUME NEW a \in Nat, NEW f \in Nat, NEW t \in Nat \ {0}
    PROVE  LET w == (a * f) \div t
           IN  w \in Nat /\ t * w <= f * a /\ f * a <= t * w + (t - 1)
  <1> DEFINE w == (a * f) \div t
  <1>1. a * f \in Nat /\ f * a = a * f
    OBVIOUS
  <1>2. w \in Nat /\ w * t <= a * f /\ a * f < w * t + t
    BY <1>1, DivFacts
  <1> HIDE DEF w
  <1>3. w * t \in Nat /\ t * w = w * t
    BY <1>2
  <1>4. w \in Nat /\ t * w <= f * a /\ f * a <= t * w + (t - 1)
    BY <1>1, <1>2, <1>3
  <1> QED
    BY <1>4 DEF w

\* The winnings of all the winners together: no more than the pot, and short of it by
\* less than one unit each.
LEMMA WinningsBounds ==
    ASSUME PotInv, Settled
    PROVE  LET all == SumFunctionOnSet(WinningsOf, Winners)
           IN  /\ all \in Nat /\ all <= FullPool
               /\ Winners # {} => FullPool < all + Cardinality(Winners)
  <1> DEFINE all == SumFunctionOnSet(WinningsOf, Winners)
             t   == SideTotal(pool.outcome)
             n   == Cardinality(Winners)
  <1>1. PurseInv /\ TypeOK /\ FullPool \in Nat
    BY Totals DEF PotInv, PurseInv
  <1>2. CASE Winners = {}
    BY <1>1, <1>2, SumEmpty
  <1>3. CASE Winners # {}
    <2>1. PICK b \in Winners : TRUE
      BY <1>3
    <2>2. b \in Bettors /\ position[b].open /\ position[b].side = pool.outcome
      BY DEF Winners, On
    <2>3. pool.outcome \in Sides
      BY <2>2, <1>1, Totals
    <2>4. t \in Nat \ {0}
      <3>1. position[b].amount \in 1..t
        BY <2>2, <1>1 DEF PurseInv, StakesCounted
      <3>2. t \in Nat /\ position[b].amount \in Nat
        BY <2>2, <2>3, <1>1, Totals
      <3> HIDE DEF t
      <3> QED
        BY <3>1, <3>2
    <2>5. IsFiniteSet(Winners) /\ Winners \subseteq Bettors
      BY <2>3, Finite DEF Winners
    <2>6. SumFunctionOnSet(StakeOf, Winners) = t
      <3>1. SumFunctionOnSet(StakeOf, On(pool.outcome)) = SideTotal(pool.outcome)
        BY <2>3 DEF PotInv, StakesMatch, SideTotal, Sides
      <3> QED
        BY <3>1 DEF Winners
    <2>7. n \in Nat \ {0}
      BY <2>5, <1>3, FS_CardinalityType, FS_EmptySet
    <2> HIDE DEF t, n
    <2>8. ASSUME NEW w \in Winners
          PROVE  /\ WinningsOf[w] \in Nat /\ StakeOf[w] \in Nat
                 /\ t * WinningsOf[w] <= FullPool * StakeOf[w]
                 /\ FullPool * StakeOf[w] <= t * WinningsOf[w] + (t - 1)
      <3>1. w \in Bettors /\ position[w].side = pool.outcome
        BY DEF Winners, On
      <3>2. WinningsOf[w] = (position[w].amount * FullPool) \div t
        BY <3>1 DEF WinningsOf, Winnings, t
      <3>3. StakeOf[w] = position[w].amount /\ position[w].amount \in Nat
        BY <3>1, <1>1, Totals DEF StakeOf
      <3> QED
        BY <3>2, <3>3, <2>4, <1>1, ShareFacts
    <2>9. all \in Nat
      BY <2>5, <2>8, SumNatural
    <2>10. t * all <= FullPool * t
      <3>1. \A w \in Winners : /\ WinningsOf[w] \in Int /\ StakeOf[w] \in Int
                               /\ t * WinningsOf[w] <= FullPool * StakeOf[w] + 0
        <4>1. \A w \in Winners : FullPool * StakeOf[w] \in Nat
          BY <2>8, <1>1
        <4> QED
          BY <2>8, <4>1
      <3>2. t \in Int /\ FullPool \in Int /\ 0 \in Int
        BY <2>4, <1>1
      <3>3. t * all <= FullPool * SumFunctionOnSet(StakeOf, Winners) + 0 * n
        BY <3>1, <3>2, <2>5, SumBound, Zenon DEF n
      <3>4. FullPool * t \in Nat /\ n \in Nat
        BY <2>4, <2>7, <1>1
      <3> HIDE DEF all
      <3> QED
        BY <3>3, <3>4, <2>6
    <2>11. FullPool * t <= t * all + (t - 1) * n
      <3>1. \A w \in Winners : /\ StakeOf[w] \in Int /\ WinningsOf[w] \in Int
                               /\ FullPool * StakeOf[w] <= t * WinningsOf[w] + (t - 1)
        BY <2>8
      <3>2. t \in Int /\ FullPool \in Int /\ t - 1 \in Int
        BY <2>4, <1>1
      <3>3. FullPool * SumFunctionOnSet(StakeOf, Winners) <= t * all + (t - 1) * n
        BY <3>1, <3>2, <2>5, SumBound, Zenon DEF n
      <3> QED
        BY <3>3, <2>6
    <2> HIDE DEF all
    <2>12. /\ t * all = all * t /\ all * t \in Nat
           /\ FullPool * t \in Nat
           /\ (t - 1) * n = n * t - n /\ n * t \in Nat
           /\ (all + n) * t = all * t + n * t
      BY <2>4, <2>7, <2>9, <1>1
    <2>13. all <= FullPool
      BY <2>4, <2>9, <2>10, <2>12, <1>1, TimesCancel
    <2>14. FullPool < all + n
      <3> SUFFICES ASSUME all + n <= FullPool PROVE FALSE
        BY <2>7, <2>9, <1>1
      <3>1. (all + n) * t <= FullPool * t
        BY <2>4, <2>7, <2>9, <1>1, TimesMonotone
      <3> QED
        BY <3>1, <2>7, <2>11, <2>12
    <2> QED
      BY <2>9, <2>13, <2>14 DEF all, n
  <1> QED
    BY <1>2, <1>3

LEMMA DonationsAreNatural ==
    ASSUME PotInv
    PROVE  Gifts \in Nat
  <1>1. \A d \in Donors : /\ balance[d] \in Int /\ InitialFunds[d] \in Int
                          /\ balance[d] <= InitialFunds[d]
    BY PoolAssumption, Accounts DEF PotInv, PurseInv, TypeOK, DonorsGive
  <1>2. SumFunctionOnSet(balance, Donors) <= SumFunctionOnSet(InitialFunds, Donors)
    BY <1>1, Finite, SumMonotone
  <1>3. /\ SumFunctionOnSet(balance, Donors) \in Int
        /\ SumFunctionOnSet(InitialFunds, Donors) \in Int
    BY <1>1, Finite, SumRemove
  <1> QED
    BY <1>2, <1>3 DEF Gifts

LEMMA PotBounds == PotInv => PoolSolvent /\ DustBounded
  <1> SUFFICES ASSUME PotInv, Settled
               PROVE  /\ balance[PoolToken] >= SumFunctionOnSet(WinningsOf, Unpaid)
                      /\ Winners # {} /\ Unpaid = {} =>
                            balance[PoolToken] < Cardinality(Winners) + Gifts
    <2>1. PotInv /\ ~Settled => PoolSolvent /\ DustBounded
      BY DEF PoolSolvent, DustBounded
    <2> QED
      BY <2>1 DEF PoolSolvent, DustBounded, WinningsOf, Gifts
  <1> DEFINE all == SumFunctionOnSet(WinningsOf, Winners)
             due  == SumFunctionOnSet(WinningsOf, Unpaid)
             paid == SumFunctionOnSet(WinningsOf, PaidOut)
  <1>1. /\ all \in Nat /\ all <= FullPool /\ FullPool \in Nat
        /\ Winners # {} => FullPool < all + Cardinality(Winners)
    BY WinningsBounds, Totals DEF PotInv, PurseInv
  <1>2. balance[PoolToken] = FullPool + Gifts - paid /\ paid \in Nat
    BY Books DEF PotInv
  <1>3. Gifts \in Nat
    BY DonationsAreNatural
  <1>4. all = due + paid /\ due \in Nat
    <2>1. /\ Winners \ Unpaid = PaidOut /\ Unpaid \subseteq Winners
          /\ Winners \subseteq Bettors
          /\ \A b \in Winners : WinningsOf[b] \in Nat
      BY PaidAreWinners DEF PotInv, Unpaid, Winners, On, WinningsOf
    <2>2. /\ Unpaid \cap PaidOut = {} /\ Unpaid \cup PaidOut = Winners
          /\ IsFiniteSet(Unpaid) /\ IsFiniteSet(PaidOut)
      BY <2>1, Finite, FS_Subset
    <2>3. \A b \in Unpaid \cup PaidOut : WinningsOf[b] \in Int
      BY <2>1, <2>2
    <2>4. SumFunctionOnSet(WinningsOf, Unpaid \cup PaidOut) = due + paid
      BY <2>2, <2>3, SumUnion
    <2>5. due \in Nat
      BY <2>1, <2>2, SumNatural
    <2> QED
      BY <2>2, <2>4, <2>5
  <1>5. IsFiniteSet(Winners)
    BY Finite, FS_Subset DEF Winners, On
  <1>6. Cardinality(Winners) \in Nat
    BY <1>5, FS_CardinalityType
  <1>7. Unpaid = {} => due = 0
    BY SumEmpty
  <1> HIDE DEF all, due, paid
  <1>8. balance[PoolToken] >= due
    BY <1>1, <1>2, <1>3, <1>4
  <1>9. Winners # {} /\ Unpaid = {} => balance[PoolToken] < Cardinality(Winners) + Gifts
    BY <1>1, <1>2, <1>3, <1>4, <1>6, <1>7
  <1> QED
    BY <1>8, <1>9 DEF due

\* However many winners claim, in whatever order and whatever the rounding, the pool's
\* account always holds what the rest of them are owed.
THEOREM NoWinnerIsShortPaid == Spec => []PoolSolvent
  BY PotInvariant, PotBounds, PTL

\* What is left after the last claim, donations apart, is less than a unit per winner.
THEOREM DustIsBounded == Spec => []DustBounded
  BY PotInvariant, PotBounds, PTL

\* The guards of claim_winnings that could refuse a winner all follow from the
\* books of the pool, but for the product of the stake and the pot.
LEMMA ClaimGuards ==
    ASSUME PotInv, PoolSolvent, Settled, NEW b \in Unpaid
    PROVE  ClaimAllowed(b) <=> FitsU64(position[b].amount * FullPool)
  <1>1. /\ b \in Bettors /\ position[b].open /\ ~position[b].claimed
        /\ position[b].side = pool.outcome /\ pool.status = "Settled"
    BY DEF Unpaid, Winners, On, Settled
  <1>2. TypeOK /\ FullPool \in Nat /\ \A c \in Bettors : position[c].amount \in Nat
    BY Totals DEF PotInv, PurseInv
  <1>3. \A c \in Unpaid : c \in Bettors /\ SideTotal(position[c].side) # 0
    BY <1>2, Totals DEF PotInv, PurseInv, StakesCounted, Unpaid, Winners, On
  <1>4. position[b].amount * FullPool >= FullPool /\ position[b].amount * FullPool \in Nat
    <2>1. position[b].amount \in Nat /\ 1 <= position[b].amount
      BY <1>1, <1>2, Totals DEF PotInv, PurseInv, StakesCounted
    <2>2. 1 * FullPool <= position[b].amount * FullPool
      BY <1>2, <2>1, TimesMonotone
    <2> QED
      BY <1>2, <2>1, <2>2
  <1>5. balance[PoolToken] >= Winnings(b)
    <2>1. \A c \in Unpaid : WinningsOf[c] \in Nat /\ WinningsOf[c] = Winnings(c)
      BY <1>2, <1>3, WinningsNatural DEF WinningsOf
    <2>2. IsFiniteSet(Unpaid)
      BY <1>3, Finite, FS_Subset
    <2>3. /\ SumFunctionOnSet(WinningsOf, Unpaid) \in Nat
          /\ WinningsOf[b] <= SumFunctionOnSet(WinningsOf, Unpaid)
      BY <2>1, <2>2, SumNatural
    <2>4. balance[PoolToken] >= SumFunctionOnSet(WinningsOf, Unpaid)
      BY DEF PoolSolvent, WinningsOf
    <2>5. balance[PoolToken] \in Nat
      BY <1>2, Accounts DEF TypeOK
    <2> QED
      BY <2>1, <2>3, <2>4, <2>5
  <1>6. FitsU64(position[b].amount * FullPool) => FitsU64(FullPool)
    BY <1>2, <1>4, MaxU64Assumption DEF FitsU64
  <1> QED
    BY <1>1, <1>3, <1>5, <1>6 DEF ClaimAllowed, WinningsFit

\* A winner who was not paid can always claim, whoever claimed before and whatever
\* was rounded, unless the stake times the pot passes u64::MAX.
THEOREM OnlyOverflowStopsAWinner == Spec => []OnlyWidthStopsAClaim
  <1>1. PotInv => OnlyWidthStopsAClaim
    BY PotBounds, ClaimGuards DEF OnlyWidthStopsAClaim
  <1> QED
    BY <1>1, PotInvariant, PTL

--------------------------------------------------------------------------------
(* Winners are paid *)

\* claim_winnings written out, down to the value of every variable, and the rule of
\* ENABLED for an action of that form: it is enabled where its guard holds and a value
\* differs.  The rule is one of the logic, which the provers lack, and true of any such
\* action; that ClaimWinnings is this action is for the proof to show.
ClaimWritten(b) ==
    /\ ClaimAllowed(b)
    /\ balance' = Transfer(balance, PoolToken, b, Winnings(b))
    /\ position' = [position EXCEPT ![b].claimed = TRUE]
    /\ UNCHANGED <<now, campaign, pool>>

ClaimRule(b) ==
    ClaimAllowed(b) /\ [position EXCEPT ![b].claimed = TRUE] # position
       => ENABLED <<ClaimWritten(b)>>_vars

\* b has won and could be paid, but was not yet.
Owed(b) == Settled /\ b \in Winners /\ WinningsFit(b) /\ ~position[b].claimed

LEMMA OwedIsAllowed == ASSUME PotInv, NEW b \in Bettors, Owed(b) PROVE ClaimAllowed(b)
  <1>1. b \in Unpaid
    BY DEF Owed, Unpaid
  <1> QED
    BY <1>1, PotBounds, ClaimGuards DEF Owed, WinningsFit

LEMMA OwedUntilClaimed ==
    ASSUME PotInv, [Next]_vars, NEW b \in Bettors, Owed(b)
    PROVE  Owed(b)' \/ position'[b].claimed
  <1>1. CASE UNCHANGED vars
    BY <1>1 DEF vars, Owed, Settled, Winners, On, WinningsFit, FullPool, SideTotal
  <1>2. CASE ~UNCHANGED vars
    <2>1. pool' = pool /\ (position'[b] = position[b] \/ position'[b].claimed)
      BY <1>2, StepFinal DEF PotInv, PurseInv, Owed
    <2> QED
      BY <2>1 DEF Owed, Settled, Winners, On, WinningsFit, FullPool, SideTotal
  <1> QED
    BY <1>1, <1>2

LEMMA ClaimPays ==
    ASSUME PotInv, NEW b \in Bettors, ClaimWinnings(b)
    PROVE  position'[b].claimed
  BY DEF PotInv, PurseInv, TypeOK, BettorPda, ClaimWinnings

LEMMA ClaimingChanges ==
    ASSUME PotInv, NEW b \in Bettors, Owed(b)
    PROVE  [position EXCEPT ![b].claimed = TRUE] # position
  <1> DEFINE after == [position EXCEPT ![b].claimed = TRUE]
  <1>1. after[b].claimed = TRUE
    BY DEF PotInv, PurseInv, TypeOK, BettorPda
  <1> QED
    BY <1>1 DEF Owed

LEMMA OwedIsEnabled ==
    ASSUME PotInv, NEW b \in Bettors, Owed(b), ClaimRule(b)
    PROVE  ENABLED <<ClaimWinnings(b)>>_vars
  <1>1. ENABLED <<ClaimWritten(b)>>_vars
    BY OwedIsAllowed, ClaimingChanges DEF ClaimRule
  <1> QED
    BY <1>1 DEF ClaimWritten, ClaimWinnings

\* Every winner whose payout fits a u64 and who keeps claiming is paid in the end:
\* the claim is allowed from the settlement on, and no stake, settlement, claim of
\* another winner or donation takes that away.
THEOREM WinnersArePaid ==
    FairSpec /\ (\A b \in Bettors : []ClaimRule(b)) => WinnersGetPaid
  <1> SUFFICES ASSUME NEW b \in Bettors
               PROVE  Spec /\ KeepsClaiming(b) /\ []ClaimRule(b)
                         => (Settled /\ b \in Winners /\ WinningsFit(b) ~> position[b].claimed)
    BY DEF FairSpec, WinnersGetPaid
  <1>1. PotInv /\ Owed(b) /\ ClaimRule(b) => ENABLED <<ClaimWinnings(b)>>_vars
    BY OwedIsEnabled
  <1>2. PotInv /\ Owed(b) /\ [Next]_vars => Owed(b)' \/ (position[b].claimed)'
    BY OwedUntilClaimed
  <1>3. PotInv /\ <<ClaimWinnings(b)>>_vars => (position[b].claimed)'
    BY ClaimPays
  <1>4. Settled /\ b \in Winners /\ WinningsFit(b) => Owed(b) \/ position[b].claimed
    BY DEF Owed
  <1> QED
    BY <1>1, <1>2, <1>3, <1>4, PotInvariant, PTL DEF Spec, KeepsClaiming

================================================================================
