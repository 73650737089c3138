----------------------- MODULE CampaignVaultBooks_proofs -----------------------
(***************************************************************************)
(* Theorems about the sums CampaignVault keeps, or is meant to agree with, *)
(* for every number of vaults, creators, donors and wallets: the counters  *)
(* of a squad, the fee rate of the treasury, the yield credited to the     *)
(* members, and where all yield comes from.                                *)
(***************************************************************************)
EXTENDS CampaignVaultSteps_proofs

LEMMA FiniteSets ==
    IsFiniteSet(Vaults) /\ IsFiniteSet(Creators) /\ IsFiniteSet(Donors)
  BY VaultAssumption, FS_Subset

\* SumFunction of a function given by its values on S.
LEMMA SumOfMap ==
    ASSUME NEW S, NEW f, DOMAIN f = S
    PROVE  SumFunction(f) = SumFunctionOnSet(f, S)
  BY DEF SumFunction

--------------------------------------------------------------------------------
(* The counters of a squad *)

AllocationOf(v) == [c \in Creators |-> member[v][c].allocation_bps]

BooksOf(v) ==
    /\ vault[v].member_count = Cardinality(Squad(v))
    /\ vault[v].total_allocation_bps = SumFunctionOnSet(AllocationOf(v), Creators)

\* A vault that does not exist is blank, and so is a member that does not.
BlankVaults  == \A v \in Vaults : vault[v].status = "none" => vault[v] = NoVault
BlankMembers == \A v \in Vaults, c \in Creators :
                   ~member[v][c].open => member[v][c] = NoMember

SquadInv == TypeOK /\ SquadBooks /\ BlankVaults /\ BlankMembers

\* SquadBooks one vault at a time, and the same of the state after a step.
AllBooks == \A v \in Vaults : BooksOf(v)

LEMMA BooksOfEach == SquadBooks <=> AllBooks
  <1>1. \A v \in Vaults :
           SumFunction([c \in Creators |-> member[v][c].allocation_bps])
              = SumFunctionOnSet(AllocationOf(v), Creators)
    BY SumOfMap DEF AllocationOf
  <1> QED
    BY <1>1 DEF SquadBooks, AllBooks, BooksOf

LEMMA NextBooksOfEach == SquadBooks' <=> AllBooks'
  BY BooksOfEach, PTL

LEMMA InitSquad == Init => SquadInv
  <1> SUFFICES ASSUME Init PROVE SquadBooks /\ BlankVaults /\ BlankMembers
    BY InitType DEF SquadInv
  <1>1. \A v \in Vaults : vault[v] = NoVault
    BY DEF Init
  <1>2. \A v \in Vaults, c \in Creators : member[v][c] = NoMember
    BY DEF Init
  <1>3. ASSUME NEW v \in Vaults PROVE BooksOf(v)
    <2>1. Squad(v) = {}
      BY <1>2 DEF Squad, NoMember
    <2>2. vault[v].member_count = 0 /\ vault[v].total_allocation_bps = 0
      BY <1>1 DEF NoVault
    <2>3. \A c \in Creators : AllocationOf(v)[c] = 0
      BY <1>2 DEF AllocationOf, NoMember
    <2>4. SumFunctionOnSet(AllocationOf(v), Creators) = 0
      BY <2>3, FiniteSets, SumZero
    <2> QED
      BY <2>1, <2>2, <2>4, FS_EmptySet DEF BooksOf
  <1> QED
    BY <1>1, <1>2, <1>3, BooksOfEach DEF AllBooks, BlankVaults, BlankMembers

\* A step on one vault, after which that vault's books are right.
LEMMA OneVault ==
    ASSUME SquadInv, TypeOK', NEW v \in Vaults,
           \A u \in Vaults \ {v} : vault'[u] = vault[u] /\ member'[u] = member[u],
           BooksOf(v)', vault'[v].status # "none",
           \A c \in Creators : ~member'[v][c].open => member'[v][c] = NoMember
    PROVE  SquadInv'
  <1>1. ASSUME NEW u \in Vaults
        PROVE  /\ BooksOf(u)'
               /\ vault'[u].status = "none" => vault'[u] = NoVault
               /\ \A c \in Creators : ~member'[u][c].open => member'[u][c] = NoMember
    <2>1. CASE u = v
      BY <2>1
    <2>2. CASE u # v
      <3>1. Squad(u)' = Squad(u) /\ AllocationOf(u)' = AllocationOf(u)
        BY <2>2 DEF Squad, AllocationOf
      <3>2. BooksOf(u)
        BY BooksOfEach DEF SquadInv, AllBooks
      <3>3. BooksOf(u)'
        BY <2>2, <3>1, <3>2 DEF BooksOf
      <3> QED
        BY <2>2, <3>3 DEF SquadInv, BlankMembers, BlankVaults
    <2> QED
      BY <2>1, <2>2
  <1>2. AllBooks'
    BY <1>1 DEF AllBooks
  <1> QED
    BY <1>1, <1>2, NextBooksOfEach DEF SquadInv, BlankVaults, BlankMembers

\* A step that moves neither the counters nor the places of any member.
LEMMA SameBooks ==
    ASSUME SquadInv, TypeOK', NEW v \in Vaults,
           \A u \in Vaults \ {v} : vault'[u] = vault[u] /\ member'[u] = member[u],
           vault'[v].status # "none",
           vault'[v].member_count = vault[v].member_count,
           vault'[v].total_allocation_bps = vault[v].total_allocation_bps,
           \A c \in Creators :
              /\ member'[v][c].open = member[v][c].open
              /\ member'[v][c].allocation_bps = member[v][c].allocation_bps
              /\ member[v][c].open \/ member'[v][c] = member[v][c]
    PROVE  SquadInv'
  <1>1. Squad(v)' = Squad(v) /\ AllocationOf(v)' = AllocationOf(v)
    BY DEF Squad, AllocationOf
  <1>2. BooksOf(v)
    BY BooksOfEach DEF SquadInv, AllBooks
  <1>3. BooksOf(v)'
    BY <1>1, <1>2 DEF BooksOf
  <1>4. \A c \in Creators : ~member'[v][c].open => member'[v][c] = NoMember
    BY DEF SquadInv, BlankMembers
  <1> QED
    BY <1>3, <1>4, OneVault

LEMMA QuietBooks ==
    ASSUME SquadInv, TypeOK', vault' = vault, member' = member
    PROVE  SquadInv'
  <1>1. AllBooks' <=> AllBooks
    <2>1. \A v \in Vaults : Squad(v)' = Squad(v) /\ AllocationOf(v)' = AllocationOf(v)
      BY DEF Squad, AllocationOf
    <2> QED
      BY <2>1 DEF AllBooks, BooksOf
  <1> QED
    BY <1>1, BooksOfEach, NextBooksOfEach DEF SquadInv, BlankVaults, BlankMembers

\* A vault that does not exist has no members, so its new counters are right.
LEMMA NewVaultBooks ==
    ASSUME SquadInv, TypeOK', NEW v \in Vaults, vault[v].status = "none",
           NEW cliff, NEW end, NEW amount,
           vault' = [vault EXCEPT ![v] = NewVault(cliff, end, amount)],
           member' = member
    PROVE  SquadInv'
  <1>1. vault[v].member_count = 0 /\ vault[v].total_allocation_bps = 0
    BY DEF SquadInv, BlankVaults, NoVault
  <1>2. /\ vault'[v].member_count = 0 /\ vault'[v].total_allocation_bps = 0
        /\ vault'[v].status = "Active"
        /\ \A u \in Vaults \ {v} : vault'[u] = vault[u]
    BY DEF SquadInv, TypeOK, NewVault
  <1> QED
    BY <1>1, <1>2, SameBooks

\* The instructions on an open vault that move principal or yield.
LEMMA MoneyBooks ==
    ASSUME SquadInv, TypeOK', NEW v \in Vaults,
           \/ \E amount \in Amounts : Deposit(v, amount)
           \/ CloseVault(v)
           \/ \E i \in Indices, c \in Creators : ReleaseMilestone(v, i, c)
    PROVE  SquadInv'
  <1>1. /\ vault'[v].status # "none"
        /\ vault'[v].member_count = vault[v].member_count
        /\ vault'[v].total_allocation_bps = vault[v].total_allocation_bps
        /\ \A u \in Vaults \ {v} : vault'[u] = vault[u]
    BY DEF SquadInv, TypeOK, VaultAccount, Deposit, CloseVault, CloseVaultAllowed,
           ReleaseMilestone, ReleaseAllowed, Active
  <1>2. member' = member
    BY DEF Deposit, CloseVault, ReleaseMilestone
  <1> QED
    BY <1>1, <1>2, SameBooks

\* A routing credits a member who is there, and moves no allocation.
LEMMA RouteBooks ==
    ASSUME SquadInv, TypeOK', NEW v \in Vaults, NEW c \in Creators,
           NEW amount \in Amounts, RouteYield(v, c, amount)
    PROVE  SquadInv'
  <1>1. /\ vault'[v].status # "none"
        /\ vault'[v].member_count = vault[v].member_count
        /\ vault'[v].total_allocation_bps = vault[v].total_allocation_bps
        /\ \A u \in Vaults \ {v} : vault'[u] = vault[u]
    BY DEF SquadInv, TypeOK, VaultAccount, RouteYield, RouteYieldAllowed, Active
  <1>2. PICK n : member' = [member EXCEPT ![v][c].total_received = n]
    BY DEF RouteYield, SquadInv, TypeOK
  <1>3. member[v][c].open
    BY DEF RouteYield, RouteYieldAllowed
  <1>4. /\ \A u \in Vaults \ {v} : member'[u] = member[u]
        /\ \A d \in Creators :
              /\ member'[v][d].open = member[v][d].open
              /\ member'[v][d].allocation_bps = member[v][d].allocation_bps
              /\ member[v][d].open \/ member'[v][d] = member[v][d]
    BY <1>2, <1>3 DEF SquadInv, TypeOK, SquadMember
  <1> QED
    BY <1>1, <1>4, SameBooks

\* add_creator opens one SquadMember where there was none.
LEMMA AddBooks ==
    ASSUME SquadInv, TypeOK', NEW v \in Vaults, NEW c \in Creators,
           NEW bps \in Allocations, AddCreator(v, c, bps)
    PROVE  SquadInv'
  <1>1. /\ vault[v].status = "Active" /\ ~member[v][c].open /\ member[v][c] = NoMember
        /\ bps \in Nat
    BY Arguments DEF AddCreator, AddCreatorAllowed, Active, SquadInv, BlankMembers
  <1>2. /\ vault'[v].status # "none"
        /\ vault'[v].member_count = vault[v].member_count + 1
        /\ vault'[v].total_allocation_bps = vault[v].total_allocation_bps + bps
        /\ \A u \in Vaults \ {v} : vault'[u] = vault[u]
    BY <1>1 DEF SquadInv, TypeOK, VaultAccount, AddCreator
  <1>3. /\ \A u \in Vaults \ {v} : member'[u] = member[u]
        /\ \A d \in Creators \ {c} : member'[v][d] = member[v][d]
        /\ member'[v][c].open /\ member'[v][c].allocation_bps = bps
    BY DEF SquadInv, TypeOK, AddCreator
  <1>4. BooksOf(v)
    BY BooksOfEach DEF SquadInv, AllBooks
  <1>5. Cardinality(Squad(v)') = Cardinality(Squad(v)) + 1
    <2>1. Squad(v)' = Squad(v) \cup {c} /\ c \notin Squad(v)
      BY <1>1, <1>3 DEF Squad
    <2>2. IsFiniteSet(Squad(v))
      BY FiniteSets, FS_Subset DEF Squad
    <2> QED
      BY <2>1, <2>2, FS_AddElement
  <1>6. SumFunctionOnSet(AllocationOf(v)', Creators)
           = SumFunctionOnSet(AllocationOf(v), Creators) + bps
    <2>1. /\ \A d \in Creators : AllocationOf(v)[d] \in Int
          /\ AllocationOf(v)[c] = 0 /\ AllocationOf(v)'[c] = bps
          /\ \A d \in Creators \ {c} : AllocationOf(v)'[d] = AllocationOf(v)[d]
      BY <1>1, <1>3 DEF AllocationOf, SquadInv, TypeOK, SquadMember, NoMember
    <2>2. SumFunctionOnSet(AllocationOf(v)', Creators)
             = SumFunctionOnSet(AllocationOf(v), Creators) - 0 + bps
      BY <1>1, <2>1, FiniteSets, SumChange
    <2>3. SumFunctionOnSet(AllocationOf(v), Creators) \in Int
      BY <2>1, FiniteSets, SumRemove
    <2> QED
      BY <1>1, <2>2, <2>3
  <1>7. BooksOf(v)'
    BY <1>2, <1>4, <1>5, <1>6 DEF BooksOf
  <1>8. \A d \in Creators : ~member'[v][d].open => member'[v][d] = NoMember
    BY <1>3 DEF SquadInv, BlankMembers
  <1> QED
    BY <1>2, <1>3, <1>7, <1>8, OneVault

\* remove_creator closes one, and takes back the allocation recorded there.
LEMMA RemoveBooks ==
    ASSUME SquadInv, TypeOK', NEW v \in Vaults, NEW c \in Creators, RemoveCreator(v, c)
    PROVE  SquadInv'
  <1> DEFINE bps == member[v][c].allocation_bps
  <1>1. vault[v].status = "Active" /\ member[v][c].open /\ bps \in Nat
    BY DEF RemoveCreator, RemoveCreatorAllowed, Active, SquadInv, TypeOK, SquadMember
  <1>2. /\ vault'[v].status # "none"
        /\ vault'[v].member_count = vault[v].member_count - 1
        /\ vault'[v].total_allocation_bps = vault[v].total_allocation_bps - bps
        /\ \A u \in Vaults \ {v} : vault'[u] = vault[u]
    BY <1>1 DEF SquadInv, TypeOK, VaultAccount, RemoveCreator
  <1>3. /\ \A u \in Vaults \ {v} : member'[u] = member[u]
        /\ \A d \in Creators \ {c} : member'[v][d] = member[v][d]
        /\ member'[v][c] = NoMember
    BY DEF SquadInv, TypeOK, RemoveCreator
  <1>4. BooksOf(v)
    BY BooksOfEach DEF SquadInv, AllBooks
  <1>5. Cardinality(Squad(v)') = Cardinality(Squad(v)) - 1
    <2>1. Squad(v)' = Squad(v) \ {c} /\ c \in Squad(v)
      BY <1>1, <1>3 DEF Squad, NoMember
    <2>2. IsFiniteSet(Squad(v))
      BY FiniteSets, FS_Subset DEF Squad
    <2> QED
      BY <2>1, <2>2, FS_RemoveElement
  <1>6. SumFunctionOnSet(AllocationOf(v)', Creators)
           = SumFunctionOnSet(AllocationOf(v), Creators) - bps
    <2>1. /\ \A d \in Creators : AllocationOf(v)[d] \in Int
          /\ AllocationOf(v)[c] = bps /\ AllocationOf(v)'[c] = 0
          /\ AllocationOf(v)'[c] \in Int
          /\ \A d \in Creators \ {c} : AllocationOf(v)'[d] = AllocationOf(v)[d]
      BY <1>3 DEF AllocationOf, SquadInv, TypeOK, SquadMember, NoMember
    <2>2. SumFunctionOnSet(AllocationOf(v)', Creators)
             = SumFunctionOnSet(AllocationOf(v), Creators)
                  - AllocationOf(v)[c] + AllocationOf(v)'[c]
      <3> DEFINE f == AllocationOf(v)
                 g == AllocationOf(v)'
      <3>1. /\ \A d \in Creators : f[d] \in Int
            /\ g[c] \in Int
            /\ \A d \in Creators \ {c} : g[d] = f[d]
        BY <2>1
      <3>2. IsFiniteSet(Creators) /\ c \in Creators
        BY FiniteSets
      <3> HIDE DEF f, g
      <3>3. SumFunctionOnSet(g, Creators) = SumFunctionOnSet(f, Creators) - f[c] + g[c]
        BY <3>1, <3>2, SumChange
      <3> QED
        BY <3>3 DEF f, g
    <2>3. SumFunctionOnSet(AllocationOf(v), Creators) \in Int
      BY <2>1, FiniteSets, SumRemove
    <2> QED
      BY <1>1, <2>1, <2>2, <2>3
  <1>7. BooksOf(v)'
    BY <1>2, <1>4, <1>5, <1>6 DEF BooksOf
  <1>8. \A d \in Creators : ~member'[v][d].open => member'[v][d] = NoMember
    BY <1>3 DEF SquadInv, BlankMembers
  <1> QED
    BY <1>2, <1>3, <1>7, <1>8, OneVault

LEMMA StepSquad == SquadInv /\ [Next]_vars => SquadInv'
  <1> SUFFICES ASSUME SquadInv, [Next]_vars PROVE SquadInv'
    OBVIOUS
  <1>0. TypeOK'
    BY StepType DEF SquadInv
  <1>1. CASE UNCHANGED vars
    BY <1>0, <1>1, QuietBooks DEF vars
  <1>2. ASSUME NEW v \in Vaults, SponsorStep(v) PROVE SquadInv'
    <2>1. ASSUME NEW cliff \in Durations, NEW end \in Durations,
                 InitVault(v, cliff, end)
                 \/ \E amount \in Amounts : InitAndDeposit(v, cliff, end, amount)
          PROVE  SquadInv'
      BY <1>0, <2>1, NewVaultBooks DEF InitVault, InitAndDeposit
    <2>2. ASSUME CloseVault(v) \/ \E amount \in Amounts : Deposit(v, amount)
          PROVE  SquadInv'
      BY <1>0, <2>2, MoneyBooks
    <2>3. ASSUME NEW i \in Indices, NEW t \in Thresholds, NEW bps \in Payouts,
                 NEW g \in Targets, CreateMilestone(v, i, t, bps, g)
          PROVE  SquadInv'
      BY <1>0, <2>3, QuietBooks DEF CreateMilestone, InitMilestone
    <2> QED
      BY <1>0, <1>2, <2>1, <2>2, <2>3, AddBooks, RemoveBooks DEF SponsorStep
  <1>3. ASSUME NEW v \in Vaults, AutomationStep(v) PROVE SquadInv'
    <2>1. ASSUME NEW i \in Indices, NEW t \in Thresholds, NEW bps \in Payouts,
                 NEW g \in Targets, CreateMilestoneByAutomation(v, i, t, bps, g)
          PROVE  SquadInv'
      BY <1>0, <2>1, QuietBooks DEF CreateMilestoneByAutomation, InitMilestone
    <2> QED
      BY <1>0, <1>3, <2>1, MoneyBooks, RouteBooks DEF AutomationStep
  <1>4. ASSUME NEW v \in Vaults, OracleStep(v) PROVE SquadInv'
    BY <1>0, <1>4, QuietBooks DEF OracleStep, UpdateScore
  <1>5. ASSUME NEW w \in Donors, NEW v \in Vaults, NEW amount \in Amounts,
               ExternalTransfer(w, v, amount)
        PROVE  SquadInv'
    BY <1>0, <1>5, QuietBooks DEF ExternalTransfer
  <1>6. CASE Tick
    BY <1>0, <1>6, QuietBooks DEF Tick
  <1> QED
    BY <1>1, <1>2, <1>3, <1>4, <1>5, <1>6 DEF Next

\* However often members are added, removed and added again, the counters in a
\* SponsorVault are the number and the sum of its open SquadMember accounts.
THEOREM CountersCountTheSquad == Spec => []SquadBooks
  <1>1. SquadInv => SquadBooks
    BY DEF SquadInv
  <1> QED
    BY <1>1, InitSquad, StepSquad, PTL DEF Spec

--------------------------------------------------------------------------------
(* Fees and credited yield *)

Total(f) == SumFunctionOnSet(f, Vaults)

ReceivedIn(v) == [c \in Creators |-> member[v][c].total_received]
Credited      == [v \in Vaults |-> SumFunctionOnSet(ReceivedIn(v), Creators)]

\* YieldBooks and FeeWithinRate over these sums.
YieldForm ==
    /\ Total(Routed) >= Total(Credited) + balance[Treasury] - InitialFunds[Treasury]
    /\ (balance[Treasury] - InitialFunds[Treasury]) * BPS_DENOMINATOR
          <= FEE_BPS * Total(Routed)

LEMMA YieldForms == YieldBooks /\ FeeWithinRate <=> YieldForm
  <1>1. SumFunction([v \in Vaults |-> vault[v].total_yield_routed]) = Total(Routed)
    BY SumOfMap DEF Routed, Total
  <1>2. \A v \in Vaults :
           SumFunction([c \in Creators |-> member[v][c].total_received])
              = SumFunctionOnSet(ReceivedIn(v), Creators)
    BY SumOfMap DEF ReceivedIn
  <1>3. [v \in Vaults |-> SumFunction([c \in Creators |-> member[v][c].total_received])]
           = Credited
    BY <1>2 DEF Credited
  <1>4. SumFunction(Credited) = Total(Credited)
    BY SumOfMap DEF Credited, Total
  <1> QED
    BY <1>1, <1>3, <1>4 DEF YieldBooks, FeeWithinRate, YieldForm

\* The sums are over integers.
LEMMA SumTypes ==
    ASSUME TypeOK
    PROVE  /\ \A v \in Vaults : Routed[v] \in Nat /\ Credited[v] \in Nat
           /\ \A v \in Vaults, c \in Creators : ReceivedIn(v)[c] \in Nat
           /\ Total(Routed) \in Nat /\ Total(Credited) \in Nat
           /\ balance[Treasury] \in Nat /\ InitialFunds[Treasury] \in Nat
  <1>1. \A v \in Vaults : Routed[v] \in Nat
    BY Fields DEF Routed
  <1>2. \A v \in Vaults, c \in Creators : ReceivedIn(v)[c] \in Nat
    BY Arguments DEF ReceivedIn, TypeOK, SquadMember, U64
  <1>3. \A v \in Vaults : Credited[v] \in Nat
    BY <1>2, FiniteSets, SumNatural DEF Credited
  <1>4. Total(Routed) \in Nat /\ Total(Credited) \in Nat
    BY <1>1, <1>3, FiniteSets, SumNatural DEF Total
  <1>5. balance[Treasury] \in Nat /\ InitialFunds[Treasury] \in Nat
    BY Accounts, VaultAssumption DEF TypeOK
  <1> QED
    BY <1>1, <1>2, <1>3, <1>4, <1>5

LEMMA NextSumTypes ==
    ASSUME TypeOK'
    PROVE  /\ \A v \in Vaults : Routed'[v] \in Nat /\ Credited'[v] \in Nat
           /\ \A v \in Vaults, c \in Creators : ReceivedIn(v)'[c] \in Nat
           /\ Total(Routed)' \in Nat /\ Total(Credited)' \in Nat
           /\ balance'[Treasury] \in Nat
  <1>1. \A v \in Vaults : vault'[v].total_yield_routed \in Nat
    BY Arguments DEF TypeOK, VaultAccount, U64
  <1>2. \A v \in Vaults : Routed'[v] \in Nat
    BY <1>1 DEF Routed
  <1>3. \A v \in Vaults, c \in Creators : ReceivedIn(v)'[c] \in Nat
    BY Arguments DEF ReceivedIn, TypeOK, SquadMember, U64
  <1>4. \A v \in Vaults : Credited'[v] \in Nat
    BY <1>3, FiniteSets, SumNatural DEF Credited
  <1>5. Total(Routed)' \in Nat /\ Total(Credited)' \in Nat
    BY <1>2, <1>4, FiniteSets, SumNatural DEF Total
  <1>6. balance'[Treasury] \in Nat
    BY Accounts DEF TypeOK
  <1> QED
    BY <1>2, <1>3, <1>4, <1>5, <1>6

\* A step that routes n, of which k to the treasury: what it does to the sums.
Routes(n, k) ==
    /\ k * BPS_DENOMINATOR <= n * FEE_BPS
    /\ Total(Routed)' = Total(Routed) + n
    /\ Total(Credited)' + k <= Total(Credited) + n
    /\ balance'[Treasury] <= balance[Treasury] + k

\* Members of one vault who are credited less, or gone, lower the total.
LEMMA CreditedFalls ==
    ASSUME TypeOK, TypeOK',
           \A v \in Vaults, c \in Creators :
              member'[v][c].total_received <= member[v][c].total_received
    PROVE  Total(Credited)' <= Total(Credited)
  <1>1. ASSUME NEW v \in Vaults PROVE Credited'[v] <= Credited[v]
    <2>1. \A c \in Creators : /\ ReceivedIn(v)'[c] \in Int /\ ReceivedIn(v)[c] \in Int
                              /\ ReceivedIn(v)'[c] <= ReceivedIn(v)[c]
      BY SumTypes, NextSumTypes DEF ReceivedIn
    <2>2. SumFunctionOnSet(ReceivedIn(v)', Creators)
             <= SumFunctionOnSet(ReceivedIn(v), Creators)
      BY <2>1, FiniteSets, SumMonotone
    <2> QED
      BY <2>2 DEF Credited
  <1>2. \A v \in Vaults : Credited'[v] \in Int /\ Credited[v] \in Int
    BY SumTypes, NextSumTypes
  <1> QED
    BY <1>1, <1>2, FiniteSets, SumMonotone DEF Total

LEMMA RoutesNothing ==
    ASSUME TypeOK, TypeOK',
           \A v \in Vaults : vault'[v].total_yield_routed = vault[v].total_yield_routed,
           \A v \in Vaults, c \in Creators :
              member'[v][c].total_received <= member[v][c].total_received,
           balance'[Treasury] <= balance[Treasury]
    PROVE  Routes(0, 0)
  <1>1. Routed' = Routed
    BY DEF Routed
  <1>2. Total(Routed)' = Total(Routed)
    BY <1>1 DEF Total
  <1>3. Total(Credited)' <= Total(Credited)
    BY CreditedFalls
  <1> QED
    BY <1>2, <1>3, SumTypes, NextSumTypes, Arguments DEF Routes

\* A transfer to any other account never adds to the treasury's.
LEMMA TreasurySpared ==
    ASSUME NEW bal \in [TokenAccounts -> Nat], NEW from \in TokenAccounts,
           NEW to \in TokenAccounts, NEW n \in Nat, to # Treasury
    PROVE  Transfer(bal, from, to, n)[Treasury] <= bal[Treasury]
  <1>1. Treasury \in TokenAccounts /\ bal[Treasury] \in Nat
    BY Accounts
  <1> QED
    BY <1>1 DEF Transfer

\* An effect that keeps the routed total of its vault, and credits nobody.
LEMMA EffectRoutesNothing ==
    ASSUME FundsInv, TypeOK', NEW v \in Vaults,
           NEW status, NEW cliff, NEW principal, NEW bal,
           Effect(v, status, cliff, principal, vault[v].total_yield_routed, bal),
           \A u \in Vaults, c \in Creators :
              member'[u][c].total_received <= member[u][c].total_received,
           balance'[Treasury] <= balance[Treasury]
    PROVE  Routes(0, 0)
  <1>1. \A u \in Vaults : vault'[u].total_yield_routed = vault[u].total_yield_routed
    BY DEF Effect
  <1> QED
    BY <1>1, RoutesNothing DEF FundsInv

\* The instructions that leave the members alone.
LEMMA SameMembers ==
    ASSUME TypeOK, member' = member
    PROVE  \A u \in Vaults, c \in Creators :
              member'[u][c].total_received <= member[u][c].total_received
  BY Arguments DEF TypeOK, SquadMember, U64

LEMMA OpenRoutes ==
    ASSUME FundsInv, TypeOK', TreasuryApart, NEW v \in Vaults,
           NEW cliff \in Durations, NEW end \in Durations,
           \/ InitVault(v, cliff, end)
           \/ \E amount \in Amounts : InitAndDeposit(v, cliff, end, amount)
    PROVE  Routes(0, 0)
  <1>1. /\ vault[v].total_yield_routed = 0 /\ member' = member
    BY DEF InitVault, InitAndDeposit, FundsInv, BlankBeforeInit
  <1>2. \E amount : Effect(v, "Active", now + cliff, amount,
                           vault[v].total_yield_routed, amount)
    BY <1>1, InitVaultEffect, InitAndDepositEffect
  <1>3. balance'[Treasury] <= balance[Treasury]
    <2>1. ASSUME NEW amount \in Amounts, InitAndDeposit(v, cliff, end, amount)
          PROVE  balance'[Treasury] <= balance[Treasury]
      <3>1. /\ balance \in [TokenAccounts -> Nat] /\ amount \in Nat
            /\ v \in TokenAccounts /\ SponsorOf[v] \in TokenAccounts /\ v # Treasury
        BY Accounts, Arguments DEF FundsInv, TypeOK
      <3>2. balance' = Transfer(balance, SponsorOf[v], v, amount)
        BY <2>1 DEF InitAndDeposit
      <3> QED
        BY <3>1, <3>2, TreasurySpared
    <2>2. balance[Treasury] \in Nat
      BY SumTypes DEF FundsInv
    <2> QED
      BY <2>1, <2>2 DEF InitVault
  <1> QED
    BY <1>1, <1>2, <1>3, SameMembers, EffectRoutesNothing DEF FundsInv

LEMMA DepositRoutes ==
    ASSUME FundsInv, TypeOK', TreasuryApart, NEW v \in Vaults, NEW amount \in Amounts,
           Deposit(v, amount)
    PROVE  Routes(0, 0)
  <1>1. balance'[Treasury] <= balance[Treasury] /\ member' = member
    BY TreasurySpared, Accounts, Arguments DEF Deposit, FundsInv, TypeOK
  <1> QED
    BY <1>1, DepositEffect, SameMembers, EffectRoutesNothing DEF FundsInv

LEMMA CloseRoutes ==
    ASSUME FundsInv, TypeOK', TreasuryApart, NEW v \in Vaults, CloseVault(v)
    PROVE  Routes(0, 0)
  <1>1. /\ balance \in [TokenAccounts -> Nat] /\ balance[v] \in Nat
        /\ v \in TokenAccounts /\ SponsorOf[v] \in TokenAccounts
        /\ SponsorOf[v] # Treasury
    BY Accounts, Fields DEF FundsInv, TreasuryApart
  <1>2. balance' = Transfer(balance, v, SponsorOf[v], balance[v]) /\ member' = member
    BY DEF CloseVault
  <1>3. balance'[Treasury] <= balance[Treasury]
    BY <1>1, <1>2, TreasurySpared
  <1> QED
    BY <1>2, <1>3, CloseVaultEffect, SameMembers, EffectRoutesNothing DEF FundsInv

\* A member who is added starts at zero, and one who is removed leaves what was
\* credited out of the sum.
LEMMA SquadRoutes ==
    ASSUME FundsInv, TypeOK', NEW v \in Vaults, NEW c \in Creators,
           (\E bps \in Allocations : AddCreator(v, c, bps)) \/ RemoveCreator(v, c)
    PROVE  Routes(0, 0)
  <1>1. Effect(v, vault[v].status, vault[v].cliff_ts, vault[v].principal,
               vault[v].total_yield_routed, balance[v])
    BY AddCreatorEffect, RemoveCreatorEffect
  <1>2. balance' = balance /\ balance[Treasury] \in Nat
    BY SumTypes DEF AddCreator, RemoveCreator, FundsInv
  <1>3. /\ member'[v][c].total_received = 0
        /\ \A d \in Creators \ {c} : member'[v][d] = member[v][d]
        /\ \A u \in Vaults \ {v} : member'[u] = member[u]
    BY DEF AddCreator, RemoveCreator, NoMember, FundsInv, TypeOK
  <1>4. ASSUME NEW u \in Vaults, NEW d \in Creators
        PROVE  member'[u][d].total_received <= member[u][d].total_received
    <2>1. member[u][d].total_received \in Nat
      BY SumTypes DEF FundsInv, ReceivedIn
    <2> QED
      BY <1>3, <2>1
  <1> QED
    BY <1>1, <1>2, <1>4, EffectRoutesNothing

LEMMA ReleaseRoutes ==
    ASSUME FundsInv, TypeOK', TreasuryApart, NEW v \in Vaults, NEW i \in Indices,
           NEW c \in Creators, ReleaseMilestone(v, i, c)
    PROVE  Routes(0, 0)
  <1>1. Payout(v, i) \in Nat
    BY ReleaseMilestoneEffect
  <1>2. balance' = Transfer(balance, v, c, Payout(v, i)) /\ member' = member
    BY DEF ReleaseMilestone
  <1>3. balance'[Treasury] <= balance[Treasury]
    BY <1>1, <1>2, TreasurySpared, Accounts DEF FundsInv, TypeOK, TreasuryApart
  <1> QED
    BY <1>2, <1>3, ReleaseMilestoneEffect, SameMembers, EffectRoutesNothing DEF FundsInv

LEMMA DonationRoutes ==
    ASSUME FundsInv, TypeOK', NEW w \in Donors, NEW v \in Vaults, NEW amount \in Amounts,
           ExternalTransfer(w, v, amount)
    PROVE  Routes(0, 0)
  <1>1. balance'[Treasury] <= balance[Treasury] /\ member' = member
    BY TreasurySpared, Accounts, Arguments DEF ExternalTransfer, FundsInv, TypeOK
  <1> QED
    BY <1>1, ExternalTransferEffect, SameMembers, EffectRoutesNothing DEF FundsInv

LEMMA QuietRoutes ==
    ASSUME FundsInv, TypeOK', Quiet, member' = member
    PROVE  Routes(0, 0)
  <1>1. balance[Treasury] \in Nat
    BY SumTypes DEF FundsInv
  <1> QED
    BY <1>1, SameMembers, RoutesNothing DEF FundsInv, Quiet

\* A routing moves all three sums: the amount, the fee rounded down, the rest.
LEMMA RouteRoutes ==
    ASSUME FundsInv, TypeOK', TreasuryApart, NEW v \in Vaults, NEW c \in Creators,
           NEW amount \in Amounts, RouteYield(v, c, amount)
    PROVE  Routes(amount, GeckoFee(amount)) /\ GeckoFee(amount) \in Nat
  <1> DEFINE fee == GeckoFee(amount)
  <1>1. RouteYieldAllowed(v, c, amount) /\ amount \in Nat /\ amount <= balance[v]
    <2>1. RouteYieldAllowed(v, c, amount)
      BY DEF RouteYield
    <2> QED
      BY <2>1, RouteYieldEffect, Fields, Arguments DEF FundsInv
  <1>2. fee \in Nat /\ fee <= amount /\ fee * BPS_DENOMINATOR <= amount * FEE_BPS
    BY <1>1, Arguments, BpsOfBounds DEF GeckoFee
  <1>3. /\ balance' = Transfer(Transfer(balance, v, Treasury, fee), v, c, amount - fee)
        /\ member' = [member EXCEPT ![v][c].total_received = @ + (amount - fee)]
    BY DEF RouteYield
  <1> HIDE DEF fee
  <1>4. balance'[Treasury] <= balance[Treasury] + fee
    <2>1. v \in TokenAccounts /\ c \in TokenAccounts /\ Treasury \in TokenAccounts
          /\ v # Treasury /\ c # Treasury /\ v # c
      BY Accounts DEF TreasuryApart
    <2>2. balance \in [TokenAccounts -> Nat]
      BY DEF FundsInv, TypeOK
    <2> DEFINE mid == Transfer(balance, v, Treasury, fee)
    <2>3. fee <= balance[v]
      BY <1>1, <1>2, <2>1, <2>2
    <2>4. mid \in [TokenAccounts -> Nat] /\ mid[Treasury] = balance[Treasury] + fee
      BY <1>2, <2>1, <2>2, <2>3, TransferFacts
    <2> HIDE DEF mid
    <2>5. amount - fee \in Nat
      BY <1>1, <1>2
    <2>6. Transfer(mid, v, c, amount - fee)[Treasury] <= mid[Treasury]
      BY <2>1, <2>4, <2>5, TreasurySpared
    <2> QED
      BY <1>3, <2>4, <2>6 DEF mid
  <1>5. Total(Routed)' = Total(Routed) + amount
    <2>1. /\ \A u \in Vaults : Routed[u] \in Int
          /\ Routed'[v] \in Int /\ Routed'[v] = Routed[v] + amount
          /\ \A u \in Vaults \ {v} : Routed'[u] = Routed[u]
      BY RouteYieldEffect, SumTypes, NextSumTypes DEF Effect, Routed, FundsInv
    <2>2. Total(Routed)' = Total(Routed) - Routed[v] + Routed'[v]
      BY <2>1, FiniteSets, SumChange DEF Total
    <2> QED
      BY <1>1, <2>1, <2>2, SumTypes DEF FundsInv
  <1>6. Total(Credited)' = Total(Credited) + (amount - fee)
    <2>1. /\ \A d \in Creators : ReceivedIn(v)[d] \in Int
          /\ ReceivedIn(v)'[c] \in Int
          /\ ReceivedIn(v)'[c] = ReceivedIn(v)[c] + (amount - fee)
          /\ \A d \in Creators \ {c} : ReceivedIn(v)'[d] = ReceivedIn(v)[d]
          /\ \A u \in Vaults \ {v} : ReceivedIn(u)' = ReceivedIn(u)
      <3>1. /\ member'[v][c].total_received = member[v][c].total_received + (amount - fee)
            /\ \A d \in Creators \ {c} : member'[v][d] = member[v][d]
            /\ \A u \in Vaults \ {v} : member'[u] = member[u]
        BY <1>3 DEF FundsInv, TypeOK, SquadMember
      <3> QED
        BY <3>1, SumTypes, NextSumTypes DEF ReceivedIn, FundsInv
    <2>2. Credited'[v] = Credited[v] - ReceivedIn(v)[c] + ReceivedIn(v)'[c]
      <3>1. SumFunctionOnSet(ReceivedIn(v)', Creators)
               = SumFunctionOnSet(ReceivedIn(v), Creators)
                    - ReceivedIn(v)[c] + ReceivedIn(v)'[c]
        BY <2>1, FiniteSets, SumChange
      <3> QED
        BY <3>1 DEF Credited
    <2>3. \A u \in Vaults \ {v} : Credited'[u] = Credited[u]
      BY <2>1 DEF Credited
    <2>4. Total(Credited)' = Total(Credited) - Credited[v] + Credited'[v]
      <3>1. (\A u \in Vaults : Credited[u] \in Int) /\ Credited'[v] \in Int
        BY SumTypes, NextSumTypes DEF FundsInv
      <3> QED
        BY <2>3, <3>1, FiniteSets, SumChange DEF Total
    <2>5. Credited[v] \in Nat /\ Total(Credited) \in Nat /\ ReceivedIn(v)[c] \in Nat
      BY SumTypes DEF FundsInv
    <2> QED
      BY <1>1, <1>2, <2>1, <2>2, <2>4, <2>5
  <1>7. Total(Credited)' + fee <= Total(Credited) + amount
    BY <1>1, <1>2, <1>6, SumTypes DEF FundsInv
  <1> QED
    BY <1>2, <1>4, <1>5, <1>7 DEF Routes, fee

LEMMA EveryStepRoutes ==
    ASSUME FundsInv, TypeOK', TreasuryApart, Next
    PROVE  \E n, k \in Nat : Routes(n, k)
  <1>0. ASSUME Routes(0, 0) PROVE \E n, k \in Nat : Routes(n, k)
    BY <1>0
  <1>1. ASSUME NEW v \in Vaults, SponsorStep(v) PROVE Routes(0, 0)
    <2>1. ASSUME NEW i \in Indices, NEW t \in Thresholds, NEW bps \in Payouts,
                 NEW g \in Targets, CreateMilestone(v, i, t, bps, g)
          PROVE  Routes(0, 0)
      BY <2>1, QuietRoutes DEF CreateMilestone, InitMilestone, Quiet
    <2> QED
      BY <1>1, <2>1, OpenRoutes, DepositRoutes, CloseRoutes, SquadRoutes DEF SponsorStep
  <1>2. ASSUME NEW v \in Vaults, AutomationStep(v) PROVE \E n, k \in Nat : Routes(n, k)
    <2>1. ASSUME NEW i \in Indices, NEW t \in Thresholds, NEW bps \in Payouts,
                 NEW g \in Targets, CreateMilestoneByAutomation(v, i, t, bps, g)
          PROVE  Routes(0, 0)
      BY <2>1, QuietRoutes DEF CreateMilestoneByAutomation, InitMilestone, Quiet
    <2>2. ASSUME NEW c \in Creators, NEW amount \in Amounts, RouteYield(v, c, amount)
          PROVE  \E n, k \in Nat : Routes(n, k)
      BY <2>2, RouteRoutes, Arguments
    <2> QED
      BY <1>0, <1>2, <2>1, <2>2, ReleaseRoutes DEF AutomationStep
  <1>3. ASSUME NEW v \in Vaults, OracleStep(v) PROVE Routes(0, 0)
    BY <1>3, QuietRoutes DEF OracleStep, UpdateScore, Quiet
  <1>4. CASE Tick
    BY <1>0, <1>4, QuietRoutes DEF Tick, Quiet
  <1> QED
    BY <1>0, <1>1, <1>2, <1>3, <1>4, DonationRoutes DEF Next

YieldInv == FundsInv /\ YieldForm

LEMMA InitYield == Init => YieldInv
  <1> SUFFICES ASSUME Init PROVE YieldForm
    BY InitFunds DEF YieldInv
  <1>0. TypeOK
    BY InitType
  <1>1. \A v \in Vaults : Routed[v] = 0
    BY DEF Init, NoVault, Routed
  <1>2. Total(Routed) = 0
    BY <1>1, FiniteSets, SumZero DEF Total
  <1>3. \A v \in Vaults, c \in Creators : ReceivedIn(v)[c] = 0
    BY DEF Init, NoMember, ReceivedIn
  <1>4. \A v \in Vaults : Credited[v] = 0
    BY <1>3, FiniteSets, SumZero DEF Credited
  <1>5. Total(Credited) = 0
    BY <1>4, FiniteSets, SumZero DEF Total, Credited
  <1>6. balance[Treasury] = InitialFunds[Treasury] /\ InitialFunds[Treasury] \in Nat
    BY <1>0, Accounts, SumTypes DEF Init
  <1> QED
    BY <1>2, <1>5, <1>6, Arguments DEF YieldForm

\* The fee's rate is kept by each routing, so it is kept by their sum.
LEMMA RoutesKeepRate ==
    ASSUME NEW r \in Nat, NEW b \in Int, NEW n \in Nat, NEW k \in Nat, NEW d \in Int,
           NEW fee \in Nat, b * BPS_DENOMINATOR <= fee * r,
           k * BPS_DENOMINATOR <= n * fee, d <= b + k
    PROVE  d * BPS_DENOMINATOR <= fee * (r + n)
  <1>1. fee * (r + n) = fee * r + n * fee /\ fee * r \in Int /\ n * fee \in Int
    OBVIOUS
  <1>2. d * 10000 <= b * 10000 + k * 10000
    OBVIOUS
  <1> QED
    BY <1>1, <1>2 DEF BPS_DENOMINATOR

LEMMA StepYield ==
    ASSUME TreasuryApart, YieldInv, [Next]_vars
    PROVE  YieldInv'
  <1>1. FundsInv /\ FundsInv' /\ TypeOK /\ TypeOK'
    BY StepFunds DEF YieldInv, FundsInv
  <1>2. \E n, k \in Nat : Routes(n, k)
    <2>1. CASE UNCHANGED vars
      <3>1. Routes(0, 0)
        BY <1>1, <2>1, QuietRoutes DEF vars, Quiet
      <3> QED
        BY <3>1
    <2> QED
      BY <1>1, <2>1, EveryStepRoutes
  <1>3. PICK n \in Nat, k \in Nat : Routes(n, k)
    BY <1>2
  <1>4. /\ Total(Routed) \in Nat /\ Total(Credited) \in Nat
        /\ Total(Routed)' \in Nat /\ Total(Credited)' \in Nat
        /\ balance[Treasury] \in Nat /\ balance'[Treasury] \in Nat
        /\ InitialFunds[Treasury] \in Nat /\ FEE_BPS \in Nat
    BY <1>1, SumTypes, NextSumTypes, Arguments
  <1>5. Total(Routed)' >= Total(Credited)' + balance'[Treasury] - InitialFunds[Treasury]
    BY <1>3, <1>4 DEF Routes, YieldInv, YieldForm
  <1>6. (balance'[Treasury] - InitialFunds[Treasury]) * BPS_DENOMINATOR
           <= FEE_BPS * Total(Routed)'
    <2> DEFINE b == balance[Treasury] - InitialFunds[Treasury]
               d == balance'[Treasury] - InitialFunds[Treasury]
               r == Total(Routed)
    <2>1. b \in Int /\ d \in Int /\ d <= b + k /\ r \in Nat /\ Total(Routed)' = r + n
      BY <1>3, <1>4 DEF Routes
    <2>2. b * BPS_DENOMINATOR <= FEE_BPS * r /\ k * BPS_DENOMINATOR <= n * FEE_BPS
      BY <1>3 DEF Routes, YieldInv, YieldForm
    <2> HIDE DEF b, d, r
    <2>3. d * BPS_DENOMINATOR <= FEE_BPS * (r + n)
      BY <1>4, <2>1, <2>2, RoutesKeepRate
    <2> QED
      BY <2>1, <2>3 DEF d
  <1>7. YieldForm'
    BY <1>5, <1>6 DEF YieldForm
  <1> QED
    BY <1>1, <1>7 DEF YieldInv

LEMMA YieldInvariant ==
    ASSUME TreasuryApart
    PROVE  Spec => [](YieldBooks /\ FeeWithinRate)
  <1>1. YieldInv => YieldBooks /\ FeeWithinRate
    BY YieldForms DEF YieldInv
  <1>2. YieldInv /\ [Next]_vars => YieldInv'
    BY StepYield
  <1> QED
    BY <1>1, <1>2, InitYield, PTL DEF Spec

\* Whatever mix of amounts, members, removals and closes it went through, all the
\* yield ever routed covers what the members were credited and the treasury got,
\* for a treasury that receives nothing but fees.
THEOREM RoutedCoversCredited ==
    ASSUME TreasuryApart
    PROVE  Spec => []YieldBooks
  BY YieldInvariant, PTL

\* Rounded down in every single call of route_yield, the fees together never pass
\* FEE_BPS of all that was routed, for a treasury that receives nothing but fees.
THEOREM FeesStayWithinRate ==
    ASSUME TreasuryApart
    PROVE  Spec => []FeeWithinRate
  BY YieldInvariant, PTL

--------------------------------------------------------------------------------
(* Where all yield comes from *)

\* All the yield a vault has routed or could still route.
Yield   == [v \in Vaults |-> vault[v].total_yield_routed + AvailableYield(v)]
OfDonors == SumFunctionOnSet(balance, Donors)
Arrived == SumFunctionOnSet(InitialFunds, Donors) - OfDonors

NoneClosed == \A v \in Vaults : vault[v].status # "Closed"

\* YieldComesFromOutside over these sums.
OutsideForm == Total(Yield) <= Arrived /\ (NoneClosed => Total(Yield) = Arrived)

LEMMA OutsideForms == YieldComesFromOutside <=> OutsideForm
  <1>1. SumFunction([v \in Vaults |-> vault[v].total_yield_routed + AvailableYield(v)])
           = Total(Yield)
    BY SumOfMap DEF Yield, Total
  <1> QED
    BY <1>1 DEF YieldComesFromOutside, OutsideForm, NoneClosed, Arrived, OfDonors

LEMMA YieldTypes ==
    ASSUME TypeOK
    PROVE  /\ \A v \in Vaults : Yield[v] \in Int
           /\ \A d \in Donors : balance[d] \in Nat /\ InitialFunds[d] \in Nat
           /\ Total(Yield) \in Int /\ OfDonors \in Int
           /\ SumFunctionOnSet(InitialFunds, Donors) \in Int
  <1>1. \A v \in Vaults : Yield[v] \in Int
    BY Fields DEF Yield, AvailableYield
  <1>2. \A d \in Donors : balance[d] \in Nat /\ InitialFunds[d] \in Nat
    BY Accounts, VaultAssumption DEF TypeOK
  <1>3. Total(Yield) \in Int
    BY <1>1, FiniteSets, SumRemove DEF Total
  <1>4. OfDonors \in Int /\ SumFunctionOnSet(InitialFunds, Donors) \in Int
    BY <1>2, FiniteSets, SumNatural DEF OfDonors
  <1> QED
    BY <1>1, <1>2, <1>3, <1>4

\* What a step does to the two sums: more arrives than yields only by a close.
Brings(n, m) ==
    /\ Total(Yield)' = Total(Yield) + n
    /\ OfDonors' = OfDonors - m
    /\ n <= m
    /\ n = m \/ \E v \in Vaults : vault'[v].status = "Closed"

\* An effect on v changes its yield alone.
LEMMA EffectYield ==
    ASSUME FundsInv, NEW v \in Vaults,
           NEW status, NEW cliff, NEW principal \in Int, NEW routed \in Int, NEW bal \in Int,
           Effect(v, status, cliff, principal, routed, bal)
    PROVE  Total(Yield)' = Total(Yield) - Yield[v] + (routed + (bal - principal))
  <1>1. /\ \A u \in Vaults : Yield[u] \in Int
        /\ Yield'[v] = routed + (bal - principal) /\ Yield'[v] \in Int
        /\ \A u \in Vaults \ {v} : Yield'[u] = Yield[u]
    BY YieldTypes DEF Effect, Yield, AvailableYield, FundsInv
  <1>2. Total(Yield)' = Total(Yield) - Yield[v] + Yield'[v]
    BY <1>1, FiniteSets, SumChange DEF Total
  <1> QED
    BY <1>1, <1>2

\* An effect that keeps the yield of its vault, and that donors have no part in.
LEMMA EffectBringsNothing ==
    ASSUME FundsInv, NEW v \in Vaults,
           NEW status, NEW cliff, NEW principal \in Int, NEW routed \in Int, NEW bal \in Int,
           Effect(v, status, cliff, principal, routed, bal),
           routed + (bal - principal) = Yield[v],
           \A d \in Donors : balance'[d] = balance[d]
    PROVE  Brings(0, 0)
  <1>1. Total(Yield)' = Total(Yield) - Yield[v] + (routed + (bal - principal))
    BY EffectYield
  <1>2. Yield[v] \in Int /\ Total(Yield) \in Int /\ OfDonors \in Int
        /\ \A d \in Donors : balance[d] \in Int
    BY YieldTypes DEF FundsInv
  <1>3. Total(Yield)' = Total(Yield) + 0
    BY <1>1, <1>2
  <1>4. OfDonors' = OfDonors
    BY <1>2, FiniteSets, SumEqual DEF OfDonors
  <1> QED
    BY <1>2, <1>3, <1>4 DEF Brings

LEMMA QuietBrings ==
    ASSUME FundsInv, Quiet
    PROVE  Brings(0, 0)
  <1>1. Yield' = Yield /\ OfDonors' = OfDonors
    BY DEF Quiet, Yield, AvailableYield, OfDonors
  <1>2. Total(Yield)' = Total(Yield)
    BY <1>1 DEF Total
  <1> QED
    BY <1>1, <1>2, YieldTypes DEF Brings, FundsInv

\* A transfer between other accounts leaves the donors' alone.
LEMMA DonorsSpared ==
    ASSUME TypeOK, NEW from \in TokenAccounts, NEW to \in TokenAccounts, NEW n \in Nat,
           from \notin Donors, to \notin Donors
    PROVE  \A d \in Donors : Transfer(balance, from, to, n)[d] = balance[d]
  BY Accounts DEF Transfer, TypeOK

\* No vault, sponsor, creator or treasury is a donor.
LEMMA NotDonors ==
    ASSUME DonorsApart
    PROVE  /\ \A v \in Vaults : v \notin Donors /\ SponsorOf[v] \notin Donors
           /\ \A c \in Creators : c \notin Donors
           /\ Treasury \notin Donors
  BY Accounts DEF DonorsApart

LEMMA OpenBrings ==
    ASSUME FundsInv, DonorsApart, NEW v \in Vaults,
           NEW cliff \in Durations, NEW end \in Durations,
           \/ InitVault(v, cliff, end)
           \/ \E amount \in Amounts : InitAndDeposit(v, cliff, end, amount)
    PROVE  Brings(0, 0)
  <1>1. Yield[v] = 0
    BY DEF InitVault, InitAndDeposit, FundsInv, NothingLeftBehind, BlankBeforeInit,
           Active, Yield, AvailableYield
  <1>2. ASSUME InitVault(v, cliff, end) PROVE Brings(0, 0)
    <2>1. Effect(v, "Active", now + cliff, 0, 0, 0) /\ 0 \in Int /\ 0 + (0 - 0) = 0
      BY <1>2, InitVaultEffect
    <2>2. \A d \in Donors : balance'[d] = balance[d]
      BY <1>2 DEF InitVault
    <2> QED
      BY <1>1, <2>1, <2>2, EffectBringsNothing
  <1>3. ASSUME NEW amount \in Amounts, InitAndDeposit(v, cliff, end, amount)
        PROVE  Brings(0, 0)
    <2>1. Effect(v, "Active", now + cliff, amount, 0, amount)
      BY <1>3, InitAndDepositEffect
    <2>2. 0 \in Int /\ amount \in Int /\ amount \in Nat /\ 0 + (amount - amount) = 0
      BY Arguments
    <2>3. \A d \in Donors : balance'[d] = balance[d]
      BY <1>3, <2>2, Accounts, NotDonors, DonorsSpared DEF InitAndDeposit, FundsInv
    <2> QED
      BY <1>1, <2>1, <2>2, <2>3, EffectBringsNothing
  <1> QED
    BY <1>2, <1>3

LEMMA DepositBrings ==
    ASSUME FundsInv, DonorsApart, NEW v \in Vaults, NEW amount \in Amounts,
           Deposit(v, amount)
    PROVE  Brings(0, 0)
  <1> DEFINE principal == vault[v].principal + amount
             routed    == vault[v].total_yield_routed
             bal       == balance[v] + amount
  <1>1. Effect(v, "Active", vault[v].cliff_ts, principal, routed, bal)
    BY DepositEffect
  <1>2. /\ principal \in Int /\ routed \in Int /\ bal \in Int /\ amount \in Nat
        /\ routed + (bal - principal) = Yield[v]
    BY Fields, Arguments DEF FundsInv, Yield, AvailableYield
  <1>3. \A d \in Donors : balance'[d] = balance[d]
    BY <1>2, Accounts, NotDonors, DonorsSpared DEF Deposit, FundsInv
  <1> HIDE DEF principal, routed, bal
  <1> QED
    BY <1>1, <1>2, <1>3, EffectBringsNothing

LEMMA SquadBrings ==
    ASSUME FundsInv, NEW v \in Vaults, NEW c \in Creators,
           (\E bps \in Allocations : AddCreator(v, c, bps)) \/ RemoveCreator(v, c)
    PROVE  Brings(0, 0)
  <1>1. Effect(v, vault[v].status, vault[v].cliff_ts, vault[v].principal,
               vault[v].total_yield_routed, balance[v])
    BY AddCreatorEffect, RemoveCreatorEffect
  <1>2. /\ vault[v].principal \in Int /\ vault[v].total_yield_routed \in Int
        /\ balance[v] \in Int
        /\ vault[v].total_yield_routed + (balance[v] - vault[v].principal) = Yield[v]
    BY Fields DEF FundsInv, Yield, AvailableYield
  <1>3. \A d \in Donors : balance'[d] = balance[d]
    BY DEF AddCreator, RemoveCreator
  <1> QED
    BY <1>1, <1>2, <1>3, EffectBringsNothing

LEMMA ReleaseBrings ==
    ASSUME FundsInv, DonorsApart, NEW v \in Vaults, NEW i \in Indices, NEW c \in Creators,
           ReleaseMilestone(v, i, c)
    PROVE  Brings(0, 0)
  <1> DEFINE pay       == Payout(v, i)
             principal == vault[v].principal - pay
             routed    == vault[v].total_yield_routed
             bal       == balance[v] - pay
  <1>1. Effect(v, "Active", vault[v].cliff_ts, principal, routed, bal) /\ pay \in Nat
    BY ReleaseMilestoneEffect
  <1>2. \A d \in Donors : balance'[d] = balance[d]
    BY <1>1, Accounts, NotDonors, DonorsSpared DEF ReleaseMilestone, FundsInv
  <1> HIDE DEF pay
  <1>3. /\ principal \in Int /\ routed \in Int /\ bal \in Int
        /\ routed + (bal - principal) = Yield[v]
    BY <1>1, Fields DEF FundsInv, Yield, AvailableYield
  <1> HIDE DEF principal, routed, bal
  <1> QED
    BY <1>1, <1>2, <1>3, EffectBringsNothing

\* A routing turns what was available into what was routed.
LEMMA RouteBrings ==
    ASSUME FundsInv, DonorsApart, NEW v \in Vaults, NEW c \in Creators,
           NEW amount \in Amounts, RouteYield(v, c, amount)
    PROVE  Brings(0, 0)
  <1> DEFINE routed == vault[v].total_yield_routed + amount
             bal    == balance[v] - amount
             fee    == GeckoFee(amount)
             mid    == Transfer(balance, v, Treasury, fee)
  <1>1. Effect(v, "Active", vault[v].cliff_ts, vault[v].principal, routed, bal)
    BY RouteYieldEffect
  <1>2. /\ vault[v].principal \in Int /\ routed \in Int /\ bal \in Int /\ amount \in Nat
        /\ routed + (bal - vault[v].principal) = Yield[v]
    BY Fields, Arguments DEF FundsInv, Yield, AvailableYield
  <1>3. ASSUME NEW d \in Donors PROVE balance'[d] = balance[d]
    <2>1. balance' = Transfer(mid, v, c, amount - fee)
      BY DEF RouteYield
    <2>2. /\ v \in TokenAccounts /\ c \in TokenAccounts /\ Treasury \in TokenAccounts
          /\ d \in TokenAccounts /\ d # v /\ d # c /\ d # Treasury
          /\ balance \in [TokenAccounts -> Nat]
      BY Accounts, NotDonors DEF FundsInv, TypeOK
    <2> HIDE DEF fee
    <2>3. mid[d] = balance[d] /\ DOMAIN mid = TokenAccounts
      BY <2>2 DEF Transfer
    <2> HIDE DEF mid
    <2> QED
      BY <2>1, <2>2, <2>3 DEF Transfer
  <1> HIDE DEF routed, bal
  <1> QED
    BY <1>1, <1>2, <1>3, EffectBringsNothing

\* close_vault takes away what was not routed, and leaves its vault Closed.
LEMMA CloseBrings ==
    ASSUME FundsInv, DonorsApart, NEW v \in Vaults, CloseVault(v)
    PROVE  \E n \in Int : Brings(n, 0)
  <1> DEFINE left == AvailableYield(v)
  <1>1. /\ Effect(v, "Closed", vault[v].cliff_ts, 0, vault[v].total_yield_routed, 0)
        /\ Active(v)
    BY CloseVaultEffect
  <1>2. left \in Nat /\ Yield[v] = vault[v].total_yield_routed + left
        /\ vault[v].total_yield_routed \in Int /\ 0 \in Int /\ Total(Yield) \in Int
        /\ OfDonors \in Int
    BY <1>1, Fields, YieldTypes DEF FundsInv, PrincipalCovered, Yield, AvailableYield
  <1>3. Total(Yield)' = Total(Yield) - Yield[v] + (vault[v].total_yield_routed + (0 - 0))
    BY <1>1, <1>2, EffectYield
  <1>4. OfDonors' = OfDonors
    <2>1. /\ balance' = Transfer(balance, v, SponsorOf[v], balance[v])
          /\ balance[v] \in Nat /\ v \in TokenAccounts /\ SponsorOf[v] \in TokenAccounts
          /\ v \notin Donors /\ SponsorOf[v] \notin Donors
      BY Accounts, Fields, NotDonors DEF CloseVault, FundsInv
    <2>2. \A d \in Donors : balance'[d] = balance[d] /\ balance[d] \in Int
      BY <2>1, DonorsSpared, YieldTypes DEF FundsInv
    <2> QED
      BY <2>2, FiniteSets, SumEqual DEF OfDonors
  <1>5. vault'[v].status = "Closed"
    BY <1>1 DEF Effect
  <1> HIDE DEF left
  <1>6. Brings(0 - left, 0)
    BY <1>2, <1>3, <1>4, <1>5 DEF Brings
  <1> QED
    BY <1>2, <1>6

\* What a donor sends is yield from then on.
LEMMA DonationBrings ==
    ASSUME FundsInv, DonorsApart, NEW w \in Donors, NEW v \in Vaults,
           NEW amount \in Amounts, ExternalTransfer(w, v, amount)
    PROVE  Brings(amount, amount)
  <1> DEFINE bal == balance[v] + amount
  <1>1. /\ Effect(v, "Active", vault[v].cliff_ts, vault[v].principal,
                  vault[v].total_yield_routed, bal)
        /\ amount \in Nat
    BY ExternalTransferEffect
  <1>2. /\ vault[v].principal \in Int /\ vault[v].total_yield_routed \in Int
        /\ bal \in Int /\ Total(Yield) \in Int /\ OfDonors \in Int /\ Yield[v] \in Int
        /\ vault[v].total_yield_routed + (bal - vault[v].principal) = Yield[v] + amount
    BY <1>1, Fields, YieldTypes DEF FundsInv, Yield, AvailableYield
  <1> HIDE DEF bal
  <1>3. Total(Yield)' = Total(Yield) - Yield[v]
                          + (vault[v].total_yield_routed + (bal - vault[v].principal))
    BY <1>1, <1>2, EffectYield
  <1>4. OfDonors' = OfDonors - amount
    <2>1. /\ \A d \in Donors : balance[d] \in Int
          /\ balance'[w] = balance[w] - amount /\ balance'[w] \in Int
          /\ \A d \in Donors \ {w} : balance'[d] = balance[d]
      <3>1. /\ balance' = Transfer(balance, w, v, amount)
            /\ balance \in [TokenAccounts -> Nat] /\ w \in TokenAccounts
            /\ v \in TokenAccounts /\ w # v
            /\ \A d \in Donors : d \in TokenAccounts /\ d # v
        BY Accounts, NotDonors DEF ExternalTransfer, FundsInv, TypeOK
      <3> QED
        BY <1>1, <3>1 DEF Transfer
    <2>2. OfDonors' = OfDonors - balance[w] + balance'[w]
      BY <2>1, FiniteSets, SumChange DEF OfDonors
    <2> QED
      BY <1>1, <1>2, <2>1, <2>2
  <1> QED
    BY <1>1, <1>2, <1>3, <1>4 DEF Brings

LEMMA EveryStepBrings ==
    ASSUME FundsInv, DonorsApart, Next
    PROVE  \E n, m \in Int : Brings(n, m)
  <1>0. ASSUME Brings(0, 0) PROVE \E n, m \in Int : Brings(n, m)
    BY <1>0
  <1>1. ASSUME NEW v \in Vaults, SponsorStep(v) PROVE \E n, m \in Int : Brings(n, m)
    <2>1. ASSUME NEW i \in Indices, NEW t \in Thresholds, NEW bps \in Payouts,
                 NEW g \in Targets, CreateMilestone(v, i, t, bps, g)
          PROVE  Brings(0, 0)
      BY <2>1, QuietBrings, QuietSteps DEF CreateMilestone
    <2>2. ASSUME CloseVault(v) PROVE \E n, m \in Int : Brings(n, m)
      BY <2>2, CloseBrings
    <2> QED
      BY <1>0, <1>1, <2>1, <2>2, OpenBrings, DepositBrings, SquadBrings DEF SponsorStep
  <1>2. ASSUME NEW v \in Vaults, AutomationStep(v) PROVE Brings(0, 0)
    <2>1. ASSUME NEW i \in Indices, NEW t \in Thresholds, NEW bps \in Payouts,
                 NEW g \in Targets, CreateMilestoneByAutomation(v, i, t, bps, g)
          PROVE  Brings(0, 0)
      BY <2>1, QuietBrings, QuietSteps DEF CreateMilestoneByAutomation
    <2> QED
      BY <1>2, <2>1, ReleaseBrings, RouteBrings DEF AutomationStep
  <1>3. ASSUME NEW v \in Vaults, OracleStep(v) PROVE Brings(0, 0)
    BY <1>3, QuietBrings, QuietSteps DEF OracleStep
  <1>4. ASSUME NEW w \in Donors, NEW v \in Vaults, NEW amount \in Amounts,
               ExternalTransfer(w, v, amount)
        PROVE  \E n, m \in Int : Brings(n, m)
    BY <1>4, DonationBrings, Arguments
  <1>5. CASE Tick
    BY <1>0, <1>5, QuietBrings, QuietSteps
  <1> QED
    BY <1>0, <1>1, <1>2, <1>3, <1>4, <1>5 DEF Next

OutsideInv == FundsInv /\ OutsideForm

LEMMA InitOutside == Init => OutsideInv
  <1> SUFFICES ASSUME Init PROVE OutsideForm
    BY InitFunds DEF OutsideInv
  <1>1. \A v \in Vaults : Yield[v] = 0
    BY Accounts DEF Init, NoVault, Yield, AvailableYield
  <1>2. Total(Yield) = 0
    BY <1>1, FiniteSets, SumZero DEF Total
  <1>3. \A d \in Donors : balance[d] = InitialFunds[d] /\ InitialFunds[d] \in Int
    BY Accounts, VaultAssumption DEF Init
  <1>4. OfDonors = SumFunctionOnSet(InitialFunds, Donors)
    BY <1>3, FiniteSets, SumEqual DEF OfDonors
  <1>5. OfDonors \in Int
    BY InitType, YieldTypes
  <1> QED
    BY <1>2, <1>4, <1>5 DEF OutsideForm, Arrived

LEMMA StepOutside ==
    ASSUME DonorsApart, OutsideInv, [Next]_vars
    PROVE  OutsideInv'
  <1>1. FundsInv /\ FundsInv' /\ TypeOK
    BY StepFunds DEF OutsideInv, FundsInv
  <1>2. \E n, m \in Int : Brings(n, m)
    <2>1. CASE UNCHANGED vars
      <3>1. Brings(0, 0)
        BY <1>1, <2>1, QuietBrings DEF vars, Quiet
      <3> QED
        BY <3>1
    <2> QED
      BY <1>1, <2>1, EveryStepBrings
  <1>3. PICK n \in Int, m \in Int : Brings(n, m)
    BY <1>2
  <1>4. Total(Yield) \in Int /\ OfDonors \in Int
        /\ SumFunctionOnSet(InitialFunds, Donors) \in Int
    BY <1>1, YieldTypes
  <1>5. Total(Yield)' <= Arrived'
    BY <1>3, <1>4 DEF Brings, Arrived, OutsideInv, OutsideForm
  <1>6. ASSUME NoneClosed' PROVE Total(Yield)' = Arrived'
    <2>1. NoneClosed
      <3>1. \A v \in Vaults : vault[v].status = "Closed" => vault'[v] = vault[v]
        BY <1>1, AnyStep DEF Untouched, vars
      <3> QED
        BY <1>6, <3>1 DEF NoneClosed
    <2>2. n = m
      BY <1>3, <1>6 DEF Brings, NoneClosed
    <2> QED
      BY <1>3, <1>4, <2>1, <2>2 DEF Brings, Arrived, OutsideInv, OutsideForm
  <1> QED
    BY <1>1, <1>5, <1>6 DEF OutsideInv, OutsideForm

\* However often a relayer repeats a routing it believes lost, and however deposits,
\* releases and squads interleave with it, all that was or can be routed is what
\* donors sent, less what closes took, for donors who receive nothing themselves.
THEOREM YieldIsFromOutside ==
    ASSUME DonorsApart
    PROVE  Spec => []YieldComesFromOutside
  <1>1. OutsideInv => YieldComesFromOutside
    BY OutsideForms DEF OutsideInv
  <1>2. OutsideInv /\ [Next]_vars => OutsideInv'
    BY StepOutside
  <1> QED
    BY <1>1, <1>2, InitOutside, PTL DEF Spec
================================================================================
