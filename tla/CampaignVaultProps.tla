--------------------------- MODULE CampaignVaultProps --------------------------
(***************************************************************************)
(* What CampaignVault is meant to guarantee: invariants, action            *)
(* properties, the liveness of closing, and the refinement of              *)
(* CampaignEscrow; and the statements of the repository that the program   *)
(* does not keep.                                                          *)
(***************************************************************************)
EXTENDS CampaignVault

\* Every field stays within its width: no balance, principal or count goes
\* negative or past its integer type, no bps field past 10_000, no score past 100.
TypeOK ==
    /\ now \in 0..MAX_I64
    /\ vault \in [Vaults -> VaultAccount]
    /\ member \in [Vaults -> [Creators -> SquadMember]]
    /\ score \in [Vaults -> [Creators -> SquadScore]]
    /\ milestone \in [Vaults -> [Indices -> PerformanceMilestone]]
    /\ balance \in [TokenAccounts -> Nat]

\* A vault always holds at least the principal it records: routed yield never
\* dips into it and a milestone's payout lowers both by the same amount.
PrincipalCovered == \A v \in Vaults : Active(v) => balance[v] >= vault[v].principal

\* No tokens and no recorded principal are left behind in a vault that is closed,
\* or present before it exists.
NothingLeftBehind ==
    \A v \in Vaults : ~Active(v) => balance[v] = 0 /\ vault[v].principal = 0

\* The denormalised counters of a SponsorVault agree with the SquadMember
\* accounts that add_creator and remove_creator open and close.
SquadBooks ==
    \A v \in Vaults :
       /\ vault[v].member_count = Cardinality(Squad(v))
       /\ vault[v].total_allocation_bps =
             SumFunction([c \in Creators |-> member[v][c].allocation_bps])

\* The treasury's token account receives nothing but fees: it is not the account
\* of a creator or of a sponsor.
TreasuryApart == Treasury \notin Creators /\ \A v \in Vaults : SponsorOf[v] # Treasury

\* All yield ever routed covers what the current members were credited with and
\* what the treasury collected, whatever mix of amounts, members and removals it
\* went through.  (Under TreasuryApart.)
YieldBooks ==
    SumFunction([v \in Vaults |-> vault[v].total_yield_routed])
       >= SumFunction([v \in Vaults |->
             SumFunction([c \in Creators |-> member[v][c].total_received])])
          + balance[Treasury] - InitialFunds[Treasury]

\* The treasury never collects more than its rate of all the yield ever routed:
\* rounding is per call, and always in the creators' favour.  (Under TreasuryApart.)
FeeWithinRate ==
    (balance[Treasury] - InitialFunds[Treasury]) * BPS_DENOMINATOR
       <= FEE_BPS * SumFunction([v \in Vaults |-> vault[v].total_yield_routed])

\* A donor neither sponsors a vault nor receives from one.
DonorsApart ==
    /\ Donors \cap Creators = {} /\ Treasury \notin Donors
    /\ \A v \in Vaults : SponsorOf[v] \notin Donors

\* However often a relayer repeats a routing it believes lost, all yield routed and
\* all that can still be routed is what arrived from outside; only a close takes
\* any of it away.  (Under DonorsApart.)
YieldComesFromOutside ==
    LET arrived == SumFunctionOnSet(InitialFunds, Donors) - SumFunctionOnSet(balance, Donors)
        yield   == SumFunction([v \in Vaults |->
                      vault[v].total_yield_routed + AvailableYield(v)])
    IN  /\ yield <= arrived
        /\ (\A v \in Vaults : vault[v].status # "Closed") => yield = arrived

\* Nothing but scores changes in a campaign once its vault is closed: no member,
\* milestone or counter moves, no token arrives, and it does not reopen.
ClosedIsFinal ==
    [][\A v \in Vaults : vault[v].status = "Closed" =>
          /\ UNCHANGED <<vault[v], member[v], milestone[v]>>
          /\ balance'[v] = balance[v]]_vars

\* A milestone pays at most once, and nothing else lowers an Active vault's
\* principal: its terms are fixed when it is created, and every fall of the
\* principal is the release of one milestone that was pending until then.
MilestonePaysOnce ==
    [][\A v \in Vaults :
          LET Released(i) ==
                /\ milestone[v][i].status = "Pending"
                /\ milestone'[v][i] = [milestone[v][i] EXCEPT !.status = "Released"]
          IN  /\ Active(v)' /\ vault'[v].principal < vault[v].principal
                 => \E i \in Indices : Released(i)
              /\ \A i \in Indices : milestone[v][i].status # "none" =>
                   \/ milestone'[v][i] = milestone[v][i]
                   \/ Released(i) /\ vault'[v].principal < vault[v].principal]_vars

\* Whatever the squad, the scores, the milestones and the yield, a sponsor who
\* keeps asking gets a vault closed after its cliff.
VaultEventuallyCloses == \A v \in Vaults : Active(v) ~> vault[v].status = "Closed"

\* The vaults implement the abstract escrow: principal is its locked pot, what
\* the token account holds above principal is its surplus pot.
Escrow == INSTANCE CampaignEscrow WITH
    Campaigns <- Vaults,
    time      <- now,
    phase     <- [v \in Vaults |-> vault[v].status],
    due       <- [v \in Vaults |-> vault[v].cliff_ts],
    locked    <- [v \in Vaults |-> vault[v].principal],
    surplus   <- [v \in Vaults |-> AvailableYield(v)],
    routed    <- [v \in Vaults |-> vault[v].total_yield_routed]

EscrowSpec == Escrow!Spec

--------------------------------------------------------------------------------
(* Statements of the repository that the program does not keep *)

\* remove_creator.rs: "allowing the sponsor to re-assign them via add_creator";
\* a test re-adds the creator it removed.  While the vault has room in its
\* allocation, any creator outside the squad can be added.
FreedAllocationReassignable ==
    \A v \in Vaults, c \in Creators, bps \in Allocations :
       /\ Active(v)
       /\ ~member[v][c].open
       /\ bps \in 1..(BPS_DENOMINATOR - vault[v].total_allocation_bps)
       /\ vault[v].member_count < MAX_U8
       => AddCreatorAllowed(v, c, bps)

\* release_milestone.rs: the payout goes "to the target creator", the default
\* key meaning any squad member.
BonusGoesToTarget ==
    [][\A v \in Vaults, i \in Indices, c \in Creators :
          /\ milestone[v][i].status = "Pending"
          /\ milestone'[v][i].status = "Released"
          /\ balance'[c] > balance[c]
          => milestone[v][i].target_creator \in {c, AnyCreator}]_vars

\* close_vault.rs: members still open when the vault closes can be "manually
\* closed"; remove_creator is the only instruction that closes one.
MembersCanBeClosed ==
    \A v \in Vaults, c \in Creators :
       vault[v].status = "Closed" /\ member[v][c].open => RemoveCreatorAllowed(v, c)
================================================================================
