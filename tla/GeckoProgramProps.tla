--------------------------- MODULE GeckoProgramProps ---------------------------
(***************************************************************************)
(* What the components guarantee together, in particular while the config  *)
(* cannot be read, or never will be.                                       *)
(***************************************************************************)
EXTENDS GeckoProgram

\* The rate a vault recorded when it was created, under any build, is the one
\* route_yield charges from the config whenever it can be read.
FeeAsRecorded ==
    \A v \in Vaults : vault[v].status # "none" /\ C!Readable =>
       vault[v].gecko_fee_bps = C!FeeBps

\* The pool's campaign is settled for the side b backed, b was not paid yet, and the
\* payout fits a u64.
Owed(b) ==
    /\ pool.status = "Settled"
    /\ position[b].open /\ position[b].side = pool.outcome /\ ~position[b].claimed
    /\ P!WinningsFit(b)

\* An unreadable config freezes nobody's funds: in every state a sponsor whose
\* cliff has passed can close the vault, and a winner whose payout fits a u64 can
\* be paid.
FundsNeverFrozen ==
    /\ \A v \in Vaults :
          V!Active(v) /\ now >= vault[v].cliff_ts => ENABLED <<CloseVault(v)>>_vars
    /\ \A b \in Bettors : Owed(b) => ENABLED <<ClaimWinnings(b)>>_vars

\* The account of c shows the report the oracle signed last, or the program refuses that.
UpToDate(c) ==
    LET latest == submitted[c][Len(submitted[c])]
    IN  submitted[c] # <<>> /\ (reputation[c] = latest \/ latest.global_score > 100)

\* Stakes are accepted while the config cannot be read and the pool cannot be
\* settled; once the administrator migrates and repairs it and the oracle settles,
\* the pool is settled.
PoolEventuallySettled ==
    KeepsMigrating /\ KeepsRepairing /\ KeepsSettling
       => (pool.status = "Open" ~> pool.status = "Settled")

\* Nothing orders the updates of a reputation: one that is executed late, or again,
\* undoes a newer one, and none is executed while the config cannot be read.  With an
\* oracle that goes on sending its latest report, and an administrator who migrates and
\* repairs, the account still comes to show that report, unless its score is refused.
ReputationCatchesUp ==
    KeepsMigrating /\ KeepsRepairing /\ (\A c \in Creators : KeepsReporting(c))
       => \A c \in Creators :
             build = "current" /\ account.size > 0 /\ submitted[c] # <<>>
                ~> UpToDate(c)

\* Whether or not anybody ever makes the config readable, a vault that is opened is
\* closed in the end, and a winner whose payout fits a u64 is paid.
FundsArePaidOut ==
    /\ \A v \in Vaults : V!Active(v) ~> vault[v].status = "Closed"
    /\ \A b \in Bettors : Owed(b) ~> position[b].claimed

\* ConfidencePool takes the campaign for an environment that may close once and
\* for good.  That is what the vaults really do: the program implements it.
PoolSpec == P!Spec
================================================================================
