---------------------------- MODULE MCGeckoProgram -----------------------------
(***************************************************************************)
(* The smallest instance of the whole program in which every instruction   *)
(* of every component has its chance: one vault with one creator and one   *)
(* milestone, one bettor, one administrator.                               *)
(***************************************************************************)
EXTENDS GeckoProgramProps

CONSTANTS v1, sponsor, treasury, source, alice, b1, usdc, donor

MCSponsorOf == [v \in Vaults |-> sponsor]

MCVaultFunds == [w \in Wallets |-> CASE w = sponsor -> 50 [] w = source -> 50 [] OTHER -> 0]

MCPoolFunds == [w \in Bettors \cup PoolDonors |-> 2]

MCMintLists == {<<>>, <<usdc>>}
================================================================================
