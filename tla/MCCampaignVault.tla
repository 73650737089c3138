---------------------------- MODULE MCCampaignVault ----------------------------
(***************************************************************************)
(* Instances of CampaignVault for TLC: the vaults of one sponsor, up to    *)
(* three creators, a treasury, and a yield source outside the program.     *)
(***************************************************************************)
EXTENDS CampaignVaultProps, TLC

CONSTANTS v1, v2, sponsor, treasury, source, alice, bob, carol

CONSTANTS SponsorFunds, YieldFunds

MCSponsorOf == [v \in Vaults |-> sponsor]

MCInitialFunds ==
    [w \in Wallets |-> CASE w = sponsor -> SponsorFunds
                         [] w = source  -> YieldFunds
                         [] OTHER       -> 0]

\* The instances satisfy the hypotheses of the theorems about fees and yield.
ASSUME WalletsApart == TreasuryApart /\ DonorsApart

MCSymmetry == Permutations(Creators)
================================================================================
