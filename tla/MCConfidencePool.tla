--------------------------- MODULE MCConfidencePool ----------------------------
(***************************************************************************)
(* Instances of ConfidencePool for TLC: a few bettors with unequal purses, *)
(* so that payouts round, and one donor.                                   *)
(***************************************************************************)
EXTENDS ConfidencePoolProps, TLC

CONSTANTS b1, b2, b3, b4, donor

\* Purses differ, so that stakes need not divide the pot evenly.
MCInitialFunds ==
    [w \in Bettors \cup Donors |-> CASE w = b1 -> 3 [] w = b2 -> 5 [] w = b3 -> 7
                                     [] OTHER -> 2]
================================================================================
