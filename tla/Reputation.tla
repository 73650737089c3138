------------------------------- MODULE Reputation -------------------------------
(***************************************************************************)
(* The reputation accounts: one per creator, overwritten by the oracle     *)
(* with the lifetime totals it keeps outside the program.                  *)
(*                                                                         *)
(* The oracle is the environment.  After a campaign it signs an update     *)
(* with its new totals.  Once signed an update may be executed at once,    *)
(* after later ones, again because its confirmation was missed, or never.  *)
(***************************************************************************)
EXTENDS GeckoMath, Sequences

CONSTANTS
    Creators,       \* wallets with a reputation
    Scores,         \* global_score values the oracle submits
    Earnings,       \* what a creator earns in one campaign
    MAX_CAMPAIGNS   \* campaigns the oracle reports in the model

\* Assumed of the constants by the module that instantiates this one.
ReputationAssumption ==
    Scores \subseteq Nat /\ Earnings \subseteq Nat /\ MAX_CAMPAIGNS \in Nat

VARIABLES
    reputation, \* the account at [reputation, c]; an absent one is all zeros
    submitted   \* the updates the oracle has signed for c, in the order of the campaigns

NoReputation == [global_score |-> 0, total_campaigns |-> 0, total_yield_earned |-> 0]

Init ==
    /\ reputation = [c \in Creators |-> NoReputation]
    /\ submitted = [c \in Creators |-> <<>>]

\* Another campaign of c has ended: the oracle's totals move on.
SubmitUpdate(c, global_score, earned) ==
    LET earlier == submitted[c]
        before  == IF earlier = <<>> THEN 0 ELSE earlier[Len(earlier)].total_yield_earned
    IN  /\ Len(earlier) < MAX_CAMPAIGNS
        /\ submitted' = [submitted EXCEPT ![c] = Append(@,
              [global_score |-> global_score, total_campaigns |-> Len(earlier) + 1,
               total_yield_earned |-> before + earned])]
        /\ UNCHANGED reputation

\* Mutant: init for init_if_needed, so that only the first update finds no account.
BugInitOnly(c, update) ==
    /\ update.global_score <= 100 /\ reputation[c] = NoReputation
    /\ reputation' = [reputation EXCEPT ![c] = update]
    /\ UNCHANGED submitted

\* Signed by config.oracle_authority: creates the account if needed and replaces
\* every field of it, whatever is there.
UpdateReputation(c, update) ==
    /\ update.global_score <= 100
    /\ reputation' = [reputation EXCEPT ![c] = update]
    /\ UNCHANGED submitted
================================================================================
