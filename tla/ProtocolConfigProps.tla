-------------------------- MODULE ProtocolConfigProps --------------------------
(***************************************************************************)
(* What ProtocolConfig is meant to guarantee: the refinement of            *)
(* ConfigRecord and the recovery of old configs; and a statement of the    *)
(* repository that the program does not keep.                              *)
(***************************************************************************)
EXTENDS ProtocolConfig

Pieces == [holds : {"key"}, key : Keys \cup Mints, from : {0, 7}, first : BOOLEAN]

\* The account has one of its two sizes, whole keys in its first fields, nothing
\* past its end, and headers that count no more mints than there are slots.
TypeOK ==
    /\ build \in {"old", "current"}
    /\ account.size \in {0, OLD_SIZE, NEW_SIZE}
    /\ {account.authority, account.treasury, account.automation_authority}
          \subseteq (IF account.size = 0 THEN {NoKey} ELSE Keys)
    /\ \A c \in Cells :
          \/ account.data[c] = Zeros
          \/ account.data[c] \in Pieces /\ c < account.size
          \/ account.data[c].holds = "header" /\ account.data[c].count \in 0..MAX_MINTS

Phase ==
    CASE account.size = 0              -> "none"
      [] build = "old"                 -> "legacy"
      [] build = "current" /\ Readable -> "readable"
      [] OTHER                         -> "unreadable"

Shown(value, hidden) == IF Phase = "readable" THEN value ELSE hidden

\* The bytes implement the abstract record: whatever the layouts an account went
\* through, a reader is given the standard fee, the oracle and the mints as whole
\* keys that somebody submitted, or cannot read it at all; the three keys written
\* at creation survive; and an account that can be read is never spoilt.
Record == INSTANCE ConfigRecord WITH
    MaxMints    <- MAX_MINTS,
    StandardFee <- DEFAULT_FEE_BPS,
    phase       <- Phase,
    keys        <- [authority |-> account.authority, treasury |-> account.treasury,
                    automation_authority |-> account.automation_authority],
    oracle      <- Shown(OracleAuthority, NoKey),
    fee         <- Shown(FeeBps, 0),
    mints       <- Shown(AllowedMints, <<>>)

RecordSpec == Record!Spec

\* A config left by an older program becomes readable again once its administrator
\* keeps trying: repair_config alone cannot do it, and migrate_config undoes none
\* of it, in whatever order and however often the two are executed.
ConfigRecovers == build = "current" /\ account.size > 0 ~> [](build = "current" /\ Readable)

--------------------------------------------------------------------------------
(* Statements of the repository that the program does not keep *)

\* migrate_config.rs: expands the config "to the current layout", "because ...
\* Anchor cannot deserialize it".  An account of the current size is readable.
MigratedIsReadable == account.size = NEW_SIZE => Readable
================================================================================
