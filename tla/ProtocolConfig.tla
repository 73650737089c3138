----------------------------- MODULE ProtocolConfig -----------------------------
(***************************************************************************)
(* The singleton GeckoConfig account, as the bytes three instructions      *)
(* write and the other instructions decode.                                *)
(*                                                                         *)
(* An account written before oracle_authority was added to the struct has  *)
(* authority, treasury and automation_authority in bytes 8..104, then      *)
(* fee_bps (u16), bump (u8) and the mint count (u32), then five slots of   *)
(* 32 bytes: 271 bytes.  In the current layout oracle_authority has bytes  *)
(* 104..136, everything after it is 32 bytes further on, and the account   *)
(* has 303 bytes.  migrate_config and repair_config copy raw bytes, so a   *)
(* field of one layout may come to be read as a part of another.           *)
(*                                                                         *)
(* From byte 104 on, the boundaries of both layouts cut the data into      *)
(* cells of 7 and 25 bytes in turn: data[104] is 7 bytes, data[111] 25,    *)
(* data[136] 7, and so on.  A cell holds zeros, a header (fee_bps, bump,   *)
(* count) or one end of a key.  Seven bytes of a key are never taken for   *)
(* a header: its count could be at most 5, which the last four bytes of a  *)
(* key are with probability below 2^-29.  Nor are zeros: a bump of 0 is    *)
(* not the canonical one that `bump = config.bump` compares with.          *)
(***************************************************************************)
EXTENDS GeckoMath, Sequences

CONSTANTS
    Keys,       \* wallets and authorities
    Mints,      \* token mints
    MintLists,  \* lists of mints an administrator submits
    NoKey       \* Pubkey::default()

ASSUME ConfigAssumption == NoKey \notin Keys \cup Mints /\ MintLists \subseteq Seq(Mints)

VARIABLES
    build,      \* the deployed program: "old" or "current"
    account     \* the account at [config]

configVars == <<build, account>>

--------------------------------------------------------------------------------
(* Layouts *)

KEY_BYTES  == 32
MAX_MINTS  == 5      \* #[max_len(5)]
OLD_HEADER == 104    \* fee_bps, bump and count before oracle_authority was added
HEADER     == 136    \* and after

SizeOf(header) == header + 7 + KEY_BYTES * MAX_MINTS

OLD_SIZE == SizeOf(OLD_HEADER)
NEW_SIZE == SizeOf(HEADER)

Cells == {c \in OLD_HEADER..(NEW_SIZE - 1) : (c - OLD_HEADER) % KEY_BYTES \in {0, 7}}

Zeros == [holds |-> "zeros"]
Header(fee_bps, n) == [holds |-> "header", fee_bps |-> fee_bps, count |-> n]
\* The bytes of a key in the cell at c, for a copy of the key that starts at `from`.
Piece(key, from, c) == [holds |-> "key", key |-> key, from |-> (from - OLD_HEADER) % KEY_BYTES,
                        first |-> c = from]

\* A key copied to the 32 bytes at `at`; they begin with a cell of 7 bytes.
WithKey(data, at, key) ==
    [data EXCEPT ![at] = Piece(key, at, at), ![at + 7] = Piece(key, at, at + 7)]

Slot(header, i) == header + 7 + KEY_BYTES * (i - 1)

\* fee_bps, bump and the mint list written at `header`, unused slots zeroed.
WithTerms(data, header, fee_bps, mints) ==
    [c \in DOMAIN data |->
       LET i == (c - header + 25) \div KEY_BYTES   \* the slot that covers cell c
       IN  CASE c < header       -> data[c]
             [] c = header       -> Header(fee_bps, Len(mints))
             [] i > Len(mints)   -> Zeros
             [] OTHER            -> Piece(mints[i], Slot(header, i), c)]

Blank == [c \in Cells |-> Zeros]

NoAccount == [size |-> 0, authority |-> NoKey, treasury |-> NoKey,
              automation_authority |-> NoKey, data |-> Blank]

--------------------------------------------------------------------------------
(* Reading *)

\* The key in the 32 bytes made of the cells at `at` and `next`, if it is one key.
KeyAt(at, next) ==
    LET whole == {k \in Keys \cup Mints : /\ account.data[at] = Piece(k, at, at)
                                          /\ account.data[next] = Piece(k, at, next)}
    IN  IF whole = {} THEN NoKey ELSE CHOOSE k \in whole : TRUE

\* Anchor decodes the account for the deployed program.
ReadableAt(header) ==
    /\ account.size > 0
    /\ account.data[header].holds = "header"
    /\ Slot(header, account.data[header].count + 1) <= account.size

HeaderInUse == IF build = "old" THEN OLD_HEADER ELSE HEADER

Readable == ReadableAt(HeaderInUse)

\* What a reader is given: config.fee_bps, config.allowed_mints and, by the
\* current program, config.oracle_authority.
FeeBps          == account.data[HeaderInUse].fee_bps
AllowedMints    == [i \in 1..account.data[HeaderInUse].count |->
                      KeyAt(Slot(HeaderInUse, i), Slot(HeaderInUse, i) + 25)]
OracleAuthority == KeyAt(OLD_HEADER, OLD_HEADER + 7)

--------------------------------------------------------------------------------
(* Instructions of the current program *)

\* Signed by whoever is first; a list longer than five does not fit the account.
InitConfig(signer, treasury, automation, oracle, mints) ==
    /\ build = "current"
    /\ account.size = 0
    /\ mints # <<>> /\ Len(mints) <= MAX_MINTS
    /\ account' = [size |-> NEW_SIZE, authority |-> signer, treasury |-> treasury,
                   automation_authority |-> automation,
                   data |-> WithTerms(WithKey(Blank, OLD_HEADER, oracle),
                                      HEADER, DEFAULT_FEE_BPS, mints)]
    /\ UNCHANGED build

BugMigrateOffset(signer, oracle) ==   \* mutant: one field too many before oracle_authority
    /\ build = "current" /\ account.size > 0 /\ account.authority = signer
    /\ account' = [account EXCEPT !.size = NEW_SIZE, !.data = WithKey(@, HEADER, oracle)]
    /\ UNCHANGED build

\* Signed by the authority in bytes 8..40, on an account of either size: resize
\* to the current one, and copy the oracle's key over bytes 104..136.
MigrateConfig(signer, oracle) ==
    /\ build = "current"
    /\ account.size > 0 /\ account.authority = signer
    /\ account' = [account EXCEPT !.size = NEW_SIZE,
                                  !.data = WithKey(@, OLD_HEADER, oracle)]
    /\ UNCHANGED build

BugAllMints(mints) == mints   \* mutant: no limit on the list

FirstMints(mints) == SubSeq(mints, 1, IF Len(mints) < MAX_MINTS THEN Len(mints) ELSE MAX_MINTS)

BugRepairOldOffset(data, oracle, mints) ==   \* mutant: fee, bump and mints at their old offset
    WithTerms(data, OLD_HEADER, DEFAULT_FEE_BPS, FirstMints(mints))

BugRepairFee(data, oracle, mints) ==   \* mutant: fee_bps left at the zeros of the resize
    WithTerms(WithKey(data, OLD_HEADER, oracle), HEADER, 0, FirstMints(mints))

\* What repair_config's writes leave in the data.
Repaired(data, oracle, mints) ==
    WithTerms(WithKey(data, OLD_HEADER, oracle), HEADER, DEFAULT_FEE_BPS, FirstMints(mints))

\* Signed by the same authority.  At least 143 bytes are asked for, but the last
\* slot ends at 303: on an account of the old size the write is out of range.
RepairConfig(signer, oracle, mints) ==
    /\ build = "current"
    /\ account.size >= 143 /\ account.authority = signer
    /\ Slot(HEADER, MAX_MINTS + 1) <= account.size
    /\ account' = [account EXCEPT !.data = Repaired(@, oracle, mints)]
    /\ UNCHANGED build

--------------------------------------------------------------------------------
(* Before the current program *)

\* What an older program's init_config left behind.
OldAccounts ==
    {[size |-> OLD_SIZE, authority |-> a, treasury |-> t, automation_authority |-> k,
      data |-> WithTerms(Blank, OLD_HEADER, DEFAULT_FEE_BPS, mints)] :
        a \in Keys, t \in Keys, k \in Keys,
        mints \in {ms \in MintLists : Len(ms) \in 1..MAX_MINTS}}

\* The current program is deployed afresh, or replaces an older one at some time.
Init ==
    \/ build = "current" /\ account = NoAccount
    \/ build = "old" /\ account \in OldAccounts

Upgrade == build = "old" /\ build' = "current" /\ UNCHANGED account

--------------------------------------------------------------------------------

Migrate(signer) == \E oracle \in Keys : MigrateConfig(signer, oracle)

Repair(signer) == \E oracle \in Keys, mints \in MintLists : RepairConfig(signer, oracle, mints)

Next ==
    \/ \E a, t, k, oracle \in Keys, mints \in MintLists : InitConfig(a, t, k, oracle, mints)
    \/ \E a \in Keys : Migrate(a) \/ Repair(a)
    \/ Upgrade

Spec == Init /\ [][Next]_configVars

\* An administrator faced with a config of an older program keeps submitting the
\* two instructions until each is executed: only the key in bytes 8..40 can sign
\* them.  The upgrade itself may never come.
KeepsMigrating == WF_configVars(\E a \in Keys : Migrate(a))
KeepsRepairing == WF_configVars(\E a \in Keys : Repair(a))

FairSpec == Spec /\ KeepsMigrating /\ KeepsRepairing
================================================================================
