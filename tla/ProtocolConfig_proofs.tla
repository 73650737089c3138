------------------------- MODULE ProtocolConfig_proofs -------------------------
(***************************************************************************)
(* The bytes of ProtocolConfig implement ConfigRecord, for all keys, mints *)
(* and mint lists: what the current program reads in the account is always *)
(* an oracle, a rate and mints that somebody submitted, never a key of one *)
(* layout taken for a field of the other, and migrate_config and           *)
(* repair_config keep a config readable once it is. And its types: both    *)
(* write within the account, whatever its size. And its recovery: an old   *)
(* config becomes readable for good in two phases, each of which one of    *)
(* the two instructions ends and none undoes.                              *)
(***************************************************************************)
EXTENDS ProtocolConfigProps, SequenceTheorems, TLAPS

--------------------------------------------------------------------------------
(* Layout arithmetic *)

LEMMA Offsets ==
    /\ KEY_BYTES = 32 /\ MAX_MINTS = 5 /\ OLD_HEADER = 104 /\ HEADER = 136
    /\ OLD_SIZE = 271 /\ NEW_SIZE = 303
  BY DEF KEY_BYTES, MAX_MINTS, OLD_HEADER, HEADER, OLD_SIZE, NEW_SIZE, SizeOf

LEMMA Counts ==
    /\ \A n : n \in Nat /\ n <= 5 => n \in 0..5
    /\ \A n : n \in 1..5 => ~(1 > n) /\ n <= 5
    /\ \A n \in 0..5 : \A i \in 1..n : i \in 1..5 /\ ~(i > n)
  OBVIOUS

LEMMA ShortList ==
    ASSUME NEW mints \in Seq(Mints), Len(mints) <= 5
    PROVE  Len(mints) \in 0..5
  <1>1. Len(mints) \in Nat
    BY LenProperties
  <1> QED
    BY <1>1, Counts, Zenon

\* A slot of the current layout is a cell of 25 bytes and the cell of 7 after it.
LEMMA SlotCells ==
    /\ 104 \in Cells /\ 111 \in Cells /\ 136 \in Cells
    /\ \A i \in 1..5 :
          LET at == Slot(136, i)
          IN  /\ at \in Cells /\ at + 25 \in Cells /\ at > 136
              /\ (at - 136 + 25) \div 32 = i
              /\ (at + 25 - 136 + 25) \div 32 = i
  BY Offsets DEF Cells, Slot

\* The data that a reader of the current program finds written in d.
Holds(d, oracle, mints) ==
    /\ d[104] = Piece(oracle, 104, 104) /\ d[111] = Piece(oracle, 104, 111)
    /\ d[136] = Header(DEFAULT_FEE_BPS, Len(mints))
    /\ \A i \in 1..Len(mints) :
          /\ d[Slot(136, i)] = Piece(mints[i], Slot(136, i), Slot(136, i))
          /\ d[Slot(136, i) + 25] = Piece(mints[i], Slot(136, i), Slot(136, i) + 25)

\* An oracle's key copied over bytes 104..136 changes nothing else.
LEMMA KeyWritten ==
    ASSUME NEW d, DOMAIN d = Cells, NEW oracle
    PROVE  /\ DOMAIN WithKey(d, OLD_HEADER, oracle) = Cells
           /\ WithKey(d, OLD_HEADER, oracle)[104] = Piece(oracle, 104, 104)
           /\ WithKey(d, OLD_HEADER, oracle)[111] = Piece(oracle, 104, 111)
           /\ \A c \in Cells \ {104, 111} : WithKey(d, OLD_HEADER, oracle)[c] = d[c]
  BY Offsets, SlotCells DEF WithKey

\* init_config and repair_config write a whole oracle and whole mints.
LEMMA TermsWritten ==
    ASSUME NEW d, DOMAIN d = Cells, NEW oracle, NEW mints \in Seq(Mints), Len(mints) <= 5
    PROVE  LET e == WithTerms(WithKey(d, OLD_HEADER, oracle), HEADER, DEFAULT_FEE_BPS, mints)
           IN  DOMAIN e = Cells /\ Holds(e, oracle, mints)
  <1> DEFINE w == WithKey(d, OLD_HEADER, oracle)
             e == WithTerms(w, HEADER, DEFAULT_FEE_BPS, mints)
  <1>1. DOMAIN w = Cells /\ w[104] = Piece(oracle, 104, 104) /\ w[111] = Piece(oracle, 104, 111)
    BY KeyWritten
  <1>2. Len(mints) \in 0..5
    BY ShortList
  <1> HIDE DEF w
  <1>3. DOMAIN e = Cells /\ e[104] = w[104] /\ e[111] = w[111]
        /\ e[136] = Header(DEFAULT_FEE_BPS, Len(mints))
    BY <1>1, Offsets, SlotCells DEF WithTerms
  <1>4. ASSUME NEW i \in 1..Len(mints), NEW c \in Cells, c > 136, (c - 136 + 25) \div 32 = i
        PROVE  e[c] = Piece(mints[i], Slot(136, i), c)
    <2>1. ~(i > Len(mints)) /\ c \in Nat
      BY <1>2, Counts DEF Cells, OLD_HEADER
    <2> QED
      BY <1>1, <1>4, <2>1, Offsets DEF WithTerms
  <1>5. ASSUME NEW i \in 1..Len(mints)
        PROVE  /\ e[Slot(136, i)] = Piece(mints[i], Slot(136, i), Slot(136, i))
               /\ e[Slot(136, i) + 25] = Piece(mints[i], Slot(136, i), Slot(136, i) + 25)
    <2> DEFINE at == Slot(136, i)
    <2>1. i \in 1..5
      BY <1>2, Counts
    <2>2. /\ at \in Cells /\ at + 25 \in Cells /\ at > 136 /\ at \in Nat
          /\ (at - 136 + 25) \div 32 = i /\ (at + 25 - 136 + 25) \div 32 = i
      BY <2>1, SlotCells, Offsets DEF Slot
    <2> HIDE DEF at, e
    <2>3. at + 25 > 136
      BY <2>2
    <2>4. e[at] = Piece(mints[i], Slot(136, i), at)
      BY <1>4, <2>2
    <2>5. e[at + 25] = Piece(mints[i], Slot(136, i), at + 25)
      BY <1>4, <2>2, <2>3
    <2> QED
      BY <2>4, <2>5 DEF at
  <1>6. Holds(e, oracle, mints)
    BY <1>1, <1>3, <1>5 DEF Holds
  <1> QED
    BY <1>3, <1>6 DEF w

\* A copied key is read as what it was.
LEMMA KeyRead ==
    ASSUME NEW at, NEW next, NEW k \in Keys \cup Mints,
           account.data[at] = Piece(k, at, at), account.data[next] = Piece(k, at, next)
    PROVE  KeyAt(at, next) = k
  <1> DEFINE whole == {j \in Keys \cup Mints : /\ account.data[at] = Piece(j, at, at)
                                              /\ account.data[next] = Piece(j, at, next)}
  <1>1. \A j : Piece(j, at, at) = Piece(k, at, at) => j = k
    BY DEF Piece
  <1>2. whole = {k}
    BY <1>1
  <1> QED
    BY <1>2 DEF KeyAt

--------------------------------------------------------------------------------
(* The invariant *)

Written ==
    \E oracle \in Keys, mints \in Seq(Mints) :
       Len(mints) <= 5 /\ Holds(account.data, oracle, mints)

KeysOf == {account.authority, account.treasury, account.automation_authority}

\* The account is absent; or of the old layout, in which the cell where the current
\* one has its header is a piece of the first mint; or of the current one, written
\* whole or, in that cell, not yet repaired.
ConfigInv ==
    /\ DOMAIN account = {"size", "authority", "treasury", "automation_authority", "data"}
    /\ DOMAIN account.data = Cells
    /\ \/ account.size = 0 /\ build = "current" /\ KeysOf = {NoKey}
       \/ /\ KeysOf \subseteq Keys /\ build \in {"old", "current"}
          /\ \/ account.size \in {271, 303} /\ account.data[136].holds # "header"
             \/ account.size = 303 /\ build = "current" /\ Written

LEMMA InitInv == Init => ConfigInv
  <1>1. CASE build = "current" /\ account = NoAccount
    BY <1>1 DEF ConfigInv, NoAccount, Blank, KeysOf
  <1>2. ASSUME NEW a \in Keys, NEW t \in Keys, NEW k \in Keys, NEW mints \in MintLists,
               Len(mints) \in 1..5, build = "old",
               account = [size |-> OLD_SIZE, authority |-> a, treasury |-> t,
                          automation_authority |-> k,
                          data |-> WithTerms(Blank, OLD_HEADER, DEFAULT_FEE_BPS, mints)]
        PROVE  ConfigInv
    <2>1. /\ DOMAIN account = {"size", "authority", "treasury", "automation_authority", "data"}
          /\ account.size = 271 /\ KeysOf = {a, t, k}
          /\ account.data = WithTerms(Blank, OLD_HEADER, DEFAULT_FEE_BPS, mints)
      BY <1>2, Offsets DEF KeysOf
    <2>2. DOMAIN account.data = Cells
      BY <2>1 DEF WithTerms, Blank
    <2>3. (136 - 104 + 25) \div 32 = 1 /\ ~(1 > Len(mints))
      <3>1. (136 - 104 + 25) \div 32 = 1
        OBVIOUS
      <3> QED
        BY <1>2, <3>1, Counts, Zenon
    <2>4. account.data[136] = Piece(mints[1], Slot(104, 1), 136)
      BY <2>1, <2>3, Offsets, SlotCells DEF WithTerms, Blank
    <2>5. account.data[136].holds # "header"
      BY <2>4 DEF Piece
    <2> QED
      BY <1>2, <2>1, <2>2, <2>5 DEF ConfigInv
  <1> QED
    BY <1>1, <1>2, Offsets DEF Init, OldAccounts

LEMMA InitConfigInv ==
    ASSUME ConfigInv, NEW a \in Keys, NEW t \in Keys, NEW k \in Keys, NEW oracle \in Keys,
           NEW mints \in MintLists, InitConfig(a, t, k, oracle, mints)
    PROVE  ConfigInv'
  <1> DEFINE e == WithTerms(WithKey(Blank, OLD_HEADER, oracle), HEADER, DEFAULT_FEE_BPS, mints)
  <1>1. mints \in Seq(Mints) /\ Len(mints) <= 5
    BY ConfigAssumption, Offsets DEF InitConfig
  <1>2. DOMAIN e = Cells /\ Holds(e, oracle, mints)
    BY <1>1, TermsWritten DEF Blank
  <1>3. /\ build = "current" /\ build' = build
        /\ account' = [size |-> 303, authority |-> a, treasury |-> t,
                       automation_authority |-> k, data |-> e]
    BY Offsets DEF InitConfig
  <1> HIDE DEF e
  <1>4. Written'
    BY <1>1, <1>2, <1>3 DEF Written
  <1> QED
    BY <1>2, <1>3, <1>4 DEF ConfigInv, KeysOf

LEMMA MigrateInv ==
    ASSUME ConfigInv, NEW a \in Keys, NEW oracle \in Keys, MigrateConfig(a, oracle)
    PROVE  ConfigInv'
  <1> DEFINE e == WithKey(account.data, OLD_HEADER, oracle)
  <1>1. /\ DOMAIN e = Cells
        /\ e[104] = Piece(oracle, 104, 104) /\ e[111] = Piece(oracle, 104, 111)
        /\ \A c \in Cells \ {104, 111} : e[c] = account.data[c]
    BY KeyWritten DEF ConfigInv
  <1>2. /\ account' = [account EXCEPT !.size = 303, !.data = e]
        /\ build = "current" /\ build' = build /\ account.size > 0
    BY Offsets DEF MigrateConfig
  <1> HIDE DEF e
  <1>3. /\ DOMAIN account' = DOMAIN account /\ account'.size = 303 /\ account'.data = e
        /\ KeysOf' = KeysOf /\ KeysOf \subseteq Keys
    BY <1>2 DEF ConfigInv, KeysOf
  <1>4. CASE account.data[136].holds # "header"
    BY <1>1, <1>2, <1>3, <1>4, SlotCells DEF ConfigInv
  <1>5. CASE Written
    <2>1. PICK o \in Keys, mints \in Seq(Mints) :
             Len(mints) <= 5 /\ Holds(account.data, o, mints)
      BY <1>5 DEF Written
    <2>2. Len(mints) \in Nat
      BY LenProperties
    <2>3. ASSUME NEW i \in 1..Len(mints)
          PROVE  Slot(136, i) \in Cells \ {104, 111} /\ Slot(136, i) + 25 \in Cells \ {104, 111}
      <3>1. i \in 1..5
        BY <2>1, <2>2, Counts, Zenon
      <3>2. Slot(136, i) \in Nat
        BY <3>1, Offsets DEF Slot
      <3> QED
        BY <3>1, <3>2, SlotCells
    <2>4. Holds(e, oracle, mints)
      BY <2>1, <2>3, <1>1, SlotCells DEF Holds
    <2> QED
      BY <2>1, <2>4, <1>1, <1>2, <1>3 DEF ConfigInv, Written
  <1> QED
    BY <1>2, <1>4, <1>5 DEF ConfigInv

\* A list cut to five mints is a list of mints.
LEMMA FirstMintsFacts ==
    ASSUME NEW mints \in Seq(Mints)
    PROVE  FirstMints(mints) \in Seq(Mints) /\ Len(FirstMints(mints)) <= 5
  <1> DEFINE n == IF Len(mints) < 5 THEN Len(mints) ELSE 5
  <1>1. Len(mints) \in Nat
    BY LenProperties
  <1>2. n \in 0..Len(mints) /\ n <= 5
    BY <1>1
  <1>3. FirstMints(mints) = SubSeq(mints, 1, n)
    BY Offsets DEF FirstMints
  <1> HIDE DEF n
  <1>4. SubSeq(mints, 1, n) \in Seq(Mints) /\ Len(SubSeq(mints, 1, n)) = n
    BY <1>1, <1>2, SubSeqProperties
  <1> QED
    BY <1>2, <1>3, <1>4

LEMMA RepairInv ==
    ASSUME ConfigInv, NEW a \in Keys, NEW oracle \in Keys, NEW mints \in MintLists,
           RepairConfig(a, oracle, mints)
    PROVE  ConfigInv'
  <1> DEFINE ms == FirstMints(mints)
             e == Repaired(account.data, oracle, mints)
  <1>1. ms \in Seq(Mints) /\ Len(ms) <= 5
    BY ConfigAssumption, FirstMintsFacts
  <1>2. DOMAIN e = Cells /\ Holds(e, oracle, ms)
    <2> HIDE DEF ms
    <2>1. e = WithTerms(WithKey(account.data, OLD_HEADER, oracle), HEADER, DEFAULT_FEE_BPS, ms)
      BY DEF Repaired, ms
    <2> QED
      BY <1>1, <2>1, TermsWritten DEF ConfigInv
  <1>3. /\ account' = [account EXCEPT !.data = e]
        /\ build = "current" /\ build' = build /\ account.size >= 303
    BY Offsets DEF RepairConfig, Slot
  <1> HIDE DEF e, ms
  <1>4. /\ DOMAIN account' = DOMAIN account /\ account'.size = 303 /\ account'.data = e
        /\ KeysOf' = KeysOf /\ KeysOf \subseteq Keys
    BY <1>3 DEF ConfigInv, KeysOf
  <1>5. Written'
    BY <1>1, <1>2, <1>4 DEF Written
  <1> QED
    BY <1>2, <1>3, <1>4, <1>5 DEF ConfigInv

LEMMA StepInv == ConfigInv /\ [Next]_configVars => ConfigInv'
  <1> SUFFICES ASSUME ConfigInv, [Next]_configVars PROVE ConfigInv'
    OBVIOUS
  <1>1. CASE Upgrade
    BY <1>1 DEF Upgrade, ConfigInv, KeysOf, Written
  <1>2. CASE UNCHANGED configVars
    BY <1>2 DEF configVars, ConfigInv, KeysOf, Written
  <1> QED
    BY <1>1, <1>2, InitConfigInv, MigrateInv, RepairInv DEF Next, Migrate, Repair

LEMMA ConfigInvariant == Spec => []ConfigInv
  BY InitInv, StepInv, PTL DEF Spec

--------------------------------------------------------------------------------
(* The refinement *)

\* What a reader of the current program finds.
ReaderSees ==
    /\ OracleAuthority \in Keys /\ FeeBps = DEFAULT_FEE_BPS
    /\ AllowedMints \in Seq(Mints) /\ Len(AllowedMints) <= 5

\* The three keys of creation are not written.
KeysKept ==
    /\ account'.authority = account.authority /\ account'.treasury = account.treasury
    /\ account'.automation_authority = account.automation_authority

\* The phase that the account's bytes stand for.
PhaseIs ==
    /\ account.size = 0 => Phase = "none"
    /\ account.size # 0 /\ build = "old" => Phase = "legacy"
    /\ account.size # 0 /\ build = "current" /\ account.data[136].holds # "header"
          => Phase = "unreadable"
    /\ account.size # 0 /\ build = "current" /\ account.data[136].holds = "header"
          => Phase = "readable"

\* The invariant as the refinement uses it.
Decoded == ConfigInv /\ PhaseIs /\ (Phase = "readable" => ReaderSees)

LEMMA WrittenIsRead ==
    ASSUME ConfigInv, build = "current", Written
    PROVE  ReaderSees
  <1>1. PICK oracle \in Keys, mints \in Seq(Mints) :
           Len(mints) <= 5 /\ Holds(account.data, oracle, mints)
    BY DEF Written
  <1>2. HeaderInUse = 136
    BY Offsets DEF HeaderInUse
  <1>3. OracleAuthority = oracle
    <2>1. /\ account.data[104] = Piece(oracle, 104, 104)
          /\ account.data[104 + 7] = Piece(oracle, 104, 104 + 7)
      BY <1>1 DEF Holds
    <2>2. KeyAt(104, 104 + 7) = oracle
      BY <2>1, KeyRead
    <2> QED
      BY <2>2, Offsets DEF OracleAuthority
  <1>4. /\ FeeBps = DEFAULT_FEE_BPS
        /\ account.data[HeaderInUse].count = Len(mints)
    BY <1>1, <1>2 DEF Holds, Header, FeeBps
  <1>5. Len(mints) \in Nat /\ DOMAIN mints = 1..Len(mints) /\ mints \in [1..Len(mints) -> Mints]
    BY LenProperties
  <1>6. AllowedMints = mints
    <2>1. ASSUME NEW i \in 1..Len(mints)
          PROVE  KeyAt(Slot(136, i), Slot(136, i) + 25) = mints[i]
      <3>1. mints[i] \in Mints
        BY <1>5
      <3>2. /\ account.data[Slot(136, i)] = Piece(mints[i], Slot(136, i), Slot(136, i))
            /\ account.data[Slot(136, i) + 25] = Piece(mints[i], Slot(136, i), Slot(136, i) + 25)
        BY <1>1 DEF Holds
      <3> QED
        BY <3>1, <3>2, KeyRead
    <2>2. AllowedMints = [i \in 1..Len(mints) |-> mints[i]]
      BY <1>2, <1>4, <2>1 DEF AllowedMints
    <2>3. [i \in 1..Len(mints) |-> mints[i]] = mints
      BY <1>5
    <2> QED
      BY <2>2, <2>3
  <1> QED
    BY <1>1, <1>3, <1>4, <1>6 DEF ReaderSees

\* The cases of Phase do not overlap.
LEMMA PhaseCases ==
    ASSUME ConfigInv
    PROVE  /\ build \in {"old", "current"} /\ Readable \in BOOLEAN
           /\ account.size = 0 => build = "current" /\ ~Readable
  BY DEF ConfigInv, Readable, ReadableAt

LEMMA BytesFixPhase == ConfigInv => PhaseIs
  <1> SUFFICES ASSUME ConfigInv PROVE PhaseIs
    OBVIOUS
  <1>1. ASSUME account.size # 0, build = "current" PROVE Readable <=> account.data[136].holds = "header"
    <2>1. CASE account.data[136].holds # "header"
      BY <2>1, <1>1, Offsets DEF Readable, ReadableAt, HeaderInUse
    <2>2. CASE account.data[136].holds = "header"
      <3>1. account.size = 303 /\ Written
        BY <2>2, <1>1 DEF ConfigInv
      <3>2. PICK n \in Nat : n <= 5 /\ account.data[136] = Header(DEFAULT_FEE_BPS, n)
        BY <3>1, LenProperties DEF Written, Holds
      <3>3. account.data[136].count = n
        BY <3>2 DEF Header
      <3>4. Slot(136, n + 1) <= 303
        BY <3>2, Offsets DEF Slot
      <3> QED
        BY <2>2, <1>1, <3>1, <3>3, <3>4, Offsets DEF Readable, ReadableAt, HeaderInUse
    <2> QED
      BY <2>1, <2>2
  <1> QED
    BY <1>1, PhaseCases DEF Phase, PhaseIs

LEMMA InvDecodes == ConfigInv => Decoded
  <1> SUFFICES ASSUME ConfigInv, Phase = "readable" PROVE ReaderSees
    BY BytesFixPhase DEF Decoded
  <1>1. account.size # 0 /\ build = "current" /\ Readable
    BY PhaseCases DEF Phase
  <1>2. account.data[136].holds = "header"
    BY <1>1, Offsets DEF Readable, ReadableAt, HeaderInUse
  <1> QED
    BY <1>1, <1>2, WrittenIsRead DEF ConfigInv

LEMMA InitRefines == Init => Record!Init
  <1> SUFFICES ASSUME Init PROVE Record!Init
    OBVIOUS
  <1>1. Decoded
    BY InitInv, InvDecodes
  <1>2. CASE build = "current" /\ account = NoAccount
    <2>1. Phase = "none"
      BY <1>1, <1>2 DEF Decoded, PhaseIs, NoAccount
    <2> QED
      BY <1>2, <2>1 DEF Record!Init, Record!Hidden, Shown, NoAccount
  <1>3. CASE build = "old" /\ account \in OldAccounts
    <2>1. /\ account.size = 271 /\ account.authority \in Keys
          /\ account.treasury \in Keys /\ account.automation_authority \in Keys
      BY <1>3, Offsets DEF OldAccounts
    <2>2. Phase = "legacy"
      BY <1>1, <1>3, <2>1 DEF Decoded, PhaseIs
    <2> QED
      BY <2>1, <2>2 DEF Record!Init, Record!Hidden, Record!KeySets, Shown
  <1> QED
    BY <1>2, <1>3 DEF Init

LEMMA CreateRefines ==
    ASSUME Decoded, Decoded', NEW a \in Keys, NEW t \in Keys, NEW k \in Keys,
           NEW oracle \in Keys, NEW mints \in MintLists, InitConfig(a, t, k, oracle, mints)
    PROVE  Record!Create
  <1> DEFINE e == WithTerms(WithKey(Blank, OLD_HEADER, oracle), HEADER, DEFAULT_FEE_BPS, mints)
  <1>1. mints \in Seq(Mints) /\ Len(mints) <= 5 /\ mints # <<>>
    BY ConfigAssumption, Offsets DEF InitConfig
  <1>2. DOMAIN e = Cells /\ Holds(e, oracle, mints)
    BY <1>1, TermsWritten DEF Blank
  <1>3. /\ build = "current" /\ build' = build /\ account.size = 0
        /\ account' = [size |-> 303, authority |-> a, treasury |-> t,
                       automation_authority |-> k, data |-> e]
    BY Offsets DEF InitConfig
  <1> HIDE DEF e
  <1>4. account'.data[136] = Header(DEFAULT_FEE_BPS, Len(mints))
    BY <1>2, <1>3 DEF Holds
  <1>5. Phase = "none" /\ Phase' = "readable" /\ ReaderSees'
    BY <1>3, <1>4 DEF Decoded, PhaseIs, Header
  <1>6. AllowedMints' # <<>>
    <2>1. DOMAIN AllowedMints' = 1..Len(mints)
      BY <1>3, <1>4, Offsets DEF AllowedMints, HeaderInUse, Header
    <2>2. Len(mints) \in Nat /\ Len(mints) # 0
      BY <1>1, LenProperties, EmptySeq
    <2>3. 1 \in DOMAIN AllowedMints'
      BY <2>1, <2>2
    <2> QED
      BY <2>3
  <1> QED
    BY <1>3, <1>5, <1>6, Offsets DEF Record!Create, Record!KeySets, Record!Visible, Shown, ReaderSees

\* Writing into an account that the current program can read, or making it readable.
LEMMA AmendRefines ==
    ASSUME Decoded, Decoded', KeysKept, account.size # 0, account'.size # 0,
           build = "current", build' = build, account'.data[136].holds = "header"
    PROVE  Record!Amend
  <1>1. Phase \in {"unreadable", "readable"} /\ Phase' = "readable" /\ ReaderSees'
    BY DEF Decoded, PhaseIs
  <1> QED
    BY <1>1, Offsets DEF Record!Amend, Record!Visible, Shown, ReaderSees, KeysKept

\* An account that was unreadable and still is shows its readers nothing.
LEMMA UnreadableStutters ==
    ASSUME Decoded, Decoded', KeysKept, account.size # 0, account'.size # 0,
           build = "current", build' = build,
           account.data[136].holds # "header", account'.data[136].holds # "header"
    PROVE  UNCHANGED Record!recordVars
  <1>1. Phase = "unreadable" /\ Phase' = "unreadable"
    BY DEF Decoded, PhaseIs
  <1> QED
    BY <1>1 DEF Record!recordVars, Shown, KeysKept

LEMMA MigrateRefines ==
    ASSUME Decoded, Decoded', NEW a \in Keys, NEW oracle \in Keys, MigrateConfig(a, oracle)
    PROVE  [Record!Next]_(Record!recordVars)
  <1> DEFINE e == WithKey(account.data, OLD_HEADER, oracle)
  <1>1. e[136] = account.data[136]
    BY KeyWritten, SlotCells DEF Decoded, ConfigInv
  <1>2. /\ account' = [account EXCEPT !.size = 303, !.data = e]
        /\ build = "current" /\ build' = build /\ account.size > 0
    BY Offsets DEF MigrateConfig
  <1> HIDE DEF e
  <1>3. account'.size = 303 /\ account'.data = e /\ account.size # 0 /\ KeysKept
    BY <1>2 DEF Decoded, ConfigInv, KeysKept
  <1> QED
    BY <1>1, <1>2, <1>3, AmendRefines, UnreadableStutters DEF Record!Next

LEMMA RepairRefines ==
    ASSUME Decoded, Decoded', NEW a \in Keys, NEW oracle \in Keys, NEW mints \in MintLists,
           RepairConfig(a, oracle, mints)
    PROVE  Record!Amend
  <1> DEFINE ms == FirstMints(mints)
             e == Repaired(account.data, oracle, mints)
  <1>1. ms \in Seq(Mints) /\ Len(ms) <= 5
    BY ConfigAssumption, FirstMintsFacts
  <1>2. e[136].holds = "header"
    <2> HIDE DEF ms
    <2>1. e = WithTerms(WithKey(account.data, OLD_HEADER, oracle), HEADER, DEFAULT_FEE_BPS, ms)
      BY DEF Repaired, ms
    <2>2. Holds(e, oracle, ms)
      BY <1>1, <2>1, TermsWritten DEF Decoded, ConfigInv
    <2> QED
      BY <2>2 DEF Holds, Header
  <1>3. /\ account' = [account EXCEPT !.data = e]
        /\ build = "current" /\ build' = build /\ account.size >= 303
    BY Offsets DEF RepairConfig, Slot
  <1> HIDE DEF e, ms
  <1>4. /\ account'.size = account.size /\ account.size # 0 /\ account'.data = e /\ KeysKept
    BY <1>3 DEF Decoded, ConfigInv, KeysKept
  <1> QED
    BY <1>2, <1>3, <1>4, AmendRefines

LEMMA UpgradeRefines ==
    ASSUME Decoded, Decoded', Upgrade
    PROVE  Record!Retire
  <1>1. /\ account.size # 0 /\ account.data[136].holds # "header"
        /\ build = "old" /\ build' = "current" /\ account' = account
    BY DEF Decoded, ConfigInv, Upgrade
  <1>2. Phase = "legacy" /\ Phase' = "unreadable"
    BY <1>1 DEF Decoded, PhaseIs
  <1> QED
    BY <1>1, <1>2 DEF Record!Retire, Record!Hidden, Shown

LEMMA StepRefines ==
    Decoded /\ Decoded' /\ [Next]_configVars => [Record!Next]_(Record!recordVars)
  <1> SUFFICES ASSUME Decoded, Decoded', [Next]_configVars
               PROVE  [Record!Next]_(Record!recordVars)
    OBVIOUS
  <1>1. CASE UNCHANGED configVars
    BY <1>1 DEF configVars, Record!recordVars, Shown, Phase, Readable, ReadableAt, HeaderInUse,
                OracleAuthority, FeeBps, AllowedMints, KeyAt
  <1> QED
    BY <1>1, CreateRefines, MigrateRefines, RepairRefines, UpgradeRefines
       DEF Next, Migrate, Repair, Record!Next

\* For all keys, mints and mint lists, and every sequence of upgrade, migration and
\* repair: readers get what somebody submitted or nothing, and a config that can be
\* read is never spoilt.
THEOREM ImplementsRecord == Spec => RecordSpec
  <1>1. Spec => []Decoded
    BY ConfigInvariant, InvDecodes, PTL
  <1> QED
    BY <1>1, InitRefines, StepRefines, PTL DEF Spec, RecordSpec, Record!Spec

--------------------------------------------------------------------------------
(* Types *)

Fits(x, c, size) ==
    \/ x = Zeros
    \/ x \in Pieces /\ c < size
    \/ x.holds = "header" /\ x.count \in 0..5

AllFit(data, size) == DOMAIN data = Cells /\ \A c \in Cells : Fits(data[c], c, size)

TypeInv ==
    /\ build \in {"old", "current"}
    /\ DOMAIN account = {"size", "authority", "treasury", "automation_authority", "data"}
    /\ account.size \in {0, 271, 303}
    /\ KeysOf \subseteq (IF account.size = 0 THEN {NoKey} ELSE Keys)
    /\ AllFit(account.data, account.size)

LEMMA TypeInvIsEnough == TypeInv => TypeOK
  BY Offsets DEF TypeInv, TypeOK, AllFit, Fits, KeysOf

LEMMA PieceFits ==
    ASSUME NEW key \in Keys \cup Mints, NEW from \in Int, (from - 104) % 32 \in {0, 7},
           NEW c \in Int, NEW size \in Int, c < size
    PROVE  Fits(Piece(key, from, c), c, size)
  BY Offsets DEF Fits, Piece, Pieces

\* A larger account still has the same cells.
LEMMA GrownFits ==
    ASSUME NEW data, NEW size \in {271, 303}, AllFit(data, size)
    PROVE  AllFit(data, 303)
  <1>1. \A c \in Cells : c < size => c < 303
    BY Offsets DEF Cells
  <1> QED
    BY <1>1 DEF AllFit, Fits

LEMMA KeyFits ==
    ASSUME NEW data, NEW size \in {271, 303}, AllFit(data, size), NEW oracle \in Keys
    PROVE  AllFit(WithKey(data, OLD_HEADER, oracle), size)
  <1> DEFINE w == WithKey(data, OLD_HEADER, oracle)
  <1>1. /\ DOMAIN w = Cells
        /\ w[104] = Piece(oracle, 104, 104) /\ w[111] = Piece(oracle, 104, 111)
        /\ \A c \in Cells \ {104, 111} : w[c] = data[c]
    BY KeyWritten DEF AllFit
  <1>2. Fits(Piece(oracle, 104, 104), 104, size) /\ Fits(Piece(oracle, 104, 111), 111, size)
    <2>1. /\ (104 - 104) % 32 = 0
          /\ 104 < size /\ 111 < size /\ size \in Int
      OBVIOUS
    <2>2. Fits(Piece(oracle, 104, 104), 104, size)
      BY <2>1, PieceFits
    <2>3. Fits(Piece(oracle, 104, 111), 111, size)
      BY <2>1, PieceFits
    <2> QED
      BY <2>2, <2>3
  <1> HIDE DEF w
  <1>3. \A c \in Cells : Fits(w[c], c, size)
    BY <1>1, <1>2 DEF AllFit
  <1> QED
    BY <1>1, <1>3 DEF AllFit, w

\* Slot i of a list at header, if the list is that long, covers cell c, starts with
\* a cell of 25 bytes, and ends within the account.
Covers(header, i, c) ==
    /\ i \in Nat /\ i >= 1
    /\ i <= 5 => c < header + 167 /\ (Slot(header, i) - 104) % 32 = 7

\* A cell past the header lies in one slot.
LEMMA CellSlot ==
    ASSUME NEW c \in Cells, NEW header \in {104, 136}, ~(c < header), c # header,
           NEW i, i = (c - header + 25) \div 32
    PROVE  Covers(header, i, c)
  <1>1. c \in 104..302 /\ (c - 104) % 32 \in {0, 7}
    BY Offsets DEF Cells
  <1>2. i \in Nat /\ i >= 1 /\ (i <= 5 => c < header + 167)
    BY <1>1
  <1>3. ASSUME i <= 5 PROVE (Slot(header, i) - 104) % 32 = 7
    <2>1. Slot(header, i) = header + 7 + 32 * (i - 1)
      BY Offsets DEF Slot
    <2>2. i \in 1..5
      BY <1>2, <1>3
    <2>3. \A j \in 1..5 : (104 + 7 + 32 * (j - 1) - 104) % 32 = 7
                          /\ (136 + 7 + 32 * (j - 1) - 104) % 32 = 7
      OBVIOUS
    <2> QED
      BY <2>1, <2>2, <2>3
  <1> QED
    BY <1>2, <1>3 DEF Covers

LEMMA TermsFit ==
    ASSUME NEW data, NEW size \in {271, 303}, AllFit(data, size),
           NEW header \in {104, 136}, header + 167 <= size,
           NEW mints \in Seq(Mints), Len(mints) <= 5
    PROVE  AllFit(WithTerms(data, header, DEFAULT_FEE_BPS, mints), size)
  <1> DEFINE e == WithTerms(data, header, DEFAULT_FEE_BPS, mints)
  <1>1. DOMAIN e = Cells
    BY DEF AllFit, WithTerms
  <1>2. Len(mints) \in 0..5
    BY ShortList
  <1>3. ASSUME NEW c \in Cells PROVE Fits(e[c], c, size)
    <2> DEFINE i == (c - header + 25) \div 32
    <2>1. e[c] = CASE c < header       -> data[c]
                   [] c = header       -> Header(DEFAULT_FEE_BPS, Len(mints))
                   [] i > Len(mints)   -> Zeros
                   [] OTHER            -> Piece(mints[i], Slot(header, i), c)
      BY Offsets DEF AllFit, WithTerms
    <2>2. c \in Nat
      BY Offsets DEF Cells
    <2>3. CASE c < header
      BY <2>1, <2>2, <2>3 DEF AllFit
    <2>4. CASE c = header
      <3>1. e[c] = Header(DEFAULT_FEE_BPS, Len(mints))
        BY <2>1, <2>2, <2>4
      <3> QED
        BY <1>2, <3>1 DEF Fits, Header
    <2>5. CASE ~(c < header) /\ c # header
      <3>0. i = (c - header + 25) \div 32
        OBVIOUS
      <3> HIDE DEF i, e
      <3>1. Covers(header, i, c)
        BY <2>2, <2>5, <3>0, CellSlot
      <3>2. CASE i > Len(mints)
        BY <2>1, <2>5, <3>2 DEF Fits
      <3>3. CASE ~(i > Len(mints))
        <4>1. i \in 1..Len(mints) /\ i <= 5
          BY <1>2, <3>1, <3>3 DEF Covers
        <4>2. mints[i] \in Mints
          BY <4>1, ElementOfSeq
        <4>3. c < size
          BY <2>2, <3>1, <4>1 DEF Covers
        <4>4. e[c] = Piece(mints[i], Slot(header, i), c)
          BY <2>1, <2>5, <3>3
        <4>5. Slot(header, i) \in Int /\ size \in Int /\ c \in Int
          BY <2>2, <3>1, Offsets DEF Slot, Covers
        <4>6. (Slot(header, i) - 104) % 32 \in {0, 7}
          BY <3>1, <4>1 DEF Covers
        <4> QED
          BY <4>2, <4>3, <4>4, <4>5, <4>6, PieceFits
      <3> QED
        BY <3>2, <3>3
    <2> QED
      BY <2>3, <2>4, <2>5
  <1> QED
    BY <1>1, <1>3 DEF AllFit

LEMMA BlankFits == \A size : AllFit(Blank, size)
  BY DEF AllFit, Fits, Blank

LEMMA InitTyped == Init => TypeInv
  <1>1. ASSUME build = "current", account = NoAccount PROVE TypeInv
    BY <1>1, BlankFits DEF TypeInv, NoAccount, KeysOf
  <1>2. ASSUME build = "old", account \in OldAccounts PROVE TypeInv
    <2>1. PICK a \in Keys, t \in Keys, k \in Keys,
               mints \in {ms \in MintLists : Len(ms) \in 1..MAX_MINTS} :
             account = [size |-> OLD_SIZE, authority |-> a, treasury |-> t,
                        automation_authority |-> k,
                        data |-> WithTerms(Blank, OLD_HEADER, DEFAULT_FEE_BPS, mints)]
      BY <1>2 DEF OldAccounts
    <2>2. mints \in Seq(Mints) /\ Len(mints) <= 5
      <3>1. mints \in MintLists /\ Len(mints) \in 1..5
        BY Offsets
      <3>2. mints \in Seq(Mints)
        BY <3>1, ConfigAssumption
      <3>3. Len(mints) <= 5
        BY <3>1, Counts, Zenon
      <3> QED
        BY <3>2, <3>3
    <2>3. AllFit(WithTerms(Blank, OLD_HEADER, DEFAULT_FEE_BPS, mints), 271)
      BY <2>2, BlankFits, TermsFit, Offsets
    <2> QED
      BY <1>2, <2>1, <2>3, Offsets DEF TypeInv, KeysOf
  <1> QED
    BY <1>1, <1>2 DEF Init

LEMMA InitConfigTyped ==
    ASSUME TypeInv, NEW a \in Keys, NEW t \in Keys, NEW k \in Keys, NEW oracle \in Keys,
           NEW mints \in MintLists, InitConfig(a, t, k, oracle, mints)
    PROVE  TypeInv'
  <1> DEFINE d == WithTerms(WithKey(Blank, OLD_HEADER, oracle), HEADER, DEFAULT_FEE_BPS, mints)
  <1>1. mints \in Seq(Mints) /\ Len(mints) <= 5
    BY Offsets, ConfigAssumption DEF InitConfig
  <1>2. AllFit(d, 303)
    BY <1>1, BlankFits, KeyFits, TermsFit, Offsets
  <1>3. /\ account' = [size |-> 303, authority |-> a, treasury |-> t,
                       automation_authority |-> k, data |-> d]
        /\ build' = build
    BY Offsets DEF InitConfig
  <1> HIDE DEF d
  <1> QED
    BY <1>2, <1>3 DEF TypeInv, KeysOf

LEMMA MigrateTyped ==
    ASSUME TypeInv, NEW a \in Keys, NEW oracle \in Keys, MigrateConfig(a, oracle)
    PROVE  TypeInv'
  <1> DEFINE d == WithKey(account.data, OLD_HEADER, oracle)
  <1>1. account.size \in {271, 303}
    BY DEF TypeInv, MigrateConfig
  <1>2. AllFit(d, 303)
    BY <1>1, KeyFits, GrownFits DEF TypeInv
  <1>3. account' = [account EXCEPT !.size = 303, !.data = d] /\ build' = build
    BY Offsets DEF MigrateConfig
  <1> HIDE DEF d
  <1> QED
    BY <1>1, <1>2, <1>3 DEF TypeInv, KeysOf

LEMMA RepairTyped ==
    ASSUME TypeInv, NEW a \in Keys, NEW oracle \in Keys, NEW mints \in MintLists,
           RepairConfig(a, oracle, mints)
    PROVE  TypeInv'
  <1> DEFINE d == Repaired(account.data, oracle, mints)
  <1>1. account.size = 303
    BY Offsets DEF TypeInv, RepairConfig, Slot
  <1>2. FirstMints(mints) \in Seq(Mints) /\ Len(FirstMints(mints)) <= 5
    BY FirstMintsFacts, ConfigAssumption
  <1>3. AllFit(d, 303)
    BY <1>1, <1>2, KeyFits, TermsFit, Offsets DEF TypeInv, Repaired
  <1>4. account' = [account EXCEPT !.data = d] /\ build' = build
    BY DEF RepairConfig
  <1> HIDE DEF d
  <1> QED
    BY <1>1, <1>3, <1>4 DEF TypeInv, KeysOf

\* Whatever mint lists are submitted, the account keeps one of its two sizes, its
\* first three keys and cells of a known kind, none of them past its end.
THEOREM ConfigTypeCorrect == Spec => []TypeOK
  <1>1. TypeInv /\ [Next]_configVars => TypeInv'
    <2> SUFFICES ASSUME TypeInv, [Next]_configVars PROVE TypeInv'
      OBVIOUS
    <2>1. CASE Upgrade \/ UNCHANGED configVars
      BY <2>1 DEF TypeInv, KeysOf, Upgrade, configVars
    <2> QED
      BY <2>1, InitConfigTyped, MigrateTyped, RepairTyped DEF Next, Migrate, Repair
  <1> QED
    BY <1>1, InitTyped, TypeInvIsEnough, PTL DEF Spec

--------------------------------------------------------------------------------
(* Recovery *)

\* The current program is deployed, and finds a config.
Up == build = "current" /\ account.size > 0

Unmigrated == Up /\ account.size = OLD_SIZE
Unrepaired == Up /\ account.size = NEW_SIZE /\ ~Readable
Recovered  == build = "current" /\ Readable

\* The two instructions written out, down to the value of both variables, and the rule
\* of ENABLED for actions of that form: one is enabled where, for some signer and inputs,
\* its guard holds and a value differs.  The rules are of the logic, which the provers
\* lack, and true of any such action; that the two instructions are these actions, and
\* who can sign them with what, is for the proof to show.
MigrateWritten ==
    \E a \in Keys : \E oracle \in Keys :
       /\ build = "current"
       /\ account.size > 0 /\ account.authority = a
       /\ account' = [account EXCEPT !.size = NEW_SIZE,
                                     !.data = WithKey(account.data, OLD_HEADER, oracle)]
       /\ UNCHANGED build

MigrateRule ==
    (\E a \in Keys : \E oracle \in Keys :
       /\ build = "current"
       /\ account.size > 0 /\ account.authority = a
       /\ [account EXCEPT !.size = NEW_SIZE,
                          !.data = WithKey(account.data, OLD_HEADER, oracle)] # account)
    => ENABLED <<MigrateWritten>>_configVars

RepairWritten ==
    \E a \in Keys : \E oracle \in Keys, mints \in MintLists :
       /\ build = "current"
       /\ account.size >= 143 /\ account.authority = a
       /\ Slot(HEADER, MAX_MINTS + 1) <= account.size
       /\ account' = [account EXCEPT !.data = Repaired(account.data, oracle, mints)]
       /\ UNCHANGED build

RepairRule ==
    (\E a \in Keys : \E oracle \in Keys, mints \in MintLists :
       /\ build = "current"
       /\ account.size >= 143 /\ account.authority = a
       /\ Slot(HEADER, MAX_MINTS + 1) <= account.size
       /\ [account EXCEPT !.data = Repaired(account.data, oracle, mints)] # account)
    => ENABLED <<RepairWritten>>_configVars

\* An account was created with some list of mints.
ListsExist == account.size > 0 => MintLists # {}

LEMMA SomeList == Spec => []ListsExist
  <1>1. Init => ListsExist
    BY DEF Init, NoAccount, OldAccounts, ListsExist
  <1>2. ListsExist /\ [Next]_configVars => ListsExist'
    BY DEF ListsExist, Next, configVars, InitConfig, Migrate, MigrateConfig, Repair,
           RepairConfig, Upgrade
  <1> QED
    BY <1>1, <1>2, PTL DEF Spec

\* Such an account is in one of the three states, and it is readable if it has a header.
UpState ==
    ConfigInv /\ Up =>
       /\ account.size \in {271, 303}
       /\ Readable <=> account.data[136].holds = "header"
       /\ Unmigrated \/ Unrepaired \/ Recovered

LEMMA UpCases == UpState
  <1> SUFFICES ASSUME ConfigInv, Up
               PROVE  /\ account.size \in {271, 303}
                      /\ Readable <=> account.data[136].holds = "header"
                      /\ Unmigrated \/ Unrepaired \/ Recovered
    BY DEF UpState
  <1>1. account.size \in {271, 303}
    BY DEF ConfigInv, Up
  <1>2. Readable <=> account.data[136].holds = "header"
    BY <1>1, BytesFixPhase DEF Up, PhaseIs, Phase
  <1> QED
    BY <1>1, <1>2, Offsets DEF Up, Unmigrated, Unrepaired, Recovered

LEMMA UpCasesNext == UpState'
  BY UpCases, PTL

\* An account never shrinks back, nor loses its header.
LEMMA MigrateKeeps ==
    ASSUME ConfigInv, Up, NEW a \in Keys, Migrate(a)
    PROVE  /\ build' = build /\ account'.size = 303
           /\ account'.data[136] = account.data[136]
  <1>1. PICK oracle \in Keys : MigrateConfig(a, oracle)
    BY DEF Migrate
  <1> DEFINE e == WithKey(account.data, OLD_HEADER, oracle)
  <1>2. e[136] = account.data[136]
    BY KeyWritten, SlotCells DEF ConfigInv
  <1>3. account' = [account EXCEPT !.size = 303, !.data = e] /\ build' = build
    BY <1>1, Offsets DEF MigrateConfig
  <1> HIDE DEF e
  <1> QED
    BY <1>2, <1>3 DEF ConfigInv

LEMMA RepairedHeader ==
    ASSUME ConfigInv, NEW oracle \in Keys, NEW mints \in MintLists
    PROVE  Repaired(account.data, oracle, mints)[136].holds = "header"
  <1> DEFINE ms == FirstMints(mints)
             e == WithTerms(WithKey(account.data, OLD_HEADER, oracle), HEADER, DEFAULT_FEE_BPS, ms)
  <1>1. ms \in Seq(Mints) /\ Len(ms) <= 5
    BY ConfigAssumption, FirstMintsFacts
  <1>2. e[136].holds = "header"
    <2> HIDE DEF ms
    <2>1. Holds(e, oracle, ms)
      BY <1>1, TermsWritten DEF ConfigInv
    <2> QED
      BY <2>1 DEF Holds, Header
  <1> QED
    BY <1>2 DEF Repaired

LEMMA RepairWrites ==
    ASSUME ConfigInv, NEW a \in Keys, Repair(a)
    PROVE  /\ build = "current" /\ build' = build /\ account'.size = 303
           /\ account'.data[136].holds = "header"
  <1>1. PICK oracle \in Keys, mints \in MintLists : RepairConfig(a, oracle, mints)
    BY DEF Repair
  <1> DEFINE e == Repaired(account.data, oracle, mints)
  <1>2. e[136].holds = "header"
    BY RepairedHeader
  <1>3. /\ account' = [account EXCEPT !.data = e]
        /\ build = "current" /\ build' = build /\ account.size >= 303
    BY <1>1, Offsets DEF RepairConfig, Slot
  <1> HIDE DEF e
  <1> QED
    BY <1>2, <1>3 DEF ConfigInv

LEMMA UpStep ==
    ASSUME ConfigInv, Up, [Next]_configVars
    PROVE  /\ Up' /\ account'.size \in {account.size, 303}
           /\ account.data[136].holds = "header" => account'.data[136].holds = "header"
  <1>1. CASE UNCHANGED configVars
    BY <1>1 DEF configVars, Up
  <1>2. CASE Upgrade \/ \E a, t, k, oracle \in Keys, mints \in MintLists :
                            InitConfig(a, t, k, oracle, mints)
    BY <1>2 DEF Upgrade, InitConfig, Up
  <1>3. ASSUME NEW a \in Keys, Migrate(a) \/ Repair(a)
        PROVE  /\ build' = "current" /\ account'.size = 303
               /\ account.data[136].holds = "header" => account'.data[136].holds = "header"
    BY <1>3, MigrateKeeps, RepairWrites DEF Up
  <1> QED
    BY <1>1, <1>2, <1>3 DEF Next, Up

\* An account that exists, for whichever build, is there to stay.
LEMMA AccountStays ==
    ASSUME ConfigInv, account.size > 0, [Next]_configVars
    PROVE  account'.size > 0
  <1>1. CASE build = "current"
    BY <1>1, UpStep DEF Up
  <1>2. CASE build # "current"
    BY <1>2 DEF Next, Upgrade, InitConfig, Migrate, MigrateConfig, Repair, RepairConfig, configVars
  <1> QED
    BY <1>1, <1>2

LEMMA UnmigratedStep ==
    ASSUME ConfigInv, Unmigrated, [Next]_configVars
    PROVE  Unmigrated' \/ Unrepaired' \/ Recovered'
  <1>1. ConfigInv' /\ Up'
    BY StepInv, UpStep DEF Unmigrated
  <1> QED
    BY <1>1, UpCasesNext DEF UpState

LEMMA UnrepairedStep ==
    ASSUME ConfigInv, Unrepaired, [Next]_configVars
    PROVE  Unrepaired' \/ Recovered'
  <1>1. ConfigInv' /\ Up' /\ account'.size = 303
    BY StepInv, UpStep, Offsets DEF Unrepaired
  <1> QED
    BY <1>1, Offsets DEF Up, Unrepaired, Recovered

LEMMA RecoveredStep ==
    ASSUME ConfigInv, Recovered, [Next]_configVars
    PROVE  Recovered'
  <1>1. Up /\ account.data[136].holds = "header"
    BY UpCases, PhaseCases DEF UpState, Recovered, Up, ConfigInv
  <1>2. ConfigInv' /\ Up' /\ account'.data[136].holds = "header"
    BY <1>1, StepInv, UpStep
  <1> QED
    BY <1>2, UpCasesNext DEF UpState, Recovered, Up

LEMMA MigratingMigrates ==
    ASSUME ConfigInv, Unmigrated, \E a \in Keys : Migrate(a)
    PROVE  Unrepaired' \/ Recovered'
  <1>1. PICK a \in Keys : Migrate(a)
    OBVIOUS
  <1>2. build' = "current" /\ account'.size = 303
    BY <1>1, MigrateKeeps DEF Unmigrated, Up
  <1> QED
    BY <1>2, Offsets DEF Unrepaired, Recovered, Up

LEMMA RepairingRepairs ==
    ASSUME ConfigInv, [Next]_configVars, \E a \in Keys : Repair(a)
    PROVE  Recovered'
  <1>1. PICK a \in Keys : Repair(a)
    OBVIOUS
  <1>2. ConfigInv' /\ build' = "current" /\ account'.size = 303
        /\ account'.data[136].holds = "header"
    BY <1>1, RepairWrites, StepInv
  <1>3. Up'
    BY <1>2 DEF Up
  <1> QED
    BY <1>2, <1>3, UpCasesNext DEF UpState, Recovered, Up

LEMMA MayMigrate ==
    ASSUME ConfigInv, Unmigrated
    PROVE  \E a \in Keys : \E oracle \in Keys :
             /\ build = "current"
             /\ account.size > 0 /\ account.authority = a
             /\ [account EXCEPT !.size = NEW_SIZE,
                                !.data = WithKey(account.data, OLD_HEADER, oracle)] # account
  <1>1. account.authority \in Keys /\ build = "current" /\ account.size > 0
    BY Offsets DEF ConfigInv, KeysOf, Unmigrated, Up
  <1>2. ASSUME NEW d PROVE [account EXCEPT !.size = NEW_SIZE, !.data = d] # account
    <2> DEFINE r == [account EXCEPT !.size = NEW_SIZE, !.data = d]
    <2>1. r.size = 303
      BY Offsets DEF ConfigInv
    <2>2. account.size # 303
      BY Offsets DEF Unmigrated
    <2> HIDE DEF r
    <2>3. r # account
      BY <2>1, <2>2
    <2> QED
      BY <2>3 DEF r
  <1> QED
    BY <1>1, <1>2

LEMMA MayRepair ==
    ASSUME ConfigInv, ListsExist, Unrepaired
    PROVE  \E a \in Keys : \E oracle \in Keys, mints \in MintLists :
             /\ build = "current"
             /\ account.size >= 143 /\ account.authority = a
             /\ Slot(HEADER, MAX_MINTS + 1) <= account.size
             /\ [account EXCEPT !.data = Repaired(account.data, oracle, mints)] # account
  <1>1. account.authority \in Keys /\ build = "current" /\ account.size = 303
    BY Offsets DEF ConfigInv, KeysOf, Unrepaired, Up
  <1>2. PICK mints \in MintLists : TRUE
    BY <1>1 DEF ListsExist
  <1>3. [account EXCEPT !.data = Repaired(account.data, account.authority, mints)] # account
    <2> DEFINE e == Repaired(account.data, account.authority, mints)
    <2>1. e[136].holds = "header"
      BY <1>1, RepairedHeader
    <2>2. account.data[136].holds # "header"
      BY UpCases DEF UpState, Unrepaired
    <2> HIDE DEF e
    <2> DEFINE r == [account EXCEPT !.data = e]
    <2>3. r.data = e
      BY DEF ConfigInv
    <2> HIDE DEF r
    <2>4. r # account
      BY <2>1, <2>2, <2>3
    <2> QED
      BY <2>4 DEF e, r
  <1>4. Slot(HEADER, MAX_MINTS + 1) <= account.size /\ account.size >= 143
    BY <1>1, Offsets DEF Slot
  <1> QED
    BY <1>1, <1>2, <1>3, <1>4

LEMMA MigratingIsEnabled ==
    ASSUME ConfigInv, Unmigrated, MigrateRule
    PROVE  ENABLED <<\E a \in Keys : Migrate(a)>>_configVars
  <1>1. ENABLED <<MigrateWritten>>_configVars
    BY MayMigrate DEF MigrateRule
  <1> QED
    BY <1>1 DEF MigrateWritten, Migrate, MigrateConfig

LEMMA RepairingIsEnabled ==
    ASSUME ConfigInv, ListsExist, Unrepaired, RepairRule
    PROVE  ENABLED <<\E a \in Keys : Repair(a)>>_configVars
  <1>1. ENABLED <<RepairWritten>>_configVars
    BY MayRepair DEF RepairRule
  <1> QED
    BY <1>1 DEF RepairWritten, Repair, RepairConfig

\* A config that the current program finds, of either layout, becomes readable and
\* stays so, once the administrator keeps submitting both instructions: the migration
\* makes room for the repair, and a migration executed late spoils nothing.
THEOREM ConfigIsRecovered == FairSpec /\ []MigrateRule /\ []RepairRule => ConfigRecovers
  <1>1. ConfigInv /\ Up => Unmigrated \/ Unrepaired \/ Recovered
    BY UpCases DEF UpState
  <1>2. ConfigInv /\ Unmigrated /\ [Next]_configVars => Unmigrated' \/ Unrepaired' \/ Recovered'
    BY UnmigratedStep
  <1>3. ConfigInv /\ Unrepaired /\ [Next]_configVars => Unrepaired' \/ Recovered'
    BY UnrepairedStep
  <1>4. ConfigInv /\ Recovered /\ [Next]_configVars => Recovered'
    BY RecoveredStep
  <1>5. ConfigInv /\ Unmigrated /\ <<\E a \in Keys : Migrate(a)>>_configVars
           => Unrepaired' \/ Recovered'
    BY MigratingMigrates
  <1>6. ConfigInv /\ [Next]_configVars /\ <<\E a \in Keys : Repair(a)>>_configVars => Recovered'
    BY RepairingRepairs
  <1>7. ConfigInv /\ Unmigrated /\ MigrateRule
           => ENABLED <<\E a \in Keys : Migrate(a)>>_configVars
    BY MigratingIsEnabled
  <1>8. ConfigInv /\ ListsExist /\ Unrepaired /\ RepairRule
           => ENABLED <<\E a \in Keys : Repair(a)>>_configVars
    BY RepairingIsEnabled
  <1>9. Spec /\ KeepsMigrating /\ KeepsRepairing /\ []MigrateRule /\ []RepairRule
           => (Up ~> []Recovered)
    BY <1>1, <1>2, <1>3, <1>4, <1>5, <1>6, <1>7, <1>8, ConfigInvariant, SomeList, PTL
       DEF Spec, KeepsMigrating, KeepsRepairing
  <1> QED
    BY <1>9 DEF FairSpec, ConfigRecovers, Up, Recovered
================================================================================
