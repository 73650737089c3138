------------------------------ MODULE ConfigRecord ------------------------------
(***************************************************************************)
(* What the protocol config promises to the instructions that read it,     *)
(* without bytes or layouts.  It is created once and its keys never        *)
(* change; what a reader is given is one oracle, the standard fee and a    *)
(* short list of whole mints.  An upgrade of the program may leave it      *)
(* unreadable, but once the current program can read it, it always can.    *)
(***************************************************************************)
EXTENDS Integers, Sequences

CONSTANTS Keys, Mints, MaxMints, StandardFee, NoKey

VARIABLES
    phase,  \* "none", "legacy" (read by an older program), "unreadable", "readable"
    keys,   \* authority, treasury and automation_authority
    oracle, \* what a reader of the current program is given: the oracle,
    fee,    \* the rate,
    mints   \* and the accepted mints

recordVars == <<phase, keys, oracle, fee, mints>>

KeySets == [{"authority", "treasury", "automation_authority"} -> Keys]

Hidden  == oracle = NoKey /\ fee = 0 /\ mints = <<>>
Visible == /\ oracle \in Keys /\ fee = StandardFee
           /\ mints \in Seq(Mints) /\ Len(mints) <= MaxMints

Init ==
    /\ Hidden
    /\ \/ phase = "none" /\ \A k \in DOMAIN keys : keys[k] = NoKey
       \/ phase = "legacy" /\ keys \in KeySets

\* The first caller fixes the keys, with at least one mint.
Create ==
    /\ phase = "none" /\ phase' = "readable"
    /\ keys' \in KeySets
    /\ Visible' /\ mints' # <<>>

\* The program is upgraded; the account is not.
Retire == phase = "legacy" /\ phase' = "unreadable" /\ Hidden' /\ UNCHANGED keys

\* The administrator sets what readers see.
Amend ==
    /\ phase \in {"unreadable", "readable"} /\ phase' = "readable"
    /\ Visible'
    /\ UNCHANGED keys

Next == Create \/ Retire \/ Amend

Spec == Init /\ [][Next]_recordVars
================================================================================
