---------------------------- MODULE CampaignEscrow -----------------------------
(***************************************************************************)
(* What a campaign vault promises, without accounts, squads or scores.     *)
(* Each campaign holds two pots.  The locked pot is the sponsor's          *)
(* principal: it grows by the sponsor's deposits and shrinks only by       *)
(* milestone bonuses until, once the campaign is due, it is returned.  The *)
(* surplus pot is yield: it grows from outside and is the only source of   *)
(* routed yield.  Neither pot is overdrawn, neither pays for the other,    *)
(* and a returned campaign is empty for good.                              *)
(***************************************************************************)
EXTENDS Integers

CONSTANT Campaigns

VARIABLES time, phase, due, locked, surplus, routed

escrowVars == <<time, phase, due, locked, surplus, routed>>

Init ==
    /\ time = 0
    /\ phase = [v \in Campaigns |-> "none"]
    /\ due = [v \in Campaigns |-> 0]
    /\ locked = [v \in Campaigns |-> 0]
    /\ surplus = [v \in Campaigns |-> 0]
    /\ routed = [v \in Campaigns |-> 0]

\* pot changes at v alone, and stays a natural number: it is never overdrawn.
OnlyAt(pot, v) == pot'[v] \in Nat /\ pot' = [pot EXCEPT ![v] = pot'[v]]

\* A campaign starts with what the sponsor locks up front, and falls due later.
Open(v) ==
    /\ phase[v] = "none"
    /\ phase' = [phase EXCEPT ![v] = "Active"]
    /\ OnlyAt(due, v) /\ due'[v] > time
    /\ OnlyAt(locked, v)
    /\ UNCHANGED <<time, surplus, routed>>

Lock(v) ==
    /\ phase[v] = "Active"
    /\ OnlyAt(locked, v) /\ locked'[v] > locked[v]
    /\ UNCHANGED <<time, phase, due, surplus, routed>>

Accrue(v) ==
    /\ phase[v] = "Active"
    /\ OnlyAt(surplus, v) /\ surplus'[v] > surplus[v]
    /\ UNCHANGED <<time, phase, due, locked, routed>>

\* Routed yield comes out of the surplus pot alone, to the last unit.
PayYield(v) ==
    /\ phase[v] = "Active"
    /\ OnlyAt(surplus, v) /\ surplus'[v] < surplus[v]
    /\ routed' = [routed EXCEPT ![v] = @ + (surplus[v] - surplus'[v])]
    /\ UNCHANGED <<time, phase, due, locked>>

\* A bonus comes out of the locked pot alone.
PayBonus(v) ==
    /\ phase[v] = "Active"
    /\ OnlyAt(locked, v) /\ locked'[v] < locked[v]
    /\ UNCHANGED <<time, phase, due, surplus, routed>>

Return(v) ==
    /\ phase[v] = "Active"
    /\ time >= due[v]
    /\ phase' = [phase EXCEPT ![v] = "Closed"]
    /\ locked' = [locked EXCEPT ![v] = 0]
    /\ surplus' = [surplus EXCEPT ![v] = 0]
    /\ UNCHANGED <<time, due, routed>>

Elapse == time' = time + 1 /\ UNCHANGED <<phase, due, locked, surplus, routed>>

Next ==
    \/ \E v \in Campaigns : \/ Open(v) \/ Lock(v) \/ Accrue(v)
                            \/ PayYield(v) \/ PayBonus(v) \/ Return(v)
    \/ Elapse

Spec == Init /\ [][Next]_escrowVars
================================================================================
