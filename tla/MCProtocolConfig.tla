--------------------------- MODULE MCProtocolConfig ----------------------------
(***************************************************************************)
(* Instances of ProtocolConfig for TLC: lists of every length up to six    *)
(* mints, one more than a config holds, alternating between two of them.   *)
(***************************************************************************)
EXTENDS ProtocolConfigProps

CONSTANTS usdc, usdt

Alternating(a, b) == [i \in 1..(MAX_MINTS + 1) |-> IF i % 2 = 1 THEN a ELSE b]

MCMintLists ==
    {SubSeq(s, 1, n) : s \in {Alternating(usdc, usdt), Alternating(usdt, usdc)},
                       n \in 0..(MAX_MINTS + 1)}
================================================================================
