---------------------------- MODULE MCFlowTable ----------------------------
(* Small instances of FlowTable for TLC.                                    *)
EXTENDS FlowTable, TLC
CONSTANTS h1, h2, g0, g1

TwoGroups   == <<g0, g1>>
MCFlowIp    == [f \in 0..1 |-> TwoGroups[f + 1]]
OneHost     == {h1}
TwoHosts    == {h1, h2}
ShortLists  == {<<1>>}
PairLists   == {<<1>>, <<2, 9>>}

(* Nothing tells the receivers apart.                                       *)
Receivers   == Permutations(TwoHosts)
=============================================================================
