---------------------------- MODULE MCDiscovery ----------------------------
(* Small instances of Discovery.                                            *)
EXTENDS Discovery
CONSTANTS h1, g0

OneHost   == {h1}
NoHost    == {}
MCFlowIp  == [f \in 0..0 |-> g0]
EdgeLists == {<<1>>, <<1, 2>>, <<1, 2, 1>>}
NoLists   == {}
=============================================================================
