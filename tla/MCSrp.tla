------------------------------- MODULE MCSrp -------------------------------
(* Two talker streams, so that one vector follows the one with LeaveAll,    *)
(* three remote streams for two table entries.                              *)
EXTENDS Srp, TLC
CONSTANTS t1, t2
(* Nothing tells the remote streams, or the senders, apart.                 *)
StreamsAndMacs == Permutations(Remote) \cup Permutations(Macs)
TwoTalkers == <<t1, t2>>
=============================================================================
