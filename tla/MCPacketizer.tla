---------------------------- MODULE MCPacketizer ----------------------------
(***************************************************************************)
(* Two packet sizes over a second of 12 samples: neither divides the       *)
(* other, so that dues of different contexts fall together and apart.      *)
(***************************************************************************)
EXTENDS Packetizer

Fpps == {4, 6}
OneSlot == {2}

=============================================================================
