---------------------------- MODULE MCPtpPairing ----------------------------
(* Small instances of PtpPairing.                                           *)
EXTENDS PtpPairing
=============================================================================
