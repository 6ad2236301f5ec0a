----------------------------- MODULE MCMcrDante -----------------------------
(* Instances of McrDante for TLC: a unit is 50 ppb. *)
EXTENDS McrDante

MCRates      == {-7, 12}
MCPhaseTerms == {0, 3}
=============================================================================
