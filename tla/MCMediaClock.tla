---------------------------- MODULE MCMediaClock ----------------------------
(* Instances of MediaClock for TLC. *)
EXTENDS MediaClock

\* A step, an offset that unlocks, none, and one that is ignored as wild.
SomeBands == {-4, -2, 0, 3}
=============================================================================
