----------------------------- MODULE ConfigStore -----------------------------
(***************************************************************************)
(* What the persistent configuration promises the firmware, without flash  *)
(* words, magic numbers or checksums: a record that survives power loss.   *)
(* A save stores a configuration that differs in one parameter; until it   *)
(* is done the record that was kept may be lost, and is then the defaults, *)
(* but it never comes back and nothing else is ever found in its place.    *)
(***************************************************************************)
CONSTANT Defaults

VARIABLES
  live,   \* the configuration in use
  kept,   \* the one a boot would find
  busy    \* a save is running

Init == live = Defaults /\ kept = Defaults /\ busy = FALSE

Save ==
  /\ ~busy /\ busy' = TRUE
  /\ \E p \in DOMAIN live : live' = [live EXCEPT ![p] = live'[p]]
  /\ UNCHANGED kept

Lose ==
  /\ busy
  /\ kept' = Defaults
  /\ UNCHANGED <<live, busy>>

Finish ==
  /\ busy /\ busy' = FALSE
  /\ kept' = live
  /\ UNCHANGED live

Boot ==
  /\ live' = kept /\ busy' = FALSE
  /\ UNCHANGED kept

Next == Save \/ Lose \/ Finish \/ Boot

Spec == Init /\ [][Next]_<<live, kept, busy>>
=============================================================================
