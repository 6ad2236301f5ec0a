---------------------------- MODULE FlowRegistry ----------------------------
(***************************************************************************)
(* What the flow table promises its users, without contexts, registers or  *)
(* ages: a registry of at most Capacity flows, one per key.  The key of a  *)
(* unicast flow is its receiver's socket, of a multicast bundle its flow   *)
(* id.  A request for a known key replaces that entry; a new key is        *)
(* admitted while there is room and otherwise takes the place of one       *)
(* entry; a release removes one entry or all of them.                      *)
(***************************************************************************)
EXTENDS Naturals, FiniteSets

CONSTANT Capacity
VARIABLE entries      \* a set of records with a field "key"

Keys(S) == {e.key : e \in S}

Init == entries = {}

Refresh ==
  \E e \in entries' :
    /\ e.key \in Keys(entries)
    /\ entries' = {x \in entries : x.key # e.key} \cup {e}

Admit ==
  \E e \in entries' :
    /\ e.key \notin Keys(entries)
    /\ Cardinality(entries) < Capacity
    /\ entries' = entries \cup {e}

Evict ==
  \E e \in entries', victim \in entries :
    /\ e.key \notin Keys(entries)
    /\ Cardinality(entries) = Capacity
    /\ entries' = (entries \ {victim}) \cup {e}

Release ==
  \/ \E e \in entries : entries' = entries \ {e}
  \/ entries' = {}

Next == Refresh \/ Admit \/ Evict \/ Release

Spec == Init /\ [][Next]_entries
=============================================================================
