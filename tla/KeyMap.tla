------------------------------- MODULE KeyMap -------------------------------
(* What a CMap (map.h) promises its users: a set of keys and how many there are. *)
EXTENDS Naturals

CONSTANT Key

VARIABLES keys, count

Init == keys = {} /\ count = 0

Add(k) ==
  /\ k \notin keys
  /\ keys' = keys \union {k}
  /\ count' = count + 1

Del(k) ==
  /\ k \in keys
  /\ keys' = keys \ {k}
  /\ count' = count - 1

Next == \E k \in Key : Add(k) \/ Del(k)

Spec == Init /\ [][Next]_<<keys, count>>
=============================================================================
