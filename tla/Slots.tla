-------------------------------- MODULE Slots ---------------------------------
(***************************************************************************)
(* What backpressure promises: at most `max` operations hold a slot at     *)
(* once (any number when max is 0: the limiter is then disabled), each     *)
(* operation takes a slot at most once, and one that has given up never    *)
(* comes back for one.                                                     *)
(***************************************************************************)
EXTENDS Naturals, FiniteSets

CONSTANTS Ops,      \* the operations, finitely many
          Limits    \* the values `max` may have, natural numbers

VARIABLES max,      \* the number of slots, fixed from the start
          holding,  \* the operations that hold a slot
          over      \* the operations that are finished with the limiter

vars == <<max, holding, over>>

Init == max \in Limits /\ holding = {} /\ over = {}

Take(o) ==
  /\ o \notin holding \union over
  /\ max > 0 => Cardinality(holding) < max
  /\ holding' = holding \union {o}
  /\ UNCHANGED <<max, over>>

\* A slot given back may go to a waiting operation in the same step.
HandOver(o, p) ==
  /\ o \in holding
  /\ p \notin holding \union over
  /\ holding' = (holding \ {o}) \union {p}
  /\ over' = over \union {o}
  /\ UNCHANGED max

Give(o) ==
  /\ o \in holding
  /\ holding' = holding \ {o}
  /\ over' = over \union {o}
  /\ UNCHANGED max

GiveUp(o) ==
  /\ o \notin holding \union over
  /\ over' = over \union {o}
  /\ UNCHANGED <<max, holding>>

Next ==
  \/ \E o \in Ops : Take(o) \/ Give(o) \/ GiveUp(o)
  \/ \E o, p \in Ops : HandOver(o, p)

Spec == Init /\ [][Next]_vars
===============================================================================
