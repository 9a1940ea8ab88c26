---------------------------- MODULE ClientContract ----------------------------
(***************************************************************************)
(* What each of the clients promises its callers about its lifecycle,      *)
(* with none of the atomics, futures and borrows that implement it: one    *)
(* session at a time, each session is obtained by one connect() and, once  *)
(* it is given up, it never comes back.                                    *)
(***************************************************************************)

CONSTANTS Connects,  \* the connect() calls; a call names the session it opens
          NoOne      \* no session: not one of Connects

VARIABLES phase,     \* the lifecycle state the client reports
          pending,   \* the connect() in flight while phase = "connecting"
          session,   \* the session operations use while phase = "connected"
          spent      \* every connect() that ever started

vars == <<phase, pending, session, spent>>

Init ==
  /\ phase = "disconnected"
  /\ pending = NoOne
  /\ session = NoOne
  /\ spent = {}

Begin(a) ==
  /\ phase = "disconnected"
  /\ a \notin spent
  /\ phase' = "connecting"
  /\ pending' = a
  /\ spent' = spent \union {a}
  /\ UNCHANGED session

Establish ==
  /\ phase = "connecting"
  /\ phase' = "connected"
  /\ session' = pending
  /\ pending' = NoOne
  /\ UNCHANGED spent

GiveUp ==
  /\ phase = "connecting"
  /\ phase' = "disconnected"
  /\ pending' = NoOne
  /\ UNCHANGED <<session, spent>>

BeginClose ==
  /\ phase = "connected"
  /\ phase' = "closing"
  /\ session' = NoOne
  /\ UNCHANGED <<pending, spent>>

EndClose ==
  /\ phase = "closing"
  /\ phase' = "disconnected"
  /\ UNCHANGED <<pending, session, spent>>

Next ==
  \/ \E a \in Connects : Begin(a)
  \/ Establish
  \/ GiveUp
  \/ BeginClose
  \/ EndClose

Spec == Init /\ [][Next]_vars
===============================================================================
