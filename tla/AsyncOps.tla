------------------------------- MODULE AsyncOps -------------------------------
(***************************************************************************)
(* AsyncClient composed with the futures its operations return: each waits *)
(* for a permit of the limiter it cloned and then runs on the AsClient it  *)
(* cloned, while the lifecycle goes on changing underneath.  The permits   *)
(* are counted here; the queue behind them is OperationLimiter.            *)
(***************************************************************************)
EXTENDS AsyncClient

CONSTANTS Limited,       \* the operations that acquire a permit; query,
                         \* apply, info, truncate, UDF, index and admin do not
          QueueTimeouts  \* whether operation_queue_timeout_ms > 0

ASSUME AsyncOpsAssumption ==
  /\ IsFiniteSet(Ops)
  /\ Limited \subseteq Ops
  /\ QueueTimeouts \in BOOLEAN

VARIABLE flight  \* how far each operation's future is

allVars == <<vars, flight>>

FlightPhases ==
  {"none", "waiting", "running", "done", "backpressure", "dropped"}

OpsInit == Init /\ flight = [o \in Ops |-> "none"]

\* Which operations hold a permit of the limiter l.
Holders(l) == {o \in Limited : flight[o] = "running" /\ opLimiter[o] = l}

\* Mutant: one permit too many.
HasPermitOneMore(l) == l.max = 0 \/ Cardinality(Holders(l)) <= l.max

HasPermit(l) == l.max = 0 \/ Cardinality(Holders(l)) < l.max

\* The operation's synchronous part ends: its future is spawned.
Spawned(o) ==
  /\ OpStarted(o)
  /\ flight' = [flight EXCEPT ![o] = IF o \in Limited THEN "waiting" ELSE "running"]

\* limiter.acquire_named(..).await: a disabled limiter passes everyone.
PermitTaken(o) ==
  /\ flight[o] = "waiting"
  /\ HasPermit(opLimiter[o])
  /\ flight' = [flight EXCEPT ![o] = "running"]
  /\ UNCHANGED vars

\* operation_queue_timeout_ms passed without a permit: BackpressureError.
PermitTimedOut(o) ==
  /\ QueueTimeouts
  /\ flight[o] = "waiting"
  /\ ~HasPermit(opLimiter[o])
  /\ flight' = [flight EXCEPT ![o] = "backpressure"]
  /\ UNCHANGED vars

\* The call returned, failed or panicked (catch_unwind): the permit is dropped.
OpFinished(o) ==
  /\ flight[o] = "running"
  /\ flight' = [flight EXCEPT ![o] = "done"]
  /\ UNCHANGED vars

\* The Python task was cancelled: the future is dropped, with its permit.
OpDropped(o) ==
  /\ flight[o] \in {"waiting", "running"}
  /\ flight' = [flight EXCEPT ![o] = "dropped"]
  /\ UNCHANGED vars

LifecycleStep ==
  /\ \/ \E a \in Connects : ConnectStep(a)
     \/ \E c \in Closes : CloseStep(c)
     \/ \E o \in Ops : OpLoaded(o) \/ OpNotConnected(o) \/ OpRefused(o)
  /\ UNCHANGED flight

OpsNext ==
  \/ LifecycleStep
  \/ \E o \in Ops :
       \/ Spawned(o)
       \/ PermitTaken(o)
       \/ PermitTimedOut(o)
       \/ OpFinished(o)
       \/ OpDropped(o)

OpsSpec == OpsInit /\ [][OpsNext]_allVars

-------------------------------------------------------------------------------
(* Properties *)

\* Types; an operation is in flight exactly when its synchronous part is over.
OpsTypeOK ==
  /\ TypeOK
  /\ flight \in [Ops -> FlightPhases]
  /\ \A o \in Ops : flight[o] # "none" <=> op[o] = "started"

\* What the limiter is for: on one AsClient, one connection pool, no more
\* permit-holding operations run than the limit its own connect() read from the
\* config, whatever was closed and reconnected since the operation was issued.
RunningOn(a) == {o \in Ops : flight[o] = "running" /\ opClient[o] = a}

PoolProtected ==
  \A o \in Limited :
    flight[o] = "running" /\ opLimiter[o].max > 0 =>
      Cardinality(RunningOn(opClient[o]) \intersect Limited) <= opLimiter[o].max

===============================================================================
