----------------------------- MODULE AsyncClient ------------------------------
(***************************************************************************)
(* The lifecycle of the asynchronous client (rust/src/async_client.rs).    *)
(*                                                                         *)
(* Two kinds of code run at the same time.  The synchronous part of every  *)
(* method runs on a Python thread and holds a PyO3 borrow of the client:   *)
(* connect() and close() the exclusive one, the operations a shared one.   *)
(* The future a method returns is polled by Tokio worker threads; it holds *)
(* no borrow and touches the client through the atomic `state` and the     *)
(* ArcSwap `inner` only.  A future can be dropped at its await: the Python *)
(* task was cancelled, or the native code below it panicked.               *)
(*                                                                         *)
(* An AsClient (the connection pool of aerospike_core) is named by the     *)
(* connect() call that created it.                                         *)
(***************************************************************************)
EXTENDS Naturals, FiniteSets

CONSTANTS Connects,    \* the connect() calls
          Closes,      \* the close() and __aexit__() calls
          Ops,         \* the calls of operations (get, put, batch_read, ...)
          Limits,      \* values the config gives max_concurrent_operations
          MaxPermits,  \* Semaphore::MAX_PERMITS of Tokio
          NoOne        \* neither a call nor an AsClient

ASSUME AsyncClientAssumption ==
  /\ NoOne \notin Connects \union Closes \union Ops
  /\ Connects \intersect Closes = {}
  /\ Limits \subseteq Nat
  /\ MaxPermits \in Nat

VARIABLES
  state,        \* the AtomicU8 lifecycle state
  inner,        \* the ArcSwapOption: the AsClient operations use, or NoOne
  limiter,      \* the OperationLimiter: whose session, and its permits
  exclusive,    \* the connect() or close() whose &mut borrow is live
  shared,       \* the operations whose & borrow is live
  connect,      \* how far each connect() is
  close,        \* how far each close() is
  closeSaw,     \* the state each close() loaded
  closeClient,  \* the AsClient each close() swapped out of `inner`
  closed,       \* the AsClients whose own close() ran to its end
  op,           \* how far the synchronous part of each operation is
  opClient,     \* the AsClient each operation cloned
  opLimiter     \* the limiter each operation cloned

lifeVars  == <<state, inner, limiter>>
closeVars == <<close, closeSaw, closeClient, closed>>
opVars    == <<op, opClient, opLimiter>>
vars == <<lifeVars, exclusive, shared, connect, closeVars, opVars>>

LifecycleStates == {"disconnected", "connecting", "connected", "closing"}
Clients == Connects \union {NoOne}
Limiters == [session : Clients, max : Nat]

\* OperationLimiter::new(0, 0): every operation passes.
Disabled == [session |-> NoOne, max |-> 0]

ConnectPhases == {"idle", "refused", "claimed", "panicked", "spawned",
                  "opening", "stored", "connected", "failed", "dropped"}
ClosePhases == {"idle", "refused", "noop", "loaded", "marked", "closing",
                "closed", "dropped"}
OpPhases == {"idle", "refused", "not_connected", "loaded", "started"}

Init ==
  /\ state = "disconnected"
  /\ inner = NoOne
  /\ limiter = Disabled
  /\ exclusive = NoOne
  /\ shared = {}
  /\ connect = [a \in Connects |-> "idle"]
  /\ close = [c \in Closes |-> "idle"]
  /\ closeSaw = [c \in Closes |-> "disconnected"]
  /\ closeClient = [c \in Closes |-> NoOne]
  /\ closed = {}
  /\ op = [o \in Ops |-> "idle"]
  /\ opClient = [o \in Ops |-> NoOne]
  /\ opLimiter = [o \in Ops |-> Disabled]

-------------------------------------------------------------------------------
\* PyO3's run-time borrow check: &mut self needs every other borrow gone,
\* &self needs the exclusive one gone.  A call that fails it raises.
MutFree == exclusive = NoOne /\ shared = {}
RefFree == exclusive = NoOne

-------------------------------------------------------------------------------
\* connect(), synchronous part: the compare_exchange that claims the client.
ConnectClaim(a) ==
  /\ connect[a] = "idle"
  /\ MutFree
  /\ state = "disconnected"
  /\ state' = "connecting"
  /\ exclusive' = a
  /\ connect' = [connect EXCEPT ![a] = "claimed"]
  /\ UNCHANGED <<inner, limiter, shared, closeVars, opVars>>

\* connect() that raises and changes nothing: the client is borrowed, or the
\* compare_exchange found another state.
ConnectRefused(a) ==
  /\ connect[a] = "idle"
  /\ ~MutFree \/ state # "disconnected"
  /\ connect' = [connect EXCEPT ![a] = "refused"]
  /\ UNCHANGED <<lifeVars, exclusive, shared, closeVars, opVars>>

\* Mutant: a reconnect keeps the limiter of the session before.
ConnectSpawnOldLimiter(a) ==
  /\ connect[a] = "claimed"
  /\ exclusive' = NoOne
  /\ connect' = [connect EXCEPT ![a] = "spawned"]
  /\ UNCHANGED <<lifeVars, shared, closeVars, opVars>>

\* connect(), the rest of the synchronous part: a fresh limiter, then the
\* future is spawned.  Semaphore::new panics above MAX_PERMITS; the guard that
\* would give the state back is created inside the future, which never starts.
ConnectSpawn(a) ==
  /\ connect[a] = "claimed"
  /\ exclusive' = NoOne
  /\ \E m \in Limits :
       \/ /\ m <= MaxPermits
          /\ limiter' = [session |-> a, max |-> m]
          /\ connect' = [connect EXCEPT ![a] = "spawned"]
       \/ /\ m > MaxPermits
          /\ connect' = [connect EXCEPT ![a] = "panicked"]
          /\ UNCHANGED limiter
  /\ UNCHANGED <<state, inner, shared, closeVars, opVars>>

\* The connect future is polled: it arms its ConnectStateGuard and awaits
\* AsClient::new.
ConnectPolled(a) ==
  /\ connect[a] = "spawned"
  /\ connect' = [connect EXCEPT ![a] = "opening"]
  /\ UNCHANGED <<lifeVars, exclusive, shared, closeVars, opVars>>

\* AsClient::new returned a client: inner.store(Some(client)).
ConnectStored(a) ==
  /\ connect[a] = "opening"
  /\ inner' = a
  /\ connect' = [connect EXCEPT ![a] = "stored"]
  /\ UNCHANGED <<state, limiter, exclusive, shared, closeVars, opVars>>

\* The guard is disarmed and the terminal state stored.
ConnectDone(a) ==
  /\ connect[a] = "stored"
  /\ state' = "connected"
  /\ connect' = [connect EXCEPT ![a] = "connected"]
  /\ UNCHANGED <<inner, limiter, exclusive, shared, closeVars, opVars>>

\* AsClient::new failed.
ConnectFailed(a) ==
  /\ connect[a] = "opening"
  /\ state' = "disconnected"
  /\ connect' = [connect EXCEPT ![a] = "failed"]
  /\ UNCHANGED <<inner, limiter, exclusive, shared, closeVars, opVars>>

\* Mutant: the guard was never armed.
GuardNotArmed == state

\* The connect future is dropped at its await: the armed guard's compare_exchange.
GuardDropped == IF state = "connecting" THEN "disconnected" ELSE state

ConnectDropped(a) ==
  /\ connect[a] = "opening"
  /\ state' = GuardDropped
  /\ connect' = [connect EXCEPT ![a] = "dropped"]
  /\ UNCHANGED <<inner, limiter, exclusive, shared, closeVars, opVars>>

-------------------------------------------------------------------------------
\* close() and __aexit__(), prepare_close: the load of the state.
CloseLoaded(c) ==
  /\ close[c] = "idle"
  /\ MutFree
  /\ exclusive' = c
  /\ closeSaw' = [closeSaw EXCEPT ![c] = state]
  /\ close' = [close EXCEPT ![c] = "loaded"]
  /\ UNCHANGED <<lifeVars, shared, connect, closeClient, closed, opVars>>

\* close() of a borrowed client raises.
CloseRefused(c) ==
  /\ close[c] = "idle"
  /\ ~MutFree
  /\ close' = [close EXCEPT ![c] = "refused"]
  /\ UNCHANGED <<lifeVars, exclusive, shared, connect, closeSaw, closeClient,
                 closed, opVars>>

\* The arms of prepare_close that change nothing: Idempotent and ClientError.
CloseReturns(c) ==
  /\ close[c] = "loaded"
  /\ closeSaw[c] # "connected"
  /\ exclusive' = NoOne
  /\ close' = [close EXCEPT ![c] = IF closeSaw[c] = "connecting"
                                   THEN "refused" ELSE "noop"]
  /\ UNCHANGED <<lifeVars, shared, connect, closeSaw, closeClient, closed, opVars>>

\* Mutant: the DISCONNECTED arm is missing.
CloseMarkedAlways(c) ==
  /\ close[c] = "loaded"
  /\ closeSaw[c] \in {"connected", "disconnected"}
  /\ state' = "closing"
  /\ close' = [close EXCEPT ![c] = "marked"]
  /\ UNCHANGED <<inner, limiter, exclusive, shared, connect, closeSaw,
                 closeClient, closed, opVars>>

\* The CONNECTED arm: state.store(CLOSING), ...
CloseMarked(c) ==
  /\ close[c] = "loaded"
  /\ closeSaw[c] = "connected"
  /\ state' = "closing"
  /\ close' = [close EXCEPT ![c] = "marked"]
  /\ UNCHANGED <<inner, limiter, exclusive, shared, connect, closeSaw,
                 closeClient, closed, opVars>>

\* ... then inner.swap(None), a disabled limiter, and the future is spawned.
CloseSwapped(c) ==
  /\ close[c] = "marked"
  /\ closeClient' = [closeClient EXCEPT ![c] = inner]
  /\ inner' = NoOne
  /\ limiter' = Disabled
  /\ exclusive' = NoOne
  /\ close' = [close EXCEPT ![c] = "closing"]
  /\ UNCHANGED <<state, shared, connect, closeSaw, closed, opVars>>

\* Mutant: an early `?` skips the store of DISCONNECTED.
CloseDoneEarly(c) ==
  /\ close[c] = "closing"
  /\ closed' = closed \union ({closeClient[c]} \ {NoOne})
  /\ close' = [close EXCEPT ![c] = "closed"]
  /\ UNCHANGED <<lifeVars, exclusive, shared, connect, closeSaw, closeClient, opVars>>

\* c.close().await came back, with Ok or Err: DISCONNECTED is stored.
CloseDone(c) ==
  /\ close[c] = "closing"
  /\ state' = "disconnected"
  /\ closed' = closed \union ({closeClient[c]} \ {NoOne})
  /\ close' = [close EXCEPT ![c] = "closed"]
  /\ UNCHANGED <<inner, limiter, exclusive, shared, connect, closeSaw,
                 closeClient, opVars>>

\* Mutant: a guard like connect()'s lets the next connect() in, while the
\* AsClient is still open.
CloseDroppedReopens(c) ==
  /\ close[c] = "closing"
  /\ state' = "disconnected"
  /\ close' = [close EXCEPT ![c] = "dropped"]
  /\ UNCHANGED <<inner, limiter, exclusive, shared, connect, closeSaw,
                 closeClient, closed, opVars>>

\* The close future is dropped at its await: nothing follows it.
CloseDropped(c) ==
  /\ close[c] = "closing"
  /\ close' = [close EXCEPT ![c] = "dropped"]
  /\ UNCHANGED <<lifeVars, exclusive, shared, connect, closeSaw, closeClient,
                 closed, opVars>>

-------------------------------------------------------------------------------
\* An operation, synchronous part: get_client() clones the AsClient or raises.
OpLoaded(o) ==
  /\ op[o] = "idle"
  /\ RefFree
  /\ inner # NoOne
  /\ shared' = shared \union {o}
  /\ opClient' = [opClient EXCEPT ![o] = inner]
  /\ op' = [op EXCEPT ![o] = "loaded"]
  /\ UNCHANGED <<lifeVars, exclusive, connect, closeVars, opLimiter>>

OpNotConnected(o) ==
  /\ op[o] = "idle"
  /\ RefFree
  /\ inner = NoOne
  /\ op' = [op EXCEPT ![o] = "not_connected"]
  /\ UNCHANGED <<lifeVars, exclusive, shared, connect, closeVars, opClient, opLimiter>>

OpRefused(o) ==
  /\ op[o] = "idle"
  /\ ~RefFree
  /\ op' = [op EXCEPT ![o] = "refused"]
  /\ UNCHANGED <<lifeVars, exclusive, shared, connect, closeVars, opClient, opLimiter>>

\* ... then self.limiter.clone(), and the future is spawned.
OpStarted(o) ==
  /\ op[o] = "loaded"
  /\ shared' = shared \ {o}
  /\ opLimiter' = [opLimiter EXCEPT ![o] = limiter]
  /\ op' = [op EXCEPT ![o] = "started"]
  /\ UNCHANGED <<lifeVars, exclusive, connect, closeVars, opClient>>

-------------------------------------------------------------------------------
ConnectStep(a) ==
  \/ ConnectClaim(a)
  \/ ConnectRefused(a)
  \/ ConnectSpawn(a)
  \/ ConnectPolled(a)
  \/ ConnectStored(a)
  \/ ConnectDone(a)
  \/ ConnectFailed(a)
  \/ ConnectDropped(a)

CloseStep(c) ==
  \/ CloseLoaded(c)
  \/ CloseRefused(c)
  \/ CloseReturns(c)
  \/ CloseMarked(c)
  \/ CloseSwapped(c)
  \/ CloseDone(c)
  \/ CloseDropped(c)

OpStep(o) ==
  \/ OpLoaded(o)
  \/ OpNotConnected(o)
  \/ OpRefused(o)
  \/ OpStarted(o)

Next ==
  \/ \E a \in Connects : ConnectStep(a)
  \/ \E c \in Closes : CloseStep(c)
  \/ \E o \in Ops : OpStep(o)

Spec == Init /\ [][Next]_vars

-------------------------------------------------------------------------------
(* Properties *)

\* A connect() that owns the CONNECTING state, and a close() that owns CLOSING.
ConnectLive(a) == connect[a] \in {"claimed", "spawned", "opening", "stored"}
CloseLive(c) == close[c] \in {"marked", "closing"}

\* A connect() that panicked in Semaphore::new keeps the state it claimed.
ConnectOwns(a) == ConnectLive(a) \/ connect[a] = "panicked"

\* Types; an operation past get_client() has a client to run on, and a spawned
\* close() knows the client it has to shut.
TypeOK ==
  /\ state \in LifecycleStates
  /\ inner \in Clients
  /\ limiter \in Limiters
  /\ exclusive \in Connects \union Closes \union {NoOne}
  /\ shared \subseteq Ops
  /\ connect \in [Connects -> ConnectPhases]
  /\ close \in [Closes -> ClosePhases]
  /\ closeSaw \in [Closes -> LifecycleStates]
  /\ closeClient \in [Closes -> Clients]
  /\ closed \subseteq Connects
  /\ op \in [Ops -> OpPhases]
  /\ opClient \in [Ops -> Clients]
  /\ opLimiter \in [Ops -> Limiters]
  /\ \A o \in Ops : op[o] \in {"loaded", "started"} => opClient[o] \in Connects

\* Never two transitions in flight: while a connect() or close() is between the
\* step that claimed the state and the one that gives it up, every other
\* connect() and close() has been refused, is a no-op, or is over.
OneTransition ==
  /\ \A a, b \in Connects : ConnectLive(a) /\ ConnectLive(b) => a = b
  /\ \A c, d \in Closes : CloseLive(c) /\ CloseLive(d) => c = d
  /\ \A a \in Connects, c \in Closes : ~(ConnectLive(a) /\ CloseLive(c))

\* CONNECTED always has a client behind it, with the limiter its own connect()
\* installed; outside a transition `inner` is set only when CONNECTED
\* (is_connected, get_client and prepare_close each trust this).
ConnectedHasClient ==
  /\ state = "connected" => inner # NoOne /\ limiter.session = inner
  /\ inner # NoOne => \/ state = "connected"
                      \/ \E a \in Connects : connect[a] = "stored"
                      \/ \E c \in Closes : close[c] = "marked"

\* The client is never stuck in CONNECTING: some connect() that will leave the
\* state is alive (the promise of ConnectStateGuard, and of parsing the config
\* before the compare_exchange).
ConnectingHasOwner ==
  state = "connecting" => \E a \in Connects : ConnectLive(a)

\* Connection pools are not leaked by reconnecting: at most one AsClient has
\* been created and not been shut to the end by its close().
OpenClients ==
  {a \in Connects : connect[a] \in {"stored", "connected"}} \ closed

OneOpenClient == \A a, b \in OpenClients : a = b

\* An operation pairs the client it cloned with the limiter of that client's
\* session, whatever connect() and close() did between its two loads.
PairedLimiter ==
  \A o \in Ops : op[o] = "started" => opLimiter[o].session = opClient[o]

\* Every step of the client is a step ClientContract allows, or none: sessions
\* come one at a time, each from its own connect(), and never come back.
Pending == IF state = "connecting" THEN CHOOSE a \in Connects : ConnectOwns(a)
                                   ELSE NoOne
CurrentSession == IF state = "connected" THEN inner ELSE NoOne
Spent == {a \in Connects : connect[a] \notin {"idle", "refused"}}

Contract == INSTANCE ClientContract WITH
  phase <- state, pending <- Pending, session <- CurrentSession, spent <- Spent

ContractSpec == Contract!Spec

-------------------------------------------------------------------------------
(* Liveness *)

\* Python threads finish the synchronous part of a call and Tokio keeps polling
\* spawned futures; AsClient::new and AsClient::close return or are dropped.
Fairness ==
  /\ \A a \in Connects :
       /\ WF_vars(ConnectSpawn(a))
       /\ WF_vars(ConnectPolled(a))
       /\ WF_vars(ConnectStored(a) \/ ConnectFailed(a) \/ ConnectDropped(a))
       /\ WF_vars(ConnectDone(a))
  /\ \A c \in Closes :
       /\ WF_vars(CloseReturns(c))
       /\ WF_vars(CloseMarked(c))
       /\ WF_vars(CloseSwapped(c))
       /\ WF_vars(CloseDone(c) \/ CloseDropped(c))
  /\ \A o \in Ops : WF_vars(OpStarted(o))

FairSpec == Spec /\ Fairness

\* A connect() in flight always comes to an end, connected or disconnected.
ConnectingResolves == state = "connecting" ~> state # "connecting"

\* A close() in flight always reaches DISCONNECTED, unless its future is dropped.
ClosingResolves ==
  state = "closing" ~>
    (state = "disconnected" \/ \E c \in Closes : close[c] = "dropped")

\* "Always transition to Disconnected" (the comment in close and __aexit__):
\* every CLOSING is followed by DISCONNECTED.
AlwaysDisconnects == state = "closing" ~> state = "disconnected"
===============================================================================
