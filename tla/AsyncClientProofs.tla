-------------------------- MODULE AsyncClientProofs ---------------------------
(***************************************************************************)
(* Theorems about AsyncClient for any number of calls, and about AsyncOps  *)
(* for any number of operations and reconnects.                            *)
(*                                                                         *)
(* The safety properties of AsyncClient are not inductive: they hold       *)
(* because of who may write which variable when.  IInv says so, part by    *)
(* part: the borrow a phase holds (Borrows), the lifecycle state a live    *)
(* transition owns (Ownership), what `inner` and `limiter` are in each     *)
(* state (Session), and which AsClients are still open (Open).             *)
(***************************************************************************)
EXTENDS AsyncOps, FiniteSetTheorems, TLAPS

\* The synchronous parts and the PyO3 borrows they hold.
Borrows ==
  /\ \A a \in Connects : connect[a] = "claimed" <=> exclusive = a
  /\ \A c \in Closes : close[c] \in {"loaded", "marked"} <=> exclusive = c
  /\ \A o \in Ops : op[o] = "loaded" <=> o \in shared
  /\ exclusive # NoOne => shared = {}

\* A live connect() or close() owns the lifecycle state, alone; CONNECTING
\* always has an owner, if only one that panicked.
Ownership ==
  /\ \A a \in Connects : ConnectOwns(a) => state = "connecting"
  /\ state = "connecting" => \E a \in Connects : ConnectOwns(a)
  /\ \A c \in Closes : CloseLive(c) => state = "closing"
  /\ \A a, b \in Connects : ConnectOwns(a) /\ ConnectOwns(b) => a = b
  /\ \A c, d \in Closes : CloseLive(c) /\ CloseLive(d) => c = d
  /\ \A c \in Closes :
       close[c] = "loaded" /\ closeSaw[c] = "connected" => state = "connected"

\* The session behind each state, and what the operations cloned of it.
Session ==
  /\ \A a \in Connects : connect[a] = "stored" => inner = a
  /\ \A a \in Connects :
       connect[a] \in {"spawned", "opening", "stored"} => limiter.session = a
  /\ state = "connected" => inner # NoOne
  /\ \A c \in Closes : close[c] = "marked" => inner # NoOne
  /\ inner # NoOne =>
       /\ limiter.session = inner
       /\ \/ state = "connected" /\ connect[inner] = "connected"
          \/ connect[inner] = "stored"
          \/ \E c \in Closes : close[c] = "marked"
  /\ \A o \in Ops : op[o] = "loaded" => opClient[o] = inner
  /\ PairedLimiter

\* The AsClients created and not shut yet, state by state.
Open ==
  /\ state = "disconnected" => OpenClients = {}
  /\ state = "connecting" => \A a \in OpenClients : connect[a] = "stored"
  /\ state = "connected" => OpenClients \subseteq {inner}
  /\ \A c \in Closes : close[c] = "marked" => OpenClients \subseteq {inner}
  /\ \A c \in Closes : close[c] = "closing" => OpenClients \subseteq {closeClient[c]}
  /\ OneOpenClient

IInv == TypeOK /\ Borrows /\ Ownership /\ Session /\ Open

-------------------------------------------------------------------------------
(* Type correctness *)

\* The client as __new__ leaves it is well typed.
LEMMA InitTypeOK == Init => TypeOK
BY AsyncClientAssumption
DEF Init, TypeOK, LifecycleStates, Clients, Limiters, Disabled, ConnectPhases,
    ClosePhases, OpPhases

\* No step of connect(), on a Python thread or in its future, breaks a type.
LEMMA ConnectStepTypeOK ==
  ASSUME TypeOK, NEW a \in Connects, ConnectStep(a)
  PROVE  TypeOK'
<1> USE DEF TypeOK, LifecycleStates, Clients, Limiters, ConnectPhases,
            lifeVars, closeVars, opVars
<1>1. CASE ConnectClaim(a)   BY <1>1 DEF ConnectClaim
<1>2. CASE ConnectRefused(a) BY <1>2 DEF ConnectRefused
<1>3. CASE ConnectSpawn(a)   BY <1>3, AsyncClientAssumption DEF ConnectSpawn
<1>4. CASE ConnectPolled(a)  BY <1>4 DEF ConnectPolled
<1>5. CASE ConnectStored(a)  BY <1>5 DEF ConnectStored
<1>6. CASE ConnectDone(a)    BY <1>6 DEF ConnectDone
<1>7. CASE ConnectFailed(a)  BY <1>7 DEF ConnectFailed
<1>8. CASE ConnectDropped(a) BY <1>8 DEF ConnectDropped, GuardDropped
<1> QED
  BY <1>1, <1>2, <1>3, <1>4, <1>5, <1>6, <1>7, <1>8 DEF ConnectStep

\* No step of close() breaks a type.
LEMMA CloseStepTypeOK ==
  ASSUME TypeOK, NEW c \in Closes, CloseStep(c)
  PROVE  TypeOK'
<1> USE DEF TypeOK, LifecycleStates, Clients, ClosePhases, lifeVars, opVars
<1>1. CASE CloseLoaded(c)  BY <1>1 DEF CloseLoaded
<1>2. CASE CloseRefused(c) BY <1>2 DEF CloseRefused
<1>3. CASE CloseReturns(c) BY <1>3 DEF CloseReturns
<1>4. CASE CloseMarked(c)  BY <1>4 DEF CloseMarked
<1>5. CASE CloseSwapped(c) BY <1>5 DEF CloseSwapped, Disabled, Limiters
<1>6. CASE CloseDone(c)    BY <1>6 DEF CloseDone
<1>7. CASE CloseDropped(c) BY <1>7 DEF CloseDropped
<1> QED
  BY <1>1, <1>2, <1>3, <1>4, <1>5, <1>6, <1>7 DEF CloseStep

\* No step of an operation breaks a type; get_client() gave it an AsClient.
LEMMA OpStepTypeOK ==
  ASSUME TypeOK, NEW o \in Ops, OpStep(o)
  PROVE  TypeOK'
<1> USE DEF TypeOK, Clients, OpPhases, lifeVars, closeVars
<1>1. CASE OpLoaded(o)       BY <1>1 DEF OpLoaded
<1>2. CASE OpNotConnected(o) BY <1>2 DEF OpNotConnected
<1>3. CASE OpRefused(o)      BY <1>3 DEF OpRefused
<1>4. CASE OpStarted(o)      BY <1>4 DEF OpStarted
<1> QED
  BY <1>1, <1>2, <1>3, <1>4 DEF OpStep

\* Types are inductive by themselves.
LEMMA NextTypeOK == TypeOK /\ [Next]_vars => TypeOK'
<1> SUFFICES ASSUME TypeOK, [Next]_vars PROVE TypeOK'
  OBVIOUS
<1>1. CASE Next
  BY <1>1, ConnectStepTypeOK, CloseStepTypeOK, OpStepTypeOK DEF Next
<1>2. CASE UNCHANGED vars
  BY <1>2 DEF vars, lifeVars, closeVars, opVars, TypeOK
<1> QED
  BY <1>1, <1>2

\* Every variable keeps its type, and no operation gets past get_client()
\* without an AsClient to run on.
THEOREM TypeCorrect == Spec => []TypeOK
BY InitTypeOK, NextTypeOK, PTL DEF Spec

-------------------------------------------------------------------------------
(* The inductive invariant *)

\* A new client satisfies the inductive invariant: nothing is in flight.
LEMMA InitIInv == Init => IInv
<1> SUFFICES ASSUME Init PROVE IInv
  OBVIOUS
<1> USE AsyncClientAssumption DEF Init
<1>1. TypeOK    BY InitTypeOK
<1>2. Borrows   BY DEF Borrows
<1>3. Ownership BY DEF Ownership, ConnectOwns, ConnectLive, CloseLive
<1>4. Session   BY DEF Session, PairedLimiter
<1>5. Open      BY DEF Open, OneOpenClient, OpenClients
<1> QED
  BY <1>1, <1>2, <1>3, <1>4, <1>5 DEF IInv

\* connect() keeps the inductive invariant: the compare_exchange makes it the
\* only owner of the state, the exclusive borrow covers the limiter.
LEMMA ConnectStepIInv ==
  ASSUME IInv, TypeOK', NEW a \in Connects, ConnectStep(a)
  PROVE  IInv'
<1> USE AsyncClientAssumption
    DEF IInv, TypeOK, Clients, ConnectOwns, ConnectLive, CloseLive, lifeVars, closeVars, opVars
<1>1. CASE ConnectClaim(a)
  <2> USE <1>1 DEF ConnectClaim
  <2>1. Borrows'   BY DEF Borrows, MutFree, RefFree
  <2>2. Ownership' BY DEF Borrows, Ownership
  <2>3. Session'   BY DEF Borrows, Ownership, Session, PairedLimiter
  <2>4. Open'      BY DEF Borrows, Ownership, Session, Open, OneOpenClient, OpenClients
  <2> QED BY <2>1, <2>2, <2>3, <2>4 DEF IInv
<1>2. CASE ConnectRefused(a)
  <2> USE <1>2 DEF ConnectRefused
  <2>1. Borrows'   BY DEF Borrows, MutFree, RefFree
  <2>2. Ownership' BY DEF Borrows, Ownership
  <2>3. Session'   BY DEF Borrows, Ownership, Session, PairedLimiter
  <2>4. Open'      BY DEF Borrows, Ownership, Session, Open, OneOpenClient, OpenClients
  <2> QED BY <2>1, <2>2, <2>3, <2>4 DEF IInv
<1>3. CASE ConnectSpawn(a)
  <2> USE <1>3 DEF ConnectSpawn
  <2>1. Borrows'   BY DEF Borrows, MutFree, RefFree
  <2>2. Ownership' BY DEF Borrows, Ownership
  <2>3. Session'   BY DEF Borrows, Ownership, Session, PairedLimiter
  <2>4. Open'      BY DEF Borrows, Ownership, Session, Open, OneOpenClient, OpenClients
  <2> QED BY <2>1, <2>2, <2>3, <2>4 DEF IInv
<1>4. CASE ConnectPolled(a)
  <2> USE <1>4 DEF ConnectPolled
  <2>1. Borrows'   BY DEF Borrows, MutFree, RefFree
  <2>2. Ownership' BY DEF Borrows, Ownership
  <2>3. Session'   BY DEF Borrows, Ownership, Session, PairedLimiter
  <2>4. Open'      BY DEF Borrows, Ownership, Session, Open, OneOpenClient, OpenClients
  <2> QED BY <2>1, <2>2, <2>3, <2>4 DEF IInv
<1>5. CASE ConnectStored(a)
  <2> USE <1>5 DEF ConnectStored
  <2>1. Borrows'   BY DEF Borrows, MutFree, RefFree
  <2>2. Ownership' BY DEF Borrows, Ownership
  <2>3. Session'   BY DEF Borrows, Ownership, Session, PairedLimiter
  <2>4. Open'      BY DEF Borrows, Ownership, Session, Open, OneOpenClient, OpenClients
  <2> QED BY <2>1, <2>2, <2>3, <2>4 DEF IInv
<1>6. CASE ConnectDone(a)
  <2> USE <1>6 DEF ConnectDone
  <2>1. Borrows'   BY DEF Borrows, MutFree, RefFree
  <2>2. Ownership' BY DEF Borrows, Ownership
  <2>3. Session'   BY DEF Borrows, Ownership, Session, PairedLimiter
  <2>4. Open'      BY DEF Borrows, Ownership, Session, Open, OneOpenClient, OpenClients
  <2> QED BY <2>1, <2>2, <2>3, <2>4 DEF IInv
<1>7. CASE ConnectFailed(a)
  <2> USE <1>7 DEF ConnectFailed
  <2>1. Borrows'   BY DEF Borrows, MutFree, RefFree
  <2>2. Ownership' BY DEF Borrows, Ownership
  <2>3. Session'   BY DEF Borrows, Ownership, Session, PairedLimiter
  <2>4. Open'      BY DEF Borrows, Ownership, Session, Open, OneOpenClient, OpenClients
  <2> QED BY <2>1, <2>2, <2>3, <2>4 DEF IInv
<1>8. CASE ConnectDropped(a)
  <2> USE <1>8 DEF ConnectDropped, GuardDropped
  <2>1. Borrows'   BY DEF Borrows, MutFree, RefFree
  <2>2. Ownership' BY DEF Borrows, Ownership
  <2>3. Session'   BY DEF Borrows, Ownership, Session, PairedLimiter
  <2>4. Open'      BY DEF Borrows, Ownership, Session, Open, OneOpenClient, OpenClients
  <2> QED BY <2>1, <2>2, <2>3, <2>4 DEF IInv
<1> QED
  BY <1>1, <1>2, <1>3, <1>4, <1>5, <1>6, <1>7, <1>8 DEF ConnectStep

\* close() keeps it: between the load of CONNECTED and the swap of `inner` its
\* exclusive borrow shuts out every other caller.
LEMMA CloseStepIInv ==
  ASSUME IInv, TypeOK', NEW c \in Closes, CloseStep(c)
  PROVE  IInv'
<1> USE AsyncClientAssumption
    DEF IInv, TypeOK, Clients, ConnectOwns, ConnectLive, CloseLive, lifeVars, closeVars, opVars
<1>1. CASE CloseLoaded(c)
  <2> USE <1>1 DEF CloseLoaded
  <2>1. Borrows'   BY DEF Borrows, MutFree, RefFree
  <2>2. Ownership' BY DEF Borrows, Ownership
  <2>3. Session'   BY DEF Borrows, Ownership, Session, PairedLimiter
  <2>4. Open'      BY DEF Borrows, Ownership, Session, Open, OneOpenClient, OpenClients
  <2> QED BY <2>1, <2>2, <2>3, <2>4 DEF IInv
<1>2. CASE CloseRefused(c)
  <2> USE <1>2 DEF CloseRefused
  <2>1. Borrows'   BY DEF Borrows, MutFree, RefFree
  <2>2. Ownership' BY DEF Borrows, Ownership
  <2>3. Session'   BY DEF Borrows, Ownership, Session, PairedLimiter
  <2>4. Open'      BY DEF Borrows, Ownership, Session, Open, OneOpenClient, OpenClients
  <2> QED BY <2>1, <2>2, <2>3, <2>4 DEF IInv
<1>3. CASE CloseReturns(c)
  <2> USE <1>3 DEF CloseReturns
  <2>1. Borrows'   BY DEF Borrows, MutFree, RefFree
  <2>2. Ownership' BY DEF Borrows, Ownership
  <2>3. Session'   BY DEF Borrows, Ownership, Session, PairedLimiter
  <2>4. Open'      BY DEF Borrows, Ownership, Session, Open, OneOpenClient, OpenClients
  <2> QED BY <2>1, <2>2, <2>3, <2>4 DEF IInv
<1>4. CASE CloseMarked(c)
  <2> USE <1>4 DEF CloseMarked
  <2>1. Borrows'   BY DEF Borrows, MutFree, RefFree
  <2>2. Ownership' BY DEF Borrows, Ownership
  <2>3. Session'   BY DEF Borrows, Ownership, Session, PairedLimiter
  <2>4. Open'      BY DEF Borrows, Ownership, Session, Open, OneOpenClient, OpenClients
  <2> QED BY <2>1, <2>2, <2>3, <2>4 DEF IInv
<1>5. CASE CloseSwapped(c)
  <2> USE <1>5 DEF CloseSwapped
  <2>1. Borrows'   BY DEF Borrows, MutFree, RefFree
  <2>2. Ownership' BY DEF Borrows, Ownership
  <2>3. Session'   BY DEF Borrows, Ownership, Session, PairedLimiter
  <2>4. Open'      BY DEF Borrows, Ownership, Session, Open, OneOpenClient, OpenClients
  <2> QED BY <2>1, <2>2, <2>3, <2>4 DEF IInv
<1>6. CASE CloseDone(c)
  <2> USE <1>6 DEF CloseDone
  <2>1. Borrows'   BY DEF Borrows, MutFree, RefFree
  <2>2. Ownership' BY DEF Borrows, Ownership
  <2>3. Session'   BY DEF Borrows, Ownership, Session, PairedLimiter
  <2>4. Open'      BY DEF Borrows, Ownership, Session, Open, OneOpenClient, OpenClients
  <2> QED BY <2>1, <2>2, <2>3, <2>4 DEF IInv
<1>7. CASE CloseDropped(c)
  <2> USE <1>7 DEF CloseDropped
  <2>1. Borrows'   BY DEF Borrows, MutFree, RefFree
  <2>2. Ownership' BY DEF Borrows, Ownership
  <2>3. Session'   BY DEF Borrows, Ownership, Session, PairedLimiter
  <2>4. Open'      BY DEF Borrows, Ownership, Session, Open, OneOpenClient, OpenClients
  <2> QED BY <2>1, <2>2, <2>3, <2>4 DEF IInv
<1> QED
  BY <1>1, <1>2, <1>3, <1>4, <1>5, <1>6, <1>7 DEF CloseStep

\* An operation keeps it: `inner` and `limiter` cannot change between its two
\* loads, because connect() and close() need the exclusive borrow.
LEMMA OpStepIInv ==
  ASSUME IInv, TypeOK', NEW o \in Ops, OpStep(o)
  PROVE  IInv'
<1> USE AsyncClientAssumption
    DEF IInv, TypeOK, Clients, ConnectOwns, ConnectLive, CloseLive, lifeVars, closeVars, opVars
<1>1. CASE OpLoaded(o)
  <2> USE <1>1 DEF OpLoaded
  <2>1. Borrows'   BY DEF Borrows, MutFree, RefFree
  <2>2. Ownership' BY DEF Borrows, Ownership
  <2>3. Session'   BY DEF Borrows, Ownership, Session, PairedLimiter
  <2>4. Open'      BY DEF Borrows, Ownership, Session, Open, OneOpenClient, OpenClients
  <2> QED BY <2>1, <2>2, <2>3, <2>4 DEF IInv
<1>2. CASE OpNotConnected(o)
  <2> USE <1>2 DEF OpNotConnected
  <2>1. Borrows'   BY DEF Borrows, MutFree, RefFree
  <2>2. Ownership' BY DEF Borrows, Ownership
  <2>3. Session'   BY DEF Borrows, Ownership, Session, PairedLimiter
  <2>4. Open'      BY DEF Borrows, Ownership, Session, Open, OneOpenClient, OpenClients
  <2> QED BY <2>1, <2>2, <2>3, <2>4 DEF IInv
<1>3. CASE OpRefused(o)
  <2> USE <1>3 DEF OpRefused
  <2>1. Borrows'   BY DEF Borrows, MutFree, RefFree
  <2>2. Ownership' BY DEF Borrows, Ownership
  <2>3. Session'   BY DEF Borrows, Ownership, Session, PairedLimiter
  <2>4. Open'      BY DEF Borrows, Ownership, Session, Open, OneOpenClient, OpenClients
  <2> QED BY <2>1, <2>2, <2>3, <2>4 DEF IInv
<1>4. CASE OpStarted(o)
  <2> USE <1>4 DEF OpStarted
  <2>1. Borrows'   BY DEF Borrows, MutFree, RefFree
  <2>2. Ownership' BY DEF Borrows, Ownership
  <2>3. Session'   BY DEF Borrows, Ownership, Session, PairedLimiter
  <2>4. Open'      BY DEF Borrows, Ownership, Session, Open, OneOpenClient, OpenClients
  <2> QED BY <2>1, <2>2, <2>3, <2>4 DEF IInv
<1> QED
  BY <1>1, <1>2, <1>3, <1>4 DEF OpStep

\* The inductive step.
LEMMA NextIInv == IInv /\ [Next]_vars => IInv'
<1> SUFFICES ASSUME IInv, [Next]_vars PROVE IInv'
  OBVIOUS
<1>1. TypeOK'
  BY NextTypeOK DEF IInv
<1>2. CASE Next
  BY <1>1, <1>2, ConnectStepIInv, CloseStepIInv, OpStepIInv DEF Next
<1>3. CASE UNCHANGED vars
  BY <1>1, <1>3 DEF vars, lifeVars, closeVars, opVars, IInv, Borrows, Ownership, Session,
     Open, OneOpenClient, OpenClients, PairedLimiter, ConnectOwns, ConnectLive, CloseLive
<1> QED
  BY <1>2, <1>3

\* IInv holds in every reachable state.
THEOREM Invariance == Spec => []IInv
BY InitIInv, NextIInv, PTL DEF Spec

-------------------------------------------------------------------------------
(* Safety *)

\* No two lifecycle transitions are ever in flight, however many connect() and
\* close() calls are issued and whenever their futures are polled or dropped.
THEOREM TransitionsExclude == Spec => []OneTransition
<1>1. IInv => OneTransition
  BY DEF IInv, Ownership, OneTransition, ConnectOwns, ConnectLive, CloseLive
<1> QED
  BY <1>1, Invariance, PTL

\* A CONNECTED client has its AsClient and that session's limiter.
THEOREM ConnectedIsUsable == Spec => []ConnectedHasClient
<1>1. IInv => ConnectedHasClient
  BY AsyncClientAssumption
  DEF IInv, TypeOK, Clients, Session, ConnectedHasClient
<1> QED
  BY <1>1, Invariance, PTL

\* Reconnecting never leaves a second connection pool open.
THEOREM PoolsDoNotPileUp == Spec => []OneOpenClient
<1>1. IInv => OneOpenClient
  BY DEF IInv, Open
<1> QED
  BY <1>1, Invariance, PTL

\* The AsClient and the limiter an operation clones are of the same session.
THEOREM PairingHolds == Spec => []PairedLimiter
<1>1. IInv => PairedLimiter
  BY DEF IInv, Session
<1> QED
  BY <1>1, Invariance, PTL

\* No connect() panicked in Semaphore::new.
NoPanic == \A a \in Connects : connect[a] # "panicked"

\* If every limit the config may give fits the semaphore, no connect() panics
\* between its compare_exchange and its guard, and CONNECTING always has a
\* live connect() to end it.
THEOREM ConnectingIsOwned ==
  ASSUME \A m \in Limits : m <= MaxPermits
  PROVE  Spec => []ConnectingHasOwner
<1>1. Init => NoPanic
  BY DEF Init, NoPanic
<1>2. TypeOK /\ NoPanic /\ [Next]_vars => NoPanic'
  <2> SUFFICES ASSUME TypeOK, NoPanic, [Next]_vars PROVE NoPanic'
    OBVIOUS
  <2> USE DEF TypeOK, NoPanic, ConnectPhases
  <2>1. ASSUME NEW a \in Connects, ConnectStep(a) PROVE NoPanic'
    <3>1. CASE ConnectSpawn(a)
      <4>1. PICK m \in Limits :
              \/ m <= MaxPermits /\ connect' = [connect EXCEPT ![a] = "spawned"]
              \/ m > MaxPermits
        BY <3>1 DEF ConnectSpawn
      <4>2. m \in Nat /\ m <= MaxPermits
        BY AsyncClientAssumption
      <4> QED
        BY <4>1, <4>2, AsyncClientAssumption
    <3>2. CASE ~ConnectSpawn(a)
      BY <2>1, <3>2 DEF ConnectStep, ConnectClaim, ConnectRefused, ConnectPolled,
         ConnectStored, ConnectDone, ConnectFailed, ConnectDropped
    <3> QED
      BY <3>1, <3>2
  <2>2. ASSUME NEW c \in Closes, CloseStep(c) PROVE NoPanic'
    BY <2>2 DEF CloseStep, CloseLoaded, CloseRefused, CloseReturns, CloseMarked,
       CloseSwapped, CloseDone, CloseDropped
  <2>3. ASSUME NEW o \in Ops, OpStep(o) PROVE NoPanic'
    BY <2>3 DEF OpStep, OpLoaded, OpNotConnected, OpRefused, OpStarted
  <2>4. CASE UNCHANGED vars
    BY <2>4 DEF vars
  <2> QED
    BY <2>1, <2>2, <2>3, <2>4 DEF Next
<1>3. IInv /\ NoPanic => ConnectingHasOwner
  BY DEF IInv, Ownership, NoPanic, ConnectingHasOwner, ConnectOwns
<1> QED
  BY <1>1, <1>2, <1>3, TypeCorrect, Invariance, PTL DEF Spec

-------------------------------------------------------------------------------
(* AsyncClient implements ClientContract *)

\* The connect() that the refinement calls pending is the owner of CONNECTING, ...
LEMMA PendingIsOwner ==
  ASSUME IInv, NEW a \in Connects, ConnectOwns(a)
  PROVE  Pending = a
BY DEF IInv, Ownership, Pending

\* ... also in the next state.
LEMMA PendingIsOwnerNext ==
  ASSUME IInv', NEW a \in Connects, ConnectOwns(a)'
  PROVE  Pending' = a
BY DEF IInv, Ownership, Pending

\* A new client is a client without a session.
LEMMA InitRefines == Init => Contract!Init
<1> SUFFICES ASSUME Init PROVE Contract!Init
  OBVIOUS
<1>1. Spent = {}
  BY DEF Init, Spent
<1> QED
  BY <1>1 DEF Init, Contract!Init, Pending, CurrentSession

\* Steps that leave the lifecycle alone: the owner of CONNECTING stays the same.
LEMMA LifecycleStutters ==
  ASSUME IInv, IInv', UNCHANGED <<state, CurrentSession, Spent>>,
         \A a \in Connects : ConnectOwns(a) => ConnectOwns(a)'
  PROVE  UNCHANGED Contract!vars
<1>1. Pending' = Pending
  <2>1. CASE state = "connecting"
    <3>1. PICK a \in Connects : ConnectOwns(a)
      BY <2>1 DEF IInv, Ownership
    <3> QED
      BY <3>1, PendingIsOwner, PendingIsOwnerNext
  <2>2. CASE state # "connecting"
    BY <2>2 DEF Pending
  <2> QED
    BY <2>1, <2>2
<1> QED
  BY <1>1 DEF Contract!vars

\* connect() begins, establishes or gives up a session, or stutters.
LEMMA ConnectStepRefines ==
  ASSUME IInv, IInv', NEW a \in Connects, ConnectStep(a)
  PROVE  [Contract!Next]_(Contract!vars)
<1> USE DEF IInv, TypeOK, ConnectOwns, ConnectLive
<1>1. CASE ConnectClaim(a)
  <2>1. Pending' = a
    BY <1>1, PendingIsOwnerNext DEF ConnectClaim
  <2>2. a \notin Spent /\ Spent' = Spent \union {a}
    BY <1>1 DEF ConnectClaim, Spent
  <2>3. Contract!Begin(a)
    BY <1>1, <2>1, <2>2 DEF ConnectClaim, Contract!Begin, CurrentSession
  <2> QED
    BY <2>3 DEF Contract!Next
<1>2. CASE ConnectDone(a)
  <2>1. Pending = a /\ Pending' = NoOne
    BY <1>2, PendingIsOwner DEF ConnectDone, Pending
  <2>2. Spent' = Spent
    BY <1>2 DEF ConnectDone, Spent
  <2>3. state = "connecting" /\ inner = a
    BY <1>2 DEF ConnectDone, Ownership, Session
  <2>4. Contract!Establish
    BY <1>2, <2>1, <2>2, <2>3 DEF ConnectDone, Contract!Establish, CurrentSession
  <2> QED
    BY <2>4 DEF Contract!Next
<1>3. CASE ConnectFailed(a) \/ ConnectDropped(a)
  <2>1. state = "connecting" /\ state' = "disconnected"
    BY <1>3 DEF ConnectFailed, ConnectDropped, GuardDropped, Ownership
  <2>2. Spent' = Spent
    BY <1>3 DEF ConnectFailed, ConnectDropped, Spent
  <2>3. Contract!GiveUp
    BY <2>1, <2>2 DEF Contract!GiveUp, CurrentSession, Pending
  <2> QED
    BY <2>3 DEF Contract!Next
<1>4. CASE ConnectRefused(a) \/ ConnectSpawn(a) \/ ConnectPolled(a)
  <2>1. UNCHANGED <<state, CurrentSession>>
    BY <1>4 DEF ConnectRefused, ConnectSpawn, ConnectPolled, CurrentSession, lifeVars
  <2>2. Spent' = Spent
    BY <1>4 DEF ConnectRefused, ConnectSpawn, ConnectPolled, Spent
  <2>3. \A b \in Connects : ConnectOwns(b) => ConnectOwns(b)'
    BY <1>4 DEF ConnectRefused, ConnectSpawn, ConnectPolled
  <2> QED
    BY <2>1, <2>2, <2>3, LifecycleStutters
<1>5. CASE ConnectStored(a)
  <2>1. UNCHANGED <<state, CurrentSession>>
    BY <1>5 DEF ConnectStored, CurrentSession, Ownership
  <2>2. Spent' = Spent
    BY <1>5 DEF ConnectStored, Spent
  <2>3. \A b \in Connects : ConnectOwns(b) => ConnectOwns(b)'
    BY <1>5 DEF ConnectStored
  <2> QED
    BY <2>1, <2>2, <2>3, LifecycleStutters
<1> QED
  BY <1>1, <1>2, <1>3, <1>4, <1>5 DEF ConnectStep

\* close() begins to end the session, ends it, or stutters.
LEMMA CloseStepRefines ==
  ASSUME IInv, IInv', NEW c \in Closes, CloseStep(c)
  PROVE  [Contract!Next]_(Contract!vars)
<1>1. UNCHANGED connect
  BY DEF CloseStep, CloseLoaded, CloseRefused, CloseReturns, CloseMarked,
     CloseSwapped, CloseDone, CloseDropped
<1>2. Spent' = Spent /\ \A b \in Connects : ConnectOwns(b) => ConnectOwns(b)'
  BY <1>1 DEF Spent, ConnectOwns, ConnectLive
<1>3. CASE CloseMarked(c)
  <2>1. state = "connected" /\ state' = "closing"
    BY <1>3 DEF CloseMarked, IInv, Ownership
  <2>2. Contract!BeginClose
    BY <1>2, <2>1 DEF Contract!BeginClose, CurrentSession, Pending
  <2> QED
    BY <2>2 DEF Contract!Next
<1>4. CASE CloseDone(c)
  <2>1. state = "closing" /\ state' = "disconnected"
    BY <1>4 DEF CloseDone, IInv, Ownership, CloseLive
  <2>2. Contract!EndClose
    BY <1>2, <2>1 DEF Contract!EndClose, CurrentSession, Pending
  <2> QED
    BY <2>2 DEF Contract!Next
<1>5. CASE CloseSwapped(c)
  <2>1. state = "closing" /\ state' = state
    BY <1>5 DEF CloseSwapped, IInv, Ownership, CloseLive
  <2> QED
    BY <1>2, <2>1, LifecycleStutters DEF CurrentSession
<1>6. CASE CloseLoaded(c) \/ CloseRefused(c) \/ CloseReturns(c) \/ CloseDropped(c)
  <2>1. UNCHANGED <<state, CurrentSession>>
    BY <1>6 DEF CloseLoaded, CloseRefused, CloseReturns, CloseDropped,
       lifeVars, CurrentSession
  <2> QED
    BY <1>2, <2>1, LifecycleStutters
<1> QED
  BY <1>3, <1>4, <1>5, <1>6 DEF CloseStep

\* Operations never change the lifecycle.
LEMMA OpStepRefines ==
  ASSUME IInv, IInv', NEW o \in Ops, OpStep(o)
  PROVE  [Contract!Next]_(Contract!vars)
<1>1. UNCHANGED <<lifeVars, connect>>
  BY DEF OpStep, OpLoaded, OpNotConnected, OpRefused, OpStarted
<1>2. UNCHANGED <<state, CurrentSession, Spent>>
  BY <1>1 DEF lifeVars, CurrentSession, Spent
<1>3. \A b \in Connects : ConnectOwns(b) => ConnectOwns(b)'
  BY <1>1 DEF ConnectOwns, ConnectLive
<1> QED
  BY <1>2, <1>3, LifecycleStutters

\* Whatever the atomics, futures and borrows do, the client only ever behaves
\* as ClientContract allows: connect() yields one session, close() ends it, and
\* a session that ended never comes back.
THEOREM ImplementsContract == Spec => ContractSpec
<1>1. IInv /\ IInv' /\ [Next]_vars => [Contract!Next]_(Contract!vars)
  <2> SUFFICES ASSUME IInv, IInv', [Next]_vars
               PROVE  [Contract!Next]_(Contract!vars)
    OBVIOUS
  <2>1. CASE Next
    BY <2>1, ConnectStepRefines, CloseStepRefines, OpStepRefines DEF Next
  <2>2. CASE UNCHANGED vars
    BY <2>2, LifecycleStutters
    DEF vars, lifeVars, CurrentSession, Spent, ConnectOwns, ConnectLive
  <2> QED
    BY <2>1, <2>2
<1> QED
  BY <1>1, InitRefines, Invariance, PTL DEF Spec, ContractSpec, Contract!Spec

-------------------------------------------------------------------------------
(***************************************************************************)
(* A connection pool is protected by its own limit, for any number of      *)
(* operations and reconnects.  The limiter counts its holders; that it     *)
(* thereby counts the operations on one AsClient needs a fact about        *)
(* sessions: a session has a single limiter, built before its first        *)
(* operation, so operations on one AsClient hold permits of one limiter.   *)
(***************************************************************************)

\* An AsClient that was ever handed out belongs to a connect() past its spawn,
\* and all the operations on it cloned the same limiter.
OneLimiter ==
  /\ inner # NoOne => connect[inner] \in {"stored", "connected"}
  /\ \A o \in Ops : op[o] \in {"loaded", "started"} =>
       connect[opClient[o]] \in {"stored", "connected"}
  /\ \A o \in Ops : op[o] = "started" /\ limiter.session = opClient[o] =>
       opLimiter[o] = limiter
  /\ \A o, p \in Ops :
       op[o] = "started" /\ op[p] = "started" /\ opClient[o] = opClient[p] =>
         opLimiter[o] = opLimiter[p]

\* No limiter has more holders than permits.
PermitsBounded ==
  \A l \in Limiters : l.max > 0 => Cardinality(Holders(l)) <= l.max

OpsIInv == IInv /\ OpsTypeOK /\ OneLimiter /\ PermitsBounded

-------------------------------------------------------------------------------
\* A fresh client has no operations.
LEMMA InitOpsIInv == OpsInit => OpsIInv
<1> SUFFICES ASSUME OpsInit PROVE OpsIInv
  OBVIOUS
<1>1. IInv
  BY InitIInv DEF OpsInit
<1>2. OpsTypeOK
  BY <1>1 DEF IInv, OpsTypeOK, OpsInit, Init, FlightPhases
<1>3. OneLimiter
  BY DEF OpsInit, Init, OneLimiter
<1>4. ASSUME NEW l \in Limiters, l.max > 0
      PROVE  Cardinality(Holders(l)) <= l.max
  <2>1. Holders(l) = {}
    BY AsyncOpsAssumption DEF Holders, OpsInit
  <2> QED
    BY <1>4, <2>1, FS_EmptySet DEF Limiters
<1> QED
  BY <1>1, <1>2, <1>3, <1>4 DEF OpsIInv, PermitsBounded

\* The composition takes the steps of AsyncClient.
LEMMA OpsStepIsStep == [OpsNext]_allVars => [Next]_vars
BY DEF OpsNext, allVars, LifecycleStep, Spawned, PermitTaken, PermitTimedOut,
   OpFinished, OpDropped, Next, OpStep

\* Fewer holders never exceed a bound that more of them kept.
LEMMA FewerHolders ==
  ASSUME PermitsBounded, \A l \in Limiters : Holders(l)' \subseteq Holders(l)
  PROVE  PermitsBounded'
<1> SUFFICES ASSUME NEW l \in Limiters, l.max > 0
             PROVE  Cardinality(Holders(l)') <= l.max
  BY DEF PermitsBounded
<1>1. IsFiniteSet(Holders(l))
  BY AsyncOpsAssumption, FS_Subset DEF Holders
<1>2. /\ Cardinality(Holders(l)') <= Cardinality(Holders(l))
      /\ Cardinality(Holders(l)') \in Nat /\ Cardinality(Holders(l)) \in Nat
  BY <1>1, FS_Subset, FS_CardinalityType
<1> QED
  BY <1>2 DEF PermitsBounded, Limiters

\* Connecting, closing and starting operations: sessions keep their limiter.
LEMMA LifecycleOpsIInv ==
  ASSUME OpsIInv, IInv', LifecycleStep
  PROVE  OpsIInv'
<1>1. flight' = flight /\ opLimiter' = opLimiter
  BY DEF LifecycleStep, ConnectStep, CloseStep, OpLoaded, OpNotConnected,
     OpRefused, ConnectClaim, ConnectRefused, ConnectSpawn, ConnectPolled,
     ConnectStored, ConnectDone, ConnectFailed, ConnectDropped, CloseLoaded,
     CloseRefused, CloseReturns, CloseMarked, CloseSwapped, CloseDone,
     CloseDropped, opVars
<1>2. PermitsBounded'
  BY <1>1, FewerHolders DEF OpsIInv, Holders
<1>3. CASE \E a \in Connects : ConnectStep(a)
  <2> PICK a \in Connects : ConnectStep(a)
    BY <1>3
  <2>1. UNCHANGED opVars /\ closeVars' = closeVars
    BY DEF ConnectStep, ConnectClaim, ConnectRefused, ConnectSpawn,
       ConnectPolled, ConnectStored, ConnectDone, ConnectFailed, ConnectDropped
  <2>2. OpsTypeOK'
    BY <1>1, <2>1 DEF OpsIInv, IInv, OpsTypeOK, opVars
  <2>3. OneLimiter'
    BY <2>1
    DEF OpsIInv, IInv, TypeOK, Clients, OneLimiter, opVars, lifeVars, ConnectStep,
        ConnectClaim, ConnectRefused, ConnectSpawn, ConnectPolled,
        ConnectStored, ConnectDone, ConnectFailed, ConnectDropped
  <2> QED
    BY <1>2, <2>2, <2>3 DEF OpsIInv
<1>4. CASE \E c \in Closes : CloseStep(c)
  <2> PICK c \in Closes : CloseStep(c)
    BY <1>4
  <2>1. UNCHANGED <<opVars, connect>>
    BY DEF CloseStep, CloseLoaded, CloseRefused, CloseReturns, CloseMarked,
       CloseSwapped, CloseDone, CloseDropped
  <2>2. OpsTypeOK'
    BY <1>1, <2>1 DEF OpsIInv, IInv, OpsTypeOK, opVars
  <2>3. OneLimiter'
    BY <2>1, AsyncClientAssumption
    DEF OpsIInv, IInv, TypeOK, Clients, OneLimiter, opVars, lifeVars, CloseStep,
        CloseLoaded, CloseRefused, CloseReturns, CloseMarked, CloseSwapped,
        CloseDone, CloseDropped, Disabled
  <2> QED
    BY <1>2, <2>2, <2>3 DEF OpsIInv
<1>5. CASE \E o \in Ops : OpLoaded(o) \/ OpNotConnected(o) \/ OpRefused(o)
  <2> PICK o \in Ops : OpLoaded(o) \/ OpNotConnected(o) \/ OpRefused(o)
    BY <1>5
  <2>1. OpsTypeOK'
    BY <1>1
    DEF OpsIInv, IInv, OpsTypeOK, TypeOK, OpLoaded, OpNotConnected, OpRefused
  <2>2. OneLimiter'
    BY DEF OpsIInv, IInv, TypeOK, Clients, OneLimiter, lifeVars, OpLoaded,
       OpNotConnected, OpRefused
  <2> QED
    BY <1>2, <2>1, <2>2 DEF OpsIInv
<1> QED
  BY <1>3, <1>4, <1>5 DEF LifecycleStep

\* An operation is spawned with the limiter of its session.
LEMMA SpawnedOpsIInv ==
  ASSUME OpsIInv, IInv', NEW o \in Ops, Spawned(o)
  PROVE  OpsIInv'
<1>1. /\ op[o] = "loaded" /\ op' = [op EXCEPT ![o] = "started"]
      /\ opLimiter' = [opLimiter EXCEPT ![o] = limiter]
      /\ flight' = [flight EXCEPT ![o] = IF o \in Limited THEN "waiting"
                                                        ELSE "running"]
      /\ UNCHANGED <<limiter, inner, connect, opClient>>
      /\ flight[o] = "none"
  BY DEF Spawned, OpStarted, lifeVars, OpsIInv, OpsTypeOK, FlightPhases
<1>2. OpsTypeOK'
  BY <1>1 DEF OpsIInv, IInv, OpsTypeOK, TypeOK, FlightPhases
<1>3. opLimiter'[o].session = opClient[o] /\ opLimiter'[o] = limiter
  BY <1>1 DEF OpsIInv, IInv, TypeOK, Session, PairedLimiter
<1>4. OneLimiter'
  BY <1>1, <1>3 DEF OpsIInv, IInv, TypeOK, OneLimiter
<1>5. PermitsBounded'
  BY <1>1, FewerHolders, AsyncOpsAssumption
  DEF OpsIInv, IInv, TypeOK, OpsTypeOK, Holders
<1> QED
  BY <1>2, <1>4, <1>5 DEF OpsIInv

\* A permit is taken only from a limiter that has one.
LEMMA PermitTakenOpsIInv ==
  ASSUME OpsIInv, IInv', NEW o \in Ops, PermitTaken(o)
  PROVE  OpsIInv'
<1>1. /\ UNCHANGED vars /\ flight[o] = "waiting"
      /\ flight' = [flight EXCEPT ![o] = "running"]
      /\ HasPermit(opLimiter[o])
      /\ opLimiter' = opLimiter
  BY DEF PermitTaken, vars, opVars
<1>2. OpsTypeOK' /\ OneLimiter'
  BY <1>1 DEF OpsIInv, IInv, OpsTypeOK, OneLimiter, FlightPhases, vars, lifeVars, opVars
<1>3. ASSUME NEW l \in Limiters, l.max > 0
      PROVE  Cardinality(Holders(l)') <= l.max
  <2>1. IsFiniteSet(Holders(l)) /\ Cardinality(Holders(l)) \in Nat
    BY AsyncOpsAssumption, FS_Subset, FS_CardinalityType DEF Holders
  <2>2. l.max \in Nat /\ Cardinality(Holders(l)) <= l.max
    BY <1>3 DEF OpsIInv, PermitsBounded, Limiters
  <2>3. CASE l = opLimiter[o]
    <3>1. Holders(l)' \subseteq Holders(l) \union {o}
      BY <1>1, AsyncOpsAssumption DEF Holders, OpsIInv, OpsTypeOK
    <3>2. Cardinality(Holders(l)) < l.max
      BY <1>1, <1>3, <2>3 DEF HasPermit
    <3>3. /\ IsFiniteSet(Holders(l) \union {o})
          /\ Cardinality(Holders(l) \union {o}) <= Cardinality(Holders(l)) + 1
          /\ Cardinality(Holders(l) \union {o}) \in Nat
      <4>1. /\ IsFiniteSet(Holders(l) \union {o})
            /\ Cardinality(Holders(l) \union {o}) =
                 IF o \in Holders(l) THEN Cardinality(Holders(l))
                                     ELSE Cardinality(Holders(l)) + 1
        BY <2>1, FS_AddElement
      <4> QED
        BY <2>1, <4>1
    <3>4. /\ Cardinality(Holders(l)') <= Cardinality(Holders(l) \union {o})
          /\ Cardinality(Holders(l)') \in Nat
      BY <3>1, <3>3, FS_Subset, FS_CardinalityType
    <3> QED
      BY <2>1, <2>2, <3>2, <3>3, <3>4
  <2>4. CASE l # opLimiter[o]
    <3>1. Holders(l)' = Holders(l)
      BY <1>1, <2>4, AsyncOpsAssumption DEF Holders, OpsIInv, OpsTypeOK
    <3> QED
      BY <2>2, <3>1
  <2> QED
    BY <2>3, <2>4
<1> QED
  BY <1>2, <1>3 DEF OpsIInv, PermitsBounded

\* An operation that ends, or gives up waiting, leaves the holders.
LEMMA EndOpsIInv ==
  ASSUME OpsIInv, IInv', NEW o \in Ops,
         PermitTimedOut(o) \/ OpFinished(o) \/ OpDropped(o)
  PROVE  OpsIInv'
<1>1. /\ UNCHANGED vars /\ opLimiter' = opLimiter
      /\ flight[o] \in {"waiting", "running"}
      /\ \E ph \in {"backpressure", "done", "dropped"} :
           flight' = [flight EXCEPT ![o] = ph]
  BY DEF PermitTimedOut, OpFinished, OpDropped, vars, opVars
<1>2. OpsTypeOK' /\ OneLimiter'
  BY <1>1 DEF OpsIInv, IInv, OpsTypeOK, OneLimiter, FlightPhases, vars, lifeVars, opVars
<1>3. PermitsBounded'
  BY <1>1, FewerHolders, AsyncOpsAssumption DEF OpsIInv, OpsTypeOK, Holders
<1> QED
  BY <1>2, <1>3 DEF OpsIInv

\* The invariant of the composition.
THEOREM OpsInvariance == OpsSpec => []OpsIInv
<1>1. OpsIInv /\ [OpsNext]_allVars => OpsIInv'
  <2> SUFFICES ASSUME OpsIInv, [OpsNext]_allVars PROVE OpsIInv'
    OBVIOUS
  <2>1. IInv'
    BY OpsStepIsStep, NextIInv DEF OpsIInv
  <2>2. CASE OpsNext
    BY <2>1, <2>2, LifecycleOpsIInv, SpawnedOpsIInv, PermitTakenOpsIInv, EndOpsIInv
    DEF OpsNext
  <2>3. CASE UNCHANGED allVars
    <3>1. UNCHANGED <<vars, flight, opLimiter>>
      BY <2>3 DEF allVars, vars, opVars
    <3>2. OpsTypeOK' /\ OneLimiter'
      BY <2>1, <3>1
      DEF OpsIInv, IInv, OpsTypeOK, OneLimiter, vars, lifeVars, opVars
    <3>3. PermitsBounded'
      BY <3>1, FewerHolders DEF OpsIInv, Holders
    <3> QED
      BY <2>1, <3>2, <3>3 DEF OpsIInv
  <2> QED
    BY <2>2, <2>3
<1> QED
  BY <1>1, InitOpsIInv, PTL DEF OpsSpec

\* On one AsClient no more permit-holding operations run than the limit its own
\* connect() configured, across any number of closes and reconnects.
THEOREM PoolIsProtected == OpsSpec => []PoolProtected
<1>1. OpsIInv => PoolProtected
  <2> SUFFICES ASSUME OpsIInv, NEW o \in Limited,
                      flight[o] = "running", opLimiter[o].max > 0
               PROVE  Cardinality(RunningOn(opClient[o]) \intersect Limited)
                        <= opLimiter[o].max
    BY DEF PoolProtected
  <2> DEFINE l == opLimiter[o]
             R == RunningOn(opClient[o]) \intersect Limited
  <2>1. o \in Ops /\ op[o] = "started" /\ l \in Limiters
    BY AsyncOpsAssumption DEF OpsIInv, IInv, OpsTypeOK, TypeOK
  <2>2. R \subseteq Holders(l)
    BY <2>1, AsyncOpsAssumption
    DEF RunningOn, Holders, OpsIInv, OpsTypeOK, OneLimiter
  <2>3. IsFiniteSet(Holders(l))
    BY AsyncOpsAssumption, FS_Subset DEF Holders
  <2>4. /\ Cardinality(R) <= Cardinality(Holders(l))
        /\ Cardinality(R) \in Nat /\ Cardinality(Holders(l)) \in Nat
    BY <2>2, <2>3, FS_Subset, FS_CardinalityType
  <2>5. Cardinality(Holders(l)) <= l.max
    BY <2>1 DEF OpsIInv, PermitsBounded
  <2> QED
    BY <2>1, <2>4, <2>5 DEF Limiters
<1> QED
  BY <1>1, OpsInvariance, PTL
===============================================================================
