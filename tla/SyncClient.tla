------------------------------ MODULE SyncClient ------------------------------
(***************************************************************************)
(* The synchronous client (rust/src/client.rs) shared by several Python    *)
(* threads, and the queries made from it (rust/src/query.rs).              *)
(*                                                                         *)
(* A method runs on its caller's thread and blocks it.  Other threads get  *)
(* to run only where it detaches from the interpreter, so a step here goes *)
(* from one detach to the next.  The client's own fields are plain: what   *)
(* protects them is PyO3's borrow of the client, which a method keeps      *)
(* until it returns and which is never waited for: a call that cannot have *)
(* it raises.  A query keeps the AsClient it was made from, not the        *)
(* client, and foreach() runs its callback between two detaches, where it  *)
(* may call the client again.                                              *)
(***************************************************************************)
EXTENDS Naturals, FiniteSets

CONSTANTS Threads,      \* the Python threads that share the client
          MaxSessions,  \* bound: connect() calls that get past the checks
          Records,      \* the records a query matches
          QueueSize,    \* record_queue_size of the core client
          Limits,       \* values the config gives max_concurrent_operations
          MaxPermits    \* Semaphore::MAX_PERMITS of Tokio

ASSUME SyncClientAssumption ==
  /\ MaxSessions \in Nat
  /\ Records \in Nat
  /\ QueueSize \in Nat
  /\ Limits \subseteq Nat
  /\ MaxPermits \in Nat

\* Who calls: a thread's own code, or a callback that runs on that thread.
Callers == [thread : Threads, level : {"own", "callback"}]

VARIABLES
  state,     \* the lifecycle state
  inner,     \* the AsClient in use, or NoSession
  limiter,   \* the OperationLimiter: whose session, and its permits
  begun,     \* how many connect() calls claimed the client; they number the AsClients
  at,        \* where each caller is, or how its last call ended
  session,   \* the AsClient its call runs on
  slots,     \* the limiter its call cloned
  produced,  \* records the nodes have sent to its query's stream
  shown,     \* records its query has taken from the stream
  stream     \* its query's stream: "open", "ended" or "failed"

lifeVars == <<state, inner, limiter, begun>>
streamVars == <<produced, shown, stream>>
vars == <<lifeVars, at, session, slots, streamVars>>

NoSession == 0
Sessions == 1..MaxSessions
Limiters == [session : {NoSession} \union Sessions, max : Nat]

\* OperationLimiter::new(0, 0): every operation passes.
Disabled == [session |-> NoSession, max |-> 0]

Busy == {"opening", "closing", "queued", "running", "pinging",
         "pumping", "callback", "collecting"}
Over == {"idle", "finished"}

Init ==
  /\ state = "disconnected"
  /\ inner = NoSession
  /\ limiter = Disabled
  /\ begun = 0
  /\ at = [c \in Callers |-> "idle"]
  /\ session = [c \in Callers |-> NoSession]
  /\ slots = [c \in Callers |-> Disabled]
  /\ produced = [c \in Callers |-> 0]
  /\ shown = [c \in Callers |-> 0]
  /\ stream = [c \in Callers |-> "open"]

-------------------------------------------------------------------------------
\* The borrows that are live: connect() and close() take &mut self, the
\* operations &self; a query's methods borrow the query, not the client.
Exclusive == {c \in Callers : at[c] \in {"opening", "closing"}}

\* Mutant: a query runs inside a method of the client.
SharedWithQueries ==
  {c \in Callers : at[c] \in {"queued", "running", "pinging",
                              "pumping", "callback", "collecting"}}

Shared == {c \in Callers : at[c] \in {"queued", "running", "pinging"}}

\* Mutant: close() takes &self and relies on the state alone.
MutFreeOfConnects == Exclusive = {}

MutFree == Exclusive = {} /\ Shared = {}
RefFree == Exclusive = {}

\* A callback calls while its thread's foreach() is inside it.
MayCall(c) ==
  /\ at[c] = "idle"
  /\ c.level = "callback" => at[[c EXCEPT !.level = "own"]] = "callback"

Moves(c, place) == at' = [at EXCEPT ![c] = place]

-------------------------------------------------------------------------------
\* A call that leaves everything as it was: the client is borrowed and it raises
\* RuntimeError; connect() in another state than DISCONNECTED or with a bad
\* config raises, close() raises when CONNECTING and is a no-op when DISCONNECTED,
\* an operation or query() without a client raises, and ping() is then False.
Refused(c) ==
  /\ MayCall(c)
  /\ UNCHANGED vars

\* Mutant: connect() does not look at the state.
ConnectBeginsIfNoClient(c) ==
  /\ MayCall(c)
  /\ MutFree
  /\ begun < MaxSessions
  /\ state' = "connecting"
  /\ begun' = begun + 1
  /\ Moves(c, "opening")
  /\ UNCHANGED <<inner, limiter, session, slots, streamVars>>

\* connect(): the config is parsed, the state moves on, AsClient::new runs.
ConnectBegins(c) ==
  /\ MayCall(c)
  /\ MutFree
  /\ state = "disconnected"
  /\ begun < MaxSessions
  /\ state' = "connecting"
  /\ begun' = begun + 1
  /\ Moves(c, "opening")
  /\ UNCHANGED <<inner, limiter, session, slots, streamVars>>

ConnectSucceeds(c) ==
  /\ at[c] = "opening"
  /\ inner' = begun
  /\ \E m \in Limits :
       /\ m <= MaxPermits
       /\ limiter' = [session |-> begun, max |-> m]
  /\ state' = "connected"
  /\ Moves(c, "idle")
  /\ UNCHANGED <<begun, session, slots, streamVars>>

\* `inner` is set, then Semaphore::new panics: the state is never given back.
ConnectPanics(c) ==
  /\ at[c] = "opening"
  /\ \E m \in Limits : m > MaxPermits
  /\ inner' = begun
  /\ Moves(c, "idle")
  /\ UNCHANGED <<state, limiter, begun, session, slots, streamVars>>

ConnectFails(c) ==
  /\ at[c] = "opening"
  /\ state' = "disconnected"
  /\ Moves(c, "idle")
  /\ UNCHANGED <<inner, limiter, begun, session, slots, streamVars>>

-------------------------------------------------------------------------------
\* close() of a connected client: `inner` is taken and shut.
CloseBegins(c) ==
  /\ MayCall(c)
  /\ MutFree
  /\ state = "connected"
  /\ state' = "closing"
  /\ inner' = NoSession
  /\ session' = [session EXCEPT ![c] = inner]
  /\ Moves(c, "closing")
  /\ UNCHANGED <<limiter, begun, slots, streamVars>>

\* Whatever the core's close() gave, the client is reset.
CloseEnds(c) ==
  /\ at[c] = "closing"
  /\ state' = "disconnected"
  /\ limiter' = Disabled
  /\ session' = [session EXCEPT ![c] = NoSession]
  /\ Moves(c, "idle")
  /\ UNCHANGED <<inner, begun, slots, streamVars>>

-------------------------------------------------------------------------------
\* An operation: get_client() and the limiter's clone, then it blocks.
OpBegins(c) ==
  /\ MayCall(c)
  /\ RefFree
  /\ inner # NoSession
  /\ session' = [session EXCEPT ![c] = inner]
  /\ slots' = [slots EXCEPT ![c] = limiter]
  /\ Moves(c, "queued")
  /\ UNCHANGED <<lifeVars, streamVars>>

\* Mutant: queries hold a permit as well.
HoldersWithQueries(l) ==
  {c \in Callers : \/ at[c] = "running" /\ slots[c] = l
                   \/ at[c] \in {"pumping", "callback", "collecting"}}

\* The calls that hold a permit of the semaphore behind l.
Holders(l) == {c \in Callers : at[c] = "running" /\ slots[c] = l}

HasPermit(l) == l.max = 0 \/ Cardinality(Holders(l)) < l.max

OpAcquires(c) ==
  /\ at[c] = "queued"
  /\ HasPermit(slots[c])
  /\ Moves(c, "running")
  /\ UNCHANGED <<lifeVars, session, slots, streamVars>>

\* The end of an operation that got no permit in time (BackpressureError), of
\* one that answered, failed or panicked, and of ping().
CallEnds(c, from) ==
  /\ at[c] = from
  /\ session' = [session EXCEPT ![c] = NoSession]
  /\ slots' = [slots EXCEPT ![c] = Disabled]
  /\ Moves(c, "idle")
  /\ UNCHANGED <<lifeVars, streamVars>>

OpTimesOut(c) == ~HasPermit(slots[c]) /\ CallEnds(c, "queued")
OpEnds(c) == CallEnds(c, "running")
PingEnds(c) == CallEnds(c, "pinging")

\* ping() asks the client alone, and takes no permit.
PingBegins(c) ==
  /\ MayCall(c)
  /\ RefFree
  /\ inner # NoSession
  /\ session' = [session EXCEPT ![c] = inner]
  /\ Moves(c, "pinging")
  /\ UNCHANGED <<lifeVars, slots, streamVars>>

-------------------------------------------------------------------------------
ClearStream(c) ==
  /\ produced' = [produced EXCEPT ![c] = 0]
  /\ shown' = [shown EXCEPT ![c] = 0]
  /\ stream' = [stream EXCEPT ![c] = "open"]

\* query() and then foreach() or results(): the Query keeps a clone of the
\* AsClient, past the client's close().  The queries of callbacks are left out.
QueryBegins(c, place) ==
  /\ MayCall(c)
  /\ c.level = "own"
  /\ RefFree
  /\ inner # NoSession
  /\ session' = [session EXCEPT ![c] = inner]
  /\ Moves(c, place)
  /\ UNCHANGED <<lifeVars, slots, streamVars>>

ForeachBegins(c) == QueryBegins(c, "pumping")
ResultsBegin(c) == QueryBegins(c, "collecting")

\* The core's query: its nodes fill the bounded queue until they are done or one
\* fails, at the start or later (dropping the stream stops them).
Streaming == {"pumping", "callback", "collecting"}

NodeSends(c) ==
  /\ at[c] \in Streaming
  /\ stream[c] = "open"
  /\ produced[c] < Records
  /\ produced[c] - shown[c] < QueueSize
  /\ produced' = [produced EXCEPT ![c] = @ + 1]
  /\ UNCHANGED <<lifeVars, at, session, slots, shown, stream>>

StreamCloses(c) ==
  /\ at[c] \in Streaming
  /\ stream[c] = "open"
  /\ \/ produced[c] = Records /\ stream' = [stream EXCEPT ![c] = "ended"]
     \/ stream' = [stream EXCEPT ![c] = "failed"]
  /\ UNCHANGED <<lifeVars, at, session, slots, produced, shown>>

\* stream.next() takes one record at a time: foreach() shows it to the
\* callback, results() keeps it.
RecordTaken(c) ==
  /\ at[c] \in {"pumping", "collecting"}
  /\ shown[c] < produced[c]
  /\ shown' = [shown EXCEPT ![c] = @ + 1]
  /\ Moves(c, IF at[c] = "pumping" THEN "callback" ELSE "collecting")
  /\ UNCHANGED <<lifeVars, session, slots, produced, stream>>

\* Mutant: `while let Some(Ok(record))`: an error ends the loop.
ExhaustedOrFailed(c) ==
  /\ at[c] \in {"pumping", "collecting"}
  /\ stream[c] # "open"
  /\ shown[c] = produced[c]
  /\ session' = [session EXCEPT ![c] = NoSession]
  /\ Moves(c, "finished")
  /\ UNCHANGED <<lifeVars, slots, streamVars>>

\* The stream is over: the call returns normally.
Exhausted(c) ==
  /\ at[c] \in {"pumping", "collecting"}
  /\ stream[c] = "ended"
  /\ shown[c] = produced[c]
  /\ session' = [session EXCEPT ![c] = NoSession]
  /\ Moves(c, "finished")
  /\ UNCHANGED <<lifeVars, slots, streamVars>>

\* The query is given up and its stream dropped.
Abandon(c) ==
  /\ session' = [session EXCEPT ![c] = NoSession]
  /\ Moves(c, "idle")
  /\ ClearStream(c)
  /\ UNCHANGED <<lifeVars, slots>>

\* The core's query or the stream's next item is an error, or the item cannot be
\* converted or its handling panics: the call raises, and results() discards
\* what it had.
QueryRaises(c) ==
  /\ at[c] \in {"pumping", "collecting"}
  /\ stream[c] = "failed" \/ shown[c] < produced[c]
  /\ Abandon(c)

\* The callback comes back: with False it ends the scan, raising it ends the
\* call, with anything else the next record is awaited.
CallbackDone(c) == at[c] = "callback" /\ at[[c EXCEPT !.level = "callback"]] \in Over

CallbackContinues(c) ==
  /\ CallbackDone(c)
  /\ Moves(c, "pumping")
  /\ UNCHANGED <<lifeVars, session, slots, streamVars>>

CallbackEnds(c) == CallbackDone(c) /\ Abandon(c)

\* The caller has its result, and drops it.
ResultTaken(c) ==
  /\ at[c] = "finished"
  /\ Moves(c, "idle")
  /\ ClearStream(c)
  /\ UNCHANGED <<lifeVars, session, slots>>

-------------------------------------------------------------------------------
LifeStep(c) ==
  \/ Refused(c)
  \/ ConnectBegins(c)
  \/ ConnectSucceeds(c)
  \/ ConnectPanics(c)
  \/ ConnectFails(c)
  \/ CloseBegins(c)
  \/ CloseEnds(c)

OpStep(c) ==
  \/ OpBegins(c)
  \/ OpAcquires(c)
  \/ OpTimesOut(c)
  \/ OpEnds(c)
  \/ PingBegins(c)
  \/ PingEnds(c)

QueryStep(c) ==
  \/ ForeachBegins(c)
  \/ ResultsBegin(c)
  \/ NodeSends(c)
  \/ StreamCloses(c)
  \/ RecordTaken(c)
  \/ Exhausted(c)
  \/ QueryRaises(c)
  \/ CallbackContinues(c)
  \/ CallbackEnds(c)
  \/ ResultTaken(c)

Next == \E c \in Callers : LifeStep(c) \/ OpStep(c) \/ QueryStep(c)

Spec == Init /\ [][Next]_vars

\* The network answers (a policy's total_timeout at the latest) and a stream goes
\* on or closes, the semaphore is fair (OperationLimiter: EveryWaiterServed), and
\* a callback does not call the client for ever.
Answered(c) ==
  \/ ConnectSucceeds(c) \/ ConnectPanics(c) \/ ConnectFails(c)
  \/ CloseEnds(c)
  \/ OpEnds(c)
  \/ PingEnds(c)
  \/ NodeSends(c) \/ StreamCloses(c) \/ RecordTaken(c) \/ Exhausted(c)
  \/ QueryRaises(c)
  \/ ResultTaken(c)

Fairness ==
  \A c \in Callers :
    /\ WF_vars(Answered(c))
    /\ SF_vars(OpAcquires(c))
    /\ SF_vars(CallbackContinues(c) \/ CallbackEnds(c))

FairSpec == Spec /\ Fairness

-------------------------------------------------------------------------------
(* Properties *)

TypeOK ==
  /\ state \in {"disconnected", "connecting", "connected", "closing"}
  /\ inner \in {NoSession} \union Sessions
  /\ limiter \in Limiters
  /\ begun \in 0..MaxSessions
  /\ at \in [Callers -> Busy \union Over]
  /\ session \in [Callers -> {NoSession} \union Sessions]
  /\ slots \in [Callers -> Limiters]
  /\ produced \in [Callers -> 0..Records]
  /\ shown \in [Callers -> 0..Records]
  /\ stream \in [Callers -> {"open", "ended", "failed"}]

\* No operation ever runs on an AsClient that close() is shutting or has shut,
\* or under the limiter of another session than its own.
CallsKeepTheirSession ==
  \A c \in Callers :
    /\ at[c] \in {"queued", "running", "pinging"} => session[c] = inner
    /\ at[c] \in {"queued", "running"} => slots[c] = limiter

\* A query returns normally, unless its callback asked it to stop, only after
\* it has delivered every record: what it lost, it raises.
NoSilentTruncation ==
  \A c \in Callers : at[c] = "finished" => shown[c] = Records

\* A callback may call the client again: a call is only ever refused for the
\* borrow of another thread's call, never for that of the foreach() it runs in.
BorrowedByOthersOnly ==
  \A c \in Callers :
    MayCall(c) /\ ~MutFree =>
      \E d \in Exclusive \union Shared : d.thread # c.thread

\* The client keeps the promise of the lifecycle contract.
Contract == INSTANCE ClientContract WITH
  Connects <- Sessions,
  NoOne <- NoSession,
  phase <- state,
  pending <- IF state = "connecting" THEN begun ELSE NoSession,
  session <- IF state = "connected" THEN inner ELSE NoSession,
  spent <- 1..begun

ContractSpec == Contract!Spec

\* Every blocking call returns: in particular a callback's operation is not
\* starved of a slot by the query it was called from.
EveryCallReturns ==
  \A c \in Callers : at[c] \in Busy ~> at[c] \in Over
===============================================================================
