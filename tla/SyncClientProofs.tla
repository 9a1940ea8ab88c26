--------------------------- MODULE SyncClientProofs ---------------------------
(***************************************************************************)
(* Theorems about SyncClient, for any number of threads, sessions and      *)
(* records.  The borrow of the client is what makes them true: nothing     *)
(* else keeps close() away from the calls of other threads.                *)
(***************************************************************************)
EXTENDS SyncClient, TLAPS

\* connect() and close() share the client with no other method.
Alone == \A c \in Exclusive : \A d \in Exclusive \union Shared : c = d

\* The lifecycle state is that of the connect() or close() under way.
Owned ==
  \A c \in Callers :
    /\ at[c] = "opening" => state = "connecting"
    /\ at[c] = "closing" => state = "closing"

\* A stream ends by itself only after its last record.
EndedComplete == \A c \in Callers : stream[c] = "ended" => produced[c] = Records

\* The caller whose foreach() runs the callback c.
Own(c) == [c EXCEPT !.level = "own"]

\* A callback is busy only inside its thread's foreach().
Nested ==
  \A c \in Callers :
    c.level = "callback" /\ at[c] \in Busy => at[Own(c)] = "callback"

IInv ==
  /\ TypeOK
  /\ Alone
  /\ Owned
  /\ CallsKeepTheirSession
  /\ EndedComplete
  /\ NoSilentTruncation
  /\ Nested

\* The same thread's own code is a caller; a caller is its thread and level.
LEMMA OwnCaller ==
  ASSUME NEW c \in Callers
  PROVE  /\ Own(c) \in Callers
         /\ Own(c).thread = c.thread
         /\ Own(c).level = "own"
         /\ \A d \in Callers : c.thread = d.thread /\ c.level = d.level => c = d
         /\ c.level \in {"own", "callback"}
         /\ c.level = "own" => Own(c) = c
  BY DEF Callers, Own

-------------------------------------------------------------------------------
(* Types *)

LEMMA InitTypeOK == Init => TypeOK
  BY SyncClientAssumption
  DEF Init, TypeOK, Busy, Over, Limiters, Disabled, NoSession

LEMMA LifeTypeOK ==
  ASSUME TypeOK, NEW c \in Callers, LifeStep(c)
  PROVE  TypeOK'
<1> USE SyncClientAssumption DEF TypeOK, Moves, Busy, Over, lifeVars, streamVars
<1>1. CASE Refused(c)
  BY <1>1 DEF Refused, vars
<1>2. CASE ConnectBegins(c)
  BY <1>2 DEF ConnectBegins
<1>3. CASE ConnectSucceeds(c)
  BY <1>3 DEF ConnectSucceeds, Limiters, Sessions, NoSession
<1>4. CASE ConnectPanics(c)
  BY <1>4 DEF ConnectPanics, Sessions, NoSession
<1>5. CASE ConnectFails(c)
  BY <1>5 DEF ConnectFails
<1>6. CASE CloseBegins(c)
  BY <1>6 DEF CloseBegins
<1>7. CASE CloseEnds(c)
  BY <1>7 DEF CloseEnds, Disabled, Limiters
<1> QED BY <1>1, <1>2, <1>3, <1>4, <1>5, <1>6, <1>7 DEF LifeStep

LEMMA OpTypeOK ==
  ASSUME TypeOK, NEW c \in Callers, OpStep(c)
  PROVE  TypeOK'
<1> USE DEF TypeOK, Moves, Busy, Over, lifeVars, streamVars
<1>1. CASE OpBegins(c)
  BY <1>1 DEF OpBegins
<1>2. CASE OpAcquires(c)
  BY <1>2 DEF OpAcquires
<1>3. ASSUME NEW from, CallEnds(c, from) PROVE TypeOK'
  BY <1>3 DEF CallEnds, Disabled, Limiters
<1>4. CASE PingBegins(c)
  BY <1>4 DEF PingBegins
<1> QED BY <1>1, <1>2, <1>3, <1>4 DEF OpStep, OpTimesOut, OpEnds, PingEnds

LEMMA QueryTypeOK ==
  ASSUME TypeOK, NEW c \in Callers, QueryStep(c)
  PROVE  TypeOK'
<1> USE SyncClientAssumption
    DEF TypeOK, Moves, Busy, Over, lifeVars, streamVars, ClearStream
<1>1. CASE ForeachBegins(c) \/ ResultsBegin(c)
  BY <1>1 DEF ForeachBegins, ResultsBegin, QueryBegins
<1>2. CASE NodeSends(c)
  BY <1>2 DEF NodeSends
<1>3. CASE StreamCloses(c)
  BY <1>3 DEF StreamCloses
<1>4. CASE RecordTaken(c)
  BY <1>4 DEF RecordTaken
<1>5. CASE Exhausted(c)
  BY <1>5 DEF Exhausted
<1>6. CASE QueryRaises(c) \/ CallbackEnds(c)
  BY <1>6 DEF QueryRaises, CallbackEnds, Abandon
<1>7. CASE CallbackContinues(c)
  BY <1>7 DEF CallbackContinues
<1>8. CASE ResultTaken(c)
  BY <1>8 DEF ResultTaken
<1> QED BY <1>1, <1>2, <1>3, <1>4, <1>5, <1>6, <1>7, <1>8 DEF QueryStep

LEMMA NextTypeOK == TypeOK /\ [Next]_vars => TypeOK'
<1>1. TypeOK /\ UNCHANGED vars => TypeOK'
  BY DEF TypeOK, vars, lifeVars, streamVars
<1> QED BY <1>1, LifeTypeOK, OpTypeOK, QueryTypeOK DEF Next

\* Every variable has its type, in every call of every thread.
THEOREM TypeCorrect == Spec => []TypeOK
  BY InitTypeOK, NextTypeOK, PTL DEF Spec

-------------------------------------------------------------------------------
(* Borrows and nesting *)

\* A caller takes the exclusive borrow only if nobody has any, a shared one only
\* if nobody has the exclusive one; a callback starts a call only while its
\* foreach() is inside it, and foreach() goes on only when it is over.
MovesRightly(c, place) ==
  /\ Moves(c, place)
  /\ place \in {"opening", "closing"} => MutFree
  /\ place \in {"queued", "running", "pinging"} =>
       RefFree \/ at[c] \in {"queued", "running", "pinging"}
  /\ c.level = "callback" /\ place \in Busy =>
       at[Own(c)] = "callback" \/ at[c] \in Busy
  /\ at[c] = "callback" => at[[c EXCEPT !.level = "callback"]] \in Over

LEMMA LifeMovesRightly ==
  ASSUME TypeOK, NEW c \in Callers, LifeStep(c)
  PROVE  at' = at \/ \E place \in Busy \union Over : MovesRightly(c, place)
<1> USE DEF MovesRightly, Busy, Over
<1>1. CASE Refused(c)
  BY <1>1 DEF Refused, vars
<1>2. CASE ConnectBegins(c)
  <2>1. MovesRightly(c, "opening")
    BY <1>2 DEF ConnectBegins, MayCall, Own
  <2> QED BY <2>1
<1>3. CASE CloseBegins(c)
  <2>1. MovesRightly(c, "closing")
    BY <1>3 DEF CloseBegins, MayCall, Own
  <2> QED BY <2>1
<1>4. CASE ConnectSucceeds(c) \/ ConnectPanics(c) \/ ConnectFails(c) \/ CloseEnds(c)
  <2>1. MovesRightly(c, "idle")
    BY <1>4 DEF ConnectSucceeds, ConnectPanics, ConnectFails, CloseEnds
  <2> QED BY <2>1
<1> QED BY <1>1, <1>2, <1>3, <1>4 DEF LifeStep

LEMMA OpMovesRightly ==
  ASSUME TypeOK, NEW c \in Callers, OpStep(c)
  PROVE  at' = at \/ \E place \in Busy \union Over : MovesRightly(c, place)
<1> USE DEF MovesRightly, Busy, Over
<1>1. CASE OpBegins(c)
  <2>1. MovesRightly(c, "queued")
    BY <1>1 DEF OpBegins, MayCall, Own
  <2> QED BY <2>1
<1>2. CASE OpAcquires(c)
  <2>1. MovesRightly(c, "running")
    BY <1>2 DEF OpAcquires
  <2> QED BY <2>1
<1>3. CASE OpTimesOut(c) \/ OpEnds(c) \/ PingEnds(c)
  <2>1. MovesRightly(c, "idle")
    BY <1>3 DEF OpTimesOut, OpEnds, PingEnds, CallEnds
  <2> QED BY <2>1
<1>4. CASE PingBegins(c)
  <2>1. MovesRightly(c, "pinging")
    BY <1>4 DEF PingBegins, MayCall, Own
  <2> QED BY <2>1
<1> QED BY <1>1, <1>2, <1>3, <1>4 DEF OpStep

LEMMA QueryMovesRightly ==
  ASSUME TypeOK, Nested, NEW c \in Callers, QueryStep(c)
  PROVE  at' = at \/ \E place \in Busy \union Over : MovesRightly(c, place)
<1> USE DEF MovesRightly, Busy, Over
<1>1. CASE ForeachBegins(c)
  <2>1. MovesRightly(c, "pumping")
    BY <1>1 DEF ForeachBegins, QueryBegins, MayCall
  <2> QED BY <2>1
<1>2. CASE ResultsBegin(c)
  <2>1. MovesRightly(c, "collecting")
    BY <1>2 DEF ResultsBegin, QueryBegins, MayCall
  <2> QED BY <2>1
<1>3. CASE NodeSends(c) \/ StreamCloses(c)
  BY <1>3 DEF NodeSends, StreamCloses
<1>4. CASE RecordTaken(c)
  <2>1. CASE at[c] = "pumping"
    <3>1. MovesRightly(c, "callback")
      BY <1>4, <2>1 DEF RecordTaken
    <3> QED BY <3>1
  <2>2. CASE at[c] = "collecting"
    <3>1. MovesRightly(c, "collecting")
      BY <1>4, <2>2 DEF RecordTaken
    <3> QED BY <3>1
  <2> QED BY <1>4, <2>1, <2>2 DEF RecordTaken
<1>5. CASE Exhausted(c)
  <2>1. MovesRightly(c, "finished")
    BY <1>5 DEF Exhausted
  <2> QED BY <2>1
<1>6. CASE CallbackContinues(c)
  <2>1. MovesRightly(c, "pumping")
    BY <1>6 DEF CallbackContinues, CallbackDone
  <2> QED BY <2>1
<1>7. CASE QueryRaises(c) \/ CallbackEnds(c) \/ ResultTaken(c)
  <2>1. MovesRightly(c, "idle")
    BY <1>7 DEF QueryRaises, CallbackEnds, CallbackDone, Abandon, ResultTaken
  <2> QED BY <2>1
<1> QED BY <1>1, <1>2, <1>3, <1>4, <1>5, <1>6, <1>7 DEF QueryStep

LEMMA MovesKeepAlone ==
  ASSUME TypeOK, Alone, NEW c \in Callers, NEW place, MovesRightly(c, place)
  PROVE  Alone'
BY DEF TypeOK, Alone, MovesRightly, Moves, Exclusive, Shared, MutFree, RefFree

LEMMA MovesKeepNested ==
  ASSUME TypeOK, Nested, NEW c \in Callers, NEW place, MovesRightly(c, place)
  PROVE  Nested'
<1> SUFFICES ASSUME NEW d \in Callers, d.level = "callback", at'[d] \in Busy
             PROVE  at'[Own(d)] = "callback"
  BY DEF Nested
<1>1. Own(d) \in Callers /\ Own(d) # d
  BY OwnCaller
<1>2. CASE d = c
  BY <1>1, <1>2 DEF TypeOK, Nested, MovesRightly, Moves
<1>3. CASE d # c
  <2>1. at[Own(d)] = "callback"
    BY <1>3 DEF TypeOK, Nested, MovesRightly, Moves
  <2>2. Own(d) = c => d = [c EXCEPT !.level = "callback"]
    BY DEF Own, Callers
  <2>3. at[d] \in Busy /\ at[d] \notin Over
    BY <1>3 DEF TypeOK, MovesRightly, Moves, Busy, Over
  <2>4. Own(d) # c
    BY <2>1, <2>2, <2>3 DEF MovesRightly
  <2> QED BY <1>1, <2>1, <2>4 DEF TypeOK, MovesRightly, Moves
<1> QED BY <1>2, <1>3

-------------------------------------------------------------------------------
(* Sessions and streams *)

LEMMA LifeKeepsSessions ==
  ASSUME TypeOK, Alone, Owned, CallsKeepTheirSession, NEW c \in Callers, LifeStep(c)
  PROVE  Owned' /\ CallsKeepTheirSession'
<1> USE DEF TypeOK, Owned, CallsKeepTheirSession, Moves, lifeVars, streamVars
<1>1. CASE Refused(c)
  BY <1>1 DEF Refused, vars
<1>2. CASE ConnectBegins(c)
  BY <1>2 DEF ConnectBegins, MutFree, Exclusive
<1>3. CASE CloseBegins(c)
  BY <1>3 DEF CloseBegins, MutFree, Exclusive, Shared
<1>4. CASE ConnectSucceeds(c) \/ ConnectPanics(c) \/ ConnectFails(c) \/ CloseEnds(c)
  <2>1. at[c] \in {"opening", "closing"} /\ at' = [at EXCEPT ![c] = "idle"]
    BY <1>4 DEF ConnectSucceeds, ConnectPanics, ConnectFails, CloseEnds
  <2>2. \A d \in Callers :
          d # c => at[d] \notin {"opening", "closing", "queued", "running", "pinging"}
    BY <2>1 DEF Alone, Exclusive, Shared
  <2> QED BY <2>1, <2>2
<1> QED BY <1>1, <1>2, <1>3, <1>4 DEF LifeStep

LEMMA OpKeepsSessions ==
  ASSUME TypeOK, Owned, CallsKeepTheirSession, NEW c \in Callers, OpStep(c)
  PROVE  Owned' /\ CallsKeepTheirSession'
<1> USE DEF TypeOK, Owned, CallsKeepTheirSession, Moves, lifeVars, streamVars
<1>1. CASE OpBegins(c)
  BY <1>1 DEF OpBegins
<1>2. CASE OpAcquires(c)
  BY <1>2 DEF OpAcquires
<1>3. CASE OpTimesOut(c) \/ OpEnds(c) \/ PingEnds(c)
  BY <1>3 DEF OpTimesOut, OpEnds, PingEnds, CallEnds
<1>4. CASE PingBegins(c)
  BY <1>4 DEF PingBegins
<1> QED BY <1>1, <1>2, <1>3, <1>4 DEF OpStep

LEMMA QueryKeepsSessions ==
  ASSUME TypeOK, Owned, CallsKeepTheirSession, NEW c \in Callers, QueryStep(c)
  PROVE  Owned' /\ CallsKeepTheirSession'
<1> USE DEF TypeOK, Owned, CallsKeepTheirSession, Moves, lifeVars, streamVars
<1>1. CASE ForeachBegins(c) \/ ResultsBegin(c)
  BY <1>1 DEF ForeachBegins, ResultsBegin, QueryBegins
<1>2. CASE NodeSends(c) \/ StreamCloses(c)
  BY <1>2 DEF NodeSends, StreamCloses
<1>3. CASE RecordTaken(c)
  BY <1>3 DEF RecordTaken
<1>4. CASE Exhausted(c)
  BY <1>4 DEF Exhausted
<1>5. CASE QueryRaises(c) \/ CallbackEnds(c)
  BY <1>5 DEF QueryRaises, CallbackEnds, Abandon
<1>6. CASE CallbackContinues(c) \/ ResultTaken(c)
  BY <1>6 DEF CallbackContinues, ResultTaken
<1> QED BY <1>1, <1>2, <1>3, <1>4, <1>5, <1>6 DEF QueryStep

\* Steps outside queries leave every stream and every finished call as it is.
LEMMA CallsKeepStreams ==
  ASSUME TypeOK, EndedComplete, NoSilentTruncation, NEW c \in Callers,
         LifeStep(c) \/ OpStep(c)
  PROVE  EndedComplete' /\ NoSilentTruncation'
<1>1. UNCHANGED streamVars
  BY DEF LifeStep, Refused, ConnectBegins, ConnectSucceeds, ConnectPanics,
         ConnectFails, CloseBegins, CloseEnds, OpStep, OpBegins, OpAcquires,
         OpTimesOut, OpEnds, PingBegins, PingEnds, CallEnds, vars
<1>2. at' = at \/ \E place \in Busy \union {"idle"} : at' = [at EXCEPT ![c] = place]
  BY DEF LifeStep, Refused, ConnectBegins, ConnectSucceeds, ConnectPanics,
         ConnectFails, CloseBegins, CloseEnds, OpStep, OpBegins, OpAcquires,
         OpTimesOut, OpEnds, PingBegins, PingEnds, CallEnds, vars, Moves, Busy
<1> QED BY <1>1, <1>2 DEF TypeOK, EndedComplete, NoSilentTruncation, streamVars, Busy

LEMMA QueryKeepsStreams ==
  ASSUME TypeOK, EndedComplete, NoSilentTruncation, NEW c \in Callers, QueryStep(c)
  PROVE  EndedComplete' /\ NoSilentTruncation'
<1> USE DEF TypeOK, EndedComplete, NoSilentTruncation, Moves, lifeVars, streamVars,
            ClearStream
<1>1. CASE ForeachBegins(c) \/ ResultsBegin(c)
  BY <1>1 DEF ForeachBegins, ResultsBegin, QueryBegins
<1>2. CASE NodeSends(c)
  BY <1>2 DEF NodeSends
<1>3. CASE StreamCloses(c)
  BY <1>3 DEF StreamCloses, Streaming
<1>4. CASE RecordTaken(c)
  BY <1>4 DEF RecordTaken
<1>5. CASE Exhausted(c)
  BY <1>5 DEF Exhausted
<1>6. CASE QueryRaises(c) \/ CallbackEnds(c)
  BY <1>6 DEF QueryRaises, CallbackEnds, Abandon
<1>7. CASE CallbackContinues(c)
  BY <1>7 DEF CallbackContinues
<1>8. CASE ResultTaken(c)
  BY <1>8 DEF ResultTaken
<1> QED BY <1>1, <1>2, <1>3, <1>4, <1>5, <1>6, <1>7, <1>8 DEF QueryStep

-------------------------------------------------------------------------------
(* The invariant and what follows from it *)

LEMMA InitIInv == Init => IInv
  BY InitTypeOK
  DEF Init, IInv, Alone, Owned, CallsKeepTheirSession, EndedComplete,
      NoSilentTruncation, Nested, Exclusive, Shared, Busy

LEMMA NextIInv == IInv /\ [Next]_vars => IInv'
<1> SUFFICES ASSUME IInv, [Next]_vars PROVE IInv'
  OBVIOUS
<1>1. CASE UNCHANGED vars
  BY <1>1, NextTypeOK
  DEF IInv, Alone, Owned, CallsKeepTheirSession, EndedComplete, NoSilentTruncation,
      Nested, Exclusive, Shared, vars, lifeVars, streamVars
<1>2. ASSUME NEW c \in Callers, LifeStep(c) \/ OpStep(c) \/ QueryStep(c)
      PROVE  IInv'
  <2>1. TypeOK'
    BY <1>2, LifeTypeOK, OpTypeOK, QueryTypeOK DEF IInv
  <2>2. at' = at \/ \E place \in Busy \union Over : MovesRightly(c, place)
    BY <1>2, LifeMovesRightly, OpMovesRightly, QueryMovesRightly DEF IInv
  <2>3. Alone'
    BY <1>2, <2>2, MovesKeepAlone DEF IInv, Alone, Exclusive, Shared
  <2>4. Nested'
    BY <1>2, <2>2, MovesKeepNested DEF IInv, Nested
  <2>5. Owned' /\ CallsKeepTheirSession'
    BY <1>2, LifeKeepsSessions, OpKeepsSessions, QueryKeepsSessions DEF IInv
  <2>6. EndedComplete' /\ NoSilentTruncation'
    BY <1>2, CallsKeepStreams, QueryKeepsStreams DEF IInv
  <2> QED BY <2>1, <2>3, <2>4, <2>5, <2>6 DEF IInv
<1> QED BY <1>1, <1>2 DEF Next

\* The inductive invariant: the borrows, the lifecycle state's owner, the
\* session of every call, the streams and the nesting of callbacks.
THEOREM Invariance == Spec => []IInv
  BY InitIInv, NextIInv, PTL DEF Spec

\* No operation runs on an AsClient that close() shuts, or under the limiter of
\* another session.
THEOREM SessionsAreKept == Spec => []CallsKeepTheirSession
<1>1. IInv => CallsKeepTheirSession
  BY DEF IInv
<1> QED BY <1>1, Invariance, PTL

\* A query that returns normally has delivered every record.
THEOREM NothingIsLostInSilence == Spec => []NoSilentTruncation
<1>1. IInv => NoSilentTruncation
  BY DEF IInv
<1> QED BY <1>1, Invariance, PTL

\* A callback is never refused because of the foreach() it runs in: whoever
\* holds the borrow that is in its way is another thread.
THEOREM OnlyOthersBorrow == Spec => []BorrowedByOthersOnly
<1>1. ASSUME IInv, NEW c \in Callers, MayCall(c), ~MutFree
      PROVE  \E d \in Exclusive \union Shared : d.thread # c.thread
  <2>1. PICK d \in Exclusive \union Shared : TRUE
    BY <1>1 DEF MutFree
  <2>2. d \in Callers /\ at[d] \in Busy /\ at[d] # "callback"
    BY <2>1 DEF Exclusive, Shared, Busy
  <2>3. ASSUME d.thread = c.thread PROVE FALSE
    <3>1. d # c /\ d.level # c.level
      BY <1>1, <2>2, <2>3, OwnCaller DEF MayCall, Busy
    <3>2. CASE c.level = "callback"
      <4>1. Own(c) = d
        BY <2>2, <2>3, <3>1, <3>2, OwnCaller
      <4> QED BY <1>1, <2>2, <3>2, <4>1 DEF MayCall, Own
    <3>3. CASE d.level = "callback"
      <4>1. Own(d) = c
        BY <2>2, <2>3, <3>1, <3>3, OwnCaller
      <4> QED BY <1>1, <2>2, <3>3, <4>1 DEF MayCall, IInv, Nested
    <3> QED BY <2>2, <3>1, <3>2, <3>3, OwnCaller
  <2> QED BY <2>1, <2>3
<1>2. IInv => BorrowedByOthersOnly
  BY <1>1 DEF BorrowedByOthersOnly
<1> QED BY <1>2, Invariance, PTL

-------------------------------------------------------------------------------
(* SyncClient implements ClientContract *)

LEMMA InitRefines == Init => Contract!Init
  BY DEF Init, Contract!Init

\* connect() begins, establishes or gives up a session; close() ends it; a
\* refused call, and a connect() that panics, change nothing of the contract's.
LEMMA LifeRefines ==
  ASSUME IInv, NEW c \in Callers, LifeStep(c)
  PROVE  [Contract!Next]_(Contract!vars)
<1> USE SyncClientAssumption DEF IInv, TypeOK
<1>1. CASE Refused(c)
  BY <1>1 DEF Refused, vars, lifeVars, Contract!vars
<1>2. CASE ConnectBegins(c)
  <2>1. begun + 1 \in Sessions /\ begun + 1 \notin 1..begun
        /\ 1..(begun + 1) = 1..begun \union {begun + 1}
    BY <1>2 DEF ConnectBegins, Sessions
  <2>2. Contract!Begin(begun + 1)
    BY <1>2, <2>1 DEF ConnectBegins, Contract!Begin
  <2> QED BY <2>1, <2>2 DEF Contract!Next
<1>3. CASE ConnectSucceeds(c)
  <2>1. state = "connecting"
    BY <1>3 DEF ConnectSucceeds, Owned
  <2>2. Contract!Establish
    BY <1>3, <2>1 DEF ConnectSucceeds, Contract!Establish
  <2> QED BY <2>2 DEF Contract!Next
<1>4. CASE ConnectPanics(c)
  <2>1. state = "connecting"
    BY <1>4 DEF ConnectPanics, Owned
  <2> QED BY <1>4, <2>1 DEF ConnectPanics, Contract!vars
<1>5. CASE ConnectFails(c)
  <2>1. state = "connecting"
    BY <1>5 DEF ConnectFails, Owned
  <2>2. Contract!GiveUp
    BY <1>5, <2>1 DEF ConnectFails, Contract!GiveUp
  <2> QED BY <2>2 DEF Contract!Next
<1>6. CASE CloseBegins(c)
  <2>1. Contract!BeginClose
    BY <1>6 DEF CloseBegins, Contract!BeginClose
  <2> QED BY <2>1 DEF Contract!Next
<1>7. CASE CloseEnds(c)
  <2>1. state = "closing"
    BY <1>7 DEF CloseEnds, Owned
  <2>2. Contract!EndClose
    BY <1>7, <2>1 DEF CloseEnds, Contract!EndClose
  <2> QED BY <2>2 DEF Contract!Next
<1> QED BY <1>1, <1>2, <1>3, <1>4, <1>5, <1>6, <1>7 DEF LifeStep

\* Calls and queries leave the lifecycle alone.
LEMMA CallsStutter ==
  ASSUME NEW c \in Callers, OpStep(c) \/ QueryStep(c)
  PROVE  UNCHANGED Contract!vars
<1>1. UNCHANGED lifeVars
  BY DEF OpStep, OpBegins, OpAcquires, OpTimesOut, OpEnds, PingBegins, PingEnds,
         CallEnds, QueryStep, ForeachBegins, ResultsBegin, QueryBegins, NodeSends,
         StreamCloses, RecordTaken, Exhausted, QueryRaises, CallbackContinues,
         CallbackEnds, Abandon, ResultTaken
<1> QED BY <1>1 DEF lifeVars, Contract!vars

\* Whatever the threads do, connect() yields one session, close() ends it, and a
\* session that ended never comes back.
THEOREM ImplementsContract == Spec => ContractSpec
<1>1. IInv /\ [Next]_vars => [Contract!Next]_(Contract!vars)
  <2> SUFFICES ASSUME IInv, [Next]_vars
               PROVE  [Contract!Next]_(Contract!vars)
    OBVIOUS
  <2>1. CASE Next
    BY <2>1, LifeRefines, CallsStutter DEF Next
  <2>2. CASE UNCHANGED vars
    BY <2>2 DEF vars, lifeVars, Contract!vars
  <2> QED BY <2>1, <2>2
<1> QED BY <1>1, InitRefines, Invariance, PTL DEF Spec, ContractSpec, Contract!Spec
===============================================================================
