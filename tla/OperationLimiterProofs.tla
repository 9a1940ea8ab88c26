------------------------ MODULE OperationLimiterProofs ------------------------
(***************************************************************************)
(* Theorems about OperationLimiter for any number of operations, limits    *)
(* and timeouts.  Conservation of permits is only inductive together with  *)
(* the shape of the queue: nobody is queued twice or queued and served,    *)
(* and while somebody is queued no permit is free, so that a permit that   *)
(* comes back always knows where to go.                                    *)
(***************************************************************************)
EXTENDS OperationLimiter, FiniteSetTheorems, SequenceTheorems, TLAPS

Line(q) == {q[i] : i \in 1..Len(q)}
Distinct(q) == \A i, j \in 1..Len(q) : q[i] = q[j] => i = j

\* Every operation queues at most once, not once its permit has come, and never
\* for a limiter that is disabled.
QueueOnce ==
  /\ Distinct(queue)
  /\ Line(queue) \intersect handed = {}
  /\ max = 0 => queue = <<>>

IInv == TypeOK /\ QueueOnce /\ NoIdleSlot /\ PermitsConserved

-------------------------------------------------------------------------------
(* Queues *)

\* Joining a queue.
LEMMA Joined ==
  ASSUME NEW q \in Seq(Ops), Distinct(q), NEW o \in Ops, o \notin Line(q)
  PROVE  /\ Append(q, o) \in Seq(Ops)
         /\ Distinct(Append(q, o))
         /\ Line(Append(q, o)) = Line(q) \union {o}
BY DEF Line, Distinct

\* Serving the head of a queue.
LEMMA Served ==
  ASSUME NEW q \in Seq(Ops), Distinct(q), q # <<>>
  PROVE  /\ Tail(q) \in Seq(Ops)
         /\ Head(q) \in Line(q)
         /\ Distinct(Tail(q))
         /\ Line(Tail(q)) = Line(q) \ {Head(q)}
<1>1. /\ Head(q) = q[1]
      /\ Tail(q) \in Seq(Ops)
      /\ Len(Tail(q)) = Len(q) - 1
      /\ \A i \in 1..Len(Tail(q)) : Tail(q)[i] = q[i + 1]
  BY HeadTailProperties
<1>2. Len(q) \in Nat \ {0}
  BY EmptySeq
<1>3. Head(q) \in Line(q)
  BY <1>1, <1>2 DEF Line
<1>4. Distinct(Tail(q))
  <2> SUFFICES ASSUME NEW i \in 1..Len(Tail(q)), NEW j \in 1..Len(Tail(q)),
                      Tail(q)[i] = Tail(q)[j]
               PROVE  i = j
    BY DEF Distinct
  <2>1. i + 1 \in 1..Len(q) /\ j + 1 \in 1..Len(q) /\ q[i + 1] = q[j + 1]
    BY <1>1, <1>2
  <2> QED BY <2>1 DEF Distinct
<1>5. Line(Tail(q)) \subseteq Line(q) \ {Head(q)}
  <2> SUFFICES ASSUME NEW i \in 1..Len(Tail(q))
               PROVE  Tail(q)[i] \in Line(q) \ {Head(q)}
    BY DEF Line
  <2>1. /\ 1 \in 1..Len(q) /\ i + 1 \in 1..Len(q) /\ i + 1 # 1
        /\ Tail(q)[i] = q[i + 1]
    BY <1>1, <1>2
  <2>2. q[i + 1] # q[1]
    BY <2>1 DEF Distinct
  <2> QED BY <1>1, <2>1, <2>2 DEF Line
<1>6. Line(q) \ {Head(q)} \subseteq Line(Tail(q))
  <2> SUFFICES ASSUME NEW i \in 1..Len(q), q[i] # Head(q)
               PROVE  q[i] \in Line(Tail(q))
    BY DEF Line
  <2>1. i - 1 \in 1..Len(Tail(q)) /\ Tail(q)[i - 1] = q[i]
    BY <1>1, <1>2
  <2> QED BY <2>1 DEF Line
<1> QED BY <1>1, <1>3, <1>4, <1>5, <1>6

\* Cutting the k-th element out of a sequence.
LEMMA Cut ==
  ASSUME NEW q \in Seq(Ops), NEW k \in 1..Len(q)
  PROVE  LET r == SubSeq(q, 1, k - 1) \o SubSeq(q, k + 1, Len(q))
         IN  /\ r \in Seq(Ops)
             /\ Len(r) = Len(q) - 1
             /\ \A i \in 1..Len(r) : r[i] = IF i < k THEN q[i] ELSE q[i + 1]
<1> DEFINE front == SubSeq(q, 1, k - 1)
           back == SubSeq(q, k + 1, Len(q))
           r == front \o back
<1>1. Len(q) \in Nat /\ \A i \in 1..Len(q) : q[i] \in Ops
  BY LenProperties, ElementOfSeq
<1>2. /\ front \in Seq(Ops)
      /\ Len(front) = k - 1
      /\ \A i \in 1..(k - 1) : front[i] = q[i]
  BY <1>1, SubSeqProperties
<1>3. /\ back \in Seq(Ops)
      /\ Len(back) = Len(q) - k
      /\ \A i \in 1..(Len(q) - k) : back[i] = q[k + i]
  BY <1>1, SubSeqProperties
<1> HIDE DEF front, back
<1>4. /\ r \in Seq(Ops)
      /\ Len(r) = Len(front) + Len(back)
      /\ \A i \in 1..(Len(front) + Len(back)) :
           r[i] = IF i <= Len(front) THEN front[i] ELSE back[i - Len(front)]
  BY <1>2, <1>3, ConcatProperties
<1> HIDE DEF r
<1>5. Len(r) = Len(q) - 1
  BY <1>1, <1>2, <1>3, <1>4
<1>6. ASSUME NEW i \in 1..Len(r)
      PROVE  r[i] = IF i < k THEN q[i] ELSE q[i + 1]
  <2>1. CASE i < k
    BY <1>1, <1>2, <1>3, <1>4, <1>5, <2>1
  <2>2. CASE i >= k
    <3>1. r[i] = back[i - (k - 1)]
      BY <1>1, <1>2, <1>3, <1>4, <1>5, <2>2
    <3>2. i - (k - 1) \in 1..(Len(q) - k)
      BY <1>1, <1>5, <2>2
    <3> QED
      BY <1>1, <1>3, <1>5, <2>2, <3>1, <3>2
  <2> QED
    BY <1>1, <1>5, <2>1, <2>2
<1> QED
  BY <1>4, <1>5, <1>6 DEF r, front, back

\* Leaving a queue from the k-th place.
LEMMA Left ==
  ASSUME NEW q \in Seq(Ops), Distinct(q), NEW k \in 1..Len(q),
         NEW r \in Seq(Ops), Len(r) = Len(q) - 1,
         \A i \in 1..Len(r) : r[i] = IF i < k THEN q[i] ELSE q[i + 1]
  PROVE  Distinct(r) /\ Line(r) = Line(q) \ {q[k]}
<1>1. Distinct(r)
  BY DEF Distinct
<1>2. Line(r) \subseteq Line(q) \ {q[k]}
  BY DEF Line, Distinct
<1>3. ASSUME NEW i \in 1..Len(q), i # k
      PROVE  q[i] \in Line(r)
  <2>1. CASE i < k
    BY <2>1 DEF Line
  <2>2. CASE i > k
    <3>1. i - 1 \in 1..Len(r) /\ r[i - 1] = q[i]
      BY <2>2
    <3> QED
      BY <3>1 DEF Line
  <2> QED
    BY <1>3, <2>1, <2>2
<1>4. Line(q) \ {q[k]} \subseteq Line(r)
  BY <1>3 DEF Line
<1> QED
  BY <1>1, <1>2, <1>4

-------------------------------------------------------------------------------
(* Permits *)

Running == {o \in Ops : phase[o] = "running"}

\* Who holds permits is a finite set.
LEMMA HoldingFinite == TypeOK => IsFiniteSet(Holding)
<1> SUFFICES ASSUME TypeOK PROVE IsFiniteSet(Holding)
  OBVIOUS
<1>1. Holding \subseteq Ops
  BY DEF TypeOK, Holding
<1> QED
  BY <1>1, FS_Subset, LimiterAssumption

\* An operation enters `holding` or leaves it: the count follows.
LEMMA Counted ==
  ASSUME NEW H, IsFiniteSet(H), NEW o
  PROVE  /\ o \notin H => Cardinality(H \union {o}) = Cardinality(H) + 1
         /\ o \in H => Cardinality(H \ {o}) = Cardinality(H) - 1
         /\ Cardinality(H) \in Nat
BY FS_AddElement, FS_RemoveElement, FS_CardinalityType

\* One holder for another.
LEMMA Swapped ==
  ASSUME NEW H, IsFiniteSet(H), NEW o \in H, NEW p, p \notin H
  PROVE  Cardinality((H \ {o}) \union {p}) = Cardinality(H)
<1>1. IsFiniteSet(H \ {o}) /\ Cardinality(H \ {o}) = Cardinality(H) - 1
  BY FS_RemoveElement
<1>2. Cardinality((H \ {o}) \union {p}) = Cardinality(H \ {o}) + 1
  BY <1>1, FS_AddElement
<1> QED
  BY <1>1, <1>2, FS_CardinalityType

\* A permit that o gives back, with phases already set right: it goes to the
\* head of the queue, who was waiting, or is free and nobody waits.
LEMMA Returned ==
  ASSUME IInv, max > 0, NEW o \in Ops, o \in Holding,
         NEW h, ReturnPermit(h), h = handed \ {o},
         UNCHANGED config,
         phase' \in [Ops -> Phases],
         phase'[o] \notin {"waiting", "expiring", "cancelling", "running"},
         \A p \in Ops \ {o} : phase'[p] = phase[p]
  PROVE  IInv'
<1> DEFINE p == Head(queue)
<1>1. /\ queue \in Seq(Ops) /\ Distinct(queue) /\ InQueue = Line(queue)
      /\ InQueue \intersect handed = {}
      /\ o \notin InQueue
      /\ max' = max /\ timeout' = timeout
      /\ \A q \in InQueue : phase[q] \in {"waiting", "expiring", "cancelling"}
  BY DEF IInv, TypeOK, QueueOnce, InQueue, Line, Holding, config
<1>2. IsFiniteSet(Holding) /\ Cardinality(Holding) \in Nat
  BY HoldingFinite, FS_CardinalityType DEF IInv
<1>3. /\ permits \in Nat /\ max \in Nat
      /\ permits + Cardinality(Holding) = max
  BY LimiterAssumption DEF IInv, TypeOK, PermitsConserved
<1>4. CASE queue # <<>>
  <2>1. /\ handed' = (handed \ {o}) \union {p}
        /\ queue' = Tail(queue) /\ permits' = permits
    BY <1>4 DEF ReturnPermit
  <2>2. /\ p \in InQueue /\ p \in Ops /\ p # o
        /\ queue' \in Seq(Ops) /\ Distinct(queue')
        /\ Line(queue') = InQueue \ {p}
    BY <1>1, <1>4, <2>1, Served, HeadTailProperties
  <2>3. Holding' = (Holding \ {o}) \union {p}
    BY <1>1, <2>1, <2>2 DEF Holding
  <2>4. PermitsConserved'
    <3>1. p \notin Holding
      BY <1>1, <2>2 DEF Holding
    <3> QED
      BY <1>1, <1>2, <2>1, <2>3, <3>1, Swapped DEF IInv, PermitsConserved
  <2>5. TypeOK'
    BY <1>1, <2>1, <2>2 DEF IInv, TypeOK, Line, InQueue
  <2>6. QueueOnce'
    BY <1>1, <2>1, <2>2 DEF QueueOnce
  <2>7. NoIdleSlot'
    BY <1>3, <1>4, <2>1 DEF IInv, NoIdleSlot
  <2> QED
    BY <2>4, <2>5, <2>6, <2>7 DEF IInv
<1>5. CASE queue = <<>>
  <2>1. handed' = handed \ {o} /\ queue' = queue /\ permits' = permits + 1
    BY <1>5 DEF ReturnPermit
  <2>2. Holding' = Holding \ {o}
    BY <1>1, <2>1 DEF Holding
  <2>3. Cardinality(Holding') = Cardinality(Holding) - 1
    BY <1>2, <2>2, Counted
  <2>4. permits' \in 0..max' /\ PermitsConserved'
    <3>1. Cardinality(Holding') \in Nat
      BY <1>2, <2>2, FS_RemoveElement, FS_CardinalityType
    <3> QED
      BY <1>1, <1>2, <1>3, <2>1, <2>3, <3>1 DEF PermitsConserved
  <2>5. TypeOK'
    BY <1>1, <2>1, <2>4 DEF IInv, TypeOK, InQueue
  <2>6. QueueOnce' /\ NoIdleSlot'
    BY <1>1, <1>5, <2>1 DEF QueueOnce, NoIdleSlot, Line, InQueue
  <2> QED
    BY <2>4, <2>5, <2>6 DEF IInv
<1> QED
  BY <1>4, <1>5

-------------------------------------------------------------------------------
(* The inductive invariant *)

\* A new limiter has all its permits and no queue.
LEMMA InitIInv == Init => IInv
<1> SUFFICES ASSUME Init PROVE IInv
  OBVIOUS
<1>1. TypeOK /\ QueueOnce /\ NoIdleSlot
  BY LimiterAssumption
  DEF Init, TypeOK, QueueOnce, NoIdleSlot, Phases, InQueue, Line, Distinct
<1>2. Holding = {}
  BY DEF Init, Holding
<1>3. PermitsConserved
  BY <1>2, FS_EmptySet, LimiterAssumption DEF Init, PermitsConserved
<1> QED
  BY <1>1, <1>3 DEF IInv

\* The first poll of acquire_named takes a permit or joins the queue.
LEMMA AcquireIInv ==
  ASSUME IInv, NEW o \in Ops,
         AcquireDisabled(o) \/ AcquireFree(o) \/ AcquireQueued(o)
  PROVE  IInv'
<1>1. /\ phase[o] = "idle" /\ o \notin InQueue /\ o \notin handed
      /\ o \notin Holding
      /\ max \in Nat /\ permits \in Nat /\ queue \in Seq(Ops)
      /\ max' = max /\ timeout' = timeout /\ handed' = handed
  BY LimiterAssumption
  DEF IInv, TypeOK, Holding, config, AcquireDisabled, AcquireFree, AcquireQueued
<1>2. IsFiniteSet(Holding)
  BY HoldingFinite DEF IInv
<1>3. CASE AcquireDisabled(o)
  <2>1. TypeOK' /\ QueueOnce' /\ NoIdleSlot'
    BY <1>1, <1>3
    DEF AcquireDisabled, IInv, TypeOK, QueueOnce, NoIdleSlot, InQueue, Phases
  <2>2. Holding' = Holding
    BY <1>1, <1>3 DEF AcquireDisabled, Holding
  <2> QED
    BY <1>1, <1>3, <2>1, <2>2 DEF AcquireDisabled, IInv, PermitsConserved
<1>4. CASE AcquireFree(o)
  <2>1. TypeOK' /\ QueueOnce' /\ NoIdleSlot'
    BY <1>1, <1>4
    DEF AcquireFree, IInv, TypeOK, QueueOnce, NoIdleSlot, InQueue, Phases
  <2>2. Holding' = Holding \union {o}
    BY <1>1, <1>4 DEF AcquireFree, Holding, IInv, TypeOK
  <2>3. Cardinality(Holding') = Cardinality(Holding) + 1
    BY <1>1, <1>2, <2>2, Counted
  <2>4. Cardinality(Holding) \in Nat
    BY <1>2, FS_CardinalityType
  <2>5. PermitsConserved'
    BY <1>1, <1>4, <2>3, <2>4 DEF AcquireFree, IInv, PermitsConserved
  <2> QED
    BY <2>1, <2>5 DEF IInv
<1>5. CASE AcquireQueued(o)
  <2>1. /\ queue' \in Seq(Ops) /\ Distinct(queue')
        /\ Line(queue') = Line(queue) \union {o}
    BY <1>1, <1>5, Joined DEF AcquireQueued, IInv, QueueOnce, InQueue, Line
  <2>2. TypeOK' /\ QueueOnce' /\ NoIdleSlot'
    BY <1>1, <1>5, <2>1
    DEF AcquireQueued, IInv, TypeOK, QueueOnce, NoIdleSlot, InQueue, Line, Phases
  <2>3. Holding' = Holding
    BY <1>1, <1>5 DEF AcquireQueued, Holding, IInv, TypeOK
  <2> QED
    BY <1>1, <1>5, <2>2, <2>3 DEF AcquireQueued, IInv, PermitsConserved
<1> QED
  BY <1>3, <1>4, <1>5

\* A waiter that is polled takes its permit or makes up its mind to leave.
LEMMA PollIInv ==
  ASSUME IInv, NEW o \in Ops, Granted(o) \/ DeadlinePassed(o) \/ CancelNoticed(o)
  PROVE  IInv'
<1>1. /\ phase[o] = "waiting"
      /\ max' = max /\ timeout' = timeout /\ permits' = permits /\ queue' = queue
      /\ InQueue' = InQueue
  BY DEF config, InQueue, Granted, DeadlinePassed, CancelNoticed
<1>2. CASE Granted(o)
  <2>1. o \notin InQueue
    BY <1>2 DEF Granted, IInv, QueueOnce, Line, InQueue
  <2>2. TypeOK' /\ QueueOnce' /\ NoIdleSlot'
    BY <1>1, <1>2, <2>1
    DEF Granted, IInv, TypeOK, QueueOnce, NoIdleSlot, Phases
  <2>3. max > 0
    <3>1. o \in Holding
      BY <1>2 DEF Granted, Holding
    <3>2. Cardinality(Holding) # 0
      BY <3>1, HoldingFinite, FS_EmptySet DEF IInv
    <3> QED
      BY <3>2, HoldingFinite, FS_CardinalityType, LimiterAssumption
      DEF IInv, PermitsConserved, TypeOK
  <2>4. Holding' = Holding
    BY <1>1, <1>2, <2>3 DEF Granted, Holding, IInv, TypeOK
  <2> QED
    BY <1>1, <2>2, <2>4 DEF IInv, PermitsConserved
<1>3. CASE DeadlinePassed(o) \/ CancelNoticed(o)
  <2>1. handed' = handed /\ \A p \in Ops \ {o} : phase'[p] = phase[p]
    BY <1>3 DEF DeadlinePassed, CancelNoticed, IInv, TypeOK
  <2>2. /\ phase' \in [Ops -> Phases]
        /\ phase'[o] \in {"expiring", "cancelling"}
    BY <1>3 DEF DeadlinePassed, CancelNoticed, IInv, TypeOK, Phases
  <2>3. TypeOK' /\ QueueOnce' /\ NoIdleSlot'
    BY <1>1, <2>1, <2>2 DEF IInv, TypeOK, QueueOnce, NoIdleSlot
  <2>4. Holding' = Holding
    BY <1>1, <2>1, <2>2 DEF Holding
  <2> QED
    BY <1>1, <2>3, <2>4 DEF IInv, PermitsConserved
<1> QED
  BY <1>2, <1>3

\* An abandoned acquire leaves the queue, or passes its permit on.
LEMMA AcquireDroppedIInv ==
  ASSUME IInv, NEW o \in Ops, AcquireDropped(o)
  PROVE  IInv'
<1>1. /\ phase[o] \in {"expiring", "cancelling"}
      /\ phase' \in [Ops -> Phases]
      /\ phase'[o] \in {"backpressure", "cancelled"}
      /\ \A p \in Ops \ {o} : phase'[p] = phase[p]
      /\ UNCHANGED config
  BY DEF AcquireDropped, IInv, TypeOK, Phases
<1>2. CASE o \in handed /\ ReturnPermit(handed \ {o})
  <2>1. o \in Holding
    BY <1>2 DEF Holding
  <2>2. max > 0
    BY <2>1, HoldingFinite, FS_EmptySet, FS_CardinalityType, LimiterAssumption
    DEF IInv, PermitsConserved, TypeOK
  <2> QED
    BY <1>1, <1>2, <2>1, <2>2, Returned
<1>3. ASSUME NEW k \in 1..Len(queue), queue[k] = o,
             queue' = SubSeq(queue, 1, k - 1) \o SubSeq(queue, k + 1, Len(queue)),
             UNCHANGED <<permits, handed>>
      PROVE  IInv'
  <2>1. queue \in Seq(Ops) /\ Distinct(queue)
    BY DEF IInv, TypeOK, QueueOnce
  <2>2. /\ queue' \in Seq(Ops)
        /\ Len(queue') = Len(queue) - 1
        /\ \A i \in 1..Len(queue') :
             queue'[i] = IF i < k THEN queue[i] ELSE queue[i + 1]
    BY <1>3, <2>1, Cut
  <2>3. Distinct(queue') /\ Line(queue') = Line(queue) \ {queue[k]}
    BY <2>1, <2>2, Left, Zenon
  <2>4. permits = 0 /\ max # 0 /\ o \notin handed
    <3>1. o \in Line(queue) /\ queue # <<>>
      BY <1>3, <2>1 DEF Line
    <3> QED
      BY <3>1 DEF IInv, QueueOnce, NoIdleSlot, TypeOK
  <2>5. InQueue = Line(queue) /\ InQueue' = Line(queue) \ {o}
    BY <1>3, <2>3 DEF InQueue, Line
  <2>6. TypeOK'
    BY <1>1, <1>3, <2>2, <2>4, <2>5 DEF IInv, TypeOK, config
  <2>7. QueueOnce' /\ NoIdleSlot'
    BY <1>1, <1>3, <2>3, <2>4 DEF IInv, QueueOnce, NoIdleSlot, config
  <2>8. Holding' = Holding
    BY <1>1, <1>3 DEF Holding, config
  <2> QED
    BY <1>1, <1>3, <2>6, <2>7, <2>8 DEF IInv, PermitsConserved, config
<1> QED
  BY <1>2, <1>3 DEF AcquireDropped

\* However an operation ends, its permit comes back.
LEMMA EndedIInv ==
  ASSUME IInv, NEW o \in Ops, NEW outcome \in {"finished", "cancelled"},
         Ended(o, outcome)
  PROVE  IInv'
<1>1. /\ phase[o] = "running" /\ o \notin handed
      /\ phase' \in [Ops -> Phases]
      /\ phase'[o] = outcome
      /\ \A p \in Ops \ {o} : phase'[p] = phase[p]
      /\ UNCHANGED config
  BY DEF Ended, IInv, TypeOK, Phases
<1>2. CASE max = 0
  <2>1. UNCHANGED <<permits, queue, handed>>
    BY <1>2 DEF Ended
  <2>2. TypeOK' /\ QueueOnce' /\ NoIdleSlot'
    BY <1>1, <2>1
    DEF IInv, TypeOK, QueueOnce, NoIdleSlot, InQueue, config
  <2>3. Holding' = Holding
    BY <1>1, <1>2, <2>1 DEF Holding, config
  <2> QED
    BY <1>1, <2>1, <2>2, <2>3 DEF IInv, PermitsConserved, config
<1>3. CASE max # 0
  <2>1. max > 0 /\ o \in Holding
    BY <1>1, <1>3, LimiterAssumption DEF Holding, IInv, TypeOK
  <2>2. handed = handed \ {o} /\ ReturnPermit(handed)
    BY <1>1, <1>3 DEF Ended
  <2> QED
    BY <1>1, <2>1, <2>2, Returned
<1> QED
  BY <1>2, <1>3

\* The invariant holds in every state.
THEOREM Invariance == Spec => []IInv
<1>1. IInv /\ [Next]_vars => IInv'
  <2> SUFFICES ASSUME IInv, [Next]_vars PROVE IInv'
    OBVIOUS
  <2>1. CASE Next
    BY <2>1, AcquireIInv, PollIInv, AcquireDroppedIInv, EndedIInv DEF Next
  <2>2. CASE UNCHANGED vars
    BY <2>2
    DEF vars, config, IInv, TypeOK, QueueOnce, NoIdleSlot, PermitsConserved,
        InQueue, Holding
  <2> QED
    BY <2>1, <2>2
<1> QED
  BY <1>1, InitIInv, PTL DEF Spec

\* Every variable keeps its type, and the queue its relation to the phases.
THEOREM TypeCorrect == Spec => []TypeOK
BY Invariance, PTL DEF IInv

\* No permit is lost or forged on any way an operation can end: return, error,
\* panic, deadline or cancellation, however these race the hand-over.
THEOREM PermitsAreConserved == Spec => []PermitsConserved
BY Invariance, PTL DEF IInv

\* No wake-up is lost: a permit is never free while an operation waits.
THEOREM SlotsDoNotIdle == Spec => []NoIdleSlot
BY Invariance, PTL DEF IInv

-------------------------------------------------------------------------------
(* What a step may never do *)

\* While somebody queues, every permit is held.
LEMMA QueuedMeansFull ==
  ASSUME IInv, queue # <<>>
  PROVE  Cardinality(Holding) = max
<1>1. permits = 0
  BY LimiterAssumption DEF IInv, NoIdleSlot, TypeOK
<1>2. Cardinality(Holding) \in Nat
  BY HoldingFinite, FS_CardinalityType DEF IInv
<1> QED
  BY <1>1, <1>2 DEF IInv, PermitsConserved

\* A deadline that strikes has seen every slot taken: BackpressureError never
\* reports a limit that was not reached.
THEOREM DeadlineMeansFull == Spec => BackpressureOnlyWhenFull
<1>1. ASSUME IInv, [Next]_vars, NEW o \in Ops,
             phase[o] = "waiting", phase'[o] = "expiring"
      PROVE  Cardinality(Holding) = max
  <2>1. o \notin handed
    BY <1>1
    DEF IInv, TypeOK, Next, vars, AcquireDisabled, AcquireFree, AcquireQueued,
        Granted, DeadlinePassed, CancelNoticed, AcquireDropped, Ended
  <2>2. queue # <<>>
    BY <1>1, <2>1 DEF IInv, TypeOK, InQueue
  <2> QED
    BY <1>1, <2>2, QueuedMeansFull
<1>2. IInv /\ [Next]_vars =>
        \A o \in Ops : phase[o] = "waiting" /\ phase'[o] = "expiring" =>
                        Cardinality(Holding) = max
  BY <1>1
<1> QED
  BY <1>2, Invariance, PTL DEF Spec, BackpressureOnlyWhenFull

\* One step hands a permit to nobody in the queue but its head, and lets nobody
\* pass who has just come.
LEMMA HeadFirst ==
  ASSUME IInv, [Next]_vars
  PROVE  /\ \A p \in handed' \ handed : queue # <<>> /\ p = Head(queue)
         /\ \A o \in Ops :
              phase[o] = "idle" /\ phase'[o] = "running" => queue = <<>>
<1>1. ASSUME NEW h, ReturnPermit(h), h \subseteq handed
      PROVE  \A p \in handed' \ handed : queue # <<>> /\ p = Head(queue)
  BY <1>1 DEF ReturnPermit
<1>2. CASE UNCHANGED vars
  BY <1>2 DEF vars
<1>3. ASSUME NEW o \in Ops,
             AcquireDisabled(o) \/ AcquireFree(o) \/ AcquireQueued(o)
      PROVE  /\ handed' = handed
             /\ phase'[o] = "running" => queue = <<>>
             /\ \A p \in Ops \ {o} : phase'[p] = phase[p]
  <2>1. queue = <<>> \/ ~AcquireDisabled(o)
    BY DEF AcquireDisabled, IInv, QueueOnce
  <2>2. queue = <<>> \/ ~AcquireFree(o)
    BY DEF AcquireFree, IInv, NoIdleSlot
  <2> QED
    BY <1>3, <2>1, <2>2
    DEF AcquireDisabled, AcquireFree, AcquireQueued, IInv, TypeOK
<1>4. ASSUME NEW o \in Ops, Granted(o) \/ DeadlinePassed(o) \/ CancelNoticed(o)
      PROVE  /\ handed' \subseteq handed
             /\ phase[o] # "idle" /\ \A p \in Ops \ {o} : phase'[p] = phase[p]
  BY <1>4 DEF Granted, DeadlinePassed, CancelNoticed, IInv, TypeOK
<1>5. ASSUME NEW o \in Ops,
             AcquireDropped(o) \/ Ended(o, "finished") \/ Ended(o, "cancelled")
      PROVE  /\ phase[o] # "idle" /\ \A p \in Ops \ {o} : phase'[p] = phase[p]
             /\ \A p \in handed' \ handed : queue # <<>> /\ p = Head(queue)
  BY <1>1, <1>5 DEF AcquireDropped, Ended, IInv, TypeOK
<1> QED
  BY <1>2, <1>3, <1>4, <1>5 DEF Next

\* Permits go out in order of arrival: a waiter that joined earlier is never
\* overtaken by a later one, nor by one that has just come.
THEOREM PermitsGoInOrder == Spec => FirstComeFirstServed
<1>1. ASSUME IInv, [Next]_vars, NEW i \in 1..Len(queue), NEW j \in 1..Len(queue),
             i < j, queue[j] \in handed'
      PROVE  FALSE
  <2>1. queue \in Seq(Ops) /\ Distinct(queue) /\ queue[j] \notin handed
    BY <1>1 DEF IInv, TypeOK, QueueOnce, Line
  <2>2. queue[j] = queue[1]
    BY <1>1, <2>1, HeadFirst
  <2> QED
    BY <1>1, <2>1, <2>2 DEF Distinct
<1>2. IInv /\ [Next]_vars =>
        /\ \A i, j \in 1..Len(queue) :
             i < j /\ queue[j] \in handed' => queue[i] \notin InQueue'
        /\ \A o \in Ops :
             phase[o] = "idle" /\ phase'[o] = "running" => queue = <<>>
  BY <1>1, HeadFirst
<1> QED
  BY <1>2, Invariance, PTL DEF Spec, FirstComeFirstServed

-------------------------------------------------------------------------------
(* The limiter implements Slots *)

Slotted == handed \union Running
Over == {o \in Ops : phase[o] \in {"finished", "backpressure", "cancelled"}}

\* A step that neither gives nor takes a slot, and ends nobody.
LEMMA Stutters ==
  ASSUME UNCHANGED <<max, Slotted, Over>>
  PROVE  [Promise!Next]_(Promise!vars)
BY DEF Promise!vars, Slotted, Over, Running

\* Slots counts as this module does.
LEMMA SameCount == \A S : Promise!Cardinality(S) = Cardinality(S)
BY DEF Promise!Cardinality, Cardinality

\* A new limiter is an empty set of slots.
LEMMA InitRefines == Init => Promise!Init
BY DEF Init, Promise!Init

\* Taking a permit takes a slot, joining the queue does not.
LEMMA AcquireRefines ==
  ASSUME IInv, NEW o \in Ops,
         AcquireDisabled(o) \/ AcquireFree(o) \/ AcquireQueued(o)
  PROVE  [Promise!Next]_(Promise!vars)
<1>1. /\ phase[o] = "idle" /\ o \notin Slotted \union Over
      /\ max' = max /\ handed' = handed /\ Over' = Over
  BY DEF IInv, TypeOK, Slotted, Running, Over, config,
     AcquireDisabled, AcquireFree, AcquireQueued
<1>2. CASE AcquireDisabled(o) \/ AcquireFree(o)
  <2>1. Slotted' = Slotted \union {o}
    BY <1>1, <1>2 DEF Slotted, Running, AcquireDisabled, AcquireFree, IInv, TypeOK
  <2>2. max > 0 => Cardinality(Slotted) < max
    <3> SUFFICES ASSUME max > 0 PROVE Cardinality(Slotted) < max
      OBVIOUS
    <3>1. Slotted = Holding /\ permits > 0
      BY <1>2 DEF Slotted, Running, Holding, AcquireDisabled, AcquireFree
    <3> QED
      BY <3>1, HoldingFinite, FS_CardinalityType, LimiterAssumption
      DEF IInv, PermitsConserved, TypeOK
  <2>3. o \notin Slotted \union Over /\ UNCHANGED <<max, Over>>
    BY <1>1
  <2>4. Promise!Take(o)
    BY <2>1, <2>2, <2>3, SameCount DEF Promise!Take, Slotted, Running, Over
  <2> QED
    BY <2>4 DEF Promise!Next
<1>3. CASE AcquireQueued(o)
  <2>1. Slotted' = Slotted
    BY <1>1, <1>3 DEF Slotted, Running, AcquireQueued, IInv, TypeOK
  <2> QED
    BY <1>1, <2>1, Stutters
<1> QED
  BY <1>2, <1>3

\* A permit on its way to a waiter already is that waiter's slot.
LEMMA PollRefines ==
  ASSUME IInv, NEW o \in Ops, Granted(o) \/ DeadlinePassed(o) \/ CancelNoticed(o)
  PROVE  [Promise!Next]_(Promise!vars)
<1>1. max' = max /\ Slotted' = Slotted /\ Over' = Over
  BY DEF Granted, DeadlinePassed, CancelNoticed, Slotted, Running, Over, config,
     IInv, TypeOK
<1> QED
  BY <1>1, Stutters

\* A slot that is given back is handed over to the head of the queue or free.
LEMMA ReturnRefines ==
  ASSUME IInv, NEW o \in Slotted, NEW h, ReturnPermit(h), h = handed \ {o},
         max' = max, Running' = Running \ {o}, Over' = Over \union {o}
  PROVE  [Promise!Next]_(Promise!vars)
<1>p. PICK p : p = Head(queue)
  OBVIOUS
<1>1. queue \in Seq(Ops) /\ handed \subseteq Ops /\ o \in Ops
  BY DEF IInv, TypeOK, Slotted, Running
<1>2. CASE queue # <<>>
  <2>1. p \in Line(queue) /\ p \in Ops
    BY <1>1, <1>2, <1>p, Served DEF IInv, QueueOnce
  <2>2. p \notin Slotted \union Over
    BY <2>1 DEF IInv, QueueOnce, TypeOK, InQueue, Line, Slotted, Running, Over
  <2>3. Slotted' = (Slotted \ {o}) \union {p}
    BY <1>2, <1>p, <2>2 DEF ReturnPermit, Slotted
  <2>4. Promise!HandOver(o, p)
    BY <2>2, <2>3 DEF Promise!HandOver, Slotted, Running, Over
  <2> QED
    BY <1>1, <2>1, <2>4 DEF Promise!Next
<1>3. CASE queue = <<>>
  <2>1. Slotted' = Slotted \ {o}
    BY <1>3 DEF ReturnPermit, Slotted
  <2>2. Promise!Give(o)
    BY <2>1 DEF Promise!Give, Slotted, Running, Over
  <2> QED
    BY <1>1, <2>2 DEF Promise!Next
<1> QED
  BY <1>2, <1>3

\* An acquire that is dropped gives its slot back, or had none.
LEMMA AcquireDroppedRefines ==
  ASSUME IInv, NEW o \in Ops, AcquireDropped(o)
  PROVE  [Promise!Next]_(Promise!vars)
<1>1. /\ max' = max /\ Running' = Running /\ o \notin Running
      /\ o \notin Over /\ Over' = Over \union {o}
  BY DEF AcquireDropped, Running, Over, config, IInv, TypeOK
<1>2. CASE o \in handed /\ ReturnPermit(handed \ {o})
  <2>1. o \in Slotted /\ Running' = Running \ {o}
    BY <1>1, <1>2 DEF Slotted
  <2> QED
    BY <1>1, <1>2, <2>1, ReturnRefines
<1>3. ASSUME NEW k \in 1..Len(queue), queue[k] = o, UNCHANGED handed
      PROVE  Promise!GiveUp(o)
  <2>1. o \notin handed
    BY <1>3 DEF IInv, QueueOnce, Line
  <2> QED
    BY <1>1, <1>3, <2>1 DEF Promise!GiveUp, Running, Over
<1> QED
  BY <1>2, <1>3 DEF AcquireDropped, Promise!Next

\* An operation that ends gives its slot back.
LEMMA EndedRefines ==
  ASSUME IInv, NEW o \in Ops, NEW outcome \in {"finished", "cancelled"},
         Ended(o, outcome)
  PROVE  [Promise!Next]_(Promise!vars)
<1>1. /\ max' = max /\ o \in Running /\ Running' = Running \ {o}
      /\ o \notin handed /\ Over' = Over \union {o}
  BY DEF Ended, Running, Over, config, IInv, TypeOK
<1>2. CASE max = 0
  <2>1. Slotted' = Slotted \ {o}
    BY <1>1, <1>2 DEF Ended, Slotted
  <2>2. Promise!Give(o)
    BY <1>1, <2>1 DEF Promise!Give, Slotted, Running, Over
  <2> QED
    BY <2>2 DEF Promise!Next
<1>3. CASE max # 0
  <2>1. o \in Slotted /\ ReturnPermit(handed) /\ handed = handed \ {o}
    BY <1>1, <1>3 DEF Ended, Slotted
  <2> QED
    BY <1>1, <2>1, ReturnRefines
<1> QED
  BY <1>2, <1>3

\* Seen from outside, the limiter is a set of at most `max` slots: an operation
\* runs only in a slot, has one at most once, and gives it back when it ends.
THEOREM ImplementsSlots == Spec => SlotsSpec
<1>1. IInv /\ [Next]_vars => [Promise!Next]_(Promise!vars)
  <2> SUFFICES ASSUME IInv, [Next]_vars PROVE [Promise!Next]_(Promise!vars)
    OBVIOUS
  <2>1. CASE Next
    BY <2>1, AcquireRefines, PollRefines, AcquireDroppedRefines, EndedRefines
    DEF Next
  <2>2. CASE UNCHANGED vars
    BY <2>2, Stutters DEF vars, config, Slotted, Running, Over
  <2> QED
    BY <2>1, <2>2
<1> QED
  BY <1>1, InitRefines, Invariance, PTL DEF Spec, SlotsSpec, Promise!Spec
===============================================================================
