--------------------------- MODULE OperationLimiter ---------------------------
(***************************************************************************)
(* One OperationLimiter (rust/src/backpressure.rs) and the operations of   *)
(* one session.  The Tokio semaphore under it, modelled from how           *)
(* acquire_named uses it, is fair: a permit that comes back goes to the    *)
(* longest-waiting acquirer before that acquirer is polled again.  A       *)
(* waiting future is abandoned in two steps: its deadline or its           *)
(* cancellation is noticed when a poll finds the acquire still pending,    *)
(* and only then is the acquire dropped, which hands back a permit that    *)
(* reached it in between.                                                  *)
(***************************************************************************)
EXTENDS Naturals, FiniteSets, Sequences

CONSTANTS Ops,       \* the operations issued to this client
          Limits,    \* values the config gives max_concurrent_operations
          Timeouts   \* values the config gives operation_queue_timeout_ms

ASSUME LimiterAssumption ==
  /\ IsFiniteSet(Ops)
  /\ Limits \subseteq Nat
  /\ Timeouts \subseteq Nat

VARIABLES max,     \* max_concurrent; 0 disables the limiter
          timeout, \* timeout_ms; 0 waits for ever
          phase,   \* how far each operation is
          permits, \* free permits of the semaphore
          queue,   \* acquirers in order of arrival
          handed   \* queued acquirers whose permit has come, not polled since

config == <<max, timeout>>
vars == <<config, phase, permits, queue, handed>>

Phases == {"idle", "waiting", "expiring", "cancelling", "running",
           "finished", "backpressure", "cancelled"}

InQueue == {queue[i] : i \in 1..Len(queue)}

Holding == handed \union (IF max = 0 THEN {} ELSE {o \in Ops : phase[o] = "running"})

Init ==
  /\ max \in Limits
  /\ timeout \in Timeouts
  /\ phase = [o \in Ops |-> "idle"]
  /\ permits = max
  /\ queue = <<>>
  /\ handed = {}

-------------------------------------------------------------------------------
\* A permit comes back: to the head of the queue, else to the counter.
ReturnPermit(oldHanded) ==
  IF queue # <<>>
    THEN /\ handed' = oldHanded \union {Head(queue)}
         /\ queue' = Tail(queue)
         /\ UNCHANGED permits
    ELSE /\ permits' = permits + 1
         /\ handed' = oldHanded
         /\ UNCHANGED queue

\* The first poll of acquire_named: disabled, a free permit, or the queue.
AcquireDisabled(o) ==
  /\ phase[o] = "idle"
  /\ max = 0
  /\ phase' = [phase EXCEPT ![o] = "running"]
  /\ UNCHANGED <<config, permits, queue, handed>>

\* Mutant: `let _ = acquire()` drops the permit at once.
AcquireFreeUnheld(o) ==
  /\ phase[o] = "idle"
  /\ max > 0 /\ permits > 0
  /\ phase' = [phase EXCEPT ![o] = "running"]
  /\ UNCHANGED <<config, permits, queue, handed>>

AcquireFree(o) ==
  /\ phase[o] = "idle"
  /\ max > 0 /\ permits > 0
  /\ permits' = permits - 1
  /\ phase' = [phase EXCEPT ![o] = "running"]
  /\ UNCHANGED <<config, queue, handed>>

\* Mutant: an acquirer queues without trying for a permit.
AcquireQueuedAlways(o) ==
  /\ phase[o] = "idle"
  /\ max > 0
  /\ queue' = Append(queue, o)
  /\ phase' = [phase EXCEPT ![o] = "waiting"]
  /\ UNCHANGED <<config, permits, handed>>

AcquireQueued(o) ==
  /\ phase[o] = "idle"
  /\ max > 0 /\ permits = 0
  /\ queue' = Append(queue, o)
  /\ phase' = [phase EXCEPT ![o] = "waiting"]
  /\ UNCHANGED <<config, permits, handed>>

\* The waiter is polled and finds its permit (tokio::time::timeout polls the
\* acquire before the deadline, Cancellable before the cancellation).
Granted(o) ==
  /\ phase[o] = "waiting"
  /\ o \in handed
  /\ handed' = handed \ {o}
  /\ phase' = [phase EXCEPT ![o] = "running"]
  /\ UNCHANGED <<config, permits, queue>>

\* The waiter is polled, has no permit, and its time is up / it was cancelled.
DeadlinePassed(o) ==
  /\ timeout > 0
  /\ phase[o] = "waiting"
  /\ o \notin handed
  /\ phase' = [phase EXCEPT ![o] = "expiring"]
  /\ UNCHANGED <<config, permits, queue, handed>>

CancelNoticed(o) ==
  /\ phase[o] = "waiting"
  /\ o \notin handed
  /\ phase' = [phase EXCEPT ![o] = "cancelling"]
  /\ UNCHANGED <<config, permits, queue, handed>>

\* The abandoned acquire is dropped: it leaves the queue, or passes on the
\* permit that reached it meanwhile.
AcquireDropped(o) ==
  /\ phase[o] \in {"expiring", "cancelling"}
  /\ phase' = [phase EXCEPT ![o] =
                 IF phase[o] = "expiring" THEN "backpressure" ELSE "cancelled"]
  /\ UNCHANGED config
  /\ \/ /\ o \in handed
        /\ ReturnPermit(handed \ {o})
     \/ \E i \in 1..Len(queue) :
          /\ queue[i] = o
          /\ queue' = SubSeq(queue, 1, i - 1) \o SubSeq(queue, i + 1, Len(queue))
          /\ UNCHANGED <<permits, handed>>

\* Mutant: a cancelled operation keeps its permit.
EndedWithPermit(o, outcome) ==
  /\ phase[o] = "running"
  /\ phase' = [phase EXCEPT ![o] = outcome]
  /\ UNCHANGED config
  /\ IF max = 0 \/ outcome = "cancelled"
       THEN UNCHANGED <<permits, queue, handed>> ELSE ReturnPermit(handed)

\* The operation ends (Ok, Err or caught panic), or its running future is
\* dropped by a cancellation: _permit is dropped either way.
Ended(o, outcome) ==
  /\ phase[o] = "running"
  /\ phase' = [phase EXCEPT ![o] = outcome]
  /\ UNCHANGED config
  /\ IF max = 0 THEN UNCHANGED <<permits, queue, handed>> ELSE ReturnPermit(handed)

Next ==
  \E o \in Ops :
    \/ AcquireDisabled(o)
    \/ AcquireFree(o)
    \/ AcquireQueued(o)
    \/ Granted(o)
    \/ DeadlinePassed(o)
    \/ CancelNoticed(o)
    \/ AcquireDropped(o)
    \/ Ended(o, "finished")
    \/ Ended(o, "cancelled")

Spec == Init /\ [][Next]_vars

-------------------------------------------------------------------------------
(* Properties *)

\* Types; the queue holds exactly the acquirers that wait without a permit.
TypeOK ==
  /\ max \in Limits
  /\ timeout \in Timeouts
  /\ phase \in [Ops -> Phases]
  /\ permits \in 0..max
  /\ queue \in Seq(Ops)
  /\ handed \subseteq Ops
  /\ \A o \in Ops :
       o \in InQueue \union handed <=> phase[o] \in {"waiting", "expiring", "cancelling"}

\* No permit is lost or forged on any path that ends an operation: free ones and
\* held ones add up to max_concurrent_operations.
PermitsConserved == permits + Cardinality(Holding) = max

\* No slot stays free while an operation waits for one (no lost wake-up).
NoIdleSlot == permits > 0 => queue = <<>>

\* Permits go out in order of arrival: nobody in the queue is overtaken by one
\* that joined it later, nor by one that has just come.
FirstComeFirstServed ==
  [][/\ \A i, j \in 1..Len(queue) :
          i < j /\ queue[j] \in handed' => queue[i] \notin InQueue'
     /\ \A o \in Ops :
          phase[o] = "idle" /\ phase'[o] = "running" => queue = <<>>]_vars

\* BackpressureError is only raised after all the slots were seen taken.
BackpressureOnlyWhenFull ==
  [][\A o \in Ops :
       phase[o] = "waiting" /\ phase'[o] = "expiring" =>
         Cardinality(Holding) = max]_vars

\* The limiter implements the bounded set of slots.
Promise == INSTANCE Slots WITH
  holding <- handed \union {o \in Ops : phase[o] = "running"},
  over <- {o \in Ops : phase[o] \in {"finished", "backpressure", "cancelled"}}

SlotsSpec == Promise!Spec

-------------------------------------------------------------------------------
(* Liveness *)

\* Woken futures are polled, abandoned ones dropped, and an operation that runs
\* ends (its policy's total_timeout, the socket, or a cancellation).
Fairness ==
  \A o \in Ops :
    /\ WF_vars(Granted(o))
    /\ WF_vars(AcquireDropped(o))
    /\ WF_vars(Ended(o, "finished") \/ Ended(o, "cancelled"))

FairSpec == Spec /\ Fairness

\* Waiting operations resume as previous ones complete: none waits for ever,
\* even with operation_queue_timeout_ms = 0.
EveryWaiterServed ==
  \A o \in Ops : phase[o] = "waiting" ~> phase[o] # "waiting"
===============================================================================
