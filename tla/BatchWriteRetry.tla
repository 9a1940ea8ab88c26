---------------------------- MODULE BatchWriteRetry ----------------------------
(***************************************************************************)
(* batch_write(retry=N): the loop of rust/src/client_ops.rs that re-drives *)
(* the records of a batch that failed with a transient code, run against a *)
(* cluster that answers each record on its own, loses whole responses, and *)
(* is written by another client in between.                                *)
(*                                                                         *)
(* Records are numbered by their position in the batch.  The cluster is    *)
(* modelled from how the loop uses it: a batch call gives one result per   *)
(* record it was sent, in order, or a transport error.                     *)
(***************************************************************************)
EXTENDS Naturals, Sequences, FiniteSets

CONSTANTS N,            \* number of records in the batch
          Retries,      \* values of the `retry` argument
          Timeouts,     \* values of total_timeout, 0 for none
          Durations,    \* how long one batch call may take
          BackoffBase,  \* 10 ms in the code
          BackoffCap    \* 500 ms in the code

ASSUME BatchAssumption ==
  /\ N \in Nat \ {0}
  /\ Retries \subseteq Nat
  /\ Timeouts \subseteq Nat
  /\ Durations \subseteq Nat
  /\ BackoffBase \in Nat
  /\ BackoffCap \in Nat

Records == 1..N

\* A record's result: its code and its in_doubt flag.  "Busy" stands for every
\* retryable code that says the write was not done (DeviceOverload, KeyBusy,
\* ServerMemError, PartitionUnavailable), "Rejected" for a permanent one.
Answer(code) == [code |-> code, doubt |-> code = "Timeout"]
Codes == {"Ok", "Timeout", "Busy", "Generation", "Rejected"}
Answers == {Answer(c) : c \in Codes}
NoAnswer == [code |-> "none", doubt |-> FALSE]

VARIABLES
  retries,    \* max_retries
  timeout,    \* total_timeout
  guarded,    \* every record carries POLICY_GEN_EQ and the generation read
  pc,         \* where the loop is
  attempt,    \* the loop's counter
  attempts,   \* attempts_made
  elapsed,    \* the clock, since the call began; kept at 0 without a timeout
  responded,  \* an attempt has returned a response
  results,    \* the results so far, one per record once responded
  retry,      \* retry_indices
  failed,     \* last_transport_error is set
  truncated,  \* truncated_by_timeout
  outcome,    \* what the call returned
  wire,       \* the records of the attempt in flight
  answers,    \* what the cluster has answered of it so far
  value,      \* whose write each record holds: "old", "ours" or "theirs"
  written,    \* history: the records our put was ever applied to
  told        \* history: the last answer to each record that reached us

config == <<retries, timeout, guarded>>
loop == <<attempt, attempts, elapsed, responded, results, retry, failed, truncated>>
cluster == <<wire, answers, value, written>>
vars == <<config, pc, loop, outcome, cluster, told>>

Init ==
  /\ retries \in Retries
  /\ timeout \in Timeouts
  /\ guarded \in BOOLEAN
  /\ pc = "ready"
  /\ attempt = 0 /\ attempts = 0 /\ elapsed = 0
  /\ responded = FALSE
  /\ results = <<>>
  /\ retry = <<>>
  /\ failed = FALSE
  /\ truncated = FALSE
  /\ outcome = "none"
  /\ wire = <<>>
  /\ answers = [i \in Records |-> NoAnswer]
  /\ value = [i \in Records |-> "old"]
  /\ written = {}
  /\ told = [i \in Records |-> NoAnswer]

-------------------------------------------------------------------------------
(* The helpers of the loop *)

\* is_retryable_result_code
IsRetryable(r) == r.code \in {"Timeout", "Busy"}

\* collect_retryable_indices: one pass over the results, in order.
CollectRetryable(rs) ==
  LET upTo[n \in 0..N] ==
        IF n = 0 THEN <<>>
        ELSE IF IsRetryable(rs[n]) THEN Append(upTo[n - 1], n) ELSE upTo[n - 1]
  IN  upTo[N]

Least(a, b) == IF a < b THEN a ELSE b

\* compute_backoff_ms: full jitter below an exponential that stops at 2^6.
Backoffs(a) == 0..Least(BackoffBase * 2^Least(a, 6), BackoffCap)

\* Mutant: the budget is compared without the backoff about to be slept.
BudgetPermitsElapsed(backoff) == timeout = 0 \/ elapsed < timeout

\* retry_budget_permits
BudgetPermits(backoff) == timeout = 0 \/ elapsed + backoff < timeout

Later(d) == IF timeout = 0 THEN elapsed ELSE elapsed + d

\* `for attempt in 0..=max_retries`: another turn follows this one.
TurnsLeft == attempt < retries

\* The bottom of the loop body.
NextTurn ==
  IF TurnsLeft
    THEN pc' = "next" /\ attempt' = attempt + 1
    ELSE pc' = "returning" /\ UNCHANGED attempt

-------------------------------------------------------------------------------
(* The loop *)

\* Mutant: the loop stops without saying why.
StopQuietly ==
  /\ pc = "next"
  /\ \E b \in Backoffs(attempt - 1) : ~BudgetPermits(b)
  /\ pc' = "returning"
  /\ UNCHANGED <<config, loop, outcome, cluster, told>>

\* The elapsed-time guard breaks out of the loop.
Truncate ==
  /\ pc = "next"
  /\ \E b \in Backoffs(attempt - 1) : ~BudgetPermits(b)
  /\ truncated' = TRUE
  /\ pc' = "returning"
  /\ UNCHANGED <<config, attempt, attempts, elapsed, responded, results, retry,
                 failed, outcome, cluster, told>>

\* The guard lets the attempt through: the backoff is slept.
Sleep ==
  /\ pc = "next"
  /\ \E b \in Backoffs(attempt - 1) :
       BudgetPermits(b) /\ elapsed' = Later(b)
  /\ pc' = "ready"
  /\ UNCHANGED <<config, attempt, attempts, responded, results, retry, failed,
                 truncated, outcome, cluster, told>>

\* Mutant: every attempt sends the whole batch.
SendWhole ==
  /\ pc = "ready"
  /\ wire' = [i \in Records |-> i]
  /\ answers' = [i \in Records |-> NoAnswer]
  /\ attempts' = attempts + 1
  /\ pc' = "waiting"
  /\ UNCHANGED <<config, attempt, elapsed, responded, results, retry, failed,
                 truncated, outcome, value, written, told>>

\* One batch call: what is still failing, or everything while no attempt has
\* been answered.
Send ==
  /\ pc = "ready"
  /\ wire' = IF responded THEN retry ELSE [i \in Records |-> i]
  /\ answers' = [i \in Records |-> NoAnswer]
  /\ attempts' = attempts + 1
  /\ pc' = "waiting"
  /\ UNCHANGED <<config, attempt, elapsed, responded, results, retry, failed,
                 truncated, outcome, value, written, told>>

\* Mutant: results are merged at the positions they came in.
MergeInOrder(reply) ==
  [i \in Records |-> IF i <= Len(reply) THEN reply[i] ELSE results[i]]

\* A retry's results go back to the positions of the records that were re-sent.
Merge(reply) ==
  [i \in Records |->
     IF \E j \in 1..Len(reply) : retry[j] = i
       THEN reply[CHOOSE j \in 1..Len(reply) : retry[j] = i]
       ELSE results[i]]

\* The batch call returned.  A retry may bring back fewer results than it sent.
Respond ==
  /\ pc = "waiting"
  /\ \E k \in 0..Len(wire) :
       /\ k = Len(wire) \/ responded
       /\ \A j \in 1..k : answers[wire[j]] # NoAnswer
       /\ LET reply == [j \in 1..k |-> answers[wire[j]]]
          IN  results' = IF responded THEN Merge(reply) ELSE reply
       /\ told' = [i \in Records |->
                     IF \E j \in 1..k : wire[j] = i THEN answers[i] ELSE told[i]]
  /\ \E d \in Durations : (timeout > 0 => d <= timeout) /\ elapsed' = Later(d)
  /\ responded' = TRUE
  /\ failed' = FALSE
  /\ retry' = IF retries = 0 THEN <<>> ELSE CollectRetryable(results')
  /\ IF retry' = <<>> THEN pc' = "returning" /\ UNCHANGED attempt ELSE NextTurn
  /\ UNCHANGED <<config, attempts, truncated, outcome, cluster>>

\* The batch call failed as a whole, whatever the cluster has done of it.
TransportError ==
  /\ pc = "waiting"
  /\ \E d \in Durations : (timeout > 0 => d <= timeout) /\ elapsed' = Later(d)
  /\ failed' = TRUE
  /\ NextTurn
  /\ UNCHANGED <<config, attempts, responded, results, retry, truncated, outcome,
                 cluster, told>>

\* Mutant: the last transport error always propagates.
ReturnLastError ==
  /\ pc = "returning"
  /\ outcome' = IF failed THEN "error" ELSE "ok"
  /\ pc' = "returned"
  /\ UNCHANGED <<config, loop, cluster, told>>

\* The error propagates only when there are no results to hand back.
Return ==
  /\ pc = "returning"
  /\ outcome' = IF failed /\ ~responded THEN "error" ELSE "ok"
  /\ pc' = "returned"
  /\ UNCHANGED <<config, loop, cluster, told>>

-------------------------------------------------------------------------------
(* The cluster *)

\* Mutant: a retry is sent with a default write policy.
GuardFirstAttempt == guarded /\ attempt = 0

\* The record's own write policy goes with every attempt.
SentGuard == guarded

\* A generation guard holds until anyone writes the record.
Applies(i) == SentGuard => value[i] = "old"

Unanswered(i) ==
  /\ pc = "waiting"
  /\ \E j \in 1..Len(wire) : wire[j] = i
  /\ answers[i] = NoAnswer

\* The put of record i is applied; the answer says so, or times out.
Applied(i) ==
  /\ Unanswered(i)
  /\ Applies(i)
  /\ value' = [value EXCEPT ![i] = "ours"]
  /\ written' = written \union {i}
  /\ \E c \in {"Ok", "Timeout"} : answers' = [answers EXCEPT ![i] = Answer(c)]
  /\ UNCHANGED <<config, pc, loop, outcome, wire, told>>

\* The put of record i is not applied.
NotApplied(i) ==
  /\ Unanswered(i)
  /\ \E c \in {"Timeout", "Busy", "Rejected"} \union
              (IF Applies(i) THEN {} ELSE {"Generation"}) :
       answers' = [answers EXCEPT ![i] = Answer(c)]
  /\ UNCHANGED <<config, pc, loop, outcome, wire, value, written, told>>

\* Another client writes record i.
OtherWriter(i) ==
  /\ pc # "returned"
  /\ value' = [value EXCEPT ![i] = "theirs"]
  /\ UNCHANGED <<config, pc, loop, outcome, wire, answers, written, told>>

\* The call is over.
Over == pc = "returned" /\ UNCHANGED vars

Next ==
  \/ Truncate
  \/ Sleep
  \/ Send
  \/ Respond
  \/ TransportError
  \/ Return
  \/ \E i \in Records : Applied(i) \/ NotApplied(i) \/ OtherWriter(i)
  \/ Over

Spec == Init /\ [][Next]_vars

-------------------------------------------------------------------------------
(* Properties *)

\* Types; `retry=N` never issues more than N + 1 attempts.
TypeOK ==
  /\ retries \in Retries /\ timeout \in Timeouts /\ guarded \in BOOLEAN
  /\ pc \in {"ready", "waiting", "next", "returning", "returned"}
  /\ attempt \in 0..retries
  /\ attempts \in 0..(retries + 1)
  /\ elapsed \in Nat
  /\ responded \in BOOLEAN /\ failed \in BOOLEAN /\ truncated \in BOOLEAN
  /\ results \in IF responded THEN [Records -> Answers] ELSE {<<>>}
  /\ retry \in Seq(Records)
  /\ outcome \in {"none", "ok", "error"}
  /\ wire \in Seq(Records)
  /\ answers \in [Records -> Answers \union {NoAnswer}]
  /\ value \in [Records -> {"old", "ours", "theirs"}]
  /\ written \subseteq Records
  /\ told \in [Records -> Answers \union {NoAnswer}]

\* Each record's result is the last answer the cluster gave to that record, and
\* not to another, through any number of partial re-sends and short responses.
ResultsAreTheirOwn == responded => \A i \in Records : results[i] = told[i]

\* A record is sent again only while its last answer is a transient failure:
\* an acknowledged write is never repeated, a permanent failure never retried.
OnlyFailingResent ==
  pc = "waiting" =>
    \A j \in 1..Len(wire) : told[wire[j]] = NoAnswer \/ IsRetryable(told[wire[j]])

\* The call raises exactly when no attempt was ever answered.
RaisesOnlyUnanswered ==
  pc = "returned" =>
    (outcome = "error" <=> \A i \in Records : told[i] = NoAnswer)

\* BatchWriteRetryStats tell the truth: fewer attempts than asked for means that
\* nothing was left to retry or that the timeout truncated the loop, a truncated
\* loop left work undone, and `unresolved` counts the records whose last answer is
\* a retryable failure.
StatsAreTruthful ==
  outcome = "ok" /\ retries > 0 =>
    /\ attempts < retries + 1 /\ retry # <<>> => truncated
    /\ truncated => retry # <<>> /\ attempts < retries + 1
    /\ Len(retry) = Cardinality({i \in Records : IsRetryable(told[i])})

\* "Total wall-clock time may exceed total_timeout by up to one additional
\* timeout window" and not by more.
WithinOneMoreWindow == timeout > 0 => elapsed < 2 * timeout

\* With POLICY_GEN_EQ no attempt, first or retried, overwrites another client.
GuardedNeverOverwrites ==
  [][guarded => \A i \in Records : value[i] = "theirs" => value'[i] = "theirs"]_vars

\* in_doubt says "whether the write may have completed despite a transient
\* error" (docs/docs/api/types.md): a failed record that was written has it.
InDoubtCoversWrites ==
  outcome = "ok" =>
    \A i \in Records : i \in written /\ results[i].code # "Ok" => results[i].doubt
===============================================================================
