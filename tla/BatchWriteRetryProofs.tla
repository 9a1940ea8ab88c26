------------------------- MODULE BatchWriteRetryProofs -------------------------
(***************************************************************************)
(* Theorems about BatchWriteRetry, for any batch, any number of retries    *)
(* and any time budget.  Which records are re-sent is the business of      *)
(* collect_retryable_indices; that it lists the failing ones, each once,   *)
(* is proved by induction on the results it has passed.                    *)
(***************************************************************************)
EXTENDS BatchWriteRetry, FiniteSetTheorems, SequenceTheorems, WellFoundedInduction, TLAPS

(* Induction over the numbers, with a set for what is proved of them *)

\* A set of numbers that is not empty has a least element.
LEMMA LeastNat ==
  ASSUME NEW T, T \subseteq Nat, T # {}
  PROVE  \E n \in T : \A m \in T : n <= m
<1> DEFINE R == {ss \in Nat \X Nat : ss[1] < ss[2]}
<1>1. IsWellFoundedOn(R, Nat)
  BY NatLessThanWellFounded DEF OpToRel
<1> HIDE DEF R
<1>2. PICK n \in T : \A m \in T : ~(<<m, n>> \in R)
  BY <1>1, WFMin
<1>3. ASSUME NEW m \in T PROVE n <= m
  <2>1. <<m, n>> \in Nat \X Nat
    OBVIOUS
  <2>2. ~(<<m, n>>[1] < <<m, n>>[2])
    BY <1>2, <2>1 DEF R
  <2> QED BY <2>1, <2>2
<1> QED BY <1>3

\* Induction: a set with 0 and the successor of each of its numbers has them all.
LEMMA Induct ==
  ASSUME NEW T, 0 \in T, \A n \in Nat : n \in T => n + 1 \in T
  PROVE  Nat \subseteq T
<1> SUFFICES ASSUME Nat \ T # {} PROVE FALSE
  OBVIOUS
<1>1. PICK n \in Nat \ T : \A m \in Nat \ T : n <= m
  BY LeastNat
<1>2. n # 0 /\ n - 1 \in Nat /\ ~(n <= n-1)
  BY <1>1
<1>3. n - 1 \in T
  BY <1>1, <1>2
<1> QED BY <1>1, <1>2, <1>3

\* What the pass of collect_retryable_indices has collected after n results.
IsPass(f, rs) ==
  f = [n \in 0..N |-> IF n = 0 THEN <<>>
                      ELSE IF IsRetryable(rs[n]) THEN Append(f[n - 1], n) ELSE f[n - 1]]
Failing(rs, n) == {i \in 1..n : IsRetryable(rs[i])}


\* There is such a pass: each result adds to what the ones before it gave.
LEMMA PassExists == \A rs : \E f : IsPass(f, rs)
<1> TAKE rs
<1> DEFINE Step(f, n) == IF n = 0 THEN <<>>
                         ELSE IF IsRetryable(rs[n]) THEN Append(f[n - 1], n) ELSE f[n - 1]
           T == {n \in Nat : \E f : f = [k \in 0..n |-> Step(f, k)]}
<1>1. 0 \in T
  <2>1. [k \in 0..0 |-> <<>>] = [k \in 0..0 |-> Step([j \in 0..0 |-> <<>>], k)]
    OBVIOUS
  <2> QED BY <2>1
<1>2. ASSUME NEW n \in Nat, n \in T PROVE n + 1 \in T
  <2>1. PICK f : f = [k \in 0..n |-> Step(f, k)]
    BY <1>2
  <2> DEFINE g == [k \in 0..(n + 1) |-> IF k = n + 1 THEN Step(f, n + 1) ELSE f[k]]
  <2>2. \A k \in 0..(n + 1) : g[k] = Step(g, k)
    <3> SUFFICES ASSUME NEW k \in 0..(n + 1) PROVE g[k] = Step(g, k)
      OBVIOUS
    <3>1. CASE k = 0
      BY <2>1, <3>1
    <3>2. CASE k # 0
      <4>1. k - 1 \in 0..n /\ g[k - 1] = f[k - 1]
        BY <3>2
      <4>2. CASE k = n + 1
        BY <3>2, <4>1, <4>2
      <4>3. CASE k # n + 1
        <5>1. k \in 0..n /\ g[k] = f[k]
          BY <4>3
        <5>2. f[k] = Step(f, k)
          BY <2>1, <5>1
        <5> QED BY <3>2, <4>1, <5>1, <5>2
      <4> QED BY <4>2, <4>3
    <3> QED BY <3>1, <3>2
  <2> HIDE DEF Step
  <2>3. g = [k \in 0..(n + 1) |-> Step(g, k)]
    BY <2>2
  <2> HIDE DEF g
  <2> QED BY <2>3
<1>3. N \in T
  <2> HIDE DEF T
  <2> QED BY <1>1, <1>2, Induct, BatchAssumption
<1> QED BY <1>3 DEF IsPass

LEMMA CollectIsPass ==
  ASSUME NEW rs
  PROVE  \E f : IsPass(f, rs) /\ CollectRetryable(rs) = f[N]
<1> DEFINE f == CHOOSE g : IsPass(g, rs)
<1>1. IsPass(f, rs)
  BY PassExists
<1>2. CollectRetryable(rs) = f[N]
  BY DEF CollectRetryable, IsPass
<1> QED BY <1>1, <1>2

\* After n results the pass has collected the failing records among them, each once.
LEMMA PassCollects ==
  ASSUME NEW rs, NEW f, IsPass(f, rs)
  PROVE  \A n \in 0..N : /\ f[n] \in Seq(Failing(rs, n))
                         /\ IsFiniteSet(Failing(rs, n))
                         /\ Len(f[n]) = Cardinality(Failing(rs, n))
<1> DEFINE T == {n \in Nat : n <= N =>
                   /\ f[n] \in Seq(Failing(rs, n))
                   /\ IsFiniteSet(Failing(rs, n))
                   /\ Len(f[n]) = Cardinality(Failing(rs, n))}
<1>n. N \in Nat /\ \A n \in Nat : n <= N => n \in 0..N
  BY BatchAssumption
<1>f. \A n \in 0..N : f[n] = IF n = 0 THEN <<>>
                             ELSE IF IsRetryable(rs[n]) THEN Append(f[n - 1], n) ELSE f[n - 1]
  BY DEF IsPass
<1>1. 0 \in T
  <2>1. f[0] = <<>>
    BY <1>n, <1>f
  <2>2. Failing(rs, 0) = {}
    BY DEF Failing
  <2>3. <<>> \in Seq({}) /\ Len(<<>>) = 0
    OBVIOUS
  <2> HIDE DEF T
  <2> QED BY <2>1, <2>2, <2>3, FS_EmptySet DEF T
<1>2. ASSUME NEW n \in Nat, n \in T PROVE n + 1 \in T
  <2> SUFFICES ASSUME n + 1 <= N
               PROVE  /\ f[n + 1] \in Seq(Failing(rs, n + 1))
                      /\ IsFiniteSet(Failing(rs, n + 1))
                      /\ Len(f[n + 1]) = Cardinality(Failing(rs, n + 1))
    OBVIOUS
  <2>1. /\ f[n] \in Seq(Failing(rs, n))
        /\ IsFiniteSet(Failing(rs, n))
        /\ Len(f[n]) = Cardinality(Failing(rs, n))
    BY <1>2, <1>n
  <2>2. n + 1 \in 0..N /\ n + 1 # 0 /\ (n + 1) - 1 = n
    BY <1>n
  <2>3. CASE IsRetryable(rs[n + 1])
    <3>1. f[n + 1] = Append(f[n], n + 1)
      BY <1>f, <2>2, <2>3
    <3>2. Failing(rs, n + 1) = Failing(rs, n) \union {n + 1} /\ n + 1 \notin Failing(rs, n)
      BY <2>3 DEF Failing
    <3>3. f[n] \in Seq(Failing(rs, n + 1)) /\ n + 1 \in Failing(rs, n + 1)
      BY <2>1, <3>2, SeqMonotonic
    <3>4. /\ f[n + 1] \in Seq(Failing(rs, n + 1))
          /\ Len(f[n + 1]) = Len(f[n]) + 1
      BY <3>1, <3>3, AppendProperties
    <3>5. /\ IsFiniteSet(Failing(rs, n + 1))
          /\ Cardinality(Failing(rs, n + 1)) = Cardinality(Failing(rs, n)) + 1
      BY <2>1, <3>2, FS_AddElement
    <3> QED BY <2>1, <3>4, <3>5
  <2>4. CASE ~IsRetryable(rs[n + 1])
    <3>1. f[n + 1] = f[n]
      BY <1>f, <2>2, <2>4
    <3>2. Failing(rs, n + 1) = Failing(rs, n)
      BY <2>4 DEF Failing
    <3> QED BY <2>1, <3>1, <3>2
  <2> QED BY <2>3, <2>4
<1>3. Nat \subseteq T
  <2> HIDE DEF T
  <2> QED BY <1>1, <1>2, Induct
<1> QED BY <1>3, <1>n

\* collect_retryable_indices lists the records whose result is retryable, each once.
LEMMA CollectedAreFailing ==
  ASSUME NEW rs
  PROVE  /\ CollectRetryable(rs) \in Seq({i \in Records : IsRetryable(rs[i])})
         /\ Len(CollectRetryable(rs)) = Cardinality({i \in Records : IsRetryable(rs[i])})
<1>1. PICK f : IsPass(f, rs) /\ CollectRetryable(rs) = f[N]
  BY CollectIsPass
<1>2. N \in 0..N
  BY BatchAssumption
<1> QED BY <1>1, <1>2, PassCollects DEF Failing, Records

-------------------------------------------------------------------------------
(* The inductive invariant *)

\* A backoff is a number of milliseconds, whatever the exponent comes to.
LEMMA BackoffIsNat == \A a : Backoffs(a) \subseteq Nat
<1>1. \A x : 0..x \subseteq Nat
  OBVIOUS
<1> QED BY <1>1 DEF Backoffs

LEMMA AnswerIsAnswer ==
  /\ \A c \in Codes : Answer(c) \in Answers
  /\ NoAnswer \notin Answers
BY DEF Answers, Answer, NoAnswer, Codes

\* An attempt starts only inside the budget, and takes no longer than it.
InBudget ==
  timeout > 0 =>
    /\ elapsed < 2 * timeout
    /\ pc \in {"ready", "waiting"} => elapsed < timeout

\* What is in flight: what is to be retried, or the whole batch.
OnTheWire ==
  pc = "waiting" => wire = IF responded THEN retry ELSE [i \in Records |-> i]

\* Once an attempt was answered there is a result for every record, and it is the
\* last thing the cluster told of that record; before, nothing was told.
ResultsAreTold ==
  /\ responded => \A i \in Records : results[i] = told[i] /\ told[i] # NoAnswer
  /\ ~responded => \A i \in Records : told[i] = NoAnswer

\* What is to be retried is what fails by the results so far, and the loop goes
\* on after an answer only while there is something.
RetryIsWhatFails ==
  /\ responded /\ retries > 0 => retry = CollectRetryable(results)
  /\ responded /\ retries = 0 => retry = <<>>
  /\ ~responded => retry = <<>>
  /\ responded /\ pc \in {"ready", "waiting", "next"} => retry # <<>>

\* The loop's counter counts the attempts, and it ends for one of three reasons.
LoopCounts ==
  /\ pc \in {"ready", "next"} => attempts = attempt
  /\ pc = "waiting" => attempts = attempt + 1
  /\ truncated => /\ pc \in {"returning", "returned"}
                  /\ attempts < retries + 1
                  /\ responded => retry # <<>>
  /\ pc \in {"returning", "returned"} =>
       \/ truncated
       \/ attempts = retries + 1
       \/ responded /\ retry = <<>>

\* The loop ends with results or with an error to raise.
SomethingToReturn ==
  /\ pc \in {"next", "returning"} => responded \/ failed
  /\ pc = "returned" => (outcome = "error" <=> ~responded)
  /\ outcome # "none" => pc = "returned"

IInv ==
  /\ TypeOK
  /\ InBudget
  /\ OnTheWire
  /\ ResultsAreTold
  /\ RetryIsWhatFails
  /\ LoopCounts
  /\ SomethingToReturn

\* What the types say of the numbers.
LEMMA Numbers ==
  ASSUME TypeOK
  PROVE  /\ retries \in Nat /\ timeout \in Nat /\ elapsed \in Nat
         /\ attempt \in Nat /\ attempts \in Nat
         /\ N \in Nat /\ N > 0
BY BatchAssumption DEF TypeOK

LEMMA InitIInv == Init => IInv
<1> SUFFICES ASSUME Init PROVE IInv
  OBVIOUS
<1>1. retries \in Nat /\ timeout \in Nat /\ <<>> \in Seq(Records)
  BY BatchAssumption DEF Init
<1>2. 0 \in 0..retries /\ 0 \in 0..(retries + 1) /\ 0 \in Nat
  BY <1>1
<1>3. /\ [i \in Records |-> NoAnswer] \in [Records -> Answers \union {NoAnswer}]
      /\ [i \in Records |-> "old"] \in [Records -> {"old", "ours", "theirs"}]
  OBVIOUS
<1>4. TypeOK
  BY <1>1, <1>2, <1>3, Zenon DEF Init, TypeOK
<1> QED
  BY <1>1, <1>4 DEF Init, IInv, InBudget, OnTheWire, ResultsAreTold, RetryIsWhatFails,
                    LoopCounts, SomethingToReturn

-------------------------------------------------------------------------------
(* The steps of the loop *)

LEMMA TruncateKeepsIInv ==
  ASSUME IInv, Truncate
  PROVE  IInv'
<1>1. TypeOK'
  BY DEF IInv, TypeOK, Truncate, config, cluster
<1>2. InBudget' /\ OnTheWire' /\ ResultsAreTold' /\ SomethingToReturn'
  BY DEF IInv, InBudget, OnTheWire, ResultsAreTold, SomethingToReturn, Truncate, config,
         cluster
<1>3. RetryIsWhatFails'
  BY DEF IInv, RetryIsWhatFails, CollectRetryable, IsRetryable, Truncate, config
<1>4. attempts < retries + 1
  BY Numbers DEF IInv, TypeOK, LoopCounts, Truncate
<1>5. LoopCounts'
  BY <1>4 DEF IInv, RetryIsWhatFails, LoopCounts, Truncate, config
<1> QED BY <1>1, <1>2, <1>3, <1>5 DEF IInv

LEMMA SleepKeepsIInv ==
  ASSUME IInv, Sleep
  PROVE  IInv'
<1>1. PICK b \in Nat : BudgetPermits(b) /\ elapsed' = Later(b)
  BY BackoffIsNat DEF Sleep
<1>2. elapsed' \in Nat /\ (timeout > 0 => elapsed' < timeout)
  BY <1>1, Numbers DEF IInv, BudgetPermits, Later
<1>3. TypeOK'
  BY <1>2 DEF IInv, TypeOK, Sleep, config, cluster
<1>4. InBudget'
  BY <1>2, Numbers DEF IInv, InBudget, Sleep, config
<1>5. OnTheWire' /\ ResultsAreTold' /\ RetryIsWhatFails' /\ LoopCounts' /\ SomethingToReturn'
  BY DEF IInv, OnTheWire, ResultsAreTold, RetryIsWhatFails, LoopCounts,
         SomethingToReturn, Sleep, config, cluster
<1> QED BY <1>3, <1>4, <1>5 DEF IInv

LEMMA SendKeepsIInv ==
  ASSUME IInv, Send
  PROVE  IInv'
<1>1. wire' \in Seq(Records)
  <2>1. [i \in Records |-> i] \in Seq(Records)
    BY Numbers DEF IInv, Records
  <2> QED BY <2>1 DEF IInv, TypeOK, Send
<1>2. attempts' \in 0..(retries + 1)
  BY Numbers DEF IInv, TypeOK, LoopCounts, Send
<1>3. TypeOK'
  BY <1>1, <1>2 DEF IInv, TypeOK, Send, config
<1>4. InBudget' /\ OnTheWire' /\ ResultsAreTold' /\ SomethingToReturn'
  BY DEF IInv, InBudget, OnTheWire, ResultsAreTold, SomethingToReturn, Send, config
<1>5. RetryIsWhatFails' /\ LoopCounts'
  BY DEF IInv, RetryIsWhatFails, LoopCounts, Send, config
<1> QED BY <1>3, <1>4, <1>5 DEF IInv

\* What a batch call may take.
LEMMA CallStaysInWindow ==
  ASSUME IInv, pc = "waiting", NEW d \in Durations, timeout > 0 => d <= timeout
  PROVE  Later(d) \in Nat /\ (timeout > 0 => Later(d) < 2 * timeout)
BY BatchAssumption, Numbers DEF IInv, InBudget, Later

\* The results are merged at the positions whose records were sent.
LEMMA RespondMerges ==
  ASSUME IInv, Respond
  PROVE  /\ told' \in [Records -> Answers \union {NoAnswer}]
         /\ results' \in [Records -> Answers]
         /\ \A i \in Records : results'[i] = told'[i] /\ told'[i] # NoAnswer
<1>1. PICK k \in 0..Len(wire) :
        /\ k = Len(wire) \/ responded
        /\ \A j \in 1..k : answers[wire[j]] # NoAnswer
        /\ LET reply == [j \in 1..k |-> answers[wire[j]]]
           IN  results' = IF responded THEN Merge(reply) ELSE reply
        /\ told' = [i \in Records |->
                      IF \E j \in 1..k : wire[j] = i THEN answers[i] ELSE told[i]]
  BY DEF Respond
<1> DEFINE reply == [j \in 1..k |-> answers[wire[j]]]
<1>2. k \in Nat /\ Len(reply) = k
  BY <1>1
<1>3. told' \in [Records -> Answers \union {NoAnswer}]
  BY <1>1 DEF IInv, TypeOK
<1>4. /\ \A i \in Records : results'[i] = told'[i] /\ told'[i] # NoAnswer
      /\ results' = [i \in Records |-> results'[i]]
  <2>1. CASE responded
    <3>1. wire = retry /\ results' = Merge(reply)
      BY <1>1, <2>1 DEF IInv, OnTheWire, Respond
    <3>2. ASSUME NEW i \in Records
          PROVE  results'[i] = told'[i] /\ told'[i] # NoAnswer
      <4>1. CASE \E j \in 1..k : wire[j] = i
        <5> DEFINE j == CHOOSE n \in 1..Len(reply) : retry[n] = i
        <5>1. j \in 1..k /\ wire[j] = i
          BY <1>2, <3>1, <4>1
        <5>2. results'[i] = reply[j]
          BY <1>2, <3>1, <4>1 DEF Merge
        <5>3. reply[j] = answers[i] /\ answers[i] # NoAnswer
          BY <1>1, <5>1
        <5> QED BY <1>1, <4>1, <5>2, <5>3
      <4>2. CASE ~ \E j \in 1..k : wire[j] = i
        <5>1. results'[i] = results[i]
          BY <1>2, <3>1, <4>2 DEF Merge
        <5> QED BY <1>1, <2>1, <4>2, <5>1 DEF IInv, ResultsAreTold
      <4> QED BY <4>1, <4>2
    <3>3. results' = [i \in Records |-> results'[i]]
      BY <3>1 DEF Merge
    <3> QED BY <3>2, <3>3
  <2>2. CASE ~responded
    <3>1. wire = [i \in Records |-> i] /\ k = N /\ results' = reply
      BY <1>1, <2>2, Numbers DEF IInv, OnTheWire, Respond, Records
    <3>2. ASSUME NEW i \in Records
          PROVE  results'[i] = told'[i] /\ told'[i] # NoAnswer
      <4>1. i \in 1..k /\ wire[i] = i
        BY <3>1 DEF Records
      <4>2. results'[i] = answers[i] /\ answers[i] # NoAnswer
        BY <1>1, <3>1, <4>1
      <4>3. told'[i] = answers[i]
        BY <1>1, <4>1
      <4> QED BY <4>2, <4>3
    <3>3. results' = [i \in Records |-> results'[i]]
      BY <3>1 DEF Records
    <3> QED BY <3>2, <3>3
  <2> QED BY <2>1, <2>2 DEF IInv, TypeOK
<1>5. \A i \in Records : results'[i] \in Answers
  BY <1>3, <1>4
<1>6. results' \in [Records -> Answers]
  BY <1>4, <1>5
<1> QED BY <1>3, <1>4, <1>6

\* The bottom of the loop body.
LEMMA NextTurnCounts ==
  ASSUME IInv, pc = "waiting", NextTurn
  PROVE  /\ pc' \in {"next", "returning"}
         /\ attempt' \in 0..retries
         /\ pc' = "next" => attempts = attempt'
         /\ pc' = "returning" => attempts = retries + 1
BY Numbers DEF IInv, TypeOK, LoopCounts, NextTurn, TurnsLeft

LEMMA RespondKeepsIInv ==
  ASSUME IInv, Respond
  PROVE  IInv'
<1>1. PICK d \in Durations : (timeout > 0 => d <= timeout) /\ elapsed' = Later(d)
  BY DEF Respond
<1>2. elapsed' \in Nat /\ (timeout > 0 => elapsed' < 2 * timeout)
  BY <1>1, CallStaysInWindow DEF Respond
<1>3. /\ pc = "waiting"
      /\ responded' = TRUE /\ failed' = FALSE
      /\ retry' = IF retries = 0 THEN <<>> ELSE CollectRetryable(results')
      /\ UNCHANGED <<config, attempts, truncated, outcome, cluster>>
  BY DEF Respond
<1>4. /\ pc' \in {"next", "returning"}
      /\ attempt' \in 0..retries
      /\ pc' = "next" => attempts = attempt' /\ retry' # <<>>
      /\ pc' = "returning" => attempts = retries + 1 \/ retry' = <<>>
  <2>1. CASE retry' = <<>>
    BY <2>1 DEF IInv, TypeOK, Respond
  <2>2. CASE retry' # <<>>
    BY <2>2, NextTurnCounts DEF Respond
  <2> QED BY <2>1, <2>2
<1>5. retry' \in Seq(Records)
  <2>1. CollectRetryable(results') \in Seq({i \in Records : IsRetryable(results'[i])})
    BY CollectedAreFailing
  <2>2. CollectRetryable(results') \in Seq(Records)
    BY <2>1, SeqMonotonic
  <2> QED BY <1>3, <2>2
<1>6. TypeOK'
  BY <1>2, <1>3, <1>4, <1>5, RespondMerges DEF IInv, TypeOK, config, cluster
<1>7. ResultsAreTold'
  BY <1>3, RespondMerges DEF ResultsAreTold
<1>8. RetryIsWhatFails'
  <2>1. retries' = retries /\ retries \in Nat
    BY <1>3, Numbers DEF IInv, config
  <2> QED BY <1>3, <1>4, <2>1 DEF RetryIsWhatFails
<1>9. LoopCounts'
  <2>1. ~truncated
    BY <1>3 DEF IInv, LoopCounts
  <2> QED BY <1>3, <1>4, <2>1 DEF LoopCounts, config
<1> QED
  BY <1>2, <1>3, <1>4, <1>6, <1>7, <1>8, <1>9
  DEF IInv, InBudget, OnTheWire, SomethingToReturn, config

LEMMA TransportErrorKeepsIInv ==
  ASSUME IInv, TransportError
  PROVE  IInv'
<1>1. PICK d \in Durations : (timeout > 0 => d <= timeout) /\ elapsed' = Later(d)
  BY DEF TransportError
<1>2. elapsed' \in Nat /\ (timeout > 0 => elapsed' < 2 * timeout)
  BY <1>1, CallStaysInWindow DEF TransportError
<1>3. /\ pc = "waiting" /\ failed' = TRUE
      /\ UNCHANGED <<config, attempts, responded, results, retry, truncated, outcome,
                     cluster, told>>
  BY DEF TransportError
<1>4. /\ pc' \in {"next", "returning"}
      /\ attempt' \in 0..retries
      /\ pc' = "next" => attempts = attempt'
      /\ pc' = "returning" => attempts = retries + 1
  BY NextTurnCounts DEF TransportError
<1>5. TypeOK'
  BY <1>2, <1>3, <1>4 DEF IInv, TypeOK, config, cluster
<1>6. ResultsAreTold' /\ OnTheWire'
  BY <1>3, <1>4 DEF IInv, ResultsAreTold, OnTheWire
<1>7. RetryIsWhatFails'
  BY <1>3, <1>4 DEF IInv, RetryIsWhatFails, config
<1>8. LoopCounts'
  BY <1>3, <1>4 DEF IInv, LoopCounts, config
<1> QED
  BY <1>2, <1>3, <1>4, <1>5, <1>6, <1>7, <1>8
  DEF IInv, InBudget, SomethingToReturn, config

LEMMA ReturnKeepsIInv ==
  ASSUME IInv, Return
  PROVE  IInv'
<1>1. TypeOK'
  BY DEF IInv, TypeOK, Return, config, loop, cluster
<1>2. InBudget' /\ OnTheWire' /\ ResultsAreTold' /\ RetryIsWhatFails' /\ LoopCounts'
  BY DEF IInv, InBudget, OnTheWire, ResultsAreTold, RetryIsWhatFails, LoopCounts, Return,
         config, loop, cluster
<1>3. SomethingToReturn'
  BY DEF IInv, SomethingToReturn, Return, loop
<1> QED BY <1>1, <1>2, <1>3 DEF IInv

\* The cluster and its other writers change none of what the loop relies on.
LEMMA ClusterKeepsIInv ==
  ASSUME IInv, NEW i \in Records, Applied(i) \/ NotApplied(i) \/ OtherWriter(i)
  PROVE  IInv'
<1>1. /\ answers' \in [Records -> Answers \union {NoAnswer}]
      /\ value' \in [Records -> {"old", "ours", "theirs"}]
      /\ written' \subseteq Records
  BY AnswerIsAnswer
  DEF IInv, TypeOK, Applied, NotApplied, OtherWriter, Codes
<1>2. UNCHANGED <<config, pc, loop, outcome, wire, told>>
  BY DEF Applied, NotApplied, OtherWriter
<1>3. TypeOK'
  BY <1>1, <1>2 DEF IInv, TypeOK, config, loop
<1> QED
  BY <1>2, <1>3 DEF IInv, InBudget, OnTheWire, ResultsAreTold, RetryIsWhatFails,
                    LoopCounts, SomethingToReturn, config, loop

LEMMA StutterKeepsIInv ==
  ASSUME IInv, UNCHANGED vars
  PROVE  IInv'
<1>1. TypeOK'
  BY DEF IInv, TypeOK, vars, config, loop, cluster
<1> QED
  BY <1>1 DEF IInv, InBudget, OnTheWire, ResultsAreTold, RetryIsWhatFails, LoopCounts,
              SomethingToReturn, vars, config, loop, cluster

-------------------------------------------------------------------------------
(* The invariant and what follows from it *)

LEMMA NextIInv == IInv /\ [Next]_vars => IInv'
<1> QED
  BY StutterKeepsIInv, TruncateKeepsIInv, SleepKeepsIInv, SendKeepsIInv,
     RespondKeepsIInv, TransportErrorKeepsIInv, ReturnKeepsIInv, ClusterKeepsIInv
  DEF Next, Over

\* The inductive invariant: types, the budget, what is on the wire, what was told,
\* what is to be retried and how the loop counts.
THEOREM Invariance == Spec => []IInv
  BY InitIInv, NextIInv, PTL DEF Spec

\* Every variable has its type; `retry=N` never issues more than N + 1 attempts.
THEOREM TypeCorrect == Spec => []TypeOK
<1>1. IInv => TypeOK
  BY DEF IInv
<1> QED BY <1>1, Invariance, PTL

\* Each record's result is the last answer the cluster gave to that record.
THEOREM ResultsAreNeverMixedUp == Spec => []ResultsAreTheirOwn
<1>1. IInv => ResultsAreTheirOwn
  BY DEF IInv, ResultsAreTold, ResultsAreTheirOwn
<1> QED BY <1>1, Invariance, PTL

\* Only records whose last answer is a transient failure are sent again, however
\* many attempts were answered, lost or cut short before.
THEOREM SuccessIsNeverRepeated == Spec => []OnlyFailingResent
<1>1. IInv => OnlyFailingResent
  <2> SUFFICES ASSUME IInv, pc = "waiting", NEW j \in 1..Len(wire)
               PROVE  told[wire[j]] = NoAnswer \/ IsRetryable(told[wire[j]])
    BY DEF OnlyFailingResent
  <2>1. CASE ~responded
    <3>1. wire[j] \in Records
      BY DEF IInv, TypeOK
    <3> QED BY <2>1, <3>1 DEF IInv, ResultsAreTold
  <2>2. CASE responded
    <3>1. wire = CollectRetryable(results)
      BY <2>2, Numbers DEF IInv, OnTheWire, RetryIsWhatFails
    <3>2. wire \in Seq({i \in Records : IsRetryable(results[i])})
      BY <3>1, CollectedAreFailing
    <3>3. wire[j] \in Records /\ IsRetryable(results[wire[j]])
      BY <3>2, ElementOfSeq
    <3> QED BY <2>2, <3>3 DEF IInv, ResultsAreTold
  <2> QED BY <2>1, <2>2 DEF IInv, TypeOK
<1> QED BY <1>1, Invariance, PTL

\* The statistics handed back with the results (BatchWriteRetryStats): `unresolved`
\* is the number of records whose last answer is a retryable failure, fewer attempts
\* than asked for with some unresolved means truncated_by_timeout, and the latter
\* means that attempts were left and so was something to retry.
THEOREM StatsTellTheTruth == Spec => []StatsAreTruthful
<1>1. IInv => StatsAreTruthful
  <2> SUFFICES ASSUME IInv, outcome = "ok", retries > 0
               PROVE  /\ attempts < retries + 1 /\ retry # <<>> => truncated
                      /\ truncated => retry # <<>> /\ attempts < retries + 1
                      /\ Len(retry) = Cardinality({i \in Records : IsRetryable(told[i])})
    BY DEF StatsAreTruthful
  <2>1. pc = "returned" /\ responded
    BY DEF IInv, SomethingToReturn
  <2>2. retry = CollectRetryable(results)
    BY <2>1 DEF IInv, RetryIsWhatFails
  <2>3. {i \in Records : IsRetryable(results[i])} = {i \in Records : IsRetryable(told[i])}
    BY <2>1 DEF IInv, ResultsAreTold
  <2>4. Len(retry) = Cardinality({i \in Records : IsRetryable(told[i])})
    BY <2>2, <2>3, CollectedAreFailing
  <2>5. /\ attempts < retries + 1 /\ retry # <<>> => truncated
        /\ truncated => retry # <<>> /\ attempts < retries + 1
    BY <2>1, Numbers DEF IInv, LoopCounts
  <2> QED BY <2>4, <2>5
<1> QED BY <1>1, Invariance, PTL

\* The call raises exactly when no attempt was ever answered.
THEOREM ErrorsHideNoResults == Spec => []RaisesOnlyUnanswered
<1>1. IInv => RaisesOnlyUnanswered
  <2>1. 1 \in Records
    BY BatchAssumption DEF Records
  <2> QED
    BY <2>1 DEF IInv, TypeOK, ResultsAreTold, SomethingToReturn, RaisesOnlyUnanswered
<1> QED BY <1>1, Invariance, PTL

\* total_timeout is exceeded by less than itself.
THEOREM TimeIsBounded == Spec => []WithinOneMoreWindow
<1>1. IInv => WithinOneMoreWindow
  BY DEF IInv, InBudget, WithinOneMoreWindow
<1> QED BY <1>1, Invariance, PTL

\* With POLICY_GEN_EQ no attempt overwrites another client's write.
THEOREM GuardsHold == Spec => GuardedNeverOverwrites
<1>1. IInv /\ [Next]_vars =>
        [guarded => \A i \in Records : value[i] = "theirs" => value'[i] = "theirs"]_vars
  <2> SUFFICES ASSUME IInv, Next, guarded, NEW i \in Records, value[i] = "theirs"
               PROVE  value'[i] = "theirs"
    OBVIOUS
  <2>1. ASSUME NEW n \in Records, Applied(n) \/ NotApplied(n) \/ OtherWriter(n)
        PROVE  value'[i] = "theirs"
    BY <2>1 DEF IInv, TypeOK, Applied, Applies, SentGuard, NotApplied, OtherWriter
  <2>2. CASE Truncate \/ Sleep \/ Send \/ Respond \/ TransportError \/ Return \/ Over
    BY <2>2 DEF Truncate, Sleep, Send, Respond, TransportError, Return, Over, vars, cluster
  <2> QED BY <2>1, <2>2 DEF Next
<1> QED BY <1>1, Invariance, PTL DEF Spec, GuardedNeverOverwrites
===============================================================================
