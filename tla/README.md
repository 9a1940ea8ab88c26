# aerospike-py, specified in TLA+

aerospike-py is a Python client for the Aerospike database: a PyO3 extension
module (`src/rust/src/`) around the Rust crate `aerospike_core`, and a thin
Python package (`src/src/aerospike_py/`). This directory models its two clients,
from the dicts a caller passes to the requests the core crate is given, the
parts that keep state over several steps, and the translations in between. TLC
checks the models on small instances; TLAPS proves their safety properties for
every instance. All paths below are relative to the
repository; `rust/src/` stands for `src/rust/src/`.

`PROJECT.json` holds the same facts for tools: the components, the runs with
their properties, a mutant per property (a plausible bug in the code that makes
TLC refute it), the source lines of each definition, findings and hazards.

## Contents

1. [The system](#1-the-system)
2. [The modules](#2-the-modules)
3. [The runs](#3-the-runs)
4. [Fairness](#4-fairness)
5. [What is proved](#5-what-is-proved)
6. [Where the code and its documentation differ](#6-where-the-code-and-its-documentation-differ)
7. [What is not modelled](#7-what-is-not-modelled)
8. [Plan](#8-plan)

## 1. The system

| Component | State it keeps | Operations | Hard part |
|---|---|---|---|
| Async client lifecycle, `async_client.rs` | `state` (AtomicU8), `inner` (ArcSwapOption of the AsClient), `limiter` | `connect`, `close`, `__aexit__`, `is_connected`, `get_client` of every operation | two kinds of concurrency: Python threads in synchronous parts (under PyO3 borrows), Tokio workers in futures (without); futures dropped at an await |
| Operations in flight, `async_client.rs`, `panic_safety.rs` | a clone of the AsClient and of the limiter per call | every data operation | old sessions' operations overlap a close and a reconnect |
| Sync client, `client.rs` | `state`, `inner`, `limiter` as plain fields | the same, blocking | a borrow held across blocking calls; other threads, and callbacks, meanwhile |
| Backpressure, `backpressure.rs` | a Tokio semaphore, the configured limit and deadline | `acquire_named`, drop of the permit | hand-over of a permit racing a deadline or a cancellation |
| `batch_write(retry=N)`, `client_ops.rs` | results so far, records still failing, attempt and clock | the retry loop and its merge | lost and partial responses, other writers, the time budget |
| Batch results, `batch_types.rs` | raw records, a cached dict behind a mutex | `to_dict`, `to_list`, mapping protocol, counts, `release_cache` | a cache shared by threads, a panic that poisons it, objects shared with callers, duplicate keys |
| Query and scan, `query.rs` | a clone of the AsClient, a bounded stream of records | `results`, `foreach` | callbacks that call back into the client; a stream that fails half way |
| Locks against the GIL: `runtime.rs`, `tracing.rs`, `batch_types.rs`, `logging.rs` | `RUNTIME` (LazyLock), `TRACER_PROVIDER` (Mutex), `OTEL_ACTIVE`, one mutex per BatchRecord | first use of the runtime, `init_tracing`, `shutdown_tracing`, `BatchRecord.record`, every log line | lock order between a Rust lock and the GIL |
| Conversions and policies, `types/`, `policy/` | none | values, keys, bins, policies and meta both ways | ends of integer ranges, nesting, one conversion written twice |
| Operations and expressions, `operations.rs`, `expressions.rs` | none | op dicts and expression trees parsed | some hundred op codes, each with its own fields |
| Argument preparation, `client_common.rs`, `client_ops.rs` | none | `prepare_*_args`, `do_*` | which meta, policy and filter applies to which record |
| NumPy, `numpy_support.rs` | the bytes of a structured array | `to_numpy`, `batch_write_numpy` | raw pointers, strides, a format per dtype |
| Errors, `errors.rs`, `panic_safety.rs` | none | core error to exception, result code and label | every variant must have the right class |
| Metrics and profiling, `metrics.rs`, `_observability.py` | counters, a flag, an HTTP server thread | profiling scopes, server start/stop | overlapping scopes, restart on another port |

How they meet. A Python call enters a `#[pymethods]` function, which holds a
PyO3 borrow of the client object. It parses its arguments (`prepare_*_args`),
which go through the policies, operations, expressions and conversions. The
async client clones `inner` and `limiter`, and returns a future that takes a
permit, calls a `do_*` function of `client_ops.rs`, and converts the answer. The
sync client runs the same `do_*` functions in `RUNTIME.block_on` with the GIL
released, and keeps its borrow meanwhile. Rust log lines go to Python's `logging`
and so need the GIL.

What makes each of them correct:

* *lifecycles*: one transition at a time; CONNECTED means usable; no state is
  without somebody who will leave it; pools do not pile up over reconnects;
* *operations*: an operation is limited by the limiter of the session it runs
  on; a pool never runs more permit holders than its own limit;
* *limiter*: permits are conserved on every way an operation can end, no slot
  idles while somebody waits, first come first served, everybody is served;
* *retry loop*: a result belongs to the record at its position, final answers
  are not re-sent, the call raises only if it knows nothing, the statistics and
  the time bound hold, a generation guard is honoured by every attempt;
* *batch results*: every view shows the same records, the cache is whole or
  absent, and what callers write into their copies does not come back;
* *queries*: a callback may use the client, and no record is lost in silence;
* *the pipeline of a call*: both clients send the same and end the same; a
  generation, a filter or a key that the caller gave reaches the server; what is
  written reads back; no panic gets past the net;
* *NumPy*: no byte outside the row is written, none outside the array is read,
  values and keys survive;
* *locks*: no cycle of waiting threads, one conversion per record.

The hazards behind these, each at its line, are in `PROJECT.json`.

## 2. The modules

| Module | Models | Depends on |
|---|---|---|
| `ClientContract` | what a lifecycle promises: sessions one at a time, never twice | |
| `AsyncClient` | `rust/src/async_client.rs`: lifecycle and synchronous parts | `ClientContract` |
| `AsyncOps`, `MCAsyncOps` | the futures of operations on top of the lifecycle | `AsyncClient` |
| `SyncClient` | `rust/src/client.rs` shared by threads, and the queries of `rust/src/query.rs` | `ClientContract` |
| `Slots` | what backpressure promises: a bounded set of holders | |
| `OperationLimiter` | `rust/src/backpressure.rs` over a fair semaphore | `Slots` |
| `BatchWriteRetry` | `drive_batch_write_retries` and a cluster | |
| `BatchReadViews`, `MCBatchReadViews` | `rust/src/batch_types.rs`: the cache and the views of a batch result | |
| `GilLocks` | Rust locks, log lines and the GIL | |
| `NumpyBuffer`, `MCNumpyBuffer` | `rust/src/numpy_support.rs`: the array's bytes, filled and read | |
| `Values` | `rust/src/types/`: values, keys and bins | |
| `Expressions` | `rust/src/expressions.rs` | `Values` |
| `Policies` | `rust/src/policy/` | `Expressions` |
| `Operations` | `rust/src/operations.rs` | `Policies` |
| `Requests` | `prepare_*_args` of `rust/src/client_common.rs`, statements of `query.rs` | `Operations` |
| `Errors` | `rust/src/errors.rs` and the labels of `metrics.rs` | |
| `ClientCalls`, `MCClientCalls` | one call of each method on both clients | `Requests`, `Errors` |
| `AsyncClientProofs`, `OperationLimiterProofs`, `SyncClientProofs`, `BatchWriteRetryProofs`, `BatchReadViewsProofs`, `NumpyBufferProofs`, `GilLocksProofs`, `ClientCallsProofs` | theorems about the module each is named for, `AsyncClientProofs` about `AsyncOps` too | that module |

Definitions named `Mutant: ...` in a comment are not used by any specification;
each is the wrong form of the definition below it.

### AsyncClient

`state`, `inner` and `limiter` are the fields of `PyAsyncClient`. `exclusive` and
`shared` are PyO3's borrow flag: a method that takes `&mut self` (`connect`,
`close`, `__aexit__`) runs its synchronous part alone, `&self` methods exclude
only those, and a call that meets the wrong borrow raises at once
(`ConnectRefused`, `CloseRefused`, `OpRefused`). On an interpreter with a GIL a
log line inside the synchronous part lets other threads run, so the borrows do
matter there too.

Each atomic access is a step. `connect`: `ConnectClaim` is the compare_exchange;
`ConnectSpawn` builds the limiter and spawns the future, or panics in
`Semaphore::new`; `ConnectPolled` arms `ConnectStateGuard`; `ConnectStored`,
`ConnectDone` are the two stores after `AsClient::new`; `ConnectFailed` its error;
`ConnectDropped` the guard's compare_exchange when the future is dropped. The
future is always polled once before it can be dropped (the cancellation wrapper
of `pyo3-async-runtimes` polls it first), so there is no drop before
`ConnectPolled`. `close`: `CloseLoaded`/`CloseReturns`/`CloseMarked`/`CloseSwapped`
are `prepare_close` up to the spawn, `CloseDone` the future, `CloseDropped` its
drop, after which nothing runs. `__aexit__` shares all of it. An operation loads
`inner` (`OpLoaded`) and then `limiter` (`OpStarted`): two steps, because a
connect future may store in between.

An AsClient is named by the connect() that made it; every call is made once, so
"a second connect()" is a second element of `Connects`. Out of scope: whether
`AsClient::is_connected` says the nodes answer, and failures to find a running
event loop after the claim (the package's methods are `async def`, so there is
one).

### AsyncOps

`flight[o]` follows the future of operation `o` after `OpStarted`. `HasPermit`
counts the holders of the very limiter `o` cloned, which need not be the current
one. Operations outside `Limited` stand for `query`, `apply`, `info_all`,
`truncate`, UDF, index and admin methods, whose futures never call
`acquire_named`. The queue behind the semaphore is left to `OperationLimiter`.

### SyncClient

A method runs on its caller's thread, and other threads get to run only where it
detaches from the interpreter (`py.detach`), so a step goes from one detach to
the next. The client's fields are plain; PyO3's borrow of the client protects
them: `Exclusive` are the callers in `connect` and `close`, `Shared` those in
operations. A borrow is never waited for. A call that cannot have it raises, as
does one in the wrong state; `Refused` is any such call, which leaves everything
as it was.

A caller is a thread's own code or a callback that runs on that thread. `connect`
is `ConnectBegins` up to the detach, then `ConnectSucceeds`, `ConnectFails`, or
`ConnectPanics`: here `inner` is stored before the limiter is built, so a panic of
`Semaphore::new` leaves CONNECTING with `inner` set. `close` takes `inner`, shuts it
in the detach and resets the client whatever came of it. An operation waits for
its permit (`OpBegins`, `OpAcquires` or `OpTimesOut`), runs and ends.

A query keeps the AsClient it was made from and borrows only the Query object.
The core's nodes fill a queue of `QueueSize` records (`NodeSends`) until they are
done or one fails (`StreamCloses`); `foreach` takes them one by one and calls back
between two detaches, `results` collects them. Queries made *by* callbacks are
left out: a callback makes the client's other calls.

### BatchReadViews

One handle of a response and the threads that hold it. `cache` names one of
`dicts`, 0 for none; `owner` and `poisoned` are its mutex. A reader is served
from the cache (`ReadCached`), builds it (`ReadBuilds`, then `Built`, `BuildFailed`
or `BuildPanicked`), or is refused by the poison (`ReadRefused`). The builder may
lose the interpreter while it converts, so another thread can call meanwhile.
`to_dict` hands out a copy; the mapping methods answer from the cache itself;
lists and merged dicts are made afresh. `release_cache` drops the dict in one
step and clears the poison in the next, as the code does.

A bins object is the position of its record and the materialisation it was made
by. That is enough to say which objects are shared: `to_dict()` copies the dict but
not the bins in it, so a caller who writes to them (`CallerWritesBins`) writes to
the cache's. The pure views (`ListOf`, `NumpyRows`, `UserKeys`, `HandleLen`,
`FoundCount`, ...) are operators over the records. The key map of
`NumpyBatchRecords` has a string made from the position for a record without a
user key; it may be a user key of another record (`NoUserKey`). `ViewsAgree`
says exactly when the views differ, also where the documentation says that they
do not (section 6).

### OperationLimiter

Tokio's semaphore is external and is modelled from what `acquire_named` relies
on: fair, and a released permit is assigned to the head of the queue before that
waiter is polled (`handed`). A waiter stops in two steps, `DeadlinePassed` or
`CancelNoticed` (a poll found the acquire pending) and then `AcquireDropped`; a
permit may arrive in between and is passed on. `Ended` covers return, error,
caught panic and cancellation of a running operation: `_permit` is dropped on
each. `SlotsSpec` maps `holding` to everybody who owns a permit, polled or not.

### BatchWriteRetry

The loop is `Send`, `Respond` or `TransportError`, then `Truncate` or `Sleep`,
until `Return`. `Respond` includes the merge, the collection of retryable
records and the decision to take another turn, as in the loop body. The fast
path `retry=0` is the same loop with no turns left (its statistics are the
constant `SINGLE_ATTEMPT`, so `StatsAreTruthful` speaks of `retry > 0`).

The cluster answers record by record: a put is applied and answered `Ok` or
timed out (`Applied`), or not applied (`NotApplied`). Another client may write at
any step (`OtherWriter`). A response may be lost after any part of it was
applied. A first response is complete; a retry's may be short, as the code
allows for. A put that is answered with a timeout has been applied by then or
never is. `Busy` stands for the four retryable codes that mean "not done",
`Rejected` for permanent ones. `written` and `told` are history variables.

Time is counted in the units of `BackoffBase` (10 ms in the code) and stands
still when there is no `total_timeout`, since nothing reads it then. That one
batch call lasts at most `total_timeout` is a premise about `aerospike_core`,
which is given that policy; `WithinOneMoreWindow` rests on it.

### GilLocks

Threads make one call each. In native code a thread holds the GIL (`gil`);
running Python code it may be switched out at any bytecode, so there it holds it
for no longer than the step that leaves Python (labels of `InPython`). A log line
is Python code. `LazyLock`, `Mutex` and the cell's mutex are taken *without*
releasing the GIL, as in the source. With `build = "free-threaded"` the GIL
guards are vacuous (`lib.rs` declares `gil_used = false`). `init_tracing` returns
early under the OTEL kill-switch variables; that path touches no lock and is
left out, as are the metrics mutexes, under which nothing logs.

### NumpyBuffer

A buffer is the sequence of its bytes. The pointer arithmetic is in the model:
base address, row stride, field offset, element size. A byte of a number is
opaque but remembers the number, kind and size it encodes, so that reading with
another kind, size or address gives something else; a byte of a string is itself.
Integers are checked against the range of their width, with `ByteBits` bits per
byte. Floats count halves and are rounded to the significand of their size.
`FillRow` is one record of `batch_to_numpy_py`, `TakeView` what a user may do to
the array before writing it back (slices, reversal, repetition), `ReadRow` one row
of `numpy_to_records`.

The dtype that describes the array (`layout`) and the `_dtype` argument that
`batch_write_numpy` reads it by (`dtype`) are two variables, since the code never
compares them. `RowStride` is `get_array_row_stride`: the array's own stride if it
is not contiguous, else the itemsize of `_dtype`. What lies around the array is
some byte of `Strays`, or nothing, and the process dies ("crashed"); the same goes
for a write past the end (`Spills`). `Reach` is how many bytes are accessed at a
field's offset: its itemsize, which is what `FieldAccepted` checks, except for a
sub-array of length zero (`NoElements`), which is accessed at the size of its
element. A namespace or a set is decoded with U+FFFD for each byte of `NotUtf8`.

### The call pipeline: Values, Expressions, Policies, Operations, Requests, Errors

Operators. A Python object is `<<type, payload>>`, a core value is
`<<variant, payload>>`, and a conversion gives `Done(result)` or `Failed(class)`;
`Then` is Rust's `?`. Widths are kept but small: an i64 has `IntBits` bits, i32 and
u32 half, u8 a quarter; so are the limits on depth and on names. The order in
which fields are read is kept wherever it decides which error is raised.

Three conversions call themselves: `py_to_value`, `value_to_py` and
`py_to_expression`. Each is a constant operator (`ToValueAt`, `FromValue`,
`ExpressionAt`) whose recursion equation is an assumption: `ConversionsAssumption`
says that `ToValueAt(obj, depth)` is `PyToValueInner(obj, depth)`, the function's
body, in which the nested calls are `ToValueAt` again. The bodies
(`PyToValueBody`, ...) take their nested call as a parameter, so that
`MCClientCalls` can define the conversions by recursion; TLC then evaluates the
assumptions on every object of the run. Nothing else about the conversions is
assumed but what the languages guarantee (`UniverseAssumption`: a list holds
objects, a dict's keys are hashable, an int holds an integer). An object of
`Objects` is one a call's arguments hold or contain, or one read back.

Two tables replace the code's long matches. `Operations!Steps` lists, for each op
code, what it reads after its bin and value; `Expressions` groups the ops by the
shape of their arguments. A policy is a function of the attributes the parser
set: what is missing has the core's default. `Requests` has one operator per
`prepare_*_args` function, whose result is the verb, the batch policy and, per
record, a key, a policy and a body. `Errors` maps each core error to its exception
class, its result code and its metric label.

### ClientCalls

One call, made on both clients with the same arguments, the same admission and
the same answer of the cluster. The methods are written out one by one in
`client.rs` and in `async_client.rs`; two tables list the stages of each: `client`,
`prepare`, `key`, `permit`, `ask` (inside the panic net) or `ask_bare`, `task`. Each
stage is an action, may end the call, and leaves a metric sample where the code
does. `Return` converts the answer. `CallsAssumption` says what a call is made of:
a method, the arguments it takes, of the types its signature has. The retry loop and the views of a batch
result are opaque here; they have modules of their own.

## 3. The runs

| Run | Instance | Shows |
|---|---|---|
| `async_client` | 3 connect, 2 close, 1 operation, limits {0,1} | `ConnectingHasOwner`, `OneOpenClient`, `PairedLimiter`, `ContractSpec`, `ConnectingResolves`, `ClosingResolves` |
| `async_ops` | 2 connect, 1 close, 3 limited and 1 unlimited operation, limits {0,2,3}, with deadlines | `PoolProtected` across a reconnect |
| `operation_limiter` | 4 operations, limits {0,1,2}, with and without a deadline | `PermitsConserved`, `NoIdleSlot`, `FirstComeFirstServed`, `SlotsSpec`, `EveryWaiterServed` |
| `sync_client` | 2 threads, each with own code and a callback, 2 sessions, 1 record, queue of 1, limits {0,1,9} | `CallsKeepTheirSession`, `BorrowedByOthersOnly`, `NoSilentTruncation`, `ContractSpec`, `EveryCallReturns`, no deadlock |
| `client_calls` | about 3000 calls, three core errors (a missing record, a batch error, a timeout), both clients | `SameOutcomeOnBothClients`, `NoPanicEscapes`, `MetaGenerationIsChecked`, `BatchOperateIsEncodable`, `FilterIsSent`, `SameKeySameRecord`, `WhatIsSentReadsBack` |
| `batch_write` | 2 records, retry {0,1,2}, timeout {none, 3}, call durations {0,1,3}, backoff up to 2 | `ResultsAreTheirOwn`, `OnlyFailingResent`, `RaisesOnlyUnanswered`, `StatsAreTruthful`, `WithinOneMoreWindow`, `GuardedNeverOverwrites`, no deadlock |
| `batch_views` | 2 keys, one of which is the string made for a digest-only second record, up to 2 records, 2 threads, 3 dicts, 2 materialisations | `CacheMatchesRecords`, `ViewsAgree`, `FreshResultsAreClean` |
| `numpy_buffer` | dtypes of one to four fields, written with `_dtype` the same, narrower or wider, batches of a record, a missing one and a record, five views, bytes of 2 bits | `RoundTrip`, `ReadsStayInBuffer`, `KeysStayDistinct`, `WritesStayInTheirRow` |
| `gil_locks` | 2 init_tracing, 1 shutdown_tracing, 1 sync call, 2 readers, both interpreters | `ActiveHasProvider`, `OneConversion`, `FreeThreadedCallsReturn` |

Why the bounds are enough. Three connects and two closes give connect, close,
reconnect, close, reconnect with a rival at each point; a transition only ever
meets one other, and the proofs lift the safety results to any number. Three
limited operations against a limit of two make one wait while two hold permits
of an old or a new session; two sessions are what a mix-up takes. `async_ops`
sets `Limits = {0,2,3}` with `MaxPermits = 2`, so that the disabled, the
enabled and the rejected limiter occur; so does `sync_client` with `{0,1,9}` and
`MaxPermits = 5`. Four operations with one or two permits give a holder, a waiter
that gives up, and two whose order can be told apart.

In `sync_client` the second thread is the rival, and a callback of the first runs
while the second closes or reconnects. One record and a queue of one give a
full queue, a failure before and after it, and a callback; two sessions give a
query on a session that is closed.

`client_calls` varies every argument of every method over the values listed for
it while the others stay plain, and those the code relates (meta and policy, keys
and records of a batch) together; the arguments of one method that never meet in
the code are not crossed. Integers of 8 bits have both sides of their edges among
the values: -129, -128, 127, 200, 255 and 256. Three core errors are enough for
the control of a call, which asks only whether a record is missing; the tables of
`Errors` are the same for both clients.

Two records and three attempts of `batch_write` give a partial re-send after a
partial re-send with positions that differ (record 2 is the first of its batch);
a call may use up the whole timeout or none of it. In `batch_views` two records
are what a repeated key takes, three dicts a cache that is released and rebuilt
while a copy is out. The dtypes of `numpy_buffer` hold every kind, a sub-array at
the end of the row, padding, overlapping fields, sub-arrays of length zero over
the next field, the next row and its key, a float key, and the dtypes that must be
refused; an array of rows of 8 bytes is written with a `_dtype` of 5, 8, 10 and
16. Each lock of `GilLocks` is contended by at least two threads, and the
two locks taken on one path (`RUNTIME`, then `TRACER_PROVIDER`) by three.

Runs in which each call happens once, or in which a bound ends the run, end when
all is over, so deadlock is not an error there. `sync_client` never stops (a
refused call is a step), and `batch_write` marks its end (`Over`): both are checked
for deadlock, and `EveryCallReturns` says the rest for the former. The waits of
`GilLocks` are checked by liveness instead.

Violation runs (section 6): `close_cancelled`, `batch_in_doubt`,
`tracing_deadlock`.

## 4. Fairness

* `AsyncClient!Fairness`: a Python thread finishes the synchronous part it
  began; Tokio keeps polling a spawned future; `AsClient::new` and
  `AsClient::close` either return or the future is dropped. The disjunction is
  under one WF, so nothing says which of the ends is taken. No call is ever
  assumed to start.
* `OperationLimiter!Fairness`: a woken future is polled (`Granted`), an abandoned
  one is dropped, a running operation ends in one of its ways: its policy's
  timeout, its socket, or cancellation. Deadlines and cancellations are not
  fair: `EveryWaiterServed` must not depend on them.
* `SyncClient!Fairness`: `Answered`, weakly: the network answers (the policy's
  `total_timeout` ends the wait at the latest) and a stream goes on or closes.
  `OpAcquires`, strongly: the semaphore is fair, which is what
  `EveryWaiterServed` shows of the limiter; the queue itself is not in this
  module. `CallbackContinues`/`CallbackEnds`, strongly: a callback may call the
  client any number of times, but not for ever. Timeouts of the queue are not
  fair, and no call is assumed to start.
* `GilLocks!FairSpec`: weak fairness per thread. Each thread makes one call of
  finitely many steps, so a lock cannot be taken from a waiting thread for ever.
* The other modules have no liveness property. The loop of `BatchWriteRetry` is
  bounded by its type invariant (at most `retries + 1` attempts) and by the
  deadlock check; a `ClientCalls` or `NumpyBuffer` run is a finite sequence of
  stages; a wait for the mutex of `BatchReadViews` with the GIL in hand is the
  question `GilLocks` asks of the record cell, which has the same shape.

## 5. What is proved

`AsyncClientProofs`, from `AsyncClientAssumption` alone (names are distinct,
limits are natural numbers), for any sets of calls:

| Theorem | Statement |
|---|---|
| `TypeCorrect` | `Spec => []TypeOK` |
| `Invariance` | `Spec => []IInv` |
| `TransitionsExclude` | `Spec => []OneTransition` |
| `ConnectedIsUsable` | `Spec => []ConnectedHasClient` |
| `PoolsDoNotPileUp` | `Spec => []OneOpenClient` |
| `PairingHolds` | `Spec => []PairedLimiter` |
| `ConnectingIsOwned` | `Spec => []ConnectingHasOwner`, if every configured limit is at most `MaxPermits` |
| `ImplementsContract` | `Spec => ContractSpec` |

None of the safety properties is inductive. That two transitions exclude each
other, say, does not follow from itself: `CloseMarked` does not look at the state
again, it acts on what `CloseLoaded` saw. It is right because the `&mut` borrow
is still held, and because only a connect future can store without a borrow,
which needs CONNECTING. The strengthening says who may write what, when:

* `Borrows`: the phase of a call determines the borrow it holds;
* `Ownership`: a live connect() or close() owns the state, alone, and what a
  close() loaded as CONNECTED still is CONNECTED when it acts;
* `Session`: what `inner` and `limiter` are in each state, and that an operation
  between its two loads still sees the session it cloned;
* `Open`: which AsClients can be open in each state. This is what a dropped
  close() keeps true by *not* storing DISCONNECTED.

`IInv == TypeOK /\ Borrows /\ Ownership /\ Session /\ Open` was model-checked on
the instance of `async_client` before it was proved. Each lemma treats one kind
of step. `ImplementsContract` adds that `Pending`, a CHOOSE, is the owner of
CONNECTING, which `Ownership` makes unique.

The assumption of `ConnectingIsOwned` is needed: an oversized limit strands the
client in CONNECTING (section 6).

`OperationLimiterProofs`, from `LimiterAssumption` (finitely many operations,
limits and timeouts natural numbers):

| Theorem | Statement |
|---|---|
| `TypeCorrect` | `Spec => []TypeOK` |
| `PermitsAreConserved` | `Spec => []PermitsConserved` |
| `SlotsDoNotIdle` | `Spec => []NoIdleSlot` |
| `DeadlineMeansFull` | `Spec => BackpressureOnlyWhenFull` |
| `PermitsGoInOrder` | `Spec => FirstComeFirstServed` |
| `ImplementsSlots` | `Spec => SlotsSpec` |

Here `IInv == TypeOK /\ QueueOnce /\ NoIdleSlot /\ PermitsConserved`. Conservation
alone is not inductive: a permit handed to somebody who is queued twice, or who
holds one already, would be counted once. `QueueOnce` excludes that; leaving the
queue from the middle keeps it (lemmas `Cut` and `Left`, about sequences). One
lemma, `Returned`, serves all the ways a permit comes back.

Of `AsyncOps`, in the same module, from the assumptions of `AsyncClient` and
`AsyncOpsAssumption` (finitely many operations): `PoolIsProtected`, `OpsSpec => []PoolProtected`. The
limiter bounds the holders of one limiter (`PermitsBounded`); the property speaks
of the operations on one AsClient. The bridge is `OneLimiter`: operations on one
AsClient cloned the same limiter, because a session's limiter is built before
its first operation and `PairedLimiter` ties what an operation cloned to it.

`SyncClientProofs`, from `SyncClientAssumption` (the bounds are natural numbers),
for any set of threads:

| Theorem | Statement |
|---|---|
| `TypeCorrect` | `Spec => []TypeOK` |
| `Invariance` | `Spec => []IInv` |
| `SessionsAreKept` | `Spec => []CallsKeepTheirSession` |
| `NothingIsLostInSilence` | `Spec => []NoSilentTruncation` |
| `OnlyOthersBorrow` | `Spec => []BorrowedByOthersOnly` |
| `ImplementsContract` | `Spec => ContractSpec` |

The borrow is what carries these. `Alone` says that a `connect` or `close` under way
shares the client with nobody, `Owned` that the state is the one that transition
set: so nothing moves `inner` or `limiter` while an operation runs, and
`CallsKeepTheirSession` is inductive with them. `EndedComplete` (a stream ends by
itself only after its last record) gives `NoSilentTruncation`. `Nested` (a callback
is busy only inside its thread's `foreach`) gives `BorrowedByOthersOnly`: inside
`foreach` the thread holds no borrow of the client, whatever else it does.

`BatchWriteRetryProofs`, from `BatchAssumption`, for any batch, number of retries
and budget:

| Theorem | Statement |
|---|---|
| `TypeCorrect` | `Spec => []TypeOK` |
| `Invariance` | `Spec => []IInv` |
| `ResultsAreNeverMixedUp` | `Spec => []ResultsAreTheirOwn` |
| `SuccessIsNeverRepeated` | `Spec => []OnlyFailingResent` |
| `StatsTellTheTruth` | `Spec => []StatsAreTruthful` |
| `ErrorsHideNoResults` | `Spec => []RaisesOnlyUnanswered` |
| `TimeIsBounded` | `Spec => []WithinOneMoreWindow` |
| `GuardsHold` | `Spec => GuardedNeverOverwrites` |

`OnTheWire` is the heart: what is in flight are the records of `retry`, in its
order, or the whole batch before the first answer; so merging a response by
position puts each answer where its record came from (`ResultsAreTold`).
`RetryIsWhatFails` says which records `retry` names, and needs to know what
`CollectRetryable` makes of the results: its pass over them is a recursive
function, and the proof is an induction over the length of the pass (each
position appears in its output exactly if it is retryable, and in order).
`LoopCounts` and `SomethingToReturn` tie the statistics to the attempts made.
`InBudget` separates the clock at the start of an attempt from the clock at its
end: an attempt starts inside the budget, and therefore ends inside twice the
budget.

`BatchReadViewsProofs`, from `ViewsAssumption`, for any batch and any threads:

| Theorem | Statement |
|---|---|
| `TypeCorrect` | `Spec => []TypeOK` |
| `Invariance` | `Spec => []IInv` |
| `CacheIsTrue` | `Spec => []CacheMatchesRecords` |
| `ViewsAlwaysAgree` | `Spec => []ViewsAgree` |
| `FreshResultsStayClean` | `Spec => FreshResultsAreClean` |

`CacheMatchesRecords` is not inductive, because `CallerAddsKey` changes a dict;
`HandedOut` (the dict a caller was given is never the cached one) makes it so.
`ViewsAgree` compares views that are built in different ways: `DictOf` inserts the
records one by one, `KeyMap` keeps positions, the lists and counts take every
record. Both are recursive functions over the records; `DictIsOfLast` and
`MapIsOfLast` show by induction that each key ends with the last record that has
it (the last found one in the dict), and the views are compared through that.
Where they differ the theorem has the exact condition: `len(handle)` is the size
of the dict if and only if no found key repeats, and the key map has the dict's
row for a key if and only if no later record, found or not, takes the key.

`NumpyBufferProofs`, from `NumpyAssumption`, for any dtypes, batches, views and
byte width:

| Theorem | Statement |
|---|---|
| `Invariance` | `Spec => []IInv` |
| `WhatIsWrittenIsRead` | `Spec => []RoundTrip` |
| `ReadsAreInBounds` | `Spec => []ReadsStayInBuffer` |
| `KeysAreNotMerged` | `Spec => []KeysStayDistinct` |
| `WritesAreInBounds` | `Spec => WritesStayInTheirRow` |

`NumpyAssumption` gives the constants their types and says that the fields of a
dtype have different names. That a field fits its row is not assumed, it is what
`FieldAccepted` checks, and that a field is no smaller than its element is not
assumed either. `RoundTrip` and `KeysStayDistinct` carry the conditions under
which they hold: the rows of `_dtype` are where the view has them (`SameRows`), no
zero-length sub-array of the array's dtype reaches out of its row (`Inside`), and
the field is in both dtypes and shares no byte (`Apart`; of overlaid fields the
last one written wins). `ReadsStayInBuffer` needs `_dtype` to be no larger than
the array's. TLC finds a counterexample when one of them is dropped. The argument
has three parts.
*Addresses*: what a field reaches lies in its row (`FieldInRow`), rows do not meet
(`RowsDoNotMeet`), so a write to one field leaves every field alone that shares no
byte with it (`PutInField`), and row j of a view is a row of the batch
(`RowIsSource`). *Cells*: decoding what was encoded gives the value back for each
kind and size, up to rounding and trimming (`DecodeEncode`, `ReadIsExpected`), and
trimming is injective on cells of one length (`TrimmedIsInjective`). *History*:
`CellsHold` says that every row filled so far holds what its record asked for,
`RecordsAre` that what has been read back is what those rows hold.

`GilLocksProofs`, from `GilLocksAssumption` (the roles of threads are disjoint), for
any number of threads: `Invariance`; `FlagHasProvider`,
`Spec => []ActiveHasProvider`; `ReadersShareOneObject`, `Spec => []OneConversion`.
`Installed` shows why the first holds under the GIL only: a `shutdown_tracing` that
waits for the mutex keeps the GIL, so no `init_tracing` can set the flag it has
just cleared. `CellFilledOnce` ties every answer to the cell.

`ClientCallsProofs`, for any objects, nesting limits and widths, any calls, error
answers and stored values:

| Theorem | Statement |
|---|---|
| `Invariance` | `Spec => []IInv` |
| `SameOutcome` | `Spec => []SameOutcomeOnBothClients` |
| `NoPanicReachesPython` | `Spec => []NoPanicEscapes` |
| `GenerationAlwaysChecked` | `Spec => []MetaGenerationIsChecked` |
| `BatchOperateEncodable` | `Spec => []BatchOperateIsEncodable` |
| `FilterAlwaysSent` | `Spec => []FilterIsSent` |
| `SameKeyAlways` | `Spec => []SameKeySameRecord` |
| `EverythingReadsBack` | `Spec => []WhatIsSentReadsBack` |

The assumptions are `ValuesAssumption` and `HalfRangeAssumption` (limits and the
width of an i64 are natural numbers, not 0 where that matters),
`ConversionsAssumption`, `UniverseAssumption`, `ExpressionsAssumption`,
`CallsAssumption` and `StoredAssumption` (the recursion of `AsStored`, the equality
in which `WhatIsSentReadsBack` is stated). TLC evaluates all of them on the run.

The two clients run at their own pace, so that they end alike is not inductive.
`IInv` says why they do. The tables of both files send a method through one
course of stages (`SyncCourse`, `AsyncCourse`); how a stage ends depends only on
what the clients share, the call, the admission and the answers (`Halt`); a
client has passed only stages that let it (`OnItsWay`), holds what they left
(`Holds`), and if it has ended, ended as its stage or the answer has it
(`EndsRight`). Two clients that have ended have stopped at the same stage, the
first that halts. `StandsStill` is the step that needs care: one client's move
must not change what the other one's stages decided, which is why an answer and
an admission are kept once given.

A request that was sent is what `Prepare` makes of the call (`SentIsPrepared`), so
the properties of requests are facts about the parsers. They rest on three
lemmas about the operators of `Values` and `Policies`: a collected list holds the
results of its items or fails as one of them (`CollectedAll`, `CollectedFails`), a
policy field that was given is set and stays set (`FieldsParsed`,
`FieldsKeepCheck`), a sequence of (key, value) pairs makes a mapping in which the
last pair of a key wins (`LastWins`).

`EverythingReadsBack` is an induction over the depth of nesting, from the greatest
depth, where every conversion fails, upwards (`FromTheDeepest`). It is one about
numbers, not about data, which is what lets TLAPS do it: the depth limit of
`py_to_value` bounds it. `GoesRound` says of an object that if it converts, it
converts back to something equal. The hard case is the dict: two keys of Python
may become one key of the server (integers modulo 2^64, a bytearray and the
bytes in it), and `value_to_py` goes through the map in an order of its own.
`KeysListed` and `MapsCorrespond` show that the mapping survives both.

`NoPanicReachesPython` goes through every parser (`Clean`: its result is a value or
an exception, never a panic), among them all op codes (`StepsKnown` shows that
the tables name only steps `Read` knows) and the predicates of a query: what
`parse_predicate` lets through satisfies the assertion in `Filter::equal`, which
runs outside of the panic net. The rest is that a method outside the net has no
record decoded (`PanicsDecode`, an invariant of its own). For the rows of
`batch_write_numpy` it rests on `CallsAssumption`: `numpy_to_records` returns
records or raises.

Every `IInv` was also model-checked on the instance of its run.

Only model-checked is liveness (`ConnectingResolves`, `ClosingResolves`,
`EveryWaiterServed`, `EveryCallReturns`, `FreeThreadedCallsReturn`), since TLAPS does
not reason about ENABLED and weak fairness; and, for the same reason, that
`sync_client` and `batch_write` do not deadlock.

## 6. Where the code and its documentation differ

Three runs end with a counterexample; the quoted sentences are in `PROJECT.json`.

* `close_cancelled` (bug). `close()` stores DISCONNECTED after its await, with no
  guard. Drop the future there, as `asyncio.wait_for` does, and the client stays
  in CLOSING: connect() refuses, close() is a no-op. A guard that simply stores
  DISCONNECTED would not do: it lets a reconnect open a second pool while the
  first is not shut (`OneOpenClient`, see `CloseDroppedReopens`), so the fix has
  to decide about the old AsClient too.
* `batch_in_doubt`. A retry's result replaces the `in_doubt` of the attempt
  before, which may have been applied.
* `tracing_deadlock`. `init_tracing` and `shutdown_tracing` log while they hold
  the mutex, and the other call waits for the mutex with the GIL.

Five more are findings of `PROJECT.json` that a passing run shows. The property
holds of the code with the difference written out in it, and would be violated
in the form the documentation or the comment has:

* `batch_views`, `ViewsAgree`. `len(handle)` counts the found records, the dict has
  an entry per key: with a key that repeats, `len(handle)` is larger than
  `len(handle.to_dict())`. `docs/docs/api/types.md:105` and
  `rust/src/batch_types.rs:309` say that they match.
* `numpy_buffer`, `ReadsStayInBuffer` (bug). `_dtype` is not compared with the
  array's dtype, and a contiguous array takes its stride from `_dtype`
  (`rust/src/numpy_support.rs:990`): a `_dtype` with larger rows reads past the
  end of the array. The SAFETY comments rest on `parse_dtype_fields`, which has
  seen `_dtype` alone.
* `numpy_buffer`, `WritesStayInTheirRow` (bug). A sub-array of length zero has
  itemsize 0, passes the bounds check and is written at the size of its element
  (`rust/src/numpy_support.rs:244`): over the next field, the next row, or past
  the end.
* `numpy_buffer`, `RoundTrip`. Integers that do not fit raise;
  `docs/docs/guides/crud/numpy-batch.md:144-145` says "truncated to target size"
  and "cast to unsigned".
* `numpy_buffer`, `RoundTrip`. A custom key field is never a bin;
  `docs/docs/guides/crud/numpy-batch-write.md:179` says that it is one if its name
  does not start with `_`.

Also met while modelling, and without a run of their own:

* The limiter is built between the claim of CONNECTING and the future that owns
  the guard (`rust/src/async_client.rs:189`). `Semaphore::new` panics above
  Tokio's limit and the configuration is not bounded: CONNECTING for ever
  (`ConnectSpawn`). The synchronous client does the same after it has stored
  `inner` (`ConnectPanics`).
* `max_concurrent_operations` is documented as a cap on the operations dispatched
  to the Rust client; `query`, `apply`, info and admin calls take no permit
  (operations outside `Limited`; methods without a `permit` stage).
* "Re-driving is safe because every operation is a pure put" holds only without
  another writer between the two attempts. `GuardedNeverOverwrites` shows that
  a generation guard is enough.
* "Under the GIL the mutex is effectively uncontended" (the record cell of
  `batch_types.rs`): the conversion logs inside it, so it can be contended, and
  the second reader then holds the GIL the first one needs. `gil_locks` claims
  `FreeThreadedCallsReturn` only, for that reason.
* `NumpyBatchRecords` finds a record without a user key under
  `__no_user_key_{i}__` (`rust/src/numpy_support.rs:829`). A user key spelled so is
  hidden by it (`hiding` in `ViewsAgree`).
* A namespace or set field that is not UTF-8 is decoded with U+FFFD
  (`rust/src/numpy_support.rs:1127`), so two different fields may name one set
  (`Text`).
* `LazyBatchRecords.to_dict()` returns `cached.copy()`
  (`rust/src/batch_types.rs:436`), a shallow copy: what a caller writes into the
  bins of one result shows in the next. `FreshResultsAreClean` says for which
  results it does not.

## 7. What is not modelled

* `aerospike_core`, Tokio, PyO3 and CPython are external: only what the code
  relies on is modelled (the semaphore's fairness, the borrow flag, the GIL, the
  bounded record queue, what a batch request may encode).
* Python helper modules (`exp.py`, `list_operations.py`, ...) only fill in dicts;
  the dicts are the inputs of `MCClientCalls`.
* Host lists, record metadata (ttl and generation of an answer), the construction
  of partition filters, and the client's own configuration but for its limits:
  flat data, nothing is related to anything.
* Messages, bug reports and module setup (`lib.rs`, constants, named tuples).
* The metrics registry and the stage timers are independent counters. The
  profiling scopes and the HTTP server of `_observability.py` are beside the
  client; see the plan.
* The async cancellation of a batch_write in the middle of its loop: its
  future is covered as an operation of `AsyncOps`, the loop's local state is
  simply gone.
* Queries made from a callback (`SyncClient` has the client's other calls).
* Whether an address in `extract_str_memo` is reused by another string: object
  identity of CPython.
* `NumpyBuffer`: arrays that are not one-dimensional (refused), characters of more
  than one byte in a namespace or set, the tie rule of float16 rounding, and the
  meta array and result codes beside the data array.
* In `MetaGenerationIsChecked`: a policy's own `gen`, which by design overrides
  a meta's in single-record calls, and `batch_apply`, whose UDF policies have no
  generation.

## 8. Plan

Done, in this order: the async lifecycle with its contract and proofs, the
operations on top of it and the limiter with theirs, the retry loop, the locks;
the synchronous client with queries, the views of a batch result, the call
pipeline on both clients, NumPy; the proofs of the last four stateful modules;
the remaining invariants of the retry loop, the views and NumPy; the call
pipeline, whose conversions became parameters with recursion equations for it.
Every safety property of a passing run is a theorem. Left, by weight:

1. `Observability`: overlapping profiling scopes, and start, restart and stop of
   the metrics server with failures (the two hazards without a property that
   are not covered by section 6).
2. Host lists and partition filters in `Values` and `Policies`.
3. Queries made from callbacks, which take a second stream per thread.
4. An abstract specification of a call (one answer, one outcome) that
   `ClientCalls` implements, and one of `batch_write` as a single write.
