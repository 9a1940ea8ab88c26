---------------------------- MODULE ClientCalls ----------------------------
(***************************************************************************)
(* One call of a method, made of the synchronous Client (client.rs) and of *)
(* AsyncClient (async_client.rs) alike: same arguments, same cluster, same *)
(* answers.  The two files write every method out separately; the tables   *)
(* below say which stages each goes through, in its order:                 *)
(*                                                                         *)
(*   client    get_client: the client must be connected                    *)
(*   prepare   the prepare_*_args function of client_common.rs (Requests)  *)
(*   key       the request's key is made into a Python tuple               *)
(*   permit    limiter.acquire_named (OperationLimiter, AsyncOps)          *)
(*   ask       the do_* function of client_ops.rs, in the panic net        *)
(*   ask_bare  the same, outside of it                                     *)
(*   task      wait_till_complete on the task the server started           *)
(*                                                                         *)
(* and then converts the answer.  The retry loop of batch_write is one ask *)
(* here (BatchWriteRetry has it), the records of a batch are opaque        *)
(* (BatchReadViews has them).                                              *)
(***************************************************************************)
EXTENDS Requests, Errors

CONSTANTS
  Calls,       \* the calls made, records as in Requests
  CoreErrors,  \* what aerospike-core may answer: records [variant, rc]
  Stored,      \* values a bin or a UDF's result may have
  AsStored(_)  \* what an object is to the converters

VARIABLES
  call, connected,       \* the call, and whether the clients are connected
  admission,             \* what the limiters say: undecided, granted, rejected
  answers,               \* ask and task to what the cluster answers
  at, request, key_py,   \* per client: the stage, what was prepared
  recorded, outcome      \* per client: the metric sample and how it ended

vars == <<call, connected, admission, answers, at, request, key_py, recorded,
          outcome>>

Clients == {"sync", "async"}

----------------------------------------------------------------------------
(* client.rs *)

ArgsFirst == <<"prepare", "client", "permit", "ask">>
Write == <<"client", "prepare", "permit", "ask">>
KeyedRead == <<"client", "prepare", "key", "permit", "ask">>
Admin == <<"client", "prepare", "ask_bare">>
AdminTask == <<"client", "prepare", "ask_bare", "task">>
Udf == <<"client", "prepare", "ask">>

SyncPutAndReads ==
  [put |-> ArgsFirst, get |-> KeyedRead, select |-> KeyedRead, exists |-> KeyedRead]
SyncRemoveAndTouch == [remove |-> Write, touch |-> Write]
SyncBinWrites ==
  [append |-> Write, prepend |-> Write, increment |-> ArgsFirst,
   remove_bin |-> Write]
SyncOperates == [operate |-> KeyedRead, operate_ordered |-> KeyedRead]
SyncIndexes == [index_create |-> AdminTask, index_remove |-> Admin]
SyncQuery == [query |-> Udf]
SyncInfo == [info_all |-> Admin, info_random_node |-> Admin]
\* Mutant: apply without the panic net.
SyncUdfsUnguarded ==
  [truncate |-> Admin, udf_put |-> AdminTask, udf_remove |-> AdminTask,
   apply |-> Admin]
SyncTruncateAndUdfs ==
  [truncate |-> Admin, udf_put |-> AdminTask, udf_remove |-> AdminTask,
   apply |-> Udf]
SyncUsers == [admin_user |-> Admin, admin_query_user_info |-> Admin]
SyncRoles ==
  [admin_create_role |-> Admin, admin_role |-> Admin,
   admin_query_role |-> Admin]
SyncBatchReads == [batch_read |-> Write, batch_operate |-> Write]
SyncBatchWrites == [batch_write |-> Write, batch_write_numpy |-> Write]
SyncBatchRemoves == [batch_remove |-> Write, batch_apply |-> Write]

SyncStages ==
  Join(SyncPutAndReads, Join(SyncRemoveAndTouch, Join(SyncBinWrites,
  Join(SyncOperates, Join(SyncIndexes, Join(SyncQuery, Join(SyncInfo,
  Join(SyncTruncateAndUdfs, Join(SyncUsers, Join(SyncRoles,
  Join(SyncBatchReads, Join(SyncBatchWrites, SyncBatchRemoves))))))))))))

(* async_client.rs *)

AsyncPutAndReads ==
  [put |-> ArgsFirst, get |-> KeyedRead, select |-> KeyedRead, exists |-> KeyedRead]
AsyncRemoveAndTouch == [remove |-> Write, touch |-> Write]
\* Mutant: AsyncClient checks the connection before the arguments.
AsyncIncrementClientFirst == [increment |-> Write]
AsyncIncrement == [increment |-> ArgsFirst]
AsyncBinWrites ==
  [append |-> Write, prepend |-> Write, remove_bin |-> Write]
AsyncOperate == [operate |-> KeyedRead]
AsyncOperateOrdered == [operate_ordered |-> KeyedRead]
AsyncIndexes == [index_create |-> AdminTask, index_remove |-> Admin]
AsyncQuery == [query |-> Udf]
AsyncInfo == [info_all |-> Admin, info_random_node |-> Admin]
AsyncTruncateAndUdfs ==
  [truncate |-> Admin, udf_put |-> AdminTask, udf_remove |-> AdminTask,
   apply |-> Udf]
AsyncUsers == [admin_user |-> Admin, admin_query_user_info |-> Admin]
AsyncRoles ==
  [admin_create_role |-> Admin, admin_role |-> Admin,
   admin_query_role |-> Admin]
AsyncBatchReads == [batch_read |-> Write, batch_operate |-> Write]
AsyncBatchWrites == [batch_write |-> Write, batch_write_numpy |-> Write]
AsyncBatchRemoves == [batch_remove |-> Write, batch_apply |-> Write]

AsyncStages ==
  Join(AsyncPutAndReads, Join(AsyncRemoveAndTouch, Join(AsyncIncrement,
  Join(AsyncBinWrites, Join(AsyncOperate, Join(AsyncOperateOrdered,
  Join(AsyncIndexes, Join(AsyncQuery, Join(AsyncInfo,
  Join(AsyncTruncateAndUdfs, Join(AsyncUsers, Join(AsyncRoles,
  Join(AsyncBatchReads, Join(AsyncBatchWrites,
  AsyncBatchRemoves))))))))))))))

Stages(c) == IF c = "sync" THEN SyncStages[call.method]
             ELSE AsyncStages[call.method]

\* The Python objects among the arguments of a call: arguments that are one,
\* arguments that are lists or dicts of them, and lists of these.
PlainObjects(args) == {args[f] : f \in DOMAIN args \cap {"key", "bins", "val", "args"}}
ListedObjects(args) ==
  UNION {Range(args[f]) :
           f \in DOMAIN args \cap {"keys", "records", "names", "policy", "meta"}}
NestedObjects(args) ==
  UNION UNION {{Range(args[f][i]) : i \in DOMAIN args[f]} :
                 f \in DOMAIN args \cap {"ops", "predicates", "privileges"}}
Arguments(args) == PlainObjects(args) \cup ListedObjects(args) \cup NestedObjects(args)

\* The arguments that not every method takes, with the methods that do.
KeyedWrites == {"put", "remove", "touch", "append", "prepend", "increment",
                "remove_bin", "operate", "operate_ordered"}
Takes ==
  [key |-> KeyedWrites \cup {"get", "select", "exists", "apply"},
   meta |-> KeyedWrites,
   bins |-> {"put", "batch_read"},
   val |-> {"append", "prepend", "increment"},
   args |-> {"apply", "batch_apply"},
   names |-> {"select", "remove_bin", "query"},
   ops |-> {"operate", "operate_ordered", "batch_operate"},
   keys |-> {"batch_read", "batch_operate", "batch_remove", "batch_apply"},
   records |-> {"batch_write"},
   rows |-> {"batch_write_numpy"},
   predicates |-> {"query"},
   privileges |-> {"admin_create_role"}]
Lists == {"names", "ops", "keys", "records", "predicates", "privileges"}

\* A call is made of a method, with the arguments it takes: Python objects
\* and lists of them, of the types the method's signature has.
\* numpy_to_records, which has read the rows of a batch_write_numpy, returns
\* records or raises (NumpyBuffer).
ASSUME CallsAssumption ==
  \A args \in Calls :
    /\ args.method \in DOMAIN SyncStages
    /\ \A f \in DOMAIN Takes : f \in DOMAIN args <=> args.method \in Takes[f]
    /\ \A f \in DOMAIN args \cap Lists : args[f] \in Seq(Range(args[f]))
    /\ "policy" \in DOMAIN args
    /\ "args" \in DOMAIN args => args.args[1] \in {"none", "list"}
    /\ "predicates" \in DOMAIN args => args.predicates \in Seq(Seq(Objects))
    /\ "rows" \in DOMAIN args => args.rows.ok \/ args.rows.err # "PanicException"
    /\ Arguments(args) \subseteq Objects

----------------------------------------------------------------------------
(* Preparing *)

Prepare ==
  LET m == call.method
  IN CASE m = "put" -> PreparePut(call)
       [] m = "get" -> PrepareGet(call)
       [] m = "select" -> PrepareSelect(call)
       [] m = "exists" -> PrepareExists(call)
       [] m = "remove" -> PrepareRemove(call)
       [] m = "touch" -> PrepareTouch(call)
       [] m \in {"append", "prepend"} -> PrepareSingleBinWrite(call)
       [] m = "increment" -> PrepareIncrement(call)
       [] m = "remove_bin" -> PrepareRemoveBin(call)
       [] m \in {"operate", "operate_ordered"} -> PrepareOperate(call)
       [] m = "apply" -> PrepareApply(call)
       [] m = "batch_read" -> PrepareBatchRead(call)
       [] m = "batch_operate" -> PrepareBatchOperate(call)
       [] m = "batch_remove" -> PrepareBatchRemove(call)
       [] m = "batch_apply" -> PrepareBatchApply(call)
       [] m = "batch_write" -> PrepareBatchWrite(call)
       [] m = "batch_write_numpy" -> PrepareBatchWriteNumpy(call)
       [] m = "query" -> PrepareQuery(call)
       [] m = "udf_put" -> PrepareUdfPut(call)
       [] m = "admin_create_role" -> PreparePrivileges(call)
       [] OTHER -> PrepareAdmin(call)

----------------------------------------------------------------------------
(* What the cluster may answer.  Reading a record's particles is where     *)
(* aerospike-core can panic.                                               *)

Decoding == {"get", "select", "operate", "operate_ordered", "apply",
             "batch_read", "batch_operate", "batch_apply", "query"}
Failures == {<<"error", e>> : e \in CoreErrors}
Successes ==
  LET m == call.method
  IN CASE m \in {"get", "select", "operate", "operate_ordered"} ->
            {<<"record", v, sends_key>> : v \in Stored, sends_key \in BOOLEAN}
       [] m = "query" -> {<<"stream", <<>>>>} \cup {<<"stream", <<v>>>> : v \in Stored}
       [] m = "remove" -> {<<"done">>, <<"absent">>}
       [] m = "apply" -> {<<"value", v>> : v \in Stored} \cup {<<"no_value">>}
       [] m \in {"admin_query_user_info", "admin_query_role"} ->
            {<<"found">>, <<"empty">>}
       [] m = "info_all" ->
            {<<"nodes", <<a, b>>>> : a, b \in Failures \cup {<<"done">>}}
       [] OTHER -> {<<"done">>}
AnswersTo(stage) ==
  IF stage = "task" THEN Failures \cup {<<"done">>}
  ELSE Successes \cup (IF call.method = "info_all" THEN {} ELSE Failures)
         \cup (IF call.method \in Decoding THEN {<<"panic">>} ELSE {})

IsMissing(answer) ==
  /\ answer[1] = "error"
  /\ answer[2].variant = "ServerError"
  /\ answer[2].rc = "KeyNotFoundError"

\* The operation a do_* function reports to the metrics, for those that do.
RecordOperations ==
  LET same == {"put", "get", "select", "exists", "touch", "append", "prepend",
               "increment", "remove_bin", "operate", "operate_ordered"}
  IN [m \in same \cup {"remove"} |-> IF m = "remove" THEN "delete" ELSE m]
BatchOperations ==
  [m \in {"batch_read", "batch_operate", "batch_remove", "batch_apply",
          "batch_write", "batch_write_numpy"} |-> m]
QueryOperation == [query |-> "query"]
OperationName == Join(RecordOperations, Join(BatchOperations, QueryOperation))

NoError == ""

\* traced_op! and traced_exists_op!: one sample per answered operation, with
\* its error type; a panic leaves none, a missing record is no error of
\* exists.
Sample(answer) ==
  IF call.method \notin DOMAIN OperationName \/ answer[1] = "panic"
  THEN <<>>
  ELSE <<OperationName[call.method],
         IF answer[1] # "error" \/ (call.method = "exists" /\ IsMissing(answer))
         THEN NoError ELSE ErrorType(answer[2])>>

\* info_node_result: a node that fails has a code, and does not fail the call.
InfoNodeResult(answer) ==
  IF answer[1] = "done" THEN 0
  ELSE IF answer[2].variant = "ServerError" THEN WireCode[answer[2].rc]
  ELSE -1

----------------------------------------------------------------------------
(* Making the call *)

Pending == <<"pending">>
Escaped == <<"panic_escaped">>
Raised(exception) == <<"raised", exception>>
Returned(obj) == <<"returned", obj>>

Init ==
  /\ call \in Calls
  /\ connected \in BOOLEAN
  /\ admission = "undecided"
  /\ answers = <<>>
  /\ at = [c \in Clients |-> 1]
  /\ request = [c \in Clients |-> <<>>]
  /\ key_py = [c \in Clients |-> <<>>]
  /\ recorded = [c \in Clients |-> <<>>]
  /\ outcome = [c \in Clients |-> Pending]

Doing(c, stage) ==
  /\ outcome[c] = Pending
  /\ at[c] \in DOMAIN Stages(c)
  /\ Stages(c)[at[c]] = stage
Advance(c) ==
  /\ at' = [at EXCEPT ![c] = @ + 1]
  /\ UNCHANGED outcome
End(c, how) ==
  /\ outcome' = [outcome EXCEPT ![c] = how]
  /\ UNCHANGED at

\* get_client
GetClient(c) ==
  /\ Doing(c, "client")
  /\ IF connected THEN Advance(c) ELSE End(c, Raised(Plain("ClientError")))
  /\ UNCHANGED <<call, connected, admission, answers, request, key_py,
                 recorded>>

PrepareArgs(c) ==
  /\ Doing(c, "prepare")
  /\ IF Prepare.ok
     THEN Advance(c) /\ request' = [request EXCEPT ![c] = Prepare.val]
     ELSE /\ End(c, IF Prepare.err = "PanicException" THEN Escaped
                    ELSE Raised(Plain(Prepare.err)))
          /\ UNCHANGED request
  /\ UNCHANGED <<call, connected, admission, answers, key_py, recorded>>

\* key_to_py, before anything is sent.
ConvertKey(c) ==
  /\ Doing(c, "key")
  /\ LET key == KeyToPy(request[c].items[1].key)
     IN IF key.ok
        THEN Advance(c) /\ key_py' = [key_py EXCEPT ![c] = key.val]
        ELSE End(c, Raised(Plain(key.err))) /\ UNCHANGED key_py
  /\ UNCHANGED <<call, connected, admission, answers, request, recorded>>

\* acquire_named, as OperationLimiter decides; both clients are told the same.
AcquirePermit(c) ==
  /\ Doing(c, "permit")
  /\ admission' \in IF admission = "undecided" THEN {"granted", "rejected"}
                    ELSE {admission}
  /\ IF admission' = "granted" THEN Advance(c)
     ELSE End(c, Raised(Plain("BackpressureError")))
  /\ UNCHANGED <<call, connected, answers, request, key_py, recorded>>

Answer(stage) ==
  /\ answers' \in IF stage \in DOMAIN answers THEN {answers}
                  ELSE {Join([s \in {stage} |-> a], answers) : a \in AnswersTo(stage)}

\* What do_* makes of the answer, Pending if the call goes on.  do_exists
\* leaves a missing record to its caller.
MadeOf(answer, panicked) ==
  IF answer[1] = "panic" THEN panicked
  ELSE IF answer[1] = "error"
            /\ ~(call.method = "exists" /\ IsMissing(answer))
  THEN Raised(AsToPyErr(answer[2]))
  ELSE IF answer[1] = "absent" THEN Raised(RecordNotFoundForDelete)
  ELSE Pending
Asked(c, stage, panicked) ==
  /\ Doing(c, stage)
  /\ Answer("ask")
  /\ recorded' = [recorded EXCEPT ![c] = Sample(answers'["ask"])]
  /\ LET made == MadeOf(answers'["ask"], panicked)
     IN IF made = Pending THEN Advance(c) ELSE End(c, made)
  /\ UNCHANGED <<call, connected, admission, request, key_py>>

\* In the panic net, which raises RustPanicError, and outside of it.
Caught == Raised(Plain("RustPanicError"))
Ask(c) == Asked(c, "ask", Caught)
AskBare(c) == Asked(c, "ask_bare", Escaped)

\* wait_till_complete: the server has started the task already.
AwaitTask(c) ==
  /\ Doing(c, "task")
  /\ Answer("task")
  /\ IF answers'["task"][1] = "error"
     THEN End(c, Raised(AsToPyErr(answers'["task"][2])))
     ELSE Advance(c)
  /\ UNCHANGED <<call, connected, admission, request, key_py, recorded>>

\* record_to_py_with_key and PendingOrderedRecord: the key the server sent
\* back, else the one converted before; a bin no Python object can hold
\* fails the call.
RecordToPy(req, key_before, value, sends_key) ==
  Then(IF sends_key THEN KeyToPy(req.items[1].key)
       ELSE Done(key_before), LAMBDA key :
  Then(FromValue(value), LAMBDA obj : Done(<<"record", key, obj>>)))

\* What a method returns of the answer it got to its request.
Result(req, key_before) ==
  LET answer == answers["ask"]
  IN CASE answer[1] = "record" -> RecordToPy(req, key_before, answer[2], answer[3])
       [] call.method = "exists" ->
            Done(<<key_before, IF answer[1] = "error" THEN "none" ELSE "meta">>)
       [] answer[1] = "stream" ->
            Collected([i \in DOMAIN answer[2] |-> FromValue(answer[2][i])])
       [] answer[1] = "value" -> FromValue(answer[2])
       [] answer[1] = "nodes" -> Done([i \in DOMAIN answer[2] |->
                                         InfoNodeResult(answer[2][i])])
       [] answer[1] = "empty" -> Failed("AdminError")
       [] OTHER -> Done(answer)

Return(c) ==
  /\ outcome[c] = Pending
  /\ at[c] = Len(Stages(c)) + 1
  /\ LET result == Result(request[c], key_py[c])
     IN End(c, IF result.ok THEN Returned(result.val)
               ELSE Raised(Plain(result.err)))
  /\ UNCHANGED <<call, connected, admission, answers, request, key_py,
                 recorded>>

Next ==
  \E c \in Clients :
    \/ GetClient(c) \/ PrepareArgs(c) \/ ConvertKey(c) \/ AcquirePermit(c)
    \/ Ask(c) \/ AskBare(c) \/ AwaitTask(c) \/ Return(c)

Spec == Init /\ [][Next]_vars

----------------------------------------------------------------------------
(* Properties *)

Ended(c) == outcome[c] # Pending
Sent(c) == request[c] # <<>>

\* The two clients are written out method by method in two files, and
\* promise the same interface: the same call of either asks the cluster for
\* the same thing, ends in the same way and leaves the same metric sample,
\* connected or not, admitted or not, whatever the cluster answers.
SameOutcomeOnBothClients ==
  (\A c \in Clients : Ended(c))
    => /\ outcome["sync"] = outcome["async"]
       /\ recorded["sync"] = recorded["async"]
       /\ request["sync"] = request["async"]

\* A panic of aerospike-core, in the assertion of Filter::equal or while it
\* decodes a record, reaches Python as RustPanicError or not at all, from every
\* method that gives it a predicate or has it decode a record.
NoPanicEscapes == \A c \in Clients : outcome[c] # Escaped

\* The generation a caller names in the meta of a record is the one the
\* server is told to check, by itself or in a batch of writes or removals.
\* Left out are a policy dict's own "gen", which overrides a single call's,
\* and batch_apply, whose UDF policies have no generation.
MetaOf(i) ==
  CASE "meta" \in DOMAIN call -> call.meta
    [] call.method = "batch_remove" ->
         IF IsKeyMeta(call.keys[i]) THEN call.keys[i][2][2][2] ELSE <<>>
    [] call.method = "batch_write" ->
         IF Len(call.records[i][2]) >= 3 THEN call.records[i][2][3][2]
         ELSE <<>>
    [] OTHER -> <<>>
MetaGenerationIsChecked ==
  \A c \in Clients : Sent(c) =>
    \A i \in DOMAIN request[c].items :
      LET policy == request[c].items[i].policy
      IN /\ "gen" \in DOMAIN MetaOf(i)
         /\ ~("meta" \in DOMAIN call /\ "gen" \in DOMAIN call.policy)
         => /\ "generation" \in DOMAIN policy
            /\ policy["generation"] = Number(MetaOf(i)["gen"])
            /\ policy["generation_policy"] = "ExpectGenEqual"

\* aerospike-core refuses to encode a batch write without a write among its
\* operations, and a batch read with one: batch_operate sorts every list of
\* operations to the side where it is accepted.
BatchOperateIsEncodable ==
  \A c \in Clients :
    Sent(c) /\ call.method = "batch_operate" =>
      \A i \in DOMAIN request[c].items :
        LET ops == request[c].items[i].body
        IN request[c].verb = "write"
             <=> \E j \in DOMAIN ops : CoreTakesForWrite(ops[j][1])

\* A filter expression in the policy of a call reaches the server with every
\* record of it, in the record's own policy or the batch's: no call is
\* carried out on more records than the caller asked for.
FilterIsSent ==
  \A c \in Clients :
    /\ Sent(c)
    /\ call.method \in DOMAIN OperationName \cup {"apply"}
    /\ Present(call.policy, "filter_expression")
    => \/ "filter_expression" \in DOMAIN request[c].batch
       \/ \A i \in DOMAIN request[c].items :
            "filter_expression" \in DOMAIN request[c].items[i].policy

\* One key tuple is one record, whichever method it is given to: the keys of
\* batch_read and batch_operate, parsed and hashed in two passes, are the
\* keys every other method makes of the same tuples, and the key a call
\* returns names the record the call was about.
SameKeySameRecord ==
  /\ call.method \in {"batch_read", "batch_operate"} =>
       \A c \in Clients : Sent(c) =>
         \A i \in DOMAIN call.keys :
           ToKey(call.keys[i]) = Done(request[c].items[i].key)
  /\ \A c \in Clients : key_py[c] # <<>> =>
       LET again == ToKey(key_py[c])
       IN again.ok /\ again.val.digest = request[c].items[1].key.digest

\* Equality of Python objects as the converters have it: an integer
\* is its value modulo 2^64, a bytearray the bytes in it, a dict the mapping
\* (of two keys that are one integer modulo 2^64, the last one).
StoredBody(obj, Inner(_)) ==
  IF obj[1] = "int"
  THEN <<"int", ((obj[2] + HalfRange) % (2 * HalfRange)) - HalfRange>>
  ELSE IF obj[1] = "bytearray" THEN <<"bytes", obj[2]>>
  ELSE IF obj[1] = "list"
  THEN <<"list", [i \in DOMAIN obj[2] |-> Inner(obj[2][i])]>>
  ELSE IF obj[1] = "dict"
  THEN <<"dict", AsMap([i \in DOMAIN obj[2] |->
                          <<Inner(obj[2][i][1]), Inner(obj[2][i][2])>>])>>
  ELSE obj
ASSUME StoredAssumption ==
  \A obj \in Objects : AsStored(obj) = StoredBody(obj, AsStored)

\* What a call writes to a bin reads back as what it was given, at every
\* depth of lists and dicts, through the two converters written apart; and a
\* role's privileges read back as the privileges it was created with.
WhatIsSentReadsBack ==
  \A c \in Clients : Sent(c) =>
    CASE call.method = "put" ->
           \A i \in DOMAIN call.bins[2] :
             LET back == FromValue(request[c].items[1].body[i][2])
             IN back.ok /\ AsStored(back.val) = AsStored(call.bins[2][i][2])
      [] call.method = "admin_create_role" ->
           LET given == request[c].items[1].body
           IN ParsePrivileges(RoleToPy(given)) = Done(given)
      [] OTHER -> TRUE

=============================================================================
