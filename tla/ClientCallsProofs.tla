-------------------------- MODULE ClientCallsProofs --------------------------
(***************************************************************************)
(* Theorems about ClientCalls for any values, calls and answers.           *)
(*                                                                         *)
(* The two clients run at their own pace, so that they end alike is not    *)
(* inductive.  IInv says why they do: the tables of both send a method     *)
(* through one course of stages (Course), how a stage ends is decided by   *)
(* what the clients share (Halt), and what a client holds follows from the *)
(* stages it has passed (OnItsWay, Holds, EndsRight).  In particular a     *)
(* request that was sent is what Prepare makes of the arguments, so what   *)
(* the other properties say of a request is proved of the parsers.         *)
(* Conversions of nested objects are proved about from the greatest depth, *)
(* where none succeeds, upwards (FromTheDeepest).                          *)
(***************************************************************************)
EXTENDS ClientCalls, FiniteSetTheorems, SequenceTheorems, WellFoundedInduction, TLAPS

(* The tables of stages *)

Methods ==
  {"put", "get", "select", "exists", "remove", "touch", "append", "prepend",
   "increment", "remove_bin", "operate", "operate_ordered", "index_create",
   "index_remove", "query", "info_all", "info_random_node", "truncate",
   "udf_put", "udf_remove", "apply", "admin_user", "admin_query_user_info",
   "admin_create_role", "admin_role", "admin_query_role", "batch_read",
   "batch_operate", "batch_write", "batch_write_numpy", "batch_remove",
   "batch_apply"}

\* The stages of a method, on either client.
Course(m) ==
  IF m \in {"put", "increment"} THEN ArgsFirst
  ELSE IF m \in {"get", "select", "exists", "operate", "operate_ordered"}
  THEN KeyedRead
  ELSE IF m \in {"index_create", "udf_put", "udf_remove"} THEN AdminTask
  ELSE IF m \in {"query", "apply"} THEN Udf
  ELSE IF m \in {"remove", "touch", "append", "prepend", "remove_bin",
                 "batch_read", "batch_operate", "batch_write",
                 "batch_write_numpy", "batch_remove", "batch_apply"}
  THEN Write
  ELSE Admin

KeepsTo(table) == \A m \in DOMAIN table : table[m] = Course(m)

\* A join is defined where one of the two tables is.
LEMMA JoinDomain ==
  \A f, g, m : m \in DOMAIN Join(f, g) <=> m \in DOMAIN f \/ m \in DOMAIN g
BY DEF Join

\* Two tables that keep to the course make one that does.
LEMMA JoinKeeps ==
  \A f, g : KeepsTo(f) /\ KeepsTo(g) => KeepsTo(Join(f, g))
BY DEF KeepsTo, Join

\* The synchronous client's methods go through the stages of the course.
LEMMA SyncCourse == KeepsTo(SyncStages) /\ DOMAIN SyncStages = Methods
<1>1. KeepsTo(SyncPutAndReads) /\ DOMAIN SyncPutAndReads
           = {"put", "get", "select", "exists"}
  BY DEF KeepsTo, SyncPutAndReads, Course
<1>2. KeepsTo(SyncRemoveAndTouch) /\ DOMAIN SyncRemoveAndTouch
           = {"remove", "touch"}
  BY DEF KeepsTo, SyncRemoveAndTouch, Course
<1>3. KeepsTo(SyncBinWrites) /\ DOMAIN SyncBinWrites
           = {"append", "prepend", "increment", "remove_bin"}
  BY DEF KeepsTo, SyncBinWrites, Course
<1>4. KeepsTo(SyncOperates) /\ DOMAIN SyncOperates
           = {"operate", "operate_ordered"}
  BY DEF KeepsTo, SyncOperates, Course
<1>5. KeepsTo(SyncIndexes) /\ DOMAIN SyncIndexes
           = {"index_create", "index_remove"}
  BY DEF KeepsTo, SyncIndexes, Course
<1>6. KeepsTo(SyncQuery) /\ DOMAIN SyncQuery = {"query"}
  BY DEF KeepsTo, SyncQuery, Course
<1>7. KeepsTo(SyncInfo) /\ DOMAIN SyncInfo = {"info_all", "info_random_node"}
  BY DEF KeepsTo, SyncInfo, Course
<1>8. KeepsTo(SyncTruncateAndUdfs) /\ DOMAIN SyncTruncateAndUdfs
           = {"truncate", "udf_put", "udf_remove", "apply"}
  BY DEF KeepsTo, SyncTruncateAndUdfs, Course
<1>9. KeepsTo(SyncUsers) /\ DOMAIN SyncUsers
           = {"admin_user", "admin_query_user_info"}
  BY DEF KeepsTo, SyncUsers, Course
<1>10. KeepsTo(SyncRoles) /\ DOMAIN SyncRoles
           = {"admin_create_role", "admin_role", "admin_query_role"}
  BY DEF KeepsTo, SyncRoles, Course
<1>11. KeepsTo(SyncBatchReads) /\ DOMAIN SyncBatchReads
           = {"batch_read", "batch_operate"}
  BY DEF KeepsTo, SyncBatchReads, Course
<1>12. KeepsTo(SyncBatchWrites) /\ DOMAIN SyncBatchWrites
           = {"batch_write", "batch_write_numpy"}
  BY DEF KeepsTo, SyncBatchWrites, Course
<1>13. KeepsTo(SyncBatchRemoves) /\ DOMAIN SyncBatchRemoves
           = {"batch_remove", "batch_apply"}
  BY DEF KeepsTo, SyncBatchRemoves, Course
<1>14. KeepsTo(SyncStages)
  BY ONLY <1>1, <1>2, <1>3, <1>4, <1>5, <1>6, <1>7, <1>8, <1>9, <1>10, <1>11, <1>12, <1>13,
     JoinKeeps DEF SyncStages
<1>15. DOMAIN SyncStages = Methods
  <2>1. ASSUME NEW m
        PROVE  m \in DOMAIN SyncStages <=>
          m \in DOMAIN SyncPutAndReads \/ m \in DOMAIN SyncRemoveAndTouch
          \/ m \in DOMAIN SyncBinWrites \/ m \in DOMAIN SyncOperates \/ m
          \in DOMAIN SyncIndexes \/ m \in DOMAIN SyncQuery \/ m \in DOMAIN
          SyncInfo \/ m \in DOMAIN SyncTruncateAndUdfs \/ m \in DOMAIN
          SyncUsers \/ m \in DOMAIN SyncRoles \/ m \in DOMAIN
          SyncBatchReads \/ m \in DOMAIN SyncBatchWrites \/ m \in DOMAIN
          SyncBatchRemoves
    BY ONLY JoinDomain DEF SyncStages
  <2>2. ASSUME NEW m PROVE m \in DOMAIN SyncStages <=> m \in Methods
    BY ONLY <2>1, <1>1, <1>2, <1>3, <1>4, <1>5, <1>6, <1>7, <1>8, <1>9, <1>10, <1>11, <1>12, <1>13 DEF Methods
  <2> QED BY <2>2
<1> QED BY <1>14, <1>15

\* So do the asynchronous client's.
LEMMA AsyncCourse == KeepsTo(AsyncStages) /\ DOMAIN AsyncStages = Methods
<1>1. KeepsTo(AsyncPutAndReads) /\ DOMAIN AsyncPutAndReads
           = {"put", "get", "select", "exists"}
  BY DEF KeepsTo, AsyncPutAndReads, Course
<1>2. KeepsTo(AsyncRemoveAndTouch) /\ DOMAIN AsyncRemoveAndTouch
           = {"remove", "touch"}
  BY DEF KeepsTo, AsyncRemoveAndTouch, Course
<1>3. KeepsTo(AsyncIncrement) /\ DOMAIN AsyncIncrement = {"increment"}
  BY DEF KeepsTo, AsyncIncrement, Course
<1>4. KeepsTo(AsyncBinWrites) /\ DOMAIN AsyncBinWrites
           = {"append", "prepend", "remove_bin"}
  BY DEF KeepsTo, AsyncBinWrites, Course
<1>5. KeepsTo(AsyncOperate) /\ DOMAIN AsyncOperate = {"operate"}
  BY DEF KeepsTo, AsyncOperate, Course
<1>6. KeepsTo(AsyncOperateOrdered) /\ DOMAIN AsyncOperateOrdered
           = {"operate_ordered"}
  BY DEF KeepsTo, AsyncOperateOrdered, Course
<1>7. KeepsTo(AsyncIndexes) /\ DOMAIN AsyncIndexes
           = {"index_create", "index_remove"}
  BY DEF KeepsTo, AsyncIndexes, Course
<1>8. KeepsTo(AsyncQuery) /\ DOMAIN AsyncQuery = {"query"}
  BY DEF KeepsTo, AsyncQuery, Course
<1>9. KeepsTo(AsyncInfo) /\ DOMAIN AsyncInfo
           = {"info_all", "info_random_node"}
  BY DEF KeepsTo, AsyncInfo, Course
<1>10. KeepsTo(AsyncTruncateAndUdfs) /\ DOMAIN AsyncTruncateAndUdfs
           = {"truncate", "udf_put", "udf_remove", "apply"}
  BY DEF KeepsTo, AsyncTruncateAndUdfs, Course
<1>11. KeepsTo(AsyncUsers) /\ DOMAIN AsyncUsers
           = {"admin_user", "admin_query_user_info"}
  BY DEF KeepsTo, AsyncUsers, Course
<1>12. KeepsTo(AsyncRoles) /\ DOMAIN AsyncRoles
           = {"admin_create_role", "admin_role", "admin_query_role"}
  BY DEF KeepsTo, AsyncRoles, Course
<1>13. KeepsTo(AsyncBatchReads) /\ DOMAIN AsyncBatchReads
           = {"batch_read", "batch_operate"}
  BY DEF KeepsTo, AsyncBatchReads, Course
<1>14. KeepsTo(AsyncBatchWrites) /\ DOMAIN AsyncBatchWrites
           = {"batch_write", "batch_write_numpy"}
  BY DEF KeepsTo, AsyncBatchWrites, Course
<1>15. KeepsTo(AsyncBatchRemoves) /\ DOMAIN AsyncBatchRemoves
           = {"batch_remove", "batch_apply"}
  BY DEF KeepsTo, AsyncBatchRemoves, Course
<1>16. KeepsTo(AsyncStages)
  BY ONLY <1>1, <1>2, <1>3, <1>4, <1>5, <1>6, <1>7, <1>8, <1>9, <1>10, <1>11, <1>12, <1>13, <1>14, <1>15,
     JoinKeeps DEF AsyncStages
<1>17. DOMAIN AsyncStages = Methods
  <2>1. ASSUME NEW m
        PROVE  m \in DOMAIN AsyncStages <=>
          m \in DOMAIN AsyncPutAndReads \/ m \in DOMAIN
          AsyncRemoveAndTouch \/ m \in DOMAIN AsyncIncrement \/ m \in
          DOMAIN AsyncBinWrites \/ m \in DOMAIN AsyncOperate \/ m \in
          DOMAIN AsyncOperateOrdered \/ m \in DOMAIN AsyncIndexes \/ m \in
          DOMAIN AsyncQuery \/ m \in DOMAIN AsyncInfo \/ m \in DOMAIN
          AsyncTruncateAndUdfs \/ m \in DOMAIN AsyncUsers \/ m \in DOMAIN
          AsyncRoles \/ m \in DOMAIN AsyncBatchReads \/ m \in DOMAIN
          AsyncBatchWrites \/ m \in DOMAIN AsyncBatchRemoves
    BY ONLY JoinDomain DEF AsyncStages
  <2>2. ASSUME NEW m PROVE m \in DOMAIN AsyncStages <=> m \in Methods
    BY ONLY <2>1, <1>1, <1>2, <1>3, <1>4, <1>5, <1>6, <1>7, <1>8, <1>9, <1>10, <1>11, <1>12, <1>13, <1>14, <1>15 DEF Methods
  <2> QED BY <2>2
<1> QED BY <1>16, <1>17

----------------------------------------------------------------------------
(* What the two clients share decides how each stage ends *)

\* The stages the call goes through.
Path == Course(call.method)
Asking == {"ask", "ask_bare"}

\* The stage has been reached by one of the clients, for the stages that
\* leave something in the shared state.
Decided(stage) ==
  /\ stage = "permit" => admission # "undecided"
  /\ stage \in Asking => "ask" \in DOMAIN answers
  /\ stage = "task" => "task" \in DOMAIN answers

PreparedKey == KeyToPy(Prepare.val.items[1].key)

\* How a stage ends the call, Pending if it goes on.
Halt(stage) ==
  IF stage = "client"
  THEN IF connected THEN Pending ELSE Raised(Plain("ClientError"))
  ELSE IF stage = "prepare"
  THEN IF Prepare.ok THEN Pending
       ELSE IF Prepare.err = "PanicException" THEN Escaped
       ELSE Raised(Plain(Prepare.err))
  ELSE IF stage = "key"
  THEN IF PreparedKey.ok THEN Pending ELSE Raised(Plain(PreparedKey.err))
  ELSE IF stage = "permit"
  THEN IF admission = "granted" THEN Pending
       ELSE Raised(Plain("BackpressureError"))
  ELSE IF stage = "ask" THEN MadeOf(answers["ask"], Caught)
  ELSE IF stage = "ask_bare" THEN MadeOf(answers["ask"], Escaped)
  ELSE IF answers["task"][1] = "error"
  THEN Raised(AsToPyErr(answers["task"][2])) ELSE Pending

\* How a client that gets to the end of its stages ends.
Final(req, key_before) ==
  LET result == Result(req, key_before)
  IN IF result.ok THEN Returned(result.val) ELSE Raised(Plain(result.err))

Passed(c, stage) == \E i \in 1 .. at[c] - 1 : Path[i] = stage
HasAsked(c) ==
  \/ \E i \in 1 .. at[c] - 1 : Path[i] \in Asking
  \/ outcome[c] # Pending /\ at[c] \in DOMAIN Path /\ Path[at[c]] \in Asking

\* Where a client is, and what it has got, follow from what is shared.
OnItsWay(c) ==
  /\ at[c] \in 1 .. Len(Path) + 1
  /\ \A i \in 1 .. at[c] - 1 : Decided(Path[i]) /\ Halt(Path[i]) = Pending
Holds(c) ==
  /\ request[c] = IF Passed(c, "prepare") THEN Prepare.val ELSE <<>>
  /\ key_py[c] = IF Passed(c, "key") THEN PreparedKey.val ELSE <<>>
  /\ recorded[c] = IF HasAsked(c) THEN Sample(answers["ask"]) ELSE <<>>
EndsRight(c) ==
  outcome[c] # Pending =>
    IF at[c] = Len(Path) + 1 THEN outcome[c] = Final(request[c], key_py[c])
    ELSE Decided(Path[at[c]]) /\ outcome[c] = Halt(Path[at[c]])

Shape ==
  /\ call \in Calls
  /\ at = [c \in Clients |-> at[c]]
  /\ request = [c \in Clients |-> request[c]]
  /\ key_py = [c \in Clients |-> key_py[c]]
  /\ recorded = [c \in Clients |-> recorded[c]]
  /\ outcome = [c \in Clients |-> outcome[c]]

IInv ==
  /\ Shape
  /\ \A c \in Clients : OnItsWay(c) /\ Holds(c) /\ EndsRight(c)

AllStages == {"client", "prepare", "key", "permit", "ask", "ask_bare", "task"}

\* Every course asks the cluster, and makes a key only of a request.
LEMMA CourseFacts ==
  ASSUME NEW m
  PROVE  /\ Course(m) \in Seq(AllStages)
         /\ \E i \in 1 .. Len(Course(m)) : Course(m)[i] \in Asking
         /\ \A i \in 1 .. Len(Course(m)) :
              Course(m)[i] = "key" =>
                \E j \in 1 .. i - 1 : Course(m)[j] = "prepare"
<1> DEFINE Fine(s) ==
      /\ s \in Seq(AllStages)
      /\ \E i \in 1 .. Len(s) : s[i] \in Asking
      /\ \A i \in 1 .. Len(s) :
           s[i] = "key" => \E j \in 1 .. i - 1 : s[j] = "prepare"
<1>1. Fine(<<"prepare", "client", "permit", "ask">>)
  BY DEF AllStages, Asking
<1>2. Fine(<<"client", "prepare", "permit", "ask">>)
  BY DEF AllStages, Asking
<1>3. Fine(<<"client", "prepare", "key", "permit", "ask">>)
  BY DEF AllStages, Asking
<1>4. Fine(<<"client", "prepare", "ask_bare">>)
  BY DEF AllStages, Asking
<1>5. Fine(<<"client", "prepare", "ask_bare", "task">>)
  BY DEF AllStages, Asking
<1>6. Fine(<<"client", "prepare", "ask">>)
  BY DEF AllStages, Asking
<1> HIDE DEF Fine
<1>7. Fine(Course(m))
  BY <1>1, <1>2, <1>3, <1>4, <1>5, <1>6
     DEF Course, ArgsFirst, KeyedRead, Udf, Write, Admin, AdminTask
<1> QED BY <1>7 DEF Fine

\* Both tables give the call its path.
LEMMA StagesArePath ==
  ASSUME call \in Calls, NEW c \in Clients
  PROVE  Stages(c) = Path
<1>1. call.method \in DOMAIN SyncStages
  BY CallsAssumption
<1>2. call.method \in DOMAIN AsyncStages
  BY <1>1, SyncCourse, AsyncCourse
<1> QED
  BY <1>1, <1>2, SyncCourse, AsyncCourse DEF Stages, Path, KeepsTo

LEMMA PathFacts ==
  /\ Path \in Seq(AllStages)
  /\ Len(Path) \in Nat
  /\ \E i \in 1 .. Len(Path) : Path[i] \in Asking
  /\ \A i \in 1 .. Len(Path) :
       Path[i] = "key" => \E j \in 1 .. i - 1 : Path[j] = "prepare"
<1>1. Path \in Seq(AllStages)
  BY CourseFacts DEF Path
<1> QED BY <1>1, CourseFacts DEF Path

\* What is shared is not taken back: the call stays, the limiters' decision
\* and the answers are only added to.
Grows ==
  /\ UNCHANGED <<call, connected>>
  /\ admission # "undecided" => UNCHANGED admission
  /\ \A s \in DOMAIN answers : s \in DOMAIN answers' /\ answers'[s] = answers[s]

LEMMA AnswerGrows ==
  ASSUME NEW stage, Answer(stage)
  PROVE  /\ stage \in DOMAIN answers'
         /\ \A s \in DOMAIN answers :
              s \in DOMAIN answers' /\ answers'[s] = answers[s]
<1>1. CASE stage \in DOMAIN answers
  BY <1>1 DEF Answer
<1>2. CASE stage \notin DOMAIN answers
  <2>1. PICK a \in AnswersTo(stage) :
          answers' = Join([s \in {stage} |-> a], answers)
    BY <1>2 DEF Answer
  <2>2. DOMAIN answers' = {stage} \cup DOMAIN answers
    BY <2>1 DEF Join
  <2>3. \A s \in DOMAIN answers : answers'[s] = answers[s]
    BY <1>2, <2>1 DEF Join
  <2> QED BY <2>2, <2>3
<1> QED BY <1>1, <1>2

\* The definitions below depend on the call and the answers alone.
LEMMA SameCall ==
  ASSUME call' = call
  PROVE  /\ Path' = Path
         /\ Prepare' = Prepare
         /\ PreparedKey' = PreparedKey
<1>1. Path' = Path
  BY DEF Path
<1>2. Prepare' = Prepare
  BY DEF Prepare
<1>3. PreparedKey' = PreparedKey
  BY <1>2 DEF PreparedKey
<1> QED BY <1>1, <1>2, <1>3

LEMMA SameAnswers ==
  ASSUME Grows, "ask" \in DOMAIN answers
  PROVE  /\ Sample(answers["ask"])' = Sample(answers["ask"])
         /\ \A p : MadeOf(answers["ask"], p)' = MadeOf(answers["ask"], p)
         /\ \A req, key_before : Final(req, key_before)' = Final(req, key_before)
<1>1. call' = call /\ answers'["ask"] = answers["ask"]
  BY DEF Grows
<1>2. Sample(answers["ask"])' = Sample(answers["ask"])
  BY <1>1 DEF Sample
<1>3. \A p : MadeOf(answers["ask"], p)' = MadeOf(answers["ask"], p)
  BY <1>1 DEF MadeOf
<1>4. \A req, key_before : Result(req, key_before)' = Result(req, key_before)
  BY <1>1 DEF Result
<1>5. \A req, key_before : Final(req, key_before)' = Final(req, key_before)
  BY <1>4 DEF Final
<1> QED BY <1>2, <1>3, <1>5

\* A stage that is decided stays decided, and as it was.
LEMMA DecidedStays ==
  ASSUME Grows, NEW stage \in AllStages, Decided(stage)
  PROVE  Decided(stage)' /\ Halt(stage)' = Halt(stage)
<1>1. call' = call /\ connected' = connected
  BY DEF Grows
<1>2. Prepare' = Prepare /\ PreparedKey' = PreparedKey
  BY <1>1, SameCall
<1>3. CASE stage \in {"client", "prepare", "key"}
  BY <1>1, <1>2, <1>3 DEF Decided, Halt, Asking
<1>4. CASE stage = "permit"
  BY <1>4 DEF Decided, Halt, Asking, Grows
<1>5. CASE stage = "ask"
  <2>1. "ask" \in DOMAIN answers /\ "ask" \in DOMAIN answers'
    BY <1>5 DEF Decided, Asking, Grows
  <2>2. MadeOf(answers["ask"], Caught)' = MadeOf(answers["ask"], Caught)
    BY <2>1, SameAnswers
  <2> QED BY <1>5, <2>1, <2>2 DEF Decided, Halt, Asking
<1>6. CASE stage = "ask_bare"
  <2>1. "ask" \in DOMAIN answers /\ "ask" \in DOMAIN answers'
    BY <1>6 DEF Decided, Asking, Grows
  <2>2. MadeOf(answers["ask"], Escaped)' = MadeOf(answers["ask"], Escaped)
    BY <2>1, SameAnswers
  <2> QED BY <1>6, <2>1, <2>2 DEF Decided, Halt, Asking
<1>7. CASE stage = "task"
  BY <1>7 DEF Decided, Halt, Asking, Grows
<1> QED BY <1>3, <1>4, <1>5, <1>6, <1>7 DEF AllStages

\* A client that does not move keeps to its way while the other one moves.
LEMMA StandsStill ==
  ASSUME NEW c \in Clients, Grows, OnItsWay(c), Holds(c), EndsRight(c),
         at'[c] = at[c], request'[c] = request[c], key_py'[c] = key_py[c],
         recorded'[c] = recorded[c], outcome'[c] = outcome[c]
  PROVE  OnItsWay(c)' /\ Holds(c)' /\ EndsRight(c)'
<1>1. Path' = Path /\ Prepare' = Prepare /\ PreparedKey' = PreparedKey
  BY SameCall DEF Grows
<1>2. /\ Len(Path) \in Nat
      /\ \A i \in 1 .. Len(Path) : Path[i] \in AllStages
  BY PathFacts, ElementOfSeq
<1>3. OnItsWay(c)'
  BY <1>1, <1>2, DecidedStays DEF OnItsWay
<1>4. HasAsked(c)' = HasAsked(c)
  BY <1>1 DEF HasAsked
<1>5. HasAsked(c) => "ask" \in DOMAIN answers
  <2>1. CASE \E i \in 1 .. at[c] - 1 : Path[i] \in Asking
    BY <2>1 DEF OnItsWay, Decided
  <2>2. CASE outcome[c] # Pending /\ at[c] \in DOMAIN Path /\ Path[at[c]] \in Asking
    <3>1. at[c] # Len(Path) + 1
      BY <1>2, <2>2, PathFacts
    <3> QED BY <2>2, <3>1 DEF EndsRight, Decided
  <2> QED BY <2>1, <2>2 DEF HasAsked
<1>6. HasAsked(c) => Sample(answers["ask"])' = Sample(answers["ask"])
  BY <1>5, SameAnswers
<1>7. Passed(c, "prepare")' = Passed(c, "prepare") /\ Passed(c, "key")' = Passed(c, "key")
  BY <1>1 DEF Passed
<1>8. Holds(c)'
  BY <1>1, <1>4, <1>6, <1>7 DEF Holds
<1>9. EndsRight(c)'
  <2>1. SUFFICES ASSUME outcome[c] # Pending PROVE EndsRight(c)'
    BY DEF EndsRight
  <2>2. CASE at[c] = Len(Path) + 1
    <3>1. "ask" \in DOMAIN answers
      BY <2>2, <1>2, PathFacts DEF OnItsWay, Decided
    <3>2. \A req, key_before : Final(req, key_before)' = Final(req, key_before)
      BY <3>1, SameAnswers
    <3> QED BY <1>1, <2>1, <2>2, <3>2 DEF EndsRight
  <2>3. CASE at[c] # Len(Path) + 1
    <3>1. at[c] \in 1 .. Len(Path)
      BY <2>3, <1>2 DEF OnItsWay
    <3>2. PICK stage \in AllStages : stage = Path[at[c]]
      BY <1>2, <3>1
    <3>3. Decided(stage) /\ outcome[c] = Halt(stage)
      BY <2>1, <2>3, <3>2 DEF EndsRight
    <3>4. Decided(stage)' /\ Halt(stage)' = Halt(stage)
      BY <3>3, DecidedStays
    <3> QED BY <1>1, <2>1, <2>3, <3>2, <3>3, <3>4 DEF EndsRight
  <2> QED BY <2>2, <2>3
<1> QED BY <1>3, <1>8, <1>9

\* What a client's move from one stage does: it goes on, or it ends there.
Moves(c, stage) ==
  /\ outcome[c] = Pending
  /\ at[c] \in DOMAIN Path
  /\ Path[at[c]] = stage
  /\ Decided(stage)'
  /\ \/ /\ Halt(stage)' = Pending
        /\ at' = [at EXCEPT ![c] = @ + 1]
        /\ UNCHANGED outcome
        /\ request' = IF stage # "prepare" THEN request
                      ELSE [request EXCEPT ![c] = Prepare.val]
        /\ key_py' = IF stage # "key" THEN key_py
                     ELSE [key_py EXCEPT ![c] = PreparedKey.val]
     \/ /\ Halt(stage)' # Pending
        /\ outcome' = [outcome EXCEPT ![c] = Halt(stage)']
        /\ UNCHANGED <<at, request, key_py>>
  /\ recorded' = IF stage \notin Asking THEN recorded
                 ELSE [recorded EXCEPT ![c] = Sample(answers["ask"])']

LEMMA MovesKeep ==
  ASSUME IInv, NEW c \in Clients, NEW stage, Grows, Moves(c, stage)
  PROVE  IInv'
<1>1. Path' = Path /\ Prepare' = Prepare /\ PreparedKey' = PreparedKey
  BY SameCall DEF Grows
<1>2. /\ Len(Path) \in Nat
      /\ \A i \in 1 .. Len(Path) : Path[i] \in AllStages
      /\ DOMAIN Path = 1 .. Len(Path)
  BY PathFacts, ElementOfSeq
<1>3. at[c] \in 1 .. Len(Path) /\ stage \in AllStages
  BY <1>2 DEF Moves
<1>4. Shape'
  BY DEF IInv, Shape, Grows, Moves
<1>5. /\ \A d \in Clients \ {c} :
           /\ at'[d] = at[d] /\ request'[d] = request[d]
           /\ key_py'[d] = key_py[d] /\ recorded'[d] = recorded[d]
           /\ outcome'[d] = outcome[d]
  BY DEF IInv, Shape, Moves
<1>6. ASSUME NEW d \in Clients \ {c}
      PROVE  OnItsWay(d)' /\ Holds(d)' /\ EndsRight(d)'
  BY <1>5, <1>6, StandsStill DEF IInv
<1>7. \A i \in 1 .. at[c] - 1 : Decided(Path[i])' /\ Halt(Path[i])' = Pending
  <2> SUFFICES ASSUME NEW i \in 1 .. at[c] - 1
               PROVE  Decided(Path[i])' /\ Halt(Path[i])' = Pending
    OBVIOUS
  <2>1. PICK s \in AllStages : s = Path[i]
    BY <1>2, <1>3
  <2>2. Decided(s) /\ Halt(s) = Pending
    BY <2>1 DEF IInv, OnItsWay
  <2>3. Decided(s)' /\ Halt(s)' = Pending
    BY <2>2, DecidedStays
  <2> QED BY <1>1, <2>1, <2>3
<1>8. ~HasAsked(c) \/ "ask" \in DOMAIN answers
  BY DEF IInv, HasAsked, OnItsWay, Decided, Moves
<1>9. Decided(stage)' /\ Path[at[c]] = stage
  BY DEF Moves
<1>10. CASE Halt(stage)' = Pending
  <2>1. at'[c] = at[c] + 1 /\ outcome'[c] = Pending
    BY <1>10 DEF Moves, IInv, Shape
  <2>2. OnItsWay(c)'
    <3>1. ASSUME NEW i \in 1 .. at[c]
          PROVE  Decided(Path[i])' /\ Halt(Path[i])' = Pending
      BY <1>1, <1>3, <1>7, <1>10 DEF Moves
    <3> QED BY <1>1, <1>2, <1>3, <2>1, <3>1 DEF OnItsWay
  <2>3. EndsRight(c)'
    BY <2>1 DEF EndsRight
  <2>4. \A s : Passed(c, s)' <=> Passed(c, s) \/ s = stage
    BY <1>1, <1>3, <2>1 DEF Passed, Moves
  <2>5. request'[c] = IF Passed(c, "prepare")' THEN Prepare'.val ELSE <<>>
    BY <1>1, <1>10, <2>4 DEF Moves, IInv, Shape, Holds
  <2>6. key_py'[c] = IF Passed(c, "key")' THEN PreparedKey'.val ELSE <<>>
    BY <1>1, <1>10, <2>4 DEF Moves, IInv, Shape, Holds
  <2>7. HasAsked(c)' <=> HasAsked(c) \/ stage \in Asking
    BY <1>1, <1>3, <2>1 DEF HasAsked, Moves
  <2>8. recorded'[c] = IF HasAsked(c)' THEN Sample(answers["ask"])' ELSE <<>>
    BY <1>8, <2>7, SameAnswers DEF Moves, IInv, Shape, Holds
  <2> QED BY <1>4, <1>6, <2>2, <2>3, <2>5, <2>6, <2>8 DEF IInv, Holds
<1>11. CASE Halt(stage)' # Pending
  <2>1. at'[c] = at[c] /\ outcome'[c] = Halt(stage)'
    BY <1>11 DEF Moves, IInv, Shape
  <2>2. OnItsWay(c)'
    BY <1>1, <1>2, <1>3, <1>7, <2>1 DEF OnItsWay
  <2>3. EndsRight(c)'
    BY <1>1, <1>2, <1>3, <1>9, <2>1 DEF EndsRight, Moves
  <2>4. \A s : Passed(c, s)' <=> Passed(c, s)
    BY <1>1, <2>1 DEF Passed
  <2>5. request'[c] = IF Passed(c, "prepare")' THEN Prepare'.val ELSE <<>>
    BY <1>1, <1>11, <2>4 DEF Moves, IInv, Holds
  <2>6. key_py'[c] = IF Passed(c, "key")' THEN PreparedKey'.val ELSE <<>>
    BY <1>1, <1>11, <2>4 DEF Moves, IInv, Holds
  <2>7. HasAsked(c)' <=> HasAsked(c) \/ stage \in Asking
    BY <1>1, <1>2, <1>3, <1>11, <2>1 DEF HasAsked, Moves
  <2>8. recorded'[c] = IF HasAsked(c)' THEN Sample(answers["ask"])' ELSE <<>>
    BY <1>8, <2>7, SameAnswers DEF Moves, IInv, Shape, Holds
  <2> QED BY <1>4, <1>6, <2>2, <2>3, <2>5, <2>6, <2>8 DEF IInv, Holds
<1> QED BY <1>10, <1>11

\* Each action of a client is such a move, or its return.
LEMMA ActionsMove ==
  ASSUME IInv, NEW c \in Clients,
         \/ GetClient(c) \/ PrepareArgs(c) \/ ConvertKey(c)
         \/ AcquirePermit(c) \/ Ask(c) \/ AskBare(c) \/ AwaitTask(c)
  PROVE  Grows /\ \E stage : Moves(c, stage)
<1>1. Stages(c) = Path
  BY StagesArePath DEF IInv, Shape
<1>2. \A stage : Doing(c, stage) =>
        outcome[c] = Pending /\ at[c] \in DOMAIN Path /\ Path[at[c]] = stage
  BY <1>1 DEF Doing
<1>3. ASSUME call' = call
      PROVE  Prepare' = Prepare /\ PreparedKey' = PreparedKey
  BY <1>3, SameCall
<1>4. \A e : Raised(e) # Pending
  BY DEF Raised, Pending
<1>5. Escaped # Pending
  BY DEF Escaped, Pending
<1>6. CASE GetClient(c)
  <2>1. Grows
    BY <1>6 DEF GetClient, Grows
  <2>2. Halt("client")' = IF connected THEN Pending ELSE Raised(Plain("ClientError"))
    BY <1>6 DEF GetClient, Halt
  <2>3. Decided("client")'
    BY DEF Decided, Asking
  <2>4. Moves(c, "client")
    BY <1>2, <1>4, <1>6, <2>2, <2>3 DEF GetClient, Moves, Advance, End, Asking
  <2> QED BY <2>1, <2>4
<1>7. CASE PrepareArgs(c)
  <2>1. Grows
    BY <1>7 DEF PrepareArgs, Grows
  <2>2. Halt("prepare")' =
          IF Prepare.ok THEN Pending
          ELSE IF Prepare.err = "PanicException" THEN Escaped
               ELSE Raised(Plain(Prepare.err))
    BY <1>3, <1>7 DEF PrepareArgs, Halt
  <2>3. Decided("prepare")'
    BY DEF Decided, Asking
  <2>4. Moves(c, "prepare")
    BY <1>2, <1>4, <1>5, <1>7, <2>2, <2>3
       DEF PrepareArgs, Moves, Advance, End, Asking
  <2> QED BY <2>1, <2>4
<1>8. CASE ConvertKey(c)
  <2>1. Grows
    BY <1>8 DEF ConvertKey, Grows
  <2>2. request[c] = Prepare.val
    <3>1. at[c] \in 1 .. Len(Path) /\ Path[at[c]] = "key"
      BY <1>2, <1>8, PathFacts DEF ConvertKey
    <3>2. Passed(c, "prepare")
      BY <3>1, PathFacts DEF Passed
    <3> QED BY <3>2 DEF IInv, Holds
  <2>3. Halt("key")' =
          IF PreparedKey.ok THEN Pending ELSE Raised(Plain(PreparedKey.err))
    BY <1>3, <1>8 DEF ConvertKey, Halt
  <2>4. Decided("key")'
    BY DEF Decided, Asking
  <2>5. KeyToPy(request[c].items[1].key) = PreparedKey
    BY <2>2 DEF PreparedKey
  <2>6. Moves(c, "key")
    BY <1>2, <1>4, <1>8, <2>3, <2>4, <2>5
       DEF ConvertKey, Moves, Advance, End, Asking
  <2> QED BY <2>1, <2>6
<1>9. CASE AcquirePermit(c)
  <2>1. Grows /\ admission' # "undecided"
    BY <1>9 DEF AcquirePermit, Grows
  <2>2. Halt("permit")' = IF admission' = "granted" THEN Pending
                          ELSE Raised(Plain("BackpressureError"))
    BY DEF Halt
  <2>3. Decided("permit")'
    BY <2>1 DEF Decided, Asking
  <2>4. Moves(c, "permit")
    BY <1>2, <1>4, <1>9, <2>2, <2>3
       DEF AcquirePermit, Moves, Advance, End, Asking
  <2> QED BY <2>1, <2>4
<1>10. ASSUME NEW stage \in Asking, NEW panicked, Asked(c, stage, panicked),
              Halt(stage)' = MadeOf(answers["ask"], panicked)'
       PROVE  Grows /\ Moves(c, stage)
  <2>1. "ask" \in DOMAIN answers' /\ Grows
    BY <1>10, AnswerGrows DEF Asked, Grows
  <2>2. MadeOf(answers["ask"], panicked)' = MadeOf(answers'["ask"], panicked)
    BY <1>10 DEF Asked, MadeOf
  <2>3. Sample(answers["ask"])' = Sample(answers'["ask"])
    BY <1>10 DEF Asked, Sample
  <2>4. Decided(stage)'
    BY <1>10, <2>1 DEF Decided, Asking
  <2> QED BY <1>2, <1>10, <2>1, <2>2, <2>3, <2>4
          DEF Asked, Moves, Advance, End, Asking
<1>11. CASE Ask(c)
  BY <1>10, <1>11 DEF Ask, Halt, Asking
<1>12. CASE AskBare(c)
  BY <1>10, <1>12 DEF AskBare, Halt, Asking
<1>13. CASE AwaitTask(c)
  <2>1. "task" \in DOMAIN answers' /\ Grows
    BY <1>13, AnswerGrows DEF AwaitTask, Grows
  <2>2. Halt("task")' = IF answers'["task"][1] = "error"
                        THEN Raised(AsToPyErr(answers'["task"][2]))
                        ELSE Pending
    BY DEF Halt
  <2>3. Decided("task")'
    BY <2>1 DEF Decided, Asking
  <2>4. Moves(c, "task")
    BY <1>2, <1>4, <1>13, <2>2, <2>3 DEF AwaitTask, Moves, Advance, End, Asking
  <2> QED BY <2>1, <2>4
<1> QED BY <1>6, <1>7, <1>8, <1>9, <1>11, <1>12, <1>13

LEMMA ReturnKeeps ==
  ASSUME IInv, NEW c \in Clients, Return(c)
  PROVE  IInv'
<1>1. Path' = Path /\ Prepare' = Prepare /\ PreparedKey' = PreparedKey
  BY SameCall DEF Return
<1>2. Stages(c) = Path /\ at[c] = Len(Path) + 1
  BY StagesArePath DEF IInv, Shape, Return
<1>3. Grows /\ Shape'
  BY DEF Return, Grows, IInv, Shape, End
<1>4. ASSUME NEW d \in Clients \ {c}
      PROVE  OnItsWay(d)' /\ Holds(d)' /\ EndsRight(d)'
  BY <1>3, <1>4, StandsStill DEF IInv, Shape, Return, End
<1>5. /\ at'[c] = at[c] /\ request'[c] = request[c]
      /\ key_py'[c] = key_py[c] /\ recorded'[c] = recorded[c]
      /\ outcome'[c] = Final(request[c], key_py[c])
  BY DEF Return, End, Final, IInv, Shape
<1>6. Final(request[c], key_py[c])' = outcome'[c]
  BY <1>5 DEF Return, End, Final, Result
<1>7. EndsRight(c)'
  BY <1>1, <1>2, <1>5, <1>6 DEF EndsRight
<1>8. OnItsWay(c)'
  <2>1. \A s : Decided(s)' /\ Halt(s)' = Pending <=> Decided(s) /\ Halt(s) = Pending
    BY <1>1, <1>3 DEF Return, Decided, Halt, MadeOf
  <2> QED BY <1>1, <1>5, <2>1 DEF IInv, OnItsWay
<1>9. HasAsked(c)' <=> HasAsked(c)
  BY <1>1, <1>2, <1>5, PathFacts DEF HasAsked
<1>10. Holds(c)'
  BY <1>1, <1>5, <1>9 DEF IInv, Holds, Passed, Return, Sample
<1> QED BY <1>3, <1>4, <1>7, <1>8, <1>10 DEF IInv

\* Each client is where the shared decisions lead it and holds what the stages
\* it passed left there: the methods of client.rs and async_client.rs differ in
\* nothing else.
THEOREM Invariance == Spec => []IInv
<1>1. Init => IInv
  <2> SUFFICES ASSUME Init PROVE IInv
    OBVIOUS
  <2>1. Shape
    BY DEF Init, Shape
  <2>2. ASSUME NEW c \in Clients PROVE OnItsWay(c) /\ Holds(c) /\ EndsRight(c)
    <3>1. at[c] = 1 /\ outcome[c] = Pending
      BY DEF Init
    <3>2. ~HasAsked(c) /\ \A s : ~Passed(c, s)
      BY <3>1 DEF HasAsked, Passed
    <3>3. OnItsWay(c) /\ EndsRight(c)
      BY <3>1, PathFacts DEF OnItsWay, EndsRight
    <3>4. Holds(c)
      BY <3>2 DEF Holds, Init
    <3> QED BY <3>3, <3>4
  <2> QED BY <2>1, <2>2 DEF IInv
<1>2. IInv /\ [Next]_vars => IInv'
  <2> SUFFICES ASSUME IInv, [Next]_vars PROVE IInv'
    OBVIOUS
  <2>1. CASE Next
    <3>1. PICK c \in Clients :
            \/ GetClient(c) \/ PrepareArgs(c) \/ ConvertKey(c)
            \/ AcquirePermit(c) \/ Ask(c) \/ AskBare(c) \/ AwaitTask(c)
            \/ Return(c)
      BY <2>1 DEF Next
    <3>2. CASE Return(c)
      BY <3>2, ReturnKeeps
    <3>3. CASE ~Return(c)
      BY <3>1, <3>3, ActionsMove, MovesKeep
    <3> QED BY <3>2, <3>3
  <2>2. CASE UNCHANGED vars
    <3>1. Path' = Path /\ Prepare' = Prepare /\ PreparedKey' = PreparedKey
      BY <2>2, SameCall DEF vars
    <3>2. Shape'
      BY <2>2 DEF IInv, Shape, vars
    <3>3. Grows
      BY <2>2 DEF Grows, vars
    <3>4. ASSUME NEW c \in Clients PROVE OnItsWay(c)' /\ Holds(c)' /\ EndsRight(c)'
      BY <2>2, <3>3, StandsStill DEF IInv, vars
    <3> QED BY <3>2, <3>4 DEF IInv
  <2> QED BY <2>1, <2>2
<1> QED BY <1>1, <1>2, PTL DEF Spec

\* Two clients that have ended are at the same stage: the one that were ahead
\* would have passed the stage that ended the other.
LEMMA EndedTogether ==
  ASSUME IInv, NEW c \in Clients, NEW d \in Clients, Ended(c), Ended(d)
  PROVE  at[c] >= at[d]
<1> SUFFICES ASSUME at[c] < at[d] PROVE FALSE
  BY DEF IInv, OnItsWay
<1>1. at[c] \in 1 .. at[d] - 1 /\ at[c] # Len(Path) + 1
  BY PathFacts DEF IInv, OnItsWay
<1>2. Halt(Path[at[c]]) = Pending
  BY <1>1 DEF IInv, OnItsWay
<1>3. outcome[c] = Halt(Path[at[c]])
  BY <1>1 DEF IInv, EndsRight, Ended
<1> QED BY <1>2, <1>3 DEF Ended

\* A call that both clients have ended has ended alike on both, in its outcome
\* and in the sample it records, for every call and every answer: client.rs and
\* async_client.rs prepare, ask and convert in the same order.
THEOREM SameOutcome == Spec => []SameOutcomeOnBothClients
<1>1. IInv => SameOutcomeOnBothClients
  <2> SUFFICES ASSUME IInv, \A c \in Clients : Ended(c)
               PROVE  /\ outcome["sync"] = outcome["async"]
                      /\ recorded["sync"] = recorded["async"]
                      /\ request["sync"] = request["async"]
    BY DEF SameOutcomeOnBothClients
  <2>1. "sync" \in Clients /\ "async" \in Clients
    BY DEF Clients
  <2>2. at["sync"] = at["async"]
    <3>1. at["sync"] >= at["async"] /\ at["async"] >= at["sync"]
      BY <2>1, EndedTogether
    <3>2. at["sync"] \in Int /\ at["async"] \in Int
      BY <2>1, PathFacts DEF IInv, OnItsWay
    <3> QED BY <3>1, <3>2
  <2>3. \A s : Passed("sync", s) <=> Passed("async", s)
    BY <2>2 DEF Passed
  <2>4. request["sync"] = request["async"] /\ key_py["sync"] = key_py["async"]
    BY <2>1, <2>3 DEF IInv, Holds
  <2>5. outcome["sync"] = outcome["async"]
    BY <2>1, <2>2, <2>4 DEF IInv, EndsRight, Ended
  <2>6. HasAsked("sync") <=> HasAsked("async")
    BY <2>1, <2>2 DEF HasAsked, Ended
  <2>7. recorded["sync"] = recorded["async"]
    BY <2>1, <2>6 DEF IInv, Holds
  <2> QED BY <2>4, <2>5, <2>7
<1> QED BY <1>1, Invariance, PTL

----------------------------------------------------------------------------
(* The requests.  What a client has sent is what Prepare made of the call. *)

LEMMA SentIsPrepared ==
  ASSUME IInv, NEW c \in Clients, Sent(c)
  PROVE  Prepare.ok /\ request[c] = Prepare.val
<1>1. Passed(c, "prepare") /\ request[c] = Prepare.val
  BY DEF IInv, Holds, Sent
<1>2. Halt("prepare") = Pending
  BY <1>1 DEF IInv, OnItsWay, Passed
<1>3. \A e : Raised(e) # Pending
  BY DEF Raised, Pending
<1>4. Escaped # Pending
  BY DEF Escaped, Pending
<1> QED BY <1>1, <1>2, <1>3, <1>4 DEF Halt

LEMMA ListsAreSequences ==
  ASSUME NEW args \in Calls, NEW f \in DOMAIN Takes \cap Lists,
         args.method \in Takes[f]
  PROVE  DOMAIN args[f] = 1 .. Len(args[f]) /\ Len(args[f]) \in Nat
<1>1. args[f] \in Seq(Range(args[f]))
  BY CallsAssumption
<1> QED BY <1>1

\* The arguments of a call hold Python objects.
LEMMA ArgumentsAreObjects ==
  ASSUME NEW args \in Calls
  PROVE  /\ \A f \in DOMAIN args \cap {"key", "bins", "val", "args"} : args[f] \in Objects
         /\ \A f \in DOMAIN args \cap {"keys", "records", "names", "policy", "meta"} :
              \A i \in DOMAIN args[f] : args[f][i] \in Objects
         /\ \A f \in DOMAIN args \cap {"ops", "predicates", "privileges"} :
              \A i \in DOMAIN args[f] : \A j \in DOMAIN args[f][i] :
                args[f][i][j] \in Objects
<1>1. /\ PlainObjects(args) \subseteq Objects /\ ListedObjects(args) \subseteq Objects
      /\ NestedObjects(args) \subseteq Objects
  BY CallsAssumption DEF Arguments
<1>2. \A f \in DOMAIN args \cap {"key", "bins", "val", "args"} : args[f] \in Objects
  BY <1>1 DEF PlainObjects
<1>3. ASSUME NEW f \in DOMAIN args \cap {"keys", "records", "names", "policy", "meta"},
             NEW i \in DOMAIN args[f]
      PROVE  args[f][i] \in Objects
  <2>1. args[f][i] \in Range(args[f])
    BY DEF Range
  <2>2. Range(args[f]) \subseteq ListedObjects(args)
    BY DEF ListedObjects
  <2> QED BY <1>1, <2>1, <2>2
<1>4. ASSUME NEW f \in DOMAIN args \cap {"ops", "predicates", "privileges"},
             NEW i \in DOMAIN args[f], NEW j \in DOMAIN args[f][i]
      PROVE  args[f][i][j] \in Objects
  <2>1. args[f][i][j] \in Range(args[f][i])
    BY DEF Range
  <2>2. Range(args[f][i]) \in {Range(args[f][k]) : k \in DOMAIN args[f]}
    OBVIOUS
  <2>3. {Range(args[f][k]) : k \in DOMAIN args[f]}
          \in {{Range(args[g][k]) : k \in DOMAIN args[g]} :
                 g \in DOMAIN args \cap {"ops", "predicates", "privileges"}}
    OBVIOUS
  <2>4. Range(args[f][i]) \subseteq NestedObjects(args)
    BY <2>2, <2>3 DEF NestedObjects
  <2> QED BY <1>1, <2>1, <2>4
<1> QED BY <1>2, <1>3, <1>4

\* A call has the arguments its method takes.
LEMMA ArgumentsTaken ==
  ASSUME NEW args \in Calls
  PROVE  /\ \A f \in DOMAIN Takes : args.method \in Takes[f] => f \in DOMAIN args
         /\ \A f \in DOMAIN args \cap Lists : DOMAIN args[f] \subseteq Nat
         /\ "policy" \in DOMAIN args
<1>1. \A f \in DOMAIN args \cap Lists : args[f] \in Seq(Range(args[f]))
  BY CallsAssumption
<1> HIDE DEF Lists
<1>2. ASSUME NEW f \in DOMAIN args \cap Lists PROVE DOMAIN args[f] \subseteq Nat
  <2>1. args[f] \in Seq(Range(args[f]))
    BY <1>1
  <2> QED BY <2>1
<1> QED BY <1>2, CallsAssumption

\* A set of numbers that is not empty has a least element.
LEMMA SmallestNumber ==
  ASSUME NEW S \in SUBSET Nat, S # {}
  PROVE  Min(S) \in S /\ \A y \in S : Min(S) <= y
<1> DEFINE R == {ss \in Nat \X Nat : ss[1] < ss[2]}
<1>1. IsWellFoundedOn(R, Nat)
  BY NatLessThanWellFounded DEF OpToRel
<1> HIDE DEF R
<1>2. PICK x \in S : \A y \in S : ~(<<y, x>> \in R)
  BY <1>1, WFMin
<1>3. ASSUME NEW y \in S PROVE x <= y
  <2>1. <<y, x>> \in Nat \X Nat
    OBVIOUS
  <2>2. ~(<<y, x>>[1] < <<y, x>>[2])
    BY <1>2, <2>1 DEF R
  <2> QED BY <2>1, <2>2
<1> QED BY <1>3 DEF Min

\* Collecting succeeds where every item does, else with an item's failure.
LEMMA CollectedAll ==
  ASSUME NEW results, DOMAIN results \subseteq Nat, Collected(results).ok
  PROVE  /\ \A i \in DOMAIN results : results[i].ok
         /\ Collected(results).val = [i \in DOMAIN results |-> results[i].val]
<1> DEFINE failing == {i \in DOMAIN results : ~results[i].ok}
<1>1. CASE failing = {}
  BY <1>1 DEF Collected, Done
<1>2. CASE failing # {}
  <2>1. Min(failing) \in failing
    BY <1>2, SmallestNumber
  <2>2. Collected(results) = results[Min(failing)]
    BY <1>2 DEF Collected
  <2> QED BY <2>1, <2>2
<1> QED BY <1>1, <1>2

LEMMA CollectedFails ==
  ASSUME NEW results, DOMAIN results \subseteq Nat, ~Collected(results).ok
  PROVE  \E i \in DOMAIN results :
           ~results[i].ok /\ Collected(results) = results[i]
<1> DEFINE failing == {i \in DOMAIN results : ~results[i].ok}
<1>1. failing # {}
  BY DEF Collected, Done
<1>2. Min(failing) \in failing
  BY <1>1, SmallestNumber
<1>3. Collected(results) = results[Min(failing)]
  BY <1>1 DEF Collected
<1> QED BY <1>2, <1>3

LEMMA CollectedSucceeds ==
  ASSUME NEW results, \A i \in DOMAIN results : results[i].ok
  PROVE  /\ Collected(results).ok
         /\ Collected(results).val = [i \in DOMAIN results |-> results[i].val]
BY DEF Collected, Done

----------------------------------------------------------------------------
(* batch_operate *)

LEMMA ReadOpsAreRead ==
  \A op \in DOMAIN Steps : OpCodeIsWrite(op) <=> CoreTakesForWrite(op)
<1> DEFINE Agrees(table) ==
      \A op \in DOMAIN table : OpCodeIsWrite(op) <=> CoreTakesForWrite(op)
<1>1. Agrees(BasicOps)
  BY DEF BasicOps, OpCodeIsWrite, ReadOps, CoreTakesForWrite, ListReads, MapReads
<1>2. Agrees(ListReads)
  BY DEF OpCodeIsWrite, ReadOps, CoreTakesForWrite, ListReads
<1>3. Agrees(ListWrites)
  BY DEF ListWrites, OpCodeIsWrite, ReadOps, CoreTakesForWrite, ListReads, MapReads
<1>4. Agrees(ListRemovals)
  BY DEF ListRemovals, OpCodeIsWrite, ReadOps, CoreTakesForWrite, ListReads, MapReads
<1>5. Agrees(MapReads)
  BY DEF OpCodeIsWrite, ReadOps, CoreTakesForWrite, MapReads
<1>6. Agrees(MapRemovals)
  BY DEF MapRemovals, OpCodeIsWrite, ReadOps, CoreTakesForWrite, ListReads, MapReads
<1>7. Agrees(MapWrites)
  BY DEF MapWrites, OpCodeIsWrite, ReadOps, CoreTakesForWrite, ListReads, MapReads
<1>8. Agrees(HllOps)
  BY DEF HllOps, OpCodeIsWrite, ReadOps, CoreTakesForWrite, ListReads, MapReads
<1>9. Agrees(BitOps)
  BY DEF BitOps, OpCodeIsWrite, ReadOps, CoreTakesForWrite, ListReads, MapReads
<1>10. \A f, g : Agrees(f) /\ Agrees(g) => Agrees(Join(f, g))
  BY JoinDomain
<1> HIDE DEF Agrees
<1>11. Agrees(Steps)
  BY ONLY <1>1, <1>2, <1>3, <1>4, <1>5, <1>6, <1>7, <1>8, <1>9, <1>10 DEF Steps
<1> QED BY <1>11 DEF Agrees

\* An operation that is parsed is one of those there are.
LEMMA ParsedOperation ==
  ASSUME NEW d, ToOperation(d).ok
  PROVE  ToOperation(d).val[1] \in DOMAIN Steps
BY DEF ToOperation, Then, Done, Failed

LEMMA ParsedOperations ==
  ASSUME NEW dicts, DOMAIN dicts \subseteq Nat, ToOperations(dicts).ok
  PROVE  LET parsed == ToOperations(dicts).val
         IN parsed.writes
              <=> \E i \in DOMAIN parsed.ops : CoreTakesForWrite(parsed.ops[i][1])
<1> DEFINE results == [i \in DOMAIN dicts |-> ToOperation(dicts[i])]
           parsed == ToOperations(dicts).val
<1>1. /\ Collected(results).ok
      /\ parsed.ops = Collected(results).val
      /\ parsed.writes <=> \E i \in DOMAIN parsed.ops : OpCodeIsWrite(parsed.ops[i][1])
  BY DEF ToOperations, Then, Done
<1>2. /\ \A i \in DOMAIN results : results[i].ok
      /\ parsed.ops = [i \in DOMAIN results |-> results[i].val]
  BY <1>1, CollectedAll
<1>3. \A i \in DOMAIN parsed.ops : parsed.ops[i][1] \in DOMAIN Steps
  BY <1>2, ParsedOperation
<1> QED BY <1>1, <1>3, ReadOpsAreRead

\* What batch_operate sends is what the core's encoder takes, for every list of
\* operations: prepare_batch_operate_args makes batch writes of them exactly
\* when one of them writes.
THEOREM BatchOperateEncodable == Spec => []BatchOperateIsEncodable
<1>1. IInv => BatchOperateIsEncodable
  <2> SUFFICES ASSUME IInv, NEW c \in Clients, Sent(c),
                      call.method = "batch_operate",
                      NEW i \in DOMAIN request[c].items
               PROVE  LET ops == request[c].items[i].body
                      IN request[c].verb = "write"
                           <=> \E j \in DOMAIN ops : CoreTakesForWrite(ops[j][1])
    BY DEF BatchOperateIsEncodable
  <2> DEFINE parsed == ToOperations(call.ops)
  <2>1. Prepare = PrepareBatchOperate(call)
    BY DEF Prepare
  <2>2. PrepareBatchOperate(call).ok /\ request[c] = PrepareBatchOperate(call).val
    BY <2>1, SentIsPrepared
  <2>3. /\ parsed.ok
        /\ request[c].verb = IF parsed.val.writes THEN "write" ELSE "read_ops"
        /\ request[c].items[i].body = parsed.val.ops
    BY <2>2 DEF PrepareBatchOperate, Then, Done, Request, Item
  <2>4. DOMAIN call.ops \subseteq Nat
    BY ListsAreSequences DEF IInv, Shape, Takes, Lists
  <2> QED BY <2>3, <2>4, ParsedOperations
<1> QED BY <1>1, Invariance, PTL

----------------------------------------------------------------------------
(* Policies *)

\* What a parser makes of its fields, when it makes anything.
LEMMA FieldsParsed ==
  ASSUME NEW policy, NEW dict, NEW fields, DOMAIN fields \subseteq Nat,
         ParseFields(policy, dict, fields).ok
  PROVE  \E settings :
           /\ DOMAIN settings = DOMAIN fields
           /\ \A i \in DOMAIN fields :
                /\ PolicySets(dict, fields[i]).ok
                /\ settings[i] = PolicySets(dict, fields[i]).val
           /\ ParseFields(policy, dict, fields).val = Overlaid(policy, settings)
<1> DEFINE results == [i \in DOMAIN fields |-> PolicySets(dict, fields[i])]
<1>1. /\ Collected(results).ok
      /\ ParseFields(policy, dict, fields).val
           = Overlaid(policy, Collected(results).val)
  BY DEF ParseFields, Then, Done
<1>2. /\ \A i \in DOMAIN results : results[i].ok
      /\ Collected(results).val = [i \in DOMAIN results |-> results[i].val]
  BY <1>1, CollectedAll
<1> QED BY <1>1, <1>2

LEMMA MetaParsed ==
  ASSUME NEW policy, NEW meta, NEW fields, DOMAIN fields \subseteq Nat,
         ReadMeta(policy, meta, fields).ok
  PROVE  \E settings :
           /\ DOMAIN settings = DOMAIN fields
           /\ \A i \in DOMAIN fields :
                /\ MetaSets(meta, fields[i]).ok
                /\ settings[i] = MetaSets(meta, fields[i]).val
           /\ ReadMeta(policy, meta, fields).val = Overlaid(policy, settings)
<1> DEFINE results == [i \in DOMAIN fields |-> MetaSets(meta, fields[i])]
<1>1. /\ Collected(results).ok
      /\ ReadMeta(policy, meta, fields).val
           = Overlaid(policy, Collected(results).val)
  BY DEF ReadMeta, Then, Done
<1>2. /\ \A i \in DOMAIN results : results[i].ok
      /\ Collected(results).val = [i \in DOMAIN results |-> results[i].val]
  BY <1>1, CollectedAll
<1> QED BY <1>1, <1>2

\* A field that is there is an attribute of what is parsed.
LEMMA FieldIsSet ==
  ASSUME NEW policy, NEW dict, NEW fields, DOMAIN fields \subseteq Nat,
         ParseFields(policy, dict, fields).ok,
         NEW i \in DOMAIN fields, fields[i] # "gen", Present(dict, fields[i])
  PROVE  fields[i] \in DOMAIN ParseFields(policy, dict, fields).val
<1>1. PICK settings :
        /\ DOMAIN settings = DOMAIN fields
        /\ \A j \in DOMAIN fields :
             /\ PolicySets(dict, fields[j]).ok
             /\ settings[j] = PolicySets(dict, fields[j]).val
        /\ ParseFields(policy, dict, fields).val = Overlaid(policy, settings)
  BY FieldsParsed
<1>2. DOMAIN settings[i] = {fields[i]}
  BY <1>1 DEF PolicySets, Then, Done, Setting
<1> QED BY <1>1, <1>2 DEF Overlaid

\* The lists of fields the parsers read, with their filter.
\* Every field some policy dict or meta dict may have.
AllFields ==
  {"socket_timeout", "total_timeout", "max_retries", "sleep_between_retries",
   "timeout_delay", "filter_expression", "durable_delete", "key", "exists",
   "gen", "commit_level", "ttl", "read_mode_ap", "read_touch_ttl_percent",
   "replica", "max_records", "records_per_second", "max_concurrent_nodes",
   "record_queue_size", "include_bin_data", "expected_duration",
   "partition_filter", "allow_inline", "allow_inline_ssd",
   "respond_all_keys", "concurrency", "timeout"}

HasFilter(fields) ==
  /\ DOMAIN fields \subseteq Nat
  /\ \E i \in DOMAIN fields : fields[i] = "filter_expression"

LEMMA FilterAppended ==
  ASSUME NEW s \in Seq(AllFields), NEW t \in Seq(AllFields)
  PROVE  HasFilter(s \o Filter) /\ HasFilter((s \o Filter) \o t)
<1>1. Filter \in Seq(AllFields) /\ Len(Filter) = 1 /\ Filter[1] = "filter_expression"
  BY DEF Filter, AllFields
<1>2. /\ s \o Filter \in Seq(AllFields)
      /\ Len(s \o Filter) = Len(s) + 1
      /\ (s \o Filter)[Len(s) + 1] = "filter_expression"
  <2>1. /\ s \o Filter \in Seq(AllFields)
        /\ Len(s \o Filter) = Len(s) + Len(Filter)
        /\ \A i \in 1 .. Len(s) + Len(Filter) :
             (s \o Filter)[i] = IF i <= Len(s) THEN s[i] ELSE Filter[i - Len(s)]
    BY <1>1, ConcatProperties
  <2>2. Len(s) \in Nat
    OBVIOUS
  <2>3. (s \o Filter)[Len(s) + 1] = Filter[1]
    BY ONLY <1>1, <2>1, <2>2
  <2> QED BY <1>1, <2>1, <2>3
<1>3. /\ (s \o Filter) \o t \in Seq(AllFields)
      /\ Len((s \o Filter) \o t) >= Len(s) + 1
      /\ ((s \o Filter) \o t)[Len(s) + 1] = "filter_expression"
  BY <1>2, ConcatProperties
<1>4. HasFilter(s \o Filter)
  BY <1>2 DEF HasFilter
<1>5. HasFilter((s \o Filter) \o t)
  BY <1>3 DEF HasFilter
<1> QED BY <1>4, <1>5

LEMMA TimingFields == Timing \in Seq(AllFields)
BY DEF Timing, AllFields

Filtered(parsed) == parsed.ok => "filter_expression" \in DOMAIN parsed.val

LEMMA ParsedIsFiltered ==
  ASSUME NEW policy, NEW dict, NEW fields, HasFilter(fields),
         Present(dict, "filter_expression")
  PROVE  Filtered(ParseFields(policy, dict, fields))
BY FieldIsSet DEF HasFilter, Filtered

\* Every parser of a policy that can hold a filter reads it.
LEMMA ParsersReadFilters ==
  ASSUME NEW dict, Present(dict, "filter_expression")
  PROVE  /\ \A meta : Filtered(ParseWritePolicy(dict, meta))
         /\ Filtered(ParseReadPolicy(dict))
         /\ Filtered(ParseQueryPolicy(dict))
         /\ Filtered(ParseBatchPolicy(dict))
<1>1. ASSUME NEW meta PROVE Filtered(ParseWritePolicy(dict, meta))
  <2> DEFINE own == <<"durable_delete", "key", "exists", "gen",
                      "commit_level", "ttl", "read_mode_ap",
                      "read_touch_ttl_percent">>
  <2>1. own \in Seq(AllFields)
    BY DEF AllFields
  <2>2. Timing \o own \in Seq(AllFields)
    BY <2>1, TimingFields, ConcatProperties
  <2>3. HasFilter((Timing \o own) \o Filter)
    BY <2>2, FilterAppended, <2>1
  <2>4. \A base : Filtered(ParseFields(base, dict, (Timing \o own) \o Filter))
    BY <2>3, ParsedIsFiltered
  <2> QED BY <2>4 DEF ParseWritePolicy, Then, Filtered
<1>2. Filtered(ParseReadPolicy(dict))
  <2> DEFINE own == <<"replica", "read_mode_ap", "read_touch_ttl_percent">>
  <2>1. own \in Seq(AllFields)
    BY DEF AllFields
  <2>2. Timing \o own \in Seq(AllFields)
    BY <2>1, TimingFields, ConcatProperties
  <2>3. HasFilter((Timing \o own) \o Filter)
    BY <2>2, FilterAppended, <2>1
  <2> QED BY <2>3, ParsedIsFiltered DEF ParseReadPolicy
<1>3. Filtered(ParseQueryPolicy(dict))
  <2> DEFINE own == <<"max_records", "records_per_second",
                      "max_concurrent_nodes", "record_queue_size",
                      "include_bin_data", "replica", "read_mode_ap",
                      "read_touch_ttl_percent", "expected_duration">>
             last == <<"partition_filter">>
  <2>1. own \in Seq(AllFields) /\ last \in Seq(AllFields)
    BY DEF AllFields
  <2>2. Timing \o own \in Seq(AllFields)
    BY <2>1, TimingFields, ConcatProperties
  <2>3. HasFilter(((Timing \o own) \o Filter) \o last)
    BY <2>1, <2>2, FilterAppended
  <2> QED BY <2>3, ParsedIsFiltered DEF ParseQueryPolicy
<1>4. Filtered(ParseBatchPolicy(dict))
  <2> DEFINE own == <<"allow_inline", "allow_inline_ssd",
                      "respond_all_keys", "replica", "read_mode_ap",
                      "read_touch_ttl_percent", "concurrency">>
  <2>1. own \in Seq(AllFields)
    BY DEF AllFields
  <2>2. Timing \o own \in Seq(AllFields)
    BY <2>1, TimingFields, ConcatProperties
  <2>3. HasFilter((Timing \o own) \o Filter)
    BY <2>2, FilterAppended, <2>1
  <2> QED BY <2>3, ParsedIsFiltered DEF ParseBatchPolicy
<1> QED BY <1>1, <1>2, <1>3, <1>4

\* What a preparation that succeeds sends has the filter.
Reaches(prepared) ==
  prepared.ok =>
    \/ "filter_expression" \in DOMAIN prepared.val.batch
    \/ \A i \in DOMAIN prepared.val.items :
         "filter_expression" \in DOMAIN prepared.val.items[i].policy

LEMMA SingleReaches ==
  ASSUME NEW verb, NEW key, NEW policy, NEW body,
         "filter_expression" \in DOMAIN policy
  PROVE  Reaches(Single(verb, key, policy, body))
BY DEF Reaches, Single, Request, Item, Done

LEMMA BatchReaches ==
  ASSUME NEW verb, NEW batch, NEW items, "filter_expression" \in DOMAIN batch
  PROVE  Reaches(Request(verb, batch, items))
BY DEF Reaches, Request, Done

LEMMA SinglePreparationsReach ==
  ASSUME NEW args, Present(args.policy, "filter_expression")
  PROVE  /\ Reaches(PreparePut(args))
         /\ Reaches(PrepareGet(args))
         /\ Reaches(PrepareSelect(args))
         /\ Reaches(PrepareExists(args))
         /\ Reaches(PrepareApply(args))
         /\ Reaches(PrepareQuery(args))
         /\ Reaches(PrepareRemove(args))
         /\ Reaches(PrepareTouch(args))
         /\ Reaches(PrepareSingleBinWrite(args))
         /\ Reaches(PrepareIncrement(args))
         /\ Reaches(PrepareRemoveBin(args))
         /\ Reaches(PrepareOperate(args))
<1>1. /\ \A meta : Filtered(ParseWritePolicy(args.policy, meta))
      /\ Filtered(ParseReadPolicy(args.policy))
      /\ Filtered(ParseQueryPolicy(args.policy))
  BY ParsersReadFilters
<1>2. Reaches(PreparePut(args))
  BY <1>1, SingleReaches DEF PreparePut, Then, Filtered, Reaches, Failed
<1>3. Reaches(PrepareGet(args))
  BY <1>1, SingleReaches DEF PrepareGet, Then, Filtered, Reaches
<1>4. Reaches(PrepareSelect(args))
  BY <1>1, SingleReaches DEF PrepareSelect, Then, Filtered, Reaches
<1>5. Reaches(PrepareExists(args))
  BY <1>1, SingleReaches DEF PrepareExists, Then, Filtered, Reaches
<1>6. Reaches(PrepareApply(args))
  BY <1>1, SingleReaches DEF PrepareApply, Then, Filtered, Reaches
<1>7. Reaches(PrepareQuery(args))
  BY <1>1, SingleReaches DEF PrepareQuery, Then, Filtered, Reaches
<1>8. Reaches(PrepareRemove(args))
  BY <1>1, SingleReaches DEF PrepareRemove, KeyAndPolicy, Then, Filtered, Reaches
<1>9. Reaches(PrepareTouch(args))
  <2>1. \A policy, v : "filter_expression" \in DOMAIN policy
          => "filter_expression" \in DOMAIN Join(Setting("ttl", v), policy)
    BY JoinDomain
  <2> QED BY <1>1, <2>1, SingleReaches
          DEF PrepareTouch, KeyAndPolicy, Then, Filtered, Reaches
<1>10. Reaches(PrepareSingleBinWrite(args))
  BY <1>1, SingleReaches
     DEF PrepareSingleBinWrite, KeyAndPolicy, Then, Filtered, Reaches
<1>11. Reaches(PrepareIncrement(args))
  BY <1>1, SingleReaches
     DEF PrepareIncrement, KeyAndPolicy, Then, Filtered, Reaches, Failed
<1>12. Reaches(PrepareRemoveBin(args))
  BY <1>1, SingleReaches
     DEF PrepareRemoveBin, KeyAndPolicy, Then, Filtered, Reaches
<1>13. Reaches(PrepareOperate(args))
  BY <1>1, SingleReaches
     DEF PrepareOperate, KeyAndPolicy, Then, Filtered, Reaches
<1> QED
  BY <1>2, <1>3, <1>4, <1>5, <1>6, <1>7, <1>8, <1>9, <1>10, <1>11, <1>12, <1>13

LEMMA BatchPreparationsReach ==
  ASSUME NEW args, Present(args.policy, "filter_expression")
  PROVE  /\ Reaches(PrepareBatchRead(args))
         /\ Reaches(PrepareBatchOperate(args))
         /\ Reaches(PrepareBatchRemove(args))
         /\ Reaches(PrepareBatchApply(args))
         /\ Reaches(PrepareBatchWrite(args))
         /\ Reaches(PrepareBatchWriteNumpy(args))
<1>1. Filtered(ParseBatchPolicy(args.policy))
  BY ParsersReadFilters
<1>2. Reaches(PrepareBatchRead(args))
  BY <1>1, BatchReaches DEF PrepareBatchRead, Then, Filtered, Reaches
<1>3. Reaches(PrepareBatchOperate(args))
  BY <1>1, BatchReaches DEF PrepareBatchOperate, Then, Filtered, Reaches
<1>4. Reaches(PrepareBatchRemove(args))
  BY <1>1, BatchReaches DEF PrepareBatchRemove, Then, Filtered, Reaches
<1>5. Reaches(PrepareBatchApply(args))
  BY <1>1, BatchReaches DEF PrepareBatchApply, Then, Filtered, Reaches
<1>6. Reaches(PrepareBatchWrite(args))
  BY <1>1, BatchReaches DEF PrepareBatchWrite, Then, Filtered, Reaches
<1>7. Reaches(PrepareBatchWriteNumpy(args))
  BY <1>1, BatchReaches DEF PrepareBatchWriteNumpy, Then, Filtered, Reaches
<1> QED BY <1>2, <1>3, <1>4, <1>5, <1>6, <1>7

\* The filter expression of a policy dict is in the request, for every method,
\* policy and key: no parser of policy/ drops it, no per-record meta undoes it.
THEOREM FilterAlwaysSent == Spec => []FilterIsSent
<1>1. IInv => FilterIsSent
  <2> SUFFICES ASSUME IInv, NEW c \in Clients, Sent(c),
                      call.method \in DOMAIN OperationName \cup {"apply"},
                      Present(call.policy, "filter_expression")
               PROVE  \/ "filter_expression" \in DOMAIN request[c].batch
                      \/ \A i \in DOMAIN request[c].items :
                           "filter_expression" \in DOMAIN request[c].items[i].policy
    BY DEF FilterIsSent
  <2>1. Prepare.ok /\ request[c] = Prepare.val
    BY SentIsPrepared
  <2>2. call.method \in
          {"put", "get", "select", "exists", "touch", "append", "prepend",
           "increment", "remove_bin", "operate", "operate_ordered", "remove",
           "batch_read", "batch_operate", "batch_remove", "batch_apply",
           "batch_write", "batch_write_numpy", "query", "apply"}
    BY JoinDomain
       DEF OperationName, RecordOperations, BatchOperations, QueryOperation
  <2>3. Reaches(Prepare)
    <3>1. CASE call.method \in {"put", "get", "select", "exists", "apply", "query"}
      BY <3>1, SinglePreparationsReach DEF Prepare
    <3>2. CASE call.method \in {"remove", "touch", "append", "prepend",
                                "increment", "remove_bin", "operate",
                                "operate_ordered"}
      BY <3>2, SinglePreparationsReach DEF Prepare
    <3>3. CASE call.method \in {"batch_read", "batch_operate", "batch_remove",
                                "batch_apply", "batch_write",
                                "batch_write_numpy"}
      BY <3>3, BatchPreparationsReach DEF Prepare
    <3> QED BY <2>2, <3>1, <3>2, <3>3
  <2> QED BY <2>1, <2>3 DEF Reaches
<1> QED BY <1>1, Invariance, PTL

----------------------------------------------------------------------------
(* Generations *)

\* The policy has the server check the generation.
Checks(policy, obj) ==
  /\ "generation" \in DOMAIN policy
  /\ policy["generation"] = Number(obj)
  /\ "generation_policy" \in DOMAIN policy
  /\ policy["generation_policy"] = "ExpectGenEqual"

\* The settings laid over a policy that set an attribute of it: none, or one.
LEMMA OverlaidByNone ==
  ASSUME NEW policy, NEW settings, NEW attr \in DOMAIN policy,
         \A i \in DOMAIN settings : attr \notin DOMAIN settings[i]
  PROVE  /\ attr \in DOMAIN Overlaid(policy, settings)
         /\ Overlaid(policy, settings)[attr] = policy[attr]
BY DEF Overlaid

LEMMA OverlaidByOne ==
  ASSUME NEW policy, NEW settings, NEW attr, DOMAIN settings \subseteq Nat,
         NEW k \in DOMAIN settings,
         \A i \in DOMAIN settings : attr \in DOMAIN settings[i] <=> i = k
  PROVE  /\ attr \in DOMAIN Overlaid(policy, settings)
         /\ Overlaid(policy, settings)[attr] = settings[k][attr]
<1>1. {i \in DOMAIN settings : attr \in DOMAIN settings[i]} = {k}
  OBVIOUS
<1>2. Max({k}) = k
  BY DEF Max
<1> QED BY <1>1, <1>2 DEF Overlaid

LEMMA U32Number ==
  ASSUME NEW obj, U32(obj).ok
  PROVE  U32(obj).val = Number(obj)
BY DEF U32, Integer, Done, Failed

\* A generation in the meta is the one the policy checks.
LEMMA MetaChecks ==
  ASSUME NEW policy, NEW meta, NEW fields, DOMAIN fields \subseteq Nat,
         NEW k \in DOMAIN fields,
         \A i \in DOMAIN fields :
           fields[i] \in AllFields /\ (fields[i] = "gen" <=> i = k),
         "gen" \in DOMAIN meta, ReadMeta(policy, meta, fields).ok
  PROVE  Checks(ReadMeta(policy, meta, fields).val, meta["gen"])
<1>1. PICK settings :
        /\ DOMAIN settings = DOMAIN fields
        /\ \A i \in DOMAIN fields :
             /\ MetaSets(meta, fields[i]).ok
             /\ settings[i] = MetaSets(meta, fields[i]).val
        /\ ReadMeta(policy, meta, fields).val = Overlaid(policy, settings)
  BY MetaParsed
<1>2. settings[k] = [generation |-> Number(meta["gen"]),
                     generation_policy |-> "ExpectGenEqual"]
  <2>1. MetaSets(meta, "gen") =
          IF U32(meta["gen"]).ok
          THEN Done([generation |-> U32(meta["gen"]).val,
                     generation_policy |-> "ExpectGenEqual"])
          ELSE U32(meta["gen"])
    BY DEF MetaSets, Then
  <2>2. MetaSets(meta, "gen").ok /\ settings[k] = MetaSets(meta, "gen").val
    BY <1>1
  <2> QED BY <2>1, <2>2, U32Number DEF Done
<1>3. ASSUME NEW i \in DOMAIN fields, i # k
      PROVE  DOMAIN settings[i] \subseteq AllFields
  <2>1. fields[i] # "gen" /\ fields[i] \in AllFields
    BY <1>3
  <2>2. MetaSets(meta, fields[i]).ok
          => DOMAIN MetaSets(meta, fields[i]).val \subseteq {fields[i]}
    BY <2>1 DEF MetaSets, Then, Done, Setting
  <2> QED BY <1>1, <2>1, <2>2
<1>4. "generation" \notin AllFields /\ "generation_policy" \notin AllFields
  BY DEF AllFields
<1>5. \A i \in DOMAIN settings :
        /\ "generation" \in DOMAIN settings[i] <=> i = k
        /\ "generation_policy" \in DOMAIN settings[i] <=> i = k
  BY <1>1, <1>2, <1>3, <1>4
<1>6. /\ "generation" \in DOMAIN Overlaid(policy, settings)
      /\ Overlaid(policy, settings)["generation"] = Number(meta["gen"])
  BY <1>1, <1>2, <1>5, OverlaidByOne
<1>7. /\ "generation_policy" \in DOMAIN Overlaid(policy, settings)
      /\ Overlaid(policy, settings)["generation_policy"] = "ExpectGenEqual"
  BY <1>1, <1>2, <1>5, OverlaidByOne
<1> QED BY <1>1, <1>6, <1>7 DEF Checks

\* A policy dict without a "gen" leaves it so.
LEMMA FieldsKeepCheck ==
  ASSUME NEW policy, NEW dict, NEW fields, DOMAIN fields \subseteq Nat,
         \A i \in DOMAIN fields : fields[i] \in AllFields,
         NEW obj, Checks(policy, obj), "gen" \notin DOMAIN dict,
         ParseFields(policy, dict, fields).ok
  PROVE  Checks(ParseFields(policy, dict, fields).val, obj)
<1>1. PICK settings :
        /\ DOMAIN settings = DOMAIN fields
        /\ \A i \in DOMAIN fields :
             /\ PolicySets(dict, fields[i]).ok
             /\ settings[i] = PolicySets(dict, fields[i]).val
        /\ ParseFields(policy, dict, fields).val = Overlaid(policy, settings)
  BY FieldsParsed
<1>2. ASSUME NEW i \in DOMAIN fields
      PROVE  DOMAIN settings[i] \subseteq AllFields
  <2>1. PolicySets(dict, fields[i]).ok
          => DOMAIN PolicySets(dict, fields[i]).val \subseteq {fields[i]}
    BY DEF PolicySets, Present, Then, Done, Setting
  <2> QED BY <1>1, <2>1
<1>3. "generation" \notin AllFields /\ "generation_policy" \notin AllFields
  BY DEF AllFields
<1> QED BY <1>1, <1>2, <1>3, OverlaidByNone DEF Checks

LEMMA WritePolicyChecks ==
  ASSUME NEW policy, NEW meta, "gen" \in DOMAIN meta,
         "gen" \notin DOMAIN policy, ParseWritePolicy(policy, meta).ok
  PROVE  Checks(ParseWritePolicy(policy, meta).val, meta["gen"])
<1> DEFINE own == <<"durable_delete", "key", "exists", "gen", "commit_level",
                    "ttl", "read_mode_ap", "read_touch_ttl_percent">>
           of_meta == <<"gen", "ttl", "key", "exists", "commit_level",
                        "durable_delete">>
           fields == (Timing \o own) \o Filter
           base == ReadMeta(DefaultWritePolicy, meta, of_meta)
<1>1. fields \in Seq(AllFields)
  <2>1. own \in Seq(AllFields) /\ Filter \in Seq(AllFields)
    BY DEF AllFields, Filter
  <2>2. Timing \o own \in Seq(AllFields)
    BY <2>1, TimingFields, ConcatProperties
  <2> QED BY <2>1, <2>2, ConcatProperties
<1>2. base.ok /\ ParseFields(base.val, policy, fields).ok
  BY DEF ParseWritePolicy, Then
<1>3. ParseWritePolicy(policy, meta) = ParseFields(base.val, policy, fields)
  BY <1>2 DEF ParseWritePolicy, Then
<1>4. Checks(base.val, meta["gen"])
  <2>1. /\ DOMAIN of_meta = 1 .. 6 /\ of_meta[1] = "gen"
        /\ \A i \in 1 .. 6 :
             of_meta[i] \in AllFields /\ (of_meta[i] = "gen" <=> i = 1)
    BY DEF AllFields
  <2> HIDE DEF of_meta
  <2> QED BY <1>2, <2>1, MetaChecks
<1>5. DOMAIN fields \subseteq Nat /\ \A i \in DOMAIN fields : fields[i] \in AllFields
  BY <1>1, ElementOfSeq
<1> HIDE DEF fields, base
<1> QED BY <1>2, <1>3, <1>4, <1>5, FieldsKeepCheck

LEMMA RecordMetaChecks ==
  ASSUME NEW base, NEW meta, "gen" \in DOMAIN meta
  PROVE  /\ ApplyRecordMeta(base, meta).ok
              => Checks(ApplyRecordMeta(base, meta).val, meta["gen"])
         /\ ApplyRecordMetaForDelete(base, meta).ok
              => Checks(ApplyRecordMetaForDelete(base, meta).val, meta["gen"])
<1> DEFINE written == <<"ttl", "gen", "key", "exists", "commit_level",
                        "durable_delete">>
           deleted == <<"gen", "key", "commit_level", "durable_delete">>
<1>1. /\ DOMAIN written = 1 .. 6 /\ 2 \in 1 .. 6
      /\ \A i \in 1 .. 6 :
           written[i] \in AllFields /\ (written[i] = "gen" <=> i = 2)
  BY DEF AllFields
<1>2. /\ DOMAIN deleted = 1 .. 4 /\ 1 \in 1 .. 4
      /\ \A i \in 1 .. 4 :
           deleted[i] \in AllFields /\ (deleted[i] = "gen" <=> i = 1)
  BY DEF AllFields
<1>3. /\ ApplyRecordMeta(base, meta) = ReadMeta(base, meta, written)
      /\ ApplyRecordMetaForDelete(base, meta) = ReadMeta(base, meta, deleted)
  BY DEF ApplyRecordMeta, ApplyRecordMetaForDelete
<1> HIDE DEF written, deleted
<1> QED BY <1>1, <1>2, <1>3, MetaChecks

\* The one item of a keyed write has the policy parsed for it.
LEMMA KeyedWritesCheck ==
  ASSUME NEW args, "gen" \in DOMAIN args.meta, "gen" \notin DOMAIN args.policy
  PROVE  \A prepared \in
           {PreparePut(args), PrepareRemove(args), PrepareTouch(args),
            PrepareSingleBinWrite(args), PrepareIncrement(args),
            PrepareRemoveBin(args), PrepareOperate(args)} :
           prepared.ok => \A i \in DOMAIN prepared.val.items :
             Checks(prepared.val.items[i].policy, args.meta["gen"])
<1> DEFINE parsed == ParseWritePolicy(args.policy, args.meta)
           Fine(prepared) ==
             prepared.ok => \A i \in DOMAIN prepared.val.items :
               Checks(prepared.val.items[i].policy, args.meta["gen"])
<1>1. parsed.ok => Checks(parsed.val, args.meta["gen"])
  BY WritePolicyChecks
<1>2. ASSUME NEW verb, NEW key, NEW policy, NEW body,
             Checks(policy, args.meta["gen"])
      PROVE  Fine(Single(verb, key, policy, body))
  BY <1>2 DEF Single, Request, Item, Done
<1>3. \A class : Fine(Failed(class))
  BY DEF Failed
<1>4. \A r : ~r.ok => Fine(r)
  OBVIOUS
<1> HIDE DEF Fine
<1>5. Fine(PreparePut(args))
  BY <1>1, <1>2, <1>3, <1>4 DEF PreparePut, Then
<1>6. Fine(PrepareRemove(args))
  BY <1>1, <1>2, <1>3, <1>4 DEF PrepareRemove, KeyAndPolicy, Then
<1>7. Fine(PrepareTouch(args))
  <2>1. ASSUME parsed.ok, NEW ttl
        PROVE  Checks(Join(Setting("ttl", ttl), parsed.val), args.meta["gen"])
    BY <1>1, <2>1 DEF Join, Setting, Checks
  <2> QED BY <1>1, <1>2, <1>3, <1>4, <2>1 DEF PrepareTouch, KeyAndPolicy, Then
<1>8. Fine(PrepareSingleBinWrite(args))
  BY <1>1, <1>2, <1>3, <1>4 DEF PrepareSingleBinWrite, KeyAndPolicy, Then
<1>9. Fine(PrepareIncrement(args))
  BY <1>1, <1>2, <1>3, <1>4 DEF PrepareIncrement, KeyAndPolicy, Then
<1>10. Fine(PrepareRemoveBin(args))
  BY <1>1, <1>2, <1>3, <1>4 DEF PrepareRemoveBin, KeyAndPolicy, Then
<1>11. Fine(PrepareOperate(args))
  BY <1>1, <1>2, <1>3, <1>4 DEF PrepareOperate, KeyAndPolicy, Then
<1> QED BY <1>5, <1>6, <1>7, <1>8, <1>9, <1>10, <1>11 DEF Fine

\* Each item of a batch of removals has the policy its meta gives it.
LEMMA RemovalsCheck ==
  ASSUME NEW args, DOMAIN args.keys \subseteq Nat, PrepareBatchRemove(args).ok,
         NEW i \in DOMAIN PrepareBatchRemove(args).val.items,
         IsKeyMeta(args.keys[i]), "gen" \in DOMAIN args.keys[i][2][2][2]
  PROVE  Checks(PrepareBatchRemove(args).val.items[i].policy,
                args.keys[i][2][2][2]["gen"])
<1> DEFINE Of(elem, base) ==
             IF IsKeyMeta(elem)
             THEN Then(ToKey(elem[2][1]), LAMBDA key :
                  Then(ApplyRecordMetaForDelete(base, elem[2][2][2]),
                       LAMBDA policy : Done(Item(key, policy, <<>>))))
             ELSE Then(ToKey(elem), LAMBDA key : Done(Item(key, base, <<>>)))
           base == ParseBatchDeletePolicy(args.policy).val
           results == [j \in DOMAIN args.keys |-> Of(args.keys[j], base)]
<1> HIDE DEF Of
<1>1. /\ Collected(results).ok
      /\ PrepareBatchRemove(args).val.items = Collected(results).val
  BY DEF PrepareBatchRemove, Then, Request, Done, Of
<1> HIDE DEF base
<1>2. /\ DOMAIN results = DOMAIN args.keys
      /\ \A j \in DOMAIN results : results[j] = Of(args.keys[j], base)
  OBVIOUS
<1> HIDE DEF results
<1>3. /\ \A j \in DOMAIN results : results[j].ok
      /\ Collected(results).val = [j \in DOMAIN results |-> results[j].val]
  BY <1>1, <1>2, CollectedAll
<1>4. /\ Of(args.keys[i], base).ok
      /\ PrepareBatchRemove(args).val.items[i] = Of(args.keys[i], base).val
  BY <1>1, <1>2, <1>3
<1>5. /\ ApplyRecordMetaForDelete(base, args.keys[i][2][2][2]).ok
      /\ Of(args.keys[i], base).val.policy
           = ApplyRecordMetaForDelete(base, args.keys[i][2][2][2]).val
  BY <1>4 DEF Of, Then, Done, Item
<1> QED BY <1>4, <1>5, RecordMetaChecks

\* So has each item of a batch of writes.
LEMMA BatchWritesCheck ==
  ASSUME NEW args, DOMAIN args.records \subseteq Nat, PrepareBatchWrite(args).ok,
         NEW i \in DOMAIN PrepareBatchWrite(args).val.items,
         Len(args.records[i][2]) >= 3, "gen" \in DOMAIN args.records[i][2][3][2]
  PROVE  Checks(PrepareBatchWrite(args).val.items[i].policy,
                args.records[i][2][3][2]["gen"])
<1> DEFINE Policy(elem, base) ==
             IF Len(elem[2]) < 3 THEN Done(base)
             ELSE IF elem[2][3][1] # "meta" THEN Failed("TypeError")
             ELSE ApplyRecordMeta(base, elem[2][3][2])
           Of(elem, base) ==
             IF elem[1] # "tuple" THEN Failed("TypeError")
             ELSE IF Len(elem[2]) < 2 THEN Failed("ValueError")
             ELSE Then(ToKey(elem[2][1]), LAMBDA key :
                  IF elem[2][2][1] # "dict" THEN Failed("TypeError")
                  ELSE Then(ToBins(elem[2][2][2]), LAMBDA bins :
                       Then(Policy(elem, base), LAMBDA policy :
                         Done(Item(key, policy, bins)))))
           base == ParseBatchWritePolicy(args.policy).val
           results == [j \in DOMAIN args.records |-> Of(args.records[j], base)]
<1> HIDE DEF Of
<1>1. /\ Collected(results).ok
      /\ PrepareBatchWrite(args).val.items = Collected(results).val
  BY DEF PrepareBatchWrite, Then, Request, Done, Of
<1> HIDE DEF base
<1>2. /\ DOMAIN results = DOMAIN args.records
      /\ \A j \in DOMAIN results : results[j] = Of(args.records[j], base)
  OBVIOUS
<1> HIDE DEF results
<1>3. /\ \A j \in DOMAIN results : results[j].ok
      /\ Collected(results).val = [j \in DOMAIN results |-> results[j].val]
  BY <1>1, <1>2, CollectedAll
<1>4. /\ Of(args.records[i], base).ok
      /\ PrepareBatchWrite(args).val.items[i] = Of(args.records[i], base).val
  BY <1>1, <1>2, <1>3
<1>5. /\ Policy(args.records[i], base).ok
      /\ Of(args.records[i], base).val.policy = Policy(args.records[i], base).val
  BY <1>4 DEF Of, Then, Done, Item, Failed
<1>6. Policy(args.records[i], base) = ApplyRecordMeta(base, args.records[i][2][3][2])
  BY <1>5 DEF Failed
<1> QED BY <1>4, <1>5, <1>6, RecordMetaChecks

\* A generation expected in a meta dict is sent with the policy that checks it,
\* for every write, single or of a batch (ParseWritePolicy, ApplyRecordMeta*).
THEOREM GenerationAlwaysChecked == Spec => []MetaGenerationIsChecked
<1>1. IInv => MetaGenerationIsChecked
  <2> SUFFICES ASSUME IInv, NEW c \in Clients, Sent(c),
                      NEW i \in DOMAIN request[c].items,
                      "gen" \in DOMAIN MetaOf(i),
                      ~("meta" \in DOMAIN call /\ "gen" \in DOMAIN call.policy)
               PROVE  Checks(request[c].items[i].policy, MetaOf(i)["gen"])
    BY DEF MetaGenerationIsChecked, Checks
  <2>1. Prepare.ok /\ request[c] = Prepare.val /\ call \in Calls
    BY SentIsPrepared DEF IInv, Shape
  <2>2. CASE "meta" \in DOMAIN call
    <3>1. call.method \in KeyedWrites
      BY <2>1, <2>2, CallsAssumption DEF Takes
    <3>2. MetaOf(i) = call.meta
      BY <2>2, <3>1 DEF MetaOf, KeyedWrites
    <3>3. Prepare \in {PreparePut(call), PrepareRemove(call), PrepareTouch(call),
                       PrepareSingleBinWrite(call), PrepareIncrement(call),
                       PrepareRemoveBin(call), PrepareOperate(call)}
      BY <3>1 DEF KeyedWrites, Prepare
    <3> QED BY <2>1, <2>2, <3>2, <3>3, KeyedWritesCheck
  <2>3. CASE "meta" \notin DOMAIN call /\ call.method = "batch_remove"
    <3>1. MetaOf(i) = IF IsKeyMeta(call.keys[i]) THEN call.keys[i][2][2][2] ELSE <<>>
      BY <2>3 DEF MetaOf
    <3>2. IsKeyMeta(call.keys[i]) /\ MetaOf(i) = call.keys[i][2][2][2]
      BY <3>1
    <3>3. Prepare = PrepareBatchRemove(call)
      BY <2>3 DEF Prepare
    <3>4. DOMAIN call.keys \subseteq Nat
      BY <2>1, <2>3, ListsAreSequences DEF Takes, Lists
    <3> QED BY <2>1, <3>2, <3>3, <3>4, RemovalsCheck
  <2>4. CASE "meta" \notin DOMAIN call /\ call.method = "batch_write"
    <3>1. MetaOf(i) = IF Len(call.records[i][2]) >= 3
                      THEN call.records[i][2][3][2] ELSE <<>>
      BY <2>4 DEF MetaOf
    <3>2. Len(call.records[i][2]) >= 3 /\ MetaOf(i) = call.records[i][2][3][2]
      BY <3>1
    <3>3. Prepare = PrepareBatchWrite(call)
      BY <2>4 DEF Prepare
    <3>4. DOMAIN call.records \subseteq Nat
      BY <2>1, <2>4, ListsAreSequences DEF Takes, Lists
    <3> QED BY <2>1, <3>2, <3>3, <3>4, BatchWritesCheck
  <2>5. CASE "meta" \notin DOMAIN call
             /\ call.method \notin {"batch_remove", "batch_write"}
    <3>1. MetaOf(i) = <<>>
      BY <2>5 DEF MetaOf
    <3> QED BY <3>1
  <2> QED BY <2>2, <2>3, <2>4, <2>5
<1> QED BY <1>1, Invariance, PTL


----------------------------------------------------------------------------
(* Maps: what inserting pairs one after the other gives *)

\* A set of numbers up to a bound that is not empty has a greatest element.
LEMMA GreatestNumber ==
  ASSUME NEW n \in Nat, NEW S \in SUBSET (1 .. n), S # {}
  PROVE  Max(S) \in S /\ \A y \in S : Max(S) >= y
<1> DEFINE T == {n - y : y \in S}
<1>1. T \in SUBSET Nat /\ T # {}
  <2>1. \A y \in S : n - y \in Nat
    OBVIOUS
  <2> QED BY <2>1
<1>2. PICK t \in T : \A u \in T : t <= u
  BY <1>1, SmallestNumber
<1>3. PICK x \in S : t = n - x
  OBVIOUS
<1>4. ASSUME NEW y \in S PROVE x >= y
  <2>1. n - y \in T
    OBVIOUS
  <2>2. n - x <= n - y
    BY <1>2, <1>3, <2>1
  <2> QED BY <2>2
<1> QED BY <1>4 DEF Max

\* A key's value is that of the last pair with the key.
LEMMA LastWins ==
  ASSUME NEW n \in Nat, NEW pairs, DOMAIN pairs = 1 .. n, NEW k \in DOMAIN AsMap(pairs)
  PROVE  \E l \in 1 .. n :
           /\ pairs[l][1] = k /\ AsMap(pairs)[k] = pairs[l][2]
           /\ \A i \in 1 .. n : pairs[i][1] = k => i <= l
<1> DEFINE S == {i \in DOMAIN pairs : pairs[i][1] = k}
<1>1. S \in SUBSET (1 .. n) /\ S # {}
  BY DEF AsMap
<1>2. Max(S) \in S /\ \A y \in S : Max(S) >= y
  BY <1>1, GreatestNumber
<1>3. AsMap(pairs)[k] = pairs[Max(S)][2]
  BY DEF AsMap
<1> QED BY <1>1, <1>2, <1>3

LEMMA MapDomain ==
  \A pairs, k :
    k \in DOMAIN AsMap(pairs) <=> \E i \in DOMAIN pairs : pairs[i][1] = k
BY DEF AsMap

\* n pairs of cores and of stored agree on which keys are equal, and back lists,
\* for each of the q keys of the map of cores, what is stored for its entry.
Correspond(n, cores, stored, q, keys, back) ==
  /\ DOMAIN cores = 1 .. n /\ DOMAIN stored = 1 .. n
  /\ DOMAIN keys = 1 .. q /\ DOMAIN back = 1 .. q
  /\ \A i, l \in 1 .. n : cores[i][1] = cores[l][1] <=> stored[i][1] = stored[l][1]
  /\ \A k : k \in DOMAIN AsMap(cores) <=> \E j \in 1 .. q : keys[j] = k
  /\ \A j \in 1 .. q, i \in 1 .. n :
        /\ keys[j] = cores[i][1] => back[j][1] = stored[i][1]
        /\ AsMap(cores)[keys[j]] = cores[i][2] => back[j][2] = stored[i][2]

\* Then back makes the map of stored.
LEMMA MapsCorrespond ==
  ASSUME NEW n \in Nat, NEW cores, NEW stored, NEW q \in Nat, NEW keys, NEW back,
         Correspond(n, cores, stored, q, keys, back)
  PROVE  AsMap(back) = AsMap(stored)
<1> USE DEF Correspond
<1>1. ASSUME NEW j \in 1 .. q PROVE \E i \in 1 .. n : keys[j] = cores[i][1]
  BY MapDomain
<1>2. ASSUME NEW i \in 1 .. n PROVE \E j \in 1 .. q : keys[j] = cores[i][1]
  BY MapDomain
<1>3. DOMAIN AsMap(back) = DOMAIN AsMap(stored)
  <2>1. ASSUME NEW s \in DOMAIN AsMap(back) PROVE s \in DOMAIN AsMap(stored)
    <3>1. PICK j \in 1 .. q : s = back[j][1]
      BY MapDomain
    <3>2. PICK i \in 1 .. n : keys[j] = cores[i][1]
      BY <1>1
    <3>3. back[j][1] = stored[i][1]
      BY <3>2
    <3> QED BY <3>1, <3>3, MapDomain
  <2>2. ASSUME NEW s \in DOMAIN AsMap(stored) PROVE s \in DOMAIN AsMap(back)
    <3>1. PICK i \in 1 .. n : s = stored[i][1]
      BY MapDomain
    <3>2. PICK j \in 1 .. q : keys[j] = cores[i][1]
      BY <1>2
    <3> QED BY <3>1, <3>2, MapDomain
  <2> QED BY <2>1, <2>2
<1>4. ASSUME NEW s \in DOMAIN AsMap(stored)
      PROVE  AsMap(back)[s] = AsMap(stored)[s]
  <2>1. PICK l \in 1 .. n : /\ stored[l][1] = s /\ AsMap(stored)[s] = stored[l][2]
                            /\ \A i \in 1 .. n : stored[i][1] = s => i <= l
    BY LastWins
  <2>2. PICK j \in 1 .. q : /\ back[j][1] = s /\ AsMap(back)[s] = back[j][2]
    BY <1>3, LastWins
  <2>3. PICK i \in 1 .. n : keys[j] = cores[i][1]
    BY <1>1
  <2>4. stored[i][1] = s
    BY <2>2, <2>3
  <2>5. keys[j] = cores[l][1]
    BY <2>1, <2>3, <2>4
  <2>6. keys[j] \in DOMAIN AsMap(cores)
    BY <2>5, MapDomain
  <2>7. PICK p \in 1 .. n :
          /\ cores[p][1] = keys[j] /\ AsMap(cores)[keys[j]] = cores[p][2]
          /\ \A k \in 1 .. n : cores[k][1] = keys[j] => k <= p
    BY <2>6, LastWins
  <2>8. p = l
    <3>1. stored[p][1] = s
      BY <2>1, <2>5, <2>7
    <3>2. p <= l /\ l <= p
      BY <2>1, <2>5, <2>7, <3>1
    <3> QED BY <3>2
  <2>9. back[j][2] = stored[l][2]
    BY <2>7, <2>8
  <2> QED BY <2>1, <2>2, <2>9
<1>5. \A f, g : (DOMAIN f = DOMAIN g /\ f = [x \in DOMAIN f |-> f[x]]
                 /\ g = [x \in DOMAIN g |-> g[x]] /\ \A x \in DOMAIN f : f[x] = g[x]) => f = g
  OBVIOUS
<1>6. \A pairs : AsMap(pairs) = [x \in DOMAIN AsMap(pairs) |-> AsMap(pairs)[x]]
  BY DEF AsMap
<1> QED BY <1>3, <1>4, <1>5, <1>6

\* The keys of a map, listed.
LEMMA KeysListed ==
  ASSUME NEW n \in Nat, NEW pairs, DOMAIN pairs = 1 .. n
  PROVE  LET keys == SetToSeq(DOMAIN AsMap(pairs))
         IN \E q \in Nat : /\ DOMAIN keys = 1 .. q
                           /\ \A k : k \in DOMAIN AsMap(pairs)
                                      <=> \E j \in 1 .. q : keys[j] = k
<1> DEFINE S == DOMAIN AsMap(pairs)
           f == [i \in 1 .. n |-> pairs[i][1]]
<1>1. f \in Surjection(1 .. n, S)
  <2>1. f \in [1 .. n -> S]
    BY MapDomain
  <2>2. \A k \in S : \E i \in 1 .. n : f[i] = k
    BY MapDomain
  <2> QED BY <2>1, <2>2 DEF Surjection
<1>2. IsFiniteSet(S)
  BY <1>1, FS_NatSurjection DEF ExistsSurjection
<1> DEFINE q == Cardinality(S)
<1> HIDE DEF S
<1>3. q \in Nat /\ ExistsBijection(1 .. q, S)
  BY <1>2, FS_CardinalityType
<1>4. PICK g : g \in Bijection(1 .. q, S)
  BY <1>3 DEF ExistsBijection
<1>5. g \in [1 .. q -> S] /\ IsInjective(g)
  BY <1>4 DEF Bijection, Injection
<1>6. SetToSeq(S) \in [1 .. q -> S] /\ IsInjective(SetToSeq(S))
  BY <1>5 DEF SetToSeq
<1>7. SetToSeq(S) \in Injection(1 .. q, S)
  BY <1>6 DEF Injection
<1>8. Cardinality(1 .. q) = q
  <2> HIDE DEF q
  <2> QED BY <1>3, FS_Interval
<1>9. SetToSeq(S) \in Surjection(1 .. q, S)
  <2> HIDE DEF q
  <2> QED BY <1>2, <1>7, <1>8, FS_Injection DEF q
<1>10. \A k : k \in S <=> \E j \in 1 .. q : SetToSeq(S)[j] = k
  <2> HIDE DEF q
  <2> QED BY <1>6, <1>9 DEF Surjection
<1> QED BY <1>3, <1>6, <1>10 DEF S

----------------------------------------------------------------------------
(* Objects that convert, and convert back *)

Depths == -1 .. MaxDepth + 1

\* What each type converts to.
LEMMA ConvertedByType ==
  ASSUME NEW obj \in Objects, NEW d \in Depths, ToValueAt(obj, d).ok
  PROVE  /\ d <= MaxDepth
         /\ ToValueAt(obj, d) = PyToValueInner(obj, d)
         /\ ToValueAt(obj, d).val \in CoreValues
         /\ obj[1] \in {"none", "int", "list", "dict"} \cup DOMAIN ScalarVariant
<1>1. ToValueAt(obj, d) = PyToValueInner(obj, d)
  BY ConversionsAssumption DEF Depths
<1>2. d <= MaxDepth
  BY <1>1, ValuesAssumption DEF Depths, PyToValueInner, PyToValueBody, Failed
<1>3. obj[1] \in {"none", "int", "list", "dict"} \cup DOMAIN ScalarVariant
  BY <1>1 DEF PyToValueInner, PyToValueBody, Failed
<1> QED BY <1>1, <1>2, <1>3, UniverseAssumption DEF Depths

\* What the body makes of each type, as deep as it goes.
LEMMA BodyByType ==
  ASSUME NEW obj, NEW d \in Depths, d <= MaxDepth
  PROVE  /\ obj[1] = "none" => PyToValueInner(obj, d) = Done(<<"Nil">>)
         /\ obj[1] \in DOMAIN ScalarVariant =>
              PyToValueInner(obj, d) = Done(<<ScalarVariant[obj[1]], obj[2]>>)
         /\ obj[1] = "int" =>
              PyToValueInner(obj, d)
                = IF ToI64(obj[2]).ok THEN Done(<<"Int", ToI64(obj[2]).val>>)
                  ELSE ToI64(obj[2])
<1>1. ~(d > MaxDepth)
  BY ValuesAssumption DEF Depths
<1> QED BY <1>1 DEF PyToValueInner, PyToValueBody, ScalarVariant, Then

LEMMA Modulo ==
  ASSUME NEW m \in Nat \ {0}, NEW a \in Nat
  PROVE  /\ a < m => a % m = a
         /\ m <= a /\ a < m + m => a % m = a - m
OBVIOUS

\* What fits an i64 is itself modulo its range.
LEMMA FitsRange ==
  ASSUME NEW n \in Int, ToI64(n).ok
  PROVE  /\ ToI64(n).val = ((n + HalfRange) % (2 * HalfRange)) - HalfRange
         /\ ToI64(n).val \in Int /\ ToI64(n).val >= -HalfRange /\ ToI64(n).val < HalfRange
<1> DEFINE h == HalfRange
           m == 2 * h
<1>1. h \in Nat \ {0} /\ m \in Nat \ {0} /\ m = h + h
  BY HalfRangeAssumption
<1>2. \/ n >= -h /\ n < h /\ ToI64(n).val = n
      \/ n >= h /\ n < m /\ ToI64(n).val = n - m
  BY DEF ToI64, Done, Failed
<1> HIDE DEF h, m
<1>3. n + h \in Nat
  BY <1>1, <1>2
<1>4. CASE n >= -h /\ n < h /\ ToI64(n).val = n
  <2>1. n + h < m
    BY <1>1, <1>4
  <2>2. (n + h) % m = n + h
    BY <1>1, <1>3, <2>1, Modulo
  <2>3. ((n + h) % m) - h = n
    BY <1>1, <2>2
  <2> QED BY <1>1, <1>4, <2>3 DEF h, m
<1>5. CASE n >= h /\ n < m /\ ToI64(n).val = n - m
  <2>1. m <= n + h /\ n + h < m + m
    BY <1>1, <1>5
  <2>2. (n + h) % m = (n + h) - m
    <3> DEFINE a == n + h
    <3>1. a \in Nat /\ m <= a /\ a < m + m
      BY <1>3, <2>1
    <3> HIDE DEF a
    <3>2. a % m = a - m
      BY <1>1, <3>1, Modulo
    <3> QED BY <3>2 DEF a
  <2>3. ((n + h) % m) - h = n - m
    BY <1>1, <2>2
  <2>4. n - m \in Int /\ n - m >= -h /\ n - m < h
    BY <1>1, <1>5
  <2> QED BY <1>5, <2>3, <2>4 DEF h, m
<1> QED BY <1>2, <1>4, <1>5

LEMMA FitsAgain ==
  ASSUME NEW n \in Int, n >= -HalfRange, n < HalfRange
  PROVE  ToI64(n) = Done(n)
BY DEF ToI64

\* The core value of a scalar, from what is kept of it.
CoreOf(s) ==
  IF s[1] = "none" THEN <<"Nil">>
  ELSE <<IF s[1] = "int" THEN "Int" ELSE ScalarVariant[s[1]], s[2]>>

\* An object, converted at depth d and back, is what is kept of it, and
\* converts again.
GoesRound(obj, d) ==
  ToValueAt(obj, d).ok =>
    LET back == FromValue(ToValueAt(obj, d).val)
    IN /\ back.ok
       /\ back.val \in Objects
       /\ AsStored(back.val) = AsStored(obj)
       /\ ToValueAt(back.val, d).ok

LEMMA ScalarsGoRound ==
  ASSUME NEW obj \in Objects, NEW d \in Depths, ToValueAt(obj, d).ok,
         obj[1] \notin Unhashable
  PROVE  /\ GoesRound(obj, d)
         /\ ToValueAt(obj, d).val = CoreOf(AsStored(obj))
         /\ FromValue(ToValueAt(obj, d).val).val[1] \notin Unhashable
<1> DEFINE v == ToValueAt(obj, d).val
           back == FromValue(v)
<1>1. /\ d <= MaxDepth
      /\ ToValueAt(obj, d) = PyToValueInner(obj, d)
      /\ v \in CoreValues
      /\ obj[1] \in {"none", "int"} \cup DOMAIN ScalarVariant
  BY ConvertedByType DEF Unhashable
<1>2. back = ValueToPy(v)
  BY <1>1, ConversionsAssumption
<1>3. back.ok => back.val \in Objects
  BY <1>1, UniverseAssumption
<1>4. \A o \in Objects : AsStored(o) = StoredBody(o, AsStored)
  BY StoredAssumption
<1>5. \A o \in Objects : ToValueAt(o, d) = PyToValueInner(o, d)
  BY ConversionsAssumption DEF Depths
<1> HIDE DEF v, back
<1>6. SUFFICES /\ back.ok /\ AsStored(back.val) = AsStored(obj)
               /\ v = CoreOf(AsStored(obj)) /\ ToValueAt(back.val, d).ok
               /\ back.val[1] \notin Unhashable
  BY <1>3 DEF GoesRound, v, back
<1>7. CASE obj[1] = "none"
  <2>1. v = <<"Nil">>
    BY <1>1, <1>7, BodyByType DEF v, Done
  <2>2. back = Done(<<"none">>)
    BY <1>2, <2>1 DEF ValueToPy, ValueToPyBody
  <2>3. obj = <<"none">>
    BY <1>7, UniverseAssumption
  <2>4. AsStored(obj) = obj
    BY <1>4, <1>7 DEF StoredBody
  <2> QED BY <1>7, <2>1, <2>2, <2>3, <2>4 DEF CoreOf, Unhashable, Done
<1>8. CASE obj[1] \in DOMAIN ScalarVariant
  <2>1. v = <<ScalarVariant[obj[1]], obj[2]>>
    BY <1>1, <1>8, BodyByType DEF v, Done
  <2>2. back = Done(<<IF obj[1] = "bytearray" THEN "bytes" ELSE obj[1], obj[2]>>)
    BY <1>2, <1>8, <2>1 DEF ValueToPy, ValueToPyBody, BackToScalar, ScalarVariant
  <2>3. obj = <<obj[1], obj[2]>>
    BY <1>8, UniverseAssumption
  <2>4. back.ok /\ back.val \in Objects /\ back.val[2] = obj[2]
        /\ back.val[1] = (IF obj[1] = "bytearray" THEN "bytes" ELSE obj[1])
        /\ back.val = <<back.val[1], back.val[2]>>
    BY <1>3, <2>2 DEF Done
  <2>5. AsStored(obj) = back.val
    BY <1>4, <1>8, <2>2, <2>3 DEF StoredBody, ScalarVariant, Done
  <2>6. AsStored(back.val) = back.val
    BY <1>4, <1>8, <2>4 DEF StoredBody, ScalarVariant
  <2>7. ToValueAt(back.val, d).ok
    <3>1. back.val[1] \in DOMAIN ScalarVariant
      BY <1>8, <2>4 DEF ScalarVariant
    <3> QED BY <1>1, <1>5, <2>4, <3>1, BodyByType DEF Done
  <2>8. CoreOf(back.val) = v
    BY <1>8, <2>1, <2>4 DEF CoreOf, ScalarVariant
  <2> QED BY <1>8, <2>4, <2>5, <2>6, <2>7, <2>8 DEF Unhashable, ScalarVariant
<1>9. CASE obj[1] = "int"
  <2>1. obj[2] \in Int
    BY <1>9, UniverseAssumption
  <2>2. ToI64(obj[2]).ok /\ v = <<"Int", ToI64(obj[2]).val>>
    BY <1>1, <1>9, BodyByType DEF v, Done
  <2> DEFINE n == ToI64(obj[2]).val
  <2>3. /\ n = ((obj[2] + HalfRange) % (2 * HalfRange)) - HalfRange
        /\ n \in Int /\ n >= -HalfRange /\ n < HalfRange
    BY <2>1, <2>2, FitsRange
  <2>4. ToI64(n) = Done(n)
    BY <2>3, FitsAgain
  <2> HIDE DEF n
  <2>5. back = Done(<<"int", n>>)
    BY <1>2, <2>2 DEF ValueToPy, ValueToPyBody, BackToScalar, n
  <2>6. back.ok /\ back.val = <<"int", n>> /\ back.val \in Objects
    BY <1>3, <2>5 DEF Done
  <2>7. AsStored(obj) = <<"int", n>>
    BY <1>4, <1>9, <2>3 DEF StoredBody
  <2>8. n = ((n + HalfRange) % (2 * HalfRange)) - HalfRange
    <3>1. ToI64(n).ok /\ ToI64(n).val = n
      BY <2>4 DEF Done
    <3> QED BY <2>3, <3>1, FitsRange
  <2>9. AsStored(back.val) = <<"int", n>>
    <3>1. back.val[1] = "int" /\ back.val[2] = n
      BY <2>6
    <3> QED BY <1>4, <2>6, <2>8, <3>1 DEF StoredBody
  <2>10. ToValueAt(back.val, d).ok
    <3>1. back.val[1] = "int" /\ back.val[2] = n
      BY <2>6
    <3> QED BY <1>1, <1>5, <2>4, <2>6, <3>1, BodyByType DEF Done
  <2> QED BY <2>2, <2>6, <2>7, <2>9, <2>10 DEF CoreOf, Unhashable, n
<1> QED BY <1>1, <1>7, <1>8, <1>9

\* What the bodies make of lists, ...
LEMMA ListBody ==
  ASSUME NEW obj, NEW d \in Depths, d <= MaxDepth, obj[1] = "list",
         DOMAIN obj[2] \subseteq Nat
  PROVE  /\ PyToValueInner(obj, d).ok
              <=> \A i \in DOMAIN obj[2] : ToValueAt(obj[2][i], d + 1).ok
         /\ PyToValueInner(obj, d).ok =>
              PyToValueInner(obj, d).val
                = <<"List", [i \in DOMAIN obj[2] |-> ToValueAt(obj[2][i], d + 1).val]>>
<1> DEFINE results == [i \in DOMAIN obj[2] |-> ToValueAt(obj[2][i], d + 1)]
<1>1. ~(d > MaxDepth)
  BY ValuesAssumption DEF Depths
<1>2. PyToValueInner(obj, d)
        = IF Collected(results).ok THEN Done(<<"List", Collected(results).val>>)
          ELSE Collected(results)
  BY <1>1 DEF PyToValueInner, PyToValueBody, ScalarVariant, Then
<1>3. Collected(results).ok
        <=> \A i \in DOMAIN obj[2] : ToValueAt(obj[2][i], d + 1).ok
  <2>1. DOMAIN results \subseteq Nat
    OBVIOUS
  <2>2. ASSUME Collected(results).ok
        PROVE  \A i \in DOMAIN obj[2] : ToValueAt(obj[2][i], d + 1).ok
    <3>1. \A i \in DOMAIN results : results[i].ok
      BY ONLY <2>1, <2>2, CollectedAll
    <3> QED BY <3>1
  <2>3. ASSUME \A i \in DOMAIN obj[2] : ToValueAt(obj[2][i], d + 1).ok
        PROVE  Collected(results).ok
    <3>1. \A i \in DOMAIN results : results[i].ok
      BY <2>3
    <3> QED BY ONLY <3>1, CollectedSucceeds
  <2> QED BY <2>2, <2>3
<1>4. Collected(results).ok =>
        Collected(results).val
          = [i \in DOMAIN obj[2] |-> ToValueAt(obj[2][i], d + 1).val]
  BY CollectedAll
<1> HIDE DEF results
<1> QED BY <1>2, <1>3, <1>4 DEF Done

\* ... of dicts, ...
LEMMA DictBody ==
  ASSUME NEW obj, NEW d \in Depths, d <= MaxDepth, obj[1] = "dict",
         DOMAIN obj[2] \subseteq Nat
  PROVE  /\ PyToValueInner(obj, d).ok
              <=> \A i \in DOMAIN obj[2] :
                    /\ ToValueAt(obj[2][i][1], d + 1).ok
                    /\ ToValueAt(obj[2][i][2], d + 1).ok
         /\ PyToValueInner(obj, d).ok =>
              PyToValueInner(obj, d).val
                = <<"HashMap", AsMap([i \in DOMAIN obj[2] |->
                                        <<ToValueAt(obj[2][i][1], d + 1).val,
                                          ToValueAt(obj[2][i][2], d + 1).val>>])>>
<1> DEFINE Entry(p) == Then(ToValueAt(p[1], d + 1), LAMBDA k :
                       Then(ToValueAt(p[2], d + 1), LAMBDA v : Done(<<k, v>>)))
           results == [i \in DOMAIN obj[2] |-> Entry(obj[2][i])]
<1>1. ~(d > MaxDepth)
  BY ValuesAssumption DEF Depths
<1>2. PyToValueInner(obj, d)
        = IF Collected(results).ok
          THEN Done(<<"HashMap", AsMap(Collected(results).val)>>)
          ELSE Collected(results)
  BY <1>1 DEF PyToValueInner, PyToValueBody, ScalarVariant, Then
<1>3. \A p : /\ Entry(p).ok <=> ToValueAt(p[1], d + 1).ok /\ ToValueAt(p[2], d + 1).ok
             /\ Entry(p).ok =>
                  Entry(p).val = <<ToValueAt(p[1], d + 1).val, ToValueAt(p[2], d + 1).val>>
  BY DEF Then, Done
<1> HIDE DEF Entry
<1>4. Collected(results).ok <=> \A i \in DOMAIN obj[2] : Entry(obj[2][i]).ok
  <2>1. DOMAIN results \subseteq Nat
    OBVIOUS
  <2>2. ASSUME Collected(results).ok
        PROVE  \A i \in DOMAIN obj[2] : Entry(obj[2][i]).ok
    <3>1. \A i \in DOMAIN results : results[i].ok
      BY ONLY <2>1, <2>2, CollectedAll
    <3> QED BY <3>1
  <2>3. ASSUME \A i \in DOMAIN obj[2] : Entry(obj[2][i]).ok
        PROVE  Collected(results).ok
    <3>1. \A i \in DOMAIN results : results[i].ok
      BY <2>3
    <3> QED BY ONLY <3>1, CollectedSucceeds
  <2> QED BY <2>2, <2>3
<1>5. Collected(results).ok =>
        Collected(results).val = [i \in DOMAIN obj[2] |-> Entry(obj[2][i]).val]
  BY CollectedAll
<1>6. Collected(results).ok =>
        Collected(results).val
          = [i \in DOMAIN obj[2] |-> <<ToValueAt(obj[2][i][1], d + 1).val,
                                      ToValueAt(obj[2][i][2], d + 1).val>>]
  BY <1>3, <1>4, <1>5
<1> HIDE DEF results
<1>7. PyToValueInner(obj, d).ok <=> Collected(results).ok
  BY <1>2 DEF Done
<1>8. PyToValueInner(obj, d).ok =>
        PyToValueInner(obj, d).val = <<"HashMap", AsMap(Collected(results).val)>>
  BY <1>2 DEF Done
<1> QED BY <1>3, <1>4, <1>6, <1>7, <1>8

\* ... and of their values.
LEMMA ListBack ==
  ASSUME NEW vs, \A i \in DOMAIN vs : FromValue(vs[i]).ok
  PROVE  ValueToPy(<<"List", vs>>)
           = Done(<<"list", [i \in DOMAIN vs |-> FromValue(vs[i]).val]>>)
<1> DEFINE results == [i \in DOMAIN vs |-> FromValue(vs[i])]
<1>1. ValueToPy(<<"List", vs>>)
        = IF Collected(results).ok THEN Done(<<"list", Collected(results).val>>)
          ELSE Collected(results)
  BY DEF ValueToPy, ValueToPyBody, BackToScalar, Then
<1>2. Collected(results).ok
      /\ Collected(results).val = [i \in DOMAIN vs |-> FromValue(vs[i]).val]
  BY CollectedSucceeds
<1> HIDE DEF results
<1> QED BY <1>1, <1>2

LEMMA MapBack ==
  ASSUME NEW m, NEW keys, keys = SetToSeq(DOMAIN m),
         \A j \in DOMAIN keys : /\ FromValue(keys[j]).ok
                                /\ FromValue(keys[j]).val[1] \notin Unhashable
                                /\ FromValue(m[keys[j]]).ok
  PROVE  ValueToPy(<<"HashMap", m>>)
           = Done(<<"dict", [j \in DOMAIN keys |-> <<FromValue(keys[j]).val,
                                                    FromValue(m[keys[j]]).val>>]>>)
<1> DEFINE Entry(k, v) == Then(FromValue(k), LAMBDA pk :
                          Then(FromValue(v), LAMBDA pv :
                            IF pk[1] \in Unhashable THEN Failed("TypeError")
                            ELSE Done(<<pk, pv>>)))
           results == [j \in DOMAIN keys |-> Entry(keys[j], m[keys[j]])]
           pairs == [j \in DOMAIN keys |-> <<FromValue(keys[j]).val,
                                            FromValue(m[keys[j]]).val>>]
<1>1. ValueToPy(<<"HashMap", m>>)
        = IF Collected(results).ok THEN Done(<<"dict", Collected(results).val>>)
          ELSE Collected(results)
  BY DEF ValueToPy, ValueToPyBody, BackToScalar, Then
<1>2. DOMAIN results = DOMAIN keys
      /\ \A j \in DOMAIN keys : results[j].ok /\ results[j].val = pairs[j]
  BY DEF Then, Done
<1> HIDE DEF results
<1>3. Collected(results).ok
      /\ Collected(results).val = [j \in DOMAIN results |-> results[j].val]
  BY ONLY <1>2, CollectedSucceeds
<1>4. [j \in DOMAIN results |-> results[j].val] = pairs
  BY <1>2
<1> QED BY <1>1, <1>3, <1>4

LEMMA ListsGoRound ==
  ASSUME NEW obj \in Objects, NEW d \in Depths, d + 1 \in Depths, obj[1] = "list",
         \A o \in Objects : GoesRound(o, d + 1)
  PROVE  GoesRound(obj, d)
<1> SUFFICES ASSUME ToValueAt(obj, d).ok PROVE GoesRound(obj, d)
  BY DEF GoesRound
<1> DEFINE v == ToValueAt(obj, d).val
           back == FromValue(v)
           vs == [i \in DOMAIN obj[2] |-> ToValueAt(obj[2][i], d + 1).val]
           items == [i \in DOMAIN vs |-> FromValue(vs[i]).val]
<1>1. /\ d <= MaxDepth
      /\ ToValueAt(obj, d) = PyToValueInner(obj, d)
      /\ v \in CoreValues
  BY ConvertedByType
<1>2. /\ DOMAIN obj[2] \subseteq Nat
      /\ \A i \in DOMAIN obj[2] : obj[2][i] \in Objects
  BY UniverseAssumption
<1>3. /\ \A i \in DOMAIN obj[2] : ToValueAt(obj[2][i], d + 1).ok
      /\ v = <<"List", vs>>
  BY <1>1, <1>2, ListBody
<1> HIDE DEF v
<1>4. \A i \in DOMAIN obj[2] :
        /\ FromValue(vs[i]).ok
        /\ items[i] \in Objects
        /\ AsStored(items[i]) = AsStored(obj[2][i])
        /\ ToValueAt(items[i], d + 1).ok
  <2> TAKE i \in DOMAIN obj[2]
  <2>1. GoesRound(obj[2][i], d + 1) /\ ToValueAt(obj[2][i], d + 1).ok
    BY <1>2, <1>3
  <2>2. vs[i] = ToValueAt(obj[2][i], d + 1).val /\ items[i] = FromValue(vs[i]).val
    OBVIOUS
  <2> HIDE DEF vs, items
  <2> QED BY <2>1, <2>2 DEF GoesRound
<1>5. DOMAIN vs = DOMAIN obj[2] /\ DOMAIN items = DOMAIN obj[2]
  OBVIOUS
<1>6. ValueToPy(<<"List", vs>>) = Done(<<"list", items>>)
  <2>1. \A i \in DOMAIN vs : FromValue(vs[i]).ok
    BY <1>4, <1>5
  <2> HIDE DEF vs
  <2> QED BY ONLY <2>1, ListBack
<1> HIDE DEF vs, items
<1>7. back = Done(<<"list", items>>)
  BY <1>1, <1>3, <1>6, ConversionsAssumption
<1>8. back.ok /\ back.val = <<"list", items>>
  BY <1>7 DEF Done
<1>9. back.val \in Objects
  BY <1>1, <1>8, UniverseAssumption
<1> HIDE DEF back
<1>10. AsStored(back.val) = <<"list", [i \in DOMAIN items |-> AsStored(items[i])]>>
  <2>1. back.val[1] = "list" /\ back.val[2] = items
    BY <1>8
  <2> QED BY <1>9, <2>1, StoredAssumption DEF StoredBody
<1>11. AsStored(obj) = <<"list", [i \in DOMAIN obj[2] |-> AsStored(obj[2][i])]>>
  BY StoredAssumption DEF StoredBody
<1>12. AsStored(back.val) = AsStored(obj)
  BY <1>4, <1>5, <1>10, <1>11
<1>13. ToValueAt(back.val, d).ok
  <2>1. PyToValueInner(back.val, d).ok
    <3> DEFINE o == back.val
    <3>1. o[1] = "list" /\ o[2] = items
      BY <1>8
    <3>2. DOMAIN o[2] \subseteq Nat /\ \A i \in DOMAIN o[2] : ToValueAt(o[2][i], d + 1).ok
      BY <1>2, <1>4, <1>5, <3>1
    <3> HIDE DEF o
    <3>3. PyToValueInner(o, d).ok
      BY ONLY <1>1, <3>1, <3>2, ListBody, d \in Depths
    <3> QED BY <3>3 DEF o
  <2> QED BY <1>9, <2>1, ConversionsAssumption DEF Depths
<1> QED BY <1>8, <1>9, <1>12, <1>13 DEF GoesRound, v, back

LEMMA DictsGoRound ==
  ASSUME NEW obj \in Objects, NEW d \in Depths, d + 1 \in Depths, obj[1] = "dict",
         \A o \in Objects : GoesRound(o, d + 1)
  PROVE  GoesRound(obj, d)
<1> SUFFICES ASSUME ToValueAt(obj, d).ok PROVE GoesRound(obj, d)
  BY DEF GoesRound
<1> DEFINE v == ToValueAt(obj, d).val
           back == FromValue(v)
           K(i) == obj[2][i][1]
           V(i) == obj[2][i][2]
           Core(o) == ToValueAt(o, d + 1).val
           Back(c) == FromValue(c).val
           cores == [i \in DOMAIN obj[2] |-> <<Core(K(i)), Core(V(i))>>]
           stored == [i \in DOMAIN obj[2] |-> <<AsStored(K(i)), AsStored(V(i))>>]
           m == AsMap(cores)
           keys == SetToSeq(DOMAIN m)
           pairs == [j \in DOMAIN keys |-> <<Back(keys[j]), Back(m[keys[j]])>>]
           kept == [j \in DOMAIN pairs |-> <<AsStored(pairs[j][1]), AsStored(pairs[j][2])>>]
<1>1. /\ d <= MaxDepth
      /\ ToValueAt(obj, d) = PyToValueInner(obj, d)
      /\ v \in CoreValues
  BY ConvertedByType
<1>2. PICK n \in Nat : DOMAIN obj[2] = 1 .. n
  <2>1. obj[2] \in Seq(Objects \X Objects)
    BY UniverseAssumption
  <2> QED BY <2>1
<1>3. \A i \in DOMAIN obj[2] : K(i) \in Objects /\ V(i) \in Objects /\ K(i)[1] \notin Unhashable
  <2>1. /\ obj[2] \in Seq(Objects \X Objects)
        /\ \A i \in DOMAIN obj[2] : obj[2][i][1][1] \notin Unhashable
    BY UniverseAssumption
  <2>2. \A i \in DOMAIN obj[2] : obj[2][i] \in Objects \X Objects
    BY <2>1
  <2> QED BY <2>1, <2>2
<1>4. /\ \A i \in DOMAIN obj[2] : ToValueAt(K(i), d + 1).ok /\ ToValueAt(V(i), d + 1).ok
      /\ v = <<"HashMap", m>>
  <2>1. DOMAIN obj[2] \subseteq Nat
    BY <1>2
  <2> QED BY <1>1, <2>1, DictBody
<1> HIDE DEF v
\* Each entry on its own.
<1>5. \A i \in DOMAIN obj[2] :
        /\ FromValue(Core(K(i))).ok /\ FromValue(Core(V(i))).ok
        /\ Back(Core(K(i)))[1] \notin Unhashable
        /\ AsStored(Back(Core(K(i)))) = AsStored(K(i))
        /\ AsStored(Back(Core(V(i)))) = AsStored(V(i))
        /\ Core(K(i)) = CoreOf(AsStored(K(i)))
        /\ ToValueAt(Back(Core(K(i))), d + 1).ok /\ ToValueAt(Back(Core(V(i))), d + 1).ok
  <2> TAKE i \in DOMAIN obj[2]
  <2>1. GoesRound(K(i), d + 1) /\ GoesRound(V(i), d + 1)
    BY <1>3
  <2>2. /\ Core(K(i)) = CoreOf(AsStored(K(i)))
        /\ Back(Core(K(i)))[1] \notin Unhashable
    BY <1>3, <1>4, ScalarsGoRound
  <2> QED BY <1>4, <2>1, <2>2 DEF GoesRound
\* The map and its keys.
<1>6. /\ DOMAIN cores = 1 .. n /\ DOMAIN stored = 1 .. n
      /\ \A i \in 1 .. n : /\ cores[i][1] = Core(K(i)) /\ cores[i][2] = Core(V(i))
                           /\ stored[i][1] = AsStored(K(i)) /\ stored[i][2] = AsStored(V(i))
  BY <1>2
<1>7. PICK q \in Nat : /\ DOMAIN keys = 1 .. q
                       /\ \A k : k \in DOMAIN m <=> \E j \in 1 .. q : keys[j] = k
  <2> HIDE DEF cores
  <2> QED BY ONLY <1>6, KeysListed, n \in Nat
<1>8. \A j \in 1 .. q : \E i \in 1 .. n : keys[j] = Core(K(i))
  <2> TAKE j \in 1 .. q
  <2> HIDE DEF cores, keys
  <2>1. keys[j] \in DOMAIN AsMap(cores)
    BY <1>7
  <2>2. \E i \in DOMAIN cores : cores[i][1] = keys[j]
    BY ONLY <2>1, MapDomain
  <2> QED BY <1>6, <2>2
<1>9. \A j \in 1 .. q : \E i \in 1 .. n : m[keys[j]] = Core(V(i))
  <2> TAKE j \in 1 .. q
  <2> HIDE DEF cores
  <2>1. keys[j] \in DOMAIN AsMap(cores)
    BY <1>7
  <2>2. PICK l \in 1 .. n : AsMap(cores)[keys[j]] = cores[l][2]
    BY ONLY <1>6, <2>1, LastWins, n \in Nat
  <2> QED BY <1>6, <2>2
<1> HIDE DEF cores, stored, m, keys
<1>10. \A j \in 1 .. q :
         /\ FromValue(keys[j]).ok /\ Back(keys[j])[1] \notin Unhashable
         /\ FromValue(m[keys[j]]).ok
         /\ ToValueAt(Back(keys[j]), d + 1).ok
         /\ ToValueAt(Back(m[keys[j]]), d + 1).ok
  <2> TAKE j \in 1 .. q
  <2>1. PICK i \in 1 .. n : keys[j] = Core(K(i))
    BY <1>8
  <2>2. PICK l \in 1 .. n : m[keys[j]] = Core(V(l))
    BY <1>9
  <2> HIDE DEF Core, Back, K, V
  <2> QED BY <1>2, <1>5, <2>1, <2>2
<1>11. ValueToPy(<<"HashMap", m>>) = Done(<<"dict", pairs>>)
  BY <1>7, <1>10, MapBack DEF keys
<1>12. /\ DOMAIN pairs = 1 .. q /\ DOMAIN kept = 1 .. q
       /\ \A j \in 1 .. q : /\ pairs[j][1] = Back(keys[j]) /\ pairs[j][2] = Back(m[keys[j]])
                            /\ kept[j][1] = AsStored(Back(keys[j]))
                            /\ kept[j][2] = AsStored(Back(m[keys[j]]))
  BY <1>7
<1>13. AsStored(obj) = <<"dict", AsMap(stored)>>
  BY StoredAssumption DEF StoredBody, stored
<1> HIDE DEF pairs
<1>14. back = Done(<<"dict", pairs>>)
  BY <1>1, <1>4, <1>11, ConversionsAssumption
<1>15. back.ok /\ back.val = <<"dict", pairs>>
  BY <1>14 DEF Done
<1>16. back.val \in Objects
  BY <1>1, <1>15, UniverseAssumption
<1> HIDE DEF back
<1>17. AsStored(back.val) = <<"dict", AsMap(kept)>>
  BY <1>15, <1>16, StoredAssumption DEF StoredBody
<1> HIDE DEF kept
<1>18. AsMap(kept) = AsMap(stored)
  <2>1. \A i, l \in 1 .. n : cores[i][1] = cores[l][1] <=> stored[i][1] = stored[l][1]
    <3> TAKE i, l \in 1 .. n
    <3>1. /\ Core(K(i)) = CoreOf(AsStored(K(i))) /\ Core(K(l)) = CoreOf(AsStored(K(l)))
          /\ AsStored(Back(Core(K(i)))) = AsStored(K(i))
          /\ AsStored(Back(Core(K(l)))) = AsStored(K(l))
      BY <1>2, <1>5
    <3> HIDE DEF Core, Back, K
    <3> QED BY <1>6, <3>1
  <2>2. \A j \in 1 .. q, i \in 1 .. n :
          /\ keys[j] = cores[i][1] => kept[j][1] = stored[i][1]
          /\ m[keys[j]] = cores[i][2] => kept[j][2] = stored[i][2]
    <3> TAKE j \in 1 .. q, i \in 1 .. n
    <3>1. /\ AsStored(Back(Core(K(i)))) = AsStored(K(i))
          /\ AsStored(Back(Core(V(i)))) = AsStored(V(i))
      BY <1>2, <1>5
    <3> HIDE DEF Core, Back, K, V
    <3> QED BY <1>6, <1>12, <3>1
  <2>3. /\ DOMAIN cores = 1 .. n /\ DOMAIN stored = 1 .. n
        /\ DOMAIN keys = 1 .. q /\ DOMAIN kept = 1 .. q
    BY <1>6, <1>7, <1>12
  <2>4. \A k : k \in DOMAIN AsMap(cores) <=> \E j \in 1 .. q : keys[j] = k
    BY <1>7 DEF m
  <2>5. \A j \in 1 .. q, i \in 1 .. n :
          /\ keys[j] = cores[i][1] => kept[j][1] = stored[i][1]
          /\ AsMap(cores)[keys[j]] = cores[i][2] => kept[j][2] = stored[i][2]
    BY <2>2 DEF m
  <2>6. Correspond(n, cores, stored, q, keys, kept)
    BY ONLY <2>1, <2>3, <2>4, <2>5 DEF Correspond
  <2> QED BY ONLY <2>6, MapsCorrespond, n \in Nat, q \in Nat
<1>19. ToValueAt(back.val, d).ok
  <2>1. PyToValueInner(back.val, d).ok
    <3> DEFINE o == back.val
    <3>1. o[1] = "dict" /\ o[2] = pairs
      BY <1>15
    <3>2. DOMAIN o[2] \subseteq Nat
          /\ \A j \in DOMAIN o[2] :
               ToValueAt(o[2][j][1], d + 1).ok /\ ToValueAt(o[2][j][2], d + 1).ok
      BY <1>10, <1>12, <3>1
    <3> HIDE DEF o
    <3>3. PyToValueInner(o, d).ok
      BY ONLY <1>1, <3>1, <3>2, DictBody, d \in Depths
    <3> QED BY <3>3 DEF o
  <2> QED BY <1>16, <2>1, ConversionsAssumption DEF Depths
<1> QED BY <1>13, <1>15, <1>16, <1>17, <1>18, <1>19 DEF GoesRound, v, back

\* Induction: a set with 0 and the successor of each of its numbers has them all.
LEMMA Induct ==
  ASSUME NEW T, 0 \in T, \A n \in Nat : n \in T => n + 1 \in T
  PROVE  Nat \subseteq T
<1> SUFFICES ASSUME Nat \ T # {} PROVE FALSE
  OBVIOUS
<1> DEFINE n == Min(Nat \ T)
<1>1. n \in Nat \ T /\ \A m \in Nat \ T : n <= m
  BY SmallestNumber
<1> HIDE DEF n
<1>2. n # 0 /\ n - 1 \in Nat /\ ~(n <= n - 1)
  BY <1>1
<1>3. n - 1 \in T
  BY <1>1, <1>2
<1>4. (n - 1) + 1 \in T
  BY <1>2, <1>3
<1> QED BY <1>1, <1>4

\* Induction from the greatest depth, where nothing converts, upwards.
LEMMA FromTheDeepest ==
  ASSUME NEW low \in Int, NEW high \in Int, NEW S, high \in S,
         \A d \in low .. high : d # high /\ d + 1 \in S => d \in S
  PROVE  low .. high \subseteq S
<1> DEFINE T == {n \in Nat : n <= high - low => high - n \in S}
<1>1. 0 \in T
  OBVIOUS
<1>2. ASSUME NEW n \in Nat, n \in T PROVE n + 1 \in T
  <2> SUFFICES ASSUME n + 1 <= high - low PROVE high - (n + 1) \in S
    OBVIOUS
  <2>1. /\ high - (n + 1) \in low .. high /\ high - (n + 1) # high
        /\ (high - (n + 1)) + 1 = high - n
    OBVIOUS
  <2>2. high - n \in S
    BY <1>2
  <2> QED BY <2>1, <2>2
<1>3. Nat \subseteq T
  BY <1>1, <1>2, Induct
<1>4. ASSUME NEW d \in low .. high PROVE d \in S
  <2>1. high - d \in Nat /\ high - d <= high - low /\ high - (high - d) = d
    OBVIOUS
  <2>2. high - d \in T
    BY <1>3, <2>1
  <2> QED BY <2>1, <2>2
<1> QED BY <1>4

\* What converts, at any depth, converts back to what it was.
LEMMA EverythingGoesRound ==
  ASSUME NEW obj \in Objects, NEW d \in Depths
  PROVE  GoesRound(obj, d)
<1> DEFINE S == {e \in Depths : \A o \in Objects : GoesRound(o, e)}
<1>1. MaxDepth \in Nat
  BY ValuesAssumption
<1>2. MaxDepth + 1 \in S
  <2>1. MaxDepth + 1 \in Depths /\ ~(MaxDepth + 1 <= MaxDepth)
    BY <1>1 DEF Depths
  <2>2. \A o \in Objects : ~ToValueAt(o, MaxDepth + 1).ok
    BY <2>1, ConvertedByType
  <2> QED BY <2>1, <2>2 DEF GoesRound
<1>3. ASSUME NEW e \in Depths, e # MaxDepth + 1, e + 1 \in S PROVE e \in S
  <2> SUFFICES ASSUME NEW o \in Objects, ToValueAt(o, e).ok PROVE GoesRound(o, e)
    BY DEF GoesRound
  <2>1. e + 1 \in Depths /\ \A p \in Objects : GoesRound(p, e + 1)
    BY <1>3
  <2>2. CASE o[1] = "list"
    BY <2>1, <2>2, ListsGoRound
  <2>3. CASE o[1] = "dict"
    BY <2>1, <2>3, DictsGoRound
  <2>4. CASE o[1] \notin Unhashable
    BY <2>4, ScalarsGoRound
  <2> QED BY <2>2, <2>3, <2>4 DEF Unhashable
<1> HIDE DEF S
<1>4. Depths \subseteq S
  BY <1>1, <1>2, <1>3, FromTheDeepest DEF Depths
<1> QED BY <1>4 DEF S


----------------------------------------------------------------------------
(* Keys *)

\* The digest pass makes of a parsed key what py_to_key makes at once.
LEMMA HashedIsMade ==
  ASSUME NEW raw, ToPendingKey(raw).ok, HashPending(ToPendingKey(raw).val).ok
  PROVE  ToKey(raw) = Done(HashPending(ToPendingKey(raw).val).val)
<1> DEFINE parts == KeyParts(raw).val
           digest == IF Given(parts) THEN parts.digest[2] ELSE <<>>
           Kind(kind) == IF Given(parts) THEN "Ready" ELSE kind
<1>1. KeyParts(raw).ok
  BY DEF ToPendingKey, Then
<1>2. CASE parts.user[1] = "bytes"
  <2> DEFINE user == <<"Blob", parts.user[2]>>
             key == CoreKey(parts, user, IF Given(parts) THEN parts.digest[2]
                                         ELSE BytesDigest(parts.set, parts.user[2]))
             pending == <<Kind("HashBytes"), CoreKey(parts, user, digest)>>
  <2>1. ToPendingKey(raw) = Done(pending)
    BY <1>1, <1>2 DEF ToPendingKey, Then
  <2>2. ToKey(raw) = Done(key)
    BY <1>1, <1>2 DEF ToKey, Then
  <2>3. HashPending(pending) = Done(key)
    BY DEF HashPending, CoreKey
  <2> HIDE DEF pending, key
  <2>4. ToPendingKey(raw).val = pending /\ Done(key).val = key
    BY <2>1 DEF Done
  <2> QED BY <2>2, <2>3, <2>4
<1>3. CASE parts.user[1] # "bytes"
  <2> DEFINE user == ToValue(parts.user).val
             made == IF Given(parts) THEN Done(CoreKey(parts, user, parts.digest[2]))
                     ELSE KeyNew(parts.ns, parts.set, user)
             pending == <<Kind("Hash"), CoreKey(parts, user, digest)>>
  <2>1. ToValue(parts.user).ok /\ ToPendingKey(raw) = Done(pending)
    BY <1>1, <1>3 DEF ToPendingKey, Then
  <2>2. ToKey(raw) = made
    BY <1>1, <1>3, <2>1 DEF ToKey, Then
  <2>3. HashPending(pending) = made
    BY DEF HashPending, CoreKey
  <2> HIDE DEF user
  <2>4. made.ok => made = Done(made.val)
    BY DEF KeyNew, Done, Failed
  <2> HIDE DEF pending, made
  <2>5. ToPendingKey(raw).val = pending
    BY <2>1 DEF Done
  <2> QED BY <2>2, <2>3, <2>4, <2>5
<1> QED BY <1>2, <1>3

\* So does py_to_keys, of every key of a list.
LEMMA KeysAreMade ==
  ASSUME NEW raws, DOMAIN raws \subseteq Nat, ToKeys(raws).ok
  PROVE  /\ DOMAIN ToKeys(raws).val = DOMAIN raws
         /\ \A i \in DOMAIN raws : ToKey(raws[i]) = Done(ToKeys(raws).val[i])
<1> DEFINE parsed == [i \in DOMAIN raws |-> ToPendingKey(raws[i])]
           ps == Collected(parsed).val
           hashed == [i \in DOMAIN ps |-> HashPending(ps[i])]
<1>1. Collected(parsed).ok /\ ToKeys(raws) = Collected(hashed)
  BY DEF ToKeys, Then
<1>2. /\ \A i \in DOMAIN raws : parsed[i].ok
      /\ DOMAIN ps = DOMAIN raws
      /\ \A i \in DOMAIN raws : ps[i] = ToPendingKey(raws[i]).val
  <2>1. /\ \A i \in DOMAIN parsed : parsed[i].ok
        /\ ps = [i \in DOMAIN parsed |-> parsed[i].val]
    BY <1>1, CollectedAll
  <2> HIDE DEF ps
  <2> QED BY <2>1
<1> HIDE DEF ps
<1>3. /\ \A i \in DOMAIN raws : hashed[i].ok
      /\ ToKeys(raws).val = [i \in DOMAIN hashed |-> hashed[i].val]
  BY <1>1, <1>2, CollectedAll
<1>4. ASSUME NEW i \in DOMAIN raws
      PROVE  ToKey(raws[i]) = Done(ToKeys(raws).val[i])
  <2>1. ToPendingKey(raws[i]).ok /\ HashPending(ToPendingKey(raws[i]).val).ok
    BY <1>2, <1>3
  <2>2. ToKeys(raws).val[i] = HashPending(ToPendingKey(raws[i]).val).val
    BY <1>2, <1>3
  <2> QED BY <2>1, <2>2, HashedIsMade
<1> QED BY <1>2, <1>3, <1>4

\* What a made key consists of.
LEMMA KeyMade ==
  ASSUME NEW raw \in Objects, ToKey(raw).ok
  PROVE  \E obj \in Objects :
           ToValue(obj).ok /\ ToKey(raw).val.user = ToValue(obj).val
<1> DEFINE parts == KeyParts(raw).val
           obj == raw[2][3]
<1>1. KeyParts(raw).ok
  BY DEF ToKey, Then
<1>2. /\ raw[1] = "tuple" /\ Len(raw[2]) \in {3, 4}
      /\ parts.user = obj
  BY <1>1 DEF KeyParts, Then, Done, Failed
<1>3. raw[2] \in Seq(Objects)
  BY <1>2, UniverseAssumption
<1>4. obj \in Objects
  BY <1>2, <1>3
<1>5. CASE obj[1] = "bytes"
  <2>1. ToKey(raw).val.user = <<"Blob", obj[2]>>
    BY <1>1, <1>2, <1>5 DEF ToKey, Then, Done, CoreKey
  <2>2. 0 \in Depths /\ 0 <= MaxDepth
    BY ValuesAssumption DEF Depths
  <2>3. PyToValueInner(obj, 0) = Done(<<"Blob", obj[2]>>)
    <3>1. "bytes" \in DOMAIN ScalarVariant /\ ScalarVariant["bytes"] = "Blob"
      BY DEF ScalarVariant
    <3> HIDE DEF obj
    <3> QED BY <1>5, <2>2, <3>1, BodyByType
  <2>4. ToValue(obj) = Done(<<"Blob", obj[2]>>)
    BY <1>4, <2>2, <2>3, ConversionsAssumption DEF ToValue, Depths
  <2> QED BY <1>4, <2>1, <2>4 DEF Done
<1>6. CASE obj[1] # "bytes"
  <2>1. ToValue(obj).ok
    BY <1>1, <1>2, <1>6 DEF ToKey, Then
  <2>2. ToKey(raw) = IF Given(parts)
                     THEN Done(CoreKey(parts, ToValue(obj).val, parts.digest[2]))
                     ELSE KeyNew(parts.ns, parts.set, ToValue(obj).val)
    BY <1>1, <1>2, <1>6, <2>1 DEF ToKey, Then
  <2>3. ToKey(raw).val.user = ToValue(obj).val
    BY <2>2 DEF CoreKey, KeyNew, Done, Failed
  <2> QED BY <1>4, <2>1, <2>3
<1> QED BY <1>5, <1>6

\* The tuple a key is returned as makes a key of the same record.
LEMMA KeyComesBack ==
  ASSUME NEW raw \in Objects, ToKey(raw).ok, KeyToPy(ToKey(raw).val).ok
  PROVE  LET again == ToKey(KeyToPy(ToKey(raw).val).val)
         IN again.ok /\ again.val.digest = ToKey(raw).val.digest
<1> DEFINE key == ToKey(raw).val
           back == FromValue(key.user).val
           items == <<<<"str", key.ns>>, <<"str", key.set>>, back,
                      <<"digest", key.digest>>>>
           parts == [ns |-> key.ns, set |-> key.set, user |-> back,
                     digest |-> <<"present", key.digest>>]
<1>1. PICK obj \in Objects : ToValue(obj).ok /\ key.user = ToValue(obj).val
  BY KeyMade
<1>2. FromValue(key.user).ok /\ KeyToPy(key) = Done(<<"tuple", items>>)
  BY DEF KeyToPy, Then
<1>3. ToValue(back).ok
  <2>1. 0 \in Depths
    BY ValuesAssumption DEF Depths
  <2> QED BY <1>1, <2>1, EverythingGoesRound DEF GoesRound, ToValue
<1> HIDE DEF key, back
<1>4. KeyParts(<<"tuple", items>>) = Done(parts)
  BY DEF KeyParts, ExplicitDigest, Then, Done
<1>5. Given(parts) /\ parts.user = back /\ parts.digest[2] = key.digest
  BY DEF Given
<1>6. \E user : ToKey(<<"tuple", items>>) = Done(CoreKey(parts, user, key.digest))
  <2> DEFINE tuple == <<"tuple", items>>
             p == parts
  <2>1. KeyParts(tuple).ok /\ KeyParts(tuple).val = p
    BY <1>4 DEF Done
  <2>2. Given(p) /\ p.user = back /\ p.digest[2] = key.digest
    BY <1>5
  <2> HIDE DEF tuple, p
  <2>3. ToKey(tuple) = Done(CoreKey(p, IF p.user[1] = "bytes" THEN <<"Blob", p.user[2]>>
                                       ELSE ToValue(p.user).val, p.digest[2]))
    BY <1>3, <2>1, <2>2 DEF ToKey, Then
  <2> QED BY <2>2, <2>3 DEF tuple, p
<1>7. KeyToPy(ToKey(raw).val).val = <<"tuple", items>> /\ ToKey(raw).val.digest = key.digest
  BY <1>2 DEF key, Done
<1> QED BY <1>6, <1>7 DEF CoreKey, Done

\* The key a keyed method converts is the one made of its key tuple.
LEMMA KeyedRequests ==
  ASSUME call.method \in {"get", "select", "exists", "operate", "operate_ordered"},
         Prepare.ok
  PROVE  ToKey(call.key).ok /\ Prepare.val.items[1].key = ToKey(call.key).val
<1>1. Prepare \in {PrepareGet(call), PrepareSelect(call), PrepareExists(call),
                   PrepareOperate(call)}
  BY DEF Prepare
<1> QED
  BY <1>1 DEF PrepareGet, PrepareSelect, PrepareExists, PrepareOperate,
              KeyAndPolicy, Then, Single, Request, Item, Done

\* One key tuple names one record: the two passes of py_to_keys make the key
\* py_to_key makes, and the key a record is returned with makes the same digest
\* again (key_to_py).
THEOREM SameKeyAlways == Spec => []SameKeySameRecord
<1>1. ASSUME IInv, call.method \in {"batch_read", "batch_operate"},
             NEW c \in Clients, Sent(c), NEW i \in DOMAIN call.keys
      PROVE  ToKey(call.keys[i]) = Done(request[c].items[i].key)
  <2>1. Prepare.ok /\ request[c] = Prepare.val /\ call \in Calls
    BY <1>1, SentIsPrepared DEF IInv, Shape
  <2>2. Prepare \in {PrepareBatchRead(call), PrepareBatchOperate(call)}
    BY <1>1 DEF Prepare
  <2>3. /\ ToKeys(call.keys).ok
        /\ i \in DOMAIN ToKeys(call.keys).val =>
             Prepare.val.items[i].key = ToKeys(call.keys).val[i]
    BY <2>1, <2>2 DEF PrepareBatchRead, PrepareBatchOperate, Then, Request, Item, Done
  <2>4. DOMAIN call.keys \subseteq Nat
    BY <1>1, <2>1, ListsAreSequences DEF Takes, Lists
  <2> QED BY <1>1, <2>1, <2>3, <2>4, KeysAreMade
<1>2. ASSUME IInv, NEW c \in Clients, key_py[c] # <<>>
      PROVE  LET again == ToKey(key_py[c])
             IN again.ok /\ again.val.digest = request[c].items[1].key.digest
  <2>1. Passed(c, "key") /\ key_py[c] = PreparedKey.val
    BY <1>2 DEF IInv, Holds
  <2>2. PICK i \in 1 .. at[c] - 1 : Path[i] = "key"
    BY <2>1 DEF Passed
  <2>3. at[c] \in 1 .. Len(Path) + 1 /\ Halt("key") = Pending
    BY <1>2, <2>2 DEF IInv, OnItsWay
  <2>4. PICK j \in 1 .. at[c] - 1 : Path[j] = "prepare"
    BY <2>2, <2>3, PathFacts
  <2>5. Halt("prepare") = Pending /\ request[c] = Prepare.val
    BY <1>2, <2>4 DEF IInv, OnItsWay, Holds, Passed
  <2>6. Prepare.ok /\ PreparedKey.ok
    BY <2>3, <2>5 DEF Halt, Pending, Escaped, Raised
  <2>7. call.method \in {"get", "select", "exists", "operate", "operate_ordered"}
    BY <2>2, <2>3 DEF Path, Course, ArgsFirst, AdminTask, Udf, Write, Admin
  <2>8. ToKey(call.key).ok /\ Prepare.val.items[1].key = ToKey(call.key).val
    BY <2>6, <2>7, KeyedRequests
  <2>9. call.key \in Objects
    <3>1. call \in Calls
      BY <1>2 DEF IInv, Shape
    <3>2. "key" \in DOMAIN call
      BY <2>7, <3>1, CallsAssumption DEF Takes, KeyedWrites
    <3> QED BY <3>1, <3>2, ArgumentsAreObjects
  <2> QED BY <2>1, <2>5, <2>6, <2>8, <2>9, KeyComesBack DEF PreparedKey
<1>3. IInv => SameKeySameRecord
  BY <1>1, <1>2 DEF SameKeySameRecord
<1> QED BY <1>3, Invariance, PTL

----------------------------------------------------------------------------
(* Bins and privileges, written and read back *)

\* What a put sends in a bin reads back as what it was given.
LEMMA BinsReadBack ==
  ASSUME NEW pairs \in Seq(Objects \X Objects), ToBins(pairs).ok,
         NEW i \in DOMAIN pairs
  PROVE  LET back == FromValue(ToBins(pairs).val[i][2])
         IN back.ok /\ AsStored(back.val) = AsStored(pairs[i][2])
<1> DEFINE Bin(p) ==
             IF p[1][1] # "str" THEN Failed("TypeError")
             ELSE IF Len(p[1][2]) \notin 1 .. MaxBinName THEN Failed("ValueError")
             ELSE Then(ToValue(p[2]), LAMBDA v : Done(<<p[1][2], v>>))
           results == [j \in DOMAIN pairs |-> Bin(pairs[j])]
<1>1. ToBins(pairs) = Collected(results)
  BY DEF ToBins
<1>2. \A p : Bin(p).ok => ToValue(p[2]).ok /\ Bin(p).val[2] = ToValue(p[2]).val
  BY DEF Then, Done, Failed
<1> HIDE DEF Bin
<1>3. /\ DOMAIN results \subseteq Nat /\ i \in DOMAIN results
      /\ results[i] = Bin(pairs[i])
      /\ pairs[i][2] \in Objects
  OBVIOUS
<1> HIDE DEF results
<1>4. results[i].ok /\ ToBins(pairs).val[i] = results[i].val
  <2>1. Collected(results).ok
    BY <1>1
  <2>2. /\ \A j \in DOMAIN results : results[j].ok
        /\ Collected(results).val = [j \in DOMAIN results |-> results[j].val]
    BY ONLY <1>3, <2>1, CollectedAll
  <2> QED BY ONLY <1>1, <1>3, <2>2
<1>5. ToValue(pairs[i][2]).ok /\ ToBins(pairs).val[i][2] = ToValue(pairs[i][2]).val
  BY <1>2, <1>3, <1>4
<1>6. 0 \in Depths
  BY ValuesAssumption DEF Depths
<1> QED BY <1>3, <1>5, <1>6, EverythingGoesRound DEF GoesRound, ToValue

\* The dict role_to_py makes of a privilege.
PrivilegeDict(code, ns, set) ==
  Join(Setting("code", <<"int", PrivilegeCode[code]>>),
       Join(IF ns = "any" THEN <<>> ELSE Setting("ns", <<"str", ns>>),
            IF set = "any" THEN <<>> ELSE Setting("set", <<"str", set>>)))

\* The codes of two privileges differ.
LEMMA CodesDiffer ==
  ASSUME NEW c \in DOMAIN PrivilegeCode
  PROVE  CodeOf(<<"int", PrivilegeCode[c]>>) = Done(c)
<1> DEFINE obj == <<"int", PrivilegeCode[c]>>
           known == {d \in DOMAIN PrivilegeCode :
                       obj \in {<<"str", d>>, <<"int", PrivilegeCode[d]>>}}
<1>1. /\ PrivilegeCode[c] \in 0 .. 255
      /\ \A d \in DOMAIN PrivilegeCode :
           PrivilegeCode[d] = PrivilegeCode[c] => d = c
  BY DEF PrivilegeCode
<1>2. known = {c}
  BY <1>1
<1>3. obj[1] = "int" /\ obj[2] \in 0 .. 255
  BY <1>1
<1> QED BY <1>2, <1>3 DEF CodeOf

\* A privilege is a code with a scope, ...
LEMMA PrivilegeParsed ==
  ASSUME NEW dict, ParsePrivilege(dict).ok
  PROVE  \E code \in DOMAIN PrivilegeCode : \E ns, set :
           ParsePrivilege(dict).val = <<code, ns, set>>
<1> DEFINE Scope(field) ==
             IF field \notin DOMAIN dict THEN Done("any")
             ELSE CASE dict[field][1] = "none" -> Done("any")
                    [] dict[field][1] = "str" -> Done(dict[field][2])
                    [] OTHER -> Failed("TypeError")
<1>1. ParsePrivilege(dict)
        = IF "code" \notin DOMAIN dict THEN Failed("InvalidArgError")
          ELSE Then(CodeOf(dict["code"]), LAMBDA code :
               Then(Scope("ns"), LAMBDA ns :
               Then(Scope("set"), LAMBDA set : Done(<<code, ns, set>>))))
  BY DEF ParsePrivilege
<1> HIDE DEF Scope
<1>2. /\ CodeOf(dict["code"]).ok
      /\ ParsePrivilege(dict).val
           = <<CodeOf(dict["code"]).val, Scope("ns").val, Scope("set").val>>
  BY <1>1 DEF Then, Done, Failed
<1>3. CodeOf(dict["code"]).val \in DOMAIN PrivilegeCode
  BY <1>2 DEF CodeOf, Done, Failed
<1> QED BY <1>2, <1>3

\* ... and reads back as what it is.
LEMMA PrivilegeAgain ==
  ASSUME NEW code \in DOMAIN PrivilegeCode, NEW ns, NEW set
  PROVE  ParsePrivilege(PrivilegeDict(code, ns, set)) = Done(<<code, ns, set>>)
<1> DEFINE dict == PrivilegeDict(code, ns, set)
           Scope(field) ==
             IF field \notin DOMAIN dict THEN Done("any")
             ELSE CASE dict[field][1] = "none" -> Done("any")
                    [] dict[field][1] = "str" -> Done(dict[field][2])
                    [] OTHER -> Failed("TypeError")
<1>1. /\ "code" \in DOMAIN dict /\ dict["code"] = <<"int", PrivilegeCode[code]>>
      /\ "ns" \in DOMAIN dict <=> ns # "any"
      /\ "ns" \in DOMAIN dict => dict["ns"] = <<"str", ns>>
      /\ "set" \in DOMAIN dict <=> set # "any"
      /\ "set" \in DOMAIN dict => dict["set"] = <<"str", set>>
  BY DEF PrivilegeDict, Join, Setting
<1> HIDE DEF dict
<1>2. Scope("ns") = Done(ns) /\ Scope("set") = Done(set)
  BY <1>1
<1>3. CodeOf(<<"int", PrivilegeCode[code]>>) = Done(code)
  BY CodesDiffer
<1>4. ParsePrivilege(dict)
        = IF "code" \notin DOMAIN dict THEN Failed("InvalidArgError")
          ELSE Then(CodeOf(dict["code"]), LAMBDA c :
               Then(Scope("ns"), LAMBDA n :
               Then(Scope("set"), LAMBDA s : Done(<<c, n, s>>))))
  BY DEF ParsePrivilege
<1> HIDE DEF Scope
<1>5. ParsePrivilege(dict) = Done(<<code, ns, set>>)
  <2>1. CodeOf(dict["code"]).ok /\ CodeOf(dict["code"]).val = code
    BY <1>1, <1>3 DEF Done
  <2>2. /\ Scope("ns").ok /\ Scope("ns").val = ns
        /\ Scope("set").ok /\ Scope("set").val = set
    BY <1>2 DEF Done
  <2> QED BY <1>1, <1>4, <2>1, <2>2 DEF Then
<1> QED BY <1>5 DEF dict

\* A role's privileges read back as they were created.
LEMMA PrivilegesReadBack ==
  ASSUME NEW dicts, DOMAIN dicts \subseteq Nat, ParsePrivileges(dicts).ok
  PROVE  LET given == ParsePrivileges(dicts).val
         IN ParsePrivileges(RoleToPy(given)) = Done(given)
<1> DEFINE given == ParsePrivileges(dicts).val
           results == [i \in DOMAIN dicts |-> ParsePrivilege(dicts[i])]
           role == RoleToPy(given)
           again == [i \in DOMAIN role |-> ParsePrivilege(role[i])]
<1>1. /\ \A i \in DOMAIN dicts : results[i].ok
      /\ given = [i \in DOMAIN dicts |-> results[i].val]
  BY CollectedAll DEF ParsePrivileges
<1>2. ASSUME NEW i \in DOMAIN dicts
      PROVE  \E code \in DOMAIN PrivilegeCode : \E ns, set : given[i] = <<code, ns, set>>
  BY <1>1, PrivilegeParsed
<1> HIDE DEF given
<1>3. /\ DOMAIN role = DOMAIN given
      /\ \A i \in DOMAIN given :
           role[i] = PrivilegeDict(given[i][1], given[i][2], given[i][3])
  BY DEF RoleToPy, PrivilegeDict
<1> HIDE DEF role
<1>4. ASSUME NEW i \in DOMAIN dicts
      PROVE  ParsePrivilege(role[i]) = Done(given[i])
  <2>1. PICK code, ns, set :
          code \in DOMAIN PrivilegeCode /\ given[i] = <<code, ns, set>>
    BY <1>2
  <2>2. i \in DOMAIN given
    BY <1>1
  <2>3. role[i] = PrivilegeDict(code, ns, set)
    BY <1>3, <2>1, <2>2
  <2> QED BY <2>1, <2>3, PrivilegeAgain
<1>5. /\ \A i \in DOMAIN again : again[i].ok
      /\ [i \in DOMAIN again |-> again[i].val] = given
  <2>1. DOMAIN again = DOMAIN dicts /\ \A i \in DOMAIN dicts : again[i] = Done(given[i])
    BY <1>1, <1>3, <1>4
  <2> HIDE DEF again
  <2>2. [i \in DOMAIN dicts |-> given[i]] = given
    BY <1>1
  <2>3. \A i \in DOMAIN dicts : again[i].ok /\ again[i].val = given[i]
    BY <2>1 DEF Done
  <2> QED BY <2>1, <2>2, <2>3
<1>6. ParsePrivileges(role) = Collected(again)
  BY DEF ParsePrivileges
<1> HIDE DEF again
<1>7. Collected(again) = Done(given)
  BY <1>5 DEF Collected
<1> QED BY <1>6, <1>7 DEF given, role

\* What a put writes and what a role is created with read back as given, at
\* every depth of nesting (py_to_value and value_to_py, parse_privileges and
\* role_to_py).
THEOREM EverythingReadsBack == Spec => []WhatIsSentReadsBack
<1>1. IInv => WhatIsSentReadsBack
  <2> SUFFICES ASSUME IInv, NEW c \in Clients, Sent(c)
               PROVE
                 /\ call.method = "put" =>
                      \A i \in DOMAIN call.bins[2] :
                        LET back == FromValue(request[c].items[1].body[i][2])
                        IN back.ok /\ AsStored(back.val) = AsStored(call.bins[2][i][2])
                 /\ call.method = "admin_create_role" =>
                      LET given == request[c].items[1].body
                      IN ParsePrivileges(RoleToPy(given)) = Done(given)
    BY DEF WhatIsSentReadsBack
  <2>1. Prepare.ok /\ request[c] = Prepare.val /\ call \in Calls
    BY SentIsPrepared DEF IInv, Shape
  <2>2. ASSUME call.method = "put", NEW i \in DOMAIN call.bins[2]
        PROVE  LET back == FromValue(request[c].items[1].body[i][2])
               IN back.ok /\ AsStored(back.val) = AsStored(call.bins[2][i][2])
    <3>1. Prepare = PreparePut(call)
      BY <2>2 DEF Prepare
    <3>2. /\ call.bins[1] = "dict" /\ ToBins(call.bins[2]).ok
          /\ request[c].items[1].body = ToBins(call.bins[2]).val
      BY <2>1, <3>1 DEF PreparePut, Then, Single, Request, Item, Done, Failed
    <3>3. "bins" \in DOMAIN call
      BY <2>1, <2>2, CallsAssumption DEF Takes
    <3>4. call.bins \in Objects
      BY <2>1, <3>3, ArgumentsAreObjects
    <3>5. call.bins[2] \in Seq(Objects \X Objects)
      BY <3>2, <3>4, UniverseAssumption
    <3> QED BY <2>2, <3>2, <3>5, BinsReadBack
  <2>3. ASSUME call.method = "admin_create_role"
        PROVE  LET given == request[c].items[1].body
               IN ParsePrivileges(RoleToPy(given)) = Done(given)
    <3>1. Prepare = PreparePrivileges(call)
      BY <2>3 DEF Prepare
    <3>2. /\ ParsePrivileges(call.privileges).ok
          /\ request[c].items[1].body = ParsePrivileges(call.privileges).val
      BY <2>1, <3>1 DEF PreparePrivileges, Then, Single, Request, Item, Done
    <3>3. DOMAIN call.privileges \subseteq Nat
      BY <2>1, <2>3, ListsAreSequences DEF Takes, Lists
    <3> QED BY <3>2, <3>3, PrivilegesReadBack
  <2> QED BY <2>2, <2>3
<1> QED BY <1>1, Invariance, PTL


----------------------------------------------------------------------------
(* No parser panics *)

Clean(r) == r.ok \/ r.err # "PanicException"

\* The classes a parser fails with by itself.
LEMMA CleanEnds ==
  /\ \A x : Clean(Done(x))
  /\ \A class \in {"TypeError", "ValueError", "OverflowError", "ClientError",
                   "InvalidArgError", "AdminError"} : Clean(Failed(class))
BY DEF Clean, Done, Failed

\* Collecting raises what an item raised.
LEMMA CollectedClean ==
  ASSUME NEW results, DOMAIN results \subseteq Nat,
         \A i \in DOMAIN results : Clean(results[i])
  PROVE  Clean(Collected(results))
<1>1. CASE Collected(results).ok
  BY <1>1 DEF Clean
<1>2. CASE ~Collected(results).ok
  <2>1. PICK i \in DOMAIN results : Collected(results) = results[i]
    BY <1>2, CollectedFails
  <2> QED BY <2>1
<1> QED BY <1>1, <1>2

\* py_to_value does not panic, ...
LEMMA ValuesClean ==
  ASSUME NEW obj \in Objects, NEW depth \in Depths
  PROVE  Clean(ToValueAt(obj, depth))
<1> DEFINE S == {d \in Depths : \A o \in Objects : Clean(ToValueAt(o, d))}
<1>1. MaxDepth + 1 \in S
  <2>1. ASSUME NEW o \in Objects PROVE Clean(ToValueAt(o, MaxDepth + 1))
    <3>1. MaxDepth \in Nat /\ MaxDepth + 1 \in Depths /\ MaxDepth + 1 > MaxDepth
      BY ValuesAssumption DEF Depths
    <3>2. ToValueAt(o, MaxDepth + 1) = Failed("ValueError")
      BY <3>1, ConversionsAssumption DEF Depths, PyToValueInner, PyToValueBody
    <3> QED BY <3>2, CleanEnds
  <2> QED BY <2>1, ValuesAssumption DEF Depths
<1>2. ASSUME NEW d \in Depths, d # MaxDepth + 1, d + 1 \in S PROVE d \in S
  <2> SUFFICES ASSUME NEW o \in Objects PROVE Clean(ToValueAt(o, d))
    OBVIOUS
  <2>1. \A p \in Objects : Clean(ToValueAt(p, d + 1))
    BY <1>2
  <2>2. ToValueAt(o, d) = PyToValueInner(o, d)
    BY ConversionsAssumption DEF Depths
  <2>3. ~(d > MaxDepth)
    BY <1>2, ValuesAssumption DEF Depths
  <2>4. CASE o[1] = "list"
    <3> DEFINE results == [i \in DOMAIN o[2] |-> ToValueAt(o[2][i], d + 1)]
    <3>1. o[2] \in Seq(Objects)
      BY <2>4, UniverseAssumption
    <3>2. DOMAIN results \subseteq Nat /\ \A i \in DOMAIN results : Clean(results[i])
      BY <2>1, <3>1
    <3>3. PyToValueInner(o, d)
            = IF Collected(results).ok THEN Done(<<"List", Collected(results).val>>)
              ELSE Collected(results)
      BY <2>3, <2>4 DEF PyToValueInner, PyToValueBody, ScalarVariant, Then
    <3> HIDE DEF results
    <3> QED BY <2>2, <3>2, <3>3, CollectedClean, CleanEnds
  <2>5. CASE o[1] = "dict"
    <3> DEFINE Entry(p) == Then(ToValueAt(p[1], d + 1), LAMBDA k :
                           Then(ToValueAt(p[2], d + 1), LAMBDA v : Done(<<k, v>>)))
               results == [i \in DOMAIN o[2] |-> Entry(o[2][i])]
    <3>1. o[2] \in Seq(Objects \X Objects)
      BY <2>5, UniverseAssumption
    <3>2. ASSUME NEW p \in Objects \X Objects PROVE Clean(Entry(p))
      <4>1. Clean(ToValueAt(p[1], d + 1)) /\ Clean(ToValueAt(p[2], d + 1))
        BY <2>1
      <4> QED BY <4>1, CleanEnds DEF Then
    <3>3. PyToValueInner(o, d)
            = IF Collected(results).ok THEN Done(<<"HashMap", AsMap(Collected(results).val)>>)
              ELSE Collected(results)
      BY <2>3, <2>5 DEF PyToValueInner, PyToValueBody, ScalarVariant, Then
    <3> HIDE DEF Entry
    <3>4. DOMAIN results \subseteq Nat /\ \A i \in DOMAIN results : Clean(results[i])
      BY <3>1, <3>2
    <3> HIDE DEF results
    <3> QED BY <2>2, <3>3, <3>4, CollectedClean, CleanEnds
  <2>6. CASE o[1] \notin {"list", "dict"}
    <3>1. Clean(ToI64(o[2]))
      BY CleanEnds DEF ToI64
    <3>2. \/ PyToValueInner(o, d) = Done(<<"Nil">>)
          \/ PyToValueInner(o, d) = Done(<<ScalarVariant[o[1]], o[2]>>)
          \/ PyToValueInner(o, d)
               = IF ToI64(o[2]).ok THEN Done(<<"Int", ToI64(o[2]).val>>) ELSE ToI64(o[2])
          \/ PyToValueInner(o, d) = Failed("TypeError")
      BY <2>3, <2>6 DEF PyToValueInner, PyToValueBody, Then
    <3> QED BY <2>2, <3>1, <3>2, CleanEnds
  <2> QED BY <2>4, <2>5, <2>6
<1> HIDE DEF S
<1>3. Depths \subseteq S
  BY <1>1, <1>2, FromTheDeepest, ValuesAssumption DEF Depths
<1> QED BY <1>3 DEF S

\* ... nor do the items of a list, ...
LEMMA ObjectsClean ==
  /\ \A obj \in Objects : Clean(ToValue(obj))
  /\ \A items \in Seq(Objects) : Clean(ToValues(items))
<1>1. \A obj \in Objects : Clean(ToValue(obj))
  BY ValuesClean, ValuesAssumption DEF ToValue, Depths
<1>2. ASSUME NEW items \in Seq(Objects) PROVE Clean(ToValues(items))
  <2> DEFINE results == [i \in DOMAIN items |-> ToValue(items[i])]
  <2>1. DOMAIN results \subseteq Nat /\ \A i \in DOMAIN results : Clean(results[i])
    BY <1>1
  <2> HIDE DEF results
  <2>2. Clean(Collected(results))
    BY <2>1, CollectedClean
  <2> QED BY <2>2 DEF results, ToValues
<1> QED BY <1>1, <1>2

\* ... or py_to_expression.
LEMMA ExpressionsClean == \A node \in Nodes : Clean(ToExpression(node))
<1> DEFINE high == MaxExpressionDepth + 1
           S == {d \in 0 .. high : \A n \in Nodes : Clean(ExpressionAt(n, d))}
<1>1. MaxExpressionDepth \in Nat
  BY ExpressionsAssumption
<1>2. high \in S
  <2>1. ASSUME NEW n \in Nodes PROVE Clean(ExpressionAt(n, high))
    <3>1. high \in 0 .. MaxExpressionDepth + 1 /\ high > MaxExpressionDepth
      BY <1>1
    <3> HIDE DEF high
    <3>2. ExpressionAt(n, high) = PyToExpressionInner(n, high)
      BY <3>1, ExpressionsAssumption
    <3>3. ExpressionAt(n, high) = Failed("ValueError")
      BY <3>1, <3>2 DEF PyToExpressionInner, PyToExpressionBody
    <3> QED BY <3>3, CleanEnds
  <2> QED BY <1>1, <2>1
<1>3. ASSUME NEW d \in 0 .. high, d # high, d + 1 \in S PROVE d \in S
  <2> SUFFICES ASSUME NEW n \in Nodes PROVE Clean(ExpressionAt(n, d))
    OBVIOUS
  <2> DEFINE op == n.op
             results == [i \in DOMAIN n.subs |-> ExpressionAt(n.subs[i], d + 1)]
             Subs == Collected(results)
             Of(k, args) == Then(Subs, LAMBDA subs :
               IF Len(subs) # k THEN Failed("ValueError")
               ELSE Done(<<op, args, subs>>))
  <2>1. ExpressionAt(n, d) = PyToExpressionInner(n, d) /\ ~(d > MaxExpressionDepth)
    BY <1>1, <1>3, ExpressionsAssumption
  <2>2. Clean(Subs)
    <3>1. n.subs \in Seq(Nodes)
      BY ExpressionsAssumption
    <3>2. DOMAIN results \subseteq Nat /\ \A i \in DOMAIN results : Clean(results[i])
      BY <1>3, <3>1
    <3> HIDE DEF results
    <3> QED BY <3>2, CollectedClean
  <2>3. \A field, type : Clean(Required(field, type))
    BY CleanEnds DEF Required
  <2>4. op \in DOMAIN FieldOf => Clean(Field(op, n.args[1]))
    <3> SUFFICES ASSUME op \in DOMAIN FieldOf PROVE Clean(Field(op, n.args[1]))
      OBVIOUS
    <3> DEFINE field == n.args[1]
               required == Required(field, FieldOf[op])
    <3>1. n.args \in Seq(Objects \cup {<<"missing">>}) /\ Len(n.args) = 1
      BY ExpressionsAssumption
    <3>2. field \in Objects \cup {<<"missing">>}
      BY <3>1
    <3>3. required.ok => required.val = field /\ field # <<"missing">>
      BY DEF Required, Failed, Done
    <3>4. Clean(required)
      BY <2>3
    <3>5. field \in Objects => Clean(ToValueAt(field, -1))
      BY ValuesClean, ValuesAssumption DEF Depths
    <3>6. Field(op, field)
            = IF ~required.ok THEN required
              ELSE IF op \in {"list_val", "map_val"} THEN ToValueAt(required.val, -1)
              ELSE IF op = "key" /\ required.val[2] \notin 0 .. 9
              THEN Failed("ValueError") ELSE Done(required.val)
      BY DEF Field, Then
    <3> HIDE DEF required, field, op
    <3> QED BY <3>2, <3>3, <3>4, <3>5, <3>6, CleanEnds DEF field
  <2>5. Clean(BinAccessor(n))
    BY <2>3, CleanEnds DEF BinAccessor, Then
  <2>6. \A k, args : Clean(Of(k, args))
    <3> HIDE DEF results
    <3> QED BY <2>2, CleanEnds DEF Then
  <2>7. PyToExpressionInner(n, d) =
     IF op = "not_a_dict" THEN Failed("TypeError")
     ELSE IF op \in Metadata THEN Done(<<op, <<>>, <<>>>>)
     ELSE IF op \in BinAccessors THEN BinAccessor(n)
     ELSE IF op \in Comparisons THEN Of(2, <<>>)
     ELSE IF op = "not" THEN Of(1, <<>>)
     ELSE IF op \in Variadic \cup Unary \cup Pairs
     THEN IF n.listed = "missing" THEN Failed("ValueError")
          ELSE IF n.listed # "list" THEN Failed("TypeError")
          ELSE Then(Subs, LAMBDA subs :
                 IF Arity(op, Len(subs))
                 THEN Done(<<op, <<>>, Operands(op, subs)>>)
                 ELSE Failed(IF op \in Unary \cup Pairs THEN "ValueError"
                             ELSE "InvalidArgError"))
     ELSE IF op = "regex_compare"
     THEN Then(Required(n.args[1], "str"), LAMBDA regex :
          Then(Required(n.args[2], "int"), LAMBDA flags :
            Of(1, <<regex, flags>>)))
     ELSE IF op = "def"
     THEN Then(Required(n.args[1], "str"), LAMBDA name :
            Of(1, <<name>>))
     ELSE IF op \in DOMAIN FieldOf
     THEN Then(Field(op, n.args[1]), LAMBDA f :
            Done(<<op, <<f>>, <<>>>>))
     ELSE Failed("ValueError")
    BY <2>1 DEF PyToExpressionInner, PyToExpressionBody
  <2> HIDE DEF results, Of, Subs, op
  <2> QED BY <2>1, <2>2, <2>3, <2>4, <2>5, <2>6, <2>7, CleanEnds DEF Then
<1> HIDE DEF S, high
<1>4. 0 .. high \subseteq S
  BY <1>1, <1>2, <1>3, FromTheDeepest DEF high
<1> QED BY <1>1, <1>4 DEF S, high, ToExpression

\* An explicit digest that is none raises.
LEMMA DigestClean ==
  ASSUME NEW items \in Seq(Objects), Len(items) \in {3, 4}
  PROVE  Clean(ExplicitDigest(items))
<1>0. Len(items) = 4 => 4 \in DOMAIN items /\ items[4] \in Objects
  OBVIOUS
<1> DEFINE obj == items[4]
           bytes == [i \in DOMAIN obj[2] |-> ToByte(obj[2][i])]
           Sized(b) == IF Len(b) # 20 THEN Failed("ValueError") ELSE Done(<<"present", b>>)
<1>1. CASE Len(items) = 4 /\ obj[1] \in {"list", "tuple"}
  <2>1. obj \in Objects
    BY <1>0, <1>1
  <2>2. obj[2] \in Seq(Objects)
    BY <1>1, <2>1, UniverseAssumption
  <2>3. DOMAIN obj[2] \subseteq Nat
    BY <2>2
  <2>4. DOMAIN bytes \subseteq Nat /\ \A i \in DOMAIN bytes : Clean(bytes[i])
    BY <2>3, CleanEnds DEF ToByte
  <2>5. Clean(Collected(bytes))
    <3> HIDE DEF bytes
    <3> QED BY <2>4, CollectedClean
  <2>6. \A b : Clean(Sized(b))
    BY CleanEnds
  <2> HIDE DEF bytes, Sized
  <2>7. Clean(Then(Collected(bytes), LAMBDA b : Sized(b)))
    BY <2>5, <2>6 DEF Then
  <2>8. ExplicitDigest(items) = Then(Collected(bytes), LAMBDA b : Sized(b))
    BY <1>1 DEF ExplicitDigest, bytes, Sized
  <2> QED BY <2>7, <2>8
<1>2. CASE ~(Len(items) = 4 /\ obj[1] \in {"list", "tuple"})
  BY <1>2, CleanEnds DEF ExplicitDigest
<1> QED BY <1>1, <1>2

\* Key and bin parsing raise, and do not panic.
LEMMA KeysClean ==
  ASSUME NEW raw \in Objects
  PROVE  Clean(ToKey(raw)) /\ Clean(ToPendingKey(raw))
<1>1. /\ Clean(KeyParts(raw))
      /\ KeyParts(raw).ok => KeyParts(raw).val.user \in Objects
  <2>1. ASSUME raw[1] = "tuple", Len(raw[2]) \in {3, 4}
        PROVE  Clean(ExplicitDigest(raw[2]))
    <3>1. raw[2] \in Seq(Objects)
      BY <2>1, UniverseAssumption
    <3> QED BY <2>1, <3>1, DigestClean
  <2>2. Clean(KeyParts(raw))
    BY <2>1, CleanEnds DEF KeyParts, Then
  <2>3. ASSUME KeyParts(raw).ok PROVE KeyParts(raw).val.user \in Objects
    <3>1. /\ raw[1] = "tuple" /\ Len(raw[2]) \in {3, 4}
          /\ KeyParts(raw).val.user = raw[2][3]
      BY <2>3 DEF KeyParts, Then, Done, Failed
    <3>2. raw[2] \in Seq(Objects)
      BY <3>1, UniverseAssumption
    <3> QED BY <3>1, <3>2
  <2> QED BY <2>2, <2>3
<1>2. \A ns, set, user : Clean(KeyNew(ns, set, user))
  BY CleanEnds DEF KeyNew
<1>3. KeyParts(raw).ok => Clean(ToValue(KeyParts(raw).val.user))
  BY <1>1, ObjectsClean
<1>4. Clean(ToKey(raw))
  BY <1>1, <1>2, <1>3, CleanEnds DEF ToKey, Then
<1>5. Clean(ToPendingKey(raw))
  BY <1>1, <1>3, CleanEnds DEF ToPendingKey, Then
<1> QED BY <1>4, <1>5

\* The two passes of batch_read and batch_operate over a list of keys.
LEMMA KeyListsClean ==
  ASSUME NEW raws, DOMAIN raws \subseteq Nat, \A i \in DOMAIN raws : raws[i] \in Objects
  PROVE  Clean(ToKeys(raws))
<1> DEFINE parsed == [i \in DOMAIN raws |-> ToPendingKey(raws[i])]
           ps == Collected(parsed).val
           hashed == [i \in DOMAIN ps |-> HashPending(ps[i])]
<1>1. ToKeys(raws) = IF Collected(parsed).ok THEN Collected(hashed) ELSE Collected(parsed)
  BY DEF ToKeys, Then
<1>2. DOMAIN parsed \subseteq Nat /\ \A i \in DOMAIN parsed : Clean(parsed[i])
  BY KeysClean
<1>3. \A p : Clean(HashPending(p))
  BY CleanEnds DEF HashPending, KeyNew
<1> HIDE DEF parsed
<1>4. Collected(parsed).ok => DOMAIN ps = DOMAIN parsed
  <2> SUFFICES ASSUME Collected(parsed).ok PROVE DOMAIN ps = DOMAIN parsed
    OBVIOUS
  <2>1. ps = [i \in DOMAIN parsed |-> parsed[i].val]
    BY <1>2, CollectedAll
  <2> QED BY <2>1
<1> HIDE DEF ps
<1>5. /\ Collected(parsed).ok => DOMAIN hashed \subseteq Nat
      /\ \A i \in DOMAIN hashed : Clean(hashed[i])
  BY <1>2, <1>3, <1>4
<1> HIDE DEF hashed
<1> QED BY <1>1, <1>2, <1>5, CollectedClean

\* The bins of a put or of a batch_write's element.
LEMMA BinsClean ==
  ASSUME NEW pairs \in Seq(Objects \X Objects)
  PROVE  Clean(ToBins(pairs))
<1> DEFINE Bin(p) ==
             IF p[1][1] # "str" THEN Failed("TypeError")
             ELSE IF Len(p[1][2]) \notin 1 .. MaxBinName THEN Failed("ValueError")
             ELSE Then(ToValue(p[2]), LAMBDA v : Done(<<p[1][2], v>>))
           results == [j \in DOMAIN pairs |-> Bin(pairs[j])]
<1>1. ASSUME NEW p \in Objects \X Objects PROVE Clean(Bin(p))
  <2>1. Clean(ToValue(p[2]))
    BY ObjectsClean
  <2> QED BY <2>1, CleanEnds DEF Then
<1>2. ToBins(pairs) = Collected(results)
  BY DEF ToBins
<1> HIDE DEF Bin
<1>3. DOMAIN results \subseteq Nat /\ \A j \in DOMAIN results : Clean(results[j])
  BY <1>1
<1> HIDE DEF results
<1> QED BY <1>2, <1>3, CollectedClean

\* Nor do the readers of numbers and flags, ...
LEMMA NumbersClean ==
  \A obj : /\ Clean(U8(obj)) /\ Clean(U32(obj)) /\ Clean(I32(obj)) /\ Clean(I64(obj))
           /\ Clean(Boolean(obj)) /\ Clean(Name(obj)) /\ Clean(Code(obj))
<1>1. \A obj, low, high : Clean(Integer(obj, low, high))
  BY CleanEnds DEF Integer
<1> QED BY <1>1, CleanEnds DEF U8, U32, I32, I64, Boolean, Name, Code

\* ... the parsers of policy fields, ...
LEMMA ReadingClean ==
  ASSUME NEW field, NEW obj \in Objects,
         field = "filter_expression" => obj[1] = "expr"
  PROVE  Clean(Reading(field, obj))
<1>1. field = "filter_expression" => Clean(ToExpression(obj[2]))
  BY ExpressionsClean, ExpressionsAssumption
<1>2. \A names, fallback : Clean(Enum(obj, names, fallback))
  BY NumbersClean, CleanEnds DEF Enum, Then
<1>3. \A n : /\ Clean(ParseTtl(n)) /\ Clean(ParseReadTouchTtl(n))
             /\ Clean(ParseConcurrency(n))
  BY CleanEnds DEF ParseTtl, ParseReadTouchTtl, ParseConcurrency
<1>4. Clean(ParsePartitionFilter(obj))
  BY CleanEnds DEF ParsePartitionFilter
<1> QED BY <1>1, <1>2, <1>3, <1>4, NumbersClean, CleanEnds DEF Reading, Then

\* The fields of a policy dict, those that are read one after the other, ...
LEMMA FieldsClean ==
  ASSUME NEW policy, NEW dict, NEW fields, DOMAIN fields \subseteq Nat,
         \A field \in DOMAIN dict : dict[field] \in Objects
  PROVE  Clean(ParseFields(policy, dict, fields))
<1> DEFINE results == [i \in DOMAIN fields |-> PolicySets(dict, fields[i])]
<1>1. ASSUME NEW field PROVE Clean(PolicySets(dict, field))
  <2>1. Present(dict, field) => Clean(Reading(field, dict[field]))
    BY ReadingClean DEF Present
  <2> QED BY <2>1, CleanEnds DEF PolicySets, Then
<1>2. DOMAIN results \subseteq Nat /\ \A i \in DOMAIN results : Clean(results[i])
  BY <1>1
<1>3. ParseFields(policy, dict, fields)
        = IF Collected(results).ok THEN Done(Overlaid(policy, Collected(results).val))
          ELSE Collected(results)
  BY DEF ParseFields, Then
<1> HIDE DEF results
<1> QED BY <1>2, <1>3, CollectedClean, CleanEnds

\* ... and of a record's meta.
LEMMA MetaFieldsClean ==
  ASSUME NEW policy, NEW meta, NEW fields, DOMAIN fields \subseteq Nat,
         \A i \in DOMAIN fields : fields[i] # "filter_expression",
         \A field \in DOMAIN meta : meta[field] \in Objects
  PROVE  Clean(ReadMeta(policy, meta, fields))
<1> DEFINE results == [i \in DOMAIN fields |-> MetaSets(meta, fields[i])]
<1>1. ASSUME NEW field, field # "filter_expression" PROVE Clean(MetaSets(meta, field))
  <2>1. field \in DOMAIN meta => Clean(Reading(field, meta[field]))
    BY <1>1, ReadingClean
  <2> QED BY <2>1, NumbersClean, CleanEnds DEF MetaSets, Then
<1>2. DOMAIN results \subseteq Nat /\ \A i \in DOMAIN results : Clean(results[i])
  BY <1>1
<1>3. ReadMeta(policy, meta, fields)
        = IF Collected(results).ok THEN Done(Overlaid(policy, Collected(results).val))
          ELSE Collected(results)
  BY DEF ReadMeta, Then
<1> HIDE DEF results
<1> QED BY <1>2, <1>3, CollectedClean, CleanEnds

\* ... and what applies the meta of a batch's element to its policy.
LEMMA MetaClean ==
  ASSUME NEW base, NEW meta, \A field \in DOMAIN meta : meta[field] \in Objects
  PROVE  /\ Clean(ApplyRecordMeta(base, meta))
         /\ Clean(ApplyRecordMetaForDelete(base, meta))
         /\ Clean(ApplyRecordMetaForApply(base, meta))
BY MetaFieldsClean
   DEF ApplyRecordMeta, ApplyRecordMetaForDelete, ApplyRecordMetaForApply

\* Every parse_*_policy function.
LEMMA PoliciesClean ==
  ASSUME NEW policy, \A field \in DOMAIN policy : policy[field] \in Objects
  PROVE  /\ Clean(ParseReadPolicy(policy)) /\ Clean(ParseQueryPolicy(policy))
         /\ Clean(ParseBatchPolicy(policy)) /\ Clean(ParseBatchReadPolicy(policy))
         /\ Clean(ParseBatchWritePolicy(policy))
         /\ Clean(ParseBatchDeletePolicy(policy)) /\ Clean(ParseBatchUDFPolicy(policy))
         /\ Clean(ParseAdminPolicy(policy))
         /\ \A meta : (\A field \in DOMAIN meta : meta[field] \in Objects)
                        => Clean(ParseWritePolicy(policy, meta))
<1> DEFINE Fine(fields) == \A base : Clean(ParseFields(base, policy, fields))
<1>1. ASSUME NEW fields \in Seq(AllFields) PROVE Fine(fields)
  BY FieldsClean
<1>2. Timing \in Seq(AllFields) /\ Filter \in Seq(AllFields)
  BY TimingFields DEF Filter, AllFields
<1>3. \A s, t \in Seq(AllFields) : s \o t \in Seq(AllFields)
  BY ConcatProperties
<1> HIDE DEF Fine
<1>4. Clean(ParseReadPolicy(policy))
  <2> DEFINE own == <<"replica", "read_mode_ap", "read_touch_ttl_percent">>
  <2>1. own \in Seq(AllFields)
    BY DEF AllFields
  <2> HIDE DEF own
  <2>2. Fine((Timing \o own) \o Filter)
    BY <1>1, <1>2, <1>3, <2>1
  <2> QED BY <2>2 DEF Fine, ParseReadPolicy, own
<1>5. Clean(ParseQueryPolicy(policy))
  <2> DEFINE own == <<"max_records", "records_per_second",
                      "max_concurrent_nodes", "record_queue_size",
                      "include_bin_data", "replica", "read_mode_ap",
                      "read_touch_ttl_percent", "expected_duration">>
             last == <<"partition_filter">>
  <2>1. own \in Seq(AllFields) /\ last \in Seq(AllFields)
    BY DEF AllFields
  <2> HIDE DEF own, last
  <2>2. Fine(((Timing \o own) \o Filter) \o last)
    BY <1>1, <1>2, <1>3, <2>1
  <2> QED BY <2>2 DEF Fine, ParseQueryPolicy, own, last
<1>6. Clean(ParseBatchPolicy(policy))
  <2> DEFINE own == <<"allow_inline", "allow_inline_ssd",
                      "respond_all_keys", "replica", "read_mode_ap",
                      "read_touch_ttl_percent", "concurrency">>
  <2>1. own \in Seq(AllFields)
    BY DEF AllFields
  <2> HIDE DEF own
  <2>2. Fine((Timing \o own) \o Filter)
    BY <1>1, <1>2, <1>3, <2>1
  <2> QED BY <2>2 DEF Fine, ParseBatchPolicy, own
<1>7. Clean(ParseBatchReadPolicy(policy))
  <2> DEFINE own == <<"read_touch_ttl_percent">>
  <2>1. own \in Seq(AllFields)
    BY DEF AllFields
  <2> HIDE DEF own
  <2>2. Fine(own \o Filter)
    BY <1>1, <1>2, <1>3, <2>1
  <2> QED BY <2>2 DEF Fine, ParseBatchReadPolicy, own
<1>8. Clean(ParseBatchWritePolicy(policy))
  <2> DEFINE own == <<"durable_delete", "key", "exists", "gen", "commit_level",
                      "ttl">>
  <2>1. own \in Seq(AllFields)
    BY DEF AllFields
  <2> HIDE DEF own
  <2>2. Fine(own \o Filter)
    BY <1>1, <1>2, <1>3, <2>1
  <2> QED BY <2>2 DEF Fine, ParseBatchWritePolicy, own
<1>9. Clean(ParseBatchDeletePolicy(policy))
  <2> DEFINE own == <<"durable_delete", "key", "gen", "commit_level">>
  <2>1. own \in Seq(AllFields)
    BY DEF AllFields
  <2> HIDE DEF own
  <2>2. Fine(own \o Filter)
    BY <1>1, <1>2, <1>3, <2>1
  <2> QED BY <2>2 DEF Fine, ParseBatchDeletePolicy, own
<1>10. Clean(ParseBatchUDFPolicy(policy))
  <2> DEFINE own == <<"durable_delete", "key", "commit_level", "ttl">>
  <2>1. own \in Seq(AllFields)
    BY DEF AllFields
  <2> HIDE DEF own
  <2>2. Fine(own \o Filter)
    BY <1>1, <1>2, <1>3, <2>1
  <2> QED BY <2>2 DEF Fine, ParseBatchUDFPolicy, own
<1>11. Clean(ParseAdminPolicy(policy))
  <2>1. <<"timeout">> \in Seq(AllFields)
    BY DEF AllFields
  <2> QED BY <1>1, <2>1 DEF Fine, ParseAdminPolicy
<1>12. ASSUME NEW meta, \A field \in DOMAIN meta : meta[field] \in Objects
       PROVE  Clean(ParseWritePolicy(policy, meta))
  <2> DEFINE own == <<"durable_delete", "key", "exists", "gen", "commit_level",
                      "ttl", "read_mode_ap", "read_touch_ttl_percent">>
             of_meta == <<"gen", "ttl", "key", "exists", "commit_level",
                          "durable_delete">>
             fields == (Timing \o own) \o Filter
             base == ReadMeta(DefaultWritePolicy, meta, of_meta)
  <2>1. Clean(base)
    BY <1>12, MetaFieldsClean
  <2>2. own \in Seq(AllFields)
    BY DEF AllFields
  <2>3. ParseWritePolicy(policy, meta)
          = IF base.ok THEN ParseFields(base.val, policy, fields) ELSE base
    BY DEF ParseWritePolicy, Then
  <2> HIDE DEF own
  <2>4. Fine(fields)
    BY <1>1, <1>2, <1>3, <2>2
  <2> HIDE DEF base, fields
  <2> QED BY <2>1, <2>3, <2>4 DEF Fine
<1> QED BY <1>4, <1>5, <1>6, <1>7, <1>8, <1>9, <1>10, <1>11, <1>12

\* The steps of an op, each known to Read.
FieldSteps ==
  {"index", "bit_offset", "bit_size", "byte_size", "byte_offset", "shift", "rank",
   "count", "count_or_1", "count_required", "list_return", "map_return", "map_key",
   "val_end", "index_bits", "index_bits_or_none", "minhash_bits_or_none", "signed",
   "overflow", "resize_flags", "scan"}
KnownSteps == ValSteps \cup PolicySteps \cup FieldSteps
Listing(s) == s \in Seq(KnownSteps)
Known(table) == \A op \in DOMAIN table : Listing(table[op])

\* The tables of Operations name only these.
LEMMA StepsKnown == Known(Steps)
<1>a. {"val_or_nil", "increment", "val_or_empty", "index", "count_or_1", "val",
       "list_return", "count", "rank", "vals", "val_end", "list_policy",
       "vals_or_nil", "count_required", "list_increment", "sort_flags",
       "list_order", "map_key", "map_return", "map_order", "map_policy",
       "map_items", "val_or_1", "hll_policy", "index_bits",
       "minhash_bits_or_none", "index_bits_or_none"} \subseteq KnownSteps
  BY DEF KnownSteps, ValSteps, PolicySteps, FieldSteps
<1>b. /\ Listing(<<>>)
      /\ \A a \in KnownSteps : Listing(<<a>>)
      /\ \A a, b \in KnownSteps : Listing(<<a, b>>)
      /\ \A a, b, c \in KnownSteps : Listing(<<a, b, c>>)
      /\ \A a, b, c, d \in KnownSteps : Listing(<<a, b, c, d>>)
  BY DEF Listing
<1>1. Known(BasicOps)
  BY <1>a, <1>b DEF Known, BasicOps
<1>2. Known(ListReads)
  BY <1>a, <1>b DEF Known, ListReads
<1>3. Known(ListWrites)
  BY <1>a, <1>b DEF Known, ListWrites
<1>4. Known(ListRemovals)
  BY <1>a, <1>b DEF Known, ListRemovals
<1>5. Known(MapReads)
  BY <1>a, <1>b DEF Known, MapReads
<1>6. Known(MapRemovals)
  BY <1>a, <1>b DEF Known, MapRemovals
<1>7. Known(MapWrites)
  BY <1>a, <1>b DEF Known, MapWrites
<1>8. Known(HllOps)
  BY <1>a, <1>b DEF Known, HllOps
<1>9. Known(BitOps)
  <2> DEFINE span == <<"bit_offset", "bit_size">>
             set == span \o <<"val", "bit_policy">>
             shift == span \o <<"shift", "bit_policy">>
             sum == span \o <<"int", "signed", "overflow", "bit_policy">>
             not == span \o <<"bit_policy">>
             set_int == span \o <<"int", "bit_policy">>
             scan == span \o <<"scan">>
             get_int == span \o <<"signed">>
  <2>1. {"bit_offset", "bit_size", "bit_policy", "shift", "int", "signed",
         "overflow", "scan", "byte_size", "resize_flags", "byte_offset"}
          \subseteq KnownSteps
    BY DEF KnownSteps, ValSteps, PolicySteps, FieldSteps
  <2>2. /\ Listing(span) /\ Listing(<<"val", "bit_policy">>)
        /\ Listing(<<"shift", "bit_policy">>)
        /\ Listing(<<"int", "signed", "overflow", "bit_policy">>)
        /\ Listing(<<"bit_policy">>) /\ Listing(<<"int", "bit_policy">>)
        /\ Listing(<<"scan">>) /\ Listing(<<"signed">>)
        /\ Listing(<<"byte_size", "resize_flags", "bit_policy">>)
        /\ Listing(<<"byte_offset", "val", "bit_policy">>)
        /\ Listing(<<"byte_offset", "byte_size", "bit_policy">>)
    BY <1>a, <1>b, <2>1
  <2>3. \A s, t : Listing(s) /\ Listing(t) => Listing(s \o t)
    BY ConcatProperties DEF Listing
  <2> HIDE DEF span
  <2>4. /\ Listing(set) /\ Listing(shift) /\ Listing(sum) /\ Listing(not)
        /\ Listing(set_int) /\ Listing(scan) /\ Listing(get_int)
    BY <2>2, <2>3
  <2>5. BitOps =
     [bit_resize |-> <<"byte_size", "resize_flags", "bit_policy">>,
      bit_insert |-> <<"byte_offset", "val", "bit_policy">>,
      bit_remove |-> <<"byte_offset", "byte_size", "bit_policy">>,
      bit_set |-> set, bit_or |-> set, bit_xor |-> set, bit_and |-> set,
      bit_not |-> not,
      bit_lshift |-> shift, bit_rshift |-> shift,
      bit_add |-> sum, bit_subtract |-> sum,
      bit_set_int |-> set_int,
      bit_get |-> span, bit_count |-> span,
      bit_lscan |-> scan, bit_rscan |-> scan,
      bit_get_int |-> get_int]
    BY DEF BitOps, span
  <2> HIDE DEF set, shift, sum, not, set_int, scan, get_int
  <2> QED BY <2>2, <2>4, <2>5 DEF Known
<1>10. \A f, g : Known(f) /\ Known(g) => Known(Join(f, g))
  BY DEF Known, Join
<1> QED
  BY ONLY <1>1, <1>2, <1>3, <1>4, <1>5, <1>6, <1>7, <1>8, <1>9, <1>10 DEF Steps

\* Each of them reads an argument, or raises.
LEMMA StepsClean ==
  ASSUME NEW d, \A field \in DOMAIN d : d[field] \in Objects,
         NEW val, NEW step \in KnownSteps
  PROVE  Clean(Read(step, d, val))
<1>1. Clean(I32Flag(val)) /\ Clean(ValNeeded(val)) /\ \A v : Clean(ValOr(val, v))
  BY CleanEnds DEF I32Flag, ValNeeded, ValOr
<1>2. \A codes, n : Clean(OneOf(codes, n))
  BY CleanEnds DEF OneOf
<1>3. \A codes : Clean(ReturnType(d, codes))
  BY <1>2, NumbersClean, CleanEnds DEF ReturnType, Needed, Then
<1>4. CASE step \in ValSteps
  <2>1. Clean(ReadVal(step, val))
    BY <1>1, <1>2, <1>4, CleanEnds DEF ReadVal, ValSteps, Then
  <2>2. step \notin PolicySteps
    BY <1>4 DEF ValSteps, PolicySteps
  <2> QED BY <1>4, <2>1, <2>2 DEF Read
<1>5. CASE step \in PolicySteps /\ step \notin ValSteps
  <2>1. \A p : Clean(ListPolicy(p)) /\ Clean(MapPolicy(p)) /\ Clean(HllPolicy(p))
    BY NumbersClean, CleanEnds DEF ListPolicy, MapPolicy, HllPolicy, OrElse, Then
  <2>2. Clean(ReadPolicyStep(step, d))
    BY <1>5, <2>1, NumbersClean, CleanEnds DEF ReadPolicyStep, PolicySteps, SubPolicy
  <2> QED BY <1>5, <2>2 DEF Read
<1>6. CASE step \in FieldSteps /\ step \notin ValSteps /\ step \notin PolicySteps
  <2>1. \A r : Clean(r) => Clean(Count(d, r))
    BY NumbersClean DEF Count
  <2>2. \A field : field \in DOMAIN d => Clean(ToValue(d[field]))
    BY ObjectsClean
  <2>3. Clean(ReadField(step, d))
    BY <1>2, <1>3, <1>6, <2>1, <2>2, NumbersClean, CleanEnds
       DEF ReadField, FieldSteps, Needed, OrElse, NotNone, Has, Then
  <2> QED BY <1>6, <2>3 DEF Read
<1> QED BY <1>4, <1>5, <1>6 DEF KnownSteps

\* py_ops_to_rust raises what an argument's reader raises.
LEMMA OperationsClean ==
  ASSUME NEW dicts, DOMAIN dicts \subseteq Nat,
         \A i \in DOMAIN dicts : \A field \in DOMAIN dicts[i] : dicts[i][field] \in Objects
  PROVE  Clean(ToOperations(dicts))
<1>1. ASSUME NEW d, \A field \in DOMAIN d : d[field] \in Objects
      PROVE  Clean(ToOperation(d))
  <2> DEFINE ReadAll(op, val) == [i \in DOMAIN Steps[op] |-> Read(Steps[op][i], d, val)]
             val == IF NotNone(d, "val") THEN ToValue(d["val"]) ELSE Done(<<"absent">>)
             bin == IF NotNone(d, "bin") THEN Name(d["bin"]) ELSE Done(<<"absent">>)
             code == Needed(d, "op", Code)
  <2>1. Clean(val)
    BY <1>1, ObjectsClean, CleanEnds DEF NotNone, Has
  <2>2. Clean(bin) /\ Clean(code)
    BY NumbersClean, CleanEnds DEF Needed
  <2>3. ASSUME NEW op \in DOMAIN Steps, NEW v PROVE Clean(Collected(ReadAll(op, v)))
    <3>1. Steps[op] \in Seq(KnownSteps)
      BY StepsKnown DEF Known, Listing
    <3>2. /\ DOMAIN ReadAll(op, v) \subseteq Nat
          /\ \A i \in DOMAIN ReadAll(op, v) : Clean(ReadAll(op, v)[i])
      BY <1>1, <3>1, StepsClean
    <3> HIDE DEF ReadAll
    <3> QED BY <3>2, CollectedClean
  <2>4. ToOperation(d) =
          Then(code, LAMBDA op :
          Then(bin, LAMBDA b :
          Then(val, LAMBDA v :
            IF op \notin DOMAIN Steps \/ (b[1] = "absent" /\ op \notin Binless)
            THEN Failed("ValueError")
            ELSE Then(Collected(ReadAll(op, v)), LAMBDA args :
                   Done(<<op, IF op \in {"touch", "delete"} THEN <<"absent">>
                              ELSE b, args>>)))))
    BY DEF ToOperation
  <2> HIDE DEF val, bin, code, ReadAll
  <2> QED BY <2>1, <2>2, <2>3, <2>4, CleanEnds DEF Then
<1> DEFINE results == [i \in DOMAIN dicts |-> ToOperation(dicts[i])]
<1>2. DOMAIN results \subseteq Nat /\ \A i \in DOMAIN results : Clean(results[i])
  BY <1>1
<1>3. ToOperations(dicts).ok \/ ToOperations(dicts) = Collected(results)
  BY DEF ToOperations, Then, Done
<1> HIDE DEF results
<1>4. Clean(Collected(results))
  BY <1>2, CollectedClean
<1> QED BY <1>3, <1>4 DEF Clean

\* Its policy and, where it has them, its key and meta, parse or raise.
LEMMA PartsClean ==
  ASSUME NEW args \in Calls
  PROVE  /\ \A field \in DOMAIN args.policy : args.policy[field] \in Objects
         /\ "key" \in DOMAIN args => Clean(ToKey(args.key))
         /\ "val" \in DOMAIN args => Clean(ToValue(args.val))
         /\ "meta" \in DOMAIN args => \A field \in DOMAIN args.meta : args.meta[field] \in Objects
         /\ "args" \in DOMAIN args => Clean(Args(args.args))
         /\ "names" \in DOMAIN args => Clean(Names(args.names))
         /\ "keys" \in DOMAIN args => Clean(ToKeys(args.keys))
         /\ "ops" \in DOMAIN args => Clean(ToOperations(args.ops))
<1>1. /\ \A field \in DOMAIN args.policy : args.policy[field] \in Objects
      /\ "meta" \in DOMAIN args => \A field \in DOMAIN args.meta : args.meta[field] \in Objects
  BY ArgumentsAreObjects, ArgumentsTaken
<1>2. /\ "key" \in DOMAIN args => Clean(ToKey(args.key))
      /\ "val" \in DOMAIN args => Clean(ToValue(args.val))
  BY ArgumentsAreObjects, KeysClean, ObjectsClean
<1>3. ASSUME "args" \in DOMAIN args PROVE Clean(Args(args.args))
  <2>1. args.args \in Objects /\ args.args[1] \in {"none", "list"}
    BY <1>3, ArgumentsAreObjects, CallsAssumption
  <2>2. args.args[1] = "list" => args.args[2] \in Seq(Objects)
    BY <2>1, UniverseAssumption
  <2>3. args.args[1] = "list" => Clean(ToValues(args.args[2]))
    BY <2>2, ObjectsClean
  <2> QED BY <2>1, <2>3, CleanEnds DEF Args, Then
<1>4. ASSUME "names" \in DOMAIN args PROVE Clean(Names(args.names))
  <2> DEFINE results == [i \in DOMAIN args.names |-> Name(args.names[i])]
  <2>1. DOMAIN results \subseteq Nat /\ \A i \in DOMAIN results : Clean(results[i])
    BY <1>4, ArgumentsTaken, NumbersClean DEF Lists
  <2> HIDE DEF results
  <2>2. Clean(Collected(results))
    BY <2>1, CollectedClean
  <2> QED BY <2>2 DEF Names, results
<1>5. ASSUME "keys" \in DOMAIN args PROVE Clean(ToKeys(args.keys))
  <2>1. DOMAIN args.keys \subseteq Nat
    BY <1>5, ArgumentsTaken DEF Lists
  <2>2. \A i \in DOMAIN args.keys : args.keys[i] \in Objects
    BY <1>5, ArgumentsAreObjects
  <2> QED BY <2>1, <2>2, KeyListsClean
<1>6. ASSUME "ops" \in DOMAIN args PROVE Clean(ToOperations(args.ops))
  <2>1. DOMAIN args.ops \subseteq Nat
    BY <1>6, ArgumentsTaken DEF Lists
  <2>2. \A i \in DOMAIN args.ops : \A j \in DOMAIN args.ops[i] : args.ops[i][j] \in Objects
    BY <1>6, ArgumentsAreObjects
  <2> QED BY <2>1, <2>2, OperationsClean
<1> QED BY <1>1, <1>2, <1>3, <1>4, <1>5, <1>6

\* What the methods of one record are made into.
LEMMA SinglesClean ==
  ASSUME NEW args \in Calls
  PROVE  /\ args.method = "put" => Clean(PreparePut(args))
         /\ args.method = "get" => Clean(PrepareGet(args))
         /\ args.method = "select" => Clean(PrepareSelect(args))
         /\ args.method = "exists" => Clean(PrepareExists(args))
         /\ args.method = "remove" => Clean(PrepareRemove(args))
         /\ args.method = "touch" => Clean(PrepareTouch(args))
         /\ args.method \in {"append", "prepend"} => Clean(PrepareSingleBinWrite(args))
         /\ args.method = "increment" => Clean(PrepareIncrement(args))
         /\ args.method = "remove_bin" => Clean(PrepareRemoveBin(args))
         /\ args.method \in {"operate", "operate_ordered"} => Clean(PrepareOperate(args))
         /\ args.method = "apply" => Clean(PrepareApply(args))
<1> DEFINE f == DOMAIN args
<1>1. \A verb, key, policy, body : Clean(Single(verb, key, policy, body))
  BY CleanEnds DEF Single, Request
<1>2. /\ Clean(ParseReadPolicy(args.policy))
      /\ Clean(ParseWritePolicy(args.policy, <<>>))
      /\ "meta" \in f => Clean(ParseWritePolicy(args.policy, args.meta))
  <2>1. \A field \in DOMAIN <<>> : <<>>[field] \in Objects
    OBVIOUS
  <2> QED BY <2>1, PartsClean, PoliciesClean
<1>3. /\ args.method \in KeyedWrites => {"key", "meta"} \subseteq f
      /\ args.method \in {"get", "select", "exists", "apply"} => "key" \in f
      /\ args.method = "put" => "bins" \in f
      /\ args.method \in {"append", "prepend", "increment"} => "val" \in f
      /\ args.method = "apply" => "args" \in f
      /\ args.method \in {"select", "remove_bin"} => "names" \in f
      /\ args.method \in {"operate", "operate_ordered"} => "ops" \in f
  BY ArgumentsTaken DEF Takes
<1>4. "bins" \in f /\ args.bins[1] = "dict" => Clean(ToBins(args.bins[2]))
  BY ArgumentsAreObjects, BinsClean, UniverseAssumption
<1>5. /\ "key" \in f => Clean(ToKey(args.key))
      /\ "val" \in f => Clean(ToValue(args.val))
      /\ "args" \in f => Clean(Args(args.args))
      /\ "names" \in f => Clean(Names(args.names))
      /\ "ops" \in f => Clean(ToOperations(args.ops))
  BY PartsClean
<1> HIDE DEF f
<1>6. args.method = "put" => Clean(PreparePut(args))
  BY <1>1, <1>2, <1>3, <1>4, <1>5, CleanEnds DEF PreparePut, Then, KeyedWrites
<1>7. /\ args.method = "get" => Clean(PrepareGet(args))
      /\ args.method = "exists" => Clean(PrepareExists(args))
  BY <1>1, <1>2, <1>3, <1>5, CleanEnds DEF PrepareGet, PrepareExists, Then
<1>8. args.method = "select" => Clean(PrepareSelect(args))
  BY <1>1, <1>2, <1>3, <1>5, CleanEnds DEF PrepareSelect, Then
<1>9. /\ args.method = "remove" => Clean(PrepareRemove(args))
      /\ args.method = "touch" => Clean(PrepareTouch(args))
  BY <1>1, <1>2, <1>3, <1>5, CleanEnds
     DEF PrepareRemove, PrepareTouch, KeyAndPolicy, Then, KeyedWrites
<1>10. /\ args.method \in {"append", "prepend"} => Clean(PrepareSingleBinWrite(args))
       /\ args.method = "increment" => Clean(PrepareIncrement(args))
  BY <1>1, <1>2, <1>3, <1>5, CleanEnds
     DEF PrepareSingleBinWrite, PrepareIncrement, KeyAndPolicy, Then, KeyedWrites
<1>11. args.method = "remove_bin" => Clean(PrepareRemoveBin(args))
  BY <1>1, <1>2, <1>3, <1>5, CleanEnds
     DEF PrepareRemoveBin, KeyAndPolicy, Then, KeyedWrites
<1>12. args.method \in {"operate", "operate_ordered"} => Clean(PrepareOperate(args))
  <2>1. ToOperations(args.ops).ok \/ ~ToOperations(args.ops).ok
    OBVIOUS
  <2> QED BY <1>1, <1>2, <1>3, <1>5, CleanEnds
     DEF PrepareOperate, KeyAndPolicy, Then, KeyedWrites
<1>13. args.method = "apply" => Clean(PrepareApply(args))
  BY <1>1, <1>2, <1>3, <1>5, CleanEnds DEF PrepareApply, Then
<1> QED BY <1>6, <1>7, <1>8, <1>9, <1>10, <1>11, <1>12, <1>13

\* The key and the meta of a (Key, meta) pair are objects.
LEMMA PairsHold ==
  ASSUME NEW elem \in Objects, IsKeyMeta(elem)
  PROVE  /\ elem[2][1] \in Objects
         /\ \A field \in DOMAIN elem[2][2][2] : elem[2][2][2][field] \in Objects
<1>1. elem[1] = "tuple" /\ Len(elem[2]) = 2 /\ elem[2][2][1] = "meta"
  BY DEF IsKeyMeta
<1>2. elem[2] \in Seq(Objects)
  BY <1>1, UniverseAssumption
<1>3. elem[2][1] \in Objects /\ elem[2][2] \in Objects
  BY <1>1, <1>2
<1>4. Range(elem[2][2][2]) \subseteq Objects
  BY <1>1, <1>3, UniverseAssumption
<1> QED BY <1>3, <1>4 DEF Range

\* What the batches are made into.
LEMMA KeyedBatchesClean ==
  ASSUME NEW args \in Calls
  PROVE  /\ args.method = "batch_read" => Clean(PrepareBatchRead(args))
         /\ args.method = "batch_operate" => Clean(PrepareBatchOperate(args))
<1>1. \A verb, batch, items : Clean(Request(verb, batch, items))
  BY CleanEnds DEF Request
<1>2. Clean(ParseBatchPolicy(args.policy)) /\ Clean(ParseBatchReadPolicy(args.policy))
  BY PartsClean, PoliciesClean
<1>3. args.method \in {"batch_read", "batch_operate"} => Clean(ToKeys(args.keys))
  BY ArgumentsTaken, PartsClean DEF Takes
<1>4. args.method = "batch_operate" => Clean(ToOperations(args.ops))
  BY ArgumentsTaken, PartsClean DEF Takes
<1>5. args.method = "batch_read" => Clean(PrepareBatchRead(args))
  BY <1>1, <1>2, <1>3 DEF PrepareBatchRead, Then
<1>6. args.method = "batch_operate" => Clean(PrepareBatchOperate(args))
  BY <1>1, <1>2, <1>3, <1>4 DEF PrepareBatchOperate, Then
<1> QED BY <1>5, <1>6

\* A batch_remove, whose elements may carry a meta of their own.
LEMMA RemovalsClean ==
  ASSUME NEW args \in Calls, args.method = "batch_remove"
  PROVE  Clean(PrepareBatchRemove(args))
<1> DEFINE Of(elem, base) ==
             IF IsKeyMeta(elem)
             THEN Then(ToKey(elem[2][1]), LAMBDA key :
                  Then(ApplyRecordMetaForDelete(base, elem[2][2][2]),
                       LAMBDA policy : Done(Item(key, policy, <<>>))))
             ELSE Then(ToKey(elem), LAMBDA key : Done(Item(key, base, <<>>)))
           results(base) == [i \in DOMAIN args.keys |-> Of(args.keys[i], base)]
           batch == ParseBatchPolicy(args.policy)
           policy == ParseBatchDeletePolicy(args.policy)
<1>1. ASSUME NEW elem \in Objects, NEW base PROVE Clean(Of(elem, base))
  <2>1. Clean(ToKey(elem))
    BY KeysClean
  <2>2. ASSUME IsKeyMeta(elem)
        PROVE  /\ Clean(ToKey(elem[2][1]))
               /\ Clean(ApplyRecordMetaForDelete(base, elem[2][2][2]))
    BY <2>2, PairsHold, KeysClean, MetaClean
  <2> QED BY <2>1, <2>2, CleanEnds DEF Then
<1>2. DOMAIN args.keys \subseteq Nat /\ \A i \in DOMAIN args.keys : args.keys[i] \in Objects
  BY ArgumentsTaken, ArgumentsAreObjects DEF Takes, Lists
<1>3. PrepareBatchRemove(args) =
        IF ~batch.ok THEN batch
        ELSE IF ~policy.ok THEN policy
        ELSE IF ~Collected(results(policy.val)).ok THEN Collected(results(policy.val))
        ELSE Request("delete", batch.val, Collected(results(policy.val)).val)
  BY DEF PrepareBatchRemove, Then
<1> HIDE DEF Of
<1>4. ASSUME NEW base PROVE Clean(Collected(results(base)))
  <2>1. /\ DOMAIN results(base) \subseteq Nat
        /\ \A i \in DOMAIN results(base) : Clean(results(base)[i])
    BY <1>1, <1>2
  <2> HIDE DEF results
  <2> QED BY <2>1, CollectedClean
<1>5. Clean(batch) /\ Clean(policy)
  BY PartsClean, PoliciesClean
<1>6. \A b, items : Clean(Request("delete", b, items))
  BY CleanEnds DEF Request
<1> HIDE DEF results, batch, policy
<1> QED BY <1>3, <1>4, <1>5, <1>6

\* A batch_apply, whose elements may name their own UDF.
LEMMA AppliesClean ==
  ASSUME NEW args \in Calls, args.method = "batch_apply"
  PROVE  Clean(PrepareBatchApply(args))
<1> DEFINE Own(meta, field) ==
             IF field \in DOMAIN meta
             THEN Then(Name(meta[field]), LAMBDA name : Done(name[2]))
             ELSE Done(args[field])
           OwnArgs(meta, given) ==
             IF "args" \notin DOMAIN meta THEN Done(given)
             ELSE IF meta["args"][1] \in {"none", "list"} THEN Args(meta["args"])
             ELSE Failed("TypeError")
           Of(elem, base, given) ==
             IF ~IsKeyMeta(elem)
             THEN Then(ToKey(elem), LAMBDA key :
                    Done(Item(key, base, <<args.module, args.function, given>>)))
             ELSE LET meta == elem[2][2][2]
                  IN Then(ToKey(elem[2][1]), LAMBDA key :
                     Then(ApplyRecordMetaForApply(base, meta), LAMBDA policy :
                     Then(Own(meta, "module"), LAMBDA module :
                     Then(Own(meta, "function"), LAMBDA function :
                     Then(OwnArgs(meta, given), LAMBDA own :
                       Done(Item(key, policy, <<module, function, own>>)))))))
           results(base, given) ==
             [i \in DOMAIN args.keys |-> Of(args.keys[i], base, given)]
           batch == ParseBatchPolicy(args.policy)
           policy == ParseBatchUDFPolicy(args.policy)
           shared == Args(args.args)
<1>1. ASSUME NEW elem \in Objects, NEW base, NEW given PROVE Clean(Of(elem, base, given))
  <2> DEFINE meta == elem[2][2][2]
  <2>1. Clean(ToKey(elem))
    BY KeysClean
  <2>2. ASSUME IsKeyMeta(elem)
        PROVE  /\ Clean(ToKey(elem[2][1]))
               /\ Clean(ApplyRecordMetaForApply(base, meta))
               /\ Clean(OwnArgs(meta, given))
    <3>1. elem[2][1] \in Objects /\ \A field \in DOMAIN meta : meta[field] \in Objects
      BY <2>2, PairsHold
    <3> HIDE DEF meta
    <3>2. "args" \in DOMAIN meta /\ meta["args"][1] = "list"
            => Clean(ToValues(meta["args"][2]))
      BY <3>1, ObjectsClean, UniverseAssumption
    <3>3. Clean(OwnArgs(meta, given))
      BY <3>2, CleanEnds DEF Args, Then
    <3> HIDE DEF OwnArgs
    <3> QED BY <3>1, <3>3, KeysClean, MetaClean
  <2>3. \A field : Clean(Own(meta, field))
    BY NumbersClean, CleanEnds DEF Then
  <2> HIDE DEF Own, OwnArgs
  <2> QED BY <2>1, <2>2, <2>3, CleanEnds DEF Then
<1>2. DOMAIN args.keys \subseteq Nat /\ \A i \in DOMAIN args.keys : args.keys[i] \in Objects
  BY ArgumentsTaken, ArgumentsAreObjects DEF Takes, Lists
<1>3. PrepareBatchApply(args) =
        IF ~batch.ok THEN batch
        ELSE IF ~policy.ok THEN policy
        ELSE IF ~shared.ok THEN shared
        ELSE IF ~Collected(results(policy.val, shared.val)).ok
        THEN Collected(results(policy.val, shared.val))
        ELSE Request("udf", batch.val, Collected(results(policy.val, shared.val)).val)
  BY DEF PrepareBatchApply, Then
<1> HIDE DEF Of
<1>4. ASSUME NEW base, NEW given PROVE Clean(Collected(results(base, given)))
  <2>1. /\ DOMAIN results(base, given) \subseteq Nat
        /\ \A i \in DOMAIN results(base, given) : Clean(results(base, given)[i])
    BY <1>1, <1>2
  <2> HIDE DEF results
  <2> QED BY <2>1, CollectedClean
<1>5. Clean(batch) /\ Clean(policy) /\ Clean(shared)
  BY ArgumentsTaken, PartsClean, PoliciesClean DEF Takes
<1>6. \A b, items : Clean(Request("udf", b, items))
  BY CleanEnds DEF Request
<1> HIDE DEF results, batch, policy, shared
<1> QED BY <1>3, <1>4, <1>5, <1>6

\* A batch_write, of keys, bins and metas.
LEMMA BatchWritesClean ==
  ASSUME NEW args \in Calls, args.method = "batch_write"
  PROVE  Clean(PrepareBatchWrite(args))
<1> DEFINE Policy(elem, base) ==
             IF Len(elem[2]) < 3 THEN Done(base)
             ELSE IF elem[2][3][1] # "meta" THEN Failed("TypeError")
             ELSE ApplyRecordMeta(base, elem[2][3][2])
           Of(elem, base) ==
             IF elem[1] # "tuple" THEN Failed("TypeError")
             ELSE IF Len(elem[2]) < 2 THEN Failed("ValueError")
             ELSE Then(ToKey(elem[2][1]), LAMBDA key :
                  IF elem[2][2][1] # "dict" THEN Failed("TypeError")
                  ELSE Then(ToBins(elem[2][2][2]), LAMBDA bins :
                       Then(Policy(elem, base), LAMBDA policy :
                         Done(Item(key, policy, bins)))))
           results(base) == [i \in DOMAIN args.records |-> Of(args.records[i], base)]
           batch == ParseBatchPolicy(args.policy)
           policy == ParseBatchWritePolicy(args.policy)
<1>1. ASSUME NEW elem \in Objects, NEW base PROVE Clean(Of(elem, base))
  <2>1. CASE elem[1] # "tuple" \/ Len(elem[2]) < 2
    <3> HIDE DEF Policy
    <3> QED BY <2>1, CleanEnds
  <2>2. CASE elem[1] = "tuple" /\ ~(Len(elem[2]) < 2)
    <3>1. elem[2] \in Seq(Objects)
      BY <2>2, UniverseAssumption
    <3>2. elem[2][1] \in Objects /\ elem[2][2] \in Objects
      BY <2>2, <3>1
    <3>3. elem[2][2][1] = "dict" => Clean(ToBins(elem[2][2][2]))
      BY <3>2, BinsClean, UniverseAssumption
    <3>4. Clean(Policy(elem, base))
      <4> SUFFICES ASSUME ~(Len(elem[2]) < 3), elem[2][3][1] = "meta"
                   PROVE  Clean(ApplyRecordMeta(base, elem[2][3][2]))
        BY CleanEnds
      <4>1. elem[2][3] \in Objects
        BY <3>1
      <4>2. Range(elem[2][3][2]) \subseteq Objects
        BY <4>1, UniverseAssumption
      <4> QED BY <4>2, MetaClean DEF Range
    <3>5. Clean(ToKey(elem[2][1]))
      BY <3>2, KeysClean
    <3> HIDE DEF Policy
    <3> QED BY <3>3, <3>4, <3>5, CleanEnds DEF Then
  <2> QED BY <2>1, <2>2
<1>2. /\ DOMAIN args.records \subseteq Nat
      /\ \A i \in DOMAIN args.records : args.records[i] \in Objects
  BY ArgumentsTaken, ArgumentsAreObjects DEF Takes, Lists
<1>3. PrepareBatchWrite(args) =
        IF ~batch.ok THEN batch
        ELSE IF ~policy.ok THEN policy
        ELSE IF ~Collected(results(policy.val)).ok THEN Collected(results(policy.val))
        ELSE Request("write", batch.val, Collected(results(policy.val)).val)
  BY DEF PrepareBatchWrite, Then
<1> HIDE DEF Of
<1>4. ASSUME NEW base PROVE Clean(Collected(results(base)))
  <2>1. /\ DOMAIN results(base) \subseteq Nat
        /\ \A i \in DOMAIN results(base) : Clean(results(base)[i])
    BY <1>1, <1>2
  <2> HIDE DEF results
  <2> QED BY <2>1, CollectedClean
<1>5. Clean(batch) /\ Clean(policy)
  BY PartsClean, PoliciesClean
<1>6. \A b, items : Clean(Request("write", b, items))
  BY CleanEnds DEF Request
<1> HIDE DEF results, batch, policy
<1> QED BY <1>3, <1>4, <1>5, <1>6

\* parse_predicate raises, or makes of an "equals" what Filter::equal accepts.
LEMMA PredicatesClean ==
  ASSUME NEW pred \in Seq(Objects)
  PROVE  LET p == ParsePredicate(pred)
         IN /\ Clean(p)
            /\ p.ok /\ p.val[1] = "equals" => p.val[3][1] \in Indexable
<1> DEFINE p == ParsePredicate(pred)
<1>1. CASE Len(pred) < 3
  BY <1>1, CleanEnds DEF ParsePredicate, Failed
<1>2. CASE ~(Len(pred) < 3)
  <2>1. pred[3] \in Objects
    BY <1>2
  <2>2. ASSUME NEW kind
        PROVE  /\ Clean(PredicateBody(kind, pred))
               /\ kind = "equals" /\ PredicateBody(kind, pred).ok
                    => PredicateBody(kind, pred).val[1] \in Indexable
    <3> DEFINE Bound(obj) == IF I64(obj).ok THEN I64(obj) ELSE Failed("InvalidArgError")
               Value == IF I64(pred[4]).ok THEN Done(<<"int", I64(pred[4]).val>>)
                        ELSE Name(pred[4])
    <3>1. (\A obj : Clean(Bound(obj))) /\ Clean(Value) /\ Clean(ToValue(pred[3]))
      BY <2>1, NumbersClean, ObjectsClean, CleanEnds
    <3> HIDE DEF Bound, Value
    <3>2. CASE kind = "equals"
      <4>1. PredicateBody(kind, pred) =
              IF ~ToValue(pred[3]).ok THEN ToValue(pred[3])
              ELSE IF ToValue(pred[3]).val[1] \in Indexable THEN Done(ToValue(pred[3]).val)
              ELSE Failed("InvalidArgError")
        BY <3>2 DEF PredicateBody, Then, GeoPredicates
      <4> QED BY <3>1, <4>1, CleanEnds DEF Done, Failed
    <3>3. CASE kind = "between"
      <4>1. PredicateBody(kind, pred) =
              IF ~Bound(pred[3]).ok THEN Bound(pred[3])
              ELSE IF ~Bound(pred[4]).ok THEN Bound(pred[4])
              ELSE Done(<<Bound(pred[3]).val, Bound(pred[4]).val>>)
        BY <3>3 DEF PredicateBody, Then, GeoPredicates, Bound
      <4> QED BY <3>1, <3>3, <4>1, CleanEnds
    <3>4. CASE kind = "contains"
      <4>1. PredicateBody(kind, pred) =
              IF ~I32(pred[3]).ok THEN I32(pred[3])
              ELSE IF I32(pred[3]).val \notin 0 .. 3 THEN Failed("InvalidArgError")
              ELSE IF ~Value.ok THEN Value
              ELSE Done(<<I32(pred[3]).val, Value.val>>)
        BY <3>4 DEF PredicateBody, Then, GeoPredicates, Value
      <4> QED BY <3>1, <3>4, <4>1, NumbersClean, CleanEnds
    <3>5. CASE kind \notin {"equals", "between", "contains"}
      <4>1. \/ PredicateBody(kind, pred) \in {Done(<<>>), Failed("TypeError")}
            \/ PredicateBody(kind, pred) = Name(pred[3])
            \/ PredicateBody(kind, pred) = Failed("InvalidArgError")
        BY <3>5 DEF PredicateBody, GeoPredicates
      <4> QED BY <3>5, <4>1, NumbersClean, CleanEnds
    <3> QED BY <3>2, <3>3, <3>4, <3>5
  <2>3. p = LET kind == Name(pred[1])
                bin == Name(pred[2])
                body == PredicateBody(kind.val[2], pred)
            IN IF ~kind.ok THEN kind
               ELSE IF ~bin.ok THEN bin
               ELSE IF Len(bin.val[2]) = 0 \/ Len(pred) < PredicateLen(kind.val[2])
               THEN Failed("InvalidArgError")
               ELSE IF ~body.ok THEN body
               ELSE Done(<<kind.val[2], bin.val[2], body.val>>)
    BY <1>2 DEF ParsePredicate, Then
  <2> HIDE DEF p
  <2>4. Clean(p)
    BY <2>2, <2>3, NumbersClean, CleanEnds
  <2>5. ASSUME p.ok, p.val[1] = "equals" PROVE p.val[3][1] \in Indexable
    <3> DEFINE kind == Name(pred[1])
               bin == Name(pred[2])
               body == PredicateBody(kind.val[2], pred)
    <3>1. body.ok /\ p.val = <<kind.val[2], bin.val[2], body.val>>
      BY <2>3, <2>5 DEF Done, Failed
    <3> HIDE DEF body, kind, bin
    <3>2. p.val[1] = kind.val[2] /\ p.val[3] = body.val
      BY <3>1
    <3> QED BY <2>2, <2>5, <3>1, <3>2 DEF body
  <2> QED BY <2>4, <2>5 DEF p
<1> QED BY <1>1, <1>2

\* A query fails with its own exceptions: no predicate it was given trips the
\* assertion of Filter::equal.
LEMMA QueriesClean ==
  ASSUME NEW args \in Calls, args.method = "query"
  PROVE  Clean(PrepareQuery(args))
<1> DEFINE Selected(obj) ==
             Then(Name(obj), LAMBDA name :
               IF Len(name[2]) = 0 THEN Failed("InvalidArgError") ELSE Done(name))
           named == [i \in DOMAIN args.names |-> Selected(args.names[i])]
           parsed == [i \in DOMAIN args.predicates |-> ParsePredicate(args.predicates[i])]
           statement == BuildStatement(Collected(named).val, Collected(parsed).val)
           policy == ParseQueryPolicy(args.policy)
<1>1. PrepareQuery(args) =
        IF ~Collected(named).ok THEN Collected(named)
        ELSE IF ~Collected(parsed).ok THEN Collected(parsed)
        ELSE IF ~statement.ok THEN statement
        ELSE IF ~policy.ok THEN policy
        ELSE Single("query", <<>>, policy.val, statement.val)
  BY DEF PrepareQuery, Then
<1>2. Clean(Collected(named))
  <2>1. \A obj : Clean(Selected(obj))
    BY NumbersClean, CleanEnds DEF Then
  <2>2. DOMAIN args.names \subseteq Nat
    BY ArgumentsTaken DEF Takes, Lists
  <2> HIDE DEF Selected
  <2>3. DOMAIN named \subseteq Nat /\ \A i \in DOMAIN named : Clean(named[i])
    BY <2>1, <2>2
  <2> HIDE DEF named
  <2> QED BY <2>3, CollectedClean
<1>3. /\ DOMAIN parsed \subseteq Nat
      /\ \A i \in DOMAIN parsed :
           /\ Clean(parsed[i])
           /\ parsed[i].ok /\ parsed[i].val[1] = "equals"
                => parsed[i].val[3][1] \in Indexable
  <2>1. args.predicates \in Seq(Seq(Objects))
    BY ArgumentsTaken, CallsAssumption DEF Takes
  <2>2. ASSUME NEW i \in DOMAIN args.predicates PROVE args.predicates[i] \in Seq(Objects)
    BY <2>1
  <2>3. DOMAIN args.predicates \subseteq Nat
    BY <2>1
  <2> QED BY <2>2, <2>3, PredicatesClean
<1> HIDE DEF parsed, named
<1>4. Clean(Collected(parsed))
  BY <1>3, CollectedClean
<1>5. Collected(parsed).ok => Clean(statement)
  <2> SUFFICES ASSUME Collected(parsed).ok PROVE Clean(statement)
    OBVIOUS
  <2> DEFINE ps == Collected(parsed).val
  <2>1. ps = [i \in DOMAIN parsed |-> parsed[i].val] /\ \A i \in DOMAIN parsed : parsed[i].ok
    BY <1>3, CollectedAll
  <2>2. \A i \in DOMAIN ps : ps[i][1] = "equals" => ps[i][3][1] \in Indexable
    BY <1>3, <2>1
  <2> HIDE DEF ps
  <2>3. statement # Failed("PanicException")
    BY <2>2, CleanEnds DEF BuildStatement, Done, Failed, ps
  <2>4. statement.ok \/ statement \in {Failed("PanicException"), Failed("ClientError")}
    BY DEF BuildStatement, Done
  <2> HIDE DEF statement
  <2> QED BY <2>3, <2>4, CleanEnds DEF Clean
<1>6. Clean(policy)
  BY PartsClean, PoliciesClean
<1>7. \A verb, key, p, body : Clean(Single(verb, key, p, body))
  BY CleanEnds DEF Single, Request
<1> HIDE DEF statement, policy
<1> QED BY <1>1, <1>2, <1>4, <1>5, <1>6, <1>7

\* What the calls without records are made into.
LEMMA AdminClean ==
  ASSUME NEW args \in Calls
  PROVE  /\ Clean(PrepareAdmin(args)) /\ Clean(PrepareUdfPut(args))
         /\ args.method = "batch_write_numpy" => Clean(PrepareBatchWriteNumpy(args))
         /\ args.method = "admin_create_role" => Clean(PreparePrivileges(args))
<1>1. \A verb, key, p, body : Clean(Single(verb, key, p, body))
  BY CleanEnds DEF Single, Request
<1>2. /\ Clean(ParseAdminPolicy(args.policy)) /\ Clean(ParseBatchPolicy(args.policy))
      /\ Clean(ParseBatchWritePolicy(args.policy))
  BY PartsClean, PoliciesClean
<1>3. Clean(PrepareAdmin(args)) /\ Clean(PrepareUdfPut(args))
  BY <1>1, <1>2, CleanEnds DEF PrepareAdmin, PrepareUdfPut, Then
<1>4. args.method = "batch_write_numpy" => Clean(PrepareBatchWriteNumpy(args))
  <2>1. args.method = "batch_write_numpy" => Clean(args.rows)
    BY ArgumentsTaken, CallsAssumption DEF Takes, Clean
  <2> QED BY <1>2, <2>1, CleanEnds DEF PrepareBatchWriteNumpy, Request, Then
<1>5. ASSUME args.method = "admin_create_role" PROVE Clean(PreparePrivileges(args))
  <2> DEFINE results == [i \in DOMAIN args.privileges |-> ParsePrivilege(args.privileges[i])]
  <2>1. \A obj : Clean(CodeOf(obj))
    BY CleanEnds DEF CodeOf
  <2>2. ASSUME NEW dict PROVE Clean(ParsePrivilege(dict))
    <3> DEFINE Scope(field) ==
                 IF field \notin DOMAIN dict THEN Done("any")
                 ELSE CASE dict[field][1] = "none" -> Done("any")
                        [] dict[field][1] = "str" -> Done(dict[field][2])
                        [] OTHER -> Failed("TypeError")
    <3>1. \A field : Clean(Scope(field))
      BY CleanEnds
    <3>2. ParsePrivilege(dict) =
            IF "code" \notin DOMAIN dict THEN Failed("InvalidArgError")
            ELSE IF ~CodeOf(dict["code"]).ok THEN CodeOf(dict["code"])
            ELSE IF ~Scope("ns").ok THEN Scope("ns")
            ELSE IF ~Scope("set").ok THEN Scope("set")
            ELSE Done(<<CodeOf(dict["code"]).val, Scope("ns").val, Scope("set").val>>)
      BY DEF ParsePrivilege, Then
    <3> HIDE DEF Scope
    <3> QED BY <2>1, <3>1, <3>2, CleanEnds
  <2>3. DOMAIN results \subseteq Nat /\ \A i \in DOMAIN results : Clean(results[i])
    BY <1>5, <2>2, ArgumentsTaken DEF Takes, Lists
  <2>4. ParsePrivileges(args.privileges) = Collected(results)
    BY DEF ParsePrivileges
  <2> HIDE DEF results
  <2>5. Clean(ParsePrivileges(args.privileges))
    BY <2>3, <2>4, CollectedClean
  <2> QED BY <1>1, <1>2, <2>5 DEF PreparePrivileges, Then
<1> QED BY <1>3, <1>4, <1>5

\* Whatever a call is made of, its arguments are prepared or refused with an
\* exception.
LEMMA PrepareClean == call \in Calls => Clean(Prepare)
<1> SUFFICES ASSUME call \in Calls PROVE Clean(Prepare)
  OBVIOUS
<1> DEFINE m == call.method
<1>1. \/ m = "put" /\ Prepare = PreparePut(call)
      \/ m = "get" /\ Prepare = PrepareGet(call)
      \/ m = "select" /\ Prepare = PrepareSelect(call)
      \/ m = "exists" /\ Prepare = PrepareExists(call)
      \/ m = "remove" /\ Prepare = PrepareRemove(call)
      \/ m = "touch" /\ Prepare = PrepareTouch(call)
      \/ m \in {"append", "prepend"} /\ Prepare = PrepareSingleBinWrite(call)
      \/ m = "increment" /\ Prepare = PrepareIncrement(call)
      \/ m = "remove_bin" /\ Prepare = PrepareRemoveBin(call)
      \/ m \in {"operate", "operate_ordered"} /\ Prepare = PrepareOperate(call)
      \/ m = "apply" /\ Prepare = PrepareApply(call)
      \/ m = "batch_read" /\ Prepare = PrepareBatchRead(call)
      \/ m = "batch_operate" /\ Prepare = PrepareBatchOperate(call)
      \/ m = "batch_remove" /\ Prepare = PrepareBatchRemove(call)
      \/ m = "batch_apply" /\ Prepare = PrepareBatchApply(call)
      \/ m = "batch_write" /\ Prepare = PrepareBatchWrite(call)
      \/ m = "batch_write_numpy" /\ Prepare = PrepareBatchWriteNumpy(call)
      \/ m = "query" /\ Prepare = PrepareQuery(call)
      \/ m = "udf_put" /\ Prepare = PrepareUdfPut(call)
      \/ m = "admin_create_role" /\ Prepare = PreparePrivileges(call)
      \/ Prepare = PrepareAdmin(call)
  BY DEF Prepare
<1> QED
  BY <1>1, SinglesClean, KeyedBatchesClean, RemovalsClean, AppliesClean,
     BatchWritesClean, QueriesClean, AdminClean

\* aerospike-core panics only where it decodes a record.
PanicsDecode ==
  "ask" \in DOMAIN answers /\ answers["ask"][1] = "panic" => call.method \in Decoding

\* An answer is kept, and the answers a method may get say when it panics.
LEMMA PanicsOnlyDecoding == Spec => []PanicsDecode
<1>1. Init => PanicsDecode
  BY DEF Init, PanicsDecode
<1>2. PanicsDecode /\ [Next]_vars => PanicsDecode'
  <2> SUFFICES ASSUME PanicsDecode, [Next]_vars PROVE PanicsDecode'
    OBVIOUS
  <2>1. ASSUME NEW a \in AnswersTo("ask"), a[1] = "panic" PROVE call.method \in Decoding
    <3>1. \A f \in Failures : f[1] # "panic"
      BY DEF Failures
    <3>2. \A s \in Successes : s[1] # "panic"
      BY DEF Successes
    <3> QED BY <2>1, <3>1, <3>2 DEF AnswersTo
  <2>2. ASSUME NEW c \in Clients, NEW stage, NEW panicked, Asked(c, stage, panicked)
        PROVE  PanicsDecode'
    <3>1. call' = call /\ Answer("ask")
      BY <2>2 DEF Asked
    <3>2. CASE "ask" \in DOMAIN answers
      BY <3>1, <3>2 DEF Answer, PanicsDecode
    <3>3. CASE "ask" \notin DOMAIN answers
      <4>1. PICK a \in AnswersTo("ask") : answers' = Join([s \in {"ask"} |-> a], answers)
        BY <3>1, <3>3 DEF Answer
      <4>2. answers'["ask"] = a
        BY <4>1 DEF Join
      <4> QED BY <2>1, <3>1, <4>2 DEF PanicsDecode
    <3> QED BY <3>2, <3>3
  <2>3. ASSUME NEW c \in Clients, AwaitTask(c) PROVE PanicsDecode'
    <3>1. call' = call /\ Answer("task")
      BY <2>3 DEF AwaitTask
    <3>2. CASE "task" \in DOMAIN answers
      BY <3>1, <3>2 DEF Answer, PanicsDecode
    <3>3. CASE "task" \notin DOMAIN answers
      <4>1. PICK a : answers' = Join([s \in {"task"} |-> a], answers)
        BY <3>1, <3>3 DEF Answer
      <4>2. "ask" \in DOMAIN answers' =>
              "ask" \in DOMAIN answers /\ answers'["ask"] = answers["ask"]
        BY <4>1 DEF Join
      <4> QED BY <3>1, <4>2 DEF PanicsDecode
    <3> QED BY <3>2, <3>3
  <2>4. ASSUME NEW c \in Clients,
               \/ GetClient(c) \/ PrepareArgs(c) \/ ConvertKey(c)
               \/ AcquirePermit(c) \/ Return(c) \/ UNCHANGED vars
        PROVE  PanicsDecode'
    BY <2>4 DEF GetClient, PrepareArgs, ConvertKey, AcquirePermit, Return, vars,
                PanicsDecode
  <2> QED BY <2>2, <2>3, <2>4 DEF Next, Ask, AskBare, vars, PanicsDecode
<1> QED BY <1>1, <1>2, PTL DEF Spec

\* No panic of aerospike-core reaches Python but as a RustPanicError, for any
\* arguments: the parsers raise exceptions of their own and give Filter::equal
\* only values it accepts, and every method that has a record decoded asks
\* inside the panic net of the do_* functions.
THEOREM NoPanicReachesPython == Spec => []NoPanicEscapes
<1>1. IInv /\ PanicsDecode => NoPanicEscapes
  <2> SUFFICES ASSUME IInv, PanicsDecode, NEW c \in Clients, outcome[c] = Escaped
               PROVE  FALSE
    BY DEF NoPanicEscapes
  <2>1. (\A e : Raised(e) # Escaped) /\ (\A obj : Returned(obj) # Escaped)
        /\ Pending # Escaped
    BY DEF Raised, Returned, Pending, Escaped
  <2>2. at[c] # Len(Path) + 1
    BY <2>1 DEF IInv, EndsRight, Final
  <2>3. at[c] \in 1 .. Len(Path)
    BY <2>2, PathFacts DEF IInv, OnItsWay
  <2>4. PICK stage \in AllStages : stage = Path[at[c]]
    BY <2>3, PathFacts
  <2>5. Decided(stage) /\ Halt(stage) = Escaped
    BY <2>1, <2>2, <2>4 DEF IInv, EndsRight
  <2>6. stage # "prepare"
    BY <2>1, <2>5, PrepareClean DEF Halt, Clean, IInv, Shape
  <2>7. stage = "ask_bare" => call.method \notin Decoding
    <3>1. call.method \in Decoding => Path \in {Write, KeyedRead, Udf}
      BY DEF Path, Course, Decoding
    <3>2. \A s \in {Write, KeyedRead, Udf} : \A i \in 1 .. Len(s) : s[i] # "ask_bare"
      BY DEF Write, KeyedRead, Udf
    <3> QED BY <2>3, <2>4, <3>1, <3>2
  <2>8. stage # "ask_bare"
    <3>1. stage = "ask_bare" => "ask" \in DOMAIN answers
      BY <2>5 DEF Decided, Asking
    <3>2. stage = "ask_bare" => answers["ask"][1] = "panic"
      BY <2>1, <2>5 DEF Halt, MadeOf
    <3> QED BY <2>7, <3>1, <3>2 DEF PanicsDecode
  <2>9. stage # "ask"
    BY <2>1, <2>5 DEF Halt, MadeOf, Caught
  <2> QED BY <2>1, <2>5, <2>6, <2>8, <2>9 DEF Halt
<1> QED BY <1>1, Invariance, PanicsOnlyDecoding, PTL

=============================================================================
