------------------------------ MODULE Policies ------------------------------
(***************************************************************************)
(* policy/: the policy and meta dicts of a call, parsed into the policies  *)
(* of aerospike-core.                                                      *)
(*                                                                         *)
(* A dict is a function from the fields it has to Python objects; no dict  *)
(* at all is the empty one.  A parsed policy is a function too: it has the *)
(* attributes the parser set, every other one keeps aerospike-core's       *)
(* default.  <<"expr", node>> is a filter expression, <<"partitions", f>>  *)
(* a PartitionFilter handle.                                               *)
(*                                                                         *)
(* Bounds: u32 and i32 have half the bits of an i64.                       *)
(***************************************************************************)
EXTENDS Expressions

HalfWidth == IntBits \div 2
MaxU32 == 2 ^ HalfWidth - 1

\* extract::<T>() of an integer type (a bool is an int), and of bool.
Number(obj) == IF obj[1] = "bool" THEN IF obj[2] THEN 1 ELSE 0 ELSE obj[2]
Integer(obj, low, high) ==
  IF obj[1] \notin {"int", "bool"} THEN Failed("TypeError")
  ELSE IF Number(obj) \in low .. high THEN Done(Number(obj))
  ELSE Failed("OverflowError")
U32(obj) == Integer(obj, 0, MaxU32)
I32(obj) == Integer(obj, -(2 ^ (HalfWidth - 1)), 2 ^ (HalfWidth - 1) - 1)
I64(obj) == Integer(obj, -HalfRange, HalfRange - 1)
Boolean(obj) == IF obj[1] = "bool" THEN Done(obj[2]) ELSE Failed("TypeError")

\* A lenient enum: the named values by index from 0, the rest is fallback.
Enum(obj, names, fallback) ==
  Then(I32(obj), LAMBDA n :
    Done(IF n + 1 \in DOMAIN names THEN names[n + 1] ELSE fallback))

\* parse_record_exists_action and its siblings
EnumNames ==
  [exists |-> <<"Update", "UpdateOnly", "Replace", "ReplaceOnly",
                "CreateOnly">>,
   gen |-> <<"None", "ExpectGenEqual", "ExpectGenGreater">>,
   commit_level |-> <<"CommitAll", "CommitMaster">>,
   replica |-> <<"Master", "Sequence", "PreferRack">>,
   read_mode_ap |-> <<"ConsistencyOne", "ConsistencyAll">>,
   expected_duration |-> <<"Long", "Short", "LongRelaxAP">>]
Fallback(field) ==
  IF field = "replica" THEN "Sequence" ELSE EnumNames[field][1]

\* parse_ttl
ParseTtl(n) ==
  IF n \in {0, -3} THEN Done(<<"NamespaceDefault">>)
  ELSE IF n = -1 THEN Done(<<"Never">>)
  ELSE IF n = -2 THEN Done(<<"DontUpdate">>)
  ELSE IF n \in 1 .. MaxU32 THEN Done(<<"Seconds", n>>)
  ELSE Failed("InvalidArgError")

\* parse_read_touch_ttl
ParseReadTouchTtl(n) ==
  IF n = 0 THEN Done(<<"ServerDefault">>)
  ELSE IF n = -1 THEN Done(<<"DontReset">>)
  ELSE IF n \in 1 .. 100 THEN Done(<<"Percent", n>>)
  ELSE Failed("InvalidArgError")

\* parse_concurrency
ParseConcurrency(n) ==
  IF n \in {0, 1} THEN Done(<<"Sequential", "Parallel">>[n + 1])
  ELSE Failed("ValueError")

\* parse_partition_filter
ParsePartitionFilter(obj) ==
  IF obj[1] = "partitions" THEN Done(obj[2]) ELSE Failed("TypeError")

BooleanFields == {"durable_delete", "allow_inline", "allow_inline_ssd",
                  "respond_all_keys", "include_bin_data"}

\* What a parser reads out of a field's object.
Reading(field, obj) ==
  IF field \in BooleanFields THEN Boolean(obj)
  ELSE IF field = "key" THEN Then(I32(obj), LAMBDA n : Done(n = 1))
  ELSE IF field \in DOMAIN EnumNames
  THEN Enum(obj, EnumNames[field], Fallback(field))
  ELSE IF field = "ttl" THEN Then(I64(obj), ParseTtl)
  ELSE IF field = "read_touch_ttl_percent" THEN Then(I64(obj), ParseReadTouchTtl)
  ELSE IF field = "concurrency" THEN Then(I64(obj), ParseConcurrency)
  ELSE IF field = "filter_expression" THEN ToExpression(obj[2])
  ELSE IF field = "partition_filter" THEN ParsePartitionFilter(obj)
  ELSE U32(obj)

\* extract_filter_expression passes over what is no expression dict.
Present(dict, field) ==
  /\ field \in DOMAIN dict
  /\ field = "filter_expression" => dict[field][1] = "expr"

\* Settings laid over a policy one after the other.
Overlaid(policy, settings) ==
  [attr \in DOMAIN policy \cup UNION {DOMAIN settings[i] : i \in DOMAIN settings} |->
     LET setting == {i \in DOMAIN settings : attr \in DOMAIN settings[i]}
     IN IF setting = {} THEN policy[attr] ELSE settings[Max(setting)][attr]]

\* One attribute with its value.
Setting(attr, v) == [a \in {attr} |-> v]

\* What one field of a policy dict sets, "gen" being the generation policy.
PolicySets(dict, field) ==
  IF ~Present(dict, field) THEN Done(<<>>)
  ELSE Then(Reading(field, dict[field]), LAMBDA v :
         Done(Setting(IF field = "gen" THEN "generation_policy" ELSE field, v)))

\* Reads the fields in the parser's order into policy; the first failure is
\* the parser's.
ParseFields(policy, dict, fields) ==
  Then(Collected([i \in DOMAIN fields |-> PolicySets(dict, fields[i])]),
       LAMBDA settings : Done(Overlaid(policy, settings)))

Defaults == <<>>
Timing == <<"socket_timeout", "total_timeout", "max_retries",
            "sleep_between_retries", "timeout_delay">>
Filter == <<"filter_expression">>

----------------------------------------------------------------------------
(* Per-call and per-record meta *)

\* What one field of a meta dict sets, "gen" being the generation expected.
MetaSets(meta, field) ==
  IF field \notin DOMAIN meta THEN Done(<<>>)
  ELSE IF field = "gen"
  THEN Then(U32(meta[field]), LAMBDA n :
         Done([generation |-> n, generation_policy |-> "ExpectGenEqual"]))
  ELSE Then(Reading(field, meta[field]), LAMBDA v : Done(Setting(field, v)))

ReadMeta(policy, meta, fields) ==
  Then(Collected([i \in DOMAIN fields |-> MetaSets(meta, fields[i])]),
       LAMBDA settings : Done(Overlaid(policy, settings)))

\* apply_record_meta, apply_record_meta_for_delete and _for_apply: what the
\* record says is laid over what the batch says.
ApplyRecordMeta(base, meta) ==
  ReadMeta(base, meta, <<"ttl", "gen", "key", "exists", "commit_level",
                         "durable_delete">>)
\* Mutant: the delete variant copied from the apply one.
ApplyRecordMetaWithoutGen(base, meta) ==
  ReadMeta(base, meta, <<"key", "commit_level", "durable_delete">>)
ApplyRecordMetaForDelete(base, meta) ==
  ReadMeta(base, meta, <<"gen", "key", "commit_level", "durable_delete">>)
ApplyRecordMetaForApply(base, meta) ==
  ReadMeta(base, meta, <<"ttl", "key", "commit_level", "durable_delete">>)

----------------------------------------------------------------------------
(* The parsers *)

\* default_write_policy: no retries.
DefaultWritePolicy == [max_retries |-> 0]

\* parse_write_policy: meta first, then the policy dict over it.
ParseWritePolicy(policy, meta) ==
  Then(ReadMeta(DefaultWritePolicy, meta,
                <<"gen", "ttl", "key", "exists", "commit_level",
                  "durable_delete">>), LAMBDA base :
    ParseFields(base, policy,
                Timing \o <<"durable_delete", "key", "exists", "gen",
                            "commit_level", "ttl", "read_mode_ap",
                            "read_touch_ttl_percent">> \o Filter))

ParseReadPolicy(policy) ==
  ParseFields(Defaults, policy,
              Timing \o <<"replica", "read_mode_ap",
                          "read_touch_ttl_percent">> \o Filter)

ParseQueryPolicy(policy) ==
  ParseFields([partition_filter |-> "all"], policy,
              Timing \o <<"max_records", "records_per_second",
                          "max_concurrent_nodes", "record_queue_size",
                          "include_bin_data", "replica", "read_mode_ap",
                          "read_touch_ttl_percent", "expected_duration">>
                     \o Filter \o <<"partition_filter">>)

\* Mutant: the filter left to the per-record policies.
ParseBatchPolicyWithoutFilter(policy) ==
  ParseFields(Defaults, policy,
              Timing \o <<"allow_inline", "allow_inline_ssd",
                          "respond_all_keys", "replica", "read_mode_ap",
                          "read_touch_ttl_percent", "concurrency">>)
ParseBatchPolicy(policy) ==
  ParseFields(Defaults, policy,
              Timing \o <<"allow_inline", "allow_inline_ssd",
                          "respond_all_keys", "replica", "read_mode_ap",
                          "read_touch_ttl_percent", "concurrency">>
                     \o Filter)

ParseBatchReadPolicy(policy) ==
  ParseFields(Defaults, policy,
              <<"read_touch_ttl_percent">> \o Filter)

ParseBatchWritePolicy(policy) ==
  ParseFields(Defaults, policy,
              <<"durable_delete", "key", "exists", "gen", "commit_level",
                "ttl">> \o Filter)

ParseBatchDeletePolicy(policy) ==
  ParseFields(Defaults, policy,
              <<"durable_delete", "key", "gen", "commit_level">> \o Filter)

ParseBatchUDFPolicy(policy) ==
  ParseFields(Defaults, policy,
              <<"durable_delete", "key", "commit_level", "ttl">> \o Filter)

ParseAdminPolicy(policy) ==
  ParseFields(Defaults, policy, <<"timeout">>)

=============================================================================
