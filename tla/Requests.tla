------------------------------ MODULE Requests ------------------------------
(***************************************************************************)
(* client_common.rs: the prepare_*_args functions, which turn the          *)
(* arguments of a client method into what aerospike-core is asked for.     *)
(*                                                                         *)
(* A call is a record: its method and the arguments that method has.       *)
(* policy and meta are dicts in the sense of Policies.  An element of a    *)
(* batch's list is a key, a <<"tuple", <<key, <<"meta", fields>>>>>, or,   *)
(* for batch_write, a tuple of a key, a dict of bins and possibly a meta.  *)
(* A request is a record [verb, batch, items]: the call made of            *)
(* aerospike-core, the batch policy (none for a single-record call) and    *)
(* one item [key, policy, body] per record.  The administrative requests   *)
(* have one item without a key.                                            *)
(***************************************************************************)
EXTENDS Operations

Item(key, policy, body) == [key |-> key, policy |-> policy, body |-> body]
Request(verb, batch, items) ==
  Done([verb |-> verb, batch |-> batch, items |-> items])

NoBatch == <<>>
Single(verb, key, policy, body) ==
  Request(verb, NoBatch, <<Item(key, policy, body)>>)

\* Vec<String> out of a list, and an optional list of values.
Names(objs) == Collected([i \in DOMAIN objs |-> Name(objs[i])])
Args(obj) ==
  IF obj[1] = "none" THEN Done(obj)
  ELSE Then(ToValues(obj[2]), LAMBDA vs : Done(<<"args", vs>>))

AllBins == <<"all">>
NoBins == <<"no_bins">>
SomeBins(names) == <<"some", names>>

----------------------------------------------------------------------------
(* Single records *)

\* The bins come first here; a put with neither meta nor policy takes
\* DEFAULT_WRITE_POLICY, which is what no fields parse to.
PreparePut(call) ==
  IF call.bins[1] # "dict" THEN Failed("TypeError")
  ELSE Then(ToBins(call.bins[2]), LAMBDA bins :
       Then(ToKey(call.key), LAMBDA key :
       Then(ParseWritePolicy(call.policy, call.meta), LAMBDA policy :
         Single("put", key, policy, bins))))

PrepareGet(call) ==
  Then(ToKey(call.key), LAMBDA key :
  Then(ParseReadPolicy(call.policy), LAMBDA policy :
    Single("get", key, policy, AllBins)))

PrepareSelect(call) ==
  Then(ToKey(call.key), LAMBDA key :
  Then(Names(call.names), LAMBDA names :
  Then(ParseReadPolicy(call.policy), LAMBDA policy :
    Single("get", key, policy, SomeBins(names)))))

PrepareExists(call) ==
  Then(ToKey(call.key), LAMBDA key :
  Then(ParseReadPolicy(call.policy), LAMBDA policy :
    Single("get", key, policy, NoBins)))

\* What the writes below start with.
KeyAndPolicy(call, Of(_, _)) ==
  Then(ToKey(call.key), LAMBDA key :
  Then(ParseWritePolicy(call.policy, call.meta), LAMBDA policy :
    Of(key, policy)))

PrepareRemove(call) ==
  KeyAndPolicy(call, LAMBDA key, policy :
    Single("delete", key, policy, <<>>))

\* A positive val beats the ttl of meta and policy.
PrepareTouch(call) ==
  KeyAndPolicy(call, LAMBDA key, policy :
    Single("touch", key,
           IF call.ttl > 0 THEN Join(Setting("ttl", <<"Seconds", call.ttl>>), policy)
           ELSE policy, <<>>))

PrepareSingleBinWrite(call) ==
  KeyAndPolicy(call, LAMBDA key, policy :
    Then(ToValue(call.val), LAMBDA value :
      Single(call.method, key, policy, <<<<call.bin, value>>>>)))

\* parse_increment_offset
PrepareIncrement(call) ==
  KeyAndPolicy(call, LAMBDA key, policy :
    Then(ToValue(call.val), LAMBDA value :
      IF value[1] \notin {"Int", "Float"} THEN Failed("TypeError")
      ELSE Single("add", key, policy, <<<<call.bin, value>>>>)))

PrepareRemoveBin(call) ==
  KeyAndPolicy(call, LAMBDA key, policy :
    Then(Names(call.names), LAMBDA names :
      Single("put", key, policy,
             [i \in DOMAIN names |-> <<names[i][2], <<"Nil">>>>])))

PrepareOperate(call) ==
  KeyAndPolicy(call, LAMBDA key, policy :
    Then(ToOperations(call.ops), LAMBDA parsed :
      Single("operate", key, policy, parsed.ops)))

PrepareApply(call) ==
  Then(ToKey(call.key), LAMBDA key :
  Then(ParseWritePolicy(call.policy, <<>>), LAMBDA policy :
  Then(Args(call.args), LAMBDA args :
    Single("execute_udf", key, policy, <<call.module, call.function, args>>))))

----------------------------------------------------------------------------
(* Batches *)

PrepareBatchRead(call) ==
  LET selector == IF call.bins[1] = "none" THEN AllBins
                  ELSE IF call.bins[2] = <<>> THEN NoBins
                  ELSE SomeBins(call.bins[2])
  IN Then(ParseBatchPolicy(call.policy), LAMBDA batch :
     Then(ParseBatchReadPolicy(call.policy), LAMBDA policy :
     Then(ToKeys(call.keys), LAMBDA keys :
       Request("read", batch,
               [i \in DOMAIN keys |-> Item(keys[i], policy, selector)]))))

\* Without a write the batch is sent as reads; with one, every record has
\* the default write policy.
PrepareBatchOperate(call) ==
  Then(ParseBatchPolicy(call.policy), LAMBDA batch :
  Then(ParseBatchReadPolicy(call.policy), LAMBDA policy :
  Then(ToOperations(call.ops), LAMBDA parsed :
  Then(ToKeys(call.keys), LAMBDA keys :
    Request(IF parsed.writes THEN "write" ELSE "read_ops", batch,
            [i \in DOMAIN keys |->
               Item(keys[i], IF parsed.writes THEN Defaults ELSE policy,
                    parsed.ops)])))))

\* An element is a (Key, meta) pair only in exactly that shape.
IsKeyMeta(elem) ==
  /\ elem[1] = "tuple"
  /\ Len(elem[2]) = 2
  /\ elem[2][1][1] = "tuple"
  /\ elem[2][2][1] = "meta"

PrepareBatchRemove(call) ==
  LET Of(elem, base) ==
        IF IsKeyMeta(elem)
        THEN Then(ToKey(elem[2][1]), LAMBDA key :
             Then(ApplyRecordMetaForDelete(base, elem[2][2][2]),
                  LAMBDA policy : Done(Item(key, policy, <<>>))))
        ELSE Then(ToKey(elem), LAMBDA key : Done(Item(key, base, <<>>)))
  IN Then(ParseBatchPolicy(call.policy), LAMBDA batch :
     Then(ParseBatchDeletePolicy(call.policy), LAMBDA base :
     Then(Collected([i \in DOMAIN call.keys |-> Of(call.keys[i], base)]),
          LAMBDA items : Request("delete", batch, items))))

\* A (Key, meta) pair may name its own module, function and arguments.
PrepareBatchApply(call) ==
  LET Own(meta, field) ==
        IF field \in DOMAIN meta
        THEN Then(Name(meta[field]), LAMBDA name : Done(name[2]))
        ELSE Done(call[field])
      OwnArgs(meta, args) ==
        IF "args" \notin DOMAIN meta THEN Done(args)
        ELSE IF meta["args"][1] \in {"none", "list"} THEN Args(meta["args"])
        ELSE Failed("TypeError")
      Of(elem, base, args) ==
        IF ~IsKeyMeta(elem)
        THEN Then(ToKey(elem), LAMBDA key :
               Done(Item(key, base, <<call.module, call.function, args>>)))
        ELSE LET meta == elem[2][2][2]
             IN Then(ToKey(elem[2][1]), LAMBDA key :
                Then(ApplyRecordMetaForApply(base, meta), LAMBDA policy :
                Then(Own(meta, "module"), LAMBDA module :
                Then(Own(meta, "function"), LAMBDA function :
                Then(OwnArgs(meta, args), LAMBDA own :
                  Done(Item(key, policy, <<module, function, own>>)))))))
  IN Then(ParseBatchPolicy(call.policy), LAMBDA batch :
     Then(ParseBatchUDFPolicy(call.policy), LAMBDA base :
     Then(Args(call.args), LAMBDA args :
     Then(Collected([i \in DOMAIN call.keys |->
                       Of(call.keys[i], base, args)]),
          LAMBDA items : Request("udf", batch, items)))))

PrepareBatchWrite(call) ==
  LET Policy(elem, base) ==
        IF Len(elem[2]) < 3 THEN Done(base)
        ELSE IF elem[2][3][1] # "meta" THEN Failed("TypeError")
        ELSE ApplyRecordMeta(base, elem[2][3][2])
      Of(elem, base) ==
        IF elem[1] # "tuple" THEN Failed("TypeError")
        ELSE IF Len(elem[2]) < 2 THEN Failed("ValueError")
        ELSE Then(ToKey(elem[2][1]), LAMBDA key :
             IF elem[2][2][1] # "dict" THEN Failed("TypeError")
             ELSE Then(ToBins(elem[2][2][2]), LAMBDA bins :
                  Then(Policy(elem, base), LAMBDA policy :
                    Done(Item(key, policy, bins)))))
  IN Then(ParseBatchPolicy(call.policy), LAMBDA batch :
     Then(ParseBatchWritePolicy(call.policy), LAMBDA base :
     Then(Collected([i \in DOMAIN call.records |->
                       Of(call.records[i], base)]),
          LAMBDA items : Request("write", batch, items))))

\* batch_write_numpy in both clients: rows is what numpy_to_records made of
\* the array (NumpyBuffer), read between the two policies.
PrepareBatchWriteNumpy(call) ==
  Then(ParseBatchPolicy(call.policy), LAMBDA batch :
  Then(call.rows, LAMBDA rows :
  Then(ParseBatchWritePolicy(call.policy), LAMBDA policy :
    Request("write", batch,
            [i \in DOMAIN rows |-> Item(rows[i][1], policy, rows[i][2])]))))

----------------------------------------------------------------------------
(* Queries.  A predicate is the sequence of the items of its tuple.        *)

\* What a secondary index compares; Filter::equal asserts it.
Indexable == {"Int", "String", "Blob"}

GeoPredicates == {"geo_within_geojson_region", "geo_within_radius",
                  "geo_contains_geojson_point"}

\* The items a predicate of this kind must have.
PredicateLen(kind) ==
  CASE kind \in {"between", "contains"} -> 4
    [] kind = "geo_within_radius" -> 5
    [] OTHER -> 3

\* parse_predicate, of what follows the kind and the bin.
PredicateBody(kind, pred) ==
  LET Bound(obj) == IF I64(obj).ok THEN I64(obj) ELSE Failed("InvalidArgError")
      Value == IF I64(pred[4]).ok THEN Done(<<"int", I64(pred[4]).val>>)
               ELSE Name(pred[4])
  IN CASE kind = "equals" ->
            Then(ToValue(pred[3]), LAMBDA value :
              IF value[1] \in Indexable THEN Done(value)
              ELSE Failed("InvalidArgError"))
       [] kind = "between" ->
            Then(Bound(pred[3]), LAMBDA begin :
            Then(Bound(pred[4]), LAMBDA end : Done(<<begin, end>>)))
       [] kind = "contains" ->
            Then(I32(pred[3]), LAMBDA index :
              IF index \notin 0 .. 3 THEN Failed("InvalidArgError")
              ELSE Then(Value, LAMBDA value : Done(<<index, value>>)))
       [] kind = "geo_within_radius" ->
            IF \A i \in 3 .. 5 : pred[i][1] \in {"float", "int"}
            THEN Done(<<>>) ELSE Failed("TypeError")
       [] kind \in GeoPredicates \ {"geo_within_radius"} -> Name(pred[3])
       [] OTHER -> Failed("InvalidArgError")

ParsePredicate(pred) ==
  IF Len(pred) < 3 THEN Failed("InvalidArgError")
  ELSE Then(Name(pred[1]), LAMBDA kind :
       Then(Name(pred[2]), LAMBDA bin :
         IF Len(bin[2]) = 0 \/ Len(pred) < PredicateLen(kind[2])
         THEN Failed("InvalidArgError")
         ELSE Then(PredicateBody(kind[2], pred), LAMBDA body :
                Done(<<kind[2], bin[2], body>>))))

\* build_statement.  It runs outside of the panic net.
BuildStatement(names, predicates) ==
  LET kinds == {predicates[i][1] : i \in DOMAIN predicates}
      Asserts(p) == p[1] = "equals" => p[3][1] \in Indexable
  IN IF \E i \in DOMAIN predicates : ~Asserts(predicates[i])
     THEN Failed("PanicException")
     ELSE IF kinds \cap GeoPredicates # {} THEN Failed("ClientError")
     ELSE Done(<<IF names = <<>> THEN AllBins ELSE SomeBins(names), predicates>>)

\* query(), select() of each name, where() of each predicate, results().
PrepareQuery(call) ==
  LET Selected(obj) ==
        Then(Name(obj), LAMBDA name :
          IF Len(name[2]) = 0 THEN Failed("InvalidArgError") ELSE Done(name))
  IN Then(Collected([i \in DOMAIN call.names |-> Selected(call.names[i])]),
          LAMBDA names :
     Then(Collected([i \in DOMAIN call.predicates |->
                       ParsePredicate(call.predicates[i])]),
          LAMBDA predicates :
     Then(BuildStatement(names, predicates), LAMBDA statement :
     Then(ParseQueryPolicy(call.policy), LAMBDA policy :
       Single("query", <<>>, policy, statement)))))

----------------------------------------------------------------------------
(* Info, truncate, UDF modules, indexes, users and roles *)

\* info_all, info_random_node, truncate, udf_remove, the index calls and the
\* admin calls without privileges: the policy, then the arguments as given.
PrepareAdmin(call) ==
  Then(ParseAdminPolicy(call.policy), LAMBDA policy :
    Single(call.method, <<>>, policy, <<>>))

\* Only Lua, from a file that can be read.
PrepareUdfPut(call) ==
  Then(ParseAdminPolicy(call.policy), LAMBDA policy :
    IF call.udf_type # 0 THEN Failed("InvalidArgError")
    ELSE IF ~call.readable THEN Failed("ClientError")
    ELSE Single("udf_put", <<>>, policy, <<>>))

\* code_to_privilege_code and name_to_privilege_code (names as normalized).
PrivilegeCode ==
  [user_admin |-> 0, sys_admin |-> 1, data_admin |-> 2, udf_admin |-> 3,
   sindex_admin |-> 4, read |-> 10, read_write |-> 11, read_write_udf |-> 12,
   write |-> 13, truncate |-> 14]

CodeOf(obj) ==
  LET known == {c \in DOMAIN PrivilegeCode :
                  obj \in {<<"str", c>>, <<"int", PrivilegeCode[c]>>}}
  IN CASE obj[1] = "str" \/ (obj[1] = "int" /\ obj[2] \in 0 .. 255) ->
            IF known = {} THEN Failed("InvalidArgError")
            ELSE Done(CHOOSE c \in known : TRUE)
       [] OTHER -> Failed("TypeError")

\* parse_privileges, on dicts of code, ns and set.
ParsePrivilege(dict) ==
  LET Scope(field) ==
        IF field \notin DOMAIN dict THEN Done("any")
        ELSE CASE dict[field][1] = "none" -> Done("any")
               [] dict[field][1] = "str" -> Done(dict[field][2])
               [] OTHER -> Failed("TypeError")
  IN IF "code" \notin DOMAIN dict THEN Failed("InvalidArgError")
     ELSE Then(CodeOf(dict["code"]), LAMBDA code :
          Then(Scope("ns"), LAMBDA ns :
          Then(Scope("set"), LAMBDA set : Done(<<code, ns, set>>))))
ParsePrivileges(dicts) ==
  Collected([i \in DOMAIN dicts |-> ParsePrivilege(dicts[i])])

PreparePrivileges(call) ==
  Then(ParseAdminPolicy(call.policy), LAMBDA policy :
  Then(ParsePrivileges(call.privileges), LAMBDA privileges :
    Single(call.method, <<>>, policy, privileges)))

\* role_to_py
RoleToPy(privileges) ==
  LET Scope(field, name) ==
        IF name = "any" THEN <<>> ELSE Setting(field, <<"str", name>>)
  IN [i \in DOMAIN privileges |->
        Join(Setting("code", <<"int", PrivilegeCode[privileges[i][1]]>>),
        Join(Scope("ns", privileges[i][2]), Scope("set", privileges[i][3])))]

=============================================================================
