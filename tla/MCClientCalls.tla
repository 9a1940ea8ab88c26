--------------------------- MODULE MCClientCalls ---------------------------
(***************************************************************************)
(* ClientCalls with the calls TLC makes.  Every argument of every method   *)
(* takes each of the values listed for it while the others keep a plain    *)
(* one; the arguments the code relates (meta and policy, the keys and the  *)
(* records of a batch) are also varied together.  Integers have 8 bits,    *)
(* values nest 2 deep, bin names have 3 bytes, expressions nest once.      *)
(***************************************************************************)
EXTENDS ClientCalls

LOCAL Num(n) == <<"int", n>>
LOCAL Str(s) == <<"str", s>>
LOCAL None == <<"none">>
LOCAL List(items) == <<"list", items>>
LOCAL Dict(pairs) == <<"dict", pairs>>
LOCAL Tuple(items) == <<"tuple", items>>
LOCAL KeyOf(user) == Tuple(<<Str("ns"), Str("set"), user>>)
LOCAL DigestKey(user, digest) == Tuple(<<Str("ns"), Str("set"), user, digest>>)

PlainKey == KeyOf(Num(1))
RawKeys ==
  {KeyOf(u) : u \in {Num(1), Num(200), Num(300), Str("u"), None, List(<<>>),
                     <<"bytes", "x">>, <<"bytearray", "x">>}}
  \cup {DigestKey(u, <<"digest", "d">>) :
          u \in {None, Num(1), <<"bytes", "x">>, List(<<Num(1)>>)}}
  \cup {DigestKey(Num(1), d) : d \in {None, <<"bytes", "short">>, Str("d")}}
  \cup {DigestKey(Num(1), List([i \in 1 .. n |-> Num(1)])) : n \in {19, 20}}
  \cup {DigestKey(Num(1), Tuple(<<d>>)) : d \in {Num(256), Str("d")}}
  \cup {Tuple(<<Str("ns"), Str("set")>>), Tuple(<<Str("ns"), None, Num(1)>>),
        Str("ns")}

Deep == List(<<List(<<List(<<>>)>>)>>)
BinObjects ==
  {None, Num(-128), Num(127), Num(200), Num(256), Num(-129), Str("s"),
   <<"bool", TRUE>>, <<"float", "f">>, <<"bytes", "b">>, <<"bytearray", "b">>,
   List(<<Num(1), Num(255), Str("s")>>), List(<<Deep>>), Tuple(<<>>),
   Dict(<<<<Num(200), List(<<Num(255)>>)>>, <<Num(-1), None>>>>),
   Dict(<<<<Str("k"), Tuple(<<>>)>>>>)}
BinsOf(obj) == Dict(<<<<Str("b"), obj>>>>)
PlainBins == Dict(<<<<Str("b"), Num(1)>>>>)
AllBinObjects ==
  {BinsOf(o) : o \in BinObjects}
  \cup {Dict(<<<<n, Num(1)>>>>) : n \in {Str(""), Str("long"), Num(1)}}
  \cup {Dict(<<>>), None,
        Dict(<<<<Str("a"), Num(1)>>, <<Str("b"), Deep>>>>)}

Metas ==
  {<<>>, [gen |-> Num(3)], [gen |-> Num(-1)], [gen |-> Str("x")],
   [ttl |-> Num(-2)], [ttl |-> Num(99)],
   [gen |-> Num(2), ttl |-> Num(5), exists |-> Num(4), key |-> Num(1)],
   [durable_delete |-> Num(1)], [commit_level |-> Num(1)]}
Compare(subs) == [op |-> "eq", args |-> <<>>, subs |-> subs, listed |-> "list"]
IntVal(n) == [op |-> "int_val", args |-> <<Num(n)>>, subs |-> <<>>,
              listed |-> "list"]
AnyOf(op, subs, listed) ==
  [op |-> op, args |-> <<>>, subs |-> subs, listed |-> listed]
FilterNodes ==
  {Compare(<<IntVal(1), IntVal(2)>>), Compare(<<IntVal(1)>>),
   Compare(<<Compare(<<>>), IntVal(1)>>),
   [op |-> "int_bin", args |-> <<Str("b")>>, subs |-> <<>>, listed |-> "list"],
   [op |-> "int_bin", args |-> <<Str("")>>, subs |-> <<>>, listed |-> "list"],
   [op |-> "int_val", args |-> <<<<"missing">>>>, subs |-> <<>>,
    listed |-> "list"],
   [op |-> "key", args |-> <<Num(10)>>, subs |-> <<>>, listed |-> "list"],
   [op |-> "list_val", args |-> <<List(<<Num(1)>>)>>, subs |-> <<>>,
    listed |-> "list"],
   AnyOf("and", <<>>, "list"), AnyOf("or", <<IntVal(1)>>, "other"), AnyOf("or", <<>>, "missing"),
   AnyOf("cond", <<IntVal(1), IntVal(2), IntVal(3)>>, "list"),
   AnyOf("num_abs", <<IntVal(1), IntVal(2)>>, "list"),
   AnyOf("num_mod", <<IntVal(1)>>, "list"), AnyOf("ttl", <<>>, "list"),
   AnyOf("unknown", <<>>, "list"),
   AnyOf("not", <<IntVal(1)>>, "list")}
Filters == {[filter_expression |-> <<"expr", n>>] : n \in FilterNodes}
Filter1 == [filter_expression |-> <<"expr", Compare(<<IntVal(1), IntVal(2)>>)>>]
PoliciesOf ==
  Filters \cup
  {<<>>, [filter_expression |-> Str("x")], [gen |-> Num(1)],
   [gen |-> Num(2), key |-> Num(1)],
   [total_timeout |-> Num(-1)], [socket_timeout |-> Num(7)],
   [ttl |-> Num(5)], [replica |-> Num(7)], [concurrency |-> Num(2)],
   [read_touch_ttl_percent |-> Num(101)], [timeout |-> Num(16)],
   [allow_inline |-> Str("x")]}

\* The calls of a method that vary one argument of a plain one.
Varied(plain, field, values) == {[plain EXCEPT ![field] = v] : v \in values}
MetasAndPolicies(plain) ==
  {[plain EXCEPT !.meta = m, !.policy = p] :
     m \in Metas, p \in {<<>>, Filter1, [gen |-> Num(1)], [ttl |-> Num(5)]}}
Calls1(plain) ==
  {plain}
  \cup Varied(plain, "policy", IF plain.method \in {"put", "get", "batch_read"}
                               THEN PoliciesOf
                               ELSE {Filter1, [socket_timeout |-> Str("x")]})
  \cup (IF "key" \in DOMAIN plain THEN Varied(plain, "key", RawKeys) ELSE {})
  \cup (IF "meta" \in DOMAIN plain THEN MetasAndPolicies(plain) ELSE {})

Put == [method |-> "put", key |-> PlainKey, bins |-> PlainBins,
        meta |-> <<>>, policy |-> <<>>]
Keyed(m) == [method |-> m, key |-> PlainKey, policy |-> <<>>]
Written(m) == [method |-> m, key |-> PlainKey, meta |-> <<>>, policy |-> <<>>]
BinWrite(m) == "bin" :> "b" @@ "val" :> Num(1) @@ Written(m)
Named(plain) == "names" :> <<Str("b")>> @@ plain
Operate(m) == "ops" :> <<[op |-> <<"op", "read">>, bin |-> Str("b")]>>
              @@ Written(m)
Apply == [method |-> "apply", key |-> PlainKey, module |-> "m",
          function |-> "f", args |-> None, policy |-> <<>>]

OpDict(op, fields) == "op" :> <<"op", op>> @@ "bin" :> Str("b") @@ fields
Full == [val |-> Num(1), index |-> Num(0), rank |-> Num(0),
         count |-> Num(1), return_type |-> Num(0), map_key |-> Str("k"),
         index_bit_count |-> Num(4), bit_offset |-> Num(0),
         bit_size |-> Num(1), byte_size |-> Num(1), byte_offset |-> Num(0),
         shift |-> Num(1), bit_policy |-> Num(1),
         list_policy |-> <<"policy", [order |-> Num(1), flags |-> Num(1)]>>,
         map_policy |-> <<"policy", [order |-> Num(3)]>>,
         hll_policy |-> None]
\* Every op once, and the op dicts the parser has something to say about.
FullOps == {<<OpDict(op, Full)>> : op \in DOMAIN Steps}
OddOps ==
  {<<[bin |-> Str("b")]>>, <<OpDict("unknown", <<>>)>>, <<>>,
   <<[op |-> <<"op", "write">>]>>, <<[op |-> <<"op", "touch">>]>>,
   <<[op |-> <<"op", "delete">>]>>,
   <<OpDict("write", [val |-> Deep])>>, <<OpDict("incr", [val |-> Str("x")])>>,
   <<OpDict("incr", [val |-> None])>>,
   <<OpDict("list_get_by_index", [index |-> Num(0)])>>,
   <<OpDict("list_get_by_index", [index |-> Num(0), return_type |-> Num(6)])>>,
   <<OpDict("list_get_by_index_range",
            [index |-> Num(0), return_type |-> Num(7), count |-> None])>>,
   <<OpDict("list_trim", [index |-> Num(0)])>>,
   <<OpDict("list_sort", [val |-> Num(1)])>>,
   <<OpDict("map_put_items", [val |-> Dict(<<<<Str("k"), Num(1)>>>>)])>>,
   <<OpDict("map_put", [map_key |-> Str("k"), map_policy |-> Num(1)])>>,
   <<OpDict("bit_lscan", [bit_offset |-> Num(0), bit_size |-> Num(1),
                          val |-> <<"bool", TRUE>>])>>,
   <<OpDict("bit_add", [bit_offset |-> Num(0), bit_size |-> Num(1),
                        val |-> Num(1), action |-> Num(2)])>>,
   <<OpDict("read", <<>>), OpDict("write", [val |-> Num(1)])>>,
   <<OpDict("list_size", <<>>), OpDict("map_size", <<>>)>>}

BatchKeys ==
  {<<k>> : k \in RawKeys} \cup {<<>>, <<PlainKey, KeyOf(<<"bytes", "x">>)>>}
WithMeta(m) == Tuple(<<PlainKey, <<"meta", m>>>>)
Elements ==
  BatchKeys \cup {<<WithMeta(m)>> : m \in Metas}
  \cup {<<PlainKey, WithMeta([gen |-> Num(1)])>>,
        <<WithMeta([module |-> Str("n"), args |-> List(<<Num(1)>>)])>>,
        <<WithMeta([function |-> Num(1)])>>, <<WithMeta([args |-> Num(1)])>>,
        <<WithMeta([args |-> None])>>}
Rec(items) == <<Tuple(items)>>
BatchRecords ==
  {Rec(<<k, PlainBins>>) : k \in RawKeys}
  \cup {Rec(<<PlainKey, b>>) : b \in AllBinObjects}
  \cup {Rec(<<PlainKey, PlainBins, <<"meta", m>>>>) : m \in Metas}
  \cup {Rec(<<PlainKey, PlainBins, None>>), Rec(<<PlainKey>>),
        <<List(<<>>)>>, <<>>}
Batch(m, field, value) == [method |-> m, policy |-> <<>>] @@ field :> value
BatchCalls(plain, field, values) ==
  Calls1(plain) \cup Varied(plain, field, values)
  \cup {[plain EXCEPT ![field] = v, !.policy = p] :
          v \in values, p \in {Filter1, [gen |-> Num(1), ttl |-> Num(5)]}}

Administrative ==
  {[method |-> m, policy |-> p] :
     m \in {"info_all", "info_random_node", "truncate", "udf_remove",
            "index_create", "index_remove", "admin_user", "admin_role",
            "admin_query_user_info", "admin_query_role"},
     p \in {<<>>, [timeout |-> Num(5)], [timeout |-> Num(16)]}}
  \cup {[method |-> "udf_put", policy |-> <<>>, udf_type |-> t,
         readable |-> r] : t \in {0, 1}, r \in BOOLEAN}
  \cup {[method |-> "admin_create_role", policy |-> <<>>, privileges |-> ps] :
          ps \in {<<>>, <<[code |-> Str("read"), ns |-> Str("n")]>>,
                  <<[code |-> Num(10)], [code |-> Num(14), ns |-> None,
                                         set |-> Str("s")]>>,
                  <<[code |-> Num(9)]>>, <<[code |-> Num(256)]>>,
                  <<[code |-> Str("none")]>>, <<[ns |-> Str("n")]>>,
                  <<[code |-> None]>>,
                  <<[code |-> Str("write"), ns |-> Num(1)]>>}}

Query == [method |-> "query", names |-> <<>>, predicates |-> <<>>, policy |-> <<>>]
Where(items) == <<items>>
Equals(obj) == Where(<<Str("equals"), Str("b"), obj>>)
ContainsAt(index, obj) == Where(<<Str("contains"), Str("b"), index, obj>>)
Predicates ==
  {Equals(o) : o \in BinObjects}
  \cup {ContainsAt(Num(i), o) : i \in {-1, 0, 3, 4}, o \in {Num(1), Str("s"), None}}
  \cup {ContainsAt(None, Num(1)),
        Where(<<Str("between"), Str("b"), Num(1), Num(127)>>),
        Where(<<Str("between"), Str("b"), Num(200), Num(1)>>),
        Where(<<Str("between"), Str("b"), Num(1), <<"float", "f">>>>),
        Where(<<Str("between"), Str("b"), Num(1)>>),
        Where(<<Str("equals"), Str(""), Num(1)>>), Where(<<Str("equals"), Str("b")>>),
        Where(<<Str("equals"), Num(1), Num(1)>>),
        Where(<<Str("geo_contains_geojson_point"), Str("b"), Str("g")>>),
        Where(<<Str("geo_within_radius"), Str("b"), Num(1), Num(2), Str("r")>>),
        Where(<<Str("unknown"), Str("b"), Num(1)>>),
        Equals(Num(1)) \o Equals(List(<<>>))}

MCCalls ==
  Calls1(Put) \cup Varied(Put, "bins", AllBinObjects)
  \cup UNION {Calls1(Keyed(m)) : m \in {"get", "exists"}}
  \cup Calls1(Named(Keyed("select")))
  \cup {[Named(Keyed("select")) EXCEPT !.names = <<Num(1)>>]}
  \cup Calls1(Written("remove"))
  \cup UNION {Calls1("ttl" :> n @@ Written("touch")) : n \in {0, 7}}
  \cup UNION {Calls1(BinWrite(m)) \cup Varied(BinWrite(m), "val", BinObjects) :
                m \in {"append", "prepend", "increment"}}
  \cup Calls1(Named(Written("remove_bin")))
  \cup UNION {Calls1(Operate(m)) : m \in {"operate", "operate_ordered"}}
  \cup Varied(Operate("operate"), "ops", FullOps \cup OddOps)
  \cup Varied(Query, "policy", PoliciesOf) \cup Varied(Query, "predicates", Predicates)
  \cup Varied(Query, "names", {<<Str("b")>>, <<Str("")>>, <<None>>})
  \cup Calls1(Apply)
  \cup Varied(Apply, "args", {List(<<Num(1)>>), List(<<Deep>>)})
  \cup BatchCalls(Batch("batch_read", "keys", <<PlainKey>>)
                  @@ "bins" :> None, "keys", BatchKeys)
  \cup Varied(Batch("batch_read", "keys", <<PlainKey>>) @@ "bins" :> None,
              "bins", {<<"some", <<>>>>, <<"some", <<"b">>>>})
  \cup BatchCalls(Batch("batch_operate", "keys", <<PlainKey>>)
                  @@ "ops" :> <<OpDict("read", <<>>)>>, "keys", BatchKeys)
  \cup {Batch("batch_operate", "keys", <<PlainKey>>) @@ "ops" :> o :
          o \in FullOps \cup OddOps}
  \cup {"policy" :> Filter1 @@ Batch("batch_operate", "keys", <<PlainKey>>)
        @@ "ops" :> <<OpDict("touch", <<>>)>>}
  \cup BatchCalls(Batch("batch_remove", "keys", <<PlainKey>>),
                  "keys", Elements)
  \cup BatchCalls([method |-> "batch_apply", policy |-> <<>>,
                   keys |-> <<PlainKey>>, module |-> "m", function |-> "f",
                   args |-> None], "keys", Elements)
  \cup BatchCalls(Batch("batch_write", "records", Rec(<<PlainKey, PlainBins>>)),
                  "records", BatchRecords)
  \cup {Batch("batch_write_numpy", "rows", r) :
          r \in {Failed("TypeError"),
                 Done(<<<<ToKey(PlainKey).val, <<>>>>>>)}}
  \cup Administrative

\* The conversions, from the bodies their own calls stand in.
RECURSIVE MCToValueAt(_, _)
MCToValueAt(obj, depth) ==
  PyToValueBody(obj, depth, LAMBDA o : MCToValueAt(o, depth + 1))
RECURSIVE MCFromValue(_)
MCFromValue(value) == ValueToPyBody(value, LAMBDA v : MCFromValue(v))
RECURSIVE MCExpressionAt(_, _)
MCExpressionAt(node, depth) ==
  PyToExpressionBody(node, depth, LAMBDA n : MCExpressionAt(n, depth + 1))
RECURSIVE MCAsStored(_)
MCAsStored(obj) == StoredBody(obj, LAMBDA o : MCAsStored(o))

\* The objects of these calls and what they contain, the values they convert
\* to, and what those convert back to.
RECURSIVE WithContents(_)
WithContents(obj) ==
  {obj} \cup UNION {WithContents(o) : o \in
    IF obj[1] \in {"list", "tuple"} THEN Range(obj[2])
    ELSE IF obj[1] = "dict" THEN UNION {Range(p) : p \in Range(obj[2])}
    ELSE IF obj[1] \in {"meta", "policy"} THEN Range(obj[2])
    ELSE {}}
LOCAL Converted(objects) ==
  {r.val : r \in {q \in {ToValueAt(o, d) : o \in objects, d \in -1 .. MaxDepth} : q.ok}}
LOCAL ReadBack(values) ==
  {r.val : r \in {q \in {FromValue(v) : v \in values} : q.ok}}
MCStored ==
  {<<"Int", 1>>,
   <<"KeyValueList", <<<<<<"Int", 1>>, <<"Nil">>>>>>>>,
   <<"HashMap", <<"List", <<>>>> :> <<"Nil">>>>}
RECURSIVE WithSubs(_)
WithSubs(node) == {node} \cup UNION {WithSubs(n) : n \in Range(node.subs)}
MCNodes == UNION {WithSubs(n) : n \in FilterNodes}
LOCAL GivenObjects ==
  UNION {WithContents(o) : o \in
    UNION {Arguments(c) : c \in MCCalls}
    \cup UNION {Range(n.args) \ {<<"missing">>} : n \in MCNodes}}
MCCoreValues == Converted(GivenObjects)
MCObjects == GivenObjects \cup ReadBack(MCCoreValues)

MCCoreErrors ==
  {[variant |-> "ServerError", rc |-> "KeyNotFoundError"],
   [variant |-> "BatchError", rc |-> "Timeout"],
   [variant |-> "Timeout", rc |-> ""]}

=============================================================================
