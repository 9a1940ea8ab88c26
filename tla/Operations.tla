----------------------------- MODULE Operations -----------------------------
(***************************************************************************)
(* operations.rs: the op dicts of operate(), operate_ordered() and         *)
(* batch_operate(), parsed into the operations of aerospike-core.          *)
(*                                                                         *)
(* An op dict is a function from its fields to Python objects; its op is a *)
(* name, <<"op", "list_append">> for OP_LIST_APPEND.  A sub-policy is      *)
(* <<"policy", fields>>.  A parsed operation is <<op, bin, args>>, args    *)
(* being what the constructor of aerospike-core is given, in the order it  *)
(* is read; a by-range op without a count has "to_end" for it, the         *)
(* open-ended constructor.                                                 *)
(*                                                                         *)
(* Bounds: a u8 has half the bits of a u32.                                *)
(***************************************************************************)
EXTENDS Policies

\* What each op reads after its bin and val, in order; see Read for the
\* names.
BasicOps ==
  [read |-> <<>>, touch |-> <<>>, delete |-> <<>>, write |-> <<"val_or_nil">>,
   incr |-> <<"increment">>, append |-> <<"val_or_empty">>,
   prepend |-> <<"val_or_empty">>]

ListReads ==
  [list_size |-> <<>>, list_get |-> <<"index">>,
   list_get_range |-> <<"index", "count_or_1">>,
   list_get_by_value |-> <<"val", "list_return">>,
   list_get_by_index |-> <<"index", "list_return">>,
   list_get_by_index_range |-> <<"index", "list_return", "count">>,
   list_get_by_rank |-> <<"rank", "list_return">>,
   list_get_by_rank_range |-> <<"rank", "list_return", "count">>,
   list_get_by_value_list |-> <<"vals", "list_return">>,
   list_get_by_value_range |-> <<"val_or_nil", "val_end", "list_return">>]

ListWrites ==
  [list_append |-> <<"list_policy", "val_or_nil">>,
   list_append_items |-> <<"list_policy", "vals_or_nil">>,
   list_insert |-> <<"list_policy", "index", "val_or_nil">>,
   list_insert_items |-> <<"list_policy", "index", "vals_or_nil">>,
   list_pop |-> <<"index">>, list_pop_range |-> <<"index", "count_or_1">>,
   list_remove |-> <<"index">>,
   list_remove_range |-> <<"index", "count_or_1">>,
   list_set |-> <<"index", "val_or_nil">>,
   list_trim |-> <<"index", "count_required">>, list_clear |-> <<>>]

ListRemovals ==
  [list_remove_by_value |-> <<"val", "list_return">>,
   list_remove_by_value_list |-> <<"vals", "list_return">>,
   list_remove_by_value_range |-> <<"val_or_nil", "val_end", "list_return">>,
   list_remove_by_index |-> <<"index", "list_return">>,
   list_remove_by_index_range |-> <<"index", "list_return", "count">>,
   list_remove_by_rank |-> <<"rank", "list_return">>,
   list_remove_by_rank_range |-> <<"rank", "list_return", "count">>,
   list_increment |-> <<"list_policy", "index", "list_increment">>,
   list_sort |-> <<"sort_flags">>, list_set_order |-> <<"list_order">>]

MapReads ==
  [map_size |-> <<>>, map_get_by_key |-> <<"map_key", "map_return">>,
   map_get_by_key_range |-> <<"val_or_nil", "val_end", "map_return">>,
   map_get_by_value |-> <<"val", "map_return">>,
   map_get_by_value_range |-> <<"val_or_nil", "val_end", "map_return">>,
   map_get_by_index |-> <<"index", "map_return">>,
   map_get_by_index_range |-> <<"index", "map_return", "count">>,
   map_get_by_rank |-> <<"rank", "map_return">>,
   map_get_by_rank_range |-> <<"rank", "map_return", "count">>,
   map_get_by_key_list |-> <<"vals_or_nil", "map_return">>,
   map_get_by_value_list |-> <<"vals", "map_return">>]

MapRemovals ==
  [map_remove_by_key |-> <<"map_key", "map_return">>,
   map_remove_by_key_list |-> <<"vals_or_nil", "map_return">>,
   map_remove_by_key_range |-> <<"val_or_nil", "val_end", "map_return">>,
   map_remove_by_value |-> <<"val", "map_return">>,
   map_remove_by_value_list |-> <<"vals", "map_return">>,
   map_remove_by_value_range |-> <<"val_or_nil", "val_end", "map_return">>,
   map_remove_by_index |-> <<"index", "map_return">>,
   map_remove_by_index_range |-> <<"index", "map_return", "count">>,
   map_remove_by_rank |-> <<"rank", "map_return">>,
   map_remove_by_rank_range |-> <<"rank", "map_return", "count">>]

MapWrites ==
  [map_set_order |-> <<"map_order">>, map_clear |-> <<>>,
   map_put |-> <<"map_policy", "map_key", "val_or_nil">>,
   map_put_items |-> <<"map_policy", "map_items">>,
   map_increment |-> <<"map_policy", "map_key", "val_or_1">>,
   map_decrement |-> <<"map_policy", "map_key", "val_or_1">>]

HllOps ==
  [hll_init |-> <<"hll_policy", "index_bits", "minhash_bits_or_none">>,
   hll_add |-> <<"hll_policy", "vals", "index_bits_or_none",
                 "minhash_bits_or_none">>,
   hll_get_count |-> <<>>, hll_describe |-> <<>>,
   hll_get_union |-> <<"vals">>, hll_get_union_count |-> <<"vals">>,
   hll_get_intersect_count |-> <<"vals">>, hll_get_similarity |-> <<"vals">>,
   hll_fold |-> <<"index_bits">>, hll_set_union |-> <<"hll_policy", "vals">>]

\* bit_or, bit_xor and bit_and read what bit_set reads, and so on.
BitOps ==
  LET span == <<"bit_offset", "bit_size">>
      set == span \o <<"val", "bit_policy">>
      shift == span \o <<"shift", "bit_policy">>
      sum == span \o <<"int", "signed", "overflow", "bit_policy">>
  IN [bit_resize |-> <<"byte_size", "resize_flags", "bit_policy">>,
      bit_insert |-> <<"byte_offset", "val", "bit_policy">>,
      bit_remove |-> <<"byte_offset", "byte_size", "bit_policy">>,
      bit_set |-> set, bit_or |-> set, bit_xor |-> set, bit_and |-> set,
      bit_not |-> span \o <<"bit_policy">>,
      bit_lshift |-> shift, bit_rshift |-> shift,
      bit_add |-> sum, bit_subtract |-> sum,
      bit_set_int |-> span \o <<"int", "bit_policy">>,
      bit_get |-> span, bit_count |-> span,
      bit_lscan |-> span \o <<"scan">>, bit_rscan |-> span \o <<"scan">>,
      bit_get_int |-> span \o <<"signed">>]

Steps ==
  Join(BasicOps, Join(ListReads, Join(ListWrites, Join(ListRemovals,
  Join(MapReads, Join(MapRemovals, Join(MapWrites, Join(HllOps, BitOps))))))))
Binless == {"read", "touch", "delete"}

\* op_code_is_write: whatever is not known to read writes.
ReadOps ==
  {"read"} \cup DOMAIN ListReads \cup DOMAIN MapReads
  \cup {"hll_get_count", "hll_get_union", "hll_get_union_count",
        "hll_get_intersect_count", "hll_get_similarity", "hll_describe",
        "bit_get", "bit_count", "bit_lscan", "bit_rscan", "bit_get_int"}
\* Mutant: a read op added without an entry in op_code_is_write.
OpCodeIsWriteForgetsOne(op) == op \notin ReadOps \ {"hll_describe"}
OpCodeIsWrite(op) == op \notin ReadOps

----------------------------------------------------------------------------
(* Reading one argument of an op dict d whose converted val is val,        *)
(* <<"absent">> when it is missing or None.                                *)

MaxU8 == 2 ^ (HalfWidth \div 2) - 1
U8(obj) == Integer(obj, 0, MaxU8)

Has(d, field) == field \in DOMAIN d
NotNone(d, field) == Has(d, field) /\ d[field][1] # "none"
Needed(d, field, As(_)) ==
  IF Has(d, field) THEN As(d[field]) ELSE Failed("ValueError")
OrElse(d, field, As(_), default) ==
  IF Has(d, field) THEN As(d[field]) ELSE Done(default)

HasVal(val) == val[1] # "absent"
ValOr(val, default) == Done(IF HasVal(val) THEN val ELSE default)
\* require_hll_value and require_bitwise_value
ValNeeded(val) == IF HasVal(val) THEN Done(val) ELSE Failed("ValueError")
\* values_from_list
ValuesFromList(val) == IF val[1] = "List" THEN val[2] ELSE <<val>>

\* get_count: a None is a missing count.
Count(d, Missing) ==
  IF NotNone(d, "count") THEN I64(d["count"]) ELSE Missing

\* One of the codes listed, or a ValueError.
OneOf(codes, n) == IF n \in codes THEN Done(n) ELSE Failed("ValueError")
ReturnType(d, codes) ==
  Then(Needed(d, "return_type", I32), LAMBDA n : OneOf(codes, n))

\* parse_i32_flag: an integer that fits, 0 when there is none.
I32Flag(val) ==
  CASE val[1] \in {"absent", "Nil"} -> Done(0)
    [] val[1] = "Int" ->
         IF I32(<<"int", val[2]>>).ok THEN Done(val[2])
         ELSE Failed("ValueError")
    [] OTHER -> Failed("TypeError")

Listed(n, names, other) == IF n \in DOMAIN names THEN names[n] ELSE other
MapOrders == (1 :> "KeyOrdered") @@ (3 :> "KeyValueOrdered")

\* parse_list_policy and its siblings: a missing or None sub-policy is the
\* default one, a field of it that is missing is 0.
SubPolicy(d, field, Of(_)) ==
  IF ~NotNone(d, field) THEN Done("default")
  ELSE IF d[field][1] # "policy" THEN Failed("TypeError")
       ELSE Of(d[field][2])
ListPolicy(p) ==
  Then(OrElse(p, "order", I32, 0), LAMBDA order :
  Then(OrElse(p, "flags", U8, 0), LAMBDA flags :
    Done(<<Listed(order, 1 :> "Ordered", "Unordered"), flags>>)))
MapPolicy(p) ==
  Then(OrElse(p, "order", I32, 0), LAMBDA order :
  Then(OrElse(p, "write_mode", I32, 0), LAMBDA mode :
    Done(<<Listed(order, MapOrders, "Unordered"),
           Listed(mode, <<"CreateOnly", "UpdateOnly">>, "Update")>>)))
HllPolicy(p) == OrElse(p, "flags", I64, 0)

ReadPolicyStep(step, d) ==
  CASE step = "list_policy" -> SubPolicy(d, "list_policy", ListPolicy)
    [] step = "map_policy" -> SubPolicy(d, "map_policy", MapPolicy)
    [] step = "hll_policy" -> SubPolicy(d, "hll_policy", HllPolicy)
    [] step = "bit_policy" -> IF NotNone(d, "bit_policy")
                              THEN U8(d["bit_policy"]) ELSE Done("default")

EmptyString == <<"String", "">>

\* The steps that look at val.
ReadVal(step, val) ==
  CASE step = "val" -> ValNeeded(val)
    [] step = "val_or_nil" -> ValOr(val, <<"Nil">>)
    [] step = "val_or_empty" -> ValOr(val, EmptyString)
    [] step = "val_or_1" -> ValOr(val, <<"Int", 1>>)
    [] step = "vals" -> Then(ValNeeded(val), LAMBDA v :
                          Done(ValuesFromList(v)))
    [] step = "vals_or_nil" -> Then(ValOr(val, <<"Nil">>), LAMBDA v :
                                 Done(ValuesFromList(v)))
    [] step = "map_items" -> Then(ValNeeded(val), LAMBDA v :
                               IF v[1] = "HashMap" THEN Done(v[2])
                               ELSE Failed("ValueError"))
    [] step = "increment" ->                      \* parse_incr_value
         IF val[1] \in {"absent", "Nil"} THEN Done(<<"Int", 1>>)
         ELSE IF val[1] \in {"Int", "Float"} THEN Done(val)
         ELSE Failed("TypeError")
    [] step = "list_increment" ->                 \* parse_increment_value
         IF val[1] \in {"absent", "Nil"} THEN Done(1)
         ELSE IF val[1] = "Int" THEN Done(val[2]) ELSE Failed("ValueError")
    [] step = "int" ->
         IF val[1] = "Int" THEN Done(val[2]) ELSE Failed("ValueError")
    [] step = "sort_flags" ->
         Then(I32Flag(val), LAMBDA n : OneOf({0, 2}, n))
    [] step = "list_order" ->
         Then(I32Flag(val), LAMBDA n :
           Done(Listed(n, 1 :> "Ordered", "Unordered")))
    [] step = "map_order" ->
         Then(I32Flag(val), LAMBDA n :
           Done(Listed(n, MapOrders, "Unordered")))

ValSteps == {"val", "val_or_nil", "val_or_empty", "val_or_1", "vals",
             "vals_or_nil", "map_items", "increment", "list_increment",
             "int", "sort_flags", "list_order", "map_order"}
PolicySteps == {"list_policy", "map_policy", "hll_policy", "bit_policy"}

\* The steps that read a field of their own.
ReadField(step, d) ==
  CASE step \in {"index", "bit_offset", "bit_size", "byte_size",
                 "byte_offset", "shift"} -> Needed(d, step, I64)
    [] step = "rank" -> IF Has(d, "rank") THEN I64(d["rank"])
                        ELSE Needed(d, "index", I64)
    [] step = "count" -> Count(d, Done("to_end"))
    [] step = "count_or_1" -> Count(d, Done(1))
    [] step = "count_required" -> Count(d, Failed("ValueError"))
    [] step = "list_return" -> ReturnType(d, (0 .. 5) \cup {7, 13})
    [] step = "map_return" -> ReturnType(d, (0 .. 8) \cup {13})
    [] step = "map_key" -> Needed(d, "map_key", ToValue)
    [] step = "val_end" -> IF NotNone(d, "val_end")
                           THEN ToValue(d["val_end"]) ELSE Done(<<"Infinity">>)
    [] step = "index_bits" -> Needed(d, "index_bit_count", I64)
    [] step = "index_bits_or_none" -> OrElse(d, "index_bit_count", I64, -1)
    [] step = "minhash_bits_or_none" -> OrElse(d, "minhash_bit_count", I64, -1)
    [] step = "signed" -> OrElse(d, "signed", Boolean, FALSE)
    [] step = "overflow" -> Then(OrElse(d, "action", I32, 0), LAMBDA n :
                              OneOf({0, 2, 4}, n))
    [] step = "resize_flags" ->
         IF ~Has(d, "resize_flags") THEN Done("none")
         ELSE Then(I32(d["resize_flags"]), LAMBDA n : OneOf({0, 1, 2, 4}, n))
    [] step = "scan" -> Needed(d, "val", Boolean)

Read(step, d, val) ==
  CASE step \in ValSteps -> ReadVal(step, val)
    [] step \in PolicySteps -> ReadPolicyStep(step, d)
    [] OTHER -> ReadField(step, d)

----------------------------------------------------------------------------
(* One op dict, and a list of them *)

Name(obj) == IF obj[1] = "str" THEN Done(obj) ELSE Failed("TypeError")
Code(obj) == IF obj[1] = "op" THEN Done(obj[2]) ELSE Failed("TypeError")

\* One round of the loop of py_ops_to_rust_checked: the op code, the bin
\* and val are read before the op is dispatched.
ToOperation(d) ==
  Then(Needed(d, "op", Code), LAMBDA op :
  Then(IF NotNone(d, "bin") THEN Name(d["bin"]) ELSE Done(<<"absent">>),
       LAMBDA bin :
  Then(IF NotNone(d, "val") THEN ToValue(d["val"]) ELSE Done(<<"absent">>),
       LAMBDA val :
    IF op \notin DOMAIN Steps \/ (bin[1] = "absent" /\ op \notin Binless)
    THEN Failed("ValueError")
    ELSE Then(Collected([i \in DOMAIN Steps[op] |->
                           Read(Steps[op][i], d, val)]),
              LAMBDA args :
                Done(<<op, IF op \in {"touch", "delete"} THEN <<"absent">>
                           ELSE bin, args>>)))))

\* py_ops_to_rust_checked: the operations, and whether one of them writes.
ToOperations(dicts) ==
  Then(Collected([i \in DOMAIN dicts |-> ToOperation(dicts[i])]), LAMBDA ops :
    Done([ops |-> ops,
          writes |-> \E i \in DOMAIN ops : OpCodeIsWrite(ops[i][1])]))

\* What aerospike-core takes the operation it builds for: a get of any kind,
\* a size, a count, a scan.
CoreTakesForWrite(op) ==
  op \notin {"read",
    "list_size", "list_get", "list_get_range", "list_get_by_value",
    "list_get_by_value_list", "list_get_by_value_range", "list_get_by_index",
    "list_get_by_index_range", "list_get_by_rank", "list_get_by_rank_range",
    "map_size", "map_get_by_key", "map_get_by_key_list", "map_get_by_key_range",
    "map_get_by_value", "map_get_by_value_list", "map_get_by_value_range",
    "map_get_by_index", "map_get_by_index_range", "map_get_by_rank",
    "map_get_by_rank_range",
    "hll_get_count", "hll_get_union", "hll_get_union_count",
    "hll_get_intersect_count", "hll_get_similarity", "hll_describe",
    "bit_get", "bit_count", "bit_lscan", "bit_rscan", "bit_get_int"}

=============================================================================
