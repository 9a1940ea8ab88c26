----------------------------- MODULE Expressions -----------------------------
(***************************************************************************)
(* expressions.rs: the dict trees aerospike_py.exp builds, converted to    *)
(* the filter expressions of aerospike-core.                               *)
(*                                                                         *)
(* A node is a record [op, args, subs].  args are the plain fields of the  *)
(* dict as Python objects in the order they are read, <<"missing">> for    *)
(* one that is not there; subs are the sub-expressions in that order.      *)
(* listed tells of "exprs": "list", "missing", or "other" if it is none. A *)
(* Python object that is no expression dict is a node of op "not_a_dict".  *)
(* A core expression is <<op, args, subs>>.  As in Values, what the        *)
(* conversion calls on the sub-expressions is a parameter.                 *)
(***************************************************************************)
EXTENDS Values

CONSTANTS
  MaxExpressionDepth,
  Nodes,              \* the expression dicts there are, and what they contain
  ExpressionAt(_, _)  \* py_to_expression_inner of a node at a depth

BinAccessors == {"int_bin", "float_bin", "string_bin", "blob_bin", "list_bin",
                 "map_bin", "geo_bin", "hll_bin", "bin_exists", "bin_type",
                 "bool_bin"}
Comparisons == {"eq", "ne", "gt", "ge", "lt", "le", "geo_compare"}
Variadic == {"and", "or", "xor", "num_add", "num_sub", "num_mul", "num_div",
             "min", "max", "int_and", "int_or", "int_xor", "cond", "let"}
Unary == {"num_abs", "num_floor", "num_ceil", "to_int", "to_float",
          "int_not", "int_count"}
Pairs == {"num_mod", "num_pow", "num_log", "int_lshift", "int_rshift",
          "int_arshift", "int_lscan", "int_rscan"}
Metadata == {"key_exists", "set_name", "record_size", "last_update",
             "since_update", "void_time", "ttl", "is_tombstone", "nil",
             "infinity", "wildcard"}

\* The Python type each remaining op wants of its field.
FieldOf ==
  [int_val |-> "int", float_val |-> "float", string_val |-> "str",
   bool_val |-> "bool", blob_val |-> "bytes", list_val |-> "list",
   map_val |-> "dict", geo_val |-> "str", var |-> "str", key |-> "int",
   digest_modulo |-> "int", def |-> "str"]

\* get_required: present, then of the wanted type.
Required(field, type) ==
  IF field[1] = "missing" THEN Failed("ValueError")
  ELSE IF field[1] # type THEN Failed("TypeError")
  ELSE Done(field)

\* The field of a leaf, converted: an integer is an i64, the items of a list
\* or a map are values, an ExpType is 0 to 9.
Field(op, field) ==
  Then(Required(field, FieldOf[op]), LAMBDA f :
    IF op \in {"list_val", "map_val"} THEN ToValueAt(f, -1)
    ELSE IF op = "key" /\ f[2] \notin 0 .. 9 THEN Failed("ValueError")
    ELSE Done(f))

\* int_bin and the rest: the name goes through validate_bin_name.
BinAccessor(node) ==
  Then(Required(node.args[1], "str"), LAMBDA name :
    IF Len(name[2]) = 0 THEN Failed("InvalidArgError")
    ELSE Done(<<node.op, <<name>>, <<>>>>))

\* How many operands a list-taking op accepts.
Arity(op, n) ==
  IF op \in Pairs THEN n = 2
  ELSE IF op = "cond" THEN n >= 3 /\ n % 2 = 1
  ELSE IF op = "let" THEN n >= 2
  ELSE n >= 1

\* A unary op takes the first operand and drops the others.
Operands(op, subs) == IF op \in Unary THEN <<subs[1]>> ELSE subs

\* The body of py_to_expression_inner, Inner being its call on the sub-nodes.
PyToExpressionBody(node, depth, Inner(_)) ==
  LET op == node.op
      Subs == Collected([i \in DOMAIN node.subs |-> Inner(node.subs[i])])
      Of(n, args) == Then(Subs, LAMBDA subs :
        IF Len(subs) # n THEN Failed("ValueError")
        ELSE Done(<<op, args, subs>>))
  IN IF depth > MaxExpressionDepth THEN Failed("ValueError")
     ELSE IF op = "not_a_dict" THEN Failed("TypeError")
     ELSE IF op \in Metadata THEN Done(<<op, <<>>, <<>>>>)
     ELSE IF op \in BinAccessors THEN BinAccessor(node)
     ELSE IF op \in Comparisons THEN Of(2, <<>>)
     ELSE IF op = "not" THEN Of(1, <<>>)
     ELSE IF op \in Variadic \cup Unary \cup Pairs
     THEN IF node.listed = "missing" THEN Failed("ValueError")
          ELSE IF node.listed # "list" THEN Failed("TypeError")
          ELSE Then(Subs, LAMBDA subs :
                 IF Arity(op, Len(subs))
                 THEN Done(<<op, <<>>, Operands(op, subs)>>)
                 ELSE Failed(IF op \in Unary \cup Pairs THEN "ValueError"
                             ELSE "InvalidArgError"))
     ELSE IF op = "regex_compare"
     THEN Then(Required(node.args[1], "str"), LAMBDA regex :
          Then(Required(node.args[2], "int"), LAMBDA flags :
            Of(1, <<regex, flags>>)))
     ELSE IF op = "def"
     THEN Then(Required(node.args[1], "str"), LAMBDA name :
            Of(1, <<name>>))
     ELSE IF op \in DOMAIN FieldOf
     THEN Then(Field(op, node.args[1]), LAMBDA f :
            Done(<<op, <<f>>, <<>>>>))
     ELSE Failed("ValueError")

\* py_to_expression_inner
PyToExpressionInner(node, depth) ==
  PyToExpressionBody(node, depth, LAMBDA n : ExpressionAt(n, depth + 1))

ASSUME ExpressionsAssumption ==
  /\ MaxExpressionDepth \in Nat
  /\ \A node \in Nodes, depth \in 0 .. MaxExpressionDepth + 1 :
        ExpressionAt(node, depth) = PyToExpressionInner(node, depth)
  /\ \A obj \in Objects : obj[1] = "expr" => obj[2] \in Nodes
  /\ \A node \in Nodes :
        /\ node.subs \in Seq(Nodes)
        /\ node.args \in Seq(Objects \cup {<<"missing">>})
        /\ node.op \in DOMAIN FieldOf \cup BinAccessors => Len(node.args) = 1
        /\ node.op = "regex_compare" => Len(node.args) = 2

\* py_to_expression
ToExpression(node) == ExpressionAt(node, 0)

=============================================================================
