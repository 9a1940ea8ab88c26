------------------------------- MODULE Values -------------------------------
(***************************************************************************)
(* The conversions of types/: Python objects to the values, keys and bins  *)
(* of aerospike-core, and values and keys back to Python.                  *)
(*                                                                         *)
(* A Python object is <<type, payload>>: <<"int", n>>, <<"list", items>>,  *)
(* <<"dict", pairs>>, <<"none">>, ... (payloads of one type have one       *)
(* shape).  A core value is <<variant, payload>> in the same way; a        *)
(* HashMap's payload is a function.  A conversion yields Done(result) or   *)
(* Failed(exception class).                                                *)
(*                                                                         *)
(* The conversions recurse into what a list or a dict holds.  ToValueAt    *)
(* and FromValue, which they call there, are parameters of this module;    *)
(* ConversionsAssumption says that they are what the bodies, which take    *)
(* their recursive call as an argument, define.                            *)
(*                                                                         *)
(* Bounds: an i64 has IntBits bits (64), a value nests MaxDepth deep (64), *)
(* a bin name has MaxBinName bytes (15).                                   *)
(***************************************************************************)
EXTENDS Integers, Sequences, SequencesExt

CONSTANTS
  IntBits, MaxDepth, MaxBinName,
  Objects,          \* the Python objects there are, and what they contain
  CoreValues,       \* the values of aerospike-core there are
  ToValueAt(_, _),  \* py_to_value_inner of an object at a depth
  FromValue(_)      \* value_to_py

ASSUME ValuesAssumption ==
  /\ IntBits \in Nat \ {0}
  /\ MaxDepth \in Nat
  /\ MaxBinName \in Nat \ {0}

Done(result) == [ok |-> TRUE, val |-> result]
Failed(class) == [ok |-> FALSE, err |-> class]

\* The ? operator: go on with the result, or return the failure.
Then(r, Next(_)) == IF r.ok THEN Next(r.val) ELSE r

\* Two functions, or tables, as one: f where it is defined, else g.
Join(f, g) ==
  [x \in DOMAIN f \cup DOMAIN g |-> IF x \in DOMAIN f THEN f[x] ELSE g[x]]

\* Collecting converted items into a Vec: the first failure wins.
Collected(results) ==
  LET failing == {i \in DOMAIN results : ~results[i].ok}
  IN IF failing = {} THEN Done([i \in DOMAIN results |-> results[i].val])
     ELSE results[Min(failing)]

----------------------------------------------------------------------------
(* Values *)

HalfRange == 2 ^ (IntBits - 1)

\* True of every such power, which the provers do not know.
ASSUME HalfRangeAssumption == HalfRange \in Nat \ {0}

\* Mutant: what does not fit an i64 saturates.
ToI64Saturating(n) ==
  IF n >= -HalfRange /\ n < HalfRange THEN Done(n)
  ELSE IF n >= HalfRange /\ n < 2 * HalfRange THEN Done(HalfRange - 1)
  ELSE Failed("OverflowError")

\* extract::<i64>, then extract::<u64> reinterpreted as i64.
ToI64(n) ==
  IF n >= -HalfRange /\ n < HalfRange THEN Done(n)
  ELSE IF n >= HalfRange /\ n < 2 * HalfRange THEN Done(n - 2 * HalfRange)
  ELSE Failed("OverflowError")

\* Inserting pairs into a HashMap one after the other: the last one wins.
AsMap(pairs) ==
  [k \in {pairs[i][1] : i \in DOMAIN pairs} |->
     pairs[Max({i \in DOMAIN pairs : pairs[i][1] = k})][2]]

ScalarVariant ==
  [bool |-> "Bool", float |-> "Float", str |-> "String",
   bytes |-> "Blob", bytearray |-> "Blob"]

\* The body of py_to_value_inner, Inner being its call on what obj contains.
PyToValueBody(obj, depth, Inner(_)) ==
  LET type == obj[1]
      Entry(p) == Then(Inner(p[1]), LAMBDA k :
                  Then(Inner(p[2]), LAMBDA v : Done(<<k, v>>)))
  IN IF depth > MaxDepth THEN Failed("ValueError")
     ELSE IF type = "none" THEN Done(<<"Nil">>)
     ELSE IF type \in DOMAIN ScalarVariant
     THEN Done(<<ScalarVariant[type], obj[2]>>)
     ELSE IF type = "int"
     THEN Then(ToI64(obj[2]), LAMBDA n : Done(<<"Int", n>>))
     ELSE IF type = "list"
     THEN Then(Collected([i \in DOMAIN obj[2] |-> Inner(obj[2][i])]),
               LAMBDA vs : Done(<<"List", vs>>))
     ELSE IF type = "dict"
     THEN Then(Collected([i \in DOMAIN obj[2] |-> Entry(obj[2][i])]),
               LAMBDA ps : Done(<<"HashMap", AsMap(ps)>>))
     ELSE Failed("TypeError")

\* py_to_value_inner
PyToValueInner(obj, depth) ==
  PyToValueBody(obj, depth, LAMBDA o : ToValueAt(o, depth + 1))

ToValue(obj) == ToValueAt(obj, 0)

\* py_list_to_values and the like: every item, the first failure wins.
ToValues(items) == Collected([i \in DOMAIN items |-> ToValue(items[i])])

Unhashable == {"list", "dict"}
BackToScalar ==
  [Bool |-> "bool", Int |-> "int", Float |-> "float", String |-> "str",
   GeoJSON |-> "str", Blob |-> "bytes", HLL |-> "bytes"]

\* The body of value_to_py, Inner being its call on what value contains.  A
\* map becomes a dict, whose keys must be hashable.
ValueToPyBody(value, Inner(_)) ==
  LET variant == value[1]
      All(vs) == Collected([i \in DOMAIN vs |-> Inner(vs[i])])
      Entry(k, v) == Then(Inner(k), LAMBDA pk :
                     Then(Inner(v), LAMBDA pv :
                       IF pk[1] \in Unhashable THEN Failed("TypeError")
                       ELSE Done(<<pk, pv>>)))
      Tuple(p) == Then(Inner(p[1]), LAMBDA pk :
                  Then(Inner(p[2]), LAMBDA pv : Done(<<"tuple", <<pk, pv>>>>)))
      keys == SetToSeq(DOMAIN value[2])
  IN IF variant \in {"Nil", "Infinity", "Wildcard"} THEN Done(<<"none">>)
     ELSE IF variant \in DOMAIN BackToScalar
     THEN Done(<<BackToScalar[variant], value[2]>>)
     ELSE IF variant \in {"List", "MultiResult"}
     THEN Then(All(value[2]), LAMBDA items : Done(<<"list", items>>))
     ELSE IF variant = "KeyValueList"
     THEN Then(Collected([i \in DOMAIN value[2] |-> Tuple(value[2][i])]),
               LAMBDA tuples : Done(<<"list", tuples>>))
     ELSE \* "HashMap", "OrderedMap"
          Then(Collected([i \in DOMAIN keys |->
                            Entry(keys[i], value[2][keys[i]])]),
                LAMBDA pairs : Done(<<"dict", pairs>>))

\* value_to_py
ValueToPy(value) == ValueToPyBody(value, FromValue)

ASSUME ConversionsAssumption ==
  /\ \A obj \in Objects, depth \in -1 .. MaxDepth + 1 :
        ToValueAt(obj, depth) = PyToValueInner(obj, depth)
  /\ \A value \in CoreValues : FromValue(value) = ValueToPy(value)

\* What Python and aerospike-core hold: an object is its type and payload, a
\* container holds objects, the keys of a dict are hashable, a conversion's
\* result exists.
ASSUME UniverseAssumption ==
  /\ \A obj \in Objects :
        /\ obj[1] = "none" => obj = <<"none">>
        /\ obj[1] \in DOMAIN ScalarVariant => obj = <<obj[1], obj[2]>>
        /\ obj[1] = "int" => obj[2] \in Int
        /\ obj[1] \in {"list", "tuple"} => obj[2] \in Seq(Objects)
        /\ obj[1] \in {"meta", "policy"} => Range(obj[2]) \subseteq Objects
        /\ obj[1] = "dict" =>
             /\ obj[2] \in Seq(Objects \X Objects)
             /\ \A i \in DOMAIN obj[2] : obj[2][i][1][1] \notin Unhashable
  /\ \A obj \in Objects, depth \in -1 .. MaxDepth + 1 :
        ToValueAt(obj, depth).ok => ToValueAt(obj, depth).val \in CoreValues
  /\ \A value \in CoreValues :
        FromValue(value).ok => FromValue(value).val \in Objects

----------------------------------------------------------------------------
(* Keys.  A core key is [ns, set, user, digest]; a 20-byte bytes object is *)
(* <<"digest", d>>.                                                        *)

\* RIPEMD-160 over the set, the particle type and the serialized user key.
Hash(set, particle, payload) == <<"hash", set, particle, payload>>

\* Key::new of aerospike-core, the key kinds it hashes.
KeyNew(ns, set, user) ==
  IF user[1] \in {"Int", "String", "Blob"}
  THEN Done([ns |-> ns, set |-> set, user |-> user,
             digest |-> Hash(set, user[1], user[2])])
  ELSE Failed("ValueError")

\* extract::<u8>
ToByte(obj) ==
  IF obj[1] # "int" THEN Failed("TypeError")
  ELSE IF obj[2] \notin 0 .. 255 THEN Failed("OverflowError")
  ELSE Done(obj[2])

\* extract_explicit_digest: nothing, or a 20-byte digest, which may be given as
\* any sequence of bytes.
ExplicitDigest(items) ==
  IF Len(items) < 4 \/ items[4][1] = "none" THEN Done(<<"absent">>)
  ELSE IF items[4][1] = "digest" THEN Done(<<"present", items[4][2]>>)
  ELSE IF items[4][1] \in {"bytes", "bytearray"} THEN Failed("ValueError")
  ELSE IF items[4][1] \in {"list", "tuple"}
  THEN Then(Collected([i \in DOMAIN items[4][2] |-> ToByte(items[4][2][i])]),
            LAMBDA bytes : IF Len(bytes) # 20 THEN Failed("ValueError")
                           ELSE Done(<<"present", bytes>>))
  ELSE Failed("TypeError")

\* What both key parsers check first: the namespace, the set, the user key
\* object and the explicit digest.
KeyParts(raw) ==
  LET items == raw[2]
      IsStr(i) == items[i][1] = "str"
  IN IF raw[1] # "tuple" THEN Failed("TypeError")
     ELSE IF Len(items) \notin {3, 4} THEN Failed("ValueError")
     ELSE IF ~IsStr(1) \/ ~IsStr(2) THEN Failed("TypeError")
     ELSE Then(ExplicitDigest(items), LAMBDA digest :
            Done([ns |-> items[1][2], set |-> items[2][2],
                  user |-> items[3], digest |-> digest]))

\* Bytes keys are hashed as strings, as the C client does.
BytesDigest(set, payload) == Hash(set, "String", payload)

Given(parts) == parts.digest[1] = "present"
CoreKey(parts, user, digest) ==
  [ns |-> parts.ns, set |-> parts.set, user |-> user, digest |-> digest]

\* py_to_key.  A user key beside an explicit digest is kept unhashed.
ToKey(raw) ==
  Then(KeyParts(raw), LAMBDA parts :
    IF parts.user[1] = "bytes"
    THEN Done(CoreKey(parts, <<"Blob", parts.user[2]>>,
                      IF Given(parts) THEN parts.digest[2]
                      ELSE BytesDigest(parts.set, parts.user[2])))
    ELSE Then(ToValue(parts.user), LAMBDA user :
           IF Given(parts) THEN Done(CoreKey(parts, user, parts.digest[2]))
           ELSE KeyNew(parts.ns, parts.set, user)))

\* py_to_pending_key
ToPendingKey(raw) ==
  Then(KeyParts(raw), LAMBDA parts :
    LET digest == IF Given(parts) THEN parts.digest[2] ELSE <<>>
        Pending(kind, user) ==
          Done(<<IF Given(parts) THEN "Ready" ELSE kind,
                 CoreKey(parts, user, digest)>>)
    IN IF parts.user[1] = "bytes"
       THEN Pending("HashBytes", <<"Blob", parts.user[2]>>)
       ELSE Then(ToValue(parts.user), LAMBDA user : Pending("Hash", user)))

\* Mutant: the digest pass hashes bytes as the blobs they are.
HashPendingByType(p) ==
  LET key == p[2]
  IN IF p[1] = "Ready" THEN Done(key)
     ELSE IF p[1] = "HashBytes"
     THEN Done([key EXCEPT !.digest = Hash(key.set, "Blob", key.user[2])])
     ELSE KeyNew(key.ns, key.set, key.user)

\* The digest pass of py_to_keys.
HashPending(p) ==
  LET key == p[2]
  IN IF p[1] = "Ready" THEN Done(key)
     ELSE IF p[1] = "HashBytes"
     THEN Done([key EXCEPT !.digest = BytesDigest(key.set, key.user[2])])
     ELSE KeyNew(key.ns, key.set, key.user)

\* py_to_keys: all are parsed before the first is hashed.
ToKeys(raws) ==
  Then(Collected([i \in DOMAIN raws |-> ToPendingKey(raws[i])]),
       LAMBDA ps : Collected([i \in DOMAIN ps |-> HashPending(ps[i])]))

\* key_to_py
KeyToPy(key) ==
  Then(FromValue(key.user), LAMBDA user :
    Done(<<"tuple", <<<<"str", key.ns>>, <<"str", key.set>>, user,
                      <<"digest", key.digest>>>>>>))

----------------------------------------------------------------------------
(* Bins *)

\* py_dict_to_bins
ToBins(pairs) ==
  LET Bin(p) ==
        IF p[1][1] # "str" THEN Failed("TypeError")
        ELSE IF Len(p[1][2]) \notin 1 .. MaxBinName
             THEN Failed("ValueError")
             ELSE Then(ToValue(p[2]), LAMBDA v : Done(<<p[1][2], v>>))
  IN Collected([i \in DOMAIN pairs |-> Bin(pairs[i])])

=============================================================================
