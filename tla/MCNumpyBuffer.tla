--------------------------- MODULE MCNumpyBuffer ---------------------------
(* dtypes, responses and views for NumpyBuffer, with bytes of two bits.      *)
EXTENDS NumpyBuffer

MCViews == {[start |-> 0, step |-> 1, len |-> 2], [start |-> 0, step |-> 2, len |-> 2],
            [start |-> 2, step |-> -1, len |-> 3], [start |-> 1, step |-> 0, len |-> 2],
            [start |-> 0, step |-> 1, len |-> 3]}

Field(name, kind, order, itemsize, base, offset) ==
    [name |-> name, kind |-> kind, order |-> order, itemsize |-> itemsize,
     base |-> base, offset |-> offset, hidden |-> name \in {"_namespace", "_set"}]

Of(fields, stride) == [fields |-> fields, stride |-> stride]
Same(ls) == {<<l, l>> : l \in ls}

key == Field("k", "S", "n/a", 3, 3, 0)

\* A bytes key, a small int, a small float, a gap and a padded row.
Padded == Of(<<key, Field("a", "i", "n/a", 1, 1, 3), Field("b", "f", "native", 2, 2, 5)>>, 8)

\* Two bins over the same bytes.
Shared == Of(<<key, Field("a", "V", "n/a", 2, 2, 3), Field("b", "u", "native", 2, 2, 3)>>, 5)

\* The first fields of Padded, and another one at the end of the row.
Other(stride) == Of(<<key, Field("a", "i", "n/a", 1, 1, 3),
                      Field("z", "u", "n/a", 1, 1, stride - 1)>>, stride)
Strides == {5, 8, 10, 16}

\* A zero-length sub-array in the middle of its row, over another field, and at the
\* end of it, over the next row, there over a key.
Within == Of(<<key, Field("a", "i", "n/a", 0, 1, 3), Field("b", "u", "n/a", 1, 1, 3)>>, 4)
Beyond == Of(<<key, Field("a", "i", "n/a", 0, 1, 3)>>, 3)
OverKey == Of(<<Field("k", "u", "n/a", 1, 1, 0), Field("b", "u", "n/a", 0, 1, 1)>>, 1)

Accepted == {
    Padded, Shared, Within, Beyond, OverKey,
    \* an integer key, a namespace, a sub-array at the very end of the row
    Of(<<Field("k", "u", "n/a", 1, 1, 0), Field("_namespace", "S", "n/a", 1, 1, 1),
         Field("b", "i", "n/a", 2, 1, 2)>>, 4),
    \* a wide unsigned bin, a float32 and raw bytes
    Of(<<key, Field("a", "u", "native", 8, 8, 3), Field("b", "f", "native", 4, 4, 11),
         Field("_set", "u", "n/a", 1, 1, 15)>>, 16),
    \* a float key, which no record has
    Of(<<Field("k", "f", "native", 2, 2, 0), Field("a", "i", "n/a", 1, 1, 2)>>, 3),
    \* no key field
    Of(<<Field("a", "i", "n/a", 1, 1, 0)>>, 1)}

\* Refused: byte order, kind, a sub-array whose tail leaves the row.
Refused == {
    Of(<<key, Field("a", "i", "swapped", 2, 2, 3)>>, 5),
    Of(<<key, Field("a", "U", "native", 4, 4, 3)>>, 7),
    Of(<<key, Field("a", "i", "n/a", 3, 1, 3)>>, 5)}

MCLayouts == Accepted \cup Refused \cup {Other(n) : n \in Strides}
MCCalls ==
    Same(Accepted \cup Refused) \cup {<<Padded, Other(n)>> : n \in Strides}
    \cup {<<Padded, Of(<<key, Field("a", "i", "swapped", 2, 2, 3)>>, 5)>>}
MCStrays == {Zero, Raw(2)}
MCNotUtf8 == {Raw(3)}

Row(bins) == [code |-> 0, body |-> TRUE, bins |-> bins]
NoBins == [n \in {} |-> Nil]
A(v) == [n \in {"k", "a", "z"} |-> IF n = "k" THEN VBlob(<<1, 0, 2>>) ELSE v]
B(v, w) == [n \in {"k", "b", "_namespace"} |-> IF n = "k" THEN VInt(1) ELSE IF n = "b" THEN v ELSE VString(w)]
C(v) == [n \in {"k", "b"} |-> IF n = "k" THEN VBlob(<<1>>) ELSE v]
AB(v, w) == [n \in {"a", "b"} |-> IF n = "a" THEN v ELSE w]

MCRows ==
    {[code |-> 2, body |-> FALSE, bins |-> NoBins], [code |-> 0, body |-> FALSE, bins |-> NoBins]}
    \cup {Row(A(v)) : v \in {VInt(1), VInt(2), VInt(40000), VInt(-1), VBool(1), VFloat(-3, "finite"), VFloat(0, "nan"),
                            VBlob(<<1, 2, 3>>), Nil, List}}
    \cup {Row(B(v, w)) : v \in {VBlob(<<1, 2, 3>>), VBlob(<<3>>), VInt(1)}, w \in {<<1>>, <<3>>}}
    \cup {Row(C(v)) : v \in {VFloat(5, "finite"), VFloat(7, "finite"), VFloat(100, "finite"),
                            VFloat(1, "inf"), VInt(-7), VString(<<2>>)}}
    \cup {Row(AB(VInt(1), VFloat(3, "finite"))), Row(AB(VBlob(<<2, 1>>), VInt(3)))}

MCBatches == {<<r, [code |-> 2, body |-> FALSE, bins |-> NoBins], q>> :
                 r \in MCRows, q \in {x \in MCRows : x.bins = NoBins \/ "k" \in DOMAIN x.bins}}
MCKeyField == "k"
=============================================================================
