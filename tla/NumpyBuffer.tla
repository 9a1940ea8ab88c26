----------------------------- MODULE NumpyBuffer -----------------------------
(***************************************************************************)
(* rust/src/numpy_support.rs: to_numpy() writes the bins of a batch into   *)
(* the raw buffer of a structured array (batch_to_numpy_py), and           *)
(* batch_write_numpy() reads records back out of such a buffer, or of a    *)
(* strided or reversed view of it, by a dtype that is an argument of its   *)
(* own (numpy_to_records).                                                 *)
(*                                                                         *)
(* A byte has ByteBits bits, so that 8 bytes stay within TLC's integers.   *)
(* The bytes of a number are opaque, but tell which number they encode, in *)
(* which kind and size; those of a byte string are themselves. A float is  *)
(* a number of halves, so that some floats are not integers. Names are     *)
(* text of one byte per character.                                         *)
(***************************************************************************)
EXTENDS Integers, Sequences, FiniteSets, SequencesExt

CONSTANTS ByteBits,   \* bits of a byte (8 in the code)
          F16Max,     \* largest finite float16, in halves ...
          F32Max,     \* ... and float32
          Layouts,    \* dtypes: [fields, stride]
          Calls,      \* the dtype of an array and the `_dtype` it is written with
          Strays,     \* what memory outside of the array may hold
          NotUtf8,    \* bytes that are no part of a UTF-8 text
          Batches,    \* responses: sequences of [code, body, bins]
          Views,      \* views of the array: [start, step, len]
          KeyField    \* the key_field argument of batch_write_numpy

\* A field as parse_dtype_fields reads it off a dtype, a view of the array, and
\* a Value of the core library; `x` is "inf" or "nan" for floats that are.
DtypeField == [name : STRING, kind : STRING, order : STRING, itemsize : Nat, base : Nat,
               offset : Nat, hidden : BOOLEAN]
View == [start : Int, step : Int, len : Nat]
Value == {val \in [t : {"int", "bool", "float", "blob", "string", "nil", "list"},
                   v : Int, x : {"finite", "inf", "nan"}, bytes : Seq(Nat)] :
             val.t # "float" => val.x = "finite"}

\* NumPy has one field per name.
ASSUME NumpyAssumption ==
    /\ ByteBits \in Nat \ {0}
    /\ \A l \in Layouts :
          /\ l.stride \in Nat /\ l.fields \in Seq(DtypeField)
          /\ \A f, g \in Range(l.fields) : f.name = g.name => f = g
    /\ Calls \subseteq Layouts \X Layouts
    /\ \A b \in Batches :
          /\ Len(b) \in Nat /\ DOMAIN b = 1..Len(b)
          /\ \A i \in DOMAIN b :
                /\ b[i].code \in Int /\ b[i].body \in BOOLEAN
                /\ \A n \in DOMAIN b[i].bins : b[i].bins[n] \in Value
    /\ Views \subseteq View

VARIABLES layout, batch, view,
          dtype,   \* the `_dtype` argument of batch_write_numpy
          buffer,  \* data array: the byte at each address
          row,     \* rows done in this phase
          phase,   \* "dtype", "fill", "read", "done", "raised" or "crashed"
          records  \* what numpy_to_records has read so far

vars == <<layout, batch, view, dtype, buffer, row, phase, records>>

VInt(v) == [t |-> "int", v |-> v, x |-> "finite", bytes |-> <<>>]
VBool(v) == [t |-> "bool", v |-> v, x |-> "finite", bytes |-> <<>>]
VFloat(v, x) == [t |-> "float", v |-> v, x |-> x, bytes |-> <<>>]
VBlob(b) == [t |-> "blob", v |-> 0, x |-> "finite", bytes |-> b]
VString(b) == [t |-> "string", v |-> 0, x |-> "finite", bytes |-> b]
Nil == [t |-> "nil", v |-> 0, x |-> "finite", bytes |-> <<>>]
List == [t |-> "list", v |-> 0, x |-> "finite", bytes |-> <<>>]

\* A byte of the buffer: part i of the encoding of a number, or a plain byte.
Raw(b) == [k |-> "raw", s |-> 1, v |-> b, x |-> "finite", i |-> 1]
Zero == Raw(0)

Encode(k, s, v, x) ==
    [i \in 1..s |-> IF v = 0 /\ x = "finite" THEN Zero
                    ELSE [k |-> k, s |-> s, v |-> v, x |-> x, i |-> i]]

Bits(s) == ByteBits * s
Numeric(f) == f.kind \in {"i", "u", "f"}
SubArray(f) == Numeric(f) /\ f.itemsize > f.base
Opaque(f) == ~Numeric(f) \/ SubArray(f)

\* A sub-array of length zero has no bytes of its own, but is not a SubArray: the
\* code writes and reads it as the one number it has no room for.
NoElements(f) == Numeric(f) /\ f.itemsize < f.base

\* How many bytes are accessed at the field's offset.
Reach(f) == IF NoElements(f) THEN f.base ELSE f.itemsize

-----------------------------------------------------------------------------
(* dtype *)

\* Mutant: the bounds check looks at the base element only.
FieldFitsByBase(f, stride) ==
    /\ f.kind \in {"i", "u", "f", "S", "V"}
    /\ f.order \in {"native", "n/a"}
    /\ f.offset + f.base <= stride

\* parse_dtype_fields, check_native_byteorder
FieldAccepted(f, stride) ==
    /\ f.kind \in {"i", "u", "f", "S", "V"}
    /\ f.order \in {"native", "n/a"}
    /\ f.offset + f.itemsize <= stride

-----------------------------------------------------------------------------
(* Value -> buffer: the bytes put at the field's offset, or the exception.   *)

Wrote(cell) == [raises |-> "none", cell |-> cell]
Raises(e) == [raises |-> e, cell |-> <<>>]

WriteInt(f, v) ==
    IF f.base \notin {1, 2, 4, 8} THEN Raises("TypeError")
    ELSE IF v < -(2 ^ (Bits(f.base) - 1)) \/ v > 2 ^ (Bits(f.base) - 1) - 1
    THEN Raises("OverflowError")
    ELSE Wrote(Encode("i", f.base, v, "finite"))

WriteUint(f, v) ==
    IF f.base \notin {1, 2, 4, 8} THEN Raises("TypeError")
    ELSE IF v > 2 ^ Bits(f.base) - 1 THEN Raises("OverflowError")
    ELSE Wrote(Encode("u", f.base, v, "finite"))

\* Bits of the significand of a float of s bytes: 11, 24 and 53 of 16, 32, 64.
Significand(s) ==
    ((CASE s = 2 -> 11 [] s = 4 -> 24 [] s = 8 -> 53) * ByteBits) \div 8

\* h rounded to a significand of that many bits (to the nearest, ties away).
Nearest(h, bits) ==
    LET abs == IF h < 0 THEN -h ELSE h
        gap == 2 ^ (CHOOSE n \in 0..Bits(8) :
                       abs < 2 ^ (bits + n) /\ (n > 0 => abs >= 2 ^ (bits + n - 1)))
        near == ((abs + gap \div 2) \div gap) * gap
    IN IF h < 0 THEN -near ELSE near

\* Too large for a float32 raises, too large for a float16 becomes infinite.
WriteFloat(f, h, x) ==
    LET beyond(m) == x = "finite" /\ (h > m \/ h < -m) IN
    IF f.base \notin {2, 4, 8} THEN Raises("TypeError")
    ELSE IF f.base = 4 /\ beyond(F32Max) THEN Raises("OverflowError")
    ELSE IF f.base = 2 /\ beyond(F16Max)
    THEN Wrote(Encode("f", 2, IF h < 0 THEN -1 ELSE 1, "inf"))
    ELSE Wrote(Encode("f", f.base, IF x = "finite" THEN Nearest(h, Significand(f.base)) ELSE h, x))

\* Mutant: the copy is not clamped to the field.
WriteBytesUnclamped(f, b) == Wrote([i \in 1..Len(b) |-> Raw(b[i])])

\* write_bytes_to_buffer: longer data is cut, the rest of the field is left.
WriteBytes(f, b) ==
    Wrote([i \in 1..(IF Len(b) < f.itemsize THEN Len(b) ELSE f.itemsize) |-> Raw(b[i])])

\* `as i64`: the integer part of a float.
Truncated(h) == IF h < 0 THEN -((-h) \div 2) ELSE h \div 2

\* write_value_to_buffer
WriteValue(f, val) ==
    LET whole == val.t \in {"int", "bool"}
        out(lo, hi) == val.x # "finite" \/ val.v < lo \/ val.v >= hi
        real == val.t = "float"
    IN IF val.t = "nil" THEN Wrote(<<>>)
       ELSE IF whole /\ f.kind = "i" THEN WriteInt(f, val.v)
       ELSE IF whole /\ f.kind = "u"
       THEN IF val.v < 0 THEN Raises("ValueError") ELSE WriteUint(f, val.v)
       ELSE IF whole /\ f.kind = "f" THEN WriteFloat(f, Nearest(2 * val.v, Significand(8)), "finite")
       ELSE IF real /\ f.kind = "f" THEN WriteFloat(f, val.v, val.x)
       ELSE IF real /\ f.kind = "i"
       THEN IF out(-(2 ^ Bits(8)), 2 ^ Bits(8)) THEN Raises("ValueError")
            ELSE WriteInt(f, Truncated(val.v))
       ELSE IF real /\ f.kind = "u"
       THEN IF out(0, 2 * 2 ^ Bits(8)) THEN Raises("ValueError")
            ELSE WriteUint(f, Truncated(val.v))
       ELSE IF (val.t = "blob" /\ Opaque(f)) \/ (val.t = "string" /\ ~Numeric(f))
       THEN WriteBytes(f, val.bytes)
       ELSE Raises("TypeError")

-----------------------------------------------------------------------------
(* buffer -> Value *)

\* A scalar read of `s` bytes as kind `k`. Bytes that do not make up one number
\* of that kind and size are some other number: 7 stands for it.
Decode(k, s, cell) ==
    IF cell = [i \in 1..s |-> Zero] THEN [v |-> 0, x |-> "finite"]
    ELSE IF cell = Encode(k, s, cell[1].v, cell[1].x) THEN [v |-> cell[1].v, x |-> cell[1].x]
    ELSE [v |-> 7, x |-> "finite"]

\* Mutant: a sub-array is read as its first element.
ReadValueScalar(f, buf, at) ==
    LET cell(n) == [i \in 1..n |-> buf[at + f.offset + i - 1]]
        d == Decode(f.kind, f.base, cell(f.base))
    IN [raises |-> "none", val |-> IF ~Numeric(f) THEN VBlob(cell(f.itemsize))
                               ELSE IF f.kind = "f" THEN VFloat(d.v, d.x) ELSE VInt(d.v)]

\* read_value_from_buffer. A sub-array is read as bytes, whole.
ReadValue(f, buf, at) ==
    LET cell(n) == [i \in 1..n |-> buf[at + f.offset + i - 1]]
        d == Decode(f.kind, f.base, cell(f.base))
    IN IF Opaque(f) THEN [raises |-> "none", val |-> VBlob(cell(f.itemsize))]
       ELSE IF f.base \notin (IF f.kind = "f" THEN {2, 4, 8} ELSE {1, 2, 4, 8})
       THEN [raises |-> "TypeError", val |-> Nil]
       ELSE IF f.kind = "u" /\ d.v >= 2 ^ (Bits(8) - 1)
       THEN [raises |-> "OverflowError", val |-> Nil]
       ELSE [raises |-> "none", val |-> IF f.kind = "f" THEN VFloat(d.v, d.x) ELSE VInt(d.v)]

\* Mutant: cut at the first zero byte, as a C string.
TrimmedAtZero(b) ==
    LET zeros == {i \in DOMAIN b : b[i] = Zero} IN
    SubSeq(b, 1, IF zeros = {} THEN Len(b) ELSE (CHOOSE i \in zeros : \A j \in zeros : i <= j) - 1)

\* Trailing zero bytes of a bytes key, a namespace or a set are cut.
Trimmed(b) ==
    LET last == {i \in DOMAIN b : b[i] # Zero} IN
    SubSeq(b, 1, IF last = {} THEN 0 ELSE CHOOSE i \in last : \A j \in last : j <= i)

\* `__array_interface__` has no strides for an array that is contiguous; then the
\* stride is the itemsize of `_dtype`.
Contiguous == view.len <= 1 \/ view.step * layout.stride = layout.stride
RowStride == IF Contiguous THEN dtype.stride ELSE view.step * layout.stride

\* `checked_row_offset`: byte address of row i of a view of the array.
RowAt(i) == view.start * layout.stride + (i - 1) * RowStride + 1

\* Memory as the process sees it, around the array.
Memory(stray) == [a \in Nat |-> IF a \in DOMAIN buffer THEN buffer[a] ELSE stray]

\* The addresses read for field f of a row at address `at`.
Span(f, at) == (at + f.offset)..(at + f.offset + Reach(f) - 1)

Named(n) == {f \in Range(dtype.fields) : f.name = n}

\* from_utf8_lossy: a byte that belongs to no text becomes U+FFFD.
Replacement == Raw(-1)
Text(b) == [i \in DOMAIN b |-> IF b[i] \in NotUtf8 THEN Replacement ELSE b[i]]

\* The argument stands where `_dtype` has no such field, or one of numbers.
NameOf(n, memory, at) ==
    IF \E f \in Named(n) : ReadValue(f, memory, at).val.t = "blob"
    THEN VString(Text(Trimmed(ReadValue(CHOOSE f \in Named(n) : TRUE, memory, at).val.bytes)))
    ELSE Nil

KeyFields == Named(KeyField)
BinFields == {f \in Range(dtype.fields) : f.name # KeyField /\ ~f.hidden}

-----------------------------------------------------------------------------

Init ==
    /\ \E c \in Calls : layout = c[1] /\ dtype = c[2]
    /\ batch \in Batches
    /\ view \in {w \in Views :
           \A j \in 1..w.len : w.start + (j - 1) * w.step \in 0..(Len(batch) - 1)}
    /\ buffer = <<>> /\ row = 0 /\ phase = "dtype" /\ records = <<>>

\* Steps 1-3 of batch_to_numpy_py: the dtype is checked, np.zeros allocates.
ParseDtype ==
    /\ phase = "dtype"
    /\ IF \A f \in Range(layout.fields) : FieldAccepted(f, layout.stride)
          THEN /\ phase' = "fill"
               /\ buffer' = [a \in 1..(Len(batch) * layout.stride) |-> Zero]
          ELSE phase' = "raised" /\ UNCHANGED buffer
    /\ UNCHANGED <<layout, batch, view, dtype, row, records>>

\* The fields the bins of record i go to, if it has any.
Filled(i) ==
    IF batch[i].code = 0 /\ batch[i].body
    THEN {f \in Range(layout.fields) : f.name \in DOMAIN batch[i].bins} ELSE {}

\* What the bin for field f of record i makes, and the byte at address a once
\* the bins have been written in that order: a later one covers an earlier one.
Out(i, f) == WriteValue(f, batch[i].bins[f.name])
Put(i, order, a) ==
    LET at(f) == (i - 1) * layout.stride + f.offset
        over == {n \in DOMAIN order : a - at(order[n]) \in DOMAIN Out(i, order[n]).cell}
        f == order[CHOOSE n \in over : \A m \in over : m <= n]
    IN IF over = {} THEN buffer[a] ELSE Out(i, f).cell[a - at(f)]

\* A byte of an accepted cell for record i would leave the array.
Spills(i) ==
    \E f \in Filled(i) :
        /\ Out(i, f).raises = "none"
        /\ \E a \in DOMAIN Out(i, f).cell : (i - 1) * layout.stride + f.offset + a > Len(buffer)

\* One row of the loop under py.detach; the bins come in any order. Bytes that are
\* written past the end of the array may crash the process or seem to be lost.
FillRow ==
    /\ phase = "fill" /\ row < Len(batch)
    /\ LET i == row + 1
       IN \/ /\ \E f \in Filled(i) : Out(i, f).raises # "none"
             /\ phase' = "raised" /\ UNCHANGED <<buffer, row>>
          \/ /\ Spills(i)
             /\ phase' = "crashed" /\ UNCHANGED <<buffer, row>>
          \/ /\ \A f \in Filled(i) : Out(i, f).raises = "none"
             /\ \E order \in SetToSeqs(Filled(i)) :
                    buffer' = [a \in DOMAIN buffer |-> Put(i, order, a)]
             /\ row' = i
             /\ UNCHANGED phase
    /\ UNCHANGED <<layout, batch, view, dtype, records>>

\* The caller hands the array, or a view of it, to batch_write_numpy. `_dtype` is
\* parsed as it is, and only the stride of an array that is not contiguous is
\* compared with it (one dimension is enough here).
TakeView ==
    /\ phase = "fill" /\ row = Len(batch)
    /\ phase' = IF \/ \E f \in Range(dtype.fields) : ~FieldAccepted(f, dtype.stride)
                   \/ ~Contiguous /\ RowStride # 0 /\ RowStride \in (1 - dtype.stride)..(dtype.stride - 1)
                   \/ KeyFields = {}
                THEN "raised"
                ELSE IF view.len = 0 THEN "done" ELSE "read"
    /\ row' = 0
    /\ UNCHANGED <<layout, batch, view, dtype, buffer, records>>

\* The fields of `_dtype` that are read.
Used == KeyFields \cup Named("_namespace") \cup Named("_set") \cup BinFields

\* One row of numpy_to_records; Key::new takes no float.
RowRead(stray) ==
    LET at == RowAt(row + 1)
        memory == Memory(stray)
        read == [f \in Range(dtype.fields) |-> ReadValue(f, memory, at)]
        key == read[CHOOSE f \in KeyFields : TRUE].val
    IN IF (\E f \in Used : read[f].raises # "none") \/ key.t = "float"
       THEN phase' = "raised" /\ UNCHANGED <<row, records>>
       ELSE /\ records' = Append(records,
                [key |-> IF key.t = "blob" THEN VBlob(Trimmed(key.bytes)) ELSE key,
                 ns |-> NameOf("_namespace", memory, at),
                 set |-> NameOf("_set", memory, at),
                 bins |-> [n \in {f.name : f \in BinFields} |->
                             read[CHOOSE f \in BinFields : f.name = n].val]])
            /\ row' = row + 1
            /\ phase' = IF row' = view.len THEN "done" ELSE phase

\* Memory outside of the array holds anything, or is not there.
ReadRow ==
    /\ phase = "read" /\ row < view.len
    /\ \/ \E stray \in Strays : RowRead(stray)
       \/ /\ \E f \in Used : ~(Span(f, RowAt(row + 1)) \subseteq DOMAIN buffer)
          /\ phase' = "crashed" /\ UNCHANGED <<row, records>>
    /\ UNCHANGED <<layout, batch, view, dtype, buffer>>

Next == ParseDtype \/ FillRow \/ TakeView \/ ReadRow

Spec == Init /\ [][Next]_vars

-----------------------------------------------------------------------------
(* Properties *)

\* What is read back of a value that was accepted: integers keep their value (one
\* that does not fit was refused, where numpy-batch.md:144-145 say "truncated to
\* target size" and "cast to unsigned"), floats up to the precision of the field,
\* byte strings are cut or padded, a number put in a sub-array is its first element.
Kept(f, val) ==
    LET padded(b) == [i \in 1..f.itemsize |-> IF i \in DOMAIN b THEN b[i] ELSE Zero]
        whole == IF val.t = "float" THEN Truncated(val.v) ELSE val.v
        halves == IF val.t = "float" THEN val.v ELSE Nearest(2 * val.v, Significand(8))
        far == f.base = 2 /\ (halves > F16Max \/ halves < -F16Max)
        float == IF val.x # "finite" THEN VFloat(val.v, val.x)
                 ELSE IF far THEN VFloat(IF halves < 0 THEN -1 ELSE 1, "inf")
                 ELSE VFloat(Nearest(halves, Significand(f.base)), "finite")
        number == IF f.kind = "f" THEN float ELSE VInt(whole)
    IN IF val.t \in {"blob", "string"}
       THEN VBlob(padded([i \in DOMAIN val.bytes |-> Raw(val.bytes[i])]))
       ELSE IF val.t = "nil"
       THEN IF Opaque(f) THEN VBlob([i \in 1..f.itemsize |-> Zero])
            ELSE IF f.kind = "f" THEN VFloat(0, "finite") ELSE VInt(0)
       ELSE IF SubArray(f) THEN VBlob(padded(Encode(f.kind, f.base, number.v, number.x)))
       ELSE number

\* The value bin n of record i should be read back as, from field f.
Expected(i, f) ==
    Kept(f, IF f \in Filled(i) THEN batch[i].bins[f.name] ELSE Nil)

\* A dtype may lay fields over each other; this one shares no byte. None of the
\* dtype's fields reaches out of its row.
Apart(f) ==
    \A g \in Range(layout.fields) :
        f = g \/ f.offset + Reach(f) <= g.offset \/ g.offset + Reach(g) <= f.offset
Inside == \A f \in Range(layout.fields) : f.offset + Reach(f) <= layout.stride

\* `_dtype` places its rows where the view has them.
SameRows == view.len <= 1 \/ RowStride = view.step * layout.stride

\* Filling and reading back agree on the address, size and kind of every field
\* that `_dtype` shares with the array: record j of a strided, reversed or repeated
\* view is the record of the batch its index maps to, with every bin as it was
\* stored, and a failed or missing record is all zeros (batch_to_numpy_py against
\* numpy_to_records). The bins are all fields but the key, whatever its name
\* (numpy-batch-write.md:179 says that a key field without `_` is a bin, too).
RoundTrip ==
    SameRows /\ Inside =>
        \A j \in DOMAIN records : \A f \in BinFields \cap Range(layout.fields) : Apart(f) =>
            records[j].bins[f.name] = Expected(view.start + (j - 1) * view.step + 1, f)

\* With the GIL released nothing would notice a write that goes astray: the fill
\* loop touches no byte but those of the fields its bins go to, and these are in
\* the row of the record being written, but for one case. A sub-array of length
\* zero passes the check of parse_dtype_fields, which looks at its size (none),
\* and is written at the size of its element: over the field that follows, into
\* the next row or past the end of the array (write_int_to_buffer and the like,
\* whose SAFETY comments rest on that check).
WritesStayInTheirRow ==
    [][FillRow =>
          /\ \A a \in DOMAIN buffer' : a \in DOMAIN buffer /\ buffer'[a] # buffer[a] =>
                \E f \in Filled(row + 1) :
                    /\ a - row * layout.stride \in (f.offset + 1)..(f.offset + Reach(f))
                    /\ f.offset + Reach(f) <= layout.stride \/ NoElements(f)
          /\ phase' = "crashed" => \E f \in Filled(row + 1) : NoElements(f)]_vars

\* No read of numpy_to_records leaves the array, whatever the view and its stride,
\* provided that the rows of `_dtype` are no larger than the array's. The code does
\* not compare the two: it takes the stride of a contiguous array from `_dtype`, and
\* a larger one reads past the end of the array. So does a zero-length sub-array.
ReadsStayInBuffer ==
    phase = "read" /\ row < view.len /\ dtype.stride <= layout.stride =>
        \A f \in Range(dtype.fields) :
            NoElements(f) \/ Span(f, RowAt(row + 1)) \subseteq DOMAIN buffer

\* Two rows whose keys differ write two records: trimming loses nothing of a
\* bytes key that to_numpy() put there (fixed bytes hold no trailing zeros).
KeysStayDistinct ==
    SameRows /\ Inside =>
        \A i, j \in DOMAIN records : \A f \in KeyFields \cap Range(layout.fields) :
            Apart(f) /\ records[i].key = records[j].key =>
                LET key(k) == Expected(view.start + (k - 1) * view.step + 1, f)
                IN key(i) = key(j)
=============================================================================
