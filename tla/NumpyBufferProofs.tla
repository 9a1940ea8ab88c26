---------------------------- MODULE NumpyBufferProofs ----------------------------
(***************************************************************************)
(* What to_numpy() writes is what batch_write_numpy() reads, for any two   *)
(* dtypes, any response and any view of the array, in every field that     *)
(* both dtypes have and that shares no byte.  The argument is about        *)
(* addresses first (a field that has elements lies in its row, the rows do *)
(* not meet) and about one cell second: the bytes written for a value are  *)
(* read back as that value.                                                *)
(***************************************************************************)
EXTENDS NumpyBuffer, FiniteSetTheorems, WellFoundedInduction, TLAPS

\* Address of the byte before a field of row i, and the byte a cell leaves at
\* place a of a zeroed field.
At(i, f) == (i - 1) * layout.stride + f.offset
Byte(cell, a) == IF a \in DOMAIN cell THEN cell[a] ELSE Zero
Padded(f, cell) == [a \in 1..Reach(f) |-> Byte(cell, a)]

\* Rows of the array the fill loop is done with, once there is an array.
Done == IF phase = "fill" THEN row ELSE Len(batch)

\* The record of the batch that row j of the view stands for.
Source(j) == view.start + (j - 1) * view.step + 1

-------------------------------------------------------------------------------
(* The inductive invariant *)

Inputs ==
  /\ layout \in Layouts /\ dtype \in Layouts /\ batch \in Batches /\ view \in Views
  /\ \A j \in 1..view.len : Source(j) \in 1..Len(batch)
  /\ row \in Nat /\ (phase = "dtype" => row = 0)

\* The array is as large as its rows, and both dtypes were checked.
Allocated ==
  phase \in {"fill", "read", "done"} =>
    /\ \E S : buffer \in Seq(S)
    /\ Len(buffer) = Len(batch) * layout.stride
    /\ \A f \in Range(layout.fields) : FieldAccepted(f, layout.stride)
    /\ phase = "fill" => row <= Len(batch)
    /\ phase = "read" => \A f \in Range(dtype.fields) : FieldAccepted(f, dtype.stride)

\* A field that shares no byte holds what its bin made, or zeros, if no field of
\* the dtype reaches out of its row.
CellsHold ==
  phase \in {"fill", "read", "done"} =>
    \A i \in 1..Len(batch) : \A f \in Range(layout.fields) :
      /\ i <= Done /\ f \in Filled(i) => Out(i, f).raises = "none"
      /\ Inside /\ Apart(f) => \A a \in 1..Reach(f) :
            buffer[At(i, f) + a] =
              IF i <= Done /\ f \in Filled(i) THEN Byte(Out(i, f).cell, a) ELSE Zero

\* A bytes key loses its trailing zeros.
KeyOf(val) == IF val.t = "blob" THEN VBlob(Trimmed(val.bytes)) ELSE val

\* The values a field can be read as: bytes of its size, or a number.
ReadAs(f, val) ==
  IF Opaque(f) THEN /\ val = VBlob(val.bytes)
                    /\ val.bytes = [a \in 1..f.itemsize |-> val.bytes[a]]
  ELSE val.t # "blob"

\* The records read so far are those of the batch, in the fields they share.
RecordsAre ==
  /\ \E S : records \in Seq(S)
  /\ phase \in {"dtype", "fill"} => records = <<>>
  /\ phase = "read" => Len(records) = row
  /\ Len(records) <= view.len
  /\ \A j \in DOMAIN records : \A f \in Range(layout.fields) : SameRows /\ Inside /\ Apart(f) =>
       /\ f \in BinFields => records[j].bins[f.name] = Expected(Source(j), f)
       /\ f \in KeyFields => /\ records[j].key = KeyOf(Expected(Source(j), f))
                            /\ ReadAs(f, Expected(Source(j), f))

IInv == Inputs /\ Allocated /\ CellsHold /\ RecordsAre

-------------------------------------------------------------------------------
(* Numbers *)

\* A set of positions that is not empty has a greatest element.
LEMMA GreatestExists ==
  ASSUME NEW n \in Nat, NEW S, S \subseteq 1..n, S # {}
  PROVE  \E i \in S : \A j \in S : j <= i
<1> DEFINE T == {k \in Nat : n - k \in S}
           R == {ss \in Nat \X Nat : ss[1] < ss[2]}
<1>1. T # {} /\ T \subseteq Nat
  <2>1. PICK i \in S : TRUE
    OBVIOUS
  <2>2. n - i \in Nat /\ n - (n - i) = i
    BY <2>1
  <2>3. n - i \in T
    BY <2>2
  <2> QED BY <2>3
<1>2. IsWellFoundedOn(R, Nat)
  BY NatLessThanWellFounded DEF OpToRel
<1> HIDE DEF T, R
<1>3. PICK k \in T : \A l \in T : ~(<<l, k>> \in R)
  BY <1>1, <1>2, WFMin
<1>4. n - k \in S
  BY DEF T
<1>5. ASSUME NEW j \in S PROVE j <= n - k
  <2>1. n - j \in Nat /\ n - (n - j) = j
    OBVIOUS
  <2>2. n - j \in T
    BY <2>1 DEF T
  <2>3. <<n - j, k>> \in Nat \X Nat
    BY <1>1, <2>1
  <2>4. ~(<<n - j, k>>[1] < <<n - j, k>>[2])
    BY <1>3, <2>2, <2>3 DEF R
  <2> QED BY <1>1, <2>1, <2>4
<1> QED BY <1>4, <1>5

LEMMA ChosenGreatest ==
  ASSUME NEW n \in Nat, NEW S, S \subseteq 1..n, S # {},
         NEW m, m = CHOOSE i \in S : \A j \in S : j <= i
  PROVE  m \in S /\ \A j \in S : j <= m
BY GreatestExists

\* Rows of s bytes do not meet.
LEMMA RowsApart ==
  ASSUME NEW s \in Nat, NEW q \in Nat, NEW r \in Nat, q < r,
         NEW x \in 1..s, NEW y \in 1..s
  PROVE  q * s + x < r * s + y
<1>1. PICK d \in Nat : r = q + 1 + d
  <2>1. r - q - 1 \in Nat /\ r = q + 1 + (r - q - 1)
    OBVIOUS
  <2> QED BY <2>1
<1>2. r * s = q * s + s + d * s /\ d * s \in Nat /\ q * s \in Nat
  BY <1>1
<1> QED BY <1>2

\* Row i of n rows of s bytes ends in the array.
LEMMA RowsFit ==
  ASSUME NEW s \in Nat, NEW n \in Nat, NEW i \in 1..n
  PROVE  (i - 1) * s \in Nat /\ (i - 1) * s + s <= n * s
<1>1. PICK d \in Nat : n = i + d
  <2>1. n - i \in Nat /\ n = i + (n - i)
    OBVIOUS
  <2> QED BY <2>1
<1>2. n * s = i * s + d * s /\ d * s \in Nat
  BY <1>1
<1>3. i * s = (i - 1) * s + s /\ (i - 1) * s \in Nat
  OBVIOUS
<1> QED BY <1>2, <1>3

\* A field of z bytes in a row of s bytes that lies in an array of n bytes.
LEMMA FieldInArray ==
  ASSUME NEW b \in Nat, NEW s \in Nat, NEW n \in Nat, b + s <= n,
         NEW o \in Nat, NEW z \in Nat, o + z <= s
  PROVE  ((b + 1) + o)..((b + 1) + o + z - 1) \subseteq 1..n
OBVIOUS

-------------------------------------------------------------------------------
(* One cell: what a value becomes, and what is read back *)

FloatSizes == {2, 4, 8}
IntSizes == {1, 2, 4, 8}

\* write_i64, write_u64: a number that is accepted is written as it is.
LEMMA WritesInt ==
  ASSUME NEW f, NEW v, NEW out, out = WriteInt(f, v), out.raises = "none"
  PROVE  f.base \in IntSizes /\ out.cell = Encode("i", f.base, v, "finite")
<1> DEFINE tooBig == v < -(2 ^ (Bits(f.base) - 1)) \/ v > 2 ^ (Bits(f.base) - 1) - 1
<1> HIDE DEF tooBig
<1>1. out = IF f.base \notin {1, 2, 4, 8} THEN Raises("TypeError")
            ELSE IF tooBig THEN Raises("OverflowError")
            ELSE Wrote(Encode("i", f.base, v, "finite"))
  BY DEF WriteInt, tooBig
<1> QED BY <1>1 DEF Raises, Wrote, IntSizes

LEMMA WritesUint ==
  ASSUME NEW f, NEW v, NEW out, out = WriteUint(f, v), out.raises = "none"
  PROVE  f.base \in IntSizes /\ out.cell = Encode("u", f.base, v, "finite")
<1> DEFINE tooBig == v > 2 ^ Bits(f.base) - 1
<1> HIDE DEF tooBig
<1>1. out = IF f.base \notin {1, 2, 4, 8} THEN Raises("TypeError")
            ELSE IF tooBig THEN Raises("OverflowError")
            ELSE Wrote(Encode("u", f.base, v, "finite"))
  BY DEF WriteUint, tooBig
<1> QED BY <1>1 DEF Raises, Wrote, IntSizes

\* write_f16, write_f32, write_f64: a float keeps its value to the precision
\* of the field, or becomes infinite in a float16.
Float(f, h, x) ==
  IF x # "finite" THEN VFloat(h, x)
  ELSE IF f.base = 2 /\ (h > F16Max \/ h < -F16Max)
  THEN VFloat(IF h < 0 THEN -1 ELSE 1, "inf")
  ELSE VFloat(Nearest(h, Significand(f.base)), "finite")

LEMMA WritesFloat ==
  ASSUME NEW f, NEW h, NEW x, NEW out, out = WriteFloat(f, h, x), out.raises = "none",
         NEW num, num = Float(f, h, x)
  PROVE  f.base \in FloatSizes /\ out.cell = Encode("f", f.base, num.v, num.x)
<1> DEFINE far16 == h > F16Max \/ h < -F16Max
           far32 == h > F32Max \/ h < -F32Max
           sign == IF h < 0 THEN -1 ELSE 1
           near == Nearest(h, Significand(f.base))
           kept == IF x = "finite" THEN near ELSE h
<1>1. out = IF f.base \notin {2, 4, 8} THEN Raises("TypeError")
            ELSE IF f.base = 4 /\ x = "finite" /\ far32 THEN Raises("OverflowError")
            ELSE IF f.base = 2 /\ x = "finite" /\ far16 THEN Wrote(Encode("f", 2, sign, "inf"))
            ELSE Wrote(Encode("f", f.base, kept, x))
  BY DEF WriteFloat
<1>2. num = IF x # "finite" THEN VFloat(h, x)
            ELSE IF f.base = 2 /\ far16 THEN VFloat(sign, "inf")
            ELSE VFloat(near, "finite")
  BY DEF Float
<1> HIDE DEF far16, far32, sign, near
<1>3. CASE x # "finite"
  BY <1>1, <1>2, <1>3 DEF VFloat, Wrote, Raises, FloatSizes
<1>4. CASE x = "finite" /\ f.base = 2 /\ far16
  BY <1>1, <1>2, <1>4 DEF VFloat, Wrote, Raises, FloatSizes
<1>5. CASE x = "finite" /\ ~(f.base = 2 /\ far16)
  BY <1>1, <1>2, <1>5 DEF VFloat, Wrote, Raises, FloatSizes
<1> QED BY <1>3, <1>4, <1>5

\* The number a numeric field keeps of a value: what Kept calls `number`.
Number(f, val) ==
  IF f.kind # "f" THEN VInt(IF val.t = "float" THEN Truncated(val.v) ELSE val.v)
  ELSE IF val.t = "float" THEN Float(f, val.v, val.x)
  ELSE Float(f, Nearest(2 * val.v, Significand(8)), "finite")

Sizes(f) == IF f.kind = "f" THEN FloatSizes ELSE IntSizes

IsNumber(val) == val.t \in {"int", "bool", "float"}
IsBytes(val) == val.t \in {"blob", "string"}

\* What an accepted value makes: nothing, bytes cut to the field, or a number.
LEMMA Accepted ==
  ASSUME NEW f, NEW val \in Value,
         NEW out, out = WriteValue(f, val), out.raises = "none",
         NEW num, num = Number(f, val)
  PROVE  \/ val.t = "nil" /\ out.cell = <<>>
         \/ IsBytes(val) /\ Opaque(f) /\ out = WriteBytes(f, val.bytes)
         \/ /\ IsNumber(val) /\ Numeric(f) /\ f.base \in Sizes(f)
            /\ out.cell = Encode(f.kind, f.base, num.v, num.x)
<1> DEFINE far(lo, hi) == val.x # "finite" \/ val.v < lo \/ val.v >= hi
           farInt == far(-(2 ^ Bits(8)), 2 ^ Bits(8))
           farUint == far(0, 2 * 2 ^ Bits(8))
           half == Nearest(2 * val.v, Significand(8))
           whole == val.t \in {"int", "bool"}
<1>1. val.t \in {"int", "bool", "float", "blob", "string", "nil", "list"}
      /\ (val.t # "float" => val.x = "finite")
  BY DEF Value
<1>2. out = IF val.t = "nil" THEN Wrote(<<>>)
            ELSE IF whole /\ f.kind = "i" THEN WriteInt(f, val.v)
            ELSE IF whole /\ f.kind = "u"
            THEN IF val.v < 0 THEN Raises("ValueError") ELSE WriteUint(f, val.v)
            ELSE IF whole /\ f.kind = "f" THEN WriteFloat(f, half, "finite")
            ELSE IF val.t = "float" /\ f.kind = "f" THEN WriteFloat(f, val.v, val.x)
            ELSE IF val.t = "float" /\ f.kind = "i"
            THEN IF farInt THEN Raises("ValueError") ELSE WriteInt(f, Truncated(val.v))
            ELSE IF val.t = "float" /\ f.kind = "u"
            THEN IF farUint THEN Raises("ValueError") ELSE WriteUint(f, Truncated(val.v))
            ELSE IF (val.t = "blob" /\ Opaque(f)) \/ (val.t = "string" /\ ~Numeric(f))
            THEN WriteBytes(f, val.bytes)
            ELSE Raises("TypeError")
  BY DEF WriteValue
<1> HIDE DEF farInt, farUint, half
<1>3. CASE val.t = "nil"
  BY <1>2, <1>3 DEF Wrote
<1>4. CASE whole /\ f.kind = "i"
  <2>1. out = WriteInt(f, val.v)
    BY <1>1, <1>2, <1>4
  <2>2. num.v = val.v /\ num.x = "finite"
    BY <1>4 DEF Number, VInt
  <2> QED BY <1>4, <2>1, <2>2, WritesInt DEF IsNumber, Numeric, Sizes
<1>5. CASE whole /\ f.kind = "u"
  <2>1. out = WriteUint(f, val.v)
    BY <1>1, <1>2, <1>5 DEF Raises
  <2>2. num.v = val.v /\ num.x = "finite"
    BY <1>5 DEF Number, VInt
  <2> QED BY <1>5, <2>1, <2>2, WritesUint DEF IsNumber, Numeric, Sizes
<1>6. CASE whole /\ f.kind = "f"
  <2>1. out = WriteFloat(f, half, "finite")
    BY <1>1, <1>2, <1>6
  <2>2. num = Float(f, half, "finite")
    BY <1>6 DEF Number, half
  <2> QED BY <1>6, <2>1, <2>2, WritesFloat DEF IsNumber, Numeric, Sizes
<1>7. CASE val.t = "float" /\ f.kind = "f"
  <2>1. out = WriteFloat(f, val.v, val.x)
    BY <1>1, <1>2, <1>7
  <2>2. num = Float(f, val.v, val.x)
    BY <1>7 DEF Number
  <2> QED BY <1>7, <2>1, <2>2, WritesFloat DEF IsNumber, Numeric, Sizes
<1>8. CASE val.t = "float" /\ f.kind = "i"
  <2>1. out = WriteInt(f, Truncated(val.v))
    BY <1>1, <1>2, <1>8 DEF Raises
  <2>2. num.v = Truncated(val.v) /\ num.x = "finite"
    BY <1>8 DEF Number, VInt
  <2> QED BY <1>8, <2>1, <2>2, WritesInt DEF IsNumber, Numeric, Sizes
<1>9. CASE val.t = "float" /\ f.kind = "u"
  <2>1. out = WriteUint(f, Truncated(val.v))
    BY <1>1, <1>2, <1>9 DEF Raises
  <2>2. num.v = Truncated(val.v) /\ num.x = "finite"
    BY <1>9 DEF Number, VInt
  <2> QED BY <1>9, <2>1, <2>2, WritesUint DEF IsNumber, Numeric, Sizes
<1>10. CASE val.t \in {"int", "bool", "float"} /\ f.kind \notin {"i", "u", "f"}
  BY <1>1, <1>2, <1>10 DEF Raises
<1>11. CASE val.t \in {"blob", "string", "list"}
  <2>1. out = IF (val.t = "blob" /\ Opaque(f)) \/ (val.t = "string" /\ ~Numeric(f))
              THEN WriteBytes(f, val.bytes)
              ELSE Raises("TypeError")
    BY <1>2, <1>11
  <2>2. (val.t = "blob" /\ Opaque(f)) \/ (val.t = "string" /\ ~Numeric(f))
    BY <2>1 DEF Raises
  <2> QED BY <2>1, <2>2 DEF IsBytes, Opaque
<1> QED BY <1>1, <1>3, <1>4, <1>5, <1>6, <1>7, <1>8, <1>9, <1>10, <1>11

\* How far a field reaches: over its bytes, or over one number.
LEMMA ReachFacts ==
  ASSUME NEW f \in DtypeField
  PROVE  /\ f.base \in Nat /\ f.itemsize \in Nat /\ f.offset \in Nat /\ Reach(f) \in Nat
         /\ Opaque(f) => Reach(f) = f.itemsize /\ ~NoElements(f)
         /\ ~Opaque(f) => Numeric(f) /\ Reach(f) = f.base
         /\ Numeric(f) => f.base <= Reach(f)
         /\ ~NoElements(f) => Reach(f) = f.itemsize
<1>1. f.base \in Nat /\ f.itemsize \in Nat /\ f.offset \in Nat
  BY DEF DtypeField
<1> QED BY <1>1 DEF Reach, NoElements, Opaque, SubArray

\* No cell is longer than its field reaches.
LEMMA CellFits ==
  ASSUME NEW f \in DtypeField, NEW val \in Value,
         NEW out, out = WriteValue(f, val), out.raises = "none"
  PROVE  \E n \in 0..Reach(f) : DOMAIN out.cell = 1..n
<1> DEFINE num == Number(f, val)
<1> HIDE DEF num
<1>1. f.itemsize \in Nat /\ Reach(f) \in Nat
  BY ReachFacts
<1>2. \/ out.cell = <<>>
      \/ Opaque(f) /\ out = WriteBytes(f, val.bytes)
      \/ Numeric(f) /\ out.cell = Encode(f.kind, f.base, num.v, num.x)
  BY Accepted DEF num
<1>3. CASE out.cell = <<>>
  <2>1. DOMAIN out.cell = 1..0
    BY <1>3
  <2> QED BY <1>1, <2>1
<1>4. CASE Opaque(f) /\ out = WriteBytes(f, val.bytes)
  <2> DEFINE n == IF Len(val.bytes) < f.itemsize THEN Len(val.bytes) ELSE f.itemsize
  <2>1. out.cell = [i \in 1..n |-> Raw(val.bytes[i])]
    BY <1>4 DEF WriteBytes, Wrote
  <2>2. val.bytes \in Seq(Nat)
    BY DEF Value
  <2>3. n \in 0..f.itemsize
    BY <1>1, <2>2
  <2>4. Reach(f) = f.itemsize
    BY <1>4, ReachFacts
  <2> HIDE DEF n
  <2> QED BY <2>1, <2>3, <2>4
<1>5. CASE Numeric(f) /\ out.cell = Encode(f.kind, f.base, num.v, num.x)
  <2>1. DOMAIN out.cell = 1..f.base
    BY <1>5 DEF Encode
  <2>2. f.base \in 0..Reach(f)
    BY <1>5, ReachFacts
  <2> QED BY <2>1, <2>2
<1> QED BY <1>2, <1>3, <1>4, <1>5

\* A scalar is read back from the bytes it makes.
LEMMA DecodeEncode ==
  ASSUME NEW k, k # "raw", NEW s \in Nat \ {0}, NEW v, NEW x,
         NEW cell, cell = Encode(k, s, v, x)
  PROVE  Decode(k, s, cell) = [v |-> v, x |-> x]
<1>1. CASE v = 0 /\ x = "finite"
  <2>1. cell = [i \in 1..s |-> Zero]
    BY <1>1 DEF Encode
  <2> QED BY <1>1, <2>1 DEF Decode
<1>2. CASE ~(v = 0 /\ x = "finite")
  <2>1. cell = [i \in 1..s |-> [k |-> k, s |-> s, v |-> v, x |-> x, i |-> i]]
    BY <1>2 DEF Encode
  <2>2. cell[1] = [k |-> k, s |-> s, v |-> v, x |-> x, i |-> 1]
    BY <2>1
  <2>3. cell[1].k = k /\ cell[1].v = v /\ cell[1].x = x
    BY <2>2
  <2>4. Zero.k = "raw"
    BY DEF Zero, Raw
  <2>5. cell # [i \in 1..s |-> Zero]
    <3>1. [i \in 1..s |-> Zero][1] = Zero
      OBVIOUS
    <3> QED BY <2>3, <2>4, <3>1
  <2> QED BY <2>3, <2>5 DEF Decode
<1> QED BY <1>1, <1>2

LEMMA DecodeZeros ==
  ASSUME NEW k, NEW s
  PROVE  Decode(k, s, [i \in 1..s |-> Zero]) = [v |-> 0, x |-> "finite"]
BY DEF Decode

\* The bytes of a field, and what is read from them when nothing is raised.
Cell(f, buf, at, n) == [i \in 1..n |-> buf[at + f.offset + i - 1]]

LEMMA ReadScalar ==
  ASSUME NEW f, NEW buf, NEW at, ~Opaque(f),
         NEW got, got = ReadValue(f, buf, at), got.raises = "none",
         NEW d, d = Decode(f.kind, f.base, Cell(f, buf, at, f.base))
  PROVE  f.base \in Sizes(f)
         /\ got.val = IF f.kind = "f" THEN VFloat(d.v, d.x) ELSE VInt(d.v)
<1> DEFINE tooBig == f.kind = "u" /\ d.v >= 2 ^ (Bits(8) - 1)
<1>1. got = IF f.base \notin (IF f.kind = "f" THEN {2, 4, 8} ELSE {1, 2, 4, 8})
            THEN [raises |-> "TypeError", val |-> Nil]
            ELSE IF tooBig THEN [raises |-> "OverflowError", val |-> Nil]
            ELSE [raises |-> "none", val |-> IF f.kind = "f" THEN VFloat(d.v, d.x) ELSE VInt(d.v)]
  BY DEF ReadValue, Cell
<1> HIDE DEF tooBig
<1> QED BY <1>1 DEF Sizes, FloatSizes, IntSizes

LEMMA ReadOpaque ==
  ASSUME NEW f, NEW buf, NEW at, Opaque(f)
  PROVE  ReadValue(f, buf, at)
           = [raises |-> "none", val |-> VBlob(Cell(f, buf, at, f.itemsize))]
BY DEF ReadValue, Cell

\* What is kept of a value, in the terms above.
LEMMA KeptNumber ==
  ASSUME NEW f \in DtypeField, NEW val \in Value, IsNumber(val), NEW num, num = Number(f, val)
  PROVE  Kept(f, val) = IF SubArray(f)
                        THEN VBlob(Padded(f, Encode(f.kind, f.base, num.v, num.x)))
                        ELSE num
<1> DEFINE whole == IF val.t = "float" THEN Truncated(val.v) ELSE val.v
           halves == IF val.t = "float" THEN val.v ELSE Nearest(2 * val.v, Significand(8))
           far == f.base = 2 /\ (halves > F16Max \/ halves < -F16Max)
           float == IF val.x # "finite" THEN VFloat(val.v, val.x)
                    ELSE IF far THEN VFloat(IF halves < 0 THEN -1 ELSE 1, "inf")
                    ELSE VFloat(Nearest(halves, Significand(f.base)), "finite")
           number == IF f.kind = "f" THEN float ELSE VInt(whole)
<1>1. val.t \notin {"blob", "string", "nil"} /\ (val.t # "float" => val.x = "finite")
  BY DEF IsNumber, Value
<1>2. num = number
  <2>1. CASE f.kind # "f"
    BY <2>1 DEF Number
  <2>2. CASE f.kind = "f" /\ val.t = "float"
    BY <2>2 DEF Number, Float
  <2>3. CASE f.kind = "f" /\ val.t # "float"
    BY <1>1, <2>3 DEF Number, Float
  <2> QED BY <2>1, <2>2, <2>3
<1>3. Kept(f, val) = IF SubArray(f)
                     THEN VBlob([a \in 1..f.itemsize |->
                            IF a \in DOMAIN Encode(f.kind, f.base, number.v, number.x)
                            THEN Encode(f.kind, f.base, number.v, number.x)[a] ELSE Zero])
                     ELSE number
  BY <1>1 DEF Kept
<1>4. SubArray(f) => Reach(f) = f.itemsize
  BY ReachFacts DEF Opaque
<1> HIDE DEF number
<1> QED BY <1>2, <1>3, <1>4 DEF Padded, Byte

LEMMA KeptBytes ==
  ASSUME NEW f \in DtypeField, Opaque(f), NEW val, IsBytes(val)
  PROVE  Kept(f, val)
           = VBlob(Padded(f, [i \in DOMAIN val.bytes |-> Raw(val.bytes[i])]))
<1>1. val.t \in {"blob", "string"} /\ Reach(f) = f.itemsize
  BY ReachFacts DEF IsBytes
<1> QED BY <1>1 DEF Kept, Padded, Byte

LEMMA KeptNil ==
  ASSUME NEW f, NEW val, val.t = "nil"
  PROVE  Kept(f, val) = IF Opaque(f) THEN VBlob([i \in 1..f.itemsize |-> Zero])
                        ELSE IF f.kind = "f" THEN VFloat(0, "finite") ELSE VInt(0)
<1>1. val.t \notin {"blob", "string"}
  OBVIOUS
<1> QED BY <1>1 DEF Kept

\* Cutting to the field when writing and padding when reading agree.
LEMMA PaddedBytes ==
  ASSUME NEW f \in DtypeField, Opaque(f), NEW b \in Seq(Nat), NEW out, out = WriteBytes(f, b)
  PROVE  Padded(f, out.cell) = Padded(f, [i \in DOMAIN b |-> Raw(b[i])])
<1> DEFINE n == IF Len(b) < f.itemsize THEN Len(b) ELSE f.itemsize
<1>1. out.cell = [i \in 1..n |-> Raw(b[i])]
  BY DEF WriteBytes, Wrote
<1>2. f.itemsize \in Nat /\ Reach(f) = f.itemsize /\ Len(b) \in Nat /\ DOMAIN b = 1..Len(b)
  BY ReachFacts
<1>3. ASSUME NEW a \in 1..Reach(f)
      PROVE  Byte(out.cell, a) = Byte([i \in DOMAIN b |-> Raw(b[i])], a)
  <2>1. a \in 1..n <=> a \in DOMAIN b
    BY <1>2
  <2> HIDE DEF n
  <2> QED BY <1>1, <2>1 DEF Byte
<1> QED BY <1>3 DEF Padded

\* Kinds are letters, so they are none of the tags of plain bytes.
LEMMA NumericKind ==
  ASSUME NEW f, Numeric(f)
  PROVE  f.kind # "raw"
BY DEF Numeric

\* The value that was written to a field is the one that is read from it, up to
\* what Kept says: write_value_to_buffer against read_value_from_buffer.
LEMMA ReadIsKept ==
  ASSUME NEW f \in DtypeField, NEW val \in Value,
         NEW out, out = WriteValue(f, val), out.raises = "none",
         NEW buf, NEW at,
         Cell(f, buf, at, Reach(f)) = Padded(f, out.cell),
         NEW got, got = ReadValue(f, buf, at), got.raises = "none"
  PROVE  got.val = Kept(f, val)
<1> DEFINE num == Number(f, val)
           cell == Cell(f, buf, at, Reach(f))
           d == Decode(f.kind, f.base, Cell(f, buf, at, f.base))
<1>0. Opaque(f) => Reach(f) = f.itemsize
  BY ReachFacts
<1>1. Opaque(f) => got.val = VBlob(cell)
  BY <1>0, ReadOpaque
<1>2. ~Opaque(f) => /\ f.base \in Sizes(f) /\ Numeric(f) /\ f.base = Reach(f)
                    /\ Cell(f, buf, at, f.base) = cell
                    /\ got.val = IF f.kind = "f" THEN VFloat(d.v, d.x) ELSE VInt(d.v)
  <2> HIDE DEF d
  <2> SUFFICES ASSUME ~Opaque(f) PROVE /\ f.base \in Sizes(f) /\ Numeric(f) /\ f.base = Reach(f)
                    /\ Cell(f, buf, at, f.base) = cell
                    /\ got.val = IF f.kind = "f" THEN VFloat(d.v, d.x) ELSE VInt(d.v)
    OBVIOUS
  <2>1. Numeric(f) /\ f.base = Reach(f)
    BY ReachFacts
  <2>2. f.base \in Sizes(f) /\ got.val = IF f.kind = "f" THEN VFloat(d.v, d.x) ELSE VInt(d.v)
    BY ReadScalar DEF d
  <2> QED BY <2>1, <2>2
<1>3. \/ val.t = "nil" /\ out.cell = <<>>
      \/ IsBytes(val) /\ Opaque(f) /\ out = WriteBytes(f, val.bytes)
      \/ /\ IsNumber(val) /\ Numeric(f) /\ f.base \in Sizes(f)
         /\ out.cell = Encode(f.kind, f.base, num.v, num.x)
  BY Accepted
<1>4. CASE val.t = "nil" /\ out.cell = <<>>
  <2>1. cell = [i \in 1..Reach(f) |-> Zero]
    BY <1>4 DEF Padded, Byte
  <2>2. CASE Opaque(f)
    BY <1>0, <1>1, <1>4, <2>1, <2>2, KeptNil
  <2>3. CASE ~Opaque(f)
    <3>1. d = [v |-> 0, x |-> "finite"]
      BY <1>2, <2>1, <2>3, DecodeZeros
    <3>2. d.v = 0 /\ d.x = "finite"
      BY <3>1
    <3> HIDE DEF d
    <3> QED BY <1>2, <1>4, <2>3, <3>2, KeptNil
  <2> QED BY <2>2, <2>3
<1>5. CASE IsBytes(val) /\ Opaque(f) /\ out = WriteBytes(f, val.bytes)
  <2>1. val.bytes \in Seq(Nat)
    BY DEF Value
  <2>2. cell = Padded(f, [i \in DOMAIN val.bytes |-> Raw(val.bytes[i])])
    BY <1>5, <2>1, PaddedBytes
  <2> QED BY <1>1, <1>5, <2>2, KeptBytes
<1>6. CASE /\ IsNumber(val) /\ Numeric(f) /\ f.base \in Sizes(f)
           /\ out.cell = Encode(f.kind, f.base, num.v, num.x)
  <2>1. Kept(f, val) = IF SubArray(f)
                       THEN VBlob(Padded(f, Encode(f.kind, f.base, num.v, num.x)))
                       ELSE num
    BY <1>6, KeptNumber
  <2>2. CASE SubArray(f)
    BY <1>1, <1>6, <2>1, <2>2 DEF Opaque
  <2>3. CASE ~SubArray(f)
    <3>1. ~Opaque(f)
      BY <1>6, <2>3 DEF Opaque
    <3>2. f.base \in Nat \ {0} /\ f.base = Reach(f)
      BY <1>2, <3>1 DEF Sizes, FloatSizes, IntSizes
    <3>3. cell = Encode(f.kind, f.base, num.v, num.x)
      <4>1. DOMAIN out.cell = 1..Reach(f)
        BY <1>6, <3>2 DEF Encode
      <4>2. Padded(f, out.cell) = [a \in 1..Reach(f) |-> out.cell[a]]
        BY <4>1 DEF Padded, Byte
      <4>3. out.cell = [a \in 1..Reach(f) |-> out.cell[a]]
        BY <1>6, <3>2 DEF Encode
      <4> QED BY <1>6, <4>2, <4>3
    <3>4. d = [v |-> num.v, x |-> num.x]
      BY <1>2, <1>6, <3>1, <3>2, <3>3, DecodeEncode, NumericKind
    <3>5. d.v = num.v /\ d.x = num.x
      BY <3>4
    <3>6. num = IF f.kind = "f" THEN VFloat(num.v, num.x) ELSE VInt(num.v)
      <4>1. f.kind = "f" => num = VFloat(num.v, num.x)
        BY DEF Number, Float, VFloat
      <4>2. f.kind # "f" => num = VInt(num.v)
        BY DEF Number, VInt
      <4> QED BY <4>1, <4>2
    <3> HIDE DEF d, num
    <3> QED BY <1>2, <2>1, <2>3, <3>1, <3>5, <3>6
  <2> QED BY <2>2, <2>3
<1> QED BY <1>3, <1>4, <1>5, <1>6

\* Cutting trailing zeros tells bytes of the same length apart.
LEMMA TrimmedIsInjective ==
  ASSUME NEW n \in Nat, NEW b, b = [a \in 1..n |-> b[a]], NEW c, c = [a \in 1..n |-> c[a]],
         Trimmed(b) = Trimmed(c)
  PROVE  b = c
<1> DEFINE NonZero(s) == {a \in DOMAIN s : s[a] # Zero}
           Size(s) == IF NonZero(s) = {} THEN 0
                      ELSE CHOOSE i \in NonZero(s) : \A j \in NonZero(s) : j <= i
<1>1. ASSUME NEW s, s = [a \in 1..n |-> s[a]]
      PROVE  /\ Size(s) \in 0..n
             /\ \A a \in 1..n : a > Size(s) => s[a] = Zero
             /\ Len(Trimmed(s)) = Size(s)
             /\ \A a \in 1..Size(s) : Trimmed(s)[a] = s[a]
  <2>1. DOMAIN s = 1..n /\ NonZero(s) \subseteq 1..n
    BY <1>1
  <2>2. Size(s) \in 0..n /\ \A a \in NonZero(s) : a <= Size(s)
    <3>1. CASE NonZero(s) = {}
      BY <3>1
    <3>2. CASE NonZero(s) # {}
      <4> HIDE DEF NonZero
      <4>1. Size(s) \in NonZero(s) /\ \A a \in NonZero(s) : a <= Size(s)
        BY <2>1, <3>2, ChosenGreatest
      <4> HIDE DEF Size
      <4>2. \A a \in NonZero(s) : a \in 1..n
        BY <2>1
      <4> QED BY <4>1, <4>2
    <3> QED BY <3>1, <3>2
  <2>3. Trimmed(s) = SubSeq(s, 1, Size(s))
    BY DEF Trimmed
  <2>4. s \in Seq({s[a] : a \in 1..n}) /\ Len(s) = n
    <3>1. s \in [1..n -> {s[a] : a \in 1..n}]
      BY <1>1
    <3> QED BY <2>1, <3>1
  <2>5. ASSUME NEW a \in 1..n, a > Size(s) PROVE s[a] = Zero
    <3>1. a \notin NonZero(s)
      BY <2>2, <2>5
    <3> QED BY <2>1, <3>1
  <2> HIDE DEF Size, NonZero
  <2>6. Len(Trimmed(s)) = Size(s) /\ \A a \in 1..Size(s) : Trimmed(s)[a] = s[a]
    BY <2>2, <2>3, <2>4
  <2> QED BY <2>2, <2>5, <2>6
<1> HIDE DEF Size
<1>2. /\ Size(b) \in 0..n /\ Size(b) = Size(c)
      /\ \A a \in 1..n : a > Size(b) => b[a] = Zero /\ c[a] = Zero
  <2>1. Size(b) \in 0..n /\ Len(Trimmed(b)) = Size(b)
        /\ \A a \in 1..n : a > Size(b) => b[a] = Zero
    BY <1>1
  <2>2. Len(Trimmed(c)) = Size(c) /\ \A a \in 1..n : a > Size(c) => c[a] = Zero
    BY <1>1
  <2> QED BY <2>1, <2>2
<1>3. \A a \in 1..Size(b) : Trimmed(b)[a] = b[a]
  BY <1>1
<1>4. \A a \in 1..Size(b) : Trimmed(c)[a] = c[a]
  BY <1>1, <1>2
<1>5. ASSUME NEW a \in 1..n PROVE b[a] = c[a]
  <2>1. CASE a > Size(b)
    BY <1>2, <2>1
  <2>2. CASE ~(a > Size(b))
    <3>1. a \in 1..Size(b)
      BY <1>2, <2>2
    <3> QED BY <1>3, <1>4, <3>1
  <2> QED BY <2>1, <2>2
<1> QED BY <1>5

LEMMA KeyOfIsInjective ==
  ASSUME NEW f, f.itemsize \in Nat, NEW v, ReadAs(f, v), NEW w, ReadAs(f, w),
         KeyOf(v) = KeyOf(w)
  PROVE  v = w
<1>1. CASE Opaque(f)
  <2>1. v.t = "blob" /\ w.t = "blob"
    BY <1>1 DEF ReadAs, VBlob
  <2>2. VBlob(Trimmed(v.bytes)) = VBlob(Trimmed(w.bytes))
    BY <2>1 DEF KeyOf
  <2>3. Trimmed(v.bytes) = Trimmed(w.bytes)
    BY <2>2 DEF VBlob
  <2>4. v.bytes = w.bytes
    BY <1>1, <2>3, TrimmedIsInjective DEF ReadAs
  <2> QED BY <1>1, <2>4 DEF ReadAs
<1>2. CASE ~Opaque(f)
  BY <1>2 DEF ReadAs, KeyOf
<1> QED BY <1>1, <1>2

-------------------------------------------------------------------------------
(* Fields, rows and orders *)

LEMMA DtypeFacts ==
  ASSUME NEW l \in Layouts
  PROVE  /\ l.stride \in Nat
         /\ IsFiniteSet(Range(l.fields))
         /\ \A f \in Range(l.fields) :
              /\ f \in DtypeField
              /\ f.itemsize \in Nat /\ f.offset \in Nat /\ Reach(f) \in Nat
         /\ \A f, g \in Range(l.fields) : f.name = g.name => f = g
<1>1. /\ l.stride \in Nat /\ l.fields \in Seq(DtypeField)
      /\ \A f, g \in Range(l.fields) : f.name = g.name => f = g
  BY NumpyAssumption
<1>2. Range(l.fields) \subseteq DtypeField
  BY <1>1 DEF Range
<1>3. IsFiniteSet(Range(l.fields))
  <2>1. l.fields \in Surjection(1..Len(l.fields), Range(l.fields))
    BY <1>1 DEF Surjection, Range
  <2>2. IsFiniteSet(1..Len(l.fields))
    BY <1>1, FS_Interval
  <2> QED BY <2>1, <2>2, FS_Surjection
<1> QED BY <1>1, <1>2, <1>3, ReachFacts

LEMMA InputFacts ==
  ASSUME Inputs
  PROVE  /\ layout.stride \in Nat /\ Len(batch) \in Nat
         /\ DOMAIN batch = 1..Len(batch)
         /\ IsFiniteSet(Range(layout.fields))
         /\ \A f \in Range(layout.fields) :
              /\ f \in DtypeField
              /\ f.itemsize \in Nat /\ f.offset \in Nat /\ Reach(f) \in Nat
         /\ \A f, g \in Range(layout.fields) : f.name = g.name => f = g
         /\ view.start \in Int /\ view.step \in Int /\ view.len \in Nat
<1>1. Len(batch) \in Nat /\ DOMAIN batch = 1..Len(batch)
  BY NumpyAssumption DEF Inputs
<1>2. view.start \in Int /\ view.step \in Int /\ view.len \in Nat
  <2>1. view \in View
    BY NumpyAssumption DEF Inputs
  <2> QED BY <2>1 DEF View
<1>3. layout \in Layouts
  BY DEF Inputs
<1> QED BY <1>1, <1>2, <1>3, DtypeFacts

\* A bin that goes to a field is a value.
LEMMA FilledFacts ==
  ASSUME Inputs, NEW i \in 1..Len(batch)
  PROVE  /\ Filled(i) \subseteq Range(layout.fields)
         /\ IsFiniteSet(Filled(i))
         /\ \A f \in Filled(i) : batch[i].bins[f.name] \in Value
<1>1. Filled(i) \subseteq Range(layout.fields)
  BY DEF Filled
<1>2. IsFiniteSet(Filled(i))
  BY <1>1, InputFacts, FS_Subset
<1>3. ASSUME NEW f \in Filled(i) PROVE batch[i].bins[f.name] \in Value
  <2>1. f.name \in DOMAIN batch[i].bins
    BY DEF Filled
  <2>2. i \in DOMAIN batch
    BY InputFacts
  <2> QED BY <2>1, <2>2, NumpyAssumption DEF Inputs
<1> QED BY <1>1, <1>2, <1>3

\* An order of the bins goes through all of them.
LEMMA OrderFacts ==
  ASSUME NEW S, IsFiniteSet(S), NEW order \in SetToSeqs(S)
  PROVE  \E n \in Nat : /\ DOMAIN order = 1..n
                        /\ \A k \in 1..n : order[k] \in S
                        /\ \A f \in S : \E k \in 1..n : order[k] = f
<1> DEFINE n == Cardinality(S)
<1>1. n \in Nat
  BY FS_CardinalityType
<1>2. /\ order \in [1..n -> S]
      /\ \A i, j \in 1..n : i # j => order[i] # order[j]
  BY DEF SetToSeqs
<1>3. IsFiniteSet(1..n) /\ Cardinality(1..n) = n
  BY <1>1, FS_Interval
<1> HIDE DEF n
<1>4. order \in Injection(1..n, S)
  BY <1>2 DEF Injection, IsInjective
<1>5. order \in Surjection(1..n, S)
  BY <1>3, <1>4, FS_Injection DEF n
<1>6. \A f \in S : \E k \in 1..n : order[k] = f
  BY <1>5 DEF Surjection
<1> QED BY <1>1, <1>2, <1>6

\* A byte that a row's bins change lies in a field one of them goes to.
LEMMA PutInField ==
  ASSUME Inputs, NEW i \in 1..Len(batch),
         \A f \in Filled(i) : Out(i, f).raises = "none",
         NEW order \in SetToSeqs(Filled(i)), NEW a \in Int
  PROVE  \/ /\ Put(i, order, a) = buffer[a]
            /\ \A f \in Filled(i) : a - At(i, f) \notin DOMAIN Out(i, f).cell
         \/ \E f \in Filled(i) :
              /\ a - At(i, f) \in DOMAIN Out(i, f).cell
              /\ a - At(i, f) \in 1..Reach(f)
              /\ Put(i, order, a) = Out(i, f).cell[a - At(i, f)]
<1> DEFINE over == {n \in DOMAIN order :
                      a - At(i, order[n]) \in DOMAIN Out(i, order[n]).cell}
           last == CHOOSE n \in over : \A m \in over : m <= n
           f == order[last]
<1>1. PICK n \in Nat : /\ DOMAIN order = 1..n
                       /\ \A k \in 1..n : order[k] \in Filled(i)
                       /\ \A g \in Filled(i) : \E k \in 1..n : order[k] = g
  BY FilledFacts, OrderFacts
<1>2. Put(i, order, a) = IF over = {} THEN buffer[a] ELSE Out(i, f).cell[a - At(i, f)]
  BY DEF Put, At
<1>3. CASE over = {}
  BY <1>1, <1>2, <1>3
<1>4. CASE over # {}
  <2>1. over \subseteq 1..n
    BY <1>1
  <2>2. last \in over
    <3> HIDE DEF over
    <3> QED BY <1>4, <2>1, ChosenGreatest
  <2>3. f \in Filled(i) /\ a - At(i, f) \in DOMAIN Out(i, f).cell
    BY <1>1, <2>2
  <2> HIDE DEF f, last, over
  <2>4. /\ f \in DtypeField /\ batch[i].bins[f.name] \in Value /\ Reach(f) \in Nat
    BY <2>3, FilledFacts, InputFacts
  <2>5. PICK m \in 0..Reach(f) : DOMAIN Out(i, f).cell = 1..m
    BY <2>3, <2>4, CellFits DEF Out
  <2>6. a - At(i, f) \in 1..Reach(f)
    BY <2>3, <2>4, <2>5
  <2> QED BY <1>2, <1>4, <2>3, <2>6
<1> QED BY <1>3, <1>4

\* The bytes of a field that does not reach out of its row lie in the array.
LEMMA FieldInRow ==
  ASSUME Inputs, NEW i \in 1..Len(batch), NEW f \in Range(layout.fields),
         f.offset + Reach(f) <= layout.stride, NEW a \in 1..Reach(f)
  PROVE  /\ (i - 1) * layout.stride \in Nat
         /\ f.offset + a \in 1..layout.stride
         /\ At(i, f) + a = (i - 1) * layout.stride + (f.offset + a)
         /\ At(i, f) + a \in 1..(Len(batch) * layout.stride)
<1>1. /\ layout.stride \in Nat /\ Len(batch) \in Nat /\ f.offset \in Nat /\ Reach(f) \in Nat
  BY InputFacts
<1>2. f.offset + Reach(f) <= layout.stride
  OBVIOUS
<1>3. /\ (i - 1) * layout.stride \in Nat
      /\ (i - 1) * layout.stride + layout.stride <= Len(batch) * layout.stride
  BY <1>1, RowsFit
<1> DEFINE base == (i - 1) * layout.stride
           size == Len(batch) * layout.stride
<1>4. size \in Nat /\ base \in Nat /\ base + layout.stride <= size
  BY <1>1, <1>3
<1>5. At(i, f) = base + f.offset
  BY DEF At
<1> HIDE DEF base, size
<1>6. f.offset + a \in 1..layout.stride /\ base + (f.offset + a) \in 1..size
  <2>1. f.offset + a \in Nat /\ 1 <= f.offset + a /\ f.offset + a <= layout.stride
    BY <1>1, <1>2
  <2> QED BY <1>1, <1>4, <2>1
<1>7. At(i, f) + a = base + (f.offset + a)
  BY <1>1, <1>4, <1>5
<1> QED BY <1>4, <1>6, <1>7 DEF base, size

\* Bytes of different rows are different bytes.
LEMMA RowsDoNotMeet ==
  ASSUME NEW s \in Nat, NEW i \in Nat \ {0}, NEW j \in Nat \ {0}, i # j,
         NEW x \in 1..s, NEW y \in 1..s
  PROVE  (i - 1) * s + x # (j - 1) * s + y
<1>1. CASE i < j
  <2>1. (i - 1) * s + x < (j - 1) * s + y
    BY <1>1, RowsApart
  <2>2. (i - 1) * s \in Int /\ (j - 1) * s \in Int
    OBVIOUS
  <2> QED BY <2>1, <2>2
<1>2. CASE j < i
  <2>1. (j - 1) * s + y < (i - 1) * s + x
    BY <1>2, RowsApart
  <2>2. (i - 1) * s \in Int /\ (j - 1) * s \in Int
    OBVIOUS
  <2> QED BY <2>1, <2>2
<1> QED BY <1>1, <1>2

\* In one row, fields that share no byte do not meet.
LEMMA FieldsDoNotMeet ==
  ASSUME NEW A \in Int, NEW b \in Int, NEW of \in Nat, NEW sf \in Nat, NEW og \in Nat,
         NEW sg \in Nat, NEW a \in 1..sf, A = b + (of + a), A - (b + og) \in 1..sg
  PROVE  ~(of + sf <= og \/ og + sg <= of)
<1>1. A - (b + og) = of + a - og
  OBVIOUS
<1>2. of + a - og \in 1..sg
  BY <1>1
<1> QED BY <1>2

\* What FillRow does when no bin raises and the process does not crash.
LEMMA FillStep ==
  ASSUME IInv, FillRow, phase' \notin {"raised", "crashed"}
  PROVE  /\ phase = "fill" /\ phase' = "fill"
         /\ row + 1 \in 1..Len(batch) /\ row' = row + 1
         /\ \A f \in Filled(row + 1) : Out(row + 1, f).raises = "none"
         /\ \E order \in SetToSeqs(Filled(row + 1)) :
              buffer' = [a \in DOMAIN buffer |-> Put(row + 1, order, a)]
<1>1. phase = "fill" /\ row < Len(batch)
  BY DEF FillRow
<1>2. row + 1 \in 1..Len(batch)
  BY <1>1, InputFacts DEF IInv, Inputs
<1>3. \A f \in Filled(row + 1) : Out(row + 1, f).raises = "none"
  BY DEF FillRow
<1>4. /\ \E order \in SetToSeqs(Filled(row + 1)) :
           buffer' = [a \in DOMAIN buffer |-> Put(row + 1, order, a)]
      /\ row' = row + 1 /\ phase' = phase
  BY DEF FillRow
<1> QED BY <1>1, <1>2, <1>3, <1>4

\* The byte of a field that shares none, after its row or another is filled.
LEMMA FilledCell ==
  ASSUME Inputs, CellsHold, phase = "fill", Inside,
         row + 1 \in 1..Len(batch),
         \A g \in Filled(row + 1) : Out(row + 1, g).raises = "none",
         NEW order \in SetToSeqs(Filled(row + 1)),
         NEW i \in 1..Len(batch), NEW f \in Range(layout.fields), Apart(f),
         NEW a \in 1..Reach(f)
  PROVE  Put(row + 1, order, At(i, f) + a)
           = IF i <= row + 1 /\ f \in Filled(i) THEN Byte(Out(i, f).cell, a) ELSE Zero
<1> DEFINE r == row + 1
           A == At(i, f) + a
<1>1. /\ layout.stride \in Nat /\ Len(batch) \in Nat /\ row \in Nat
      /\ \A g \in Range(layout.fields) :
           g.offset \in Nat /\ Reach(g) \in Nat /\ g.offset + Reach(g) <= layout.stride
  BY InputFacts DEF Inputs, Inside
<1>2. /\ (i - 1) * layout.stride \in Nat /\ f.offset + a \in 1..layout.stride
      /\ A = (i - 1) * layout.stride + (f.offset + a)
  BY <1>1, FieldInRow
<1>3. A \in Int
  BY <1>1, <1>2
<1>4. buffer[A] = IF i <= row /\ f \in Filled(i) THEN Byte(Out(i, f).cell, a) ELSE Zero
  BY DEF CellsHold, Done
<1>5. \/ /\ Put(r, order, A) = buffer[A]
         /\ \A g \in Filled(r) : A - At(r, g) \notin DOMAIN Out(r, g).cell
      \/ \E g \in Filled(r) :
           /\ A - At(r, g) \in DOMAIN Out(r, g).cell
           /\ A - At(r, g) \in 1..Reach(g)
           /\ Put(r, order, A) = Out(r, g).cell[A - At(r, g)]
  BY <1>3, PutInField
<1>6. Filled(r) \subseteq Range(layout.fields)
  BY FilledFacts
<1>7. CASE i # r
  <2>1. ASSUME NEW g \in Filled(r), A - At(r, g) \in 1..Reach(g) PROVE FALSE
    <3> DEFINE b == A - At(r, g)
    <3>1. /\ (r - 1) * layout.stride \in Nat /\ g.offset + b \in 1..layout.stride
          /\ At(r, g) + b = (r - 1) * layout.stride + (g.offset + b)
      BY <1>1, <1>6, <2>1, FieldInRow
    <3>2. At(r, g) = (r - 1) * layout.stride + g.offset
      BY DEF At
    <3> DEFINE n == (r - 1) * layout.stride
    <3>3. At(r, g) + b = A
      <4>1. n \in Nat /\ g.offset \in Nat /\ At(r, g) = n + g.offset
        BY <1>1, <1>6, <3>1, <3>2
      <4> HIDE DEF n
      <4>2. At(r, g) \in Int
        BY <4>1
      <4> HIDE DEF A
      <4> QED BY <1>3, <4>2
    <3>4. r \in Nat \ {0} /\ i \in Nat \ {0}
      BY <1>1
    <3> DEFINE x == f.offset + a
               y == g.offset + b
    <3>5. x \in 1..layout.stride /\ y \in 1..layout.stride
      BY <1>2, <3>1
    <3> HIDE DEF A, b, r, x, y
    <3>6. (i - 1) * layout.stride + x # (r - 1) * layout.stride + y
      BY <1>1, <1>7, <3>4, <3>5, RowsDoNotMeet
    <3> QED BY <1>2, <3>1, <3>3, <3>6 DEF x, y
  <2>2. Put(r, order, A) = buffer[A]
    BY <1>5, <2>1
  <2>3. i <= row + 1 <=> i <= row
    BY <1>1, <1>7
  <2> QED BY <1>4, <2>2, <2>3
<1>8. CASE i = r
  <2>1. \A g \in Range(layout.fields) : At(r, g) = (r - 1) * layout.stride + g.offset
    BY DEF At
  <2>2. A - At(r, f) = a
    BY <1>1, <1>2, <1>8, <2>1
  <2>3. ASSUME NEW g \in Filled(r), A - At(r, g) \in 1..Reach(g) PROVE g = f
    <3> DEFINE b == (r - 1) * layout.stride
    <3>1. b \in Nat /\ A = b + (f.offset + a) /\ At(r, g) = b + g.offset
      BY <1>2, <1>6, <1>8, <2>1
    <3>2. f.offset \in Nat /\ g.offset \in Nat /\ Reach(f) \in Nat /\ Reach(g) \in Nat
      BY <1>1, <1>6
    <3>3. A - (b + g.offset) \in 1..Reach(g)
      BY <2>3, <3>1
    <3>4. A \in Int /\ b \in Int
      BY <1>3, <3>1
    <3> HIDE DEF b, A, r
    <3>5. ~(f.offset + Reach(f) <= g.offset \/ g.offset + Reach(g) <= f.offset)
      BY <3>1, <3>2, <3>3, <3>4, FieldsDoNotMeet
    <3> QED BY <1>6, <3>5 DEF Apart
  <2>4. buffer[A] = Zero
    BY <1>1, <1>4, <1>8
  <2>5. CASE f \in Filled(r) /\ a \in DOMAIN Out(r, f).cell
    BY <1>5, <1>8, <1>1, <2>2, <2>3, <2>5 DEF Byte
  <2>6. CASE f \in Filled(r) /\ a \notin DOMAIN Out(r, f).cell
    BY <1>5, <1>8, <1>1, <2>2, <2>3, <2>4, <2>6 DEF Byte
  <2>7. CASE f \notin Filled(r)
    BY <1>5, <1>8, <2>3, <2>4, <2>7
  <2> QED BY <2>5, <2>6, <2>7
<1> QED BY <1>7, <1>8

-------------------------------------------------------------------------------
(* The invariant is inductive *)

LEMMA StartsWell == Init => IInv
<1> SUFFICES ASSUME Init PROVE IInv
  OBVIOUS
<1>1. Inputs
  <2>0. layout \in Layouts /\ dtype \in Layouts
    <3>1. PICK c \in Calls : layout = c[1] /\ dtype = c[2]
      BY DEF Init
    <3> QED BY <3>1, NumpyAssumption
  <2>1. /\ batch \in Batches /\ view \in Views /\ row = 0
        /\ \A j \in 1..view.len : view.start + (j - 1) * view.step \in 0..(Len(batch) - 1)
    BY DEF Init
  <2>2. Len(batch) \in Nat /\ view.start \in Int /\ view.step \in Int /\ view.len \in Nat
    <3>1. view \in View
      BY <2>1, NumpyAssumption
    <3> QED BY <2>1, <3>1, NumpyAssumption DEF View
  <2>3. ASSUME NEW j \in 1..view.len PROVE Source(j) \in 1..Len(batch)
    <3> DEFINE k == view.start + (j - 1) * view.step
    <3>1. k \in 0..(Len(batch) - 1)
      BY <2>1
    <3>2. Source(j) = k + 1
      BY DEF Source
    <3> HIDE DEF k
    <3> QED BY <2>2, <3>1, <3>2
  <2> QED BY <2>0, <2>1, <2>3 DEF Inputs
<1>2. Allocated /\ CellsHold
  BY DEF Init, Allocated, CellsHold
<1>3. RecordsAre
  <2>1. records = <<>> /\ phase = "dtype" /\ row = 0
    BY DEF Init
  <2>2. Len(records) = 0 /\ DOMAIN records = {} /\ records \in Seq({})
    BY <2>1
  <2>3. 0 <= view.len
    BY <1>1, InputFacts
  <2> QED BY <2>1, <2>2, <2>3 DEF RecordsAre
<1> QED BY <1>1, <1>2, <1>3 DEF IInv

\* What the response, the dtypes and the view say does not change.
LEMMA SameInputs ==
  ASSUME Inputs, UNCHANGED <<layout, batch, view, dtype>>, row' \in Nat, phase' # "dtype"
  PROVE  Inputs'
BY DEF Inputs, Source

LEMMA SameRecords ==
  ASSUME RecordsAre, UNCHANGED <<layout, batch, view, dtype, records>>,
         phase' \in {"dtype", "fill"} => phase \in {"dtype", "fill"},
         phase' = "read" => Len(records) = row'
  PROVE  RecordsAre'
<1>1. \A f, i : /\ Apart(f)' = Apart(f) /\ Expected(i, f)' = Expected(i, f)
                /\ Source(i)' = Source(i)
  BY DEF Apart, Expected, Filled, Source
<1>2. /\ KeyFields' = KeyFields /\ BinFields' = BinFields
      /\ SameRows' = SameRows /\ Inside' = Inside
  BY DEF KeyFields, BinFields, Named, SameRows, RowStride, Contiguous, Inside
<1> QED BY <1>1, <1>2 DEF RecordsAre

LEMMA SameCells ==
  ASSUME CellsHold, UNCHANGED <<layout, batch, buffer>>,
         phase' \in {"fill", "read", "done"} => phase \in {"fill", "read", "done"} /\ Done' = Done
  PROVE  CellsHold'
<1>1. \A f, i : /\ Apart(f)' = Apart(f) /\ Filled(i)' = Filled(i)
                /\ Out(i, f)' = Out(i, f) /\ At(i, f)' = At(i, f)
                /\ Inside' = Inside
  BY DEF Apart, Filled, Out, At, Inside
<1> QED BY <1>1 DEF CellsHold

LEMMA ParseDtypeStep ==
  ASSUME IInv, ParseDtype
  PROVE  IInv'
<1>1. /\ UNCHANGED <<layout, batch, view, dtype, row, records>>
      /\ Inputs /\ phase = "dtype" /\ row = 0 /\ row \in Nat /\ records = <<>>
      /\ phase' \in {"fill", "raised"}
  BY DEF ParseDtype, IInv, Inputs, RecordsAre
<1>2. Inputs'
  BY <1>1, SameInputs
<1>3. RecordsAre'
  BY <1>1, SameRecords DEF IInv
<1>4. CASE ~(\A f \in Range(layout.fields) : FieldAccepted(f, layout.stride))
  <2>1. phase' = "raised"
    BY <1>4 DEF ParseDtype
  <2> QED BY <1>2, <1>3, <2>1 DEF IInv, Allocated, CellsHold
<1>5. CASE \A f \in Range(layout.fields) : FieldAccepted(f, layout.stride)
  <2> DEFINE size == Len(batch) * layout.stride
  <2>1. phase' = "fill" /\ buffer' = [a \in 1..size |-> Zero]
    BY <1>5 DEF ParseDtype
  <2>2. size \in Nat /\ layout.stride \in Nat /\ Len(batch) \in Nat
    BY <1>1, InputFacts
  <2>3. Allocated'
    <3>1. buffer' \in Seq({Zero}) /\ Len(buffer') = size
      <4> HIDE DEF size
      <4> QED BY <2>1, <2>2
    <3>2. size' = size /\ row' = 0 /\ 0 <= Len(batch)'
      BY <1>1, <2>2
    <3>3. \A f \in Range(layout'.fields) : FieldAccepted(f, layout'.stride)
      BY <1>1, <1>5
    <3> QED BY <2>1, <3>1, <3>2, <3>3 DEF Allocated
  <2>4. CellsHold'
    <3>1. ASSUME NEW i \in 1..Len(batch), NEW f \in Range(layout.fields), Inside,
                 NEW a \in 1..Reach(f)
          PROVE  buffer'[At(i, f) + a] = Zero
      <4>1. At(i, f) + a \in 1..size
        BY <1>1, <3>1, FieldInRow DEF Inside
      <4> HIDE DEF size
      <4> QED BY <2>1, <2>2, <4>1
    <3>2. Done' = 0 /\ \A i \in 1..Len(batch) : ~(i <= 0)
      BY <1>1, <2>1, <2>2 DEF Done
    <3>3. Inside' = Inside /\ \A f, i : At(i, f)' = At(i, f)
      BY <1>1 DEF At, Inside
    <3> QED BY <1>1, <3>1, <3>2, <3>3 DEF CellsHold
  <2> QED BY <1>2, <1>3, <2>3, <2>4 DEF IInv
<1> QED BY <1>4, <1>5


LEMMA FillRowStep ==
  ASSUME IInv, FillRow
  PROVE  IInv'
<1> USE DEF IInv
<1>1. /\ UNCHANGED <<layout, batch, view, dtype, records>> /\ phase = "fill"
      /\ phase' \in {"fill", "raised", "crashed"} /\ row' \in {row, row + 1} /\ row \in Nat
  BY DEF FillRow, Inputs
<1>2. Inputs'
  BY <1>1, SameInputs
<1>3. RecordsAre'
  BY <1>1, SameRecords
<1>4. CASE phase' \in {"raised", "crashed"}
  BY <1>2, <1>3, <1>4 DEF Allocated, CellsHold
<1>5. CASE phase' \notin {"raised", "crashed"}
  <2> DEFINE r == row + 1
  <2>1. /\ phase' = "fill" /\ r \in 1..Len(batch) /\ row' = r
        /\ \A f \in Filled(r) : Out(r, f).raises = "none"
    BY <1>5, FillStep
  <2>2. PICK order \in SetToSeqs(Filled(r)) :
          buffer' = [a \in DOMAIN buffer |-> Put(r, order, a)]
    BY <1>5, FillStep
  <2>3. /\ Len(buffer) = Len(batch) * layout.stride
        /\ DOMAIN buffer = 1..Len(buffer) /\ Len(buffer) \in Nat
        /\ \A f \in Range(layout.fields) : FieldAccepted(f, layout.stride)
    BY <1>1 DEF Allocated
  <2>4. Allocated'
    <3>1. DOMAIN buffer' = 1..Len(buffer)
      BY <2>2, <2>3
    <3>2. \E S : buffer' \in Seq(S)
      <4>1. buffer' \in [1..Len(buffer) -> {buffer'[a] : a \in 1..Len(buffer)}]
        BY <2>2, <2>3
      <4>2. buffer' \in Seq({buffer'[a] : a \in 1..Len(buffer)})
        BY <2>3, <4>1
      <4> QED BY <4>2
    <3>3. Len(buffer') = Len(buffer)
      BY <2>3, <3>1, <3>2
    <3>4. row' <= Len(batch)
      BY <2>1
    <3> QED BY <1>1, <2>1, <2>3, <3>2, <3>3, <3>4 DEF Allocated
  <2>5. CellsHold'
    <3>1. Done = row /\ Done' = r
      BY <1>1, <2>1 DEF Done
    <3>2. ASSUME NEW i \in 1..Len(batch), NEW f \in Range(layout.fields),
                 i <= r, f \in Filled(i)
          PROVE  Out(i, f).raises = "none"
      <4>1. CASE i = r
        BY <2>1, <3>2, <4>1
      <4>2. CASE i # r
        <5>1. i <= row
          BY <1>1, <3>2, <4>2
        <5> QED BY <1>1, <3>1, <3>2, <5>1 DEF CellsHold
      <4> QED BY <4>1, <4>2
    <3>3. ASSUME NEW i \in 1..Len(batch), NEW f \in Range(layout.fields), Inside, Apart(f),
                 NEW a \in 1..Reach(f)
          PROVE  buffer'[At(i, f) + a]
                   = IF i <= r /\ f \in Filled(i) THEN Byte(Out(i, f).cell, a) ELSE Zero
      <4>1. At(i, f) + a \in DOMAIN buffer
        BY <2>3, <3>3, FieldInRow DEF Inside
      <4>2. Put(r, order, At(i, f) + a)
              = IF i <= r /\ f \in Filled(i) THEN Byte(Out(i, f).cell, a) ELSE Zero
        BY <1>1, <2>1, <3>3, FilledCell
      <4> QED BY <2>2, <4>1, <4>2
    <3>4. \A f, i : /\ Apart(f)' = Apart(f) /\ Filled(i)' = Filled(i)
                    /\ Out(i, f)' = Out(i, f) /\ At(i, f)' = At(i, f)
                    /\ Inside' = Inside
      BY <1>1 DEF Apart, Filled, Out, At, Inside
    <3> HIDE DEF r
    <3> QED BY <1>1, <3>1, <3>2, <3>3, <3>4 DEF CellsHold
  <2> QED BY <1>2, <1>3, <2>4, <2>5
<1> QED BY <1>4, <1>5

LEMMA TakeViewStep ==
  ASSUME IInv, TakeView
  PROVE  IInv'
<1> USE DEF IInv
<1>1. /\ UNCHANGED <<layout, batch, view, dtype, buffer, records>> /\ row' = 0
      /\ phase = "fill" /\ row = Len(batch) /\ phase' \in {"read", "done", "raised"}
      /\ phase' = "read" => \A f \in Range(dtype.fields) : FieldAccepted(f, dtype.stride)
  BY DEF TakeView
<1>2. Inputs'
  BY <1>1, SameInputs
<1>3. RecordsAre'
  <2>1. records = <<>>
    BY <1>1 DEF RecordsAre
  <2> QED BY <1>1, <2>1, SameRecords
<1>4. Allocated'
  BY <1>1 DEF Allocated
<1>5. CellsHold'
  <2>1. Done' = Done
    BY <1>1 DEF Done
  <2> QED BY <1>1, <2>1, SameCells
<1> QED BY <1>2, <1>3, <1>4, <1>5

\* A missing bin leaves the field as it is.
LEMMA WriteNil ==
  ASSUME NEW f
  PROVE  WriteValue(f, Nil) = Wrote(<<>>)
<1>1. Nil.t = "nil"
  BY DEF Nil
<1> QED BY <1>1 DEF WriteValue

\* Where the rows of `_dtype` are the rows of the array.
LEMMA RowIsSource ==
  ASSUME Inputs, SameRows, NEW j \in 1..view.len
  PROVE  /\ (Source(j) - 1) * layout.stride \in Int
         /\ RowAt(j) = (Source(j) - 1) * layout.stride + 1
<1>1. /\ layout.stride \in Nat /\ dtype.stride \in Nat
      /\ view.start \in Int /\ view.step \in Int /\ view.len \in Nat
  BY InputFacts, DtypeFacts DEF Inputs
<1> DEFINE L == layout.stride
           b == view.start
           s == view.step
           R == RowStride
<1>2. RowAt(j) = b * L + (j - 1) * R + 1 /\ Source(j) = b + (j - 1) * s + 1
  BY DEF RowAt, Source
<1>3. R \in Int
  BY <1>1 DEF RowStride
<1>4. j = 1 \/ R = s * L
  BY <1>1 DEF SameRows
<1> HIDE DEF L, b, s, R
<1>5. L \in Int /\ b \in Int /\ s \in Int /\ j \in Int
  BY <1>1 DEF L, b, s
<1>6. (b + (j - 1) * s) * L = b * L + (j - 1) * (s * L)
  BY <1>5
<1>7. (j - 1) * R = (j - 1) * (s * L)
  <2>1. CASE j = 1
    <3>1. (j - 1) * R = 0 /\ (j - 1) * (s * L) = 0
      BY <1>3, <1>5, <2>1
    <3> QED BY <3>1
  <2> QED BY <1>4, <2>1
<1>8. Source(j) - 1 = b + (j - 1) * s
  BY <1>2, <1>5
<1>9. (b + (j - 1) * s) * L \in Int
  BY <1>5
<1> QED BY <1>2, <1>6, <1>7, <1>8, <1>9 DEF L

\* What is read from a field that shares no byte is what is expected of it.
LEMMA ReadIsExpected ==
  ASSUME IInv, phase = "read", SameRows, Inside, NEW j \in 1..view.len,
         NEW f \in Range(layout.fields), Apart(f), NEW stray,
         NEW got, got = ReadValue(f, Memory(stray), RowAt(j)), got.raises = "none"
  PROVE  got.val = Expected(Source(j), f) /\ ReadAs(f, got.val)
<1> DEFINE i == Source(j)
           val == IF f \in Filled(i) THEN batch[i].bins[f.name] ELSE Nil
           out == WriteValue(f, val)
           memory == Memory(stray)
<1>1. /\ Inputs /\ Allocated /\ CellsHold /\ Done = Len(batch)
      /\ i \in 1..Len(batch) /\ i \in Int
  BY DEF IInv, Inputs, Done
<1>2. /\ f \in DtypeField /\ Reach(f) \in Nat /\ f.offset \in Nat
      /\ layout.stride \in Nat /\ Len(batch) \in Nat
  BY <1>1, InputFacts
<1>3. i <= Len(batch) /\ f.offset + Reach(f) <= layout.stride
  BY <1>1, <1>2 DEF Inside
<1>r. (i - 1) * layout.stride \in Int /\ RowAt(j) = (i - 1) * layout.stride + 1
  BY <1>1, RowIsSource
<1> HIDE DEF i, memory
<1>4. val \in Value /\ out.raises = "none"
  <2>1. CASE f \in Filled(i)
    <3>1. val \in Value
      BY <1>1, <2>1, FilledFacts
    <3>2. Out(i, f).raises = "none"
      BY <1>1, <1>3, <2>1 DEF CellsHold
    <3> QED BY <2>1, <3>1, <3>2 DEF Out
  <2>2. CASE f \notin Filled(i)
    <3>1. val = Nil
      BY <2>2
    <3>2. Nil \in Value
      BY DEF Nil, Value
    <3>3. out = Wrote(<<>>)
      BY <3>1, WriteNil
    <3> HIDE DEF out, val
    <3> QED BY <3>1, <3>2, <3>3 DEF Wrote
  <2> QED BY <2>1, <2>2
<1>5. ASSUME NEW a \in 1..Reach(f)
      PROVE  memory[RowAt(j) + f.offset + a - 1] = Byte(out.cell, a)
  <2>1. RowAt(j) + f.offset + a - 1 = At(i, f) + a
    <3> DEFINE b == (i - 1) * layout.stride
    <3>1. b \in Int /\ RowAt(j) = b + 1 /\ At(i, f) = b + f.offset
      BY <1>r DEF At
    <3> HIDE DEF b
    <3> QED BY <1>2, <3>1
  <2>2. memory[At(i, f) + a] = buffer[At(i, f) + a]
    <3>1. At(i, f) + a \in 1..(Len(batch) * layout.stride)
      BY <1>1, <1>3, FieldInRow
    <3>2. DOMAIN buffer = 1..(Len(batch) * layout.stride)
      BY <1>1 DEF Allocated
    <3>3. At(i, f) + a \in DOMAIN buffer /\ At(i, f) + a \in Nat
      BY <3>1, <3>2
    <3> QED BY <3>3 DEF Memory, memory
  <2>3. buffer[At(i, f) + a]
          = IF f \in Filled(i) THEN Byte(Out(i, f).cell, a) ELSE Zero
    BY <1>1, <1>3 DEF CellsHold
  <2>4. CASE f \in Filled(i)
    BY <2>1, <2>2, <2>3, <2>4 DEF Out
  <2>5. CASE f \notin Filled(i)
    <3>1. out = Wrote(<<>>)
      BY <2>5, WriteNil
    <3>2. out.cell = <<>>
      BY <3>1 DEF Wrote
    <3> HIDE DEF out
    <3> QED BY <2>1, <2>2, <2>3, <2>5, <3>2 DEF Byte
  <2> QED BY <2>4, <2>5
<1>6. Cell(f, memory, RowAt(j), Reach(f)) = Padded(f, out.cell)
  <2>1. Cell(f, memory, RowAt(j), Reach(f))
          = [a \in 1..Reach(f) |-> memory[RowAt(j) + f.offset + a - 1]]
    BY DEF Cell
  <2> HIDE DEF out
  <2> QED BY <1>5, <2>1 DEF Padded
<1>g. got = ReadValue(f, memory, RowAt(j))
  BY DEF memory
<1> HIDE DEF val
<1>7. got.val = Kept(f, val)
  BY <1>2, <1>4, <1>6, <1>g, ReadIsKept
<1>8. ReadAs(f, got.val)
  <2>1. CASE Opaque(f)
    <3>1. got.val = VBlob(Cell(f, memory, RowAt(j), f.itemsize))
      BY <1>g, <2>1, ReadOpaque
    <3>2. got.val.bytes = Cell(f, memory, RowAt(j), f.itemsize)
      BY <3>1 DEF VBlob
    <3> QED BY <2>1, <3>1, <3>2 DEF ReadAs, Cell
  <2>2. CASE ~Opaque(f)
    <3> DEFINE d == Decode(f.kind, f.base, Cell(f, memory, RowAt(j), f.base))
    <3>1. got.val = IF f.kind = "f" THEN VFloat(d.v, d.x) ELSE VInt(d.v)
      BY <1>g, <2>2, ReadScalar
    <3> HIDE DEF d
    <3> QED BY <2>2, <3>1 DEF ReadAs, VFloat, VInt
  <2> QED BY <2>1, <2>2
<1> QED BY <1>7, <1>8 DEF Expected, val, i

\* One field per name: the columns of the key and of the bins are singled out.
LEMMA OneField ==
  ASSUME Inputs
  PROVE  /\ \A f \in KeyFields : (CHOOSE g \in KeyFields : TRUE) = f
         /\ \A f \in BinFields : (CHOOSE g \in BinFields : g.name = f.name) = f
         /\ KeyFields \subseteq Range(dtype.fields) /\ BinFields \subseteq Range(dtype.fields)
<1>1. KeyFields \subseteq Range(dtype.fields) /\ BinFields \subseteq Range(dtype.fields)
  BY DEF KeyFields, BinFields, Named
<1>2. \A f, g \in Range(dtype.fields) : f.name = g.name => f = g
  BY DtypeFacts DEF Inputs
<1>3. ASSUME NEW f \in KeyFields PROVE (CHOOSE g \in KeyFields : TRUE) = f
  <2>1. \A g \in KeyFields : g = f
    BY <1>1, <1>2 DEF KeyFields, Named
  <2> QED BY <2>1
<1>4. ASSUME NEW f \in BinFields PROVE (CHOOSE g \in BinFields : g.name = f.name) = f
  <2>1. \A g \in BinFields : g.name = f.name => g = f
    BY <1>1, <1>2
  <2> QED BY <2>1
<1> QED BY <1>1, <1>3, <1>4

LEMMA ReadRowStep ==
  ASSUME IInv, ReadRow
  PROVE  IInv'
<1>1. /\ UNCHANGED <<layout, batch, view, dtype, buffer>> /\ phase = "read" /\ row < view.len
      /\ phase' \in {"read", "done", "raised", "crashed"} /\ row' \in {row, row + 1}
      /\ row \in Nat
  BY DEF ReadRow, RowRead, IInv, Inputs
<1>2. Inputs'
  BY <1>1, SameInputs DEF IInv
<1>3. Allocated'
  BY <1>1 DEF IInv, Allocated
<1>4. CellsHold'
  BY <1>1, SameCells DEF IInv, Done
<1>5. CASE phase' \in {"raised", "crashed"}
  <2>1. UNCHANGED <<row, records>>
    BY <1>1, <1>5 DEF ReadRow, RowRead
  <2>2. RecordsAre'
    BY <1>1, <1>5, <2>1, SameRecords DEF IInv
  <2> QED BY <1>2, <1>3, <1>4, <2>2 DEF IInv
<1>6. CASE phase' \notin {"raised", "crashed"}
  <2>s. PICK stray \in Strays : RowRead(stray)
    BY <1>6 DEF ReadRow
  <2> DEFINE at == RowAt(row + 1)
             memory == Memory(stray)
             read == [f \in Range(dtype.fields) |-> ReadValue(f, memory, at)]
             keyField == CHOOSE f \in KeyFields : TRUE
             key == read[keyField].val
             rec == [key |-> IF key.t = "blob" THEN VBlob(Trimmed(key.bytes)) ELSE key,
                     ns |-> NameOf("_namespace", memory, at),
                     set |-> NameOf("_set", memory, at),
                     bins |-> [n \in {f.name : f \in BinFields} |->
                                 read[CHOOSE f \in BinFields : f.name = n].val]]
  <2>1. /\ records' = Append(records, rec) /\ row' = row + 1
        /\ phase' \in {"read", "done"}
        /\ \A f \in Used : read[f].raises = "none"
    BY <1>1, <1>6, <2>s DEF RowRead
  <2>2. /\ KeyFields \subseteq Range(dtype.fields) /\ BinFields \subseteq Range(dtype.fields)
        /\ \A f \in KeyFields : keyField = f
        /\ \A f \in BinFields : (CHOOSE g \in BinFields : g.name = f.name) = f
    BY OneField DEF IInv
  <2>3. row + 1 \in 1..view.len /\ view.len \in Nat
    BY <1>1, InputFacts DEF IInv
  <2>4. ASSUME NEW f \in (KeyFields \union BinFields) \cap Range(layout.fields),
               SameRows, Inside, Apart(f)
        PROVE  read[f].val = Expected(Source(row + 1), f) /\ ReadAs(f, read[f].val)
    <3>1. f \in Range(dtype.fields) /\ f \in Used
      BY <2>2 DEF Used
    <3>2. read[f] = ReadValue(f, memory, at) /\ read[f].raises = "none"
      BY <2>1, <3>1
    <3> QED BY <1>1, <2>3, <2>4, <3>2, ReadIsExpected
  <2>5. ASSUME NEW f \in BinFields \cap Range(layout.fields), SameRows, Inside, Apart(f)
        PROVE  rec.bins[f.name] = Expected(Source(row + 1), f)
    <3>1. rec.bins[f.name] = read[CHOOSE g \in BinFields : g.name = f.name].val
      OBVIOUS
    <3> QED BY <2>2, <2>4, <2>5, <3>1
  <2>6. ASSUME NEW f \in KeyFields \cap Range(layout.fields), SameRows, Inside, Apart(f)
        PROVE  /\ rec.key = KeyOf(Expected(Source(row + 1), f))
               /\ ReadAs(f, Expected(Source(row + 1), f))
    <3>1. key = read[f].val
      BY <2>2
    <3>2. rec.key = KeyOf(key)
      BY DEF KeyOf
    <3> QED BY <2>4, <2>6, <3>1, <3>2
  <2> HIDE DEF rec, read
  <2>7. Len(records) = row /\ DOMAIN records = 1..row
    BY <1>1 DEF IInv, RecordsAre
  <2>8. /\ \E S : records' \in Seq(S)
        /\ Len(records') = row + 1 /\ DOMAIN records' = 1..(row + 1)
        /\ \A j \in 1..row : records'[j] = records[j]
        /\ records'[row + 1] = rec
    <3>1. PICK S : records \in Seq(S)
      BY DEF IInv, RecordsAre
    <3>2. records \in Seq(S \union {rec}) /\ rec \in S \union {rec}
      BY <3>1
    <3>3. records' \in Seq(S \union {rec})
      BY <2>1, <3>2
    <3> QED BY <1>1, <2>1, <2>7, <3>2, <3>3
  <2>9. \A f, i : /\ Apart(f)' = Apart(f) /\ Expected(i, f)' = Expected(i, f)
                  /\ Source(i)' = Source(i)
    BY <1>1 DEF Apart, Expected, Filled, Source
  <2>10. /\ KeyFields' = KeyFields /\ BinFields' = BinFields
         /\ SameRows' = SameRows /\ Inside' = Inside
    BY <1>1 DEF KeyFields, BinFields, Named, SameRows, RowStride, Contiguous, Inside
  <2>11. ASSUME NEW j \in 1..(row + 1), NEW f \in Range(layout.fields),
                SameRows, Inside, Apart(f)
         PROVE  /\ f \in BinFields => records'[j].bins[f.name] = Expected(Source(j), f)
                /\ f \in KeyFields => /\ records'[j].key = KeyOf(Expected(Source(j), f))
                                   /\ ReadAs(f, Expected(Source(j), f))
    <3>1. CASE j = row + 1
      BY <2>5, <2>6, <2>8, <2>11, <3>1
    <3>2. CASE j # row + 1
      <4>1. j \in 1..row
        BY <1>1, <3>2
      <4> QED BY <2>7, <2>8, <2>11, <4>1 DEF IInv, RecordsAre
    <3> QED BY <3>1, <3>2
  <2>12. RecordsAre'
    BY <1>1, <2>1, <2>3, <2>8, <2>9, <2>10, <2>11 DEF RecordsAre
  <2> QED BY <1>2, <1>3, <1>4, <2>12 DEF IInv
<1> QED BY <1>5, <1>6

-------------------------------------------------------------------------------
(* The theorems *)

\* Every accepted field lies in its row, every row filled so far holds what
\* its record asked for, and what has been read back is what the rows hold,
\* however far batch_to_numpy_py and numpy_to_records have got.
THEOREM Invariance == Spec => []IInv
<1>1. IInv /\ [Next]_vars => IInv'
  <2> SUFFICES ASSUME IInv, [Next]_vars PROVE IInv'
    OBVIOUS
  <2>1. CASE ParseDtype
    BY <2>1, ParseDtypeStep
  <2>2. CASE FillRow
    BY <2>2, FillRowStep
  <2>3. CASE TakeView
    BY <2>3, TakeViewStep
  <2>4. CASE ReadRow
    BY <2>4, ReadRowStep
  <2>5. CASE UNCHANGED vars
    <3>1. UNCHANGED <<layout, batch, view, dtype, buffer, row, phase, records>>
      BY <2>5 DEF vars
    <3>2. Inputs' /\ Allocated'
      BY <3>1 DEF IInv, Inputs, Source, Allocated
    <3>3. CellsHold'
      <4>1. Done' = Done
        BY <3>1 DEF Done
      <4> QED BY <3>1, <4>1, SameCells DEF IInv
    <3>4. RecordsAre'
      BY <3>1, SameRecords DEF IInv, RecordsAre
    <3> QED BY <3>2, <3>3, <3>4 DEF IInv
  <2> QED BY <2>1, <2>2, <2>3, <2>4, <2>5 DEF Next
<1> QED BY StartsWell, <1>1, PTL DEF Spec

\* Filling and reading back agree for all dtypes, responses and views: where
\* `_dtype` places its rows as the view does, a record that batch_write_numpy sends
\* has the bins the response had, in every field both dtypes have that shares no
\* byte with another, if no field without elements reaches out of its row.
THEOREM WhatIsWrittenIsRead == Spec => []RoundTrip
<1>1. IInv => RoundTrip
  <2> SUFFICES ASSUME IInv, SameRows, Inside, NEW j \in DOMAIN records,
                      NEW f \in BinFields \cap Range(layout.fields), Apart(f)
               PROVE  records[j].bins[f.name]
                        = Expected(view.start + (j - 1) * view.step + 1, f)
    BY DEF RoundTrip
  <2> QED BY DEF IInv, RecordsAre, Source
<1> QED BY <1>1, Invariance, PTL

\* In a view of step 1 the rows follow each other.
LEMMA ConsecutiveRows ==
  ASSUME view.start \in Int, view.step = 1, NEW n \in Nat
  PROVE  Source(n + 1) = view.start + n + 1 /\ Source(1) = view.start + 1
<1>1. n + 1 - 1 = n /\ 1 - 1 = 0 /\ n * 1 = n /\ 0 * 1 = 0
  OBVIOUS
<1> QED BY <1>1 DEF Source

\* The raw reads of numpy_to_records stay within the array for any view of it that
\* NumPy can make and any `_dtype` that is no larger than the array's dtype, except
\* for fields without elements.
THEOREM ReadsAreInBounds == Spec => []ReadsStayInBuffer
<1>1. IInv => ReadsStayInBuffer
  <2> SUFFICES ASSUME IInv, phase = "read", row < view.len, dtype.stride <= layout.stride,
                      NEW f \in Range(dtype.fields), ~NoElements(f)
               PROVE  Span(f, RowAt(row + 1)) \subseteq DOMAIN buffer
    BY DEF ReadsStayInBuffer
  <2> DEFINE L == layout.stride
             D == dtype.stride
             size == Len(batch) * L
             i == Source(row + 1)
  <2>1. /\ L \in Nat /\ D \in Nat /\ D <= L /\ Len(batch) \in Nat /\ row \in Nat
        /\ view.start \in Int /\ view.step \in Int /\ view.len \in Nat
    BY InputFacts, DtypeFacts DEF IInv, Inputs
  <2>2. /\ f.offset \in Nat /\ Reach(f) \in Nat /\ f.offset + Reach(f) <= D
        /\ DOMAIN buffer = 1..size /\ size \in Nat
    <3>1. f \in DtypeField /\ FieldAccepted(f, dtype.stride)
      BY DtypeFacts DEF IInv, Inputs, Allocated
    <3>2. Reach(f) = f.itemsize
      BY <3>1, ReachFacts
    <3>3. DOMAIN buffer = 1..size
      BY DEF IInv, Allocated
    <3> QED BY <2>1, <3>1, <3>2, <3>3, ReachFacts DEF FieldAccepted
  <2>3. i \in 1..Len(batch) /\ Source(1) \in 1..Len(batch) /\ row + 1 \in 1..view.len
    <3>1. row + 1 \in 1..view.len /\ 1 \in 1..view.len
      BY <2>1
    <3> QED BY <3>1 DEF IInv, Inputs
  <2>4. (i - 1) * L \in Nat /\ (i - 1) * L + L <= size
    <3> HIDE DEF i, L
    <3> QED BY <2>1, <2>3, RowsFit
  <2>5. CASE SameRows
    <3>1. RowAt(row + 1) = (i - 1) * L + 1
      BY <2>3, <2>5, RowIsSource DEF IInv
    <3> DEFINE b == (i - 1) * L
    <3>2. b \in Nat /\ b + D <= size /\ RowAt(row + 1) = b + 1
      <4> HIDE DEF i, L, D, size
      <4>1. b \in Nat /\ b + L <= size /\ RowAt(row + 1) = b + 1
        BY <2>4, <3>1
      <4> HIDE DEF b
      <4> QED BY <2>1, <2>2, <4>1
    <3> HIDE DEF b, D, size
    <3>3. ((b + 1) + f.offset)..((b + 1) + f.offset + Reach(f) - 1) \subseteq 1..size
      BY <2>1, <2>2, <3>2, FieldInArray
    <3> QED BY <2>2, <3>2, <3>3 DEF Span
  <2>6. CASE ~SameRows /\ L = 0
    <3>1. Reach(f) = 0 /\ f.offset = 0
      BY <2>1, <2>2, <2>6
    <3>2. RowAt(row + 1) \in Int
      <4>1. RowStride \in Int
        BY <2>1 DEF RowStride
      <4> QED BY <2>1, <4>1 DEF RowAt
    <3>3. Span(f, RowAt(row + 1)) = {}
      BY <3>1, <3>2 DEF Span
    <3> QED BY <3>3
  <2>7. CASE ~SameRows /\ L # 0
    <3>1. view.step * L = L /\ RowStride = D
      BY <2>7 DEF SameRows, RowStride, Contiguous
    <3>2. view.step = 1
      <4> DEFINE s == view.step
      <4>1. s * L = L /\ s \in Int /\ L \in Nat \ {0}
        BY <2>1, <2>7, <3>1
      <4> HIDE DEF s, L
      <4>2. s < 1 => s * L < L
        BY <4>1
      <4>3. s > 1 => s * L > L
        BY <4>1
      <4> QED BY <4>1, <4>2, <4>3 DEF s
    <3> DEFINE b0 == view.start
               b == b0 * L + row * D
    <3>3. i = b0 + row + 1 /\ b0 \in Nat /\ RowAt(row + 1) = b + 1
      <4>1. i = b0 + row + 1 /\ Source(1) = b0 + 1
        <5> HIDE DEF L, D, size, b
        <5>1. i = view.start + row + 1 /\ Source(1) = view.start + 1
          BY <2>1, <3>2, ConsecutiveRows
        <5> QED BY <5>1
      <4>2. b0 \in Nat
        BY <2>1, <2>3, <4>1
      <4>3. RowAt(row + 1) = b0 * L + (row + 1 - 1) * D + 1 /\ row + 1 - 1 = row
        BY <2>1, <3>1 DEF RowAt
      <4> QED BY <2>1, <4>1, <4>2, <4>3
    <3>4. b \in Nat /\ b + D <= size
      <4> HIDE DEF L, D, size, i
      <4>1. (b0 + row) * L + L <= size
        <5>1. i - 1 = b0 + row
          BY <2>1, <3>3
        <5> QED BY <2>4, <5>1
      <4> HIDE DEF b0
      <4>2. (b0 + row) * L = b0 * L + row * L
        BY <2>1, <3>3
      <4>3. PICK e \in Nat : L = D + e
        <5>1. L - D \in Nat /\ L = D + (L - D)
          BY <2>1
        <5> QED BY <5>1
      <4>4. row * L = row * D + row * e /\ row * e \in Nat /\ row * D \in Nat /\ b0 * L \in Nat
        BY <2>1, <3>3, <4>3
      <4> DEFINE x == row * D
                 y == row * e
                 z == b0 * L
      <4>5. /\ x \in Nat /\ y \in Nat /\ z \in Nat
            /\ z + (x + y) + L <= size /\ b = z + x
        <5>1. (b0 + row) * L = z + (x + y)
          BY <4>2, <4>4
        <5> QED BY <4>1, <4>4, <5>1 DEF b
      <4> HIDE DEF x, y, z
      <4> QED BY <2>1, <2>2, <4>3, <4>5
    <3> HIDE DEF b, D, size
    <3>5. ((b + 1) + f.offset)..((b + 1) + f.offset + Reach(f) - 1) \subseteq 1..size
      BY <2>1, <2>2, <3>4, FieldInArray
    <3> QED BY <2>2, <3>3, <3>5 DEF Span
  <2> QED BY <2>5, <2>6, <2>7
<1> QED BY <1>1, Invariance, PTL

\* The raw writes of the fill loop touch only what the fields of their row reach,
\* which is inside that row but for fields without elements; only those can make
\* it leave the array.
THEOREM WritesAreInBounds == Spec => WritesStayInTheirRow
<1> DEFINE Moved(a) ==
             \E f \in Filled(row + 1) :
                /\ a - row * layout.stride \in (f.offset + 1)..(f.offset + Reach(f))
                /\ f.offset + Reach(f) <= layout.stride \/ NoElements(f)
           Crash == phase' = "crashed" => \E f \in Filled(row + 1) : NoElements(f)
<1>1. ASSUME IInv, FillRow PROVE
         /\ Inputs /\ row + 1 \in 1..Len(batch) /\ row \in Nat /\ layout.stride \in Nat
         /\ Len(batch) \in Nat
         /\ DOMAIN buffer = 1..(Len(batch) * layout.stride)
         /\ Len(buffer) = Len(batch) * layout.stride
         /\ \A f \in Filled(row + 1) :
               /\ f \in DtypeField /\ batch[row + 1].bins[f.name] \in Value
               /\ f.offset \in Nat /\ Reach(f) \in Nat
               /\ f.offset + Reach(f) <= layout.stride \/ NoElements(f)
  <2>1. phase = "fill" /\ row < Len(batch)
    BY <1>1 DEF FillRow
  <2>2. /\ Inputs /\ row + 1 \in 1..Len(batch) /\ row \in Nat /\ layout.stride \in Nat
        /\ Len(batch) \in Nat
    BY <1>1, <2>1, InputFacts DEF IInv, Inputs
  <2>3. /\ DOMAIN buffer = 1..(Len(batch) * layout.stride)
        /\ Len(buffer) = Len(batch) * layout.stride
        /\ \A f \in Range(layout.fields) : FieldAccepted(f, layout.stride)
    BY <1>1, <2>1 DEF IInv, Allocated
  <2>4. ASSUME NEW f \in Filled(row + 1)
        PROVE  /\ f \in DtypeField /\ batch[row + 1].bins[f.name] \in Value
               /\ f.offset \in Nat /\ Reach(f) \in Nat
               /\ f.offset + Reach(f) <= layout.stride \/ NoElements(f)
    <3>1. /\ f \in DtypeField /\ batch[row + 1].bins[f.name] \in Value
          /\ FieldAccepted(f, layout.stride)
      BY <2>2, <2>3, FilledFacts, InputFacts
    <3> QED BY <3>1, ReachFacts DEF FieldAccepted
  <2> QED BY <2>2, <2>3, <2>4
<1>2. ASSUME IInv, FillRow, NEW a \in DOMAIN buffer, buffer'[a] # buffer[a]
      PROVE  Moved(a)
  <2> DEFINE r == row + 1
  <2>1. phase' \notin {"raised", "crashed"}
    BY <1>2 DEF FillRow
  <2>2. r \in 1..Len(batch) /\ \A f \in Filled(r) : Out(r, f).raises = "none"
    BY <1>2, <2>1, FillStep
  <2>3. PICK order \in SetToSeqs(Filled(r)) :
          buffer' = [x \in DOMAIN buffer |-> Put(r, order, x)]
    BY <1>2, <2>1, FillStep
  <2>4. a \in Int /\ layout.stride \in Nat /\ row \in Nat /\ Inputs
    BY <1>1, <1>2
  <2>5. PICK f \in Filled(r) : a - At(r, f) \in 1..Reach(f)
    <3>1. Put(r, order, a) # buffer[a]
      BY <1>2, <2>3
    <3> QED BY <2>2, <2>3, <2>4, <3>1, PutInField
  <2>6. /\ f.offset \in Nat /\ Reach(f) \in Nat
        /\ f.offset + Reach(f) <= layout.stride \/ NoElements(f)
    BY <1>1, <1>2
  <2>7. At(r, f) = row * layout.stride + f.offset /\ row * layout.stride \in Nat
    BY <2>4 DEF At
  <2> DEFINE b == row * layout.stride
  <2>8. b \in Nat /\ At(r, f) = b + f.offset
    BY <2>7
  <2> HIDE DEF b, r
  <2>9. a - b \in (f.offset + 1)..(f.offset + Reach(f))
    BY <2>4, <2>5, <2>6, <2>8
  <2> QED BY <2>5, <2>6, <2>9 DEF b, r
<1>3. ASSUME IInv, FillRow PROVE Crash
  <2> SUFFICES ASSUME phase' = "crashed", \A f \in Filled(row + 1) : ~NoElements(f) PROVE FALSE
    OBVIOUS
  <2> DEFINE r == row + 1
             L == layout.stride
             size == Len(batch) * L
  <2>1. Spills(row + 1)
    BY <1>3 DEF FillRow, IInv
  <2>2a. PICK f \in Filled(r) :
           /\ Out(r, f).raises = "none"
           /\ \E a \in DOMAIN Out(r, f).cell : (r - 1) * L + f.offset + a > size
    BY <1>1, <1>3, <2>1 DEF Spills
  <2>2. PICK a \in DOMAIN Out(r, f).cell : (r - 1) * L + f.offset + a > size
    BY <2>2a
  <2>3. /\ f \in DtypeField /\ batch[r].bins[f.name] \in Value /\ f.offset \in Nat
        /\ Reach(f) \in Nat /\ f.offset + Reach(f) <= L
    BY <1>1, <1>3
  <2>4. a \in 1..Reach(f)
    <3>1. PICK m \in 0..Reach(f) : DOMAIN Out(r, f).cell = 1..m
      BY <2>2a, <2>3, CellFits DEF Out
    <3> QED BY <2>2, <2>3, <3>1
  <2>5. (r - 1) * L \in Nat /\ (r - 1) * L + L <= size
    <3> HIDE DEF r, L
    <3> QED BY <1>1, <1>3, RowsFit DEF r, L
  <2> DEFINE b == (r - 1) * L
  <2>6. b \in Nat /\ b + L <= size /\ b + f.offset + a > size /\ size \in Nat /\ L \in Nat
    BY <1>1, <1>3, <2>2, <2>5
  <2> HIDE DEF b, size, L, r
  <2> QED BY <2>3, <2>4, <2>6
<1>4. IInv /\ [Next]_vars =>
        [FillRow =>
            /\ \A a \in DOMAIN buffer' : a \in DOMAIN buffer /\ buffer'[a] # buffer[a] => Moved(a)
            /\ Crash]_vars
  <2> HIDE DEF Moved, Crash
  <2> QED BY <1>2, <1>3
<1> QED BY <1>4, Invariance, PTL DEF Spec, WritesStayInTheirRow

\* Rows whose keys differ write records whose keys differ, although trailing zeros
\* are cut from bytes keys: for any dtypes, under the conditions of RoundTrip.
THEOREM KeysAreNotMerged == Spec => []KeysStayDistinct
<1>1. IInv => KeysStayDistinct
  <2> SUFFICES ASSUME IInv, SameRows, Inside, NEW i \in DOMAIN records, NEW j \in DOMAIN records,
                      NEW f \in KeyFields \cap Range(layout.fields), Apart(f),
                      records[i].key = records[j].key
               PROVE  Expected(view.start + (i - 1) * view.step + 1, f)
                        = Expected(view.start + (j - 1) * view.step + 1, f)
    BY DEF KeysStayDistinct
  <2> DEFINE v == Expected(Source(i), f)
             w == Expected(Source(j), f)
  <2>1. KeyOf(v) = KeyOf(w) /\ ReadAs(f, v) /\ ReadAs(f, w)
    BY DEF IInv, RecordsAre
  <2> HIDE DEF v, w
  <2>2. v = w
    <3>1. f.itemsize \in Nat
      BY InputFacts DEF IInv
    <3> QED BY <2>1, <3>1, KeyOfIsInjective
  <2> QED BY <2>2 DEF v, w, Source
<1> QED BY <1>1, Invariance, PTL

================================================================================
