------------------------- MODULE BatchReadViewsProofs -------------------------
(***************************************************************************)
(* Theorems about BatchReadViews for any batch and any number of threads:  *)
(* the cached dict is always a whole dict of the records that were read,   *)
(* which takes that nobody was ever given the cached dict itself; the      *)
(* views agree with each other; what is made afresh is not shared.         *)
(*                                                                         *)
(* The passes over the records (batch_to_dict_py, key_map) are first shown *)
(* to compute what they are for: under each key, its last record.          *)
(***************************************************************************)
EXTENDS BatchReadViews, FiniteSetTheorems, SequenceTheorems, WellFoundedInduction, TLAPS

(* Numbers *)

\* A set of numbers that is not empty has a least element.
LEMMA LeastNat ==
  ASSUME NEW T, T \subseteq Nat, T # {}
  PROVE  \E n \in T : \A m \in T : n <= m
<1> DEFINE R == {ss \in Nat \X Nat : ss[1] < ss[2]}
<1>1. IsWellFoundedOn(R, Nat)
  BY NatLessThanWellFounded DEF OpToRel
<1> HIDE DEF R
<1>2. PICK n \in T : \A m \in T : ~(<<m, n>> \in R)
  BY <1>1, WFMin
<1>3. ASSUME NEW m \in T PROVE n <= m
  <2>1. <<m, n>> \in Nat \X Nat
    OBVIOUS
  <2>2. ~(<<m, n>>[1] < <<m, n>>[2])
    BY <1>2, <2>1 DEF R
  <2> QED BY <2>1, <2>2
<1> QED BY <1>3

\* The last of some positions.
Last(S) == CHOOSE i \in S : \A j \in S : j <= i

LEMMA LastIsLast ==
  ASSUME NEW n \in Nat, NEW S, S \subseteq 1..n, S # {}
  PROVE  Last(S) \in S /\ \A j \in S : j <= Last(S)
<1> DEFINE T == {k \in Nat : n - k \in S}
<1>1. T # {} /\ T \subseteq Nat
  <2>1. PICK i \in S : TRUE
    OBVIOUS
  <2>2. n - i \in Nat /\ n - (n - i) = i
    BY <2>1
  <2>3. n - i \in T
    BY <2>2
  <2> QED BY <2>3
<1> HIDE DEF T
<1>2. PICK k \in T : \A l \in T : k <= l
  BY <1>1, LeastNat
<1>3. n - k \in S
  BY DEF T
<1>4. ASSUME NEW j \in S PROVE j <= n - k
  <2>1. n - j \in Nat /\ n - (n - j) = j
    OBVIOUS
  <2>2. n - j \in T
    BY <2>1 DEF T
  <2>3. k <= n - j
    BY <1>2, <2>2
  <2> QED BY <1>1, <2>1, <2>3
<1> QED BY <1>3, <1>4 DEF Last

LEMMA LastIsNew ==
  ASSUME NEW n \in Nat \ {0}, NEW S, S \subseteq 1..(n - 1)
  PROVE  Last(S \union {n}) = n
<1>1. S \union {n} \subseteq 1..n /\ S \union {n} # {}
  OBVIOUS
<1>2. /\ Last(S \union {n}) \in S \union {n}
      /\ n <= Last(S \union {n})
  BY <1>1, LastIsLast
<1>3. \A i \in S : ~(n <= i)
  OBVIOUS
<1> QED BY <1>2, <1>3

-------------------------------------------------------------------------------
(* The passes over the records *)

\* The positions batch_to_dict_py keeps of the first n records.
Kept(recs, n) ==
  {i \in 1..n : recs[i].key # NoKey /\ Fine(recs[i]) /\ recs[i].body # "none"}

\* The dict of the first n records: under each key, its last record.
DictUpTo(recs, m, n) ==
  [k \in {recs[i].key : i \in Kept(recs, n)} |->
     Bins(m, Last({i \in Kept(recs, n) : recs[i].key = k}))]

DictStep(recs, m, d, n) ==
  IF recs[n].key = NoKey \/ ~Fine(recs[n]) \/ recs[n].body = "none" THEN d
  ELSE [k \in DOMAIN d \cup {recs[n].key} |->
           IF k = recs[n].key THEN Bins(m, n) ELSE d[k]]

IsDictPass(f, recs, m) ==
  f = [n \in 0..Len(recs) |-> IF n = 0 THEN [k \in {} |-> 0]
                              ELSE DictStep(recs, m, f[n - 1], n)]

\* One record more is one step of the pass.
LEMMA DictGrows ==
  ASSUME NEW recs, NEW m, NEW n \in Nat \ {0}
  PROVE  DictUpTo(recs, m, n) = DictStep(recs, m, DictUpTo(recs, m, n - 1), n)
<1> DEFINE K == Kept(recs, n - 1)
           At(S, k) == {i \in S : recs[i].key = k}
           kept == recs[n].key # NoKey /\ Fine(recs[n]) /\ recs[n].body # "none"
<1>1. CASE ~kept
  <2>1. Kept(recs, n) = K
    BY <1>1 DEF Kept
  <2> QED BY <1>1, <2>1 DEF DictUpTo, DictStep
<1>2. CASE kept
  <2>1. Kept(recs, n) = K \union {n} /\ K \subseteq 1..(n - 1)
    BY <1>2 DEF Kept
  <2> DEFINE d == DictUpTo(recs, m, n - 1)
  <2>2. {recs[i].key : i \in K \union {n}} = DOMAIN d \union {recs[n].key}
    BY DEF DictUpTo
  <2>3. ASSUME NEW k \in DOMAIN d \union {recs[n].key}
        PROVE  Bins(m, Last(At(K \union {n}, k)))
                 = IF k = recs[n].key THEN Bins(m, n) ELSE d[k]
    <3>1. CASE k = recs[n].key
      <4>1. At(K \union {n}, k) = At(K, k) \union {n} /\ At(K, k) \subseteq 1..(n - 1)
        BY <2>1, <3>1
      <4>2. Last(At(K \union {n}, k)) = n
        BY <4>1, LastIsNew
      <4> QED BY <3>1, <4>2
    <3>2. CASE k # recs[n].key
      <4>1. At(K \union {n}, k) = At(K, k)
        BY <3>2
      <4>2. d[k] = Bins(m, Last(At(K, k)))
        BY <3>2 DEF DictUpTo
      <4> QED BY <3>2, <4>1, <4>2
    <3> QED BY <3>1, <3>2
  <2>4. DictUpTo(recs, m, n)
          = [k \in DOMAIN d \union {recs[n].key} |->
               IF k = recs[n].key THEN Bins(m, n) ELSE d[k]]
    <3>1. DictUpTo(recs, m, n)
            = [k \in DOMAIN d \union {recs[n].key} |-> Bins(m, Last(At(K \union {n}, k)))]
      BY <2>1, <2>2 DEF DictUpTo
    <3> HIDE DEF d, K, At
    <3> QED BY <2>3, <3>1
  <2> QED BY <1>2, <2>4 DEF DictStep
<1> QED BY <1>1, <1>2

\* batch_to_dict_py makes the dict that has, under each key, its last record.
LEMMA DictIsOfLast ==
  ASSUME NEW recs, NEW m, Len(recs) \in Nat
  PROVE  DictOf(recs, m) = DictUpTo(recs, m, Len(recs))
<1> DEFINE f == CHOOSE g : IsDictPass(g, recs, m)
           u == [n \in 0..Len(recs) |-> DictUpTo(recs, m, n)]
<1>1. DictOf(recs, m) = f[Len(recs)]
  BY DEF DictOf, IsDictPass, DictStep
<1>2. IsDictPass(u, recs, m)
  <2>1. DictUpTo(recs, m, 0) = [k \in {} |-> 0]
    <3>1. {recs[i].key : i \in Kept(recs, 0)} = {}
      BY DEF Kept
    <3> QED BY <3>1 DEF DictUpTo
  <2>2. ASSUME NEW n \in 0..Len(recs), n # 0
        PROVE  u[n] = DictStep(recs, m, u[n - 1], n)
    <3>1. n \in Nat \ {0} /\ n - 1 \in 0..Len(recs)
      BY <2>2
    <3>2. u[n] = DictUpTo(recs, m, n) /\ u[n - 1] = DictUpTo(recs, m, n - 1)
      BY <3>1
    <3> QED BY <3>1, <3>2, DictGrows
  <2>3. u[0] = [k \in {} |-> 0]
    BY <2>1
  <2>4. u = [n \in 0..Len(recs) |-> u[n]]
    OBVIOUS
  <2> HIDE DEF u
  <2> QED BY <2>2, <2>3, <2>4 DEF IsDictPass
<1>3. IsDictPass(f, recs, m)
  BY <1>2
<1> HIDE DEF f, u
<1>4. \A n \in 0..Len(recs) : f[n] = u[n]
  <2> SUFFICES ASSUME NEW T, T = {n \in 0..Len(recs) : f[n] # u[n]}, T # {}
               PROVE  FALSE
    OBVIOUS
  <2>0. T \subseteq Nat
    OBVIOUS
  <2>1. PICK n \in T : \A l \in T : n <= l
    BY <2>0, LeastNat
  <2>2. n # 0
    BY <1>2, <1>3 DEF IsDictPass
  <2>3. n - 1 \in 0..Len(recs) /\ ~(n <= n - 1)
    BY <2>2
  <2>4. f[n - 1] = u[n - 1]
    BY <2>1, <2>3
  <2>5. f[n] = u[n]
    BY <1>2, <1>3, <2>2, <2>4 DEF IsDictPass
  <2> QED BY <2>5
<1> QED BY <1>1, <1>4 DEF u

\* The map of the first n records: under each key, its last row.
MapUpTo(recs, n) ==
  [x \in {MapKey(recs, i) : i \in 1..n} |-> Last({i \in 1..n : MapKey(recs, i) = x})]

MapStep(recs, d, n) ==
  [x \in DOMAIN d \cup {MapKey(recs, n)} |-> IF x = MapKey(recs, n) THEN n ELSE d[x]]

IsMapPass(f, recs) ==
  f = [n \in 0..Len(recs) |-> IF n = 0 THEN [x \in {} |-> 0] ELSE MapStep(recs, f[n - 1], n)]

LEMMA MapGrows ==
  ASSUME NEW recs, NEW n \in Nat \ {0}
  PROVE  MapUpTo(recs, n) = MapStep(recs, MapUpTo(recs, n - 1), n)
<1> DEFINE At(S, x) == {i \in S : MapKey(recs, i) = x}
           P == 1..(n - 1)
           d == MapUpTo(recs, n - 1)
<1>1. 1..n = P \union {n}
  OBVIOUS
<1>2. {MapKey(recs, i) : i \in P \union {n}} = DOMAIN d \union {MapKey(recs, n)}
  BY DEF MapUpTo
<1>3. ASSUME NEW x \in DOMAIN d \union {MapKey(recs, n)}
      PROVE  Last(At(P \union {n}, x)) = IF x = MapKey(recs, n) THEN n ELSE d[x]
  <2>1. CASE x = MapKey(recs, n)
    <3>1. At(P \union {n}, x) = At(P, x) \union {n} /\ At(P, x) \subseteq 1..(n - 1)
      BY <2>1
    <3> QED BY <2>1, <3>1, LastIsNew
  <2>2. CASE x # MapKey(recs, n)
    <3>1. At(P \union {n}, x) = At(P, x)
      BY <2>2
    <3>2. d[x] = Last(At(P, x))
      BY <2>2 DEF MapUpTo
    <3> QED BY <2>2, <3>1, <3>2
  <2> QED BY <2>1, <2>2
<1>4. MapUpTo(recs, n)
        = [x \in DOMAIN d \union {MapKey(recs, n)} |-> Last(At(P \union {n}, x))]
  BY <1>1, <1>2 DEF MapUpTo
<1> HIDE DEF d, P, At
<1>5. MapUpTo(recs, n) = MapStep(recs, d, n)
  BY <1>3, <1>4 DEF MapStep
<1> QED BY <1>5 DEF d

\* The map of NumpyBatchRecords has, under each key, its last row.
LEMMA MapIsOfLast ==
  ASSUME NEW recs, Len(recs) \in Nat
  PROVE  KeyMap(recs) = MapUpTo(recs, Len(recs))
<1> DEFINE f == CHOOSE g : IsMapPass(g, recs)
           u == [n \in 0..Len(recs) |-> MapUpTo(recs, n)]
<1>1. KeyMap(recs) = f[Len(recs)]
  BY DEF KeyMap, IsMapPass, MapStep
<1>2. IsMapPass(u, recs)
  <2>1. MapUpTo(recs, 0) = [x \in {} |-> 0]
    BY DEF MapUpTo
  <2>2. ASSUME NEW n \in 0..Len(recs), n # 0
        PROVE  u[n] = MapStep(recs, u[n - 1], n)
    <3>1. n \in Nat \ {0} /\ n - 1 \in 0..Len(recs)
      BY <2>2
    <3>2. u[n] = MapUpTo(recs, n) /\ u[n - 1] = MapUpTo(recs, n - 1)
      BY <3>1
    <3> QED BY <3>1, <3>2, MapGrows
  <2>3. u[0] = [x \in {} |-> 0]
    BY <2>1
  <2>4. u = [n \in 0..Len(recs) |-> u[n]]
    OBVIOUS
  <2> HIDE DEF u
  <2> QED BY <2>2, <2>3, <2>4 DEF IsMapPass
<1>3. IsMapPass(f, recs)
  BY <1>2
<1> HIDE DEF f, u
<1>4. \A n \in 0..Len(recs) : f[n] = u[n]
  <2> SUFFICES ASSUME NEW T, T = {n \in 0..Len(recs) : f[n] # u[n]}, T # {}
               PROVE  FALSE
    OBVIOUS
  <2>0. T \subseteq Nat
    OBVIOUS
  <2>1. PICK n \in T : \A l \in T : n <= l
    BY <2>0, LeastNat
  <2>2. n # 0
    BY <1>2, <1>3 DEF IsMapPass
  <2>3. n - 1 \in 0..Len(recs) /\ ~(n <= n - 1)
    BY <2>2
  <2>4. f[n - 1] = u[n - 1]
    BY <2>1, <2>3
  <2>5. f[n] = u[n]
    BY <1>2, <1>3, <2>2, <2>4 DEF IsMapPass
  <2> QED BY <2>5
<1> QED BY <1>1, <1>4 DEF u

-------------------------------------------------------------------------------
(* The inductive invariant *)

\* The bins objects of the first m materialisations, the dicts that refer to
\* them and the results that hold them.
Made(m) == [made : 0..m, pos : Nat]
Dict(m) == UNION {[S -> Made(m)] : S \in SUBSET (Keys \union {Ghost})}
Kinds == {"nothing", "dict", "view", "list", "merged",
          "RustPanicError", "TypeError", "PanicException"}
Result(m) == [kind : Kinds, dict : Nat, bins : SUBSET Made(m)]

\* Nothing refers to bins that were not made yet.  A conversion under the mutex
\* is the one that may go past MaxMade.
Types ==
  /\ TypeOK
  /\ owner # NoThread => made <= MaxMade
  /\ dicts \in Seq(Dict(made))
  /\ dirty \subseteq Made(made)
  /\ result \in [Threads -> Result(made)]

\* A dict some caller was given is a dict that was made, and not the cached one.
HandedOut ==
  \A t \in Threads :
    result[t].kind = "dict" => result[t].dict \in 1..Len(dicts) /\ result[t].dict # cache

IInv ==
  /\ Types
  /\ HandedOut
  /\ CacheMatchesRecords

\* What was made stays made.
LEMMA MadeGrows ==
  ASSUME NEW m \in Nat, NEW n \in Nat, m <= n
  PROVE  /\ Made(m) \subseteq Made(n)
         /\ Dict(m) \subseteq Dict(n)
         /\ Result(m) \subseteq Result(n)
<1>1. Made(m) \subseteq Made(n)
  BY DEF Made
<1> QED BY <1>1 DEF Dict, Result

\* The bins of a dict are among those that were made.
LEMMA ValuesAreMade ==
  ASSUME NEW m, NEW d \in Dict(m)
  PROVE  Values(d) \subseteq Made(m)
BY DEF Dict, Values

LEMMA RecordsAreSeq ==
  ASSUME Types
  PROVE  Len(records) \in Nat /\ \A i \in 1..Len(records) : records[i] \in Record
BY DEF Types, TypeOK

\* A dict made now refers to bins made now, and to no others.
LEMMA DictIsMadeNow ==
  ASSUME Types, NEW m \in Nat
  PROVE  /\ DictOf(records, m) \in Dict(m)
         /\ \A b \in Values(DictOf(records, m)) : b.made = m
<1> DEFINE n == Len(records)
           At(k) == {i \in Kept(records, n) : records[i].key = k}
           S == {records[i].key : i \in Kept(records, n)}
<1>1. n \in Nat /\ \A i \in 1..n : records[i] \in Record
  BY RecordsAreSeq
<1>2. DictOf(records, m) = [k \in S |-> Bins(m, Last(At(k)))]
  <2>1. DictOf(records, m) = DictUpTo(records, m, n)
    BY <1>1, DictIsOfLast
  <2> QED BY <2>1 DEF DictUpTo
<1>3. S \subseteq Keys \union {Ghost}
  BY <1>1 DEF Kept, Record
<1>4. ASSUME NEW k \in S PROVE Bins(m, Last(At(k))) \in Made(m)
  <2>1. At(k) \subseteq 1..n /\ At(k) # {}
    BY DEF Kept
  <2> HIDE DEF At
  <2>2. Last(At(k)) \in Nat
    <3>1. Last(At(k)) \in At(k)
      BY <1>1, <2>1, LastIsLast
    <3> QED BY <1>1, <2>1, <3>1
  <2> QED BY <2>2 DEF Bins, Made
<1>5. \A k : Bins(m, Last(At(k))).made = m
  BY DEF Bins
<1> HIDE DEF S, At
<1>6. [k \in S |-> Bins(m, Last(At(k)))] \in [S -> Made(m)]
  BY <1>4
<1> QED BY <1>2, <1>3, <1>5, <1>6 DEF Dict, Values

LEMMA InitIInv == Init => IInv
<1> SUFFICES ASSUME Init PROVE IInv
  OBVIOUS
<1>1. records \in Seq(Record)
  BY DEF Init
<1>2. TypeOK
  <2>1. cache \in 0..Len(dicts) /\ made \in 0..MaxMade + 1
    BY ViewsAssumption DEF Init
  <2>2. pc \in [Threads -> {"idle", "to_dict", "view", "release"}]
    BY DEF Init
  <2> QED BY <1>1, <2>1, <2>2 DEF Init, TypeOK
<1>3. Nothing \in Result(0)
  BY DEF Nothing, Result, Kinds
<1>4. Types
  BY <1>2, <1>3 DEF Init, Types
<1> QED BY <1>4 DEF Init, IInv, HandedOut, CacheMatchesRecords, Nothing

-------------------------------------------------------------------------------
(* The steps *)

\* A thread's result, and those of the others.
LEMMA OneResult ==
  ASSUME NEW S, result \in [Threads -> S], NEW t \in Threads, NEW r,
         result' = [result EXCEPT ![t] = r]
  PROVE  /\ result'[t] = r
         /\ \A u \in Threads : u # t => result'[u] = result[u]
         /\ \A R : S \subseteq R /\ r \in R => result' \in [Threads -> R]
OBVIOUS

\* What every step keeps of the simple types.
Simple ==
  /\ poisoned \in BOOLEAN
  /\ owner \in Threads \cup {NoThread}
  /\ made \in 0..MaxMade + 1
  /\ owner # NoThread => made <= MaxMade
  /\ pc \in [Threads -> {"idle", "to_dict", "view", "release"}]
  /\ dirty \subseteq Made(made)

\* Steps that leave the dicts alone, and at most drop the cached one or hand out
\* something else than a dict.
LEMMA DictsStay ==
  ASSUME IInv, UNCHANGED <<dicts, records>>, cache' \in {cache, 0},
         made <= made', Simple',
         \/ UNCHANGED result
         \/ \E t \in Threads : \E r \in Result(made') :
               r.kind # "dict" /\ result' = [result EXCEPT ![t] = r]
  PROVE  IInv'
<1>1. made \in Nat /\ made' \in Nat /\ MaxMade \in Nat
  BY ViewsAssumption DEF IInv, Types, TypeOK, Simple
<1>2. Dict(made) \subseteq Dict(made') /\ Result(made) \subseteq Result(made')
  BY <1>1, MadeGrows
<1>3. /\ result' \in [Threads -> Result(made')]
      /\ \A u \in Threads : result'[u] = result[u] \/ result'[u].kind # "dict"
  <2>1. CASE UNCHANGED result
    BY <1>2, <2>1 DEF IInv, Types
  <2>2. CASE ~ UNCHANGED result
    <3>1. PICK t \in Threads, r \in Result(made') :
            r.kind # "dict" /\ result' = [result EXCEPT ![t] = r]
      BY <2>2
    <3>2. result \in [Threads -> Result(made)]
      BY DEF IInv, Types
    <3> QED BY <1>2, <3>1, <3>2, OneResult
  <2> QED BY <2>1, <2>2
<1>4. dicts' \in Seq(Dict(made'))
  BY <1>2, SeqMonotonic DEF IInv, Types
<1>5. cache' \in 0..Len(dicts')
  BY DEF IInv, Types, TypeOK
<1>6. Types'
  BY <1>3, <1>4, <1>5 DEF IInv, Types, TypeOK, Simple
<1>7. HandedOut'
  <2> SUFFICES ASSUME NEW u \in Threads, result'[u].kind = "dict"
               PROVE  result'[u].dict \in 1..Len(dicts') /\ result'[u].dict # cache'
    BY DEF HandedOut
  <2>1. result'[u] = result[u]
    BY <1>3
  <2>2. result[u].dict \in 1..Len(dicts) /\ result[u].dict # cache
    BY <2>1 DEF IInv, HandedOut
  <2>3. Len(dicts) \in Nat
    BY DEF IInv, Types
  <2> QED BY <2>1, <2>2, <2>3
<1>8. CacheMatchesRecords'
  <2> SUFFICES ASSUME cache' # 0
               PROVE  \E m \in 1..made' : dicts'[cache'] = DictOf(records', m)
    BY DEF CacheMatchesRecords
  <2>1. PICK m \in 1..made : dicts[cache] = DictOf(records, m)
    BY DEF IInv, CacheMatchesRecords
  <2>2. m \in 1..made'
    BY <1>1
  <2> QED BY <2>1, <2>2
<1> QED BY <1>6, <1>7, <1>8 DEF IInv

\* A reader is answered from a whole dict that is, or becomes, the cached one.
LEMMA AnswerKeepsIInv ==
  ASSUME IInv, NEW t \in Threads, made <= made', Simple', UNCHANGED records,
         NEW all \in Seq(Dict(made')), Len(dicts) <= Len(all), NEW d \in 1..Len(all),
         Answer(t, d, all), cache' = d, d = cache \/ Len(dicts) < d,
         \E m \in 1..made' : all[d] = DictOf(records, m)
  PROVE  IInv'
<1> DEFINE e == all[d]
           view == [kind |-> "view", dict |-> 0, bins |-> Values(e)]
           copy == [kind |-> "dict", dict |-> Len(all) + 1, bins |-> Values(e)]
<1>1. /\ made \in Nat /\ made' \in Nat /\ MaxMade \in Nat
      /\ Len(all) \in Nat /\ Len(dicts) \in Nat
  BY ViewsAssumption DEF IInv, Types, TypeOK, Simple
<1>2. Result(made) \subseteq Result(made')
  BY <1>1, MadeGrows
<1>3. e \in Dict(made') /\ Values(e) \subseteq Made(made')
  BY ElementOfSeq, ValuesAreMade
<1>4. view \in Result(made') /\ copy \in Result(made')
  BY <1>1, <1>3 DEF Result, Kinds
<1> HIDE DEF e
<1>5. result \in [Threads -> Result(made)]
  BY DEF IInv, Types
<1>6. /\ dicts' \in Seq(Dict(made'))
      /\ Len(dicts') \in Nat /\ Len(all) <= Len(dicts')
      /\ dicts'[d] = all[d]
      /\ result' \in [Threads -> Result(made')]
      /\ \A u \in Threads : \/ result'[u].kind # "dict"
                            \/ u # t /\ result'[u] = result[u]
                            \/ result'[u].dict = Len(all) + 1 /\ Len(all) + 1 = Len(dicts')
  <2>1. CASE pc[t] = "to_dict"
    <3>1. dicts' = Append(all, e) /\ result' = [result EXCEPT ![t] = copy]
      BY <2>1 DEF Answer, e
    <3>2. /\ dicts' \in Seq(Dict(made'))
          /\ Len(dicts') = Len(all) + 1
          /\ dicts'[d] = all[d]
      BY <1>3, <3>1, AppendProperties
    <3>3. copy.dict = Len(all) + 1
      OBVIOUS
    <3> HIDE DEF copy, view
    <3>4. /\ result' \in [Threads -> Result(made')]
          /\ result'[t] = copy
          /\ \A u \in Threads : u # t => result'[u] = result[u]
      BY <1>2, <1>4, <1>5, <3>1, OneResult
    <3> QED BY <1>1, <3>2, <3>3, <3>4
  <2>2. CASE pc[t] # "to_dict"
    <3>1. dicts' = all /\ result' = [result EXCEPT ![t] = view]
      BY <2>2 DEF Answer, e
    <3>2. view.kind # "dict"
      OBVIOUS
    <3> HIDE DEF copy, view
    <3>3. /\ result' \in [Threads -> Result(made')]
          /\ result'[t] = view
          /\ \A u \in Threads : u # t => result'[u] = result[u]
      BY <1>2, <1>4, <1>5, <3>1, OneResult
    <3> QED BY <1>1, <3>1, <3>2, <3>3
  <2> QED BY <2>1, <2>2
<1>7. cache' \in 0..Len(dicts')
  BY <1>1, <1>6
<1>8. Types'
  BY <1>6, <1>7 DEF IInv, Types, TypeOK, Simple
<1>9. HandedOut'
  <2> SUFFICES ASSUME NEW u \in Threads, result'[u].kind = "dict"
               PROVE  result'[u].dict \in 1..Len(dicts') /\ result'[u].dict # cache'
    BY DEF HandedOut
  <2>1. CASE result'[u].dict = Len(all) + 1 /\ Len(all) + 1 = Len(dicts')
    BY <1>1, <1>6, <2>1
  <2>2. CASE u # t /\ result'[u] = result[u]
    <3>1. result[u].dict \in 1..Len(dicts) /\ result[u].dict # cache
      BY <2>2 DEF IInv, HandedOut
    <3> QED BY <1>1, <1>6, <2>2, <3>1
  <2> QED BY <1>6, <2>1, <2>2
<1>10. CacheMatchesRecords'
  BY <1>6 DEF CacheMatchesRecords
<1> QED BY <1>8, <1>9, <1>10 DEF IInv

LEMMA ReadCachedKeepsIInv ==
  ASSUME IInv, NEW t \in Threads, ReadCached(t)
  PROVE  IInv'
<1>1. /\ UNCHANGED <<records, cache, poisoned, owner, made, dirty>>
      /\ Answer(t, cache, dicts) /\ cache # 0
      /\ pc' = [pc EXCEPT ![t] = "idle"]
  BY DEF ReadCached
<1>2. /\ dicts \in Seq(Dict(made')) /\ Len(dicts) \in Nat /\ made \in Nat
      /\ cache \in 1..Len(dicts)
  BY <1>1, ViewsAssumption DEF IInv, Types, TypeOK
<1>3. \E m \in 1..made' : dicts[cache] = DictOf(records, m)
  BY <1>1 DEF IInv, CacheMatchesRecords
<1>4. Simple'
  BY <1>1 DEF IInv, Types, TypeOK, Simple
<1> QED BY <1>1, <1>2, <1>3, <1>4, AnswerKeepsIInv

LEMMA BuiltKeepsIInv ==
  ASSUME IInv, NEW t \in Threads, Built(t)
  PROVE  IInv'
<1> DEFINE new == DictOf(records, made + 1)
           all == Append(dicts, new)
<1>1. /\ UNCHANGED <<records, poisoned, dirty>>
      /\ owner = t /\ owner' = NoThread
      /\ made' = made + 1
      /\ cache' = Len(dicts) + 1
      /\ Answer(t, Len(dicts) + 1, all)
      /\ pc' = [pc EXCEPT ![t] = "idle"]
  BY DEF Built
<1>2. made \in Nat /\ made <= MaxMade /\ MaxMade \in Nat
  BY <1>1, ViewsAssumption DEF IInv, Types, TypeOK
<1>3. Dict(made) \subseteq Dict(made') /\ Made(made) \subseteq Made(made')
  BY <1>1, <1>2, MadeGrows
<1>4. new \in Dict(made')
  BY <1>1, <1>2, DictIsMadeNow DEF IInv
<1> HIDE DEF new
<1>5. dicts \in Seq(Dict(made'))
  BY <1>3, SeqMonotonic DEF IInv, Types
<1>6. /\ all \in Seq(Dict(made'))
      /\ Len(all) = Len(dicts) + 1
      /\ all[Len(dicts) + 1] = new
      /\ Len(dicts) \in Nat
  BY <1>4, <1>5, AppendProperties
<1>7. \E m \in 1..made' : all[Len(dicts) + 1] = DictOf(records, m)
  BY <1>1, <1>2, <1>6 DEF new
<1>8. Simple'
  BY <1>1, <1>2, <1>3 DEF IInv, Types, TypeOK, Simple
<1> HIDE DEF all
<1> QED BY <1>1, <1>2, <1>6, <1>7, <1>8, AnswerKeepsIInv

\* A caller writes to its own copy.
LEMMA CallerAddsKeyKeepsIInv ==
  ASSUME IInv, NEW t \in Threads, CallerAddsKey(t)
  PROVE  IInv'
<1> DEFINE d == result[t].dict
           e == [k \in DOMAIN dicts[d] \cup {Ghost} |->
                    IF k = Ghost THEN NoBins ELSE dicts[d][k]]
<1>1. d \in 1..Len(dicts) /\ d # cache
  BY DEF IInv, HandedOut, CallerAddsKey
<1>2. dicts' = [dicts EXCEPT ![d] = e]
  BY DEF CallerAddsKey
<1>3. UNCHANGED <<records, cache, poisoned, owner, made, dirty, pc, result>>
  BY DEF CallerAddsKey
<1>4. dicts \in Seq(Dict(made)) /\ made \in Nat
  BY ViewsAssumption DEF IInv, Types, TypeOK
<1>5. e \in Dict(made)
  <2>0. dicts[d] \in Dict(made)
    BY <1>1, <1>4, ElementOfSeq
  <2>1. PICK S \in SUBSET (Keys \union {Ghost}) : dicts[d] \in [S -> Made(made)]
    BY <2>0 DEF Dict
  <2>2. NoBins \in Made(made)
    BY <1>4 DEF NoBins, Bins, Made
  <2>3. e \in [S \union {Ghost} -> Made(made)]
    BY <2>1, <2>2
  <2> QED BY <2>3 DEF Dict
<1> HIDE DEF e, d
<1>6. /\ dicts' \in Seq(Dict(made))
      /\ Len(dicts') = Len(dicts)
      /\ \A i \in 1..Len(dicts) : i # d => dicts'[i] = dicts[i]
  BY <1>1, <1>2, <1>4, <1>5, ExceptSeq
<1>7. Types'
  BY <1>3, <1>6 DEF IInv, Types, TypeOK
<1>8. HandedOut'
  BY <1>3, <1>6 DEF IInv, HandedOut
<1>9. CacheMatchesRecords'
  <2>1. cache # 0 => cache \in 1..Len(dicts)
    BY DEF IInv, Types, TypeOK
  <2> QED BY <1>1, <1>3, <1>6, <2>1 DEF IInv, CacheMatchesRecords
<1> QED BY <1>7, <1>8, <1>9 DEF IInv

\* A step that hands out no dict and makes no bins.
Quiet(t) ==
  /\ UNCHANGED <<dicts, records, made>>
  /\ cache' \in {cache, 0}
  /\ poisoned' \in BOOLEAN
  /\ owner' = owner \/ owner' = NoThread \/ (owner' = t /\ made < MaxMade)
  /\ pc' = pc \/ \E at \in {"idle", "to_dict", "view", "release"} : pc' = [pc EXCEPT ![t] = at]
  /\ dirty' = dirty \/ dirty' = dirty \cup result[t].bins
  /\ \/ UNCHANGED result
     \/ result' = [result EXCEPT ![t] = Nothing]
     \/ \E what \in {"RustPanicError", "TypeError", "PanicException"} :
           result' = [result EXCEPT ![t] = Raised(what)]

LEMMA QuietKeepsIInv ==
  ASSUME IInv, NEW t \in Threads, Quiet(t)
  PROVE  IInv'
<1>1. made \in Nat /\ MaxMade \in Nat /\ made' = made
  BY ViewsAssumption DEF IInv, Types, TypeOK, Quiet
<1>2. \A what \in {"RustPanicError", "TypeError", "PanicException"} :
        Raised(what) \in Result(made) /\ Raised(what).kind # "dict"
  BY DEF Raised, Result, Kinds
<1>3. Nothing \in Result(made) /\ Nothing.kind # "dict"
  BY DEF Nothing, Result, Kinds
<1>4. \/ UNCHANGED result
      \/ \E r \in Result(made') : r.kind # "dict" /\ result' = [result EXCEPT ![t] = r]
  BY <1>1, <1>2, <1>3 DEF Quiet
<1>5. /\ poisoned' \in BOOLEAN
      /\ owner' \in Threads \cup {NoThread}
      /\ owner' # NoThread => made <= MaxMade
  BY <1>1 DEF IInv, Types, TypeOK, Quiet
<1>6. pc' \in [Threads -> {"idle", "to_dict", "view", "release"}]
  BY DEF IInv, Types, TypeOK, Quiet
<1>7. dirty' \subseteq Made(made)
  <2>1. result[t].bins \subseteq Made(made)
    BY DEF IInv, Types, Result
  <2> QED BY <2>1 DEF IInv, Types, Quiet
<1>8. Simple'
  BY <1>1, <1>5, <1>6, <1>7 DEF IInv, Types, TypeOK, Simple
<1>9. UNCHANGED <<dicts, records>> /\ cache' \in {cache, 0} /\ made <= made'
  BY <1>1 DEF Quiet
<1> QED BY <1>4, <1>8, <1>9, DictsStay

LEMMA OthersAreQuiet ==
  ASSUME IInv, NEW t \in Threads,
         \/ ReadRefused(t) \/ ReadBuilds(t) \/ BuildFailed(t) \/ BuildPanicked(t)
         \/ PoisonCleared(t) \/ ReleaseLocked(t) \/ CallerWritesBins(t)
         \/ \E how \in {"to_dict", "view"} : ReadCalled(t, how)
  PROVE  Quiet(t)
<1>1. poisoned \in BOOLEAN
  BY DEF IInv, Types, TypeOK
<1>2. CASE ReadRefused(t)
  BY <1>1, <1>2 DEF ReadRefused, Quiet
<1>3. CASE ReadBuilds(t)
  BY <1>1, <1>3 DEF ReadBuilds, Quiet
<1>4. CASE BuildFailed(t)
  BY <1>1, <1>4 DEF BuildFailed, Quiet
<1>5. CASE BuildPanicked(t)
  BY <1>1, <1>5 DEF BuildPanicked, Quiet
<1>6. CASE PoisonCleared(t)
  BY <1>1, <1>6 DEF PoisonCleared, Quiet
<1>7. CASE ReleaseLocked(t)
  BY <1>1, <1>7 DEF ReleaseLocked, Quiet
<1>8. CASE CallerWritesBins(t)
  BY <1>1, <1>8 DEF CallerWritesBins, Quiet
<1>9. CASE \E how \in {"to_dict", "view"} : ReadCalled(t, how)
  BY <1>1, <1>9 DEF ReadCalled, Quiet
<1> QED BY <1>2, <1>3, <1>4, <1>5, <1>6, <1>7, <1>8, <1>9

\* The bins of a list or of a merged dict are made by the call that returns it.
LEMMA FreshIsMadeNow ==
  ASSUME IInv, NEW t \in Threads, NEW kind \in {"list", "merged"}, FreshCalled(t, kind)
  PROVE  \E r \in Result(made') :
           /\ result' = [result EXCEPT ![t] = r]
           /\ r.kind # "dict"
           /\ r.kind \in {"list", "merged"} => \A b \in r.bins : b.made = made + 1
<1> DEFINE ending == Ending(records, kind = "merged")
           objects == IF kind = "list"
                      THEN {Bins(made + 1, i) : i \in {j \in DOMAIN records :
                                ListOf(records, made + 1)[j] # NoBins}}
                      ELSE Values(DictOf(records, made + 1))
           r == CASE ending = "bins" -> [kind |-> kind, dict |-> 0, bins |-> objects]
                  [] ending = "odd" -> Raised("TypeError")
                  [] OTHER -> Raised("PanicException")
<1>1. /\ result' = [result EXCEPT ![t] = r]
      /\ made' = IF ending = "bins" THEN made + 1 ELSE made
  BY DEF FreshCalled
<1>2. made \in Nat /\ made + 1 \in Nat
  BY ViewsAssumption DEF IInv, Types, TypeOK
<1>3. objects \subseteq Made(made + 1) /\ \A b \in objects : b.made = made + 1
  <2>1. CASE kind = "list"
    <3>1. DOMAIN records \subseteq Nat
      BY DEF IInv, Types, TypeOK
    <3>2. \A i \in Nat : Bins(made + 1, i) \in Made(made + 1)
                           /\ Bins(made + 1, i).made = made + 1
      BY <1>2 DEF Bins, Made
    <3> QED BY <2>1, <3>1, <3>2
  <2>2. CASE kind # "list"
    BY <1>2, <2>2, DictIsMadeNow, ValuesAreMade DEF IInv
  <2> QED BY <2>1, <2>2
<1> HIDE DEF objects, ending
<1>4. CASE ending = "bins"
  <2>1. r = [kind |-> kind, dict |-> 0, bins |-> objects] /\ made' = made + 1
    BY <1>1, <1>4
  <2> HIDE DEF r
  <2>2. r \in Result(made')
    BY <1>3, <2>1 DEF Result, Kinds
  <2> QED BY <1>1, <1>3, <2>1, <2>2
<1>5. CASE ending # "bins"
  <2>1. r = Raised("TypeError") \/ r = Raised("PanicException")
    BY <1>5
  <2> HIDE DEF r
  <2>2. r \in Result(made') /\ r.kind \notin {"dict", "list", "merged"}
    BY <2>1 DEF Raised, Result, Kinds
  <2> QED BY <1>1, <2>2
<1> QED BY <1>4, <1>5

LEMMA FreshKeepsIInv ==
  ASSUME IInv, NEW t \in Threads, NEW kind \in {"list", "merged"}, FreshCalled(t, kind)
  PROVE  IInv'
<1>1. /\ UNCHANGED <<records, cache, poisoned, owner, dicts, dirty, pc>>
      /\ made' \in {made, made + 1} /\ made < MaxMade
  BY DEF FreshCalled
<1>2. made \in Nat /\ MaxMade \in Nat
  BY ViewsAssumption DEF IInv, Types, TypeOK
<1>3. Made(made) \subseteq Made(made')
  BY <1>1, <1>2, MadeGrows
<1>4. Simple'
  BY <1>1, <1>2, <1>3 DEF IInv, Types, TypeOK, Simple
<1>5. \E u \in Threads : \E r \in Result(made') :
        r.kind # "dict" /\ result' = [result EXCEPT ![u] = r]
  BY FreshIsMadeNow
<1>6. UNCHANGED <<dicts, records>> /\ cache' \in {cache, 0} /\ made <= made'
  BY <1>1, <1>2
<1> QED BY <1>4, <1>5, <1>6, DictsStay

LEMMA StutterKeepsIInv ==
  ASSUME IInv, UNCHANGED vars
  PROVE  IInv'
<1>1. made \in Nat
  BY ViewsAssumption DEF IInv, Types, TypeOK
<1>2. Simple'
  BY DEF IInv, Types, TypeOK, Simple, vars
<1> QED BY <1>1, <1>2, DictsStay DEF vars

LEMMA NextIInv == IInv /\ [Next]_vars => IInv'
<1> QED
  BY StutterKeepsIInv, ReadCachedKeepsIInv, BuiltKeepsIInv, CallerAddsKeyKeepsIInv,
     QuietKeepsIInv, OthersAreQuiet, FreshKeepsIInv
  DEF Next, Step

-------------------------------------------------------------------------------
(* What follows from it *)

\* The inductive invariant: what was made, who refers to it, and the dicts.
THEOREM Invariance == Spec => []IInv
  BY InitIInv, NextIInv, PTL DEF Spec

\* Every variable has its type; materialisations stay within their bound.
THEOREM TypeCorrect == Spec => []TypeOK
<1>1. IInv => TypeOK
  BY DEF IInv, Types
<1> QED BY <1>1, Invariance, PTL

\* The cached dict is one whole dict of the records that were read.
THEOREM CacheIsTrue == Spec => []CacheMatchesRecords
<1>1. IInv => CacheMatchesRecords
  BY DEF IInv
<1> QED BY <1>1, Invariance, PTL

-------------------------------------------------------------------------------
(* Results made afresh *)

\* An answer from the cache is a dict or a view.
LEMMA AnswerIsNotFresh ==
  ASSUME IInv, NEW t \in Threads, NEW u \in Threads, NEW d, NEW all, Answer(t, d, all),
         result'[u] # result[u]
  PROVE  result'[u].kind \notin {"list", "merged"}
<1> DEFINE copy == [kind |-> "dict", dict |-> Len(all) + 1, bins |-> Values(all[d])]
           view == [kind |-> "view", dict |-> 0, bins |-> Values(all[d])]
<1>0. /\ copy.kind = "dict" /\ view.kind = "view"
      /\ result' = [result EXCEPT ![t] = copy] \/ result' = [result EXCEPT ![t] = view]
  BY DEF Answer
<1> HIDE DEF copy, view
<1>1. PICK r : r.kind \in {"dict", "view"} /\ result' = [result EXCEPT ![t] = r]
  BY <1>0
<1>2. result \in [Threads -> Result(made)]
  BY DEF IInv, Types
<1>3. result'[u] = r
  BY <1>1, <1>2
<1> QED BY <1>1, <1>3

LEMMA QuietIsNotFresh ==
  ASSUME IInv, NEW t \in Threads, NEW u \in Threads, Quiet(t), result'[u] # result[u]
  PROVE  result'[u].kind \notin {"list", "merged"}
<1>1. PICK r : r.kind \notin {"list", "merged"} /\ result' = [result EXCEPT ![t] = r]
  <2>1. \A what \in {"RustPanicError", "TypeError", "PanicException"} :
          Raised(what).kind \notin {"list", "merged"}
    BY DEF Raised
  <2>2. Nothing.kind \notin {"list", "merged"}
    BY DEF Nothing
  <2> QED BY <2>1, <2>2 DEF Quiet
<1>2. result \in [Threads -> Result(made)]
  BY DEF IInv, Types
<1>3. result'[u] = r
  BY <1>1, <1>2
<1> QED BY <1>1, <1>3

\* What a caller has written to never shows in a list or a merged dict made later.
THEOREM FreshResultsStayClean == Spec => FreshResultsAreClean
<1>1. ASSUME IInv, Next, NEW u \in Threads, result'[u] # result[u],
             result'[u].kind \in {"list", "merged"}
      PROVE  result'[u].bins \cap dirty = {}
  <2>1. PICK t \in Threads :
          \/ ReadCached(t) \/ Built(t) \/ CallerAddsKey(t) \/ Quiet(t)
          \/ \E kind \in {"list", "merged"} : FreshCalled(t, kind)
    BY <1>1, OthersAreQuiet DEF Next, Step
  <2>2. ~ReadCached(t)
    BY <1>1, AnswerIsNotFresh DEF ReadCached
  <2>3. ~Built(t)
    BY <1>1, AnswerIsNotFresh DEF Built
  <2>4. ~Quiet(t)
    BY <1>1, QuietIsNotFresh
  <2>5. ~CallerAddsKey(t)
    BY <1>1 DEF CallerAddsKey
  <2>6. PICK kind \in {"list", "merged"} : FreshCalled(t, kind)
    BY <2>1, <2>2, <2>3, <2>4, <2>5
  <2>7. PICK r \in Result(made') :
          /\ result' = [result EXCEPT ![t] = r]
          /\ r.kind # "dict"
          /\ r.kind \in {"list", "merged"} => \A b \in r.bins : b.made = made + 1
    BY <1>1, <2>6, FreshIsMadeNow
  <2>8. result'[u] = r
    BY <1>1, <2>7 DEF IInv, Types
  <2>9. \A b \in dirty : b.made \in 0..made
    BY <1>1 DEF IInv, Types, Made
  <2>10. made \in Nat
    BY <1>1, ViewsAssumption DEF IInv, Types, TypeOK
  <2> QED BY <1>1, <2>7, <2>8, <2>9, <2>10
<1>2. IInv /\ [Next]_vars =>
        [\A t \in Threads :
           result'[t] # result[t] /\ result'[t].kind \in {"list", "merged"} =>
              result'[t].bins \cap dirty = {}]_vars
  BY <1>1
<1> QED BY <1>2, Invariance, PTL DEF Spec, FreshResultsAreClean

-------------------------------------------------------------------------------
(* The views *)

\* The records whose bins the positional views have.
Filled(recs) == {i \in 1..Len(recs) : Fine(recs[i]) /\ recs[i].body # "none"}

LEMMA ListSlots ==
  ASSUME NEW recs, Len(recs) \in Nat
  PROVE  /\ \A i \in 1..Len(recs) : (ListOf(recs, 1)[i] # NoBins) <=> i \in Filled(recs)
         /\ \A i \in Filled(recs) : ListOf(recs, 1)[i] = Bins(1, i)
BY DEF ListOf, Filled, NoBins, Bins

LEMMA RowSlots ==
  ASSUME NEW recs, Len(recs) \in Nat, \A i \in 1..Len(recs) : recs[i] \in Record
  PROVE  \A i \in 1..Len(recs) :
           /\ NumpyRows(recs)[i].filled <=> i \in Filled(recs)
           /\ NumpyRows(recs)[i].code = 0 <=> Fine(recs[i])
           /\ BatchRecords(recs)[i].result = 0 <=> Fine(recs[i])
           /\ BatchRecords(recs)[i].pending <=> recs[i].body # "none"
<1> SUFFICES ASSUME NEW i \in 1..Len(recs)
             PROVE  /\ NumpyRows(recs)[i].filled <=> i \in Filled(recs)
                    /\ NumpyRows(recs)[i].code = 0 <=> Fine(recs[i])
                    /\ BatchRecords(recs)[i].result = 0 <=> Fine(recs[i])
                    /\ BatchRecords(recs)[i].pending <=> recs[i].body # "none"
  OBVIOUS
<1>1. CodeInt(recs[i]) = 0 <=> Fine(recs[i])
  BY DEF CodeInt, Fine, Record
<1>2. /\ NumpyRows(recs)[i].filled <=> CodeInt(recs[i]) = 0 /\ recs[i].body # "none"
      /\ NumpyRows(recs)[i].code = CodeInt(recs[i])
  BY DEF NumpyRows
<1>3. /\ BatchRecords(recs)[i].result = CodeInt(recs[i])
      /\ BatchRecords(recs)[i].pending <=> recs[i].body # "none"
  BY DEF BatchRecords
<1> QED BY <1>1, <1>2, <1>3 DEF Filled

\* What __len__ counts are the records the dict is made of: as many as its keys
\* exactly where no key repeats.
LEMMA LenCountsKept ==
  ASSUME NEW recs, Len(recs) \in Nat
  PROVE  LET K == Kept(recs, Len(recs))
             D == {recs[i].key : i \in K}
         IN  /\ HandleLen(recs) = Cardinality(K)
             /\ Cardinality(K) = Cardinality(D) <=>
                  \A i, j \in K : recs[i].key = recs[j].key => i = j
<1> DEFINE K == Kept(recs, Len(recs))
           D == {recs[i].key : i \in K}
           f == [i \in K |-> recs[i].key]
<1>1. HandleLen(recs) = Cardinality(K)
  BY DEF HandleLen, Kept
<1>2. IsFiniteSet(K)
  <2>1. IsFiniteSet(1..Len(recs))
    BY FS_Interval
  <2>2. K \in SUBSET (1..Len(recs))
    BY DEF Kept
  <2> QED BY <2>1, <2>2, FS_Subset
<1> HIDE DEF K
<1>3. f \in Surjection(K, D)
  BY DEF Surjection
<1>4. (\A i, j \in K : recs[i].key = recs[j].key => i = j) <=> f \in Injection(K, D)
  BY <1>3 DEF Injection, Surjection, IsInjective
<1> HIDE DEF f, D
<1>5. Cardinality(D) = Cardinality(K) <=> f \in Injection(K, D)
  BY <1>2, <1>3, FS_Surjection
<1> QED BY <1>1, <1>4, <1>5 DEF K, D

\* The last found record with a key.
LastFound(recs, k) ==
  CHOOSE i \in Kept(recs, Len(recs)) :
    /\ UserKeys(recs)[i] = k
    /\ \A j \in Kept(recs, Len(recs)) : UserKeys(recs)[j] = k => j <= i

\* It is the one whose bins the dict and the list have, and the row that get()
\* finds unless a later record stands under that key in the map of the rows.
LEMMA LastFoundIsServed ==
  ASSUME NEW recs, Len(recs) \in Nat,
         NEW k, \E j \in Kept(recs, Len(recs)) : recs[j].key = k,
         NEW last, last = LastFound(recs, k)
  PROVE  /\ last \in Kept(recs, Len(recs))
         /\ DictUpTo(recs, 1, Len(recs))[k] = ListOf(recs, 1)[last]
         /\ KeyMap(recs)[k] = last
              <=> {j \in last+1..Len(recs) : MapKey(recs, j) = k} = {}
<1> DEFINE n == Len(recs)
           K == Kept(recs, n)
           keys == UserKeys(recs)
           S == {i \in K : recs[i].key = k}
           M == {i \in 1..n : MapKey(recs, i) = k}
           IsLast(i) == keys[i] = k /\ \A j \in K : keys[j] = k => j <= i
<1>1. K \subseteq 1..n /\ k # NoKey /\ \A i \in 1..n : keys[i] = recs[i].key
  BY DEF Kept, UserKeys
<1>2. S \subseteq 1..n /\ S # {}
  BY <1>1
<1>3. DictUpTo(recs, 1, n)[k] = Bins(1, Last(S))
  BY DEF DictUpTo
<1>4. \A i \in S : MapKey(recs, i) = k
  BY <1>1 DEF MapKey
<1> HIDE DEF K, S, keys
<1>5. Last(S) \in S /\ \A i \in S : i <= Last(S)
  BY <1>2, LastIsLast
<1>6. \A i \in K : keys[i] = k <=> i \in S
  BY <1>1 DEF S
<1>7. S \subseteq K
  BY DEF S
<1>8. \A i \in K : IsLast(i) <=> i = Last(S)
  <2> SUFFICES ASSUME NEW i \in K PROVE IsLast(i) <=> i = Last(S)
    OBVIOUS
  <2>1. i = Last(S) => IsLast(i)
    BY <1>5, <1>6
  <2>2. IsLast(i) => i \in S /\ Last(S) <= i /\ i <= Last(S)
    BY <1>5, <1>6, <1>7
  <2>3. i \in 1..n /\ Last(S) \in 1..n
    BY <1>1, <1>2, <1>5
  <2>4. i \in Int /\ Last(S) \in Int
    BY <2>3
  <2> QED BY <2>1, <2>2, <2>4
<1>9. last = Last(S)
  <2>1. last = CHOOSE i \in K : IsLast(i)
    BY DEF LastFound, K, keys
  <2>2. Last(S) \in K
    BY <1>5, <1>7
  <2> HIDE DEF IsLast
  <2> QED BY <1>8, <2>1, <2>2
<1>10. ListOf(recs, 1)[Last(S)] = Bins(1, Last(S))
  <2>1. Last(S) \in Filled(recs)
    BY <1>5 DEF S, K, Kept, Filled
  <2> QED BY <2>1, ListSlots
<1>11. KeyMap(recs)[k] = Last(M)
  <2>1. KeyMap(recs) = MapUpTo(recs, n)
    BY MapIsOfLast
  <2>2. k \in {MapKey(recs, i) : i \in 1..n}
    BY <1>2, <1>4, <1>5
  <2> QED BY <2>1, <2>2 DEF MapUpTo
<1>12. Last(M) = last <=> {j \in last+1..n : MapKey(recs, j) = k} = {}
  <2>1. last \in M /\ last \in 1..n /\ M \subseteq 1..n
    BY <1>2, <1>4, <1>5, <1>9
  <2>2. Last(M) \in M /\ \A i \in M : i <= Last(M)
    BY <2>1, LastIsLast
  <2>3. \A j \in last+1..n : j \in 1..n /\ ~(j <= last)
    BY <2>1
  <2>4. Last(M) \in 1..n /\ last <= Last(M)
    BY <2>1, <2>2
  <2>5. Last(M) # last => Last(M) \in last+1..n
    BY <2>1, <2>4
  <2>6. \A i \in M : MapKey(recs, i) = k
    OBVIOUS
  <2>7. \A i \in 1..n : MapKey(recs, i) = k => i \in M
    OBVIOUS
  <2> HIDE DEF M
  <2> QED BY <2>2, <2>3, <2>5, <2>6, <2>7
<1> QED BY <1>3, <1>5, <1>7, <1>9, <1>10, <1>11, <1>12 DEF K

LEMMA TypedViewsAgree == Types => ViewsAgree
<1> SUFFICES ASSUME Types PROVE ViewsAgree
  OBVIOUS
<1> DEFINE n == Len(records)
           d == DictOf(records, 1)
           l == ListOf(records, 1)
           rows == NumpyRows(records)
           keys == UserKeys(records)
           map == KeyMap(records)
           found == {i \in 1..n : l[i] # NoBins /\ keys[i] # NoKey}
           lastOf(k) == CHOOSE i \in found : keys[i] = k
                           /\ \A j \in found : keys[j] = k => j <= i
           K == Kept(records, n)
<1>1. n \in Nat /\ \A i \in 1..n : records[i] \in Record
  BY RecordsAreSeq
<1>2. Len(l) = n /\ Len(rows) = n /\ Len(keys) = n /\ Len(BatchRecords(records)) = n
  BY <1>1 DEF ListOf, NumpyRows, UserKeys, BatchRecords
<1>3. \A i \in 1..n :
        /\ (l[i] # NoBins) <=> i \in Filled(records)
        /\ rows[i].filled <=> i \in Filled(records)
        /\ rows[i].code = 0 <=> Fine(records[i])
        /\ BatchRecords(records)[i].result = 0 <=> Fine(records[i])
        /\ BatchRecords(records)[i].pending <=> records[i].body # "none"
  BY <1>1, ListSlots, RowSlots
<1>4. d = DictUpTo(records, 1, n)
  BY <1>1, DictIsOfLast
<1>5. DOMAIN d = {records[i].key : i \in K}
  BY <1>4 DEF DictUpTo
<1>6. \A i \in 1..n : keys[i] = records[i].key
  BY DEF UserKeys
<1>7. found = K
  BY <1>3, <1>6 DEF Kept, Filled
<1>8. K \subseteq 1..n
  BY DEF Kept
<1>9. \A k : lastOf(k) = LastFound(records, k)
  BY <1>7 DEF LastFound
<1> HIDE DEF d, l, rows, keys, map, found, lastOf, K
<1>10. \A i \in 1..n :
        /\ (l[i] # NoBins) = rows[i].filled
        /\ (l[i] # NoBins) = (BatchRecords(records)[i].result = 0
                                /\ BatchRecords(records)[i].pending)
  <2>1. \A i \in 1..n : rows[i].filled \in BOOLEAN
    BY DEF rows, NumpyRows
  <2>2. \A i \in 1..n : BatchRecords(records)[i].pending \in BOOLEAN
    BY DEF BatchRecords
  <2> QED BY <1>3, <2>1, <2>2 DEF Filled
<1>11. DOMAIN d = {keys[i] : i \in found}
  BY <1>5, <1>6, <1>7, <1>8
<1>12. ASSUME NEW k \in DOMAIN d
       PROVE  /\ d[k] = l[lastOf(k)]
              /\ map[k] = lastOf(k) <=> {j \in lastOf(k)+1..n : MapKey(records, j) = k} = {}
  <2>1. \E j \in K : records[j].key = k
    BY <1>5
  <2> QED BY <1>1, <1>4, <1>9, <2>1, LastFoundIsServed DEF K, l, map
<1>13. /\ HandleLen(records) = Cardinality(found)
       /\ HandleLen(records) = Cardinality(DOMAIN d) <=>
            \A i, j \in found : keys[i] = keys[j] => i = j
  <2>1. /\ HandleLen(records) = Cardinality(K)
        /\ Cardinality(K) = Cardinality(DOMAIN d) <=>
             \A i, j \in K : records[i].key = records[j].key => i = j
    BY <1>1, <1>5, LenCountsKept DEF K
  <2> QED BY <1>6, <1>7, <1>8, <2>1
<1>14. FoundCount(records) = Cardinality({i \in 1..n : rows[i].code = 0})
  <2>1. {i \in 1..n : Fine(records[i])} = {i \in 1..n : rows[i].code = 0}
    BY <1>3
  <2> QED BY <2>1 DEF FoundCount
<1>15. {Len(l), Len(rows), Len(keys), Len(BatchRecords(records))} = {n}
  BY <1>2
<1> QED
  BY <1>10, <1>11, <1>12, <1>13, <1>14, <1>15, Zenon
  DEF ViewsAgree, d, l, rows, keys, map, found, lastOf

\* The dict, the list, the NumPy rows, the handles and the counts of a batch of any
\* size agree with each other, and where repeated or made-up keys set them apart, it
\* is exactly as ViewsAgree says.
THEOREM ViewsAlwaysAgree == Spec => []ViewsAgree
<1>1. IInv => ViewsAgree
  BY TypedViewsAgree DEF IInv
<1> QED BY <1>1, Invariance, PTL
===============================================================================
