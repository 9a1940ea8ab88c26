--------------------------- MODULE BatchReadViews ---------------------------
(***************************************************************************)
(* The result of a batch_read, rust/src/batch_types.rs: a handle around    *)
(* the records of the response that offers several views of them (a dict   *)
(* by user key, a list by position, NumPy rows, user keys, counts), and a  *)
(* cache of the dict behind a mutex, shared by the threads that hold the   *)
(* handle.                                                                 *)
(*                                                                         *)
(* A record's bins are not modelled: the bins dict made from the record at *)
(* position i is an object that remembers i and the materialisation it     *)
(* belongs to, since objects of one materialisation may be shared.         *)
(***************************************************************************)
EXTENDS Naturals, Sequences, FiniteSets, TLC

CONSTANTS Keys,       \* user keys
          NoKey,      \* a digest-only request has no user key
          NoUserKey,  \* the string the rows' key map has for a digest-only
                      \* record, by position: some caller may use it as a key
          Ghost,      \* a key some caller puts into a dict it was given
          Threads,
          NoThread,
          MaxRecords, \* bound: records of a batch
          MaxDicts,   \* bound: dicts made or copied by the cache and to_dict()
          MaxMade     \* bound: materialisations of dicts and lists, one more
                      \* for a conversion that is under way

ASSUME ViewsAssumption ==
    /\ NoKey \notin Keys /\ Ghost \notin Keys \cup {NoKey}
    /\ NoThread \notin Threads
    /\ \A i, j \in 1..MaxRecords : NoUserKey[i] = NoUserKey[j] => i = j
    /\ MaxRecords \in Nat /\ MaxDicts \in Nat /\ MaxMade \in Nat

\* One record of the response. `code` is the Option<ResultCode> of the core
\* library, whose None every view takes for Ok. A "poison" body makes the
\* conversion panic, an "odd" one (a map with an unhashable key) makes it fail.
Record == [key: Keys \cup {NoKey}, code: {"ok", "failed"},
           body: {"none", "bins", "odd", "poison"}]

VARIABLES records,  \* the Arc<Vec<BatchRecord>>, never written
          cache,    \* cached_dict: number of the cached dict, or 0
          poisoned, \* the poison flag of the cache's mutex
          owner,    \* who holds that mutex, or NoThread
          dicts,    \* every Python dict made so far: user key -> bins object
          made,     \* how many times bins objects were made
          dirty,    \* bins objects some caller has written to
          pc,       \* what each thread is doing with the handle
          result    \* what the last call of each thread returned

vars == <<records, cache, poisoned, owner, dicts, made, dirty, pc, result>>

-----------------------------------------------------------------------------
(* The views, each as the code computes it *)

\* result_code_to_int, as far as the views tell codes apart.
CodeInt(r) == IF r.code = "failed" THEN 2 ELSE 0

\* `matches!(&br.result_code, None | Some(ResultCode::Ok))`
Fine(r) == r.code = "ok"

Bins(m, i) == [made |-> m, pos |-> i]
NoBins == Bins(0, 0)

\* batch_to_dict_py: one pass over the records; a later record with the same
\* user key replaces the earlier one.
DictOf(recs, m) ==
    LET upTo[n \in 0..Len(recs)] ==
            IF n = 0 THEN [k \in {} |-> 0]
            ELSE LET d == upTo[n - 1]
                     r == recs[n]
                 IN IF r.key = NoKey \/ ~Fine(r) \/ r.body = "none" THEN d
                    ELSE [k \in DOMAIN d \cup {r.key} |->
                             IF k = r.key THEN Bins(m, n) ELSE d[k]]
    IN upTo[Len(recs)]

\* The records batch_to_dict_py converts the body of; the first whose body
\* cannot be converted ends the pass.
Converted(recs, keyed) ==
    {i \in 1..Len(recs) :
        Fine(recs[i]) /\ recs[i].body # "none" /\ (keyed => recs[i].key # NoKey)}

Troubles(recs, keyed) ==
    {i \in Converted(recs, keyed) : recs[i].body \in {"odd", "poison"}}

Ending(recs, keyed) ==
    IF Troubles(recs, keyed) = {} THEN "bins"
    ELSE recs[CHOOSE i \in Troubles(recs, keyed) :
                 \A j \in Troubles(recs, keyed) : i <= j].body

\* Mutant: a body is converted whatever the record's code says.
ListOfAnyBody(recs, m) ==
    [i \in 1..Len(recs) |-> IF recs[i].body = "none" THEN NoBins ELSE Bins(m, i)]

\* batch_to_list_py: a slot per record, None for failures and misses.
ListOf(recs, m) ==
    [i \in 1..Len(recs) |->
        IF ~Fine(recs[i]) \/ recs[i].body = "none" THEN NoBins ELSE Bins(m, i)]

\* collect_user_keys
UserKeys(recs) == [i \in 1..Len(recs) |-> recs[i].key]

\* __len__
HandleLen(recs) ==
    Cardinality({i \in 1..Len(recs) :
        recs[i].key # NoKey /\ Fine(recs[i]) /\ recs[i].body # "none"})

\* found_count
FoundCount(recs) == Cardinality({i \in 1..Len(recs) : Fine(recs[i])})

\* batch_records and iter_records: a BatchRecord per record.
BatchRecords(recs) ==
    [i \in 1..Len(recs) |->
        [key |-> recs[i].key, result |-> CodeInt(recs[i]),
         pending |-> recs[i].body # "none"]]

\* The rows batch_to_numpy_py fills: its result code, and whether meta and
\* data were written (otherwise the row stays zero).
NumpyRows(recs) ==
    [i \in 1..Len(recs) |->
        [code |-> CodeInt(recs[i]),
         filled |-> CodeInt(recs[i]) = 0 /\ recs[i].body # "none"]]

\* key_map of batch_to_numpy_py: the last row of each key, whatever became of the
\* read; a digest-only record stands under a string made from its position.
MapKey(recs, i) == IF recs[i].key = NoKey THEN NoUserKey[i] ELSE recs[i].key

KeyMap(recs) ==
    LET upTo[n \in 0..Len(recs)] ==
            IF n = 0 THEN [x \in {} |-> 0]
            ELSE LET d == upTo[n - 1]
                     k == MapKey(recs, n)
                 IN [x \in DOMAIN d \cup {k} |-> IF x = k THEN n ELSE d[x]]
    IN upTo[Len(recs)]

-----------------------------------------------------------------------------
(* The handle and its callers *)

Nothing == [kind |-> "nothing", dict |-> 0, bins |-> {}]
Raised(what) == [kind |-> what, dict |-> 0, bins |-> {}]
Values(d) == {d[k] : k \in DOMAIN d \ {Ghost}}

Init ==
    /\ records \in UNION {[1..n -> Record] : n \in 0..MaxRecords}
    /\ cache = 0
    /\ poisoned = FALSE
    /\ owner = NoThread
    /\ dicts = <<>>
    /\ made = 0
    /\ dirty = {}
    /\ pc = [t \in Threads |-> "idle"]
    /\ result = [t \in Threads |-> Nothing]

\* A call on the handle that goes through cached_dict(): to_dict(), or one of
\* the mapping methods ("view": __getitem__, __contains__, get, __iter__,
\* items, values, keys), which hand out the cached dict's own bins.
ReadCalled(t, how) ==
    /\ pc[t] = "idle"
    /\ pc' = [pc EXCEPT ![t] = how]
    /\ UNCHANGED <<records, cache, poisoned, owner, dicts, made, dirty, result>>

\* lock() on a poisoned mutex: RustPanicError, and the mutex stays free.
ReadRefused(t) ==
    /\ pc[t] \in {"to_dict", "view"} /\ owner = NoThread /\ poisoned
    /\ pc' = [pc EXCEPT ![t] = "idle"]
    /\ result' = [result EXCEPT ![t] = Raised("RustPanicError")]
    /\ UNCHANGED <<records, cache, poisoned, owner, dicts, made, dirty>>

\* Mutant: to_dict() hands out the cached dict itself.
AnswerUncopied(t, d, all) ==
    /\ dicts' = all
    /\ result' = [result EXCEPT ![t] = [kind |-> "dict", dict |-> d, bins |-> Values(all[d])]]

\* What a reader gets from the cached dict: to_dict() copies the outer dict,
\* the copy refers to the same bins.
Answer(t, d, all) ==
    IF pc[t] = "to_dict"
    THEN /\ dicts' = Append(all, all[d])
         /\ result' = [result EXCEPT ![t] = [kind |-> "dict", dict |-> Len(all) + 1,
                                             bins |-> Values(all[d])]]
    ELSE /\ dicts' = all
         /\ result' = [result EXCEPT ![t] = [kind |-> "view", dict |-> 0,
                                             bins |-> Values(all[d])]]

\* cached_dict() finds the cache filled.
ReadCached(t) ==
    /\ pc[t] \in {"to_dict", "view"} /\ owner = NoThread /\ ~poisoned
    /\ cache # 0 /\ Len(dicts) < MaxDicts
    /\ Answer(t, cache, dicts)
    /\ pc' = [pc EXCEPT ![t] = "idle"]
    /\ UNCHANGED <<records, cache, poisoned, owner, made, dirty>>

\* cached_dict() finds it empty and starts to convert under the mutex.
ReadBuilds(t) ==
    /\ pc[t] \in {"to_dict", "view"} /\ owner = NoThread /\ ~poisoned
    /\ cache = 0 /\ Len(dicts) + 1 < MaxDicts /\ made < MaxMade
    /\ owner' = t
    /\ UNCHANGED <<records, cache, poisoned, dicts, made, dirty, pc, result>>

\* The conversion succeeds: the dict is stored whole, then the mutex released.
Built(t) ==
    /\ owner = t /\ Ending(records, TRUE) = "bins"
    /\ cache' = Len(dicts) + 1
    /\ Answer(t, cache', Append(dicts, DictOf(records, made + 1)))
    /\ made' = made + 1
    /\ owner' = NoThread
    /\ pc' = [pc EXCEPT ![t] = "idle"]
    /\ UNCHANGED <<records, poisoned, dirty>>

\* It fails with a Python error, which `?` returns: nothing is stored.
BuildFailed(t) ==
    /\ owner = t /\ Ending(records, TRUE) = "odd"
    /\ owner' = NoThread
    /\ pc' = [pc EXCEPT ![t] = "idle"]
    /\ result' = [result EXCEPT ![t] = Raised("TypeError")]
    /\ UNCHANGED <<records, cache, poisoned, dicts, made, dirty>>

\* It panics: the unwinding guard poisons the mutex.
BuildPanicked(t) ==
    /\ owner = t /\ Ending(records, TRUE) = "poison"
    /\ owner' = NoThread
    /\ poisoned' = TRUE
    /\ pc' = [pc EXCEPT ![t] = "idle"]
    /\ result' = [result EXCEPT ![t] = Raised("PanicException")]
    /\ UNCHANGED <<records, cache, dicts, made, dirty>>

\* Mutant: they answer from the cached dict when there is one.
FreshCalledCached(t, kind) ==
    /\ pc[t] = "idle" /\ made < MaxMade
    /\ result' = [result EXCEPT ![t] =
           [kind |-> kind, dict |-> 0,
            bins |-> IF cache # 0 THEN Values(dicts[cache])
                     ELSE Values(DictOf(records, made + 1))]]
    /\ made' = IF cache # 0 THEN made ELSE made + 1
    /\ UNCHANGED <<records, cache, poisoned, owner, dicts, dirty, pc>>

\* to_list() and merge_to_dict() convert on their own, past the cache.
FreshCalled(t, kind) ==
    /\ pc[t] = "idle" /\ made < MaxMade
    /\ LET ending == Ending(records, kind = "merged")
           objects == IF kind = "list"
                      THEN {Bins(made + 1, i) : i \in {j \in DOMAIN records :
                                ListOf(records, made + 1)[j] # NoBins}}
                      ELSE Values(DictOf(records, made + 1))
       IN /\ result' = [result EXCEPT ![t] =
                 CASE ending = "bins" -> [kind |-> kind, dict |-> 0, bins |-> objects]
                   [] ending = "odd" -> Raised("TypeError")
                   [] OTHER -> Raised("PanicException")]
          /\ made' = IF ending = "bins" THEN made + 1 ELSE made
    /\ UNCHANGED <<records, cache, poisoned, owner, dicts, dirty, pc>>

\* release_cache(): take the mutex, poisoned or not, and drop the dict ...
ReleaseLocked(t) ==
    /\ pc[t] = "idle" /\ owner = NoThread
    /\ cache' = 0
    /\ pc' = [pc EXCEPT ![t] = "release"]
    /\ UNCHANGED <<records, poisoned, owner, dicts, made, dirty, result>>

\* ... and clear the poison flag once the mutex is free again.
PoisonCleared(t) ==
    /\ pc[t] = "release"
    /\ poisoned' = FALSE
    /\ pc' = [pc EXCEPT ![t] = "idle"]
    /\ result' = [result EXCEPT ![t] = Nothing]
    /\ UNCHANGED <<records, cache, owner, dicts, made, dirty>>

\* A caller adds a key to the dict to_dict() gave it ...
CallerAddsKey(t) ==
    /\ pc[t] = "idle" /\ result[t].kind = "dict"
    /\ LET d == result[t].dict IN
       dicts' = [dicts EXCEPT ![d] =
                    [k \in DOMAIN @ \cup {Ghost} |-> IF k = Ghost THEN NoBins ELSE @[k]]]
    /\ UNCHANGED <<records, cache, poisoned, owner, made, dirty, pc, result>>

\* ... or writes to the bins it got with any kind of result.
CallerWritesBins(t) ==
    /\ pc[t] = "idle" /\ ~(result[t].bins \subseteq dirty)
    /\ dirty' = dirty \cup result[t].bins
    /\ UNCHANGED <<records, cache, poisoned, owner, dicts, made, pc, result>>

Step(t) ==
    \/ ReadRefused(t) \/ ReadCached(t) \/ ReadBuilds(t)
    \/ Built(t) \/ BuildFailed(t) \/ BuildPanicked(t) \/ PoisonCleared(t)

Next == \E t \in Threads :
    \/ \E how \in {"to_dict", "view"} : ReadCalled(t, how)
    \/ \E kind \in {"list", "merged"} : FreshCalled(t, kind)
    \/ ReleaseLocked(t)
    \/ Step(t)
    \/ CallerAddsKey(t) \/ CallerWritesBins(t)

Spec == Init /\ [][Next]_vars

\* Threads are interchangeable.
Symmetry == Permutations(Threads)

-----------------------------------------------------------------------------
(* Properties *)

TypeOK ==
    /\ records \in Seq(Record)
    /\ cache \in 0..Len(dicts)
    /\ poisoned \in BOOLEAN
    /\ owner \in Threads \cup {NoThread}
    /\ made \in 0..MaxMade + 1
    /\ pc \in [Threads -> {"idle", "to_dict", "view", "release"}]

\* The dict every reader is served from has exactly the records that were read,
\* under their last position, whatever callers do to the dicts they were given,
\* however conversions end and whenever the cache is released
\* (cached_dict, to_dict: "Mutating it will not affect future to_dict() calls").
CacheMatchesRecords ==
    cache # 0 => \E m \in 1..made : dicts[cache] = DictOf(records, m)

\* The views agree with each other: the positional ones have a slot per record
\* and the same misses, and the dict holds, under each key, the last found record
\* with that key. Where they differ, this says exactly when. len(handle) counts the
\* found records with a user key, which is the size of to_dict() if and only if none
\* of their keys repeats (types.md:105 and the comment of __len__ say "matches
\* len(to_dict())" of any batch). NumpyBatchRecords.get(k) finds the row the dict
\* has for k unless a later record hides it: one with that key that was not found,
\* or a digest-only one whose made-up string is that key.
ViewsAgree ==
    LET n == Len(records)
        d == DictOf(records, 1)
        l == ListOf(records, 1)
        rows == NumpyRows(records)
        keys == UserKeys(records)
        map == KeyMap(records)
        found == {i \in 1..n : l[i] # NoBins /\ keys[i] # NoKey}
    IN /\ {Len(l), Len(rows), Len(keys), Len(BatchRecords(records))} = {n}
       /\ \A i \in 1..n :
             /\ (l[i] # NoBins) = rows[i].filled
             /\ (l[i] # NoBins) = (BatchRecords(records)[i].result = 0
                                /\ BatchRecords(records)[i].pending)
       /\ DOMAIN d = {keys[i] : i \in found}
       /\ \A k \in DOMAIN d :
             LET last == CHOOSE i \in found : keys[i] = k /\ \A j \in found : keys[j] = k => j <= i
                 hiding == {j \in last+1..n : MapKey(records, j) = k}
             IN /\ d[k] = l[last]
                /\ map[k] = last <=> hiding = {}
       /\ HandleLen(records) = Cardinality(found)
       /\ HandleLen(records) = Cardinality(DOMAIN d) <=>
              \A i, j \in found : keys[i] = keys[j] => i = j
       /\ FoundCount(records) = Cardinality({i \in 1..n : rows[i].code = 0})

\* A list or a merged dict is made afresh: what a caller has written to the bins
\* of an earlier result never shows in it (to_list: "callers can mutate the
\* returned bins dicts freely").  It does show in a later to_dict(): that copy is
\* shallow, and its bins are the cache's.
FreshResultsAreClean ==
    [][\A t \in Threads :
          result'[t] # result[t] /\ result'[t].kind \in {"list", "merged"} =>
              result'[t].bins \cap dirty = {}]_vars
=============================================================================
