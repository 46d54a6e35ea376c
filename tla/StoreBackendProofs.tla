------------------------- MODULE StoreBackendProofs -------------------------
(***************************************************************************)
(* Proofs about StoreBackend, for every width of bytes, lengths and times, *)
(* every set of names without zero bytes, and both backends: the flat map  *)
(* of a backend follows the changelogs (StoreInv), restores rebuild the    *)
(* stores, lookups find what scans show, and the backends implement the    *)
(* contract StateStore.                                                    *)
(***************************************************************************)
EXTENDS StoreMapProofs

-----------------------------------------------------------------------------
(* The inductive invariant.                                                *)

\* What is logged and collected of store n.
Log(n) == changelog[n] \o collector[n]

\* How many records of its changelog a restore of store n may leave out.
Restored(n) ==
  IF backend = "memory" /\ ~opened THEN 0 ELSE ReadCheckpoint(n) + 1

\* How many records of its log the map reflects.
Reflected(n) == IF store[n] = "open" THEN Len(Log(n)) ELSE Restored(n)

LogsWritten ==
  \A n \in Names :
    /\ collector[n] \in Seq(Written(n)) /\ changelog[n] \in Seq(Written(n))
    /\ Len(changelog[n]) <= MaxInt64

Phases ==
  /\ backend \in {"pebble", "memory"} /\ opened \in BOOLEAN
  /\ \A n \in Names : /\ store[n] = "closed" => collector[n] = <<>>
                      /\ ~opened => store[n] = "closed"

CheckpointsLogged ==
  /\ fields \in [checkpoint : [Names -> Int], streamTime : Int]
  /\ \A n \in Names : backend = "pebble" \/ opened
       => ReadCheckpoint(n) \in -1 .. Len(changelog[n]) - 1

\* Both open and closed stores have what a part of their log says.
MapsAgree ==
  \A n \in Names : /\ MapWritten(data, n)
                   /\ Agrees(data, n, Log(n), Reflected(n))

StoreInv == KeysOwned /\ LogsWritten /\ Phases /\ CheckpointsLogged /\ MapsAgree

\* A key is where it was, with the value it had.
SameAt(k) ==
  /\ k \in DOMAIN data' <=> k \in DOMAIN data
  /\ k \in DOMAIN data => data'[k] = data[k]

SameMeta == SameAt(streamTimeKey) /\ \A n \in Names : SameAt(checkpointKey(n))

\* ReadCheckpoint reads the key or the field of its store, and nothing else.
LEMMA SameCheckpoint ==
  ASSUME NEW n \in Names, SameAt(checkpointKey(n)), backend' = backend,
         fields'.checkpoint[n] = fields.checkpoint[n]
  PROVE  ReadCheckpoint(n)' = ReadCheckpoint(n)
BY Zenon DEF ReadCheckpoint, SameAt

\* ReadStreamTime reads its key or field, and nothing else.
LEMMA SameStreamTime ==
  ASSUME SameAt(streamTimeKey), backend' = backend,
         fields'.streamTime = fields.streamTime
  PROVE  ReadStreamTime' = ReadStreamTime
BY Zenon DEF ReadStreamTime, SameAt

\* Writes for a store leave checkpoints and stream time alone.
LEMMA OwnChange ==
  ASSUME NEW n \in Names, \A k : k \notin Prefixed(n) => SameAt(k)
  PROVE  SameMeta
BY MetaOutside, Zenon DEF SameMeta, Prefixed

\* Changelog and collector are logs of their store, alone and together.
LEMMA LogTyped ==
  ASSUME LogsWritten, NEW n \in Names
  PROVE  /\ Log(n) \in Seq(Written(n))
         /\ collector[n] \in Seq(Written(n)) /\ changelog[n] \in Seq(Written(n))
         /\ collector[n] = <<>> => Log(n) = changelog[n]
<1>1. collector[n] \in Seq(Written(n)) /\ changelog[n] \in Seq(Written(n))
  BY Zenon DEF LogsWritten
<1>2. Log(n) \in Seq(Written(n))
  BY <1>1, ConcatAt, Zenon DEF Log
<1>3. changelog[n] \o <<>> = changelog[n]
  BY <1>1
<1> QED BY <1>1, <1>2, <1>3, Zenon DEF Log

\* A write for one store, while all are open.
LEMMA WriteFrame ==
  ASSUME StoreInv, NEW n \in Names, Write, KeysOwned', SameMeta,
         \A m \in Names \ {n} : SameFor(m) /\ collector'[m] = collector[m],
         collector'[n] \in Seq(Written(n)), MapWritten(data', n),
         Agrees(data', n, changelog[n] \o collector'[n], Len(changelog[n] \o collector'[n]))
  PROVE  StoreInv'
<1>1. /\ backend' = backend /\ fields' = fields /\ store' = store
      /\ opened' = opened /\ changelog' = changelog
      /\ \A m \in Names : store[m] = "open"
  BY Zenon DEF Write, Running
<1>2. LogsWritten'
  <2>1. ASSUME NEW m \in Names PROVE collector'[m] \in Seq(Written(m))
    BY Zenon DEF StoreInv, LogsWritten
  <2> QED BY <1>1, <2>1, Zenon DEF StoreInv, LogsWritten
<1>3. Phases'
  BY <1>1, Zenon DEF StoreInv, Phases
<1>4. CheckpointsLogged'
  <2>1. \A m \in Names : ReadCheckpoint(m)' = ReadCheckpoint(m)
    BY <1>1, SameCheckpoint, Zenon DEF SameMeta
  <2> QED BY <1>1, <2>1, Zenon DEF StoreInv, CheckpointsLogged
<1>5. ASSUME NEW m \in Names
      PROVE  MapWritten(data', m) /\ Agrees(data', m, Log(m)', Reflected(m)')
  <2>1. Reflected(m)' = Len(Log(m)') /\ Reflected(m) = Len(Log(m))
    BY <1>1, Zenon DEF Reflected
  <2>2. CASE m = n
    <3>1. Log(m)' = changelog[n] \o collector'[n]
      BY <1>1, <2>2, Zenon DEF Log
    <3> QED BY <2>1, <2>2, <3>1, Zenon
  <2>3. CASE m # n
    <3>1. Log(m)' = Log(m)
      BY <1>1, <2>3, Zenon DEF Log
    <3>2. SameMap(data, data', m)
      BY <2>3, Zenon DEF SameFor, SameMap
    <3>3. MapWritten(data, m) /\ Agrees(data, m, Log(m), Len(Log(m)))
      BY <2>1, Zenon DEF StoreInv, MapsAgree
    <3>4. MapWritten(data', m) /\ Agrees(data', m, Log(m), Len(Log(m)))
      BY <3>2, <3>3, SameAgrees, Zenon
    <3> QED BY <2>1, <3>1, <3>4, Zenon
  <2> QED BY <2>2, <2>3, Zenon
<1>6. MapsAgree'
  BY <1>5, Zenon DEF MapsAgree
<1> QED BY <1>2, <1>3, <1>4, <1>6, Zenon DEF StoreInv

\* Put and WindowPut.
LEMMA SetInv ==
  ASSUME StoreInv, NEW n \in Names, NEW e \in EntriesOf(n), NEW v \in Values,
         Set(n, FullKey(n, e), v)
  PROVE  /\ StoreInv' /\ Unaffected /\ SameMeta
         /\ View(data', n) = {x \in View(data, n) : x[1] # e} \cup {<<e, v>>}
<1> DEFINE full == FullKey(n, e)
           r == [key |-> full, val |-> Recorded(v)]
<1>1. full \in Prefixed(n) /\ full \in FullKeys(n)
  BY EntryBack, Zenon DEF FullKeys
<1>2. KeysOwned' /\ Unaffected
  BY <1>1, SetStep, Zenon DEF StoreInv
<1>3. r \in Written(n) /\ r.key = full /\ (r.val = v \/ (v = Empty /\ r.val = Nil))
  BY <1>1, Zenon DEF Written, Recorded
<1>4. data' = With(data, full, v) /\ Write
      /\ collector' = [collector EXCEPT ![n] = Append(@, r)]
  BY Zenon DEF Set
<1> HIDE DEF full, r
<1>5. \A m \in Names : store[m] = "open" /\ store' = store
  BY <1>4, Zenon DEF Write, Running
<1>6. collector \in [Names -> Seq(AnyMutation)]
  BY Zenon DEF StoreInv, KeysOwned
<1>7. collector'[n] = Append(collector[n], r)
      /\ \A m \in Names \ {n} : collector'[m] = collector[m]
  BY <1>4, <1>6, Zenon
<1>8. \A m \in Names \ {n} : SameFor(m)
  BY <1>2, <1>5, <1>7, Zenon DEF Unaffected
<1>9. SameMeta
  <2>1. \A k : k # full => SameAt(k)
    BY <1>4, Zenon DEF SameAt, With
  <2> QED BY <1>1, <2>1, OwnChange, Zenon
<1>10. /\ Log(n) \in Seq(Written(n))
       /\ collector[n] \in Seq(Written(n)) /\ changelog[n] \in Seq(Written(n))
  BY LogTyped, Zenon DEF StoreInv
<1>11. collector'[n] \in Seq(Written(n))
       /\ changelog[n] \o collector'[n] = Append(Log(n), r)
  <2>1. Append(collector[n], r) \in Seq(Written(n))
    BY <1>3, <1>10
  <2> DEFINE log == changelog[n]
             col == collector[n]
  <2>2. Log(n) = log \o col
    BY Zenon DEF Log
  <2> HIDE DEF log, col
  <2>3. log \o Append(col, r) = Append(log \o col, r)
    <3>1. log \in Seq(Written(n)) /\ col \in Seq(Written(n))
      BY <1>10, Zenon DEF log, col
    <3> QED BY <1>3, <3>1, ConcatAppend
  <2>4. changelog[n] \o collector'[n] = log \o Append(col, r)
    BY <1>7, Zenon DEF log, col
  <2> QED BY <1>7, <2>1, <2>2, <2>3, <2>4, Zenon
<1>12. MapWritten(data, n) /\ Agrees(data, n, Log(n), Len(Log(n)))
  BY <1>5, Zenon DEF StoreInv, MapsAgree, Reflected
<1>13. /\ MapWritten(data', n)
       /\ Agrees(data', n, Append(Log(n), r), Len(Append(Log(n), r)))
       /\ View(data', n) = {x \in View(data, n) : x[1] # e} \cup {<<e, v>>}
  BY <1>3, <1>4, <1>10, <1>12, SetAgrees DEF full
<1>14. StoreInv'
  BY <1>2, <1>4, <1>7, <1>8, <1>9, <1>11, <1>13, WriteFrame, Zenon
<1> QED BY <1>2, <1>9, <1>13, <1>14, Zenon

\* Appending twice is appending both.
LEMMA ConcatAssoc ==
  ASSUME NEW S, NEW a \in Seq(S), NEW b \in Seq(S), NEW c \in Seq(S)
  PROVE  a \o (b \o c) = (a \o b) \o c
OBVIOUS

\* Deletions: the keys in S go, and each leaves a tombstone.
LEMMA WithoutInv ==
  ASSUME StoreInv, NEW n \in Names, Write, KeysOwned',
         NEW S \in SUBSET FullKeys(n), NEW muts \in Seq(Written(n)),
         data' = Without(data, S),
         collector' = [collector EXCEPT ![n] = @ \o muts],
         \A i \in 1 .. Len(muts) : muts[i].val = Nil,
         \A f : f \in S <=> \E i \in 1 .. Len(muts) : muts[i].key = f,
         \A m \in Names \ {n} : SameFor(m)
  PROVE  StoreInv' /\ SameMeta
<1>1. \A m \in Names : store[m] = "open"
  BY Zenon DEF Write, Running
<1>2. collector \in [Names -> Seq(AnyMutation)]
  BY Zenon DEF StoreInv, KeysOwned
<1>3. collector'[n] = collector[n] \o muts
      /\ \A m \in Names \ {n} : collector'[m] = collector[m]
  BY <1>2, Zenon
<1>4. SameMeta
  <2>1. \A k : k \notin S => SameAt(k)
    BY Zenon DEF SameAt, Without
  <2>2. S \subseteq Prefixed(n)
    BY FullKeysOwned, Zenon
  <2> QED BY <2>1, <2>2, OwnChange, Zenon
<1>5. /\ Log(n) \in Seq(Written(n))
      /\ collector[n] \in Seq(Written(n)) /\ changelog[n] \in Seq(Written(n))
  BY LogTyped, Zenon DEF StoreInv
<1>6. collector'[n] \in Seq(Written(n))
  BY <1>3, <1>5, ConcatAt
<1>7. changelog[n] \o collector'[n] = Log(n) \o muts
  <2> DEFINE log == changelog[n]
             col == collector[n]
  <2>1. Log(n) = log \o col
    BY Zenon DEF Log
  <2> HIDE DEF log, col
  <2>2. log \o (col \o muts) = (log \o col) \o muts
    <3>1. log \in Seq(Written(n)) /\ col \in Seq(Written(n))
      BY <1>5, Zenon DEF log, col
    <3> QED BY <3>1, ConcatAssoc
  <2>3. changelog[n] \o collector'[n] = log \o (col \o muts)
    BY <1>3, Zenon DEF log, col
  <2> QED BY <2>1, <2>2, <2>3, Zenon
<1>8. MapWritten(data, n) /\ Agrees(data, n, Log(n), Len(Log(n)))
  BY <1>1, Zenon DEF StoreInv, MapsAgree, Reflected
<1>9. MapWritten(data', n) /\ Agrees(data', n, Log(n) \o muts, Len(Log(n) \o muts))
  BY <1>5, <1>8, WithoutAgrees, Zenon
<1> QED BY <1>3, <1>4, <1>6, <1>7, <1>9, WriteFrame, Zenon

\* Delete and WindowDelete.
LEMMA UnsetInv ==
  ASSUME StoreInv, NEW n \in Names, NEW e \in EntriesOf(n), Unset(n, FullKey(n, e))
  PROVE  /\ StoreInv' /\ Unaffected /\ SameMeta
         /\ View(data', n) = {x \in View(data, n) : x[1] \notin {e}}
<1> DEFINE full == FullKey(n, e)
           r == [key |-> full, val |-> Nil]
           muts == <<r>>
<1>1. full \in Prefixed(n) /\ full \in FullKeys(n)
  BY EntryBack, Zenon DEF FullKeys
<1>2. KeysOwned' /\ Unaffected
  BY <1>1, UnsetStep, Zenon DEF StoreInv
<1>3. r \in Written(n) /\ r.key = full /\ r.val = Nil
  BY <1>1, Zenon DEF Written
<1>4. data' = Without(data, {full}) /\ Write
      /\ collector' = [collector EXCEPT ![n] = Append(@, r)]
  BY Zenon DEF Unset
<1> HIDE DEF full, r
<1>5. \A m \in Names : store[m] = "open" /\ store' = store
  BY <1>4, Zenon DEF Write, Running
<1>6. collector \in [Names -> Seq(AnyMutation)] /\ collector[n] \in Seq(Written(n))
  BY Zenon DEF StoreInv, KeysOwned, LogsWritten
<1>7. collector'[n] = Append(collector[n], r)
      /\ \A m \in Names \ {n} : collector'[m] = collector[m]
  BY <1>4, <1>6, Zenon
<1>8. \A m \in Names \ {n} : SameFor(m)
  BY <1>2, <1>5, <1>7, Zenon DEF Unaffected
<1>9. muts \in Seq(Written(n)) /\ Len(muts) = 1 /\ muts[1] = r
  BY <1>3
<1>10. collector' = [collector EXCEPT ![n] = @ \o muts]
  <2>1. Append(collector[n], r) = collector[n] \o muts
    BY <1>3, <1>6
  <2> QED BY <1>4, <1>6, <2>1, Zenon
<1>11. /\ \A i \in 1 .. Len(muts) : muts[i].val = Nil
       /\ \A f : f \in {full} <=> \E i \in 1 .. Len(muts) : muts[i].key = f
  BY <1>3, <1>9
<1> HIDE DEF muts
<1>12. {full} \in SUBSET FullKeys(n)
  BY <1>1, Zenon
<1>13. StoreInv' /\ SameMeta
  BY <1>2, <1>4, <1>8, <1>9, <1>10, <1>11, <1>12, WithoutInv, Zenon
<1>14. View(data', n) = {x \in View(data, n) : x[1] \notin {e}}
  <2>1. KeysOf(data, n, {full}, {e})
    BY OneEntry, Zenon DEF KeysOf, full
  <2>2. {e} \in SUBSET EntriesOf(n)
    BY Zenon
  <2>3. View(Without(data, {full}), n) = {x \in View(data, n) : x[1] \notin {e}}
    BY <2>1, <2>2, WithoutView
  <2> QED BY <1>4, <2>3, Zenon
<1> QED BY <1>2, <1>13, <1>14, Zenon

\* DeleteRangeBytes over the entries of one key.
LEMMA DeleteRangeInv ==
  ASSUME StoreInv, NEW n \in WindowNames, NEW k \in Keys,
         DeleteRangeBytes(n, WindowKeyLowerBound(k), WindowKeyUpperBound(k))
  PROVE  /\ StoreInv' /\ Unaffected /\ SameMeta
         /\ View(data', n) = {x \in View(data, n) : x[1] \notin {k} \X Starts}
         /\ \A m \in Names \ {n} : collector'[m] = collector[m]
<1> DEFINE S == RangeCompositeBytes(n, WindowKeyLowerBound(k), WindowKeyUpperBound(k))
<1>1. n \in Names /\ \A l \in Keys, start \in Starts : <<l, start>> \in EntriesOf(n)
  BY StoreAssumption, Zenon DEF EntriesOf
<1>2. KeysOwned' /\ Unaffected
  BY <1>1, DeleteRangeStep, Zenon DEF StoreInv
<1>3. PICK len \in 0 .. Cardinality(S) : \E order \in [1 .. len -> S] :
        /\ S = {order[i] : i \in 1 .. len}
        /\ collector' = [collector EXCEPT ![n] =
             @ \o [i \in 1 .. len |-> [key |-> order[i], val |-> Nil]]]
  BY Zenon DEF DeleteRangeBytes
<1>4. PICK order \in [1 .. len -> S] :
        /\ S = {order[i] : i \in 1 .. len}
        /\ collector' = [collector EXCEPT ![n] =
             @ \o [i \in 1 .. len |-> [key |-> order[i], val |-> Nil]]]
  BY <1>3, Zenon
<1>5. len \in Nat
  OBVIOUS
<1>6. Write /\ store' = store /\ data' = Without(data, S)
  BY Zenon DEF DeleteRangeBytes, Write
<1>7. S = {f \in DOMAIN data : \E start \in Starts : f = FullKey(n, <<k, start>>)}
  BY <1>1, KeyRange, Zenon DEF StoreInv, MapsAgree
<1> HIDE DEF S
<1>8. S \in SUBSET FullKeys(n)
  BY <1>1, <1>7, Zenon DEF FullKeys
<1> DEFINE muts == [i \in 1 .. len |-> [key |-> order[i], val |-> Nil]]
<1>9. /\ muts \in Seq(Written(n)) /\ Len(muts) = len
      /\ \A i \in 1 .. len : muts[i].key = order[i] /\ muts[i].val = Nil
  <2>1. ASSUME NEW i \in 1 .. len PROVE [key |-> order[i], val |-> Nil] \in Written(n)
    BY <1>8, Zenon DEF Written
  <2> QED BY <2>1, <1>5
<1>10. collector' = [collector EXCEPT ![n] = @ \o muts]
  BY <1>4, Zenon
<1> HIDE DEF muts
<1>11. \A f : f \in S <=> \E i \in 1 .. Len(muts) : muts[i].key = f
  BY <1>4, <1>9, Zenon
<1>12. \A m \in Names \ {n} : collector'[m] = collector[m]
  BY <1>10, Zenon DEF StoreInv, KeysOwned
<1>13. \A m \in Names \ {n} : SameFor(m)
  BY <1>2, <1>6, <1>12, Zenon DEF Unaffected
<1>14. \A i \in 1 .. Len(muts) : muts[i].val = Nil
  BY <1>9, Zenon
<1>15. StoreInv' /\ SameMeta
  BY <1>1, <1>2, <1>6, <1>8, <1>9, <1>10, <1>11, <1>13, <1>14, WithoutInv, Zenon
<1>16. View(data', n) = {x \in View(data, n) : x[1] \notin {k} \X Starts}
  <2>1. {k} \X Starts \in SUBSET EntriesOf(n)
    BY Zenon DEF EntriesOf
  <2>2. ASSUME NEW d \in EntriesOf(n), FullKey(n, d) \in DOMAIN data
        PROVE  FullKey(n, d) \in S <=> d \in {k} \X Starts
    <3>1. ASSUME FullKey(n, d) \in S PROVE d \in {k} \X Starts
      <4>1. PICK start \in Starts : FullKey(n, d) = FullKey(n, <<k, start>>)
        BY <1>7, <3>1, Zenon
      <4>2. d = <<k, start>>
        BY <1>1, <4>1, OneEntry, Zenon
      <4> QED BY <4>2, Zenon
    <3>2. ASSUME d \in {k} \X Starts PROVE FullKey(n, d) \in S
      <4>1. PICK start \in Starts : d = <<k, start>>
        BY <3>2
      <4> QED BY <1>7, <2>2, <4>1, Zenon
    <3> QED BY <3>1, <3>2, Zenon
  <2>3. KeysOf(data, n, S, {k} \X Starts)
    BY <2>2, Zenon DEF KeysOf
  <2>4. View(Without(data, S), n) = {x \in View(data, n) : x[1] \notin {k} \X Starts}
    BY <1>1, <2>1, <2>3, WithoutView
  <2> QED BY <1>6, <2>4, Zenon
<1> QED BY <1>2, <1>12, <1>15, <1>16, Zenon

\* A store whose keys, log and reflected part stay as they are.
LEMMA KeptAgrees ==
  ASSUME StoreInv, NEW m \in Names, SameFor(m), Log(m)' = Log(m),
         Reflected(m)' = Reflected(m)
  PROVE  MapWritten(data', m) /\ Agrees(data', m, Log(m)', Reflected(m)')
<1>1. SameMap(data, data', m)
  BY Zenon DEF SameFor, SameMap
<1>2. MapWritten(data, m) /\ Agrees(data, m, Log(m), Reflected(m))
  BY Zenon DEF StoreInv, MapsAgree
<1>3. MapWritten(data', m) /\ Agrees(data', m, Log(m), Reflected(m))
  BY <1>1, <1>2, SameAgrees, Zenon
<1> QED BY <1>3, Zenon

\* Draining moves what was collected to the changelog.
LEMMA DrainInv ==
  ASSUME StoreInv, NEW n \in Names, DrainMutations(n)
  PROVE  StoreInv' /\ data' = data
<1>1. KeysOwned'
  BY DrainStep, Zenon DEF StoreInv
<1>2. /\ changelog' = [changelog EXCEPT ![n] = @ \o collector[n]]
      /\ collector' = [collector EXCEPT ![n] = <<>>]
      /\ data' = data /\ store' = store /\ backend' = backend /\ fields' = fields
      /\ opened' = opened
      /\ Len(changelog[n] \o collector[n]) <= MaxInt64
      /\ \A m \in Names : store[m] = "open"
  BY Zenon DEF DrainMutations, Running
<1>3. collector \in [Names -> Seq(AnyMutation)] /\ changelog \in [Names -> Seq(AnyMutation)]
  BY Zenon DEF StoreInv, KeysOwned
<1>4. /\ changelog'[n] = Log(n) /\ collector'[n] = <<>>
      /\ \A m \in Names \ {n} : changelog'[m] = changelog[m] /\ collector'[m] = collector[m]
  BY <1>2, <1>3, Zenon DEF Log
<1>5. ASSUME NEW m \in Names
      PROVE  /\ Log(m) \in Seq(Written(m))
             /\ collector[m] \in Seq(Written(m)) /\ changelog[m] \in Seq(Written(m))
  BY LogTyped, Zenon DEF StoreInv
<1>6. Len(Log(n)) \in Nat /\ Len(changelog[n]) \in Nat /\ Len(changelog[n]) <= Len(Log(n))
  <2>1. Len(Log(n)) = Len(changelog[n]) + Len(collector[n])
        /\ Len(changelog[n]) \in Nat /\ Len(collector[n]) \in Nat
    BY <1>5, ConcatAt DEF Log
  <2>2. \A a, b \in Nat : a + b \in Nat /\ a <= a + b
    OBVIOUS
  <2> QED BY <2>1, <2>2, Zenon
<1>7. LogsWritten'
  <2>1. ASSUME NEW m \in Names
        PROVE  collector'[m] \in Seq(Written(m)) /\ changelog'[m] \in Seq(Written(m))
               /\ Len(changelog'[m]) <= MaxInt64
    <3>1. CASE m = n
      <4>1. <<>> \in Seq(Written(n))
        OBVIOUS
      <4> QED BY <1>2, <1>4, <1>5, <3>1, <4>1, Zenon DEF Log
    <3>2. CASE m # n
      BY <1>4, <1>5, <3>2, Zenon DEF StoreInv, LogsWritten
    <3> QED BY <3>1, <3>2, Zenon
  <2> QED BY <2>1, Zenon DEF LogsWritten
<1>8. Phases'
  BY <1>2, Zenon DEF StoreInv, Phases
<1>9. CheckpointsLogged'
  <2>1. \A m \in Names : ReadCheckpoint(m)' = ReadCheckpoint(m)
    BY <1>2, SameCheckpoint, Zenon DEF SameAt
  <2>2. ASSUME NEW m \in Names, backend = "pebble" \/ opened
        PROVE  ReadCheckpoint(m) \in -1 .. Len(changelog'[m]) - 1
    <3>1. ReadCheckpoint(m) \in -1 .. Len(changelog[m]) - 1
      BY <2>2, Zenon DEF StoreInv, CheckpointsLogged
    <3>2. CASE m = n
      BY <1>4, <1>6, <3>1, <3>2
    <3>3. CASE m # n
      BY <1>4, <3>1, <3>3, Zenon
    <3> QED BY <3>2, <3>3, Zenon
  <2> QED BY <1>2, <2>1, <2>2, Zenon DEF StoreInv, CheckpointsLogged
<1>10. ASSUME NEW m \in Names
       PROVE  MapWritten(data', m) /\ Agrees(data', m, Log(m)', Reflected(m)')
  <2>1. Log(m)' = Log(m)
    <3>1. CASE m = n
      <4>1. Log(m)' = Log(m) \o <<>>
        BY <1>4, <3>1, Zenon DEF Log
      <4>2. Log(m) \o <<>> = Log(m)
        <5> DEFINE log == Log(m)
        <5>1. log \in Seq(Written(m))
          BY <1>5, Zenon
        <5> HIDE DEF log
        <5>2. log \o <<>> = log
          BY <5>1
        <5> QED BY <5>2, Zenon DEF log
      <4> QED BY <4>1, <4>2, Zenon
    <3>2. CASE m # n
      BY <1>4, <3>2, Zenon DEF Log
    <3> QED BY <3>1, <3>2, Zenon
  <2>2. Reflected(m)' = Reflected(m)
    BY <1>2, <2>1, Zenon DEF Reflected
  <2>3. SameFor(m)
    BY <1>2, Zenon DEF SameFor
  <2> QED BY <2>1, <2>2, <2>3, KeptAgrees, Zenon
<1>11. MapsAgree'
  BY <1>10, Zenon DEF MapsAgree
<1> QED BY <1>1, <1>2, <1>7, <1>8, <1>9, <1>11, Zenon DEF StoreInv

\* Each store has a checkpoint key of its own, and none is the stream time's.
LEMMA CheckpointKeys ==
  ASSUME NEW n \in Names
  PROVE  /\ checkpointKey(n) # streamTimeKey
         /\ \A m \in Names : checkpointKey(m) = checkpointKey(n) => m = n
<1> DEFINE h == <<0, 1, 0>>
<1>1. h \in Seq(Int) /\ Len(h) = 3
  OBVIOUS
<1>2. ASSUME NEW m \in Names PROVE m \in Seq(Int) /\ Len(m) \in Nat \ {0}
  <2>1. m \in Seq(1 .. ByteMax) /\ m # <<>> /\ ByteMax \in Nat
    BY StoreAssumption, ByteKeysAssumption, Zenon
  <2> QED BY <2>1
<1> HIDE DEF h
<1>3. ASSUME NEW m \in Names
      PROVE  /\ Len(h \o m) = 3 + Len(m)
             /\ \A i \in 1 .. Len(m) : (h \o m)[3 + i] = m[i]
  <2>1. /\ Len(h \o m) = Len(h) + Len(m)
        /\ \A i \in 1 .. Len(m) : (h \o m)[Len(h) + i] = m[i]
    <3>1. m \in Seq(Int) /\ h \in Seq(Int)
      BY <1>1, <1>2, Zenon
    <3> QED BY <3>1, ConcatAt
  <2> QED BY <1>1, <2>1, Zenon
<1>4. \A m \in Names : checkpointKey(m) = h \o m
  BY Zenon DEF checkpointKey, h
<1>5. checkpointKey(n) # streamTimeKey
  <2>1. Len(streamTimeKey) = 3
    BY Zenon DEF streamTimeKey
  <2>2. Len(h \o n) # 3
    BY <1>2, <1>3
  <2> QED BY <1>4, <2>1, <2>2, Zenon
<1>6. ASSUME NEW m \in Names, h \o m = h \o n PROVE m = n
  <2>1. Len(m) = Len(n)
    BY <1>2, <1>3, <1>6
  <2>2. \A i \in 1 .. Len(n) : m[i] = n[i]
    BY <1>3, <1>6, <2>1, Zenon
  <2> QED BY <1>2, <2>1, <2>2
<1> QED BY <1>4, <1>5, <1>6, Zenon

\* WriteStreamTime: a field of memory, a key of its own in Pebble.
LEMMA StreamTimeInv ==
  ASSUME StoreInv, NEW t \in Times, WriteStreamTime(t)
  PROVE  StoreInv' /\ \A m \in Names : SameFor(m)
<1>1. KeysOwned' /\ Unaffected
  BY StreamTimeStep, Zenon DEF StoreInv
<1>2. /\ store' = store /\ collector' = collector /\ changelog' = changelog
      /\ backend' = backend /\ opened' = opened
  BY Zenon DEF WriteStreamTime
<1>3. \A m \in Names : SameFor(m)
  BY <1>1, <1>2, Zenon DEF Unaffected
<1>4. fields' \in [checkpoint : [Names -> Int], streamTime : Int]
      /\ fields'.checkpoint = fields.checkpoint
  <2>1. t \in Int
    BY StoreAssumption
  <2>2. fields \in [checkpoint : [Names -> Int], streamTime : Int]
    BY Zenon DEF StoreInv, CheckpointsLogged
  <2>3. fields' = fields \/ fields' = [fields EXCEPT !.streamTime = t]
    BY Zenon DEF WriteStreamTime
  <2> QED BY <2>1, <2>2, <2>3, Zenon
<1>5. \A m \in Names : ReadCheckpoint(m)' = ReadCheckpoint(m)
  <2>1. ASSUME NEW k, k # streamTimeKey PROVE SameAt(k)
    BY <2>1 DEF WriteStreamTime, With, SameAt
  <2>2. \A m \in Names : SameAt(checkpointKey(m))
    BY <2>1, CheckpointKeys, Zenon
  <2> QED BY <1>2, <1>4, <2>2, SameCheckpoint, Zenon
<1>6. LogsWritten' /\ Phases'
  BY <1>2, Zenon DEF StoreInv, LogsWritten, Phases
<1>7. CheckpointsLogged'
  BY <1>2, <1>4, <1>5, Zenon DEF StoreInv, CheckpointsLogged
<1>8. ASSUME NEW m \in Names
      PROVE  MapWritten(data', m) /\ Agrees(data', m, Log(m)', Reflected(m)')
  <2>1. Log(m)' = Log(m)
    BY <1>2, Zenon DEF Log
  <2>2. Reflected(m)' = Reflected(m)
    BY <1>2, <1>5, <2>1, Zenon DEF Reflected, Restored
  <2> QED BY <1>3, <2>1, <2>2, KeptAgrees, Zenon
<1>9. MapsAgree'
  BY <1>8, Zenon DEF MapsAgree
<1> QED BY <1>1, <1>3, <1>6, <1>7, <1>9, Zenon DEF StoreInv

\* Opening the backend.
LEMMA OpenInv ==
  ASSUME StoreInv, Open
  PROVE  StoreInv'
<1>1. /\ ~opened /\ opened' = TRUE /\ fields' = NoFields /\ backend' = backend
      /\ data' = data /\ store' = store /\ collector' = collector
      /\ changelog' = changelog
  BY Zenon DEF Open
<1>2. KeysOwned'
  BY <1>1, Zenon DEF StoreInv, KeysOwned
<1>3. LogsWritten' /\ Phases'
  BY <1>1, Zenon DEF StoreInv, LogsWritten, Phases
<1>4. ASSUME NEW m \in Names
      PROVE  /\ backend = "memory" => ReadCheckpoint(m)' = -1
             /\ backend = "pebble" => ReadCheckpoint(m)' = ReadCheckpoint(m)
  BY <1>1, Zenon DEF ReadCheckpoint, NoFields
<1>5. backend \in {"pebble", "memory"}
  BY Zenon DEF StoreInv, Phases
<1>6. CheckpointsLogged'
  <2>1. fields' \in [checkpoint : [Names -> Int], streamTime : Int]
    BY <1>1 DEF NoFields
  <2>2. ASSUME NEW m \in Names PROVE ReadCheckpoint(m)' \in -1 .. Len(changelog[m]) - 1
    <3>1. Len(changelog[m]) \in Nat
      BY DEF StoreInv, LogsWritten
    <3>2. CASE backend = "memory"
      BY <1>4, <3>1, <3>2
    <3>3. CASE backend = "pebble"
      BY <1>4, <3>3, Zenon DEF StoreInv, CheckpointsLogged
    <3> QED BY <1>5, <3>2, <3>3, Zenon
  <2> QED BY <1>1, <2>1, <2>2, Zenon DEF CheckpointsLogged
<1>7. ASSUME NEW m \in Names
      PROVE  MapWritten(data', m) /\ Agrees(data', m, Log(m)', Reflected(m)')
  <2>1. Log(m)' = Log(m)
    BY <1>1, Zenon DEF Log
  <2>2. Restored(m)' = Restored(m)
    BY <1>1, <1>4, <1>5 DEF Restored
  <2>3. Reflected(m)' = Reflected(m)
    BY <1>1, <2>1, <2>2, Zenon DEF Reflected
  <2>4. SameFor(m)
    BY <1>1, Zenon DEF SameFor
  <2> QED BY <2>1, <2>3, <2>4, KeptAgrees, Zenon
<1>8. MapsAgree'
  BY <1>7, Zenon DEF MapsAgree
<1> QED BY <1>2, <1>3, <1>6, <1>8, Zenon DEF StoreInv

\* The part of a changelog a restore leaves out.
LEMMA RestoredRange ==
  ASSUME StoreInv, NEW n \in Names
  PROVE  /\ Restored(n) \in 0 .. Len(changelog[n]) /\ Len(changelog[n]) \in Nat
         /\ changelog[n] \in Seq(Written(n))
<1>1. Len(changelog[n]) \in Nat /\ changelog[n] \in Seq(Written(n))
  BY DEF StoreInv, LogsWritten
<1>2. CASE backend = "memory" /\ ~opened
  BY <1>1, <1>2 DEF Restored
<1>3. CASE ~(backend = "memory" /\ ~opened)
  <2>1. ReadCheckpoint(n) \in -1 .. Len(changelog[n]) - 1
    BY <1>3, Zenon DEF StoreInv, Phases, CheckpointsLogged
  <2>2. PICK c \in -1 .. Len(changelog[n]) - 1 : c = ReadCheckpoint(n)
    BY <2>1, Zenon
  <2>3. c + 1 \in 0 .. Len(changelog[n])
    BY <1>1
  <2> QED BY <1>1, <1>3, <2>2, <2>3, Zenon DEF Restored
<1> QED BY <1>2, <1>3, Zenon

\* Another instance appends to the changelog of a closed store.
LEMMA ElsewhereInv ==
  ASSUME StoreInv, NEW n \in Names, NEW e \in EntriesOf(n),
         NEW v \in Values \cup {Nil}, Elsewhere(n, e, v)
  PROVE  StoreInv'
<1> DEFINE r == [key |-> FullKey(n, e), val |-> Recorded(v)]
<1>1. KeysOwned'
  BY ElsewhereStep, Zenon DEF StoreInv
<1>2. r \in Written(n)
  BY Zenon DEF Written, Recorded, FullKeys
<1>3. /\ ~opened /\ Len(changelog[n]) < MaxInt64
      /\ changelog' = [changelog EXCEPT ![n] = Append(@, r)]
      /\ backend' = backend /\ data' = data /\ fields' = fields /\ store' = store
      /\ opened' = opened /\ collector' = collector
  BY Zenon DEF Elsewhere
<1> HIDE DEF r
<1>4. changelog \in [Names -> Seq(AnyMutation)] /\ MaxInt64 \in Nat
  BY MaxInt64Assumption, Zenon DEF StoreInv, KeysOwned
<1>5. changelog'[n] = Append(changelog[n], r)
      /\ \A m \in Names \ {n} : changelog'[m] = changelog[m]
  BY <1>3, <1>4, Zenon
<1>6. ASSUME NEW m \in Names
      PROVE  /\ Restored(m) \in 0 .. Len(changelog[m]) /\ Len(changelog[m]) \in Nat
             /\ changelog[m] \in Seq(Written(m))
  BY RestoredRange, Zenon
<1>7. /\ changelog'[n] \in Seq(Written(n)) /\ Len(changelog'[n]) = Len(changelog[n]) + 1
      /\ \A i \in 1 .. Len(changelog[n]) : changelog'[n][i] = changelog[n][i]
  <2>1. \A s \in Seq(Written(n)) :
          /\ Append(s, r) \in Seq(Written(n)) /\ Len(Append(s, r)) = Len(s) + 1
          /\ \A i \in 1 .. Len(s) : Append(s, r)[i] = s[i]
    BY <1>2
  <2> QED BY <1>5, <1>6, <2>1, Zenon
<1>8. LogsWritten'
  <2>1. ASSUME NEW m \in Names
        PROVE  changelog'[m] \in Seq(Written(m)) /\ Len(changelog'[m]) <= MaxInt64
    <3>1. CASE m = n
      BY <1>3, <1>4, <1>6, <1>7, <3>1
    <3>2. CASE m # n
      BY <1>5, <3>2, Zenon DEF StoreInv, LogsWritten
    <3> QED BY <3>1, <3>2, Zenon
  <2> QED BY <1>3, <2>1, Zenon DEF StoreInv, LogsWritten
<1>9. Phases'
  BY <1>3, Zenon DEF StoreInv, Phases
<1>10. \A m \in Names : ReadCheckpoint(m)' = ReadCheckpoint(m)
  BY <1>3, SameCheckpoint, Zenon DEF SameAt
<1>11. CheckpointsLogged'
  <2>1. ASSUME NEW m \in Names, backend = "pebble" \/ opened
        PROVE  ReadCheckpoint(m) \in -1 .. Len(changelog'[m]) - 1
    <3>1. ReadCheckpoint(m) \in -1 .. Len(changelog[m]) - 1
      BY <2>1, Zenon DEF StoreInv, CheckpointsLogged
    <3>2. CASE m = n
      BY <1>6, <1>7, <3>1, <3>2
    <3>3. CASE m # n
      BY <1>5, <3>1, <3>3, Zenon
    <3> QED BY <3>2, <3>3, Zenon
  <2> QED BY <1>3, <1>10, <2>1, Zenon DEF StoreInv, CheckpointsLogged
<1>12. ASSUME NEW m \in Names
       PROVE  MapWritten(data', m) /\ Agrees(data', m, Log(m)', Reflected(m)')
  <2>1. store[m] = "closed" /\ collector[m] = <<>>
    BY <1>3, Zenon DEF StoreInv, Phases
  <2>2. Reflected(m)' = Restored(m) /\ Reflected(m) = Restored(m)
    BY <1>3, <1>10, <2>1, Zenon DEF Reflected, Restored
  <2>3. MapWritten(data, m) /\ Agrees(data, m, Log(m), Restored(m))
    BY <2>2, Zenon DEF StoreInv, MapsAgree
  <2>4. Log(m) = changelog[m] /\ Log(m)' = changelog'[m]
    <3>1. \A s \in Seq(Written(m)) : s \o <<>> = s
      OBVIOUS
    <3>2. changelog'[m] \in Seq(Written(m)) /\ collector'[m] = <<>>
      BY <1>3, <1>8, <2>1, Zenon DEF LogsWritten
    <3> QED BY <1>6, <2>1, <3>1, <3>2, Zenon DEF Log
  <2>5. \A i \in 1 .. Restored(m) : changelog'[m][i] = changelog[m][i]
    <3>1. \A i \in 1 .. Restored(m) : i \in 1 .. Len(changelog[m])
      BY <1>6
    <3> QED BY <1>5, <1>7, <3>1, Zenon
  <2> DEFINE old == changelog[m]
             new == changelog'[m]
             upto == Restored(m)
  <2>6. upto \in Nat
    BY <1>6
  <2>7. \A i \in 1 .. upto : new[i] = old[i]
    BY <2>5, Zenon
  <2>8. Agrees(data, m, old, upto)
    BY <2>3, <2>4, Zenon
  <2> HIDE DEF old, new, upto
  <2>9. \A f, w : Ends(new, upto, f, w) <=> Ends(old, upto, f, w)
    <3> TAKE f, w
    <3>1. Ends(new, upto, f, w) => Ends(old, upto, f, w)
      BY <2>6, <2>7, EndsSame, Zenon
    <3>2. Ends(old, upto, f, w) => Ends(new, upto, f, w)
      BY <2>6, <2>7, EndsSame, Zenon
    <3> QED BY <3>1, <3>2, Zenon
  <2>10. Agrees(data, m, new, upto)
    BY <2>8, <2>9, Zenon DEF Agrees
  <2> QED BY <1>3, <2>2, <2>3, <2>4, <2>10, Zenon DEF new, upto
<1>13. MapsAgree'
  BY <1>12, Zenon DEF MapsAgree
<1> QED BY <1>1, <1>8, <1>9, <1>11, <1>13, Zenon DEF StoreInv

\* RestoreFromChangelog starts right after the checkpoint.
LEMMA StartAfter ==
  ASSUME NEW c \in Int, -1 <= c, c < MaxInt64
  PROVE  StartOffset(c) = c + 1
BY MaxInt64Assumption DEF StartOffset, Inc64

\* Restoring changes the keys of the store, in the map, only.
Kept(map, new, k) ==
  /\ k \in DOMAIN new <=> k \in DOMAIN map
  /\ k \in DOMAIN map => new[k] = map[k]

\* A restore of a store leaves all keys without its prefix alone.
LEMMA AppliedOutside ==
  ASSUME NEW n \in Names, NEW map, NEW log \in Seq(Written(n)),
         NEW start \in 0 .. Len(log), NEW k, k \notin Prefixed(n)
  PROVE  Kept(map, Applied(map, log, start), k)
<1>1. ASSUME NEW i \in start + 1 .. Len(log) PROVE log[i].key # k
  <2>1. i \in 1 .. Len(log)
    OBVIOUS
  <2>2. log[i].key \in FullKeys(n)
    BY <2>1, WrittenAt, Zenon
  <2> QED BY <2>2, FullKeysOwned, Zenon
<1>2. PlacesOf(log, start, k) = {}
  BY <1>1, Zenon DEF PlacesOf
<1> QED BY <1>2, AppliedKept DEF Kept

\* openStore restores what the store lacks, so that it reflects all of its
\* changelog, and the checkpoint says so.
LEMMA OpenStoreMap ==
  ASSUME StoreInv, NEW n \in Names, OpenStore(n)
  PROVE  /\ MapWritten(data', n)
         /\ Agrees(data', n, changelog[n], Len(changelog[n]))
         /\ ReadCheckpoint(n)' \in -1 .. Len(changelog[n]) - 1
         /\ fields' \in [checkpoint : [Names -> Int], streamTime : Int]
         /\ fields'.streamTime = fields.streamTime
         /\ \A m \in Names \ {n} : fields'.checkpoint[m] = fields.checkpoint[m]
         /\ \A k : k \notin Prefixed(n) /\ k # checkpointKey(n) => SameAt(k)
<1> DEFINE log == changelog[n]
           c == ReadCheckpoint(n)
           last == Len(log) - 1
<1>1. /\ opened /\ store[n] = "closed" /\ backend' = backend
      /\ IF CaughtUp(log, c) THEN UNCHANGED <<data, fields>>
                             ELSE Restore(n, StartOffset(c))
  BY Zenon DEF OpenStore
<1>2. /\ log \in Seq(Written(n)) /\ Len(log) \in Nat /\ Len(log) <= MaxInt64
      /\ c \in -1 .. Len(log) - 1 /\ collector[n] = <<>>
      /\ fields \in [checkpoint : [Names -> Int], streamTime : Int]
      /\ backend \in {"pebble", "memory"} /\ MaxInt64 \in Nat
  BY <1>1, MaxInt64Assumption
     DEF StoreInv, LogsWritten, CheckpointsLogged, Phases
<1>3. MapWritten(data, n) /\ Agrees(data, n, log, c + 1)
  <2>1. Log(n) = log
    BY <1>2, LogTyped, Zenon DEF StoreInv
  <2>2. Reflected(n) = c + 1
    BY <1>1, Zenon DEF Reflected, Restored
  <2> QED BY <2>1, <2>2, Zenon DEF StoreInv, MapsAgree
<1>4. StartOffset(c) = c + 1 /\ c + 1 \in 0 .. Len(log)
  <2>1. c \in Int /\ -1 <= c /\ c < MaxInt64
    BY <1>2
  <2> QED BY <1>2, <2>1, StartAfter
<1>5. CASE CaughtUp(log, c)
  <2>1. data' = data /\ fields' = fields
    BY <1>1, <1>5, Zenon
  <2>2. c + 1 = Len(log)
    BY <1>2, <1>4, <1>5 DEF CaughtUp
  <2>3. ReadCheckpoint(n)' = c
    BY <1>1, <2>1, SameCheckpoint, Zenon DEF SameAt
  <2>4. \A k : SameAt(k)
    BY <2>1, Zenon DEF SameAt
  <2> QED BY <1>2, <1>3, <2>1, <2>2, <2>3, <2>4, Zenon
<1>6. CASE ~CaughtUp(log, c)
  <2> DEFINE restored == Applied(data, log, c + 1)
  <2>1. last \in 0 .. MaxInt64 /\ last \in -1 .. Len(log) - 1 /\ last \in Int
    BY <1>2, <1>4, <1>6 DEF CaughtUp
  <2>2. MapWritten(restored, n) /\ Agrees(restored, n, log, Len(log))
    BY <1>2, <1>3, <1>4, AppliedAgrees, Zenon
  <2>3. ASSUME NEW k, k \notin Prefixed(n)
        PROVE  /\ k \in DOMAIN restored <=> k \in DOMAIN data
               /\ k \in DOMAIN data => restored[k] = data[k]
    <3>1. Kept(data, restored, k)
      BY <1>2, <1>4, <2>3, AppliedOutside, Zenon
    <3> QED BY <3>1, Zenon DEF Kept
  <2>4. IF backend = "memory"
          THEN data' = restored /\ fields' = [fields EXCEPT !.checkpoint[n] = last]
          ELSE /\ data' = With(restored, checkpointKey(n), BigEndian(last, TimeWidth))
               /\ fields' = fields
    BY <1>1, <1>4, <1>6, Zenon DEF Restore
  <2> HIDE DEF restored, log, c, last
  <2>5. CASE backend = "memory"
    <3>1. data' = restored /\ fields' = [fields EXCEPT !.checkpoint[n] = last]
      BY <2>4, <2>5, Zenon
    <3>2. /\ fields' \in [checkpoint : [Names -> Int], streamTime : Int]
          /\ fields'.streamTime = fields.streamTime /\ fields'.checkpoint[n] = last
          /\ \A m \in Names \ {n} : fields'.checkpoint[m] = fields.checkpoint[m]
      BY <1>2, <2>1, <3>1, Zenon
    <3>3. ReadCheckpoint(n)' = last
      BY <1>1, <2>5, <3>2, Zenon DEF ReadCheckpoint
    <3>4. \A k : k \notin Prefixed(n) => SameAt(k)
      BY <2>3, <3>1, Zenon DEF SameAt
    <3> QED BY <2>1, <2>2, <3>1, <3>2, <3>3, <3>4, Zenon DEF log
  <2>6. CASE backend # "memory"
    <3>1. data' = With(restored, checkpointKey(n), BigEndian(last, TimeWidth))
          /\ fields' = fields
      BY <2>4, <2>6, Zenon
    <3>2. /\ DOMAIN data' = DOMAIN restored \cup {checkpointKey(n)}
          /\ data'[checkpointKey(n)] = BigEndian(last, TimeWidth)
          /\ \A k \in DOMAIN restored : k # checkpointKey(n) => data'[k] = restored[k]
      BY <3>1, Zenon DEF With
    <3>3. ReadCheckpoint(n)' = last
      <4>1. Signed(BigEndian(last, TimeWidth)) = last
        BY <2>1, SignedOffset, Zenon
      <4> QED BY <1>1, <2>6, <3>2, <4>1, Zenon DEF ReadCheckpoint
    <3>4. \A k : k \notin Prefixed(n) /\ k # checkpointKey(n) => SameAt(k)
      BY <2>3, <3>2, Zenon DEF SameAt
    <3>5. SameMap(restored, data', n)
      <4>1. checkpointKey(n) \notin Prefixed(n)
        BY MetaOutside, Zenon DEF Prefixed
      <4> QED BY <3>2, <4>1, Zenon DEF SameMap
    <3>6. MapWritten(data', n) /\ Agrees(data', n, log, Len(log))
      BY <2>2, <3>5, SameAgrees, Zenon
    <3> QED BY <1>2, <2>1, <3>1, <3>3, <3>4, <3>6, Zenon DEF log
  <2> QED BY <2>5, <2>6, Zenon
<1> QED BY <1>5, <1>6, Zenon

\* OpenStore with its restore: the store reflects all of its changelog, other
\* stores and the stream time are as before.
LEMMA OpenStoreInv ==
  ASSUME StoreInv, NEW n \in Names, OpenStore(n)
  PROVE  StoreInv' /\ Unaffected /\ SameAt(streamTimeKey)
<1>1. KeysOwned' /\ Unaffected
  BY OpenStoreStep, Zenon DEF StoreInv
<1>2. /\ opened /\ store[n] = "closed" /\ store' = [store EXCEPT ![n] = "open"]
      /\ backend' = backend /\ opened' = opened /\ collector' = collector
      /\ changelog' = changelog
  BY Zenon DEF OpenStore
<1>3. /\ MapWritten(data', n)
      /\ Agrees(data', n, changelog[n], Len(changelog[n]))
      /\ ReadCheckpoint(n)' \in -1 .. Len(changelog[n]) - 1
      /\ fields' \in [checkpoint : [Names -> Int], streamTime : Int]
      /\ \A m \in Names \ {n} : fields'.checkpoint[m] = fields.checkpoint[m]
      /\ \A k : k \notin Prefixed(n) /\ k # checkpointKey(n) => SameAt(k)
  BY OpenStoreMap, Zenon
<1>4. store'[n] = "open" /\ \A m \in Names \ {n} : store'[m] = store[m]
  BY <1>2, Zenon DEF StoreInv, KeysOwned
<1>5. SameAt(streamTimeKey) /\ \A m \in Names \ {n} : SameAt(checkpointKey(m))
  BY <1>3, CheckpointKeys, MetaOutside, Zenon DEF Prefixed
<1>6. ASSUME NEW m \in Names \ {n} PROVE ReadCheckpoint(m)' = ReadCheckpoint(m)
  BY <1>2, <1>3, <1>5, SameCheckpoint, Zenon
<1>7. LogsWritten'
  BY <1>2, Zenon DEF StoreInv, LogsWritten
<1>8. Phases'
  BY <1>2, <1>4, Zenon DEF StoreInv, Phases
<1>9. CheckpointsLogged'
  <2>1. ASSUME NEW m \in Names PROVE ReadCheckpoint(m)' \in -1 .. Len(changelog[m]) - 1
    BY <1>2, <1>3, <1>6, Zenon DEF StoreInv, CheckpointsLogged
  <2> QED BY <1>2, <1>3, <2>1, Zenon DEF CheckpointsLogged
<1>10. ASSUME NEW m \in Names
       PROVE  MapWritten(data', m) /\ Agrees(data', m, Log(m)', Reflected(m)')
  <2>1. Log(m)' = Log(m)
    BY <1>2, Zenon DEF Log
  <2>2. CASE m = n
    <3>1. Log(n) = changelog[n]
      BY <1>2, LogTyped, Zenon DEF StoreInv, Phases
    <3>2. Reflected(n)' = Len(changelog[n])
      BY <1>4, <2>1, <2>2, <3>1, Zenon DEF Reflected
    <3> QED BY <1>3, <2>1, <2>2, <3>1, <3>2, Zenon
  <2>3. CASE m # n
    <3>1. SameFor(m)
      BY <1>1, <1>2, <1>4, <2>3, Zenon DEF Unaffected
    <3>2. Reflected(m)' = Reflected(m)
      BY <1>2, <1>4, <1>6, <2>1, <2>3, Zenon DEF Reflected, Restored
    <3> QED BY <2>1, <3>1, <3>2, KeptAgrees, Zenon
  <2> QED BY <2>2, <2>3, Zenon
<1>11. MapsAgree'
  BY <1>10, Zenon DEF MapsAgree
<1> QED BY <1>1, <1>5, <1>7, <1>8, <1>9, <1>11, Zenon DEF StoreInv

\* closeTask writes one checkpoint for each store with a changelog, and no
\* other key.
LEMMA CheckpointedAt ==
  ASSUME NEW n \in Names, changelog[n] # <<>>
  PROVE  /\ checkpointKey(n) \in DOMAIN Checkpointed
         /\ Checkpointed[checkpointKey(n)] = BigEndian(Len(changelog[n]) - 1, TimeWidth)
<1> DEFINE S == {m \in Names : changelog[m] # <<>>}
           at == {checkpointKey(m) : m \in S}
           of(k) == CHOOSE m \in S : checkpointKey(m) = k
<1>1. Checkpointed =
        [k \in DOMAIN data \cup at |->
           IF k \in at THEN BigEndian(Len(changelog[of(k)]) - 1, TimeWidth) ELSE data[k]]
  BY Zenon DEF Checkpointed
<1>2. n \in S /\ checkpointKey(n) \in at
  BY Zenon
<1>3. of(checkpointKey(n)) = n
  <2>1. of(checkpointKey(n)) \in S
        /\ checkpointKey(of(checkpointKey(n))) = checkpointKey(n)
    BY <1>2, Zenon
  <2> HIDE DEF of
  <2> QED BY <2>1, CheckpointKeys, Zenon
<1> HIDE DEF at, of
<1> QED BY <1>1, <1>2, <1>3, Zenon

\* The checkpoints of a closing task are written under the checkpoint keys of
\* the stores that logged something, and nowhere else.
LEMMA CheckpointedElse ==
  ASSUME NEW k, \A m \in Names : changelog[m] # <<>> => k # checkpointKey(m)
  PROVE  Kept(data, Checkpointed, k)
<1> DEFINE S == {m \in Names : changelog[m] # <<>>}
           at == {checkpointKey(m) : m \in S}
           of(x) == CHOOSE m \in S : checkpointKey(m) = x
<1>1. Checkpointed =
        [x \in DOMAIN data \cup at |->
           IF x \in at THEN BigEndian(Len(changelog[of(x)]) - 1, TimeWidth) ELSE data[x]]
  BY Zenon DEF Checkpointed
<1>2. k \notin at
  BY Zenon
<1> HIDE DEF at, of
<1> QED BY <1>1, <1>2, Zenon DEF Kept

\* closeTask: Pebble keeps the stores and has checkpoints at the ends of their
\* changelogs, memory forgets them.
LEMMA CloseInv ==
  ASSUME StoreInv, Close
  PROVE  StoreInv' /\ (backend = "pebble" => SameAt(streamTimeKey))
<1>1. KeysOwned'
  BY CloseStep, Zenon DEF StoreInv
<1>2. /\ \A n \in Names : store[n] = "open" /\ collector[n] = <<>>
      /\ data' = IF backend = "memory" THEN NoData ELSE Checkpointed
      /\ store' = [n \in Names |-> "closed"] /\ opened' = FALSE
      /\ backend' = backend /\ fields' = fields /\ collector' = collector
      /\ changelog' = changelog
  BY Zenon DEF Close, Running
<1>3. backend \in {"pebble", "memory"}
      /\ fields \in [checkpoint : [Names -> Int], streamTime : Int]
  BY Zenon DEF StoreInv, Phases, CheckpointsLogged
<1>4. LogsWritten' /\ Phases'
  BY <1>2, <1>3, Zenon DEF StoreInv, LogsWritten, Phases
<1>5. ASSUME NEW n \in Names
      PROVE  /\ Log(n)' = changelog[n] /\ Log(n) = changelog[n]
             /\ changelog[n] \in Seq(Written(n)) /\ Len(changelog[n]) \in Nat
             /\ Len(changelog[n]) <= MaxInt64
             /\ MapWritten(data, n)
             /\ Agrees(data, n, changelog[n], Len(changelog[n]))
             /\ Reflected(n)' = Restored(n)'
  <2>1. Log(n) = changelog[n] /\ changelog[n] \in Seq(Written(n))
    BY <1>2, LogTyped, Zenon DEF StoreInv
  <2>2. Log(n)' = Log(n)
    BY <1>2, Zenon DEF Log
  <2>3. Reflected(n) = Len(changelog[n])
    BY <1>2, <2>1, Zenon DEF Reflected
  <2>4. Reflected(n)' = Restored(n)'
    BY <1>2, Zenon DEF Reflected
  <2>5. Len(changelog[n]) <= MaxInt64 /\ Len(changelog[n]) \in Nat
    BY <2>1 DEF StoreInv, LogsWritten
  <2> QED BY <2>1, <2>2, <2>3, <2>4, <2>5, Zenon DEF StoreInv, MapsAgree
<1>6. CASE backend = "memory"
  <2>1. CheckpointsLogged'
    BY <1>2, <1>3, <1>6, Zenon DEF CheckpointsLogged
  <2>2. ASSUME NEW n \in Names
        PROVE  MapWritten(data', n) /\ Agrees(data', n, Log(n)', Reflected(n)')
    <3>1. Reflected(n)' = 0
      BY <1>2, <1>5, <1>6, Zenon DEF Restored
    <3>2. DOMAIN data' = {}
      BY <1>2, <1>6, Zenon DEF NoData
    <3>3. MapWritten(data', n)
      BY <3>2, Zenon DEF MapWritten
    <3>4. Agrees(data', n, changelog[n], 0)
      BY <3>2, EndsNone, Zenon DEF Agrees, Holds
    <3> QED BY <1>5, <3>1, <3>3, <3>4, Zenon
  <2>3. MapsAgree'
    BY <2>2, Zenon DEF MapsAgree
  <2> QED BY <1>1, <1>4, <1>6, <2>1, <2>3, Zenon DEF StoreInv
<1>7. CASE backend = "pebble"
  <2>1. data' = Checkpointed
    BY <1>2, <1>7, Zenon
  <2>2. ASSUME NEW n \in Names PROVE ReadCheckpoint(n)' = Len(changelog[n]) - 1
    <3>1. CASE changelog[n] # <<>>
      <4>1. checkpointKey(n) \in DOMAIN data'
            /\ data'[checkpointKey(n)] = BigEndian(Len(changelog[n]) - 1, TimeWidth)
        BY <2>1, <3>1, CheckpointedAt, Zenon
      <4>2. Len(changelog[n]) - 1 \in 0 .. MaxInt64
        <5>1. Len(changelog[n]) # 0
          BY <1>5, <3>1
        <5>2. MaxInt64 \in Nat
          BY MaxInt64Assumption, Zenon
        <5> QED BY <1>5, <5>1, <5>2
      <4>3. Signed(BigEndian(Len(changelog[n]) - 1, TimeWidth)) = Len(changelog[n]) - 1
        BY <4>2, SignedOffset, Zenon
      <4> QED BY <1>2, <1>7, <4>1, <4>3, Zenon DEF ReadCheckpoint
    <3>2. CASE changelog[n] = <<>>
      <4>1. \A m \in Names : changelog[m] # <<>> => checkpointKey(n) # checkpointKey(m)
        BY <3>2, CheckpointKeys, Zenon
      <4>2. Kept(data, data', checkpointKey(n))
        BY <2>1, <4>1, CheckpointedElse, Zenon
      <4>3. ReadCheckpoint(n)' = ReadCheckpoint(n)
        BY <1>2, <4>2, SameCheckpoint, Zenon DEF Kept, SameAt
      <4>4. ReadCheckpoint(n) \in -1 .. Len(changelog[n]) - 1
        BY <1>7, Zenon DEF StoreInv, CheckpointsLogged
      <4>5. Len(changelog[n]) = 0
        BY <3>2
      <4> QED BY <4>3, <4>4, <4>5
    <3> QED BY <3>1, <3>2, Zenon
  <2>3. CheckpointsLogged'
    <3>1. ASSUME NEW n \in Names PROVE Len(changelog[n]) - 1 \in -1 .. Len(changelog[n]) - 1
      BY <1>5
    <3> QED BY <1>2, <1>3, <2>2, <3>1, Zenon DEF CheckpointsLogged
  <2>4. ASSUME NEW n \in Names
        PROVE  MapWritten(data', n) /\ Agrees(data', n, Log(n)', Reflected(n)')
    <3>1. Reflected(n)' = Len(changelog[n])
      <4>1. Restored(n)' = ReadCheckpoint(n)' + 1
        BY <1>2, <1>7, Zenon DEF Restored
      <4>2. (Len(changelog[n]) - 1) + 1 = Len(changelog[n])
        BY <1>5
      <4> QED BY <1>5, <2>2, <4>1, <4>2, Zenon
    <3>2. ASSUME NEW k \in Prefixed(n) PROVE Kept(data, data', k)
      <4>1. \A m \in Names : k # checkpointKey(m)
        BY MetaOutside, Zenon DEF Prefixed
      <4> QED BY <2>1, <4>1, CheckpointedElse, Zenon
    <3>3. SameMap(data, data', n)
      BY <3>2, Zenon DEF SameMap, Kept
    <3>4. MapWritten(data', n) /\ Agrees(data', n, changelog[n], Len(changelog[n]))
      BY <1>5, <3>3, SameAgrees, Zenon
    <3> QED BY <1>5, <3>1, <3>4, Zenon
  <2>5. MapsAgree'
    BY <2>4, Zenon DEF MapsAgree
  <2>6. SameAt(streamTimeKey)
    <3>1. Kept(data, data', streamTimeKey)
      BY <2>1, CheckpointKeys, CheckpointedElse, Zenon
    <3> QED BY <3>1, Zenon DEF Kept, SameAt
  <2> QED BY <1>1, <1>4, <2>3, <2>5, <2>6, Zenon DEF StoreInv
<1> QED BY <1>3, <1>6, <1>7, Zenon

\* Every step keeps the invariant.
LEMMA StoreInvStep ==
  ASSUME StoreInv, [Next]_vars
  PROVE  StoreInv'
<1>1. CASE UNCHANGED vars
  <2>1. /\ backend' = backend /\ data' = data /\ fields' = fields /\ store' = store
        /\ opened' = opened /\ collector' = collector /\ changelog' = changelog
    BY <1>1, Zenon DEF vars
  <2> QED BY <2>1, Zenon DEF StoreInv, KeysOwned, LogsWritten, Phases, CheckpointsLogged,
                      MapsAgree, ReadCheckpoint, Log, Reflected, Restored
<1>2. CASE Open \/ Close
  BY <1>2, OpenInv, CloseInv, Zenon
<1>3. ASSUME NEW n \in Names, OpenStore(n) \/ DrainMutations(n) PROVE StoreInv'
  BY <1>3, OpenStoreInv, DrainInv, Zenon
<1>4. ASSUME NEW t \in Times, WriteStreamTime(t) PROVE StoreInv'
  BY <1>4, StreamTimeInv, Zenon
<1>5. ASSUME NEW n \in Names \ WindowNames, NEW k \in Keys,
             Delete(n, k) \/ \E v \in Values : Put(n, k, v)
      PROVE  StoreInv'
  <2>1. k \in EntriesOf(n) /\ FullKey(n, k) = encodeKey(n, k)
    BY Zenon DEF EntriesOf, FullKey
  <2>2. CASE Delete(n, k)
    BY <2>1, <2>2, UnsetInv, Zenon DEF Delete
  <2>3. ASSUME NEW v \in Values, Put(n, k, v) PROVE StoreInv'
    BY <2>1, <2>3, SetInv, Zenon DEF Put
  <2> QED BY <1>5, <2>2, <2>3, Zenon
<1>6. ASSUME NEW n \in WindowNames, NEW k \in Keys, NEW start \in Starts,
             \/ WindowDelete(n, k, start)
             \/ \E v \in Values : WindowPut(n, k, start, v)
      PROVE  StoreInv'
  <2> DEFINE e == <<k, start>>
  <2>1. n \in Names /\ e \in EntriesOf(n) /\ FullKey(n, e) = WindowKey(n, k, start)
    BY StoreAssumption, Zenon DEF EntriesOf, FullKey
  <2> HIDE DEF e
  <2>2. CASE WindowDelete(n, k, start)
    BY <2>1, <2>2, UnsetInv, Zenon DEF WindowDelete
  <2>3. ASSUME NEW v \in Values, WindowPut(n, k, start, v) PROVE StoreInv'
    BY <2>1, <2>3, SetInv, Zenon DEF WindowPut
  <2> QED BY <1>6, <2>2, <2>3, Zenon
<1>7. ASSUME NEW n \in WindowNames, NEW k \in Keys,
             DeleteRangeBytes(n, WindowKeyLowerBound(k), WindowKeyUpperBound(k))
      PROVE  StoreInv'
  BY <1>7, DeleteRangeInv, Zenon
<1>8. ASSUME NEW n \in Names, NEW e \in EntriesOf(n), NEW v \in Values \cup {Nil},
             Elsewhere(n, e, v)
      PROVE  StoreInv'
  BY <1>8, ElsewhereInv, Zenon
<1> QED BY <1>1, <1>2, <1>3, <1>4, <1>5, <1>6, <1>7, <1>8, Zenon DEF Next

\* An empty backend with empty changelogs.
LEMMA StoreInvInit ==
  ASSUME Init
  PROVE  StoreInv
<1>1. /\ backend \in {"pebble", "memory"} /\ data = NoData /\ fields = NoFields
      /\ store = [n \in Names |-> "closed"] /\ opened = FALSE
      /\ collector = [n \in Names |-> <<>>] /\ changelog = [n \in Names |-> <<>>]
  BY StoreAssumption, Zenon DEF Init
<1>2. KeysOwned
  BY <1>1 DEF KeysOwned, NoData
<1>3. LogsWritten
  BY <1>1, MaxInt64Assumption DEF LogsWritten
<1>4. Phases
  BY <1>1, Zenon DEF Phases
<1>5. \A n \in Names : ReadCheckpoint(n) = -1
  BY <1>1, Zenon DEF ReadCheckpoint, NoFields, NoData
<1>6. CheckpointsLogged
  <2>1. fields \in [checkpoint : [Names -> Int], streamTime : Int]
    BY <1>1 DEF NoFields
  <2>2. \A n \in Names : Len(changelog[n]) = 0
    BY <1>1, Zenon
  <2> QED BY <1>5, <2>1, <2>2 DEF CheckpointsLogged
<1>7. ASSUME NEW n \in Names
      PROVE  MapWritten(data, n) /\ Agrees(data, n, Log(n), Reflected(n))
  <2>1. Reflected(n) = 0
    BY <1>1, <1>5 DEF Reflected, Restored
  <2>2. DOMAIN data = {}
    BY <1>1, Zenon DEF NoData
  <2>3. Agrees(data, n, Log(n), 0)
    BY <2>2, EndsNone, Zenon DEF Agrees, Holds
  <2> QED BY <2>1, <2>2, <2>3, Zenon DEF MapWritten
<1> QED BY <1>2, <1>3, <1>4, <1>6, <1>7, Zenon DEF StoreInv, MapsAgree

\* In every behaviour the database has what the logs of the stores say, up to
\* where each store is restored.
THEOREM MapsFollowLogs == Spec => []StoreInv
<1>1. Init => StoreInv
  BY StoreInvInit, Zenon
<1>2. StoreInv /\ [Next]_vars => StoreInv'
  BY StoreInvStep, Zenon
<1> QED BY <1>1, <1>2, PTL DEF Spec

-----------------------------------------------------------------------------
(* Restores, lookups and the contract of the stores.                       *)

\* What the collected and logged mutations of an open store rebuild is what
\* its scans show, but for values of no bytes.
LEMMA Rebuilds ==
  ASSUME StoreInv
  PROVE  RestoreRebuilds
<1> SUFFICES ASSUME NEW n \in Names, store[n] = "open"
             PROVE  {x \in Content(n) : x[2] # Empty} = Logged(n, Log(n))
  BY Zenon DEF RestoreRebuilds, Log
<1>1. MapWritten(data, n) /\ Agrees(data, n, Log(n), Len(Log(n)))
  BY Zenon DEF StoreInv, MapsAgree, Reflected
<1>2. Content(n) = View(data, n)
  BY <1>1, ScanShows, Zenon DEF StoreInv
<1>3. Logged(n, Log(n)) = Final(n, Log(n))
  BY LogTyped, LoggedFinal, Zenon DEF StoreInv
<1> QED BY <1>1, <1>2, <1>3, ViewFinal, Zenon

\* A restore from the changelog of a store, with what is collected of it,
\* rebuilds what its scans show, "changelog consumers can restore store state
\* exactly", but for values of no bytes.
THEOREM RestoresRebuild == Spec => []RestoreRebuilds
BY MapsFollowLogs, Rebuilds, PTL

\* Get and WindowGet find the entries of a map.
LEMMA LookupsShow ==
  ASSUME NEW n \in Names
  PROVE  View(data, n) = UNION {{e} \X Found(FullKey(n, e)) : e \in EntriesOf(n)}
<1>1. ASSUME NEW e \in EntriesOf(n), NEW x
      PROVE  x \in {e} \X Found(FullKey(n, e))
               <=> FullKey(n, e) \in DOMAIN data /\ x = <<e, data[FullKey(n, e)]>>
  BY DEF Found
<1> QED BY <1>1 DEF View

\* Get and WindowGet find what a scan of the store shows.
LEMMA Lookups ==
  ASSUME StoreInv
  PROVE  LookupsAgree
<1> SUFFICES ASSUME NEW n \in Names, store[n] = "open"
             PROVE  Content(n) =
                      IF n \in WindowNames
                        THEN UNION {{e} \X WindowGet(n, e[1], e[2]) : e \in Keys \X Starts}
                        ELSE UNION {{k} \X Get(n, k) : k \in Keys}
  BY Zenon DEF LookupsAgree
<1>1. Content(n) = View(data, n)
  BY ScanShows, Zenon DEF StoreInv, MapsAgree
<1>2. CASE n \in WindowNames
  <2>1. EntriesOf(n) = Keys \X Starts
        /\ \A e : Found(FullKey(n, e)) = WindowGet(n, e[1], e[2])
    BY <1>2, Zenon DEF EntriesOf, FullKey, WindowGet
  <2> QED BY <1>1, <1>2, <2>1, LookupsShow
<1>3. CASE n \notin WindowNames
  <2>1. EntriesOf(n) = Keys /\ \A k : Found(FullKey(n, k)) = Get(n, k)
    BY <1>3, Zenon DEF EntriesOf, FullKey, Get
  <2> QED BY <1>1, <1>3, <2>1, LookupsShow, Zenon
<1> QED BY <1>2, <1>3, Zenon

\* Get and WindowGet answer what Range and RangeForKey show, whatever the
\* bytes of the names, keys and times and the order of the writes.
THEOREM LookupsMatchScans == Spec => []LookupsAgree
BY MapsFollowLogs, Lookups, PTL

\* What a store shows the task, or the task that opens it next.
Shown(n) == IF store[n] = "open" THEN Content(n) ELSE Logged(n, changelog[n])
ShownTime == IF opened \/ backend = "pebble" THEN ReadStreamTime ELSE 0

\* The same in terms of the map and of the log.
Stored(n) == IF store[n] = "open" THEN View(data, n) ELSE Final(n, changelog[n])
ScansExact == \A n \in Names : Shown(n) = Stored(n)

\* What the contract is told of a store is what the map or the changelog holds.
LEMMA ScansShow ==
  ASSUME StoreInv
  PROVE  ScansExact
<1> SUFFICES ASSUME NEW n \in Names PROVE Shown(n) = Stored(n)
  BY Zenon DEF ScansExact
<1>1. Content(n) = View(data, n)
  BY ScanShows, Zenon DEF StoreInv, MapsAgree
<1>2. Logged(n, changelog[n]) = Final(n, changelog[n])
  BY LogTyped, LoggedFinal, Zenon DEF StoreInv
<1> QED BY <1>1, <1>2, Zenon DEF Shown, Stored

\* A step leaves alone the stores whose keys and, while they are closed, logs
\* it leaves alone, ...
LEMMA StoredKept ==
  ASSUME StoreInv, NEW m \in Names, SameFor(m), store'[m] = store[m],
         store[m] # "open" => changelog'[m] = changelog[m]
  PROVE  Stored(m)' = Stored(m)
<1>1. SameMap(data, data', m) /\ MapWritten(data, m)
  BY Zenon DEF StoreInv, MapsAgree, SameFor, SameMap
<1>2. View(data', m) = View(data, m)
  BY <1>1, SameAgrees, Zenon
<1> QED BY <1>2, Zenon DEF Stored

\* ... and the stream time.
LEMMA TimeKept ==
  ASSUME SameAt(streamTimeKey), backend' = backend, opened' = opened,
         fields'.streamTime = fields.streamTime
  PROVE  ShownTime' = ShownTime
BY SameStreamTime, Zenon DEF ShownTime

\* A step about one store, as the contract sees it.
Changes(n) ==
  /\ \A m \in Names \ {n} : Stored(m)' = Stored(m)
  /\ ShownTime' = ShownTime

\* Put and WindowPut.
LEMMA SetChanges ==
  ASSUME StoreInv, NEW n \in Names, NEW e \in EntriesOf(n), NEW v \in Values,
         Set(n, FullKey(n, e), v)
  PROVE  Changes(n) /\ Contract!Put(n, Stored(n), Stored(n)')
<1>1. /\ Unaffected /\ SameMeta
      /\ View(data', n) = {x \in View(data, n) : x[1] # e} \cup {<<e, v>>}
  BY SetInv, Zenon
<1>2. /\ \A m \in Names : store[m] = "open" /\ store'[m] = store[m]
      /\ \A m \in Names \ {n} : collector'[m] = collector[m]
      /\ backend' = backend /\ opened' = opened /\ fields' = fields
  BY Zenon DEF Set, Write, Running, StoreInv, KeysOwned
<1>3. ASSUME NEW m \in Names \ {n} PROVE Stored(m)' = Stored(m)
  BY <1>1, <1>2, StoredKept, Zenon DEF Unaffected
<1>4. ShownTime' = ShownTime
  BY <1>1, <1>2, TimeKept, Zenon DEF SameMeta
<1>5. Stored(n) = View(data, n) /\ Stored(n)' = View(data', n)
  BY <1>2, Zenon DEF Stored
<1>6. Contract!Put(n, Stored(n), Stored(n)')
  BY <1>1, <1>5, Zenon DEF Contract!Put
<1> QED BY <1>3, <1>4, <1>6, Zenon DEF Changes

\* Delete and WindowDelete.
LEMMA UnsetChanges ==
  ASSUME StoreInv, NEW n \in Names, NEW e \in EntriesOf(n), Unset(n, FullKey(n, e))
  PROVE  Changes(n) /\ Contract!Delete(n, Stored(n), Stored(n)')
<1>1. /\ Unaffected /\ SameMeta
      /\ View(data', n) = {x \in View(data, n) : x[1] \notin {e}}
  BY UnsetInv, Zenon
<1>2. /\ \A m \in Names : store[m] = "open" /\ store'[m] = store[m]
      /\ \A m \in Names \ {n} : collector'[m] = collector[m]
      /\ backend' = backend /\ opened' = opened /\ fields' = fields
  BY Zenon DEF Unset, Write, Running, StoreInv, KeysOwned
<1>3. ASSUME NEW m \in Names \ {n} PROVE Stored(m)' = Stored(m)
  BY <1>1, <1>2, StoredKept, Zenon DEF Unaffected
<1>4. ShownTime' = ShownTime
  BY <1>1, <1>2, TimeKept, Zenon DEF SameMeta
<1>5. Stored(n) = View(data, n) /\ Stored(n)' = View(data', n)
  BY <1>2, Zenon DEF Stored
<1>6. Contract!Delete(n, Stored(n), Stored(n)')
  BY <1>1, <1>5, Zenon DEF Contract!Delete
<1> QED BY <1>3, <1>4, <1>6, Zenon DEF Changes

\* DeleteRangeBytes with the bounds of a key.
LEMMA DeleteRangeChanges ==
  ASSUME StoreInv, NEW n \in WindowNames, NEW k \in Keys,
         DeleteRangeBytes(n, WindowKeyLowerBound(k), WindowKeyUpperBound(k))
  PROVE  Changes(n) /\ Contract!Delete(n, Stored(n), Stored(n)')
<1>1. /\ Unaffected /\ SameMeta
      /\ View(data', n) = {x \in View(data, n) : x[1] \notin {k} \X Starts}
      /\ \A m \in Names \ {n} : collector'[m] = collector[m]
  BY DeleteRangeInv, Zenon
<1>2. /\ \A m \in Names : store[m] = "open" /\ store'[m] = store[m]
      /\ backend' = backend /\ opened' = opened /\ fields' = fields
  BY Zenon DEF DeleteRangeBytes, Write, Running
<1>3. ASSUME NEW m \in Names \ {n} PROVE Stored(m)' = Stored(m)
  BY <1>1, <1>2, StoredKept, Zenon DEF Unaffected
<1>4. ShownTime' = ShownTime
  BY <1>1, <1>2, TimeKept, Zenon DEF SameMeta
<1>5. Stored(n) = View(data, n) /\ Stored(n)' = View(data', n)
  BY <1>2, StoreAssumption, Zenon DEF Stored
<1>6. Contract!Delete(n, Stored(n), Stored(n)')
  <2>1. {k} \X Starts \in RangesOf(n)
    BY Zenon DEF RangesOf
  <2> QED BY <1>1, <1>5, <2>1 DEF Contract!Delete
<1> QED BY <1>3, <1>4, <1>6, Zenon DEF Changes

\* openStore, restoring the store where it is behind its changelog.
LEMMA OpenStoreChanges ==
  ASSUME StoreInv, NEW n \in Names, OpenStore(n)
  PROVE  Changes(n) /\ Contract!Open(Stored(n), Stored(n)')
<1>1. /\ Unaffected /\ SameAt(streamTimeKey)
      /\ MapWritten(data', n) /\ Agrees(data', n, changelog[n], Len(changelog[n]))
      /\ fields'.streamTime = fields.streamTime
  BY OpenStoreInv, OpenStoreMap, Zenon
<1>2. /\ store[n] = "closed" /\ store'[n] = "open"
      /\ \A m \in Names \ {n} : store'[m] = store[m]
      /\ backend' = backend /\ opened' = opened /\ collector' = collector
      /\ changelog' = changelog
  BY Zenon DEF OpenStore, StoreInv, KeysOwned
<1>3. ASSUME NEW m \in Names \ {n} PROVE Stored(m)' = Stored(m)
  BY <1>1, <1>2, StoredKept, Zenon DEF Unaffected
<1>4. ShownTime' = ShownTime
  BY <1>1, <1>2, TimeKept, Zenon
<1>5. Stored(n) = Final(n, changelog[n]) /\ Stored(n)' = View(data', n)
  BY <1>2, Zenon DEF Stored
<1>6. {x \in Stored(n)' : x[2] # Empty} = Stored(n)
  BY <1>1, <1>5, ViewFinal, Zenon
<1>7. \A x, y \in View(data', n) : x[1] = y[1] => x = y
  BY DEF View
<1>8. Contract!Open(Stored(n), Stored(n)')
  BY <1>5, <1>6, <1>7, Zenon DEF Contract!Open, Contract!NonEmpty
<1> QED BY <1>3, <1>4, <1>8, Zenon DEF Changes

\* A mutation another instance logs while the task is closed here.
LEMMA ElsewhereChanges ==
  ASSUME StoreInv, NEW n \in Names, NEW e \in EntriesOf(n),
         NEW v \in Values \cup {Nil}, Elsewhere(n, e, v)
  PROVE  /\ Changes(n)
         /\ Contract!Put(n, Stored(n), Stored(n)')
            \/ Contract!Delete(n, Stored(n), Stored(n)')
<1> DEFINE log == changelog[n]
           r == [key |-> FullKey(n, e), val |-> Recorded(v)]
<1>1. /\ ~opened /\ changelog' = [changelog EXCEPT ![n] = Append(@, r)]
      /\ backend' = backend /\ data' = data /\ fields' = fields /\ store' = store
      /\ opened' = opened
  BY Zenon DEF Elsewhere
<1>2. \A m \in Names : store[m] = "closed"
  BY <1>1, Zenon DEF StoreInv, Phases
<1>3. log \in Seq(Written(n))
  BY LogTyped, Zenon DEF StoreInv
<1>4. /\ changelog'[n] = Append(log, r)
      /\ \A m \in Names \ {n} : changelog'[m] = changelog[m]
  BY <1>1, Zenon DEF StoreInv, KeysOwned
<1>5. Recorded(v) \in Values \cup {Nil}
  BY Zenon DEF Recorded
<1>6. r \in Written(n) /\ r.key = FullKey(n, e) /\ r.val = Recorded(v)
  BY <1>5, Zenon DEF Written, FullKeys
<1>7. ASSUME NEW m \in Names \ {n} PROVE Stored(m)' = Stored(m)
  BY <1>1, <1>4, StoredKept, Zenon DEF SameFor
<1>8. ShownTime' = ShownTime
  BY <1>1, TimeKept, Zenon DEF SameAt
<1>9. Stored(n) = Final(n, log) /\ Stored(n)' = Final(n, Append(log, r))
  BY <1>1, <1>2, <1>4, Zenon DEF Stored
<1> HIDE DEF log, r
<1>10. Final(n, Append(log, r)) =
         {x \in Final(n, log) : x[1] # e}
           \cup {x \in {<<e, r.val>>} : r.val \notin {Nil, Empty}}
  BY <1>3, <1>6, FinalAppend
<1>11. CASE r.val \notin {Nil, Empty}
  <2>1. r.val \in Values
    BY <1>5, <1>6, <1>11, Zenon
  <2>2. Stored(n)' = {x \in Stored(n) : x[1] # e} \cup {<<e, r.val>>}
    BY <1>9, <1>10, <1>11, Zenon
  <2>3. Contract!Put(n, Stored(n), Stored(n)')
    BY <2>1, <2>2, Zenon DEF Contract!Put
  <2> QED BY <1>7, <1>8, <2>3, Zenon DEF Changes
<1>12. CASE r.val \in {Nil, Empty}
  <2>1. Stored(n)' = {x \in Stored(n) : x[1] \notin {e}}
    BY <1>9, <1>10, <1>12, Zenon
  <2>2. Contract!Delete(n, Stored(n), Stored(n)')
    BY <2>1, Zenon DEF Contract!Delete
  <2> QED BY <1>7, <1>8, <2>2, Zenon DEF Changes
<1> QED BY <1>11, <1>12, Zenon

\* A drain and the opening of the backend: nothing the contract can see.
Nothing == (\A m \in Names : Stored(m)' = Stored(m)) /\ ShownTime' = ShownTime

\* The mutations of a store are drained.
LEMMA DrainChanges ==
  ASSUME NEW n \in Names, DrainMutations(n)
  PROVE  Nothing
<1>1. /\ \A m \in Names : store[m] = "open"
      /\ store' = store /\ data' = data /\ backend' = backend /\ opened' = opened
      /\ fields' = fields
  BY Zenon DEF DrainMutations, Running
<1> QED BY <1>1, Zenon DEF Nothing, Stored, ShownTime, ReadStreamTime

\* The backend is opened, memory without a stream time.
LEMMA OpenChanges ==
  ASSUME StoreInv, Open
  PROVE  Nothing
<1>1. /\ ~opened /\ opened' = TRUE /\ fields' = NoFields /\ backend' = backend
      /\ data' = data /\ store' = store /\ changelog' = changelog
      /\ backend \in {"pebble", "memory"}
  BY Zenon DEF Open, StoreInv, Phases
<1>2. \A m \in Names : Stored(m)' = Stored(m)
  BY <1>1, Zenon DEF Stored
<1>3. CASE backend = "memory"
  <2>1. ShownTime = 0 /\ ShownTime' = fields'.streamTime
    BY <1>1, <1>3, Zenon DEF ShownTime, ReadStreamTime
  <2>2. NoFields.streamTime = 0
    BY Zenon DEF NoFields
  <2> QED BY <1>1, <1>2, <2>1, <2>2, Zenon DEF Nothing
<1>4. CASE backend = "pebble"
  <2>1. ShownTime' = ShownTime
    BY <1>1, <1>4, Zenon DEF ShownTime, ReadStreamTime
  <2> QED BY <1>2, <2>1, Zenon DEF Nothing
<1> QED BY <1>1, <1>3, <1>4, Zenon

\* WriteStreamTime is about the stream time alone.
LEMMA StreamTimeChanges ==
  ASSUME StoreInv, NEW t \in Times, WriteStreamTime(t)
  PROVE  (\A m \in Names : Stored(m)' = Stored(m)) /\ ShownTime' \in Times \cup {ShownTime}
<1>1. /\ \A m \in Names : store[m] = "open" /\ store' = store
      /\ backend' = backend /\ opened' = opened /\ changelog' = changelog
      /\ backend = "memory" => fields' = [fields EXCEPT !.streamTime = t]
      /\ backend = "pebble" => data' = With(data, streamTimeKey, BigEndian(t, TimeWidth))
      /\ backend \in {"pebble", "memory"}
  BY Zenon DEF WriteStreamTime, Running, StoreInv, Phases
<1>2. ASSUME NEW m \in Names PROVE Stored(m)' = Stored(m)
  BY <1>1, StreamTimeInv, StoredKept, Zenon
<1>3. CASE backend = "memory" /\ ~opened
  <2>1. ShownTime' = 0 /\ ShownTime = 0
    BY <1>1, <1>3, Zenon DEF ShownTime
  <2> QED BY <1>2, <2>1, Zenon
<1>4. CASE backend = "memory" /\ opened
  <2>1. fields'.streamTime = t
    BY <1>1, <1>4, Zenon DEF StoreInv, CheckpointsLogged
  <2>2. ShownTime' = t
    BY <1>1, <1>4, <2>1, Zenon DEF ShownTime, ReadStreamTime
  <2> QED BY <1>2, <2>2, Zenon
<1>5. CASE backend = "pebble"
  <2>1. /\ streamTimeKey \in DOMAIN data'
        /\ data'[streamTimeKey] = BigEndian(t, TimeWidth)
    BY <1>1, <1>5, Zenon DEF With
  <2>2. Signed(BigEndian(t, TimeWidth)) = t
    BY SignedOffset, StoreAssumption, Zenon
  <2>3. ShownTime' = t
    BY <1>1, <1>5, <2>1, <2>2, Zenon DEF ShownTime, ReadStreamTime
  <2> QED BY <1>2, <2>3, Zenon
<1> QED BY <1>1, <1>3, <1>4, <1>5, Zenon

\* closeTask: what is left of the stores is what their changelogs rebuild.
LEMMA CloseChanges ==
  ASSUME StoreInv, Close
  PROVE  /\ \A n \in Names : Stored(n)' = Contract!NonEmpty(Stored(n))
         /\ ShownTime' \in {ShownTime, 0}
<1>1. /\ \A n \in Names : store[n] = "open" /\ collector[n] = <<>>
      /\ \A n \in Names : store'[n] = "closed"
      /\ opened' = FALSE /\ backend' = backend /\ fields' = fields
      /\ changelog' = changelog
  BY Zenon DEF Close, Running
<1>2. ASSUME NEW n \in Names PROVE Stored(n)' = Contract!NonEmpty(Stored(n))
  <2>1. Log(n) = changelog[n]
    BY <1>1, LogTyped, Zenon DEF StoreInv
  <2>2. MapWritten(data, n) /\ Agrees(data, n, changelog[n], Len(changelog[n]))
    BY <1>1, <2>1, Zenon DEF StoreInv, MapsAgree, Reflected
  <2>3. {x \in View(data, n) : x[2] # Empty} = Final(n, changelog[n])
    BY <2>2, ViewFinal, Zenon
  <2>4. Stored(n) = View(data, n) /\ Stored(n)' = Final(n, changelog[n])
    BY <1>1, Zenon DEF Stored
  <2> QED BY <2>3, <2>4, Zenon DEF Contract!NonEmpty
<1>3. CASE backend = "pebble"
  <2>1. SameAt(streamTimeKey)
    BY <1>3, CloseInv, Zenon
  <2>2. ReadStreamTime' = ReadStreamTime
    BY <1>1, <2>1, SameStreamTime, Zenon
  <2>3. ShownTime' = ShownTime
    BY <1>1, <1>3, <2>2, Zenon DEF ShownTime
  <2> QED BY <1>2, <2>3, Zenon
<1>4. CASE backend # "pebble"
  <2>1. ShownTime' = 0
    BY <1>1, <1>4, Zenon DEF ShownTime
  <2> QED BY <1>2, <2>1, Zenon
<1> QED BY <1>3, <1>4, Zenon

\* A change of one store, as a step of the contract.
LEMMA ContractChange ==
  ASSUME ScansExact, ScansExact', NEW n \in Names, Changes(n),
         \/ Contract!Put(n, Stored(n), Stored(n)')
         \/ Contract!Delete(n, Stored(n), Stored(n)')
         \/ Contract!Open(Stored(n), Stored(n)')
  PROVE  Contract!Next
<1> DEFINE C == [m \in Names |-> Shown(m)]
           D == [m \in Names |-> Shown(m)']
<1>1. \A m \in Names : C[m] = Stored(m) /\ D[m] = Stored(m)'
  BY Zenon DEF ScansExact
<1>2. \A m \in Names \ {n} : D[m] = C[m]
  BY <1>1, Zenon DEF Changes
<1>3. Contract!Put(n, C[n], D[n]) \/ Contract!Delete(n, C[n], D[n])
      \/ Contract!Open(C[n], D[n])
  BY <1>1, Zenon
<1>4. Contract!Change(n)
  BY <1>2, <1>3, Zenon DEF Contract!Change, Changes, Shown, ShownTime
<1> QED BY <1>4, Zenon DEF Contract!Next

\* A step that changes no store.
LEMMA ContractSame ==
  ASSUME ScansExact, ScansExact', \A m \in Names : Stored(m)' = Stored(m)
  PROVE  [m \in Names |-> Shown(m)]' = [m \in Names |-> Shown(m)]
BY Zenon DEF ScansExact

\* Every step is one of the contract or changes nothing of it.
LEMMA ContractStep ==
  ASSUME StoreInv, StoreInv', [Next]_vars
  PROVE  [Contract!Next]_(Contract!vars)
<1>0. ScansExact /\ ScansExact'
  <2>1. ScansExact'
    BY ScansShow, PTL
  <2> QED BY <2>1, ScansShow, Zenon
<1>1. ASSUME Nothing PROVE UNCHANGED Contract!vars
  BY <1>0, <1>1, ContractSame, Zenon DEF Nothing, Contract!vars, Shown, ShownTime
<1>2. CASE UNCHANGED vars
  <2>1. /\ backend' = backend /\ data' = data /\ fields' = fields /\ store' = store
        /\ opened' = opened /\ changelog' = changelog
    BY <1>2, Zenon DEF vars
  <2>2. Nothing
    BY <2>1, Zenon DEF Nothing, Stored, ShownTime, ReadStreamTime
  <2> QED BY <1>1, <2>2, Zenon
<1>3. CASE Open
  BY <1>1, <1>3, OpenChanges, Zenon
<1>4. CASE Close
  <2>1. /\ \A n \in Names : Stored(n)' = Contract!NonEmpty(Stored(n))
        /\ ShownTime' \in {ShownTime, 0}
    BY <1>4, CloseChanges, Zenon
  <2>2. \A n \in Names : Shown(n)' = Contract!NonEmpty([m \in Names |-> Shown(m)][n])
    BY <1>0, <2>1, Zenon DEF ScansExact
  <2>3. Contract!Close
    BY <2>1, <2>2, Zenon DEF Contract!Close, Shown, ShownTime
  <2> QED BY <2>3, Zenon DEF Contract!Next
<1>5. ASSUME NEW n \in Names, OpenStore(n) \/ DrainMutations(n)
      PROVE  [Contract!Next]_(Contract!vars)
  BY <1>0, <1>1, <1>5, OpenStoreChanges, DrainChanges, ContractChange, Zenon
<1>6. ASSUME NEW t \in Times, WriteStreamTime(t)
      PROVE  [Contract!Next]_(Contract!vars)
  <2>1. (\A m \in Names : Stored(m)' = Stored(m)) /\ ShownTime' \in Times \cup {ShownTime}
    BY <1>6, StreamTimeChanges, Zenon
  <2>2. CASE ShownTime' = ShownTime
    BY <1>1, <2>1, <2>2, Zenon DEF Nothing
  <2>3. CASE ShownTime' \in Times
    <3>1. Contract!WriteStreamTime
      BY <1>0, <2>1, <2>3, ContractSame, Zenon DEF Contract!WriteStreamTime, Shown, ShownTime
    <3> QED BY <3>1, Zenon DEF Contract!Next
  <2> QED BY <2>1, <2>2, <2>3, Zenon
<1>7. ASSUME NEW n \in Names \ WindowNames, NEW k \in Keys,
             Delete(n, k) \/ \E v \in Values : Put(n, k, v)
      PROVE  Contract!Next
  <2>1. n \in Names /\ k \in EntriesOf(n) /\ FullKey(n, k) = encodeKey(n, k)
    BY Zenon DEF EntriesOf, FullKey
  <2>2. CASE Delete(n, k)
    BY <1>0, <2>1, <2>2, UnsetChanges, ContractChange, Zenon DEF Delete
  <2>3. ASSUME NEW v \in Values, Put(n, k, v) PROVE Contract!Next
    BY <1>0, <2>1, <2>3, SetChanges, ContractChange, Zenon DEF Put
  <2> QED BY <1>7, <2>2, <2>3, Zenon
<1>8. ASSUME NEW n \in WindowNames, NEW k \in Keys, NEW start \in Starts,
             \/ WindowDelete(n, k, start)
             \/ \E v \in Values : WindowPut(n, k, start, v)
      PROVE  Contract!Next
  <2> DEFINE e == <<k, start>>
  <2>1. n \in Names /\ e \in EntriesOf(n) /\ FullKey(n, e) = WindowKey(n, k, start)
    BY StoreAssumption, Zenon DEF EntriesOf, FullKey
  <2> HIDE DEF e
  <2>2. CASE WindowDelete(n, k, start)
    BY <1>0, <2>1, <2>2, UnsetChanges, ContractChange, Zenon DEF WindowDelete
  <2>3. ASSUME NEW v \in Values, WindowPut(n, k, start, v) PROVE Contract!Next
    BY <1>0, <2>1, <2>3, SetChanges, ContractChange, Zenon DEF WindowPut
  <2> QED BY <1>8, <2>2, <2>3, Zenon
<1>9. ASSUME NEW n \in WindowNames, NEW k \in Keys,
             DeleteRangeBytes(n, WindowKeyLowerBound(k), WindowKeyUpperBound(k))
      PROVE  Contract!Next
  <2>1. n \in Names
    BY StoreAssumption, Zenon
  <2> QED BY <1>0, <1>9, <2>1, DeleteRangeChanges, ContractChange, Zenon
<1>10. ASSUME NEW n \in Names, NEW e \in EntriesOf(n), NEW v \in Values \cup {Nil},
              Elsewhere(n, e, v)
       PROVE  Contract!Next
  BY <1>0, <1>10, ElsewhereChanges, ContractChange, Zenon
<1> QED BY <1>2, <1>3, <1>4, <1>5, <1>6, <1>7, <1>8, <1>9, <1>10, Zenon DEF Next

\* Nothing is stored at the start.
LEMMA ContractInit ==
  ASSUME Init
  PROVE  Contract!Init
<1>1. /\ store = [n \in Names |-> "closed"] /\ changelog = [n \in Names |-> <<>>]
      /\ data = NoData /\ fields = NoFields
  BY Zenon DEF Init
<1>2. ASSUME NEW n \in Names PROVE Shown(n) = {}
  <2>1. changelog[n] = <<>> /\ store[n] = "closed"
    BY <1>1, Zenon
  <2>2. Logged(n, <<>>) = {}
    BY DEF Logged
  <2> QED BY <2>1, <2>2, Zenon DEF Shown
<1>3. ShownTime = 0
  BY <1>1, Zenon DEF ShownTime, ReadStreamTime, NoFields, NoData
<1> QED BY <1>2, <1>3, Zenon DEF Contract!Init, Shown, ShownTime

\* Both backends implement the interfaces Store and StoreBackend of store.go,
\* as StateStore states them: stores that do not know of each other, with the
\* entries that were put and not deleted, kept over closings, restores and the
\* runs of other instances, whatever the names, keys, times and values.
THEOREM StoresImplementContract == Spec => ImplementsContract
<1>1. Init => Contract!Init
  BY ContractInit, Zenon
<1>2. StoreInv /\ StoreInv' /\ [Next]_vars => [Contract!Next]_(Contract!vars)
  BY ContractStep, Zenon
<1> QED BY <1>1, <1>2, MapsFollowLogs, PTL DEF Spec, ImplementsContract, Contract!Spec
============================================================================
