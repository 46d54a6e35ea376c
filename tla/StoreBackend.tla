---------------------------- MODULE StoreBackend ----------------------------
(***************************************************************************)
(* The backend of one task and the stores it holds: stores/pebble, one     *)
(* Pebble database on disk, and stores/memory, one map that lives as long  *)
(* as the backend.  All stores of a task share one flat map of byte        *)
(* strings; the name of the store and a zero byte come before each key.    *)
(* Pebble keeps checkpoints and the stream time in the same map, memory in *)
(* fields of their own.  The task opens, restores, drains and closes the   *)
(* stores as openTask, PostBatch and closeTask do; while the backend is    *)
(* closed another instance may run the task.                               *)
(***************************************************************************)
EXTENDS ByteKeys, Changelog, FiniteSets

CONSTANTS
  Backends,      \* the kinds of backend: "pebble", "memory"
  Names,         \* the stores of the task
  WindowNames,   \* those among them that are window or session stores
  Keys,          \* the serialised keys
  Starts,        \* the starts of windows and sessions
  Values,        \* the serialised values
  Times,         \* the stream times that are written
  Nil,           \* a StoreMutation without a value
  MaxWrites,     \* bound on the puts and the deletions of one entry
  MaxOpens       \* bound on how often the backend is opened

\* Offsets and times are int64.  A key is far shorter than a length prefix can
\* say: Kafka bounds records by an int32.
ASSUME StoreAssumption ==
  /\ Backends \subseteq {"pebble", "memory"}
  /\ Names \subseteq Seq(1 .. ByteMax) \ {<<>>} /\ WindowNames \subseteq Names
  /\ Keys \subseteq ByteStrings
  /\ \A k \in Keys : Len(k) < ByteMax * Base ^ (LenWidth - 1)
  /\ Values \subseteq ByteStrings /\ Nil \notin Values
  /\ Base ^ TimeWidth = 2 * (MaxInt64 + 1)
  /\ Starts \subseteq -MaxInt64 - 1 .. MaxInt64 /\ Times \subseteq 0 .. MaxInt64
  /\ MaxWrites \in Nat /\ MaxOpens \in Nat

VARIABLES
  backend,       \* the kind of backend
  data,          \* DB.data, or the content of the Pebble database
  fields,        \* DB.checkpoints and DB.streamTime of the memory backend
  store,         \* each store: "closed" or "open"
  opened,        \* the backend is open
  collector,     \* the mutations of each store not drained yet
  changelog,     \* broker: the changelog partition of each store
  writes, opens

vars == <<backend, data, fields, store, opened, collector, changelog, writes,
          opens>>

Empty == <<>>
NoData == [k \in {} |-> Empty]
NoFields == [checkpoint |-> [n \in Names |-> -1], streamTime |-> 0]

Init ==
  /\ backend \in Backends
  /\ data = NoData /\ fields = NoFields
  /\ store = [n \in Names |-> "closed"] /\ opened = FALSE
  /\ collector = [n \in Names |-> <<>>]
  /\ changelog = [n \in Names |-> <<>>]
  /\ writes = 0 /\ opens = 0

\* The task runs once all its stores are open.
Running == \A n \in Names : store[n] = "open"

-----------------------------------------------------------------------------
(* Keys.                                                                   *)

\* Mutant of Prefix: no separator.
PrefixName(n) == n

Prefix(n) == n \o <<0>>
encodeKey(n, k) == Prefix(n) \o k
WindowKey(n, k, start) == Prefix(n) \o CompositeKey(k, start)
Suffix(n, full) == SubSeq(full, Len(Prefix(n)) + 1, Len(full))

\* Keys of the backend itself begin with a zero byte.
checkpointKey(n) == <<0, 1, 0>> \o n
streamTimeKey == <<0, ByteMax, 0>>

With(map, k, v) == [x \in DOMAIN map \cup {k} |-> IF x = k THEN v ELSE map[x]]
Without(map, S) == [x \in DOMAIN map \ S |-> map[x]]

-----------------------------------------------------------------------------
(* Reading.                                                                *)

\* The keys Range visits.
RangeKeys(n) ==
  LET upper == prefixUpperBound(Prefix(n))
  IN  {k \in DOMAIN data : ~Less(k, Prefix(n)) /\ (upper = <<>> \/ Less(k, upper))}

\* The keys RangeCompositeBytes visits.
RangeCompositeBytes(n, lower, upper) ==
  {k \in DOMAIN data : /\ ~Less(k, encodeKey(n, lower))
                       /\ Less(k, encodeKey(n, upper))}

\* The starts and values RangeForKey visits.
RangeForKey(n, k) ==
  {<<DecodeWindowCompositeKey(Suffix(n, f))[2], data[f]>> :
     f \in RangeCompositeBytes(n, WindowKeyLowerBound(k), WindowKeyUpperBound(k))}

\* What scans of a store show: pairs of an entry and its value.
Content(n) ==
  IF n \in WindowNames
    THEN UNION {{<< <<k, x[1]>>, x[2] >> : x \in RangeForKey(n, k)} : k \in Keys}
    ELSE {<<Suffix(n, f), data[f]>> : f \in RangeKeys(n)}

\* What Get and WindowGet answer.
Found(full) == {data[f] : f \in {full} \cap DOMAIN data}
Get(n, k) == Found(encodeKey(n, k))

WindowGet(n, k, start) == Found(WindowKey(n, k, start))

ReadCheckpoint(n) ==
  IF backend = "memory" THEN fields.checkpoint[n]
  ELSE IF checkpointKey(n) \in DOMAIN data THEN Signed(data[checkpointKey(n)])
  ELSE -1

ReadStreamTime ==
  IF backend = "memory" THEN fields.streamTime
  ELSE IF streamTimeKey \in DOMAIN data THEN Signed(data[streamTimeKey])
  ELSE 0

-----------------------------------------------------------------------------
(* Writing.                                                                *)

\* Copying no bytes yields nil in memory's recordMutation.
Recorded(v) == IF backend = "memory" /\ v = Empty THEN Nil ELSE v

Write ==
  /\ Running
  /\ UNCHANGED <<backend, fields, store, opened, changelog, opens>>

\* Set the value and then collect the mutation, with the full key.
Set(n, full, v) ==
  /\ Write /\ writes < MaxWrites /\ writes' = writes + 1
  /\ data' = With(data, full, v)
  /\ collector' = [collector EXCEPT ![n] =
                     Append(@, [key |-> full, val |-> Recorded(v)])]

Unset(n, full) ==
  /\ Write /\ writes < MaxWrites /\ writes' = writes + 1
  /\ data' = Without(data, {full})
  /\ collector' = [collector EXCEPT ![n] = Append(@, [key |-> full, val |-> Nil])]

Put(n, k, v) == Set(n, encodeKey(n, k), v)
Delete(n, k) == Unset(n, encodeKey(n, k))
WindowPut(n, k, start, v) == Set(n, WindowKey(n, k, start), v)
WindowDelete(n, k, start) == Unset(n, WindowKey(n, k, start))

\* Mutant of DeleteRangeBytes: pebble.DeleteRange, which yields no tombstones.
DeleteRangeBytesSilent(n, lower, upper) ==
  /\ backend = "pebble" /\ Write
  /\ data' = Without(data, RangeCompositeBytes(n, lower, upper))
  /\ UNCHANGED <<collector, writes>>

\* Only Pebble's store has it: scan, then delete one key after the other.
DeleteRangeBytes(n, lower, upper) ==
  LET S == RangeCompositeBytes(n, lower, upper)
  IN  /\ backend = "pebble" /\ Write /\ UNCHANGED writes
      /\ data' = Without(data, S)
      /\ \E len \in 0 .. Cardinality(S) : \E order \in [1 .. len -> S] :
           /\ S = {order[i] : i \in 1 .. len}
           /\ \A i, j \in 1 .. len : i < j => Less(order[i], order[j])
           /\ collector' = [collector EXCEPT ![n] =
                @ \o [i \in 1 .. len |-> [key |-> order[i], val |-> Nil]]]

\* The task drains the store and produces the mutations.
DrainMutations(n) ==
  /\ Running /\ collector[n] # <<>>
  /\ Len(changelog[n] \o collector[n]) <= MaxInt64
  /\ changelog' = [changelog EXCEPT ![n] = @ \o collector[n]]
  /\ collector' = [collector EXCEPT ![n] = <<>>]
  /\ UNCHANGED <<backend, data, fields, store, opened, writes, opens>>

WriteStreamTime(t) ==
  /\ Running
  /\ IF backend = "memory"
       THEN fields' = [fields EXCEPT !.streamTime = t] /\ UNCHANGED data
       ELSE /\ data' = With(data, streamTimeKey, BigEndian(t, TimeWidth))
            /\ UNCHANGED fields
  /\ UNCHANGED <<backend, store, opened, collector, changelog, writes, opens>>
-----------------------------------------------------------------------------
(* Opening and closing.                                                    *)

\* A memory backend starts empty, a Pebble database as it was left.
Open ==
  /\ ~opened /\ opens < MaxOpens
  /\ opened' = TRUE /\ opens' = opens + 1
  /\ fields' = NoFields
  /\ UNCHANGED <<backend, data, store, collector, changelog, writes>>

\* RestoreFromChangelog hands a record of no bytes over as a deletion.
Replayed(v) == IF v = Empty THEN Nil ELSE v

\* The map after the records of the log from offset start on.
Applied(map, log, start) ==
  LET touched == {log[i].key : i \in {j \in DOMAIN log : j > start}}
      last(k) == LET S == PlacesOf(log, start, k)
                 IN  Replayed(log[CHOOSE i \in S : IsLast(S, i)].val)
      gone == {k \in touched : last(k) = Nil}
  IN  [k \in (DOMAIN map \cup touched) \ gone |->
         IF k \in touched THEN last(k) ELSE map[k]]

\* Backend.Restore: mutations and checkpoint in one batch.
Restore(n, start) ==
  LET restored == Applied(data, changelog[n], start)
      last == Len(changelog[n]) - 1
  IN  IF backend = "memory"
        THEN /\ data' = restored
             /\ fields' = [fields EXCEPT !.checkpoint[n] = last]
        ELSE /\ data' = With(restored, checkpointKey(n), BigEndian(last, TimeWidth))
             /\ UNCHANGED fields

\* openStore of openTask: restore past the checkpoint, then open.
OpenStore(n) ==
  /\ opened /\ store[n] = "closed"
  /\ IF CaughtUp(changelog[n], ReadCheckpoint(n))
       THEN UNCHANGED <<data, fields>>
       ELSE Restore(n, StartOffset(ReadCheckpoint(n)))
  /\ store' = [store EXCEPT ![n] = "open"]
  /\ UNCHANGED <<backend, opened, collector, changelog, writes, opens>>

\* The stores with records in their changelogs get a checkpoint.
Checkpointed ==
  LET S == {n \in Names : changelog[n] # <<>>}
      at == {checkpointKey(n) : n \in S}
      of(k) == CHOOSE n \in S : checkpointKey(n) = k
  IN  [k \in DOMAIN data \cup at |->
         IF k \in at THEN BigEndian(Len(changelog[of(k)]) - 1, TimeWidth)
         ELSE data[k]]

\* closeTask once the stores are drained.  DB.Close clears the memory backend.
Close ==
  /\ Running /\ \A n \in Names : collector[n] = <<>>
  /\ data' = IF backend = "memory" THEN NoData ELSE Checkpointed
  /\ store' = [n \in Names |-> "closed"] /\ opened' = FALSE
  /\ UNCHANGED <<backend, fields, collector, changelog, writes, opens>>

EntriesOf(n) == IF n \in WindowNames THEN Keys \X Starts ELSE Keys
FullKey(n, e) ==
  IF n \in WindowNames THEN WindowKey(n, e[1], e[2]) ELSE encodeKey(n, e)

\* Another instance runs the task in the meantime and logs a mutation.
Elsewhere(n, e, v) ==
  /\ ~opened /\ writes < MaxWrites /\ writes' = writes + 1
  /\ Len(changelog[n]) < MaxInt64
  /\ changelog' = [changelog EXCEPT ![n] =
       Append(@, [key |-> FullKey(n, e), val |-> Recorded(v)])]
  /\ UNCHANGED <<backend, data, fields, store, opened, collector, opens>>

-----------------------------------------------------------------------------

Next ==
  \/ Open \/ Close
  \/ \E n \in Names : OpenStore(n) \/ DrainMutations(n)
  \/ \E t \in Times : WriteStreamTime(t)
  \/ \E n \in Names \ WindowNames, k \in Keys :
       Delete(n, k) \/ \E v \in Values : Put(n, k, v)
  \/ \E n \in WindowNames, k \in Keys :
       \/ DeleteRangeBytes(n, WindowKeyLowerBound(k), WindowKeyUpperBound(k))
       \/ \E start \in Starts :
            WindowDelete(n, k, start) \/ \E v \in Values : WindowPut(n, k, start, v)
  \/ \E n \in Names : \E e \in EntriesOf(n), v \in Values \cup {Nil} :
       Elsewhere(n, e, v)

Spec == Init /\ [][Next]_vars

-----------------------------------------------------------------------------
(* Properties.                                                             *)

Mutations == [key : ByteStrings, val : ByteStrings \cup {Nil}]

\* In particular every offset in a checkpoint is one of the changelog, and a
\* scan of a window store meets no key it cannot decode.
TypeOK ==
  /\ backend \in Backends
  /\ DOMAIN data \subseteq ByteStrings /\ \A k \in DOMAIN data : data[k] \in ByteStrings
  /\ \A n \in Names : ReadCheckpoint(n) \in -1 .. Len(changelog[n]) - 1
  /\ \A n \in WindowNames : \A f \in RangeKeys(n) : IsComposite(Suffix(n, f))
  /\ ReadStreamTime \in Times \cup {0}
  /\ store \in [Names -> {"closed", "open"}] /\ opened \in BOOLEAN
  /\ collector \in [Names -> Seq(Mutations)] /\ changelog \in [Names -> Seq(Mutations)]
  /\ writes \in 0 .. MaxWrites /\ opens \in 0 .. MaxOpens

\* The entry a full key of store n stands for.
EntryOf(n, full) ==
  IF n \in WindowNames THEN DecodeWindowCompositeKey(Suffix(n, full))
                       ELSE Suffix(n, full)

\* The pairs of entry and value a log of store n ends with.
Logged(n, log) ==
  {<<EntryOf(n, log[i].key), log[i].val>> :
     i \in {j \in DOMAIN log : /\ log[j].val \notin {Nil, Empty}
                              /\ IsLast(PlacesOf(log, 0, log[j].key), j)}}

\* What is collected and logged of a store is enough to rebuild it, but for
\* the entries whose value has no bytes, which a restore leaves out.
RestoreRebuilds ==
  \A n \in Names : store[n] = "open" =>
    {x \in Content(n) : x[2] # Empty} = Logged(n, changelog[n] \o collector[n])

\* "Mutation keys/values are the same pre-encoded bytes written to Pebble, so
\* changelog consumers can restore store state exactly."
RestoresExactly ==
  \A n \in Names : store[n] = "open" =>
    Content(n) = Logged(n, changelog[n] \o collector[n])

\* Lookups and scans of an open store show the same entries.
LookupsAgree ==
  \A n \in Names : store[n] = "open" =>
    Content(n) =
      IF n \in WindowNames
        THEN UNION {{e} \X WindowGet(n, e[1], e[2]) : e \in Keys \X Starts}
        ELSE UNION {{k} \X Get(n, k) : k \in Keys}

\* The raw bytes a scan of store n visits.
Visible(n) == {<<f, data[f]>> : f \in RangeKeys(n)}

\* "two KeyValueStore instances sharing the same *pebble.DB cannot interfere":
\* a step that neither collects a mutation of a store nor opens or closes it
\* leaves what scans of it visit as it is, whatever it writes for other
\* stores, for checkpoints or for the stream time.
StoresApart ==
  [][\A n \in Names :
       store'[n] = store[n] /\ collector'[n] = collector[n]
         => Visible(n)' = Visible(n)]_vars

RangesOf(n) == {{k} \X Starts : k \in IF n \in WindowNames THEN Keys ELSE {}}

Contract == INSTANCE StateStore WITH
  content <- [n \in Names |-> IF store[n] = "open" THEN Content(n)
                              ELSE Logged(n, changelog[n])],
  streamTime <- IF opened \/ backend = "pebble" THEN ReadStreamTime ELSE 0

\* Scans, lookups, deletions and restores of both backends implement the
\* interfaces of store.go.
ImplementsContract == Contract!Spec
==============================================================================
