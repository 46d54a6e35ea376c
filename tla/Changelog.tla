------------------------------ MODULE Changelog ------------------------------
(***************************************************************************)
(* A state store's changelog partition and its replay into the local       *)
(* backend: the arithmetic and the effect of RestoreFromChangelog          *)
(* (internal/runtime/restore.go) as openTask and closeTask use it.         *)
(*                                                                         *)
(* A changelog is a sequence of records [key, val]; the record at Kafka    *)
(* offset f is log[f + 1], and the high watermark is Len(log).  The topic  *)
(* is compacted, never truncated, so its earliest offset is 0.  A store is *)
(* a function from keys to values.                                         *)
(***************************************************************************)
EXTENDS Integers, Sequences

CONSTANT
  MaxInt64   \* the largest int64; models give it a small value

ASSUME MaxInt64Assumption == MaxInt64 \in Nat \ {0}

\* checkpointOffset + 1 in Go's int64 arithmetic: it wraps at the top.
Inc64(x) ==
  IF x = MaxInt64 THEN -MaxInt64 - 1 ELSE x + 1

\* Mutant of StartOffset: a missing checkpoint is read as offset 0.
StartOffsetSkipsFirst(checkpointOffset) ==
  LET start == Inc64(checkpointOffset)
  IN  IF start < 1 THEN 1 ELSE start

\* The first offset replayed: one past the checkpoint, clamped up to the
\* earliest offset of the topic.
StartOffset(checkpointOffset) ==
  LET start == Inc64(checkpointOffset)
  IN  IF start < 0 THEN 0 ELSE start

\* No record to replay: the high watermark is 0 or the start has reached it.
CaughtUp(log, checkpointOffset) ==
  StartOffset(checkpointOffset) >= Len(log)

\* The 1-based places at or after offset start that hold a record of key k.
PlacesOf(log, start, k) ==
  {i \in start + 1 .. Len(log) : log[i].key = k}

\* i is the largest member of S.
IsLast(S, i) ==
  i \in S /\ \A j \in S : j <= i

\* The backend after the mutations from offset start on are applied in order:
\* the last record of a key decides, a key with no record keeps its value.
Replay(log, start, db) ==
  [k \in DOMAIN db |->
     LET S == PlacesOf(log, start, k)
     IN  IF S = {} THEN db[k] ELSE log[CHOOSE i \in S : IsLast(S, i)].val]

\* RestoreFromChangelog on the store's content and on its checkpoint: both are
\* written in one atomic backend batch, or left untouched when caught up.
RestoredDB(log, checkpointOffset, db) ==
  IF CaughtUp(log, checkpointOffset)
    THEN db
    ELSE Replay(log, StartOffset(checkpointOffset), db)

RestoredCheckpoint(log, checkpointOffset) ==
  IF CaughtUp(log, checkpointOffset)
    THEN checkpointOffset
    ELSE Len(log) - 1

-----------------------------------------------------------------------------
(* Vocabulary for logs whose values are sets of the inputs they reflect.   *)

\* Some record of key k in log reflects the input at offset o.
InLog(log, k, o) ==
  \E i \in 1 .. Len(log) : log[i].key = k /\ o \in log[i].val

\* A later record of a key reflects whatever an earlier one does.
Monotone(log) ==
  \A i, j \in 1 .. Len(log) :
    i < j /\ log[i].key = log[j].key => log[i].val \subseteq log[j].val

\* The store reflects whatever the first n records do.
Covers(store, log, n) ==
  \A i \in 1 .. Len(log) : i <= n => log[i].val \subseteq store[log[i].key]
==============================================================================
