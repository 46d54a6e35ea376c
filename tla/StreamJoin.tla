------------------------------ MODULE StreamJoin ------------------------------
(***************************************************************************)
(* KStream.Join (ssjoin.go), the windowed stream-stream join: each side    *)
(* buffers its records in a window store under key and timestamp, and a    *)
(* record that arrives scans the other side's store.  The retention sweep  *)
(* of TaskManager expires both stores.  A record is its place in arrivals. *)
(* Timestamps are signed Width-bit integers, as they are 64-bit ones in    *)
(* the code, and composite keys order them by their unsigned encoding.     *)
(***************************************************************************)
EXTENDS EventTime, Sequences

CONSTANTS
  Keys,         \* the record keys
  Timestamps,   \* the timestamps records may carry
  Before,       \* JoinWindows.Before, in milliseconds
  After,        \* JoinWindows.After
  Grace,        \* JoinWindows.Grace
  Width,        \* the width of a timestamp
  MaxRecords,   \* bound on the number of records
  MaxReopens    \* bound on how often the task is reopened

MaxTime == 2 ^ (Width - 1) - 1

ASSUME JoinAssumption ==
  /\ Timestamps \subseteq 0 .. MaxTime
  /\ {Before, After, Grace, Before + Grace, Before + After} \subseteq 0 .. MaxTime
  /\ Width \in Nat \ {0} /\ MaxTime \in Nat /\ 2 ^ Width = 2 * (MaxTime + 1)
  /\ MaxRecords \in Nat /\ MaxReopens \in Nat

Sides == {"left", "right"}
Other(side) == IF side = "left" THEN "right" ELSE "left"

VARIABLES
  arrivals,        \* history: the records processed, and how late they were
  buffer,          \* buffer[side][k][ts]: the record stored there, 0 if none
  joined,          \* history: the pairs <<left record, right record>> emitted
  streamTime,      \* task.streamTime
  lastSweepTime,   \* task.lastSweepTime
  persisted,       \* the stream time in the backend
  latest,          \* history: the largest timestamp any task has seen
  reopens

vars == <<arrivals, buffer, joined, streamTime, lastSweepTime, persisted,
          latest, reopens>>

Init ==
  /\ arrivals = <<>>
  /\ buffer = [side \in Sides |-> [k \in Keys |-> [t \in 0 .. MaxTime |-> 0]]]
  /\ joined = {}
  /\ streamTime = 0
  /\ lastSweepTime = 0
  /\ persisted = 0
  /\ latest = 0
  /\ reopens = 0

\* joinWindowDef.MaxSizeMs, which is the sweep interval too.
Retention == Before + After

\* winkey.CompositeKey: a signed time as the unsigned number it is ordered by.
Encoded(t) == t % 2 ^ Width

\* Mutant of LowerBound: the grace period is not looked back.
LowerBoundWithoutGrace(ts) == Encoded(IF ts > Before THEN ts - Before ELSE 0)

\* ssJoinScanBounds: the inclusive lower bound...
LowerBound(ts) ==
  Encoded(IF ts > Before + Grace THEN ts - (Before + Grace) ELSE 0)

\* Mutant of UpperBound: grace widens the upper bound as well.
UpperBoundWithGrace(ts) ==
  Encoded((IF ts > MaxTime - After - Grace THEN MaxTime ELSE ts + After + Grace) + 1)

\* ...and the exclusive upper bound, where hiMs + 1 may wrap to the smallest
\* signed integer, which sorts above every timestamp.
UpperBound(ts) ==
  Encoded((IF After > 0 /\ ts > MaxTime - After THEN MaxTime ELSE ts + After) + 1)

\* RangeCompositeBytes over the entries of one key.
Scan(entries, ts) ==
  {entries[t] : t \in {u \in 0 .. MaxTime :
     /\ entries[u] # 0
     /\ LowerBound(ts) <= Encoded(u) /\ Encoded(u) < UpperBound(ts)}}

\* The left and the right processor: advance stream time, drop a late record,
\* otherwise buffer it and join it with the other side's records in bounds.
Process(side, k, ts) ==
  LET id == Len(arrivals) + 1
      late == IsLate(ts, streamTime, Retention, Grace)
      found == Scan(buffer[Other(side)][k], ts)
  IN  /\ id <= MaxRecords
      /\ streamTime' = Advanced(streamTime, ts)
      /\ latest' = Advanced(latest, ts)
      /\ arrivals' = Append(arrivals, [side |-> side, key |-> k, ts |-> ts,
                                       late |-> late, latest |-> latest'])
      /\ IF late
           THEN UNCHANGED <<buffer, joined>>
           ELSE /\ buffer' = [buffer EXCEPT ![side][k][ts] = id]
                /\ joined' = joined \cup
                     IF side = "left" THEN {id} \X found ELSE found \X {id}
      /\ UNCHANGED <<lastSweepTime, persisted, reopens>>

\* PostBatch: sweep both stores if it is due, then persist the stream time; a
\* failed write of the stream time is only logged.
PostBatch ==
  /\ IF SweepDue(streamTime, lastSweepTime, Retention)
       THEN /\ buffer' = [side \in Sides |-> [k \in Keys |-> [t \in 0 .. MaxTime |->
                  IF Expired(t, streamTime, Retention, Grace)
                    THEN 0
                    ELSE buffer[side][k][t]]]]
            /\ lastSweepTime' = streamTime
       ELSE UNCHANGED <<buffer, lastSweepTime>>
  /\ persisted' \in {streamTime, persisted}
  /\ UNCHANGED <<arrivals, joined, streamTime, latest, reopens>>

\* openTask: the stream time comes from the backend, 0 on a host without one,
\* and the stores from their changelogs.
Reopen ==
  /\ reopens < MaxReopens
  /\ reopens' = reopens + 1
  /\ persisted' \in {persisted, 0}
  /\ streamTime' = persisted'
  /\ lastSweepTime' = 0
  /\ UNCHANGED <<arrivals, buffer, joined, latest>>

Next ==
  \/ \E side \in Sides, k \in Keys, ts \in Timestamps : Process(side, k, ts)
  \/ PostBatch
  \/ Reopen

Spec == Init /\ [][Next]_vars

-----------------------------------------------------------------------------
(* Properties.                                                             *)

Ids == 1 .. Len(arrivals)

\* Type invariant.
TypeOK ==
  /\ \A i \in Ids : arrivals[i].side \in Sides /\ arrivals[i].key \in Keys
  /\ buffer \in [Sides -> [Keys -> [0 .. MaxTime -> Ids \cup {0}]]]
  /\ joined \subseteq Ids \X Ids
  /\ streamTime \in 0 .. latest
  /\ lastSweepTime \in 0 .. streamTime
  /\ persisted \in 0 .. streamTime
  /\ latest \in 0 .. MaxTime
  /\ reopens \in 0 .. MaxReopens

\* Trigger i, which arrives after o, must look for o: the documented bounds.
InBounds(i, o) ==
  /\ arrivals[i].key = arrivals[o].key
  /\ arrivals[i].side # arrivals[o].side
  /\ arrivals[i].ts - Before - Grace <= arrivals[o].ts
  /\ arrivals[o].ts <= arrivals[i].ts + After

Pair(i, o) == IF arrivals[i].side = "left" THEN <<i, o>> ELSE <<o, i>>

\* Record o is in its store when i arrives, as far as other records go: it was
\* not dropped as late, nor overwritten by one of its side, key and timestamp.
Buffered(o, i) ==
  /\ ~arrivals[o].late
  /\ \A n \in o + 1 .. i - 1 :
       ~arrivals[n].late /\ arrivals[n].side = arrivals[o].side
         => <<arrivals[n].key, arrivals[n].ts>> # <<arrivals[o].key, arrivals[o].ts>>

\* Only pairs within the join window are emitted, left record first, each at
\* the arrival of its later record, up to the largest timestamp there is.
JoinedInWindow ==
  \A x \in joined :
    LET i == IF x[1] > x[2] THEN x[1] ELSE x[2]
        o == IF x[1] > x[2] THEN x[2] ELSE x[1]
    IN  x = Pair(i, o) /\ InBounds(i, o) /\ ~arrivals[i].late /\ Buffered(o, i)

\* A record no more than After behind the largest timestamp seen finds every
\* record it must: the sweep has not expired one, even after a reopening with
\* an older stream time.
TimelyJoinsComplete ==
  \A i \in Ids : \A o \in 1 .. i - 1 :
    /\ ~arrivals[i].late /\ arrivals[i].ts >= arrivals[i].latest - After
    /\ InBounds(i, o) /\ Buffered(o, i)
    => Pair(i, o) \in joined

\* "Both stores are correctly retained for all non-negative Before/After/Grace
\* values": every record that is not late finds every record it must.
StoresRetained ==
  \A i \in Ids : \A o \in 1 .. i - 1 :
    ~arrivals[i].late /\ InBounds(i, o) /\ Buffered(o, i) => Pair(i, o) \in joined
==============================================================================
