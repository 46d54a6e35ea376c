--------------------------- MODULE WindowAggregate ---------------------------
(***************************************************************************)
(* TimeWindowedStream.Aggregate (windowed.go) over tumbling or hopping     *)
(* windows (window.go), with the retention sweep of its store and the      *)
(* reopening of its task.  A record is its place in arrivals; the          *)
(* aggregate of a window is the set of records folded into it.             *)
(***************************************************************************)
EXTENDS EventTime, Sequences

CONSTANTS
  Keys,         \* the record keys
  Definitions,  \* the window definitions: kind, size, advance and grace
  MaxTs,        \* bound on timestamps
  MaxRecords,   \* bound on the number of records
  MaxReopens    \* bound on how often the task is reopened

ASSUME WindowAssumption ==
  /\ \A d \in Definitions :
       /\ d.hopping \in BOOLEAN
       /\ d.size \in Nat \ {0} /\ d.advance \in 1 .. d.size /\ d.grace \in Nat
  /\ MaxTs \in Nat /\ MaxRecords \in Nat /\ MaxReopens \in Nat

VARIABLES
  def,             \* the definition of the operator's windows
  arrivals,        \* history: the records processed, with the late verdict
  store,           \* store[k][start]: the window's aggregate, {} if absent
  streamTime,      \* task.streamTime
  lastSweepTime,   \* task.lastSweepTime
  persisted,       \* the stream time in the backend
  swept,           \* history: the largest boundary a sweep has applied
  reopens

vars ==
  <<def, arrivals, store, streamTime, lastSweepTime, persisted, swept, reopens>>

Size    == def.size
Advance == def.advance   \* the distance between the starts of hopping windows
Hopping == def.hopping
Grace   == def.grace

Starts == 0 .. MaxTs

Init ==
  /\ def \in Definitions
  /\ arrivals = <<>>
  /\ store = [k \in Keys |-> [s \in Starts |-> {}]]
  /\ streamTime = 0
  /\ lastSweepTime = 0
  /\ persisted = 0
  /\ swept = 0
  /\ reopens = 0

\* Go's integer division truncates towards zero.
Quotient(a, b) == IF a >= 0 THEN a \div b ELSE -((-a) \div b)
Remainder(a, b) == a - b * Quotient(a, b)

floorDiv(a, b) ==
  IF Remainder(a, b) < 0 THEN Quotient(a, b) - 1 ELSE Quotient(a, b)

TumblingStarts(ts) == {Quotient(ts, Size) * Size}

\* Mutant of HoppingStarts: the earliest window is one step too late.
HoppingStartsFromNext(ts) ==
  LET latest == floorDiv(ts, Advance) * Advance
      earliest == floorDiv(ts - Size + 2 * Advance, Advance) * Advance
  IN  {s \in (IF earliest < 0 THEN 0 ELSE earliest) .. latest : s % Advance = 0}

\* The starts earliestStart, earliestStart + advanceMs, ... up to latestStart.
HoppingStarts(ts) ==
  LET latest == floorDiv(ts, Advance) * Advance
      earliest == floorDiv(ts - Size + Advance, Advance) * Advance
  IN  {s \in (IF earliest < 0 THEN 0 ELSE earliest) .. latest : s % Advance = 0}

\* WindowDefinition.Assign: the starts of the windows of a record.
Assign(ts) == IF Hopping THEN HoppingStarts(ts) ELSE TumblingStarts(ts)

\* The processor function: advance stream time, drop a late record, otherwise
\* fold the record into each of its windows.
Process(k, ts) ==
  LET id == Len(arrivals) + 1
      late == IsLate(ts, streamTime, Size, Grace)
  IN  /\ id <= MaxRecords
      /\ streamTime' = Advanced(streamTime, ts)
      /\ arrivals' = Append(arrivals, [key |-> k, ts |-> ts, late |-> late])
      /\ store' = [store EXCEPT ![k] = [s \in Starts |->
                     IF ~late /\ s \in Assign(ts) THEN @[s] \cup {id} ELSE @[s]]]
      /\ UNCHANGED <<def, lastSweepTime, persisted, swept, reopens>>

\* The windows a sweep now deletes.
ExpiredWindows ==
  {w \in Keys \X Starts :
     store[w[1]][w[2]] # {} /\ Expired(w[2], streamTime, Size, Grace)}

\* sweepWindowStore has deleted the windows of W.
DeleteWindows(W) ==
  /\ store' = [k \in Keys |-> [s \in Starts |->
                 IF <<k, s>> \in W THEN {} ELSE store[k][s]]]
  /\ swept' = Advanced(swept, LateBoundary(streamTime, Size, Grace))

\* PostBatch: sweep if it is due, then persist the stream time; a failed write
\* of the stream time is only logged.
PostBatch ==
  /\ IF SweepDue(streamTime, lastSweepTime, Size)
       THEN DeleteWindows(ExpiredWindows) /\ lastSweepTime' = streamTime
       ELSE UNCHANGED <<store, swept, lastSweepTime>>
  /\ persisted' \in {streamTime, persisted}
  /\ UNCHANGED <<def, arrivals, streamTime, reopens>>

\* openTask: the stream time comes from the backend, 0 on a host without one.
Reopened ==
  /\ reopens < MaxReopens
  /\ reopens' = reopens + 1
  /\ persisted' \in {persisted, 0}
  /\ streamTime' = persisted'
  /\ lastSweepTime' = 0

Reopen ==
  /\ Reopened
  /\ UNCHANGED <<def, arrivals, store, swept>>

\* The sweep dies half way (a store error or a crash) and the task is reopened.
SweepFail ==
  /\ SweepDue(streamTime, lastSweepTime, Size)
  /\ \E W \in SUBSET ExpiredWindows : DeleteWindows(W)
  /\ Reopened
  /\ UNCHANGED <<def, arrivals>>

Next ==
  \/ \E k \in Keys, ts \in 0 .. MaxTs : Process(k, ts)
  \/ PostBatch
  \/ Reopen
  \/ SweepFail

Spec == Init /\ [][Next]_vars

-----------------------------------------------------------------------------
(* Properties.                                                             *)

\* Type invariant.
TypeOK ==
  /\ def \in Definitions
  /\ arrivals \in Seq([key : Keys, ts : 0 .. MaxTs, late : BOOLEAN])
  /\ store \in [Keys -> [Starts -> SUBSET (1 .. Len(arrivals))]]
  /\ streamTime \in 0 .. MaxTs
  /\ lastSweepTime \in 0 .. streamTime
  /\ persisted \in 0 .. streamTime
  /\ swept \in 0 .. MaxTs
  /\ reopens \in 0 .. MaxReopens

\* The accepted records of key k whose timestamp lies in [s, s + Size).
RecordsIn(k, s) ==
  {i \in 1 .. Len(arrivals) :
     /\ arrivals[i].key = k /\ ~arrivals[i].late
     /\ s <= arrivals[i].ts /\ arrivals[i].ts < s + Size}

Step == IF Hopping THEN Advance ELSE Size

\* A window that no sweep has expired holds exactly the accepted records in its
\* interval, whatever their order, and every window that contains an accepted
\* record exists: Assign, the late check and the sweep agree.
UnsweptWindowsComplete ==
  \A k \in Keys, s \in Starts :
    s >= swept => store[k][s] = IF s % Step = 0 THEN RecordsIn(k, s) ELSE {}

\* Retention is bounded although sweeps are amortised and late records may
\* bring expired windows back: after a batch no stored window started three
\* window sizes and the grace period before stream time, nor one step later.
RetentionBounded ==
  [][PostBatch =>
       \A k \in Keys, s \in Starts :
         store'[k][s] # {} => s > streamTime - 3 * Size - Grace + 1]_vars

\* "late records within grace update their window; beyond grace they're
\* dropped": a stored window holds every accepted record of its interval.
AcceptedUpdateTheirWindow ==
  \A k \in Keys, s \in Starts :
    store[k][s] # {} => store[k][s] = RecordsIn(k, s)
==============================================================================
