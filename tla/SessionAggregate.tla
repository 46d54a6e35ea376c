--------------------------- MODULE SessionAggregate ---------------------------
(***************************************************************************)
(* SessionWindowedStream.Aggregate (session.go): a record is merged with   *)
(* every session of its key within the inactivity gap, and the retention   *)
(* sweep deletes sessions by their end.  A record is its place in          *)
(* arrivals; the accumulator of a session is the set of records folded     *)
(* into it.  The store holds one session per key and session start.        *)
(***************************************************************************)
EXTENDS EventTime, Sequences

CONSTANTS
  Keys,         \* the record keys
  Timestamps,   \* the timestamps records may carry
  Gap,          \* the inactivity gap
  Grace,        \* the grace period
  MaxRecords    \* bound on the number of records

ASSUME SessionAssumption ==
  /\ Timestamps \subseteq Nat
  /\ Gap \in Nat \ {0}
  /\ Grace \in Nat
  /\ MaxRecords \in Nat

VARIABLES
  arrivals,        \* history: the records processed, with the late verdict
  store,           \* store[k]: the sessions [start, end, acc] of key k
  streamTime,      \* task.streamTime
  lastSweepTime,   \* task.lastSweepTime
  deleted          \* history: the records in sessions a sweep has deleted

vars == <<arrivals, store, streamTime, lastSweepTime, deleted>>

Init ==
  /\ arrivals = <<>>
  /\ store = [k \in Keys |-> {}]
  /\ streamTime = 0
  /\ lastSweepTime = 0
  /\ deleted = {}

\* Mutant of Matches: a session exactly one gap later is left alone.
MatchesStrictly(s, ts) == s.end + Gap >= ts /\ s.start - Gap < ts

\* The match predicate.
Matches(s, ts) == s.end + Gap >= ts /\ s.start - Gap <= ts

Matched(k, ts) == {s \in store[k] : Matches(s, ts)}

Least(S) == CHOOSE m \in S : \A x \in S : m <= x
Greatest(S) == CHOOSE m \in S : \A x \in S : x <= m

\* The session the matched sessions M and record id make together.
Merged(M, ts, id) ==
  [start |-> Least({ts} \cup {s.start : s \in M}),
   end |-> Greatest({ts} \cup {s.end : s \in M}),
   acc |-> {id} \cup UNION {s.acc : s \in M}]

\* Mutant of Replaced: only the first matched session is deleted.
ReplacedKeepsOthers(S, M, new) ==
  {s \in S : (s \in M => s.start # Least({t.start : t \in M})) /\ s.start # new.start}
    \cup {new}

\* Every matched session is deleted, then the merged one is written under its
\* start, over whatever is there.
Replaced(S, M, new) ==
  {s \in S : s \notin M /\ s.start # new.start} \cup {new}

\* The processor function.
Process(k, ts) ==
  LET id == Len(arrivals) + 1
      late == IsLate(ts, streamTime, Gap, Grace)
      M == Matched(k, ts)
  IN  /\ id <= MaxRecords
      /\ streamTime' = Advanced(streamTime, ts)
      /\ arrivals' = Append(arrivals, [key |-> k, ts |-> ts, late |-> late])
      /\ store' = [store EXCEPT ![k] =
                     IF late THEN @ ELSE Replaced(@, M, Merged(M, ts, id))]
      /\ UNCHANGED <<lastSweepTime, deleted>>

ExpiredSessions(k) ==
  {s \in store[k] : Expired(s.end, streamTime, Gap, Grace)}

\* The sweep of PostBatch, when it is due.
Sweep ==
  /\ SweepDue(streamTime, lastSweepTime, Gap)
  /\ store' = [k \in Keys |-> store[k] \ ExpiredSessions(k)]
  /\ deleted' = deleted \cup
       UNION {UNION {s.acc : s \in ExpiredSessions(k)} : k \in Keys}
  /\ lastSweepTime' = streamTime
  /\ UNCHANGED <<arrivals, streamTime>>

Next ==
  \/ \E k \in Keys, ts \in Timestamps : Process(k, ts)
  \/ Sweep

Spec == Init /\ [][Next]_vars

-----------------------------------------------------------------------------
(* Properties.                                                             *)

Sessions == [start : Nat, end : Nat, acc : SUBSET Nat]

\* Type invariant.
TypeOK ==
  /\ arrivals \in Seq([key : Keys, ts : Nat, late : BOOLEAN])
  /\ store \in [Keys -> SUBSET Sessions]
  /\ streamTime \in Nat
  /\ lastSweepTime \in Nat
  /\ lastSweepTime <= streamTime
  /\ deleted \subseteq 1 .. Len(arrivals)

\* s ends more than a gap before t starts.
Before(s, t) == s.end + Gap < t.start

\* The sessions of a key are well formed and pairwise more than a gap apart:
\* merging never leaves two sessions that should be one, even when a record
\* bridges two, and no session is overwritten by another with its start.
SessionsSeparated ==
  \A k \in Keys :
    /\ \A s \in store[k] : s.start <= s.end
    /\ \A s, t \in store[k] : s # t => Before(s, t) \/ Before(t, s)

Accepted(k) ==
  {i \in 1 .. Len(arrivals) : arrivals[i].key = k /\ ~arrivals[i].late}

\* The result does not depend on the order of arrival: the sessions of a key
\* are the runs of its accepted timestamps, less those a sweep deleted.  Each
\* record is in one session, the bounds of a session are timestamps of its
\* records, and no inner gap is longer than Gap.
SessionsAreRuns ==
  \A k \in Keys :
    /\ UNION {s.acc : s \in store[k]} = Accepted(k) \ deleted
    /\ \A s, t \in store[k] : s # t => s.acc \cap t.acc = {}
    /\ \A s \in store[k] :
         LET times == {arrivals[i].ts : i \in s.acc}
         IN  /\ s.start \in times /\ s.end \in times
             /\ \A t \in times : s.start <= t /\ t <= s.end
             /\ \A t \in times : t < s.end =>
                  \E u \in times : t < u /\ u <= t + Gap

\* "late records within grace update their window": two accepted records of a
\* key within the gap of each other are in one session as long as it is stored.
AcceptedJoinTheirSession ==
  \A k \in Keys : \A i, j \in Accepted(k) :
    /\ arrivals[i].ts <= arrivals[j].ts
    /\ arrivals[j].ts <= arrivals[i].ts + Gap
    => \A s \in store[k] : i \in s.acc <=> j \in s.acc
==============================================================================
