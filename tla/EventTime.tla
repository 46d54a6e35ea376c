------------------------------ MODULE EventTime ------------------------------
(***************************************************************************)
(* Event time in a task: stream time, the late boundary every windowed     *)
(* operator applies to a record and the retention sweep TaskManager runs   *)
(* after a batch (internal/runtime/task_manager.go).  Times are in         *)
(* milliseconds in the code and small integers here.                       *)
(***************************************************************************)
EXTENDS Integers

\* AdvanceStreamTime: stream time is the largest timestamp observed.
Advanced(streamTime, ts) == IF ts > streamTime THEN ts ELSE streamTime

\* A record with a smaller timestamp is dropped as late.
LateBoundary(streamTime, size, grace) == streamTime - size - grace

\* The late check of a processor: stream time advances first.
IsLate(ts, streamTime, size, grace) ==
  ts < LateBoundary(Advanced(streamTime, ts), size, grace)

\* Mutant of SweepDue: one millisecond too patient.
SweepDueLater(streamTime, lastSweepTime, interval) ==
  interval > 0 /\ streamTime - lastSweepTime > interval

\* runSweep does nothing until stream time has advanced by the interval.
SweepDue(streamTime, lastSweepTime, interval) ==
  interval > 0 /\ streamTime - lastSweepTime >= interval

\* sweepWindowStore and sweepSessionStore delete an entry by its window start
\* or session end t; a boundary that is not positive deletes nothing.
Expired(t, streamTime, size, grace) ==
  LET expiryBoundary == streamTime - size - grace
  IN  expiryBoundary > 0 /\ t < expiryBoundary
==============================================================================
