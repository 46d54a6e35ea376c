---------------------------- MODULE WindowRecovery ----------------------------
(***************************************************************************)
(* A windowed aggregate across failures: one task with a tumbling-window   *)
(* store (windowed.go, window.go), its stream time and its retention sweep *)
(* (internal/runtime/task_manager.go) in the run loop of either guarantee  *)
(* (internal/kafka/client.go).  Stream time is written to the backend      *)
(* after every batch, before the batch is committed, and a record is late  *)
(* or not by the stream time the task was reopened with.                   *)
(*                                                                         *)
(* The aggregate forwards nothing: its output is the store and the         *)
(* changelog. The input is a sequence of timestamps; a record is its       *)
(* source offset. The aggregate of a window is the set of records folded   *)
(* into it, {} when the window is absent, and a changelog record with {}   *)
(* is a tombstone.                                                         *)
(***************************************************************************)
EXTENDS EventTime, Changelog, FiniteSets, SequencesExt

CONSTANTS
  Size,            \* the window size
  Grace,           \* the grace period
  MaxTs,           \* bound on timestamps
  End,             \* the source partition holds the offsets 0 .. End-1
  Guarantees,      \* which guarantees to model, a subset of {"ALO", "EOS"}
  Faults,          \* the kinds of failure that may happen
  MaxFailures      \* bound on their number

FaultKinds == {"process", "flush", "produce", "commit", "cancel", "crash",
               "move", "clock"}

ASSUME RecoveryAssumption ==
  /\ Size \in Nat \ {0} /\ Grace \in Nat /\ MaxTs \in Nat /\ End \in Nat
  /\ Guarantees \subseteq {"ALO", "EOS"}
  /\ Faults \subseteq FaultKinds /\ MaxFailures \in Nat

Offsets == 0 .. End - 1
Starts == {s \in 0 .. MaxTs : s % Size = 0}
EmptyStore == [s \in Starts |-> {}]

VARIABLES
  guarantee,       \* the configured processing guarantee
  input,           \* input[o] is the timestamp of the record at offset o
  committed,       \* broker: the committed source offset
  changelog,       \* broker: the committed changelog records
  txnLog,          \* broker: the changelog records of the open transaction
  db,              \* disk: the window store
  checkpoint,      \* disk: its checkpoint, or -1
  persisted,       \* disk: the stream time
  pc,              \* where the instance is
  next,            \* the next offset to process
  batchEnd,        \* one past the last offset fetched
  pending,         \* the offset a commit would commit
  streamTime,      \* task.streamTime
  lastSweepTime,   \* task.lastSweepTime
  collector,       \* the mutations not drained yet
  fetched,         \* history: one past the largest offset ever fetched
  clockLost,       \* history: a stream time was not written or left behind
  failures

broker == <<committed, changelog>>
disk   == <<db, checkpoint, persisted>>
clock  == <<streamTime, lastSweepTime>>
config == <<guarantee, input>>
seen   == <<fetched, clockLost>>
vars   == <<config, broker, txnLog, disk, pc, next, batchEnd, pending, clock,
            collector, seen, failures>>

Init ==
  /\ guarantee \in Guarantees
  /\ input \in [Offsets -> 0 .. MaxTs]
  /\ committed = 0 /\ changelog = <<>> /\ txnLog = <<>>
  /\ db = EmptyStore /\ checkpoint = -1 /\ persisted = 0
  /\ pc = "down"
  /\ next = 0 /\ batchEnd = 0 /\ pending = 0
  /\ streamTime = 0 /\ lastSweepTime = 0
  /\ collector = <<>>
  /\ fetched = 0 /\ clockLost = FALSE
  /\ failures = 0

Fail(kind) ==
  /\ kind \in Faults
  /\ failures < MaxFailures
  /\ failures' = failures + 1

-----------------------------------------------------------------------------
(* The task.                                                               *)

\* openTask over a backend with this content, checkpoint and stream time.
OpenTask(content, offset, time) ==
  /\ pc = "down" /\ pc' = "poll"
  /\ db' = RestoredDB(changelog, offset, content)
  /\ checkpoint' = RestoredCheckpoint(changelog, offset)
  /\ persisted' = time
  /\ streamTime' = time
  /\ lastSweepTime' = 0
  /\ next' = committed /\ batchEnd' = committed /\ pending' = committed
  /\ UNCHANGED <<config, broker, txnLog, collector, fetched>>

\* The instance restarts on its state directory.
Start ==
  /\ OpenTask(db, checkpoint, persisted)
  /\ UNCHANGED <<clockLost, failures>>

\* The task is opened on a host without the directory, or on the in-memory
\* backend: the changelog brings the windows back, nothing the stream time.
StartElsewhere ==
  /\ Fail("move")
  /\ OpenTask(EmptyStore, -1, 0)
  /\ clockLost' = TRUE

\* TumblingWindows.Assign.
WindowStart(ts) == (ts \div Size) * Size

PollRecords ==
  /\ pc = "poll"
  /\ batchEnd' \in next + 1 .. End
  /\ fetched' = IF batchEnd' > fetched THEN batchEnd' ELSE fetched
  /\ pc' = "process"
  /\ UNCHANGED <<config, broker, txnLog, disk, next, pending, clock, collector,
                 clockLost, failures>>

\* The processor of TimeWindowedStream.Aggregate, which forwards nothing.
ProcessRecord ==
  LET ts == input[next]
      s == WindowStart(ts)
      v == db[s] \cup {next}
  IN  /\ pc = "process" /\ next < batchEnd
      /\ next' = next + 1
      /\ streamTime' = Advanced(streamTime, ts)
      /\ IF IsLate(ts, streamTime', Size, Grace)
           THEN UNCHANGED <<db, collector>>
           ELSE /\ db' = [db EXCEPT ![s] = v]
                /\ collector' = Append(collector, [key |-> s, val |-> v])
      /\ UNCHANGED <<config, broker, txnLog, checkpoint, persisted, pc, batchEnd,
                     pending, lastSweepTime, seen, failures>>

\* Mutant of ProcessFail: the failed record is skipped.
ProcessFailSkips ==
  /\ pc = "process" /\ next < batchEnd
  /\ Fail("process")
  /\ next' = next + 1
  /\ streamTime' = Advanced(streamTime, input[next])
  /\ UNCHANGED <<config, broker, txnLog, disk, pc, batchEnd, pending,
                 lastSweepTime, collector, seen>>

\* The processor fails: what the batch did to the store stays, and an open
\* transaction is aborted.
ProcessFail ==
  /\ pc = "process" /\ next < batchEnd
  /\ Fail("process")
  /\ txnLog' = <<>>
  /\ pc' = "stopped"
  /\ UNCHANGED <<config, broker, disk, next, batchEnd, pending, clock, collector,
                 seen>>

BatchDone == pc = "process" /\ next = batchEnd

\* Mutant of ExpiredStarts: a window expires by its start.
ExpiredStartsBySize ==
  IF SweepDue(streamTime, lastSweepTime, Size)
    THEN {s \in Starts : db[s] # {} /\ Expired(s, streamTime, 0, Grace)}
    ELSE {}

\* The windows runSweep deletes now.
ExpiredStarts ==
  IF SweepDue(streamTime, lastSweepTime, Size)
    THEN {s \in Starts : db[s] # {} /\ Expired(s, streamTime, Size, Grace)}
    ELSE {}

\* The mutations after the sweep: one tombstone for each window, in key order.
WithTombstones ==
  collector \o [i \in 1 .. Cardinality(ExpiredStarts) |->
                  [key |-> SetToSortSeq(ExpiredStarts, <)[i], val |-> {}]]

\* runSweep.
Swept ==
  /\ db' = [s \in Starts |-> IF s \in ExpiredStarts THEN {} ELSE db[s]]
  /\ lastSweepTime' = IF SweepDue(streamTime, lastSweepTime, Size)
                        THEN streamTime ELSE lastSweepTime

\* Mutant of StreamTimeWritten: the time of the last sweep is written.
StreamTimeWrittenAtSweep ==
  persisted' = lastSweepTime /\ UNCHANGED <<clockLost, failures>>

\* WriteStreamTime; an error is only logged.
StreamTimeWritten ==
  \/ persisted' = streamTime /\ UNCHANGED <<clockLost, failures>>
  \/ Fail("clock") /\ clockLost' = TRUE /\ UNCHANGED persisted

-----------------------------------------------------------------------------
(* At least once.  There is nothing to produce between the flush and the   *)
(* commit.                                                                 *)

\* PostBatch, first part: sweep and flush.
PostBatch ==
  /\ guarantee = "ALO" /\ BatchDone
  /\ Swept
  /\ changelog' = changelog \o WithTombstones
  /\ collector' = <<>>
  /\ pc' = "clock"
  /\ UNCHANGED <<config, committed, txnLog, checkpoint, persisted, next, batchEnd,
                 pending, streamTime, seen, failures>>

\* The flush fails: what was drained is gone, but for what had been sent.
PostBatchFail ==
  /\ guarantee = "ALO" /\ BatchDone
  /\ WithTombstones # <<>>
  /\ Fail("flush")
  /\ Swept
  /\ \E n \in 0 .. Len(WithTombstones) :
       changelog' = changelog \o SubSeq(WithTombstones, 1, n)
  /\ collector' = <<>>
  /\ pc' = "stopped"
  /\ UNCHANGED <<config, committed, txnLog, checkpoint, persisted, next, batchEnd,
                 pending, streamTime, seen>>

\* PostBatch, second part; then the offsets of the batch are pending.
WriteStreamTime ==
  /\ pc = "clock"
  /\ StreamTimeWritten
  /\ pending' = next
  /\ pc' = "commit"
  /\ UNCHANGED <<config, broker, txnLog, db, checkpoint, next, batchEnd, clock,
                 collector, fetched>>

\* The interval has elapsed or not; a failed commit leaves the offset pending.
CommitALO ==
  /\ guarantee = "ALO" /\ pc = "commit"
  /\ committed' \in {pending, committed}
  /\ pc' = "poll"
  /\ UNCHANGED <<config, changelog, txnLog, disk, next, batchEnd, pending, clock,
                 collector, seen, failures>>

-----------------------------------------------------------------------------
(* Exactly once.                                                           *)

PostBatchSweep ==
  /\ guarantee = "EOS" /\ BatchDone
  /\ Swept
  /\ StreamTimeWritten
  /\ collector' = WithTombstones
  /\ pc' = "produce"
  /\ UNCHANGED <<config, broker, txnLog, checkpoint, next, batchEnd, pending,
                 streamTime, fetched>>

\* DrainChangelogRecords and ProduceSync, in the transaction; it is committed
\* when the interval has elapsed.
Produce ==
  /\ pc = "produce"
  /\ txnLog' = txnLog \o collector
  /\ collector' = <<>>
  /\ pending' = next
  /\ pc' \in {"poll", "commit"}
  /\ UNCHANGED <<config, broker, disk, next, batchEnd, clock, seen, failures>>

\* ProduceSync fails: the transaction is aborted, the drained records are gone.
ProduceFail ==
  /\ pc = "produce" /\ collector # <<>>
  /\ Fail("produce")
  /\ txnLog' = <<>>
  /\ collector' = <<>>
  /\ pc' = "stopped"
  /\ UNCHANGED <<config, broker, disk, next, batchEnd, pending, clock, seen>>

\* End(TryCommit) makes records and offset visible in one step.
Publish ==
  /\ committed' = pending
  /\ changelog' = changelog \o txnLog
  /\ txnLog' = <<>>

CommitEOS ==
  /\ guarantee = "EOS" /\ pc = "commit"
  /\ Publish
  /\ pc' = "poll"
  /\ UNCHANGED <<config, disk, next, batchEnd, pending, clock, collector, seen,
                 failures>>

\* The transaction is aborted, or its outcome is unknown.
CommitFail ==
  /\ guarantee = "EOS" /\ pc = "commit"
  /\ Fail("commit")
  /\ Publish \/ (txnLog' = <<>> /\ UNCHANGED broker)
  /\ pc' = "stopped"
  /\ UNCHANGED <<config, disk, next, batchEnd, pending, clock, collector, seen>>

-----------------------------------------------------------------------------
(* Stops and crashes.                                                      *)

\* The context is cancelled: at least once commits what is pending, exactly
\* once aborts.
Cancel ==
  /\ pc = "poll"
  /\ Fail("cancel")
  /\ txnLog' = <<>>
  /\ committed' \in {committed} \cup (IF guarantee = "ALO" THEN {pending} ELSE {})
  /\ pc' = "stopped"
  /\ UNCHANGED <<config, changelog, disk, next, batchEnd, pending, clock,
                 collector, seen>>

Gone ==
  /\ pc' = "down"
  /\ txnLog' = <<>> /\ collector' = <<>>
  /\ streamTime' = 0 /\ lastSweepTime' = 0
  /\ next' = 0 /\ batchEnd' = 0 /\ pending' = 0

\* Client.Close and closeTask: commit what is pending (at least once), flush,
\* stream time, checkpoint at the high watermark.  Errors are only logged.
Close ==
  /\ pc = "stopped"
  /\ committed' \in {committed} \cup (IF guarantee = "ALO" THEN {pending} ELSE {})
  /\ \E n \in 0 .. Len(collector) :
       changelog' = changelog \o SubSeq(collector, 1, n)
  /\ StreamTimeWritten
  /\ IF Len(changelog') > 0
       THEN /\ db' = RestoredDB(changelog', MaxInt64, db)
            /\ checkpoint' = Len(changelog') - 1
       ELSE UNCHANGED <<db, checkpoint>>
  /\ Gone
  /\ UNCHANGED <<config, fetched>>

Crash ==
  /\ pc # "down"
  /\ Fail("crash")
  /\ Gone
  /\ UNCHANGED <<config, broker, disk, seen>>

-----------------------------------------------------------------------------

Progress ==
  \/ Start \/ PollRecords \/ ProcessRecord
  \/ PostBatch \/ WriteStreamTime \/ CommitALO
  \/ PostBatchSweep \/ Produce \/ CommitEOS
  \/ Close

Failure ==
  \/ StartElsewhere \/ ProcessFail \/ PostBatchFail \/ ProduceFail
  \/ CommitFail \/ Cancel \/ Crash

Next == Progress \/ Failure

Spec == Init /\ [][Next]_vars

-----------------------------------------------------------------------------
(* Properties.                                                             *)

\* Type invariant: in particular, the checkpoint closeTask writes is below the
\* end of the changelog, and the sweep time is never ahead of stream time.
TypeOK ==
  /\ guarantee \in Guarantees /\ input \in [Offsets -> 0 .. MaxTs]
  /\ committed \in 0 .. End
  /\ \A log \in {changelog, txnLog, collector} : \A i \in DOMAIN log :
       log[i] \in [key : Starts, val : SUBSET Offsets]
  /\ db \in [Starts -> SUBSET Offsets]
  /\ checkpoint \in -1 .. Len(changelog) - 1
  /\ persisted \in 0 .. MaxTs /\ streamTime \in 0 .. MaxTs
  /\ lastSweepTime \in 0 .. streamTime
  /\ pc \in {"down", "poll", "process", "clock", "produce", "commit", "stopped"}
  /\ next \in 0 .. batchEnd /\ batchEnd \in 0 .. End /\ pending \in 0 .. next
  /\ fetched \in 0 .. End /\ clockLost \in BOOLEAN
  /\ failures \in 0 .. MaxFailures

\* The largest timestamp below offset n.
TimeAt(n) ==
  CHOOSE t \in {0} \cup {input[o] : o \in 0 .. n - 1} :
    \A o \in 0 .. n - 1 : input[o] <= t

\* Not late when the input is processed once and in order.
Timely(o) == ~IsLate(input[o], TimeAt(o), Size, Grace)

\* What a restore on a new host rebuilds.
Rebuilt == Replay(changelog, 0, EmptyStore)

\* After any sequence of failures, moves and redeliveries, and under either
\* guarantee: a window that the records fetched so far have not expired is
\* rebuilt with every timely record below the committed offset.
UnexpiredWindowsRebuilt ==
  \A o \in 0 .. committed - 1 :
    LET s == WindowStart(input[o])
    IN  Timely(o) /\ ~Expired(s, TimeAt(fetched), Size, Grace)
          => o \in Rebuilt[s]

\* The changelog, the only output of the aggregate, has an update of its window
\* with the record o.
Logged(o) == \E i \in DOMAIN changelog : o \in changelog[i].val

\* Every timely record below the committed offset has updated its window, but
\* for a record a later one, fetched before the first was committed, makes
\* late when both are delivered again.
FoldedUnlessOverrun ==
  \A o \in 0 .. committed - 1 :
    Timely(o) /\ ~Logged(o)
      => \E later \in o + 1 .. fetched - 1 :
           IsLate(input[o], input[later], Size, Grace)

\* Unless a stream time was lost, the late verdict never gets laxer: whatever
\* crashes, aborts and restarts happened, no record that is late in the order
\* of the input updates its window.
LateStaysLate == ~clockLost => \A o \in Offsets : Logged(o) => Timely(o)

\* "on crash, stream-time will be rebuilt from redelivered records" (PostBatch,
\* of a failed write): no late record updates its window again.
LateNeverUpdates == \A o \in Offsets : Logged(o) => Timely(o)

\* "EOS closes this gap": every timely record below the committed offset has
\* updated its window.
TimelyFolded == \A o \in 0 .. committed - 1 : Timely(o) => Logged(o)
===============================================================================
