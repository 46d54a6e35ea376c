----------------------------- MODULE ALOPipeline -----------------------------
(***************************************************************************)
(* The at-least-once pipeline of one application instance: the run loop    *)
(* Client.runALO, its offset committer (internal/kafka/client.go), the     *)
(* batch processor (internal/kafka/batch.go) and the tasks it drives       *)
(* (internal/runtime/task_manager.go), across failures, graceful stops,    *)
(* crashes, restarts and lost disks.                                       *)
(*                                                                         *)
(* The topology is source -> Aggregate -> sink with one store per task.    *)
(* A store value is the set of source offsets folded into it, so that the  *)
(* model tells which inputs a value reflects and abstracts from aggFn.     *)
(***************************************************************************)
EXTENDS Changelog

CONSTANTS
  Partitions,       \* the partitions of the source topic
  Keys,             \* the record keys
  End,              \* each source partition holds the offsets 0 .. End-1
  KeyOf,            \* KeyOf[p][o] is the key of the source record <<p, o>>
  MaxDisruptions    \* bound on failures, stops, crashes and disk losses

Offsets == 0 .. End - 1

ASSUME EndAssumption == End \in Nat
ASSUME KeyOfAssumption == KeyOf \in [Partitions -> [Offsets -> Keys]]
ASSUME DisruptionsAssumption == MaxDisruptions \in Nat

VARIABLES
  committed,    \* broker: the group's committed offset of each partition
  changelog,    \* broker: the store's changelog partition of each task
  sink,         \* broker: the inputs <<p, o>> whose output is in the sink
  db,           \* disk: the content of each task's store
  checkpoint,   \* disk: the changelog offset the store reflects, or -1
  pc,           \* where the instance is
  open,         \* the partitions with a task in TaskManager.tasks
  batchStart,   \* the first offset of the batch in hand
  next,         \* the next offset of the batch to process
  batchEnd,     \* one past the last offset fetched
  failed,       \* the partitions whose processing failed in this batch
  collector,    \* the store mutations not drained yet
  pending,      \* aloOffsetCommitter.pending: an offset, or -1
  disruptions   \* how many disruptions have happened

broker == <<committed, changelog, sink>>
disk   == <<db, checkpoint>>
cursor == <<batchStart, next, batchEnd, failed>>
vars   == <<broker, disk, cursor, pc, open, collector, pending, disruptions>>

EmptyStore == [k \in Keys |-> {}]
NonePending == [p \in Partitions |-> -1]

Init ==
  /\ committed = [p \in Partitions |-> 0]
  /\ changelog = [p \in Partitions |-> <<>>]
  /\ sink = {}
  /\ db = [p \in Partitions |-> EmptyStore]
  /\ checkpoint = [p \in Partitions |-> -1]
  /\ pc = "down"
  /\ open = {}
  /\ batchStart = [p \in Partitions |-> 0]
  /\ next = [p \in Partitions |-> 0]
  /\ batchEnd = [p \in Partitions |-> 0]
  /\ failed = {}
  /\ collector = [p \in Partitions |-> <<>>]
  /\ pending = NonePending
  /\ disruptions = 0

\* A step outside the normal flow of the pipeline.
Disrupt ==
  /\ disruptions < MaxDisruptions
  /\ disruptions' = disruptions + 1

-----------------------------------------------------------------------------
(* Start-up: the group assigns every partition, OnAssigned opens the tasks *)
(* and fetching starts at the committed offsets.                           *)

\* openTask on the disk state: the stores of the partitions in R are restored
\* from their changelogs.
RestoreTasks(R) ==
  /\ db' = [p \in Partitions |->
              IF p \in R
                THEN RestoredDB(changelog[p], checkpoint[p], db[p])
                ELSE db[p]]
  /\ checkpoint' = [p \in Partitions |->
              IF p \in R
                THEN RestoredCheckpoint(changelog[p], checkpoint[p])
                ELSE checkpoint[p]]

\* The state in which the run loop starts with the tasks of opened.
StartLoop(opened) ==
  /\ pc' = "poll"
  /\ open' = opened
  /\ batchStart' = committed
  /\ next' = committed
  /\ batchEnd' = committed
  /\ failed' = {}
  /\ collector' = [p \in Partitions |-> <<>>]
  /\ pending' = NonePending

Restart ==
  /\ pc = "down"
  /\ RestoreTasks(Partitions)
  /\ StartLoop(Partitions)
  /\ UNCHANGED <<broker, disruptions>>

\* OnAssigned returns at the first task that fails to open, before or after
\* its restore; the error is only logged and the loop runs without the tasks.
RestartPartly ==
  /\ pc = "down"
  /\ Disrupt
  /\ \E p \in Partitions : \E opened \in SUBSET (Partitions \ {p}) :
        /\ StartLoop(opened)
        /\ RestoreTasks(opened) \/ RestoreTasks(opened \cup {p})
  /\ UNCHANGED broker

-----------------------------------------------------------------------------
(* The run loop, one batch at a time.                                      *)

\* PollFetches returns records: a run of offsets of each partition.
Poll ==
  /\ pc = "poll"
  /\ batchEnd' \in [Partitions -> 0 .. End]
  /\ \A p \in Partitions : batchEnd[p] <= batchEnd'[p]
  /\ batchEnd' # batchEnd
  /\ pc' = "process"
  /\ UNCHANGED <<broker, disk, batchStart, next, failed, open, collector,
                 pending, disruptions>>

\* An empty fetch with no commit due: the loop continues.
EmptyPoll ==
  /\ pc = "poll"
  /\ UNCHANGED vars

\* Aggregate: read the value, fold the record in, write it back.  The store's
\* Put appends the mutation to its collector.
Fold(p) ==
  LET k == KeyOf[p][next[p]]
      v == db[p][k] \cup {next[p]}
  IN  /\ db' = [db EXCEPT ![p][k] = v]
      /\ collector' = [collector EXCEPT ![p] = Append(@, [key |-> k, val |-> v])]

HasNext(p) ==
  pc = "process" /\ p \notin failed /\ next[p] < batchEnd[p]

\* One call of Adapter.process.  The groups of different partitions run in
\* parallel; within a partition records are processed in offset order.
ProcessRecord(p) ==
  /\ HasNext(p) /\ p \in open
  /\ Fold(p)
  /\ next' = [next EXCEPT ![p] = @ + 1]
  /\ UNCHANGED <<broker, checkpoint, batchStart, batchEnd, failed, pc, open,
                 pending, disruptions>>

\* Adapter.process finds no executor for the partition.
ProcessNoTask(p) ==
  /\ HasNext(p) /\ p \notin open
  /\ failed' = failed \cup {p}
  /\ UNCHANGED <<broker, disk, batchStart, next, batchEnd, pc, open, collector,
                 pending, disruptions>>

\* Processing fails before (decode, store error) or after (downstream error)
\* the store write.
ProcessFail(p) ==
  /\ HasNext(p) /\ p \in open
  /\ Disrupt
  /\ Fold(p) \/ UNCHANGED <<db, collector>>
  /\ failed' = failed \cup {p}
  /\ UNCHANGED <<broker, checkpoint, batchStart, next, batchEnd, pc, open,
                 pending>>

\* A failed batch ends the loop: nothing is flushed, produced or committed.
BatchFailed ==
  /\ pc = "process" /\ failed # {}
  /\ pc' = "stopped"
  /\ UNCHANGED <<broker, disk, cursor, open, collector, pending, disruptions>>

ProcessDone ==
  /\ pc = "process" /\ failed = {} /\ next = batchEnd
  /\ pc' = "postBatch"
  /\ UNCHANGED <<broker, disk, cursor, open, collector, pending, disruptions>>

\* PostBatch, task by task: drain the collector and produce its mutations.
FlushTask(p) ==
  /\ pc = "postBatch" /\ p \in open /\ collector[p] # <<>>
  /\ changelog' = [changelog EXCEPT ![p] = @ \o collector[p]]
  /\ collector' = [collector EXCEPT ![p] = <<>>]
  /\ UNCHANGED <<committed, sink, disk, cursor, pc, open, pending, disruptions>>

\* What a failed Flush may have left in the changelog: the producer is
\* idempotent and keeps the order, so a prefix of the drained mutations.
FlushedPart(p, n) ==
  changelog' = [changelog EXCEPT ![p] = @ \o SubSeq(collector[p], 1, n)]

\* Mutant of FlushFail: the error is only logged and the batch goes on.
FlushFailIgnored(p) ==
  /\ pc = "postBatch" /\ p \in open /\ collector[p] # <<>>
  /\ Disrupt
  /\ \E n \in 0 .. Len(collector[p]) : FlushedPart(p, n)
  /\ collector' = [collector EXCEPT ![p] = <<>>]
  /\ UNCHANGED <<committed, sink, disk, cursor, pc, open, pending>>

\* Flush returns an error: the drained mutations are gone, the loop ends.
FlushFail(p) ==
  /\ pc = "postBatch" /\ p \in open /\ collector[p] # <<>>
  /\ Disrupt
  /\ \E n \in 0 .. Len(collector[p]) : FlushedPart(p, n)
  /\ collector' = [collector EXCEPT ![p] = <<>>]
  /\ pc' = "stopped"
  /\ UNCHANGED <<committed, sink, disk, cursor, open, pending>>

FlushDone ==
  /\ pc = "postBatch" /\ \A p \in open : collector[p] = <<>>
  /\ pc' = "produce"
  /\ UNCHANGED <<broker, disk, cursor, open, collector, pending, disruptions>>

\* The inputs of the batch in hand.
Batch ==
  {x \in Partitions \X Offsets :
     batchStart[x[1]] <= x[2] /\ x[2] < batchEnd[x[1]]}

\* Mutant of Added: the first record of a partition wins, not the largest.
AddedFirst(p) ==
  IF batchStart[p] < batchEnd[p] /\ pending[p] = -1
    THEN batchEnd[p] - 1
    ELSE pending[p]

\* aloOffsetCommitter.add: the largest offset of each partition.
Added(p) ==
  IF batchStart[p] < batchEnd[p] /\ batchEnd[p] - 1 > pending[p]
    THEN batchEnd[p] - 1
    ELSE pending[p]

\* ProduceSync of the outputs succeeds and the batch's offsets are added.
Produce ==
  /\ pc = "produce"
  /\ sink' = sink \cup Batch
  /\ pending' = [p \in Partitions |-> Added(p)]
  /\ batchStart' = batchEnd
  /\ pc' = "commit"
  /\ UNCHANGED <<committed, changelog, disk, next, batchEnd, failed, open,
                 collector, disruptions>>

\* Mutant of ProduceFail: the error is only logged, the offsets are added.
ProduceFailIgnored ==
  /\ pc = "produce"
  /\ Disrupt
  /\ \E landed \in SUBSET Batch : sink' = sink \cup landed
  /\ pending' = [p \in Partitions |-> Added(p)]
  /\ batchStart' = batchEnd
  /\ pc' = "commit"
  /\ UNCHANGED <<committed, changelog, disk, next, batchEnd, failed, open,
                 collector>>

\* ProduceSync reports an error; some of the outputs may be in the sink.
ProduceFail ==
  /\ pc = "produce"
  /\ Disrupt
  /\ \E landed \in SUBSET Batch : sink' = sink \cup landed
  /\ pc' = "stopped"
  /\ UNCHANGED <<committed, changelog, disk, cursor, open, collector, pending>>

-----------------------------------------------------------------------------
(* aloOffsetCommitter.commit, wherever it is called.                       *)

\* CommitRecords stores offset + 1 for the partitions of P.
CommitOffsets(P) ==
  committed' = [p \in Partitions |->
                  IF p \in P /\ pending[p] # -1
                    THEN pending[p] + 1
                    ELSE committed[p]]

CommitOK ==
  /\ CommitOffsets(Partitions)
  /\ pending' = NonePending

\* An error keeps the pending records; the broker may have stored some.
CommitError ==
  /\ \E landed \in SUBSET Partitions : CommitOffsets(landed)
  /\ UNCHANGED pending

AnyPending == pending # NonePending

\* After a batch: the interval has elapsed and the commit succeeds...
Commit ==
  /\ pc = "commit" /\ AnyPending
  /\ CommitOK
  /\ pc' = "poll"
  /\ UNCHANGED <<changelog, sink, disk, cursor, open, collector, disruptions>>

\* ...or the interval has not elapsed.
NotDue ==
  /\ pc = "commit"
  /\ pc' = "poll"
  /\ UNCHANGED <<broker, disk, cursor, open, collector, pending, disruptions>>

\* An empty fetch after the interval has elapsed.
IntervalCommit ==
  /\ pc = "poll" /\ AnyPending
  /\ CommitOK
  /\ UNCHANGED <<changelog, sink, disk, cursor, pc, open, collector,
                 disruptions>>

\* Either commit fails: the error is only logged, the loop continues.
CommitFail ==
  /\ pc \in {"poll", "commit"} /\ AnyPending
  /\ Disrupt
  /\ CommitError
  /\ pc' = "poll"
  /\ UNCHANGED <<changelog, sink, disk, cursor, open, collector>>

-----------------------------------------------------------------------------
(* Stops, crashes and lost disks.                                          *)

\* The context is cancelled: commitALOOnShutdown, then Run returns.
Cancel ==
  /\ pc = "poll"
  /\ Disrupt
  /\ CommitOK \/ CommitError
  /\ pc' = "stopped"
  /\ UNCHANGED <<changelog, sink, disk, cursor, open, collector>>

\* The health gate, or PostBatchHook's health check, finds the pipeline
\* failed (by the global tail consumer): Run returns.
HealthTrip ==
  /\ pc \in {"poll", "postBatch"}
  /\ Disrupt
  /\ pc' = "stopped"
  /\ UNCHANGED <<broker, disk, cursor, open, collector, pending>>

\* Client.Close: commitALOOnShutdown, then the client leaves the group.
CloseClient ==
  /\ CommitOK \/ CommitError
  /\ pc' = "closing"
  /\ UNCHANGED <<changelog, sink, disk, cursor, open, collector>>

Close ==
  /\ pc = "stopped"
  /\ CloseClient
  /\ UNCHANGED disruptions

\* Close while Run is polling: PollFetches returns "client closed".
CloseRunning ==
  /\ pc = "poll"
  /\ Disrupt
  /\ CloseClient

\* closeTask reads the high watermark by RestoreFromChangelog with MaxInt64 as
\* the checkpoint, which may replay into the store, then writes the checkpoint.
\* An error leaves store and checkpoint as they are.
CheckpointTask(p, log) ==
  \/ UNCHANGED disk
  \/ /\ Len(log) > 0
     /\ db' = [db EXCEPT ![p] = RestoredDB(log, MaxInt64, @)]
     /\ checkpoint' = [checkpoint EXCEPT ![p] = Len(log) - 1]

\* closeTask of the revocation callback: flush, checkpoint, close.  A failed
\* flush is only logged.
CloseTask(p) ==
  /\ pc = "closing" /\ p \in open
  /\ open' = open \ {p}
  /\ \E n \in 0 .. Len(collector[p]) : FlushedPart(p, n)
  /\ collector' = [collector EXCEPT ![p] = <<>>]
  /\ CheckpointTask(p, changelog'[p])
  /\ UNCHANGED <<committed, sink, cursor, pc, pending, disruptions>>

\* The process is gone, and with it everything that is neither on the broker
\* nor on disk.
Exit ==
  /\ pc' = "down"
  /\ open' = {}
  /\ batchStart' = [p \in Partitions |-> 0]
  /\ next' = [p \in Partitions |-> 0]
  /\ batchEnd' = [p \in Partitions |-> 0]
  /\ failed' = {}
  /\ collector' = [p \in Partitions |-> <<>>]
  /\ pending' = NonePending

\* The revocation callback commits once more after the tasks are closed.
RevokeCommit ==
  /\ pc = "closing" /\ open = {}
  /\ \E landed \in SUBSET Partitions : CommitOffsets(landed)
  /\ Exit
  /\ UNCHANGED <<changelog, sink, disk, disruptions>>

\* The process dies without closing anything.
Crash ==
  /\ pc # "down"
  /\ Disrupt
  /\ Exit
  /\ UNCHANGED <<broker, disk>>

\* The next start finds no state directory (another host, a new volume, or
\* the in-memory backend).
LoseDisk(p) ==
  /\ pc = "down"
  /\ Disrupt
  /\ db' = [db EXCEPT ![p] = EmptyStore]
  /\ checkpoint' = [checkpoint EXCEPT ![p] = -1]
  /\ UNCHANGED <<broker, cursor, pc, open, collector, pending>>

-----------------------------------------------------------------------------

\* What the instance and its operator keep doing while nothing goes wrong.
Progress ==
  \/ Restart
  \/ Poll
  \/ \E p \in Partitions :
       \/ ProcessRecord(p)
       \/ ProcessNoTask(p)
       \/ FlushTask(p)
       \/ CloseTask(p)
  \/ BatchFailed
  \/ ProcessDone
  \/ FlushDone
  \/ Produce
  \/ Commit
  \/ NotDue
  \/ IntervalCommit
  \/ Close
  \/ RevokeCommit

Disruption ==
  \/ RestartPartly
  \/ \E p \in Partitions : ProcessFail(p) \/ FlushFail(p) \/ LoseDisk(p)
  \/ ProduceFail
  \/ CommitFail
  \/ Cancel
  \/ HealthTrip
  \/ CloseRunning
  \/ Crash

Next == Progress \/ Disruption \/ EmptyPoll

Spec == Init /\ [][Next]_vars

\* The loop, the client and whoever restarts the application keep running.
FairSpec == Spec /\ WF_vars(Progress)

-----------------------------------------------------------------------------
(* Properties.                                                             *)

Records == [key : Keys, val : SUBSET Offsets]

\* Type invariant.
TypeOK ==
  /\ committed \in [Partitions -> 0 .. End]
  /\ changelog \in [Partitions -> Seq(Records)]
  /\ sink \subseteq Partitions \X Offsets
  /\ db \in [Partitions -> [Keys -> SUBSET Offsets]]
  /\ checkpoint \in [Partitions -> Int]
  /\ pc \in {"down", "poll", "process", "postBatch", "produce", "commit",
             "stopped", "closing"}
  /\ open \subseteq Partitions
  /\ batchStart \in [Partitions -> 0 .. End]
  /\ next \in [Partitions -> 0 .. End]
  /\ batchEnd \in [Partitions -> 0 .. End]
  /\ failed \subseteq Partitions
  /\ collector \in [Partitions -> Seq(Records)]
  /\ pending \in [Partitions -> -1 .. End - 1]
  /\ disruptions \in 0 .. MaxDisruptions

\* What a fresh restore of task p's changelog would hold.
Rebuilt(p) == Replay(changelog[p], 0, EmptyStore)

\* The effects of the input <<p, o>> survive every crash: its output is in the
\* sink and its fold is in the changelog.
Durable(p, o) ==
  /\ <<p, o>> \in sink
  /\ o \in Rebuilt(p)[KeyOf[p][o]]

\* At-least-once: an input below the committed offset, which will not be read
\* again, has its output in the sink and its fold in what a restore of the
\* changelog rebuilds.  runALO flushes, produces and only then adds offsets.
NoLoss ==
  \A p \in Partitions : \A o \in Offsets : o < committed[p] => Durable(p, o)

\* The store of an open task reflects every input its changelog reflects: a
\* record is never folded into a value older than one already published.
StoreCoversChangelog ==
  \A p \in open : \A k \in Keys : Rebuilt(p)[k] \subseteq db[p][k]

\* No published fold is ever lost by a later changelog write: a restore after
\* the step rebuilds at least what a restore before the step did.
ChangelogGrows ==
  [][\A p \in Partitions : \A k \in Keys : Rebuilt(p)[k] \subseteq Rebuilt(p)'[k]]_vars

\* The pending offsets kept over failed commits, the shutdown commits and the
\* revocation commit never move the committed offset back.
CommittedNeverRewinds ==
  [][\A p \in Partitions : committed[p] <= committed'[p]]_vars

-----------------------------------------------------------------------------
(* The inductive invariant behind the safety properties.                   *)

\* Every mutation of task p's store, published or not.
Log(p) == changelog[p] \o collector[p]

\* Durable, in terms of single changelog records.
Done(p, o) ==
  <<p, o>> \in sink /\ InLog(changelog[p], KeyOf[p][o], o)

\* Stores and changelogs: every log is monotone, an open task's store covers
\* its log, and a store on disk covers its changelog up to its checkpoint.
LogInvAt(p) ==
  /\ pc = "down" => p \notin open
  /\ Monotone(Log(p))
  /\ p \in open => Covers(db[p], Log(p), Len(Log(p)))
  /\ p \notin open => collector[p] = <<>>
  /\ checkpoint[p] < Len(changelog[p])
  /\ Covers(db[p], changelog[p], checkpoint[p] + 1)

\* The batch in hand, between fetch and commit.
BatchInvAt(p) ==
  /\ batchStart[p] <= next[p] /\ next[p] <= batchEnd[p]
  /\ pc \in {"poll", "commit"} => batchStart[p] = batchEnd[p]
  /\ pc \in {"postBatch", "produce"} => next[p] = batchEnd[p]
  /\ pc = "produce" => collector[p] = <<>>
  /\ pc \in {"process", "postBatch", "produce"} =>
       \A o \in Offsets :
         batchStart[p] <= o /\ o < next[p] => InLog(Log(p), KeyOf[p][o], o)

\* Offsets: below the committed offset, and below the batch in hand, every
\* input is done; a pending offset ends exactly where the batch begins.
OffsetInvAt(p) ==
  /\ \A o \in Offsets : o < committed[p] => Done(p, o)
  /\ pending[p] # -1 => pc # "down" /\ pending[p] + 1 = batchStart[p]
  /\ pc # "down" =>
       /\ committed[p] <= batchStart[p]
       /\ \A o \in Offsets : o < batchStart[p] => Done(p, o)

\* The inductive invariant of the pipeline.
Inv ==
  /\ TypeOK
  /\ \A p \in Partitions : LogInvAt(p) /\ BatchInvAt(p) /\ OffsetInvAt(p)

-----------------------------------------------------------------------------
(* The abstract specification the pipeline implements.                     *)

\* The inputs whose effects are durable, as the abstract specification sees it.
DurableInputs ==
  {x \in sink : Durable(x[1], x[2])}

Abstract == INSTANCE AtLeastOnce WITH durable <- DurableInputs

\* The pipeline implements the at-least-once promise: what is durable stays
\* durable, and the committed offsets only move forward over durable inputs.
AtLeastOnceSafety == Abstract!Spec

\* Once the disruptions end, every input is processed and committed.
AllCommitted == Abstract!Complete
==============================================================================
