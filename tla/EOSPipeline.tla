----------------------------- MODULE EOSPipeline -----------------------------
(***************************************************************************)
(* The exactly-once pipeline of one application instance: the run loop     *)
(* Client.runEOS (internal/kafka/client.go) around one Kafka transaction   *)
(* per commit interval, and the tasks it drives                            *)
(* (internal/runtime/task_manager.go), across aborts, graceful stops,      *)
(* crashes and restarts.                                                   *)
(*                                                                         *)
(* The topology is source -> Aggregate -> sink with one store per task.    *)
(* A store value is the sequence of source offsets folded into it, so a    *)
(* record folded in twice shows.  The changelog holds the records a        *)
(* read-committed consumer sees; aborted records and transaction markers   *)
(* only shift Kafka offsets and are left out.                              *)
(***************************************************************************)
EXTENDS Changelog

CONSTANTS
  Partitions,       \* the partitions of the source topic
  Keys,             \* the record keys
  End,              \* source partition p holds the offsets 0 .. End[p]-1
  KeyOf,            \* KeyOf[p][o] is the key of the source record <<p, o>>
  Backends,         \* the backends a task may have: "pebble", "memory"
  Faults,           \* Faults[b]: the kinds of disruption of a run on backend b
  MaxDisruptions    \* bound on their number

FaultKinds ==
  {"open", "begin", "process", "health", "produce", "commit", "cancel", "crash"}

Offsets(p) == 0 .. End[p] - 1

ASSUME EOSEndAssumption == End \in [Partitions -> Nat]
ASSUME EOSKeyOfAssumption == \A p \in Partitions : KeyOf[p] \in [Offsets(p) -> Keys]
ASSUME EOSBackendsAssumption == Backends \subseteq {"pebble", "memory"}
ASSUME EOSFaultsAssumption ==
  Faults \in [Backends -> SUBSET FaultKinds] /\ MaxDisruptions \in Nat

VARIABLES
  backend,      \* the backend the application is configured with
  committed,    \* broker: the group's committed offset of each partition
  changelog,    \* broker: the committed changelog records of each task
  sink,         \* broker: the committed sink records of each task
  txnLog,       \* broker: changelog records of the open transaction
  txnSink,      \* broker: sink records of the open transaction
  db,           \* the content of each task's store
  checkpoint,   \* the changelog offset the store reflects, or -1
  pc,           \* where the instance is
  open,         \* the partitions with a task in TaskManager.tasks
  next,         \* the next offset of the batch to process
  batchEnd,     \* one past the last offset fetched in this transaction
  mutated,      \* records were processed in this transaction
  failed,       \* the partitions whose processing failed in this batch
  collector,    \* the store mutations not drained yet
  outs,         \* the outputs of the batch in hand
  disruptions   \* how many disruptions have happened

broker == <<committed, changelog, sink>>
txn    == <<txnLog, txnSink>>
disk   == <<db, checkpoint>>
batch  == <<next, batchEnd, failed>>
vars   == <<broker, txn, disk, batch, pc, open, mutated, collector, outs,
            disruptions, backend>>

EmptyStore == [k \in Keys |-> <<>>]
NoRecords == [p \in Partitions |-> <<>>]

Init ==
  /\ backend \in Backends
  /\ committed = [p \in Partitions |-> 0]
  /\ changelog = NoRecords
  /\ sink = NoRecords
  /\ txnLog = NoRecords
  /\ txnSink = NoRecords
  /\ db = [p \in Partitions |-> EmptyStore]
  /\ checkpoint = [p \in Partitions |-> -1]
  /\ pc = "down"
  /\ open = {}
  /\ next = [p \in Partitions |-> 0]
  /\ batchEnd = [p \in Partitions |-> 0]
  /\ mutated = FALSE
  /\ failed = {}
  /\ collector = NoRecords
  /\ outs = NoRecords
  /\ disruptions = 0

\* A step outside the normal flow of the pipeline.
Disrupt(kind) ==
  /\ kind \in Faults[backend]
  /\ disruptions < MaxDisruptions
  /\ disruptions' = disruptions + 1

-----------------------------------------------------------------------------
(* Start-up.                                                               *)

\* openTask of the partitions of R: replay the committed changelog from the
\* checkpoint on over what the backend holds.
RestoreTasks(R) ==
  /\ db' = [p \in Partitions |->
              IF p \in R
                THEN RestoredDB(changelog[p], checkpoint[p], db[p])
                ELSE db[p]]
  /\ checkpoint' = [p \in Partitions |->
              IF p \in R
                THEN RestoredCheckpoint(changelog[p], checkpoint[p])
                ELSE checkpoint[p]]

StartLoop(opened) ==
  /\ pc' = "begin"
  /\ open' = opened
  /\ next' = committed
  /\ batchEnd' = committed
  /\ UNCHANGED <<broker, txn, mutated, failed, collector, outs>>

Restart ==
  /\ pc = "down"
  /\ RestoreTasks(Partitions)
  /\ StartLoop(Partitions)
  /\ UNCHANGED disruptions

\* OnAssigned returns at the first task that fails to open; the error is only
\* logged and the loop runs without the remaining tasks.
RestartPartly ==
  /\ pc = "down"
  /\ Disrupt("open")
  /\ \E p \in Partitions : \E opened \in SUBSET (Partitions \ {p}) :
        /\ StartLoop(opened)
        /\ RestoreTasks(opened) \/ RestoreTasks(opened \cup {p})

-----------------------------------------------------------------------------
(* The transaction.                                                        *)

\* The open transaction leaves no trace that a read-committed consumer sees.
Abort ==
  /\ txnLog' = NoRecords
  /\ txnSink' = NoRecords

\* Mutant of Publish: the transaction commits without the consumed offsets.
PublishWithoutOffsets ==
  /\ changelog' = [p \in Partitions |-> changelog[p] \o txnLog[p]]
  /\ sink' = [p \in Partitions |-> sink[p] \o txnSink[p]]
  /\ Abort
  /\ UNCHANGED committed

\* End(TryCommit): the transaction's records and the consumed offsets become
\* visible in one step.
Publish ==
  /\ committed' = batchEnd
  /\ changelog' = [p \in Partitions |-> changelog[p] \o txnLog[p]]
  /\ sink' = [p \in Partitions |-> sink[p] \o txnSink[p]]
  /\ Abort

Begin ==
  /\ pc = "begin"
  /\ pc' = "poll"
  /\ mutated' = FALSE
  /\ UNCHANGED <<broker, txn, disk, batch, open, collector, outs, disruptions>>

\* PollFetches returns records: a run of offsets of each partition.
Poll ==
  /\ pc = "poll"
  /\ batchEnd' \in {f \in [Partitions -> UNION {0 .. End[p] : p \in Partitions}] :
       \A p \in Partitions : f[p] \in batchEnd[p] .. End[p]}
  /\ batchEnd' # batchEnd
  /\ mutated' = TRUE
  /\ pc' = "process"
  /\ UNCHANGED <<broker, txn, disk, next, failed, open, collector, outs,
                 disruptions>>

\* An empty fetch before the transaction deadline: poll again.
EmptyPoll ==
  /\ pc = "poll"
  /\ UNCHANGED vars

\* An empty interval: the transaction is aborted and a new one begins.
EmptyInterval ==
  /\ pc = "poll" /\ ~mutated
  /\ Abort
  /\ pc' = "begin"
  /\ UNCHANGED <<broker, disk, batch, open, mutated, collector, outs,
                 disruptions>>

\* Aggregate: read the value, fold the record in, write it back and forward it.
Fold(p) ==
  LET k == KeyOf[p][next[p]]
      v == Append(db[p][k], next[p])
  IN  /\ db' = [db EXCEPT ![p][k] = v]
      /\ collector' = [collector EXCEPT ![p] = Append(@, [key |-> k, val |-> v])]
      /\ outs' = [outs EXCEPT ![p] = Append(@, [off |-> next[p], val |-> v])]

HasNext(p) ==
  pc = "process" /\ p \notin failed /\ next[p] < batchEnd[p]

ProcessRecord(p) ==
  /\ HasNext(p) /\ p \in open
  /\ Fold(p)
  /\ next' = [next EXCEPT ![p] = @ + 1]
  /\ UNCHANGED <<broker, txn, checkpoint, batchEnd, failed, pc, open, mutated,
                 disruptions>>

\* Adapter.process finds no executor for the partition.
ProcessNoTask(p) ==
  /\ HasNext(p) /\ p \notin open
  /\ failed' = failed \cup {p}
  /\ UNCHANGED <<broker, txn, disk, next, batchEnd, pc, open, mutated,
                 collector, outs, disruptions>>

\* Processing fails before or after the store write.
ProcessFail(p) ==
  /\ HasNext(p) /\ p \in open
  /\ Disrupt("process")
  /\ Fold(p) \/ UNCHANGED <<db, collector, outs>>
  /\ failed' = failed \cup {p}
  /\ UNCHANGED <<broker, txn, checkpoint, next, batchEnd, pc, open, mutated>>

\* runEOS aborts the transaction and returns: the restart it asks for is the
\* only way on.
AbortAndStop ==
  /\ Abort
  /\ pc' = "stopped"
  /\ UNCHANGED <<broker, disk, batch, open, mutated, collector, outs>>

\* Mutant of BatchFailed: the loop goes on and the failure is never cleared.
BatchFailedContinues ==
  /\ pc = "process" /\ failed # {}
  /\ Abort
  /\ pc' = "begin"
  /\ UNCHANGED <<broker, disk, batch, open, mutated, collector, outs,
                 disruptions>>

BatchFailed ==
  /\ pc = "process" /\ failed # {}
  /\ AbortAndStop
  /\ UNCHANGED disruptions

ProcessDone ==
  /\ pc = "process" /\ failed = {} /\ next = batchEnd
  /\ pc' = "postBatch"
  /\ UNCHANGED <<broker, txn, disk, batch, open, mutated, collector, outs,
                 disruptions>>

\* The health check or the sweep of PostBatchSweep fails.
PostBatchFail ==
  /\ pc = "postBatch"
  /\ Disrupt("health")
  /\ AbortAndStop

\* DrainChangelogRecords empties the collectors of the open tasks.
Drained(p) == IF p \in open THEN collector[p] ELSE <<>>

\* Drain and ProduceSync: outputs and mutations join the transaction.
Produce ==
  /\ pc = "postBatch"
  /\ txnLog' = [p \in Partitions |-> txnLog[p] \o Drained(p)]
  /\ txnSink' = [p \in Partitions |-> txnSink[p] \o outs[p]]
  /\ collector' = NoRecords
  /\ outs' = NoRecords
  /\ pc' \in {"poll", "commit"}
  /\ UNCHANGED <<broker, disk, batch, open, mutated, disruptions>>

\* Mutant of ProduceFail: the error is only logged, the transaction goes on.
ProduceFailIgnored ==
  /\ pc = "postBatch"
  /\ Disrupt("produce")
  /\ collector' = NoRecords
  /\ outs' = NoRecords
  /\ pc' = "poll"
  /\ UNCHANGED <<broker, txn, disk, batch, open, mutated>>

\* ProduceSync fails after the collectors were drained.
ProduceFail ==
  /\ pc = "postBatch"
  /\ Disrupt("produce")
  /\ collector' = NoRecords
  /\ outs' = NoRecords
  /\ Abort
  /\ pc' = "stopped"
  /\ UNCHANGED <<broker, disk, batch, open, mutated>>

\* The commit interval has elapsed, after a batch or on an empty poll.
CommitDue ==
  \/ pc = "commit"
  \/ pc = "poll" /\ mutated

Commit ==
  /\ CommitDue
  /\ Publish
  /\ pc' = "begin"
  /\ UNCHANGED <<disk, batch, open, mutated, collector, outs, disruptions>>

\* Mutant of CommitAborted: the loop goes on from the committed offsets.
CommitAbortedContinues ==
  /\ CommitDue
  /\ Disrupt("commit")
  /\ Abort
  /\ next' = committed
  /\ batchEnd' = committed
  /\ pc' = "begin"
  /\ UNCHANGED <<broker, disk, failed, open, mutated, collector, outs>>

\* The session aborted the transaction because of a rebalance.
CommitAborted ==
  /\ CommitDue
  /\ Disrupt("commit")
  /\ AbortAndStop

\* Mutant of CommitUnknown: the commit of the same batch is tried again.
CommitUnknownRetried ==
  /\ CommitDue
  /\ Disrupt("commit")
  /\ \/ /\ committed' = batchEnd
        /\ changelog' = [p \in Partitions |-> changelog[p] \o txnLog[p]]
        /\ sink' = [p \in Partitions |-> sink[p] \o txnSink[p]]
     \/ UNCHANGED broker
  /\ pc' = "commit"
  /\ UNCHANGED <<txn, disk, batch, open, mutated, collector, outs>>

\* End(TryCommit) returns an error: the transaction may have committed.
CommitUnknown ==
  /\ CommitDue
  /\ Disrupt("commit")
  /\ \/ Publish
     \/ Abort /\ UNCHANGED broker
  /\ pc' = "stopped"
  /\ UNCHANGED <<disk, batch, open, mutated, collector, outs>>

-----------------------------------------------------------------------------
(* Stops and crashes.                                                      *)

\* The health gate trips or Begin fails, before a transaction is open.
BeginFail ==
  /\ pc = "begin"
  /\ Disrupt("begin")
  /\ pc' = "stopped"
  /\ UNCHANGED <<broker, txn, disk, batch, open, mutated, collector, outs>>

\* The context is cancelled or the client closed, before or during a
\* transaction.
Cancel ==
  /\ pc \in {"begin", "poll"}
  /\ Disrupt("cancel")
  /\ AbortAndStop

\* Client.Close: the session leaves the group, which revokes the partitions.
Close ==
  /\ pc = "stopped"
  /\ pc' = "closing"
  /\ UNCHANGED <<broker, txn, disk, batch, open, mutated, collector, outs,
                 disruptions>>

\* closeTask: the collector is flushed by the non-transactional producer, then
\* the high watermark is read by RestoreFromChangelog with MaxInt64 as the
\* checkpoint.  Errors of either are only logged or skipped.
CloseTask(p) ==
  /\ pc = "closing" /\ p \in open
  /\ open' = open \ {p}
  /\ \E n \in 0 .. Len(collector[p]) :
       changelog' = [changelog EXCEPT ![p] = @ \o SubSeq(collector[p], 1, n)]
  /\ collector' = [collector EXCEPT ![p] = <<>>]
  /\ \/ UNCHANGED disk
     \/ /\ Len(changelog'[p]) > 0
        /\ db' = [db EXCEPT ![p] = RestoredDB(changelog'[p], MaxInt64, @)]
        /\ checkpoint' = [checkpoint EXCEPT ![p] = Len(changelog'[p]) - 1]
  /\ UNCHANGED <<committed, sink, txn, batch, pc, mutated, outs, disruptions>>

\* What the next start finds: the Pebble directory, or a new in-memory backend.
Survives ==
  /\ db' = IF backend = "pebble" THEN db ELSE [p \in Partitions |-> EmptyStore]
  /\ checkpoint' = IF backend = "pebble" THEN checkpoint ELSE [p \in Partitions |-> -1]

\* The process is gone, and with it everything that is neither on the broker
\* nor on disk; the broker aborts an open transaction.
Exit ==
  /\ pc' = "down"
  /\ open' = {}
  /\ next' = [p \in Partitions |-> 0]
  /\ batchEnd' = [p \in Partitions |-> 0]
  /\ mutated' = FALSE
  /\ failed' = {}
  /\ collector' = NoRecords
  /\ outs' = NoRecords
  /\ Abort
  /\ Survives
  /\ UNCHANGED broker

Closed ==
  /\ pc = "closing" /\ open = {}
  /\ Exit
  /\ UNCHANGED disruptions

Crash ==
  /\ pc # "down"
  /\ Disrupt("crash")
  /\ Exit

-----------------------------------------------------------------------------

\* What the instance and its operator keep doing while nothing goes wrong.
Progress ==
  \/ Restart
  \/ Begin
  \/ Poll
  \/ EmptyInterval
  \/ \E p \in Partitions : ProcessRecord(p) \/ ProcessNoTask(p) \/ CloseTask(p)
  \/ BatchFailed
  \/ ProcessDone
  \/ Produce
  \/ Commit
  \/ Close
  \/ Closed

Disruption ==
  \/ RestartPartly
  \/ \E p \in Partitions : ProcessFail(p)
  \/ PostBatchFail
  \/ ProduceFail
  \/ CommitAborted
  \/ CommitUnknown
  \/ BeginFail
  \/ Cancel
  \/ Crash

Next == (Progress \/ Disruption \/ EmptyPoll) /\ UNCHANGED backend

Spec == Init /\ [][Next]_vars

\* The loop, the client and whoever restarts the application keep running, and
\* records the client has fetched are sooner or later returned by a poll.
FairSpec ==
  /\ Spec
  /\ WF_vars(Progress /\ UNCHANGED backend) /\ SF_vars(Poll /\ UNCHANGED backend)

-----------------------------------------------------------------------------
(* Properties.                                                             *)

Values == Seq(Nat)
Outputs == [off : Nat, val : Values]
Records == [key : Keys, val : Values]

\* Type invariant; a checkpoint names a record of the changelog or none.
TypeOK ==
  /\ backend \in Backends
  /\ committed \in [Partitions -> Nat]
  /\ changelog \in [Partitions -> Seq(Records)]
  /\ sink \in [Partitions -> Seq(Outputs)]
  /\ txnLog \in [Partitions -> Seq(Records)]
  /\ txnSink \in [Partitions -> Seq(Outputs)]
  /\ db \in [Partitions -> [Keys -> Values]]
  /\ checkpoint \in [Partitions -> Int]
  /\ \A p \in Partitions : /\ checkpoint[p] \in -1 .. Len(changelog[p]) - 1
                           /\ committed[p] <= batchEnd[p] \/ pc = "down"
                           /\ next[p] <= batchEnd[p] /\ batchEnd[p] <= End[p]
  /\ pc \in {"down", "begin", "poll", "process", "postBatch", "commit",
             "stopped", "closing"}
  /\ open \subseteq Partitions
  /\ next \in [Partitions -> Nat]
  /\ batchEnd \in [Partitions -> Nat]
  /\ mutated \in BOOLEAN
  /\ failed \subseteq Partitions
  /\ collector \in [Partitions -> Seq(Records)]
  /\ outs \in [Partitions -> Seq(Outputs)]
  /\ disruptions \in 0 .. MaxDisruptions

\* What a fresh restore of task p's changelog would hold.
Rebuilt(p) == Replay(changelog[p], 0, EmptyStore)

\* Exactly-once output: whatever aborts, stops and crashes happened, the sink
\* holds the output of each input below the committed offset once, in order,
\* and no other (runEOS: sinks and offsets are in one transaction).
OutputsOnce ==
  \A p \in Partitions :
    /\ Len(sink[p]) = committed[p]
    /\ \A i \in 1 .. Len(sink[p]) : sink[p][i].off = i - 1

\* No committed input is missing from the state a restore rebuilds, however
\* many transactions were aborted and stores reopened in between.
StateAtLeastOnce ==
  \A p \in Partitions : \A o \in Offsets(p) :
    o < committed[p] =>
      LET v == Rebuilt(p)[KeyOf[p][o]]
      IN  \E i \in 1 .. Len(v) : v[i] = o

\* Once the disruptions end, every input is processed and committed.
AllCommitted == <>[](committed = End)

\* "Application restart reopens tasks and restores committed state before
\* processing resumes" (runEOS): a transaction begins on the committed state.
BeginsOnCommittedState ==
  pc = "begin" => \A p \in open : db[p] = Rebuilt(p)

\* The same where nothing of an aborted transaction outlives the process.
MemoryBeginsOnCommittedState == backend = "memory" => BeginsOnCommittedState

\* "sink writes, changelog writes, and source-offset commits atomic" (runEOS):
\* the changelog changes only in a step that commits source offsets.
ChangelogMovesWithOffsets ==
  [][backend = "memory" /\ changelog' # changelog => committed' # committed]_vars

Abstract == INSTANCE ExactlyOnce
  WITH position <- committed,
       outputs <- sink,
       state <- [p \in Partitions |-> Rebuilt(p)]

\* On the memory backend the pipeline implements the exactly-once promise:
\* output, rebuilt state and offsets advance in one step and each is the fold
\* of every input once.
ExactlyOnceSafety ==
  Abstract!Init /\ [][backend = "memory" => Abstract!Advance]_<<broker, backend>>
==============================================================================
