# gstream in TLA+

This directory holds a verification development of gstream, the stream-processing
library in `src/`: TLA+ modules translated from the Go code, TLC configurations
that check them on small instances, and proofs checked by TLAPS. `PROJECT.json`
is the index: which definition models which lines, which run checks what, the
hazards of the code and where they are covered.

## The system and its parts

One application instance is a process with a franz-go client, a run loop and one
task per source partition. A task owns local stores; every store write is also a
record of a changelog topic, from which the store is rebuilt after a loss.

| Part | Source | Module | Status |
|---|---|---|---|
| At-least-once run loop, offset committer, batch processor | `internal/kafka/client.go`, `batch.go` | `ALOPipeline` (promise: `AtLeastOnce`) | modelled, proved |
| Exactly-once run loop | `internal/kafka/client.go` | `EOSPipeline` (promise: `ExactlyOnce`) | modelled, proved |
| Task manager: open, flush, drain, close | `internal/runtime/task_manager.go` | `ALOPipeline`, `EOSPipeline` at start and stop, `Rebalance` task by task | modelled, proved in part |
| Rebalance while running | `client.go` (`buildOpts`), `task_manager.go` | `Rebalance` | modelled for at-least-once, proved in part |
| Pebble and memory backends, key encodings | `stores/pebble`, `stores/memory`, `internal/winkey`, `store.go` | `ByteKeys`, `StoreBackend` (promise: `StateStore`) | modelled, proved |
| Restore from changelog | `internal/runtime/restore.go`, `stores/pebble/provider.go` | `Restore` step by step, `Changelog` its effect | modelled |
| Retention sweep, stream time | `task_manager.go`, `internal/topology/processor.go` | `EventTime` and the three below | modelled |
| Tumbling and hopping windows | `window.go`, `windowed.go` | `WindowAggregate`; across failures `WindowRecovery` | modelled; the first proved |
| Session windows | `session.go` | `SessionAggregate` | modelled, proved |
| Windowed stream-stream join | `ssjoin.go`, `internal/winkey` | `StreamJoin` | modelled, proved |
| Key-value aggregation | `grouped.go` | step `Fold` of the pipelines, `Execute` of `Rebalance` | modelled |
| Global table, health signal | `internal/runtime/global_consumer.go`, `health.go`, `adapter.go` | `GlobalTable` | modelled, proved in part |
| Topic preparation | `internal/kafka/admin.go` | `TopicAdmin` | modelled except read-only helpers and topic configurations |
| Stream-global join | `join.go` | `JoinGlobal` of `GlobalTable` | modelled |
| Stream-table join | `join.go`, `ktable.go` | | a lookup within one record |
| DSL, builder, executor walk, serdes, loggers, examples | `stream.go`, `operators.go`, `config.go`, ... | | no state beyond one call |

How they interact: `Client.Run` polls, `processBatch` calls `Adapter.process` for
each record (partitions in parallel, offsets in order), the task's stores collect
mutations, `PostBatch` sweeps and flushes them, sink records are produced, and
offsets are committed; in exactly-once mode the last three happen in one Kafka
transaction. `OnAssigned` opens tasks, which restores their stores; `OnRevoked`
closes them; both run on the client's goroutine while the loop goes on. Global tables are filled before the loop starts and tailed by a
goroutine beside it, which stops the loop through the health signal.

## Modules

**`Changelog`** is the sequential meaning of a restore: `StartOffset` (checkpoint
plus one in wrapping 64-bit arithmetic, clamped to the log), `Replay`,
`RestoredDB`, `RestoredCheckpoint`. Both pipelines and `Restore` extend it.

**`ALOPipeline`** is one instance in at-least-once mode. The broker holds
`committed`, `changelog` and `sink`; the disk holds `db` and `checkpoint`;
everything else is lost with the process. `pc` follows `runALO`: poll, process,
postBatch, produce, commit, and stopped and closing for `Close` and the revocation
callback. A store value is the set of source offsets folded into it, so that the
model can say which inputs a value reflects. Disruptions are a failing open,
record, flush, produce or commit, cancellation, a tripped health signal, `Close`
from another goroutine, a crash at any point, and a lost directory.
**`AtLeastOnce`** is its promise: a set of durable inputs that only grows, and
committed offsets that only pass durable inputs.

**`EOSPipeline`** is the same instance under `runEOS`: `txnLog` and `txnSink` are
the open transaction, `Publish` and `Abort` its end. A store value is a sequence,
so an input folded in twice shows. `backend` is the Pebble or the memory backend,
`Faults` the kinds of disruption that each may meet. **`ExactlyOnce`** is its promise:
output, state and offsets advance together, where output and state are those that
an uninterrupted pass over the inputs below the offsets would have left.

**`Restore`** is `RestoreFromChangelog` request by request over every log of up to
`MaxLen` entries (committed, open, aborted, marker, compacted away), called by
`openTask` with the checkpoint and by `closeTask` with `MaxInt64`, while the
broker resolves the open transaction and the log grows.

**`EventTime`** has the arithmetic that the windowed processors and the sweep
share: advance of stream time, late boundary, sweep interval, expiry.
**`WindowAggregate`**, **`SessionAggregate`** and **`StreamJoin`** each model a
processor and the sweep over a history of arrivals; `Reopen` is a task closed and
reopened with its persisted stream time. `StreamJoin` keeps timestamps in `Width`
bits so that the wrap of the scan's upper bound happens.

**`WindowRecovery`** puts a tumbling-window aggregate, its stream time and its sweep
into the run loop of either guarantee. The order of the code is kept: fold, sweep,
flush, write of stream time, commit; in exactly-once mode sweep and write of stream
time come before the transaction ends. Each step may fail, the process may crash,
and a restart may happen on the same directory or on another host, where stream
time starts from zero. The input is every sequence of timestamps; the aggregate
forwards nothing (`windowed.go:183`), so its output is store and changelog.

**`Rebalance`** has several instances in at-least-once mode and a group coordinator.
`buildOpts` registers the callbacks without blocking rebalances on polls, so a
revocation or an assignment interleaves with every step of the loop: the loop looks
up an executor (`LookUp`) and runs the record on it later (`Execute`), while
`closeTask` takes the task out of the map, drains, flushes and closes its store in
steps of its own. What meets is modelled as the code leaves it: a record on a task
that is being closed still writes, one on a closed store fails or panics (`closed`
is read without a lock), a batch whose task is gone fails, and the callback commits
whatever is pending. A task is named by a partition number, so sources of several
topics may share one (`TaskOf`). `Spec` is one topic with members that leave, stop
or crash; `SharedTaskSpec` and `EvictionSpec` add sources that share a task and
members that are evicted while they run. `prd.md:46-49` makes one cooperating
instance the assumption of the first version; the callbacks are in the code
nevertheless (`prd.md:282`, `:338-339`).

**`ByteKeys`** is the arithmetic of keys: byte strings in lexicographic order,
`prefixUpperBound` with its carry, the composite key of a window and its decoding,
the bounds of a key's windows. **`StoreBackend`** is one task's backend over it. All
stores share one map from byte strings to values; Pebble keeps checkpoints and
stream time in the same map, memory in fields. Every write collects the mutation
the code collects, and `Open`, `OpenStore`, `Restore`, `DrainMutations` and `Close`
are used in the order of `openTask`, `PostBatch` and `closeTask`. While the backend
is closed, another instance may extend the changelog (`Elsewhere`). Values may be
empty strings, which a restore reads as deletions. **`StateStore`** is the promise
of the interfaces of `store.go`: a set of entries per store that a put or deletion
changes in one place, and that survives close and reopen but for empty values.

**`GlobalTable`** has five actors: producers and log cleaner of the topic,
`Bootstrap`, the tail goroutine, the run loop with its health gate and its
`JoinGlobal` lookups, and `Close`. The tail fetches a batch, and applies it to its
end also after cancellation. `Compact` removes a record with a later one of its key,
and a tombstone only once a running consumer has applied it, as the broker's
`delete.retention.ms` is for; how long an application may be down is `LongDowntime`.

**`TopicAdmin`** is the preparation of topics by several instances at once.
A call is a sequence of requests (metadata of the caller's topics, metadata of the
internal topics, CreateTopics, wait); an operator creates topics, adds partitions
to sources and lifts ACLs in between; a created topic shows up in metadata later;
a CreateTopics request may take effect although its answer is lost.

`TypeOK` of a module says what its variables hold. It is proved for `ALOPipeline` and
`SessionAggregate`; for the others it is documentation, and holds on the instances of
their runs when it is added to the invariants of the configuration.

`MC*` modules hold only the values of constants. Operators commented as mutants
are altered copies of a definition, used to confirm that a property can fail; no
specification uses them.

## Runs

Passing runs:

| Run | Instance | Shows |
|---|---|---|
| `alo_pipeline` | 2 partitions, 2 records each, 2 keys, 2 disruptions, fairness | committed inputs are durable, stores are never behind their changelog, everything is committed in the end; `ALOPipeline` implements `AtLeastOnce` |
| `eos` | 2 partitions of 3 and 1 records, both backends, 2 disruptions, fairness | sink output exactly once, state at least once, everything committed; with the memory backend, under faults that leave no undrained mutation, `EOSPipeline` implements `ExactlyOnce` |
| `restore` | logs of 3 entries, 2 keys, both callers, fairness | checkpoint and store agree; a restore that returns is complete; it ends when the transactions are resolved before its probe |
| `window` | 3 definitions (hopping, hopping with a size that is no multiple of the advance, tumbling), 3 records at any of 10 times, 2 keys, one reopening | late check, assignment and sweep agree; retention is bounded |
| `window_recovery` | every input of 3 timestamps up to 5, size 2, both guarantees, 2 failures of any kind | unexpired windows are rebuilt with all timely committed records; a timely record misses its window only when a later one, fetched before the commit, overran it; late stays late |
| `session` | 4 records, 2 keys, 7 timestamps | sessions are separated and are the runs of the accepted timestamps |
| `stream_join` | 3 records, 2 keys, all 4-bit non-negative timestamps, one reopening | joins are within bounds; a timely record finds all its partners |
| `rebalance` | 2 instances, 1 partition, 2 records, 1 move, 1 fault, fairness | no committed input lacks its output, one owner per task, an opened store has all its changelog says, state is lost only for inputs of a batch a revocation overtook, every input is delivered |
| `store` | 2 stores, one named by a prefix of the other, keys that are empty or end in the largest byte, a negative window start, 2 writes, 2 openings, both backends | stores stay apart, lookups and scans agree, the log rebuilds a store, `StoreBackend` implements `StateStore` |
| `global_table` | 2 partitions of 3 and 1 entries, plain and transactional writes, compaction, 2 faults, fairness | table follows the topic, joins never go back to older values, start order, close order, bootstrap ends, a tripped signal stops the loop |
| `topic_admin` | 2 instances, 2 sources, 1 global, 1 changelog, 1 declared repartition topic, counts up to 2, one lost answer, fairness | a call that returned nil has its topics; a prepared topology is co-partitioned; retries succeed once the cluster stays fit |

One run ends in a violation: `eos_pebble_abort`. It states what a comment of the
repository says and shows a behaviour of the code against it (`findings` in
`PROJECT.json` quotes the text): after an aborted transaction a restart on the same
Pebble directory starts on uncommitted values.

### Other behaviours the models show

The passing runs exclude the following by a constant or state a weaker property.
Each line names a configuration under which TLC shows the behaviour, or how it
differs from the one of a run.

| Configuration, module | Property | Behaviour |
|---|---|---|
| `MCEOSCloseFlush`, `MCEOSPipeline` | `ChangelogMovesWithOffsets` | `closeTask` flushes with the non-transactional producer, so mutations of a batch that failed after a store write reach the changelog although its transaction was aborted ("EOS callers must NOT use Flush", `internal/runtime/changelog.go:104`) |
| `MCRestoreLookup`, `MCRestore` | `LookupLeavesStore` | `closeTask` asks for the high watermark with `MaxInt64` (`task_manager.go:520`); plus one wraps, and the whole log is replayed over the live store ("no data is written", `restore.go:50-52`) |
| `MCRestore.cfg` with `Prompt = FALSE` | `StoreMatchesCheckpoint` | a fetch slower than the confirm poll's deadline ends a restore early, and the checkpoint skips the rest for good (`restore.go:258`) |
| `MCRestoreOpenTxn`, `MCRestore` | `Terminates` | a transaction open at the probe and aborted later leaves the restore polling without a deadline (`restore.go:152`) |
| `MCWindow.cfg` | `AcceptedUpdateTheirWindow` | a record within grace is accepted after the sweep deleted its window, and starts it anew (`task_manager.go:630`; `prd.md:216` says such records update their window) |
| `MCSession.cfg` with `Gap = 1`, `Grace = 0` | `AcceptedJoinTheirSession` | the same for a session (`task_manager.go:706`) |
| `MCStreamJoin.cfg` | `StoresRetained` | an accepted late record looks for partners that the sweep has deleted (`ssjoin.go:124`) |
| `MCGlobalStale`, `MCGlobalTable` | `TableMatchesTopic` | a key deleted and compacted while the application was down survives in a Pebble global table (`global_consumer.go:84`) |
| `MCGlobalTable.cfg` | `NoIdleHang` | a topic that ends in a transaction marker keeps `Bootstrap` waiting for a record that is never delivered ("no idle hang", `global_consumer.go:182`) |
| `MCGlobalTable.cfg` with `PollDeadline = FALSE` | `TripStopsLoop` | in at-least-once mode an idle poll without deadline does not see a tripped health signal (`client.go:482`) |
| `MCRebalanceLoss`, `MCRebalance` | `DurableBeforeCommit` | a batch whose task a revocation closes half way goes on to produce and commit; folds made after the task's last drain are in no changelog ("producing sink and changelog records before their corresponding offset becomes committed", `client.go:458-459`) |
| `MCRebalance.cfg` | `CommittedNeverRewinds` | an instance that lost a partition commits its old pending offset after the new owner has advanced it (`client.go:347`) |
| `MCRebalanceEvict`, `MCRebalance` | `StoreCoversChangelog` | an evicted member that still runs appends to the changelog of a task the new owner has already restored |
| `MCRebalanceTopics`, `MCRebalance` | `LossOnlyWhenOvertaken` | two topics share the task of a partition number; only one of the partitions moves, and two instances run the task (`task_manager.go:739`) |
| `MCWindowRecoveryEOS`, `MCWindowRecovery` | `TimelyFolded` | stream time is on disk before the transaction is committed; after a crash the redelivered record is late by its own successor ("EOS closes this gap.", `task_manager.go:130`) |
| `MCWindowRecoveryClock`, `MCWindowRecovery` | `LateNeverUpdates` | a failed write of stream time is ignored; after a crash a late record updates its expired window ("stream-time will be rebuilt from redelivered records", `task_manager.go:166`) |
| `MCStoreEmpty`, `MCStoreBackend` | `RestoresExactly` | a value without bytes is present in the store and deleted by a restore ("can restore store state exactly", `stores/pebble/keyvalue.go:61-62`) |

### Bounds

Every bound is a constant: `End` (records per partition), `MaxDisruptions`,
`MaxFaults`, `MaxLen` (log length), `MaxRecords`, `MaxTs`, `MaxReopens`,
`MaxPartitions`, `MaxFailures`, `MaxMoves`, `MaxEvictions`, `MaxWrites`, `MaxOpens`,
and `Width`, `MaxInt64`, `ByteMax`, `LenWidth` and `TimeWidth` for the width of
integers and bytes. Two disruptions are enough for a failure followed by a crash
during recovery. One partition overwrites its key and the other does not.
Logs of three entries hold a data record, an unresolved or aborted one and a
marker in every order. Three arrivals suffice for a record, one that advances
stream time past a sweep, and a late one; sessions have four so that a record can
bridge two. Two instances and counts up to two make every race over a topic
possible. One partition that moves once, with one fault, puts a revocation between
any two steps of a batch and lets the first owner come back; its two invariants
that are proved hold for any number. Bytes `0 .. 3` have a separator, a largest
byte that carries and two others; two stores, the name of one a prefix of the
other's, are what the separator is for. `MaxInt64` is above any log length of the
instances, and its successor wraps: an offset is an int64, so the guards of
`DrainMutations` and `Elsewhere` keep a changelog from growing past it, and
`TimeWidth` bytes hold `2 * (MaxInt64 + 1)` numbers.

`CHECK_DEADLOCK FALSE` is used where the system may stop: a finished restore, a
session history of `MaxRecords` arrivals, a `Bootstrap` that waits for a record
past a marker, an input that is processed to its end, and a store after its last
write and opening.

### Fairness

* `ALOPipeline`: weak fairness of `Progress`, the steps of the loop, of `Close`
  and of a restart. The Go scheduler runs the loop, and the application is
  restarted by its supervisor. Disruptions are unfair and bounded.
* `EOSPipeline`: the same, and strong fairness of `Poll`. Empty polls alternate
  with `Begin` and interval commits, so records that are waiting have to be
  fetched eventually, which a consumer does.
* `Restore`: weak fairness of the call's steps and of the broker resolving an open
  transaction (its transaction timeout).
* `Rebalance`: weak fairness of each instance's own steps, callbacks included, and
  of the coordinator assigning what nobody owns. Moves, faults and shutdowns are
  unfair and bounded. An instance that stopped starts again.
* `GlobalTable`: weak fairness of each goroutine. `PollRecords` is not fair: no
  source record may ever come.
* `TopicAdmin`: weak fairness of each call's own steps, its deadline included, and
  of the retry of a failed call. Failing requests are unfair and bounded
  (`MaxFailures`). The operator and the propagation of metadata are not fair:
  `RetriesSucceed` asks for success only if the cluster stays fit.

## Proofs

`ChangelogProofs` has the lemmas on replaying a log: in a log whose values for a
key only grow (`Monotone`), replaying any suffix over a store that covers the
prefix gives a store that covers the log (`Covers`), also for the wrapped start
offset of `closeTask`.

`ALOPipelineProofs`, for any partitions, keys, log lengths and number of
disruptions, from the named assumptions on the constants in `ALOPipeline` and
`Changelog`:

* `TypeCorrect`, `NoLossCorrect`, `StoreCoversCorrect`: invariants;
* `CommittedCorrect`, `ChangelogGrowsCorrect`: no step lowers a committed offset or
  loses a fold from what the changelog rebuilds;
* `Refinement`: the pipeline implements `AtLeastOnce`.

They rest on `Invariance`. `NoLoss` is not inductive: it speaks of committed
offsets, and what makes a commit safe happened earlier. The inductive invariant
`Inv` adds, per partition: `LogInvAt` (changelog and undrained mutations together
are monotone, an open store covers them, a store on disk covers the changelog up to
its checkpoint, which is below the log's end), `BatchInvAt` (processed inputs of
the batch are in the log; the collector is empty when outputs are produced) and
`OffsetInvAt` (everything below the batch in hand is done, and a pending offset ends
exactly where the batch begins). The proof has one lemma per action and conjunct.

`EOSPipelineProofs`, for any partitions, keys, records and disruptions:

* `SinkExactlyOnce`, `NoCommittedInputLost`: on either backend and under every
  fault, the sink holds the outputs of the committed inputs, once and in order, and
  no committed input is missing from what the changelog rebuilds;
* `MemoryBeginsCommitted`: the memory backend begins each transaction on the state
  of the changelog;
* `ImplementsExactlyOnce`: on the memory backend the pipeline implements
  `ExactlyOnce`, provided that it meets no fault that leaves a mutation undrained
  when a task is closed (`NothingUndrained`; `MCEOSCloseFlush` shows why).

None of them is inductive. `ControlInv` says what each place of the loop has in
hand; every step is then one of five kinds (`Quiet`, `Dropped`, `FoldRecord`,
`Published`, `Started`), and the data invariants are shown for the kinds. `OutputInv`:
sink, open transaction and batch in hand are the outputs of consecutive offsets.
`LogInv`: whatever a key's value in store, transaction or collector holds comes from
a log in which no offset is ever dropped. `MemoryInv`: a memory store is exactly what
changelog, transaction and collector rebuild. `FoldInv`: that is the fold of the
inputs up to the position. `ExactlyOnce` is stated by relations (a value *is a* fold)
and not by a recursive function, so that the refinement is within the prover's reach.

`RebalanceProofs`, for any instances, sources, keys and numbers of moves and faults:

* `SinkAlwaysComplete`, under evictions and shared tasks too. `SinkComplete` speaks
  of the committed offset, which any instance may set to a pending offset that is
  long out of date. The inductive invariant `SinkInv` therefore asks at every
  instance that outputs exist up to its pending offset, below its batch in hand,
  and below its position but for that batch. Most steps are `Calm`: they commit
  what is pending and fetch nothing.
* `AlwaysOneWriter`, where each task has one source and no running member is
  evicted. `OwnerInv` ties a task that is not absent to a source its instance owns,
  and a callback to sources the instance owns until the callback is done; that the
  coordinator assigns only what nobody owns does the rest.
* `StoreAlwaysCovers`, under the same two conditions (`MCRebalanceEvict` and
  `MCRebalanceTopics` show what happens without). `StoreInv`: the changelog followed
  by the collector of its one writer is monotone and covered by the writer's store; a
  store left behind covers the changelog up to its checkpoint.
* `OnlyOvertakenLost`, likewise. `LossInv`: inputs that are committed, pending or
  before the batch in hand are in the changelog or exposed by a revocation; what the
  batch has processed is exposed too, or still in the collector of an open task.

`StoreMapProofs` and, on top of it, `StoreBackendProofs`, for any byte range, names,
keys, times and values. In `StoreMapProofs`:

* `PrefixScan` (a byte string lies between a prefix and `prefixUpperBound` of it
  exactly when it begins with the prefix), `RangeIsPrefix`, `KeysStayOwned` and
  `StoresStayApart`. `StoresApart` is not provable from a single step, since a restore
  writes the keys the changelog holds: the invariant `KeysOwned` says that all a store
  has collected or logged carries its own prefix.

In `StoreBackendProofs`:

* `MapsFollowLogs`: the inductive invariant `StoreInv`. To `KeysOwned` it adds that the
  keys of collector and changelog encode entries of their store (`LogsWritten`), what
  open and closed stores may have pending (`Phases`), that a checkpoint is below the
  end of its changelog (`CheckpointsLogged`), and that the flat map holds, for each
  key of a store, the value of its last record in changelog and collector; for a store
  that is closed, in the changelog up to its checkpoint (`MapsAgree`).
* `RestoresRebuild`, `LookupsMatchScans`: the invariants `RestoreRebuilds` and
  `LookupsAgree`, for both backends.
* `StoresImplementContract`: both backends implement `StateStore`, with what a
  changelog rebuilds as the contents of a closed store and what a scan shows as those
  of an open one. `ScansExact` makes the two the same; each action is then one step of
  the contract or invisible to it.

They need that keys and numbers come back from their encodings. `SignedTime` and
`EntryBack` of `StoreMapProofs` show it for signed numbers and for the keys of window stores.
`ByteKeysAssumption` spells out the recursion of the powers of the base, of which the
provers know nothing, and `StoreAssumption` that a time fills its bytes exactly and
that a key is shorter than its length prefix can say, which Kafka's bound on the size
of a record ensures.

`GlobalTableProofs`, for any partitions, topic contents and number of faults:

* `LoopOnCompleteTable` and `ClosedStoreUnwritten`. The invariant `StartInv` says
  that a partition in `done` stays caught up, whatever is appended or compacted, and
  that loop and tail are off until all are done.
* `TableAlwaysMatches` and `JoinsOnlyAdvance`, unless a persistent table meets a
  downtime longer than the topic keeps tombstones (`MCGlobalStale` shows that case).
  `TableInv` says of each key that with no record of it still coming the table holds
  the newest, that it never holds one newer than the topic, and that what is fetched
  but not applied lies between the two.

`JoinsNeverGoBack` has an exception that the attempt to prove it brought up. After a
restart, compaction may have removed the value a key was joined with before in favour
of one written after the high watermark of the new `Bootstrap`; until the tail has
applied that record, the table may hold an older value than before the restart. With
two keys in one partition and `MaxLen = 4` TLC shows it.

`EventTimeProofs` extends `WindowAggregate` and instantiates `StreamJoin` and
`SessionAggregate`, whose assumptions on their constants are hypotheses of the theorems
about joins and sessions; for any keys, timestamps and numbers of records:

* `WindowsComplete` and `RetentionAlwaysBounded` of `WindowAggregate`, for every
  tumbling or hopping definition. `AssignedWindows` shows that the loop of `window.go`
  yields exactly the aligned starts whose window holds the timestamp; with that, a
  record and the history of records change the same windows. `WindowInv` adds the
  types and, for the retention, that a stored window started less than two sizes and
  the grace period before the last sweep: a record the late check accepts is assigned
  to no older window.
* `JoinsInWindow` and `TimelyJoinsFound` of `StreamJoin`. `JoinInv` adds to the two
  properties what the buffers hold: a place holds the record that was last stored
  there, and a stored record that no sweep may have expired is in its place. The
  bounds of a scan are unsigned numbers of `Width` bits; `ScanBounds` shows that they
  enclose exactly the documented interval also where the upper one wraps. For this the
  assumption of the module spells out that 2^Width is twice 2^(Width-1).
* `SessionTypeCorrect`, `SeparatedCorrect` and `RunsCorrect`: the properties `TypeOK`,
  `SessionsSeparated` and `SessionsAreRuns` of `SessionAggregate`. The argument of the
  first two is that the merged session spans the record and all sessions within the gap
  of it, so every remaining session, being more than a gap from each of those, is more
  than a gap from their hull. For `RunsCorrect`, a session and the timestamps it holds
  are a run (its ends are among them, and no two neighbours are more than a gap apart);
  merging runs that a record touches gives a run, and a sweep removes whole runs.

Only model-checked: every liveness property (the prover has no fairness reasoning) and
the properties of `Restore`, `WindowRecovery` and `TopicAdmin`.

## Not modelled

* Kafka and Pebble themselves: their effects are, from the way the code uses them.
* Topic configurations and the retention of changelogs by wall-clock time
  (`admin.go:121`): no model relates the broker's clock to stream time.
* A rebalance in exactly-once mode: the `GroupTransactSession` that fences a
  transaction of a revoked member is code of the client library.
* `JoinTable` and the walk of the executor over the processors: one record's
  processing is sequential in one goroutine over stores that only it uses, so it is
  one atomic step (`Execute`, `Fold`, `ProcessRecord`).
* The builder and the stateless operators (`stream.go`, `operators.go`,
  `config.go`), serdes, loggers, examples and test utilities: no state that
  outlives a call.
* The user's functions: a fold is a set or a sequence of inputs.
* `WriteCheckpoints`, which has no caller outside tests.
