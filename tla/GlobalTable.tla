----------------------------- MODULE GlobalTable -----------------------------
(***************************************************************************)
(* A GlobalKTable: GlobalConsumer (internal/runtime/global_consumer.go)    *)
(* rebuilds the table from its topic and then tails the topic in a         *)
(* goroutine; Adapter (adapter.go) runs it beside the run loop, and        *)
(* PipelineHealth (health.go) carries a fatal store write from the tail to *)
(* the loop, whose batches look the table up in JoinGlobal (join.go).  A    *)
(* table value is the offset of the record it came from.                   *)
(***************************************************************************)
EXTENDS Integers, Sequences

CONSTANTS
  Keys,
  Partitions,
  PartitionOf,     \* the partition the producer sends a key to
  JoinedKeys,      \* the keys that keyMapper of JoinGlobal maps records to
  NoKey,           \* stands for the key of an entry the consumer never sees
  MaxLen,          \* bounds on the lengths of the partitions
  Persistent,      \* TRUE: the Pebble backend; FALSE: the memory backend
  Transactional,   \* TRUE: the topic is also written in transactions
  LongDowntime,    \* TRUE: a downtime may outlast the tombstones of the topic
  PollDeadline,    \* TRUE: every poll has a deadline (runEOS); FALSE: runALO
  MaxFaults        \* bound on failures, stops and crashes

ASSUME GlobalAssumption ==
  /\ PartitionOf \in [Keys -> Partitions]
  /\ JoinedKeys \subseteq Keys /\ NoKey \notin Keys
  /\ MaxLen \in [Partitions -> Nat] /\ MaxFaults \in Nat
  /\ {Persistent, Transactional, LongDowntime, PollDeadline} \subseteq BOOLEAN

VARIABLES
  log,         \* broker: the entries of each partition of the topic
  db,          \* the store: the offset of the value of a key, or -1
  phase,       \* what the application does with the consumer
  hwm,         \* Bootstrap: the high watermarks of its start
  done,        \* Bootstrap: the partitions that are caught up
  pos,         \* the next offset the client fetches
  tail,        \* the tail goroutine
  inHand,      \* the fetched records the tail goroutine has yet to apply
  cancelled,   \* the tail context is cancelled
  tripped,     \* PipelineHealth has recorded a fatal error
  loop,        \* the run loop of kafka.Client
  pending,     \* the committer of runALO has offsets to commit
  joined,      \* the table value of the latest join output of each key, or -1
  faults

consumer == <<hwm, done, pos>>
tailing  == <<tail, inHand, cancelled, tripped>>
running  == <<loop, pending, joined>>
vars     == <<log, db, phase, consumer, tailing, running, faults>>

Hole == [key |-> NoKey, live |-> FALSE]
EmptyTable == [k \in Keys |-> -1]

\* No process runs: the client, the goroutine and the loop are gone.
NoProcess ==
  /\ hwm' = [p \in Partitions |-> 0]
  /\ done' = {}
  /\ pos' = [p \in Partitions |-> 0]
  /\ tail' = "off"
  /\ inHand' = {}
  /\ cancelled' = FALSE
  /\ tripped' = FALSE
  /\ loop' = "off"
  /\ pending' = FALSE

Init ==
  /\ log = [p \in Partitions |-> <<>>]
  /\ db = EmptyTable
  /\ phase = "new"
  /\ hwm = [p \in Partitions |-> 0]
  /\ done = {}
  /\ pos = [p \in Partitions |-> 0]
  /\ tail = "off"
  /\ inHand = {}
  /\ cancelled = FALSE
  /\ tripped = FALSE
  /\ loop = "off"
  /\ pending = FALSE
  /\ joined = [k \in JoinedKeys |-> -1]
  /\ faults = 0

Fault ==
  /\ faults < MaxFaults
  /\ faults' = faults + 1

-----------------------------------------------------------------------------
(* The topic.                                                              *)

\* The entries one write adds: a transaction ends with a control record, and
\* the records of an aborted one are never delivered.
Written(k, live) ==
  {<<[key |-> k, live |-> live]>>}
  \cup IF Transactional
         THEN {<<[key |-> k, live |-> live], Hole>>, <<Hole, Hole>>}
         ELSE {}

Produce(k, live) ==
  \E entries \in Written(k, live) :
    LET p == PartitionOf[k]
    IN  /\ Len(log[p]) + Len(entries) <= MaxLen[p]
        /\ log' = [log EXCEPT ![p] = @ \o entries]
        /\ UNCHANGED <<db, phase, consumer, tailing, running, faults>>

\* Compaction removes a record that a later one supersedes, and a tombstone that
\* is the first of its key when its retention has passed, which it has for no
\* consumer that runs and has yet to be delivered it or to apply what it was
\* delivered of the key, nor, without a long downtime, for a table that still
\* holds the key.  It never reaches the last entry.
Compact(p, n) ==
  LET e == log[p][n]
  IN  /\ n < Len(log[p]) /\ e # Hole
      /\ \/ \E m \in n + 1 .. Len(log[p]) : log[p][m].key = e.key
         \/ /\ ~e.live /\ \A m \in 1 .. n - 1 : log[p][m].key # e.key
            /\ \/ phase = "closed"
               \/ pos[p] >= n /\ \A r \in inHand : r.entry.key # e.key
            /\ LongDowntime \/ db[e.key] = -1
      /\ log' = [log EXCEPT ![p][n] = Hole]
      /\ UNCHANGED <<db, phase, consumer, tailing, running, faults>>

-----------------------------------------------------------------------------
(* Bootstrap.                                                              *)

\* The offsets the client has yet to deliver, under read-committed isolation.
Undelivered(p) == {o \in pos[p] .. Len(log[p]) - 1 : log[p][o + 1] # Hole}

\* PollFetches delivers the next record of partition p.
IsNext(p, o) == o \in Undelivered(p) /\ \A u \in Undelivered(p) : o <= u

\* Mutant of applyKV: a tombstone is stored like a value.
applyKVWithoutDelete(e, o) == db' = [db EXCEPT ![e.key] = o]

\* applyKV: an empty value deletes the key.
applyKV(e, o) == db' = [db EXCEPT ![e.key] = IF e.live THEN o ELSE -1]

\* Mutant of StartBootstrap: an empty partition is waited for.
StartBootstrapWaitsForEmpty ==
  /\ phase = "new"
  /\ phase' = "bootstrap"
  /\ hwm' = [p \in Partitions |-> Len(log[p])]
  /\ done' = {}
  /\ pos' = [p \in Partitions |-> 0]
  /\ UNCHANGED <<log, db, tailing, running, faults>>

\* NewGlobalConsumer, then the first half of Bootstrap: the high watermarks.
StartBootstrap ==
  /\ phase = "new"
  /\ phase' = "bootstrap"
  /\ hwm' = [p \in Partitions |-> Len(log[p])]
  /\ done' = {p \in Partitions : Len(log[p]) = 0}
  /\ pos' = [p \in Partitions |-> 0]
  /\ UNCHANGED <<log, db, tailing, running, faults>>

\* Mutant of CaughtUpAt: the record before the last one is enough.
CaughtUpAtOneEarly(p, o) == o >= hwm[p] - 2

\* The record at offset o is the last of the partition at bootstrap time.
CaughtUpAt(p, o) == o >= hwm[p] - 1

Delivered(p, o) == pos' = [pos EXCEPT ![p] = o + 1]

\* One record of the poll loop.  Partitions that are done are still read.
BootstrapApply(p) ==
  /\ phase = "bootstrap" /\ done # Partitions
  /\ \E o \in Undelivered(p) :
       /\ IsNext(p, o)
       /\ applyKV(log[p][o + 1], o)
       /\ Delivered(p, o)
       /\ done' = IF CaughtUpAt(p, o) THEN done \cup {p} ELSE done
  /\ UNCHANGED <<log, phase, hwm, tailing, running, faults>>

\* Bootstrap returns an error (no metadata, a failed poll or write, a context
\* that is done): BootstrapGlobalStores closes the consumer.
BootstrapFail ==
  /\ phase \in {"new", "bootstrap"}
  /\ Fault
  /\ phase' = "closed"
  /\ NoProcess
  /\ UNCHANGED <<log, db, joined>>

\* Every partition is done: the store is registered, RunGlobalConsumers starts
\* the tail and Run starts the loop.
StartTail ==
  /\ phase = "bootstrap" /\ done = Partitions
  /\ phase' = "running"
  /\ tail' = "loop"
  /\ loop' = "gate"
  /\ UNCHANGED <<log, db, consumer, inHand, cancelled, tripped, pending, joined,
                 faults>>

-----------------------------------------------------------------------------
(* The tail goroutine.                                                     *)

\* The records of partition p up to offset o, as one poll returns them.
Fetched(p, o) ==
  {[offset |-> u, entry |-> log[p][u + 1]] : u \in {v \in Undelivered(p) : v <= o}}

\* PollFetches of the tail returns records of partition p.
TailPoll(p) ==
  /\ tail = "loop" /\ ~cancelled
  /\ \E o \in Undelivered(p) :
       /\ inHand' = Fetched(p, o)
       /\ Delivered(p, o)
  /\ tail' = "fetched"
  /\ UNCHANGED <<log, db, phase, hwm, done, cancelled, tripped, running, faults>>

\* The next record of the fetch; a cancellation does not stop a started fetch.
TailApply ==
  /\ tail \in {"fetched", "apply"}
  /\ \E r \in inHand :
       /\ \A s \in inHand : r.offset <= s.offset
       /\ applyKV(r.entry, r.offset)
       /\ inHand' = inHand \ {r}
  /\ tail' = IF inHand' = {} THEN "loop" ELSE "apply"
  /\ UNCHANGED <<log, phase, consumer, cancelled, tripped, running, faults>>

\* The store write fails: the goroutine trips the health signal and ends.
TailFail ==
  /\ tail \in {"fetched", "apply"}
  /\ Fault
  /\ tail' = "stopped"
  /\ tripped' = TRUE
  /\ UNCHANGED <<log, db, phase, consumer, inHand, cancelled, running>>

\* The cancellation is seen before the next poll, or after it: what the poll
\* returned is then dropped.
TailStop ==
  /\ tail \in {"loop", "fetched"} /\ cancelled
  /\ tail' = "stopped"
  /\ UNCHANGED <<log, db, phase, consumer, inHand, cancelled, tripped, running,
                 faults>>

-----------------------------------------------------------------------------
(* The run loop, as far as it meets the health signal.                     *)

\* Mutant of HealthGate: the gate is not wired.
HealthGateNotWired ==
  /\ loop = "gate"
  /\ loop' = "poll"
  /\ UNCHANGED <<log, db, phase, consumer, tailing, pending, joined, faults>>

\* The health gate at the top of an iteration.
HealthGate ==
  /\ loop = "gate"
  /\ loop' = IF tripped THEN "stopped" ELSE "poll"
  /\ UNCHANGED <<log, db, phase, consumer, tailing, pending, joined, faults>>

\* PollFetches returns source records.
PollRecords ==
  /\ loop = "poll"
  /\ loop' = "batch"
  /\ UNCHANGED <<log, db, phase, consumer, tailing, pending, joined, faults>>

\* PollFetches returns at its deadline, and a commit that is due may succeed.
PollEmpty ==
  /\ loop = "poll" /\ (PollDeadline \/ pending)
  /\ loop' = "gate"
  /\ pending' \in {pending, FALSE}
  /\ UNCHANGED <<log, db, phase, consumer, tailing, joined, faults>>

\* JoinGlobal, for a source record that maps to key k: a hit is forwarded with
\* the table's value, a miss is dropped.
JoinGlobal(k) ==
  /\ loop = "batch" /\ db[k] # -1
  /\ joined' = [joined EXCEPT ![k] = db[k]]
  /\ UNCHANGED <<log, db, phase, consumer, tailing, loop, pending, faults>>

\* The batch is processed; PostBatchHook checks the health signal once more.
Batch ==
  /\ loop = "batch"
  /\ loop' = IF tripped THEN "stopped" ELSE "gate"
  /\ pending' = IF tripped THEN pending ELSE ~PollDeadline
  /\ UNCHANGED <<log, db, phase, consumer, tailing, joined, faults>>

\* The context of loop and tail is cancelled.
Cancel ==
  /\ loop = "poll"
  /\ Fault
  /\ loop' = "stopped"
  /\ cancelled' = TRUE
  /\ UNCHANGED <<log, db, phase, consumer, tail, inHand, tripped, pending, joined>>

-----------------------------------------------------------------------------
(* Adapter.Close, restart and crash.                                       *)

\* GlobalConsumer.Close cancels the tail...
CloseCancel ==
  /\ phase = "running" /\ loop = "stopped"
  /\ phase' = "closing"
  /\ cancelled' = TRUE
  /\ UNCHANGED <<log, db, consumer, tail, inHand, tripped, running, faults>>

\* Mutant of CloseStore: the goroutine is not waited for.
CloseStoreAtOnce ==
  /\ phase = "closing"
  /\ phase' = "closed"
  /\ UNCHANGED <<log, db, consumer, tailing, running, faults>>

\* ...waits for the goroutine, and closes client, store and backend.
CloseStore ==
  /\ phase = "closing" /\ tail = "stopped"
  /\ phase' = "closed"
  /\ UNCHANGED <<log, db, consumer, tailing, running, faults>>

\* The application starts again, with Pebble on the state directory it left or
\* on another host.
Restart ==
  /\ phase = "closed"
  /\ phase' = "new"
  /\ db' \in (IF Persistent THEN {db, EmptyTable} ELSE {EmptyTable})
  /\ NoProcess
  /\ UNCHANGED <<log, joined, faults>>

Crash ==
  /\ phase # "closed"
  /\ Fault
  /\ phase' = "closed"
  /\ NoProcess
  /\ UNCHANGED <<log, db, joined>>

-----------------------------------------------------------------------------

\* What consumer, tail and loop do by themselves.
Progress ==
  \/ StartBootstrap
  \/ \E p \in Partitions : BootstrapApply(p)
  \/ StartTail
  \/ TailApply
  \/ TailStop
  \/ HealthGate
  \/ PollEmpty
  \/ Batch
  \/ CloseCancel
  \/ CloseStore

Environment ==
  \/ \E k \in Keys, live \in BOOLEAN : Produce(k, live)
  \/ \E p \in Partitions : \E n \in 1 .. Len(log[p]) : Compact(p, n)
  \/ \E p \in Partitions : TailPoll(p)
  \/ PollRecords
  \/ \E k \in JoinedKeys : JoinGlobal(k)
  \/ BootstrapFail
  \/ TailFail
  \/ Cancel
  \/ Restart
  \/ Crash

Next == Progress \/ Environment

Spec == Init /\ [][Next]_vars

\* Bootstrap, the tail and the loop each keep running; nothing makes source
\* records arrive or the topic grow.
FairSpec ==
  /\ Spec
  /\ WF_vars(StartBootstrap \/ StartTail \/ \E p \in Partitions : BootstrapApply(p))
  /\ WF_vars(TailApply \/ TailStop \/ \E p \in Partitions : TailPoll(p))
  /\ WF_vars(HealthGate \/ PollEmpty \/ Batch)
  /\ WF_vars(CloseCancel \/ CloseStore)

-----------------------------------------------------------------------------
(* Properties.                                                             *)

\* Type invariant.
TypeOK ==
  /\ log \in [Partitions -> Seq([key : Keys \cup {NoKey}, live : BOOLEAN])]
  /\ \A k \in Keys : db[k] \in -1 .. MaxLen[PartitionOf[k]] - 1
  /\ phase \in {"new", "bootstrap", "running", "closing", "closed"}
  /\ \A p \in Partitions : Len(log[p]) <= MaxLen[p] /\ hwm[p] \in 0 .. Len(log[p])
  /\ \A p \in Partitions : pos[p] \in 0 .. Len(log[p])
  /\ done \subseteq Partitions
  /\ tail \in {"off", "loop", "fetched", "apply", "stopped"}
  /\ \A r \in inHand : r.entry.key \in Keys /\ r.offset \in 0 .. MaxLen[PartitionOf[r.entry.key]] - 1
  /\ loop \in {"off", "gate", "poll", "batch", "stopped"}
  /\ {cancelled, tripped, pending} \subseteq BOOLEAN
  /\ \A k \in JoinedKeys : joined[k] \in -1 .. MaxLen[PartitionOf[k]] - 1
  /\ faults \in 0 .. MaxFaults

\* What the topic says of key k: the offset of its latest value, or -1.
Latest(k) ==
  LET l == log[PartitionOf[k]]
      places == {n \in DOMAIN l : l[n].key = k}
      last == CHOOSE n \in places : \A m \in places : m <= n
  IN  IF places # {} /\ l[last].live THEN last - 1 ELSE -1

\* "global stores are rebuilt from the source topic on restart via Bootstrap":
\* once the consumer has been delivered all of a partition, the table holds
\* exactly the latest values of its keys, whatever an earlier run left behind.
TableMatchesTopic ==
  tail = "loop" =>
    \A k \in Keys : Undelivered(PartitionOf[k]) = {} => db[k] = Latest(k)

\* The loop starts only when every record below the high watermarks of the
\* start of Bootstrap has been applied: no join reads a half-built table.
NoLoopBeforeBootstrap ==
  loop # "off" => \A p \in Partitions : \A o \in Undelivered(p) : o >= hwm[p]

\* The records of key k that the table has yet to apply.
Coming(k) ==
  {o \in Undelivered(PartitionOf[k]) : log[PartitionOf[k]][o + 1].key = k}
  \cup {r.offset : r \in {s \in inHand : s.entry.key = k}}

\* "The global store is fully replicated and bootstrapped before task processing
\* starts": JoinGlobal joins a key with an older value than it did before, also
\* after a restart, whose Bootstrap replays old values over the store, only
\* while a record of the key from after the start of Bootstrap is on its way to
\* the table: compaction may have let that record supersede the value.
JoinsNeverGoBack ==
  [][\A k \in JoinedKeys :
       \/ joined'[k] >= joined[k]
       \/ \E o \in Coming(k) : o >= hwm[PartitionOf[k]]]_joined

\* The Close contract: the tail goroutine never writes to a closed store.
NoWriteAfterClose == phase = "closed" => tail \notin {"fetched", "apply"}

\* "Blocks until every partition has consumed offset >= hwm-1": bootstrap ends,
\* also when nothing more is written to the topic, if each partition was empty
\* or holds a record at or past the last offset below its high watermark.
BootstrapEnds ==
  (/\ phase = "bootstrap"
   /\ \A p \in Partitions :
        hwm[p] = 0 \/ p \in done \/ \E o \in Undelivered(p) : o >= hwm[p] - 1)
  ~> (phase # "bootstrap")

\* "check-before-poll pattern (no idle hang)": every bootstrap ends, also over
\* a topic that is written in transactions.
NoIdleHang == (phase = "bootstrap") ~> (phase # "bootstrap")

\* "WithHealthGate catches failures faster during idle (no records) periods":
\* the loop stops after a fatal store write, also when no record arrives.
TripStopsLoop == tripped ~> (loop \in {"stopped", "off"})
==============================================================================
