------------------------------ MODULE Rebalance ------------------------------
(***************************************************************************)
(* Partitions that move between application instances in at-least-once     *)
(* mode.  The run loop Client.runALO of an instance and the rebalance      *)
(* callbacks buildOpts registers (internal/kafka/client.go) run in         *)
(* different goroutines: the options ask neither for blocked rebalances    *)
(* nor for a callback of lost partitions, so partitions are revoked and    *)
(* assigned while a batch is in hand.  What the two share is               *)
(* TaskManager.tasks (internal/runtime/task_manager.go) and the offset     *)
(* committer, each behind its mutex.                                       *)
(*                                                                         *)
(* An input is a pair <<s, o>> of a source partition and an offset.  A     *)
(* task is named by a partition number alone, so source partitions of      *)
(* several topics may share one (TaskOf).  A store value is the set of     *)
(* inputs folded into it.                                                  *)
(***************************************************************************)
EXTENDS Changelog

CONSTANTS
  Instances,       \* the members of the consumer group
  Sources,         \* the partitions of the source topics
  Tasks,           \* the task names (partition numbers)
  TaskOf,          \* TaskOf[s] is the task of the source partition s
  Keys,            \* the record keys
  KeyOf,           \* KeyOf[s][o] is the key of the input <<s, o>>
  End,             \* each source partition holds the offsets 0 .. End-1
  MaxMoves,        \* bound on partitions taken from a running member
  MaxFaults,       \* bound on failures, shutdowns and crashes
  MaxEvictions     \* bound on members evicted while they are running

Offsets == 0 .. End - 1
Inputs == Sources \X Offsets

ASSUME RebalanceAssumption ==
  /\ "none" \notin Instances
  /\ TaskOf \in [Sources -> Tasks]
  /\ KeyOf \in [Sources -> [Offsets -> Keys]]
  /\ End \in Nat /\ MaxMoves \in Nat /\ MaxFaults \in Nat /\ MaxEvictions \in Nat

VARIABLES
  committed,   \* broker: the group's committed offset of each source
  changelog,   \* broker: the changelog partition of each task
  sink,        \* broker: the inputs whose output is in the sink
  owner,       \* broker: the member each source is assigned to, or "none"
  db,          \* disk of each instance: the content of each task's store
  checkpoint,  \* disk of each instance: the checkpoint of each task, or -1
  pc,          \* where the run loop of each instance is
  position,    \* the next offset to fetch, or -1 when s is not consumed
  batch,       \* the batch in hand: start, next and end per source
  handle,      \* the executor the current record of s runs on
  failed,      \* the tasks that failed in this batch
  task,        \* each task in TaskManager: "absent", "open" or "closing"
  collector,   \* the mutations of each task not drained yet
  pending,     \* aloOffsetCommitter.pending: an offset, or -1
  callback,    \* the rebalance callback in progress at each instance
  overtaken,   \* history: the inputs of the batch whose task was closed
  exposed,     \* history: the overtaken inputs whose offset became pending
  moves, faults, evictions

broker == <<committed, changelog, sink, owner>>
disk   == <<db, checkpoint>>
loop   == <<pc, position, batch, handle, failed>>
counts == <<moves, faults, evictions>>
seen   == <<overtaken, exposed>>
vars   == <<broker, disk, loop, task, collector, pending, callback, seen,
            counts>>

EmptyStore == [k \in Keys |-> {}]
NoBatch == [start |-> 0, next |-> 0, end |-> 0]
Idle == [kind |-> "idle", sources |-> {}, tasks |-> {}]

\* What a process starts with.
Fresh(i) ==
  /\ position' = [position EXCEPT ![i] = [s \in Sources |-> -1]]
  /\ batch' = [batch EXCEPT ![i] = [s \in Sources |-> NoBatch]]
  /\ handle' = [handle EXCEPT ![i] = [s \in Sources |-> "none"]]
  /\ failed' = [failed EXCEPT ![i] = {}]
  /\ task' = [task EXCEPT ![i] = [t \in Tasks |-> "absent"]]
  /\ collector' = [collector EXCEPT ![i] = [t \in Tasks |-> <<>>]]
  /\ pending' = [pending EXCEPT ![i] = [s \in Sources |-> -1]]
  /\ callback' = [callback EXCEPT ![i] = Idle]
  /\ overtaken' = [overtaken EXCEPT ![i] = {}]

\* The process dies and is started again; the group notices before it has
\* rejoined.
Die(i) ==
  /\ pc' = [pc EXCEPT ![i] = "poll"]
  /\ Fresh(i)
  /\ owner' = [s \in Sources |-> IF owner[s] = i THEN "none" ELSE owner[s]]
  /\ UNCHANGED <<committed, changelog, sink, disk, exposed>>

Init ==
  /\ committed = [s \in Sources |-> 0]
  /\ changelog = [t \in Tasks |-> <<>>]
  /\ sink = {}
  /\ owner = [s \in Sources |-> "none"]
  /\ db = [i \in Instances |-> [t \in Tasks |-> EmptyStore]]
  /\ checkpoint = [i \in Instances |-> [t \in Tasks |-> -1]]
  /\ pc = [i \in Instances |-> "poll"]
  /\ position = [i \in Instances |-> [s \in Sources |-> -1]]
  /\ batch = [i \in Instances |-> [s \in Sources |-> NoBatch]]
  /\ handle = [i \in Instances |-> [s \in Sources |-> "none"]]
  /\ failed = [i \in Instances |-> {}]
  /\ task = [i \in Instances |-> [t \in Tasks |-> "absent"]]
  /\ collector = [i \in Instances |-> [t \in Tasks |-> <<>>]]
  /\ pending = [i \in Instances |-> [s \in Sources |-> -1]]
  /\ callback = [i \in Instances |-> Idle]
  /\ overtaken = [i \in Instances |-> {}]
  /\ exposed = {}
  /\ moves = 0 /\ faults = 0 /\ evictions = 0

Fault ==
  /\ faults < MaxFaults
  /\ faults' = faults + 1
  /\ UNCHANGED <<moves, evictions>>

Owned(i) == {s \in Sources : owner[s] = i}
TasksOf(S) == {TaskOf[s] : s \in S}

\* The loop is running: neither returned nor shut down.
Running(i) == pc[i] \notin {"stopped", "leaving"}

-----------------------------------------------------------------------------
(* The group: which member is told to give up or to take which partitions. *)
(* The cooperative protocol assigns a partition only after its former      *)
(* owner has returned from the revocation callback.                        *)

\* The sources a member believes to be its own and which are not any more.
LostBy(i) ==
  {s \in Sources : /\ position[i][s] # -1 \/ s \in callback[i].sources
                   /\ owner[s] # i}

\* The client stops fetching the sources of S and drops what it has buffered;
\* the batch the loop has in hand stays there.
StopFetching(i, S) ==
  position' = [position EXCEPT ![i] =
                 [s \in Sources |-> IF s \in S THEN -1 ELSE @[s]]]

StartRevoke(i, S) ==
  /\ StopFetching(i, S)
  /\ callback' = [callback EXCEPT ![i] =
                    [kind |-> "revoke", sources |-> S, tasks |-> TasksOf(S)]]

\* The coordinator moves sources away from a running member.
Revoke(i, S) ==
  /\ Running(i) /\ callback[i] = Idle
  /\ S # {} /\ S \subseteq Owned(i)
  /\ moves < MaxMoves /\ moves' = moves + 1
  /\ StartRevoke(i, S)
  /\ UNCHANGED <<broker, disk, pc, batch, handle, failed, task, collector,
                 pending, seen, faults, evictions>>

\* The coordinator gives unowned sources to a running member.
Assign(i, S) ==
  /\ Running(i) /\ callback[i] = Idle /\ LostBy(i) = {}
  /\ S # {} /\ \A s \in S : owner[s] = "none"
  /\ owner' = [s \in Sources |-> IF s \in S THEN i ELSE owner[s]]
  /\ callback' = [callback EXCEPT ![i] =
                    [kind |-> "assign", sources |-> S, tasks |-> TasksOf(S)]]
  /\ UNCHANGED <<committed, changelog, sink, disk, loop, task, collector,
                 pending, seen, counts>>

\* The coordinator gives a member up (a missed heartbeat) while it is running;
\* the member does not know yet.
Evict(i) ==
  /\ Running(i) /\ Owned(i) # {} /\ callback[i] = Idle
  /\ evictions < MaxEvictions /\ evictions' = evictions + 1
  /\ owner' = [s \in Sources |-> IF owner[s] = i THEN "none" ELSE owner[s]]
  /\ UNCHANGED <<committed, changelog, sink, disk, loop, task, collector,
                 pending, callback, seen, moves, faults>>

\* The evicted member learns of it.  Without a callback for lost partitions
\* the client calls the one for revoked partitions.
NoticeEviction(i) ==
  /\ pc[i] # "leaving" /\ callback[i] = Idle
  /\ LostBy(i) # {}
  /\ StartRevoke(i, LostBy(i))
  /\ UNCHANGED <<broker, disk, pc, batch, handle, failed, task, collector,
                 pending, seen, counts>>

-----------------------------------------------------------------------------
(* aloOffsetCommitter.commit, from the loop or from a callback.            *)

\* The coordinator checks the member, not whether it owns the partitions.
CommitOffsets(i) ==
  committed' = [s \in Sources |->
                  IF pending[i][s] # -1 THEN pending[i][s] + 1
                                        ELSE committed[s]]

\* Mutant of CommitOK: the offsets are those of the batch in hand.
CommitOKBatch(i) ==
  /\ LostBy(i) = {}
  /\ committed' = [s \in Sources |->
                     IF batch[i][s].start < batch[i][s].end
                       THEN batch[i][s].end
                       ELSE committed[s]]
  /\ pending' = [pending EXCEPT ![i] = [s \in Sources |-> -1]]

\* A member that has been evicted cannot commit.
CommitOK(i) ==
  /\ LostBy(i) = {}
  /\ CommitOffsets(i)
  /\ pending' = [pending EXCEPT ![i] = [s \in Sources |-> -1]]

\* The coordinator may have taken the offsets of an answer that was lost.
CommitError(i) ==
  /\ LostBy(i) = {}
  /\ committed' = committed \/ CommitOffsets(i)
  /\ UNCHANGED pending

AnyPending(i) == \E s \in Sources : pending[i][s] # -1

-----------------------------------------------------------------------------
(* The callbacks: TaskManager.OnRevoked and OnAssigned.                    *)

\* The executors obtained before the store of task t was closed.
StaleHandles(i, t) ==
  handle' = [handle EXCEPT ![i] = [s \in Sources |->
               IF TaskOf[s] = t /\ @[s] = "live" THEN "stale" ELSE @[s]]]

\* The inputs the loop has fetched and not yet added to the offsets.
BatchInputs(i) ==
  {x \in Inputs : batch[i][x[1]].start <= x[2] /\ x[2] < batch[i][x[1]].end}

\* Task t is closed under the batch in hand.
Overtake(i, t) ==
  /\ overtaken' = [overtaken EXCEPT ![i] =
       @ \cup {x \in BatchInputs(i) : Running(i) /\ TaskOf[x[1]] = t}]
  /\ UNCHANGED exposed

\* closeTask, first part: the task leaves the map and its collector is drained.
\* The loop may still hold its executor.
DrainTask(i, t) ==
  /\ callback[i].kind = "revoke" /\ t \in callback[i].tasks
  /\ task[i][t] = "open" /\ \A u \in Tasks : task[i][u] # "closing"
  /\ task' = [task EXCEPT ![i][t] = "closing"]
  /\ collector' = [collector EXCEPT ![i][t] = <<>>]
  /\ Overtake(i, t)
  /\ UNCHANGED <<committed, sink, owner, disk, loop, pending, callback>>

CloseTask(i, t) ==
  /\ DrainTask(i, t)
  /\ changelog' = [changelog EXCEPT ![t] = @ \o collector[i][t]]
  /\ UNCHANGED counts

\* The flush fails, which is only logged: the drained mutations are gone, but
\* for those the producer had sent.
CloseTaskFlushFail(i, t) ==
  /\ DrainTask(i, t)
  /\ collector[i][t] # <<>>
  /\ Fault
  /\ \E n \in 0 .. Len(collector[i][t]) :
       changelog' = [changelog EXCEPT ![t] = @ \o SubSeq(collector[i][t], 1, n)]

\* closeTask, second part: checkpoint at the high watermark, looked up by a
\* restore with MaxInt64, and close the store.  A mutation collected since the
\* drain is dropped with the collector.
CloseStore(i, t) ==
  /\ task[i][t] = "closing"
  /\ IF Len(changelog[t]) > 0
       THEN /\ db' = [db EXCEPT ![i][t] = RestoredDB(changelog[t], MaxInt64, @)]
            /\ checkpoint' = [checkpoint EXCEPT ![i][t] = Len(changelog[t]) - 1]
       ELSE UNCHANGED disk
  /\ task' = [task EXCEPT ![i][t] = "absent"]
  /\ collector' = [collector EXCEPT ![i][t] = <<>>]
  /\ StaleHandles(i, t)
  /\ callback' = [callback EXCEPT ![i].tasks = @ \ {t}]
  /\ UNCHANGED <<broker, pc, position, batch, failed, pending, seen, counts>>

\* closeTask of a partition without a task does nothing.
CloseNothing(i, t) ==
  /\ callback[i].kind = "revoke" /\ t \in callback[i].tasks
  /\ task[i][t] = "absent"
  /\ callback' = [callback EXCEPT ![i].tasks = @ \ {t}]
  /\ UNCHANGED <<broker, disk, loop, task, collector, pending, seen, counts>>

\* The sources are free for another member.
Released(i) ==
  /\ owner' = [s \in Sources |->
                 IF s \in callback[i].sources /\ owner[s] = i
                   THEN "none" ELSE owner[s]]
  /\ callback' = [callback EXCEPT ![i] = Idle]

\* Mutant of RevokeDone: the tasks are closed in the background.
RevokeDoneEarly(i) ==
  /\ callback[i].kind = "revoke"
  /\ CommitOK(i)
  /\ owner' = [s \in Sources |->
                 IF s \in callback[i].sources /\ owner[s] = i
                   THEN "none" ELSE owner[s]]
  /\ callback' = [callback EXCEPT ![i].sources = {}]
  /\ UNCHANGED <<changelog, sink, disk, loop, task, collector, seen, counts>>

\* The callback commits everything pending and returns.
RevokeDone(i) ==
  /\ callback[i].kind = "revoke" /\ callback[i].tasks = {}
  /\ CommitOK(i)
  /\ Released(i)
  /\ UNCHANGED <<changelog, sink, disk, loop, task, collector, seen, counts>>

\* That commit fails, which is only logged; the offsets stay pending.
RevokeDoneUncommitted(i) ==
  /\ callback[i].kind = "revoke" /\ callback[i].tasks = {}
  /\ AnyPending(i) /\ Fault
  /\ CommitError(i)
  /\ Released(i)
  /\ UNCHANGED <<changelog, sink, disk, loop, task, collector, seen>>

\* The commit of a member that has been evicted fails.
RevokeDoneEvicted(i) ==
  /\ callback[i].kind = "revoke" /\ callback[i].tasks = {}
  /\ LostBy(i) # {}
  /\ Released(i)
  /\ UNCHANGED <<committed, changelog, sink, disk, loop, task, collector,
                 pending, seen, counts>>

\* Mutant of OpenTask: the task goes on with what its directory holds.
OpenTaskUnrestored(i, t) ==
  /\ callback[i].kind = "assign" /\ t \in callback[i].tasks
  /\ task[i][t] = "absent"
  /\ task' = [task EXCEPT ![i][t] = "open"]
  /\ callback' = [callback EXCEPT ![i].tasks = @ \ {t}]
  /\ UNCHANGED <<broker, disk, loop, collector, pending, seen, counts>>

\* openTask: restore the store from its changelog and register the task.
OpenTask(i, t) ==
  /\ callback[i].kind = "assign" /\ t \in callback[i].tasks
  /\ task[i][t] = "absent"
  /\ db' = [db EXCEPT ![i][t] = RestoredDB(changelog[t], checkpoint[i][t], @)]
  /\ checkpoint' = [checkpoint EXCEPT ![i][t] =
                      RestoredCheckpoint(changelog[t], @)]
  /\ task' = [task EXCEPT ![i][t] = "open"]
  /\ callback' = [callback EXCEPT ![i].tasks = @ \ {t}]
  /\ UNCHANGED <<broker, loop, collector, pending, seen, counts>>

\* openTask fails.  OnAssigned returns; the error is only logged.
OpenTaskFail(i, t) ==
  /\ callback[i].kind = "assign" /\ t \in callback[i].tasks
  /\ task[i][t] = "absent" /\ Fault
  /\ callback' = [callback EXCEPT ![i].tasks = {}]
  /\ UNCHANGED <<broker, disk, loop, task, collector, pending, seen>>

\* The task is open for another topic already, and its directory locked.
OpenTaskLocked(i, t) ==
  /\ callback[i].kind = "assign" /\ t \in callback[i].tasks
  /\ task[i][t] # "absent"
  /\ callback' = [callback EXCEPT ![i].tasks = {}]
  /\ UNCHANGED <<broker, disk, loop, task, collector, pending, seen, counts>>

\* Mutant of AssignDone: without a committed offset, fetch what is new.
AssignDoneLatest(i) ==
  /\ callback[i].kind = "assign" /\ callback[i].tasks = {}
  /\ position' = [position EXCEPT ![i] = [s \in Sources |->
                    IF s \notin callback[i].sources THEN @[s]
                    ELSE IF committed[s] = 0 THEN End ELSE committed[s]]]
  /\ callback' = [callback EXCEPT ![i] = Idle]
  /\ UNCHANGED <<broker, disk, pc, batch, handle, failed, task, collector,
                 pending, seen, counts>>

\* The callback has returned: fetching starts at the committed offsets.
AssignDone(i) ==
  /\ callback[i].kind = "assign" /\ callback[i].tasks = {}
  /\ position' = [position EXCEPT ![i] = [s \in Sources |->
                    IF s \in callback[i].sources THEN committed[s] ELSE @[s]]]
  /\ callback' = [callback EXCEPT ![i] = Idle]
  /\ UNCHANGED <<broker, disk, pc, batch, handle, failed, task, collector,
                 pending, seen, counts>>

-----------------------------------------------------------------------------
(* The run loop.                                                           *)

\* PollFetches returns a run of offsets of each source that is consumed.
Poll(i) ==
  /\ pc[i] = "poll"
  /\ \E end \in [Sources -> 0 .. End] :
       /\ \A s \in Sources :
            IF position[i][s] = -1 THEN end[s] = 0 ELSE position[i][s] <= end[s]
       /\ \E s \in Sources : position[i][s] # -1 /\ position[i][s] < end[s]
       /\ batch' = [batch EXCEPT ![i] = [s \in Sources |->
            IF position[i][s] = -1 THEN NoBatch
            ELSE [start |-> position[i][s], next |-> position[i][s],
                  end |-> end[s]]]]
       /\ position' = [position EXCEPT ![i] = [s \in Sources |->
            IF @[s] = -1 THEN -1 ELSE end[s]]]
  /\ pc' = [pc EXCEPT ![i] = "process"]
  /\ UNCHANGED <<broker, disk, handle, failed, task, collector, pending,
                 callback, seen, counts>>

HasNext(i, s) ==
  /\ pc[i] = "process" /\ TaskOf[s] \notin failed[i]
  /\ batch[i][s].next < batch[i][s].end

\* The records of one task are processed one after another.
MayBegin(i, s) ==
  /\ HasNext(i, s)
  /\ \A u \in Sources : TaskOf[u] = TaskOf[s] => handle[i][u] = "none"

\* Adapter.process asks the TaskManager for the executor...
LookUp(i, s) ==
  /\ MayBegin(i, s)
  /\ task[i][TaskOf[s]] = "open"
  /\ handle' = [handle EXCEPT ![i][s] = "live"]
  /\ UNCHANGED <<broker, disk, pc, position, batch, failed, task, collector,
                 pending, callback, seen, counts>>

\* ...which is gone...
NoTask(i, s) ==
  /\ MayBegin(i, s)
  /\ task[i][TaskOf[s]] # "open"
  /\ failed' = [failed EXCEPT ![i] = @ \cup {TaskOf[s]}]
  /\ UNCHANGED <<broker, disk, pc, position, batch, handle, task, collector,
                 pending, callback, seen, counts>>

\* ...and runs the record on it: the value is read, folded and written back.
\* A task that is being closed still takes the write.
Execute(i, s) ==
  LET t == TaskOf[s]
      o == batch[i][s].next
      k == KeyOf[s][o]
      v == db[i][t][k] \cup {<<s, o>>}
  IN  /\ HasNext(i, s) /\ handle[i][s] = "live"
      /\ db' = [db EXCEPT ![i][t][k] = v]
      /\ collector' = [collector EXCEPT ![i][t] =
                         Append(@, [key |-> k, val |-> v])]
      /\ batch' = [batch EXCEPT ![i][s].next = o + 1]
      /\ handle' = [handle EXCEPT ![i][s] = "none"]
      /\ UNCHANGED <<broker, checkpoint, pc, position, failed, task, pending,
                     callback, seen, counts>>

\* The store has been closed in the meantime: checkOpen fails.
ExecuteClosed(i, s) ==
  /\ HasNext(i, s) /\ handle[i][s] = "stale"
  /\ failed' = [failed EXCEPT ![i] = @ \cup {TaskOf[s]}]
  /\ handle' = [handle EXCEPT ![i][s] = "none"]
  /\ UNCHANGED <<broker, disk, pc, position, batch, task, collector, pending,
                 callback, seen, counts>>

\* The loop has returned: its batch will be delivered again.
Stop(i) ==
  /\ pc' = [pc EXCEPT ![i] = "stopped"]
  /\ overtaken' = [overtaken EXCEPT ![i] = {}]
  /\ UNCHANGED exposed

\* A write to a store whose closed flag, which no lock guards, still reads
\* FALSE reaches the closed database and panics.
ExecutePanics(i, s) ==
  /\ HasNext(i, s) /\ handle[i][s] = "stale"
  /\ Die(i)
  /\ UNCHANGED counts

\* A failed record ends the loop; with several threads the other tasks finish.
BatchFailed(i) ==
  /\ pc[i] = "process" /\ failed[i] # {}
  /\ \A s \in Sources : handle[i][s] = "none"
  /\ Stop(i)
  /\ UNCHANGED <<broker, disk, position, batch, handle, failed, task, collector,
                 pending, callback, counts>>

ProcessDone(i) ==
  /\ pc[i] = "process" /\ failed[i] = {}
  /\ \A s \in Sources : ~HasNext(i, s)
  /\ pc' = [pc EXCEPT ![i] = "postBatch"]
  /\ UNCHANGED <<broker, disk, position, batch, handle, failed, task, collector,
                 pending, callback, seen, counts>>

\* PostBatch holds the TaskManager's mutex: it flushes every task in the map.
PostBatch(i) ==
  /\ pc[i] = "postBatch"
  /\ changelog' = [t \in Tasks |->
       IF task[i][t] = "open" THEN changelog[t] \o collector[i][t]
                              ELSE changelog[t]]
  /\ collector' = [collector EXCEPT ![i] = [t \in Tasks |->
       IF task[i][t] = "open" THEN <<>> ELSE @[t]]]
  /\ pc' = [pc EXCEPT ![i] = "produce"]
  /\ UNCHANGED <<committed, sink, owner, disk, position, batch, handle, failed,
                 task, pending, callback, seen, counts>>

\* Mutant of PostBatchFail: a failed flush is only logged.
PostBatchFailLogged(i) ==
  /\ pc[i] = "postBatch"
  /\ Fault
  /\ \E t \in Tasks :
       /\ task[i][t] = "open" /\ collector[i][t] # <<>>
       /\ collector' = [collector EXCEPT ![i][t] = <<>>]
  /\ pc' = [pc EXCEPT ![i] = "produce"]
  /\ UNCHANGED <<broker, disk, position, batch, handle, failed, task, pending,
                 callback, seen>>

\* A flush fails: the drained mutations are gone and the loop ends.
PostBatchFail(i) ==
  /\ pc[i] = "postBatch"
  /\ Fault
  /\ \E t \in Tasks :
       /\ task[i][t] = "open" /\ collector[i][t] # <<>>
       /\ collector' = [collector EXCEPT ![i][t] = <<>>]
       /\ \E n \in 0 .. Len(collector[i][t]) :
            changelog' = [changelog EXCEPT
                            ![t] = @ \o SubSeq(collector[i][t], 1, n)]
  /\ Stop(i)
  /\ UNCHANGED <<committed, sink, owner, disk, position, batch, handle, failed,
                 task, pending, callback>>

\* aloOffsetCommitter.add: the largest offset of each source.
Added(i, s) ==
  IF batch[i][s].start < batch[i][s].end /\ batch[i][s].end - 1 > pending[i][s]
    THEN batch[i][s].end - 1
    ELSE pending[i][s]

Produce(i) ==
  /\ pc[i] = "produce"
  /\ sink' = sink \cup BatchInputs(i)
  /\ pending' = [pending EXCEPT ![i] = [s \in Sources |-> Added(i, s)]]
  /\ batch' = [batch EXCEPT ![i] = [s \in Sources |-> NoBatch]]
  /\ exposed' = exposed \cup overtaken[i]
  /\ overtaken' = [overtaken EXCEPT ![i] = {}]
  /\ pc' = [pc EXCEPT ![i] = "commit"]
  /\ UNCHANGED <<committed, changelog, owner, disk, position, handle, failed,
                 task, collector, callback, counts>>

ProduceFail(i) ==
  /\ pc[i] = "produce"
  /\ Fault
  /\ \E landed \in SUBSET BatchInputs(i) : sink' = sink \cup landed
  /\ Stop(i)
  /\ UNCHANGED <<committed, changelog, owner, disk, position, batch, handle,
                 failed, task, collector, pending, callback>>

\* After a batch, or on an empty poll once the interval has elapsed.
Commit(i) ==
  /\ pc[i] \in {"commit", "poll"} /\ AnyPending(i)
  /\ CommitOK(i)
  /\ pc' = [pc EXCEPT ![i] = "poll"]
  /\ UNCHANGED <<changelog, sink, owner, disk, position, batch, handle, failed,
                 task, collector, callback, seen, counts>>

\* The interval has not elapsed.
NotDue(i) ==
  /\ pc[i] = "commit"
  /\ pc' = [pc EXCEPT ![i] = "poll"]
  /\ UNCHANGED <<broker, disk, position, batch, handle, failed, task, collector,
                 pending, callback, seen, counts>>

CommitFail(i) ==
  /\ pc[i] \in {"commit", "poll"} /\ AnyPending(i)
  /\ Fault
  /\ CommitError(i)
  /\ pc' = [pc EXCEPT ![i] = "poll"]
  /\ UNCHANGED <<changelog, sink, owner, disk, position, batch, handle, failed,
                 task, collector, callback, seen>>

-----------------------------------------------------------------------------
(* The end of a process.                                                   *)

\* The context is cancelled: runALO commits what is pending and returns.
Shutdown(i) ==
  /\ pc[i] = "poll" /\ Fault
  /\ CommitOK(i) \/ CommitError(i)
  /\ Stop(i)
  /\ UNCHANGED <<changelog, sink, owner, disk, position, batch, handle, failed,
                 task, collector, callback>>

\* Client.Close: commit what is pending; leaving the group revokes everything.
Close(i) ==
  /\ pc[i] = "stopped" /\ callback[i] = Idle
  /\ CommitOK(i) \/ CommitError(i)
  /\ StartRevoke(i, Owned(i))
  /\ pc' = [pc EXCEPT ![i] = "leaving"]
  /\ UNCHANGED <<changelog, sink, owner, disk, batch, handle, failed, task,
                 collector, seen, counts>>

Exit(i) ==
  /\ pc[i] = "leaving" /\ callback[i] = Idle
  /\ pc' = [pc EXCEPT ![i] = "poll"]
  /\ Fresh(i)
  /\ UNCHANGED <<broker, disk, exposed, counts>>

Crash(i) == Die(i) /\ Fault

-----------------------------------------------------------------------------

\* The callbacks, the loop and the restart of instance i.
Progress(i) ==
  \/ \E t \in Tasks :
       \/ CloseTask(i, t) \/ CloseStore(i, t) \/ CloseNothing(i, t)
       \/ OpenTask(i, t)
  \/ RevokeDone(i) \/ AssignDone(i)
  \/ Poll(i)
  \/ \E s \in Sources :
       \/ LookUp(i, s) \/ NoTask(i, s) \/ Execute(i, s)
       \/ ExecuteClosed(i, s) \/ ExecutePanics(i, s)
  \/ BatchFailed(i) \/ ProcessDone(i) \/ PostBatch(i) \/ Produce(i)
  \/ Commit(i) \/ NotDue(i)
  \/ Close(i) \/ Exit(i)

Disruption(i) ==
  \/ \E S \in SUBSET Sources : Revoke(i, S)
  \/ \E t \in Tasks : CloseTaskFlushFail(i, t) \/ OpenTaskFail(i, t)
  \/ RevokeDoneUncommitted(i)
  \/ PostBatchFail(i) \/ ProduceFail(i) \/ CommitFail(i)
  \/ Shutdown(i) \/ Crash(i)

AssignSome == \E i \in Instances : \E S \in SUBSET Sources : Assign(i, S)

Next == AssignSome \/ \E i \in Instances : Progress(i) \/ Disruption(i)

\* One topic, and members that leave or crash.
Spec == Init /\ [][Next]_vars

\* Each instance keeps running and the coordinator assigns what nobody owns.
FairSpec ==
  Spec /\ WF_vars(AssignSome) /\ \A i \in Instances : WF_vars(Progress(i))

\* Several topics with the same partition numbers.
SharedTaskSpec ==
  Init /\ [][Next \/ \E i \in Instances, t \in Tasks : OpenTaskLocked(i, t)]_vars

\* Members that are given up while they are running.
EvictionSpec ==
  Init /\ [][ \/ Next
             \/ \E i \in Instances :
                  Evict(i) \/ NoticeEviction(i) \/ RevokeDoneEvicted(i) ]_vars

-----------------------------------------------------------------------------
(* Properties.                                                             *)

\* Type invariant: in particular, a pending offset is that of a record of its
\* source, and committing it never passes the end of the source.
TypeOK ==
  /\ committed \in [Sources -> 0 .. End]
  /\ \A t \in Tasks : \A n \in DOMAIN changelog[t] :
       changelog[t][n] \in [key : Keys, val : SUBSET Inputs]
  /\ sink \in SUBSET Inputs
  /\ owner \in [Sources -> Instances \cup {"none"}]
  /\ db \in [Instances -> [Tasks -> [Keys -> SUBSET Inputs]]]
  /\ checkpoint \in [Instances -> [Tasks -> Int]]
  /\ pc \in [Instances -> {"poll", "process", "postBatch", "produce", "commit",
                           "stopped", "leaving"}]
  /\ position \in [Instances -> [Sources -> -1 .. End]]
  /\ batch \in [Instances ->
       [Sources -> [start : 0 .. End, next : 0 .. End, end : 0 .. End]]]
  /\ handle \in [Instances -> [Sources -> {"none", "live", "stale"}]]
  /\ failed \in [Instances -> SUBSET Tasks]
  /\ task \in [Instances -> [Tasks -> {"absent", "open", "closing"}]]
  /\ pending \in [Instances -> [Sources -> -1 .. End - 1]]
  /\ callback \in [Instances -> [kind : {"idle", "revoke", "assign"},
                               sources : SUBSET Sources, tasks : SUBSET Tasks]]
  /\ overtaken \in [Instances -> SUBSET Inputs]
  /\ exposed \in SUBSET Inputs
  /\ moves \in 0 .. MaxMoves /\ faults \in 0 .. MaxFaults
  /\ evictions \in 0 .. MaxEvictions

Committed(x) == x[2] < committed[x[1]]

\* The folds a new owner of task t restores: its changelog replayed.
Durable(t) == Replay(changelog[t], 0, EmptyStore)

IsDurable(x) == x \in Durable(TaskOf[x[1]])[KeyOf[x[1]][x[2]]]

\* Whoever owns a partition, and whichever instance commits it (runALO, the
\* revocation callback or Close, with offsets that may be those of a
\* partition that has moved): below the committed offset every output is in
\* the sink.
SinkComplete == \A x \in Inputs : Committed(x) => x \in sink

\* Two instances never have the store of a task open at the same time: the
\* callback of the former owner closes it before the new owner is told.
OneWriter ==
  \A t \in Tasks : \A i, j \in Instances :
    task[i][t] # "absent" /\ task[j][t] # "absent" => i = j

\* A task that has been opened holds all its changelog says, also where the
\* instance has a store, and a checkpoint, from an earlier ownership.
StoreCoversChangelog ==
  \A i \in Instances : \A t \in Tasks : \A k \in Keys :
    task[i][t] = "open" => Durable(t)[k] \subseteq db[i][t][k]

\* Below the committed offset every fold is in the changelog, but for the
\* inputs of a batch whose task was closed before the batch was done.
LossOnlyWhenOvertaken ==
  \A x \in Inputs : Committed(x) => IsDurable(x) \/ x \in exposed

\* runALO produces "sink and changelog records before their corresponding
\* offset becomes committed".
DurableBeforeCommit == \A x \in Inputs : Committed(x) => IsDurable(x)

\* The committed offset of a partition never goes back.
CommittedNeverRewinds ==
  [][\A s \in Sources : committed'[s] >= committed[s]]_committed

\* However often partitions move and members fail, in the end every input has
\* its output in the sink.
AllDelivered == <>(sink = Inputs)
==============================================================================
