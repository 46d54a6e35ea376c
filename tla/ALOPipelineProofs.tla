-------------------------- MODULE ALOPipelineProofs --------------------------
(***************************************************************************)
(* The safety properties of the at-least-once pipeline, for any number of  *)
(* partitions, keys, records and disruptions.                              *)
(***************************************************************************)
EXTENDS ALOPipeline, ChangelogProofs

USE EndAssumption, KeyOfAssumption, DisruptionsAssumption

-----------------------------------------------------------------------------
(* Type correctness.                                                       *)

\* A restore of a task gives a store and a checkpoint of the right type.
LEMMA RestoredType ==
  ASSUME NEW log \in Seq(Records), NEW store \in [Keys -> SUBSET Offsets],
         NEW c \in Int
  PROVE  /\ RestoredDB(log, c, store) \in [Keys -> SUBSET Offsets]
         /\ RestoredCheckpoint(log, c) \in Int
<1>1. StartOffset(c) \in Nat
  BY StartOffsetRange, Zenon
<1>2. Replay(log, StartOffset(c), store) \in [Keys -> SUBSET Offsets]
  BY Zenon, <1>1, ReplayType DEF Records
<1>3. Len(log) \in Nat
  OBVIOUS
<1> QED BY <1>2, <1>3 DEF RestoredDB, RestoredCheckpoint

\* What openTask restores is a store and an offset.
LEMMA RestoreTasksType ==
  ASSUME TypeOK, NEW R, RestoreTasks(R)
  PROVE  /\ db' \in [Partitions -> [Keys -> SUBSET Offsets]]
         /\ checkpoint' \in [Partitions -> Int]
<1>1. ASSUME NEW p \in Partitions
      PROVE  /\ RestoredDB(changelog[p], checkpoint[p], db[p]) \in [Keys -> SUBSET Offsets]
             /\ RestoredCheckpoint(changelog[p], checkpoint[p]) \in Int
  <2>1. /\ changelog[p] \in Seq(Records) /\ checkpoint[p] \in Int
        /\ db[p] \in [Keys -> SUBSET Offsets]
    BY Zenon DEF TypeOK
  <2> QED BY Zenon, <2>1, RestoredType
<1>2. \A p \in Partitions : db[p] \in [Keys -> SUBSET Offsets] /\ checkpoint[p] \in Int
  BY Zenon DEF TypeOK
<1> QED BY <1>1, <1>2, Zenon DEF RestoreTasks

\* The run loop starts in a well-typed state, at the committed offsets.
LEMMA StartLoopType ==
  ASSUME TypeOK, NEW opened \in SUBSET Partitions, StartLoop(opened)
  PROVE  /\ pc' = "poll" /\ open' \subseteq Partitions
         /\ batchStart' \in [Partitions -> 0 .. End]
         /\ next' \in [Partitions -> 0 .. End]
         /\ batchEnd' \in [Partitions -> 0 .. End]
         /\ failed' \subseteq Partitions
         /\ collector' \in [Partitions -> Seq(Records)]
         /\ pending' \in [Partitions -> -1 .. End - 1]
<1>1. pending' \in [Partitions -> -1 .. End - 1]
  BY DEF StartLoop, NonePending
<1> QED BY <1>1 DEF TypeOK, StartLoop

\* Adapter.process writes a value of the right type.
LEMMA FoldType ==
  ASSUME TypeOK, NEW p \in Partitions, HasNext(p), Fold(p)
  PROVE  /\ db' \in [Partitions -> [Keys -> SUBSET Offsets]]
         /\ collector' \in [Partitions -> Seq(Records)]
<1> DEFINE k == KeyOf[p][next[p]]
           v == db[p][k] \cup {next[p]}
<1>1. next[p] \in Offsets
  BY DEF TypeOK, HasNext, Offsets
<1>2. k \in Keys
  BY <1>1, Zenon
<1>3. v \in SUBSET Offsets
  BY <1>1, <1>2 DEF TypeOK
<1>4. [key |-> k, val |-> v] \in Records
  BY <1>2, <1>3, Zenon DEF Records
<1>5. /\ db' = [db EXCEPT ![p][k] = v]
      /\ collector' = [collector EXCEPT ![p] = Append(@, [key |-> k, val |-> v])]
  BY Zenon DEF Fold
<1> HIDE DEF k, v
<1>6. collector' \in [Partitions -> Seq(Records)]
  <2>1. Append(collector[p], [key |-> k, val |-> v]) \in Seq(Records)
    BY <1>4 DEF TypeOK
  <2> QED BY <2>1, <1>5, Zenon DEF TypeOK
<1>7. db' \in [Partitions -> [Keys -> SUBSET Offsets]]
  <2>1. [db[p] EXCEPT ![k] = v] \in [Keys -> SUBSET Offsets]
    BY <1>2, <1>3, Zenon DEF TypeOK
  <2> QED BY <2>1, <1>5, Zenon DEF TypeOK
<1> QED BY <1>6, <1>7, Zenon

\* A flush, whole or part, leaves well-typed changelogs.
LEMMA FlushType ==
  ASSUME TypeOK, NEW p \in Partitions,
         \/ changelog' = [changelog EXCEPT ![p] = @ \o collector[p]]
         \/ \E n \in 0 .. Len(collector[p]) : FlushedPart(p, n)
  PROVE  changelog' \in [Partitions -> Seq(Records)]
<1>1. changelog[p] \in Seq(Records) /\ collector[p] \in Seq(Records)
  BY Zenon DEF TypeOK
<1>2. CASE changelog' = [changelog EXCEPT ![p] = @ \o collector[p]]
  BY <1>1, <1>2 DEF TypeOK
<1>3. CASE \E n \in 0 .. Len(collector[p]) : FlushedPart(p, n)
  <2>1. PICK n \in 0 .. Len(collector[p]) : FlushedPart(p, n)
    BY <1>3, Zenon
  <2>2. changelog[p] \o SubSeq(collector[p], 1, n) \in Seq(Records)
    BY <1>1, PartPrefix, Zenon
  <2> QED BY <2>1, <2>2, Zenon DEF TypeOK, FlushedPart
<1> QED BY Zenon, <1>2, <1>3

\* CommitRecords stores one more than a pending offset: at most End.
LEMMA CommitType ==
  ASSUME TypeOK, NEW P, CommitOffsets(P)
  PROVE  committed' \in [Partitions -> 0 .. End]
<1>1. ASSUME NEW p \in Partitions, pending[p] # -1 PROVE pending[p] + 1 \in 0 .. End
  <2>1. pending[p] \in -1 .. End - 1
    BY Zenon DEF TypeOK
  <2> QED BY <2>1, <1>1
<1> QED BY <1>1, Zenon DEF TypeOK, CommitOffsets

\* aloOffsetCommitter.commit keeps its types, whether it fails or not.
LEMMA CommitStepType ==
  ASSUME TypeOK, CommitOK \/ CommitError
  PROVE  /\ committed' \in [Partitions -> 0 .. End]
         /\ pending' \in [Partitions -> -1 .. End - 1]
<1>1. committed' \in [Partitions -> 0 .. End]
  BY CommitType, Zenon DEF CommitOK, CommitError
<1>2. NonePending \in [Partitions -> -1 .. End - 1]
  BY DEF NonePending
<1> QED BY <1>1, <1>2, Zenon DEF CommitOK, CommitError, TypeOK

\* What a dead process leaves in memory variables is well typed.
LEMMA ExitType ==
  ASSUME Exit
  PROVE  /\ pc' = "down" /\ open' \subseteq Partitions
         /\ batchStart' \in [Partitions -> 0 .. End]
         /\ next' \in [Partitions -> 0 .. End]
         /\ batchEnd' \in [Partitions -> 0 .. End]
         /\ failed' \subseteq Partitions
         /\ collector' \in [Partitions -> Seq(Records)]
         /\ pending' \in [Partitions -> -1 .. End - 1]
BY DEF Exit, NonePending

\* The disruption counter stays within its bound.
LEMMA DisruptType ==
  ASSUME TypeOK, Disrupt
  PROVE  disruptions' \in 0 .. MaxDisruptions
BY DEF TypeOK, Disrupt

\* Init => TypeOK.
LEMMA InitType == Init => TypeOK
BY DEF Init, TypeOK, EmptyStore, NonePending

\* Every step of the pipeline preserves its type invariant.
LEMMA NextType == TypeOK /\ [Next]_vars => TypeOK'
<1> SUFFICES ASSUME TypeOK, [Next]_vars PROVE TypeOK'
  BY Zenon
<1> USE DEF broker, disk, cursor
<1>1. CASE Restart
  BY Zenon, <1>1, RestoreTasksType, StartLoopType DEF Restart, TypeOK
<1>2. CASE RestartPartly
  <2>1. PICK opened \in SUBSET Partitions :
          StartLoop(opened) /\ \E R \in SUBSET Partitions : RestoreTasks(R)
    BY <1>2, Zenon DEF RestartPartly
  <2>2. opened \in SUBSET Partitions
    BY Zenon
  <2>3. /\ db' \in [Partitions -> [Keys -> SUBSET Offsets]]
        /\ checkpoint' \in [Partitions -> Int]
    BY <2>1, RestoreTasksType, Zenon
  <2>4. StartLoop(opened)
    BY <2>1, Zenon
  <2>5. /\ pc' = "poll" /\ open' \subseteq Partitions
        /\ batchStart' \in [Partitions -> 0 .. End]
        /\ next' \in [Partitions -> 0 .. End]
        /\ batchEnd' \in [Partitions -> 0 .. End]
        /\ failed' \subseteq Partitions
        /\ collector' \in [Partitions -> Seq(Records)]
        /\ pending' \in [Partitions -> -1 .. End - 1]
    BY <2>2, <2>4, StartLoopType, Zenon
  <2>6. disruptions' \in 0 .. MaxDisruptions
    BY <1>2, DisruptType, Zenon DEF RestartPartly
  <2> QED BY Zenon, <1>2, <2>3, <2>5, <2>6 DEF RestartPartly, TypeOK
<1>3. CASE Poll
  BY Zenon, <1>3 DEF Poll, TypeOK
<1>4. ASSUME NEW p \in Partitions, ProcessRecord(p) PROVE TypeOK'
  <2>1. HasNext(p) /\ Fold(p)
    BY <1>4, Zenon DEF ProcessRecord
  <2>2. next' \in [Partitions -> 0 .. End]
    <3>1. next \in [Partitions -> 0 .. End] /\ batchEnd \in [Partitions -> 0 .. End]
      BY Zenon DEF TypeOK
    <3>2. next[p] + 1 \in 0 .. End
      BY <2>1, <3>1, SMTT(30) DEF HasNext
    <3> QED BY <1>4, <3>1, <3>2, SMTT(30) DEF ProcessRecord
  <2> QED BY Zenon, <1>4, <2>1, <2>2, FoldType DEF ProcessRecord, TypeOK
<1>5. ASSUME NEW p \in Partitions, ProcessNoTask(p) PROVE TypeOK'
  BY Zenon, <1>5 DEF ProcessNoTask, TypeOK
<1>6. ASSUME NEW p \in Partitions, ProcessFail(p) PROVE TypeOK'
  <2>1. /\ db' \in [Partitions -> [Keys -> SUBSET Offsets]]
        /\ collector' \in [Partitions -> Seq(Records)]
    <3>1. CASE Fold(p)
      BY <3>1, <1>6, FoldType, Zenon DEF ProcessFail
    <3>2. CASE UNCHANGED <<db, collector>>
      BY Zenon, <3>2 DEF TypeOK
    <3> QED BY <3>1, <3>2, <1>6, Zenon DEF ProcessFail
  <2> QED BY Zenon, <1>6, <2>1, DisruptType DEF ProcessFail, TypeOK
<1>7. CASE BatchFailed
  BY Zenon, <1>7 DEF BatchFailed, TypeOK
<1>8. CASE ProcessDone
  BY <1>8, Zenon DEF ProcessDone, TypeOK
<1>9. ASSUME NEW p \in Partitions, FlushTask(p) PROVE TypeOK'
  <2>1. changelog' \in [Partitions -> Seq(Records)]
    BY Zenon, <1>9, FlushType DEF FlushTask
  <2>2. collector' \in [Partitions -> Seq(Records)]
    BY <1>9 DEF FlushTask, TypeOK
  <2> QED BY Zenon, <1>9, <2>1, <2>2 DEF FlushTask, TypeOK
<1>10. ASSUME NEW p \in Partitions, FlushFail(p) PROVE TypeOK'
  <2>1. changelog' \in [Partitions -> Seq(Records)]
    BY Zenon, <1>10, FlushType DEF FlushFail
  <2>2. collector' \in [Partitions -> Seq(Records)]
    BY <1>10 DEF FlushFail, TypeOK
  <2> QED BY Zenon, <1>10, <2>1, <2>2, DisruptType DEF FlushFail, TypeOK
<1>11. CASE FlushDone
  BY <1>11, Zenon DEF FlushDone, TypeOK
<1>12. CASE Produce
  <2>1. ASSUME NEW p \in Partitions PROVE Added(p) \in -1 .. End - 1
    <3>1. /\ pending[p] \in -1 .. End - 1 /\ batchStart[p] \in 0 .. End
          /\ batchEnd[p] \in 0 .. End
      BY Zenon DEF TypeOK
    <3> QED BY <3>1 DEF Added
  <2>2. pending' \in [Partitions -> -1 .. End - 1]
    BY <1>12, <2>1, Zenon DEF Produce
  <2>3. Batch \subseteq Partitions \X Offsets
    BY Zenon DEF Batch
  <2> QED BY <1>12, <2>2, <2>3, Zenon DEF Produce, TypeOK
<1>13. CASE ProduceFail
  <2>1. Batch \subseteq Partitions \X Offsets
    BY Zenon DEF Batch
  <2>2. sink' \subseteq Partitions \X Offsets
    BY <1>13, <2>1, Zenon DEF ProduceFail, TypeOK
  <2> QED BY Zenon, <1>13, <2>2, DisruptType DEF ProduceFail, TypeOK
<1>14. CASE Commit
  BY Zenon, <1>14, CommitStepType DEF Commit, TypeOK
<1>15. CASE NotDue
  BY <1>15, Zenon DEF NotDue, TypeOK
<1>16. CASE IntervalCommit
  BY <1>16, CommitStepType, Zenon DEF IntervalCommit, TypeOK
<1>17. CASE CommitFail
  BY Zenon, <1>17, CommitStepType, DisruptType DEF CommitFail, TypeOK
<1>18. CASE Cancel
  BY Zenon, <1>18, CommitStepType, DisruptType DEF Cancel, TypeOK
<1>19. CASE HealthTrip
  BY Zenon, <1>19, DisruptType DEF HealthTrip, TypeOK
<1>20. CASE Close
  BY Zenon, <1>20, CommitStepType DEF Close, CloseClient, TypeOK
<1>21. CASE CloseRunning
  BY Zenon, <1>21, CommitStepType, DisruptType DEF CloseRunning, CloseClient, TypeOK
<1>22. ASSUME NEW p \in Partitions, CloseTask(p) PROVE TypeOK'
  <2>1. changelog' \in [Partitions -> Seq(Records)]
    BY Zenon, <1>22, FlushType DEF CloseTask
  <2>2. collector' \in [Partitions -> Seq(Records)]
    BY <1>22 DEF CloseTask, TypeOK
  <2>3. /\ db' \in [Partitions -> [Keys -> SUBSET Offsets]]
        /\ checkpoint' \in [Partitions -> Int]
    <3>1. CASE UNCHANGED disk
      BY Zenon, <3>1 DEF TypeOK
    <3>2. CASE /\ db' = [db EXCEPT ![p] = RestoredDB(changelog'[p], MaxInt64, @)]
               /\ checkpoint' = [checkpoint EXCEPT ![p] = Len(changelog'[p]) - 1]
      <4>1. /\ changelog'[p] \in Seq(Records) /\ MaxInt64 \in Int
            /\ db[p] \in [Keys -> SUBSET Offsets]
        BY <2>1, MaxInt64Assumption DEF TypeOK
      <4>2. RestoredDB(changelog'[p], MaxInt64, db[p]) \in [Keys -> SUBSET Offsets]
        BY Zenon, <4>1, RestoredType
      <4>3. Len(changelog'[p]) - 1 \in Int
        BY <4>1
      <4> QED BY <3>2, <4>2, <4>3, Zenon DEF TypeOK
    <3> QED BY <3>1, <3>2, <1>22, Zenon DEF CloseTask, CheckpointTask
  <2> QED BY Zenon, <1>22, <2>1, <2>2, <2>3 DEF CloseTask, TypeOK
<1>23. CASE RevokeCommit
  BY Zenon, <1>23, CommitType, ExitType DEF RevokeCommit, TypeOK
<1>24. CASE Crash
  BY Zenon, <1>24, ExitType, DisruptType DEF Crash, TypeOK
<1>25. ASSUME NEW p \in Partitions, LoseDisk(p) PROVE TypeOK'
  <2>1. EmptyStore \in [Keys -> SUBSET Offsets]
    BY Zenon DEF EmptyStore
  <2>2. /\ db' \in [Partitions -> [Keys -> SUBSET Offsets]]
        /\ checkpoint' \in [Partitions -> Int]
    BY <1>25, <2>1 DEF LoseDisk, TypeOK
  <2> QED BY Zenon, <1>25, <2>2, DisruptType DEF LoseDisk, TypeOK
<1>26. CASE UNCHANGED vars
  BY <1>26, Zenon DEF vars, TypeOK
<1> QED
  BY <1>1, <1>2, <1>3, <1>4, <1>5, <1>6, <1>7, <1>8, <1>9, <1>10, <1>11, <1>12,
     <1>13, <1>14, <1>15, <1>16, <1>17, <1>18, <1>19, <1>20, <1>21, <1>22,
     <1>23, <1>24, <1>25, <1>26, Zenon
  DEF Next, Progress, Disruption, EmptyPoll

\* The variables of the pipeline keep their types in every behaviour.
THEOREM TypeCorrect == Spec => []TypeOK
BY InitType, NextType, PTL DEF Spec

-----------------------------------------------------------------------------
(* Stores and changelogs.                                                  *)

\* The type invariant at one partition, and the mutations not yet flushed
\* follow those in the changelog.
LEMMA TypeAt ==
  ASSUME TypeOK, NEW p \in Partitions
  PROVE  /\ changelog[p] \in Seq(Records) /\ collector[p] \in Seq(Records)
         /\ Log(p) \in Seq(Records)
         /\ Len(changelog[p]) \in Nat /\ Len(collector[p]) \in Nat
         /\ Len(Log(p)) \in Nat
         /\ db[p] \in [Keys -> SUBSET Offsets] /\ checkpoint[p] \in Int
         /\ PrefixOf(changelog[p], Log(p))
<1>1. changelog[p] \in Seq(Records) /\ collector[p] \in Seq(Records)
  BY Zenon DEF TypeOK
<1>2. Log(p) \in Seq(Records)
  BY <1>1 DEF Log
<1>3. PrefixOf(changelog[p], Log(p))
  BY <1>1, ConcatPrefix, Zenon DEF Log
<1> QED BY <1>1, <1>2, <1>3 DEF TypeOK

\* A store that covers a whole log covers any number of its records.
LEMMA CoversAny ==
  ASSUME NEW store, NEW log, Len(log) \in Nat, NEW n \in Int,
         Covers(store, log, Len(log))
  PROVE  Covers(store, log, n)
BY DEF Covers

\* Nothing of task q changes.
LEMMA LogFrame ==
  ASSUME NEW q \in Partitions, LogInvAt(q),
         pc' = "down" => pc = "down", q \in open' <=> q \in open,
         changelog'[q] = changelog[q], collector'[q] = collector[q],
         db'[q] = db[q], checkpoint'[q] = checkpoint[q]
  PROVE  LogInvAt(q)'
<1>1. Log(q)' = Log(q)
  BY Zenon DEF Log
<1> QED BY <1>1, Zenon DEF LogInvAt

\* The tasks' volatile part is lost, the store stays and covers the changelog
\* up to its checkpoint.
LEMMA LogClosed ==
  ASSUME TypeOK, TypeOK', NEW q \in Partitions, q \notin open',
         collector'[q] = <<>>,
         PrefixOf(changelog'[q], Log(q)), Monotone(Log(q)),
         checkpoint'[q] < Len(changelog'[q]),
         Covers(db'[q], changelog'[q], checkpoint'[q] + 1)
  PROVE  LogInvAt(q)'
<1>1. changelog'[q] \in Seq(Records)
  BY Zenon DEF TypeOK
<1>2. Log(q)' = changelog'[q]
  BY <1>1 DEF Log
<1>3. Monotone(changelog'[q])
  BY PrefixMonotone, Zenon
<1> QED BY <1>2, <1>3, Zenon DEF LogInvAt

\* An open task whose store covers its whole log.
LEMMA LogOpen ==
  ASSUME TypeOK, TypeOK', NEW q \in Partitions, q \in open', pc' # "down",
         Monotone(Log(q)'), Covers(db'[q], Log(q)', Len(Log(q)')),
         checkpoint'[q] < Len(changelog'[q])
  PROVE  LogInvAt(q)'
<1>1. PrefixOf(changelog'[q], Log(q)') /\ checkpoint'[q] \in Int
  <2>1. changelog'[q] \in Seq(Records) /\ collector'[q] \in Seq(Records)
    BY Zenon DEF TypeOK
  <2> QED BY <2>1, ConcatPrefix, Zenon DEF Log, TypeOK
<1>2. Covers(db'[q], changelog'[q], Len(changelog'[q]))
  BY <1>1, PrefixCovers, Zenon
<1>3. Covers(db'[q], changelog'[q], checkpoint'[q] + 1)
  BY <1>1, <1>2, CoversAny DEF PrefixOf
<1> QED BY <1>3, Zenon DEF LogInvAt

\* openTask's restore leaves a store that covers the whole changelog.
LEMMA RestoreTask ==
  ASSUME TypeOK, NEW q \in Partitions, LogInvAt(q), NEW R, q \in R,
         RestoreTasks(R)
  PROVE  /\ Covers(db'[q], changelog[q], Len(changelog[q]))
         /\ checkpoint'[q] < Len(changelog[q])
<1> DEFINE log == changelog[q]
           c == checkpoint[q]
<1>1. db'[q] = RestoredDB(log, c, db[q]) /\ checkpoint'[q] = RestoredCheckpoint(log, c)
  BY Zenon DEF RestoreTasks
<1>2. /\ log \in Seq([key : Keys, val : SUBSET Offsets]) /\ c \in Int
      /\ Len(log) \in Nat /\ db[q] \in [Keys -> SUBSET Offsets]
  BY Zenon, TypeAt DEF Records
<1>3. Monotone(log) /\ Covers(db[q], log, c + 1) /\ c < Len(log)
  BY TypeAt, PrefixMonotone, Zenon DEF LogInvAt
<1>4. Covers(RestoredDB(log, c, db[q]), log, Len(log))
  BY Zenon, <1>2, <1>3, RestoreCovers
<1>5. RestoredCheckpoint(log, c) < Len(log)
  BY <1>2, <1>3 DEF RestoredCheckpoint
<1> QED BY <1>1, <1>4, <1>5, Zenon

\* openTask and the start of the loop preserve the log invariant: a restored
\* store covers its changelog.
LEMMA StartLog ==
  ASSUME TypeOK, TypeOK', NEW q \in Partitions, LogInvAt(q),
         NEW R \in SUBSET Partitions, NEW opened \in SUBSET R,
         RestoreTasks(R), StartLoop(opened), UNCHANGED changelog
  PROVE  LogInvAt(q)'
<1>1. collector'[q] = <<>> /\ open' = opened /\ pc' = "poll"
  BY Zenon DEF StartLoop
<1>2. /\ changelog[q] \in Seq(Records) /\ PrefixOf(changelog[q], Log(q))
      /\ Monotone(Log(q))
  BY TypeAt, Zenon DEF LogInvAt
<1>3. Monotone(changelog[q]) /\ Log(q)' = changelog[q]
  BY <1>1, <1>2, PrefixMonotone DEF Log
<1>4. /\ Covers(db'[q], changelog[q], checkpoint'[q] + 1)
      /\ checkpoint'[q] < Len(changelog[q])
  <2>1. CASE q \in R
    <3>1. checkpoint'[q] + 1 \in Int /\ Len(changelog[q]) \in Nat
      <4>1. checkpoint'[q] \in Int
        BY Zenon DEF TypeOK
      <4> QED BY <4>1, <1>2
    <3>2. Covers(db'[q], changelog[q], Len(changelog[q])) /\ checkpoint'[q] < Len(changelog[q])
      BY <2>1, RestoreTask, Zenon
    <3> QED BY <3>1, <3>2, CoversAny, Zenon
  <2>2. CASE q \notin R
    BY <2>2, Zenon DEF RestoreTasks, LogInvAt
  <2> QED BY <2>1, <2>2, Zenon
<1>5. CASE q \in opened
  <2>1. Covers(db'[q], changelog[q], Len(changelog[q]))
    BY <1>5, RestoreTask, Zenon
  <2> QED BY <1>1, <1>3, <1>4, <1>5, <2>1, LogOpen, Zenon
<1>6. CASE q \notin opened
  BY <1>1, <1>2, <1>4, <1>6, LogClosed, Zenon
<1> QED BY <1>5, <1>6, Zenon

\* One fold: the new mutation ends the log of p, and the store covers it.
LEMMA FoldLog ==
  ASSUME TypeOK, NEW p \in Partitions, LogInvAt(p), p \in open, HasNext(p),
         Fold(p), UNCHANGED <<changelog, checkpoint, open, pc>>
  PROVE  /\ Monotone(Log(p)') /\ Covers(db'[p], Log(p)', Len(Log(p)'))
         /\ PrefixOf(Log(p), Log(p)')
         /\ InLog(Log(p)', KeyOf[p][next[p]], next[p])
         /\ \A q \in Partitions \ {p} :
              db'[q] = db[q] /\ collector'[q] = collector[q]
<1> DEFINE k == KeyOf[p][next[p]]
           v == db[p][k] \cup {next[p]}
           r == [key |-> k, val |-> v]
<1>1. next[p] \in Offsets
  BY DEF TypeOK, HasNext, Offsets
<1>2. k \in Keys
  BY <1>1, Zenon
<1>3. v \in SUBSET Offsets
  BY <1>1, <1>2 DEF TypeOK
<1>4. r \in Records
  BY <1>2, <1>3, Zenon DEF Records
<1>5. db' = [db EXCEPT ![p][k] = v] /\ collector' = [collector EXCEPT ![p] = Append(@, r)]
  BY Zenon DEF Fold
<1>6. db[p][k] \subseteq v /\ next[p] \in v /\ r.key = k /\ r.val = v
  BY Zenon
<1> HIDE DEF k, v, r
<1>7. /\ collector'[p] = Append(collector[p], r) /\ db'[p] = [db[p] EXCEPT ![k] = v]
      /\ \A q \in Partitions \ {p} :
           db'[q] = db[q] /\ collector'[q] = collector[q]
  BY <1>5, Zenon DEF TypeOK
<1>8. Log(p)' = Append(Log(p), r)
  <2>1. Log(p)' = changelog[p] \o Append(collector[p], r)
    BY <1>7, Zenon DEF Log
  <2>2. changelog[p] \in Seq(Records) /\ collector[p] \in Seq(Records)
    BY TypeAt, Zenon
  <2>3. ASSUME NEW s \in Seq(Records), NEW t \in Seq(Records)
        PROVE  s \o Append(t, r) = Append(s \o t, r)
    BY <1>4, ConcatAppend
  <2>4. changelog[p] \o Append(collector[p], r) = Append(changelog[p] \o collector[p], r)
    BY <2>2, <2>3, Zenon
  <2> QED BY <2>1, <2>4, Zenon DEF Log
<1>9. /\ Len(Log(p)') = Len(Log(p)) + 1 /\ Log(p)'[Len(Log(p)) + 1] = r
      /\ \A i \in 1 .. Len(Log(p)) : Log(p)'[i] = Log(p)[i]
  BY <1>4, <1>8, TypeAt, AppendParts
<1>10. Len(Log(p)) \in Nat
  BY TypeAt, Zenon
<1>11. PrefixOf(Log(p), Log(p)')
  BY <1>9, <1>10 DEF PrefixOf
<1>12. InLog(Log(p)', k, next[p])
  BY <1>6, <1>9, <1>10 DEF InLog
<1>13. Monotone(Log(p)') /\ Covers(db'[p], Log(p)', Len(Log(p)'))
  <2>1. /\ Log(p) \in Seq([key : Keys, val : SUBSET Offsets])
        /\ db[p] \in [Keys -> SUBSET Offsets]
    BY Zenon, TypeAt DEF Records
  <2>2. Monotone(Log(p)) /\ Covers(db[p], Log(p), Len(Log(p)))
    BY Zenon DEF LogInvAt
  <2>3. LET log2 == Append(Log(p), [key |-> k, val |-> v])
        IN  Monotone(log2) /\ Covers([db[p] EXCEPT ![k] = v], log2, Len(log2))
    BY Zenon, <1>2, <1>3, <1>6, <2>1, <2>2, AppendCovers
  <2> QED BY <1>7, <1>8, <2>3, Zenon DEF r
<1> QED BY <1>7, <1>11, <1>12, <1>13, Zenon DEF k

\* A flush, whole or part: the changelog grows by a prefix of the collector,
\* the collector is empty, and the store still covers what is left of the log.
LEMMA FlushLog ==
  ASSUME TypeOK, NEW p \in Partitions, LogInvAt(p), p \in open,
         \/ changelog' = [changelog EXCEPT ![p] = @ \o collector[p]]
         \/ \E n \in 0 .. Len(collector[p]) : FlushedPart(p, n),
         collector' = [collector EXCEPT ![p] = <<>>]
  PROVE  /\ changelog'[p] \in Seq(Records) /\ collector'[p] = <<>>
         /\ Log(p)' = changelog'[p]
         /\ PrefixOf(changelog[p], changelog'[p])
         /\ PrefixOf(changelog'[p], Log(p))
         /\ Monotone(changelog'[p])
         /\ Covers(db[p], changelog'[p], Len(changelog'[p]))
         /\ checkpoint[p] < Len(changelog'[p])
         /\ \A q \in Partitions \ {p} :
              changelog'[q] = changelog[q] /\ collector'[q] = collector[q]
<1> DEFINE s == changelog[p]
           t == collector[p]
<1>1. s \in Seq(Records) /\ t \in Seq(Records) /\ Len(t) \in Nat
  BY TypeAt, Zenon
<1>2. /\ collector'[p] = <<>>
      /\ \A q \in Partitions \ {p} :
           changelog'[q] = changelog[q] /\ collector'[q] = collector[q]
  BY Zenon DEF TypeOK, FlushedPart
<1>3. /\ changelog'[p] \in Seq(Records)
      /\ PrefixOf(s, changelog'[p]) /\ PrefixOf(changelog'[p], s \o t)
  <2>1. CASE changelog' = [changelog EXCEPT ![p] = @ \o collector[p]]
    <3>1. changelog'[p] = s \o t
      BY <2>1, Zenon DEF TypeOK
    <3>2. s \o t \in Seq(Records) /\ PrefixOf(s, s \o t)
      BY <1>1, ConcatPrefix
    <3>3. PrefixOf(s \o t, s \o t)
      <4>1. Len(s \o t) \in Nat
        BY Zenon, <3>2 DEF PrefixOf
      <4> QED BY <4>1, PrefixSelf, Zenon
    <3> QED BY <3>1, <3>2, <3>3, Zenon
  <2>2. CASE \E n \in 0 .. Len(collector[p]) : FlushedPart(p, n)
    <3>1. PICK n \in 0 .. Len(t) : FlushedPart(p, n)
      BY <2>2, Zenon
    <3>2. changelog'[p] = s \o SubSeq(t, 1, n)
      BY Zenon, <3>1 DEF FlushedPart, TypeOK
    <3>3. /\ s \o SubSeq(t, 1, n) \in Seq(Records)
          /\ PrefixOf(s \o SubSeq(t, 1, n), s \o t)
          /\ PrefixOf(s, s \o SubSeq(t, 1, n))
      BY <1>1, PartPrefix, Zenon
    <3> QED BY <3>2, <3>3, Zenon
  <2> QED BY Zenon, <2>1, <2>2
<1>4. Log(p)' = changelog'[p]
  <2>1. Log(p)' = changelog'[p] \o <<>> /\ changelog'[p] \in Seq(Records)
    BY Zenon, <1>2, <1>3 DEF Log
  <2> QED BY <2>1
<1>5. Monotone(changelog'[p]) /\ Covers(db[p], changelog'[p], Len(changelog'[p]))
  BY Zenon, <1>3, PrefixMonotone, PrefixCovers DEF Log, LogInvAt
<1>6. checkpoint[p] < Len(changelog'[p])
  <2>1. checkpoint[p] < Len(s) /\ checkpoint[p] \in Int
    BY TypeAt, Zenon DEF LogInvAt
  <2> QED BY <2>1, <1>3 DEF PrefixOf
<1> QED BY Zenon, <1>2, <1>3, <1>4, <1>5, <1>6 DEF Log

\* The steps that touch neither store, log nor task, and do not end the process.
QuietStep ==
  UNCHANGED <<changelog, collector, disk, open>> /\ (pc' = "down" => pc = "down")

\* The steps of the loop that touch no store, collector or changelog.
LEMMA QuietSteps ==
  ASSUME \/ Poll \/ EmptyPoll \/ BatchFailed \/ ProcessDone \/ FlushDone
         \/ Produce \/ ProduceFail \/ Commit \/ NotDue \/ IntervalCommit
         \/ CommitFail \/ Cancel \/ HealthTrip \/ Close \/ CloseRunning
         \/ \E p \in Partitions : ProcessNoTask(p)
         \/ UNCHANGED vars
  PROVE  QuietStep
BY Zenon DEF QuietStep, broker, disk, vars, Poll, EmptyPoll, BatchFailed, ProcessDone,
  FlushDone, Produce, ProduceFail, Commit, NotDue, IntervalCommit, CommitFail,
  Cancel, HealthTrip, Close, CloseRunning, CloseClient, ProcessNoTask

\* Every step keeps the logs monotone and covered by the stores.
LEMMA NextLog ==
  ASSUME Inv, TypeOK', [Next]_vars, NEW q \in Partitions
  PROVE  LogInvAt(q)'
<1> USE DEF disk
<1>0. TypeOK /\ \A p \in Partitions : LogInvAt(p)
  BY Zenon DEF Inv
<1>1. CASE Restart
  <2>1. RestoreTasks(Partitions) /\ StartLoop(Partitions) /\ UNCHANGED changelog
    BY <1>1, Zenon DEF Restart, broker
  <2> QED BY <1>0, <2>1, StartLog, Zenon
<1>2. CASE RestartPartly
  <2>1. PICK R \in SUBSET Partitions, opened \in SUBSET Partitions :
          opened \subseteq R /\ RestoreTasks(R) /\ StartLoop(opened)
    BY <1>2, Zenon DEF RestartPartly
  <2>2. UNCHANGED changelog
    BY <1>2, Zenon DEF RestartPartly, broker
  <2> QED BY <1>0, <2>1, <2>2, StartLog, Zenon
<1>3. ASSUME NEW p \in Partitions, ProcessRecord(p) \/ ProcessFail(p)
      PROVE  LogInvAt(q)'
  <2>1. /\ HasNext(p) /\ p \in open /\ UNCHANGED <<changelog, checkpoint, open, pc>>
        /\ Fold(p) \/ UNCHANGED <<db, collector>>
    BY <1>3, Zenon DEF ProcessRecord, ProcessFail, broker
  <2>2. CASE Fold(p)
    <3>1. /\ Monotone(Log(p)') /\ Covers(db'[p], Log(p)', Len(Log(p)'))
          /\ \A x \in Partitions \ {p} :
               db'[x] = db[x] /\ collector'[x] = collector[x]
      BY <1>0, <2>1, <2>2, FoldLog, Zenon
    <3>2. CASE q = p
      <4>1. pc' # "down" /\ p \in open' /\ checkpoint'[p] < Len(changelog'[p])
        BY <1>0, <2>1, Zenon DEF LogInvAt
      <4> QED BY <1>0, <3>1, <3>2, <4>1, LogOpen, Zenon
    <3>3. CASE q # p
      BY <1>0, <2>1, <3>1, <3>3, LogFrame, Zenon
    <3> QED BY <3>2, <3>3, Zenon
  <2>3. CASE UNCHANGED <<db, collector>>
    BY <1>0, <2>1, <2>3, LogFrame, Zenon
  <2> QED BY <2>1, <2>2, <2>3, Zenon
<1>4. ASSUME NEW p \in Partitions, FlushTask(p) \/ FlushFail(p)
      PROVE  LogInvAt(q)'
  <2>1. /\ p \in open /\ UNCHANGED <<db, checkpoint, open>> /\ pc' # "down"
        /\ collector' = [collector EXCEPT ![p] = <<>>]
        /\ \/ changelog' = [changelog EXCEPT ![p] = @ \o collector[p]]
           \/ \E n \in 0 .. Len(collector[p]) : FlushedPart(p, n)
    BY Zenon, <1>4 DEF FlushTask, FlushFail
  <2>2. /\ Log(p)' = changelog'[p]
        /\ Monotone(changelog'[p])
        /\ Covers(db[p], changelog'[p], Len(changelog'[p]))
        /\ checkpoint[p] < Len(changelog'[p])
        /\ \A x \in Partitions \ {p} :
             changelog'[x] = changelog[x] /\ collector'[x] = collector[x]
    BY Zenon, <1>0, <2>1, FlushLog
  <2>3. CASE q = p
    BY <1>0, <2>1, <2>2, <2>3, LogOpen, Zenon
  <2>4. CASE q # p
    BY <1>0, <2>1, <2>2, <2>4, LogFrame, Zenon
  <2> QED BY <2>3, <2>4, Zenon
<1>5. ASSUME NEW p \in Partitions, CloseTask(p) PROVE LogInvAt(q)'
  <2>1. /\ p \in open /\ open' = open \ {p} /\ pc = "closing" /\ pc' = pc
        /\ collector' = [collector EXCEPT ![p] = <<>>]
        /\ \E n \in 0 .. Len(collector[p]) : FlushedPart(p, n)
        /\ CheckpointTask(p, changelog'[p])
    BY <1>5, Zenon DEF CloseTask
  <2>2. /\ changelog'[p] \in Seq(Records) /\ collector'[p] = <<>>
        /\ PrefixOf(changelog'[p], Log(p))
        /\ Monotone(changelog'[p])
        /\ Covers(db[p], changelog'[p], Len(changelog'[p]))
        /\ checkpoint[p] < Len(changelog'[p])
        /\ \A x \in Partitions \ {p} :
             changelog'[x] = changelog[x] /\ collector'[x] = collector[x]
    BY Zenon, <1>0, <2>1, FlushLog
  <2>3. CASE q = p
    <3>1. Len(changelog'[p]) \in Nat
      BY <2>2
    <3>2. /\ checkpoint'[p] < Len(changelog'[p])
          /\ Covers(db'[p], changelog'[p], Len(changelog'[p]))
      <4>1. CASE UNCHANGED disk
        BY <4>1, <2>2, Zenon
      <4>2. CASE /\ db' = [db EXCEPT ![p] = RestoredDB(changelog'[p], MaxInt64, @)]
                 /\ checkpoint' = [checkpoint EXCEPT ![p] = Len(changelog'[p]) - 1]
        <5>1. /\ changelog'[p] \in Seq([key : Keys, val : SUBSET Offsets])
              /\ db[p] \in [Keys -> SUBSET Offsets] /\ MaxInt64 \in Int
              /\ MaxInt64 + 1 \in Int
          BY <1>0, <2>2, MaxInt64Assumption DEF TypeOK, Records
        <5>2. Covers(db[p], changelog'[p], MaxInt64 + 1)
          BY <2>2, <3>1, <5>1, CoversAny, Zenon
        <5>3. Covers(RestoredDB(changelog'[p], MaxInt64, db[p]), changelog'[p],
                     Len(changelog'[p]))
          BY Zenon, <2>2, <5>1, <5>2, RestoreCovers
        <5>4. /\ db'[p] = RestoredDB(changelog'[p], MaxInt64, db[p])
              /\ checkpoint'[p] = Len(changelog'[p]) - 1
          BY <1>0, <4>2, Zenon DEF TypeOK
        <5> QED BY <3>1, <5>3, <5>4
      <4> QED BY <2>1, <4>1, <4>2, Zenon DEF CheckpointTask
    <3>3. checkpoint'[p] + 1 \in Int
      <4>1. checkpoint'[p] \in Int
        BY Zenon DEF TypeOK
      <4> QED BY <4>1
    <3>4. Covers(db'[p], changelog'[p], checkpoint'[p] + 1)
      BY <3>1, <3>2, <3>3, CoversAny, Zenon
    <3>5. p \notin open' /\ Monotone(Log(p))
      BY <1>0, <2>1, Zenon DEF LogInvAt
    <3> QED BY Zenon, <1>0, <2>2, <2>3, <3>2, <3>4, <3>5, LogClosed
  <2>4. CASE q # p
    <3>1. db'[q] = db[q] /\ checkpoint'[q] = checkpoint[q]
      BY Zenon, <1>0, <2>1, <2>4 DEF CheckpointTask, TypeOK
    <3> QED BY Zenon, <1>0, <2>1, <2>2, <2>4, <3>1, LogFrame
  <2> QED BY <2>3, <2>4, Zenon
<1>6. CASE RevokeCommit \/ Crash
  <2>1. Exit /\ UNCHANGED <<changelog, db, checkpoint>>
    BY <1>6, Zenon DEF RevokeCommit, Crash, broker
  <2>2. q \notin open' /\ collector'[q] = <<>>
    BY <2>1, Zenon DEF Exit
  <2>3. /\ PrefixOf(changelog[q], Log(q)) /\ Monotone(Log(q))
        /\ checkpoint[q] < Len(changelog[q])
        /\ Covers(db[q], changelog[q], checkpoint[q] + 1)
    BY <1>0, TypeAt, Zenon DEF LogInvAt
  <2> QED BY Zenon, <1>0, <2>1, <2>2, <2>3, LogClosed
<1>7. ASSUME NEW p \in Partitions, LoseDisk(p) PROVE LogInvAt(q)'
  <2>1. /\ pc = "down" /\ UNCHANGED <<changelog, collector, open, pc>>
        /\ db' = [db EXCEPT ![p] = EmptyStore]
        /\ checkpoint' = [checkpoint EXCEPT ![p] = -1]
    BY <1>7, Zenon DEF LoseDisk, broker
  <2>2. CASE q = p
    <3>1. /\ p \notin open' /\ collector'[p] = <<>> /\ Monotone(Log(p))
          /\ PrefixOf(changelog'[p], Log(p))
      BY <1>0, <2>1, TypeAt, Zenon DEF LogInvAt
    <3>2. checkpoint'[p] = -1 /\ Len(changelog'[p]) \in Nat
      BY <1>0, <2>1, TypeAt, Zenon DEF TypeOK
    <3>3. Covers(db'[p], changelog'[p], checkpoint'[p] + 1)
      BY <3>2 DEF Covers
    <3>4. checkpoint'[p] < Len(changelog'[p])
      BY <3>2
    <3> QED BY <1>0, <2>2, <3>1, <3>3, <3>4, LogClosed, Zenon
  <2>3. CASE q # p
    BY <1>0, <2>1, <2>3, LogFrame, Zenon DEF TypeOK
  <2> QED BY <2>2, <2>3, Zenon
<1>8. ASSUME QuietStep PROVE LogInvAt(q)'
  BY <1>0, <1>8, LogFrame, Zenon DEF QuietStep
<1> QED
  BY <1>1, <1>2, <1>3, <1>4, <1>5, <1>6, <1>7, <1>8, QuietSteps, Zenon
  DEF Next, Progress, Disruption

-----------------------------------------------------------------------------
(* What is on the broker stays there.                                      *)

\* Changelogs and sink only grow.
LEMMA NextGrows ==
  ASSUME Inv, [Next]_vars, NEW q \in Partitions
  PROVE  PrefixOf(changelog[q], changelog'[q]) /\ sink \subseteq sink'
<1>0. TypeOK /\ \A p \in Partitions : LogInvAt(p)
  BY Zenon DEF Inv
<1>1. sink \subseteq sink'
  BY Zenon DEF Next, Progress, Disruption, vars, broker, Restart, RestartPartly, Poll,
    EmptyPoll, ProcessRecord, ProcessNoTask, ProcessFail, BatchFailed,
    ProcessDone, FlushTask, FlushFail, FlushDone, Produce, ProduceFail, Commit,
    NotDue, IntervalCommit, CommitFail, Cancel, HealthTrip, Close,
    CloseRunning, CloseClient, CloseTask, RevokeCommit, Crash, LoseDisk
<1>2. ASSUME NEW p \in Partitions, FlushTask(p) \/ FlushFail(p) \/ CloseTask(p)
      PROVE  PrefixOf(changelog[q], changelog'[q])
  <2>1. /\ p \in open /\ collector' = [collector EXCEPT ![p] = <<>>]
        /\ \/ changelog' = [changelog EXCEPT ![p] = @ \o collector[p]]
           \/ \E n \in 0 .. Len(collector[p]) : FlushedPart(p, n)
    BY Zenon, <1>2 DEF FlushTask, FlushFail, CloseTask
  <2>2. /\ PrefixOf(changelog[p], changelog'[p])
        /\ \A x \in Partitions \ {p} : changelog'[x] = changelog[x]
    BY Zenon, <1>0, <2>1, FlushLog
  <2>3. Len(changelog[q]) \in Nat
    BY <1>0, TypeAt, Zenon
  <2> QED BY Zenon, <2>2, <2>3, PrefixSelf
<1>3. CASE UNCHANGED changelog
  <2>1. Len(changelog[q]) \in Nat
    BY <1>0, TypeAt, Zenon
  <2> QED BY <1>1, <1>3, <2>1, PrefixSelf, Zenon
<1>4. \/ UNCHANGED changelog
      \/ \E p \in Partitions : FlushTask(p) \/ FlushFail(p) \/ CloseTask(p)
  BY Zenon DEF Next, Progress, Disruption, vars, broker, Restart, RestartPartly, Poll,
    EmptyPoll, ProcessRecord, ProcessNoTask, ProcessFail, BatchFailed,
    ProcessDone, FlushDone, Produce, ProduceFail, Commit, NotDue,
    IntervalCommit, CommitFail, Cancel, HealthTrip, Close, CloseRunning,
    CloseClient, RevokeCommit, Crash, LoseDisk
<1> QED BY <1>1, <1>2, <1>3, <1>4, Zenon

\* What is done stays done.
LEMMA DoneStays ==
  ASSUME Inv, [Next]_vars, NEW q \in Partitions, NEW o, Done(q, o)
  PROVE  Done(q, o)'
<1>1. PrefixOf(changelog[q], changelog'[q]) /\ sink \subseteq sink'
  BY NextGrows, Zenon
<1>2. InLog(changelog'[q], KeyOf[q][o], o)
  BY <1>1, PrefixInLog, Zenon DEF Done
<1> QED BY <1>1, <1>2, Zenon DEF Done

-----------------------------------------------------------------------------
(* The batch in hand.                                                      *)

\* The type invariant of the offsets of one partition.
LEMMA OffsetTypes ==
  ASSUME TypeOK, NEW q \in Partitions
  PROVE  /\ batchStart[q] \in 0 .. End /\ next[q] \in 0 .. End
         /\ batchEnd[q] \in 0 .. End /\ committed[q] \in 0 .. End
         /\ pending[q] \in -1 .. End - 1
BY Zenon DEF TypeOK

\* The same offsets as integers, for steps that only calculate with them.
LEMMA OffsetInts ==
  ASSUME TypeOK, NEW q \in Partitions
  PROVE  /\ batchStart[q] \in Int /\ next[q] \in Int /\ batchEnd[q] \in Int
         /\ committed[q] \in Int /\ pending[q] \in Int
BY OffsetTypes

\* Every step keeps the batch's bounds in order and its folds in the log.
LEMMA NextBatch ==
  ASSUME Inv, TypeOK', [Next]_vars, NEW q \in Partitions
  PROVE  BatchInvAt(q)'
<1> USE DEF broker, disk, cursor
<1>0. TypeOK /\ \A p \in Partitions : LogInvAt(p) /\ BatchInvAt(p)
  BY Zenon DEF Inv
<1>t. /\ batchStart[q] \in Int /\ next[q] \in Int /\ batchEnd[q] \in Int
      /\ committed[q] \in Int /\ pending[q] \in Int
  BY <1>0, OffsetInts, Zenon
<1>1. CASE Restart \/ RestartPartly
  <2>1. /\ pc' = "poll" /\ batchStart' = committed /\ next' = committed
        /\ batchEnd' = committed
    BY Zenon, <1>1 DEF Restart, RestartPartly, StartLoop
  <2>2. /\ batchStart'[q] = committed[q] /\ next'[q] = committed[q]
        /\ batchEnd'[q] = committed[q]
    BY Zenon, <2>1
  <2>3. \A o \in Offsets : ~ (committed[q] <= o /\ o < committed[q])
    BY <1>t DEF Offsets
  <2> QED BY <2>1, <2>2, <2>3, <1>t DEF BatchInvAt
<1>2. CASE Poll
  <2>1. next[q] = batchStart[q] /\ next[q] <= batchEnd'[q]
    <3>1. batchStart[q] <= next[q] /\ next[q] <= batchEnd[q] /\ batchStart[q] = batchEnd[q]
      BY <1>0, <1>2, Zenon DEF Poll, BatchInvAt
    <3>2. batchEnd[q] <= batchEnd'[q] /\ batchEnd'[q] \in 0 .. End
      BY <1>2, Zenon DEF Poll
    <3> QED BY <1>0, <3>1, <3>2, <1>t
  <2>2. \A o \in Offsets : ~ (next[q] <= o /\ o < next[q])
    BY <1>0, <1>t DEF Offsets
  <2>3. next'[q] = next[q] /\ batchStart'[q] = next[q] /\ pc' = "process"
    BY <1>2, <2>1, Zenon DEF Poll
  <2>4. batchStart'[q] <= next'[q]
    BY <1>0, <2>3, <1>t
  <2> QED BY <2>1, <2>2, <2>3, <2>4, Zenon DEF BatchInvAt
<1>3. ASSUME NEW p \in Partitions, ProcessRecord(p) PROVE BatchInvAt(q)'
  <2>1. /\ HasNext(p) /\ p \in open /\ Fold(p)
        /\ UNCHANGED <<changelog, checkpoint, open, pc, batchStart, batchEnd>>
        /\ next' = [next EXCEPT ![p] = @ + 1]
    BY <1>3, Zenon DEF ProcessRecord
  <2>2. /\ PrefixOf(Log(p), Log(p)') /\ InLog(Log(p)', KeyOf[p][next[p]], next[p])
        /\ \A x \in Partitions \ {p} : collector'[x] = collector[x]
    BY Zenon, <1>0, <2>1, FoldLog
  <2>3. CASE q = p
    <3>1. next'[p] = next[p] + 1 /\ pc = "process" /\ next[p] < batchEnd[p]
      BY <1>0, <2>1, Zenon DEF TypeOK, HasNext
    <3>2. ASSUME NEW o \in Offsets, batchStart[p] <= o, o < next'[p]
          PROVE  InLog(Log(p)', KeyOf[p][o], o)
      <4>1. CASE o = next[p]
        BY <4>1, <2>2, Zenon
      <4>2. CASE o # next[p]
        <5>1. o < next[p]
          BY <1>0, <3>1, <3>2, <4>2, OffsetTypes DEF Offsets
        <5>2. InLog(Log(p), KeyOf[p][o], o)
          BY <1>0, <3>1, <3>2, <5>1, Zenon DEF BatchInvAt
        <5> QED BY <5>2, <2>2, PrefixInLog, Zenon
      <4> QED BY <4>1, <4>2, Zenon
    <3>3. batchStart[p] <= next'[p] /\ next'[p] <= batchEnd[p]
      BY <1>0, <3>1, OffsetTypes DEF BatchInvAt
    <3> QED BY <2>1, <2>3, <3>1, <3>2, <3>3, Zenon DEF BatchInvAt
  <2>4. CASE q # p
    <3>1. next'[q] = next[q] /\ Log(q)' = Log(q)
      BY Zenon, <1>0, <2>1, <2>2, <2>4 DEF TypeOK, Log
    <3> QED BY Zenon, <1>0, <2>1, <2>2, <2>4, <3>1 DEF BatchInvAt
  <2> QED BY <2>3, <2>4, Zenon
<1>4. ASSUME NEW p \in Partitions, ProcessFail(p) PROVE BatchInvAt(q)'
  <2>1. /\ HasNext(p) /\ p \in open
        /\ Fold(p) \/ UNCHANGED <<db, collector>>
        /\ UNCHANGED <<changelog, checkpoint, open, pc, batchStart, batchEnd, next>>
    BY <1>4, Zenon DEF ProcessFail
  <2>2. PrefixOf(Log(q), Log(q)')
    <3>1. CASE Fold(p) /\ q = p
      BY Zenon, <1>0, <2>1, <3>1, FoldLog
    <3>2. CASE ~ (Fold(p) /\ q = p)
      <4>1. collector'[q] = collector[q]
        BY <1>0, <2>1, <3>2, FoldLog, Zenon
      <4>2. Log(q)' = Log(q) /\ Len(Log(q)) \in Nat
        BY Zenon, <1>0, <2>1, <4>1, TypeAt DEF Log
      <4> QED BY <4>2, PrefixSelf, Zenon
    <3> QED BY <3>1, <3>2, Zenon
  <2>3. pc = "process"
    BY <2>1, Zenon DEF HasNext
  <2>4. ASSUME NEW o \in Offsets, batchStart[q] <= o, o < next[q]
        PROVE  InLog(Log(q)', KeyOf[q][o], o)
    <3>1. InLog(Log(q), KeyOf[q][o], o)
      BY <1>0, <2>3, <2>4, Zenon DEF BatchInvAt
    <3> QED BY <3>1, <2>2, PrefixInLog, Zenon
  <2> QED BY <1>0, <2>1, <2>3, <2>4, Zenon DEF BatchInvAt
<1>5. ASSUME NEW p \in Partitions, FlushTask(p) PROVE BatchInvAt(q)'
  <2>1. /\ p \in open /\ changelog' = [changelog EXCEPT ![p] = @ \o collector[p]]
        /\ collector' = [collector EXCEPT ![p] = <<>>]
        /\ UNCHANGED <<pc, batchStart, batchEnd, next>> /\ pc = "postBatch"
    BY <1>5, Zenon DEF FlushTask
  <2>2. Log(q)' = Log(q)
    <3>1. CASE q = p
      <4>1. changelog'[p] = changelog[p] \o collector[p]
        BY Zenon, <1>0, <2>1 DEF TypeOK
      <4>2. Log(p)' = changelog'[p]
        BY Zenon, <1>0, <2>1, FlushLog
      <4> QED BY <3>1, <4>1, <4>2, Zenon DEF Log
    <3>2. CASE q # p
      BY Zenon, <1>0, <2>1, <3>2 DEF TypeOK, Log
    <3> QED BY <3>1, <3>2, Zenon
  <2> QED BY <1>0, <2>1, <2>2, Zenon DEF BatchInvAt
<1>6. CASE FlushDone
  <2>1. collector[q] = <<>>
    BY Zenon, <1>0, <1>6 DEF FlushDone, LogInvAt
  <2>2. Log(q)' = Log(q)
    BY <1>6, Zenon DEF FlushDone, Log
  <2> QED BY Zenon, <1>0, <1>6, <2>1, <2>2 DEF FlushDone, BatchInvAt
<1>7. CASE ProcessDone \/ \E p \in Partitions : ProcessNoTask(p)
  <2>1. Log(q)' = Log(q)
    BY Zenon, <1>7 DEF ProcessDone, ProcessNoTask, Log
  <2> QED BY Zenon, <1>0, <1>7, <2>1 DEF ProcessDone, ProcessNoTask, HasNext, BatchInvAt
<1>8. CASE Produce
  BY Zenon, <1>0, <1>8, <1>t DEF Produce, BatchInvAt
<1>9. CASE Commit \/ NotDue \/ IntervalCommit \/ CommitFail
  BY <1>0, <1>9, Zenon DEF Commit, NotDue, IntervalCommit, CommitFail, BatchInvAt
<1>10. CASE \/ BatchFailed \/ ProduceFail \/ Cancel \/ HealthTrip \/ Close
            \/ CloseRunning \/ \E p \in Partitions : FlushFail(p) \/ CloseTask(p)
  <2>1. pc' \in {"stopped", "closing"} /\ UNCHANGED <<batchStart, next, batchEnd>>
    BY Zenon, <1>10 DEF BatchFailed, ProduceFail, Cancel, HealthTrip, Close,
      CloseRunning, CloseClient, FlushFail, CloseTask
  <2> QED BY Zenon, <1>0, <2>1 DEF BatchInvAt
<1>11. CASE RevokeCommit \/ Crash
  BY <1>11 DEF RevokeCommit, Crash, Exit, BatchInvAt
<1>12. ASSUME NEW p \in Partitions, LoseDisk(p) PROVE BatchInvAt(q)'
  BY Zenon, <1>0, <1>12 DEF LoseDisk, BatchInvAt
<1>13. CASE EmptyPoll \/ UNCHANGED vars
  <2>1. Log(q)' = Log(q)
    BY Zenon, <1>13 DEF EmptyPoll, vars, Log
  <2> QED BY Zenon, <1>0, <1>13, <2>1 DEF EmptyPoll, vars, BatchInvAt
<1> QED
  BY <1>1, <1>2, <1>3, <1>4, <1>5, <1>6, <1>7, <1>8, <1>9, <1>10, <1>11, <1>12,
     <1>13, Zenon
  DEF Next, Progress, Disruption

-----------------------------------------------------------------------------
(* Offsets.                                                                *)

\* A commit, whole, part or none, leaves the committed offset of q or moves it
\* forward to the start of the batch in hand.
LEMMA CommitMoves ==
  ASSUME TypeOK, NEW q \in Partitions, OffsetInvAt(q), NEW P, CommitOffsets(P)
  PROVE  /\ \/ committed'[q] = committed[q]
            \/ pc # "down" /\ committed'[q] = batchStart[q]
         /\ committed[q] <= committed'[q]
<1>1. committed'[q] = IF q \in P /\ pending[q] # -1 THEN pending[q] + 1 ELSE committed[q]
  BY Zenon DEF CommitOffsets
<1>2. batchStart[q] \in Int /\ committed[q] \in Int /\ pending[q] \in Int
  BY Zenon, OffsetInts
<1>3. /\ pc # "down" => committed[q] <= batchStart[q]
      /\ pending[q] # -1 => pc # "down" /\ pending[q] + 1 = batchStart[q]
  BY Zenon DEF OffsetInvAt
<1> QED BY <1>1, <1>2, <1>3

\* The steps that commit offsets.
CommitStep == \E P \in SUBSET Partitions : CommitOffsets(P)

\* A step either commits or leaves the committed offsets alone.
LEMMA CommitSteps ==
  ASSUME [Next]_vars
  PROVE  CommitStep \/ UNCHANGED committed
<1>1. CommitOK \/ CommitError => CommitStep
  BY Zenon DEF CommitOK, CommitError, CommitStep
<1>2. RevokeCommit => CommitStep
  BY Zenon DEF RevokeCommit, CommitStep
<1>3. \/ CommitOK \/ CommitError \/ RevokeCommit \/ UNCHANGED committed
  BY Zenon DEF Next, Progress, Disruption, vars, broker, Restart, RestartPartly, Poll,
    EmptyPoll, ProcessRecord, ProcessNoTask, ProcessFail, BatchFailed,
    ProcessDone, FlushTask, FlushFail, FlushDone, Produce, ProduceFail, Commit,
    NotDue, IntervalCommit, CommitFail, Cancel, HealthTrip, Close,
    CloseRunning, CloseClient, CloseTask, Crash, LoseDisk
<1> QED BY <1>1, <1>2, <1>3, Zenon

\* No step moves a committed offset back, or past an input that is not done.
LEMMA NextCommitted ==
  ASSUME Inv, [Next]_vars, NEW q \in Partitions
  PROVE  /\ committed[q] <= committed'[q]
         /\ \/ committed'[q] = committed[q]
            \/ pc # "down" /\ committed'[q] = batchStart[q]
         /\ \A o \in Offsets : o < committed'[q] => Done(q, o)
<1>0. TypeOK /\ OffsetInvAt(q)
  BY Zenon DEF Inv
<1>t. /\ batchStart[q] \in Int /\ next[q] \in Int /\ batchEnd[q] \in Int
      /\ committed[q] \in Int /\ pending[q] \in Int
  BY <1>0, OffsetInts, Zenon
<1>1. CASE UNCHANGED committed
  BY <1>0, <1>1, <1>t DEF OffsetInvAt
<1>2. CASE CommitStep
  <2>1. PICK P : CommitOffsets(P)
    BY <1>2, Zenon DEF CommitStep
  <2>2. /\ \/ committed'[q] = committed[q]
           \/ pc # "down" /\ committed'[q] = batchStart[q]
        /\ committed[q] <= committed'[q]
    BY <1>0, <2>1, CommitMoves, Zenon
  <2> QED BY <1>0, <2>2, Zenon DEF OffsetInvAt
<1> QED BY <1>1, <1>2, CommitSteps, Zenon

\* Every step keeps everything below the committed offset, and below the batch
\* in hand, done.
LEMMA NextOffset ==
  ASSUME Inv, TypeOK', [Next]_vars, NEW q \in Partitions
  PROVE  OffsetInvAt(q)'
<1> USE DEF broker, disk, cursor
<1>0. TypeOK /\ LogInvAt(q) /\ BatchInvAt(q) /\ OffsetInvAt(q)
  BY Zenon DEF Inv
<1>t. /\ batchStart[q] \in Int /\ next[q] \in Int /\ batchEnd[q] \in Int
      /\ committed[q] \in Int /\ pending[q] \in Int
  BY <1>0, OffsetInts, Zenon
<1>1. \A o \in Offsets : o < committed'[q] => Done(q, o)'
  BY NextCommitted, DoneStays, Zenon
<1>2. /\ committed[q] <= committed'[q]
      /\ \/ committed'[q] = committed[q]
         \/ pc # "down" /\ committed'[q] = batchStart[q]
  BY NextCommitted, Zenon
<1>3. ASSUME pc # "down", batchStart'[q] = batchStart[q],
             pending'[q] \in {-1, pending[q]}, pc' # "down"
      PROVE  OffsetInvAt(q)'
  <2>1. committed'[q] <= batchStart[q]
    BY <1>0, <1>2, <1>3, <1>t DEF OffsetInvAt
  <2>2. \A o \in Offsets : o < batchStart[q] => Done(q, o)'
    BY <1>0, <1>3, DoneStays, Zenon DEF OffsetInvAt
  <2>3. pending'[q] # -1 => pending'[q] + 1 = batchStart[q]
    BY <1>0, <1>3, Zenon DEF OffsetInvAt
  <2> QED BY <1>1, <1>3, <2>1, <2>2, <2>3, Zenon DEF OffsetInvAt
<1>4. CASE Restart \/ RestartPartly
  <2>1. /\ pc' = "poll" /\ batchStart' = committed /\ pending' = NonePending
        /\ committed' = committed
    BY Zenon, <1>4 DEF Restart, RestartPartly, StartLoop
  <2>2. pending'[q] = -1 /\ committed'[q] <= batchStart'[q]
    BY <1>0, <2>1, <1>t DEF NonePending
  <2> QED BY <1>1, <2>1, <2>2, Zenon DEF OffsetInvAt
<1>5. CASE Produce
  <2>1. /\ pc = "produce" /\ sink' = sink \cup Batch /\ pending'[q] = Added(q)
        /\ batchStart' = batchEnd /\ pc' = "commit" /\ committed' = committed
        /\ changelog' = changelog
    BY <1>5, Zenon DEF Produce
  <2>2. /\ batchStart[q] <= batchEnd[q] /\ next[q] = batchEnd[q]
        /\ collector[q] = <<>> /\ committed[q] <= batchStart[q]
        /\ pending[q] # -1 => pending[q] + 1 = batchStart[q]
    BY Zenon, <1>0, <2>1 DEF BatchInvAt, OffsetInvAt
  <2>3. pending'[q] # -1 => pending'[q] + 1 = batchEnd[q]
    BY <1>0, <2>1, <2>2, <1>t DEF Added
  <2>4. committed'[q] <= batchEnd[q]
    BY <1>0, <2>1, <2>2, <1>t
  <2>5. ASSUME NEW o \in Offsets, o < batchEnd[q] PROVE Done(q, o)'
    <3>1. CASE o < batchStart[q]
      BY <1>0, <2>1, <3>1, DoneStays, Zenon DEF OffsetInvAt
    <3>2. CASE batchStart[q] <= o
      <4>1. <<q, o>> \in Batch
        BY <2>5, <3>2, Zenon DEF Batch
      <4>2. Log(q) = changelog[q]
        <5>1. changelog[q] \in Seq(Records)
          BY <1>0, TypeAt, Zenon
        <5> QED BY <2>2, <5>1 DEF Log
      <4>3. InLog(Log(q), KeyOf[q][o], o)
        BY <1>0, <2>1, <2>2, <2>5, <3>2, Zenon DEF BatchInvAt
      <4> QED BY <2>1, <4>1, <4>2, <4>3, Zenon DEF Done
    <3>3. o < batchStart[q] \/ batchStart[q] <= o
      BY <1>0, <1>t DEF Offsets
    <3> QED BY <3>1, <3>2, <3>3, Zenon
  <2> QED BY <1>1, <2>1, <2>3, <2>4, <2>5, Zenon DEF OffsetInvAt
<1>6. CASE RevokeCommit \/ Crash
  <2>1. pc' = "down" /\ pending'[q] = -1
    BY <1>6, Zenon DEF RevokeCommit, Crash, Exit, NonePending
  <2> QED BY <1>1, <2>1, Zenon DEF OffsetInvAt
<1>7. ASSUME NEW p \in Partitions, LoseDisk(p) PROVE OffsetInvAt(q)'
  <2>1. pc = "down" /\ pc' = "down" /\ pending' = pending
    BY <1>7, Zenon DEF LoseDisk
  <2> QED BY <1>0, <1>1, <2>1, Zenon DEF OffsetInvAt
<1>8. CASE Commit \/ IntervalCommit \/ CommitFail \/ Cancel \/ Close \/ CloseRunning
  <2>1. /\ pc # "down" /\ pc' # "down" /\ batchStart' = batchStart
        /\ CommitOK \/ CommitError
    BY <1>8, Zenon DEF Commit, IntervalCommit, CommitFail, Cancel, Close, CloseRunning,
      CloseClient
  <2>2. pending'[q] \in {-1, pending[q]}
    BY <2>1, Zenon DEF CommitOK, CommitError, NonePending
  <2> QED BY <1>3, <2>1, <2>2, Zenon
<1>9. CASE \/ Poll \/ EmptyPoll \/ BatchFailed \/ ProcessDone \/ FlushDone
           \/ ProduceFail \/ NotDue \/ HealthTrip
           \/ \E p \in Partitions :
                \/ ProcessRecord(p) \/ ProcessNoTask(p) \/ ProcessFail(p)
                \/ FlushTask(p) \/ FlushFail(p) \/ CloseTask(p)
  <2>1. /\ pc # "down" /\ pc' # "down" /\ batchStart' = batchStart
        /\ pending' = pending
    BY Zenon, <1>9 DEF vars, Poll, EmptyPoll, BatchFailed, ProcessDone, FlushDone,
      ProduceFail, NotDue, HealthTrip, ProcessRecord, ProcessNoTask,
      ProcessFail, HasNext, FlushTask, FlushFail, CloseTask
  <2> QED BY <1>3, <2>1, Zenon
<1>10. CASE UNCHANGED vars
  <2>1. UNCHANGED <<pc, batchStart, pending, committed>>
    BY <1>10, Zenon DEF vars
  <2>2. CASE pc = "down"
    BY Zenon, <1>0, <1>1, <2>1, <2>2 DEF OffsetInvAt
  <2>3. CASE pc # "down"
    BY Zenon, <1>3, <2>1, <2>3
  <2> QED BY <2>2, <2>3, Zenon
<1> QED
  BY <1>4, <1>5, <1>6, <1>7, <1>8, <1>9, <1>10, Zenon DEF Next, Progress, Disruption

-----------------------------------------------------------------------------
(* The theorems.                                                           *)

\* Init => Inv.
LEMMA InitInv == Init => Inv
<1> SUFFICES ASSUME Init PROVE Inv
  BY Zenon
<1>1. TypeOK
  BY InitType, Zenon
<1>2. ASSUME NEW p \in Partitions PROVE LogInvAt(p) /\ BatchInvAt(p) /\ OffsetInvAt(p)
  <2>1. /\ changelog[p] = <<>> /\ collector[p] = <<>> /\ checkpoint[p] = -1
        /\ open = {} /\ pc = "down" /\ committed[p] = 0 /\ pending[p] = -1
        /\ batchStart[p] = 0 /\ next[p] = 0 /\ batchEnd[p] = 0
    BY Zenon DEF Init, NonePending
  <2>2. Log(p) = <<>> /\ Len(<<>>) = 0
    BY <2>1 DEF Log
  <2>3. LogInvAt(p)
    BY <2>1, <2>2 DEF LogInvAt, Monotone, Covers
  <2>4. BatchInvAt(p)
    BY <2>1 DEF BatchInvAt
  <2>5. OffsetInvAt(p)
    BY <2>1 DEF OffsetInvAt, Offsets
  <2> QED BY <2>3, <2>4, <2>5, Zenon
<1> QED BY <1>1, <1>2, Zenon DEF Inv

\* Every step of the pipeline preserves the inductive invariant.
LEMMA NextInv == Inv /\ [Next]_vars => Inv'
<1> SUFFICES ASSUME Inv, [Next]_vars PROVE Inv'
  BY Zenon
<1>1. TypeOK'
  BY NextType, Zenon DEF Inv
<1>2. ASSUME NEW q \in Partitions
      PROVE  LogInvAt(q)' /\ BatchInvAt(q)' /\ OffsetInvAt(q)'
  BY <1>1, NextLog, NextBatch, NextOffset, Zenon
<1> QED BY <1>1, <1>2, Zenon DEF Inv

\* The inductive invariant holds in every behaviour.
THEOREM Invariance == Spec => []Inv
BY InitInv, NextInv, PTL DEF Spec

\* What a restore of p's changelog rebuilds is what its records reflect.
LEMMA RebuiltReflects ==
  ASSUME Inv, NEW p \in Partitions, NEW k \in Keys, NEW o
  PROVE  o \in Rebuilt(p)[k] <=> InLog(changelog[p], k, o)
<1>1. Len(changelog[p]) \in Nat /\ Monotone(changelog[p])
  BY TypeAt, PrefixMonotone, Zenon DEF Inv, LogInvAt
<1>2. o \in Replay(changelog[p], 0, [x \in Keys |-> {}])[k] <=> InLog(changelog[p], k, o)
  BY <1>1, RebuiltInLog, Zenon
<1> QED BY <1>2, Zenon DEF Rebuilt, EmptyStore

\* The same of the next state, in the direction needed there.
LEMMA RebuiltReflectsNext ==
  ASSUME Inv', NEW p \in Partitions, NEW k \in Keys, NEW o, InLog(changelog'[p], k, o)
  PROVE  o \in Rebuilt(p)'[k]
<1>1. Len(changelog'[p]) \in Nat /\ Monotone(changelog'[p])
  <2>1. changelog'[p] \in Seq(Records) /\ collector'[p] \in Seq(Records)
    BY Zenon DEF Inv, TypeOK
  <2>2. PrefixOf(changelog'[p], Log(p)')
    BY <2>1, ConcatPrefix, Zenon DEF Log
  <2>3. Monotone(Log(p)')
    BY Zenon DEF Inv, LogInvAt
  <2> QED BY <2>1, <2>2, <2>3, PrefixMonotone
<1>2. o \in Replay(changelog'[p], 0, [x \in Keys |-> {}])[k]
  BY <1>1, RebuiltInLog, Zenon
<1> QED BY <1>2, Zenon DEF Rebuilt, EmptyStore

\* Durable and Done agree.
LEMMA DurableDone ==
  ASSUME Inv, NEW p \in Partitions, NEW o \in Offsets
  PROVE  Durable(p, o) <=> Done(p, o)
<1>1. KeyOf[p][o] \in Keys
  BY Zenon
<1> QED BY <1>1, RebuiltReflects, Zenon DEF Durable, Done

\* At-least-once, for any number of partitions, keys, records and failures: an
\* input below the committed offset is in the sink and in the changelog.
THEOREM NoLossCorrect == Spec => []NoLoss
<1>1. Inv => NoLoss
  <2> SUFFICES ASSUME Inv, NEW p \in Partitions, NEW o \in Offsets, o < committed[p]
               PROVE  Durable(p, o)
    BY Zenon DEF NoLoss
  <2>1. Done(p, o)
    BY Zenon DEF Inv, OffsetInvAt
  <2> QED BY <2>1, DurableDone, Zenon
<1> QED BY <1>1, Invariance, PTL

\* An open task's store reflects every input its changelog reflects.
THEOREM StoreCoversCorrect == Spec => []StoreCoversChangelog
<1>1. Inv => StoreCoversChangelog
  <2> SUFFICES ASSUME Inv, NEW p \in open, NEW k \in Keys, NEW o \in Rebuilt(p)[k]
               PROVE  o \in db[p][k]
    BY Zenon DEF StoreCoversChangelog
  <2>1. p \in Partitions
    BY Zenon DEF Inv, TypeOK
  <2>2. InLog(changelog[p], k, o)
    BY <2>1, RebuiltReflects, Zenon
  <2>3. Covers(db[p], changelog[p], Len(changelog[p])) /\ Len(changelog[p]) \in Nat
    BY Zenon, <2>1, TypeAt, PrefixCovers DEF Inv, LogInvAt
  <2> QED BY <2>2, <2>3 DEF InLog, Covers
<1> QED BY <1>1, Invariance, PTL

\* The committed offset of a partition never moves back.
THEOREM CommittedCorrect == Spec => CommittedNeverRewinds
<1>1. Inv /\ [Next]_vars => [\A p \in Partitions : committed[p] <= committed'[p]]_vars
  BY NextCommitted, Zenon
<1> QED BY <1>1, Invariance, PTL DEF Spec, CommittedNeverRewinds

\* No changelog write loses a fold that an earlier one published.
THEOREM ChangelogGrowsCorrect == Spec => ChangelogGrows
<1>1. Inv /\ Inv' /\ [Next]_vars =>
        [\A p \in Partitions : \A k \in Keys : Rebuilt(p)[k] \subseteq Rebuilt(p)'[k]]_vars
  <2> SUFFICES ASSUME Inv, Inv', [Next]_vars, NEW p \in Partitions, NEW k \in Keys,
                      NEW o \in Rebuilt(p)[k]
               PROVE  o \in Rebuilt(p)'[k]
    BY Zenon
  <2>1. InLog(changelog[p], k, o)
    BY RebuiltReflects, Zenon
  <2>2. InLog(changelog'[p], k, o)
    BY <2>1, NextGrows, PrefixInLog, Zenon
  <2> QED BY Zenon, <2>2, RebuiltReflectsNext
<1> QED BY <1>1, Invariance, PTL DEF Spec, ChangelogGrows

-----------------------------------------------------------------------------
(* The pipeline implements the abstract specification.                     *)

\* A step that commits writes nothing else to the broker.
LEMMA CommitAlone ==
  ASSUME [Next]_vars
  PROVE  UNCHANGED committed \/ UNCHANGED <<changelog, sink>>
BY Zenon DEF Next, Progress, Disruption, vars, broker, Restart, RestartPartly, Poll,
  EmptyPoll, ProcessRecord, ProcessNoTask, ProcessFail, BatchFailed,
  ProcessDone, FlushTask, FlushFail, FlushDone, Produce, ProduceFail, Commit,
  NotDue, IntervalCommit, CommitFail, Cancel, HealthTrip, Close, CloseRunning,
  CloseClient, CloseTask, RevokeCommit, Crash, LoseDisk

\* In terms of Done, which needs no replay, the durable inputs only grow.
LEMMA DurableGrows ==
  ASSUME Inv, Inv', [Next]_vars
  PROVE  DurableInputs \subseteq DurableInputs'
<1> SUFFICES ASSUME NEW x \in DurableInputs PROVE x \in DurableInputs'
  BY Zenon
<1> DEFINE p == x[1]
           o == x[2]
<1>1. x \in Partitions \X Offsets /\ Durable(p, o)
  BY Zenon DEF DurableInputs, Inv, TypeOK
<1>2. p \in Partitions /\ o \in Offsets
  BY <1>1, Zenon
<1> HIDE DEF p, o
<1>3. Done(p, o)
  BY <1>1, <1>2, DurableDone, Zenon
<1>4. Done(p, o)'
  BY <1>2, <1>3, DoneStays, Zenon
<1>5. KeyOf[p][o] \in Keys
  BY <1>2, Zenon
<1>6. Durable(p, o)'
  BY <1>2, <1>4, <1>5, RebuiltReflectsNext, Zenon DEF Durable, Done
<1>7. <<p, o>> \in sink'
  BY <1>6, Zenon DEF Durable
<1>8. x = <<p, o>>
  BY <1>1 DEF p, o
<1> QED BY <1>6, <1>7, <1>8, Zenon DEF DurableInputs

\* Every behaviour of the pipeline is a behaviour of the at-least-once promise.
THEOREM Refinement == Spec => AtLeastOnceSafety
<1>1. Init => Abstract!Init
  <2> SUFFICES ASSUME Init PROVE Abstract!Init
    BY Zenon
  <2>1. DurableInputs = {}
    BY Zenon DEF Init, DurableInputs
  <2> QED BY <2>1, Zenon DEF Init, Abstract!Init
<1>2. Inv /\ Inv' /\ [Next]_vars => [Abstract!Next]_<<DurableInputs, committed>>
  <2> SUFFICES ASSUME Inv, Inv', [Next]_vars PROVE Abstract!Next
    BY Zenon
  <2>1. CASE UNCHANGED committed
    <3>1. DurableInputs' \in SUBSET Abstract!Inputs
      BY Zenon DEF DurableInputs, Inv, TypeOK, Abstract!Inputs, Offsets
    <3> QED BY <2>1, <3>1, DurableGrows, Zenon DEF Abstract!Next, Abstract!Apply
  <2>2. CASE UNCHANGED <<changelog, sink>>
    <3>1. DurableInputs' = DurableInputs
      BY <2>2, Zenon DEF DurableInputs, Durable, Rebuilt
    <3>2. committed' \in [Partitions -> 0 .. End]
      BY Zenon DEF Inv, TypeOK
    <3>3. ASSUME NEW p \in Partitions
          PROVE  /\ committed[p] <= committed'[p]
                 /\ \A o \in 0 .. committed'[p] - 1 : <<p, o>> \in DurableInputs
      <4>1. committed[p] <= committed'[p]
        BY NextCommitted, Zenon
      <4>2. ASSUME NEW o \in 0 .. committed'[p] - 1 PROVE <<p, o>> \in DurableInputs
        <5>1. o \in Offsets /\ o < committed'[p]
          BY <3>2 DEF Offsets
        <5>2. Done(p, o)
          BY <5>1, NextCommitted, Zenon
        <5>3. Durable(p, o)
          BY <5>1, <5>2, DurableDone, Zenon
        <5> QED BY <5>3, Zenon DEF DurableInputs, Durable
      <4> QED BY <4>1, <4>2, Zenon
    <3> QED BY <3>1, <3>2, <3>3, Zenon DEF Abstract!Next, Abstract!Commit
  <2> QED BY <2>1, <2>2, CommitAlone, Zenon
<1> QED BY <1>1, <1>2, Invariance, PTL DEF Spec, AtLeastOnceSafety, Abstract!Spec
==============================================================================
