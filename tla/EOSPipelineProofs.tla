-------------------------- MODULE EOSPipelineProofs --------------------------
(***************************************************************************)
(* Proofs about EOSPipeline, for any number of partitions, keys, records   *)
(* and disruptions: sink output is exactly once on either backend, no      *)
(* committed input is missing from the state, the memory backend begins    *)
(* every transaction on the committed state, and under the faults that     *)
(* leave no mutation undrained it implements ExactlyOnce.                  *)
(***************************************************************************)
EXTENDS EOSPipeline, ChangelogProofs

Places == {"down", "begin", "poll", "process", "postBatch", "commit", "stopped",
           "closing"}
Live == {"begin", "poll", "process", "postBatch", "commit"}

\* Between two batches.
Between == {"begin", "poll", "commit"}

-----------------------------------------------------------------------------
(* Where the loop is, and what it then has in hand.                        *)

ControlInv ==
  /\ backend \in Backends
  /\ pc \in Places
  /\ open \subseteq Partitions /\ failed \subseteq Partitions
  /\ committed \in [Partitions -> Nat]
  /\ next \in [Partitions -> Nat]
  /\ batchEnd \in [Partitions -> Nat]
  /\ \A p \in Partitions :
       committed[p] <= End[p] /\ next[p] <= batchEnd[p] /\ batchEnd[p] <= End[p]
  /\ pc \in Live => \A p \in Partitions : committed[p] <= next[p]
  /\ pc \in Between \cup {"postBatch"} => next = batchEnd
  /\ pc \in Between \cup {"postBatch"} => failed = {}
  /\ pc \in Between \cup {"down"} => outs = NoRecords /\ collector = NoRecords
  /\ pc \in {"down", "begin", "stopped", "closing"} =>
       txnLog = NoRecords /\ txnSink = NoRecords
  /\ pc = "begin" \/ (pc = "poll" /\ mutated = FALSE) =>
       committed = next /\ txnLog = NoRecords /\ txnSink = NoRecords
  /\ pc \in {"process", "postBatch"} => mutated = TRUE
  /\ pc = "down" => open = {} /\ failed = {}

\* The loop keeps its books.
LEMMA ControlStep ==
  ASSUME ControlInv, [Next]_vars
  PROVE  ControlInv'
<1> USE EOSEndAssumption
<1> USE DEF Live, Between, Places
<1>0. backend' = backend
  BY Zenon DEF Next, vars
<1>1. CASE Restart
  BY <1>0, <1>1 DEF ControlInv, Restart, StartLoop, broker, txn
<1>2. CASE RestartPartly
  BY <1>0, <1>2 DEF ControlInv, RestartPartly, StartLoop, broker, txn
<1>3. CASE Begin
  BY <1>0, <1>3, Zenon DEF ControlInv, Begin, broker, txn, batch
<1>4. CASE Poll
  BY <1>0, <1>4 DEF ControlInv, Poll, broker, txn
<1>5. CASE EmptyInterval
  BY <1>0, <1>5 DEF ControlInv, EmptyInterval, Abort, broker, txn, batch
<1>6. ASSUME NEW p \in Partitions, ProcessRecord(p) PROVE ControlInv'
  BY <1>0, <1>6 DEF ControlInv, ProcessRecord, HasNext, broker, txn
<1>7. ASSUME NEW p \in Partitions, ProcessNoTask(p) PROVE ControlInv'
  BY <1>0, <1>7, Zenon DEF ControlInv, ProcessNoTask, HasNext, broker, txn
<1>8. ASSUME NEW p \in Partitions, CloseTask(p) PROVE ControlInv'
  BY <1>0, <1>8, Zenon DEF ControlInv, CloseTask, txn, batch
<1>9. CASE BatchFailed
  BY <1>0, <1>9, Zenon DEF ControlInv, BatchFailed, AbortAndStop, Abort, broker, batch
<1>10. CASE ProcessDone
  BY <1>0, <1>10, Zenon DEF ControlInv, ProcessDone, broker, txn, batch
<1>11. CASE Produce
  BY <1>0, <1>11, Zenon DEF ControlInv, Produce, broker, batch
<1>12. CASE Commit
  BY <1>0, <1>12, Zenon DEF ControlInv, Commit, CommitDue, Publish, Abort, batch
<1>13. CASE Close
  BY <1>0, <1>13, Zenon DEF ControlInv, Close, broker, txn, batch
<1>14. ASSUME Exit PROVE ControlInv'
  BY <1>0, <1>14 DEF ControlInv, Exit, Abort, broker
<1>15. ASSUME NEW p \in Partitions, ProcessFail(p) PROVE ControlInv'
  BY <1>0, <1>15, Zenon DEF ControlInv, ProcessFail, HasNext, broker, txn
<1>16. CASE PostBatchFail
  BY <1>0, <1>16, Zenon DEF ControlInv, PostBatchFail, AbortAndStop, Abort, broker, batch
<1>17. CASE ProduceFail
  BY <1>0, <1>17, Zenon DEF ControlInv, ProduceFail, Abort, broker, batch
<1>18. CASE CommitAborted
  BY <1>0, <1>18, Zenon DEF ControlInv, CommitAborted, AbortAndStop, Abort, broker, batch
<1>19. CASE CommitUnknown
  BY <1>0, <1>19, Zenon DEF ControlInv, CommitUnknown, CommitDue, Publish, Abort, broker, batch
<1>20. CASE BeginFail
  BY <1>0, <1>20, Zenon DEF ControlInv, BeginFail, broker, txn, batch
<1>21. CASE Cancel
  BY <1>0, <1>21, Zenon DEF ControlInv, Cancel, AbortAndStop, Abort, broker, batch
<1>22. CASE UNCHANGED vars
  BY <1>0, <1>22, Zenon DEF ControlInv, vars, broker, txn, batch
<1> HIDE DEF Live, Between, Places
<1> QED
  BY <1>1, <1>2, <1>3, <1>4, <1>5, <1>6, <1>7, <1>8, <1>9, <1>10, <1>11,
     <1>12, <1>13, <1>14, <1>15, <1>16, <1>17, <1>18, <1>19, <1>20, <1>21,
     <1>22, Zenon
  DEF Next, Progress, Disruption, EmptyPoll, Closed, Crash

\* The first start has everything in order.
LEMMA ControlInit ==
  ASSUME Init
  PROVE  ControlInv
BY EOSEndAssumption DEF Init, ControlInv, Live, Between, Places

-----------------------------------------------------------------------------
(* What a step does to the broker, the stores and the batch in hand.       *)

\* The loop moves on, or a record fails before the store write.
Quiet ==
  /\ UNCHANGED <<broker, txn, disk, open, next, collector, outs, backend>>
  /\ pc' \in Live => pc \in Live
  /\ pc' = "down" => pc = "down"
  /\ pc' \in {"stopped", "closing"} => pc \in {"begin", "stopped", "closing"}
  /\ \/ failed' = failed
     \/ \E p \in Partitions :
          /\ pc \in Live /\ failed' = failed \cup {p}
          /\ p \notin open \/ "process" \in Faults[backend]

\* The transaction is aborted and the loop returns.
Dropped ==
  /\ pc \in Live /\ pc' = "stopped"
  /\ Abort
  /\ UNCHANGED <<broker, disk, open, failed, backend>>
  /\ \/ collector' = NoRecords /\ outs' = NoRecords
     \/ /\ UNCHANGED <<collector, outs>>
        /\ pc \in Between \/ failed # {} \/ "health" \in Faults[backend]

\* A record is folded in; its processing may fail afterwards.
FoldRecord(p) ==
  /\ pc = "process" /\ pc' = "process"
  /\ p \in open /\ p \notin failed /\ next[p] < batchEnd[p]
  /\ Fold(p)
  /\ UNCHANGED <<broker, txn, checkpoint, open, backend>>
  /\ \/ next' = [next EXCEPT ![p] = @ + 1] /\ failed' = failed
     \/ /\ next' = next /\ failed' = failed \cup {p}
        /\ "process" \in Faults[backend]

\* The transaction is committed, whether or not the loop learns of it.
Published ==
  /\ CommitDue /\ Publish
  /\ pc' \in {"begin", "stopped"}
  /\ UNCHANGED <<disk, batch, open, collector, outs, backend>>

\* The tasks of opened are opened; those of restored have replayed.
Started ==
  /\ pc = "down"
  /\ \E opened, restored \in SUBSET Partitions :
       /\ opened \subseteq restored
       /\ StartLoop(opened) /\ RestoreTasks(restored)
       /\ opened = Partitions \/ "open" \in Faults[backend]
  /\ UNCHANGED backend

\* Every step is of one of these kinds.
LEMMA StepKinds ==
  ASSUME ControlInv, [Next]_vars
  PROVE  /\ backend' = backend
         /\ \/ Quiet
            \/ Dropped
            \/ \E p \in Partitions : FoldRecord(p)
            \/ Produce
            \/ Published
            \/ Started
            \/ \E p \in Partitions : CloseTask(p)
            \/ Exit
<1>0. backend' = backend
  BY Zenon DEF Next, vars
<1>1. CASE Restart
  <2>1. Started
    BY <1>0, <1>1, Zenon DEF Started, Restart
  <2> QED BY <1>0, <2>1, Zenon
<1>2. CASE RestartPartly
  <2>1. PICK p \in Partitions : \E opened \in SUBSET (Partitions \ {p}) :
          /\ StartLoop(opened)
          /\ RestoreTasks(opened) \/ RestoreTasks(opened \cup {p})
    BY <1>2, Zenon DEF RestartPartly
  <2>2. PICK opened \in SUBSET (Partitions \ {p}) :
          /\ StartLoop(opened)
          /\ RestoreTasks(opened) \/ RestoreTasks(opened \cup {p})
    BY <2>1, Zenon
  <2>3. pc = "down" /\ "open" \in Faults[backend]
    BY <1>2, Zenon DEF RestartPartly, Disrupt
  <2>4. PICK restored \in {opened, opened \cup {p}} : RestoreTasks(restored)
    BY <2>2, Zenon
  <2>5. /\ opened \in SUBSET Partitions /\ restored \in SUBSET Partitions
        /\ opened \subseteq restored
    BY <2>2, <2>4, Zenon
  <2>6. Started
    BY <1>0, <2>2, <2>3, <2>4, <2>5, Zenon DEF Started
  <2> QED BY <1>0, <2>6, Zenon
<1>3. CASE Begin
  <2>1. Quiet
    BY <1>0, <1>3, Zenon DEF Begin, Quiet, batch, Live
  <2> QED BY <1>0, <2>1, Zenon
<1>4. CASE Poll
  <2>1. Quiet
    BY <1>0, <1>4, Zenon DEF Poll, Quiet, Live
  <2> QED BY <1>0, <2>1, Zenon
<1>5. CASE EmptyInterval
  <2>1. txnLog = NoRecords /\ txnSink = NoRecords
    BY <1>5 DEF EmptyInterval, ControlInv
  <2>2. Quiet
    BY <1>0, <1>5, <2>1, Zenon DEF EmptyInterval, Quiet, Abort, txn, batch, Live
  <2> QED BY <1>0, <2>2, Zenon
<1>6. ASSUME NEW p \in Partitions, ProcessRecord(p) PROVE FoldRecord(p)
  BY <1>0, <1>6, Zenon DEF ProcessRecord, HasNext, FoldRecord
<1>7. ASSUME NEW p \in Partitions, ProcessNoTask(p) PROVE Quiet
  BY <1>0, <1>7, Zenon DEF ProcessNoTask, HasNext, Quiet, Live
<1>9. CASE BatchFailed
  <2>1. Dropped
    BY <1>0, <1>9, Zenon DEF BatchFailed, AbortAndStop, Dropped, batch, Live
  <2> QED BY <1>0, <2>1, Zenon
<1>10. CASE ProcessDone
  <2>1. Quiet
    BY <1>0, <1>10, Zenon DEF ProcessDone, Quiet, batch, Live
  <2> QED BY <1>0, <2>1, Zenon
<1>12. CASE Commit
  <2>1. Published
    BY <1>0, <1>12, Zenon DEF Commit, Published
  <2> QED BY <1>0, <2>1, Zenon
<1>13. CASE Close
  <2>1. Quiet
    BY <1>0, <1>13, Zenon DEF Close, Quiet, batch, Live
  <2> QED BY <1>0, <2>1, Zenon
<1>15. ASSUME NEW p \in Partitions, ProcessFail(p)
       PROVE  Quiet \/ FoldRecord(p)
  <2>1. CASE Fold(p)
    BY <1>0, <1>15, <2>1, Zenon DEF ProcessFail, HasNext, Disrupt, FoldRecord
  <2>2. CASE UNCHANGED <<db, collector, outs>>
    BY <1>0, <1>15, <2>2, Zenon DEF ProcessFail, HasNext, Disrupt, Quiet, disk, Live
  <2> QED BY <1>15, <2>1, <2>2, Zenon DEF ProcessFail
<1>16. CASE PostBatchFail
  <2>1. Dropped
    BY <1>0, <1>16, Zenon DEF PostBatchFail, Disrupt, AbortAndStop, Dropped, batch, Live
  <2> QED BY <1>0, <2>1, Zenon
<1>17. CASE ProduceFail
  <2>1. Dropped
    BY <1>0, <1>17, Zenon DEF ProduceFail, Dropped, batch, Live
  <2> QED BY <1>0, <2>1, Zenon
<1>18. CASE CommitAborted
  <2>1. Dropped
    BY <1>0, <1>18, Zenon
    DEF CommitAborted, CommitDue, AbortAndStop, Dropped, batch, Live, Between
  <2> QED BY <1>0, <2>1, Zenon
<1>19. CASE CommitUnknown
  <2>1. CASE Publish
    <3>1. Published
      BY <1>0, <1>19, <2>1, Zenon DEF CommitUnknown, Published
    <3> QED BY <1>0, <3>1, Zenon
  <2>2. CASE Abort /\ UNCHANGED broker
    <3>1. Dropped
      BY <1>0, <1>19, <2>2, Zenon
      DEF CommitUnknown, CommitDue, Dropped, batch, Live, Between
    <3> QED BY <1>0, <3>1, Zenon
  <2> QED BY <1>19, <2>1, <2>2, Zenon DEF CommitUnknown
<1>20. CASE BeginFail
  <2>1. Quiet
    BY <1>0, <1>20, Zenon DEF BeginFail, Quiet, batch, Live
  <2> QED BY <1>0, <2>1, Zenon
<1>21. CASE Cancel
  <2>1. Dropped
    BY <1>0, <1>21, Zenon DEF Cancel, AbortAndStop, Dropped, batch, Live, Between
  <2> QED BY <1>0, <2>1, Zenon
<1>22. CASE UNCHANGED vars
  <2>1. Quiet
    BY <1>22, Zenon DEF Quiet, vars, batch
  <2> QED BY <1>0, <2>1, Zenon
<1> QED
  BY <1>0, <1>1, <1>2, <1>3, <1>4, <1>5, <1>6, <1>7, <1>9, <1>10, <1>12,
     <1>13, <1>15, <1>16, <1>17, <1>18, <1>19, <1>20, <1>21, <1>22, Zenon
  DEF Next, Progress, Disruption, EmptyPoll, Closed, Crash

-----------------------------------------------------------------------------
(* The types of what is stored and sent.                                   *)

DataInv ==
  /\ changelog \in [Partitions -> Seq(Records)]
  /\ sink \in [Partitions -> Seq(Outputs)]
  /\ txnLog \in [Partitions -> Seq(Records)]
  /\ txnSink \in [Partitions -> Seq(Outputs)]
  /\ db \in [Partitions -> [Keys -> Values]]
  /\ checkpoint \in [Partitions -> Int]
  /\ collector \in [Partitions -> Seq(Records)]
  /\ outs \in [Partitions -> Seq(Outputs)]

\* Nothing is a sequence of any records.
LEMMA NoRecordsType ==
  ASSUME NEW S
  PROVE  NoRecords \in [Partitions -> Seq(S)]
BY DEF NoRecords

\* The key of an input is a key, and its offset a number.
LEMMA InputKey ==
  ASSUME ControlInv, NEW p \in Partitions, next[p] < batchEnd[p]
  PROVE  next[p] \in Nat /\ next[p] \in Offsets(p) /\ KeyOf[p][next[p]] \in Keys
<1>1. next[p] \in Nat /\ batchEnd[p] \in Nat /\ batchEnd[p] <= End[p]
  BY Zenon DEF ControlInv
<1>2. End[p] \in Nat
  BY EOSEndAssumption, Zenon
<1>3. next[p] \in Offsets(p)
  BY <1>1, <1>2 DEF Offsets
<1> QED BY <1>1, <1>3, EOSKeyOfAssumption, Zenon

\* What a fold writes, logs and sends is well typed.
LEMMA FoldTypes ==
  ASSUME ControlInv, DataInv, NEW p \in Partitions, next[p] < batchEnd[p], Fold(p)
  PROVE  LET k == KeyOf[p][next[p]]
             v == Append(db[p][k], next[p])
         IN  /\ k \in Keys /\ v \in Values
             /\ [key |-> k, val |-> v] \in Records
             /\ [off |-> next[p], val |-> v] \in Outputs
             /\ db' = [db EXCEPT ![p] = [db[p] EXCEPT ![k] = v]]
             /\ collector' = [collector EXCEPT ![p] = Append(collector[p], [key |-> k, val |-> v])]
             /\ outs' = [outs EXCEPT ![p] = Append(outs[p], [off |-> next[p], val |-> v])]
<1>1. next[p] \in Nat /\ KeyOf[p][next[p]] \in Keys
  BY InputKey, Zenon
<1>2. db[p] \in [Keys -> Values]
  BY Zenon DEF DataInv
<1>3. db[p][KeyOf[p][next[p]]] \in Seq(Nat)
  BY <1>1, <1>2, Zenon DEF Values
<1>4. Append(db[p][KeyOf[p][next[p]]], next[p]) \in Values
  BY <1>1, <1>3, AppendParts, Zenon DEF Values
<1> QED BY <1>1, <1>4, Zenon DEF Fold, Records, Outputs

\* A replay yields a store.
LEMMA RestoreTypes ==
  ASSUME NEW log \in Seq(Records), NEW c \in Int, NEW d \in [Keys -> Values]
  PROVE  /\ RestoredDB(log, c, d) \in [Keys -> Values]
         /\ RestoredCheckpoint(log, c) \in Int
<1>1. StartOffset(c) \in Nat
  BY StartOffsetRange, Zenon
<1>2. Replay(log, StartOffset(c), d) \in [Keys -> Values]
  BY <1>1, ReplayType, Zenon DEF Records
<1>3. Len(log) - 1 \in Int
  OBVIOUS
<1> QED BY <1>2, <1>3, Zenon DEF RestoredDB, RestoredCheckpoint

\* The types of what is stored and sent are kept.
LEMMA DataStep ==
  ASSUME ControlInv, DataInv, [Next]_vars
  PROVE  DataInv'
<1>1. CASE Quiet
  BY <1>1, Zenon DEF Quiet, DataInv, broker, txn, disk
<1>2. CASE Dropped
  <2>1. /\ NoRecords \in [Partitions -> Seq(Records)]
        /\ NoRecords \in [Partitions -> Seq(Outputs)]
    BY NoRecordsType, Zenon
  <2> QED BY <1>2, <2>1, Zenon DEF Dropped, Abort, DataInv, broker, disk
<1>3. ASSUME NEW p \in Partitions, FoldRecord(p) PROVE DataInv'
  <2> DEFINE k == KeyOf[p][next[p]]
             v == Append(db[p][k], next[p])
             r == [key |-> k, val |-> v]
             w == [off |-> next[p], val |-> v]
  <2>1. /\ k \in Keys /\ v \in Values /\ r \in Records /\ w \in Outputs
        /\ db' = [db EXCEPT ![p] = [db[p] EXCEPT ![k] = v]]
        /\ collector' = [collector EXCEPT ![p] = Append(collector[p], r)]
        /\ outs' = [outs EXCEPT ![p] = Append(outs[p], w)]
    BY <1>3, FoldTypes, Zenon DEF FoldRecord
  <2> HIDE DEF k, v, r, w
  <2>2. Append(collector[p], r) \in Seq(Records) /\ Append(outs[p], w) \in Seq(Outputs)
    BY <2>1, AppendParts, Zenon DEF DataInv
  <2>3. /\ db' \in [Partitions -> [Keys -> Values]]
        /\ collector' \in [Partitions -> Seq(Records)]
        /\ outs' \in [Partitions -> Seq(Outputs)]
    BY <2>1, <2>2, Zenon DEF DataInv
  <2> QED BY <1>3, <2>3, Zenon DEF FoldRecord, DataInv, broker, txn
<1>4. CASE Produce
  <2>1. \A p \in Partitions : Drained(p) \in Seq(Records)
    BY DEF DataInv, Drained
  <2>2. /\ \A p \in Partitions : txnLog[p] \o Drained(p) \in Seq(Records)
        /\ \A p \in Partitions : txnSink[p] \o outs[p] \in Seq(Outputs)
    BY <2>1, ConcatParts, Zenon DEF DataInv
  <2>3. /\ txnLog' \in [Partitions -> Seq(Records)]
        /\ txnSink' \in [Partitions -> Seq(Outputs)]
    BY <1>4, <2>2, Zenon DEF Produce
  <2>4. /\ NoRecords \in [Partitions -> Seq(Records)]
        /\ NoRecords \in [Partitions -> Seq(Outputs)]
    BY NoRecordsType, Zenon
  <2> QED BY <1>4, <2>3, <2>4, Zenon DEF Produce, DataInv, broker, disk
<1>5. CASE Published
  <2>2. /\ \A p \in Partitions : changelog[p] \o txnLog[p] \in Seq(Records)
        /\ \A p \in Partitions : sink[p] \o txnSink[p] \in Seq(Outputs)
    BY ConcatParts DEF DataInv
  <2>3. /\ changelog' \in [Partitions -> Seq(Records)]
        /\ sink' \in [Partitions -> Seq(Outputs)]
    BY <1>5, <2>2, Zenon DEF Published, Publish
  <2>4. /\ NoRecords \in [Partitions -> Seq(Records)]
        /\ NoRecords \in [Partitions -> Seq(Outputs)]
    BY NoRecordsType, Zenon
  <2> QED BY <1>5, <2>3, <2>4, Zenon DEF Published, Publish, Abort, DataInv, disk
<1>6. CASE Started
  <2>1. PICK opened, restored \in SUBSET Partitions :
          StartLoop(opened) /\ RestoreTasks(restored)
    BY <1>6, Zenon DEF Started
  <2>2. ASSUME NEW p \in Partitions
        PROVE  /\ RestoredDB(changelog[p], checkpoint[p], db[p]) \in [Keys -> Values]
               /\ RestoredCheckpoint(changelog[p], checkpoint[p]) \in Int
    BY RestoreTypes, Zenon DEF DataInv
  <2>3. /\ db' \in [Partitions -> [Keys -> Values]]
        /\ checkpoint' \in [Partitions -> Int]
    BY <2>1, <2>2, Zenon DEF RestoreTasks, DataInv
  <2> QED BY <2>1, <2>3, Zenon DEF StartLoop, DataInv, broker, txn
<1>7. ASSUME NEW p \in Partitions, CloseTask(p) PROVE DataInv'
  <2>1. PICK n \in 0 .. Len(collector[p]) :
          changelog' = [changelog EXCEPT ![p] = changelog[p] \o SubSeq(collector[p], 1, n)]
    BY <1>7, Zenon DEF CloseTask
  <2>2. changelog[p] \in Seq(Records) /\ collector[p] \in Seq(Records)
    BY Zenon DEF DataInv
  <2>3. changelog[p] \o SubSeq(collector[p], 1, n) \in Seq(Records)
    BY <2>2, PartPrefix, Zenon
  <2>4. changelog' \in [Partitions -> Seq(Records)]
    BY <2>1, <2>3, Zenon DEF DataInv
  <2>5. collector' \in [Partitions -> Seq(Records)]
    BY <1>7 DEF CloseTask, DataInv
  <2>6. /\ db' \in [Partitions -> [Keys -> Values]]
        /\ checkpoint' \in [Partitions -> Int]
    <3>1. CASE UNCHANGED disk
      BY <3>1, Zenon DEF disk, DataInv
    <3>2. CASE /\ db' = [db EXCEPT ![p] = RestoredDB(changelog'[p], MaxInt64, @)]
               /\ checkpoint' = [checkpoint EXCEPT ![p] = Len(changelog'[p]) - 1]
      <4>1. changelog'[p] \in Seq(Records) /\ db[p] \in [Keys -> Values]
        BY <2>4, Zenon DEF DataInv
      <4>2. RestoredDB(changelog'[p], MaxInt64, db[p]) \in [Keys -> Values]
        BY <4>1, MaxInt64Assumption, RestoreTypes
      <4>3. Len(changelog'[p]) - 1 \in Int
        BY <4>1
      <4> QED BY <3>2, <4>2, <4>3, Zenon DEF DataInv
    <3> QED BY <1>7, <3>1, <3>2, Zenon DEF CloseTask
  <2> QED BY <1>7, <2>4, <2>5, <2>6, Zenon DEF CloseTask, DataInv, txn
<1>8. CASE Exit
  <2>1. /\ NoRecords \in [Partitions -> Seq(Records)]
        /\ NoRecords \in [Partitions -> Seq(Outputs)]
    BY NoRecordsType, Zenon
  <2>2. EmptyStore \in [Keys -> Values]
    BY DEF EmptyStore, Values
  <2> QED BY <1>8, <2>1, <2>2 DEF Exit, Abort, Survives, DataInv, broker
<1> QED BY <1>1, <1>2, <1>3, <1>4, <1>5, <1>6, <1>7, <1>8, StepKinds, Zenon

\* At the first start they hold.
LEMMA DataInit ==
  ASSUME Init
  PROVE  DataInv
<1>1. /\ NoRecords \in [Partitions -> Seq(Records)]
      /\ NoRecords \in [Partitions -> Seq(Outputs)]
  BY NoRecordsType, Zenon
<1>2. EmptyStore \in [Keys -> Values]
  BY DEF EmptyStore, Values
<1> QED BY <1>1, <1>2 DEF Init, DataInv

-----------------------------------------------------------------------------
(* OutputsOnce.  The sink, the open transaction and the batch in hand hold *)
(* the outputs of consecutive offsets.                                     *)

\* The outputs of s are those of the offsets from n on.
From(s, n) == \A i \in 1 .. Len(s) : s[i].off = n + i - 1

OutputInv ==
  /\ \A p \in Partitions : Len(sink[p]) = committed[p] /\ From(sink[p], 0)
  /\ pc \in Live => \A p \in Partitions : p \notin failed =>
       /\ committed[p] + Len(txnSink[p]) + Len(outs[p]) = next[p]
       /\ From(txnSink[p], committed[p])
       /\ From(outs[p], committed[p] + Len(txnSink[p]))

\* Outputs of consecutive offsets, continued.
LEMMA FromConcat ==
  ASSUME NEW S, NEW s \in Seq(S), NEW t \in Seq(S), NEW n \in Nat,
         From(s, n), From(t, n + Len(s))
  PROVE  From(s \o t, n)
<1>1. /\ Len(s) \in Nat /\ Len(t) \in Nat
      /\ Len(s \o t) = Len(s) + Len(t)
      /\ \A i \in 1 .. Len(s) + Len(t) :
           (s \o t)[i] = IF i <= Len(s) THEN s[i] ELSE t[i - Len(s)]
  BY ConcatParts
<1> SUFFICES ASSUME NEW i \in 1 .. Len(s) + Len(t)
             PROVE  (s \o t)[i].off = n + i - 1
  BY <1>1, Zenon DEF From
<1>2. CASE i <= Len(s)
  BY <1>1, <1>2 DEF From
<1>3. CASE i > Len(s)
  <2>1. i - Len(s) \in 1 .. Len(t)
    BY <1>1, <1>3
  <2>2. t[i - Len(s)].off = n + Len(s) + (i - Len(s)) - 1
    BY <2>1, Zenon DEF From
  <2> QED BY <1>1, <1>3, <2>2
<1> QED BY <1>1, <1>2, <1>3

\* The output of the next offset is appended.
LEMMA FromAppend ==
  ASSUME NEW S, NEW s \in Seq(S), NEW r \in S, NEW n \in Nat,
         From(s, n), r.off = n + Len(s)
  PROVE  From(Append(s, r), n)
<1>1. /\ Len(s) \in Nat /\ Len(Append(s, r)) = Len(s) + 1
      /\ Append(s, r)[Len(s) + 1] = r
      /\ \A i \in 1 .. Len(s) : Append(s, r)[i] = s[i]
  BY AppendParts
<1> SUFFICES ASSUME NEW i \in 1 .. Len(s) + 1
             PROVE  Append(s, r)[i].off = n + i - 1
  BY <1>1, Zenon DEF From
<1>2. CASE i = Len(s) + 1
  BY <1>1, <1>2
<1>3. CASE i # Len(s) + 1
  <2>1. i \in 1 .. Len(s)
    BY <1>1, <1>3
  <2> QED BY <1>1, <2>1, Zenon DEF From
<1> QED BY <1>2, <1>3, Zenon

\* No output is lost, sent twice or sent for another offset.
LEMMA OutputStep ==
  ASSUME ControlInv, DataInv, OutputInv, [Next]_vars
  PROVE  OutputInv'
<1>1. CASE Quiet
  <2>1. \A p : p \notin failed' => p \notin failed
    BY <1>1, Zenon DEF Quiet
  <2>2. /\ committed' = committed /\ sink' = sink /\ txnSink' = txnSink
        /\ outs' = outs /\ next' = next /\ (pc' \in Live => pc \in Live)
    BY <1>1, Zenon DEF Quiet, broker, txn
  <2> QED BY <2>1, <2>2, Zenon DEF OutputInv
<1>2. ASSUME pc' \notin Live, UNCHANGED <<committed, sink>> PROVE OutputInv'
  BY <1>2, Zenon DEF OutputInv
<1>3. ASSUME NEW p \in Partitions, FoldRecord(p) PROVE OutputInv'
  <2> DEFINE k == KeyOf[p][next[p]]
             v == Append(db[p][k], next[p])
             w == [off |-> next[p], val |-> v]
  <2>1. w \in Outputs /\ outs' = [outs EXCEPT ![p] = Append(outs[p], w)]
    BY <1>3, FoldTypes, Zenon DEF FoldRecord
  <2>2. w.off = next[p]
    BY Zenon
  <2> HIDE DEF w
  <2>3. /\ committed' = committed /\ sink' = sink /\ txnSink' = txnSink
        /\ pc \in Live /\ p \notin failed
        /\ \A q : q \notin failed' => q \notin failed
        /\ \A q \in Partitions \ {p} : next'[q] = next[q]
        /\ p \notin failed' => next'[p] = next[p] + 1
    BY <1>3, Zenon DEF FoldRecord, broker, txn, Live, ControlInv
  <2>4. ASSUME NEW q \in Partitions, q \notin failed'
        PROVE  /\ committed'[q] + Len(txnSink'[q]) + Len(outs'[q]) = next'[q]
               /\ From(txnSink'[q], committed'[q])
               /\ From(outs'[q], committed'[q] + Len(txnSink'[q]))
    <3>1. /\ committed[q] + Len(txnSink[q]) + Len(outs[q]) = next[q]
          /\ From(txnSink[q], committed[q])
          /\ From(outs[q], committed[q] + Len(txnSink[q]))
      BY <2>3, <2>4, Zenon DEF OutputInv
    <3>2. CASE q # p
      <4>1. outs'[q] = outs[q] /\ next'[q] = next[q]
        BY <2>1, <2>3, <3>2, Zenon DEF DataInv
      <4> QED BY <2>3, <3>1, <4>1, Zenon
    <3>3. CASE q = p
      <4>1. /\ outs[p] \in Seq(Outputs) /\ txnSink[p] \in Seq(Outputs)
            /\ committed[p] \in Nat
        BY Zenon DEF DataInv, ControlInv
      <4>2. outs'[p] = Append(outs[p], w) /\ next'[p] = next[p] + 1
        BY <2>1, <2>3, <2>4, <3>3, Zenon DEF DataInv
      <4>3. /\ Len(outs'[p]) = Len(outs[p]) + 1
            /\ Len(outs[p]) \in Nat /\ Len(txnSink[p]) \in Nat
        BY <2>1, <4>1, <4>2, AppendParts
      <4>4. w.off = (committed[p] + Len(txnSink[p])) + Len(outs[p])
        BY <2>2, <3>1, <3>3, Zenon
      <4>5. committed[p] + Len(txnSink[p]) \in Nat
        BY <4>1, <4>3
      <4>6. From(outs'[p], committed[p] + Len(txnSink[p]))
        BY <2>1, <3>1, <3>3, <4>1, <4>2, <4>4, <4>5, FromAppend, Zenon
      <4>7. committed[p] + Len(txnSink[p]) + Len(outs'[p]) = next'[p]
        <5> DEFINE c == committed[p]
                   t == Len(txnSink[p])
                   a == Len(outs[p])
                   b == Len(outs'[p])
                   n == next[p]
        <5>1. c \in Nat /\ t \in Nat /\ a \in Nat /\ b = a + 1 /\ c + t + a = n
          BY <3>1, <3>3, <4>1, <4>3, Zenon
        <5> HIDE DEF c, t, a, b, n
        <5>2. c + t + b = n + 1
          BY <5>1
        <5> QED BY <4>2, <5>2, Zenon DEF c, t, b, n
      <4> QED BY <2>3, <3>1, <3>3, <4>6, <4>7, Zenon
    <3> QED BY <3>2, <3>3, Zenon
  <2> QED BY <2>3, <2>4, Zenon DEF OutputInv
<1>4. CASE Produce
  <2>1. /\ committed' = committed /\ sink' = sink /\ next' = next
        /\ failed = {} /\ pc \in Live
        /\ outs' = NoRecords
        /\ txnSink' = [p \in Partitions |-> txnSink[p] \o outs[p]]
    BY <1>4, Zenon DEF Produce, ControlInv, broker, batch, Live
  <2>2. ASSUME NEW q \in Partitions
        PROVE  /\ committed'[q] + Len(txnSink'[q]) + Len(outs'[q]) = next'[q]
               /\ From(txnSink'[q], committed'[q])
               /\ From(outs'[q], committed'[q] + Len(txnSink'[q]))
    <3>1. /\ committed[q] + Len(txnSink[q]) + Len(outs[q]) = next[q]
          /\ From(txnSink[q], committed[q])
          /\ From(outs[q], committed[q] + Len(txnSink[q]))
      BY <2>1, Zenon DEF OutputInv
    <3>2. /\ outs[q] \in Seq(Outputs) /\ txnSink[q] \in Seq(Outputs)
          /\ committed[q] \in Nat
      BY Zenon DEF DataInv, ControlInv
    <3>3. outs'[q] = <<>> /\ txnSink'[q] = txnSink[q] \o outs[q]
      BY <2>1, Zenon DEF NoRecords
    <3>4. From(txnSink'[q], committed[q])
      BY <3>1, <3>2, <3>3, FromConcat, Zenon
    <3>5. Len(txnSink'[q]) = Len(txnSink[q]) + Len(outs[q]) /\ Len(outs'[q]) = 0
      BY <3>2, <3>3, ConcatParts
    <3>6. From(outs'[q], committed'[q] + Len(txnSink'[q]))
      BY <3>5 DEF From
    <3>7. committed[q] + Len(txnSink'[q]) + Len(outs'[q]) = next[q]
      <4> DEFINE c == committed[q]
                 t == Len(txnSink[q])
                 a == Len(outs[q])
                 t2 == Len(txnSink'[q])
                 n == next[q]
      <4>1. t \in Nat /\ a \in Nat
        BY <3>2, SeqParts, Zenon
      <4>2. c \in Nat /\ t2 = t + a /\ c + t + a = n
        BY <3>1, <3>2, <3>5, Zenon
      <4>3. Len(outs'[q]) = 0
        BY <3>5, Zenon
      <4> HIDE DEF c, t, a, t2, n
      <4>4. c + t2 + 0 = n
        BY <4>1, <4>2
      <4> QED BY <4>3, <4>4, Zenon DEF c, t2, n
    <3> QED BY <2>1, <3>4, <3>6, <3>7, Zenon
  <2> QED BY <2>1, <2>2, Zenon DEF OutputInv
<1>5. CASE Published
  <2>1. /\ pc \in Live /\ failed = {} /\ outs = NoRecords /\ batchEnd = next
    BY <1>5, Zenon DEF Published, CommitDue, ControlInv, Live, Between
  <2>2. /\ committed' = next /\ next' = next /\ outs' = outs
        /\ sink' = [p \in Partitions |-> sink[p] \o txnSink[p]]
        /\ txnSink' = NoRecords
    BY <1>5, <2>1, Zenon DEF Published, Publish, Abort, batch
  <2>3. ASSUME NEW q \in Partitions
        PROVE  /\ Len(sink'[q]) = committed'[q] /\ From(sink'[q], 0)
               /\ committed'[q] + Len(txnSink'[q]) + Len(outs'[q]) = next'[q]
               /\ From(txnSink'[q], committed'[q])
               /\ From(outs'[q], committed'[q] + Len(txnSink'[q]))
    <3>1. /\ Len(sink[q]) = committed[q] /\ From(sink[q], 0)
          /\ committed[q] + Len(txnSink[q]) + Len(outs[q]) = next[q]
          /\ From(txnSink[q], committed[q])
      BY <2>1, Zenon DEF OutputInv
    <3>2. /\ sink[q] \in Seq(Outputs) /\ txnSink[q] \in Seq(Outputs)
          /\ committed[q] \in Nat /\ next[q] \in Nat
      BY Zenon DEF DataInv, ControlInv
    <3>3. /\ outs[q] = <<>> /\ outs'[q] = <<>> /\ txnSink'[q] = <<>>
          /\ sink'[q] = sink[q] \o txnSink[q]
      BY <2>1, <2>2, Zenon DEF NoRecords
    <3>4. From(txnSink[q], 0 + Len(sink[q]))
      BY <3>1, <3>2
    <3>5. From(sink'[q], 0)
      BY <3>1, <3>2, <3>3, <3>4, FromConcat, Zenon
    <3>6. Len(sink'[q]) = Len(sink[q]) + Len(txnSink[q])
      BY <3>2, <3>3, ConcatParts
    <3>7. Len(outs[q]) = 0 /\ Len(outs'[q]) = 0 /\ Len(txnSink'[q]) = 0
          /\ Len(txnSink[q]) \in Nat
      BY <3>2, <3>3
    <3>8. From(txnSink'[q], committed'[q])
      BY <3>7 DEF From
    <3>9. From(outs'[q], committed'[q] + Len(txnSink'[q]))
      BY <3>7 DEF From
    <3>10. Len(sink'[q]) = next[q]
           /\ next[q] + Len(txnSink'[q]) + Len(outs'[q]) = next[q]
      BY <3>1, <3>2, <3>6, <3>7
    <3> QED BY <2>2, <3>5, <3>8, <3>9, <3>10, Zenon
  <2> QED BY <2>3, Zenon DEF OutputInv
<1>6. CASE Started
  <2>1. PICK opened \in SUBSET Partitions : StartLoop(opened)
    BY <1>6, Zenon DEF Started
  <2>2. /\ committed' = committed /\ sink' = sink /\ next' = committed
        /\ outs' = NoRecords /\ txnSink' = NoRecords
    BY <1>6, <2>1, Zenon DEF Started, StartLoop, ControlInv, Between, broker, txn
  <2>3. ASSUME NEW q \in Partitions
        PROVE  /\ committed'[q] + Len(txnSink'[q]) + Len(outs'[q]) = next'[q]
               /\ From(txnSink'[q], committed'[q])
               /\ From(outs'[q], committed'[q] + Len(txnSink'[q]))
    <3>1. txnSink'[q] = <<>> /\ outs'[q] = <<>> /\ committed[q] \in Nat
      BY <2>2, Zenon DEF NoRecords, ControlInv
    <3> QED BY <2>2, <3>1 DEF From
  <2> QED BY <2>2, <2>3, Zenon DEF OutputInv
<1>7. ASSUME NEW p \in Partitions, CloseTask(p)
      PROVE  pc' \notin Live /\ UNCHANGED <<committed, sink>>
  BY <1>7, Zenon DEF CloseTask, Live
<1>8. CASE Exit
  BY <1>2, <1>8, Zenon DEF Exit, Live, broker
<1>9. CASE Dropped
  BY <1>2, <1>9, Zenon DEF Dropped, Live, broker
<1> QED BY <1>1, <1>2, <1>3, <1>4, <1>5, <1>6, <1>7, <1>8, <1>9, StepKinds, Zenon

\* Nothing has been sent at the first start.
LEMMA OutputInit ==
  ASSUME Init
  PROVE  OutputInv
BY DEF Init, OutputInv, From, NoRecords, Live

-----------------------------------------------------------------------------
(* StateAtLeastOnce.  Logs and stores are compared by the offsets that     *)
(* their values hold.                                                      *)

Elems(v) == {v[i] : i \in 1 .. Len(v)}
Flat(log) == [i \in 1 .. Len(log) |-> [key |-> log[i].key, val |-> Elems(log[i].val)]]
FlatDB(store) == [k \in Keys |-> Elems(store[k])]

\* The changelog of task p as it will be once the transaction is committed.
Whole(p) == (changelog[p] \o txnLog[p]) \o collector[p]

Held(log, p, n) == \A o \in Offsets(p) : o < n => InLog(Flat(log), KeyOf[p][o], o)

LogAt(p) ==
  /\ checkpoint[p] + 1 <= Len(changelog[p])
  /\ Covers(FlatDB(db[p]), Flat(changelog[p]), checkpoint[p] + 1)
  /\ Monotone(Flat(changelog[p]))
  /\ Held(changelog[p], p, committed[p])
  /\ p \in open => /\ Monotone(Flat(Whole(p)))
                   /\ Covers(FlatDB(db[p]), Flat(Whole(p)), Len(Whole(p)))
  /\ p \notin open => txnLog[p] = <<>> /\ collector[p] = <<>>
  /\ pc \in Live => Held(Whole(p), p, next[p])

LogInv == \A p \in Partitions : LogAt(p)

Sets == [key : Keys, val : SUBSET Nat]

\* Appending an offset to a value adds it.
LEMMA ElemsAppend ==
  ASSUME NEW v \in Seq(Nat), NEW o \in Nat
  PROVE  /\ Elems(v) \in SUBSET Nat /\ Elems(Append(v, o)) \in SUBSET Nat
         /\ Elems(Append(v, o)) = Elems(v) \cup {o}
<1>1. /\ Len(v) \in Nat /\ Len(Append(v, o)) = Len(v) + 1
      /\ Append(v, o)[Len(v) + 1] = o
      /\ \A i \in 1 .. Len(v) : Append(v, o)[i] = v[i]
  BY AppendParts
<1>2. \A i \in 1 .. Len(v) : v[i] \in Nat
  BY SeqElement, Zenon
<1>3. 1 .. Len(v) + 1 = 1 .. Len(v) \cup {Len(v) + 1}
  BY <1>1
<1>4. Elems(Append(v, o)) = Elems(v) \cup {o}
  BY <1>1, <1>3 DEF Elems
<1> QED BY <1>2, <1>4, Zenon DEF Elems

\* The records of a log, and the sets of offsets they hold.
LEMMA FlatType ==
  ASSUME NEW log \in Seq(Records)
  PROVE  /\ Flat(log) \in Seq(Sets)
         /\ Len(Flat(log)) = Len(log) /\ Len(log) \in Nat
         /\ \A i \in 1 .. Len(log) : /\ Flat(log)[i].key = log[i].key
                                     /\ Flat(log)[i].val = Elems(log[i].val)
                                     /\ log[i].key \in Keys
<1>1. ASSUME NEW i \in 1 .. Len(log)
      PROVE  log[i].key \in Keys /\ Elems(log[i].val) \in SUBSET Nat
  <2>1. log[i].key \in Keys /\ log[i].val \in Seq(Nat)
    BY RecordType, Zenon DEF Records, Values
  <2> QED BY <2>1, SeqElement, Zenon DEF Elems
<1>2. Len(log) \in Nat
  OBVIOUS
<1>3. ASSUME NEW i \in 1 .. Len(log) PROVE Flat(log)[i] \in Sets
  BY <1>1, Zenon DEF Flat, Sets
<1>4. Flat(log) = [i \in 1 .. Len(log) |-> Flat(log)[i]]
  BY Zenon DEF Flat
<1>5. Flat(log) \in Seq(Sets) /\ Len(Flat(log)) = Len(log)
  <2> DEFINE f == Flat(log)
  <2>1. f \in [1 .. Len(log) -> Sets]
    <3>1. f = [i \in 1 .. Len(log) |-> f[i]] /\ \A i \in 1 .. Len(log) : f[i] \in Sets
      BY <1>3, <1>4, Zenon
    <3> HIDE DEF f
    <3> QED BY <3>1, Zenon
  <2> HIDE DEF f
  <2>2. f \in Seq(Sets) /\ Len(f) = Len(log)
    BY <1>2, <2>1
  <2> QED BY <2>2, Zenon DEF f
<1>6. ASSUME NEW i \in 1 .. Len(log)
      PROVE  Flat(log)[i].key = log[i].key /\ Flat(log)[i].val = Elems(log[i].val)
  BY Zenon DEF Flat
<1> QED BY <1>1, <1>2, <1>5, <1>6, Zenon

\* The sets of offsets a store holds.
LEMMA FlatDBType ==
  ASSUME NEW d \in [Keys -> Values]
  PROVE  FlatDB(d) \in [Keys -> SUBSET Nat]
<1>1. ASSUME NEW k \in Keys PROVE Elems(d[k]) \in SUBSET Nat
  <2>1. d[k] \in Seq(Nat)
    BY Zenon DEF Values
  <2> QED BY <2>1, SeqElement, Zenon DEF Elems
<1> QED BY <1>1, Zenon DEF FlatDB

\* Two logs that agree up to the length of the first also do as sets.
LEMMA FlatPrefix ==
  ASSUME NEW s \in Seq(Records), NEW t \in Seq(Records), PrefixOf(s, t)
  PROVE  PrefixOf(Flat(s), Flat(t))
<1>1. Len(Flat(s)) = Len(s) /\ Len(Flat(t)) = Len(t) /\ Len(s) \in Nat /\ Len(t) \in Nat
  BY FlatType, Zenon
<1>2. ASSUME NEW i \in 1 .. Len(s) PROVE Flat(s)[i] = Flat(t)[i]
  <2>1. s[i] = t[i] /\ i \in 1 .. Len(t)
    BY <1>1 DEF PrefixOf
  <2> QED BY <2>1, Zenon DEF Flat
<1> QED BY <1>1, <1>2, Zenon DEF PrefixOf

\* Leaving records out of a log leaves them out of its sets.
LEMMA FlatWithin ==
  ASSUME NEW s \in Seq(Records), NEW t \in Seq(Records), Within(s, t)
  PROVE  Within(Flat(s), Flat(t))
<1>1. Len(Flat(s)) = Len(s) /\ Len(Flat(t)) = Len(t) /\ Len(s) \in Nat /\ Len(t) \in Nat
  BY FlatType, Zenon
<1>2. PICK f \in [1 .. Len(s) -> 1 .. Len(t)] :
        /\ \A i, j \in 1 .. Len(s) : i < j => f[i] < f[j]
        /\ \A i \in 1 .. Len(s) : s[i] = t[f[i]]
  BY Zenon DEF Within
<1>3. ASSUME NEW i \in 1 .. Len(s) PROVE Flat(s)[i] = Flat(t)[f[i]]
  <2>1. s[i] = t[f[i]] /\ f[i] \in 1 .. Len(t)
    BY <1>2, Zenon
  <2> QED BY <2>1, Zenon DEF Flat
<1> QED BY <1>1, <1>2, <1>3, Zenon DEF Within

\* Appending a record appends the set of its offsets.
LEMMA FlatAppend ==
  ASSUME NEW log \in Seq(Records), NEW k \in Keys, NEW v \in Values
  PROVE  Flat(Append(log, [key |-> k, val |-> v]))
           = Append(Flat(log), [key |-> k, val |-> Elems(v)])
<1> DEFINE r == [key |-> k, val |-> v]
           s == [key |-> k, val |-> Elems(v)]
           L == Append(log, r)
           M == Append(Flat(log), s)
<1>1. r \in Records /\ r.key = k /\ r.val = v
  BY Zenon DEF Records
<1>2. s \in Sets
  BY SeqElement DEF Sets, Values, Elems
<1>3. Flat(log) \in Seq(Sets) /\ Len(Flat(log)) = Len(log) /\ Len(log) \in Nat
  BY FlatType, Zenon
<1> HIDE DEF r
<1>4. /\ L \in Seq(Records) /\ Len(L) = Len(log) + 1 /\ L[Len(log) + 1] = r
      /\ \A i \in 1 .. Len(log) : L[i] = log[i]
  BY <1>1, AppendParts
<1> USE DEF r
<1> HIDE DEF s
<1>5. /\ M \in Seq(Sets) /\ Len(M) = Len(log) + 1 /\ M[Len(log) + 1] = s
      /\ \A i \in 1 .. Len(log) : M[i] = Flat(log)[i]
  BY <1>2, <1>3, AppendParts
<1> HIDE DEF L, M, r
<1>6. ASSUME NEW i \in 1 .. Len(log) + 1 PROVE Flat(L)[i] = M[i]
  <2>1. Flat(L)[i] = [key |-> L[i].key, val |-> Elems(L[i].val)]
    BY <1>4, Zenon DEF Flat
  <2>2. CASE i = Len(log) + 1
    BY <2>1, <2>2, <1>1, <1>4, <1>5, Zenon DEF s
  <2>3. CASE i # Len(log) + 1
    <3>1. i \in 1 .. Len(log)
      BY <1>3, <2>3
    <3>2. Flat(log)[i] = [key |-> log[i].key, val |-> Elems(log[i].val)]
      BY <3>1, Zenon DEF Flat
    <3> QED BY <2>1, <3>1, <3>2, <1>4, <1>5, Zenon
  <2> QED BY <2>2, <2>3, Zenon
<1>7. Flat(L) \in Seq(Sets) /\ Len(Flat(L)) = Len(log) + 1
  BY <1>4, FlatType, Zenon
<1>8. Flat(L) = M
  <2> DEFINE F == Flat(L)
  <2>1. /\ F \in Seq(Sets) /\ M \in Seq(Sets) /\ Len(F) = Len(M)
        /\ \A i \in 1 .. Len(F) : F[i] = M[i]
    BY <1>5, <1>6, <1>7, Zenon
  <2> HIDE DEF F
  <2>2. F = M
    BY <2>1, SeqSame, Zenon
  <2> QED BY <2>2, Zenon DEF F
<1> QED BY <1>8, Zenon DEF L, M, r, s

\* A replay and what it means for the sets of offsets.
LEMMA FlatReplay ==
  ASSUME NEW log \in Seq(Records), NEW start \in Nat, NEW d \in [Keys -> Values]
  PROVE  FlatDB(Replay(log, start, d)) = Replay(Flat(log), start, FlatDB(d))
<1>1. /\ Len(Flat(log)) = Len(log) /\ Len(log) \in Nat
      /\ \A i \in 1 .. Len(log) : /\ Flat(log)[i].key = log[i].key
                                  /\ Flat(log)[i].val = Elems(log[i].val)
  BY FlatType, Zenon
<1>2. ASSUME NEW k \in Keys
      PROVE  Elems(Replay(log, start, d)[k]) = Replay(Flat(log), start, FlatDB(d))[k]
  <2>1. PlacesOf(Flat(log), start, k) = PlacesOf(log, start, k)
    BY <1>1 DEF PlacesOf
  <2>2. FlatDB(d)[k] = Elems(d[k]) /\ k \in DOMAIN d /\ k \in DOMAIN FlatDB(d)
    BY Zenon DEF FlatDB
  <2> DEFINE P == PlacesOf(log, start, k)
  <2>3. CASE P = {}
    <3>1. Replay(log, start, d)[k] = d[k]
      BY <2>2, <2>3, Zenon DEF Replay
    <3>2. Replay(Flat(log), start, FlatDB(d))[k] = FlatDB(d)[k]
      BY <2>1, <2>2, <2>3, Zenon DEF Replay
    <3> QED BY <2>2, <3>1, <3>2, Zenon
  <2>4. CASE P # {}
    <3> DEFINE m == CHOOSE i \in P : IsLast(P, i)
    <3>1. Replay(log, start, d)[k] = log[m].val
      BY <2>2, <2>4, Zenon DEF Replay
    <3>2. Replay(Flat(log), start, FlatDB(d))[k] = Flat(log)[m].val
      BY <2>1, <2>2, <2>4, Zenon DEF Replay
    <3>3. m \in 1 .. Len(log)
      <4>1. P \in SUBSET (1 .. Len(log))
        BY <1>1 DEF PlacesOf
      <4>2. \E i \in P : IsLast(P, i)
        BY <1>1, <2>4, <4>1, HasLast, Zenon
      <4> HIDE DEF P
      <4>3. m \in P
        BY <4>2, Zenon
      <4> QED BY <4>1, <4>3, Zenon
    <3> HIDE DEF m
    <3> QED BY <1>1, <3>1, <3>2, <3>3, Zenon
  <2> QED BY <2>3, <2>4, Zenon
<1>3. FlatDB(Replay(log, start, d)) = [k \in Keys |-> Elems(Replay(log, start, d)[k])]
  BY Zenon DEF FlatDB
<1>4. Replay(Flat(log), start, FlatDB(d))
        = [k \in Keys |-> Replay(Flat(log), start, FlatDB(d))[k]]
  BY DEF Replay, FlatDB
<1> QED BY <1>2, <1>3, <1>4, Zenon

\* A restore from a store that covers the log up to the checkpoint covers all
\* of it.
LEMMA FlatRestore ==
  ASSUME NEW log \in Seq(Records), NEW c \in Int, NEW d \in [Keys -> Values],
         Monotone(Flat(log)), Covers(FlatDB(d), Flat(log), c + 1)
  PROVE  Covers(FlatDB(RestoredDB(log, c, d)), Flat(log), Len(log))
<1>1. Flat(log) \in Seq(Sets) /\ Len(Flat(log)) = Len(log)
  BY FlatType, Zenon
<1>2. FlatDB(d) \in [Keys -> SUBSET Nat]
  BY FlatDBType, Zenon
<1>3. StartOffset(c) \in Nat
  BY StartOffsetRange, Zenon
<1>4. FlatDB(RestoredDB(log, c, d)) = RestoredDB(Flat(log), c, FlatDB(d))
  BY <1>1, <1>3, FlatReplay, Zenon DEF RestoredDB, CaughtUp
<1>5. Covers(RestoredDB(Flat(log), c, FlatDB(d)), Flat(log), Len(Flat(log)))
  BY <1>1, <1>2, RestoreCovers, Zenon DEF Sets
<1> QED BY <1>1, <1>4, <1>5, Zenon

\* The logs of a task are logs.
LEMMA WholeType ==
  ASSUME DataInv, NEW p \in Partitions
  PROVE  /\ changelog[p] \in Seq(Records) /\ txnLog[p] \in Seq(Records)
         /\ collector[p] \in Seq(Records)
         /\ changelog[p] \o txnLog[p] \in Seq(Records)
         /\ Whole(p) \in Seq(Records)
         /\ PrefixOf(changelog[p], Whole(p))
<1>1. /\ changelog[p] \in Seq(Records) /\ txnLog[p] \in Seq(Records)
      /\ collector[p] \in Seq(Records)
  BY Zenon DEF DataInv
<1> DEFINE a == changelog[p]
           b == txnLog[p]
           c == collector[p]
           ab == a \o b
<1> HIDE DEF a, b, c
<1>2. ab \in Seq(Records) /\ PrefixOf(a, ab)
  BY <1>1, ConcatParts, ConcatPrefix, Zenon DEF a, b
<1> HIDE DEF ab
<1>3. ab \o c \in Seq(Records) /\ PrefixOf(ab, ab \o c)
  BY <1>1, <1>2, ConcatParts, ConcatPrefix, Zenon DEF c
<1>4. PrefixOf(a, ab \o c)
  BY <1>2, <1>3 DEF PrefixOf
<1> QED BY <1>1, <1>2, <1>3, <1>4, Zenon DEF Whole, a, b, c, ab

\* A task that the step leaves alone.
LEMMA LogSame ==
  ASSUME NEW p, LogAt(p),
         changelog'[p] = changelog[p], txnLog'[p] = txnLog[p],
         collector'[p] = collector[p], db'[p] = db[p],
         checkpoint'[p] = checkpoint[p], committed'[p] = committed[p],
         pc' \in Live => pc \in Live /\ next'[p] = next[p],
         p \in open' <=> p \in open
  PROVE  LogAt(p)'
<1>1. Whole(p)' = Whole(p)
  BY Zenon DEF Whole
<1>2. /\ checkpoint[p] + 1 <= Len(changelog[p])
      /\ Covers(FlatDB(db[p]), Flat(changelog[p]), checkpoint[p] + 1)
      /\ Monotone(Flat(changelog[p]))
      /\ Held(changelog[p], p, committed[p])
      /\ p \in open => /\ Monotone(Flat(Whole(p)))
                       /\ Covers(FlatDB(db[p]), Flat(Whole(p)), Len(Whole(p)))
      /\ p \notin open => txnLog[p] = <<>> /\ collector[p] = <<>>
      /\ pc \in Live => Held(Whole(p), p, next[p])
  BY Zenon DEF LogAt
<1> QED BY <1>1, <1>2, Zenon DEF LogAt

\* A log that is all published is all there is.
LEMMA WholeIsLog ==
  ASSUME NEW log \in Seq(Records)
  PROVE  (log \o <<>>) \o <<>> = log
<1>1. log \o <<>> = log
  BY ConcatEmpty, Zenon
<1> QED BY <1>1, Zenon

\* A fold appends to what will be the log.
LEMMA WholeFold ==
  ASSUME ControlInv, DataInv, NEW p \in Partitions, FoldRecord(p)
  PROVE  LET k == KeyOf[p][next[p]]
             r == [key |-> k, val |-> Append(db[p][k], next[p])]
         IN  Whole(p)' = Append(Whole(p), r)
<1> DEFINE k == KeyOf[p][next[p]]
           v == Append(db[p][k], next[p])
           r == [key |-> k, val |-> v]
           ab == changelog[p] \o txnLog[p]
           c == collector[p]
<1>1. /\ r \in Records
      /\ collector' = [collector EXCEPT ![p] = Append(collector[p], r)]
  BY FoldTypes, Zenon DEF FoldRecord
<1>2. changelog' = changelog /\ txnLog' = txnLog
  BY Zenon DEF FoldRecord, broker, txn
<1>3. ab \in Seq(Records) /\ c \in Seq(Records)
  BY WholeType, Zenon
<1>4. collector'[p] = Append(c, r)
  BY <1>1, Zenon DEF DataInv
<1> HIDE DEF r
<1>5. Whole(p) = ab \o c /\ Whole(p)' = ab \o Append(c, r)
  BY <1>2, <1>4, Zenon DEF Whole
<1> HIDE DEF ab, c
<1>6. ab \o Append(c, r) = Append(ab \o c, r)
  BY <1>1, <1>3, ConcatAppend
<1> QED BY <1>5, <1>6, Zenon DEF r

\* A batch that joins the transaction was already part of it.
LEMMA WholeProduce ==
  ASSUME DataInv, LogInv, Produce, NEW p \in Partitions
  PROVE  Drained(p) = collector[p] /\ Whole(p)' = Whole(p)
<1> DEFINE a == changelog[p]
           b == txnLog[p]
           c == collector[p]
<1>1. Drained(p) = c
  BY Zenon DEF LogInv, LogAt, Drained
<1>2. changelog'[p] = a /\ txnLog'[p] = b \o c /\ collector'[p] = <<>>
  BY <1>1, Zenon DEF Produce, broker, NoRecords
<1>3. /\ a \in Seq(Records) /\ b \in Seq(Records) /\ c \in Seq(Records)
      /\ Whole(p) = (a \o b) \o c
  BY WholeType, Zenon DEF Whole
<1>4. Whole(p)' = (a \o (b \o c)) \o <<>>
  BY <1>2, Zenon DEF Whole
<1>5. Drained(p) = collector[p]
  BY <1>1, Zenon
<1> HIDE DEF a, b, c
<1>6. b \o c \in Seq(Records)
  BY <1>3, ConcatParts, Zenon
<1>7. a \o (b \o c) \in Seq(Records)
  BY <1>3, <1>6, ConcatParts, Zenon
<1>8. (a \o (b \o c)) \o <<>> = a \o (b \o c)
  BY <1>7, ConcatEmpty, Zenon
<1>9. (a \o b) \o c = a \o (b \o c)
  BY <1>3, ConcatRegroup
<1> QED BY <1>3, <1>4, <1>5, <1>8, <1>9, Zenon

\* A commit makes all of it the committed log.
LEMMA WholePublished ==
  ASSUME ControlInv, DataInv, Published, NEW p \in Partitions
  PROVE  /\ changelog'[p] = changelog[p] \o txnLog[p]
         /\ Whole(p) = changelog'[p] /\ Whole(p)' = changelog'[p]
<1> DEFINE ab == changelog[p] \o txnLog[p]
<1>1. /\ changelog'[p] = ab /\ txnLog'[p] = <<>>
      /\ collector[p] = <<>> /\ collector'[p] = <<>>
  BY Zenon DEF Published, Publish, Abort, CommitDue, ControlInv, Between, NoRecords
<1>2. ab \in Seq(Records)
  BY WholeType, Zenon
<1>3. Whole(p) = ab \o <<>> /\ Whole(p)' = (ab \o <<>>) \o <<>>
  BY <1>1, Zenon DEF Whole
<1> HIDE DEF ab
<1>4. Whole(p) = ab /\ Whole(p)' = ab
  BY <1>2, <1>3, ConcatEmpty, WholeIsLog, Zenon
<1> QED BY <1>1, <1>4, Zenon DEF ab

\* A start begins with the committed log.
LEMMA WholeStarted ==
  ASSUME ControlInv, DataInv, Started, NEW p \in Partitions
  PROVE  Whole(p)' = changelog[p]
<1>1. changelog'[p] = changelog[p] /\ txnLog'[p] = <<>> /\ collector'[p] = <<>>
  BY Zenon DEF Started, StartLoop, ControlInv, Between, broker, txn, NoRecords
<1>2. changelog[p] \in Seq(Records)
  BY WholeType, Zenon
<1>3. Whole(p)' = (changelog[p] \o <<>>) \o <<>>
  BY <1>1, Zenon DEF Whole
<1> QED BY <1>2, <1>3, WholeIsLog, Zenon

\* The transaction is aborted: what is left in the collector still goes with
\* the committed records.
LEMMA LogDropped ==
  ASSUME DataInv, DataInv', LogInv, Dropped, NEW p \in Partitions
  PROVE  LogAt(p)'
<1>1. /\ changelog' = changelog /\ db' = db /\ checkpoint' = checkpoint
      /\ committed' = committed /\ open' = open /\ pc' \notin Live
      /\ txnLog'[p] = <<>>
      /\ collector'[p] = collector[p] \/ collector'[p] = <<>>
  BY Zenon DEF Dropped, broker, disk, Live, Abort, NoRecords
<1>2. LogAt(p)
  BY Zenon DEF LogInv
<1> DEFINE a == changelog[p]
           b == txnLog[p]
           c == collector[p]
           W == Whole(p)
<1>3. a \in Seq(Records) /\ b \in Seq(Records) /\ c \in Seq(Records) /\ W \in Seq(Records)
  BY WholeType, Zenon
<1>4. ASSUME p \in open
      PROVE  Monotone(Flat(Whole(p)')) /\ Covers(FlatDB(db[p]), Flat(Whole(p)'), Len(Whole(p)'))
  <2>1. Whole(p)' = (a \o <<>>) \o collector'[p] /\ a \o <<>> = a
    BY <1>1, <1>3, ConcatEmpty, Zenon DEF Whole
  <2>2. Whole(p)' \in Seq(Records)
    <3>1. collector'[p] \in Seq(Records)
      BY Zenon DEF DataInv
    <3> QED BY <1>3, <2>1, <3>1, ConcatParts
  <2>3. Within(Whole(p)', W)
    <3>1. CASE collector'[p] = c
      <4>1. Within(a \o c, (a \o b) \o c)
        BY <1>3, DropMiddle, Zenon
      <4> QED BY <2>1, <3>1, <4>1, Zenon DEF Whole
    <3>2. CASE collector'[p] = <<>>
      <4>1. Whole(p)' = a
        BY <1>3, <2>1, <3>2, ConcatEmpty, Zenon
      <4>2. PrefixOf(a, W)
        BY WholeType, Zenon
      <4> HIDE DEF a, W
      <4> DEFINE f == [i \in 1 .. Len(a) |-> i]
      <4>3. /\ f \in [1 .. Len(a) -> 1 .. Len(W)]
            /\ \A i, j \in 1 .. Len(a) : i < j => f[i] < f[j]
            /\ \A i \in 1 .. Len(a) : a[i] = W[f[i]]
        BY <4>2 DEF PrefixOf
      <4>4. Len(a) \in Nat /\ Len(W) \in Nat
        BY <4>2, Zenon DEF PrefixOf
      <4> HIDE DEF f
      <4>5. Within(a, W)
        BY <4>3, <4>4, Zenon DEF Within
      <4> QED BY <4>1, <4>5, Zenon
    <3> QED BY <1>1, <3>1, <3>2, Zenon
  <2>4. Within(Flat(Whole(p)'), Flat(W))
    BY <1>3, <2>2, <2>3, FlatWithin, Zenon
  <2>5. Monotone(Flat(W)) /\ Covers(FlatDB(db[p]), Flat(W), Len(Flat(W)))
    <3>1. Len(Flat(W)) = Len(W)
      BY <1>3, FlatType, Zenon
    <3> QED BY <1>2, <1>4, <3>1, Zenon DEF LogAt
  <2>6. /\ Monotone(Flat(Whole(p)'))
        /\ Covers(FlatDB(db[p]), Flat(Whole(p)'), Len(Flat(Whole(p)')))
    BY <2>4, <2>5, WithinCovers, Zenon
  <2>7. Len(Flat(Whole(p)')) = Len(Whole(p)')
    BY <2>2, FlatType, Zenon
  <2> QED BY <2>6, <2>7, Zenon
<1> QED BY <1>1, <1>2, <1>4, Zenon DEF LogAt

\* A record is folded in, logged and sent.
LEMMA LogFold ==
  ASSUME ControlInv, DataInv, LogInv, NEW p \in Partitions, FoldRecord(p)
  PROVE  LogAt(p)'
<1> DEFINE k == KeyOf[p][next[p]]
           v == Append(db[p][k], next[p])
           r == [key |-> k, val |-> v]
           s == [key |-> k, val |-> Elems(v)]
           W == Whole(p)
           d == db[p]
<1>1. /\ k \in Keys /\ v \in Values /\ r \in Records
      /\ db' = [db EXCEPT ![p] = [db[p] EXCEPT ![k] = v]]
      /\ collector' = [collector EXCEPT ![p] = Append(collector[p], r)]
  BY FoldTypes, Zenon DEF FoldRecord
<1>2. /\ changelog' = changelog /\ checkpoint' = checkpoint /\ txnLog' = txnLog
      /\ committed' = committed /\ open' = open /\ p \in open /\ pc \in Live
      /\ next'[p] = next[p] + 1 \/ next'[p] = next[p]
  BY Zenon DEF FoldRecord, broker, txn, Live, ControlInv
<1>3. /\ next[p] \in Nat /\ next[p] \in Offsets(p)
  BY InputKey, Zenon DEF FoldRecord
<1>4. LogAt(p)
  BY Zenon DEF LogInv
<1>5. /\ changelog[p] \in Seq(Records) /\ collector[p] \in Seq(Records)
      /\ changelog[p] \o txnLog[p] \in Seq(Records) /\ W \in Seq(Records)
      /\ PrefixOf(changelog[p], W)
  BY WholeType, Zenon
<1>6. d \in [Keys -> Values]
  BY Zenon DEF DataInv
<1>7. d[k] \in Seq(Nat)
  BY <1>1, <1>6, Zenon DEF Values
<1>8. /\ Elems(v) \in SUBSET Nat /\ Elems(v) = Elems(d[k]) \cup {next[p]}
  BY <1>3, <1>7, ElemsAppend, Zenon
<1>9. collector'[p] = Append(collector[p], r) /\ db'[p] = [d EXCEPT ![k] = v]
  BY <1>1, Zenon DEF DataInv
<1> HIDE DEF k, v
<1>10. Flat(Append(W, r)) = Append(Flat(W), s)
  BY <1>1, <1>5, FlatAppend, Zenon
<1>11. s \in Sets /\ s.key = k /\ s.val = Elems(v)
  BY <1>1, <1>8, Zenon DEF Sets
<1>12. Whole(p)' = Append(W, r)
  BY WholeFold, Zenon DEF k, v
<1> HIDE DEF r
<1>13. /\ Append(W, r) \in Seq(Records) /\ Len(Append(W, r)) = Len(W) + 1
       /\ PrefixOf(W, Append(W, r))
  BY <1>1, <1>5, AppendParts DEF PrefixOf
<1> HIDE DEF W
<1>14. /\ Flat(W) \in Seq(Sets) /\ Len(Flat(W)) = Len(W)
       /\ Len(Flat(Append(W, r))) = Len(Append(W, r))
  BY <1>5, <1>13, FlatType, Zenon
<1>15. FlatDB(d) \in [Keys -> SUBSET Nat] /\ FlatDB(d)[k] = Elems(d[k])
  <2>1. FlatDB(d) \in [Keys -> SUBSET Nat]
    BY <1>6, FlatDBType, Zenon
  <2> QED BY <1>1, <2>1, Zenon DEF FlatDB
<1>16. FlatDB(db'[p]) = [FlatDB(d) EXCEPT ![k] = Elems(v)]
  <2>1. FlatDB(db'[p]) = [x \in Keys |-> Elems(db'[p][x])]
    BY Zenon DEF FlatDB
  <2>2. [FlatDB(d) EXCEPT ![k] = Elems(v)]
          = [x \in Keys |-> IF x = k THEN Elems(v) ELSE Elems(d[x])]
    BY <1>1, Zenon DEF FlatDB
  <2>3. \A x \in Keys : db'[p][x] = IF x = k THEN v ELSE d[x]
    BY <1>1, <1>6, <1>9, Zenon
  <2>4. ASSUME NEW x \in Keys
        PROVE  Elems(db'[p][x]) = IF x = k THEN Elems(v) ELSE Elems(d[x])
    BY <2>3, Zenon
  <2> QED BY <2>1, <2>2, <2>4, Zenon
<1>17. Monotone(Flat(W)) /\ Covers(FlatDB(d), Flat(W), Len(Flat(W)))
  BY <1>2, <1>4, <1>14, Zenon DEF LogAt, W
<1> DEFINE D == FlatDB(d)
           F == Flat(W)
           e == Elems(v)
<1> HIDE DEF d, D, F, e
<1>18. /\ Monotone(Append(F, [key |-> k, val |-> e]))
       /\ Covers([D EXCEPT ![k] = e], Append(F, [key |-> k, val |-> e]),
                 Len(Append(F, [key |-> k, val |-> e])))
  <2>1. F \in Seq([key : Keys, val : SUBSET Nat]) /\ D \in [Keys -> SUBSET Nat]
    BY <1>14, <1>15, Zenon DEF F, D, Sets
  <2>2. e \in SUBSET Nat /\ D[k] \subseteq e /\ k \in Keys
    BY <1>1, <1>8, <1>15, Zenon DEF D, e
  <2>3. Monotone(F) /\ Covers(D, F, Len(F))
    BY <1>17, Zenon DEF F, D
  <2> QED BY <2>1, <2>2, <2>3, AppendCovers, Zenon
<1>19. /\ Monotone(Flat(Whole(p)'))
       /\ Covers(FlatDB(db'[p]), Flat(Whole(p)'), Len(Flat(Whole(p)')))
  BY <1>10, <1>12, <1>16, <1>18, Zenon DEF F, D, e, s
<1>20. Len(Flat(Whole(p)')) = Len(Whole(p)')
  BY <1>12, <1>14, Zenon
<1>21. Covers(FlatDB(db'[p]), Flat(changelog[p]), checkpoint[p] + 1)
  <2>1. PrefixOf(changelog[p], Whole(p)')
    BY <1>5, <1>12, <1>13 DEF PrefixOf
  <2>2. Whole(p)' \in Seq(Records)
    BY <1>12, <1>13, Zenon
  <2>3. PrefixOf(Flat(changelog[p]), Flat(Whole(p)'))
    BY <1>5, <2>1, <2>2, FlatPrefix, Zenon
  <2>4. Covers(FlatDB(db'[p]), Flat(changelog[p]), Len(Flat(changelog[p])))
    BY <1>19, <2>3, PrefixCovers, Zenon
  <2>5. Len(Flat(changelog[p])) \in Nat
    BY <2>3, Zenon DEF PrefixOf
  <2> QED BY <2>4, <2>5, CoversAll, Zenon
<1>22. Held(Whole(p)', p, next'[p])
  <2> SUFFICES ASSUME NEW o \in Offsets(p), o < next'[p]
               PROVE  InLog(Flat(Whole(p)'), KeyOf[p][o], o)
    BY Zenon DEF Held
  <2>1. Flat(Whole(p)') = Append(Flat(W), s)
    BY <1>10, <1>12, Zenon
  <2>2. /\ \A kk, oo : InLog(Flat(W), kk, oo) => InLog(Append(Flat(W), s), kk, oo)
        /\ \A oo \in s.val : InLog(Append(Flat(W), s), s.key, oo)
    <3> HIDE DEF s
    <3> QED BY <1>11, <1>14, AppendInLog, Zenon
  <2>3. CASE o < next[p]
    <3>1. InLog(Flat(W), KeyOf[p][o], o)
      BY <1>2, <1>4, <2>3, Zenon DEF LogAt, Held, W
    <3> QED BY <2>1, <2>2, <3>1, Zenon
  <2>4. CASE o = next[p]
    <3>1. o \in s.val /\ s.key = KeyOf[p][o]
      BY <1>8, <1>11, <2>4, Zenon DEF k
    <3> QED BY <2>1, <2>2, <3>1, Zenon
  <2>5. o < next[p] \/ o = next[p]
    BY <1>2, <1>3 DEF Offsets
  <2> QED BY <2>3, <2>4, <2>5, Zenon
<1>23. /\ checkpoint[p] + 1 <= Len(changelog[p])
       /\ Monotone(Flat(changelog[p]))
       /\ Held(changelog[p], p, committed[p])
  BY <1>4, Zenon DEF LogAt
<1> QED BY <1>2, <1>19, <1>20, <1>21, <1>22, <1>23, Zenon DEF LogAt

\* The batch joins the transaction.
LEMMA LogProduce ==
  ASSUME ControlInv, DataInv, LogInv, Produce, NEW p \in Partitions
  PROVE  LogAt(p)'
<1>1. /\ changelog' = changelog /\ db' = db /\ checkpoint' = checkpoint
      /\ committed' = committed /\ open' = open /\ next' = next /\ pc \in Live
      /\ txnLog'[p] = txnLog[p] \o Drained(p)
      /\ collector'[p] = <<>>
  BY Zenon DEF Produce, broker, disk, batch, Live, NoRecords
<1>2. LogAt(p)
  BY Zenon DEF LogInv
<1>3. Drained(p) = collector[p] /\ Whole(p)' = Whole(p)
  BY WholeProduce, Zenon
<1>7. p \notin open => txnLog'[p] = <<>>
  <2>1. <<>> \o <<>> = <<>>
    OBVIOUS
  <2> QED BY <1>1, <1>2, <1>3, <2>1, Zenon DEF LogAt
<1> QED BY <1>1, <1>2, <1>3, <1>7, Zenon DEF LogAt

\* The transaction is committed.
LEMMA LogPublished ==
  ASSUME ControlInv, DataInv, LogInv, Published, NEW p \in Partitions
  PROVE  LogAt(p)'
<1>1. /\ db' = db /\ checkpoint' = checkpoint /\ committed' = next
      /\ open' = open /\ next' = next /\ pc \in Live
      /\ changelog'[p] = changelog[p] \o txnLog[p]
      /\ txnLog'[p] = <<>>
      /\ collector[p] = <<>> /\ collector'[p] = <<>>
  BY Zenon DEF Published, Publish, Abort, CommitDue, ControlInv, Live, Between, disk,
         batch, NoRecords
<1>2. LogAt(p)
  BY Zenon DEF LogInv
<1> DEFINE a == changelog[p]
           ab == a \o txnLog[p]
<1>3. /\ a \in Seq(Records) /\ ab \in Seq(Records) /\ PrefixOf(a, Whole(p))
  BY WholeType, Zenon
<1>5. p \notin open => ab = a
  BY <1>2, <1>3, ConcatEmpty, Zenon DEF LogAt
<1>4. Whole(p) = ab /\ Whole(p)' = ab /\ changelog'[p] = ab
  BY <1>1, WholePublished, Zenon
<1> HIDE DEF a, ab
<1>6. Whole(p)' = ab /\ Whole(p) = ab /\ changelog'[p] = ab
  BY <1>4, Zenon
<1>7. PrefixOf(Flat(a), Flat(ab)) /\ Len(Flat(a)) = Len(a) /\ Len(a) \in Nat
      /\ Len(ab) \in Nat /\ Len(a) <= Len(ab)
  <2>1. PrefixOf(a, ab)
    BY <1>3, <1>6, Zenon
  <2>2. PrefixOf(Flat(a), Flat(ab)) /\ Len(Flat(a)) = Len(a)
    BY <1>3, <2>1, FlatPrefix, FlatType, Zenon
  <2> QED BY <2>1, <2>2, Zenon DEF PrefixOf
<1>8. checkpoint[p] + 1 \in Int
  BY DEF DataInv
<1>9. checkpoint[p] + 1 <= Len(a) /\ Covers(FlatDB(db[p]), Flat(a), checkpoint[p] + 1)
  BY <1>2, Zenon DEF LogAt, a
<1>10. checkpoint[p] + 1 <= Len(ab) /\ Covers(FlatDB(db[p]), Flat(ab), checkpoint[p] + 1)
  <2>1. checkpoint[p] + 1 <= Len(ab)
    BY <1>7, <1>8, <1>9
  <2>2. Covers(FlatDB(db[p]), Flat(ab), checkpoint[p] + 1)
    BY <1>7, <1>8, <1>9, ExtensionCovers, Zenon
  <2> QED BY <2>1, <2>2, Zenon
<1>11. Monotone(Flat(ab))
  <2>1. CASE p \in open
    BY <1>2, <1>6, <2>1, Zenon DEF LogAt
  <2>2. CASE p \notin open
    BY <1>2, <1>5, <2>2, Zenon DEF LogAt, a
  <2> QED BY <2>1, <2>2, Zenon
<1>12. Held(ab, p, next[p])
  BY <1>1, <1>2, <1>6, Zenon DEF LogAt
<1>13. p \in open => Covers(FlatDB(db[p]), Flat(ab), Len(ab))
  BY <1>2, <1>6, Zenon DEF LogAt
<1> QED BY <1>1, <1>6, <1>10, <1>11, <1>12, <1>13, Zenon DEF LogAt

\* Stores are restored from the committed records.
LEMMA LogStarted ==
  ASSUME ControlInv, DataInv, LogInv, Started, NEW p \in Partitions
  PROVE  LogAt(p)'
<1>1. PICK opened, restored \in SUBSET Partitions :
        opened \subseteq restored /\ StartLoop(opened) /\ RestoreTasks(restored)
  BY Zenon DEF Started
<1> DEFINE a == changelog[p]
           c == checkpoint[p]
           d == db[p]
<1>2. /\ changelog' = changelog /\ committed' = committed /\ open' = opened
      /\ next' = committed /\ txnLog'[p] = <<>> /\ collector'[p] = <<>>
      /\ db'[p] = IF p \in restored THEN RestoredDB(a, c, d) ELSE d
      /\ checkpoint'[p] = IF p \in restored THEN RestoredCheckpoint(a, c) ELSE c
  BY <1>1 DEF StartLoop, RestoreTasks, ControlInv, Started, Between, broker, txn,
              NoRecords
<1>3. LogAt(p)
  BY Zenon DEF LogInv
<1>4. a \in Seq(Records) /\ c \in Int /\ d \in [Keys -> Values]
  BY Zenon DEF DataInv
<1>5. Whole(p)' = a
  BY WholeStarted, Zenon
<1>6. /\ c + 1 <= Len(a) /\ Covers(FlatDB(d), Flat(a), c + 1)
      /\ Monotone(Flat(a)) /\ Held(a, p, committed[p])
  BY <1>3, Zenon DEF LogAt
<1> HIDE DEF a, c, d
<1>8. p \in restored => Covers(FlatDB(db'[p]), Flat(a), Len(a))
  BY <1>2, <1>4, <1>6, FlatRestore, Zenon
<1>9. checkpoint'[p] + 1 <= Len(a)
  <2>1. RestoredCheckpoint(a, c) = c \/ RestoredCheckpoint(a, c) = Len(a) - 1
    BY Zenon DEF RestoredCheckpoint
  <2>2. checkpoint'[p] = c \/ checkpoint'[p] = Len(a) - 1
    BY <1>2, <2>1, Zenon
  <2>3. Len(a) \in Nat
    BY <1>4, SeqParts, Zenon
  <2>4. Len(a) - 1 + 1 <= Len(a)
    BY <2>3
  <2> QED BY <1>6, <2>2, <2>4, Zenon
<1>10. Covers(FlatDB(db'[p]), Flat(a), checkpoint'[p] + 1)
  <2>1. CASE p \in restored
    <3>1. Len(Flat(a)) = Len(a) /\ Len(a) \in Nat
      BY <1>4, FlatType, Zenon
    <3> QED BY <1>8, <2>1, <3>1, CoversAll, Zenon
  <2>2. CASE p \notin restored
    BY <1>2, <1>6, <2>2, Zenon
  <2> QED BY <2>1, <2>2, Zenon
<1>11. p \in open' => p \in restored
  BY <1>1, <1>2, Zenon
<1>12. changelog'[p] = a
  BY <1>2, Zenon DEF a
<1> QED BY <1>2, <1>5, <1>6, <1>8, <1>9, <1>10, <1>11, <1>12, Zenon DEF LogAt

\* An offset below the length of a log is below that of an extension of it.
LEMMA AtMostNext ==
  ASSUME NEW x \in Int, NEW y \in Nat, NEW z \in Nat, x + 1 <= y, y <= z
  PROVE  x + 1 <= z
  OBVIOUS

\* A closed task has flushed some of its mutations and may have replayed.
LEMMA LogClose ==
  ASSUME ControlInv, DataInv, LogInv, NEW p \in Partitions, CloseTask(p)
  PROVE  LogAt(p)'
<1> DEFINE a == changelog[p]
           c == collector[p]
           W == Whole(p)
           d == db[p]
<1>1. /\ committed' = committed /\ pc' \notin Live /\ p \in open /\ p \notin open'
      /\ txnLog[p] = <<>> /\ txnLog'[p] = <<>> /\ collector'[p] = <<>>
  BY DEF CloseTask, txn, ControlInv, DataInv, Live, NoRecords
<1>2. PICK n \in 0 .. Len(c) : changelog'[p] = a \o SubSeq(c, 1, n)
  BY Zenon DEF CloseTask, DataInv
<1>3. LogAt(p)
  BY Zenon DEF LogInv
<1>4. a \in Seq(Records) /\ c \in Seq(Records) /\ W \in Seq(Records) /\ d \in [Keys -> Values]
  BY WholeType, Zenon DEF DataInv
<1>5. W = a \o c
  BY <1>1, <1>4, ConcatEmpty, Zenon DEF Whole
<1>6. /\ checkpoint[p] \in Int /\ checkpoint[p] + 1 <= Len(a)
      /\ Covers(FlatDB(d), Flat(a), checkpoint[p] + 1)
      /\ Held(a, p, committed[p])
      /\ Monotone(Flat(W)) /\ Covers(FlatDB(d), Flat(W), Len(W))
  BY <1>1, <1>3, Zenon DEF LogAt, DataInv
<1> DEFINE b == changelog'[p]
<1>7. b \in Seq(Records) /\ PrefixOf(b, W) /\ PrefixOf(a, b)
  BY <1>2, <1>4, <1>5, PartPrefix, Zenon
<1>8. /\ UNCHANGED disk
      \/ /\ db' = [db EXCEPT ![p] = RestoredDB(b, MaxInt64, @)]
         /\ checkpoint' = [checkpoint EXCEPT ![p] = Len(b) - 1]
  BY Zenon DEF CloseTask
<1> HIDE DEF a, b, c, W, d
<1>9. /\ PrefixOf(Flat(b), Flat(W)) /\ PrefixOf(Flat(a), Flat(b))
      /\ Len(Flat(W)) = Len(W) /\ Len(Flat(a)) = Len(a) /\ Len(Flat(b)) = Len(b)
      /\ Len(a) \in Nat /\ Len(b) \in Nat /\ Len(a) <= Len(b)
  BY <1>4, <1>7, FlatPrefix, FlatType, Zenon DEF PrefixOf
<1>10. Monotone(Flat(b)) /\ Covers(FlatDB(d), Flat(b), Len(Flat(b)))
  BY <1>6, <1>9, PrefixMonotone, PrefixCovers, Zenon
<1>11. Held(b, p, committed[p])
  BY <1>6, <1>9, PrefixInLog, Zenon DEF Held
<1>12. /\ checkpoint'[p] + 1 <= Len(b)
       /\ Covers(FlatDB(db'[p]), Flat(b), checkpoint'[p] + 1)
  <2>1. CASE UNCHANGED disk
    <3>1. db'[p] = d /\ checkpoint'[p] = checkpoint[p]
      BY <2>1, Zenon DEF disk, d
    <3>2. checkpoint[p] + 1 <= Len(b)
      BY <1>6, <1>9, AtMostNext, Zenon
    <3>3. Covers(FlatDB(d), Flat(b), checkpoint[p] + 1)
      BY <1>9, <1>10, CoversAll, Zenon
    <3> QED BY <3>1, <3>2, <3>3, Zenon
  <2>2. CASE /\ db' = [db EXCEPT ![p] = RestoredDB(b, MaxInt64, @)]
             /\ checkpoint' = [checkpoint EXCEPT ![p] = Len(b) - 1]
    <3>1. db'[p] = RestoredDB(b, MaxInt64, d) /\ checkpoint'[p] = Len(b) - 1
      BY <2>2, Zenon DEF DataInv, d
    <3>2. Covers(FlatDB(d), Flat(b), MaxInt64 + 1)
      BY <1>9, <1>10, CoversAll, Zenon
    <3>3. Covers(FlatDB(db'[p]), Flat(b), Len(b))
      <4>1. MaxInt64 \in Int
        BY MaxInt64Assumption
      <4> QED BY <1>4, <1>7, <1>10, <3>1, <3>2, <4>1, FlatRestore, Zenon
    <3>4. checkpoint'[p] + 1 = Len(b)
      BY <1>9, <3>1
    <3> QED BY <1>9, <3>3, <3>4
  <2> QED BY <1>8, <2>1, <2>2, Zenon
<1>13. changelog'[p] = b
  BY Zenon DEF b
<1> QED BY <1>1, <1>10, <1>11, <1>12, <1>13, Zenon DEF LogAt

\* The process is gone.
LEMMA LogExit ==
  ASSUME DataInv, LogInv, Exit, NEW p \in Partitions
  PROVE  LogAt(p)'
<1>1. /\ changelog' = changelog /\ committed' = committed /\ open' = {}
      /\ pc' \notin Live /\ txnLog'[p] = <<>> /\ collector'[p] = <<>>
      /\ \/ db' = db /\ checkpoint' = checkpoint
         \/ checkpoint'[p] = -1
  BY Zenon DEF Exit, Abort, Survives, broker, Live, NoRecords
<1>2. LogAt(p)
  BY Zenon DEF LogInv
<1>3. Len(changelog[p]) \in Nat
  BY WholeType
<1>4. /\ checkpoint'[p] + 1 <= Len(changelog[p])
      /\ Covers(FlatDB(db'[p]), Flat(changelog[p]), checkpoint'[p] + 1)
  <2>1. CASE db' = db /\ checkpoint' = checkpoint
    BY <1>2, <2>1, Zenon DEF LogAt
  <2>2. CASE checkpoint'[p] = -1
    BY <1>3, <2>2 DEF Covers
  <2> QED BY <1>1, <2>1, <2>2, Zenon
<1>5. Monotone(Flat(changelog[p])) /\ Held(changelog[p], p, committed[p])
  BY <1>2, Zenon DEF LogAt
<1> QED BY <1>1, <1>4, <1>5, Zenon DEF LogAt

\* No committed input is missing from the logs, and the stores never fall
\* behind their checkpoints.
LEMMA LogStep ==
  ASSUME ControlInv, DataInv, DataInv', LogInv, [Next]_vars
  PROVE  LogInv'
<1> SUFFICES ASSUME NEW q \in Partitions PROVE LogAt(q)'
  BY Zenon DEF LogInv
<1>0. LogAt(q)
  BY Zenon DEF LogInv
<1>1. CASE Quiet
  BY <1>0, <1>1, LogSame, Zenon DEF Quiet, broker, txn, disk
<1>2. CASE Dropped
  BY <1>2, LogDropped, Zenon
<1>3. ASSUME NEW p \in Partitions, FoldRecord(p) PROVE LogAt(q)'
  <2>1. CASE q # p
    <3>1. /\ collector'[q] = collector[q] /\ db'[q] = db[q]
      BY <1>3, <2>1, Zenon DEF FoldRecord, Fold, DataInv
    <3>2. next'[q] = next[q]
      BY <1>3, <2>1, Zenon DEF FoldRecord, ControlInv
    <3>3. pc \in Live /\ UNCHANGED <<changelog, txnLog, checkpoint, committed, open>>
      BY <1>3, Zenon DEF FoldRecord, broker, txn, Live
    <3> QED BY <1>0, <3>1, <3>2, <3>3, LogSame, Zenon
  <2> QED BY <1>3, <2>1, LogFold, Zenon
<1>4. CASE Produce
  BY <1>4, LogProduce, Zenon
<1>5. CASE Published
  BY <1>5, LogPublished, Zenon
<1>6. CASE Started
  BY <1>6, LogStarted, Zenon
<1>7. ASSUME NEW p \in Partitions, CloseTask(p) PROVE LogAt(q)'
  <2>1. CASE q # p
    <3>1. changelog'[q] = changelog[q] /\ collector'[q] = collector[q]
      BY <1>7, <2>1, Zenon DEF CloseTask, DataInv
    <3>2. db'[q] = db[q] /\ checkpoint'[q] = checkpoint[q]
      BY <1>7, <2>1, Zenon DEF CloseTask, DataInv, disk
    <3>3. /\ pc' \notin Live /\ UNCHANGED <<txnLog, committed>>
          /\ q \in open' <=> q \in open
      BY <1>7, <2>1, Zenon DEF CloseTask, txn, Live
    <3> QED BY <1>0, <3>1, <3>2, <3>3, LogSame, Zenon
  <2> QED BY <1>7, <2>1, LogClose, Zenon
<1>8. CASE Exit
  BY <1>8, LogExit, Zenon
<1> QED BY <1>1, <1>2, <1>3, <1>4, <1>5, <1>6, <1>7, <1>8, StepKinds, Zenon

\* At the first start the logs are empty.
LEMMA LogInit ==
  ASSUME Init
  PROVE  LogInv
<1> SUFFICES ASSUME NEW p \in Partitions PROVE LogAt(p)
  BY Zenon DEF LogInv
<1>1. /\ changelog[p] = <<>> /\ txnLog[p] = <<>> /\ collector[p] = <<>>
      /\ checkpoint[p] = -1 /\ committed[p] = 0 /\ open = {} /\ pc = "down"
  BY Zenon DEF Init, NoRecords
<1>2. Flat(<<>>) = <<>>
  BY DEF Flat
<1>3. Held(<<>>, p, 0)
  <2>1. \A o \in Offsets(p) : ~ (o < 0)
    BY EOSEndAssumption DEF Offsets
  <2> QED BY <2>1, Zenon DEF Held
<1>4. Covers(FlatDB(db[p]), <<>>, 0) /\ Monotone(<<>>)
  BY DEF Covers, Monotone
<1> QED BY <1>1, <1>2, <1>3, <1>4 DEF LogAt, Live

-----------------------------------------------------------------------------
(* The memory backend: a store is what the changelog, the transaction and  *)
(* the batch in hand rebuild.                                              *)

MemoryInv ==
  backend = "memory" => \A p \in Partitions :
    /\ pc \in Live /\ p \in open => db[p] = Replay(Whole(p), 0, EmptyStore)
    /\ pc = "down" => db[p] = EmptyStore /\ checkpoint[p] = -1

\* A replay of one more record changes the value of its key.
LEMMA ReplayAppend ==
  ASSUME NEW log \in Seq(Records), NEW k \in Keys, NEW v \in Values,
         NEW d \in [Keys -> Values]
  PROVE  Replay(Append(log, [key |-> k, val |-> v]), 0, d)
           = [Replay(log, 0, d) EXCEPT ![k] = v]
<1> DEFINE r == [key |-> k, val |-> v]
           L == Append(log, r)
           n == Len(log)
<1>1. r \in Records /\ r.key = k /\ r.val = v
  BY Zenon DEF Records
<1> HIDE DEF r
<1>2. /\ L \in Seq(Records) /\ n \in Nat /\ Len(L) = n + 1 /\ L[n + 1] = r
      /\ \A i \in 1 .. n : L[i] = log[i]
  BY <1>1, AppendParts
<1>3. Replay(log, 0, d) \in [Keys -> Values] /\ Replay(L, 0, d) \in [Keys -> Values]
  BY <1>2, ReplayType, Zenon DEF Records
<1> HIDE DEF L
<1>4. ASSUME NEW x \in Keys
      PROVE  Replay(L, 0, d)[x] = IF x = k THEN v ELSE Replay(log, 0, d)[x]
  <2> DEFINE P == PlacesOf(log, 0, x)
             Q == PlacesOf(L, 0, x)
  <2>1. x \in DOMAIN d /\ Len(L) \in Nat /\ Len(log) \in Nat /\ 0 \in Nat
    BY <1>2
  <2>2. /\ P = {} => Replay(log, 0, d)[x] = d[x]
        /\ P # {} => \E m \in P : IsLast(P, m) /\ Replay(log, 0, d)[x] = log[m].val
    BY <2>1, ReplayAll
  <2>3. /\ Q = {} => Replay(L, 0, d)[x] = d[x]
        /\ Q # {} => \E m \in Q : IsLast(Q, m) /\ Replay(L, 0, d)[x] = L[m].val
    <3>1. PICK rep : rep = Replay(L, 0, d)
      BY Zenon
    <3>2. PICK at : at = Q
      BY Zenon
    <3>3. /\ at = {} => rep[x] = d[x]
          /\ at # {} => \E m \in at : IsLast(at, m) /\ rep[x] = L[m].val
      BY <2>1, <3>1, <3>2, ReplayAll
    <3> QED BY <3>1, <3>2, <3>3, Zenon
  <2>4. CASE x = k
    <3>1. n + 1 \in Q
      BY <1>1, <1>2, <2>4 DEF PlacesOf
    <3>2. PICK m \in Q : IsLast(Q, m) /\ Replay(L, 0, d)[x] = L[m].val
      BY <2>3, <3>1, Zenon
    <3>3. m = n + 1
      <4>1. m \in 1 .. n + 1
        BY <1>2 DEF PlacesOf
      <4>2. n + 1 <= m
        BY <3>1, <3>2, Zenon DEF IsLast
      <4> QED BY <1>2, <4>1, <4>2
    <3> QED BY <1>1, <1>2, <2>4, <3>2, <3>3, Zenon
  <2>5. CASE x # k
    <3>1. Q = P
      BY <1>1, <1>2, <2>5 DEF PlacesOf
    <3>2. CASE P = {}
      BY <2>2, <2>3, <2>5, <3>1, <3>2, Zenon
    <3>3. CASE P # {}
      <4>1. PICK m \in P : IsLast(P, m) /\ Replay(log, 0, d)[x] = log[m].val
        BY <2>2, <3>3, Zenon
      <4>2. PICK j \in P : IsLast(P, j) /\ Replay(L, 0, d)[x] = L[j].val
        BY <2>3, <3>1, <3>3, Zenon
      <4>3. m \in 1 .. n /\ j \in 1 .. n
        BY <1>2 DEF PlacesOf
      <4>4. m <= j /\ j <= m
        BY <4>1, <4>2, Zenon DEF IsLast
      <4>5. m = j
        BY <1>2, <4>3, <4>4
      <4> QED BY <1>2, <2>5, <4>1, <4>2, <4>3, <4>5, Zenon
    <3> QED BY <3>2, <3>3, Zenon
  <2> QED BY <2>4, <2>5, Zenon
<1> DEFINE A == Replay(L, 0, d)
           B == Replay(log, 0, d)
<1>5. A \in [Keys -> Values] /\ B \in [Keys -> Values]
      /\ \A x \in Keys : A[x] = IF x = k THEN v ELSE B[x]
  BY <1>3, <1>4, Zenon
<1> HIDE DEF A, B
<1>6. A = [B EXCEPT ![k] = v]
  BY <1>5, Zenon
<1> QED BY <1>6, Zenon DEF A, B, L, r

\* A restore into a new in-memory backend replays the whole log.
LEMMA RestoreFresh ==
  ASSUME NEW log \in Seq(Records)
  PROVE  RestoredDB(log, -1, EmptyStore) = Replay(log, 0, EmptyStore)
<1>1. StartOffset(-1) = 0
  BY MaxInt64Assumption DEF StartOffset, Inc64
<1>2. CASE Len(log) = 0
  <2>1. \A k : PlacesOf(log, 0, k) = {}
    BY <1>2 DEF PlacesOf
  <2>2. Replay(log, 0, EmptyStore) = EmptyStore
    BY <2>1, Zenon DEF Replay, EmptyStore
  <2> QED BY <1>1, <2>2, Zenon DEF RestoredDB
<1>3. CASE Len(log) # 0
  <2>1. ~ CaughtUp(log, -1)
    BY <1>1, <1>3 DEF CaughtUp
  <2> QED BY <1>1, <2>1, Zenon DEF RestoredDB
<1> QED BY <1>2, <1>3, Zenon

\* A new store is a store.
LEMMA EmptyStoreType == EmptyStore \in [Keys -> Values]
BY DEF EmptyStore, Values

\* A fold writes to the store what it appends to the log.
LEMMA MemoryFold ==
  ASSUME ControlInv, DataInv, NEW p \in Partitions, FoldRecord(p),
         db[p] = Replay(Whole(p), 0, EmptyStore)
  PROVE  db'[p] = Replay(Whole(p)', 0, EmptyStore)
<1> DEFINE k == KeyOf[p][next[p]]
           v == Append(db[p][k], next[p])
           r == [key |-> k, val |-> v]
           W == Whole(p)
<1>1. /\ k \in Keys /\ v \in Values
      /\ db' = [db EXCEPT ![p] = [db[p] EXCEPT ![k] = v]]
  BY FoldTypes, Zenon DEF FoldRecord
<1>2. db'[p] = [db[p] EXCEPT ![k] = v]
  BY <1>1, Zenon DEF DataInv
<1>3. W \in Seq(Records) /\ Whole(p)' = Append(W, r)
  BY WholeType, WholeFold, Zenon
<1>4. db[p] = Replay(W, 0, EmptyStore)
  BY Zenon
<1> HIDE DEF k, v, W
<1>5. Replay(Append(W, r), 0, EmptyStore) = [Replay(W, 0, EmptyStore) EXCEPT ![k] = v]
  BY <1>1, <1>3, EmptyStoreType, ReplayAppend
<1> QED BY <1>2, <1>3, <1>4, <1>5, Zenon

\* A store of the memory backend is rebuilt from the logs, whatever happens.
LEMMA MemoryStep ==
  ASSUME ControlInv, DataInv, LogInv, MemoryInv, [Next]_vars
  PROVE  MemoryInv'
<1> SUFFICES ASSUME backend' = "memory", NEW q \in Partitions
             PROVE  /\ pc' \in Live /\ q \in open' =>
                         db'[q] = Replay(Whole(q)', 0, EmptyStore)
                    /\ pc' = "down" => db'[q] = EmptyStore /\ checkpoint'[q] = -1
  BY Zenon DEF MemoryInv
<1>0. backend = "memory"
  BY StepKinds, Zenon
<1>00. /\ pc \in Live /\ q \in open => db[q] = Replay(Whole(q), 0, EmptyStore)
       /\ pc = "down" => db[q] = EmptyStore /\ checkpoint[q] = -1
  BY <1>0, Zenon DEF MemoryInv
<1>1. CASE Quiet
  <2>1. /\ db' = db /\ checkpoint' = checkpoint /\ open' = open
        /\ pc' \in Live => pc \in Live
        /\ pc' = "down" => pc = "down"
    BY <1>1, Zenon DEF Quiet, disk
  <2>2. Whole(q)' = Whole(q)
    BY <1>1, Zenon DEF Quiet, broker, txn, Whole
  <2> QED BY <1>00, <2>1, <2>2, Zenon
<1>2. ASSUME pc' \notin Live, pc' # "down"
      PROVE  /\ pc' \in Live /\ q \in open' =>
                  db'[q] = Replay(Whole(q)', 0, EmptyStore)
             /\ pc' = "down" => db'[q] = EmptyStore /\ checkpoint'[q] = -1
  BY <1>2, Zenon
<1>3. ASSUME NEW p \in Partitions, FoldRecord(p)
      PROVE  /\ q \in open' => db'[q] = Replay(Whole(q)', 0, EmptyStore)
             /\ pc' # "down"
  <2>1. pc \in Live /\ pc' # "down" /\ open' = open
    BY <1>3, Zenon DEF FoldRecord, Live
  <2>2. CASE q = p
    BY <1>3, <1>00, <2>1, <2>2, MemoryFold, Zenon
  <2>3. CASE q # p
    <3>1. Whole(q)' = Whole(q) /\ db'[q] = db[q]
      <4>1. collector'[q] = collector[q] /\ db'[q] = db[q]
        BY <1>3, <2>3, Zenon DEF FoldRecord, Fold, DataInv
      <4>2. changelog' = changelog /\ txnLog' = txnLog
        BY <1>3, Zenon DEF FoldRecord, broker, txn
      <4> QED BY <4>1, <4>2, Zenon DEF Whole
    <3> QED BY <1>00, <2>1, <3>1, Zenon
  <2> QED BY <2>1, <2>2, <2>3, Zenon
<1>4. CASE Produce
  <2>1. pc \in Live /\ pc' # "down" /\ open' = open /\ db' = db
    BY <1>4, Zenon DEF Produce, Live, disk
  <2>2. Whole(q)' = Whole(q)
    BY <1>4, WholeProduce, Zenon
  <2> QED BY <1>00, <2>1, <2>2, Zenon
<1>5. CASE Published
  <2>1. pc \in Live /\ pc' # "down" /\ open' = open /\ db' = db
    BY <1>5, Zenon DEF Published, CommitDue, Live, disk
  <2>2. Whole(q)' = Whole(q)
    BY <1>5, WholePublished, Zenon
  <2> QED BY <1>00, <2>1, <2>2, Zenon
<1>6. CASE Started
  <2>1. PICK opened, restored \in SUBSET Partitions :
          opened \subseteq restored /\ StartLoop(opened) /\ RestoreTasks(restored)
    BY <1>6, Zenon DEF Started
  <2>2. pc = "down" /\ pc' # "down"
    BY <1>6, <2>1, Zenon DEF Started, StartLoop
  <2>3. q \in open' => db'[q] = RestoredDB(changelog[q], checkpoint[q], db[q])
    BY <2>1, Zenon DEF StartLoop, RestoreTasks
  <2>4. changelog[q] \in Seq(Records)
    BY WholeType, Zenon
  <2>5. Whole(q)' = changelog[q]
    BY <1>6, WholeStarted, Zenon
  <2>6. RestoredDB(changelog[q], -1, EmptyStore) = Replay(changelog[q], 0, EmptyStore)
    BY <2>4, RestoreFresh, Zenon
  <2> QED BY <1>00, <2>2, <2>3, <2>5, <2>6, Zenon
<1>7. ASSUME NEW p \in Partitions, CloseTask(p) PROVE pc' \notin Live /\ pc' # "down"
  BY <1>7, Zenon DEF CloseTask, Live
<1>8. CASE Exit
  BY <1>0, <1>8, Zenon DEF Exit, Survives, Live
<1>9. CASE Dropped
  BY <1>2, <1>9, Zenon DEF Dropped, Live
<1> QED BY <1>1, <1>2, <1>3, <1>4, <1>5, <1>6, <1>7, <1>8, <1>9, StepKinds, Zenon

\* At the first start the stores are empty.
LEMMA MemoryInit ==
  ASSUME Init
  PROVE  MemoryInv
BY Zenon DEF Init, MemoryInv, Live

-----------------------------------------------------------------------------
(* What holds on either backend and whatever disrupts the pipeline.        *)

PipelineInv ==
  /\ ControlInv
  /\ DataInv
  /\ OutputInv
  /\ LogInv
  /\ MemoryInv

\* The pipeline keeps its invariant.
LEMMA PipelineInvariant == Spec => []PipelineInv
<1>1. ASSUME Init PROVE PipelineInv
  BY <1>1, ControlInit, DataInit, OutputInit, LogInit, MemoryInit, Zenon DEF PipelineInv
<1>2. ASSUME PipelineInv, [Next]_vars PROVE PipelineInv'
  <2>1. ControlInv /\ DataInv /\ OutputInv /\ LogInv /\ MemoryInv
    BY <1>2, Zenon DEF PipelineInv
  <2>2. ControlInv'
    BY <1>2, <2>1, ControlStep, Zenon
  <2>3. DataInv'
    BY <1>2, <2>1, DataStep, Zenon
  <2>4. OutputInv'
    BY <1>2, <2>1, OutputStep, Zenon
  <2>5. LogInv'
    BY <1>2, <2>1, <2>3, LogStep, Zenon
  <2>6. MemoryInv'
    BY <1>2, <2>1, MemoryStep, Zenon
  <2> QED BY <2>2, <2>3, <2>4, <2>5, <2>6, Zenon DEF PipelineInv
<1> QED BY <1>1, <1>2, PTL DEF Spec

\* runEOS puts sinks and offsets in one transaction: for any number of
\* partitions, records and disruptions, and on either backend, the sink holds
\* the output of every input below the committed offset once, in order, and no
\* other.
THEOREM SinkExactlyOnce == Spec => []OutputsOnce
<1>1. ASSUME PipelineInv PROVE OutputsOnce
  <2> SUFFICES ASSUME NEW p \in Partitions
               PROVE  /\ Len(sink[p]) = committed[p]
                      /\ \A i \in 1 .. Len(sink[p]) : sink[p][i].off = i - 1
    BY Zenon DEF OutputsOnce
  <2>1. Len(sink[p]) = committed[p] /\ From(sink[p], 0) /\ committed[p] \in Nat
    BY <1>1, Zenon DEF PipelineInv, OutputInv, ControlInv
  <2>2. \A i \in 1 .. Len(sink[p]) : sink[p][i].off = i - 1
    <3>1. \A i \in 1 .. Len(sink[p]) : 0 + i - 1 = i - 1
      OBVIOUS
    <3> QED BY <2>1, <3>1, Zenon DEF From
  <2> QED BY <2>1, <2>2, Zenon
<1> QED BY <1>1, PipelineInvariant, PTL

\* What the rebuilt state holds is what the committed log does.
LEMMA RebuiltHolds ==
  ASSUME NEW log \in Seq(Records), Monotone(Flat(log)), NEW k \in Keys, NEW o,
         InLog(Flat(log), k, o)
  PROVE  o \in Elems(Replay(log, 0, EmptyStore)[k])
<1> DEFINE F == Flat(log)
           R == Replay(log, 0, EmptyStore)
<1>1. FlatDB(R) = Replay(F, 0, FlatDB(EmptyStore))
  BY EmptyStoreType, FlatReplay, Zenon
<1>2. FlatDB(EmptyStore) = [x \in Keys |-> {}]
  BY DEF FlatDB, EmptyStore, Elems
<1>3. Len(F) \in Nat
  BY FlatType, Zenon
<1>4. FlatDB(R)[k] = Elems(R[k])
  BY Zenon DEF FlatDB
<1>5. Monotone(F) /\ InLog(F, k, o)
  BY Zenon
<1> HIDE DEF F, R
<1>6. o \in Replay(F, 0, [x \in Keys |-> {}])[k]
  BY <1>3, <1>5, RebuiltInLog, Zenon
<1> QED BY <1>1, <1>2, <1>4, <1>6, Zenon DEF R

\* Changelog records and offsets are in one transaction, and closeTask and
\* openTask never checkpoint past the records a store reflects: no committed
\* input is missing from the state that a restore rebuilds, on either backend
\* and after any disruptions.
THEOREM NoCommittedInputLost == Spec => []StateAtLeastOnce
<1>1. ASSUME PipelineInv PROVE StateAtLeastOnce
  <2> SUFFICES ASSUME NEW p \in Partitions, NEW o \in Offsets(p), o < committed[p]
               PROVE  \E i \in 1 .. Len(Rebuilt(p)[KeyOf[p][o]]) :
                        Rebuilt(p)[KeyOf[p][o]][i] = o
    BY Zenon DEF StateAtLeastOnce
  <2>1. LogAt(p) /\ changelog[p] \in Seq(Records)
    BY <1>1, Zenon DEF PipelineInv, LogInv, DataInv
  <2>2. Monotone(Flat(changelog[p])) /\ InLog(Flat(changelog[p]), KeyOf[p][o], o)
    BY <2>1, Zenon DEF LogAt, Held
  <2>3. KeyOf[p][o] \in Keys
    BY EOSKeyOfAssumption, Zenon
  <2>4. o \in Elems(Rebuilt(p)[KeyOf[p][o]])
    BY <2>1, <2>2, <2>3, RebuiltHolds, Zenon DEF Rebuilt
  <2> QED BY <2>4, Zenon DEF Elems
<1> QED BY <1>1, PipelineInvariant, PTL

\* "Application restart reopens tasks and restores committed state before
\* processing resumes" (runEOS) is true of the memory backend: a transaction
\* begins with every open store equal to what its committed changelog rebuilds.
THEOREM MemoryBeginsCommitted == Spec => []MemoryBeginsOnCommittedState
<1>1. ASSUME PipelineInv PROVE MemoryBeginsOnCommittedState
  <2> SUFFICES ASSUME backend = "memory", pc = "begin", NEW p \in open
               PROVE  db[p] = Rebuilt(p)
    BY Zenon DEF MemoryBeginsOnCommittedState, BeginsOnCommittedState
  <2>1. p \in Partitions /\ txnLog[p] = <<>> /\ collector[p] = <<>>
    BY <1>1, Zenon DEF PipelineInv, ControlInv, Between, NoRecords
  <2>2. changelog[p] \in Seq(Records)
    BY <1>1, <2>1, Zenon DEF PipelineInv, DataInv
  <2>3. Whole(p) = (changelog[p] \o <<>>) \o <<>>
    BY <2>1, Zenon DEF Whole
  <2>4. Whole(p) = changelog[p]
    BY <2>2, <2>3, WholeIsLog, Zenon
  <2>5. db[p] = Replay(Whole(p), 0, EmptyStore)
    BY <1>1, <2>1, Zenon DEF PipelineInv, MemoryInv, Live
  <2> QED BY <2>4, <2>5, Zenon DEF Rebuilt
<1> QED BY <1>1, PipelineInvariant, PTL

-----------------------------------------------------------------------------
(* The refinement.                                                         *)

\* On the memory backend no fault leaves a mutation undrained: every task is
\* opened, no record and no health check fails.
NothingUndrained ==
  "memory" \in Backends => Faults["memory"] \cap {"open", "process", "health"} = {}

\* Outputs that carry the value of their key after their input.
Folded(p, s) ==
  \A i \in 1 .. Len(s) : Abstract!IsFold(p, KeyOf[p][s[i].off], s[i].off + 1, s[i].val)

FoldInv ==
  backend = "memory" =>
    /\ failed = {}
    /\ pc \in Live => open = Partitions
    /\ pc \in {"stopped", "closing"} => collector = NoRecords
    /\ \A p \in Partitions :
         /\ Abstract!IsState(p, committed[p], Rebuilt(p))
         /\ pc \in Live => Abstract!IsState(p, next[p], db[p])
         /\ Folded(p, sink[p])
         /\ pc \in Live => Folded(p, txnSink[p]) /\ Folded(p, outs[p])

\* No input yet: the value is empty.
LEMMA FoldEmpty ==
  ASSUME NEW p \in Partitions, NEW k
  PROVE  Abstract!IsFold(p, k, 0, <<>>)
BY DEF Abstract!IsFold

\* The next input of the key.
LEMMA FoldHit ==
  ASSUME NEW p \in Partitions, NEW n \in Nat, NEW v,
         Abstract!IsFold(p, KeyOf[p][n], n, v)
  PROVE  Abstract!IsFold(p, KeyOf[p][n], n + 1, Append(v, n))
<1> DEFINE k == KeyOf[p][n]
           w == Append(v, n)
<1>1. /\ v \in Seq(Nat)
      /\ \A i, j \in 1 .. Len(v) : i < j => v[i] < v[j]
      /\ \A o \in 0 .. n - 1 : KeyOf[p][o] = k => \E i \in 1 .. Len(v) : v[i] = o
      /\ \A i \in 1 .. Len(v) : v[i] < n /\ KeyOf[p][v[i]] = k
  BY Zenon DEF Abstract!IsFold
<1>2. /\ w \in Seq(Nat) /\ Len(v) \in Nat /\ Len(w) = Len(v) + 1 /\ w[Len(v) + 1] = n
      /\ \A i \in 1 .. Len(v) : w[i] = v[i] /\ v[i] \in Nat
  BY <1>1, AppendParts, SeqElement
<1> HIDE DEF w
<1>3. \A i \in 1 .. Len(w) : i \in 1 .. Len(v) \/ i = Len(v) + 1
  BY <1>2
<1>4. ASSUME NEW i \in 1 .. Len(w), NEW j \in 1 .. Len(w), i < j
      PROVE  w[i] < w[j]
  <2>1. i \in 1 .. Len(v)
    BY <1>2, <1>4
  <2>2. CASE j \in 1 .. Len(v)
    BY <1>1, <1>2, <1>4, <2>1, <2>2, Zenon
  <2>3. CASE j = Len(v) + 1
    BY <1>1, <1>2, <2>1, <2>3, Zenon
  <2> QED BY <1>3, <2>2, <2>3, Zenon
<1>5. ASSUME NEW o \in 0 .. (n + 1) - 1, KeyOf[p][o] = k
      PROVE  \E i \in 1 .. Len(w) : w[i] = o
  <2>1. CASE o = n
    <3>1. Len(v) + 1 \in 1 .. Len(w)
      BY <1>2
    <3> QED BY <1>2, <2>1, <3>1, Zenon
  <2>2. CASE o # n
    <3>1. o \in 0 .. n - 1
      BY <2>2
    <3>2. PICK i \in 1 .. Len(v) : v[i] = o
      BY <1>1, <1>5, <3>1, Zenon
    <3>3. i \in 1 .. Len(w)
      BY <1>2
    <3> QED BY <1>2, <3>2, <3>3, Zenon
  <2> QED BY <2>1, <2>2, Zenon
<1>6. ASSUME NEW i \in 1 .. Len(w) PROVE w[i] < n + 1 /\ KeyOf[p][w[i]] = k
  <2>1. CASE i \in 1 .. Len(v)
    <3>1. w[i] = v[i] /\ v[i] \in Nat /\ v[i] < n /\ KeyOf[p][v[i]] = k
      BY <1>1, <1>2, <2>1, Zenon
    <3>2. PICK o \in Nat : o = v[i] /\ o < n
      BY <3>1, Zenon
    <3>3. o < n + 1
      BY <3>2
    <3> QED BY <3>1, <3>2, <3>3, Zenon
  <2>2. CASE i = Len(v) + 1
    <3>1. n < n + 1
      OBVIOUS
    <3> QED BY <1>2, <2>2, <3>1, Zenon
  <2> QED BY <1>3, <2>1, <2>2, Zenon
<1>7. Abstract!IsFold(p, k, n + 1, w)
  BY <1>2, <1>4, <1>5, <1>6, Zenon DEF Abstract!IsFold
<1> QED BY <1>7, Zenon DEF w

\* An input of another key.
LEMMA FoldMiss ==
  ASSUME NEW p \in Partitions, NEW n \in Nat, NEW k, KeyOf[p][n] # k, NEW v,
         Abstract!IsFold(p, k, n, v)
  PROVE  Abstract!IsFold(p, k, n + 1, v)
<1>1. /\ v \in Seq(Nat)
      /\ \A i, j \in 1 .. Len(v) : i < j => v[i] < v[j]
      /\ \A o \in 0 .. n - 1 : KeyOf[p][o] = k => \E i \in 1 .. Len(v) : v[i] = o
      /\ \A i \in 1 .. Len(v) : v[i] < n /\ KeyOf[p][v[i]] = k
  BY Zenon DEF Abstract!IsFold
<1>2. \A o \in 0 .. (n + 1) - 1 : o = n \/ o \in 0 .. n - 1
  OBVIOUS
<1>3. \A i \in 1 .. Len(v) : v[i] \in Nat
  BY <1>1, SeqElement, Zenon
<1>4. \A i \in 1 .. Len(v) : v[i] < n + 1
  BY <1>1, <1>3
<1> QED BY <1>1, <1>2, <1>4, Zenon DEF Abstract!IsFold

\* Outputs in the sink, in the transaction and in hand keep their values.
LEMMA FoldedConcat ==
  ASSUME NEW p, NEW s \in Seq(Outputs), NEW t \in Seq(Outputs), Folded(p, s), Folded(p, t)
  PROVE  Folded(p, s \o t)
<1>1. /\ Len(s) \in Nat /\ Len(t) \in Nat
      /\ Len(s \o t) = Len(s) + Len(t)
      /\ \A i \in 1 .. Len(s) + Len(t) :
           (s \o t)[i] = IF i <= Len(s) THEN s[i] ELSE t[i - Len(s)]
  BY ConcatParts
<1>2. ASSUME NEW i \in 1 .. Len(s) + Len(t)
      PROVE  \/ \E j \in 1 .. Len(s) : (s \o t)[i] = s[j]
             \/ \E j \in 1 .. Len(t) : (s \o t)[i] = t[j]
  <2>1. CASE i <= Len(s)
    BY <1>1, <2>1
  <2>2. CASE i > Len(s)
    <3>1. i - Len(s) \in 1 .. Len(t)
      BY <1>1, <2>2
    <3> QED BY <1>1, <2>2, <3>1
  <2> QED BY <1>1, <2>1, <2>2
<1> QED BY <1>1, <1>2, Zenon DEF Folded

\* The output of a fold carries the folded value.
LEMMA FoldedAppend ==
  ASSUME NEW p, NEW s \in Seq(Outputs), NEW w \in Outputs, Folded(p, s),
         Abstract!IsFold(p, KeyOf[p][w.off], w.off + 1, w.val)
  PROVE  Folded(p, Append(s, w))
<1>1. /\ Len(s) \in Nat /\ Len(Append(s, w)) = Len(s) + 1
      /\ Append(s, w)[Len(s) + 1] = w
      /\ \A i \in 1 .. Len(s) : Append(s, w)[i] = s[i]
  BY AppendParts
<1>2. \A i \in 1 .. Len(s) + 1 : i \in 1 .. Len(s) \/ i = Len(s) + 1
  BY <1>1
<1> QED BY <1>1, <1>2, Zenon DEF Folded

\* Nothing sent is nothing wrong.
LEMMA FoldedEmpty ==
  ASSUME NEW p
  PROVE  Folded(p, <<>>)
BY DEF Folded

\* A fold takes the state and the output on by one input.
LEMMA StateFold ==
  ASSUME ControlInv, DataInv, NEW p \in Partitions, FoldRecord(p),
         Abstract!IsState(p, next[p], db[p]), Folded(p, outs[p])
  PROVE  Abstract!IsState(p, next[p] + 1, db'[p]) /\ Folded(p, outs'[p])
<1> DEFINE n == next[p]
           k == KeyOf[p][n]
           d == db[p]
           v == Append(d[k], n)
           w == [off |-> n, val |-> v]
<1>1. /\ k \in Keys /\ v \in Values /\ w \in Outputs
      /\ db' = [db EXCEPT ![p] = [d EXCEPT ![k] = v]]
      /\ outs' = [outs EXCEPT ![p] = Append(outs[p], w)]
  BY FoldTypes, Zenon DEF FoldRecord
<1>2. n \in Nat
  BY InputKey, Zenon DEF FoldRecord
<1>3. /\ db'[p] = [d EXCEPT ![k] = v] /\ outs'[p] = Append(outs[p], w)
      /\ d \in [Keys -> Values] /\ outs[p] \in Seq(Outputs)
  BY <1>1, Zenon DEF DataInv
<1>4. \A x \in Keys : Abstract!IsFold(p, x, n, d[x])
  BY Zenon DEF Abstract!IsState
<1>5. Abstract!IsFold(p, k, n + 1, v)
  BY <1>1, <1>2, <1>4, FoldHit, Zenon
<1>6. w.off = n /\ w.val = v
  BY Zenon
<1> HIDE DEF v, w, d, n
<1>7. Folded(p, outs'[p])
  <2>1. Abstract!IsFold(p, KeyOf[p][w.off], w.off + 1, w.val)
    BY <1>5, <1>6, Zenon
  <2>2. Folded(p, Append(outs[p], w))
    BY <1>1, <1>3, <2>1, FoldedAppend, Zenon
  <2> QED BY <1>3, <2>2, Zenon
<1>8. ASSUME NEW x \in Keys PROVE Abstract!IsFold(p, x, n + 1, db'[p][x])
  <2>1. CASE x = k
    <3>1. db'[p][x] = v
      BY <1>3, <2>1, Zenon
    <3> QED BY <1>5, <2>1, <3>1, Zenon
  <2>2. CASE x # k
    <3>1. db'[p][x] = d[x]
      BY <1>1, <1>3, <2>2, Zenon
    <3>2. Abstract!IsFold(p, x, n + 1, d[x])
      BY <1>2, <1>4, <2>2, FoldMiss, Zenon
    <3> QED BY <3>1, <3>2, Zenon
  <2> QED BY <2>1, <2>2, Zenon
<1>9. DOMAIN db'[p] = Keys
  BY <1>3, Zenon
<1>10. Abstract!IsState(p, n + 1, db'[p])
  BY <1>8, <1>9, Zenon DEF Abstract!IsState
<1> QED BY <1>7, <1>10, Zenon DEF n

\* What FoldInv says of one partition.
FoldAt(p) ==
  /\ Abstract!IsState(p, committed[p], Rebuilt(p))
  /\ pc \in Live => Abstract!IsState(p, next[p], db[p])
  /\ Folded(p, sink[p])
  /\ pc \in Live => Folded(p, txnSink[p]) /\ Folded(p, outs[p])

\* A step that leaves a partition's state and outputs alone.
LEMMA FoldSame ==
  ASSUME NEW p, FoldAt(p), changelog'[p] = changelog[p], sink'[p] = sink[p],
         committed'[p] = committed[p],
         pc' \in Live => /\ pc \in Live
                         /\ db'[p] = db[p] /\ next'[p] = next[p]
                         /\ txnSink'[p] = txnSink[p] /\ outs'[p] = outs[p]
  PROVE  FoldAt(p)'
<1>1. Rebuilt(p)' = Rebuilt(p)
  BY Zenon DEF Rebuilt
<1> QED BY <1>1, Zenon DEF FoldAt

\* Of every partition, the rebuilt state is the fold of the committed inputs,
\* the store that of the processed ones.
LEMMA FoldAtStep ==
  ASSUME PipelineInv, PipelineInv', FoldInv, backend = "memory", NothingUndrained,
         [Next]_vars, NEW q \in Partitions
  PROVE  FoldAt(q)'
<1>0. /\ ControlInv /\ DataInv /\ LogInv /\ MemoryInv /\ MemoryInv'
      /\ backend' = "memory" /\ failed = {} /\ (pc \in Live => open = Partitions)
      /\ pc \in {"stopped", "closing"} => collector = NoRecords
  BY StepKinds, Zenon DEF PipelineInv, FoldInv
<1>00. FoldAt(q)
  BY Zenon DEF FoldInv, FoldAt
<1>1. CASE Quiet
  BY <1>00, <1>1, FoldSame, Zenon DEF Quiet, broker, txn, disk
<1>2. CASE Dropped
  BY <1>00, <1>2, FoldSame, Zenon DEF Dropped, broker, Live
<1>3. ASSUME NEW p \in Partitions, FoldRecord(p) PROVE FoldAt(q)'
  <2>1. /\ pc \in Live /\ UNCHANGED <<changelog, sink, committed, txnSink>>
    BY <1>3, Zenon DEF FoldRecord, Live, broker, txn
  <2>2. CASE q # p
    <3>1. db'[q] = db[q] /\ outs'[q] = outs[q] /\ next'[q] = next[q]
      BY <1>0, <1>3, <2>2, Zenon DEF FoldRecord, Fold, DataInv, ControlInv
    <3> QED BY <1>00, <2>1, <3>1, FoldSame, Zenon
  <2>3. CASE q = p
    <3>1. next' = [next EXCEPT ![p] = @ + 1]
      <4>1. backend \in Backends
        BY <1>0, Zenon DEF ControlInv
      <4> QED BY <1>3, <4>1, Zenon DEF FoldRecord, NothingUndrained
    <3>2. next'[p] = next[p] + 1
      BY <1>0, <3>1, Zenon DEF ControlInv
    <3>3. Abstract!IsState(p, next[p] + 1, db'[p]) /\ Folded(p, outs'[p])
      BY <1>0, <1>00, <1>3, <2>1, <2>3, StateFold, Zenon DEF FoldAt
    <3>4. Rebuilt(p)' = Rebuilt(p)
      BY <2>1, Zenon DEF Rebuilt
    <3> QED BY <1>00, <2>1, <2>3, <3>2, <3>3, <3>4, Zenon DEF FoldAt
  <2> QED BY <2>2, <2>3, Zenon
<1>4. CASE Produce
  <2>1. /\ pc \in Live /\ UNCHANGED <<changelog, sink, committed, db, next>>
        /\ outs'[q] = <<>> /\ txnSink'[q] = txnSink[q] \o outs[q]
    BY <1>4, Zenon DEF Produce, Live, broker, disk, batch, NoRecords
  <2>2. txnSink[q] \in Seq(Outputs) /\ outs[q] \in Seq(Outputs)
    BY <1>0, Zenon DEF DataInv
  <2>3. Folded(q, txnSink'[q])
    <3>1. Folded(q, txnSink[q]) /\ Folded(q, outs[q])
      BY <1>00, <2>1, Zenon DEF FoldAt
    <3> QED BY <2>1, <2>2, <3>1, FoldedConcat, Zenon
  <2>4. Folded(q, outs'[q])
    BY <2>1, FoldedEmpty, Zenon
  <2>5. Rebuilt(q)' = Rebuilt(q)
    BY <2>1, Zenon DEF Rebuilt
  <2> QED BY <1>00, <2>1, <2>3, <2>4, <2>5, Zenon DEF FoldAt
<1>5. CASE Published
  <2>1. /\ pc \in Live /\ UNCHANGED <<db, next, outs>> /\ committed' = next
        /\ txnSink'[q] = <<>> /\ sink'[q] = sink[q] \o txnSink[q]
    BY <1>0, <1>5, Zenon
    DEF Published, Publish, Abort, CommitDue, ControlInv, Live, Between, disk,
        batch, NoRecords
  <2>2. sink[q] \in Seq(Outputs) /\ txnSink[q] \in Seq(Outputs)
    BY <1>0, Zenon DEF DataInv
  <2>3. Folded(q, sink'[q])
    <3>1. Folded(q, sink[q]) /\ Folded(q, txnSink[q])
      BY <1>00, <2>1, Zenon DEF FoldAt
    <3> QED BY <2>1, <2>2, <3>1, FoldedConcat, Zenon
  <2>4. Folded(q, txnSink'[q])
    BY <2>1, FoldedEmpty, Zenon
  <2>5. Rebuilt(q)' = db[q]
    <3>1. Whole(q) = changelog'[q]
      BY <1>0, <1>5, WholePublished, Zenon
    <3>2. db[q] = Replay(Whole(q), 0, EmptyStore)
      BY <1>0, <2>1, Zenon DEF MemoryInv
    <3> QED BY <3>1, <3>2, Zenon DEF Rebuilt
  <2> QED BY <1>00, <2>1, <2>3, <2>4, <2>5, Zenon DEF FoldAt
<1>6. CASE Started
  <2>1. PICK opened \in SUBSET Partitions :
          StartLoop(opened) /\ (opened = Partitions \/ "open" \in Faults[backend])
    BY <1>6, Zenon DEF Started
  <2>2. opened = Partitions
    BY <1>0, <2>1, Zenon DEF NothingUndrained, ControlInv
  <2>3. /\ UNCHANGED <<changelog, sink, committed>> /\ next' = committed
        /\ pc' \in Live /\ open' = Partitions
        /\ txnSink'[q] = <<>> /\ outs'[q] = <<>>
    BY <1>0, <1>6, <2>1, <2>2, Zenon
    DEF Started, StartLoop, ControlInv, Between, Live, broker, txn, NoRecords
  <2>4. db'[q] = Rebuilt(q) /\ Rebuilt(q)' = Rebuilt(q)
    <3>1. Whole(q)' = changelog[q]
      BY <1>0, <1>6, WholeStarted, Zenon
    <3>2. db'[q] = Replay(Whole(q)', 0, EmptyStore)
      BY <1>0, <2>3, Zenon DEF MemoryInv
    <3> QED BY <2>3, <3>1, <3>2, Zenon DEF Rebuilt
  <2>5. Folded(q, txnSink'[q]) /\ Folded(q, outs'[q])
    BY <2>3, FoldedEmpty, Zenon
  <2> QED BY <1>00, <2>3, <2>4, <2>5, Zenon DEF FoldAt
<1>7. ASSUME NEW p \in Partitions, CloseTask(p) PROVE FoldAt(q)'
  <2>1. pc' \notin Live /\ UNCHANGED <<sink, committed>> /\ collector[p] = <<>>
    BY <1>0, <1>7, Zenon DEF CloseTask, Live, NoRecords
  <2>2. changelog' = changelog
    <3>1. PICK n \in 0 .. Len(collector[p]) :
            changelog' = [changelog EXCEPT ![p] = changelog[p] \o SubSeq(collector[p], 1, n)]
      BY <1>7, Zenon DEF CloseTask
    <3>2. n = 0
      BY <2>1
    <3>3. SubSeq(<<>>, 1, 0) = <<>>
      BY SubSeqNone
    <3>4. changelog[p] \in Seq(Records)
      BY <1>0, Zenon DEF DataInv
    <3>5. changelog[p] \o <<>> = changelog[p]
      BY <3>4, ConcatEmpty, Zenon
    <3>6. changelog' = [changelog EXCEPT ![p] = changelog[p]]
      BY <2>1, <3>1, <3>2, <3>3, <3>5, Zenon
    <3> QED BY <1>0, <3>6, Zenon DEF DataInv
  <2> QED BY <1>00, <2>1, <2>2, FoldSame, Zenon
<1>8. CASE Exit
  BY <1>00, <1>8, FoldSame, Zenon DEF Exit, broker, Live
<1> QED BY <1>0, <1>1, <1>2, <1>3, <1>4, <1>5, <1>6, <1>7, <1>8, StepKinds, Zenon

\* The fold invariant is kept where no mutation is left undrained.
LEMMA FoldStep ==
  ASSUME PipelineInv, PipelineInv', FoldInv, NothingUndrained, [Next]_vars
  PROVE  FoldInv'
<1> SUFFICES ASSUME backend' = "memory"
             PROVE  /\ failed' = {}
                    /\ pc' \in Live => open' = Partitions
                    /\ pc' \in {"stopped", "closing"} => collector' = NoRecords
                    /\ \A p \in Partitions : FoldAt(p)'
  BY Zenon DEF FoldInv, FoldAt
<1>0. ControlInv /\ DataInv
  BY Zenon DEF PipelineInv
<1>1. backend = "memory" /\ backend \in Backends
  BY <1>0, StepKinds, Zenon DEF ControlInv
<1>2. {"open", "process", "health"} \cap Faults[backend] = {}
  BY <1>1, Zenon DEF NothingUndrained
<1>3. /\ failed = {} /\ (pc \in Live => open = Partitions)
      /\ pc \in {"stopped", "closing"} => collector = NoRecords
  BY <1>1, Zenon DEF FoldInv
<1>4. \A p \in Partitions : FoldAt(p)'
  BY <1>1, FoldAtStep, Zenon
<1>5. /\ failed' = {}
      /\ pc' \in Live => open' = Partitions
      /\ pc' \in {"stopped", "closing"} => collector' = NoRecords
  <2>1. CASE Quiet
    BY <1>0, <1>2, <1>3, <2>1, Zenon DEF Quiet, ControlInv, Between
  <2>2. CASE Dropped
    BY <1>0, <1>2, <1>3, <2>2, Zenon DEF Dropped, ControlInv, Live
  <2>3. ASSUME NEW p \in Partitions, FoldRecord(p)
        PROVE  /\ failed' = {} /\ open' = Partitions /\ pc' = "process"
    BY <1>2, <1>3, <2>3, Zenon DEF FoldRecord, Live
  <2>4. CASE Produce
    BY <1>3, <2>4, Zenon DEF Produce, Live, batch
  <2>5. CASE Published
    BY <1>0, <1>3, <2>5, Zenon DEF Published, CommitDue, ControlInv, Live, Between, batch
  <2>6. CASE Started
    BY <1>2, <1>3, <2>6, Zenon DEF Started, StartLoop, Live
  <2>7. ASSUME NEW p \in Partitions, CloseTask(p)
        PROVE  /\ failed' = {} /\ pc' = "closing" /\ collector' = NoRecords
    BY <1>0, <1>3, <2>7, Zenon DEF CloseTask, batch, NoRecords
  <2>8. CASE Exit
    BY <2>8, Zenon DEF Exit, Live
  <2>9. "process" \notin {"stopped", "closing"} /\ "closing" \notin Live
    BY Zenon DEF Live
  <2> QED BY <1>0, <2>1, <2>2, <2>3, <2>4, <2>5, <2>6, <2>7, <2>8, <2>9, StepKinds, Zenon
<1> QED BY <1>4, <1>5, Zenon

\* At the first start nothing has been folded in.
LEMMA StateInit ==
  ASSUME Init, NEW p \in Partitions
  PROVE  Abstract!IsState(p, committed[p], Rebuilt(p))
<1>1. changelog[p] = <<>> /\ committed[p] = 0
  BY Zenon DEF Init, NoRecords
<1>2. Rebuilt(p) = EmptyStore
  <2>1. \A k : PlacesOf(<<>>, 0, k) = {}
    BY DEF PlacesOf
  <2>2. Replay(<<>>, 0, EmptyStore) = EmptyStore
    BY <2>1, Zenon DEF Replay, EmptyStore
  <2> QED BY <1>1, <2>2, Zenon DEF Rebuilt
<1>3. DOMAIN EmptyStore = Keys /\ \A k \in Keys : EmptyStore[k] = <<>>
  BY Zenon DEF EmptyStore
<1>4. \A k \in Keys : Abstract!IsFold(p, k, 0, EmptyStore[k])
  BY <1>3, FoldEmpty, Zenon
<1>5. Abstract!IsState(p, 0, EmptyStore)
  BY <1>3, <1>4, Zenon DEF Abstract!IsState
<1> QED BY <1>1, <1>2, <1>5, Zenon

\* At the first start the fold invariant holds.
LEMMA FoldInit ==
  ASSUME Init
  PROVE  FoldInv
<1> SUFFICES ASSUME NEW p \in Partitions
             PROVE  Abstract!IsState(p, committed[p], Rebuilt(p)) /\ Folded(p, sink[p])
  BY Zenon DEF Init, FoldInv, Live
<1>1. sink[p] = <<>>
  BY Zenon DEF Init, NoRecords
<1> QED BY <1>1, StateInit, FoldedEmpty, Zenon

\* Consecutive outputs that carry folded values are the output of the inputs.
LEMMA FoldedIsOutput ==
  ASSUME NEW p, NEW n \in Nat, NEW s \in Seq(Outputs), Len(s) = n, From(s, 0),
         Folded(p, s)
  PROVE  Abstract!IsOutput(p, n, s)
<1>1. s \in Seq([off : Nat, val : Seq(Nat)])
  BY Zenon DEF Outputs, Values
<1>2. ASSUME NEW i \in 1 .. n
      PROVE  s[i].off = i - 1 /\ Abstract!IsFold(p, KeyOf[p][i - 1], i, s[i].val)
  <2>1. s[i].off = i - 1
    BY DEF From
  <2>2. Abstract!IsFold(p, KeyOf[p][s[i].off], s[i].off + 1, s[i].val)
    BY Zenon DEF Folded
  <2>3. (i - 1) + 1 = i
    OBVIOUS
  <2> QED BY <2>1, <2>2, <2>3, Zenon
<1> QED BY <1>1, <1>2, Zenon DEF Abstract!IsOutput

\* A committed offset never goes back and never passes the end of the input.
LEMMA OffsetsAdvance ==
  ASSUME ControlInv, ControlInv', [Next]_vars, NEW p \in Partitions
  PROVE  committed'[p] \in committed[p] .. End[p]
<1>1. /\ committed[p] \in Nat /\ committed'[p] \in Nat /\ next[p] \in Nat
      /\ End[p] \in Nat /\ committed'[p] <= End[p]
  BY EOSEndAssumption, Zenon DEF ControlInv
<1>2. committed' = committed \/ (committed'[p] = next[p] /\ committed[p] <= next[p])
  <2>1. CASE Published
    BY <2>1, Zenon DEF Published, Publish, CommitDue, ControlInv, Live, Between
  <2>2. CASE Quiet \/ Dropped \/ Produce \/ Exit
    BY <2>2, Zenon DEF Quiet, Dropped, Produce, Exit, broker
  <2>3. ASSUME NEW q \in Partitions, FoldRecord(q) \/ CloseTask(q)
        PROVE  committed' = committed
    BY <2>3, Zenon DEF FoldRecord, CloseTask, broker
  <2>4. CASE Started
    BY <2>4, Zenon DEF Started, StartLoop, broker
  <2> QED BY <2>1, <2>2, <2>3, <2>4, StepKinds, Zenon
<1> QED BY <1>1, <1>2

\* Unless a fault leaves mutations undrained, the pipeline on the memory
\* backend implements the exactly-once promise: sink output, rebuilt state and
\* source offsets advance in one step, and each is what processing every input
\* below the offset once, in order, yields (runEOS: "sink writes, changelog
\* writes, and source-offset commits atomic").
THEOREM ImplementsExactlyOnce ==
  ASSUME NothingUndrained
  PROVE  Spec => ExactlyOnceSafety
<1> DEFINE Inv == PipelineInv /\ FoldInv
<1>1. Spec => []Inv
  <2>1. Init => FoldInv
    BY FoldInit, Zenon
  <2>2. PipelineInv /\ PipelineInv' /\ FoldInv /\ [Next]_vars => FoldInv'
    BY FoldStep, Zenon
  <2> QED BY <2>1, <2>2, PipelineInvariant, PTL DEF Spec
<1>2. Init => Abstract!Init
  <2> SUFFICES ASSUME Init PROVE Abstract!Init
    BY Zenon
  <2>2. committed = [p \in Partitions |-> 0]
    BY Zenon DEF Init
  <2>3. ASSUME NEW p \in Partitions
        PROVE  Abstract!IsOutput(p, 0, sink[p]) /\ Abstract!IsState(p, 0, Rebuilt(p))
    <3>1. sink[p] = <<>>
      BY Zenon DEF Init, NoRecords
    <3>2. Abstract!IsOutput(p, 0, <<>>)
      BY DEF Abstract!IsOutput
    <3>3. Abstract!IsState(p, committed[p], Rebuilt(p))
      BY StateInit, Zenon
    <3> QED BY <2>2, <3>1, <3>2, <3>3, Zenon
  <2> QED BY <2>2, <2>3, Zenon DEF Abstract!Init
<1>3. ASSUME Inv, Inv', [Next]_vars
      PROVE  [backend = "memory" => Abstract!Advance]_<<broker, backend>>
  <2> SUFFICES ASSUME backend = "memory" PROVE Abstract!Advance
    BY Zenon
  <2>1. backend' = "memory"
    BY <1>3, StepKinds, Zenon DEF PipelineInv
  <2>2. DOMAIN committed' = Partitions
    BY <1>3, Zenon DEF PipelineInv, ControlInv
  <2>3. ASSUME NEW p \in Partitions
        PROVE  /\ committed'[p] \in committed[p] .. End[p]
               /\ Abstract!IsOutput(p, committed'[p], sink'[p])
               /\ Abstract!IsState(p, committed'[p], Rebuilt(p)')
    <3>1. committed'[p] \in committed[p] .. End[p]
      BY <1>3, OffsetsAdvance, Zenon DEF PipelineInv
    <3>2. Abstract!IsOutput(p, committed'[p], sink'[p])
      <4>1. /\ committed'[p] \in Nat /\ sink'[p] \in Seq(Outputs)
            /\ Len(sink'[p]) = committed'[p] /\ From(sink'[p], 0)
            /\ Folded(p, sink'[p])
        BY <1>3, <2>1, Zenon
        DEF PipelineInv, ControlInv, DataInv, OutputInv, FoldInv
      <4> QED BY <4>1, FoldedIsOutput, Zenon
    <3>3. Abstract!IsState(p, committed'[p], Rebuilt(p)')
      BY <1>3, <2>1, Zenon DEF FoldInv
    <3> QED BY <3>1, <3>2, <3>3, Zenon
  <2> QED BY <2>2, <2>3, Zenon DEF Abstract!Advance
<1> QED BY <1>1, <1>2, <1>3, PTL DEF Spec, ExactlyOnceSafety
============================================================================
