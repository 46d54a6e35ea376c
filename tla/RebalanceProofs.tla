--------------------------- MODULE RebalanceProofs ---------------------------
(***************************************************************************)
(* Proofs about Rebalance for any number of instances, partitions, tasks   *)
(* and records, and any number of moves, faults and evictions: below the   *)
(* committed offset every output is in the sink, and with one source per   *)
(* task at most one instance has the store of a task open, an opened store *)
(* covers its changelog, and only inputs of a batch that a revocation      *)
(* overtook are ever missing from the state.                               *)
(***************************************************************************)
EXTENDS Rebalance, ChangelogProofs

-----------------------------------------------------------------------------
(* SinkComplete.  An offset is committed only after it was pending, it is  *)
(* pending only after its output was produced, and a batch begins where    *)
(* all outputs before it have been produced.                               *)

Numbers == [start : Int, next : Int, end : Int]

\* Where the loop may be; when it polls or commits it has no batch in hand.
Places == {"poll", "process", "postBatch", "produce", "commit", "stopped", "leaving"}
Emptied == {"poll", "commit"}

SinkInv ==
  /\ committed \in [Sources -> Int]
  /\ pending \in [Instances -> [Sources -> Int]]
  /\ position \in [Instances -> [Sources -> Int]]
  /\ batch \in [Instances -> [Sources -> Numbers]]
  /\ pc \in [Instances -> Places]
  /\ \A i \in Instances, s \in Sources :
       pc[i] \in Emptied => batch[i][s].start = 0 /\ batch[i][s].end = 0
  /\ \A x \in Inputs : x[2] < committed[x[1]] => x \in sink
  /\ \A i \in Instances, x \in Inputs :
       /\ x[2] <= pending[i][x[1]] => x \in sink
       /\ x[2] < batch[i][x[1]].start => x \in sink
       /\ x[2] < position[i][x[1]] => x \in sink \/ x[2] < batch[i][x[1]].end

\* A step that neither fetches a batch nor adds its offsets: it commits only
\* what is pending, fetches on from a committed offset or not at all, and
\* keeps the batch in hand or drops it together with the position.
Calm ==
  /\ sink \subseteq sink'
  /\ committed' \in [Sources -> Int]
  /\ \A s \in Sources :
       \/ committed'[s] = committed[s]
       \/ \E i \in Instances : committed'[s] = pending[i][s] + 1
  /\ pending' \in [Instances -> [Sources -> Int]]
  /\ position' \in [Instances -> [Sources -> Int]]
  /\ batch' \in [Instances -> [Sources -> Numbers]]
  /\ pc' \in [Instances -> Places]
  /\ \A i \in Instances, s \in Sources :
       /\ pending'[i][s] = pending[i][s] \/ pending'[i][s] = -1
       /\ \/ position'[i][s] = -1
          \/ position'[i][s] = committed[s]
          \/ position'[i][s] = position[i][s] /\ batch'[i][s].end = batch[i][s].end
       /\ \/ /\ batch'[i][s].start = 0 /\ batch'[i][s].end = 0
             /\ batch'[i][s].next = 0
          \/ /\ batch'[i][s].start = batch[i][s].start
             /\ batch'[i][s].end = batch[i][s].end
             /\ batch'[i][s].next \in {batch[i][s].next, batch[i][s].next + 1}
             /\ pc'[i] \in Emptied => pc[i] \in Emptied

\* The places of an input.
LEMMA InputParts ==
  ASSUME NEW x \in Inputs
  PROVE  x[1] \in Sources /\ x[2] \in Nat
BY RebalanceAssumption DEF Inputs, Offsets

\* An offset below the end of a batch is below what has been processed of it.
LEMMA BelowNext ==
  ASSUME NEW x \in Nat, NEW y \in Int, NEW z \in Int, x < y, y <= z
  PROVE  x < z
  OBVIOUS

\* A calm step keeps the invariant.
LEMMA CalmKeeps ==
  ASSUME SinkInv, Calm
  PROVE  SinkInv'
<1>0. ASSUME NEW i \in Instances, NEW s \in Sources
      PROVE  /\ pending'[i][s] = pending[i][s] \/ pending'[i][s] = -1
             /\ \/ position'[i][s] = -1
                \/ position'[i][s] = committed[s]
                \/ position'[i][s] = position[i][s] /\ batch'[i][s].end = batch[i][s].end
             /\ \/ batch'[i][s].start = 0 /\ batch'[i][s].end = 0
                \/ /\ batch'[i][s].start = batch[i][s].start
                   /\ batch'[i][s].end = batch[i][s].end
                   /\ pc'[i] \in Emptied => pc[i] \in Emptied
  BY Zenon DEF Calm
<1>1. ASSUME NEW i \in Instances, NEW s \in Sources, pc'[i] \in Emptied
      PROVE  batch'[i][s].start = 0 /\ batch'[i][s].end = 0
  <2>1. pc[i] \in Emptied => batch[i][s].start = 0 /\ batch[i][s].end = 0
    BY Zenon DEF SinkInv
  <2> QED BY <1>0, <1>1, <2>1, Zenon
<1>2. ASSUME NEW x \in Inputs, x[2] < committed'[x[1]] PROVE x \in sink'
  <2>1. x[1] \in Sources /\ x[2] \in Nat
    BY InputParts, Zenon
  <2>2. CASE committed'[x[1]] = committed[x[1]]
    BY <1>2, <2>2, Zenon DEF SinkInv, Calm
  <2>3. CASE \E i \in Instances : committed'[x[1]] = pending[i][x[1]] + 1
    <3>1. PICK i \in Instances : committed'[x[1]] = pending[i][x[1]] + 1
      BY <2>3, Zenon
    <3>2. pending[i][x[1]] \in Int
      BY <2>1, Zenon DEF SinkInv
    <3>3. x[2] <= pending[i][x[1]]
      BY <1>2, <2>1, <3>1, <3>2
    <3> QED BY <3>3, Zenon DEF SinkInv, Calm
  <2> QED BY <2>1, <2>2, <2>3, Zenon DEF Calm
<1>3. ASSUME NEW i \in Instances, NEW x \in Inputs
      PROVE  /\ x[2] <= pending'[i][x[1]] => x \in sink'
             /\ x[2] < batch'[i][x[1]].start => x \in sink'
             /\ x[2] < position'[i][x[1]] => x \in sink' \/ x[2] < batch'[i][x[1]].end
  <2> DEFINE s == x[1]
             o == x[2]
  <2>1. s \in Sources /\ o \in Nat
    BY InputParts, Zenon
  <2>2. sink \subseteq sink'
    BY Zenon DEF Calm
  <2>3. /\ o <= pending[i][s] => x \in sink
        /\ o < batch[i][s].start => x \in sink
        /\ o < position[i][s] => x \in sink \/ o < batch[i][s].end
        /\ o < committed[s] => x \in sink
    BY Zenon DEF SinkInv
  <2>4. o <= pending'[i][s] => x \in sink'
    BY <1>0, <2>1, <2>2, <2>3
  <2>5. o < batch'[i][s].start => x \in sink'
    BY <1>0, <2>1, <2>2, <2>3
  <2>6. o < position'[i][s] => x \in sink' \/ o < batch'[i][s].end
    BY <1>0, <2>1, <2>2, <2>3
  <2> QED BY <2>4, <2>5, <2>6, Zenon
<1> QED BY <1>1, <1>2, <1>3, Zenon DEF SinkInv, Calm

\* The loop of instance i goes on to l.
LEMMA LoopMoves ==
  ASSUME pc \in [Instances -> Places], NEW i \in Instances, NEW l \in Places,
         pc' = [pc EXCEPT ![i] = l], l \in Emptied => pc[i] \in Emptied
  PROVE  /\ pc' \in [Instances -> Places]
         /\ \A j \in Instances : pc'[j] \in Emptied => pc[j] \in Emptied
BY Zenon

\* Steps that leave offsets and batches alone.
LEMMA StillCalm ==
  ASSUME SinkInv, UNCHANGED <<committed, position, batch, pending>>,
         sink \subseteq sink', pc' \in [Instances -> Places],
         \A i \in Instances : pc'[i] \in Emptied => pc[i] \in Emptied
  PROVE  Calm
BY DEF SinkInv, Calm

\* The steps of the group and of the callbacks that do not commit.
LEMMA CallbackCalm ==
  ASSUME SinkInv, NEW i \in Instances, NEW t \in Tasks, NEW S \in SUBSET Sources,
         \/ Assign(i, S) \/ Evict(i)
         \/ CloseTask(i, t) \/ CloseTaskFlushFail(i, t) \/ CloseStore(i, t)
         \/ CloseNothing(i, t) \/ RevokeDoneEvicted(i)
         \/ OpenTask(i, t) \/ OpenTaskFail(i, t) \/ OpenTaskLocked(i, t)
  PROVE  Calm
<1>1. UNCHANGED <<committed, position, batch, pending, sink, pc>>
  BY Zenon DEF Assign, Evict, CloseTask, CloseTaskFlushFail, DrainTask, CloseStore,
         CloseNothing, RevokeDoneEvicted, OpenTask, OpenTaskFail, OpenTaskLocked,
         broker, loop
<1> QED BY <1>1, StillCalm, Zenon DEF SinkInv

\* The steps of the loop that do not touch the offsets.
LEMMA LoopCalm ==
  ASSUME SinkInv, NEW i \in Instances,
         \/ \E s \in Sources : LookUp(i, s) \/ NoTask(i, s) \/ ExecuteClosed(i, s)
         \/ BatchFailed(i) \/ ProcessDone(i) \/ PostBatch(i) \/ PostBatchFail(i)
         \/ NotDue(i) \/ ProduceFail(i)
  PROVE  Calm
<1>1. UNCHANGED <<committed, position, batch, pending>> /\ sink \subseteq sink'
  BY Zenon DEF LookUp, NoTask, ExecuteClosed, BatchFailed, ProcessDone, PostBatch,
         PostBatchFail, NotDue, ProduceFail, broker
<1>2. \/ pc' = pc
      \/ \E l \in {"stopped", "postBatch", "produce"} : pc' = [pc EXCEPT ![i] = l]
      \/ pc[i] = "commit" /\ pc' = [pc EXCEPT ![i] = "poll"]
  BY Zenon DEF LookUp, NoTask, ExecuteClosed, BatchFailed, ProcessDone, PostBatch,
         PostBatchFail, NotDue, ProduceFail, Stop
<1>3. pc \in [Instances -> Places]
  BY Zenon DEF SinkInv
<1>4. pc' \in [Instances -> Places]
      /\ \A j \in Instances : pc'[j] \in Emptied => pc[j] \in Emptied
  <2>1. CASE pc' = pc
    BY <2>1, <1>3, Zenon
  <2>2. ASSUME NEW l \in {"stopped", "postBatch", "produce"}, pc' = [pc EXCEPT ![i] = l]
        PROVE  /\ pc' \in [Instances -> Places]
               /\ \A j \in Instances : pc'[j] \in Emptied => pc[j] \in Emptied
    <3>1. l \in Places /\ l \notin Emptied
      BY Zenon DEF Places, Emptied
    <3> QED BY <3>1, <2>2, <1>3, LoopMoves, Zenon
  <2>3. CASE pc[i] = "commit" /\ pc' = [pc EXCEPT ![i] = "poll"]
    <3>1. "poll" \in Places /\ pc[i] \in Emptied
      BY <2>3, Zenon DEF Places, Emptied
    <3> QED BY <3>1, <2>3, <1>3, LoopMoves, Zenon
  <2> QED BY <1>2, <2>1, <2>2, <2>3, Zenon
<1> QED BY <1>1, <1>4, StillCalm, Zenon

\* Processing a record moves only the place within the batch.
LEMMA ExecuteCalm ==
  ASSUME SinkInv, NEW i \in Instances, NEW s \in Sources, Execute(i, s)
  PROVE  Calm
<1>1. UNCHANGED <<committed, position, pending, sink, pc>>
  BY Zenon DEF Execute, broker
<1>2. batch' = [batch EXCEPT ![i][s].next = batch[i][s].next + 1]
  BY Zenon DEF Execute
<1>3. batch \in [Instances -> [Sources -> Numbers]]
  BY Zenon DEF SinkInv
<1>4. batch[i][s] \in Numbers
  BY <1>3, Zenon
<1>5. [batch[i][s] EXCEPT !.next = batch[i][s].next + 1] \in Numbers
  BY <1>4 DEF Numbers
<1>6. batch' = [batch EXCEPT ![i] = [batch[i] EXCEPT ![s] =
                  [batch[i][s] EXCEPT !.next = batch[i][s].next + 1]]]
  BY <1>2, Zenon
<1>7. batch' \in [Instances -> [Sources -> Numbers]]
  BY <1>3, <1>5, <1>6, Zenon
<1>8. ASSUME NEW j \in Instances, NEW u \in Sources
      PROVE  /\ batch'[j][u].start = batch[j][u].start
             /\ batch'[j][u].end = batch[j][u].end
             /\ batch'[j][u].next \in {batch[j][u].next, batch[j][u].next + 1}
  BY <1>3, <1>4, <1>6, Zenon DEF Numbers
<1> QED BY <1>1, <1>7, <1>8 DEF SinkInv, Calm

\* Positions are dropped or set to the committed offsets.
LEMMA PositionCalm ==
  ASSUME SinkInv, NEW i \in Instances, NEW S \in SUBSET Sources,
         Revoke(i, S) \/ NoticeEviction(i) \/ AssignDone(i)
  PROVE  Calm
<1>1. UNCHANGED <<committed, batch, pending, sink, pc>>
  BY Zenon DEF Revoke, NoticeEviction, AssignDone, broker
<1>2. \E T, U \in SUBSET Sources :
        position' = [position EXCEPT ![i] = [s \in Sources |->
          IF s \in T THEN -1 ELSE IF s \in U THEN committed[s] ELSE position[i][s]]]
  <2>1. CASE Revoke(i, S) \/ NoticeEviction(i)
    <3>1. PICK T \in SUBSET Sources : StopFetching(i, T)
      BY <2>1, Zenon DEF Revoke, NoticeEviction, StartRevoke, LostBy
    <3>2. position' = [position EXCEPT ![i] = [s \in Sources |->
            IF s \in T THEN -1 ELSE IF s \in {} THEN committed[s] ELSE position[i][s]]]
      BY <3>1, Zenon DEF StopFetching
    <3> QED BY <3>2, Zenon
  <2>2. CASE AssignDone(i)
    <3> DEFINE U == callback[i].sources \cap Sources
    <3>1. position' = [position EXCEPT ![i] = [s \in Sources |->
            IF s \in {} THEN -1 ELSE IF s \in U THEN committed[s] ELSE position[i][s]]]
      BY <2>2, Zenon DEF AssignDone
    <3>2. U \in SUBSET Sources /\ {} \in SUBSET Sources
      BY Zenon
    <3> HIDE DEF U
    <3> QED BY <3>1, <3>2, Zenon
  <2> QED BY <2>1, <2>2, Zenon
<1>3. PICK T, U \in SUBSET Sources :
        position' = [position EXCEPT ![i] = [s \in Sources |->
          IF s \in T THEN -1 ELSE IF s \in U THEN committed[s] ELSE position[i][s]]]
  BY <1>2, Zenon
<1>4. position \in [Instances -> [Sources -> Int]] /\ committed \in [Sources -> Int]
  BY Zenon DEF SinkInv
<1>5. position' \in [Instances -> [Sources -> Int]]
  BY <1>3, <1>4
<1>6. ASSUME NEW j \in Instances, NEW s \in Sources
      PROVE  position'[j][s] \in {-1, committed[s], position[j][s]}
  BY <1>3, <1>4, Zenon
<1> QED BY <1>1, <1>5, <1>6 DEF SinkInv, Calm

\* A process starts again with nothing.
LEMMA FreshCalm ==
  ASSUME SinkInv, NEW i \in Instances,
         (\E s \in Sources : ExecutePanics(i, s)) \/ Crash(i) \/ Exit(i)
  PROVE  Calm
<1>1. Fresh(i) /\ UNCHANGED <<committed, sink>> /\ pc' = [pc EXCEPT ![i] = "poll"]
  BY Zenon DEF ExecutePanics, Crash, Exit, Die, broker
<1>2. /\ position' = [position EXCEPT ![i] = [u \in Sources |-> -1]]
      /\ batch' = [batch EXCEPT ![i] = [u \in Sources |-> NoBatch]]
      /\ pending' = [pending EXCEPT ![i] = [u \in Sources |-> -1]]
  BY <1>1, Zenon DEF Fresh
<1>3. NoBatch \in Numbers /\ NoBatch.start = 0 /\ NoBatch.next = 0 /\ NoBatch.end = 0
  BY DEF NoBatch, Numbers
<1>4. /\ committed' \in [Sources -> Int]
      /\ pending' \in [Instances -> [Sources -> Int]]
      /\ position' \in [Instances -> [Sources -> Int]]
      /\ batch' \in [Instances -> [Sources -> Numbers]]
      /\ pc' \in [Instances -> Places]
  <2>1. /\ committed \in [Sources -> Int]
        /\ pending \in [Instances -> [Sources -> Int]]
        /\ position \in [Instances -> [Sources -> Int]]
        /\ batch \in [Instances -> [Sources -> Numbers]]
        /\ pc \in [Instances -> Places]
    BY Zenon DEF SinkInv
  <2>2. "poll" \in Places
    BY Zenon DEF Places
  <2>3. [u \in Sources |-> -1] \in [Sources -> Int]
        /\ [u \in Sources |-> NoBatch] \in [Sources -> Numbers]
    BY <1>3
  <2>4. pending' \in [Instances -> [Sources -> Int]]
        /\ position' \in [Instances -> [Sources -> Int]]
    BY <2>1, <2>3, <1>2, Zenon
  <2>5. batch' \in [Instances -> [Sources -> Numbers]]
    BY <2>1, <2>3, <1>2, Zenon
  <2>6. pc' \in [Instances -> Places]
    BY <2>1, <2>2, <1>1, Zenon
  <2> QED BY <2>1, <2>4, <2>5, <2>6, <1>1, Zenon
<1>5. ASSUME NEW j \in Instances, NEW u \in Sources
      PROVE  \/ /\ pending'[j][u] = -1 /\ position'[j][u] = -1
                /\ batch'[j][u].start = 0 /\ batch'[j][u].next = 0 /\ batch'[j][u].end = 0
             \/ /\ pending'[j][u] = pending[j][u] /\ position'[j][u] = position[j][u]
                /\ batch'[j][u] = batch[j][u] /\ pc'[j] = pc[j]
  BY <1>1, <1>2, <1>3, Zenon DEF SinkInv
<1> QED BY <1>1, <1>4, <1>5 DEF Calm

\* Whoever commits, commits what is pending.
LEMMA CommitCalm ==
  ASSUME SinkInv, NEW i \in Instances,
         \/ RevokeDone(i) \/ RevokeDoneUncommitted(i)
         \/ Commit(i) \/ CommitFail(i) \/ Shutdown(i) \/ Close(i)
  PROVE  Calm
<1>1. CommitOK(i) \/ CommitError(i)
  BY Zenon DEF RevokeDone, RevokeDoneUncommitted, Commit, CommitFail, Shutdown, Close
<1>2. UNCHANGED <<batch, sink>>
  BY Zenon DEF RevokeDone, RevokeDoneUncommitted, Commit, CommitFail, Shutdown, Close, loop
<1>3. \/ pc' = pc
      \/ pc[i] \in Emptied /\ pc' = [pc EXCEPT ![i] = "poll"]
      \/ \E l \in {"stopped", "leaving"} : pc' = [pc EXCEPT ![i] = l]
  BY Zenon DEF RevokeDone, RevokeDoneUncommitted, Commit, CommitFail, Shutdown, Close,
         loop, Stop, Emptied
<1>4. position' = position
      \/ position' = [position EXCEPT ![i] = [s \in Sources |->
                        IF s \in Owned(i) THEN -1 ELSE position[i][s]]]
  BY Zenon DEF RevokeDone, RevokeDoneUncommitted, Commit, CommitFail, Shutdown, Close,
         loop, StartRevoke, StopFetching
<1>5. pc' \in [Instances -> Places]
      /\ \A j \in Instances : pc'[j] \in Emptied => pc[j] \in Emptied
  <2>1. pc \in [Instances -> Places]
    BY Zenon DEF SinkInv
  <2>2. CASE pc' = pc
    BY <2>1, <2>2, Zenon
  <2>3. CASE pc[i] \in Emptied /\ pc' = [pc EXCEPT ![i] = "poll"]
    <3>1. "poll" \in Places
      BY Zenon DEF Places
    <3> QED BY <3>1, <2>1, <2>3, LoopMoves, Zenon
  <2>4. ASSUME NEW l \in {"stopped", "leaving"}, pc' = [pc EXCEPT ![i] = l]
        PROVE  /\ pc' \in [Instances -> Places]
               /\ \A j \in Instances : pc'[j] \in Emptied => pc[j] \in Emptied
    <3>1. l \in Places /\ l \notin Emptied
      BY Zenon DEF Places, Emptied
    <3> QED BY <3>1, <2>1, <2>4, LoopMoves, Zenon
  <2> QED BY <1>3, <2>2, <2>3, <2>4, Zenon
<1>6. /\ position' \in [Instances -> [Sources -> Int]]
      /\ \A j \in Instances, s \in Sources : position'[j][s] \in {-1, position[j][s]}
  <2>1. position \in [Instances -> [Sources -> Int]]
    BY Zenon DEF SinkInv
  <2> QED BY <1>4, <2>1
<1>7. /\ pending' \in [Instances -> [Sources -> Int]]
      /\ \A j \in Instances, s \in Sources : pending'[j][s] \in {-1, pending[j][s]}
  <2>1. pending \in [Instances -> [Sources -> Int]]
    BY Zenon DEF SinkInv
  <2>2. pending' = pending \/ pending' = [pending EXCEPT ![i] = [s \in Sources |-> -1]]
    BY <1>1, Zenon DEF CommitOK, CommitError
  <2> QED BY <2>1, <2>2
<1>8. /\ committed' \in [Sources -> Int]
      /\ \A s \in Sources : \/ committed'[s] = committed[s]
                           \/ committed'[s] = pending[i][s] + 1
  BY <1>1 DEF CommitOK, CommitError, CommitOffsets, SinkInv
<1> QED BY <1>2, <1>5, <1>6, <1>7, <1>8 DEF SinkInv, Calm

\* Poll: a batch begins at the position, before which every output is in the
\* sink since no batch was in hand.
LEMMA PollKeeps ==
  ASSUME SinkInv, NEW i \in Instances, Poll(i)
  PROVE  SinkInv'
<1>1. PICK end \in [Sources -> 0 .. End] :
        /\ \A s \in Sources :
             IF position[i][s] = -1 THEN end[s] = 0 ELSE position[i][s] <= end[s]
        /\ batch' = [batch EXCEPT ![i] = [s \in Sources |->
             IF position[i][s] = -1 THEN NoBatch
             ELSE [start |-> position[i][s], next |-> position[i][s],
                   end |-> end[s]]]]
        /\ position' = [position EXCEPT ![i] = [s \in Sources |->
             IF position[i][s] = -1 THEN -1 ELSE end[s]]]
  BY Zenon DEF Poll
<1>2. /\ pc[i] = "poll" /\ pc' = [pc EXCEPT ![i] = "process"]
      /\ UNCHANGED <<committed, sink, pending>>
  BY Zenon DEF Poll, broker
<1>3. /\ committed \in [Sources -> Int]
      /\ pending \in [Instances -> [Sources -> Int]]
      /\ position \in [Instances -> [Sources -> Int]]
      /\ batch \in [Instances -> [Sources -> Numbers]]
      /\ pc \in [Instances -> Places]
  BY Zenon DEF SinkInv
<1>4. ASSUME NEW s \in Sources PROVE end[s] \in Int /\ position[i][s] \in Int
  BY <1>1, <1>3, RebalanceAssumption
<1> DEFINE Fetched(s) ==
             IF position[i][s] = -1 THEN NoBatch
             ELSE [start |-> position[i][s], next |-> position[i][s], end |-> end[s]]
<1>5. ASSUME NEW s \in Sources
      PROVE  /\ Fetched(s) \in Numbers
             /\ position[i][s] = -1 => Fetched(s).start = 0
             /\ position[i][s] # -1 => /\ Fetched(s).start = position[i][s]
                                       /\ Fetched(s).end = end[s]
  BY <1>4 DEF NoBatch, Numbers
<1>6. batch' = [batch EXCEPT ![i] = [s \in Sources |-> Fetched(s)]]
  BY <1>1, Zenon
<1> HIDE DEF Fetched
<1>7. batch' \in [Instances -> [Sources -> Numbers]]
  BY <1>3, <1>5, <1>6, Zenon
<1>8. position' \in [Instances -> [Sources -> Int]]
  BY <1>1, <1>3, <1>4, Zenon
<1>9. pc' \in [Instances -> Places] /\ pc'[i] \notin Emptied
  BY <1>2, <1>3, Zenon DEF Places, Emptied
<1>10. ASSUME NEW j \in Instances, NEW s \in Sources, j # i
       PROVE  /\ batch'[j] = batch[j] /\ position'[j][s] = position[j][s]
              /\ pc'[j] = pc[j]
  BY <1>1, <1>2, <1>3, <1>6, <1>10, Zenon
<1>11. ASSUME NEW s \in Sources
       PROVE  /\ batch'[i][s] = Fetched(s)
              /\ position[i][s] = -1 => position'[i][s] = -1
              /\ position[i][s] # -1 => position'[i][s] = end[s]
  BY <1>1, <1>3, <1>6
<1>12. ASSUME NEW j \in Instances, NEW s \in Sources, pc'[j] \in Emptied
       PROVE  batch'[j][s].start = 0 /\ batch'[j][s].end = 0
  <2>1. j # i /\ pc[j] \in Emptied
    BY <1>9, <1>10, <1>12, Zenon
  <2> QED BY <2>1, <1>10 DEF SinkInv
<1>13. ASSUME NEW j \in Instances, NEW x \in Inputs
       PROVE  /\ x[2] < batch'[j][x[1]].start => x \in sink
              /\ x[2] < position'[j][x[1]] => x \in sink \/ x[2] < batch'[j][x[1]].end
  <2>1. x[1] \in Sources /\ x[2] \in Nat
    BY InputParts, Zenon
  <2>2. /\ x[2] < batch[j][x[1]].start => x \in sink
        /\ x[2] < position[j][x[1]] => x \in sink \/ x[2] < batch[j][x[1]].end
    BY Zenon DEF SinkInv
  <2>3. CASE j # i
    BY <2>1, <2>2, <2>3, <1>10, Zenon
  <2>4. CASE j = i
    <3>1. batch[i][x[1]].end = 0
      BY <1>2, <2>1, Zenon DEF SinkInv, Emptied
    <3>2. x[2] < position[i][x[1]] => x \in sink
      BY <2>1, <2>2, <2>4, <3>1
    <3> QED BY <2>1, <2>4, <3>2, <1>4, <1>5, <1>11
  <2> QED BY <2>3, <2>4, Zenon
<1>14. \A j \in Instances, x \in Inputs : x[2] <= pending[j][x[1]] => x \in sink
  BY Zenon DEF SinkInv
<1>15. \A x \in Inputs : x[2] < committed[x[1]] => x \in sink
  BY Zenon DEF SinkInv
<1> QED BY <1>2, <1>3, <1>7, <1>8, <1>9, <1>12, <1>13, <1>14, <1>15, Zenon DEF SinkInv

\* Produce: the outputs of the batch are in the sink when its offsets are added.
LEMMA ProduceKeeps ==
  ASSUME SinkInv, NEW i \in Instances, Produce(i)
  PROVE  SinkInv'
<1>1. /\ sink' = sink \cup BatchInputs(i)
      /\ pending' = [pending EXCEPT ![i] = [s \in Sources |-> Added(i, s)]]
      /\ batch' = [batch EXCEPT ![i] = [s \in Sources |-> NoBatch]]
      /\ pc' = [pc EXCEPT ![i] = "commit"]
      /\ UNCHANGED <<committed, position>>
  BY Zenon DEF Produce
<1>2. /\ committed \in [Sources -> Int]
      /\ pending \in [Instances -> [Sources -> Int]]
      /\ position \in [Instances -> [Sources -> Int]]
      /\ batch \in [Instances -> [Sources -> Numbers]]
      /\ pc \in [Instances -> Places]
  BY Zenon DEF SinkInv
<1>3. ASSUME NEW s \in Sources
      PROVE  batch[i][s].start \in Int /\ batch[i][s].end \in Int /\ pending[i][s] \in Int
  BY <1>2, Zenon DEF Numbers
<1>4. ASSUME NEW s \in Sources
      PROVE  /\ Added(i, s) \in Int
             /\ Added(i, s) = pending[i][s] \/ Added(i, s) = batch[i][s].end - 1
  BY <1>3 DEF Added
<1>5. pending' \in [Instances -> [Sources -> Int]]
  BY <1>1, <1>2, <1>4, Zenon
<1>6. NoBatch \in Numbers /\ NoBatch.start = 0 /\ NoBatch.end = 0
  BY DEF NoBatch, Numbers
<1>7. batch' \in [Instances -> [Sources -> Numbers]]
  BY <1>1, <1>2, <1>6, Zenon
<1>8. pc' \in [Instances -> Places]
  BY <1>1, <1>2, Zenon DEF Places
<1>9. ASSUME NEW j \in Instances, NEW s \in Sources
      PROVE  /\ j = i => batch'[j][s] = NoBatch /\ pending'[j][s] = Added(i, s)
             /\ j # i => /\ batch'[j][s] = batch[j][s] /\ pending'[j][s] = pending[j][s]
                        /\ pc'[j] = pc[j]
  BY <1>1, <1>2, Zenon
<1>10. ASSUME NEW j \in Instances, NEW s \in Sources, pc'[j] \in Emptied
       PROVE  batch'[j][s].start = 0 /\ batch'[j][s].end = 0
  BY <1>6, <1>9, <1>10 DEF SinkInv
<1>11. ASSUME NEW x \in Inputs, x[2] < batch[i][x[1]].end PROVE x \in sink'
  <2>1. x[1] \in Sources /\ x[2] \in Nat
    BY InputParts, Zenon
  <2>2. CASE x[2] < batch[i][x[1]].start
    BY <2>2, <1>1, Zenon DEF SinkInv
  <2>3. CASE batch[i][x[1]].start <= x[2]
    BY <2>3, <1>11, <1>1, Zenon DEF BatchInputs
  <2> QED BY <2>1, <2>2, <2>3, <1>3
<1>12. ASSUME NEW j \in Instances, NEW x \in Inputs
       PROVE  /\ x[2] <= pending'[j][x[1]] => x \in sink'
              /\ x[2] < batch'[j][x[1]].start => x \in sink'
              /\ x[2] < position[j][x[1]] => x \in sink' \/ x[2] < batch'[j][x[1]].end
  <2>1. x[1] \in Sources /\ x[2] \in Nat
    BY InputParts, Zenon
  <2>2. /\ x[2] <= pending[j][x[1]] => x \in sink
        /\ x[2] < batch[j][x[1]].start => x \in sink
        /\ x[2] < position[j][x[1]] => x \in sink \/ x[2] < batch[j][x[1]].end
    BY Zenon DEF SinkInv
  <2>3. sink \subseteq sink'
    BY <1>1, Zenon
  <2>4. CASE j # i
    BY <2>1, <2>2, <2>3, <2>4, <1>9
  <2>5. CASE j = i
    <3>1. x[2] <= batch[i][x[1]].end - 1 => x \in sink'
      BY <2>1, <1>3, <1>11
    <3>2. x[2] <= pending'[i][x[1]] => x \in sink'
      BY <2>1, <2>2, <2>3, <2>5, <3>1, <1>3, <1>4, <1>9
    <3>3. ~(x[2] < batch'[i][x[1]].start)
      BY <2>1, <1>6, <1>9
    <3>4. x[2] < position[i][x[1]] => x \in sink'
      BY <2>2, <2>3, <2>5, <1>11, Zenon
    <3> QED BY <2>5, <3>2, <3>3, <3>4, Zenon
  <2> QED BY <2>4, <2>5, Zenon
<1>13. \A x \in Inputs : x[2] < committed[x[1]] => x \in sink'
  BY <1>1, Zenon DEF SinkInv
<1> QED BY <1>1, <1>2, <1>5, <1>7, <1>8, <1>10, <1>12, <1>13, Zenon DEF SinkInv

\* Every step that the three specifications allow.
AnyStep ==
  \/ Next
  \/ \E i \in Instances, t \in Tasks : OpenTaskLocked(i, t)
  \/ \E i \in Instances : Evict(i) \/ NoticeEviction(i) \/ RevokeDoneEvicted(i)

\* Every step is calm, fetches a batch or adds its offsets.
LEMMA StepKinds ==
  ASSUME SinkInv, [AnyStep]_vars
  PROVE  Calm \/ \E i \in Instances : Poll(i) \/ Produce(i)
<1>1. CASE UNCHANGED vars
  <2>1. UNCHANGED <<committed, position, batch, pending, sink, pc>>
    BY <1>1, Zenon DEF vars, broker, loop
  <2> QED BY <2>1, StillCalm, Zenon DEF SinkInv
<1>2. ASSUME NEW i \in Instances, NEW t \in Tasks,
             \/ CloseTask(i, t) \/ CloseTaskFlushFail(i, t) \/ CloseStore(i, t)
             \/ CloseNothing(i, t)
             \/ OpenTask(i, t) \/ OpenTaskFail(i, t) \/ OpenTaskLocked(i, t)
      PROVE  Calm
  BY <1>2, CallbackCalm, Zenon
<1>3. ASSUME NEW i \in Instances, Evict(i) \/ RevokeDoneEvicted(i)
      PROVE  Calm
  <2>1. UNCHANGED <<committed, position, batch, pending, sink, pc>>
    BY <1>3, Zenon DEF Evict, RevokeDoneEvicted, loop
  <2> QED BY <2>1, StillCalm, Zenon DEF SinkInv
<1>4. ASSUME NEW i \in Instances, NEW S \in SUBSET Sources, Assign(i, S)
      PROVE  Calm
  <2>1. UNCHANGED <<committed, position, batch, pending, sink, pc>>
    BY <1>4, Zenon DEF Assign, loop
  <2> QED BY <2>1, StillCalm, Zenon DEF SinkInv
<1>5. ASSUME NEW i \in Instances,
             \/ \E S \in SUBSET Sources : Revoke(i, S)
             \/ NoticeEviction(i) \/ AssignDone(i)
      PROVE  Calm
  <2>1. {} \in SUBSET Sources
    BY Zenon
  <2> QED BY <2>1, <1>5, PositionCalm, Zenon
<1>6. ASSUME NEW i \in Instances, NEW s \in Sources,
             \/ LookUp(i, s) \/ NoTask(i, s) \/ ExecuteClosed(i, s)
             \/ Execute(i, s) \/ ExecutePanics(i, s)
      PROVE  Calm
  BY <1>6, LoopCalm, ExecuteCalm, FreshCalm, Zenon
<1>7. ASSUME NEW i \in Instances,
             \/ BatchFailed(i) \/ ProcessDone(i) \/ PostBatch(i) \/ PostBatchFail(i)
             \/ NotDue(i) \/ ProduceFail(i)
      PROVE  Calm
  BY <1>7, LoopCalm, Zenon
<1>8. ASSUME NEW i \in Instances,
             \/ RevokeDone(i) \/ RevokeDoneUncommitted(i)
             \/ Commit(i) \/ CommitFail(i) \/ Shutdown(i) \/ Close(i)
      PROVE  Calm
  BY <1>8, CommitCalm, Zenon
<1>9. ASSUME NEW i \in Instances, Crash(i) \/ Exit(i) PROVE Calm
  BY <1>9, FreshCalm, Zenon
<1>10. ASSUME NEW i \in Instances, Progress(i) \/ Disruption(i)
       PROVE  Calm \/ Poll(i) \/ Produce(i)
  BY <1>10, <1>2, <1>5, <1>6, <1>7, <1>8, <1>9, Zenon DEF Progress, Disruption
<1> QED
  BY <1>1, <1>2, <1>3, <1>4, <1>5, <1>10, Zenon DEF AnyStep, Next, AssignSome

\* Every step keeps the invariant.
LEMMA SinkStep ==
  ASSUME SinkInv, [AnyStep]_vars
  PROVE  SinkInv'
BY StepKinds, CalmKeeps, PollKeeps, ProduceKeeps, Zenon

\* Before the first assignment nothing is committed, pending or in hand.
LEMMA SinkInit == Init => SinkInv
<1> SUFFICES ASSUME Init PROVE SinkInv
  BY Zenon
<1>1. NoBatch \in Numbers /\ NoBatch.start = 0 /\ NoBatch.end = 0
  BY DEF NoBatch, Numbers
<1>2. "poll" \in Places
  BY Zenon DEF Places
<1> QED BY <1>1, <1>2, InputParts DEF Init, SinkInv

\* "sink ... records before their corresponding offset becomes committed"
\* (runALO): whichever instance commits, and whatever moved, failed or was
\* evicted in between, with tasks of one topic or of several.
THEOREM SinkAlwaysComplete ==
  /\ Spec => []SinkComplete
  /\ SharedTaskSpec => []SinkComplete
  /\ EvictionSpec => []SinkComplete
<1>1. SinkInv => SinkComplete
  BY Zenon DEF SinkInv, SinkComplete, Committed
<1>2. SinkInv /\ [AnyStep]_vars => SinkInv'
  BY SinkStep, Zenon
<1>3. [Next]_vars => [AnyStep]_vars
  BY Zenon DEF AnyStep
<1>4. [Next \/ \E i \in Instances, t \in Tasks : OpenTaskLocked(i, t)]_vars
        => [AnyStep]_vars
  BY Zenon DEF AnyStep
<1>5. [ \/ Next
        \/ \E i \in Instances :
             Evict(i) \/ NoticeEviction(i) \/ RevokeDoneEvicted(i) ]_vars
        => [AnyStep]_vars
  BY Zenon DEF AnyStep
<1>6. Spec => []SinkComplete
  BY <1>1, <1>2, <1>3, SinkInit, PTL DEF Spec
<1>7. SharedTaskSpec => []SinkComplete
  BY <1>1, <1>2, <1>4, SinkInit, PTL DEF SharedTaskSpec
<1>8. EvictionSpec => []SinkComplete
  BY <1>1, <1>2, <1>5, SinkInit, PTL DEF EvictionSpec
<1> QED BY <1>6, <1>7, <1>8, Zenon

-----------------------------------------------------------------------------
(* The record a task processes is one of its source: offsets stay within   *)
(* the source.                                                             *)

RangeInv ==
  /\ \A s \in Sources : committed[s] >= 0
  /\ \A i \in Instances, s \in Sources :
       /\ pending[i][s] >= -1 /\ position[i][s] >= -1
       /\ batch[i][s].next >= 0
       /\ batch[i][s].end >= 0 /\ batch[i][s].end <= End

\* The numbers the loop works with are integers.
LEMMA OffsetTypes ==
  ASSUME SinkInv, NEW i \in Instances, NEW s \in Sources
  PROVE  /\ committed[s] \in Int /\ pending[i][s] \in Int /\ position[i][s] \in Int
         /\ batch[i][s].start \in Int /\ batch[i][s].next \in Int
         /\ batch[i][s].end \in Int
<1>1. batch[i][s] \in Numbers
  BY Zenon DEF SinkInv
<1>2. committed[s] \in Int /\ pending[i][s] \in Int /\ position[i][s] \in Int
  BY Zenon DEF SinkInv
<1> QED BY <1>1, <1>2, Zenon DEF Numbers

\* A batch begins at a position and ends within the source.
LEMMA RangePoll ==
  ASSUME SinkInv, RangeInv, NEW i \in Instances, Poll(i)
  PROVE  RangeInv'
<1>1. PICK end \in [Sources -> 0 .. End] :
        /\ \A s \in Sources :
             IF position[i][s] = -1 THEN end[s] = 0 ELSE position[i][s] <= end[s]
        /\ batch' = [batch EXCEPT ![i] = [s \in Sources |->
             IF position[i][s] = -1 THEN NoBatch
             ELSE [start |-> position[i][s], next |-> position[i][s],
                   end |-> end[s]]]]
        /\ position' = [position EXCEPT ![i] = [s \in Sources |->
             IF position[i][s] = -1 THEN -1 ELSE end[s]]]
  BY Zenon DEF Poll
<1>2. UNCHANGED <<committed, pending>>
  BY Zenon DEF Poll, broker
<1>3. /\ position \in [Instances -> [Sources -> Int]]
      /\ batch \in [Instances -> [Sources -> Numbers]]
  BY Zenon DEF SinkInv
<1>4. ASSUME NEW j \in Instances, NEW s \in Sources
      PROVE  /\ position'[j][s] >= -1 /\ batch'[j][s].next >= 0
             /\ batch'[j][s].end >= 0 /\ batch'[j][s].end <= End
  <2>1. /\ position[j][s] >= -1 /\ position[j][s] \in Int /\ batch[j][s].next >= 0
        /\ batch[j][s].end >= 0 /\ batch[j][s].end <= End
    BY <1>3, Zenon DEF RangeInv
  <2>2. CASE j # i
    <3>1. position'[j] = position[j] /\ batch'[j] = batch[j]
      BY <1>1, <1>3, <2>2, Zenon
    <3> QED BY <2>1, <3>1, Zenon
  <2>3. CASE j = i
    <3>1. end[s] \in 0 .. End /\ End \in Nat
      BY <1>1, RebalanceAssumption, Zenon
    <3>2. CASE position[i][s] = -1
      <4>1. position'[i][s] = -1 /\ batch'[i][s] = NoBatch
        BY <1>1, <1>3, <3>2, Zenon
      <4>2. NoBatch.next = 0 /\ NoBatch.end = 0
        BY Zenon DEF NoBatch
      <4>3. -1 >= -1 /\ 0 >= 0 /\ 0 <= End
        BY <3>1
      <4> QED BY <2>3, <4>1, <4>2, <4>3, Zenon
    <3>3. CASE position[i][s] # -1
      <4>1. /\ position'[i][s] = end[s]
            /\ batch'[i][s] = [start |-> position[i][s], next |-> position[i][s],
                               end |-> end[s]]
        BY <1>1, <1>3, <3>3, Zenon
      <4> QED BY <2>1, <2>3, <3>1, <3>3, <4>1
    <3> QED BY <3>2, <3>3, Zenon
  <2> QED BY <2>2, <2>3, Zenon
<1> QED BY <1>2, <1>4, Zenon DEF RangeInv

\* The offset that becomes pending is that of a record, or stays.
LEMMA RangeProduce ==
  ASSUME SinkInv, RangeInv, NEW i \in Instances, Produce(i)
  PROVE  RangeInv'
<1>1. /\ pending' = [pending EXCEPT ![i] = [s \in Sources |-> Added(i, s)]]
      /\ batch' = [batch EXCEPT ![i] = [s \in Sources |-> NoBatch]]
      /\ UNCHANGED <<committed, position>>
  BY Zenon DEF Produce
<1>2. /\ pending \in [Instances -> [Sources -> Int]]
      /\ batch \in [Instances -> [Sources -> Numbers]]
  BY Zenon DEF SinkInv
<1>3. ASSUME NEW j \in Instances, NEW s \in Sources
      PROVE  /\ pending'[j][s] >= -1 /\ batch'[j][s].next >= 0
             /\ batch'[j][s].end >= 0 /\ batch'[j][s].end <= End
  <2>1. /\ pending[j][s] >= -1 /\ pending[j][s] \in Int /\ batch[j][s].next >= 0
        /\ batch[j][s].end >= 0 /\ batch[j][s].end \in Int /\ batch[j][s].end <= End
    BY OffsetTypes, Zenon DEF RangeInv
  <2>2. CASE j # i
    <3>1. pending'[j] = pending[j] /\ batch'[j] = batch[j]
      BY <1>1, <1>2, <2>2, Zenon
    <3> QED BY <2>1, <3>1, Zenon
  <2>3. CASE j = i
    <3>1. pending'[i][s] = Added(i, s) /\ batch'[i][s] = NoBatch
      BY <1>1, <1>2, Zenon
    <3>2. Added(i, s) >= -1
      BY <2>1, <2>3 DEF Added
    <3> QED BY <2>3, <3>1, <3>2, RebalanceAssumption DEF NoBatch
  <2> QED BY <2>2, <2>3, Zenon
<1> QED BY <1>1, <1>3, Zenon DEF RangeInv

\* Every step keeps the offsets within the source.
LEMMA RangeStep ==
  ASSUME SinkInv, RangeInv, [AnyStep]_vars
  PROVE  RangeInv'
<1>1. CASE Calm
  <2>1. ASSUME NEW s \in Sources PROVE committed'[s] >= 0
    <3>1. committed[s] \in Int /\ committed[s] >= 0
      BY Zenon DEF SinkInv, RangeInv
    <3>2. CASE committed'[s] = committed[s]
      BY <3>1, <3>2, Zenon
    <3>3. CASE \E i \in Instances : committed'[s] = pending[i][s] + 1
      <4>1. PICK i \in Instances : committed'[s] = pending[i][s] + 1
        BY <3>3, Zenon
      <4>2. pending[i][s] \in Int /\ pending[i][s] >= -1
        BY OffsetTypes, Zenon DEF RangeInv
      <4> QED BY <4>1, <4>2
    <3> QED BY <1>1, <3>2, <3>3, Zenon DEF Calm
  <2>2. ASSUME NEW i \in Instances, NEW s \in Sources
        PROVE  /\ pending'[i][s] >= -1 /\ position'[i][s] >= -1
               /\ batch'[i][s].next >= 0
               /\ batch'[i][s].end >= 0 /\ batch'[i][s].end <= End
    <3>1. /\ pending[i][s] >= -1 /\ position[i][s] >= -1 /\ committed[s] >= 0
          /\ batch[i][s].next >= 0 /\ batch[i][s].next \in Int
          /\ batch[i][s].end >= 0 /\ batch[i][s].end <= End /\ committed[s] \in Int
      BY OffsetTypes, Zenon DEF RangeInv
    <3>2. /\ pending'[i][s] \in {pending[i][s], -1}
          /\ position'[i][s] \in {-1, committed[s], position[i][s]}
          /\ \/ batch'[i][s].end = 0 /\ batch'[i][s].next = 0
             \/ /\ batch'[i][s].end = batch[i][s].end
                /\ batch'[i][s].next \in {batch[i][s].next, batch[i][s].next + 1}
      BY <1>1, Zenon DEF Calm
    <3> QED BY <3>1, <3>2, RebalanceAssumption
  <2> QED BY <2>1, <2>2, Zenon DEF RangeInv
<1> QED BY <1>1, StepKinds, RangePoll, RangeProduce, Zenon

\* The offsets at the start.
LEMMA RangeInit == Init => RangeInv
BY RebalanceAssumption DEF Init, RangeInv, NoBatch

-----------------------------------------------------------------------------
(* OneWriter.  A task is in the TaskManager of an instance only while the  *)
(* instance owns a source of the task: it is opened during the assignment  *)
(* callback, and the sources are released only after it has been closed.   *)

OneSourcePerTask == \A s, u \in Sources : TaskOf[s] = TaskOf[u] => s = u

TaskStates == {"absent", "open", "closing"}
Callbacks == [kind : {"idle", "revoke", "assign"},
              sources : SUBSET Sources, tasks : SUBSET Tasks]

OwnerInv ==
  /\ owner \in [Sources -> Instances \cup {"none"}]
  /\ task \in [Instances -> [Tasks -> TaskStates]]
  /\ callback \in [Instances -> Callbacks]
  /\ \A i \in Instances, t \in Tasks :
       task[i][t] # "absent" => \E s \in Sources : TaskOf[s] = t /\ owner[s] = i
  /\ \A i \in Instances : callback[i].kind # "idle" =>
       \A s \in callback[i].sources : owner[s] = i
  /\ \A i \in Instances : callback[i].kind = "assign" =>
       callback[i].tasks \subseteq TasksOf(callback[i].sources)
  /\ \A i \in Instances : callback[i].kind = "revoke" =>
       \A s \in callback[i].sources :
         TaskOf[s] \in callback[i].tasks \/ task[i][TaskOf[s]] = "absent"

\* The invariant at instance i, of values that may be those after a step.
At(i, own, tasks, cb) ==
  /\ tasks \in [Tasks -> TaskStates] /\ cb \in Callbacks
  /\ \A t \in Tasks :
       tasks[t] # "absent" => \E s \in Sources : TaskOf[s] = t /\ own[s] = i
  /\ cb.kind # "idle" => \A s \in cb.sources : own[s] = i
  /\ cb.kind = "assign" => cb.tasks \subseteq TasksOf(cb.sources)
  /\ cb.kind = "revoke" =>
       \A s \in cb.sources : TaskOf[s] \in cb.tasks \/ tasks[TaskOf[s]] = "absent"

\* The invariant holds if it holds at every instance.
LEMMA OwnerPointwise ==
  ASSUME OwnerInv, NEW i \in Instances
  PROVE  At(i, owner, task[i], callback[i])
<1>1. task[i] \in [Tasks -> TaskStates] /\ callback[i] \in Callbacks
  BY Zenon DEF OwnerInv
<1> QED BY <1>1, Zenon DEF OwnerInv, At

\* A step of instance i: what the others own stays theirs.
LEMMA OwnerStepAt ==
  ASSUME OwnerInv, NEW i \in Instances, NEW T, NEW C,
         owner' \in [Sources -> Instances \cup {"none"}],
         \A j \in Instances \ {i}, s \in Sources : owner[s] = j => owner'[s] = j,
         task' = [task EXCEPT ![i] = T], callback' = [callback EXCEPT ![i] = C],
         At(i, owner', T, C)
  PROVE  OwnerInv'
<1>1. task \in [Instances -> [Tasks -> TaskStates]]
      /\ callback \in [Instances -> Callbacks]
  BY Zenon DEF OwnerInv
<1>2. T \in [Tasks -> TaskStates] /\ C \in Callbacks
  BY Zenon DEF At
<1>3. task' \in [Instances -> [Tasks -> TaskStates]]
      /\ callback' \in [Instances -> Callbacks]
  BY <1>1, <1>2, Zenon
<1>4. ASSUME NEW j \in Instances PROVE At(j, owner', task'[j], callback'[j])
  <2>1. CASE j = i
    BY <2>1, <1>1, Zenon
  <2>2. CASE j # i
    <3>1. task'[j] = task[j] /\ callback'[j] = callback[j]
      BY <2>2, <1>1, Zenon
    <3>2. At(j, owner, task[j], callback[j])
      BY OwnerPointwise, Zenon
    <3>3. \A s \in Sources : owner[s] = j => owner'[s] = j
      BY <2>2, Zenon
    <3>4. callback[j].sources \subseteq Sources
      BY <1>1, Zenon DEF Callbacks
    <3>5. At(j, owner', task[j], callback[j])
      BY <3>2, <3>3, <3>4, Zenon DEF At
    <3> QED BY <3>1, <3>5, Zenon
  <2> QED BY <2>1, <2>2, Zenon
<1> QED BY <1>3, <1>4, Zenon DEF OwnerInv, At

\* A function stays what it is when a value is replaced by itself.
LEMMA SameExcept ==
  ASSUME OwnerInv, NEW i \in Instances
  PROVE  /\ task = [task EXCEPT ![i] = task[i]]
         /\ callback = [callback EXCEPT ![i] = callback[i]]
BY Zenon DEF OwnerInv

\* A revocation begins: every task of the sources is still to be closed.
LEMMA RevokeOwner ==
  ASSUME OwnerInv, NEW i \in Instances,
         (\E S \in SUBSET Sources : Revoke(i, S)) \/ Close(i)
  PROVE  OwnerInv'
<1>1. PICK S \in SUBSET Owned(i) : StartRevoke(i, S)
  BY Zenon DEF Revoke, Close
<1> DEFINE C == [kind |-> "revoke", sources |-> S, tasks |-> TasksOf(S)]
<1>2. callback' = [callback EXCEPT ![i] = C] /\ UNCHANGED <<owner, task>>
  <2>1. UNCHANGED <<owner, task>>
    BY Zenon DEF Revoke, Close, broker
  <2> QED BY <2>1, <1>1, Zenon DEF StartRevoke
<1>3. S \subseteq Sources /\ \A s \in S : owner[s] = i
  BY Zenon DEF Owned
<1>4. TasksOf(S) \subseteq Tasks /\ \A s \in S : TaskOf[s] \in TasksOf(S)
  BY <1>3, RebalanceAssumption, Zenon DEF TasksOf
<1>5. C \in Callbacks /\ C.kind = "revoke" /\ C.sources = S /\ C.tasks = TasksOf(S)
  BY <1>3, <1>4, Zenon DEF Callbacks
<1>6. At(i, owner, task[i], callback[i])
  BY OwnerPointwise, Zenon
<1> HIDE DEF C
<1>7. At(i, owner', task[i], C)
  BY <1>2, <1>3, <1>4, <1>5, <1>6, Zenon DEF At
<1>8. task' = [task EXCEPT ![i] = task[i]]
  BY <1>2, SameExcept, Zenon
<1>9. owner' \in [Sources -> Instances \cup {"none"}]
  BY <1>2, Zenon DEF OwnerInv
<1> QED BY <1>2, <1>7, <1>8, <1>9, OwnerStepAt, Zenon

\* An assignment begins: the sources were nobody's.
LEMMA AssignOwner ==
  ASSUME OwnerInv, NEW i \in Instances, NEW S \in SUBSET Sources, Assign(i, S)
  PROVE  OwnerInv'
<1> DEFINE C == [kind |-> "assign", sources |-> S, tasks |-> TasksOf(S)]
<1>1. /\ callback' = [callback EXCEPT ![i] = C] /\ task' = task
      /\ owner' = [s \in Sources |-> IF s \in S THEN i ELSE owner[s]]
      /\ \A s \in S : owner[s] = "none"
  BY Zenon DEF Assign
<1>2. TasksOf(S) \subseteq Tasks
  BY RebalanceAssumption, Zenon DEF TasksOf
<1>3. C \in Callbacks /\ C.kind = "assign" /\ C.sources = S /\ C.tasks = TasksOf(S)
  BY <1>2, Zenon DEF Callbacks
<1> HIDE DEF C
<1>4. owner' \in [Sources -> Instances \cup {"none"}]
  BY <1>1 DEF OwnerInv
<1>5. \A j \in Instances, s \in Sources : owner[s] = j => owner'[s] = j
  BY <1>1, RebalanceAssumption, Zenon
<1>6. At(i, owner, task[i], callback[i])
  BY OwnerPointwise, Zenon
<1>7. At(i, owner', task[i], C)
  BY <1>1, <1>3, <1>5, <1>6 DEF At
<1>8. task' = [task EXCEPT ![i] = task[i]]
  BY <1>1, SameExcept, Zenon
<1> QED BY <1>1, <1>4, <1>5, <1>7, <1>8, OwnerStepAt, Zenon

\* What a callback does to one task: it is drained, closed or opened, and a
\* task the callback is done with is crossed off.
LEMMA TaskOwner ==
  ASSUME OwnerInv, NEW i \in Instances, NEW t \in Tasks,
         \/ CloseTask(i, t) \/ CloseTaskFlushFail(i, t) \/ CloseStore(i, t)
         \/ CloseNothing(i, t) \/ OpenTask(i, t) \/ OpenTaskFail(i, t)
  PROVE  OwnerInv'
<1>1. owner' = owner
  BY Zenon DEF CloseTask, CloseTaskFlushFail, DrainTask, CloseStore, CloseNothing,
         OpenTask, OpenTaskFail, broker
<1>2. /\ task \in [Instances -> [Tasks -> TaskStates]]
      /\ callback \in [Instances -> Callbacks]
      /\ owner \in [Sources -> Instances \cup {"none"}]
  BY Zenon DEF OwnerInv
<1>3. At(i, owner, task[i], callback[i])
  BY OwnerPointwise, Zenon
<1> DEFINE Off(R) == [callback[i] EXCEPT !.tasks = R]
<1>4. ASSUME NEW R \in SUBSET callback[i].tasks
      PROVE  /\ Off(R) \in Callbacks /\ Off(R).kind = callback[i].kind
             /\ Off(R).sources = callback[i].sources /\ Off(R).tasks = R
  BY <1>2, Zenon DEF Callbacks
<1> HIDE DEF Off
<1>5. CASE CloseTask(i, t) \/ CloseTaskFlushFail(i, t)
  <2> DEFINE T == [task[i] EXCEPT ![t] = "closing"]
  <2>1. /\ task[i][t] = "open" /\ callback' = callback
        /\ callback[i].kind = "revoke" /\ t \in callback[i].tasks
        /\ task' = [task EXCEPT ![i] = T]
    BY <1>5, <1>2, Zenon DEF CloseTask, CloseTaskFlushFail, DrainTask
  <2>2. T \in [Tasks -> TaskStates] /\ \A u \in Tasks : u # t => T[u] = task[i][u]
    BY <1>2, Zenon DEF TaskStates
  <2> HIDE DEF T
  <2>3. \A u \in Tasks : T[u] # "absent" => task[i][u] # "absent"
    BY <2>1, <2>2, Zenon
  <2>4. \A u \in Tasks : u \in callback[i].tasks \/ task[i][u] = "absent"
                         => u \in callback[i].tasks \/ T[u] = "absent"
    BY <2>1, <2>2, Zenon
  <2>5. \A s \in callback[i].sources : TaskOf[s] \in Tasks
    BY <1>2, RebalanceAssumption, Zenon DEF Callbacks
  <2>6. At(i, owner', T, callback[i])
    BY <1>1, <1>3, <2>2, <2>3, <2>4, <2>5, Zenon DEF At
  <2>7. callback' = [callback EXCEPT ![i] = callback[i]]
    BY <2>1, SameExcept, Zenon
  <2> QED BY <1>1, <1>2, <2>1, <2>6, <2>7, OwnerStepAt, Zenon
<1>6. CASE CloseStore(i, t)
  <2> DEFINE T == [task[i] EXCEPT ![t] = "absent"]
             C == Off(callback[i].tasks \ {t})
  <2>1. task' = [task EXCEPT ![i] = T] /\ callback' = [callback EXCEPT ![i] = C]
    BY <1>6, <1>2, Zenon DEF CloseStore, Off
  <2>2. /\ T \in [Tasks -> TaskStates] /\ T[t] = "absent"
        /\ \A u \in Tasks : u # t => T[u] = task[i][u]
    BY <1>2, Zenon DEF TaskStates
  <2>3. /\ C \in Callbacks /\ C.kind = callback[i].kind
        /\ C.sources = callback[i].sources /\ C.tasks = callback[i].tasks \ {t}
    BY <1>4, Zenon
  <2> HIDE DEF T, C
  <2>4. \A s \in callback[i].sources : TaskOf[s] \in Tasks
    BY <1>2, RebalanceAssumption, Zenon DEF Callbacks
  <2>5. At(i, owner', T, C)
    BY <1>1, <1>3, <2>2, <2>3, <2>4, Zenon DEF At
  <2> QED BY <1>1, <1>2, <2>1, <2>5, OwnerStepAt, Zenon
<1>7. CASE CloseNothing(i, t)
  <2> DEFINE C == Off(callback[i].tasks \ {t})
  <2>1. /\ task' = task /\ callback' = [callback EXCEPT ![i] = C]
        /\ task[i][t] = "absent" /\ callback[i].kind = "revoke"
    BY <1>7, <1>2, Zenon DEF CloseNothing, Off
  <2>2. /\ C \in Callbacks /\ C.kind = callback[i].kind
        /\ C.sources = callback[i].sources /\ C.tasks = callback[i].tasks \ {t}
    BY <1>4, Zenon
  <2> HIDE DEF C
  <2>3. At(i, owner', task[i], C)
    BY <1>1, <1>3, <2>1, <2>2, Zenon DEF At
  <2>4. task' = [task EXCEPT ![i] = task[i]]
    BY <2>1, SameExcept, Zenon
  <2> QED BY <1>1, <1>2, <2>1, <2>3, <2>4, OwnerStepAt, Zenon
<1>8. CASE OpenTask(i, t)
  <2> DEFINE T == [task[i] EXCEPT ![t] = "open"]
             C == Off(callback[i].tasks \ {t})
  <2>1. /\ task' = [task EXCEPT ![i] = T] /\ callback' = [callback EXCEPT ![i] = C]
        /\ callback[i].kind = "assign" /\ t \in callback[i].tasks
    BY <1>8, <1>2, Zenon DEF OpenTask, Off
  <2>2. T \in [Tasks -> TaskStates] /\ \A u \in Tasks : u # t => T[u] = task[i][u]
    BY <1>2, Zenon DEF TaskStates
  <2>3. /\ C \in Callbacks /\ C.kind = callback[i].kind
        /\ C.sources = callback[i].sources /\ C.tasks = callback[i].tasks \ {t}
    BY <1>4, Zenon
  <2> HIDE DEF T, C
  <2>4. \E s \in Sources : TaskOf[s] = t /\ owner[s] = i
    <3>1. t \in TasksOf(callback[i].sources)
      BY <1>3, <2>1, Zenon DEF At
    <3>2. \A s \in callback[i].sources : s \in Sources /\ owner[s] = i
      BY <1>2, <1>3, <2>1, Zenon DEF At, Callbacks
    <3> QED BY <3>1, <3>2, Zenon DEF TasksOf
  <2>5. At(i, owner', T, C)
    BY <1>1, <1>3, <2>1, <2>2, <2>3, <2>4, Zenon DEF At
  <2> QED BY <1>1, <1>2, <2>1, <2>5, OwnerStepAt, Zenon
<1>9. CASE OpenTaskFail(i, t)
  <2> DEFINE C == Off({})
  <2>1. /\ task' = task /\ callback' = [callback EXCEPT ![i] = C]
        /\ callback[i].kind = "assign"
    BY <1>9, <1>2, Zenon DEF OpenTaskFail, Off
  <2>2. /\ C \in Callbacks /\ C.kind = callback[i].kind
        /\ C.sources = callback[i].sources /\ C.tasks = {}
    BY <1>4, Zenon
  <2> HIDE DEF C
  <2>3. At(i, owner', task[i], C)
    BY <1>1, <1>3, <2>1, <2>2, Zenon DEF At
  <2>4. task' = [task EXCEPT ![i] = task[i]]
    BY <2>1, SameExcept, Zenon
  <2> QED BY <1>1, <1>2, <2>1, <2>3, <2>4, OwnerStepAt, Zenon
<1> QED BY <1>5, <1>6, <1>7, <1>8, <1>9, Zenon

\* A revocation ends: all tasks of the sources it releases are absent.
LEMMA ReleaseOwner ==
  ASSUME OwnerInv, NEW i \in Instances, RevokeDone(i) \/ RevokeDoneUncommitted(i)
  PROVE  OwnerInv'
<1>1. /\ callback[i].kind = "revoke" /\ callback[i].tasks = {} /\ task' = task
      /\ callback' = [callback EXCEPT ![i] = Idle]
      /\ owner' = [s \in Sources |-> IF s \in callback[i].sources /\ owner[s] = i
                                      THEN "none" ELSE owner[s]]
  BY Zenon DEF RevokeDone, RevokeDoneUncommitted, Released
<1>2. Idle \in Callbacks /\ Idle.kind = "idle"
  BY Zenon DEF Idle, Callbacks
<1>3. owner' \in [Sources -> Instances \cup {"none"}]
  BY <1>1 DEF OwnerInv
<1>4. \A j \in Instances \ {i}, s \in Sources : owner[s] = j => owner'[s] = j
  BY <1>1, Zenon
<1>5. At(i, owner, task[i], callback[i])
  BY OwnerPointwise, Zenon
<1>6. ASSUME NEW t \in Tasks, task[i][t] # "absent"
      PROVE  \E s \in Sources : TaskOf[s] = t /\ owner'[s] = i
  <2>1. PICK s \in Sources : TaskOf[s] = t /\ owner[s] = i
    BY <1>5, <1>6, Zenon DEF At
  <2>2. s \notin callback[i].sources
    BY <1>1, <1>5, <1>6, <2>1, Zenon DEF At
  <2> QED BY <1>1, <2>1, <2>2, Zenon
<1>7. task[i] \in [Tasks -> TaskStates]
  BY Zenon DEF OwnerInv
<1>8. At(i, owner', task[i], Idle)
  BY <1>2, <1>6, <1>7, Zenon DEF At
<1>9. task' = [task EXCEPT ![i] = task[i]]
  BY <1>1, SameExcept, Zenon
<1> QED BY <1>1, <1>3, <1>4, <1>8, <1>9, OwnerStepAt, Zenon

\* An assignment ends.
LEMMA AssignedOwner ==
  ASSUME OwnerInv, NEW i \in Instances, AssignDone(i)
  PROVE  OwnerInv'
<1>1. owner' = owner /\ task' = task /\ callback' = [callback EXCEPT ![i] = Idle]
  BY Zenon DEF AssignDone, broker
<1>2. Idle \in Callbacks /\ Idle.kind = "idle"
  BY Zenon DEF Idle, Callbacks
<1>3. At(i, owner, task[i], callback[i])
  BY OwnerPointwise, Zenon
<1>4. At(i, owner', task[i], Idle)
  BY <1>1, <1>2, <1>3, Zenon DEF At
<1>5. task' = [task EXCEPT ![i] = task[i]]
  BY <1>1, SameExcept, Zenon
<1>6. owner \in [Sources -> Instances \cup {"none"}]
  BY Zenon DEF OwnerInv
<1> QED BY <1>1, <1>4, <1>5, <1>6, OwnerStepAt, Zenon

\* A process that starts again has no task.
LEMMA FreshOwner ==
  ASSUME OwnerInv, NEW i \in Instances,
         (\E s \in Sources : ExecutePanics(i, s)) \/ Crash(i) \/ Exit(i)
  PROVE  OwnerInv'
<1> DEFINE T == [t \in Tasks |-> "absent"]
<1>1. /\ task' = [task EXCEPT ![i] = T] /\ callback' = [callback EXCEPT ![i] = Idle]
      /\ \/ owner' = owner
         \/ owner' = [s \in Sources |-> IF owner[s] = i THEN "none" ELSE owner[s]]
  BY Zenon DEF ExecutePanics, Crash, Exit, Die, Fresh, broker
<1>2. Idle \in Callbacks /\ Idle.kind = "idle"
  BY Zenon DEF Idle, Callbacks
<1>3. T \in [Tasks -> TaskStates] /\ \A t \in Tasks : T[t] = "absent"
  BY Zenon DEF TaskStates
<1> HIDE DEF T
<1>4. At(i, owner', T, Idle)
  BY <1>2, <1>3, Zenon DEF At
<1>5. owner' \in [Sources -> Instances \cup {"none"}]
  BY <1>1 DEF OwnerInv
<1>6. \A j \in Instances \ {i}, s \in Sources : owner[s] = j => owner'[s] = j
  BY <1>1, Zenon
<1> QED BY <1>1, <1>4, <1>5, <1>6, OwnerStepAt, Zenon

\* Every step keeps the invariant.
LEMMA OwnerStep ==
  ASSUME OwnerInv, [Next]_vars
  PROVE  OwnerInv'
<1>1. CASE UNCHANGED <<owner, task, callback>>
  BY <1>1, Zenon DEF OwnerInv
<1>2. UNCHANGED vars => UNCHANGED <<owner, task, callback>>
  BY Zenon DEF vars, broker
<1>3. ASSUME NEW i \in Instances,
             \/ \E s \in Sources :
                  LookUp(i, s) \/ NoTask(i, s) \/ Execute(i, s) \/ ExecuteClosed(i, s)
             \/ Poll(i) \/ BatchFailed(i) \/ ProcessDone(i) \/ PostBatch(i)
             \/ PostBatchFail(i) \/ Produce(i) \/ ProduceFail(i)
             \/ Commit(i) \/ NotDue(i) \/ CommitFail(i) \/ Shutdown(i)
      PROVE  OwnerInv'
  <2>1. UNCHANGED <<owner, task, callback>>
    BY <1>3, Zenon DEF LookUp, NoTask, Execute, ExecuteClosed, Poll, BatchFailed,
                ProcessDone, PostBatch, PostBatchFail, Produce, ProduceFail,
                Commit, NotDue, CommitFail, Shutdown, broker
  <2> QED BY <1>1, <2>1, Zenon
<1>4. ASSUME NEW i \in Instances,
             \/ \E S \in SUBSET Sources : Revoke(i, S)
             \/ Close(i) \/ AssignDone(i)
             \/ RevokeDone(i) \/ RevokeDoneUncommitted(i)
             \/ \E s \in Sources : ExecutePanics(i, s)
             \/ Crash(i) \/ Exit(i)
      PROVE  OwnerInv'
  BY <1>4, RevokeOwner, AssignedOwner, ReleaseOwner, FreshOwner, Zenon
<1>5. ASSUME NEW i \in Instances, NEW t \in Tasks,
             \/ CloseTask(i, t) \/ CloseTaskFlushFail(i, t) \/ CloseStore(i, t)
             \/ CloseNothing(i, t) \/ OpenTask(i, t) \/ OpenTaskFail(i, t)
      PROVE  OwnerInv'
  BY <1>5, TaskOwner, Zenon
<1>6. ASSUME NEW i \in Instances, Progress(i) \/ Disruption(i) PROVE OwnerInv'
  BY <1>6, <1>3, <1>4, <1>5, Zenon DEF Progress, Disruption
<1>7. ASSUME AssignSome PROVE OwnerInv'
  BY <1>7, AssignOwner, Zenon DEF AssignSome
<1> QED BY <1>1, <1>2, <1>6, <1>7, Zenon DEF Next

\* At the start nobody owns a source and no task is open.
LEMMA OwnerInit == Init => OwnerInv
<1> SUFFICES ASSUME Init PROVE OwnerInv
  BY Zenon
<1>1. Idle \in Callbacks /\ Idle.kind = "idle"
  BY Zenon DEF Idle, Callbacks
<1>2. "absent" \in TaskStates
  BY Zenon DEF TaskStates
<1> QED BY <1>1, <1>2, Zenon DEF Init, OwnerInv

\* The instances that have a task own its only source.
LEMMA OwnersApart ==
  ASSUME OneSourcePerTask, OwnerInv
  PROVE  OneWriter
<1> SUFFICES ASSUME NEW t \in Tasks, NEW i \in Instances, NEW j \in Instances,
                    task[i][t] # "absent", task[j][t] # "absent"
             PROVE  i = j
  BY Zenon DEF OneWriter
<1>1. PICK s \in Sources : TaskOf[s] = t /\ owner[s] = i
  BY Zenon DEF OwnerInv
<1>2. PICK u \in Sources : TaskOf[u] = t /\ owner[u] = j
  BY Zenon DEF OwnerInv
<1> QED BY <1>1, <1>2, Zenon DEF OneSourcePerTask

\* When each task has one source partition and no member is evicted while it
\* is running, no two instances ever have the store of a task open, however
\* often partitions move and members stop, crash or fail to commit.
THEOREM AlwaysOneWriter ==
  ASSUME OneSourcePerTask
  PROVE  Spec => []OneWriter
<1>1. OwnerInv => OneWriter
  BY OneSourcePerTask, OwnersApart, Zenon
<1>2. OwnerInv /\ [Next]_vars => OwnerInv'
  BY OwnerStep, Zenon
<1> QED BY <1>1, <1>2, OwnerInit, PTL DEF Spec

-----------------------------------------------------------------------------
(* The stores.  A task that is in the TaskManager holds all that its       *)
(* changelog and its collector reflect; a store left behind holds what the *)
(* changelog reflects up to the checkpoint.  One writer at a time keeps    *)
(* the changelog monotone, so that a replay loses nothing.                 *)

Recs == [key : Keys, val : SUBSET Inputs]
Handles == {"none", "live", "stale"}

\* The store of a task in state tk, with the mutations col not drained.
StoreAt(log, store, cp, tk, col) ==
  /\ cp + 1 <= Len(log)
  /\ Covers(store, log, cp + 1)
  /\ tk = "absent" => col = <<>>
  /\ tk # "absent" => /\ Monotone(log \o col)
                      /\ Covers(store, log \o col, Len(log \o col))

StoreTypes ==
  /\ changelog \in [Tasks -> Seq(Recs)]
  /\ db \in [Instances -> [Tasks -> [Keys -> SUBSET Inputs]]]
  /\ checkpoint \in [Instances -> [Tasks -> Int]]
  /\ collector \in [Instances -> [Tasks -> Seq(Recs)]]
  /\ handle \in [Instances -> [Sources -> Handles]]

StoreInv ==
  /\ StoreTypes
  /\ \A t \in Tasks : Monotone(changelog[t])
  /\ \A i \in Instances, t \in Tasks :
       StoreAt(changelog[t], db[i][t], checkpoint[i][t], task[i][t], collector[i][t])
  /\ \A i \in Instances, s \in Sources :
       handle[i][s] = "live" => task[i][TaskOf[s]] # "absent"

\* A store that was left behind stays good when the changelog grows.
LEMMA AbsentGrows ==
  ASSUME NEW log, NEW log2, PrefixOf(log, log2), NEW store, NEW cp \in Int, NEW col,
         StoreAt(log, store, cp, "absent", col)
  PROVE  StoreAt(log2, store, cp, "absent", col)
<1>1. cp + 1 <= Len(log) /\ Covers(store, log, cp + 1) /\ col = <<>>
  BY Zenon DEF StoreAt
<1>2. cp + 1 <= Len(log2)
  BY <1>1 DEF PrefixOf
<1>3. Covers(store, log2, cp + 1)
  BY <1>1, ExtensionCovers
<1> QED BY <1>1, <1>2, <1>3, Zenon DEF StoreAt

\* The types at a task of an instance.
LEMMA StoreTypesAt ==
  ASSUME StoreTypes, NEW i \in Instances, NEW t \in Tasks
  PROVE  /\ changelog[t] \in Seq(Recs) /\ Len(changelog[t]) \in Nat
         /\ db[i][t] \in [Keys -> SUBSET Inputs]
         /\ checkpoint[i][t] \in Int
         /\ collector[i][t] \in Seq(Recs) /\ Len(collector[i][t]) \in Nat
<1>1. changelog[t] \in Seq(Recs) /\ collector[i][t] \in Seq(Recs)
  BY Zenon DEF StoreTypes
<1>2. db[i][t] \in [Keys -> SUBSET Inputs] /\ checkpoint[i][t] \in Int
  BY Zenon DEF StoreTypes
<1> QED BY <1>1, <1>2, SeqParts, Zenon

\* A step of instance i that extends only changelogs of tasks it has.
LEMMA StoreStepAt ==
  ASSUME StoreInv, OneWriter, NEW i \in Instances, StoreTypes',
         \A t \in Tasks : /\ PrefixOf(changelog[t], changelog'[t])
                          /\ Monotone(changelog'[t])
                          /\ changelog'[t] = changelog[t] \/ task[i][t] # "absent",
         \A j \in Instances \ {i} :
           /\ db'[j] = db[j] /\ checkpoint'[j] = checkpoint[j]
           /\ task'[j] = task[j] /\ collector'[j] = collector[j]
           /\ handle'[j] = handle[j],
         \A t \in Tasks :
           StoreAt(changelog'[t], db'[i][t], checkpoint'[i][t], task'[i][t],
                   collector'[i][t]),
         \A s \in Sources : handle'[i][s] = "live" => task'[i][TaskOf[s]] # "absent"
  PROVE  StoreInv'
<1>1. ASSUME NEW j \in Instances, NEW t \in Tasks
      PROVE  StoreAt(changelog'[t], db'[j][t], checkpoint'[j][t], task'[j][t],
                     collector'[j][t])
  <2>1. CASE j = i
    BY <2>1, Zenon
  <2>2. CASE j # i
    <3>1. /\ db'[j] = db[j] /\ checkpoint'[j] = checkpoint[j]
          /\ task'[j] = task[j] /\ collector'[j] = collector[j]
      BY <2>2, Zenon
    <3>2. StoreAt(changelog[t], db[j][t], checkpoint[j][t], task[j][t], collector[j][t])
      BY Zenon DEF StoreInv
    <3>3. CASE changelog'[t] = changelog[t]
      BY <3>1, <3>2, <3>3, Zenon
    <3>4. CASE task[i][t] # "absent"
      <4>1. task[j][t] = "absent"
        BY <2>2, <3>4, Zenon DEF OneWriter
      <4>2. PrefixOf(changelog[t], changelog'[t]) /\ checkpoint[j][t] \in Int
        BY StoreTypesAt, Zenon DEF StoreInv
      <4>3. StoreAt(changelog[t], db[j][t], checkpoint[j][t], "absent", collector[j][t])
        BY <3>2, <4>1, Zenon
      <4>4. StoreAt(changelog'[t], db[j][t], checkpoint[j][t], "absent", collector[j][t])
        BY <4>2, <4>3, AbsentGrows
      <4>5. /\ db'[j][t] = db[j][t] /\ checkpoint'[j][t] = checkpoint[j][t]
            /\ task'[j][t] = "absent" /\ collector'[j][t] = collector[j][t]
        BY <3>1, <4>1, Zenon
      <4> QED BY <4>4, <4>5, Zenon
    <3> QED BY <3>3, <3>4, Zenon
  <2> QED BY <2>1, <2>2, Zenon
<1>2. ASSUME NEW j \in Instances, NEW s \in Sources, handle'[j][s] = "live"
      PROVE  task'[j][TaskOf[s]] # "absent"
  <2>1. CASE j = i
    BY <1>2, <2>1, Zenon
  <2>2. CASE j # i
    <3>1. task'[j] = task[j] /\ handle[j][s] = "live"
      BY <1>2, <2>2, Zenon
    <3>2. task[j][TaskOf[s]] # "absent"
      BY <3>1, Zenon DEF StoreInv
    <3> QED BY <3>1, <3>2, Zenon
  <2> QED BY <2>1, <2>2, Zenon
<1> QED BY <1>1, <1>2, Zenon DEF StoreInv

\* A step that touches neither stores nor changelogs nor tasks.
LEMMA StoreQuiet ==
  ASSUME StoreInv, UNCHANGED <<changelog, db, checkpoint, task, collector>>,
         handle' \in [Instances -> [Sources -> Handles]],
         \A i \in Instances, s \in Sources :
           handle'[i][s] = "live" => handle[i][s] = "live" \/ task[i][TaskOf[s]] = "open"
  PROVE  StoreInv'
<1>1. StoreTypes'
  BY Zenon DEF StoreInv, StoreTypes
<1>2. ASSUME NEW i \in Instances, NEW s \in Sources, handle'[i][s] = "live"
      PROVE  task'[i][TaskOf[s]] # "absent"
  BY <1>2, Zenon DEF StoreInv
<1>3. \A t \in Tasks : Monotone(changelog'[t])
  BY Zenon DEF StoreInv
<1>4. \A i \in Instances, t \in Tasks :
        StoreAt(changelog'[t], db'[i][t], checkpoint'[i][t], task'[i][t], collector'[i][t])
  BY Zenon DEF StoreInv
<1> QED BY <1>1, <1>2, <1>3, <1>4, Zenon DEF StoreInv

\* Steps that leave the executors the loop holds alone as well.
LEMMA StoreStill ==
  ASSUME StoreInv, UNCHANGED <<changelog, db, checkpoint, task, collector, handle>>
  PROVE  StoreInv'
<1>1. handle' \in [Instances -> [Sources -> Handles]]
  BY Zenon DEF StoreInv, StoreTypes
<1> QED BY <1>1, StoreQuiet, Zenon

\* The steps of the group and of the loop that touch no store.
LEMMA StoreOther ==
  ASSUME StoreInv, NEW i \in Instances,
         \/ \E S \in SUBSET Sources : Revoke(i, S) \/ Assign(i, S)
         \/ \E t \in Tasks : CloseNothing(i, t) \/ OpenTaskFail(i, t)
         \/ RevokeDone(i) \/ RevokeDoneUncommitted(i) \/ AssignDone(i)
         \/ Poll(i) \/ (\E s \in Sources : NoTask(i, s))
         \/ BatchFailed(i) \/ ProcessDone(i) \/ Produce(i) \/ ProduceFail(i)
         \/ Commit(i) \/ NotDue(i) \/ CommitFail(i) \/ Shutdown(i) \/ Close(i)
  PROVE  StoreInv'
<1>1. UNCHANGED <<changelog, db, checkpoint, task, collector, handle>>
  BY Zenon DEF Revoke, Assign, CloseNothing, OpenTaskFail, RevokeDone,
         RevokeDoneUncommitted, AssignDone, Poll, NoTask, BatchFailed, ProcessDone,
         Produce, ProduceFail, Commit, NotDue, CommitFail, Shutdown, Close,
         broker, disk, loop
<1> QED BY <1>1, StoreStill, Zenon

\* The executor of an open task is taken, or found to be closed.
LEMMA StoreHandle ==
  ASSUME StoreInv, NEW i \in Instances, NEW s \in Sources,
         LookUp(i, s) \/ ExecuteClosed(i, s)
  PROVE  StoreInv'
<1>1. UNCHANGED <<changelog, db, checkpoint, task, collector>>
  BY Zenon DEF LookUp, ExecuteClosed, broker, disk
<1>2. handle \in [Instances -> [Sources -> Handles]]
  BY Zenon DEF StoreInv, StoreTypes
<1>3. CASE LookUp(i, s)
  <2>1. handle' = [handle EXCEPT ![i][s] = "live"] /\ task[i][TaskOf[s]] = "open"
    BY <1>3, Zenon DEF LookUp
  <2>2. handle' \in [Instances -> [Sources -> Handles]]
    BY <2>1, <1>2, Zenon DEF Handles
  <2>3. \A j \in Instances, u \in Sources :
          handle'[j][u] = "live" => handle[j][u] = "live" \/ task[j][TaskOf[u]] = "open"
    BY <2>1, <1>2, Zenon
  <2> QED BY <1>1, <2>2, <2>3, StoreQuiet, Zenon
<1>4. CASE ExecuteClosed(i, s)
  <2>1. handle' = [handle EXCEPT ![i][s] = "none"]
    BY <1>4, Zenon DEF ExecuteClosed
  <2>2. handle' \in [Instances -> [Sources -> Handles]]
    BY <2>1, <1>2, Zenon DEF Handles
  <2>3. \A j \in Instances, u \in Sources : handle'[j][u] = "live" => handle[j][u] = "live"
    BY <2>1, <1>2, Zenon
  <2> QED BY <1>1, <2>2, <2>3, StoreQuiet, Zenon
<1> QED BY <1>3, <1>4, Zenon

\* Writing the first n collected mutations to the changelog.
LEMMA PartFlushed ==
  ASSUME NEW log \in Seq(Recs), NEW col \in Seq(Recs), NEW store, NEW cp \in Int,
         cp + 1 <= Len(log), Covers(store, log, cp + 1), Monotone(log \o col),
         Covers(store, log \o col, Len(log \o col)), NEW n \in 0 .. Len(col), NEW tk
  PROVE  LET log2 == log \o SubSeq(col, 1, n)
         IN  /\ log2 \in Seq(Recs) /\ PrefixOf(log, log2) /\ Monotone(log2)
             /\ StoreAt(log2, store, cp, tk, <<>>)
<1> DEFINE log2 == log \o SubSeq(col, 1, n)
           all == log \o col
<1>1. log2 \in Seq(Recs) /\ PrefixOf(log2, all) /\ PrefixOf(log, log2)
  BY PartPrefix, Zenon
<1> HIDE DEF log2, all
<1>2. Monotone(log2) /\ Covers(store, log2, Len(log2))
  BY <1>1, PrefixMonotone, PrefixCovers, Zenon DEF all
<1>3. Covers(store, log2, cp + 1)
  BY <1>1, ExtensionCovers
<1>4. cp + 1 <= Len(log2)
  BY <1>1 DEF PrefixOf
<1>5. log2 \o <<>> = log2
  BY <1>1
<1> QED BY <1>1, <1>2, <1>3, <1>4, <1>5, Zenon DEF StoreAt, log2

\* A flush of one task of instance i, whole or broken off.
LEMMA StoreFlush ==
  ASSUME StoreInv, OneWriter, task \in [Instances -> [Tasks -> TaskStates]],
         NEW i \in Instances, NEW t \in Tasks, task[i][t] # "absent",
         NEW n \in 0 .. Len(collector[i][t]), NEW tk \in TaskStates \ {"absent"},
         changelog' = [changelog EXCEPT ![t] =
                         changelog[t] \o SubSeq(collector[i][t], 1, n)],
         collector' = [collector EXCEPT ![i][t] = <<>>],
         task' = [task EXCEPT ![i][t] = tk],
         UNCHANGED <<db, checkpoint, handle>>
  PROVE  StoreInv'
<1> DEFINE log2 == changelog[t] \o SubSeq(collector[i][t], 1, n)
<1>1. StoreTypes
  BY Zenon DEF StoreInv
<1>2. StoreAt(changelog[t], db[i][t], checkpoint[i][t], task[i][t], collector[i][t])
  BY Zenon DEF StoreInv
<1>3. /\ log2 \in Seq(Recs) /\ PrefixOf(changelog[t], log2) /\ Monotone(log2)
      /\ StoreAt(log2, db[i][t], checkpoint[i][t], tk, <<>>)
  <2>1. /\ checkpoint[i][t] + 1 <= Len(changelog[t])
        /\ Covers(db[i][t], changelog[t], checkpoint[i][t] + 1)
        /\ Monotone(changelog[t] \o collector[i][t])
        /\ Covers(db[i][t], changelog[t] \o collector[i][t],
                  Len(changelog[t] \o collector[i][t]))
    BY <1>2, Zenon DEF StoreAt
  <2>2. /\ changelog[t] \in Seq(Recs) /\ collector[i][t] \in Seq(Recs)
        /\ checkpoint[i][t] \in Int
    BY <1>1, StoreTypesAt, Zenon
  <2> QED BY <2>1, <2>2, PartFlushed, Zenon
<1>4. changelog' = [changelog EXCEPT ![t] = log2]
  BY Zenon
<1> HIDE DEF log2
<1>5. StoreTypes'
  <2>1. changelog' \in [Tasks -> Seq(Recs)]
    BY <1>1, <1>3, <1>4, Zenon DEF StoreTypes
  <2>2. collector' \in [Instances -> [Tasks -> Seq(Recs)]]
    BY <1>1 DEF StoreTypes
  <2> QED BY <1>1, <2>1, <2>2, Zenon DEF StoreTypes
<1>6. ASSUME NEW u \in Tasks
      PROVE  /\ PrefixOf(changelog[u], changelog'[u]) /\ Monotone(changelog'[u])
             /\ changelog'[u] = changelog[u] \/ task[i][u] # "absent"
             /\ StoreAt(changelog'[u], db'[i][u], checkpoint'[i][u], task'[i][u],
                        collector'[i][u])
  <2>1. CASE u = t
    <3>1. changelog'[t] = log2 /\ collector'[i][t] = <<>> /\ task'[i][t] = tk
      BY <1>1, <1>4, Zenon DEF StoreTypes
    <3> QED BY <2>1, <3>1, <1>3, Zenon
  <2>2. CASE u # t
    <3>1. /\ changelog'[u] = changelog[u] /\ collector'[i][u] = collector[i][u]
          /\ task'[i][u] = task[i][u]
      BY <2>2, <1>1, <1>4, Zenon DEF StoreTypes
    <3>2. PrefixOf(changelog[u], changelog[u]) /\ Monotone(changelog[u])
      BY <1>1, StoreTypesAt, PrefixSelf, Zenon DEF StoreInv
    <3>3. StoreAt(changelog[u], db[i][u], checkpoint[i][u], task[i][u], collector[i][u])
      BY Zenon DEF StoreInv
    <3> QED BY <3>1, <3>2, <3>3, Zenon
  <2> QED BY <2>1, <2>2, Zenon
<1>7. ASSUME NEW j \in Instances \ {i}
      PROVE  /\ db'[j] = db[j] /\ checkpoint'[j] = checkpoint[j]
             /\ task'[j] = task[j] /\ collector'[j] = collector[j]
             /\ handle'[j] = handle[j]
  BY <1>1, Zenon DEF StoreTypes
<1>8. ASSUME NEW s \in Sources, handle'[i][s] = "live" PROVE task'[i][TaskOf[s]] # "absent"
  <2>1. task[i][TaskOf[s]] # "absent" /\ TaskOf[s] \in Tasks
    BY <1>8, RebalanceAssumption, Zenon DEF StoreInv
  <2> QED BY <2>1, Zenon
<1> QED BY <1>5, <1>6, <1>7, <1>8, StoreStepAt, Zenon

\* closeTask drains the collector and writes it, whole or in part; the flush
\* that fails in PostBatch.
LEMMA StoreFlushSteps ==
  ASSUME StoreInv, OneWriter, task \in [Instances -> [Tasks -> TaskStates]],
         NEW i \in Instances,
         \/ \E t \in Tasks : CloseTask(i, t) \/ CloseTaskFlushFail(i, t)
         \/ PostBatchFail(i)
  PROVE  StoreInv'
<1>1. StoreTypes
  BY Zenon DEF StoreInv
<1>2. CASE \E t \in Tasks : CloseTask(i, t) \/ CloseTaskFlushFail(i, t)
  <2>1. PICK t \in Tasks : CloseTask(i, t) \/ CloseTaskFlushFail(i, t)
    BY <1>2, Zenon
  <2>2. DrainTask(i, t)
    BY <2>1, Zenon DEF CloseTask, CloseTaskFlushFail
  <2>3. /\ task[i][t] # "absent" /\ task' = [task EXCEPT ![i][t] = "closing"]
        /\ collector' = [collector EXCEPT ![i][t] = <<>>]
        /\ UNCHANGED <<db, checkpoint, handle>>
    BY <2>2, Zenon DEF DrainTask, disk, loop
  <2>4. collector[i][t] \in Seq(Recs) /\ Len(collector[i][t]) \in Nat
    BY <1>1, StoreTypesAt, Zenon
  <2>5. \E n \in 0 .. Len(collector[i][t]) :
          changelog' = [changelog EXCEPT ![t] =
                          changelog[t] \o SubSeq(collector[i][t], 1, n)]
    <3>1. CASE CloseTask(i, t)
      <4>1. SubSeq(collector[i][t], 1, Len(collector[i][t])) = collector[i][t]
        BY <2>4
      <4>2. changelog' = [changelog EXCEPT ![t] = changelog[t] \o collector[i][t]]
        BY <3>1, Zenon DEF CloseTask
      <4>3. Len(collector[i][t]) \in 0 .. Len(collector[i][t])
        BY <2>4
      <4> QED BY <4>1, <4>2, <4>3, Zenon
    <3>2. CASE CloseTaskFlushFail(i, t)
      BY <3>2, Zenon DEF CloseTaskFlushFail
    <3> QED BY <2>1, <3>1, <3>2, Zenon
  <2>6. "closing" \in TaskStates \ {"absent"}
    BY Zenon DEF TaskStates
  <2> QED BY <2>3, <2>5, <2>6, StoreFlush, Zenon
<1>3. CASE PostBatchFail(i)
  <2>1. PICK t \in Tasks :
          /\ task[i][t] = "open"
          /\ collector' = [collector EXCEPT ![i][t] = <<>>]
          /\ \E n \in 0 .. Len(collector[i][t]) :
               changelog' = [changelog EXCEPT ![t] =
                               changelog[t] \o SubSeq(collector[i][t], 1, n)]
    BY <1>3, Zenon DEF PostBatchFail
  <2>2. UNCHANGED <<db, checkpoint, handle, task>>
    BY <1>3, Zenon DEF PostBatchFail, disk
  <2>3. task' = [task EXCEPT ![i][t] = "open"]
    BY <2>1, <2>2, Zenon
  <2>4. "open" \in TaskStates \ {"absent"} /\ task[i][t] # "absent"
    BY <2>1, Zenon DEF TaskStates
  <2> QED BY <2>1, <2>2, <2>3, <2>4, StoreFlush, Zenon
<1> QED BY <1>2, <1>3, Zenon

\* A step of instance i that changes only the task t there and no changelog.
LEMMA StoreTaskStep ==
  ASSUME StoreInv, OneWriter, task \in [Instances -> [Tasks -> TaskStates]],
         NEW i \in Instances, NEW t \in Tasks, UNCHANGED changelog, StoreTypes',
         \A j \in Instances, u \in Tasks : j # i \/ u # t =>
           /\ db'[j][u] = db[j][u] /\ checkpoint'[j][u] = checkpoint[j][u]
           /\ task'[j][u] = task[j][u] /\ collector'[j][u] = collector[j][u],
         StoreAt(changelog[t], db'[i][t], checkpoint'[i][t], task'[i][t],
                 collector'[i][t]),
         \A j \in Instances, s \in Sources : handle'[j][s] = "live" =>
           handle[j][s] = "live" /\ (j = i /\ TaskOf[s] = t => task'[i][t] # "absent")
  PROVE  StoreInv'
<1>1. \A u \in Tasks : Monotone(changelog'[u])
  BY Zenon DEF StoreInv
<1>2. ASSUME NEW j \in Instances, NEW u \in Tasks
      PROVE  StoreAt(changelog'[u], db'[j][u], checkpoint'[j][u], task'[j][u],
                     collector'[j][u])
  <2>1. CASE j = i /\ u = t
    BY <2>1, Zenon
  <2>2. CASE j # i \/ u # t
    <3>1. StoreAt(changelog[u], db[j][u], checkpoint[j][u], task[j][u], collector[j][u])
      BY Zenon DEF StoreInv
    <3>2. /\ db'[j][u] = db[j][u] /\ checkpoint'[j][u] = checkpoint[j][u]
          /\ task'[j][u] = task[j][u] /\ collector'[j][u] = collector[j][u]
      BY <2>2, Zenon
    <3> QED BY <3>1, <3>2, Zenon
  <2> QED BY <2>1, <2>2, Zenon
<1>3. ASSUME NEW j \in Instances, NEW s \in Sources, handle'[j][s] = "live"
      PROVE  task'[j][TaskOf[s]] # "absent"
  <2>1. TaskOf[s] \in Tasks /\ task[j][TaskOf[s]] # "absent"
    BY <1>3, RebalanceAssumption, Zenon DEF StoreInv
  <2> QED BY <1>3, <2>1
<1> QED BY <1>1, <1>2, <1>3, Zenon DEF StoreInv

\* closeTask restores with MaxInt64, which replays the whole changelog, and
\* checkpoints at its end.
LEMMA StoreClose ==
  ASSUME StoreInv, OneWriter, task \in [Instances -> [Tasks -> TaskStates]],
         NEW i \in Instances, NEW t \in Tasks, CloseStore(i, t)
  PROVE  StoreInv'
<1> DEFINE log == changelog[t]
<1>1. StoreTypes
  BY Zenon DEF StoreInv
<1>2. /\ log \in Seq(Recs) /\ Len(log) \in Nat /\ db[i][t] \in [Keys -> SUBSET Inputs]
      /\ checkpoint[i][t] \in Int /\ collector[i][t] \in Seq(Recs)
  BY <1>1, StoreTypesAt, Zenon
<1>3. /\ task[i][t] = "closing" /\ UNCHANGED changelog
      /\ task' = [task EXCEPT ![i][t] = "absent"]
      /\ collector' = [collector EXCEPT ![i][t] = <<>>]
      /\ handle' = [handle EXCEPT ![i] = [s \in Sources |->
           IF TaskOf[s] = t /\ handle[i][s] = "live" THEN "stale" ELSE handle[i][s]]]
  BY Zenon DEF CloseStore, broker, StaleHandles
<1>4. /\ checkpoint[i][t] + 1 <= Len(log) /\ Covers(db[i][t], log, checkpoint[i][t] + 1)
      /\ Covers(db[i][t], log \o collector[i][t], Len(log \o collector[i][t]))
      /\ Monotone(log)
  BY <1>3, Zenon DEF StoreInv, StoreAt
<1>5. Covers(db[i][t], log, Len(log))
  BY <1>2, <1>4, ConcatPrefix, PrefixCovers, Zenon
<1>6. PICK d \in [Keys -> SUBSET Inputs], c \in Int :
        /\ db' = [db EXCEPT ![i][t] = d] /\ checkpoint' = [checkpoint EXCEPT ![i][t] = c]
        /\ c + 1 <= Len(log) /\ Covers(d, log, c + 1)
  <2>1. CASE Len(log) > 0
    <3> DEFINE d == RestoredDB(log, MaxInt64, db[i][t])
    <3>1. MaxInt64 \in Int /\ Covers(db[i][t], log, MaxInt64 + 1)
      BY <1>2, <1>5, CoversAll, MaxInt64Assumption
    <3>2. d \in [Keys -> SUBSET Inputs] /\ Covers(d, log, Len(log))
      BY <1>2, <1>4, <3>1, RestoreCovers, Zenon DEF Recs
    <3>3. db' = [db EXCEPT ![i][t] = d]
          /\ checkpoint' = [checkpoint EXCEPT ![i][t] = Len(log) - 1]
      BY <2>1, Zenon DEF CloseStore
    <3> DEFINE c == Len(log) - 1
    <3> HIDE DEF d
    <3>4. c \in Int /\ c + 1 = Len(log) /\ c + 1 <= Len(log)
      BY <1>2
    <3>5. checkpoint' = [checkpoint EXCEPT ![i][t] = c] /\ Covers(d, log, c + 1)
      BY <3>2, <3>3, <3>4, Zenon
    <3> HIDE DEF c
    <3> QED BY <3>2, <3>3, <3>4, <3>5, Zenon
  <2>2. CASE ~(Len(log) > 0)
    <3>1. UNCHANGED <<db, checkpoint>>
      BY <2>2, Zenon DEF CloseStore, disk
    <3>2. db' = [db EXCEPT ![i][t] = db[i][t]]
          /\ checkpoint' = [checkpoint EXCEPT ![i][t] = checkpoint[i][t]]
      BY <3>1, <1>1, Zenon DEF StoreTypes
    <3> QED BY <3>2, <1>2, <1>4, Zenon
  <2> QED BY <2>1, <2>2, Zenon
<1> HIDE DEF log
<1>7. StoreTypes'
  <2>1. db' \in [Instances -> [Tasks -> [Keys -> SUBSET Inputs]]]
        /\ checkpoint' \in [Instances -> [Tasks -> Int]]
    BY <1>1, <1>6, Zenon DEF StoreTypes
  <2>2. collector' \in [Instances -> [Tasks -> Seq(Recs)]]
    BY <1>1, <1>3 DEF StoreTypes
  <2>3. handle' \in [Instances -> [Sources -> Handles]]
    BY <1>1, <1>3, Zenon DEF StoreTypes, Handles
  <2> QED BY <1>1, <1>3, <2>1, <2>2, <2>3, Zenon DEF StoreTypes
<1>8. ASSUME NEW j \in Instances, NEW u \in Tasks, j # i \/ u # t
      PROVE  /\ db'[j][u] = db[j][u] /\ checkpoint'[j][u] = checkpoint[j][u]
             /\ task'[j][u] = task[j][u] /\ collector'[j][u] = collector[j][u]
  BY <1>1, <1>3, <1>6, <1>8, Zenon DEF StoreTypes
<1>9. /\ db'[i][t] = d /\ checkpoint'[i][t] = c /\ task'[i][t] = "absent"
      /\ collector'[i][t] = <<>>
  BY <1>1, <1>3, <1>6, Zenon DEF StoreTypes
<1>10. StoreAt(log, db'[i][t], checkpoint'[i][t], task'[i][t], collector'[i][t])
  BY <1>6, <1>9, Zenon DEF StoreAt
<1>11. ASSUME NEW j \in Instances, NEW s \in Sources, handle'[j][s] = "live"
       PROVE  handle[j][s] = "live" /\ ~(j = i /\ TaskOf[s] = t)
  BY <1>1, <1>3, <1>11, Zenon DEF StoreTypes
<1>12. StoreAt(changelog[t], db'[i][t], checkpoint'[i][t], task'[i][t], collector'[i][t])
  BY <1>10, Zenon DEF log
<1>13. \A j \in Instances, s \in Sources : handle'[j][s] = "live" =>
         handle[j][s] = "live" /\ (j = i /\ TaskOf[s] = t => task'[i][t] # "absent")
  BY <1>11, Zenon
<1> QED BY <1>3, <1>7, <1>8, <1>12, <1>13, StoreTaskStep, Zenon

\* openTask restores from the checkpoint before the task is registered.
LEMMA StoreOpen ==
  ASSUME StoreInv, OneWriter, task \in [Instances -> [Tasks -> TaskStates]],
         NEW i \in Instances, NEW t \in Tasks, OpenTask(i, t)
  PROVE  StoreInv'
<1> DEFINE log == changelog[t]
           d == RestoredDB(log, checkpoint[i][t], db[i][t])
           c == RestoredCheckpoint(log, checkpoint[i][t])
<1>1. StoreTypes
  BY Zenon DEF StoreInv
<1>2. /\ log \in Seq(Recs) /\ Len(log) \in Nat /\ db[i][t] \in [Keys -> SUBSET Inputs]
      /\ checkpoint[i][t] \in Int
  BY <1>1, StoreTypesAt, Zenon
<1>3. /\ task[i][t] = "absent" /\ UNCHANGED <<changelog, collector, handle>>
      /\ task' = [task EXCEPT ![i][t] = "open"]
      /\ db' = [db EXCEPT ![i][t] = d] /\ checkpoint' = [checkpoint EXCEPT ![i][t] = c]
  BY Zenon DEF OpenTask, broker, loop
<1>4. /\ checkpoint[i][t] + 1 <= Len(log) /\ Covers(db[i][t], log, checkpoint[i][t] + 1)
      /\ collector[i][t] = <<>> /\ Monotone(log)
  BY <1>3, Zenon DEF StoreInv, StoreAt
<1>5. d \in [Keys -> SUBSET Inputs] /\ Covers(d, log, Len(log))
  BY <1>2, <1>4, RestoreCovers, Zenon DEF Recs
<1>6. c \in Int /\ c + 1 <= Len(log)
  <2>1. c = checkpoint[i][t] \/ c = Len(log) - 1
    BY Zenon DEF RestoredCheckpoint
  <2>2. Len(log) - 1 \in Int /\ Len(log) - 1 + 1 <= Len(log)
    BY <1>2
  <2> QED BY <1>2, <1>4, <2>1, <2>2, Zenon
<1>7. log \o <<>> = log
  BY <1>2
<1> HIDE DEF log, d, c
<1>8. StoreTypes'
  <2>1. db' \in [Instances -> [Tasks -> [Keys -> SUBSET Inputs]]]
        /\ checkpoint' \in [Instances -> [Tasks -> Int]]
    BY <1>1, <1>3, <1>5, <1>6, Zenon DEF StoreTypes
  <2> QED BY <1>1, <1>3, <2>1, Zenon DEF StoreTypes
<1>9. ASSUME NEW j \in Instances, NEW u \in Tasks, j # i \/ u # t
      PROVE  /\ db'[j][u] = db[j][u] /\ checkpoint'[j][u] = checkpoint[j][u]
             /\ task'[j][u] = task[j][u] /\ collector'[j][u] = collector[j][u]
  BY <1>1, <1>3, <1>9, Zenon DEF StoreTypes
<1>10. /\ db'[i][t] = d /\ checkpoint'[i][t] = c /\ task'[i][t] = "open"
       /\ collector'[i][t] = <<>>
  BY <1>1, <1>3, <1>4, Zenon DEF StoreTypes
<1>11. Covers(d, log, c + 1)
  BY <1>2, <1>5, CoversAll, Zenon
<1>12. StoreAt(log, db'[i][t], checkpoint'[i][t], task'[i][t], collector'[i][t])
  BY <1>4, <1>5, <1>6, <1>7, <1>10, <1>11, Zenon DEF StoreAt
<1>13. \A j \in Instances, s \in Sources : handle'[j][s] = "live" =>
         handle[j][s] = "live" /\ (j = i /\ TaskOf[s] = t => task'[i][t] # "absent")
  BY <1>3, <1>10, Zenon
<1> QED BY <1>3, <1>8, <1>9, <1>12, <1>13, StoreTaskStep, Zenon DEF log

\* A record is folded into the store and collected.
LEMMA StoreExecute ==
  ASSUME StoreInv, OneWriter, task \in [Instances -> [Tasks -> TaskStates]],
         NEW i \in Instances, NEW s \in Sources, Execute(i, s),
         batch[i][s].next \in Offsets
  PROVE  StoreInv'
<1> DEFINE t == TaskOf[s]
           o == batch[i][s].next
           k == KeyOf[s][o]
           v == db[i][t][k] \cup {<<s, o>>}
           r == [key |-> k, val |-> v]
           log == changelog[t]
           col == collector[i][t]
           d == [db[i][t] EXCEPT ![k] = v]
<1>1. StoreTypes
  BY Zenon DEF StoreInv
<1>2. t \in Tasks /\ k \in Keys /\ <<s, o>> \in Inputs
  BY RebalanceAssumption, Zenon DEF Inputs
<1>3. /\ log \in Seq(Recs) /\ db[i][t] \in [Keys -> SUBSET Inputs]
      /\ checkpoint[i][t] \in Int /\ col \in Seq(Recs)
  BY <1>1, <1>2, StoreTypesAt, Zenon
<1>4. v \in SUBSET Inputs /\ r \in Recs /\ db[i][t][k] \subseteq v
  BY <1>2, <1>3, Zenon DEF Recs
<1>5. /\ handle[i][s] = "live" /\ UNCHANGED <<changelog, checkpoint, task>>
      /\ db' = [db EXCEPT ![i][t] = d]
      /\ collector' = [collector EXCEPT ![i][t] = Append(col, r)]
      /\ handle' = [handle EXCEPT ![i][s] = "none"]
  BY Zenon DEF Execute, broker
<1>6. task[i][t] # "absent"
  BY <1>5, Zenon DEF StoreInv
<1>7. /\ checkpoint[i][t] + 1 <= Len(log) /\ Covers(db[i][t], log, checkpoint[i][t] + 1)
      /\ Monotone(log \o col) /\ Covers(db[i][t], log \o col, Len(log \o col))
  BY <1>2, <1>6, Zenon DEF StoreInv, StoreAt
<1> HIDE DEF t, o, k, v, r, log, col, d
<1>8. log \o Append(col, r) = Append(log \o col, r) /\ log \o col \in Seq(Recs)
  BY <1>3, <1>4, ConcatAppend
<1>9. /\ Monotone(Append(log \o col, r))
      /\ Covers(d, Append(log \o col, r), Len(Append(log \o col, r)))
  BY <1>2, <1>3, <1>4, <1>7, <1>8, AppendCovers, Zenon DEF Recs, r, d
<1>10. Covers(d, log, checkpoint[i][t] + 1)
  <2>1. Append(col, r) \in Seq(Recs)
    BY <1>3, <1>4
  <2>2. PrefixOf(log, log \o Append(col, r)) /\ Len(log) \in Nat
    <3>1. PrefixOf(log, log \o Append(col, r))
      BY <1>3, <2>1, ConcatPrefix, Zenon
    <3> QED BY <3>1, Zenon DEF PrefixOf
  <2>3. Covers(d, log, Len(log))
    BY <1>8, <1>9, <2>2, PrefixCovers, Zenon
  <2> QED BY <2>2, <2>3, CoversAll, Zenon
<1>11. d \in [Keys -> SUBSET Inputs] /\ Append(col, r) \in Seq(Recs)
  BY <1>2, <1>3, <1>4 DEF d
<1>12. StoreTypes'
  <2>1. db' \in [Instances -> [Tasks -> [Keys -> SUBSET Inputs]]]
    BY <1>1, <1>5, <1>11, Zenon DEF StoreTypes
  <2>2. collector' \in [Instances -> [Tasks -> Seq(Recs)]]
    BY <1>1, <1>5, <1>11, Zenon DEF StoreTypes
  <2>3. handle' \in [Instances -> [Sources -> Handles]]
    BY <1>1, <1>5, Zenon DEF StoreTypes, Handles
  <2> QED BY <1>1, <1>5, <2>1, <2>2, <2>3, Zenon DEF StoreTypes
<1>13. ASSUME NEW j \in Instances, NEW u \in Tasks, j # i \/ u # t
       PROVE  /\ db'[j][u] = db[j][u] /\ checkpoint'[j][u] = checkpoint[j][u]
              /\ task'[j][u] = task[j][u] /\ collector'[j][u] = collector[j][u]
  BY <1>1, <1>5, <1>13, Zenon DEF StoreTypes
<1>14. /\ db'[i][t] = d /\ collector'[i][t] = Append(col, r)
       /\ checkpoint'[i][t] = checkpoint[i][t] /\ task'[i][t] = task[i][t]
  BY <1>1, <1>2, <1>5, Zenon DEF StoreTypes
<1>15. StoreAt(log, db'[i][t], checkpoint'[i][t], task'[i][t], collector'[i][t])
  BY <1>6, <1>7, <1>8, <1>9, <1>10, <1>14, Zenon DEF StoreAt
<1>16. ASSUME NEW j \in Instances, NEW u \in Sources, handle'[j][u] = "live"
       PROVE  /\ handle[j][u] = "live"
              /\ j = i /\ TaskOf[u] = t => task'[i][t] # "absent"
  <2>1. handle[j][u] = "live"
    BY <1>1, <1>5, <1>16, Zenon DEF StoreTypes
  <2> QED BY <2>1, <1>6, <1>14, Zenon
<1>17. UNCHANGED changelog
  BY <1>5, Zenon
<1> QED BY <1>2, <1>12, <1>13, <1>15, <1>16, <1>17, StoreTaskStep, Zenon DEF log

\* PostBatch flushes every task that is open.
LEMMA StorePostBatch ==
  ASSUME StoreInv, OneWriter, task \in [Instances -> [Tasks -> TaskStates]],
         NEW i \in Instances, PostBatch(i)
  PROVE  StoreInv'
<1>1. StoreTypes
  BY Zenon DEF StoreInv
<1>2. /\ UNCHANGED <<db, checkpoint, task, handle>>
      /\ changelog' = [t \in Tasks |-> IF task[i][t] = "open"
                         THEN changelog[t] \o collector[i][t] ELSE changelog[t]]
      /\ collector' = [collector EXCEPT ![i] = [t \in Tasks |->
                         IF task[i][t] = "open" THEN <<>> ELSE collector[i][t]]]
  BY Zenon DEF PostBatch, disk
<1>3. ASSUME NEW t \in Tasks
      PROVE  /\ changelog'[t] \in Seq(Recs) /\ collector'[i][t] \in Seq(Recs)
             /\ PrefixOf(changelog[t], changelog'[t]) /\ Monotone(changelog'[t])
             /\ changelog'[t] = changelog[t] \/ task[i][t] # "absent"
             /\ StoreAt(changelog'[t], db[i][t], checkpoint[i][t], task[i][t],
                        collector'[i][t])
  <2>1. /\ changelog[t] \in Seq(Recs) /\ Len(changelog[t]) \in Nat
        /\ collector[i][t] \in Seq(Recs) /\ checkpoint[i][t] \in Int
    BY <1>1, StoreTypesAt, Zenon
  <2>2. StoreAt(changelog[t], db[i][t], checkpoint[i][t], task[i][t], collector[i][t])
        /\ Monotone(changelog[t])
    BY Zenon DEF StoreInv
  <2>3. CASE task[i][t] = "open"
    <3> DEFINE n == Len(collector[i][t])
               log2 == changelog[t] \o SubSeq(collector[i][t], 1, n)
    <3>1. n \in 0 .. Len(collector[i][t]) /\ SubSeq(collector[i][t], 1, n) = collector[i][t]
      BY <2>1, SubSeqAll, Zenon
    <3>2. changelog'[t] = log2 /\ collector'[i][t] = <<>>
      BY <1>1, <1>2, <2>3, <3>1, Zenon DEF StoreTypes
    <3>3. /\ checkpoint[i][t] + 1 <= Len(changelog[t])
          /\ Covers(db[i][t], changelog[t], checkpoint[i][t] + 1)
          /\ Monotone(changelog[t] \o collector[i][t])
          /\ Covers(db[i][t], changelog[t] \o collector[i][t],
                    Len(changelog[t] \o collector[i][t]))
      BY <2>2, <2>3, Zenon DEF StoreAt
    <3> HIDE DEF n
    <3>4. /\ log2 \in Seq(Recs) /\ PrefixOf(changelog[t], log2) /\ Monotone(log2)
          /\ StoreAt(log2, db[i][t], checkpoint[i][t], task[i][t], <<>>)
      BY <2>1, <3>1, <3>3, PartFlushed, Zenon
    <3> HIDE DEF log2
    <3>5. <<>> \in Seq(Recs)
      OBVIOUS
    <3> QED BY <2>3, <3>2, <3>4, <3>5, Zenon
  <2>4. CASE task[i][t] # "open"
    <3>1. changelog'[t] = changelog[t] /\ collector'[i][t] = collector[i][t]
      BY <1>1, <1>2, <2>4, Zenon DEF StoreTypes
    <3>2. PrefixOf(changelog[t], changelog[t])
      BY <2>1, PrefixSelf, Zenon
    <3> QED BY <2>1, <2>2, <3>1, <3>2, Zenon
  <2> QED BY <2>3, <2>4, Zenon
<1>4. StoreTypes'
  <2>1. changelog' \in [Tasks -> Seq(Recs)]
    BY <1>2, <1>3, Zenon
  <2>2. collector' \in [Instances -> [Tasks -> Seq(Recs)]]
    BY <1>1, <1>2 DEF StoreTypes
  <2> QED BY <1>1, <1>2, <2>1, <2>2, Zenon DEF StoreTypes
<1>5. ASSUME NEW j \in Instances \ {i}
      PROVE  /\ db'[j] = db[j] /\ checkpoint'[j] = checkpoint[j]
             /\ task'[j] = task[j] /\ collector'[j] = collector[j]
             /\ handle'[j] = handle[j]
  BY <1>1, <1>2, Zenon DEF StoreTypes
<1>6. ASSUME NEW s \in Sources, handle'[i][s] = "live" PROVE task'[i][TaskOf[s]] # "absent"
  BY <1>2, <1>6, Zenon DEF StoreInv
<1>7. ASSUME NEW t \in Tasks
      PROVE  StoreAt(changelog'[t], db'[i][t], checkpoint'[i][t], task'[i][t],
                     collector'[i][t])
  BY <1>2, <1>3, Zenon
<1> QED BY <1>3, <1>4, <1>5, <1>6, <1>7, StoreStepAt, Zenon

\* A process that dies leaves its stores behind.
LEMMA StoreFresh ==
  ASSUME StoreInv, OneWriter, task \in [Instances -> [Tasks -> TaskStates]],
         NEW i \in Instances,
         (\E s \in Sources : ExecutePanics(i, s)) \/ Crash(i) \/ Exit(i)
  PROVE  StoreInv'
<1>1. StoreTypes
  BY Zenon DEF StoreInv
<1>2. Fresh(i) /\ UNCHANGED <<changelog, db, checkpoint>>
  BY Zenon DEF ExecutePanics, Crash, Exit, Die, broker, disk
<1>3. /\ handle' = [handle EXCEPT ![i] = [s \in Sources |-> "none"]]
      /\ task' = [task EXCEPT ![i] = [t \in Tasks |-> "absent"]]
      /\ collector' = [collector EXCEPT ![i] = [t \in Tasks |-> <<>>]]
  BY <1>2, Zenon DEF Fresh
<1>4. StoreTypes'
  <2>1. collector' \in [Instances -> [Tasks -> Seq(Recs)]]
    BY <1>1, <1>3 DEF StoreTypes
  <2>2. handle' \in [Instances -> [Sources -> Handles]]
    BY <1>1, <1>3, Zenon DEF StoreTypes, Handles
  <2> QED BY <1>1, <1>2, <2>1, <2>2, Zenon DEF StoreTypes
<1>5. ASSUME NEW t \in Tasks
      PROVE  /\ PrefixOf(changelog[t], changelog'[t]) /\ Monotone(changelog'[t])
             /\ changelog'[t] = changelog[t]
             /\ StoreAt(changelog'[t], db'[i][t], checkpoint'[i][t], task'[i][t],
                        collector'[i][t])
  <2>1. task'[i][t] = "absent" /\ collector'[i][t] = <<>>
    BY <1>1, <1>3, Zenon DEF StoreTypes
  <2>2. StoreAt(changelog[t], db[i][t], checkpoint[i][t], "absent", <<>>)
    BY Zenon DEF StoreInv, StoreAt
  <2>3. PrefixOf(changelog[t], changelog[t]) /\ Monotone(changelog[t])
    BY <1>1, StoreTypesAt, PrefixSelf, Zenon DEF StoreInv
  <2> QED BY <1>2, <2>1, <2>2, <2>3, Zenon
<1>6. ASSUME NEW j \in Instances \ {i}
      PROVE  /\ db'[j] = db[j] /\ checkpoint'[j] = checkpoint[j]
             /\ task'[j] = task[j] /\ collector'[j] = collector[j]
             /\ handle'[j] = handle[j]
  BY <1>1, <1>2, <1>3, Zenon DEF StoreTypes
<1>7. ASSUME NEW s \in Sources PROVE handle'[i][s] # "live"
  BY <1>1, <1>3, Zenon DEF StoreTypes
<1> QED BY <1>4, <1>5, <1>6, <1>7, StoreStepAt, Zenon

\* Every step keeps the invariant.
LEMMA StoreStep ==
  ASSUME SinkInv, RangeInv, OwnerInv, OneWriter, StoreInv, [Next]_vars
  PROVE  StoreInv'
<1>1. task \in [Instances -> [Tasks -> TaskStates]]
  BY Zenon DEF OwnerInv
<1>2. CASE UNCHANGED vars
  <2>1. UNCHANGED <<changelog, db, checkpoint, task, collector, handle>>
    BY <1>2, Zenon DEF vars, broker, disk, loop
  <2> QED BY <2>1, StoreStill, Zenon
<1>3. ASSUME NEW i \in Instances, NEW t \in Tasks,
             \/ CloseTask(i, t) \/ CloseTaskFlushFail(i, t) \/ CloseStore(i, t)
             \/ CloseNothing(i, t) \/ OpenTask(i, t) \/ OpenTaskFail(i, t)
      PROVE  StoreInv'
  BY <1>1, <1>3, StoreFlushSteps, StoreClose, StoreOpen, StoreOther, Zenon
<1>4. ASSUME NEW i \in Instances, NEW s \in Sources, Execute(i, s) PROVE StoreInv'
  <2>1. batch[i][s].next < batch[i][s].end
    BY <1>4, Zenon DEF Execute, HasNext
  <2>2. batch[i][s].next \in Int /\ batch[i][s].end \in Int
    BY OffsetTypes, Zenon
  <2>3. batch[i][s].next >= 0 /\ batch[i][s].end <= End
    BY Zenon DEF RangeInv
  <2>4. batch[i][s].next \in Offsets
    BY <2>1, <2>2, <2>3, RebalanceAssumption DEF Offsets
  <2> QED BY <1>1, <1>4, <2>4, StoreExecute, Zenon
<1>5. ASSUME NEW i \in Instances, NEW s \in Sources,
             \/ LookUp(i, s) \/ NoTask(i, s) \/ ExecuteClosed(i, s)
             \/ ExecutePanics(i, s)
      PROVE  StoreInv'
  BY <1>1, <1>5, StoreHandle, StoreOther, StoreFresh, Zenon
<1>6. ASSUME NEW i \in Instances,
             \/ PostBatch(i) \/ PostBatchFail(i) \/ Crash(i) \/ Exit(i)
      PROVE  StoreInv'
  BY <1>1, <1>6, StorePostBatch, StoreFlushSteps, StoreFresh, Zenon
<1>7. ASSUME NEW i \in Instances,
             \/ \E S \in SUBSET Sources : Revoke(i, S) \/ Assign(i, S)
             \/ RevokeDone(i) \/ RevokeDoneUncommitted(i) \/ AssignDone(i)
             \/ Poll(i) \/ BatchFailed(i) \/ ProcessDone(i) \/ Produce(i)
             \/ ProduceFail(i) \/ Commit(i) \/ NotDue(i) \/ CommitFail(i)
             \/ Shutdown(i) \/ Close(i)
      PROVE  StoreInv'
  BY <1>7, StoreOther, Zenon
<1>8. ASSUME NEW i \in Instances, Progress(i) \/ Disruption(i) PROVE StoreInv'
  BY <1>8, <1>3, <1>4, <1>5, <1>6, <1>7, Zenon DEF Progress, Disruption
<1> QED BY <1>2, <1>7, <1>8, Zenon DEF Next, AssignSome

\* At the start every store and every changelog is empty.
LEMMA StoreInit == Init => StoreInv
<1> SUFFICES ASSUME Init PROVE StoreInv
  BY Zenon
<1>1. StoreTypes
  BY DEF Init, StoreTypes, EmptyStore, Handles
<1>2. Monotone(<<>>) /\ \A store : StoreAt(<<>>, store, -1, "absent", <<>>)
  BY DEF Monotone, StoreAt, Covers
<1>3. ASSUME NEW i \in Instances, NEW t \in Tasks
      PROVE  StoreAt(changelog[t], db[i][t], checkpoint[i][t], task[i][t], collector[i][t])
  BY <1>2, Zenon DEF Init
<1>4. \A t \in Tasks : Monotone(changelog[t])
  BY <1>2, Zenon DEF Init
<1>5. \A i \in Instances, s \in Sources : handle[i][s] # "live"
  BY Zenon DEF Init
<1> QED BY <1>1, <1>3, <1>4, <1>5, Zenon DEF StoreInv

\* What a changelog rebuilds is what it reflects.
LEMMA DurableMeans ==
  ASSUME StoreInv, NEW t \in Tasks, NEW k \in Keys, NEW x
  PROVE  x \in Durable(t)[k] <=> InLog(changelog[t], k, x)
<1>1. changelog[t] \in Seq(Recs) /\ Monotone(changelog[t])
  BY Zenon DEF StoreInv, StoreTypes
<1>2. Len(changelog[t]) \in Nat
  BY <1>1, SeqParts, Zenon
<1> QED BY <1>1, <1>2, RebuiltInLog, Zenon DEF Durable, EmptyStore

\* The four invariants together.
TaskInv == SinkInv /\ RangeInv /\ OwnerInv /\ StoreInv

\* They hold at the start and are kept together.
LEMMA TaskInvariant ==
  ASSUME OneSourcePerTask
  PROVE  /\ Init => TaskInv
         /\ TaskInv /\ [Next]_vars => TaskInv'
<1>1. Init => TaskInv
  BY SinkInit, RangeInit, OwnerInit, StoreInit, Zenon DEF TaskInv
<1>2. ASSUME TaskInv, [Next]_vars PROVE TaskInv'
  <2>1. SinkInv /\ RangeInv /\ OwnerInv /\ StoreInv
    BY <1>2, Zenon DEF TaskInv
  <2>2. [AnyStep]_vars
    BY <1>2, Zenon DEF AnyStep
  <2>3. OneWriter
    BY <2>1, OwnersApart, OneSourcePerTask, Zenon
  <2>4. SinkInv' /\ RangeInv'
    BY <2>1, <2>2, SinkStep, RangeStep, Zenon
  <2>5. OwnerInv'
    BY <2>1, <1>2, OwnerStep, Zenon
  <2>6. StoreInv'
    BY <2>1, <2>3, <1>2, StoreStep, Zenon
  <2> QED BY <2>4, <2>5, <2>6, Zenon DEF TaskInv
<1> QED BY <1>1, <1>2, Zenon

\* A task that openTask has restored, also over a store and a checkpoint left
\* from an earlier ownership, holds all its changelog says, however partitions
\* moved and members stopped, crashed or failed to flush.
THEOREM StoreAlwaysCovers ==
  ASSUME OneSourcePerTask
  PROVE  Spec => []StoreCoversChangelog
<1>1. TaskInv => StoreCoversChangelog
  <2> SUFFICES ASSUME TaskInv, NEW i \in Instances, NEW t \in Tasks, NEW k \in Keys,
                      task[i][t] = "open", NEW x \in Durable(t)[k]
               PROVE  x \in db[i][t][k]
    BY Zenon DEF StoreCoversChangelog
  <2>1. StoreInv /\ InLog(changelog[t], k, x)
    BY DurableMeans, Zenon DEF TaskInv
  <2>2. changelog[t] \in Seq(Recs) /\ collector[i][t] \in Seq(Recs)
    BY <2>1, Zenon DEF StoreInv, StoreTypes
  <2>3. Covers(db[i][t], changelog[t] \o collector[i][t],
               Len(changelog[t] \o collector[i][t]))
    BY <2>1, Zenon DEF StoreInv, StoreAt
  <2>4. Covers(db[i][t], changelog[t], Len(changelog[t])) /\ Len(changelog[t]) \in Nat
    BY <2>2, <2>3, ConcatPrefix, PrefixCovers, SeqParts, Zenon
  <2> QED BY <2>1, <2>4 DEF InLog, Covers
<1> QED BY <1>1, TaskInvariant, OneSourcePerTask, PTL DEF Spec

-----------------------------------------------------------------------------
(* The folds.  What is committed, pending or fetched before the batch in   *)
(* hand is safe: in the changelog, or exposed.  What the batch in hand has *)
(* processed is overtaken, or in the collector of an open task until       *)
(* PostBatch writes it to the changelog.                                   *)

KeyIn(x) == KeyOf[x[1]][x[2]]
Safe(x) == InLog(changelog[TaskOf[x[1]]], KeyIn(x), x) \/ x \in exposed

OffsetsSafe ==
  /\ \A x \in Inputs : x[2] < committed[x[1]] => Safe(x)
  /\ \A i \in Instances, x \in Inputs :
       /\ x[2] <= pending[i][x[1]] => Safe(x)
       /\ x[2] < batch[i][x[1]].start => Safe(x)
       /\ x[2] < position[i][x[1]] => Safe(x) \/ x[2] < batch[i][x[1]].end

\* The input x of the batch in hand at i.
InHand(i, x) == batch[i][x[1]].start <= x[2] /\ x[2] < batch[i][x[1]].end
Collected(i, x) ==
  LET t == TaskOf[x[1]]
  IN  task[i][t] = "open" /\ InLog(changelog[t] \o collector[i][t], KeyIn(x), x)

HandAt(i) ==
  /\ \A s \in Sources :
       handle[i][s] # "none" => pc[i] = "process" /\ batch[i][s].next < batch[i][s].end
  /\ \A s \in Sources :
       pc[i] \in {"process", "postBatch"} => batch[i][s].start <= batch[i][s].next
  /\ \A s \in Sources :
       pc[i] = "postBatch" => batch[i][s].end <= batch[i][s].next
  /\ \A x \in Inputs :
       pc[i] \in {"process", "postBatch"} /\ InHand(i, x) /\ x[2] < batch[i][x[1]].next
         => x \in overtaken[i] \/ Collected(i, x)
  /\ \A x \in Inputs :
       pc[i] = "produce" /\ InHand(i, x) => x \in overtaken[i] \/ Safe(x)
  /\ \A x \in Inputs :
       /\ handle[i][x[1]] = "live" /\ task[i][TaskOf[x[1]]] = "closing"
       /\ InHand(i, x)
       => x \in overtaken[i]

LossInv ==
  /\ OffsetsSafe
  /\ overtaken \in [Instances -> SUBSET Inputs]
  /\ \A i \in Instances : HandAt(i)

\* No step takes anything from a changelog or from the exposed inputs.
Grows ==
  /\ \A t \in Tasks : PrefixOf(changelog[t], changelog'[t])
  /\ exposed \subseteq exposed'

\* A step of instance i leaves the others' loops and tasks alone, and every
\* changelog but those of tasks it has.
Local(i) ==
  /\ \A j \in Instances \ {i} :
       /\ pc'[j] = pc[j] /\ batch'[j] = batch[j] /\ handle'[j] = handle[j]
       /\ task'[j] = task[j] /\ collector'[j] = collector[j]
       /\ overtaken'[j] = overtaken[j]
  /\ \A t \in Tasks : changelog'[t] = changelog[t] \/ task[i][t] # "absent"

\* The key and the task of an input.
LEMMA InputTask ==
  ASSUME NEW x \in Inputs
  PROVE  TaskOf[x[1]] \in Tasks /\ KeyIn(x) \in Keys
BY RebalanceAssumption, Zenon DEF Inputs, KeyIn

\* What is safe stays safe.
LEMMA SafeStays ==
  ASSUME Grows, NEW x \in Inputs, Safe(x)
  PROVE  Safe(x)'
<1> DEFINE t == TaskOf[x[1]]
           k == KeyIn(x)
<1>1. t \in Tasks /\ PrefixOf(changelog[t], changelog'[t])
  BY InputTask, Zenon DEF Grows
<1>2. CASE InLog(changelog[t], k, x)
  <2> HIDE DEF t, k
  <2>1. InLog(changelog'[t], k, x)
    BY <1>1, <1>2, PrefixInLog, Zenon
  <2> QED BY <2>1, Zenon DEF Safe, KeyIn, t, k
<1>3. CASE x \in exposed
  BY <1>3, Zenon DEF Safe, Grows
<1> QED BY <1>2, <1>3, Zenon DEF Safe

\* What the loop has collected stays collected while task, collector and
\* changelog stay.
LEMMA CollectedStays ==
  ASSUME NEW i \in Instances, NEW x \in Inputs, Collected(i, x),
         task'[i][TaskOf[x[1]]] = task[i][TaskOf[x[1]]],
         collector'[i][TaskOf[x[1]]] = collector[i][TaskOf[x[1]]],
         changelog'[TaskOf[x[1]]] = changelog[TaskOf[x[1]]]
  PROVE  Collected(i, x)'
BY Zenon DEF Collected, KeyIn

\* A step at which the batch of instance i stays in hand where it was.
LEMMA HandKeeps ==
  ASSUME Grows, NEW i \in Instances, HandAt(i),
         pc'[i] = pc[i], batch'[i] = batch[i], overtaken[i] \subseteq overtaken'[i],
         \A s \in Sources : handle'[i][s] # "none" =>
           \/ handle[i][s] # "none"
           \/ pc[i] = "process" /\ batch[i][s].next < batch[i][s].end,
         \A x \in Inputs :
           pc[i] \in {"process", "postBatch"} /\ InHand(i, x) /\ Collected(i, x)
             => x \in overtaken'[i] \/ Collected(i, x)',
         \A x \in Inputs :
           /\ handle'[i][x[1]] = "live" /\ task'[i][TaskOf[x[1]]] = "closing"
           /\ InHand(i, x)
           => x \in overtaken'[i]
  PROVE  HandAt(i)'
<1>1. \A x \in Inputs : InHand(i, x)' <=> InHand(i, x)
  BY Zenon DEF InHand
<1>2. ASSUME NEW s \in Sources, handle'[i][s] # "none"
      PROVE  pc'[i] = "process" /\ batch'[i][s].next < batch'[i][s].end
  BY <1>2, Zenon DEF HandAt
<1>3. ASSUME NEW s \in Sources
      PROVE  /\ pc'[i] \in {"process", "postBatch"} =>
                  batch'[i][s].start <= batch'[i][s].next
             /\ pc'[i] = "postBatch" => batch'[i][s].end <= batch'[i][s].next
  BY Zenon DEF HandAt
<1>4. ASSUME NEW x \in Inputs, pc'[i] \in {"process", "postBatch"}, InHand(i, x)',
             x[2] < batch'[i][x[1]].next
      PROVE  x \in overtaken'[i] \/ Collected(i, x)'
  <2>1. x \in overtaken[i] \/ Collected(i, x)
    BY <1>1, <1>4, Zenon DEF HandAt
  <2> QED BY <1>1, <1>4, <2>1, Zenon
<1>5. ASSUME NEW x \in Inputs, pc'[i] = "produce", InHand(i, x)'
      PROVE  x \in overtaken'[i] \/ Safe(x)'
  <2>1. x \in overtaken[i] \/ Safe(x)
    BY <1>1, <1>5, Zenon DEF HandAt
  <2> QED BY <2>1, SafeStays, Zenon
<1>6. ASSUME NEW x \in Inputs, handle'[i][x[1]] = "live",
             task'[i][TaskOf[x[1]]] = "closing", InHand(i, x)'
      PROVE  x \in overtaken'[i]
  BY <1>1, <1>6, Zenon
<1> QED BY <1>2, <1>3, <1>4, <1>5, <1>6, Zenon DEF HandAt

\* The batch of another instance.
LEMMA HandOther ==
  ASSUME Grows, OneWriter, NEW i \in Instances, Local(i),
         NEW j \in Instances, j # i, HandAt(j)
  PROVE  HandAt(j)'
<1>1. /\ pc'[j] = pc[j] /\ batch'[j] = batch[j] /\ handle'[j] = handle[j]
      /\ task'[j] = task[j] /\ collector'[j] = collector[j]
      /\ overtaken'[j] = overtaken[j]
  BY Zenon DEF Local
<1>2. ASSUME NEW x \in Inputs, Collected(j, x) PROVE Collected(j, x)'
  <2> DEFINE t == TaskOf[x[1]]
  <2>1. t \in Tasks /\ task[j][t] = "open"
    BY <1>2, InputTask, Zenon DEF Collected
  <2>2. task[i][t] = "absent"
    BY <2>1, Zenon DEF OneWriter
  <2>3. changelog'[t] = changelog[t]
    BY <2>1, <2>2, Zenon DEF Local
  <2> QED BY <1>1, <1>2, <2>3, CollectedStays, Zenon
<1>3. ASSUME NEW x \in Inputs, handle'[j][x[1]] = "live",
             task'[j][TaskOf[x[1]]] = "closing", InHand(j, x)
      PROVE  x \in overtaken'[j]
  BY <1>1, <1>3, Zenon DEF HandAt
<1> QED BY <1>1, <1>2, <1>3, HandKeeps, Zenon

\* Without a batch in hand and without an executor there is nothing to show.
LEMMA HandOut ==
  ASSUME NEW i \in Instances,
         pc'[i] \notin {"process", "postBatch", "produce"},
         \A s \in Sources : handle'[i][s] = "none"
  PROVE  HandAt(i)'
<1>1. \A x \in Inputs : x[1] \in Sources
  BY InputParts, Zenon
<1> QED BY <1>1, Zenon DEF HandAt

LoopTypes ==
  /\ pc \in [Instances -> Places]
  /\ batch \in [Instances -> [Sources -> Numbers]]
  /\ handle \in [Instances -> [Sources -> Handles]]
  /\ task \in [Instances -> [Tasks -> TaskStates]]
  /\ collector \in [Instances -> [Tasks -> Seq(Recs)]]
  /\ changelog \in [Tasks -> Seq(Recs)]
  /\ overtaken \in [Instances -> SUBSET Inputs]

\* What a step of instance i has to show.
Kept(i) ==
  Grows /\ Local(i) /\ HandAt(i)' /\ overtaken' \in [Instances -> SUBSET Inputs]

\* Nothing is taken from a changelog that stays what it is.
LEMMA SameGrows ==
  ASSUME LoopTypes, UNCHANGED changelog, exposed \subseteq exposed'
  PROVE  Grows
<1>1. ASSUME NEW t \in Tasks PROVE Len(changelog[t]) \in Nat
  <2>1. changelog[t] \in Seq(Recs)
    BY Zenon DEF LoopTypes
  <2> QED BY <2>1
<1> QED BY <1>1, PrefixSelf, Zenon DEF Grows

\* An executor is held only while the batch is processed.
LEMMA NoHandle ==
  ASSUME NEW i \in Instances, HandAt(i), pc[i] # "process"
  PROVE  \A s \in Sources : handle[i][s] = "none"
BY Zenon DEF HandAt

\* The steps of the group and of the callbacks that leave the tasks alone.
LEMMA HandGroup ==
  ASSUME LoopTypes, NEW i \in Instances, HandAt(i),
         \/ \E S \in SUBSET Sources : Revoke(i, S) \/ Assign(i, S)
         \/ \E t \in Tasks : CloseNothing(i, t) \/ OpenTaskFail(i, t)
         \/ RevokeDone(i) \/ RevokeDoneUncommitted(i) \/ AssignDone(i)
  PROVE  Kept(i)
<1>1. UNCHANGED <<pc, batch, handle, task, collector, changelog, overtaken, exposed>>
  BY Zenon DEF Revoke, Assign, CloseNothing, OpenTaskFail, RevokeDone,
         RevokeDoneUncommitted, AssignDone, broker, loop, seen
<1>2. Grows
  BY <1>1, SameGrows, Zenon
<1>3. ASSUME NEW x \in Inputs, Collected(i, x) PROVE Collected(i, x)'
  BY <1>1, <1>3, CollectedStays, Zenon
<1>4. ASSUME NEW x \in Inputs, handle'[i][x[1]] = "live",
             task'[i][TaskOf[x[1]]] = "closing", InHand(i, x)
      PROVE  x \in overtaken'[i]
  BY <1>1, <1>4, Zenon DEF HandAt
<1>5. HandAt(i)'
  BY <1>1, <1>2, <1>3, <1>4, HandKeeps, Zenon
<1> QED BY <1>1, <1>2, <1>5, Zenon DEF Kept, Local, LoopTypes

\* The executor is looked up, is not there or is found to be closed.
LEMMA HandHandle ==
  ASSUME LoopTypes, NEW i \in Instances, HandAt(i), NEW s \in Sources,
         LookUp(i, s) \/ NoTask(i, s) \/ ExecuteClosed(i, s)
  PROVE  Kept(i)
<1>1. UNCHANGED <<pc, batch, task, collector, changelog, overtaken, exposed>>
  BY Zenon DEF LookUp, NoTask, ExecuteClosed, broker, seen
<1>2. \/ /\ handle' = [handle EXCEPT ![i][s] = "live"] /\ task[i][TaskOf[s]] = "open"
         /\ pc[i] = "process" /\ batch[i][s].next < batch[i][s].end
      \/ handle' = handle
      \/ handle' = [handle EXCEPT ![i][s] = "none"]
  BY Zenon DEF LookUp, NoTask, ExecuteClosed, MayBegin, HasNext
<1>3. handle \in [Instances -> [Sources -> Handles]]
  BY Zenon DEF LoopTypes
<1>4. Grows
  BY <1>1, SameGrows, Zenon
<1>5. ASSUME NEW x \in Inputs, Collected(i, x) PROVE Collected(i, x)'
  BY <1>1, <1>5, CollectedStays, Zenon
<1>6. ASSUME NEW x \in Inputs, handle'[i][x[1]] = "live",
             task'[i][TaskOf[x[1]]] = "closing", InHand(i, x)
      PROVE  x \in overtaken'[i]
  <2>1. handle[i][x[1]] = "live"
    BY <1>1, <1>2, <1>3, <1>6, InputParts, Zenon
  <2> QED BY <1>1, <1>6, <2>1, Zenon DEF HandAt
<1>7. \A u \in Sources : handle'[i][u] # "none" =>
        \/ handle[i][u] # "none"
        \/ pc[i] = "process" /\ batch[i][u].next < batch[i][u].end
  BY <1>2, <1>3, Zenon
<1>8. HandAt(i)'
  BY <1>1, <1>4, <1>5, <1>6, <1>7, HandKeeps, Zenon
<1>9. \A j \in Instances \ {i} : handle'[j] = handle[j]
  BY <1>2, <1>3, Zenon
<1> QED BY <1>1, <1>4, <1>8, <1>9, Zenon DEF Kept, Local, LoopTypes

\* The steps that leave the batch behind: its offsets are added, or it will be
\* delivered again.
LEMMA HandLeave ==
  ASSUME LoopTypes, NEW i \in Instances, HandAt(i),
         \/ BatchFailed(i) \/ Produce(i) \/ ProduceFail(i) \/ Commit(i) \/ NotDue(i)
         \/ CommitFail(i) \/ Shutdown(i) \/ Close(i)
  PROVE  Kept(i)
<1>1. UNCHANGED <<handle, task, collector, changelog>> /\ exposed \subseteq exposed'
  BY Zenon DEF BatchFailed, Produce, ProduceFail, Commit, NotDue, CommitFail, Shutdown,
         Close, Stop, broker, seen
<1>2. batch' = batch \/ batch' = [batch EXCEPT ![i] = [s \in Sources |-> NoBatch]]
  BY Zenon DEF BatchFailed, Produce, ProduceFail, Commit, NotDue, CommitFail, Shutdown, Close
<1>3. overtaken' = overtaken \/ overtaken' = [overtaken EXCEPT ![i] = {}]
  BY Zenon DEF BatchFailed, Produce, ProduceFail, Commit, NotDue, CommitFail, Shutdown,
         Close, Stop, seen
<1>4. \E l \in {"stopped", "commit", "poll", "leaving"} : pc' = [pc EXCEPT ![i] = l]
  BY Zenon DEF BatchFailed, Produce, ProduceFail, Commit, NotDue, CommitFail, Shutdown,
         Close, Stop
<1>5. \A s \in Sources : handle[i][s] = "none"
  <2>1. CASE BatchFailed(i)
    BY <2>1, Zenon DEF BatchFailed
  <2>2. CASE ~BatchFailed(i)
    <3>1. pc[i] # "process"
      BY <2>2, Zenon DEF Produce, ProduceFail, Commit, NotDue, CommitFail, Shutdown, Close
    <3> QED BY <3>1, NoHandle, Zenon
  <2> QED BY <2>1, <2>2, Zenon
<1>6. pc'[i] \notin {"process", "postBatch", "produce"}
  BY <1>4, Zenon DEF LoopTypes
<1>7. HandAt(i)'
  BY <1>1, <1>5, <1>6, HandOut, Zenon
<1>8. \A j \in Instances \ {i} :
        pc'[j] = pc[j] /\ batch'[j] = batch[j] /\ overtaken'[j] = overtaken[j]
  BY <1>2, <1>3, <1>4, Zenon DEF LoopTypes
<1>9. overtaken' \in [Instances -> SUBSET Inputs]
  BY <1>3, Zenon DEF LoopTypes
<1>10. Grows
  BY <1>1, SameGrows, Zenon
<1> QED BY <1>1, <1>7, <1>8, <1>9, <1>10, Zenon DEF Kept, Local

\* A process that starts again has nothing in hand.
LEMMA HandFresh ==
  ASSUME LoopTypes, NEW i \in Instances,
         (\E s \in Sources : ExecutePanics(i, s)) \/ Crash(i) \/ Exit(i)
  PROVE  Kept(i)
<1>1. Fresh(i) /\ UNCHANGED <<changelog, exposed>> /\ pc' = [pc EXCEPT ![i] = "poll"]
  BY Zenon DEF ExecutePanics, Crash, Exit, Die, broker
<1>2. /\ batch' = [batch EXCEPT ![i] = [s \in Sources |-> NoBatch]]
      /\ handle' = [handle EXCEPT ![i] = [s \in Sources |-> "none"]]
      /\ task' = [task EXCEPT ![i] = [t \in Tasks |-> "absent"]]
      /\ collector' = [collector EXCEPT ![i] = [t \in Tasks |-> <<>>]]
      /\ overtaken' = [overtaken EXCEPT ![i] = {}]
  BY <1>1, Zenon DEF Fresh
<1>3. pc'[i] = "poll" /\ \A s \in Sources : handle'[i][s] = "none"
  BY <1>1, <1>2, Zenon DEF LoopTypes
<1>4. HandAt(i)'
  BY <1>3, HandOut, Zenon
<1>5. \A j \in Instances \ {i} :
        /\ pc'[j] = pc[j] /\ batch'[j] = batch[j] /\ handle'[j] = handle[j]
        /\ task'[j] = task[j] /\ collector'[j] = collector[j]
        /\ overtaken'[j] = overtaken[j]
  BY <1>1, <1>2, Zenon DEF LoopTypes
<1>6. overtaken' \in [Instances -> SUBSET Inputs]
  BY <1>2, Zenon DEF LoopTypes
<1>7. Grows
  BY <1>1, SameGrows, Zenon
<1> QED BY <1>1, <1>4, <1>5, <1>6, <1>7, Zenon DEF Kept, Local

\* A new batch: nothing of it has been processed.
LEMMA HandPoll ==
  ASSUME SinkInv, LoopTypes, NEW i \in Instances, HandAt(i), Poll(i)
  PROVE  Kept(i)
<1>1. /\ pc[i] = "poll" /\ pc' = [pc EXCEPT ![i] = "process"]
      /\ UNCHANGED <<handle, task, collector, changelog, overtaken, exposed>>
  BY Zenon DEF Poll, broker, seen
<1>2. PICK end \in [Sources -> 0 .. End] :
        batch' = [batch EXCEPT ![i] = [s \in Sources |->
          IF position[i][s] = -1 THEN NoBatch
          ELSE [start |-> position[i][s], next |-> position[i][s], end |-> end[s]]]]
  BY Zenon DEF Poll
<1>3. ASSUME NEW s \in Sources
      PROVE  batch'[i][s].start = batch'[i][s].next /\ batch'[i][s].start \in Int
  <2>1. position[i][s] \in Int
    BY OffsetTypes, Zenon
  <2>2. CASE position[i][s] = -1
    <3>1. batch'[i][s] = NoBatch
      BY <1>2, <2>2, Zenon DEF LoopTypes
    <3> QED BY <3>1 DEF NoBatch
  <2>3. CASE position[i][s] # -1
    <3>1. batch'[i][s] = [start |-> position[i][s], next |-> position[i][s], end |-> end[s]]
      BY <1>2, <2>3, Zenon DEF LoopTypes
    <3>2. batch'[i][s].start = position[i][s] /\ batch'[i][s].next = position[i][s]
      BY <3>1
    <3> QED BY <2>1, <3>2, Zenon
  <2> QED BY <2>2, <2>3, Zenon
<1>4. pc'[i] = "process" /\ \A s \in Sources : handle'[i][s] = "none"
  BY <1>1, NoHandle, Zenon DEF LoopTypes
<1>5. ASSUME NEW x \in Inputs, InHand(i, x)' PROVE ~(x[2] < batch'[i][x[1]].next)
  <2>1. x[1] \in Sources /\ x[2] \in Nat
    BY InputParts, Zenon
  <2>2. batch'[i][x[1]].start <= x[2]
    BY <1>5, Zenon DEF InHand
  <2>3. PICK a \in Int : a = batch'[i][x[1]].start /\ a = batch'[i][x[1]].next
    BY <1>3, <2>1, Zenon
  <2>4. a <= x[2] => ~(x[2] < a)
    BY <2>1
  <2> QED BY <2>2, <2>3, <2>4, Zenon
<1>6. HandAt(i)'
  <2>1. \A x \in Inputs : x[1] \in Sources
    BY InputParts, Zenon
  <2>2. \A s \in Sources : batch'[i][s].start <= batch'[i][s].next
    BY <1>3
  <2> QED BY <1>4, <1>5, <2>1, <2>2, Zenon DEF HandAt
<1>7. \A j \in Instances \ {i} : pc'[j] = pc[j] /\ batch'[j] = batch[j]
  BY <1>1, <1>2, Zenon DEF LoopTypes
<1>8. Grows
  BY <1>1, SameGrows, Zenon
<1> QED BY <1>1, <1>6, <1>7, <1>8, Zenon DEF Kept, Local, LoopTypes

\* The batch has been processed without a failure, so to its end.
LEMMA HandDone ==
  ASSUME SinkInv, LoopTypes, NEW i \in Instances, HandAt(i), ProcessDone(i)
  PROVE  Kept(i)
<1>1. /\ pc[i] = "process" /\ pc' = [pc EXCEPT ![i] = "postBatch"] /\ failed[i] = {}
      /\ UNCHANGED <<batch, handle, task, collector, changelog, overtaken, exposed>>
      /\ \A s \in Sources : ~HasNext(i, s)
  BY Zenon DEF ProcessDone, broker, seen
<1>2. \A s \in Sources : ~(batch[i][s].next < batch[i][s].end)
  BY <1>1, Zenon DEF HasNext
<1>3. \A s \in Sources : batch[i][s].end <= batch[i][s].next
  BY <1>2, OffsetTypes
<1>4. \A s \in Sources : handle[i][s] = "none"
  BY <1>2, Zenon DEF HandAt
<1>5. pc'[i] = "postBatch"
  BY <1>1, Zenon DEF LoopTypes
<1>6. ASSUME NEW x \in Inputs, InHand(i, x)' PROVE x \in overtaken'[i] \/ Collected(i, x)'
  <2>1. InHand(i, x)
    BY <1>1, <1>6, Zenon DEF InHand
  <2>2. x[1] \in Sources /\ x[2] \in Nat
    BY InputParts, Zenon
  <2>3. x[2] < batch[i][x[1]].next
    BY <1>3, <2>1, <2>2, OffsetTypes DEF InHand
  <2>4. x \in overtaken[i] \/ Collected(i, x)
    BY <1>1, <2>1, <2>3, Zenon DEF HandAt
  <2> QED BY <1>1, <2>4, CollectedStays, Zenon
<1>7. HandAt(i)'
  <2>1. \A x \in Inputs : x[1] \in Sources
    BY InputParts, Zenon
  <2>2. \A s \in Sources : batch'[i][s].start <= batch'[i][s].next
    BY <1>1, Zenon DEF HandAt
  <2> QED BY <1>1, <1>3, <1>4, <1>5, <1>6, <2>1, <2>2, Zenon DEF HandAt
<1>8. \A j \in Instances \ {i} : pc'[j] = pc[j]
  BY <1>1, Zenon DEF LoopTypes
<1>9. Grows
  BY <1>1, SameGrows, Zenon
<1> QED BY <1>1, <1>7, <1>8, <1>9, Zenon DEF Kept, Local, LoopTypes

\* PostBatch: what the batch has collected is in the changelog.
LEMMA HandPostBatch ==
  ASSUME SinkInv, LoopTypes, NEW i \in Instances, HandAt(i), PostBatch(i)
  PROVE  Kept(i)
<1>1. /\ pc[i] = "postBatch" /\ pc' = [pc EXCEPT ![i] = "produce"]
      /\ UNCHANGED <<batch, handle, task, overtaken, exposed>>
      /\ changelog' = [t \in Tasks |-> IF task[i][t] = "open"
                         THEN changelog[t] \o collector[i][t] ELSE changelog[t]]
      /\ collector' = [collector EXCEPT ![i] = [t \in Tasks |->
                         IF task[i][t] = "open" THEN <<>> ELSE collector[i][t]]]
  BY Zenon DEF PostBatch, seen
<1>2. \A s \in Sources : handle[i][s] = "none"
  BY <1>1, NoHandle, Zenon
<1>3. pc'[i] = "produce"
  BY <1>1, Zenon DEF LoopTypes
<1>4. Grows
  <2>1. ASSUME NEW t \in Tasks PROVE PrefixOf(changelog[t], changelog'[t])
    <3>1. changelog[t] \in Seq(Recs) /\ collector[i][t] \in Seq(Recs)
      BY Zenon DEF LoopTypes
    <3>2. PrefixOf(changelog[t], changelog[t])
      BY <3>1, PrefixSelf, SeqParts, Zenon
    <3>3. PrefixOf(changelog[t], changelog[t] \o collector[i][t])
      BY <3>1, ConcatPrefix, Zenon
    <3> QED BY <1>1, <3>2, <3>3, Zenon
  <2> QED BY <1>1, <2>1, Zenon DEF Grows
<1>5. ASSUME NEW x \in Inputs, InHand(i, x)' PROVE x \in overtaken'[i] \/ Safe(x)'
  <2>1. InHand(i, x)
    BY <1>1, <1>5, Zenon DEF InHand
  <2>2. x[1] \in Sources /\ x[2] \in Nat /\ TaskOf[x[1]] \in Tasks
    BY InputParts, InputTask, Zenon
  <2>3. batch[i][x[1]].end <= batch[i][x[1]].next
    BY <1>1, <2>2, Zenon DEF HandAt
  <2>4. x[2] < batch[i][x[1]].next
    <3>1. x[2] < batch[i][x[1]].end
      BY <2>1, Zenon DEF InHand
    <3>2. batch[i][x[1]].end \in Int /\ batch[i][x[1]].next \in Int
      BY <2>2, OffsetTypes, Zenon
    <3> QED BY <2>2, <2>3, <3>1, <3>2, BelowNext, Zenon
  <2>5. x \in overtaken[i] \/ Collected(i, x)
    BY <1>1, <2>1, <2>4, Zenon DEF HandAt
  <2>6. ASSUME Collected(i, x) PROVE Safe(x)'
    <3> DEFINE t == TaskOf[x[1]]
    <3>1. task[i][t] = "open" /\ InLog(changelog[t] \o collector[i][t], KeyIn(x), x)
      BY <2>6, Zenon DEF Collected
    <3>2. changelog'[t] = changelog[t] \o collector[i][t]
      BY <1>1, <2>2, <3>1, Zenon
    <3> QED BY <3>1, <3>2, Zenon DEF Safe, KeyIn
  <2> QED BY <1>1, <2>5, <2>6, Zenon
<1>6. HandAt(i)'
  <2>1. \A x \in Inputs : x[1] \in Sources
    BY InputParts, Zenon
  <2> QED BY <1>1, <1>2, <1>3, <1>5, <2>1, Zenon DEF HandAt
<1>7. \A j \in Instances \ {i} : pc'[j] = pc[j] /\ collector'[j] = collector[j]
  BY <1>1, Zenon DEF LoopTypes
<1>8. \A t \in Tasks : changelog'[t] = changelog[t] \/ task[i][t] # "absent"
  BY <1>1, Zenon
<1> QED BY <1>1, <1>4, <1>6, <1>7, <1>8, Zenon DEF Kept, Local, LoopTypes

\* A flush that fails or is cut short takes nothing from a changelog.
LEMMA FlushGrows ==
  ASSUME LoopTypes, NEW i \in Instances, NEW t \in Tasks, UNCHANGED exposed,
         \/ changelog' = [changelog EXCEPT ![t] = changelog[t] \o collector[i][t]]
         \/ \E n \in 0 .. Len(collector[i][t]) :
              changelog' = [changelog EXCEPT ![t] =
                              changelog[t] \o SubSeq(collector[i][t], 1, n)]
  PROVE  Grows /\ \A u \in Tasks : u # t => changelog'[u] = changelog[u]
<1>1. ASSUME NEW u \in Tasks PROVE changelog[u] \in Seq(Recs) /\ collector[i][u] \in Seq(Recs)
  BY DEF LoopTypes
<1>2. \A u \in Tasks : u # t => changelog'[u] = changelog[u]
  BY Zenon DEF LoopTypes
<1>3. PrefixOf(changelog[t], changelog'[t])
  <2>1. CASE changelog' = [changelog EXCEPT ![t] = changelog[t] \o collector[i][t]]
    <3>1. changelog'[t] = changelog[t] \o collector[i][t]
      BY <2>1, Zenon DEF LoopTypes
    <3> QED BY <3>1, <1>1, ConcatPrefix
  <2>2. ASSUME NEW n \in 0 .. Len(collector[i][t]),
               changelog' = [changelog EXCEPT ![t] =
                               changelog[t] \o SubSeq(collector[i][t], 1, n)]
        PROVE  PrefixOf(changelog[t], changelog'[t])
    <3>1. changelog'[t] = changelog[t] \o SubSeq(collector[i][t], 1, n)
      BY <2>2, Zenon DEF LoopTypes
    <3> QED BY <3>1, <1>1, PartPrefix
  <2> QED BY <2>1, <2>2, Zenon
<1>4. \A u \in Tasks : PrefixOf(changelog[u], changelog[u])
  BY <1>1, PrefixSelf, SeqParts, Zenon
<1> QED BY <1>2, <1>3, <1>4, Zenon DEF Grows

\* closeTask takes the task from under the batch: all its inputs are overtaken.
LEMMA HandDrain ==
  ASSUME LoopTypes, NEW i \in Instances, HandAt(i), NEW t \in Tasks,
         CloseTask(i, t) \/ CloseTaskFlushFail(i, t)
  PROVE  Kept(i)
<1> DEFINE O == {x \in BatchInputs(i) : Running(i) /\ TaskOf[x[1]] = t}
<1>1. DrainTask(i, t)
  BY Zenon DEF CloseTask, CloseTaskFlushFail
<1>2. /\ task[i][t] = "open" /\ task' = [task EXCEPT ![i][t] = "closing"]
      /\ collector' = [collector EXCEPT ![i][t] = <<>>]
      /\ overtaken' = [overtaken EXCEPT ![i] = overtaken[i] \cup O]
      /\ UNCHANGED <<pc, batch, handle, exposed>>
  BY <1>1, Zenon DEF DrainTask, Overtake, loop
<1>3. \/ changelog' = [changelog EXCEPT ![t] = changelog[t] \o collector[i][t]]
      \/ \E n \in 0 .. Len(collector[i][t]) :
           changelog' = [changelog EXCEPT ![t] =
                           changelog[t] \o SubSeq(collector[i][t], 1, n)]
  BY Zenon DEF CloseTask, CloseTaskFlushFail
<1>4. Grows /\ \A u \in Tasks : u # t => changelog'[u] = changelog[u]
  BY <1>2, <1>3, FlushGrows, Zenon
<1>5. overtaken'[i] = overtaken[i] \cup O /\ O \subseteq Inputs
  BY <1>2, Zenon DEF LoopTypes, BatchInputs
<1>6. ASSUME NEW x \in Inputs, InHand(i, x), TaskOf[x[1]] = t,
             pc[i] \in {"process", "postBatch"}
      PROVE  x \in O
  BY <1>6, Zenon DEF BatchInputs, InHand, Running
<1> HIDE DEF O
<1>7. ASSUME NEW x \in Inputs, Collected(i, x), InHand(i, x),
             pc[i] \in {"process", "postBatch"}
      PROVE  x \in overtaken'[i] \/ Collected(i, x)'
  <2>1. CASE TaskOf[x[1]] = t
    BY <2>1, <1>5, <1>6, <1>7, Zenon
  <2>2. CASE TaskOf[x[1]] # t
    <3> DEFINE u == TaskOf[x[1]]
    <3>1. u \in Tasks
      BY InputTask, Zenon
    <3>2. /\ task'[i][u] = task[i][u] /\ collector'[i][u] = collector[i][u]
          /\ changelog'[u] = changelog[u]
      BY <2>2, <3>1, <1>2, <1>4, Zenon DEF LoopTypes
    <3> QED BY <3>2, <1>7, CollectedStays, Zenon
  <2> QED BY <2>1, <2>2, Zenon
<1>8. ASSUME NEW x \in Inputs, handle'[i][x[1]] = "live",
             task'[i][TaskOf[x[1]]] = "closing", InHand(i, x)
      PROVE  x \in overtaken'[i]
  <2>1. x[1] \in Sources /\ handle[i][x[1]] = "live" /\ TaskOf[x[1]] \in Tasks
    BY <1>2, <1>8, InputParts, InputTask, Zenon
  <2>2. CASE TaskOf[x[1]] = t
    <3>1. pc[i] = "process"
      BY <2>1, Zenon DEF HandAt
    <3> QED BY <3>1, <2>2, <1>5, <1>6, <1>8, Zenon
  <2>3. CASE TaskOf[x[1]] # t
    <3>1. task[i][TaskOf[x[1]]] = "closing"
      BY <2>1, <2>3, <1>2, <1>8, Zenon DEF LoopTypes
    <3> QED BY <2>1, <3>1, <1>5, <1>8, Zenon DEF HandAt
  <2> QED BY <2>2, <2>3, Zenon
<1>9. HandAt(i)'
  BY <1>2, <1>4, <1>5, <1>7, <1>8, HandKeeps, Zenon
<1>10. \A j \in Instances \ {i} : /\ task'[j] = task[j] /\ collector'[j] = collector[j]
                                 /\ overtaken'[j] = overtaken[j]
  BY <1>2, Zenon DEF LoopTypes
<1>11. overtaken' \in [Instances -> SUBSET Inputs]
  BY <1>2, <1>5, Zenon DEF LoopTypes
<1>12. \A u \in Tasks : changelog'[u] = changelog[u] \/ task[i][u] # "absent"
  BY <1>2, <1>4, Zenon
<1> QED BY <1>2, <1>4, <1>9, <1>10, <1>11, <1>12, Zenon DEF Kept, Local

\* A flush that fails in PostBatch ends the loop.
LEMMA HandFlushFail ==
  ASSUME LoopTypes, NEW i \in Instances, HandAt(i), PostBatchFail(i)
  PROVE  Kept(i)
<1>1. PICK t \in Tasks :
        /\ task[i][t] = "open"
        /\ collector' = [collector EXCEPT ![i][t] = <<>>]
        /\ \E n \in 0 .. Len(collector[i][t]) :
             changelog' = [changelog EXCEPT ![t] =
                             changelog[t] \o SubSeq(collector[i][t], 1, n)]
  BY Zenon DEF PostBatchFail
<1>2. /\ pc[i] = "postBatch" /\ pc' = [pc EXCEPT ![i] = "stopped"]
      /\ overtaken' = [overtaken EXCEPT ![i] = {}]
      /\ UNCHANGED <<batch, handle, task, exposed>>
  BY Zenon DEF PostBatchFail, Stop
<1>3. Grows /\ \A u \in Tasks : u # t => changelog'[u] = changelog[u]
  BY <1>1, <1>2, FlushGrows, Zenon
<1>4. pc'[i] = "stopped" /\ \A s \in Sources : handle'[i][s] = "none"
  BY <1>2, NoHandle, Zenon DEF LoopTypes
<1>5. HandAt(i)'
  BY <1>4, HandOut, Zenon
<1>6. \A j \in Instances \ {i} : /\ pc'[j] = pc[j] /\ collector'[j] = collector[j]
                                /\ overtaken'[j] = overtaken[j]
  BY <1>1, <1>2, Zenon DEF LoopTypes
<1>7. overtaken' \in [Instances -> SUBSET Inputs]
  BY <1>2, Zenon DEF LoopTypes
<1>8. \A u \in Tasks : changelog'[u] = changelog[u] \/ task[i][u] # "absent"
  BY <1>1, <1>3, Zenon
<1> QED BY <1>2, <1>3, <1>5, <1>6, <1>7, <1>8, Zenon DEF Kept, Local

\* A store is closed, or opened: no input of the batch counted on the task.
LEMMA HandOpenClose ==
  ASSUME LoopTypes, NEW i \in Instances, HandAt(i), NEW t \in Tasks,
         CloseStore(i, t) \/ OpenTask(i, t)
  PROVE  Kept(i)
<1>1. UNCHANGED <<pc, batch, changelog, overtaken, exposed>>
  BY Zenon DEF CloseStore, OpenTask, broker, loop, seen
<1>2. /\ task[i][t] # "open"
      /\ \E tk \in {"absent", "open"} : task' = [task EXCEPT ![i][t] = tk]
      /\ collector' = collector \/ collector' = [collector EXCEPT ![i][t] = <<>>]
      /\ \/ handle' = handle
         \/ handle' = [handle EXCEPT ![i] = [s \in Sources |->
              IF TaskOf[s] = t /\ handle[i][s] = "live" THEN "stale" ELSE handle[i][s]]]
  BY Zenon DEF CloseStore, OpenTask, StaleHandles, loop
<1>3. Grows
  BY <1>1, SameGrows, Zenon
<1>4. ASSUME NEW x \in Inputs, Collected(i, x) PROVE Collected(i, x)'
  <2> DEFINE u == TaskOf[x[1]]
  <2>1. u \in Tasks /\ u # t
    BY <1>2, <1>4, InputTask, Zenon DEF Collected
  <2>2. task'[i][u] = task[i][u] /\ collector'[i][u] = collector[i][u]
    BY <1>2, <2>1 DEF LoopTypes
  <2> QED BY <1>1, <1>4, <2>2, CollectedStays, Zenon
<1>5. \A s \in Sources : /\ handle'[i][s] # "none" => handle[i][s] # "none"
                         /\ handle'[i][s] = "live" => handle[i][s] = "live"
  BY <1>2 DEF LoopTypes
<1>6. ASSUME NEW x \in Inputs, handle'[i][x[1]] = "live",
             task'[i][TaskOf[x[1]]] = "closing", InHand(i, x)
      PROVE  x \in overtaken'[i]
  <2>1. handle[i][x[1]] = "live" /\ TaskOf[x[1]] \in Tasks
    BY <1>5, <1>6, InputParts, InputTask, Zenon
  <2>2. task[i][TaskOf[x[1]]] = "closing"
    BY <1>2, <1>6, <2>1 DEF LoopTypes
  <2> QED BY <1>1, <1>6, <2>1, <2>2, Zenon DEF HandAt
<1>7. HandAt(i)'
  BY <1>1, <1>3, <1>4, <1>5, <1>6, HandKeeps, Zenon
<1>8. \A j \in Instances \ {i} : /\ task'[j] = task[j] /\ collector'[j] = collector[j]
                                /\ handle'[j] = handle[j]
  BY <1>2, Zenon DEF LoopTypes
<1> QED BY <1>1, <1>3, <1>7, <1>8, Zenon DEF Kept, Local, LoopTypes

\* A record is processed: it is collected by an open task, or its task is being
\* closed and it has been overtaken.
LEMMA HandExecute ==
  ASSUME SinkInv, LoopTypes, NEW i \in Instances, HandAt(i), NEW s \in Sources,
         Execute(i, s), task[i][TaskOf[s]] # "absent", batch[i][s].next \in Offsets,
         db[i][TaskOf[s]] \in [Keys -> SUBSET Inputs]
  PROVE  Kept(i)
<1> DEFINE t == TaskOf[s]
           o == batch[i][s].next
           k == KeyOf[s][o]
           v == db[i][t][k] \cup {<<s, o>>}
           r == [key |-> k, val |-> v]
           b2 == [batch[i][s] EXCEPT !.next = o + 1]
<1>1. /\ pc[i] = "process" /\ o < batch[i][s].end /\ handle[i][s] = "live"
      /\ collector' = [collector EXCEPT ![i][t] = Append(collector[i][t], r)]
      /\ batch' = [batch EXCEPT ![i] = [batch[i] EXCEPT ![s] = b2]]
      /\ handle' = [handle EXCEPT ![i][s] = "none"]
      /\ UNCHANGED <<pc, task, changelog, overtaken, exposed>>
  BY Zenon DEF Execute, HasNext, broker, seen
<1>2. /\ t \in Tasks /\ k \in Keys /\ <<s, o>> \in Inputs /\ r \in Recs
      /\ r.key = k /\ <<s, o>> \in r.val
  <2>1. t \in Tasks /\ k \in Keys /\ <<s, o>> \in Inputs
    BY RebalanceAssumption DEF Inputs
  <2>2. v \in SUBSET Inputs /\ <<s, o>> \in v
    BY <2>1, Zenon
  <2> HIDE DEF v, k
  <2> QED BY <2>1, <2>2, Zenon DEF Recs
<1>3. /\ o \in Int /\ batch[i][s].start \in Int /\ batch[i][s].end \in Int
      /\ batch[i][s] \in Numbers
  BY OffsetTypes, Zenon DEF LoopTypes
<1>4. b2.start = batch[i][s].start /\ b2.end = batch[i][s].end /\ b2.next = o + 1
  BY <1>3, Zenon DEF Numbers
<1> HIDE DEF r, b2, v
<1>5. ASSUME NEW u \in Sources
      PROVE  batch'[i][u] = IF u = s THEN b2 ELSE batch[i][u]
  BY <1>1, Zenon DEF LoopTypes
<1>6. Grows
  BY <1>1, SameGrows, Zenon
<1>7. ASSUME NEW u \in Sources, handle'[i][u] # "none"
      PROVE  u # s /\ handle'[i][u] = handle[i][u] /\ batch'[i][u] = batch[i][u]
  BY <1>1, <1>5, <1>7, Zenon DEF LoopTypes
<1>8. ASSUME NEW x \in Inputs PROVE InHand(i, x)' <=> InHand(i, x)
  <2>1. x[1] \in Sources
    BY InputParts, Zenon
  <2> QED BY <1>4, <1>5, <2>1, Zenon DEF InHand
<1>9. ASSUME NEW x \in Inputs
      PROVE  /\ Collected(i, x) => Collected(i, x)'
             /\ x = <<s, o>> /\ task[i][t] = "open" => Collected(i, x)'
  <2>1. TaskOf[x[1]] \in Tasks
    BY InputTask, Zenon
  <2>2. CASE TaskOf[x[1]] # t
    <3>1. collector'[i][TaskOf[x[1]]] = collector[i][TaskOf[x[1]]]
      BY <1>1, <2>1, <2>2, Zenon DEF LoopTypes
    <3>2. x # <<s, o>>
      BY <2>2
    <3> QED BY <1>1, <3>1, <3>2, CollectedStays, Zenon
  <2>3. CASE TaskOf[x[1]] = t
    <3> DEFINE log == changelog[t]
               col == collector[i][t]
    <3>1. log \in Seq(Recs) /\ col \in Seq(Recs)
      BY <1>2, Zenon DEF LoopTypes
    <3>2. collector'[i][t] = Append(col, r) /\ changelog'[t] = log
          /\ task'[i][t] = task[i][t]
      BY <1>1, <1>2, Zenon DEF LoopTypes
    <3> HIDE DEF log, col
    <3>3. log \o col \in Seq(Recs) /\ log \o Append(col, r) = Append(log \o col, r)
      <4>1. r \in Recs
        BY <1>2, Zenon
      <4> QED BY <3>1, <4>1, ConcatAppend
    <3>4. /\ InLog(log \o col, KeyIn(x), x) => InLog(log \o Append(col, r), KeyIn(x), x)
          /\ InLog(log \o Append(col, r), k, <<s, o>>)
      BY <3>3, <1>2, AppendInLog, Zenon
    <3>5. Collected(i, x) => Collected(i, x)'
      BY <2>3, <3>2, <3>4, Zenon DEF Collected, KeyIn, log, col
    <3>6. ASSUME x = <<s, o>>, task[i][t] = "open" PROVE Collected(i, x)'
      <4>1. KeyIn(x) = k
        BY <3>6, Zenon DEF KeyIn
      <4>2. task'[i][t] = "open" /\ InLog(changelog'[t] \o collector'[i][t], KeyIn(x), x)
        BY <3>2, <3>4, <3>6, <4>1, Zenon
      <4> QED BY <2>3, <4>2, Zenon DEF Collected, KeyIn
    <3> QED BY <3>5, <3>6, Zenon
  <2> QED BY <2>2, <2>3, Zenon
<1>10. ASSUME NEW x \in Inputs, InHand(i, x)', x[2] < batch'[i][x[1]].next
       PROVE  x \in overtaken'[i] \/ Collected(i, x)'
  <2>1. x[1] \in Sources /\ x[2] \in Nat /\ InHand(i, x)
    BY InputParts, <1>8, <1>10, Zenon
  <2>2. CASE x[2] < batch[i][x[1]].next
    BY <1>1, <1>9, <2>1, <2>2, Zenon DEF HandAt
  <2>3. CASE ~(x[2] < batch[i][x[1]].next)
    <3>1. x[1] = s /\ x[2] = o
      <4>1. x[1] = s
        BY <1>5, <1>10, <2>1, <2>3, Zenon
      <4>2. x[2] < o + 1 /\ ~(x[2] < o)
        BY <1>4, <1>5, <1>10, <2>3, <4>1, Zenon
      <4>3. x[2] \in Int /\ o \in Int
        BY <1>3, <2>1
      <4> HIDE DEF o
      <4>4. x[2] = o
        BY <4>2, <4>3
      <4> QED BY <4>1, <4>4, Zenon
    <3>2. x = <<s, o>>
      BY <3>1 DEF Inputs
    <3>3. CASE task[i][t] = "open"
      BY <1>9, <3>2, <3>3, Zenon
    <3>4. CASE task[i][t] # "open"
      <4>1. task[i][t] = "closing"
        BY <3>4, <1>2, Zenon DEF LoopTypes, TaskStates
      <4>2. x \in overtaken[i]
        BY <1>1, <2>1, <3>1, <4>1, Zenon DEF HandAt
      <4> QED BY <1>1, <4>2, Zenon
    <3> QED BY <3>3, <3>4, Zenon
  <2> QED BY <2>2, <2>3, Zenon
<1>11. ASSUME NEW u \in Sources PROVE batch'[i][u].start <= batch'[i][u].next
  <2>1. batch[i][u].start <= batch[i][u].next
    BY <1>1, Zenon DEF HandAt
  <2> QED BY <1>3, <1>4, <1>5, <2>1
<1>12. ASSUME NEW x \in Inputs, handle'[i][x[1]] = "live",
              task'[i][TaskOf[x[1]]] = "closing", InHand(i, x)'
       PROVE  x \in overtaken'[i]
  <2>1. x[1] \in Sources /\ handle[i][x[1]] = "live"
    BY <1>7, <1>12, InputParts, Zenon
  <2> QED BY <1>1, <1>8, <1>12, <2>1, Zenon DEF HandAt
<1>13. ASSUME NEW u \in Sources, handle'[i][u] # "none"
       PROVE  pc'[i] = "process" /\ batch'[i][u].next < batch'[i][u].end
  BY <1>1, <1>7, <1>13, Zenon DEF HandAt
<1>14. HandAt(i)'
  BY <1>1, <1>10, <1>11, <1>12, <1>13, Zenon DEF HandAt
<1>15. \A j \in Instances \ {i} : /\ batch'[j] = batch[j] /\ handle'[j] = handle[j]
                                 /\ collector'[j] = collector[j]
  BY <1>1, Zenon DEF LoopTypes
<1> QED BY <1>1, <1>6, <1>14, <1>15, Zenon DEF Kept, Local, LoopTypes

\* A calm step commits, and fetches on from, only what is safe.
LEMMA SafeCalm ==
  ASSUME SinkInv, OffsetsSafe, Calm, Grows
  PROVE  OffsetsSafe'
<1>1. ASSUME NEW x \in Inputs, x[2] < committed'[x[1]] PROVE Safe(x)'
  <2>1. x[1] \in Sources /\ x[2] \in Nat
    BY InputParts, Zenon
  <2>2. CASE committed'[x[1]] = committed[x[1]]
    <3>1. Safe(x)
      BY <1>1, <2>2, Zenon DEF OffsetsSafe
    <3> QED BY <3>1, SafeStays, Zenon
  <2>3. CASE \E i \in Instances : committed'[x[1]] = pending[i][x[1]] + 1
    <3>1. PICK i \in Instances : committed'[x[1]] = pending[i][x[1]] + 1
      BY <2>3, Zenon
    <3>2. pending[i][x[1]] \in Int
      BY <2>1, OffsetTypes, Zenon
    <3>3. x[2] <= pending[i][x[1]]
      BY <1>1, <2>1, <3>1, <3>2
    <3>4. Safe(x)
      BY <3>3, Zenon DEF OffsetsSafe
    <3> QED BY <3>4, SafeStays, Zenon
  <2> QED BY <2>1, <2>2, <2>3, Zenon DEF Calm
<1>2. ASSUME NEW i \in Instances, NEW x \in Inputs
      PROVE  /\ x[2] <= pending'[i][x[1]] => Safe(x)'
             /\ x[2] < batch'[i][x[1]].start => Safe(x)'
             /\ x[2] < position'[i][x[1]] => Safe(x)' \/ x[2] < batch'[i][x[1]].end
  <2> DEFINE s == x[1]
             o == x[2]
  <2>1. s \in Sources /\ o \in Nat
    BY InputParts, Zenon
  <2>2. Safe(x) => Safe(x)'
    BY SafeStays, Zenon
  <2>3. /\ o <= pending[i][s] => Safe(x)
        /\ o < batch[i][s].start => Safe(x)
        /\ o < position[i][s] => Safe(x) \/ o < batch[i][s].end
        /\ o < committed[s] => Safe(x)
    BY Zenon DEF OffsetsSafe
  <2>4. /\ pending'[i][s] = pending[i][s] \/ pending'[i][s] = -1
        /\ \/ position'[i][s] = -1
           \/ position'[i][s] = committed[s]
           \/ position'[i][s] = position[i][s] /\ batch'[i][s].end = batch[i][s].end
        /\ batch'[i][s].start = 0 \/ batch'[i][s].start = batch[i][s].start
    BY <2>1, Zenon DEF Calm
  <2>5. ~(o <= -1) /\ ~(o < -1) /\ ~(o < 0)
    BY <2>1
  <2> QED BY <2>2, <2>3, <2>4, <2>5, Zenon
<1> QED BY <1>1, <1>2, Zenon DEF OffsetsSafe

\* A batch begins at a position all before which is safe.
LEMMA SafePoll ==
  ASSUME SinkInv, LoopTypes, OffsetsSafe, Grows, NEW i \in Instances, Poll(i)
  PROVE  OffsetsSafe'
<1>1. PICK end \in [Sources -> 0 .. End] :
        /\ \A s \in Sources :
             IF position[i][s] = -1 THEN end[s] = 0 ELSE position[i][s] <= end[s]
        /\ batch' = [batch EXCEPT ![i] = [s \in Sources |->
             IF position[i][s] = -1 THEN NoBatch
             ELSE [start |-> position[i][s], next |-> position[i][s],
                   end |-> end[s]]]]
        /\ position' = [position EXCEPT ![i] = [s \in Sources |->
             IF position[i][s] = -1 THEN -1 ELSE end[s]]]
  BY Zenon DEF Poll
<1>2. pc[i] = "poll" /\ UNCHANGED <<committed, pending>>
  BY Zenon DEF Poll, broker
<1>3. /\ position \in [Instances -> [Sources -> Int]]
      /\ batch \in [Instances -> [Sources -> Numbers]]
  BY Zenon DEF SinkInv
<1>4. ASSUME NEW j \in Instances, NEW x \in Inputs
      PROVE  /\ x[2] < batch'[j][x[1]].start => Safe(x)'
             /\ x[2] < position'[j][x[1]] => Safe(x)' \/ x[2] < batch'[j][x[1]].end
  <2> DEFINE s == x[1]
  <2>1. s \in Sources /\ x[2] \in Nat
    BY InputParts, Zenon
  <2>2. /\ x[2] < batch[j][s].start => Safe(x)
        /\ x[2] < position[j][s] => Safe(x) \/ x[2] < batch[j][s].end
    BY Zenon DEF OffsetsSafe
  <2>3. Safe(x) => Safe(x)'
    BY SafeStays, Zenon
  <2>4. CASE j # i
    <3>1. batch'[j] = batch[j] /\ position'[j] = position[j]
      BY <1>1, <1>3, <2>4, Zenon
    <3> QED BY <2>2, <2>3, <3>1, Zenon
  <2>5. CASE j = i
    <3>1. batch[i][s].end = 0 /\ position[i][s] \in Int /\ end[s] \in Int
      <4>1. batch[i][s].end = 0
        BY <1>2, <2>1, Zenon DEF SinkInv, Emptied
      <4>2. end[s] \in 0 .. End /\ End \in Nat
        BY <1>1, <2>1, RebalanceAssumption, Zenon
      <4>3. end[s] \in Int
        BY <4>2
      <4> QED BY <2>1, <4>1, <4>3, OffsetTypes, Zenon
    <3>2. x[2] < position[i][s] => Safe(x)
      BY <2>1, <2>2, <2>5, <3>1
    <3>3. CASE position[i][s] = -1
      <4>1. position'[i][s] = -1 /\ batch'[i][s] = NoBatch
        BY <1>1, <1>3, <2>1, <3>3, Zenon
      <4> QED BY <2>1, <2>5, <4>1 DEF NoBatch
    <3>4. CASE position[i][s] # -1
      <4>1. /\ position'[i][s] = end[s]
            /\ batch'[i][s] = [start |-> position[i][s], next |-> position[i][s],
                               end |-> end[s]]
        BY <1>1, <1>3, <2>1, <3>4, Zenon
      <4> QED BY <2>3, <2>5, <3>2, <4>1
    <3> QED BY <3>3, <3>4, Zenon
  <2> QED BY <2>4, <2>5, Zenon
<1>5. \A j \in Instances, x \in Inputs : x[2] <= pending'[j][x[1]] => Safe(x)'
  BY <1>2, SafeStays, Zenon DEF OffsetsSafe
<1>6. \A x \in Inputs : x[2] < committed'[x[1]] => Safe(x)'
  BY <1>2, SafeStays, Zenon DEF OffsetsSafe
<1> QED BY <1>4, <1>5, <1>6, Zenon DEF OffsetsSafe

\* The offsets of a batch become pending: each input of it is in the changelog,
\* or was overtaken and is now exposed.
LEMMA SafeProduce ==
  ASSUME SinkInv, LoopTypes, OffsetsSafe, Grows, NEW i \in Instances, HandAt(i),
         Produce(i)
  PROVE  OffsetsSafe'
<1>1. /\ pc[i] = "produce" /\ exposed' = exposed \cup overtaken[i]
      /\ pending' = [pending EXCEPT ![i] = [s \in Sources |-> Added(i, s)]]
      /\ batch' = [batch EXCEPT ![i] = [s \in Sources |-> NoBatch]]
      /\ UNCHANGED <<committed, position>>
  BY Zenon DEF Produce
<1>2. /\ pending \in [Instances -> [Sources -> Int]]
      /\ batch \in [Instances -> [Sources -> Numbers]]
  BY Zenon DEF SinkInv
<1>3. ASSUME NEW x \in Inputs, x[2] < batch[i][x[1]].end PROVE Safe(x)'
  <2>1. x[1] \in Sources /\ x[2] \in Nat
    BY InputParts, Zenon
  <2>2. CASE x[2] < batch[i][x[1]].start
    <3>1. Safe(x)
      BY <2>2, Zenon DEF OffsetsSafe
    <3> QED BY <3>1, SafeStays, Zenon
  <2>3. CASE batch[i][x[1]].start <= x[2]
    <3>1. x \in overtaken[i] \/ Safe(x)
      BY <1>1, <1>3, <2>3, Zenon DEF HandAt, InHand
    <3>2. CASE x \in overtaken[i]
      BY <1>1, <3>2, Zenon DEF Safe
    <3>3. CASE Safe(x)
      BY <3>3, SafeStays, Zenon
    <3> QED BY <3>1, <3>2, <3>3, Zenon
  <2>4. batch[i][x[1]].start \in Int
    BY <2>1, OffsetTypes, Zenon
  <2>5. \A m, n \in Int : m < n \/ n <= m
    OBVIOUS
  <2>6. x[2] \in Int
    BY <2>1
  <2> QED BY <2>2, <2>3, <2>4, <2>5, <2>6, Zenon
<1>4. ASSUME NEW j \in Instances, NEW x \in Inputs
      PROVE  /\ x[2] <= pending'[j][x[1]] => Safe(x)'
             /\ x[2] < batch'[j][x[1]].start => Safe(x)'
             /\ x[2] < position'[j][x[1]] => Safe(x)' \/ x[2] < batch'[j][x[1]].end
  <2> DEFINE s == x[1]
  <2>1. s \in Sources /\ x[2] \in Nat
    BY InputParts, Zenon
  <2>2. /\ x[2] <= pending[j][s] => Safe(x)
        /\ x[2] < batch[j][s].start => Safe(x)
        /\ x[2] < position[j][s] => Safe(x) \/ x[2] < batch[j][s].end
    BY Zenon DEF OffsetsSafe
  <2>3. Safe(x) => Safe(x)'
    BY SafeStays, Zenon
  <2>4. CASE j # i
    <3>1. pending'[j] = pending[j] /\ batch'[j] = batch[j]
      BY <1>1, <1>2, <2>4, Zenon
    <3> QED BY <1>1, <2>2, <2>3, <3>1, Zenon
  <2>5. CASE j = i
    <3>1. pending'[i][s] = Added(i, s) /\ batch'[i][s] = NoBatch
      BY <1>1, <1>2, <2>1, Zenon
    <3>2. batch[i][s].end \in Int /\ pending[i][s] \in Int
      BY <2>1, OffsetTypes, Zenon
    <3>3. Added(i, s) = pending[i][s] \/ Added(i, s) = batch[i][s].end - 1
      BY Zenon DEF Added
    <3>4. x[2] <= Added(i, s) => Safe(x)'
      BY <1>3, <2>1, <2>2, <2>3, <2>5, <3>2, <3>3
    <3>5. batch'[i][s].start = 0 /\ ~(x[2] < 0)
      BY <2>1, <3>1 DEF NoBatch
    <3>6. x[2] < position[i][s] => Safe(x)'
      BY <1>3, <2>2, <2>3, <2>5, Zenon
    <3> QED BY <1>1, <2>5, <3>1, <3>4, <3>5, <3>6, Zenon
  <2> QED BY <2>4, <2>5, Zenon
<1>5. \A x \in Inputs : x[2] < committed'[x[1]] => Safe(x)'
  BY <1>1, SafeStays, Zenon DEF OffsetsSafe
<1> QED BY <1>4, <1>5, Zenon DEF OffsetsSafe

\* Every step shows what it has to.
LEMMA StepKept ==
  ASSUME TaskInv, LoopTypes, NEW i \in Instances, HandAt(i),
         \/ \E S \in SUBSET Sources : Assign(i, S)
         \/ Progress(i) \/ Disruption(i)
  PROVE  Kept(i)
<1>1. SinkInv /\ RangeInv /\ StoreInv
  BY Zenon DEF TaskInv
<1>2. ASSUME NEW s \in Sources, Execute(i, s) PROVE Kept(i)
  <2>1. batch[i][s].next < batch[i][s].end /\ handle[i][s] = "live"
    BY <1>2, Zenon DEF Execute, HasNext
  <2>2. batch[i][s].next \in Int /\ batch[i][s].end \in Int
    BY <1>1, OffsetTypes, Zenon
  <2>3. batch[i][s].next >= 0 /\ batch[i][s].end <= End
    BY <1>1, Zenon DEF RangeInv
  <2>4. batch[i][s].next \in Offsets
    BY <2>1, <2>2, <2>3, RebalanceAssumption DEF Offsets
  <2>5. TaskOf[s] \in Tasks
    BY RebalanceAssumption, Zenon
  <2>6. task[i][TaskOf[s]] # "absent" /\ db[i][TaskOf[s]] \in [Keys -> SUBSET Inputs]
    BY <1>1, <2>1, <2>5, Zenon DEF StoreInv, StoreTypes
  <2> QED BY <1>1, <1>2, <2>4, <2>6, HandExecute, Zenon
<1>3. ASSUME NEW s \in Sources,
             LookUp(i, s) \/ NoTask(i, s) \/ ExecuteClosed(i, s) \/ ExecutePanics(i, s)
      PROVE  Kept(i)
  BY <1>3, HandHandle, HandFresh, Zenon
<1>4. ASSUME NEW t \in Tasks,
             \/ CloseTask(i, t) \/ CloseTaskFlushFail(i, t) \/ CloseStore(i, t)
             \/ CloseNothing(i, t) \/ OpenTask(i, t) \/ OpenTaskFail(i, t)
      PROVE  Kept(i)
  BY <1>4, HandDrain, HandOpenClose, HandGroup, Zenon
<1>5. ASSUME \/ \E S \in SUBSET Sources : Revoke(i, S) \/ Assign(i, S)
             \/ RevokeDone(i) \/ RevokeDoneUncommitted(i) \/ AssignDone(i)
      PROVE  Kept(i)
  BY <1>5, HandGroup, Zenon
<1>6. ASSUME \/ BatchFailed(i) \/ Produce(i) \/ ProduceFail(i) \/ Commit(i) \/ NotDue(i)
             \/ CommitFail(i) \/ Shutdown(i) \/ Close(i)
      PROVE  Kept(i)
  BY <1>6, HandLeave, Zenon
<1>7. ASSUME Poll(i) \/ ProcessDone(i) \/ PostBatch(i) \/ PostBatchFail(i)
      PROVE  Kept(i)
  BY <1>1, <1>7, HandPoll, HandDone, HandPostBatch, HandFlushFail, Zenon
<1>8. ASSUME Crash(i) \/ Exit(i) PROVE Kept(i)
  BY <1>8, HandFresh, Zenon
<1> QED BY <1>2, <1>3, <1>4, <1>5, <1>6, <1>7, <1>8, Zenon DEF Progress, Disruption

\* Every step keeps the invariant.
LEMMA LossStep ==
  ASSUME OneSourcePerTask, TaskInv, LossInv, [Next]_vars
  PROVE  LossInv'
<1>1. SinkInv /\ OwnerInv /\ StoreInv /\ OneWriter
  BY OwnersApart, Zenon DEF TaskInv
<1>2. LoopTypes
  BY <1>1, Zenon DEF LoopTypes, SinkInv, OwnerInv, StoreInv, StoreTypes, LossInv
<1>3. OffsetsSafe /\ \A i \in Instances : HandAt(i)
  BY Zenon DEF LossInv
<1>4. CASE UNCHANGED vars
  <2>1. UNCHANGED <<pc, position, batch, handle, task, collector, changelog,
                    overtaken, exposed, committed, pending>>
    BY <1>4, Zenon DEF vars, broker, loop, seen
  <2>2. Grows
    BY <1>2, <2>1, SameGrows, Zenon
  <2>3. OffsetsSafe'
    BY <2>1, <1>3, Zenon DEF OffsetsSafe, Safe, KeyIn
  <2>4. ASSUME NEW i \in Instances PROVE HandAt(i)'
    BY <2>1, <1>3, Zenon DEF HandAt, InHand, Collected, Safe, KeyIn
  <2> QED BY <2>1, <2>3, <2>4, Zenon DEF LossInv
<1>5. ASSUME NEW i \in Instances,
             \/ \E S \in SUBSET Sources : Assign(i, S)
             \/ Progress(i) \/ Disruption(i)
      PROVE  LossInv'
  <2>1. Kept(i)
    BY <1>2, <1>3, <1>5, StepKept, Zenon
  <2>2. Grows /\ Local(i) /\ HandAt(i)' /\ overtaken' \in [Instances -> SUBSET Inputs]
    BY <2>1, Zenon DEF Kept
  <2>3. ASSUME NEW j \in Instances PROVE HandAt(j)'
    BY <1>1, <1>3, <2>2, HandOther, Zenon
  <2>4. Calm \/ \E j \in Instances : Poll(j) \/ Produce(j)
    BY <1>1, StepKinds, Zenon DEF AnyStep
  <2>5. OffsetsSafe'
    BY <1>1, <1>2, <1>3, <2>2, <2>4, SafeCalm, SafePoll, SafeProduce, Zenon
  <2> QED BY <2>2, <2>3, <2>5, Zenon DEF LossInv
<1> QED BY <1>4, <1>5, Zenon DEF Next, AssignSome

\* At the start nothing is committed, pending or in hand.
LEMMA LossInit == Init => LossInv
<1> SUFFICES ASSUME Init PROVE LossInv
  BY Zenon
<1>1. \A x \in Inputs : x[1] \in Sources /\ x[2] \in Nat
  BY InputParts, Zenon
<1>2. OffsetsSafe
  BY <1>1 DEF Init, OffsetsSafe, NoBatch
<1>3. \A i \in Instances : HandAt(i)
  BY <1>1, Zenon DEF Init, HandAt
<1> QED BY <1>2, <1>3, Zenon DEF Init, LossInv

\* Below a committed offset the changelog holds every fold, but for the inputs
\* of a batch whose task the revocation callback closed under the loop:
\* whatever moves, failures, shutdowns and crashes happen, that one window of
\* runALO is the only way a committed input is lost from the state.
THEOREM OnlyOvertakenLost ==
  ASSUME OneSourcePerTask
  PROVE  Spec => []LossOnlyWhenOvertaken
<1> DEFINE I == TaskInv /\ LossInv
<1>1. Init => I
  BY OneSourcePerTask, TaskInvariant, LossInit, Zenon
<1>2. I /\ [Next]_vars => I'
  BY OneSourcePerTask, TaskInvariant, LossStep, Zenon
<1>3. I => LossOnlyWhenOvertaken
  <2> SUFFICES ASSUME TaskInv, LossInv, NEW x \in Inputs, Committed(x)
               PROVE  IsDurable(x) \/ x \in exposed
    BY Zenon DEF LossOnlyWhenOvertaken
  <2>1. Safe(x)
    BY Zenon DEF LossInv, OffsetsSafe, Committed
  <2>2. TaskOf[x[1]] \in Tasks /\ KeyIn(x) \in Keys
    BY InputTask, Zenon
  <2>3. InLog(changelog[TaskOf[x[1]]], KeyIn(x), x) => IsDurable(x)
    BY <2>2, DurableMeans, Zenon DEF TaskInv, IsDurable, KeyIn
  <2> QED BY <2>1, <2>3, Zenon DEF Safe
<1> HIDE DEF I
<1> QED BY <1>1, <1>2, <1>3, PTL DEF Spec
============================================================================
