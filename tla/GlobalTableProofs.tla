------------------------- MODULE GlobalTableProofs -------------------------
(***************************************************************************)
(* Proofs about GlobalTable, for any keys, partitions, lengths of the      *)
(* topic and number of faults: the run loop starts on a complete table,    *)
(* the tail goroutine never writes to a closed store, a table that has     *)
(* applied all that was delivered matches its topic, and joins go back in  *)
(* time only while a newer record is on its way.                           *)
(***************************************************************************)
EXTENDS GlobalTable, TLAPS

Entry == [key : Keys \cup {NoKey}, live : BOOLEAN]

\* Every record of p below the high watermark of Bootstrap is delivered.
CaughtUp(p) == \A o \in Undelivered(p) : o >= hwm[p]

\* The inductive invariant: a partition in done stays caught up, and the loop
\* runs only between the end of Bootstrap and the end of the process.
StartInv ==
  /\ log \in [Partitions -> Seq(Entry)]
  /\ hwm \in [Partitions -> Nat]
  /\ pos \in [Partitions -> Nat]
  /\ done \subseteq Partitions
  /\ \A p \in Partitions : hwm[p] <= Len(log[p])
  /\ \A p \in done : CaughtUp(p)
  /\ phase \in {"new", "bootstrap"} => loop = "off" /\ tail = "off"
  /\ loop # "off" => done = Partitions
  /\ phase \in {"running", "closing"} => done = Partitions
  /\ phase \in {"closing", "closed"} => loop \in {"off", "stopped"}
  /\ phase = "closed" => tail \in {"off", "stopped"}

\* One or two elements make a sequence: the entries of a write.
LEMMA ShortSeq ==
  ASSUME NEW S, NEW x \in S, NEW y \in S
  PROVE  <<x>> \in Seq(S) /\ <<x, y>> \in Seq(S)
OBVIOUS

\* A write leaves the entries before it where they are.
LEMMA AppendKeeps ==
  ASSUME NEW S, NEW s \in Seq(S), NEW t \in Seq(S), NEW n \in 1 .. Len(s)
  PROVE  (s \o t)[n] = s[n]
OBVIOUS

\* The entries that one write to the topic adds are entries of a log.
LEMMA WrittenType ==
  ASSUME NEW k \in Keys, NEW live \in BOOLEAN, NEW entries \in Written(k, live)
  PROVE  entries \in Seq(Entry)
<1> DEFINE e == [key |-> k, live |-> live]
<1>1. e \in Entry /\ Hole \in Entry
  BY Zenon DEF Entry, Hole
<1>2. entries = <<e>> \/ entries = <<e, Hole>> \/ entries = <<Hole, Hole>>
  BY Zenon DEF Written
<1> HIDE DEF e
<1> QED BY <1>1, <1>2, ShortSeq, Zenon

\* Appending to a partition leaves its caught-up partitions caught up: what is
\* new lies at or past the high watermark.
LEMMA ProduceKeepsCaughtUp ==
  ASSUME StartInv, NEW k \in Keys, NEW live \in BOOLEAN, Produce(k, live)
  PROVE  StartInv'
<1> DEFINE q == PartitionOf[k]
<1>1. PICK entries \in Written(k, live) :
        /\ log' = [log EXCEPT ![q] = log[q] \o entries]
        /\ UNCHANGED <<db, phase, consumer, tailing, running, faults>>
  BY Zenon DEF Produce
<1>2. q \in Partitions /\ entries \in Seq(Entry)
  BY WrittenType, GlobalAssumption, Zenon
<1>3. log \in [Partitions -> Seq(Entry)] /\ log[q] \in Seq(Entry)
  BY <1>2, Zenon DEF StartInv
<1>4. log[q] \o entries \in Seq(Entry)
  BY <1>2, <1>3
<1>5. log' \in [Partitions -> Seq(Entry)]
  BY <1>1, <1>3, <1>4, Zenon
<1>6. Len(log[q] \o entries) = Len(log[q]) + Len(entries) /\ Len(entries) \in Nat
      /\ Len(log[q]) \in Nat
  BY <1>2, <1>3
<1>7. \A p \in Partitions : log'[p] = IF p = q THEN log[q] \o entries ELSE log[p]
  BY <1>1, <1>3, Zenon
<1>8. \A p \in Partitions : hwm'[p] <= Len(log'[p])
  BY <1>1, <1>2, <1>6, <1>7 DEF StartInv, consumer
<1>9. ASSUME NEW p \in done, NEW o \in Undelivered(p)'
      PROVE  o >= hwm[p]
  <2>1. p \in Partitions /\ hwm[p] \in Nat /\ pos[p] \in Nat /\ pos' = pos
    BY <1>1, Zenon DEF StartInv, consumer
  <2>2. log[p] \in Seq(Entry) /\ Len(log[p]) \in Nat /\ hwm[p] <= Len(log[p])
    BY <2>1 DEF StartInv
  <2>3. o \in Int /\ o >= pos[p] /\ o < Len(log'[p]) /\ log'[p][o + 1] # Hole
    BY <2>1, <1>5, <1>6, <1>7, <2>2 DEF Undelivered
  <2>4. CASE o >= Len(log[p])
    BY <2>1, <2>2, <2>3, <2>4
  <2>5. CASE o < Len(log[p])
    <3>1. log'[p][o + 1] = log[p][o + 1]
      <4>1. o + 1 \in 1 .. Len(log[p])
        BY <2>1, <2>2, <2>3, <2>5
      <4>2. CASE p = q
        <5>1. (log[q] \o entries)[o + 1] = log[q][o + 1]
          BY <4>1, <4>2, <1>2, <1>3, AppendKeeps, Zenon
        <5>2. log'[p] = log[q] \o entries
          BY <1>7, <2>1, <4>2, Zenon
        <5> HIDE DEF q
        <5> QED BY <5>1, <5>2, <4>2, Zenon
      <4>3. CASE p # q
        <5>1. log'[p] = log[p]
          BY <1>7, <2>1, <4>3, Zenon
        <5> QED BY <5>1, Zenon
      <4> QED BY <4>2, <4>3, Zenon
    <3>2. o \in Undelivered(p)
      BY <2>1, <2>2, <2>3, <2>5, <3>1 DEF Undelivered
    <3> QED BY <3>2, Zenon DEF StartInv, CaughtUp
  <2> QED BY <2>2, <2>3, <2>4, <2>5
<1>10. \A p \in done' : CaughtUp(p)'
  BY <1>1, <1>9, Zenon DEF CaughtUp, consumer
<1> QED
  BY <1>1, <1>5, <1>8, <1>10, Zenon DEF StartInv, consumer, tailing, running

\* Compaction only takes records away from what is undelivered.
LEMMA CompactKeepsCaughtUp ==
  ASSUME StartInv, NEW q \in Partitions, NEW n \in 1 .. Len(log[q]), Compact(q, n)
  PROVE  StartInv'
<1>1. /\ log' = [log EXCEPT ![q] = [log[q] EXCEPT ![n] = Hole]]
      /\ UNCHANGED <<db, phase, consumer, tailing, running, faults>>
  BY Zenon DEF Compact
<1>2. log \in [Partitions -> Seq(Entry)] /\ log[q] \in Seq(Entry) /\ Hole \in Entry
  BY Zenon DEF StartInv, Entry, Hole
<1>3. /\ [log[q] EXCEPT ![n] = Hole] \in Seq(Entry)
      /\ Len([log[q] EXCEPT ![n] = Hole]) = Len(log[q])
  BY <1>2
<1>4. log' \in [Partitions -> Seq(Entry)]
  BY <1>1, <1>2, <1>3, Zenon
<1>5. \A p \in Partitions : Len(log'[p]) = Len(log[p])
  BY <1>1, <1>2, <1>3, Zenon
<1>6. \A p \in Partitions : \A m \in 1 .. Len(log[p]) :
        log'[p][m] = log[p][m] \/ log'[p][m] = Hole
  BY <1>1, <1>2
<1>7. \A p \in Partitions : Undelivered(p)' \subseteq Undelivered(p)
  <2> SUFFICES ASSUME NEW p \in Partitions, NEW o \in Undelivered(p)'
               PROVE  o \in Undelivered(p)
    BY Zenon
  <2>1. pos' = pos /\ pos[p] \in Nat /\ Len(log[p]) \in Nat
    BY <1>1, <1>2 DEF consumer, StartInv
  <2>2. o \in pos[p] .. Len(log[p]) - 1 /\ log'[p][o + 1] # Hole
    BY <2>1, <1>5, Zenon DEF Undelivered
  <2>3. o + 1 \in 1 .. Len(log[p])
    BY <2>1, <2>2
  <2> QED BY <1>6, <2>2, <2>3, Zenon DEF Undelivered
<1>8. \A p \in done' : CaughtUp(p)'
  BY <1>1, <1>7, Zenon DEF CaughtUp, StartInv, consumer
<1> QED
  BY <1>1, <1>4, <1>5, <1>8, Zenon DEF StartInv, consumer, tailing, running

\* Delivering records of a partition leaves fewer of them undelivered.
LEMMA DeliveredShrinks ==
  ASSUME StartInv, NEW q \in Partitions, NEW o \in Undelivered(q),
         Delivered(q, o), log' = log, hwm' = hwm
  PROVE  /\ pos' \in [Partitions -> Nat]
         /\ \A p \in Partitions : CaughtUp(p) => CaughtUp(p)'
         /\ \A u \in Undelivered(q)' : u > o
<1>1. pos \in [Partitions -> Nat] /\ pos[q] \in Nat /\ Len(log[q]) \in Nat
  BY DEF StartInv
<1>2. o \in Nat /\ o >= pos[q]
  BY <1>1 DEF Undelivered
<1>3. pos' = [pos EXCEPT ![q] = o + 1]
  BY Zenon DEF Delivered
<1>4. pos' \in [Partitions -> Nat] /\ pos'[q] = o + 1
      /\ \A p \in Partitions : pos'[p] >= pos[p] /\ pos[p] \in Nat /\ pos'[p] \in Nat
  BY <1>1, <1>2, <1>3
<1>5. \A p \in Partitions : Len(log[p]) \in Nat
  BY DEF StartInv
<1>6. \A p \in Partitions : Undelivered(p)' \subseteq Undelivered(p)
  BY <1>4, <1>5 DEF Undelivered
<1>7. \A u \in Undelivered(q)' : u > o
  BY <1>2, <1>4, <1>5 DEF Undelivered
<1> QED BY <1>4, <1>6, <1>7, Zenon DEF CaughtUp

\* The inductive invariant holds at the start.
LEMMA StartInvInit == Init => StartInv
<1> SUFFICES ASSUME Init PROVE StartInv
  BY Zenon
<1>1. log \in [Partitions -> Seq(Entry)] /\ \A p \in Partitions : Len(log[p]) = 0
  BY DEF Init
<1> QED BY <1>1 DEF Init, StartInv

\* A process that ends forgets the offsets of its client.
LEMMA NoProcessInv ==
  ASSUME StartInv, NoProcess, log' = log, phase' \in {"new", "closed"}
  PROVE  StartInv'
<1>1. \A p \in Partitions : Len(log[p]) \in Nat
  BY DEF StartInv
<1> QED BY <1>1 DEF StartInv, NoProcess

\* Steps that leave topic, client and done alone keep the invariant when they
\* respect the order of start and close.
LEMMA FrameInv ==
  ASSUME StartInv, UNCHANGED <<log, hwm, done, pos>>,
         phase' \in {"new", "bootstrap"} => loop' = "off" /\ tail' = "off",
         loop' # "off" => done = Partitions,
         phase' \in {"running", "closing"} => done = Partitions,
         phase' \in {"closing", "closed"} => loop' \in {"off", "stopped"},
         phase' = "closed" => tail' \in {"off", "stopped"}
  PROVE  StartInv'
<1>1. \A p \in done' : CaughtUp(p)'
  BY Zenon DEF StartInv, CaughtUp, Undelivered
<1> QED BY <1>1, Zenon DEF StartInv

\* Every step keeps the inductive invariant.
LEMMA StartInvNext == StartInv /\ [Next]_vars => StartInv'
<1> SUFFICES ASSUME StartInv, [Next]_vars PROVE StartInv'
  BY Zenon
<1>1. CASE StartBootstrap
  <2>1. \A p \in Partitions : Len(log[p]) \in Nat
    BY DEF StartInv
  <2>2. hwm' \in [Partitions -> Nat] /\ pos' \in [Partitions -> Nat]
        /\ \A p \in Partitions : hwm'[p] <= Len(log'[p])
    BY <1>1, <2>1 DEF StartBootstrap
  <2>3. \A p \in done' : p \in Partitions /\ Undelivered(p)' = {}
    BY <1>1, <2>1 DEF StartBootstrap, Undelivered
  <2>4. \A p \in done' : CaughtUp(p)'
    BY <2>3, Zenon DEF CaughtUp
  <2> QED
    BY <1>1, <2>2, <2>3, <2>4, Zenon DEF StartBootstrap, StartInv, tailing, running
<1>2. ASSUME NEW q \in Partitions, BootstrapApply(q)
      PROVE  StartInv'
  <2>1. PICK o \in Undelivered(q) :
          /\ Delivered(q, o)
          /\ done' = IF CaughtUpAt(q, o) THEN done \cup {q} ELSE done
          /\ UNCHANGED <<log, phase, hwm, tailing, running, faults>>
    BY <1>2, Zenon DEF BootstrapApply
  <2>2. /\ pos' \in [Partitions -> Nat]
        /\ \A p \in Partitions : CaughtUp(p) => CaughtUp(p)'
        /\ \A u \in Undelivered(q)' : u > o
    BY <2>1, DeliveredShrinks, Zenon
  <2>3. CaughtUpAt(q, o) => CaughtUp(q)'
    <3>1. o \in Int /\ hwm[q] \in Nat /\ Undelivered(q)' \subseteq Int
      BY <2>1, <2>2 DEF StartInv, Undelivered
    <3> QED BY <2>1, <2>2, <3>1 DEF CaughtUpAt, CaughtUp
  <2>4. done' \subseteq Partitions /\ \A p \in done' : CaughtUp(p)'
    BY <2>1, <2>2, <2>3, Zenon DEF StartInv
  <2> QED
    BY <1>2, <2>1, <2>2, <2>4, Zenon DEF BootstrapApply, StartInv, tailing, running
<1>3. ASSUME NEW q \in Partitions, TailPoll(q)
      PROVE  StartInv'
  <2>1. PICK o \in Undelivered(q) : Delivered(q, o)
    BY <1>3, Zenon DEF TailPoll
  <2>2. log' = log /\ hwm' = hwm /\ done' = done /\ phase' = phase /\ loop' = loop
        /\ phase \notin {"new", "bootstrap", "closed"}
    BY <1>3, Zenon DEF TailPoll, running, StartInv
  <2>3. /\ pos' \in [Partitions -> Nat]
        /\ \A p \in Partitions : CaughtUp(p) => CaughtUp(p)'
    BY <2>1, <2>2, DeliveredShrinks, Zenon
  <2> QED BY <2>2, <2>3, Zenon DEF StartInv
<1>4. CASE StartTail
  BY <1>4, FrameInv, Zenon DEF StartTail, StartInv, consumer
<1>5. CASE TailApply \/ TailFail \/ TailStop
  BY <1>5, FrameInv, Zenon DEF TailApply, TailFail, TailStop, StartInv, consumer, running
<1>6. CASE HealthGate \/ PollRecords \/ PollEmpty \/ Batch
  BY <1>6, FrameInv, Zenon
  DEF HealthGate, PollRecords, PollEmpty, Batch, StartInv, consumer, tailing
<1>7. CASE (\E k \in JoinedKeys : JoinGlobal(k)) \/ Cancel
  BY <1>7, FrameInv, Zenon DEF JoinGlobal, Cancel, StartInv, consumer, tailing
<1>8. CASE CloseCancel \/ CloseStore
  BY <1>8, FrameInv, Zenon DEF CloseCancel, CloseStore, StartInv, consumer, tailing, running
<1>9. CASE BootstrapFail \/ Crash
  <2>1. NoProcess /\ log' = log /\ phase' = "closed"
    BY <1>9, Zenon DEF BootstrapFail, Crash
  <2> QED BY <2>1, NoProcessInv, Zenon
<1>10. CASE Restart
  BY <1>10, NoProcessInv, Zenon DEF Restart
<1>11. CASE UNCHANGED vars
  BY <1>11, FrameInv, Zenon DEF vars, StartInv, consumer, tailing, running
<1> QED
  BY <1>1, <1>2, <1>3, <1>4, <1>5, <1>6, <1>7, <1>8, <1>9, <1>10, <1>11,
     ProduceKeepsCaughtUp, CompactKeepsCaughtUp, Zenon
  DEF Next, Progress, Environment

\* "Blocks until every partition has consumed offset >= hwm-1": whatever is
\* written, compacted, cancelled or restarted, the run loop is on only when
\* every record below the high watermarks of Bootstrap's start is delivered.
THEOREM LoopOnCompleteTable == Spec => []NoLoopBeforeBootstrap
<1>1. StartInv => NoLoopBeforeBootstrap
  BY Zenon DEF StartInv, NoLoopBeforeBootstrap, CaughtUp
<1> QED BY <1>1, StartInvInit, StartInvNext, PTL DEF Spec

\* The Close contract: Adapter.Close waits for the tail goroutine, so that it
\* holds no fetched record that it would still write to the closed store.
THEOREM ClosedStoreUnwritten == Spec => []NoWriteAfterClose
<1>1. StartInv => NoWriteAfterClose
  BY Zenon DEF StartInv, NoWriteAfterClose
<1> QED BY <1>1, StartInvInit, StartInvNext, PTL DEF Spec

-----------------------------------------------------------------------------
(* The table against the topic.                                            *)

\* The places of the records of key k in its partition.
Places(k) ==
  {n \in 1 .. Len(log[PartitionOf[k]]) : log[PartitionOf[k]][n].key = k}

\* Place n holds the latest record of key k.
IsLatest(k, n) == n \in Places(k) /\ \A m \in Places(k) : m <= n

\* The value that a record gives its key.
ValueOf(e, o) == IF e.live THEN o ELSE -1

\* Offset o is of the topic, which has not fallen behind it: while key k has
\* records, one of them is at or after o.
NotPast(k, o) ==
  /\ o < Len(log[PartitionOf[k]])
  /\ Places(k) # {} => \E n \in Places(k) : n - 1 >= o

\* A record in hand is of a key that the topic still holds; when nothing later
\* of its key is coming, it is the latest one.
HandInv(r) ==
  /\ r.offset < pos[PartitionOf[r.entry.key]]
  /\ r.offset >= hwm[PartitionOf[r.entry.key]]
  /\ Places(r.entry.key) # {}
  /\ NotPast(r.entry.key, r.offset)
  /\ (\A o \in Coming(r.entry.key) : o <= r.offset) =>
       /\ IsLatest(r.entry.key, r.offset + 1)
       /\ r.entry = log[PartitionOf[r.entry.key]][r.offset + 1]

\* The table has the value that the topic gives key k.
UpToDate(k) ==
  \/ Places(k) = {} /\ db[k] = -1
  \/ \E n \in Places(k) :
       IsLatest(k, n) /\ db[k] = ValueOf(log[PartitionOf[k]][n], n - 1)

\* A key of which nothing is coming is up to date.
Settled(k) == Coming(k) = {} => UpToDate(k)

\* The table holds no key that the topic has lost.
NoneLeft(k) == Places(k) = {} => db[k] = -1

\* The store is open and the client delivers records to it.
Active == phase \in {"bootstrap", "running", "closing"}

\* Each record of the topic is in the partition of its key.
InPlace(p, n) ==
  log[p][n] = Hole \/ (log[p][n].key \in Keys /\ PartitionOf[log[p][n].key] = p)

\* The inductive invariant of the table.
TableInv ==
  /\ db \in [Keys -> Int]
  /\ inHand \subseteq [offset : Nat, entry : [key : Keys, live : BOOLEAN]]
  /\ \A p \in Partitions : \A n \in 1 .. Len(log[p]) : InPlace(p, n)
  /\ \A r, s \in inHand : r.offset = s.offset => r = s
  /\ tail \in {"off", "loop"} => inHand = {}
  /\ Active \/ phase \in {"new", "closed"}
  /\ \A p \in Partitions : pos[p] <= Len(log[p]) /\ (phase = "new" => pos[p] = 0)
  /\ Active => \A r \in inHand : HandInv(r)
  /\ Active => \A k \in Keys : Settled(k)
  /\ phase = "new" \/ (phase = "closed" /\ Persistent) => \A k \in Keys : NoneLeft(k)
  /\ \A k \in Keys : NotPast(k, db[k])
  /\ joined \in [JoinedKeys -> Int]
  /\ \A k \in JoinedKeys : NotPast(k, joined[k])

\* What invariant and definitions say of a key's partition.
LEMMA KeyType ==
  ASSUME StartInv, NEW k \in Keys
  PROVE  /\ PartitionOf[k] \in Partitions
         /\ log[PartitionOf[k]] \in Seq(Entry)
         /\ Len(log[PartitionOf[k]]) \in Nat
         /\ pos[PartitionOf[k]] \in Nat
         /\ Places(k) \subseteq 1 .. Len(log[PartitionOf[k]])
  BY GlobalAssumption DEF StartInv, Places

\* A record of k is coming when it is undelivered or in hand.
ComingRule ==
  \A k \in Keys : \A o :
    o \in Coming(k) <=>
      \/ o \in Nat /\ o + 1 \in Places(k) /\ o >= pos[PartitionOf[k]]
      \/ \E r \in inHand : r.entry.key = k /\ r.offset = o

\* What is coming, in terms of the places of a key, for this state and the next.
LEMMA ComingMeans == StartInv => ComingRule
<1> SUFFICES ASSUME StartInv, NEW k \in Keys, NEW o
             PROVE  o \in Coming(k) <=>
                      \/ o \in Nat /\ o + 1 \in Places(k) /\ o >= pos[PartitionOf[k]]
                      \/ \E r \in inHand : r.entry.key = k /\ r.offset = o
  BY Zenon DEF ComingRule
<1> DEFINE p == PartitionOf[k]
           U == {u \in Undelivered(p) : log[p][u + 1].key = k}
           H == {r.offset : r \in {s \in inHand : s.entry.key = k}}
<1>1. p \in Partitions /\ Len(log[p]) \in Nat /\ pos[p] \in Nat
  BY KeyType, Zenon
<1>2. \A e : e.key = k => e # Hole
  BY GlobalAssumption DEF Hole
<1>3. o \in U <=> o \in Nat /\ o + 1 \in Places(k) /\ o >= pos[p]
  BY <1>1, <1>2 DEF Undelivered, Places
<1>4. o \in H <=> \E r \in inHand : r.entry.key = k /\ r.offset = o
  BY Zenon
<1> QED BY <1>3, <1>4, Zenon DEF Coming

\* The latest record of a key gives its value.
LatestRule ==
  \A k \in Keys :
    /\ \A n : IsLatest(k, n) => Latest(k) = ValueOf(log[PartitionOf[k]][n], n - 1)
    /\ Places(k) = {} => Latest(k) = -1

\* What the topic says of a key, for this state and the next.
LEMMA LatestMeans == StartInv => LatestRule
<1> SUFFICES ASSUME StartInv, NEW k \in Keys
             PROVE  /\ \A n : IsLatest(k, n) =>
                              Latest(k) = ValueOf(log[PartitionOf[k]][n], n - 1)
                    /\ Places(k) = {} => Latest(k) = -1
  BY Zenon DEF LatestRule
<1> DEFINE l == log[PartitionOf[k]]
           last == CHOOSE n \in Places(k) : \A m \in Places(k) : m <= n
<1>1. Places(k) = {n \in DOMAIN l : l[n].key = k} /\ Places(k) \subseteq Int
  BY KeyType DEF Places
<1>2. Latest(k) = IF Places(k) # {} /\ l[last].live THEN last - 1 ELSE -1
  BY <1>1 DEF Latest
<1>3. ASSUME NEW n, IsLatest(k, n) PROVE last = n
  <2>1. last \in Places(k) /\ \A m \in Places(k) : m <= last
    BY <1>3, Zenon DEF IsLatest
  <2> QED BY <2>1, <1>1, <1>3 DEF IsLatest
<1> HIDE DEF last
<1>4. ASSUME NEW n, IsLatest(k, n) PROVE Latest(k) = ValueOf(l[n], n - 1)
  BY <1>2, <1>3, <1>4, Zenon DEF ValueOf, IsLatest
<1> QED BY <1>2, <1>4, Zenon

\* An open table, too, holds no key that the topic has lost.
LEMMA ActiveNoneLeft ==
  ASSUME StartInv, TableInv, Active
  PROVE  \A k \in Keys : NoneLeft(k)
<1> SUFFICES ASSUME NEW k \in Keys, Places(k) = {} PROVE db[k] = -1
  BY Zenon DEF NoneLeft
<1>1. \A r \in inHand : r.entry.key # k
  BY Zenon DEF TableInv, HandInv
<1>2. Coming(k) = {}
  BY <1>1, ComingMeans DEF ComingRule
<1> QED BY <1>2, Zenon DEF TableInv, Settled, UpToDate, IsLatest

\* What a key has in the topic depends on the topic only, and what is coming of
\* it also on the client and the fetched records.
LEMMA SameTopic ==
  ASSUME log' = log
  PROVE  \A k : /\ Places(k)' = Places(k) /\ Latest(k)' = Latest(k)
                /\ \A n : IsLatest(k, n)' <=> IsLatest(k, n)
                /\ \A o : NotPast(k, o)' <=> NotPast(k, o)
  BY DEF Places, Latest, IsLatest, NotPast

\* What is coming of a key depends on the topic, the client and the fetched
\* records alone.
LEMMA SameComing ==
  ASSUME log' = log, pos' = pos, inHand' = inHand
  PROVE  \A k : Coming(k)' = Coming(k)
  BY Zenon DEF Coming, Undelivered

\* Steps of goroutine and loop that leave table, topic and client alone.
LEMMA TableFrame ==
  ASSUME StartInv, TableInv, UNCHANGED <<log, db, hwm, pos, inHand, joined>>,
         tail' \in {"off", "loop"} => inHand = {},
         \/ phase' = phase
         \/ Active /\ (Active' \/ phase' = "closed")
  PROVE  TableInv'
<1>1. \A k \in Keys : /\ Settled(k)' <=> Settled(k)
                      /\ NoneLeft(k)' <=> NoneLeft(k)
                      /\ NotPast(k, db[k])' <=> NotPast(k, db[k])
  BY SameTopic, SameComing, Zenon DEF Settled, UpToDate, NoneLeft
<1>2. \A r \in inHand : HandInv(r)' <=> HandInv(r)
  BY SameTopic, SameComing, Zenon DEF HandInv
<1>3. \A k \in JoinedKeys : NotPast(k, joined[k])' <=> NotPast(k, joined[k])
  BY SameTopic, Zenon
<1>4. \A p, n : InPlace(p, n)' <=> InPlace(p, n)
  BY Zenon DEF InPlace
<1>5. Active' => Active
  BY Zenon DEF TableInv, Active
<1>6. phase' = "new" \/ (phase' = "closed" /\ Persistent) => \A k \in Keys : NoneLeft(k)
  BY ActiveNoneLeft, Zenon DEF TableInv, Active
<1>7. Active' \/ phase' \in {"new", "closed"}
  BY Zenon DEF TableInv, Active
<1> QED BY <1>1, <1>2, <1>3, <1>4, <1>5, <1>6, <1>7, Zenon DEF TableInv, Active

\* Process exit and restart: the records in hand are gone, and the table is the
\* one that was left, or empty.
LEMMA TableNoProcess ==
  ASSUME StartInv, TableInv, NoProcess, UNCHANGED <<log, joined>>,
         db' \in {db, EmptyTable},
         phase' \in {"new", "closed"},
         \/ phase # "closed" \/ Persistent \/ db' = EmptyTable
  PROVE  TableInv'
<1>1. inHand' = {} /\ \A p \in Partitions : pos'[p] = 0 /\ Len(log[p]) \in Nat
  BY DEF NoProcess, StartInv
<1>2. db' \in [Keys -> Int] /\ \A k \in Keys : db'[k] = db[k] \/ db'[k] = -1
  BY DEF TableInv, EmptyTable
<1>3. ASSUME NEW k \in Keys, Places(k) = {}
      PROVE  db'[k] = -1
  <2>1. db' = EmptyTable \/ NoneLeft(k)
    BY ActiveNoneLeft, Zenon DEF TableInv
  <2> QED BY <2>1, <1>2, <1>3, Zenon DEF EmptyTable, NoneLeft
<1>4. \A k \in Keys : NoneLeft(k)'
  BY <1>3, SameTopic, Zenon DEF NoneLeft
<1>5. ASSUME NEW k \in Keys PROVE NotPast(k, db'[k])
  <2>1. NotPast(k, db[k])
    BY Zenon DEF TableInv
  <2>2. NotPast(k, -1)
    BY KeyType DEF NotPast
  <2> QED BY <1>2, <2>1, <2>2, Zenon
<1>6. \A k \in Keys : NotPast(k, db[k])'
  BY <1>5, SameTopic, Zenon
<1>7. \A k \in JoinedKeys : NotPast(k, joined[k])'
  BY SameTopic, Zenon DEF TableInv
<1>8. \A p \in Partitions : \A n \in 1 .. Len(log'[p]) : InPlace(p, n)'
  BY Zenon DEF TableInv, InPlace
<1>9. ~Active'
  BY Zenon DEF Active
<1> QED BY <1>1, <1>2, <1>4, <1>6, <1>7, <1>8, <1>9 DEF TableInv

\* StartBootstrap: everything the topic holds is coming.
LEMMA TableStartBootstrap ==
  ASSUME StartInv, StartInv', TableInv, StartBootstrap
  PROVE  TableInv'
<1>1. /\ phase = "new" /\ phase' = "bootstrap"
      /\ UNCHANGED <<log, db, inHand, joined, tail>> /\ tail = "off"
      /\ \A p \in Partitions : pos'[p] = 0 /\ Len(log[p]) \in Nat
  BY Zenon DEF StartBootstrap, tailing, running, StartInv
<1>2. inHand = {} /\ inHand' = {}
  BY <1>1, Zenon DEF TableInv
<1>3. ASSUME NEW k \in Keys, Coming(k)' = {}
      PROVE  UpToDate(k)
  <2>1. (\A o : o \in Nat /\ o + 1 \in Places(k) => o \in Coming(k))'
    <3>1. ComingRule'
      BY ComingMeans, PTL
    <3>2. PartitionOf[k] \in Partitions
      BY KeyType, Zenon
    <3> QED BY <1>1, <3>1, <3>2 DEF ComingRule
  <2>2. \A n \in Places(k) : n - 1 \in Nat /\ (n - 1) + 1 = n
    BY KeyType
  <2>3. Places(k) = {}
    BY <1>1, <1>3, <2>1, <2>2, SameTopic, Zenon
  <2>4. NoneLeft(k)
    BY <1>1, Zenon DEF TableInv
  <2> QED BY <2>3, <2>4, Zenon DEF NoneLeft, UpToDate
<1>4. \A k \in Keys : Settled(k)'
  BY <1>1, <1>3, SameTopic, Zenon DEF Settled, UpToDate
<1>5. \A k \in Keys : NotPast(k, db[k])'
  BY <1>1, SameTopic, Zenon DEF TableInv
<1>6. \A k \in JoinedKeys : NotPast(k, joined[k])'
  BY <1>1, SameTopic, Zenon DEF TableInv
<1>7. \A p \in Partitions : \A n \in 1 .. Len(log'[p]) : InPlace(p, n)'
  BY <1>1, Zenon DEF TableInv, InPlace
<1> QED BY <1>1, <1>2, <1>4, <1>5, <1>6, <1>7, Zenon DEF TableInv, Active

\* JoinGlobal outputs what the table holds, which the topic is not behind.
LEMMA TableJoin ==
  ASSUME StartInv, TableInv, NEW j \in JoinedKeys, JoinGlobal(j)
  PROVE  TableInv'
<1>1. /\ joined' = [joined EXCEPT ![j] = db[j]]
      /\ UNCHANGED <<log, db, phase, hwm, pos, inHand, tail>>
  BY Zenon DEF JoinGlobal, consumer, tailing
<1>2. j \in Keys
  BY GlobalAssumption, Zenon
<1>3. joined' \in [JoinedKeys -> Int]
  BY <1>1, <1>2, Zenon DEF TableInv
<1>4. \A k \in JoinedKeys : NotPast(k, joined'[k])
  BY <1>1, <1>2, Zenon DEF TableInv
<1>5. \A k \in JoinedKeys : NotPast(k, joined[k])'
  BY <1>1, <1>4, SameTopic, Zenon
<1>6. \A k \in Keys : /\ Settled(k)' <=> Settled(k)
                      /\ NoneLeft(k)' <=> NoneLeft(k)
                      /\ NotPast(k, db[k])' <=> NotPast(k, db[k])
  BY <1>1, SameTopic, SameComing, Zenon DEF Settled, UpToDate, NoneLeft
<1>7. \A r \in inHand : HandInv(r)' <=> HandInv(r)
  BY <1>1, SameTopic, SameComing, Zenon DEF HandInv
<1>8. \A p, n : InPlace(p, n)' <=> InPlace(p, n)
  BY <1>1, Zenon DEF InPlace
<1> QED BY <1>1, <1>3, <1>5, <1>6, <1>7, <1>8, Zenon DEF TableInv, Active

\* An undelivered offset holds a record of a key of its partition.
LEMMA UndeliveredMeans ==
  ASSUME StartInv, TableInv, NEW q \in Partitions, NEW o \in Undelivered(q)
  PROVE  /\ o \in Nat /\ o >= pos[q] /\ pos[q] \in Nat
         /\ Len(log[q]) \in Nat /\ o + 1 \in 1 .. Len(log[q])
         /\ log[q][o + 1] \in [key : Keys, live : BOOLEAN]
         /\ PartitionOf[log[q][o + 1].key] = q
         /\ o + 1 \in Places(log[q][o + 1].key)
<1>1. log[q] \in Seq(Entry) /\ Len(log[q]) \in Nat /\ pos[q] \in Nat
  BY DEF StartInv
<1>2. o \in Nat /\ o >= pos[q] /\ o + 1 \in 1 .. Len(log[q]) /\ log[q][o + 1] # Hole
  BY <1>1 DEF Undelivered
<1>3. log[q][o + 1] \in Entry
  BY <1>1, <1>2
<1>4. log[q][o + 1].key \in Keys /\ PartitionOf[log[q][o + 1].key] = q
  BY <1>2, Zenon DEF TableInv, InPlace
<1>5. log[q][o + 1] \in [key : Keys, live : BOOLEAN]
  BY <1>3, <1>4, Zenon DEF Entry
<1> QED BY <1>1, <1>2, <1>4, <1>5, Zenon DEF Places

\* BootstrapApply: the record that is applied is the next one of its partition;
\* when no other of its key is coming, it is the latest.
LEMMA TableBootstrapApply ==
  ASSUME StartInv, StartInv', TableInv, NEW q \in Partitions, BootstrapApply(q)
  PROVE  TableInv'
<1>1. PICK o \in Undelivered(q) :
        /\ IsNext(q, o) /\ applyKV(log[q][o + 1], o) /\ Delivered(q, o)
  BY Zenon DEF BootstrapApply
<1> DEFINE e == log[q][o + 1]
           j == e.key
<1>2. /\ phase = "bootstrap" /\ tail = "off"
      /\ UNCHANGED <<log, phase, tail, inHand, joined>>
  BY Zenon DEF BootstrapApply, tailing, running, StartInv
<1>3. inHand = {} /\ inHand' = {}
  BY <1>2, Zenon DEF TableInv
<1>4. /\ o \in Nat /\ o >= pos[q] /\ Len(log[q]) \in Nat /\ o + 1 \in 1 .. Len(log[q])
      /\ j \in Keys /\ e.live \in BOOLEAN /\ PartitionOf[j] = q /\ o + 1 \in Places(j)
  BY UndeliveredMeans, Zenon
<1> HIDE DEF e, j
<1>5. db' = [db EXCEPT ![j] = ValueOf(e, o)]
  BY <1>1, Zenon DEF applyKV, ValueOf, e, j
<1>6. pos' = [pos EXCEPT ![q] = o + 1] /\ pos \in [Partitions -> Nat]
  BY <1>1, Zenon DEF Delivered, StartInv
<1>7. ComingRule /\ ComingRule'
  <2>1. ComingRule'
    BY ComingMeans, PTL
  <2> QED BY <2>1, ComingMeans, Zenon
<1>8. ValueOf(e, o) \in Int /\ db' \in [Keys -> Int]
  BY <1>4, <1>5 DEF TableInv, ValueOf
<1>9. ASSUME NEW k \in Keys, Coming(k)' = {}
      PROVE  UpToDate(k)'
  <2>1. Places(k)' = Places(k) /\ Places(k) \subseteq Int /\ PartitionOf[k] \in Partitions
        /\ \A n \in Places(k) : n - 1 \in Nat /\ (n - 1) + 1 = n
    BY <1>2, SameTopic, KeyType
  <2>2. \A n \in Places(k) : ~(n - 1 >= pos'[PartitionOf[k]])
    BY <1>7, <1>9, <2>1 DEF ComingRule
  <2>3. CASE k = j
    <3>1. pos'[q] = o + 1
      BY <1>6, Zenon
    <3>2. \A n \in Places(k) : n <= o + 1
      BY <1>4, <2>1, <2>2, <2>3, <3>1
    <3>3. IsLatest(k, o + 1)
      BY <1>4, <2>3, <3>2, Zenon DEF IsLatest
    <3>4. IsLatest(k, o + 1)' /\ log'[PartitionOf[k]][o + 1] = e /\ (o + 1) - 1 = o
      BY <1>2, <1>4, <2>3, <3>3, SameTopic DEF e
    <3>5. db'[k] = ValueOf(e, o)
      BY <1>4, <1>5, <2>3, Zenon DEF TableInv
    <3> QED BY <3>4, <3>5, Zenon DEF UpToDate, IsLatest
  <2>4. CASE k # j
    <3>1. \A n \in Places(k) : ~(n - 1 >= pos[PartitionOf[k]])
      <4>1. CASE PartitionOf[k] = q
        <5> SUFFICES ASSUME NEW n \in Places(k), n - 1 >= pos[q] PROVE FALSE
          BY <4>1, Zenon
        <5>1. log[q][n].key = k /\ n \in 1 .. Len(log[q])
          BY <4>1, Zenon DEF Places
        <5>2. log[q][n] # Hole
          BY <5>1, GlobalAssumption DEF Hole
        <5>3. n - 1 \in Undelivered(q)
          BY <5>1, <5>2, <1>4, <1>6, <2>1 DEF Undelivered
        <5>4. n - 1 >= o
          BY <1>1, <5>3, Zenon DEF IsNext
        <5>5. n # o + 1
          BY <5>1, <2>4, Zenon DEF e, j
        <5>6. n - 1 >= o + 1
          BY <5>4, <5>5, <1>4, <2>1
        <5> QED BY <5>6, <2>2, <4>1, <1>6, Zenon
      <4>2. CASE PartitionOf[k] # q
        BY <4>2, <1>6, <2>1, <2>2, Zenon
      <4> QED BY <4>1, <4>2, Zenon
    <3>2. Coming(k) = {}
      <4>1. \A u : u \in Nat /\ u + 1 \in Places(k) => ~(u >= pos[PartitionOf[k]])
        BY <3>1, <2>1
      <4> QED BY <4>1, <1>3, <1>7, Zenon DEF ComingRule
    <3>3. UpToDate(k) /\ db'[k] = db[k]
      BY <1>2, <1>5, <2>4, <3>2, Zenon DEF TableInv, Settled, Active
    <3> QED BY <1>2, <3>3, SameTopic, Zenon DEF UpToDate
  <2> QED BY <2>3, <2>4, Zenon
<1>10. \A k \in Keys : Settled(k)'
  BY <1>9, Zenon DEF Settled
<1>11. ASSUME NEW k \in Keys PROVE NotPast(k, db'[k])
  <2>1. CASE k = j
    <3>1. db'[k] = o \/ db'[k] = -1
      BY <1>5, <2>1, Zenon DEF TableInv, ValueOf
    <3>2. NotPast(k, o)
      BY <1>4, <2>1 DEF NotPast
    <3>3. NotPast(k, -1)
      BY KeyType DEF NotPast
    <3> QED BY <3>1, <3>2, <3>3, Zenon
  <2>2. CASE k # j
    BY <1>5, <2>2, Zenon DEF TableInv
  <2> QED BY <2>1, <2>2, Zenon
<1>12. \A k \in Keys : NotPast(k, db[k])'
  BY <1>2, <1>11, SameTopic, Zenon
<1>13. \A k \in JoinedKeys : NotPast(k, joined[k])'
  BY <1>2, SameTopic, Zenon DEF TableInv
<1>14. \A p \in Partitions : \A n \in 1 .. Len(log'[p]) : InPlace(p, n)'
  BY <1>2, Zenon DEF TableInv, InPlace
<1>15. \A p \in Partitions : pos'[p] <= Len(log'[p])
  BY <1>2, <1>4, <1>6 DEF TableInv
<1> QED
  BY <1>2, <1>3, <1>8, <1>10, <1>12, <1>13, <1>14, <1>15, Zenon DEF TableInv, Active

\* TailPoll: what was coming still is, as undelivered or in hand.
LEMMA TableTailPoll ==
  ASSUME StartInv, StartInv', TableInv, NEW q \in Partitions, TailPoll(q)
  PROVE  TableInv'
<1>1. PICK o \in Undelivered(q) : inHand' = Fetched(q, o) /\ Delivered(q, o)
  BY Zenon DEF TailPoll
<1>2. /\ tail = "loop" /\ tail' = "fetched" /\ Active /\ Active' /\ inHand = {}
      /\ UNCHANGED <<log, db, phase, hwm, joined>>
      /\ \A u \in Undelivered(q) : u >= hwm[q]
  BY Zenon DEF TailPoll, running, StartInv, CaughtUp, TableInv, Active
<1>3. o \in Nat /\ o >= pos[q] /\ Len(log[q]) \in Nat /\ o + 1 \in 1 .. Len(log[q])
  BY UndeliveredMeans, Zenon
<1>4. pos' = [pos EXCEPT ![q] = o + 1] /\ pos \in [Partitions -> Nat]
  BY <1>1, Zenon DEF Delivered, StartInv
<1>5. ComingRule /\ ComingRule'
  <2>1. ComingRule'
    BY ComingMeans, PTL
  <2> QED BY <2>1, ComingMeans, Zenon
<1>6. ASSUME NEW r \in inHand'
      PROVE  /\ r \in [offset : Nat, entry : [key : Keys, live : BOOLEAN]]
             /\ r.offset \in Undelivered(q) /\ r.offset <= o
             /\ r.entry = log[q][r.offset + 1]
             /\ PartitionOf[r.entry.key] = q
             /\ r.offset + 1 \in Places(r.entry.key)
             /\ r.offset >= pos[q] /\ r.offset < Len(log[q])
             /\ r.offset >= hwm[q]
  <2>1. PICK u \in Undelivered(q) : u <= o /\ r = [offset |-> u, entry |-> log[q][u + 1]]
    BY <1>1, Zenon DEF Fetched
  <2> QED BY <1>2, <2>1, UndeliveredMeans
<1>7. ASSUME NEW r \in inHand', NEW s \in inHand', r.offset = s.offset PROVE r = s
  <2>1. r.entry = s.entry
    BY <1>6, <1>7, Zenon
  <2> QED BY <2>1, <1>6, <1>7
<1>8. ASSUME NEW k \in Keys, NEW u \in Coming(k)
      PROVE  u \in Coming(k)'
  <2>1. u \in Nat /\ u + 1 \in Places(k) /\ u >= pos[PartitionOf[k]]
    BY <1>2, <1>5, <1>8, Zenon DEF ComingRule
  <2>2. PartitionOf[k] \in Partitions /\ Places(k)' = Places(k)
    BY <1>2, KeyType, SameTopic, Zenon
  <2>3. CASE PartitionOf[k] = q /\ u <= o
    <3>1. log[q][u + 1].key = k /\ u + 1 \in 1 .. Len(log[q])
      BY <2>1, <2>3, Zenon DEF Places
    <3>2. log[q][u + 1] # Hole
      BY <3>1, GlobalAssumption DEF Hole
    <3>3. u \in Undelivered(q)
      BY <3>1, <3>2, <1>3, <1>4, <2>1, <2>3 DEF Undelivered
    <3>4. [offset |-> u, entry |-> log[q][u + 1]] \in inHand'
      BY <3>3, <2>3, <1>1, Zenon DEF Fetched
    <3> QED BY <3>1, <3>4, <1>5 DEF ComingRule
  <2>4. CASE ~(PartitionOf[k] = q /\ u <= o)
    <3>1. u >= pos'[PartitionOf[k]]
      BY <1>3, <1>4, <2>1, <2>2, <2>4
    <3> QED BY <3>1, <2>1, <2>2, <1>5 DEF ComingRule
  <2> QED BY <2>3, <2>4, Zenon
<1>9. ASSUME NEW r \in inHand' PROVE HandInv(r)'
  <2> DEFINE k == r.entry.key
  <2>1. k \in Keys /\ PartitionOf[k] = q /\ r.offset \in Nat /\ r.offset + 1 \in Places(k)
        /\ Places(k)' = Places(k) /\ r.offset >= pos[q] /\ pos[q] \in Nat
        /\ r.offset <= o /\ r.offset < Len(log[q]) /\ r.offset >= hwm[q]
    BY <1>2, <1>4, <1>6, SameTopic, Zenon
  <2>2. r.entry = log[PartitionOf[k]][r.offset + 1]
    BY <1>6, Zenon
  <2> HIDE DEF k
  <2>3. r.offset < pos'[q]
    BY <1>3, <1>4, <2>1
  <2>4. NotPast(k, r.offset)
    BY <2>1 DEF NotPast
  <2>5. ASSUME \A u \in Coming(k)' : u <= r.offset
        PROVE  IsLatest(k, r.offset + 1)
    <3> SUFFICES ASSUME NEW m \in Places(k), ~(m <= r.offset + 1) PROVE FALSE
      BY <2>1, Zenon DEF IsLatest
    <3>1. m \in Int /\ m - 1 \in Nat /\ (m - 1) + 1 = m
      BY <2>1, KeyType
    <3>2. m - 1 >= pos[PartitionOf[k]] /\ ~(m - 1 <= r.offset)
      BY <2>1, <3>1
    <3>3. m - 1 \in Coming(k)
      BY <2>1, <3>1, <3>2, <1>5 DEF ComingRule
    <3> QED BY <3>2, <3>3, <2>1, <2>5, <1>8, Zenon
  <2>6. \A n : IsLatest(k, n)' <=> IsLatest(k, n)
    BY <1>2, SameTopic, Zenon
  <2>7. NotPast(k, r.offset)'
    BY <1>2, <2>4, SameTopic, Zenon
  <2> QED BY <1>2, <2>1, <2>2, <2>3, <2>5, <2>6, <2>7, Zenon DEF HandInv, k
<1>10. \A k \in Keys : Settled(k)'
  BY <1>2, <1>8, SameTopic, Zenon DEF Settled, UpToDate, TableInv
<1>11. (\A k \in Keys : NotPast(k, db[k])') /\ \A k \in JoinedKeys : NotPast(k, joined[k])'
  BY <1>2, SameTopic, Zenon DEF TableInv
<1>12. \A p \in Partitions : \A n \in 1 .. Len(log'[p]) : InPlace(p, n)'
  BY <1>2, Zenon DEF TableInv, InPlace
<1>13. \A p \in Partitions : pos'[p] <= Len(log'[p])
  BY <1>2, <1>3, <1>4 DEF TableInv
<1>14. inHand' \subseteq [offset : Nat, entry : [key : Keys, live : BOOLEAN]]
  BY <1>6, Zenon
<1> QED
  BY <1>2, <1>7, <1>9, <1>10, <1>11, <1>12, <1>13, <1>14, Zenon DEF TableInv, Active

\* TailApply: the record is the next one in hand; when no other of its key is
\* coming, it is the latest.
LEMMA TableTailApply ==
  ASSUME StartInv, StartInv', TableInv, TailApply
  PROVE  TableInv'
<1>1. PICK r \in inHand : /\ \A s \in inHand : r.offset <= s.offset
                          /\ applyKV(r.entry, r.offset)
                          /\ inHand' = inHand \ {r}
  BY Zenon DEF TailApply
<1> DEFINE j == r.entry.key
<1>2. /\ UNCHANGED <<log, phase, hwm, pos, joined>> /\ Active /\ Active'
      /\ tail' = IF inHand' = {} THEN "loop" ELSE "apply"
  BY Zenon DEF TailApply, consumer, running, StartInv, TableInv, Active
<1>3. /\ r.offset \in Nat /\ r.entry.live \in BOOLEAN /\ j \in Keys
      /\ \A s \in inHand : s.offset \in Nat /\ s.entry.key \in Keys
  BY Zenon DEF TableInv
<1>4. HandInv(r)
  BY <1>2, Zenon DEF TableInv
<1>5. ComingRule /\ ComingRule'
  <2>1. ComingRule'
    BY ComingMeans, PTL
  <2> QED BY <2>1, ComingMeans, Zenon
<1>6. ASSUME NEW k \in Keys, NEW u \in Coming(k)
      PROVE  u \in Coming(k)' \/ (u = r.offset /\ k = j)
  <2>1. Places(k)' = Places(k)
    BY <1>2, SameTopic, Zenon
  <2>2. CASE u \in Nat /\ u + 1 \in Places(k) /\ u >= pos[PartitionOf[k]]
    BY <1>2, <1>5, <2>1, <2>2 DEF ComingRule
  <2>3. CASE \E s \in inHand : s.entry.key = k /\ s.offset = u
    <3>1. PICK s \in inHand : s.entry.key = k /\ s.offset = u
      BY <2>3, Zenon
    <3> QED BY <1>1, <1>5, <3>1, Zenon DEF ComingRule
  <2> QED BY <1>5, <2>2, <2>3, Zenon DEF ComingRule
<1> HIDE DEF j
<1>7. db' = [db EXCEPT ![j] = ValueOf(r.entry, r.offset)] /\ db \in [Keys -> Int]
  BY <1>1, Zenon DEF applyKV, ValueOf, j, TableInv
<1>8. db' \in [Keys -> Int]
  BY <1>3, <1>7 DEF ValueOf
<1>9. ASSUME NEW k \in Keys, Coming(k)' = {} PROVE UpToDate(k)'
  <2>1. CASE k = j
    <3>1. \A u \in Coming(k) : u <= r.offset
      BY <1>3, <1>6, <1>9
    <3>2. IsLatest(k, r.offset + 1) /\ r.entry = log[PartitionOf[k]][r.offset + 1]
      BY <1>4, <2>1, <3>1, Zenon DEF HandInv, j
    <3>3. (r.offset + 1) - 1 = r.offset
      BY <1>3
    <3>5. IsLatest(k, r.offset + 1)' /\ log'[PartitionOf[k]][r.offset + 1] = r.entry
      BY <1>2, <3>2, SameTopic, Zenon
    <3>4. db'[k] = ValueOf(r.entry, r.offset)
      BY <1>7, <2>1, Zenon
    <3> QED BY <3>3, <3>4, <3>5, Zenon DEF UpToDate, IsLatest
  <2>2. CASE k # j
    <3>1. Coming(k) = {}
      BY <1>6, <1>9, <2>2, Zenon
    <3>2. UpToDate(k) /\ db'[k] = db[k]
      BY <1>2, <1>7, <2>2, <3>1, Zenon DEF TableInv, Settled
    <3> QED BY <1>2, <3>2, SameTopic, Zenon DEF UpToDate
  <2> QED BY <2>1, <2>2, Zenon
<1>10. \A k \in Keys : Settled(k)'
  BY <1>9, Zenon DEF Settled
<1>11. ASSUME NEW s \in inHand' PROVE HandInv(s)'
  <2> DEFINE k == s.entry.key
  <2>1. s \in inHand /\ k \in Keys /\ r.offset <= s.offset /\ HandInv(s)
    BY <1>1, <1>2, <1>3, Zenon DEF TableInv
  <2>2. ASSUME \A u \in Coming(k)' : u <= s.offset PROVE \A u \in Coming(k) : u <= s.offset
    BY <2>1, <2>2, <1>6, Zenon
  <2> QED BY <1>2, <2>1, <2>2, SameTopic, Zenon DEF HandInv
<1>12. ASSUME NEW k \in Keys PROVE NotPast(k, db'[k])
  <2>1. CASE k = j
    <3>1. db'[k] = r.offset \/ db'[k] = -1
      BY <1>7, <2>1, Zenon DEF ValueOf
    <3>2. NotPast(k, r.offset)
      BY <1>4, <2>1, Zenon DEF HandInv, j
    <3>3. NotPast(k, -1)
      BY KeyType DEF NotPast
    <3> QED BY <3>1, <3>2, <3>3, Zenon
  <2>2. CASE k # j
    BY <1>7, <2>2, Zenon DEF TableInv
  <2> QED BY <2>1, <2>2, Zenon
<1>13. \A k \in Keys : NotPast(k, db[k])'
  BY <1>2, <1>12, SameTopic, Zenon
<1>14. \A k \in JoinedKeys : NotPast(k, joined[k])'
  BY <1>2, SameTopic, Zenon DEF TableInv
<1>15. \A p \in Partitions : \A n \in 1 .. Len(log'[p]) : InPlace(p, n)'
  BY <1>2, Zenon DEF TableInv, InPlace
<1> QED
  BY <1>1, <1>2, <1>8, <1>10, <1>11, <1>13, <1>14, <1>15, Zenon DEF TableInv, Active

\* The entries of a write are records of its key or are never delivered.
LEMMA WrittenEntries ==
  ASSUME NEW j \in Keys, NEW live \in BOOLEAN, NEW entries \in Written(j, live),
         NEW i \in 1 .. Len(entries)
  PROVE  entries[i] = Hole \/ entries[i].key = j
<1> DEFINE e == [key |-> j, live |-> live]
<1>1. entries = <<e>> \/ entries = <<e, Hole>> \/ entries = <<Hole, Hole>>
  BY Zenon DEF Written
<1>2. e.key = j
  BY Zenon
<1> HIDE DEF e
<1>3. CASE entries = <<e>>
  BY <1>2, <1>3
<1>4. CASE entries = <<e, Hole>>
  BY <1>2, <1>4
<1>5. CASE entries = <<Hole, Hole>>
  BY <1>5
<1> QED BY <1>1, <1>3, <1>4, <1>5, Zenon

\* A write: a new record of a key is coming, and nothing else changes for it.
LEMMA TableProduce ==
  ASSUME StartInv, StartInv', TableInv, NEW j \in Keys, NEW live \in BOOLEAN,
         Produce(j, live)
  PROVE  TableInv'
<1> DEFINE q == PartitionOf[j]
<1>1. PICK entries \in Written(j, live) :
        /\ log' = [log EXCEPT ![q] = log[q] \o entries]
        /\ UNCHANGED <<db, phase, consumer, tailing, running, faults>>
  BY Zenon DEF Produce
<1>2. UNCHANGED <<db, phase, hwm, pos, tail, inHand, joined>>
  BY <1>1, Zenon DEF consumer, tailing, running
<1>3. q \in Partitions /\ entries \in Seq(Entry) /\ log[q] \in Seq(Entry)
      /\ log \in [Partitions -> Seq(Entry)]
  BY WrittenType, GlobalAssumption, Zenon DEF StartInv
<1>4. /\ Len(log[q]) \in Nat /\ Len(entries) \in Nat
      /\ Len(log[q] \o entries) = Len(log[q]) + Len(entries)
      /\ \A n \in 1 .. Len(log[q]) : (log[q] \o entries)[n] = log[q][n]
      /\ \A n \in Len(log[q]) + 1 .. Len(log[q]) + Len(entries) :
           (log[q] \o entries)[n] = entries[n - Len(log[q])]
  BY <1>3
<1>5. ASSUME NEW p \in Partitions
      PROVE  /\ Len(log[p]) \in Nat /\ Len(log'[p]) \in Nat /\ Len(log'[p]) >= Len(log[p])
             /\ \A n \in 1 .. Len(log[p]) : log'[p][n] = log[p][n]
             /\ \A n \in Len(log[p]) + 1 .. Len(log'[p]) :
                  log'[p][n] = Hole \/ (log'[p][n].key = j /\ p = q)
  <2>1. CASE p = q
    <3>1. log'[p] = log[q] \o entries
      BY <1>1, <1>3, <2>1, Zenon
    <3>2. ASSUME NEW n \in Len(log[q]) + 1 .. Len(log'[p])
          PROVE  log'[p][n] = Hole \/ log'[p][n].key = j
      <4>1. n - Len(log[q]) \in 1 .. Len(entries)
            /\ n \in Len(log[q]) + 1 .. Len(log[q]) + Len(entries)
        BY <1>4, <3>1
      <4>2. log'[p][n] = entries[n - Len(log[q])]
        BY <1>4, <3>1, <4>1, Zenon
      <4> HIDE DEF q
      <4> QED BY <4>1, <4>2, WrittenEntries
    <3>3. /\ Len(log[q]) + Len(entries) \in Nat
          /\ Len(log[q]) + Len(entries) >= Len(log[q])
      <4>1. Len(log[q]) \in Nat /\ Len(entries) \in Nat
        BY <1>4, Zenon
      <4> QED BY <4>1
    <3>4. Len(log'[p]) = Len(log[q]) + Len(entries)
      BY <1>4, <3>1, Zenon
    <3> HIDE DEF q
    <3> QED BY <1>4, <2>1, <3>1, <3>2, <3>3, <3>4, Zenon
  <2>2. CASE p # q
    <3>1. log'[p] = log[p] /\ Len(log[p]) \in Nat
      BY <1>1, <1>3, <2>2
    <3> QED BY <3>1
  <2> QED BY <2>1, <2>2, Zenon
<1> HIDE DEF q
<1>6. ComingRule /\ ComingRule'
  <2>1. ComingRule'
    BY ComingMeans, PTL
  <2> QED BY <2>1, ComingMeans, Zenon
<1>7. ASSUME NEW k \in Keys
      PROVE  /\ Places(k) \subseteq Places(k)'
             /\ \A n \in Places(k) : log'[PartitionOf[k]][n] = log[PartitionOf[k]][n]
             /\ \A n \in Places(k)' : n \in Places(k) \/ n > Len(log[PartitionOf[k]])
             /\ Places(k)' \subseteq Nat \ {0}
             /\ PartitionOf[k] \in Partitions
  <2>1. PartitionOf[k] \in Partitions
    BY KeyType, Zenon
  <2> DEFINE now == Len(log[PartitionOf[k]])
             next == Len(log'[PartitionOf[k]])
  <2>2. now \in Nat /\ next \in Nat /\ next >= now
    BY <1>5, <2>1, Zenon
  <2> HIDE DEF now, next
  <2>3. /\ \A n \in 1 .. now : n \in 1 .. next
        /\ \A n \in 1 .. next : n \in 1 .. now \/ n > now
        /\ 1 .. next \subseteq Nat \ {0}
    BY <2>2
  <2> QED BY <1>5, <2>1, <2>3, Zenon DEF Places, now, next
<1>8. ASSUME NEW k \in Keys
      PROVE  /\ Coming(k) \subseteq Coming(k)'
             /\ \A n \in Places(k)' : n \in Places(k) \/ n - 1 \in Coming(k)'
  <2>1. Coming(k) \subseteq Coming(k)'
    BY <1>2, <1>6, <1>7, Zenon DEF ComingRule
  <2>2. ASSUME NEW n \in Places(k)', n > Len(log[PartitionOf[k]])
        PROVE  n - 1 \in Coming(k)'
    <3>1. /\ n - 1 \in Nat /\ (n - 1) + 1 = n /\ pos[PartitionOf[k]] \in Nat
          /\ pos[PartitionOf[k]] <= Len(log[PartitionOf[k]])
          /\ Len(log[PartitionOf[k]]) \in Nat
      <4>1. n \in Nat \ {0}
        BY <1>7, Zenon
      <4>2. n - 1 \in Nat /\ (n - 1) + 1 = n
        BY <4>1
      <4> QED BY <1>7, <4>2, KeyType, Zenon DEF TableInv
    <3>2. n - 1 >= pos'[PartitionOf[k]]
      BY <1>2, <1>7, <2>2, <3>1
    <3> QED BY <1>6, <3>1, <3>2 DEF ComingRule
  <2> QED BY <2>1, <2>2, <1>7, Zenon
<1>9. ASSUME NEW k \in Keys, NEW o \in Int, NotPast(k, o)
      PROVE  NotPast(k, o)'
  <2>1. o < Len(log'[PartitionOf[k]])
    BY <1>5, <1>7, <1>9 DEF NotPast
  <2>2. ASSUME Places(k)' # {} PROVE \E n \in Places(k)' : n - 1 >= o
    <3>1. CASE Places(k) # {}
      BY <1>7, <1>9, <3>1, Zenon DEF NotPast
    <3>2. CASE Places(k) = {}
      <4>1. PICK n \in Places(k)' : n > Len(log[PartitionOf[k]])
        BY <1>7, <2>2, <3>2, Zenon
      <4>2. n - 1 >= o
        BY <1>5, <1>7, <1>9, <4>1 DEF NotPast
      <4> QED BY <4>2, Zenon
    <3> QED BY <3>1, <3>2, Zenon
  <2> QED BY <2>1, <2>2, Zenon DEF NotPast
<1>10. ASSUME NEW k \in Keys, NEW n, IsLatest(k, n), \A u \in Coming(k)' : u < n
       PROVE  IsLatest(k, n)'
  <2>1. n \in Places(k)' /\ n \in Nat
    BY <1>7, <1>10, Zenon DEF IsLatest
  <2>2. ASSUME NEW m \in Places(k)' PROVE m <= n
    <3>1. m \in Places(k) \/ m - 1 < n
      BY <1>8, <1>10, Zenon
    <3> QED BY <1>7, <1>10, <2>1, <3>1 DEF IsLatest
  <2> QED BY <2>1, <2>2, Zenon DEF IsLatest
<1>11. ASSUME NEW k \in Keys, Coming(k)' = {}, UpToDate(k)
       PROVE  UpToDate(k)'
  <2>1. Places(k)' = Places(k)
    BY <1>7, <1>8, <1>11, Zenon
  <2>2. CASE Places(k) = {} /\ db[k] = -1
    BY <1>2, <2>1, <2>2, Zenon DEF UpToDate
  <2>3. CASE \E n : IsLatest(k, n) /\ db[k] = ValueOf(log[PartitionOf[k]][n], n - 1)
    <3>1. PICK n : IsLatest(k, n) /\ db[k] = ValueOf(log[PartitionOf[k]][n], n - 1)
      BY <2>3, Zenon
    <3>2. log'[PartitionOf[k]][n] = log[PartitionOf[k]][n]
      BY <1>7, <3>1, Zenon DEF IsLatest
    <3> QED BY <1>2, <1>10, <1>11, <3>1, <3>2, Zenon DEF UpToDate, IsLatest
  <2> QED BY <1>11, <2>2, <2>3, Zenon DEF UpToDate
<1>12. ASSUME Active PROVE \A k \in Keys : Settled(k)'
  BY <1>8, <1>11, <1>12, Zenon DEF TableInv, Settled
<1>13. ASSUME Active, NEW r \in inHand PROVE HandInv(r)'
  <2> DEFINE k == r.entry.key
  <2>1. k \in Keys /\ r.offset \in Nat /\ HandInv(r)
    BY <1>13, Zenon DEF TableInv
  <2>2. /\ NotPast(k, r.offset)' /\ Places(k)' # {}
        /\ r.offset < pos'[PartitionOf[k]] /\ r.offset >= hwm'[PartitionOf[k]]
    <3>1. NotPast(k, r.offset)'
      <4>1. r.offset \in Int
        BY <2>1
      <4> QED BY <1>9, <2>1, <4>1, Zenon DEF HandInv
    <3>2. Places(k)' # {}
      BY <1>7, <2>1, Zenon DEF HandInv
    <3> QED BY <1>2, <2>1, <3>1, <3>2, Zenon DEF HandInv
  <2>3. ASSUME \A o \in Coming(k)' : o <= r.offset
        PROVE  /\ IsLatest(k, r.offset + 1)'
               /\ r.entry = log'[PartitionOf[k]][r.offset + 1]
    <3>1. IsLatest(k, r.offset + 1) /\ r.entry = log[PartitionOf[k]][r.offset + 1]
      BY <1>8, <2>1, <2>3, Zenon DEF HandInv
    <3>2. \A u \in Coming(k)' : u < r.offset + 1
      <4> SUFFICES ASSUME NEW u \in Coming(k)' PROVE u < r.offset + 1
        BY Zenon
      <4>1. u \in Nat
        <5>1. u \in Nat \/ \E s \in inHand : s.offset = u
          BY <1>2, <1>6, <2>1 DEF ComingRule
        <5> QED BY <5>1 DEF TableInv
      <4> QED BY <2>1, <2>3, <4>1
    <3> HIDE DEF k
    <3> QED BY <1>7, <1>10, <2>1, <3>1, <3>2, Zenon DEF IsLatest
  <2> QED BY <2>2, <2>3, Zenon DEF HandInv
<1>14. \A k \in Keys : NoneLeft(k) => NoneLeft(k)'
  BY <1>2, <1>7, Zenon DEF NoneLeft
<1>15. /\ \A k \in Keys : NotPast(k, db[k])'
       /\ \A k \in JoinedKeys : NotPast(k, joined[k])'
  BY <1>2, <1>9, GlobalAssumption, Zenon DEF TableInv
<1>16. ASSUME NEW p \in Partitions, NEW n \in 1 .. Len(log'[p]) PROVE InPlace(p, n)'
  <2>1. CASE n \in 1 .. Len(log[p])
    <3>1. log'[p][n] = log[p][n] /\ InPlace(p, n)
      BY <1>5, <2>1, Zenon DEF TableInv
    <3> QED BY <3>1, Zenon DEF InPlace
  <2>2. CASE n \notin 1 .. Len(log[p])
    <3>1. n \in Len(log[p]) + 1 .. Len(log'[p])
      BY <1>5, <2>2
    <3> QED BY <1>5, <3>1, Zenon DEF InPlace, q
  <2> QED BY <2>1, <2>2, Zenon
<1>17. \A p \in Partitions : pos'[p] <= Len(log'[p])
  <2> SUFFICES ASSUME NEW p \in Partitions PROVE pos'[p] <= Len(log'[p])
    BY Zenon
  <2>1. pos'[p] \in Nat /\ pos'[p] <= Len(log[p])
    BY <1>2, Zenon DEF TableInv, StartInv
  <2>2. Len(log[p]) \in Nat /\ Len(log'[p]) \in Nat /\ Len(log'[p]) >= Len(log[p])
    BY <1>5, Zenon
  <2> QED BY <2>1, <2>2
<1> QED
  BY <1>2, <1>12, <1>13, <1>14, <1>15, <1>16, <1>17, Zenon DEF TableInv, Active

\* Compaction keeps the latest record of a key, or takes the only one: a
\* tombstone that the table has applied.
LEMMA TableCompact ==
  ASSUME LongDowntime => ~Persistent,
         StartInv, StartInv', TableInv, NEW q \in Partitions,
         NEW n \in 1 .. Len(log[q]), Compact(q, n)
  PROVE  TableInv'
<1>0. PICK j \in Keys : j = log[q][n].key /\ PartitionOf[j] = q
  BY DEF TableInv, InPlace, Compact
<1> DEFINE e == log[q][n]
           Superseded == \E m \in n + 1 .. Len(log[q]) : log[q][m].key = j
<1>1. /\ e # Hole
      /\ \/ Superseded
         \/ /\ ~e.live /\ \A m \in 1 .. n - 1 : log[q][m].key # j
            /\ phase = "closed" \/ (pos[q] >= n /\ \A r \in inHand : r.entry.key # j)
            /\ LongDowntime \/ db[j] = -1
      /\ log' = [log EXCEPT ![q] = [log[q] EXCEPT ![n] = Hole]]
      /\ UNCHANGED <<db, phase, consumer, tailing, running, faults>>
  BY <1>0, Zenon DEF Compact
<1>2. UNCHANGED <<db, phase, hwm, pos, tail, inHand, joined>>
  BY <1>1, Zenon DEF consumer, tailing, running
<1>3. log \in [Partitions -> Seq(Entry)] /\ log[q] \in Seq(Entry) /\ Len(log[q]) \in Nat
      /\ pos[q] \in Nat
  BY DEF StartInv
<1>4. j \in Keys /\ PartitionOf[j] = q /\ n \in Places(j) /\ n \in Nat \ {0}
  BY <1>0, <1>3 DEF Places
<1>5. ASSUME NEW p \in Partitions
      PROVE  /\ Len(log'[p]) = Len(log[p]) /\ Len(log[p]) \in Nat
             /\ \A m \in 1 .. Len(log[p]) :
                  log'[p][m] = IF p = q /\ m = n THEN Hole ELSE log[p][m]
  BY <1>1, <1>3
<1>6. ComingRule /\ ComingRule'
  <2>1. ComingRule'
    BY ComingMeans, PTL
  <2> QED BY <2>1, ComingMeans, Zenon
<1> HIDE DEF e, Superseded
<1>7. ASSUME NEW k \in Keys
      PROVE  /\ PartitionOf[k] \in Partitions /\ Places(k) \subseteq Nat \ {0}
             /\ Places(k)' = Places(k) \ (IF k = j THEN {n} ELSE {})
             /\ \A m \in Places(k)' : log'[PartitionOf[k]][m] = log[PartitionOf[k]][m]
  <2>1. PartitionOf[k] \in Partitions /\ k # Hole.key /\ Places(k) \subseteq Nat \ {0}
    BY KeyType, GlobalAssumption DEF Hole
  <2>2. log[q][n].key = j
    BY <1>0, Zenon
  <2>3. ASSUME NEW m \in 1 .. Len(log[PartitionOf[k]])
        PROVE  /\ log'[PartitionOf[k]][m].key = k <=>
                    log[PartitionOf[k]][m].key = k /\ ~(k = j /\ m = n)
               /\ log'[PartitionOf[k]][m].key = k =>
                    log'[PartitionOf[k]][m] = log[PartitionOf[k]][m]
    <3>1. CASE PartitionOf[k] = q /\ m = n
      BY <1>5, <2>1, <2>2, <3>1, Zenon
    <3>2. CASE ~(PartitionOf[k] = q /\ m = n)
      BY <1>4, <1>5, <2>1, <3>2, Zenon
    <3> QED BY <3>1, <3>2, Zenon
  <2>4. Len(log'[PartitionOf[k]]) = Len(log[PartitionOf[k]])
    BY <1>5, <2>1, Zenon
  <2> QED BY <2>1, <2>3, <2>4, Zenon DEF Places
<1>8. ASSUME NEW k \in Keys, NEW o \in Int, NotPast(k, o), k # j \/ Superseded
      PROVE  NotPast(k, o)'
  <2>1. CASE k # j
    BY <1>5, <1>7, <1>8, <2>1, Zenon DEF NotPast
  <2>2. CASE k = j /\ Superseded
    <3>1. PICK m \in n + 1 .. Len(log[q]) : log[q][m].key = j
      BY <2>2, Zenon DEF Superseded
    <3>2. m \in Places(j) /\ m > n /\ m \in Int
      BY <1>3, <1>4, <3>1 DEF Places
    <3>3. m \in Places(k)'
      BY <1>4, <1>7, <2>2, <3>2
    <3>4. PICK a \in Places(k) : a - 1 >= o
      BY <1>8, <2>2, <3>2, Zenon DEF NotPast
    <3>5. \E b \in Places(k)' : b - 1 >= o
      BY <1>4, <1>7, <2>2, <3>2, <3>3, <3>4
    <3> QED BY <1>5, <1>7, <1>8, <3>5, Zenon DEF NotPast
  <2> QED BY <1>8, <2>1, <2>2, Zenon
<1>9. ASSUME NEW k \in Keys, k # j \/ Superseded, NEW a, IsLatest(k, a)
      PROVE  IsLatest(k, a)' /\ log'[PartitionOf[k]][a] = log[PartitionOf[k]][a]
  <2>1. k = j => a # n
    <3> SUFFICES ASSUME k = j, a = n PROVE FALSE
      BY Zenon
    <3>1. PICK m \in n + 1 .. Len(log[q]) : log[q][m].key = j
      BY <1>9, Zenon DEF Superseded
    <3>2. m \in Places(j) /\ m > n /\ m \in Int
      BY <1>3, <1>4, <3>1 DEF Places
    <3> QED BY <1>4, <1>9, <3>2 DEF IsLatest
  <2>2. a \in Places(k)'
    BY <1>7, <1>9, <2>1, Zenon DEF IsLatest
  <2> QED BY <1>7, <1>9, <2>2, Zenon DEF IsLatest
<1>10. ASSUME NEW k \in Keys, k # j \/ Superseded, NEW u \in Coming(k)
       PROVE  \E v \in Coming(k)' : v >= u
  <2>1. CASE \E r \in inHand : r.entry.key = k /\ r.offset = u
    <3>1. u \in Coming(k)'
      BY <1>2, <1>6, <2>1, Zenon DEF ComingRule
    <3>2. u \in Nat
      BY <2>1 DEF TableInv
    <3>3. u >= u
      BY <3>2
    <3> QED BY <3>1, <3>3, Zenon
  <2>2. CASE u \in Nat /\ u + 1 \in Places(k) /\ u >= pos[PartitionOf[k]]
    <3>1. CASE u + 1 \in Places(k)'
      BY <1>2, <1>6, <2>2, <3>1 DEF ComingRule
    <3>2. CASE u + 1 \notin Places(k)'
      <4>1. k = j /\ u + 1 = n /\ Superseded
        BY <1>7, <1>10, <2>2, <3>2, Zenon
      <4>2. PICK m \in n + 1 .. Len(log[q]) : log[q][m].key = j
        BY <4>1, Zenon DEF Superseded
      <4>3. m \in Places(j) /\ m > n /\ m \in Int
        BY <1>3, <1>4, <4>2 DEF Places
      <4>4. m \in Places(k)' /\ m - 1 \in Nat /\ (m - 1) + 1 = m /\ m - 1 >= u
            /\ m - 1 >= pos'[PartitionOf[k]]
        BY <1>2, <1>3, <1>4, <1>7, <2>2, <4>1, <4>3
      <4> QED BY <1>6, <4>4 DEF ComingRule
    <3> QED BY <3>1, <3>2, Zenon
  <2> QED BY <1>6, <1>10, <2>1, <2>2 DEF ComingRule
<1>11. ASSUME NEW k \in Keys, k # j \/ Superseded
       PROVE  /\ Settled(k) => Settled(k)'
              /\ NoneLeft(k) => NoneLeft(k)'
              /\ Places(k) # {} => Places(k)' # {}
  <2>1. Places(k) # {} => Places(k)' # {}
    <3>1. CASE k # j
      BY <1>7, <3>1, Zenon
    <3>2. CASE k = j /\ Superseded
      <4>1. PICK m \in n + 1 .. Len(log[q]) : log[q][m].key = j
        BY <3>2, Zenon DEF Superseded
      <4>2. m \in Places(j) /\ m # n
        BY <1>3, <1>4, <4>1 DEF Places
      <4> QED BY <1>7, <3>2, <4>2, Zenon
    <3> QED BY <1>11, <3>1, <3>2, Zenon
  <2>2. NoneLeft(k) => NoneLeft(k)'
    BY <1>2, <2>1, Zenon DEF NoneLeft
  <2>3. ASSUME UpToDate(k) PROVE UpToDate(k)'
    <3>1. CASE Places(k) = {} /\ db[k] = -1
      BY <1>2, <1>7, <3>1, Zenon DEF UpToDate
    <3>2. CASE \E a : IsLatest(k, a) /\ db[k] = ValueOf(log[PartitionOf[k]][a], a - 1)
      BY <1>2, <1>9, <1>11, <3>2, Zenon DEF UpToDate, IsLatest
    <3> QED BY <2>3, <3>1, <3>2, Zenon DEF UpToDate
  <2>4. Coming(k)' = {} => Coming(k) = {}
    BY <1>10, <1>11, Zenon
  <2> QED BY <2>1, <2>2, <2>3, <2>4, Zenon DEF Settled
<1>12. ASSUME ~Superseded PROVE Places(j) = {n} /\ Places(j)' = {} /\ ~e.live
  <2>1. ASSUME NEW m \in Places(j) PROVE m = n
    <3>1. m \in 1 .. Len(log[q]) /\ log[q][m].key = j
      BY <1>4, Zenon DEF Places
    <3>2. m \notin n + 1 .. Len(log[q])
      BY <1>12, <3>1, Zenon DEF Superseded
    <3>3. m \notin 1 .. n - 1
      BY <1>1, <1>12, <3>1, Zenon
    <3> QED BY <1>3, <1>4, <3>1, <3>2, <3>3
  <2>2. Places(j) = {n} /\ Places(j)' = {}
    BY <1>4, <1>7, <2>1, Zenon
  <2> QED BY <1>1, <1>12, <2>2, Zenon
<1>13. ASSUME ~Superseded, Active PROVE UpToDate(j)' /\ \A r \in inHand : r.entry.key # j
  <2>1. pos[q] >= n /\ \A r \in inHand : r.entry.key # j
    BY <1>1, <1>13, Zenon DEF Active
  <2>2. \A u \in Nat : u + 1 \in Places(j) => ~(u >= pos[PartitionOf[j]])
    BY <1>3, <1>4, <1>12, <1>13, <2>1
  <2>3. Coming(j) = {}
    BY <1>4, <1>6, <2>1, <2>2 DEF ComingRule
  <2>4. UpToDate(j)
    BY <1>4, <1>13, <2>3, Zenon DEF TableInv, Settled
  <2>5. PICK a : IsLatest(j, a) /\ db[j] = ValueOf(log[PartitionOf[j]][a], a - 1)
    BY <1>4, <2>4, Zenon DEF UpToDate
  <2>6. a = n /\ db[j] = -1
    BY <1>4, <1>12, <1>13, <2>5, Zenon DEF IsLatest, ValueOf, e
  <2>7. Places(j)' = {} /\ db'[j] = -1
    BY <1>2, <1>12, <1>13, <2>6, Zenon
  <2> QED BY <2>1, <2>7, Zenon DEF UpToDate
<1>14. ASSUME Active, NEW k \in Keys PROVE Settled(k)'
  <2>1. CASE k # j \/ Superseded
    BY <1>11, <1>14, <2>1, Zenon DEF TableInv
  <2>2. CASE k = j /\ ~Superseded
    BY <1>13, <1>14, <2>2, Zenon DEF Settled
  <2> QED BY <2>1, <2>2, Zenon
<1>15. ASSUME Active, NEW r \in inHand PROVE HandInv(r)'
  <2> DEFINE k == r.entry.key
  <2>1. k \in Keys /\ r.offset \in Nat /\ HandInv(r)
    BY <1>15, Zenon DEF TableInv
  <2>2. k # j \/ Superseded
    BY <1>13, <1>15, Zenon
  <2>3. /\ NotPast(k, r.offset)' /\ Places(k)' # {}
        /\ r.offset < pos'[PartitionOf[k]] /\ r.offset >= hwm'[PartitionOf[k]]
    <3>1. NotPast(k, r.offset)'
      <4>1. r.offset \in Int
        BY <2>1
      <4> QED BY <1>8, <2>1, <2>2, <4>1, Zenon DEF HandInv
    <3>2. Places(k)' # {}
      BY <1>11, <2>1, <2>2, Zenon DEF HandInv
    <3> QED BY <1>2, <2>1, <3>1, <3>2, Zenon DEF HandInv
  <2>4. ASSUME \A o \in Coming(k)' : o <= r.offset
        PROVE  /\ IsLatest(k, r.offset + 1)'
               /\ r.entry = log'[PartitionOf[k]][r.offset + 1]
    <3>1. ASSUME NEW u \in Coming(k) PROVE u <= r.offset
      <4> HIDE DEF k
      <4>1. PICK v \in Coming(k)' : v >= u
        BY <1>10, <2>1, <2>2, Zenon
      <4>2. u \in Nat /\ v \in Nat /\ v <= r.offset
        <5>1. \A s \in inHand : s.offset \in Nat
          BY DEF TableInv
        <5>2. u \in Nat \/ \E s \in inHand : s.entry.key = k /\ s.offset = u
          BY <1>6, <2>1 DEF ComingRule
        <5>3. v \in Nat \/ \E s \in inHand : s.entry.key = k /\ s.offset = v
          BY <1>2, <1>6, <2>1 DEF ComingRule
        <5> QED BY <2>4, <5>1, <5>2, <5>3, Zenon
      <4> QED BY <2>1, <4>1, <4>2
    <3>2. IsLatest(k, r.offset + 1) /\ r.entry = log[PartitionOf[k]][r.offset + 1]
      BY <2>1, <3>1, Zenon DEF HandInv
    <3> HIDE DEF k
    <3> QED BY <1>9, <2>1, <2>2, <3>2, Zenon
  <2> QED BY <2>3, <2>4, Zenon DEF HandInv
<1>16. phase = "new" \/ (phase = "closed" /\ Persistent) => \A k \in Keys : NoneLeft(k)'
  <2>1. ASSUME ~Superseded, phase = "new" \/ (phase = "closed" /\ Persistent)
        PROVE  db[j] = -1
    <3>1. phase # "new"
      BY <1>1, <1>4, <2>1 DEF TableInv
    <3> QED BY <1>1, <2>1, <3>1, Zenon
  <2> QED BY <1>2, <1>11, <2>1, Zenon DEF TableInv, NoneLeft
<1>17. ASSUME NEW k \in Keys, NEW o \in Int, NotPast(k, o) PROVE NotPast(k, o)'
  <2>1. CASE k # j \/ Superseded
    BY <1>8, <1>17, <2>1, Zenon
  <2>2. CASE k = j /\ ~Superseded
    BY <1>5, <1>7, <1>12, <1>17, <2>2, Zenon DEF NotPast
  <2> QED BY <2>1, <2>2, Zenon
<1>18. /\ \A k \in Keys : NotPast(k, db[k])'
       /\ \A k \in JoinedKeys : NotPast(k, joined[k])'
  BY <1>2, <1>17, GlobalAssumption, Zenon DEF TableInv
<1>19. ASSUME NEW p \in Partitions, NEW m \in 1 .. Len(log'[p]) PROVE InPlace(p, m)'
  <2>1. m \in 1 .. Len(log[p])
    BY <1>5, Zenon
  <2>2. log'[p][m] = Hole \/ log'[p][m] = log[p][m]
    BY <1>5, <2>1, Zenon
  <2>3. InPlace(p, m)
    BY <2>1, Zenon DEF TableInv
  <2> QED BY <2>2, <2>3, Zenon DEF InPlace
<1>20. \A p \in Partitions : pos'[p] <= Len(log'[p])
  BY <1>2, <1>5, Zenon DEF TableInv
<1> QED
  BY <1>2, <1>14, <1>15, <1>16, <1>18, <1>19, <1>20, Zenon DEF TableInv, Active

\* The inductive invariant of the table holds at the start.
LEMMA TableInvInit == Init => TableInv
<1> SUFFICES ASSUME Init PROVE TableInv
  BY Zenon
<1>1. \A p \in Partitions : Len(log[p]) = 0 /\ pos[p] = 0
  BY Zenon DEF Init
<1>2. \A k \in Keys : PartitionOf[k] \in Partitions
  BY GlobalAssumption, Zenon
<1>3. \A k \in Keys : Places(k) = {} /\ NotPast(k, -1)
  <2>1. 1 .. 0 = {} /\ -1 < 0
    OBVIOUS
  <2>2. \A k \in Keys : Len(log[PartitionOf[k]]) = 0
    BY <1>1, <1>2, Zenon
  <2>3. \A k \in Keys : Places(k) = {}
    BY <2>1, <2>2, Zenon DEF Places
  <2> QED BY <2>1, <2>2, <2>3, Zenon DEF NotPast
<1>4. /\ db \in [Keys -> Int] /\ \A k \in Keys : db[k] = -1
      /\ joined \in [JoinedKeys -> Int] /\ \A k \in JoinedKeys : joined[k] = -1
  BY DEF Init, EmptyTable
<1>5. \A k \in JoinedKeys : k \in Keys
  BY GlobalAssumption, Zenon
<1>6. phase = "new" /\ inHand = {} /\ ~Active
  BY Zenon DEF Init, Active
<1> QED BY <1>1, <1>3, <1>4, <1>5, <1>6 DEF TableInv, NoneLeft

\* Every step keeps the inductive invariant of the table.
LEMMA TableInvNext ==
  ASSUME LongDowntime => ~Persistent
  PROVE  StartInv /\ StartInv' /\ TableInv /\ [Next]_vars => TableInv'
<1> SUFFICES ASSUME StartInv, StartInv', TableInv, [Next]_vars PROVE TableInv'
  BY Zenon
<1>1. CASE StartTail
  <2>1. Active /\ Active' /\ inHand = {} /\ UNCHANGED <<log, db, hwm, pos, inHand, joined>>
    BY <1>1, Zenon DEF StartTail, Active, consumer, StartInv, TableInv
  <2> QED BY <2>1, TableFrame, Zenon
<1>2. CASE TailFail \/ TailStop
  BY <1>2, TableFrame, Zenon DEF TailFail, TailStop, consumer, running
<1>3. CASE HealthGate \/ PollRecords \/ PollEmpty \/ Batch \/ Cancel
  <2>1. UNCHANGED <<log, db, hwm, pos, inHand, joined, tail, phase>>
    BY <1>3, Zenon DEF HealthGate, PollRecords, PollEmpty, Batch, Cancel, consumer, tailing
  <2> QED BY <2>1, TableFrame, Zenon DEF TableInv
<1>4. CASE CloseCancel \/ CloseStore
  <2>1. /\ UNCHANGED <<log, db, hwm, pos, inHand, joined, tail>> /\ Active
        /\ Active' \/ phase' = "closed"
    BY <1>4, Zenon DEF CloseCancel, CloseStore, consumer, tailing, running, Active
  <2> QED BY <2>1, TableFrame, Zenon DEF TableInv
<1>5. CASE BootstrapFail \/ Crash
  <2>1. /\ NoProcess /\ phase # "closed" /\ phase' = "closed"
        /\ UNCHANGED <<log, joined, db>>
    BY <1>5, Zenon DEF BootstrapFail, Crash
  <2> QED BY <2>1, TableNoProcess, Zenon
<1>6. CASE Restart
  <2>1. /\ NoProcess /\ phase' = "new" /\ UNCHANGED <<log, joined>>
        /\ db' \in {db, EmptyTable} /\ (Persistent \/ db' = EmptyTable)
    BY <1>6, Zenon DEF Restart
  <2> QED BY <2>1, TableNoProcess, Zenon
<1>7. CASE UNCHANGED vars
  <2>1. UNCHANGED <<log, db, hwm, pos, inHand, joined, tail, phase>>
    BY <1>7, Zenon DEF vars, consumer, tailing, running
  <2> QED BY <2>1, TableFrame, Zenon DEF TableInv
<1> QED
  BY <1>1, <1>2, <1>3, <1>4, <1>5, <1>6, <1>7, TableStartBootstrap,
     TableBootstrapApply, TableTailPoll, TableTailApply, TableJoin, TableProduce,
     TableCompact, Zenon
  DEF Next, Progress, Environment

\* "global stores are rebuilt from the source topic on restart via Bootstrap":
\* whatever is written, compacted, fetched, cancelled or lost in a crash, once
\* all of a partition is delivered and applied, the table holds exactly the
\* latest values of its keys.  It needs that no downtime outlasts the
\* tombstones of the topic where the store survives it.
THEOREM TableAlwaysMatches ==
  ASSUME LongDowntime => ~Persistent
  PROVE  Spec => []TableMatchesTopic
<1>1. ASSUME StartInv, TableInv PROVE TableMatchesTopic
  <2> SUFFICES ASSUME tail = "loop", NEW k \in Keys, Undelivered(PartitionOf[k]) = {}
               PROVE  db[k] = Latest(k)
    BY Zenon DEF TableMatchesTopic
  <2>1. Active /\ inHand = {}
    BY <1>1, Zenon DEF StartInv, TableInv, Active
  <2>2. Coming(k) = {}
    BY <2>1, Zenon DEF Coming
  <2>3. UpToDate(k)
    BY <1>1, <2>1, <2>2, Zenon DEF TableInv, Settled
  <2> QED BY <1>1, <2>3, LatestMeans, Zenon DEF UpToDate, LatestRule
<1> QED
  BY <1>1, StartInvInit, StartInvNext, TableInvInit, TableInvNext, PTL DEF Spec

\* JoinGlobal: a key is joined with an older value than before, in this run of
\* the application or an earlier one, only while a newer record of the key from
\* after the start of Bootstrap is undelivered or in hand.
THEOREM JoinsOnlyAdvance ==
  ASSUME LongDowntime => ~Persistent
  PROVE  Spec => JoinsNeverGoBack
<1>1. ASSUME StartInv, TableInv, [Next]_vars
      PROVE  [\A k \in JoinedKeys :
                \/ joined'[k] >= joined[k]
                \/ \E o \in Coming(k) : o >= hwm[PartitionOf[k]]]_joined
  <2>1. ASSUME NEW j \in JoinedKeys, JoinGlobal(j), NEW k \in JoinedKeys,
               ~(joined'[k] >= joined[k])
        PROVE  \E o \in Coming(k) : o >= hwm[PartitionOf[k]]
    <3>1. /\ joined \in [JoinedKeys -> Int] /\ db \in [Keys -> Int] /\ k \in Keys
          /\ joined' = [joined EXCEPT ![j] = db[j]] /\ loop = "batch" /\ db[j] # -1
      BY <1>1, <2>1, GlobalAssumption, Zenon DEF JoinGlobal, TableInv
    <3>2. k = j /\ ~(db[k] >= joined[k])
      BY <3>1, <2>1
    <3>3. Active
      BY <1>1, <3>1, Zenon DEF StartInv, TableInv, Active
    <3>4. Coming(k) # {}
      <4> SUFFICES ASSUME Coming(k) = {} PROVE FALSE
        BY Zenon
      <4>1. PICK n : IsLatest(k, n) /\ db[k] = ValueOf(log[PartitionOf[k]][n], n - 1)
        BY <1>1, <3>1, <3>2, <3>3, Zenon DEF TableInv, Settled, UpToDate
      <4>2. db[k] = n - 1
        BY <3>1, <3>2, <4>1, Zenon DEF ValueOf
      <4>3. PICK m \in Places(k) : m - 1 >= joined[k]
        BY <1>1, <4>1, Zenon DEF TableInv, NotPast, IsLatest
      <4>4. m <= n /\ m \in Int /\ n \in Int /\ joined[k] \in Int
        BY <1>1, <3>1, <4>1, <4>3, KeyType DEF IsLatest
      <4> QED BY <3>2, <4>2, <4>3, <4>4
    <3>5. PICK o : o \in Coming(k)
      BY <3>4, Zenon
    <3>6. o \in Undelivered(PartitionOf[k]) \/ \E r \in inHand : r.entry.key = k /\ r.offset = o
      BY <3>5, Zenon DEF Coming
    <3>7. o >= hwm[PartitionOf[k]]
      <4>1. CASE o \in Undelivered(PartitionOf[k])
        <5>1. CaughtUp(PartitionOf[k])
          BY <1>1, <3>1, KeyType, Zenon DEF StartInv
        <5> QED BY <4>1, <5>1, Zenon DEF CaughtUp
      <4>2. CASE \E r \in inHand : r.entry.key = k /\ r.offset = o
        BY <1>1, <3>3, <4>2, Zenon DEF TableInv, HandInv
      <4> QED BY <3>6, <4>1, <4>2, Zenon
    <3> QED BY <3>5, <3>7, Zenon
  <2>2. CASE \E j \in JoinedKeys : JoinGlobal(j)
    BY <2>1, <2>2, Zenon
  <2>3. CASE ~\E j \in JoinedKeys : JoinGlobal(j)
    <3>1. UNCHANGED joined
      BY <1>1, <2>3, Zenon
      DEF Next, Progress, Environment, vars, running, NoProcess, StartBootstrap,
          BootstrapApply, StartTail, TailApply, TailStop, HealthGate, PollEmpty, Batch,
          CloseCancel, CloseStore, Produce, Compact, TailPoll, PollRecords,
          BootstrapFail, TailFail, Cancel, Restart, Crash
    <3> QED BY <3>1, Zenon
  <2> QED BY <2>2, <2>3, Zenon
<1> QED
  BY <1>1, StartInvInit, StartInvNext, TableInvInit, TableInvNext, PTL
  DEF Spec, JoinsNeverGoBack
============================================================================
