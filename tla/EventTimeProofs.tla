--------------------------- MODULE EventTimeProofs ---------------------------
(***************************************************************************)
(* Proofs about the operators that work in event time, for every window,   *)
(* number of records and order of arrival: the windows of WindowAggregate  *)
(* hold the records they should and retention is bounded; StreamJoin emits *)
(* the pairs within its join window, and a timely record misses none; the  *)
(* sessions of SessionAggregate are the runs of the accepted timestamps.   *)
(***************************************************************************)
EXTENDS WindowAggregate, TLAPS, WellFoundedInduction

CONSTANTS Timestamps, Before, After, JoinGrace, Width,  \* of StreamJoin
          Gap, SessionGrace                             \* of SessionAggregate
VARIABLES buffer, joined, latest,                       \* of StreamJoin
          deleted                                       \* of SessionAggregate

\* StreamJoin and SessionAggregate over the same records and times.
Join    == INSTANCE StreamJoin WITH Grace <- JoinGrace
Session == INSTANCE SessionAggregate WITH Grace <- SessionGrace

-----------------------------------------------------------------------------
(* The windows of a record.                                                *)

\* Multiples of a positive number are ordered as their factors are.
LEMMA Multiples ==
  ASSUME NEW m \in Int, NEW n \in Int, NEW b \in Nat \ {0}
  PROVE  m * b \in Int /\ n * b \in Int /\ (m <= n <=> m * b <= n * b)
         /\ (m < n <=> m * b < n * b) /\ (m + 1) * b = m * b + b
OBVIOUS

\* A number is a multiple of b exactly if its remainder is 0.
LEMMA Divided ==
  ASSUME NEW a \in Int, NEW b \in Nat \ {0}
  PROVE  /\ a \div b \in Int /\ a % b \in 0 .. b - 1
         /\ a = (a \div b) * b + (a % b)
OBVIOUS

\* floorDiv rounds towards minus infinity, although Go's division does not.
LEMMA FloorDiv ==
  ASSUME NEW a \in Int, NEW b \in Nat \ {0}
  PROVE  /\ floorDiv(a, b) \in Int
         /\ floorDiv(a, b) * b <= a
         /\ a < floorDiv(a, b) * b + b
<1>1. CASE a >= 0
  <2>1. Quotient(a, b) = a \div b
    BY <1>1, Zenon DEF Quotient
  <2>2. a \div b \in Int /\ a % b \in 0 .. b - 1 /\ a = (a \div b) * b + (a % b)
    BY Divided, Zenon
  <2>3. Remainder(a, b) = a % b
    BY <2>1, <2>2 DEF Remainder
  <2> QED BY <2>1, <2>2, <2>3 DEF floorDiv
<1>2. CASE a < 0
  <2>0. PICK n \in Nat : n = -a
    BY <1>2
  <2> DEFINE q == n \div b
             r == n % b
  <2>1. Quotient(a, b) = -q
    BY <1>2, <2>0 DEF Quotient
  <2>2. q \in Int /\ r \in 0 .. b - 1 /\ -a = q * b + r
    BY <2>0, Divided
  <2> HIDE DEF q, r
  <2>3. q * b \in Int /\ b * (-q) = -(q * b) /\ (-q) * b = -(q * b)
        /\ (-q - 1) * b = -(q * b) - b
    BY <2>2
  <2>4. Remainder(a, b) = -r
    BY <2>1, <2>2, <2>3 DEF Remainder
  <2>5. CASE r = 0
    BY <2>1, <2>2, <2>3, <2>4, <2>5 DEF floorDiv
  <2>6. CASE r > 0
    <3>1. floorDiv(a, b) = -q - 1
      BY <2>1, <2>2, <2>4, <2>6 DEF floorDiv
    <3> QED BY <3>1, <2>2, <2>3, <2>6
  <2> QED BY <2>2, <2>5, <2>6
<1> QED BY <1>1, <1>2

\* HoppingStarts: the starts between earliestStart and latestStart are those of
\* the windows that contain the timestamp.
LEMMA HoppingWindows ==
  ASSUME def \in Definitions, NEW ts \in Nat, NEW s \in Nat
  PROVE  s \in HoppingStarts(ts)
           <=> s % Advance = 0 /\ s <= ts /\ ts < s + Size
<1> DEFINE size == Size
           adv == Advance
           late == floorDiv(ts, adv)
           early == floorDiv(ts - size + adv, adv)
           m == s \div adv
<1>1. size \in Nat \ {0} /\ adv \in Nat \ {0}
  BY WindowAssumption DEF Size, Advance
<1>2. s \in HoppingStarts(ts)
        <=> /\ s % adv = 0 /\ s <= late * adv
            /\ (IF early * adv < 0 THEN 0 ELSE early * adv) <= s
  <2>1. late * adv \in Int /\ early * adv \in Int
    BY <1>1, FloorDiv
  <2> QED BY <2>1 DEF HoppingStarts
<1> HIDE DEF size, adv
<1>3. late \in Int /\ late * adv <= ts /\ ts < late * adv + adv
  BY <1>1, FloorDiv
<1>4. /\ early \in Int /\ early * adv <= ts - size + adv
      /\ ts - size + adv < early * adv + adv
  <2>1. ts - size + adv \in Int
    BY <1>1
  <2> QED BY <1>1, <2>1, FloorDiv, Zenon
<1>5. m \in Int /\ (s % adv = 0 => s = m * adv)
  BY <1>1, Divided
<1> HIDE DEF late, early, m
<1>6. late * adv \in Int /\ early * adv \in Int /\ m * adv \in Int
  BY <1>1, <1>3, <1>4, <1>5, Multiples, Zenon
<1>7. s = m * adv => (s <= late * adv <=> s <= ts)
  <2>1. m <= late <=> m * adv <= late * adv
    BY <1>1, <1>3, <1>5, Multiples, Zenon
  <2>2. late < m => late * adv + adv <= m * adv
    <3>1. late + 1 \in Int /\ (late + 1) * adv = late * adv + adv
      BY <1>1, <1>3, Multiples
    <3>2. late + 1 <= m => (late + 1) * adv <= m * adv
      BY <1>1, <1>5, <3>1, Multiples, Zenon
    <3> QED BY <1>3, <1>5, <3>1, <3>2
  <2> QED BY <1>1, <1>3, <1>5, <1>6, <2>1, <2>2
<1>8. s = m * adv => (early * adv <= s <=> ts < s + size)
  <2>1. early <= m <=> early * adv <= m * adv
    BY <1>1, <1>4, <1>5, Multiples, Zenon
  <2>2. m < early => m * adv + adv <= early * adv
    <3>1. m + 1 \in Int /\ (m + 1) * adv = m * adv + adv
      BY <1>1, <1>5, Multiples
    <3>2. m + 1 <= early => (m + 1) * adv <= early * adv
      BY <1>1, <1>4, <3>1, Multiples, Zenon
    <3> QED BY <1>4, <1>5, <3>1, <3>2
  <2> QED BY <1>1, <1>4, <1>5, <1>6, <2>1, <2>2
<1>9. (IF early * adv < 0 THEN 0 ELSE early * adv) <= s <=> early * adv <= s
  BY <1>6
<1> QED BY <1>2, <1>5, <1>7, <1>8, <1>9, Zenon DEF size, adv

\* Tumbling windows: the one window that contains the timestamp.
LEMMA TumblingWindow ==
  ASSUME def \in Definitions, NEW ts \in Nat, NEW s \in Nat
  PROVE  s \in TumblingStarts(ts)
           <=> s % Size = 0 /\ s <= ts /\ ts < s + Size
<1> DEFINE size == Size
           q == ts \div size
           r == ts % size
           m == s \div size
           z == s % size
<1>1. size \in Nat \ {0}
  BY WindowAssumption, Zenon DEF Size
<1>2. s \in TumblingStarts(ts) <=> s = q * size
  BY DEF TumblingStarts, Quotient
<1> HIDE DEF size
<1>3. q \in Int /\ r \in 0 .. size - 1 /\ ts = q * size + r
  BY <1>1, Divided
<1>4. m \in Int /\ z \in 0 .. size - 1 /\ s = m * size + z
  BY <1>1, Divided
<1> HIDE DEF q, r, m, z
<1>5. q * size \in Int /\ m * size \in Int
  BY <1>1, <1>3, <1>4, Multiples, Zenon
<1>6. q < m => q * size + size <= m * size
  <2>1. q + 1 \in Int /\ (q + 1) * size = q * size + size
    BY <1>1, <1>3, Multiples
  <2>2. q + 1 <= m => (q + 1) * size <= m * size
    BY <1>1, <1>4, <2>1, Multiples, Zenon
  <2> QED BY <1>3, <1>4, <2>1, <2>2
<1>7. m < q => m * size + size <= q * size
  <2>1. m + 1 \in Int /\ (m + 1) * size = m * size + size
    BY <1>1, <1>4, Multiples
  <2>2. m + 1 <= q => (m + 1) * size <= q * size
    BY <1>1, <1>3, <2>1, Multiples, Zenon
  <2> QED BY <1>3, <1>4, <2>1, <2>2
<1>8. s = q * size <=> z = 0 /\ s <= ts /\ ts < s + size
  <2>1. CASE m = q
    BY <2>1, <1>1, <1>3, <1>4, <1>5
  <2>2. CASE m < q
    BY <2>2, <1>1, <1>3, <1>4, <1>5, <1>7
  <2>3. CASE q < m
    BY <2>3, <1>1, <1>3, <1>4, <1>5, <1>6
  <2> QED BY <2>1, <2>2, <2>3, <1>3, <1>4
<1> QED BY <1>2, <1>8, Zenon DEF size, z

\* Assign: a record belongs to the windows whose interval contains it.
LEMMA AssignedWindows ==
  ASSUME def \in Definitions, NEW ts \in Nat, NEW s \in Nat
  PROVE  s \in Assign(ts)
           <=> s % Step = 0 /\ s <= ts /\ ts < s + Size
<1>1. Hopping \in BOOLEAN
  BY WindowAssumption, Zenon DEF Hopping
<1>2. CASE Hopping
  <2>1. Assign(ts) = HoppingStarts(ts) /\ Step = Advance
    BY <1>2, Zenon DEF Assign, Step
  <2> QED BY <2>1, HoppingWindows, Zenon
<1>3. CASE ~Hopping
  <2>1. Assign(ts) = TumblingStarts(ts) /\ Step = Size
    BY <1>3, Zenon DEF Assign, Step
  <2> QED BY <2>1, TumblingWindow, Zenon
<1> QED BY <1>1, <1>2, <1>3, Zenon

-----------------------------------------------------------------------------
(* WindowAggregate.                                                        *)

Arrival == [key : Keys, ts : 0 .. MaxTs, late : BOOLEAN]

\* The invariant: types, and no window that the last sweep should have deleted
\* is stored, nor has one been brought back by a record that was not late.
WindowInv ==
  /\ def \in Definitions
  /\ arrivals \in Seq(Arrival)
  /\ store \in [Keys -> [Starts -> SUBSET Int]]
  /\ streamTime \in Nat /\ lastSweepTime \in Nat /\ persisted \in Nat /\ swept \in Nat
  /\ lastSweepTime <= streamTime
  /\ \A k \in Keys, s \in Starts :
       store[k][s] # {} => s > lastSweepTime - 2 * Size - Grace

\* The constants of a definition, which no step changes.
LEMMA DefinitionTypes ==
  ASSUME def \in Definitions
  PROVE  Size \in Nat \ {0} /\ Grace \in Nat
  BY WindowAssumption, Zenon DEF Size, Grace

\* A record that is not late lies in no window older than that.
LEMMA WindowProcess ==
  ASSUME WindowInv, NEW k \in Keys, NEW ts \in 0 .. MaxTs,
         Process(k, ts)
  PROVE  WindowInv'
<1> DEFINE size == Size
           grace == Grace
<1>1. size \in Nat \ {0} /\ grace \in Nat /\ size' = size /\ grace' = grace
      /\ def' = def
  BY DefinitionTypes, Zenon DEF WindowInv, Process, Size, Grace
<1>2. ts \in Nat /\ MaxTs \in Nat
  BY WindowAssumption
<1> DEFINE late == IsLate(ts, streamTime, Size, Grace)
<1>3. late \in BOOLEAN
  BY DEF IsLate
<1>4. arrivals' \in Seq(Arrival)
  <2> DEFINE r == [key |-> k, ts |-> ts, late |-> late]
  <2>1. r \in Arrival
    BY <1>3, Zenon DEF Arrival
  <2>2. arrivals' = Append(arrivals, r)
    BY Zenon DEF Process
  <2> HIDE DEF r
  <2> QED BY <2>1, <2>2 DEF WindowInv
<1>5. /\ streamTime' \in Nat /\ streamTime <= streamTime' /\ ts <= streamTime'
      /\ streamTime' = Advanced(streamTime, ts)
      /\ lastSweepTime' = lastSweepTime /\ persisted' = persisted /\ swept' = swept
  BY <1>2 DEF WindowInv, Process, Advanced
<1>6. store' = [store EXCEPT ![k] = [s \in Starts |->
                  IF ~late /\ s \in Assign(ts)
                    THEN @[s] \cup {Len(arrivals) + 1} ELSE @[s]]]
  BY Zenon DEF Process
<1>7. store' \in [Keys -> [Starts -> SUBSET Int]]
  <2>1. Len(arrivals) + 1 \in Int
    BY DEF WindowInv
  <2> QED BY <1>6, <2>1 DEF WindowInv
<1>8. ASSUME NEW l \in Keys, NEW s \in Starts, store'[l][s] # {}
      PROVE  s > lastSweepTime - 2 * size - grace
  <2>1. s \in Nat
    BY <1>2 DEF Starts
  <2>2. CASE store[l][s] # {}
    BY <2>2, Zenon DEF WindowInv
  <2>3. CASE store[l][s] = {}
    <3>1. ~late /\ s \in Assign(ts)
      BY <1>6, <1>8, <2>3, Zenon DEF WindowInv
    <3>2. ts < s + size
      BY <1>2, <2>1, <3>1, AssignedWindows, Zenon DEF WindowInv
    <3>3. ts >= streamTime' - size - grace
      BY <1>1, <1>2, <1>5, <3>1 DEF IsLate, LateBoundary
    <3> QED BY <1>1, <1>2, <1>5, <2>1, <3>2, <3>3 DEF WindowInv
  <2> QED BY <2>2, <2>3, Zenon
<1> HIDE DEF size, grace
<1>9. WindowInv' <=>
        /\ def' \in Definitions
        /\ arrivals' \in Seq(Arrival)
        /\ store' \in [Keys -> [Starts -> SUBSET Int]]
        /\ streamTime' \in Nat /\ lastSweepTime' \in Nat /\ persisted' \in Nat
        /\ swept' \in Nat /\ lastSweepTime' <= streamTime'
        /\ \A l \in Keys, s \in Starts :
             store'[l][s] # {} => s > lastSweepTime' - 2 * size' - grace'
  BY Zenon DEF WindowInv, Starts, size, grace
<1> QED BY <1>1, <1>4, <1>5, <1>7, <1>8, <1>9 DEF WindowInv

\* A sweep, whole or cut short, deletes only windows below the boundary it
\* leaves in swept.
LEMMA SweptWindows ==
  ASSUME WindowInv, NEW W \in SUBSET ExpiredWindows,
         DeleteWindows(W)
  PROVE  /\ store' \in [Keys -> [Starts -> SUBSET Int]]
         /\ swept' \in Nat /\ swept <= swept'
         /\ \A k \in Keys, s \in Starts :
              /\ store'[k][s] \in {store[k][s], {}}
              /\ s >= swept' => store'[k][s] = store[k][s]
              /\ <<k, s>> \in W => store'[k][s] = {}
<1> DEFINE b == streamTime - Size - Grace
<1>1. Size \in Nat \ {0} /\ Grace \in Nat /\ streamTime \in Nat
      /\ swept \in Nat /\ b \in Int
  BY DefinitionTypes DEF WindowInv
<1>2. swept' = IF b > swept THEN b ELSE swept
  BY Zenon DEF DeleteWindows, Advanced, LateBoundary
<1>3. store' = [k \in Keys |-> [s \in Starts |->
                  IF <<k, s>> \in W THEN {} ELSE store[k][s]]]
  BY Zenon DEF DeleteWindows
<1>4. ASSUME NEW k \in Keys, NEW s \in Starts, <<k, s>> \in W
      PROVE  b > 0 /\ s < b /\ s \in Int
  BY <1>4 DEF ExpiredWindows, Expired, Starts
<1> HIDE DEF b
<1>5. swept' \in Nat /\ swept <= swept' /\ b <= swept'
  BY <1>1, <1>2
<1>6. store' \in [Keys -> [Starts -> SUBSET Int]]
  BY <1>3, Zenon DEF WindowInv
<1>7. ASSUME NEW k \in Keys, NEW s \in Starts
      PROVE  /\ store'[k][s] = IF <<k, s>> \in W THEN {} ELSE store[k][s]
             /\ s >= swept' => <<k, s>> \notin W
  <2>1. store'[k][s] = IF <<k, s>> \in W THEN {} ELSE store[k][s]
    BY <1>3, Zenon
  <2>2. <<k, s>> \in W => ~(s >= swept')
    BY <1>1, <1>4, <1>5
  <2> QED BY <2>1, <2>2, Zenon
<1> QED BY <1>5, <1>6, <1>7, Zenon

\* A sweep that is due leaves no window below its boundary.
LEMMA WindowSweep ==
  ASSUME WindowInv,
         DeleteWindows(ExpiredWindows),
         NEW k \in Keys, NEW s \in Starts, store'[k][s] # {}
  PROVE  s >= streamTime - Size - Grace
<1>1. store[k][s] # {} /\ <<k, s>> \notin ExpiredWindows
  BY SweptWindows, Zenon
<1>2. ~Expired(s, streamTime, Size, Grace)
  BY <1>1, Zenon DEF ExpiredWindows
<1>3. Size \in Nat /\ Grace \in Nat /\ streamTime \in Nat /\ s \in Nat
  BY DefinitionTypes, WindowAssumption DEF WindowInv, Starts
<1> QED BY <1>2, <1>3 DEF Expired

\* What the invariant says of the state after a step.
LEMMA WindowInvNext ==
  ASSUME WindowInv, def' = def, arrivals' \in Seq(Arrival),
         store' \in [Keys -> [Starts -> SUBSET Int]],
         streamTime' \in Nat, lastSweepTime' \in Nat, persisted' \in Nat, swept' \in Nat,
         lastSweepTime' <= streamTime',
         \A k \in Keys, s \in Starts :
           store'[k][s] # {} => s > lastSweepTime' - 2 * Size - Grace
  PROVE  WindowInv'
  BY Zenon DEF WindowInv, Starts, Size, Grace

\* PostBatch: the sweep deletes what the invariant excludes at the new time.
LEMMA WindowPostBatch ==
  ASSUME WindowInv, PostBatch
  PROVE  WindowInv'
<1>1. def' = def /\ arrivals' = arrivals /\ streamTime' = streamTime
      /\ persisted' \in {streamTime, persisted}
  BY Zenon DEF PostBatch
<1>2. CASE SweepDue(streamTime, lastSweepTime, Size)
  <2>1. DeleteWindows(ExpiredWindows) /\ lastSweepTime' = streamTime
    BY <1>2, Zenon DEF PostBatch
  <2>2. store' \in [Keys -> [Starts -> SUBSET Int]] /\ swept' \in Nat
    BY <2>1, SweptWindows, Zenon
  <2>3. ASSUME NEW k \in Keys, NEW s \in Starts, store'[k][s] # {}
        PROVE  s > lastSweepTime' - 2 * Size - Grace
    <3>1. s >= streamTime - Size - Grace
      BY <2>1, <2>3, WindowSweep, Zenon
    <3>2. Size \in Nat \ {0} /\ Grace \in Nat /\ streamTime \in Nat
          /\ s \in Nat
      BY DefinitionTypes, WindowAssumption DEF WindowInv, Starts
    <3> QED BY <2>1, <3>1, <3>2
  <2> QED BY <1>1, <2>1, <2>2, <2>3, WindowInvNext DEF WindowInv
<1>3. CASE ~SweepDue(streamTime, lastSweepTime, Size)
  <2>1. store' = store /\ swept' = swept /\ lastSweepTime' = lastSweepTime
    BY <1>3, Zenon DEF PostBatch
  <2> QED BY <1>1, <2>1, WindowInvNext, Zenon DEF WindowInv
<1> QED BY <1>2, <1>3, Zenon

\* A task that is reopened sweeps from time 0 on.
LEMMA WindowReopened ==
  ASSUME WindowInv, Reopened, def' = def,
         arrivals' = arrivals, swept' \in Nat,
         store' \in [Keys -> [Starts -> SUBSET Int]]
  PROVE  WindowInv'
<1>1. persisted' \in Nat /\ streamTime' \in Nat /\ lastSweepTime' = 0
  BY DEF Reopened, WindowInv
<1>2. ASSUME NEW s \in Starts
      PROVE  s > 0 - 2 * Size - Grace
  BY DefinitionTypes DEF WindowInv, Starts
<1> QED BY <1>1, <1>2, WindowInvNext DEF WindowInv

\* Every step keeps the invariant.
LEMMA WindowStep ==
  ASSUME WindowInv, [Next]_vars
  PROVE  WindowInv'
<1>1. CASE \E k \in Keys, ts \in 0 .. MaxTs : Process(k, ts)
  BY <1>1, WindowProcess, Zenon
<1>2. CASE PostBatch
  BY <1>2, WindowPostBatch, Zenon
<1>3. CASE Reopen
  BY <1>3, WindowReopened, Zenon DEF Reopen, WindowInv
<1>4. CASE SweepFail
  <2>1. PICK W \in SUBSET ExpiredWindows : DeleteWindows(W)
    BY <1>4, Zenon DEF SweepFail
  <2>2. store' \in [Keys -> [Starts -> SUBSET Int]] /\ swept' \in Nat
    BY <2>1, SweptWindows, Zenon
  <2> QED BY <1>4, <2>2, WindowReopened, Zenon DEF SweepFail
<1>5. CASE UNCHANGED vars
  BY <1>5, WindowInvNext, Zenon DEF WindowInv, vars
<1> QED BY <1>1, <1>2, <1>3, <1>4, <1>5, Zenon DEF Next

\* At the start there is no window.
LEMMA WindowInit ==
  ASSUME Init
  PROVE  WindowInv
  BY DEF Init, WindowInv

\* What a window has to hold.
Due(k, s) == IF s % Step = 0 THEN RecordsIn(k, s) ELSE {}

\* An accepted record is added to what the windows that contain it have to
\* hold, and a late one changes nothing.
LEMMA DueProcess ==
  ASSUME WindowInv, NEW k \in Keys, NEW ts \in 0 .. MaxTs,
         Process(k, ts), NEW l \in Keys, NEW s \in Starts
  PROVE  Due(l, s)' =
           IF /\ l = k /\ ~IsLate(ts, streamTime, Size, Grace)
              /\ s \in Assign(ts)
             THEN Due(l, s) \cup {Len(arrivals) + 1} ELSE Due(l, s)
<1> DEFINE late == IsLate(ts, streamTime, Size, Grace)
           r == [key |-> k, ts |-> ts, late |-> late]
           n == Len(arrivals)
           size == Size
<1>1. arrivals' = Append(arrivals, r) /\ def' = def /\ arrivals \in Seq(Arrival)
      /\ r \in Arrival
  <2>1. late \in BOOLEAN
    BY DEF IsLate
  <2> QED BY <2>1, Zenon DEF Process, WindowInv, Arrival
<1>2. n \in Nat /\ s \in Nat /\ ts \in Nat /\ size \in Nat
  BY <1>1, DefinitionTypes, WindowAssumption DEF Starts, WindowInv
<1>3. Step' = Step /\ Size' = Size
  BY <1>1, Zenon DEF Step, Size, Hopping, Advance
<1> DEFINE In(a) == /\ a.key = l /\ ~a.late /\ s <= a.ts /\ a.ts < s + size
<1>4. RecordsIn(l, s) = {i \in 1 .. n : In(arrivals[i])}
  BY Zenon DEF RecordsIn
<1>5. RecordsIn(l, s)' = {i \in 1 .. Len(arrivals') : In(arrivals'[i])}
  BY <1>3, Zenon DEF RecordsIn
<1>6. In(r) <=> l = k /\ ~late /\ s <= ts /\ ts < s + size
  BY Zenon
<1>7. s \in Assign(ts) <=> s % Step = 0 /\ s <= ts /\ ts < s + size
  BY <1>2, AssignedWindows, Zenon DEF WindowInv
<1> HIDE DEF r, n, In, late, size
<1>8. Len(arrivals') = n + 1 /\ arrivals'[n + 1] = r
      /\ \A i \in 1 .. n : arrivals'[i] = arrivals[i]
  BY <1>1 DEF n
<1>9. RecordsIn(l, s)' =
        IF In(r) THEN RecordsIn(l, s) \cup {n + 1} ELSE RecordsIn(l, s)
  <2>1. 1 .. n + 1 = (1 .. n) \cup {n + 1}
    BY <1>2
  <2> QED BY <1>4, <1>5, <1>8, <2>1, Zenon
<1>10. Due(l, s)' = IF s % Step = 0 THEN RecordsIn(l, s)' ELSE {}
  BY <1>3, Zenon DEF Due
<1>11. CASE s % Step = 0
  <2>1. Due(l, s) = RecordsIn(l, s) /\ Due(l, s)' = RecordsIn(l, s)'
    BY <1>10, <1>11, Zenon DEF Due
  <2>2. s \in Assign(ts) <=> s <= ts /\ ts < s + size
    BY <1>7, <1>11, Zenon
  <2> QED BY <2>1, <2>2, <1>6, <1>9, Zenon DEF late, n
<1>12. CASE s % Step # 0
  <2>1. Due(l, s) = {} /\ Due(l, s)' = {} /\ s \notin Assign(ts)
    BY <1>7, <1>10, <1>12, Zenon DEF Due
  <2> QED BY <2>1, Zenon
<1> QED BY <1>11, <1>12, Zenon

\* A step that adds no record leaves what the windows have to hold.
LEMMA DueSame ==
  ASSUME def' = def, arrivals' = arrivals, NEW k, NEW s
  PROVE  Due(k, s)' = Due(k, s)
  BY Zenon DEF Due, Step, Hopping, Advance, Size, RecordsIn

\* Every step keeps the windows complete.
LEMMA CompleteStep ==
  ASSUME WindowInv, UnsweptWindowsComplete,
         [Next]_vars
  PROVE  UnsweptWindowsComplete'
<1>0. /\ UnsweptWindowsComplete <=>
           \A k \in Keys, s \in Starts : s >= swept => store[k][s] = Due(k, s)
      /\ UnsweptWindowsComplete' <=>
           \A k \in Keys, s \in Starts : s >= swept' => store'[k][s] = Due(k, s)'
  BY Zenon DEF UnsweptWindowsComplete, Due, Starts
<1> SUFFICES ASSUME NEW l \in Keys, NEW s \in Starts, s >= swept'
             PROVE  store'[l][s] = Due(l, s)'
  BY <1>0, Zenon
<1>1. s \in Nat /\ swept \in Nat
  BY WindowAssumption DEF WindowInv, Starts
<1>2. ASSUME NEW k \in Keys, NEW ts \in 0 .. MaxTs, Process(k, ts)
      PROVE  store'[l][s] = Due(l, s)'
  <2> DEFINE late == IsLate(ts, streamTime, Size, Grace)
             n == Len(arrivals) + 1
  <2>1. store' = [store EXCEPT ![k] = [u \in Starts |->
                    IF ~late /\ u \in Assign(ts) THEN @[u] \cup {n} ELSE @[u]]]
        /\ swept' = swept
    BY <1>2, Zenon DEF Process
  <2>2. store'[l][s] =
          IF l = k /\ ~late /\ s \in Assign(ts) THEN store[l][s] \cup {n}
                                                       ELSE store[l][s]
    BY <2>1, Zenon DEF WindowInv
  <2>3. store[l][s] = Due(l, s)
    BY <1>0, <2>1, Zenon
  <2>4. Due(l, s)' = IF l = k /\ ~late /\ s \in Assign(ts)
                       THEN Due(l, s) \cup {n} ELSE Due(l, s)
    BY <1>2, DueProcess
  <2> QED BY <2>2, <2>3, <2>4, Zenon
<1>3. ASSUME def' = def, arrivals' = arrivals,
             \/ store' = store /\ swept' = swept
             \/ \E W \in SUBSET ExpiredWindows : DeleteWindows(W)
      PROVE  store'[l][s] = Due(l, s)'
  <2>1. Due(l, s)' = Due(l, s)
    BY <1>3, DueSame, Zenon
  <2>2. swept' \in Nat /\ swept <= swept' /\ store'[l][s] = store[l][s]
    <3>1. CASE store' = store /\ swept' = swept
      BY <1>1, <3>1
    <3>2. CASE \E W \in SUBSET ExpiredWindows : DeleteWindows(W)
      BY <3>2, SweptWindows, Zenon
    <3> QED BY <1>3, <3>1, <3>2, Zenon
  <2>3. s >= swept
    BY <1>1, <2>2
  <2> QED BY <1>0, <2>1, <2>2, <2>3, Zenon
<1>4. CASE PostBatch
  BY <1>3, <1>4, Zenon DEF PostBatch
<1>5. CASE Reopen
  BY <1>3, <1>5, Zenon DEF Reopen
<1>6. CASE SweepFail
  BY <1>3, <1>6, Zenon DEF SweepFail
<1>7. CASE UNCHANGED vars
  BY <1>3, <1>7, Zenon DEF vars
<1> QED BY <1>2, <1>4, <1>5, <1>6, <1>7, Zenon DEF Next

\* Assign, the late check and the sweep agree: a window that no sweep has
\* expired holds exactly the accepted records of its interval, for tumbling and
\* hopping windows of every size, advance and grace period.
THEOREM WindowsComplete ==
  Spec => []UnsweptWindowsComplete
<1>1. Init => WindowInv /\ UnsweptWindowsComplete
  <2>1. ASSUME Init, NEW k \in Keys, NEW s \in Starts
        PROVE  store[k][s] = {} /\ RecordsIn(k, s) = {}
    BY <2>1 DEF Init, RecordsIn
  <2> QED BY <2>1, WindowInit, Zenon DEF UnsweptWindowsComplete
<1>2. WindowInv /\ UnsweptWindowsComplete /\ [Next]_vars
        => WindowInv' /\ UnsweptWindowsComplete'
  BY WindowStep, CompleteStep, Zenon
<1> QED BY <1>1, <1>2, PTL DEF Spec

\* Retention is bounded: whatever comes late, after a batch no window is stored
\* that started three sizes and the grace period before stream time, nor one
\* step later.
THEOREM RetentionAlwaysBounded ==
  Spec => RetentionBounded
<1> DEFINE A == PostBatch =>
                  \A k \in Keys, s \in Starts :
                    store'[k][s] # {}
                      => s > streamTime - 3 * Size - Grace + 1
<1>1. WindowInv => A
  <2> SUFFICES ASSUME WindowInv, PostBatch,
                      NEW k \in Keys, NEW s \in Starts, store'[k][s] # {}
               PROVE  s > streamTime - 3 * Size - Grace + 1
    BY Zenon
  <2>1. Size \in Nat \ {0} /\ Grace \in Nat /\ streamTime \in Nat
        /\ s \in Nat /\ lastSweepTime \in Nat
    BY WindowAssumption, DefinitionTypes DEF WindowInv, Starts
  <2>2. CASE SweepDue(streamTime, lastSweepTime, Size)
    <3>1. s >= streamTime - Size - Grace
      BY <2>2, WindowSweep, Zenon DEF PostBatch
    <3> QED BY <2>1, <3>1
  <2>3. CASE ~SweepDue(streamTime, lastSweepTime, Size)
    <3>1. store[k][s] # {}
      BY <2>3, Zenon DEF PostBatch
    <3>2. s > lastSweepTime - 2 * Size - Grace
      BY <3>1, Zenon DEF WindowInv
    <3>3. streamTime - lastSweepTime < Size
      BY <2>1, <2>3 DEF SweepDue
    <3> QED BY <2>1, <3>2, <3>3
  <2> QED BY <2>2, <2>3, Zenon
<1>2. WindowInv /\ [Next]_vars => WindowInv'
  BY WindowStep, Zenon
<1>3. Init => WindowInv
  BY WindowInit, Zenon
<1> QED BY <1>1, <1>2, <1>3, PTL DEF Spec, RetentionBounded

-----------------------------------------------------------------------------
(* The bounds of a scan of StreamJoin.                                     *)

\* A time that is not negative, and the smallest negative one, which comes
\* after the largest time, are encoded in their order.
LEMMA EncodedTime ==
  ASSUME Join!JoinAssumption, NEW t \in 0 .. Join!MaxTime + 1
  PROVE  Join!Encoded(t) = t
<1>1. PICK m \in Nat : m = Join!MaxTime
  BY Zenon DEF Join!JoinAssumption
<1>2. PICK all \in Nat \ {0} : all = 2 ^ Width /\ all = 2 * (m + 1)
  BY <1>1 DEF Join!JoinAssumption
<1>3. t % all = t
  BY <1>1, <1>2
<1> QED BY <1>2, <1>3, Zenon DEF Join!Encoded

\* ssJoinScanBounds: the scan meets exactly the times from Before and JoinGrace
\* before to After after the record, up to the largest time, where the upper
\* bound wraps.
LEMMA ScanBounds ==
  ASSUME Join!JoinAssumption, NEW ts \in 0 .. Join!MaxTime, NEW u \in 0 .. Join!MaxTime
  PROVE  Join!LowerBound(ts) <= Join!Encoded(u) /\ Join!Encoded(u) < Join!UpperBound(ts)
           <=> ts - Before - JoinGrace <= u /\ u <= ts + After
<1>1. /\ Join!MaxTime \in Nat /\ Before \in Nat /\ After \in Nat /\ JoinGrace \in Nat
      /\ After <= Join!MaxTime
  BY DEF Join!JoinAssumption
<1> DEFINE lo == IF ts > Before + JoinGrace THEN ts - (Before + JoinGrace) ELSE 0
           hi == IF After > 0 /\ ts > Join!MaxTime - After THEN Join!MaxTime ELSE ts + After
<1>2. lo \in 0 .. Join!MaxTime + 1 /\ hi + 1 \in 0 .. Join!MaxTime + 1
      /\ u \in 0 .. Join!MaxTime + 1
  BY <1>1
<1>3. Join!Encoded(lo) = lo /\ Join!Encoded(hi + 1) = hi + 1 /\ Join!Encoded(u) = u
  BY <1>2, EncodedTime, Zenon
<1>4. Join!LowerBound(ts) = lo /\ Join!UpperBound(ts) = hi + 1
  BY <1>3, Zenon DEF Join!LowerBound, Join!UpperBound
<1>5. lo <= u /\ u < hi + 1 <=> ts - Before - JoinGrace <= u /\ u <= ts + After
  BY <1>1
<1> QED BY <1>3, <1>4, <1>5, Zenon

-----------------------------------------------------------------------------
(* StreamJoin.                                                             *)

JoinArrival ==
  [side : Join!Sides, key : Keys, ts : 0 .. Join!MaxTime, late : BOOLEAN, latest : Nat]

\* Every sweep was made at a time that has been seen.
JoinTypes ==
  /\ arrivals \in Seq(JoinArrival)
  /\ buffer \in [Join!Sides -> [Keys -> [0 .. Join!MaxTime -> Nat]]]
  /\ streamTime \in Nat /\ persisted \in Nat /\ latest \in Nat
  /\ streamTime <= latest /\ persisted <= latest
  /\ joined \subseteq (1 .. Len(arrivals)) \X (1 .. Len(arrivals))

\* Record o has been stored and not overwritten up to now.
Stored(o) == Join!Buffered(o, Len(arrivals) + 1)

\* Record o is the one last stored at a place of a buffer.
HoldsStored(side, k, t, o) ==
  /\ o \in 1 .. Len(arrivals) /\ Stored(o)
  /\ arrivals[o].side = side /\ arrivals[o].key = k /\ arrivals[o].ts = t

\* A place of a buffer holds the record that was last stored there.
PlacesHoldStored ==
  \A side \in Join!Sides, k \in Keys, t \in 0 .. Join!MaxTime :
    \A o : o = buffer[side][k][t] /\ o # 0 => HoldsStored(side, k, t, o)

\* A stored record that no sweep may have expired is in its place.
StoredInPlace ==
  \A o \in 1 .. Len(arrivals) :
    Stored(o) /\ arrivals[o].ts >= latest - Join!Retention - JoinGrace
      => buffer[arrivals[o].side][arrivals[o].key][arrivals[o].ts] = o

JoinInv ==
  /\ JoinTypes /\ PlacesHoldStored /\ StoredInPlace
  /\ Join!JoinedInWindow /\ Join!TimelyJoinsComplete

\* The record that arrives as r, in the words of the processor.
Arrived(side, k, ts) ==
  [side |-> side, key |-> k, ts |-> ts,
   late |-> Join!IsLate(ts, streamTime, Join!Retention, JoinGrace), latest |-> latest']

\* What the processor does to history and time.
LEMMA JoinArrives ==
  ASSUME Join!JoinAssumption, JoinTypes, NEW side \in Join!Sides, NEW k \in Keys,
         NEW ts \in Timestamps, Join!Process(side, k, ts)
  PROVE  /\ arrivals' = Append(arrivals, Arrived(side, k, ts))
         /\ Arrived(side, k, ts) \in JoinArrival
         /\ arrivals' \in Seq(JoinArrival)
         /\ Len(arrivals) \in Nat /\ Len(arrivals') = Len(arrivals) + 1
         /\ \A i \in 1 .. Len(arrivals) : arrivals'[i] = arrivals[i]
         /\ arrivals'[Len(arrivals) + 1] = Arrived(side, k, ts)
         /\ ts \in 0 .. Join!MaxTime /\ latest' \in Nat /\ latest <= latest'
         /\ streamTime' \in Nat /\ streamTime' <= latest'
<1> DEFINE r == Arrived(side, k, ts)
<1>1. arrivals' = Append(arrivals, r)
  BY Zenon DEF Join!Process, Arrived
<1>2. ts \in 0 .. Join!MaxTime /\ Join!MaxTime \in Nat
  BY Zenon DEF Join!JoinAssumption
<1>3. /\ latest' \in Nat /\ latest <= latest'
      /\ streamTime' \in Nat /\ streamTime' <= latest'
  <2>1. ts \in Nat /\ streamTime \in Nat /\ latest \in Nat /\ streamTime <= latest
    BY <1>2 DEF JoinTypes
  <2>2. /\ streamTime' = IF ts > streamTime THEN ts ELSE streamTime
        /\ latest' = IF ts > latest THEN ts ELSE latest
    BY Zenon DEF Join!Process, Join!Advanced
  <2> QED BY <2>1, <2>2
<1>4. r \in JoinArrival
  <2>1. Join!IsLate(ts, streamTime, Join!Retention, JoinGrace) \in BOOLEAN
    BY DEF Join!IsLate
  <2> QED BY <1>2, <1>3, <2>1, Zenon DEF Arrived, JoinArrival
<1> HIDE DEF r
<1>5. /\ arrivals' \in Seq(JoinArrival)
      /\ Len(arrivals) \in Nat /\ Len(arrivals') = Len(arrivals) + 1
      /\ \A i \in 1 .. Len(arrivals) : arrivals'[i] = arrivals[i]
      /\ arrivals'[Len(arrivals) + 1] = r
  <2>1. arrivals \in Seq(JoinArrival)
    BY Zenon DEF JoinTypes
  <2> QED BY <1>1, <1>4, <2>1
<1> QED BY <1>1, <1>2, <1>3, <1>4, <1>5, Zenon DEF r

\* What was said of earlier records stays true when another one arrives.
LEMMA HistoryKept ==
  ASSUME NEW n \in Nat, \A i \in 1 .. n : arrivals'[i] = arrivals[i]
  PROVE  /\ \A i, o \in 1 .. n : /\ Join!InBounds(i, o)' <=> Join!InBounds(i, o)
                                 /\ Join!Pair(i, o)' = Join!Pair(i, o)
         /\ \A o \in 1 .. n : \A i \in 1 .. n + 1 :
              Join!Buffered(o, i)' <=> Join!Buffered(o, i)
<1>1. ASSUME NEW i \in 1 .. n, NEW o \in 1 .. n
      PROVE  /\ Join!InBounds(i, o)' <=> Join!InBounds(i, o)
             /\ Join!Pair(i, o)' = Join!Pair(i, o)
  BY <1>1, Zenon DEF Join!InBounds, Join!Pair
<1>2. ASSUME NEW o \in 1 .. n, NEW i \in 1 .. n + 1
      PROVE  Join!Buffered(o, i)' <=> Join!Buffered(o, i)
  <2>1. \A m \in o + 1 .. i - 1 : m \in 1 .. n
    OBVIOUS
  <2> QED BY <2>1, Zenon DEF Join!Buffered
<1> QED BY <1>1, <1>2, Zenon

\* What a scan of a buffer finds.
LEMMA ScanFinds ==
  ASSUME Join!JoinAssumption, NEW entries, NEW ts \in 0 .. Join!MaxTime
  PROVE  /\ \A o \in Join!Scan(entries, ts) :
              \E u \in 0 .. Join!MaxTime :
                /\ o = entries[u] /\ o # 0
                /\ ts - Before - JoinGrace <= u /\ u <= ts + After
         /\ \A u \in 0 .. Join!MaxTime :
              /\ entries[u] # 0 /\ ts - Before - JoinGrace <= u /\ u <= ts + After
              => entries[u] \in Join!Scan(entries, ts)
<1> DEFINE Met(u) == Join!LowerBound(ts) <= Join!Encoded(u)
                     /\ Join!Encoded(u) < Join!UpperBound(ts)
<1>1. \A o : o \in Join!Scan(entries, ts) <=>
        \E u \in 0 .. Join!MaxTime : o = entries[u] /\ entries[u] # 0 /\ Met(u)
  BY Zenon DEF Join!Scan
<1>2. \A u \in 0 .. Join!MaxTime :
        Met(u) <=> ts - Before - JoinGrace <= u /\ u <= ts + After
  BY ScanBounds, Zenon
<1> HIDE DEF Met
<1> QED BY <1>1, <1>2, Zenon

\* The step of a processor, with n the records before it and r the new one.
JoinedBy(side, k, ts, n, r) ==
  /\ n \in Nat /\ n = Len(arrivals) /\ Len(arrivals') = n + 1
  /\ arrivals' \in Seq(JoinArrival)
  /\ \A i \in 1 .. n : arrivals'[i] = arrivals[i]
  /\ arrivals'[n + 1] = r
  /\ r \in JoinArrival /\ r.side = side /\ r.key = k /\ r.ts = ts /\ r.latest = latest'
  /\ ts \in 0 .. Join!MaxTime
  /\ latest' \in Nat /\ latest <= latest' /\ streamTime' \in Nat /\ streamTime' <= latest'
  /\ persisted' = persisted
  /\ r.late => buffer' = buffer /\ joined' = joined
  /\ ~r.late =>
       /\ buffer' = [buffer EXCEPT ![side][k][ts] = n + 1]
       /\ \A x : x \in joined' <=>
            \/ x \in joined
            \/ \E o \in Join!Scan(buffer[Join!Other(side)][k], ts) :
                 x = IF side = "left" THEN <<n + 1, o>> ELSE <<o, n + 1>>

\* A record stays stored unless the one that arrives takes its place.
LEMMA StoredNext ==
  ASSUME NEW side, NEW k, NEW ts, NEW n, NEW r, JoinedBy(side, k, ts, n, r),
         NEW o \in 1 .. n
  PROVE  /\ Stored(o)' => Stored(o)
         /\ Stored(o)' => \/ r.late \/ r.side # arrivals[o].side
                           \/ r.key # arrivals[o].key \/ r.ts # arrivals[o].ts
         /\ Stored(o) /\ \/ r.late \/ r.side # arrivals[o].side
                         \/ r.key # arrivals[o].key \/ r.ts # arrivals[o].ts
              => Stored(o)'
<1>0. /\ n \in Nat /\ n = Len(arrivals) /\ Len(arrivals') = n + 1
      /\ \A i \in 1 .. n : arrivals'[i] = arrivals[i]
      /\ arrivals'[n + 1] = r
  BY Zenon DEF JoinedBy
<1>1. Stored(o)' <=> Join!Buffered(o, n + 2)'
  <2>1. Len(arrivals') + 1 = n + 2
    BY <1>0
  <2> QED BY <2>1, Zenon DEF Stored, Join!Buffered
<1>2. Stored(o) <=> Join!Buffered(o, n + 1)
  BY <1>0, Zenon DEF Stored
<1>3. Join!Buffered(o, n + 1)' <=> Join!Buffered(o, n + 1)
  BY <1>0, HistoryKept
<1>4. /\ o + 1 .. n + 2 - 1 = (o + 1 .. n + 1 - 1) \cup {n + 1}
      /\ arrivals'[o] = arrivals[o]
  BY <1>0
<1>5. Join!Buffered(o, n + 2)' <=>
        /\ Join!Buffered(o, n + 1)'
        /\ ~r.late /\ r.side = arrivals[o].side
             => <<r.key, r.ts>> # <<arrivals[o].key, arrivals[o].ts>>
  <2> DEFINE P(m) == ~arrivals'[m].late /\ arrivals'[m].side = arrivals'[o].side
                       => <<arrivals'[m].key, arrivals'[m].ts>>
                            # <<arrivals'[o].key, arrivals'[o].ts>>
  <2>1. Join!Buffered(o, n + 2)'
          <=> ~arrivals'[o].late /\ \A m \in o + 1 .. n + 2 - 1 : P(m)
    BY <1>0 DEF Join!Buffered
  <2>2. Join!Buffered(o, n + 1)'
          <=> ~arrivals'[o].late /\ \A m \in o + 1 .. n + 1 - 1 : P(m)
    BY <1>0 DEF Join!Buffered
  <2>3. P(n + 1) <=> (~r.late /\ r.side = arrivals[o].side
                        => <<r.key, r.ts>> # <<arrivals[o].key, arrivals[o].ts>>)
    BY <1>0, <1>4, Zenon
  <2> HIDE DEF P
  <2> QED BY <1>4, <2>1, <2>2, <2>3, Zenon
<1> QED BY <1>1, <1>2, <1>3, <1>5, Zenon

\* This is what Process does.
LEMMA JoinProcess ==
  ASSUME Join!JoinAssumption, JoinTypes, NEW side \in Join!Sides, NEW k \in Keys,
         NEW ts \in Timestamps, Join!Process(side, k, ts)
  PROVE  JoinedBy(side, k, ts, Len(arrivals), Arrived(side, k, ts))
<1> DEFINE r == Arrived(side, k, ts)
           n == Len(arrivals)
           found == Join!Scan(buffer[Join!Other(side)][k], ts)
<1>1. r.side = side /\ r.key = k /\ r.ts = ts /\ r.latest = latest'
      /\ r.late = Join!IsLate(ts, streamTime, Join!Retention, JoinGrace)
  BY Zenon DEF Arrived
<1>2. r.late => buffer' = buffer /\ joined' = joined
  BY <1>1, Zenon DEF Join!Process
<1>3. ~r.late => /\ buffer' = [buffer EXCEPT ![side][k][ts] = n + 1]
                 /\ joined' = joined \cup
                      IF side = "left" THEN {n + 1} \X found ELSE found \X {n + 1}
  BY <1>1, Zenon DEF Join!Process
<1>4. persisted' = persisted
  BY Zenon DEF Join!Process
<1> HIDE DEF r, n, found
<1>5. ~r.late => \A x : x \in joined' <=>
                   \/ x \in joined
                   \/ \E o \in found :
                        x = IF side = "left" THEN <<n + 1, o>> ELSE <<o, n + 1>>
  <2>1. CASE side = "left"
    BY <1>3, <2>1
  <2>2. CASE side # "left"
    BY <1>3, <2>2
  <2> QED BY <2>1, <2>2, Zenon
<1> QED BY <1>1, <1>2, <1>3, <1>4, <1>5, JoinArrives, Zenon DEF JoinedBy, r, n, found

\* A new record has the number after n: what is numbered so far, and what comes
\* before a record.
LEMMA Numbering ==
  ASSUME NEW n \in Nat
  PROVE  /\ n + 1 \in 1 .. n + 1 /\ n + 1 + 1 .. (n + 1 + 1) - 1 = {}
         /\ \A i \in 1 .. n : i \in 1 .. n + 1
         /\ \A i \in 1 .. n + 1 : i \in Int /\ (i = n + 1 \/ i \in 1 .. n)
         /\ \A i \in 1 .. n + 1 : \A o \in 1 .. i - 1 : o \in 1 .. n
  OBVIOUS

\* What a processor does to the places of the buffers.
LEMMA JoinPlaces ==
  ASSUME JoinTypes, NEW side \in Join!Sides, NEW k \in Keys,
         NEW ts, NEW n, NEW r, JoinedBy(side, k, ts, n, r)
  PROVE  /\ ~r.late => buffer'[side][k][ts] = n + 1
         /\ \A sd \in Join!Sides, l \in Keys, t \in 0 .. Join!MaxTime :
              r.late \/ sd # side \/ l # k \/ t # ts
                => buffer'[sd][l][t] = buffer[sd][l][t]
<1> DEFINE Times == 0 .. Join!MaxTime
<1>1. buffer \in [Join!Sides -> [Keys -> [Times -> Nat]]]
  BY Zenon DEF JoinTypes
<1>2. ts \in Times
  BY Zenon DEF JoinedBy
<1>3. r.late => buffer' = buffer
  BY Zenon DEF JoinedBy
<1>4. ~r.late => buffer' = [buffer EXCEPT ![side][k][ts] = n + 1]
  BY Zenon DEF JoinedBy
<1> HIDE DEF Times
<1>5. PICK v : v = n + 1
  BY Zenon
<1>6. CASE ~r.late
  <2>1. buffer'[side][k][ts] = v
    BY <1>1, <1>2, <1>4, <1>5, <1>6
  <2>2. ASSUME NEW sd \in Join!Sides, NEW l \in Keys, NEW t \in Times,
               sd # side \/ l # k \/ t # ts
        PROVE  buffer'[sd][l][t] = buffer[sd][l][t]
    BY <1>1, <1>2, <1>4, <1>5, <1>6, <2>2
  <2> QED BY <1>5, <1>6, <2>1, <2>2, Zenon DEF Times
<1> QED BY <1>3, <1>6, Zenon

\* Types.
LEMMA JoinTypesNext ==
  ASSUME Join!JoinAssumption, JoinTypes, PlacesHoldStored, NEW side \in Join!Sides,
         NEW k \in Keys, NEW ts, NEW n, NEW r, JoinedBy(side, k, ts, n, r)
  PROVE  JoinTypes'
<1> DEFINE Times == 0 .. Join!MaxTime
<1>1. Times' = Times /\ JoinArrival' = JoinArrival /\ Join!Sides' = Join!Sides
  BY Zenon DEF JoinArrival, Join!Sides, Join!MaxTime
<1>2. ts \in Times /\ n \in Nat
  BY Zenon DEF JoinedBy
<1>3. buffer' \in [Join!Sides -> [Keys -> [Times -> Nat]]]
  <2>1. buffer \in [Join!Sides -> [Keys -> [Times -> Nat]]]
    BY Zenon DEF JoinTypes
  <2>2. \/ buffer' = buffer
        \/ buffer' = [buffer EXCEPT ![side][k][ts] = n + 1]
    BY Zenon DEF JoinedBy
  <2>3. PICK v \in Nat : v = n + 1
    BY <1>2
  <2> HIDE DEF Times
  <2>4. PICK f \in [Keys -> [Times -> Nat]] : f = buffer[side]
    BY <2>1, Zenon
  <2>5. [f EXCEPT ![k][ts] = v] \in [Keys -> [Times -> Nat]]
    BY <1>2, Zenon
  <2>6. [buffer EXCEPT ![side] = [f EXCEPT ![k][ts] = v]]
          \in [Join!Sides -> [Keys -> [Times -> Nat]]]
    BY <2>1, <2>5, Zenon
  <2>7. [buffer EXCEPT ![side][k][ts] = v] = [buffer EXCEPT ![side] = [f EXCEPT ![k][ts] = v]]
    BY <2>4, Zenon
  <2> QED BY <2>1, <2>2, <2>3, <2>6, <2>7, Zenon
<1>4. 1 .. n + 1 = (1 .. n) \cup {n + 1}
  BY <1>2
<1>5. joined \subseteq (1 .. n) \X (1 .. n)
  BY Zenon DEF JoinTypes, JoinedBy
<1>6. joined' \subseteq (1 .. n + 1) \X (1 .. n + 1)
  <2>1. CASE r.late
    BY <1>4, <1>5, <2>1 DEF JoinedBy
  <2>2. CASE ~r.late
    <3> SUFFICES ASSUME NEW x \in joined', x \notin joined
                 PROVE  x \in (1 .. n + 1) \X (1 .. n + 1)
      BY <1>4, <1>5, Zenon
    <3>1. PICK o \in Join!Scan(buffer[Join!Other(side)][k], ts) :
            x = IF side = "left" THEN <<n + 1, o>> ELSE <<o, n + 1>>
      BY <2>2 DEF JoinedBy
    <3>2. Join!Other(side) \in Join!Sides
      BY Zenon DEF Join!Other, Join!Sides
    <3>3. o \in 1 .. n
      <4>1. PICK sd \in Join!Sides : sd = Join!Other(side)
        BY <3>2, Zenon
      <4>2. PICK u \in 0 .. Join!MaxTime : o = buffer[sd][k][u] /\ o # 0
        <5>1. o \in Join!Scan(buffer[sd][k], ts) /\ ts \in 0 .. Join!MaxTime
          BY <1>2, <4>1, Zenon
        <5> QED BY <5>1, ScanFinds
      <4>3. HoldsStored(sd, k, u, o)
        BY <4>2, Zenon DEF PlacesHoldStored
      <4> QED BY <4>3, Zenon DEF HoldsStored, JoinedBy
    <3> QED BY <1>4, <3>1, <3>3, Zenon
  <2> QED BY <2>1, <2>2, Zenon
<1>7. persisted' \in Nat /\ persisted' <= latest'
  <2>1. persisted \in Nat /\ latest \in Nat /\ persisted <= latest
    BY Zenon DEF JoinTypes
  <2>2. persisted' = persisted /\ latest' \in Nat /\ latest <= latest'
    BY Zenon DEF JoinedBy
  <2> QED BY <2>1, <2>2
<1>8. joined' \subseteq (1 .. Len(arrivals')) \X (1 .. Len(arrivals'))
  BY <1>6, Zenon DEF JoinedBy
<1> QED BY <1>1, <1>3, <1>7, <1>8, Zenon DEF JoinTypes, JoinedBy

\* The buffers hold what was last stored at each place: a record that is not
\* late takes the place of one with its side, key and timestamp.
LEMMA JoinPlacesNext ==
  ASSUME Join!JoinAssumption, JoinTypes, PlacesHoldStored, NEW side \in Join!Sides,
         NEW k \in Keys, NEW ts, NEW n, NEW r, JoinedBy(side, k, ts, n, r)
  PROVE  PlacesHoldStored'
<1>0. SUFFICES ASSUME NEW sd \in Join!Sides, NEW l \in Keys, NEW t \in 0 .. Join!MaxTime,
                      NEW o, o = buffer'[sd][l][t], o # 0
               PROVE  HoldsStored(sd, l, t, o)'
  <2>1. Join!Sides' = Join!Sides /\ (0 .. Join!MaxTime)' = 0 .. Join!MaxTime
    BY Zenon DEF Join!Sides, Join!MaxTime
  <2> QED BY <2>1, Zenon DEF PlacesHoldStored
<1>1. /\ n \in Nat /\ n = Len(arrivals) /\ Len(arrivals') = n + 1
      /\ \A i \in 1 .. n : arrivals'[i] = arrivals[i]
      /\ arrivals'[n + 1] = r /\ ts \in 0 .. Join!MaxTime
      /\ r.side = side /\ r.key = k /\ r.ts = ts
  BY Zenon DEF JoinedBy
<1>2. CASE ~r.late /\ sd = side /\ l = k /\ t = ts
  <2>1. buffer'[sd][l][t] = n + 1
    BY <1>2, JoinPlaces
  <2>2. Stored(n + 1)'
    <3>1. n + 1 + 1 .. (n + 1 + 1) - 1 = {}
      BY <1>1, Numbering, Zenon
    <3> QED BY <1>1, <1>2, <3>1, Zenon DEF Stored, Join!Buffered
  <2>3. n + 1 \in 1 .. Len(arrivals')
    BY <1>1, Numbering, Zenon
  <2> QED BY <1>0, <1>1, <1>2, <2>1, <2>2, <2>3, Zenon DEF HoldsStored
<1>3. CASE r.late \/ sd # side \/ l # k \/ t # ts
  <2>1. o = buffer[sd][l][t]
    <3>1. buffer'[sd][l][t] = buffer[sd][l][t]
      BY <1>3, JoinPlaces
    <3> QED BY <1>0, <3>1, Zenon
  <2>2. HoldsStored(sd, l, t, o)
    BY <1>0, <2>1, Zenon DEF PlacesHoldStored
  <2>3. /\ o \in 1 .. n /\ Stored(o)
        /\ arrivals[o].side = sd /\ arrivals[o].key = l /\ arrivals[o].ts = t
    BY <1>1, <2>2, Zenon DEF HoldsStored
  <2>4. Stored(o)'
    <3>1. \/ r.late \/ r.side # arrivals[o].side
          \/ r.key # arrivals[o].key \/ r.ts # arrivals[o].ts
      BY <1>1, <1>3, <2>3, Zenon
    <3> QED BY <2>3, <3>1, StoredNext
  <2>5. o \in 1 .. Len(arrivals') /\ arrivals'[o] = arrivals[o]
    <3>1. n \in Nat /\ o \in 1 .. n
      BY <1>1, <2>3, Zenon
    <3>2. o \in 1 .. n + 1
      BY <3>1, Numbering, Zenon
    <3> QED BY <1>1, <3>1, <3>2, Zenon
  <2> QED BY <2>3, <2>4, <2>5, Zenon DEF HoldsStored
<1> QED BY <1>2, <1>3, Zenon

\* A record that is stored is in its place.
LEMMA JoinInPlaceNext ==
  ASSUME Join!JoinAssumption, JoinTypes, StoredInPlace, NEW side \in Join!Sides,
         NEW k \in Keys, NEW ts, NEW n, NEW r, JoinedBy(side, k, ts, n, r)
  PROVE  StoredInPlace'
<1>1. /\ n \in Nat /\ n = Len(arrivals) /\ Len(arrivals') = n + 1
      /\ \A i \in 1 .. n : arrivals'[i] = arrivals[i]
      /\ arrivals'[n + 1] = r /\ ts \in 0 .. Join!MaxTime
      /\ r.side = side /\ r.key = k /\ r.ts = ts /\ arrivals \in Seq(JoinArrival)
  BY Zenon DEF JoinedBy, JoinTypes
<1>2. latest \in Nat /\ latest' \in Nat /\ latest <= latest' /\ JoinGrace \in Nat
      /\ Join!Retention \in Nat /\ Join!Retention' = Join!Retention
  BY DEF JoinedBy, JoinTypes, Join!JoinAssumption, Join!Retention
<1> SUFFICES ASSUME NEW o \in 1 .. n + 1, Stored(o)',
                    arrivals'[o].ts >= latest' - Join!Retention - JoinGrace
             PROVE  buffer'[arrivals'[o].side][arrivals'[o].key][arrivals'[o].ts] = o
  BY <1>1, <1>2, Zenon DEF StoredInPlace
<1>3. CASE o = n + 1
  <2>1. ~r.late
    BY <1>1, <1>3, Zenon DEF Stored, Join!Buffered
  <2>2. buffer'[side][k][ts] = n + 1
    BY <2>1, JoinPlaces
  <2> QED BY <1>1, <1>3, <2>2, Zenon
<1>4. CASE o \in 1 .. n
  <2>0. PICK a : a = arrivals[o]
    BY Zenon
  <2>1. a \in JoinArrival /\ arrivals'[o] = a
    <3>1. arrivals \in Seq(JoinArrival) /\ o \in 1 .. Len(arrivals)
      BY <1>1, <1>4, Zenon
    <3>2. arrivals[o] \in JoinArrival
      BY <3>1
    <3> QED BY <1>1, <1>4, <2>0, <3>2, Zenon
  <2>2. /\ Stored(o)
        /\ r.late \/ r.side # a.side \/ r.key # a.key \/ r.ts # a.ts
    BY <1>4, <2>0, StoredNext, Zenon
  <2>3. a.ts \in Nat /\ a.ts \in 0 .. Join!MaxTime /\ a.key \in Keys
        /\ a.side \in Join!Sides
    BY <2>1 DEF JoinArrival, Join!JoinAssumption
  <2>4. a.ts >= latest - Join!Retention - JoinGrace
    BY <1>2, <2>1, <2>3
  <2>5. buffer[a.side][a.key][a.ts] = o
    BY <1>1, <1>4, <2>0, <2>2, <2>4, Zenon DEF StoredInPlace
  <2>6. buffer'[a.side][a.key][a.ts] = buffer[a.side][a.key][a.ts]
    <3>1. r.late \/ a.side # side \/ a.key # k \/ a.ts # ts
      BY <1>1, <2>2, Zenon
    <3>2. \A sd \in Join!Sides, l \in Keys, t \in 0 .. Join!MaxTime :
            r.late \/ sd # side \/ l # k \/ t # ts
              => buffer'[sd][l][t] = buffer[sd][l][t]
      BY JoinPlaces
    <3> QED BY <2>3, <3>1, <3>2, Zenon
  <2> QED BY <2>1, <2>5, <2>6, Zenon
<1> QED BY <1>1, <1>3, <1>4, Numbering, Zenon

\* A place that is not empty holds the record last stored there.
LEMMA PlaceStored ==
  ASSUME PlacesHoldStored, NEW side \in Join!Sides, NEW k \in Keys,
         NEW t \in 0 .. Join!MaxTime, buffer[side][k][t] # 0
  PROVE  HoldsStored(side, k, t, buffer[side][k][t])
  BY Zenon DEF PlacesHoldStored

\* The other side of a record.
LEMMA OtherSide ==
  ASSUME NEW side \in Join!Sides
  PROVE  /\ Join!Other(side) \in Join!Sides /\ Join!Other(side) # side
         /\ \A sd \in Join!Sides : sd # side => sd = Join!Other(side)
  BY Zenon DEF Join!Other, Join!Sides

\* A pair that is emitted is within the join window.
LEMMA JoinWindowNext ==
  ASSUME Join!JoinAssumption, JoinTypes, PlacesHoldStored, Join!JoinedInWindow,
         NEW side \in Join!Sides, NEW k \in Keys, NEW ts, NEW n, NEW r,
         JoinedBy(side, k, ts, n, r)
  PROVE  Join!JoinedInWindow'
<1> DEFINE Later(x) == IF x[1] > x[2] THEN x[1] ELSE x[2]
           Earlier(x) == IF x[1] > x[2] THEN x[2] ELSE x[1]
           Fine(x, i, o) == /\ x = Join!Pair(i, o) /\ Join!InBounds(i, o)
                            /\ ~arrivals[i].late /\ Join!Buffered(o, i)
<1>1. /\ n \in Nat /\ n = Len(arrivals) /\ Len(arrivals') = n + 1
      /\ \A i \in 1 .. n : arrivals'[i] = arrivals[i]
      /\ arrivals'[n + 1] = r /\ ts \in 0 .. Join!MaxTime
      /\ r.side = side /\ r.key = k /\ r.ts = ts
  BY Zenon DEF JoinedBy
<1>2. \A x \in joined : Fine(x, Later(x), Earlier(x))
  BY Zenon DEF Join!JoinedInWindow
<1> SUFFICES ASSUME NEW x \in joined' PROVE Fine(x, Later(x), Earlier(x))'
  BY Zenon DEF Join!JoinedInWindow
<1>3. CASE x \in joined
  <2>1. PICK i, o : i = Later(x) /\ o = Earlier(x)
    BY Zenon
  <2>2. i \in 1 .. n /\ o \in 1 .. n
    BY <1>1, <1>3, <2>1, Zenon DEF JoinTypes
  <2>3. Fine(x, i, o)
    BY <1>2, <1>3, <2>1, Zenon
  <2>4. /\ Join!InBounds(i, o)' <=> Join!InBounds(i, o)
        /\ Join!Pair(i, o)' = Join!Pair(i, o)
        /\ Join!Buffered(o, i)' <=> Join!Buffered(o, i)
        /\ arrivals'[i] = arrivals[i]
    <3>1. i \in 1 .. n + 1
      BY <1>1, <2>2, Numbering, Zenon
    <3> QED BY <1>1, <2>2, <3>1, HistoryKept, Zenon
  <2> QED BY <2>1, <2>3, <2>4, Zenon
<1>4. CASE x \notin joined
  <2>1. PICK o \in Join!Scan(buffer[Join!Other(side)][k], ts) :
          x = IF side = "left" THEN <<n + 1, o>> ELSE <<o, n + 1>>
    BY <1>4, Zenon DEF JoinedBy
  <2>2. ~r.late
    BY <1>4, Zenon DEF JoinedBy
  <2>3. PICK sd \in Join!Sides : sd = Join!Other(side) /\ sd # side
    BY OtherSide, Zenon
  <2>4. PICK u \in 0 .. Join!MaxTime :
          /\ o = buffer[sd][k][u] /\ o # 0
          /\ ts - Before - JoinGrace <= u /\ u <= ts + After
    <3>1. PICK entries : entries = buffer[sd][k] /\ o \in Join!Scan(entries, ts)
      BY <2>1, <2>3, Zenon
    <3>2. ts \in 0 .. Join!MaxTime
      BY <1>1, Zenon
    <3>3. \E u \in 0 .. Join!MaxTime :
            /\ o = entries[u] /\ o # 0
            /\ ts - Before - JoinGrace <= u /\ u <= ts + After
      BY <3>1, <3>2, ScanFinds, Zenon
    <3> QED BY <3>1, <3>3, Zenon
  <2>5. /\ o \in 1 .. n /\ Stored(o)
        /\ arrivals[o].side = sd /\ arrivals[o].key = k /\ arrivals[o].ts = u
    <3>1. /\ o \in 1 .. Len(arrivals) /\ Stored(o)
          /\ arrivals[o].side = sd /\ arrivals[o].key = k /\ arrivals[o].ts = u
      <4>1. HoldsStored(sd, k, u, o)
        BY <2>4, PlaceStored, Zenon
      <4> QED BY <4>1, Zenon DEF HoldsStored
    <3> QED BY <1>1, <3>1, Zenon
  <2>6. n + 1 > o /\ ~(o > n + 1) /\ arrivals'[o] = arrivals[o]
    <3>1. n \in Nat /\ o \in 1 .. n
      BY <1>1, <2>5, Zenon
    <3>2. n + 1 > o /\ ~(o > n + 1)
      BY <3>1
    <3> QED BY <1>1, <3>1, <3>2, Zenon
  <2>7. Later(x) = n + 1 /\ Earlier(x) = o
    BY <2>1, <2>6, Zenon
  <2>8. x = Join!Pair(n + 1, o)'
    BY <1>1, <2>1, Zenon DEF Join!Pair
  <2>9. Join!InBounds(n + 1, o)'
    <3>1. /\ arrivals'[n + 1].key = k /\ arrivals'[n + 1].side = side
          /\ arrivals'[n + 1].ts = ts
      BY <1>1, Zenon
    <3>2. arrivals'[o].key = k /\ arrivals'[o].side = sd /\ arrivals'[o].ts = u
      BY <2>5, <2>6, Zenon
    <3> QED BY <2>3, <2>4, <3>1, <3>2, Zenon DEF Join!InBounds
  <2>10. Join!Buffered(o, n + 1)'
    <3>1. Join!Buffered(o, n + 1)
      BY <1>1, <2>5, Zenon DEF Stored
    <3>2. n + 1 \in 1 .. n + 1
      BY <1>1, Numbering, Zenon
    <3> QED BY <1>1, <2>5, <3>1, <3>2, HistoryKept, Zenon
  <2>11. ~arrivals'[n + 1].late
    BY <1>1, <2>2, Zenon
  <2> HIDE DEF Later, Earlier
  <2> QED BY <2>7, <2>8, <2>9, <2>10, <2>11, Zenon
<1> QED BY <1>3, <1>4, Zenon

\* What a timely record at ts looks for is within retention and grace of the
\* time before it, now.
LEMMA WithinReach ==
  ASSUME NEW ts \in Nat, NEW u \in Nat, NEW now \in Nat, NEW next \in Nat,
         NEW before \in Nat, NEW after \in Nat, NEW grace \in Nat,
         now <= next, ts >= next - after, ts - before - grace <= u
  PROVE  u >= now - (before + after) - grace
  OBVIOUS

\* A timely record finds every record it must, and the pairs of earlier ones
\* stay.
LEMMA JoinTimelyNext ==
  ASSUME Join!JoinAssumption, JoinTypes, StoredInPlace, Join!TimelyJoinsComplete,
         NEW side \in Join!Sides, NEW k \in Keys, NEW ts, NEW n, NEW r,
         JoinedBy(side, k, ts, n, r)
  PROVE  Join!TimelyJoinsComplete'
<1>1. /\ n \in Nat /\ n = Len(arrivals) /\ Len(arrivals') = n + 1
      /\ \A i \in 1 .. n : arrivals'[i] = arrivals[i]
      /\ arrivals'[n + 1] = r /\ ts \in 0 .. Join!MaxTime
      /\ r.side = side /\ r.key = k /\ r.ts = ts /\ r.latest = latest'
      /\ arrivals \in Seq(JoinArrival)
  BY Zenon DEF JoinedBy, JoinTypes
<1>2. SUFFICES ASSUME NEW i \in 1 .. n + 1, NEW o \in 1 .. i - 1,
                      ~arrivals'[i].late,
                      arrivals'[i].ts >= arrivals'[i].latest - After,
                      Join!InBounds(i, o)', Join!Buffered(o, i)'
               PROVE  Join!Pair(i, o)' \in joined'
  BY <1>1, Zenon DEF Join!TimelyJoinsComplete, Join!Ids
<1>3. i \in Int /\ o \in 1 .. n
  BY <1>1, Numbering, Zenon
<1>4. CASE i \in 1 .. n
  <2>1. /\ Join!InBounds(i, o) /\ Join!Pair(i, o)' = Join!Pair(i, o)
        /\ Join!Buffered(o, i) /\ arrivals'[i] = arrivals[i]
    BY <1>1, <1>2, <1>3, <1>4, HistoryKept, Zenon
  <2>2. Join!Pair(i, o) \in joined
    BY <1>1, <1>2, <1>4, <2>1, Zenon DEF Join!TimelyJoinsComplete, Join!Ids
  <2>3. joined \subseteq joined'
    <3>1. CASE r.late
      BY <3>1, Zenon DEF JoinedBy
    <3>2. CASE ~r.late
      BY <3>2, Zenon DEF JoinedBy
    <3> QED BY <3>1, <3>2, Zenon
  <2> QED BY <2>1, <2>2, <2>3, Zenon
<1>5. CASE i = n + 1
  <2>1. PICK a : a = arrivals[o] /\ arrivals'[o] = a /\ a \in JoinArrival
    <3>1. arrivals \in Seq(JoinArrival) /\ o \in 1 .. Len(arrivals)
      BY <1>1, <1>3, Zenon
    <3>2. arrivals[o] \in JoinArrival
      BY <3>1
    <3>3. arrivals'[o] = arrivals[o]
      BY <1>1, <1>3, Zenon
    <3> QED BY <3>2, <3>3, Zenon
  <2>2. /\ ~r.late /\ ts >= latest' - After
        /\ k = a.key /\ side # a.side
        /\ ts - Before - JoinGrace <= a.ts /\ a.ts <= ts + After
    BY <1>1, <1>2, <1>5, <2>1, Zenon DEF Join!InBounds
  <2>3. /\ a.ts \in 0 .. Join!MaxTime /\ a.side \in Join!Sides
        /\ latest \in Nat /\ latest' \in Nat /\ latest <= latest'
    BY <2>1, Zenon DEF JoinArrival, JoinedBy, JoinTypes
  <2>4. a.ts >= latest - Join!Retention - JoinGrace
    <3>1. Join!MaxTime \in Nat /\ Before \in Nat /\ After \in Nat /\ JoinGrace \in Nat
      BY DEF Join!JoinAssumption
    <3>2. PICK u \in Nat : u = a.ts
      BY <2>3, <3>1
    <3>3. ts \in Nat
      BY <1>1, <3>1
    <3>4. /\ ts >= latest' - After /\ ts - Before - JoinGrace <= u
          /\ latest \in Nat /\ latest' \in Nat /\ latest <= latest'
      BY <2>2, <2>3, <3>2, Zenon
    <3>5. u >= latest - (Before + After) - JoinGrace
      BY <3>1, <3>3, <3>4, WithinReach, Zenon
    <3> QED BY <3>2, <3>5, Zenon DEF Join!Retention
  <2>5. Stored(o)
    <3>1. Join!Buffered(o, n + 1)
      BY <1>1, <1>2, <1>3, <1>5, HistoryKept, Zenon
    <3> QED BY <1>1, <3>1, Zenon DEF Stored
  <2>6. buffer[a.side][k][a.ts] = o
    BY <1>1, <1>3, <2>1, <2>2, <2>4, <2>5, Zenon DEF StoredInPlace
  <2>7. a.side = Join!Other(side)
    BY <2>2, <2>3, OtherSide, Zenon
  <2>8. o \in Join!Scan(buffer[Join!Other(side)][k], ts)
    <3>1. PICK entries : entries = buffer[Join!Other(side)][k] /\ entries[a.ts] = o
      BY <2>6, <2>7, Zenon
    <3>2. o # 0
      BY <1>3
    <3>3. entries[a.ts] \in Join!Scan(entries, ts)
      BY <1>1, <2>2, <2>3, <3>1, <3>2, ScanFinds, Zenon
    <3> QED BY <3>1, <3>3, Zenon
  <2>9. Join!Pair(i, o)' = IF side = "left" THEN <<n + 1, o>> ELSE <<o, n + 1>>
    BY <1>1, <1>5, Zenon DEF Join!Pair
  <2> QED BY <2>2, <2>8, <2>9, Zenon DEF JoinedBy
<1>6. i \in 1 .. n \/ i = n + 1
  <2>1. n \in Nat
    BY <1>1, Zenon
  <2> QED BY <2>1
<1> QED BY <1>4, <1>5, <1>6, Zenon

\* A record that is processed.
LEMMA JoinInvProcess ==
  ASSUME Join!JoinAssumption, JoinInv, NEW side \in Join!Sides, NEW k \in Keys,
         NEW ts \in Timestamps, Join!Process(side, k, ts)
  PROVE  JoinInv'
<1>1. PICK n, r : JoinedBy(side, k, ts, n, r)
  BY JoinProcess, Zenon DEF JoinInv
<1>2. JoinTypes'
  BY <1>1, JoinTypesNext, Zenon DEF JoinInv
<1>3. PlacesHoldStored'
  BY <1>1, JoinPlacesNext, Zenon DEF JoinInv
<1>4. StoredInPlace'
  BY <1>1, JoinInPlaceNext, Zenon DEF JoinInv
<1>5. Join!JoinedInWindow'
  BY <1>1, JoinWindowNext, Zenon DEF JoinInv
<1>6. Join!TimelyJoinsComplete'
  BY <1>1, JoinTimelyNext, Zenon DEF JoinInv
<1> QED BY <1>2, <1>3, <1>4, <1>5, <1>6, Zenon DEF JoinInv

\* Without a new record, what was said of the records and pairs stays.
LEMMA JoinHistorySame ==
  ASSUME JoinInv, arrivals' = arrivals, joined' = joined
  PROVE  /\ Join!JoinedInWindow' /\ Join!TimelyJoinsComplete'
         /\ \A o : Stored(o)' <=> Stored(o)
<1>1. Join!JoinedInWindow'
  <2>1. \A i, o : /\ Join!Pair(i, o)' = Join!Pair(i, o)
                  /\ Join!InBounds(i, o)' <=> Join!InBounds(i, o)
                  /\ Join!Buffered(o, i)' <=> Join!Buffered(o, i)
    BY Zenon DEF Join!Pair, Join!InBounds, Join!Buffered
  <2> QED BY <2>1, Zenon DEF JoinInv, Join!JoinedInWindow
<1>2. Join!TimelyJoinsComplete'
  BY DEF JoinInv, Join!TimelyJoinsComplete, Join!Ids, Join!Pair, Join!InBounds,
         Join!Buffered
<1>3. \A o : Stored(o)' <=> Stored(o)
  BY Zenon DEF Stored, Join!Buffered
<1> QED BY <1>1, <1>2, <1>3, Zenon

\* What is within size and grace of a later time has not expired.
LEMMA NotExpired ==
  ASSUME NEW t \in Nat, NEW now \in Nat, NEW top \in Nat, NEW size \in Nat,
         NEW grace \in Nat, now <= top, t >= top - size - grace
  PROVE  ~Join!Expired(t, now, size, grace)
  BY DEF Join!Expired

\* The buffers after PostBatch: a sweep only empties places, and none that is
\* within retention and grace of the largest time seen.
LEMMA JoinSweep ==
  ASSUME Join!JoinAssumption, JoinTypes, Join!PostBatch
  PROVE  /\ buffer' \in [Join!Sides -> [Keys -> [0 .. Join!MaxTime -> Nat]]]
         /\ \A side \in Join!Sides, k \in Keys, t \in 0 .. Join!MaxTime :
              /\ buffer'[side][k][t] \in {0, buffer[side][k][t]}
              /\ t >= latest - Join!Retention - JoinGrace
                   => buffer'[side][k][t] = buffer[side][k][t]
<1>1. CASE ~Join!SweepDue(streamTime, lastSweepTime, Join!Retention)
  <2>1. buffer' = buffer
    BY <1>1, Zenon DEF Join!PostBatch
  <2> QED BY <2>1, Zenon DEF JoinTypes
<1>2. CASE Join!SweepDue(streamTime, lastSweepTime, Join!Retention)
  <2>1. buffer' = [side \in Join!Sides |-> [k \in Keys |-> [t \in 0 .. Join!MaxTime |->
                     IF Join!Expired(t, streamTime, Join!Retention, JoinGrace)
                       THEN 0 ELSE buffer[side][k][t]]]]
    BY <1>2, Zenon DEF Join!PostBatch
  <2>2. ASSUME NEW t \in 0 .. Join!MaxTime, t >= latest - Join!Retention - JoinGrace
        PROVE  ~Join!Expired(t, streamTime, Join!Retention, JoinGrace)
    <3>1. /\ Join!MaxTime \in Nat /\ Join!Retention \in Nat /\ JoinGrace \in Nat
          /\ streamTime \in Nat /\ latest \in Nat /\ streamTime <= latest
      BY DEF Join!JoinAssumption, Join!Retention, JoinTypes
    <3>2. t \in Nat
      BY <3>1
    <3> QED BY <2>2, <3>1, <3>2, NotExpired, Zenon
  <2>3. buffer \in [Join!Sides -> [Keys -> [0 .. Join!MaxTime -> Nat]]]
    BY Zenon DEF JoinTypes
  <2>4. buffer' \in [Join!Sides -> [Keys -> [0 .. Join!MaxTime -> Nat]]]
    BY <2>1, <2>3
  <2>5. \A side \in Join!Sides, k \in Keys, t \in 0 .. Join!MaxTime :
          buffer'[side][k][t] = IF Join!Expired(t, streamTime, Join!Retention, JoinGrace)
                                  THEN 0 ELSE buffer[side][k][t]
    BY <2>1, Zenon
  <2>6. ASSUME NEW side \in Join!Sides, NEW k \in Keys, NEW t \in 0 .. Join!MaxTime
        PROVE  /\ buffer'[side][k][t] \in {0, buffer[side][k][t]}
               /\ t >= latest - Join!Retention - JoinGrace
                    => buffer'[side][k][t] = buffer[side][k][t]
    <3>1. CASE Join!Expired(t, streamTime, Join!Retention, JoinGrace)
      BY <2>2, <2>5, <3>1, Zenon
    <3>2. CASE ~Join!Expired(t, streamTime, Join!Retention, JoinGrace)
      BY <2>5, <3>2, Zenon
    <3> QED BY <3>1, <3>2, Zenon
  <2> QED BY <2>4, <2>6, Zenon
<1> QED BY <1>1, <1>2, Zenon

\* A step after which the records are the same, and the places hold what they
\* held or nothing, and what they held where no sweep may have expired it.
LEMMA JoinInvKept ==
  ASSUME JoinInv, arrivals' = arrivals, joined' = joined, latest' = latest,
         buffer' \in [Join!Sides -> [Keys -> [0 .. Join!MaxTime -> Nat]]],
         streamTime' \in Nat, persisted' \in Nat,
         streamTime' <= latest, persisted' <= latest,
         \A side \in Join!Sides, k \in Keys, t \in 0 .. Join!MaxTime :
           /\ buffer'[side][k][t] \in {0, buffer[side][k][t]}
           /\ t >= latest - Join!Retention - JoinGrace
                => buffer'[side][k][t] = buffer[side][k][t]
  PROVE  JoinInv'
<1>1. /\ Join!JoinedInWindow' /\ Join!TimelyJoinsComplete'
      /\ \A o : Stored(o)' <=> Stored(o)
  BY JoinHistorySame, Zenon
<1>2. JoinTypes'
  <2>1. JoinArrival' = JoinArrival /\ (0 .. Join!MaxTime)' = 0 .. Join!MaxTime
        /\ Join!Sides' = Join!Sides
    BY Zenon DEF JoinArrival, Join!Sides, Join!MaxTime
  <2>2. /\ arrivals' \in Seq(JoinArrival') /\ latest' \in Nat
        /\ joined' \subseteq (1 .. Len(arrivals')) \X (1 .. Len(arrivals'))
    BY <2>1, Zenon DEF JoinInv, JoinTypes
  <2> QED BY <2>1, <2>2, Zenon DEF JoinTypes
<1>3. PlacesHoldStored'
  <2> SUFFICES ASSUME NEW sd \in Join!Sides, NEW l \in Keys, NEW t \in 0 .. Join!MaxTime,
                      NEW o, o = buffer'[sd][l][t], o # 0
               PROVE  HoldsStored(sd, l, t, o)'
    BY Zenon DEF PlacesHoldStored, Join!MaxTime, Join!Sides
  <2>1. o = buffer[sd][l][t]
    BY Zenon
  <2>2. HoldsStored(sd, l, t, o)
    BY <2>1, Zenon DEF JoinInv, PlacesHoldStored
  <2> QED BY <1>1, <2>2, Zenon DEF HoldsStored
<1>4. StoredInPlace'
  <2> SUFFICES ASSUME NEW o \in 1 .. Len(arrivals), Stored(o)',
                      arrivals[o].ts >= latest - Join!Retention - JoinGrace
               PROVE  buffer'[arrivals[o].side][arrivals[o].key][arrivals[o].ts] = o
    BY Zenon DEF StoredInPlace, Join!Retention
  <2>1. Stored(o)
    BY <1>1, Zenon
  <2>2. buffer[arrivals[o].side][arrivals[o].key][arrivals[o].ts] = o
    BY <2>1, Zenon DEF JoinInv, StoredInPlace
  <2>3. /\ arrivals[o].side \in Join!Sides /\ arrivals[o].key \in Keys
        /\ arrivals[o].ts \in 0 .. Join!MaxTime
    <3>1. arrivals[o] \in JoinArrival
      BY DEF JoinInv, JoinTypes
    <3> QED BY <3>1, Zenon DEF JoinArrival
  <2> QED BY <2>2, <2>3, Zenon
<1> QED BY <1>1, <1>2, <1>3, <1>4, Zenon DEF JoinInv

\* PostBatch may sweep both stores.
LEMMA JoinPostBatch ==
  ASSUME Join!JoinAssumption, JoinInv, Join!PostBatch
  PROVE  JoinInv'
<1>1. /\ arrivals' = arrivals /\ joined' = joined /\ latest' = latest
      /\ streamTime' = streamTime /\ persisted' \in {streamTime, persisted}
  BY Zenon DEF Join!PostBatch
<1>2. /\ streamTime \in Nat /\ persisted \in Nat
      /\ streamTime <= latest /\ persisted <= latest
  BY Zenon DEF JoinInv, JoinTypes
<1>3. /\ streamTime' \in Nat /\ persisted' \in Nat
      /\ streamTime' <= latest /\ persisted' <= latest
  BY <1>1, <1>2, Zenon
<1> QED BY <1>1, <1>3, JoinSweep, JoinInvKept, Zenon DEF JoinInv

\* A reopening, with the stream time that was persisted or none.
LEMMA JoinReopen ==
  ASSUME JoinInv, Join!Reopen
  PROVE  JoinInv'
<1>1. /\ arrivals' = arrivals /\ joined' = joined /\ latest' = latest
      /\ buffer' = buffer /\ persisted' \in {persisted, 0} /\ streamTime' = persisted'
  BY Zenon DEF Join!Reopen
<1>2. /\ persisted \in Nat /\ latest \in Nat /\ persisted <= latest
      /\ buffer \in [Join!Sides -> [Keys -> [0 .. Join!MaxTime -> Nat]]]
  BY Zenon DEF JoinInv, JoinTypes
<1>3. /\ streamTime' \in Nat /\ persisted' \in Nat
      /\ streamTime' <= latest /\ persisted' <= latest
  BY <1>1, <1>2
<1> QED BY <1>1, <1>2, <1>3, JoinInvKept, Zenon

\* JoinInv is inductive.
LEMMA JoinStep ==
  ASSUME Join!JoinAssumption, JoinInv, [Join!Next]_(Join!vars)
  PROVE  JoinInv'
<1>1. CASE \E side \in Join!Sides, k \in Keys, ts \in Timestamps : Join!Process(side, k, ts)
  BY <1>1, JoinInvProcess, Zenon
<1>2. CASE Join!PostBatch
  BY <1>2, JoinPostBatch, Zenon
<1>3. CASE Join!Reopen
  BY <1>3, JoinReopen, Zenon
<1>4. CASE UNCHANGED Join!vars
  <2>1. /\ arrivals' = arrivals /\ joined' = joined /\ latest' = latest
        /\ buffer' = buffer /\ persisted' = persisted /\ streamTime' = streamTime
    BY <1>4, Zenon DEF Join!vars
  <2>2. /\ persisted \in Nat /\ streamTime \in Nat
        /\ persisted <= latest /\ streamTime <= latest
        /\ buffer \in [Join!Sides -> [Keys -> [0 .. Join!MaxTime -> Nat]]]
    BY Zenon DEF JoinInv, JoinTypes
  <2> QED BY <2>1, <2>2, JoinInvKept, Zenon
<1> QED BY <1>1, <1>2, <1>3, <1>4, Zenon DEF Join!Next

\* The buffers are empty at first.
LEMMA JoinInit ==
  ASSUME Join!Init
  PROVE  JoinInv
<1>1. arrivals = <<>> /\ Len(arrivals) = 0 /\ arrivals \in Seq(JoinArrival)
  BY DEF Join!Init
<1>2. joined = {} /\ streamTime = 0 /\ persisted = 0 /\ latest = 0
  BY Zenon DEF Join!Init
<1>3. buffer = [side \in Join!Sides |-> [k \in Keys |-> [t \in 0 .. Join!MaxTime |-> 0]]]
  BY Zenon DEF Join!Init
<1>4. JoinTypes
  <2>1. buffer \in [Join!Sides -> [Keys -> [0 .. Join!MaxTime -> Nat]]]
    BY <1>3, Zenon
  <2> QED BY <1>1, <1>2, <2>1 DEF JoinTypes
<1>5. PlacesHoldStored
  BY <1>3, Zenon DEF PlacesHoldStored
<1>6. StoredInPlace
  BY <1>1 DEF StoredInPlace
<1>7. Join!JoinedInWindow
  BY <1>2, Zenon DEF Join!JoinedInWindow
<1>8. Join!TimelyJoinsComplete
  BY <1>1 DEF Join!TimelyJoinsComplete, Join!Ids
<1> QED BY <1>4, <1>5, <1>6, <1>7, <1>8, Zenon DEF JoinInv

\* KStream.Join emits no pair outside the join window, whatever the order in
\* which records arrive, batches end and the task is reopened: each pair is
\* emitted left record first, by its later record, which was not late, against
\* a record that was stored and not overwritten.
THEOREM JoinsInWindow ==
  ASSUME Join!JoinAssumption
  PROVE  Join!Spec => []Join!JoinedInWindow
<1>1. Join!Init => JoinInv
  BY JoinInit, Zenon
<1>2. JoinInv /\ [Join!Next]_(Join!vars) => JoinInv'
  BY JoinStep, Zenon
<1>3. JoinInv => Join!JoinedInWindow
  BY Zenon DEF JoinInv
<1> QED BY <1>1, <1>2, <1>3, PTL DEF Join!Spec

\* A record that is no more than After behind the largest timestamp seen is
\* joined with every buffered record the scan bounds of ssjoin.go allow: the
\* retention sweep has expired none of them, even when the task was reopened
\* with an older stream time.
THEOREM TimelyJoinsFound ==
  ASSUME Join!JoinAssumption
  PROVE  Join!Spec => []Join!TimelyJoinsComplete
<1>1. Join!Init => JoinInv
  BY JoinInit, Zenon
<1>2. JoinInv /\ [Join!Next]_(Join!vars) => JoinInv'
  BY JoinStep, Zenon
<1>3. JoinInv => Join!TimelyJoinsComplete
  BY Zenon DEF JoinInv
<1> QED BY <1>1, <1>2, <1>3, PTL DEF Join!Spec

-----------------------------------------------------------------------------
(* Sessions.                                                               *)

\* What SessionsSeparated says of the sessions of one key.
Separated(S) ==
  /\ \A s \in S : s.start <= s.end
  /\ \A s, t \in S : s # t => Session!Before(s, t) \/ Session!Before(t, s)

\* The least element, where there is one.
LEMMA LeastIs ==
  ASSUME NEW S, NEW m \in S, S \subseteq Int, \A x \in S : m <= x
  PROVE  Session!Least(S) = m
<1>1. \E y \in S : \A x \in S : y <= x
  BY Zenon
<1>2. Session!Least(S) \in S /\ \A x \in S : Session!Least(S) <= x
  BY <1>1, Zenon DEF Session!Least
<1>3. Session!Least(S) \in Int /\ m \in Int /\ Session!Least(S) <= m /\ m <= Session!Least(S)
  BY <1>2, Zenon
<1> QED
  BY <1>3

\* The greatest element, where there is one.
LEMMA GreatestIs ==
  ASSUME NEW S, NEW m \in S, S \subseteq Int, \A x \in S : x <= m
  PROVE  Session!Greatest(S) = m
<1>1. \E y \in S : \A x \in S : x <= y
  BY Zenon
<1>2. Session!Greatest(S) \in S /\ \A x \in S : x <= Session!Greatest(S)
  BY <1>1, Zenon DEF Session!Greatest
<1>3. /\ Session!Greatest(S) \in Int /\ m \in Int
      /\ Session!Greatest(S) <= m /\ m <= Session!Greatest(S)
  BY <1>2, Zenon
<1> QED
  BY <1>3

\* Merging the sessions a record matches: at most one of them starts before the
\* record, and the merged start is that start or the timestamp.
LEMMA MergedStart ==
  ASSUME Session!SessionAssumption, NEW S \in SUBSET Session!Sessions,
         Separated(S), NEW ts \in Nat, NEW id
  PROVE  LET M == {s \in S : Session!Matches(s, ts)}
             new == Session!Merged(M, ts, id)
         IN  /\ new.start \in {ts} \cup {s.start : s \in M}
             /\ new.start <= ts
             /\ \A s \in M : new.start <= s.start
<1> DEFINE M == {s \in S : Session!Matches(s, ts)}
           T == {ts} \cup {s.start : s \in M}
<1>1. T \subseteq Int
  BY DEF Session!Sessions
<1>2. Session!Merged(M, ts, id).start = Session!Least(T)
  BY Zenon DEF Session!Merged
<1>3. CASE \E s \in M : s.start < ts
  <2>1. PICK s \in M : s.start < ts
    BY <1>3, Zenon
  <2>2. ASSUME NEW t \in M
        PROVE  s.start <= t.start
    BY <2>1
       DEF Separated, Session!Before, Session!Matches, Session!Sessions, Session!SessionAssumption
  <2>3. s.start \in T /\ \A x \in T : s.start <= x
    BY <2>1, <2>2 DEF Session!Sessions
  <2>4. Session!Least(T) = s.start
    BY <1>1, <2>3, LeastIs, Zenon
  <2>5. s.start <= ts /\ s.start \in {ts} \cup {x.start : x \in M}
    BY <2>1 DEF Session!Sessions
  <2> HIDE DEF M, T
  <2>6. Session!Merged(M, ts, id).start = s.start
    BY <1>2, <2>4, Zenon
  <2> QED
    BY <2>2, <2>5, <2>6, Zenon DEF M
<1>4. CASE \A s \in M : ~(s.start < ts)
  <2>1. ts \in T /\ \A x \in T : ts <= x
    BY <1>4 DEF Session!Sessions
  <2>2. Session!Least(T) = ts
    BY <1>1, <2>1, LeastIs, Zenon
  <2> QED
    BY <1>2, <2>1, <2>2, Zenon
<1> QED
  BY <1>3, <1>4, Zenon

\* Likewise at most one matched session ends after the record.
LEMMA MergedEnd ==
  ASSUME Session!SessionAssumption, NEW S \in SUBSET Session!Sessions,
         Separated(S), NEW ts \in Nat, NEW id
  PROVE  LET M == {s \in S : Session!Matches(s, ts)}
             new == Session!Merged(M, ts, id)
         IN  /\ new.end \in {ts} \cup {s.end : s \in M}
             /\ ts <= new.end
             /\ \A s \in M : s.end <= new.end
<1> DEFINE M == {s \in S : Session!Matches(s, ts)}
           T == {ts} \cup {s.end : s \in M}
<1>1. T \subseteq Int
  BY DEF Session!Sessions
<1>2. Session!Merged(M, ts, id).end = Session!Greatest(T)
  BY Zenon DEF Session!Merged
<1>3. CASE \E s \in M : ts < s.end
  <2>1. PICK s \in M : ts < s.end
    BY <1>3, Zenon
  <2>2. ASSUME NEW t \in M
        PROVE  t.end <= s.end
    BY <2>1
       DEF Separated, Session!Before, Session!Matches, Session!Sessions, Session!SessionAssumption
  <2>3. s.end \in T /\ \A x \in T : x <= s.end
    BY <2>1, <2>2 DEF Session!Sessions
  <2>4. Session!Greatest(T) = s.end
    BY <1>1, <2>3, GreatestIs, Zenon
  <2>5. ts <= s.end /\ s.end \in {ts} \cup {x.end : x \in M}
    BY <2>1 DEF Session!Sessions
  <2> HIDE DEF M, T
  <2>6. Session!Merged(M, ts, id).end = s.end
    BY <1>2, <2>4, Zenon
  <2> QED
    BY <2>2, <2>5, <2>6, Zenon DEF M
<1>4. CASE \A s \in M : ~(ts < s.end)
  <2>1. ts \in T /\ \A x \in T : x <= ts
    BY <1>4 DEF Session!Sessions
  <2>2. Session!Greatest(T) = ts
    BY <1>1, <2>1, GreatestIs, Zenon
  <2> QED
    BY <1>2, <2>1, <2>2, Zenon
<1> QED
  BY <1>3, <1>4, Zenon

\* A session that does not match the record is more than a gap from the record
\* and from every session that does, hence from the merged one.
LEMMA MergedApart ==
  ASSUME Session!SessionAssumption, NEW S \in SUBSET Session!Sessions,
         Separated(S), NEW ts \in Nat, NEW id
  PROVE  LET M == {s \in S : Session!Matches(s, ts)}
             new == Session!Merged(M, ts, id)
         IN  /\ new.start \in Nat /\ new.end \in Nat /\ new.start <= new.end
             /\ \A t \in S \ M : Session!Before(t, new) \/ Session!Before(new, t)
<1> DEFINE M == {s \in S : Session!Matches(s, ts)}
           new == Session!Merged(M, ts, id)
<1>1. /\ new.start \in {ts} \cup {s.start : s \in M}
      /\ new.start <= ts
  BY MergedStart, Zenon
<1>2. /\ new.end \in {ts} \cup {s.end : s \in M}
      /\ ts <= new.end
  BY MergedEnd, Zenon
<1> HIDE DEF new
<1>3. new.start \in Nat /\ new.end \in Nat
  BY <1>1, <1>2, Zenon DEF Session!Sessions
<1>4. ASSUME NEW t \in S \ M
      PROVE  Session!Before(t, new) \/ Session!Before(new, t)
  <2>1. CASE t.end + Gap < ts
    <3>1. ASSUME NEW m \in M
          PROVE  t.end + Gap < m.start
      BY <1>4, <2>1
         DEF Separated, Session!Before, Session!Matches, Session!Sessions, Session!SessionAssumption
    <3> QED
      BY <1>1, <2>1, <3>1, Zenon DEF Session!Before
  <2>2. CASE ts < t.start - Gap
    <3>1. ASSUME NEW m \in M
          PROVE  m.end + Gap < t.start
      BY <1>4, <2>2
         DEF Separated, Session!Before, Session!Matches, Session!Sessions, Session!SessionAssumption
    <3>2. ts + Gap < t.start
      BY <2>2 DEF Session!Sessions, Session!SessionAssumption
    <3> QED
      BY <1>2, <3>1, <3>2, Zenon DEF Session!Before
  <2> QED
    BY <1>4, <2>1, <2>2 DEF Session!Matches, Session!Sessions, Session!SessionAssumption
<1> QED
  BY <1>1, <1>2, <1>3, <1>4 DEF new

\* The write under the merged start overwrites no session but the matched ones.
LEMMA ReplacedIs ==
  ASSUME Session!SessionAssumption, NEW S \in SUBSET Session!Sessions,
         Separated(S), NEW ts \in Nat, NEW id
  PROVE  LET M == {s \in S : Session!Matches(s, ts)}
             new == Session!Merged(M, ts, id)
         IN  Session!Replaced(S, M, new) = (S \ M) \cup {new}
<1> DEFINE M == {s \in S : Session!Matches(s, ts)}
           new == Session!Merged(M, ts, id)
<1>1. /\ new.start \in Nat /\ new.end \in Nat /\ new.start <= new.end
      /\ \A t \in S \ M : Session!Before(t, new) \/ Session!Before(new, t)
  BY MergedApart, Zenon
<1> HIDE DEF new
<1>2. \A t \in S \ M : t.start # new.start
  BY <1>1 DEF Session!Before, Separated, Session!Sessions, Session!SessionAssumption
<1> QED BY <1>2, Zenon DEF Session!Replaced, new

\* Replacing the matched sessions by the merged one keeps the sessions of the
\* key separated.
LEMMA ReplacedSeparated ==
  ASSUME Session!SessionAssumption, NEW S \in SUBSET Session!Sessions,
         Separated(S), NEW ts \in Nat, NEW id \in Nat
  PROVE  LET M == {s \in S : Session!Matches(s, ts)}
         IN  /\ Session!Replaced(S, M, Session!Merged(M, ts, id)) \in SUBSET Session!Sessions
             /\ Separated(Session!Replaced(S, M, Session!Merged(M, ts, id)))
<1> DEFINE M == {s \in S : Session!Matches(s, ts)}
           new == Session!Merged(M, ts, id)
           R == Session!Replaced(S, M, new)
<1>1. /\ new.start \in Nat /\ new.end \in Nat /\ new.start <= new.end
      /\ \A t \in S \ M : Session!Before(t, new) \/ Session!Before(new, t)
  BY MergedApart, Zenon
<1>2. R = (S \ M) \cup {new}
  BY ReplacedIs, Zenon
<1>3. new.acc \in SUBSET Nat
  <2>1. new.acc = {id} \cup UNION {s.acc : s \in M}
    BY Zenon DEF Session!Merged
  <2>2. \A s \in M : s.acc \subseteq Nat
    BY Zenon DEF Session!Sessions
  <2> HIDE DEF new, M
  <2> QED
    BY <2>1, <2>2, Zenon
<1>4. new \in Session!Sessions
  <2>1. new = [start |-> new.start, end |-> new.end, acc |-> new.acc]
    BY Zenon DEF Session!Merged
  <2> HIDE DEF new
  <2> QED
    BY <1>1, <1>3, <2>1, Zenon DEF Session!Sessions
<1> HIDE DEF new, M, R
<1>5. R \subseteq Session!Sessions
  BY <1>2, <1>4, Zenon
<1>6. \A s \in R : s.start <= s.end
  BY <1>1, <1>2, Zenon DEF Separated
<1>7. ASSUME NEW s \in R, NEW t \in R, s # t
      PROVE  Session!Before(s, t) \/ Session!Before(t, s)
  BY <1>1, <1>2, <1>7, Zenon DEF Separated
<1>8. Separated(R)
  BY <1>6, <1>7, Zenon DEF Separated
<1> QED
  BY <1>5, <1>8, Zenon DEF R, M, new

\* Every session was made of records that have arrived.
AccArrived == \A k \in Keys : \A s \in store[k] : s.acc \subseteq 1 .. Len(arrivals)

\* The inductive invariant: types, separation of every key's sessions, and the
\* origin of their records.
SessionInv ==
  /\ Session!TypeOK
  /\ Session!SessionsSeparated
  /\ AccArrived

\* SessionsSeparated, key by key.
LEMMA SeparatedKeys == Session!SessionsSeparated <=> \A k \in Keys : Separated(store[k])
  BY Zenon DEF Session!SessionsSeparated, Separated

\* One record preserves the types and the separation of all sessions.
LEMMA ProcessInv ==
  ASSUME Session!SessionAssumption, SessionInv, NEW k \in Keys,
         NEW ts \in Timestamps, Session!Process(k, ts)
  PROVE  SessionInv'
<1> DEFINE M == Session!Matched(k, ts)
           id == Len(arrivals) + 1
           late == Session!IsLate(ts, streamTime, Gap, SessionGrace)
           new == Session!Replaced(store[k], M, Session!Merged(M, ts, id))
           rec == [key |-> k, ts |-> ts, late |-> late]
<1>1. ts \in Nat /\ id \in Nat /\ late \in BOOLEAN
  BY DEF SessionInv, Session!TypeOK, Session!IsLate, Session!SessionAssumption
<1>2. store[k] \in SUBSET Session!Sessions /\ Separated(store[k])
  BY SeparatedKeys, Zenon DEF SessionInv, Session!TypeOK
<1>3. M = {s \in store[k] : Session!Matches(s, ts)}
  BY Zenon DEF Session!Matched
<1>4. new \in SUBSET Session!Sessions /\ Separated(new)
  BY <1>1, <1>2, <1>3, ReplacedSeparated, Zenon
<1>5. /\ store' = [store EXCEPT ![k] = IF late THEN @ ELSE new]
      /\ arrivals' = Append(arrivals, rec)
      /\ streamTime' = Session!Advanced(streamTime, ts)
      /\ lastSweepTime' = lastSweepTime
      /\ deleted' = deleted
  BY Zenon DEF Session!Process
<1> HIDE DEF new, late
<1>6. store' \in [Keys -> SUBSET Session!Sessions]
  BY <1>1, <1>2, <1>4, <1>5, Zenon DEF SessionInv, Session!TypeOK
<1>7. /\ arrivals' \in Seq([key : Keys, ts : Nat, late : BOOLEAN])
      /\ deleted' \subseteq 1 .. Len(arrivals')
  BY <1>1, <1>5 DEF SessionInv, Session!TypeOK
<1>8. /\ streamTime' \in Nat
      /\ lastSweepTime' \in Nat
      /\ lastSweepTime' <= streamTime'
  BY <1>1, <1>5 DEF SessionInv, Session!TypeOK, Session!Advanced
<1>9. \A j \in Keys : Separated(store'[j])
  BY <1>2, <1>4, <1>5, SeparatedKeys, Zenon DEF SessionInv, Session!TypeOK
<1>10. Session!SessionsSeparated'
  BY <1>9, Zenon DEF Session!SessionsSeparated, Separated
<1>11. Len(arrivals') = id
  BY <1>1, <1>5 DEF SessionInv, Session!TypeOK
<1>12. \A s \in new : s.acc \subseteq 1 .. id
  <2>1. Session!Merged(M, ts, id).acc = {id} \cup UNION {s.acc : s \in M}
    BY Zenon DEF Session!Merged
  <2>2. \A s \in store[k] : s.acc \subseteq 1 .. id
    BY <1>1 DEF SessionInv, Session!TypeOK, AccArrived
  <2>3. M \subseteq store[k] /\ id \in 1 .. id
    BY <1>1, <1>3 DEF SessionInv, Session!TypeOK
  <2>4. \A s \in new : s \in store[k] \/ s = Session!Merged(M, ts, id)
    BY Zenon DEF new, Session!Replaced
  <2>5. Session!Merged(M, ts, id).acc \subseteq 1 .. id
    <3> HIDE DEF M, id
    <3> QED
      BY <2>1, <2>2, <2>3, Zenon
  <2> QED
    BY <2>2, <2>4, <2>5, Zenon
<1>13. AccArrived'
  <2> SUFFICES ASSUME NEW j \in Keys, NEW s \in store'[j]
               PROVE  s.acc \subseteq 1 .. id
    BY <1>11, Zenon DEF AccArrived
  <2>1. s \in store[j] \/ s \in new
    BY <1>5, Zenon DEF SessionInv, Session!TypeOK
  <2>2. CASE s \in store[j]
    BY <1>1, <2>2 DEF SessionInv, Session!TypeOK, AccArrived
  <2> QED
    BY <1>12, <2>1, <2>2, Zenon
<1> QED
  BY <1>6, <1>7, <1>8, <1>10, <1>13, Zenon DEF SessionInv, Session!TypeOK

\* A sweep only removes sessions, and its watermark catches up with stream time.
LEMMA SweepInv ==
  ASSUME SessionInv, Session!Sweep
  PROVE  SessionInv'
<1>1. /\ store' = [k \in Keys |-> store[k] \ Session!ExpiredSessions(k)]
      /\ arrivals' = arrivals
      /\ streamTime' = streamTime
      /\ lastSweepTime' = streamTime
      /\ deleted' = deleted \cup
           UNION {UNION {s.acc : s \in Session!ExpiredSessions(k)} : k \in Keys}
  BY Zenon DEF Session!Sweep
<1>2. \A k \in Keys : Session!ExpiredSessions(k) \subseteq store[k]
  BY Zenon DEF Session!ExpiredSessions
<1>3. \A k \in Keys : store'[k] \subseteq store[k]
  BY <1>1, Zenon
<1>4. deleted' \subseteq 1 .. Len(arrivals')
  <2> DEFINE R == 1 .. Len(arrivals)
  <2>1. \A k \in Keys : \A s \in Session!ExpiredSessions(k) : s.acc \subseteq R
    BY <1>2, Zenon DEF SessionInv, AccArrived
  <2>2. deleted \subseteq R
    BY Zenon DEF SessionInv, Session!TypeOK
  <2> HIDE DEF R
  <2>3. \A k \in Keys : UNION {s.acc : s \in Session!ExpiredSessions(k)} \subseteq R
    BY <2>1, Zenon
  <2>4. deleted' \subseteq R
    BY <1>1, <2>2, <2>3, Zenon
  <2> QED
    BY <1>1, <2>4, Zenon DEF R
<1>5. store' \in [Keys -> SUBSET Session!Sessions]
  BY <1>1, Zenon DEF SessionInv, Session!TypeOK
<1>6. Session!TypeOK'
  BY <1>1, <1>4, <1>5 DEF SessionInv, Session!TypeOK
<1>7. Session!SessionsSeparated'
  BY <1>3, Zenon DEF SessionInv, Session!SessionsSeparated
<1>8. AccArrived'
  BY <1>1, <1>3, Zenon DEF SessionInv, AccArrived
<1> QED
  BY <1>6, <1>7, <1>8, Zenon DEF SessionInv

-----------------------------------------------------------------------------
(* The sessions are the runs of the accepted timestamps.                   *)

\* Session s spans the times T, and no time of T is more than a gap from the next.
IsRun(s, T) ==
  /\ s.start \in T /\ s.end \in T
  /\ \A t \in T : s.start <= t /\ t <= s.end
  /\ \A t \in T : t < s.end => \E u \in T : t < u /\ u <= t + Gap

\* The times of the records in acc.
RecordTimes(records, acc) == {records[i].ts : i \in acc}

\* A set of times with one at or before b has a last one at or before b.
LEMMA HasLastBefore ==
  ASSUME NEW W, W \subseteq Nat, NEW b \in Nat, \E c \in W : c <= b
  PROVE  \E m \in W : m <= b /\ \A t \in W : t <= b => t <= m
<1> DEFINE D == {b - t : t \in {u \in W : u <= b}}
           R == {ss \in Nat \X Nat : ss[1] < ss[2]}
<1>1. D \subseteq Nat /\ D # {}
  <2>1. ASSUME NEW t \in W, t <= b PROVE b - t \in Nat
    <3>1. t \in Nat
      BY Zenon
    <3> QED BY <2>1, <3>1
  <2> QED BY <2>1, Zenon
<1>2. IsWellFoundedOn(R, Nat)
  <2>1. IsWellFoundedOn(OpToRel(<, Nat), Nat)
    BY NatLessThanWellFounded, Zenon
  <2>2. R = OpToRel(<, Nat)
    BY Zenon DEF OpToRel
  <2> HIDE DEF R
  <2> QED BY <2>1, <2>2, Zenon
<1> HIDE DEF R, D
<1>3. PICK x \in D : \A y \in D : <<y, x>> \notin R
  BY <1>1, <1>2, WFMin, Zenon
<1>4. PICK m \in W : m <= b /\ x = b - m
  BY <1>3, Zenon DEF D
<1>5. ASSUME NEW t \in W, t <= b PROVE t <= m
  <2>1. b - t \in D /\ b - t \in Nat /\ x \in Nat
    BY <1>1, <1>3, <1>5, Zenon DEF D
  <2>2. ~(b - t < x)
    BY <1>3, <2>1, Zenon DEF R
  <2> QED BY <1>4, <1>5, <2>2
<1> QED BY <1>4, <1>5, Zenon

\* A time within a run, of a record or not, is followed by one of the run.
LEMMA NextInRun ==
  ASSUME Session!SessionAssumption, NEW s, NEW V, V \subseteq Nat, IsRun(s, V),
         NEW t \in Nat,
         s.start <= t, t < s.end
  PROVE  \E u \in V : t < u /\ u <= t + Gap
<1>1. s.start \in V /\ s.end \in Nat
  BY Zenon DEF IsRun
<1>2. PICK m \in V : m <= t /\ \A x \in V : x <= t => x <= m
  BY <1>1, HasLastBefore, Zenon
<1>3. m \in Nat /\ m < s.end
  BY <1>1, <1>2
<1>4. PICK u \in V : m < u /\ u <= m + Gap
  BY <1>3, Zenon DEF IsRun
<1>5. u \in Nat /\ ~(u <= t)
  BY <1>2, <1>3, <1>4
<1> QED BY <1>2, <1>3, <1>4, <1>5 DEF Session!SessionAssumption

\* The merged session is a run when the matched ones are: what a record bridges
\* is within a gap of it, and what it falls into already is a run around it.
LEMMA MergedRun ==
  ASSUME Session!SessionAssumption, NEW S \in SUBSET Session!Sessions,
         Separated(S), NEW ts \in Nat, NEW id,
         NEW records, records[id].ts = ts,
         \A s \in S : RecordTimes(records, s.acc) \subseteq Nat,
         \A s \in S : IsRun(s, RecordTimes(records, s.acc))
  PROVE  LET new == Session!Merged({s \in S : Session!Matches(s, ts)}, ts, id)
         IN  IsRun(new, RecordTimes(records, new.acc))
<1> DEFINE M == {s \in S : Session!Matches(s, ts)}
           new == Session!Merged(M, ts, id)
           T == RecordTimes(records, new.acc)
<1>1. /\ new.start \in {ts} \cup {s.start : s \in M}
      /\ new.start <= ts
      /\ \A s \in M : new.start <= s.start
  BY MergedStart, Zenon
<1>2. /\ new.end \in {ts} \cup {s.end : s \in M}
      /\ ts <= new.end
      /\ \A s \in M : s.end <= new.end
  BY MergedEnd, Zenon
<1>3. new.acc = {id} \cup UNION {s.acc : s \in M}
  BY Zenon DEF Session!Merged
<1> HIDE DEF new
<1>4. \A t : t \in T <=> t = ts \/ \E s \in M : t \in RecordTimes(records, s.acc)
  <2>1. \A i : i \in new.acc <=> i = id \/ \E s \in M : i \in s.acc
    BY <1>3, Zenon
  <2> QED BY <2>1, Zenon DEF RecordTimes
<1>5. \A s \in M : /\ s.start \in Nat /\ s.end \in Nat /\ s.start <= s.end
                   /\ s.end + Gap >= ts /\ s.start - Gap <= ts
                   /\ RecordTimes(records, s.acc) \subseteq T
                   /\ RecordTimes(records, s.acc) \subseteq Nat
                   /\ IsRun(s, RecordTimes(records, s.acc))
  BY <1>4, Zenon DEF Session!Sessions, Separated, Session!Matches
<1>6. T \subseteq Nat /\ new.start \in Nat /\ new.end \in Nat
  BY <1>1, <1>2, <1>4, <1>5, Zenon
<1>7. new.start \in T /\ new.end \in T
  BY <1>1, <1>2, <1>4, <1>5, Zenon DEF IsRun
<1>8. ASSUME NEW t \in T PROVE new.start <= t /\ t <= new.end
  <2>1. CASE t = ts
    BY <1>1, <1>2, <2>1, Zenon
  <2>2. CASE \E s \in M : t \in RecordTimes(records, s.acc)
    <3>1. PICK s \in M : t \in RecordTimes(records, s.acc)
      BY <2>2, Zenon
    <3>2. s.start <= t /\ t <= s.end
      BY <1>5, <3>1, Zenon DEF IsRun
    <3> QED BY <1>1, <1>2, <1>5, <1>6, <3>2
  <2> QED BY <1>4, <2>1, <2>2, Zenon
<1>9. ASSUME NEW s \in M, s.end < new.end, ts <= s.end PROVE FALSE
  \* Another matched session ends later, so it starts more than a gap after s
  \* and cannot match.
  <2>1. PICK m \in M : m.end = new.end
    BY <1>2, <1>5, <1>6, <1>9
  <2>2. m # s /\ m \in S /\ s \in S
    BY <1>5, <1>6, <1>9, <2>1
  <2>3. Session!Before(m, s) \/ Session!Before(s, m)
    BY <2>2, Zenon DEF Separated
  <2> QED BY <1>5, <1>6, <1>9, <2>1, <2>3 DEF Session!Before, Session!SessionAssumption
<1>10. ASSUME ts < new.end PROVE \E u \in T : ts < u /\ u <= ts + Gap
  <2>1. PICK s \in M : s.end = new.end
    BY <1>2, <1>6, <1>10
  <2>2. PICK V : /\ V \subseteq T /\ V \subseteq Nat /\ IsRun(s, V) /\ s.start \in Nat
                 /\ s.end \in Nat /\ s.start - Gap <= ts
    BY <1>5, Zenon
  <2>3. CASE ts < s.start
    <3>1. s.start \in T /\ s.start <= ts + Gap
      BY <2>2 DEF IsRun, Session!SessionAssumption
    <3> QED BY <2>3, <3>1, Zenon
  <2>4. CASE s.start <= ts
    <3>1. \E u \in V : ts < u /\ u <= ts + Gap
      BY <1>10, <2>1, <2>2, <2>4, NextInRun, Zenon
    <3> QED BY <2>2, <3>1, Zenon
  <2> QED BY <2>2, <2>3, <2>4
<1>11. ASSUME NEW t \in T, t < new.end PROVE \E u \in T : t < u /\ u <= t + Gap
  <2>1. CASE t = ts
    BY <1>10, <1>11, <2>1, Zenon
  <2>2. CASE \E s \in M : t \in RecordTimes(records, s.acc)
    <3>1. PICK s \in M : t \in RecordTimes(records, s.acc)
      BY <2>2, Zenon
    <3>2. CASE t < s.end
      BY <1>5, <3>1, <3>2, Zenon DEF IsRun
    <3>3. CASE ~(t < s.end)
      <4>1. t = s.end /\ t \in Nat
        BY <1>5, <1>6, <3>1, <3>3 DEF IsRun
      <4>2. t < ts
        BY <1>9, <1>11, <4>1
      <4>3. ts \in T /\ ts <= t + Gap
        BY <1>4, <1>5, <4>1, Zenon
      <4> QED BY <4>2, <4>3, Zenon
    <3> QED BY <3>2, <3>3, Zenon
  <2> QED BY <1>4, <2>1, <2>2, Zenon
<1>12. IsRun(new, T)
  BY <1>7, <1>8, <1>11, Zenon DEF IsRun
<1> QED BY <1>12, Zenon DEF new

\* What SessionsAreRuns says of the sessions S of one key, whose records are
\* those of A, when the records that have arrived are records.
AreRuns(S, A, records) ==
  /\ UNION {s.acc : s \in S} = A
  /\ \A s, t \in S : s # t => s.acc \cap t.acc = {}
  /\ \A s \in S : IsRun(s, RecordTimes(records, s.acc))

\* SessionsAreRuns, key by key.
LEMMA RunKeys ==
  Session!SessionsAreRuns <=>
    \A k \in Keys : AreRuns(store[k], Session!Accepted(k) \ deleted, arrivals)
  BY Zenon DEF Session!SessionsAreRuns, AreRuns, IsRun, RecordTimes

\* A record that is accepted joins the run it belongs to.
LEMMA ReplacedRuns ==
  ASSUME Session!SessionAssumption, NEW S \in SUBSET Session!Sessions,
         Separated(S), NEW ts \in Nat, NEW id,
         NEW records, NEW A, AreRuns(S, A, records), records[id].ts = ts, id \notin A,
         \A s \in S : RecordTimes(records, s.acc) \subseteq Nat
  PROVE  LET M == {s \in S : Session!Matches(s, ts)}
         IN  AreRuns(Session!Replaced(S, M, Session!Merged(M, ts, id)), A \cup {id}, records)
<1> DEFINE M == {s \in S : Session!Matches(s, ts)}
           new == Session!Merged(M, ts, id)
           R == (S \ M) \cup {new}
<1>1. Session!Replaced(S, M, new) = R
  BY ReplacedIs
<1>2. IsRun(new, RecordTimes(records, new.acc))
  BY MergedRun, Zenon DEF AreRuns
<1>3. new.acc = {id} \cup UNION {s.acc : s \in M}
  BY Zenon DEF Session!Merged
<1>4. M \subseteq S
  BY Zenon
<1> HIDE DEF new, M
<1>5. UNION {s.acc : s \in R} = A \cup {id}
  <2>1. \A x : x \in A <=> \E s \in S : x \in s.acc
    BY Zenon DEF AreRuns
  <2>2. \A x : x \in UNION {s.acc : s \in R} <=> x \in new.acc \/ \E s \in S \ M : x \in s.acc
    BY Zenon
  <2>3. \A x : x \in new.acc <=> x = id \/ \E s \in M : x \in s.acc
    BY <1>3, Zenon
  <2> HIDE DEF R
  <2> QED BY <1>4, <2>1, <2>2, <2>3, Zenon
<1>6. ASSUME NEW s \in S \ M PROVE s.acc \cap new.acc = {}
  <2>1. id \notin s.acc
    BY Zenon DEF AreRuns
  <2>2. \A m \in M : s.acc \cap m.acc = {}
    BY <1>4, Zenon DEF AreRuns
  <2> QED BY <1>3, <2>1, <2>2
<1>7. \A s, t \in R : s # t => s.acc \cap t.acc = {}
  BY <1>6, Zenon DEF AreRuns
<1>8. \A s \in R : IsRun(s, RecordTimes(records, s.acc))
  BY <1>2, Zenon DEF AreRuns
<1> HIDE DEF R
<1>9. AreRuns(R, A \cup {id}, records)
  BY <1>5, <1>7, <1>8, Zenon DEF AreRuns
<1> QED BY <1>1, <1>9, Zenon DEF M, new

\* A record that arrives later does not change the times of those before it.
LEMMA TimesKept ==
  ASSUME NEW A, NEW records \in Seq(A), NEW rec \in A,
         NEW acc \in SUBSET (1 .. Len(records))
  PROVE  RecordTimes(Append(records, rec), acc) = RecordTimes(records, acc)
<1>1. \A i \in acc : Append(records, rec)[i] = records[i]
  OBVIOUS
<1> QED BY <1>1, Zenon DEF RecordTimes

\* A record keeps the sessions of every key the runs of its accepted times.
LEMMA ProcessRuns ==
  ASSUME Session!SessionAssumption, SessionInv, Session!SessionsAreRuns,
         NEW k \in Keys, NEW ts \in Timestamps, Session!Process(k, ts)
  PROVE  Session!SessionsAreRuns'
<1> DEFINE Rec == [key : Keys, ts : Nat, late : BOOLEAN]
           id == Len(arrivals) + 1
           late == Session!IsLate(ts, streamTime, Gap, SessionGrace)
           rec == [key |-> k, ts |-> ts, late |-> late]
           M == {s \in store[k] : Session!Matches(s, ts)}
           new == Session!Replaced(store[k], M, Session!Merged(M, ts, id))
           after == Append(arrivals, rec)
<1>1. /\ store' = [store EXCEPT ![k] = IF late THEN store[k] ELSE new]
      /\ arrivals' = after /\ deleted' = deleted
  BY Zenon DEF Session!Process, Session!Matched
<1>2. /\ ts \in Nat /\ late \in BOOLEAN /\ rec \in Rec /\ arrivals \in Seq(Rec)
      /\ Len(arrivals) \in Nat
      /\ store \in [Keys -> SUBSET Session!Sessions] /\ deleted \subseteq 1 .. Len(arrivals)
  BY DEF SessionInv, Session!TypeOK, Session!IsLate, Session!SessionAssumption
<1>3. /\ Len(after) = id /\ after[id] = rec
      /\ \A i \in 1 .. Len(arrivals) : after[i] = arrivals[i]
      /\ id \notin 1 .. Len(arrivals) /\ 1 .. id = (1 .. Len(arrivals)) \cup {id}
  BY <1>2
<1>4. rec.key = k /\ rec.ts = ts /\ rec.late = late
  BY Zenon
<1> HIDE DEF late, rec, after, id, M, new, Rec
<1>5. ASSUME NEW j \in Keys
      PROVE  Session!Accepted(j)' = Session!Accepted(j) \cup (IF j = k /\ ~late THEN {id} ELSE {})
  <2>1. \A i : i \in Session!Accepted(j)' <=> /\ i \in (1 .. Len(arrivals)) \cup {id}
                                      /\ after[i].key = j /\ ~after[i].late
    BY <1>1, <1>3, Zenon DEF Session!Accepted
  <2>2. \A i : i \in Session!Accepted(j) <=> /\ i \in 1 .. Len(arrivals)
                                     /\ arrivals[i].key = j /\ ~arrivals[i].late
    BY Zenon DEF Session!Accepted
  <2>3. \A i : i \in Session!Accepted(j)' <=>
          i \in Session!Accepted(j) \/ (i = id /\ j = k /\ ~late)
    BY <1>3, <1>4, <2>1, <2>2
  <2> QED BY <2>3, Zenon
<1>6. id \notin deleted /\ \A j \in Keys : id \notin Session!Accepted(j)
  BY <1>2, <1>3, Zenon DEF Session!Accepted
<1>7. ASSUME NEW j \in Keys, NEW s \in store[j]
      PROVE  /\ RecordTimes(after, s.acc) = RecordTimes(arrivals, s.acc)
             /\ RecordTimes(after, s.acc) \subseteq Nat
  <2>1. s.acc \in SUBSET (1 .. Len(arrivals))
    BY Zenon DEF SessionInv, AccArrived
  <2>2. RecordTimes(after, s.acc) = RecordTimes(arrivals, s.acc)
    BY <1>2, <2>1, TimesKept, Zenon DEF after
  <2>3. \A i \in s.acc : arrivals[i].ts \in Nat
    <3>1. \A i \in s.acc : arrivals[i] \in Rec
      BY <1>2, <2>1
    <3> QED BY <3>1, Zenon DEF Rec
  <2> QED BY <2>2, <2>3, Zenon DEF RecordTimes
<1>8. ASSUME NEW j \in Keys
      PROVE  AreRuns(store[j], Session!Accepted(j) \ deleted, after)
  BY <1>7, RunKeys, Zenon DEF AreRuns
<1>9. ASSUME ~late PROVE AreRuns(new, (Session!Accepted(k) \ deleted) \cup {id}, after)
  <2>1. store[k] \in SUBSET Session!Sessions /\ Separated(store[k])
    BY <1>2, SeparatedKeys, Zenon DEF SessionInv
  <2>2. after[id].ts = ts /\ id \notin Session!Accepted(k) \ deleted
    BY <1>3, <1>4, <1>6, Zenon
  <2>3. \A s \in store[k] : RecordTimes(after, s.acc) \subseteq Nat
    BY <1>7, Zenon
  <2> QED BY <1>2, <1>8, <2>1, <2>2, <2>3, ReplacedRuns, Zenon DEF new, M
<1>10. ASSUME NEW j \in Keys
       PROVE  AreRuns(store'[j], Session!Accepted(j)' \ deleted, after)
  <2>1. CASE j = k /\ ~late
    <3>1. /\ store'[j] = new
          /\ Session!Accepted(j)' \ deleted = (Session!Accepted(k) \ deleted) \cup {id}
      BY <1>1, <1>2, <1>5, <1>6, <2>1, Zenon
    <3> QED BY <1>9, <2>1, <3>1, Zenon
  <2>2. CASE ~(j = k /\ ~late)
    <3>1. store'[j] = store[j] /\ Session!Accepted(j)' = Session!Accepted(j)
      BY <1>1, <1>2, <1>5, <2>2, Zenon
    <3> QED BY <1>8, <3>1, Zenon
  <2> QED BY <2>1, <2>2, Zenon
<1>11. (\A j \in Keys : AreRuns(store[j], Session!Accepted(j) \ deleted, arrivals))'
  BY <1>1, <1>10, Zenon
<1> QED BY <1>11, Zenon DEF Session!SessionsAreRuns, AreRuns, IsRun, RecordTimes

\* A sweep takes whole sessions, whose records are in no other session.
LEMMA SweepRuns ==
  ASSUME SessionInv, Session!SessionsAreRuns, Session!Sweep
  PROVE  Session!SessionsAreRuns'
<1>1. /\ store' = [k \in Keys |-> store[k] \ Session!ExpiredSessions(k)]
      /\ arrivals' = arrivals
      /\ deleted' = deleted \cup
           UNION {UNION {s.acc : s \in Session!ExpiredSessions(k)} : k \in Keys}
  BY Zenon DEF Session!Sweep
<1>2. \A k \in Keys : Session!ExpiredSessions(k) \subseteq store[k]
  BY Zenon DEF Session!ExpiredSessions
<1>3. \A x : x \in deleted' <=>
        x \in deleted \/ \E k \in Keys : \E s \in Session!ExpiredSessions(k) : x \in s.acc
  BY <1>1
<1>4. ASSUME NEW k \in Keys
      PROVE  /\ \A x : x \in Session!Accepted(k) \ deleted <=> \E s \in store[k] : x \in s.acc
             /\ \A s, t \in store[k] : s # t => s.acc \cap t.acc = {}
             /\ \A s \in store[k] : IsRun(s, RecordTimes(arrivals, s.acc))
  BY RunKeys DEF AreRuns
<1>5. ASSUME NEW j \in Keys, NEW k \in Keys,
             NEW x \in Session!Accepted(j), x \in Session!Accepted(k)
      PROVE  j = k
  BY <1>5, Zenon DEF Session!Accepted
<1>6. ASSUME NEW k \in Keys
      PROVE  UNION {s.acc : s \in store'[k]} = Session!Accepted(k) \ deleted'
  <2>1. ASSUME NEW s \in store[k], s \notin Session!ExpiredSessions(k), NEW x \in s.acc
        PROVE  x \in Session!Accepted(k) \ deleted'
    <3>1. x \in Session!Accepted(k) /\ x \notin deleted
      BY <1>4, <2>1, Zenon
    <3>2. ASSUME NEW j \in Keys, NEW t \in Session!ExpiredSessions(j), x \in t.acc PROVE FALSE
      <4>1. x \in Session!Accepted(j) /\ t \in store[j]
        BY <1>2, <1>4, <3>2, Zenon
      <4>2. j = k /\ t # s
        BY <1>5, <2>1, <3>1, <3>2, <4>1, Zenon
      <4> QED BY <1>4, <2>1, <3>2, <4>1, <4>2, Zenon
    <3> QED BY <1>3, <3>1, <3>2, Zenon
  <2>2. ASSUME NEW x \in Session!Accepted(k), x \notin deleted'
        PROVE  \E s \in store[k] : s \notin Session!ExpiredSessions(k) /\ x \in s.acc
    <3>1. PICK s \in store[k] : x \in s.acc
      BY <1>3, <1>4, <2>2, Zenon
    <3>2. s \notin Session!ExpiredSessions(k)
      BY <1>3, <2>2, <3>1, Zenon
    <3> QED BY <3>1, <3>2, Zenon
  <2>3. store'[k] = store[k] \ Session!ExpiredSessions(k)
    BY <1>1, Zenon
  <2> QED BY <2>1, <2>2, <2>3, Zenon
<1>7. \A k \in Keys : store'[k] \subseteq store[k]
  BY <1>1, Zenon
<1>8. \A k \in Keys : Session!Accepted(k)' = Session!Accepted(k)
  BY <1>1, Zenon DEF Session!Accepted
<1>9. ASSUME NEW k \in Keys
      PROVE  AreRuns(store'[k], Session!Accepted(k)' \ deleted', arrivals')
  BY <1>1, <1>4, <1>6, <1>7, <1>8, Zenon DEF AreRuns
<1>10. (\A k \in Keys : AreRuns(store[k], Session!Accepted(k) \ deleted, arrivals))'
  BY <1>9, Zenon
<1> QED BY <1>10, RunKeys, PTL

\* A record or a sweep keeps the sessions of every key separated runs.
LEMMA SessionStep ==
  ASSUME Session!SessionAssumption, SessionInv, Session!SessionsAreRuns,
         [Session!Next]_(Session!vars)
  PROVE  SessionInv' /\ Session!SessionsAreRuns'
<1>1. CASE \E k \in Keys, ts \in Timestamps : Session!Process(k, ts)
  BY <1>1, ProcessInv, ProcessRuns, Zenon
<1>2. CASE Session!Sweep
  BY <1>2, SweepInv, SweepRuns, Zenon
<1>3. CASE UNCHANGED Session!vars
  <2>1. SessionInv'
    BY <1>3, Zenon DEF SessionInv, Session!TypeOK, Session!SessionsSeparated, AccArrived,
                       Session!vars
  <2>2. Session!SessionsAreRuns'
    BY <1>3 DEF Session!SessionsAreRuns, Session!Accepted, Session!vars
  <2> QED BY <2>1, <2>2, Zenon
<1> QED BY <1>1, <1>2, <1>3, Zenon DEF Session!Next

\* There is no session at first.
LEMMA SessionInit ==
  ASSUME Session!Init
  PROVE  SessionInv /\ Session!SessionsAreRuns
<1>1. Session!TypeOK
  BY DEF Session!Init, Session!TypeOK
<1>2. Session!SessionsSeparated /\ AccArrived
  BY Zenon DEF Session!Init, Session!SessionsSeparated, AccArrived
<1>3. ASSUME NEW k \in Keys
      PROVE  AreRuns(store[k], Session!Accepted(k) \ deleted, arrivals)
  <2>1. store[k] = {} /\ Session!Accepted(k) = {}
    BY DEF Session!Init, Session!Accepted
  <2> QED BY <2>1, Zenon DEF AreRuns
<1> QED BY <1>1, <1>2, <1>3, RunKeys, Zenon DEF SessionInv

\* The session store and the clocks keep their types, and the sweep never runs
\* ahead of stream time, whatever the records and however often it sweeps.
THEOREM SessionTypeCorrect ==
  ASSUME Session!SessionAssumption
  PROVE  Session!Spec => []Session!TypeOK
<1>1. Session!Init => SessionInv /\ Session!SessionsAreRuns
  BY SessionInit, Zenon
<1>2. /\ SessionInv /\ Session!SessionsAreRuns /\ [Session!Next]_(Session!vars)
      => SessionInv' /\ Session!SessionsAreRuns'
  BY SessionStep, Zenon
<1>3. SessionInv => Session!TypeOK
  BY Zenon DEF SessionInv
<1> QED BY <1>1, <1>2, <1>3, PTL DEF Session!Spec

\* Merging never leaves two sessions of a key within a gap of each other, for
\* every gap, grace, key set and order of arrival.
THEOREM SeparatedCorrect ==
  ASSUME Session!SessionAssumption
  PROVE  Session!Spec => []Session!SessionsSeparated
<1>1. Session!Init => SessionInv /\ Session!SessionsAreRuns
  BY SessionInit, Zenon
<1>2. /\ SessionInv /\ Session!SessionsAreRuns /\ [Session!Next]_(Session!vars)
      => SessionInv' /\ Session!SessionsAreRuns'
  BY SessionStep, Zenon
<1>3. SessionInv => Session!SessionsSeparated
  BY Zenon DEF SessionInv
<1> QED BY <1>1, <1>2, <1>3, PTL DEF Session!Spec

\* The result does not depend on the order of arrival: for every gap, grace, key
\* set and sequence of records and sweeps, the sessions of a key are the runs of
\* its accepted timestamps that no sweep has deleted.
THEOREM RunsCorrect ==
  ASSUME Session!SessionAssumption
  PROVE  Session!Spec => []Session!SessionsAreRuns
<1>1. Session!Init => SessionInv /\ Session!SessionsAreRuns
  BY SessionInit, Zenon
<1>2. /\ SessionInv /\ Session!SessionsAreRuns /\ [Session!Next]_(Session!vars)
      => SessionInv' /\ Session!SessionsAreRuns'
  BY SessionStep, Zenon
<1> QED BY <1>1, <1>2, PTL DEF Session!Spec
=============================================================================
