--------------------------- MODULE ChangelogProofs ---------------------------
(***************************************************************************)
(* What a replay of a changelog computes, for logs of any length.          *)
(***************************************************************************)
EXTENDS Changelog, TLAPS, WellFoundedInduction

-----------------------------------------------------------------------------
(* Sequences.                                                              *)

\* A sequence is a function on its places, ...
LEMMA SeqParts ==
  ASSUME NEW S, NEW s \in Seq(S)
  PROVE  Len(s) \in Nat /\ s \in [1 .. Len(s) -> S] /\ DOMAIN s = 1 .. Len(s)
OBVIOUS

\* ... with values in its set, ...
LEMMA SeqElement ==
  ASSUME NEW S, NEW s \in Seq(S), NEW n \in 1 .. Len(s)
  PROVE  s[n] \in S
OBVIOUS

\* ... which determine it.
LEMMA SeqSame ==
  ASSUME NEW S, NEW s \in Seq(S), NEW t \in Seq(S), Len(s) = Len(t),
         \A i \in 1 .. Len(s) : s[i] = t[i]
  PROVE  s = t
OBVIOUS

\* Where the elements of a concatenation come from.
LEMMA ConcatParts ==
  ASSUME NEW S, NEW s \in Seq(S), NEW t \in Seq(S)
  PROVE  /\ s \o t \in Seq(S) /\ Len(s \o t) = Len(s) + Len(t)
         /\ \A i \in 1 .. Len(s) + Len(t) :
              (s \o t)[i] = IF i <= Len(s) THEN s[i] ELSE t[i - Len(s)]
OBVIOUS

\* Nothing before or after a sequence leaves it as it is.
LEMMA ConcatEmpty ==
  ASSUME NEW S, NEW s \in Seq(S)
  PROVE  s \o <<>> = s /\ <<>> \o s = s
OBVIOUS

\* It does not matter which part is appended first.
LEMMA ConcatRegroup ==
  ASSUME NEW S, NEW s \in Seq(S), NEW t \in Seq(S), NEW u \in Seq(S)
  PROVE  (s \o t) \o u = s \o (t \o u)
OBVIOUS

\* Where the elements of a sequence with one more come from.
LEMMA AppendParts ==
  ASSUME NEW S, NEW s \in Seq(S), NEW e \in S
  PROVE  /\ Append(s, e) \in Seq(S) /\ Append(s, e) # <<>>
         /\ Len(Append(s, e)) = Len(s) + 1 /\ Append(s, e)[Len(s) + 1] = e
         /\ \A i \in 1 .. Len(s) : Append(s, e)[i] = s[i]
OBVIOUS

\* No part of a sequence ends before it begins.
LEMMA SubSeqNone ==
  ASSUME NEW s, NEW m \in Int, NEW n \in Int, n < m
  PROVE  SubSeq(s, m, n) = <<>>
OBVIOUS

\* The whole of a sequence as its own part.
LEMMA SubSeqAll ==
  ASSUME NEW S, NEW s \in Seq(S)
  PROVE  Len(s) \in 0 .. Len(s) /\ SubSeq(s, 1, Len(s)) = s
OBVIOUS

-----------------------------------------------------------------------------
(* Replays.                                                                *)

\* A non-empty set of places in a sequence has a last one: what the CHOOSE in
\* Replay relies on.
LEMMA HasLast ==
  ASSUME NEW n \in Nat, NEW S \in SUBSET (1 .. n), S # {}
  PROVE  \E m \in S : IsLast(S, m)
<1> DEFINE T == {n - s : s \in S}
           R == {ss \in Nat \X Nat : ss[1] < ss[2]}
<1>1. T \subseteq Nat /\ T # {}
  <2>1. ASSUME NEW s \in S PROVE n - s \in Nat
    <3>1. s \in 1 .. n
      BY Zenon
    <3> QED BY <3>1
  <2> QED BY <2>1, Zenon
<1>2. IsWellFoundedOn(R, Nat)
  <2>1. IsWellFoundedOn(OpToRel(<, Nat), Nat)
    BY NatLessThanWellFounded, Zenon
  <2>2. R = OpToRel(<, Nat)
    BY Zenon DEF OpToRel
  <2> HIDE DEF R
  <2> QED BY <2>1, <2>2, Zenon
<1> HIDE DEF R, T
<1>3. PICK x \in T : \A y \in T : <<y, x>> \notin R
  BY <1>1, <1>2, WFMin, Zenon
<1> USE DEF R, T
<1>4. PICK m \in S : x = n - m
  BY <1>3, Zenon
<1>5. ASSUME NEW i \in S PROVE i <= m
  <2>1. i \in 1 .. n /\ m \in 1 .. n
    BY Zenon
  <2>2. n - i \in T /\ n - i \in Nat /\ x \in Nat
    BY <1>1, <1>3, Zenon
  <2>3. ~ (n - i < x)
    BY <2>2, <1>3, Zenon
  <2> QED BY <2>1, <2>3, <1>4
<1> QED BY <1>5, Zenon DEF IsLast

\* A replay gives a key with no record at or after start its old value, and
\* any other key the value of one of its records, the last.
LEMMA ReplayValue ==
  ASSUME NEW log, Len(log) \in Nat, NEW start \in Nat, NEW db,
         NEW k \in DOMAIN db
  PROVE  \/ /\ PlacesOf(log, start, k) = {}
            /\ Replay(log, start, db)[k] = db[k]
         \/ \E m \in PlacesOf(log, start, k) :
              /\ IsLast(PlacesOf(log, start, k), m)
              /\ Replay(log, start, db)[k] = log[m].val
<1> DEFINE S == PlacesOf(log, start, k)
<1>1. Replay(log, start, db)[k] =
        IF S = {} THEN db[k] ELSE log[CHOOSE i \in S : IsLast(S, i)].val
  BY Zenon DEF Replay
<1>2. S \in SUBSET (1 .. Len(log))
  BY DEF PlacesOf
<1>3. ASSUME S # {}
      PROVE  LET m == CHOOSE i \in S : IsLast(S, i) IN m \in S /\ IsLast(S, m)
  <2>1. \E m \in S : IsLast(S, m)
    BY <1>2, <1>3, HasLast, Zenon
  <2> HIDE DEF S
  <2> QED BY <2>1, Zenon
<1> HIDE DEF S
<1>4. CASE S = {}
  <2>1. Replay(log, start, db)[k] = db[k]
    BY <1>1, <1>4, Zenon
  <2> QED BY <2>1, <1>4, Zenon DEF S
<1>5. CASE S # {}
  <2> DEFINE m == CHOOSE i \in S : IsLast(S, i)
  <2>1. m \in S /\ IsLast(S, m)
    BY <1>3, <1>5, Zenon
  <2>2. Replay(log, start, db)[k] = log[m].val
    BY <1>1, <1>5, Zenon
  <2> HIDE DEF m
  <2>3. \E i \in S : IsLast(S, i) /\ Replay(log, start, db)[k] = log[i].val
    BY <2>1, <2>2, Zenon
  <2> QED BY <2>3, Zenon DEF S
<1> QED BY <1>4, <1>5, Zenon

\* The value of a key after a replay of a whole log.
LEMMA ReplayAll ==
  ASSUME NEW log, Len(log) \in Nat, NEW db, NEW k \in DOMAIN db
  PROVE  /\ PlacesOf(log, 0, k) = {} => Replay(log, 0, db)[k] = db[k]
         /\ PlacesOf(log, 0, k) # {} =>
              \E m \in PlacesOf(log, 0, k) :
                /\ IsLast(PlacesOf(log, 0, k), m)
                /\ Replay(log, 0, db)[k] = log[m].val
<1>1. 0 \in Nat
  BY Zenon
<1> QED BY <1>1, ReplayValue

\* A record of a well-typed log has a key and a value.
LEMMA RecordType ==
  ASSUME NEW K, NEW V, NEW log \in Seq([key : K, val : V]),
         NEW i \in 1 .. Len(log)
  PROVE  log[i].key \in K /\ log[i].val \in V
<1>1. log[i] \in [key : K, val : V]
  BY SeqElement, Zenon
<1> QED BY <1>1, Zenon

\* A replay of well-typed records into a store is a store.
LEMMA ReplayType ==
  ASSUME NEW K, NEW V, NEW log \in Seq([key : K, val : V]), NEW start \in Nat,
         NEW db \in [K -> V]
  PROVE  Replay(log, start, db) \in [K -> V]
<1>1. Len(log) \in Nat /\ DOMAIN db = K
  OBVIOUS
<1>2. ASSUME NEW k \in K PROVE Replay(log, start, db)[k] \in V
  <2>1. CASE Replay(log, start, db)[k] = db[k]
    BY <2>1, Zenon
  <2>2. CASE \E m \in PlacesOf(log, start, k) : Replay(log, start, db)[k] = log[m].val
    <3>1. PICK m \in PlacesOf(log, start, k) : Replay(log, start, db)[k] = log[m].val
      BY <2>2, Zenon
    <3>2. m \in 1 .. Len(log)
      BY <1>1 DEF PlacesOf
    <3>3. log[m].val \in V
      BY <3>2, RecordType, Zenon
    <3> QED BY <3>1, <3>3, Zenon
  <2>3. \/ Replay(log, start, db)[k] = db[k]
        \/ \E m \in PlacesOf(log, start, k) : Replay(log, start, db)[k] = log[m].val
    <3>1. k \in DOMAIN db
      BY <1>1, Zenon
    <3> QED BY <3>1, <1>1, ReplayValue
  <2> QED BY <2>1, <2>2, <2>3, Zenon
<1>3. Replay(log, start, db) = [k \in K |-> Replay(log, start, db)[k]]
  BY <1>1 DEF Replay
<1> QED BY <1>2, <1>3, Zenon

\* A replay of a monotone log reflects every record it applies.
LEMMA ReplayReflects ==
  ASSUME NEW log, Len(log) \in Nat, Monotone(log), NEW start \in Nat, NEW db,
         NEW k \in DOMAIN db, NEW i \in PlacesOf(log, start, k)
  PROVE  log[i].val \subseteq Replay(log, start, db)[k]
<1>1. PICK m \in PlacesOf(log, start, k) :
         /\ IsLast(PlacesOf(log, start, k), m)
         /\ Replay(log, start, db)[k] = log[m].val
  BY ReplayValue
<1>2. /\ i \in 1 .. Len(log) /\ log[i].key = k
      /\ m \in 1 .. Len(log) /\ log[m].key = k /\ i <= m
  BY <1>1 DEF PlacesOf, IsLast
<1>3. log[i].val \subseteq log[m].val
  <2>1. CASE i = m
    BY <2>1, Zenon
  <2>2. CASE i < m
    BY <2>2, <1>2, Zenon DEF Monotone
  <2> QED BY <2>1, <2>2, <1>2
<1> QED BY <1>1, <1>3, Zenon

\* A store rebuilt from a monotone log reflects exactly the inputs its records
\* reflect: nothing is lost by keeping the last record of a key only.
LEMMA RebuiltInLog ==
  ASSUME NEW K, NEW log, Len(log) \in Nat, Monotone(log), NEW k \in K, NEW o
  PROVE  o \in Replay(log, 0, [x \in K |-> {}])[k] <=> InLog(log, k, o)
<1> DEFINE db == [x \in K |-> {}]
<1>1. k \in DOMAIN db /\ db[k] = {} /\ 0 \in Nat
  BY Zenon
<1> HIDE DEF db
<1>2. ASSUME o \in Replay(log, 0, db)[k] PROVE InLog(log, k, o)
  <2>1. PICK m \in PlacesOf(log, 0, k) : Replay(log, 0, db)[k] = log[m].val
    BY <1>1, <1>2, ReplayValue
  <2> QED BY <1>2, <2>1 DEF PlacesOf, InLog
<1>3. ASSUME InLog(log, k, o) PROVE o \in Replay(log, 0, db)[k]
  <2>1. PICK i \in 1 .. Len(log) : log[i].key = k /\ o \in log[i].val
    BY <1>3, Zenon DEF InLog
  <2>2. i \in PlacesOf(log, 0, k)
    BY <2>1 DEF PlacesOf
  <2>3. log[i].val \subseteq Replay(log, 0, db)[k]
    BY <1>1, <2>1, <2>2, ReplayReflects, Zenon
  <2> QED BY <2>1, <2>3, Zenon
<1> QED BY <1>2, <1>3, Zenon DEF db

\* The start of a replay is one past the checkpoint or 0, wrap-around included.
LEMMA StartOffsetRange ==
  ASSUME NEW c \in Int
  PROVE  StartOffset(c) \in Nat /\ StartOffset(c) \in {0, c + 1}
BY MaxInt64Assumption DEF StartOffset, Inc64

\* RestoreFromChangelog yields a store and a checkpoint at the end of the log
\* that the store covers, whatever the checkpoint it starts from, as long as
\* the store covers the log up to that checkpoint.
LEMMA RestoreCovers ==
  ASSUME NEW K, NEW W, NEW log \in Seq([key : K, val : SUBSET W]),
         Monotone(log), NEW db \in [K -> SUBSET W], NEW c \in Int,
         Covers(db, log, c + 1)
  PROVE  /\ RestoredDB(log, c, db) \in [K -> SUBSET W]
         /\ Covers(RestoredDB(log, c, db), log, Len(log))
<1> DEFINE s == StartOffset(c)
<1>1. s \in Nat /\ s \in {0, c + 1}
  BY StartOffsetRange, Zenon
<1>2. CASE CaughtUp(log, c)
  <2>1. RestoredDB(log, c, db) = db /\ s >= Len(log)
    BY <1>2, Zenon DEF RestoredDB, CaughtUp
  <2> QED BY <1>1, <2>1 DEF Covers
<1>3. CASE ~ CaughtUp(log, c)
  <2> HIDE DEF s
  <2>1. RestoredDB(log, c, db) = Replay(log, s, db)
    BY <1>3, Zenon DEF RestoredDB, s
  <2>2. Replay(log, s, db) \in [K -> SUBSET W]
    BY <1>1, ReplayType, Zenon
  <2>3. ASSUME NEW i \in 1 .. Len(log)
        PROVE  log[i].val \subseteq Replay(log, s, db)[log[i].key]
    <3> DEFINE k == log[i].key
    <3>0. k \in DOMAIN db /\ Len(log) \in Nat
      <4>1. log[i] \in [key : K, val : SUBSET W]
        BY SeqElement, Zenon
      <4> QED BY <4>1
    <3>1. CASE s < i
      <4>1. i \in PlacesOf(log, s, k)
        BY <3>0, <3>1, <1>1 DEF PlacesOf
      <4> HIDE DEF k
      <4>2. log[i].val \subseteq Replay(log, s, db)[k]
        BY <4>1, <3>0, <1>1, ReplayReflects, Zenon
      <4> QED BY <4>2, Zenon DEF k
    <3>2. CASE i <= s /\ Replay(log, s, db)[k] = db[k]
      <4>1. i <= c + 1
        BY <3>2, <1>1
      <4>2. log[i].val \subseteq db[k]
        BY <4>1, Zenon DEF Covers
      <4> QED BY <4>2, <3>2, Zenon
    <3>3. CASE i <= s /\ \E m \in PlacesOf(log, s, k) : Replay(log, s, db)[k] = log[m].val
      <4>1. PICK m \in PlacesOf(log, s, k) : Replay(log, s, db)[k] = log[m].val
        BY <3>3, Zenon
      <4>2. m \in 1 .. Len(log) /\ log[m].key = k /\ i < m
        BY <3>0, <3>3, <1>1 DEF PlacesOf
      <4>3. log[i].val \subseteq log[m].val
        BY <4>2, Zenon DEF Monotone
      <4> QED BY <4>1, <4>3, Zenon
    <3>4. s < i \/ i <= s
      BY <1>1
    <3> HIDE DEF k
    <3>5. \/ Replay(log, s, db)[k] = db[k]
          \/ \E m \in PlacesOf(log, s, k) : Replay(log, s, db)[k] = log[m].val
      BY <3>0, <1>1, ReplayValue
    <3> QED BY <3>1, <3>2, <3>3, <3>4, <3>5, Zenon DEF k
  <2> QED BY <2>1, <2>2, <2>3, Zenon DEF Covers
<1> QED BY <1>2, <1>3, Zenon

-----------------------------------------------------------------------------
(* Appending to a log, and losing the end of one.                          *)

\* s is a prefix of t.
PrefixOf(s, t) ==
  /\ Len(s) \in Nat /\ Len(t) \in Nat /\ Len(s) <= Len(t)
  /\ \A i \in 1 .. Len(s) : s[i] = t[i]

\* A log is a prefix of itself.
LEMMA PrefixSelf ==
  ASSUME NEW s, Len(s) \in Nat
  PROVE  PrefixOf(s, s)
BY DEF PrefixOf

\* A prefix of a monotone log is monotone.
LEMMA PrefixMonotone ==
  ASSUME NEW s, NEW t, PrefixOf(s, t), Monotone(t)
  PROVE  Monotone(s)
BY DEF PrefixOf, Monotone

\* A store that covers a log covers its prefixes.
LEMMA PrefixCovers ==
  ASSUME NEW s, NEW t, PrefixOf(s, t), NEW db, Covers(db, t, Len(t))
  PROVE  Covers(db, s, Len(s))
BY DEF PrefixOf, Covers

\* What a prefix of a log reflects, the log reflects.
LEMMA PrefixInLog ==
  ASSUME NEW s, NEW t, PrefixOf(s, t), NEW k, NEW o, InLog(s, k, o)
  PROVE  InLog(t, k, o)
BY DEF PrefixOf, InLog

\* A store that covers the first n records of a log covers the first n records
\* of any extension of it.
LEMMA ExtensionCovers ==
  ASSUME NEW s, NEW t, PrefixOf(s, t), NEW db, NEW n \in Int, n <= Len(s),
         Covers(db, s, n)
  PROVE  Covers(db, t, n)
BY DEF PrefixOf, Covers

\* A store that covers a whole log covers any part of it.
LEMMA CoversAll ==
  ASSUME NEW log, Len(log) \in Nat, NEW store, Covers(store, log, Len(log)), NEW n
  PROVE  Covers(store, log, n)
BY DEF Covers

\* A log is a prefix of its concatenation with another.
LEMMA ConcatPrefix ==
  ASSUME NEW S, NEW s \in Seq(S), NEW t \in Seq(S)
  PROVE  PrefixOf(s, s \o t)
BY ConcatParts DEF PrefixOf

\* Flushing only the first n mutations loses the end of the log.
LEMMA PartPrefix ==
  ASSUME NEW S, NEW s \in Seq(S), NEW t \in Seq(S), NEW n \in 0 .. Len(t)
  PROVE  /\ SubSeq(t, 1, n) \in Seq(S)
         /\ s \o SubSeq(t, 1, n) \in Seq(S)
         /\ PrefixOf(s \o SubSeq(t, 1, n), s \o t)
         /\ PrefixOf(s, s \o SubSeq(t, 1, n))
<1> DEFINE u == SubSeq(t, 1, n)
<1>1. u \in Seq(S) /\ Len(u) = n /\ \A i \in 1 .. n : u[i] = t[i]
  OBVIOUS
<1> HIDE DEF u
<1>2. /\ s \o u \in Seq(S) /\ Len(s \o u) = Len(s) + n
      /\ \A i \in 1 .. Len(s \o u) :
           (s \o u)[i] = IF i <= Len(s) THEN s[i] ELSE u[i - Len(s)]
  <2>1. u \in Seq(S)
    BY <1>1, Zenon
  <2>2. /\ s \o u \in Seq(S) /\ Len(s \o u) = Len(s) + Len(u)
        /\ \A i \in 1 .. Len(s) + Len(u) :
             (s \o u)[i] = IF i <= Len(s) THEN s[i] ELSE u[i - Len(s)]
    BY <2>1, ConcatParts, Zenon
  <2> QED BY <2>2, <1>1, Zenon
<1>3. /\ s \o t \in Seq(S) /\ Len(s \o t) = Len(s) + Len(t)
      /\ \A i \in 1 .. Len(s \o t) :
           (s \o t)[i] = IF i <= Len(s) THEN s[i] ELSE t[i - Len(s)]
  BY ConcatParts
<1>4. PrefixOf(s \o u, s \o t)
  <2>1. ASSUME NEW i \in 1 .. Len(s \o u) PROVE (s \o u)[i] = (s \o t)[i]
    BY <1>1, <1>2, <1>3
  <2> QED BY <1>2, <1>3, <2>1 DEF PrefixOf
<1>5. PrefixOf(s, s \o u)
  BY <1>1, ConcatPrefix, Zenon
<1> QED BY <1>1, <1>2, <1>4, <1>5, Zenon DEF u

\* s is t without some of its records.
Within(s, t) ==
  /\ Len(s) \in Nat /\ Len(t) \in Nat
  /\ \E f \in [1 .. Len(s) -> 1 .. Len(t)] :
       /\ \A i, j \in 1 .. Len(s) : i < j => f[i] < f[j]
       /\ \A i \in 1 .. Len(s) : s[i] = t[f[i]]

\* A monotone log that a store covers stays so when records are left out.
LEMMA WithinCovers ==
  ASSUME NEW s, NEW t, Within(s, t), NEW db, Monotone(t), Covers(db, t, Len(t))
  PROVE  Monotone(s) /\ Covers(db, s, Len(s))
<1>1. PICK f \in [1 .. Len(s) -> 1 .. Len(t)] :
        /\ \A i, j \in 1 .. Len(s) : i < j => f[i] < f[j]
        /\ \A i \in 1 .. Len(s) : s[i] = t[f[i]]
  BY Zenon DEF Within
<1>2. \A i \in 1 .. Len(s) : f[i] \in 1 .. Len(t)
  BY <1>1, Zenon
<1>3. \A i \in 1 .. Len(t) : i <= Len(t)
  BY DEF Within
<1>4. Monotone(s)
  BY <1>1, <1>2 DEF Monotone
<1>5. Covers(db, s, Len(s))
  BY <1>1, <1>2, <1>3, Zenon DEF Covers
<1> QED BY <1>4, <1>5, Zenon

\* An aborted transaction takes its records out of the middle of a log.
LEMMA DropMiddle ==
  ASSUME NEW S, NEW a \in Seq(S), NEW b \in Seq(S), NEW c \in Seq(S)
  PROVE  Within(a \o c, (a \o b) \o c)
<1> DEFINE ab == a \o b
           f == [i \in 1 .. Len(a) + Len(c) |-> IF i <= Len(a) THEN i ELSE i + Len(b)]
<1>1. /\ ab \in Seq(S) /\ Len(ab) = Len(a) + Len(b)
      /\ \A i \in 1 .. Len(a) + Len(b) :
           ab[i] = IF i <= Len(a) THEN a[i] ELSE b[i - Len(a)]
      /\ Len(a) \in Nat /\ Len(b) \in Nat /\ Len(c) \in Nat
  BY ConcatParts, SeqParts, Zenon
<1> HIDE DEF ab
<1>2. /\ Len(ab \o c) = Len(ab) + Len(c)
      /\ \A i \in 1 .. Len(ab) + Len(c) :
           (ab \o c)[i] = IF i <= Len(ab) THEN ab[i] ELSE c[i - Len(ab)]
  <2>1. ab \in Seq(S)
    BY <1>1, Zenon
  <2> QED BY <2>1, ConcatParts, Zenon
<1>3. /\ Len(a \o c) = Len(a) + Len(c)
      /\ \A i \in 1 .. Len(a) + Len(c) :
           (a \o c)[i] = IF i <= Len(a) THEN a[i] ELSE c[i - Len(a)]
  BY ConcatParts, Zenon
<1>4. ASSUME NEW i \in 1 .. Len(a) + Len(c)
      PROVE  f[i] \in 1 .. Len(ab \o c) /\ (a \o c)[i] = (ab \o c)[f[i]]
  <2>1. CASE i <= Len(a)
    <3>1. f[i] = i /\ i \in 1 .. Len(a) + Len(b) /\ i \in 1 .. Len(ab) + Len(c)
          /\ i <= Len(ab)
      BY <1>1, <2>1
    <3>2. (a \o c)[i] = a[i] /\ (ab \o c)[i] = ab[i] /\ ab[i] = a[i]
      BY <1>1, <1>2, <1>3, <2>1, <3>1, Zenon
    <3> QED BY <1>2, <3>1, <3>2, Zenon
  <2>2. CASE i > Len(a)
    <3>1. /\ f[i] = i + Len(b) /\ f[i] \in 1 .. Len(ab) + Len(c)
          /\ ~ (f[i] <= Len(ab)) /\ f[i] - Len(ab) = i - Len(a)
      BY <1>1, <2>2
    <3>2. (a \o c)[i] = c[i - Len(a)]
      BY <1>1, <1>3, <2>2
    <3>3. (ab \o c)[f[i]] = c[i - Len(a)]
      BY <1>2, <3>1, Zenon
    <3> QED BY <1>2, <3>1, <3>2, <3>3, Zenon
  <2> QED BY <1>1, <2>1, <2>2
<1>5. ASSUME NEW i \in 1 .. Len(a) + Len(c), NEW j \in 1 .. Len(a) + Len(c), i < j
      PROVE  f[i] < f[j]
  BY <1>1, <1>5
<1>6. DOMAIN f = 1 .. Len(a \o c)
  BY <1>3, Zenon
<1>7. f \in [1 .. Len(a \o c) -> 1 .. Len(ab \o c)]
  <2>1. f = [i \in 1 .. Len(a \o c) |-> f[i]]
    BY <1>3, Zenon
  <2> HIDE DEF f
  <2> QED BY <2>1, <1>3, <1>4, Zenon
<1> HIDE DEF f
<1>8. Len(a \o c) \in Nat /\ Len(ab \o c) \in Nat
  BY <1>1, <1>2, <1>3
<1> QED BY <1>3, <1>4, <1>5, <1>7, <1>8, Zenon DEF Within, ab

\* Appending to the unpublished part of a log appends to the log.
LEMMA ConcatAppend ==
  ASSUME NEW S, NEW s \in Seq(S), NEW t \in Seq(S), NEW r \in S
  PROVE  s \o Append(t, r) = Append(s \o t, r)
<1>1. Append(t, r) = t \o <<r>> /\ Append(s \o t, r) = (s \o t) \o <<r>>
  OBVIOUS
<1> QED BY <1>1

\* Writing a value that reflects the store's value, and logging it, keeps the
\* log monotone and covered.
LEMMA AppendCovers ==
  ASSUME NEW K, NEW W, NEW log \in Seq([key : K, val : SUBSET W]),
         NEW k \in K, NEW v \in SUBSET W, NEW db \in [K -> SUBSET W],
         Monotone(log), Covers(db, log, Len(log)), db[k] \subseteq v
  PROVE  LET log2 == Append(log, [key |-> k, val |-> v])
         IN  /\ Monotone(log2)
             /\ Covers([db EXCEPT ![k] = v], log2, Len(log2))
<1> DEFINE r == [key |-> k, val |-> v]
           log2 == Append(log, r)
           db2 == [db EXCEPT ![k] = v]
<1>1. /\ Len(log) \in Nat /\ Len(log2) = Len(log) + 1
      /\ log2[Len(log) + 1] = r
      /\ \A i \in 1 .. Len(log) : log2[i] = log[i]
  <2>1. r \in [key : K, val : SUBSET W]
    BY Zenon
  <2> QED BY <2>1, AppendParts
<1>2. \A i \in 1 .. Len(log) : log[i].key \in K /\ log[i].val \subseteq db[log[i].key]
  <2>1. ASSUME NEW i \in 1 .. Len(log) PROVE log[i] \in [key : K, val : SUBSET W]
    BY SeqElement, Zenon
  <2> QED BY <2>1, <1>1 DEF Covers
<1>3. r.key = k /\ r.val = v
  BY Zenon
<1> HIDE DEF r, log2
<1>4. Monotone(log2)
  <2> SUFFICES ASSUME NEW i \in 1 .. Len(log2), NEW j \in 1 .. Len(log2),
                      i < j, log2[i].key = log2[j].key
               PROVE  log2[i].val \subseteq log2[j].val
    BY Zenon DEF Monotone
  <2>1. i \in 1 .. Len(log)
    BY <1>1
  <2>2. CASE j = Len(log) + 1
    <3>1. log[i].key = k /\ log2[j].val = v /\ log2[i].val = log[i].val
      BY <2>1, <2>2, <1>1, <1>3, Zenon
    <3> QED BY <3>1, <2>1, <1>2, Zenon
  <2>3. CASE j # Len(log) + 1
    <3>1. j \in 1 .. Len(log)
      <4>1. Len(log) \in Nat /\ j \in 1 .. Len(log) + 1
        BY <1>1, Zenon
      <4> QED BY <2>3, <4>1
    <3> QED BY <3>1, <2>1, <1>1, Zenon DEF Monotone
  <2> QED BY <2>2, <2>3, Zenon
<1>5. Covers(db2, log2, Len(log2))
  <2> SUFFICES ASSUME NEW i \in 1 .. Len(log2)
               PROVE  log2[i].val \subseteq db2[log2[i].key]
    BY Zenon DEF Covers
  <2>1. CASE i = Len(log) + 1
    BY <2>1, <1>1, <1>3, Zenon
  <2>2. CASE i # Len(log) + 1
    <3>1. i \in 1 .. Len(log)
      BY <2>2, <1>1
    <3>2. log2[i] = log[i] /\ log[i].key \in K /\ log[i].val \subseteq db[log[i].key]
      BY <3>1, <1>1, <1>2, Zenon
    <3>3. db[log[i].key] \subseteq db2[log[i].key]
      BY <3>2, Zenon
    <3> QED BY <3>2, <3>3, Zenon
  <2> QED BY <2>1, <2>2, Zenon
<1> QED BY <1>4, <1>5, Zenon DEF log2, r

\* What a log reflects it still reflects when a record is appended, and what
\* the record does.
LEMMA AppendInLog ==
  ASSUME NEW S, NEW log \in Seq(S), NEW r \in S
  PROVE  /\ \A k, o : InLog(log, k, o) => InLog(Append(log, r), k, o)
         /\ \A o \in r.val : InLog(Append(log, r), r.key, o)
<1>1. /\ Len(log) \in Nat /\ Len(Append(log, r)) = Len(log) + 1
      /\ Append(log, r)[Len(log) + 1] = r
      /\ \A i \in 1 .. Len(log) : Append(log, r)[i] = log[i]
  BY AppendParts
<1>2. Len(log) + 1 \in 1 .. Len(Append(log, r))
      /\ \A i \in 1 .. Len(log) : i \in 1 .. Len(Append(log, r))
  BY <1>1
<1> QED BY <1>1, <1>2, Zenon DEF InLog
============================================================================
