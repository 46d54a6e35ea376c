--------------------------- MODULE StoreMapProofs ---------------------------
(***************************************************************************)
(* Proofs about the flat map of StoreBackend, for every width of bytes,    *)
(* lengths and times, every set of names without zero bytes, and both      *)
(* backends.  A scan of a store visits exactly the keys with its prefix,   *)
(* and no step for one store changes what the scans of another visit.      *)
(* Keys and numbers come back from their encodings, and a map that is      *)
(* written in step with a log goes on agreeing with it.                    *)
(***************************************************************************)
EXTENDS StoreBackend, ChangelogProofs

-----------------------------------------------------------------------------
(* Scan bounds.                                                            *)

\* Places of a sequence that satisfy something have a first one.
LEMMA HasFirst ==
  ASSUME NEW n \in Nat, NEW S \in SUBSET (1 .. n), S # {}
  PROVE  \E f \in S : \A x \in S : f <= x
<1> DEFINE T == {n + 1 - x : x \in S}
<1>1. ASSUME NEW x \in S PROVE x \in Int /\ n + 1 - x \in 1 .. n
  OBVIOUS
<1>2. T \in SUBSET (1 .. n) /\ T # {}
  BY <1>1, Zenon
<1>3. PICK m \in T : \A t \in T : t <= m
  BY <1>2, HasLast, Zenon DEF IsLast
<1>4. PICK f \in S : m = n + 1 - f
  BY <1>3, Zenon
<1>5. ASSUME NEW x \in S PROVE f <= x
  <2>1. n + 1 - x <= n + 1 - f
    BY <1>3, <1>4, Zenon
  <2> QED BY <2>1, <1>1
<1> QED BY <1>5, Zenon

\* Where the bound of a prefix differs from the prefix: at its last byte below
\* 0xff, after which the bound ends.
LEMMA UpperBoundShape ==
  ASSUME NEW p \in ByteStrings, prefixUpperBound(p) # <<>>
  PROVE  \E i \in 1 .. Len(p) :
           /\ p[i] # ByteMax /\ \A j \in i + 1 .. Len(p) : p[j] = ByteMax
           /\ Len(prefixUpperBound(p)) = i
           /\ \A j \in 1 .. i - 1 : prefixUpperBound(p)[j] = p[j]
           /\ prefixUpperBound(p)[i] = p[i] + 1
<1> DEFINE S == {i \in 1 .. Len(p) : p[i] # ByteMax}
           i == CHOOSE j \in S : \A l \in S : l <= j
<1>1. S # {} /\ prefixUpperBound(p) = SubSeq(p, 1, i - 1) \o <<p[i] + 1>>
  BY Zenon DEF prefixUpperBound
<1>2. Len(p) \in Nat /\ S \in SUBSET (1 .. Len(p))
  BY DEF ByteStrings
<1>3. i \in S /\ \A l \in S : l <= i
  <2>1. \E m \in S : IsLast(S, m)
    BY <1>1, <1>2, HasLast, Zenon
  <2> QED BY <2>1, Zenon DEF IsLast
<1>4. p \in Seq(Int)
  BY ByteKeysAssumption DEF ByteStrings, Bytes
<1> HIDE DEF i
<1>5. i \in 1 .. Len(p) /\ p[i] # ByteMax /\ \A j \in i + 1 .. Len(p) : p[j] = ByteMax
  BY <1>2, <1>3
<1> DEFINE h == SubSeq(p, 1, i - 1)
<1>6. h \in Seq(Int) /\ Len(h) = i - 1 /\ \A j \in 1 .. i - 1 : h[j] = p[j]
  BY <1>2, <1>4, <1>5
<1> HIDE DEF h
<1>7. p[i] + 1 \in Int
  BY <1>4, <1>5
<1> DEFINE u == h \o <<p[i] + 1>>
<1>8. Len(u) = i /\ u[i] = p[i] + 1 /\ \A j \in 1 .. i - 1 : u[j] = p[j]
  BY <1>6, <1>7, <1>5
<1>9. prefixUpperBound(p) = u
  BY <1>1, Zenon DEF h
<1> QED BY <1>5, <1>8, <1>9, Zenon

\* A byte string lies between a prefix and the bound of that prefix exactly
\* when it begins with the prefix.
THEOREM PrefixScan ==
  ASSUME NEW p \in ByteStrings, NEW k \in ByteStrings, prefixUpperBound(p) # <<>>
  PROVE  ~Less(k, p) /\ Less(k, prefixUpperBound(p)) <=> HasPrefix(k, p)
<1> DEFINE u == prefixUpperBound(p)
<1>1. PICK i \in 1 .. Len(p) :
           /\ p[i] # ByteMax /\ \A j \in i + 1 .. Len(p) : p[j] = ByteMax
           /\ Len(u) = i
           /\ \A j \in 1 .. i - 1 : u[j] = p[j]
           /\ u[i] = p[i] + 1
  BY UpperBoundShape, Zenon
<1> HIDE DEF u
<1>2. /\ Len(p) \in Nat /\ Len(k) \in Nat
      /\ \A j \in 1 .. Len(p) : p[j] \in Int /\ 0 <= p[j] /\ p[j] <= ByteMax
      /\ \A j \in 1 .. Len(k) : k[j] \in Int /\ 0 <= k[j] /\ k[j] <= ByteMax
  <2>1. \A x \in Bytes : x \in Int /\ 0 <= x /\ x <= ByteMax
    BY ByteKeysAssumption DEF Bytes
  <2>2. p \in Seq(Bytes) /\ k \in Seq(Bytes)
    BY SMTT(30) DEF ByteStrings
  <2>3. \A s \in Seq(Bytes) :
          Len(s) \in Nat /\ \A j \in 1 .. Len(s) : s[j] \in Bytes
    OBVIOUS
  <2> QED BY <2>1, <2>2, <2>3, Zenon
<1>3. ByteMax \in Nat
  BY ByteKeysAssumption, Zenon
<1>4. ASSUME HasPrefix(k, p) PROVE Less(k, u) /\ ~Less(k, p)
  <2>1. Less(k, u)
    <3>1. i \in 1 .. Len(u) /\ i <= Len(k) + 1 /\ k[i] < u[i]
      BY <1>1, <1>2, <1>4 DEF HasPrefix
    <3>2. \A j \in 1 .. i - 1 : k[j] = u[j]
      BY <1>1, <1>2, <1>4 DEF HasPrefix
    <3> QED BY <3>1, <3>2, Zenon DEF Less
  <2>2. ASSUME NEW l \in 1 .. Len(p), l <= Len(k) => k[l] < p[l] PROVE FALSE
    BY <1>2, <1>4, <2>2 DEF HasPrefix
  <2> QED BY <2>1, <2>2, Zenon DEF Less
<1>5. ASSUME ~Less(k, p), Less(k, u) PROVE HasPrefix(k, p)
  <2>1. PICK l \in 1 .. i : /\ l <= Len(k) + 1
                            /\ \A j \in 1 .. l - 1 : k[j] = u[j]
                            /\ l <= Len(k) => k[l] < u[l]
    BY <1>1, <1>5, Zenon DEF Less
  <2>2. \A j \in 1 .. l - 1 : k[j] = p[j]
    BY <1>1, <1>2, <2>1
  <2>3. l = i /\ i <= Len(k)
    <3>1. l \in 1 .. Len(p)
      BY <1>1, <1>2, <2>1
    <3>2. ~(l <= Len(k) => k[l] < p[l])
      BY <3>1, <2>1, <2>2, <1>5, Zenon DEF Less
    <3>3. l <= Len(k) /\ ~(k[l] < p[l])
      BY <3>2, Zenon
    <3>4. l # i => u[l] = p[l]
      BY <1>1, <1>2, <2>1
    <3> QED BY <3>3, <3>4, <2>1, <1>1, <1>2, Zenon
  <2>4. k[i] = p[i]
    <3>1. ~(k[i] < p[i])
      BY <2>1, <2>2, <2>3, <1>1, <1>2, <1>5, Zenon DEF Less
    <3>2. k[i] < p[i] + 1
      BY <2>1, <2>3, <1>1, Zenon
    <3> QED BY <3>1, <3>2, <2>3, <1>1, <1>2
  <2>5. \A j \in 1 .. i : k[j] = p[j]
    BY <2>2, <2>3, <2>4, <1>1, <1>2
  <2>6. ASSUME NEW m \in i + 1 .. Len(p), m > Len(k) \/ k[m] # p[m] PROVE FALSE
    <3> DEFINE E == {x \in i + 1 .. Len(p) : x > Len(k) \/ k[x] # p[x]}
    <3>1. PICK f \in E : \A x \in E : f <= x
      <4>1. E \in SUBSET (1 .. Len(p))
        BY <1>1, <1>2
      <4>2. E # {}
        BY <2>6, Zenon
      <4> QED BY <4>1, <4>2, <1>2, HasFirst, Zenon
    <3>2. f \in 1 .. Len(p) /\ f > i
      BY <3>1, <1>1, <1>2
    <3>3. \A j \in 1 .. f - 1 : j <= Len(k) /\ k[j] = p[j]
      <4> TAKE j \in 1 .. f - 1
      <4>1. CASE j <= i
        BY <4>1, <2>5, <2>3, <3>2, <1>1, <1>2
      <4>2. CASE j > i
        <5>1. j \in i + 1 .. Len(p) /\ ~(f <= j)
          BY <4>2, <3>2, <1>1, <1>2
        <5>2. j \notin E
          BY <5>1, <3>1, Zenon
        <5> QED BY <5>1, <5>2, <1>2
      <4> QED BY <4>1, <4>2, <1>1, <3>2, <1>2
    <3>4. f <= Len(k) + 1
      BY <3>2, <3>3, <1>1, <1>2
    <3>5. f <= Len(k) => k[f] < p[f]
      <4>1. p[f] = ByteMax
        BY <3>1, <1>1, Zenon
      <4>2. f <= Len(k) => k[f] # p[f] /\ k[f] \in Int /\ k[f] <= ByteMax
        BY <3>1, <3>2, <1>1, <1>2
      <4> QED BY <4>1, <4>2, <1>3
    <3>6. Less(k, p)
      BY <3>2, <3>3, <3>4, <3>5, Zenon DEF Less
    <3> QED BY <3>6, <1>5, Zenon
  <2>7. \A m \in i + 1 .. Len(p) : m <= Len(k) /\ k[m] = p[m]
    BY <2>6, <1>2, <1>1
  <2>8. Len(p) <= Len(k)
    BY <2>3, <2>7, <1>1, <1>2
  <2>9. \A j \in 1 .. Len(p) : k[j] = p[j]
    BY <2>5, <2>7, <1>1, <1>2
  <2> QED BY <2>8, <2>9, Zenon DEF HasPrefix
<1> QED BY <1>4, <1>5, Zenon DEF u
-----------------------------------------------------------------------------
(* Prefixes.                                                               *)

\* The prefix of a store: it ends in its only zero byte.
LEMMA PrefixShape ==
  ASSUME NEW n \in Names
  PROVE  /\ Len(n) \in Nat \ {0} /\ \A i \in 1 .. Len(n) : n[i] \in 1 .. ByteMax
         /\ Prefix(n) \in ByteStrings /\ Len(Prefix(n)) = Len(n) + 1
         /\ \A i \in 1 .. Len(n) : Prefix(n)[i] = n[i]
         /\ Prefix(n)[Len(n) + 1] = 0
<1>1. n \in Seq(1 .. ByteMax) /\ n # <<>>
  BY StoreAssumption, Zenon
<1>2. ByteMax \in Nat \ {0}
  BY ByteKeysAssumption, Zenon
<1>3. n \in Seq(Bytes) /\ <<0>> \in Seq(Bytes)
  BY <1>1, <1>2 DEF Bytes
<1>4. Len(n) \in Nat \ {0} /\ \A i \in 1 .. Len(n) : n[i] \in 1 .. ByteMax
  BY <1>1, <1>2
<1>5. n \o <<0>> \in Seq(Bytes) /\ Len(n \o <<0>>) = Len(n) + 1
  BY <1>3
<1>6. /\ \A i \in 1 .. Len(n) : (n \o <<0>>)[i] = n[i]
      /\ (n \o <<0>>)[Len(n) + 1] = 0
  BY <1>3
<1> QED BY <1>4, <1>5, <1>6, Zenon DEF Prefix, ByteStrings

\* A prefix of a store has a bound: its last byte is not 0xff.
LEMMA PrefixBound ==
  ASSUME NEW n \in Names
  PROVE  Prefix(n) \in ByteStrings /\ prefixUpperBound(Prefix(n)) # <<>>
<1> DEFINE p == Prefix(n)
           S == {i \in 1 .. Len(p) : p[i] # ByteMax}
           i == CHOOSE j \in S : \A l \in S : l <= j
<1>1. p \in ByteStrings
  BY PrefixShape, Zenon
<1>2. Len(n) + 1 \in S
  BY PrefixShape, ByteKeysAssumption
<1>3. prefixUpperBound(p) = SubSeq(p, 1, i - 1) \o <<p[i] + 1>>
  BY <1>2, Zenon DEF prefixUpperBound
<1>4. i \in S
  <2>1. Len(p) \in Nat /\ S \in SUBSET (1 .. Len(p)) /\ S # {}
    BY <1>2, <1>1 DEF ByteStrings
  <2>2. \E m \in S : IsLast(S, m)
    BY <2>1, HasLast, Zenon
  <2> QED BY <2>2, Zenon DEF IsLast
<1> HIDE DEF i
<1>5. p \in Seq(Int) /\ i \in 1 .. Len(p)
  BY <1>4, <1>1, ByteKeysAssumption DEF ByteStrings, Bytes
<1>6. SubSeq(p, 1, i - 1) \in Seq(Int) /\ p[i] + 1 \in Int
  BY <1>5
<1>7. SubSeq(p, 1, i - 1) \o <<p[i] + 1>> # <<>>
  BY <1>6
<1> QED BY <1>1, <1>3, <1>7, Zenon

\* Range of keyvalue.go and memory.go "does not cross into another store's
\* key prefix": it visits the keys with the prefix of the store.
THEOREM RangeIsPrefix ==
  ASSUME NEW n \in Names, DOMAIN data \subseteq ByteStrings
  PROVE  RangeKeys(n) = {k \in DOMAIN data : HasPrefix(k, Prefix(n))}
<1>1. ASSUME NEW k \in DOMAIN data
      PROVE  ~Less(k, Prefix(n)) /\ Less(k, prefixUpperBound(Prefix(n)))
               <=> HasPrefix(k, Prefix(n))
  BY PrefixBound, PrefixScan, Zenon
<1> QED BY <1>1, PrefixBound, Zenon DEF RangeKeys

\* No key has the prefixes of two stores, also where one name begins with the
\* other: "a name "foo" does not share a prefix with a name "foobar"".
LEMMA OnePrefix ==
  ASSUME NEW n \in Names, NEW m \in Names, NEW k,
         HasPrefix(k, Prefix(n)), HasPrefix(k, Prefix(m))
  PROVE  n = m
<1>1. ASSUME NEW a \in Names, NEW b \in Names, Len(a) < Len(b),
             HasPrefix(k, Prefix(a)), HasPrefix(k, Prefix(b))
      PROVE  FALSE
  <2>1. k[Len(a) + 1] = 0
    <3>1. Len(a) + 1 \in 1 .. Len(Prefix(a)) /\ Prefix(a)[Len(a) + 1] = 0
      BY <1>1, PrefixShape
    <3> QED BY <1>1, <3>1, Zenon DEF HasPrefix
  <2>2. k[Len(a) + 1] = b[Len(a) + 1] /\ Len(a) + 1 \in 1 .. Len(b)
    BY <1>1, PrefixShape DEF HasPrefix
  <2> QED BY <2>1, <2>2, PrefixShape
<1>2. Len(n) = Len(m)
  BY <1>1, PrefixShape
<1>3. \A i \in 1 .. Len(n) : n[i] = m[i]
  BY <1>2, PrefixShape DEF HasPrefix
<1>4. n \in Seq(1 .. ByteMax) /\ m \in Seq(1 .. ByteMax)
  BY StoreAssumption, Zenon
<1> QED BY <1>2, <1>3, <1>4

\* Checkpoints and stream time have keys outside every store.
LEMMA MetaOutside ==
  ASSUME NEW n \in Names
  PROVE  /\ \A m \in Names : /\ checkpointKey(m) \in ByteStrings
                             /\ ~HasPrefix(checkpointKey(m), Prefix(n))
         /\ streamTimeKey \in ByteStrings /\ ~HasPrefix(streamTimeKey, Prefix(n))
<1>1. 1 \in 1 .. Len(Prefix(n)) /\ Prefix(n)[1] \in 1 .. ByteMax
  BY PrefixShape
<1>2. <<0, 1, 0>> \in Seq(Bytes) /\ <<0, ByteMax, 0>> \in Seq(Bytes)
  BY ByteKeysAssumption DEF Bytes
<1>3. ASSUME NEW m \in Names
      PROVE  checkpointKey(m) \in Seq(Bytes) /\ checkpointKey(m)[1] = 0
  <2>1. m \in Seq(Bytes)
    <3>1. m \in Seq(1 .. ByteMax)
      BY StoreAssumption, Zenon
    <3> QED BY <3>1, ByteKeysAssumption DEF Bytes
  <2> QED BY <2>1, <1>2 DEF checkpointKey
<1>4. streamTimeKey[1] = 0
  BY Zenon DEF streamTimeKey
<1>5. Prefix(n)[1] # 0
  BY <1>1, ByteKeysAssumption
<1>6. ASSUME NEW x, x[1] = 0 PROVE ~HasPrefix(x, Prefix(n))
  BY <1>1, <1>5, <1>6, Zenon DEF HasPrefix
<1>7. streamTimeKey \in Seq(Bytes)
  BY <1>2, Zenon DEF streamTimeKey
<1> QED BY <1>3, <1>4, <1>6, <1>7, Zenon DEF ByteStrings

\* What encodeKey returns begins with the prefix of the store.
LEMMA EncodedPrefix ==
  ASSUME NEW n \in Names, NEW k \in ByteStrings
  PROVE  Prefix(n) \o k \in ByteStrings /\ HasPrefix(Prefix(n) \o k, Prefix(n))
<1>1. Prefix(n) \in Seq(Bytes) /\ k \in Seq(Bytes)
  BY PrefixShape, Zenon DEF ByteStrings
<1> QED BY <1>1 DEF ByteStrings, HasPrefix

\* The powers of the base, up to the widths there are.
Widths == 1 .. LenWidth + TimeWidth

\* The powers of the base up to the widest number that is encoded.
LEMMA Powers ==
  /\ Base \in Nat \ {0} /\ Base ^ 0 = 1
  /\ \A i \in 0 .. LenWidth + TimeWidth : Base ^ i \in Nat \ {0}
  /\ \A i \in 0 .. LenWidth + TimeWidth - 1 : Base ^ (i + 1) = Base * Base ^ i
  /\ LenWidth \in Widths /\ TimeWidth \in Widths
  /\ LenWidth \in Nat /\ TimeWidth \in Nat
BY ByteKeysAssumption DEF Base, Widths

\* A number in big-endian order is as many bytes as its width.
LEMMA BigEndianTyped ==
  ASSUME NEW u \in Int, NEW w \in Widths
  PROVE  BigEndian(u, w) \in Seq(Bytes) /\ Len(BigEndian(u, w)) = w
<1>1. /\ w \in Nat /\ w <= LenWidth + TimeWidth
      /\ LenWidth \in Nat /\ TimeWidth \in Nat
  BY Powers DEF Widths
<1>2. ASSUME NEW i \in 1 .. w PROVE (u \div Base ^ (w - i)) % Base \in Bytes
  <2>1. w - i \in 0 .. LenWidth + TimeWidth
    BY <1>1
  <2>2. PICK q \in Nat \ {0} : q = Base ^ (w - i)
    BY <2>1, Powers, Zenon
  <2>3. PICK c \in Nat \ {0} : c = Base /\ c - 1 = ByteMax
    BY ByteKeysAssumption DEF Base
  <2>4. (u \div q) % c \in 0 .. c - 1
    OBVIOUS
  <2> QED BY <2>2, <2>3, <2>4, Zenon DEF Bytes
<1> QED BY <1>1, <1>2 DEF BigEndian

\* A composite key and its first part are byte strings.
LEMMA CompositeTyped ==
  ASSUME NEW k \in ByteStrings, NEW start \in Int,
         Len(k) \in Nat
  PROVE  CompositeKey(k, start) \in ByteStrings /\ LengthPrefixed(k) \in ByteStrings
<1>1. start % Base ^ TimeWidth \in Int
  <2>1. PICK q \in Nat \ {0} : q = Base ^ TimeWidth
    BY ByteKeysAssumption DEF Base
  <2>2. start % q \in Int
    OBVIOUS
  <2> QED BY <2>1, <2>2, Zenon
<1>2. BigEndian(Len(k), LenWidth) \in Seq(Bytes)
  BY Powers, BigEndianTyped
<1>3. BigEndian(start % Base ^ TimeWidth, TimeWidth) \in Seq(Bytes)
  BY <1>1, Powers, BigEndianTyped, Zenon
<1> QED BY <1>2, <1>3 DEF CompositeKey, LengthPrefixed, ByteStrings
-----------------------------------------------------------------------------
(* The invariant: what is collected or logged of a store has its prefix.   *)

Prefixed(n) == {k \in ByteStrings : HasPrefix(k, Prefix(n))}
OwnMutations(n) == [key : Prefixed(n), val : Values \cup {Nil}]
AnyMutation == [key : ByteStrings, val : Values \cup {Nil}]

KeysOwned ==
  /\ store \in [Names -> {"closed", "open"}]
  /\ DOMAIN data \subseteq ByteStrings
  /\ collector \in [Names -> Seq(AnyMutation)]
  /\ changelog \in [Names -> Seq(AnyMutation)]
  /\ \A n \in Names : collector[n] \in Seq(OwnMutations(n))
  /\ \A n \in Names : changelog[n] \in Seq(OwnMutations(n))

\* The keys of store n are where they were, with the values they had.
SameFor(n) ==
  \A k \in Prefixed(n) :
    /\ k \in DOMAIN data' <=> k \in DOMAIN data
    /\ k \in DOMAIN data => data'[k] = data[k]

\* What every action has to do with each store it is not about.
Unaffected ==
  \A n \in Names :
    store'[n] = store[n] /\ collector'[n] = collector[n] => SameFor(n)

\* Then the scans of the other stores visit what they visited.
LEMMA UnaffectedVisible ==
  ASSUME NEW n \in Names, KeysOwned, KeysOwned', SameFor(n)
  PROVE  Visible(n)' = Visible(n)
<1>1. RangeKeys(n) = {k \in DOMAIN data : HasPrefix(k, Prefix(n))}
  BY RangeIsPrefix, Zenon DEF KeysOwned
<1>2. RangeKeys(n)' = {k \in DOMAIN data' : HasPrefix(k, Prefix(n))}
  <2>1. (DOMAIN data)' \subseteq ByteStrings
    BY Zenon DEF KeysOwned
  <2>2. Prefix(n) \in ByteStrings /\ prefixUpperBound(Prefix(n)) # <<>>
    BY PrefixBound, Zenon
  <2>3. ASSUME NEW k \in DOMAIN data'
        PROVE  ~Less(k, Prefix(n)) /\ Less(k, prefixUpperBound(Prefix(n)))
                 <=> HasPrefix(k, Prefix(n))
    BY <2>1, <2>2, PrefixScan, Zenon
  <2> QED BY <2>2, <2>3, Zenon DEF RangeKeys
<1>3. RangeKeys(n)' = RangeKeys(n)
      /\ \A k \in RangeKeys(n) : data'[k] = data[k]
  BY <1>1, <1>2, Zenon DEF SameFor, Prefixed, KeysOwned
<1> QED BY <1>3, Zenon DEF Visible
\* The keys the operations write have the prefix of the store.
LEMMA FullKeysPrefixed ==
  ASSUME NEW n \in Names, NEW k \in Keys
  PROVE  /\ encodeKey(n, k) \in Prefixed(n)
         /\ \A start \in Starts : WindowKey(n, k, start) \in Prefixed(n)
<1>1. k \in ByteStrings /\ Len(k) \in Nat
  BY StoreAssumption DEF ByteStrings
<1>2. encodeKey(n, k) \in Prefixed(n)
  BY <1>1, EncodedPrefix, Zenon DEF encodeKey, Prefixed
<1>3. ASSUME NEW start \in Starts PROVE WindowKey(n, k, start) \in Prefixed(n)
  <2>1. start \in Int
    BY StoreAssumption
  <2>2. CompositeKey(k, start) \in ByteStrings
    BY <1>1, <2>1, CompositeTyped, Zenon
  <2> QED BY <2>2, EncodedPrefix, Zenon DEF WindowKey, Prefixed
<1> QED BY <1>2, <1>3, Zenon

\* Put, WindowPut: Pebble's and memory's write of one key.
LEMMA SetStep ==
  ASSUME KeysOwned, NEW n \in Names, NEW full \in Prefixed(n), NEW v \in Values,
         Set(n, full, v)
  PROVE  KeysOwned' /\ Unaffected
<1> DEFINE mut == [key |-> full, val |-> Recorded(v)]
<1>1. mut \in OwnMutations(n) /\ mut \in AnyMutation
  BY Zenon DEF OwnMutations, AnyMutation, Recorded, Prefixed
<1> HIDE DEF mut
<1>2. collector' = [collector EXCEPT ![n] = Append(@, mut)] /\ changelog' = changelog
      /\ store' = store
  BY Zenon DEF Set, Write, mut
<1>3. DOMAIN data' = DOMAIN data \cup {full}
      /\ \A k \in DOMAIN data : k # full => data'[k] = data[k]
  BY Zenon DEF Set, With
<1>4. KeysOwned'
  BY <1>1, <1>2, <1>3 DEF KeysOwned, Prefixed
<1>5. collector'[n] # collector[n]
  <2>1. collector[n] \in Seq(AnyMutation) /\ collector'[n] = Append(collector[n], mut)
    BY <1>2, Zenon DEF KeysOwned
  <2> QED BY <2>1, <1>1
<1>6. ASSUME NEW m \in Names, m # n PROVE SameFor(m)
  BY <1>3, <1>6, OnePrefix, Zenon DEF SameFor, Prefixed
<1> QED BY <1>4, <1>5, <1>6, Zenon DEF Unaffected

\* Delete, WindowDelete.
LEMMA UnsetStep ==
  ASSUME KeysOwned, NEW n \in Names, NEW full \in Prefixed(n), Unset(n, full)
  PROVE  KeysOwned' /\ Unaffected
<1> DEFINE mut == [key |-> full, val |-> Nil]
<1>1. mut \in OwnMutations(n) /\ mut \in AnyMutation
  BY Zenon DEF OwnMutations, AnyMutation, Prefixed
<1> HIDE DEF mut
<1>2. collector' = [collector EXCEPT ![n] = Append(@, mut)] /\ changelog' = changelog
      /\ store' = store
  BY Zenon DEF Unset, Write, mut
<1>3. DOMAIN data' = DOMAIN data \ {full}
      /\ \A k \in DOMAIN data : k # full => data'[k] = data[k]
  BY Zenon DEF Unset, Without
<1>4. KeysOwned'
  BY <1>1, <1>2, <1>3 DEF KeysOwned, Prefixed
<1>5. collector'[n] # collector[n]
  <2>1. collector[n] \in Seq(AnyMutation) /\ collector'[n] = Append(collector[n], mut)
    BY <1>2, Zenon DEF KeysOwned
  <2> QED BY <2>1, <1>1
<1>6. ASSUME NEW m \in Names, m # n PROVE SameFor(m)
  BY <1>3, <1>6, OnePrefix, Zenon DEF SameFor, Prefixed
<1> QED BY <1>4, <1>5, <1>6, Zenon DEF Unaffected

\* The bound of a prefix is a sequence of numbers.
LEMMA UpperBoundTyped ==
  ASSUME NEW p \in ByteStrings
  PROVE  prefixUpperBound(p) \in Seq(Int)
<1>1. CASE prefixUpperBound(p) = <<>>
  BY <1>1
<1>2. CASE prefixUpperBound(p) # <<>>
  <2> DEFINE S == {i \in 1 .. Len(p) : p[i] # ByteMax}
             i == CHOOSE j \in S : \A l \in S : l <= j
  <2>1. S # {} /\ prefixUpperBound(p) = SubSeq(p, 1, i - 1) \o <<p[i] + 1>>
    BY <1>2, Zenon DEF prefixUpperBound
  <2>2. Len(p) \in Nat /\ S \in SUBSET (1 .. Len(p))
    BY DEF ByteStrings
  <2>3. i \in S
    <3>1. \E m \in S : IsLast(S, m)
      BY <2>1, <2>2, HasLast, Zenon
    <3> QED BY <3>1, Zenon DEF IsLast
  <2> HIDE DEF i
  <2>4. p \in Seq(Int) /\ i \in 1 .. Len(p)
    BY <2>2, <2>3, ByteKeysAssumption DEF ByteStrings, Bytes
  <2>5. SubSeq(p, 1, i - 1) \in Seq(Int) /\ p[i] + 1 \in Int
    BY <2>4
  <2> QED BY <2>1, <2>5
<1> QED BY <1>1, <1>2, Zenon

\* RangeCompositeBytes with the bounds of a key stays within the store.
LEMMA RangePrefixed ==
  ASSUME KeysOwned, NEW n \in Names, NEW k \in Keys
  PROVE  RangeCompositeBytes(n, WindowKeyLowerBound(k), WindowKeyUpperBound(k))
           \subseteq Prefixed(n)
<1> DEFINE p == Prefix(n)
           a == WindowKeyLowerBound(k)
           b == WindowKeyUpperBound(k)
<1>1. p \in Seq(Int) /\ a \in Seq(Int) /\ b \in Seq(Int)
  <2>1. k \in ByteStrings /\ Len(k) \in Nat /\ 0 \in Int
    BY StoreAssumption DEF ByteStrings
  <2>2. a \in ByteStrings /\ LengthPrefixed(k) \in ByteStrings
    BY <2>1, CompositeTyped, Zenon DEF WindowKeyLowerBound
  <2>3. ByteStrings \subseteq Seq(Int)
    BY ByteKeysAssumption DEF ByteStrings, Bytes
  <2>4. b \in Seq(Int)
    BY <2>2, UpperBoundTyped, Zenon DEF WindowKeyUpperBound
  <2> QED BY <2>2, <2>3, <2>4, PrefixShape, Zenon
<1> HIDE DEF p, a, b
<1>2. SUFFICES ASSUME NEW f \in ByteStrings, ~Less(f, p \o a), Less(f, p \o b)
               PROVE  HasPrefix(f, p)
  BY <1>2, Zenon DEF RangeCompositeBytes, encodeKey, Prefixed, KeysOwned, p, a, b
<1>3. Len(f) \in Nat /\ Len(p) \in Nat
  BY <1>1 DEF ByteStrings
<1>4. PICK i \in 1 .. Len(p \o b) :
        /\ i <= Len(f) + 1
        /\ \A j \in 1 .. i - 1 : f[j] = (p \o b)[j]
        /\ i <= Len(f) => f[i] < (p \o b)[i]
  BY <1>2, Zenon DEF Less
<1>5. i \in Int
  BY <1>1
<1>6. \A j \in 1 .. Len(p) : (p \o b)[j] = p[j] /\ (p \o a)[j] = p[j]
  BY <1>1
<1>7. Len(p) <= Len(p \o a)
  BY <1>1
<1>8. CASE i <= Len(p)
  <2>1. i \in 1 .. Len(p \o a)
    BY <1>8, <1>7, <1>5, <1>1, <1>4
  <2>2. /\ \A j \in 1 .. i - 1 : f[j] = (p \o a)[j]
        /\ i <= Len(f) => f[i] < (p \o a)[i]
    BY <1>8, <1>4, <1>6, <1>5, <1>3
  <2> QED BY <2>1, <2>2, <1>4, <1>2, Zenon DEF Less
<1>9. CASE i > Len(p)
  BY <1>9, <1>3, <1>4, <1>5, <1>6 DEF HasPrefix
<1> QED BY <1>8, <1>9, <1>3, <1>5

\* DeleteRangeBytes over the entries of one key.
LEMMA DeleteRangeStep ==
  ASSUME KeysOwned, NEW n \in Names, NEW k \in Keys,
         DeleteRangeBytes(n, WindowKeyLowerBound(k), WindowKeyUpperBound(k))
  PROVE  KeysOwned' /\ Unaffected
<1> DEFINE S == RangeCompositeBytes(n, WindowKeyLowerBound(k), WindowKeyUpperBound(k))
<1>1. PICK len \in 0 .. Cardinality(S) : \E order \in [1 .. len -> S] :
        /\ S = {order[i] : i \in 1 .. len}
        /\ collector' = [collector EXCEPT ![n] =
             @ \o [i \in 1 .. len |-> [key |-> order[i], val |-> Nil]]]
  BY Zenon DEF DeleteRangeBytes
<1>2. PICK order \in [1 .. len -> S] :
        /\ S = {order[i] : i \in 1 .. len}
        /\ collector' = [collector EXCEPT ![n] =
             @ \o [i \in 1 .. len |-> [key |-> order[i], val |-> Nil]]]
  BY <1>1, Zenon
<1>3. len \in Nat
  OBVIOUS
<1>4. changelog' = changelog /\ store' = store /\ DOMAIN data' = DOMAIN data \ S
      /\ \A f \in DOMAIN data \ S : data'[f] = data[f]
  BY Zenon DEF DeleteRangeBytes, Write, Without
<1>5. S \subseteq Prefixed(n)
  BY RangePrefixed, Zenon
<1> HIDE DEF S
<1> DEFINE muts == [i \in 1 .. len |-> [key |-> order[i], val |-> Nil]]
<1>6. muts \in Seq(OwnMutations(n)) /\ muts \in Seq(AnyMutation) /\ Len(muts) = len
  <2>1. ASSUME NEW i \in 1 .. len
        PROVE  /\ [key |-> order[i], val |-> Nil] \in OwnMutations(n)
               /\ [key |-> order[i], val |-> Nil] \in AnyMutation
    BY <1>5, Zenon DEF OwnMutations, AnyMutation, Prefixed
  <2> QED BY <2>1, <1>3
<1>7. collector' = [collector EXCEPT ![n] = @ \o muts]
  BY <1>2, Zenon
<1> HIDE DEF muts
<1>8. KeysOwned'
  BY <1>4, <1>6, <1>7 DEF KeysOwned
<1>9. collector'[n] = collector[n] => S = {}
  <2>1. collector[n] \in Seq(AnyMutation) /\ collector'[n] = collector[n] \o muts
    BY <1>7, Zenon DEF KeysOwned
  <2>2. Len(collector[n] \o muts) = Len(collector[n]) + len /\ Len(collector[n]) \in Nat
    BY <2>1, <1>6, SeqParts, ConcatParts, Zenon
  <2>3. collector'[n] = collector[n] => len = 0
    BY <2>1, <2>2, <1>3
  <2>4. len = 0 => S = {}
    BY <1>2
  <2> QED BY <2>3, <2>4, Zenon
<1>10. ASSUME NEW m \in Names, m # n \/ S = {} PROVE SameFor(m)
  BY <1>4, <1>5, <1>10, OnePrefix, Zenon DEF SameFor, Prefixed
<1> QED BY <1>8, <1>9, <1>10, Zenon DEF Unaffected

\* Replaying the changelog of a store writes its keys and its checkpoint.
LEMMA OpenStoreStep ==
  ASSUME KeysOwned, NEW n \in Names, OpenStore(n)
  PROVE  KeysOwned' /\ Unaffected
<1> DEFINE log == changelog[n]
           start == StartOffset(ReadCheckpoint(n))
           touched == {log[i].key : i \in {j \in DOMAIN log : j > start}}
<1>1. touched \subseteq Prefixed(n)
  <2>1. log \in Seq(OwnMutations(n))
    BY Zenon DEF KeysOwned
  <2>2. ASSUME NEW i \in DOMAIN log PROVE log[i].key \in Prefixed(n)
    <3>1. log[i] \in OwnMutations(n)
      BY <2>1
    <3> QED BY <3>1, Zenon DEF OwnMutations
  <2> QED BY <2>2, Zenon
<1>2. DOMAIN Applied(data, log, start) \subseteq DOMAIN data \cup touched
  BY Zenon DEF Applied
<1>3. ASSUME NEW k \in DOMAIN data, k \notin touched
      PROVE  k \in DOMAIN Applied(data, log, start)
             /\ Applied(data, log, start)[k] = data[k]
  BY <1>3, Zenon DEF Applied
<1> DEFINE restored == Applied(data, log, start)
<1> HIDE DEF restored, touched
<1>4. \/ data' = data
      \/ data' = restored
      \/ \E v : data' = With(restored, checkpointKey(n), v)
  BY Zenon DEF OpenStore, Restore, restored, log, start
<1>5. /\ DOMAIN data' \subseteq DOMAIN data \cup touched \cup {checkpointKey(n)}
      /\ \A k \in DOMAIN data : k \notin touched /\ k # checkpointKey(n)
           => k \in DOMAIN data' /\ data'[k] = data[k]
  BY <1>2, <1>3, <1>4, Zenon DEF With, restored
<1>6. store' = [store EXCEPT ![n] = "open"] /\ store[n] = "closed"
      /\ collector' = collector /\ changelog' = changelog
  BY Zenon DEF OpenStore
<1>7. KeysOwned'
  BY <1>1, <1>5, <1>6, MetaOutside, Zenon DEF KeysOwned, Prefixed
<1>8. store'[n] # store[n]
  BY <1>6, Zenon DEF KeysOwned
<1>9. ASSUME NEW m \in Names, m # n PROVE SameFor(m)
  BY <1>1, <1>5, <1>9, OnePrefix, MetaOutside, Zenon DEF SameFor, Prefixed
<1> QED BY <1>7, <1>8, <1>9, Zenon DEF Unaffected

\* closeTask writes the checkpoints, or clears the memory backend.
LEMMA CloseStep ==
  ASSUME KeysOwned, Close
  PROVE  KeysOwned' /\ Unaffected
<1>1. /\ store' = [n \in Names |-> "closed"]
      /\ \A n \in Names : store[n] = "open"
      /\ collector' = collector /\ changelog' = changelog
  BY Zenon DEF Close, Running
<1>2. DOMAIN data' \subseteq DOMAIN data \cup {checkpointKey(n) : n \in Names}
  BY Zenon DEF Close, NoData, Checkpointed
<1>3. {checkpointKey(n) : n \in Names} \subseteq ByteStrings
  BY MetaOutside, Zenon
<1>4. store' \in [Names -> {"closed", "open"}]
  BY <1>1, Zenon
<1>5. KeysOwned'
  BY <1>1, <1>2, <1>3, <1>4, Zenon DEF KeysOwned
<1> QED BY <1>1, <1>5, Zenon DEF Unaffected

\* A mutation another instance logs has the prefix of its store.
LEMMA ElsewhereStep ==
  ASSUME KeysOwned, NEW n \in Names, NEW e \in EntriesOf(n),
         NEW v \in Values \cup {Nil}, Elsewhere(n, e, v)
  PROVE  KeysOwned' /\ Unaffected
<1> DEFINE mut == [key |-> FullKey(n, e), val |-> Recorded(v)]
<1>1. FullKey(n, e) \in Prefixed(n)
  BY FullKeysPrefixed, Zenon DEF FullKey, EntriesOf
<1>2. mut \in OwnMutations(n) /\ mut \in AnyMutation
  BY <1>1, Zenon DEF OwnMutations, AnyMutation, Recorded, Prefixed
<1> HIDE DEF mut
<1>3. changelog' = [changelog EXCEPT ![n] = Append(@, mut)]
      /\ collector' = collector /\ data' = data /\ store' = store
  BY Zenon DEF Elsewhere, mut
<1>4. KeysOwned'
  BY <1>2, <1>3 DEF KeysOwned
<1> QED BY <1>3, <1>4, Zenon DEF Unaffected, SameFor

\* Draining moves what was collected to the changelog of the same store.
LEMMA DrainStep ==
  ASSUME KeysOwned, NEW n \in Names, DrainMutations(n)
  PROVE  KeysOwned' /\ Unaffected
<1>1. changelog' = [changelog EXCEPT ![n] = @ \o collector[n]]
      /\ collector' = [collector EXCEPT ![n] = <<>>] /\ data' = data /\ store' = store
  BY Zenon DEF DrainMutations
<1>2. KeysOwned'
  BY <1>1 DEF KeysOwned
<1> QED BY <1>1, <1>2, Zenon DEF Unaffected, SameFor

\* The stream time is kept under a key no store has.
LEMMA StreamTimeStep ==
  ASSUME KeysOwned, NEW t \in Times, WriteStreamTime(t)
  PROVE  KeysOwned' /\ Unaffected
<1>1. store' = store /\ collector' = collector /\ changelog' = changelog
  BY Zenon DEF WriteStreamTime
<1>2. DOMAIN data' \subseteq DOMAIN data \cup {streamTimeKey}
      /\ \A k \in DOMAIN data : k # streamTimeKey
           => k \in DOMAIN data' /\ data'[k] = data[k]
  BY Zenon DEF WriteStreamTime, With
<1>3. streamTimeKey \in ByteStrings
  BY ByteKeysAssumption DEF streamTimeKey, ByteStrings, Bytes
<1>4. KeysOwned'
  BY <1>1, <1>2, <1>3, Zenon DEF KeysOwned
<1>5. ASSUME NEW m \in Names PROVE SameFor(m)
  BY <1>2, MetaOutside, Zenon DEF SameFor, Prefixed
<1> QED BY <1>4, <1>5, Zenon DEF Unaffected

\* Every step keeps the invariant and leaves the stores it is not about alone.
LEMMA KeysOwnedStep ==
  ASSUME KeysOwned, [Next]_vars
  PROVE  KeysOwned' /\ Unaffected
<1>1. CASE Open \/ UNCHANGED vars
  BY <1>1, Zenon DEF Open, vars, KeysOwned, Unaffected, SameFor
<1>2. CASE Close
  BY <1>2, CloseStep, Zenon
<1>3. ASSUME NEW n \in Names, OpenStore(n) \/ DrainMutations(n)
      PROVE  KeysOwned' /\ Unaffected
  BY <1>3, OpenStoreStep, DrainStep, Zenon
<1>4. ASSUME NEW t \in Times, WriteStreamTime(t) PROVE KeysOwned' /\ Unaffected
  BY <1>4, StreamTimeStep, Zenon
<1>5. ASSUME NEW n \in Names, NEW k \in Keys, NEW v \in Values, Put(n, k, v)
      PROVE  KeysOwned' /\ Unaffected
  BY <1>5, FullKeysPrefixed, SetStep, Zenon DEF Put
<1>6. ASSUME NEW n \in Names, NEW k \in Keys, Delete(n, k)
      PROVE  KeysOwned' /\ Unaffected
  BY <1>6, FullKeysPrefixed, UnsetStep, Zenon DEF Delete
<1>7. ASSUME NEW n \in Names, NEW k \in Keys,
             DeleteRangeBytes(n, WindowKeyLowerBound(k), WindowKeyUpperBound(k))
      PROVE  KeysOwned' /\ Unaffected
  BY <1>7, DeleteRangeStep, Zenon
<1>8. ASSUME NEW n \in Names, NEW k \in Keys, NEW start \in Starts,
             \/ WindowDelete(n, k, start)
             \/ \E v \in Values : WindowPut(n, k, start, v)
      PROVE  KeysOwned' /\ Unaffected
  BY <1>8, FullKeysPrefixed, SetStep, UnsetStep, Zenon DEF WindowDelete, WindowPut
<1>9. ASSUME NEW n \in Names, NEW e \in EntriesOf(n), NEW v \in Values \cup {Nil},
             Elsewhere(n, e, v)
      PROVE  KeysOwned' /\ Unaffected
  BY <1>9, ElsewhereStep, Zenon
<1>10. WindowNames \subseteq Names
  BY StoreAssumption, Zenon
<1> QED
  BY <1>1, <1>2, <1>3, <1>4, <1>5, <1>6, <1>7, <1>8, <1>9, <1>10, Zenon DEF Next

\* In every behaviour all that a store collected or logged has its prefix.
THEOREM KeysStayOwned == Spec => []KeysOwned
<1>1. Init => KeysOwned
  BY DEF Init, KeysOwned, NoData
<1>2. KeysOwned /\ [Next]_vars => KeysOwned'
  BY KeysOwnedStep, Zenon
<1> QED BY <1>1, <1>2, PTL DEF Spec

\* "two KeyValueStore instances sharing the same *pebble.DB cannot interfere",
\* for both backends, whatever the names, the keys, the values and the widths.
THEOREM StoresStayApart == Spec => StoresApart
<1>1. KeysOwned /\ [Next]_vars /\ KeysOwned' =>
        [\A n \in Names :
           store'[n] = store[n] /\ collector'[n] = collector[n]
             => Visible(n)' = Visible(n)]_vars
  BY KeysOwnedStep, UnaffectedVisible, Zenon DEF Unaffected
<1> QED BY <1>1, KeysStayOwned, PTL DEF Spec, StoresApart

-----------------------------------------------------------------------------
(* Numbers as bytes.                                                       *)

\* Quotient and remainder.
LEMMA Division ==
  ASSUME NEW a \in Int, NEW b \in Nat \ {0}
  PROVE  /\ a \div b \in Int /\ a % b \in 0 .. b - 1
         /\ a = (a \div b) * b + (a % b)
OBVIOUS

\* A quotient of natural numbers is one.
LEMMA NatQuotient ==
  ASSUME NEW a \in Nat, NEW b \in Nat \ {0}
  PROVE  a \div b \in Nat
OBVIOUS

\* There is only one quotient.
LEMMA OneQuotient ==
  ASSUME NEW a \in Int, NEW b \in Nat \ {0}, NEW q \in Int, NEW r \in 0 .. b - 1,
         a = q * b + r
  PROVE  a \div b = q
<1> DEFINE p == a \div b
           s == a % b
<1>1. p \in Int /\ s \in 0 .. b - 1 /\ a = p * b + s
  BY Division, Zenon
<1> HIDE DEF p, s
<1>2. CASE p < q
  <2>1. (p + 1) * b <= q * b /\ (p + 1) * b = p * b + b
    BY <1>1, <1>2
  <2>2. p * b \in Int /\ q * b \in Int
    BY <1>1
  <2> QED BY <1>1, <2>1, <2>2
<1>3. CASE q < p
  <2>1. (q + 1) * b <= p * b /\ (q + 1) * b = q * b + b
    BY <1>1, <1>3
  <2>2. p * b \in Int /\ q * b \in Int
    BY <1>1
  <2> QED BY <1>1, <2>1, <2>2
<1> QED BY <1>1, <1>2, <1>3 DEF p

\* One digit more: dividing by b less often.
LEMMA NextDigit ==
  ASSUME NEW u \in Nat, NEW q \in Nat \ {0}, NEW b \in Nat \ {0}
  PROVE  /\ b * q \in Nat \ {0}
         /\ u \div q = (u \div (b * q)) * b + ((u \div q) % b)
<1> DEFINE x == u \div q
           r == u % q
           y == x \div b
           s == x % b
<1>0. x \in Nat
  BY NatQuotient, Zenon
<1>1. x \in Nat /\ r \in 0 .. q - 1 /\ u = x * q + r
  BY <1>0, Division
<1> HIDE DEF x, r
<1>2. y \in Nat /\ s \in 0 .. b - 1 /\ x = y * b + s
  <2>1. y \in Nat
    BY <1>0, NatQuotient, Zenon
  <2>2. s \in 0 .. b - 1 /\ x = y * b + s
    BY <1>0, Division
  <2> QED BY <2>1, <2>2, Zenon
<1> HIDE DEF y, s
<1>3. b * q \in Nat \ {0}
  OBVIOUS
<1>4. s * q \in Nat /\ s * q <= (b - 1) * q /\ (b - 1) * q = b * q - q
  BY <1>2
<1>5. u = y * (b * q) + (s * q + r)
  BY <1>1, <1>2
<1>6. s * q + r \in 0 .. b * q - 1
  BY <1>1, <1>3, <1>4
<1>7. u \div (b * q) = y
  BY <1>2, <1>3, <1>5, <1>6, OneQuotient
<1> QED BY <1>2, <1>3, <1>7, Zenon DEF x, s

\* Numbers with equal leading digits and an equal next digit.
LEMMA SameDigits ==
  ASSUME NEW u \in Nat, NEW v \in Nat, NEW q \in Nat \ {0}, NEW b \in Nat \ {0}
  PROVE  u \div (b * q) = v \div (b * q) /\ (u \div q) % b = (v \div q) % b
           => u \div q = v \div q
<1>1. u \div q = (u \div (b * q)) * b + ((u \div q) % b)
  BY NextDigit, Zenon
<1>2. v \div q = (v \div (b * q)) * b + ((v \div q) % b)
  BY NextDigit, Zenon
<1> QED BY <1>1, <1>2, Zenon

\* Numbers below Base ^ width have different bytes.
LEMMA BigEndianInjective ==
  ASSUME NEW w \in Widths, NEW u \in Nat, NEW v \in Nat,
         u < Base ^ w, v < Base ^ w, BigEndian(u, w) = BigEndian(v, w)
  PROVE  u = v
<1>1. /\ w \in Nat \ {0} /\ w <= LenWidth + TimeWidth
      /\ LenWidth \in Nat /\ TimeWidth \in Nat
  BY Powers DEF Widths
<1> DEFINE Q(i) == Base ^ (w + 1 - i)
           D == {i \in 1 .. w + 1 : u \div Q(i) # v \div Q(i)}
<1>2. \A i \in 1 .. w + 1 : Q(i) \in Nat \ {0}
  <2>1. \A i \in 1 .. w + 1 : w + 1 - i \in 0 .. LenWidth + TimeWidth
    BY <1>1
  <2> QED BY <2>1, Powers, Zenon
<1>3. \A i \in 2 .. w + 1 : Q(i - 1) = Base * Q(i)
  <2>1. ASSUME NEW i \in 2 .. w + 1
        PROVE  /\ w + 1 - i \in 0 .. LenWidth + TimeWidth - 1
               /\ w + 1 - (i - 1) = (w + 1 - i) + 1
    <3>1. i \in Nat /\ 2 <= i /\ i <= w + 1
      BY <1>1
    <3>2. w + 1 - i \in 0 .. LenWidth + TimeWidth - 1
      BY <1>1, <3>1
    <3>3. w + 1 - (i - 1) = (w + 1 - i) + 1
      BY <1>1, <3>1
    <3> QED BY <3>2, <3>3, Zenon
  <2> QED BY <2>1, Powers, Zenon
<1>4. \A i \in 2 .. w + 1 : (u \div Q(i)) % Base = (v \div Q(i)) % Base
  <2> TAKE i \in 2 .. w + 1
  <2>1. i - 1 \in 1 .. w /\ w - (i - 1) = w + 1 - i
    BY <1>1
  <2>2. /\ BigEndian(u, w)[i - 1] = (u \div Q(i)) % Base
        /\ BigEndian(v, w)[i - 1] = (v \div Q(i)) % Base
    BY <2>1, Zenon DEF BigEndian
  <2> QED BY <2>2, Zenon
<1>5. Q(1) = Base ^ w /\ Q(w + 1) = 1
  <2>1. w + 1 - 1 = w /\ w + 1 - (w + 1) = 0
    BY <1>1
  <2> QED BY <2>1, Powers, Zenon
<1> HIDE DEF Q
<1>6. u \div Q(1) = 0 /\ v \div Q(1) = 0
  <2>1. PICK q \in Nat \ {0} : q = Q(1)
    BY <1>1, <1>2
  <2>2. u = 0 * q + u /\ v = 0 * q + v /\ u \in 0 .. q - 1 /\ v \in 0 .. q - 1
    BY <1>5, <2>1
  <2>3. u \div q = 0 /\ v \div q = 0
    BY <2>2, OneQuotient
  <2> QED BY <2>1, <2>3, Zenon
<1>7. u \div Q(w + 1) = u /\ v \div Q(w + 1) = v
  BY <1>5
<1>8. SUFFICES ASSUME u # v PROVE FALSE
  BY Zenon
<1>9. D \in SUBSET (1 .. w + 1) /\ D # {} /\ w + 1 \in Nat
  BY <1>1, <1>7, <1>8
<1>10. PICK f \in D : \A x \in D : f <= x
  BY <1>9, HasFirst, Zenon
<1>11. f \in 2 .. w + 1 /\ u \div Q(f) # v \div Q(f)
  <2>1. f \in 1 .. w + 1 /\ u \div Q(f) # v \div Q(f)
    BY Zenon
  <2>2. f # 1
    BY <1>6, <2>1, Zenon
  <2> QED BY <1>1, <2>1, <2>2
<1>12. u \div Q(f - 1) = v \div Q(f - 1)
  <2>1. f - 1 \in 1 .. w + 1 /\ ~(f <= f - 1)
    BY <1>1, <1>11
  <2> QED BY <1>10, <2>1, Zenon
<1>13. PICK q \in Nat \ {0} : q = Q(f) /\ Q(f - 1) = Base * q
  BY <1>1, <1>2, <1>3, <1>11, Zenon
<1>14. Base \in Nat \ {0}
  BY Powers, Zenon
<1>15. (u \div q) % Base = (v \div q) % Base
  BY <1>4, <1>11, <1>13, Zenon
<1>16. u \div (Base * q) = v \div (Base * q)
  BY <1>12, <1>13, Zenon
<1>17. u \div q = v \div q
  BY <1>14, <1>15, <1>16, SameDigits, Zenon
<1> QED BY <1>11, <1>13, <1>17, Zenon

\* ReadCheckpoint, ReadStreamTime and DecodeWindowCompositeKey read back the
\* int64 that was written, negative ones included.
LEMMA SignedTime ==
  ASSUME NEW t \in Int, -MaxInt64 - 1 <= t, t <= MaxInt64
  PROVE  Signed(BigEndian(t % Base ^ TimeWidth, TimeWidth)) = t
<1>1. PICK all \in Nat \ {0} : all = Base ^ TimeWidth /\ all = 2 * (MaxInt64 + 1)
  BY Powers, StoreAssumption, MaxInt64Assumption
<1>2. PICK u \in 0 .. all - 1 : u = t % all
  BY <1>1
<1>3. PICK b : b = BigEndian(u, TimeWidth)
  BY Zenon
<1>4. Len(b) = TimeWidth
  BY <1>3, Powers, BigEndianTyped
<1>5. ASSUME NEW v \in 0 .. all - 1 PROVE BigEndian(v, TimeWidth) = b <=> v = u
  <2>1. u \in Nat /\ v \in Nat /\ u < Base ^ TimeWidth /\ v < Base ^ TimeWidth
    BY <1>1, <1>2
  <2>2. TimeWidth \in Widths
    BY Powers, Zenon
  <2> QED BY <1>3, <2>1, <2>2, BigEndianInjective, Zenon
<1>6. (CHOOSE v \in 0 .. Base ^ Len(b) - 1 : BigEndian(v, Len(b)) = b) = u
  <2>1. \A v \in 0 .. Base ^ Len(b) - 1 : BigEndian(v, Len(b)) = b <=> v = u
    BY <1>1, <1>4, <1>5, Zenon
  <2>2. u \in 0 .. Base ^ Len(b) - 1
    BY <1>1, <1>4, Zenon
  <2> QED BY <2>1, <2>2, Zenon
<1>7. Signed(b) = IF 2 * u < all THEN u ELSE u - all
  <2>1. all = Base ^ Len(b)
    BY <1>1, <1>4, Zenon
  <2> DEFINE c == CHOOSE v \in 0 .. Base ^ Len(b) - 1 : BigEndian(v, Len(b)) = b
  <2>2. Signed(b) = IF 2 * c < Base ^ Len(b) THEN c ELSE c - Base ^ Len(b)
    BY Zenon DEF Signed
  <2>3. c = u
    BY <1>6, Zenon
  <2> HIDE DEF c
  <2> QED BY <2>1, <2>2, <2>3, Zenon
<1>8. Signed(b) = t
  <2>1. MaxInt64 \in Nat
    BY MaxInt64Assumption, Zenon
  <2>2. CASE t >= 0
    <3>1. u = t
      BY <1>1, <1>2, <2>1, <2>2
    <3> QED BY <1>1, <1>7, <2>1, <2>2, <3>1
  <2>3. CASE t < 0
    <3>1. t + all \in 0 .. all - 1 /\ t = -1 * all + (t + all)
      BY <1>1, <2>1, <2>3
    <3>2. u = t + all
      <4>1. t \div all = -1
        BY <3>1, OneQuotient
      <4>2. t = (t \div all) * all + (t % all)
        BY Division, Zenon
      <4> QED BY <1>2, <3>1, <4>1, <4>2
    <3> QED BY <1>1, <1>7, <2>1, <2>3, <3>2
  <2> QED BY <2>2, <2>3
<1> QED BY <1>1, <1>2, <1>3, <1>8, Zenon

\* An offset or a stream time, which is not negative, is encoded as it is.
LEMMA SignedOffset ==
  ASSUME NEW t \in 0 .. MaxInt64
  PROVE  Signed(BigEndian(t, TimeWidth)) = t
<1>1. PICK all \in Nat \ {0} : all = Base ^ TimeWidth /\ all = 2 * (MaxInt64 + 1)
  BY Powers, StoreAssumption, MaxInt64Assumption
<1>2. t \in Int /\ -MaxInt64 - 1 <= t /\ t <= MaxInt64 /\ t % all = t
  BY <1>1, MaxInt64Assumption
<1> QED BY <1>1, <1>2, SignedTime, Zenon
-----------------------------------------------------------------------------
(* Entries and their keys.                                                 *)

\* The two parts of a byte string.
LEMMA Parts ==
  ASSUME NEW s \in ByteStrings, NEW t \in ByteStrings
  PROVE  /\ SubSeq(s \o t, 1, Len(s)) = s
         /\ SubSeq(s \o t, Len(s) + 1, Len(s \o t)) = t
         /\ Len(s) \in Nat /\ Len(t) \in Nat /\ Len(s \o t) = Len(s) + Len(t)
<1>1. s \in Seq(Bytes) /\ t \in Seq(Bytes)
  BY Zenon DEF ByteStrings
<1>2. s \o t \in Seq(Bytes) /\ Len(s \o t) = Len(s) + Len(t)
      /\ Len(s) \in Nat /\ Len(t) \in Nat
  BY <1>1
<1>3. /\ \A i \in 1 .. Len(s) : (s \o t)[i] = s[i]
      /\ \A i \in 1 .. Len(t) : (s \o t)[Len(s) + i] = t[i]
  BY <1>1
<1> DEFINE c == s \o t
<1> HIDE DEF c
<1>4. SubSeq(c, 1, Len(s)) = s
  <2>1. SubSeq(c, 1, Len(s)) \in Seq(Bytes) /\ Len(SubSeq(c, 1, Len(s))) = Len(s)
        /\ \A i \in 1 .. Len(s) : SubSeq(c, 1, Len(s))[i] = c[i]
    BY <1>2 DEF c
  <2> QED BY <1>1, <1>3, <2>1 DEF c
<1>5. SubSeq(c, Len(s) + 1, Len(c)) = t
  <2> DEFINE d == SubSeq(c, Len(s) + 1, Len(c))
  <2>1. d \in Seq(Bytes) /\ Len(d) = Len(t)
        /\ \A i \in 1 .. Len(t) : d[i] = c[Len(s) + i]
    BY <1>2 DEF c
  <2> HIDE DEF d
  <2>2. d = t
    BY <1>1, <1>3, <2>1 DEF c
  <2> QED BY <2>2, Zenon DEF d
<1> QED BY <1>2, <1>4, <1>5, Zenon DEF c

\* What is between the first and the last part of a byte string.
LEMMA MiddlePart ==
  ASSUME NEW s \in ByteStrings, NEW m \in ByteStrings, NEW t \in ByteStrings
  PROVE  SubSeq((s \o m) \o t, Len(s) + 1, Len((s \o m) \o t) - Len(t)) = m
<1>1. s \in Seq(Bytes) /\ m \in Seq(Bytes) /\ t \in Seq(Bytes)
  BY Zenon DEF ByteStrings
<1> DEFINE h == s \o m
<1>2. h \in ByteStrings /\ Len(h) = Len(s) + Len(m) /\ Len(s) \in Nat /\ Len(m) \in Nat
  BY <1>1 DEF ByteStrings
<1>3. SubSeq(h, Len(s) + 1, Len(h)) = m
  BY Parts, Zenon
<1> HIDE DEF h
<1> DEFINE c == h \o t
<1>4. c \in Seq(Bytes) /\ Len(c) = Len(h) + Len(t) /\ Len(t) \in Nat
      /\ \A i \in 1 .. Len(h) : c[i] = h[i]
  <2>1. h \in Seq(Bytes)
    BY <1>2, Zenon DEF ByteStrings
  <2> QED BY <1>1, <2>1
<1> HIDE DEF c
<1>5. Len(c) - Len(t) = Len(h)
  BY <1>2, <1>4
<1>6. SubSeq(c, Len(s) + 1, Len(h)) = SubSeq(h, Len(s) + 1, Len(h))
  <2> DEFINE x == SubSeq(c, Len(s) + 1, Len(h))
             y == SubSeq(h, Len(s) + 1, Len(h))
  <2>1. x \in Seq(Bytes) /\ Len(x) = Len(m)
        /\ \A i \in 1 .. Len(m) : x[i] = c[Len(s) + i]
    BY <1>2, <1>4
  <2>2. y \in Seq(Bytes) /\ Len(y) = Len(m)
        /\ \A i \in 1 .. Len(m) : y[i] = h[Len(s) + i]
    BY <1>2 DEF ByteStrings
  <2>3. \A i \in 1 .. Len(m) : Len(s) + i \in 1 .. Len(h)
    BY <1>2
  <2> HIDE DEF x, y
  <2>4. x = y
    BY <1>4, <2>1, <2>2, <2>3
  <2> QED BY <2>4, Zenon DEF x, y
<1> QED BY <1>3, <1>5, <1>6, Zenon DEF h, c

\* The time at the end of a composite key.
TimeBytes(start) == BigEndian(start % Base ^ TimeWidth, TimeWidth)

\* uint64(start) in big-endian order is TimeWidth bytes, also for a negative
\* start.
LEMMA TimeTyped ==
  ASSUME NEW start \in Int
  PROVE  TimeBytes(start) \in ByteStrings /\ Len(TimeBytes(start)) = TimeWidth
<1>1. start % Base ^ TimeWidth \in Int
  <2>1. PICK q \in Nat \ {0} : q = Base ^ TimeWidth
    BY Powers
  <2>2. start % q \in Int
    OBVIOUS
  <2> QED BY <2>1, <2>2, Zenon
<1> QED BY <1>1, Powers, BigEndianTyped, Zenon DEF TimeBytes, ByteStrings

\* What is known of a key.
LEMMA KeyTyped ==
  ASSUME NEW k \in Keys
  PROVE  /\ k \in ByteStrings /\ Len(k) \in Nat
         /\ BigEndian(Len(k), LenWidth) \in ByteStrings
         /\ Len(BigEndian(Len(k), LenWidth)) = LenWidth
<1>1. k \in ByteStrings /\ Len(k) \in Nat
  BY StoreAssumption DEF ByteStrings
<1> QED BY <1>1, Powers, BigEndianTyped DEF ByteStrings

\* DecodeWindowCompositeKey reads back what EncodeWindowCompositeKey wrote.
LEMMA CompositeBack ==
  ASSUME NEW k \in Keys, NEW start \in Starts
  PROVE  DecodeWindowCompositeKey(CompositeKey(k, start)) = <<k, start>>
<1> DEFINE b == BigEndian(Len(k), LenWidth)
           t == TimeBytes(start)
<1>1. start \in Int /\ -MaxInt64 - 1 <= start /\ start <= MaxInt64
  BY StoreAssumption, MaxInt64Assumption
<1>2. b \in ByteStrings /\ k \in ByteStrings /\ Len(b) = LenWidth
  BY KeyTyped, Zenon
<1>3. t \in ByteStrings /\ Len(t) = TimeWidth
  BY <1>1, TimeTyped, Zenon
<1>4. Signed(t) = start
  BY <1>1, SignedTime, Zenon DEF TimeBytes
<1>5. CompositeKey(k, start) = (b \o k) \o t
  BY Zenon DEF CompositeKey, LengthPrefixed, TimeBytes
<1> HIDE DEF b, t
<1> DEFINE raw == (b \o k) \o t
<1>6. SubSeq(raw, LenWidth + 1, Len(raw) - TimeWidth) = k
  BY <1>2, <1>3, MiddlePart, Zenon
<1>7. SubSeq(raw, Len(raw) - TimeWidth + 1, Len(raw)) = t
  <2>1. b \o k \in ByteStrings
    BY <1>2 DEF ByteStrings
  <2>2. /\ SubSeq(raw, Len(b \o k) + 1, Len(raw)) = t
        /\ Len(raw) = Len(b \o k) + TimeWidth
        /\ Len(b \o k) \in Nat /\ TimeWidth \in Nat
    BY <2>1, <1>3, Parts, Zenon
  <2>3. Len(raw) - TimeWidth + 1 = Len(b \o k) + 1
    BY <2>2
  <2> QED BY <2>2, <2>3, Zenon
<1> HIDE DEF raw
<1> QED BY <1>4, <1>5, <1>6, <1>7, Zenon DEF DecodeWindowCompositeKey, raw

\* The keys a store has, and the entry each of them stands for.
FullKeys(n) == {FullKey(n, e) : e \in EntriesOf(n)}

\* parseKey and decodeKey of a stored key give the entry it was written for, so
\* the full keys of a store are one per entry and begin with its prefix.
LEMMA EntryBack ==
  ASSUME NEW n \in Names, NEW e \in EntriesOf(n)
  PROVE  FullKey(n, e) \in Prefixed(n) /\ EntryOf(n, FullKey(n, e)) = e
<1>1. ASSUME NEW k \in ByteStrings PROVE Suffix(n, Prefix(n) \o k) = k
  BY PrefixShape, Parts, Zenon DEF Suffix
<1>2. CASE n \in WindowNames
  <2>1. PICK k \in Keys, start \in Starts : e = <<k, start>>
    BY <1>2 DEF EntriesOf
  <2>2. FullKey(n, e) = Prefix(n) \o CompositeKey(k, start)
    BY <1>2, <2>1, Zenon DEF FullKey, WindowKey
  <2>3. CompositeKey(k, start) \in ByteStrings
    <3>1. start \in Int
      BY StoreAssumption
    <3> QED BY <3>1, KeyTyped, CompositeTyped, Zenon
  <2>4. Suffix(n, FullKey(n, e)) = CompositeKey(k, start)
    BY <1>1, <2>2, <2>3, Zenon
  <2>5. FullKey(n, e) \in Prefixed(n)
    BY <2>2, FullKeysPrefixed, Zenon DEF WindowKey
  <2> QED BY <1>2, <2>1, <2>4, <2>5, CompositeBack, Zenon DEF EntryOf
<1>3. CASE n \notin WindowNames
  <2>1. e \in Keys /\ FullKey(n, e) = Prefix(n) \o e
    BY <1>3, Zenon DEF EntriesOf, FullKey, encodeKey
  <2>2. FullKey(n, e) \in Prefixed(n)
    BY <2>1, FullKeysPrefixed, Zenon DEF encodeKey
  <2>3. Suffix(n, FullKey(n, e)) = e
    BY <1>1, <2>1, KeyTyped, Zenon
  <2> QED BY <1>3, <2>2, <2>3, Zenon DEF EntryOf
<1> QED BY <1>2, <1>3, Zenon

\* Different entries have different keys.
LEMMA OneEntry ==
  ASSUME NEW n \in Names, NEW e \in EntriesOf(n), NEW d \in EntriesOf(n),
         FullKey(n, e) = FullKey(n, d)
  PROVE  e = d
BY EntryBack, Zenon

-----------------------------------------------------------------------------
(* Scans of one key.                                                       *)

\* What comes after a common prefix decides the order.
LEMMA LessShift ==
  ASSUME NEW p \in Seq(Int), NEW a \in Seq(Int), NEW b \in Seq(Int)
  PROVE  Less(p \o a, p \o b) <=> Less(a, b)
<1> DEFINE x == p \o a
           y == p \o b
<1>1. /\ Len(p) \in Nat /\ Len(a) \in Nat /\ Len(b) \in Nat
      /\ Len(x) = Len(p) + Len(a) /\ Len(y) = Len(p) + Len(b)
  OBVIOUS
<1>2. /\ \A i \in 1 .. Len(p) : x[i] = p[i] /\ y[i] = p[i] /\ p[i] \in Int
      /\ \A i \in 1 .. Len(a) : x[Len(p) + i] = a[i]
      /\ \A i \in 1 .. Len(b) : y[Len(p) + i] = b[i]
  OBVIOUS
<1> HIDE DEF x, y
<1>3. ASSUME Less(x, y) PROVE Less(a, b)
  <2>1. PICK i \in 1 .. Len(y) : /\ i <= Len(x) + 1
                                 /\ \A j \in 1 .. i - 1 : x[j] = y[j]
                                 /\ i <= Len(x) => x[i] < y[i]
    BY <1>3, Zenon DEF Less
  <2>2. i \in Int /\ i > Len(p)
    <3>1. i \in Int /\ 1 <= i
      BY <1>1
    <3>2. CASE i <= Len(p)
      <4>1. i \in 1 .. Len(p) /\ i <= Len(x)
        BY <1>1, <3>1, <3>2
      <4>2. x[i] = p[i] /\ y[i] = p[i] /\ p[i] \in Int
        BY <4>1, <1>2, Zenon
      <4>3. x[i] < y[i]
        BY <4>1, <2>1, Zenon
      <4> QED BY <4>2, <4>3
    <3> QED BY <1>1, <3>1, <3>2
  <2>3. PICK d \in 1 .. Len(b) : i = Len(p) + d
    <3>1. i - Len(p) \in 1 .. Len(b) /\ i = Len(p) + (i - Len(p))
      BY <1>1, <2>1, <2>2
    <3> QED BY <3>1, Zenon
  <2>4. d <= Len(a) + 1 /\ (d <= Len(a) => a[d] < b[d])
    BY <1>1, <1>2, <2>1, <2>3
  <2>5. ASSUME NEW j \in 1 .. d - 1 PROVE a[j] = b[j]
    <3>1. j \in 1 .. Len(a) /\ j \in 1 .. Len(b) /\ Len(p) + j \in 1 .. i - 1
      <4>1. /\ Len(p) \in Nat /\ Len(a) \in Nat /\ Len(b) \in Nat
            /\ i = Len(p) + d /\ d <= Len(a) + 1
        BY <1>1, <2>3, <2>4, Zenon
      <4> QED BY <4>1
    <3> QED BY <3>1, <1>2, <2>1, Zenon
  <2> QED BY <2>4, <2>5, Zenon DEF Less
<1>4. ASSUME Less(a, b) PROVE Less(x, y)
  <2>1. PICK d \in 1 .. Len(b) : /\ d <= Len(a) + 1
                                 /\ \A j \in 1 .. d - 1 : a[j] = b[j]
                                 /\ d <= Len(a) => a[d] < b[d]
    BY <1>4, Zenon DEF Less
  <2>2. PICK i \in 1 .. Len(y) : i = Len(p) + d
    <3>1. Len(p) + d \in 1 .. Len(y)
      BY <1>1
    <3> QED BY <3>1, Zenon
  <2>3. i <= Len(x) + 1 /\ (i <= Len(x) => x[i] < y[i])
    BY <1>1, <1>2, <2>1, <2>2
  <2>4. ASSUME NEW j \in 1 .. i - 1 PROVE x[j] = y[j]
    <3>1. CASE j <= Len(p)
      BY <1>1, <1>2, <3>1
    <3>2. CASE j > Len(p)
      <4>1. PICK l \in 1 .. d - 1 : j = Len(p) + l
        <5>1. j - Len(p) \in 1 .. d - 1 /\ j = Len(p) + (j - Len(p))
          BY <1>1, <2>2, <3>2
        <5> QED BY <5>1, Zenon
      <4>2. l \in 1 .. Len(a) /\ l \in 1 .. Len(b)
        <5>1. Len(a) \in Nat /\ Len(b) \in Nat /\ d <= Len(a) + 1
          BY <1>1, <2>1, Zenon
        <5> QED BY <5>1
      <4> QED BY <4>1, <4>2, <1>2, <2>1, Zenon
    <3> QED BY <3>1, <3>2, <1>1, <2>2
  <2> QED BY <2>3, <2>4, Zenon DEF Less
<1> QED BY <1>3, <1>4, Zenon DEF x, y

\* What is below a byte string is below the longer ones.
LEMMA LessLonger ==
  ASSUME NEW f \in Seq(Int), NEW p \in Seq(Int), NEW t \in Seq(Int), Less(f, p)
  PROVE  Less(f, p \o t)
<1> DEFINE y == p \o t
<1>1. /\ Len(p) \in Nat /\ Len(f) \in Nat /\ Len(y) \in Nat /\ Len(p) <= Len(y)
      /\ \A i \in 1 .. Len(p) : y[i] = p[i]
  OBVIOUS
<1> HIDE DEF y
<1>2. PICK i \in 1 .. Len(p) : /\ i <= Len(f) + 1
                               /\ \A j \in 1 .. i - 1 : f[j] = p[j]
                               /\ i <= Len(f) => f[i] < p[i]
  BY Zenon DEF Less
<1>3. i \in 1 .. Len(y) /\ \A j \in 1 .. i - 1 : j \in 1 .. Len(p)
  BY <1>1
<1>4. Less(f, y)
  BY <1>1, <1>2, <1>3, Zenon DEF Less
<1> QED BY <1>4, Zenon DEF y

\* A byte string with a byte below 0xff has a bound.
LEMMA HasBound ==
  ASSUME NEW p \in ByteStrings, NEW l \in 1 .. Len(p), p[l] # ByteMax
  PROVE  prefixUpperBound(p) # <<>>
<1> DEFINE S == {i \in 1 .. Len(p) : p[i] # ByteMax}
           i == CHOOSE j \in S : \A m \in S : m <= j
<1>1. S # {}
  BY Zenon
<1>2. prefixUpperBound(p) = SubSeq(p, 1, i - 1) \o <<p[i] + 1>>
  BY <1>1, Zenon DEF prefixUpperBound
<1>3. i \in S
  <2>1. Len(p) \in Nat /\ S \in SUBSET (1 .. Len(p))
    BY DEF ByteStrings
  <2>2. \E m \in S : IsLast(S, m)
    BY <1>1, <2>1, HasLast, Zenon
  <2> QED BY <2>2, Zenon DEF IsLast
<1> HIDE DEF i
<1>4. p \in Seq(Int) /\ i \in 1 .. Len(p)
  BY <1>3, ByteKeysAssumption DEF ByteStrings, Bytes
<1>5. SubSeq(p, 1, i - 1) \in Seq(Int) /\ p[i] + 1 \in Int
  BY <1>4
<1>6. SubSeq(p, 1, i - 1) \o <<p[i] + 1>> # <<>>
  BY <1>5
<1> QED BY <1>2, <1>6, Zenon

\* A length prefix tells the lengths of keys apart, and its first byte is
\* below 0xff.
LEMMA LengthBytes ==
  ASSUME NEW k \in Keys
  PROVE  /\ Len(k) \in Nat /\ Len(k) < Base ^ LenWidth
         /\ BigEndian(Len(k), LenWidth)[1] # ByteMax
<1>1. PICK q \in Nat \ {0} : q = Base ^ (LenWidth - 1) /\ Base ^ LenWidth = Base * q
  <2>1. LenWidth - 1 \in 0 .. LenWidth + TimeWidth - 1 /\ (LenWidth - 1) + 1 = LenWidth
        /\ LenWidth - 1 \in 0 .. LenWidth + TimeWidth
    BY Powers DEF Widths
  <2>2. Base ^ (LenWidth - 1) \in Nat \ {0}
    BY <2>1, Powers, Zenon
  <2>3. Base ^ ((LenWidth - 1) + 1) = Base * Base ^ (LenWidth - 1)
    BY <2>1, Powers, Zenon
  <2> QED BY <2>1, <2>2, <2>3, Zenon
<1>2. PICK x \in Nat : x = Len(k) /\ x < ByteMax * q
  BY <1>1, KeyTyped, StoreAssumption, Zenon
<1>3. ByteMax \in Nat \ {0} /\ Base = ByteMax + 1
  BY ByteKeysAssumption, Zenon DEF Base
<1>4. x < Base * q
  <2>1. Base * q = ByteMax * q + q /\ ByteMax * q \in Nat
    BY <1>3
  <2> QED BY <1>2, <2>1
<1>5. x \div q \in 0 .. ByteMax - 1
  <2> DEFINE d == x \div q
             r == x % q
  <2>1. d \in Nat
    BY NatQuotient, Zenon
  <2>2. d \in Nat /\ r \in 0 .. q - 1 /\ x = d * q + r
    BY <2>1, Division
  <2> HIDE DEF d, r
  <2>3. CASE d >= ByteMax
    <3>1. d * q >= ByteMax * q /\ d * q \in Nat /\ ByteMax * q \in Nat
      BY <1>3, <2>2, <2>3
    <3> QED BY <1>2, <2>2, <3>1
  <2>4. d \in 0 .. ByteMax - 1
    BY <1>3, <2>2, <2>3
  <2> QED BY <2>4, Zenon DEF d
<1>6. (x \div q) % Base # ByteMax
  <2>1. PICK d \in 0 .. ByteMax - 1 : d = x \div q
    BY <1>5, Zenon
  <2>2. d % Base = d
    BY <1>3
  <2> QED BY <1>3, <2>1, <2>2
<1>7. BigEndian(Len(k), LenWidth)[1] = (x \div q) % Base
  <2>1. 1 \in 1 .. LenWidth
    BY Powers DEF Widths
  <2> QED BY <1>1, <1>2, <2>1, Zenon DEF BigEndian
<1> QED BY <1>1, <1>2, <1>4, <1>6, <1>7, Zenon

\* Keys with the same length prefix have the same length.
LEMMA OneLength ==
  ASSUME NEW k \in Keys, NEW l \in Keys,
         BigEndian(Len(k), LenWidth) = BigEndian(Len(l), LenWidth)
  PROVE  Len(k) = Len(l)
BY LengthBytes, Powers, BigEndianInjective, Zenon

\* The places of a concatenation.
LEMMA ConcatAt ==
  ASSUME NEW S, NEW s \in Seq(S), NEW t \in Seq(S)
  PROVE  /\ s \o t \in Seq(S) /\ Len(s) \in Nat /\ Len(t) \in Nat
         /\ Len(s \o t) = Len(s) + Len(t)
         /\ \A i \in 1 .. Len(s) : (s \o t)[i] = s[i]
         /\ \A i \in 1 .. Len(t) : (s \o t)[Len(s) + i] = t[i]
OBVIOUS

\* A composite key begins with the length and the bytes of one key only.
LEMMA OneComposite ==
  ASSUME NEW k \in Keys, NEW l \in Keys, NEW t \in ByteStrings
  PROVE  HasPrefix(LengthPrefixed(l) \o t, LengthPrefixed(k)) <=> l = k
<1> DEFINE a == BigEndian(Len(k), LenWidth)
           b == BigEndian(Len(l), LenWidth)
           x == LengthPrefixed(k)
           y == LengthPrefixed(l)
<1>1. /\ a \in Seq(Bytes) /\ b \in Seq(Bytes) /\ Len(a) = LenWidth /\ Len(b) = LenWidth
      /\ k \in Seq(Bytes) /\ l \in Seq(Bytes) /\ t \in Seq(Bytes)
      /\ LenWidth \in Nat
  BY KeyTyped, Powers, Zenon DEF ByteStrings
<1>2. Len(a) = Len(b) /\ (a = b => Len(k) = Len(l))
  BY <1>1, OneLength, Zenon
<1>3. x = a \o k /\ y = b \o l
  BY Zenon DEF LengthPrefixed
<1> HIDE DEF a, b, x, y
<1>4. /\ x \in Seq(Bytes) /\ y \in Seq(Bytes)
      /\ Len(x) = LenWidth + Len(k) /\ Len(y) = LenWidth + Len(l)
      /\ Len(k) \in Nat /\ Len(l) \in Nat
  <2>1. x \in Seq(Bytes) /\ Len(x) = LenWidth + Len(k) /\ Len(k) \in Nat
    BY <1>1, <1>3, ConcatAt, Zenon
  <2>2. y \in Seq(Bytes) /\ Len(y) = LenWidth + Len(l) /\ Len(l) \in Nat
    BY <1>1, <1>3, ConcatAt, Zenon
  <2> QED BY <2>1, <2>2, Zenon
<1>5. /\ \A i \in 1 .. LenWidth : x[i] = a[i] /\ y[i] = b[i]
      /\ \A i \in 1 .. Len(k) : x[LenWidth + i] = k[i]
      /\ \A i \in 1 .. Len(l) : y[LenWidth + i] = l[i]
  <2>1. /\ \A i \in 1 .. LenWidth : x[i] = a[i]
        /\ \A i \in 1 .. Len(k) : x[LenWidth + i] = k[i]
    <3>1. a \in Seq(Bytes) /\ k \in Seq(Bytes)
      BY <1>1, Zenon
    <3>2. /\ \A i \in 1 .. Len(a) : (a \o k)[i] = a[i]
          /\ \A i \in 1 .. Len(k) : (a \o k)[Len(a) + i] = k[i]
      BY <3>1, ConcatAt
    <3> QED BY <1>1, <1>3, <3>2, Zenon
  <2>2. /\ \A i \in 1 .. LenWidth : y[i] = b[i]
        /\ \A i \in 1 .. Len(l) : y[LenWidth + i] = l[i]
    <3>1. b \in Seq(Bytes) /\ l \in Seq(Bytes)
      BY <1>1, Zenon
    <3>2. /\ \A i \in 1 .. Len(b) : (b \o l)[i] = b[i]
          /\ \A i \in 1 .. Len(l) : (b \o l)[Len(b) + i] = l[i]
      BY <3>1, ConcatAt
    <3> QED BY <1>1, <1>3, <3>2, Zenon
  <2> QED BY <2>1, <2>2, Zenon
<1> DEFINE z == y \o t
<1>6. Len(z) = Len(y) + Len(t) /\ Len(t) \in Nat /\ \A i \in 1 .. Len(y) : z[i] = y[i]
  <2>1. y \in Seq(Bytes) /\ t \in Seq(Bytes)
    BY <1>1, <1>4, Zenon
  <2> QED BY <2>1, ConcatAt, Zenon
<1> HIDE DEF z
<1>7. ASSUME l = k PROVE HasPrefix(z, x)
  <2>1. x = y
    BY <1>7, Zenon DEF x, y
  <2> QED BY <1>4, <1>6, <2>1 DEF HasPrefix
<1>8. ASSUME HasPrefix(z, x) PROVE l = k
  <2>1. \A i \in 1 .. Len(x) : z[i] = x[i]
    BY <1>8, Zenon DEF HasPrefix
  <2>2. ASSUME NEW i \in 1 .. LenWidth PROVE a[i] = b[i]
    <3>1. i \in 1 .. Len(x) /\ i \in 1 .. Len(y)
      BY <1>1, <1>4
    <3> QED BY <3>1, <2>1, <1>5, <1>6, Zenon
  <2>3. a = b
    BY <2>2, <1>1
  <2>4. Len(k) = Len(l)
    BY <2>3, <1>2, Zenon
  <2>5. ASSUME NEW i \in 1 .. Len(k) PROVE k[i] = l[i]
    <3>1. LenWidth + i \in 1 .. Len(x) /\ LenWidth + i \in 1 .. Len(y) /\ i \in 1 .. Len(l)
      BY <1>1, <1>4, <2>4
    <3> QED BY <3>1, <2>1, <1>5, <1>6, Zenon
  <2> QED BY <2>4, <2>5, <1>1
<1> QED BY <1>7, <1>8, Zenon DEF x, z, y

\* The bounds of WindowKeyLowerBound and WindowKeyUpperBound enclose the
\* entries of their key and of no other, whatever the starts.
LEMMA CompositeScan ==
  ASSUME NEW k \in Keys, NEW l \in Keys, NEW start \in Starts
  PROVE  /\ ~Less(CompositeKey(l, start), WindowKeyLowerBound(k))
         /\ Less(CompositeKey(l, start), WindowKeyUpperBound(k))
         <=> l = k
<1> DEFINE x == LengthPrefixed(k)
           c == CompositeKey(l, start)
           t == TimeBytes(start)
           z == TimeBytes(0)
<1>1. start \in Int /\ 0 \in Int
  BY StoreAssumption
<1>2. t \in ByteStrings /\ z \in ByteStrings /\ Len(t) = TimeWidth /\ Len(z) = TimeWidth
  BY <1>1, TimeTyped, Zenon
<1>3. x \in ByteStrings /\ c \in ByteStrings
  <2>1. k \in ByteStrings /\ Len(k) \in Nat /\ l \in ByteStrings /\ Len(l) \in Nat
    BY KeyTyped, Zenon
  <2> QED BY <1>1, <2>1, CompositeTyped, Zenon
<1>4. c = LengthPrefixed(l) \o t /\ WindowKeyLowerBound(k) = x \o z
  BY Zenon DEF CompositeKey, TimeBytes, WindowKeyLowerBound
<1>5. WindowKeyUpperBound(k) = prefixUpperBound(x) /\ prefixUpperBound(x) # <<>>
  <2> DEFINE b == BigEndian(Len(k), LenWidth)
  <2>1. b \in Seq(Bytes) /\ k \in Seq(Bytes) /\ Len(b) = LenWidth /\ 1 \in 1 .. LenWidth
        /\ b[1] # ByteMax
    BY KeyTyped, LengthBytes, Powers DEF ByteStrings, Widths
  <2> HIDE DEF b
  <2>2. (b \o k)[1] = b[1] /\ 1 \in 1 .. Len(b \o k)
    BY <2>1
  <2>3. x = b \o k
    BY Zenon DEF LengthPrefixed, b
  <2>4. 1 \in 1 .. Len(x) /\ x[1] # ByteMax
    BY <2>1, <2>2, <2>3, Zenon
  <2> QED BY <1>3, <2>4, HasBound, Zenon DEF WindowKeyUpperBound
<1>6. HasPrefix(c, x) <=> l = k
  BY <1>2, <1>4, OneComposite
<1>7. ~Less(c, x) /\ Less(c, prefixUpperBound(x)) <=> HasPrefix(c, x)
  BY <1>3, <1>5, PrefixScan, Zenon
<1>8. x \in Seq(Int) /\ c \in Seq(Int) /\ t \in Seq(Int) /\ z \in Seq(Int)
  <2>1. ByteStrings \subseteq Seq(Int)
    BY ByteKeysAssumption DEF ByteStrings, Bytes
  <2> QED BY <2>1, <1>2, <1>3, Zenon
<1>9. ASSUME l = k PROVE ~Less(c, x \o z)
  <2>1. \A i \in 1 .. TimeWidth : z[i] = 0 /\ t[i] \in Nat
    <3> TAKE i \in 1 .. TimeWidth
    <3>1. t[i] \in Nat
      <4>1. \A s \in Seq(Bytes) : \A j \in 1 .. Len(s) : s[j] \in Bytes
        OBVIOUS
      <4>2. t[i] \in Bytes
        BY <1>2, <4>1, Zenon DEF ByteStrings
      <4> QED BY <4>2, ByteKeysAssumption DEF Bytes
    <3>2. PICK q \in Nat \ {0} : q = Base ^ TimeWidth
      BY Powers
    <3>3. PICK r \in Nat \ {0} : r = Base ^ (TimeWidth - i)
      <4>1. TimeWidth - i \in 0 .. LenWidth + TimeWidth
        BY Powers
      <4> QED BY <4>1, Powers, Zenon
    <3>4. PICK b \in Nat \ {0} : b = Base
      BY Powers, Zenon
    <3>5. z[i] = ((0 % q) \div r) % b
      BY <3>2, <3>3, <3>4, Zenon DEF TimeBytes, BigEndian
    <3>6. ((0 % q) \div r) % b = 0
      <4>1. 0 % q = 0
        OBVIOUS
      <4>2. 0 \div r = 0
        OBVIOUS
      <4>3. 0 % b = 0
        OBVIOUS
      <4> QED BY <4>1, <4>2, <4>3, Zenon
    <3> QED BY <3>1, <3>5, <3>6, Zenon
  <2>2. ~Less(t, z)
    <3>1. TimeWidth \in Nat
      BY Powers, Zenon
    <3> QED BY <1>2, <2>1, <3>1 DEF Less
  <2>3. c = x \o t
    BY <1>4, <1>9, Zenon
  <2> HIDE DEF x, c, t, z
  <2> QED BY <1>8, <2>2, <2>3, LessShift, Zenon
<1>10. ASSUME ~Less(c, x \o z) PROVE ~Less(c, x)
  BY <1>8, <1>10, LessLonger, Zenon
<1> HIDE DEF x, c, z
<1>11. ~Less(c, x \o z) /\ Less(c, prefixUpperBound(x)) <=> l = k
  BY <1>6, <1>7, <1>9, <1>10, Zenon
<1> QED BY <1>4, <1>5, <1>11, Zenon DEF c

-----------------------------------------------------------------------------
(* What scans show.                                                        *)

\* The keys of store n in a map are keys of its entries.
MapWritten(map, n) ==
  \A f \in DOMAIN map : f \in Prefixed(n) => f \in FullKeys(n) /\ map[f] \in Values

\* The entries of store n in a map with their values.
View(map, n) ==
  {<<e, map[FullKey(n, e)]>> : e \in {d \in EntriesOf(n) : FullKey(n, d) \in DOMAIN map}}

\* RangeCompositeBytes visits the entries of one key.
LEMMA KeyRange ==
  ASSUME NEW n \in WindowNames, NEW k \in Keys, KeysOwned, MapWritten(data, n)
  PROVE  RangeCompositeBytes(n, WindowKeyLowerBound(k), WindowKeyUpperBound(k)) =
           {f \in DOMAIN data : \E start \in Starts : f = FullKey(n, <<k, start>>)}
<1> DEFINE R == RangeCompositeBytes(n, WindowKeyLowerBound(k), WindowKeyUpperBound(k))
<1>1. n \in Names
  BY StoreAssumption, Zenon
<1>2. ASSUME NEW l \in Keys, NEW start \in Starts
      PROVE  /\ ~Less(WindowKey(n, l, start), encodeKey(n, WindowKeyLowerBound(k)))
             /\ Less(WindowKey(n, l, start), encodeKey(n, WindowKeyUpperBound(k)))
             <=> l = k
  <2> DEFINE p == Prefix(n)
             c == CompositeKey(l, start)
             a == WindowKeyLowerBound(k)
             b == WindowKeyUpperBound(k)
  <2>1. ByteStrings \subseteq Seq(Int)
    BY ByteKeysAssumption DEF ByteStrings, Bytes
  <2>2. start \in Int /\ 0 \in Int
    BY StoreAssumption
  <2>3. k \in ByteStrings /\ Len(k) \in Nat /\ l \in ByteStrings /\ Len(l) \in Nat
    BY KeyTyped, Zenon
  <2>4. c \in ByteStrings /\ a \in ByteStrings /\ LengthPrefixed(k) \in ByteStrings
    BY <2>2, <2>3, CompositeTyped, Zenon DEF WindowKeyLowerBound
  <2>5. b \in Seq(Int)
    BY <2>4, UpperBoundTyped, Zenon DEF WindowKeyUpperBound
  <2>6. p \in Seq(Int) /\ c \in Seq(Int) /\ a \in Seq(Int)
    BY <1>1, <2>1, <2>4, PrefixShape, Zenon
  <2>7. ~Less(c, a) /\ Less(c, b) <=> l = k
    BY CompositeScan, Zenon
  <2>8. /\ WindowKey(n, l, start) = p \o c
        /\ encodeKey(n, a) = p \o a /\ encodeKey(n, b) = p \o b
    BY Zenon DEF WindowKey, encodeKey
  <2> HIDE DEF p, c, a, b
  <2>9. (Less(p \o c, p \o a) <=> Less(c, a)) /\ (Less(p \o c, p \o b) <=> Less(c, b))
    BY <2>5, <2>6, LessShift, Zenon
  <2>10. ~Less(p \o c, p \o a) /\ Less(p \o c, p \o b) <=> l = k
    BY <2>7, <2>9, Zenon
  <2> QED BY <2>8, <2>10, Zenon DEF a, b
<1>3. \A l \in Keys, start \in Starts : FullKey(n, <<l, start>>) = WindowKey(n, l, start)
  BY Zenon DEF FullKey
<1>4. ASSUME NEW f \in R
      PROVE  f \in DOMAIN data /\ \E start \in Starts : f = FullKey(n, <<k, start>>)
  <2>1. f \in DOMAIN data /\ f \in Prefixed(n)
    BY <1>1, RangePrefixed, Zenon DEF RangeCompositeBytes
  <2>2. f \in FullKeys(n)
    BY <2>1, Zenon DEF MapWritten
  <2>3. PICK l \in Keys, start \in Starts : f = FullKey(n, <<l, start>>)
    BY <2>2 DEF FullKeys, EntriesOf
  <2>4. f = WindowKey(n, l, start)
    BY <1>3, <2>3, Zenon
  <2>5. l = k
    BY <1>2, <2>4, Zenon DEF RangeCompositeBytes
  <2> QED BY <2>1, <2>3, <2>5, Zenon
<1>5. ASSUME NEW f \in DOMAIN data, NEW start \in Starts, f = FullKey(n, <<k, start>>)
      PROVE  f \in R
  <2>1. f = WindowKey(n, k, start)
    BY <1>3, <1>5, Zenon
  <2> QED BY <1>2, <2>1, Zenon DEF RangeCompositeBytes
<1> HIDE DEF R
<1>6. R = {f \in DOMAIN data : \E start \in Starts : f = FullKey(n, <<k, start>>)}
  BY <1>4, <1>5, Zenon
<1> QED BY <1>6, Zenon DEF R

\* Range and RangeForKey show the entries in the map, each with its value.
LEMMA ScanShows ==
  ASSUME NEW n \in Names, KeysOwned, MapWritten(data, n)
  PROVE  Content(n) = View(data, n)
<1>2. CASE n \notin WindowNames
  <2>1. RangeKeys(n) = {f \in DOMAIN data : HasPrefix(f, Prefix(n))}
    BY RangeIsPrefix, Zenon DEF KeysOwned
  <2>2. ASSUME NEW e \in EntriesOf(n)
        PROVE  /\ Suffix(n, FullKey(n, e)) = e
               /\ FullKey(n, e) \in RangeKeys(n) <=> FullKey(n, e) \in DOMAIN data
    BY <1>2, <2>1, EntryBack, Zenon DEF EntryOf, Prefixed
  <2>3. ASSUME NEW f \in RangeKeys(n)
        PROVE  \E e \in EntriesOf(n) : f = FullKey(n, e)
    BY <2>1, Zenon DEF MapWritten, Prefixed, FullKeys, KeysOwned
  <2>4. Content(n) = {<<Suffix(n, f), data[f]>> : f \in RangeKeys(n)}
    BY <1>2, Zenon DEF Content
  <2>5. ASSUME NEW x \in Content(n) PROVE x \in View(data, n)
    <3>1. PICK f \in RangeKeys(n) : x = <<Suffix(n, f), data[f]>>
      BY <2>4, Zenon
    <3>2. PICK e \in EntriesOf(n) : f = FullKey(n, e)
      BY <2>3, Zenon
    <3>3. x = <<e, data[FullKey(n, e)]>> /\ FullKey(n, e) \in DOMAIN data
      BY <2>2, <3>1, <3>2, Zenon
    <3> QED BY <3>3, Zenon DEF View
  <2>6. ASSUME NEW x \in View(data, n) PROVE x \in Content(n)
    <3>1. PICK e \in EntriesOf(n) :
            FullKey(n, e) \in DOMAIN data /\ x = <<e, data[FullKey(n, e)]>>
      BY Zenon DEF View
    <3> QED BY <2>2, <2>4, <3>1, Zenon
  <2> QED BY <2>5, <2>6, Zenon
<1>3. CASE n \in WindowNames
  <2> DEFINE R(k) == RangeCompositeBytes(n, WindowKeyLowerBound(k), WindowKeyUpperBound(k))
  <2>1. \A k \in Keys :
          R(k) = {f \in DOMAIN data : \E start \in Starts : f = FullKey(n, <<k, start>>)}
    BY <1>3, KeyRange, Zenon
  <2>2. \A k \in Keys :
          RangeForKey(n, k) =
            {<<DecodeWindowCompositeKey(Suffix(n, f))[2], data[f]>> : f \in R(k)}
    BY Zenon DEF RangeForKey
  <2> HIDE DEF R
  <2>3. ASSUME NEW k \in Keys, NEW start \in Starts
        PROVE  DecodeWindowCompositeKey(Suffix(n, FullKey(n, <<k, start>>)))[2] = start
    <3>1. <<k, start>> \in EntriesOf(n)
      BY <1>3, Zenon DEF EntriesOf
    <3>2. EntryOf(n, FullKey(n, <<k, start>>)) = <<k, start>>
      BY <3>1, EntryBack, Zenon
    <3> QED BY <1>3, <3>2 DEF EntryOf
  <2>4. Content(n) = UNION {{<< <<k, x[1]>>, x[2] >> : x \in RangeForKey(n, k)} : k \in Keys}
    BY <1>3, Zenon DEF Content
  <2>5. ASSUME NEW y \in Content(n) PROVE y \in View(data, n)
    <3>1. PICK k \in Keys : y \in {<< <<k, x[1]>>, x[2] >> : x \in RangeForKey(n, k)}
      BY <2>4, Zenon
    <3>2. PICK x \in RangeForKey(n, k) : y = << <<k, x[1]>>, x[2] >>
      BY <3>1, Zenon
    <3>3. PICK f \in R(k) : x = <<DecodeWindowCompositeKey(Suffix(n, f))[2], data[f]>>
      BY <2>2, <3>2, Zenon
    <3>4. PICK start \in Starts : f = FullKey(n, <<k, start>>) /\ f \in DOMAIN data
      BY <2>1, <3>3, Zenon
    <3>5. y = << <<k, start>>, data[FullKey(n, <<k, start>>)] >>
      BY <2>3, <3>2, <3>3, <3>4, Zenon
    <3>6. <<k, start>> \in EntriesOf(n)
      BY <1>3, Zenon DEF EntriesOf
    <3> QED BY <3>4, <3>5, <3>6, Zenon DEF View
  <2>6. ASSUME NEW y \in View(data, n) PROVE y \in Content(n)
    <3>1. PICK e \in EntriesOf(n) :
            FullKey(n, e) \in DOMAIN data /\ y = <<e, data[FullKey(n, e)]>>
      BY Zenon DEF View
    <3>2. PICK k \in Keys, start \in Starts : e = <<k, start>>
      BY <1>3 DEF EntriesOf
    <3>3. FullKey(n, <<k, start>>) \in R(k)
      BY <2>1, <3>1, <3>2, Zenon
    <3>4. <<start, data[FullKey(n, <<k, start>>)]>> \in RangeForKey(n, k)
      BY <2>2, <2>3, <3>3, Zenon
    <3>5. y = << <<k, start>>, data[FullKey(n, <<k, start>>)] >>
      BY <3>1, <3>2, Zenon
    <3>6. y \in {<< <<k, x[1]>>, x[2] >> : x \in RangeForKey(n, k)}
      BY <3>4, <3>5
    <3> QED BY <2>4, <3>6
  <2> QED BY <2>5, <2>6, Zenon
<1> QED BY <1>2, <1>3, Zenon

-----------------------------------------------------------------------------
(* What a log says of a key.                                               *)

\* The last record of key f among the first upto has value v.
Ends(log, upto, f, v) ==
  \E i \in 1 .. upto :
    /\ log[i].key = f /\ log[i].val = v
    /\ \A j \in i + 1 .. upto : log[j].key # f

\* The records up to a place decide what is said up to it.
LEMMA EndsSame ==
  ASSUME NEW log, NEW other, NEW upto \in Nat, NEW f, NEW v,
         \A i \in 1 .. upto : log[i] = other[i], Ends(log, upto, f, v)
  PROVE  Ends(other, upto, f, v)
<1>1. PICK i \in 1 .. upto : /\ log[i].key = f /\ log[i].val = v
                             /\ \A j \in i + 1 .. upto : log[j].key # f
  BY Zenon DEF Ends
<1>2. \A j \in i + 1 .. upto : j \in 1 .. upto
  OBVIOUS
<1>3. other[i].key = f /\ other[i].val = v
  BY <1>1, Zenon
<1>4. \A j \in i + 1 .. upto : other[j].key # f
  BY <1>1, <1>2, Zenon
<1> QED BY <1>3, <1>4, Zenon DEF Ends

\* An empty log says nothing of any key.
LEMMA EndsNone ==
  ASSUME NEW log, NEW f, NEW v
  PROVE  ~Ends(log, 0, f, v)
BY DEF Ends

\* Without a record of the key from offset start on, the records before have
\* the say, ...
LEMMA EndsBefore ==
  ASSUME NEW S, NEW log \in Seq(S), NEW start \in 0 .. Len(log), NEW f, NEW v,
         PlacesOf(log, start, f) = {}
  PROVE  Ends(log, Len(log), f, v) <=> Ends(log, start, f, v)
<1>0. Len(log) \in Nat /\ start \in Nat /\ start <= Len(log)
  OBVIOUS
<1>1. \A j \in start + 1 .. Len(log) : log[j].key # f
  BY Zenon DEF PlacesOf
<1>2. ASSUME Ends(log, Len(log), f, v) PROVE Ends(log, start, f, v)
  <2>1. PICK i \in 1 .. Len(log) : /\ log[i].key = f /\ log[i].val = v
                                   /\ \A j \in i + 1 .. Len(log) : log[j].key # f
    BY <1>2, Zenon DEF Ends
  <2>2. i \in 1 .. start
    BY <1>0, <1>1, <2>1
  <2>3. \A j \in i + 1 .. start : log[j].key # f
    BY <1>0, <2>1
  <2> QED BY <2>1, <2>2, <2>3, Zenon DEF Ends
<1>3. ASSUME Ends(log, start, f, v) PROVE Ends(log, Len(log), f, v)
  <2>1. PICK i \in 1 .. start : /\ log[i].key = f /\ log[i].val = v
                                /\ \A j \in i + 1 .. start : log[j].key # f
    BY <1>3, Zenon DEF Ends
  <2>2. i \in 1 .. Len(log)
    BY <1>0
  <2>3. \A j \in i + 1 .. Len(log) : log[j].key # f
    BY <1>0, <1>1, <2>1
  <2> QED BY <2>1, <2>2, <2>3, Zenon DEF Ends
<1> QED BY <1>2, <1>3, Zenon

\* ... otherwise the record at its last place.
LEMMA EndsLast ==
  ASSUME NEW S, NEW log \in Seq(S), NEW start \in 0 .. Len(log), NEW f, NEW v,
         NEW i \in PlacesOf(log, start, f), IsLast(PlacesOf(log, start, f), i)
  PROVE  Ends(log, Len(log), f, v) <=> log[i].val = v
<1>0. Len(log) \in Nat /\ start \in Nat /\ start <= Len(log)
  OBVIOUS
<1>1. i \in 1 .. Len(log) /\ i > start /\ log[i].key = f
  BY <1>0 DEF PlacesOf
<1>2. \A j \in i + 1 .. Len(log) : log[j].key # f
  <2> TAKE j \in i + 1 .. Len(log)
  <2>1. j \in start + 1 .. Len(log) /\ ~(j <= i)
    BY <1>0, <1>1
  <2> QED BY <2>1, Zenon DEF IsLast, PlacesOf
<1>3. log[i].val = v => Ends(log, Len(log), f, v)
  BY <1>1, <1>2, Zenon DEF Ends
<1>4. ASSUME Ends(log, Len(log), f, v) PROVE log[i].val = v
  <2>1. PICK l \in 1 .. Len(log) : /\ log[l].key = f /\ log[l].val = v
                                   /\ \A j \in l + 1 .. Len(log) : log[j].key # f
    BY <1>4, Zenon DEF Ends
  <2>2. ~(i < l) /\ ~(l < i)
    BY <1>0, <1>1, <1>2, <2>1
  <2>3. l = i
    BY <1>0, <1>1, <2>2
  <2> QED BY <2>1, <2>3, Zenon
<1> QED BY <1>3, <1>4, Zenon

\* A record that is appended has the say over its key.
LEMMA EndsAppend ==
  ASSUME NEW S, NEW log \in Seq(S), NEW r \in S, NEW f, NEW v
  PROVE  /\ r.key = f =>
              (Ends(Append(log, r), Len(Append(log, r)), f, v) <=> r.val = v)
         /\ r.key # f =>
              (Ends(Append(log, r), Len(Append(log, r)), f, v)
                 <=> Ends(log, Len(log), f, v))
<1> DEFINE a == Append(log, r)
<1>1. /\ Len(log) \in Nat /\ Len(a) = Len(log) + 1 /\ a \in Seq(S)
      /\ \A i \in 1 .. Len(log) : a[i] = log[i]
      /\ a[Len(log) + 1] = r
  OBVIOUS
<1> HIDE DEF a
<1> DEFINE P == PlacesOf(a, Len(log), f)
<1>2. Len(log) \in 0 .. Len(a)
  BY <1>1
<1>3. ASSUME r.key = f PROVE Ends(a, Len(a), f, v) <=> r.val = v
  <2>1. Len(a) \in P /\ IsLast(P, Len(a))
    BY <1>1, <1>3 DEF PlacesOf, IsLast
  <2>2. Ends(a, Len(a), f, v) <=> a[Len(a)].val = v
    BY <1>1, <1>2, <2>1, EndsLast
  <2> QED BY <1>1, <2>2, Zenon
<1>4. ASSUME r.key # f PROVE Ends(a, Len(a), f, v) <=> Ends(log, Len(log), f, v)
  <2>1. P = {}
    BY <1>1, <1>4 DEF PlacesOf
  <2>2. Ends(a, Len(a), f, v) <=> Ends(a, Len(log), f, v)
    BY <1>1, <1>2, <2>1, EndsBefore, Zenon
  <2>3. Ends(a, Len(log), f, v) => Ends(log, Len(log), f, v)
    BY <1>1, EndsSame, Zenon
  <2>4. Ends(log, Len(log), f, v) => Ends(a, Len(log), f, v)
    BY <1>1, EndsSame, Zenon
  <2> QED BY <2>2, <2>3, <2>4, Zenon
<1> QED BY <1>3, <1>4, Zenon DEF a

\* A run of tombstones takes away its keys.
LEMMA EndsDeleted ==
  ASSUME NEW S, NEW log \in Seq(S), NEW muts \in Seq(S), NEW f, NEW v, v # Nil,
         \A i \in 1 .. Len(muts) : muts[i].val = Nil
  PROVE  Ends(log \o muts, Len(log \o muts), f, v)
           <=> /\ Ends(log, Len(log), f, v)
               /\ \A i \in 1 .. Len(muts) : muts[i].key # f
<1> DEFINE a == log \o muts
<1>1. /\ Len(log) \in Nat /\ Len(muts) \in Nat /\ Len(a) = Len(log) + Len(muts)
      /\ a \in Seq(S)
      /\ \A i \in 1 .. Len(log) : a[i] = log[i]
      /\ \A i \in 1 .. Len(muts) : a[Len(log) + i] = muts[i]
  BY ConcatAt
<1> HIDE DEF a
<1> DEFINE P == PlacesOf(a, Len(log), f)
<1>2. Len(log) \in 0 .. Len(a)
  BY <1>1
<1>3. ASSUME NEW i \in P
      PROVE  i - Len(log) \in 1 .. Len(muts) /\ a[i] = muts[i - Len(log)]
             /\ a[i].key = f
  <2>1. i \in Len(log) + 1 .. Len(a) /\ a[i].key = f
    BY Zenon DEF PlacesOf
  <2>2. i - Len(log) \in 1 .. Len(muts) /\ Len(log) + (i - Len(log)) = i
    BY <1>1, <2>1
  <2> QED BY <1>1, <2>1, <2>2, Zenon
<1>4. ASSUME NEW i \in 1 .. Len(muts), muts[i].key = f PROVE Len(log) + i \in P
  <2>1. Len(log) + i \in Len(log) + 1 .. Len(a)
    BY <1>1
  <2> QED BY <1>1, <1>4, <2>1, Zenon DEF PlacesOf
<1>5. CASE P = {}
  <2>1. \A i \in 1 .. Len(muts) : muts[i].key # f
    BY <1>4, <1>5, Zenon
  <2>2. Ends(a, Len(a), f, v) <=> Ends(a, Len(log), f, v)
    BY <1>1, <1>2, <1>5, EndsBefore, Zenon
  <2>3. Ends(a, Len(log), f, v) => Ends(log, Len(log), f, v)
    BY <1>1, EndsSame, Zenon
  <2>4. Ends(log, Len(log), f, v) => Ends(a, Len(log), f, v)
    BY <1>1, EndsSame, Zenon
  <2> QED BY <2>1, <2>2, <2>3, <2>4, Zenon DEF a
<1>6. CASE P # {}
  <2>1. P \in SUBSET (1 .. Len(a)) /\ Len(a) \in Nat
    BY <1>1 DEF PlacesOf
  <2>2. PICK i \in P : IsLast(P, i)
    BY <1>6, <2>1, HasLast, Zenon
  <2>3. Ends(a, Len(a), f, v) <=> a[i].val = v
    <3>1. a \in Seq(S)
      BY <1>1, Zenon
    <3> QED BY <1>2, <2>2, <3>1, EndsLast
  <2>4. a[i].val = Nil
    BY <1>3, Zenon
  <2>5. muts[i - Len(log)].key = f /\ i - Len(log) \in 1 .. Len(muts)
    BY <1>3, Zenon
  <2> QED BY <2>3, <2>4, <2>5, Zenon DEF a
<1> QED BY <1>5, <1>6, Zenon

\* The two cases of EndsAppend.
LEMMA EndsAppended ==
  ASSUME NEW S, NEW log \in Seq(S), NEW r \in S, NEW f, NEW v, r.key = f
  PROVE  Ends(Append(log, r), Len(Append(log, r)), f, v) <=> r.val = v
BY EndsAppend, Zenon

\* A record of another key changes nothing of what a log says of this one.
LEMMA EndsAppendedOther ==
  ASSUME NEW S, NEW log \in Seq(S), NEW r \in S, NEW f, NEW v, r.key # f
  PROVE  Ends(Append(log, r), Len(Append(log, r)), f, v) <=> Ends(log, Len(log), f, v)
BY EndsAppend, Zenon

\* The pairs of entry and value the log of store n ends with.
Final(n, log) ==
  {x \in EntriesOf(n) \X (Values \ {Empty}) :
     Ends(log, Len(log), FullKey(n, x[1]), x[2])}

Written(n) == [key : FullKeys(n), val : Values \cup {Nil}]

\* Places and records of a store's log.
LEMMA WrittenAt ==
  ASSUME NEW n, NEW log \in Seq(Written(n))
  PROVE  /\ Len(log) \in Nat /\ DOMAIN log = 1 .. Len(log)
         /\ \A i \in 1 .. Len(log) :
              log[i] \in Written(n) /\ log[i].key \in FullKeys(n)
              /\ log[i].val \in Values \cup {Nil}
<1>1. /\ Len(log) \in Nat /\ DOMAIN log = 1 .. Len(log)
      /\ \A i \in 1 .. Len(log) : log[i] \in Written(n)
  OBVIOUS
<1> QED BY <1>1, Zenon DEF Written

\* What a changelog rebuilds is what its last records say.
LEMMA LoggedFinal ==
  ASSUME NEW n \in Names, NEW log \in Seq(Written(n))
  PROVE  Logged(n, log) = Final(n, log)
<1>1. /\ Len(log) \in Nat /\ DOMAIN log = 1 .. Len(log) /\ 0 \in 0 .. Len(log)
      /\ \A i \in 1 .. Len(log) :
           log[i].key \in FullKeys(n) /\ log[i].val \in Values \cup {Nil}
  BY WrittenAt
<1>2. ASSUME NEW x \in Logged(n, log) PROVE x \in Final(n, log)
  <2>1. PICK i \in 1 .. Len(log) :
          /\ log[i].val \notin {Nil, Empty} /\ IsLast(PlacesOf(log, 0, log[i].key), i)
          /\ x = <<EntryOf(n, log[i].key), log[i].val>>
    BY <1>1, Zenon DEF Logged
  <2>2. PICK e \in EntriesOf(n) : log[i].key = FullKey(n, e)
    BY <1>1, Zenon DEF FullKeys
  <2>3. x = <<e, log[i].val>>
    BY <2>1, <2>2, EntryBack, Zenon
  <2>4. log[i].val \in Values \ {Empty}
    BY <1>1, <2>1, Zenon
  <2>5. Ends(log, Len(log), log[i].key, log[i].val)
    <3>1. i \in PlacesOf(log, 0, log[i].key)
      BY <2>1, Zenon DEF IsLast
    <3> QED BY <1>1, <2>1, <3>1, EndsLast, Zenon
  <2> QED BY <2>2, <2>3, <2>4, <2>5, Zenon DEF Final
<1>3. ASSUME NEW x \in Final(n, log) PROVE x \in Logged(n, log)
  <2>1. PICK e \in EntriesOf(n), v \in Values \ {Empty} :
          x = <<e, v>> /\ Ends(log, Len(log), FullKey(n, e), v)
    BY DEF Final
  <2>2. PICK i \in 1 .. Len(log) :
          /\ log[i].key = FullKey(n, e) /\ log[i].val = v
          /\ \A j \in i + 1 .. Len(log) : log[j].key # FullKey(n, e)
    BY <2>1, Zenon DEF Ends
  <2>3. IsLast(PlacesOf(log, 0, log[i].key), i)
    <3>1. i \in PlacesOf(log, 0, log[i].key)
      BY <1>1 DEF PlacesOf
    <3>2. ASSUME NEW j \in PlacesOf(log, 0, log[i].key) PROVE j <= i
      <4>1. j \in 1 .. Len(log) /\ log[j].key = FullKey(n, e)
        BY <1>1, <2>2 DEF PlacesOf
      <4>2. j \notin i + 1 .. Len(log)
        BY <2>2, <4>1, Zenon
      <4> QED BY <1>1, <4>1, <4>2
    <3> QED BY <3>1, <3>2, Zenon DEF IsLast
  <2>4. log[i].val \notin {Nil, Empty}
    BY <2>2, StoreAssumption, Zenon
  <2>5. x = <<EntryOf(n, log[i].key), log[i].val>>
    BY <2>1, <2>2, EntryBack, Zenon
  <2> QED BY <1>1, <2>3, <2>4, <2>5, Zenon DEF Logged
<1> QED BY <1>2, <1>3, Zenon

-----------------------------------------------------------------------------
(* Maps that agree with a log.                                             *)

Holds(map, f, v) == f \in DOMAIN map /\ map[f] = v

\* The map has what the first upto records of the log say, but for the entries
\* whose value has no bytes.
Agrees(map, n, log, upto) ==
  \A f \in FullKeys(n), v \in Values \ {Empty} :
    Holds(map, f, v) <=> Ends(log, upto, f, v)

\* The keys of store n are the same in both maps.
SameMap(map, new, n) ==
  \A f \in Prefixed(n) :
    /\ f \in DOMAIN new <=> f \in DOMAIN map
    /\ f \in DOMAIN map => new[f] = map[f]

\* A full key begins with the prefix of its store.
LEMMA FullKeysOwned ==
  ASSUME NEW n \in Names
  PROVE  FullKeys(n) \subseteq Prefixed(n)
BY EntryBack, Zenon DEF FullKeys

\* A map that is the same for a store agrees with the same log.
LEMMA SameAgrees ==
  ASSUME NEW n \in Names, NEW map, NEW new, SameMap(map, new, n), MapWritten(map, n)
  PROVE  /\ MapWritten(new, n) /\ View(new, n) = View(map, n)
         /\ \A log, upto : Agrees(map, n, log, upto) => Agrees(new, n, log, upto)
<1>1. \A f \in FullKeys(n) : /\ f \in DOMAIN new <=> f \in DOMAIN map
                             /\ f \in DOMAIN map => new[f] = map[f]
  BY FullKeysOwned, Zenon DEF SameMap
<1>2. MapWritten(new, n)
  BY Zenon DEF MapWritten, SameMap
<1>3. View(new, n) = View(map, n)
  <2>1. \A e \in EntriesOf(n) : FullKey(n, e) \in FullKeys(n)
    BY Zenon DEF FullKeys
  <2> QED BY <1>1, <2>1, Zenon DEF View
<1>4. \A v : \A f \in FullKeys(n) : Holds(new, f, v) <=> Holds(map, f, v)
  BY <1>1, Zenon DEF Holds
<1> QED BY <1>2, <1>3, <1>4, Zenon DEF Agrees

\* A put, the record it collects and the entry that scans show for it.
LEMMA SetAgrees ==
  ASSUME NEW n \in Names, NEW map, NEW log \in Seq(Written(n)), NEW e \in EntriesOf(n),
         NEW v \in Values, NEW r \in Written(n), r.key = FullKey(n, e),
         r.val = v \/ (v = Empty /\ r.val = Nil),
         MapWritten(map, n), Agrees(map, n, log, Len(log))
  PROVE  LET new == With(map, FullKey(n, e), v)
         IN  /\ MapWritten(new, n)
             /\ Agrees(new, n, Append(log, r), Len(Append(log, r)))
             /\ View(new, n) = {x \in View(map, n) : x[1] # e} \cup {<<e, v>>}
<1> DEFINE full == FullKey(n, e)
           new == With(map, full, v)
<1>1. /\ DOMAIN new = DOMAIN map \cup {full} /\ new[full] = v
      /\ \A f \in DOMAIN map : f # full => new[f] = map[f]
  BY Zenon DEF With
<1>2. full \in FullKeys(n)
  BY Zenon DEF FullKeys
<1>3. \A d \in EntriesOf(n) : FullKey(n, d) = full => d = e
  BY OneEntry, Zenon
<1> HIDE DEF full, new
<1>4. MapWritten(new, n)
  BY <1>1, <1>2, Zenon DEF MapWritten
<1>5. ASSUME NEW f \in FullKeys(n), NEW w \in Values \ {Empty}
      PROVE  Holds(new, f, w) <=> Ends(Append(log, r), Len(Append(log, r)), f, w)
  <2>1. CASE f = full
    <3>1. Ends(Append(log, r), Len(Append(log, r)), f, w) <=> r.val = w
      <4>1. r.key = f
        BY <2>1, Zenon DEF full
      <4> QED BY <4>1, EndsAppended, Zenon
    <3>2. r.val = w <=> v = w
      BY StoreAssumption, Zenon
    <3>3. Holds(new, f, w) <=> v = w
      BY <1>1, <2>1, Zenon DEF Holds
    <3> QED BY <3>1, <3>2, <3>3, Zenon
  <2>2. CASE f # full
    <3>1. Ends(Append(log, r), Len(Append(log, r)), f, w) <=> Ends(log, Len(log), f, w)
      BY <2>2, EndsAppendedOther, Zenon DEF full
    <3>2. Holds(map, f, w) <=> Ends(log, Len(log), f, w)
      BY Zenon DEF Agrees
    <3>3. Holds(new, f, w) <=> Holds(map, f, w)
      BY <1>1, <2>2, Zenon DEF Holds
    <3> QED BY <3>1, <3>2, <3>3, Zenon
  <2> QED BY <2>1, <2>2, Zenon
<1>6. View(new, n) = {x \in View(map, n) : x[1] # e} \cup {<<e, v>>}
  <2>1. ASSUME NEW x \in View(new, n)
        PROVE  x \in {y \in View(map, n) : y[1] # e} \cup {<<e, v>>}
    <3>1. PICK d \in EntriesOf(n) :
            FullKey(n, d) \in DOMAIN new /\ x = <<d, new[FullKey(n, d)]>>
      BY Zenon DEF View
    <3>2. CASE d = e
      BY <1>1, <3>1, <3>2, Zenon DEF full
    <3>3. CASE d # e
      <4>1. FullKey(n, d) # full
        BY <1>3, <3>3, Zenon
      <4>2. FullKey(n, d) \in DOMAIN map /\ x = <<d, map[FullKey(n, d)]>>
        BY <1>1, <3>1, <4>1, Zenon
      <4> QED BY <3>3, <4>2, Zenon DEF View
    <3> QED BY <3>2, <3>3, Zenon
  <2>2. ASSUME NEW x \in {y \in View(map, n) : y[1] # e} PROVE x \in View(new, n)
    <3>1. PICK d \in EntriesOf(n) :
            FullKey(n, d) \in DOMAIN map /\ x = <<d, map[FullKey(n, d)]>>
      BY Zenon DEF View
    <3>2. FullKey(n, d) # full
      BY <1>3, <2>2, <3>1, Zenon
    <3>3. FullKey(n, d) \in DOMAIN new /\ x = <<d, new[FullKey(n, d)]>>
      BY <1>1, <3>1, <3>2, Zenon
    <3> QED BY <3>3, Zenon DEF View
  <2>3. <<e, v>> \in View(new, n)
    BY <1>1, Zenon DEF View, full
  <2> QED BY <2>1, <2>2, <2>3, Zenon
<1>7. Agrees(new, n, Append(log, r), Len(Append(log, r)))
  BY <1>5, Zenon DEF Agrees
<1> QED BY <1>4, <1>6, <1>7, Zenon DEF new, full

\* The keys in S are those of the entries in E.
KeysOf(map, n, S, E) ==
  \A d \in EntriesOf(n) :
    FullKey(n, d) \in DOMAIN map => (FullKey(n, d) \in S <=> d \in E)

\* What is left of the entries when keys are deleted.
LEMMA WithoutView ==
  ASSUME NEW n \in Names, NEW map, NEW S, NEW E \in SUBSET EntriesOf(n),
         KeysOf(map, n, S, E)
  PROVE  View(Without(map, S), n) = {x \in View(map, n) : x[1] \notin E}
<1> DEFINE new == Without(map, S)
<1>1. DOMAIN new = DOMAIN map \ S /\ \A f \in DOMAIN map \ S : new[f] = map[f]
  BY Zenon DEF Without
<1> HIDE DEF new
<1>2. ASSUME NEW x \in View(new, n) PROVE x \in View(map, n) /\ x[1] \notin E
  <2>1. PICK d \in EntriesOf(n) :
          FullKey(n, d) \in DOMAIN new /\ x = <<d, new[FullKey(n, d)]>>
    BY Zenon DEF View
  <2>2. FullKey(n, d) \in DOMAIN map \ S /\ x = <<d, map[FullKey(n, d)]>>
    BY <1>1, <2>1, Zenon
  <2>3. d \notin E
    BY <2>2, Zenon DEF KeysOf
  <2> QED BY <2>2, <2>3, Zenon DEF View
<1>3. ASSUME NEW x \in View(map, n), x[1] \notin E PROVE x \in View(new, n)
  <2>1. PICK d \in EntriesOf(n) :
          FullKey(n, d) \in DOMAIN map /\ x = <<d, map[FullKey(n, d)]>>
    BY Zenon DEF View
  <2>2. FullKey(n, d) \in DOMAIN new /\ x = <<d, new[FullKey(n, d)]>>
    BY <1>1, <1>3, <2>1, Zenon DEF KeysOf
  <2> QED BY <2>2, Zenon DEF View
<1> QED BY <1>2, <1>3, Zenon DEF new

\* Deletions and the tombstones they collect.
LEMMA WithoutAgrees ==
  ASSUME NEW n \in Names, NEW map, NEW log \in Seq(Written(n)), NEW S,
         NEW muts \in Seq(Written(n)),
         \A i \in 1 .. Len(muts) : muts[i].val = Nil,
         \A f : f \in S <=> \E i \in 1 .. Len(muts) : muts[i].key = f,
         MapWritten(map, n), Agrees(map, n, log, Len(log))
  PROVE  /\ MapWritten(Without(map, S), n)
         /\ Agrees(Without(map, S), n, log \o muts, Len(log \o muts))
<1> DEFINE new == Without(map, S)
<1>1. DOMAIN new = DOMAIN map \ S /\ \A f \in DOMAIN map \ S : new[f] = map[f]
  BY Zenon DEF Without
<1> HIDE DEF new
<1>2. MapWritten(new, n)
  BY <1>1, Zenon DEF MapWritten
<1>3. ASSUME NEW f \in FullKeys(n), NEW v \in Values \ {Empty}
      PROVE  Holds(new, f, v) <=> Ends(log \o muts, Len(log \o muts), f, v)
  <2>1. v # Nil
    BY StoreAssumption, Zenon
  <2>2. Ends(log \o muts, Len(log \o muts), f, v)
          <=> Ends(log, Len(log), f, v) /\ \A i \in 1 .. Len(muts) : muts[i].key # f
    BY <2>1, EndsDeleted
  <2>3. f \notin S <=> \A i \in 1 .. Len(muts) : muts[i].key # f
    BY Zenon
  <2>4. Holds(map, f, v) <=> Ends(log, Len(log), f, v)
    BY Zenon DEF Agrees
  <2>5. Holds(new, f, v) <=> Holds(map, f, v) /\ f \notin S
    BY <1>1, Zenon DEF Holds
  <2> QED BY <2>2, <2>3, <2>4, <2>5, Zenon
<1>4. Agrees(new, n, log \o muts, Len(log \o muts))
  BY <1>3, Zenon DEF Agrees
<1> QED BY <1>2, <1>4, Zenon DEF new

\* Restore applies the last record of each key, and leaves a key without one
\* from offset start on as it is.
LEMMA AppliedKept ==
  ASSUME NEW map, NEW S, NEW log \in Seq(S), NEW start \in 0 .. Len(log), NEW f,
         PlacesOf(log, start, f) = {}
  PROVE  /\ f \in DOMAIN Applied(map, log, start) <=> f \in DOMAIN map
         /\ f \in DOMAIN map => Applied(map, log, start)[f] = map[f]
<1> DEFINE touched == {log[i].key : i \in {j \in DOMAIN log : j > start}}
<1>1. f \notin touched
  BY DEF PlacesOf
<1> QED BY <1>1, Zenon DEF Applied

Settled(map, f, v) ==
  /\ f \in DOMAIN map <=> v # Nil
  /\ f \in DOMAIN map => map[f] = v

\* A restore leaves a key that it meets with the value of its last record.
LEMMA AppliedLast ==
  ASSUME NEW map, NEW S, NEW log \in Seq(S), NEW start \in 0 .. Len(log), NEW f,
         NEW i \in PlacesOf(log, start, f), IsLast(PlacesOf(log, start, f), i)
  PROVE  Settled(Applied(map, log, start), f, Replayed(log[i].val))
<1> DEFINE touched == {log[j].key : j \in {l \in DOMAIN log : l > start}}
           last(k) == LET P == PlacesOf(log, start, k)
                      IN  Replayed(log[CHOOSE j \in P : IsLast(P, j)].val)
           gone == {k \in touched : last(k) = Nil}
<1>1. f \in touched
  BY DEF PlacesOf
<1>2. (CHOOSE j \in PlacesOf(log, start, f) : IsLast(PlacesOf(log, start, f), j)) = i
  <2> DEFINE P == PlacesOf(log, start, f)
             c == CHOOSE j \in P : IsLast(P, j)
  <2>1. c \in P /\ IsLast(P, c)
    BY Zenon
  <2>2. P \subseteq Int
    BY DEF PlacesOf
  <2> HIDE DEF c
  <2>3. c <= i /\ i <= c /\ c \in Int /\ i \in Int
    BY <2>1, <2>2, Zenon DEF IsLast
  <2>4. c = i
    BY <2>3
  <2> QED BY <2>4, Zenon DEF c
<1>3. last(f) = Replayed(log[i].val)
  BY <1>2, Zenon
<1>4. Applied(map, log, start) =
        [k \in (DOMAIN map \cup touched) \ gone |-> IF k \in touched THEN last(k) ELSE map[k]]
  BY Zenon DEF Applied
<1>5. f \in gone <=> last(f) = Nil
  BY <1>1, Zenon
<1> HIDE DEF touched, last, gone
<1> QED BY <1>1, <1>3, <1>4, <1>5, Zenon DEF Settled

\* A map that agrees with the log up to offset start agrees with all of it
\* once the records from there on are applied.
LEMMA AppliedAgrees ==
  ASSUME NEW n \in Names, NEW map, NEW log \in Seq(Written(n)),
         NEW start \in 0 .. Len(log),
         MapWritten(map, n), Agrees(map, n, log, start)
  PROVE  /\ MapWritten(Applied(map, log, start), n)
         /\ Agrees(Applied(map, log, start), n, log, Len(log))
<1> DEFINE new == Applied(map, log, start)
           P(f) == PlacesOf(log, start, f)
<1>1. ASSUME NEW f, P(f) # {}
      PROVE  \E i \in P(f) : IsLast(P(f), i)
  <2>1. P(f) \in SUBSET (1 .. Len(log)) /\ Len(log) \in Nat
    BY DEF PlacesOf
  <2> QED BY <1>1, <2>1, HasLast, Zenon
<1>2. ASSUME NEW f, NEW i \in P(f), IsLast(P(f), i)
      PROVE  /\ f \in FullKeys(n) /\ log[i].val \in Values \cup {Nil}
             /\ f \in DOMAIN new <=> Replayed(log[i].val) # Nil
             /\ f \in DOMAIN new => new[f] = Replayed(log[i].val)
  <2>1. i \in 1 .. Len(log) /\ log[i].key = f
    BY DEF PlacesOf
  <2>2. log[i].key \in FullKeys(n) /\ log[i].val \in Values \cup {Nil}
    BY <2>1, WrittenAt, Zenon
  <2>3. /\ f \in DOMAIN new <=> Replayed(log[i].val) # Nil
        /\ f \in DOMAIN new => new[f] = Replayed(log[i].val)
    <3>1. Settled(Applied(map, log, start), f, Replayed(log[i].val))
      BY <1>2, AppliedLast, Zenon
    <3> QED BY <3>1, Zenon DEF Settled
  <2> QED BY <2>1, <2>2, <2>3, Zenon
<1>3. ASSUME NEW f, P(f) = {}
      PROVE  /\ f \in DOMAIN new <=> f \in DOMAIN map
             /\ f \in DOMAIN map => new[f] = map[f]
  BY <1>3, AppliedKept, Zenon
<1> HIDE DEF new
<1>4. ASSUME NEW f \in DOMAIN new, f \in Prefixed(n)
      PROVE  f \in FullKeys(n) /\ new[f] \in Values
  <2>1. CASE P(f) = {}
    BY <1>3, <1>4, <2>1, Zenon DEF MapWritten
  <2>2. CASE P(f) # {}
    <3>1. PICK i \in P(f) : IsLast(P(f), i)
      BY <1>1, <2>2, Zenon
    <3>2. /\ f \in FullKeys(n) /\ log[i].val \in Values \cup {Nil}
          /\ Replayed(log[i].val) # Nil /\ new[f] = Replayed(log[i].val)
      BY <1>2, <3>1, Zenon
    <3> QED BY <3>2, Zenon DEF Replayed
  <2> QED BY <2>1, <2>2, Zenon
<1>5. ASSUME NEW f \in FullKeys(n), NEW v \in Values \ {Empty}
      PROVE  Holds(new, f, v) <=> Ends(log, Len(log), f, v)
  <2>1. CASE P(f) = {}
    <3>1. Ends(log, Len(log), f, v) <=> Ends(log, start, f, v)
      BY <2>1, EndsBefore, Zenon
    <3>2. Holds(map, f, v) <=> Ends(log, start, f, v)
      BY Zenon DEF Agrees
    <3>3. Holds(new, f, v) <=> Holds(map, f, v)
      BY <1>3, <2>1, Zenon DEF Holds
    <3> QED BY <3>1, <3>2, <3>3, Zenon
  <2>2. CASE P(f) # {}
    <3>1. PICK i \in P(f) : IsLast(P(f), i)
      BY <1>1, <2>2, Zenon
    <3>2. Ends(log, Len(log), f, v) <=> log[i].val = v
      BY <3>1, EndsLast
    <3>3. /\ f \in DOMAIN new <=> Replayed(log[i].val) # Nil
          /\ f \in DOMAIN new => new[f] = Replayed(log[i].val)
      BY <1>2, <3>1, Zenon
    <3>4. Replayed(log[i].val) = v <=> log[i].val = v
      BY StoreAssumption, Zenon DEF Replayed
    <3>5. v # Nil
      BY StoreAssumption, Zenon
    <3> QED BY <3>2, <3>3, <3>4, <3>5, Zenon DEF Holds
  <2> QED BY <2>1, <2>2, Zenon
<1>6. MapWritten(new, n)
  BY <1>4, Zenon DEF MapWritten
<1>7. Agrees(new, n, log, Len(log))
  BY <1>5, Zenon DEF Agrees
<1> QED BY <1>6, <1>7, Zenon DEF new

\* What a map shows that agrees with a log is what the log rebuilds.
LEMMA ViewFinal ==
  ASSUME NEW n \in Names, NEW map, NEW log,
         MapWritten(map, n), Agrees(map, n, log, Len(log))
  PROVE  {x \in View(map, n) : x[2] # Empty} = Final(n, log)
<1>1. ASSUME NEW x \in View(map, n), x[2] # Empty PROVE x \in Final(n, log)
  <2>1. PICK e \in EntriesOf(n) :
          FullKey(n, e) \in DOMAIN map /\ x = <<e, map[FullKey(n, e)]>>
    BY Zenon DEF View
  <2>2. FullKey(n, e) \in FullKeys(n) /\ FullKey(n, e) \in Prefixed(n)
    BY EntryBack, Zenon DEF FullKeys
  <2>3. PICK v \in Values \ {Empty} : v = map[FullKey(n, e)]
    BY <1>1, <2>1, <2>2, Zenon DEF MapWritten
  <2>4. Holds(map, FullKey(n, e), v)
    BY <2>1, <2>3, Zenon DEF Holds
  <2>5. Ends(log, Len(log), FullKey(n, e), v)
    BY <2>2, <2>4, Zenon DEF Agrees
  <2> QED BY <2>1, <2>3, <2>5, Zenon DEF Final
<1>2. ASSUME NEW x \in Final(n, log) PROVE x \in View(map, n) /\ x[2] # Empty
  <2>1. PICK e \in EntriesOf(n), v \in Values \ {Empty} :
          x = <<e, v>> /\ Ends(log, Len(log), FullKey(n, e), v)
    BY DEF Final
  <2>2. FullKey(n, e) \in FullKeys(n)
    BY Zenon DEF FullKeys
  <2>3. Holds(map, FullKey(n, e), v)
    BY <2>1, <2>2, Zenon DEF Agrees
  <2> QED BY <2>1, <2>3, Zenon DEF View, Holds
<1> QED BY <1>1, <1>2, Zenon

\* The content a log rebuilds once a mutation is appended.
LEMMA FinalAppend ==
  ASSUME NEW n \in Names, NEW log \in Seq(Written(n)), NEW e \in EntriesOf(n),
         NEW r \in Written(n), r.key = FullKey(n, e)
  PROVE  Final(n, Append(log, r)) =
           {x \in Final(n, log) : x[1] # e}
             \cup {x \in {<<e, r.val>>} : r.val \notin {Nil, Empty}}
<1> DEFINE a == Append(log, r)
<1>1. ASSUME NEW d \in EntriesOf(n), NEW v \in Values \ {Empty}
      PROVE  /\ d = e => (Ends(a, Len(a), FullKey(n, d), v) <=> r.val = v)
             /\ d # e => (Ends(a, Len(a), FullKey(n, d), v)
                            <=> Ends(log, Len(log), FullKey(n, d), v))
  <2>1. ASSUME d = e PROVE Ends(a, Len(a), FullKey(n, d), v) <=> r.val = v
    <3>1. r.key = FullKey(n, d)
      BY <2>1, Zenon
    <3> QED BY <3>1, EndsAppended, Zenon
  <2>2. ASSUME d # e PROVE Ends(a, Len(a), FullKey(n, d), v)
                             <=> Ends(log, Len(log), FullKey(n, d), v)
    <3>1. r.key # FullKey(n, d)
      BY <2>2, OneEntry, Zenon
    <3> QED BY <3>1, EndsAppendedOther, Zenon
  <2> QED BY <2>1, <2>2, Zenon
<1>2. r.val \notin {Nil, Empty} => r.val \in Values \ {Empty}
  BY Zenon DEF Written
<1>3. \A v \in Values \ {Empty} : v \notin {Nil, Empty}
  BY StoreAssumption, Zenon
<1> HIDE DEF a
<1> DEFINE F == {x \in Final(n, log) : x[1] # e}
                  \cup {x \in {<<e, r.val>>} : r.val \notin {Nil, Empty}}
<1>4. ASSUME NEW x \in Final(n, a) PROVE x \in F
  <2>1. PICK d \in EntriesOf(n), v \in Values \ {Empty} :
          x = <<d, v>> /\ Ends(a, Len(a), FullKey(n, d), v)
    BY DEF Final
  <2>2. CASE d = e
    BY <1>1, <1>3, <2>1, <2>2, Zenon
  <2>3. CASE d # e
    BY <1>1, <2>1, <2>3, Zenon DEF Final
  <2> QED BY <2>2, <2>3, Zenon
<1>5. ASSUME NEW x \in F PROVE x \in Final(n, a)
  <2>1. CASE x \in Final(n, log) /\ x[1] # e
    BY <1>1, <2>1 DEF Final
  <2>2. CASE x = <<e, r.val>> /\ r.val \notin {Nil, Empty}
    BY <1>1, <1>2, <2>2, Zenon DEF Final
  <2> QED BY <2>1, <2>2, Zenon
<1> QED BY <1>4, <1>5, Zenon DEF a
=============================================================================
