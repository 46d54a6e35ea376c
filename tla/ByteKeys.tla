------------------------------ MODULE ByteKeys ------------------------------
(***************************************************************************)
(* The byte strings state stores are keyed by: the order Pebble and        *)
(* bytes.Compare give them, the composite key of a windowed entry          *)
(* (internal/winkey), and the bounds of scans (stores/pebble/window_key.go *)
(* and keyvalue.go).  A byte string is a sequence of bytes; the widths of  *)
(* a byte, of a length prefix and of a timestamp are constants.            *)
(***************************************************************************)
EXTENDS Integers, Sequences

CONSTANTS
  ByteMax,     \* the largest byte, 0xff
  LenWidth,    \* the bytes of a length prefix, 4
  TimeWidth    \* the bytes of a timestamp, 8

ASSUME ByteKeysAssumption ==
  /\ ByteMax \in Nat \ {0} /\ LenWidth \in Nat \ {0} /\ TimeWidth \in Nat \ {0}
  /\ (ByteMax + 1) ^ 0 = 1
  /\ \A i \in 0 .. LenWidth + TimeWidth : (ByteMax + 1) ^ i \in Nat \ {0}
  /\ \A i \in 0 .. LenWidth + TimeWidth - 1 :
       (ByteMax + 1) ^ (i + 1) = (ByteMax + 1) * (ByteMax + 1) ^ i

Bytes == 0 .. ByteMax
ByteStrings == Seq(Bytes)
Base == ByteMax + 1

\* bytes.Compare(a, b) < 0.  At place i the two differ, or a has ended.
Less(a, b) ==
  \E i \in 1 .. Len(b) :
    /\ i <= Len(a) + 1
    /\ \A j \in 1 .. i - 1 : a[j] = b[j]
    /\ i <= Len(a) => a[i] < b[i]

\* bytes.HasPrefix(k, p).
HasPrefix(k, p) ==
  Len(p) <= Len(k) /\ \A i \in 1 .. Len(p) : k[i] = p[i]

\* Mutant of prefixUpperBound: a byte 0xff is not carried over.
UpperBoundLastByte(p) ==
  SubSeq(p, 1, Len(p) - 1) \o <<(p[Len(p)] + 1) % Base>>

\* The smallest byte string above all those that begin with p: the last byte
\* below 0xff is incremented and what follows is cut off.  <<>> stands for nil.
prefixUpperBound(p) ==
  LET S == {i \in 1 .. Len(p) : p[i] # ByteMax}
      i == CHOOSE j \in S : \A l \in S : l <= j
  IN  IF S = {} THEN <<>> ELSE SubSeq(p, 1, i - 1) \o <<p[i] + 1>>

\* binary.BigEndian.PutUint32 and PutUint64.
BigEndian(u, width) == [i \in 1 .. width |-> (u \div Base ^ (width - i)) % Base]

\* int64(binary.BigEndian.Uint64(b)).
Signed(b) ==
  LET all == Base ^ Len(b)
      u == CHOOSE v \in 0 .. all - 1 : BigEndian(v, Len(b)) = b
  IN  IF 2 * u < all THEN u ELSE u - all

LengthPrefixed(k) == BigEndian(Len(k), LenWidth) \o k

\* Mutant of CompositeKey: the key is not delimited.
CompositeKeyPlain(k, start) ==
  <<0>> \o k \o BigEndian(start % Base ^ TimeWidth, TimeWidth)

\* Length, key and start; a negative start is encoded in two's complement.
CompositeKey(k, start) ==
  LengthPrefixed(k) \o BigEndian(start % Base ^ TimeWidth, TimeWidth)

\* The key and the start of a composite key that is well formed.
IsComposite(raw) ==
  /\ Len(raw) >= LenWidth
  /\ \E n \in 0 .. Len(raw) :
       /\ SubSeq(raw, 1, LenWidth) = BigEndian(n, LenWidth)
       /\ Len(raw) = LenWidth + n + TimeWidth

DecodeWindowCompositeKey(raw) ==
  << SubSeq(raw, LenWidth + 1, Len(raw) - TimeWidth),
     Signed(SubSeq(raw, Len(raw) - TimeWidth + 1, Len(raw))) >>

\* The bounds of a scan over all starts of key k.
WindowKeyLowerBound(k) == CompositeKey(k, 0)
WindowKeyUpperBound(k) == prefixUpperBound(LengthPrefixed(k))
==============================================================================
