--------------------------- MODULE Fat12EntryProofs ---------------------------
(***************************************************************************)
(* The packing of allocation table entries is right for every table,       *)
(* cluster and value: an entry reads back as it was set and no other entry *)
(* changes, not even when power fails between the two sector writes of an  *)
(* entry that lies across a sector boundary.                               *)
(***************************************************************************)
EXTENDS Fat12Entry, TLAPS

\* Where an entry lies: two entries share three bytes.
LEMMA OffsetOf ==
    ASSUME NEW c \in Nat
    PROVE  /\ Odd(c) => \E k \in Nat : c = 2 * k + 1 /\ Offset(c) = 3 * k + 1
           /\ ~Odd(c) => \E k \in Nat : c = 2 * k /\ Offset(c) = 3 * k
<1>1. PICK k \in Nat : c = 2 * k \/ c = 2 * k + 1
  <2>1. c \div 2 \in Nat /\ (c = 2 * (c \div 2) \/ c = 2 * (c \div 2) + 1)
    OBVIOUS
  <2> QED BY <2>1
<1>2. CASE c = 2 * k
  <2>1. c % 2 = 0 /\ c \div 2 = k
    BY <1>2
  <2>2. Offset(c) = 3 * k
    BY <1>2, <2>1 DEF Offset
  <2> QED BY <1>2, <2>1, <2>2 DEF Odd
<1>3. CASE c = 2 * k + 1
  <2>1. c % 2 = 1 /\ c \div 2 = k
    BY <1>3
  <2>2. Offset(c) = 3 * k + 1
    BY <1>3, <2>1 DEF Offset
  <2> QED BY <1>3, <2>1, <2>2 DEF Odd
<1> QED BY <1>1, <1>2, <1>3

\* Quotient and remainder by the two powers of two that the packing uses.
LEMMA DivMod16 ==
    ASSUME NEW n \in Nat
    PROVE  n = 16 * (n \div 16) + (n % 16) /\ n \div 16 \in Nat /\ n % 16 \in 0 .. 15
OBVIOUS

LEMMA DivMod256 ==
    ASSUME NEW n \in Nat
    PROVE  n = 256 * (n \div 256) + (n % 256) /\ n \div 256 \in Nat /\ n % 256 \in 0 .. 255
OBVIOUS

\* Offsets are byte offsets.
LEMMA OffsetType == ASSUME NEW c \in Nat PROVE Offset(c) \in Nat
BY DEF Offset

\* The parts of a value that go into its two bytes.
LEMMA ValueParts ==
    ASSUME NEW v \in Value
    PROVE  v % 16 \in 0 .. 15 /\ v % 256 \in 0 .. 255 /\ v \div 16 \in 0 .. 255 /\ v \div 256 \in 0 .. 15
<1>1. v \in Nat /\ v <= 4095
  BY DEF Value
<1>2. v % 16 \in 0 .. 15 /\ v \div 16 \in 0 .. 255
  <2> DEFINE q == v \div 16
             r == v % 16
  <2>1. v = 16 * q + r /\ q \in Nat /\ r \in 0 .. 15
    BY <1>1, DivMod16
  <2> HIDE DEF q, r
  <2>2. q \in 0 .. 255
    BY <1>1, <2>1
  <2> QED BY <2>1, <2>2 DEF q, r
<1>3. v % 256 \in 0 .. 255 /\ v \div 256 \in 0 .. 15
  <2> DEFINE q == v \div 256
             r == v % 256
  <2>1. v = 256 * q + r /\ q \in Nat /\ r \in 0 .. 255
    BY <1>1, DivMod256
  <2> HIDE DEF q, r
  <2>2. q \in 0 .. 15
    BY <1>1, <2>1
  <2> QED BY <2>1, <2>2 DEF q, r
<1> QED BY <1>2, <1>3

\* The bytes written are bytes.
LEMMA ByteType ==
    ASSUME NEW c \in Nat, NEW v \in Value, NEW old \in Byte
    PROVE  LowByte(c, v, old) \in Byte /\ HighByte(c, v, old) \in Byte
<1>1. v % 16 \in 0 .. 15 /\ v % 256 \in 0 .. 255 /\ v \div 16 \in 0 .. 255 /\ v \div 256 \in 0 .. 15
  BY ValueParts
<1>2. old % 16 \in 0 .. 15 /\ old \div 16 \in 0 .. 15
  BY DEF Byte
<1>3. LowByte(c, v, old) \in Byte
  BY <1>1, <1>2 DEF LowByte, Byte
<1>4. HighByte(c, v, old) \in Byte
  BY <1>1, <1>2 DEF HighByte, Byte
<1> QED BY <1>3, <1>4

\* Decoding the two bytes written gives the value.
LEMMA DecodeEncode ==
    ASSUME NEW c \in Nat, NEW v \in Value, NEW a \in Byte, NEW b \in Byte
    PROVE  Decode(c, LowByte(c, v, a), HighByte(c, v, b)) = v
<1>1. CASE Odd(c)
  <2>1. LowByte(c, v, a) + 256 * HighByte(c, v, b) = (a % 16) + 16 * v
    <3>1. v = 16 * (v \div 16) + (v % 16) /\ v \div 16 \in Nat /\ v % 16 \in Nat /\ a % 16 \in Nat
      BY DivMod16 DEF Value, Byte
    <3> QED BY <1>1, <3>1 DEF LowByte, HighByte, Value
  <2>2. a % 16 \in 0 .. 15
    BY DEF Byte
  <2>3. ((a % 16) + 16 * v) \div 16 = v
    BY <2>2 DEF Value
  <2> QED BY <1>1, <2>1, <2>3 DEF Decode
<1>2. CASE ~Odd(c)
  <2>1. LowByte(c, v, a) + 256 * HighByte(c, v, b) = v + 4096 * (b \div 16)
    <3>1. v = 256 * (v \div 256) + (v % 256) /\ v \div 256 \in Nat /\ v % 256 \in Nat /\ b \div 16 \in Nat
      BY DivMod16, DivMod256 DEF Value, Byte
    <3> QED BY <1>2, <3>1 DEF LowByte, HighByte, Value
  <2> DEFINE q == b \div 16
  <2>2. q \in 0 .. 15
    BY DEF Byte
  <2> HIDE DEF q
  <2>3. (v + 4096 * q) % 4096 = v
    BY <2>2 DEF Value
  <2> QED BY <1>2, <2>1, <2>3 DEF Decode, q
<1> QED BY <1>1, <1>2

\* The half of a shared byte that belongs to the neighbour is kept.
LEMMA NeighbourHalf ==
    ASSUME NEW c \in Nat, NEW v \in Value, NEW old \in Byte
    PROVE  /\ Odd(c) => LowByte(c, v, old) % 16 = old % 16
           /\ ~Odd(c) => HighByte(c, v, old) \div 16 = old \div 16
<1>1. v % 16 \in 0 .. 15 /\ v \div 256 \in 0 .. 15
  BY ValueParts
<1>2. old % 16 \in 0 .. 15 /\ old \div 16 \in 0 .. 15
  BY DEF Byte
<1>3. ((old % 16) + 16 * (v % 16)) % 16 = old % 16
  BY <1>1, <1>2
<1>4. (16 * (old \div 16) + v \div 256) \div 16 = old \div 16
  BY <1>1, <1>2
<1> QED BY <1>3, <1>4 DEF LowByte, HighByte

\* An entry depends on its own halves of its two bytes only.
LEMMA DecodeHalves ==
    ASSUME NEW c \in Nat, NEW lo \in Byte, NEW hi \in Byte
    PROVE  /\ Odd(c) => Decode(c, lo, hi) = lo \div 16 + 16 * hi
           /\ ~Odd(c) => Decode(c, lo, hi) = lo + 256 * (hi % 16)
<1>1. (lo + 256 * hi) \div 16 = lo \div 16 + 16 * hi
  <2> DEFINE q == lo \div 16
             r == lo % 16
  <2>1. q \in 0 .. 15 /\ r \in 0 .. 15 /\ lo = 16 * q + r
    BY DivMod16 DEF Byte
  <2> HIDE DEF q, r
  <2>2. lo \div 16 = q
    BY DEF q
  <2>3. lo + 256 * hi = 16 * (q + 16 * hi) + r /\ q + 16 * hi \in Nat
    BY <2>1 DEF Byte
  <2> QED BY <2>1, <2>2, <2>3
<1>2. (lo + 256 * hi) % 4096 = lo + 256 * (hi % 16)
  <2> DEFINE q == hi \div 16
             r == hi % 16
  <2>1. q \in 0 .. 15 /\ r \in 0 .. 15 /\ hi = 16 * q + r
    BY DivMod16 DEF Byte
  <2> HIDE DEF q, r
  <2>2. hi % 16 = r
    BY DEF r
  <2>3. lo + 256 * hi = 4096 * q + (lo + 256 * r) /\ lo + 256 * r \in 0 .. 4095
    BY <2>1 DEF Byte
  <2> QED BY <2>1, <2>2, <2>3 DEF Byte
<1> QED BY <1>1, <1>2 DEF Decode

\* The tables: functions from a set of offsets to bytes.
Table(D) == [D -> Byte]
Covers(D, c) == Offset(c) \in D /\ Offset(c) + 1 \in D

\* What PutLow and PutHigh do to a byte.
LEMMA PutBytes ==
    ASSUME NEW D, NEW f \in Table(D), NEW c \in Nat, Covers(D, c), NEW v \in Value
    PROVE  /\ PutLow(f, c, v) \in Table(D) /\ PutHigh(f, c, v) \in Table(D)
           /\ PutLow(f, c, v)[Offset(c)] = LowByte(c, v, f[Offset(c)])
           /\ PutHigh(f, c, v)[Offset(c) + 1] = HighByte(c, v, f[Offset(c) + 1])
           /\ \A b \in D : b # Offset(c) => PutLow(f, c, v)[b] = f[b]
           /\ \A b \in D : b # Offset(c) + 1 => PutHigh(f, c, v)[b] = f[b]
<1>1. f[Offset(c)] \in Byte /\ f[Offset(c) + 1] \in Byte
  BY DEF Table, Covers
<1>2. LowByte(c, v, f[Offset(c)]) \in Byte /\ HighByte(c, v, f[Offset(c) + 1]) \in Byte
  BY <1>1, ByteType
<1> QED BY <1>2 DEF PutLow, PutHigh, Table, Covers

\* fat12_dev_set_fat_entry, then fat12_dev_get_fat_entry: the entry set is the
\* entry read, whatever its bytes held before.
THEOREM EntryReadsBack ==
    ASSUME NEW D, NEW f \in Table(D), NEW c \in Nat, Covers(D, c), NEW v \in Value
    PROVE  SetEntry(f, c, v) \in Table(D) /\ GetEntry(SetEntry(f, c, v), c) = v
<1> DEFINE g == PutLow(f, c, v)
           o == Offset(c)
<1>1. o \in Nat /\ o \in D /\ o + 1 \in D /\ o # o + 1
  BY OffsetType DEF Covers
<1>2. g \in Table(D) /\ g[o] = LowByte(c, v, f[o])
  BY PutBytes
<1>3. PutHigh(g, c, v) \in Table(D) /\ PutHigh(g, c, v)[o + 1] = HighByte(c, v, g[o + 1])
      /\ PutHigh(g, c, v)[o] = g[o]
  BY <1>1, <1>2, PutBytes
<1>4. f[o] \in Byte /\ g[o + 1] \in Byte
  BY <1>1, <1>2 DEF Table
<1>5. Decode(c, LowByte(c, v, f[o]), HighByte(c, v, g[o + 1])) = v
  BY <1>4, DecodeEncode
<1> QED BY <1>2, <1>3, <1>5 DEF SetEntry, GetEntry

\* Setting the low byte of c changes no other entry: the one entry that shares the
\* byte, c - 1 of an odd c, has its half of it kept.
LEMMA LowKeepsOthers ==
    ASSUME NEW D, NEW f \in Table(D), NEW c \in Nat, NEW d \in Nat, c # d,
           Covers(D, c), Covers(D, d), NEW v \in Value
    PROVE  GetEntry(PutLow(f, c, v), d) = GetEntry(f, d)
<1> DEFINE g == PutLow(f, c, v)
<1>1. g \in Table(D) /\ g[Offset(c)] = LowByte(c, v, f[Offset(c)])
      /\ \A b \in D : b # Offset(c) => g[b] = f[b]
  BY PutBytes
<1>2. f[Offset(c)] \in Byte /\ f[Offset(d)] \in Byte /\ f[Offset(d) + 1] \in Byte
      /\ g[Offset(d)] \in Byte /\ g[Offset(d) + 1] \in Byte
  BY <1>1 DEF Table, Covers
<1>3. Offset(d) # Offset(c)
  BY OffsetOf
<1>4. CASE Offset(d) + 1 = Offset(c)
  <2>1. Odd(c) /\ ~Odd(d)
    BY <1>4, OffsetOf
  <2>2. g[Offset(d)] = f[Offset(d)]
    BY <1>1, <1>3 DEF Covers
  <2>3. g[Offset(d) + 1] % 16 = f[Offset(d) + 1] % 16
    BY <1>1, <1>2, <1>4, <2>1, NeighbourHalf
  <2>4. Decode(d, g[Offset(d)], g[Offset(d) + 1]) = g[Offset(d)] + 256 * (g[Offset(d) + 1] % 16)
    BY <1>2, <2>1, DecodeHalves
  <2>5. Decode(d, f[Offset(d)], f[Offset(d) + 1]) = f[Offset(d)] + 256 * (f[Offset(d) + 1] % 16)
    BY <1>2, <2>1, DecodeHalves
  <2> HIDE DEF g
  <2> QED BY <2>2, <2>3, <2>4, <2>5, Zenon DEF GetEntry, g
<1>5. CASE Offset(d) + 1 # Offset(c)
  BY <1>1, <1>3, <1>5 DEF GetEntry, Covers
<1> QED BY <1>4, <1>5

\* Setting the high byte of c changes no other entry: the one entry that shares the
\* byte, c + 1 of an even c, has its half of it kept.
LEMMA HighKeepsOthers ==
    ASSUME NEW D, NEW f \in Table(D), NEW c \in Nat, NEW d \in Nat, c # d,
           Covers(D, c), Covers(D, d), NEW v \in Value
    PROVE  GetEntry(PutHigh(f, c, v), d) = GetEntry(f, d)
<1> DEFINE g == PutHigh(f, c, v)
<1>1. g \in Table(D) /\ g[Offset(c) + 1] = HighByte(c, v, f[Offset(c) + 1])
      /\ \A b \in D : b # Offset(c) + 1 => g[b] = f[b]
  BY PutBytes
<1>2. f[Offset(c) + 1] \in Byte /\ f[Offset(d)] \in Byte /\ f[Offset(d) + 1] \in Byte
      /\ g[Offset(d)] \in Byte /\ g[Offset(d) + 1] \in Byte
  BY <1>1 DEF Table, Covers
<1>3. Offset(d) + 1 # Offset(c) + 1
  BY OffsetOf, OffsetType
<1>4. CASE Offset(d) = Offset(c) + 1
  <2>1. ~Odd(c) /\ Odd(d)
    BY <1>4, OffsetOf
  <2>2. g[Offset(d) + 1] = f[Offset(d) + 1]
    BY <1>1, <1>3 DEF Covers
  <2>3. g[Offset(d)] \div 16 = f[Offset(d)] \div 16
    BY <1>1, <1>2, <1>4, <2>1, NeighbourHalf
  <2>4. Decode(d, g[Offset(d)], g[Offset(d) + 1]) = g[Offset(d)] \div 16 + 16 * g[Offset(d) + 1]
    BY <1>2, <2>1, DecodeHalves
  <2>5. Decode(d, f[Offset(d)], f[Offset(d) + 1]) = f[Offset(d)] \div 16 + 16 * f[Offset(d) + 1]
    BY <1>2, <2>1, DecodeHalves
  <2> HIDE DEF g
  <2> QED BY <2>2, <2>3, <2>4, <2>5, Zenon DEF GetEntry, g
<1>5. CASE Offset(d) # Offset(c) + 1
  BY <1>1, <1>3, <1>5 DEF GetEntry, Covers
<1> QED BY <1>4, <1>5

\* fat12_dev_set_fat_entry changes no entry but its own, neither when both bytes
\* are written nor when only the first sector of an entry that lies across two
\* sectors is.
THEOREM OtherEntriesKept ==
    ASSUME NEW D, NEW f \in Table(D), NEW c \in Nat, NEW d \in Nat, c # d,
           Covers(D, c), Covers(D, d), NEW v \in Value
    PROVE  /\ GetEntry(SetEntry(f, c, v), d) = GetEntry(f, d)
           /\ GetEntry(PutLow(f, c, v), d) = GetEntry(f, d)
<1>1. PutLow(f, c, v) \in Table(D)
  BY PutBytes
<1>2. GetEntry(PutLow(f, c, v), d) = GetEntry(f, d)
  BY LowKeepsOthers
<1>3. GetEntry(PutHigh(PutLow(f, c, v), c, v), d) = GetEntry(PutLow(f, c, v), d)
  BY <1>1, HighKeepsOthers
<1> QED BY <1>2, <1>3 DEF SetEntry
=============================================================================
