------------------------------ MODULE Fat12Entry ------------------------------
(***************************************************************************)
(* The 12-bit entries of a FAT12 allocation table, as                      *)
(* src/src/kernel/core/fs/fat12_core.c packs two of them into three bytes. *)
(* A table is a function from byte offsets to bytes.                       *)
(***************************************************************************)
EXTENDS Integers

Byte == 0 .. 255
Value == 0 .. 4095

FREE == 0     \* FAT12_CLUSTER_FREE
EOC == 4095   \* FAT12_CLUSTER_EOC

Odd(c) == c % 2 = 1

\* Offset of the first of the two bytes that hold the entry of cluster c.
Offset(c) == c + (c \div 2)

\* The two bytes after the entry of c is set to v; old is the byte's old value,
\* of which the neighbour's half is kept.
LowByte(c, v, old) == IF Odd(c) THEN (old % 16) + 16 * (v % 16) ELSE v % 256
HighByte(c, v, old) == IF Odd(c) THEN v \div 16 ELSE 16 * (old \div 16) + v \div 256

\* The entry that the two bytes hold.
Decode(c, lo, hi) == IF Odd(c) THEN (lo + 256 * hi) \div 16 ELSE (lo + 256 * hi) % 4096

PutLow(f, c, v) == [f EXCEPT ![Offset(c)] = LowByte(c, v, @)]
PutHigh(f, c, v) == [f EXCEPT ![Offset(c) + 1] = HighByte(c, v, @)]

GetEntry(f, c) == Decode(c, f[Offset(c)], f[Offset(c) + 1])
SetEntry(f, c, v) == PutHigh(PutLow(f, c, v), c, v)
=============================================================================
