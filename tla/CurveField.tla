----------------------------- MODULE CurveField -----------------------------
(***************************************************************************)
(* The arithmetic of crypto/btcec/field.go: a value of the field of        *)
(* secp256k1 is kept in fieldWords words of fieldBase bits (the top word   *)
(* of fieldMSBBits), each with spare bits above, so that sums need no      *)
(* carry until the value is normalised.  The prime is a power of two less  *)
(* a small number of two words, which is what the reductions use.  The     *)
(* code has 10 words of 26 bits in uint32; the widths here are constants.  *)
(* Its products are taken in uint64, in which they never wrap: TLC reports *)
(* an integer that leaves its own range.                                   *)
(***************************************************************************)
EXTENDS Integers, Sequences, SequencesExt

CONSTANTS
  fieldWords,       \* 10
  fieldBase,        \* 26
  fieldMSBBits,     \* 22
  wordBits,         \* 32, of a uint32
  primeLow,         \* 977: the prime is 2^256 - (64 * 2^26 + 977)
  primeHigh,        \* 64
  byteBits          \* 8

LimbBase == 2^fieldBase
fieldBaseMask == LimbBase - 1
fieldMSBMask == 2^fieldMSBBits - 1
fieldBits == fieldBase * (fieldWords - 1) + fieldMSBBits
fieldPrime == 2^fieldBits - (primeHigh * LimbBase + primeLow)

Words == 0..(fieldWords - 1)
Top == fieldWords - 1
uint32(x) == x % 2^wordBits

\* The integer the words of f stand for.
FieldValue(f) == SumFunction([i \in Words |-> f[i] * LimbBase^i])

(***************************************************************************)
(* The words with every carry moved up; the top word keeps its excess.     *)
(***************************************************************************)
Carried(f) ==
  LET sum[i \in Words] == uint32(f[i] + (IF i = 0 THEN 0 ELSE sum[i - 1] \div LimbBase))
  IN  [i \in Words |-> IF i = Top THEN sum[i] ELSE sum[i] % LimbBase]

\* f with m times the prime's complement added to its two low words.
Complemented(f, m) == [f EXCEPT ![0] = @ + m * primeLow, ![1] = @ + m * primeHigh]

\* Mutant: a value from the prime up that does not reach the top bit is kept.
NormalizeCarryOnly(f) ==
  LET once == Carried(Complemented([f EXCEPT ![Top] = @ % 2^fieldMSBBits], f[Top] \div 2^fieldMSBBits))
      over == once[Top] \div 2^fieldMSBBits # 0
      twice == Carried(Complemented(once, IF over THEN 1 ELSE 0))
  IN  [twice EXCEPT ![Top] = @ % 2^fieldMSBBits]

(***************************************************************************)
(* One reduction by the top word's excess, and another one if the value    *)
(* carried out of the top word or is still the prime or more.              *)
(***************************************************************************)
Normalize(f) ==
  LET once == Carried(Complemented([f EXCEPT ![Top] = @ % 2^fieldMSBBits], f[Top] \div 2^fieldMSBBits))
      over == \/ /\ once[Top] = fieldMSBMask
                 /\ \A i \in 2..(Top - 1) : once[i] = fieldBaseMask
                 /\ (once[0] + primeLow) \div LimbBase + once[1] + primeHigh > fieldBaseMask
              \/ once[Top] \div 2^fieldMSBBits # 0
      twice == Carried(Complemented(once, IF over THEN 1 ELSE 0))
  IN  [twice EXCEPT ![Top] = @ % 2^fieldMSBBits]

(***************************************************************************)
(* Bytes, big end first.                                                   *)
(***************************************************************************)
FieldBytes == fieldBits \div byteBits

\* Bit j, from the low end, of the bytes b.
BitOf(b, j) == (b[Len(b) - (j \div byteBits)] \div 2^(j % byteBits)) % 2

FromBits(bit(_), first, count) ==
  SumFunction([k \in 0..(count - 1) |-> bit(first + k) * 2^k])

SetBytes(b) ==
  [i \in Words |-> FromBits(LAMBDA j : BitOf(b, j), i * fieldBase,
                            IF i = Top THEN fieldMSBBits ELSE fieldBase)]

SetByteSlice(b) == SetBytes([i \in 1..(FieldBytes - Len(b)) |-> 0] \o b)

PutBytes(f) ==
  LET bit(j) == (f[j \div fieldBase] \div 2^(j % fieldBase)) % 2
  IN  [i \in 1..FieldBytes |-> FromBits(bit, (FieldBytes - i) * byteBits, byteBits)]

FieldIsZero(f) == \A i \in Words : f[i] = 0
FieldIsOdd(f) == f[0] % 2 = 1
FieldEquals(f, g) == \A i \in Words : f[i] = g[i]

(***************************************************************************)
(* Sums and negation, word by word.                                        *)
(***************************************************************************)
PrimeWord(i) == CASE i = 0 -> LimbBase - primeLow
                  [] i = 1 -> fieldBaseMask - primeHigh
                  [] i = Top -> fieldMSBMask
                  [] OTHER -> fieldBaseMask

NegateVal(f, magnitude) == [i \in Words |-> uint32((magnitude + 1) * PrimeWord(i) - f[i])]
FieldAddInt(f, ui) == [f EXCEPT ![0] = uint32(@ + ui)]
FieldAdd2(f, g) == [i \in Words |-> uint32(f[i] + g[i])]
FieldMulInt(f, ui) == [i \in Words |-> uint32(f[i] * ui)]

(***************************************************************************)
(* Products: the columns of the long multiplication, with their carries,   *)
(* and their reduction.                                                    *)
(***************************************************************************)
Columns == 0..(2 * Top)

MulColumn(f, g, n) ==
  SumFunction([i \in {i \in Words : n - i \in Words} |-> f[i] * g[n - i]])

\* A square's column takes every pair of different words once, doubled.
SquareColumn(f, n) ==
  LET below == {i \in Words : n - i \in Words /\ i < n - i}
  IN  2 * SumFunction([i \in below |-> f[i] * f[n - i]])
      + (IF n % 2 = 0 THEN f[n \div 2] * f[n \div 2] ELSE 0)

\* The words t0, t1, ... of the columns, one more than there are columns.
ColumnWords(column(_)) ==
  LET sum[n \in Columns] == column(n) + (IF n = 0 THEN 0 ELSE sum[n - 1] \div LimbBase)
  IN  [n \in 0..(2 * Top + 1) |-> IF n = 2 * Top + 1 THEN sum[n - 1] \div LimbBase
                                                   ELSE sum[n] % LimbBase]

(***************************************************************************)
(* The upper words are multiplied by the prime's complement, adjusted for  *)
(* the bits the top word lacks, and folded into the lower ones; what then  *)
(* sticks out of the top word is folded in once more.                      *)
(***************************************************************************)
Reduce(t) ==
  LET adjust == 2^(fieldBase - fieldMSBBits)
      lowC == primeLow * adjust
      highC == primeHigh * adjust
      sum[i \in Words] ==
        t[i] + (IF i = 0 THEN 0 ELSE (sum[i - 1] \div LimbBase) + t[fieldWords + i - 1] * highC)
             + t[fieldWords + i] * (IF i = Top THEN highC * LimbBase + lowC ELSE lowC)
      m == sum[Top] \div 2^fieldMSBBits
      low == (sum[0] % LimbBase) + m * primeLow
      high == (low \div LimbBase) + (sum[1] % LimbBase) + m * primeHigh
  IN  [i \in Words |-> CASE i = 0 -> low % LimbBase
                         [] i = 1 -> high % LimbBase
                         [] i = 2 -> uint32((high \div LimbBase) + (sum[2] % LimbBase))
                         [] i = Top -> sum[Top] % 2^fieldMSBBits
                         [] OTHER -> sum[i] % LimbBase]

Mul2(f, g) == Reduce(ColumnWords(LAMBDA n : MulColumn(f, g, n)))
SquareVal(f) == Reduce(ColumnWords(LAMBDA n : SquareColumn(f, n)))

(***************************************************************************)
(* Inverse raises its argument to the prime less two by a fixed chain of   *)
(* squarings and products, given here for any Square and Mul.              *)
(***************************************************************************)
ValueOf(op(_), x) == CHOOSE y \in {op(v) : v \in {x}} : TRUE    \* op(x), with x evaluated once

\* FoldLeft, one half of the sequence after the other.
FoldHalves(op(_, _), base, seq) ==
  LET RECURSIVE Part(_, _, _)
      Part(v, from, to) ==
        LET half == (from + to) \div 2
        IN  CASE to < from -> v
              [] to = from -> op(v, seq[from])
              [] OTHER -> ValueOf(LAMBDA w : Part(w, half + 1, to), Part(v, from, half))
  IN  ValueOf(LAMBDA v : Part(v, 1, Len(seq)), base)

InverseBy(a, Square(_), Mul(_, _)) ==
  LET squared(x, n) ==
        ValueOf(LAMBDA v : FoldHalves(LAMBDA y, i : Square(y), v, [i \in 1..n |-> i]), x)
      a2 == Square(a)
      a3 == Mul(a2, a)
      a4 == Square(a2)
      a10 == Mul(Square(a4), a2)
      a11 == Mul(a10, a)
      a21 == Mul(a10, a11)
      a42 == Square(a21)
      a45 == Mul(a42, a3)
      a63 == Mul(a42, a21)
      a1019 == Mul(squared(a63, 4), a11)
      a1023 == Mul(a1019, a4)
      factors == [i \in 1..25 |-> CASE i = 22 -> a1019
                                    [] i = 25 -> a45
                                    [] OTHER -> a1023]
  IN  FoldHalves(LAMBDA x, factor : Mul(squared(x, 10), factor), a63, factors)
=============================================================================
