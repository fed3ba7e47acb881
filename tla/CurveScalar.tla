---------------------------- MODULE CurveScalar ----------------------------
(***************************************************************************)
(* Multiples of a point (crypto/btcec/btcec.go): ScalarMult splits the     *)
(* number in two halves with the curve's endomorphism and adds along their *)
(* non-adjacent forms; ScalarBaseMult adds entries of a table of the       *)
(* multiples of the base point by one byte each, which gensecp256k1.go     *)
(* generates and precompute.go loads.                                      *)
(***************************************************************************)
EXTENDS CurvePoint

byteSize == curveBits \div curveByte
ByteBase == 2^curveByte

(***************************************************************************)
(* Big-endian bytes of integers; Bytes() of zero is empty.                 *)
(***************************************************************************)
FromBytes(b) == FoldLeft(LAMBDA v, x : v * ByteBase + x, 0, b)

BitLen(v) == CHOOSE n \in 0..31 : (n = 31 \/ v < 2^n) /\ (n = 0 \/ v >= 2^(n - 1))

BigBytes(v) ==
  LET n == (BitLen(v) + curveByte - 1) \div curveByte
  IN  [i \in 1..n |-> (v \div ByteBase^(n - i)) % ByteBase]

Sign3(v) == CASE v > 0 -> 1 [] v = 0 -> 0 [] OTHER -> -1
Abs(v) == IF v < 0 THEN -v ELSE v

(***************************************************************************)
(* The vectors of the endomorphism: the extended Euclidean algorithm on N  *)
(* and lambda, stopped around the root of N.                               *)
(***************************************************************************)
RECURSIVE SqrtFrom(_, _)
SqrtFrom(n, guess) ==
  LET next == (guess + n \div guess) \div 2
  IN  IF next = guess THEN guess ELSE SqrtFrom(n, next)

SqrtOf(n) == SqrtFrom(n, 2^(BitLen(n) \div 2))

RECURSIVE EuclidSteps(_, _, _, _)
\* u and v are remainders, y1 and y2 their factors of lambda; old is the pair before.
EuclidSteps(u, v, y, old) ==
  LET r == v % u
      t == y[2] - (v \div u) * y[1]
  IN  IF r >= SqrtOf(N) THEN EuclidSteps(r, u, <<t, y[1]>>, <<r, t>>)
      ELSE LET r2 == u % r
               t2 == y[1] - (u \div r) * t
           IN  [a1 |-> r, b1 |-> -t,
                a2 |-> IF old[1]^2 + old[2]^2 <= r2^2 + t2^2 THEN old[1] ELSE r2,
                b2 |-> IF old[1]^2 + old[2]^2 <= r2^2 + t2^2 THEN -old[2] ELSE -t2]

EndomorphismVectors == EuclidSteps(N, lambda, <<0, 1>>, <<0, 0>>)

(***************************************************************************)
(* k = k1 + k2 * lambda, with both small; without their signs, and these.  *)
(***************************************************************************)
splitK(k) ==
  LET Signed(k1, k2) == <<BigBytes(Abs(k1)), BigBytes(Abs(k2)), Sign3(k1), Sign3(k2)>>
      Halves(e, v, c1, c2) == Signed(v - c1 * e.a1 + c2 * e.a2, c2 * e.b2 - c1 * e.b1)
      With(e, v) == Halves(e, v, (e.b2 * v) \div N, (e.b1 * v) \div N)
  IN  With(EndomorphismVectors, FromBytes(k))

moduloReduce(k) == IF Len(k) > byteSize THEN BigBytes(FromBytes(k) % N) ELSE k

(***************************************************************************)
(* The non-adjacent form of k: the digits +1, -1 and 0 of its bits, low    *)
(* end first, with one more byte of them when a carry is left.             *)
(***************************************************************************)
NAF(k) ==
  LET size == Len(k) * curveByte
      one(n) == n < size /\ (k[Len(k) - (n \div curveByte)] \div 2^(n % curveByte)) % 2 = 1
      carry[n \in 0..size] ==
        IF n = 0 THEN FALSE
        ELSE IF carry[n - 1] THEN one(n - 1) \/ one(n) ELSE one(n - 1) /\ one(n)
      digit(n) == IF carry[n] = one(n) THEN 0 ELSE IF one(n + 1) THEN -1 ELSE 1
  IN  [n \in 1..(IF carry[size] THEN size + curveByte ELSE size) |->
         IF n <= size THEN digit(n - 1) ELSE IF n = size + 1 THEN 1 ELSE 0]

Digit(naf, n) == IF n <= Len(naf) THEN naf[n] ELSE 0

(***************************************************************************)
(* k * a: the halves of k go with the point and its image; a negative     *)
(* half takes the opposite point for its digits.                           *)
(***************************************************************************)
plusDigit(q, half, d) ==
  LET negated(p) == [p EXCEPT ![2] = ElemNegate(@, 1)]
  IN  IF d = 0 THEN q
      ELSE SumOf(q, IF (d = -1) = (half.sign = -1) THEN half.p ELSE negated(half.p), InPlace)

\* Left to right along both forms.
AlongForms(halves) ==
  FoldLeft(LAMBDA q, n : FoldLeft(LAMBDA sum, half : plusDigit(sum, half, Digit(half.naf, n)),
                                  DoubleOf(q, InPlace), halves),
           Origin, Reverse([n \in 1..Max({Len(halves[1].naf), Len(halves[2].naf)}) |-> n]))

ScalarMult(a, k) ==
  LET Halves(split, p1) ==
        <<[p |-> p1, sign |-> split[3], naf |-> NAF(split[1])],
          [p |-> [p1 EXCEPT ![1] = ElemMul(@, Elem(beta))], sign |-> split[4], naf |-> NAF(split[2])]>>
  IN  fieldJacobianToBigAffine(
        AlongForms(Halves(splitK(moduloReduce(k)), bigAffineToField(a))))

(***************************************************************************)
(* The table: entry [n][b] is byte b at place n, from the high end, times  *)
(* the base point, as Jacobian words that need not be normalised.          *)
(***************************************************************************)
getDoublingPoints(a) ==
  LET points[i \in 0..(curveBits - 1)] ==
        IF i = 0 THEN bigAffineToField(a) ELSE DoubleOf(points[i - 1], InPlace)
  IN  points

SerializedBytePoints(a) ==
  LET Windows(doubling) ==
        [n \in 1..byteSize |-> [b \in 0..(ByteBase - 1) |->
           FoldLeft(LAMBDA p, j : IF (b \div 2^j) % 2 = 1
                                  THEN SumOf(p, doubling[curveByte * (byteSize - n) + j], InPlace) ELSE p,
                    Origin, [j \in 1..curveByte |-> j - 1])]]
  IN  Windows(getDoublingPoints(a))

bytePoints == SerializedBytePoints(<<Gx, Gy>>)
bytePointsH == SerializedBytePoints(<<Hx, Hy>>)

FromTable(table, k) ==
  LET Sums(newK) ==
        FoldLeft(LAMBDA q, i : SumOf(q, table[byteSize - Len(newK) + i][newK[i]], InPlace), Origin,
                 [i \in 1..Len(newK) |-> i])
  IN  fieldJacobianToBigAffine(ValueOf(Sums, moduloReduce(k)))

ScalarBaseMult(k) == FromTable(bytePoints, k)
ScalarBaseMultH(k) == FromTable(bytePointsH, k)
=============================================================================
