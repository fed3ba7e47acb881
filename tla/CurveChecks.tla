---------------------------- MODULE CurveChecks ----------------------------
(***************************************************************************)
(* What the curve arithmetic and the signatures built on it must satisfy,  *)
(* for the inputs of Inputs.                                               *)
(***************************************************************************)
EXTENDS CurveSignature, Inputs

(***************************************************************************)
(* The field: integers modulo the prime.  A product is taken four bits at  *)
(* a time, so that it stays within TLC's integers.                         *)
(***************************************************************************)
TimesModPrime(a, b) ==
  LET chunk(i) == (a \div 16^i) % 16
      part[i \in 0..7] == (((IF i = 7 THEN 0 ELSE part[i + 1] * 16) % fieldPrime)
                           + ((chunk(i) * b) % fieldPrime)) % fieldPrime
  IN  part[0]

Congruent(f, v) == FieldValue(f) % fieldPrime = v % fieldPrime
Canonical(f) ==
  /\ \A i \in Words : f[i] \in 0..(IF i = Top THEN fieldMSBMask ELSE fieldBaseMask)
  /\ FieldValue(f) < fieldPrime

\* Numbers of any size in base 1024, low end first, for the exponent of Inverse.
Digits == 1..27
Plus(a, b) ==
  LET sum[i \in Digits] == a[i] + b[i] + (IF i = 1 THEN 0 ELSE sum[i - 1] \div 1024)
  IN  SubSeq([i \in Digits |-> sum[i] % 1024], 1, 27)
TwoTo(e) == [i \in Digits |-> IF i = 1 + (e \div 10) THEN 2^(e % 10) ELSE 0]
Small(n) == [i \in Digits |-> IF i = 1 THEN n ELSE 0]

(***************************************************************************)
(* FieldIsExact: whatever spare bits the words of its operands use up to   *)
(* the magnitude the code allows (eight for a product), Normalize returns  *)
(* the one reduced representation of the same value; Mul2 and SquareVal    *)
(* return a representation of the product; NegateVal, given the magnitude, *)
(* of the opposite, and AddInt and MulInt what they say; the comparisons   *)
(* look at the value; SetBytes and PutBytes are inverse to each other; and *)
(* the chain of Inverse is the power 2^256 - 2^32 - 979, the secp256k1     *)
(* prime less two.                                                         *)
(***************************************************************************)
FieldIsExact ==
  /\ input.kind = "normalize" =>
       \E n \in {Normalize(input.a)} : 
          /\ Canonical(n) /\ Congruent(n, FieldValue(input.a))
          /\ FieldIsZero(n) = Congruent(input.a, 0)
          /\ FieldIsOdd(n) = (FieldValue(n) % 2 = 1)
          /\ FieldEquals(n, Normalize(n))
          /\ Congruent(FieldAddInt(n, 3), FieldValue(n) + 3)
          /\ Congruent(FieldMulInt(n, 8), FieldValue(n) * 8)
  /\ input.kind = "product" =>
       /\ Congruent(Mul2(input.a, input.b),
                    TimesModPrime(FieldValue(input.a) % fieldPrime, FieldValue(input.b) % fieldPrime))
       /\ FieldValue(Normalize(SquareVal(input.a))) = FieldValue(Normalize(Mul2(input.a, input.a)))
       /\ Congruent(FieldAdd2(input.a, NegateVal(input.a, 8)), 0)
  /\ input.kind = "bytes" =>
       \E f \in {SetByteSlice(input.a)} :
          /\ PutBytes(f) = [i \in 1..(FieldBytes - Len(input.a)) |-> 0] \o input.a
          /\ FieldValue(f) = FoldLeft(LAMBDA v, x : v * 2^byteBits + x, 0, input.a)
  /\ input.kind = "inverse" =>
       Plus(InverseBy(Small(1), LAMBDA x : Plus(x, x), Plus), Plus(TwoTo(32), Small(979))) = TwoTo(256)

(***************************************************************************)
(* The group of the curve, on affine points.                               *)
(***************************************************************************)
InverseMod(a) == CHOOSE b \in 1..(P - 1) : (a * b) % P = 1

AffineSum(a, b) ==
  LET slope == IF a = b THEN ((3 * a[1] * a[1]) % P) * InverseMod((2 * a[2]) % P)
               ELSE ((b[2] - a[2]) % P) * InverseMod((b[1] - a[1]) % P)
      x == (slope * slope - a[1] - b[1]) % P
  IN  IF a = <<0, 0>> THEN b ELSE IF b = <<0, 0>> THEN a
      ELSE IF a[1] = b[1] /\ (a[2] + b[2]) % P = 0 THEN <<0, 0>>
      ELSE <<x, (slope * (a[1] - x) - a[2]) % P>>

G == <<Gx, Gy>>
Multiples == [k \in 0..(N - 1) |-> FoldLeft(LAMBDA q, i : AffineSum(q, G), <<0, 0>>, [i \in 1..k |-> i])]
Log(a) == CHOOSE k \in 0..(N - 1) : Multiples[k] = a
Times(a, k) == Multiples[(Log(a) * k) % N]

\* The Jacobian form of an affine point with a given z; its y is one that was
\* negated and not normalised since, if asked for.
Jacobian(a, z, negated) ==
  LET y == (a[2] * ((z * z * z) % P)) % P
  IN  IF a = <<0, 0>> THEN Origin
      ELSE <<Elem((a[1] * z * z) % P), IF negated THEN ElemNegate(Elem(P - y), 1) ELSE Elem(y), Elem(z)>>

\* What the next formula that takes a point relies on.
WellFormed(p) ==
  /\ \A c \in 1..3 : p[c][3]
  /\ p[1][1] < P /\ p[2][1] < 2 * P /\ p[2][2] <= 2

(***************************************************************************)
(* PointsFollowGroupLaw: the sum and the double of any two points of the   *)
(* curve are those of the group, for any z of the operands, whether the    *)
(* result has registers of its own or overwrites the first operand, and    *)
(* without one operation of the formulas exceeding the magnitude it was    *)
(* told; ScalarMult, ScalarBaseMult and ScalarBaseMultH are the multiple,  *)
(* for numbers of any length, zero and multiples of the order included.    *)
(***************************************************************************)
PointsFollowGroupLaw ==
  /\ input.kind = "sum" =>
       \A at \in {Apart, InPlace} :
         \E s \in {SumOf(Jacobian(input.a, input.z1, FALSE), Jacobian(input.b, input.z2, input.negated), at)} :
            /\ WellFormed(s)
            /\ fieldJacobianToBigAffine(s) = AffineSum(input.a, input.b)
  /\ input.kind = "double" =>
       /\ \A at \in {Apart, InPlace} :
            \E d \in {DoubleOf(Jacobian(input.a, input.z1, FALSE), at)} :
               /\ WellFormed(d)
               /\ fieldJacobianToBigAffine(d) = AffineSum(input.a, input.a)
       /\ Double(input.a) = AffineSum(input.a, input.a)
  /\ input.kind = "multiple" =>
       /\ ScalarMult(input.a, input.k) = Times(input.a, FromBytes(input.k))
       /\ ScalarBaseMult(input.k) = Times(G, FromBytes(input.k))
       /\ ScalarBaseMultH(input.k) = Times(<<Hx, Hy>>, FromBytes(input.k))

\* The lengths of R and S in the encoding of a signature.
IntLens(der) == {der[4], der[6 + der[4]]}

(***************************************************************************)
(* SignaturesVerify: the signature a key makes of a hash has a low S, and  *)
(* its encodings give it back: as DER, in the compact form, from which the *)
(* key is recovered, and in the 64-byte form, in which VerifySig accepts   *)
(* it under the key's compressed form.  SigCompress refuses to make the    *)
(* 64-byte form just where R, S or the whole is shorter than it takes.  A  *)
(* signature ParseDERSignature takes has one encoding: unless its S is     *)
(* high, serialising it gives back the bytes that were parsed, and so does *)
(* the 64-byte form where SigCompress makes one of them.  A public         *)
(* key that parses is on the curve, and the format it came in gives it     *)
(* back.                                                                   *)
(***************************************************************************)
SignaturesVerify ==
  /\ input.kind = "sign" =>
       \E key \in {PrivKeyFromBytes(input.d)} : \E sig \in {signRFC6979(key, input.hash)} :
         IsMade(sig) =>
           \E der \in {SigSerialize(sig[2])} : \E csig \in {SigCompress(der)} :
           \E pub \in {SerializeCompressed(key.point)} :
           \E compact \in {SignCompact(key, input.hash, TRUE)} :
             /\ sig[2].S <= halfOrder
             /\ parseSig(der, TRUE) = sig
             /\ IsMade(csig) <=> Len(der) >= minSigLen /\ \A n \in IntLens(der) : n >= minIntLen
             /\ IsMade(csig) => /\ SigDecompress(csig[2]) = der
                                /\ VerifySignature(input.hash, pub, csig[2])
             /\ IsMade(compact)
             /\ RecoverCompact(compact[2], input.hash) = Made([key |-> key.point, compressed |-> TRUE])
  /\ input.kind = "der" =>
       \E sig \in {parseSig(input.bytes, TRUE)} :
          (IsMade(sig) /\ sig[2].S <= halfOrder) =>
             /\ SigSerialize(sig[2]) = SubSeq(input.bytes, 1, input.bytes[2] + 2)
             /\ \E csig \in {SigCompress(input.bytes)} :
                  IsMade(csig) => SigDecompress(csig[2]) = input.bytes
  /\ input.kind = "pubkey" =>
       \E pk \in {ParsePubKey(input.bytes)} :
          IsMade(pk) =>
             /\ IsOnCurve(pk[2])
             /\ IsCompressedPubKey(input.bytes) = (input.bytes = SerializeCompressed(pk[2]))
             /\ input.bytes \in {SerializeCompressed(pk[2]), SerializeHybrid(pk[2]),
                                 SerializeUncompressed(pk[2]),
                                 <<pubkeyUncompressed + 1>> \o Tail(SerializeUncompressed(pk[2]))}

-----------------------------------------------------------------------------
(***************************************************************************)
(* Inputs: words at and around the edges of their bits and of the prime,   *)
(* every point of a curve of 31 points, and its keys.                      *)
(***************************************************************************)

\* Words of a value, of magnitude at most mag.
EdgeWords(mag) ==
  {<<a, b, c, d>> : a \in {0, 1, PrimeWord(0) - 1, PrimeWord(0), mag * fieldBaseMask},
                    b \in {0, PrimeWord(1), PrimeWord(1) + 1, mag * fieldBaseMask},
                    c \in {0, fieldBaseMask - 1, fieldBaseMask, mag * fieldBaseMask},
                    d \in {0, fieldMSBMask - 1, fieldMSBMask, mag * fieldMSBMask}}
AsWords(w) == [i \in Words |-> w[i + 1]]

Factors == {<<1, 0, 0, 0>>, <<fieldBaseMask, 1, 0, fieldMSBMask>>,
            <<8 * fieldBaseMask, 8 * fieldBaseMask, 8 * fieldBaseMask, 8 * fieldMSBMask>>}

NormalizeInputs ==
  {[kind |-> "normalize", a |-> AsWords(w)] : w \in UNION {EdgeWords(mag) : mag \in {1, 2, 27}}}
ProductInputs ==
  {[kind |-> "product", a |-> AsWords(w), b |-> AsWords(v)] : w \in EdgeWords(8), v \in Factors}

ByteInputs ==
  {[kind |-> "bytes", a |-> [i \in 1..n |-> IF i = m THEN 1 ELSE x]] :
     n \in (FieldBytes - 2)..FieldBytes, m \in 0..FieldBytes, x \in {0, 2^byteBits - 1}}
  \cup {[kind |-> "inverse"]}

AllPoints == {Multiples[k] : k \in 0..(N - 1)}
SumInputs ==
  {[kind |-> "sum", a |-> Multiples[m], b |-> b, z1 |-> z[1], z2 |-> z[2], negated |-> z[3]] :
     m \in {0, 1, 2, 7, 15, 16, 30}, b \in AllPoints,
     z \in {<<1, 1, FALSE>>, <<1, 1, TRUE>>, <<1, 5, FALSE>>, <<5, 5, FALSE>>, <<5, 1, TRUE>>, <<5, 3, FALSE>>}}
DoubleInputs == {[kind |-> "double", a |-> a, z1 |-> z] : a \in AllPoints, z \in {1, 2, 3, 40}}

Numbers ==
  {[i \in 1..byteSize |-> (v \div ByteBase^(byteSize - i)) % ByteBase] : v \in 0..(2^curveBits - 1)}
  \cup {<<>>, <<0>>, <<5>>, <<1, 0, 0>>, <<7, 7, 7>>, <<3, 6, 2>>, <<0, 0, 0, 3>>}
MultipleInputs ==
  {[kind |-> "multiple", a |-> Multiples[m], k |-> k] : m \in {1, 2, 30}, k \in Numbers}

SignInputs ==
  {[kind |-> "sign", d |-> BigBytes(d), hash |-> hash] :
     d \in {1, 2, 7, 15, 16, 30}, hash \in {<<a, b, 0>> : a \in {0, 3, 7}, b \in {0, 2, 5, 7}}}

IntBytes == {<<0>>, <<1>>, <<4>>, <<0, 1>>, <<0, 4>>, <<0, 5>>, <<1, 7>>, <<3, 6>>, <<3, 7>>, <<4, 0>>}
DerInputs ==
  {[kind |-> "der", bytes |-> DerBytes(r, s)] : r \in IntBytes, s \in IntBytes}
  \cup {[kind |-> "der", bytes |-> Append(DerBytes(r, <<2>>), 0)] : r \in IntBytes}
  \cup {[kind |-> "der", bytes |-> [DerBytes(<<1, 7>>, <<1, 5>>) EXCEPT ![i] = @ + d]] :
          i \in {1, 2, 3, 4, 7, 8}, d \in {-1, 1}}
KeyInputs ==
  {[kind |-> "pubkey", bytes |-> <<f, x1, x2>>] : f \in 1..7, x1 \in 0..7, x2 \in 0..7}
  \cup {[kind |-> "pubkey", bytes |-> <<f>> \o Tail(SerializeUncompressed(a))] : f \in 2..7, a \in AllPoints}
  \cup {[kind |-> "pubkey", bytes |-> <<4, 0, 2, y1, y2>>] : y1 \in 0..7, y2 \in 0..7}
=============================================================================
