--------------------------- MODULE CurveSignature ---------------------------
(***************************************************************************)
(* Keys and signatures on the curve: crypto/btcec/signature.go, pubkey.go  *)
(* and privkey.go, the 64-byte form of a signature (crypto/sig64) that     *)
(* statements carry, and crypto.VerifySig, which the server and the client *)
(* check statements with.  A byte holds curveByte bits; the marker and     *)
(* length bytes of the encodings keep their values.                        *)
(***************************************************************************)
EXTENDS CurveScalar

CONSTANTS
  holen,                \* the bytes of a hash
  minSigLen, maxSigLen, \* 65 and 72, what SigCompress takes
  minIntLen             \* 22, the shortest R or S SigCompress takes

halfOrder == N \div 2
HighBit == 2^(curveByte - 1)
Zeroes(n) == [i \in 1..n |-> 0]
Error == <<"error">>
Panic == <<"panic">>
Made(x) == <<"ok", x>>
IsMade(x) == x[1] = "ok"

ModInverse(a) == CHOOSE b \in 0..(N - 1) : (a * b) % N = 1

hashToInt(hash) ==
  LET Shifted(v, excess) == IF excess > 0 THEN v \div 2^excess ELSE v
      Cut(orderBits, n) == Shifted(FromBytes(SubSeq(hash, 1, n)), n * curveByte - orderBits)
      orderBytes == (BitLen(N) + curveByte - 1) \div curveByte
  IN  Cut(BitLen(N), Min({Len(hash), orderBytes}))

(***************************************************************************)
(* The nonce of RFC 6979.  A message authentication code is external; what *)
(* it returns here depends on every byte of the key and the message.       *)
(***************************************************************************)
mac(k, m) ==
  LET mixed == FoldLeft(LAMBDA h, x : (h * 29 + x + 11) % 4093, 7, k \o m)
  IN  [i \in 1..holen |-> (mixed \div ByteBase^(i - 1)) % ByteBase]

int2octets(v, rolen) ==
  LET Sized(out) == IF Len(out) < rolen THEN Zeroes(rolen - Len(out)) \o out
                    ELSE SubSeq(out, Len(out) - rolen + 1, Len(out))
  IN  Sized(BigBytes(v))

bits2octets(in, rolen) ==
  LET Reduced(z1) == IF z1 - N < 0 THEN z1 ELSE z1 - N
  IN  int2octets(Reduced(hashToInt(in)), rolen)

RECURSIVE Stream(_, _, _, _)
\* Codes appended until there are as many bits as the order has: <<v, t>>.
Stream(k, v, t, qlen) ==
  LET With(next) == Stream(k, next, t \o next, qlen)
  IN  IF Len(t) * curveByte < qlen THEN With(mac(k, v)) ELSE <<v, t>>

\* A key from the last key and value and more data, and a value from it: <<k, v>>.
Rekeyed(kv, data) ==
  LET With(k) == <<k, mac(k, kv[2])>>
  IN  With(mac(kv[1], kv[2] \o data))

RECURSIVE NonceFrom(_)
NonceFrom(kv) ==
  LET Try(v, secret) == IF secret >= 1 /\ secret < N THEN secret
                        ELSE NonceFrom(Rekeyed(<<kv[1], v>>, <<0>>))
      Of(stream) == Try(stream[1], hashToInt(stream[2]))
  IN  Of(Stream(kv[1], kv[2], <<>>, BitLen(N)))

nonceRFC6979(privkey, hash) ==
  LET rolen == (BitLen(N) + curveByte - 1) \div curveByte
      Seeded(bx) == Rekeyed(Rekeyed(<<Zeroes(holen), [i \in 1..holen |-> 1]>>, <<0>> \o bx), <<1>> \o bx)
  IN  NonceFrom(Seeded(int2octets(privkey, rolen) \o bits2octets(hash, rolen)))

(***************************************************************************)
(* Keys.                                                                   *)
(***************************************************************************)
PrivKeyFromBytes(pk) == [D |-> FromBytes(pk), point |-> ScalarBaseMult(pk)]

isOdd(v) == v % 2 = 1
QPlus1Div4 == (P + 1) \div 4

\* The power is taken of the product reduced, as Exp does.
decompressPoint(x, ybit) ==
  LET Matching(y) == IF ybit # isOdd(y) THEN P - y ELSE y
      Checked(y) == IF ybit # isOdd(y) THEN Error ELSE Made(y)
  IN  Checked(Matching(Power((((((x * x) % P) * (x % P)) % P) + curveB) % P, QPlus1Div4)))

pubkeyCompressed == 2
pubkeyUncompressed == 4
pubkeyHybrid == 6
paddedAppend(size, dst, src) == dst \o Zeroes(size - Len(src)) \o src

SerializeUncompressed(p) ==
  paddedAppend(byteSize, paddedAppend(byteSize, <<pubkeyUncompressed>>, BigBytes(p[1])), BigBytes(p[2]))
SerializeCompressed(p) ==
  paddedAppend(byteSize, <<pubkeyCompressed + (p[2] % 2)>>, BigBytes(p[1]))
SerializeHybrid(p) ==
  paddedAppend(byteSize, paddedAppend(byteSize, <<pubkeyHybrid + (p[2] % 2)>>, BigBytes(p[1])),
               BigBytes(p[2]))

IsCompressedPubKey(k) == Len(k) = 1 + byteSize /\ k[1] - (k[1] % 2) = pubkeyCompressed

ParsePubKey(k) ==
  LET ybit == k[1] % 2 = 1
      format == k[1] - (k[1] % 2)
      Whole(y) == IF \/ format \notin {pubkeyUncompressed, pubkeyHybrid}
                     \/ format = pubkeyHybrid /\ ybit # isOdd(y)
                  THEN Error ELSE Made(y)
      Checked(x, y) == IF IsMade(y) /\ x < P /\ y[2] < P /\ IsOnCurve(<<x, y[2]>>)
                       THEN Made(<<x, y[2]>>) ELSE Error
      Of(x) == Checked(x, IF Len(k) = 1 + 2 * byteSize
                          THEN Whole(FromBytes(SubSeq(k, 2 + byteSize, Len(k))))
                          ELSE IF Len(k) = 1 + byteSize /\ format = pubkeyCompressed
                          THEN decompressPoint(x, ybit) ELSE Error)
  IN  IF k = <<>> THEN Error ELSE Of(FromBytes(SubSeq(k, 2, Min({Len(k), 1 + byteSize}))))

(***************************************************************************)
(* Signing and verifying.  Verify is crypto/ecdsa's, external.             *)
(***************************************************************************)
signRFC6979(key, hash) ==
  LET Low(s) == IF s > halfOrder THEN N - s ELSE s
      Signature(r, s) == IF r = 0 \/ s = 0 THEN Error ELSE Made([R |-> r, S |-> s])
      With(k, r) == Signature(r, Low(((((key.D * r) + hashToInt(hash)) % N) * ModInverse(k)) % N))
      Reduced(x) == IF x > N THEN x - N ELSE x
      From(k) == With(k, Reduced(ScalarBaseMult(BigBytes(k))[1]))
  IN  From(nonceRFC6979(key.D, hash))

EcdsaVerify(q, hash, sig) ==
  /\ sig.R \in 1..(N - 1)
  /\ sig.S \in 1..(N - 1)
  /\ \E w \in {ModInverse(sig.S)} :
     \E sum \in {Add(ScalarBaseMult(BigBytes((hashToInt(hash) * w) % N)),
                     ScalarMult(q, BigBytes((sig.R * w) % N)))} :
       sum # <<0, 0>> /\ sum[1] % N = sig.R

\* r^-1 (sR - eG)
keyFromPoint(R, sig, msg, invr) ==
  Add(ScalarMult(R, BigBytes((invr * sig.S) % N)),
      ScalarBaseMult(BigBytes((((-hashToInt(msg)) % N) * invr) % N)))

\* The key for the abscissa Rx, if a point has it; the ordinate is as iter says.
keyFromAbscissa(Rx, sig, msg, iter, doChecks) ==
  LET InOrder(R) == ~doChecks \/ ScalarMult(R, BigBytes(N)) = <<0, 0>>
      Ry == decompressPoint(Rx, iter % 2 = 1)
  IN  IF Rx >= P \/ ~IsMade(Ry) \/ ~InOrder(<<Rx, Ry[2]>>) THEN Error
      ELSE Made(keyFromPoint(<<Rx, Ry[2]>>, sig, msg, ModInverse(sig.R)))

\* Mutant: the candidate abscissa is the same for every iteration.
recoverKeyFirstX(sig, msg, iter, doChecks) == keyFromAbscissa(sig.R, sig, msg, iter, doChecks)

recoverKeyFromSignature(sig, msg, iter, doChecks) ==
  keyFromAbscissa(N * (iter \div 2) + sig.R, sig, msg, iter, doChecks)

\* H, the curve's cofactor, is 1: four candidates are tried.
SignCompact(key, hash, isCompressedKey) ==
  LET Bytes(sig, hits) ==
        IF hits = <<>> THEN Error
        ELSE Made(<<27 + hits[1] + (IF isCompressedKey THEN 4 ELSE 0)>>
                  \o int2octets(sig.R, byteSize) \o int2octets(sig.S, byteSize))
      Compact(sig) == IF ~IsMade(sig) THEN Error
                      ELSE Bytes(sig[2], SelectSeq(<<0, 1, 2, 3>>, LAMBDA i :
                             recoverKeyFromSignature(sig[2], hash, i, TRUE) = Made(key.point)))
  IN  Compact(signRFC6979(key, hash))

RecoverCompact(signature, hash) ==
  LET header == signature[1] - 27
      compressed == (header \div 4) % 2 = 1
      Recovered(key) == IF IsMade(key) THEN Made([key |-> key[2], compressed |-> compressed]) ELSE Error
  IN  IF Len(signature) # 1 + 2 * byteSize THEN Error
      ELSE Recovered(recoverKeyFromSignature(
             [R |-> FromBytes(SubSeq(signature, 2, byteSize + 1)),
              S |-> FromBytes(SubSeq(signature, byteSize + 2, Len(signature)))],
             hash, IF compressed THEN header - 4 ELSE header, FALSE))

(***************************************************************************)
(* Signatures as bytes: 0x30 <length> 0x02 <length> R 0x02 <length> S.     *)
(***************************************************************************)
canonicalizeInt(v) ==
  LET NotNegative(b) == IF b[1] >= HighBit THEN <<0>> \o b ELSE b
  IN  NotNegative(IF v = 0 THEN <<0>> ELSE BigBytes(v))

\* Mutant: only the sign is looked at.
canonicalSign(b) == b[1] < HighBit

canonicalPadding(b) == b[1] < HighBit /\ ~(Len(b) > 1 /\ b[1] = 0 /\ b[2] < HighBit)

DerBytes(rb, sb) == <<48, Len(rb) + Len(sb) + 4, 2, Len(rb)>> \o rb \o <<2, Len(sb)>> \o sb

SigSerialize(sig) ==
  DerBytes(canonicalizeInt(sig.R), canonicalizeInt(IF sig.S > halfOrder THEN N - sig.S ELSE sig.S))

(***************************************************************************)
(* The length byte is a byte also when two is added to it; a signature cut *)
(* by it may end before the bytes read next.                               *)
(***************************************************************************)
parseSig(sigStr, der) ==
  LET cut == (sigStr[2] + 2) % 256
      str == SubSeq(sigStr, 1, cut)
      rLen == str[4]
      rBytes == SubSeq(str, 5, 4 + rLen)
      sLen == str[6 + rLen]
      sBytes == SubSeq(str, 7 + rLen, 6 + rLen + sLen)
      r == FromBytes(rBytes)
      s == FromBytes(sBytes)
  IN  CASE Len(sigStr) < 8 -> Error
        [] Len(sigStr) >= 8 /\ (sigStr[1] # 48 \/ cut > Len(sigStr)) -> Error
        [] OTHER ->
             IF cut < 3 THEN Panic
             ELSE IF str[3] # 2 THEN Error
             ELSE IF cut < 4 THEN Panic
             ELSE IF rLen <= 0 \/ rLen > cut - 7 THEN Error
             ELSE IF der /\ ~canonicalPadding(rBytes) THEN Error
             ELSE IF str[5 + rLen] # 2 \/ sLen <= 0 \/ sLen > cut - (6 + rLen) THEN Error
             ELSE IF der /\ ~canonicalPadding(sBytes) THEN Error
             ELSE IF cut # 6 + rLen + sLen \/ r \notin 1..(N - 1) \/ s \notin 1..(N - 1) THEN Error
             ELSE Made([R |-> r, S |-> s])

(***************************************************************************)
(* The short form: R and S in byteSize bytes each.                         *)
(***************************************************************************)
\* A wrong length byte is an error at the end; the lengths of R and S are used before.
SigCompress(sig) ==
  LET rlen == sig[4]
      sAt == 5 + rlen
      slen == sig[sAt + 1]
      lengths == minIntLen..(byteSize + 1)
      placed(b) == SubSeq(Zeroes(byteSize) \o b, Len(b) + 1, Len(b) + byteSize)
  IN  CASE Len(sig) \notin minSigLen..maxSigLen -> Error
        [] Len(sig) \in minSigLen..maxSigLen /\ (sig[1] # 48 \/ sig[3] # 2 \/ rlen \notin lengths) -> Error
        [] OTHER ->
             IF sAt > Len(sig) THEN Panic
             ELSE IF sig[sAt] # 2 THEN Error
             ELSE IF sAt + 1 > Len(sig) THEN Panic
             ELSE IF \/ slen \notin lengths
                     \/ sAt + 1 + slen > Len(sig)
                     \/ sig[2] # Len(sig) - 2 THEN Error
             ELSE Made(placed(SubSeq(sig, 5, 4 + rlen))
                       \o placed(SubSeq(sig, sAt + 2, sAt + 1 + slen)))

RECURSIVE Chopped(_)
\* Zero bytes are chopped off while what is left is still not negative.
Chopped(b) ==
  IF Len(b) > 1 /\ b[1] = 0 /\ b[2] < HighBit THEN Chopped(Tail(b)) ELSE b

SigDecompress(csig) ==
  LET half(b) == IF b[1] >= HighBit THEN <<0>> \o b ELSE Chopped(b)
  IN  DerBytes(half(SubSeq(csig, 1, byteSize)), half(SubSeq(csig, byteSize + 1, 2 * byteSize)))

(***************************************************************************)
(* VerifySig(plainText, pubKey, csig); the hash of the text is given.      *)
(***************************************************************************)
VerifySignature(hash, pubKey, csig) ==
  \E psig \in {parseSig(SigDecompress(csig), FALSE)} : \E pk \in {ParsePubKey(pubKey)} :
    IsMade(psig) /\ IsMade(pk) /\ EcdsaVerify(pk[2], hash, psig[2])
=============================================================================
