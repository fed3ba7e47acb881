---------------------------- MODULE HeaderRules ----------------------------
(***************************************************************************)
(* The checks the SPV client makes before it stores block headers: compact *)
(* difficulty bits, the Bitcoin retarget rule, chain work, and             *)
(* CheckHeaderChain over the header file.                                  *)
(*                                                                         *)
(* A header is a record: its hash (id), the hash of its parent (prev), its *)
(* Version, Timestamp and Bits, and the number its proof-of-work hash is   *)
(* (pow).  The header file is the sequence of its 80-byte records;         *)
(* StartHeight is 0, as in every network of coinparam.                     *)
(***************************************************************************)
EXTENDS Integers, Sequences, SequencesExt, FiniteSetsExt

CONSTANTS
  Genesis,                   \* the genesis header
  PowLimit,
  PowLimitBits,
  TargetTimespan,
  TargetTimePerBlock,
  RetargetAdjustmentFactor,
  ReduceMinDifficulty,       \* the rule of the test networks
  oneLsh,                    \* 2^256 in the code
  MaxTries                   \* how far back FindHeader looks; 2199 in the code

epochLength == TargetTimespan \div TargetTimePerBlock

\* What reading 80 zero bytes of the file gives.
Zero == [id |-> "zero", prev |-> "none", Version |-> 0, Timestamp |-> 0, Bits |-> 0, pow |-> 0]

----------------------------------------------------------------------------
(* Compact bits: exponent, sign and mantissa.                              *)

CompactToBig(compact) ==
  LET exponent == compact \div 2^24
      mantissa == compact % 2^23
      bn == IF exponent <= 3 THEN mantissa \div 256^(3 - exponent)
                             ELSE mantissa * 256^(exponent - 3)
  IN  IF (compact \div 2^23) % 2 = 1 THEN -bn ELSE bn

NumBytesOf(n) == CHOOSE k \in 0..4 : n < 256^k /\ (k > 0 => n >= 256^(k - 1))

\* For n >= 0: targets are never negative.
BigToCompact(n) ==
  LET exponent == NumBytesOf(n)
      mantissa == IF exponent <= 3 THEN n * 256^(3 - exponent) ELSE n \div 256^(exponent - 3)
  IN  CASE n = 0 -> 0
        [] n # 0 /\ mantissa >= 2^23 -> (exponent + 1) * 2^24 + mantissa \div 256
        [] OTHER -> exponent * 2^24 + mantissa

CalcWork(bits) ==
  LET difficultyNum == CompactToBig(bits)
  IN  IF difficultyNum <= 0 THEN 0 ELSE oneLsh \div (difficultyNum + 1)

----------------------------------------------------------------------------
(* The difficulty a header must have.                                      *)

Clip(lo, n, hi) == Max({lo, Min({n, hi})})

calcDiffAdjustBitcoin(start, end) ==
  LET duration == Clip(TargetTimespan \div RetargetAdjustmentFactor,
                       end.Timestamp - start.Timestamp,
                       TargetTimespan * RetargetAdjustmentFactor)
  IN  BigToCompact(Min({(CompactToBig(end.Bits) * duration) \div TargetTimespan, PowLimit}))

Failed == [err |-> TRUE]
Right(bits) == [err |-> FALSE, bits |-> bits]

\* The test networks: difficulty 1 after twenty minutes without a block, else
\* that of the last block that is not such a one, or that starts the epoch.
ReducedBits(headers, height) ==
  LET n == Len(headers)
      stops == {j \in 1..n : \/ (height - (n - j)) % epochLength = 0
                             \/ headers[j].Bits # PowLimitBits}
      found == headers[Max(stops)].Bits
  IN  CASE headers[n].Timestamp > headers[n - 1].Timestamp + 2 * TargetTimePerBlock -> PowLimitBits
        [] found = 0 -> PowLimitBits
        [] OTHER -> found

\* The bits the last of the headers, at that height, must have.
diffBitcoin(headers, height) ==
  LET maxHeader == Len(headers) - 1
      prev == headers[Len(headers) - 1]
      epochHeight == height % epochLength
  IN  CASE Len(headers) < 2 -> Failed
        [] Len(headers) >= 2 /\ prev.Bits = 0 -> Failed
        [] epochHeight > maxHeader /\ maxHeader + 10 > epochHeight -> Right(PowLimitBits)
        [] epochHeight > maxHeader -> Failed
        [] epochHeight = 0 /\ maxHeader < epochLength -> Failed
        [] epochHeight = 0 ->
             Right(calcDiffAdjustBitcoin(headers[Len(headers) - epochLength], prev))
        [] ReduceMinDifficulty -> Right(ReducedBits(headers, height))
        [] OTHER -> Right(prev.Bits)

checkProofOfWork(header) ==
  LET target == CompactToBig(header.Bits)
  IN  target > 0 /\ target <= PowLimit /\ header.pow <= target

----------------------------------------------------------------------------
(* A headers message against the file.                                     *)

\* Whether a does more work than b from the last position at which both
\* follow the same header of a; every header of a counts as its first.
moreWork(a, b) ==
  LET common == {i \in 2..Min({Len(a), Len(b)}) :
                   a[i].prev = a[i - 1].id /\ b[i].prev = a[i - 1].id}
      pos == Max(common)
      workA == (Len(a) - pos + 1) * CalcWork(a[pos].Bits)
      workB == FoldLeft(LAMBDA w, h : w + CalcWork(h.Bits), 0, SubSeq(b, pos, Len(b)))
  IN  a # <<>> /\ b # <<>> /\ common # {} /\ workA > workB

\* Where in the file the parent of hdr is: its offset, or an error at the start
\* of the file, or 0 after MaxTries headers.
FindHeader(file, hdr) ==
  LET n == Len(file)
      found == {i \in 1..n : n - i < MaxTries /\ file[i].id = hdr.prev}
  IN  CASE found # {} -> [err |-> FALSE, at |-> Max(found) - 1]
        [] found = {} /\ n < MaxTries -> Failed
        [] OTHER -> [err |-> FALSE, at |-> 0]

\* The links are looked at from the third header on.
SelfConsistent(in) ==
  /\ \A i \in 3..Len(in) : in[i].prev = in[i - 1].id
  /\ \A i \in 1..Len(in) : in[i].Version >= 0

\* The headers of the file the message is checked with.
oldHeaders(file) ==
  IF Len(file) - 1 > epochLength + 1
  THEN SubSeq(file, Len(file) - epochLength, Len(file)) ELSE file

\* Work and difficulty of every new header; the height counts on from the tip
\* of the file, also when the message attaches below it.
DifficultyRight(old, in, height) ==
  \A i \in 1..Len(in) :
    LET right == diffBitcoin(old \o SubSeq(in, 1, i), height + i - 1)
    IN  /\ checkProofOfWork(in[i])
        /\ ~right.err
        /\ in[i].Bits = right.bits

\* The verdict: "error", "more" (the -1 of the code), or "ok" with the height to
\* reorganise back to, 0 when there is none, and the offset the file is left at.
Verdict(v, reorg, offset) == [v |-> v, reorg |-> reorg, offset |-> offset]
Refused == Verdict("error", 0, 0)

\* Reorganise, had the file been left at the place it is cut at.
ReorganiseInPlace(file, in, attach) ==
  IF attach.err THEN Refused ELSE Verdict("ok", attach.at, attach.at)

Reorganise(file, in, attach) ==
  LET old == oldHeaders(file)
      height == Len(file)
      reorgDepth == height - attach.at
  IN  CASE attach.err -> Refused
        [] moreWork(in, old) -> Verdict("more", 0, 0)
        [] reorgDepth > Len(old) -> Refused
        [] ~DifficultyRight(SubSeq(old, 1, Len(old) - reorgDepth), in, height) -> Refused
        [] OTHER -> Verdict("ok", attach.at, attach.at + 1)

CheckHeaderChain(file, torn, in) ==
  CASE in = <<>> \/ ~SelfConsistent(in) -> Refused
    [] file = <<>> \/ torn -> Refused
    [] Head(in).prev # Last(file).id -> Reorganise(file, in, FindHeader(file, Head(in)))
    [] ~DifficultyRight(oldHeaders(file), in, Len(file)) -> Refused
    [] OTHER -> Verdict("ok", 0, Len(file))
============================================================================
