----------------------------- MODULE CurvePoint -----------------------------
(***************************************************************************)
(* The curve of crypto/btcec/btcec.go, y^2 = x^3 + B over the field of P   *)
(* elements: Jacobian addition and doubling, and the multiplication of a   *)
(* point by a number.                                                      *)
(*                                                                         *)
(* A field value is here the integer its words stand for, not reduced,     *)
(* with the magnitude the code's comments follow: how many times a         *)
(* reduced value the words may hold.  The formulas are straight-line       *)
(* programs on registers, as in the code, whose callers let the result     *)
(* share the registers of the first operand.                               *)
(***************************************************************************)
EXTENDS CurveField

CONSTANTS
  P, N,             \* the prime and the order of the base point
  curveB,           \* 7
  Gx, Gy,           \* the base point
  Hx, Hy,           \* the second base point
  lambda, beta,     \* lambda * (x, y) = (beta * x, y)
  curveBits,        \* 256, BitSize
  curveByte,        \* 8, the bits of a byte
  denormal          \* a product this small may be left one prime too large

(***************************************************************************)
(* Field values <<integer, magnitude, in order>>; the last says whether    *)
(* every operation so far was given a magnitude it may be given.           *)
(***************************************************************************)
MaxMulMagnitude == 8

Elem(v) == <<v, 1, TRUE>>
ElemNegate(a, m) == <<(m + 1) * P - a[1], m + 1, a[3] /\ a[2] <= m>>
ElemAdd(a, b) == <<a[1] + b[1], a[2] + b[2], a[3] /\ b[3]>>
ElemMulInt(a, n) == <<a[1] * n, a[2] * n, a[3]>>
ElemNormalize(a) == <<a[1] % P, 1, a[3]>>
ElemMul(a, b) ==
  LET r == ((a[1] % P) * (b[1] % P)) % P
  IN  <<IF r \in 1..denormal THEN r + P ELSE r, 1,
        a[3] /\ b[3] /\ a[2] <= MaxMulMagnitude /\ b[2] <= MaxMulMagnitude>>

Power(v, e) == FoldHalves(LAMBDA x, i : (x * v) % P, 1, [i \in 1..e |-> i])
ElemInverse(a) == <<Power(a[1] % P, P - 2), 1, a[3]>>

\* Whether the words are those of zero.
ElemIsZero(a) == a[1] = 0

(***************************************************************************)
(* Programs.  An instruction names the register it writes first; at maps   *)
(* the names of a program to the registers of its caller.                  *)
(***************************************************************************)
fSet(x, a) == <<"Set", x, a>>
fSetInt(x, n) == <<"SetInt", x, n>>
fNegate(x, m) == <<"Negate", x, m>>
fAdd2(x, a, b) == <<"Add2", x, a, b>>
fAdd(x, a) == <<"Add2", x, x, a>>
fMul2(x, a, b) == <<"Mul2", x, a, b>>
fMul(x, a) == <<"Mul2", x, x, a>>
fSquareVal(x, a) == <<"Mul2", x, a, a>>
fSquare(x) == <<"Mul2", x, x, x>>
fMulInt(x, n) == <<"MulInt", x, n>>
fNormalize(x) == <<"Normalize", x>>
fInverse(x) == <<"Inverse", x>>

Execute(mem, at, ins) ==
  LET x == at[ins[2]]
  IN  [mem EXCEPT ![x] =
         CASE ins[1] = "Set" -> mem[at[ins[3]]]
           [] ins[1] = "SetInt" -> Elem(ins[3])
           [] ins[1] = "Negate" -> ElemNegate(@, ins[3])
           [] ins[1] = "Add2" -> ElemAdd(mem[at[ins[3]]], mem[at[ins[4]]])
           [] ins[1] = "Mul2" -> ElemMul(mem[at[ins[3]]], mem[at[ins[4]]])
           [] ins[1] = "MulInt" -> ElemMulInt(@, ins[3])
           [] ins[1] = "Normalize" -> ElemNormalize(@)
           [] ins[1] = "Inverse" -> ElemInverse(@)]

Run(mem, at, program) == FoldHalves(LAMBDA m, ins : Execute(m, at, ins), mem, program)

First == {"x1", "y1", "z1"}
Second == {"x2", "y2", "z2"}
Result == {"x3", "y3", "z3"}
Locals == {"a", "b", "c", "d", "e", "f", "h", "hh", "i", "j", "r", "rr", "v",
           "u1", "u2", "s1", "s2", "z1z1", "z2z2", "zInv", "tempZ",
           "negJ", "neg2V", "negX1", "negY1", "negE", "negX3", "negU1", "negS1"}
Registers == First \cup Second \cup Result \cup Locals

\* The result has registers of its own, or those of the first operand.
Apart == [r \in Registers |-> r]
InPlace == [Apart EXCEPT !["x3"] = "x1", !["y3"] = "y1", !["z3"] = "z1"]

Same(mem, at, a, b) == mem[at[a]][1] = mem[at[b]][1]     \* Equals, word by word
Infinity == <<fSetInt("x3", 0), fSetInt("y3", 0), fSetInt("z3", 0)>>
NormalizeAll(names) == [i \in 1..Len(names) |-> fNormalize(names[i])]

(***************************************************************************)
(* Doubling.                                                               *)
(***************************************************************************)
DoubleTail ==
  << fSquareVal("a", "x1"), fSquareVal("b", "y1"), fSquareVal("c", "b"),
     fAdd("b", "x1"), fSquare("b"),
     fSet("d", "a"), fAdd("d", "c"), fNegate("d", 2), fAdd("d", "b"), fMulInt("d", 2),
     fSet("e", "a"), fMulInt("e", 3), fSquareVal("f", "e"),
     fSet("x3", "d"), fMulInt("x3", 2), fNegate("x3", 16), fAdd("x3", "f"),
     fSet("f", "x3"), fNegate("f", 18), fAdd("f", "d"), fNormalize("f"),
     fSet("y3", "c"), fMulInt("y3", 8), fNegate("y3", 8),
     fMul("f", "e"), fAdd("y3", "f") >>
  \o NormalizeAll(<<"x3", "y3", "z3">>)

doubleZ1EqualsOne == <<fSet("z3", "y1"), fMulInt("z3", 2)>> \o DoubleTail

doubleGeneric == <<fMul2("z3", "y1", "z1"), fMulInt("z3", 2)>> \o DoubleTail

doubleJacobian(mem, at) ==
  IF ElemIsZero(mem[at["y1"]]) \/ ElemIsZero(mem[at["z1"]])
  THEN Run(mem, at, Infinity)
  ELSE ValueOf(LAMBDA m : Run(m, at, IF m[at["z1"]][1] = 1 THEN doubleZ1EqualsOne ELSE doubleGeneric),
               Run(mem, at, <<fNormalize("z1")>>))

(***************************************************************************)
(* Addition.  A formula brings the operands to like terms, compares them   *)
(* and adds them unless the abscissas are equal.                           *)
(***************************************************************************)
Formula(terms, x1, y1, x2, y2, program) ==
  [terms |-> terms, x1 |-> x1, y1 |-> y1, x2 |-> x2, y2 |-> y2, program |-> program]

SumOfTerms(mem, at, f) ==
  IF ~Same(mem, at, f.x1, f.x2) THEN Run(mem, at, f.program)
  ELSE IF Same(mem, at, f.y1, f.y2) THEN doubleJacobian(mem, at)
  ELSE Run(mem, at, Infinity)

Sum(mem, at, f) == SumOfTerms(Run(mem, at, f.terms), at, f)

addZ1AndZ2EqualsOne ==
  Formula(NormalizeAll(<<"x1", "y1", "x2", "y2">>), "x1", "y1", "x2", "y2",
      << fSet("h", "x1"), fNegate("h", 1), fAdd("h", "x2"),
         fSquareVal("i", "h"), fMulInt("i", 4),
         fMul2("j", "h", "i"),
         fSet("r", "y1"), fNegate("r", 1), fAdd("r", "y2"), fMulInt("r", 2),
         fMul2("v", "x1", "i"),
         fSet("negJ", "j"), fNegate("negJ", 1),
         fSet("neg2V", "v"), fMulInt("neg2V", 2), fNegate("neg2V", 2),
         fSet("x3", "r"), fSquare("x3"), fAdd("x3", "negJ"), fAdd("x3", "neg2V"),
         fSet("negX3", "x3"), fNegate("negX3", 6),
         fMul("j", "y1"), fMulInt("j", 2), fNegate("j", 2),
         fSet("y3", "v"), fAdd("y3", "negX3"), fMul("y3", "r"), fAdd("y3", "j"),
         fSet("z3", "h"), fMulInt("z3", 2) >>
      \o NormalizeAll(<<"x3", "y3", "z3">>))

addZ1EqualsZ2 ==
  Formula(NormalizeAll(<<"x1", "y1", "x2", "y2">>), "x1", "y1", "x2", "y2",
      << fSet("negX1", "x1"), fNegate("negX1", 1),
         fSet("negY1", "y1"), fNegate("negY1", 1),
         fSet("a", "negX1"), fAdd("a", "x2"), fSquareVal("b", "a"),
         fSet("c", "negY1"), fAdd("c", "y2"), fSquareVal("d", "c"),
         fMul2("e", "x1", "b"), fSet("negE", "e"), fNegate("negE", 1),
         fMul2("f", "x2", "b"),
         fAdd2("x3", "e", "f"), fNegate("x3", 3), fAdd("x3", "d"),
         fSet("negX3", "x3"), fNegate("negX3", 5), fNormalize("negX3"),
         fAdd("f", "negE"), fSet("y3", "y1"), fMul("y3", "f"), fNegate("y3", 3),
         fAdd("e", "negX3"), fMul("e", "c"), fAdd("y3", "e"),
         fMul2("z3", "z1", "a") >>
      \o NormalizeAll(<<"x3", "y3">>))

addZ2EqualsOne ==
  Formula(
      << fNormalize("x1"), fNormalize("y1"), fSquareVal("z1z1", "z1"),
         fSet("u2", "x2"), fMul("u2", "z1z1"), fNormalize("u2"),
         fSet("s2", "y2"), fMul("s2", "z1z1"), fMul("s2", "z1"), fNormalize("s2") >>,
      "x1", "y1", "u2", "s2",
      << fSet("negX1", "x1"), fNegate("negX1", 1), fAdd2("h", "u2", "negX1"),
         fSquareVal("hh", "h"), fSet("i", "hh"), fMulInt("i", 4), fMul2("j", "h", "i"),
         fSet("negY1", "y1"), fNegate("negY1", 1),
         fSet("r", "s2"), fAdd("r", "negY1"), fMulInt("r", 2), fSquareVal("rr", "r"),
         fMul2("v", "x1", "i"),
         fSet("x3", "v"), fMulInt("x3", 2), fAdd("x3", "j"), fNegate("x3", 3), fAdd("x3", "rr"),
         fSet("negX3", "x3"), fNegate("negX3", 5),
         fSet("y3", "y1"), fMul("y3", "j"), fMulInt("y3", 2), fNegate("y3", 2),
         fAdd("v", "negX3"), fMul("v", "r"), fAdd("y3", "v"),
         fAdd2("z3", "z1", "h"), fSquare("z3"),
         fAdd("z1z1", "hh"), fNegate("z1z1", 2), fAdd("z3", "z1z1") >>
      \o NormalizeAll(<<"x3", "y3", "z3">>))

LikeTerms ==
  << fSquareVal("z1z1", "z1"), fSquareVal("z2z2", "z2"),
     fSet("u1", "x1"), fMul("u1", "z2z2"), fNormalize("u1"),
     fSet("u2", "x2"), fMul("u2", "z1z1"), fNormalize("u2"),
     fSet("s1", "y1"), fMul("s1", "z2z2"), fMul("s1", "z2"), fNormalize("s1"),
     fSet("s2", "y2"), fMul("s2", "z1z1"), fMul("s2", "z1"), fNormalize("s2") >>

\* Mutant: the ordinate is worked out after the result's z is in place.
addGenericZFirst ==
  Formula(LikeTerms, "u1", "s1", "u2", "s2",
      << fSet("negU1", "u1"), fNegate("negU1", 1), fAdd2("h", "u2", "negU1"),
         fSet("i", "h"), fMulInt("i", 2), fSquare("i"), fMul2("j", "h", "i"),
         fSet("negS1", "s1"), fNegate("negS1", 1),
         fSet("r", "s2"), fAdd("r", "negS1"), fMulInt("r", 2), fSquareVal("rr", "r"),
         fMul2("v", "u1", "i"),
         fAdd2("z3", "z1", "z2"), fSquare("z3"),
         fSquareVal("z1z1", "z1"),
         fAdd("z1z1", "z2z2"), fNegate("z1z1", 2), fAdd("z3", "z1z1"), fMul("z3", "h"),
         fSet("x3", "v"), fMulInt("x3", 2), fAdd("x3", "j"), fNegate("x3", 3), fAdd("x3", "rr"),
         fSet("negX3", "x3"), fNegate("negX3", 5),
         fMul2("y3", "s1", "j"), fMulInt("y3", 2), fNegate("y3", 2),
         fAdd("v", "negX3"), fMul("v", "r"), fAdd("y3", "v") >>
      \o NormalizeAll(<<"x3", "y3">>))

addGeneric ==
  Formula(LikeTerms, "u1", "s1", "u2", "s2",
      << fSet("negU1", "u1"), fNegate("negU1", 1), fAdd2("h", "u2", "negU1"),
         fSet("i", "h"), fMulInt("i", 2), fSquare("i"), fMul2("j", "h", "i"),
         fSet("negS1", "s1"), fNegate("negS1", 1),
         fSet("r", "s2"), fAdd("r", "negS1"), fMulInt("r", 2), fSquareVal("rr", "r"),
         fMul2("v", "u1", "i"),
         fSet("x3", "v"), fMulInt("x3", 2), fAdd("x3", "j"), fNegate("x3", 3), fAdd("x3", "rr"),
         fSet("negX3", "x3"), fNegate("negX3", 5),
         fMul2("y3", "s1", "j"), fMulInt("y3", 2), fNegate("y3", 2),
         fAdd("v", "negX3"), fMul("v", "r"), fAdd("y3", "v"),
         fAdd2("z3", "z1", "z2"), fSquare("z3"),
         fAdd("z1z1", "z2z2"), fNegate("z1z1", 2), fAdd("z3", "z1z1"), fMul("z3", "h") >>
      \o NormalizeAll(<<"x3", "y3">>))

AtInfinity(mem, x, y, z) == (ElemIsZero(mem[x]) /\ ElemIsZero(mem[y])) \/ ElemIsZero(mem[z])

FormulaFor(mem, at) ==
  IF mem["z1"][1] = 1 /\ mem["z2"][1] = 1 THEN addZ1AndZ2EqualsOne
  ELSE IF Same(mem, at, "z1", "z2") THEN addZ1EqualsZ2
  ELSE IF mem["z2"][1] = 1 THEN addZ2EqualsOne ELSE addGeneric

addJacobian(mem, at) ==
  IF AtInfinity(mem, "x1", "y1", "z1")
  THEN Run(mem, at, <<fSet("x3", "x2"), fSet("y3", "y2"), fSet("z3", "z2")>>)
  ELSE IF AtInfinity(mem, "x2", "y2", "z2")
  THEN Run(mem, at, <<fSet("x3", "x1"), fSet("y3", "y1"), fSet("z3", "z1")>>)
  ELSE ValueOf(LAMBDA m : Sum(m, at, FormulaFor(m, at)), Run(mem, at, NormalizeAll(<<"z1", "z2">>)))

(***************************************************************************)
(* Points <<x, y, z>> of field values; affine points <<x, y>> of integers, *)
(* <<0, 0>> for the point at infinity.                                     *)
(***************************************************************************)
Origin == <<Elem(0), Elem(0), Elem(0)>>

Memory(p, q) ==
  [r \in Registers |-> CASE r = "x1" -> p[1] [] r = "y1" -> p[2] [] r = "z1" -> p[3]
                         [] r = "x2" -> q[1] [] r = "y2" -> q[2] [] r = "z2" -> q[3]
                         [] OTHER -> Elem(0)]

ResultOf(mem, at) == <<mem[at["x3"]], mem[at["y3"]], mem[at["z3"]]>>

SumOf(p, q, at) == ResultOf(addJacobian(Memory(p, q), at), at)
DoubleOf(p, at) == ResultOf(doubleJacobian(Memory(p, Origin), at), at)

bigAffineToField(a) == <<Elem(a[1]), Elem(a[2]), Elem(1)>>

fieldJacobianToBigAffine(p) ==
  LET Affine(m) == <<m["x1"][1], m["y1"][1]>>
      Converted(q) ==
        Affine(Run(Memory(q, Origin), Apart,
                   << fSet("zInv", "z1"), fInverse("zInv"), fSquareVal("tempZ", "zInv"),
                      fMul("x1", "tempZ"), fMul("tempZ", "zInv"), fMul("y1", "tempZ"),
                      fSetInt("z1", 1), fNormalize("x1"), fNormalize("y1") >>))
  IN  ValueOf(Converted, p)

IsOnCurve(a) == (a[2] * a[2]) % P = ((((a[1] * a[1]) % P) * a[1]) + curveB) % P

Add(a, b) ==
  CASE a = <<0, 0>> -> b
    [] a # <<0, 0>> /\ b = <<0, 0>> -> a
    [] OTHER -> fieldJacobianToBigAffine(SumOf(bigAffineToField(a), bigAffineToField(b), Apart))

Double(a) ==
  IF a[2] = 0 THEN <<0, 0>>
  ELSE fieldJacobianToBigAffine(DoubleOf(bigAffineToField(a), Apart))
=============================================================================
