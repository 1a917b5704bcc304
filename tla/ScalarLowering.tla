----------------------------- MODULE ScalarLowering -----------------------------
(***************************************************************************)
(* The passes of FoldConstantTruncFOps.cpp and                             *)
(* LegalizePt2eTosaZeroPoint.cpp that replace one operation on numbers by  *)
(* others, and the repair of the adder they end up on                      *)
(* (fix_sv_roundeven_overflow.py).  Integers keep a width; a float is a    *)
(* number of 1/Unit, or minus infinity.                                    *)
(***************************************************************************)
EXTENDS Integers, FiniteSets

CONSTANTS
    IntBits,           \* the width of i32
    CodeBits,          \* the width of i8
    Unit,              \* the grid of the floats
    RescaleShift,      \* the shift of the identity rescale
    FewBits            \* the widths that casts are tried at

ASSUME ScalarAssumption ==
    /\ IntBits \in Nat /\ CodeBits \in 1..(IntBits - 2)
    /\ Unit \in Nat /\ Unit % 2 = 0 /\ Unit > 0
    /\ RescaleShift \in Nat \ {0}

VARIABLE
    lowered            \* the operation, its operands and what the new code yields

-----------------------------------------------------------------------------
IntMin == -(2^(IntBits - 1))
IntMax == 2^(IntBits - 1) - 1
CodeMin == -(2^(CodeBits - 1))
CodeMax == 2^(CodeBits - 1) - 1
Between(n, low, high) == IF n < low THEN low ELSE IF n > high THEN high ELSE n
TowardsZero(n) == IF n < 0 THEN -((-n) \div Unit) ELSE n \div Unit

\* The floats whose integer part fits, and minus infinity.
Finite == {[inf |-> FALSE, units |-> n] : n \in (IntMin * Unit)..(IntMax * Unit)}
MinusInfinity == [inf |-> TRUE, units |-> 0]
Float(n) == [inf |-> FALSE, units |-> n * Unit]

\* The hardware under the new operations: a conversion saturates, i32 wraps.
FPToSI(x) == IF x.inf THEN IntMin ELSE TowardsZero(x.units)
FPToCode(x) == IF x.inf THEN CodeMin ELSE Between(TowardsZero(x.units), CodeMin, CodeMax)

\* Slip: the repair knows one order of the operands.
RepairedOneWay(build, a, b) == build.repaired /\ a = -1 /\ b = IntMin

Repairs(build, a, b) == build.repaired /\ <<a, b>> \in {<<IntMin, -1>>, <<-1, IntMin>>}
std_add(build, a, b) ==
    IF Repairs(build, a, b) THEN IntMin
    ELSE ((a + b + 2^(IntBits - 1)) % 2^IntBits) - 2^(IntBits - 1)

(* The builds there are: with the guard, or with the repaired adder and the *)
(* guard switched off.                                                      *)
Builds == {[guarded |-> TRUE, repaired |-> FALSE], [guarded |-> FALSE, repaired |-> TRUE],
           [guarded |-> TRUE, repaired |-> TRUE]}

-----------------------------------------------------------------------------
(* LowerRoundEvenForCalyx, and the code its result is converted to.        *)
HalfUnit == Unit \div 2
lowerRoundEven(build, x, q412) ==
    LET truncI == FPToSI(x)
        frac   == x.units - truncI * Unit
        isOdd  == truncI % 2 = 1
        up     == IF ~x.inf /\ (frac > HalfUnit \/ (frac = HalfUnit /\ isOdd)) THEN 1 ELSE 0
        down   == IF x.inf \/ frac < -HalfUnit \/ (frac = -HalfUnit /\ isOdd) THEN -1 ELSE 0
        rounded == std_add(build, std_add(build, truncI, up), down)
    IN  IF build.guarded /\ q412 /\ x.inf THEN x ELSE Float(rounded)

\* LowerExactMathForCalyx: floor and ceil.
lowerExact(op, build, x) ==
    LET truncI == FPToSI(x)
        step == IF op = "floor" THEN IF x.units < truncI * Unit THEN -1 ELSE 0
                ELSE IF x.units > truncI * Unit THEN 1 ELSE 0
    IN  std_add(build, truncI, step)

\* A pattern of bits, extended.
Extended(kind, bits, from, to) ==
    IF kind = "extsi" /\ bits >= 2^(from - 1) THEN bits - 2^from + 2^to ELSE bits

\* LowerI1UIToFPForCalyx: by way of i32.
lowerBit(bit) == Float(Extended("extui", bit, 1, IntBits))

\* LowerConstantFPowIForCalyx: nothing but these exponents is replaced.
lowerPowi(base, power) ==
    CASE power = 0 -> 1
      [] power = 1 -> base
      [] power = 2 -> base * base
      [] power = 3 -> base * base * base

\* FoldRedundantIntegerCasts: a truncation of an extension is its operand.
FoldsCast(from, through, to) == from < through /\ from = to
foldCast(kind, bits, from, through, to) ==
    IF FoldsCast(from, through, to) THEN bits ELSE Extended(kind, bits, from, through) % 2^to

\* FoldIdentityIntegerArithmetic: an operand is a constant or not.
Identity(op) == IF op = "addi" THEN 0 ELSE 1
foldArithmetic(op, build, a, b) ==
    IF a.constant /\ a.value = Identity(op) THEN b.value
    ELSE IF b.constant /\ b.value = Identity(op) THEN a.value
    ELSE IF op = "addi" THEN std_add(build, a.value, b.value)
    ELSE ((a.value * b.value + 2^(IntBits - 1)) % 2^IntBits) - 2^(IntBits - 1)

-----------------------------------------------------------------------------
(* LegalizePt2eTosaZeroPoint: an addition of a code-wide zero point to a     *)
(* cast float is widened; any other addition is left as it is.               *)
RoundedHalfEven(units) ==
    LET floor == units \div Unit  rest == units % Unit IN
    IF rest > HalfUnit \/ (rest = HalfUnit /\ floor % 2 = 1) THEN floor + 1 ELSE floor
TosaCast(x, low, high) == IF x.inf THEN low ELSE Between(RoundedHalfEven(x.units), low, high)
NarrowAdd(a, b) == ((a + b + 2^(CodeBits - 1)) % 2^CodeBits) - 2^(CodeBits - 1)

matchPt2eZeroPointAdd(a, b) ==
    \/ a.from = "cast" /\ b.from = "splat"
    \/ b.from = "cast" /\ a.from = "splat"
Rescaled(n) == Between((n * 2^RescaleShift + 2^(RescaleShift - 1)) \div 2^RescaleShift, CodeMin, CodeMax)
Code(a) == IF a.from = "cast" THEN TosaCast(a.x, CodeMin, CodeMax) ELSE a.zero
Widened(a) == IF a.from = "cast" THEN TosaCast(a.x, IntMin, IntMax) ELSE a.zero
legalizeAdd(build, a, b) ==
    IF matchPt2eZeroPointAdd(a, b) THEN Rescaled(std_add(build, Widened(a), Widened(b)))
    ELSE NarrowAdd(Code(a), Code(b))

-----------------------------------------------------------------------------
NotLowered == [op |-> "none"]
ScalarInit == lowered = NotLowered

Lowers(op) == lowered = NotLowered /\ op

\* Only the Q4.12 division is known to overflow.
LowerRoundEven ==
    \E build \in Builds, x \in Finite \cup {MinusInfinity}, q412 \in BOOLEAN :
      /\ x.inf => q412
      /\ lowered' = [op |-> "roundeven", x |-> x, yields |-> FPToCode(lowerRoundEven(build, x, q412))]
LowerExact ==
    \E op \in {"floor", "ceil"}, build \in Builds, x \in Finite :
      lowered' = [op |-> op, x |-> x, yields |-> lowerExact(op, build, x)]
LowerPowi ==
    \E base \in CodeMin..CodeMax, power \in 0..3 :
      lowered' = [op |-> "fpowi", base |-> base, power |-> power, yields |-> lowerPowi(base, power)]
LowerBit == \E bit \in {0, 1} : lowered' = [op |-> "uitofp", bit |-> bit, yields |-> lowerBit(bit)]
FoldCast ==
    \E kind \in {"extsi", "extui"}, from, through, to \in FewBits :
      /\ from < through /\ to < through
      /\ \E bits \in 0..(2^from - 1) :
           lowered' = [op |-> kind, bits |-> bits, widths |-> <<from, through, to>>,
                       yields |-> foldCast(kind, bits, from, through, to)]
FoldArithmetic ==
    \E op \in {"addi", "muli"}, build \in Builds :
    \E a, b \in [constant: BOOLEAN, value: CodeMin..CodeMax] :
      lowered' = [op |-> op, operands |-> <<a.value, b.value>>, yields |-> foldArithmetic(op, build, a, b)]
LegalizeAdd ==
    \E build \in Builds, x \in Finite \cup {MinusInfinity}, zero \in CodeMin..CodeMax, splat \in {"splat", "other"} :
    LET operands == {[from |-> "cast", x |-> x, zero |-> 0], [from |-> splat, x |-> Float(0), zero |-> zero]} IN
    \E a \in operands : \E b \in operands \ {a} :
      lowered' = [op |-> "add", matched |-> splat = "splat", x |-> x, zero |-> zero,
                  fits |-> Widened(a) + Widened(b) \in IntMin..IntMax, yields |-> legalizeAdd(build, a, b)]

ScalarNext ==
    \/ Lowers(LowerRoundEven) \/ Lowers(LowerExact) \/ Lowers(LowerPowi) \/ Lowers(LowerBit)
    \/ Lowers(FoldCast) \/ Lowers(FoldArithmetic) \/ Lowers(LegalizeAdd)
ScalarSpec == ScalarInit /\ [][ScalarNext]_lowered

-----------------------------------------------------------------------------
(* The integer nearest to a float, the even one of two.                     *)
IsNearest(n, x) ==
    LET away == 2 * (n * Unit - x.units) IN
    -Unit <= away /\ away <= Unit /\ ({away} \cap {-Unit, Unit} # {} => n % 2 = 0)
NearestCode(x, zero) ==
    IF x.inf THEN CodeMin
    ELSE Between(zero + (CHOOSE n \in (TowardsZero(x.units) - 1)..(TowardsZero(x.units) + 1) : IsNearest(n, x)), CodeMin, CodeMax)

(* A legalized graph computes what the graph did: a rounded float gives its  *)
(* nearest code even when minus infinity or a tie meets an integer that      *)
(* wraps, on each build; a zero point is added before the code saturates;    *)
(* and a folded cast or identity changes no bit, so wraparound stays.        *)
ArithmeticIsKept ==
    CASE lowered.op = "none" -> TRUE
      [] lowered.op = "roundeven" -> lowered.yields = NearestCode(lowered.x, 0)
      [] lowered.op = "floor" -> lowered.yields * Unit <= lowered.x.units /\ lowered.x.units < (lowered.yields + 1) * Unit
      [] lowered.op = "ceil" -> lowered.yields * Unit >= lowered.x.units /\ lowered.x.units > (lowered.yields - 1) * Unit
      [] lowered.op = "fpowi" -> lowered.yields = (IF lowered.power = 0 THEN 1 ELSE lowered.base^lowered.power)
      [] lowered.op = "uitofp" -> lowered.yields = Float(lowered.bit)
      [] lowered.op \in {"extsi", "extui"} ->
            lowered.yields = Extended(lowered.op, lowered.bits, lowered.widths[1], lowered.widths[2]) % 2^lowered.widths[3]
      [] lowered.op = "addi" -> lowered.yields = lowered.operands[1] + lowered.operands[2]
      [] lowered.op = "muli" -> lowered.yields = lowered.operands[1] * lowered.operands[2]
      [] lowered.op = "add" -> lowered.matched /\ lowered.fits => lowered.yields = NearestCode(lowered.x, lowered.zero)
=============================================================================
