---------------------------- MODULE FloatPrimitives ----------------------------
(***************************************************************************)
(* rtl/fp/circt_fp_primitives.sv.  First the arithmetic of its package:    *)
(* floats are converted to fixed point, computed with, and converted back. *)
(* Then its modules, each an operation behind the handshake ports CIRCT    *)
(* gives it, with a producer at each input and a consumer that may stall;  *)
(* a step is a clock edge.  The source has W = 32 (Q16.16, so F = 16) and  *)
(* the IEEE formats; every formula here is the source's at the widths of   *)
(* the constants, and keeps them.                                          *)
(*                                                                         *)
(* A float is a record of its three fields, a fixed-point number the       *)
(* integer of its W bits: q stands for q / 2^F.                            *)
(***************************************************************************)
EXTENDS Integers, Sequences, SequencesExt

CONSTANTS
  W,        (* bits of a fixed-point number; intermediates have 2 W        *)
  F,        (* bits of its fraction                                        *)
  N,        (* bits of the narrow integer type (ui8)                       *)
  Single,   (* [exp, frac]: field widths of f32                            *)
  Double    (* and of f64                                                  *)

ASSUME WidthAssumption == W \in Nat /\ F \in 1 .. W - 1 /\ N \in 1 .. W - F
ASSUME FormatAssumption == Single \in [exp : Nat \ {0}, frac : Nat \ {0}]
                       /\ Double \in [exp : Nat \ {0}, frac : Nat \ {0}]

QMin == -(2^(W - 1))
QMax == 2^(W - 1) - 1
Q == QMin .. QMax
One == 2^F
Units(n) == n * One

Neg(x) == IF x = QMin THEN QMin ELSE -x              \* of W bits
Wide(x) == ((x + 2^(2*W - 1)) % 2^(2*W)) - 2^(2*W - 1)  \* of 2 W bits
Shr(x, n) == x \div 2^n                              \* arithmetic
Truncated(a, b) ==                                   \* the quotient towards zero
  IF a >= 0 <=> b > 0 THEN (IF a >= 0 THEN a \div b ELSE (-a) \div (-b))
  ELSE -((IF a >= 0 THEN a ELSE -a) \div (IF b > 0 THEN b ELSE -b))

Sat(x) == IF x > QMax THEN QMax ELSE IF x < QMin THEN QMin ELSE x

-----------------------------------------------------------------------------
(* Conversions. *)

Floats(fmt) == [sign : BOOLEAN, exp : 0 .. 2^fmt.exp - 1, frac : 0 .. 2^fmt.frac - 1]
Bias(fmt) == 2^(fmt.exp - 1) - 1

Mantissa(f, fmt) == IF f.exp = 0 THEN f.frac ELSE 2^fmt.frac + f.frac
Exponent(f, fmt) == IF f.exp = 0 THEN 1 - Bias(fmt) ELSE f.exp - Bias(fmt)
\* How far the mantissa is shifted left to become a fixed-point number.
Shift(f, fmt) == Exponent(f, fmt) - fmt.frac + F

\* Bits shifted out of the 2 W are lost.
Dropped(mantissa, n) == IF n > 2*W THEN 0 ELSE mantissa \div 2^n
Scaled(mantissa, shift) ==
  IF shift >= 2*W THEN 0
  ELSE IF shift >= 0 THEN Wide((mantissa % 2^(2*W - shift)) * 2^shift)
  ELSE Dropped(mantissa, -shift)

\* Slip: the scaled mantissa is cut to W bits instead of saturated.
ToQWraps(f, fmt) ==
  LET m == Scaled(Mantissa(f, fmt), Shift(f, fmt))
      x == IF f.sign THEN -m ELSE m
  IN ((x + 2^(W - 1)) % 2^W) - 2^(W - 1)
ToQ(f, fmt) ==
  IF f.exp = 0 /\ f.frac = 0 THEN 0
  ELSE IF f.exp = 2^fmt.exp - 1 THEN (IF f.sign THEN QMin ELSE QMax)
  ELSE LET m == Scaled(Mantissa(f, fmt), Shift(f, fmt))
       IN Sat(IF f.sign THEN Wide(-m) ELSE m)

Zero == [sign |-> FALSE, exp |-> 0, frac |-> 0]
TopBit(magnitude) == CHOOSE n \in 0 .. W - 1 : 2^n <= magnitude /\ magnitude < 2^(n + 1)

\* Back to a float: the bits below the significand are dropped.  A W-bit
\* number is never outside the exponents of the format.
ToFloat(q) ==
  IF q = 0 THEN Zero
  ELSE LET magnitude == IF q < 0 THEN -q ELSE q
           top == TopBit(magnitude)
           norm == IF top >= Single.frac THEN Shr(magnitude, top - Single.frac)
                   ELSE magnitude * 2^(Single.frac - top)
       IN [sign |-> q < 0, exp |-> top - F + Bias(Single), frac |-> norm % 2^Single.frac]

FromInt(n) == Sat(n * One)

-----------------------------------------------------------------------------
(* The conversions as scripts/comparison/evaluate_tinystories_1m_q_exp_    *)
(* candidate.py rewrites them, on integers of any width.                   *)

CandidateToQ(f) ==
  LET shift == Shift(f, Single)
      magnitude == IF shift >= 0 THEN Mantissa(f, Single) * 2^shift
                   ELSE Dropped(Mantissa(f, Single), -shift)
  IN IF f.exp = 2^Single.exp - 1 THEN (IF f.sign THEN QMin ELSE QMax)
     ELSE Sat(IF f.sign THEN -magnitude ELSE magnitude)

-----------------------------------------------------------------------------
(* Arithmetic. *)

Mul(a, b) == Sat(Shr(a * b, F))
Div(a, b) == IF b = 0 THEN (IF a < 0 THEN QMin ELSE QMax) ELSE Sat(Truncated(a * One, b))

\* 1 + x + x^2/2 + x^3/6 + x^4/24 between -8 and 8.
Exp(x) ==
  LET t1 == Mul(One, x)
      t2 == Mul(t1, x)
      t3 == Mul(t2, x)
      t4 == Mul(t3, x)
  IN IF x <= -Units(8) THEN 0
     ELSE IF x >= Units(8) THEN QMax
     ELSE Sat(Sat(Sat(Sat(One + t1) + Truncated(t2, 2)) + Truncated(t3, 6)) + Truncated(t4, 24))

\* x (27 + x^2) / (27 + 9 x^2) between -4 and 4.
Tanh(x) ==
  IF x >= Units(4) THEN One
  ELSE IF x <= -Units(4) THEN -One
  ELSE LET x2 == Mul(x, x)
       IN Div(Mul(x, Sat(Units(27) + x2)), Sat(Units(27) + Mul(Units(9), x2)))

NewtonStep(x, y) == Mul(y, Sat(3 * 2^(F - 1) - Shr(Mul(x, Mul(y, y)), 1)))
Rsqrt(x) == IF x <= 0 THEN 0 ELSE NewtonStep(x, NewtonStep(x, NewtonStep(x, One)))

\* Square and multiply over the bits of an unsigned exponent of 2 W bits.
Bit(p, i) == Shr(p, i) % 2 = 1
PowStep(acc, set) ==
  [base |-> Mul(acc.base, acc.base), res |-> IF set THEN Mul(acc.res, acc.base) ELSE acc.res]
Powi(x, p) ==
  LET acc[i \in 0 .. 2*W] ==
        IF i = 0 THEN [base |-> x, res |-> One] ELSE PowStep(acc[i - 1], Bit(p, i - 1))
  IN acc[2*W].res

-----------------------------------------------------------------------------
(* Rounding. *)

Magnitude(x) == IF x < 0 THEN Neg(x) ELSE x

\* Slip: a half is rounded up whatever the integer part is.
RoundUpHalf(mag) == mag % One >= One \div 2
\* Towards the nearer integer, a half towards the even one.
RoundUp(mag) ==
  LET frac == mag % One
      odd == Shr(mag, F) % 2 = 1
  IN frac > One \div 2 \/ (frac = One \div 2 /\ odd)
RoundEven(x) ==
  LET mag == Magnitude(x)
      rounded == Sat((Shr(mag, F) + (IF RoundUp(mag) THEN 1 ELSE 0)) * One)
  IN IF x < 0 THEN Neg(rounded) ELSE rounded

Clamp(x, lo, hi) == IF x > hi THEN hi ELSE IF x < lo THEN lo ELSE x

Floor(x) == Sat(Shr(x, F) * One)
Ceil(x) == Sat((Shr(x, F) + (IF x < 0 \/ x % One = 0 THEN 0 ELSE 1)) * One)

-----------------------------------------------------------------------------
(* The modules. *)

CONSTANTS
  Unary,     (* the one-input operations driven, of UnaryResult            *)
  Binary,    (* the two-input operations driven, of BinaryResult           *)
  Args0, Args1,  (* Args0[op], Args1[op]: the tokens driven into op        *)
  Tokens     (* Tokens[op]: how many tokens each producer of op has        *)

ASSUME TokensAssumption == Tokens \in [Unary \cup Binary -> Nat]

\* The narrow conversions: a float to a clamped integer, and back unsigned.
ToNarrowSigned(q) ==
  Clamp(Shr(q, F), -(2^(N - 1)), 2^(N - 1) - 1) % 2^N
ToNarrowUnsigned(q) == Clamp(Shr(q, F), 0, 2^N - 1)

\* The operations on fixed-point numbers of one and of two inputs.
Fixed1(o, x) ==
  CASE o = "roundeven" -> RoundEven(x)
    [] o = "floor" -> Floor(x)
    [] o = "ceil"  -> Ceil(x)
    [] o = "exp"   -> Exp(x)
    [] o = "rsqrt" -> Rsqrt(x)
    [] o = "tanh"  -> Tanh(x)

\* The exponent of powf: its integer part, but shifted without its sign.
PowfExponent(y) == Shr(y % 2^(2*W), F)

Fixed2(o, x, y) ==
  CASE o = "addf" -> Sat(x + y)
    [] o = "subf" -> Sat(x - y)
    [] o = "mulf" -> Mul(x, y)
    [] o = "divf" -> Div(x, y)
    [] o = "maximumf" -> IF x > y THEN x ELSE y
    [] o = "powf" -> Powi(x, PowfExponent(y))

Comparisons == {"ogt", "ugt", "uge", "oeq", "uno", "ult"}
Compared(o, x, y) ==
  CASE o \in {"ogt", "ugt"} -> x > y
    [] o = "uge" -> x >= y
    [] o = "oeq" -> x = y
    [] o = "ult" -> x < y
    [] o = "uno" -> FALSE

UnaryResult(o, a) ==
  CASE o \in {"sitofp_ui8", "sitofp_ui32"} -> ToFloat(FromInt(a))
    [] o = "uitofp_ui1"  -> ToFloat(IF a THEN One ELSE 0)
    [] o = "truncf"      -> ToFloat(ToQ(a, Double))
    [] o = "fptosi_ui8"  -> ToNarrowSigned(ToQ(a, Single))
    [] o = "fptoui_ui8"  -> ToNarrowUnsigned(ToQ(a, Single))
    [] o = "fptosi_ui32" -> Shr(ToQ(a, Single), F)
    [] OTHER             -> ToFloat(Fixed1(o, ToQ(a, Single)))

BinaryResult(o, a, b) ==
  CASE o = "fpowi"         -> ToFloat(Powi(ToQ(a, Single), b))
    [] o \in Comparisons  -> Compared(o, ToQ(a, Single), ToQ(b, Single))
    [] OTHER               -> ToFloat(Fixed2(o, ToQ(a, Single), ToQ(b, Single)))

Result(o, a, b) == IF o \in Unary THEN UnaryResult(o, a) ELSE BinaryResult(o, a, b)

-----------------------------------------------------------------------------
VARIABLES
  op,         (* the operation of this module                              *)
  sent0, sent1,   (* the tokens each producer has offered so far           *)
  valid0, valid1, (* it still offers the last of them                      *)
  ready,      (* the consumer is ready at the coming edge                  *)
  outputs     (* the results the consumer has taken                        *)

vars == <<op, sent0, sent1, valid0, valid1, ready, outputs>>

\* A one-input operation is not joined with a second.
Joined == op \in Binary
OutValid == valid0 /\ (Joined => valid1)
\* Slip: an input is ready without the other.
In0ReadyAlone == ready
In0Ready == ready /\ (Joined => valid1)
In1Ready == ready /\ valid0

Init ==
  /\ op \in Unary \cup Binary
  /\ sent0 = <<>> /\ sent1 = <<>>
  /\ valid0 = FALSE /\ valid1 = FALSE
  /\ ready = FALSE
  /\ outputs = <<>>

\* What is offered stays offered until it is taken; then the producer may
\* offer its next token.
Offer0(offer) ==
  LET keeps == valid0 /\ ~In0Ready
      next == offer /\ ~keeps /\ Len(sent0) < Tokens[op]
  IN /\ valid0' = (keeps \/ next)
     /\ sent0' \in IF next THEN {Append(sent0, a) : a \in Args0[op]} ELSE {sent0}

Offer1(offer) ==
  LET keeps == valid1 /\ ~In1Ready
      next == offer /\ ~keeps /\ Joined /\ Len(sent1) < Tokens[op]
  IN /\ valid1' = (keeps \/ next)
     /\ sent1' \in IF next THEN {Append(sent1, b) : b \in Args1[op]} ELSE {sent1}

Take ==
  outputs' = IF ready /\ OutValid
             THEN Append(outputs, Result(op, Last(sent0), IF Joined THEN Last(sent1) ELSE Zero))
             ELSE outputs

Next ==
  \E offer0 \in BOOLEAN, offer1 \in BOOLEAN, go \in BOOLEAN :
    /\ Offer0(offer0)
    /\ Offer1(offer1)
    /\ Take
    /\ ready' = go
    /\ UNCHANGED op

Spec == Init /\ [][Next]_vars

-----------------------------------------------------------------------------
(* Correctness. *)

\* Both inputs are taken with the output and with each other: the n-th result
\* is the operation on the n-th tokens, and no token is lost or taken twice.
PairsInOrder ==
  LET taken0 == Len(sent0) - (IF valid0 THEN 1 ELSE 0)
      taken1 == Len(sent1) - (IF valid1 THEN 1 ELSE 0)
  IN /\ Len(outputs) = taken0
     /\ Joined => Len(outputs) = taken1
     /\ \A n \in 1 .. Len(outputs) :
          outputs[n] = Result(op, sent0[n], IF Joined THEN sent1[n] ELSE Zero)

\* A float whose scaled mantissa fits 2 W bits: below 2^47 in the source.
Fits(f) == Shift(f, Single) + Single.frac + 1 < 2*W

\* The number the float stands for, rounded towards zero or saturated.
Truncates(f, q) ==
  LET shift == Shift(f, Single)
      mantissa == Mantissa(f, Single)
      magnitude == IF q < 0 THEN -q ELSE q
  IN /\ f.sign => q <= 0
     /\ ~f.sign => q >= 0
     /\ CASE shift >= 0 -> \/ magnitude = mantissa * 2^shift
                           \/ q \in {QMin, QMax} /\ magnitude <= mantissa * 2^shift
          [] shift \in -W .. -1 -> /\ magnitude * 2^(-shift) <= mantissa
                                   /\ mantissa < (magnitude + 1) * 2^(-shift)
          [] OTHER -> magnitude = 0

\* A fixed-point number that goes to a float and back loses only the bits
\* below the significand.
SurvivesFloat(q) ==
  LET magnitude == IF q < 0 THEN -q ELSE q
      lost == CHOOSE d \in 0 .. W : /\ magnitude < 2^(Single.frac + 1 + d)
                                    /\ d = 0 \/ magnitude >= 2^(Single.frac + d)
  IN ToQ(ToFloat(q), Single) = Truncated(q, 2^lost) * 2^lost

\* Every float that fits is truncated or saturated, as the candidate script
\* does it, and every fixed-point number survives the way out and back.
ConversionIsRight ==
  \A n \in 1 .. Len(sent0) :
    LET f == sent0[n] IN
    IF op \in {"sitofp_ui8", "sitofp_ui32"} THEN SurvivesFloat(FromInt(f))
    ELSE op \notin {"uitofp_ui1", "truncf"} /\ Fits(f) =>
           /\ Truncates(f, ToQ(f, Single))
           /\ ToQ(f, Single) = CandidateToQ(f)
           /\ SurvivesFloat(ToQ(f, Single))

-----------------------------------------------------------------------------
(* What each operation promises, on floats that fit. *)

\* The order of floats is the order of their fields.
Key(f) == (IF f.sign THEN -1 ELSE 1) * (f.exp * 2^Single.frac + f.frac)

\* A comparison may take close floats for equal, but never the wrong way.
Compares(a, b, out) ==
  CASE op \in {"ogt", "ugt"} -> out => Key(a) > Key(b)
    [] op = "ult" -> out => Key(a) < Key(b)
    [] op = "uge" -> Key(a) >= Key(b) => out
    [] op = "oeq" -> Key(a) = Key(b) => out
    [] op = "uno" -> ~out
    [] OTHER      -> TRUE

Whole(q) == q % One = 0

\* To an integer in the direction named, away from the ends of the range.  The
\* ceiling is only claimed of numbers that are not negative.
Rounds(x, q) ==
  CASE op = "floor" -> Whole(q) /\ q <= x /\ x < q + One
    [] op = "ceil"  -> 0 <= x /\ x <= QMax + 1 - One => Whole(q) /\ x <= q /\ q < x + One
    [] op = "roundeven" -> QMin + One <= x /\ x <= QMax - One =>
         /\ Whole(q)
         /\ 2*(x - q) \in -One .. One
         /\ 2*(x - q) \in {-One, One} => Whole(Shr(q, 1))
    [] OTHER -> TRUE

\* n is the integer part of x, or the bound it was clamped at.
IntegerPart(x, n, lo, hi) ==
  \/ n * One <= x /\ x < (n + 1) * One
  \/ n = lo /\ x < lo * One
  \/ n = hi /\ x > hi * One

Half == 2^(N - 1)
Narrows(x, n) ==
  CASE op = "fptosi_ui8" -> IntegerPart(x, IF n >= Half THEN n - 2*Half ELSE n, -Half, Half - 1)
    [] op = "fptoui_ui8" -> IntegerPart(x, n, 0, 2*Half - 1)
    [] OTHER -> TRUE

\* The product and the quotient, rounded down and towards zero, or saturated.
Calculates(x, y, q) ==
  CASE op = "mulf" ->
         \/ q * One <= x * y /\ x * y < (q + 1) * One
         \/ q = QMax /\ x * y > QMax * One
         \/ q = QMin /\ x * y < QMin * One
    [] op = "divf" ->
         \/ \E r \in QMin .. QMax :
              /\ y # 0
              /\ x * One = q * y + r
              /\ IF x < 0 THEN r <= 0 ELSE r >= 0
              /\ r < (IF y < 0 THEN -y ELSE y) /\ -r < (IF y < 0 THEN -y ELSE y)
         \/ q = QMax /\ (x < 0 <=> y < 0)
         \/ q = QMin /\ ~(x < 0 <=> y < 0)
    [] OTHER -> TRUE

\* x to a small integer power, where x is whole and the power is in range.
IsPower(x, p, q) ==
  Whole(x) /\ p \in 1 .. 3 /\ Sat((x \div One)^p * One) = (x \div One)^p * One
    => q = (x \div One)^p * One

\* What the approximations keep of their functions.
Approximates(x, q) ==
  CASE op = "exp"   -> (x <= -Units(8) => q = 0) /\ (x >= 0 => q >= One)
    [] op = "tanh"  -> /\ -One - One \div 8 <= q /\ q <= One + One \div 8
                       /\ x > 0 => q >= 0
                       /\ x < 0 => q <= 0
    [] op = "rsqrt" -> One <= 2*x /\ x <= 2*One => Mul(Mul(q, q), x) \in One - One \div 4 .. One + One \div 4
    [] OTHER -> TRUE

\* Every result keeps its operation's promise.
OperationsKeepTheirPromise ==
  \A n \in 1 .. Len(outputs) :
    LET a == sent0[n]
        b == sent1[n]
        x == ToQ(a, Single)
        out == outputs[n]
    IN CASE op \in {"fptosi_ui8", "fptoui_ui8"} -> Narrows(x, out)
         [] op \in {"floor", "ceil", "roundeven"} -> Rounds(x, Fixed1(op, x))
         [] op \in {"exp", "tanh", "rsqrt"} -> Approximates(x, Fixed1(op, x))
         [] op \in {"mulf", "divf"} -> Calculates(x, ToQ(b, Single), Fixed2(op, x, ToQ(b, Single)))
         [] op = "fpowi" -> IsPower(x, b, Powi(x, b))
         [] op \in Comparisons -> Fits(a) /\ Fits(b) => Compares(a, b, out)
         [] OTHER -> TRUE

\* Conversions, and the operations between them, are right together.
ResultsAreRight == ConversionIsRight /\ OperationsKeepTheirPromise
=============================================================================
