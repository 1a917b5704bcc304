--------------------------- MODULE LayerNormSchedule ---------------------------
(***************************************************************************)
(* The fixed-point LayerNorm the backend emits                             *)
(* (lower_tinystories_1m_fixed_layernorm_backend.py): render_flat_scf      *)
(* unrolls it into flat SCF, execute_lowered_algorithm runs the same       *)
(* schedule in Python.  Calyx has no memories wider than 64 bits, so the   *)
(* 72-bit sum of squares is a pair of limbs with an explicit carry, and    *)
(* the square root is taken bit by bit.                                    *)
(*                                                                         *)
(* A step is one iteration of a loop of the schedule.  Widths are the      *)
(* numbers of values: a word of 32 bits is Word = 2^32, a shift right by   *)
(* 16 is a division by Unit = 2^16.                                        *)
(***************************************************************************)
EXTENDS Integers

CONSTANTS
    WordBits,  \* bits of a word: 32
    Unit,      \* the number one in fixed point: 2^16
    Lanes,     \* elements normalised: 64
    High,      \* values of the high limb: 2^8
    Epsilon,   \* added to the variance: 42950
    Inputs,    \* the words the input may hold
    Affines    \* the pairs of gamma and beta it may be scaled with

Power(bits) ==
    LET powers[n \in 0..bits] == IF n = 0 THEN 1 ELSE 2 * powers[n - 1]
    IN  powers[bits]

Word == Power(WordBits)                 \* values of a word: 2^32
HalfWord == Word \div 2
Words == (-HalfWord)..(HalfWord - 1)
Limb == Word * Word                     \* values of the low limb: 2^64

\* A shift divides by the lanes, the high limb counts a carry of each, and the
\* largest of Lanes values still fits a word when it is normalised.
ASSUME ScheduleAssumption ==
    /\ {WordBits, Unit, Lanes, High, Epsilon} \subseteq Nat \ {0}
    /\ Limb % Lanes = 0 /\ Lanes <= High
    /\ Epsilon < Word
    /\ 4 * Lanes * (Unit * Unit) <= HalfWord * HalfWord
    /\ Inputs \subseteq Words
    /\ Affines \subseteq [gamma: Words, beta: Words]

VARIABLES
    stage,                   \* the loop the schedule is in
    lane,                    \* its index
    input, affine,           \* the operands
    total, mean,             \* the sum of the input and its mean
    low, high,               \* the two limbs of the sum of squares
    remainder, root, bit,    \* the square root
    output                   \* the lanes emitted

scheduleVars == <<stage, lane, input, affine, total, mean, low, high,
                  remainder, root, bit, output>>

operands == <<input, affine>>
limbs == <<low, high>>
rootVars == <<remainder, root, bit>>

(* _wrap_s on a word, and _trunc_div: arith.trunci and arith.divsi.        *)
Signed(n) == LET u == n % Word IN IF u >= HalfWord THEN u - Word ELSE u
TruncDiv(n, d) == IF n < 0 THEN -((-n) \div d) ELSE n \div d
Abs(n) == IF n < 0 THEN -n ELSE n

Delta(i) == input[i] - mean

ScheduleInit ==
    /\ stage = "mean" /\ lane = 0
    /\ input \in [0..(Lanes - 1) -> Inputs]
    /\ affine \in Affines
    /\ total = 0 /\ mean = 0 /\ low = 0 /\ high = 0
    /\ remainder = 0 /\ root = 0 /\ bit = 0
    /\ output = [i \in 0..(Lanes - 1) |-> 0]

AddLane ==
    /\ stage = "mean" /\ lane < Lanes
    /\ total' = total + input[lane]
    /\ lane' = lane + 1
    /\ UNCHANGED <<stage, operands, mean, limbs, rootVars, output>>

TakeMean ==
    /\ stage = "mean" /\ lane = Lanes
    /\ mean' = TruncDiv(total, Lanes)
    /\ stage' = "squares" /\ lane' = 0
    /\ UNCHANGED <<operands, total, limbs, rootVars, output>>

(* The high limb keeps that there was a carry, not how many there were.    *)
SlipAddSquare ==
    /\ stage = "squares" /\ lane < Lanes
    /\ LET square == (Abs(Delta(lane)) * Abs(Delta(lane))) % Limb
           next == (low + square) % Limb
       IN /\ low' = next
          /\ high' = IF next < low THEN 1 ELSE high
    /\ lane' = lane + 1
    /\ UNCHANGED <<stage, operands, total, mean, rootVars, output>>

(* The carry is the low limb coming out smaller than it went in.           *)
AddSquare ==
    /\ stage = "squares" /\ lane < Lanes
    /\ LET square == (Abs(Delta(lane)) * Abs(Delta(lane))) % Limb
           next == (low + square) % Limb
       IN /\ low' = next
          /\ high' = (high + (IF next < low THEN 1 ELSE 0)) % High
    /\ lane' = lane + 1
    /\ UNCHANGED <<stage, operands, total, mean, rootVars, output>>

(* The limbs shifted right by the logarithm of Lanes meet in one word of   *)
(* the low limb's width; the bits of the two terms are disjoint.           *)
Variance == (((high * (Limb \div Lanes)) % Limb) + (low \div Lanes) + Epsilon) % Limb

TakeVariance ==
    /\ stage = "squares" /\ lane = Lanes
    /\ remainder' = Variance
    /\ root' = 0
    /\ bit' = Limb \div 4
    /\ stage' = "root" /\ lane' = 0
    /\ UNCHANGED <<operands, total, mean, limbs, output>>

(* One bit of the square root; the loop is unrolled until the bit is out.  *)
RootBit ==
    /\ stage = "root" /\ bit > 0
    /\ LET candidate == (root + bit) % Limb IN
       IF remainder >= candidate
       THEN /\ remainder' = (remainder - candidate) % Limb
            /\ root' = (root \div 2 + bit) % Limb
       ELSE /\ root' = root \div 2
            /\ UNCHANGED remainder
    /\ bit' = bit \div 4
    /\ UNCHANGED <<stage, lane, operands, total, mean, limbs, output>>

TakeRoot ==
    /\ stage = "root" /\ bit = 0 /\ root # 0
    /\ stage' = "emit"
    /\ UNCHANGED <<lane, operands, total, mean, limbs, rootVars, output>>

Normalized(i) == Signed(TruncDiv(Delta(i) * Unit, root))

Emit ==
    /\ stage = "emit" /\ lane < Lanes
    /\ output' = [output EXCEPT ![lane] =
                    Signed((Normalized(lane) * affine.gamma) \div Unit + affine.beta)]
    /\ lane' = lane + 1
    /\ UNCHANGED <<stage, operands, total, mean, limbs, rootVars>>

Return ==
    /\ stage = "emit" /\ lane = Lanes
    /\ stage' = "done"
    /\ UNCHANGED <<lane, operands, total, mean, limbs, rootVars, output>>

ScheduleNext ==
    \/ AddLane \/ TakeMean \/ AddSquare \/ TakeVariance
    \/ RootBit \/ TakeRoot \/ Emit \/ Return

ScheduleSpec == ScheduleInit /\ [][ScheduleNext]_scheduleVars

-----------------------------------------------------------------------------
(* The registers of the schedule stay within their widths.                 *)
ScheduleTypeOK ==
    /\ stage \in {"mean", "squares", "root", "emit", "done"}
    /\ lane \in 0..Lanes
    /\ input \in [0..(Lanes - 1) -> Words]
    /\ affine \in [gamma: Words, beta: Words]
    /\ total \in Int /\ mean \in Words
    /\ low \in 0..(Limb - 1) /\ high \in 0..(High - 1)
    /\ remainder \in 0..(Limb - 1) /\ root \in 0..(Limb - 1) /\ bit \in 0..(Limb - 1)
    /\ output \in [0..(Lanes - 1) -> Words]

(* Sums(values)[n] is the sum of the first n lanes, in unbounded integers. *)
Sums(values) ==
    LET sums[n \in 0..Lanes] == IF n = 0 THEN 0 ELSE sums[n - 1] + values[n - 1]
    IN  sums
Squares == [i \in 0..(Lanes - 1) |-> Delta(i) * Delta(i)]

(* While squares are added, the two limbs are the exact sum so far: no     *)
(* square is cut off, no carry is lost and the high limb never overflows.  *)
LimbsHoldTheSum ==
    /\ stage = "squares" => high * Limb + low = Sums(Squares)[lane]
    /\ stage \in {"root", "emit", "done"} => high * Limb + low = Sums(Squares)[Lanes]

(* A finished schedule computed the LayerNorm of its input in unbounded    *)
(* integers: the mean is truncated, the deviation is the integer square    *)
(* root of the exact variance and never zero, and no normalised value      *)
(* wrapped.                                                                *)
ScheduleIsExact ==
    /\ stage = "root" /\ bit = 0 => root # 0
    /\ stage = "done" =>
        LET variance == (Sums(Squares)[Lanes] \div Lanes) + Epsilon IN
        /\ mean = TruncDiv(Sums(input)[Lanes], Lanes)
        /\ root > 0 /\ root * root <= variance /\ variance < (root + 1) * (root + 1)
        /\ \A i \in 0..(Lanes - 1) :
             output[i] = Signed((TruncDiv(Delta(i) * Unit, root) * affine.gamma) \div Unit
                                  + affine.beta)
=============================================================================
