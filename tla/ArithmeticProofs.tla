---------------------------- MODULE ArithmeticProofs ----------------------------
(***************************************************************************)
(* Proofs about the arithmetic: about the handshake of FloatPrimitives for *)
(* every width, every set of operations and of tokens and any number of    *)
(* tokens; about LayerNormSchedule for any width, number of lanes and      *)
(* input; about CalyxHandshakes for any groups and any sharing; about      *)
(* SelfTestTop for any kernels and timings; and about LayerNormBridge for  *)
(* any number of exchanges and of killed runs.                             *)
(***************************************************************************)
EXTENDS FloatPrimitives, LayerNormSchedule, CalyxHandshakes, SelfTestTop,
        LayerNormBridge, Loops, FiniteSetTheorems

\* What an operation can give.
Answers == {Result(op, a, b) : a \in Args0[op], b \in Args1[op] \cup {Zero}}

TypeInv ==
  /\ op \in Unary \cup Binary
  /\ sent0 \in Seq(Args0[op]) /\ sent1 \in Seq(Args1[op])
  /\ valid0 \in BOOLEAN /\ valid1 \in BOOLEAN /\ ready \in BOOLEAN
  /\ outputs \in Seq(Answers)
  /\ ~Joined => valid1 = FALSE

\* A valid input offers the token after those that were taken.
InStep ==
  /\ Len(sent0) = Len(outputs) + (IF valid0 THEN 1 ELSE 0)
  /\ Joined => Len(sent1) = Len(outputs) + (IF valid1 THEN 1 ELSE 0)

\* Every result is that of its own tokens.
OwnTokens ==
  \A n \in 1 .. Len(outputs) :
    outputs[n] = Result(op, sent0[n], IF Joined THEN sent1[n] ELSE Zero)

Inv == TypeInv /\ InStep /\ OwnTokens

\* A token appended to those sent is the last of them and leaves the others.
LEMMA AppendLast ==
  ASSUME NEW S, NEW s \in Seq(S), NEW e \in S
  PROVE  /\ Append(s, e) \in Seq(S) /\ Len(Append(s, e)) = Len(s) + 1
         /\ Append(s, e)[Len(s) + 1] = e
         /\ \A n \in 1 .. Len(s) : Append(s, e)[n] = s[n]
OBVIOUS

\* What the producer of the first input does on an edge.
LEMMA FirstProducer ==
  ASSUME NEW offer \in BOOLEAN, Offer0(offer), TypeInv
  PROVE  /\ valid0' \in BOOLEAN /\ sent0' \in Seq(Args0[op])
         /\ valid0 /\ ~In0Ready => valid0' = TRUE /\ sent0' = sent0
         /\ ~valid0 \/ In0Ready => Len(sent0') = Len(sent0) + (IF valid0' THEN 1 ELSE 0)
         /\ \A n \in 1 .. Len(sent0) : sent0'[n] = sent0[n]
<1> DEFINE keeps == valid0 /\ ~In0Ready
           next == offer /\ ~keeps /\ Len(sent0) < Tokens[op]
<1>1. valid0' = (keeps \/ next)
  BY DEF Offer0
<1>2. CASE next
  <2>1. PICK a \in Args0[op] : sent0' = Append(sent0, a)
    BY <1>2 DEF Offer0
  <2>2. /\ sent0' \in Seq(Args0[op]) /\ Len(sent0') = Len(sent0) + 1
        /\ \A n \in 1 .. Len(sent0) : sent0'[n] = sent0[n]
    BY <2>1, AppendLast DEF TypeInv
  <2>3. valid0' = TRUE
    BY <1>1, <1>2
  <2> QED
    BY <1>2, <2>2, <2>3
<1>3. CASE ~next
  <2>1. sent0' = sent0 /\ Len(sent0) \in Nat
    BY <1>3 DEF Offer0, TypeInv
  <2>2. CASE keeps
    <3>1. valid0' = TRUE /\ valid0 /\ ~In0Ready
      BY <1>1, <2>2
    <3> QED
      BY <2>1, <3>1 DEF TypeInv
  <2>3. CASE ~keeps
    <3>1. valid0' = FALSE
      BY <1>1, <1>3, <2>3
    <3>2. ~(valid0 /\ ~In0Ready)
      BY <2>3
    <3>3. Len(sent0') = Len(sent0) + (IF valid0' THEN 1 ELSE 0)
      BY <2>1, <3>1
    <3> HIDE DEF keeps, next
    <3> QED
      BY <2>1, <3>1, <3>2, <3>3 DEF TypeInv
  <2> QED
    BY <2>2, <2>3
<1> QED
  BY <1>2, <1>3

\* What the producer of the second input does: nothing if there is none.
LEMMA SecondProducer ==
  ASSUME NEW offer \in BOOLEAN, Offer1(offer), TypeInv
  PROVE  /\ valid1' \in BOOLEAN /\ sent1' \in Seq(Args1[op])
         /\ ~Joined => valid1' = FALSE
         /\ valid1 /\ ~In1Ready => valid1' = TRUE /\ sent1' = sent1
         /\ ~valid1 \/ In1Ready => Len(sent1') = Len(sent1) + (IF valid1' THEN 1 ELSE 0)
         /\ \A n \in 1 .. Len(sent1) : sent1'[n] = sent1[n]
<1> DEFINE keeps == valid1 /\ ~In1Ready
           next == offer /\ ~keeps /\ Joined /\ Len(sent1) < Tokens[op]
<1>1. valid1' = (keeps \/ next)
  BY DEF Offer1
<1>2. CASE next
  <2>1. PICK b \in Args1[op] : sent1' = Append(sent1, b)
    BY <1>2 DEF Offer1
  <2>2. /\ sent1' \in Seq(Args1[op]) /\ Len(sent1') = Len(sent1) + 1
        /\ \A n \in 1 .. Len(sent1) : sent1'[n] = sent1[n]
    BY <2>1, AppendLast DEF TypeInv
  <2>3. valid1' = TRUE
    BY <1>1, <1>2
  <2> QED
    BY <1>2, <2>2, <2>3
<1>3. CASE ~next
  <2>1. sent1' = sent1 /\ Len(sent1) \in Nat
    BY <1>3 DEF Offer1, TypeInv
  <2>2. CASE keeps
    <3>1. valid1' = TRUE /\ valid1 /\ ~In1Ready
      BY <1>1, <2>2
    <3> QED
      BY <2>1, <3>1 DEF TypeInv
  <2>3. CASE ~keeps
    <3>1. valid1' = FALSE
      BY <1>1, <1>3, <2>3
    <3>2. ~(valid1 /\ ~In1Ready)
      BY <2>3
    <3>3. Len(sent1') = Len(sent1) + (IF valid1' THEN 1 ELSE 0)
      BY <2>1, <3>1
    <3> HIDE DEF keeps, next
    <3> QED
      BY <2>1, <3>1, <3>2, <3>3 DEF TypeInv
  <2> QED
    BY <2>2, <2>3
<1> QED
  BY <1>2, <1>3

\* A join takes both its tokens, with the result, or neither.
LEMMA TakenTogether ==
  ASSUME TypeInv
  PROVE  /\ ready /\ OutValid <=> valid0 /\ In0Ready
         /\ Joined => (ready /\ OutValid <=> valid1 /\ In1Ready)
BY DEF TypeInv, OutValid, In0Ready, In1Ready

\* Before the first token.
LEMMA InitInv == Init => Inv
<1> SUFFICES ASSUME Init PROVE Inv
  OBVIOUS
<1>1. TypeInv
  <2>1. sent0 \in Seq(Args0[op]) /\ sent1 \in Seq(Args1[op])
    BY DEF Init
  <2>2. outputs \in Seq(Answers)
    BY DEF Init
  <2> QED
    BY <2>1, <2>2 DEF Init, TypeInv
<1>2. InStep
  BY DEF Init, InStep
<1>3. OwnTokens
  BY DEF Init, OwnTokens
<1> QED
  BY <1>1, <1>2, <1>3 DEF Inv

\* Every edge keeps the inputs in step.
LEMMA NextInv == Inv /\ [Next]_vars => Inv'
<1> SUFFICES ASSUME Inv, [Next]_vars PROVE Inv'
  OBVIOUS
<1>1. CASE UNCHANGED vars
  BY <1>1 DEF vars, Inv, TypeInv, InStep, OwnTokens, Joined, Answers
<1>2. CASE Next
  <2>1. PICK offer0 \in BOOLEAN, offer1 \in BOOLEAN, go \in BOOLEAN :
          Offer0(offer0) /\ Offer1(offer1) /\ Take /\ ready' = go /\ op' = op
    BY <1>2 DEF Next
  <2>2. Joined' = Joined /\ Answers' = Answers
    BY <2>1 DEF Joined, Answers
  <2>3. TypeInv
    BY DEF Inv
  <2>4. /\ valid0' \in BOOLEAN /\ sent0' \in Seq(Args0[op])
        /\ valid0 /\ ~In0Ready => valid0' = TRUE /\ sent0' = sent0
        /\ ~valid0 \/ In0Ready => Len(sent0') = Len(sent0) + (IF valid0' THEN 1 ELSE 0)
        /\ \A n \in 1 .. Len(sent0) : sent0'[n] = sent0[n]
    BY <2>1, <2>3, FirstProducer
  <2>5. /\ valid1' \in BOOLEAN /\ sent1' \in Seq(Args1[op])
        /\ ~Joined => valid1' = FALSE
        /\ valid1 /\ ~In1Ready => valid1' = TRUE /\ sent1' = sent1
        /\ ~valid1 \/ In1Ready => Len(sent1') = Len(sent1) + (IF valid1' THEN 1 ELSE 0)
        /\ \A n \in 1 .. Len(sent1) : sent1'[n] = sent1[n]
    BY <2>1, <2>3, SecondProducer
  <2>6. /\ Len(sent0) \in Nat /\ Len(sent1) \in Nat /\ Len(outputs) \in Nat
        /\ InStep
    BY <2>3 DEF TypeInv, Inv
  <2>7. CASE ready /\ OutValid
    <3> DEFINE e == Result(op, Last(sent0), IF Joined THEN Last(sent1) ELSE Zero)
    <3>1. outputs' = Append(outputs, e)
      BY <2>1, <2>7 DEF Take
    <3>2. /\ valid0 /\ In0Ready
          /\ Joined => valid1 /\ In1Ready
      BY <2>3, <2>7, TakenTogether
    <3>3. /\ Len(sent0) = Len(outputs) + 1
          /\ Joined => Len(sent1) = Len(outputs) + 1
      BY <2>6, <3>2 DEF InStep
    <3>4. /\ Last(sent0) = sent0[Len(outputs) + 1] /\ sent0[Len(outputs) + 1] \in Args0[op]
          /\ Joined => Last(sent1) = sent1[Len(outputs) + 1] /\ sent1[Len(outputs) + 1] \in Args1[op]
      BY <2>3, <2>6, <3>3 DEF TypeInv, Last
    <3>5. e \in Answers
      <4>1. CASE Joined
        BY <3>4, <4>1 DEF Answers
      <4>2. CASE ~Joined
        <5>1. Last(sent0) \in Args0[op] /\ Zero \in Args1[op] \cup {Zero}
          BY <3>4
        <5>2. e = Result(op, Last(sent0), Zero)
          BY <4>2
        <5> QED
          BY <5>1, <5>2 DEF Answers
      <4> QED
        BY <4>1, <4>2
    <3>6. /\ outputs' \in Seq(Answers) /\ Len(outputs') = Len(outputs) + 1
          /\ outputs'[Len(outputs) + 1] = e
          /\ \A n \in 1 .. Len(outputs) : outputs'[n] = outputs[n]
      BY <2>3, <3>1, <3>5, AppendLast DEF TypeInv
    <3> HIDE DEF e
    <3>7. TypeInv'
      BY <2>1, <2>2, <2>3, <2>4, <2>5, <3>6 DEF TypeInv
    <3>8. InStep'
      BY <2>2, <2>4, <2>5, <2>6, <3>2, <3>3, <3>6 DEF InStep
    <3>9. ASSUME NEW n \in 1 .. Len(outputs')
          PROVE  outputs'[n] = Result(op, sent0'[n], IF Joined THEN sent1'[n] ELSE Zero)
      <4>1. CASE n = Len(outputs) + 1
        <5>1. sent0'[n] = sent0[n] /\ (Joined => sent1'[n] = sent1[n])
          BY <2>4, <2>5, <2>6, <3>3, <4>1
        <5>2. e = Result(op, sent0[n], IF Joined THEN sent1[n] ELSE Zero)
          BY <3>4, <4>1 DEF e
        <5> QED
          BY <3>6, <4>1, <5>1, <5>2
      <4>2. CASE n \in 1 .. Len(outputs)
        <5>1. sent0'[n] = sent0[n] /\ (Joined => sent1'[n] = sent1[n])
          BY <2>4, <2>5, <2>6, <3>3, <4>2
        <5> QED
          BY <3>6, <4>2, <5>1 DEF Inv, OwnTokens
      <4> QED
        BY <2>6, <3>6, <4>1, <4>2
    <3> QED
      BY <2>1, <2>2, <3>7, <3>8, <3>9 DEF Inv, OwnTokens
  <2>8. CASE ~(ready /\ OutValid)
    <3>1. outputs' = outputs
      BY <2>1, <2>8 DEF Take
    <3>2. /\ valid0 => ~In0Ready
          /\ Joined /\ valid1 => ~In1Ready
      BY <2>3, <2>8, TakenTogether
    <3>3. TypeInv'
      BY <2>1, <2>2, <2>3, <2>4, <2>5, <3>1 DEF TypeInv
    <3>4. InStep'
      <4>1. Len(sent0') = Len(outputs) + (IF valid0' THEN 1 ELSE 0)
        <5>1. CASE valid0
          BY <2>4, <2>6, <3>2, <5>1 DEF InStep
        <5>2. CASE ~valid0
          BY <2>4, <2>6, <5>2 DEF InStep
        <5> QED
          BY <5>1, <5>2
      <4>2. Joined => Len(sent1') = Len(outputs) + (IF valid1' THEN 1 ELSE 0)
        <5>1. CASE valid1
          BY <2>5, <2>6, <3>2, <5>1 DEF InStep
        <5>2. CASE ~valid1
          BY <2>5, <2>6, <5>2 DEF InStep
        <5> QED
          BY <5>1, <5>2
      <4> QED
        BY <2>2, <3>1, <4>1, <4>2 DEF InStep
    <3>5. ASSUME NEW n \in 1 .. Len(outputs)
          PROVE  outputs[n] = Result(op, sent0'[n], IF Joined THEN sent1'[n] ELSE Zero)
      <4>1. n \in 1 .. Len(sent0) /\ (Joined => n \in 1 .. Len(sent1))
        BY <2>6 DEF InStep
      <4> QED
        BY <2>4, <2>5, <4>1 DEF Inv, OwnTokens
    <3> QED
      BY <2>1, <2>2, <3>1, <3>3, <3>4, <3>5 DEF Inv, OwnTokens
  <2> QED
    BY <2>7, <2>8
<1> QED
  BY <1>1, <1>2

\* Whatever the producers offer and however the consumer stalls, the n-th
\* result is the operation on the n-th token of each input.
THEOREM TokensArePaired == Spec => []PairsInOrder
<1>1. Inv => PairsInOrder
  <2> SUFFICES ASSUME Inv PROVE PairsInOrder
    OBVIOUS
  <2>1. Len(sent0) \in Nat /\ Len(sent1) \in Nat /\ Len(outputs) \in Nat
    BY DEF Inv, TypeInv
  <2> QED
    BY <2>1 DEF Inv, InStep, OwnTokens, PairsInOrder
<1>2. Spec => []Inv
  BY InitInv, NextInv, PTL DEF Spec
<1> QED
  BY <1>1, <1>2, PTL

-----------------------------------------------------------------------------
(* Squares of naturals.                                                    *)

LEMMA SquaresGrow ==
  ASSUME NEW a \in Nat, NEW b \in Nat, a <= b
  PROVE  a * a <= b * b /\ a * a \in Nat /\ b * b \in Nat
  <1>1. PICK e \in Nat : b = a + e
    BY b - a \in Nat
  <1>2. b * b = a * a + 2 * (a * e) + e * e /\ a * e \in Nat /\ e * e \in Nat /\ a * a \in Nat
    BY <1>1
  <1>3. QED
    BY <1>2

LEMMA SquaresGrowStrictly ==
  ASSUME NEW a \in Nat, NEW b \in Nat, a < b
  PROVE  a * a < b * b
  <1>1. PICK e \in Nat : b = a + 1 + e
    BY b - a - 1 \in Nat
  <1>2. b * b = a * a + 2 * a + 1 + 2 * (a * e) + 2 * e + e * e
        /\ a * e \in Nat /\ e * e \in Nat /\ a * a \in Nat
    BY <1>1
  <1>3. QED
    BY <1>2

LEMMA RootsGrow ==
  ASSUME NEW a \in Nat, NEW b \in Nat, a * a < b * b
  PROVE  a < b
  <1>1. SUFFICES ASSUME b <= a PROVE FALSE
    OBVIOUS
  <1>2. b * b <= a * a /\ a * a \in Nat /\ b * b \in Nat
    BY <1>1, SquaresGrow
  <1>3. QED
    BY <1>2

LEMMA ProductsGrow ==
  ASSUME NEW d \in Nat, NEW a \in Int, NEW b \in Int, a <= b
  PROVE  d * a <= d * b /\ d * a \in Int /\ d * b \in Int
  <1>1. PICK e \in Nat : b = a + e
    BY b - a \in Nat
  <1>2. d * b = d * a + d * e /\ d * e \in Nat
    BY <1>1
  <1>3. QED
    BY <1>2

-----------------------------------------------------------------------------
(* The widths.                                                             *)

PowerTable ==
  CHOOSE f \in [0 .. WordBits -> Nat] :
     /\ f[0] = 1 /\ f[WordBits] = Word
     /\ \A n \in 1 .. WordBits : f[n] = 2 * f[n - 1]

LEMMA Powers ==
  /\ PowerTable \in [0 .. WordBits -> Nat]
  /\ PowerTable[0] = 1 /\ PowerTable[WordBits] = Word
  /\ \A n \in 1 .. WordBits : PowerTable[n] = 2 * PowerTable[n - 1]
  <1> DEFINE top == WordBits
             body(p) == [n \in 0 .. WordBits |-> IF n = 0 THEN 1 ELSE 2 * p[n - 1]]
             Round == [n \in 1 .. top |-> [v \in Nat |-> 2 * v]]
             powers == CHOOSE powers : powers = body(powers)
  <1>0. top \in Nat \ {0}
    BY ScheduleAssumption
  <1>1. Round \in RoundsOf(top, Nat)
    BY <1>0 DEF RoundsOf
  <1>2. Courses(top, Nat, 1, Round) # {}
    <2> HIDE DEF Round, top
    <2>1. 1 \in Nat
      OBVIOUS
    <2>2. QED
      BY <2>1, <1>0, <1>1, Loop, Zenon
  <1>3. PICK f \in [0 .. top -> Nat] : f[0] = 1 /\ \A n \in 1 .. top : f[n] = Round[n][f[n - 1]]
    BY <1>2, Zenon DEF Courses
  <1>4. \A n \in 1 .. top : f[n] = 2 * f[n - 1]
    <2>1. ASSUME NEW n \in 1 .. top PROVE f[n] = 2 * f[n - 1]
      <3>1. f[n - 1] \in Nat
        BY <1>0
      <3>2. QED
        BY <1>3, <3>1
    <2>2. QED
      BY <2>1
  <1>5. f = body(f)
    <2>1. ASSUME NEW n \in 0 .. top PROVE f[n] = body(f)[n]
      BY <1>3, <1>4
    <2>2. QED
      BY <2>1
  <1>6. powers = body(powers)
    BY <1>5, Zenon
  <1>7. Word = powers[top]
    BY Zenon DEF Word, Power
  <1> HIDE DEF powers
  <1>8. /\ powers[0] = 1
        /\ \A n \in 1 .. top : powers[n] = 2 * powers[n - 1]
    <2>1. PICK p : p = powers /\ p = body(p)
      BY <1>6
    <2>2. p[0] = 1
      <3>1. 0 \in 0 .. WordBits
        BY <1>0
      <3>2. QED
        BY <2>1, <3>1
    <2>3. ASSUME NEW n \in 1 .. top PROVE p[n] = 2 * p[n - 1]
      <3>1. n \in 0 .. WordBits /\ n # 0
        BY <1>0
      <3>2. QED
        BY <2>1, <3>1
    <2>4. QED
      BY <2>1, <2>2, <2>3
  <1> DEFINE T == {n \in Nat : n <= top => powers[n] = f[n]}
  <1>9. Nat \subseteq T
    <2>1. 0 \in T
      BY <1>8, <1>3
    <2>2. ASSUME NEW n \in Nat, n \in T PROVE n + 1 \in T
      <3>1. SUFFICES (n + 1 <= top) => powers[n + 1] = f[n + 1]
        OBVIOUS
      <3>2. SUFFICES ASSUME n + 1 <= top PROVE powers[n + 1] = f[n + 1]
        OBVIOUS
      <3>3. n + 1 \in 1 .. top /\ (n + 1) - 1 = n /\ powers[n] = f[n]
        BY <2>2, <3>2, <1>0
      <3>4. powers[n + 1] = 2 * powers[n] /\ f[n + 1] = 2 * f[n]
        BY <3>3, <1>8, <1>4
      <3>5. QED
        BY <3>3, <3>4
    <2> HIDE DEF T
    <2>3. QED
      BY <2>1, <2>2, Induction
  <1>10. powers[top] = f[top]
    BY <1>9, <1>0
  <1>11. \E g \in [0 .. WordBits -> Nat] :
           /\ g[0] = 1 /\ g[WordBits] = Word
           /\ \A n \in 1 .. WordBits : g[n] = 2 * g[n - 1]
    BY <1>3, <1>4, <1>7, <1>10
  <1> HIDE DEF top
  <1>12. QED
    BY <1>11, Zenon DEF PowerTable

LEMMA PowersArePositive ==
  \A n \in 0 .. WordBits : PowerTable[n] \in Nat \ {0}
  <1> DEFINE T == {n \in Nat : n <= WordBits => PowerTable[n] \in Nat \ {0}}
  <1>0. WordBits \in Nat
    BY ScheduleAssumption
  <1>1. 0 \in T
    BY Powers
  <1>2. ASSUME NEW n \in Nat, n \in T PROVE n + 1 \in T
    <2>1. SUFFICES (n + 1 <= WordBits) => PowerTable[n + 1] \in Nat \ {0}
      OBVIOUS
    <2>2. SUFFICES ASSUME n + 1 <= WordBits PROVE PowerTable[n + 1] \in Nat \ {0}
      OBVIOUS
    <2>3. n + 1 \in 1 .. WordBits /\ (n + 1) - 1 = n /\ PowerTable[n] \in Nat \ {0}
      BY <1>0, <1>2, <2>2
    <2>4. PowerTable[n + 1] = 2 * PowerTable[n]
      BY <2>3, Powers
    <2>5. QED
      BY <2>3, <2>4
  <1>3. Nat \subseteq T
    <2> HIDE DEF T
    <2>1. QED
      BY <1>1, <1>2, Induction
  <1>4. QED
    BY <1>3

LEMMA Widths ==
  /\ Word \in Nat /\ HalfWord \in Nat \ {0} /\ Word = 2 * HalfWord
  /\ HalfWord = PowerTable[WordBits - 1]
  /\ Limb \in Nat \ {0} /\ Limb = Word * Word /\ Limb = 4 * (HalfWord * HalfWord)
  /\ HalfWord * HalfWord \in Nat /\ Limb \div 4 = HalfWord * HalfWord
  /\ \A x \in Words : x \in Int /\ -HalfWord <= x /\ x <= HalfWord - 1
  /\ \A x \in Int : -HalfWord <= x /\ x <= HalfWord - 1 => x \in Words
  <1>1. WordBits \in 1 .. WordBits /\ WordBits - 1 \in 0 .. WordBits
    BY ScheduleAssumption
  <1>2. PICK h \in Nat \ {0} : h = PowerTable[WordBits - 1] /\ Word = 2 * h
    BY <1>1, Powers, PowersArePositive
  <1>3. HalfWord = h
    BY <1>2 DEF HalfWord
  <1>4. Word * Word = 4 * (h * h) /\ h * h \in Nat \ {0}
    <2>1. PICK e \in Nat : h = 1 + e
      BY h - 1 \in Nat
    <2>2. h * h = 1 + 2 * e + e * e /\ e * e \in Nat
      BY <2>1
    <2>3. Word * Word = 4 * (h * h)
      BY <1>2
    <2>4. QED
      BY <2>2, <2>3
  <1>5. PICK s \in Nat \ {0} : s = h * h /\ Limb = 4 * s
    BY <1>4 DEF Limb
  <1>6. Limb \div 4 = s
    BY <1>5
  <1>7. QED
    BY <1>2, <1>3, <1>4, <1>5, <1>6 DEF Words, Limb

(* A number that fits a word is not changed by wrapping it.                *)
LEMMA SignedFits ==
  ASSUME NEW n \in Words
  PROVE  Signed(n) = n
  <1>1. PICK h \in Nat \ {0}, w \in Nat : h = HalfWord /\ w = Word /\ w = 2 * h
    BY Widths
  <1>2. n \in Int /\ -h <= n /\ n <= h - 1
    BY <1>1, Widths
  <1>3. n % w = IF n < 0 THEN n + w ELSE n
    <2>1. CASE n >= 0
      BY <1>1, <1>2, <2>1
    <2>2. CASE n < 0
      <3>1. PICK q \in Int, m \in 0 .. w - 1 : m = n % w /\ n = w * q + m
        <4>1. w \in Nat \ {0} /\ n \in Int
          BY <1>1, <1>2
        <4>2. QED
          BY <4>1, IntegerQuotients
      <3>2. ~(q >= 0)
        <4>1. SUFFICES ASSUME q >= 0 PROVE FALSE
          OBVIOUS
        <4>2. w * q \in Nat
          BY <4>1, <1>1
        <4>3. QED
          BY <2>2, <3>1, <4>2
      <3>3. ~(q < -1)
        <4>1. SUFFICES ASSUME q < -1 PROVE FALSE
          OBVIOUS
        <4>2. PICK e \in Nat : q = -2 - e
          BY <4>1, -2 - q \in Nat
        <4>3. w * q = -(2 * w) - w * e /\ w * e \in Nat
          BY <4>2, <1>1
        <4>4. QED
          BY <4>3, <1>1, <1>2, <3>1
      <3>4. q = -1
        BY <3>2, <3>3
      <3>5. QED
        BY <2>2, <3>1, <3>4, <1>1
    <2>3. QED
      BY <2>1, <2>2, <1>2
  <1>4. QED
    BY <1>1, <1>2, <1>3 DEF Signed

-----------------------------------------------------------------------------
(* Sums.                                                                   *)

Values == [0 .. (Lanes - 1) -> Int]

LEMMA SumsAre ==
  ASSUME NEW values \in Values
  PROVE  /\ Sums(values) \in [0 .. Lanes -> Int]
         /\ Sums(values)[0] = 0
         /\ \A n \in 1 .. Lanes : Sums(values)[n] = Sums(values)[n - 1] + values[n - 1]
  <1> DEFINE top == Lanes
             body(sums) == [n \in 0 .. Lanes |-> IF n = 0 THEN 0 ELSE sums[n - 1] + values[n - 1]]
             Round == [n \in 1 .. top |-> [v \in Int |-> v + values[n - 1]]]
  <1>0. top \in Nat \ {0}
    BY ScheduleAssumption
  <1>1. Round \in RoundsOf(top, Int)
    <2>1. ASSUME NEW n \in 1 .. top, NEW v \in Int PROVE v + values[n - 1] \in Int
      <3>1. n - 1 \in 0 .. (Lanes - 1)
        BY <1>0
      <3>2. QED
        BY <3>1 DEF Values
    <2>2. QED
      BY <2>1 DEF RoundsOf
  <1>2. Courses(top, Int, 0, Round) # {}
    <2> HIDE DEF Round, top
    <2>1. 0 \in Int /\ top \in Nat
      BY <1>0
    <2>2. QED
      BY <2>1, <1>1, Loop, Zenon
  <1>3. PICK f \in [0 .. top -> Int] : f[0] = 0 /\ \A n \in 1 .. top : f[n] = Round[n][f[n - 1]]
    BY <1>2, Zenon DEF Courses
  <1>4. \A n \in 1 .. top : f[n] = f[n - 1] + values[n - 1]
    <2>1. ASSUME NEW n \in 1 .. top PROVE f[n] = f[n - 1] + values[n - 1]
      <3>1. f[n - 1] \in Int
        BY <1>0
      <3>2. QED
        BY <1>3, <3>1
    <2>2. QED
      BY <2>1
  <1>5. f = body(f)
    <2>1. ASSUME NEW n \in 0 .. top PROVE f[n] = body(f)[n]
      BY <1>3, <1>4
    <2>2. QED
      BY <2>1
  <1>6. Sums(values) = CHOOSE sums : sums = body(sums)
    BY Zenon DEF Sums
  <1>7. Sums(values) = body(Sums(values))
    BY <1>5, <1>6, Zenon
  <1>8. /\ Sums(values)[0] = 0
        /\ \A n \in 1 .. top : Sums(values)[n] = Sums(values)[n - 1] + values[n - 1]
    BY <1>7, <1>0
  <1> DEFINE T == {n \in Nat : n <= top => Sums(values)[n] \in Int}
  <1>9. Nat \subseteq T
    <2>1. 0 \in T
      BY <1>8
    <2>2. ASSUME NEW n \in Nat, n \in T PROVE n + 1 \in T
      <3>1. SUFFICES (n + 1 <= top) => Sums(values)[n + 1] \in Int
        OBVIOUS
      <3>2. SUFFICES ASSUME n + 1 <= top PROVE Sums(values)[n + 1] \in Int
        OBVIOUS
      <3>3. n + 1 \in 1 .. top /\ (n + 1) - 1 = n /\ Sums(values)[n] \in Int /\ n \in 0 .. (Lanes - 1)
        BY <2>2, <3>2, <1>0
      <3>4. Sums(values)[n + 1] = Sums(values)[n] + values[n]
        BY <3>3, <1>8
      <3>5. values[n] \in Int
        BY <3>3 DEF Values
      <3>6. QED
        BY <3>3, <3>4, <3>5
    <2> HIDE DEF T
    <2>3. QED
      BY <2>1, <2>2, Induction
  <1>10. DOMAIN Sums(values) = 0 .. top /\ Sums(values) = [n \in 0 .. top |-> Sums(values)[n]]
    BY <1>7
  <1>11. \A n \in 0 .. top : Sums(values)[n] \in Int
    BY <1>9, <1>0
  <1>12. QED
    BY <1>8, <1>10, <1>11

(* Sums of values between two bounds.                                      *)
LEMMA SumsLieBetween ==
  ASSUME NEW values \in Values, NEW least \in Int, NEW most \in Int,
         \A i \in 0 .. (Lanes - 1) : least <= values[i] /\ values[i] <= most
  PROVE  \A n \in 0 .. Lanes : n * least <= Sums(values)[n] /\ Sums(values)[n] <= n * most
  <1> DEFINE T == {n \in Nat : n <= Lanes =>
                      n * least <= Sums(values)[n] /\ Sums(values)[n] <= n * most}
  <1>0. Lanes \in Nat \ {0}
    BY ScheduleAssumption
  <1>1. 0 \in T
    <2>1. Sums(values)[0] = 0
      BY SumsAre
    <2>2. QED
      BY <2>1
  <1>2. ASSUME NEW n \in Nat, n \in T PROVE n + 1 \in T
    <2>1. SUFFICES (n + 1 <= Lanes) => (n + 1) * least <= Sums(values)[n + 1]
                                        /\ Sums(values)[n + 1] <= (n + 1) * most
      OBVIOUS
    <2>2. SUFFICES ASSUME n + 1 <= Lanes
                   PROVE (n + 1) * least <= Sums(values)[n + 1] /\ Sums(values)[n + 1] <= (n + 1) * most
      OBVIOUS
    <2>3. n + 1 \in 1 .. Lanes /\ (n + 1) - 1 = n /\ n \in 0 .. (Lanes - 1) /\ n \in 0 .. Lanes
      BY <1>0, <2>2
    <2>4. PICK s \in Int, v \in Int : s = Sums(values)[n] /\ v = values[n]
      <3>1. Sums(values)[n] \in Int
        BY <2>3, SumsAre
      <3>2. values[n] \in Int
        BY <2>3 DEF Values
      <3>3. QED
        BY <3>1, <3>2
    <2>5. Sums(values)[n + 1] = s + v
      BY <2>3, <2>4, SumsAre
    <2>6. n * least <= s /\ s <= n * most /\ least <= v /\ v <= most
      BY <1>0, <1>2, <2>2, <2>3, <2>4
    <2>7. (n + 1) * least = n * least + least /\ (n + 1) * most = n * most + most
          /\ n * least \in Int /\ n * most \in Int
      OBVIOUS
    <2>8. QED
      BY <2>5, <2>6, <2>7
  <1>3. Nat \subseteq T
    <2> HIDE DEF T
    <2>1. QED
      BY <1>1, <1>2, Induction
  <1>4. QED
    BY <1>3, <1>0

(* No value is larger than the sum when none is negative.                  *)
LEMMA ValuesAreInTheSum ==
  ASSUME NEW values \in Values, \A i \in 0 .. (Lanes - 1) : 0 <= values[i],
         NEW i \in 0 .. (Lanes - 1)
  PROVE  values[i] <= Sums(values)[Lanes]
  <1> DEFINE T == {n \in Nat : n <= Lanes =>
                      Sums(values)[n] >= 0 /\ (i < n => values[i] <= Sums(values)[n])}
  <1>0. Lanes \in Nat \ {0} /\ i \in Nat /\ i < Lanes
    BY ScheduleAssumption
  <1>1. 0 \in T
    <2>1. Sums(values)[0] = 0
      BY SumsAre
    <2>2. QED
      BY <2>1, <1>0
  <1>2. ASSUME NEW n \in Nat, n \in T PROVE n + 1 \in T
    <2>1. SUFFICES (n + 1 <= Lanes) => /\ Sums(values)[n + 1] >= 0
                                       /\ i < n + 1 => values[i] <= Sums(values)[n + 1]
      OBVIOUS
    <2>2. SUFFICES ASSUME n + 1 <= Lanes
                   PROVE /\ Sums(values)[n + 1] >= 0
                         /\ i < n + 1 => values[i] <= Sums(values)[n + 1]
      OBVIOUS
    <2>3. n + 1 \in 1 .. Lanes /\ (n + 1) - 1 = n /\ n \in 0 .. (Lanes - 1) /\ n \in 0 .. Lanes
      BY <1>0, <2>2
    <2>4. PICK s \in Int, v \in Int, w \in Int :
            s = Sums(values)[n] /\ v = values[n] /\ w = values[i]
      <3>1. Sums(values)[n] \in Int
        BY <2>3, SumsAre
      <3>2. values[n] \in Int /\ values[i] \in Int
        BY <2>3 DEF Values
      <3>3. QED
        BY <3>1, <3>2
    <2>5. Sums(values)[n + 1] = s + v
      BY <2>3, <2>4, SumsAre
    <2>6. s >= 0 /\ v >= 0 /\ (i < n => w <= s) /\ (i = n => w = v)
      BY <1>0, <1>2, <2>2, <2>3, <2>4
    <2>7. QED
      BY <1>0, <2>4, <2>5, <2>6
  <1>3. Lanes \in T
    <2> HIDE DEF T
    <2>1. QED
      BY <1>0, <1>1, <1>2, Induction
  <1>4. QED
    BY <1>3, <1>0
-----------------------------------------------------------------------------
(* The invariant: what each loop has in its registers.                     *)

Stages == {"mean", "squares", "root", "emit", "done"}
Positions == 0 .. (Lanes - 1)
ExactVariance == (Sums(Squares)[Lanes] \div Lanes) + Epsilon
Exact(i) == Signed((TruncDiv(Delta(i) * Unit, root) * affine.gamma) \div Unit + affine.beta)

(* The root is exact: the loop ends with it.                               *)
IsRootOf(r, v) == r * r <= v /\ v < (r + 1) * (r + 1)

(* Before the bit q * q of the root, its digits above q are p: the         *)
(* register holds 2pq, and the rest of the variance is what p leaves.      *)
Partial(k, p) ==
    LET q == PowerTable[k] IN
    /\ bit = q * q
    /\ root = 2 * (p * q)
    /\ remainder + p * p = ExactVariance
    /\ ExactVariance < (p + 2 * q) * (p + 2 * q)
    /\ p + 2 * q <= Word

ScheduleTypes ==
    /\ stage \in Stages
    /\ lane \in 0 .. Lanes
    /\ input \in [Positions -> Words]
    /\ affine \in [gamma : Words, beta : Words]
    /\ total \in Int /\ mean \in Words
    /\ low \in 0 .. Limb - 1 /\ high \in Nat
    /\ remainder \in Nat /\ root \in Nat /\ bit \in Nat
    /\ DOMAIN output = Positions

ScheduleInv ==
    /\ ScheduleTypes
    /\ stage = "mean" => total = Sums(input)[lane] /\ low = 0 /\ high = 0
    /\ stage # "mean" => mean = TruncDiv(Sums(input)[Lanes], Lanes)
    /\ stage = "squares" => high * Limb + low = Sums(Squares)[lane]
    /\ stage \in {"root", "emit", "done"} => high * Limb + low = Sums(Squares)[Lanes]
    /\ stage = "root" => \/ \E k \in 0 .. WordBits - 1, p \in Nat : Partial(k, p)
                         \/ bit = 0 /\ IsRootOf(root, ExactVariance)
    /\ stage = "root" => lane = 0
    /\ stage \in {"emit", "done"} => root > 0 /\ IsRootOf(root, ExactVariance)
    /\ stage = "emit" => \A i \in 0 .. (lane - 1) : output[i] = Exact(i)
    /\ stage = "done" => \A i \in Positions : output[i] = Exact(i)

LargestSquare == (Word - 1) * (Word - 1)

LEMMA LargestSquareIs ==
  LargestSquare \in Nat /\ LargestSquare + 2 * Word = Limb + 1 /\ LargestSquare < Limb /\ Word > 1
  <1>1. PICK w \in Nat : w = Word /\ Limb = w * w /\ w > 1 /\ w * w \in Nat
    <2>1. PICK w \in Nat, h \in Nat \ {0} : w = Word /\ h = HalfWord /\ w = 2 * h /\ Limb = w * w
      BY Widths
    <2>2. w * w \in Nat
      OBVIOUS
    <2>3. QED
      BY <2>1, <2>2
  <1>2. (w - 1) * (w - 1) = w * w - 2 * w + 1 /\ (w - 1) * (w - 1) \in Nat
    BY <1>1
  <1>3. QED
    BY <1>1, <1>2 DEF LargestSquare

LEMMA DeltasAre ==
  ASSUME input \in [Positions -> Words], mean \in Words, NEW i \in Positions
  PROVE  /\ Delta(i) \in Int /\ Delta(i) * Delta(i) \in 0 .. LargestSquare
         /\ Abs(Delta(i)) \in Nat /\ Abs(Delta(i)) * Abs(Delta(i)) = Delta(i) * Delta(i)
  <1>1. PICK x \in Int, y \in Int, h \in Nat \ {0}, w \in Nat :
          /\ x = input[i] /\ y = mean /\ h = HalfWord /\ w = Word /\ w = 2 * h
          /\ -h <= x /\ x <= h - 1 /\ -h <= y /\ y <= h - 1
    <2>1. input[i] \in Words
      OBVIOUS
    <2>2. QED
      BY <2>1, Widths
  <1>2. PICK d \in Int : d = x - y /\ d = Delta(i)
    BY <1>1 DEF Delta
  <1>3. PICK a \in Nat : a = Abs(d) /\ (a = d \/ a = -d)
    BY DEF Abs
  <1>4. a * a = d * d
    BY <1>3
  <1>5. a <= w - 1 /\ w - 1 \in Nat
    BY <1>1, <1>2, <1>3
  <1>6. a * a <= (w - 1) * (w - 1) /\ a * a \in Nat /\ (w - 1) * (w - 1) \in Nat
    BY <1>5, SquaresGrow
  <1>7. QED
    BY <1>1, <1>2, <1>3, <1>4, <1>6 DEF LargestSquare

LEMMA SquaresAre ==
  ASSUME input \in [Positions -> Words], mean \in Words
  PROVE  /\ Squares \in Values
         /\ \A i \in Positions : Squares[i] = Delta(i) * Delta(i)
         /\ \A i \in 0 .. (Lanes - 1) : 0 <= Squares[i] /\ Squares[i] <= LargestSquare
         /\ \A n \in 0 .. Lanes : /\ Sums(Squares)[n] \in Nat
                                  /\ Sums(Squares)[n] <= n * LargestSquare
  <1>1. ASSUME NEW i \in 0 .. (Lanes - 1)
        PROVE  Squares[i] = Delta(i) * Delta(i) /\ Squares[i] \in 0 .. LargestSquare
    <2>1. Delta(i) * Delta(i) \in 0 .. LargestSquare
      BY DeltasAre DEF Positions
    <2>2. QED
      BY <2>1 DEF Squares
  <1>2. Squares \in Values
    <2>1. \A i \in 0 .. (Lanes - 1) : Squares[i] \in Int
      BY <1>1, LargestSquareIs
    <2>2. DOMAIN Squares = 0 .. (Lanes - 1) /\ Squares = [i \in 0 .. (Lanes - 1) |-> Squares[i]]
      BY DEF Squares
    <2>3. QED
      BY <2>1, <2>2 DEF Values
  <1>3. \A i \in 0 .. (Lanes - 1) : 0 <= Squares[i] /\ Squares[i] <= LargestSquare
    BY <1>1, LargestSquareIs
  <1>4. \A n \in 0 .. Lanes : n * 0 <= Sums(Squares)[n] /\ Sums(Squares)[n] <= n * LargestSquare
    <2>1. 0 \in Int /\ LargestSquare \in Int
      BY LargestSquareIs
    <2>2. QED
      BY <1>2, <1>3, <2>1, SumsLieBetween
  <1>5. \A n \in 0 .. Lanes : Sums(Squares)[n] \in Int
    BY <1>2, SumsAre
  <1>6. \A n \in 0 .. Lanes : Sums(Squares)[n] \in Nat
    <2>1. ASSUME NEW n \in 0 .. Lanes PROVE Sums(Squares)[n] \in Nat
      <3>1. PICK s \in Int : s = Sums(Squares)[n]
        BY <1>5
      <3>2. n * 0 <= s /\ n * 0 = 0
        BY <1>4, <3>1, ScheduleAssumption
      <3>3. QED
        BY <3>1, <3>2
    <2>2. QED
      BY <2>1
  <1>7. QED
    BY <1>1, <1>2, <1>3, <1>4, <1>6 DEF Positions

LEMMA ScheduleInitInv == ScheduleInit => ScheduleInv
  <1> SUFFICES ASSUME ScheduleInit PROVE ScheduleInv
    OBVIOUS
  <1>1. input \in [Positions -> Words] /\ affine \in [gamma : Words, beta : Words]
    BY ScheduleAssumption DEF ScheduleInit, Positions
  <1>2. input \in Values
    BY <1>1, Widths DEF Values, Positions
  <1>3. Sums(input)[0] = 0
    BY <1>2, SumsAre
  <1>4. 0 \in Words /\ 0 \in 0 .. Limb - 1 /\ 0 \in 0 .. Lanes
    BY Widths, ScheduleAssumption
  <1>5. ScheduleTypes
    BY <1>1, <1>4 DEF ScheduleInit, ScheduleTypes, Stages, Positions
  <1>6. QED
    BY <1>3, <1>5 DEF ScheduleInit, ScheduleInv

(* The mean of words is a word.                                            *)
LEMMA MeanIsAWord ==
  ASSUME input \in [Positions -> Words]
  PROVE  TruncDiv(Sums(input)[Lanes], Lanes) \in Words
  <1>1. PICK h \in Nat \ {0} : h = HalfWord
    BY Widths
  <1>2. input \in Values /\ \A i \in 0 .. (Lanes - 1) : -h <= input[i] /\ input[i] <= h - 1
    BY <1>1, Widths DEF Values, Positions
  <1>3. Lanes \in Nat \ {0} /\ Lanes \in 0 .. Lanes
    BY ScheduleAssumption
  <1>4. PICK s \in Int : s = Sums(input)[Lanes]
    BY <1>2, <1>3, SumsAre
  <1>5. Lanes * (-h) <= s /\ s <= Lanes * (h - 1)
    <2>1. -h \in Int /\ h - 1 \in Int
      OBVIOUS
    <2>2. QED
      BY <1>2, <1>3, <1>4, <2>1, SumsLieBetween
  <1>6. CASE s >= 0
    <2>1. PICK q \in Nat, m \in 0 .. Lanes - 1 : q = s \div Lanes /\ s = Lanes * q + m
      BY <1>3, <1>6, Quotients
    <2>2. Lanes * (h - 1) < h * Lanes
      BY <1>3
    <2>3. Lanes * q + m < h * Lanes
      BY <1>3, <1>5, <2>1, <2>2
    <2>4. q < h
      BY <1>3, <2>3, QuotientIsBelow
    <2>5. TruncDiv(s, Lanes) = q
      BY <1>6, <2>1 DEF TruncDiv
    <2>6. q \in Words
      BY <1>1, <2>4, Widths
    <2>7. QED
      BY <1>4, <2>5, <2>6
  <1>7. CASE s < 0
    <2>1. PICK q \in Nat, m \in 0 .. Lanes - 1 : q = (-s) \div Lanes /\ -s = Lanes * q + m
      <3>1. -s \in Nat
        BY <1>7
      <3>2. QED
        BY <1>3, <3>1, Quotients
    <2>2. Lanes * (-h) = -(Lanes * h) /\ (h + 1) * Lanes = Lanes * h + Lanes /\ Lanes * h \in Nat
      BY <1>3
    <2>3. Lanes * q + m < (h + 1) * Lanes
      BY <1>3, <1>5, <2>1, <2>2
    <2>4. q < h + 1
      BY <1>3, <2>3, QuotientIsBelow
    <2>5. TruncDiv(s, Lanes) = -q
      BY <1>7, <2>1 DEF TruncDiv
    <2>6. -q \in Words
      BY <1>1, <2>4, Widths
    <2>7. QED
      BY <1>4, <2>5, <2>6
  <1>8. QED
    BY <1>6, <1>7

LEMMA AddLaneKeeps ==
  ASSUME ScheduleInv, AddLane
  PROVE  ScheduleInv'
  <1>1. ScheduleTypes /\ stage = "mean" /\ lane < Lanes /\ total = Sums(input)[lane]
        /\ low = 0 /\ high = 0
    BY DEF ScheduleInv, AddLane
  <1>2. /\ total' = total + input[lane] /\ lane' = lane + 1
        /\ UNCHANGED <<stage, input, affine, mean, low, high, remainder, root, bit, output>>
    BY DEF AddLane, operands, limbs, rootVars
  <1>3. input \in Values
    BY <1>1, Widths DEF ScheduleTypes, Values, Positions
  <1>4. lane \in Positions /\ lane + 1 \in 1 .. Lanes /\ lane + 1 \in 0 .. Lanes /\ (lane + 1) - 1 = lane
    BY <1>1, ScheduleAssumption DEF ScheduleTypes, Positions
  <1>5. Sums(input)[lane + 1] = Sums(input)[lane] + input[lane]
    BY <1>3, <1>4, SumsAre
  <1>6. total' = Sums(input)[lane'] /\ total' \in Int
    <2>1. Sums(input)[lane + 1] \in Int
      BY <1>3, <1>4, SumsAre
    <2>2. QED
      BY <1>1, <1>2, <1>5, <2>1
  <1>7. ScheduleTypes'
    BY <1>1, <1>2, <1>4, <1>6 DEF ScheduleTypes
  <1>8. stage' = "mean" /\ low' = 0 /\ high' = 0 /\ total' = Sums(input')[lane']
    BY <1>1, <1>2, <1>6
  <1>9. QED
    BY <1>7, <1>8 DEF ScheduleInv

LEMMA TakeMeanKeeps ==
  ASSUME ScheduleInv, TakeMean
  PROVE  ScheduleInv'
  <1>1. ScheduleTypes /\ stage = "mean" /\ lane = Lanes /\ total = Sums(input)[lane]
        /\ low = 0 /\ high = 0
    BY DEF ScheduleInv, TakeMean
  <1>2. /\ mean' = TruncDiv(total, Lanes) /\ stage' = "squares" /\ lane' = 0
        /\ UNCHANGED <<input, affine, total, low, high, remainder, root, bit, output>>
    BY DEF TakeMean, operands, limbs, rootVars
  <1>3. mean' = TruncDiv(Sums(input')[Lanes], Lanes) /\ mean' \in Words
    BY <1>1, <1>2, MeanIsAWord DEF ScheduleTypes
  <1>4. ScheduleTypes'
    BY <1>1, <1>2, <1>3, ScheduleAssumption DEF ScheduleTypes, Stages
  <1>5. Sums(Squares')[0] = 0
    <2>1. input' \in [Positions -> Words]
      BY <1>4 DEF ScheduleTypes
    <2>2. Squares' \in Values
      <3>1. ASSUME NEW x \in [Positions -> Words], NEW y \in Words
            PROVE  [i \in 0 .. (Lanes - 1) |-> (x[i] - y) * (x[i] - y)] \in Values
        <4>1. ASSUME NEW i \in 0 .. (Lanes - 1) PROVE (x[i] - y) * (x[i] - y) \in Int
          <5>1. x[i] \in Int /\ y \in Int
            BY Widths DEF Positions
          <5>2. PICK a \in Int : a = x[i] - y
            BY <5>1
          <5>3. a * a \in Int
            OBVIOUS
          <5>4. QED
            BY <5>2, <5>3
        <4>2. QED
          BY <4>1 DEF Values
      <3>2. Squares' = [i \in 0 .. (Lanes - 1) |-> (input'[i] - mean') * (input'[i] - mean')]
        BY DEF Squares, Delta
      <3>3. QED
        BY <1>3, <2>1, <3>1, <3>2
    <2>3. QED
      BY <2>2, SumsAre
  <1>6. high' * Limb + low' = 0
    BY <1>1, <1>2, Widths
  <1>7. QED
    BY <1>2, <1>3, <1>4, <1>5, <1>6 DEF ScheduleInv
LEMMA SquaresStay ==
  ASSUME UNCHANGED <<input, mean>>
  PROVE  Squares' = Squares /\ ExactVariance' = ExactVariance
  <1>1. Squares' = Squares
    BY DEF Squares, Delta
  <1>2. QED
    BY <1>1 DEF ExactVariance

(* The two limbs count on: no square is cut off and no carry is lost.      *)
LEMMA CarriesCount ==
  ASSUME NEW l \in 0 .. Limb - 1, NEW h \in Nat, NEW s \in 0 .. LargestSquare,
         NEW n \in Nat, n < Lanes, h * Limb + l + s <= (n + 1) * LargestSquare,
         NEW next, next = (l + s) % Limb
  PROVE  /\ next \in 0 .. Limb - 1
         /\ (h + (IF next < l THEN 1 ELSE 0)) % High \in Nat
         /\ ((h + (IF next < l THEN 1 ELSE 0)) % High) * Limb + next = h * Limb + l + s
  <1>1. PICK b \in Nat \ {0}, m \in Nat : b = Limb /\ m = LargestSquare /\ m < b
    BY Widths, LargestSquareIs
  <1>2. Lanes \in Nat \ {0} /\ High \in Nat \ {0} /\ Lanes <= High
    BY ScheduleAssumption
  <1>3. s < b /\ l < b /\ l \in Nat /\ s \in Nat
    BY <1>1
  <1>4. PICK c \in {0, 1}, r \in 0 .. b - 1 : l + s = b * c + r
    <2>1. CASE l + s < b
      <3>1. l + s \in 0 .. b - 1 /\ l + s = b * 0 + (l + s)
        BY <1>3, <2>1
      <3>2. QED
        BY <3>1
    <2>2. CASE l + s >= b
      <3>1. l + s - b \in 0 .. b - 1 /\ l + s = b * 1 + (l + s - b)
        BY <1>3, <2>2
      <3>2. QED
        BY <3>1
    <2>3. QED
      BY <2>1, <2>2, <1>3
  <1>5. next = r
    <2>1. (b * c + r) % b = r
      <3>1. c \in Nat
        BY <1>4
      <3>2. QED
        BY <1>4, <3>1, Digits
    <2>2. QED
      BY <1>1, <1>4, <2>1
  <1>6. (IF next < l THEN 1 ELSE 0) = c
    <2>1. CASE c = 0
      <3>1. r = l + s
        BY <1>1, <1>3, <1>4, <2>1
      <3>2. QED
        BY <1>3, <1>5, <2>1, <3>1
    <2>2. CASE c = 1
      <3>1. r = l + s - b
        BY <1>1, <1>3, <1>4, <2>2
      <3>2. QED
        BY <1>3, <1>5, <2>2, <3>1
    <2>3. QED
      BY <2>1, <2>2
  <1>7. PICK k \in Nat : k = h + c
    BY <1>4
  <1>8. k * b + r = h * b + l + s
    <2>1. CASE c = 0
      BY <1>4, <1>7, <2>1, <1>3
    <2>2. CASE c = 1
      <3>1. k * b = h * b + b /\ h * b \in Nat
        BY <1>7, <2>2
      <3>2. QED
        BY <1>4, <2>2, <3>1, <1>3
    <2>3. QED
      BY <2>1, <2>2
  <1>9. k < High
    <2>1. (n + 1) * m <= Lanes * m
      <3>1. m * (n + 1) <= m * Lanes
        BY <1>2, ProductsGrow
      <3>2. m * (n + 1) = (n + 1) * m /\ m * Lanes = Lanes * m
        BY <1>2
      <3>3. QED
        BY <3>1, <3>2
    <2>2. Lanes * m < Lanes * b
      <3>1. PICK e \in Nat : b = m + 1 + e
        BY <1>1, b - m - 1 \in Nat
      <3>2. Lanes * b = Lanes * m + Lanes + Lanes * e /\ Lanes * e \in Nat /\ Lanes * m \in Nat
        BY <1>2, <3>1
      <3>3. QED
        BY <1>2, <3>2
    <2>3. h * b + l + s <= (n + 1) * m
      BY <1>1
    <2>4. (n + 1) * m \in Nat /\ Lanes * m \in Nat /\ Lanes * b \in Nat /\ k * b \in Nat
          /\ k * b = b * k /\ Lanes * b = Lanes * b
      BY <1>2
    <2>5. b * k + r < Lanes * b
      BY <1>8, <2>1, <2>2, <2>3, <2>4
    <2>6. k < Lanes
      BY <1>2, <2>5, QuotientIsBelow
    <2>7. QED
      BY <1>2, <2>6
  <1>10. k % High = k
    BY <1>2, <1>9
  <1>11. QED
    BY <1>1, <1>4, <1>5, <1>6, <1>7, <1>8, <1>10

LEMMA AddSquareKeeps ==
  ASSUME ScheduleInv, AddSquare
  PROVE  ScheduleInv'
  <1>1. /\ ScheduleTypes /\ stage = "squares" /\ lane < Lanes
        /\ high * Limb + low = Sums(Squares)[lane]
        /\ mean = TruncDiv(Sums(input)[Lanes], Lanes)
    BY DEF ScheduleInv, AddSquare
  <1>2. /\ lane' = lane + 1
        /\ UNCHANGED <<stage, input, affine, total, mean, remainder, root, bit, output>>
    BY DEF AddSquare, operands, rootVars
  <1>a. /\ low' = (low + ((Abs(Delta(lane)) * Abs(Delta(lane))) % Limb)) % Limb
        /\ high' = (high + (IF low' < low THEN 1 ELSE 0)) % High
    BY Zenon DEF AddSquare
  <1>3. lane \in Positions /\ lane \in Nat /\ lane + 1 \in 1 .. Lanes /\ lane + 1 \in 0 .. Lanes
        /\ (lane + 1) - 1 = lane
    BY <1>1, ScheduleAssumption DEF ScheduleTypes, Positions
  <1>4. PICK s \in 0 .. LargestSquare :
          s = Abs(Delta(lane)) * Abs(Delta(lane)) /\ s = Delta(lane) * Delta(lane) /\ s = Squares[lane]
    BY <1>1, <1>3, DeltasAre, SquaresAre DEF ScheduleTypes
  <1>5. s % Limb = s
    <2>1. PICK b \in Nat \ {0}, m \in Nat : b = Limb /\ m = LargestSquare /\ m < b
      BY Widths, LargestSquareIs
    <2>2. s \in Nat /\ s < b
      BY <2>1
    <2>3. s % b = s
      BY <2>1, <2>2
    <2>4. QED
      BY <2>1, <2>3
  <1>6. /\ Sums(Squares)[lane + 1] = Sums(Squares)[lane] + s
        /\ Sums(Squares)[lane + 1] <= (lane + 1) * LargestSquare
    BY <1>1, <1>3, <1>4, SquaresAre, SumsAre DEF ScheduleTypes
  <1>7. /\ low \in 0 .. Limb - 1 /\ high \in Nat
    BY <1>1 DEF ScheduleTypes
  <1>8. PICK next : next = (low + s) % Limb
    OBVIOUS
  <1>9. high * Limb + low + s <= (lane + 1) * LargestSquare
    BY <1>1, <1>6
  <1>10. low' = next /\ high' = (high + (IF next < low THEN 1 ELSE 0)) % High
    <2>1. low' = (low + s) % Limb
      BY <1>a, <1>4, <1>5, Zenon
    <2>2. QED
      BY <1>a, <1>8, <2>1, Zenon
  <1>11. low' \in 0 .. Limb - 1 /\ high' \in Nat /\ high' * Limb + low' = high * Limb + low + s
    BY <1>1, <1>3, <1>4, <1>7, <1>8, <1>9, <1>10, CarriesCount
  <1>12. ScheduleTypes'
    BY <1>1, <1>2, <1>3, <1>11 DEF ScheduleTypes
  <1>13. Squares' = Squares
    BY <1>2, SquaresStay
  <1>14. high' * Limb + low' = Sums(Squares')[lane']
    BY <1>1, <1>2, <1>6, <1>11, <1>13
  <1>15. stage' = "squares" /\ mean' = TruncDiv(Sums(input')[Lanes], Lanes)
    BY <1>1, <1>2
  <1>16. QED
    BY <1>12, <1>14, <1>15 DEF ScheduleInv

(* The limbs shifted meet in the exact variance.                           *)
LEMMA VarianceIsExact ==
  ASSUME ScheduleTypes, high * Limb + low = Sums(Squares)[Lanes]
  PROVE  /\ Variance = ExactVariance
         /\ ExactVariance \in Nat /\ Epsilon <= ExactVariance /\ ExactVariance < Limb
  <1>1. PICK b \in Nat \ {0}, m \in Nat, w \in Nat :
          b = Limb /\ m = LargestSquare /\ w = Word /\ m + 2 * w = b + 1 /\ m < b
    BY Widths, LargestSquareIs
  <1>2. Lanes \in Nat \ {0} /\ Epsilon \in Nat /\ Epsilon < w /\ b % Lanes = 0 /\ Lanes \in 0 .. Lanes
    BY <1>1, ScheduleAssumption
  <1>3. PICK h \in Nat, l \in 0 .. b - 1, s \in Nat :
          h = high /\ l = low /\ s = Sums(Squares)[Lanes] /\ h * b + l = s /\ s <= Lanes * m
    BY <1>1, <1>2, SquaresAre DEF ScheduleTypes
  <1>4. PICK d \in Nat : d = b \div Lanes /\ b = Lanes * d
    <2>1. b = Lanes * (b \div Lanes) + (b % Lanes) /\ b \div Lanes \in Nat
      BY <1>2, Quotients
    <2>2. Lanes * (b \div Lanes) \in Nat
      BY <1>2, <2>1
    <2>3. QED
      BY <1>2, <2>1, <2>2
  <1>5. h < Lanes
    <2>1. Lanes * m < Lanes * b
      <3>1. PICK e \in Nat : b = m + 1 + e
        BY <1>1, b - m - 1 \in Nat
      <3>2. Lanes * b = Lanes * m + Lanes + Lanes * e /\ Lanes * e \in Nat /\ Lanes * m \in Nat
        BY <1>2, <3>1
      <3>3. QED
        BY <1>2, <3>2
    <2>2. h * b = b * h /\ h * b \in Nat /\ Lanes * m \in Nat /\ Lanes * b \in Nat
      BY <1>2
    <2>3. b * h + l < Lanes * b
      BY <1>3, <2>1, <2>2
    <2>4. QED
      BY <1>2, <2>3, QuotientIsBelow
  <1>6. h * d \in Nat /\ h * d < b
    <2>1. PICK e \in Nat : Lanes = h + 1 + e
      BY <1>2, <1>5, Lanes - h - 1 \in Nat
    <2>2. b = h * d + d + e * d /\ e * d \in Nat /\ h * d \in Nat
      BY <1>4, <2>1
    <2>3. d > 0
      <3>1. d = 0 => Lanes * d = 0
        BY <1>2
      <3>2. QED
        BY <1>4, <3>1
    <2>4. QED
      BY <2>2, <2>3
  <1>7. (h * d) % b = h * d
    BY <1>6
  <1>8. PICK q \in Nat, r \in 0 .. Lanes - 1 : q = l \div Lanes /\ l = Lanes * q + r
    <2>1. l \in Nat
      OBVIOUS
    <2>2. l \div Lanes \in Nat /\ l % Lanes \in 0 .. Lanes - 1 /\ l = Lanes * (l \div Lanes) + (l % Lanes)
      BY <1>2, <2>1, Quotients
    <2>3. QED
      BY <2>2
  <1>9. s = Lanes * (h * d + q) + r
    <2>1. h * b = Lanes * (h * d)
      BY <1>2, <1>4
    <2>2. Lanes * (h * d + q) = Lanes * (h * d) + Lanes * q
      BY <1>2, <1>6
    <2>3. Lanes * (h * d) \in Nat /\ Lanes * q \in Nat
      BY <1>2, <1>6
    <2>4. QED
      BY <1>3, <1>8, <2>1, <2>2, <2>3
  <1>10. s \div Lanes = h * d + q
    <2>1. PICK p \in Nat : p = h * d + q
      BY <1>6
    <2>2. (Lanes * p + r) \div Lanes = p
      BY <1>2, Digits
    <2>3. QED
      BY <1>9, <2>1, <2>2
  <1>11. PICK v \in Nat : v = h * d + q + Epsilon
    BY <1>2, <1>6
  <1>12. ExactVariance = v
    BY <1>3, <1>10, <1>11 DEF ExactVariance
  <1>13. v < b
    <2>1. PICK p \in Nat : p = h * d + q
      BY <1>6
    <2>2. Lanes * p + r <= Lanes * m
      BY <1>3, <1>9, <2>1
    <2>3. (m + 1) * Lanes = Lanes * m + Lanes /\ Lanes * m \in Nat /\ Lanes * p \in Nat
      BY <1>2
    <2>4. Lanes * p + r < (m + 1) * Lanes
      BY <1>2, <2>2, <2>3
    <2>5. p < m + 1
      BY <1>2, <2>4, QuotientIsBelow
    <2>6. QED
      BY <1>1, <1>2, <1>11, <2>1, <2>5, LargestSquareIs
  <1>14. Variance = v
    <2>1. Variance = (((h * d) % b) + q + Epsilon) % b
      BY <1>1, <1>3, <1>4, <1>8 DEF Variance
    <2>2. v % b = v
      BY <1>13
    <2>3. QED
      BY <1>7, <1>11, <2>1, <2>2
  <1>15. Epsilon <= v
    BY <1>2, <1>6, <1>11
  <1>16. QED
    BY <1>1, <1>12, <1>13, <1>14, <1>15
LEMMA TakeVarianceKeeps ==
  ASSUME ScheduleInv, TakeVariance
  PROVE  ScheduleInv'
  <1>1. /\ ScheduleTypes /\ stage = "squares" /\ lane = Lanes
        /\ high * Limb + low = Sums(Squares)[Lanes]
        /\ mean = TruncDiv(Sums(input)[Lanes], Lanes)
    BY DEF ScheduleInv, TakeVariance
  <1>2. /\ remainder' = Variance /\ root' = 0 /\ bit' = Limb \div 4 /\ stage' = "root" /\ lane' = 0
        /\ UNCHANGED <<input, affine, total, mean, low, high, output>>
    BY DEF TakeVariance, operands, limbs
  <1>3. PICK v \in Nat : v = Variance /\ v = ExactVariance /\ v < Limb
    BY <1>1, VarianceIsExact
  <1>4. PICK h \in Nat \ {0} :
          /\ h = HalfWord /\ h = PowerTable[WordBits - 1] /\ Word = 2 * h
          /\ Limb \div 4 = h * h /\ Limb = 4 * (h * h) /\ h * h \in Nat
    BY Widths
  <1>5. WordBits - 1 \in 0 .. WordBits - 1 /\ 0 \in 0 .. Lanes
    <2>1. PICK b \in Nat \ {0}, n \in Nat \ {0} : b = WordBits /\ n = Lanes
      BY ScheduleAssumption, Zenon
    <2>2. b - 1 \in 0 .. b - 1 /\ 0 \in 0 .. n
      OBVIOUS
    <2>3. QED
      BY <2>1, <2>2, Zenon
  <1>6. ExactVariance' = v /\ Squares' = Squares
    BY <1>2, <1>3, SquaresStay
  <1>7. Partial(WordBits - 1, 0)'
    <2>1. bit' = h * h /\ root' = 2 * (0 * h)
      BY <1>2, <1>4
    <2>2. remainder' + 0 * 0 = v
      BY <1>2, <1>3
    <2>3. (0 + 2 * h) * (0 + 2 * h) = 4 * (h * h)
      OBVIOUS
    <2>4. v < (0 + 2 * h) * (0 + 2 * h) /\ 0 + 2 * h <= Word
      BY <1>3, <1>4, <2>3
    <2>5. QED
      BY <1>4, <1>6, <2>1, <2>2, <2>4 DEF Partial
  <1>8. ScheduleTypes'
    BY <1>1, <1>2, <1>3, <1>4, <1>5 DEF ScheduleTypes, Stages
  <1>9. high' * Limb + low' = Sums(Squares')[Lanes] /\ mean' = TruncDiv(Sums(input')[Lanes], Lanes)
    BY <1>1, <1>2, <1>6
  <1>10. \E k \in 0 .. WordBits - 1, p \in Nat : Partial(k, p)'
    BY <1>5, <1>7
  <1>11. QED
    BY <1>2, <1>8, <1>9, <1>10 DEF ScheduleInv

(* One bit of the root: its square either is in what is left or is not.    *)
LEMMA BitIsTried ==
  ASSUME ScheduleTypes, NEW k \in 0 .. WordBits - 1, NEW p \in Nat, Partial(k, p), RootBit,
         ExactVariance \in Nat
  PROVE  \E q \in Nat \ {0}, r \in Nat :
           /\ q = PowerTable[k] /\ r + 2 * q <= Word + q /\ r + q <= Word
           /\ bit' = (q * q) \div 4
           /\ root' = r * q
           /\ remainder' \in Nat /\ remainder' + r * r = ExactVariance
           /\ ExactVariance < (r + q) * (r + q)
  <1>1. PICK q \in Nat \ {0} : q = PowerTable[k]
    <2>1. k \in 0 .. WordBits
      BY ScheduleAssumption
    <2>2. QED
      BY <2>1, PowersArePositive
  <1>2. PICK v \in Nat, x \in Nat, w \in Nat : v = ExactVariance /\ x = remainder /\ w = Word /\ Limb = w * w
    BY Widths DEF ScheduleTypes
  <1>3. PICK pq \in Nat, qq \in Nat, pp \in Nat : pq = p * q /\ qq = q * q /\ pp = p * p
    OBVIOUS
  <1>4. /\ bit = qq /\ root = 2 * pq /\ x + pp = v
        /\ v < (p + 2 * q) * (p + 2 * q) /\ p + 2 * q <= w
    BY <1>1, <1>2, <1>3 DEF Partial
  <1>5. /\ (p + q) * (p + q) = pp + 2 * pq + qq
        /\ (p + q) * q = pq + qq
        /\ (p + q) * (p + q) < w * w
    <2>1. p + q < w
      BY <1>4
    <2>2. (p + q) * (p + q) < w * w
      BY <2>1, SquaresGrowStrictly
    <2>3. QED
      BY <1>3, <2>2
  <1>6. PICK b \in Nat : b = Limb /\ 2 * pq + qq < b /\ x < b
    <2>1. PICK b \in Nat : b = w * w /\ b = Limb
      BY <1>2
    <2>2. v < w * w
      <3>1. (p + 2 * q) * (p + 2 * q) <= w * w
        BY <1>4, SquaresGrow
      <3>2. w * w \in Nat /\ (p + 2 * q) * (p + 2 * q) \in Nat
        OBVIOUS
      <3>3. QED
        BY <1>4, <3>1, <3>2
    <2>3. QED
      BY <1>4, <1>5, <2>1, <2>2
  <1>7. (root + bit) % Limb = 2 * pq + qq
    <2>1. (2 * pq + qq) % b = 2 * pq + qq
      BY <1>6
    <2>2. QED
      BY <1>4, <1>6, <2>1
  <1>8. root \div 2 = pq
    BY <1>4
  <1>9. bit' = (q * q) \div 4
    BY <1>3, <1>4 DEF RootBit
  <1>10. CASE x >= 2 * pq + qq
    <2>1. remainder' = (x - (2 * pq + qq)) % b /\ root' = (pq + qq) % b
      <3>1. remainder >= (root + bit) % Limb
        BY <1>2, <1>7, <1>10
      <3>2. remainder' = (remainder - ((root + bit) % Limb)) % Limb
            /\ root' = ((root \div 2) + bit) % Limb
        BY <3>1, Zenon DEF RootBit
      <3>3. QED
        BY <3>2, <1>2, <1>4, <1>6, <1>7, <1>8
    <2>2. remainder' = x - (2 * pq + qq) /\ root' = pq + qq
      <3>1. x - (2 * pq + qq) \in Nat /\ x - (2 * pq + qq) < b /\ pq + qq < b /\ pq + qq \in Nat
        BY <1>6, <1>10
      <3>2. (x - (2 * pq + qq)) % b = x - (2 * pq + qq) /\ (pq + qq) % b = pq + qq
        BY <3>1
      <3>3. QED
        BY <2>1, <3>2
    <2>3. PICK r \in Nat : r = p + q
      OBVIOUS
    <2>4. root' = r * q /\ remainder' + r * r = v /\ remainder' \in Nat
      BY <1>4, <1>5, <1>10, <2>2, <2>3
    <2>5. v < (r + q) * (r + q) /\ r + q <= w /\ r + 2 * q <= w + q
      <3>1. r + q = p + 2 * q
        BY <2>3
      <3>2. QED
        BY <1>4, <3>1
    <2>6. QED
      BY <1>1, <1>2, <1>9, <2>4, <2>5
  <1>11. CASE ~(x >= 2 * pq + qq)
    <2>1. remainder' = x /\ root' = pq
      <3>1. ~(remainder >= (root + bit) % Limb)
        BY <1>2, <1>7, <1>11
      <3>2. remainder' = remainder /\ root' = root \div 2
        BY <3>1, Zenon DEF RootBit
      <3>3. QED
        BY <3>2, <1>2, <1>8
    <2>2. v < (p + q) * (p + q) /\ p + q <= w /\ p + 2 * q <= w + q
      BY <1>4, <1>5, <1>11
    <2>3. root' = p * q /\ remainder' + p * p = v /\ remainder' \in Nat
      BY <1>3, <1>4, <2>1
    <2>4. QED
      BY <1>1, <1>2, <1>9, <2>2, <2>3
  <1>12. QED
    BY <1>10, <1>11

LEMMA RootBitKeeps ==
  ASSUME ScheduleInv, RootBit
  PROVE  ScheduleInv'
  <1>1. /\ ScheduleTypes /\ stage = "root" /\ lane = 0 /\ bit > 0
        /\ high * Limb + low = Sums(Squares)[Lanes]
        /\ mean = TruncDiv(Sums(input)[Lanes], Lanes)
    BY DEF ScheduleInv, RootBit
  <1>2. PICK k \in 0 .. WordBits - 1, p \in Nat : Partial(k, p)
    BY <1>1 DEF ScheduleInv, ScheduleTypes
  <1>3. UNCHANGED <<stage, lane, input, affine, total, mean, low, high, output>>
    BY DEF RootBit, operands, limbs
  <1>4. PICK v \in Nat : v = ExactVariance
    BY <1>1, VarianceIsExact
  <1>5. PICK q \in Nat \ {0}, r \in Nat :
           /\ q = PowerTable[k] /\ r + q <= Word
           /\ bit' = (q * q) \div 4
           /\ root' = r * q
           /\ remainder' \in Nat /\ remainder' + r * r = v
           /\ v < (r + q) * (r + q)
    BY <1>1, <1>2, <1>4, BitIsTried
  <1>6. ExactVariance' = v /\ Squares' = Squares
    BY <1>3, <1>4, SquaresStay
  <1>7. root' \in Nat
    BY <1>5
  <1>8. /\ bit' \in Nat
        /\ \/ \E j \in 0 .. WordBits - 1, s \in Nat : Partial(j, s)'
           \/ bit' = 0 /\ IsRootOf(root', v)
    <2>1. CASE k = 0
      <3>1. q = 1
        BY <1>5, <2>1, Powers
      <3>2. bit' = 0 /\ root' = r
        BY <1>5, <3>1
      <3>3. r * r <= v
        <4>1. PICK rr \in Nat, x \in Nat : rr = r * r /\ x = remainder'
          BY <1>5
        <4>2. x + rr = v
          BY <1>5, <4>1
        <4>3. rr <= v
          BY <4>2
        <4>4. QED
          BY <4>1, <4>3, Zenon
      <3>4. IsRootOf(r, v)
        BY <1>5, <3>1, <3>3 DEF IsRootOf
      <3>5. QED
        BY <3>2, <3>4
    <2>2. CASE k # 0
      <3>1. k \in 1 .. WordBits /\ k - 1 \in 0 .. WordBits - 1 /\ k - 1 \in 0 .. WordBits
        BY <2>2, ScheduleAssumption
      <3>2. PICK h \in Nat \ {0} : h = PowerTable[k - 1] /\ q = 2 * h
        BY <1>5, <3>1, Powers, PowersArePositive
      <3>3. q * q = 4 * (h * h) /\ h * h \in Nat
        BY <3>2
      <3>4. bit' = h * h
        <4>1. PICK hh \in Nat : hh = h * h
          BY <3>3
        <4>2. (4 * hh) \div 4 = hh
          OBVIOUS
        <4>3. QED
          BY <1>5, <3>3, <4>1, <4>2
      <3>5. root' = 2 * (r * h)
        <4>1. r * (2 * h) = 2 * (r * h)
          OBVIOUS
        <4>2. QED
          BY <1>5, <3>2, <4>1
      <3>6. Partial(k - 1, r)'
        BY <1>5, <1>6, <3>2, <3>4, <3>5 DEF Partial
      <3>7. QED
        BY <3>1, <3>3, <3>4, <3>6
    <2>3. QED
      BY <2>1, <2>2
  <1>9. ScheduleTypes'
    BY <1>1, <1>3, <1>5, <1>7, <1>8 DEF ScheduleTypes
  <1>10. IsRootOf(root', v) = IsRootOf(root', ExactVariance')
    BY <1>6
  <1>11. /\ stage' = "root" /\ lane' = 0
         /\ high' * Limb + low' = Sums(Squares')[Lanes]
         /\ mean' = TruncDiv(Sums(input')[Lanes], Lanes)
    BY <1>1, <1>3, <1>6
  <1>12. QED
    BY <1>6, <1>8, <1>9, <1>11 DEF ScheduleInv, IsRootOf

(* While a bit of the root is to be tried, the bit is not zero.            *)
LEMMA BitIsLeft ==
  ASSUME NEW k \in 0 .. WordBits - 1, NEW p \in Nat, Partial(k, p), bit = 0
  PROVE  FALSE
  <1>1. k \in 0 .. WordBits
    BY ScheduleAssumption
  <1>2. PICK q \in Nat \ {0} : q = PowerTable[k]
    BY <1>1, PowersArePositive
  <1>3. bit = q * q
    BY <1>2 DEF Partial
  <1>4. PICK e \in Nat : q = 1 + e
    BY q - 1 \in Nat
  <1>5. q * q = 1 + 2 * e + e * e /\ e * e \in Nat
    BY <1>4
  <1>6. QED
    BY <1>3, <1>5

LEMMA TakeRootKeeps ==
  ASSUME ScheduleInv, TakeRoot
  PROVE  ScheduleInv'
  <1>1. /\ ScheduleTypes /\ stage = "root" /\ lane = 0 /\ bit = 0 /\ root # 0
        /\ high * Limb + low = Sums(Squares)[Lanes]
        /\ mean = TruncDiv(Sums(input)[Lanes], Lanes)
    BY DEF ScheduleInv, TakeRoot
  <1>2. stage' = "emit"
        /\ UNCHANGED <<lane, input, affine, total, mean, low, high, remainder, root, bit, output>>
    BY DEF TakeRoot, operands, limbs, rootVars
  <1>3. IsRootOf(root, ExactVariance)
    BY <1>1, BitIsLeft DEF ScheduleInv
  <1>4. ExactVariance' = ExactVariance /\ Squares' = Squares
    BY <1>2, SquaresStay
  <1>5. ScheduleTypes'
    BY <1>1, <1>2 DEF ScheduleTypes, Stages
  <1>6. root' > 0 /\ IsRootOf(root', ExactVariance')
    BY <1>1, <1>2, <1>3, <1>4 DEF ScheduleTypes
  <1>7. /\ stage' = "emit" /\ lane' = 0
        /\ high' * Limb + low' = Sums(Squares')[Lanes]
        /\ mean' = TruncDiv(Sums(input')[Lanes], Lanes)
    BY <1>1, <1>2, <1>4
  <1>8. \A i \in 0 .. (lane' - 1) : output'[i] = Exact(i)'
    BY <1>7
  <1>9. QED
    BY <1>5, <1>6, <1>7, <1>8 DEF ScheduleInv, IsRootOf
(* A square at most a product of naturals is at most the product of more.  *)
LEMMA FactorsGrow ==
  ASSUME NEW a \in Nat, NEW b \in Nat, NEW d \in Nat, a <= b
  PROVE  a * d <= b * d /\ a * d \in Nat /\ b * d \in Nat
  <1>1. PICK e \in Nat : b = a + e
    BY b - a \in Nat
  <1>2. b * d = a * d + e * d /\ a * d \in Nat /\ e * d \in Nat
    BY <1>1
  <1>3. QED
    BY <1>2

(* No deviation is so many roots that it leaves a word: the sum of squares *)
(* bounds the largest of them.                                             *)
LEMMA DeviationsAreBounded ==
  ASSUME ScheduleTypes, high * Limb + low = Sums(Squares)[Lanes],
         root > 0, IsRootOf(root, ExactVariance), NEW i \in Positions
  PROVE  Abs(Delta(i)) * Unit < HalfWord * root /\ Abs(Delta(i)) \in Nat /\ Delta(i) \in Int
  <1>1. PICK t \in Nat \ {0}, u \in Nat \ {0}, n \in Nat \ {0}, e \in Nat \ {0}, h \in Nat \ {0} :
          t = root /\ u = Unit /\ n = Lanes /\ e = Epsilon /\ h = HalfWord
    <2>1. root \in Nat \ {0}
      BY DEF ScheduleTypes
    <2>2. Unit \in Nat \ {0} /\ Lanes \in Nat \ {0} /\ Epsilon \in Nat \ {0} /\ HalfWord \in Nat \ {0}
      BY ScheduleAssumption, Widths
    <2>3. QED
      BY <2>1, <2>2, Zenon
  <1>2. input \in [Positions -> Words] /\ mean \in Words /\ n \in 0 .. Lanes
    BY <1>1 DEF ScheduleTypes
  <1>3. PICK a \in Nat, s \in Nat : a = Abs(Delta(i)) /\ s = Sums(Squares)[Lanes] /\ a * a <= s
    <2>1. PICK a \in Nat : a = Abs(Delta(i)) /\ a * a = Squares[i] /\ a * a \in Nat
      BY <1>2, DeltasAre, SquaresAre
    <2>2. i \in 0 .. (Lanes - 1) /\ Squares \in Values /\ \A j \in 0 .. (Lanes - 1) : 0 <= Squares[j]
      BY <1>2, SquaresAre DEF Positions
    <2>3. Squares[i] <= Sums(Squares)[Lanes]
      BY <2>2, ValuesAreInTheSum
    <2>4. Sums(Squares)[Lanes] \in Nat
      BY <1>1, <1>2, SquaresAre
    <2>5. QED
      BY <2>1, <2>3, <2>4
  <1>4. PICK v \in Nat : v = ExactVariance /\ s < n * v
    <2>1. PICK z \in Nat, m \in 0 .. n - 1 : z = s \div n /\ m = s % n /\ s = n * z + m
      <3>1. s \div n \in Nat /\ s % n \in 0 .. n - 1 /\ s = n * (s \div n) + (s % n)
        BY Quotients
      <3>2. QED
        BY <3>1, Zenon
    <2>2. ExactVariance = z + e
      BY <1>1, <1>3, <2>1 DEF ExactVariance
    <2>3. PICK f \in Nat : e = 1 + f
      BY e - 1 \in Nat
    <2>4. n * (z + e) = n * z + n + n * f /\ n * f \in Nat /\ n * z \in Nat
      BY <2>3
    <2>5. s < n * (z + e) /\ z + e \in Nat
      BY <2>1, <2>4
    <2>6. QED
      BY <2>2, <2>5
  <1>5. PICK tt \in Nat : tt = t * t /\ v <= 4 * tt
    <2>1. t * t \in Nat
      OBVIOUS
    <2>2. v < (t + 1) * (t + 1)
      BY <1>1, <1>4 DEF IsRootOf
    <2>3. (t + 1) * (t + 1) <= (2 * t) * (2 * t)
      <3>1. t + 1 \in Nat /\ 2 * t \in Nat /\ t + 1 <= 2 * t
        OBVIOUS
      <3>2. QED
        BY <3>1, SquaresGrow
    <2>4. (2 * t) * (2 * t) = 4 * (t * t)
      OBVIOUS
    <2>5. QED
      <3>1. PICK y \in Nat, tt \in Nat : y = (t + 1) * (t + 1) /\ tt = t * t
        OBVIOUS
      <3>2. QED
        BY <2>2, <2>3, <2>4, <3>1
  <1>6. a * a < 4 * (n * tt) /\ a * a \in Nat /\ n * tt \in Nat
    <2>1. n * v <= n * (4 * tt) /\ n * v \in Int
      BY <1>5, ProductsGrow
    <2>2. n * (4 * tt) = 4 * (n * tt) /\ n * tt \in Nat /\ a * a \in Nat
      OBVIOUS
    <2>3. PICK aa \in Nat, nt \in Nat, nv \in Int : aa = a * a /\ nt = n * tt /\ nv = n * v
      BY <2>1, <2>2
    <2>4. QED
      BY <1>3, <1>4, <2>1, <2>2, <2>3
  <1>7. (a * u) * (a * u) < (h * t) * (h * t)
    <2>1. PICK uu \in Nat \ {0} : uu = u * u
      <3>1. PICK f \in Nat : u = 1 + f
        BY u - 1 \in Nat
      <3>2. u * u = 1 + 2 * f + f * f /\ f * f \in Nat
        BY <3>1
      <3>3. QED
        BY <3>2
    <2>2. PICK aa \in Nat, nt \in Nat : aa = a * a /\ nt = n * tt /\ aa < 4 * nt
      BY <1>6
    <2>3. aa * uu < (4 * nt) * uu
      <3>1. PICK f \in Nat : 4 * nt = aa + 1 + f
        <4>1. 4 * nt - aa - 1 \in Nat /\ 4 * nt = aa + 1 + (4 * nt - aa - 1)
          BY <2>2
        <4>2. QED
          BY <4>1, Zenon
      <3>2. (aa + 1 + f) * uu = aa * uu + uu + f * uu /\ f * uu \in Nat /\ aa * uu \in Nat
        OBVIOUS
      <3>3. QED
        BY <3>1, <3>2
    <2>4. PICK hh \in Nat, c \in Nat : hh = h * h /\ c = 4 * n * uu /\ c <= hh
      <3>1. 4 * n * (u * u) <= h * h
        BY <1>1, ScheduleAssumption
      <3>2. 4 * n * uu \in Nat /\ h * h \in Nat
        OBVIOUS
      <3>3. QED
        BY <2>1, <3>1, <3>2
    <2>5. c * tt <= hh * tt
      BY <2>4, FactorsGrow
    <2>6. (4 * nt) * uu = c * tt
      BY <2>2, <2>4
    <2>7. (a * u) * (a * u) = aa * uu
      BY <2>1, <2>2
    <2>8. (h * t) * (h * t) = hh * tt
      BY <1>5, <2>4
    <2>9. PICK x \in Nat, y \in Nat, z \in Nat : x = aa * uu /\ y = c * tt /\ z = hh * tt
      OBVIOUS
    <2>10. QED
      BY <2>3, <2>5, <2>6, <2>7, <2>8, <2>9
  <1>8. a * u < h * t
    <2>1. a * u \in Nat /\ h * t \in Nat
      OBVIOUS
    <2>2. QED
      BY <1>7, <2>1, RootsGrow
  <1>9. Delta(i) \in Int
    BY <1>2, DeltasAre
  <1>10. QED
    BY <1>1, <1>3, <1>8, <1>9

(* A normalised value fits its word, so wrapping does not change it.       *)
LEMMA NormalizedIsExact ==
  ASSUME ScheduleTypes, high * Limb + low = Sums(Squares)[Lanes],
         root > 0, IsRootOf(root, ExactVariance), NEW i \in Positions
  PROVE  Normalized(i) = TruncDiv(Delta(i) * Unit, root)
  <1>1. PICK t \in Nat \ {0}, u \in Nat \ {0}, h \in Nat \ {0}, d \in Int, a \in Nat :
          /\ t = root /\ u = Unit /\ h = HalfWord /\ d = Delta(i) /\ a = Abs(Delta(i))
          /\ a * u < h * t
    <2>1. root \in Nat \ {0} /\ Unit \in Nat \ {0} /\ HalfWord \in Nat \ {0}
      BY ScheduleAssumption, Widths DEF ScheduleTypes
    <2>2. Abs(Delta(i)) * Unit < HalfWord * root /\ Abs(Delta(i)) \in Nat /\ Delta(i) \in Int
      BY DeviationsAreBounded
    <2>3. QED
      BY <2>1, <2>2, Zenon
  <1>2. PICK x \in Nat : x = a * u
    OBVIOUS
  <1>3. PICK q \in Nat : q = x \div t /\ q < h
    <2>1. PICK q \in Nat, m \in 0 .. t - 1 : q = x \div t /\ x = t * q + m
      BY Quotients
    <2>2. t * q + m < h * t
      BY <1>1, <1>2, <2>1
    <2>3. q < h
      BY <2>2, QuotientIsBelow
    <2>4. QED
      BY <2>1, <2>3
  <1>4. TruncDiv(d * u, t) = IF d * u < 0 THEN -((-(d * u)) \div t) ELSE (d * u) \div t
    BY DEF TruncDiv
  <1>5. TruncDiv(d * u, t) \in {q, -q}
    <2>1. CASE d >= 0
      <3>1. a = d /\ d * u = x
        BY <1>1, <1>2, <2>1 DEF Abs
      <3>2. QED
        BY <1>3, <1>4, <3>1
    <2>2. CASE d < 0
      <3>1. a = -d
        BY <1>1, <2>2 DEF Abs
      <3>2. -(d * u) = x
        BY <1>2, <3>1
      <3>3. d * u = -x
        BY <3>2
      <3>4. CASE x = 0
        BY <1>3, <1>4, <3>3, <3>4
      <3>5. CASE x # 0
        BY <1>3, <1>4, <3>2, <3>3, <3>5
      <3>6. QED
        BY <3>4, <3>5
    <2>3. QED
      BY <2>1, <2>2
  <1>6. TruncDiv(d * u, t) \in Words
    BY <1>1, <1>3, <1>5, Widths
  <1>7. QED
    BY <1>1, <1>6, SignedFits DEF Normalized
LEMMA EmitKeeps ==
  ASSUME ScheduleInv, Emit
  PROVE  ScheduleInv'
  <1>1. /\ ScheduleTypes /\ stage = "emit" /\ lane < Lanes
        /\ high * Limb + low = Sums(Squares)[Lanes]
        /\ mean = TruncDiv(Sums(input)[Lanes], Lanes)
        /\ root > 0 /\ IsRootOf(root, ExactVariance)
        /\ \A i \in 0 .. (lane - 1) : output[i] = Exact(i)
    BY DEF ScheduleInv, Emit
  <1>2. lane \in Nat /\ lane \in Positions /\ DOMAIN output = Positions /\ Lanes \in Nat
    BY <1>1, ScheduleAssumption DEF ScheduleTypes, Positions
  <1>3. UNCHANGED <<stage, input, affine, total, mean, low, high, remainder, root, bit>>
        /\ lane' = lane + 1
    BY DEF Emit, operands, limbs, rootVars
  <1>4. output' = [output EXCEPT ![lane] = Exact(lane)]
    <2>1. Normalized(lane) = TruncDiv(Delta(lane) * Unit, root)
      BY <1>1, <1>2, NormalizedIsExact
    <2>2. output' = [output EXCEPT ![lane] =
                       Signed((Normalized(lane) * affine.gamma) \div Unit + affine.beta)]
      BY Zenon DEF Emit
    <2>3. QED
      BY <2>1, <2>2, Zenon DEF Exact
  <1>5. ExactVariance' = ExactVariance /\ Squares' = Squares
    BY <1>3, SquaresStay
  <1>6. \A i \in Positions : Exact(i)' = Exact(i)
    BY <1>3 DEF Exact, Delta
  <1>7. \A i \in 0 .. (lane' - 1) : output'[i] = Exact(i)'
    <2>1. ASSUME NEW i \in 0 .. (lane' - 1) PROVE output'[i] = Exact(i)'
      <3>1. i \in Positions /\ (i = lane \/ i \in 0 .. (lane - 1))
        BY <1>2, <1>3 DEF Positions
      <3>2. output'[i] = Exact(i)
        BY <1>1, <1>2, <1>4, <3>1
      <3>3. QED
        BY <1>6, <3>1, <3>2
    <2>2. QED
      BY <2>1
  <1>8. lane' \in 0 .. Lanes /\ DOMAIN output' = Positions
    BY <1>1, <1>2, <1>3, <1>4
  <1>9. ScheduleTypes'
    BY <1>1, <1>3, <1>8 DEF ScheduleTypes, Stages
  <1>10. /\ stage' = "emit" /\ root' > 0 /\ IsRootOf(root', ExactVariance')
         /\ high' * Limb + low' = Sums(Squares')[Lanes]
         /\ mean' = TruncDiv(Sums(input')[Lanes], Lanes)
    BY <1>1, <1>3, <1>5
  <1>11. QED
    BY <1>7, <1>9, <1>10 DEF ScheduleInv, IsRootOf

LEMMA ReturnKeeps ==
  ASSUME ScheduleInv, Return
  PROVE  ScheduleInv'
  <1>1. /\ ScheduleTypes /\ stage = "emit" /\ lane = Lanes
        /\ high * Limb + low = Sums(Squares)[Lanes]
        /\ mean = TruncDiv(Sums(input)[Lanes], Lanes)
        /\ root > 0 /\ IsRootOf(root, ExactVariance)
        /\ \A i \in Positions : output[i] = Exact(i)
    BY DEF ScheduleInv, Return, Positions
  <1>2. stage' = "done"
        /\ UNCHANGED <<lane, input, affine, total, mean, low, high, remainder, root, bit, output>>
    BY DEF Return, operands, limbs, rootVars
  <1>3. ExactVariance' = ExactVariance /\ Squares' = Squares
    BY <1>2, SquaresStay
  <1>4. \A i \in Positions : Exact(i)' = Exact(i)
    BY <1>2 DEF Exact, Delta
  <1>5. ScheduleTypes'
    BY <1>1, <1>2 DEF ScheduleTypes, Stages
  <1>6. \A i \in Positions : output'[i] = Exact(i)'
    BY <1>1, <1>2, <1>4
  <1>7. /\ root' > 0 /\ IsRootOf(root', ExactVariance')
        /\ high' * Limb + low' = Sums(Squares')[Lanes]
        /\ mean' = TruncDiv(Sums(input')[Lanes], Lanes)
    BY <1>1, <1>2, <1>3
  <1>8. QED
    BY <1>2, <1>5, <1>6, <1>7 DEF ScheduleInv, IsRootOf

LEMMA ScheduleStutterKeeps ==
  ASSUME ScheduleInv, UNCHANGED scheduleVars
  PROVE  ScheduleInv'
  <1>1. UNCHANGED <<stage, lane, input, affine, total, mean, low, high,
                    remainder, root, bit, output>>
    BY DEF scheduleVars
  <1>2. Squares' = Squares /\ ExactVariance' = ExactVariance
    BY <1>1, SquaresStay
  <1>3. \A i \in Positions : Exact(i)' = Exact(i)
    BY <1>1 DEF Exact, Delta
  <1>4. ScheduleTypes'
    BY <1>1 DEF ScheduleInv, ScheduleTypes
  <1>5. stage = "root" => \/ \E k \in 0 .. WordBits - 1, p \in Nat : Partial(k, p)'
                          \/ bit = 0 /\ IsRootOf(root, ExactVariance)
    BY <1>1, <1>2 DEF ScheduleInv, Partial
  <1>6. lane' = lane
    BY <1>1
  <1>7. /\ stage = "emit" => \A i \in 0 .. (lane - 1) : output'[i] = Exact(i)'
        /\ stage = "done" => \A i \in Positions : output'[i] = Exact(i)'
    <2>1. stage = "emit" => \A i \in 0 .. (lane - 1) : i \in Positions
      BY ScheduleAssumption DEF ScheduleInv, ScheduleTypes, Positions
    <2>2. QED
      BY <1>1, <1>3, <2>1 DEF ScheduleInv
  <1>8. QED
    BY <1>1, <1>2, <1>4, <1>5, <1>6, <1>7 DEF ScheduleInv, IsRootOf

(* Every step of the schedule keeps the invariant.                         *)
LEMMA ScheduleKeepsInv == ScheduleSpec => []ScheduleInv
  <1>1. ASSUME ScheduleInv, [ScheduleNext]_scheduleVars
        PROVE  ScheduleInv'
    <2>1. CASE AddLane
      BY <1>1, <2>1, AddLaneKeeps, Zenon
    <2>2. CASE TakeMean
      BY <1>1, <2>2, TakeMeanKeeps, Zenon
    <2>3. CASE AddSquare
      BY <1>1, <2>3, AddSquareKeeps, Zenon
    <2>4. CASE TakeVariance
      BY <1>1, <2>4, TakeVarianceKeeps, Zenon
    <2>5. CASE RootBit
      BY <1>1, <2>5, RootBitKeeps, Zenon
    <2>6. CASE TakeRoot
      BY <1>1, <2>6, TakeRootKeeps, Zenon
    <2>7. CASE Emit
      BY <1>1, <2>7, EmitKeeps, Zenon
    <2>8. CASE Return
      BY <1>1, <2>8, ReturnKeeps, Zenon
    <2>9. CASE UNCHANGED scheduleVars
      BY <1>1, <2>9, ScheduleStutterKeeps, Zenon
    <2>10. QED
      BY <1>1, <2>1, <2>2, <2>3, <2>4, <2>5, <2>6, <2>7, <2>8, <2>9, Zenon DEF ScheduleNext
  <1>2. QED
    BY <1>1, ScheduleInitInv, PTL DEF ScheduleSpec

LEMMA InvIsExact == ScheduleInv => ScheduleIsExact
  <1> SUFFICES ASSUME ScheduleInv PROVE ScheduleIsExact
    OBVIOUS
  <1>1. stage \in {"root", "emit", "done"} =>
           ExactVariance \in Nat /\ Epsilon <= ExactVariance
    BY VarianceIsExact DEF ScheduleInv
  <1>2. stage = "root" /\ bit = 0 => root # 0
    <2>1. SUFFICES ASSUME stage = "root", bit = 0, root = 0 PROVE FALSE
      OBVIOUS
    <2>2. IsRootOf(root, ExactVariance)
      BY <2>1, BitIsLeft DEF ScheduleInv
    <2>3. PICK v \in Nat : v = ExactVariance /\ 1 <= v
      BY <1>1, <2>1, ScheduleAssumption
    <2>4. v < (0 + 1) * (0 + 1)
      BY <2>1, <2>2, <2>3 DEF IsRootOf
    <2>5. QED
      BY <2>3, <2>4
  <1>3. stage = "done" =>
          /\ root > 0 /\ IsRootOf(root, ExactVariance)
          /\ mean = TruncDiv(Sums(input)[Lanes], Lanes)
          /\ \A i \in 0 .. (Lanes - 1) : output[i] = Exact(i)
    BY DEF ScheduleInv, Positions
  <1>4. QED
    BY <1>2, <1>3, Zenon DEF ScheduleIsExact, IsRootOf, ExactVariance, Exact

(* For every width of word, number of lanes, input and affine pair within  *)
(* the assumption: the root is never zero where the schedule divides by    *)
(* it, and a finished schedule of limbs, carries and root bits computed    *)
(* the LayerNorm of its input in unbounded integers (render_flat_scf,      *)
(* execute_lowered_algorithm).                                             *)
THEOREM ScheduleStaysExact == ScheduleSpec => []ScheduleIsExact
  <1>1. QED
    BY ScheduleKeepsInv, InvIsExact, PTL
(* The sum of squares is exact in the two limbs from its first lane to the *)
(* last use: no square is cut off, no carry is lost and the high limb does *)
(* not overflow (execute_lowered_algorithm, the carry of render_flat_scf). *)
THEOREM LimbsStayExact == ScheduleSpec => []LimbsHoldTheSum
  <1>1. ScheduleInv => LimbsHoldTheSum
    BY Zenon DEF ScheduleInv, LimbsHoldTheSum
  <1>2. QED
    BY <1>1, ScheduleKeepsInv, PTL

(* Wrapping gives a word.                                                  *)
LEMMA SignedIsAWord ==
  ASSUME NEW n \in Int
  PROVE  Signed(n) \in Words
  <1>1. PICK h \in Nat \ {0}, w \in Nat \ {0} : h = HalfWord /\ w = Word /\ w = 2 * h
    BY Widths
  <1>2. PICK m \in 0 .. w - 1 : m = n % w
    BY <1>1, IntegerQuotients
  <1>3. Signed(n) = IF m >= h THEN m - w ELSE m
    BY <1>1, <1>2 DEF Signed
  <1>4. QED
    BY <1>1, <1>3, Widths

(* A step within the invariant keeps every register within its width.      *)
LEMMA RegistersKeep ==
  ASSUME ScheduleInv, ScheduleTypeOK, [ScheduleNext]_scheduleVars, ScheduleInv'
  PROVE  ScheduleTypeOK'
  <1>1. /\ stage' \in Stages /\ lane' \in 0 .. Lanes
        /\ input' \in [0 .. (Lanes - 1) -> Words] /\ affine' \in [gamma : Words, beta : Words]
        /\ total' \in Int /\ mean' \in Words /\ low' \in 0 .. (Limb - 1)
    BY DEF ScheduleInv, ScheduleTypes, Positions
  <1>2. PICK b \in Nat \ {0}, c \in Nat \ {0} : b = Limb /\ c = High
    BY Widths, ScheduleAssumption
  <1>3. high' \in 0 .. (High - 1)
    <2>1. CASE AddSquare
      <3>1. PICK h \in Nat, k \in {0, 1} : h = high /\ high' = (h + k) % c
        <4>1. high \in Nat
          BY DEF ScheduleTypeOK
        <4>2. \E k \in {0, 1} : high' = (high + k) % High
          <5>1. PICK y : high' = (high + (IF y < low THEN 1 ELSE 0)) % High
            BY <2>1, Zenon DEF AddSquare
          <5>2. QED
            BY <5>1
        <4>3. QED
          BY <1>2, <4>1, <4>2
      <3>2. (h + k) % c \in 0 .. c - 1
        <4>1. h + k \in Nat
          OBVIOUS
        <4>2. QED
          BY <4>1, Quotients
      <3>3. QED
        BY <1>2, <3>1, <3>2
    <2>2. CASE ~AddSquare
      <3>1. high' = high
        BY <2>2 DEF ScheduleNext, AddLane, TakeMean, TakeVariance, RootBit, TakeRoot, Emit, Return,
                    limbs, scheduleVars
      <3>2. QED
        BY <3>1 DEF ScheduleTypeOK
    <2>3. QED
      BY <2>1, <2>2
  <1>4. remainder' \in 0 .. (Limb - 1) /\ root' \in 0 .. (Limb - 1) /\ bit' \in 0 .. (Limb - 1)
    <2>1. CASE TakeVariance
      <3>1. remainder' = Variance /\ root' = 0 /\ bit' = Limb \div 4
        BY <2>1 DEF TakeVariance
      <3>2. Variance \in Nat /\ Variance < Limb
        <4>1. ScheduleTypes /\ high * Limb + low = Sums(Squares)[Lanes]
          BY <2>1 DEF ScheduleInv, TakeVariance
        <4>2. QED
          BY <4>1, VarianceIsExact
      <3>3. QED
        BY <1>2, <3>1, <3>2
    <2>2. CASE RootBit
      <3>1. PICK x \in 0 .. b - 1, r \in 0 .. b - 1, t \in 0 .. b - 1 :
              x = remainder /\ r = root /\ t = bit
        BY <1>2 DEF ScheduleTypeOK
      <3>2. bit' = t \div 4
        BY <2>2, <3>1 DEF RootBit
      <3>3. (\E y : remainder' = (x - y) % b /\ root' = ((r \div 2) + t) % b /\ y = (r + t) % b)
            \/ (root' = r \div 2 /\ remainder' = x)
        <4>1. CASE remainder >= (root + bit) % Limb
          <5>1. remainder' = (remainder - ((root + bit) % Limb)) % Limb
                /\ root' = ((root \div 2) + bit) % Limb
            BY <2>2, <4>1, Zenon DEF RootBit
          <5>2. QED
            BY <1>2, <3>1, <5>1, Zenon
        <4>2. CASE ~(remainder >= (root + bit) % Limb)
          <5>1. remainder' = remainder /\ root' = root \div 2
            BY <2>2, <4>2, Zenon DEF RootBit
          <5>2. QED
            BY <3>1, <5>1, Zenon
        <4>3. QED
          BY <4>1, <4>2
      <3>4. r \div 2 \in 0 .. b - 1 /\ t \div 4 \in 0 .. b - 1
        OBVIOUS
      <3>5. \A n \in Int : n % b \in 0 .. b - 1
        BY IntegerQuotients
      <3>6. (r + t) % b \in Int /\ (r \div 2) + t \in Int /\ r + t \in Int
        <4>1. r + t \in Int /\ (r \div 2) + t \in Int
          BY <3>4
        <4>2. QED
          BY <3>5, <4>1
      <3>7. x - ((r + t) % b) \in Int
        BY <3>6
      <3>8. QED
        BY <1>2, <3>2, <3>3, <3>4, <3>5, <3>6, <3>7
    <2>3. CASE ~TakeVariance /\ ~RootBit
      <3>1. UNCHANGED <<remainder, root, bit>>
        BY <2>3 DEF ScheduleNext, AddLane, TakeMean, AddSquare, TakeRoot, Emit, Return,
                    rootVars, scheduleVars
      <3>2. QED
        BY <3>1 DEF ScheduleTypeOK
    <2>4. QED
      BY <2>1, <2>2, <2>3
  <1>5. output' \in [0 .. (Lanes - 1) -> Words]
    <2>1. CASE Emit
      <3>1. /\ root \in Nat \ {0} /\ lane \in Positions /\ input \in [Positions -> Words]
            /\ mean \in Words
        <4>1. ScheduleTypes /\ stage = "emit" /\ lane < Lanes /\ root > 0
          BY <2>1 DEF ScheduleInv, Emit
        <4>2. Lanes \in Nat
          BY ScheduleAssumption
        <4>3. QED
          BY <4>1, <4>2 DEF ScheduleTypes, Positions
      <3>2. Delta(lane) \in Int
        BY <3>1, DeltasAre
      <3>3. Normalized(lane) \in Int
        <4>1. PICK d \in Int, u \in Nat, r \in Nat \ {0} : d = Delta(lane) /\ u = Unit /\ r = root
          BY <3>1, <3>2, ScheduleAssumption
        <4>2. PICK x \in Int : x = d * u
          OBVIOUS
        <4>3. x \div r \in Int /\ (-x) \div r \in Int
          BY IntegerQuotients, -x \in Int
        <4>4. TruncDiv(x, r) \in Int
          BY <4>3 DEF TruncDiv
        <4>5. Signed(TruncDiv(x, r)) \in Int
          BY <4>4, SignedIsAWord, Widths
        <4>6. QED
          BY <4>1, <4>2, <4>5 DEF Normalized
      <3>4. PICK y \in Int, g \in Int, t \in Int, u \in Nat \ {0} :
              y = Normalized(lane) /\ g = affine.gamma /\ t = affine.beta /\ u = Unit
        <4>1. affine.gamma \in Int /\ affine.beta \in Int
          BY Widths DEF ScheduleInv, ScheduleTypes
        <4>2. Unit \in Nat \ {0}
          BY ScheduleAssumption
        <4>3. QED
          BY <3>3, <4>1, <4>2, Zenon
      <3>5. (y * g) \div u + t \in Int
        <4>1. y * g \in Int
          OBVIOUS
        <4>2. (y * g) \div u \in Int
          BY <4>1, IntegerQuotients
        <4>3. QED
          BY <4>2
      <3>6. output' = [output EXCEPT ![lane] = Signed((y * g) \div u + t)]
        BY <2>1, <3>4, Zenon DEF Emit
      <3>7. QED
        BY <3>5, <3>6, SignedIsAWord DEF ScheduleTypeOK
    <2>2. CASE ~Emit
      <3>1. output' = output
        BY <2>2 DEF ScheduleNext, AddLane, TakeMean, AddSquare, TakeVariance, RootBit, TakeRoot,
                    Return, scheduleVars
      <3>2. QED
        BY <3>1 DEF ScheduleTypeOK
    <2>3. QED
      BY <2>1, <2>2
  <1>6. QED
    BY <1>1, <1>3, <1>4, <1>5 DEF ScheduleTypeOK, Stages

(* Every register of the schedule stays within its width: the words, the   *)
(* two limbs and the three registers of the root.                          *)
THEOREM RegistersStayInWidth == ScheduleSpec => []ScheduleTypeOK
  <1>1. ScheduleInit => ScheduleTypeOK
    <2>1. SUFFICES ASSUME ScheduleInit PROVE ScheduleTypeOK
      OBVIOUS
    <2>2. 0 \in Words /\ 0 \in 0 .. (Limb - 1) /\ 0 \in 0 .. (High - 1) /\ 0 \in 0 .. Lanes /\ 0 \in Int
      BY Widths, ScheduleAssumption
    <2>3. input \in [0 .. (Lanes - 1) -> Words] /\ affine \in [gamma : Words, beta : Words]
      BY <2>1, ScheduleInitInv DEF ScheduleInv, ScheduleTypes, Positions
    <2>4. QED
      BY <2>1, <2>2, <2>3 DEF ScheduleInit, ScheduleTypeOK
  <1>2. ScheduleInv /\ ScheduleInv' /\ ScheduleTypeOK /\ [ScheduleNext]_scheduleVars
          => ScheduleTypeOK'
    BY RegistersKeep
  <1>3. QED
    BY <1>1, <1>2, ScheduleKeepsInv, PTL DEF ScheduleSpec

-----------------------------------------------------------------------------
(* The repairs of the handshakes, and the run of the design they leave.     *)

\* What the proof needs of the constants.
LEMMA SharingsAreOfGroups ==
  /\ Latency \in Nat /\ Latency > 0 /\ MaxRuns \in Nat
  /\ plain \notin GroupSet /\ "div" \notin GroupSet /\ "one" \notin GroupSet
  /\ \A sharing \in Sharings : \A g \in GroupSet : sharing[g] \in Registers
BY HandshakeAssumption DEF Registers, Range

\* What enables a group before Calyx: nothing, one, or one converter.
Enables == {<<>>} \cup {<<enable>> : enable \in {"one"} \cup GroupSet}

FutilInv ==
  /\ futil \in [GroupSet -> Enables]
  /\ made.gated => \A g \in GroupSet : futil[g] = <<g>>

MadeInv ==
  /\ made \in [stage : {"export", "sv", "refused", "running"}, gated : BOOLEAN,
               repairs : Nat, changed : BOOLEAN]
  /\ made.stage = "export" => made.repairs = 0
  /\ made.changed = FALSE

\* A pair is of groups of its register, and the groups of a repaired or gated
\* register are enabled by their own converters.
WellFormed(p) ==
  p = Pair(p.when, p.value, p.place) /\ p.when # {} /\ p.when \subseteq GroupSet \cup {plain}
OwnEnables(pairs) == \A p \in pairs : \A g \in p.when \cap GroupSet : p.value = g
Repaired(pairs, gs) == OwnEnables(pairs) /\ \A g \in gs : ExactTerms(pairs, g, g) # {}

EnablesInv(r) ==
  /\ sv.enables[r].chain \in BOOLEAN
  /\ sv.enables[r] = [chain |-> sv.enables[r].chain, pairs |-> sv.enables[r].pairs]
  /\ \A p \in sv.enables[r].pairs : WellFormed(p)
  /\ made.repairs = 0 => \E last \in BOOLEAN : sv.enables[r] = Compiled(sv.physical, r, last)
  /\ made.repairs > 0 => Repaired(sv.enables[r].pairs, Captures(r))

SvInv ==
  made.stage \in {"sv", "running"} =>
    /\ sv.physical \in Sharings
    /\ sv = [physical |-> sv.physical, divider |-> sv.divider, enables |-> sv.enables]
    /\ sv.enables = [r \in Registers |-> sv.enables[r]]
    /\ \A r \in Registers : EnablesInv(r)

\* The divider's wrapper, its unit and the quotient register.
DividerInv ==
  /\ chip.state \in {"IDLE", "BUSY", "COMPLETE"}
  /\ chip.state = "BUSY" => chip.unit.holds = chip.run
  /\ chip.state # "BUSY" => chip.unit.holds = 0
  /\ chip.state = "COMPLETE" => chip.out = chip.run
  /\ chip.state # "IDLE" => chip.at = "div" /\ ~chip.quotient.done
  /\ chip.quotient.done => chip.at = "div"
  /\ chip.at # "div" \/ chip.quotient.done => chip.quotient.value = chip.run

ConvertersInv ==
  \A g \in GroupSet :
    chip.converters[g].age > 0 => chip.at = g /\ chip.converters[g].out = chip.run

RegistersInv ==
  (made.gated \/ made.repairs > 0) /\ chip.at \in GroupSet
    /\ chip.registers[RegisterOf(chip.at)].done
  => chip.registers[RegisterOf(chip.at)].value = chip.run

ChipInv ==
  made.stage = "running" =>
    /\ chip.run \in Nat /\ chip.run > 0
    /\ chip.at \in GroupSet \cup {plain, "div"}
    /\ chip.out \in Nat
    /\ chip.unit \in [holds : Nat, valid : BOOLEAN]
    /\ chip.quotient \in [value : Nat, done : BOOLEAN]
    /\ \A g \in GroupSet : chip.converters[g] \in [out : Nat, age : 0 .. Latency]
    /\ \A r \in Registers : chip.registers[r] \in [value : Nat, done : BOOLEAN]
    /\ DividerInv /\ ConvertersInv /\ RegistersInv

HandshakeInv == FutilInv /\ MadeInv /\ SvInv /\ ChipInv

-----------------------------------------------------------------------------
\* The scripts before the run.

LEMMA OneEnable ==
  ASSUME NEW f \in Enables
  PROVE  f = <<>> \/ \E e \in {"one"} \cup GroupSet : f = <<e>>
BY DEF Enables

LEMMA FixedGroupIsGated ==
  ASSUME FutilInv, NEW g \in GroupSet,
         \/ Cardinality({n \in 1..Len(futil[g]) : futil[g][n] = "one"}) = 1
         \/ ("one" \notin Range(futil[g]) /\ g \in Range(futil[g]))
  PROVE  FixedGroup(g) = <<g>>
<1>1. futil[g] \in Enables
  BY DEF FutilInv
<1>2. CASE futil[g] = <<>>
  <2>1. {n \in 1..Len(futil[g]) : futil[g][n] = "one"} = {}
    BY <1>2
  <2>2. Cardinality({n \in 1..Len(futil[g]) : futil[g][n] = "one"}) = 0
    BY <2>1, FS_EmptySet
  <2>3. Range(futil[g]) = {}
    BY <1>2 DEF Range
  <2> QED
    BY <2>2, <2>3
<1>3. ASSUME NEW e \in {"one"} \cup GroupSet, futil[g] = <<e>>
      PROVE  FixedGroup(g) = <<g>>
  <2>1. Range(futil[g]) = {e}
    BY <1>3 DEF Range
  <2>2. CASE e = "one"
    BY <1>3, <2>2 DEF FixedGroup
  <2>3. CASE e # "one"
    <3>1. {n \in 1..Len(futil[g]) : futil[g][n] = "one"} = {}
      BY <1>3, <2>3
    <3>2. Cardinality({n \in 1..Len(futil[g]) : futil[g][n] = "one"}) = 0
      BY <3>1, FS_EmptySet
    <3>3. e = g
      BY <2>1, <3>2
    <3> QED
      BY <1>3, <2>3, <3>3 DEF FixedGroup
  <2> QED
    BY <2>2, <2>3
<1> QED
  BY <1>1, <1>2, <1>3, OneEnable

LEMMA FixFutilKeeps == HandshakeInv /\ FixFutil => HandshakeInv'
<1> SUFFICES ASSUME HandshakeInv, FixFutil PROVE HandshakeInv'
  OBVIOUS
<1>1. made.stage = "export" /\ made.repairs = 0 /\ ~made.gated
  BY DEF FixFutil, HandshakeInv, MadeInv
<1>2. FutilInv'
  <2>1. CASE \A g \in GroupSet : \/ Cardinality({n \in 1..Len(futil[g]) : futil[g][n] = "one"}) = 1
                                 \/ ("one" \notin Range(futil[g]) /\ g \in Range(futil[g]))
    <3>1. \A g \in GroupSet : FixedGroup(g) = <<g>>
      BY <2>1, FixedGroupIsGated DEF HandshakeInv
    <3>2. futil' = [g \in GroupSet |-> FixedGroup(g)]
      BY <2>1 DEF FixFutil
    <3>3. \A g \in GroupSet : <<g>> \in Enables
      BY DEF Enables
    <3> QED
      BY <3>1, <3>2, <3>3 DEF FutilInv
  <2>2. CASE ~ \A g \in GroupSet : \/ Cardinality({n \in 1..Len(futil[g]) : futil[g][n] = "one"}) = 1
                                   \/ ("one" \notin Range(futil[g]) /\ g \in Range(futil[g]))
    <3>1. futil' = futil /\ made' = [made EXCEPT !.stage = "refused"]
      BY <2>2 DEF FixFutil
    <3>2. made'.gated = made.gated
      BY <3>1 DEF HandshakeInv, MadeInv
    <3> QED
      BY <3>1, <3>2 DEF HandshakeInv, FutilInv
  <2> QED
    BY <2>1, <2>2
<1>3. made' = [made EXCEPT !.gated = TRUE] \/ made' = [made EXCEPT !.stage = "refused"]
  BY DEF FixFutil
<1>4. MadeInv' /\ made'.stage \in {"export", "refused"}
  BY <1>1, <1>3 DEF HandshakeInv, MadeInv
<1> QED
  BY <1>2, <1>4 DEF HandshakeInv, SvInv, ChipInv

\* What Calyx leaves: each pair is well formed.
LEMMA CompiledIsWellFormed ==
  ASSUME NEW physical \in Sharings, NEW r \in Registers, NEW last \in BOOLEAN
  PROVE  /\ Compiled(physical, r, last).chain \in BOOLEAN
         /\ Compiled(physical, r, last) = [chain |-> Compiled(physical, r, last).chain,
                                           pairs |-> Compiled(physical, r, last).pairs]
         /\ \A p \in Compiled(physical, r, last).pairs : WellFormed(p)
<1> DEFINE writing == {g \in GroupSet : physical[g] = r /\ futil[g] # <<>>}
           gated   == {g \in writing : futil[g] # <<"one">>}
           atOnce  == (writing \ gated) \cup (IF r = PlainRegister THEN {plain} ELSE {})
           pairs   == {Pair({g}, futil[g][1], <<Place(g), LastPlace>>) : g \in gated}
           flat    == {Pair({g}, "one", <<0, LastPlace>>) : g \in atOnce}
           all     == {Pair(gs, "one", <<IF last THEN LastPlace ELSE 0, LastPlace>>) : gs \in {atOnce} \ {{}}}
<1>1. Compiled(physical, r, last) =
        IF gated = {} THEN [chain |-> FALSE, pairs |-> flat] ELSE [chain |-> TRUE, pairs |-> pairs \cup all]
  BY DEF Compiled
<1>2. \A w, v, l : w # {} /\ w \subseteq GroupSet \cup {plain} => WellFormed(Pair(w, v, l))
  BY DEF WellFormed, Pair
<1>3. \A p \in pairs : WellFormed(p)
  BY <1>2
<1>4. \A p \in flat \cup all : WellFormed(p)
  <2>1. atOnce \subseteq GroupSet \cup {plain}
    OBVIOUS
  <2> HIDE DEF atOnce
  <2>2. \A p \in flat : WellFormed(p)
    BY <1>2, <2>1
  <2>3. \A p \in all : WellFormed(p)
    BY <1>2, <2>1
  <2> QED
    BY <2>2, <2>3
<1> HIDE DEF pairs, flat, all, gated
<1>6. CASE gated = {}
  BY <1>1, <1>4, <1>6
<1>7. CASE gated # {}
  <2>1. Compiled(physical, r, last) = [chain |-> TRUE, pairs |-> pairs \cup all]
    BY <1>1, <1>7
  <2> QED
    BY <2>1, <1>3, <1>4
<1> QED
  BY <1>6, <1>7

LEMMA CompileKeeps == HandshakeInv /\ Compile => HandshakeInv'
<1> SUFFICES ASSUME HandshakeInv, Compile PROVE HandshakeInv'
  OBVIOUS
<1>1. made.repairs = 0 /\ made' = [made EXCEPT !.stage = "sv"] /\ UNCHANGED futil
  BY DEF Compile, HandshakeInv, MadeInv
<1>2. made'.repairs = 0 /\ made'.stage = "sv" /\ made'.gated = made.gated /\ MadeInv'
  BY <1>1 DEF HandshakeInv, MadeInv
<1>3. FutilInv'
  BY <1>1, <1>2 DEF HandshakeInv, FutilInv
<1>4. PICK physical \in Sharings, last \in BOOLEAN, divider \in {"legacy", "fixed", "other"} :
        sv' = [physical |-> physical, divider |-> divider,
               enables |-> [r \in Registers |-> Compiled(physical, r, last)]]
  BY DEF Compile
<1>5. /\ sv'.physical = physical /\ sv'.physical \in Sharings
      /\ sv' = [physical |-> sv'.physical, divider |-> sv'.divider, enables |-> sv'.enables]
      /\ sv'.enables = [r \in Registers |-> sv'.enables[r]]
      /\ \A r \in Registers : sv'.enables[r] = Compiled(physical, r, last)
  BY <1>4
<1>6. ASSUME NEW r \in Registers PROVE EnablesInv(r)'
  <2>1. sv'.enables[r] = Compiled(physical, r, last)
    BY <1>5
  <2>2. \A l \in BOOLEAN : Compiled(sv.physical, r, l)' = Compiled(physical, r, l)
    BY <1>1, <1>5 DEF Compiled
  <2>3. (\E l \in BOOLEAN : sv.enables[r] = Compiled(sv.physical, r, l))'
    BY <2>1, <2>2
  <2>4. /\ sv'.enables[r].chain \in BOOLEAN
        /\ sv'.enables[r] = [chain |-> sv'.enables[r].chain, pairs |-> sv'.enables[r].pairs]
        /\ \A p \in sv'.enables[r].pairs : WellFormed(p)
    BY <2>1, CompiledIsWellFormed
  <2> QED
    BY <1>2, <2>3, <2>4 DEF EnablesInv
<1>7. SvInv'
  BY <1>5, <1>6 DEF SvInv
<1> QED
  BY <1>2, <1>3, <1>7 DEF HandshakeInv, ChipInv

LEMMA RepairDividerKeeps == HandshakeInv /\ RepairDivider => HandshakeInv'
<1> SUFFICES ASSUME HandshakeInv, RepairDivider PROVE HandshakeInv'
  OBVIOUS
<1>1. made.stage = "sv" /\ UNCHANGED futil
  BY DEF RepairDivider
<1>2. CASE sv' = [sv EXCEPT !.divider = "fixed"] /\ made' = made
  <2>1. sv = [physical |-> sv.physical, divider |-> sv.divider, enables |-> sv.enables]
    BY <1>1 DEF HandshakeInv, SvInv
  <2>2. sv' = [physical |-> sv.physical, divider |-> "fixed", enables |-> sv.enables]
    BY <1>2, <2>1
  <2>3. sv'.physical = sv.physical /\ sv'.enables = sv.enables /\ sv'.divider = "fixed"
    BY <2>2
  <2>4. ASSUME NEW r \in Registers PROVE EnablesInv(r) => EnablesInv(r)'
    <3>1. \A l \in BOOLEAN : Compiled(sv.physical, r, l)' = Compiled(sv.physical, r, l)
      BY <1>1, <2>3 DEF Compiled
    <3>2. Captures(r)' = Captures(r)
      BY <2>3 DEF Captures
    <3> QED
      BY <1>2, <2>3, <3>1, <3>2 DEF EnablesInv
  <2>5. SvInv'
    BY <1>1, <1>2, <2>2, <2>3, <2>4 DEF HandshakeInv, SvInv
  <2> QED
    BY <1>1, <1>2, <2>5 DEF HandshakeInv, FutilInv, MadeInv, ChipInv
<1>3. CASE made' = [made EXCEPT !.stage = "refused"]
  <2>1. MadeInv' /\ made'.stage = "refused" /\ made'.gated = made.gated
    BY <1>1, <1>3 DEF HandshakeInv, MadeInv
  <2> QED
    BY <1>1, <2>1 DEF HandshakeInv, FutilInv, SvInv, ChipInv
<1> QED
  BY <1>2, <1>3 DEF RepairDivider

\* The pairs that Calyx leaves: a group stands in one of them, which is of its
\* own register, and an OR of go signals is of single ones unless it is a chain.
SingleStanding(enable, gs) ==
  /\ \A p \in enable.pairs : \A g \in p.when \cap GroupSet :
       g \in gs /\ ((p.value = "one" /\ futil[g] = <<"one">>) \/ (p.when = {g} /\ p.value = futil[g][1]))
  /\ \A p, q \in enable.pairs : \A g \in p.when \cap q.when : g \in GroupSet => p = q
  /\ ~enable.chain => \A p \in enable.pairs : p.value = "one" /\ \E g : p.when = {g}

LEMMA CompiledIsSingleStanding ==
  ASSUME FutilInv, sv.physical \in Sharings, NEW r \in Registers, NEW last \in BOOLEAN
  PROVE  SingleStanding(Compiled(sv.physical, r, last), Captures(r))
<1> DEFINE physical == sv.physical
           writing == {g \in GroupSet : physical[g] = r /\ futil[g] # <<>>}
           gated   == {g \in writing : futil[g] # <<"one">>}
           atOnce  == (writing \ gated) \cup (IF r = PlainRegister THEN {plain} ELSE {})
           pairs   == {Pair({g}, futil[g][1], <<Place(g), LastPlace>>) : g \in gated}
           flat    == {Pair({g}, "one", <<0, LastPlace>>) : g \in atOnce}
           all     == {Pair(gs, "one", <<IF last THEN LastPlace ELSE 0, LastPlace>>) : gs \in {atOnce} \ {{}}}
           enable  == Compiled(physical, r, last)
<1>1. enable = IF gated = {} THEN [chain |-> FALSE, pairs |-> flat]
                             ELSE [chain |-> TRUE, pairs |-> pairs \cup all]
  BY DEF Compiled
<1>2. \A g \in atOnce \cap GroupSet : g \in Captures(r) /\ g \notin gated /\ futil[g] = <<"one">>
  BY SharingsAreOfGroups DEF Captures
<1>3. \A g \in gated : g \in Captures(r) /\ g \in GroupSet
  BY DEF Captures
<1>4. \A p \in flat : \E g \in atOnce : p.when = {g} /\ p.value = "one" /\ p = Pair({g}, "one", <<0, LastPlace>>)
  BY SMTT(60) DEF Pair
<1>5. \A p \in pairs : \E g \in gated : /\ p.when = {g} /\ p.value = futil[g][1]
                                        /\ p = Pair({g}, futil[g][1], <<Place(g), LastPlace>>)
  BY DEF Pair
<1>6. \A p \in all : p.when = atOnce /\ p.value = "one" /\ p = Pair(atOnce, "one", <<IF last THEN LastPlace ELSE 0, LastPlace>>)
  BY DEF Pair
<1> HIDE DEF flat, pairs, all, gated, atOnce
<1>7. CASE gated = {}
  <2>1. enable.chain = FALSE /\ enable.pairs = flat
    BY <1>1, <1>7
  <2>2. \A p \in flat : \A g \in p.when \cap GroupSet : g \in Captures(r) /\ p.value = "one" /\ futil[g] = <<"one">>
    BY <1>2, <1>4
  <2>3. \A p, q \in flat : \A g \in p.when \cap q.when : p = q
    <3> SUFFICES ASSUME NEW p \in flat, NEW q \in flat, NEW g \in p.when \cap q.when PROVE p = q
      OBVIOUS
    <3>1. p = Pair({g}, "one", <<0, LastPlace>>)
      BY <1>4, ZenonT(60)
    <3>2. q = Pair({g}, "one", <<0, LastPlace>>)
      BY <1>4
    <3> QED
      BY <3>1, <3>2
  <2>4. \A p \in flat : p.value = "one" /\ \E g : p.when = {g}
    BY <1>4
  <2> HIDE DEF enable
  <2> QED
    BY <2>1, <2>2, <2>3, <2>4 DEF SingleStanding, enable
<1>8. CASE gated # {}
  <2>1. enable.chain = TRUE /\ enable.pairs = pairs \cup all
    BY <1>1, <1>8
  <2>2. \A p \in pairs : \A g \in p.when \cap GroupSet : g \in Captures(r) /\ p.when = {g} /\ p.value = futil[g][1]
    BY <1>3, <1>5
  <2>3. \A p \in all : \A g \in p.when \cap GroupSet : g \in Captures(r) /\ p.value = "one" /\ futil[g] = <<"one">>
    BY <1>2, <1>6
  <2>4. ASSUME NEW p \in pairs \cup all, NEW q \in pairs \cup all, NEW g \in p.when \cap q.when, g \in GroupSet
        PROVE  p = q
    <3>1. \A s \in pairs : g \in s.when => g \in gated /\ s = Pair({g}, futil[g][1], <<Place(g), LastPlace>>)
      BY <1>5
    <3>2. \A s \in all : g \in s.when => g \notin gated /\ s = Pair(atOnce, "one", <<IF last THEN LastPlace ELSE 0, LastPlace>>)
      BY <1>2, <1>6, <2>4
    <3> QED
      BY <3>1, <3>2
  <2> HIDE DEF enable
  <2> QED
    BY <2>1, <2>2, <2>3, <2>4 DEF SingleStanding, enable
<1> QED
  BY <1>7, <1>8

\* A group that is bound is enabled by its own converter or at once.
LEMMA BoundIsOwn ==
  ASSUME NEW enable, NEW gs, SingleStanding(enable, gs), \A g \in GroupSet : Bound(g),
         NEW p \in enable.pairs, NEW g \in p.when, g \in GroupSet
  PROVE  g \in gs /\ (p.value = "one" \/ (p.when = {g} /\ p.value = g))
BY DEF SingleStanding, Bound

LEMMA NonemptyOfOne ==
  ASSUME NEW S, Cardinality(S) # 0
  PROVE  \E x : x \in S
BY FS_EmptySet

LEMMA SplitRepairs ==
  ASSUME NEW enable, enable.chain, NEW gs \in SUBSET GroupSet,
         SingleStanding(enable, gs), \A g \in GroupSet : Bound(g),
         \A p \in enable.pairs : WellFormed(p), Rewritable(enable, gs)
  PROVE  /\ Repaired(Split(enable.pairs, gs), gs)
         /\ \A p \in Split(enable.pairs, gs) : WellFormed(p)
<1> DEFINE pairs == enable.pairs
           due(p) == Due(pairs, gs, p)
<1>1. \A p \in Split(pairs, gs) : \E q \in pairs : p \in Freed(pairs, gs, q)
  BY DEF Split
<1>2. \A q \in pairs : \A p \in Freed(pairs, gs, q) : p \in Split(pairs, gs)
  BY DEF Split
<1>3. ASSUME NEW q \in pairs, NEW h \in q.when \ due(q), h \in GroupSet PROVE q.value = h
  <2>1. h \in gs /\ (q.value = "one" \/ q.value = h)
    BY <1>3, BoundIsOwn
  <2>2. CASE q.value = "one"
    <3>1. h \notin Pending(pairs, gs)
      BY <1>3, <2>2 DEF Due, AtOnce
    <3>2. PICK s \in pairs : s.when = {h} /\ s.value = h
      BY <2>1, <3>1 DEF Pending, ExactTerms
    <3>3. s = q
      BY <1>3, <3>2 DEF SingleStanding
    <3> QED
      BY <3>2, <3>3
  <2> QED
    BY <2>1, <2>2
<1>4. ASSUME NEW q \in pairs, NEW p \in Freed(pairs, gs, q)
      PROVE  WellFormed(p) /\ \A h \in p.when \cap GroupSet : p.value = h
  <2>1. CASE \E g \in due(q) : p = Pair({g}, g, <<q.place[1], Place(g)>>)
    BY <2>1 DEF WellFormed, Pair, Due, Pending
  <2>2. CASE p = Pair(q.when \ due(q), q.value, q.place) /\ ~(q.when \subseteq due(q))
    BY <1>3, <2>2 DEF WellFormed, Pair
  <2> QED
    BY <2>1, <2>2 DEF Freed
<1>5. ASSUME NEW g \in gs PROVE ExactTerms(Split(pairs, gs), g, g) # {}
  <2>1. CASE ExactTerms(pairs, g, g) # {}
    <3>1. PICK p \in pairs : p.when = {g} /\ p.value = g
      BY <2>1 DEF ExactTerms
    <3>2. due(p) = {}
      BY <3>1, SharingsAreOfGroups DEF Due, AtOnce
    <3>3. Pair(p.when \ due(p), p.value, p.place) \in Freed(pairs, gs, p)
      BY <3>1, <3>2 DEF Freed
    <3>4. Pair(p.when \ due(p), p.value, p.place) = p
      BY <3>2 DEF WellFormed, Pair
    <3> QED
      BY <1>2, <3>1, <3>3, <3>4 DEF ExactTerms
  <2>2. CASE ExactTerms(pairs, g, g) = {}
    <3>1. Cardinality(ExactTerms(pairs, g, g)) = 0
      BY <2>2, FS_EmptySet
    <3>2. Cardinality(AtOnce(pairs, g)) = 1
      BY <3>1 DEF Rewritable
    <3>3. PICK p : p \in AtOnce(pairs, g)
      BY <3>2, NonemptyOfOne
    <3>4. p \in pairs /\ g \in due(p)
      BY <2>2, <3>3 DEF Due, Pending, AtOnce
    <3>5. Pair({g}, g, <<p.place[1], Place(g)>>) \in Freed(pairs, gs, p)
      BY <3>4 DEF Freed
    <3> QED
      BY <1>2, <3>4, <3>5 DEF ExactTerms, Pair
  <2> QED
    BY <2>1, <2>2
<1>6. \A p \in Split(pairs, gs) : WellFormed(p)
  BY <1>1, <1>4
<1>7. OwnEnables(Split(pairs, gs))
  BY <1>1, <1>4 DEF OwnEnables
<1> QED
  BY <1>5, <1>6, <1>7 DEF Repaired

LEMMA GatedRepairs ==
  ASSUME NEW enable, ~enable.chain, NEW gs \in SUBSET GroupSet,
         SingleStanding(enable, gs),
         \A p \in enable.pairs : WellFormed(p), Rewritable(enable, gs)
  PROVE  /\ Repaired(Gated(enable.pairs, gs), gs)
         /\ \A p \in Gated(enable.pairs, gs) : WellFormed(p)
<1> DEFINE pairs == enable.pairs
           rest == {p \in pairs : \A g \in gs : p \notin ExactTerms(pairs, g, "one")}
           own == UNION {GatedTerms(pairs, g) : g \in gs}
<1>1. Gated(pairs, gs) = rest \cup own
  BY DEF Gated
<1>2. \A p \in rest : WellFormed(p) /\ p.when \cap GroupSet = {}
  <2> SUFFICES ASSUME NEW p \in rest, NEW h \in p.when \cap GroupSet PROVE FALSE
    OBVIOUS
  <2>1. p.value = "one" /\ p.when = {h} /\ h \in gs
    BY DEF SingleStanding
  <2> QED
    BY <2>1 DEF ExactTerms
<1>3. ASSUME NEW g \in gs, NEW p \in ExactTerms(pairs, g, "one")
      PROVE  /\ [p EXCEPT !.value = g].when = {g} /\ [p EXCEPT !.value = g].value = g
             /\ WellFormed([p EXCEPT !.value = g])
  <2>1. p = Pair({g}, "one", p.place)
    BY DEF ExactTerms, WellFormed
  <2>2. [p EXCEPT !.value = g] = Pair({g}, g, p.place)
    BY <2>1 DEF Pair
  <2> QED
    BY <2>2 DEF Pair, WellFormed
<1>4. \A p \in own : WellFormed(p) /\ \E g \in gs : p.when = {g} /\ p.value = g
  <2> SUFFICES ASSUME NEW g \in gs, NEW p \in GatedTerms(pairs, g)
               PROVE  WellFormed(p) /\ p.when = {g} /\ p.value = g
    OBVIOUS
  <2>1. PICK q \in ExactTerms(pairs, g, "one") : p = [q EXCEPT !.value = g]
    BY DEF GatedTerms
  <2> QED
    BY <1>3, <2>1
<1>5. ASSUME NEW g \in gs PROVE ExactTerms(rest \cup own, g, g) # {}
  <2>1. ExactTerms(pairs, g, g) = {}
    BY SharingsAreOfGroups DEF ExactTerms, SingleStanding
  <2>2. Cardinality(ExactTerms(pairs, g, g)) = 0
    BY <2>1, FS_EmptySet
  <2>3. Cardinality(ExactTerms(pairs, g, g)) + Cardinality(ExactTerms(pairs, g, "one")) = 1
    BY DEF Rewritable
  <2>4. Cardinality(ExactTerms(pairs, g, "one")) # 0
    BY <2>2, <2>3
  <2>5. PICK p : p \in ExactTerms(pairs, g, "one")
    BY <2>4, NonemptyOfOne
  <2>6. [p EXCEPT !.value = g] \in own
    BY <2>5 DEF GatedTerms
  <2>7. [p EXCEPT !.value = g].when = {g} /\ [p EXCEPT !.value = g].value = g
    BY <1>3, <2>5
  <2> HIDE DEF own, rest
  <2> QED
    BY <2>6, <2>7 DEF ExactTerms
<1> HIDE DEF own, rest
<1>6. \A p \in rest \cup own : WellFormed(p)
  BY <1>2, <1>4
<1>7. OwnEnables(rest \cup own)
  BY <1>2, <1>4 DEF OwnEnables
<1> QED
  BY <1>1, <1>5, <1>6, <1>7 DEF Repaired

\* What is repaired stays as it is.
LEMMA RepairedStays ==
  ASSUME NEW pairs, NEW gs \in SUBSET GroupSet, Repaired(pairs, gs), \A p \in pairs : WellFormed(p)
  PROVE  Split(pairs, gs) = pairs /\ Gated(pairs, gs) = pairs
<1>1. Pending(pairs, gs) = {}
  BY DEF Repaired, Pending
<1>2. \A p \in pairs : Due(pairs, gs, p) = {}
  BY <1>1 DEF Due
<1>3. \A p \in pairs : p.when # {} /\ Pair(p.when \ {}, p.value, p.place) = p
  BY DEF WellFormed
<1>4. Split(pairs, gs) = pairs
  <2>1. \A p \in pairs : Freed(pairs, gs, p) = {p}
    BY <1>2, <1>3 DEF Freed
  <2> QED
    BY <2>1 DEF Split
<1>5. ASSUME NEW g \in gs PROVE ExactTerms(pairs, g, "one") = {}
  BY SharingsAreOfGroups DEF Repaired, OwnEnables, ExactTerms
<1>6. Gated(pairs, gs) = pairs
  BY <1>5 DEF Gated, GatedTerms
<1> QED
  BY <1>4, <1>6

LEMMA RewriteRepairs ==
  ASSUME HandshakeInv, made.stage = "sv", \A g \in GroupSet : Bound(g), NEW r \in Registers,
         Rewritable(sv.enables[r], Captures(r))
  PROVE  /\ \A p \in rewrite_assignment(sv.enables[r], Captures(r)).pairs : WellFormed(p)
         /\ Repaired(rewrite_assignment(sv.enables[r], Captures(r)).pairs, Captures(r))
         /\ rewrite_assignment(sv.enables[r], Captures(r)).chain \in BOOLEAN
         /\ LET enable == rewrite_assignment(sv.enables[r], Captures(r))
            IN  enable = [chain |-> enable.chain, pairs |-> enable.pairs]
         /\ made.repairs > 0 => rewrite_assignment(sv.enables[r], Captures(r)) = sv.enables[r]
<1> DEFINE enable == sv.enables[r]
           gs == Captures(r)
           pairs == IF enable.chain THEN Split(enable.pairs, gs) ELSE Gated(enable.pairs, gs)
<1>1. /\ enable.chain \in BOOLEAN /\ enable = [chain |-> enable.chain, pairs |-> enable.pairs]
      /\ \A p \in enable.pairs : WellFormed(p)
      /\ made.repairs = 0 => \E last \in BOOLEAN : enable = Compiled(sv.physical, r, last)
      /\ made.repairs > 0 => Repaired(enable.pairs, gs)
  BY DEF HandshakeInv, SvInv, EnablesInv
<1>2. gs \in SUBSET GroupSet
  BY DEF Captures
<1>3. rewrite_assignment(enable, gs) = [chain |-> enable.chain, pairs |-> pairs]
  <2>1. rewrite_assignment(enable, gs) = [enable EXCEPT !.pairs = pairs]
    BY DEF rewrite_assignment
  <2> HIDE DEF pairs, enable
  <2> QED
    BY <1>1, <2>1
<1>4. CASE made.repairs = 0
  <2>1. PICK last \in BOOLEAN : enable = Compiled(sv.physical, r, last)
    BY <1>1, <1>4
  <2>2. SingleStanding(enable, gs)
    BY <2>1, CompiledIsSingleStanding DEF HandshakeInv, SvInv
  <2>3. CASE enable.chain
    <3>1. Repaired(Split(enable.pairs, gs), gs) /\ \A p \in Split(enable.pairs, gs) : WellFormed(p)
      <4> HIDE DEF enable, gs
      <4> QED
        BY <1>1, <1>2, <2>2, <2>3, SplitRepairs DEF enable, gs
    <3> QED
      BY <1>1, <1>3, <1>4, <2>3, <3>1
  <2>4. CASE ~enable.chain
    <3>1. Repaired(Gated(enable.pairs, gs), gs) /\ \A p \in Gated(enable.pairs, gs) : WellFormed(p)
      BY <1>1, <1>2, <2>2, <2>4, GatedRepairs
    <3> QED
      BY <1>1, <1>3, <1>4, <2>4, <3>1
  <2> QED
    BY <2>3, <2>4
<1>5. CASE made.repairs > 0
  <2>1. Split(enable.pairs, gs) = enable.pairs /\ Gated(enable.pairs, gs) = enable.pairs
    BY <1>1, <1>2, <1>5, RepairedStays
  <2>2. pairs = enable.pairs
    BY <2>1
  <2> HIDE DEF pairs
  <2>3. rewrite_assignment(enable, gs) = enable
    BY <1>1, <1>3, <2>2
  <2> HIDE DEF enable
  <2> QED
    BY <1>1, <1>5, <2>3 DEF enable
<1>6. made.repairs \in Nat
  BY DEF HandshakeInv, MadeInv
<1> QED
  BY <1>4, <1>5, <1>6

LEMMA RepairCapturesKeeps == HandshakeInv /\ RepairCaptures => HandshakeInv'
<1> SUFFICES ASSUME HandshakeInv, RepairCaptures PROVE HandshakeInv'
  OBVIOUS
<1>1. made.stage = "sv" /\ UNCHANGED futil /\ made.repairs \in Nat
  BY DEF RepairCaptures, HandshakeInv, MadeInv
<1> DEFINE accepted == /\ \A g \in GroupSet : Bound(g)
                       /\ \A r \in Registers : Rewritable(sv.enables[r], Captures(r))
           rewritten == [r \in Registers |-> rewrite_assignment(sv.enables[r], Captures(r))]
<1>2. CASE accepted
  <2>1. /\ sv' = [sv EXCEPT !.enables = rewritten]
        /\ made' = [made EXCEPT !.repairs = @ + 1, !.changed = made.repairs > 0 /\ sv' # sv]
    BY <1>2 DEF RepairCaptures
  <2>2. /\ sv = [physical |-> sv.physical, divider |-> sv.divider, enables |-> sv.enables]
        /\ sv.enables = [r \in Registers |-> sv.enables[r]] /\ sv.physical \in Sharings
    BY <1>1 DEF HandshakeInv, SvInv
  <2>3. /\ sv' = [physical |-> sv.physical, divider |-> sv.divider, enables |-> rewritten]
        /\ sv'.physical = sv.physical /\ sv'.enables = rewritten /\ sv'.divider = sv.divider
    <3> HIDE DEF rewritten
    <3> QED
      BY <2>1, <2>2
  <2>4. \A r \in Registers :
          /\ \A p \in rewritten[r].pairs : WellFormed(p)
          /\ Repaired(rewritten[r].pairs, Captures(r))
          /\ rewritten[r].chain \in BOOLEAN
          /\ rewritten[r] = [chain |-> rewritten[r].chain, pairs |-> rewritten[r].pairs]
          /\ made.repairs > 0 => rewritten[r] = sv.enables[r]
    BY <1>1, <1>2, RewriteRepairs
  <2>5. rewritten = [r \in Registers |-> rewritten[r]]
    OBVIOUS
  <2> HIDE DEF rewritten
  <2>6. made.repairs > 0 => sv' = sv
    <3>1. made.repairs > 0 => rewritten = sv.enables
      BY <2>2, <2>4, <2>5
    <3> QED
      BY <2>2, <2>3, <3>1
  <2>7. /\ made'.repairs = made.repairs + 1 /\ made'.stage = "sv" /\ made'.gated = made.gated
        /\ made'.changed = FALSE /\ MadeInv'
    <3> DEFINE changed == made.repairs > 0 /\ sv' # sv
    <3>1. changed = FALSE
      BY <2>6
    <3>2. made' = [made EXCEPT !.repairs = made.repairs + 1, !.changed = changed]
      BY <2>1
    <3> HIDE DEF changed
    <3>3. made' = [made EXCEPT !.repairs = made.repairs + 1, !.changed = FALSE]
      BY <3>1, <3>2
    <3>4. made \in [stage : {"export", "sv", "refused", "running"}, gated : BOOLEAN,
                    repairs : Nat, changed : BOOLEAN]
      BY DEF HandshakeInv, MadeInv
    <3>7. made' = [stage |-> made.stage, gated |-> made.gated, repairs |-> made.repairs + 1, changed |-> FALSE]
      BY <3>3, <3>4
    <3>5. /\ made'.repairs = made.repairs + 1 /\ made'.stage = "sv" /\ made'.gated = made.gated
          /\ made'.changed = FALSE
      BY <1>1, <3>7
    <3>6. made' \in [stage : {"export", "sv", "refused", "running"}, gated : BOOLEAN,
                     repairs : Nat, changed : BOOLEAN]
      BY <1>1, <3>4, <3>7
    <3> QED
      BY <3>5, <3>6 DEF MadeInv
  <2>8. ASSUME NEW r \in Registers PROVE EnablesInv(r)'
    <3>1. Captures(r)' = Captures(r)
      BY <2>3 DEF Captures
    <3> QED
      BY <1>1, <2>3, <2>4, <2>7, <3>1 DEF EnablesInv
  <2>9. SvInv'
    BY <2>2, <2>3, <2>5, <2>8 DEF SvInv
  <2> QED
    BY <1>1, <2>7, <2>9 DEF HandshakeInv, FutilInv, ChipInv
<1>3. CASE ~accepted
  <2>1. made' = [made EXCEPT !.stage = "refused"]
    BY <1>3 DEF RepairCaptures
  <2>2. MadeInv' /\ made'.stage = "refused" /\ made'.gated = made.gated
    BY <1>1, <2>1 DEF HandshakeInv, MadeInv
  <2> QED
    BY <1>1, <2>2 DEF HandshakeInv, FutilInv, SvInv, ChipInv
<1> QED
  BY <1>2, <1>3

-----------------------------------------------------------------------------
\* The run.

LEMMA PowerOnKeeps == HandshakeInv /\ PowerOn => HandshakeInv'
<1> SUFFICES ASSUME HandshakeInv, PowerOn PROVE HandshakeInv'
  OBVIOUS
<1>1. made.stage = "sv" /\ made' = [made EXCEPT !.stage = "running"] /\ chip' = Reset /\ UNCHANGED <<futil, sv>>
  BY DEF PowerOn
<1>2. /\ made'.stage = "running" /\ made'.repairs = made.repairs /\ made'.gated = made.gated /\ MadeInv'
  BY <1>1 DEF HandshakeInv, MadeInv
<1>3. FutilInv'
  BY <1>1, <1>2 DEF HandshakeInv, FutilInv
<1>4. SvInv'
  <2>1. ASSUME NEW r \in Registers PROVE EnablesInv(r) => EnablesInv(r)'
    <3>1. \A l \in BOOLEAN : Compiled(sv.physical, r, l)' = Compiled(sv.physical, r, l)
      BY <1>1 DEF Compiled
    <3>2. Captures(r)' = Captures(r)
      BY <1>1 DEF Captures
    <3> QED
      BY <1>1, <1>2, <3>1, <3>2 DEF EnablesInv
  <2> QED
    BY <1>1, <1>2, <2>1 DEF HandshakeInv, SvInv
<1>5. ChipInv'
  <2>1. /\ chip'.run = 1 /\ chip'.at = "div" /\ chip'.state = "IDLE" /\ chip'.out = 0
        /\ chip'.unit = [holds |-> 0, valid |-> FALSE]
        /\ chip'.quotient = [value |-> 0, done |-> FALSE]
        /\ chip'.converters = [g \in GroupSet |-> [out |-> 0, age |-> 0]]
        /\ chip'.registers = [r \in Registers |-> [value |-> 0, done |-> FALSE]]
    BY <1>1 DEF Reset
  <2>2. DividerInv'
    BY <2>1 DEF DividerInv
  <2>3. ConvertersInv'
    BY <2>1, SharingsAreOfGroups DEF ConvertersInv
  <2>4. RegistersInv'
    BY <2>1, SharingsAreOfGroups DEF RegistersInv
  <2>5. \A r \in Registers : chip'.registers[r] \in [value : Nat, done : BOOLEAN]
    BY <2>1
  <2>6. \A g \in GroupSet : chip'.converters[g] \in [out : Nat, age : 0 .. Latency]
    BY <2>1, SharingsAreOfGroups
  <2> QED
    BY <2>1, <2>2, <2>3, <2>4, <2>5, <2>6 DEF ChipInv
<1> QED
  BY <1>2, <1>3, <1>4, <1>5 DEF HandshakeInv

\* What a clock cycle does to each part of the design.
LEMMA ClockParts ==
  ASSUME Clock, HandshakeInv
  PROVE  \E unit \in NextUnits, next \in NextGroups :
           /\ chip'.run = next[1] /\ chip'.at = next[2] /\ chip'.state = NextState /\ chip'.unit = unit
           /\ chip'.out = IF chip.state = "BUSY" /\ chip.unit.valid THEN chip.unit.holds ELSE chip.out
           /\ chip'.quotient = IF Go("div") /\ divider_done THEN [value |-> chip.out, done |-> TRUE]
                               ELSE [chip.quotient EXCEPT !.done = FALSE]
           /\ \A g \in GroupSet : chip'.converters[g] =
                IF Go(g) /\ ~ConverterDone(g)
                THEN [out |-> chip.quotient.value, age |-> chip.converters[g].age + 1]
                ELSE [chip.converters[g] EXCEPT !.age = 0]
           /\ \A r \in Registers : chip'.registers[r] =
                IF WriteEnable(r)
                THEN [value |-> IF chip.at = plain THEN 0 ELSE chip.converters[chip.at].out, done |-> TRUE]
                ELSE [chip.registers[r] EXCEPT !.done = FALSE]
BY DEF Clock

\* The control stays with a group that is not done; then it goes on.
LEMMA GroupsInOrder ==
  ASSUME ChipInv, made.stage = "running", NEW next \in NextGroups
  PROVE  /\ next[1] \in Nat /\ next[1] > 0 /\ next[2] \in GroupSet \cup {plain, "div"}
         /\ ~GroupDone => next[1] = chip.run /\ next[2] = chip.at
         /\ next[2] # "div" => next[1] = chip.run
         /\ GroupDone /\ next[2] = "div" => chip.at # "div"
<1>1. CASE ~GroupDone
  BY <1>1 DEF NextGroups, ChipInv
<1>2. CASE GroupDone
  <2>1. \/ (chip.at = "div" /\ next[1] = chip.run /\ next[2] \in GroupSet)
        \/ (chip.at \in GroupSet /\ next[1] = chip.run /\ next[2] = plain)
        \/ (chip.at # "div" /\ next[1] = chip.run + 1 /\ next[2] = "div")
    BY <1>2 DEF NextGroups
  <2> QED
    BY <1>2, <2>1, SharingsAreOfGroups DEF ChipInv, plain
<1> QED
  BY <1>1, <1>2

LEMMA DividerClocks ==
  ASSUME ChipInv, made.stage = "running", NEW unit \in NextUnits, NEW next \in NextGroups,
         chip'.run = next[1], chip'.at = next[2], chip'.state = NextState, chip'.unit = unit,
         chip'.out = IF chip.state = "BUSY" /\ chip.unit.valid THEN chip.unit.holds ELSE chip.out,
         chip'.quotient = IF Go("div") /\ divider_done THEN [value |-> chip.out, done |-> TRUE]
                          ELSE [chip.quotient EXCEPT !.done = FALSE]
  PROVE  /\ DividerInv' /\ chip'.out \in Nat /\ chip'.unit \in [holds : Nat, valid : BOOLEAN]
         /\ chip'.quotient \in [value : Nat, done : BOOLEAN]
<1>1. /\ chip.run \in Nat /\ chip.run > 0 /\ chip.out \in Nat
      /\ chip.unit \in [holds : Nat, valid : BOOLEAN]
      /\ chip.quotient \in [value : Nat, done : BOOLEAN] /\ DividerInv
  BY DEF ChipInv
<1>2. chip'.out \in Nat /\ chip'.quotient \in [value : Nat, done : BOOLEAN]
  <2>1. chip'.out \in Nat
    BY <1>1
  <2>2. CASE Go("div") /\ divider_done
    BY <1>1, <2>1, <2>2
  <2>3. CASE ~(Go("div") /\ divider_done)
    <3>1. chip'.quotient = [chip.quotient EXCEPT !.done = FALSE]
      BY <2>3
    <3> QED
      BY <1>1, <2>1, <3>1
  <2> QED
    BY <2>2, <2>3
<1>3. /\ unit \in [holds : Nat, valid : BOOLEAN]
      /\ llm2fpga_request => unit.holds = chip.run
      /\ ~llm2fpga_request /\ inReady => unit.holds = 0
      /\ ~llm2fpga_request /\ ~inReady => unit.holds = chip.unit.holds
  <2>1. CASE llm2fpga_request
    <3>1. unit = [holds |-> chip.run, valid |-> FALSE]
      BY <2>1 DEF NextUnits
    <3> QED
      BY <1>1, <2>1, <3>1
  <2>2. CASE ~llm2fpga_request /\ inReady
    <3>1. unit = [holds |-> 0, valid |-> FALSE]
      BY <2>2 DEF NextUnits
    <3> QED
      BY <2>2, <3>1
  <2>3. CASE ~llm2fpga_request /\ ~inReady
    <3>1. PICK valid \in BOOLEAN : unit = [chip.unit EXCEPT !.valid = valid]
      BY <2>3 DEF NextUnits
    <3> QED
      BY <1>1, <2>3, <3>1
  <2> QED
    BY <2>1, <2>2, <2>3
<1>4. CASE chip.at # "div"
  <2>1. /\ chip.state = "IDLE" /\ chip.unit.holds = 0 /\ ~chip.quotient.done
        /\ chip.quotient.value = chip.run /\ ~Go("div")
    BY <1>1, <1>4 DEF DividerInv, Go
  <2>2. ~divider_go /\ ~llm2fpga_request /\ inReady
    BY <2>1 DEF divider_go, llm2fpga_request, inReady
  <2>3. chip'.state = "IDLE" /\ chip'.unit.holds = 0
    BY <1>3, <2>1, <2>2 DEF NextState
  <2>4. chip'.quotient.value = chip.run /\ chip'.quotient.done = FALSE
    BY <1>1, <2>1
  <2>5. next[2] # "div" => next[1] = chip.run
    BY GroupsInOrder
  <2> QED
    BY <1>2, <1>3, <2>3, <2>4, <2>5 DEF DividerInv
<1>5. CASE chip.at = "div" /\ chip.quotient.done
  <2>1. GroupDone /\ ~Go("div") /\ chip.state = "IDLE" /\ chip.unit.holds = 0 /\ chip.quotient.value = chip.run
    BY <1>1, <1>5 DEF DividerInv, Go, GroupDone
  <2>2. ~divider_go /\ ~llm2fpga_request /\ inReady
    BY <2>1 DEF divider_go, llm2fpga_request, inReady
  <2>3. chip'.state = "IDLE" /\ chip'.unit.holds = 0
    BY <1>3, <2>1, <2>2 DEF NextState
  <2>4. chip'.quotient.value = chip.run /\ chip'.quotient.done = FALSE
    BY <1>1, <2>1
  <2>5. next[2] # "div" => next[1] = chip.run
    BY GroupsInOrder
  <2> QED
    BY <1>2, <1>3, <2>3, <2>4, <2>5 DEF DividerInv
<1>6. CASE chip.at = "div" /\ ~chip.quotient.done
  <2>1. ~GroupDone /\ Go("div")
    BY <1>6 DEF GroupDone, Go
  <2>2. chip'.run = chip.run /\ chip'.at = "div"
    BY <1>6, <2>1, GroupsInOrder
  <2>3. CASE chip.state = "IDLE"
    <3>1. ~divider_done /\ divider_go /\ inReady /\ llm2fpga_request
      BY <1>1, <2>1, <2>3 DEF divider_done, divider_go, inReady, llm2fpga_request, DividerInv
    <3>2. chip'.state = "BUSY" /\ chip'.unit.holds = chip.run /\ chip'.quotient.done = FALSE
      BY <1>1, <1>3, <2>3, <3>1 DEF NextState
    <3> QED
      BY <1>2, <1>3, <2>2, <3>2 DEF DividerInv
  <2>4. CASE chip.state = "BUSY"
    <3>1. ~divider_done /\ ~llm2fpga_request /\ chip.unit.holds = chip.run /\ (inReady <=> chip.unit.valid)
      BY <1>1, <2>4 DEF divider_done, llm2fpga_request, DividerInv, inReady
    <3>2. chip'.quotient.done = FALSE
      BY <1>1, <3>1
    <3>3. CASE chip.unit.valid
      <4>1. chip'.state = "COMPLETE" /\ chip'.out = chip.run /\ chip'.unit.holds = 0
        BY <1>3, <2>4, <3>1, <3>3 DEF NextState
      <4> QED
        BY <1>2, <1>3, <2>2, <3>2, <4>1 DEF DividerInv
    <3>4. CASE ~chip.unit.valid
      <4>1. chip'.state = "BUSY" /\ chip'.unit.holds = chip.run
        BY <1>3, <2>4, <3>1, <3>4 DEF NextState
      <4> QED
        BY <1>2, <1>3, <2>2, <3>2, <4>1 DEF DividerInv
    <3> QED
      BY <3>3, <3>4
  <2>5. CASE chip.state = "COMPLETE"
    <3>1. divider_done /\ ~divider_go /\ ~llm2fpga_request /\ inReady /\ chip.out = chip.run
      BY <1>1, <2>5 DEF divider_done, divider_go, llm2fpga_request, DividerInv, inReady
    <3>2. chip'.state = "IDLE" /\ chip'.unit.holds = 0
      BY <1>3, <2>5, <3>1 DEF NextState
    <3>3. chip'.quotient = [value |-> chip.run, done |-> TRUE]
      BY <2>1, <3>1
    <3> QED
      BY <1>2, <1>3, <2>2, <3>2, <3>3 DEF DividerInv
  <2> QED
    BY <1>1, <2>3, <2>4, <2>5 DEF DividerInv
<1>7. chip'.unit \in [holds : Nat, valid : BOOLEAN]
  BY <1>3
<1> QED
  BY <1>1, <1>2, <1>4, <1>5, <1>6, <1>7

LEMMA ConvertersClock ==
  ASSUME ChipInv, made.stage = "running", NEW next \in NextGroups,
         chip'.run = next[1], chip'.at = next[2],
         \A g \in GroupSet : chip'.converters[g] =
           IF Go(g) /\ ~ConverterDone(g)
           THEN [out |-> chip.quotient.value, age |-> chip.converters[g].age + 1]
           ELSE [chip.converters[g] EXCEPT !.age = 0]
  PROVE  /\ ConvertersInv'
         /\ \A g \in GroupSet : chip'.converters[g] \in [out : Nat, age : 0 .. Latency]
<1> SUFFICES ASSUME NEW g \in GroupSet
             PROVE  /\ chip'.converters[g] \in [out : Nat, age : 0 .. Latency]
                    /\ chip'.converters[g].age > 0 => chip'.at = g /\ chip'.converters[g].out = chip'.run
  BY DEF ConvertersInv
<1>1. /\ chip.converters[g] \in [out : Nat, age : 0 .. Latency] /\ Latency \in Nat
      /\ chip.quotient \in [value : Nat, done : BOOLEAN] /\ DividerInv
  BY SharingsAreOfGroups DEF ChipInv
<1>2. CASE Go(g) /\ ~ConverterDone(g)
  <2>1. chip.at = g /\ ~GroupDone /\ g # "div"
    BY <1>2, SharingsAreOfGroups DEF Go
  <2>2. chip'.at = g /\ chip'.run = chip.run
    BY <2>1, GroupsInOrder
  <2>3. chip.quotient.value = chip.run
    BY <1>1, <2>1 DEF DividerInv
  <2>4. chip.converters[g].age # Latency
    BY <1>2 DEF ConverterDone
  <2>5. chip'.converters[g] = [out |-> chip.quotient.value, age |-> chip.converters[g].age + 1]
    BY <1>2
  <2>6. chip.converters[g].age \in 0 .. Latency /\ chip.converters[g].age + 1 \in 0 .. Latency
    BY <1>1, <2>4
  <2>7. chip.quotient.value \in Nat
    BY <1>1
  <2> QED
    BY <2>2, <2>3, <2>5, <2>6, <2>7
<1>3. CASE ~(Go(g) /\ ~ConverterDone(g))
  <2>1. chip'.converters[g] = [chip.converters[g] EXCEPT !.age = 0]
    BY <1>3
  <2>2. chip'.converters[g].age = 0
    BY <1>1, <2>1
  <2>3. chip'.converters[g] \in [out : Nat, age : 0 .. Latency]
    BY <1>1, <2>1
  <2> QED
    BY <2>2, <2>3
<1> QED
  BY <1>2, <1>3

\* A capture group of a gated or repaired design enables its register with the
\* done of its own converter, and no other signal does.
LEMMA EnablesAreOwn ==
  ASSUME HandshakeInv, made.stage = "running", made.gated \/ made.repairs > 0, NEW r \in Registers
  PROVE  OwnEnables(sv.enables[r].pairs)
<1>1. CASE made.repairs > 0
  BY <1>1 DEF HandshakeInv, SvInv, EnablesInv, Repaired
<1>2. CASE made.repairs = 0 /\ made.gated
  <2>1. PICK last \in BOOLEAN : sv.enables[r] = Compiled(sv.physical, r, last)
    BY <1>2 DEF HandshakeInv, SvInv, EnablesInv
  <2>2. SingleStanding(sv.enables[r], Captures(r)) /\ FutilInv
    BY <2>1, CompiledIsSingleStanding DEF HandshakeInv, SvInv
  <2>3. \A g \in GroupSet : futil[g] = <<g>> /\ g # "one"
    BY <1>2, <2>2, SharingsAreOfGroups DEF FutilInv
  <2> QED
    BY <2>2, <2>3 DEF SingleStanding, OwnEnables
<1> QED
  BY <1>1, <1>2 DEF HandshakeInv, MadeInv

LEMMA WrittenIsOfThisRun ==
  ASSUME HandshakeInv, made.stage = "running", NEW r \in Registers, WriteEnable(r)
  PROVE  /\ chip.at \in GroupSet \cup {plain} /\ ~GroupDone
         /\ (made.gated \/ made.repairs > 0) /\ chip.at \in GroupSet => chip.converters[chip.at].out = chip.run
<1>1. PICK p \in sv.enables[r].pairs : (\E t \in p.when : Go(t)) /\ Asserted(p.value)
  BY DEF WriteEnable
<1>2. PICK t \in p.when : Go(t)
  BY <1>1
<1>3. chip.at = t /\ ~GroupDone
  BY <1>2 DEF Go
<1>4. t \in GroupSet \cup {plain}
  BY DEF HandshakeInv, SvInv, EnablesInv, WellFormed
<1>5. ASSUME made.gated \/ made.repairs > 0, chip.at \in GroupSet
      PROVE  chip.converters[chip.at].out = chip.run
  <2>1. p.value = chip.at
    BY <1>3, <1>5, EnablesAreOwn DEF OwnEnables
  <2>2. ConverterDone(chip.at)
    BY <1>1, <1>5, <2>1, SharingsAreOfGroups DEF Asserted
  <2>3. chip.converters[chip.at].age > 0
    BY <2>2, SharingsAreOfGroups DEF ConverterDone
  <2> QED
    BY <1>5, <2>3 DEF HandshakeInv, ChipInv, ConvertersInv
<1> QED
  BY <1>3, <1>4, <1>5

LEMMA RegistersClock ==
  ASSUME HandshakeInv, made.stage = "running", NEW next \in NextGroups,
         chip'.run = next[1], chip'.at = next[2], UNCHANGED <<sv, made>>,
         \A r \in Registers : chip'.registers[r] =
           IF WriteEnable(r)
           THEN [value |-> IF chip.at = plain THEN 0 ELSE chip.converters[chip.at].out, done |-> TRUE]
           ELSE [chip.registers[r] EXCEPT !.done = FALSE]
  PROVE  /\ RegistersInv'
         /\ \A r \in Registers : chip'.registers[r] \in [value : Nat, done : BOOLEAN]
<1>1. ASSUME NEW r \in Registers
      PROVE  /\ chip'.registers[r] \in [value : Nat, done : BOOLEAN]
             /\ chip'.registers[r].done => WriteEnable(r)
             /\ WriteEnable(r) /\ chip.at \in GroupSet => chip'.registers[r].value = chip.converters[chip.at].out
  <2>1. CASE WriteEnable(r)
    <3>1. chip'.registers[r] = [value |-> IF chip.at = plain THEN 0 ELSE chip.converters[chip.at].out, done |-> TRUE]
      BY <2>1
    <3>2. chip.at \in GroupSet \cup {plain}
      BY <2>1, WrittenIsOfThisRun
    <3>3. chip.at \in GroupSet => chip.at # plain /\ chip.converters[chip.at].out \in Nat
      BY SharingsAreOfGroups DEF HandshakeInv, ChipInv
    <3> QED
      BY <2>1, <3>1, <3>2, <3>3
  <2>2. CASE ~WriteEnable(r)
    <3>1. chip'.registers[r] = [chip.registers[r] EXCEPT !.done = FALSE]
      BY <2>2
    <3>2. chip.registers[r] \in [value : Nat, done : BOOLEAN]
      BY DEF HandshakeInv, ChipInv
    <3> QED
      BY <2>2, <3>1, <3>2
  <2> QED
    BY <2>1, <2>2
<1>2. RegistersInv'
  <2> DEFINE r == RegisterOf(chip'.at)
  <2> SUFFICES ASSUME made.gated \/ made.repairs > 0, chip'.at \in GroupSet, chip'.registers[RegisterOf(chip.at)'].done
               PROVE  chip'.registers[RegisterOf(chip.at)'].value = chip'.run
    BY DEF RegistersInv
  <2>1. RegisterOf(chip.at)' = sv.physical[chip'.at] /\ sv.physical[chip'.at] \in Registers
    BY SharingsAreOfGroups DEF RegisterOf, HandshakeInv, SvInv
  <2>2. WriteEnable(sv.physical[chip'.at])
    BY <1>1, <2>1
  <2>3. ~GroupDone
    BY <2>1, <2>2, WrittenIsOfThisRun
  <2>4. chip'.run = chip.run /\ chip'.at = chip.at
    BY <2>3, GroupsInOrder DEF HandshakeInv
  <2>5. chip.converters[chip.at].out = chip.run
    BY <2>1, <2>2, <2>4, WrittenIsOfThisRun
  <2> QED
    BY <1>1, <2>1, <2>2, <2>4, <2>5
<1> QED
  BY <1>1, <1>2

LEMMA ClockKeeps == HandshakeInv /\ Clock => HandshakeInv'
<1> SUFFICES ASSUME HandshakeInv, Clock PROVE HandshakeInv'
  OBVIOUS
<1>1. made.stage = "running" /\ UNCHANGED <<futil, sv, made>> /\ ChipInv
  BY DEF Clock, HandshakeInv
<1>2. PICK unit \in NextUnits, next \in NextGroups :
        /\ chip'.run = next[1] /\ chip'.at = next[2] /\ chip'.state = NextState /\ chip'.unit = unit
        /\ chip'.out = IF chip.state = "BUSY" /\ chip.unit.valid THEN chip.unit.holds ELSE chip.out
        /\ chip'.quotient = IF Go("div") /\ divider_done THEN [value |-> chip.out, done |-> TRUE]
                            ELSE [chip.quotient EXCEPT !.done = FALSE]
        /\ \A g \in GroupSet : chip'.converters[g] =
             IF Go(g) /\ ~ConverterDone(g)
             THEN [out |-> chip.quotient.value, age |-> chip.converters[g].age + 1]
             ELSE [chip.converters[g] EXCEPT !.age = 0]
        /\ \A r \in Registers : chip'.registers[r] =
             IF WriteEnable(r)
             THEN [value |-> IF chip.at = plain THEN 0 ELSE chip.converters[chip.at].out, done |-> TRUE]
             ELSE [chip.registers[r] EXCEPT !.done = FALSE]
  BY ClockParts
<1>3. /\ DividerInv' /\ chip'.out \in Nat /\ chip'.unit \in [holds : Nat, valid : BOOLEAN]
      /\ chip'.quotient \in [value : Nat, done : BOOLEAN]
  BY <1>1, <1>2, DividerClocks
<1>4. /\ ConvertersInv' /\ \A g \in GroupSet : chip'.converters[g] \in [out : Nat, age : 0 .. Latency]
  BY <1>1, <1>2, ConvertersClock
<1>5. /\ RegistersInv' /\ \A r \in Registers : chip'.registers[r] \in [value : Nat, done : BOOLEAN]
  BY <1>1, <1>2, RegistersClock
<1>6. chip'.run \in Nat /\ chip'.run > 0 /\ chip'.at \in GroupSet \cup {plain, "div"}
  BY <1>1, <1>2, GroupsInOrder
<1>7. ChipInv'
  BY <1>3, <1>4, <1>5, <1>6 DEF ChipInv
<1>8. FutilInv' /\ MadeInv'
  BY <1>1 DEF HandshakeInv, FutilInv, MadeInv
<1>9. SvInv'
  <2>1. ASSUME NEW r \in Registers PROVE EnablesInv(r) => EnablesInv(r)'
    <3>1. \A l \in BOOLEAN : Compiled(sv.physical, r, l)' = Compiled(sv.physical, r, l)
      BY <1>1 DEF Compiled
    <3>2. Captures(r)' = Captures(r)
      BY <1>1 DEF Captures
    <3> QED
      BY <1>1, <3>1, <3>2 DEF EnablesInv
  <2> QED
    BY <1>1, <2>1 DEF HandshakeInv, SvInv
<1> QED
  BY <1>7, <1>8, <1>9 DEF HandshakeInv

LEMMA HandshakeStutterKeeps == HandshakeInv /\ UNCHANGED handshakeVars => HandshakeInv'
<1> SUFFICES ASSUME HandshakeInv, UNCHANGED handshakeVars PROVE HandshakeInv'
  OBVIOUS
<1>1. UNCHANGED futil /\ UNCHANGED sv /\ UNCHANGED made /\ UNCHANGED chip
  BY DEF handshakeVars
<1>2. FutilInv' /\ MadeInv'
  BY <1>1 DEF HandshakeInv, FutilInv, MadeInv
<1>3. SvInv'
  <2>1. ASSUME NEW r \in Registers PROVE EnablesInv(r) => EnablesInv(r)'
    <3>1. \A l \in BOOLEAN : Compiled(sv.physical, r, l)' = Compiled(sv.physical, r, l)
      BY <1>1 DEF Compiled
    <3>2. Captures(r)' = Captures(r)
      BY <1>1 DEF Captures
    <3> QED
      BY <1>1, <3>1, <3>2 DEF EnablesInv
  <2> QED
    BY <1>1, <2>1 DEF HandshakeInv, SvInv
<1>4. ChipInv'
  <2>1. DividerInv => DividerInv'
    BY <1>1 DEF DividerInv
  <2>2. ConvertersInv => ConvertersInv'
    BY <1>1 DEF ConvertersInv
  <2>3. RegistersInv => RegistersInv'
    BY <1>1 DEF RegistersInv, RegisterOf
  <2> QED
    BY <1>1, <2>1, <2>2, <2>3 DEF HandshakeInv, ChipInv
<1> QED
  BY <1>2, <1>3, <1>4 DEF HandshakeInv

LEMMA HandshakeInvHolds == HandshakesSpec => []HandshakeInv
<1>1. ExportInit => HandshakeInv
  <2> SUFFICES ASSUME ExportInit PROVE HandshakeInv
    OBVIOUS
  <2>1. made.stage = "export" /\ MadeInv /\ ~made.gated
    BY DEF ExportInit, NotMade, MadeInv
  <2>2. FutilInv
    BY <2>1 DEF ExportInit, FutilInv, Enables
  <2> QED
    BY <2>1, <2>2 DEF HandshakeInv, SvInv, ChipInv
<1>2. HandshakeInv /\ [HandshakesNext]_handshakeVars => HandshakeInv'
  BY FixFutilKeeps, CompileKeeps, RepairDividerKeeps, RepairCapturesKeeps, PowerOnKeeps, ClockKeeps,
     HandshakeStutterKeeps DEF HandshakesNext
<1> QED
  BY <1>1, <1>2, PTL DEF HandshakesSpec

\* In a design that was gated or repaired, the register of a capture group that
\* is done holds the conversion of this run's quotient, and a second repair
\* changes nothing: for any groups, any sharing of their registers, any latency
\* of the converters and any number of runs.
THEOREM CapturesStayOfTheirRun == HandshakesSpec => []CapturesAreOfTheirRun
<1>1. HandshakeInv => CapturesAreOfTheirRun
  <2> SUFFICES ASSUME HandshakeInv PROVE CapturesAreOfTheirRun
    OBVIOUS
  <2>1. ~made.changed
    BY DEF HandshakeInv, MadeInv
  <2>2. ASSUME made.stage = "running", made.gated \/ made.repairs > 0, chip.at \in GroupSet, GroupDone
        PROVE  chip.registers[RegisterOf(chip.at)].value = chip.run
    <3>1. chip.registers[RegisterOf(chip.at)].done
      BY <2>2, SharingsAreOfGroups DEF GroupDone
    <3> QED
      BY <2>2, <3>1 DEF HandshakeInv, ChipInv, RegistersInv
  <2> QED
    BY <2>1, <2>2 DEF CapturesAreOfTheirRun
<1> QED
  BY <1>1, HandshakeInvHolds, PTL

-----------------------------------------------------------------------------
(* The self-tests.                                                         *)

(* The matrix product.                                                     *)

MatmulTypes ==
    /\ matmul \in [boot: Nat, start: BOOLEAN, initialized: BOOLEAN, index: Operands,
                   pass: BOOLEAN, fail: BOOLEAN, cycles: Nat]
    /\ product \in [a: [Operands -> Nat], b: [Operands -> Nat], started: BOOLEAN, wrong: BOOLEAN,
                    stored: BOOLEAN, first: {product.first}]
    /\ matmul.cycles <= TIMEOUT_CYCLES

(* The operands up to the index are seeded, all of them when the design    *)
(* leaves reset; a design that has started was seeded, and the lamps know  *)
(* of the first result.                                                    *)
OperandsAreSeeded ==
    \A i \in Operands : matmul.initialized \/ i < matmul.index => product.a[i] = vec_a(i) /\ product.b[i] = vec_b(i)
ResultsAreJudged ==
    /\ product.started => matmul.initialized
    /\ product.stored => matmul.pass \/ matmul.fail
    /\ matmul.pass \/ (matmul.fail /\ matmul.cycles # TIMEOUT_CYCLES) => product.stored
MatmulInv == MatmulTypes /\ OperandsAreSeeded /\ ResultsAreJudged /\ MatmulIsJudged

LEMMA OperandRange ==
    /\ \A i \in Operands : i \in Nat /\ i <= VectorLength - 1 /\ vec_a(i) \in Nat /\ vec_b(i) \in Nat
    /\ VectorLength \in Nat /\ 0 \in Operands
    /\ \A i \in Operands : i # VectorLength - 1 => i + 1 \in Operands
BY SelfTestAssumption DEF Operands, vec_a, vec_b

LEMMA MatmulInitInv == SelfTestInit => MatmulInv
<1> SUFFICES ASSUME SelfTestInit PROVE MatmulInv
    OBVIOUS
<1>1. PICK wrong \in BOOLEAN :
         product = [a |-> [i \in Operands |-> 0], b |-> [i \in Operands |-> 0], started |-> FALSE, wrong |-> wrong,
                    stored |-> FALSE, first |-> 0]
    BY DEF SelfTestInit
<1>2. matmul = MatmulPoweredUp
    BY DEF SelfTestInit
<1>3. MatmulTypes
    BY <1>1, <1>2, OperandRange, SelfTestAssumption DEF MatmulTypes, MatmulPoweredUp
<1>4. OperandsAreSeeded
    BY <1>2, OperandRange DEF OperandsAreSeeded, MatmulPoweredUp
<1> QED BY <1>1, <1>2, <1>3, <1>4 DEF MatmulInv, ResultsAreJudged, MatmulIsJudged, MatmulPoweredUp

(* What the memories of a seeded design hold has the expected product.     *)
LEMMA SeededIsExpected ==
    ASSUME MatmulInv, matmul.initialized
    PROVE  Dot(product.a, product.b) = EXPECTED
<1>1. product.a = [i \in Operands |-> vec_a(i)] /\ product.b = [i \in Operands |-> vec_b(i)]
    BY DEF MatmulInv, MatmulTypes, OperandsAreSeeded
<1> QED BY <1>1 DEF EXPECTED

LEMMA ClockMatmulTypes ==
    ASSUME MatmulInv, NEW able \in BOOLEAN, NEW stores \in BOOLEAN, NEW data,
           matmul' = ClockedMatmul(able, stores, data)
    PROVE  /\ matmul' \in [boot: Nat, start: BOOLEAN, initialized: BOOLEAN, index: Operands,
                           pass: BOOLEAN, fail: BOOLEAN, cycles: Nat]
           /\ matmul'.cycles <= TIMEOUT_CYCLES
<1> USE DEF MatmulInv, MatmulTypes
<1>1. /\ matmul.boot \in Nat /\ matmul.cycles \in Nat /\ matmul.cycles <= TIMEOUT_CYCLES
      /\ matmul.index \in Operands /\ TIMEOUT_CYCLES \in Nat /\ BOOT_RESET_CYCLES \in Nat
    BY SelfTestAssumption
<1>2. (IF matmul.initialized \/ matmul.index = VectorLength - 1 THEN matmul.index ELSE matmul.index + 1) \in Operands
    BY <1>1, OperandRange
<1>3. (IF matmul.boot <= BOOT_RESET_CYCLES THEN matmul.boot + 1 ELSE matmul.boot) \in Nat
    BY <1>1
<1> DEFINE cycles == IF MatmulReset THEN 0
                     ELSE IF MatmulJudging /\ ~stores /\ ~MatmulLate THEN matmul.cycles + 1 ELSE matmul.cycles
<1>4. cycles \in Nat /\ cycles <= TIMEOUT_CYCLES
    BY <1>1 DEF MatmulLate
<1> HIDE DEF cycles, MatmulInv, MatmulTypes
<1>5. matmul'.cycles = cycles
    BY DEF ClockedMatmul, cycles
<1> QED BY <1>2, <1>3, <1>4, <1>5 DEF ClockedMatmul

LEMMA ClockMatmulKeeps ==
    ASSUME MatmulInv, ClockMatmul
    PROVE  MatmulInv'
<1>1. PICK able \in BOOLEAN, stores \in BOOLEAN : \E data \in Results(product) :
         /\ MatmulReset => ~able /\ ~stores
         /\ stores => product.started
         /\ matmul' = ClockedMatmul(able, stores, data)
         /\ product' = [Seeded(product) EXCEPT
                           !.started = ~MatmulReset /\ (@ \/ (matmul.start /\ able)),
                           !.stored = ~MatmulReset /\ (@ \/ stores),
                           !.first = IF stores /\ ~product.stored THEN data ELSE @]
    BY DEF ClockMatmul
<1>2. PICK data \in Results(product) :
         /\ MatmulReset => ~able /\ ~stores
         /\ stores => product.started
         /\ matmul' = ClockedMatmul(able, stores, data)
         /\ product' = [Seeded(product) EXCEPT
                           !.started = ~MatmulReset /\ (@ \/ (matmul.start /\ able)),
                           !.stored = ~MatmulReset /\ (@ \/ stores),
                           !.first = IF stores /\ ~product.stored THEN data ELSE @]
    BY <1>1
<1>3. /\ matmul' \in [boot: Nat, start: BOOLEAN, initialized: BOOLEAN, index: Operands,
                      pass: BOOLEAN, fail: BOOLEAN, cycles: Nat]
      /\ matmul'.cycles <= TIMEOUT_CYCLES
    BY <1>2, ClockMatmulTypes
<1>4. /\ matmul'.initialized = (matmul.initialized \/ matmul.index = VectorLength - 1)
      /\ matmul'.index = IF matmul.initialized \/ matmul.index = VectorLength - 1 THEN matmul.index ELSE matmul.index + 1
      /\ matmul'.pass = (~MatmulReset /\ (matmul.pass \/ (MatmulJudging /\ stores /\ data = EXPECTED)))
      /\ matmul'.fail = (~MatmulReset /\ (matmul.fail \/ (MatmulJudging /\ IF stores THEN data # EXPECTED ELSE MatmulLate)))
      /\ matmul'.cycles = IF MatmulReset THEN 0
                          ELSE IF MatmulJudging /\ ~stores /\ ~MatmulLate THEN matmul.cycles + 1 ELSE matmul.cycles
    BY <1>2 DEF ClockedMatmul
<1>5. /\ Seeded(product) \in [a: [Operands -> Nat], b: [Operands -> Nat], started: BOOLEAN, wrong: BOOLEAN,
                              stored: BOOLEAN, first: {product.first}]
      /\ Seeded(product).started = product.started /\ Seeded(product).wrong = product.wrong
      /\ Seeded(product).stored = product.stored /\ Seeded(product).first = product.first
      /\ \A i \in Operands :
           /\ Seeded(product).a[i] = IF ~matmul.initialized /\ i = matmul.index THEN vec_a(i) ELSE product.a[i]
           /\ Seeded(product).b[i] = IF ~matmul.initialized /\ i = matmul.index THEN vec_b(i) ELSE product.b[i]
  <2>1. /\ product \in [a: [Operands -> Nat], b: [Operands -> Nat], started: BOOLEAN, wrong: BOOLEAN,
                        stored: BOOLEAN, first: {product.first}]
        /\ matmul.index \in Operands /\ vec_a(matmul.index) \in Nat /\ vec_b(matmul.index) \in Nat
    BY OperandRange DEF MatmulInv, MatmulTypes
  <2>2. CASE matmul.initialized
    BY <2>1, <2>2 DEF Seeded
  <2>3. CASE ~matmul.initialized
    BY <2>1, <2>3 DEF Seeded
  <2> QED BY <2>2, <2>3
<1>6. /\ product' \in [a: [Operands -> Nat], b: [Operands -> Nat], started: BOOLEAN, wrong: BOOLEAN,
                       stored: BOOLEAN, first: {product'.first}]
      /\ product'.a = Seeded(product).a /\ product'.b = Seeded(product).b /\ product'.wrong = product.wrong
      /\ product'.started = (~MatmulReset /\ (product.started \/ (matmul.start /\ able)))
      /\ product'.stored = (~MatmulReset /\ (product.stored \/ stores))
      /\ product'.first = IF stores /\ ~product.stored THEN data ELSE product.first
    BY <1>2, <1>5
<1>7. MatmulTypes'
    BY <1>3, <1>6 DEF MatmulTypes
<1>8. OperandsAreSeeded'
  <2> SUFFICES ASSUME NEW i \in Operands, matmul'.initialized \/ i < matmul'.index
               PROVE  product'.a[i] = vec_a(i) /\ product'.b[i] = vec_b(i)
    BY DEF OperandsAreSeeded
  <2>1. matmul.index \in Nat /\ i \in Nat /\ VectorLength \in Nat /\ i <= VectorLength - 1
    BY OperandRange DEF MatmulInv, MatmulTypes
  <2>2. CASE ~matmul.initialized /\ i = matmul.index
    BY <1>5, <1>6, <2>2
  <2>3. CASE matmul.initialized \/ i # matmul.index
    <3> DEFINE k == matmul.index
               j == matmul'.index
    <3>1. matmul.initialized \/ k = VectorLength - 1 \/ (j = k + 1 /\ i < j)
      <4>1. matmul'.initialized => matmul.initialized \/ k = VectorLength - 1
        BY <1>4
      <4>2. ~matmul.initialized /\ k # VectorLength - 1 => j = k + 1
        BY <1>4
      <4> QED BY <4>1, <4>2
    <3> HIDE DEF j
    <3>2. matmul.initialized \/ i < k
      BY <2>1, <2>3, <3>1
    <3> QED BY <1>5, <1>6, <2>3, <3>2 DEF MatmulInv, OperandsAreSeeded
  <2> QED BY <2>2, <2>3
<1>9. ResultsAreJudged' /\ MatmulIsJudged'
  <2>1. /\ matmul.pass \in BOOLEAN /\ matmul.fail \in BOOLEAN /\ matmul.initialized \in BOOLEAN
        /\ matmul.cycles \in Nat /\ matmul.cycles <= TIMEOUT_CYCLES /\ TIMEOUT_CYCLES \in Nat
        /\ product.stored \in BOOLEAN /\ product.started \in BOOLEAN /\ product.wrong \in BOOLEAN
    BY SelfTestAssumption DEF MatmulInv, MatmulTypes
  <2>2. ~MatmulReset => matmul.initialized
    BY DEF MatmulReset
  <2>3. stores => matmul.initialized
    BY <1>2 DEF MatmulInv, ResultsAreJudged
  <2>4. stores /\ data # EXPECTED => product.wrong
    BY <1>2, <2>3, SeededIsExpected DEF Results
  <2>5. /\ product.started => matmul.initialized
        /\ product.stored => matmul.pass \/ matmul.fail
        /\ matmul.pass \/ (matmul.fail /\ matmul.cycles # TIMEOUT_CYCLES) => product.stored
        /\ ~(matmul.pass /\ matmul.fail)
        /\ matmul.pass => product.stored /\ product.first = EXPECTED
        /\ matmul.fail => matmul.cycles = TIMEOUT_CYCLES \/ (product.wrong /\ product.first # EXPECTED)
    BY DEF MatmulInv, ResultsAreJudged, MatmulIsJudged
  <2>6. MatmulJudging <=> ~MatmulReset /\ ~matmul.pass /\ ~matmul.fail
    BY DEF MatmulJudging
  <2>7. MatmulLate => matmul.cycles = TIMEOUT_CYCLES
    BY <2>1 DEF MatmulLate
  <2>8. CASE MatmulReset
    BY <1>2, <1>4, <1>6, <2>1, <2>5, <2>8 DEF ResultsAreJudged, MatmulIsJudged
  <2>9. CASE ~MatmulReset /\ ~MatmulJudging
    BY <1>2, <1>4, <1>6, <2>1, <2>2, <2>5, <2>6, <2>9 DEF ResultsAreJudged, MatmulIsJudged
  <2>10. CASE MatmulJudging /\ stores
    BY <1>2, <1>4, <1>6, <2>1, <2>2, <2>4, <2>5, <2>6, <2>10 DEF ResultsAreJudged, MatmulIsJudged
  <2>11. CASE MatmulJudging /\ ~stores
    BY <1>2, <1>4, <1>6, <2>1, <2>2, <2>5, <2>6, <2>7, <2>11 DEF ResultsAreJudged, MatmulIsJudged
  <2> QED BY <2>8, <2>9, <2>10, <2>11
<1> QED BY <1>7, <1>8, <1>9 DEF MatmulInv

LEMMA PressMatmulKeeps ==
    ASSUME MatmulInv, PressMatmulReset
    PROVE  MatmulInv'
<1>1. /\ product' \in [a: [Operands -> Nat], b: [Operands -> Nat], started: BOOLEAN, wrong: BOOLEAN,
                       stored: BOOLEAN, first: {product'.first}]
      /\ ~product'.started /\ ~product'.stored
    BY DEF PressMatmulReset, MatmulInv, MatmulTypes
<1>2. matmul' = MatmulPoweredUp
    BY DEF PressMatmulReset
<1>3. MatmulTypes'
    BY <1>1, <1>2, OperandRange, SelfTestAssumption DEF MatmulTypes, MatmulPoweredUp
<1>4. OperandsAreSeeded'
    BY <1>2, OperandRange DEF OperandsAreSeeded, MatmulPoweredUp
<1> QED BY <1>1, <1>2, <1>3, <1>4 DEF MatmulInv, ResultsAreJudged, MatmulIsJudged, MatmulPoweredUp
-----------------------------------------------------------------------------
(* The wrapper.                                                            *)

(* A port has a load in flight when its register says so, and then for the *)
(* address that the wrapper has kept; the start token is gone when the     *)
(* design has started.                                                     *)
WrapperTypes ==
    /\ regs \in [boot: Nat, start: BOOLEAN, pending: [wrapper.loads -> BOOLEAN], addr_q: {regs.addr_q},
                store_done_pending: BOOLEAN, pass: BOOLEAN, fail: BOOLEAN, cycles: Nat]
    /\ regs.cycles <= TIMEOUT_CYCLES
    /\ design \in [started: Nat, asked: {design.asked}, given: {design.given}, unreturned: Nat, ended: BOOLEAN]
KeepsItsAddress(n) ==
    /\ design.asked[n] = IF regs.pending[n] THEN <<regs.addr_q[n]>> ELSE <<>>
    /\ ~HasAddress(wrapper.ports, n) => regs.addr_q[n] = 0
    /\ design.given[n] = <<>> \/ \E q : design.given[n] = <<q, data_expr(wrapper.ports, n, q)>>
LampsInv ==
    /\ design.started = IF regs.start THEN 0 ELSE 1
    /\ design.unreturned = IF regs.store_done_pending THEN 1 ELSE 0
    /\ ~(regs.pass /\ regs.fail)
    /\ regs.pass => design.ended /\ ~regs.start
    /\ regs.fail => regs.cycles = TIMEOUT_CYCLES
WrapperInv ==
    wrapper # NoWrapper => WrapperTypes /\ LampsInv /\ \A n \in wrapper.loads : KeepsItsAddress(n)

(* At power-up and after a reset there is nothing in flight.               *)
LEMMA PoweredUpIsFine ==
    ASSUME NEW loads, wrapper'.loads = loads, regs' = PoweredUp(loads), design' = NewDesign(loads)
    PROVE  WrapperInv'
<1>1. WrapperTypes'
    BY SelfTestAssumption DEF WrapperTypes, PoweredUp, NewDesign, Zeroed
<1>2. LampsInv'
    BY DEF LampsInv, PoweredUp, NewDesign
<1>3. ASSUME NEW n \in loads PROVE KeepsItsAddress(n)'
    BY DEF KeepsItsAddress, PoweredUp, NewDesign, Zeroed
<1> QED BY <1>1, <1>2, <1>3 DEF WrapperInv

(* What a design may show.                                                 *)
LEMMA ShownForms ==
    ASSUME NEW show \in Shown
    PROVE  /\ show.start_ready \in BOOLEAN /\ show.stores \in BOOLEAN /\ show.acknowledges \in BOOLEAN
           /\ show.done \in BOOLEAN
           /\ \A n \in wrapper.loads : n \in show.asks => show.address[n] \in Addresses(wrapper.ports, n)
           /\ show.done => design.started # 0
<1> DEFINE IsQuiet(s) == s.asks = {} /\ s.start_ready \in BOOLEAN /\ s.stores = FALSE
                         /\ s.acknowledges = FALSE /\ s.done = FALSE
<1>1. CASE reset \/ design.started = 0
  <2>1. PICK able \in BOOLEAN : show = Silent(able)
    BY <1>1 DEF Shown
  <2>2. IsQuiet(show)
    BY <2>1 DEF Silent
  <2> QED BY <2>2
<1>3. CASE ~reset /\ design.started # 0
  <2>1. PICK asks \in SUBSET wrapper.loads : show \in ShownAsking(asks)
    BY <1>3 DEF Shown
  <2>2. PICK address \in Asked(asks), takes \in SUBSET wrapper.loads, stores \in BOOLEAN,
             acknowledges \in BOOLEAN, done \in BOOLEAN :
          show = [asks |-> asks, address |-> address, takes |-> takes, start_ready |-> TRUE,
                  stores |-> stores, acknowledges |-> acknowledges, done |-> done]
    BY <2>1 DEF ShownAsking
  <2>3. \A n \in wrapper.loads : n \in asks => address[n] \in Addresses(wrapper.ports, n)
    BY DEF Asked
  <2> QED BY <1>3, <2>2, <2>3
<1> QED BY <1>1, <1>3

LEMMA ClockTypes ==
    ASSUME WrapperTypes, NEW show \in Shown, regs' = ClockedRegs(show), design' = ClockedDesign(show),
           UNCHANGED wrapper, LampsInv
    PROVE  WrapperTypes'
<1>1. /\ regs.boot \in Nat /\ regs.cycles \in Nat /\ regs.cycles <= TIMEOUT_CYCLES /\ design.started \in Nat
      /\ design.unreturned \in Nat /\ TIMEOUT_CYCLES \in Nat
    BY SelfTestAssumption DEF WrapperTypes
<1>2. (IF reset THEN regs.boot + 1 ELSE regs.boot) \in Nat
    BY <1>1
<1>3. NextCycles(show) \in Nat /\ NextCycles(show) <= TIMEOUT_CYCLES
    BY <1>1 DEF NextCycles, Late
<1>4. /\ regs' \in [boot: Nat, start: BOOLEAN, pending: [wrapper.loads -> BOOLEAN], addr_q: {regs'.addr_q},
                    store_done_pending: BOOLEAN, pass: BOOLEAN, fail: BOOLEAN, cycles: Nat]
      /\ regs'.cycles = NextCycles(show)
  <2>1. NextStart(show) \in BOOLEAN
    BY DEF NextStart, WrapperTypes
  <2>2. [n \in wrapper.loads |-> NextPending(n, show)] \in [wrapper.loads -> BOOLEAN]
    BY DEF NextPending
  <2> QED BY <1>2, <1>3, <2>1, <2>2 DEF ClockedRegs, NextStorePending, NextPass, NextFail
<1>5. design' \in [started: Nat, asked: {design'.asked}, given: {design'.given}, unreturned: Nat, ended: BOOLEAN]
  <2>1. CASE reset
    BY <2>1 DEF ClockedDesign, NewDesign
  <2>2. CASE ~reset
    <3> DEFINE started    == IF regs.start /\ show.start_ready THEN design.started + 1 ELSE design.started
               unreturned == (design.unreturned + IF StoreAccepted(show) THEN 1 ELSE 0)
                                 - IF StoreReturned(show) THEN 1 ELSE 0
    <3>1. started \in Nat
      BY <1>1
    <3>2. unreturned \in Nat
      BY <1>1 DEF StoreAccepted, StoreReturned, LampsInv
    <3>3. design' = [started |-> started, asked |-> [n \in wrapper.loads |-> AskedOf(n, show)],
                     given |-> [n \in wrapper.loads |-> GivenOf(n, show)], unreturned |-> unreturned,
                     ended |-> design.ended \/ show.done]
      BY <2>2 DEF ClockedDesign
    <3> HIDE DEF started, unreturned
    <3> QED BY <3>1, <3>2, <3>3
  <2> QED BY <2>1, <2>2
<1> QED BY <1>3, <1>4, <1>5 DEF WrapperTypes

LEMMA ClockLamps ==
    ASSUME WrapperTypes, LampsInv, NEW show \in Shown, regs' = ClockedRegs(show), design' = ClockedDesign(show)
    PROVE  LampsInv'
<1>1. /\ regs.cycles \in Nat /\ regs.cycles <= TIMEOUT_CYCLES /\ TIMEOUT_CYCLES \in Nat
      /\ regs.start \in BOOLEAN /\ regs.store_done_pending \in BOOLEAN
      /\ regs.pass \in BOOLEAN /\ regs.fail \in BOOLEAN
    BY SelfTestAssumption DEF WrapperTypes
<1>2. /\ regs'.start = NextStart(show) /\ regs'.store_done_pending = NextStorePending(show)
      /\ regs'.pass = NextPass(show) /\ regs'.fail = NextFail(show) /\ regs'.cycles = NextCycles(show)
    BY DEF ClockedRegs
<1>3. CASE reset
  <2>1. design'.started = 0 /\ design'.unreturned = 0
    BY <1>3 DEF ClockedDesign, NewDesign
  <2>2. regs'.start /\ ~regs'.store_done_pending /\ ~regs'.pass /\ ~regs'.fail
    BY <1>2, <1>3 DEF NextStart, NextStorePending, NextPass, NextFail
  <2> QED BY <2>1, <2>2 DEF LampsInv
<1>4. CASE ~reset
  <2>1. /\ design'.started = IF regs.start /\ show.start_ready THEN design.started + 1 ELSE design.started
        /\ design'.unreturned = (design.unreturned + IF StoreAccepted(show) THEN 1 ELSE 0)
                                    - IF StoreReturned(show) THEN 1 ELSE 0
        /\ design'.ended = (design.ended \/ show.done)
    BY <1>4 DEF ClockedDesign
  <2>2. show.start_ready \in BOOLEAN /\ show.done \in BOOLEAN /\ (show.done => design.started # 0)
    BY ShownForms
  <2>3. design'.started = IF regs'.start THEN 0 ELSE 1
    BY <1>1, <1>2, <1>4, <2>1, <2>2 DEF LampsInv, NextStart
  <2>4. design'.unreturned = IF regs'.store_done_pending THEN 1 ELSE 0
    <3>1. CASE regs.store_done_pending
      <4>1. design.unreturned = 1 /\ ~StoreAccepted(show)
        BY <3>1 DEF LampsInv, StoreAccepted
      <4>2. regs'.store_done_pending <=> ~StoreReturned(show)
        BY <1>2, <1>4, <3>1, <4>1 DEF NextStorePending
      <4> QED BY <2>1, <4>1, <4>2
    <3>2. CASE ~regs.store_done_pending
      <4>1. design.unreturned = 0 /\ ~StoreReturned(show)
        BY <3>2 DEF LampsInv, StoreReturned
      <4>2. regs'.store_done_pending <=> StoreAccepted(show)
        BY <1>2, <1>4, <3>2, <4>1 DEF NextStorePending
      <4> QED BY <2>1, <4>1, <4>2
    <3> QED BY <3>1, <3>2
  <2>5. /\ ~(regs'.pass /\ regs'.fail)
        /\ regs'.pass => design'.ended /\ ~regs'.start
    BY <1>1, <1>2, <1>4, <2>1, <2>2 DEF LampsInv, NextPass, NextFail, Judging, NextStart
  <2>6. regs'.fail => regs'.cycles = TIMEOUT_CYCLES
    BY <1>1, <1>2, <1>4 DEF LampsInv, NextFail, NextCycles, Judging, Late
  <2> QED BY <2>3, <2>4, <2>5, <2>6 DEF LampsInv
<1> QED BY <1>3, <1>4

LEMMA ClockLoads ==
    ASSUME WrapperTypes, NEW show \in Shown, regs' = ClockedRegs(show), design' = ClockedDesign(show),
           UNCHANGED wrapper, NEW n \in wrapper.loads, KeepsItsAddress(n)
    PROVE  KeepsItsAddress(n)'
<1>1. regs'.pending[n] = NextPending(n, show) /\ regs'.addr_q[n] = NextAddress(n, show)
    BY DEF ClockedRegs
<1>2. regs.pending[n] \in BOOLEAN
    BY DEF WrapperTypes
<1>3. CASE reset
  <2>1. design'.asked[n] = <<>> /\ design'.given[n] = <<>>
    BY <1>3 DEF ClockedDesign, NewDesign
  <2>2. ~regs'.pending[n] /\ regs'.addr_q[n] = 0
    BY <1>1, <1>3 DEF NextPending, NextAddress
  <2> QED BY <2>1, <2>2 DEF KeepsItsAddress
<1>4. CASE ~reset
  <2>1. design'.asked[n] = AskedOf(n, show) /\ design'.given[n] = GivenOf(n, show)
    BY <1>4 DEF ClockedDesign
  <2>2. n \in show.asks => show.address[n] \in Addresses(wrapper.ports, n)
    BY ShownForms
  <2>3. CASE Accepts(n, show)
    <3>1. ~regs.pending[n] /\ design.asked[n] = <<>> /\ ~Delivers(n, show)
      BY <1>2, <2>3 DEF Accepts, Delivers, KeepsItsAddress
    <3>2. AskedOf(n, show) = <<show.address[n]>> /\ GivenOf(n, show) = design.given[n]
      BY <2>3, <3>1 DEF AskedOf, GivenOf
    <3>3. NextAddress(n, show) = show.address[n]
      <4>1. CASE HasAddress(wrapper.ports, n)
        BY <1>4, <2>3, <4>1 DEF NextAddress
      <4>2. CASE ~HasAddress(wrapper.ports, n)
        <5>1. show.address[n] = 0
          BY <2>2, <2>3, <4>2 DEF Accepts, Addresses
        <5> QED BY <1>4, <4>2, <5>1 DEF NextAddress, KeepsItsAddress
      <4> QED BY <4>1, <4>2
    <3>4. NextPending(n, show)
      BY <1>4, <2>3 DEF NextPending
    <3>5. ~HasAddress(wrapper.ports, n) => NextAddress(n, show) = 0
      BY <1>4 DEF NextAddress, KeepsItsAddress
    <3> QED BY <1>1, <2>1, <3>2, <3>3, <3>4, <3>5 DEF KeepsItsAddress
  <2>4. CASE Delivers(n, show)
    <3>1. regs.pending[n] /\ design.asked[n] = <<regs.addr_q[n]>> /\ ~Accepts(n, show)
      BY <2>4 DEF Accepts, Delivers, KeepsItsAddress
    <3>2. AskedOf(n, show) = <<>>
      BY <2>4, <3>1 DEF AskedOf
    <3>3. GivenOf(n, show) = <<regs.addr_q[n], data_expr(wrapper.ports, n, regs.addr_q[n])>>
      BY <2>4, <3>1 DEF GivenOf
    <3>4. ~NextPending(n, show) /\ NextAddress(n, show) = regs.addr_q[n]
      BY <1>4, <2>4, <3>1 DEF NextPending, NextAddress
    <3> QED BY <1>1, <2>1, <3>2, <3>3, <3>4 DEF KeepsItsAddress
  <2>5. CASE ~Accepts(n, show) /\ ~Delivers(n, show)
    <3>1. AskedOf(n, show) = design.asked[n] /\ GivenOf(n, show) = design.given[n]
      BY <2>5 DEF AskedOf, GivenOf
    <3>2. NextAddress(n, show) = regs.addr_q[n] /\ NextPending(n, show) = regs.pending[n]
      BY <1>2, <1>4, <2>5 DEF NextPending, NextAddress
    <3> QED BY <1>1, <2>1, <3>1, <3>2 DEF KeepsItsAddress
  <2> QED BY <2>3, <2>4, <2>5
<1> QED BY <1>3, <1>4

LEMMA WrapperStep ==
    ASSUME WrapperInv, WrapperNext
    PROVE  WrapperInv'
<1>1. CASE GenerateWrapper
  <2> DEFINE loads == LoadPrefixes(parse_main_ports(header))
  <2>1. wrapper'.loads = loads /\ regs' = PoweredUp(loads) /\ design' = NewDesign(loads)
    BY <1>1 DEF GenerateWrapper, generate_wrapper
  <2> HIDE DEF loads
  <2> QED BY <2>1, PoweredUpIsFine
<1>2. CASE ClockWrapper
  <2>1. PICK show \in Shown : regs' = ClockedRegs(show) /\ design' = ClockedDesign(show)
    BY <1>2 DEF ClockWrapper
  <2>2. wrapper # NoWrapper /\ UNCHANGED wrapper
    BY <1>2 DEF ClockWrapper
  <2>3. WrapperTypes /\ LampsInv /\ \A n \in wrapper.loads : KeepsItsAddress(n)
    BY <2>2 DEF WrapperInv
  <2>4. WrapperTypes' /\ LampsInv'
    BY <2>1, <2>2, <2>3, ClockTypes, ClockLamps
  <2>5. \A n \in wrapper.loads : KeepsItsAddress(n)'
    BY <2>1, <2>2, <2>3, ClockLoads
  <2> QED BY <2>2, <2>4, <2>5 DEF WrapperInv
<1>3. CASE PressReset
    BY <1>3, PoweredUpIsFine DEF PressReset
<1> QED BY <1>1, <1>2, <1>3 DEF WrapperNext

LEMMA WrapperInvServes == WrapperInv => WrapperServes
<1> SUFFICES ASSUME WrapperInv, wrapper # NoWrapper
             PROVE  /\ design.started <= 1
                    /\ \A n \in wrapper.loads :
                         /\ Len(design.asked[n]) = (IF regs.pending[n] THEN 1 ELSE 0)
                         /\ design.given[n] # <<>> =>
                              design.given[n][2] = data_expr(wrapper.ports, n, design.given[n][1])
                    /\ design.unreturned = (IF regs.store_done_pending THEN 1 ELSE 0)
                    /\ ~(regs.pass /\ regs.fail)
                    /\ regs.pass => design.ended /\ design.started = 1
                    /\ regs.fail => regs.cycles = TIMEOUT_CYCLES
    BY DEF WrapperServes
<1>1. /\ design.started <= 1 /\ (regs.pass => design.started = 1)
    BY DEF WrapperInv, LampsInv
<1>2. ASSUME NEW n \in wrapper.loads
      PROVE  /\ Len(design.asked[n]) = (IF regs.pending[n] THEN 1 ELSE 0)
             /\ design.given[n] # <<>> =>
                  design.given[n][2] = data_expr(wrapper.ports, n, design.given[n][1])
  <2>1. KeepsItsAddress(n)
    BY DEF WrapperInv
  <2>2. Len(design.asked[n]) = (IF regs.pending[n] THEN 1 ELSE 0)
    BY <2>1 DEF KeepsItsAddress
  <2>3. ASSUME NEW q, design.given[n] = <<q, data_expr(wrapper.ports, n, q)>>
        PROVE  design.given[n][2] = data_expr(wrapper.ports, n, design.given[n][1])
    BY <2>3
  <2> QED BY <2>1, <2>2, <2>3 DEF KeepsItsAddress
<1> QED BY <1>1, <1>2 DEF WrapperInv, LampsInv

\* A self-test top answers a read of its design with the datum of the address
\* it was asked for, starts the design once and passes only when it ended; the
\* matmul's lamps judge the first result that the started design stored.
THEOREM LampsStayEarned == SelfTestSpec => []LampsAreEarned
<1> DEFINE LampInv == MatmulInv /\ WrapperInv
<1>1. SelfTestInit => LampInv
  <2>1. SelfTestInit => WrapperInv
    BY DEF SelfTestInit, WrapperInv
  <2> QED BY <2>1, MatmulInitInv
<1>2. LampInv /\ [SelfTestNext]_selfTestVars => LampInv'
  <2> SUFFICES ASSUME LampInv, [SelfTestNext]_selfTestVars PROVE LampInv'
    OBVIOUS
  <2>1. ASSUME UNCHANGED <<matmul, product>> PROVE MatmulInv'
    BY <2>1 DEF MatmulInv, MatmulTypes, OperandsAreSeeded, ResultsAreJudged, MatmulIsJudged
  <2>2. ASSUME UNCHANGED <<header, wrapper, regs, design>> PROVE WrapperInv'
    BY <2>2 DEF WrapperInv, WrapperTypes, LampsInv, KeepsItsAddress
  <2>3. CASE WrapperNext
    BY <2>1, <2>3, WrapperStep DEF WrapperNext, GenerateWrapper, ClockWrapper, PressReset
  <2>4. CASE MatmulNext
    BY <2>2, <2>4, ClockMatmulKeeps, PressMatmulKeeps DEF MatmulNext, ClockMatmul, PressMatmulReset
  <2>5. CASE UNCHANGED selfTestVars
    BY <2>1, <2>2, <2>5 DEF selfTestVars
  <2> QED BY <2>3, <2>4, <2>5 DEF SelfTestNext
<1>3. LampInv => LampsAreEarned
    BY WrapperInvServes DEF LampsAreEarned, MatmulInv
<1> QED BY <1>1, <1>2, <1>3, PTL DEF SelfTestSpec

-----------------------------------------------------------------------------
(* The bridge of the layer normalization.                                  *)

(* The steps before the source operation, the descriptor and the MLIR are  *)
(* in hand.                                                                *)
Evidenced == {"export", "receipt", "read receipt", "load", "bridge"}
Described == {"report", "open mlir", "fill mlir", "open report", "fill report"}

(* A run is a record of its fields, and what it has in hand is the pinned  *)
(* evidence from the primitive on, the pinned operation from the           *)
(* descriptor on, and its MLIR from the lowering on.                       *)
IsARun(run) ==
    run \in [step: {run.step}, hashed: {run.hashed}, index: {run.index}, profile: {run.profile},
            vector: {run.vector}, qdq: {run.qdq}, evidence: {run.evidence}, source: {run.source},
            descriptor: {run.descriptor}, mlir: {run.mlir}]
IsASource(source) ==
    /\ source = [index |-> source.index, name |-> source.name, target |-> source.target,
                 types |-> source.types, epsilon |-> source.epsilon, cudnn |-> source.cudnn,
                 parameters |-> source.parameters, export |-> source.export, receipt |-> source.receipt]
    /\ source.cudnn \in BOOLEAN
InHand(run) ==
    /\ run.step \in Evidenced \cup Described \cup {"lower"} => run.evidence = FrozenEvidence
    /\ run.step = "bridge" => IsASource(run.source)
    /\ run.step \in Described \cup {"lower"} =>
         run.source = SourceOp /\ run.descriptor = FrozenDescriptor
    /\ run.step \in Described => run.mlir = Lowered(FrozenDescriptor)

BridgeInv ==
    /\ IsARun(lnRun) /\ InHand(lnRun) /\ lnKills \in Nat
    /\ lnRun.step \in {"open report", "fill report"} => lnMlir = Lowered(FrozenDescriptor)
    /\ BridgeIsFrozen

(* The checks of a source operation accept the pinned one only.            *)
LEMMA OneSourceIsValid ==
    ASSUME NEW source, IsASource(source), validate_source_op(source)
    PROVE  source = SourceOp
<1>1. source.cudnn = TRUE
    BY DEF IsASource, validate_source_op
<1>2. /\ source.index = GRAPH_INDEX /\ source.name = SourceOp.name /\ source.target = SourceOp.target
      /\ source.types = SourceOp.types /\ source.epsilon = SourceOp.epsilon
      /\ source.parameters = SourceOp.parameters /\ source.export = LnHash("export")
      /\ source.receipt = LnHash("receipt")
    BY DEF validate_source_op
<1> QED BY <1>1, <1>2, BridgeAssumption DEF PinnedSource, IsASource

LEMMA IdleRun == IsARun(NoLnRun) /\ InHand(NoLnRun) /\ NoLnRun.step = "idle"
BY DEF IsARun, InHand, NoLnRun, Evidenced, Described

(* A step that only moves the run keeps the files as they are.             *)
LEMMA RunStepKeeps ==
    ASSUME BridgeInv, UNCHANGED <<lnMlir, lnReport, lnKills>>, IsARun(lnRun'), InHand(lnRun'),
           lnRun'.step \notin {"open report", "fill report"}, lnRun.step # "fill mlir"
    PROVE  BridgeInv'
BY DEF BridgeInv, BridgeIsFrozen

LEMMA BridgeInitInv == BridgeInit => BridgeInv
<1> SUFFICES ASSUME BridgeInit PROVE BridgeInv
    OBVIOUS
<1>1. IsARun(lnRun) /\ InHand(lnRun) /\ lnRun.step = "idle"
    BY IdleRun DEF BridgeInit
<1>2. lnKills = 0 /\ lnMlir = NotWritten /\ lnReport = NotWritten /\ lnReport # FrozenReport
    BY NoFileIsNoReport DEF BridgeInit
<1> QED BY <1>1, <1>2 DEF BridgeInv, BridgeIsFrozen

(* A requirement that fails puts the run away, one that holds moves it.    *)
LEMMA ProvidedKeeps ==
    ASSUME BridgeInv, UNCHANGED <<lnMlir, lnReport, lnKills>>, NEW condition \in BOOLEAN, NEW run,
           Provided(condition, run), condition => IsARun(run) /\ InHand(run),
           condition => run.step \notin {"open report", "fill report"}, lnRun.step # "fill mlir"
    PROVE  BridgeInv'
<1>1. CASE condition
  <2>1. lnRun' = run
    BY <1>1 DEF Provided
  <2> QED BY <1>1, <2>1, RunStepKeeps
<1>2. CASE ~condition
  <2>1. lnRun' = NoLnRun
    BY <1>2 DEF Provided
  <2> QED BY <2>1, IdleRun, RunStepKeeps
<1> QED BY <1>1, <1>2

LEMMA EvidenceSteps ==
    ASSUME BridgeInv, StartBridge \/ HashNext \/ ReadSemantics \/ ReadVector \/ ReadQdq \/ RunPrimitive
    PROVE  BridgeInv'
<1>1. CASE StartBridge
  <2>1. PICK index \in RunIndices : lnRun' = [NoLnRun EXCEPT !.step = "hash", !.index = index]
    BY <1>1 DEF StartBridge
  <2>2. IsARun(lnRun') /\ InHand(lnRun') /\ lnRun'.step = "hash"
    BY <2>1 DEF IsARun, InHand, NoLnRun, Evidenced, Described
  <2> QED BY <1>1, <2>2, RunStepKeeps DEF StartBridge, LnInputs
<1>2. CASE HashNext
  <2> DEFINE f   == LnEvidence[lnRun.hashed + 1]
             run == [lnRun EXCEPT !.hashed = @ + 1,
                                  !.step = IF lnRun.hashed + 1 = Len(LnEvidence) THEN "profile" ELSE "hash"]
  <2>1. lnRun.step = "hash" /\ Provided(sha256_file(f) = LnHash(f), run)
    BY <1>2 DEF HashNext
  <2>2. IsARun(run) /\ run.step \in {"profile", "hash"}
    BY DEF BridgeInv, IsARun
  <2>3. InHand(run)
    BY <2>2 DEF InHand, Evidenced, Described
  <2>4. UNCHANGED <<lnMlir, lnReport, lnKills>>
    BY <1>2 DEF HashNext, LnInputs
  <2> HIDE DEF run, f
  <2> QED BY <2>1, <2>2, <2>3, <2>4, ProvidedKeeps
<1>3. CASE ReadSemantics
  <2> DEFINE run == [lnRun EXCEPT !.step = "vector", !.profile = lnFiles["profile"]]
  <2>1. lnRun.step = "profile" /\ Provided(lnFiles["profile"].readable, run)
    BY <1>3 DEF ReadSemantics
  <2>2. IsARun(run) /\ InHand(run) /\ run.step = "vector"
    BY DEF BridgeInv, IsARun, InHand, Evidenced, Described
  <2>3. lnRun' = run \/ lnRun' = NoLnRun
    BY <2>1 DEF Provided
  <2>4. UNCHANGED <<lnMlir, lnReport, lnKills>>
    BY <1>3 DEF ReadSemantics, LnInputs
  <2> HIDE DEF run
  <2> QED BY <2>1, <2>2, <2>3, <2>4, IdleRun, RunStepKeeps
<1>4. CASE ReadVector
  <2> DEFINE run == [lnRun EXCEPT !.step = "qdq", !.vector = lnFiles["vector"]]
  <2>1. lnRun.step = "vector" /\ Provided(lnFiles["vector"].readable, run)
    BY <1>4 DEF ReadVector
  <2>2. IsARun(run) /\ InHand(run) /\ run.step = "qdq"
    BY DEF BridgeInv, IsARun, InHand, Evidenced, Described
  <2>3. lnRun' = run \/ lnRun' = NoLnRun
    BY <2>1 DEF Provided
  <2>4. UNCHANGED <<lnMlir, lnReport, lnKills>>
    BY <1>4 DEF ReadVector, LnInputs
  <2> HIDE DEF run
  <2> QED BY <2>1, <2>2, <2>3, <2>4, IdleRun, RunStepKeeps
<1>5. CASE ReadQdq
  <2> DEFINE run == [lnRun EXCEPT !.step = "primitive", !.qdq = lnFiles["qdq"]]
  <2>1. lnRun.step = "qdq" /\ (lnRun' = run \/ lnRun' = NoLnRun)
    BY <1>5 DEF ReadQdq, Provided
  <2>2. IsARun(run) /\ InHand(run) /\ run.step = "primitive"
    BY DEF BridgeInv, IsARun, InHand, Evidenced, Described
  <2>4. UNCHANGED <<lnMlir, lnReport, lnKills>>
    BY <1>5 DEF ReadQdq, LnInputs
  <2> HIDE DEF run
  <2> QED BY <2>1, <2>2, <2>4, IdleRun, RunStepKeeps
<1>6. CASE RunPrimitive
  <2> DEFINE answer   == lnFiles["primitive"].answer[lnRun.vector.contents[1]]
             evidence == EvidenceOf(lnRun.profile, lnRun.vector, lnRun.qdq, answer)
             run      == [lnRun EXCEPT !.step = "export", !.evidence = evidence]
  <2>1. lnRun.step = "primitive" /\ ((lnRun' = run /\ validate_evidence(evidence)) \/ lnRun' = NoLnRun)
    BY <1>6 DEF RunPrimitive, Provided
  <2>2. validate_evidence(evidence) => evidence = FrozenEvidence
    BY DEF validate_evidence
  <2> HIDE DEF evidence
  <2>3. IsARun(run) /\ run.step = "export" /\ run.evidence = evidence
    BY DEF BridgeInv, IsARun
  <2>4. UNCHANGED <<lnMlir, lnReport, lnKills>>
    BY <1>6 DEF RunPrimitive, LnInputs
  <2> HIDE DEF run
  <2>5. lnRun' = run => InHand(run) \/ lnRun' = NoLnRun
    BY <2>1, <2>2, <2>3 DEF InHand, Described
  <2> QED BY <2>1, <2>3, <2>4, <2>5, IdleRun, RunStepKeeps
<1> QED BY <1>1, <1>2, <1>3, <1>4, <1>5, <1>6

LEMMA MovedRun ==
    ASSUME BridgeInv, NEW step, InHand([lnRun EXCEPT !.step = step])
    PROVE  /\ IsARun(To(step)) /\ InHand(To(step)) /\ To(step).step = step
BY DEF BridgeInv, IsARun, To

LEMMA ExportSteps ==
    ASSUME BridgeInv, HashExport \/ HashReceipt \/ ReadReceipt \/ LoadExport
    PROVE  BridgeInv'
<1>1. ASSUME NEW step \in {"receipt", "read receipt", "load"},
             lnRun.step \in Evidenced, lnRun' = To(step) \/ lnRun' = NoLnRun,
             UNCHANGED <<lnMlir, lnReport, lnKills>>
      PROVE  BridgeInv'
  <2>1. IsARun(To(step)) /\ InHand(To(step)) /\ To(step).step = step
    BY <1>1 DEF BridgeInv, IsARun, InHand, To, Evidenced, Described
  <2>2. step \notin {"open report", "fill report"} /\ lnRun.step # "fill mlir"
    BY <1>1 DEF Evidenced
  <2> QED BY <1>1, <2>1, <2>2, IdleRun, RunStepKeeps
<1>2. CASE HashExport
    BY <1>1, <1>2 DEF HashExport, Provided, LnInputs, Evidenced
<1>3. CASE HashReceipt
    BY <1>1, <1>3 DEF HashReceipt, Provided, LnInputs, Evidenced
<1>4. CASE ReadReceipt
    BY <1>1, <1>4 DEF ReadReceipt, Provided, LnInputs, Evidenced
<1>5. CASE LoadExport
  <2> DEFINE node   == lnFiles["export"].nodes[lnRun.index + 1]
             source == SourceOpOf(node, lnRun.index)
             run    == [lnRun EXCEPT !.step = "bridge", !.source = source]
  <2>1. lnRun.step = "load" /\ (lnRun' = run \/ lnRun' = NoLnRun)
    BY <1>5 DEF LoadExport, Provided
  <2>2. IsASource(source)
    BY DEF IsASource, SourceOpOf
  <2> HIDE DEF source
  <2>3. IsARun(run) /\ run.step = "bridge" /\ run.source = source /\ run.evidence = lnRun.evidence
    BY DEF BridgeInv, IsARun
  <2>4. UNCHANGED <<lnMlir, lnReport, lnKills>>
    BY <1>5 DEF LoadExport, LnInputs
  <2> HIDE DEF run
  <2>5. InHand(run)
    BY <2>1, <2>2, <2>3 DEF InHand, Described, Evidenced, BridgeInv
  <2> QED BY <2>1, <2>3, <2>4, <2>5, IdleRun, RunStepKeeps
<1> QED BY <1>2, <1>3, <1>4, <1>5

LEMMA BridgeSteps ==
    ASSUME BridgeInv, bridge_source_op \/ lower_custom_op_to_mlir \/ make_report
    PROVE  BridgeInv'
<1>1. CASE bridge_source_op
  <2> DEFINE descriptor == Descriptor(lnRun.source, lnRun.evidence)
             run        == [lnRun EXCEPT !.step = "lower", !.descriptor = descriptor]
  <2>1. /\ lnRun.step = "bridge"
        /\ \/ lnRun' = run /\ validate_source_op(lnRun.source)
           \/ lnRun' = NoLnRun
    BY <1>1 DEF bridge_source_op, Provided
  <2>2. lnRun.evidence = FrozenEvidence /\ IsASource(lnRun.source)
    BY <2>1 DEF BridgeInv, InHand, Evidenced
  <2>3. validate_source_op(lnRun.source) => lnRun.source = SourceOp /\ descriptor = FrozenDescriptor
    BY <2>2, OneSourceIsValid DEF FrozenDescriptor
  <2> HIDE DEF descriptor
  <2>4. /\ IsARun(run) /\ run.step = "lower" /\ run.descriptor = descriptor
        /\ run.source = lnRun.source /\ run.evidence = lnRun.evidence
    BY DEF BridgeInv, IsARun
  <2>5. UNCHANGED <<lnMlir, lnReport, lnKills>>
    BY <1>1 DEF bridge_source_op, LnInputs
  <2> HIDE DEF run
  <2>6. validate_source_op(lnRun.source) => InHand(run)
    BY <2>2, <2>3, <2>4 DEF InHand, Described
  <2> QED BY <2>1, <2>4, <2>5, <2>6, IdleRun, RunStepKeeps
<1>2. CASE lower_custom_op_to_mlir
  <2> DEFINE mlir == Lowered(lnRun.descriptor)
             run  == [lnRun EXCEPT !.step = "report", !.mlir = mlir]
  <2>1. lnRun.step = "lower" /\ (lnRun' = run \/ lnRun' = NoLnRun)
    BY <1>2 DEF lower_custom_op_to_mlir, Provided
  <2>2. /\ lnRun.evidence = FrozenEvidence /\ lnRun.source = SourceOp
        /\ lnRun.descriptor = FrozenDescriptor /\ mlir = Lowered(FrozenDescriptor)
    BY <2>1 DEF BridgeInv, InHand
  <2> HIDE DEF mlir
  <2>3. /\ IsARun(run) /\ run.step = "report" /\ run.mlir = mlir /\ run.descriptor = lnRun.descriptor
        /\ run.source = lnRun.source /\ run.evidence = lnRun.evidence
    BY DEF BridgeInv, IsARun
  <2>4. UNCHANGED <<lnMlir, lnReport, lnKills>>
    BY <1>2 DEF lower_custom_op_to_mlir, LnInputs
  <2> HIDE DEF run
  <2>5. InHand(run)
    BY <2>2, <2>3 DEF InHand
  <2> QED BY <2>1, <2>3, <2>4, <2>5, IdleRun, RunStepKeeps
<1>3. CASE make_report
  <2>1. lnRun.step = "report" /\ (lnRun' = To("open mlir") \/ lnRun' = NoLnRun)
    BY <1>3 DEF make_report, Provided
  <2>2. IsARun(To("open mlir")) /\ InHand(To("open mlir")) /\ To("open mlir").step = "open mlir"
    BY <2>1 DEF BridgeInv, IsARun, InHand, To, Described, Evidenced
  <2>3. UNCHANGED <<lnMlir, lnReport, lnKills>>
    BY <1>3 DEF make_report, LnInputs
  <2> QED BY <2>1, <2>2, <2>3, IdleRun, RunStepKeeps
<1> QED BY <1>1, <1>2, <1>3

LEMMA WritingSteps ==
    ASSUME BridgeInv, OpenMlir \/ FillMlir \/ OpenReport \/ FillReport
    PROVE  BridgeInv'
<1>1. ASSUME NEW step \in {"fill mlir", "open report", "fill report"}, lnRun.step \in Described, lnRun' = To(step)
      PROVE  IsARun(lnRun') /\ InHand(lnRun') /\ lnRun'.step = step
    BY <1>1 DEF BridgeInv, IsARun, InHand, To, Described, Evidenced
<1>2. CASE OpenMlir
    BY <1>1, <1>2 DEF OpenMlir, LnInputs, BridgeInv, BridgeIsFrozen, Described
<1>3. CASE FillMlir
  <2>1. lnRun.step = "fill mlir" /\ lnRun.mlir = Lowered(FrozenDescriptor)
    BY <1>3 DEF FillMlir, BridgeInv, InHand, Described
  <2> QED BY <1>1, <1>3, <2>1 DEF FillMlir, LnInputs, BridgeInv, BridgeIsFrozen, Described
<1>4. CASE OpenReport
    BY <1>1, <1>4, NoFileIsNoReport DEF OpenReport, LnInputs, BridgeInv, BridgeIsFrozen, Described
<1>5. CASE FillReport
  <2>1. /\ lnRun.step = "fill report" /\ lnRun.mlir = Lowered(FrozenDescriptor)
        /\ lnRun.source = SourceOp /\ lnRun.descriptor = FrozenDescriptor /\ lnRun.evidence = FrozenEvidence
    BY <1>5 DEF FillReport, BridgeInv, InHand, Described
  <2>2. lnReport' = FrozenReport /\ lnRun' = NoLnRun /\ lnKills' = lnKills
    BY <1>5, <2>1 DEF FillReport, FrozenReport, LnInputs
  <2>3. lnMlir' = Lowered(FrozenDescriptor)
    BY <1>5, <2>1 DEF FillReport, BridgeInv, LnInputs
  <2> QED BY <2>2, <2>3, IdleRun DEF BridgeInv, BridgeIsFrozen
<1> QED BY <1>2, <1>3, <1>4, <1>5

LEMMA KillKeeps == ASSUME BridgeInv, KillBridge PROVE BridgeInv'
<1>1. IsARun(lnRun') /\ InHand(lnRun') /\ lnRun'.step = "idle"
    BY IdleRun DEF KillBridge
<1>2. lnKills \in Nat /\ lnKills' = lnKills + 1 /\ UNCHANGED <<lnMlir, lnReport>> /\ BridgeIsFrozen
    BY DEF KillBridge, BridgeInv
<1>3. lnKills' \in Nat /\ lnKills' > 0
    BY <1>2
<1> QED BY <1>1, <1>2, <1>3 DEF BridgeInv, BridgeIsFrozen

LEMMA BridgeInvStep == ASSUME BridgeInv, [BridgeNext]_bridgeVars PROVE BridgeInv'
<1>1. CASE SwapBridgeFile
    BY <1>1 DEF SwapBridgeFile, BridgeInv, BridgeIsFrozen
<1>2. CASE UNCHANGED bridgeVars
    BY <1>2 DEF bridgeVars, BridgeInv, BridgeIsFrozen
<1> QED BY <1>1, <1>2, EvidenceSteps, ExportSteps, BridgeSteps, WritingSteps, KillKeeps DEF BridgeNext

\* A whole report of the LayerNorm bridge is the one of the pinned operation and
\* the pinned evidence, whatever is exchanged and killed, and so is its MLIR
\* unless a run is rewriting it or was killed while it did.
THEOREM BridgeStaysFrozen == BridgeSpec => []BridgeIsFrozen
<1>1. BridgeInv => BridgeIsFrozen
    BY DEF BridgeInv
<1> QED BY <1>1, BridgeInitInv, BridgeInvStep, PTL DEF BridgeSpec
=============================================================================
