--------------------------------- MODULE Loops ---------------------------------
(***************************************************************************)
(* What the proofs about loops and digits share: induction on the natural  *)
(* numbers, the course of a loop that keeps one value, and division with   *)
(* rest by a number that is not known.                                     *)
(***************************************************************************)
EXTENDS Integers, WellFoundedInduction, TLAPS

(* Induction on the natural numbers, for a set of them.                    *)
LEMMA Induction ==
  ASSUME NEW T, 0 \in T, \A n \in Nat : n \in T => n + 1 \in T
  PROVE  Nat \subseteq T
  <1> DEFINE U == {n \in Nat : n \notin T}
  <1>1. SUFFICES ASSUME U # {} PROVE FALSE
    OBVIOUS
  <1>2. \A x, y \in Nat : y < x => <<y, x>> \in OpToRel(<, Nat)
    BY DEF OpToRel
  <1>3. PICK x \in U : \A y \in U : ~(<<y, x>> \in OpToRel(<, Nat))
    BY <1>1, WFMin, NatLessThanWellFounded
  <1>4. x - 1 \in U /\ x - 1 < x
    OBVIOUS
  <1>5. QED
    BY <1>2, <1>3, <1>4

(* A loop over 1..N that keeps one value: what its rounds make of it, and  *)
(* the values it may go through.                                           *)
RoundsOf(N, X) == [1 .. N -> [X -> X]]
Courses(N, X, start, Round) ==
  {f \in [0 .. N -> X] : f[0] = start /\ \A k \in 1 .. N : f[k] = Round[k][f[k - 1]]}

LEMMA Loop ==
  ASSUME NEW N \in Nat, NEW X, NEW start \in X, NEW Round \in RoundsOf(N, X)
  PROVE  Courses(N, X, start, Round) # {}
  <1> DEFINE RunsTo(f, n) == f[0] = start /\ \A k \in 1 .. n : f[k] = Round[k][f[k - 1]]
             T == {n \in Nat : n <= N => \E f \in [0 .. n -> X] : RunsTo(f, n)}
  <1>0. Round \in [1 .. N -> [X -> X]]
    BY DEF RoundsOf
  <1>1. 0 \in T
    <2>1. [k \in 0 .. 0 |-> start] \in [0 .. 0 -> X] /\ RunsTo([k \in 0 .. 0 |-> start], 0)
      OBVIOUS
    <2>2. QED
      BY <2>1
  <1>2. ASSUME NEW n \in Nat, n \in T PROVE n + 1 \in T
    <2>0. n + 1 \in Nat
      OBVIOUS
    <2> SUFFICES (n + 1 <= N) => \E f \in [0 .. n + 1 -> X] : RunsTo(f, n + 1)
      BY <2>0
    <2>1. SUFFICES ASSUME n + 1 <= N PROVE \E f \in [0 .. n + 1 -> X] : RunsTo(f, n + 1)
      OBVIOUS
    <2>2. PICK f \in [0 .. n -> X] : RunsTo(f, n)
      BY <1>2, <2>1
    <2> DEFINE g == [k \in 0 .. n + 1 |-> IF k = n + 1 THEN Round[n + 1][f[n]] ELSE f[k]]
    <2>3. g \in [0 .. n + 1 -> X]
      BY <1>0, <2>1
    <2>4. g[0] = start /\ g[n + 1] = Round[n + 1][g[n]]
      <3>1. 0 \in 0 .. n + 1 /\ n + 1 \in 0 .. n + 1 /\ n \in 0 .. n + 1 /\ 0 # n + 1 /\ n # n + 1
        OBVIOUS
      <3>2. g[0] = f[0] /\ g[n] = f[n] /\ g[n + 1] = Round[n + 1][f[n]]
        BY <3>1
      <3> HIDE DEF g
      <3>3. QED
        BY <2>2, <3>2
    <2>5. ASSUME NEW k \in 1 .. n PROVE g[k] = Round[k][g[k - 1]]
      <3>1. k \in 0 .. n + 1 /\ k - 1 \in 0 .. n + 1 /\ k # n + 1 /\ k - 1 # n + 1
        OBVIOUS
      <3>2. g[k] = f[k] /\ g[k - 1] = f[k - 1]
        BY <3>1
      <3> HIDE DEF g
      <3>3. QED
        BY <2>2, <3>2
    <2>6. RunsTo(g, n + 1)
      <3> HIDE DEF g
      <3>1. ASSUME NEW k \in 1 .. n + 1 PROVE g[k] = Round[k][g[k - 1]]
        <4>1. CASE k = n + 1
          BY <4>1, <2>4
        <4>2. CASE k # n + 1
          BY <4>2, <2>5
        <4>3. QED
          BY <4>1, <4>2
      <3>2. QED
        BY <2>4, <3>1
    <2>7. QED
      BY <2>3, <2>6
  <1>3. N \in T
    <2> HIDE DEF T
    <2>1. QED
      BY <1>1, <1>2, Induction
  <1>4. QED
    BY <1>3 DEF Courses

-----------------------------------------------------------------------------
(* Quotients and digits.                                                   *)

LEMMA Quotients ==
  ASSUME NEW r \in Nat, NEW d \in Nat \ {0}
  PROVE  r \div d \in Nat /\ r % d \in 0 .. d - 1 /\ r = d * (r \div d) + (r % d)
  <1>1. r \div d \in Int /\ r % d \in 0 .. d - 1
    OBVIOUS
  <1>2. r = d * (r \div d) + (r % d)
    OBVIOUS
  <1>3. QED
    BY <1>1, <1>2

LEMMA QuotientIsBelow ==
  ASSUME NEW q \in Nat, NEW d \in Nat \ {0}, NEW p \in Nat, NEW m \in 0 .. d - 1,
         d * q + m < p * d
  PROVE  q < p
  <1>1. SUFFICES ASSUME q >= p PROVE FALSE
    OBVIOUS
  <1>2. PICK e \in Nat : q = p + e
    BY <1>1, q - p \in Nat
  <1>3. d * q = p * d + d * e /\ d * e \in Nat
    BY <1>2
  <1>4. QED
    BY <1>3

LEMMA IntegerQuotients ==
  ASSUME NEW n \in Int, NEW d \in Nat \ {0}
  PROVE  n \div d \in Int /\ n % d \in 0 .. d - 1 /\ n = d * (n \div d) + (n % d)
  <1>1. n \div d \in Int /\ n % d \in 0 .. d - 1
    OBVIOUS
  <1>2. n = d * (n \div d) + (n % d)
    OBVIOUS
  <1>3. QED
    BY <1>1, <1>2

LEMMA Digits ==
  ASSUME NEW q \in Nat, NEW d \in Nat \ {0}, NEW m \in 0 .. d - 1
  PROVE  (d * q + m) \div d = q /\ (d * q + m) % d = m
  <1>1. PICK n \in Nat : n = d * q + m
    <2>1. d * q \in Nat
      OBVIOUS
    <2>2. QED
      BY <2>1
  <1>2. PICK p \in Nat, k \in 0 .. d - 1 : p = n \div d /\ k = n % d /\ n = d * p + k
    BY <1>1, Quotients
  <1>3. d * q + m = d * p + k
    BY <1>1, <1>2
  <1>4. ~(q < p)
    <2>1. SUFFICES ASSUME q < p PROVE FALSE
      OBVIOUS
    <2>2. PICK e \in Nat : p = q + 1 + e
      BY <2>1, p - q - 1 \in Nat
    <2>3. d * p = d * q + d + d * e /\ d * e \in Nat /\ d * q \in Nat
      BY <2>2
    <2>4. QED
      BY <1>3, <2>3
  <1>5. ~(p < q)
    <2>1. SUFFICES ASSUME p < q PROVE FALSE
      OBVIOUS
    <2>2. PICK e \in Nat : q = p + 1 + e
      BY <2>1, q - p - 1 \in Nat
    <2>3. d * q = d * p + d + d * e /\ d * e \in Nat /\ d * p \in Nat
      BY <2>2
    <2>4. QED
      BY <1>3, <2>3
  <1>6. p = q /\ k = m
    <2>1. p = q
      BY <1>4, <1>5
    <2>2. d * q \in Nat
      OBVIOUS
    <2>3. QED
      BY <2>1, <2>2, <1>3
  <1>7. QED
    BY <1>1, <1>2, <1>6
=============================================================================
