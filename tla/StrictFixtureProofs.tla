-------------------------- MODULE StrictFixtureProofs --------------------------
(***************************************************************************)
(* What the generated bench promises, for every design, every number of    *)
(* lanes, every context length and every request.                          *)
(***************************************************************************)
EXTENDS StrictFixture, Loops

-----------------------------------------------------------------------------
(* Contexts and their digits.                                              *)

LEMMA DivMod ==
  ASSUME NEW r \in Nat, NEW d \in Nat \ {0}
  PROVE  /\ r \div d \in Nat
         /\ r % d \in 0 .. d - 1
         /\ r = d * (r \div d) + (r % d)
  <1>1. r \div d \in Int /\ r % d \in 0 .. d - 1
    OBVIOUS
  <1>2. r = d * (r \div d) + (r % d)
    OBVIOUS
  <1>3. QED
    BY <1>1, <1>2

LEMMA QuotientBelow ==
  ASSUME NEW q \in Nat, NEW d \in Nat \ {0}, NEW p \in Nat, NEW m \in 0 .. d - 1,
         d * q + m < d * p
  PROVE  q < p
  <1>1. SUFFICES ASSUME q >= p PROVE FALSE
    OBVIOUS
  <1>2. PICK e \in Nat : q = p + e
    BY <1>1, q - p \in Nat
  <1>3. d * q = d * p + d * e /\ d * e \in Nat
    BY <1>2
  <1>4. QED
    BY <1>3

(* What is left of an index before each slot is filled.                    *)
LEMMA LeftIsDivided ==
  ASSUME NEW index \in Nat
  PROVE  /\ Left(index) \in [0 .. ContextLength -> Nat]
         /\ Left(index)[ContextLength] = index
         /\ \A s \in Slots : Left(index)[s] = Left(index)[s + 1] \div Lanes
  <1> DEFINE N == ContextLength
             body(left) == [s \in 0 .. N |-> IF s = N THEN index ELSE left[s + 1] \div Lanes]
             Round == [n \in 1 .. N |-> [v \in Nat |-> v \div Lanes]]
  <1>0. N \in Nat /\ Lanes \in Nat \ {0}
    BY ContextLengthAssumption, LanesAssumption
  <1>1. Round \in RoundsOf(N, Nat)
    BY <1>0, DivMod DEF RoundsOf
  <1>2. Courses(N, Nat, index, Round) # {}
    <2> HIDE DEF Round, N
    <2>1. QED
      BY <1>0, <1>1, Loop, Zenon
  <1>3. PICK f \in [0 .. N -> Nat] :
          f[0] = index /\ \A n \in 1 .. N : f[n] = f[n - 1] \div Lanes
    <2>1. PICK f \in [0 .. N -> Nat] :
            f[0] = index /\ \A n \in 1 .. N : f[n] = Round[n][f[n - 1]]
      BY <1>2, Zenon DEF Courses
    <2>2. ASSUME NEW n \in 1 .. N PROVE f[n] = f[n - 1] \div Lanes
      <3>1. f[n - 1] \in Nat
        BY <1>0
      <3>2. QED
        BY <2>1, <3>1
    <2>3. QED
      BY <2>1, <2>2
  <1> DEFINE g == [s \in 0 .. N |-> f[N - s]]
  <1>4. g = body(g)
    <2>1. ASSUME NEW s \in 0 .. N PROVE g[s] = body(g)[s]
      <3>1. CASE s = N
        BY <3>1, <1>3, <1>0
      <3>2. CASE s # N
        <4>1. N - s \in 1 .. N /\ s + 1 \in 0 .. N /\ (N - s) - 1 = N - (s + 1)
          BY <3>2, <1>0
        <4>2. f[N - s] = f[(N - s) - 1] \div Lanes
          BY <4>1, <1>3
        <4>3. g[s + 1] = f[(N - s) - 1]
          BY <4>1
        <4>4. QED
          BY <4>1, <4>2, <4>3, <3>2
      <3>3. QED
        BY <3>1, <3>2
    <2>2. QED
      BY <2>1
  <1>5. Left(index) = CHOOSE left : left = body(left)
    BY Zenon DEF Left
  <1>6. Left(index) = body(Left(index))
    BY <1>4, <1>5, Zenon
  <1>7. Left(index)[N] = index /\ \A s \in Slots : Left(index)[s] = Left(index)[s + 1] \div Lanes
    BY <1>6, <1>0 DEF Slots
  <1> DEFINE T == {n \in Nat : n <= N => Left(index)[N - n] \in Nat}
  <1>8. Nat \subseteq T
    <2>1. 0 \in T
      BY <1>7, <1>0
    <2>2. ASSUME NEW n \in Nat, n \in T PROVE n + 1 \in T
      <3>1. SUFFICES ASSUME n + 1 <= N PROVE Left(index)[N - (n + 1)] \in Nat
        OBVIOUS
      <3>2. N - (n + 1) \in Slots /\ (N - (n + 1)) + 1 = N - n /\ n <= N
        BY <3>1, <1>0 DEF Slots
      <3>3. Left(index)[N - n] \in Nat
        BY <2>2, <3>2
      <3>4. Left(index)[N - (n + 1)] = Left(index)[N - n] \div Lanes
        BY <1>7, <3>2
      <3>5. Left(index)[N - n] \div Lanes \in Nat
        BY <3>3, <1>0, DivMod
      <3>6. QED
        BY <3>4, <3>5
    <2> HIDE DEF T
    <2>3. QED
      BY <2>1, <2>2, Induction
  <1>9. \A s \in 0 .. N : Left(index)[s] \in Nat
    <2>1. ASSUME NEW s \in 0 .. N PROVE Left(index)[s] \in Nat
      <3>1. N - s \in Nat /\ N - (N - s) = s /\ N - s <= N
        BY <1>0
      <3>2. N - s \in T
        <4> HIDE DEF T
        <4>1. QED
          BY <3>1, <1>8
      <3>3. QED
        BY <3>1, <3>2
    <2>2. QED
      BY <2>1
  <1>10. DOMAIN Left(index) = 0 .. N /\ Left(index) = [s \in 0 .. N |-> Left(index)[s]]
    <2> HIDE DEF g
    <2>1. QED
      BY <1>6
  <1>11. QED
    BY <1>7, <1>9, <1>10
(* The number of contexts is a power of the number of lanes.               *)
LEMMA ContextsArePower ==
  \E power \in [0 .. ContextLength -> Nat] :
     /\ power[0] = 1 /\ power[ContextLength] = Contexts
     /\ \A n \in 1 .. ContextLength : power[n] = Lanes * power[n - 1]
  <1> DEFINE N == ContextLength
             body(power) == [n \in 0 .. N |-> IF n = 0 THEN 1 ELSE Lanes * power[n - 1]]
             Round == [n \in 1 .. N |-> [v \in Nat |-> Lanes * v]]
             power == CHOOSE power : power = body(power)
  <1>0. N \in Nat /\ Lanes \in Nat \ {0}
    BY ContextLengthAssumption, LanesAssumption
  <1>1. Round \in RoundsOf(N, Nat)
    BY <1>0 DEF RoundsOf
  <1>2. Courses(N, Nat, 1, Round) # {}
    <2> HIDE DEF Round, N
    <2>1. 1 \in Nat
      OBVIOUS
    <2>2. QED
      BY <2>1, <1>0, <1>1, Loop, Zenon
  <1>3. PICK f \in [0 .. N -> Nat] : f[0] = 1 /\ \A n \in 1 .. N : f[n] = Round[n][f[n - 1]]
    BY <1>2, Zenon DEF Courses
  <1>4. \A n \in 1 .. N : f[n] = Lanes * f[n - 1]
    <2>1. ASSUME NEW n \in 1 .. N PROVE f[n] = Lanes * f[n - 1]
      <3>1. f[n - 1] \in Nat
        BY <1>0
      <3>2. QED
        BY <1>3, <3>1
    <2>2. QED
      BY <2>1
  <1>5. f = body(f)
    <2>1. ASSUME NEW n \in 0 .. N PROVE f[n] = body(f)[n]
      BY <1>3, <1>4
    <2>2. QED
      BY <2>1
  <1>6. power = body(power)
    BY <1>5, Zenon
  <1>7. Contexts = power[N]
    BY Zenon DEF Contexts
  <1> HIDE DEF power
  <1>8. power[0] = 1 /\ \A n \in 1 .. N : power[n] = Lanes * power[n - 1]
    BY <1>6, <1>0
  <1> DEFINE T == {n \in Nat : n <= N => power[n] \in Nat}
  <1>9. Nat \subseteq T
    <2>1. 0 \in T
      BY <1>8
    <2>2. ASSUME NEW n \in Nat, n \in T PROVE n + 1 \in T
      BY <2>2, <1>8, <1>0
    <2> HIDE DEF T
    <2>3. QED
      BY <2>1, <2>2, Induction
  <1>10. power \in [0 .. N -> Nat]
    <2>1. \A n \in 0 .. N : power[n] \in Nat
      BY <1>9, <1>0
    <2>2. QED
      BY <2>1, <1>6
  <1>11. QED
    BY <1>7, <1>8, <1>10

(* The index read from a window, digit by digit.                           *)
LEMMA IndexIsRead ==
  ASSUME NEW window \in [Slots -> Nat]
  PROVE  \E value :
            /\ value[0] = 0 /\ IndexOf(window) = value[ContextLength]
            /\ \A n \in 1 .. ContextLength : value[n] = Lanes * value[n - 1] + window[n - 1]
  <1> DEFINE N == ContextLength
             body(value) ==
               [n \in 0 .. N |-> IF n = 0 THEN 0 ELSE Lanes * value[n - 1] + window[n - 1]]
             Round == [n \in 1 .. N |-> [v \in Nat |-> Lanes * v + window[n - 1]]]
             value == CHOOSE value : value = body(value)
  <1>0. N \in Nat /\ Lanes \in Nat \ {0}
    BY ContextLengthAssumption, LanesAssumption
  <1>1. Round \in RoundsOf(N, Nat)
    <2>1. \A n \in 1 .. N : window[n - 1] \in Nat
      BY <1>0 DEF Slots
    <2>2. QED
      BY <2>1, <1>0 DEF RoundsOf
  <1>2. Courses(N, Nat, 0, Round) # {}
    <2> HIDE DEF Round, N
    <2>1. 0 \in Nat
      OBVIOUS
    <2>2. QED
      BY <2>1, <1>0, <1>1, Loop, Zenon
  <1>3. PICK f \in [0 .. N -> Nat] : f[0] = 0 /\ \A n \in 1 .. N : f[n] = Round[n][f[n - 1]]
    BY <1>2, Zenon DEF Courses
  <1>4. \A n \in 1 .. N : f[n] = Lanes * f[n - 1] + window[n - 1]
    <2>1. ASSUME NEW n \in 1 .. N PROVE f[n] = Lanes * f[n - 1] + window[n - 1]
      <3>1. f[n - 1] \in Nat
        BY <1>0
      <3>2. QED
        BY <1>3, <3>1
    <2>2. QED
      BY <2>1
  <1>5. f = body(f)
    <2>1. ASSUME NEW n \in 0 .. N PROVE f[n] = body(f)[n]
      BY <1>3, <1>4
    <2>2. QED
      BY <2>1
  <1>6. value = body(value)
    BY <1>5, Zenon
  <1>7. IndexOf(window) = value[N]
    BY Zenon DEF IndexOf
  <1> HIDE DEF value
  <1>8. value[0] = 0 /\ \A n \in 1 .. N : value[n] = Lanes * value[n - 1] + window[n - 1]
    BY <1>6, <1>0
  <1>9. QED
    BY <1>7, <1>8

(* The token slots of a context are its digits, and read back they are it. *)
LEMMA WindowHoldsTheIndex ==
  ASSUME NEW index \in Nat, index < Contexts
  PROVE  Window(index) \in [Slots -> Lane] /\ IndexOf(Window(index)) = index
  <1> DEFINE N == ContextLength
             left == Left(index)
             window == Window(index)
  <1>0. N \in Nat \ {0} /\ Lanes \in Nat \ {0}
    BY ContextLengthAssumption, LanesAssumption
  <1>1. /\ left \in [0 .. N -> Nat] /\ left[N] = index
        /\ \A s \in Slots : left[s] = left[s + 1] \div Lanes
    BY LeftIsDivided
  <1>2. \A s \in Slots : s \in 0 .. N /\ s + 1 \in 0 .. N
    BY <1>0 DEF Slots
  <1> HIDE DEF left
  <1>3. \A s \in Slots : window[s] = left[s + 1] % Lanes
    BY DEF Window, left
  <1>4. \A s \in Slots :
          window[s] \in 0 .. Lanes - 1 /\ left[s + 1] = Lanes * left[s] + window[s]
    <2>1. ASSUME NEW s \in Slots
          PROVE  window[s] \in 0 .. Lanes - 1 /\ left[s + 1] = Lanes * left[s] + window[s]
      <3>1. left[s + 1] \in Nat
        BY <1>1, <1>2
      <3>2. /\ left[s + 1] % Lanes \in 0 .. Lanes - 1
            /\ left[s + 1] = Lanes * (left[s + 1] \div Lanes) + (left[s + 1] % Lanes)
        BY <3>1, <1>0, DivMod
      <3>3. QED
        BY <3>2, <1>1, <1>3
    <2>2. QED
      BY <2>1
  <1>5. window = [s \in Slots |-> window[s]]
    BY DEF Window
  <1> HIDE DEF window
  <1>6. window \in [Slots -> Lane] /\ window \in [Slots -> Nat]
    BY <1>4, <1>5, <1>0 DEF Lane
  <1>7. PICK power \in [0 .. N -> Nat] :
          /\ power[0] = 1 /\ power[N] = Contexts
          /\ \A n \in 1 .. N : power[n] = Lanes * power[n - 1]
    BY ContextsArePower
  <1> DEFINE Small == {n \in Nat : n <= N => left[N - n] < power[N - n]}
  <1>8. Nat \subseteq Small
    <2>1. 0 \in Small
      BY <1>0, <1>1, <1>7
    <2>2. ASSUME NEW n \in Nat, n \in Small PROVE n + 1 \in Small
      <3>1. SUFFICES ASSUME n + 1 <= N PROVE left[N - (n + 1)] < power[N - (n + 1)]
        OBVIOUS
      <3>2. PICK s \in Slots : s = N - (n + 1) /\ s + 1 = N - n
        BY <3>1, <1>0 DEF Slots
      <3>3. left[s + 1] < power[s + 1]
        <4>1. left[N - n] < power[N - n]
          <5>1. n <= N
            BY <3>1, <1>0
          <5>2. QED
            BY <2>2, <5>1
        <4>2. QED
          BY <4>1, <3>2, Zenon
      <3>4. power[s + 1] = Lanes * power[s]
        <4>1. s + 1 \in 1 .. N /\ (s + 1) - 1 = s
          BY <1>0 DEF Slots
        <4>2. QED
          BY <4>1, <1>7
      <3>5. left[s] \in Nat /\ power[s] \in Nat
        BY <1>1, <1>2, <1>7
      <3>6. Lanes * left[s] + window[s] < Lanes * power[s]
        <4>1. left[s + 1] = Lanes * left[s] + window[s]
          BY <1>4
        <4>2. QED
          BY <3>3, <3>4, <4>1, Zenon
      <3>7. left[s] < power[s]
        BY <3>5, <3>6, <1>0, <1>4, QuotientBelow
      <3>8. QED
        BY <3>2, <3>7
    <2> HIDE DEF Small
    <2>3. QED
      BY <2>1, <2>2, Induction
  <1>9. left[0] = 0
    <2>1. N \in Small
      <3> HIDE DEF Small
      <3>1. QED
        BY <1>0, <1>8
    <2>2. left[N - N] < power[N - N] /\ N - N = 0
      BY <2>1, <1>0
    <2>3. QED
      BY <2>2, <1>1, <1>7, <1>0
  <1>10. PICK value :
          /\ value[0] = 0 /\ IndexOf(window) = value[N]
          /\ \A n \in 1 .. N : value[n] = Lanes * value[n - 1] + window[n - 1]
    BY <1>6, IndexIsRead
  <1> DEFINE Read == {n \in Nat : n <= N => value[n] = left[n]}
  <1>11. Nat \subseteq Read
    <2>1. 0 \in Read
      BY <1>9, <1>10
    <2>2. ASSUME NEW n \in Nat, n \in Read PROVE n + 1 \in Read
      <3>1. SUFFICES ASSUME n + 1 <= N PROVE value[n + 1] = left[n + 1]
        OBVIOUS
      <3>2. n \in Slots /\ n + 1 \in 1 .. N /\ (n + 1) - 1 = n /\ n <= N
        BY <3>1, <1>0 DEF Slots
      <3>3. value[n] = left[n]
        BY <2>2, <3>2
      <3>4. value[n + 1] = Lanes * value[n] + window[n]
        BY <3>2, <1>10
      <3>5. QED
        BY <3>2, <3>3, <3>4, <1>4
    <2> HIDE DEF Read
    <2>3. QED
      BY <2>1, <2>2, Induction
  <1>12. value[N] = left[N]
    <2>1. N \in Read
      <3> HIDE DEF Read
      <3>1. QED
        BY <1>0, <1>11
    <2>2. QED
      BY <2>1, <1>0
  <1>13. QED
    BY <1>1, <1>6, <1>10, <1>12 DEF window
-----------------------------------------------------------------------------
(* The inductive invariant.                                                *)

Answers == [Lane -> Codes \cup {None}]
Histories == [wrote : Answers, answer : Answers, edges : 0 .. CycleBound,
              signalled : BOOLEAN, late : BOOLEAN]
Entries == [tokens : [Slots -> Lane], did : Histories]
Signalled == phase \in {"sample", "settle", "judge"}
Released == phase \in {"run", "done", "sample", "settle", "judge"}
Records == [k \in 1 .. Count |-> Oracle[request.indexes[k]]]

(* A port writes one lane at an edge, so with two lanes a case takes a     *)
(* cycle at least.                                                         *)
Latencies == {n \in 0 .. CycleBound : Lanes > 1 => n > 0}

Typed ==
  /\ done \in BOOLEAN /\ write \in Writes
  /\ output \in [Lane -> Codes]
  /\ final_write_mask \subseteq Lane
  /\ late_final_write \in BOOLEAN
  /\ completion_count \in Nat
  /\ phase \in {"read", "reset", "run", "done", "sample", "settle", "judge", "finish", "fatal"}
  /\ ordinal \in 0 .. Count
  /\ case_cycles \in 0 .. CycleBound
  /\ did \in Histories

(* What was asked for, and the files that should hold it.                  *)
Asked ==
  /\ request \in Requests
  /\ oracle \in Damaged(Records)
  /\ contexts \in IF request.sequence THEN Damaged(request.indexes) ELSE {<< >>}

(* The case the bench is at is the one whose record and index it has read. *)
GivenCase ==
  phase = "reset" \/ Released =>
    /\ ordinal < Count
    /\ context_index = request.indexes[ordinal + 1]
    /\ tokens = Window(context_index)
    /\ Expected = Oracle[context_index]

(* What the bench keeps of the design is what the design did.              *)
Watched ==
  /\ phase = "reset" => output = Cleared /\ case_cycles = 0 /\ edges \in Nat
  /\ Released =>
       /\ output = [l \in Lane |-> IF did.wrote[l] = None THEN 0 ELSE did.wrote[l]]
       /\ final_write_mask = {l \in Lane : did.wrote[l] # None}
       /\ late_final_write = did.late
       /\ did.signalled <=> Signalled
       /\ did.edges < CycleBound
  /\ Signalled /\ ~did.late => did.answer = did.wrote

(* Where the bench is between the launch of a case and its verdict.        *)
Launched ==
  /\ phase \in {"run", "done", "sample"} => ~did.late
  /\ phase \in {"run", "done"} => completion_count = 0 /\ did.edges = case_cycles
  /\ phase = "done" => done /\ case_cycles = 0 /\ final_write_mask = {}
  /\ phase = "sample" =>
       /\ completion_count = 1
       /\ case_cycles = 0 => \E lane \in Lane : final_write_mask \subseteq {lane}
  /\ phase \in {"settle", "judge"} =>
       /\ final_write_mask = Lane
       /\ case_cycles \in Latencies /\ completion_count_at_done = 1

LogIsEarned ==
  /\ log \in Seq(Entries) /\ Len(log) = ordinal
  /\ \A k \in 1 .. ordinal :
       /\ log[k].tokens = Window(request.indexes[k])
       /\ log[k].did.signalled /\ log[k].did.edges < CycleBound
       /\ log[k].did.answer = Oracle[request.indexes[k]].codes

(* The record of a case that passed.                                       *)
Passed(k, cycles) ==
  [kind |-> "CASE_PASS", index |-> request.indexes[k], cycles |-> cycles,
   expected |-> Records[k].codes, observed |-> Records[k].codes,
   expected_token |-> Records[k].token, observed_token |-> Records[k].token,
   done |-> TRUE, completion_count |-> 1, within_bound |-> TRUE,
   reset_ordinal |-> k, write_mask |-> Lane]

Extremes(cycles) ==
  ordinal > 0 =>
    /\ \E k \in 1 .. ordinal : min_cycles = cycles[k]
    /\ \E k \in 1 .. ordinal : max_cycles = cycles[k]
    /\ \A k \in 1 .. ordinal : min_cycles <= cycles[k] /\ cycles[k] <= max_cycles

Passes(cycles) == [k \in 1 .. ordinal |-> Passed(k, cycles[k])]

(* The transcript is the records of the cases that passed, and the summary. *)
Written ==
  /\ phase = "finish" => ordinal = Count
  /\ phase # "fatal" =>
       \E cycles \in [1 .. ordinal -> Latencies] :
         /\ Extremes(cycles)
         /\ transcript = IF phase = "finish" THEN Append(Passes(cycles), Summary) ELSE Passes(cycles)

FixtureInv ==
  /\ Typed /\ Asked /\ GivenCase /\ Watched /\ Launched /\ LogIsEarned /\ Written
  /\ FailuresAreEarned
-----------------------------------------------------------------------------
(* The transcript the parser walks through.                                *)

LEMMA AppendIsFunction ==
  ASSUME NEW n \in Nat, NEW f, f = [k \in 1 .. n |-> f[k]], NEW x
  PROVE  /\ Append(f, x) = [k \in 1 .. n + 1 |-> IF k = n + 1 THEN x ELSE f[k]]
         /\ Len(f) = n
  <1> DEFINE S == {f[k] : k \in 1 .. n} \cup {x}
  <1>1. f \in Seq(S) /\ Len(f) = n
    <2>1. f \in [1 .. n -> S]
      OBVIOUS
    <2> HIDE DEF S
    <2>2. QED
      BY <2>1
  <1> HIDE DEF S
  <1>2. Append(f, x) = [k \in 1 .. n + 1 |-> IF k = n + 1 THEN x ELSE f[k]]
    BY <1>1
  <1>3. QED
    BY <1>1, <1>2

(* What has been collected after each line.                                *)
LEMMA CollectedLineByLine ==
  ASSUME NEW S, NEW t \in Seq(S), NEW kinds
  PROVE  \E found \in [0 .. Len(t) -> Seq(S)] :
            /\ found[0] = << >> /\ OfKind(t, kinds) = found[Len(t)]
            /\ \A n \in 1 .. Len(t) :
                 found[n] = IF t[n].kind \in kinds THEN Append(found[n - 1], t[n]) ELSE found[n - 1]
  <1> DEFINE N == Len(t)
             next(n, v) == IF t[n].kind \in kinds THEN Append(v, t[n]) ELSE v
             body(found) ==
               [n \in 0 .. N |-> IF n = 0 THEN << >> ELSE next(n, found[n - 1])]
             Round == [n \in 1 .. N |-> [v \in Seq(S) |-> next(n, v)]]
             found == CHOOSE found : found = body(found)
  <1>0. N \in Nat /\ << >> \in Seq(S) /\ \A n \in 1 .. N : t[n] \in S
    OBVIOUS
  <1>1. Round \in RoundsOf(N, Seq(S))
    BY <1>0 DEF RoundsOf
  <1>2. Courses(N, Seq(S), << >>, Round) # {}
    <2> HIDE DEF Round, N
    <2>1. QED
      BY <1>0, <1>1, Loop, Zenon
  <1>3. PICK f \in [0 .. N -> Seq(S)] : f[0] = << >> /\ \A n \in 1 .. N : f[n] = Round[n][f[n - 1]]
    BY <1>2, Zenon DEF Courses
  <1>4. \A n \in 1 .. N : f[n] = next(n, f[n - 1])
    <2>1. ASSUME NEW n \in 1 .. N PROVE f[n] = next(n, f[n - 1])
      <3>1. f[n - 1] \in Seq(S)
        BY <1>0
      <3> HIDE DEF next
      <3>2. QED
        BY <1>3, <3>1
    <2>2. QED
      BY <2>1
  <1>5. f = body(f)
    <2> HIDE DEF next, N
    <2>1. ASSUME NEW n \in 0 .. N PROVE f[n] = body(f)[n]
      BY <1>3, <1>4
    <2>2. QED
      BY <2>1
  <1>6. found = body(found)
    BY <1>5, Zenon
  <1>7. OfKind(t, kinds) = found[N]
    BY Zenon DEF OfKind
  <1> HIDE DEF found, next, N
  <1>8. found[0] = << >> /\ \A n \in 1 .. N : found[n] = next(n, found[n - 1])
    BY <1>6, <1>0
  <1> DEFINE T == {n \in Nat : n <= N => found[n] \in Seq(S)}
  <1>9. Nat \subseteq T
    <2>1. 0 \in T
      BY <1>8, <1>0
    <2>2. ASSUME NEW n \in Nat, n \in T PROVE n + 1 \in T
      <3>1. SUFFICES ASSUME n + 1 <= N PROVE found[n + 1] \in Seq(S)
        OBVIOUS
      <3>2. n + 1 \in 1 .. N /\ (n + 1) - 1 = n /\ found[n] \in Seq(S)
        BY <2>2, <3>1, <1>0
      <3>3. found[n + 1] = next(n + 1, found[n])
        BY <3>2, <1>8
      <3>4. t[n + 1] \in S
        BY <3>2, <1>0
      <3>5. QED
        BY <3>2, <3>3, <3>4 DEF next
    <2> HIDE DEF T
    <2>3. QED
      BY <2>1, <2>2, Induction
  <1>10. found \in [0 .. N -> Seq(S)]
    <2>1. \A n \in 0 .. N : found[n] \in Seq(S)
      BY <1>9, <1>0
    <2>2. QED
      BY <2>1, <1>6
  <1>11. \A n \in 1 .. Len(t) :
           found[n] = IF t[n].kind \in kinds THEN Append(found[n - 1], t[n]) ELSE found[n - 1]
    BY <1>8 DEF next, N
  <1>12. QED
    BY <1>7, <1>8, <1>10, <1>11 DEF N

(* Collecting from a transcript of which the kind comes first, or last.    *)
LEMMA FirstOnes ==
  ASSUME NEW S, NEW t \in Seq(S), NEW kinds, NEW m \in 0 .. Len(t),
         \A n \in 1 .. m : t[n].kind \in kinds,
         \A n \in m + 1 .. Len(t) : t[n].kind \notin kinds
  PROVE  OfKind(t, kinds) = [k \in 1 .. m |-> t[k]]
  <1>1. PICK found \in [0 .. Len(t) -> Seq(S)] :
            /\ found[0] = << >> /\ OfKind(t, kinds) = found[Len(t)]
            /\ \A n \in 1 .. Len(t) :
                 found[n] = IF t[n].kind \in kinds THEN Append(found[n - 1], t[n]) ELSE found[n - 1]
    BY CollectedLineByLine
  <1> DEFINE most(n) == IF n <= m THEN n ELSE m
             T == {n \in Nat : n <= Len(t) => found[n] = [k \in 1 .. most(n) |-> t[k]]}
  <1>2. 0 \in T
    BY <1>1
  <1>3. ASSUME NEW n \in Nat, n \in T PROVE n + 1 \in T
    <2>1. SUFFICES ASSUME n + 1 <= Len(t) PROVE found[n + 1] = [k \in 1 .. most(n + 1) |-> t[k]]
      OBVIOUS
    <2>2. found[n] = [k \in 1 .. most(n) |-> t[k]] /\ n + 1 \in 1 .. Len(t) /\ (n + 1) - 1 = n
      BY <1>3, <2>1
    <2>3. CASE n + 1 <= m
      <3>1. found[n + 1] = Append(found[n], t[n + 1])
        <4>1. t[n + 1].kind \in kinds
          BY <2>3
        <4>2. QED
          BY <2>2, <4>1, <1>1
      <3>2. found[n] = [k \in 1 .. n |-> found[n][k]]
        BY <2>2, <2>3
      <3>3. Append(found[n], t[n + 1])
              = [k \in 1 .. n + 1 |-> IF k = n + 1 THEN t[n + 1] ELSE found[n][k]]
        BY <3>2, AppendIsFunction
      <3>4. \A k \in 1 .. n : found[n][k] = t[k]
        BY <2>2, <2>3
      <3>5. [k \in 1 .. n + 1 |-> IF k = n + 1 THEN t[n + 1] ELSE found[n][k]]
              = [k \in 1 .. n + 1 |-> t[k]]
        BY <3>4
      <3>6. QED
        BY <3>1, <3>3, <3>5, <2>3
    <2>4. CASE ~(n + 1 <= m)
      <3>1. found[n + 1] = found[n]
        BY <2>2, <2>4, <1>1
      <3>2. most(n + 1) = most(n)
        BY <2>4
      <3>3. QED
        BY <3>1, <3>2, <2>2
    <2>5. QED
      BY <2>3, <2>4
  <1>4. Len(t) \in T
    <2> HIDE DEF T
    <2>1. Len(t) \in Nat
      OBVIOUS
    <2>2. QED
      BY <2>1, <1>2, <1>3, Induction
  <1>5. QED
    BY <1>1, <1>4

LEMMA LastOne ==
  ASSUME NEW S, NEW t \in Seq(S), NEW kinds, Len(t) > 0,
         \A n \in 1 .. Len(t) : t[n].kind \in kinds <=> n = Len(t)
  PROVE  OfKind(t, kinds) = << t[Len(t)] >>
  <1>1. PICK found \in [0 .. Len(t) -> Seq(S)] :
            /\ found[0] = << >> /\ OfKind(t, kinds) = found[Len(t)]
            /\ \A n \in 1 .. Len(t) :
                 found[n] = IF t[n].kind \in kinds THEN Append(found[n - 1], t[n]) ELSE found[n - 1]
    BY CollectedLineByLine
  <1> DEFINE T == {n \in Nat : n < Len(t) => found[n] = << >>}
  <1>2. 0 \in T
    BY <1>1
  <1>3. ASSUME NEW n \in Nat, n \in T PROVE n + 1 \in T
    BY <1>1, <1>3
  <1>4. Len(t) - 1 \in T
    <2> HIDE DEF T
    <2>1. Len(t) - 1 \in Nat
      OBVIOUS
    <2>2. QED
      BY <2>1, <1>2, <1>3, Induction
  <1>5. found[Len(t) - 1] = << >> /\ Len(t) \in 1 .. Len(t)
    BY <1>4
  <1>6. found[Len(t)] = Append(found[Len(t) - 1], t[Len(t)])
    BY <1>1, <1>5
  <1>7. Append(<< >>, t[Len(t)]) = << t[Len(t)] >>
    OBVIOUS
  <1>8. QED
    BY <1>1, <1>5, <1>6, <1>7
LEMMA MinIs ==
  ASSUME NEW T, T \subseteq Int, NEW x \in T, \A y \in T : x <= y
  PROVE  Min(T) = x
  <1>1. Min(T) \in T /\ \A y \in T : Min(T) <= y
    BY Zenon DEF Min
  <1>2. PICK m : m = Min(T)
    OBVIOUS
  <1>3. m \in T /\ m <= x /\ x <= m
    BY <1>1, <1>2, Zenon
  <1>4. m = x
    BY <1>3
  <1>5. QED
    BY <1>2, <1>4

LEMMA MaxIs ==
  ASSUME NEW T, T \subseteq Int, NEW x \in T, \A y \in T : y <= x
  PROVE  Max(T) = x
  <1>1. \A y \in T : x >= y
    OBVIOUS
  <1>2. Max(T) \in T /\ \A y \in T : Max(T) >= y
    BY <1>1, Zenon DEF Max
  <1>3. PICK m : m = Max(T)
    OBVIOUS
  <1>4. m \in T /\ m >= x /\ m <= x
    BY <1>2, <1>3, Zenon
  <1>5. m = x
    BY <1>4
  <1>6. QED
    BY <1>3, <1>5

(* What the files should hold.                                             *)
LEMMA RequestFacts ==
  ASSUME Asked
  PROVE  /\ request.sequence \in BOOLEAN
         /\ request.indexes \in Seq(Nat) /\ Count \in Nat \ {0}
         /\ request.indexes = [k \in 1 .. Count |-> request.indexes[k]]
         /\ \A k \in 1 .. Count :
              /\ request.indexes[k] \in Nat /\ request.indexes[k] < Contexts
              /\ ~request.sequence => request.indexes[k] = Head(request.indexes) + (k - 1)
              /\ Records[k] = Oracle[request.indexes[k]]
              /\ Records[k].codes \in [Lane -> Codes]
              /\ Records[k].token = LowestArgmax(Records[k].codes)
  <1>1. /\ request.sequence \in BOOLEAN
        /\ request.indexes \in Seq(Nat) /\ request.indexes # << >>
        /\ \A k \in DOMAIN request.indexes :
             /\ request.indexes[k] < Contexts
             /\ ~request.sequence => request.indexes[k] = request.indexes[1] + (k - 1)
    BY RequestsAssumption DEF Asked
  <1>2. Count \in Nat \ {0} /\ DOMAIN request.indexes = 1 .. Count
    BY <1>1 DEF Count
  <1>3. request.indexes = [k \in 1 .. Count |-> request.indexes[k]]
    BY <1>1 DEF Count
  <1>4. Contexts \in Nat
    BY ContextsArePower, ContextLengthAssumption
  <1>5. ASSUME NEW k \in 1 .. Count
        PROVE  /\ request.indexes[k] \in Nat /\ request.indexes[k] < Contexts
               /\ ~request.sequence => request.indexes[k] = Head(request.indexes) + (k - 1)
               /\ Records[k] = Oracle[request.indexes[k]]
               /\ Records[k].codes \in [Lane -> Codes]
               /\ Records[k].token = LowestArgmax(Records[k].codes)
    <2>1. request.indexes[k] \in Nat /\ request.indexes[k] < Contexts
      BY <1>1, <1>2
    <2>2. Records[k] = Oracle[request.indexes[k]]
      BY DEF Records
    <2>3. request.indexes[k] \in 0 .. Contexts - 1
      BY <2>1, <1>4
    <2>4. ~request.sequence => request.indexes[k] = Head(request.indexes) + (k - 1)
      <3>1. Head(request.indexes) = request.indexes[1]
        BY <1>1
      <3>2. QED
        BY <3>1, <1>1, <1>2
    <2>5. QED
      BY <2>1, <2>2, <2>3, <2>4, OracleAssumption
  <1>6. QED
    BY <1>1, <1>2, <1>3, <1>5

(* The runner accepts what the bench writes when it finishes.              *)
LEMMA FinishIsAccepted ==
  ASSUME Lanes > 1, FixtureInv, phase = "finish"
  PROVE  Accepts(transcript, request)
  <1> DEFINE t == transcript
             N == Count
  <1>0. /\ N \in Nat \ {0} /\ ordinal = N
        /\ request.sequence \in BOOLEAN
        /\ request.indexes = [k \in 1 .. N |-> request.indexes[k]]
        /\ \A k \in 1 .. N : Records[k].token = LowestArgmax(Records[k].codes)
    BY RequestFacts DEF FixtureInv, Written
  <1>1. PICK cycles \in [1 .. N -> Latencies] :
          Extremes(cycles) /\ t = Append(Passes(cycles), Summary)
    BY <1>0 DEF FixtureInv, Written
  <1>2. Passes(cycles) = [k \in 1 .. N |-> Passes(cycles)[k]]
    BY <1>0 DEF Passes
  <1>3. t = [k \in 1 .. N + 1 |-> IF k = N + 1 THEN Summary ELSE Passes(cycles)[k]]
    BY <1>0, <1>1, <1>2, AppendIsFunction
  <1> HIDE DEF t, N
  <1>4. ASSUME NEW k \in 1 .. N PROVE t[k] = Passed(k, cycles[k])
    <2>1. t[k] = Passes(cycles)[k]
      BY <1>0, <1>3
    <2>2. QED
      BY <2>1, <1>0 DEF Passes
  <1>5. t[N + 1] = Summary
    BY <1>0, <1>3
  <1> DEFINE S == {t[k] : k \in 1 .. N + 1}
  <1>6. t \in Seq(S) /\ Len(t) = N + 1
    <2>1. t \in [1 .. N + 1 -> S]
      BY <1>3
    <2> HIDE DEF S
    <2>2. QED
      BY <2>1, <1>0
  <1> HIDE DEF S
  <1>7. /\ \A k \in 1 .. N : t[k].kind = "CASE_PASS"
        /\ t[N + 1].kind \in Summaries
        /\ "CASE_PASS" \notin Summaries /\ "CASE_PASS" \notin Failures
        /\ \A kind \in Summaries : kind \notin Failures /\ kind # "CASE_PASS"
    <2>1. ASSUME NEW k \in 1 .. N PROVE t[k].kind = "CASE_PASS"
      <3>1. Passed(k, cycles[k]).kind = "CASE_PASS"
        BY DEF Passed
      <3>2. QED
        BY <3>1, <1>4
    <2>2. t[N + 1].kind \in Summaries
      <3>1. Summary.kind = IF request.sequence THEN "SEQUENCE_PASS" ELSE "SHARD_PASS"
        BY DEF Summary
      <3>2. Summary.kind \in Summaries
        BY <3>1 DEF Summaries
      <3>3. QED
        BY <3>2, <1>5
    <2>3. QED
      BY <2>1, <2>2 DEF Summaries, Failures
  <1>8. OfKind(t, Failures) = << >>
    <2>1. 0 \in 0 .. Len(t) /\ \A n \in 1 .. 0 : t[n].kind \in Failures
      BY <1>6, <1>0
    <2>2. \A n \in 0 + 1 .. Len(t) : t[n].kind \notin Failures
      <3>1. ASSUME NEW n \in 1 .. N + 1 PROVE t[n].kind \notin Failures
        BY <1>7, <1>0
      <3>2. QED
        BY <3>1, <1>6
    <2>3. OfKind(t, Failures) = [k \in 1 .. 0 |-> t[k]]
      BY <2>1, <2>2, <1>6, FirstOnes
    <2>4. QED
      BY <2>3
  <1>9. OfKind(t, {"CASE_PASS"}) = [k \in 1 .. N |-> t[k]]
    <2>1. N \in 0 .. Len(t) /\ \A n \in 1 .. N : t[n].kind \in {"CASE_PASS"}
      BY <1>6, <1>0, <1>7
    <2>2. \A n \in N + 1 .. Len(t) : t[n].kind \notin {"CASE_PASS"}
      <3>1. ASSUME NEW n \in N + 1 .. N + 1 PROVE t[n].kind \notin {"CASE_PASS"}
        <4>1. n = N + 1
          BY <1>0
        <4>2. QED
          BY <4>1, <1>7
      <3>2. QED
        BY <3>1, <1>6
    <2>3. QED
      BY <2>1, <2>2, <1>6, FirstOnes
  <1>10. OfKind(t, Summaries) = << Summary >>
    <2>1. \A n \in 1 .. Len(t) : t[n].kind \in Summaries <=> n = Len(t)
      <3>1. ASSUME NEW n \in 1 .. N + 1 PROVE t[n].kind \in Summaries <=> n = N + 1
        BY <1>7, <1>0
      <3>2. QED
        BY <3>1, <1>6
    <2>2. Len(t) > 0
      BY <1>6, <1>0
    <2>3. OfKind(t, Summaries) = << t[Len(t)] >>
      BY <2>1, <2>2, <1>6, LastOne
    <2>4. QED
      BY <2>3, <1>6, <1>5
  <1> DEFINE passes == OfKind(t, {"CASE_PASS"})
             latencies == {passes[k].cycles : k \in DOMAIN passes}
  <1>11. DOMAIN passes = 1 .. N /\ \A k \in 1 .. N : passes[k] = Passed(k, cycles[k])
    BY <1>9, <1>4
  <1> HIDE DEF passes
  <1>12. \A k \in DOMAIN passes : CasePassIsValid(passes[k], k)
    <2>1. ASSUME NEW k \in 1 .. N PROVE CasePassIsValid(Passed(k, cycles[k]), k)
      <3>1. cycles[k] \in 1 .. CycleBound
        BY <1>1, CycleBoundAssumption DEF Latencies
      <3>2. QED
        BY <3>1, <1>0 DEF Passed, CasePassIsValid
    <2>2. QED
      BY <2>1, <1>11
  <1>13. Indexes(passes) = request.indexes
    <2>1. \A k \in 1 .. N : passes[k].index = request.indexes[k]
      BY <1>11 DEF Passed
    <2>2. QED
      BY <2>1, <1>11, <1>0 DEF Indexes
  <1>14. Min(latencies) = min_cycles /\ Max(latencies) = max_cycles
    <2>1. \A k \in 1 .. N : passes[k].cycles = cycles[k] /\ cycles[k] \in Int
      BY <1>11, <1>1, CycleBoundAssumption DEF Passed, Latencies
    <2>2. latencies = {cycles[k] : k \in 1 .. N}
      BY <2>1, <1>11
    <2>3. latencies \subseteq Int
      BY <2>1, <2>2
    <2>4. /\ \E k \in 1 .. N : min_cycles = cycles[k]
          /\ \E k \in 1 .. N : max_cycles = cycles[k]
          /\ \A k \in 1 .. N : min_cycles <= cycles[k] /\ cycles[k] <= max_cycles
      <3>1. ordinal > 0 /\ ordinal = N
        BY <1>0
      <3>2. QED
        BY <3>1, <1>1 DEF Extremes
    <2>5. min_cycles \in latencies /\ max_cycles \in latencies
      BY <2>2, <2>4
    <2>6. \A y \in latencies : min_cycles <= y /\ y <= max_cycles
      BY <2>2, <2>4
    <2> HIDE DEF latencies
    <2>7. QED
      BY <2>3, <2>5, <2>6, MinIs, MaxIs
  <1>15. SummaryMatches(Summary, passes, request)
    <2>1. Summary.count = Len(request.indexes) /\ Summary.completed = Len(request.indexes)
      BY <1>0 DEF Summary, N, Count
    <2>2. Summary.kind = IF request.sequence THEN "SEQUENCE_PASS" ELSE "SHARD_PASS"
      BY DEF Summary
    <2>3. /\ Summary.resets = Len(request.indexes)
          /\ Summary.start = Head(request.indexes)
          /\ Summary.min_cycles = min_cycles /\ Summary.max_cycles = max_cycles
      BY <1>0 DEF Summary, N, Count
    <2>4. QED
      BY <2>1, <2>2, <2>3, <1>14 DEF SummaryMatches
  <1>16. \A i, j \in DOMAIN t : t[i].kind = "CASE_PASS" /\ t[j].kind \in Summaries => i < j
    <2>1. DOMAIN t = 1 .. N + 1
      BY <1>3
    <2>2. ASSUME NEW i \in 1 .. N + 1, NEW j \in 1 .. N + 1,
                 t[i].kind = "CASE_PASS", t[j].kind \in Summaries
          PROVE  i < j
      BY <2>2, <1>7, <1>0
    <2>3. QED
      BY <2>1, <2>2
  <1>17. Len(<< Summary >>) = 1 /\ Head(<< Summary >>) = Summary
    OBVIOUS
  <1>18. QED
    BY <1>8, <1>10, <1>12, <1>13, <1>15, <1>16, <1>17 DEF Accepts, passes, t
-----------------------------------------------------------------------------
(* Every action keeps the invariant.                                       *)

LEMMA MinOfTwo ==
  ASSUME NEW a \in Nat, NEW b \in Nat
  PROVE  Min({a, b}) = IF a <= b THEN a ELSE b
  <1>1. CASE a <= b
    <2>1. \A y \in {a, b} : a <= y
      BY <1>1
    <2>2. Min({a, b}) = a
      BY <2>1, MinIs
    <2>3. QED
      BY <2>2, <1>1
  <1>2. CASE ~(a <= b)
    <2>1. \A y \in {a, b} : b <= y
      BY <1>2
    <2>2. Min({a, b}) = b
      BY <2>1, MinIs
    <2>3. QED
      BY <2>2, <1>2
  <1>3. QED
    BY <1>1, <1>2

LEMMA InitHolds == Init => FixtureInv
  <1>1. SUFFICES ASSUME Init PROVE FixtureInv
    OBVIOUS
  <1>2. Asked
    BY <1>1 DEF Init, Asked, Records, Count
  <1>3. Count \in Nat \ {0}
    BY <1>2, RequestFacts
  <1>4. Nothing \in Histories
    BY CycleBoundAssumption DEF Nothing, Histories, Answers, Silent
  <1>5. Typed
    <2>1. write \in Writes /\ output \in [Lane -> Codes] /\ did \in Histories
      BY <1>1, <1>4, CodesAssumption DEF Init, Writes, Cleared
    <2>2. ordinal \in 0 .. Count /\ case_cycles \in 0 .. CycleBound
      BY <1>1, <1>3, CycleBoundAssumption DEF Init
    <2>3. QED
      BY <1>1, <2>1, <2>2 DEF Init, Typed
  <1>6. GivenCase /\ Watched /\ Launched
    BY <1>1 DEF Init, GivenCase, Watched, Launched, Released, Signalled
  <1>7. LogIsEarned
    BY <1>1 DEF Init, LogIsEarned
  <1>8. Written
    <2>1. << >> \in [1 .. 0 -> Latencies] /\ Passes(<< >>) = << >>
      BY <1>1 DEF Init, Passes
    <2>2. Extremes(<< >>)
      BY <1>1 DEF Init, Extremes
    <2>3. QED
      BY <1>1, <2>1, <2>2 DEF Init, Written
  <1>9. FailuresAreEarned
    BY <1>1 DEF Init, FailuresAreEarned
  <1>10. QED
    BY <1>2, <1>5, <1>6, <1>7, <1>8, <1>9 DEF FixtureInv

(* A step that only moves the bench on writes nothing down.                *)
LEMMA NothingWritten ==
  ASSUME FixtureInv, UNCHANGED <<files, summary, ordinal, log>>,
         phase \notin {"finish", "fatal"},
         phase' # "finish", phase' # "fatal" => UNCHANGED transcript
  PROVE  Asked' /\ LogIsEarned' /\ Written'
  <1>1. request' = request /\ oracle' = oracle /\ contexts' = contexts
    BY DEF files
  <1>2. Asked'
    BY <1>1 DEF FixtureInv, Asked, Records, Count
  <1>3. LogIsEarned'
    BY <1>1 DEF FixtureInv, LogIsEarned
  <1>4. Written'
    <2>1. SUFFICES ASSUME phase' # "fatal"
                   PROVE  \E cycles \in [1 .. ordinal -> Latencies] :
                             Extremes(cycles)' /\ transcript' = Passes(cycles)'
      BY DEF Written
    <2>2. PICK cycles \in [1 .. ordinal -> Latencies] :
             Extremes(cycles) /\ transcript = Passes(cycles)
      BY DEF FixtureInv, Written
    <2>3. Extremes(cycles)' /\ Passes(cycles)' = Passes(cycles)
      BY <1>1, <2>2 DEF Extremes, Passes, Passed, Records, Count, summary
    <2>4. QED
      BY <2>1, <2>2, <2>3
  <1>5. QED
    BY <1>2, <1>3, <1>4

(* A failure recorded with no claim about the design.                      *)
LEMMA FailureIsLast ==
  ASSUME FixtureInv, phase \notin {"finish", "fatal"}, NEW record,
         transcript' = Append(transcript, record)
  PROVE  Last(transcript') = record
  <1>1. PICK cycles \in [1 .. ordinal -> Latencies] : transcript = Passes(cycles)
    BY DEF FixtureInv, Written
  <1>2. ordinal \in Nat
    <2>1. Count \in Nat
      BY RequestFacts DEF FixtureInv
    <2>2. QED
      BY <2>1 DEF FixtureInv, Typed
  <1>3. transcript = [k \in 1 .. ordinal |-> transcript[k]]
    BY <1>1 DEF Passes
  <1>4. transcript' = [k \in 1 .. ordinal + 1 |-> IF k = ordinal + 1 THEN record ELSE transcript[k]]
    BY <1>2, <1>3, AppendIsFunction
  <1>5. Len(transcript') = ordinal + 1
    BY <1>2, <1>4
  <1>6. QED
    BY <1>2, <1>4, <1>5 DEF Last

(* An edge after the reset: what is kept of the design stays what it did.  *)
LEMMA EdgeIsWatched ==
  ASSUME FixtureInv, phase \in {"run", "done", "settle"}, Drive, Latch, Witness
  PROVE  /\ done' \in BOOLEAN /\ write' \in Writes
         /\ output' \in [Lane -> Codes] /\ final_write_mask' \subseteq Lane
         /\ late_final_write' \in BOOLEAN /\ did' \in Histories
         /\ output' = [l \in Lane |-> IF did'.wrote[l] = None THEN 0 ELSE did'.wrote[l]]
         /\ final_write_mask' = {l \in Lane : did'.wrote[l] # None}
         /\ late_final_write' = did'.late
         /\ did'.signalled = (did.signalled \/ done)
         /\ did'.edges = IF did.signalled \/ done THEN did.edges ELSE did.edges + 1
         /\ did'.signalled /\ ~did'.late => did'.answer = did'.wrote
         /\ ~did.signalled => did'.late = did.late
         /\ completion_count' = completion_count + (IF done THEN 1 ELSE 0)
         /\ tokens' = tokens
         /\ (phase # "settle" /\ final_write_mask = {}) => \E lane \in Lane : final_write_mask' \subseteq {lane}
         /\ final_write_mask \subseteq final_write_mask'
  <1>0. /\ Typed /\ did \in Histories /\ did.edges < CycleBound /\ Lanes \in Nat \ {0}
        /\ CycleBound \in Nat \ {0} /\ None \notin Codes /\ 0 \in Lane
    BY LanesAssumption, CycleBoundAssumption, CodesAssumption
       DEF FixtureInv, Typed, Watched, Released, Lane
  <1>1. /\ output = [l \in Lane |-> IF did.wrote[l] = None THEN 0 ELSE did.wrote[l]]
        /\ final_write_mask = {l \in Lane : did.wrote[l] # None}
        /\ late_final_write = did.late
        /\ did.signalled <=> phase = "settle"
        /\ phase = "settle" /\ ~did.late => did.answer = did.wrote
    BY DEF FixtureInv, Watched, Released, Signalled
  <1>2. done' \in BOOLEAN /\ write' \in Writes
    BY DEF Drive
  <1>3. /\ did.wrote \in Answers /\ did.answer \in Answers /\ did.edges \in 0 .. CycleBound
        /\ did.signalled \in BOOLEAN /\ did.late \in BOOLEAN
    BY <1>0 DEF Histories
  <1>4. did.edges + 1 \in Nat /\ Min({did.edges + 1, CycleBound}) = did.edges + 1
    BY <1>0, <1>3, MinOfTwo
  <1>5. PICK wrote : wrote = IF write \in LaneWrites THEN [did.wrote EXCEPT ![write.lane] = write.code]
                             ELSE did.wrote
    OBVIOUS
  <1>6. wrote \in Answers
    BY <1>3, <1>5 DEF LaneWrites, Answers
  <1>7. did' = [wrote |-> wrote,
                answer |-> IF did.signalled THEN did.answer ELSE wrote,
                edges |-> IF did.signalled \/ done THEN did.edges ELSE did.edges + 1,
                signalled |-> did.signalled \/ done,
                late |-> did.late \/ (did.signalled /\ write \in LaneWrites)]
    BY <1>4, <1>5, Zenon DEF Witness
  <1>8. /\ did'.wrote = wrote
        /\ did'.answer = IF did.signalled THEN did.answer ELSE wrote
        /\ did'.edges = IF did.signalled \/ done THEN did.edges ELSE did.edges + 1
        /\ did'.signalled = (did.signalled \/ done)
        /\ did'.late = (did.late \/ (did.signalled /\ write \in LaneWrites))
    BY <1>7, Zenon
  <1>9. did' \in Histories
    <2>1. (IF did.signalled \/ done THEN did.edges ELSE did.edges + 1) \in 0 .. CycleBound
      BY <1>0, <1>3
    <2>2. (IF did.signalled THEN did.answer ELSE wrote) \in Answers
      BY <1>3, <1>6
    <2>3. /\ (did.signalled \/ done) \in BOOLEAN
          /\ (did.late \/ (did.signalled /\ write \in LaneWrites)) \in BOOLEAN
      BY <1>3, <1>0 DEF Typed
    <2>4. QED
      BY <1>6, <1>7, <2>1, <2>2, <2>3, Zenon DEF Histories
  <1>10. completion_count' = completion_count + (IF done THEN 1 ELSE 0) /\ tokens' = tokens
    BY DEF Latch
  <1>11. /\ output' \in [Lane -> Codes] /\ final_write_mask' \subseteq Lane
         /\ output' = [l \in Lane |-> IF wrote[l] = None THEN 0 ELSE wrote[l]]
         /\ final_write_mask' = {l \in Lane : wrote[l] # None}
         /\ final_write_mask \subseteq final_write_mask'
         /\ final_write_mask = {} => \E lane \in Lane : final_write_mask' \subseteq {lane}
    <2>1. CASE write \in LaneWrites
      <3>1. write.lane \in Lane /\ write.code \in Codes
        BY <2>1 DEF LaneWrites
      <3>2. /\ output' = [output EXCEPT ![write.lane] = write.code]
            /\ final_write_mask' = final_write_mask \cup {write.lane}
        BY <2>1 DEF Latch
      <3>3. wrote = [did.wrote EXCEPT ![write.lane] = write.code]
        BY <2>1, <1>5
      <3>4. \A l \in Lane : wrote[l] = IF l = write.lane THEN write.code ELSE did.wrote[l]
        BY <3>3, <3>1, <1>3 DEF Answers
      <3>5. output' \in [Lane -> Codes] /\ final_write_mask' \subseteq Lane
        BY <3>1, <3>2, <1>0 DEF Typed
      <3>6. output' = [l \in Lane |-> IF wrote[l] = None THEN 0 ELSE wrote[l]]
        <4>1. \A l \in Lane : output'[l] = IF wrote[l] = None THEN 0 ELSE wrote[l]
          BY <3>1, <3>2, <3>4, <1>0, <1>1 DEF Typed
        <4>2. QED
          BY <4>1, <3>5
      <3>7. final_write_mask' = {l \in Lane : wrote[l] # None}
        BY <3>1, <3>2, <3>4, <1>0, <1>1
      <3>8. QED
        BY <3>1, <3>2, <3>5, <3>6, <3>7
    <2>2. CASE write \notin LaneWrites
      BY <2>2, <1>0, <1>1, <1>5 DEF Latch, Typed
    <2>3. QED
      BY <2>1, <2>2
  <1>12. late_final_write' = did'.late
    <2>1. CASE write \in LaneWrites
      <3>1. late_final_write' = (late_final_write \/ phase = "settle")
        BY <2>1 DEF Latch, Late, Settling
      <3>2. did'.late = (did.late \/ did.signalled)
        BY <2>1, <1>8, <1>3
      <3>3. QED
        BY <3>1, <3>2, <1>1, <1>3, <1>0 DEF Typed
    <2>2. CASE write \notin LaneWrites
      <3>1. late_final_write' = late_final_write
        BY <2>2 DEF Latch
      <3>2. did'.late = did.late
        BY <2>2, <1>8, <1>3
      <3>3. QED
        BY <3>1, <3>2, <1>1
    <2>3. QED
      BY <2>1, <2>2
  <1>13. did'.signalled /\ ~did'.late => did'.answer = did'.wrote
    <2>1. CASE did.signalled
      <3>1. SUFFICES ASSUME ~did'.late PROVE did'.answer = did'.wrote
        OBVIOUS
      <3>2. ~did.late /\ write \notin LaneWrites
        BY <3>1, <2>1, <1>8
      <3>3. did'.answer = did.answer /\ did'.wrote = did.wrote
        BY <3>2, <2>1, <1>5, <1>8
      <3>4. QED
        BY <3>2, <3>3, <2>1, <1>1
    <2>2. CASE ~did.signalled
      BY <2>2, <1>8
    <2>3. QED
      BY <2>1, <2>2
  <1>14. ~did.signalled => did'.late = did.late
    BY <1>8, <1>3
  <1>15. late_final_write' \in BOOLEAN
    BY <1>9, <1>12 DEF Histories
  <1>16. QED
    BY <1>2, <1>8, <1>9, <1>10, <1>11, <1>12, <1>13, <1>14, <1>15
LEMMA ResetEdgeKeeps == FixtureInv /\ ResetEdge => FixtureInv'
  <1>1. SUFFICES ASSUME FixtureInv, ResetEdge PROVE FixtureInv'
    OBVIOUS
  <1>2. /\ phase = "reset" /\ phase' \in {"reset", "run", "done"}
        /\ phase' = "done" => done'
        /\ done' \in BOOLEAN /\ write' \in Writes /\ did' = Nothing
        /\ final_write_mask' = {} /\ late_final_write' = FALSE /\ completion_count' = 0
        /\ tokens' = tokens /\ output' = output /\ edges' = edges - 1
        /\ phase' = "reset" => edges > 1
        /\ UNCHANGED <<case, summary, files, transcript, log>>
    BY <1>1 DEF ResetEdge, Drive, ResetMemories
  <1>3. /\ request' = request /\ oracle' = oracle
        /\ ordinal' = ordinal /\ context_index' = context_index /\ case_cycles' = case_cycles
    BY <1>2 DEF case, files
  <1>4. Asked' /\ LogIsEarned' /\ Written'
    BY <1>1, <1>2, <1>3, NothingWritten
  <1>5. Typed /\ output = Cleared /\ case_cycles = 0 /\ edges \in Nat /\ CycleBound \in Nat \ {0}
    BY <1>1, <1>2, CycleBoundAssumption DEF FixtureInv, Watched
  <1>6. Nothing \in Histories
    BY <1>5 DEF Nothing, Histories, Answers, Silent
  <1>7. Typed'
    BY <1>2, <1>3, <1>5, <1>6 DEF Typed, Count
  <1>8. GivenCase'
    BY <1>1, <1>2, <1>3 DEF FixtureInv, GivenCase, Released, Expected, Count
  <1>9. Watched'
    <2>1. /\ did'.wrote = Silent /\ did'.signalled = FALSE /\ did'.late = FALSE /\ did'.edges = 0
      BY <1>2 DEF Nothing
    <2>2. \A l \in Lane : Silent[l] = None
      BY DEF Silent
    <2>3. output' = [l \in Lane |-> IF did'.wrote[l] = None THEN 0 ELSE did'.wrote[l]]
      BY <1>2, <1>5, <2>1, <2>2 DEF Cleared
    <2>4. final_write_mask' = {l \in Lane : did'.wrote[l] # None}
      BY <1>2, <2>1, <2>2
    <2>5. phase' = "reset" => output' = Cleared /\ case_cycles' = 0 /\ edges' \in Nat
      BY <1>2, <1>3, <1>5
    <2>6. ~Signalled' /\ late_final_write' = did'.late /\ did'.edges < CycleBound
      <3>1. ~Signalled'
        BY <1>2 DEF Signalled
      <3>2. late_final_write' = did'.late
        BY <1>2, <2>1
      <3>3. did'.edges < CycleBound
        BY <1>5, <2>1
      <3>4. QED
        BY <3>1, <3>2, <3>3
    <2>7. QED
      BY <2>1, <2>3, <2>4, <2>5, <2>6 DEF Watched
  <1>10. Launched'
    <2>1. did'.late = FALSE /\ did'.edges = 0
      BY <1>2 DEF Nothing
    <2>2. QED
      BY <1>2, <1>3, <1>5, <2>1 DEF Launched
  <1>11. FailuresAreEarned'
    BY <1>2 DEF FailuresAreEarned
  <1>12. QED
    BY <1>4, <1>7, <1>8, <1>9, <1>10, <1>11 DEF FixtureInv

(* What an edge of a running case leaves as it was.                        *)
LEMMA EdgeKeepsCase ==
  ASSUME FixtureInv, phase \in {"run", "done", "settle"}, tokens' = tokens,
         UNCHANGED <<ordinal, context_index, files>>
  PROVE  GivenCase'
  BY DEF FixtureInv, GivenCase, Released, Expected, Count, files

LEMMA RunEdgeKeeps == FixtureInv /\ RunEdge => FixtureInv'
  <1>1. SUFFICES ASSUME FixtureInv, RunEdge PROVE FixtureInv'
    OBVIOUS
  <1>2. /\ phase = "run" /\ Drive /\ Latch /\ Witness /\ case_cycles' = case_cycles + 1
        /\ UNCHANGED <<edges, ordinal, context_index, completion_count_at_done, summary, files, log>>
        /\ \/ write = Immutable /\ ImmutableWrite
           \/ write # Immutable /\ done /\ phase' = "sample" /\ UNCHANGED transcript
           \/ write # Immutable /\ ~done /\ BoundReached /\ CaseFail("TIMEOUT")
           \/ /\ write # Immutable /\ ~done /\ ~BoundReached
              /\ phase' = phase /\ transcript' = transcript
    BY <1>1 DEF RunEdge, Cycle
  <1>3. /\ Typed /\ ~did.signalled /\ ~did.late /\ did.edges = case_cycles
        /\ did.edges < CycleBound /\ completion_count = 0 /\ CycleBound \in Nat \ {0}
        /\ case_cycles \in Nat
    BY <1>1, <1>2, CycleBoundAssumption
       DEF FixtureInv, Typed, Watched, Launched, Released, Signalled
  <1>4. /\ done' \in BOOLEAN /\ write' \in Writes
        /\ output' \in [Lane -> Codes] /\ final_write_mask' \subseteq Lane
        /\ late_final_write' \in BOOLEAN /\ did' \in Histories
        /\ output' = [l \in Lane |-> IF did'.wrote[l] = None THEN 0 ELSE did'.wrote[l]]
        /\ final_write_mask' = {l \in Lane : did'.wrote[l] # None}
        /\ late_final_write' = did'.late
        /\ did'.signalled = (did.signalled \/ done)
        /\ did'.edges = IF did.signalled \/ done THEN did.edges ELSE did.edges + 1
        /\ did'.signalled /\ ~did'.late => did'.answer = did'.wrote
        /\ ~did.signalled => did'.late = did.late
        /\ completion_count' = completion_count + (IF done THEN 1 ELSE 0)
        /\ tokens' = tokens
    BY <1>1, <1>2, EdgeIsWatched
  <1>5. request' = request /\ ordinal' = ordinal
    BY <1>2 DEF files
  <1>6. phase' \in {"run", "sample", "fatal"}
    BY <1>2 DEF ImmutableWrite, CaseFail, Fatal
  <1>7. Asked' /\ LogIsEarned' /\ Written'
    <2>1. phase' # "fatal" => UNCHANGED transcript
      BY <1>2 DEF ImmutableWrite, CaseFail, Fatal
    <2>2. QED
      BY <1>1, <1>2, <1>6, <2>1, NothingWritten
  <1>8. case_cycles' \in 0 .. CycleBound /\ completion_count' \in Nat
    BY <1>2, <1>3, <1>4
  <1>9. Typed'
    BY <1>3, <1>4, <1>5, <1>6, <1>8 DEF Typed, Count
  <1>10. GivenCase'
    BY <1>1, <1>2, <1>4, EdgeKeepsCase
  <1>11. phase' = "run" => ~done /\ case_cycles' < CycleBound
    BY <1>2, <1>3 DEF ImmutableWrite, CaseFail, Fatal, BoundReached
  <1>12. phase' = "sample" => done
    BY <1>2 DEF ImmutableWrite, CaseFail, Fatal
  <1>13. Watched'
    <2>1. phase' \in {"run", "sample"} => did'.edges < CycleBound
      BY <1>2, <1>3, <1>4, <1>11, <1>12
    <2>2. phase' \in {"run", "sample"} => (did'.signalled <=> phase' = "sample")
      BY <1>3, <1>4, <1>11, <1>12
    <2>3. QED
      BY <1>4, <1>6, <2>1, <2>2 DEF Watched, Released, Signalled
  <1>14. Launched'
    <2>1. case_cycles' # 0
      BY <1>2, <1>3
    <2>2. phase' = "run" => completion_count' = 0 /\ did'.edges = case_cycles'
      BY <1>2, <1>3, <1>4, <1>11
    <2>3. phase' = "sample" => completion_count' = 1
      BY <1>3, <1>4, <1>12
    <2>4. ~did'.late
      BY <1>3, <1>4
    <2>5. QED
      BY <1>6, <2>1, <2>2, <2>3, <2>4 DEF Launched
  <1>15. FailuresAreEarned'
    <2>1. CASE write = Immutable
      <3>1. transcript' = Append(transcript, [kind |-> "IMMUTABLE_WRITE"])
        BY <1>2, <2>1 DEF ImmutableWrite, Fatal
      <3>2. Last(transcript') = [kind |-> "IMMUTABLE_WRITE"]
        BY <1>1, <1>2, <3>1, FailureIsLast
      <3>3. Last(transcript').kind # "CASE_FAIL"
        BY <3>2
      <3>4. QED
        BY <3>3 DEF FailuresAreEarned
    <2>2. CASE write # Immutable /\ phase' = "fatal"
      <3> DEFINE record == [kind |-> "CASE_FAIL", index |-> context_index, reason |-> "TIMEOUT"]
      <3>1. ~done /\ case_cycles' >= CycleBound /\ transcript' = Append(transcript, record)
        BY <1>2, <2>2 DEF BoundReached, CaseFail, Fatal
      <3>2. Last(transcript') = record
        BY <1>1, <1>2, <3>1, FailureIsLast
      <3>3. Last(transcript').reason = "TIMEOUT"
        BY <3>2
      <3>4. ~did'.signalled /\ did'.edges = CycleBound
        BY <1>2, <1>3, <1>4, <1>8, <3>1
      <3>5. QED
        BY <3>3, <3>4 DEF FailuresAreEarned
    <2>3. CASE phase' # "fatal"
      BY <2>3 DEF FailuresAreEarned
    <2>4. QED
      BY <2>1, <2>2, <2>3
  <1>16. QED
    BY <1>7, <1>9, <1>10, <1>13, <1>14, <1>15 DEF FixtureInv
LEMMA LaunchEdgeKeeps == FixtureInv /\ LaunchEdge => FixtureInv'
  <1>1. SUFFICES ASSUME FixtureInv, LaunchEdge PROVE FixtureInv'
    OBVIOUS
  <1>2. /\ phase = "done" /\ Drive /\ Latch /\ Witness
        /\ UNCHANGED <<edges, case, summary, files, log>>
        /\ \/ write = Immutable /\ ImmutableWrite
           \/ write # Immutable /\ phase' = "sample" /\ transcript' = transcript
    BY <1>1 DEF LaunchEdge
  <1>3. /\ Typed /\ done /\ ~did.signalled /\ ~did.late /\ did.edges < CycleBound
        /\ completion_count = 0 /\ final_write_mask = {}
    BY <1>1, <1>2 DEF FixtureInv, Watched, Launched, Released, Signalled
  <1>4. /\ done' \in BOOLEAN /\ write' \in Writes
        /\ output' \in [Lane -> Codes] /\ final_write_mask' \subseteq Lane
        /\ late_final_write' \in BOOLEAN /\ did' \in Histories
        /\ output' = [l \in Lane |-> IF did'.wrote[l] = None THEN 0 ELSE did'.wrote[l]]
        /\ final_write_mask' = {l \in Lane : did'.wrote[l] # None}
        /\ late_final_write' = did'.late
        /\ did'.signalled = (did.signalled \/ done)
        /\ did'.edges = IF did.signalled \/ done THEN did.edges ELSE did.edges + 1
        /\ did'.signalled /\ ~did'.late => did'.answer = did'.wrote
        /\ ~did.signalled => did'.late = did.late
        /\ completion_count' = completion_count + (IF done THEN 1 ELSE 0)
        /\ tokens' = tokens
        /\ \E lane \in Lane : final_write_mask' \subseteq {lane}
    BY <1>1, <1>2, <1>3, EdgeIsWatched
  <1>5. /\ request' = request /\ ordinal' = ordinal /\ context_index' = context_index
        /\ case_cycles' = case_cycles
    BY <1>2 DEF files, case
  <1>6. phase' \in {"sample", "fatal"}
    BY <1>2 DEF ImmutableWrite, Fatal
  <1>7. Asked' /\ LogIsEarned' /\ Written'
    <2>1. phase' # "fatal" => UNCHANGED transcript
      BY <1>2 DEF ImmutableWrite, Fatal
    <2>2. QED
      BY <1>1, <1>2, <1>5, <1>6, <2>1, NothingWritten
  <1>8. completion_count' = 1 /\ did'.edges < CycleBound /\ did'.signalled /\ ~did'.late
    <2>1. completion_count' = 1
      BY <1>3, <1>4
    <2>2. did'.signalled
      BY <1>3, <1>4
    <2>3. did'.edges < CycleBound /\ ~did'.late
      BY <1>3, <1>4
    <2>4. QED
      BY <2>1, <2>2, <2>3
  <1>9. Typed'
    BY <1>3, <1>4, <1>5, <1>6, <1>8 DEF Typed, Count
  <1>10. GivenCase'
    BY <1>1, <1>2, <1>4, <1>5, EdgeKeepsCase
  <1>11. Watched'
    BY <1>4, <1>6, <1>8 DEF Watched, Released, Signalled
  <1>12. Launched'
    BY <1>4, <1>6, <1>8 DEF Launched
  <1>13. FailuresAreEarned'
    <2>1. CASE write = Immutable
      <3>1. transcript' = Append(transcript, [kind |-> "IMMUTABLE_WRITE"])
        BY <1>2, <2>1 DEF ImmutableWrite, Fatal
      <3>2. Last(transcript') = [kind |-> "IMMUTABLE_WRITE"]
        BY <1>1, <1>2, <3>1, FailureIsLast
      <3>3. Last(transcript').kind # "CASE_FAIL"
        BY <3>2
      <3>4. QED
        BY <3>3 DEF FailuresAreEarned
    <2>2. CASE write # Immutable
      BY <1>2, <2>2 DEF FailuresAreEarned
    <2>3. QED
      BY <2>1, <2>2
  <1>14. QED
    BY <1>7, <1>9, <1>10, <1>11, <1>12, <1>13 DEF FixtureInv

LEMMA SettleEdgeKeeps == FixtureInv /\ SettleEdge => FixtureInv'
  <1>1. SUFFICES ASSUME FixtureInv, SettleEdge PROVE FixtureInv'
    OBVIOUS
  <1>2. /\ phase = "settle" /\ Drive /\ Latch /\ Witness
        /\ UNCHANGED <<case, summary, files, log>>
        /\ \/ write = Immutable /\ ImmutableWrite
           \/ write # Immutable /\ phase' \in {"settle", "judge"} /\ transcript' = transcript
    BY <1>1 DEF SettleEdge, Settling
  <1>3. /\ Typed /\ did.signalled /\ did.edges < CycleBound
        /\ final_write_mask = Lane /\ case_cycles \in Latencies /\ completion_count_at_done = 1
        /\ completion_count \in Nat
    BY <1>1, <1>2 DEF FixtureInv, Typed, Watched, Launched, Released, Signalled
  <1>4. /\ done' \in BOOLEAN /\ write' \in Writes
        /\ output' \in [Lane -> Codes] /\ final_write_mask' \subseteq Lane
        /\ late_final_write' \in BOOLEAN /\ did' \in Histories
        /\ output' = [l \in Lane |-> IF did'.wrote[l] = None THEN 0 ELSE did'.wrote[l]]
        /\ final_write_mask' = {l \in Lane : did'.wrote[l] # None}
        /\ late_final_write' = did'.late
        /\ did'.signalled = (did.signalled \/ done)
        /\ did'.edges = IF did.signalled \/ done THEN did.edges ELSE did.edges + 1
        /\ did'.signalled /\ ~did'.late => did'.answer = did'.wrote
        /\ completion_count' = completion_count + (IF done THEN 1 ELSE 0)
        /\ tokens' = tokens
        /\ final_write_mask \subseteq final_write_mask'
    BY <1>1, <1>2, EdgeIsWatched
  <1>5. /\ request' = request /\ ordinal' = ordinal /\ context_index' = context_index
        /\ case_cycles' = case_cycles /\ completion_count_at_done' = completion_count_at_done
    BY <1>2 DEF files, case
  <1>6. phase' \in {"settle", "judge", "fatal"}
    BY <1>2 DEF ImmutableWrite, Fatal
  <1>7. Asked' /\ LogIsEarned' /\ Written'
    <2>1. phase' # "fatal" => UNCHANGED transcript
      BY <1>2 DEF ImmutableWrite, Fatal
    <2>2. QED
      BY <1>1, <1>2, <1>5, <1>6, <2>1, NothingWritten
  <1>8. did'.edges < CycleBound /\ did'.signalled /\ final_write_mask' = Lane
    BY <1>3, <1>4
  <1>9. completion_count' \in Nat
    BY <1>3, <1>4
  <1>10. Typed'
    BY <1>3, <1>4, <1>5, <1>6, <1>9 DEF Typed, Count
  <1>11. GivenCase'
    BY <1>1, <1>2, <1>4, <1>5, EdgeKeepsCase
  <1>12. Watched'
    BY <1>4, <1>6, <1>8 DEF Watched, Released, Signalled
  <1>13. Launched'
    BY <1>3, <1>5, <1>6, <1>8 DEF Launched
  <1>14. FailuresAreEarned'
    <2>1. CASE write = Immutable
      <3>1. transcript' = Append(transcript, [kind |-> "IMMUTABLE_WRITE"])
        BY <1>2, <2>1 DEF ImmutableWrite, Fatal
      <3>2. Last(transcript') = [kind |-> "IMMUTABLE_WRITE"]
        BY <1>1, <1>2, <3>1, FailureIsLast
      <3>3. Last(transcript').kind # "CASE_FAIL"
        BY <3>2
      <3>4. QED
        BY <3>3 DEF FailuresAreEarned
    <2>2. CASE write # Immutable
      BY <1>2, <2>2 DEF FailuresAreEarned
    <2>3. QED
      BY <2>1, <2>2
  <1>15. QED
    BY <1>7, <1>10, <1>11, <1>12, <1>13, <1>14 DEF FixtureInv

(* A damaged payload is still a sequence.                                  *)
LEMMA DamagedIsSequence ==
  ASSUME NEW S, NEW payload \in Seq(S), NEW p \in Damaged(payload), Len(payload) > 0
  PROVE  Len(p) \in Nat
  <1>1. CASE p = payload
    BY <1>1
  <1>2. CASE p = Front(payload)
    <2>1. p = SubSeq(payload, 1, Len(payload) - 1) /\ Len(payload) - 1 \in Nat
      BY <1>2 DEF Front
    <2>2. QED
      BY <2>1
  <1>3. CASE p = Append(payload, Malformed)
    <2>1. payload \in Seq(S \cup {Malformed})
      OBVIOUS
    <2>2. QED
      BY <1>3, <2>1
  <1>4. CASE \E k \in DOMAIN payload : p = [payload EXCEPT ![k] = Malformed]
    <2>0. payload \in [1 .. Len(payload) -> S]
      OBVIOUS
    <2>1. p \in [1 .. Len(payload) -> S \cup {Malformed}]
      BY <1>4, <2>0
    <2>2. Len(payload) \in Nat
      OBVIOUS
    <2>3. QED
      BY <2>1, <2>2
  <1>5. QED
    BY <1>1, <1>2, <1>3, <1>4 DEF Damaged

(* An entry that is there and not broken is the one that should be there.  *)
LEMMA EntryIsRight ==
  ASSUME NEW S, NEW payload \in Seq(S), NEW p \in Damaged(payload),
         NEW n \in 1 .. Len(payload), n <= Len(p), p[n] # Malformed
  PROVE  p[n] = payload[n]
  <1>1. CASE p = payload
    BY <1>1
  <1>2. CASE p = Front(payload)
    <2>1. p = SubSeq(payload, 1, Len(payload) - 1) /\ Len(payload) - 1 \in Nat
      BY <1>2 DEF Front
    <2>2. Len(p) = Len(payload) - 1
      BY <2>1
    <2>3. QED
      BY <2>1, <2>2
  <1>3. CASE p = Append(payload, Malformed)
    <2>1. payload = [k \in 1 .. Len(payload) |-> payload[k]] /\ Len(payload) \in Nat
      OBVIOUS
    <2>2. Append(payload, Malformed)
            = [k \in 1 .. Len(payload) + 1 |-> IF k = Len(payload) + 1 THEN Malformed ELSE payload[k]]
      BY <2>1, AppendIsFunction
    <2>3. QED
      BY <1>3, <2>1, <2>2
  <1>4. CASE \E k \in DOMAIN payload : p = [payload EXCEPT ![k] = Malformed]
    <2>1. PICK k \in DOMAIN payload : p = [payload EXCEPT ![k] = Malformed]
      BY <1>4
    <2>2. n \in DOMAIN payload
      OBVIOUS
    <2>3. p[n] = IF n = k THEN Malformed ELSE payload[n]
      BY <2>1, <2>2
    <2>4. QED
      BY <2>3
  <1>5. QED
    BY <1>1, <1>2, <1>3, <1>4 DEF Damaged

LEMMA ReadCaseKeeps == FixtureInv /\ ReadCase => FixtureInv'
  <1>1. SUFFICES ASSUME FixtureInv, ReadCase PROVE FixtureInv'
    OBVIOUS
  <1>2. /\ phase = "read" /\ ordinal < Count /\ phase' = "reset" /\ edges' = 3
        /\ request.sequence => Entry(contexts)
        /\ Entry(oracle)
        /\ context_index' = NextIndex /\ tokens' = Window(NextIndex)
        /\ output' = Cleared /\ case_cycles' = 0
        /\ UNCHANGED <<design, final_write_mask, late_final_write, completion_count,
                       ordinal, summary, files, transcript, did, log>>
    BY <1>1 DEF ReadCase
  <1>3. /\ request' = request /\ oracle' = oracle /\ contexts' = contexts
        /\ done' = done /\ write' = write
    BY <1>2 DEF files, design
  <1>4. /\ Asked /\ Typed /\ Count \in Nat \ {0} /\ request.indexes \in Seq(Nat)
        /\ request.sequence \in BOOLEAN /\ CycleBound \in Nat \ {0} /\ 0 \in Codes
    BY <1>1, RequestFacts, CycleBoundAssumption, CodesAssumption DEF FixtureInv
  <1>5. ordinal + 1 \in 1 .. Count /\ ordinal \in Nat
    BY <1>2, <1>4 DEF Typed
  <1>6. NextIndex = request.indexes[ordinal + 1]
    <2>1. CASE request.sequence
      <3>1. contexts \in Damaged(request.indexes)
        BY <2>1, <1>4 DEF Asked
      <3>2. contexts[ordinal + 1] # Malformed /\ ordinal < Len(contexts)
        BY <2>1, <1>2 DEF Entry
      <3>3. ordinal + 1 <= Len(contexts)
        <4>1. Len(contexts) \in Nat
          BY <3>1, <1>4, DamagedIsSequence
        <4>2. QED
          BY <3>2, <4>1, <1>5
      <3>4. contexts[ordinal + 1] = request.indexes[ordinal + 1]
        BY <3>1, <3>2, <3>3, <1>4, <1>5, EntryIsRight DEF Count
      <3>5. QED
        BY <2>1, <3>4 DEF NextIndex
    <2>2. CASE ~request.sequence
      <3>1. request.indexes[ordinal + 1] = Head(request.indexes) + ((ordinal + 1) - 1)
        BY <2>2, <1>4, <1>5, RequestFacts
      <3>2. (ordinal + 1) - 1 = ordinal
        BY <1>5
      <3>3. QED
        BY <2>2, <3>1, <3>2 DEF NextIndex
    <2>3. QED
      BY <2>1, <2>2
  <1>7. Expected = Oracle[request.indexes[ordinal + 1]]
    <2> DEFINE S == {Records[k] : k \in 1 .. Count}
    <2>1. Records \in Seq(S) /\ Len(Records) = Count
      <3>1. Records \in [1 .. Count -> S]
        BY DEF Records
      <3>2. Count \in Nat
        BY <1>4
      <3> HIDE DEF S
      <3>3. QED
        BY <3>1, <3>2
    <2> HIDE DEF S
    <2>2. oracle \in Damaged(Records)
      BY <1>4 DEF Asked
    <2>3. oracle[ordinal + 1] # Malformed /\ ordinal < Len(oracle)
      BY <1>2 DEF Entry
    <2>4. ordinal + 1 <= Len(oracle)
      <3>1. Len(oracle) \in Nat
        BY <2>1, <2>2, <1>4, DamagedIsSequence
      <3>2. QED
        BY <3>1, <2>3, <1>5
    <2>5. oracle[ordinal + 1] = Records[ordinal + 1]
      BY <2>1, <2>2, <2>3, <2>4, <1>5, EntryIsRight
    <2>6. QED
      BY <2>5, <1>4, <1>5, RequestFacts DEF Expected
  <1>8. Asked' /\ LogIsEarned' /\ Written'
    BY <1>1, <1>2, NothingWritten
  <1>9. Typed'
    <2>1. output' \in [Lane -> Codes]
      BY <1>2, <1>4 DEF Cleared
    <2>2. QED
      BY <1>2, <1>3, <1>4, <2>1 DEF Typed, Count
  <1>10. GivenCase'
    BY <1>2, <1>3, <1>6, <1>7 DEF GivenCase, Released, Expected, Count
  <1>11. Watched' /\ Launched' /\ FailuresAreEarned'
    BY <1>2 DEF Watched, Launched, Released, Signalled, FailuresAreEarned
  <1>12. QED
    BY <1>8, <1>9, <1>10, <1>11 DEF FixtureInv
(* A case that fails at a falling edge: the reason given has its cause.    *)
LEMMA FailureKeeps ==
  ASSUME FixtureInv, phase \notin {"finish", "fatal"}, NEW reason, CaseFail(reason),
         UNCHANGED <<design, memories, ordinal, case_cycles, summary, files, did, log>>,
         reason # "TIMEOUT",
         reason = "MISSING_FINAL_WRITE" => \E l \in Lane : did.answer[l] = None,
         reason = "LATE_FINAL_WRITE" => did.late,
         reason = "RAW_CODE" => did.answer # Expected.codes
  PROVE  FixtureInv'
  <1> DEFINE record == [kind |-> "CASE_FAIL", index |-> context_index, reason |-> reason]
  <1>1. phase' = "fatal" /\ transcript' = Append(transcript, record)
    BY DEF CaseFail, Fatal
  <1>2. /\ request' = request /\ oracle' = oracle
        /\ done' = done /\ write' = write /\ output' = output
        /\ final_write_mask' = final_write_mask /\ late_final_write' = late_final_write
        /\ completion_count' = completion_count
    BY DEF design, memories, files
  <1>3. Last(transcript') = record
    BY <1>1, FailureIsLast
  <1>4. Last(transcript').reason = reason
    BY <1>3
  <1>5. Expected' = Expected
    BY <1>2 DEF Expected
  <1>6. FailuresAreEarned'
    BY <1>4, <1>5 DEF FailuresAreEarned
  <1>7. Asked' /\ LogIsEarned' /\ Written'
    BY <1>1, NothingWritten
  <1>8. Typed'
    BY <1>1, <1>2 DEF FixtureInv, Typed, Count
  <1>9. GivenCase' /\ Watched' /\ Launched'
    BY <1>1 DEF GivenCase, Watched, Launched, Released, Signalled
  <1>10. QED
    BY <1>6, <1>7, <1>8, <1>9 DEF FixtureInv

LEMMA RefuseCaseKeeps == FixtureInv /\ RefuseCase => FixtureInv'
  <1>1. SUFFICES ASSUME FixtureInv, RefuseCase PROVE FixtureInv'
    OBVIOUS
  <1>2. /\ phase = "read"
        /\ UNCHANGED <<design, memories, ordinal, case_cycles, summary, files, did, log>>
        /\ CaseFail("CONTEXT_INDEX") \/ CaseFail("ORACLE_RECORD")
    BY <1>1 DEF RefuseCase, case
  <1>3. QED
    BY <1>1, <1>2, FailureKeeps

LEMMA CondemnKeeps == FixtureInv /\ Condemn => FixtureInv'
  <1>1. SUFFICES ASSUME FixtureInv, Condemn PROVE FixtureInv'
    OBVIOUS
  <1>2. /\ phase = "judge"
        /\ UNCHANGED <<design, memories, ordinal, case_cycles, summary, files, did, log>>
        /\ \/ late_final_write /\ CaseFail("LATE_FINAL_WRITE")
           \/ ~late_final_write /\ output # Expected.codes /\ CaseFail("RAW_CODE")
    BY <1>1 DEF Condemn, case
  <1>3. /\ late_final_write = did.late
        /\ ~did.late => did.answer = did.wrote
        /\ output = [l \in Lane |-> IF did.wrote[l] = None THEN 0 ELSE did.wrote[l]]
        /\ final_write_mask = {l \in Lane : did.wrote[l] # None} /\ final_write_mask = Lane
        /\ did \in Histories
    BY <1>1, <1>2 DEF FixtureInv, Typed, Watched, Launched, Released, Signalled
  <1>4. did.wrote \in [Lane -> Codes \cup {None}]
    BY <1>3 DEF Histories, Answers
  <1>5. output = did.wrote
    BY <1>3, <1>4
  <1>6. CASE late_final_write /\ CaseFail("LATE_FINAL_WRITE")
    BY <1>1, <1>2, <1>3, <1>6, FailureKeeps
  <1>7. CASE ~late_final_write /\ output # Expected.codes /\ CaseFail("RAW_CODE")
    <2>1. did.answer # Expected.codes
      BY <1>3, <1>5, <1>7
    <2>2. QED
      BY <1>1, <1>2, <1>7, <2>1, FailureKeeps
  <1>8. QED
    BY <1>2, <1>6, <1>7

LEMMA SampleKeeps == FixtureInv /\ Sample => FixtureInv'
  <1>1. SUFFICES ASSUME FixtureInv, Sample PROVE FixtureInv'
    OBVIOUS
  <1>2. /\ phase = "sample" /\ completion_count_at_done' = completion_count
        /\ UNCHANGED <<design, memories, ordinal, context_index, case_cycles, summary, files, did, log>>
        /\ \/ final_write_mask # Lane /\ CaseFail("MISSING_FINAL_WRITE")
           \/ final_write_mask = Lane /\ phase' = "settle" /\ transcript' = transcript
    BY <1>1 DEF Sample
  <1>3. /\ Typed /\ ~did.late /\ completion_count = 1
        /\ did.answer = did.wrote
        /\ final_write_mask = {l \in Lane : did.wrote[l] # None}
        /\ case_cycles = 0 => \E lane \in Lane : final_write_mask \subseteq {lane}
    BY <1>1, <1>2 DEF FixtureInv, Watched, Launched, Released, Signalled
  <1>4. CASE final_write_mask # Lane /\ CaseFail("MISSING_FINAL_WRITE")
    <2>1. \E l \in Lane : did.answer[l] = None
      BY <1>3, <1>4
    <2>2. UNCHANGED <<design, memories, ordinal, case_cycles, summary, files, did, log>>
      BY <1>2
    <2>3. QED
      BY <1>1, <1>2, <1>4, <2>1, <2>2, FailureKeeps
  <1>5. CASE final_write_mask = Lane /\ phase' = "settle" /\ transcript' = transcript
    <2>1. /\ request' = request /\ oracle' = oracle
          /\ done' = done /\ write' = write /\ output' = output /\ tokens' = tokens
          /\ final_write_mask' = final_write_mask /\ late_final_write' = late_final_write
          /\ completion_count' = completion_count
          /\ ordinal' = ordinal /\ context_index' = context_index
          /\ case_cycles' = case_cycles /\ did' = did
      BY <1>2 DEF design, memories, files
    <2>2. Asked' /\ LogIsEarned' /\ Written'
      BY <1>1, <1>2, <1>5, NothingWritten
    <2>3. Typed'
      BY <1>3, <1>5, <2>1 DEF Typed, Count
    <2>4. GivenCase'
      BY <1>1, <1>2, <2>1 DEF FixtureInv, GivenCase, Released, Expected, Count
    <2>5. Watched'
      <3>1. /\ output = [l \in Lane |-> IF did.wrote[l] = None THEN 0 ELSE did.wrote[l]]
            /\ late_final_write = did.late /\ did.signalled /\ did.edges < CycleBound
        BY <1>1, <1>2 DEF FixtureInv, Watched, Released, Signalled
      <3>2. QED
        BY <1>3, <1>5, <2>1, <3>1 DEF Watched, Released, Signalled
    <2>6. case_cycles \in Latencies
      <3>1. case_cycles \in 0 .. CycleBound
        BY <1>3 DEF Typed
      <3>2. Lanes > 1 => case_cycles # 0
        <4>1. SUFFICES ASSUME Lanes > 1 PROVE case_cycles # 0
          OBVIOUS
        <4>2. 0 \in Lane /\ 1 \in Lane
          BY <4>1, LanesAssumption DEF Lane
        <4>3. QED
          BY <4>2, <1>3, <1>5
      <3>3. QED
        BY <3>1, <3>2, CycleBoundAssumption DEF Latencies
    <2>7. Launched'
      BY <1>2, <1>3, <1>5, <2>1, <2>6 DEF Launched
    <2>8. FailuresAreEarned'
      BY <1>5 DEF FailuresAreEarned
    <2>9. QED
      BY <2>2, <2>3, <2>4, <2>5, <2>7, <2>8 DEF FixtureInv
  <1>6. QED
    BY <1>2, <1>4, <1>5

LEMMA JudgeKeeps == FixtureInv /\ Judge => FixtureInv'
  <1>1. SUFFICES ASSUME FixtureInv, Judge PROVE FixtureInv'
    OBVIOUS
  <1>2. /\ phase = "judge" /\ phase' = "read" /\ ~late_final_write /\ output = Expected.codes
        /\ transcript' = Append(transcript, CasePass)
        /\ log' = Append(log, [tokens |-> tokens, did |-> did])
        /\ ordinal' = ordinal + 1
        /\ min_cycles' = Faster(case_cycles) /\ max_cycles' = Slower(case_cycles)
        /\ UNCHANGED <<design, memories, case_cycles, files, did>>
    BY <1>1 DEF Judge
  <1>3. /\ request' = request /\ oracle' = oracle /\ contexts' = contexts
        /\ done' = done /\ write' = write /\ output' = output
        /\ final_write_mask' = final_write_mask /\ late_final_write' = late_final_write
        /\ completion_count' = completion_count
    BY <1>2 DEF design, memories, files
  <1>4. /\ Typed /\ Asked /\ late_final_write = did.late
        /\ ~did.late => did.answer = did.wrote
        /\ output = [l \in Lane |-> IF did.wrote[l] = None THEN 0 ELSE did.wrote[l]]
        /\ final_write_mask = {l \in Lane : did.wrote[l] # None} /\ final_write_mask = Lane
        /\ did \in Histories /\ did.signalled /\ did.edges < CycleBound
        /\ case_cycles \in Latencies /\ completion_count_at_done = 1
        /\ ordinal < Count /\ context_index = request.indexes[ordinal + 1]
        /\ tokens = Window(context_index) /\ Expected = Oracle[context_index]
    BY <1>1, <1>2 DEF FixtureInv, Typed, Watched, Launched, Released, Signalled, GivenCase
  <1>5. /\ Count \in Nat \ {0} /\ ordinal \in Nat /\ ordinal + 1 \in 1 .. Count
        /\ case_cycles \in Latencies /\ CycleBound \in Nat \ {0}
    BY <1>4, RequestFacts, CycleBoundAssumption DEF Typed
  <1>6. did.answer = output
    <2>1. did.wrote \in [Lane -> Codes \cup {None}]
      BY <1>4 DEF Histories, Answers
    <2>2. QED
      BY <1>2, <1>4, <2>1
  <1>7. Asked'
    BY <1>3, <1>4 DEF Asked, Records, Count
  <1>8. Typed'
    BY <1>2, <1>3, <1>4, <1>5 DEF Typed, Count
  <1>9. GivenCase' /\ Watched' /\ Launched' /\ FailuresAreEarned'
    BY <1>2 DEF GivenCase, Watched, Launched, Released, Signalled, FailuresAreEarned
  <1>10. context_index \in Nat /\ context_index < Contexts
    BY <1>4, <1>5, RequestFacts
  <1>11. LogIsEarned'
    <2>1. log \in Seq(Entries) /\ Len(log) = ordinal
      BY <1>1 DEF FixtureInv, LogIsEarned
    <2>2. [tokens |-> tokens, did |-> did] \in Entries
      <3>1. tokens \in [Slots -> Lane]
        BY <1>4, <1>10, WindowHoldsTheIndex
      <3>2. QED
        BY <3>1, <1>4 DEF Entries
    <2>3. log' \in Seq(Entries) /\ Len(log') = ordinal'
      BY <1>2, <2>1, <2>2
    <2>4. ASSUME NEW k \in 1 .. ordinal'
          PROVE  /\ log'[k].tokens = Window(request.indexes[k])
                 /\ log'[k].did.signalled /\ log'[k].did.edges < CycleBound
                 /\ log'[k].did.answer = Oracle[request.indexes[k]].codes
      <3>1. CASE k = ordinal + 1
        <4>1. log'[k] = [tokens |-> tokens, did |-> did]
          BY <1>2, <2>1, <2>2, <3>1
        <4>2. log'[k].tokens = tokens /\ log'[k].did = did
          BY <4>1
        <4>3. QED
          BY <4>2, <3>1, <1>2, <1>4, <1>6
      <3>2. CASE k # ordinal + 1
        <4>1. k \in 1 .. ordinal
          BY <3>2, <1>2, <1>5
        <4>2. log'[k] = log[k]
          BY <1>2, <2>1, <2>2, <4>1
        <4>3. QED
          BY <4>1, <4>2, <1>1 DEF FixtureInv, LogIsEarned
      <3>3. QED
        BY <3>1, <3>2
    <2>5. QED
      BY <2>3, <2>4, <1>3 DEF LogIsEarned
  <1>12. CasePass = Passed(ordinal + 1, case_cycles)
    <2>1. /\ Records[ordinal + 1] = Expected
          /\ Expected.token = LowestArgmax(Expected.codes)
      BY <1>4, <1>5, RequestFacts
    <2>2. case_cycles <= CycleBound <=> TRUE
      BY <1>5 DEF Latencies
    <2>3. QED
      BY <2>1, <2>2, <1>2, <1>4 DEF CasePass, Passed
  <1>13. PICK cycles \in [1 .. ordinal -> Latencies] :
            Extremes(cycles) /\ transcript = Passes(cycles)
    BY <1>1, <1>2 DEF FixtureInv, Written
  <1>14. PICK more : more = [k \in 1 .. ordinal + 1 |->
                               IF k = ordinal + 1 THEN case_cycles ELSE cycles[k]]
    OBVIOUS
  <1>15. /\ more \in [1 .. ordinal + 1 -> Latencies]
         /\ more[ordinal + 1] = case_cycles
         /\ \A k \in 1 .. ordinal : more[k] = cycles[k]
    BY <1>5, <1>14
  <1>16. transcript' = Passes(more)'
    <2>1. Passes(cycles) = [k \in 1 .. ordinal |-> Passes(cycles)[k]]
      BY DEF Passes
    <2>2. transcript' = [k \in 1 .. ordinal + 1 |->
                           IF k = ordinal + 1 THEN CasePass ELSE Passes(cycles)[k]]
      BY <1>2, <1>5, <1>13, <2>1, AppendIsFunction
    <2>3. ASSUME NEW k \in 1 .. ordinal + 1
          PROVE  (IF k = ordinal + 1 THEN CasePass ELSE Passes(cycles)[k]) = Passed(k, more[k])
      <3>1. CASE k = ordinal + 1
        BY <3>1, <1>12, <1>15
      <3>2. CASE k # ordinal + 1
        <4>1. k \in 1 .. ordinal
          BY <3>2, <1>5
        <4>2. Passes(cycles)[k] = Passed(k, cycles[k])
          BY <4>1 DEF Passes
        <4>3. QED
          BY <3>2, <4>1, <4>2, <1>15
      <3>3. QED
        BY <3>1, <3>2
    <2>4. transcript' = [k \in 1 .. ordinal + 1 |-> Passed(k, more[k])]
      BY <2>2, <2>3
    <2>5. Passes(more)' = [k \in 1 .. ordinal + 1 |-> Passed(k, more[k])]
      BY <1>2, <1>3 DEF Passes, Passed, Records, Count
    <2>6. QED
      BY <2>4, <2>5
  <1>17. Extremes(more)'
    <2>1. case_cycles \in Nat /\ \A k \in 1 .. ordinal : cycles[k] \in Nat
      BY <1>5 DEF Latencies
    <2>2. CASE ordinal = 0
      <3>1. min_cycles' = case_cycles /\ max_cycles' = case_cycles
        BY <2>2, <1>2 DEF Faster, Slower
      <3>2. ordinal' = 1 /\ more[1] = case_cycles
        BY <2>2, <1>2, <1>15
      <3>3. QED
        BY <3>1, <3>2, <2>1 DEF Extremes
    <2>3. CASE ordinal > 0
      <3>1. PICK low \in 1 .. ordinal : min_cycles = cycles[low]
        BY <1>13, <2>3 DEF Extremes
      <3>2. PICK high \in 1 .. ordinal : max_cycles = cycles[high]
        BY <1>13, <2>3 DEF Extremes
      <3>3. \A k \in 1 .. ordinal : min_cycles <= cycles[k] /\ cycles[k] <= max_cycles
        BY <1>13, <2>3 DEF Extremes
      <3>4. /\ min_cycles' = IF case_cycles < min_cycles THEN case_cycles ELSE min_cycles
            /\ max_cycles' = IF case_cycles > max_cycles THEN case_cycles ELSE max_cycles
        BY <2>3, <1>2, <1>5 DEF Faster, Slower
      <3>5. min_cycles \in Nat /\ max_cycles \in Nat
        BY <2>1, <3>1, <3>2
      <3>6. /\ low \in 1 .. ordinal' /\ high \in 1 .. ordinal' /\ ordinal + 1 \in 1 .. ordinal'
            /\ more[low] = min_cycles /\ more[high] = max_cycles
        BY <3>1, <3>2, <1>2, <1>5, <1>15
      <3>7. /\ \E k \in 1 .. ordinal' : min_cycles' = more[k]
            /\ \E k \in 1 .. ordinal' : max_cycles' = more[k]
        BY <3>4, <3>6, <1>15
      <3>8. ASSUME NEW k \in 1 .. ordinal' PROVE min_cycles' <= more[k] /\ more[k] <= max_cycles'
        <4>1. CASE k = ordinal + 1
          BY <4>1, <3>4, <3>5, <2>1, <1>15
        <4>2. CASE k # ordinal + 1
          <5>1. k \in 1 .. ordinal
            BY <4>2, <1>2, <1>5
          <5>2. more[k] = cycles[k] /\ cycles[k] \in Nat
            BY <5>1, <1>15, <2>1
          <5>3. min_cycles <= cycles[k] /\ cycles[k] <= max_cycles
            BY <5>1, <3>3
          <5>4. QED
            BY <5>2, <5>3, <3>4, <3>5, <2>1
        <4>3. QED
          BY <4>1, <4>2
      <3>9. QED
        BY <3>7, <3>8 DEF Extremes
    <2>4. QED
      BY <2>2, <2>3, <1>5
  <1>18. Written'
    <2>1. more \in [1 .. ordinal' -> Latencies]
      BY <1>2, <1>15
    <2>2. QED
      BY <2>1, <1>2, <1>16, <1>17 DEF Written
  <1>19. QED
    BY <1>7, <1>8, <1>9, <1>11, <1>18 DEF FixtureInv
LEMMA CloseKeeps == FixtureInv /\ Close => FixtureInv'
  <1>1. SUFFICES ASSUME FixtureInv, Close PROVE FixtureInv'
    OBVIOUS
  <1>2. /\ phase = "read" /\ ordinal = Count
        /\ UNCHANGED <<design, memories, ordinal, case_cycles, summary, files, did, log>>
        /\ \/ CaseFail("TRAILING_ORACLE") \/ CaseFail("TRAILING_CONTEXT_INDEX")
           \/ transcript' = Append(transcript, Summary) /\ phase' = "finish"
    BY <1>1 DEF Close, case
  <1>3. CASE CaseFail("TRAILING_ORACLE") \/ CaseFail("TRAILING_CONTEXT_INDEX")
    BY <1>1, <1>2, <1>3, FailureKeeps
  <1>4. CASE transcript' = Append(transcript, Summary) /\ phase' = "finish"
    <2>1. /\ request' = request /\ oracle' = oracle /\ contexts' = contexts
          /\ done' = done /\ write' = write /\ output' = output
          /\ final_write_mask' = final_write_mask /\ late_final_write' = late_final_write
          /\ completion_count' = completion_count /\ ordinal' = ordinal
          /\ case_cycles' = case_cycles /\ did' = did /\ log' = log
          /\ min_cycles' = min_cycles /\ max_cycles' = max_cycles
      BY <1>2 DEF design, memories, files, summary
    <2>2. Typed'
      BY <1>1, <1>4, <2>1 DEF FixtureInv, Typed, Count
    <2>3. Asked'
      BY <1>1, <2>1 DEF FixtureInv, Asked, Records, Count
    <2>4. GivenCase' /\ Watched' /\ Launched' /\ FailuresAreEarned'
      BY <1>4 DEF GivenCase, Watched, Launched, Released, Signalled, FailuresAreEarned
    <2>5. LogIsEarned'
      BY <1>1, <2>1 DEF FixtureInv, LogIsEarned
    <2>6. Written'
      <3>1. PICK cycles \in [1 .. ordinal -> Latencies] :
              Extremes(cycles) /\ transcript = Passes(cycles)
        BY <1>1, <1>2 DEF FixtureInv, Written
      <3>2. Extremes(cycles)' /\ Passes(cycles)' = Passes(cycles) /\ Summary' = Summary
        BY <2>1, <3>1 DEF Extremes, Passes, Passed, Records, Summary, Count
      <3>3. transcript' = Append(Passes(cycles), Summary)' /\ ordinal' = Count'
        BY <1>2, <1>4, <2>1, <3>1, <3>2 DEF Count
      <3>4. QED
        BY <1>4, <2>1, <3>2, <3>3 DEF Written
    <2>7. QED
      BY <2>2, <2>3, <2>4, <2>5, <2>6 DEF FixtureInv
  <1>5. QED
    BY <1>2, <1>3, <1>4

LEMMA StutterKeeps == FixtureInv /\ UNCHANGED vars => FixtureInv'
  <1>1. SUFFICES ASSUME FixtureInv, UNCHANGED vars PROVE FixtureInv'
    OBVIOUS
  <1>2. /\ request' = request /\ oracle' = oracle /\ contexts' = contexts
        /\ done' = done /\ write' = write /\ output' = output /\ tokens' = tokens
        /\ final_write_mask' = final_write_mask /\ late_final_write' = late_final_write
        /\ completion_count' = completion_count /\ ordinal' = ordinal
        /\ context_index' = context_index /\ edges' = edges
        /\ completion_count_at_done' = completion_count_at_done
        /\ case_cycles' = case_cycles /\ did' = did /\ log' = log /\ phase' = phase
        /\ min_cycles' = min_cycles /\ max_cycles' = max_cycles /\ transcript' = transcript
    BY <1>1 DEF vars, design, memories, files, summary, case
  <1>3. Typed' /\ Asked'
    BY <1>1, <1>2 DEF FixtureInv, Typed, Asked, Records, Count
  <1>4. GivenCase' /\ FailuresAreEarned'
    BY <1>1, <1>2 DEF FixtureInv, GivenCase, FailuresAreEarned, Released, Expected, Count
  <1>5. Watched' /\ Launched'
    BY <1>1, <1>2 DEF FixtureInv, Watched, Launched, Released, Signalled
  <1>6. LogIsEarned'
    BY <1>1, <1>2 DEF FixtureInv, LogIsEarned
  <1>7. Written'
    <2>1. \A cycles : Extremes(cycles)' = Extremes(cycles) /\ Passes(cycles)' = Passes(cycles)
      BY <1>2 DEF Extremes, Passes, Passed, Records, Count
    <2>2. Summary' = Summary /\ Count' = Count
      BY <1>2 DEF Summary, Count
    <2>3. QED
      BY <1>1, <1>2, <2>1, <2>2 DEF FixtureInv, Written
  <1>8. QED
    BY <1>3, <1>4, <1>5, <1>6, <1>7 DEF FixtureInv

LEMMA FixtureInductive == FixtureInv /\ [Next]_vars => FixtureInv'
  BY ResetEdgeKeeps, RunEdgeKeeps, LaunchEdgeKeeps, SettleEdgeKeeps, ReadCaseKeeps,
     RefuseCaseKeeps, SampleKeeps, JudgeKeeps, CondemnKeeps, CloseKeeps, StutterKeeps DEF Next

-----------------------------------------------------------------------------
(* A receipt is earned: when the bench finishes and the runner accepts its *)
(* transcript, the design was given every context that was asked for, in   *)
(* order, and answered each with the oracle's codes within the bound.      *)
THEOREM ReceiptsAreEarned == Spec => []ReceiptIsEarned
  <1>1. FixtureInv => ReceiptIsEarned
    <2>1. SUFFICES ASSUME FixtureInv, phase = "finish" PROVE ReceiptIsEarned
      BY DEF ReceiptIsEarned
    <2>2. Len(log) = Count /\ LogIsEarned /\ ordinal = Count
      BY <2>1 DEF FixtureInv, LogIsEarned, Written
    <2>3. ASSUME NEW k \in 1 .. Count
          PROVE  IndexOf(log[k].tokens) = request.indexes[k]
      <3>1. request.indexes[k] \in Nat /\ request.indexes[k] < Contexts
        BY <2>1, RequestFacts DEF FixtureInv
      <3>2. log[k].tokens = Window(request.indexes[k])
        BY <2>2 DEF LogIsEarned
      <3>3. QED
        BY <3>1, <3>2, WindowHoldsTheIndex
    <2>4. QED
      BY <2>2, <2>3 DEF ReceiptIsEarned, LogIsEarned
  <1>2. FixtureInv /\ [Next]_vars => FixtureInv'
    BY FixtureInductive
  <1>3. QED
    BY <1>1, <1>2, InitHolds, PTL DEF Spec

(* Verdicts are true: the runner accepts whatever a bench that finishes    *)
(* writes, and a failure the bench reports -- a timeout, a code missing,   *)
(* late or wrong -- is one the design committed.  With one lane it would   *)
(* not be so: a design that holds done from the reset on can write its one *)
(* code before a cycle is counted, and the parser refuses a case of no     *)
(* cycles; there are VOCAB_SIZE = 6.                                       *)
THEOREM VerdictsAreEarned ==
  ASSUME Lanes > 1 PROVE Spec => []VerdictsAreTrue
  <1>1. FixtureInv => VerdictsAreTrue
    BY FinishIsAccepted DEF FixtureInv, VerdictsAreTrue, FinishedIsAccepted
  <1>2. FixtureInv /\ [Next]_vars => FixtureInv'
    BY FixtureInductive
  <1>3. QED
    BY <1>1, <1>2, InitHolds, PTL DEF Spec
=============================================================================
