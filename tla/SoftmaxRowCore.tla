---------------------------- MODULE SoftmaxRowCore ----------------------------
(***************************************************************************)
(* The row core rtl/gptneo_softmax_only.sv: it loads the scores of one     *)
(* causal row, then offers the probabilities one index at a time.          *)
(*                                                                         *)
(* A score is an opaque value.  The share of score i in a row is the pair  *)
(* of that score and the whole row: maximum, exponential, denominator and  *)
(* division are a function of the two.                                     *)
(***************************************************************************)
EXTENDS Naturals, Sequences

CONSTANTS
  TMax,   (* TMAX, the slots of a row                                      *)
  Blank   (* the zero of a slot that holds no score                        *)

ASSUME TMaxAssumption == TMax \in Nat \ {0}

VARIABLES
  coreState,    (* IDLE, LOAD or OUT                                       *)
  count,        (* scores loaded of this row                               *)
  rowPosition,  (* position latched with start                             *)
  scoreMem,     (* scores of this row and, beyond count, of earlier ones   *)
  expMem,       (* the row's scores when it is complete                    *)
  outValid, outIndex, outProbability

coreRegs == <<coreState, count, rowPosition, scoreMem, expMem,
              outValid, outIndex, outProbability>>

Slot == 0 .. TMax - 1

\* The row of a full load: slots past the last score contribute nothing.
RowOf(scores, last) == [i \in Slot |-> IF i <= last THEN scores[i] ELSE Blank]
Share(row, i) == <<row[i], row>>
NoShare == <<Blank, [i \in Slot |-> Blank]>>

InReady == coreState = "LOAD"

CoreReset ==
  [state |-> "IDLE", count |-> 0, index |-> 0, probability |-> NoShare]

CoreInit ==
  /\ coreState = CoreReset.state
  /\ count = CoreReset.count
  /\ outIndex = CoreReset.index
  /\ outProbability = CoreReset.probability
  /\ outValid = FALSE
  /\ rowPosition = 0
  /\ scoreMem = [i \in Slot |-> Blank]
  /\ expMem = [i \in Slot |-> Blank]

-----------------------------------------------------------------------------
(* The branches of the clocked process.  The reset branch leaves the row   *)
(* memories and row_position alone.                                        *)

ResetCore ==
  /\ coreState' = CoreReset.state
  /\ count' = CoreReset.count
  /\ outIndex' = CoreReset.index
  /\ outProbability' = CoreReset.probability
  /\ outValid' = FALSE
  /\ UNCHANGED <<rowPosition, scoreMem, expMem>>

\* No row is started, or no score is offered.
CoreRest(starting, offered) ==
  /\ \/ coreState = "IDLE" /\ ~starting
     \/ coreState = "LOAD" /\ ~offered
  /\ outValid' = FALSE
  /\ UNCHANGED <<coreState, count, rowPosition, scoreMem, expMem>>
  /\ UNCHANGED <<outIndex, outProbability>>

CoreStart(starting, position) ==
  /\ coreState = "IDLE"
  /\ starting
  /\ count' = 0
  /\ rowPosition' = position
  /\ coreState' = "LOAD"
  /\ outValid' = FALSE
  /\ UNCHANGED <<scoreMem, expMem, outIndex, outProbability>>

LastScore == count = rowPosition \/ count = TMax - 1

CoreLoad(offered, score) ==
  /\ coreState = "LOAD"
  /\ offered
  /\ scoreMem' = [scoreMem EXCEPT ![count] = score]
  /\ IF LastScore
     THEN /\ expMem' = RowOf(scoreMem', count)
          /\ outIndex' = 0
          /\ coreState' = "OUT"
          /\ UNCHANGED count
     ELSE /\ count' = count + 1
          /\ UNCHANGED <<expMem, outIndex, coreState>>
  /\ outValid' = FALSE
  /\ UNCHANGED <<rowPosition, outProbability>>

\* The probability register is loaded with the index before it advances.
CoreOut(accepted) ==
  /\ coreState = "OUT"
  /\ outValid' = TRUE
  /\ outProbability' = Share(expMem, outIndex)
  /\ coreState' = IF accepted /\ outIndex = rowPosition THEN "IDLE" ELSE coreState
  /\ outIndex' = IF accepted /\ outIndex # rowPosition THEN outIndex + 1 ELSE outIndex
  /\ UNCHANGED <<count, rowPosition, scoreMem, expMem>>

CoreEdge(starting, position, offered, score, accepted) ==
  \/ CoreRest(starting, offered)
  \/ CoreStart(starting, position)
  \/ CoreLoad(offered, score)
  \/ CoreOut(accepted)
=============================================================================
