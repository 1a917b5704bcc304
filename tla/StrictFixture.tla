---------------------------- MODULE StrictFixture ----------------------------
(***************************************************************************)
(* The test bench that _strict_fixture of scripts/pipeline/                *)
(* run_rc_sv_equivalence.py generates, running any design whatever, and    *)
(* the runner that judges its transcript.                                  *)
(*                                                                         *)
(* An ...Edge action is one clock cycle: the rising edge, at which the     *)
(* memory processes latch what the design has been driving and the design  *)
(* drives something new, and the falling edge after it.  The other actions *)
(* are what the bench does at a falling edge, in no time; the design does  *)
(* not move in them.  The bench reads done at a rising edge before the     *)
(* design changes it.  go is left out: the design need not obey it.        *)
(*                                                                         *)
(* Of the memories the model keeps the token port and the final lanes of   *)
(* the output port; an immutable port only appears by being written.       *)
(*                                                                         *)
(* Accepts is _parse_shard_output: when the runner accepts a transcript.   *)
(* A record is what its line says; a line that is none of the six kinds is *)
(* ignored by the parser and left out.  The two lifecycle fields that the  *)
(* fixture prints as literals (reset_complete, reset_cycles) are left out. *)
(***************************************************************************)
EXTENDS Integers, Sequences, SequencesExt, FiniteSets, FiniteSetsExt

CONSTANTS
  Lanes,         (* output codes of a context, and values of a token       *)
  CycleBound,    (* --timeout-cycles                                       *)
  Codes,         (* output codes, 0 among them: a cleared memory           *)
  ContextLength, (* token slots                                            *)
  Oracle,        (* Oracle[i]: the frozen record of context i              *)
  Requests,      (* shards and sequences the runner may be asked for       *)
  Malformed,     (* an oracle record that breaks its format, or a non-index *)
  Immutable,     (* a write to a memory the design may only read           *)
  None           (* no write, no code                                      *)

Slots == 0 .. ContextLength - 1
Lane == 0 .. Lanes - 1

\* The greatest code, the first of several.
LowestArgmax(codes) ==
  CHOOSE i \in Lane :
    \A j \in Lane : codes[j] < codes[i] \/ (codes[j] = codes[i] /\ i <= j)

\* The number of contexts, VOCAB_SIZE ** CONTEXT_LENGTH.
Contexts ==
  LET power[n \in 0 .. ContextLength] == IF n = 0 THEN 1 ELSE Lanes * power[n - 1]
  IN power[ContextLength]

ASSUME LanesAssumption == Lanes \in Nat \ {0}
ASSUME CycleBoundAssumption == CycleBound \in Nat \ {0}
ASSUME CodesAssumption == 0 \in Codes /\ None \notin Codes
ASSUME ContextLengthAssumption == ContextLength \in Nat \ {0}

\* A request names contexts: a shard consecutive ones, a sequence any.
ASSUME RequestsAssumption ==
  \A r \in Requests :
    /\ r.sequence \in BOOLEAN
    /\ r.indexes \in Seq(Nat) /\ r.indexes # << >>
    /\ \A k \in DOMAIN r.indexes :
         /\ r.indexes[k] < Contexts
         /\ ~r.sequence => r.indexes[k] = r.indexes[1] + (k - 1)

\* A frozen record holds codes and the first of the greatest of them.
ASSUME OracleAssumption ==
  \A index \in 0 .. Contexts - 1 :
    /\ Oracle[index].codes \in [Lane -> Codes]
    /\ Oracle[index].token = LowestArgmax(Oracle[index].codes)

-----------------------------------------------------------------------------
(* The parser. *)

Failures == {"CASE_FAIL", "IMMUTABLE_WRITE"}
Summaries == {"SHARD_PASS", "SEQUENCE_PASS"}

\* What the parser has collected after so many lines.
OfKind(t, kinds) ==
  LET found[n \in 0 .. Len(t)] ==
        IF n = 0 THEN << >>
        ELSE IF t[n].kind \in kinds THEN Append(found[n - 1], t[n]) ELSE found[n - 1]
  IN found[Len(t)]

CasePassIsValid(r, ordinal) ==
  /\ r.cycles \in 1 .. CycleBound
  /\ r.expected = r.observed
  /\ r.expected_token = LowestArgmax(r.expected)
  /\ r.observed_token = LowestArgmax(r.observed)
  /\ r.write_mask = Lane
  /\ r.done /\ r.within_bound
  /\ r.completion_count = 1
  /\ r.reset_ordinal = ordinal

SummaryMatches(r, passes, request) ==
  LET count == Len(request.indexes)
      latencies == {passes[k].cycles : k \in DOMAIN passes}
  IN /\ r.kind = IF request.sequence THEN "SEQUENCE_PASS" ELSE "SHARD_PASS"
     /\ request.sequence => r.resets = count
     /\ ~request.sequence => r.start = Head(request.indexes)
     /\ r.count = count /\ r.completed = count
     /\ r.min_cycles = Min(latencies) /\ r.max_cycles = Max(latencies)

Indexes(passes) == [k \in DOMAIN passes |-> passes[k].index]

Accepts(t, request) ==
  LET passes == OfKind(t, {"CASE_PASS"})
      summaries == OfKind(t, Summaries)
  IN /\ OfKind(t, Failures) = << >>
     /\ \A k \in DOMAIN passes : CasePassIsValid(passes[k], k)
     /\ Indexes(passes) = request.indexes
     /\ Len(summaries) = 1
     /\ SummaryMatches(Head(summaries), passes, request)
     /\ \A i, j \in DOMAIN t :
          t[i].kind = "CASE_PASS" /\ t[j].kind \in Summaries => i < j

-----------------------------------------------------------------------------
VARIABLES
  done, write,             (* what the design drives                       *)
  tokens, output,          (* memories                                     *)
  final_write_mask, late_final_write, completion_count,
  phase, edges,            (* where the bench is, and the edges it waits   *)
  ordinal, context_index, case_cycles, completion_count_at_done,
  min_cycles, max_cycles,
  request, oracle, contexts, (* the invocation and the files it reads      *)
  transcript,
  did, log                 (* history: what the design did                 *)

design == <<done, write>>
memories == <<tokens, output, final_write_mask, late_final_write, completion_count>>
summary == <<min_cycles, max_cycles>>
files == <<request, oracle, contexts>>
case == <<ordinal, context_index, case_cycles, completion_count_at_done>>
vars == <<design, memories, phase, edges, case, summary, files, transcript, did, log>>

\* The task that fills the token slots divides what is left of the index by
\* the number of lanes, from the last slot down to the first.
Left(index) ==
  LET left[s \in 0 .. ContextLength] ==
        IF s = ContextLength THEN index ELSE left[s + 1] \div Lanes
  IN left
\* Slip: the first token takes the lowest digit.
WindowReversed(index) == [s \in Slots |-> Left(index)[ContextLength - s] % Lanes]
Window(index) == [s \in Slots |-> Left(index)[s + 1] % Lanes]

Cleared == [l \in Lane |-> 0]
Silent == [l \in Lane |-> None]
Nothing == [wrote |-> Silent, answer |-> Silent, edges |-> 0,
            signalled |-> FALSE, late |-> FALSE]

LaneWrites == [lane : Lane, code : Codes]
Writes == LaneWrites \cup {None, Immutable}

Count == Len(request.indexes)
Settling == phase = "settle"

\* A payload as it should be, cut short, one longer, or with a broken entry.
Damaged(payload) ==
  {payload, Front(payload), Append(payload, Malformed)}
    \cup {[payload EXCEPT ![k] = Malformed] : k \in DOMAIN payload}

Init ==
  /\ done \in BOOLEAN /\ write = None
  /\ tokens = [s \in Slots |-> 0] /\ output = Cleared
  /\ final_write_mask = {} /\ late_final_write = FALSE
  /\ completion_count = 0 /\ completion_count_at_done = 0
  /\ phase = "read" /\ edges = 0
  /\ ordinal = 0 /\ context_index = 0 /\ case_cycles = 0
  /\ min_cycles = 0 /\ max_cycles = 0
  /\ request \in Requests
  /\ oracle \in Damaged([k \in DOMAIN request.indexes |-> Oracle[request.indexes[k]]])
  /\ contexts \in IF request.sequence THEN Damaged(request.indexes) ELSE {<< >>}
  /\ transcript = << >>
  /\ did = Nothing /\ log = << >>

-----------------------------------------------------------------------------
(* The rising edge. *)

Drive == done' \in BOOLEAN /\ write' \in Writes

\* What the design has done in this case, up to and with this edge; edges
\* without done are counted as far as the bound.
Witness ==
  LET wrote == IF write \in LaneWrites THEN [did.wrote EXCEPT ![write.lane] = write.code]
               ELSE did.wrote
  IN did' = [wrote |-> wrote,
             answer |-> IF did.signalled THEN did.answer ELSE wrote,
             edges |-> IF did.signalled \/ done THEN did.edges
                       ELSE Min({did.edges + 1, CycleBound}),
             signalled |-> did.signalled \/ done,
             late |-> did.late \/ (did.signalled /\ write \in LaneWrites)]

\* Slip: a write after done is not noticed.
LateUnnoticed == FALSE
Late == Settling

\* The memory processes outside reset.
Latch ==
  /\ IF write \in LaneWrites
     THEN /\ output' = [output EXCEPT ![write.lane] = write.code]
          /\ final_write_mask' = final_write_mask \cup {write.lane}
          /\ late_final_write' = (late_final_write \/ Late)
     ELSE UNCHANGED <<output, final_write_mask, late_final_write>>
  /\ completion_count' = completion_count + (IF done THEN 1 ELSE 0)
  /\ UNCHANGED tokens

\* Slip: the write mask survives the reset.
ResetKeepingMask ==
  /\ late_final_write' = FALSE /\ completion_count' = 0
  /\ UNCHANGED <<tokens, output, final_write_mask>>
ResetMemories ==
  /\ final_write_mask' = {} /\ late_final_write' = FALSE
  /\ completion_count' = 0 /\ UNCHANGED <<tokens, output>>

\* $fatal ends the simulation.
Fatal(record) == phase' = "fatal" /\ transcript' = Append(transcript, record)
CaseFail(reason) ==
  Fatal([kind |-> "CASE_FAIL", index |-> context_index, reason |-> reason])
ImmutableWrite == Fatal([kind |-> "IMMUTABLE_WRITE"])

\* Slip: only cycles without a write count.
IdleCycle == IF write = None THEN case_cycles + 1 ELSE case_cycles
Cycle == case_cycles + 1
\* Slip: the last cycle of the bound is not granted.
BoundReachedEarly == case_cycles' >= CycleBound - 1
BoundReached == case_cycles' >= CycleBound

ResetEdge ==
  /\ phase = "reset"
  /\ Drive
  /\ ResetMemories
  /\ did' = Nothing
  /\ edges' = edges - 1
  /\ phase' = IF edges > 1 THEN "reset" ELSE IF done' THEN "done" ELSE "run"
  /\ UNCHANGED <<case, summary, files, transcript, log>>

RunEdge ==
  /\ phase = "run"
  /\ Drive /\ Latch /\ Witness
  /\ case_cycles' = Cycle
  /\ \/ write = Immutable /\ ImmutableWrite
     \/ write # Immutable /\ done /\ phase' = "sample" /\ UNCHANGED transcript
     \/ write # Immutable /\ ~done /\ BoundReached /\ CaseFail("TIMEOUT")
     \/ /\ write # Immutable /\ ~done /\ ~BoundReached
        /\ UNCHANGED <<phase, transcript>>
  /\ UNCHANGED <<edges, ordinal, context_index, completion_count_at_done, summary, files, log>>

\* done was high at the launch: the bench waits for the next falling edge.
LaunchEdge ==
  /\ phase = "done"
  /\ Drive /\ Latch /\ Witness
  /\ \/ write = Immutable /\ ImmutableWrite
     \/ write # Immutable /\ phase' = "sample" /\ UNCHANGED transcript
  /\ UNCHANGED <<edges, case, summary, files, log>>

SettleEdge ==
  /\ Settling
  /\ Drive /\ Latch /\ Witness
  /\ edges' = edges - 1
  /\ \/ write = Immutable /\ ImmutableWrite
     \/ /\ write # Immutable
        /\ phase' = IF edges > 1 THEN "settle" ELSE "judge"
        /\ UNCHANGED transcript
  /\ UNCHANGED <<case, summary, files, log>>

-----------------------------------------------------------------------------
(* The falling edge: one case after the other. *)

\* fscanf finds an entry, and it passes the format checks.
Entry(payload) == ordinal < Len(payload) /\ payload[ordinal + 1] # Malformed

NextIndex ==
  IF request.sequence THEN contexts[ordinal + 1] ELSE Head(request.indexes) + ordinal

ReadCase ==
  /\ phase = "read" /\ ordinal < Count
  /\ request.sequence => Entry(contexts)
  /\ Entry(oracle)
  /\ context_index' = NextIndex
  /\ tokens' = Window(NextIndex)
  /\ output' = Cleared
  /\ case_cycles' = 0 /\ completion_count_at_done' = 0
  /\ phase' = "reset" /\ edges' = 3
  /\ UNCHANGED <<design, final_write_mask, late_final_write, completion_count,
                 ordinal, summary, files, transcript, did, log>>

RefuseCase ==
  /\ phase = "read" /\ ordinal < Count
  /\ \/ request.sequence /\ ~Entry(contexts) /\ CaseFail("CONTEXT_INDEX")
     \/ (request.sequence => Entry(contexts)) /\ ~Entry(oracle) /\ CaseFail("ORACLE_RECORD")
  /\ UNCHANGED <<design, memories, edges, case, summary, files, did, log>>

Sample ==
  /\ phase = "sample"
  /\ completion_count_at_done' = completion_count
  /\ \/ final_write_mask # Lane /\ CaseFail("MISSING_FINAL_WRITE") /\ UNCHANGED edges
     \/ final_write_mask = Lane /\ phase' = "settle" /\ edges' = 2 /\ UNCHANGED transcript
  /\ UNCHANGED <<design, memories, ordinal, context_index, case_cycles, summary,
                 files, did, log>>

Expected == oracle[ordinal + 1]

CasePass ==
  [kind |-> "CASE_PASS", index |-> context_index, cycles |-> case_cycles,
   expected |-> Expected.codes, observed |-> output,
   expected_token |-> Expected.token, observed_token |-> LowestArgmax(output),
   done |-> TRUE, completion_count |-> completion_count_at_done,
   within_bound |-> case_cycles <= CycleBound, reset_ordinal |-> ordinal + 1,
   write_mask |-> final_write_mask]

\* Slip: the first case does not set the minimum.
FasterOnly(cycles) == IF cycles < min_cycles THEN cycles ELSE min_cycles
Faster(cycles) == IF ordinal = 0 \/ cycles < min_cycles THEN cycles ELSE min_cycles
Slower(cycles) == IF ordinal = 0 \/ cycles > max_cycles THEN cycles ELSE max_cycles

Judge ==
  /\ phase = "judge"
  /\ ~late_final_write
  /\ output = Expected.codes
  /\ transcript' = Append(transcript, CasePass)
  /\ log' = Append(log, [tokens |-> tokens, did |-> did])
  /\ ordinal' = ordinal + 1
  /\ min_cycles' = Faster(case_cycles)
  /\ max_cycles' = Slower(case_cycles)
  /\ phase' = "read"
  /\ UNCHANGED <<design, memories, edges, context_index, case_cycles,
                 completion_count_at_done, files, did>>

Condemn ==
  /\ phase = "judge"
  /\ \/ late_final_write /\ CaseFail("LATE_FINAL_WRITE")
     \/ ~late_final_write /\ output # Expected.codes /\ CaseFail("RAW_CODE")
  /\ UNCHANGED <<design, memories, edges, case, summary, files, did, log>>

Summary ==
  [kind |-> IF request.sequence THEN "SEQUENCE_PASS" ELSE "SHARD_PASS",
   start |-> Head(request.indexes), count |-> Count, completed |-> ordinal,
   resets |-> ordinal, min_cycles |-> min_cycles, max_cycles |-> max_cycles]

\* Nothing may be left in the files.
Close ==
  /\ phase = "read" /\ ordinal = Count
  /\ \/ Len(oracle) > Count /\ CaseFail("TRAILING_ORACLE")
     \/ /\ Len(oracle) = Count /\ request.sequence /\ Len(contexts) > Count
        /\ CaseFail("TRAILING_CONTEXT_INDEX")
     \/ /\ Len(oracle) = Count
        /\ request.sequence => Len(contexts) = Count
        /\ transcript' = Append(transcript, Summary)
        /\ phase' = "finish"
  /\ UNCHANGED <<design, memories, edges, case, summary, files, did, log>>

Next ==
  \/ ResetEdge \/ RunEdge \/ LaunchEdge \/ SettleEdge
  \/ ReadCase \/ RefuseCase \/ Sample \/ Judge \/ Condemn \/ Close

\* The simulated clock runs on.
Spec == Init /\ [][Next]_vars /\ WF_vars(Next)

-----------------------------------------------------------------------------
(* Correctness. *)

TypeOK ==
  /\ done \in BOOLEAN /\ write \in Writes
  /\ tokens \in [Slots -> Lane] /\ output \in [Lane -> Codes]
  /\ final_write_mask \subseteq Lane /\ late_final_write \in BOOLEAN
  /\ completion_count \in 0 .. 3 /\ completion_count_at_done \in 0 .. 1
  /\ phase \in {"read", "reset", "run", "done", "sample", "settle", "judge",
                "finish", "fatal"}
  /\ edges \in 0 .. 3
  /\ ordinal \in 0 .. Count /\ case_cycles \in 0 .. CycleBound
  /\ Len(transcript) <= Count + 1

\* The index whose tokens a window holds: its digits, read from the first.
IndexOf(window) ==
  LET value[n \in 0 .. ContextLength] ==
        IF n = 0 THEN 0 ELSE Lanes * value[n - 1] + window[n - 1]
  IN value[ContextLength]

\* A transcript the runner accepts was earned: for every index asked for, in
\* order, the design was given that context, wrote every final code after its
\* reset, and the codes it had written by the time it signalled done, within
\* the bound, are those of the oracle.
ReceiptIsEarned ==
  phase = "finish" /\ Accepts(transcript, request) =>
    /\ Len(log) = Count
    /\ \A k \in 1 .. Count :
         /\ IndexOf(log[k].tokens) = request.indexes[k]
         /\ log[k].did.signalled /\ log[k].did.edges < CycleBound
         /\ log[k].did.answer = Oracle[request.indexes[k]].codes

\* The bench and the runner agree: the transcript of a simulation that finishes
\* is accepted for the request the simulation was started for.
FinishedIsAccepted == phase = "finish" => Accepts(transcript, request)

\* The design is blamed only for what it did.
FailuresAreEarned ==
  phase = "fatal" /\ Last(transcript).kind = "CASE_FAIL" =>
    LET reason == Last(transcript).reason
    IN /\ reason = "TIMEOUT" => ~did.signalled /\ did.edges = CycleBound
       /\ reason = "MISSING_FINAL_WRITE" => \E l \in Lane : did.answer[l] = None
       /\ reason = "LATE_FINAL_WRITE" => did.late
       /\ reason = "RAW_CODE" => did.answer # Expected.codes

\* A verdict on the design is the one its behaviour earned, whichever way.
VerdictsAreTrue == FinishedIsAccepted /\ FailuresAreEarned

\* No design, however it behaves, keeps the simulation from ending.
SimulationEnds == <>(phase \in {"finish", "fatal"})
=============================================================================
