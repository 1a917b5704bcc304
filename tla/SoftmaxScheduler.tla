--------------------------- MODULE SoftmaxScheduler ---------------------------
(***************************************************************************)
(* rtl/llm2fpga_attention_softmax_scheduler.sv: it serialises the score    *)
(* tensor of all heads through the one row core of SoftmaxRowCore and      *)
(* collects the probabilities, on one clock and one reset.  The caller is  *)
(* the attention controller: it starts the scheduler while it is idle and  *)
(* holds position and scores until done (AttentionPath is such a caller).  *)
(***************************************************************************)
EXTENDS SoftmaxRowCore

CONSTANTS
  Heads,  (* heads are 0 .. Heads - 1                                      *)
  Runs    (* the caller runs score tensors 1 .. Runs                       *)

ASSUME HeadsAssumption == Heads \in Nat \ {0}
ASSUME RunsAssumption == Runs \in Nat \ {0}

HeadId == 0 .. Heads - 1

VARIABLES
  state,          (* IDLE, START, SEND, WAIT or FINAL                      *)
  head, key, ack, done,
  probabilities,  (* probabilities[h][k]                                   *)
  start, position, run   (* the caller's pulse, position and score tensor  *)

schedulerRegs == <<state, head, key, ack, done, probabilities>>
caller == <<start, position, run>>
vars == <<coreRegs, schedulerRegs, caller>>

\* The caller's scores: one value for each run, head and key.
Score(r, h, k) == <<r, h, k>>

CoreStarting == state = "START"
CoreOffered == state = "SEND" /\ InReady

NoProbabilities == [h \in HeadId |-> [k \in Slot |-> NoShare]]

Init ==
  /\ CoreInit
  /\ state = "IDLE"
  /\ head = 0
  /\ key = 0
  /\ ack = FALSE
  /\ done = FALSE
  /\ probabilities = NoProbabilities
  /\ start = FALSE
  /\ position = 0
  /\ run = 0

-----------------------------------------------------------------------------
(* The branches of the scheduler's clocked process. *)

ResetScheduler ==
  /\ state' = "IDLE"
  /\ head' = 0
  /\ key' = 0
  /\ ack' = FALSE
  /\ done' = FALSE
  /\ probabilities' = NoProbabilities

Idle ==
  /\ state = "IDLE"
  /\ done' = FALSE
  /\ IF start THEN head' = 0 /\ key' = 0 /\ state' = "START"
              ELSE UNCHANGED <<head, key, state>>
  /\ UNCHANGED <<ack, probabilities>>

StartRow ==
  /\ state = "START"
  /\ state' = "SEND"
  /\ done' = FALSE
  /\ UNCHANGED <<head, key, ack, probabilities>>

SendScore ==
  /\ state = "SEND"
  /\ done' = FALSE
  /\ IF ~InReady THEN UNCHANGED <<key, state>>
     ELSE IF key = position THEN key' = 0 /\ state' = "WAIT"
     ELSE key' = key + 1 /\ UNCHANGED state
  /\ UNCHANGED <<head, ack, probabilities>>

\* Slip: the value seen at index N is filed in slot N.
CellSame(h, index) == <<h, index>>
\* "the value observed for index N > 0 belongs to slot N - 1"
Cell(h, index) == IF index = 0 THEN <<h, 0>> ELSE <<h, index - 1>>

Collect ==
  /\ state = "WAIT"
  /\ outValid /\ ~ack
  /\ LET cell == Cell(head, outIndex)
     IN probabilities' = [probabilities EXCEPT ![cell[1]][cell[2]] = outProbability]
  /\ ack' = TRUE
  /\ done' = FALSE
  /\ UNCHANGED <<state, head, key>>

\* Slip: the row is over when the core offers its last index.
RowOverEarly == outIndex + 1 >= position
RowOver == outIndex = position

Acknowledge ==
  /\ state = "WAIT"
  /\ ack
  /\ ack' = FALSE
  /\ state' = IF RowOver THEN "FINAL" ELSE state
  /\ done' = FALSE
  /\ UNCHANGED <<head, key, probabilities>>

AwaitProbability ==
  /\ state = "WAIT"
  /\ ~outValid /\ ~ack
  /\ done' = FALSE
  /\ UNCHANGED <<state, head, key, ack, probabilities>>

LastHead == head = Heads - 1

NextRow == head' = head + 1 /\ key' = 0 /\ state' = "START"

FinalProbability ==
  /\ state = "FINAL"
  /\ probabilities' = [probabilities EXCEPT ![head][position] = outProbability]
  /\ IF LastHead
     THEN done' = TRUE /\ state' = "IDLE" /\ UNCHANGED <<head, key>>
     ELSE NextRow /\ done' = FALSE
  /\ UNCHANGED ack

Scheduler ==
  \/ Idle
  \/ StartRow
  \/ SendScore
  \/ Collect
  \/ Acknowledge
  \/ AwaitProbability
  \/ FinalProbability

-----------------------------------------------------------------------------
(* The caller and the clock edge. *)

\* Position and scores change only while no run is started or under way.
Present(p) ==
  /\ state = "IDLE"
  /\ ~start
  /\ run < Runs
  /\ position' = p
  /\ run' = run + 1
  /\ start' = FALSE

\* Nor is a run started while another is.
Launch ==
  /\ state = "IDLE"
  /\ ~start
  /\ run > 0
  /\ start' = TRUE
  /\ UNCHANGED <<position, run>>

Hold == start' = FALSE /\ UNCHANGED <<position, run>>

Edge ==
  /\ Scheduler
  /\ CoreEdge(CoreStarting, position, CoreOffered, Score(run, head, key), ack)

Run == Edge /\ Hold
Reset == ResetScheduler /\ ResetCore /\ Hold
Next ==
  \/ Run
  \/ Edge /\ Launch
  \/ \E p \in Slot : Edge /\ Present(p)
  \/ Reset

Spec == Init /\ [][Next]_vars /\ WF_vars(Run)

-----------------------------------------------------------------------------
(* Correctness. *)

Scores == {Blank} \cup ((1 .. Runs) \X HeadId \X Slot)
Shares == Scores \X [Slot -> Scores]

TypeOK ==
  /\ state \in {"IDLE", "START", "SEND", "WAIT", "FINAL"}
  /\ head \in HeadId /\ key \in Slot
  /\ ack \in BOOLEAN /\ done \in BOOLEAN /\ start \in BOOLEAN
  /\ coreState \in {"IDLE", "LOAD", "OUT"}
  /\ count \in Slot /\ rowPosition \in Slot /\ outIndex \in Slot
  /\ scoreMem \in [Slot -> Scores] /\ expMem \in [Slot -> Scores]
  /\ outValid \in BOOLEAN /\ outProbability \in Shares
  /\ probabilities \in [HeadId -> [Slot -> Shares]]
  /\ position \in Slot /\ run \in 0 .. Runs

\* The row of head h of the run under way, as the causal mask leaves it.
CausalRow(h) == RowOf([i \in Slot |-> Score(run, h, i)], position)

\* When the scheduler reports done, every causal slot of every head holds that
\* slot's own share of that head's causal row of this run.
RowsAreRight ==
  done => \A h \in HeadId : \A k \in 0 .. position :
            probabilities[h][k] = Share(CausalRow(h), k)

\* The core is idle when the scheduler starts it and loads the very score the
\* scheduler counts; neither side can lose the other's pulse.
CoreInLockstep ==
  /\ state \in {"IDLE", "START", "FINAL"} => coreState = "IDLE"
  /\ state = "SEND" => coreState = "LOAD" /\ count = key /\ rowPosition = position
  /\ state = "WAIT" => coreState = "OUT"

\* The softmax is right, and right because no pulse is lost on its way.
SoftmaxIsRight == RowsAreRight /\ CoreInLockstep

\* A later row or a late probability never touches a row that is finished.
FinishedRowsKept ==
  [][state # "IDLE" /\ ~(state' = "IDLE" /\ ~done') =>
       \A h \in 0 .. head - 1 : UNCHANGED probabilities[h]]_vars
=============================================================================
