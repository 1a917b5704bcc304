--------------------------- MODULE TransformerBlock ---------------------------
(***************************************************************************)
(* One transformer block of the tensor accelerator: the five start/done    *)
(* controllers of rtl/llm2fpga_*_tensor.sv, the arithmetic units they      *)
(* start in turn, the two LayerNorm adapters, and the host that runs one   *)
(* token after another (docs/tinystories-transformer-board-integration).   *)
(*                                                                         *)
(* A step is a clock edge, on which every register of every module moves.  *)
(* Arithmetic is abstracted to provenance: a tensor is the set of tokens   *)
(* whose data it was computed from.  It is the right result of token t     *)
(* when that set is {t}; 0 stands for the zeros a reset leaves.            *)
(***************************************************************************)
EXTENDS Naturals, Sequences, FiniteSets, SequencesExt

CONSTANTS
  Tokens,     (* the host runs tokens 1 .. Tokens                          *)
  Lanes,      (* D, the lanes a LayerNorm adapter loads and emits          *)
  ColdStart   (* the host resets the block before every token              *)

ASSUME TokensAssumption == Tokens \in Nat \ {0}
ASSUME LanesAssumption == Lanes \in Nat \ {0}
ASSUME ColdStartAssumption == ColdStart \in BOOLEAN

Token == 0 .. Tokens

\* The stages of each controller, in the order its case statement runs them.
BlockStages == <<"qkv", "ar", "ln2", "mlp">>
QkvStages == <<"ln1", "q", "k", "v">>
ResidualStages == <<"attn", "proj", "add">>
\* Slip: the softmax runs before the scores it reads.
AttentionStagesSwapped == <<"softmax", "score", "ctx">>
AttentionStages == <<"score", "softmax", "ctx">>
\* Slip: the second projection runs before the activation it reads.
MlpStagesSwapped == <<"fcin", "fcout", "gelu", "resid">>
MlpStages == <<"fcin", "gelu", "fcout", "resid">>
Stages == [block |-> BlockStages, qkv |-> QkvStages, ar |-> ResidualStages,
           attn |-> AttentionStages, mlp |-> MlpStages]

Controllers == DOMAIN Stages
Norms == {"ln1", "ln2"}
Adders == {"add", "resid"}
Nodes == {"block"} \cup UNION {ToSet(Stages[c]) : c \in Controllers}
Leaves == Nodes \ Controllers
Units == Leaves \ (Norms \cup Adders)

\* The tensors each leaf reads, as the instances are wired.  "input" is the
\* token's data: block input, position, and the key/value history.
Reads == [ln1 |-> {"input"}, q |-> {"ln1"}, k |-> {"ln1"}, v |-> {"ln1"},
          score |-> {"q", "input"}, softmax |-> {"score", "input"},
          ctx |-> {"softmax", "input"}, proj |-> {"ctx"},
          add |-> {"proj", "input"}, ln2 |-> {"add"}, fcin |-> {"ln2"},
          gelu |-> {"fcin"}, fcout |-> {"gelu"}, resid |-> {"add", "fcout"}]

VARIABLES
  stage,    (* stage[c]: 0 when IDLE, else the stage controller c runs     *)
  start,    (* start[n]: the registered start pulse into n                 *)
  done,     (* done[n]: the registered done pulse out of n                 *)
  running,  (* units and adders that are not IDLE                          *)
  seen,     (* seen[u]: tokens whose data u has read in this run           *)
  out,      (* out[u]: the provenance of u's output register               *)
  norm,     (* norm[n]: the registers of LayerNorm adapter n               *)
  output,   (* the block's output register, in the MLP controller          *)
  input,    (* the token whose data the host drives (0 before the first)   *)
  waiting,  (* the host has started a token and waits for its done         *)
  fresh     (* the block has been reset since its last token               *)

registers == <<stage, start, done, running, seen, out, norm, output>>
host == <<input, waiting, fresh>>
vars == <<registers, host>>

\* LOAD with no lane loaded and not armed.
NormReset == [state |-> "LOAD", index |-> 0, armed |-> FALSE,
              held |-> {}, emitted |-> 0]

RegistersReset ==
  [stage |-> [c \in Controllers |-> 0],
   start |-> [n \in Nodes |-> FALSE],
   norm |-> [n \in Norms |-> NormReset],
   tensors |-> [u \in Leaves |-> {0}]]

Init ==
  /\ stage = RegistersReset.stage
  /\ start = RegistersReset.start
  /\ done = RegistersReset.start
  /\ running = {}
  /\ seen = [u \in Leaves |-> {}]
  /\ out = RegistersReset.tensors
  /\ norm = RegistersReset.norm
  /\ output = {0}
  /\ input = 0
  /\ waiting = FALSE
  /\ fresh = TRUE

-----------------------------------------------------------------------------
(* The controllers.  Each waits in a stage for that stage's done pulse.    *)

\* Controller c leaves IDLE, or leaves the stage it waits in.
LeavesIdle(c) == stage[c] = 0 /\ start[c]
StageOver(c) == stage[c] # 0 /\ done[Stages[c][stage[c]]]

NextStage(c) ==
  IF LeavesIdle(c) THEN 1
  ELSE IF StageOver(c) THEN (stage[c] + 1) % (Len(Stages[c]) + 1)
  ELSE stage[c]

\* Slip: only the first stage gets its start pulse.
StartingFirst(c) == LeavesIdle(c)
\* The stage controller c starts on this edge, if it starts one.
Starting(c) == LeavesIdle(c) \/ (StageOver(c) /\ NextStage(c) # 0)
Finishing(c) == StageOver(c) /\ NextStage(c) = 0
StartedNodes == {Stages[c][NextStage(c)] : c \in {d \in Controllers : Starting(d)}}

-----------------------------------------------------------------------------
(* The arithmetic units: a run reads the inputs on each of its edges.      *)

Provenance(t) == IF t = "input" THEN {input} ELSE out[t]
Inputs(u) == UNION {Provenance(t) : t \in Reads[u]}

Begins(u) == start[u] /\ u \notin running
\* An adder adds on the edge that starts it and is done on the next one.
Ends(u, go) == u \in running /\ (u \in Adders \/ u \in go)

UnitSeen(u) ==
  IF Begins(u) THEN {} ELSE IF u \in running THEN seen[u] \cup Inputs(u) ELSE seen[u]
UnitOut(u, go) ==
  IF u \notin running THEN out[u]
  ELSE (IF Ends(u, go) THEN {} ELSE out[u]) \cup seen[u] \cup Inputs(u)
AdderOut(u) == IF Begins(u) THEN Inputs(u) ELSE out[u]

-----------------------------------------------------------------------------
(* The LayerNorm adapter around the external gptneo_layernorm core.  "go"  *)
(* means the core is ready for a lane, or has one to emit.                 *)

NormLoad(n, go) ==
  LET r == norm[n]
      arming == [r EXCEPT !.armed = @ \/ (start[n] /\ r.index = 0)]
  IN IF r.armed /\ r.index = Lanes THEN [arming EXCEPT !.state = "START"]
     ELSE IF r.armed /\ go
          THEN [arming EXCEPT !.index = @ + 1, !.held = @ \cup Inputs(n)]
          ELSE arming

NormEmits(n, go) == norm[n].state = "RUN" /\ go
NormLast(n, go) == NormEmits(n, go) /\ norm[n].emitted + 1 = Lanes

\* The last lane returns the adapter to LOAD with no lane loaded.
NormFinish(n) == [NormReset EXCEPT !.armed = norm[n].armed]

NormNext(n, go) ==
  IF norm[n].state = "LOAD" THEN NormLoad(n, go)
  ELSE IF norm[n].state = "START" THEN [norm[n] EXCEPT !.state = "RUN"]
  ELSE IF NormLast(n, go) THEN NormFinish(n)
  ELSE IF NormEmits(n, go) THEN [norm[n] EXCEPT !.emitted = @ + 1]
  ELSE norm[n]

\* Every output lane depends on all loaded lanes.
NormOut(n, go) ==
  IF NormLast(n, go) THEN norm[n].held
  ELSE IF NormEmits(n, go) THEN out[n] \cup norm[n].held
  ELSE out[n]

-----------------------------------------------------------------------------
(* The clock edge.  "go" is the set of leaves whose internal work moves    *)
(* on at this edge; the host may raise the next start.                     *)

LeafOut(u, go) ==
  IF u \in Norms THEN NormOut(u, u \in go)
  ELSE IF u \in Adders THEN AdderOut(u) ELSE UnitOut(u, go)
LeafDone(u, go) == IF u \in Norms THEN NormLast(u, u \in go) ELSE Ends(u, go)

Advance(go, launch) ==
  /\ stage' = [c \in Controllers |-> NextStage(c)]
  /\ start' = [n \in Nodes |-> n \in StartedNodes \/ (n = "block" /\ launch)]
  /\ done' = [n \in Nodes |->
       IF n \in Controllers THEN Finishing(n) ELSE LeafDone(n, go)]
  /\ running' = {u \in Units \cup Adders : Begins(u) \/ (u \in running /\ ~Ends(u, go))}
  /\ seen' = [u \in Leaves |-> IF u \in Units THEN UnitSeen(u) ELSE {}]
  /\ out' = [u \in Leaves |-> LeafOut(u, go)]
  /\ norm' = [n \in Norms |-> NormNext(n, n \in go)]
  /\ output' = IF Finishing("mlp") THEN out["resid"] ELSE output

Busy == running \cup Norms

\* The host waits, or reads the result of the token that is done.
Run(go) ==
  /\ Advance(go, FALSE)
  /\ waiting' = (waiting /\ ~done["block"])
  /\ UNCHANGED <<input, fresh>>

\* The host drives the next token's data and raises start.
Launch(go) ==
  /\ ~waiting
  /\ input < Tokens
  /\ ColdStart => fresh
  /\ Advance(go, TRUE)
  /\ input' = input + 1
  /\ waiting' = TRUE
  /\ fresh' = FALSE

\* Everything is reset; the host takes a token it waited for as withdrawn.
Reset ==
  /\ stage' = RegistersReset.stage
  /\ start' = RegistersReset.start
  /\ done' = RegistersReset.start
  /\ running' = {}
  /\ seen' = [u \in Leaves |-> {}]
  /\ out' = RegistersReset.tensors
  /\ norm' = RegistersReset.norm
  /\ output' = {0}
  /\ waiting' = FALSE
  /\ fresh' = TRUE
  /\ UNCHANGED input

Next == (\E go \in SUBSET Busy : Run(go) \/ Launch(go)) \/ Reset

\* The clock runs and no leaf pauses for ever.
Fairness == WF_vars(Run(Busy))

Spec == Init /\ [][Next]_vars /\ Fairness

-----------------------------------------------------------------------------
(* Correctness. *)

TypeOK ==
  /\ \A c \in Controllers : stage[c] \in 0 .. Len(Stages[c])
  /\ start \in [Nodes -> BOOLEAN] /\ done \in [Nodes -> BOOLEAN]
  /\ running \subseteq Units \cup Adders
  /\ seen \in [Leaves -> SUBSET Token] /\ out \in [Leaves -> SUBSET Token]
  /\ \A n \in Norms : /\ norm[n].state \in {"LOAD", "START", "RUN"}
                      /\ norm[n].index \in 0 .. Lanes
                      /\ norm[n].emitted \in 0 .. Lanes - 1
                      /\ norm[n].held \subseteq Token
  /\ output \subseteq Token
  /\ input \in 0 .. Tokens /\ waiting \in BOOLEAN /\ fresh \in BOOLEAN

\* When the block reports done, its output is the result of the token the host
\* started, and of no other token's data.
OutputIsTheTokens == done["block"] => output = {input}

\* A running unit's inputs are finished: no unit or adder among them is still
\* writing, and all of them come from the token being run.
InputsAreSettled ==
  \A u \in running : /\ Reads[u] \cap running = {}
                     /\ Inputs(u) = {input}

\* A started token is finished, unless a reset withdraws it.
TokenFinishes == waiting ~> ~waiting
=============================================================================
