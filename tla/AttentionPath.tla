----------------------------- MODULE AttentionPath -----------------------------
(***************************************************************************)
(* One attention run, rtl/llm2fpga_attention_block_tensor.sv: its          *)
(* controller starts the score kernel, the softmax of SoftmaxScheduler     *)
(* and the context kernel in turn, on one clock and one reset.  The host   *)
(* presents position and tensors with start and holds them until done.     *)
(*                                                                         *)
(* Arithmetic is abstracted to provenance: an accumulator is the sequence  *)
(* of the products it adds, a product the pair of its factors.             *)
(***************************************************************************)
EXTENDS SoftmaxScheduler

CONSTANT HD   (* dimensions of a head                                      *)

ASSUME HDAssumption == HD \in Nat \ {0}

Dim == 0 .. HD - 1

VARIABLES
  attnState,    (* IDLE, SCORE, SOFT or CTX; its pulse sm is the           *)
                (* scheduler's start                                       *)
  attnStart, attnDone,
  scoreStart, contextStart,   (* the pulses ss and sc                      *)
  score,        (* the score kernel's registers                            *)
  scores,       (* scores[h][k], its output register                       *)
  ctx,          (* the context kernel's registers                          *)
  context       (* context[h][d], its output register                      *)

controllerRegs == <<attnState, attnStart, attnDone, scoreStart, contextStart>>
kernelRegs == <<score, scores, ctx, context>>
attentionVars == <<vars, controllerRegs, kernelRegs>>

KernelReset == [state |-> "IDLE", head |-> 0, key |-> 0, dim |-> 0, accum |-> <<>>, done |-> FALSE]
NoScores == [h \in HeadId |-> [k \in Slot |-> Blank]]
NoContext == [h \in HeadId |-> [d \in Dim |-> <<>>]]

AttentionInit ==
  /\ Init
  /\ attnState = "IDLE"
  /\ attnStart = FALSE /\ attnDone = FALSE /\ scoreStart = FALSE /\ contextStart = FALSE
  /\ score = KernelReset /\ scores = NoScores
  /\ ctx = KernelReset /\ context = NoContext

-----------------------------------------------------------------------------
(* The score kernel. *)

\* The factors of one product of a query and a key of this run.
Factors(r, h, k, d) == <<r, h, k, d>>

\* A sum over all the dimensions of a query and a key is their score.
Total(sum, h, k) ==
  IF sum = [n \in 1 .. HD |-> Factors(run, h, k, n - 1)] THEN Score(run, h, k) ELSE sum

ScoreIdle ==
  /\ score.state = "IDLE"
  /\ score' = IF scoreStart THEN [KernelReset EXCEPT !.state = "MAC"]
              ELSE [score EXCEPT !.done = FALSE]
  /\ UNCHANGED scores

ScoreMac ==
  /\ score.state = "MAC"
  /\ LET sum == Append(score.accum, Factors(run, score.head, score.key, score.dim))
     IN score' = IF score.dim = HD - 1
                 THEN [score EXCEPT !.accum = sum, !.state = "EMIT"]
                 ELSE [score EXCEPT !.accum = sum, !.dim = @ + 1]
  /\ UNCHANGED scores

\* The kernel goes on with the next key, the next head, or is done.
AfterScore(s) ==
  IF s.key < TMax - 1 THEN [s EXCEPT !.dim = 0, !.accum = <<>>, !.key = @ + 1, !.state = "MAC"]
  ELSE IF s.head < Heads - 1
  THEN [KernelReset EXCEPT !.state = "MAC", !.head = s.head + 1]
  ELSE [KernelReset EXCEPT !.head = s.head, !.done = TRUE]

ScoreEmit ==
  /\ score.state = "EMIT"
  /\ scores' = [scores EXCEPT ![score.head][score.key] =
                  IF score.key <= position
                  THEN Total(score.accum, score.head, score.key) ELSE Blank]
  /\ score' = AfterScore(score)

ScoreKernel == ScoreIdle \/ ScoreMac \/ ScoreEmit

-----------------------------------------------------------------------------
(* The context kernel: it reduces over all keys and skips those beyond the *)
(* position, whose probabilities nobody clears.                            *)

ContextIdle ==
  /\ ctx.state = "IDLE"
  /\ ctx' = IF contextStart THEN [KernelReset EXCEPT !.state = "REDUCE"]
            ELSE [ctx EXCEPT !.done = FALSE]
  /\ UNCHANGED context

\* Slip: the keys beyond the position are added as well.
CausalAlways(k) == k \in Slot
Causal(k) == k <= position

ContextReduce ==
  /\ ctx.state = "REDUCE"
  /\ LET product == <<probabilities[ctx.head][ctx.key], Factors(run, ctx.head, ctx.key, ctx.dim)>>
     IN ctx' = [ctx EXCEPT
           !.accum = IF Causal(ctx.key) THEN Append(@, product) ELSE @,
           !.key = (@ + 1) % TMax,
           !.state = IF ctx.key = TMax - 1 THEN "EMIT" ELSE @]
  /\ UNCHANGED context

AfterContext(c) ==
  IF c.dim < HD - 1
  THEN [KernelReset EXCEPT !.state = "REDUCE", !.head = c.head, !.dim = c.dim + 1]
  ELSE IF c.head < Heads - 1
  THEN [KernelReset EXCEPT !.state = "REDUCE", !.head = c.head + 1]
  ELSE [KernelReset EXCEPT !.head = c.head, !.done = TRUE]

ContextEmit ==
  /\ ctx.state = "EMIT"
  /\ context' = [context EXCEPT ![ctx.head][ctx.dim] = ctx.accum]
  /\ ctx' = AfterContext(ctx)

ContextKernel == ContextIdle \/ ContextReduce \/ ContextEmit

-----------------------------------------------------------------------------
(* The controller, the host and the clock edge. *)

\* Slip: the softmax is started with the scores.
AwaitedAtOnce == [SCORE |-> scoreStart, SOFT |-> done, CTX |-> ctx.done]
\* Slip: the context is over when the softmax reports done, which it has.
AwaitedWrong == [SCORE |-> score.done, SOFT |-> done, CTX |-> done]
\* The pulse that ends each stage, and the stage after it.
Awaited == [SCORE |-> score.done, SOFT |-> done, CTX |-> ctx.done]
After == [IDLE |-> "SCORE", SCORE |-> "SOFT", SOFT |-> "CTX", CTX |-> "IDLE"]

Moves == IF attnState = "IDLE" THEN attnStart ELSE Awaited[attnState]
Enters(stage) == Moves /\ After[attnState] = stage

Controller ==
  /\ attnState' = IF Moves THEN After[attnState] ELSE attnState
  /\ scoreStart' = Enters("SCORE")
  /\ start' = Enters("SOFT")
  /\ contextStart' = Enters("CTX")
  /\ attnDone' = Enters("IDLE")

\* Every register moves; the softmax wrapper hands the scores to the row core.
AttentionEdge ==
  /\ Controller
  /\ ScoreKernel
  /\ Scheduler
  /\ CoreEdge(CoreStarting, position, CoreOffered, scores[head][key], ack)
  /\ ContextKernel

HostHolds == attnStart' = FALSE /\ UNCHANGED <<position, run>>

HostLaunches(p) ==
  /\ attnState = "IDLE"
  /\ ~attnStart
  /\ run < Runs
  /\ attnStart' = TRUE
  /\ position' = p
  /\ run' = run + 1

AttentionRun == AttentionEdge /\ HostHolds

AttentionReset ==
  /\ Reset
  /\ attnState' = "IDLE"
  /\ attnStart' = FALSE /\ attnDone' = FALSE /\ scoreStart' = FALSE /\ contextStart' = FALSE
  /\ score' = KernelReset /\ scores' = NoScores
  /\ ctx' = KernelReset /\ context' = NoContext

AttentionNext ==
  \/ AttentionRun
  \/ \E p \in Slot : AttentionEdge /\ HostLaunches(p)
  \/ AttentionReset

AttentionSpec == AttentionInit /\ [][AttentionNext]_attentionVars /\ WF_attentionVars(AttentionRun)

-----------------------------------------------------------------------------
(* Correctness. *)

Products == (1 .. Runs) \X HeadId \X Slot \X Dim

\* A kernel's registers: its states, and what it adds up.
Registers(states, Addends) ==
  [state : states, head : HeadId, key : Slot, dim : Dim, accum : Seq(Addends), done : BOOLEAN]

AttentionTypeOK ==
  /\ TypeOK
  /\ attnState \in DOMAIN After
  /\ attnStart \in BOOLEAN /\ attnDone \in BOOLEAN
  /\ scoreStart \in BOOLEAN /\ contextStart \in BOOLEAN
  /\ score \in Registers({"IDLE", "MAC", "EMIT"}, Products)
  /\ ctx \in Registers({"IDLE", "REDUCE", "EMIT"}, Shares \X Products)
  /\ scores \in [HeadId -> [Slot -> Scores]]
  /\ context \in [HeadId -> [Dim -> Seq(Shares \X Products)]]

\* When the block reports done, every dimension of every head is the sum over
\* the causal keys of this run, each taken once: the share of that key in its
\* own causal row times the key's own value.
ContextIsRight ==
  attnDone => \A h \in HeadId, d \in Dim :
    context[h][d] = [n \in 1 .. position + 1 |->
                       <<Share(CausalRow(h), n - 1), Factors(run, h, n - 1, d)>>]

\* With this caller and these scores the softmax is the one SoftmaxScheduler
\* specifies, so what is proved of that holds here.
ImplementsScheduler == Spec

\* A started run is finished, unless a reset withdraws it.
AttentionFinishes == attnStart ~> attnDone \/ (attnState = "IDLE" /\ ~attnStart)
=============================================================================
