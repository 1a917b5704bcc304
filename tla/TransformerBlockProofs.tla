------------------------- MODULE TransformerBlockProofs -------------------------
(***************************************************************************)
(* Proofs about TransformerBlock for every number of tokens and of lanes:  *)
(* when every token follows a reset, each unit reads finished tensors of   *)
(* its own token and the block's output is that token's result.            *)
(***************************************************************************)
EXTENDS TransformerBlock, TLAPS

Child(c, i) == Stages[c][i]
StagesOf(c) == 1 .. Len(Stages[c])

(***************************************************************************)
(* Control.  A node other than a LayerNorm adapter is started, at work or  *)
(* done one at a time, and only while its parent waits for it.  An adapter *)
(* stays armed when it is done and runs again by itself, so of it only the *)
(* start pulse is known.                                                   *)
(***************************************************************************)

AtWork(n) == IF n \in Controllers THEN stage[n] # 0 ELSE n \in running
Active(n) == start[n] \/ (n \notin Norms /\ (AtWork(n) \/ done[n]))

OneAtATime ==
  \A n \in Nodes \ Norms : ~(start[n] /\ AtWork(n)) /\ ~(start[n] /\ done[n])
                           /\ ~(AtWork(n) /\ done[n])

ParentWaits == \A c \in Controllers : \A i \in StagesOf(c) : Active(Child(c, i)) => stage[c] = i

(***************************************************************************)
(* Data.  A leaf is settled when its tensor is the current token's; once   *)
(* settled it stays so until the host moves on to another token.           *)
(***************************************************************************)

Settled(u) == out[u] = {input}
LeavesUnder(n) ==
  IF n = "qkv" THEN ToSet(QkvStages)
  ELSE IF n = "attn" THEN ToSet(AttentionStages)
  ELSE IF n = "ar" THEN ToSet(AttentionStages) \cup {"proj", "add"}
  ELSE IF n = "mlp" THEN ToSet(MlpStages)
  ELSE IF n = "block" THEN Leaves
  ELSE {n}
Completed(n) == \A u \in LeavesUnder(n) : Settled(u)

EarlierStagesCompleted ==
  \A c \in Controllers : \A i \in StagesOf(c) : i < stage[c] => Completed(Child(c, i))
DoneIsCompleted == \A n \in Nodes : done[n] => Completed(n)

InputsSettled(u) == \A t \in Reads[u] : t = "input" \/ Settled(t)

UnitsRead ==
  /\ \A u \in running : InputsSettled(u)
  /\ \A u \in running \cap Units : seen[u] \subseteq {input}
  /\ \A u \in running \cap Adders : Settled(u)

NormHolds(n) ==
  /\ norm[n].armed => InputsSettled(n)
  /\ ~norm[n].armed => norm[n] = NormReset
  /\ norm[n].held = IF norm[n].index = 0 THEN {} ELSE {input}
  /\ norm[n].state # "LOAD" => norm[n].index = Lanes
NormsRead == \A n \in Norms : NormHolds(n)

OutputIsResult == done["mlp"] \/ done["block"] => output = {input}

(***************************************************************************)
(* A block that has been reset and not yet launched does nothing.          *)
(***************************************************************************)

Quiet ==
  /\ \A c \in Controllers : stage[c] = 0
  /\ \A n \in Nodes : ~start[n] /\ ~done[n]
  /\ running = {}
  /\ \A n \in Norms : norm[n] = NormReset
FreshIsQuiet == fresh => Quiet

ColdInv ==
  /\ OneAtATime
  /\ ParentWaits
  /\ EarlierStagesCompleted
  /\ DoneIsCompleted
  /\ UnitsRead
  /\ NormsRead
  /\ OutputIsResult
  /\ FreshIsQuiet
-----------------------------------------------------------------------------
(* The tree of controllers, units, adders and adapters. *)

ControllerNames == {"block", "qkv", "ar", "attn", "mlp"}
LeafNames == {"ln1", "q", "k", "v", "score", "softmax", "ctx", "proj", "add",
              "ln2", "fcin", "gelu", "fcout", "resid"}

LEMMA StageTable ==
  /\ Controllers = ControllerNames
  /\ Stages["block"] = BlockStages /\ Len(Stages["block"]) = 4
  /\ Stages["qkv"] = QkvStages /\ Len(Stages["qkv"]) = 4
  /\ Stages["ar"] = ResidualStages /\ Len(Stages["ar"]) = 3
  /\ Stages["attn"] = AttentionStages /\ Len(Stages["attn"]) = 3
  /\ Stages["mlp"] = MlpStages /\ Len(Stages["mlp"]) = 4
  BY DEF Controllers, ControllerNames, Stages, BlockStages, QkvStages, ResidualStages,
         AttentionStages, MlpStages

LEMMA ToSets ==
  /\ ToSet(BlockStages) = {"qkv", "ar", "ln2", "mlp"}
  /\ ToSet(QkvStages) = {"ln1", "q", "k", "v"}
  /\ ToSet(ResidualStages) = {"attn", "proj", "add"}
  /\ ToSet(AttentionStages) = {"score", "softmax", "ctx"}
  /\ ToSet(MlpStages) = {"fcin", "gelu", "fcout", "resid"}
  BY DEF ToSet, BlockStages, QkvStages, ResidualStages, AttentionStages, MlpStages

LEMMA NodeNames ==
  /\ Nodes = ControllerNames \cup LeafNames
  /\ Leaves = LeafNames
  /\ Units = LeafNames \ {"ln1", "ln2", "add", "resid"}
  <1>1. UNION {ToSet(Stages[c]) : c \in Controllers}
          = ToSet(BlockStages) \cup ToSet(QkvStages) \cup ToSet(ResidualStages)
            \cup ToSet(AttentionStages) \cup ToSet(MlpStages)
    BY StageTable, Zenon DEF ControllerNames
  <1>2. Nodes = ControllerNames \cup LeafNames
    BY <1>1, ToSets DEF Nodes, ControllerNames, LeafNames
  <1>3. Leaves = LeafNames
    BY <1>2, StageTable DEF Leaves, ControllerNames, LeafNames
  <1>4. QED
    BY <1>2, <1>3 DEF Units, Norms, Adders, LeafNames

LEMMA ChildNames ==
  /\ Child("block", 1) = "qkv" /\ Child("block", 2) = "ar"
  /\ Child("block", 3) = "ln2" /\ Child("block", 4) = "mlp"
  /\ Child("qkv", 1) = "ln1" /\ Child("qkv", 2) = "q"
  /\ Child("qkv", 3) = "k" /\ Child("qkv", 4) = "v"
  /\ Child("ar", 1) = "attn" /\ Child("ar", 2) = "proj" /\ Child("ar", 3) = "add"
  /\ Child("attn", 1) = "score" /\ Child("attn", 2) = "softmax" /\ Child("attn", 3) = "ctx"
  /\ Child("mlp", 1) = "fcin" /\ Child("mlp", 2) = "gelu"
  /\ Child("mlp", 3) = "fcout" /\ Child("mlp", 4) = "resid"
  BY StageTable DEF Child, BlockStages, QkvStages, ResidualStages, AttentionStages, MlpStages

\* A controller's stages.
LEMMA StageNumbers ==
  /\ Controllers = ControllerNames
  /\ StagesOf("block") = 1 .. 4 /\ StagesOf("qkv") = 1 .. 4 /\ StagesOf("ar") = 1 .. 3
  /\ StagesOf("attn") = 1 .. 3 /\ StagesOf("mlp") = 1 .. 4
  /\ \A c \in Controllers : Len(Stages[c]) \in Nat /\ Len(Stages[c]) >= 1
                            /\ StagesOf(c) = 1 .. Len(Stages[c])
  <1>1. \A c \in Controllers : Len(Stages[c]) \in {3, 4}
    BY StageTable DEF ControllerNames
  <1>2. QED
    BY <1>1, StageTable DEF StagesOf

\* The controller a node is a stage of, and which one it is.
Place(n) ==
  LET parent == [qkv |-> "block", ar |-> "block", ln2 |-> "block", mlp |-> "block",
                 ln1 |-> "qkv", q |-> "qkv", k |-> "qkv", v |-> "qkv",
                 attn |-> "ar", proj |-> "ar", add |-> "ar",
                 score |-> "attn", softmax |-> "attn", ctx |-> "attn",
                 fcin |-> "mlp", gelu |-> "mlp", fcout |-> "mlp", resid |-> "mlp"]
      number == [qkv |-> 1, ar |-> 2, ln2 |-> 3, mlp |-> 4,
                 ln1 |-> 1, q |-> 2, k |-> 3, v |-> 4,
                 attn |-> 1, proj |-> 2, add |-> 3,
                 score |-> 1, softmax |-> 2, ctx |-> 3,
                 fcin |-> 1, gelu |-> 2, fcout |-> 3, resid |-> 4]
  IN <<parent[n], number[n]>>

\* Every node but the block is one stage of one controller.
LEMMA OneParent ==
  ASSUME NEW c \in Controllers, NEW i \in StagesOf(c)
  PROVE  /\ Child(c, i) \in Nodes
         /\ Child(c, i) # "block"
         /\ \A d \in Controllers : \A j \in StagesOf(d) :
              Child(c, i) = Child(d, j) => c = d /\ i = j
  <1>1. ASSUME NEW d \in Controllers, NEW j \in StagesOf(d)
        PROVE  Place(Child(d, j)) = <<d, j>> /\ Child(d, j) # "block" /\ Child(d, j) \in Nodes
    <2>1. CASE d = "block"
      <3>1. j \in {1, 2, 3, 4}
        BY <2>1, StageNumbers
      <3>2. QED
        BY <2>1, <3>1, ChildNames, NodeNames DEF Place, ControllerNames, LeafNames
    <2>2. CASE d = "qkv"
      <3>1. j \in {1, 2, 3, 4}
        BY <2>2, StageNumbers
      <3>2. QED
        BY <2>2, <3>1, ChildNames, NodeNames DEF Place, ControllerNames, LeafNames
    <2>3. CASE d = "ar"
      <3>1. j \in {1, 2, 3}
        BY <2>3, StageNumbers
      <3>2. QED
        BY <2>3, <3>1, ChildNames, NodeNames DEF Place, ControllerNames, LeafNames
    <2>4. CASE d = "attn"
      <3>1. j \in {1, 2, 3}
        BY <2>4, StageNumbers
      <3>2. QED
        BY <2>4, <3>1, ChildNames, NodeNames DEF Place, ControllerNames, LeafNames
    <2>5. CASE d = "mlp"
      <3>1. j \in {1, 2, 3, 4}
        BY <2>5, StageNumbers
      <3>2. QED
        BY <2>5, <3>1, ChildNames, NodeNames DEF Place, ControllerNames, LeafNames
    <2>6. QED
      BY <2>1, <2>2, <2>3, <2>4, <2>5, StageNumbers DEF ControllerNames
  <1>2. QED
    BY <1>1

\* A controller is completed when its stages are.
LEMMA CompletedByStages ==
  ASSUME NEW c \in Controllers, \A i \in StagesOf(c) : Completed(Child(c, i))
  PROVE  Completed(c)
  <1>1. CASE c = "block"
    <2>1. /\ Completed("qkv") /\ Completed("ar") /\ Completed("ln2") /\ Completed("mlp")
      BY <1>1, StageNumbers, ChildNames
    <2>2. QED
      BY <1>1, <2>1, NodeNames, ToSets DEF Completed, LeavesUnder, LeafNames
  <1>2. CASE c = "qkv"
    <2>1. Completed("ln1") /\ Completed("q") /\ Completed("k") /\ Completed("v")
      BY <1>2, StageNumbers, ChildNames
    <2>2. QED
      BY <1>2, <2>1, ToSets DEF Completed, LeavesUnder
  <1>3. CASE c = "ar"
    <2>1. Completed("attn") /\ Completed("proj") /\ Completed("add")
      BY <1>3, StageNumbers, ChildNames
    <2>2. QED
      BY <1>3, <2>1, ToSets DEF Completed, LeavesUnder
  <1>4. CASE c = "attn"
    <2>1. Completed("score") /\ Completed("softmax") /\ Completed("ctx")
      BY <1>4, StageNumbers, ChildNames
    <2>2. QED
      BY <1>4, <2>1, ToSets DEF Completed, LeavesUnder
  <1>5. CASE c = "mlp"
    <2>1. Completed("fcin") /\ Completed("gelu") /\ Completed("fcout") /\ Completed("resid")
      BY <1>5, StageNumbers, ChildNames
    <2>2. QED
      BY <1>5, <2>1, ToSets DEF Completed, LeavesUnder
  <1>6. QED
    BY <1>1, <1>2, <1>3, <1>4, <1>5, StageNumbers DEF ControllerNames
-----------------------------------------------------------------------------
(* Types. *)

NormType == [state : {"LOAD", "START", "RUN"}, index : 0 .. Lanes, armed : BOOLEAN,
             held : SUBSET Token, emitted : 0 .. Lanes - 1]

\* TypeOK, and the adapters' registers are records.
Types == TypeOK /\ norm \in [Norms -> NormType]

LEMMA ReadsOfLeaves ==
  \A u \in Leaves : Reads[u] # {} /\ Reads[u] \subseteq Leaves \cup {"input"}
  BY NodeNames DEF Reads, LeafNames

LEMMA NodeKinds ==
  /\ Controllers \subseteq Nodes /\ Leaves \subseteq Nodes
  /\ Units \subseteq Leaves /\ Adders \subseteq Leaves /\ Norms \subseteq Leaves
  /\ Leaves = Nodes \ Controllers
  /\ Units = Leaves \ (Norms \cup Adders)
  /\ Norms \cap Adders = {} /\ "block" \in Nodes /\ "mlp" \in Controllers
  BY NodeNames, StageTable
     DEF ControllerNames, LeafNames, Leaves, Units, Norms, Adders

LEMMA InputsTyped ==
  ASSUME Types, NEW u \in Leaves
  PROVE  Inputs(u) \subseteq Token
  <1>1. \A t \in Reads[u] : Provenance(t) \subseteq Token
    BY ReadsOfLeaves DEF Types, TypeOK, Provenance, Token
  <1>2. QED
    BY <1>1 DEF Inputs

\* What each state of an adapter does.
LEMMA NormStates ==
  ASSUME NEW n, NEW go
  PROVE  /\ norm[n].state = "LOAD" => NormNext(n, go) = NormLoad(n, go)
         /\ norm[n].state = "START" => NormNext(n, go) = [norm[n] EXCEPT !.state = "RUN"]
         /\ norm[n].state = "RUN" /\ NormLast(n, go) => NormNext(n, go) = NormFinish(n)
         /\ norm[n].state = "RUN" /\ ~NormLast(n, go) /\ NormEmits(n, go) =>
              NormNext(n, go) = [norm[n] EXCEPT !.emitted = @ + 1]
         /\ norm[n].state = "RUN" /\ ~NormEmits(n, go) => NormNext(n, go) = norm[n]
  BY DEF NormNext, NormLast, NormEmits

LEMMA NormResetTyped == NormReset \in NormType
  BY LanesAssumption DEF NormReset, NormType

LEMMA NormLoadTyped ==
  ASSUME NEW n \in Norms, NEW go, norm[n] \in NormType, norm[n].state = "LOAD",
         start[n] \in BOOLEAN, Inputs(n) \subseteq Token
  PROVE  NormLoad(n, go) \in NormType
  <1> DEFINE r == norm[n]
             arming == [r EXCEPT !.armed = r.armed \/ (start[n] /\ r.index = 0)]
  <1>1. (r.armed \/ (start[n] /\ r.index = 0)) \in BOOLEAN
    BY DEF NormType
  <1>2. /\ arming \in NormType
        /\ arming.index = r.index /\ arming.held = r.held
    BY <1>1 DEF NormType
  <1>3. [arming EXCEPT !.state = "START"] \in NormType
    BY <1>2 DEF NormType
  <1>4. ASSUME r.index # Lanes
        PROVE  [arming EXCEPT !.index = @ + 1, !.held = @ \cup Inputs(n)] \in NormType
    <2> HIDE DEF arming
    <2>1. [arming EXCEPT !.index = @ + 1, !.held = @ \cup Inputs(n)]
            = [[arming EXCEPT !.index = arming.index + 1]
                 EXCEPT !.held = arming.held \cup Inputs(n)]
      OBVIOUS
    <2>2. arming.index \in 0 .. Lanes /\ arming.index # Lanes
      BY <1>2, <1>4 DEF NormType
    <2>3. arming.index + 1 \in 0 .. Lanes
      BY <2>2, LanesAssumption
    <2>4. arming.held \cup Inputs(n) \in SUBSET Token
      BY <1>2 DEF NormType
    <2>5. [arming EXCEPT !.index = arming.index + 1] \in NormType
      BY <1>2, <2>3 DEF NormType
    <2>6. \A e \in NormType : \A h \in SUBSET Token : [e EXCEPT !.held = h] \in NormType
      BY DEF NormType
    <2>7. QED
      BY <2>1, <2>4, <2>5, <2>6
  <1>5. NormLoad(n, go) =
          IF r.armed /\ r.index = Lanes THEN [arming EXCEPT !.state = "START"]
          ELSE IF r.armed /\ go
               THEN [arming EXCEPT !.index = @ + 1, !.held = @ \cup Inputs(n)]
               ELSE arming
    BY DEF NormLoad
  <1>6. QED
    BY <1>2, <1>3, <1>4, <1>5

LEMMA NormNextTyped ==
  ASSUME Types, NEW n \in Norms, NEW go
  PROVE  NormNext(n, go) \in NormType
  <1>1. norm[n] \in NormType /\ n \in Nodes /\ start[n] \in BOOLEAN
    BY NodeKinds DEF Types, TypeOK
  <1>2. Inputs(n) \subseteq Token
    BY InputsTyped, NodeKinds
  <1>3. CASE norm[n].state = "LOAD"
    <2>1. NormNext(n, go) = NormLoad(n, go)
      BY <1>3, NormStates
    <2>2. QED
      BY <2>1, <1>1, <1>2, <1>3, NormLoadTyped
  <1>4. CASE norm[n].state = "START"
    <2>1. NormNext(n, go) = [norm[n] EXCEPT !.state = "RUN"]
      BY <1>4, NormStates
    <2>2. QED
      BY <2>1, <1>1 DEF NormType
  <1>5. CASE norm[n].state = "RUN"
    <2>1. NormNext(n, go) = IF NormLast(n, go) THEN NormFinish(n)
            ELSE IF NormEmits(n, go) THEN [norm[n] EXCEPT !.emitted = @ + 1] ELSE norm[n]
      BY <1>5, NormStates DEF NormLast
    <2>2. NormFinish(n) \in NormType
      BY <1>1, NormResetTyped DEF NormFinish, NormType
    <2>3. ASSUME ~NormLast(n, go), NormEmits(n, go)
          PROVE  [norm[n] EXCEPT !.emitted = @ + 1] \in NormType
      BY <2>3, <1>1, LanesAssumption DEF NormLast, NormType
    <2>4. QED
      BY <2>1, <2>2, <2>3, <1>1
  <1>6. QED
    BY <1>1, <1>3, <1>4, <1>5 DEF NormType

LEMMA NormOutTyped ==
  ASSUME Types, NEW n \in Norms, NEW go
  PROVE  NormOut(n, go) \subseteq Token
  <1>1. norm[n].held \subseteq Token /\ out[n] \subseteq Token
    BY NodeKinds DEF Types, TypeOK
  <1>2. QED
    BY <1>1 DEF NormOut

\* Stopped past its last stage, else one stage on.
LEMMA StageAfter ==
  ASSUME Types, NEW c \in Controllers, StageOver(c), ~LeavesIdle(c)
  PROVE  /\ stage[c] = Len(Stages[c]) => NextStage(c) = 0
         /\ stage[c] # Len(Stages[c]) => NextStage(c) = stage[c] + 1
  <1>1. stage[c] \in 0 .. Len(Stages[c])
    BY DEF Types, TypeOK
  <1>2. CASE Len(Stages[c]) = 3
    BY <1>1, <1>2 DEF NextStage
  <1>3. CASE Len(Stages[c]) = 4
    BY <1>1, <1>3 DEF NextStage
  <1>4. QED
    BY <1>2, <1>3, StageTable DEF ControllerNames

LEMMA NextStageTyped ==
  ASSUME Types, NEW c \in Controllers
  PROVE  NextStage(c) \in 0 .. Len(Stages[c])
  <1>1. stage[c] \in 0 .. Len(Stages[c]) /\ Len(Stages[c]) \in Nat /\ Len(Stages[c]) >= 1
    BY StageNumbers DEF Types, TypeOK
  <1>2. QED
    BY <1>1, StageAfter DEF NextStage

LEMMA AdvanceTyped ==
  ASSUME Types, NEW go \in SUBSET Busy, NEW launch \in BOOLEAN, Advance(go, launch),
         input' \in 0 .. Tokens, waiting' \in BOOLEAN, fresh' \in BOOLEAN
  PROVE  Types'
  <1> USE DEF Types, TypeOK
  <1>1. \A c \in Controllers : stage'[c] \in 0 .. Len(Stages[c])
    BY NextStageTyped DEF Advance
  <1>2. start' \in [Nodes -> BOOLEAN]
    BY DEF Advance
  <1>3. done' \in [Nodes -> BOOLEAN]
    <2>1. \A n \in Nodes : Finishing(n) \in BOOLEAN /\ LeafDone(n, go) \in BOOLEAN
      BY DEF Finishing, LeafDone, NormLast, Ends
    <2>2. QED
      BY <2>1 DEF Advance
  <1>4. running' \subseteq Units \cup Adders
    BY DEF Advance
  <1>5. seen' \in [Leaves -> SUBSET Token]
    <2>1. \A u \in Units : UnitSeen(u) \subseteq Token
      BY InputsTyped, NodeKinds DEF UnitSeen
    <2>2. QED
      BY <2>1 DEF Advance
  <1>6. out' \in [Leaves -> SUBSET Token]
    <2>1. \A u \in Norms : NormOut(u, u \in go) \subseteq Token
      BY NormOutTyped
    <2>2. \A u \in Leaves : AdderOut(u) \subseteq Token
      BY InputsTyped DEF AdderOut
    <2>3. \A u \in Units \cup Adders : UnitOut(u, go) \subseteq Token
      BY InputsTyped, NodeKinds DEF UnitOut
    <2>4. \A u \in Leaves : out'[u] \subseteq Token
      <3>1. TAKE u \in Leaves
      <3>2. CASE u \in Norms
        BY <3>2, <2>1 DEF Advance, LeafOut
      <3>3. CASE u \in Adders
        BY <3>3, <2>2, NodeKinds DEF Advance, LeafOut
      <3>4. CASE u \notin Norms /\ u \notin Adders
        BY <3>4, <2>3, NodeKinds DEF Advance, LeafOut
      <3>5. QED
        BY <3>2, <3>3, <3>4
    <2>5. QED
      BY <2>4 DEF Advance
  <1>7. norm' \in [Norms -> NormType]
    BY NormNextTyped DEF Advance
  <1>8. output' \subseteq Token
    BY NodeNames DEF Advance, LeafNames
  <1>9. \A n \in Norms : /\ norm'[n].state \in {"LOAD", "START", "RUN"}
                         /\ norm'[n].index \in 0 .. Lanes
                         /\ norm'[n].emitted \in 0 .. Lanes - 1
                         /\ norm'[n].held \subseteq Token
    BY <1>7 DEF NormType
  <1>10. QED
    BY <1>1, <1>2, <1>3, <1>4, <1>5, <1>6, <1>7, <1>8, <1>9

LEMMA InitTyped == Init => Types
  <1> SUFFICES ASSUME Init PROVE Types
    OBVIOUS
  <1>1. \A c \in Controllers : stage[c] \in 0 .. Len(Stages[c])
    BY StageNumbers DEF Init, RegistersReset
  <1>2. norm = [n \in Norms |-> NormReset]
    BY DEF Init, RegistersReset
  <1>3. /\ start \in [Nodes -> BOOLEAN] /\ done \in [Nodes -> BOOLEAN]
        /\ seen \in [Leaves -> SUBSET Token] /\ out \in [Leaves -> SUBSET Token]
    BY TokensAssumption DEF Init, RegistersReset, Token
  <1>4. norm \in [Norms -> NormType]
    BY <1>2, NormResetTyped
  <1>5. \A n \in Norms : /\ norm[n].state \in {"LOAD", "START", "RUN"}
                         /\ norm[n].index \in 0 .. Lanes
                         /\ norm[n].emitted \in 0 .. Lanes - 1
                         /\ norm[n].held \subseteq Token
    BY <1>4 DEF NormType
  <1>6. /\ running \subseteq Units \cup Adders /\ output \subseteq Token
        /\ input \in 0 .. Tokens /\ waiting \in BOOLEAN /\ fresh \in BOOLEAN
    <2>1. running = {} /\ output = {0} /\ input \in 0 .. Tokens
      BY TokensAssumption DEF Init, Types, TypeOK
    <2>2. waiting \in BOOLEAN /\ fresh \in BOOLEAN
      BY Zenon DEF Init
    <2>3. QED
      BY <2>1, <2>2, TokensAssumption DEF Token
  <1>7. QED
    BY <1>1, <1>3, <1>4, <1>5, <1>6 DEF Types, TypeOK

LEMMA ResetTyped == Types /\ Reset => Types'
  <1> SUFFICES ASSUME Types, Reset PROVE Types'
    OBVIOUS
  <1>1. \A c \in Controllers : stage'[c] \in 0 .. Len(Stages[c])
    BY StageNumbers DEF Reset, RegistersReset
  <1>2. norm' = [n \in Norms |-> NormReset]
    BY DEF Reset, RegistersReset
  <1>3. /\ start' \in [Nodes -> BOOLEAN] /\ done' \in [Nodes -> BOOLEAN]
        /\ seen' \in [Leaves -> SUBSET Token] /\ out' \in [Leaves -> SUBSET Token]
    BY TokensAssumption DEF Reset, RegistersReset, Token
  <1>4. norm' \in [Norms -> NormType]
    BY <1>2, NormResetTyped
  <1>5. \A n \in Norms : /\ norm'[n].state \in {"LOAD", "START", "RUN"}
                         /\ norm'[n].index \in 0 .. Lanes
                         /\ norm'[n].emitted \in 0 .. Lanes - 1
                         /\ norm'[n].held \subseteq Token
    BY <1>4 DEF NormType
  <1>6. /\ running' \subseteq Units \cup Adders /\ output' \subseteq Token
        /\ input' \in 0 .. Tokens /\ waiting' \in BOOLEAN /\ fresh' \in BOOLEAN
    <2>1. running' = {} /\ output' = {0} /\ input' \in 0 .. Tokens
      BY TokensAssumption DEF Reset, Types, TypeOK
    <2>2. waiting' \in BOOLEAN /\ fresh' \in BOOLEAN
      BY Zenon DEF Reset
    <2>3. QED
      BY <2>1, <2>2, TokensAssumption DEF Token
  <1>7. QED
    BY <1>1, <1>3, <1>4, <1>5, <1>6 DEF Types, TypeOK

LEMMA Typed == Spec => []Types
  <1>1. Types /\ [Next]_vars => Types'
    <2> SUFFICES ASSUME Types, [Next]_vars PROVE Types'
      OBVIOUS
    <2>1. ASSUME NEW go \in SUBSET Busy, Run(go) PROVE Types'
      BY <2>1, AdvanceTyped DEF Run, Types, TypeOK
    <2>2. ASSUME NEW go \in SUBSET Busy, Launch(go) PROVE Types'
      <3>1. input' \in 0 .. Tokens
        BY <2>2, TokensAssumption DEF Launch, Types, TypeOK
      <3>2. QED
        BY <2>2, <3>1, AdvanceTyped DEF Launch
    <2>3. CASE UNCHANGED vars
      BY <2>3 DEF vars, registers, host, Types, TypeOK
    <2>4. QED
      BY <2>1, <2>2, <2>3, ResetTyped DEF Next
  <1>2. QED
    BY InitTyped, <1>1, PTL DEF Spec

\* The registers keep their types, whatever the host does between tokens.
THEOREM TypeCorrect == Spec => []TypeOK
  <1>1. Types => TypeOK
    BY DEF Types
  <1>2. QED
    BY Typed, <1>1, PTL
-----------------------------------------------------------------------------
(* Control: at every edge the one active child of a controller is replaced *)
(* by the next one.                                                        *)

\* What makes a start pulse.
LEMMA StartsFrom ==
  ASSUME Types, NEW go, NEW launch \in BOOLEAN, Advance(go, launch),
         NEW n \in Nodes, start'[n], ~(n = "block" /\ launch)
  PROVE  \E c \in Controllers : \E i \in StagesOf(c) :
           n = Child(c, i) /\ stage[c] # i /\ stage'[c] = i
  <1>1. n \in StartedNodes
    BY DEF Advance
  <1>2. PICK c \in Controllers : Starting(c) /\ n = Stages[c][NextStage(c)]
    BY <1>1 DEF StartedNodes
  <1>3. stage'[c] = NextStage(c) /\ NextStage(c) \in 0 .. Len(Stages[c])
    BY NextStageTyped DEF Advance
  <1>4. stage[c] \in 0 .. Len(Stages[c]) /\ Len(Stages[c]) \in Nat /\ Len(Stages[c]) >= 1
    BY StageNumbers DEF Types, TypeOK
  <1>5. CASE LeavesIdle(c)
    <2>1. NextStage(c) = 1 /\ stage[c] = 0
      BY <1>5 DEF NextStage, LeavesIdle
    <2>2. QED
      BY <2>1, <1>2, <1>3, <1>4 DEF Child, StagesOf
  <1>6. CASE ~LeavesIdle(c)
    <2>1. StageOver(c) /\ NextStage(c) # 0
      BY <1>6, <1>2 DEF Starting
    <2>2. NextStage(c) = stage[c] + 1
      BY <2>1, <1>6, StageAfter
    <2>3. QED
      BY <2>1, <2>2, <1>2, <1>3, <1>4 DEF Child, StagesOf
  <1>7. QED
    BY <1>5, <1>6

\* What keeps a node other than an adapter at work, and what makes it done.
LEMMA WorksFrom ==
  ASSUME Types, NEW go, NEW launch, Advance(go, launch), NEW n \in Nodes \ Norms
  PROVE  /\ AtWork(n)' => AtWork(n) \/ start[n]
         /\ done'[n] => AtWork(n) /\ ~AtWork(n)'
  <1>1. CASE n \in Controllers
    <2>1. stage'[n] = NextStage(n) /\ (done'[n] <=> Finishing(n))
      BY <1>1, NodeKinds DEF Advance
    <2>2. AtWork(n) <=> stage[n] # 0
      BY <1>1 DEF AtWork
    <2>3. AtWork(n)' <=> stage'[n] # 0
      BY <1>1 DEF AtWork
    <2>4. QED
      BY <2>1, <2>2, <2>3 DEF NextStage, Finishing, LeavesIdle, StageOver
  <1>2. CASE n \notin Controllers
    <2>1. n \in Units \cup Adders
      BY <1>2, NodeKinds
    <2>2. /\ n \in running' <=> Begins(n) \/ (n \in running /\ ~Ends(n, go))
          /\ done'[n] <=> Ends(n, go)
      BY <1>2, <2>1 DEF Advance, LeafDone
    <2>3. AtWork(n) <=> n \in running
      BY <1>2 DEF AtWork
    <2>4. AtWork(n)' <=> n \in running'
      BY <1>2 DEF AtWork
    <2>5. QED
      BY <2>2, <2>3, <2>4 DEF Begins, Ends
  <1>3. QED
    BY <1>1, <1>2

LEMMA ControlAdvances ==
  ASSUME Types, OneAtATime, ParentWaits, NEW go, NEW launch \in BOOLEAN,
         Advance(go, launch), launch => ~Active("block")
  PROVE  OneAtATime' /\ ParentWaits'
  <1>1. ASSUME NEW n \in Nodes, start'[n], Active(n)
        PROVE  FALSE
    <2>1. CASE n = "block" /\ launch
      BY <2>1, <1>1
    <2>2. CASE ~(n = "block" /\ launch)
      <3>1. PICK c \in Controllers : \E i \in StagesOf(c) :
              n = Child(c, i) /\ stage[c] # i /\ stage'[c] = i
        BY <2>2, <1>1, StartsFrom
      <3>2. QED
        BY <3>1, <1>1 DEF ParentWaits
    <2>3. QED
      BY <2>1, <2>2
  <1>2. OneAtATime'
    <2>1. ASSUME NEW n \in Nodes \ Norms
          PROVE  /\ ~(start'[n] /\ AtWork(n)') /\ ~(start'[n] /\ done'[n])
                 /\ ~(AtWork(n)' /\ done'[n])
      <3>1. start'[n] => ~start[n] /\ ~AtWork(n)
        BY <1>1 DEF Active
      <3>2. QED
        BY <3>1, WorksFrom
    <2>2. QED
      BY <2>1 DEF OneAtATime
  <1>3. ASSUME NEW c \in Controllers, NEW i \in StagesOf(c), Active(Child(c, i))'
        PROVE  stage'[c] = i
    <2> DEFINE n == Child(c, i)
    <2>1. n \in Nodes /\ n # "block"
      BY OneParent
    <2>2. CASE start'[n]
      <3>1. PICK d \in Controllers : \E j \in StagesOf(d) :
              n = Child(d, j) /\ stage[d] # j /\ stage'[d] = j
        BY <2>1, <2>2, StartsFrom
      <3>2. QED
        BY <3>1, OneParent
    <2>3. CASE ~start'[n]
      <3>1. n \notin Norms /\ (AtWork(n)' \/ done'[n])
        BY <1>3, <2>3 DEF Active, Child
      <3>2. AtWork(n) \/ start[n]
        BY <3>1, <2>1, WorksFrom
      <3>3. stage[c] = i /\ ~done[n]
        BY <3>1, <3>2, <2>1 DEF ParentWaits, OneAtATime, Active
      <3>4. ~LeavesIdle(c) /\ ~StageOver(c)
        BY <3>3, StageNumbers DEF LeavesIdle, StageOver, Child
      <3>5. QED
        BY <3>3, <3>4 DEF Advance, NextStage
    <2>4. QED
      BY <2>2, <2>3
  <1>4. QED
    BY <1>2, <1>3 DEF ParentWaits, Child, StagesOf

-----------------------------------------------------------------------------
(* The active path: where the controllers above an active node are.        *)

LEMMA ActivePath ==
  ASSUME Types, ParentWaits
  PROVE  /\ Active("qkv") => stage["block"] = 1
         /\ Active("ar") => stage["block"] = 2
         /\ Active("ln2") => stage["block"] = 3
         /\ Active("mlp") => stage["block"] = 4
         /\ Active("ln1") => stage["qkv"] = 1
         /\ Active("q") => stage["qkv"] = 2
         /\ Active("k") => stage["qkv"] = 3
         /\ Active("v") => stage["qkv"] = 4
         /\ Active("attn") => stage["ar"] = 1
         /\ Active("proj") => stage["ar"] = 2
         /\ Active("add") => stage["ar"] = 3
         /\ Active("score") => stage["attn"] = 1
         /\ Active("softmax") => stage["attn"] = 2
         /\ Active("ctx") => stage["attn"] = 3
         /\ Active("fcin") => stage["mlp"] = 1
         /\ Active("gelu") => stage["mlp"] = 2
         /\ Active("fcout") => stage["mlp"] = 3
         /\ Active("resid") => stage["mlp"] = 4
         /\ \A c \in {"qkv", "ar", "attn", "mlp"} : stage[c] # 0 => Active(c)
  <1>1. \A i \in 1 .. 4 : Active(Child("block", i)) => stage["block"] = i
    BY StageNumbers DEF ParentWaits, ControllerNames
  <1>2. \A i \in 1 .. 4 : Active(Child("qkv", i)) => stage["qkv"] = i
    BY StageNumbers DEF ParentWaits, ControllerNames
  <1>3. \A i \in 1 .. 3 : Active(Child("ar", i)) => stage["ar"] = i
    BY StageNumbers DEF ParentWaits, ControllerNames
  <1>4. \A i \in 1 .. 3 : Active(Child("attn", i)) => stage["attn"] = i
    BY StageNumbers DEF ParentWaits, ControllerNames
  <1>5. \A i \in 1 .. 4 : Active(Child("mlp", i)) => stage["mlp"] = i
    BY StageNumbers DEF ParentWaits, ControllerNames
  <1>6. \A c \in {"qkv", "ar", "attn", "mlp"} : stage[c] # 0 => Active(c)
    BY StageTable DEF Active, AtWork, Norms, ControllerNames
  <1>7. 1 \in 1 .. 4 /\ 2 \in 1 .. 4 /\ 3 \in 1 .. 4 /\ 4 \in 1 .. 4
        /\ 1 \in 1 .. 3 /\ 2 \in 1 .. 3 /\ 3 \in 1 .. 3
    OBVIOUS
  <1>8. QED
    BY <1>1, <1>2, <1>3, <1>4, <1>5, <1>6, <1>7, ChildNames

\* The stages before the one a controller waits in.
LEMMA EarlierLeaves ==
  ASSUME Types, EarlierStagesCompleted
  PROVE  /\ stage["block"] > 1 => Completed("qkv")
         /\ stage["block"] > 2 => Completed("ar")
         /\ stage["block"] > 3 => Completed("ln2")
         /\ stage["qkv"] > 1 => Completed("ln1")
         /\ stage["ar"] > 1 => Completed("attn")
         /\ stage["ar"] > 2 => Completed("proj")
         /\ stage["attn"] > 1 => Completed("score")
         /\ stage["attn"] > 2 => Completed("softmax")
         /\ stage["mlp"] > 1 => Completed("fcin")
         /\ stage["mlp"] > 2 => Completed("gelu")
         /\ stage["mlp"] > 3 => Completed("fcout")
  <1>1. \A c \in Controllers : stage[c] \in Nat
    BY StageNumbers DEF Types, TypeOK
  <1>2. \A i \in 1 .. 4 : i < stage["block"] => Completed(Child("block", i))
    BY StageNumbers DEF EarlierStagesCompleted, ControllerNames
  <1>3. \A i \in 1 .. 4 : i < stage["qkv"] => Completed(Child("qkv", i))
    BY StageNumbers DEF EarlierStagesCompleted, ControllerNames
  <1>4. \A i \in 1 .. 3 : i < stage["ar"] => Completed(Child("ar", i))
    BY StageNumbers DEF EarlierStagesCompleted, ControllerNames
  <1>5. \A i \in 1 .. 3 : i < stage["attn"] => Completed(Child("attn", i))
    BY StageNumbers DEF EarlierStagesCompleted, ControllerNames
  <1>6. \A i \in 1 .. 4 : i < stage["mlp"] => Completed(Child("mlp", i))
    BY StageNumbers DEF EarlierStagesCompleted, ControllerNames
  <1>7. \A s \in Nat : /\ s > 1 => 1 < s /\ 1 \in 1 .. 3 /\ 1 \in 1 .. 4
                       /\ s > 2 => 1 < s /\ 2 < s /\ 2 \in 1 .. 3 /\ 2 \in 1 .. 4
                       /\ s > 3 => 3 < s /\ 3 \in 1 .. 4
    OBVIOUS
  <1>8. "block" \in Controllers /\ "qkv" \in Controllers /\ "ar" \in Controllers
        /\ "attn" \in Controllers /\ "mlp" \in Controllers
    BY StageTable DEF ControllerNames
  <1>9. QED
    BY <1>1, <1>2, <1>3, <1>4, <1>5, <1>6, <1>7, <1>8, ChildNames

\* A unit that is started reads finished tensors of its own token.
LEMMA StartedReads ==
  ASSUME Types, ParentWaits, EarlierStagesCompleted, NEW u \in Leaves, start[u]
  PROVE  InputsSettled(u)
  <1>1. Active(u)
    BY DEF Active
  <1>2. \A n : Completed(n) => \A t \in LeavesUnder(n) : Settled(t)
    BY DEF Completed
  <1>3. /\ LeavesUnder("qkv") = {"ln1", "q", "k", "v"}
        /\ LeavesUnder("ar") = {"score", "softmax", "ctx", "proj", "add"}
        /\ LeavesUnder("attn") = {"score", "softmax", "ctx"}
        /\ \A n \in LeafNames : LeavesUnder(n) = {n}
    BY ToSets DEF LeavesUnder, LeafNames
  <1>4. \A t \in Reads[u] : t = "input" \/ Settled(t)
    <2>1. CASE u \in {"ln1", "q", "k", "v"}
      BY <2>1, <1>1, <1>2, <1>3, ActivePath, EarlierLeaves DEF Reads, LeafNames
    <2>2. CASE u \in {"score", "softmax", "ctx"}
      <3>1. stage["block"] = 2
        BY <2>2, <1>1, ActivePath
      <3>2. QED
        BY <2>2, <3>1, <1>1, <1>2, <1>3, ActivePath, EarlierLeaves DEF Reads, LeafNames
    <2>3. CASE u \in {"proj", "add"}
      BY <2>3, <1>1, <1>2, <1>3, ActivePath, EarlierLeaves DEF Reads, LeafNames
    <2>4. CASE u = "ln2"
      BY <2>4, <1>1, <1>2, <1>3, ActivePath, EarlierLeaves DEF Reads, LeafNames
    <2>5. CASE u \in {"fcin", "gelu", "fcout", "resid"}
      <3>1. stage["block"] = 4
        BY <2>5, <1>1, ActivePath
      <3>2. QED
        BY <2>5, <3>1, <1>1, <1>2, <1>3, ActivePath, EarlierLeaves DEF Reads, LeafNames
    <2>6. QED
      BY <2>1, <2>2, <2>3, <2>4, <2>5, NodeNames DEF LeafNames
  <1>5. QED
    BY <1>4 DEF InputsSettled
-----------------------------------------------------------------------------
(* Data: what is settled stays settled, and what ends settles.             *)

LEMMA SettledInputs ==
  ASSUME NEW u \in Leaves, InputsSettled(u)
  PROVE  Inputs(u) = {input}
  <1>1. \A t \in Reads[u] : Provenance(t) = {input}
    BY DEF InputsSettled, Settled, Provenance
  <1>2. Reads[u] # {}
    BY ReadsOfLeaves
  <1>3. QED
    BY <1>1, <1>2 DEF Inputs

\* What the data lemmas assume of the state before a clock edge.
Settling ==
  /\ Types
  /\ ParentWaits
  /\ EarlierStagesCompleted
  /\ UnitsRead
  /\ NormsRead

LEMMA NormLastSettles ==
  ASSUME Settling, NEW n \in Norms, NEW go, NormEmits(n, go)
  PROVE  norm[n].held = {input}
  <1>1. norm[n].state = "RUN" /\ norm[n].index = Lanes
    BY DEF NormEmits, Settling, NormsRead, NormHolds
  <1>2. QED
    BY <1>1, LanesAssumption DEF Settling, NormsRead, NormHolds

LEMMA SettledStays ==
  ASSUME Settling, NEW go, NEW launch, Advance(go, launch), input' = input,
         NEW u \in Leaves, Settled(u)
  PROVE  Settled(u)'
  <1>1. out'[u] = LeafOut(u, go)
    BY DEF Advance
  <1>2. CASE u \in Norms
    <2>1. LeafOut(u, go) = NormOut(u, u \in go)
      BY <1>2 DEF LeafOut
    <2>2. NormEmits(u, u \in go) => norm[u].held = {input}
      BY <1>2, NormLastSettles
    <2>3. QED
      BY <1>1, <2>1, <2>2 DEF NormOut, NormLast, Settled
  <1>3. CASE u \in Adders
    <2>1. LeafOut(u, go) = AdderOut(u)
      BY <1>3 DEF LeafOut, Norms, Adders
    <2>2. Begins(u) => Inputs(u) = {input}
      BY StartedReads, SettledInputs DEF Begins, Settling
    <2>3. QED
      BY <1>1, <2>1, <2>2 DEF AdderOut, Settled
  <1>4. CASE u \notin Norms /\ u \notin Adders
    <2>1. LeafOut(u, go) = UnitOut(u, go) /\ u \in Units
      BY <1>4, NodeKinds DEF LeafOut
    <2>2. u \in running => Inputs(u) = {input} /\ seen[u] \subseteq {input}
      BY <2>1, SettledInputs DEF Settling, UnitsRead
    <2>3. QED
      BY <1>1, <2>1, <2>2 DEF UnitOut, Settled
  <1>5. QED
    BY <1>2, <1>3, <1>4

LEMMA InputsStaySettled ==
  ASSUME Settling, NEW go, NEW launch, Advance(go, launch), input' = input,
         NEW u \in Leaves, InputsSettled(u)
  PROVE  InputsSettled(u)'
  <1>1. \A t \in Reads[u] : t = "input" \/ t \in Leaves
    BY ReadsOfLeaves
  <1>2. QED
    BY <1>1, SettledStays DEF InputsSettled

LEMMA LeavesUnderNodes == \A n \in Nodes : LeavesUnder(n) \subseteq Leaves
  BY NodeNames, ToSets DEF LeavesUnder, ControllerNames, LeafNames

LEMMA CompletedStays ==
  ASSUME Settling, NEW go, NEW launch, Advance(go, launch), input' = input,
         NEW n \in Nodes, Completed(n)
  PROVE  Completed(n)'
  BY LeavesUnderNodes, SettledStays DEF Completed

\* A leaf that ends its run leaves its token's tensor.
LEMMA EndsSettled ==
  ASSUME Settling, NEW go, NEW launch, Advance(go, launch), input' = input,
         NEW u \in Leaves, LeafDone(u, go)
  PROVE  Settled(u)'
  <1>1. out'[u] = LeafOut(u, go)
    BY DEF Advance
  <1>2. CASE u \in Norms
    <2>1. NormLast(u, u \in go)
      BY <1>2 DEF LeafDone
    <2>2. norm[u].held = {input}
      BY <1>2, <2>1, NormLastSettles DEF NormLast
    <2>3. QED
      BY <1>1, <1>2, <2>1, <2>2 DEF LeafOut, NormOut, Settled
  <1>3. CASE u \notin Norms
    <2>1. u \in running /\ Ends(u, go)
      BY <1>3 DEF LeafDone, Ends
    <2>2. Inputs(u) = {input}
      BY <2>1, SettledInputs DEF Settling, UnitsRead
    <2>3. CASE u \in Adders
      <3>1. Settled(u) /\ LeafOut(u, go) = out[u]
        BY <1>3, <2>1, <2>3 DEF LeafOut, AdderOut, Begins, Settling, UnitsRead
      <3>2. QED
        BY <1>1, <3>1 DEF Settled
    <2>4. CASE u \notin Adders
      <3>1. u \in Units
        BY <1>3, <2>4, NodeKinds
      <3>2. seen[u] \subseteq {input}
        BY <3>1, <2>1 DEF Settling, UnitsRead
      <3>3. LeafOut(u, go) = seen[u] \cup Inputs(u)
        BY <1>3, <2>1, <2>4 DEF LeafOut, UnitOut
      <3>4. QED
        BY <1>1, <2>2, <3>2, <3>3 DEF Settled
    <2>5. QED
      BY <2>3, <2>4
  <1>4. QED
    BY <1>2, <1>3

LEMMA StagesComplete ==
  ASSUME Settling, DoneIsCompleted, NEW go, NEW launch, Advance(go, launch), input' = input
  PROVE  EarlierStagesCompleted' /\ DoneIsCompleted'
  <1>1. ASSUME NEW c \in Controllers, StageOver(c)
        PROVE  stage[c] \in StagesOf(c) /\ Completed(Child(c, stage[c]))
    <2>1. stage[c] \in StagesOf(c) /\ done[Child(c, stage[c])]
      BY <1>1, StageNumbers DEF StageOver, Child, StagesOf, Settling, Types, TypeOK
    <2>2. QED
      BY <2>1, OneParent DEF DoneIsCompleted
  <1>2. ASSUME NEW c \in Controllers, NEW i \in StagesOf(c), i < stage'[c]
        PROVE  Completed(Child(c, i))
    <2>1. stage'[c] = NextStage(c) /\ i \in Nat /\ i >= 1
      BY StageNumbers DEF Advance
    <2>2. stage[c] \in Nat
      BY StageNumbers DEF Settling, Types, TypeOK
    <2>3. CASE LeavesIdle(c)
      BY <1>2, <2>1, <2>3 DEF NextStage
    <2>4. CASE ~LeavesIdle(c) /\ StageOver(c)
      <3>1. NextStage(c) = 0 \/ NextStage(c) = stage[c] + 1
        BY <2>4, StageAfter DEF Settling
      <3>2. i < stage[c] \/ i = stage[c]
        BY <1>2, <2>1, <2>2, <3>1
      <3>3. QED
        BY <3>2, <2>4, <1>1 DEF Settling, EarlierStagesCompleted
    <2>5. CASE ~LeavesIdle(c) /\ ~StageOver(c)
      BY <1>2, <2>1, <2>5 DEF NextStage, Settling, EarlierStagesCompleted
    <2>6. QED
      BY <2>3, <2>4, <2>5
  <1>3. EarlierStagesCompleted'
    <2>1. ASSUME NEW c \in Controllers, NEW i \in StagesOf(c), i < stage'[c]
          PROVE  Completed(Child(c, i))'
      BY <2>1, <1>2, OneParent, CompletedStays
    <2>2. QED
      BY <2>1 DEF EarlierStagesCompleted, Child, StagesOf
  <1>4. ASSUME NEW n \in Nodes, done'[n]
        PROVE  Completed(n)'
    <2>1. CASE n \in Controllers
      <3>1. Finishing(n)
        BY <1>4, <2>1 DEF Advance
      <3>2. StageOver(n) /\ NextStage(n) = 0 /\ ~LeavesIdle(n)
        BY <3>1 DEF Finishing, StageOver, LeavesIdle
      <3>3. stage[n] = Len(Stages[n])
        <4>1. stage[n] \in Nat
          BY <2>1, StageNumbers DEF Settling, Types, TypeOK
        <4>2. QED
          BY <4>1, <2>1, <3>2, StageAfter DEF Settling
      <3>4. \A i \in StagesOf(n) : i < stage[n] \/ i = stage[n]
        BY <2>1, <3>3, StageNumbers
      <3>5. \A i \in StagesOf(n) : Completed(Child(n, i))
        BY <2>1, <3>2, <3>4, <1>1 DEF Settling, EarlierStagesCompleted
      <3>6. Completed(n)
        BY <2>1, <3>5, CompletedByStages
      <3>7. QED
        BY <3>6, CompletedStays
    <2>2. CASE n \notin Controllers
      <3>1. n \in Leaves /\ LeafDone(n, go)
        BY <1>4, <2>2, NodeKinds DEF Advance
      <3>2. Settled(n)'
        BY <3>1, EndsSettled
      <3>3. LeavesUnder(n) = {n}
        BY <2>2, StageTable DEF LeavesUnder, ControllerNames
      <3>4. QED
        BY <3>2, <3>3 DEF Completed
    <2>3. QED
      BY <2>1, <2>2
  <1>5. QED
    BY <1>3, <1>4 DEF DoneIsCompleted

LEMMA UnitsKeepReading ==
  ASSUME Settling, NEW go, NEW launch, Advance(go, launch), input' = input
  PROVE  UnitsRead'
  <1>1. ASSUME NEW u \in running'
        PROVE  u \in Leaves /\ (Begins(u) \/ u \in running)
    BY NodeKinds DEF Advance
  <1>2. ASSUME NEW u \in running'
        PROVE  InputsSettled(u)
    BY <1>1, StartedReads DEF Begins, Settling, UnitsRead
  <1>3. \A u \in running' : InputsSettled(u)'
    BY <1>1, <1>2, InputsStaySettled
  <1>4. ASSUME NEW u \in running' \cap Units
        PROVE  seen'[u] \subseteq {input'}
    <2>1. seen'[u] = UnitSeen(u)
      BY <1>1 DEF Advance
    <2>2. Inputs(u) = {input}
      BY <1>1, <1>2, SettledInputs
    <2>3. QED
      BY <1>1, <2>1, <2>2 DEF UnitSeen, Begins, Settling, UnitsRead
  <1>5. ASSUME NEW u \in running' \cap Adders
        PROVE  Settled(u)'
    <2>1. out'[u] = AdderOut(u)
      BY <1>1, NodeKinds DEF Advance, LeafOut, Norms, Adders
    <2>2. Inputs(u) = {input}
      BY <1>1, <1>2, SettledInputs
    <2>3. QED
      BY <1>1, <2>1, <2>2 DEF AdderOut, Settled, Settling, UnitsRead
  <1>6. QED
    BY <1>3, <1>4, <1>5 DEF UnitsRead
\* An adapter arms on a start pulse, and loads lanes only of settled inputs.
LEMMA NormsKeepReading ==
  ASSUME Settling, NEW go, NEW launch, Advance(go, launch), input' = input
  PROVE  NormsRead'
  <1> SUFFICES ASSUME NEW n \in Norms PROVE NormHolds(n)'
    BY DEF NormsRead
  <1> DEFINE r == norm[n]
             moves == n \in go
             next == NormNext(n, moves)
  <1>1. norm'[n] = next
    BY DEF Advance
  <1>2. r \in NormType /\ NormHolds(n) /\ n \in Leaves /\ start[n] \in BOOLEAN
    BY NodeKinds DEF Settling, NormsRead, Types, TypeOK
  <1>3. InputsSettled(n) => Inputs(n) = {input} /\ InputsSettled(n)'
    BY <1>2, SettledInputs, InputsStaySettled
  <1>4. start[n] => InputsSettled(n)
    BY <1>2, StartedReads DEF Settling
  <1>5. CASE r.state = "LOAD"
    <2> DEFINE armed == r.armed \/ (start[n] /\ r.index = 0)
               arming == [r EXCEPT !.armed = armed]
    <2>1. next = NormLoad(n, moves)
      BY <1>5, NormStates
    <2>2. armed \in BOOLEAN
      BY <1>2 DEF NormType
    <2>3. /\ arming \in NormType /\ arming.armed = armed /\ arming.state = "LOAD"
          /\ arming.index = r.index /\ arming.held = r.held
      BY <1>2, <1>5, <2>2 DEF NormType
    <2>4. armed => InputsSettled(n)
      BY <1>2, <1>4 DEF NormHolds
    <2>5. CASE r.armed /\ r.index = Lanes
      <3>1. next = [arming EXCEPT !.state = "START"]
        BY <2>1, <2>5 DEF NormLoad
      <3>2. next.armed = armed /\ next.index = r.index /\ next.held = r.held
        BY <2>3, <3>1 DEF NormType
      <3>3. QED
        BY <1>1, <1>2, <1>3, <2>4, <2>5, <3>2 DEF NormHolds
    <2>6. CASE r.armed /\ r.index # Lanes /\ moves
      <3>1. next = [arming EXCEPT !.index = @ + 1, !.held = @ \cup Inputs(n)]
        BY <2>1, <2>6 DEF NormLoad
      <3>2. next.armed = armed /\ next.index = r.index + 1 /\ next.held = r.held \cup Inputs(n)
            /\ next.state = "LOAD"
        BY <2>3, <3>1 DEF NormType
      <3>3. r.index \in Nat /\ r.held = IF r.index = 0 THEN {} ELSE {input}
        BY <1>2 DEF NormHolds, NormType
      <3>4. Inputs(n) = {input} /\ InputsSettled(n)'
        BY <1>3, <2>4, <2>6
      <3>5. next.held = {input} /\ next.index # 0
        BY <3>2, <3>3, <3>4
      <3>6. next.armed
        BY <2>6, <3>2
      <3>7. QED
        BY <1>1, <3>2, <3>4, <3>5, <3>6 DEF NormHolds
    <2>7. CASE ~r.armed \/ (r.index # Lanes /\ ~moves)
      <3>1. next = arming
        BY <2>1, <2>7 DEF NormLoad
      <3>2. ~armed => arming = r
        BY <1>2 DEF NormType
      <3>3. QED
        BY <1>1, <1>2, <1>3, <2>3, <2>4, <3>1, <3>2 DEF NormHolds
    <2>8. QED
      BY <2>5, <2>6, <2>7
  <1>6. CASE r.state # "LOAD"
    <2>1. r.armed /\ r.index = Lanes
      BY <1>2, <1>6 DEF NormHolds, NormReset
    <2>2. InputsSettled(n)' /\ r.held = {input}
      BY <1>2, <1>3, <2>1, LanesAssumption DEF NormHolds
    <2>3. \/ next = NormFinish(n)
          \/ next = [r EXCEPT !.state = "RUN"]
          \/ next = [r EXCEPT !.emitted = @ + 1]
          \/ next = r
      BY <1>6 DEF NormNext
    <2>4. CASE next = NormFinish(n)
      <3>1. next.armed = r.armed /\ next.index = 0 /\ next.held = {} /\ next.state = "LOAD"
        BY <2>4, <1>2, NormResetTyped DEF NormFinish, NormReset, NormType
      <3>2. QED
        BY <1>1, <2>1, <2>2, <3>1 DEF NormHolds
    <2>5. CASE next # NormFinish(n)
      <3>1. next.armed = r.armed /\ next.index = r.index /\ next.held = r.held
        BY <2>3, <2>5, <1>2 DEF NormType
      <3>2. QED
        BY <1>1, <1>2, <2>1, <2>2, <3>1 DEF NormHolds
    <2>6. QED
      BY <2>4, <2>5
  <1>7. QED
    BY <1>5, <1>6

LEMMA OutputKept ==
  ASSUME Settling, DoneIsCompleted, OutputIsResult,
         NEW go, NEW launch, Advance(go, launch), input' = input
  PROVE  OutputIsResult'
  <1>1. "mlp" \in Controllers /\ "block" \in Controllers /\ "mlp" \in Nodes /\ "block" \in Nodes
    BY StageTable, NodeKinds DEF ControllerNames
  <1>2. (done'["mlp"] <=> Finishing("mlp")) /\ (done'["block"] <=> Finishing("block"))
    BY <1>1 DEF Advance
  <1>3. Finishing("mlp") => output' = {input'}
    <2>1. SUFFICES ASSUME Finishing("mlp") PROVE out["resid"] = {input}
      BY DEF Advance
    <2>2. StageOver("mlp") /\ NextStage("mlp") = 0 /\ ~LeavesIdle("mlp")
      BY <2>1 DEF Finishing, StageOver, LeavesIdle
    <2>3. stage["mlp"] = 4
      <3>1. stage["mlp"] \in Nat
        BY <1>1, StageNumbers DEF Settling, Types, TypeOK
      <3>2. stage["mlp"] # Len(Stages["mlp"]) => NextStage("mlp") = stage["mlp"] + 1
        BY <1>1, <2>2, StageAfter DEF Settling
      <3>3. QED
        BY <2>2, <3>1, <3>2, StageTable
    <2>4. done["resid"]
      BY <2>2, <2>3, ChildNames DEF StageOver, Child
    <2>5. "resid" \in Nodes /\ LeavesUnder("resid") = {"resid"}
      BY NodeNames DEF LeafNames, LeavesUnder
    <2>6. QED
      BY <2>4, <2>5 DEF DoneIsCompleted, Completed, Settled
  <1>4. Finishing("block") => output = {input}
    <2>1. SUFFICES ASSUME Finishing("block") PROVE done["mlp"]
      BY DEF OutputIsResult
    <2>2. StageOver("block") /\ NextStage("block") = 0 /\ ~LeavesIdle("block")
      BY <2>1 DEF Finishing, StageOver, LeavesIdle
    <2>3. stage["block"] = 4
      <3>1. stage["block"] \in Nat
        BY <1>1, StageNumbers DEF Settling, Types, TypeOK
      <3>2. stage["block"] # Len(Stages["block"]) => NextStage("block") = stage["block"] + 1
        BY <1>1, <2>2, StageAfter DEF Settling
      <3>3. QED
        BY <2>2, <3>1, <3>2, StageTable
    <2>4. QED
      BY <2>2, <2>3, ChildNames DEF StageOver, Child
  <1>5. Finishing("mlp") \/ output' = output
    BY DEF Advance
  <1>6. QED
    BY <1>2, <1>3, <1>4, <1>5 DEF OutputIsResult

-----------------------------------------------------------------------------
(* A quiet block stays quiet until it is launched. *)

LEMMA QuietAdvances ==
  ASSUME Types, Quiet, NEW go, NEW launch \in BOOLEAN, Advance(go, launch)
  PROVE  /\ \A c \in Controllers : stage'[c] = 0
         /\ \A n \in Nodes : ~done'[n] /\ (start'[n] <=> (n = "block" /\ launch))
         /\ running' = {}
         /\ \A n \in Norms : norm'[n] = NormReset
  <1>1. \A c \in Controllers : ~LeavesIdle(c) /\ ~StageOver(c) /\ stage[c] = 0
    BY NodeKinds DEF Quiet, LeavesIdle, StageOver
  <1>2. \A c \in Controllers : NextStage(c) = 0 /\ ~Starting(c) /\ ~Finishing(c)
    BY <1>1 DEF NextStage, Starting, Finishing
  <1>3. \A c \in Controllers : stage'[c] = 0
    BY <1>2 DEF Advance
  <1>4. StartedNodes = {}
    BY <1>2 DEF StartedNodes
  <1>5. \A u \in Leaves : ~Begins(u) /\ ~Ends(u, go)
    BY NodeKinds DEF Begins, Ends, Quiet
  <1>6. \A n \in Norms : norm[n].state = "LOAD" /\ ~norm[n].armed /\ ~start[n]
    BY NodeKinds DEF Quiet, NormReset
  <1>7. running' = {}
    BY <1>5, NodeKinds DEF Advance, Quiet
  <1>8. \A n \in Nodes : start'[n] <=> (n = "block" /\ launch)
    BY <1>4 DEF Advance
  <1>9. \A n \in Nodes : ~done'[n]
    BY <1>2, <1>5, <1>6, NodeKinds DEF Advance, LeafDone, NormLast, NormEmits
  <1>10. ASSUME NEW n \in Norms PROVE norm'[n] = NormReset
    <2>1. norm'[n] = NormLoad(n, n \in go)
      BY <1>6, NormStates DEF Advance
    <2>2. NormLoad(n, n \in go)
            = [norm[n] EXCEPT !.armed = norm[n].armed \/ (start[n] /\ norm[n].index = 0)]
      BY <1>6 DEF NormLoad
    <2>3. (norm[n].armed \/ (start[n] /\ norm[n].index = 0)) = FALSE
      BY <1>6
    <2>4. norm[n] = NormReset /\ [NormReset EXCEPT !.armed = FALSE] = NormReset
      <3>1. \A r \in NormType : r.armed = FALSE => [r EXCEPT !.armed = FALSE] = r
        BY DEF NormType
      <3>2. NormReset.armed = FALSE
        BY DEF NormReset
      <3>3. QED
        BY <3>1, <3>2, NormResetTyped DEF Quiet
    <2>5. QED
      BY <2>1, <2>2, <2>3, <2>4
  <1>11. QED
    BY <1>3, <1>7, <1>8, <1>9, <1>10

\* A quiet block satisfies the rest of the invariant, launched or not.
LEMMA QuietIsCold ==
  ASSUME \A c \in Controllers : stage[c] = 0,
         \A n \in Nodes : ~done[n] /\ (start[n] => n = "block"),
         running = {},
         \A n \in Norms : norm[n] = NormReset
  PROVE  /\ OneAtATime
         /\ ParentWaits
         /\ EarlierStagesCompleted
         /\ DoneIsCompleted
         /\ UnitsRead
         /\ NormsRead
         /\ OutputIsResult
  <1>1. \A n \in Nodes : ~AtWork(n)
    BY DEF AtWork
  <1>2. OneAtATime
    BY <1>1 DEF OneAtATime
  <1>3. ParentWaits
    BY <1>1, OneParent DEF ParentWaits, Active
  <1>4. EarlierStagesCompleted
    BY StageNumbers DEF EarlierStagesCompleted
  <1>5. DoneIsCompleted
    BY DEF DoneIsCompleted
  <1>6. UnitsRead
    BY DEF UnitsRead
  <1>7. NormsRead
    BY DEF NormsRead, NormHolds, NormReset
  <1>8. OutputIsResult
    BY NodeKinds, StageTable DEF OutputIsResult, ControllerNames
  <1>9. QED
    BY <1>2, <1>3, <1>4, <1>5, <1>6, <1>7, <1>8

-----------------------------------------------------------------------------
(* The invariant. *)

LEMMA InitCold == Init => ColdInv
  <1> SUFFICES ASSUME Init PROVE ColdInv
    OBVIOUS
  <1>1. Quiet
    BY DEF Init, RegistersReset, Quiet
  <1>2. QED
    BY <1>1, QuietIsCold DEF Quiet, ColdInv, FreshIsQuiet

LEMMA RunCold ==
  ASSUME Types, ColdInv, NEW go \in SUBSET Busy, Run(go)
  PROVE  ColdInv'
  <1>1. Advance(go, FALSE) /\ input' = input /\ fresh' = fresh
    BY DEF Run
  <1>2. Settling
    BY DEF Settling, ColdInv
  <1>3. OneAtATime' /\ ParentWaits'
    BY <1>1, ControlAdvances DEF ColdInv
  <1>4. EarlierStagesCompleted' /\ DoneIsCompleted'
    BY <1>1, <1>2, StagesComplete DEF ColdInv
  <1>5. UnitsRead' /\ NormsRead'
    BY <1>1, <1>2, UnitsKeepReading, NormsKeepReading
  <1>6. OutputIsResult'
    BY <1>1, <1>2, OutputKept DEF ColdInv
  <1>7. FreshIsQuiet'
    BY <1>1, QuietAdvances DEF ColdInv, FreshIsQuiet, Quiet
  <1>8. QED
    BY <1>3, <1>4, <1>5, <1>6, <1>7 DEF ColdInv

LEMMA LaunchCold ==
  ASSUME ColdStart, Types, ColdInv, NEW go \in SUBSET Busy, Launch(go)
  PROVE  ColdInv'
  <1>1. Quiet /\ Advance(go, TRUE) /\ ~fresh'
    BY DEF Launch, ColdInv, FreshIsQuiet
  <1>2. /\ \A c \in Controllers : stage'[c] = 0
        /\ \A n \in Nodes : ~done'[n] /\ (start'[n] => n = "block")
        /\ running' = {}
        /\ \A n \in Norms : norm'[n] = NormReset
    BY <1>1, QuietAdvances
  <1>3. \A n \in Nodes : ~AtWork(n)'
    BY <1>2 DEF AtWork
  <1>4. OneAtATime' /\ ParentWaits'
    BY <1>2, <1>3, OneParent DEF OneAtATime, ParentWaits, Active, Child, StagesOf
  <1>5. EarlierStagesCompleted' /\ DoneIsCompleted' /\ UnitsRead'
    BY <1>2, StageNumbers DEF EarlierStagesCompleted, DoneIsCompleted, UnitsRead
  <1>6. NormsRead'
    BY <1>2 DEF NormsRead, NormHolds, NormReset
  <1>7. OutputIsResult'
    BY <1>2, NodeKinds, StageTable DEF OutputIsResult, ControllerNames
  <1>8. QED
    BY <1>1, <1>4, <1>5, <1>6, <1>7 DEF ColdInv, FreshIsQuiet

LEMMA ResetCold ==
  ASSUME Reset
  PROVE  ColdInv'
  <1>1. /\ \A c \in Controllers : stage'[c] = 0
        /\ \A n \in Nodes : ~done'[n] /\ ~start'[n]
        /\ running' = {}
        /\ \A n \in Norms : norm'[n] = NormReset
    BY DEF Reset, RegistersReset
  <1>2. \A n \in Nodes : ~AtWork(n)'
    BY <1>1 DEF AtWork
  <1>3. OneAtATime' /\ ParentWaits'
    BY <1>1, <1>2, OneParent DEF OneAtATime, ParentWaits, Active, Child, StagesOf
  <1>4. EarlierStagesCompleted' /\ DoneIsCompleted' /\ UnitsRead'
    BY <1>1, StageNumbers DEF EarlierStagesCompleted, DoneIsCompleted, UnitsRead
  <1>5. NormsRead'
    BY <1>1 DEF NormsRead, NormHolds, NormReset
  <1>6. OutputIsResult'
    BY <1>1, NodeKinds, StageTable DEF OutputIsResult, ControllerNames
  <1>7. FreshIsQuiet'
    BY <1>1 DEF FreshIsQuiet, Quiet
  <1>8. QED
    BY <1>3, <1>4, <1>5, <1>6, <1>7 DEF ColdInv

\* When every token follows a reset, ColdInv holds at every clock edge.
LEMMA ColdInvariant == ColdStart /\ Spec => []ColdInv
  <1>1. ASSUME ColdStart, Types, ColdInv, [Next]_vars PROVE ColdInv'
    <2>1. CASE UNCHANGED vars
      BY <1>1, <2>1
         DEF vars, registers, host, ColdInv, OneAtATime, ParentWaits, EarlierStagesCompleted,
             DoneIsCompleted, UnitsRead, NormsRead, NormHolds, OutputIsResult, FreshIsQuiet,
             Quiet, Active, AtWork, Completed, Settled, InputsSettled
    <2>2. QED
      BY <1>1, <2>1, RunCold, LaunchCold, ResetCold DEF Next
  <1>2. CASE ColdStart
    BY <1>1, <1>2, InitCold, Typed, PTL DEF Spec
  <1>3. CASE ~ColdStart
    BY <1>3
  <1>4. QED
    BY <1>2, <1>3

-----------------------------------------------------------------------------
(* Results. *)

\* A unit that computes reads tensors that are finished and are its own
\* token's, for every number of tokens, when each token follows a reset: the
\* registered start and done pulses of the five controllers never overlap.
THEOREM UnitsReadSettledInputs == ColdStart /\ Spec => []InputsAreSettled
  <1>1. ASSUME Types, ColdInv
        PROVE  InputsAreSettled
    <2>1. ASSUME NEW u \in running
          PROVE  Reads[u] \cap running = {}
      <3>1. \A v \in running : Active(v) /\ v \in Leaves /\ v \notin Norms
        BY <1>1, NodeKinds DEF Active, AtWork, Types, TypeOK
      <3>2. \A v \in Reads[u] : v \in running => u \in Leaves /\ v # u
        BY <3>1, NodeNames DEF Reads, LeafNames
      <3>3. SUFFICES ASSUME NEW v \in Reads[u], v \in running PROVE FALSE
        OBVIOUS
      <3>4. QED
        BY <1>1, <3>1, <3>3, ActivePath, NodeNames DEF Reads, LeafNames, Norms, ColdInv
    <2>2. ASSUME NEW u \in running
          PROVE  Inputs(u) = {input}
      BY <1>1, SettledInputs, NodeKinds DEF ColdInv, UnitsRead, Types, TypeOK
    <2>3. QED
      BY <2>1, <2>2 DEF InputsAreSettled
  <1>2. QED
    BY <1>1, ColdInvariant, Typed, PTL

\* When the block reports done, its output is the result of the token the host
\* started and of no other, when each token follows a reset (without one the
\* adapters load stale lanes: TLC shows it on the warm run).
THEOREM BlockOutputsTheToken == ColdStart /\ Spec => []OutputIsTheTokens
  <1>1. ColdInv => OutputIsTheTokens
    BY DEF ColdInv, OutputIsResult, OutputIsTheTokens
  <1>2. QED
    BY <1>1, ColdInvariant, PTL
===============================================================================
