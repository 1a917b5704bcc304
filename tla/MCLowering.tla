------------------------------- MODULE MCLowering -------------------------------
(***************************************************************************)
(* The passes before Calyx, the primitives below it and the repairs of     *)
(* what it makes, on small instances.                                      *)
(* A behaviour is of one of them and leaves the others as they start.      *)
(***************************************************************************)
EXTENDS FloatPrimitives, MemRefViews, ScalarLowering, CalyxHandshakes, SelfTestTop, LayerNormBridge

VARIABLE part

(* All floats into every one-input operation, and a grid of pairs into      *)
(* every two-input operation; two tokens a side where the order matters.    *)
FewSingle == [exp |-> 6, frac |-> 5]
FewDouble == [exp |-> 6, frac |-> 6]

UnaryOps == {"sitofp_ui8", "sitofp_ui32", "uitofp_ui1", "truncf", "fptosi_ui8",
             "fptoui_ui8", "fptosi_ui32", "roundeven", "floor", "ceil", "exp", "rsqrt", "tanh"}
BinaryOps == {"addf", "subf", "mulf", "divf", "maximumf", "ogt", "ugt", "uge", "oeq",
              "uno", "ult", "powf", "fpowi"}

\* Exponents from a unit in the last place to beyond what fits, and infinity.
Grid == [sign : BOOLEAN, exp : {0, 26, 29, 31, 32, 34, 36, 40, 63}, frac : {0, 1, 16, 31}]
Few == [sign : BOOLEAN, exp : {30, 33}, frac : {0, 5}]

Inputs0 == [o \in UnaryOps \cup BinaryOps |->
  CASE o = "sitofp_ui8"  -> 0 .. 2^N - 1
    [] o = "sitofp_ui32" -> Q
    [] o = "uitofp_ui1"  -> BOOLEAN
    [] o = "truncf"      -> Floats(Double)
    [] o \in UnaryOps    -> Floats(Single)
    [] o = "subf"        -> Few
    [] OTHER             -> Grid]
Inputs1 == [o \in UnaryOps \cup BinaryOps |->
  CASE o \in UnaryOps -> {}
    [] o = "fpowi"  -> {0, 1, 2, 3, 5, 8, 31, 2^(2*W) - 1}
    [] o = "subf"   -> Few
    [] OTHER        -> Grid]
Pieces == [o \in UnaryOps \cup BinaryOps |-> IF o = "subf" THEN 2 ELSE 1]

Buffer(kind, shape) == [op |-> kind, shape |-> shape]
MCSignatures ==
    {<<Buffer("argument", <<2, 3>>), Buffer("alloc", <<2, 3>>)>>,
     <<Buffer("global", <<2, 3>>), Buffer("argument", <<2, 3>>)>>,
     <<Buffer("argument", <<6>>), Buffer("global", <<3, 2>>)>>,
     <<Buffer("argument", <<>>), Buffer("alloc", <<6>>)>>}

\* Row-major, transposed, from the middle, and every other element.
Cast(offset, shape, strides) == [offset |-> offset, shape |-> shape, strides |-> strides]
MCCasts == {Cast(0, <<6>>, <<1>>), Cast(0, <<3, 2>>, <<1, 3>>), Cast(2, <<2, 2>>, <<2, 1>>), Cast(1, <<2>>, <<2>>)}

MCGroups == <<"fptosi_0", "fptosi_1", "fptosi_2">>
Sharing(first, second, third) == "fptosi_0" :> first @@ "fptosi_1" :> second @@ "fptosi_2" :> third
MCSharings == {Sharing("r", "r", "r"), Sharing("r", "r", "s"), Sharing("s", "r", "s")}

\* The header of a generated design, as tokens between commas.
Token(direction, declared, bits, name) ==
    [direction |-> direction, declared |-> declared, bits |-> bits, name |-> name]
Wire(direction, name) == Token(direction, FALSE, 1, name)
ClockPins == <<Wire("input", [side |-> "clock", number |-> 0, part |-> ""]),
           Wire("", [side |-> "reset", number |-> 0, part |-> ""])>>
StartAndDone(n) ==
    <<Wire("input", In(n, "valid")), Wire("", Out(0, "ready")),
      Wire("output", In(n, "ready")), Wire("", Out(0, "valid"))>>
Store(n) ==
    <<Token("output", TRUE, 0, In(n, "st0")), Wire("output", In(n, "st0_valid")), Wire("", In(n, "st0_done_ready")),
      Wire("input", In(n, "st0_ready")), Wire("", In(n, "st0_done_valid"))>>
Load(n, data, addr) ==
    <<Token("input", TRUE, data, In(n, "ld0_data")), Wire("input", In(n, "ld0_data_valid")),
      Wire("", In(n, "ld0_addr_ready")),
      Wire("output", In(n, "ld0_addr_valid")), Wire("", In(n, "ld0_data_ready"))>>
        \o IF addr = 0 THEN <<>> ELSE <<Token("", TRUE, addr, In(n, "ld0_addr"))>>
MCHeaders ==
    {ClockPins \o StartAndDone(9) \o Store(8) \o Load(7, 3, 0),
     ClockPins \o StartAndDone(9) \o Store(8) \o Load(7, 1, 2),
     ClockPins \o StartAndDone(9) \o Store(8) \o Load(1, 2, 0) \o Load(7, 2, 1),
     ClockPins \o Store(3) \o Load(7, 1, 0),
     <<Token("", TRUE, 1, In(1, "valid"))>> \o ClockPins}

\* The pinned files, and what may stand in their places: the same contents
\* in other bytes, other contents, and what cannot be read.
Json(bytes) == [bytes |-> bytes, readable |-> TRUE, sealed |-> TRUE]
MCProfile == [receipt |-> "receipt", rtl |-> "rtl"] @@ Json("p")
MCVector == [binds |-> "receipt", contents |-> <<"input", "result">>] @@ Json("v")
MCQdq == [trace_sealed |-> TRUE, ordered |-> TRUE, checkpoints |-> "twelve", trace |-> "trace"] @@ Json("q")
MCPrimitive == [bytes |-> "m", answer |-> "input" :> "result"]
MCNode == [name |-> "layer_norm", target |-> "aten.layer_norm.default", types |-> "64 lanes", operands |-> 5,
           epsilon |-> "1e-5", cudnn |-> FALSE, parameters |-> "ln_1"]
MCExport == [bytes |-> "e", nodes |-> <<[MCNode EXCEPT !.target = "aten.add"], MCNode>>]
MCReceipt == [contents |-> [export |-> "e", maps_parameters |-> TRUE]] @@ Json("r")
MCFrozen ==
    "adapter" :> [bytes |-> "a"] @@ "profile" :> MCProfile @@ "vector" :> MCVector
        @@ "primitive" :> MCPrimitive @@ "qdq" :> MCQdq @@ "export" :> MCExport @@ "receipt" :> MCReceipt
MCVariants ==
    "adapter" :> {[bytes |-> "a2"]}
        @@ "profile" :> {[MCProfile EXCEPT !.rtl = "other", !.bytes = "p2"], [MCProfile EXCEPT !.readable = FALSE]}
        @@ "vector" :> {[MCVector EXCEPT !.bytes = "v2"], [MCVector EXCEPT !.sealed = FALSE]}
        @@ "primitive" :> {[MCPrimitive EXCEPT !.answer["input"] = "other", !.bytes = "m2"]}
        @@ "qdq" :> {[MCQdq EXCEPT !.checkpoints = "others", !.bytes = "q2"],
                     [MCQdq EXCEPT !.trace = "other", !.bytes = "q3"], [MCQdq EXCEPT !.ordered = FALSE]}
        @@ "export" :> {[MCExport EXCEPT !.nodes[2] = change, !.bytes = "e2"] :
                          change \in {[MCNode EXCEPT !.name = "layer_norm_1"], [MCNode EXCEPT !.operands = 4],
                                     [MCNode EXCEPT !.operands = 6], [MCNode EXCEPT !.epsilon = "1e-3"]}}
        @@ "receipt" :> {[MCReceipt EXCEPT !.contents.maps_parameters = FALSE, !.bytes = "r2"]}
MCSourceOp ==
    [index |-> 1, name |-> MCNode.name, target |-> MCNode.target, types |-> MCNode.types,
     epsilon |-> MCNode.epsilon, cudnn |-> TRUE, parameters |-> MCNode.parameters, export |-> "e", receipt |-> "r"]

loweringVars == <<part, vars, viewVars, lowered, handshakeVars, selfTestVars, bridgeVars>>

LoweringInit ==
    /\ part \in {"primitives", "views", "scalars", "handshakes", "wrapper", "matmul", "bridge"}
    /\ Init /\ (part # "primitives" => op = "floor")
    /\ IF part = "views" THEN ViewsInit
       ELSE values = <<>> /\ types = <<>> /\ access = NoAccess /\ argumentViews = {}
            /\ lowering = [pc |-> "build", verdict |-> "none"]
    /\ ScalarInit
    /\ IF part = "bridge" THEN BridgeInit
       ELSE lnFiles = <<>> /\ lnRun = [step |-> "idle"] /\ lnMlir = NotWritten /\ lnReport = NotWritten
            /\ lnSwaps = 0 /\ lnKills = 0
    /\ IF part = "handshakes" THEN ExportInit
       ELSE futil = <<>> /\ sv = <<>> /\ made = NotMade /\ chip = Off
    /\ IF part \in {"wrapper", "matmul"} THEN SelfTestInit
       ELSE header = <<>> /\ wrapper = NoWrapper /\ regs = PoweredUp({}) /\ design = NewDesign({})
            /\ matmul = MatmulPoweredUp /\ product = <<>>
    /\ part = "matmul" => header = ClockPins \o Store(3) \o Load(7, 1, 0)
    /\ part = "wrapper" => product.wrong

LoweringNext ==
    /\ UNCHANGED part
    /\ \/ part = "primitives" /\ Next /\ UNCHANGED <<viewVars, lowered, handshakeVars, selfTestVars, bridgeVars>>
       \/ part = "views" /\ ViewsNext /\ UNCHANGED <<vars, lowered, handshakeVars, selfTestVars, bridgeVars>>
       \/ part = "scalars" /\ ScalarNext /\ UNCHANGED <<vars, viewVars, handshakeVars, selfTestVars, bridgeVars>>
       \/ part = "handshakes" /\ HandshakesNext /\ UNCHANGED <<vars, viewVars, lowered, selfTestVars, bridgeVars>>
       \/ part = "wrapper" /\ WrapperNext /\ UNCHANGED <<vars, viewVars, lowered, handshakeVars, bridgeVars>>
       \/ part = "matmul" /\ MatmulNext /\ UNCHANGED <<vars, viewVars, lowered, handshakeVars, bridgeVars>>
       \/ part = "bridge" /\ BridgeNext /\ UNCHANGED <<vars, viewVars, lowered, handshakeVars, selfTestVars>>

LoweringSpec == LoweringInit /\ [][LoweringNext]_loweringVars
=============================================================================
