----------------------------- MODULE MCStrictRunner -----------------------------
(***************************************************************************)
(* The strict equivalence runner's parts on small instances: invocations   *)
(* on one work directory, the reducer of the frozen gate, the rewriting of *)
(* one assignment, the binding of one design's memories, diagnostic        *)
(* invocations.  A behaviour runs one part and leaves the others where     *)
(* they start.                                                             *)
(***************************************************************************)
EXTENDS EquivalenceCache, FrozenGate, SvNormalizer, MemoryBindings, DiagnosticRunner, TLC

VARIABLE part

MCSymmetry == Permutations(Sources) \cup Permutations(Images)

-----------------------------------------------------------------------------
\* Another build altogether but for the bound, and one with another bound.
MCBuild == [f \in BuildNames |-> 1]
MCBuilds == {MCBuild, [[f \in BuildNames |-> 2] EXCEPT !["bound"] = 1],
             [MCBuild EXCEPT !["bound"] = 2]}
MCCases == <<"zeros", "ascending">>

-----------------------------------------------------------------------------
Name(n) == <<"name", n>>
Literal(v) == <<"literal", v>>
Arm(condition, value) == condition \o <<Question>> \o value \o <<Colon>>

\* Conditions may be ternaries themselves; some values are no literals.
MCConditions == {<<Name("p")>>, <<Name("q")>>,
                 <<OpenParen, Name("p"), Question, Name("q"), Colon, Literal(1), CloseParen>>}
MCValues == {<<Literal(0)>>, <<Literal(1)>>}
MCOddValues == {<<Literal(0)>>, <<Name("q"), Question, Literal(0), Colon, Literal(1)>>, <<Name("q")>>}
MCTernaries ==
    {FlattenSeq(s) \o v :
        s \in UNION {[1..n -> {Arm(c, u) : c \in MCConditions, u \in MCValues}] : n \in {2, 3}},
        v \in MCValues}
    \cup {FlattenSeq(s) \o v :
        s \in [1..3 -> {Arm(c, u) : c \in {d \in MCConditions : Len(d) > 1}, u \in MCOddValues}],
        v \in MCOddValues}
    \cup {FlattenSeq(s) \o <<Literal(1)>> :
        s \in [1..5 -> {Arm(<<Name("p")>>, <<Literal(0)>>), Arm(<<Name("q")>>, <<Literal(1)>>)}]}
MCTerms == {<<Name("p")>>, <<Name("q")>>, <<OpenParen, Name("p"), Bar, Name("q"), CloseParen>>}
MCOrs(lengths) == {Joined(s) : s \in UNION {[1..n -> MCTerms] : n \in lengths}}
MCLeaves == {<<Literal(0)>>, <<OpenParen, Literal(0), CloseParen>>, <<Literal(1)>>, <<Literal(2)>>,
             <<Name("q")>>, <<OpenParen>> \o Arm(<<Name("q")>>, <<Literal(0)>>)
                                \o <<Literal(0), CloseParen>>}
MCEnables ==
    MCLeaves \cup {Arm(c, v) \o w : c \in MCConditions, v, w \in MCLeaves}
    \cup {<<OpenParen>> \o Arm(c, v) \o Arm(<<Name("p")>>, <<Literal(0)>>) \o w \o <<CloseParen>> :
            c \in MCConditions, v, w \in MCLeaves}

Assigned(text, declared) ==
    [kind |-> "assign", text |-> text, declared |-> declared, large |-> TRUE, prefixed |-> FALSE]
MCShort == Assigned(<<Name("p"), Bar, Name("q"), Bar, Name("p")>>, "scalar")
MCAssignments ==
    {Assigned(text, "packed") : text \in MCTernaries}
    \cup {Assigned(text, "scalar") : text \in MCOrs({2, 3, 5})}
    \cup {Assigned(text, "other") : text \in MCOrs({3})}
    \cup {[MCShort EXCEPT !.large = FALSE], [MCShort EXCEPT !.prefixed = TRUE]}
    \cup {[kind |-> "enable", text |-> text, declared |-> "none", large |-> FALSE,
           prefixed |-> FALSE] : text \in MCEnables}

-----------------------------------------------------------------------------
\* Two named ports, the two buffers, three external globals, one scratch port;
\* floats of two bytes.
MCSegmentName(n) == IF n = 0 THEN "param0" ELSE "bias"
MCTokenSize == <<16, 2>>
MCOutputSize == <<8, 2>>
MCElements(port, depth) == depth
MCNameOrder == <<"bias", "extra", "param0", "v", "w">>

PinWidth(n, pin) ==
    IF pin \in {"write_data", "read_data"} THEN (IF n \in {0, 3} THEN 8 ELSE 16)
    ELSE IF n = 0 /\ pin = "addr0" THEN 2 ELSE 1
Pin(n, pin) == [number |-> n, pin |-> pin, width |-> PinWidth(n, pin),
                direction |-> IF pin \in {"read_data", "done"} THEN "input" ELSE "output"]
MCDesign == [pins |-> {Pin(n, pin) : n \in Ports, pin \in Pins},
             enables |-> [n \in Ports |-> IF n \in {3, 7} THEN "mutable" ELSE "immutable"]]
WithPin(p, q) == [MCDesign EXCEPT !.pins = (@ \ {p}) \cup q]
MCDesigns ==
    {MCDesign} \cup
    {[MCDesign EXCEPT !.enables[n] = v] : n \in {3, 5}, v \in {"mutable", "immutable", "rejected"}} \cup
    {WithPin(Pin(5, "done"), {}),
     WithPin(Pin(5, "done"), {[Pin(5, "done") EXCEPT !.direction = "output"]}),
     WithPin(Pin(5, "done"), {Pin(5, "done"), [Pin(5, "done") EXCEPT !.pin = "clk"]}),
     WithPin(Pin(5, "read_data"), {[Pin(5, "read_data") EXCEPT !.width = 8]}),
     WithPin(Pin(2, "addr0"), {[Pin(2, "addr0") EXCEPT !.width = 2]}),
     WithPin(Pin(5, "addr0"), {[Pin(5, "addr0") EXCEPT !.width = 2]})}

Zero == [shape |-> <<>>, type |-> "f32", initializer |-> "zero"]
Resource(name, shape) == [shape |-> shape, type |-> "f32", initializer |-> name]
Get(symbol, shape) == [symbol |-> symbol, shape |-> shape, type |-> "f32"]
Dense(bytes) == [framed |-> TRUE, bytes |-> bytes]
MCProgram ==
    [ambiguous |-> FALSE,
     globals |-> ("z" :> Zero @@ "g" :> Resource("rw", <<2>>) @@ "h" :> Resource("rv", <<2, 1>>)),
     resources |-> ("rw" :> Dense(<<1, 2, 3, 4>>) @@ "rv" :> Dense(<<5, 6, 7, 8>>)),
     named |-> <<Get("z", <<>>), Get("g", <<2>>), Get("h", <<2, 1>>)>>]
MCPrograms ==
    {MCProgram,
     [MCProgram EXCEPT !.named = <<@[1], @[3], @[2]>>],
     [MCProgram EXCEPT !.named[3].shape = <<2>>],
     [MCProgram EXCEPT !.named[3].shape = <<1>>],
     [MCProgram EXCEPT !.named[3].type = "i32"],
     [MCProgram EXCEPT !.named[3].symbol = "k"],
     [MCProgram EXCEPT !.named[2] = Get("z", <<>>)],
     [MCProgram EXCEPT !.named[1] = Get("g", <<2>>)],
     [MCProgram EXCEPT !.named = <<@[1], @[2]>>],
     [MCProgram EXCEPT !.ambiguous = TRUE],
     [MCProgram EXCEPT !.globals["h"].initializer = "rx"],
     [MCProgram EXCEPT !.resources["rv"].framed = FALSE],
     [MCProgram EXCEPT !.resources["rv"].bytes = <<5, 6, 7, 9>>],
     [MCProgram EXCEPT !.resources["rv"].bytes = <<1, 2, 3, 4>>],
     [MCProgram EXCEPT !.resources["rv"].bytes = <<5, 6>>]}

Segment(name, dtype, offset, length, shape) ==
    [name |-> name, category |-> "state", dtype |-> dtype, offset |-> offset,
     length |-> length, shape |-> shape]
MCPackage ==
    [image |-> <<9, 9, 9, 5, 6, 1, 2, 3, 4, 5, 6, 7, 8>>,
     segments |-> <<Segment("param0", "int8", 0, 3, <<3>>), Segment("bias", "float32", 3, 2, <<1>>),
                    Segment("w", "float32", 5, 4, <<2>>), Segment("v", "float32", 9, 4, <<2, 1>>)>>]
MCPackages ==
    {MCPackage,
     [MCPackage EXCEPT !.image = <<9, 9, 9, 5, 6, 5, 6, 7, 8, 1, 2, 3, 4>>],
     [MCPackage EXCEPT !.image = <<9, 9, 9, 5, 6, 1, 2, 3, 4, 1, 2, 3, 4>>],
     [MCPackage EXCEPT !.segments = Append(@, Segment("extra", "float32", 5, 4, <<2>>))],
     [MCPackage EXCEPT !.segments = Append(@, Segment("w", "float32", 5, 4, <<2>>))],
     [MCPackage EXCEPT !.segments[3].length = 2],
     [MCPackage EXCEPT !.segments[4].offset = 11],
     [MCPackage EXCEPT !.segments[4].category = "output"],
     [MCPackage EXCEPT !.segments[4].dtype = "int8"],
     [MCPackage EXCEPT !.segments[2].name = "extra"]}
MCProof == [status |-> "pass", mismatches |-> 0, hashed |-> <<1, 1>>, given |-> <<1, 1>>, constants |-> <<1, 2>>]
MCProofs == {MCProof, [MCProof EXCEPT !.mismatches = 1], [MCProof EXCEPT !.given = <<1, 2>>], [MCProof EXCEPT !.constants = <<1, 1>>]}

-----------------------------------------------------------------------------
\* Two designs, of which one answers only one row's tokens on either image and
\* is late with the other's; a reference of two rows and one of another answer.
MCRow(id, tokens, codes, token) == [id |-> id, tokens |-> tokens, codes |-> codes, token |-> token]
MCContents ==
    [sv |-> {"d1", "d2"}, image |-> {"i1", "i2"}, manifest |-> {"m"},
     reference |-> {<<MCRow("c1", "a", <<2, 1>>, 1), MCRow("c2", "b", <<1, 2>>, 2)>>,
                    <<MCRow("c1", "a", <<1, 2>>, 2)>>}]
Answer(ends, codes, partial) == [ends |-> ends, codes |-> codes, partial |-> partial]
MCSimulated(sv, loaded, tokens) ==
    IF loaded \in {HalfThere, NotThere} THEN Answer("silent", <<>>, <<>>)
    ELSE IF sv = "d1" /\ loaded.image = "i1"
    THEN IF tokens = "a" THEN Answer("done", <<2, 1>>, <<2, 1>>) ELSE Answer("late", <<0, 0>>, <<1, 2>>)
    ELSE IF tokens = "b" THEN Answer(IF sv = "d1" THEN "silent" ELSE "fatal", <<>>, <<>>)
    ELSE Answer("done", <<1, 2>>, <<2, 0>>)
Asked(flags, place, simulator, case) ==
    [flags |-> flags \cup InputFiles, place |-> place, simulator |-> simulator, case |-> case]
MCCommands ==
    {Asked({}, "temporary", "iverilog", NoCase), Asked({}, "named", "verilator", "c2"),
     Asked({"compile-only"}, "named", "verilator", NoCase),
     Asked({"compile-only", "static-fixture-case"}, "named", "verilator", "c2"),
     Asked({"fixture-only"}, "named", "verilator", NoCase),
     Asked({"run-only", "verify-cache"}, "named", "verilator", NoCase),
     Asked({"run-only", "verify-cache"}, "named", "verilator", "c2"),
     Asked({"run-only", "verify-cache", "static-fixture-case"}, "named", "verilator", "c2"),
     Asked({"run-only", "verify-cache", "stop-after-output"}, "named", "verilator", NoCase),
     Asked({"run-only"}, "named", "verilator", "c2"),
     Asked({"run-only"}, "temporary", "verilator", NoCase),
     Asked({"reduce-frozen-four"}, "named", "verilator", NoCase),
     Asked({"equivalence-shard"}, "named", "verilator", NoCase),
     [Asked({"equivalence-shard", "proofs", "source IR"}, "named", "verilator", NoCase)
        EXCEPT !.flags = @ \ {"reference"}]}

-----------------------------------------------------------------------------
runnerVars == <<part, vars, frozenVars, normalizerVars, bindingVars, diagnosticVars>>

NoReceipts ==
    /\ proof = 0 /\ receipts = <<>> /\ altered = [reruns |-> 0, mixed |-> 0]
    /\ reducer = NoReduction /\ counterexample = FALSE /\ summary = NoSummary
NoAssignment == assignment = MCShort /\ lines = <<>> /\ normalizer = [pc |-> "none", verdict |-> "none"]
NoInputs == inputs = <<>> /\ binder = NoBinder /\ memories = <<>>
NoDiagnostic ==
    /\ given = <<>> /\ work = <<>> /\ settled = <<>> /\ exchanges = 0
    /\ attempt = NoAttempt /\ attempts = 0

RunnerInit ==
    /\ part \in {"cache", "frozen", "normalizer", "bindings", "diagnostic"}
    /\ Init
    /\ IF part = "frozen"
       THEN FrozenInit /\ receipts["zeros"].abi = 1 /\ receipts["zeros"].bound = 1
       ELSE NoReceipts
    /\ IF part = "normalizer" THEN NormalizerInit ELSE NoAssignment
    /\ IF part = "bindings"
       THEN /\ BindingsInit
            /\ inputs.proof # MCProof => inputs.design = MCDesign /\ inputs.package = MCPackage
       ELSE NoInputs
    /\ IF part = "diagnostic" THEN DiagnosticInit ELSE NoDiagnostic

Rests(name, others) == IF part = name THEN TRUE ELSE UNCHANGED others

RunnerNext ==
    /\ UNCHANGED part
    /\ Rests("cache", vars) /\ Rests("frozen", frozenVars)
    /\ Rests("normalizer", normalizerVars) /\ Rests("bindings", bindingVars)
    /\ Rests("diagnostic", diagnosticVars)
    /\ \/ part = "cache" /\ Next
       \/ part = "frozen" /\ FrozenNext
       \/ part = "normalizer" /\ NormalizerNext
       \/ part = "bindings" /\ BindingsNext
       \/ part = "diagnostic" /\ DiagnosticNext

RunnerSpec == RunnerInit /\ [][RunnerNext]_runnerVars
=============================================================================
