------------------------------- MODULE MCEvidence -------------------------------
(***************************************************************************)
(* The evidence scripts on small instances.  They share no file, so a      *)
(* behaviour runs one of them and leaves the others where they start.      *)
(***************************************************************************)
EXTENDS PackageGate, LayerNormBackend, LayerNormSchedule, RouteMatrix, OracleShards, MCWorkingImage,
        SliceComparison, SoftmaxPattern, AuthenticatedReports, ServingTrace, ReferencePackage, SequencesExt, TLC

VARIABLE script

MCInputs == {-16, -15, -1, 0, 4, 15}
MCAffines == {[gamma |-> 15, beta |-> -16], [gamma |-> -6, beta |-> 11]}

\* Any four values, one per quarter of the lanes or in turn.  Half of the lanes
\* at each end of a word sum to 3848, three carries out of the low limb's 1024.
MCRows ==
    LET fours == [0..3 -> MCInputs] IN
    {[i \in 0..(Lanes - 1) |-> values[(4 * i) \div Lanes]] : values \in fours}
        \cup {[i \in 0..(Lanes - 1) |-> values[i % 4]] : values \in fours}
MCScheduleInit == input \in MCRows /\ ScheduleInit
MCTried == <<"exp", "tanh">>
MCRequired == <<"tanh", "exp">>
MCTransforms == <<"to-libm">>

\* Three programs; the old and the new one differ everywhere, the late one
\* computes on the first contexts what the old one does.
MCObserved(e, c) ==
    [t \in 1..2 |->
        IF e = "new" THEN (IF c = <<0, 1>> THEN t - 2 ELSE 1 - t)
        ELSE IF e = "late" /\ c = <<1, 0>> THEN 1
        ELSE IF c = <<1, 1>> THEN -t
        ELSE c[t] - c[3 - t]]
MCRequests == {<<0, 2>>, <<2, 4>>, <<1, 4>>}
MCCorpus == {1}

\* One file is exchanged, or the package, or the package with its contract.
MCUnits ==
    {{f} : f \in {"contract", "manifest", "weights", "receipt", "license", "hardware",
                  "qdq receipt", "profile", "artifact", "vector", "adapter receipt",
                  "graph", "provenance", "source", "config", "slice", "reference"}}
        \cup {{Package[i] : i \in DOMAIN Package} \cup others : others \in {{}, {"contract"}}}

MCSharings == SUBSET {"max", "delta", "exp"}

\* The next token is another one than the last, or depends on the cache's
\* length only, or is always the first.
MCScore(m, e, t) ==
    IF m = "late" /\ Len(e) = 4 THEN t
    ELSE IF m = "tied" THEN 0
    ELSE IF e[Len(e)] = t THEN 0 ELSE 1 + ((e[1] + Len(e)) % 2)
MCTraces ==
    {[prompt |-> <<0, 1>>, phases |-> Phases], [prompt |-> <<1, 1>>, phases |-> Phases],
     [prompt |-> <<0, 2>>, phases |-> Phases], [prompt |-> <<0, 1>>, phases |-> <<Phases[1], Phases[2], Phases[2]>>]}

-----------------------------------------------------------------------------
(* Designs that can be cut, that change in a module's body or in the files *)
(* it is in, and that cannot be cut: a module declared twice, a module     *)
(* that is missing, two blocks, a source cut short, and no source at all.  *)

SourceModule(name, text, needs, anchor) == [name |-> name, text |-> text, needs |-> needs, anchor |-> anchor]
MCBlock == SourceModule("block", "b1", {"mac", "$add"}, TRUE)
MCMac(text) == SourceModule("mac", text, {}, FALSE)
SourceText(modules) == [readable |-> TRUE, modules |-> modules]

MCSourceFiles(d) ==
    CASE d = "old" -> "main" :> SourceText({MCBlock, MCMac("m1"), SourceModule("misc", "x", {}, FALSE)})
      [] d = "new" -> "main" :> SourceText({MCBlock, MCMac("m2")})
      [] d = "split" -> "main" :> SourceText({MCBlock}) @@ "lib" :> SourceText({MCMac("m1")})
      [] d = "twice" -> "main" :> SourceText({MCBlock, MCMac("m1")}) @@ "lib" :> SourceText({MCMac("m2")})
      [] d = "open" -> "main" :> SourceText({MCBlock})
      [] d = "two" -> "main" :> SourceText({MCBlock, SourceModule("mac", "m1", {}, TRUE)})
      [] d = "cut" -> "main" :> [readable |-> FALSE, modules |-> {MCBlock}]
      [] d = "empty" -> [p \in {} |-> SourceText({})]
MCSortedNames(names) == SelectSeq(<<"block", "mac", "misc">>, LAMBDA n : n \in names)

FirstContract == [identity |-> "one", tokens |-> <<1>>]
MCContracts == {FirstContract, [identity |-> "one", tokens |-> <<2>>], [identity |-> "two", tokens |-> <<1>>]}

(* The first contract and its metadata; nothing happens after a verdict.   *)
MCSliceInit == SliceInit /\ contractFile = FirstContract /\ metadataFile = "one"
MCSliceNext == verdict = NoVerdict /\ SliceNext

-----------------------------------------------------------------------------
(* One block; two tensors of two bytes with two scales, the others a float *)
(* of one byte.  In a file's place may be: a manifest with two tensors     *)
(* swapped, with other boundaries or with a tensor too few; images with    *)
(* one other byte, and none; a contract of another prompt that pins the    *)
(* swapped manifest; configurations with too few positions and of other    *)
(* shapes.                                                                 *)

MCSourceNames == FoldSet(LAMBDA name, names : Append(names, name), <<>>, _expected_source_names(1))
MCQuantised == {<<1, "attn_k">>, <<1, "attn_q">>}
MCSize(i) == IF MCSourceNames[i] \in MCQuantised THEN 2 ELSE 1
MCScaleSize(i) == IF MCSourceNames[i] \in MCQuantised THEN 2 ELSE 0
MCOffset[i \in 1..Len(MCSourceNames) + 1] == IF i = 1 THEN 0 ELSE MCOffset[i - 1] + MCSize(i - 1)
MCScaleOffset[i \in 1..Len(MCSourceNames) + 1] == IF i = 1 THEN 0 ELSE MCScaleOffset[i - 1] + MCScaleSize(i - 1)
MCWeights == [n \in 1..MCOffset[Len(MCSourceNames) + 1] |-> n]
MCScales == [n \in 1..MCScaleOffset[Len(MCSourceNames) + 1] |-> n]
MCEntry(i) ==
    [name |-> MCSourceNames[i], offset |-> MCOffset[i], nbytes |-> MCSize(i),
     scale_offset |-> MCScaleOffset[i], scale_nbytes |-> MCScaleSize(i),
     sha256 |-> Cut(MCWeights, MCOffset[i], MCSize(i)), scale_sha256 |-> Cut(MCScales, MCScaleOffset[i], MCScaleSize(i)),
     format |-> IF MCSourceNames[i] \in MCQuantised THEN "symmetric_int8_per_output" ELSE "float32",
     signed8 |-> TRUE, shape |-> <<MCSize(i)>>]
MCModel == [layers |-> 1, revision |-> "1M", max_context |-> 4]
MCManifest ==
    [model |-> MCModel, max_context |-> 4, symmetric_activations |-> TRUE,
     tensors |-> [i \in DOMAIN MCSourceNames |-> MCEntry(i)], overrides |-> MCQuantised,
     activation_scales |-> [name \in _expected_activation_names(1) |-> IF name[1] = 0 THEN <<1>> ELSE <<1, 2>>],
     files |-> [weights |-> MCWeights, scales |-> MCScales, calibration |-> "ids"]]
MCIndex(name) == CHOOSE i \in DOMAIN MCSourceNames : MCSourceNames[i] = name
MCSwapped ==
    LET i == MCIndex(<<1, "attn_k">>)  j == MCIndex(<<1, "attn_q">>) IN
    [MCManifest EXCEPT !.tensors = [@ EXCEPT ![i].name = MCSourceNames[j], ![j].name = MCSourceNames[i]]]
MCPackageContract ==
    [manifest |-> MCManifest, weights |-> MCWeights, scales |-> MCScales, calibration |-> "ids",
     receipt |-> [manifest |-> MCManifest, files |-> MCManifest.files]]
MCContract == [model |-> MCModel, package |-> MCPackageContract, int8_weights |-> TRUE, prompt |-> "prompt"]
MCShapes == [target \in Targets(1) |->
                IF target \in {<<1, "k_proj.weight">>, <<1, "q_proj.weight">>} THEN <<2>> ELSE <<1>>]
MCConfig == [model |-> MCModel, positions |-> 8, schedule |-> TRUE, shapes |-> MCShapes]

MCPackageVersions ==
    [manifest |-> {MCSwapped, [MCManifest EXCEPT !.activation_scales[<<0, <<"lm_head", "input">>>>] = <<3>>],
                   [MCManifest EXCEPT !.tensors = Front(@)]},
     weights |-> {[MCWeights EXCEPT ![1] = NotANumber], Unreadable},
     scales |-> {[MCScales EXCEPT ![2] = 77]},
     calibration |-> {}, receipt |-> {},
     contract |-> {[MCContract EXCEPT !.prompt = "other", !.package["manifest"] = MCSwapped]},
     config |-> {[MCConfig EXCEPT !.positions = 2], [MCConfig EXCEPT !.shapes[<<1, "k_proj.weight">>] = <<1, 2>>]}]

-----------------------------------------------------------------------------
evidenceVars == <<script, gateVars, backendVars, scheduleVars, matrixVars, shardVars,
                  workingVars, sliceVars, patternVars, reportVars, servingVars, referenceVars>>

\* A script that does not run has nothing in hand.
NoSchedule ==
    /\ stage = "none" /\ lane = 0 /\ input = <<>> /\ affine = <<>> /\ output = <<>>
    /\ total = 0 /\ mean = 0 /\ low = 0 /\ high = 0
    /\ remainder = 0 /\ root = 0 /\ bit = 0
NoMatrix == rows = <<>> /\ files = <<>> /\ conclusion = NoConclusion
NoGenerators == generators = [g \in Generators |-> Fresh(<<0, 2>>)]

NoAdapterRun ==
    /\ packageFiles = <<>> /\ adapter = [step |-> "idle"] /\ fileReplacements = 0
    /\ verified = NotMade /\ bundle = Unloaded /\ numericTrace = NotMade /\ packageProgram = NotMade

NoPattern == shared = {} /\ flaw = Sound /\ graph = <<>> /\ matcher = Unmatched

EvidenceInit ==
    /\ script \in {"gate", "backend", "schedule", "matrix", "shards", "working", "slice", "pattern", "reports", "serving", "reference"}
    /\ GateInit
    /\ script # "gate" => /\ package = "frozen" /\ destination = Absent
                          /\ \A r \in Runs : runs[r].profile
    /\ BackendInit
    /\ script # "backend" => flat = "absent" /\ report = NoReport
    /\ IF script = "matrix" THEN MatrixInit ELSE NoMatrix
    /\ ShardsInit
    /\ export = "old"
    /\ script # "shards" => NoGenerators
    /\ WorkingInit
    /\ script # "working" => phase = "image" /\ exported = "old"
    /\ MCSliceInit
    /\ script # "slice" => sourceDesign = "old"
    /\ IF script = "pattern" THEN PatternInit ELSE NoPattern
    /\ script # "reports" => author = "selection" /\ touched = {"contract"}
                             /\ disk = [f \in Files |-> Pinned]
    /\ ReportsInit
    /\ ServingInit
    /\ script # "serving" => updates = "a copy" /\ fault = "none" /\ model = "late"
                             /\ trace = [prompt |-> <<0, 1>>, phases |-> Phases]
    /\ IF script = "reference" THEN ReferenceInit ELSE NoAdapterRun
    /\ IF script = "schedule" THEN MCScheduleInit ELSE NoSchedule

Rests(name, vars) == IF script = name THEN TRUE ELSE UNCHANGED vars

EvidenceNext ==
    /\ UNCHANGED script
    /\ Rests("gate", gateVars) /\ Rests("backend", backendVars)
    /\ Rests("schedule", scheduleVars) /\ Rests("matrix", matrixVars)
    /\ Rests("shards", shardVars) /\ Rests("working", workingVars)
    /\ Rests("slice", sliceVars) /\ Rests("pattern", patternVars)
    /\ Rests("reports", reportVars)
    /\ Rests("serving", servingVars) /\ Rests("reference", referenceVars)
    /\ \/ script = "gate" /\ GateNext
       \/ script = "backend" /\ BackendNext
       \/ script = "schedule" /\ ScheduleNext
       \/ script = "matrix" /\ MatrixNext
       \/ script = "shards" /\ ShardsNext
       \/ script = "working" /\ WorkingNext
       \/ script = "slice" /\ MCSliceNext
       \/ script = "pattern" /\ PatternNext
       \/ script = "reports" /\ ReportsNext
       \/ script = "serving" /\ ServingNext
       \/ script = "reference" /\ ReferenceNext

EvidenceSpec == EvidenceInit /\ [][EvidenceNext]_evidenceVars
=============================================================================
