---------------------------- MODULE SliceComparison ----------------------------
(***************************************************************************)
(* One transformer block cut out of a generated design and compared with a *)
(* reference.  extract_tinystories_1m_block_slice.py writes the modules    *)
(* that a block needs, one file each, and a manifest that binds them to    *)
(* their sources and to the frozen contract;                               *)
(* compare_tinystories_1m_slice.py judges the evidence of two runs of that *)
(* slice.  Both may be overtaken by a file that is replaced, and the       *)
(* extraction may be killed.                                               *)
(*                                                                         *)
(* A file, a manifest and a module stand for their hashes.                 *)
(***************************************************************************)
EXTENDS Naturals, Sequences, FiniteSets, Functions

CONSTANTS
    SourceFiles(_),    \* a design: [readable, modules] for each file it has;
                       \* a module is [name, text, needs, anchor]
    SourceDesigns, LaterDesigns,   \* the first design, and what may replace it
    SourcePaths,       \* the source paths an invocation may name
    SortedNames(_),         \* a set of module names as Python sorts it
    YosysCells,        \* names of primitives that Yosys supplies
    Contracts,         \* [identity, tokens]
    Flaws,             \* what may be wrong with evidence, "none" among them
    MaxExtractions, MaxSwaps

VARIABLES
    sourceDesign,      \* the generated design under the source paths
    contractFile, metadataFile,
    swaps,             \* replacements of those three so far
    sliceFiles,        \* the slice directory: from <<index, name>> to a text
    sliceManifest,
    extractor,
    evidenceFiles, measurementReports, netlists,   \* by side
    taken,             \* the measurements ever taken
    comparer, verdict,
    overtaken          \* a slice file was written between the comparison's
                       \* two readings of the slice

extractionVars == <<sourceDesign, contractFile, metadataFile, swaps, sliceFiles, sliceManifest, extractor>>
evidencePart == <<evidenceFiles, measurementReports, netlists, taken>>
sliceVars == <<extractionVars, evidencePart, comparer, verdict, overtaken>>

Sides == {"reference", "compiler"}
Kinds == {"resources", "timing"}

-----------------------------------------------------------------------------
(* Parsing sources, finding the block and what it needs.                   *)

Existing(d) == DOMAIN SourceFiles(d)
Declared(d, paths) == UNION {SourceFiles(d)[p].modules : p \in paths}
ModuleNames(modules) == {m.name : m \in modules}
Anchors(modules) == {m.name : m \in {n \in modules : n.anchor}}
TheModule(modules, name) == CHOOSE m \in modules : m.name = name

(* What an anchor needs, directly or not: the least set that has the anchor *)
(* and, with a module, the declared modules that it needs.                  *)
Needs(modules, names) == UNION {m.needs : m \in {n \in modules : n.name \in names}}
DependencyClosure(modules, anchor) ==
    {name \in ModuleNames(modules) :
        \A names \in SUBSET ModuleNames(modules) :
            (anchor \in names /\ Needs(modules, names) \cap ModuleNames(modules) \subseteq names) => name \in names}
Unresolved(modules, names) == Needs(modules, names) \ (ModuleNames(modules) \cup YosysCells)

(* parse_modules, select_anchor and dependency_closure, or their error.    *)
ParseCode(d, paths) ==
    LET modules == Declared(d, paths)
        anchors == Anchors(modules)
    IN  IF \E p \in paths : ~SourceFiles(d)[p].readable THEN "invalid_input"
        ELSE IF Cardinality(ModuleNames(modules)) # Cardinality(modules) THEN "ambiguous_module"
        ELSE IF Cardinality(anchors) # 1 THEN "boundary_not_found"
        ELSE IF Unresolved(modules, DependencyClosure(modules, CHOOSE a \in anchors : TRUE)) # {}
        THEN "unbounded_dependency_closure"
        ELSE "ready"
BlockOf(d, paths) ==
    LET modules == Declared(d, paths)
        anchor  == CHOOSE a \in Anchors(modules) : TRUE
    IN  [anchor |-> anchor, closure |-> SortedNames(DependencyClosure(modules, anchor))]
DeclaredBy(d, paths, name) ==
    CHOOSE p \in paths : name \in ModuleNames(SourceFiles(d)[p].modules)

DesignSet == SourceDesigns \cup LaterDesigns
AllModules == UNION {Declared(d, Existing(d)) : d \in DesignSet}

ASSUME SliceAssumption ==
    /\ {MaxExtractions, MaxSwaps} \subseteq Nat
    /\ \A d \in DesignSet : IsFiniteSet(Declared(d, Existing(d)))
    /\ \A names \in SUBSET ModuleNames(AllModules) :
         SortedNames(names) \in Seq(names) /\ Range(SortedNames(names)) = names

-----------------------------------------------------------------------------
(* The extraction.                                                         *)

NoSliceManifest == [status |-> "absent"]
IdleExtractor(runs) == [pc |-> "idle", runs |-> runs]
NoFiles == [key \in {} |-> "none"]

ExtractionInit ==
    /\ sourceDesign \in SourceDesigns
    /\ contractFile \in Contracts
    /\ metadataFile \in {c.identity : c \in Contracts}
    /\ swaps = 0
    /\ sliceFiles = NoFiles
    /\ sliceManifest = NoSliceManifest
    /\ extractor = IdleExtractor(0)

inputFiles == <<sourceDesign, contractFile, metadataFile, swaps>>
Rest == IdleExtractor(extractor.runs)

Refusal(code) == [status |-> code, contract |-> contractFile]

(* Named sources are taken as they are, or existing ones are discovered.   *)
StartExtraction ==
    /\ extractor.pc = "idle" /\ extractor.runs < MaxExtractions
    /\ \E paths \in {SourcePaths, Existing(sourceDesign)} :
         LET code == IF paths = {} THEN "source_artifact_unavailable"
                     ELSE IF metadataFile # contractFile.identity THEN "contract_mismatch"
                     ELSE IF ~(paths \subseteq Existing(sourceDesign)) THEN "source_artifact_unavailable"
                     ELSE ParseCode(sourceDesign, paths)
         IN  IF code # "ready"
             THEN /\ sliceManifest' = Refusal(code)
                  /\ extractor' = IdleExtractor(extractor.runs + 1)
             ELSE /\ extractor' = [pc |-> "files", runs |-> extractor.runs + 1,
                                   parsed |-> sourceDesign, paths |-> paths,
                                   identity |-> contractFile.identity, artifacts |-> <<>>,
                                   block |-> BlockOf(sourceDesign, paths)]
                  /\ UNCHANGED sliceManifest
    /\ UNCHANGED <<inputFiles, sliceFiles, evidencePart, comparer, verdict, overtaken>>

Overtake == overtaken' = (overtaken \/ comparer.pc = "derive")

WriteFile(key, text) ==
    sliceFiles' = [f \in DOMAIN sliceFiles \cup {key} |-> IF f = key THEN text ELSE sliceFiles[f]]

\* Each module is written to a file of its own, and its source is hashed then.
WriteModule ==
    LET index == Len(extractor.artifacts) + 1
        name  == extractor.block.closure[index]
        path  == DeclaredBy(extractor.parsed, extractor.paths, name)
        text  == TheModule(SourceFiles(extractor.parsed)[path].modules, name).text
    IN
    /\ extractor.pc = "files"
    /\ WriteFile(<<index, name>>, text)
    /\ extractor' =
         IF path \notin Existing(sourceDesign) THEN Rest
         ELSE [extractor EXCEPT
                 !.pc = IF index = Len(extractor.block.closure) THEN "manifest" ELSE @,
                 !.artifacts = Append(@, [module |-> name, source |-> path,
                                          sourceIs |-> SourceFiles(sourceDesign)[path],
                                          extracted |-> <<index, name>>, text |-> text])]
    /\ Overtake
    /\ UNCHANGED <<inputFiles, sliceManifest, evidencePart, comparer, verdict>>

WriteSliceManifest ==
    /\ extractor.pc = "manifest"
    /\ sliceManifest' = [status |-> "ready", contract |-> contractFile, identity |-> extractor.identity,
                         metadata |-> metadataFile, block |-> extractor.block,
                         artifacts |-> extractor.artifacts]
    /\ extractor' = Rest
    /\ UNCHANGED <<inputFiles, sliceFiles, evidencePart, comparer, verdict, overtaken>>

(* Killed, perhaps in the middle of a file.                                *)
KillExtraction ==
    /\ extractor.pc # "idle"
    /\ extractor' = Rest
    /\ IF extractor.pc = "files"
       THEN /\ LET index == Len(extractor.artifacts) + 1 IN
               WriteFile(<<index, extractor.block.closure[index]>>, "torn")
            /\ Overtake
            /\ UNCHANGED sliceManifest
       ELSE /\ sliceManifest' = [status |-> "torn"]
            /\ UNCHANGED <<sliceFiles, overtaken>>
    /\ UNCHANGED <<inputFiles, evidencePart, comparer, verdict>>

(* The design is generated anew, or the contract is frozen anew.           *)
Swap ==
    /\ swaps < MaxSwaps
    /\ swaps' = swaps + 1
    /\ \/ sourceDesign' \in LaterDesigns \ {sourceDesign} /\ UNCHANGED <<contractFile, metadataFile>>
       \/ contractFile' \in Contracts \ {contractFile} /\ UNCHANGED <<sourceDesign, metadataFile>>
       \/ metadataFile' \in {c.identity : c \in Contracts} \ {metadataFile}
            /\ UNCHANGED <<sourceDesign, contractFile>>
    /\ UNCHANGED <<sliceFiles, sliceManifest, extractor, evidencePart, comparer, verdict, overtaken>>

-----------------------------------------------------------------------------
(* Evidence of one side: a trace, the tokens, and two measurements of a    *)
(* netlist, each with its report.                                          *)

NoEvidence == [there |-> FALSE]
NoClaim == [there |-> FALSE]

EvidenceFilesInit ==
    /\ evidenceFiles = [s \in Sides |-> NoEvidence]
    /\ measurementReports = [s \in Sides |-> [k \in Kinds |-> NoClaim]]
    /\ netlists = [s \in Sides |-> "none"]
    /\ taken = {}

Measurement(flaw, s, k, value) ==
    [there |-> TRUE, side |-> s, kind |-> k, contract |-> contractFile, manifest |-> sliceManifest,
     netlist |-> s, id |-> <<s, IF flaw = "one id" THEN "both" ELSE k>>,
     counts |-> flaw # "structural", value |-> value]

(* A claim repeats its report and names the report's file and hash.  What  *)
(* may be wrong: it is missing, it was edited, it is the other side's, its *)
(* report has been written anew, it shares an id, or it counts no cells.   *)
Claims(flaw) ==
    LET Claim(s, k) == [there |-> ~(flaw = "unmeasured" /\ <<s, k>> = <<"compiler", "timing">>),
                        path |-> <<s, k>>, report |-> Measurement(flaw, s, k, 1),
                        says |-> Measurement(flaw, s, k,
                            IF flaw = "edited" /\ <<s, k>> = <<"compiler", "resources">> THEN 2 ELSE 1)]
    IN  [s \in Sides |-> [k \in Kinds |->
            IF flaw = "borrowed" /\ <<s, k>> = <<"compiler", "timing">>
            THEN [Claim("reference", k) EXCEPT !.says.id = <<s, k>>] ELSE Claim(s, k)]]

\* Both sides are measured; at most one thing is wrong.
Produce ==
    \E flaw \in Flaws :
        /\ sliceManifest.status = "ready" /\ taken = {}
        /\ netlists' = [s \in Sides |-> IF flaw = "rebuilt" THEN "another" ELSE s]
        /\ measurementReports' = [s \in Sides |-> [k \in Kinds |->
              Measurement(flaw, s, k,
                  IF flaw = "remeasured" /\ <<s, k>> = <<"compiler", "timing">> THEN 2 ELSE 1)]]
        /\ taken' = {Measurement(flaw, s, k, 1) : s \in Sides, k \in Kinds}
                      \cup {measurementReports'[s][k] : s \in Sides, k \in Kinds}
        /\ evidenceFiles' = [s \in Sides |->
              [there |-> TRUE, contract |-> contractFile, manifest |-> sliceManifest,
               checkpoints |-> IF s = "compiler" /\ flaw \in {"values", "malformed"} THEN flaw ELSE "same",
               tokens |-> IF flaw = "tokens" THEN <<0>> ELSE contractFile.tokens,
               claims |-> Claims(flaw)[s]]]
        /\ UNCHANGED <<extractionVars, comparer, verdict, overtaken>>

-----------------------------------------------------------------------------
(* The comparison reads contract, manifest, evidence, the slice and its    *)
(* sources, and the reports in turn; each is hashed before it is read      *)
(* again.                                                                  *)

IdleComparer == [pc |-> "idle"]
NoVerdict == [status |-> "none"]

LoadFrozenContract ==
    /\ comparer.pc = "idle" /\ verdict = NoVerdict
    /\ comparer' = [pc |-> "manifest", contract |-> contractFile]
    /\ UNCHANGED <<extractionVars, evidencePart, verdict, overtaken>>

Conclude(status) ==
    /\ verdict' = [status |-> status, contract |-> comparer.contract,
                   manifest |-> comparer.manifest, claims |-> NoClaim]
    /\ comparer' = IdleComparer

LoadSliceManifest ==
    /\ comparer.pc = "manifest"
    /\ IF sliceManifest.status \in {"absent", "torn"}
       THEN comparer' = IdleComparer /\ UNCHANGED verdict
       ELSE IF sliceManifest.contract # contractFile \/ sliceManifest.status = "contract_mismatch"
       THEN /\ verdict' = [status |-> "contract_mismatch", contract |-> comparer.contract,
                           manifest |-> sliceManifest, claims |-> NoClaim]
            /\ comparer' = IdleComparer
       ELSE /\ comparer' = [pc |-> "evidence", contract |-> comparer.contract, manifest |-> sliceManifest]
            /\ UNCHANGED verdict
    /\ UNCHANGED <<extractionVars, evidencePart, overtaken>>

LoadEvidence ==
    /\ comparer.pc = "evidence"
    /\ comparer' = [pc |-> "hash", contract |-> comparer.contract, manifest |-> comparer.manifest,
                    frozen |-> contractFile, evidence |-> evidenceFiles]
    /\ UNCHANGED <<extractionVars, evidencePart, verdict, overtaken>>

(* The manifest's own claims, and the hash of every file it names.         *)
ManifestHolds(m, c) ==
    /\ m.status = "ready"
    /\ m.identity = c.identity
    /\ m.metadata = metadataFile /\ metadataFile = c.identity
    /\ [n \in 1..Len(m.artifacts) |-> m.artifacts[n].module] = m.block.closure
    /\ \A n \in 1..Len(m.artifacts) :
         LET a == m.artifacts[n] IN
         /\ a.source \in Existing(sourceDesign) /\ SourceFiles(sourceDesign)[a.source] = a.sourceIs
         /\ a.extracted \in DOMAIN sliceFiles /\ sliceFiles[a.extracted] = a.text

HashSlice ==
    /\ comparer.pc = "hash"
    /\ IF ~(contractFile = comparer.frozen /\ comparer.contract = comparer.frozen
              /\ comparer.manifest.contract = comparer.frozen)
       THEN Conclude("contract_mismatch")
       ELSE IF ~ManifestHolds(comparer.manifest, comparer.frozen)
       THEN Conclude("incomplete")
       ELSE comparer' = [comparer EXCEPT !.pc = "derive"] /\ UNCHANGED verdict
    /\ UNCHANGED <<extractionVars, evidencePart, overtaken>>

\* Slip: hashes that agree are taken for the slice.
DerivedUnread(m) == m.status = "ready"

(* The block is derived again from the sources the manifest names.         *)
Derived(m) ==
    LET paths == {m.artifacts[n].source : n \in 1..Len(m.artifacts)} IN
    /\ paths \subseteq Existing(sourceDesign)
    /\ ParseCode(sourceDesign, paths) = "ready"
    /\ BlockOf(sourceDesign, paths) = m.block
    /\ \A n \in 1..Len(m.artifacts) :
         LET a == m.artifacts[n] IN
         /\ a.extracted \in DOMAIN sliceFiles
         /\ sliceFiles[a.extracted] = TheModule(Declared(sourceDesign, paths), a.module).text

DeriveSlice ==
    /\ comparer.pc = "derive"
    /\ IF Derived(comparer.manifest)
       THEN comparer' = [comparer EXCEPT !.pc = "judge"] /\ UNCHANGED verdict
       ELSE Conclude("incomplete")
    /\ UNCHANGED <<extractionVars, evidencePart, overtaken>>

-----------------------------------------------------------------------------
(* The judgement, in the order of its early returns.                       *)

Traced(e, m, c) ==
    e.there /\ e.contract = c /\ e.manifest = m /\ e.checkpoints # "malformed" /\ e.tokens # <<>>

\* What is said of a measurement, by the evidence and by its report.
Measured(claim, s, k, m, c) ==
    LET report == measurementReports[claim.path[1]][claim.path[2]] IN
    /\ claim.says.counts
    /\ claim.says.side = s /\ claim.says.kind = k
    /\ claim.says.contract = c /\ claim.says.manifest = m
    /\ report.there /\ claim.report = report /\ claim.says = report
    /\ netlists[s] = claim.says.netlist

\* Evidence that is not given has the frozen contract and nothing else.
ContractOf(e, c) == IF e.there THEN e.contract ELSE c

Judgement(e, m, c) ==
    LET reference == e["reference"]
        compiler  == e["compiler"]
        claims    == {<<s, k>> : s \in Sides, k \in Kinds}
        ClaimOf(p) == e[p[1]].claims[p[2]]
    IN  IF ContractOf(reference, c) # ContractOf(compiler, c) THEN "contract_mismatch"
        ELSE IF ~Traced(reference, m, c) \/ ~Traced(compiler, m, c) THEN "incomplete"
        ELSE IF \/ reference.checkpoints # compiler.checkpoints
                \/ reference.tokens # compiler.tokens \/ reference.tokens # c.tokens
        THEN "functional_mismatch"
        ELSE IF \/ \E p \in claims : ~ClaimOf(p).there
                \/ Cardinality({ClaimOf(p).says.id : p \in claims}) # Cardinality(claims)
                \/ \E p \in claims : ~Measured(ClaimOf(p), p[1], p[2], m, c)
        THEN "incomplete"
        ELSE "aligned"

Judge ==
    LET status == Judgement(comparer.evidence, comparer.manifest, comparer.frozen) IN
    /\ comparer.pc = "judge"
    /\ IF status = "aligned"
       THEN /\ verdict' = [status |-> status, contract |-> comparer.frozen, manifest |-> comparer.manifest,
                           claims |-> [s \in Sides |-> comparer.evidence[s].claims]]
            /\ comparer' = IdleComparer
       ELSE Conclude(status)
    /\ UNCHANGED <<extractionVars, evidencePart, overtaken>>

SliceInit ==
    /\ ExtractionInit /\ EvidenceFilesInit
    /\ comparer = IdleComparer /\ verdict = NoVerdict
    /\ overtaken = FALSE

SliceNext ==
    \/ StartExtraction \/ WriteModule \/ WriteSliceManifest \/ KillExtraction
    \/ Swap
    \/ Produce
    \/ LoadFrozenContract \/ LoadSliceManifest \/ LoadEvidence
    \/ HashSlice \/ DeriveSlice \/ Judge

SliceSpec == SliceInit /\ [][SliceNext]_sliceVars

-----------------------------------------------------------------------------
(* What a manifest binds are the modules of its sources, one block and all *)
(* that it needs.                                                          *)
BindsItsBlock(m) ==
    LET modules == UNION {m.artifacts[n].sourceIs.modules : n \in 1..Len(m.artifacts)} IN
    /\ \A n \in 1..Len(m.artifacts) :
         LET a == m.artifacts[n] IN
         /\ a.module = m.block.closure[n]
         /\ \E s \in modules : s.name = a.module /\ s.text = a.text
    /\ m.block.anchor \in Range(m.block.closure)
    /\ Range(m.block.closure) = DependencyClosure(modules, m.block.anchor)
    /\ Unresolved(modules, Range(m.block.closure)) = {}

(* Four numbers are four measurements that were taken, of either side's     *)
(* netlist of that slice under that contract.                              *)
AreMeasurements(claims, m, c) ==
    \A s \in Sides, k \in Kinds :
        LET says == claims[s][k].says IN
        /\ says \in taken
        /\ says.side = s /\ says.kind = k
        /\ says.contract = c /\ says.manifest = m
        /\ \A t \in Sides, j \in Kinds : <<t, j>> # <<s, k>> => claims[t][j].says.id # says.id

(* An aligned verdict is about one slice: the manifest binds its block, and *)
(* the numbers are measurements of it -- however extractions die, and       *)
(* whatever is replaced once while files are hashed and read again, unless  *)
(* another extraction writes a file between the two.                        *)
AlignedIsEarned ==
    verdict.status = "aligned" /\ ~overtaken =>
        /\ verdict.manifest.contract = verdict.contract
        /\ verdict.manifest.identity = verdict.contract.identity
        /\ BindsItsBlock(verdict.manifest)
        /\ AreMeasurements(verdict.claims, verdict.manifest, verdict.contract)
=============================================================================
