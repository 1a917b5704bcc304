--------------------------- MODULE LayerNormBridge ---------------------------
(***************************************************************************)
(* bridge_tinystories_1m_rtl_layernorm.py: from the semantics receipt, the *)
(* vector, the primitive and the Q/DQ profile to the evidence; from the    *)
(* exported program to one LayerNorm node; from both to the descriptor of  *)
(* a custom operation, its MLIR and a report.                              *)
(*                                                                         *)
(* A hash is the value it is the hash of: equal hashes are equal values.   *)
(* The bytes of a file are a value of their own, because the same contents *)
(* may be laid out in two ways.  Every file may be exchanged between any   *)
(* two steps, and a run may be killed, also while it writes.               *)
(***************************************************************************)
EXTENDS Naturals, Sequences

CONSTANTS
    Frozen,        \* the files whose hashes the source pins
    Variants,      \* what else may be in each file's place
    GRAPH_INDEX,   \* the node that the pinned source operation was
    RunIndices,    \* the --graph-index of a run
    SourceOp,      \* the pinned source operation
    NotWritten,    \* an output that is not there, or emptied and not refilled
    HalfWritten,
    BridgeSwaps,   \* bound on exchanges
    BridgeKills    \* bound on runs that are killed

LnEvidence == <<"adapter", "profile", "vector", "primitive", "qdq">>
LnFiles == {"adapter", "profile", "vector", "primitive", "qdq", "export", "receipt"}
LnHash(f) == Frozen[f].bytes

\* What validate_source_op accepts, field by field.
PinnedSource ==
    [index |-> GRAPH_INDEX, name |-> SourceOp.name, target |-> SourceOp.target, types |-> SourceOp.types,
     epsilon |-> SourceOp.epsilon, cudnn |-> TRUE, parameters |-> SourceOp.parameters,
     export |-> LnHash("export"), receipt |-> LnHash("receipt")]

ASSUME BridgeAssumption ==
    /\ SourceOp = PinnedSource
    /\ NotWritten # HalfWritten
    /\ BridgeSwaps \in Nat /\ BridgeKills \in Nat

VARIABLES
    lnFiles,    \* what every input file holds
    lnRun,      \* the run: its next step and what it has in hand
    lnMlir,     \* the MLIR file
    lnReport,   \* the report
    lnSwaps, lnKills

bridgeVars == <<lnFiles, lnRun, lnMlir, lnReport, lnSwaps, lnKills>>

sha256_file(f) == lnFiles[f].bytes

-----------------------------------------------------------------------------
(* What is made of the files, and what is required of it.                  *)

\* `sealed` says that a file's own hash is that of the rest of it.
ProfileIsRight(p) == p.sealed /\ p.receipt = Frozen["profile"].receipt
VectorIsRight(v) == v.sealed /\ v.binds = Frozen["profile"].receipt /\ v.contents = Frozen["vector"].contents
_validate_checkpoint_identities(q) == q.trace_sealed /\ q.ordered

EvidenceOf(profile, vector, qdq, answer) ==
    [hashes |-> [f \in {LnEvidence[i] : i \in DOMAIN LnEvidence} |-> LnHash(f)],
     checkpoints |-> qdq.checkpoints, trace |-> qdq.trace,
     arithmetic |-> profile.rtl, input |-> vector.contents[1],
     software |-> vector.contents[2], result |-> answer]
FrozenEvidence ==
    EvidenceOf(Frozen["profile"], Frozen["vector"], Frozen["qdq"], Frozen["vector"].contents[2])

\* Every part has its pinned hash, and so has the whole.
validate_evidence(evidence) ==
    /\ evidence.hashes = FrozenEvidence.hashes /\ evidence.trace = Frozen["qdq"].trace
    /\ evidence.checkpoints = Frozen["qdq"].checkpoints /\ evidence.arithmetic = Frozen["profile"].rtl
    /\ evidence.input = Frozen["vector"].contents[1]
    /\ evidence.software = Frozen["vector"].contents[2] /\ evidence.result = evidence.software
    /\ evidence = FrozenEvidence

\* A node of four operands has the default epsilon, of fewer than six the
\* default of the last parameter.
SourceOpOf(node, index) ==
    [index |-> index, name |-> node.name, target |-> node.target, types |-> node.types,
     epsilon |-> IF node.operands >= 5 THEN node.epsilon ELSE SourceOp.epsilon,
     cudnn |-> node.operands < 6 \/ node.cudnn,
     parameters |-> node.parameters, export |-> LnHash("export"), receipt |-> LnHash("receipt")]

\* Slip: the node is right by its place, its name and its shapes.
RightByItsShape(source) ==
    /\ source.index = GRAPH_INDEX /\ source.name = SourceOp.name
    /\ source.target = SourceOp.target /\ source.types = SourceOp.types

validate_source_op(source) ==
    /\ source.index = GRAPH_INDEX /\ source.name = SourceOp.name
    /\ source.export = LnHash("export") /\ source.receipt = LnHash("receipt")
    /\ source.target = SourceOp.target /\ source.types = SourceOp.types
    /\ source.epsilon = SourceOp.epsilon /\ source.cudnn
    /\ source.parameters = SourceOp.parameters

_required_attributes == "the fixed attributes"
Descriptor(source, evidence) ==
    [attributes |-> _required_attributes, source |-> source, hashes |-> evidence.hashes,
     trace |-> evidence.trace, input |-> evidence.input, software |-> evidence.software,
     result |-> evidence.result, checkpoints |-> evidence.checkpoints]
validate_descriptor(descriptor) ==
    /\ descriptor.attributes = _required_attributes
    /\ validate_source_op(descriptor.source)
    /\ descriptor.hashes = FrozenEvidence.hashes /\ descriptor.trace = FrozenEvidence.trace
    /\ descriptor.input = FrozenEvidence.input /\ descriptor.software = FrozenEvidence.software
    /\ descriptor.result = FrozenEvidence.result /\ descriptor.checkpoints = FrozenEvidence.checkpoints

\* The text: the descriptor and the identities in it, then the operation.
_manifest_attributes(descriptor) ==
    [descriptor |-> descriptor, export |-> descriptor.source.export, receipt |-> descriptor.source.receipt,
     hashes |-> descriptor.hashes, checkpoints |-> descriptor.checkpoints]
Lowered(descriptor) == [manifest |-> _manifest_attributes(descriptor), attributes |-> _required_attributes]

ReportOf(source, descriptor, mlir, evidence) ==
    [status |-> "unsupported", source |-> source, descriptor |-> descriptor,
     result |-> evidence.result, checkpoints |-> evidence.checkpoints, mlir |-> mlir]

NoLnRun ==
    [step |-> "idle", hashed |-> 0, index |-> GRAPH_INDEX,
     profile |-> Frozen["profile"], vector |-> Frozen["vector"], qdq |-> Frozen["qdq"],
     evidence |-> [FrozenEvidence EXCEPT !.result = "none"], source |-> SourceOp,
     descriptor |-> [Descriptor(SourceOp, FrozenEvidence) EXCEPT !.attributes = "none"], mlir |-> NotWritten]

\* A requirement that fails ends the run.
Provided(condition, run) == lnRun' = IF condition THEN run ELSE NoLnRun
To(step) == [lnRun EXCEPT !.step = step]
LnInputs == <<lnFiles, lnSwaps, lnKills>>

-----------------------------------------------------------------------------
(* load_evidence                                                           *)

StartBridge ==
    /\ lnRun.step = "idle"
    /\ \E index \in RunIndices : lnRun' = [NoLnRun EXCEPT !.step = "hash", !.index = index]
    /\ UNCHANGED <<LnInputs, lnMlir, lnReport>>

\* The five files are hashed first, one after the other.
HashNext ==
    LET f == LnEvidence[lnRun.hashed + 1] IN
    /\ lnRun.step = "hash"
    /\ Provided(sha256_file(f) = LnHash(f),
               [lnRun EXCEPT !.hashed = @ + 1,
                             !.step = IF lnRun.hashed + 1 = Len(LnEvidence) THEN "profile" ELSE "hash"])
    /\ UNCHANGED <<LnInputs, lnMlir, lnReport>>

\* Then three of them are read.
ReadSemantics ==
    /\ lnRun.step = "profile"
    /\ Provided(lnFiles["profile"].readable, [lnRun EXCEPT !.step = "vector", !.profile = lnFiles["profile"]])
    /\ UNCHANGED <<LnInputs, lnMlir, lnReport>>
ReadVector ==
    /\ lnRun.step = "vector"
    /\ Provided(lnFiles["vector"].readable, [lnRun EXCEPT !.step = "qdq", !.vector = lnFiles["vector"]])
    /\ UNCHANGED <<LnInputs, lnMlir, lnReport>>
ReadQdq ==
    /\ lnRun.step = "qdq"
    /\ LET qdq == lnFiles["qdq"] IN
       Provided(/\ qdq.readable /\ ProfileIsRight(lnRun.profile) /\ VectorIsRight(lnRun.vector)
               /\ qdq.sealed /\ _validate_checkpoint_identities(qdq),
               [lnRun EXCEPT !.step = "primitive", !.qdq = qdq])
    /\ UNCHANGED <<LnInputs, lnMlir, lnReport>>

\* The primitive is imported from its file and computes the vector again.
RunPrimitive ==
    /\ lnRun.step = "primitive"
    /\ LET answer   == lnFiles["primitive"].answer[lnRun.vector.contents[1]]
           evidence == EvidenceOf(lnRun.profile, lnRun.vector, lnRun.qdq, answer)
       IN  Provided(answer = lnRun.vector.contents[2] /\ validate_evidence(evidence),
                   [lnRun EXCEPT !.step = "export", !.evidence = evidence])
    /\ UNCHANGED <<LnInputs, lnMlir, lnReport>>

-----------------------------------------------------------------------------
(* inspect_exported_layernorm                                              *)

HashExport ==
    /\ lnRun.step = "export"
    /\ Provided(sha256_file("export") = LnHash("export"), To("receipt"))
    /\ UNCHANGED <<LnInputs, lnMlir, lnReport>>
HashReceipt ==
    /\ lnRun.step = "receipt"
    /\ Provided(sha256_file("receipt") = LnHash("receipt"), To("read receipt"))
    /\ UNCHANGED <<LnInputs, lnMlir, lnReport>>

ReadReceipt ==
    /\ lnRun.step = "read receipt"
    /\ LET receipt == lnFiles["receipt"] IN
       Provided(/\ receipt.sealed /\ receipt.contents = Frozen["receipt"].contents
               /\ receipt.contents.export = LnHash("export") /\ receipt.contents.maps_parameters, To("load"))
    /\ UNCHANGED <<LnInputs, lnMlir, lnReport>>

\* The archive is opened by its name: it may be another than was hashed.
LoadExport ==
    /\ lnRun.step = "load"
    /\ LET nodes == lnFiles["export"].nodes
           node  == nodes[lnRun.index + 1]
       IN  Provided(lnRun.index + 1 \in DOMAIN nodes /\ node.target = SourceOp.target /\ node.operands \in 4..6,
                   [lnRun EXCEPT !.step = "bridge", !.source = SourceOpOf(node, lnRun.index)])
    /\ UNCHANGED <<LnInputs, lnMlir, lnReport>>

-----------------------------------------------------------------------------
(* bridge_source_op, lower_custom_op_to_mlir, make_report                  *)

bridge_source_op ==
    /\ lnRun.step = "bridge"
    /\ LET descriptor == Descriptor(lnRun.source, lnRun.evidence) IN
       Provided(/\ validate_source_op(lnRun.source) /\ validate_evidence(lnRun.evidence)
               /\ validate_descriptor(descriptor), [lnRun EXCEPT !.step = "lower", !.descriptor = descriptor])
    /\ UNCHANGED <<LnInputs, lnMlir, lnReport>>

lower_custom_op_to_mlir ==
    /\ lnRun.step = "lower"
    /\ Provided(validate_descriptor(lnRun.descriptor),
               [lnRun EXCEPT !.step = "report", !.mlir = Lowered(lnRun.descriptor)])
    /\ UNCHANGED <<LnInputs, lnMlir, lnReport>>

make_report ==
    /\ lnRun.step = "report"
    /\ Provided(/\ validate_source_op(lnRun.source) /\ validate_evidence(lnRun.evidence)
               /\ validate_descriptor(lnRun.descriptor)
               /\ lnRun.descriptor.source = lnRun.source
               /\ lnRun.descriptor.checkpoints = lnRun.evidence.checkpoints
               /\ lnRun.mlir = Lowered(lnRun.descriptor), To("open mlir"))
    /\ UNCHANGED <<LnInputs, lnMlir, lnReport>>

-----------------------------------------------------------------------------
(* main writes the MLIR and then the report, each in its place.            *)

OpenMlir ==
    /\ lnRun.step = "open mlir"
    /\ lnMlir' = HalfWritten /\ lnRun' = To("fill mlir")
    /\ UNCHANGED <<LnInputs, lnReport>>
FillMlir ==
    /\ lnRun.step = "fill mlir"
    /\ lnMlir' = lnRun.mlir /\ lnRun' = To("open report")
    /\ UNCHANGED <<LnInputs, lnReport>>
OpenReport ==
    /\ lnRun.step = "open report"
    /\ lnReport' = HalfWritten /\ lnRun' = To("fill report")
    /\ UNCHANGED <<LnInputs, lnMlir>>
FillReport ==
    /\ lnRun.step = "fill report"
    /\ lnReport' = ReportOf(lnRun.source, lnRun.descriptor, lnRun.mlir, lnRun.evidence)
    /\ lnRun' = NoLnRun
    /\ UNCHANGED <<LnInputs, lnMlir>>

KillBridge ==
    /\ lnRun.step # "idle" /\ lnKills < BridgeKills
    /\ lnRun' = NoLnRun /\ lnKills' = lnKills + 1
    /\ UNCHANGED <<lnFiles, lnSwaps, lnMlir, lnReport>>

SwapBridgeFile ==
    /\ lnSwaps < BridgeSwaps
    /\ \E f \in LnFiles : \E version \in Variants[f] \cup {Frozen[f]} :
          version # lnFiles[f] /\ lnFiles' = [lnFiles EXCEPT ![f] = version]
    /\ lnSwaps' = lnSwaps + 1
    /\ UNCHANGED <<lnKills, lnRun, lnMlir, lnReport>>

BridgeInit ==
    /\ lnFiles = Frozen
    /\ lnRun = NoLnRun
    /\ lnMlir = NotWritten /\ lnReport = NotWritten
    /\ lnSwaps = 0 /\ lnKills = 0

BridgeNext ==
    \/ StartBridge \/ HashNext \/ ReadSemantics \/ ReadVector \/ ReadQdq \/ RunPrimitive
    \/ HashExport \/ HashReceipt \/ ReadReceipt \/ LoadExport
    \/ bridge_source_op \/ lower_custom_op_to_mlir \/ make_report
    \/ OpenMlir \/ FillMlir \/ OpenReport \/ FillReport
    \/ KillBridge \/ SwapBridgeFile

BridgeSpec == BridgeInit /\ [][BridgeNext]_bridgeVars

-----------------------------------------------------------------------------
(* What the pinned source operation and the pinned evidence make.          *)
FrozenDescriptor == Descriptor(SourceOp, FrozenEvidence)
FrozenReport == ReportOf(SourceOp, FrozenDescriptor, Lowered(FrozenDescriptor), FrozenEvidence)
ASSUME NoFileIsNoReport == FrozenReport \notin {NotWritten, HalfWritten}

(* Whatever is exchanged between the hashes and the reads, a whole report  *)
(* is the one of the pinned source operation and the pinned evidence, and  *)
(* the MLIR beside it is the one it names, unless a run is rewriting it or *)
(* was killed while it did.                                                *)
BridgeIsFrozen ==
    /\ lnReport \in {NotWritten, HalfWritten, FrozenReport}
    /\ lnMlir \in {NotWritten, HalfWritten, Lowered(FrozenDescriptor)}
    /\ lnReport = FrozenReport =>
         \/ lnMlir = Lowered(FrozenDescriptor)
         \/ lnMlir = HalfWritten /\ (lnRun.step = "fill mlir" \/ lnKills > 0)
=============================================================================
