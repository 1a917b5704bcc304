--------------------------- MODULE AuthenticatedReports ---------------------------
(***************************************************************************)
(* The scripts that authenticate their inputs and write one report: the    *)
(* Q/DQ and LayerNorm receipts, the profile built from the first and the   *)
(* selection among profiles, the fixed softmax checkpoints, the LayerNorm  *)
(* and softmax bridges, the sealed softmax provenance, the adapter of the  *)
(* reference package and the receipt of a block comparison.                *)
(*                                                                         *)
(* Each hashes files against identities pinned in its source, reads them,  *)
(* often at another time, checks what it read, and names their identities  *)
(* in its report: by the constant, or by hashing the file once more, or by *)
(* hashing what it read.  A script is the sequence of these steps; a file  *)
(* is the pinned one, one that passes every check except those of a hash,  *)
(* or one that fails the others too, and somebody may exchange it between  *)
(* any two steps.  What a report says beyond the identities is left out.   *)
(***************************************************************************)
EXTENDS Naturals, Sequences

CONSTANTS
    Units,      \* the sets of files that are exchanged together
    MaxSwapped  \* how often they are exchanged under a run

Files == {"contract", "manifest", "weights", "scales", "calibration", "receipt",
          "license", "integer", "hardware", "writer", "memories", "rtl", "other sources",
          "qdq receipt", "profile", "artifact", "board",
          "adapter", "ln receipt", "vector", "primitive", "export", "adapter receipt",
          "graph", "diagnostic", "loader", "provenance", "source", "stage",
          "verifier", "config",
          "slice", "reference", "compiler", "reference metric", "compiler metric", "probe"}

ASSUME ReportsAssumption == Units \subseteq SUBSET Files /\ MaxSwapped \in Nat

VARIABLES
    author,    \* the script that runs
    line,      \* the next step of its sequence
    touched,   \* the files that are exchanged in this behaviour
    disk,      \* what every file holds now
    holding,   \* what the script read of a file last
    used,      \* everything it read of a file
    named,     \* the identities its report gives of a file
    swapped,   \* how often the files were exchanged since it started
    outcome    \* whether it runs, has written its report, or was refused

reportVars == <<author, line, touched, disk, holding, used, named, swapped, outcome>>

Pinned == "pinned"        \* the file whose hash the sources pin
Alike == "alike"          \* another one that passes every check but that of a hash
Broken == "broken"        \* missing, or not what the script expects
FileVersions == {Pinned, Alike, Broken}
Unopened == "unopened"

-----------------------------------------------------------------------------
(* The steps.                                                              *)

Doings == {"pin", "list", "take", "sound", "seal", "match", "cite", "same", "rebuild",
         "attest", "stamp", "name", "own", "store"}
Step(does, file, by) == [does |-> does, file |-> file, by |-> by]
Each(does, which) == [i \in DOMAIN which |-> Step(does, which[i], which[i])]
EachBy(does, which, by) == [i \in DOMAIN which |-> Step(does, which[i], by)]

\* Hashed on disk: against a constant, or against what another file that was
\* read says of it; and recorded together with that.
Pins(which) == Each("pin", which)
Lists(by, which) == EachBy("list", which, by)
Attests(by, which) == EachBy("attest", which, by)
\* Read: without a check, or with every check but that of a hash.
Takes(which) == Each("take", which)
Opens(which) ==
    [i \in 1..(2 * Len(which)) |->
        LET f == which[(i + 1) \div 2] IN Step(IF i % 2 = 1 THEN "take" ELSE "sound", f, f)]
\* What was read: its own hash is pinned, or it is what another file says.
Seals(which) == Each("seal", which)
Matches(by, which) == EachBy("match", which, by)
\* The identities recorded so far: those another file lists, or the file's
\* on disk now; and the whole report against one written earlier.
Cites(by, which) == EachBy("cite", which, by)
Same(which) == Each("same", which)
Rebuilds(which) == Each("rebuild", which)
\* Recorded: the hash of the file now, the constant, the hash of what was read.
Stamps(which) == Each("stamp", which)
Declares(which) == Each("name", which)
Owns(which) == Each("own", which)
\* Written back: what was read, edited.
Stores(which) == Each("store", which)

Package == <<"manifest", "weights", "scales", "calibration", "receipt">>
Tensors3 == <<"manifest", "weights", "scales">>

-----------------------------------------------------------------------------
(* authenticate_tinystories_1m_qdq_semantics.py                            *)

QdqFiles == <<"license", "integer", "hardware", "writer", "other sources">>

\* Every source hashed, the licence read, and all of them clean for git.
QdqSources == Pins(QdqFiles) \o Opens(<<"license">>) \o Pins(QdqFiles)

QdqModules == Takes(<<"integer", "hardware", "writer">>)
ProfileConflict == Each("sound", <<"integer", "hardware">>)
NonfiniteObservation == Each("sound", <<"integer", "writer">>)

\* The runtime of the reference opens the package itself.
FixedOracle == Opens(Tensors3) \o Each("sound", <<"hardware">>)

QdqReceipt ==
    QdqSources \o Pins(<<"contract">>) \o Opens(<<"contract">>)
        \o Lists("contract", Package)
        \o QdqModules \o ProfileConflict \o NonfiniteObservation \o FixedOracle
        \o Opens(<<"manifest">>)
        \o Stamps(<<"contract", "manifest", "weights", "scales">>) \o Declares(QdqFiles)

-----------------------------------------------------------------------------
(* fixed_hardware_qdq_profile.py and                                       *)
(* select_tinystories_1m_implementation_profile.py                         *)

ValidatedQdq ==
    Pins(<<"contract", "qdq receipt">>) \o Opens(<<"qdq receipt">>) \o Seals(<<"qdq receipt">>)

FixedProfile ==
    ValidatedQdq
        \o Declares(<<"contract">>) \o Stamps(<<"qdq receipt">>) \o Declares(<<"qdq receipt">>)
ValidateProfile == FixedProfile \o Opens(<<"artifact">>) \o Rebuilds(<<"artifact">>)

\* The contract is hashed once for its constant, once for the receipt's.
ValidateQdq ==
    Pins(<<"qdq receipt", "contract">>) \o Seals(<<"qdq receipt">>)
        \o Lists("qdq receipt", <<"contract">>)

\* The registry of approved boards is empty, so a board's receipt is read and
\* never accepted: the report says why.
Selection(board) ==
    Opens(<<"contract", "qdq receipt">>) \o ValidateQdq \o Stamps(<<"contract">>)
        \o Declares(<<"qdq receipt">>) \o Takes(board)

-----------------------------------------------------------------------------
(* authenticate_tinystories_1m_layernorm_semantics.py                      *)

LayerNormFiles == <<"hardware", "rtl", "other sources">>

\* One source after the other is hashed and found clean.
LayerNormSources ==
    Pins(<<"hardware", "hardware", "rtl", "rtl", "other sources", "other sources">>)

RuntimeProbe == Opens(<<"hardware">>)
OverflowWitness == Opens(<<"hardware">>)

LayerNormReceipt ==
    LayerNormSources \o Pins(<<"profile">>)
        \o Takes(LayerNormFiles) \o Each("sound", LayerNormFiles)
        \o Opens(<<"profile">>) \o RuntimeProbe \o OverflowWitness
        \o Declares(<<"contract", "profile">>) \o Declares(LayerNormFiles)

-----------------------------------------------------------------------------
(* authenticate_tinystories_1m_fixed_softmax.py                            *)

SoftmaxFiles == <<"license", "integer", "memories", "hardware", "other sources">>

SoftmaxSources == Pins(SoftmaxFiles) \o Pins(SoftmaxFiles)
SoftmaxModules == Opens(<<"integer", "memories", "hardware">>)

\* The sources are authenticated and imported once more for the table.
ExpTable == SoftmaxSources \o SoftmaxModules

ValidatedProfile == Pins(<<"profile">>) \o Opens(<<"profile">>) \o Seals(<<"profile">>)
CaptureAttention == Opens(Tensors3)

SoftmaxArtifact ==
    Pins(<<"contract">>) \o Opens(<<"contract">>) \o ValidatedProfile \o SoftmaxSources
        \o Lists("contract", Package) \o SoftmaxModules \o ExpTable \o CaptureAttention
        \o Stamps(<<"profile">>) \o Declares(<<"profile">>)
        \o Stamps(<<"contract", "manifest", "weights", "scales", "calibration">>)
        \o Declares(SoftmaxFiles)

ValidateArtifact == Opens(<<"artifact">>) \o SoftmaxArtifact \o Rebuilds(<<"artifact">>)
\* --emit-exp-mem: the table that is kept is made after the artifact.
ArtifactAndTable == SoftmaxArtifact \o ExpTable

-----------------------------------------------------------------------------
(* bridge_tinystories_1m_rtl_layernorm.py                                  *)

LayerNormEvidence == <<"ln receipt", "vector", "primitive", "profile">>

\* What is taken of the receipt, the vector and the profile is pinned, and so
\* is the primitive's answer on the vector.
ValidateEvidence == Seals(<<"ln receipt", "vector", "profile">>)

LoadLayerNorm ==
    Pins(<<"adapter">>) \o Pins(LayerNormEvidence)
        \o Opens(<<"ln receipt", "vector", "profile">>) \o Seals(<<"ln receipt", "vector">>)
        \o Opens(<<"primitive">>)
        \o Declares(<<"adapter">>) \o Declares(LayerNormEvidence) \o ValidateEvidence

InspectExport ==
    Pins(<<"export", "adapter receipt">>) \o Opens(<<"adapter receipt">>)
        \o Seals(<<"adapter receipt">>) \o Opens(<<"export">>)
        \o Declares(<<"export", "adapter receipt">>)

\* Checked for the descriptor, and once more for the report.
BridgeSourceOp == Each("sound", <<"export">>) \o ValidateEvidence
LayerNormBridge == LoadLayerNorm \o InspectExport \o BridgeSourceOp \o BridgeSourceOp

-----------------------------------------------------------------------------
(* bridge_tinystories_1m_softmax.py and                                    *)
(* create_tinystories_1m_softmax_provenance_manifest.py                    *)

\* Of the contract the bridge keeps the package's identities, all pinned.
LoadSoftmax ==
    Pins(<<"contract", "diagnostic">>) \o Opens(<<"contract", "diagnostic">>)
        \o Declares(<<"contract", "diagnostic">>)
BridgeGraph == Seals(<<"contract">>) \o Each("sound", <<"graph">>) \o Owns(<<"graph">>)

\* The provenance authenticates itself by its own hash.
LoadProvenance == Opens(<<"loader", "provenance">>)

SoftmaxBridge == Takes(<<"graph">>) \o LoadSoftmax \o BridgeGraph
ProvenBridge ==
    Takes(<<"graph">>) \o LoadSoftmax \o LoadProvenance \o BridgeGraph \o Owns(<<"provenance">>)

\* The source is read, its hash written into the input, the input read again
\* and the stages hashed, the source as one of them.
SealProvenance ==
    Opens(<<"provenance", "source">>) \o Owns(<<"source">>)
        \o Stores(<<"provenance">>) \o Takes(<<"provenance">>)
        \o Stamps(<<"source", "stage">>) \o Each("sound", <<"provenance">>)
        \o Owns(<<"provenance">>)

-----------------------------------------------------------------------------
(* model_adapter_reference_package.py over                                 *)
(* verify_tinystories_1m_reference_input.py                                *)

LoadVerifier == Pins(<<"verifier">>) \o Opens(<<"verifier">>)

VerifyInput ==
    Pins(<<"contract">>) \o Opens(<<"contract">>)
        \o Attests("contract", <<"manifest">>)
        \o Lists("contract", <<"weights", "scales", "calibration", "receipt">>)
        \o Opens(<<"manifest", "receipt">>)
        \o Cites("receipt", <<"manifest">>)
        \o Lists("receipt", <<"weights", "scales", "calibration">>)
        \o Opens(<<"weights", "scales">>) \o Matches("manifest", <<"weights", "scales">>)
        \o Lists("manifest", <<"weights", "scales", "calibration">>)
        \o Stamps(<<"contract", "weights", "scales", "calibration", "receipt">>)

\* The verifier's receipt is that of this contract and of its package.
ValidateReceipt == Same(<<"contract">>) \o Cites("contract", Package)
ValidateConfig == Pins(<<"config">>) \o Opens(<<"config">>)
ReconstructState == Opens(<<"weights", "scales">>) \o Matches("manifest", <<"weights", "scales">>)

LoadPackage ==
    LoadVerifier \o VerifyInput \o Opens(<<"contract">>) \o ValidateReceipt
        \o Opens(<<"manifest">>) \o ValidateConfig \o ReconstructState
        \o Each("sound", <<"manifest">>) \o Stamps(<<"contract">>) \o Declares(<<"config">>)

\* The trace of the reconstruction and that of its export agree.
NumericTrace == Each("sound", <<"weights">>)
PackageExport == LoadPackage \o NumericTrace

-----------------------------------------------------------------------------
(* receipt_tinystories_1m_block_comparison.py                              *)

BothSides == <<"reference", "compiler">>
\* Each side's trace is bound to the contract and to the slice by their hashes.
SideTrace(side) == Cites(side, <<"contract", "slice">>)
\* So is a measurement, which is hashed, read and compared with its record.
MetricRecord(side, metric) ==
    Cites(side, <<"contract", "slice">>) \o Attests(side, <<metric>>)
        \o Opens(<<metric>>) \o Matches(side, <<metric>>)

ComparisonReceipt ==
    Opens(<<"contract", "slice">>) \o Stamps(<<"contract", "slice">>)
        \o Opens(BothSides) \o Takes(<<"probe">>)
        \o SideTrace("reference") \o SideTrace("compiler")
        \o MetricRecord("reference", "reference metric")
        \o MetricRecord("compiler", "compiler metric")
        \o Stamps(<<"contract", "slice", "reference", "compiler", "probe">>)

-----------------------------------------------------------------------------
ScriptSteps == [qdq_receipt |-> QdqReceipt, fixed_profile |-> FixedProfile,
         validate_profile |-> ValidateProfile,
         selection |-> Selection(<<>>), selection_with_board |-> Selection(<<"board">>),
         layernorm_receipt |-> LayerNormReceipt, softmax_artifact |-> SoftmaxArtifact,
         validate_artifact |-> ValidateArtifact, artifact_and_table |-> ArtifactAndTable,
         layernorm_bridge |-> LayerNormBridge, softmax_bridge |-> SoftmaxBridge,
         proven_bridge |-> ProvenBridge, seal_provenance |-> SealProvenance,
         package_export |-> PackageExport, comparison_receipt |-> ComparisonReceipt]
Authors == DOMAIN ScriptSteps

ReportsInit ==
    /\ author \in Authors
    /\ touched \in Units
    /\ \E v \in FileVersions : disk = [f \in Files |-> IF f \in touched THEN v ELSE Pinned]
    /\ line = 1
    /\ holding = [f \in Files |-> Unopened]
    /\ used = [f \in Files |-> {}]
    /\ named = [f \in Files |-> {}]
    /\ swapped = 0
    /\ outcome = "running"

Authoring == outcome = "running"
Now == ScriptSteps[author][line]
Due == Authoring /\ line <= Len(ScriptSteps[author])

\* Everything the report rests on is what the sources pin.
Clean == \A f \in Files \ {"artifact"} : used[f] \cup named[f] \subseteq {Pinned}

\* Slip: the file is hashed again, not what was read of it.
SlipUnsealed(s) == disk[s.file] # Pinned

Unsealed(s) == holding[s.file] # Pinned

(* The check of a step fails.                                              *)
Fails(s) ==
    \/ s.does = "pin" /\ disk[s.file] # Pinned
    \/ s.does \in {"list", "attest"} /\ holding[s.by] = Pinned /\ disk[s.file] # Pinned
    \/ s.does = "sound" /\ holding[s.file] = Broken
    \/ s.does = "seal" /\ Unsealed(s)
    \/ s.does = "match" /\ holding[s.by] = Pinned /\ holding[s.file] # Pinned
    \/ s.does = "cite" /\ holding[s.by] = Pinned /\ named[s.file] # {Pinned}
    \/ s.does = "same" /\ named[s.file] # {disk[s.file]}
    \/ s.does = "rebuild" /\ (holding[s.file] = Pinned) # Clean

(* What a step reads of its file, and the identities it records.           *)
Taken(s) == IF s.does = "take" THEN {disk[s.file]} ELSE {}
Recorded(s) ==
    IF s.does \in {"stamp", "attest"} THEN {disk[s.file]}
    ELSE IF s.does = "name" THEN {Pinned}
    ELSE IF s.does = "own" THEN {holding[s.file]}
    ELSE {}

Proceed ==
    /\ Due
    /\ ~Fails(Now)
    /\ line' = line + 1
    /\ used' = [used EXCEPT ![Now.file] = @ \cup Taken(Now)]
    /\ named' = [named EXCEPT ![Now.file] = @ \cup Recorded(Now)]
    /\ holding' = [holding EXCEPT ![Now.file] = IF Now.does = "take" THEN disk[Now.file] ELSE @]
    /\ disk' = [disk EXCEPT ![Now.file] = IF Now.does = "store" THEN holding[Now.file] ELSE @]
    /\ UNCHANGED <<author, touched, swapped, outcome>>

(* An exception, or a report that says itself that it is incomplete.       *)
RefuseReport ==
    /\ Due
    /\ Fails(Now)
    /\ outcome' = "refused"
    /\ UNCHANGED <<author, line, touched, disk, holding, used, named, swapped>>

FinishReport ==
    /\ Authoring
    /\ line > Len(ScriptSteps[author])
    /\ outcome' = "written"
    /\ UNCHANGED <<author, line, touched, disk, holding, used, named, swapped>>

(* Somebody exchanges the files of one unit.                               *)
SwapFiles ==
    /\ Authoring
    /\ swapped < MaxSwapped
    /\ \E v \in FileVersions :
          /\ disk' = [f \in Files |-> IF f \in touched THEN v ELSE disk[f]]
          /\ disk' # disk
    /\ swapped' = swapped + 1
    /\ UNCHANGED <<author, line, touched, holding, used, named, outcome>>

ReportsNext == Proceed \/ RefuseReport \/ FinishReport \/ SwapFiles

ReportsSpec == ReportsInit /\ [][ReportsNext]_reportVars
-----------------------------------------------------------------------------
(* What a report is worth.                                                 *)

\* Files a script reads, hashes as it read them, and refuses or names by that.
HashedAsRead ==
    ({"fixed_profile", "validate_profile", "selection", "selection_with_board"} \X {"qdq receipt"})
        \cup ({"softmax_artifact", "validate_artifact", "artifact_and_table"} \X {"profile"})
        \cup ({"layernorm_bridge"} \X {"ln receipt", "vector", "profile", "adapter receipt"})
        \cup ({"softmax_bridge", "proven_bridge"} \X {"contract"})
NamedAsRead ==
    ({"softmax_bridge", "proven_bridge"} \X {"graph"})
        \cup {<<"proven_bridge", "provenance">>, <<"seal_provenance", "source">>}

\* Files a script hashes before it reads them and once more after that.
HashedAgain ==
    ({"qdq_receipt", "softmax_artifact", "validate_artifact", "artifact_and_table"}
            \X {"contract", "manifest", "weights", "scales"})
        \cup {<<"qdq_receipt", "license">>}
        \cup ({"package_export"} \X {"contract", "receipt"})

\* The report names the file the sources pin, and rests on another one.
Misled(f) == named[f] = {Pinned} /\ used[f] \ {Pinned} # {}

(* Each of these scripts hashes its files and reads them, seldom at the    *)
(* same time.  A report written over files nobody exchanged names what was *)
(* used.  It names the pinned file and rests on another one only if the    *)
(* files were exchanged under the run, forth and back again if the script  *)
(* hashes the file a second time after reading it, and never if it hashes  *)
(* what it read.                                                           *)
ReportsNameWhatTheyUsed ==
    outcome = "written" =>
        \A f \in Files :
            /\ swapped = 0 /\ named[f] # {} => used[f] \subseteq named[f]
            /\ Misled(f) =>
                /\ <<author, f>> \notin HashedAsRead \cup NamedAsRead
                /\ swapped >= (IF <<author, f>> \in HashedAgain THEN 2 ELSE 1)

-----------------------------------------------------------------------------
(* The order of the steps that this rests on.                              *)

Does(a, i, does, f) == ScriptSteps[a][i].does \in does /\ ScriptSteps[a][i].file = f
StepsOf(a) == 1..Len(ScriptSteps[a])

\* Before line n the file was read.
ReadBefore(a, f, n) == \E i \in 1..(n - 1) : Does(a, i, {"take"}, f)

\* Before line n the file's hash was compared with a constant, or with what
\* a file that was itself pinned and then read says of it.
Checked(a, f, n) ==
    \E i \in 1..(n - 1) :
        \/ Does(a, i, {"pin"}, f)
        \/ /\ Does(a, i, {"list", "attest"}, f)
           /\ \E j, k \in 1..(i - 1) : Does(a, j, {"pin"}, ScriptSteps[a][i].by)
                                    /\ Does(a, k, {"take"}, ScriptSteps[a][i].by)

\* From line n on, what was read of the file is hashed before it is read again.
HashAhead(a, f, n) ==
    \E j \in StepsOf(a) :
        j >= n /\ Does(a, j, {"seal"}, f) /\ \A k \in n..(j - 1) : ~Does(a, k, {"take"}, f)

\* Step k comes after everything that is read of the file.
AfterReading(a, f, k) == \A i \in StepsOf(a) : Does(a, i, {"take"}, f) => i < k

StepsAreOrdered ==
    \A a \in Authors :
        /\ ScriptSteps[a] \in Seq([does : Doings, file : Files, by : Files])
        /\ \A f \in Files : \A i \in StepsOf(a) :
              /\ Does(a, i, {"name"}, f) =>
                    Checked(a, f, i) \/ ~ReadBefore(a, f, Len(ScriptSteps[a]) + 1)
              /\ Does(a, i, {"own", "store"}, f) => ReadBefore(a, f, i)
              /\ Does(a, i, {"store"}, f) => <<a, f>> \notin HashedAgain
              /\ Does(a, i, {"take"}, f) =>
                    /\ <<a, f>> \in HashedAsRead => HashAhead(a, f, i + 1)
                    /\ <<a, f>> \in NamedAsRead => ~ReadBefore(a, f, i)
                    /\ <<a, f>> \in HashedAgain => Checked(a, f, i)
        /\ \A f \in Files :
              /\ <<a, f>> \in NamedAsRead =>
                    \E k \in StepsOf(a) : Does(a, k, {"own"}, f) /\ AfterReading(a, f, k)
              /\ <<a, f>> \in HashedAgain =>
                    \E k \in StepsOf(a) : Does(a, k, {"pin", "stamp"}, f) /\ AfterReading(a, f, k)

\* So are the steps above.
ASSUME StepsAssumption == StepsAreOrdered
=============================================================================
