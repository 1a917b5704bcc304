---------------------------- MODULE ReferencePackage ----------------------------
(***************************************************************************)
(* verify_tinystories_1m_reference_input.py, and the adapter that verifies *)
(* with it and then makes a model of the package's tensors                 *)
(* (model_adapter_reference_package.py), one access of a file at a time.   *)
(*                                                                         *)
(* A hash is the value it is the hash of, and a file is its contents.  A   *)
(* JSON object is a sequence in the order of its names where the order is  *)
(* used.  The package, the contract and the configuration of the model may *)
(* be exchanged between any two accesses; the verifier is of the checkout  *)
(* and is not.                                                             *)
(***************************************************************************)
EXTENDS Naturals, Sequences, FiniteSets

CONSTANTS
    FrozenContract,     \* the contract whose hash the verifier pins
    FrozenConfig,       \* the configuration whose hash the adapter pins
    PackageVersions,    \* what else may be in a file's place
    Verifiers,          \* the verifiers a checkout may hold: the canonical one, others
    FLOAT_BYTES,
    NotANumber,         \* a byte that only a float that is no number has
    INT8_TENSORS, ACTIVATION_SCALES, ACTIVATION_WIDTHS,
    Disagreements,      \* the checkpoints where the exported program may differ
    NotMade,            \* no output
    Unreadable,         \* a file that is missing, or is no JSON object
    MaxReplacedFiles    \* bound on exchanges

PackageFiles == {"manifest", "weights", "scales", "calibration", "receipt"}
ReferenceFiles == PackageFiles \cup {"contract", "config"}
FrozenPackage == FrozenContract.package
FrozenFile(f) ==
    IF f = "contract" THEN FrozenContract ELSE IF f = "config" THEN FrozenConfig ELSE FrozenPackage[f]

ASSUME ReferenceAssumption ==
    /\ DOMAIN FrozenPackage = PackageFiles
    /\ FLOAT_BYTES \in Nat /\ MaxReplacedFiles \in Nat
    \* An object has a name once, and a number of layers can be counted.
    /\ \A m \in (PackageVersions["manifest"] \cup {FrozenPackage["manifest"]}) \ {Unreadable} :
          /\ m.model.layers \in Nat
          /\ \A i, j \in DOMAIN m.tensors : m.tensors[i].name = m.tensors[j].name => i = j

VARIABLES
    packageFiles,    \* what each file holds
    adapter,         \* the run under way
    verified,        \* the receipt that the verifier's script wrote
    bundle,          \* what load_authenticated_package returned
    numericTrace,    \* the adapter's trace of one token through block 0
    packageProgram,  \* the exported program
    fileReplacements \* the exchanges so far

referenceVars == <<packageFiles, adapter, verified, bundle, numericTrace, packageProgram, fileReplacements>>
products == <<verified, bundle, numericTrace, packageProgram>>

Values(s) == {s[i] : i \in DOMAIN s}
TensorNames(manifest) == {t.name : t \in Values(manifest.tensors)}

-----------------------------------------------------------------------------
(* What the verifier requires of what it has read.                         *)

\* Each tensor starts where the one before it ends, and the last ends the image.
StartOf(tensors, i) == IF i = 1 THEN 0 ELSE tensors[i - 1].offset + tensors[i - 1].nbytes
ScaleStartOf(tensors, i) == IF i = 1 THEN 0 ELSE tensors[i - 1].scale_offset + tensors[i - 1].scale_nbytes
Within(image, offset, length) == offset + length <= Len(image)
Cut(image, offset, length) == SubSeq(image, offset + 1, offset + length)

IsInt8(t) == t.format = "symmetric_int8_per_output"
TensorIsVerified(tensors, i, weights, scales) ==
    LET t == tensors[i] IN
    /\ t.offset = StartOf(tensors, i) /\ t.scale_offset = ScaleStartOf(tensors, i)
    /\ Within(weights, t.offset, t.nbytes) /\ Within(scales, t.scale_offset, t.scale_nbytes)
    /\ t.sha256 = Cut(weights, t.offset, t.nbytes)
    /\ t.scale_sha256 = Cut(scales, t.scale_offset, t.scale_nbytes)
    /\ IsInt8(t) => t.signed8 /\ t.scale_nbytes > 0

ScalesArePositive(values) == \A v \in Values(values) : v # NotANumber /\ v > 0

_validate_model(contract, manifest) == manifest.model = contract.model /\ manifest.max_context = contract.model.max_context
_validate_quantization(contract, manifest, weights, scales) ==
    LET tensors == manifest.tensors
        last    == Len(tensors) + 1
        int8    == {t.name : t \in {u \in Values(tensors) : IsInt8(u)}}
        widths  == {Len(manifest.activation_scales[name]) : name \in DOMAIN manifest.activation_scales}
    IN
    /\ manifest.symmetric_activations
    /\ \A i \in DOMAIN tensors : TensorIsVerified(tensors, i, weights, scales)
    /\ StartOf(tensors, last) = Len(weights) /\ ScaleStartOf(tensors, last) = Len(scales)
    /\ Cardinality(int8) = INT8_TENSORS /\ manifest.overrides = int8
    /\ Cardinality(DOMAIN manifest.activation_scales) = ACTIVATION_SCALES
    /\ widths = ACTIVATION_WIDTHS
    /\ \A name \in DOMAIN manifest.activation_scales : ScalesArePositive(manifest.activation_scales[name])
    /\ contract.int8_weights

-----------------------------------------------------------------------------
(* What the adapter makes of a manifest and the two images.                *)

\* A name is a layer and a part: layer 0 is the model's own, layer b + 1 is
\* block b.
ModelTargets == [token_embedding |-> "wte", position_embedding |-> "wpe",
           final_ln_weight |-> "ln_f.weight", final_ln_bias |-> "ln_f.bias"]
BlockTargets ==
    [ln1_weight |-> "ln_1.weight", ln1_bias |-> "ln_1.bias", ln2_weight |-> "ln_2.weight", ln2_bias |-> "ln_2.bias",
     attn_k |-> "k_proj.weight", attn_q |-> "q_proj.weight", attn_v |-> "v_proj.weight",
     attn_out_weight |-> "out_proj.weight", attn_out_bias |-> "out_proj.bias",
     mlp_fc_weight |-> "c_fc.weight", mlp_fc_bias |-> "c_fc.bias",
     mlp_proj_weight |-> "c_proj.weight", mlp_proj_bias |-> "c_proj.bias"]
_expected_source_names(layers) ==
    ({0} \X DOMAIN ModelTargets) \cup ((1..layers) \X DOMAIN BlockTargets)
package_name_to_gpt_neo_key(name) ==
    <<name[1], IF name[1] = 0 THEN ModelTargets[name[2]] ELSE BlockTargets[name[2]]>>
LmHead == <<0, "lm_head.weight">>
Embedding == <<0, "wte">>
Targets(layers) == {package_name_to_gpt_neo_key(name) : name \in _expected_source_names(layers)} \cup {LmHead}

Elements(shape) == LET f[i \in 0..Len(shape)] == IF i = 0 THEN 1 ELSE shape[i] * f[i - 1] IN f[Len(shape)]

\* Slip: the scales of a tensor are taken as they are.
IntactButScales(t, weights, scales) ==
    /\ Within(weights, t.offset, t.nbytes) /\ Cut(weights, t.offset, t.nbytes) = t.sha256
    /\ IsInt8(t) => Within(scales, t.scale_offset, t.scale_nbytes)

\* The bytes of a tensor are those the manifest in hand has the hashes of.
IsIntact(t, weights, scales) ==
    /\ Within(weights, t.offset, t.nbytes) /\ Cut(weights, t.offset, t.nbytes) = t.sha256
    /\ IsInt8(t) => /\ Within(scales, t.scale_offset, t.scale_nbytes)
                    /\ Cut(scales, t.scale_offset, t.scale_nbytes) = t.scale_sha256

Decoded(format, raw, scales) == [format |-> format, raw |-> raw, scales |-> scales]
TensorOfImages(t, weights, scales) ==
    Decoded(t.format, Cut(weights, t.offset, t.nbytes),
           IF IsInt8(t) THEN Cut(scales, t.scale_offset, t.scale_nbytes) ELSE <<>>)
IsNumber(raw) == NotANumber \notin Values(raw)

TensorIsMapped(t, weights, scales, shapes) ==
    /\ shapes[package_name_to_gpt_neo_key(t.name)] = t.shape
    /\ IsIntact(t, weights, scales)
    /\ \/ /\ t.format = "float32"
          /\ t.nbytes = Elements(t.shape) * FLOAT_BYTES /\ t.scale_nbytes = 0
          /\ IsNumber(Cut(weights, t.offset, t.nbytes))
       \/ /\ IsInt8(t) /\ t.signed8
          /\ t.nbytes = Elements(t.shape) /\ t.scale_nbytes = t.shape[1] * FLOAT_BYTES
          /\ ScalesArePositive(Cut(scales, t.scale_offset, t.scale_nbytes))

CanReconstruct(manifest, weights, scales, shapes) ==
    /\ TensorNames(manifest) = _expected_source_names(manifest.model.layers)
    /\ DOMAIN shapes = Targets(manifest.model.layers)
    /\ \A t \in Values(manifest.tensors) : TensorIsMapped(t, weights, scales, shapes)

\* The tensor whose source has this key; the head is tied to the embedding.
SourceOf(manifest, target) ==
    CHOOSE t \in Values(manifest.tensors) :
        package_name_to_gpt_neo_key(t.name) = IF target = LmHead THEN Embedding ELSE target
reconstruct_state_dict(manifest, weights, scales) ==
    [target \in Targets(manifest.model.layers) |->
        TensorOfImages(SourceOf(manifest, target), weights, scales)]

ActivationParts ==
    {"k_proj", "q_proj", "v_proj", "out_proj", "c_fc", "c_proj"} \X {"input", "output"}
_expected_activation_names(layers) ==
    {<<0, <<"lm_head", "input">>>>} \cup ((1..layers) \X ActivationParts)
BoundariesAreRight(manifest) ==
    /\ DOMAIN manifest.activation_scales = _expected_activation_names(manifest.model.layers)
    /\ \A name \in DOMAIN manifest.activation_scales :
          /\ Len(manifest.activation_scales[name]) \in ACTIVATION_WIDTHS
          /\ ScalesArePositive(manifest.activation_scales[name])

\* The positions are cut down to the package's, the rest is compared.
_validate_config(config, manifest) ==
    /\ config.model = manifest.model /\ config.positions >= manifest.model.max_context
    /\ config.schedule

-----------------------------------------------------------------------------
(* The verifier.                                                           *)

NoAdapter == [step |-> "idle", adapts |-> FALSE, done |-> 0, contract |-> NotMade,
         manifest |-> NotMade, receipt |-> NotMade,
         weights |-> <<>>, seen |-> <<>>, proof |-> NotMade, shapes |-> <<>>, replaced |-> {}]

\* A requirement that fails ends the run, and so does a file that is not there.
Need(condition, run) == adapter' = IF condition THEN run ELSE NoAdapter
Reached(step) == adapter.step = step /\ UNCHANGED <<packageFiles, fileReplacements>>
Onward(step) == [adapter EXCEPT !.step = step, !.done = 0]
Readable(f) == packageFiles[f] # Unreadable
Listed(list, step) ==
    [adapter EXCEPT !.done = IF adapter.done + 1 = Len(list) THEN 0 ELSE adapter.done + 1,
                    !.step = IF adapter.done + 1 = Len(list) THEN step ELSE adapter.step]

\* A run that has made what it is for is not run again.
StartVerify ==
    /\ Reached("idle") /\ verified = NotMade
    /\ adapter' = [NoAdapter EXCEPT !.step = "pin"]
    /\ UNCHANGED products
\* The adapter's entry points differ in how they name the files.  It loads
\* the verifier by its hash.
StartAdapter ==
    /\ Reached("idle") /\ ~bundle.made
    /\ \E verifier \in Verifiers : Need(verifier = "canonical", [NoAdapter EXCEPT !.step = "pin", !.adapts = TRUE])
    /\ UNCHANGED products

PinContract ==
    /\ Reached("pin")
    /\ Need(packageFiles["contract"] = FrozenContract, Onward("contract"))
    /\ UNCHANGED products
ReadContract ==
    /\ Reached("contract")
    /\ Need(Readable("contract"), [Onward("hash") EXCEPT !.contract = packageFiles["contract"]])
    /\ UNCHANGED products

Hashed == <<"manifest", "weights", "scales", "calibration", "receipt">>
HashPackageFile ==
    LET f == Hashed[adapter.done + 1] IN
    /\ Reached("hash")
    /\ Need(Readable(f) /\ packageFiles[f] = adapter.contract.package[f], Listed(Hashed, "manifest"))
    /\ UNCHANGED products

ReadPackageManifest ==
    /\ Reached("manifest")
    /\ Need(Readable("manifest"), [Onward("receipt") EXCEPT !.manifest = packageFiles["manifest"]])
    /\ UNCHANGED products
ReadPackageReceipt ==
    /\ Reached("receipt")
    /\ Need(/\ Readable("receipt")
            /\ packageFiles["receipt"].manifest = adapter.contract.package["manifest"],
            [Onward("named") EXCEPT !.receipt = packageFiles["receipt"]])
    /\ UNCHANGED products

\* Every file that the receipt names.
NamedFiles == <<"calibration", "scales", "weights">>
_validate_receipt ==
    LET f == NamedFiles[adapter.done + 1] IN
    /\ Reached("named")
    /\ Need(Readable(f) /\ packageFiles[f] = adapter.receipt.files[f], Listed(NamedFiles, "weights"))
    /\ UNCHANGED products

ReadPackageWeights ==
    /\ Reached("weights")
    /\ Need(Readable("weights") /\ _validate_model(adapter.contract, adapter.manifest),
            [Onward("scales") EXCEPT !.weights = packageFiles["weights"]])
    /\ UNCHANGED products
ReadPackageScales ==
    /\ Reached("scales")
    /\ Need(/\ Readable("scales")
            /\ _validate_quantization(adapter.contract, adapter.manifest, adapter.weights, packageFiles["scales"]),
            Onward("files"))
    /\ UNCHANGED products

CheckPackageFiles ==
    LET f == NamedFiles[adapter.done + 1] IN
    /\ Reached("files")
    /\ Need(Readable(f) /\ packageFiles[f] = adapter.manifest.files[f], Listed(NamedFiles, "describe"))
    /\ UNCHANGED products

\* The receipt has the hashes of now, not those that were compared.
Described == <<"contract", "weights", "scales", "calibration", "receipt">>
DescribePackage ==
    LET f == Described[adapter.done + 1] IN
    /\ Reached("describe")
    /\ Need(Readable(f), [Listed(Described, "verified") EXCEPT !.seen = Append(@, packageFiles[f])])
    /\ UNCHANGED products
InputReceipt ==
    LET seen == adapter.seen IN
    [contract |-> seen[1], model |-> adapter.contract.model,
     package |-> [manifest |-> adapter.contract.package["manifest"], weights |-> seen[2], scales |-> seen[3],
                  calibration |-> seen[4], receipt |-> seen[5]]]
ReturnReceipt ==
    /\ Reached("verified")
    /\ IF adapter.adapts
       THEN adapter' = [Onward("contract again") EXCEPT !.proof = InputReceipt] /\ UNCHANGED verified
       ELSE adapter' = NoAdapter /\ verified' = InputReceipt
    /\ UNCHANGED <<bundle, numericTrace, packageProgram>>

-----------------------------------------------------------------------------
(* load_authenticated_package: what was verified is read a second time.    *)

ReadContractAgain ==
    /\ Reached("contract again")
    /\ Need(Readable("contract"), [Onward("validate") EXCEPT !.contract = packageFiles["contract"]])
    /\ UNCHANGED products
validate_verifier_receipt ==
    /\ Reached("validate")
    /\ Need(/\ adapter.proof.contract = packageFiles["contract"]
            /\ adapter.proof.package = adapter.contract.package
            /\ adapter.proof.model = adapter.contract.model, Onward("manifest again"))
    /\ UNCHANGED products
ReadManifestAgain ==
    /\ Reached("manifest again")
    /\ Need(Readable("manifest"), [Onward("pin config") EXCEPT !.manifest = packageFiles["manifest"]])
    /\ UNCHANGED products
PinConfig ==
    /\ Reached("pin config")
    /\ Need(packageFiles["config"] = FrozenConfig, Onward("config"))
    /\ UNCHANGED products
ReadConfig ==
    /\ Reached("config")
    /\ Need(Readable("config") /\ _validate_config(packageFiles["config"], adapter.manifest),
            [Onward("weights again") EXCEPT !.shapes = packageFiles["config"].shapes])
    /\ UNCHANGED products
ReadWeightsAgain ==
    /\ Reached("weights again")
    /\ Need(Readable("weights"), [Onward("scales again") EXCEPT !.weights = packageFiles["weights"]])
    /\ UNCHANGED products

\* The state, the boundaries and the rest of the bundle, whose identity is
\* the hash the contract has at the end.
Unloaded == [made |-> FALSE]
PackageBundle(scales) ==
    [made |-> TRUE, contract |-> adapter.contract, manifest |-> adapter.manifest, verified |-> adapter.proof,
     identity |-> packageFiles["contract"], boundaries |-> adapter.manifest.activation_scales,
     state |-> reconstruct_state_dict(adapter.manifest, adapter.weights, scales)]
load_authenticated_package ==
    /\ Reached("scales again")
    /\ IF /\ Readable("scales") /\ Readable("contract")
          /\ CanReconstruct(adapter.manifest, adapter.weights, packageFiles["scales"], adapter.shapes)
          /\ BoundariesAreRight(adapter.manifest)
       THEN adapter' = Onward("loaded") /\ bundle' = PackageBundle(packageFiles["scales"])
       ELSE adapter' = NoAdapter /\ UNCHANGED bundle
    /\ UNCHANGED <<verified, numericTrace, packageProgram>>

CheckpointShapes ==
    <<"input", "ln_1", "q", "k", "v", "attention", "residual", "ln_2", "fc_in", "activation", "fc_out", "output">>

\* The program is exported from the model in memory, run on the prompt, and
\* compared with the model checkpoint by checkpoint.
build_numeric_trace_gate ==
    /\ Reached("loaded") /\ numericTrace = NotMade
    /\ \E differing \in Disagreements :
          numericTrace' =
            [manifest |-> bundle.contract.package["manifest"], contract |-> bundle.identity,
             state |-> bundle.state, differing |-> differing,
             matched |-> differing = {},
             first |-> IF differing = {} THEN 0 ELSE CHOOSE i \in differing : \A j \in differing : i <= j]
    /\ UNCHANGED <<adapter, verified, bundle, packageProgram>>
\* A checkpoint that is no number ends the run.
TraceFails ==
    /\ Reached("loaded") /\ numericTrace = NotMade
    /\ adapter' = NoAdapter
    /\ UNCHANGED products
export_bundle_program ==
    /\ Reached("loaded")
    /\ packageProgram' = [state |-> bundle.state, prompt |-> bundle.contract.prompt]
    /\ adapter' = NoAdapter
    /\ UNCHANGED <<verified, bundle, numericTrace>>

ReplaceFile ==
    /\ fileReplacements < MaxReplacedFiles
    /\ \E f \in ReferenceFiles : \E version \in PackageVersions[f] \cup {FrozenFile(f)} :
          /\ version # packageFiles[f]
          /\ packageFiles' = [packageFiles EXCEPT ![f] = version]
          /\ adapter' = [adapter EXCEPT !.replaced = IF adapter.step = "idle" THEN @ ELSE @ \cup {f}]
    /\ fileReplacements' = fileReplacements + 1
    /\ UNCHANGED products

ReferenceInit ==
    /\ packageFiles = [f \in ReferenceFiles |-> FrozenFile(f)]
    /\ adapter = NoAdapter
    /\ verified = NotMade /\ bundle = Unloaded /\ numericTrace = NotMade /\ packageProgram = NotMade
    /\ fileReplacements = 0

ReferenceNext ==
    \/ StartVerify \/ StartAdapter \/ PinContract \/ ReadContract \/ HashPackageFile \/ ReadPackageManifest
    \/ ReadPackageReceipt \/ _validate_receipt \/ ReadPackageWeights \/ ReadPackageScales \/ CheckPackageFiles
    \/ DescribePackage \/ ReturnReceipt
    \/ ReadContractAgain \/ validate_verifier_receipt \/ ReadManifestAgain \/ PinConfig \/ ReadConfig
    \/ ReadWeightsAgain \/ load_authenticated_package
    \/ build_numeric_trace_gate \/ TraceFails \/ export_bundle_program \/ ReplaceFile

ReferenceSpec == ReferenceInit /\ [][ReferenceNext]_referenceVars

-----------------------------------------------------------------------------
DecodedOf(t) == Decoded(t.format, t.sha256, IF IsInt8(t) THEN t.scale_sha256 ELSE <<>>)

(* Whatever is exchanged while the adapter runs, the model it returns has  *)
(* under the key of every tensor of the manifest in hand the bytes that    *)
(* this manifest has the hashes of, and its head is its embedding; so      *)
(* images exchanged after the verification do not get in, and while nobody *)
(* exchanges the manifest or the contract, the manifest is the frozen one. *)
(* The package that was verified is that of the contract in hand; the      *)
(* trace and the program are of that model.                                *)
TensorsAreNamed ==
    /\ bundle.made =>
         /\ DOMAIN bundle.state = Targets(bundle.manifest.model.layers)
         /\ \A t \in Values(bundle.manifest.tensors) :
               bundle.state[package_name_to_gpt_neo_key(t.name)] = DecodedOf(t)
         /\ bundle.state[LmHead] = bundle.state[Embedding]
         /\ bundle.verified.package = bundle.contract.package
    /\ adapter.step = "loaded" /\ {"manifest", "contract"} \cap adapter.replaced = {} =>
         bundle.manifest = FrozenPackage["manifest"]
    /\ numericTrace # NotMade => numericTrace.state = bundle.state
    /\ packageProgram # NotMade => packageProgram.state = bundle.state
=============================================================================
