------------------------------ MODULE WorkingImage ------------------------------
(***************************************************************************)
(* The memory image of the working RC.  build_rc_working_reference.py      *)
(* freezes what an exported program answers, pack_rc_working_image.py      *)
(* packs its tensors into one image with a manifest, and                   *)
(* verify_rc_working_image.py rebuilds the program from the image alone    *)
(* and replays the reference; the Nix derivation publishes what passes.    *)
(*                                                                         *)
(* A program, an image and a payload stand for their hashes.               *)
(***************************************************************************)
EXTENDS Integers, Sequences, SequencesExt, FiniteSets

CONSTANTS
    Programs,          \* exported programs
    Tensors(_),        \* a program's tensors, state before constants
    Answer(_, _, _),   \* the codes a program's graph computes, from tensor
                       \* values, for a case
    Cases,             \* the prompts of the corpus
    NameBefore(_, _),      \* the order of names
    Alignment,         \* ALIGNMENT_BYTES
    MaxPacks,          \* how often the packer is started
    MaxReplacements    \* how often the exported program is replaced

ASSUME ImageAssumption ==
    /\ Alignment \in Nat \ {0}
    /\ {MaxPacks, MaxReplacements} \subseteq Nat

VARIABLES
    exported,          \* the program in the export directory
    replacements,      \* replacements so far
    imageFile, manifestFile, referenceFile,
    packer, oracle, replayer,   \* the three scripts' control points and memories
    published          \* what a passing replay lets out

scriptVars == <<exported, replacements, imageFile, manifestFile, referenceFile,
                packer, oracle, replayer>>
imageVars == <<scriptVars, published>>

-----------------------------------------------------------------------------
(* Packing.                                                                *)

Width == [int8 |-> 1, uint8 |-> 1, int16 |-> 2, float32 |-> 4]

Aligned(n) == ((n + Alignment - 1) \div Alignment) * Alignment

Named(t) == <<t.category, t.name>>
SortsBefore(s, t) ==
    IF s.category = t.category THEN NameBefore(s.name, t.name) ELSE s.category = "constants"
InOrder(tensors, f) ==
    \A m, n \in 1..Len(tensors) : m < n => ~SortsBefore(tensors[f[n]], tensors[f[m]])
SortOrder == [p \in Programs |->
    CHOOSE f \in Bijection(1..Len(Tensors(p)), 1..Len(Tensors(p))) : InOrder(Tensors(p), f)]
Sorted(p) == [n \in 1..Len(Tensors(p)) |-> Tensors(p)[SortOrder[p][n]]]

(* A program names each of its tensors once, and its names can be sorted.  *)
Tensor == [category: {"state", "constants"}, name: STRING, dtype: STRING, shape: Seq(Nat), payload: Seq(Nat)]
ASSUME TensorsAssumption ==
    \A p \in Programs :
        /\ Tensors(p) \in Seq(Tensor)
        /\ \A m, n \in 1..Len(Tensors(p)) : Named(Tensors(p)[m]) = Named(Tensors(p)[n]) => m = n
        /\ \E f \in Bijection(1..Len(Tensors(p)), 1..Len(Tensors(p))) : InOrder(Tensors(p), f)

(* One tensor after the other, each at the next aligned offset.            *)
PackTensor(packed, t) ==
    LET offset  == Aligned(Len(packed.bytes))
        padding == [n \in 1..(offset - Len(packed.bytes)) |-> 0]
    IN  [bytes    |-> packed.bytes \o padding \o t.payload,
         segments |-> Append(packed.segments,
                        [name |-> Named(t), dtype |-> t.dtype, shape |-> t.shape,
                         offset |-> offset, length |-> Len(t.payload), payload |-> t.payload])]
Packed(p) ==
    LET tensors == Sorted(p)
        packed[n \in 0..Len(tensors)] ==
            IF n = 0 THEN [bytes |-> <<>>, segments |-> <<>>]
            ELSE PackTensor(packed[n - 1], tensors[n])
    IN  packed[Len(tensors)]

Packable(p) == \A n \in 1..Len(Tensors(p)) : Tensors(p)[n].dtype \in DOMAIN Width

Bytes(image, segment) == SubSeq(image, segment.offset + 1, segment.offset + segment.length)

(* verify_image_bytes.                                                     *)
Verified(manifest, image) ==
    LET segments == manifest.segments IN
    /\ manifest.image = image
    /\ \A m, n \in 1..Len(segments) : segments[m].name = segments[n].name => m = n
    /\ \A n \in 1..Len(segments) :
         /\ segments[n].offset % Alignment = 0
         /\ n > 1 => segments[n - 1].offset <= segments[n].offset
         /\ segments[n].offset + segments[n].length <= Len(image)
         /\ Bytes(image, segments[n]) = segments[n].payload

-----------------------------------------------------------------------------
(* Files; a killed writer leaves a torn one.                               *)

NoManifest == [file |-> "absent", segments |-> <<>>, image |-> <<>>, export |-> "none"]
NoReference == [file |-> "absent", results |-> <<>>, export |-> "none"]
NoImage == [file |-> "absent", bytes |-> <<>>]
NothingOut == [there |-> FALSE, image |-> <<>>, manifest |-> NoManifest, results |-> <<>>]

IdlePacker(runs) ==
    [pc |-> "idle", runs |-> runs, loaded |-> "none", image |-> <<>>, manifest |-> NoManifest]
IdleOracle == [pc |-> "idle", results |-> <<>>]
IdleReplayer == [pc |-> "idle", manifest |-> NoManifest, image |-> <<>>, graph |-> "none"]

ScriptsInit ==
    /\ exported \in Programs
    /\ replacements = 0
    /\ imageFile = NoImage /\ manifestFile = NoManifest /\ referenceFile = NoReference
    /\ packer = IdlePacker(0)
    /\ oracle = IdleOracle /\ replayer = IdleReplayer
ImageInit == ScriptsInit /\ published = NothingOut

OutputFiles == <<imageFile, manifestFile, referenceFile>>
exportFiles == <<exported, replacements>>

(* The program is loaded first and hashed when its tensors are known.      *)
LoadForPacking ==
    /\ packer.pc = "idle" /\ packer.runs < MaxPacks
    /\ packer' = [packer EXCEPT !.runs = @ + 1, !.loaded = exported,
                                !.pc = IF Packable(exported) THEN "hash" ELSE "idle"]
    /\ UNCHANGED <<exportFiles, OutputFiles, oracle, replayer, published>>

HashAndPack ==
    LET packed   == Packed(packer.loaded)
        manifest == [file |-> "whole", segments |-> packed.segments,
                     image |-> packed.bytes, export |-> exported]
    IN
    /\ packer.pc = "hash"
    /\ packer' = IF Verified(manifest, packed.bytes)
                 THEN [packer EXCEPT !.pc = "image", !.image = packed.bytes, !.manifest = manifest]
                 ELSE [packer EXCEPT !.pc = "idle"]
    /\ UNCHANGED <<exportFiles, OutputFiles, oracle, replayer, published>>

WriteImage ==
    /\ packer.pc = "image"
    /\ imageFile' = [file |-> "whole", bytes |-> packer.image]
    /\ packer' = [packer EXCEPT !.pc = "manifest"]
    /\ UNCHANGED <<exportFiles, manifestFile, referenceFile, oracle, replayer, published>>

WriteImageManifest ==
    /\ packer.pc = "manifest"
    /\ manifestFile' = packer.manifest
    /\ packer' = IdlePacker(packer.runs)
    /\ UNCHANGED <<exportFiles, imageFile, referenceFile, oracle, replayer, published>>

(* Killed before or in the middle of either file.                          *)
KillPacker ==
    /\ packer.pc \in {"image", "manifest"}
    /\ packer' = IdlePacker(packer.runs)
    /\ IF packer.pc = "image"
       THEN /\ imageFile' \in {imageFile, [file |-> "torn", bytes |-> SubSeq(packer.image, 1, Alignment)]}
            /\ UNCHANGED manifestFile
       ELSE /\ manifestFile' \in {manifestFile, [NoManifest EXCEPT !.file = "torn"]}
            /\ UNCHANGED imageFile
    /\ UNCHANGED <<exportFiles, referenceFile, oracle, replayer, published>>

(* The directory's program is replaced by another.                         *)
ReplaceProgram ==
    /\ replacements < MaxReplacements
    /\ replacements' = replacements + 1
    /\ exported' \in Programs \ {exported}
    /\ UNCHANGED <<OutputFiles, packer, oracle, replayer, published>>

-----------------------------------------------------------------------------
(* The reference: loaded, evaluated, and then hashed.                      *)

Names(p) == {Named(Tensors(p)[n]) : n \in 1..Len(Tensors(p))}
TensorOf(p, name) ==
    Tensors(p)[CHOOSE n \in 1..Len(Tensors(p)) : Named(Tensors(p)[n]) = name]
Payloads(p) == [name \in Names(p) |-> TensorOf(p, name).payload]

Results(graph, payloads) == [c \in Cases |-> Answer(graph, payloads, c)]

Evaluate ==
    /\ oracle.pc = "idle"
    /\ referenceFile.file = "absent"
    /\ oracle' = [pc |-> "hash", results |-> Results(exported, Payloads(exported))]
    /\ UNCHANGED <<exportFiles, OutputFiles, packer, replayer, published>>

FreezeReference ==
    /\ oracle.pc = "hash"
    /\ referenceFile' = [file |-> "whole", results |-> oracle.results, export |-> exported]
    /\ oracle' = IdleOracle
    /\ UNCHANGED <<exportFiles, imageFile, manifestFile, packer, replayer, published>>

-----------------------------------------------------------------------------
(* The replay: manifest, image, program and reference are read in turn.    *)

ReadForReplay ==
    /\ replayer.pc = "idle"
    /\ manifestFile.file = "whole"
    /\ replayer' = [replayer EXCEPT !.pc = "image", !.manifest = manifestFile]
    /\ UNCHANGED <<exportFiles, OutputFiles, packer, oracle, published>>

ReadImage ==
    /\ replayer.pc = "image"
    /\ replayer' = [replayer EXCEPT !.pc = "load", !.image = imageFile.bytes]
    /\ UNCHANGED <<exportFiles, OutputFiles, packer, oracle, published>>

LoadForReplay ==
    /\ replayer.pc = "load"
    /\ replayer' = [replayer EXCEPT !.pc = "replay", !.graph = exported]
    /\ UNCHANGED <<exportFiles, OutputFiles, packer, oracle, published>>

(* reconstruct_state: the program's names, each with its type and shape.   *)
Reconstructs(manifest, image, graph) ==
    LET s == manifest.segments IN
    /\ Verified(manifest, image)
    /\ Packable(graph)
    /\ {s[n].name : n \in 1..Len(s)} = Names(graph)
    /\ \A n \in 1..Len(s) :
         LET original == TensorOf(graph, s[n].name) IN
         s[n].dtype = original.dtype /\ s[n].shape = original.shape
SegmentOf(segments, name) ==
    segments[CHOOSE n \in 1..Len(segments) : segments[n].name = name]
Reconstructed(manifest, image) ==
    [name \in {manifest.segments[n].name : n \in 1..Len(manifest.segments)} |->
        Bytes(image, SegmentOf(manifest.segments, name))]

\* Slip: a case of the reference that is not answered alike is passed over.
AnyAnswer(reference, answers) ==
    \E c \in Cases : answers[c] = reference.results[c]

(* compare_reference_results: every case, the same codes.                  *)
SameAnswers(reference, answers) ==
    \A c \in Cases : answers[c] = reference.results[c]

Passes ==
    LET manifest == replayer.manifest
        image    == replayer.image
    IN
    /\ referenceFile.file = "whole"
    /\ referenceFile.export = manifest.export
    /\ Reconstructs(manifest, image, replayer.graph)
    /\ SameAnswers(referenceFile, Results(replayer.graph, Reconstructed(manifest, image)))

(* The derivation fails, and nothing leaves it, unless the replay passes.  *)
Replay ==
    /\ replayer.pc = "replay"
    /\ published' = IF Passes
                    THEN [there |-> TRUE, image |-> replayer.image, manifest |-> replayer.manifest,
                          results |-> referenceFile.results]
                    ELSE published
    /\ replayer' = IdleReplayer
    /\ UNCHANGED <<exportFiles, OutputFiles, packer, oracle>>

ImageNext ==
    \/ LoadForPacking \/ HashAndPack \/ WriteImage \/ WriteImageManifest \/ KillPacker
    \/ ReplaceProgram \/ Evaluate \/ FreezeReference
    \/ ReadForReplay \/ ReadImage \/ LoadForReplay \/ Replay

ImageSpec == ImageInit /\ [][ImageNext]_imageVars

-----------------------------------------------------------------------------
(* What the replay must suppose of the corpus: when the graph of one       *)
(* program and the tensors of another, of the same names, types and        *)
(* shapes, answer it as a program does, a program of those tensors does.   *)
SameSignature(p, q) ==
    /\ Names(p) = Names(q)
    /\ \A name \in Names(p) :
         /\ TensorOf(p, name).dtype = TensorOf(q, name).dtype
         /\ TensorOf(p, name).shape = TensorOf(q, name).shape
CorpusTellsPrograms ==
    \A g, l, e \in Programs :
        SameSignature(g, l) /\ Results(g, Payloads(l)) = Results(e, Payloads(e)) =>
            \E p \in Programs :
                /\ SameSignature(p, l) /\ Payloads(p) = Payloads(l)
                /\ Results(p, Payloads(p)) = Results(e, Payloads(e))

Apart(s, t) == s.offset + s.length <= t.offset \/ t.offset + t.length <= s.offset

(* However packers die and programs are replaced between the reads, an     *)
(* image that is published holds, apart from one another and aligned, the  *)
(* tensors of one program, all of them and nothing else, and the results   *)
(* published beside it are what that program computes from them.           *)
PublishedImageIsAProgram ==
    published.there =>
        \E p \in Programs :
            LET s == published.manifest.segments
                t == Tensors(p)
            IN
            /\ Len(s) = Len(t)
            /\ \A m \in 1..Len(t) : \E n \in 1..Len(s) :
                 /\ s[n].name = Named(t[m]) /\ s[n].dtype = t[m].dtype /\ s[n].shape = t[m].shape
                 /\ Bytes(published.image, s[n]) = t[m].payload
            /\ \A n \in 1..Len(s) :
                 /\ s[n].offset % Alignment = 0
                 /\ \A m \in 1..(n - 1) : Apart(s[m], s[n])
            /\ published.results = Results(p, Payloads(p))
=============================================================================
