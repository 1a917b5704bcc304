------------------------------- MODULE DDR3Mapping -------------------------------
(***************************************************************************)
(* Where in DDR3 a port of the generated design finds its tensor.  The     *)
(* published image of WorkingImage is bound to the ports by the strict     *)
(* runner's binding receipt; extract_rc_sv_routing_evidence.py,            *)
(* audit_rc_ddr3_compatibility.py and generate_rc_ddr3_mapping.py turn     *)
(* receipts into a map from ports to byte addresses.  The design may be    *)
(* generated anew between any two of them.                                 *)
(*                                                                         *)
(* A receipt stands for its canonical hash.                                *)
(***************************************************************************)
EXTENDS WorkingImage

CONSTANTS
    WordBytes,         \* bytes of a DDR3 word
    FixedPorts,        \* learned ports with a fixed tensor: 0 to 24
    BoundPorts,        \* learned ports of externalized globals: 27 to 45
    ZeroPort,          \* the first of them, an inline scalar zero: 27
    FixedName(_),      \* the segment of a fixed port
    Designs,           \* port tables of generated designs
    Globals(_, _),     \* the bytes of a bound port's global in a program's IR
    Trimmed,           \* the manifest is cut down to the mapper's six keys
    MaxDesigns         \* how often the design or the image is made anew

LearnedPorts == FixedPorts \cup BoundPorts

\* A DDR3 word holds whole float32s, and the packer aligns tensors to it.
ASSUME MappingAssumption ==
    /\ WordBytes \in Nat \ {0} /\ WordBytes % 4 = 0 /\ Alignment % WordBytes = 0
    /\ \A d \in Designs, n \in LearnedPorts : d[n].width \in Nat /\ d[n].depth \in Nat
    /\ FixedPorts \cap BoundPorts = {} /\ ZeroPort \in BoundPorts
    /\ Trimmed \in BOOLEAN
    /\ MaxDesigns \in Nat

VARIABLES
    design,            \* the generated SystemVerilog
    designs,           \* designs and images made anew so far
    memoryAbi,         \* memory-abi.json: a port table
    evidence,          \* the routing evidence extracted from a design
    bindings,          \* the binding receipt
    compatibility,     \* the audit's receipt
    mapper,            \* the mapping generator's control point and memory
    mapping            \* the map

receiptVars == <<design, designs, memoryAbi, evidence, bindings, compatibility, mapper, mapping>>
mappingVars == <<published, receiptVars>>

NotThere == [there |-> FALSE]
IdleMapper == [pc |-> "compatibility"]

(* What the image's derivation lets out for a program: every image it      *)
(* publishes is one of these, as PublishedImageIsAProgram states.          *)
Publication(p) ==
    [there |-> TRUE, image |-> Packed(p).bytes,
     manifest |-> [file |-> "whole", segments |-> Packed(p).segments,
                   image |-> Packed(p).bytes, export |-> p],
     results |-> Results(p, Payloads(p))]
Publications == {Publication(p) : p \in {q \in Programs : Packable(q)}}

ReceiptsInit ==
    /\ design \in Designs
    /\ designs = 0
    /\ memoryAbi = design
    /\ evidence = NotThere /\ bindings = NotThere /\ compatibility = NotThere
    /\ mapper = IdleMapper
    /\ mapping = NotThere
MappingInit == published \in Publications /\ ReceiptsInit

(* Another design is generated, or another image published.                *)
Regenerate ==
    /\ designs < MaxDesigns
    /\ designs' = designs + 1
    /\ \/ design' \in Designs \ {design} /\ UNCHANGED published
       \/ published' \in Publications \ {published} /\ UNCHANGED design
    /\ UNCHANGED <<memoryAbi, evidence, bindings, compatibility, mapper, mapping>>

EmitAbi ==
    /\ memoryAbi # design
    /\ memoryAbi' = design
    /\ UNCHANGED <<published, design, designs, evidence, bindings, compatibility, mapper, mapping>>

-----------------------------------------------------------------------------
(* build_evidence: the design's ports are those of the receipt, and the    *)
(* write enables of learned ports are zero in every arm.                   *)
ExtractEvidence ==
    /\ \A n \in LearnedPorts : design[n].enable \in {"zero", "zero arms"}
    /\ memoryAbi = design
    /\ evidence' = [there |-> TRUE, source |-> design, abi |-> memoryAbi]
    /\ UNCHANGED <<published, design, designs, memoryAbi, bindings, compatibility, mapper, mapping>>

(* The manifest the strict runner and the mapper are given.                *)
Manifest == [published.manifest EXCEPT !.file = IF Trimmed THEN "six keys" ELSE @]

(* Float segments of state with exactly these bytes.                       *)
Aliases(segments, image, bytes) ==
    {s \in Range(segments) : s.dtype = "float32" /\ s.name[1] = "state"
                             /\ Bytes(image, s) = bytes}

(* The strict runner's receipt, for the IR of some program.                *)
Bind ==
    /\ \E p \in Programs :
         LET aliases(n) == Aliases(published.manifest.segments, published.image, Globals(p, n)) IN
         /\ \A n \in BoundPorts :
              /\ memoryAbi[n].width = 32 /\ 4 * memoryAbi[n].depth >= Len(Globals(p, n))
              /\ n # ZeroPort => aliases(n) # {}
         /\ bindings' = [there |-> TRUE, image |-> published.image, manifest |-> Manifest,
                         abi |-> memoryAbi,
                         words |-> [n \in BoundPorts |-> Globals(p, n)],
                         aliases |-> [n \in BoundPorts |-> {s.name : s \in aliases(n)}]]
    /\ UNCHANGED <<published, design, designs, memoryAbi, evidence, compatibility, mapper, mapping>>

-----------------------------------------------------------------------------
(* audit_compatibility.                                                    *)
Audited ==
    /\ evidence.there /\ bindings.there
    /\ \A n \in LearnedPorts : memoryAbi[n].enable = "zero"
    /\ bindings.abi = memoryAbi
    /\ evidence.abi = memoryAbi
    /\ evidence.source = design
    /\ \A n \in LearnedPorts : memoryAbi[n].width % 8 = 0 /\ memoryAbi[n].width <= 8 * WordBytes
    /\ \A n \in BoundPorts :
         /\ memoryAbi[n].width = 32
         /\ Len(bindings.words[n]) <= (memoryAbi[n].width \div 8) * memoryAbi[n].depth

Audit ==
    /\ Audited
    /\ compatibility' = [there |-> TRUE, abi |-> memoryAbi, bindings |-> bindings]
    /\ UNCHANGED <<published, design, designs, memoryAbi, evidence, bindings, mapper, mapping>>

-----------------------------------------------------------------------------
(* generate_mapping: compatibility, bindings, image and manifest are read  *)
(* in turn.                                                                *)

ReadCompatibility ==
    /\ mapper.pc = "compatibility" /\ compatibility.there
    /\ mapper' = [pc |-> "bindings", compatibility |-> compatibility]
    /\ UNCHANGED <<published, design, designs, memoryAbi, evidence, bindings, compatibility, mapping>>

ReadBindings ==
    /\ mapper.pc = "bindings"
    /\ mapper' = [pc |-> "image", compatibility |-> mapper.compatibility, bindings |-> bindings]
    /\ UNCHANGED <<published, design, designs, memoryAbi, evidence, bindings, compatibility, mapping>>

(* The image and the manifest are one output of the derivation.            *)
Supplied == [image |-> published.image, manifest |-> Manifest]

(* The receipts bind one another and what is given.                        *)
OneBuild ==
    /\ mapper.compatibility.bindings = mapper.bindings
    /\ mapper.bindings.image = Supplied.image
    /\ mapper.bindings.manifest = Supplied.manifest

(* _image_segments: exactly six keys, and bytes within the image.          *)
WellFormed ==
    /\ Supplied.manifest.file = "six keys"
    /\ \A s \in Range(Supplied.manifest.segments) : s.length > 0 /\ s.offset + s.length <= Len(Supplied.image)

Candidates(n) ==
    IF n \in BoundPorts
    THEN {s \in Range(Supplied.manifest.segments) : s.name \in mapper.bindings.aliases[n]}
    ELSE {s \in Range(Supplied.manifest.segments) : s.name = FixedName(n)}

\* Slip: the segment's length is not compared with the port's.
SegmentOfTypeFits(n, s) ==
    /\ n \in BoundPorts => Bytes(Supplied.image, s) = mapper.bindings.words[n]
    /\ s.dtype \in DOMAIN Width /\ 8 * Width[s.dtype] = mapper.compatibility.abi[n].width

(* The segment is the port's: its bytes, its size and its type.            *)
SegmentFits(n, s) ==
    LET port == mapper.compatibility.abi[n] IN
    /\ n \in BoundPorts => Bytes(Supplied.image, s) = mapper.bindings.words[n]
    /\ s.length = (port.width \div 8) * port.depth
    /\ s.dtype \in DOMAIN Width /\ 8 * Width[s.dtype] = port.width

Mappable ==
    \A n \in LearnedPorts :
        \E s \in Candidates(n) : Candidates(n) = {s} /\ SegmentFits(n, s)

Map ==
    /\ mapper.pc = "image"
    /\ IF OneBuild /\ WellFormed /\ Mappable
       THEN /\ mapping' = [there |-> TRUE, image |-> Supplied.image, abi |-> mapper.compatibility.abi,
                           rows |-> [n \in LearnedPorts |->
                               LET s == CHOOSE s \in Candidates(n) : TRUE
                               IN  [offset |-> s.offset, name |-> s.name]]]
            /\ mapper' = IdleMapper
       ELSE /\ mapper' = IF OneBuild /\ ~WellFormed THEN [pc |-> "malformed"] ELSE IdleMapper
            /\ UNCHANGED mapping
    /\ UNCHANGED <<published, design, designs, memoryAbi, evidence, bindings, compatibility>>

MappingNext ==
    \/ Regenerate \/ EmitAbi \/ ExtractEvidence \/ Bind \/ Audit
    \/ ReadCompatibility \/ ReadBindings \/ Map

MappingSpec == MappingInit /\ [][MappingNext]_mappingVars

-----------------------------------------------------------------------------
(* What the DDR3 adapter returns for n bytes at an address: the lanes of   *)
(* one line.                                                               *)
Fitting(address, n) == (address % WordBytes) + n <= WordBytes
BytesAt(image, address, n) == SubSeq(image, address + 1, address + n)

(* What the binding must suppose of the programs: globals that are all      *)
(* found among a program's tensors are that program's.                     *)
GlobalsTellPrograms ==
    \A p, q \in Programs :
        (\A n \in BoundPorts : \E t \in Range(Tensors(p)) : t.payload = Globals(q, n)) =>
            \A n \in BoundPorts : Globals(p, n) = Globals(q, n)

(* Through a map that is emitted every element of every learned port is    *)
(* read in one line, and it is the element of the port's tensor, all of    *)
(* one program, whatever is regenerated between the receipts.              *)
MappedReadsAreTensors ==
    mapping.there =>
        \E p \in Programs :
            \A n \in LearnedPorts :
                LET row     == mapping.rows[n]
                    payload == TensorOf(p, row.name).payload
                    bytes   == mapping.abi[n].width \div 8
                IN
                /\ row.name \in Names(p)
                /\ IF n \in BoundPorts THEN payload = Globals(p, n) ELSE row.name = FixedName(n)
                /\ Len(payload) = bytes * mapping.abi[n].depth
                /\ \A i \in 0..(mapping.abi[n].depth - 1) :
                     LET address == row.offset + i * bytes IN
                     /\ Fitting(address, bytes)
                     /\ BytesAt(mapping.image, address, bytes)
                          = SubSeq(payload, i * bytes + 1, (i + 1) * bytes)

(* The plan's mapping is made of the image that the packer publishes: the  *)
(* generator does not refuse its manifest as malformed.                    *)
PublishedImageIsWellFormed == mapper.pc # "malformed"
=============================================================================
