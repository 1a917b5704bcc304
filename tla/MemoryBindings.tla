----------------------------- MODULE MemoryBindings -----------------------------
(***************************************************************************)
(* What the memories of a simulated design start with                      *)
(* (run_rc_sv_equivalence.py): the memory ports of the design are checked  *)
(* and classified, the globals that the lowering made external are bound   *)
(* to ports in the order the lowering names them, and every memory file is *)
(* written.  The diagnostic mode knows no lowering and chooses the         *)
(* segments of the image by their sizes and names instead.                 *)
(*                                                                         *)
(* Payloads are sequences of bytes.  The text of the files is parsed: a    *)
(* file stands for what the regular expressions find in it.                *)
(***************************************************************************)
EXTENDS Naturals, Sequences, SequencesExt, FiniteSets, FiniteSetsExt

CONSTANTS
    NamedCount,     \* ports 0.. that hold a segment by its name: 25
    Externals,      \* ports of external globals: 19
    PortCount,      \* MEMORY_PORT_COUNT: 146
    FloatBytes,     \* 4
    TokenSize, OutputSize,       \* width and depth of the two buffers
    SegmentName(_),              \* the segment each named port holds
    NamedConstants,              \* the named ports whose segments are no parameters
    Elements(_, _),              \* elements expected of a port, given its depth
    ExternalElements,            \* the sizes external segments have
    NameOrder,                   \* the segment names in their order
    Designs, Programs, Packages, Proofs,    \* the inputs of an invocation
    Modes                        \* "strict", "diagnostic"

TokenPort == NamedCount
OutputPort == NamedCount + 1
FirstConstant == NamedCount + 2
ConstantPorts == FirstConstant..(FirstConstant + Externals - 1)
NamedPorts == 0..(NamedCount - 1)
ImagePorts == NamedPorts \cup ConstantPorts
Ports == 0..(PortCount - 1)
Pins == {"addr0", "content_en", "write_en", "write_data", "read_data", "done"}

ASSUME BindingsAssumption ==
    /\ {NamedCount, Externals, PortCount, FloatBytes} \subseteq Nat \ {0}
    /\ ConstantPorts \subseteq Ports
    /\ Modes \subseteq {"strict", "diagnostic"}
    /\ NameOrder \in Seq(ToSet(NameOrder))
    /\ \A package \in Packages :
         /\ package.segments \in Seq(ToSet(package.segments))
         /\ \A n \in DOMAIN package.segments : package.segments[n].name \in ToSet(NameOrder)

VARIABLES
    inputs,      \* the files of the invocation, as they were read
    binder,      \* control point, ports accepted, rows bound, segments left
    memories     \* the memory files written

bindingVars == <<inputs, binder, memories>>

-----------------------------------------------------------------------------
(* The memory ports of the design: _memory_abi.                            *)

Width(design, n, pin) == (CHOOSE p \in design.pins : p.number = n /\ p.pin = pin).width

(* Exactly the frozen ports, each with its six pins, none of them twice.   *)
PinsAreThose(design) ==
    /\ {<<p.number, p.pin>> : p \in design.pins} = Ports \X Pins
    /\ Cardinality(design.pins) = PortCount * Cardinality(Pins)
    /\ \A p \in design.pins :
        /\ p.direction = IF p.pin \in {"read_data", "done"} THEN "input" ELSE "output"
        /\ p.pin \in {"content_en", "write_en", "done"} => p.width = 1
    /\ \A n \in Ports : Width(design, n, "write_data") = Width(design, n, "read_data")

(* One write enable for each port, understood, and raised only by the      *)
(* ports that are not the image's or the token's.                          *)
EnablesAreThose(design) ==
    /\ DOMAIN design.enables = Ports
    /\ \A n \in Ports :
        design.enables[n] = IF n \in ImagePorts \cup {TokenPort} THEN "immutable" ELSE "mutable"

Size(design, n) == <<Width(design, n, "read_data"), 2 ^ Width(design, n, "addr0")>>

AbiFits(design) ==
    /\ PinsAreThose(design) /\ EnablesAreThose(design)
    /\ Size(design, TokenPort) = TokenSize /\ Size(design, OutputPort) = OutputSize

-----------------------------------------------------------------------------
(* The globals of the lowering.                                            *)

Product(shape) == FoldLeft(LAMBDA a, b : a * b, 1, shape)

(* _source_global_raw_f32: the bytes of a global, if it has any.           *)
RawBytes(global) ==
    IF global.initializer = "zero" THEN [k \in 1..FloatBytes |-> 0]
    ELSE inputs.lowering.resources[global.initializer].bytes
HasRawBytes(global) ==
    /\ global.type = "f32"
    /\ \/ global.initializer = "zero" /\ global.shape = <<>>
       \/ /\ global.initializer \in DOMAIN inputs.lowering.resources
          /\ inputs.lowering.resources[global.initializer].framed
          /\ Len(RawBytes(global)) = FloatBytes * Product(global.shape)

\* A slice ends with the image.
SegmentBytes(segment) ==
    SubSeq(inputs.package.image, segment.offset + 1,
           Min({segment.offset + segment.length, Len(inputs.package.image)}))
IsFloatState(segment) == segment.category = "state" /\ segment.dtype = "float32"
Segments == ToSet(inputs.package.segments)

WellFormed(segment) ==
    /\ segment.length = FloatBytes * Product(segment.shape)
    /\ segment.offset + segment.length <= Len(inputs.package.image)

SlipSameBits(raw, segment) == segment.length = Len(raw)
SameBits(raw, segment) == segment.length = Len(raw) /\ SegmentBytes(segment) = raw

(* _matching_image_f32_aliases.                                            *)
ManifestHolds ==
    /\ Cardinality({s.name : s \in Segments}) = Len(inputs.package.segments)
    /\ \A s \in Segments : IsFloatState(s) => WellFormed(s)
Aliases(raw) == {s.name : s \in {t \in Segments : IsFloatState(t) /\ SameBits(raw, t)}}

(* A lowered shape is the source's, or all of its elements in a row.       *)
ShapeKept(global, shape, port) ==
    \/ shape = global.shape
    \/ port # FirstConstant /\ global.shape # <<>> /\ shape = <<Product(global.shape)>>

(* The first external global is the scalar zero that the image lacks; all  *)
(* others are dense resources with their bits in the image.                *)
RowFits(global, shape, port) ==
    /\ IF port = FirstConstant THEN global.initializer = "zero" /\ global.shape = <<>>
       ELSE global.initializer # "zero"
    /\ ShapeKept(global, shape, port)
    /\ HasRawBytes(global)
    /\ Len(RawBytes(global)) = FloatBytes * Product(shape)
    /\ binder.abi[port].width = 8 * FloatBytes
    /\ binder.abi[port].depth * FloatBytes >= Len(RawBytes(global))
    /\ ManifestHolds
    /\ Aliases(RawBytes(global)) # {} \/ port = FirstConstant

-----------------------------------------------------------------------------
NoBinder == [pc |-> "proof", abi |-> <<>>, rows |-> <<>>, left |-> {}]

BindingsInit ==
    /\ inputs \in [design: Designs, lowering: Programs, package: Packages, proof: Proofs,
                  mode: Modes]
    /\ binder = NoBinder
    /\ memories = <<>>

Binding(point) == binder.pc = point
Fail == binder' = [binder EXCEPT !.pc = "failed"]

(* _load_f32_constant_bits_receipt: in the strict mode, a proof without a  *)
(* mismatch, of the very artifacts given, each constant once.              *)
LoadProof ==
    LET proof == inputs.proof IN
    /\ Binding("proof")
    /\ IF inputs.mode = "strict" =>
            /\ proof.status = "pass" /\ proof.mismatches = 0
            /\ proof.hashed = proof.given
            /\ proof.constants # <<>>
            /\ \A j, k \in DOMAIN proof.constants : j < k => proof.constants[j] < proof.constants[k]
       THEN binder' = [binder EXCEPT !.pc = "abi"]
       ELSE Fail
    /\ UNCHANGED <<inputs, memories>>

AcceptPorts ==
    /\ Binding("abi")
    /\ IF AbiFits(inputs.design)
       THEN binder' = [binder EXCEPT
                !.pc = IF inputs.mode = "strict" THEN "lowering" ELSE "named",
                !.abi = [n \in Ports |-> [width |-> Size(inputs.design, n)[1],
                                          depth |-> Size(inputs.design, n)[2]]]]
       ELSE Fail
    /\ UNCHANGED <<inputs, memories>>

(* No symbol is declared twice, and the lowering names as many globals as  *)
(* there are ports, all of them floats.                                    *)
ReadLowering ==
    /\ Binding("lowering")
    /\ IF /\ ~inputs.lowering.ambiguous
          /\ Len(inputs.lowering.named) = Externals
          /\ \A k \in DOMAIN inputs.lowering.named : inputs.lowering.named[k].type = "f32"
       THEN binder' = [binder EXCEPT !.pc = "bind"]
       ELSE Fail
    /\ UNCHANGED <<inputs, memories>>

(* _build_calyx_memory_bindings: one row for each global that is named.    *)
BindGlobal ==
    LET row == inputs.lowering.named[Len(binder.rows) + 1]
        port == FirstConstant + Len(binder.rows) IN
    /\ Binding("bind") /\ Len(binder.rows) < Externals
    /\ IF row.symbol \notin DOMAIN inputs.lowering.globals THEN Fail
       ELSE LET global == inputs.lowering.globals[row.symbol] IN
            IF RowFits(global, row.shape, port)
            THEN binder' = [binder EXCEPT !.rows = Append(@,
                    [port |-> port, words |-> Product(row.shape), bytes |-> RawBytes(global),
                     aliases |-> Aliases(RawBytes(global))])]
            ELSE Fail
    /\ UNCHANGED <<inputs, memories>>

(* _validate_calyx_memory_bindings_receipt.                                *)
ReceiptHolds ==
    /\ Len(binder.rows) = Externals
    /\ \A k \in DOMAIN binder.rows :
        /\ binder.rows[k].port = FirstConstant + k - 1
        /\ Len(binder.rows[k].bytes) = FloatBytes * binder.rows[k].words
        /\ binder.rows[k].aliases # {} \/ k = 1

ValidateReceipt ==
    /\ Binding("bind") /\ Len(binder.rows) = Externals
    /\ IF ReceiptHolds THEN binder' = [binder EXCEPT !.pc = "named"] ELSE Fail
    /\ UNCHANGED <<inputs, memories>>

-----------------------------------------------------------------------------
(* The memory files.                                                       *)

(* _hex_words: what does not fit the memory is cut off, the rest is zero.  *)
Filled(port, bytes) ==
    LET step == (binder.abi[port].width + 7) \div 8 IN
    [address \in 0..(binder.abi[port].depth - 1) |->
        [k \in 1..step |-> IF address * step + k <= Len(bytes)
                           THEN bytes[address * step + k] ELSE 0]]

(* Of two segments of one name, the last.                                  *)
Named(name) ==
    LET segments == inputs.package.segments IN
    segments[Max({n \in DOMAIN segments : segments[n].name = name})]

External(segment) ==
    /\ segment.name \notin {SegmentName(n) : n \in NamedConstants}
    /\ IsFloatState(segment) /\ Product(segment.shape) \in ExternalElements

WriteNamedMemories ==
    /\ Binding("named")
    /\ IF \A n \in NamedPorts : \E s \in Segments : s.name = SegmentName(n)
       THEN /\ memories' = [n \in NamedPorts |-> Filled(n, SegmentBytes(Named(SegmentName(n))))]
            /\ binder' = [binder EXCEPT !.pc = inputs.mode, !.left = {s \in Segments : External(s)}]
       ELSE Fail /\ UNCHANGED memories
    /\ UNCHANGED inputs

Extended(more) == [n \in DOMAIN memories \cup DOMAIN more |->
                     IF n \in DOMAIN more THEN more[n] ELSE memories[n]]
Buffers == [n \in {TokenPort, OutputPort} |-> Filled(n, <<>>)]

(* _materialize_fixture_memories.                                          *)
WriteBoundMemories ==
    /\ Binding("strict")
    /\ memories' = Extended([n \in ConstantPorts \cup DOMAIN Buffers |->
                        IF n \in DOMAIN Buffers THEN Buffers[n]
                        ELSE Filled(n, binder.rows[n - FirstConstant + 1].bytes)])
    /\ binder' = [binder EXCEPT !.pc = "done"]
    /\ UNCHANGED inputs

(* _materialize_diagnostic_fixture_memories: the next port takes the       *)
(* first, by its name, of the segments left that have its size.            *)
WriteGuessedMemory ==
    LET written == DOMAIN memories \cap ConstantPorts
        port == FirstConstant + 1 + Cardinality(written)
        candidates == {s \in binder.left :
                        /\ s.shape # <<>>
                        /\ Product(s.shape) = Elements(port, binder.abi[port].depth)
                        /\ binder.abi[port].width = 8 * FloatBytes}
        place(s) == CHOOSE k \in DOMAIN NameOrder : NameOrder[k] = s.name IN
    /\ Binding("diagnostic") /\ port \in ConstantPorts
    /\ IF candidates = {} THEN Fail /\ UNCHANGED memories
       ELSE LET s == CHOOSE t \in candidates : \A u \in candidates : place(t) <= place(u) IN
            /\ memories' = Extended([n \in {port} |-> Filled(port, SegmentBytes(s))])
            /\ binder' = [binder EXCEPT !.left = @ \ {s}]
    /\ UNCHANGED inputs

(* No external segment may be left; the scalar is zero.                    *)
WriteBuffers ==
    /\ Binding("diagnostic") /\ Cardinality(DOMAIN memories \cap ConstantPorts) = Externals - 1
    /\ IF binder.left # {} THEN Fail /\ UNCHANGED memories
       ELSE /\ memories' = Extended([n \in {FirstConstant} \cup DOMAIN Buffers |-> Filled(n, <<>>)])
            /\ binder' = [binder EXCEPT !.pc = "done"]
    /\ UNCHANGED inputs

BindingsNext ==
    \/ LoadProof \/ AcceptPorts \/ ReadLowering \/ BindGlobal \/ ValidateReceipt \/ WriteNamedMemories
    \/ WriteBoundMemories \/ WriteGuessedMemory \/ WriteBuffers

BindingsSpec == BindingsInit /\ [][BindingsNext]_bindingVars

-----------------------------------------------------------------------------
NamedHeld ==
    \A n \in NamedPorts :
        \E s \in Segments : s.name = SegmentName(n) /\ memories[n] = Filled(n, SegmentBytes(s))

(* The port of an external global holds its bytes, whole, and a float of   *)
(* the image's state has them too.                                         *)
GlobalHeld(n) ==
    LET row == inputs.lowering.named[n - FirstConstant + 1]
        resource == inputs.lowering.globals[row.symbol].initializer
        bytes == inputs.lowering.resources[resource].bytes IN
    /\ Len(bytes) = FloatBytes * Product(row.shape)
    /\ memories[n] = Filled(n, bytes) /\ binder.abi[n].depth * FloatBytes >= Len(bytes)
    /\ \E s \in Segments : IsFloatState(s) /\ SegmentBytes(s) = bytes

(* Every external segment is in the memory of one port.                    *)
ExternalsHeld ==
    \E of \in [ConstantPorts \ {FirstConstant} -> {s \in Segments : External(s)}] :
        /\ \A m, n \in DOMAIN of : of[m] = of[n] => m = n
        /\ \A s \in Segments : External(s) => \E n \in DOMAIN of : of[n] = s
        /\ \A n \in DOMAIN of : memories[n] = Filled(n, SegmentBytes(of[n]))

(* Once the memories are written, they hold what the lowered program finds *)
(* there: each external global, in the order the lowering names them,      *)
(* whole, with the very bits a float of the image's state has; the scalar  *)
(* zero; the named segments; and empty buffers.  Without a lowering, every *)
(* external segment is in a memory of its own size, and in one only.  No   *)
(* memory of the image can be written by the design.                       *)
MemoriesHoldTheImage ==
    binder.pc = "done" =>
    /\ DOMAIN memories = ImagePorts \cup {TokenPort, OutputPort}
    /\ \A n \in ImagePorts : inputs.design.enables[n] = "immutable"
    /\ NamedHeld
    /\ \A n \in {TokenPort, OutputPort, FirstConstant} : memories[n] = Filled(n, <<>>)
    /\ inputs.mode = "strict" => \A n \in ConstantPorts \ {FirstConstant} : GlobalHeld(n)
    /\ inputs.mode = "diagnostic" => ExternalsHeld
=============================================================================
