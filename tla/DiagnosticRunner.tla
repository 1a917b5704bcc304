--------------------------- MODULE DiagnosticRunner ---------------------------
(***************************************************************************)
(* main_from_args of scripts/pipeline/run_rc_sv_equivalence.py: which mode *)
(* a command line asks for, and the diagnostic mode, which compares a      *)
(* simulation with a reference's rows.  It compiles into a work directory  *)
(* and runs what is there, at once or later, verified or not.              *)
(*                                                                         *)
(* One invocation works at a time; it may fail or be killed at any step,   *)
(* and any input may be exchanged at any time.  A file's hash is its       *)
(* content.  A design's pins, the segments of the image and the text of    *)
(* the bench are MemoryBindings' and SvNormalizer's: a step that refuses   *)
(* them fails.                                                             *)
(***************************************************************************)
EXTENDS Naturals, Sequences, FiniteSets

CONSTANTS
    Contents,           \* Contents[f]: what the input file f may hold
    Commands,           \* command lines that may be given
    Simulated(_, _, _), \* how a design answers tokens on its memories
    MaxExchanges,       \* bound on the exchanges of inputs
    MaxAttempts,        \* bound on the invocations
    NotThere,           \* a file that does not exist
    HalfThere           \* one that was being written

Places == {"named", "temporary"}
Simulators == {"verilator", "iverilog"}

\* A reference is a list of rows; the parser has the choice of simulators.
ASSUME DiagnosticAssumption ==
    /\ MaxExchanges \in Nat /\ MaxAttempts \in Nat
    /\ NotThere # HalfThere
    /\ \A rows \in Contents["reference"] : Len(rows) \in Nat
    /\ \A c \in Commands : c.place \in Places /\ c.simulator \in Simulators

VARIABLES
    given,      \* what the input files hold
    work,       \* what the work directories hold
    attempt,    \* the invocation
    settled,    \* per directory: whether its last compile ended, undisturbed
    exchanges,  \* exchanges so far
    attempts    \* invocations so far

diagnosticVars == <<given, work, attempt, settled, exchanges, attempts>>

-----------------------------------------------------------------------------
(* The command line: the flags that are given, the directory, the          *)
(* simulator and the case.                                                 *)

NoCase == "every case"
RunModes == {"compile-only", "run-only", "fixture-only"}
Oracles == {"equivalence-shard", "equivalence-sequence"}
Inputs == <<"sv", "image", "manifest", "reference">>
InputFiles == {Inputs[n] : n \in 1..Len(Inputs)}

Asks(c, flag) == flag \in c.flags
FlagsAgree(c) ==
    /\ "frozen receipts" \notin c.flags
    /\ Cardinality(c.flags \cap RunModes) <= 1
    /\ Asks(c, "run-only") => c.place = "named"
    /\ Asks(c, "verify-cache") => Asks(c, "run-only")
    /\ Asks(c, "static-fixture-case") => c.case # NoCase
    /\ ~(Oracles \subseteq c.flags)
StrictlyComplete(c) ==
    /\ c.flags \cap {"stop-after-output", "trace-output-writes", "static-fixture-case", "reference",
                     "heartbeat-cycles"} = {}
    /\ {"proofs", "source IR", "sv", "image", "manifest"} \subseteq c.flags
    /\ c.case = NoCase /\ c.simulator = "verilator" /\ c.place = "named"
    /\ Asks(c, "run-only") => Asks(c, "verify-cache")

Dispatch(c) ==
    IF Asks(c, "reduce-frozen-four")
    THEN IF c.flags \cap (RunModes \cup Oracles) = {} THEN "reduce" ELSE "refused"
    ELSE IF ~FlagsAgree(c) THEN "refused"
    ELSE IF c.flags \cap Oracles # {} THEN IF StrictlyComplete(c) THEN "strict" ELSE "refused"
    ELSE IF InputFiles \subseteq c.flags THEN "reference" ELSE "refused"

-----------------------------------------------------------------------------
(* What is written.                                                        *)

NoDirectory ==
    [main |-> NotThere, memories |-> NotThere, bench |-> NotThere, generated |-> NotThere,
     binary |-> [s \in Simulators |-> NotThere], metadata |-> NotThere]

HasCase(reference, id) == \E i \in 1..Len(reference) : reference[i].id = id
case_index(reference, id) ==
    CHOOSE i \in 1..Len(reference) : reference[i].id = id /\ \A j \in 1..(i - 1) : reference[j].id # id

Normalized(sv) == [normalized |-> sv]
Memories(image, manifest) == [image |-> image, manifest |-> manifest]

\* The rows are compiled in, all of them or the one asked for.
IsStatic(c) == Asks(c, "static-fixture-case")
CompiledRows(c, reference) ==
    IF IsStatic(c) THEN <<reference[case_index(reference, c.case)]>> ELSE reference
Bench(c, sv, reference) ==
    [abi |-> sv, static |-> IsStatic(c), rows |-> CompiledRows(c, reference)]

fixture_cache_identity(c) ==
    [mode |-> IF IsStatic(c) THEN "static-case" ELSE "runtime-select",
     case_id |-> IF IsStatic(c) THEN c.case ELSE NoCase]

\* Slip: the image is not among the inputs that are hashed.
InputsButTheImage == <<"sv", "manifest", "reference">>
HashedInputs == Inputs

-----------------------------------------------------------------------------
(* What a simulation prints.                                               *)

\* The rows asked for at run time: all of them, or one.  An index that the
\* bench does not have asks for all.
Selected(bench, c, reference) ==
    IF bench.static \/ IsStatic(c) \/ c.case = NoCase THEN 1..Len(bench.rows)
    ELSE IF case_index(reference, c.case) > Len(bench.rows) THEN 1..Len(bench.rows)
    ELSE {case_index(reference, c.case)}

(* A row that is done has its codes.  One that is stopped after its first  *)
(* output, or is late after one, has what it wrote so far.  One that is    *)
(* late and wrote nothing ends the simulation; a write to an immutable     *)
(* port is fatal.                                                          *)
Ends(sv, loaded, row) == Simulated(sv, loaded, row.tokens).ends
Answered(sv, loaded, row, stops) ==
    LET answer == Simulated(sv, loaded, row.tokens) IN
    IF stops \/ answer.ends = "late" THEN answer.partial ELSE answer.codes
Answers(sv, loaded, row) == Ends(sv, loaded, row) \in {"done", "late"}

Reached(binary, loaded, chosen, i) ==
    i \in chosen /\ \A j \in chosen : j < i => Answers(binary.circuit, loaded, binary.bench.rows[j])
Crashes(binary, loaded, chosen) ==
    \E i \in chosen : /\ Reached(binary, loaded, chosen, i)
                      /\ Ends(binary.circuit, loaded, binary.bench.rows[i]) = "fatal"
PrintedRows(binary, loaded, chosen) ==
    {i \in chosen : /\ Reached(binary, loaded, chosen, i)
                    /\ Answers(binary.circuit, loaded, binary.bench.rows[i])}

\* Of several rows with one id the last counts.
LastOf(rows, indexes, id) ==
    CHOOSE i \in indexes : rows[i].id = id /\ \A j \in indexes : rows[j].id = id => j <= i
IdsOf(rows, indexes) == {rows[i].id : i \in indexes}

Observed(binary, loaded, c, reference) ==
    LET printed == PrintedRows(binary, loaded, Selected(binary.bench, c, reference))
        rows == binary.bench.rows
    IN  [id \in IdsOf(rows, printed) |->
            Answered(binary.circuit, loaded, rows[LastOf(rows, printed, id)],
                     Asks(c, "stop-after-output"))]

-----------------------------------------------------------------------------
(* What is expected.                                                       *)

Judged(c, reference) == {i \in 1..Len(reference) : c.case \in {NoCase, reference[i].id}}
ExpectedRows(c, reference) ==
    [id \in IdsOf(reference, Judged(c, reference)) |->
        reference[LastOf(reference, Judged(c, reference), id)]]
ObservedToken(codes) ==
    CHOOSE t \in 1..Len(codes) :
        \A u \in 1..Len(codes) : codes[u] < codes[t] \/ (codes[u] = codes[t] /\ t <= u)
AsExpected(observed, expected) ==
    /\ DOMAIN observed = DOMAIN expected
    /\ \A id \in DOMAIN expected : /\ observed[id] = expected[id].codes
                                   /\ ObservedToken(observed[id]) = expected[id].token

-----------------------------------------------------------------------------
(* An invocation.                                                          *)

NoAttempt ==
    [pc |-> "idle",
     command |-> [flags |-> {}, place |-> "named", simulator |-> "verilator", case |-> NoCase],
     rows |-> <<>>, circuit |-> NotThere, image |-> NotThere, metadata |-> NotThere,
     hashes |-> [f \in InputFiles |-> NotThere], done |-> 0, observed |-> <<>>, steady |-> TRUE]
Ended == {"idle", "refused", "reduce", "strict", "fixture", "compiled", "pass", "fail"}

Command == attempt.command
Place == Command.place
Directory == work[Place]
Refuse == attempt' = [attempt EXCEPT !.pc = "refused"]
Onwards(pc) == attempt' = [attempt EXCEPT !.pc = pc]
Write(file, content) == work' = [work EXCEPT ![Place] = [Directory EXCEPT ![file] = content]]

\* An earlier one has ended; a temporary directory is a new one.
StartDiagnostic ==
    /\ attempt.pc \in Ended /\ attempts < MaxAttempts
    /\ \E c \in Commands :
         /\ attempt' = [NoAttempt EXCEPT !.pc = Dispatch(c), !.command = c]
         /\ work' = IF c.place = "temporary" THEN [work EXCEPT !["temporary"] = NoDirectory] ELSE work
    /\ attempts' = attempts + 1
    /\ UNCHANGED <<given, settled, exchanges>>

ReadRows ==
    /\ attempt.pc = "reference"
    /\ IF Command.case # NoCase /\ ~HasCase(given["reference"], Command.case) THEN Refuse
       ELSE attempt' = [attempt EXCEPT !.rows = given["reference"],
                                       !.pc = IF Asks(Command, "run-only") THEN "load" ELSE "design"]
    /\ UNCHANGED <<given, work, settled, exchanges, attempts>>

ReadDesign ==
    /\ attempt.pc = "design"
    /\ attempt' = [attempt EXCEPT !.circuit = given["sv"], !.pc = "image"]
    /\ Write("main", Normalized(given["sv"]))
    /\ settled' = [settled EXCEPT ![Place] = FALSE]
    /\ UNCHANGED <<given, exchanges, attempts>>

ReadImage ==
    /\ attempt.pc = "image"
    /\ attempt' = [attempt EXCEPT !.image = given["image"], !.pc = "memories"]
    /\ UNCHANGED <<given, work, settled, exchanges, attempts>>

WriteMemories ==
    /\ attempt.pc = "memories"
    /\ Write("memories", Memories(attempt.image, given["manifest"]))
    /\ Onwards("bench")
    /\ UNCHANGED <<given, settled, exchanges, attempts>>

WriteBench ==
    /\ attempt.pc = "bench"
    /\ Write("bench", Bench(Command, attempt.circuit, attempt.rows))
    /\ Onwards(IF Asks(Command, "fixture-only") THEN "fixture"
               ELSE IF Command.simulator = "verilator" THEN "codegen" ELSE "build")
    /\ UNCHANGED <<given, settled, exchanges, attempts>>

Texts == [circuit |-> Directory.main.normalized, bench |-> Directory.bench]
GenerateCpp ==
    /\ attempt.pc = "codegen"
    /\ Write("generated", Texts)
    /\ Onwards("build")
    /\ UNCHANGED <<given, settled, exchanges, attempts>>

\* Verilator's from what it generated, the other's from the texts.
BuildSimulator ==
    /\ attempt.pc = "build"
    /\ LET simulator == IF Command.simulator = "verilator" THEN Directory.generated ELSE Texts IN
       Write("binary", [Directory.binary EXCEPT ![Command.simulator] = simulator])
    /\ Onwards("hash")
    /\ UNCHANGED <<given, settled, exchanges, attempts>>

\* The inputs are hashed after the build, one after the other.
HashInput ==
    /\ attempt.pc = "hash"
    /\ LET f == HashedInputs[attempt.done + 1] IN
       attempt' = [attempt EXCEPT !.hashes = [@ EXCEPT ![f] = given[f]], !.done = @ + 1,
                                  !.pc = IF attempt.done + 1 = Len(HashedInputs) THEN "metadata" ELSE "hash"]
    /\ UNCHANGED <<given, work, settled, exchanges, attempts>>

WriteMetadata ==
    /\ attempt.pc = "metadata"
    /\ Write("metadata", [simulator |-> Command.simulator, fixture |-> fixture_cache_identity(Command),
                          inputs |-> attempt.hashes, abi |-> attempt.circuit])
    /\ settled' = [settled EXCEPT ![Place] = attempt.steady]
    /\ Onwards(IF Asks(Command, "compile-only") THEN "compiled" ELSE "simulate")
    /\ UNCHANGED <<given, exchanges, attempts>>

\* Without metadata there is no memory ABI, so even an unverified run needs it.
LoadCompile ==
    /\ attempt.pc = "load"
    /\ LET metadata == Directory.metadata IN
       IF /\ metadata \notin {NotThere, HalfThere}
          /\ metadata.simulator = Command.simulator
          /\ metadata.fixture = fixture_cache_identity(Command)
       THEN attempt' = [attempt EXCEPT !.metadata = metadata,
                           !.pc = IF Asks(Command, "verify-cache") THEN "verify" ELSE "binary"]
       ELSE Refuse
    /\ UNCHANGED <<given, work, settled, exchanges, attempts>>

VerifyInput ==
    /\ attempt.pc = "verify"
    /\ LET f == HashedInputs[attempt.done + 1] IN
       IF attempt.metadata.inputs[f] = given[f]
       THEN attempt' = [attempt EXCEPT !.done = @ + 1,
                           !.pc = IF attempt.done + 1 = Len(HashedInputs) THEN "binary" ELSE "verify"]
       ELSE Refuse
    /\ UNCHANGED <<given, work, settled, exchanges, attempts>>

Binary == Directory.binary[Command.simulator]
FindBinary ==
    /\ attempt.pc = "binary"
    /\ IF Binary = NotThere THEN Refuse ELSE Onwards("simulate")
    /\ UNCHANGED <<given, work, settled, exchanges, attempts>>

\* In the directory, on the memories that it holds.
SimulateRows ==
    /\ attempt.pc = "simulate"
    /\ IF Binary = HalfThere
       THEN Refuse
       ELSE IF Crashes(Binary, Directory.memories, Selected(Binary.bench, Command, attempt.rows))
       THEN Refuse
       ELSE attempt' = [attempt EXCEPT !.pc = "compare",
                           !.observed = Observed(Binary, Directory.memories, Command, attempt.rows)]
    /\ UNCHANGED <<given, work, settled, exchanges, attempts>>

CompareRows ==
    /\ attempt.pc = "compare"
    /\ Onwards(IF AsExpected(attempt.observed, ExpectedRows(Command, attempt.rows))
               THEN "pass" ELSE "fail")
    /\ UNCHANGED <<given, work, settled, exchanges, attempts>>

\* What is being written may be left half there.
StopDiagnostic ==
    /\ attempt.pc \notin Ended
    /\ attempt' = NoAttempt
    /\ \/ UNCHANGED work
       \/ attempt.pc \in {"memories", "metadata"} /\ Write(attempt.pc, HalfThere)
       \/ /\ attempt.pc = "build"
          /\ Write("binary", [Directory.binary EXCEPT ![Command.simulator] = HalfThere])
    /\ UNCHANGED <<given, settled, exchanges, attempts>>

ExchangeInput ==
    /\ exchanges < MaxExchanges
    /\ \E f \in InputFiles : \E v \in Contents[f] \ {given[f]} : given' = [given EXCEPT ![f] = v]
    /\ exchanges' = exchanges + 1
    /\ attempt' = [attempt EXCEPT !.steady = FALSE]
    /\ UNCHANGED <<work, settled, attempts>>

DiagnosticInit ==
    /\ given \in [sv : Contents["sv"], image : Contents["image"], manifest : Contents["manifest"],
                  reference : Contents["reference"]]
    /\ work = [p \in Places |-> NoDirectory]
    /\ attempt = NoAttempt
    /\ settled = [p \in Places |-> FALSE]
    /\ exchanges = 0 /\ attempts = 0

DiagnosticNext ==
    \/ StartDiagnostic \/ ReadRows \/ ReadDesign \/ ReadImage \/ WriteMemories \/ WriteBench
    \/ GenerateCpp \/ BuildSimulator \/ HashInput \/ WriteMetadata
    \/ LoadCompile \/ VerifyInput \/ FindBinary \/ SimulateRows \/ CompareRows
    \/ StopDiagnostic \/ ExchangeInput

DiagnosticSpec == DiagnosticInit /\ [][DiagnosticNext]_diagnosticVars

-----------------------------------------------------------------------------
(* A pass of a run that compiled, or of a verified one on what a compile   *)
(* left that ended undisturbed: the design in place answers, on the image  *)
(* in place, the rows that the reference in place has for every case that  *)
(* was asked for, with its codes, and these have its token.  Whatever else *)
(* the directory held, had been killed in it or was exchanged before.      *)
Trusted ==
    /\ attempt.steady
    /\ Asks(Command, "run-only") => Asks(Command, "verify-cache") /\ settled[Place]
DiagnosticPassIsEarned ==
    attempt.pc = "pass" /\ Trusted =>
        \A j \in Judged(Command, given["reference"]) :
            LET id == given["reference"][j].id
                expected == ExpectedRows(Command, given["reference"])[id]
            IN  /\ ObservedToken(expected.codes) = expected.token
                /\ \E i \in 1..Len(given["reference"]) :
                      LET row == given["reference"][i] IN
                      /\ row.id = id
                      /\ Answers(given["sv"], Memories(given["image"], given["manifest"]), row)
                      /\ Answered(given["sv"], Memories(given["image"], given["manifest"]), row,
                                  Asks(Command, "stop-after-output")) = expected.codes
=============================================================================
