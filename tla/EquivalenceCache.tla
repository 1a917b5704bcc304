--------------------------- MODULE EquivalenceCache ---------------------------
(***************************************************************************)
(* The strict mode of scripts/pipeline/run_rc_sv_equivalence.py: compiling *)
(* a simulator for one set of inputs into a work directory, and running a  *)
(* simulator cached there.                                                 *)
(*                                                                         *)
(* One invocation that compiles (--compile-only, or a full run that also   *)
(* executes what it compiled) and one --run-only invocation may work on    *)
(* the directory at the same time, and each may crash or fail at any step. *)
(* No lock keeps two compiling invocations apart: that there is only one   *)
(* at a time is the callers' discipline (diagnostics/                      *)
(* rc-observable-equivalence.nix), assumed here.                           *)
(*                                                                         *)
(* A file's content is the part of the inputs it is derived from, and its  *)
(* SHA-256 is that content.                                                *)
(***************************************************************************)
EXTENDS Naturals, Sequences, SequencesExt

CONSTANTS
  Sources,      (* contents of the SystemVerilog (with its support_sv)     *)
  Images,       (* contents of the image, its manifest and the source IR   *)
  Tables,       (* contents of the --support-file, the exponential table   *)
  Invocations,  (* bound on the invocations of a behaviour                 *)
  Absent,       (* a file that does not exist                              *)
  Torn          (* a file that is open for writing, or was left so         *)

Design == [sv : Sources, image : Images]

\* What a simulator is built from: the sources in the files main.sv and tb.sv.
Simulator == [main : Sources, tb : Sources]
\* The metadata of a compile: hashes of the inputs, of the files that follow
\* from them, and of the executable.
CompileMetadata ==
  [inputs : Design, bin : Simulator,
   files : [bindings : Design, main : Sources, abi : Sources, mem : Images, tb : Sources]]

ASSUME InvocationsAssumption == Invocations \in Nat \ {0}
ASSUME GapAssumption ==
  {Absent, Torn} \cap (Sources \cup Images \cup Tables \cup Design
                      \cup Simulator \cup CompileMetadata) = {}

\* The files that follow from the inputs (_strict_expected_fixture_artifacts).
Expected(d) == [bindings |-> d, main |-> d.sv, abi |-> d.sv,
                mem |-> d.image, tb |-> d.sv]

\* The files a compiling invocation writes, in order; "cpp" stands for the
\* sources Verilator generates from main.sv and tb.sv.
CompileSteps == <<"table", "bindings", "main", "abi", "mem", "tb",
                  "cpp", "bin", "metadata">>
Files == ToSet(CompileSteps)

\* The cached files a run-only invocation reads, each with the step after it.
StepAfter == [bin |-> "main", main |-> "tb", tb |-> "abi", abi |-> "bindings",
              bindings |-> "mem", mem |-> "execute"]
ReadFiles == DOMAIN StepAfter

VARIABLES
  disk,      (* disk[f]: the content of file f of the work directory       *)
  writer,    (* the compiling invocation, Absent when none runs            *)
  reader,    (* the run-only invocation, Absent when none runs             *)
  receipt,   (* the last receipt written, and what was run for it          *)
  compiled,  (* inputs of the last compile, if it completed, else Absent   *)
  started    (* invocations so far                                         *)

vars == <<disk, writer, reader, receipt, compiled, started>>

Init ==
  /\ disk = [f \in Files |-> Absent]
  /\ writer = Absent
  /\ reader = Absent
  /\ receipt = Absent
  /\ compiled = Absent
  /\ started = 0

-----------------------------------------------------------------------------
(* A compiling invocation.                                                 *)

StartCompile(mode, d, t) ==
  /\ writer = Absent
  /\ started < Invocations
  /\ started' = started + 1
  /\ writer' = [mode |-> mode, design |-> d, table |-> t, step |-> 1, open |-> FALSE]
  /\ compiled' = Absent
  /\ UNCHANGED <<disk, reader, receipt>>

Compiling == writer # Absent /\ writer.step <= Len(CompileSteps)
File == CompileSteps[writer.step]

OpenFile ==
  /\ Compiling
  /\ ~writer.open
  /\ disk' = [disk EXCEPT ![File] = Torn]
  /\ writer' = [writer EXCEPT !.open = TRUE]
  /\ UNCHANGED <<reader, receipt, compiled, started>>

\* Slip: the metadata takes the executable's hash from the sources it should
\* be built from.
BinaryHashExpected(d) == [main |-> d.sv, tb |-> d.image]
BinaryHash(d) == disk.bin

Metadata(d) == [inputs |-> d, files |-> Expected(d), bin |-> BinaryHash(d)]

Produced ==
  CASE File = "table"    -> writer.table
    [] File = "cpp"      -> [main |-> disk.main, tb |-> disk.tb]
    [] File = "bin"      -> disk.cpp
    [] File = "metadata" -> Metadata(writer.design)
    [] OTHER             -> Expected(writer.design)[File]

FillFile ==
  /\ Compiling
  /\ writer.open
  /\ disk' = [disk EXCEPT ![File] = Produced]
  /\ writer' = IF File = "metadata" /\ writer.mode = "compile" THEN Absent
               ELSE [writer EXCEPT !.open = FALSE, !.step = @ + 1]
  /\ compiled' = IF File = "metadata" THEN writer.design ELSE compiled
  /\ UNCHANGED <<reader, receipt, started>>

Receipt(status, invocation, ran) ==
  [status |-> status, design |-> invocation.design,
   table |-> invocation.table, ran |-> ran]
Nothing == [bin |-> Absent, mem |-> Absent, table |-> Absent]

\* A full run executes the files of the work directory, in that directory.
ExecuteCompiled ==
  /\ writer # Absent
  /\ writer.step > Len(CompileSteps)
  /\ \E status \in {"pass", "fail"} :
       receipt' = Receipt(status, writer,
                          [bin |-> disk.bin, mem |-> disk.mem, table |-> disk.table])
  /\ writer' = Absent
  /\ UNCHANGED <<disk, reader, compiled, started>>

FailCompile ==
  /\ writer # Absent
  /\ receipt' = Receipt("fail", writer, Nothing)
  /\ writer' = Absent
  /\ UNCHANGED <<disk, reader, compiled, started>>

CrashCompile ==
  /\ writer # Absent
  /\ writer' = Absent
  /\ UNCHANGED <<disk, reader, receipt, compiled, started>>

-----------------------------------------------------------------------------
(* A run-only invocation: preflight copies the support file, then the      *)
(* metadata and every cached file are compared, and private copies of the  *)
(* executable and the memory files are run in a directory of their own.    *)

StartRunOnly(d, t) ==
  /\ reader = Absent
  /\ started < Invocations
  /\ started' = started + 1
  /\ reader' = [design |-> d, table |-> t, step |-> "preflight",
                metadata |-> Absent, bin |-> Absent, mem |-> Absent]
  /\ UNCHANGED <<disk, writer, receipt, compiled>>

CopyTable ==
  /\ reader # Absent
  /\ reader.step = "preflight"
  /\ disk' = [disk EXCEPT !.table = reader.table]
  /\ reader' = [reader EXCEPT !.step = "metadata"]
  /\ UNCHANGED <<writer, receipt, compiled, started>>

Readable(f) == disk[f] \notin {Absent, Torn}

MetadataMatches(d) == Readable("metadata") /\ disk.metadata.inputs = d

\* Slip: the executable's hash is not compared.
FileMatchesUnlessBinary(f, m, d) ==
  /\ Readable(f)
  /\ f # "bin" => disk[f] = m.files[f] /\ disk[f] = Expected(d)[f]
FileMatches(f, m, d) ==
  /\ Readable(f)
  /\ IF f = "bin" THEN disk.bin = m.bin
     ELSE disk[f] = m.files[f] /\ disk[f] = Expected(d)[f]

LoadMetadata ==
  /\ reader # Absent
  /\ reader.step = "metadata"
  /\ MetadataMatches(reader.design)
  /\ reader' = [reader EXCEPT !.step = "bin", !.metadata = disk.metadata]
  /\ UNCHANGED <<disk, writer, receipt, compiled, started>>

ValidateFile ==
  /\ reader # Absent
  /\ reader.step \in ReadFiles
  /\ FileMatches(reader.step, reader.metadata, reader.design)
  /\ reader' = [reader EXCEPT !.step = StepAfter[reader.step],
                  !.bin = IF reader.step = "bin" THEN disk.bin ELSE @,
                  !.mem = IF reader.step = "mem" THEN disk.mem ELSE @]
  /\ UNCHANGED <<disk, writer, receipt, compiled, started>>

\* Any check may fail, and so may the preflight.
RejectCache ==
  /\ reader # Absent
  /\ \/ reader.step = "preflight"
     \/ reader.step = "metadata" /\ ~MetadataMatches(reader.design)
     \/ /\ reader.step \in ReadFiles
        /\ ~FileMatches(reader.step, reader.metadata, reader.design)
  /\ receipt' = Receipt("fail", reader, Nothing)
  /\ reader' = Absent
  /\ UNCHANGED <<disk, writer, compiled, started>>

\* Slip: the files are run where they are.
InPlace == [bin |-> disk.bin, mem |-> disk.mem, table |-> disk.table]
\* The private directory holds the two payloads and the oracle, nothing else.
Snapshot == [bin |-> reader.bin, mem |-> reader.mem, table |-> Absent]

ExecuteCached ==
  /\ reader # Absent
  /\ reader.step = "execute"
  /\ \E status \in {"pass", "fail"} : receipt' = Receipt(status, reader, Snapshot)
  /\ reader' = Absent
  /\ UNCHANGED <<disk, writer, compiled, started>>

CrashRunOnly ==
  /\ reader # Absent
  /\ reader' = Absent
  /\ UNCHANGED <<disk, writer, receipt, compiled, started>>

Next ==
  \/ \E d \in Design, t \in Tables :
       \/ \E mode \in {"compile", "full"} : StartCompile(mode, d, t)
       \/ StartRunOnly(d, t)
  \/ OpenFile \/ FillFile \/ ExecuteCompiled \/ FailCompile \/ CrashCompile
  \/ CopyTable \/ LoadMetadata \/ ValidateFile
  \/ RejectCache \/ ExecuteCached \/ CrashRunOnly

Spec == Init /\ [][Next]_vars

-----------------------------------------------------------------------------
(* Correctness. *)

Gap == {Absent, Torn}
Built == [main : Sources \cup Gap, tb : Sources \cup Gap]

TypeOK ==
  /\ DOMAIN disk = Files
  /\ disk.table \in Tables \cup Gap /\ disk.bindings \in Design \cup Gap
  /\ \A f \in {"main", "abi", "tb"} : disk[f] \in Sources \cup Gap
  /\ disk.mem \in Images \cup Gap
  /\ disk.cpp \in Built \cup Gap /\ disk.bin \in Built \cup Gap
  /\ Readable("metadata") =>
       disk.metadata.inputs \in Design /\ disk.metadata.bin \in Built
  /\ writer # Absent => writer.step \in 1 .. Len(CompileSteps) + 1
  /\ reader # Absent =>
       reader.step \in {"preflight", "metadata", "execute"} \cup ReadFiles
  /\ receipt # Absent => receipt.status \in {"pass", "fail"}
  /\ compiled \in Design \cup {Absent} /\ started \in 0 .. Invocations

\* A passing receipt was earned by a simulator built from the very sources the
\* receipt names, on the memory of the very image it names: whatever older,
\* crashed, failed or concurrent compile used the directory.
ReceiptIsTrue ==
  receipt # Absent /\ receipt.status = "pass" =>
    /\ receipt.ran.bin = [main |-> receipt.design.sv, tb |-> receipt.design.sv]
    /\ receipt.ran.mem = receipt.design.image

\* What a completed compile leaves is accepted by a run-only invocation for the
\* same inputs, until the next compile starts.
CompletedCompileIsUsable ==
  compiled # Absent =>
    /\ MetadataMatches(compiled)
    /\ \A f \in ReadFiles : FileMatches(f, disk.metadata, compiled)

\* The cache neither vouches for what was not simulated nor turns away what a
\* compile has completed.
CacheIsSound == ReceiptIsTrue /\ CompletedCompileIsUsable

\* A simulator that passes has read the support file its invocation named
\* (rtl/rc-working/rc_exp_table_lookup.sv: "The generated hex image is a
\* support file, not an implicit simulator asset").
SimulatorReadsItsTable ==
  receipt # Absent /\ receipt.status = "pass" => receipt.ran.table = receipt.table
=============================================================================
