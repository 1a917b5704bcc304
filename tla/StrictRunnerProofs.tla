-------------------------- MODULE StrictRunnerProofs --------------------------
(***************************************************************************)
(* Proofs about the strict equivalence runner: its compile cache, the      *)
(* frozen gate, the memory bindings and the diagnostic mode, for every set *)
(* of inputs and every number of invocations, cases and ports.             *)
(***************************************************************************)
EXTENDS EquivalenceCache, FrozenGate, MemoryBindings, DiagnosticRunner, FiniteSetTheorems,
        WellFoundedInduction, TLAPS

-----------------------------------------------------------------------------
(***************************************************************************)
(* The compile cache.                                                      *)
(***************************************************************************)

(***************************************************************************)
(* The inductive invariant says which files can be trusted when.           *)
(***************************************************************************)

\* The simulator of a design, and the metadata of its compile.
SimulatorOf(d) == [main |-> d.sv, tb |-> d.sv]
MetadataOf(d) == [inputs |-> d, files |-> Expected(d), bin |-> SimulatorOf(d)]

\* What a compile of design d has put on disk when it is at step n.
Written(d, n) ==
  /\ n > 2 => disk.bindings = d
  /\ n > 3 => disk.main = d.sv
  /\ n > 4 => disk.abi = d.sv
  /\ n > 5 => disk.mem = d.image
  /\ n > 6 => disk.tb = d.sv
  /\ n > 7 => disk.cpp = SimulatorOf(d)
  /\ n > 8 => disk.bin = SimulatorOf(d)
  /\ n > 9 => disk.metadata = MetadataOf(d)

Writers == [mode : {"compile", "full"}, design : Design, table : Tables,
            step : 1 .. 10, open : BOOLEAN]

WriterInv == writer # Absent => writer \in Writers /\ Written(writer.design, writer.step)

\* Metadata, whenever it was written, is that of a complete compile.
Metadatas == {MetadataOf(d) : d \in Design} \cup {Absent, Torn}
MetadataInv == disk.metadata \in Metadatas

ReaderSteps == {"preflight", "metadata", "execute"} \cup ReadFiles
Readers == [design : Design, table : Tables, step : ReaderSteps, metadata : Metadatas,
            bin : Built \cup Gap, mem : Images \cup Gap]

\* A run-only invocation keeps what it has validated, whatever happens to the
\* files after that.
ReaderInv ==
  reader # Absent =>
    /\ reader \in Readers
    /\ reader.step \notin {"preflight", "metadata"} =>
         reader.metadata = MetadataOf(reader.design)
    /\ reader.step \notin {"preflight", "metadata", "bin"} =>
         reader.bin = SimulatorOf(reader.design)
    /\ reader.step = "execute" => reader.mem = reader.design.image

\* The files of a completed compile stay until the next one starts.
CompiledInv ==
  compiled # Absent =>
    /\ compiled \in Design
    /\ Written(compiled, 10)
    /\ writer # Absent => writer.step = 10

IInv ==
  /\ TypeOK
  /\ WriterInv
  /\ MetadataInv
  /\ ReaderInv
  /\ CompiledInv
  /\ ReceiptIsTrue

-----------------------------------------------------------------------------
(* Names of files and steps. *)

\* The files, and the compile step that writes each.
LEMMA StepNames ==
  /\ Len(CompileSteps) = 9
  /\ CompileSteps[1] = "table" /\ CompileSteps[2] = "bindings" /\ CompileSteps[3] = "main"
  /\ CompileSteps[4] = "abi" /\ CompileSteps[5] = "mem" /\ CompileSteps[6] = "tb"
  /\ CompileSteps[7] = "cpp" /\ CompileSteps[8] = "bin" /\ CompileSteps[9] = "metadata"
BY DEF CompileSteps

\* The nine files of the work directory.
LEMMA FileNames ==
  Files = {"table", "bindings", "main", "abi", "mem", "tb", "cpp", "bin", "metadata"}
<1>1. DOMAIN CompileSteps = 1 .. 9
  BY DEF CompileSteps
<1>2. Files = {CompileSteps[i] : i \in 1 .. 9}
  BY <1>1 DEF Files, ToSet
<1> QED
  BY <1>2, StepNames

\* The six files a run-only invocation reads, and their order.
LEMMA ReadNames ==
  /\ ReadFiles = {"bin", "main", "tb", "abi", "bindings", "mem"}
  /\ StepAfter["bin"] = "main" /\ StepAfter["main"] = "tb" /\ StepAfter["tb"] = "abi"
  /\ StepAfter["abi"] = "bindings" /\ StepAfter["bindings"] = "mem"
  /\ StepAfter["mem"] = "execute"
BY DEF ReadFiles, StepAfter

\* What a design determines has the type of its file.
LEMMA DesignTypes ==
  ASSUME NEW d \in Design
  PROVE  /\ d.sv \in Sources /\ d.image \in Images
         /\ SimulatorOf(d) \in Simulator /\ SimulatorOf(d) \in Built
         /\ MetadataOf(d) \in CompileMetadata
         /\ Expected(d).bindings = d /\ Expected(d).main = d.sv /\ Expected(d).abi = d.sv
         /\ Expected(d).mem = d.image /\ Expected(d).tb = d.sv
BY DEF Design, SimulatorOf, Simulator, Built, MetadataOf, CompileMetadata, Expected

-----------------------------------------------------------------------------
(* The invariant holds in an empty directory and is kept by every step.    *)

\* In an empty directory nothing is trusted.
LEMMA InitIInv == Init => IInv
<1> SUFFICES ASSUME Init PROVE IInv
  OBVIOUS
<1>1. \A f \in Files : disk[f] = Absent
  BY DEF Init
<1>2. TypeOK
  BY <1>1, FileNames, InvocationsAssumption DEF Init, TypeOK, Gap, Readable
<1>3. MetadataInv
  BY <1>1, FileNames DEF MetadataInv, Metadatas
<1> QED
  BY <1>2, <1>3 DEF Init, IInv, WriterInv, ReaderInv, CompiledInv, ReceiptIsTrue

\* Writing one file leaves all others as they are.
LEMMA OneFile ==
  ASSUME TypeOK, NEW f \in Files, NEW v, disk' = [disk EXCEPT ![f] = v]
  PROVE  /\ DOMAIN disk' = Files
         /\ disk'[f] = v
         /\ \A g \in Files : g # f => disk'[g] = disk[g]
BY DEF TypeOK

\* A compiling invocation is at one of the nine files, and none is taken as
\* compiled while it is.
LEMMA CompilingStep ==
  ASSUME IInv, Compiling
  PROVE  /\ writer \in Writers /\ writer.step \in 1 .. 9 /\ File \in Files
         /\ File = CompileSteps[writer.step]
         /\ Written(writer.design, writer.step)
         /\ compiled = Absent
<1>1. writer # Absent /\ writer \in Writers /\ writer.step \in 1 .. 9
  BY StepNames DEF IInv, WriterInv, Writers, Compiling
<1>2. File \in Files /\ File = CompileSteps[writer.step]
  <2>1. DOMAIN CompileSteps = 1 .. 9
    BY DEF CompileSteps
  <2> QED
    BY <1>1, <2>1 DEF File, Files, ToSet
<1> QED
  BY <1>1, <1>2 DEF IInv, WriterInv, CompiledInv

\* What a compiling invocation writes into the file it is at.
LEMMA ProducedFile ==
  ASSUME IInv, Compiling, NEW d, d = writer.design
  PROVE  /\ File = "table" => Produced \in Tables
         /\ File = "bindings" => Produced = d
         /\ File \in {"main", "abi", "tb"} => Produced = d.sv
         /\ File = "mem" => Produced = d.image
         /\ File \in {"cpp", "bin"} => Produced = SimulatorOf(d)
         /\ File = "metadata" => Produced = MetadataOf(d)
<1>1. d \in Design /\ writer.table \in Tables
  BY CompilingStep DEF Writers
<1>2. CASE File = "table"
  BY <1>1, <1>2 DEF Produced
<1>3. CASE File \in {"bindings", "main", "abi", "mem", "tb"}
  BY <1>1, <1>3, DesignTypes DEF Produced
<1>4. CASE File = "cpp"
  <2>1. disk.main = d.sv /\ disk.tb = d.sv
    BY <1>4, CompilingStep, StepNames DEF Written
  <2> QED
    BY <1>4, <2>1 DEF Produced, SimulatorOf
<1>5. CASE File = "bin"
  <2>1. disk.cpp = SimulatorOf(d)
    BY <1>5, CompilingStep, StepNames DEF Written
  <2> QED
    BY <1>5, <2>1 DEF Produced
<1>6. CASE File = "metadata"
  <2>1. disk.bin = SimulatorOf(d)
    BY <1>6, CompilingStep, StepNames DEF Written
  <2> QED
    BY <1>6, <2>1 DEF Produced, Metadata, BinaryHash, MetadataOf
<1> QED
  BY <1>2, <1>3, <1>4, <1>5, <1>6

\* A file that is torn, or filled by its compile, keeps the directory's types.
LEMMA WriteTypes ==
  ASSUME IInv, Compiling, NEW v \in {Torn, Produced}, disk' = [disk EXCEPT ![File] = v]
  PROVE  /\ DOMAIN disk' = Files
         /\ disk'.table \in Tables \cup Gap /\ disk'.bindings \in Design \cup Gap
         /\ \A f \in {"main", "abi", "tb"} : disk'[f] \in Sources \cup Gap
         /\ disk'.mem \in Images \cup Gap
         /\ disk'.cpp \in Built \cup Gap /\ disk'.bin \in Built \cup Gap
         /\ disk'.metadata \in Metadatas
<1> DEFINE d == writer.design
<1>1. d \in Design
  BY CompilingStep DEF Writers
<1>2. TypeOK /\ disk.metadata \in Metadatas
  BY DEF IInv, MetadataInv
<1>3. /\ DOMAIN disk' = Files /\ disk'[File] = v
      /\ \A g \in Files : g # File => disk'[g] = disk[g]
  BY <1>2, OneFile, CompilingStep
<1>4. MetadataOf(d) \in Metadatas /\ Torn \in Metadatas /\ Torn \in Gap
  BY <1>1 DEF Metadatas, Gap
<1>5. /\ File = "table" => v \in Tables \cup Gap
      /\ File = "bindings" => v \in Design \cup Gap
      /\ File \in {"main", "abi", "tb"} => v \in Sources \cup Gap
      /\ File = "mem" => v \in Images \cup Gap
      /\ File \in {"cpp", "bin"} => v \in Built \cup Gap
      /\ File = "metadata" => v \in Metadatas
  BY <1>1, <1>4, ProducedFile, DesignTypes
<1> QED
  BY <1>2, <1>3, <1>5, FileNames DEF TypeOK

\* Metadata that can be read are of the type the type invariant asks for.
LEMMA MetadataTypes ==
  ASSUME NEW m \in Metadatas, m \notin {Absent, Torn}
  PROVE  m.inputs \in Design /\ m.bin \in Built
<1>1. PICK d \in Design : m = MetadataOf(d)
  BY DEF Metadatas
<1> QED
  BY <1>1, DesignTypes DEF MetadataOf

\* An invocation that starts to compile disowns what was compiled before.
LEMMA StartCompileIInv ==
  ASSUME IInv, NEW mode \in {"compile", "full"}, NEW d \in Design, NEW t \in Tables,
         StartCompile(mode, d, t)
  PROVE  IInv'
<1>1. writer' \in Writers /\ writer'.step = 1
  BY DEF StartCompile, Writers
<1>2. WriterInv'
  BY <1>1 DEF WriterInv, Written
<1>3. TypeOK'
  BY <1>1, StepNames, InvocationsAssumption DEF IInv, TypeOK, StartCompile, Readable
<1> QED
  BY <1>2, <1>3 DEF IInv, MetadataInv, ReaderInv, CompiledInv, ReceiptIsTrue, StartCompile

\* Opening a file tears only the file itself, which nobody trusts any more.
LEMMA OpenFileIInv == ASSUME IInv, OpenFile PROVE IInv'
<1> USE CompilingStep DEF OpenFile
<1>1. /\ writer' \in Writers /\ writer'.step = writer.step /\ writer'.design = writer.design
      /\ UNCHANGED <<reader, receipt, compiled, started>>
  BY DEF Writers
<1>2. \A g \in Files : g # File => disk'[g] = disk[g]
  BY OneFile DEF IInv
<1>3. Written(writer.design, writer.step)'
  BY <1>1, <1>2, FileNames, StepNames DEF Written
<1>4. TypeOK' /\ MetadataInv'
  BY <1>1, WriteTypes, MetadataTypes, StepNames DEF IInv, TypeOK, MetadataInv, Writers, Readable
<1> QED
  BY <1>1, <1>3, <1>4 DEF IInv, WriterInv, ReaderInv, CompiledInv, ReceiptIsTrue

\* Filling a file puts there what its design determines.
LEMMA FillFileIInv == ASSUME IInv, FillFile PROVE IInv'
<1> USE CompilingStep DEF FillFile
<1> DEFINE d == writer.design
<1>1. /\ \A g \in Files : g # File => disk'[g] = disk[g]
      /\ disk'[File] = Produced
  BY OneFile DEF IInv
<1>2. d \in Design /\ UNCHANGED <<reader, receipt, started>>
  BY DEF Writers
<1>3. /\ \/ writer' = Absent
         \/ writer' \in Writers /\ writer'.step = writer.step + 1 /\ writer'.design = d
      /\ compiled' = IF writer.step = 9 THEN d ELSE Absent
  <2>1. File = "metadata" <=> writer.step = 9
    BY StepNames
  <2>2. [writer EXCEPT !.open = FALSE, !.step = @ + 1] \in Writers
    <3>1. writer.step + 1 \in 1 .. 10
      OBVIOUS
    <3>2. [writer EXCEPT !.step = writer.step + 1] \in Writers
      BY <3>1 DEF Writers
    <3> QED
      BY <3>2 DEF Writers
  <2>3. [writer EXCEPT !.open = FALSE, !.step = @ + 1].step = writer.step + 1
    BY DEF Writers
  <2>4. [writer EXCEPT !.open = FALSE, !.step = @ + 1].design = d
    BY DEF Writers
  <2> QED
    BY <2>1, <2>2, <2>3, <2>4
<1>4. \A n \in 1 .. 10 : n = writer.step + 1 =>
        /\ n > 2 => disk'.bindings = d
        /\ n > 3 => disk'.main = d.sv
        /\ n > 4 => disk'.abi = d.sv
        /\ n > 5 => disk'.mem = d.image
        /\ n > 6 => disk'.tb = d.sv
        /\ n > 7 => disk'.cpp = SimulatorOf(d)
        /\ n > 8 => disk'.bin = SimulatorOf(d)
        /\ n > 9 => disk'.metadata = MetadataOf(d)
  BY <1>1, FileNames, StepNames, ProducedFile DEF Written
<1>5. WriterInv' /\ CompiledInv'
  BY <1>2, <1>3, <1>4 DEF WriterInv, CompiledInv, Written
<1>6. MetadataInv'
  BY WriteTypes DEF MetadataInv
<1>7. TypeOK'
  <2>1. compiled' \in Design \cup {Absent}
    BY <1>2, <1>3
  <2>2. writer' # Absent => writer'.step \in 1 .. Len(CompileSteps) + 1
    BY <1>3, StepNames
  <2>3. Readable("metadata")' => disk'.metadata.inputs \in Design /\ disk'.metadata.bin \in Built
    BY WriteTypes, MetadataTypes DEF Readable
  <2> QED
    BY <1>2, <2>1, <2>2, <2>3, WriteTypes DEF IInv, TypeOK
<1> QED
  BY <1>2, <1>5, <1>6, <1>7 DEF IInv, ReaderInv, ReceiptIsTrue

\* A full run's receipt names the design whose files it has just written.
LEMMA ExecuteCompiledIInv == ASSUME IInv, ExecuteCompiled PROVE IInv'
<1>1. writer \in Writers /\ writer.step = 10 /\ Written(writer.design, 10)
  BY StepNames DEF IInv, WriterInv, ExecuteCompiled, Writers
<1>2. disk.bin = SimulatorOf(writer.design) /\ disk.mem = writer.design.image
  BY <1>1 DEF Written
<1>3. ReceiptIsTrue' /\ (receipt' # Absent => receipt'.status \in {"pass", "fail"})
  BY <1>2 DEF ReceiptIsTrue, ExecuteCompiled, Receipt, SimulatorOf
<1> QED
  BY <1>3 DEF IInv, TypeOK, WriterInv, MetadataInv, ReaderInv, CompiledInv, ExecuteCompiled,
     Written, Readable

\* A compile that fails or crashes leaves its files, and at most a failing receipt.
LEMMA EndCompileIInv == ASSUME IInv, FailCompile \/ CrashCompile PROVE IInv'
<1>1. ReceiptIsTrue' /\ (receipt' # Absent => receipt'.status \in {"pass", "fail"})
  BY DEF IInv, TypeOK, ReceiptIsTrue, FailCompile, CrashCompile, Receipt
<1> QED
  BY <1>1 DEF IInv, TypeOK, WriterInv, MetadataInv, ReaderInv, CompiledInv, FailCompile,
     CrashCompile, Written, Readable

-----------------------------------------------------------------------------
(* The run-only invocation. *)

\* A step that leaves the files, the compile and the counters needs a word on
\* the run-only invocation and the receipt only.
LEMMA FilesQuiet ==
  ASSUME IInv, UNCHANGED <<disk, writer, compiled, started>>, ReaderInv', ReceiptIsTrue',
         reader' # Absent => reader'.step \in {"preflight", "metadata", "execute"} \cup ReadFiles,
         receipt' # Absent => receipt'.status \in {"pass", "fail"}
  PROVE  IInv'
<1>1. TypeOK'
  BY DEF IInv, TypeOK, Readable
<1>2. WriterInv'
  BY DEF IInv, WriterInv, Written
<1>3. MetadataInv' /\ CompiledInv'
  BY DEF IInv, MetadataInv, CompiledInv, Written
<1> QED
  BY <1>1, <1>2, <1>3 DEF IInv

\* It starts with nothing read.
LEMMA StartRunOnlyIInv ==
  ASSUME IInv, NEW d \in Design, NEW t \in Tables, StartRunOnly(d, t)
  PROVE  IInv'
<1>1. reader' \in Readers /\ reader'.step = "preflight"
  BY DEF StartRunOnly, Readers, ReaderSteps, Metadatas, Gap
<1>2. ReaderInv'
  BY <1>1 DEF ReaderInv
<1>3. TypeOK'
  BY <1>1, InvocationsAssumption DEF IInv, TypeOK, StartRunOnly, Readable
<1> QED
  BY <1>2, <1>3 DEF IInv, WriterInv, MetadataInv, CompiledInv, ReceiptIsTrue, StartRunOnly,
     Written

\* Its support file is not a file any other check depends on.
LEMMA CopyTableIInv == ASSUME IInv, CopyTable PROVE IInv'
<1>1. reader \in Readers
  BY DEF IInv, ReaderInv, CopyTable
<1>2. /\ DOMAIN disk' = Files /\ disk'.table = reader.table
      /\ \A g \in Files : g # "table" => disk'[g] = disk[g]
  BY OneFile, FileNames DEF IInv, CopyTable
<1>3. reader' \in Readers /\ reader'.step = "metadata"
  BY <1>1 DEF CopyTable, Readers, ReaderSteps
<1>4. TypeOK'
  BY <1>1, <1>2, <1>3, FileNames DEF IInv, TypeOK, CopyTable, Readers, Readable
<1> QED
  BY <1>2, <1>3, <1>4, FileNames DEF IInv, WriterInv, MetadataInv, ReaderInv, CompiledInv,
     ReceiptIsTrue, CopyTable, Written

\* The metadata it accepts are those of a complete compile of its own design.
LEMMA LoadMetadataIInv == ASSUME IInv, LoadMetadata PROVE IInv'
<1>1. reader # Absent /\ reader \in Readers
  BY DEF IInv, ReaderInv, LoadMetadata
<1>2. disk.metadata = MetadataOf(reader.design)
  BY DEF IInv, MetadataInv, Metadatas, LoadMetadata, MetadataMatches, Readable, MetadataOf
<1>3. /\ reader' \in Readers /\ reader'.step = "bin" /\ reader'.design = reader.design
      /\ reader'.metadata = disk.metadata
  BY <1>1, ReadNames DEF IInv, MetadataInv, LoadMetadata, Readers, ReaderSteps
<1>4. ReaderInv'
  BY <1>2, <1>3 DEF ReaderInv
<1>5. TypeOK'
  BY <1>3 DEF IInv, TypeOK, Readers, ReaderSteps, LoadMetadata, Readable
<1> QED
  BY <1>4, <1>5 DEF IInv, WriterInv, MetadataInv, CompiledInv, ReceiptIsTrue, LoadMetadata,
     Written

\* A file it accepts is its design's, and the payloads are kept.
LEMMA ValidateFileIInv == ASSUME IInv, ValidateFile PROVE IInv'
<1>1. /\ reader # Absent /\ reader \in Readers /\ reader.step \in ReadFiles
      /\ reader.metadata = MetadataOf(reader.design)
  BY ReadNames DEF IInv, ReaderInv, ValidateFile
<1>2. /\ reader.step = "bin" => disk.bin = SimulatorOf(reader.design)
      /\ reader.step = "mem" => disk.mem = reader.design.image
  BY <1>1, DesignTypes DEF ValidateFile, FileMatches, MetadataOf, Readers
<1>3. disk.bin \in Built \cup Gap /\ disk.mem \in Images \cup Gap
  BY DEF IInv, TypeOK
<1>4. /\ reader' \in Readers /\ reader'.step = StepAfter[reader.step]
      /\ reader'.design = reader.design /\ reader'.metadata = reader.metadata
      /\ reader'.bin = (IF reader.step = "bin" THEN disk.bin ELSE reader.bin)
      /\ reader'.mem = (IF reader.step = "mem" THEN disk.mem ELSE reader.mem)
  <2> DEFINE step == StepAfter[reader.step]
             bin  == IF reader.step = "bin" THEN disk.bin ELSE reader.bin
             mem  == IF reader.step = "mem" THEN disk.mem ELSE reader.mem
  <2>1. step \in ReaderSteps
    BY <1>1, ReadNames DEF ReaderSteps
  <2>2. bin \in Built \cup Gap /\ mem \in Images \cup Gap
    BY <1>1, <1>3 DEF Readers
  <2>3. reader' = [reader EXCEPT !.step = step, !.bin = bin, !.mem = mem]
    BY DEF ValidateFile
  <2> HIDE DEF step, bin, mem
  <2>4. /\ reader' \in Readers /\ reader'.step = step /\ reader'.bin = bin /\ reader'.mem = mem
        /\ reader'.design = reader.design /\ reader'.metadata = reader.metadata
    BY <1>1, <2>1, <2>2, <2>3 DEF Readers
  <2> QED
    BY <2>4 DEF step, bin, mem
<1>5. ReaderInv'
  <2>1. CASE reader.step = "bin"
    BY <1>1, <1>2, <1>4, <2>1, ReadNames DEF ReaderInv
  <2>2. CASE reader.step = "mem"
    BY <1>1, <1>2, <1>4, <2>2, ReadNames DEF IInv, ReaderInv
  <2>3. CASE reader.step \notin {"bin", "mem"}
    BY <1>1, <1>4, <2>3, ReadNames DEF IInv, ReaderInv
  <2> QED
    BY <2>1, <2>2, <2>3
<1>6. UNCHANGED <<disk, writer, receipt, compiled, started>>
  BY DEF ValidateFile
<1>7. ReceiptIsTrue' /\ (receipt' # Absent => receipt'.status \in {"pass", "fail"})
  BY <1>6 DEF IInv, TypeOK, ReceiptIsTrue
<1>8. reader'.step \in {"preflight", "metadata", "execute"} \cup ReadFiles
  BY <1>4 DEF Readers, ReaderSteps
<1> QED
  BY <1>5, <1>6, <1>7, <1>8, FilesQuiet

\* The private copies that are executed are the payloads it validated.
LEMMA ExecuteCachedIInv == ASSUME IInv, ExecuteCached PROVE IInv'
<1>1. reader.bin = SimulatorOf(reader.design) /\ reader.mem = reader.design.image
  BY DEF IInv, ReaderInv, ExecuteCached
<1>2. ReceiptIsTrue' /\ (receipt' # Absent => receipt'.status \in {"pass", "fail"})
  BY <1>1 DEF ReceiptIsTrue, ExecuteCached, Receipt, Snapshot, SimulatorOf
<1>3. reader' = Absent /\ UNCHANGED <<disk, writer, compiled, started>>
  BY DEF ExecuteCached
<1>4. ReaderInv'
  BY <1>3 DEF ReaderInv
<1> QED
  BY <1>2, <1>3, <1>4, FilesQuiet

\* A run-only invocation that rejects the cache or crashes changes no file.
LEMMA EndRunOnlyIInv == ASSUME IInv, RejectCache \/ CrashRunOnly PROVE IInv'
<1>1. ReceiptIsTrue' /\ (receipt' # Absent => receipt'.status \in {"pass", "fail"})
  BY DEF IInv, TypeOK, ReceiptIsTrue, RejectCache, CrashRunOnly, Receipt
<1>2. reader' = Absent /\ UNCHANGED <<disk, writer, compiled, started>>
  BY DEF RejectCache, CrashRunOnly
<1>3. ReaderInv'
  BY <1>2 DEF ReaderInv
<1> QED
  BY <1>1, <1>2, <1>3, FilesQuiet

\* Every step of either invocation keeps the invariant.
LEMMA NextIInv == IInv /\ [Next]_vars => IInv'
<1> SUFFICES ASSUME IInv, [Next]_vars PROVE IInv'
  OBVIOUS
<1>1. CASE UNCHANGED vars
  BY <1>1 DEF vars, IInv, TypeOK, WriterInv, MetadataInv, ReaderInv, CompiledInv,
     ReceiptIsTrue, Written, Readable
<1>2. CASE Next
  BY <1>2, StartCompileIInv, StartRunOnlyIInv, OpenFileIInv, FillFileIInv, ExecuteCompiledIInv,
     EndCompileIInv, CopyTableIInv, LoadMetadataIInv, ValidateFileIInv, ExecuteCachedIInv,
     EndRunOnlyIInv DEF Next
<1> QED
  BY <1>1, <1>2

-----------------------------------------------------------------------------
(* The theorems. *)

\* The directory and the two invocations always satisfy the invariant.
LEMMA InductiveInvariant == Spec => []IInv
BY InitIInv, NextIInv, PTL DEF Spec

\* Every file holds a content of its own kind, or is absent or torn.
THEOREM TypeCorrect == Spec => []TypeOK
<1>1. IInv => TypeOK
  BY DEF IInv
<1> QED
  BY <1>1, InductiveInvariant, PTL

\* A passing receipt names the sources its simulator was built from and the
\* image its memories were filled from, whatever compile crashed, failed or was
\* running meanwhile; and what a completed compile leaves is accepted for the
\* same inputs.
THEOREM CacheStaysSound == Spec => []CacheIsSound
<1>1. ASSUME IInv, compiled # Absent
      PROVE  /\ MetadataMatches(compiled)
             /\ \A f \in ReadFiles : FileMatches(f, disk.metadata, compiled)
  <2>1. compiled \in Design /\ Written(compiled, 10)
    BY <1>1 DEF IInv, CompiledInv
  <2>2. disk.metadata = MetadataOf(compiled) /\ disk.bin = SimulatorOf(compiled)
    BY <2>1 DEF Written
  <2>3. \A f \in {"main", "tb", "abi", "bindings", "mem"} : disk[f] = Expected(compiled)[f]
    BY <2>1, DesignTypes DEF Written
  <2>4. \A f \in ReadFiles \cup {"metadata"} : Readable(f)
    BY <2>1, <2>2, <2>3, ReadNames, DesignTypes, GapAssumption DEF Readable
  <2> QED
    BY <2>2, <2>3, <2>4, ReadNames DEF MetadataMatches, FileMatches, MetadataOf
<1>2. IInv => CacheIsSound
  BY <1>1 DEF CacheIsSound, CompletedCompileIsUsable, IInv
<1> QED
  BY <1>2, InductiveInvariant, PTL

-----------------------------------------------------------------------------
(***************************************************************************)
(* The frozen gate.  A receipt is mixed when a part of it is not of its own *)
(* run; fewer are mixed than there are, so that one that is as it was      *)
(* written tells the build of all that agree with it.                      *)
(***************************************************************************)

Fields == {"proof", "abi", "bindings", "inputs", "sv", "fixture", "configuration",
           "cacheIdentity", "cacheHashes", "runner", "simulator", "bound", "status", "oracle", "cases"}

Parts == {q[f] : q \in UNION {RunReceipts(name) : name \in Names}, f \in Fields}
Mixtures(name) ==
    {r \in [Fields -> Parts] : \A f \in Fields : \E q \in RunReceipts(name) : r[f] = q[f]}
Receipts == UNION {Mixtures(name) : name \in Names}

LEMMA ReceiptFields ==
  ASSUME NEW b, NEW status, NEW cases, NEW cycles
  PROVE  LET r == StrictReceipt(b, status, cases, cycles) IN
         /\ DOMAIN r = Fields
         /\ r = [f \in Fields |-> r[f]]
  BY DEF StrictReceipt, Fields

LEMMA RunIsAMixture ==
  ASSUME NEW name \in Names
  PROVE  RunReceipts(name) \subseteq Mixtures(name)
  <1>1. SUFFICES ASSUME NEW r \in RunReceipts(name) PROVE r \in Mixtures(name)
    OBVIOUS
  <1>2. DOMAIN r = Fields /\ r = [f \in Fields |-> r[f]]
    BY ReceiptFields DEF RunReceipts
  <1>3. \A f \in Fields : r[f] \in Parts
    BY DEF Parts
  <1>4. r \in [Fields -> Parts]
    BY <1>2, <1>3
  <1>5. QED
    BY <1>4 DEF Mixtures
(* What a build determines of a receipt, whatever was simulated.           *)
OfBuild(r, b) ==
    /\ r.proof = b.proof
    /\ \A cases, cycles : \A f \in ProvenanceFields :
         r[f] = StrictReceipt(b, "pass", cases, cycles)[f]

LEMMA FieldsSplit ==
  Fields = {"proof", "status", "oracle", "cases"} \cup ProvenanceFields
  BY DEF Fields, ProvenanceFields, SlipFields

LEMMA RunIsOfItsBuild ==
  ASSUME NEW b, NEW status, NEW cases, NEW cycles
  PROVE  OfBuild(StrictReceipt(b, status, cases, cycles), b)
  BY DEF OfBuild, StrictReceipt, ProvenanceFields, SlipFields

LEMMA WholeReceipt ==
  ASSUME NEW r, r = [f \in Fields |-> r[f]], NEW b, NEW cases, NEW cycles, OfBuild(r, b),
         r.status = "pass",
         r.oracle = [n \in DOMAIN cases |-> Shard(cases[n], b)],
         r.cases = [n \in DOMAIN cases |-> PassedCase(Shard(cases[n], b), cycles, n)]
  PROVE  r = StrictReceipt(b, "pass", cases, cycles)
  <1> DEFINE q == StrictReceipt(b, "pass", cases, cycles)
  <1>1. q = [f \in Fields |-> q[f]]
    BY ReceiptFields
  <1>2. \A f \in ProvenanceFields : r[f] = q[f]
    BY DEF OfBuild
  <1>3. r["proof"] = q["proof"] /\ r["status"] = q["status"]
    BY DEF OfBuild, StrictReceipt
  <1>4. r["oracle"] = q["oracle"] /\ r["cases"] = q["cases"]
    BY DEF StrictReceipt
  <1>5. \A f \in Fields : r[f] = q[f]
    BY <1>2, <1>3, <1>4, FieldsSplit
  <1> HIDE DEF q
  <1>6. r = q
    BY <1>1, <1>5
  <1>7. QED
    BY <1>6 DEF q

(* A part of a receipt is a part of some run of its cases.                 *)
LEMMA MixedParts ==
  ASSUME NEW name \in Names, NEW r \in Mixtures(name)
  PROVE  /\ r = [f \in Fields |-> r[f]]
         /\ \E b \in Builds : r.inputs = [f \in InputNames |-> b[f]]
         /\ \E b \in Builds :
              r.oracle = [n \in DOMAIN CasesOf(name) |-> Shard(CasesOf(name)[n], b)]
         /\ \E b \in Builds : \E cycles \in Latencies :
              r.cases = [n \in DOMAIN CasesOf(name) |->
                           PassedCase(Shard(CasesOf(name)[n], b), cycles, n)]
  <1>1. r = [f \in Fields |-> r[f]]
    BY DEF Mixtures
  <1>2. \A f \in Fields : \E b \in Builds : \E status \in {"pass", "fail"} : \E cycles \in Latencies :
          r[f] = StrictReceipt(b, status, CasesOf(name), cycles)[f]
    BY DEF Mixtures, RunReceipts
  <1>3. \E b \in Builds : r.inputs = [f \in InputNames |-> b[f]]
    <2>1. "inputs" \in Fields
      BY DEF Fields
    <2>2. QED
      BY <1>2, <2>1 DEF StrictReceipt
  <1>4. \E b \in Builds :
              r.oracle = [n \in DOMAIN CasesOf(name) |-> Shard(CasesOf(name)[n], b)]
    <2>1. "oracle" \in Fields
      BY DEF Fields
    <2>2. QED
      BY <1>2, <2>1 DEF StrictReceipt
  <1>5. \E b \in Builds : \E cycles \in Latencies :
              r.cases = [n \in DOMAIN CasesOf(name) |->
                           PassedCase(Shard(CasesOf(name)[n], b), cycles, n)]
    <2>1. "cases" \in Fields
      BY DEF Fields
    <2>2. QED
      BY <1>2, <2>1 DEF StrictReceipt
  <1>6. QED
    BY <1>1, <1>3, <1>4, <1>5

LEMMA CaseMixture ==
  ASSUME NEW name \in CaseNames, NEW r \in Mixtures(name)
  PROVE  /\ \E b \in Builds : r.oracle = <<Shard(name, b)>>
         /\ \E b \in Builds : \E cycles \in Latencies :
              r.cases = <<PassedCase(Shard(name, b), cycles, 1)>>
  <1>1. CasesOf(name) = <<name>> /\ name \in Names
    BY FrozenAssumption DEF CasesOf, Names
  <1>2. DOMAIN <<name>> = {1} /\ <<name>>[1] = name
    OBVIOUS
  <1>3. PICK b \in Builds : r.oracle = [n \in DOMAIN CasesOf(name) |-> Shard(CasesOf(name)[n], b)]
    BY <1>1, MixedParts
  <1>4. r.oracle = [n \in {1} |-> Shard(name, b)]
    BY <1>1, <1>2, <1>3
  <1>5. PICK c \in Builds, cycles \in Latencies :
          r.cases = [n \in DOMAIN CasesOf(name) |->
                       PassedCase(Shard(CasesOf(name)[n], c), cycles, n)]
    BY <1>1, MixedParts
  <1>6. r.cases = [n \in {1} |-> PassedCase(Shard(name, c), cycles, n)]
    BY <1>1, <1>2, <1>5
  <1>7. \A x : [n \in {1} |-> x] = <<x>>
    OBVIOUS
  <1>8. r.oracle = <<Shard(name, b)>>
    BY <1>4, <1>7
  <1>9. [n \in {1} |-> PassedCase(Shard(name, c), cycles, n)]
        = [n \in {1} |-> PassedCase(Shard(name, c), cycles, 1)]
    OBVIOUS
  <1>10. r.cases = <<PassedCase(Shard(name, c), cycles, 1)>>
    BY <1>6, <1>7, <1>9
  <1>11. QED
    BY <1>8, <1>10

LEMMA SequenceMixture ==
  ASSUME NEW r \in Mixtures(Sequence)
  PROVE  /\ \E b \in Builds : r.oracle = [n \in DOMAIN Cases |-> Shard(Cases[n], b)]
         /\ \E b \in Builds : \E cycles \in Latencies :
              r.cases = [n \in DOMAIN Cases |-> PassedCase(Shard(Cases[n], b), cycles, n)]
  <1>1. CasesOf(Sequence) = Cases /\ Sequence \in Names
    BY DEF CasesOf, Names
  <1>2. PICK b \in Builds : r.oracle = [n \in DOMAIN CasesOf(Sequence) |-> Shard(CasesOf(Sequence)[n], b)]
    BY <1>1, MixedParts
  <1>3. PICK c \in Builds, cycles \in Latencies :
          r.cases = [n \in DOMAIN CasesOf(Sequence) |->
                       PassedCase(Shard(CasesOf(Sequence)[n], c), cycles, n)]
    BY <1>1, MixedParts
  <1>4. r.oracle = [n \in DOMAIN Cases |-> Shard(Cases[n], b)]
    BY <1>1, <1>2
  <1>5. r.cases = [n \in DOMAIN Cases |-> PassedCase(Shard(Cases[n], c), cycles, n)]
    BY <1>1, <1>3
  <1>6. QED
    BY <1>4, <1>5

(* A receipt that none of the mixed ones is, is as its run wrote it.       *)
AsWritten(name, r, mixed) ==
    r \in Mixtures(name) /\ (name \notin mixed => r \in RunReceipts(name))

LEMMA AgreedIsOneBuild ==
  ASSUME NEW names \in Seq(CaseNames), NEW fresh, NEW sequential, NEW p,
         NEW C \in SUBSET Names, C # Names,
         \A n \in DOMAIN names : AsWritten(names[n], fresh[names[n]], C),
         AsWritten(Sequence, sequential, C),
         Agree(names, fresh, sequential, p)
  PROVE  \E b \in Builds : \E cycles \in Latencies :
           /\ b.proof = p
           /\ \A n \in DOMAIN names :
                fresh[names[n]] = StrictReceipt(b, "pass", <<names[n]>>, cycles)
           /\ sequential = StrictReceipt(b, "pass", names, cycles)
  <1>0. /\ sequential \in Mixtures(Sequence)
        /\ \A n \in DOMAIN names : fresh[names[n]] \in Mixtures(names[n])
        /\ \A n \in DOMAIN names : names[n] \notin C => fresh[names[n]] \in RunReceipts(names[n])
        /\ Sequence \notin C => sequential \in RunReceipts(Sequence)
    BY DEF AsWritten
  <1> DEFINE Fresh(n) == fresh[names[n]]
  <1>1. PICK bo \in Builds : sequential.oracle = [n \in DOMAIN Cases |-> Shard(Cases[n], bo)]
    BY SequenceMixture, <1>0
  <1>2. PICK bc \in Builds, cycles \in Latencies :
          sequential.cases = [n \in DOMAIN Cases |-> PassedCase(Shard(Cases[n], bc), cycles, n)]
    BY SequenceMixture, <1>0
  <1>3. names = Cases
    <2> Cases \in Seq(CaseNames)
      BY FrozenAssumption
    <2>1. Len(sequential.oracle) = Len(names) /\ Len(sequential.oracle) = Len(Cases)
      BY <1>1, FrozenAssumption DEF Agree
    <2>5. DOMAIN names = 1..Len(names) /\ names = [n \in 1..Len(names) |-> names[n]]
      OBVIOUS
    <2>6. DOMAIN Cases = 1..Len(Cases) /\ Cases = [n \in 1..Len(Cases) |-> Cases[n]]
      OBVIOUS
    <2>7. DOMAIN names = DOMAIN Cases
      BY <2>1, <2>5, <2>6, Zenon
    <2>2. ASSUME NEW n \in DOMAIN names PROVE names[n] = Cases[n]
      <3>1. PICK b \in Builds : Fresh(n).oracle = <<Shard(names[n], b)>>
        BY CaseMixture, <1>0
      <3>2. Fresh(n).oracle = <<sequential.oracle[n]>>
        BY DEF Agree
      <3>3. Shard(names[n], b) = sequential.oracle[n]
        BY <3>1, <3>2
      <3>4. n \in DOMAIN Cases
        BY <2>7
      <3>5. Shard(names[n], b) = Shard(Cases[n], bo)
        BY <3>3, <3>4, <1>1
      <3>6. QED
        BY <3>5 DEF Shard
    <2>3. QED
      BY <2>1, <2>2, <2>5, <2>6
  <1>4. \E b \in Builds : OfBuild(sequential, b)
                          /\ \E k \in DOMAIN Cases : sequential.cases[k].shard = Shard(Cases[k], b)
    <2>1. CASE Sequence \notin C
      <3>1. PICK b \in Builds, status \in {"pass", "fail"}, c \in Latencies :
              sequential = StrictReceipt(b, status, CasesOf(Sequence), c)
        BY <2>1, <1>0 DEF RunReceipts
      <3>2. CasesOf(Sequence) = Cases
        BY DEF CasesOf
      <3>3. OfBuild(sequential, b)
        BY <3>1, RunIsOfItsBuild
      <3>4. sequential.cases = [n \in DOMAIN Cases |-> PassedCase(Shard(Cases[n], b), c, n)]
        BY <3>1, <3>2 DEF StrictReceipt
      <3>5. 1 \in DOMAIN Cases
        BY FrozenAssumption
      <3>6. sequential.cases[1].shard = Shard(Cases[1], b)
        BY <3>4, <3>5 DEF PassedCase
      <3>7. QED
        BY <3>3, <3>5, <3>6
    <2>2. CASE Sequence \in C
      <3>1. PICK k \in DOMAIN Cases : Cases[k] \notin C
        BY <2>2 DEF Names, CaseNames
      <3>2. Fresh(k) \in RunReceipts(Cases[k])
        BY <3>1, <1>3, <1>0
      <3>3. PICK b \in Builds, status \in {"pass", "fail"}, c \in Latencies :
              Fresh(k) = StrictReceipt(b, status, CasesOf(Cases[k]), c)
        BY <3>2 DEF RunReceipts
      <3>4. OfBuild(Fresh(k), b)
        BY <3>3, RunIsOfItsBuild
      <3>5. \A f \in ProvenanceFields : Fresh(k)[f] = sequential[f]
        BY <1>3 DEF Agree
      <3>6. Fresh(k).proof = sequential.proof
        BY <1>3 DEF Agree, Consistent
      <3>7. OfBuild(sequential, b)
        BY <3>4, <3>5, <3>6 DEF OfBuild
      <3>8. CasesOf(Cases[k]) = <<Cases[k]>>
        BY FrozenAssumption DEF CasesOf, CaseNames
      <3>9. Fresh(k).cases[1].shard = Shard(Cases[k], b)
        BY <3>3, <3>8 DEF StrictReceipt, PassedCase
      <3>10. sequential.cases[k].shard = Shard(Cases[k], b)
        BY <3>9, <1>3 DEF Agree
      <3>11. QED
        BY <3>7, <3>10
    <2>3. QED
      BY <2>1, <2>2
  <1>5. PICK b \in Builds : OfBuild(sequential, b)
                           /\ \E k \in DOMAIN Cases : sequential.cases[k].shard = Shard(Cases[k], b)
    BY <1>4
  <1>6. sequential.inputs = [f \in InputNames |-> b[f]]
    BY <1>5 DEF OfBuild, StrictReceipt, ProvenanceFields, SlipFields
  <1>7. sequential.oracle = [n \in DOMAIN Cases |-> Shard(Cases[n], b)]
    <2>1. ASSUME NEW n \in DOMAIN Cases PROVE Shard(Cases[n], bo) = Shard(Cases[n], b)
      <3>1. sequential.oracle[n].image = sequential.inputs["image"]
            /\ sequential.oracle[n].manifest = sequential.inputs["manifest"]
        BY <1>1 DEF Agree, Consistent, BindsItsInputs
      <3>2. sequential.oracle[n] = Shard(Cases[n], bo)
        BY <1>1
      <3>3. bo.image = b.image /\ bo.manifest = b.manifest
        BY <3>1, <3>2, <1>6 DEF Shard, InputNames
      <3>4. QED
        BY <3>3 DEF Shard
    <2>2. QED
      BY <2>1, <1>1
  <1>8. \A n : Shard(Cases[n], bc) = Shard(Cases[n], b)
    <2>1. PICK k \in DOMAIN Cases : sequential.cases[k].shard = Shard(Cases[k], b)
      BY <1>5
    <2>2. Shard(Cases[k], bc) = Shard(Cases[k], b)
      BY <2>1, <1>2 DEF PassedCase
    <2>3. bc.image = b.image /\ bc.manifest = b.manifest
      BY <2>2 DEF Shard
    <2>4. QED
      BY <2>3 DEF Shard
  <1>9. sequential.cases = [n \in DOMAIN Cases |-> PassedCase(Shard(Cases[n], b), cycles, n)]
    BY <1>2, <1>8
  <1>10. sequential = StrictReceipt(b, "pass", Cases, cycles)
    <2>1. sequential = [f \in Fields |-> sequential[f]]
      BY <1>0 DEF Mixtures
    <2>2. sequential.status = "pass"
      BY DEF Agree
    <2>3. QED
      BY <2>1, <2>2, <1>5, <1>7, <1>9, WholeReceipt
  <1>11. b.proof = p
    BY <1>5 DEF OfBuild, Agree, Consistent
  <1>12. ASSUME NEW n \in DOMAIN names
         PROVE  Fresh(n) = StrictReceipt(b, "pass", <<names[n]>>, cycles)
    <2>1. Fresh(n) = [f \in Fields |-> Fresh(n)[f]] /\ Fresh(n).status = "pass"
      BY <1>0 DEF Mixtures, Agree
    <2>2. \A f \in ProvenanceFields : Fresh(n)[f] = sequential[f]
      BY DEF Agree
    <2>3. Fresh(n).proof = sequential.proof
      BY DEF Agree, Consistent
    <2>4. OfBuild(Fresh(n), b)
      BY <2>2, <2>3, <1>5 DEF OfBuild
    <2>5. Fresh(n).oracle = <<Shard(names[n], b)>>
      <3>1. Fresh(n).oracle = <<sequential.oracle[n]>>
        BY DEF Agree
      <3>2. QED
        BY <3>1, <1>3, <1>7
    <2>6. PICK bn \in Builds, c \in Latencies :
            Fresh(n).cases = <<PassedCase(Shard(names[n], bn), c, 1)>>
      BY CaseMixture, <1>0
    <2>7. Fresh(n).cases[1].shard = sequential.cases[n].shard
          /\ Fresh(n).cases[1].cycles = sequential.cases[n].cycles
      BY DEF Agree
    <2>8. Shard(names[n], bn) = Shard(names[n], b) /\ c = cycles
      BY <2>6, <2>7, <1>3, <1>9 DEF PassedCase
    <2>9. Fresh(n).cases = <<PassedCase(Shard(names[n], b), cycles, 1)>>
      BY <2>6, <2>8
    <2>10. DOMAIN <<names[n]>> = {1} /\ <<names[n]>>[1] = names[n]
      OBVIOUS
    <2>11. \A x : [m \in {1} |-> x] = <<x>>
      OBVIOUS
    <2>12. [m \in DOMAIN <<names[n]>> |-> Shard(<<names[n]>>[m], b)] = <<Shard(names[n], b)>>
      <3>1. [m \in DOMAIN <<names[n]>> |-> Shard(<<names[n]>>[m], b)]
            = [m \in {1} |-> Shard(names[n], b)]
        BY <2>10
      <3>2. QED
        BY <3>1, <2>11
    <2>13. [m \in DOMAIN <<names[n]>> |-> PassedCase(Shard(<<names[n]>>[m], b), cycles, m)]
           = <<PassedCase(Shard(names[n], b), cycles, 1)>>
      <3>1. [m \in DOMAIN <<names[n]>> |-> PassedCase(Shard(<<names[n]>>[m], b), cycles, m)]
            = [m \in {1} |-> PassedCase(Shard(names[n], b), cycles, 1)]
        BY <2>10
      <3>2. QED
        BY <3>1, <2>11
    <2>14. Fresh(n).oracle = [m \in DOMAIN <<names[n]>> |-> Shard(<<names[n]>>[m], b)]
      BY <2>5, <2>12
    <2>15. Fresh(n).cases
           = [m \in DOMAIN <<names[n]>> |-> PassedCase(Shard(<<names[n]>>[m], b), cycles, m)]
      BY <2>9, <2>13
    <2> HIDE DEF Fresh
    <2>16. \A r, cases :
             /\ r = [f \in Fields |-> r[f]] /\ OfBuild(r, b) /\ r.status = "pass"
             /\ r.oracle = [m \in DOMAIN cases |-> Shard(cases[m], b)]
             /\ r.cases = [m \in DOMAIN cases |-> PassedCase(Shard(cases[m], b), cycles, m)]
             => r = StrictReceipt(b, "pass", cases, cycles)
      BY WholeReceipt
    <2>17. QED
      BY <2>1, <2>4, <2>14, <2>15, <2>16, Zenon
  <1>13. QED
    BY <1>3, <1>10, <1>11, <1>12
-----------------------------------------------------------------------------
OneBuild(p, names, loaded) ==
    \E b \in Builds : \E cycles \in Latencies :
        /\ b.proof = p
        /\ \A n \in DOMAIN names :
             loaded[n] = StrictReceipt(b, "pass", <<names[n]>>, cycles)
        /\ loaded[Len(names) + 1] = StrictReceipt(b, "pass", names, cycles)

GateTypeOK ==
    /\ proof \in Nat
    /\ DOMAIN altered = {"reruns", "mixed"}
    /\ altered.mixed \in Nat /\ altered.mixed <= MaxMixed
    /\ DOMAIN receipts = Names
    /\ receipts = [name \in Names |-> receipts[name]]
    /\ DOMAIN reducer = {"pc", "calls", "proof", "names", "loaded"}
    /\ reducer.pc \in {"start", "load", "reduce", "pass", "counterexample", "fail"}
    /\ reducer.names \in Seq(CaseNames)
    /\ reducer.loaded \in Seq(Receipts)

(* At most as many receipts are mixed as parts were moved; those that were *)
(* loaded may be older.                                                    *)
Provenance(mixed) ==
    /\ Cardinality(mixed) <= altered.mixed
    /\ \A name \in Names : AsWritten(name, receipts[name], mixed)
    /\ \A n \in DOMAIN reducer.names : AsWritten(reducer.names[n], reducer.loaded[n], mixed)
    /\ reducer.pc = "reduce" =>
         AsWritten(Sequence, reducer.loaded[Len(reducer.names) + 1], mixed)

Loading ==
    /\ \A m, n \in DOMAIN reducer.names : reducer.names[m] = reducer.names[n] => m = n
    /\ reducer.pc = "load" => Len(reducer.loaded) = Len(reducer.names)
    /\ reducer.pc = "reduce" => Len(reducer.loaded) = Len(reducer.names) + 1

Verdicts ==
    /\ reducer.pc = "pass" => OneBuild(reducer.proof, reducer.names, reducer.loaded)
    /\ reducer.pc = "fail" => counterexample

GateInv ==
    /\ GateTypeOK
    /\ \E mixed \in SUBSET Names : Provenance(mixed)
    /\ Loading
    /\ Verdicts
    /\ SummaryIsOfOneBuild

LEMMA NamesFinite ==
  IsFiniteSet(Names) /\ Cardinality(Names) = Len(Cases) + 1
  <1>1. IsFiniteSet(1..Len(Cases))
    BY FS_Interval, FrozenAssumption
  <1>2. Cases \in Surjection(1..Len(Cases), CaseNames)
    BY FrozenAssumption DEF Surjection, CaseNames
  <1>3. IsFiniteSet(CaseNames)
    BY <1>1, <1>2, FS_Surjection
  <1>4. QED
    BY <1>3, FS_AddElement, FrozenAssumption DEF Names

LEMMA FewerMixedThanNames ==
  ASSUME MaxMixed <= Len(Cases), GateTypeOK, NEW C \in SUBSET Names, Provenance(C)
  PROVE  C # Names
  BY NamesFinite, FrozenAssumption DEF GateTypeOK, Provenance

LEMMA RunIsWritten ==
  ASSUME NEW name \in Names, NEW r \in RunReceipts(name), NEW C
  PROVE  AsWritten(name, r, C) /\ r \in Receipts
  BY RunIsAMixture DEF AsWritten, Receipts

LEMMA GateInit ==
  ASSUME FrozenInit
  PROVE  GateInv
  <1>1. PICK b \in Builds :
          /\ proof = b.proof
          /\ receipts = [name \in Names |->
                StrictReceipt(b, "pass", CasesOf(name), CHOOSE l \in Latencies : TRUE)]
    BY DEF FrozenInit
  <1>2. \A name \in Names : receipts[name] \in RunReceipts(name)
    BY <1>1, FrozenAssumption DEF RunReceipts
  <1>3. b.proof \in Nat
    BY FrozenAssumption DEF BuildNames
  <1>4. GateTypeOK
    BY <1>1, <1>3, FrozenAssumption DEF FrozenInit, GateTypeOK, NoReduction
  <1>5. Provenance({})
    BY <1>2, RunIsWritten, FS_EmptySet DEF FrozenInit, Provenance, NoReduction
  <1>6. Loading /\ Verdicts /\ SummaryIsOfOneBuild
    BY DEF FrozenInit, NoReduction, NoSummary, Loading, Verdicts, SummaryIsOfOneBuild
  <1>7. QED
    BY <1>4, <1>5, <1>6 DEF GateInv

LEMMA RerunKeepsGate ==
  ASSUME GateInv, Rerun
  PROVE  GateInv'
  <1>1. PICK C \in SUBSET Names : Provenance(C)
    BY DEF GateInv
  <1>2a. PICK name \in Names : \E r \in RunReceipts(name) : receipts' = [receipts EXCEPT ![name] = r]
    BY DEF Rerun
  <1>2. PICK r \in RunReceipts(name) : receipts' = [receipts EXCEPT ![name] = r]
    BY <1>2a
  <1>3. AsWritten(name, r, C) /\ r \in Receipts
    BY RunIsWritten
  <1>4. altered'.mixed = altered.mixed /\ DOMAIN altered' = DOMAIN altered
    BY DEF Rerun, GateInv, GateTypeOK
  <1>5. GateTypeOK'
    <2>1. DOMAIN receipts' = Names /\ receipts' = [n \in Names |-> receipts'[n]]
      BY <1>2 DEF GateInv, GateTypeOK
    <2>2. UNCHANGED <<proof, reducer>>
      BY DEF Rerun
    <2>3. QED
      BY <2>1, <2>2, <1>4 DEF GateInv, GateTypeOK
  <1>6. Provenance(C)'
    <2>1. \A other \in Names : AsWritten(other, receipts'[other], C)
      BY <1>1, <1>2, <1>3 DEF Provenance, GateInv, GateTypeOK
    <2>2. QED
      BY <2>1, <1>1, <1>4 DEF Rerun, Provenance
  <1>7. (Loading /\ Verdicts /\ SummaryIsOfOneBuild)'
    BY DEF Rerun, GateInv, Loading, Verdicts, SummaryIsOfOneBuild
  <1>8. QED
    BY <1>5, <1>6, <1>7 DEF GateInv

LEMMA MixUpKeepsGate ==
  ASSUME GateInv, MixUp
  PROVE  GateInv'
  <1>1. PICK C \in SUBSET Names : Provenance(C)
    BY DEF GateInv
  <1>2a. PICK name \in Names : \E r \in RunReceipts(name) : \E f \in DOMAIN r :
           receipts' = [receipts EXCEPT ![name][f] = r[f]]
    BY DEF MixUp
  <1>2b. PICK r \in RunReceipts(name) : \E f \in DOMAIN r :
           receipts' = [receipts EXCEPT ![name][f] = r[f]]
    BY <1>2a
  <1>2. PICK f \in DOMAIN r : receipts' = [receipts EXCEPT ![name][f] = r[f]]
    BY <1>2b
  <1> DEFINE D == C \cup {name}
             mixture == [receipts[name] EXCEPT ![f] = r[f]]
  <1>3. receipts' = [receipts EXCEPT ![name] = mixture]
    BY <1>2
  <1>4. mixture \in Mixtures(name)
    <2>1. receipts[name] \in Mixtures(name)
      BY <1>1 DEF Provenance, AsWritten
    <2>2. r \in Mixtures(name)
      BY RunIsAMixture
    <2>3. QED
      BY <2>1, <2>2 DEF Mixtures
  <1>5. AsWritten(name, mixture, D)
    BY <1>4 DEF AsWritten
  <1>6. \A n, x : AsWritten(n, x, C) => AsWritten(n, x, D)
    BY DEF AsWritten
  <1>7. altered'.mixed = altered.mixed + 1 /\ DOMAIN altered' = DOMAIN altered
    BY DEF MixUp, GateInv, GateTypeOK
  <1>8. Cardinality(D) <= altered'.mixed
    <2>1. IsFiniteSet(C)
      BY NamesFinite, FS_Subset
    <2>6. Cardinality(C) \in Nat
      BY <2>1, FS_CardinalityType
    <2>7. Cardinality(D) = IF name \in C THEN Cardinality(C) ELSE Cardinality(C) + 1
      BY <2>1, FS_AddElement
    <2>2. Cardinality(C) \in Nat /\ Cardinality(D) <= Cardinality(C) + 1
      BY <2>6, <2>7
    <2>3. Cardinality(D) \in Nat
      BY <2>6, <2>7
    <2>4. Cardinality(C) <= altered.mixed /\ altered.mixed \in Nat
      BY <1>1 DEF Provenance, GateInv, GateTypeOK
    <2>5. QED
      BY <2>2, <2>3, <2>4, <1>7
  <1> HIDE DEF mixture, D
  <1>9. GateTypeOK'
    <2>1. MaxMixed \in Nat
      BY FrozenAssumption
    <2>2. altered.mixed \in Nat /\ altered.mixed < MaxMixed
      BY DEF MixUp, GateInv, GateTypeOK
    <2>3. altered'.mixed \in Nat /\ altered'.mixed <= MaxMixed
      BY <2>1, <2>2, <1>7
    <2>4. DOMAIN receipts' = Names /\ receipts' = [n \in Names |-> receipts'[n]]
      BY <1>3 DEF GateInv, GateTypeOK
    <2>5. DOMAIN altered' = {"reruns", "mixed"}
      BY <1>7 DEF GateInv, GateTypeOK
    <2>6. QED
      BY <2>3, <2>4, <2>5 DEF MixUp, GateInv, GateTypeOK
  <1>10. Provenance(D)'
    <2>1. \A other \in Names : AsWritten(other, receipts'[other], D)
      BY <1>1, <1>3, <1>5, <1>6 DEF Provenance, GateInv, GateTypeOK
    <2>2. QED
      BY <2>1, <1>1, <1>6, <1>8 DEF MixUp, Provenance
  <1>11. (Loading /\ Verdicts /\ SummaryIsOfOneBuild)'
    BY DEF MixUp, GateInv, Loading, Verdicts, SummaryIsOfOneBuild
  <1>12. D \in SUBSET Names
    BY DEF D
  <1>13. QED
    BY <1>9, <1>10, <1>11, <1>12 DEF GateInv
(* What a step of the reducer leaves of the files' part.                   *)
LEMMA FilesKept ==
  ASSUME NEW C, Provenance(C), UNCHANGED gateFiles,
         \A n \in DOMAIN reducer'.names : AsWritten(reducer'.names[n], reducer'.loaded[n], C),
         reducer'.pc = "reduce" =>
           AsWritten(Sequence, reducer'.loaded[Len(reducer'.names) + 1], C)
  PROVE  Provenance(C)'
  BY DEF Provenance, gateFiles

LEMMA RestKeepsGate ==
  ASSUME GateInv, UNCHANGED gateFiles, UNCHANGED summary,
         reducer'.names = <<>>, reducer'.loaded = <<>>,
         reducer'.pc \in {"start", "load", "counterexample"},
         DOMAIN reducer' = {"pc", "calls", "proof", "names", "loaded"},
         UNCHANGED counterexample
  PROVE  GateInv'
  <1>1. PICK C \in SUBSET Names : Provenance(C)
    BY DEF GateInv
  <1>2. Provenance(C)'
    BY <1>1, FilesKept
  <1>3. GateTypeOK'
    BY DEF GateInv, GateTypeOK, gateFiles
  <1>4. (Loading /\ Verdicts /\ SummaryIsOfOneBuild)'
    BY DEF GateInv, Loading, Verdicts, SummaryIsOfOneBuild
  <1>5. QED
    BY <1>2, <1>3, <1>4 DEF GateInv

LEMMA HashProofKeepsGate ==
  ASSUME GateInv, HashProof
  PROVE  GateInv'
  <1>1. PICK point \in {"load", "counterexample"} :
          reducer' = [NoReduction EXCEPT !.pc = point, !.calls = reducer.calls + 1, !.proof = proof]
    BY DEF HashProof
  <1>2. /\ reducer'.names = <<>> /\ reducer'.loaded = <<>> /\ reducer'.pc = point
        /\ DOMAIN reducer' = {"pc", "calls", "proof", "names", "loaded"}
    BY <1>1 DEF NoReduction
  <1>3. QED
    BY <1>2, RestKeepsGate DEF HashProof

LEMMA KillKeepsGate ==
  ASSUME GateInv, KillReducer
  PROVE  GateInv'
  <1>1. reducer' = [NoReduction EXCEPT !.calls = reducer.calls]
    BY DEF KillReducer
  <1>2. /\ reducer'.names = <<>> /\ reducer'.loaded = <<>> /\ reducer'.pc = "start"
        /\ DOMAIN reducer' = {"pc", "calls", "proof", "names", "loaded"}
    BY <1>1 DEF NoReduction
  <1>3. QED
    BY <1>2, RestKeepsGate DEF KillReducer

LEMMA LoadFreshKeepsGate ==
  ASSUME GateInv, LoadFresh
  PROVE  GateInv'
  <1> DEFINE taken == {reducer.names[n] : n \in DOMAIN reducer.names}
  <1>1. PICK C \in SUBSET Names : Provenance(C)
    BY DEF GateInv
  <1>2. PICK name \in Names \ ({Sequence} \cup taken) :
          reducer' = [reducer EXCEPT !.names = Append(@, name),
                                     !.loaded = Append(@, receipts[name])]
    BY DEF LoadFresh
  <1>3. name \in CaseNames /\ name \notin taken
    BY <1>2 DEF Names
  <1>4. /\ reducer'.names = Append(reducer.names, name)
        /\ reducer'.loaded = Append(reducer.loaded, receipts[name])
        /\ reducer'.pc = "load" /\ reducer'.proof = reducer.proof
        /\ DOMAIN reducer' = {"pc", "calls", "proof", "names", "loaded"}
    BY <1>2 DEF LoadFresh, Reducing, GateInv, GateTypeOK
  <1>5. /\ reducer.names \in Seq(CaseNames) /\ reducer.loaded \in Seq(Receipts)
        /\ Len(reducer.loaded) = Len(reducer.names)
    BY DEF LoadFresh, Reducing, GateInv, GateTypeOK, Loading
  <1>6. AsWritten(name, receipts[name], C) /\ receipts[name] \in Receipts
    BY <1>1, <1>3 DEF Provenance, AsWritten, Names, Receipts
  <1>7. GateTypeOK'
    <2>1. reducer'.names \in Seq(CaseNames) /\ reducer'.loaded \in Seq(Receipts)
      BY <1>3, <1>4, <1>5, <1>6
    <2>2. QED
      BY <2>1, <1>4 DEF GateInv, GateTypeOK, LoadFresh, gateFiles
  <1>8. ASSUME NEW n \in DOMAIN reducer'.names
        PROVE  /\ n \in 1..Len(reducer.names) + 1
               /\ n = Len(reducer.names) + 1 =>
                    reducer'.names[n] = name /\ reducer'.loaded[n] = receipts[name]
               /\ n # Len(reducer.names) + 1 =>
                    /\ n \in DOMAIN reducer.names
                    /\ reducer'.names[n] = reducer.names[n]
                    /\ reducer'.loaded[n] = reducer.loaded[n]
    BY <1>4, <1>5
  <1>9. Provenance(C)'
    <2>1. ASSUME NEW n \in DOMAIN reducer'.names
          PROVE  AsWritten(reducer'.names[n], reducer'.loaded[n], C)
      BY <1>1, <1>6, <1>8 DEF Provenance
    <2>2. QED
      BY <2>1, <1>1, <1>4, FilesKept DEF LoadFresh
  <1>10. Loading'
    <2>1. ASSUME NEW m \in DOMAIN reducer'.names, NEW n \in DOMAIN reducer'.names,
                 reducer'.names[m] = reducer'.names[n]
          PROVE  m = n
      <3>1. \A k \in DOMAIN reducer.names : reducer.names[k] # name
        BY <1>3
      <3>2. QED
        BY <2>1, <3>1, <1>8 DEF GateInv, Loading
    <2>2. Len(reducer'.loaded) = Len(reducer'.names)
      BY <1>4, <1>5
    <2>3. QED
      BY <2>1, <2>2, <1>4 DEF Loading
  <1>11. (Verdicts /\ SummaryIsOfOneBuild)'
    BY <1>4 DEF LoadFresh, GateInv, Verdicts, SummaryIsOfOneBuild
  <1>12. QED
    BY <1>7, <1>9, <1>10, <1>11 DEF GateInv

LEMMA LoadSequentialKeepsGate ==
  ASSUME GateInv, LoadSequential
  PROVE  GateInv'
  <1>1. PICK C \in SUBSET Names : Provenance(C)
    BY DEF GateInv
  <1>2. /\ reducer'.names = reducer.names
        /\ reducer'.loaded = Append(reducer.loaded, receipts[Sequence])
        /\ reducer'.pc = "reduce"
        /\ DOMAIN reducer' = {"pc", "calls", "proof", "names", "loaded"}
    BY DEF LoadSequential, GateInv, GateTypeOK
  <1>3. /\ reducer.names \in Seq(CaseNames) /\ reducer.loaded \in Seq(Receipts)
        /\ Len(reducer.loaded) = Len(reducer.names)
    BY DEF LoadSequential, Reducing, GateInv, GateTypeOK, Loading
  <1>4. AsWritten(Sequence, receipts[Sequence], C) /\ receipts[Sequence] \in Receipts
    BY <1>1 DEF Provenance, AsWritten, Names, Receipts
  <1>5. GateTypeOK'
    <2>1. reducer'.loaded \in Seq(Receipts)
      BY <1>2, <1>3, <1>4
    <2>2. QED
      BY <2>1, <1>2, <1>3 DEF GateInv, GateTypeOK, LoadSequential, gateFiles
  <1>6. Provenance(C)'
    <2>1. \A n \in DOMAIN reducer.names : reducer'.loaded[n] = reducer.loaded[n]
      BY <1>2, <1>3
    <2>2. reducer'.loaded[Len(reducer.names) + 1] = receipts[Sequence]
      BY <1>2, <1>3
    <2>3. QED
      BY <2>1, <2>2, <1>1, <1>2, <1>4, FilesKept DEF LoadSequential, Provenance
  <1>7. Loading'
    <2>1. Len(reducer'.loaded) = Len(reducer.names) + 1
      BY <1>2, <1>3
    <2>2. QED
      BY <2>1, <1>2 DEF GateInv, Loading
  <1>8. (Verdicts /\ SummaryIsOfOneBuild)'
    BY <1>2 DEF LoadSequential, GateInv, Verdicts, SummaryIsOfOneBuild
  <1>9. QED
    BY <1>5, <1>6, <1>7, <1>8 DEF GateInv
LEMMA ReduceKeepsGate ==
  ASSUME GateInv, Reduce, MaxMixed <= Len(Cases)
  PROVE  GateInv'
  <1> DEFINE names == reducer.names
             loaded == reducer.loaded
             fresh == [name \in {names[n] : n \in DOMAIN names} |->
                         loaded[CHOOSE n \in DOMAIN names : names[n] = name]]
             sequential == loaded[Len(names) + 1]
             agreed == Agree(names, fresh, sequential, reducer.proof)
  <1>1. PICK C \in SUBSET Names : Provenance(C)
    BY DEF GateInv
  <1>2. /\ reducer' = [reducer EXCEPT !.pc = IF agreed THEN "pass" ELSE "counterexample"]
        /\ reducer.pc = "reduce"
    BY DEF Reduce, Reducing
  <1>3. /\ reducer'.names = names /\ reducer'.loaded = loaded /\ reducer'.proof = reducer.proof
        /\ reducer'.pc = IF agreed THEN "pass" ELSE "counterexample"
        /\ DOMAIN reducer' = {"pc", "calls", "proof", "names", "loaded"}
    BY <1>2 DEF GateInv, GateTypeOK
  <1>4. \A n \in DOMAIN names : fresh[names[n]] = loaded[n]
    BY DEF GateInv, Loading
  <1>5. names \in Seq(CaseNames)
    BY DEF GateInv, GateTypeOK
  <1>6. ASSUME agreed
        PROVE  OneBuild(reducer.proof, names, loaded)
    <2>1. C # Names
      BY <1>1, FewerMixedThanNames DEF GateInv
    <2>2. AsWritten(Sequence, sequential, C)
      BY <1>1, <1>2 DEF Provenance
    <2>3. \A n \in DOMAIN names : AsWritten(names[n], fresh[names[n]], C)
      BY <1>1, <1>4 DEF Provenance
    <2>6. Agree(names, fresh, sequential, reducer.proof)
      BY <1>6
    <2> HIDE DEF agreed, fresh, sequential, names
    <2>4. \E b \in Builds : \E cycles \in Latencies :
           /\ b.proof = reducer.proof
           /\ \A n \in DOMAIN names :
                fresh[names[n]] = StrictReceipt(b, "pass", <<names[n]>>, cycles)
           /\ sequential = StrictReceipt(b, "pass", names, cycles)
      BY <1>5, <2>1, <2>2, <2>3, <2>6, AgreedIsOneBuild
    <2>5. QED
      BY <2>4, <1>4 DEF OneBuild, sequential
  <1> HIDE DEF agreed, fresh, sequential
  <1>7. GateTypeOK'
    BY <1>3 DEF Reduce, GateInv, GateTypeOK, gateFiles
  <1>8. Provenance(C)'
    BY <1>1, <1>3, FilesKept DEF Reduce, Provenance
  <1>9. (Loading /\ Verdicts /\ SummaryIsOfOneBuild)'
    BY <1>3, <1>6 DEF Reduce, GateInv, Loading, Verdicts, SummaryIsOfOneBuild
  <1>10. QED
    BY <1>7, <1>8, <1>9 DEF GateInv

LEMMA WriteCounterexampleKeepsGate ==
  ASSUME GateInv, WriteCounterexample
  PROVE  GateInv'
  <1>1. PICK C \in SUBSET Names : Provenance(C)
    BY DEF GateInv
  <1>2. /\ reducer'.names = reducer.names /\ reducer'.loaded = reducer.loaded
        /\ reducer'.pc = "fail"
        /\ DOMAIN reducer' = {"pc", "calls", "proof", "names", "loaded"}
    BY DEF WriteCounterexample, GateInv, GateTypeOK
  <1>3. GateTypeOK'
    BY <1>2 DEF WriteCounterexample, GateInv, GateTypeOK, gateFiles
  <1>4. Provenance(C)'
    BY <1>1, <1>2, FilesKept DEF WriteCounterexample, Provenance
  <1>5. (Loading /\ Verdicts /\ SummaryIsOfOneBuild)'
    BY <1>2 DEF WriteCounterexample, GateInv, Loading, Verdicts, SummaryIsOfOneBuild
  <1>6. QED
    BY <1>3, <1>4, <1>5 DEF GateInv

LEMMA WriteSummaryKeepsGate ==
  ASSUME GateInv, WriteSummary
  PROVE  GateInv'
  <1>1. PICK C \in SUBSET Names : Provenance(C)
    BY DEF GateInv
  <1>2. /\ reducer'.names = reducer.names /\ reducer'.loaded = reducer.loaded
        /\ reducer'.pc = "start"
        /\ DOMAIN reducer' = {"pc", "calls", "proof", "names", "loaded"}
    BY DEF WriteSummary, GateInv, GateTypeOK
  <1>3. GateTypeOK'
    BY <1>2 DEF WriteSummary, GateInv, GateTypeOK, gateFiles
  <1>4. Provenance(C)'
    BY <1>1, <1>2, FilesKept DEF WriteSummary, Provenance
  <1>5. (Loading /\ Verdicts)'
    BY <1>2 DEF GateInv, Loading, Verdicts
  <1>6. SummaryIsOfOneBuild'
    <2>1. /\ summary'.status = reducer.pc /\ summary'.proof = reducer.proof
          /\ summary'.names = reducer.names /\ summary'.loaded = reducer.loaded
      BY DEF WriteSummary
    <2>2. reducer.pc = "pass" => OneBuild(reducer.proof, reducer.names, reducer.loaded)
      BY DEF GateInv, Verdicts
    <2>3. reducer.pc = "fail" => counterexample
      BY DEF GateInv, Verdicts
    <2>4. counterexample' = counterexample
      BY DEF WriteSummary
    <2>5. QED
      BY <2>1, <2>2, <2>3, <2>4 DEF OneBuild, SummaryIsOfOneBuild
  <1>7. QED
    BY <1>3, <1>4, <1>5, <1>6 DEF GateInv

LEMMA GateStep ==
  ASSUME MaxMixed <= Len(Cases)
  PROVE  GateInv /\ [FrozenNext]_frozenVars => GateInv'
  <1>1. SUFFICES ASSUME GateInv, [FrozenNext]_frozenVars PROVE GateInv'
    OBVIOUS
  <1>2. CASE UNCHANGED frozenVars
    BY <1>1, <1>2 DEF frozenVars, gateFiles, GateInv, GateTypeOK, Provenance, Loading, Verdicts,
       SummaryIsOfOneBuild
  <1>3. CASE FrozenNext
    BY <1>1, <1>3, RerunKeepsGate, MixUpKeepsGate, HashProofKeepsGate, LoadFreshKeepsGate,
       LoadSequentialKeepsGate, ReduceKeepsGate, WriteCounterexampleKeepsGate,
       WriteSummaryKeepsGate, KillKeepsGate DEF FrozenNext
  <1>4. QED
    BY <1>1, <1>2, <1>3

\* A passing summary of the frozen gate is of one build: whatever is rerun,
\* mixed up or killed, the receipts it was made from are those the passing
\* simulations of one build wrote, and a failure never lacks its
\* counterexample.  At most Len(Cases) receipts are mixed up, so one is not.
THEOREM SummariesAreOfOneBuild ==
  ASSUME MaxMixed <= Len(Cases)
  PROVE  FrozenSpec => []SummaryIsOfOneBuild
  <1>1. FrozenInit => GateInv
    BY GateInit
  <1>2. GateInv /\ [FrozenNext]_frozenVars => GateInv'
    BY GateStep
  <1>3. GateInv => SummaryIsOfOneBuild
    BY DEF GateInv
  <1>4. QED
    BY <1>1, <1>2, <1>3, PTL DEF FrozenSpec

-----------------------------------------------------------------------------
(***************************************************************************)
(* The memory bindings.  Once ports are accepted the binder only ever binds *)
(* rows that fit, and a memory is filled from the row, the segment or      *)
(* nothing at all.                                                         *)
(***************************************************************************)

LEMMA LeastInOrder ==
  ASSUME NEW R, NEW T, T \subseteq Nat, NEW x \in T,
         \A y \in Nat, z \in Nat : y < z => <<y, z>> \in R,
         \A y \in T : ~(<<y, x>> \in R)
  PROVE  \A y \in T : x <= y
  <1>1. SUFFICES ASSUME NEW y \in T, ~(x <= y) PROVE FALSE
    OBVIOUS
  <1>2. x \in Nat /\ y \in Nat
    OBVIOUS
  <1>3. y < x
    BY <1>1, <1>2
  <1>4. <<y, x>> \in R
    BY <1>2, <1>3
  <1>5. QED
    BY <1>4

(* Every set of naturals that is not empty has a least element.            *)
LEMMA LeastNatural ==
  ASSUME NEW T, T \subseteq Nat, T # {}
  PROVE  \E x \in T : \A y \in T : x <= y
  <1>1. \A x, y \in Nat : y < x => <<y, x>> \in OpToRel(<, Nat)
    BY DEF OpToRel
  <1>2. PICK x \in T : \A y \in T : ~(<<y, x>> \in OpToRel(<, Nat))
    BY WFMin, NatLessThanWellFounded
  <1>3. QED
    BY <1>1, <1>2, LeastInOrder, Zenon

LEMMA GreatestNatural ==
  ASSUME NEW T, T \subseteq Nat, T # {}, NEW bound \in Nat, \A x \in T : x <= bound
  PROVE  \E x \in T : \A y \in T : x >= y
  <1> DEFINE U == {bound - x : x \in T}
  <1>0. \A x \in T : bound - x \in Nat
    OBVIOUS
  <1>1. U \subseteq Nat /\ U # {}
    BY <1>0
  <1>2. PICK u \in U : \A v \in U : u <= v
    BY <1>1, LeastNatural
  <1>3. PICK x \in T : u = bound - x
    OBVIOUS
  <1>4. \A y \in T : x >= y
    <2>1. SUFFICES ASSUME NEW y \in T PROVE x >= y
      OBVIOUS
    <2>2. u <= bound - y
      BY <1>2
    <2>3. QED
      BY <2>2, <1>3
  <1>5. QED
    BY <1>4

-----------------------------------------------------------------------------
(* Of two segments of one name, one is taken that has the name.            *)
LEMMA NamedHasTheName ==
  ASSUME inputs.package \in Packages, NEW name, \E s \in Segments : s.name = name
  PROVE  Named(name) \in Segments /\ Named(name).name = name
  <1> DEFINE segments == inputs.package.segments
             T == {n \in DOMAIN segments : segments[n].name = name}
  <1>1. segments \in Seq(Segments)
    BY BindingsAssumption DEF Segments
  <1>2. T \subseteq Nat /\ T # {} /\ \A n \in T : n <= Len(segments)
    BY <1>1 DEF Segments, ToSet
  <1>3. Len(segments) \in Nat
    BY <1>1
  <1>4. \E n \in T : \A m \in T : n >= m
    BY <1>2, <1>3, GreatestNatural
  <1>5. Max(T) \in T
    BY <1>4 DEF Max
  <1>6. QED
    BY <1>5, <1>1 DEF Named, Segments, ToSet
-----------------------------------------------------------------------------
(* The rows of the external globals, as the lowering and the package fix   *)
(* them.                                                                   *)
Row(k) == inputs.lowering.named[k]
Global(k) == inputs.lowering.globals[Row(k).symbol]
BoundRow(k) ==
    [port |-> FirstConstant + k - 1, words |-> Product(Row(k).shape),
     bytes |-> RawBytes(Global(k)), aliases |-> Aliases(RawBytes(Global(k)))]
Bound(k) ==
    Row(k).symbol \in DOMAIN inputs.lowering.globals
    /\ RowFits(Global(k), Row(k).shape, FirstConstant + k - 1)

RowsAreBound ==
    /\ binder.rows \in Seq({BoundRow(k) : k \in 1..Externals})
    /\ Len(binder.rows) <= Externals
    /\ \A k \in 1..Len(binder.rows) : binder.rows[k] = BoundRow(k) /\ Bound(k)

Points == {"proof", "abi", "lowering", "bind", "named", "strict", "diagnostic", "done", "failed"}
BinderTypeOK ==
    /\ inputs.package \in Packages /\ inputs.mode \in Modes
    /\ DOMAIN binder = {"pc", "abi", "rows", "left"}
    /\ binder.pc \in Points
    /\ binder.rows \in Seq({BoundRow(k) : k \in 1..Externals})

ExternalSegments == {s \in Segments : External(s)}

(* The segments that were given to the first ports, each to one.           *)
Given(count, of) ==
    /\ of \in [FirstConstant + 1 .. FirstConstant + count -> ExternalSegments]
    /\ \A m, n \in DOMAIN of : of[m] = of[n] => m = n
    /\ \A n \in DOMAIN of : of[n] \notin binder.left
    /\ \A s \in ExternalSegments : s \in binder.left \/ \E n \in DOMAIN of : of[n] = s
    /\ \A n \in DOMAIN of : memories[n] = Filled(n, SegmentBytes(of[n]))
Guessed(count) ==
    /\ DOMAIN memories = NamedPorts \cup (FirstConstant + 1 .. FirstConstant + count)
    /\ binder.left \subseteq ExternalSegments
    /\ \E of : Given(count, of)

BindersInv ==
    /\ BinderTypeOK
    /\ binder.pc \notin {"proof", "abi", "failed"} => AbiFits(inputs.design)
    /\ binder.pc \in {"lowering", "bind", "strict"} => inputs.mode = "strict"
    /\ binder.pc = "diagnostic" => inputs.mode = "diagnostic"
    /\ binder.pc \in {"proof", "abi", "lowering"} => binder.rows = <<>>
    /\ binder.pc \in {"bind", "named", "strict"} /\ inputs.mode = "strict" => RowsAreBound
    /\ binder.pc \in {"named", "strict"} /\ inputs.mode = "strict" => Len(binder.rows) = Externals
    /\ binder.pc \in {"strict", "diagnostic"} => memories = [n \in DOMAIN memories |-> memories[n]]
    /\ binder.pc = "strict" => DOMAIN memories = NamedPorts
    /\ binder.pc \in {"strict", "diagnostic"} => NamedHeld
    /\ binder.pc = "diagnostic" => \E count \in 0 .. Externals - 1 : Guessed(count)
    /\ MemoriesHoldTheImage

(* Only the ports' sizes and the inputs are looked at.                     *)
LEMMA RowSetKept ==
  ASSUME UNCHANGED inputs
  PROVE  /\ \A k : BoundRow(k)' = BoundRow(k)
         /\ {BoundRow(k) : k \in 1..Externals}' = {BoundRow(k) : k \in 1..Externals}
  BY DEF BoundRow, Row, Global, RawBytes, Aliases, SameBits, SegmentBytes, Segments

LEMMA RowFitsKept ==
  ASSUME UNCHANGED inputs, binder'.abi = binder.abi, NEW global, NEW shape, NEW port
  PROVE  RowFits(global, shape, port)' = RowFits(global, shape, port)
  BY DEF RowFits, ShapeKept, HasRawBytes, RawBytes, ManifestHolds, WellFormed, Aliases,
         SameBits, SegmentBytes, Segments

LEMMA BoundKept ==
  ASSUME UNCHANGED inputs, binder'.abi = binder.abi
  PROVE  \A k : Bound(k)' = Bound(k)
  <1>1. \A k : Row(k)' = Row(k) /\ Global(k)' = Global(k)
    BY DEF Row, Global
  <1>2. \A k : RowFits(Global(k), Row(k).shape, FirstConstant + k - 1)'
              = RowFits(Global(k), Row(k).shape, FirstConstant + k - 1)
    BY <1>1, RowFitsKept
  <1>3. QED
    BY <1>1, <1>2 DEF Bound

LEMMA RowsKept ==
  ASSUME RowsAreBound, UNCHANGED inputs, binder'.abi = binder.abi, binder'.rows = binder.rows
  PROVE  RowsAreBound'
  BY RowSetKept, BoundKept DEF RowsAreBound

LEMMA FailKeeps ==
  ASSUME BindersInv, Fail, UNCHANGED <<inputs, memories>>
  PROVE  BindersInv'
  <1>1. binder'.pc = "failed" /\ binder'.rows = binder.rows
        /\ DOMAIN binder' = {"pc", "abi", "rows", "left"}
    BY DEF Fail, BindersInv, BinderTypeOK
  <1>2. BinderTypeOK'
    BY <1>1, RowSetKept DEF BindersInv, BinderTypeOK, Points
  <1>3. MemoriesHoldTheImage'
    BY <1>1 DEF MemoriesHoldTheImage
  <1>4. QED
    BY <1>1, <1>2, <1>3 DEF BindersInv

LEMMA BinderInit ==
  ASSUME BindingsInit
  PROVE  BindersInv
  <1>1. inputs.package \in Packages /\ inputs.mode \in Modes
    BY DEF BindingsInit
  <1>2. BinderTypeOK
    BY <1>1 DEF BindingsInit, NoBinder, BinderTypeOK, Points
  <1>3. MemoriesHoldTheImage
    BY DEF BindingsInit, NoBinder, MemoriesHoldTheImage
  <1>4. QED
    BY <1>2, <1>3 DEF BindersInv, BindingsInit, NoBinder

LEMMA LoadProofKeeps ==
  ASSUME BindersInv, LoadProof
  PROVE  BindersInv'
  <1>1. CASE Fail
    BY <1>1, FailKeeps DEF LoadProof
  <1>2. CASE binder' = [binder EXCEPT !.pc = "abi"]
    <2>1. binder'.pc = "abi" /\ binder'.rows = binder.rows
          /\ DOMAIN binder' = {"pc", "abi", "rows", "left"}
      BY <1>2 DEF BindersInv, BinderTypeOK
    <2>2. UNCHANGED inputs
      BY DEF LoadProof
    <2>3. BinderTypeOK'
      BY <2>1, <2>2, RowSetKept DEF BindersInv, BinderTypeOK, Points
    <2>4. MemoriesHoldTheImage'
      BY <2>1 DEF MemoriesHoldTheImage
    <2>5. QED
      BY <2>1, <2>3, <2>4 DEF BindersInv, LoadProof, Binding
  <1>3. QED
    BY <1>1, <1>2 DEF LoadProof
LEMMA AcceptPortsKeeps ==
  ASSUME BindersInv, AcceptPorts
  PROVE  BindersInv'
  <1>1. CASE Fail
    BY <1>1, FailKeeps DEF AcceptPorts
  <1>2. CASE ~Fail
    <2>1. AbiFits(inputs.design)
      BY <1>2 DEF AcceptPorts
    <2>2. /\ binder'.pc = IF inputs.mode = "strict" THEN "lowering" ELSE "named"
          /\ binder'.rows = binder.rows /\ binder.rows = <<>>
          /\ DOMAIN binder' = {"pc", "abi", "rows", "left"}
      BY <1>2 DEF AcceptPorts, Binding, BindersInv, BinderTypeOK
    <2>3. UNCHANGED inputs
      BY DEF AcceptPorts
    <2>4. BinderTypeOK'
      BY <2>2, <2>3, RowSetKept DEF BindersInv, BinderTypeOK, Points
    <2>5. MemoriesHoldTheImage'
      BY <2>2 DEF MemoriesHoldTheImage
    <2>6. QED
      BY <2>1, <2>2, <2>3, <2>4, <2>5 DEF BindersInv
  <1>3. QED
    BY <1>1, <1>2

LEMMA ReadLoweringKeeps ==
  ASSUME BindersInv, ReadLowering
  PROVE  BindersInv'
  <1>1. CASE Fail
    BY <1>1, FailKeeps DEF ReadLowering
  <1>2. CASE ~Fail
    <2>1. /\ binder'.pc = "bind" /\ binder'.rows = binder.rows /\ binder.rows = <<>>
          /\ binder.pc = "lowering"
          /\ DOMAIN binder' = {"pc", "abi", "rows", "left"}
      BY <1>2 DEF ReadLowering, Binding, BindersInv, BinderTypeOK
    <2>2. UNCHANGED inputs
      BY DEF ReadLowering
    <2>3. BinderTypeOK'
      BY <2>1, <2>2, RowSetKept DEF BindersInv, BinderTypeOK, Points
    <2>4. MemoriesHoldTheImage'
      BY <2>1 DEF MemoriesHoldTheImage
    <2>5. RowsAreBound'
      BY <2>1, <2>3, BindingsAssumption DEF RowsAreBound, BinderTypeOK
    <2>6. QED
      BY <2>1, <2>2, <2>3, <2>4, <2>5 DEF BindersInv
  <1>3. QED
    BY <1>1, <1>2

LEMMA BindGlobalKeeps ==
  ASSUME BindersInv, BindGlobal
  PROVE  BindersInv'
  <1>1. CASE Fail
    BY <1>1, FailKeeps DEF BindGlobal
  <1>2. CASE ~Fail
    <2> DEFINE n == Len(binder.rows)
    <2>0. binder.pc = "bind" /\ inputs.mode = "strict" /\ RowsAreBound
      BY DEF BindGlobal, Binding, BindersInv
    <2>17. n \in Nat /\ n < Externals
      <3>1. n < Externals
        BY DEF BindGlobal
      <3>2. n \in Nat
        BY <2>0 DEF RowsAreBound
      <3>3. QED
        BY <3>1, <3>2
    <2>1. /\ binder.pc = "bind" /\ inputs.mode = "strict" /\ RowsAreBound
          /\ n \in Nat /\ n < Externals
      BY <2>0, <2>17
    <2>2. FirstConstant + (n + 1) - 1 = FirstConstant + n
      BY <2>1, BindingsAssumption DEF FirstConstant
    <2>3. /\ Row(n + 1).symbol \in DOMAIN inputs.lowering.globals
          /\ RowFits(Global(n + 1), Row(n + 1).shape, FirstConstant + n)
          /\ binder' = [binder EXCEPT !.rows = Append(@, BoundRow(n + 1))]
      BY <1>2, <2>2 DEF BindGlobal, Row, Global, BoundRow
    <2>4. Bound(n + 1)
      BY <2>2, <2>3 DEF Bound
    <2>5. /\ binder'.pc = "bind" /\ binder'.abi = binder.abi
          /\ binder'.rows = Append(binder.rows, BoundRow(n + 1))
          /\ DOMAIN binder' = {"pc", "abi", "rows", "left"}
      BY <2>1, <2>3 DEF BindersInv, BinderTypeOK
    <2>6. UNCHANGED inputs
      BY DEF BindGlobal
    <2>7. n + 1 \in 1..Externals
      BY <2>1, BindingsAssumption
    <2> DEFINE S == {BoundRow(k) : k \in 1..Externals}
    <2>8. BoundRow(n + 1) \in S
      BY <2>7
    <2> HIDE DEF S
    <2>9. binder.rows \in Seq(S)
      BY <2>1 DEF RowsAreBound, S
    <2>10. /\ binder'.rows \in Seq(S) /\ Len(binder'.rows) = n + 1
           /\ \A k \in 1..n : binder'.rows[k] = binder.rows[k]
           /\ binder'.rows[n + 1] = BoundRow(n + 1)
      BY <2>5, <2>8, <2>9
    <2>11. \A k \in 1..n + 1 : binder'.rows[k] = BoundRow(k) /\ Bound(k)
      <3>1. \A k \in 1..n : binder.rows[k] = BoundRow(k) /\ Bound(k)
        BY <2>1 DEF RowsAreBound
      <3>2. \A k \in 1..n + 1 : k \in 1..n \/ k = n + 1
        BY <2>1
      <3>3. QED
        BY <3>1, <3>2, <2>4, <2>10
    <2>12. S' = S
      BY <2>6, RowSetKept DEF S
    <2>13. RowsAreBound'
      <3>1. binder'.rows \in Seq(S')
        BY <2>10, <2>12
      <3>2. Len(binder'.rows) <= Externals
        BY <2>7, <2>10
      <3>3. \A k \in 1..Len(binder'.rows) : binder'.rows[k] = BoundRow(k)' /\ Bound(k)'
        BY <2>10, <2>11, <2>5, <2>6, RowSetKept, BoundKept
      <3>4. QED
        BY <3>1, <3>2, <3>3 DEF RowsAreBound, S
    <2>14. BinderTypeOK'
      BY <2>5, <2>6, <2>13 DEF BindersInv, BinderTypeOK, Points, RowsAreBound
    <2>15. MemoriesHoldTheImage'
      BY <2>5 DEF MemoriesHoldTheImage
    <2>16. QED
      BY <2>1, <2>5, <2>6, <2>13, <2>14, <2>15 DEF BindersInv
  <1>3. QED
    BY <1>1, <1>2

LEMMA ValidateReceiptKeeps ==
  ASSUME BindersInv, ValidateReceipt
  PROVE  BindersInv'
  <1>1. CASE Fail
    BY <1>1, FailKeeps DEF ValidateReceipt
  <1>2. CASE ~Fail
    <2>1. /\ binder'.pc = "named" /\ binder'.rows = binder.rows /\ binder'.abi = binder.abi
          /\ binder.pc = "bind" /\ Len(binder.rows) = Externals
          /\ DOMAIN binder' = {"pc", "abi", "rows", "left"}
      BY <1>2 DEF ValidateReceipt, Binding, BindersInv, BinderTypeOK
    <2>2. UNCHANGED inputs
      BY DEF ValidateReceipt
    <2>3. RowsAreBound'
      BY <2>1, <2>2, RowsKept DEF BindersInv
    <2>4. BinderTypeOK'
      BY <2>1, <2>2, RowSetKept DEF BindersInv, BinderTypeOK, Points
    <2>5. MemoriesHoldTheImage'
      BY <2>1 DEF MemoriesHoldTheImage
    <2>6. QED
      BY <2>1, <2>2, <2>3, <2>4, <2>5 DEF BindersInv
  <1>3. QED
    BY <1>1, <1>2

(* A payload lies in the memory of its port the same, as long as the port  *)
(* has the same size.                                                      *)
LEMMA FilledKept ==
  ASSUME binder'.abi = binder.abi
  PROVE  \A n, bytes : Filled(n, bytes)' = Filled(n, bytes)
  BY DEF Filled

LEMMA SegmentsKept ==
  ASSUME UNCHANGED inputs
  PROVE  /\ Segments' = Segments /\ ExternalSegments' = ExternalSegments
         /\ \A s : SegmentBytes(s)' = SegmentBytes(s)
  BY DEF Segments, ExternalSegments, External, IsFloatState, SegmentBytes

LEMMA WriteNamedKeeps ==
  ASSUME BindersInv, WriteNamedMemories
  PROVE  BindersInv'
  <1>1. CASE Fail /\ UNCHANGED memories
    BY <1>1, FailKeeps DEF WriteNamedMemories
  <1>2. CASE ~(Fail /\ UNCHANGED memories)
    <2>1. /\ memories' = [n \in NamedPorts |-> Filled(n, SegmentBytes(Named(SegmentName(n))))]
          /\ binder' = [binder EXCEPT !.pc = inputs.mode, !.left = {s \in Segments : External(s)}]
          /\ \A n \in NamedPorts : \E s \in Segments : s.name = SegmentName(n)
      BY <1>2 DEF WriteNamedMemories
    <2>2. /\ binder'.pc = inputs.mode /\ binder'.rows = binder.rows /\ binder'.abi = binder.abi
          /\ binder'.left = ExternalSegments /\ binder.pc = "named"
          /\ DOMAIN binder' = {"pc", "abi", "rows", "left"}
      BY <2>1 DEF WriteNamedMemories, Binding, BindersInv, BinderTypeOK, ExternalSegments
    <2>3. UNCHANGED inputs
      BY DEF WriteNamedMemories
    <2>4. inputs.mode \in {"strict", "diagnostic"}
      BY BindingsAssumption DEF BindersInv, BinderTypeOK
    <2>5. BinderTypeOK'
      BY <2>2, <2>3, <2>4, RowSetKept DEF BindersInv, BinderTypeOK, Points
    <2>6. NamedHeld'
      <3>1. \A n \in NamedPorts : Named(SegmentName(n)) \in Segments
                                  /\ Named(SegmentName(n)).name = SegmentName(n)
        BY <2>1, NamedHasTheName DEF BindersInv, BinderTypeOK
      <3>2. \A n \in NamedPorts : memories'[n] = Filled(n, SegmentBytes(Named(SegmentName(n))))
        BY <2>1
      <3>3. QED
        BY <3>1, <3>2, <2>2, <2>3, FilledKept, SegmentsKept DEF NamedHeld
    <2>7. inputs.mode = "strict" => RowsAreBound' /\ Len(binder'.rows) = Externals
      BY <2>2, <2>3, RowsKept DEF BindersInv
    <2>8. DOMAIN memories' = NamedPorts /\ memories' = [n \in DOMAIN memories' |-> memories'[n]]
      BY <2>1
    <2>9. Guessed(0)'
      <3> DEFINE of == [n \in {} |-> 0]
      <3>1. FirstConstant + 1 .. FirstConstant + 0 = {}
        BY BindingsAssumption DEF FirstConstant
      <3>2. Given(0, of)'
        BY <3>1, <2>2, <2>3, SegmentsKept DEF Given
      <3>3. QED
        BY <3>1, <3>2, <2>2, <2>3, <2>8, SegmentsKept DEF Guessed
    <2>10. 0 \in 0 .. Externals - 1
      BY BindingsAssumption
    <2>11. MemoriesHoldTheImage'
      BY <2>2, <2>4 DEF MemoriesHoldTheImage
    <2>12. QED
      BY <2>2, <2>3, <2>4, <2>5, <2>6, <2>7, <2>8, <2>9, <2>10, <2>11 DEF BindersInv
  <1>3. QED
    BY <1>1, <1>2
(* The memories that hold no part of the image, and those that do.         *)
LEMMA PortsApart ==
  /\ FirstConstant \in ConstantPorts
  /\ TokenPort \notin ImagePorts /\ OutputPort \notin ImagePorts
  /\ NamedPorts \cap ConstantPorts = {}
  /\ ConstantPorts = {FirstConstant} \cup (FirstConstant + 1 .. FirstConstant + Externals - 1)
  /\ FirstConstant \notin FirstConstant + 1 .. FirstConstant + Externals - 1
  /\ ImagePorts \subseteq Ports
  <1>0. NamedCount \in Nat /\ Externals \in Nat /\ Externals >= 1
    BY BindingsAssumption
  <1>5. FirstConstant \in ConstantPorts /\ NamedPorts \cap ConstantPorts = {}
    BY <1>0 DEF FirstConstant, ConstantPorts, NamedPorts
  <1>6. TokenPort \notin ImagePorts /\ OutputPort \notin ImagePorts
    BY <1>0 DEF FirstConstant, ConstantPorts, TokenPort, OutputPort, ImagePorts, NamedPorts
  <1>7. /\ ConstantPorts = {FirstConstant} \cup (FirstConstant + 1 .. FirstConstant + Externals - 1)
        /\ FirstConstant \notin FirstConstant + 1 .. FirstConstant + Externals - 1
    BY <1>0 DEF FirstConstant, ConstantPorts
  <1>1. /\ FirstConstant \in ConstantPorts
        /\ TokenPort \notin ImagePorts /\ OutputPort \notin ImagePorts
        /\ NamedPorts \cap ConstantPorts = {}
        /\ ConstantPorts = {FirstConstant} \cup (FirstConstant + 1 .. FirstConstant + Externals - 1)
        /\ FirstConstant \notin FirstConstant + 1 .. FirstConstant + Externals - 1
    BY <1>5, <1>6, <1>7
  <1>2. FirstConstant \in Ports
    BY <1>1, BindingsAssumption
  <1>3. NamedPorts \subseteq Ports
    BY <1>2, BindingsAssumption DEF NamedPorts, FirstConstant, Ports
  <1>4. QED
    BY <1>1, <1>3, BindingsAssumption DEF ImagePorts

(* The zero scalar fills its memory as nothing does.                       *)
LEMMA ZerosFillNothing ==
  ASSUME NEW port, binder.abi[port].width = 8 * FloatBytes
  PROVE  Filled(port, [k \in 1..FloatBytes |-> 0]) = Filled(port, <<>>)
  <1> DEFINE zeros == [k \in 1..FloatBytes |-> 0]
  <1>1. FloatBytes \in Nat
    BY BindingsAssumption
  <1>2. Len(zeros) = FloatBytes
    BY <1>1
  <1>3. \A i \in Nat : 1 <= i => (IF i <= Len(zeros) THEN zeros[i] ELSE 0) = 0
    BY <1>1, <1>2
  <1>4. \A i \in Nat : 1 <= i => (IF i <= Len(<<>>) THEN <<>>[i] ELSE 0) = 0
    OBVIOUS
  <1>5. (binder.abi[port].width + 7) \div 8 = FloatBytes
    BY <1>1
  <1>6. \A address \in 0..(binder.abi[port].depth - 1) : \A k \in 1..FloatBytes :
          address * FloatBytes + k \in Nat /\ 1 <= address * FloatBytes + k
    BY <1>1
  <1> HIDE DEF zeros
  <1>7. \A bytes : (\A i \in Nat : 1 <= i => (IF i <= Len(bytes) THEN bytes[i] ELSE 0) = 0) =>
          Filled(port, bytes) = [address \in 0..(binder.abi[port].depth - 1) |->
                                   [k \in 1..FloatBytes |-> 0]]
    BY <1>5, <1>6 DEF Filled
  <1>8. QED
    BY <1>3, <1>4, <1>7 DEF zeros

LEMMA WriteBoundKeeps ==
  ASSUME BindersInv, WriteBoundMemories
  PROVE  BindersInv'
  <1>1. /\ binder.pc = "strict" /\ inputs.mode = "strict" /\ RowsAreBound
        /\ Len(binder.rows) = Externals /\ DOMAIN memories = NamedPorts /\ NamedHeld
        /\ AbiFits(inputs.design)
    BY DEF WriteBoundMemories, Binding, BindersInv
  <1>2. /\ binder'.pc = "done" /\ binder'.abi = binder.abi /\ binder'.rows = binder.rows
        /\ DOMAIN binder' = {"pc", "abi", "rows", "left"}
    BY DEF WriteBoundMemories, BindersInv, BinderTypeOK
  <1>3. UNCHANGED inputs
    BY DEF WriteBoundMemories
  <1>4. /\ DOMAIN memories' = NamedPorts \cup ConstantPorts \cup {TokenPort, OutputPort}
        /\ \A n \in {TokenPort, OutputPort} : memories'[n] = Filled(n, <<>>)
        /\ \A n \in ConstantPorts :
             memories'[n] = Filled(n, binder.rows[n - FirstConstant + 1].bytes)
        /\ \A n \in NamedPorts : memories'[n] = memories[n]
    <2>1. memories' = Extended([n \in ConstantPorts \cup {TokenPort, OutputPort} |->
                        IF n \in {TokenPort, OutputPort} THEN Filled(n, <<>>)
                        ELSE Filled(n, binder.rows[n - FirstConstant + 1].bytes)])
      BY DEF WriteBoundMemories, Buffers
    <2>2. QED
      BY <1>1, <2>1, PortsApart DEF Extended, ImagePorts
  <1>5. ASSUME NEW n \in ConstantPorts
        PROVE  /\ n - FirstConstant + 1 \in 1..Externals
               /\ binder.rows[n - FirstConstant + 1] = BoundRow(n - FirstConstant + 1)
               /\ Bound(n - FirstConstant + 1)
               /\ FirstConstant + (n - FirstConstant + 1) - 1 = n
    <2>1. n - FirstConstant + 1 \in 1..Externals /\ FirstConstant + (n - FirstConstant + 1) - 1 = n
      BY BindingsAssumption DEF ConstantPorts, FirstConstant
    <2>2. QED
      BY <2>1, <1>1 DEF RowsAreBound
  <1>6. \A n \in ImagePorts : inputs.design.enables[n] = "immutable"
    BY <1>1, PortsApart DEF AbiFits, EnablesAreThose
  <1>7. ASSUME NEW n \in ConstantPorts \ {FirstConstant}
        PROVE  GlobalHeld(n)'
    <2> DEFINE j == n - FirstConstant + 1
               row == inputs.lowering.named[j]
               global == inputs.lowering.globals[row.symbol]
               bytes == inputs.lowering.resources[global.initializer].bytes
    <2>1. /\ j \in 1..Externals /\ binder.rows[j] = BoundRow(j) /\ Bound(j)
          /\ FirstConstant + j - 1 = n
      BY <1>5
    <2>2. RowFits(global, row.shape, n)
      BY <2>1 DEF Bound, Global, Row
    <2>3. global.initializer # "zero" /\ RawBytes(global) = bytes
      BY <2>2 DEF RowFits, RawBytes
    <2>4. Len(bytes) = FloatBytes * Product(row.shape)
      BY <2>2, <2>3 DEF RowFits
    <2>5. memories'[n] = Filled(n, bytes)
      <3>1. memories'[n] = Filled(n, binder.rows[j].bytes)
        BY <1>4
      <3>2. binder.rows[j].bytes = RawBytes(Global(j))
        BY <2>1 DEF BoundRow
      <3>3. Global(j) = global
        BY DEF Global, Row
      <3>4. QED
        BY <3>1, <3>2, <3>3, <2>3
    <2>6. binder.abi[n].depth * FloatBytes >= Len(bytes)
      BY <2>2, <2>3 DEF RowFits
    <2>7. \E s \in Segments : IsFloatState(s) /\ SegmentBytes(s) = bytes
      BY <2>2, <2>3 DEF RowFits, Aliases, SameBits
    <2>8. (\A b : Filled(n, b)' = Filled(n, b)) /\ Segments' = Segments
          /\ (\A s : SegmentBytes(s)' = SegmentBytes(s))
      BY <1>2, <1>3, FilledKept, SegmentsKept
    <2>9. QED
      BY <1>2, <1>3, <2>4, <2>5, <2>6, <2>7, <2>8 DEF GlobalHeld, IsFloatState
  <1>8. memories'[FirstConstant] = Filled(FirstConstant, <<>>)
    <2>1. FirstConstant \in ConstantPorts /\ FirstConstant - FirstConstant + 1 = 1
      BY PortsApart, BindingsAssumption DEF FirstConstant
    <2>2. binder.rows[1] = BoundRow(1) /\ RowFits(Global(1), Row(1).shape, FirstConstant)
      BY <2>1, <1>5 DEF Bound
    <2>3. RawBytes(Global(1)) = [k \in 1..FloatBytes |-> 0]
      BY <2>2 DEF RowFits, RawBytes
    <2>4. binder.rows[1].bytes = RawBytes(Global(1))
      BY <2>2 DEF BoundRow
    <2>5. memories'[FirstConstant] = Filled(FirstConstant, binder.rows[1].bytes)
      BY <1>4, <2>1
    <2>6. binder.abi[FirstConstant].width = 8 * FloatBytes
      BY <2>2 DEF RowFits
    <2>7. QED
      BY <2>3, <2>4, <2>5, <2>6, ZerosFillNothing
  <1>9. \A n \in NamedPorts :
          \E s \in Segments : s.name = SegmentName(n) /\ memories'[n] = Filled(n, SegmentBytes(s))
    BY <1>1, <1>4 DEF NamedHeld
  <1>10. MemoriesHoldTheImage'
    <2>1. (\A n, bytes : Filled(n, bytes)' = Filled(n, bytes)) /\ Segments' = Segments
          /\ (\A s : SegmentBytes(s)' = SegmentBytes(s))
      BY <1>2, <1>3, FilledKept, SegmentsKept
    <2>2. DOMAIN memories' = ImagePorts \cup {TokenPort, OutputPort}
      BY <1>4 DEF ImagePorts
    <2>3. inputs'.mode = "strict" /\ binder'.abi = binder.abi
      BY <1>1, <1>2, <1>3
    <2>4. \A n \in {TokenPort, OutputPort, FirstConstant} : memories'[n] = Filled(n, <<>>)
      BY <1>4, <1>8
    <2>5. NamedHeld'
      BY <1>9, <2>1 DEF NamedHeld
    <2>6. QED
      BY <1>3, <1>6, <1>7, <2>1, <2>2, <2>3, <2>4, <2>5 DEF MemoriesHoldTheImage
  <1>11. BinderTypeOK'
    BY <1>2, <1>3, RowSetKept DEF BindersInv, BinderTypeOK, Points
  <1>12. QED
    BY <1>1, <1>2, <1>3, <1>10, <1>11 DEF BindersInv
(* The ports that were given a segment are the first ones.                 *)
LEMMA WrittenPorts ==
  ASSUME NEW count \in 0 .. Externals - 1, Guessed(count)
  PROVE  /\ DOMAIN memories \cap ConstantPorts = FirstConstant + 1 .. FirstConstant + count
         /\ Cardinality(DOMAIN memories \cap ConstantPorts) = count
  <1>1. FirstConstant + 1 .. FirstConstant + count \subseteq ConstantPorts
    BY BindingsAssumption DEF FirstConstant, ConstantPorts
  <1>2. DOMAIN memories \cap ConstantPorts = FirstConstant + 1 .. FirstConstant + count
    BY <1>1, PortsApart DEF Guessed
  <1>3. FirstConstant \in Int /\ count \in Nat /\ FirstConstant + 1 \in Int /\ FirstConstant + count \in Int
    BY BindingsAssumption DEF FirstConstant
  <1>4. Cardinality(FirstConstant + 1 .. FirstConstant + count) = count
    BY <1>3, FS_Interval
  <1>5. QED
    BY <1>2, <1>4

(* Among the candidates for a port one has the first name.                 *)
LEMMA FirstCandidate ==
  ASSUME inputs.package \in Packages, NEW candidates, candidates \subseteq Segments, candidates # {}
  PROVE  LET place(s) == CHOOSE k \in DOMAIN NameOrder : NameOrder[k] = s.name IN
         (CHOOSE t \in candidates : \A u \in candidates : place(t) <= place(u)) \in candidates
  <1> DEFINE place(s) == CHOOSE k \in DOMAIN NameOrder : NameOrder[k] = s.name
             T == {place(t) : t \in candidates}
  <1>1. ASSUME NEW t \in candidates
        PROVE  place(t) \in Nat
    <2>1. PICK n \in DOMAIN inputs.package.segments : t = inputs.package.segments[n]
      BY DEF Segments, ToSet
    <2>2. t.name \in ToSet(NameOrder)
      BY <2>1, BindingsAssumption
    <2>3. \E k \in DOMAIN NameOrder : NameOrder[k] = t.name
      BY <2>2 DEF ToSet
    <2>4. place(t) \in DOMAIN NameOrder
      BY <2>3
    <2>5. DOMAIN NameOrder \subseteq Nat
      BY BindingsAssumption
    <2>6. QED
      BY <2>4, <2>5
  <1> HIDE DEF place
  <1>2. T \subseteq Nat /\ T # {}
    BY <1>1
  <1>3. PICK x \in T : \A y \in T : x <= y
    BY <1>2, LeastNatural
  <1>6. PICK first \in candidates : x = place(first)
    OBVIOUS
  <1>7. \A u \in candidates : place(first) <= place(u)
    BY <1>3, <1>6
  <1>4. \E r \in candidates : \A u \in candidates : place(r) <= place(u)
    BY <1>7
  <1>5. (CHOOSE t \in candidates : \A u \in candidates : place(t) <= place(u)) \in candidates
    BY <1>4
  <1>8. QED
    BY <1>5 DEF place

LEMMA WriteGuessedKeeps ==
  ASSUME BindersInv, WriteGuessedMemory
  PROVE  BindersInv'
  <1> DEFINE written == DOMAIN memories \cap ConstantPorts
             port == FirstConstant + 1 + Cardinality(written)
             candidates == {s \in binder.left :
                        /\ s.shape # <<>>
                        /\ Product(s.shape) = Elements(port, binder.abi[port].depth)
                        /\ binder.abi[port].width = 8 * FloatBytes}
             place(s) == CHOOSE k \in DOMAIN NameOrder : NameOrder[k] = s.name
             s == CHOOSE t \in candidates : \A u \in candidates : place(t) <= place(u)
  <1>1. CASE Fail /\ UNCHANGED memories
    BY <1>1, FailKeeps DEF WriteGuessedMemory
  <1>2. CASE ~(Fail /\ UNCHANGED memories)
    <2>1. /\ binder.pc = "diagnostic" /\ port \in ConstantPorts /\ candidates # {}
          /\ memories' = Extended([n \in {port} |-> Filled(port, SegmentBytes(s))])
          /\ binder' = [binder EXCEPT !.left = @ \ {s}]
          /\ UNCHANGED inputs
      BY <1>2 DEF WriteGuessedMemory, Binding
    <2>2. PICK count \in 0 .. Externals - 1 : Guessed(count)
      BY <2>1 DEF BindersInv
    <2>3. written = FirstConstant + 1 .. FirstConstant + count /\ port = FirstConstant + 1 + count
      BY <2>2, WrittenPorts
    <2>4. count + 1 \in 0 .. Externals - 1 /\ port \notin NamedPorts
          /\ (FirstConstant + 1 .. FirstConstant + (count + 1))
               = (FirstConstant + 1 .. FirstConstant + count) \cup {port}
          /\ port \notin FirstConstant + 1 .. FirstConstant + count
      <3>1. FirstConstant \in Nat /\ Externals \in Nat /\ count \in Nat /\ NamedCount \in Nat
            /\ FirstConstant = NamedCount + 2
        BY BindingsAssumption DEF FirstConstant
      <3>2. FirstConstant + 1 + count \in FirstConstant .. FirstConstant + Externals - 1
        BY <2>1, <2>3 DEF ConstantPorts
      <3>3. count + 1 \in 0 .. Externals - 1
        BY <3>1, <3>2
      <3>4. port \notin NamedPorts
        BY <3>1, <2>3 DEF NamedPorts
      <3>5. (FirstConstant + 1 .. FirstConstant + (count + 1))
               = (FirstConstant + 1 .. FirstConstant + count) \cup {FirstConstant + 1 + count}
            /\ FirstConstant + 1 + count \notin FirstConstant + 1 .. FirstConstant + count
        BY <3>1
      <3> HIDE DEF port
      <3>6. QED
        BY <3>3, <3>4, <3>5, <2>3
    <2>5. candidates \subseteq Segments /\ candidates \subseteq ExternalSegments
      BY <2>2 DEF Guessed, ExternalSegments
    <2>6. s \in candidates
      BY <2>1, <2>5, FirstCandidate DEF BindersInv, BinderTypeOK
    <2> HIDE DEF s, port, candidates, place, written
    <2>7. s \in binder.left /\ s \in ExternalSegments
      BY <2>5, <2>6 DEF candidates
    <2>8. /\ binder'.pc = "diagnostic" /\ binder'.rows = binder.rows /\ binder'.abi = binder.abi
          /\ binder'.left = binder.left \ {s}
          /\ DOMAIN binder' = {"pc", "abi", "rows", "left"}
      BY <2>1 DEF BindersInv, BinderTypeOK
    <2>9. /\ DOMAIN memories' = DOMAIN memories \cup {port}
          /\ memories'[port] = Filled(port, SegmentBytes(s))
          /\ \A n \in DOMAIN memories \ {port} : memories'[n] = memories[n]
          /\ memories' = [n \in DOMAIN memories' |-> memories'[n]]
      BY <2>1 DEF Extended
    <2>10. (\A n, bytes : Filled(n, bytes)' = Filled(n, bytes)) /\ Segments' = Segments
          /\ (\A t : SegmentBytes(t)' = SegmentBytes(t)) /\ ExternalSegments' = ExternalSegments
      BY <2>1, <2>8, FilledKept, SegmentsKept
    <2>11. PICK of : Given(count, of)
      BY <2>2 DEF Guessed
    <2> DEFINE I == FirstConstant + 1 .. FirstConstant + count
               J == FirstConstant + 1 .. FirstConstant + (count + 1)
               more == [n \in J |-> IF n = port THEN s ELSE of[n]]
    <2>12. J = I \cup {port} /\ port \notin I /\ port \notin NamedPorts
           /\ DOMAIN memories = NamedPorts \cup I /\ DOMAIN of = I
      BY <2>2, <2>4, <2>11 DEF Guessed, Given
    <2> HIDE DEF I, J
    <2>19. PICK g : g = more
      OBVIOUS
    <2>13. Given(count + 1, g)'
      <3>1. more \in [J -> ExternalSegments] /\ DOMAIN more = J
        BY <2>7, <2>11, <2>12 DEF Given, I
      <3>2. \A n \in I : more[n] = of[n] /\ of[n] \notin binder.left /\ of[n] # s
        BY <2>7, <2>11, <2>12 DEF Given
      <3>3. more[port] = s
        BY <2>12
      <3>4. \A m, n \in J : more[m] = more[n] => m = n
        BY <3>2, <3>3, <2>11, <2>12 DEF Given
      <3>5. \A n \in J : more[n] \notin binder'.left
        BY <3>2, <3>3, <2>8, <2>12
      <3>6. \A t \in ExternalSegments : t \in binder'.left \/ \E n \in J : more[n] = t
        BY <3>2, <3>3, <2>8, <2>11, <2>12 DEF Given
      <3>7. \A n \in J : memories'[n] = Filled(n, SegmentBytes(more[n]))
        BY <3>2, <3>3, <2>9, <2>11, <2>12 DEF Given
      <3> HIDE DEF more
      <3>8. FirstConstant + 1 .. FirstConstant + (count + 1) = J
        BY DEF J
      <3>9. /\ g \in [J -> ExternalSegments'] /\ DOMAIN g = J
            /\ \A m, n \in J : g[m] = g[n] => m = n
            /\ \A n \in J : g[n] \notin binder'.left
            /\ \A t \in ExternalSegments' : t \in binder'.left \/ \E n \in J : g[n] = t
            /\ \A n \in J : memories'[n] = Filled(n, SegmentBytes(g[n]))'
        BY <3>1, <3>4, <3>5, <3>6, <3>7, <2>10, <2>19
      <3>10. QED
        BY <3>8, <3>9 DEF Given
    <2>14. Guessed(count + 1)'
      <3>1. DOMAIN memories' = NamedPorts \cup J
        BY <2>9, <2>12
      <3>2. binder'.left \subseteq ExternalSegments'
        BY <2>2, <2>8, <2>10 DEF Guessed
      <3>3. QED
        BY <3>1, <3>2, <2>13 DEF Guessed, J
    <2>15. NamedHeld'
      <3>1. \A n \in NamedPorts : memories'[n] = memories[n]
        BY <2>9, <2>12
      <3>2. QED
        BY <3>1, <2>1, <2>10 DEF BindersInv, NamedHeld
    <2>16. BinderTypeOK'
      BY <2>1, <2>8, RowSetKept DEF BindersInv, BinderTypeOK, Points
    <2>17. MemoriesHoldTheImage'
      BY <2>8 DEF MemoriesHoldTheImage
    <2>18. QED
      BY <2>1, <2>4, <2>8, <2>9, <2>14, <2>15, <2>16, <2>17 DEF BindersInv
  <1>3. QED
    BY <1>1, <1>2

LEMMA WriteBuffersKeeps ==
  ASSUME BindersInv, WriteBuffers
  PROVE  BindersInv'
  <1>1. CASE Fail /\ UNCHANGED memories
    BY <1>1, FailKeeps DEF WriteBuffers
  <1>2. CASE ~(Fail /\ UNCHANGED memories)
    <2>1. /\ binder.pc = "diagnostic" /\ inputs.mode = "diagnostic" /\ binder.left = {}
          /\ Cardinality(DOMAIN memories \cap ConstantPorts) = Externals - 1
          /\ memories' = Extended([n \in {FirstConstant} \cup {TokenPort, OutputPort}
                                     |-> Filled(n, <<>>)])
          /\ binder' = [binder EXCEPT !.pc = "done"]
          /\ UNCHANGED inputs /\ NamedHeld /\ AbiFits(inputs.design)
      BY <1>2 DEF WriteBuffers, Binding, Buffers, BindersInv
    <2>2. PICK count \in 0 .. Externals - 1 : Guessed(count)
      BY <2>1 DEF BindersInv
    <2>3. count = Externals - 1
      BY <2>1, <2>2, WrittenPorts
    <2> DEFINE I == FirstConstant + 1 .. FirstConstant + count
    <2>4. I = ConstantPorts \ {FirstConstant} /\ FirstConstant \notin I
          /\ I \subseteq ConstantPorts
      BY <2>3, PortsApart
    <2> HIDE DEF I
    <2>5. DOMAIN memories = NamedPorts \cup I
      BY <2>2 DEF Guessed, I
    <2>6. /\ DOMAIN memories' = DOMAIN memories \cup {FirstConstant, TokenPort, OutputPort}
          /\ \A n \in {TokenPort, OutputPort, FirstConstant} : memories'[n] = Filled(n, <<>>)
          /\ \A n \in NamedPorts \cup I : memories'[n] = memories[n]
      BY <2>1, <2>4, <2>5, PortsApart DEF Extended, ImagePorts
    <2>7. /\ binder'.pc = "done" /\ binder'.rows = binder.rows /\ binder'.abi = binder.abi
          /\ DOMAIN binder' = {"pc", "abi", "rows", "left"}
      BY <2>1 DEF BindersInv, BinderTypeOK
    <2>8. (\A n, bytes : Filled(n, bytes)' = Filled(n, bytes)) /\ Segments' = Segments
          /\ (\A t : SegmentBytes(t)' = SegmentBytes(t)) /\ ExternalSegments' = ExternalSegments
      BY <2>1, <2>7, FilledKept, SegmentsKept
    <2>9. PICK of : Given(count, of)
      BY <2>2 DEF Guessed
    <2>10. /\ of \in [ConstantPorts \ {FirstConstant} -> ExternalSegments]
           /\ \A m, n \in DOMAIN of : of[m] = of[n] => m = n
           /\ \A t \in ExternalSegments : \E n \in DOMAIN of : of[n] = t
           /\ \A n \in DOMAIN of : memories'[n] = Filled(n, SegmentBytes(of[n]))
      BY <2>1, <2>4, <2>6, <2>9 DEF Given, I
    <2>11. \A n \in ImagePorts : inputs.design.enables[n] = "immutable"
      BY <2>1, PortsApart DEF AbiFits, EnablesAreThose
    <2>12. \A n \in NamedPorts :
             \E t \in Segments : t.name = SegmentName(n) /\ memories'[n] = Filled(n, SegmentBytes(t))
      BY <2>1, <2>6 DEF NamedHeld
    <2>13. DOMAIN memories' = ImagePorts \cup {TokenPort, OutputPort}
      BY <2>4, <2>5, <2>6, PortsApart DEF ImagePorts
    <2>14. \E g \in [ConstantPorts \ {FirstConstant} -> {t \in Segments : External(t)}] :
            /\ \A m, n \in DOMAIN g : g[m] = g[n] => m = n
            /\ \A t \in Segments : External(t) => \E n \in DOMAIN g : g[n] = t
            /\ \A n \in DOMAIN g : memories'[n] = Filled(n, SegmentBytes(g[n]))
      BY <2>10 DEF ExternalSegments
    <2>15. \A t : External(t)' = External(t)
      BY DEF External, IsFloatState
    <2>19. ExternalsHeld'
      BY <2>8, <2>14, <2>15 DEF ExternalsHeld
    <2>20. NamedHeld'
      BY <2>8, <2>12 DEF NamedHeld
    <2>16. MemoriesHoldTheImage'
      BY <2>1, <2>6, <2>8, <2>11, <2>13, <2>19, <2>20 DEF MemoriesHoldTheImage
    <2>17. BinderTypeOK'
      BY <2>1, <2>7, RowSetKept DEF BindersInv, BinderTypeOK, Points
    <2>18. QED
      BY <2>1, <2>7, <2>16, <2>17 DEF BindersInv
  <1>3. QED
    BY <1>1, <1>2

LEMMA BindingStep ==
  BindersInv /\ [BindingsNext]_bindingVars => BindersInv'
  <1>1. SUFFICES ASSUME BindersInv, [BindingsNext]_bindingVars PROVE BindersInv'
    OBVIOUS
  <1>2. CASE UNCHANGED bindingVars
    <2>1. UNCHANGED inputs /\ UNCHANGED binder /\ UNCHANGED memories
      BY <1>2 DEF bindingVars
    <2>2. BinderTypeOK'
      BY <1>1, <2>1, RowSetKept DEF BindersInv, BinderTypeOK
    <2>3. RowsAreBound => RowsAreBound'
      BY <2>1, RowsKept
    <2>4. NamedHeld' = NamedHeld
      BY <2>1 DEF NamedHeld, Segments, Filled, SegmentBytes
    <2>5. \A count : Guessed(count)' = Guessed(count)
      <3>1. binder'.abi = binder.abi
        BY <2>1
      <3>2. \A count, of : Given(count, of)' = Given(count, of)
        BY <3>1, <2>1, SegmentsKept, FilledKept DEF Given
      <3>3. QED
        BY <3>2, <2>1, SegmentsKept DEF Guessed
    <2>6. MemoriesHoldTheImage'
      <3>1. MemoriesHoldTheImage
        BY <1>1 DEF BindersInv
      <3>2. /\ \A n, bytes : Filled(n, bytes)' = Filled(n, bytes)
            /\ Segments' = Segments /\ ExternalSegments' = ExternalSegments
            /\ \A t : SegmentBytes(t)' = SegmentBytes(t)
            /\ \A t : External(t)' = External(t)
        BY <2>1, SegmentsKept, FilledKept DEF External, IsFloatState
      <3>3. NamedHeld' = NamedHeld
        BY <2>1, <3>2 DEF NamedHeld
      <3>4. \A n : GlobalHeld(n)' = GlobalHeld(n)
        BY <2>1, <3>2 DEF GlobalHeld, IsFloatState
      <3>5. ExternalsHeld' = ExternalsHeld
        BY <2>1, <3>2 DEF ExternalsHeld
      <3>6. QED
        BY <2>1, <3>1, <3>2, <3>3, <3>4, <3>5 DEF MemoriesHoldTheImage
    <2>7. QED
      BY <1>1, <2>1, <2>2, <2>3, <2>4, <2>5, <2>6 DEF BindersInv
  <1>3. CASE BindingsNext
    BY <1>1, <1>3, LoadProofKeeps, AcceptPortsKeeps, ReadLoweringKeeps, BindGlobalKeeps,
       ValidateReceiptKeeps, WriteNamedKeeps, WriteBoundKeeps, WriteGuessedKeeps,
       WriteBuffersKeeps DEF BindingsNext
  <1>4. QED
    BY <1>1, <1>2, <1>3

\* Once the memories are written, each image port holds its segment, the
\* constant ports hold the globals of the lowering in order, no immutable
\* port is writable and the buffers are empty.
THEOREM WrittenMemoriesHoldTheImage == BindingsSpec => []MemoriesHoldTheImage
  <1>1. BindingsInit => BindersInv
    BY BinderInit
  <1>2. BindersInv /\ [BindingsNext]_bindingVars => BindersInv'
    BY BindingStep
  <1>3. BindersInv => MemoriesHoldTheImage
    BY DEF BindersInv
  <1>4. QED
    BY <1>1, <1>2, <1>3, PTL DEF BindingsSpec

-----------------------------------------------------------------------------
(***************************************************************************)
(* The diagnostic mode.  A step that compiles has, as long as no input was *)
(* exchanged, made what it has made of the inputs; what an earlier compile *)
(* left, if it ended undisturbed, is of the inputs its metadata name.      *)
(***************************************************************************)

(* The first row with the id that is asked for is one of the rows.         *)
LEMMA CaseIsARow ==
  ASSUME NEW rows, Len(rows) \in Nat, NEW id, HasCase(rows, id)
  PROVE  case_index(rows, id) \in 1..Len(rows) /\ rows[case_index(rows, id)].id = id
  <1> DEFINE T == {i \in 1..Len(rows) : rows[i].id = id}
  <1>1. T \subseteq Nat /\ T # {}
    BY DEF HasCase
  <1>2. PICK i \in T : \A j \in T : i <= j
    BY <1>1, LeastNatural
  <1>3. rows[i].id = id /\ i \in 1..Len(rows)
    OBVIOUS
  <1>4. \A j \in 1..(i - 1) : rows[j].id # id
    <2>1. SUFFICES ASSUME NEW j \in 1..(i - 1), rows[j].id = id PROVE FALSE
      OBVIOUS
    <2>2. j \in 1..Len(rows) /\ j < i
      BY <1>3
    <2>3. j \in T
      BY <2>1, <2>2
    <2> QED
      BY <1>2, <2>2, <2>3, <1>3
  <1> HIDE DEF T
  <1>5. QED
    BY <1>3, <1>4 DEF case_index

(* Of several rows with one id the last is one of them.                    *)
LEMMA LastIsOfThem ==
  ASSUME NEW rows, NEW indexes, NEW bound \in Nat, indexes \subseteq 1..bound,
         NEW id \in IdsOf(rows, indexes)
  PROVE  LastOf(rows, indexes, id) \in indexes /\ rows[LastOf(rows, indexes, id)].id = id
  <1> DEFINE T == {i \in indexes : rows[i].id = id}
  <1>0. PICK k \in indexes : rows[k].id = id
    BY DEF IdsOf
  <1>9. \A x \in indexes : x \in Nat /\ x <= bound
    OBVIOUS
  <1>10. k \in T
    BY <1>0
  <1>1. T \subseteq Nat /\ T # {} /\ \A x \in T : x <= bound
    BY <1>9, <1>10
  <1>2. PICK i \in T : \A j \in T : i >= j
    BY <1>1, GreatestNatural
  <1>3. i \in indexes /\ rows[i].id = id
    OBVIOUS
  <1>4. \A j \in indexes : rows[j].id = id => j <= i
    BY <1>1, <1>2
  <1> HIDE DEF T
  <1>5. QED
    BY <1>3, <1>4 DEF LastOf

(* What a bench of the reference's rows prints, if it is as expected, is   *)
(* earned for every case that is asked for.                                *)
PassesEarned(c, reference, sv, loaded) ==
  \A j \in Judged(c, reference) :
    LET id == reference[j].id
        expected == ExpectedRows(c, reference)[id]
    IN  /\ ObservedToken(expected.codes) = expected.token
        /\ \E i \in 1..Len(reference) :
              LET row == reference[i] IN
              /\ row.id = id
              /\ Answers(sv, loaded, row)
              /\ Answered(sv, loaded, row, Asks(c, "stop-after-output")) = expected.codes

LEMMA AsExpectedIsEarned ==
  ASSUME NEW c, NEW reference, Len(reference) \in Nat, NEW sv, NEW loaded, NEW binary,
         binary.circuit = sv, binary.bench.rows = CompiledRows(c, reference),
         c.case # NoCase => HasCase(reference, c.case), IsStatic(c) => c.case # NoCase,
         AsExpected(Observed(binary, loaded, c, reference), ExpectedRows(c, reference))
  PROVE  PassesEarned(c, reference, sv, loaded)
  <1> DEFINE rows == binary.bench.rows
             chosen == Selected(binary.bench, c, reference)
             printed == PrintedRows(binary, loaded, chosen)
             observed == Observed(binary, loaded, c, reference)
             expected == ExpectedRows(c, reference)
             stops == Asks(c, "stop-after-output")
  <1>1. Len(rows) \in Nat /\ \A i \in 1..Len(rows) : \E n \in 1..Len(reference) : rows[i] = reference[n]
    <2>1. CASE IsStatic(c)
      <3>1. case_index(reference, c.case) \in 1..Len(reference)
        BY <2>1, CaseIsARow
      <3>2. rows = <<reference[case_index(reference, c.case)]>>
        BY <2>1 DEF CompiledRows
      <3> QED
        BY <3>1, <3>2
    <2>2. CASE ~IsStatic(c)
      BY <2>2 DEF CompiledRows
    <2> QED
      BY <2>1, <2>2
  <1>2. chosen \subseteq 1..Len(rows)
    <2>1. c.case # NoCase => case_index(reference, c.case) \in 1..Len(reference)
      BY CaseIsARow
    <2> QED
      BY <2>1, <1>1 DEF Selected
  <1>3. printed \subseteq 1..Len(rows)
    BY <1>2 DEF PrintedRows
  <1>4. \A i \in printed : Answers(sv, loaded, rows[i])
    BY DEF PrintedRows
  <1>5. observed = [id \in IdsOf(rows, printed) |->
                      Answered(sv, loaded, rows[LastOf(rows, printed, id)], stops)]
    BY DEF Observed
  <1>6. DOMAIN observed = DOMAIN expected
        /\ \A id \in DOMAIN expected : /\ observed[id] = expected[id].codes
                                      /\ ObservedToken(observed[id]) = expected[id].token
    BY DEF AsExpected
  <1>7. DOMAIN expected = IdsOf(reference, Judged(c, reference))
    BY DEF ExpectedRows
  <1> HIDE DEF rows, chosen, printed, observed, expected, stops
  <1>8. ASSUME NEW j \in Judged(c, reference)
        PROVE  /\ ObservedToken(expected[reference[j].id].codes) = expected[reference[j].id].token
               /\ \E i \in 1..Len(reference) :
                     /\ reference[i].id = reference[j].id
                     /\ Answers(sv, loaded, reference[i])
                     /\ Answered(sv, loaded, reference[i], stops) = expected[reference[j].id].codes
    <2>1. PICK id : id = reference[j].id
      OBVIOUS
    <2>2. id \in DOMAIN expected /\ id \in IdsOf(rows, printed)
      <3>1. id \in DOMAIN expected
        BY <1>7, <2>1 DEF IdsOf
      <3> QED
        BY <3>1, <1>5, <1>6
    <2>3. observed[id] = expected[id].codes /\ ObservedToken(expected[id].codes) = expected[id].token
      BY <1>6, <2>2
    <2>4. PICK k : k = LastOf(rows, printed, id)
      OBVIOUS
    <2>5. k \in printed /\ rows[k].id = id
      BY <2>2, <2>4, <1>1, <1>3, LastIsOfThem
    <2>6. PICK n \in 1..Len(reference) : rows[k] = reference[n]
      BY <2>5, <1>1, <1>3
    <2>7. Answered(sv, loaded, rows[k], stops) = expected[id].codes
      BY <1>5, <2>2, <2>3, <2>4
    <2>8. Answers(sv, loaded, rows[k])
      BY <1>4, <2>5
    <2> QED
      BY <2>1, <2>3, <2>5, <2>6, <2>7, <2>8
  <1> QED
    BY <1>8 DEF PassesEarned, expected, stops

-----------------------------------------------------------------------------
(* The diagnostic mode's invariant. *)

CompilesHere == {"image", "memories", "bench", "codegen", "build", "hash", "metadata"}
LoadsHere == {"load", "verify", "binary"}
Underway == {"reference", "design", "simulate", "compare", "pass"} \cup CompilesHere \cup LoadsHere

IsDirectory(d) ==
  /\ d \in [main : {d.main}, memories : {d.memories}, bench : {d.bench},
            generated : {d.generated}, binary : {d.binary}, metadata : {d.metadata}]
  /\ DOMAIN d.binary = Simulators

DiagnosticTypes ==
  /\ given \in [sv : {given.sv}, image : {given.image}, manifest : {given.manifest},
                reference : Contents["reference"]]
  /\ DOMAIN work = Places /\ \A p \in Places : IsDirectory(work[p])
  /\ settled \in [Places -> BOOLEAN]
  /\ attempt \in [pc : {attempt.pc}, command : Commands \cup {NoAttempt.command},
                  rows : {attempt.rows}, circuit : {attempt.circuit}, image : {attempt.image},
                  metadata : {attempt.metadata}, hashes : {attempt.hashes}, done : 0..4,
                  observed : {attempt.observed}, steady : BOOLEAN]
  /\ DOMAIN attempt.hashes = InputFiles

(* The case that is asked for is one of the rows.                          *)
RowsAreRead ==
  /\ attempt.pc \in Underway =>
       /\ Asks(Command, "run-only") => Place = "named"
       /\ IsStatic(Command) => Command.case # NoCase
  /\ attempt.pc \in Underway \ {"reference"} =>
       /\ attempt.rows \in Contents["reference"]
       /\ Command.case # NoCase => HasCase(attempt.rows, Command.case)
       /\ attempt.steady => attempt.rows = given.reference
  /\ attempt.pc \in CompilesHere \cup {"design"} => ~Asks(Command, "run-only")
  /\ attempt.pc \in LoadsHere => Asks(Command, "run-only")
  /\ attempt.pc \in Underway \ {"hash", "metadata", "verify", "binary", "simulate", "compare", "pass"}
       => attempt.done = 0
  /\ attempt.pc \in {"hash", "verify"} => attempt.done \in 0..3

Compiled(c, sv, reference) == [circuit |-> sv, bench |-> Bench(c, sv, reference)]

CompileIsOfTheInputs ==
  /\ attempt.pc \in CompilesHere => ~settled[Place]
  /\ attempt.steady =>
       /\ attempt.pc \in CompilesHere =>
            attempt.circuit = given.sv /\ Directory.main = Normalized(given.sv)
       /\ attempt.pc = "memories" => attempt.image = given.image
       /\ attempt.pc \in CompilesHere \ {"image", "memories"} =>
            Directory.memories = Memories(given.image, given.manifest)
       /\ attempt.pc \in {"codegen", "build"} =>
            Directory.bench = Bench(Command, given.sv, given.reference)
       /\ attempt.pc = "build" /\ Command.simulator = "verilator" =>
            Directory.generated = Compiled(Command, given.sv, given.reference)
       /\ attempt.pc \in {"hash", "metadata"} =>
            Binary = Compiled(Command, given.sv, given.reference)
       /\ attempt.pc = "hash" => \A n \in 1..attempt.done : attempt.hashes[Inputs[n]] = given[Inputs[n]]
       /\ attempt.pc = "metadata" => \A f \in InputFiles : attempt.hashes[f] = given[f]

(* What an undisturbed compile left is of the inputs that its metadata     *)
(* name.                                                                   *)
IsWhole(d) ==
  /\ d.metadata.simulator \in Simulators
  /\ d.memories = Memories(d.metadata.inputs["image"], d.metadata.inputs["manifest"])
  /\ \E c : /\ d.metadata.fixture = fixture_cache_identity(c)
           /\ d.binary[d.metadata.simulator] =
                Compiled(c, d.metadata.inputs["sv"], d.metadata.inputs["reference"])
SettledIsWhole == settled["named"] => IsWhole(work["named"])

LoadedIsOfTheInputs ==
  /\ attempt.pc \in {"verify", "binary"} =>
       /\ attempt.metadata = Directory.metadata
       /\ Directory.metadata.simulator = Command.simulator
       /\ Directory.metadata.fixture = fixture_cache_identity(Command)
  /\ attempt.pc = "verify" => Asks(Command, "verify-cache")
  /\ attempt.pc = "verify" /\ attempt.steady =>
       \A n \in 1..attempt.done : attempt.metadata.inputs[Inputs[n]] = given[Inputs[n]]
  /\ attempt.pc = "binary" /\ attempt.steady /\ Asks(Command, "verify-cache") =>
       \A f \in InputFiles : attempt.metadata.inputs[f] = given[f]

(* What is simulated is of the inputs.                                     *)
SimulatedIsOfTheInputs ==
  /\ attempt.pc \in {"simulate", "compare", "pass"} /\ Trusted =>
       /\ Directory.memories = Memories(given.image, given.manifest)
       /\ Binary.circuit = given.sv
       /\ Binary.bench.rows = CompiledRows(Command, given.reference)
  /\ attempt.pc \in {"compare", "pass"} =>
       attempt.observed = Observed(Binary, Directory.memories, Command, attempt.rows)
  /\ attempt.pc = "pass" => AsExpected(attempt.observed, ExpectedRows(Command, attempt.rows))

DiagnosticInv ==
  /\ DiagnosticTypes /\ RowsAreRead /\ CompileIsOfTheInputs /\ SettledIsWhole
  /\ LoadedIsOfTheInputs /\ SimulatedIsOfTheInputs

(* The initial states                                                      *)
LEMMA DiagnosticInitInv == DiagnosticInit => DiagnosticInv
  <1> SUFFICES ASSUME DiagnosticInit PROVE DiagnosticInv
    OBVIOUS
  <1> USE DEF DiagnosticInit, NoAttempt
  <1>1. IsDirectory(NoDirectory)
    BY DEF NoDirectory, IsDirectory
  <1>2. DiagnosticTypes
    BY <1>1 DEF DiagnosticTypes
  <1>3. attempt.pc = "idle" /\ ~settled["named"]
    BY DEF Places
  <1>4. QED
    BY <1>2, <1>3 DEF DiagnosticInv, RowsAreRead, CompileIsOfTheInputs, SettledIsWhole,
       LoadedIsOfTheInputs, SimulatedIsOfTheInputs, Underway, CompilesHere, LoadsHere

LEMMA StartKeeps ==
  ASSUME DiagnosticInv, StartDiagnostic
  PROVE  DiagnosticInv'
  <1>1. PICK c \in Commands :
          /\ attempt' = [NoAttempt EXCEPT !.pc = Dispatch(c), !.command = c]
          /\ work' = IF c.place = "temporary" THEN [work EXCEPT !["temporary"] = NoDirectory] ELSE work
    BY DEF StartDiagnostic
  <1>2. UNCHANGED <<given, settled>>
    BY DEF StartDiagnostic
  <1>3. attempt'.pc = Dispatch(c) /\ attempt'.command = c /\ attempt'.done = 0 /\ attempt'.steady = TRUE
    BY <1>1 DEF NoAttempt
  <1>4. IsDirectory(NoDirectory)
    BY DEF NoDirectory, IsDirectory
  <1>5. DiagnosticTypes'
    <2>1. DOMAIN work' = Places /\ \A p \in Places : IsDirectory(work'[p])
      BY <1>1, <1>4 DEF DiagnosticInv, DiagnosticTypes
    <2>2. DOMAIN attempt'.hashes = InputFiles
      BY <1>1 DEF NoAttempt
    <2>3. attempt' \in [pc : {attempt'.pc}, command : Commands \cup {NoAttempt.command},
                  rows : {attempt'.rows}, circuit : {attempt'.circuit}, image : {attempt'.image},
                  metadata : {attempt'.metadata}, hashes : {attempt'.hashes}, done : 0..4,
                  observed : {attempt'.observed}, steady : BOOLEAN]
      <3>1. attempt' = [pc |-> Dispatch(c), command |-> c, rows |-> NoAttempt.rows,
                        circuit |-> NoAttempt.circuit, image |-> NoAttempt.image,
                        metadata |-> NoAttempt.metadata, hashes |-> NoAttempt.hashes, done |-> 0,
                        observed |-> NoAttempt.observed, steady |-> TRUE]
        BY <1>1 DEF NoAttempt
      <3> QED
        BY <3>1
    <2> QED
      BY <2>1, <2>2, <2>3, <1>2 DEF DiagnosticInv, DiagnosticTypes, IsDirectory
  <1>6. attempt'.pc \in {"reduce", "refused", "strict", "reference"}
        /\ (attempt'.pc = "reference" => FlagsAgree(c))
    BY <1>3 DEF Dispatch
  <1>7. RowsAreRead'
    BY <1>3, <1>6
       DEF RowsAreRead, Underway, CompilesHere, LoadsHere, FlagsAgree, Command, Place, Asks, IsStatic
  <1>8. CompileIsOfTheInputs' /\ LoadedIsOfTheInputs' /\ SimulatedIsOfTheInputs'
    BY <1>6 DEF CompileIsOfTheInputs, LoadedIsOfTheInputs, SimulatedIsOfTheInputs, CompilesHere
  <1>9. work'["named"] = work["named"]
    BY <1>1 DEF DiagnosticInv, DiagnosticTypes, Places
  <1>10. SettledIsWhole'
    BY <1>2, <1>9 DEF DiagnosticInv, SettledIsWhole, IsWhole
  <1> QED
    BY <1>5, <1>7, <1>8, <1>10 DEF DiagnosticInv

LEMMA RefuseKeeps ==
  ASSUME DiagnosticInv, Refuse \/ attempt' = NoAttempt, UNCHANGED <<given, work, settled>>
  PROVE  DiagnosticInv'
  <1>1. attempt'.pc \in {"refused", "idle"}
    BY DEF Refuse, DiagnosticInv, DiagnosticTypes, NoAttempt
  <1>2. DiagnosticTypes'
    <2>1. CASE Refuse
      BY <2>1 DEF Refuse, DiagnosticInv, DiagnosticTypes, IsDirectory
    <2>2. CASE attempt' = NoAttempt
      BY <2>2 DEF NoAttempt, DiagnosticInv, DiagnosticTypes, IsDirectory
    <2> QED
      BY <2>1, <2>2
  <1>3. RowsAreRead' /\ CompileIsOfTheInputs' /\ LoadedIsOfTheInputs' /\ SimulatedIsOfTheInputs'
    BY <1>1 DEF RowsAreRead, CompileIsOfTheInputs, LoadedIsOfTheInputs, SimulatedIsOfTheInputs,
       Underway, CompilesHere, LoadsHere
  <1>4. SettledIsWhole'
    BY DEF DiagnosticInv, SettledIsWhole, IsWhole
  <1> QED
    BY <1>2, <1>3, <1>4 DEF DiagnosticInv

LEMMA ReadRowsKeeps ==
  ASSUME DiagnosticInv, ReadRows
  PROVE  DiagnosticInv'
  <1> DEFINE next == IF Asks(Command, "run-only") THEN "load" ELSE "design"
  <1>1. CASE Refuse
    BY <1>1, RefuseKeeps DEF ReadRows
  <1>2. CASE /\ attempt' = [attempt EXCEPT !.rows = given["reference"], !.pc = next]
             /\ Command.case = NoCase \/ HasCase(given["reference"], Command.case)
    <2>1. attempt.pc = "reference" /\ UNCHANGED <<given, work, settled>>
      BY DEF ReadRows
    <2>2. DiagnosticTypes'
      BY <1>2, <2>1 DEF DiagnosticInv, DiagnosticTypes, IsDirectory
    <2>3. attempt'.pc = next /\ attempt'.rows = given.reference /\ attempt'.command = attempt.command
          /\ attempt'.done = attempt.done
      BY <1>2 DEF DiagnosticInv, DiagnosticTypes
    <2>4. given.reference \in Contents["reference"] /\ attempt.done = 0
      BY <2>1 DEF DiagnosticInv, DiagnosticTypes, RowsAreRead, Underway
    <2>5. RowsAreRead'
      BY <1>2, <2>1, <2>3, <2>4
         DEF DiagnosticInv, RowsAreRead, Command, Place, Underway, CompilesHere, LoadsHere, IsStatic
    <2>6. CompileIsOfTheInputs' /\ LoadedIsOfTheInputs' /\ SimulatedIsOfTheInputs'
      BY <2>3 DEF CompileIsOfTheInputs, LoadedIsOfTheInputs, SimulatedIsOfTheInputs, CompilesHere
    <2>7. SettledIsWhole'
      BY <2>1 DEF DiagnosticInv, SettledIsWhole, IsWhole
    <2> QED
      BY <2>2, <2>5, <2>6, <2>7 DEF DiagnosticInv
  <1> QED
    BY <1>1, <1>2 DEF ReadRows

DirectoryFiles == {"main", "memories", "bench", "generated", "binary", "metadata"}

Replaced(d, file, content) == [d EXCEPT ![file] = content]

LEMMA FileIsWritten ==
  ASSUME NEW d, IsDirectory(d), NEW file \in DirectoryFiles, NEW content,
         file = "binary" => DOMAIN content = Simulators
  PROVE  /\ IsDirectory(Replaced(d, file, content)) /\ Replaced(d, file, content)[file] = content
         /\ \A g \in DirectoryFiles \ {file} : Replaced(d, file, content)[g] = d[g]
  <1>1. CASE file = "main"
    BY <1>1 DEF IsDirectory, DirectoryFiles, Replaced
  <1>2. CASE file = "memories"
    BY <1>2 DEF IsDirectory, DirectoryFiles, Replaced
  <1>3. CASE file = "bench"
    BY <1>3 DEF IsDirectory, DirectoryFiles, Replaced
  <1>4. CASE file = "generated"
    BY <1>4 DEF IsDirectory, DirectoryFiles, Replaced
  <1>5. CASE file = "binary"
    BY <1>5 DEF IsDirectory, DirectoryFiles, Replaced
  <1>6. CASE file = "metadata"
    BY <1>6 DEF IsDirectory, DirectoryFiles, Replaced
  <1> QED
    BY <1>1, <1>2, <1>3, <1>4, <1>5, <1>6 DEF DirectoryFiles

LEMMA PlaceIsKnown ==
  ASSUME DiagnosticTypes PROVE Place \in Places /\ Command.simulator \in Simulators
  BY DiagnosticAssumption DEF DiagnosticTypes, Place, Command, NoAttempt, Places, Simulators

LEMMA WriteKeepsDirectories ==
  ASSUME DiagnosticTypes, NEW file \in DirectoryFiles, NEW content, Write(file, content),
         file = "binary" => DOMAIN content = Simulators
  PROVE  /\ DOMAIN work' = Places /\ \A p \in Places : IsDirectory(work'[p])
         /\ \A p \in Places \ {Place} : work'[p] = work[p]
         /\ work'[Place][file] = content
         /\ \A g \in DirectoryFiles \ {file} : work'[Place][g] = Directory[g]
  <1>1. Place \in Places
    BY PlaceIsKnown
  <1>2. PICK e : e = Replaced(Directory, file, content)
    OBVIOUS
  <1>3. work' = [work EXCEPT ![Place] = e]
    BY <1>2 DEF Write, Replaced
  <1>4. IsDirectory(Directory)
    BY <1>1 DEF DiagnosticTypes, Directory
  <1>5. IsDirectory(e) /\ e[file] = content /\ \A g \in DirectoryFiles \ {file} : e[g] = Directory[g]
    BY <1>2, <1>4, FileIsWritten
  <1>6. \A p \in Places : work'[p] = IF p = Place THEN e ELSE work[p]
    BY <1>3 DEF DiagnosticTypes
  <1>7. DOMAIN work' = Places
    BY <1>3 DEF DiagnosticTypes
  <1> QED
    BY <1>1, <1>5, <1>6, <1>7 DEF DiagnosticTypes

(* A compile disturbs what another directory holds as little as it trusts  *)
(* what its own held.                                                      *)
LEMMA OthersStayWhole ==
  ASSUME DiagnosticInv, UNCHANGED settled, attempt.pc \in CompilesHere,
         \A p \in Places \ {Place} : work'[p] = work[p]
  PROVE  SettledIsWhole'
  <1>1. settled["named"] => Place # "named"
    BY DEF DiagnosticInv, CompileIsOfTheInputs
  <1>2. settled["named"] => work'["named"] = work["named"]
    BY <1>1 DEF Places
  <1> QED
    BY <1>2 DEF DiagnosticInv, SettledIsWhole, IsWhole

LEMMA ReadDesignKeeps ==
  ASSUME DiagnosticInv, ReadDesign
  PROVE  DiagnosticInv'
  <1>1. /\ attempt.pc = "design" /\ UNCHANGED given
        /\ attempt' = [attempt EXCEPT !.circuit = given["sv"], !.pc = "image"]
        /\ Write("main", Normalized(given["sv"]))
        /\ settled' = [settled EXCEPT ![Place] = FALSE]
    BY DEF ReadDesign
  <1>2. DiagnosticTypes /\ Place \in Places
    BY PlaceIsKnown DEF DiagnosticInv
  <1>3. /\ DOMAIN work' = Places /\ \A p \in Places : IsDirectory(work'[p])
        /\ \A p \in Places \ {Place} : work'[p] = work[p]
        /\ work'[Place].main = Normalized(given["sv"])
    <2>1. "main" \in DirectoryFiles
      BY DEF DirectoryFiles
    <2> QED
      BY <1>1, <1>2, <2>1, WriteKeepsDirectories
  <1>4. /\ attempt'.pc = "image" /\ attempt'.circuit = given.sv
        /\ attempt'.command = attempt.command /\ attempt'.rows = attempt.rows
        /\ attempt'.steady = attempt.steady /\ attempt'.done = attempt.done
    BY <1>1, <1>2 DEF DiagnosticTypes
  <1>5. DiagnosticTypes'
    <2>1. settled' \in [Places -> BOOLEAN]
      BY <1>1, <1>2 DEF DiagnosticTypes
    <2>2. /\ attempt' \in [pc : {attempt'.pc}, command : Commands \cup {NoAttempt.command},
                  rows : {attempt'.rows}, circuit : {attempt'.circuit}, image : {attempt'.image},
                  metadata : {attempt'.metadata}, hashes : {attempt'.hashes}, done : 0..4,
                  observed : {attempt'.observed}, steady : BOOLEAN]
          /\ DOMAIN attempt'.hashes = InputFiles
      BY <1>1, <1>2 DEF DiagnosticTypes
    <2> QED
      BY <1>1, <1>2, <1>3, <2>1, <2>2 DEF DiagnosticTypes, IsDirectory
  <1>6. RowsAreRead'
    BY <1>1, <1>4
       DEF DiagnosticInv, RowsAreRead, Command, Place, Underway, CompilesHere, LoadsHere, IsStatic
  <1>7. CompileIsOfTheInputs'
    BY <1>1, <1>2, <1>3, <1>4
       DEF CompileIsOfTheInputs, CompilesHere, Directory, Place, Command, DiagnosticTypes
  <1>8. LoadedIsOfTheInputs' /\ SimulatedIsOfTheInputs'
    BY <1>4 DEF LoadedIsOfTheInputs, SimulatedIsOfTheInputs
  <1>9. SettledIsWhole'
    <2>1. settled'["named"] => settled["named"] /\ work'["named"] = work["named"]
      BY <1>1, <1>2, <1>3 DEF DiagnosticTypes, Places
    <2> QED
      BY <2>1 DEF DiagnosticInv, SettledIsWhole, IsWhole
  <1> QED
    BY <1>5, <1>6, <1>7, <1>8, <1>9 DEF DiagnosticInv

LEMMA ReadImageKeeps ==
  ASSUME DiagnosticInv, ReadImage
  PROVE  DiagnosticInv'
  <1>1. /\ attempt.pc = "image" /\ UNCHANGED <<given, work, settled>>
        /\ attempt' = [attempt EXCEPT !.image = given["image"], !.pc = "memories"]
    BY DEF ReadImage
  <1>4. /\ attempt'.pc = "memories" /\ attempt'.image = given.image
        /\ attempt'.command = attempt.command /\ attempt'.rows = attempt.rows
        /\ attempt'.steady = attempt.steady /\ attempt'.done = attempt.done
        /\ attempt'.circuit = attempt.circuit
    BY <1>1 DEF DiagnosticInv, DiagnosticTypes
  <1>5. DiagnosticTypes'
    BY <1>1 DEF DiagnosticInv, DiagnosticTypes, IsDirectory
  <1>6. RowsAreRead'
    BY <1>1, <1>4
       DEF DiagnosticInv, RowsAreRead, Command, Place, Underway, CompilesHere, LoadsHere, IsStatic
  <1>7. CompileIsOfTheInputs'
    BY <1>1, <1>4 DEF DiagnosticInv, CompileIsOfTheInputs, CompilesHere, Directory, Place, Command
  <1>8. LoadedIsOfTheInputs' /\ SimulatedIsOfTheInputs'
    BY <1>4 DEF LoadedIsOfTheInputs, SimulatedIsOfTheInputs
  <1>9. SettledIsWhole'
    BY <1>1 DEF DiagnosticInv, SettledIsWhole, IsWhole
  <1> QED
    BY <1>5, <1>6, <1>7, <1>8, <1>9 DEF DiagnosticInv

(* A step that writes one file and goes on.                                *)
LEMMA StepKeepsTypes ==
  ASSUME DiagnosticTypes, UNCHANGED <<given, settled>>, NEW file \in DirectoryFiles, NEW content,
         Write(file, content), file = "binary" => DOMAIN content = Simulators, NEW pc, Onwards(pc)
  PROVE  /\ DiagnosticTypes'
         /\ attempt'.pc = pc
         /\ attempt'.command = attempt.command /\ attempt'.rows = attempt.rows
         /\ attempt'.circuit = attempt.circuit /\ attempt'.image = attempt.image
         /\ attempt'.hashes = attempt.hashes /\ attempt'.done = attempt.done
         /\ attempt'.steady = attempt.steady
  <1>1. DOMAIN work' = Places /\ \A p \in Places : IsDirectory(work'[p])
    BY WriteKeepsDirectories
  <1> QED
    BY <1>1 DEF DiagnosticTypes, Onwards, IsDirectory

LEMMA WriteMemoriesKeeps ==
  ASSUME DiagnosticInv, WriteMemories
  PROVE  DiagnosticInv'
  <1>1. /\ attempt.pc = "memories" /\ UNCHANGED <<given, settled>> /\ Onwards("bench")
        /\ Write("memories", Memories(attempt.image, given["manifest"]))
    BY DEF WriteMemories
  <1>2. DiagnosticTypes /\ "memories" \in DirectoryFiles
    BY DEF DiagnosticInv, DirectoryFiles
  <1>3. /\ \A p \in Places \ {Place} : work'[p] = work[p]
        /\ work'[Place].memories = Memories(attempt.image, given["manifest"])
        /\ \A g \in DirectoryFiles \ {"memories"} : work'[Place][g] = Directory[g]
    BY <1>1, <1>2, WriteKeepsDirectories
  <1>4. DiagnosticTypes' /\ attempt'.pc = "bench" /\ attempt'.command = attempt.command
        /\ attempt'.rows = attempt.rows /\ attempt'.circuit = attempt.circuit
        /\ attempt'.steady = attempt.steady /\ attempt'.done = attempt.done
    BY <1>1, <1>2, StepKeepsTypes
  <1>5. work'[Place].main = Directory.main
    BY <1>3 DEF DirectoryFiles
  <1>6. RowsAreRead'
    BY <1>1, <1>4
       DEF DiagnosticInv, RowsAreRead, Command, Place, Underway, CompilesHere, LoadsHere, IsStatic
  <1>7. CompileIsOfTheInputs'
    BY <1>1, <1>3, <1>4, <1>5
       DEF DiagnosticInv, CompileIsOfTheInputs, CompilesHere, Directory, Place, Command
  <1>8. LoadedIsOfTheInputs' /\ SimulatedIsOfTheInputs'
    BY <1>4 DEF LoadedIsOfTheInputs, SimulatedIsOfTheInputs
  <1>9. SettledIsWhole'
    BY <1>1, <1>3, OthersStayWhole DEF CompilesHere
  <1> QED
    BY <1>4, <1>6, <1>7, <1>8, <1>9 DEF DiagnosticInv

LEMMA WriteBenchKeeps ==
  ASSUME DiagnosticInv, WriteBench
  PROVE  DiagnosticInv'
  <1>0. PICK pc \in {"fixture", "codegen", "build"} :
          /\ Onwards(pc)
          /\ pc = "build" => Command.simulator # "verilator"
    BY DEF WriteBench
  <1>1. /\ attempt.pc = "bench" /\ UNCHANGED <<given, settled>>
        /\ Write("bench", Bench(Command, attempt.circuit, attempt.rows))
    BY DEF WriteBench
  <1>2. DiagnosticTypes /\ "bench" \in DirectoryFiles
    BY DEF DiagnosticInv, DirectoryFiles
  <1>3. /\ \A p \in Places \ {Place} : work'[p] = work[p]
        /\ work'[Place].bench = Bench(Command, attempt.circuit, attempt.rows)
        /\ \A g \in DirectoryFiles \ {"bench"} : work'[Place][g] = Directory[g]
    BY <1>1, <1>2, WriteKeepsDirectories
  <1>4. DiagnosticTypes' /\ attempt'.pc = pc /\ attempt'.command = attempt.command
        /\ attempt'.rows = attempt.rows /\ attempt'.circuit = attempt.circuit
        /\ attempt'.steady = attempt.steady /\ attempt'.done = attempt.done
    BY <1>0, <1>1, <1>2, StepKeepsTypes
  <1>5. work'[Place].main = Directory.main /\ work'[Place].memories = Directory.memories
    BY <1>3 DEF DirectoryFiles
  <1>51. attempt.steady => attempt.rows = given.reference
    BY <1>1 DEF DiagnosticInv, RowsAreRead, Underway, CompilesHere
  <1>6. RowsAreRead'
    BY <1>1, <1>4
       DEF DiagnosticInv, RowsAreRead, Command, Place, Underway, CompilesHere, LoadsHere, IsStatic
  <1>7. CompileIsOfTheInputs'
    BY <1>0, <1>1, <1>3, <1>4, <1>5, <1>51
       DEF DiagnosticInv, CompileIsOfTheInputs, CompilesHere, Directory, Place, Command
  <1>8. LoadedIsOfTheInputs' /\ SimulatedIsOfTheInputs'
    BY <1>4 DEF LoadedIsOfTheInputs, SimulatedIsOfTheInputs
  <1>9. SettledIsWhole'
    BY <1>1, <1>3, OthersStayWhole DEF CompilesHere
  <1> QED
    BY <1>4, <1>6, <1>7, <1>8, <1>9 DEF DiagnosticInv

LEMMA GenerateCppKeeps ==
  ASSUME DiagnosticInv, GenerateCpp
  PROVE  DiagnosticInv'
  <1>1. /\ attempt.pc = "codegen" /\ UNCHANGED <<given, settled>> /\ Onwards("build")
        /\ Write("generated", Texts)
    BY DEF GenerateCpp
  <1>2. DiagnosticTypes /\ "generated" \in DirectoryFiles
    BY DEF DiagnosticInv, DirectoryFiles
  <1>3. /\ \A p \in Places \ {Place} : work'[p] = work[p]
        /\ work'[Place].generated = Texts
        /\ \A g \in DirectoryFiles \ {"generated"} : work'[Place][g] = Directory[g]
    BY <1>1, <1>2, WriteKeepsDirectories
  <1>4. DiagnosticTypes' /\ attempt'.pc = "build" /\ attempt'.command = attempt.command
        /\ attempt'.rows = attempt.rows /\ attempt'.circuit = attempt.circuit
        /\ attempt'.steady = attempt.steady /\ attempt'.done = attempt.done
    BY <1>1, <1>2, StepKeepsTypes
  <1>5. work'[Place].main = Directory.main /\ work'[Place].memories = Directory.memories
        /\ work'[Place].bench = Directory.bench
    BY <1>3 DEF DirectoryFiles
  <1>51. attempt.steady => Texts = Compiled(Command, given.sv, given.reference)
    BY <1>1 DEF DiagnosticInv, CompileIsOfTheInputs, CompilesHere, Texts, Normalized, Compiled
  <1>6. RowsAreRead'
    BY <1>1, <1>4
       DEF DiagnosticInv, RowsAreRead, Command, Place, Underway, CompilesHere, LoadsHere, IsStatic
  <1>7. CompileIsOfTheInputs'
    BY <1>1, <1>3, <1>4, <1>5, <1>51
       DEF DiagnosticInv, CompileIsOfTheInputs, CompilesHere, Directory, Place, Command
  <1>8. LoadedIsOfTheInputs' /\ SimulatedIsOfTheInputs'
    BY <1>4 DEF LoadedIsOfTheInputs, SimulatedIsOfTheInputs
  <1>9. SettledIsWhole'
    BY <1>1, <1>3, OthersStayWhole DEF CompilesHere
  <1> QED
    BY <1>4, <1>6, <1>7, <1>8, <1>9 DEF DiagnosticInv

LEMMA BuildSimulatorKeeps ==
  ASSUME DiagnosticInv, BuildSimulator
  PROVE  DiagnosticInv'
  <1>0. PICK built : built = IF Command.simulator = "verilator" THEN Directory.generated ELSE Texts
    OBVIOUS
  <1>01. PICK binary : binary = [Directory.binary EXCEPT ![Command.simulator] = built]
    OBVIOUS
  <1>1. /\ attempt.pc = "build" /\ UNCHANGED <<given, settled>> /\ Onwards("hash")
        /\ Write("binary", binary)
    BY <1>0, <1>01 DEF BuildSimulator
  <1>2. DiagnosticTypes /\ "binary" \in DirectoryFiles
    BY DEF DiagnosticInv, DirectoryFiles
  <1>21. DOMAIN binary = Simulators /\ binary[Command.simulator] = built
    <2>1. IsDirectory(Directory) /\ Command.simulator \in Simulators
      BY <1>2, PlaceIsKnown DEF DiagnosticTypes, Directory
    <2> QED
      BY <2>1, <1>01 DEF IsDirectory
  <1>3. /\ \A p \in Places \ {Place} : work'[p] = work[p]
        /\ work'[Place].binary = binary
        /\ \A g \in DirectoryFiles \ {"binary"} : work'[Place][g] = Directory[g]
    BY <1>1, <1>2, <1>21, WriteKeepsDirectories
  <1>4. DiagnosticTypes' /\ attempt'.pc = "hash" /\ attempt'.command = attempt.command
        /\ attempt'.rows = attempt.rows /\ attempt'.circuit = attempt.circuit
        /\ attempt'.steady = attempt.steady /\ attempt'.done = attempt.done
    BY <1>1, <1>2, <1>21, StepKeepsTypes
  <1>5. work'[Place].main = Directory.main /\ work'[Place].memories = Directory.memories
    BY <1>3 DEF DirectoryFiles
  <1>51. attempt.steady => built = Compiled(Command, given.sv, given.reference)
    BY <1>0, <1>1 DEF DiagnosticInv, CompileIsOfTheInputs, CompilesHere, Texts, Normalized, Compiled
  <1>52. attempt.done = 0
    BY <1>1 DEF DiagnosticInv, RowsAreRead, Underway, CompilesHere
  <1>6. RowsAreRead'
    BY <1>1, <1>4, <1>52
       DEF DiagnosticInv, RowsAreRead, Command, Place, Underway, CompilesHere, LoadsHere, IsStatic
  <1>7. CompileIsOfTheInputs'
    BY <1>1, <1>21, <1>3, <1>4, <1>5, <1>51, <1>52
       DEF DiagnosticInv, CompileIsOfTheInputs, CompilesHere, Directory, Place, Command, Binary
  <1>8. LoadedIsOfTheInputs' /\ SimulatedIsOfTheInputs'
    BY <1>4 DEF LoadedIsOfTheInputs, SimulatedIsOfTheInputs
  <1>9. SettledIsWhole'
    BY <1>1, <1>3, OthersStayWhole DEF CompilesHere
  <1> QED
    BY <1>4, <1>6, <1>7, <1>8, <1>9 DEF DiagnosticInv

(* The inputs, one after the other.                                        *)
LEMMA HashedNames ==
  /\ HashedInputs = Inputs /\ Len(Inputs) = 4
  /\ \A f : f \in InputFiles <=> f \in {"sv", "image", "manifest", "reference"}
  /\ \A f \in InputFiles : \E n \in 1..4 : Inputs[n] = f
  /\ \A n \in 1..4 : Inputs[n] \in InputFiles
  /\ \A m, n \in 1..4 : Inputs[m] = Inputs[n] => m = n
  <1>1. Inputs[1] = "sv" /\ Inputs[2] = "image" /\ Inputs[3] = "manifest" /\ Inputs[4] = "reference"
        /\ Len(Inputs) = 4
    BY DEF Inputs
  <1>2. \A f : f \in InputFiles <=> \E n \in 1..4 : Inputs[n] = f
    BY <1>1 DEF InputFiles
  <1>3. \A n : n \in 1..4 <=> n \in {1, 2, 3, 4}
    OBVIOUS
  <1>4. \A f : f \in InputFiles <=> f \in {"sv", "image", "manifest", "reference"}
    BY <1>1, <1>2, <1>3
  <1> QED
    BY <1>1, <1>2, <1>3, <1>4 DEF HashedInputs

LEMMA HashInputKeeps ==
  ASSUME DiagnosticInv, HashInput
  PROVE  DiagnosticInv'
  <1>0. attempt.pc = "hash" /\ UNCHANGED <<given, work, settled>>
    BY DEF HashInput
  <1>01. attempt.done \in 0..3
    BY <1>0 DEF DiagnosticInv, RowsAreRead
  <1>02. PICK f \in InputFiles : f = Inputs[attempt.done + 1]
    BY <1>01, HashedNames
  <1>03. PICK pc : pc = IF attempt.done + 1 = 4 THEN "metadata" ELSE "hash"
    OBVIOUS
  <1>04. PICK hashes : hashes = [attempt.hashes EXCEPT ![f] = given[f]]
    OBVIOUS
  <1>05. PICK done \in 0..4 : done = attempt.done + 1
    BY <1>01
  <1>1. attempt' = [attempt EXCEPT !.hashes = hashes, !.done = done, !.pc = pc]
    BY <1>02, <1>03, <1>04, <1>05, HashedNames DEF HashInput
  <1>2. DiagnosticTypes
    BY DEF DiagnosticInv
  <1>4. /\ attempt'.pc = pc /\ attempt'.done = attempt.done + 1
        /\ attempt'.command = attempt.command /\ attempt'.rows = attempt.rows
        /\ attempt'.steady = attempt.steady /\ attempt'.circuit = attempt.circuit
        /\ attempt'.hashes = [attempt.hashes EXCEPT ![f] = given[f]]
    BY <1>04, <1>05, <1>1, <1>2 DEF DiagnosticTypes
  <1>5. DiagnosticTypes'
    <2>1. DOMAIN attempt'.hashes = InputFiles
      BY <1>4, <1>2 DEF DiagnosticTypes
    <2>2. attempt' \in [pc : {attempt'.pc}, command : Commands \cup {NoAttempt.command},
                  rows : {attempt'.rows}, circuit : {attempt'.circuit}, image : {attempt'.image},
                  metadata : {attempt'.metadata}, hashes : {attempt'.hashes}, done : 0..4,
                  observed : {attempt'.observed}, steady : BOOLEAN]
      BY <1>1, <1>2 DEF DiagnosticTypes
    <2> QED
      BY <1>0, <1>2, <2>1, <2>2 DEF DiagnosticTypes, IsDirectory
  <1>6. RowsAreRead'
    BY <1>0, <1>01, <1>03, <1>4
       DEF DiagnosticInv, RowsAreRead, Command, Place, Underway, CompilesHere, LoadsHere, IsStatic
  <1>7. CompileIsOfTheInputs'
    <2>1. attempt.steady => \A n \in 1..attempt'.done : attempt'.hashes[Inputs[n]] = given[Inputs[n]]
      <3>1. SUFFICES ASSUME attempt.steady, NEW n \in 1..attempt'.done
                     PROVE  attempt'.hashes[Inputs[n]] = given[Inputs[n]]
        OBVIOUS
      <3>2. n \in 1..4 /\ Inputs[n] \in InputFiles
        BY <1>01, <1>4, HashedNames
      <3>3. CASE n = attempt.done + 1
        BY <3>2, <3>3, <1>02, <1>2, <1>4 DEF DiagnosticTypes
      <3>4. CASE n # attempt.done + 1
        <4>1. n \in 1..attempt.done
          BY <3>4, <1>01, <1>4
        <4>2. attempt.hashes[Inputs[n]] = given[Inputs[n]]
          BY <3>1, <4>1, <1>0 DEF DiagnosticInv, CompileIsOfTheInputs
        <4>3. Inputs[n] # f
          BY <3>2, <3>4, <1>01, <1>02, HashedNames
        <4> QED
          BY <4>2, <4>3, <3>2, <1>2, <1>4 DEF DiagnosticTypes
      <3> QED
        BY <3>3, <3>4
    <2>2. attempt.steady /\ pc = "metadata" => \A g \in InputFiles : attempt'.hashes[g] = given[g]
      <3>1. pc = "metadata" => attempt'.done = 4
        BY <1>01, <1>03, <1>4
      <3> QED
        BY <2>1, <3>1, HashedNames
    <2>3. pc \in {"hash", "metadata"}
      BY <1>03
    <2> QED
      BY <1>0, <1>4, <2>1, <2>2, <2>3
         DEF DiagnosticInv, CompileIsOfTheInputs, CompilesHere, Directory, Place, Command, Binary
  <1>8. LoadedIsOfTheInputs' /\ SimulatedIsOfTheInputs'
    BY <1>03, <1>4 DEF LoadedIsOfTheInputs, SimulatedIsOfTheInputs
  <1>9. SettledIsWhole'
    BY <1>0 DEF DiagnosticInv, SettledIsWhole, IsWhole
  <1> QED
    BY <1>5, <1>6, <1>7, <1>8, <1>9 DEF DiagnosticInv

LEMMA WriteMetadataKeeps ==
  ASSUME DiagnosticInv, WriteMetadata
  PROVE  DiagnosticInv'
  <1> DEFINE metadata == [simulator |-> Command.simulator, fixture |-> fixture_cache_identity(Command),
                          inputs |-> attempt.hashes, abi |-> attempt.circuit]
  <1>0. PICK pc \in {"compiled", "simulate"} : Onwards(pc)
    BY DEF WriteMetadata
  <1>1. /\ attempt.pc = "metadata" /\ UNCHANGED given /\ Write("metadata", metadata)
        /\ settled' = [settled EXCEPT ![Place] = attempt.steady]
    BY DEF WriteMetadata
  <1>2. DiagnosticTypes /\ "metadata" \in DirectoryFiles /\ Place \in Places
    BY PlaceIsKnown DEF DiagnosticInv, DirectoryFiles
  <1>3. /\ DOMAIN work' = Places /\ \A p \in Places : IsDirectory(work'[p])
        /\ \A p \in Places \ {Place} : work'[p] = work[p]
        /\ work'[Place].metadata = metadata
        /\ \A g \in DirectoryFiles \ {"metadata"} : work'[Place][g] = Directory[g]
    BY <1>1, <1>2, WriteKeepsDirectories
  <1>31. work'[Place].memories = Directory.memories /\ work'[Place].binary = Directory.binary
    BY <1>3 DEF DirectoryFiles
  <1>4. /\ attempt'.pc = pc /\ attempt'.done = attempt.done
        /\ attempt'.command = attempt.command /\ attempt'.rows = attempt.rows
        /\ attempt'.steady = attempt.steady
    BY <1>0, <1>2 DEF DiagnosticTypes, Onwards
  <1>5. DiagnosticTypes'
    <2>1. settled' \in [Places -> BOOLEAN]
      BY <1>1, <1>2 DEF DiagnosticTypes
    <2> QED
      BY <1>0, <1>1, <1>2, <1>3, <2>1 DEF DiagnosticTypes, Onwards, IsDirectory
  <1>6. RowsAreRead'
    BY <1>0, <1>1, <1>4
       DEF DiagnosticInv, RowsAreRead, Command, Place, Underway, CompilesHere, LoadsHere, IsStatic
  <1>7. CompileIsOfTheInputs' /\ LoadedIsOfTheInputs'
    BY <1>0, <1>4 DEF CompileIsOfTheInputs, LoadedIsOfTheInputs, CompilesHere
  <1>71. attempt.steady =>
           /\ Directory.memories = Memories(given.image, given.manifest)
           /\ Binary = Compiled(Command, given.sv, given.reference)
           /\ \A f \in InputFiles : attempt.hashes[f] = given[f]
    BY <1>1 DEF DiagnosticInv, CompileIsOfTheInputs, CompilesHere
  <1>8. SimulatedIsOfTheInputs'
    BY <1>0, <1>1, <1>31, <1>4, <1>71
       DEF SimulatedIsOfTheInputs, Trusted, Directory, Place, Command, Binary, Compiled, Bench
  <1>9. SettledIsWhole'
    <2>1. CASE Place # "named"
      <3>1. settled'["named"] = settled["named"] /\ work'["named"] = work["named"]
        BY <2>1, <1>1, <1>2, <1>3 DEF DiagnosticTypes, Places
      <3> QED
        BY <3>1 DEF DiagnosticInv, SettledIsWhole, IsWhole
    <2>2. CASE Place = "named"
      <3>1. SUFFICES ASSUME settled'["named"] PROVE IsWhole(work["named"])'
        BY DEF SettledIsWhole
      <3>2. attempt.steady
        BY <3>1, <2>2, <1>1, <1>2 DEF DiagnosticTypes
      <3>3. PICK d : d = work'["named"]
        OBVIOUS
      <3>4. d.metadata = metadata /\ d.memories = Directory.memories /\ d.binary = Directory.binary
        BY <2>2, <3>3, <1>3, <1>31
      <3>5. attempt.hashes["image"] = given.image /\ attempt.hashes["manifest"] = given.manifest
            /\ attempt.hashes["sv"] = given.sv /\ attempt.hashes["reference"] = given.reference
        BY <3>2, <1>71, HashedNames
      <3>6. /\ d.metadata.simulator \in Simulators
            /\ d.memories = Memories(d.metadata.inputs["image"], d.metadata.inputs["manifest"])
        BY <3>2, <3>4, <3>5, <1>2, <1>71, PlaceIsKnown
      <3>7. PICK c : c = Command
        OBVIOUS
      <3>8. /\ d.metadata.fixture = fixture_cache_identity(c)
            /\ d.binary[d.metadata.simulator] =
                 Compiled(c, d.metadata.inputs["sv"], d.metadata.inputs["reference"])
        BY <3>2, <3>4, <3>5, <3>7, <1>71 DEF Binary
      <3>9. IsWhole(d)
        BY <3>6, <3>8 DEF IsWhole
      <3> QED
        BY <3>3, <3>9 DEF IsWhole
    <2> QED
      BY <2>1, <2>2
  <1> QED
    BY <1>5, <1>6, <1>7, <1>8, <1>9 DEF DiagnosticInv

LEMMA LoadCompileKeeps ==
  ASSUME DiagnosticInv, LoadCompile
  PROVE  DiagnosticInv'
  <1>0. attempt.pc = "load" /\ UNCHANGED <<given, work, settled>>
    BY DEF LoadCompile
  <1>1. CASE Refuse
    BY <1>0, <1>1, RefuseKeeps
  <1>2. ASSUME NEW pc \in {"verify", "binary"},
               pc = "verify" <=> Asks(Command, "verify-cache"),
               attempt' = [attempt EXCEPT !.metadata = Directory.metadata, !.pc = pc],
               Directory.metadata.simulator = Command.simulator,
               Directory.metadata.fixture = fixture_cache_identity(Command)
        PROVE  DiagnosticInv'
    <2>1. /\ attempt'.pc = pc /\ attempt'.done = attempt.done
          /\ attempt'.command = attempt.command /\ attempt'.rows = attempt.rows
          /\ attempt'.steady = attempt.steady /\ attempt'.metadata = Directory.metadata
      BY <1>2 DEF DiagnosticInv, DiagnosticTypes
    <2>2. DiagnosticTypes'
      BY <1>0, <1>2 DEF DiagnosticInv, DiagnosticTypes, IsDirectory
    <2>3. attempt.done = 0
      BY <1>0 DEF DiagnosticInv, RowsAreRead, Underway, LoadsHere
    <2>4. RowsAreRead'
      BY <1>0, <2>1, <2>3
         DEF DiagnosticInv, RowsAreRead, Command, Place, Underway, CompilesHere, LoadsHere, IsStatic
    <2>5. CompileIsOfTheInputs' /\ SimulatedIsOfTheInputs'
      BY <2>1 DEF CompileIsOfTheInputs, SimulatedIsOfTheInputs, CompilesHere
    <2>6. LoadedIsOfTheInputs'
      BY <1>0, <1>2, <2>1, <2>3, SMTT(60) DEF LoadedIsOfTheInputs, Directory, Command, Place
    <2>7. SettledIsWhole'
      BY <1>0 DEF DiagnosticInv, SettledIsWhole, IsWhole
    <2> QED
      BY <2>2, <2>4, <2>5, <2>6, <2>7 DEF DiagnosticInv
  <1>3. Refuse \/ /\ attempt' = [attempt EXCEPT !.metadata = Directory.metadata,
                                 !.pc = IF Asks(Command, "verify-cache") THEN "verify" ELSE "binary"]
                  /\ Directory.metadata.simulator = Command.simulator
                  /\ Directory.metadata.fixture = fixture_cache_identity(Command)
    BY DEF LoadCompile
  <1> QED
    BY <1>1, <1>2, <1>3

LEMMA VerifyInputKeeps ==
  ASSUME DiagnosticInv, VerifyInput
  PROVE  DiagnosticInv'
  <1>0. attempt.pc = "verify" /\ UNCHANGED <<given, work, settled>>
    BY DEF VerifyInput
  <1>01. attempt.done \in 0..3
    BY <1>0 DEF DiagnosticInv, RowsAreRead
  <1>02. PICK f \in InputFiles : f = Inputs[attempt.done + 1]
    BY <1>01, HashedNames
  <1>03. PICK pc : pc = IF attempt.done + 1 = 4 THEN "binary" ELSE "verify"
    OBVIOUS
  <1>1. CASE Refuse
    BY <1>0, <1>1, RefuseKeeps
  <1>2. CASE attempt' = [attempt EXCEPT !.done = @ + 1, !.pc = pc] /\ attempt.metadata.inputs[f] = given[f]
    <2>1. /\ attempt'.pc = pc /\ attempt'.done = attempt.done + 1
          /\ attempt'.command = attempt.command /\ attempt'.rows = attempt.rows
          /\ attempt'.steady = attempt.steady /\ attempt'.metadata = attempt.metadata
      BY <1>2 DEF DiagnosticInv, DiagnosticTypes
    <2>2. DiagnosticTypes'
      <3>1. PICK done \in 0..4 : done = attempt.done + 1
        BY <1>01
      <3>2. attempt' = [attempt EXCEPT !.done = done, !.pc = pc]
        BY <1>2, <3>1
      <3> QED
        BY <1>0, <3>2 DEF DiagnosticInv, DiagnosticTypes, IsDirectory
    <2>4. RowsAreRead'
      BY <1>0, <1>01, <1>03, <2>1
         DEF DiagnosticInv, RowsAreRead, Command, Place, Underway, CompilesHere, LoadsHere, IsStatic
    <2>5. CompileIsOfTheInputs' /\ SimulatedIsOfTheInputs'
      BY <1>03, <2>1 DEF CompileIsOfTheInputs, SimulatedIsOfTheInputs, CompilesHere
    <2>6. LoadedIsOfTheInputs'
      <3>1. attempt.steady => \A n \in 1..attempt'.done :
              attempt.metadata.inputs[Inputs[n]] = given[Inputs[n]]
        <4>1. SUFFICES ASSUME attempt.steady, NEW n \in 1..attempt'.done
                       PROVE  attempt.metadata.inputs[Inputs[n]] = given[Inputs[n]]
          OBVIOUS
        <4>2. CASE n = attempt.done + 1
          BY <4>2, <1>02, <1>2
        <4>3. CASE n # attempt.done + 1
          <5>1. n \in 1..attempt.done
            BY <4>3, <1>01, <2>1
          <5> QED
            BY <4>1, <5>1, <1>0 DEF DiagnosticInv, LoadedIsOfTheInputs
        <4> QED
          BY <4>2, <4>3
      <3>2. attempt.steady /\ pc = "binary" => \A g \in InputFiles :
              attempt.metadata.inputs[g] = given[g]
        <4>1. pc = "binary" => attempt'.done = 4
          BY <1>01, <1>03, <2>1
        <4> QED
          BY <3>1, <4>1, HashedNames
      <3>3. pc \in {"verify", "binary"}
        BY <1>03
      <3> QED
        BY <1>0, <2>1, <3>1, <3>2, <3>3
           DEF DiagnosticInv, LoadedIsOfTheInputs, Directory, Command, Place
    <2>7. SettledIsWhole'
      BY <1>0 DEF DiagnosticInv, SettledIsWhole, IsWhole
    <2> QED
      BY <2>2, <2>4, <2>5, <2>6, <2>7 DEF DiagnosticInv
  <1> QED
    BY <1>02, <1>03, <1>1, <1>2, HashedNames DEF VerifyInput

(* Two commands of one fixture identity have one bench of one reference.   *)
LEMMA OneFixtureOneBench ==
  ASSUME NEW c, NEW d, fixture_cache_identity(c) = fixture_cache_identity(d), NEW reference
  PROVE  CompiledRows(c, reference) = CompiledRows(d, reference)
  <1>1. IsStatic(c) <=> IsStatic(d)
    BY DEF fixture_cache_identity
  <1>2. IsStatic(c) => c.case = d.case
    BY <1>1 DEF fixture_cache_identity
  <1> QED
    BY <1>1, <1>2 DEF CompiledRows

LEMMA FindBinaryKeeps ==
  ASSUME DiagnosticInv, FindBinary
  PROVE  DiagnosticInv'
  <1>0. attempt.pc = "binary" /\ UNCHANGED <<given, work, settled>>
    BY DEF FindBinary
  <1>1. CASE Refuse
    BY <1>0, <1>1, RefuseKeeps
  <1>2. CASE Onwards("simulate")
    <2>1. /\ attempt'.pc = "simulate" /\ attempt'.done = attempt.done
          /\ attempt'.command = attempt.command /\ attempt'.rows = attempt.rows
          /\ attempt'.steady = attempt.steady
      BY <1>2 DEF DiagnosticInv, DiagnosticTypes, Onwards
    <2>2. DiagnosticTypes'
      BY <1>0, <1>2 DEF DiagnosticInv, DiagnosticTypes, IsDirectory, Onwards
    <2>4. RowsAreRead'
      BY <1>0, <2>1
         DEF DiagnosticInv, RowsAreRead, Command, Place, Underway, CompilesHere, LoadsHere, IsStatic
    <2>5. CompileIsOfTheInputs' /\ LoadedIsOfTheInputs'
      BY <2>1 DEF CompileIsOfTheInputs, LoadedIsOfTheInputs, CompilesHere
    <2>6. Trusted => /\ Directory.memories = Memories(given.image, given.manifest)
                     /\ Binary.circuit = given.sv
                     /\ Binary.bench.rows = CompiledRows(Command, given.reference)
      <3>1. SUFFICES ASSUME Trusted
                     PROVE  /\ Directory.memories = Memories(given.image, given.manifest)
                            /\ Binary.circuit = given.sv
                            /\ Binary.bench.rows = CompiledRows(Command, given.reference)
        OBVIOUS
      <3>2. /\ attempt.steady /\ Asks(Command, "verify-cache") /\ settled[Place] /\ Place = "named"
        BY <1>0, <3>1 DEF DiagnosticInv, RowsAreRead, Trusted, LoadsHere, Underway
      <3>3. IsWhole(Directory)
        BY <3>2 DEF DiagnosticInv, SettledIsWhole, Directory, IsWhole
      <3>4. PICK d : d = Directory
        OBVIOUS
      <3>5. /\ d.metadata.simulator = Command.simulator
            /\ d.metadata.fixture = fixture_cache_identity(Command)
            /\ \A f \in InputFiles : d.metadata.inputs[f] = given[f]
        BY <1>0, <3>2, <3>4 DEF DiagnosticInv, LoadedIsOfTheInputs
      <3>6. /\ d.metadata.inputs["image"] = given.image /\ d.metadata.inputs["manifest"] = given.manifest
            /\ d.metadata.inputs["sv"] = given.sv /\ d.metadata.inputs["reference"] = given.reference
        BY <3>5, HashedNames
      <3>7. d.memories = Memories(given.image, given.manifest)
        BY <3>3, <3>4, <3>6 DEF IsWhole
      <3>8. PICK c : /\ d.metadata.fixture = fixture_cache_identity(c)
                     /\ d.binary[Command.simulator] = Compiled(c, given.sv, given.reference)
        BY <3>3, <3>4, <3>5, <3>6 DEF IsWhole
      <3>9. CompiledRows(c, given.reference) = CompiledRows(Command, given.reference)
        <4>1. PICK e : e = Command
          OBVIOUS
        <4>2. CompiledRows(c, given.reference) = CompiledRows(e, given.reference)
          BY <4>1, <3>5, <3>8, OneFixtureOneBench
        <4> QED
          BY <4>1, <4>2
      <3> QED
        BY <3>4, <3>7, <3>8, <3>9 DEF Binary, Compiled, Bench
    <2>7. SimulatedIsOfTheInputs'
      BY <1>0, <2>1, <2>6 DEF SimulatedIsOfTheInputs, Trusted, Directory, Place, Command, Binary
    <2>8. SettledIsWhole'
      BY <1>0 DEF DiagnosticInv, SettledIsWhole, IsWhole
    <2> QED
      BY <2>2, <2>4, <2>5, <2>7, <2>8 DEF DiagnosticInv
  <1> QED
    BY <1>1, <1>2 DEF FindBinary

LEMMA SimulateRowsKeeps ==
  ASSUME DiagnosticInv, SimulateRows
  PROVE  DiagnosticInv'
  <1>0. attempt.pc = "simulate" /\ UNCHANGED <<given, work, settled>>
    BY DEF SimulateRows
  <1>1. CASE Refuse
    BY <1>0, <1>1, RefuseKeeps
  <1>2. CASE attempt' = [attempt EXCEPT !.pc = "compare",
                           !.observed = Observed(Binary, Directory.memories, Command, attempt.rows)]
    <2>1. /\ attempt'.pc = "compare" /\ attempt'.done = attempt.done
          /\ attempt'.command = attempt.command /\ attempt'.rows = attempt.rows
          /\ attempt'.steady = attempt.steady
          /\ attempt'.observed = Observed(Binary, Directory.memories, Command, attempt.rows)
      BY <1>2 DEF DiagnosticInv, DiagnosticTypes
    <2>2. DiagnosticTypes'
      BY <1>0, <1>2 DEF DiagnosticInv, DiagnosticTypes, IsDirectory
    <2>4. RowsAreRead'
      BY <1>0, <2>1
         DEF DiagnosticInv, RowsAreRead, Command, Place, Underway, CompilesHere, LoadsHere, IsStatic
    <2>5. CompileIsOfTheInputs' /\ LoadedIsOfTheInputs'
      BY <2>1 DEF CompileIsOfTheInputs, LoadedIsOfTheInputs, CompilesHere
    <2>7. SimulatedIsOfTheInputs'
      BY <1>0, <2>1
         DEF DiagnosticInv, SimulatedIsOfTheInputs, Trusted, Directory, Place, Command, Binary
    <2>8. SettledIsWhole'
      BY <1>0 DEF DiagnosticInv, SettledIsWhole, IsWhole
    <2> QED
      BY <2>2, <2>4, <2>5, <2>7, <2>8 DEF DiagnosticInv
  <1> QED
    BY <1>1, <1>2 DEF SimulateRows

LEMMA CompareRowsKeeps ==
  ASSUME DiagnosticInv, CompareRows
  PROVE  DiagnosticInv'
  <1>0. attempt.pc = "compare" /\ UNCHANGED <<given, work, settled>>
    BY DEF CompareRows
  <1>1. PICK pc \in {"pass", "fail"} :
          /\ Onwards(pc)
          /\ pc = "pass" => AsExpected(attempt.observed, ExpectedRows(Command, attempt.rows))
    BY DEF CompareRows
  <1>2. /\ attempt'.pc = pc /\ attempt'.done = attempt.done
        /\ attempt'.command = attempt.command /\ attempt'.rows = attempt.rows
        /\ attempt'.steady = attempt.steady /\ attempt'.observed = attempt.observed
    BY <1>1 DEF DiagnosticInv, DiagnosticTypes, Onwards
  <1>3. DiagnosticTypes'
    BY <1>0, <1>1 DEF DiagnosticInv, DiagnosticTypes, IsDirectory, Onwards
  <1>4. RowsAreRead'
    BY <1>0, <1>2
       DEF DiagnosticInv, RowsAreRead, Command, Place, Underway, CompilesHere, LoadsHere, IsStatic
  <1>5. CompileIsOfTheInputs' /\ LoadedIsOfTheInputs'
    BY <1>2 DEF CompileIsOfTheInputs, LoadedIsOfTheInputs, CompilesHere
  <1>6. SimulatedIsOfTheInputs'
    BY <1>0, <1>1, <1>2
       DEF DiagnosticInv, SimulatedIsOfTheInputs, Trusted, Directory, Place, Command, Binary
  <1>7. SettledIsWhole'
    BY <1>0 DEF DiagnosticInv, SettledIsWhole, IsWhole
  <1> QED
    BY <1>3, <1>4, <1>5, <1>6, <1>7 DEF DiagnosticInv

LEMMA StopDiagnosticKeeps ==
  ASSUME DiagnosticInv, StopDiagnostic
  PROVE  DiagnosticInv'
  <1>0. attempt' = NoAttempt /\ UNCHANGED <<given, settled>> /\ DiagnosticTypes
    BY DEF StopDiagnostic, DiagnosticInv
  <1>1. CASE UNCHANGED work
    BY <1>0, <1>1, RefuseKeeps
  <1>2. ASSUME NEW file \in DirectoryFiles, NEW content, Write(file, content),
               file = "binary" => DOMAIN content = Simulators, attempt.pc \in CompilesHere
        PROVE  DiagnosticInv'
    <2>1. DOMAIN work' = Places /\ (\A p \in Places : IsDirectory(work'[p]))
          /\ \A p \in Places \ {Place} : work'[p] = work[p]
      BY <1>0, <1>2, WriteKeepsDirectories
    <2>2. SettledIsWhole'
      BY <1>0, <1>2, <2>1, OthersStayWhole
    <2>3. attempt'.pc = "idle"
      BY <1>0 DEF NoAttempt
    <2>4. DiagnosticTypes'
      <3>1. NoAttempt \in [pc : {NoAttempt.pc}, command : Commands \cup {NoAttempt.command},
                  rows : {NoAttempt.rows}, circuit : {NoAttempt.circuit}, image : {NoAttempt.image},
                  metadata : {NoAttempt.metadata}, hashes : {NoAttempt.hashes}, done : 0..4,
                  observed : {NoAttempt.observed}, steady : BOOLEAN]
            /\ DOMAIN NoAttempt.hashes = InputFiles
        BY DEF NoAttempt
      <3> QED
        BY <1>0, <2>1, <3>1 DEF DiagnosticTypes, IsDirectory
    <2>5. RowsAreRead' /\ CompileIsOfTheInputs' /\ LoadedIsOfTheInputs' /\ SimulatedIsOfTheInputs'
      BY <2>3 DEF RowsAreRead, CompileIsOfTheInputs, LoadedIsOfTheInputs, SimulatedIsOfTheInputs,
         Underway, CompilesHere, LoadsHere
    <2> QED
      BY <2>2, <2>4, <2>5 DEF DiagnosticInv
  <1>3. CASE attempt.pc \in {"memories", "metadata"} /\ Write(attempt.pc, HalfThere)
    <2>1. PICK pc \in DirectoryFiles : pc = attempt.pc /\ pc # "binary"
      BY <1>3 DEF DirectoryFiles
    <2>2. PICK content : content = HalfThere
      OBVIOUS
    <2>3. Write(pc, content) /\ attempt.pc \in CompilesHere
      BY <1>3, <2>1, <2>2 DEF CompilesHere
    <2> QED
      BY <2>1, <2>3, <1>2
  <1>4. CASE /\ attempt.pc = "build"
             /\ Write("binary", [Directory.binary EXCEPT ![Command.simulator] = HalfThere])
    <2>1. PICK content : content = [Directory.binary EXCEPT ![Command.simulator] = HalfThere]
      OBVIOUS
    <2>2. DOMAIN content = Simulators
      <3>1. IsDirectory(Directory)
        BY <1>0, PlaceIsKnown DEF DiagnosticTypes, Directory
      <3> QED
        BY <2>1, <3>1 DEF IsDirectory
    <2>3. Write("binary", content) /\ attempt.pc \in CompilesHere /\ "binary" \in DirectoryFiles
      BY <1>4, <2>1 DEF CompilesHere, DirectoryFiles
    <2> QED
      BY <2>2, <2>3, <1>2
  <1> QED
    BY <1>1, <1>3, <1>4 DEF StopDiagnostic

(* What was read is no longer what is there, and nothing else is claimed.  *)
LEMMA ExchangeInputKeeps ==
  ASSUME DiagnosticInv, ExchangeInput
  PROVE  DiagnosticInv'
  <1>1. PICK f \in InputFiles : \E v \in Contents[f] : given' = [given EXCEPT ![f] = v]
    BY DEF ExchangeInput
  <1>2. attempt' = [attempt EXCEPT !.steady = FALSE] /\ UNCHANGED <<work, settled>>
    BY DEF ExchangeInput
  <1>3. /\ attempt'.pc = attempt.pc /\ attempt'.done = attempt.done
        /\ attempt'.command = attempt.command /\ attempt'.rows = attempt.rows
        /\ attempt'.observed = attempt.observed /\ attempt'.metadata = attempt.metadata
        /\ attempt'.steady = FALSE
    BY <1>2 DEF DiagnosticInv, DiagnosticTypes
  <1>4. DiagnosticTypes'
    <2>1. given' \in [sv : {given'.sv}, image : {given'.image}, manifest : {given'.manifest},
                     reference : Contents["reference"]]
      <3>1. f \in {"sv", "image", "manifest", "reference"}
        BY HashedNames
      <3> QED
        BY <1>1, <3>1 DEF DiagnosticInv, DiagnosticTypes
    <2>2. attempt' \in [pc : {attempt'.pc}, command : Commands \cup {NoAttempt.command},
                  rows : {attempt'.rows}, circuit : {attempt'.circuit}, image : {attempt'.image},
                  metadata : {attempt'.metadata}, hashes : {attempt'.hashes}, done : 0..4,
                  observed : {attempt'.observed}, steady : BOOLEAN]
          /\ DOMAIN attempt'.hashes = InputFiles
      BY <1>2 DEF DiagnosticInv, DiagnosticTypes
    <2> QED
      BY <1>2, <2>1, <2>2 DEF DiagnosticInv, DiagnosticTypes, IsDirectory
  <1>5. RowsAreRead'
    BY <1>3 DEF DiagnosticInv, RowsAreRead, Command, Place, IsStatic
  <1>6. CompileIsOfTheInputs'
    BY <1>2, <1>3 DEF DiagnosticInv, CompileIsOfTheInputs, Command, Place
  <1>7. LoadedIsOfTheInputs'
    BY <1>2, <1>3 DEF DiagnosticInv, LoadedIsOfTheInputs, Command, Place, Directory
  <1>8. SimulatedIsOfTheInputs'
    BY <1>2, <1>3
       DEF DiagnosticInv, SimulatedIsOfTheInputs, Trusted, Command, Place, Directory, Binary
  <1>9. SettledIsWhole'
    BY <1>2 DEF DiagnosticInv, SettledIsWhole, IsWhole
  <1> QED
    BY <1>4, <1>5, <1>6, <1>7, <1>8, <1>9 DEF DiagnosticInv

LEMMA DiagnosticStep == DiagnosticInv /\ [DiagnosticNext]_diagnosticVars => DiagnosticInv'
  <1> SUFFICES ASSUME DiagnosticInv, [DiagnosticNext]_diagnosticVars PROVE DiagnosticInv'
    OBVIOUS
  <1>1. CASE UNCHANGED diagnosticVars
    <2>1. UNCHANGED <<given, work, attempt, settled>>
      BY <1>1 DEF diagnosticVars
    <2>2. DiagnosticTypes' /\ RowsAreRead'
      BY <2>1, SMTT(60) DEF DiagnosticInv, DiagnosticTypes, IsDirectory, RowsAreRead, Command, Place, IsStatic
    <2>3. CompileIsOfTheInputs' /\ LoadedIsOfTheInputs'
      BY <2>1, SMTT(60)
         DEF DiagnosticInv, CompileIsOfTheInputs, LoadedIsOfTheInputs, Command, Place, Directory, Binary
    <2>4. SettledIsWhole'
      BY <2>1, SMTT(60) DEF DiagnosticInv, SettledIsWhole, IsWhole
    <2>5. SimulatedIsOfTheInputs'
      BY <2>1, SMTT(60) DEF DiagnosticInv, SimulatedIsOfTheInputs, Trusted, Command, Place, Directory, Binary
    <2> QED
      BY <2>2, <2>3, <2>4, <2>5 DEF DiagnosticInv
  <1>2. CASE DiagnosticNext
    BY <1>2, StartKeeps, ReadRowsKeeps, ReadDesignKeeps, ReadImageKeeps, WriteMemoriesKeeps,
       WriteBenchKeeps, GenerateCppKeeps, BuildSimulatorKeeps, HashInputKeeps, WriteMetadataKeeps,
       LoadCompileKeeps, VerifyInputKeeps, FindBinaryKeeps, SimulateRowsKeeps, CompareRowsKeeps,
       StopDiagnosticKeeps, ExchangeInputKeeps DEF DiagnosticNext
  <1> QED
    BY <1>1, <1>2

\* A diagnostic pass of a run that compiled, or of a verified run on what an
\* undisturbed compile left, is that of the design, the image and the reference
\* in place, whatever was killed, left half written or exchanged before.
THEOREM DiagnosticPassesAreEarned == DiagnosticSpec => []DiagnosticPassIsEarned
<1>1. DiagnosticInv => DiagnosticPassIsEarned
  <2>1. SUFFICES ASSUME DiagnosticInv, attempt.pc = "pass", Trusted PROVE DiagnosticPassIsEarned
    BY DEF DiagnosticPassIsEarned
  <2>2. PICK binary : binary = Binary
    OBVIOUS
  <2>3. PICK reference : reference = given["reference"]
    OBVIOUS
  <2>4. PICK loaded : loaded = Directory.memories
    OBVIOUS
  <2>5. PICK c : c = Command
    OBVIOUS
  <2>6. attempt.rows = reference /\ Len(reference) \in Nat
        /\ (c.case # NoCase => HasCase(reference, c.case)) /\ (IsStatic(c) => c.case # NoCase)
    BY <2>1, <2>3, <2>5, DiagnosticAssumption
       DEF DiagnosticInv, RowsAreRead, Underway, Trusted, DiagnosticTypes
  <2>7. /\ loaded = Memories(given.image, given.manifest) /\ binary.circuit = given.sv
        /\ binary.bench.rows = CompiledRows(c, reference)
        /\ AsExpected(Observed(binary, loaded, c, reference), ExpectedRows(c, reference))
    BY <2>1, <2>2, <2>3, <2>4, <2>5, <2>6 DEF DiagnosticInv, SimulatedIsOfTheInputs
  <2>8. PassesEarned(c, reference, given.sv, loaded)
    BY <2>6, <2>7, AsExpectedIsEarned
  <2> QED
    BY <2>3, <2>5, <2>7, <2>8 DEF PassesEarned, DiagnosticPassIsEarned
<1> QED
  BY <1>1, DiagnosticInitInv, DiagnosticStep, PTL DEF DiagnosticSpec
=============================================================================
