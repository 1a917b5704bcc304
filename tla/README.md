# TLA+ models of compiler-lab-llm2fpga

This directory holds TLA+ models of the parts of the repository in which several
actors, clocked processes, invocations or rewriting steps interact, the TLC
configurations that check them, and TLAPS proofs about most of the parts.
Paths below are relative to `src/`.

    tlc -workers 2 -config MCDDR3Transport.cfg MCDDR3Transport.tla   # model-check one run
    tlapm DDR3Proofs.tla                                             # check the proofs of a module

`PROJECT.json` lists the runs, the lines each definition models (`map`), one
deliberate slip per property that the property catches (`mutants`), the hazards
of the code, the findings, and the theorems.  The definitions whose comment
begins with "Slip" are those slips; no action uses them.

## 1. The system

The repository compiles small language models (TinyStories) from PyTorch through
MLIR and Calyx to SystemVerilog, holds a hand-written RTL accelerator for one
transformer block and the transport of its weights from DDR3, and the scripts
that pack the weights, prove the generated RTL bit-exact in simulation, compare
parts of it with references, and record receipts of all that.

| Component | State it keeps | Operations | Meets others through | Hard behaviour | What makes it correct |
|---|---|---|---|---|---|
| DDR3 read adapter, `rtl/rc-working/rc_ddr3_adapter.sv` | three-state FSM, saved address and lane, response registers | latch, reject, hold until accepted, wait for completion, respond, reset | request/response pulses to the client; strobe, accept, ack, err to the controller | stalls, latency, resets in mid-read, the end of a line, errors | one read at a time; the bytes asked for; no refusal without cause; stable request; an answer |
| Block controllers, `rtl/llm2fpga_{transformer_block,qkv_frontend,attention_residual,attention_block,mlp_block}_tensor.sv` | a state register each, start and done pulses, tensor registers | start a stage, leave it on done, publish | one-cycle start/done pulses; wide tensor wires that are read live | lost pulses, stale pulses, operands that move during a long loop | the output is of the started token only; every token finishes |
| LayerNorm adapter, `rtl/llm2fpga_fixed_layer_norm_q16_16_tensor.sv` | armed, load and emit counters, LOAD/START/RUN | arm, load lane, launch, emit lane | start/done to a controller; lane stream to an external core | re-arming itself | one pass per start |
| Attention path: controller, score and context kernels, softmax scheduler and row core | four FSMs, loop counters, accumulators, score, probability and context tensors | start, iterate, send, collect, acknowledge, publish | pulses; ready/valid one way, registered valid/index/ack the other; live tensors | an offered value lags its index by one acknowledgement; slots of earlier positions are never cleared | each slot its own share, the context the sum over the causal keys, in each run |
| Fixed-point package and FP primitives, `rtl/fp/circt_fp_primitives.sv` | a token register per input, ready/valid | convert, multiply, divide, round, compare | ready/valid | saturation, rounding, widths; two producers out of step | agrees with exact arithmetic; the n-th meets the n-th |
| MLIR passes, `tools/mlir-passes/` | the IR | flatten views, fold casts, lower rounding, legalise zero points | the IR between them | types changed under views that are resolved later; integers that wrap | an access reaches the same element; a result is the same number |
| SV and Futil rewriting, `scripts/pipeline/fix_*` | a text | gate converters, gate captures, guard the divider, repair the adder | generated text; the design at run time | shared registers; enables of several groups; a second application | no capture of an earlier run's value |
| Equivalence runner, `scripts/pipeline/run_rc_sv_equivalence.py` | the files of a work directory, receipts, generated text, memory files; the bench's registers | compile, run, run-only, strict or diagnostic; reduce the frozen gate; rewrite and classify; bind globals to ports; launch, settle, judge | the file system; the design's ports; stdout | crash, failure, races, stale or mixed receipts; late, early, silent designs; text cut without looking at its meaning | a receipt names what was run; a transcript was earned; memories start with the image's bits |
| Observable oracle, `scripts/pipeline/build_rc_observable_oracle.py` | shards, their metadata, a coverage receipt | generate, verify, merge | a shared output directory | overlapping and killed generators, exchanged inputs | a shard holds the observables of the program it names |
| Working image and DDR3 mapping, `scripts/pipeline/{pack,verify}_rc_working_image.py`, `build_rc_working_reference.py`, `{extract_rc_sv_routing_evidence,audit_rc_ddr3_compatibility,generate_rc_ddr3_mapping}.py` | image, manifest, reference, receipts, map | pack, freeze, replay, publish; extract, bind, audit, map | files; the DDR3 adapter's lane arithmetic | programs and designs replaced between the steps | a mapped read returns its tensor's element |
| Authenticated package gate, `scripts/comparison/lower_tinystories_1m_authenticated_package.py` | a staging directory, the published one | verify, export, authenticate, stage, rename, roll back | a shared `--out-dir` and package | racing and killed runs, a package exchanged under them | what is published is authentic and whole |
| Fixed LayerNorm lowering and probe, `scripts/comparison/{lower,execute}_tinystories_1m_fixed_layernorm_backend.py` | flat SCF, Calyx text, report; the schedule it emits | render, convert, reparse, attest, probe | three shared files | three reads of one path; a carry between two words | a report is of its own conversion; the schedule is exact |
| Slice extraction and comparison, softmax bridge (`scripts/comparison/`) | slice files, manifest, evidence; a graph of loop nests | extract, hash, parse, judge; match chains | files; shared workspaces | replaced files, forged or borrowed evidence; layers that overwrite each other's buffers | an aligned verdict is of one slice; a bridged site is a softmax |
| Authenticating scripts (`scripts/comparison/{authenticate_*,fixed_hardware_qdq_profile,select_*_profile,bridge_*,create_*_manifest,receipt_*}.py`) | what was read, what the report names | hash against a pin, read, check, hash again, name, write | files that others may exchange | a file is hashed at one time and read at another | a report names what it rests on |
| Reference package adapter (`TinyStories/model_adapter_reference_package.py`, `scripts/comparison/verify_tinystories_1m_reference_input.py`) | what the verifier found, manifest, tensors, trace, program | pin, verify, read again, cut and map tensors, trace, export | files that are read twice | a file exchanged between the verification and the second read | each parameter has the bytes its manifest has the hashes of |
| LayerNorm bridge (`scripts/comparison/bridge_tinystories_1m_rtl_layernorm.py`) | evidence in hand, source operation, descriptor; an MLIR file and a report | hash, read, check, select a node, describe, write | files that others may exchange | two files rewritten in place one after the other | a report is that of the pinned operation |
| Serving with a KV cache (`TinyStories/rc_serving_*.py`) | a cache that calls share, a record, a bundle of programs | prefill, decode, record, export each phase, compare, publish | cache objects, the file system | a call that grows the cache it was given; killed and repeated runs | every program answers its phase of one model's trace |
| Board self-tests (`scripts/pipeline/gen_tiny_stories_selftest_top.py`, `task3-main/rtl/tiny_stories_selftest_top.sv`, `task3-main/fpga/rtl/matmul_selftest_top.sv`) | boot counter, start, pending loads, lamps | generate, reset, seed, start, answer, acknowledge, judge | the ports of a generated design | late, silent and repeated answers; a reset in mid-run | a lamp is earned |
| Nonlinear route matrix and frontier (`scripts/pipeline/`) | rows, tool outputs, a conclusion | attempt, record, conclude | the file system | tools that fail after writing, or succeed and write nothing | a row claims what was shown |
| Build monitor, `scripts/pipeline/monitor_build.sh` | logs, seen PIDs, its step | list, visit, describe, sample, probe, wait, summarise | `/proc`, a tee, `set -e` | processes vanish between steps | the status is the command's; the script stops |

How they interact.  The compiler's passes make Calyx; the rewriting scripts repair
the Futil and the SystemVerilog it becomes; the FP primitives are that design's
operators.  The packer turns the exported program into the image, the runner's
bindings and the mapping say which port reads which of its bytes, and the DDR3
adapter reads them.  The runner simulates the design against the oracle and the
frozen gate joins its receipts.  The block controllers start the kernels, the
LayerNorm adapters and the attention path.  The monitor wraps any long build.
Components that are left out are listed in section 6 and in `PROJECT.json`.

## 2. Modules

| Module | Models | Uses |
|---|---|---|
| `DDR3Adapter` | the adapter, one action per branch of its `always_ff` | – |
| `DDR3Transport` | adapter + controller + client on one clock and reset | extends `DDR3Adapter`, implements `DDR3ReadService` |
| `DDR3ReadService` | abstract: a memory that answers one read at a time | – |
| `TransformerBlock` | five controllers, two adders, two LayerNorm adapters, ten arithmetic units, host | – |
| `SoftmaxRowCore`, `SoftmaxScheduler` | the row core; the scheduler with it and with any caller | scheduler extends core |
| `AttentionPath` | attention controller, score and context kernel around the scheduler | extends and implements `SoftmaxScheduler` |
| `FloatPrimitives` | the fixed-point package as operators; the ready/valid wrappers | – |
| `MemRefViews` | the pass that resolves views to flat accesses | – |
| `ScalarLowering` | rounding, floor, ceiling, cast folding, zero points, the adder's repair | – |
| `CalyxHandshakes` | three repairs of handshakes and a clocked run of what they leave | – |
| `EquivalenceCache` | the runner's work directory, a compiling invocation, a run-only one | – |
| `FrozenGate` | the reducer over receipts that are replaced or mixed | – |
| `SvNormalizer` | paging of ORs and priority ternaries, classification of write enables | – |
| `MemoryBindings` | the memory ABI, the binding of globals, the memory files | – |
| `DiagnosticRunner` | the command line's modes and the diagnostic mode | – |
| `StrictFixture` | the generated bench around any design, the parser's acceptance | – |
| `OracleShards` | generate, verify, merge | – |
| `WorkingImage`, `DDR3Mapping` | packing, reference, replay, publication; evidence, bindings, audit, map | mapping extends image |
| `PackageGate` | concurrent runs of the gate on one package and directory | – |
| `LayerNormBackend`, `LayerNormSchedule` | the lowering's files and the probe; the arithmetic schedule it writes | – |
| `RouteMatrix` | the matrix and the frontier | – |
| `SliceComparison` | extraction and comparison | – |
| `SoftmaxPattern` | the bridge's structural matcher | – |
| `AuthenticatedReports` | fifteen ways through the scripts that hash, read and report | – |
| `ReferencePackage` | the verifier and the adapter of the reference package, read by read | – |
| `LayerNormBridge` | the LayerNorm bridge, step by step | – |
| `ServingTrace` | the native trace and the exported bundle | – |
| `SelfTestTop` | the generated wrapper, and the product's self-test | – |
| `MonitorBuild` | script, command's processes, tee | – |
| `DDR3Proofs` | theorems of the transport, the image and the mapping | extends `DDR3Transport` and `DDR3Mapping` |
| `TransformerBlockProofs`, `StrictFixtureProofs` | theorems of these | each extends its module |
| `AttentionPathProofs` | theorems of the softmax scheduler, the attention path and the softmax pattern | extends all three |
| `ArithmeticProofs` | theorems of the float handshakes, the LayerNorm schedule, the Calyx handshakes, the self-tests and the LayerNorm bridge | extends all five |
| `StrictRunnerProofs` | theorems of the cache, the frozen gate, the bindings and the diagnostic mode | extends all four |
| `ScriptProofs` | theorems of package gate, LayerNorm lowering, matrix, shards, monitor, slices, reports, reference package and serving | extends all nine |
| `Loops` | lemmas: induction, loops, quotients, digits | used by five of the above |

`MC*.tla` hold the values that a `.cfg` cannot write down.  Three of them also run
several components: `MCLowering`, `MCStrictRunner` and `MCEvidence` choose one part
at the start of a behaviour and leave the others where they start.  Parts that are
run like that share no file and no register, so their interleavings would show
nothing; parts that do share state are composed in a module of their own.
`MCWorkingImage` is one part of `MCEvidence` and a run by itself.

### Conventions of the clocked modules

A step is one rising clock edge, so every register moves in every step, on the
values of before the edge.  A branch of an `always_ff` block is an action; the
branches of processes that share a clock are conjoined (`Edge` in `DDR3Transport`
and `SoftmaxScheduler`, `AttentionEdge` in `AttentionPath`, `Advance` in
`TransformerBlock`).  `Reset` is the
synchronous reset branch of all of them together, possible at any edge.

### DDR3Adapter, DDR3Transport, DDR3ReadService

`state`, `savedByteAddress`, `savedLane`, `respValid`, `respError`, `respData`
are the registers of the adapter; `WbStb`, `WbAddr`, `WbSel` its combinational
outputs.  `Latch` and `Reject` are the two outcomes of a request, `AwaitAccept`,
`AwaitAck`, `Respond` the other branches.  The controller (`Stall`, `Grant`,
`Complete`, `Latency`) is that of `sim/rc-working/rc_ddr3_transport_tb.sv`,
generalised: the bench completes a read on the next edge and never fails, the
model may take any number of edges and fails the reads of `BadWords`.  The client
is the bench's: one request, then wait for its response.  It may raise the next
request on the edge that samples the response.  A line is a function from lane
to byte; `Slice` is the part-select.

`DDR3ReadService` promises a memory that takes one read, answers it once with its
bytes or a fault, and refuses anything else at once.  The refinement mapping
takes the read in the adapter's registers as the outstanding one.

### TransformerBlock

Tensors carry provenance: the set of tokens whose data they were computed from,
0 standing for a reset's zeros.  A unit reads its inputs in each cycle of its
run, as the kernels do (they latch none of their wide inputs), so a torn operand
shows as a set of two tokens.  How many cycles a unit takes, and when the
external LayerNorm core accepts or emits a lane, is the set `go` of each edge.
`Stages` gives each controller's stage order, `NextStage`/`Starting`/`Finishing`
its case statement; `NormLoad`, `NormNext`, `NormOut` are the LayerNorm adapter.
The host starts a token, waits for done, and either resets before each token
(`ColdStart`) or does not.

### SoftmaxRowCore, SoftmaxScheduler, AttentionPath

Every register is kept.  A score is a value per run, head and key; a probability
is the pair of a score and the whole row it was normalised in, because maximum,
exponential, denominator and quotient are a function of the two.  Reset leaves
the row memories alone, as the code does.  In `AttentionPath` the scores come from
the score kernel and the probabilities go to the context kernel, a product per
cycle; an accumulator is the sequence of the products it adds.  The host holds
`position` and the tensors from start to done and may change them after.
`ImplementsScheduler` says that the composition drives the scheduler as
`SoftmaxScheduler`'s free caller may.

### FloatPrimitives

The width `W`, the fraction `F` and the narrow width `N` are constants, so that TLC
can go through every number; a float is its sign, exponent and fraction, infinities
and NaN included.  Each operator is the code's own path (shift, round, saturate), and
`ResultsAreRight` says what exact arithmetic asks of it: nearest, floor, the truncated
quotient, saturated; its part `ConversionIsRight` is the candidate script's reference.  A wrapper
has a token register per input, and producer and consumer may pause at will.

### MemRefViews, ScalarLowering, CalyxHandshakes

`MemRefViews` builds any function of two buffers, views of them and one access, then
runs the pass in its order: types first, views after, the access last; verdicts are
lowered, refused, or IR that the verifier would reject.  `ScalarLowering` applies one
rewriting to one operation at a small width, on every operand.  `CalyxHandshakes` makes
a design with capture groups that share registers, applies the scripts (any of them,
twice too), and clocks the design through a division, a conversion, and again.

### EquivalenceCache

`disk` holds the nine files of a strict work directory; a file's content is the
part of the inputs it is derived from, and its hash is that content.  A compiling
invocation opens (`OpenFile`, the file is `Torn`) and fills (`FillFile`) the files
in the order of `CompileSteps`; a full one then runs them in place.  A run-only
invocation copies the support file, loads the metadata, validates six files in
the order of `ReadSteps`, keeps the payloads it read and runs private copies.
Either may fail or crash before each of its steps.

### FrozenGate, SvNormalizer, MemoryBindings

`FrozenGate`: simulations leave receipts, which may be rerun with other inputs or get
a part of another receipt while the reducer reads them one after the other; its
guards are those of `_strict_frozen_receipt_identity` and `_frozen_four_summary`.
`SvNormalizer` rewrites one assignment token by token, and `Expression` evaluates text
in the simulator's three values 0, 1 and X; what the simulator cannot parse has no
meaning that could be kept.  `MemoryBindings` takes a design, a lowered program, a package
and a proof that may each be wrong in one of many ways, and ends with memory files.

### StrictFixture

`Accepts` is `_parse_shard_output`; the rest is the bench that `_strict_fixture` generates, with a design that drives `done` and its writes at
will, and files that may be cut short, too long, or broken.  `did` and `log` are
history variables: what the design did in a case, independent of the bench's own
registers.  `phase` names where the bench's `initial` block is.

### PackageGate, LayerNormBackend, OracleShards

A run's control point is the next system call.  Several runs share a directory; any of
them may be killed, and a package or program may be exchanged under them, each as often
as a constant says.  A text, a program or a package stands for its hash, so the checks
compare what the code compares and nothing more.

### LayerNormSchedule, RouteMatrix

A step of the schedule is an iteration of one of its loops, in words of `Word` values and a
two-limb accumulator; `ScheduleIsExact` compares the end with unbounded integers.  A step of the
matrix is a row, with any of the tool's outcomes: accepted, failed after writing, wrote nothing.

### WorkingImage, DDR3Mapping

Four scripts read the exported program at different times; packers may be killed between
image and manifest.  Publication follows a passing replay.  In `DDR3Mapping` the design may be
generated anew between evidence, bindings, audit and map, and the map's addresses are
checked down to the line and the bytes that the DDR3 adapter would return.
`Trimmed` cuts the manifest down to the keys the mapper accepts, as its tests do; without
it every map is refused (finding 4).

### SliceComparison, SoftmaxPattern

`SliceComparison` extracts file by file, may be killed or overtaken, and judges evidence that
has at most one flaw of a list.  `SoftmaxPattern` builds the nests of `expected_exp_sites` layers
in any order, with shared workspaces or with own ones and at most one flaw of `NestFlaws`; `MatchSite`
finds the chain of one exponential after another, and `Made` evaluates what each nest computes.

### AuthenticatedReports

A script is a constant sequence of steps (`ScriptSteps`), built from one operator per function of
the source in the order of its calls; `line` is the step it is at.  A step hashes (`Pins`,
`Lists`, `Attests`), reads (`Takes`, `Opens`), checks what was read (`Seals`, `Matches`, or every check
but that of a hash), compares what is recorded (`Cites`, `Same`, `Rebuilds`), records an
identity (`Stamps` from the disk, `Declares` from the source, `Owns` from what was read) or
writes back (`Stores`).  A file is the pinned one, one only a hash tells apart, or one that fails the
other checks too, so `Fails` is the whole of a check's outcome.  The files of one of `Units` are
exchanged between any two steps.  `HashedAsRead`, `NamedAsRead` and `HashedAgain` list the script and
file pairs for which the code does more than hash first and read later; for all others one
exchange suffices, and the property says no more.  `StepsAreOrdered` is what makes it so.

### ReferencePackage, LayerNormBridge

Both are a run's steps in the order of the calls, a step being one access of a file, beside an
environment that exchanges any file between any two of them.  A hash is the value it is the
hash of.  The first keeps what was verified apart from what is read later, because the adapter
reads weights, scales and manifest again; the second opens and fills its two output files in
separate steps and may be killed in each.

### ServingTrace

An entry of a cache is the token it was computed from; a cache is an object in `heap`, so that
a call may return a new one or grow the one it was given (`updates`), as versions of the
library do.  `Served(m)` is the trace a model defines, by `Score`.  `native` records it, `run` exports,
compares, digests and publishes one program per phase.

### SelfTestTop

`wrapper` is what the generator reads off any list of ports (`header`); `WrapperNext` clocks it against a
design that asks and answers at will, `MatmulNext` the product's self-test against one that
multiplies its memories or (`wrong`) answers anything.

### DiagnosticRunner

`given` is what the input files hold, `work` the directories, `attempt` the invocation and its step.
An invocation is any of `Commands`; the command line decides what it does, and refuses the
combinations that the code refuses.  `steady` says that no input was exchanged since the invocation began to
read them, `settled` that the last compile in a directory ended undisturbed.

### MonitorBuild

`pc` is the script's step between two reads of `/proc`.  Under `set -e` a failing
plain command is `Errexit`.  Processes appear and vanish between any two steps;
orphaned workers may or may not be found.  The tee writes lines beside the script.

## 3. Runs

| Run | Question | Bounds, and why they are enough |
|---|---|---|
| `ddr3_transport` | asked bytes; errors earned; stable request; answer; implements the service | 4-byte client, 2 words (one fails), 32 distinct bytes. All 16 lanes occur, so every straddling offset does; two words tell the address's word part apart; distinct bytes tell any two addresses apart. |
| `block_cold` | a token started after a reset yields its own output, in any timing, and finishes | 3 tokens, 2 lanes: one token's data can be stale for the next, and the loader has a first and a last lane. |
| `block_warm` (violation) | the same without the reset | 2 tokens. |
| `attention` | the context is the causal sum of this run, each slot its own share; no pulse is lost; implements the scheduler; finishes | 3 slots, 2 heads, 2 dimensions, 2 runs at every pair of positions: rows of one, two and three keys, a next head, scores and probabilities left by a longer earlier run. |
| `lowering` | tokens paired in order; conversions and results right; accesses, numbers and captures kept below and above Calyx; lamps earned; the bridge's report that of the pinned operation | Primitives: every float of 5 fraction bits and a grid of pairs, from below a unit in the last place to beyond the range, on 13-bit numbers, 2 tokens a side for the pairing. Views: 2 buffers, 2 further values, so a view of a view of either. Scalars: 6-bit integers, every operand. Handshakes: 3 capture groups over 2 registers beside a plain group, latency 2, 2 runs. Self-tests: headers with every kind of port, loads of both widths and of neither, a timeout of 2 cycles; 4 operands, so that a seed can be skipped. Bridge: each file exchanged to any other content, 2 exchanges (there and back), 1 kill. |
| `strict_runner` | receipts true and completed compiles usable, a summary of one build, rewritten text keeps its meaning, memories hold the image, a diagnostic pass is earned | Cache: 2 sources and images, 4 invocations (an old compile, a broken one over it, a reader, one more). Frozen gate: 2 cases, 3 builds, one rerun, one mixed receipt. Text: pages of 2 terms, up to 5 terms, so pages of pages, and conditions that are ternaries. Bindings: 8 ports, 2 named, 3 external, and a list of designs, programs, packages and proofs with one thing wrong in each. Diagnostic mode: 14 command lines of every mode, 2 invocations (a compile and a later reader, or a second compile over it), 1 exchange. |
| `equivalence_table` (violation) | a passing simulator has read its table | compile, then run-only. |
| `strict_fixture` | accepted transcripts are earned, verdicts are true both ways, the simulation ends | 2 lanes, codes 0 and 1 (0 is the cleared memory, so a stale value and a missing write differ from a right one), bound 3 cycles, one shard of one context, one of two and one descending sequence: a case follows a case, and the bound can be met, missed and met exactly. |
| `monitor` | the status is the command's, the script stops | 2 workers, 2 lines, success and failure: one worker can vanish while the other is sampled. |
| `monitor_summary` (violation) | a stopped script has written its summary | 1 worker. |
| `evidence` | what the evidence scripts publish was verified by them, and names what it rests on | Gate: 2 runs, 2 exchanges of the package under each, 1 kill. LayerNorm lowering: 2 invocations, 1 kill, and the probe. Schedule: 16 lanes of 5-bit words, any 4 values in quarters or in turn: half of them at each end of a word sum to 3848, three carries out of the low limb's 1024, so a carry that is lost or counted once shows in the root. Matrix: 2 primitives in 2 orders. Shards: 2 generators, overlapping ranges, 3 programs of which one agrees with another on some contexts. Image: 6 programs differing in values, size, type, graph or packability, 5 designs, 2 packs, 1 replacement. Slice: 8 designs, 2 extractions, 1 swap, 11 kinds of evidence. Pattern: 2 layers, 9 flaws, every set of shared workspaces. Reports: all scripts, one of 17 files or the package with and without its contract, exchanged twice, so forth and back, to any of 3 contents. Serving: 2 models, traces that are right and wrong in each field, 2 vocabulary tokens, prefill of 2, all faults of calls and exports, 1 exchange, 2 runs over one directory. Reference package: 1 block, 2 quantised tensors, versions of every file that differ in one respect each, 2 exchanges. |
| `working_image` (violation) | the mapping generator accepts the manifest of a published image | the same programs; the manifest is not trimmed. |

Deadlock is checked in the clocked modules, whose clock never stops.  It is not
where scripts come to an end: `EquivalenceCache`, `StrictFixture`, `MonitorBuild`,
the three composed runs and `working_image`.  In `lowering` that includes the primitives, whose
producers run out of tokens, and the finite rewritings.

Symmetry is used among the sources and among the images of `strict_runner`, neither of which
any definition tells apart; no liveness is checked in that run.

Rare actions happen within the bounds: a launch with done high, refused and damaged
oracle files, the sample after the wait, the rollback of a publication, a merge of
shards of two programs, a map after a regenerated design.

### Fairness

- `DDR3Transport`: the clock runs, and the controller neither stalls nor delays
  for ever.  The bench's stall counter is finite; a real controller that never
  accepts leaves its client waiting, by design of the port.
- `TransformerBlock`: `WF(Run(Busy))`, the clock runs and no unit pauses for ever.
  The kernels' loops are bounded by parameters.
- `AttentionPath`: `WF(AttentionRun)`, the clock runs; `SoftmaxScheduler`: `WF(Run)`,
  the same clock.  No process waits for anything but another one of them.
- `StrictFixture`: `WF(Next)`, the simulated clock runs.  The bench generates it;
  nothing is assumed of the design.
- `MonitorBuild`: the script and the tee get to run, and the command ends.
- The other modules state no liveness: their scripts may be killed, and what they
  promise is about what they leave behind.

Fairness is never put on a reset, a launch or a fault.

## 4. Findings

1. **LayerNorm adapter re-arms itself** (`block_warm`).  `armed` is set by start
   and cleared by reset only (`rtl/llm2fpga_fixed_layer_norm_q16_16_tensor.sv:41-47`).
   After its first done the adapter loads and launches again on its own; a second
   token that comes without a reset takes the stale pass's done for its own.  The
   trace shows an output made of two tokens.  With a reset before each token, as
   the simulations do, the block is right (`block_cold`).
2. **Run-only simulators lack their support files** (`equivalence_table`).  The
   private directory gets the executable, the memory images and the oracle files,
   not what `--support-file` names, though the diagnostics pass it.  `$readmemh`
   of a missing file is no error.
3. **A vanished process ends the monitor** (`monitor_summary`).  Under
   `set -euo pipefail` the reads of `/proc/PID` after the check fail and the
   script stops without the `summary.txt` that its usage text promises.
4. **The mapping generator refuses every packed image** (`working_image`).
   `_image_segments` of `scripts/pipeline/generate_rc_ddr3_mapping.py:57` wants
   exactly six keys of a segment; `scripts/pipeline/pack_rc_working_image.py:102-114`
   writes nine (`source_name`, `sha256` and `quantization` besides).  The generator's
   tests write manifests of six keys by hand.

Three disagreements are no findings of a run.  The design document of the TOSA zero
points (2026-07-13) lists a test "zero-point-like add with multiple uses is not
rewritten", against its own contract and the code, which rewrites it.  And the
ceiling of a negative fraction comes out as its floor in
`rtl/fp/circt_fp_primitives.sv:194`, of which no document says otherwise.  Third, `fresh_phase_invocation`
(`TinyStories/rc_serving_source.py:132-138`) returns the cache of 8 entries after the decode ran on it: where a call
grows its cache in place that cache then holds 9, against what
`test_decode8_invocation_preserves_the_c8_input_cache` of `tests/test_rc_serving_reference.py` expects, and the
comparison refuses it, so nothing wrong is published.  For the same reason of refusing rather than misleading, a second
materialisation into one directory ends at its `mkdir` (`ServingTrace`).

## 5. Proofs

Eight modules hold proofs, about twenty-five of the modules above; one of them, `Loops`, only
lemmas.  Each theorem is for every value of the constants that the `ASSUME`s of the
component's module allow; TLC evaluates those `ASSUME`s in the runs.  Each proof has
the same shape: an inductive invariant, a lemma that it holds at first, one that every
step keeps it (one lemma or step per action), and the theorems that follow from it.

| Module | Theorem | Statement |
|---|---|---|
| `DDR3Proofs` | `TypeCorrect` | `Spec => []TypeOK` |
| | `OneReadOutstanding` | `Spec => []SingleOutstanding` |
| | `ClientGetsItsBytes` | `Spec => []AnswersAreRight` |
| | `RejectedNeverForwarded` | `Spec => []ControllerSeesOnlyReads` |
| | `BackpressureStable` | `Spec => StableUnderBackpressure` |
| | `TransportIsAReadService` | `Spec => Service!Safe` |
| | `ImagesAreOfPrograms` | `CorpusTellsPrograms`: `ImageSpec => []PublishedImageIsAProgram` |
| | `MapsReadTensors` | `GlobalsTellPrograms`: `MappingSpec => []MappedReadsAreTensors` |
| `TransformerBlockProofs` | `TypeCorrect` | `Spec => []TypeOK` |
| | `UnitsReadSettledInputs` | `ColdStart /\ Spec => []InputsAreSettled` |
| | `BlockOutputsTheToken` | `ColdStart /\ Spec => []OutputIsTheTokens` |
| `AttentionPathProofs` | `TypeCorrect` | `Spec => []TypeOK` |
| | `RowsComeOutRight` | `Spec => []SoftmaxIsRight` |
| | `LaterRowsKeepOut` | `Spec => FinishedRowsKept` |
| | `AttentionIsAScheduler` | `AttentionSpec => Init /\ [][Next]_vars` |
| | `ContextComesOutRight` | `AttentionSpec => []ContextIsRight` |
| | `BridgedStaySoftmax` | `PatternSpec => []BridgedSitesAreSoftmax` |
| `ArithmeticProofs` | `TokensArePaired` | `Spec => []PairsInOrder` |
| | `ScheduleStaysExact` | `ScheduleSpec => []ScheduleIsExact` |
| | `LimbsStayExact` | `ScheduleSpec => []LimbsHoldTheSum` |
| | `RegistersStayInWidth` | `ScheduleSpec => []ScheduleTypeOK` |
| | `CapturesStayOfTheirRun` | `HandshakesSpec => []CapturesAreOfTheirRun` |
| | `LampsStayEarned` | `SelfTestSpec => []LampsAreEarned` |
| | `BridgeStaysFrozen` | `BridgeSpec => []BridgeIsFrozen` |
| `StrictRunnerProofs` | `TypeCorrect` | `Spec => []TypeOK` |
| | `CacheStaysSound` | `Spec => []CacheIsSound` |
| | `SummariesAreOfOneBuild` | `MaxMixed <= Len(Cases)`: `FrozenSpec => []SummaryIsOfOneBuild` |
| | `WrittenMemoriesHoldTheImage` | `BindingsSpec => []MemoriesHoldTheImage` |
| | `DiagnosticPassesAreEarned` | `DiagnosticSpec => []DiagnosticPassIsEarned` |
| `StrictFixtureProofs` | `ReceiptsAreEarned` | `Spec => []ReceiptIsEarned` |
| | `VerdictsAreEarned` | `Lanes > 1`: `Spec => []VerdictsAreTrue` |
| `ScriptProofs` | `PublicationStaysSound` | `GateSpec => []PublicationIsSound` |
| | `ReportsStayEarned` | `BackendSpec => []ReportIsOfItsConversion` |
| | `MatrixStaysGrounded` | `MatrixSpec => []MatrixIsGrounded` |
| | `ShardsStayRight` | `ShardsSpec => []ShardsAreRight` |
| | `ReportsStayHonest` | `ReportsSpec => []ReportsNameWhatTheyUsed` |
| | `AlignedStaysEarned` | `MaxSwaps <= 1`: `SliceSpec => []AlignedIsEarned` |
| | `TensorsStayNamed` | `ReferenceSpec => []TensorsAreNamed` |
| | `ServedStaysTraced` | `ServingSpec => []ServedAsTraced` |
| | `MonitorTypeCorrect` | `Spec => []TypeOK` |
| | `SamplesHaveMetadata` | `Spec => []SampledAreDescribed` |
| | `StatusIsTheCommands` | `Spec => []ExitStatusIsTheCommands` |

**Transport** (any image, client width from 1 to 16 bytes, set of failing words,
byte domain that contains 0).  That a response carries the asked bytes depends on
the completed line being of the asked word, which depends on the accepted word
being the latched one, which depends on the latched one being the client's, and
each of these hops is a register of another automaton.  `IInv` names the hops:

- `WaitingInv`: the client waits exactly while the adapter is busy or answering;
- `LatchedInv`: the registers of a busy adapter hold the client's request, which
  is a read that fits;
- `HeldInv`: the controller holds a read only for a busy adapter, the acceptance is
  on its way while the strobe is still up, and the read is of the saved word;
- `CompletedInv`: an acknowledgement finds the adapter waiting, and carries the
  line of the saved word, with an error exactly for a word of `BadWords`;

beside `TypeOK` and the two halves of `AnswersAreRight`.  The refinement theorem
adds that each edge is a step of the service or a stutter.

**Image** (any programs, tensors, cases and alignment, any number of packs, killed
packers and replacements).  First what packing computes: `LaidOut` says of a prefix of
the sorted tensors that each has its segment, aligned, after the one before it, and that
the image holds its payload there; `PackedIsLaidOut` carries it through the loop, and
later appends leave earlier bytes alone.  Then the files: `ImageInv` says that a manifest
that is whole is the packer's for *one* program, though perhaps beside the hash of another
(`FilesInv`, `PackerInv`), that a reference is one program's answers (`OracleInv`), and
what the replayer has read (`ReplayerInv`).  The graph, the segments and the reference a
replay joins may be of three programs; all it learns is that they have one signature and
that graph and segments answer the corpus alike.  That this makes them one program's is
the supposition `CorpusTellsPrograms`, which `MCWorkingImage` confirms of its programs
(`SuppositionsHold`); it is what the code relies on, and is false only of a corpus too
small to tell two programs apart.  `TensorsAssumption`: a program names each tensor once.

**Mapping** (any designs, images, ports and regenerations; a DDR3 word holds whole
float32s and divides the alignment).  `MappingInv`: what is published is a program's image,
every receipt holds a port table that was generated and the words of one program, and the
generator's copies were receipts.  The address arithmetic is `ElementIsRead`: because a
width in bytes of 1, 2 or 4 divides the word, and the word the alignment, no element
straddles two lines.  `GlobalsTellPrograms` supposes that globals which are all found among a
program's tensors are that program's: the mapper compares bytes and never names.

**Block controllers** (any number of tokens and lanes, units of any duration).
`ColdInv` has the control (`OneAtATime`: a node is started, at work or done, one of
them; `ParentWaits`: and only while its controller waits for it, so at most one path
from the block to a unit is active) and the data (`EarlierStagesCompleted`,
`DoneIsCompleted`, `UnitsRead`, `NormsRead`).  A LayerNorm adapter is left out of the
control part because it re-arms and runs by itself (finding 1): of it `NormHolds` knows only
that it is armed with inputs that are settled, so a pass that nobody asked for
computes the same token's data again, until a token comes without a reset.  This
is why the theorem needs `ColdStart`, and `FreshIsQuiet` is where it is used.

**Softmax** (any row length, number of heads and runs).  `RowsAreRight`, one half of
`SoftmaxIsRight`, speaks of the
edge after the last row; what carries it there is one row's way through two
automata: `LoadInv` (the scores sent so far are in the core's memory), `OfferInv` (the
core offers the share of the index *before* the one it shows, or, while it is
acknowledged, of that index: the lag the scheduler's comment describes),
`CollectedInv` (the slots before that are right), `EarlierInv` (so are all earlier
rows), `AllInv` (at done, all), with the other half, `CoreInLockstep`, `CallerInv` and `StartedInv`.

**Attention path** (any row length, heads, dimensions and runs).  `PathInv` adds the
pulses of the controller (`ScorePulse`, `SoftmaxPulse`, `ContextPulse`: at most one stage is
started, at work or done, and it is the controller's), and the data each stage has
finished (`ScoreInv`, `ContextInv`: an accumulator is the sum over the keys before its
counter, causal ones only).  With it a step of the path is a step of the scheduler
(`StepIsStep`), so the softmax invariant carries over, and what is left in slots past
the position never enters a sum.

**Softmax pattern** (any number of layers, any workspaces shared among them).  `GraphInv`: the
masks come first, one per layer, and no nest comes twice; a division comes after its layer's delta and
exponential.  `MatcherInv`: `ChainHolds` has what the matcher checked of each chain found so far,
`SiteHolds` what it keeps to refuse a later one, and `InTurn` what that yields: of two exponentials in
one workspace the later comes after the division of the earlier.  No two chains have one exponential,
there are as many chains as layers, so every exponential is in a chain (`EverySiteHasAChain`); with two
exponentials between one and its division `InTurn` would fail, so what a division reads is its own.  A
chain's mask argument names its layer (`ChainIsOfItsLayer`).  Where nothing is shared there may be a
flaw, and `OnlyTheseFlaws` shows that the checks reject each of them.

**Float primitives** (any width, operations and tokens, any number of them): `InStep`
says how many tokens each side has beyond the results, `OwnTokens` that every result is
that of its own tokens.

**LayerNorm schedule** (any width of word, any number of lanes that divides a limb, any
input).  `ScheduleInv` says at each loop what has been computed, in unbounded integers:
the sum of the lanes so far, the mean, the sum of squares as `high * Limb + low`, the
root and the lanes emitted.  In the squares loop a square fits a limb and the carry is at
most one, so the high limb stays below `Lanes` (`LimbsStayExact`; `Lanes <= High`).  In
the root loop `Partial(k, p)` is the classical invariant: after the bits above `k` the
root register holds `2pq` for the root `p` found so far and the bit's weight `q`, and
the remainder is the rest.  `Epsilon < Word` keeps the addend within a limb,
`Epsilon > 0` the divisor from zero, and `4 * Lanes * Unit^2 <= HalfWord^2` every
normalised value within a word.  The code's Q16.16 words
and 64 lanes are one instance.

**Calyx handshakes** (any groups, registers, sharing and latency, any number of repairs and
runs).  `SvInv` says of each register's enables that they are what the compiler emitted, or what a
repair left: every pair one group's own converter (`OwnEnables`), no captured group without one; a
repair of such text changes nothing.  `DividerInv`: the unit holds, the wrapper's register shows, the
quotient register has this run's quotient, each from the step in which it does so on.  `ConvertersInv`: a
converter that has aged has converted this run's quotient.  A register that is written
under its own converter then has it (`RegistersInv`).

**Self-tests** (any header, widths, timeout and design).  `WrapperInv`: a port has a load in flight
exactly while its register says so, and then for the address the wrapper keeps (`KeepsItsAddress`), a
store unreturned exactly while one is to be acknowledged, a start until it is sent, once
(`LampsInv`).  `MatmulInv`: the operands up to the index are seeded, a design that started found all
of them, the first result is judged.

**LayerNorm bridge** (any files, exchanges and kills).  `InHand`: from the primitive on the evidence
in hand is the pinned one, from the descriptor on so are the operation and the MLIR.  Every reading
after a hash is checked against what is pinned, or enters the record that `validate_source_op` compares as a
whole (`OneSourceIsValid`), so exchanges between hash and read end in a refusal.

**Equivalence cache** (any inputs, any number of invocations; `Absent` and `Torn`
are no contents).  `ReceiptIsTrue`, one half of `CacheIsSound`, is about a receipt that is written long after the
files were checked.  `WriterInv` says which files a compile at its n-th step has
written, `MetadataInv` that metadata which can be read are those of *some* complete
compile, even when the files beside them are not, `ReaderInv` that a run-only
invocation holds metadata of its own design and then payloads that match them,
whatever happens on disk meanwhile, and `CompiledInv` that the files of a completed
compile stay until the next one starts.

**Frozen gate** (any cases, builds, reruns and kills).  A receipt is a whole run's or a
mixture; `Provenance` keeps a set of names no larger than the number of parts that were
moved, outside which every receipt, loaded or on disk, is as some build's run wrote it.
`MaxMixed <= Len(Cases)` leaves at least one of the cases and the sequence outside
that set, and the reducer's comparisons tie all others to that one.  With every
receipt mixed, the same parts can be moved everywhere and nothing is left to tell.

**Bindings** (any design, lowering, package, number of ports).  `BindersInv`: `RowsAreBound`
in strict mode, where each row was checked against the lowering and the package;
in diagnostic mode `Given`, an injection of the ports filled so far into segments, because
that mode takes one from the `left` ones for each; and that what was checked of the ABI
at first still holds when the memories are written.

**Diagnostic mode** (any inputs, commands, designs, exchanges and kills).  `CompileIsOfTheInputs` follows
a compile that nobody disturbs, file by file; `SettledIsWhole` says that what such a compile left
is of the inputs its metadata name, `LoadedIsOfTheInputs` that a verified
reader found those inputs in place, and `SimulatedIsOfTheInputs` that binary and memories
agree with them.  `settled` is needed because `--verify-cache` compares the metadata
with the inputs and never with the binary: a compile killed between its binary and
its metadata leaves the metadata of the compile before.

**Bench** (any design, oracle, bound, lanes, slots and requests; the oracle's token is the
lowest argmax of its codes, as the packer of records has it).  `Watched` relates the bench's
registers to what the design did: the output memory is the design's writes over
cleared ones, the mask the lanes it wrote.  `Launched` is where the bench is within a
case, `GivenCase` that record and context are the request's next ones even if the
files are damaged, `LogIsEarned` what the passed cases have shown, and `Written` that the
transcript is their records with latencies within the bound.  `ReceiptsAreEarned` then
follows from what the parser accepts.  The other direction, `VerdictsAreEarned`, needs
`Lanes > 1`: a design with one lane can write it at the edge of its launch and be done in no
cycle, and the parser refuses a latency of zero that the bench has passed.

**Package gate** (any number of runs, kills and exchanges).  `ExportInv` counts what a wrong
export costs: one exchange after the first verification, another before the second;
`StageInv` and `DestinationInv` follow the files into the published directory; `RaceInv`
says that a run is turned away only from a directory that is taken, or in favour of a
`Candidate` that can still take it or was stopped by something else.

**LayerNorm lowering** (any number of invocations and kills).  `FileInv` ties the Calyx file to
an invocation that converted it, `TextInv` says that a text which was not parsed again
was replaced once, and twice if it is back, `ReportInv` and `ProbeInv` carry that to the
report and the probe.

**Route matrix** (any primitives, transformations and behaviour of the tools).  `MatrixInv`:
`Founded` says of each row what its files show, and that an accepted full-model row
stands on an accepted row before it; `Unwritten` that no output of a later row exists,
so that a row's good file is its own.

**Shards** (any programs, vocabulary, ranges, overlapping and killed invocations and
exchanges).  `SoundInvocation` says that only a program that passed the preflight on the
corpus is evaluated; that two invocations never write one range at a time comes from the
exclusive creation of its file; `SoundShard` that whole metadata stand beside the
words of a program that agrees on the corpus with the one the receipt names.  Nothing is
supposed of what the programs compute: `pack_record` refuses what does not fit a
record.  `MergeInv` has the ranges verified so far, and `Covers` every context once.

**Reports** (any sets of files, exchanged any number of times).  `AuthorInv` has, per file, what is in
hand (`Opened`), that without an exchange disk, hand and report agree (`Quiet`), that another file is
in hand only if it is still to be hashed (`Sealing`), that a file named by what was read is
read once (`Owning`), and how a file that is hashed again can still be wrong (`Rehashing`: it
was exchanged once and is still there, or the report shows it, or it was exchanged twice).
Of the fifteen sequences the proof uses their order only, `StepsAssumption`: a fact about
constants that are written out, which TLC evaluates.

**Slices** (any designs, contracts, paths, evidence, extractions and kills; at most one replacement).
`ExtractorInv`: until the replacement everything an extraction has in hand is cut from one
design, so a manifest that is ready binds the modules of its block (`ManifestInv`).  After it nothing
is replaced any more, so what the comparison hashed is what it reads again (`ComparerInv`:
`SourcesAsHashed`, `FilesAsHashed`), or an extraction has written between (`overtaken`).
`ReportsAreTaken` and `PathsAreClaims` lead from a claim to the measurement behind it; four
distinct ids keep one measurement from standing for two claims (`IdsDiffer`).

**Reference package** (any package, contract, configuration, verifier and exchanges).  `RunInv` has
what a run holds at each step (`FrozenInHand`: while neither manifest nor contract is
exchanged, they are the frozen ones), `BundleIsNamed` the tensors: each was cut from the files read
*after* the verification and hashed again, so a replaced image is refused.  The names of a manifest
that passed are the expected ones and its keys differ, so no tensor
overwrites another (`ReferenceAssumption`: an object has a name once).

**Serving** (any models, traces, faults, exchanges and runs).  `NativeSound`: after its n-th call the native
run has recorded the first n phases of one model's trace, and its cache object holds what the
last of them says, whether the calls grow it or copy it.  `RunReadsARecord`, `ProgramsServe` and
`NothingMade` carry this to the bundle: a program that was compared answers its phase of the trace
that was read, and a manifest lists the three that were.

**Monitor** (any workers, lines, statuses).  `VisitInv` (a process about to be sampled
is described), `EndedInv` (the final sample comes after the command's end),
`SummaryInv` (no summary before the end).

**Loops** states induction over the naturals for a set of values, what a recursive
function returns (`Loop`), existence and uniqueness of quotients by a divisor that is a
variable, and digits.  The provers cannot instantiate the library's induction
theorems, so what a LET-recursive function computes (`Packed`, `Sums`) is proved by
showing that the set of places up to which a claim holds is all of them.

Only model-checked:

- every liveness property: `Answered` and the service's `Prompt`, `TokenFinishes`,
  `AttentionFinishes`, `SimulationEnds`, `StopsWithTheCommand`.  Liveness under fairness and
  `ENABLED` are out of this prover's reach, so `ImplementsReadService` and
  `ImplementsScheduler` are proved in their safety part only;
- `TextIsUnderstood`: `SvNormalizer` is the one module that uses `RECURSIVE`, and
  no backend is left for a module that reaches one;
- `ResultsAreRight`, `ArithmeticIsKept`: powers of a symbolic exponent have no backend;
- `AccessIsKept`: its model folds over sequences and uses `SelectSeq`, whose definitions the
  provers cannot expand.

Some type invariants are stated and not in a run's configuration: those of the modules
with proofs are theorems or part of an inductive invariant.

## 6. What is left out

### Limits of what is modelled

- **Transport.**  A controller that raises `wb_err` alone or acknowledges in the cycle after
  acceptance, and a client that asks while it waits, are outside the bench's contract.
- **Kernels.**  GEMV, GELU and the arithmetic of the row core (exponential, division) are
  abstract; scores and context are cycle by cycle.
- **Float primitives.**  `ResultsAreRight` claims nothing of floats beyond 2^47 (`Fits`: the
  shift leaves the register), nor of the ceiling of a negative fraction or
  of rounding next to the ends of the range, where the magnitude of the least number overflows.
- **Views.**  One access per function, static shapes.  An access straight to a global of two
  or more dimensions is excluded, because an earlier pass has flattened it.  `AccessIsKept` has the
  premise `CastsAreOfWholeBuffers`: the pass adds a source's offset to a cast's own
  (`tools/mlir-passes/FoldConstantTruncFOps.cpp:488`) where the dialect takes the latter absolutely.
- **Scalars.**  A float is a number of a grid whose integer part fits i32, or minus infinity at the
  one division that yields it; plus infinity, NaN and larger numbers are outside, and so is a
  sum of float and zero point that overflows i32.
- **Handshakes.**  One enable per group in the Futil (or none, or a wrong converter's, which is
  refused).  The converter's and the divider core's timing is external: ready also in the cycle of its
  answer, which comes in any later cycle.  The unrepaired divider wrapper is not run.  That other
  groups may overwrite a shared register later is not claimed away.
- **Equivalence cache.**  `make` rebuilds what Verilator generates anew; one compiling
  invocation per directory at a time, as the diagnostics use it.
- **Text.**  An OR that is cut inside parentheses gives text that no simulator reads; such
  text has no meaning to keep.
- **Bindings.**  Payloads are scaled down.  That the diagnostic mode chooses the segments
  that strict mode binds is not claimed.
- **Bench.**  `go` (the design need not obey it), the literals `reset_complete` and `reset_cycles`, and
  the heartbeat and snapshot options, which only print, are left out.
- **Gate and lowerings.**  `PublicationIsSound` holds up to one exchange of the package per run: two
  readings that agree cannot tell a package that was exchanged and exchanged back.
  `ReportIsOfItsConversion` likewise excepts a text that two others replaced in turn.
  `circt-opt` is taken to write its file at once.
- **Shards.**  `ShardsAreRight` cannot tell programs apart that agree on the corpus; a merge starts on
  metadata that exist.
- **Image and map.**  The build's output directory is fresh and a published one immutable, as Nix has it, so
  the mapping phase starts from published images (`PublishedImageIsAProgram` says what those are).
  The port of the inline zero may have no alias in the image; two byte-identical segments
  give a port two aliases, and the mapper then refuses.
  The manifest with six keys is taken from the generator's tests.  Audit and
  evidence accept a depth that exceeds the words where the mapper wants equality; the mapper does not
  check that an offset is aligned, which `MappedReadsAreTensors` shows is not needed of a published image.
  Widths and alignment are scaled.  The replay's report file, the derivation's repetition
  and comparison, and the source closure are left out.
- **Slices.**  One replacement, one comparison, and evidence with at most one flaw; the exception
  `overtaken` is an extraction that writes between the comparison's two readings.  Waste
  map, report formats and the result's input hashes are left out.
- **Softmax pattern.**  A layer's scores and sum are in its own buffers, a buffer has one role, and seed
  and update of an accumulator are one nest.  The matcher compares sum buffers by spelled name, and does
  not track a score buffer that is overwritten between mask and use; nor does it check the index of the
  maximum's loop, so `NestFlaws` has no such flaw.  The named pattern and the compare form of the mask
  are left out.
- **Reports.**  What the scripts compute (traces, tables, receipts' fields) is left out: it is a function
  of what they read.  The Python sources that are imported before the first step, and git's index, are
  not exchanged.  A file and the record that another pinned file keeps of it are pinned
  together.  The board receipt of the profile selection is never accepted, because the registry of
  approved boards is empty (`scripts/comparison/select_tinystories_1m_implementation_profile.py:38`).
- **Reference package.**  The verifier's receipt hashes the files once more and compares nothing
  (`scripts/comparison/verify_tinystories_1m_reference_input.py:231-238`); a contract exchanged between pin and
  read can pin another manifest, which is why `TensorsAreNamed` claims the frozen manifest only while those
  two stay.  The numbers of the trace are left out.
- **LayerNorm bridge.**  The MLIR is written before the report, both in place: beside a report there may be
  MLIR that is half written, while a run rewrites it or when it was killed.  `BridgeIsFrozen` says so.
- **Serving.**  Tensors are the tokens they come from; their shapes, types and rounding are one fault each.
- **Self-tests.**  The lamp that blinks, clock and pins are left out; a load is of one port.
- **Diagnostic mode.**  `sv` stands for the design with its support files, which the code neither hashes nor binds.
  A fixture-only run replaces the memories under an older binary and metadata, and a row that is late
  after some output still prints a result that can pass; the property is stated for what a compile left undisturbed.
- **Monitor.**  Sizes, names, times, and the reuse of process ids.
- Everywhere: hashing (a hash is what it was computed from), report formatting, the
  external compilers.

### Not modelled

- The streaming softmax wrapper (`llm2fpga_attention_softmax_fixed`) passes ports through and is
  instantiated by nothing; the tensor wrapper, which the attention block instantiates, is wires
  around the scheduler and part of `AttentionPath`.  The board top ties off a core that is a stub.
- Single-pass scripts that only compare numbers or print (the other comparison scripts, most
  pipeline stages): nothing concurrent, no state, no identity to authenticate.
- Externalising memories and normalising names, call lowering, constant truncation, dropped
  assertions, the polynomial approximations and the Calyx preflight: they move or rename text, or
  are analysis over real numbers.
- The other model adapters and compilation entry points: tensor arithmetic in PyTorch and calls of
  external compilers, with no state between calls.
- The Nix build graph is declarative; how it calls the scripts is the environment of
  `EquivalenceCache`, `FrozenGate` and `WorkingImage`.
- Studies, archives, reproducers and artifacts hold data and frozen copies.

## 7. Plan

Done: transport; block controllers; attention path; float primitives; the passes before and the
repairs after Calyx; the strict runner's cache, gate, normaliser, bindings, bench and
parser, and its diagnostic mode; shards; image and map; package gate; LayerNorm lowering and bridge; matrix;
slices; softmax pattern; authenticated reports; reference package; serving; self-tests; monitor; the
proofs of section 5.  Left, most important first:

1. Proofs of the saturating arithmetic (`ResultsAreRight`, `ArithmeticIsKept`) with powers as recursive
   functions, and of `AccessIsKept` with the views' chain as one.
2. The kernels of the MLP (GEMV, GELU) cycle by cycle, fed through the DDR3 adapter once the
   repository connects them.
3. The polynomial approximations of the passes against bounds of their error.
