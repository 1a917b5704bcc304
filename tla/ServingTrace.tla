----------------------------- MODULE ServingTrace -----------------------------
(***************************************************************************)
(* The stateful serving trace: rc_serving_contract.py fixes a prefill and  *)
(* two decodes, rc_serving_evidence.py runs them on the native model and   *)
(* records what every call answers and leaves in its cache, and            *)
(* rc_serving_direct_export.py exports one program per phase and publishes *)
(* the three as a bundle, compared with the model and with the record.     *)
(*                                                                         *)
(* A cache is an object: a call may return a new one or grow the one it    *)
(* was given.  An entry of a cache stands for the keys and values of one   *)
(* position in all leaves; it is the token they were computed from.        *)
(***************************************************************************)
EXTENDS Naturals, Sequences, FiniteSets

CONSTANTS
    Models,          \* what the model's directory may hold
    VOCAB_SIZE, PREFILL_LENGTH,
    Score(_, _, _),  \* a model's logit of a token at the end of a context
    Traces,          \* what the trace's file may say
    CallFaults,      \* how a native call may treat its cache
    ExportFaults,    \* how an exported program may differ from its model
    MaxExchanged,    \* bound on exchanges of the model and of the record
    MaxStarts        \* bound on the runs that materialize a bundle

ASSUME ServingAssumption ==
    /\ VOCAB_SIZE \in Nat \ {0} /\ PREFILL_LENGTH \in Nat \ {0}
    /\ \A t \in Traces : t.prompt \in Seq(Nat)
    /\ MaxExchanged \in Nat /\ MaxStarts \in Nat

VARIABLES
    updates,         \* whether a native call grows the cache it is given
    fault,           \* of the native calls
    trace,           \* what the trace's file says
    model,           \* what the model's directory holds
    native,          \* the run that records the native trace
    recorded,       \* the file it writes
    run,             \* the run that materializes the bundle
    out,             \* the bundle's directory
    exchanged,       \* exchanges of the model or of the record so far
    starts           \* runs that have materialized so far

servingVars == <<updates, fault, trace, model, native, recorded, run, out, exchanged, starts>>

-----------------------------------------------------------------------------
(* rc_serving_contract.py                                                  *)

Tokens == 0..(VOCAB_SIZE - 1)
Phase(name, length, before) ==
    [name |-> name, input_length |-> length, cache_length_before |-> before,
     cache_length_after |-> before + length, cache_positions |-> before..(before + length - 1)]
Phases == <<Phase("prefill", PREFILL_LENGTH, 0),
            Phase("decode", 1, PREFILL_LENGTH),
            Phase("decode next", 1, PREFILL_LENGTH + 1)>>

validate_token_ids(values, length) == Len(values) = length /\ \A i \in 1..Len(values) : values[i] \in Tokens
load_trace == validate_token_ids(trace.prompt, PREFILL_LENGTH) /\ trace.phases = Phases

argmax_lowest(logits) ==
    CHOOSE t \in Tokens :
        \A u \in Tokens : logits[u] < logits[t] \/ (logits[u] = logits[t] /\ t <= u)

-----------------------------------------------------------------------------
(* rc_serving_source.py: the native model.  A cache that is no native one  *)
(* has another type, tree or leaf.                                         *)

Cache(type, entries) == [type |-> type, entries |-> entries]
NoEntries == Cache("native", <<>>)
Rewritten == VOCAB_SIZE

Grown(before, input, how) ==
    IF how = "rewrites" THEN Cache(before.type, <<Rewritten>> \o Tail(before.entries \o input))
    ELSE IF how = "forgets" THEN before
    ELSE Cache(IF how = "retypes" THEN "other" ELSE before.type, before.entries \o input)

Logits(m, cache) == [t \in Tokens |-> Score(m, cache.entries, t)]
GreedyToken(m, cache) == argmax_lowest(Logits(m, cache))

\* The caches in memory, the one returned, and how it was left.
run_native_call(heap, input, id) ==
    LET after == IF id = 0 THEN Cache("native", input) ELSE Grown(heap[id], input, fault)
        fresh == id = 0 \/ updates = "a copy"
        back  == IF fresh THEN Len(heap) + 1 ELSE id
    IN  [heap |-> IF fresh THEN Append(heap, after) ELSE [heap EXCEPT ![id] = after],
         cache |-> back, left |-> after]

(* The input and the cache of a phase, from new calls of the phases before *)
(* it and, for the first decode, of that decode itself.                    *)
fresh_phase_invocation(m, n) ==
    LET prefill == run_native_call(<<>>, trace.prompt, 0)
        token   == GreedyToken(m, prefill.left)
        decode  == run_native_call(prefill.heap, <<token>>, prefill.cache)
    IN  IF n = 1 THEN [input |-> trace.prompt, heap |-> prefill.heap, cache |-> 0]
        ELSE IF n = 2 THEN [input |-> <<token>>, heap |-> decode.heap, cache |-> prefill.cache]
        ELSE [input |-> <<GreedyToken(m, decode.left)>>, heap |-> decode.heap, cache |-> decode.cache]

-----------------------------------------------------------------------------
(* rc_serving_evidence.py and build_rc_serving_reference.py                *)

PhaseRecord(m, input, cache) ==
    [input |-> input, last_logits |-> Logits(m, cache), greedy_token |-> GreedyToken(m, cache),
     cache |-> cache]

SameSchema(before, after) == before.type = after.type
GrowsByOne(before, after) == Len(after.entries) = Len(before.entries) + 1
PrefixUnchanged(before, after) ==
    \A i \in 1..Len(before.entries) : i <= Len(after.entries) /\ after.entries[i] = before.entries[i]
assert_cache_prefix_unchanged(before, after) ==
    SameSchema(before, after) /\ GrowsByOne(before, after) /\ PrefixUnchanged(before, after)

NoTrace == [phases |-> <<>>]
NativeIdle == [pc |-> "idle", of |-> CHOOSE m \in Models : TRUE, heap |-> <<>>, cache |-> 0, records |-> <<>>]

RunPrefill ==
    /\ native.pc = "idle"
    /\ load_trace
    /\ LET call == run_native_call(<<>>, trace.prompt, 0) IN
       native' = [pc |-> "decode", of |-> model, heap |-> call.heap, cache |-> call.cache,
                  records |-> <<PhaseRecord(model, trace.prompt, call.left)>>]
    /\ UNCHANGED <<updates, fault, trace, model, recorded, run, out, exchanged, starts>>

\* The snapshot of a cache is a copy, taken before the next call.
RunDecode ==
    /\ native.pc = "decode" /\ Len(native.records) < Len(Phases)
    /\ LET last == native.records[Len(native.records)]
           call == run_native_call(native.heap, <<last.greedy_token>>, native.cache)
       IN  IF assert_cache_prefix_unchanged(last.cache, call.left)
           THEN native' = [native EXCEPT !.heap = call.heap, !.cache = call.cache,
                              !.records = Append(@, PhaseRecord(native.of, <<last.greedy_token>>, call.left))]
           ELSE native' = [native EXCEPT !.pc = "refused"]
    /\ UNCHANGED <<updates, fault, trace, model, recorded, run, out, exchanged, starts>>

\* The model's own greedy generation, which may go another way.
Generated(first, second) == IF fault = "generates" THEN <<second, first>> ELSE <<first, second>>

WriteReference ==
    /\ native.pc = "decode" /\ Len(native.records) = Len(Phases)
    /\ LET chained == <<native.records[1].greedy_token, native.records[2].greedy_token>> IN
       IF Generated(chained[1], chained[2]) = chained
       THEN native' = [native EXCEPT !.pc = "written"] /\ recorded' = [phases |-> native.records]
       ELSE native' = [native EXCEPT !.pc = "refused"] /\ UNCHANGED recorded
    /\ UNCHANGED <<updates, fault, trace, model, run, out, exchanged, starts>>

-----------------------------------------------------------------------------
(* rc_serving_direct_export.py                                             *)

\* A program is specialized to the length of the cache it was exported with.
Program(m, length, how) == [of |-> m, length |-> length, differs |-> how]
CacheAt(heap, id) == IF id = 0 THEN NoEntries ELSE heap[id]
Accepts(program, cache) == Len(cache.entries) = program.length
RunExported(program, input, cache) ==
    LET grown == Grown(cache, input, IF program.differs = "cache" THEN "rewrites"
                                     ELSE IF program.differs = "type" THEN "retypes" ELSE "none")
        heard == IF program.differs = "logits" THEN Cache(grown.type, Tail(grown.entries)) ELSE grown
    IN  [input |-> input, last_logits |-> Logits(program.of, heard),
         greedy_token |-> GreedyToken(program.of, heard), cache |-> grown]

NoBundle == [source |-> FALSE, programs |-> <<>>, reference |-> NoTrace, manifest |-> <<>>]
NoRun == [pc |-> "idle", read |-> NoTrace, of |-> CHOOSE m \in Models : TRUE, digests |-> <<>>]
Current == Len(run.digests) + 1
RefuseRun == run' = [run EXCEPT !.pc = "refused"]

ReadNativeReference ==
    /\ run.pc = "idle" /\ starts < MaxStarts
    /\ load_trace /\ Len(recorded.phases) = Len(Phases)
    /\ run' = [NoRun EXCEPT !.pc = "directory", !.read = recorded]
    /\ starts' = starts + 1
    /\ UNCHANGED <<updates, fault, trace, model, native, recorded, out, exchanged>>

\* The directory may exist, that of the copied sources may not.
MakeDirectory ==
    /\ run.pc = "directory"
    /\ IF out.source THEN RefuseRun /\ UNCHANGED out
       ELSE run' = [run EXCEPT !.pc = "export"] /\ out' = [out EXCEPT !.source = TRUE]
    /\ UNCHANGED <<updates, fault, trace, model, native, recorded, exchanged, starts>>

\* A model and an invocation of its own for every phase; the program is saved.
ExportPhase ==
    /\ run.pc = "export"
    /\ LET invocation == fresh_phase_invocation(model, Current)
           length == Len(CacheAt(invocation.heap, invocation.cache).entries)
       IN  \E how \in ExportFaults : out' = [out EXCEPT !.programs = Append(@, Program(model, length, how))]
    /\ run' = [run EXCEPT !.pc = "compare", !.of = model]
    /\ UNCHANGED <<updates, fault, trace, model, native, recorded, exchanged, starts>>

EagerRecord(invocation) ==
    PhaseRecord(run.of, invocation.input,
                run_native_call(invocation.heap, invocation.input, invocation.cache).left)

\* Slip: the program is compared with the model alone.
ConformsToItself(program, n) ==
    LET invocation == fresh_phase_invocation(run.of, n)
        cache == CacheAt(invocation.heap, invocation.cache)
    IN  Accepts(program, cache) /\ RunExported(program, invocation.input, cache) = EagerRecord(invocation)

\* The native record, the model and its program agree.
Conforms(program, n) ==
    LET invocation == fresh_phase_invocation(run.of, n)
        cache == CacheAt(invocation.heap, invocation.cache)
        eager == EagerRecord(invocation)
    IN  /\ eager = run.read.phases[n]
        /\ Accepts(program, cache)
        /\ RunExported(program, invocation.input, cache) = eager

compare_eager_and_exported_phase ==
    /\ run.pc = "compare"
    /\ IF Conforms(out.programs[Current], Current) THEN run' = [run EXCEPT !.pc = "digest"] ELSE RefuseRun
    /\ UNCHANGED <<updates, fault, trace, model, native, recorded, out, exchanged, starts>>

\* Hashed on disk.
DigestPhase ==
    /\ run.pc = "digest"
    /\ run' = [run EXCEPT !.digests = Append(@, out.programs[Current]),
                          !.pc = IF Current = Len(Phases) THEN "copy" ELSE "export"]
    /\ UNCHANGED <<updates, fault, trace, model, native, recorded, out, exchanged, starts>>

\* The record is read again for its copy.
CopyReference ==
    /\ run.pc = "copy"
    /\ out' = [out EXCEPT !.reference = recorded]
    /\ run' = [run EXCEPT !.pc = "manifest"]
    /\ UNCHANGED <<updates, fault, trace, model, native, recorded, exchanged, starts>>

WriteManifest ==
    /\ run.pc = "manifest"
    /\ out' = [out EXCEPT !.manifest = run.digests]
    /\ run' = [run EXCEPT !.pc = "published"]
    /\ UNCHANGED <<updates, fault, trace, model, native, recorded, exchanged, starts>>

\* A run that was ended or was killed may be started again.
StopRun ==
    /\ run.pc # "idle"
    /\ run' = NoRun
    /\ UNCHANGED <<updates, fault, trace, model, native, recorded, out, exchanged, starts>>

-----------------------------------------------------------------------------
(* What the two scripts should have recorded of a model: each decode       *)
(* consumes the token the phase before it answered, on that phase's cache. *)

FirstPhase(m) == PhaseRecord(m, trace.prompt, Cache("native", trace.prompt))
NextPhase(m, phase) == PhaseRecord(m, <<phase.greedy_token>>, Grown(phase.cache, <<phase.greedy_token>>, "none"))
Served(m) ==
    <<FirstPhase(m), NextPhase(m, FirstPhase(m)), NextPhase(m, NextPhase(m, FirstPhase(m)))>>

ExchangeServing ==
    /\ exchanged < MaxExchanged
    /\ exchanged' = exchanged + 1
    /\ \/ model' \in Models \ {model} /\ UNCHANGED recorded
       \/ \E m \in Models : recorded' = [phases |-> Served(m)] /\ UNCHANGED model
    /\ UNCHANGED <<updates, fault, trace, native, run, out, starts>>

ServingInit ==
    /\ updates \in {"in place", "a copy"}
    /\ fault \in CallFaults
    /\ trace \in Traces
    /\ model \in Models
    /\ native = NativeIdle /\ recorded = NoTrace
    /\ run = NoRun /\ out = NoBundle
    /\ exchanged = 0 /\ starts = 0

ServingNext ==
    \/ RunPrefill \/ RunDecode \/ WriteReference
    \/ ReadNativeReference \/ MakeDirectory \/ ExportPhase \/ compare_eager_and_exported_phase
    \/ DigestPhase \/ CopyReference \/ WriteManifest \/ StopRun
    \/ ExchangeServing

ServingSpec == ServingInit /\ [][ServingNext]_servingVars

-----------------------------------------------------------------------------
(* The record is that of one model, every decode on the cache the phase    *)
(* before it left.  A published bundle has, for every phase, a program     *)
(* that takes the cache of that phase's length and answers what the record *)
(* says -- whether or not a call grows the cache it is given, however the  *)
(* exports err, and whatever was exchanged or started again meanwhile.     *)
RecordIsServed == recorded.phases # <<>> => \E m \in Models : recorded.phases = Served(m)
ProgramServes(program, n, phases) ==
    /\ program.length = Phases[n].cache_length_before
    /\ RunExported(program, phases[n].input, IF n = 1 THEN NoEntries ELSE phases[n - 1].cache) = phases[n]
BundleServes ==
    out.manifest # <<>> =>
        /\ out.manifest = out.programs /\ Len(out.programs) = Len(Phases)
        /\ \E m \in Models :
             /\ \A n \in 1..Len(Phases) : ProgramServes(out.programs[n], n, Served(m))
             /\ exchanged = 0 => out.reference.phases = Served(m)
ServedAsTraced == RecordIsServed /\ BundleServes
=============================================================================
