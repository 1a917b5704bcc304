------------------------------- MODULE FrozenGate -------------------------------
(***************************************************************************)
(* The frozen gate of the strict runner (run_rc_sv_equivalence.py,         *)
(* --reduce-frozen-four): each case is simulated in a process of its own,  *)
(* then all cases one after the other in one process, and the reducer      *)
(* certifies that both gave the same, on the same build.                   *)
(*                                                                         *)
(* Receipts are files: a simulation may be repeated with other inputs      *)
(* while the reducer runs, and a receipt may end up with a part of another *)
(* one.  A hash is what it was computed from.                              *)
(***************************************************************************)
EXTENDS Naturals, Sequences, FiniteSets

CONSTANTS
    Builds,          \* the inputs of a simulation: a version of each
    Cases,           \* the sequence of the cases
    Latencies,       \* cycles a case may take
    MaxReruns,       \* how many receipts are replaced by those of another run
    MaxMixed,        \* how many receipts get a part of another run's
    MaxReductions    \* how often the reducer is called

InputNames == {"sv", "image", "manifest", "flatScf", "preCalyx"}
BuildNames == InputNames \cup {"proof", "settings", "runner", "simulator", "bound"}
Sequence == "sequential"
CaseNames == {Cases[n] : n \in DOMAIN Cases}
Names == CaseNames \cup {Sequence}

ASSUME FrozenAssumption ==
    /\ Builds \subseteq [BuildNames -> Nat] /\ Builds # {}
    /\ Cases \in Seq(CaseNames) /\ Cases # <<>> /\ Sequence \notin CaseNames
    /\ Cardinality(CaseNames) = Len(Cases)
    /\ Latencies # {}
    /\ {MaxReruns, MaxMixed, MaxReductions} \subseteq Nat

VARIABLES
    proof,           \* the constant-bits file given to the reducer
    receipts,        \* the receipt of each case, and of the sequence
    altered,         \* how many were replaced, and how many mixed
    reducer,         \* the reducer's control point and what it has loaded
    counterexample,  \* whether a counterexample file was written
    summary          \* the summary file

gateFiles == <<proof, receipts, altered>>
frozenVars == <<gateFiles, reducer, counterexample, summary>>

-----------------------------------------------------------------------------
(* What the strict runner writes about a run.                              *)

Bindings(b) == [abi |-> b.sv, image |-> b.image, manifest |-> b.manifest,
                flatScf |-> b.flatScf, preCalyx |-> b.preCalyx]
Fixture(b) == <<b.sv, Bindings(b)>>

(* The runner takes an oracle shard only if it was evaluated beside its    *)
(* image and manifest.                                                     *)
Shard(case, b) == [case |-> case, image |-> b.image, manifest |-> b.manifest]

(* A case that passed: its codes are those of its shard.                   *)
PassedCase(shard, cycles, ordinal) ==
    [shard |-> shard, cycles |-> cycles, ordinal |-> ordinal]

StrictReceipt(b, status, cases, cycles) ==
    [proof |-> b.proof,
     abi |-> b.sv,
     bindings |-> Bindings(b),
     inputs |-> [f \in InputNames |-> b[f]],
     sv |-> [raw |-> b.sv, normalized |-> b.sv],
     fixture |-> Fixture(b),
     configuration |-> [settings |-> b.settings, proof |-> b.proof, bindings |-> Bindings(b)],
     cacheIdentity |-> [proof |-> b.proof, bindings |-> Bindings(b)],
     cacheHashes |-> [raw |-> b.sv, normalized |-> b.sv, fixture |-> Fixture(b), abi |-> b.sv,
                      bindings |-> Bindings(b)],
     runner |-> b.runner,
     simulator |-> b.simulator,
     bound |-> b.bound,
     status |-> status,
     oracle |-> [n \in DOMAIN cases |-> Shard(cases[n], b)],
     cases |-> [n \in DOMAIN cases |-> PassedCase(Shard(cases[n], b), cycles, n)]]

CasesOf(name) == IF name = Sequence THEN Cases ELSE <<name>>
RunReceipts(name) ==
    {StrictReceipt(b, status, CasesOf(name), cycles) :
        b \in Builds, status \in {"pass", "fail"}, cycles \in Latencies}

-----------------------------------------------------------------------------
(* The reducer's checks.                                                   *)

(* _strict_frozen_receipt_identity: the memory bindings of a receipt are   *)
(* those of its ABI, its inputs and the oracle's image.                    *)
BindsItsInputs(r) ==
    /\ r.bindings.abi = r.abi
    /\ \A n \in DOMAIN r.oracle : r.oracle[n].image = r.inputs["image"]
                                  /\ r.oracle[n].manifest = r.inputs["manifest"]
    /\ r.bindings.manifest = r.inputs["manifest"]
    /\ r.bindings.image = r.inputs["image"]
    /\ r.bindings.flatScf = r.inputs["flatScf"]
    /\ r.bindings.preCalyx = r.inputs["preCalyx"]
    /\ r.sv.raw = r.inputs["sv"]

(* Its configuration and its cache are those of the proof and the bindings.*)
BindsItsCache(r, p) ==
    /\ r.configuration.proof = p
    /\ r.configuration.bindings = r.bindings
    /\ r.cacheIdentity = [proof |-> p, bindings |-> r.bindings]
    /\ r.cacheHashes = [raw |-> r.sv.raw, normalized |-> r.sv.normalized,
                        fixture |-> r.fixture, abi |-> r.abi, bindings |-> r.bindings]

Consistent(r, p) == r.proof = p /\ BindsItsInputs(r) /\ BindsItsCache(r, p)

SlipFields == {"abi", "bindings", "inputs", "sv", "fixture", "configuration", "cacheIdentity",
               "cacheHashes", "runner", "simulator"}

(* provenance_fields: what a fresh and the sequential receipt share.       *)
ProvenanceFields == SlipFields \cup {"bound"}

(* The sequential receipt is complete and is the cases' in their order;    *)
(* each fresh receipt is of the same build, and its only case took the     *)
(* same shard, codes and cycles.                                           *)
Agree(names, fresh, sequential, p) ==
    /\ sequential.status = "pass"
    /\ Len(sequential.cases) = Len(names) /\ Len(sequential.oracle) = Len(names)
    /\ Consistent(sequential, p)
    /\ \A n \in DOMAIN names :
        LET r == fresh[names[n]]
            case == sequential.cases[n] IN
        /\ r.status = "pass" /\ Len(r.cases) = 1
        /\ Consistent(r, p)
        /\ \A f \in ProvenanceFields : r[f] = sequential[f]
        /\ r.oracle = <<sequential.oracle[n]>>
        /\ r.cases[1].shard = case.shard /\ r.cases[1].cycles = case.cycles
        /\ r.cases[1].ordinal = 1 /\ case.ordinal = n

-----------------------------------------------------------------------------
NoReduction == [pc |-> "start", calls |-> 0, proof |-> 0, names |-> <<>>, loaded |-> <<>>]
NoSummary == [status |-> "absent", proof |-> 0, names |-> <<>>, loaded |-> <<>>]

FrozenInit ==
    \E b \in Builds :
        /\ proof = b.proof
        /\ receipts = [name \in Names |->
              StrictReceipt(b, "pass", CasesOf(name), CHOOSE l \in Latencies : TRUE)]
        /\ altered = [reruns |-> 0, mixed |-> 0]
        /\ reducer = NoReduction
        /\ counterexample = FALSE
        /\ summary = NoSummary

(* A simulation is repeated, with the same or other inputs.                *)
Rerun ==
    /\ altered.reruns < MaxReruns
    /\ altered' = [altered EXCEPT !.reruns = @ + 1]
    /\ \E name \in Names : \E r \in RunReceipts(name) :
         receipts' = [receipts EXCEPT ![name] = r]
    /\ UNCHANGED <<proof, reducer, counterexample, summary>>

(* A part of a receipt becomes that of another run's.                      *)
MixUp ==
    /\ altered.mixed < MaxMixed
    /\ altered' = [altered EXCEPT !.mixed = @ + 1]
    /\ \E name \in Names : \E r \in RunReceipts(name) : \E f \in DOMAIN r :
         receipts' = [receipts EXCEPT ![name][f] = r[f]]
    /\ UNCHANGED <<proof, reducer, counterexample, summary>>

Reducing(point) == reducer.pc = point

(* A call may also name a fresh receipt that does not exist, or give an    *)
(* option that is refused.                                                 *)
HashProof ==
    /\ Reducing("start") /\ reducer.calls < MaxReductions
    /\ \E point \in {"load", "counterexample"} :
         reducer' = [NoReduction EXCEPT !.pc = point, !.calls = reducer.calls + 1, !.proof = proof]
    /\ UNCHANGED <<gateFiles, counterexample, summary>>

(* The fresh receipts are loaded in the order of the options, the          *)
(* sequential one last; the options may name the cases in any order.       *)
LoadFresh ==
    /\ Reducing("load") /\ Len(reducer.names) < Len(Cases)
    /\ \E name \in Names \ ({Sequence} \cup {reducer.names[n] : n \in DOMAIN reducer.names}) :
         reducer' = [reducer EXCEPT !.names = Append(@, name),
                                    !.loaded = Append(@, receipts[name])]
    /\ UNCHANGED <<gateFiles, counterexample, summary>>

LoadSequential ==
    /\ Reducing("load") /\ reducer.names # <<>>
    /\ reducer' = [reducer EXCEPT !.pc = "reduce", !.loaded = Append(@, receipts[Sequence])]
    /\ UNCHANGED <<gateFiles, counterexample, summary>>

Reduce ==
    LET names == reducer.names
        fresh == [name \in {names[n] : n \in DOMAIN names} |->
                    reducer.loaded[CHOOSE n \in DOMAIN names : names[n] = name]] IN
    /\ Reducing("reduce")
    /\ reducer' = [reducer EXCEPT
                     !.pc = IF Agree(names, fresh, reducer.loaded[Len(names) + 1], reducer.proof)
                            THEN "pass" ELSE "counterexample"]
    /\ UNCHANGED <<gateFiles, counterexample, summary>>

(* A failure is written beside the summary before the summary.             *)
WriteCounterexample ==
    /\ Reducing("counterexample")
    /\ counterexample' = TRUE
    /\ reducer' = [reducer EXCEPT !.pc = "fail"]
    /\ UNCHANGED <<gateFiles, summary>>

WriteSummary ==
    /\ reducer.pc \in {"pass", "fail"}
    /\ summary' = [status |-> reducer.pc, proof |-> reducer.proof, names |-> reducer.names,
                   loaded |-> reducer.loaded]
    /\ reducer' = [reducer EXCEPT !.pc = "start"]
    /\ UNCHANGED <<gateFiles, counterexample>>

KillReducer ==
    /\ ~Reducing("start")
    /\ reducer' = [NoReduction EXCEPT !.calls = reducer.calls]
    /\ UNCHANGED <<gateFiles, counterexample, summary>>

FrozenNext ==
    \/ Rerun \/ MixUp \/ HashProof \/ LoadFresh \/ LoadSequential \/ Reduce
    \/ WriteCounterexample \/ WriteSummary \/ KillReducer

FrozenSpec == FrozenInit /\ [][FrozenNext]_frozenVars

-----------------------------------------------------------------------------
(* A summary that says pass holds, for one build, the receipts its passing *)
(* simulations wrote: one for each named case, alone, and one for all of   *)
(* them in that order, with the same latencies.  No rerun with another     *)
(* input, no mixed-up receipt and no kill of the reducer yields another    *)
(* one; and a failure is never reported without its counterexample.        *)
SummaryIsOfOneBuild ==
    /\ summary.status = "pass" =>
        \E b \in Builds : \E cycles \in Latencies :
            /\ b.proof = summary.proof
            /\ \A n \in DOMAIN summary.names :
                 summary.loaded[n] = StrictReceipt(b, "pass", <<summary.names[n]>>, cycles)
            /\ summary.loaded[Len(summary.names) + 1] = StrictReceipt(b, "pass", summary.names, cycles)
    /\ summary.status = "fail" => counterexample
=============================================================================
