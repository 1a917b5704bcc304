------------------------------ MODULE PackageGate ------------------------------
(***************************************************************************)
(* The authenticated package lowering: a run of the flake's application    *)
(* exports a package into a directory of its own                           *)
(* (materialize_tinystories_1m_package_export.py over                      *)
(* model_adapter_reference_package.py) and hands that export to the gate   *)
(* (lower_tinystories_1m_authenticated_package.py), which authenticates it *)
(* again and publishes the evidence by renaming a staging directory.       *)
(*                                                                         *)
(* Several runs may share one --out-dir and one --package; the package is  *)
(* a directory of the user's, who may exchange it while a run reads it.    *)
(* A step is a system call, or a block of code that no other run and no    *)
(* exchange of the package can tell from one.                              *)
(***************************************************************************)
EXTENDS Naturals, Sequences, FiniteSets

CONSTANTS
    Runs,        \* invocations of the application
    MaxChanges,  \* how often the package may be exchanged during one run
    MaxCrashes   \* how many runs may be killed

ASSUME GateAssumption == MaxChanges \in Nat /\ MaxCrashes \in Nat

VARIABLES
    package,      \* what --package holds: the frozen contract's files, or others
    destination,  \* what --out-dir holds
    staged,       \* the files of a run's staging directory, in the order written
    runs,         \* each run's control point and what it has read
    changes       \* how often the package was exchanged since a run started

gateVars == <<package, destination, staged, runs, changes>>

Versions == {"frozen", "other"}
Unread == "unread"
Absent == [kind |-> "absent"]
Empty == [kind |-> "empty"]
Foreign == [kind |-> "foreign"]         \* a directory with files of someone else
NoStaging == <<"none">>

Ends == {"published", "refused", "crashed"}
Running(r) == runs[r].pc \notin Ends

(* The files of the evidence, in the order the gate writes them.           *)
Evidence(profile) ==
    <<"contract", "adapter-receipt", "package-receipt">>
        \o (IF profile THEN <<"profile">> ELSE <<>>)
        \o <<"exported", "trace", "attempt", "metadata">>

GateInit ==
    /\ package \in Versions
    /\ destination \in {Absent, Empty, Foreign}
    /\ staged = [r \in Runs |-> NoStaging]
    /\ runs \in [Runs -> [pc: {"verify"}, profile: BOOLEAN, manifest: {Unread},
                          receipt: {Unread}, why: {"none"}]]
    /\ changes = [r \in Runs |-> 0]

At(r, point) == runs[r].pc = point
Go(r, point) == runs' = [runs EXCEPT ![r].pc = point]
Refuse(r, why) == runs' = [runs EXCEPT ![r].pc = "refused", ![r].why = why]

-----------------------------------------------------------------------------
(* The export.                                                             *)

(* verify_input hashes every file of the package against the contract.     *)
Verify(r) ==
    /\ At(r, "verify")
    /\ IF package = "frozen" THEN Go(r, "manifest") ELSE Refuse(r, "package")
    /\ UNCHANGED <<package, destination, staged, changes>>

(* load_authenticated_package reads the manifest a second time.            *)
ReadManifest(r) ==
    /\ At(r, "manifest")
    /\ runs' = [runs EXCEPT ![r].pc = "weights", ![r].manifest = package]
    /\ UNCHANGED <<package, destination, staged, changes>>

(* reconstruct_state_dict checks each tensor against the manifest it was   *)
(* given; the trace of the exported program may still differ.              *)
Export(r) ==
    /\ At(r, "weights")
    /\ IF package = runs[r].manifest
       THEN Go(r, "authenticate") \/ Refuse(r, "package")
       ELSE Refuse(r, "package")
    /\ UNCHANGED <<package, destination, staged, changes>>

-----------------------------------------------------------------------------
(* The gate.                                                               *)

SlipTrusts(r) ==
    /\ At(r, "authenticate")
    /\ Go(r, "boundaries")
    /\ UNCHANGED <<package, destination, staged, changes>>

(* _verified_receipt verifies the package that is on disk now and compares *)
(* the result with the one the export recorded.                            *)
Authenticate(r) ==
    /\ At(r, "authenticate")
    /\ IF package = "frozen" THEN Go(r, "boundaries") ELSE Refuse(r, "package")
    /\ UNCHANGED <<package, destination, staged, changes>>

(* The boundaries of the export are those of the manifest on disk, and the *)
(* optional profile is valid.                                              *)
CompareBoundaries(r) ==
    /\ At(r, "boundaries")
    /\ IF package = runs[r].manifest
       THEN Go(r, "look") \/ (runs[r].profile /\ Refuse(r, "profile"))
       ELSE Refuse(r, "package")
    /\ UNCHANGED <<package, destination, staged, changes>>

(* _prepare_output, one call of the file system at a time.                 *)
Look(r) ==
    /\ At(r, "look")
    /\ Go(r, IF destination = Absent THEN "clear" ELSE "list")
    /\ UNCHANGED <<package, destination, staged, changes>>

List(r) ==
    /\ At(r, "list")
    /\ IF destination = Empty THEN Go(r, "clear") ELSE Refuse(r, "destination")
    /\ UNCHANGED <<package, destination, staged, changes>>

Clear(r) ==
    /\ At(r, "clear")
    /\ Go(r, IF destination = Absent THEN "mkdtemp" ELSE "rmdir")
    /\ UNCHANGED <<package, destination, staged, changes>>

Rmdir(r) ==
    /\ At(r, "rmdir")
    /\ IF destination = Empty
       THEN destination' = Absent /\ Go(r, "mkdtemp")
       ELSE Refuse(r, "destination") /\ UNCHANGED destination
    /\ UNCHANGED <<package, staged, changes>>

Mkdtemp(r) ==
    /\ At(r, "mkdtemp")
    /\ Go(r, "stage")
    /\ staged' = [staged EXCEPT ![r] = <<>>]
    /\ UNCHANGED <<package, destination, changes>>

(* Every copy and every write of the evidence.  The receipt of the package *)
(* is the only one taken from a directory others may change.               *)
Stage(r) ==
    LET files == Evidence(runs[r].profile)
        next == files[Len(staged[r]) + 1]
    IN
    /\ At(r, "stage")
    /\ staged' = [staged EXCEPT ![r] = Append(@, next)]
    /\ runs' = [runs EXCEPT
                  ![r].receipt = IF next = "package-receipt" THEN package ELSE @,
                  ![r].pc = IF Len(staged'[r]) = Len(files) THEN "replace" ELSE @]
    /\ UNCHANGED <<package, destination, changes>>

Published(r) ==
    [kind |-> "evidence", by |-> r, files |-> staged[r],
     export |-> runs[r].manifest, receipt |-> runs[r].receipt]

(* os.replace: a rename over a directory that is not empty fails.          *)
Replace(r) ==
    /\ At(r, "replace")
    /\ IF destination \in {Absent, Empty}
       THEN /\ destination' = Published(r)
            /\ staged' = [staged EXCEPT ![r] = NoStaging]
            /\ Go(r, "published")
       ELSE /\ runs' = [runs EXCEPT ![r].pc = "rollback", ![r].why = "destination"]
            /\ UNCHANGED <<destination, staged>>
    /\ UNCHANGED <<package, changes>>

(* A copy or a write that fails raises like any other error.               *)
StagingFails(r) ==
    /\ runs[r].pc \in {"stage", "replace"}
    /\ runs' = [runs EXCEPT ![r].pc = "rollback", ![r].why = "files"]
    /\ UNCHANGED <<package, destination, staged, changes>>

SlipRollback(r) ==
    /\ At(r, "rollback")
    /\ staged' = [staged EXCEPT ![r] = NoStaging]
    /\ destination' = Absent
    /\ Go(r, "refused")
    /\ UNCHANGED <<package, changes>>

(* The exception handler removes the staging directory and raises.         *)
Rollback(r) ==
    /\ At(r, "rollback")
    /\ staged' = [staged EXCEPT ![r] = NoStaging]
    /\ Go(r, "refused")
    /\ UNCHANGED <<package, destination, changes>>

GateStep(r) ==
    \/ Verify(r) \/ ReadManifest(r) \/ Export(r)
    \/ Authenticate(r) \/ CompareBoundaries(r)
    \/ Look(r) \/ List(r) \/ Clear(r) \/ Rmdir(r) \/ Mkdtemp(r)
    \/ Stage(r) \/ Replace(r) \/ StagingFails(r) \/ Rollback(r)

-----------------------------------------------------------------------------
(* What happens around the runs.                                           *)

(* A killed run leaves its staging directory where it is.                  *)
Kill(r) ==
    /\ Running(r)
    /\ Cardinality({s \in Runs : At(s, "crashed")}) < MaxCrashes
    /\ Go(r, "crashed")
    /\ UNCHANGED <<package, destination, staged, changes>>

(* The user exchanges the package: the runs under way are affected.        *)
Exchange ==
    /\ \A r \in Runs : Running(r) => changes[r] < MaxChanges
    /\ \E r \in Runs : Running(r)
    /\ package' \in Versions \ {package}
    /\ changes' = [r \in Runs |-> IF Running(r) THEN changes[r] + 1 ELSE changes[r]]
    /\ UNCHANGED <<destination, staged, runs>>

GateNext == Exchange \/ \E r \in Runs : GateStep(r) \/ Kill(r)

GateSpec == GateInit /\ [][GateNext]_gateVars

-----------------------------------------------------------------------------
(* The state of the gate's runs.                                           *)
GateTypeOK ==
    /\ package \in Versions
    /\ changes \in [Runs -> 0..MaxChanges]
    /\ runs \in [Runs ->
         [pc: Ends \cup {"verify", "manifest", "weights", "authenticate", "boundaries",
                         "look", "list", "clear", "rmdir", "mkdtemp", "stage", "replace",
                         "rollback"},
          profile: BOOLEAN, manifest: Versions \cup {Unread},
          receipt: Versions \cup {Unread},
          why: {"none", "package", "profile", "destination", "files"}]]
    /\ \A r \in Runs : staged[r] = NoStaging
                        \/ \E n \in 0..Len(Evidence(runs[r].profile)) :
                              staged[r] = SubSeq(Evidence(runs[r].profile), 1, n)

(* Evidence that is published is complete, is the work of one run that is  *)
(* done, and holds an export of the frozen package unless the package was  *)
(* exchanged and exchanged back under that run: the export verifies the    *)
(* package before it reads it, and the gate verifies it again after.       *)
PublishedIsAuthentic ==
    destination.kind = "evidence" =>
        LET r == destination.by IN
        /\ At(r, "published")
        /\ destination.files = Evidence(runs[r].profile)
        /\ changes[r] <= 1 => destination.export = "frozen"

(* Runs that race for one --out-dir do not all lose: when every run has    *)
(* ended and one was turned away because of the directory, the directory   *)
(* holds something, unless the run that had the way clear was killed or    *)
(* could not write its files.                                              *)
RaceHasAWinner ==
    /\ \A r \in Runs : ~Running(r)
    /\ \E r \in Runs : runs[r].why = "destination"
    => \/ destination.kind \in {"evidence", "foreign"}
       \/ \E r \in Runs : At(r, "crashed") \/ runs[r].why = "files"

(* The gate publishes something, and nothing but what it authenticated.    *)
PublicationIsSound == PublishedIsAuthentic /\ RaceHasAWinner
=============================================================================
