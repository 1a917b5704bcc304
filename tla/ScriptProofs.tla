----------------------------- MODULE ScriptProofs -----------------------------
(***************************************************************************)
(* Proofs about the scripts: about PackageGate for any number of racing    *)
(* and killed runs and exchanged packages, about LayerNormBackend for any  *)
(* number of overlapping and killed lowerings, about RouteMatrix for any   *)
(* primitives and transformations, about OracleShards for any programs,    *)
(* vocabulary, ranges and overlapping invocations, about MonitorBuild for  *)
(* any number of workers and lines and any exit statuses, about            *)
(* SliceComparison for any sources and any exchanges of a simulation's     *)
(* inputs, about AuthenticatedReports for any files that are exchanged,    *)
(* however often, about ReferencePackage for any packages and exchanges,   *)
(* and about ServingTrace for any models, vocabulary and prompt.           *)
(***************************************************************************)
EXTENDS PackageGate, LayerNormBackend, RouteMatrix, OracleShards, MonitorBuild,
        SliceComparison, AuthenticatedReports, ReferencePackage, ServingTrace, SequenceTheorems, FiniteSetTheorems, Loops

-----------------------------------------------------------------------------
(* The gate: what its runs have read.                                      *)

Points == {"published", "refused", "crashed", "verify", "manifest", "weights",
           "authenticate", "boundaries", "look", "list", "clear", "rmdir", "mkdtemp",
           "stage", "replace", "rollback"}
Reasons == {"none", "package", "profile", "destination", "files"}
RunStates ==
    [pc: Points, profile: BOOLEAN, manifest: Versions \cup {Unread},
     receipt: Versions \cup {Unread}, why: Reasons]

GateTypes ==
    /\ package \in Versions
    /\ changes \in [Runs -> Nat]
    /\ runs \in [Runs -> RunStates]
    /\ staged = [r \in Runs |-> staged[r]]

(* The points past the second verification, up to a published directory.   *)
Past == {"boundaries", "look", "list", "clear", "rmdir", "mkdtemp", "stage", "replace",
         "published"}

(* A manifest of another package costs an exchange after the first         *)
(* verification, and a second one before the second.                       *)
ExportInv(r) ==
    /\ At(r, "manifest") /\ package = "other" => changes[r] >= 1
    /\ At(r, "weights") \/ At(r, "authenticate") =>
         /\ runs[r].manifest \in Versions
         /\ runs[r].manifest = "other" => /\ changes[r] >= 1
                                          /\ package = "frozen" => changes[r] >= 2
    /\ runs[r].pc \in Past =>
         /\ runs[r].manifest \in Versions
         /\ runs[r].manifest = "other" => changes[r] >= 2

(* A staging directory holds a proper prefix of the evidence, or all of it *)
(* once it may be renamed.                                                 *)
StageInv(r) ==
    LET needed == Evidence(runs[r].profile) IN
    /\ At(r, "stage") => \E n \in 0..(Len(needed) - 1) : staged[r] = SubSeq(needed, 1, n)
    /\ At(r, "replace") => staged[r] = needed

DestinationInv ==
    \/ destination \in {Absent, Empty, Foreign}
    \/ /\ destination.kind = "evidence"
       /\ destination.by \in Runs
       /\ At(destination.by, "published")
       /\ destination.files = Evidence(runs[destination.by].profile)
       /\ destination.export = runs[destination.by].manifest

GateInv ==
    /\ GateTypes
    /\ \A r \in Runs : ExportInv(r) /\ StageInv(r)
    /\ DestinationInv

(* The actions of a run that only move its control point, or end it.       *)
Moves(r) ==
    \/ Verify(r) \/ Authenticate(r) \/ CompareBoundaries(r) \/ Export(r)
    \/ Look(r) \/ List(r) \/ Clear(r) \/ StagingFails(r) \/ Kill(r)

(* A prefix of a sequence grows by the next element.                       *)
LEMMA PrefixGrows ==
    ASSUME NEW S, NEW needed \in Seq(S), NEW n \in 0..(Len(needed) - 1)
    PROVE  /\ Len(SubSeq(needed, 1, n)) = n
           /\ Append(SubSeq(needed, 1, n), needed[n + 1]) = SubSeq(needed, 1, n + 1)
<1>1. /\ Len(needed) \in Nat
      /\ \A i \in 1..(n + 1) : needed[i] \in S
    BY LenProperties, ElementOfSeq
<1>2. Len(SubSeq(needed, 1, n)) = n
    BY <1>1, SubSeqProperties
<1>3. SubSeq(needed, 1, n + 1) = Append(SubSeq(needed, 1, (n + 1) - 1), needed[n + 1])
    BY <1>1, SubSeqRecursiveSecond
<1> QED
    BY <1>2, <1>3

EvidenceFiles == {"contract", "adapter-receipt", "package-receipt", "profile",
                  "exported", "trace", "attempt", "metadata"}

(* The evidence is a nonempty sequence, whose prefix of no file is empty   *)
(* and whose longest prefix is the evidence.                               *)
LEMMA EvidenceIsASequence ==
    ASSUME NEW profile
    PROVE  /\ Evidence(profile) \in Seq(EvidenceFiles)
           /\ Len(Evidence(profile)) \in Nat \ {0}
           /\ SubSeq(Evidence(profile), 1, 0) = <<>>
           /\ SubSeq(Evidence(profile), 1, Len(Evidence(profile))) = Evidence(profile)
<1> DEFINE head == <<"contract", "adapter-receipt", "package-receipt">>
           extra == IF profile THEN <<"profile">> ELSE <<>>
           tail == <<"exported", "trace", "attempt", "metadata">>
<1>1. head \in Seq(EvidenceFiles) /\ Len(head) = 3
    BY DEF EvidenceFiles
<1>2. tail \in Seq(EvidenceFiles) /\ Len(tail) = 4
    BY DEF EvidenceFiles
<1>3. extra \in Seq(EvidenceFiles)
    <2>1. <<"profile">> \in Seq(EvidenceFiles) /\ <<>> \in Seq(EvidenceFiles)
        BY DEF EvidenceFiles
    <2> QED
        BY <2>1, Zenon
<1>4. Evidence(profile) = (head \o extra) \o tail
    BY DEF Evidence
<1> HIDE DEF head, extra, tail
<1>5. (head \o extra) \in Seq(EvidenceFiles) /\ Len(head \o extra) = Len(head) + Len(extra)
    BY <1>1, <1>3, ConcatProperties
<1>6. Len(extra) \in Nat
    BY <1>3, LenProperties
<1>7. /\ Evidence(profile) \in Seq(EvidenceFiles)
      /\ Len(Evidence(profile)) = Len(head \o extra) + Len(tail)
    <2> DEFINE front == head \o extra
    <2>1. front \in Seq(EvidenceFiles) /\ tail \in Seq(EvidenceFiles)
        BY <1>2, <1>5
    <2> HIDE DEF front
    <2>2. front \o tail \in Seq(EvidenceFiles) /\ Len(front \o tail) = Len(front) + Len(tail)
        BY <2>1, ConcatProperties
    <2>3. Evidence(profile) = front \o tail
        BY <1>4 DEF front
    <2> QED
        BY <2>2, <2>3 DEF front
<1>8. Len(Evidence(profile)) \in Nat \ {0}
    BY <1>1, <1>2, <1>5, <1>6, <1>7
<1>9. SubSeq(Evidence(profile), 1, 0) = <<>>
    BY SubSeqEmpty
<1>10. SubSeq(Evidence(profile), 1, Len(Evidence(profile))) = Evidence(profile)
    BY <1>7, SubSeqFull
<1> QED
    BY <1>7, <1>8, <1>9, <1>10

(* A run starts with nothing read and no evidence is there.                *)
LEMMA GateInitInv == GateInit => GateInv
<1> SUFFICES ASSUME GateInit PROVE GateInv
    OBVIOUS
<1>1. GateTypes
    BY DEF GateInit, GateTypes, RunStates, Points, Reasons
<1>2. \A r \in Runs : At(r, "verify")
    BY DEF GateInit, At
<1>3. \A r \in Runs : ExportInv(r)
    BY <1>2 DEF ExportInv, At, Past
<1>4. \A r \in Runs : StageInv(r)
    BY <1>2 DEF StageInv, At
<1>5. DestinationInv
    BY DEF GateInit, DestinationInv
<1> QED
    BY <1>1, <1>3, <1>4, <1>5 DEF GateInv

(* Moving a run, and giving a reason, keep its type.                       *)
LEMMA RunTypes ==
    ASSUME runs \in [Runs -> RunStates], NEW r \in Runs,
           \/ \E point \in Points : runs' = [runs EXCEPT ![r].pc = point]
           \/ \E point \in Points, why \in Reasons :
                 runs' = [runs EXCEPT ![r].pc = point, ![r].why = why]
    PROVE  runs' \in [Runs -> RunStates]
<1>1. CASE \E point \in Points : runs' = [runs EXCEPT ![r].pc = point]
    <2>1. PICK point \in Points : runs' = [runs EXCEPT ![r].pc = point]
        BY <1>1
    <2>2. [runs[r] EXCEPT !.pc = point] \in RunStates
        BY DEF RunStates
    <2>3. runs' = [runs EXCEPT ![r] = [runs[r] EXCEPT !.pc = point]]
        BY <2>1
    <2> QED
        BY <2>2, <2>3
<1>2. CASE \E point \in Points, why \in Reasons :
                runs' = [runs EXCEPT ![r].pc = point, ![r].why = why]
    <2>1. PICK point \in Points, why \in Reasons :
                runs' = [runs EXCEPT ![r].pc = point, ![r].why = why]
        BY <1>2
    <2>2. [runs[r] EXCEPT !.pc = point, !.why = why] \in RunStates
        <3> DEFINE moved == [runs[r] EXCEPT !.pc = point]
        <3>1. runs[r] \in RunStates
            OBVIOUS
        <3>2. moved \in RunStates
            BY <3>1 DEF RunStates
        <3> HIDE DEF moved
        <3>3. [moved EXCEPT !.why = why] \in RunStates
            BY <3>2 DEF RunStates
        <3> QED
            BY <3>3 DEF moved
    <2>3. runs' = [runs EXCEPT ![r] = [runs[r] EXCEPT !.pc = point, !.why = why]]
        BY <2>1
    <2> QED
        BY <2>2, <2>3
<1> QED
    BY <1>1, <1>2

(* The actions of the export and of its second verification.               *)
LEMMA GateReads ==
    ASSUME GateInv, NEW r \in Runs,
           \/ Verify(r) \/ ReadManifest(r) \/ Export(r)
           \/ Authenticate(r) \/ CompareBoundaries(r)
    PROVE  GateInv'
<1>1. /\ \A s \in Runs \ {r} : runs'[s] = runs[s]
      /\ runs'[r].profile = runs[r].profile
      /\ GateTypes'
    <2>1. runs \in [Runs -> RunStates] /\ package \in Versions
        BY DEF GateInv, GateTypes
    <2>2. CASE ReadManifest(r)
        <3> DEFINE read == [runs[r] EXCEPT !.pc = "weights", !.manifest = package]
        <3>1. runs[r] \in RunStates
            BY <2>1
        <3>2. read \in RunStates /\ read.profile = runs[r].profile
            BY <2>1, <3>1 DEF RunStates, Points
        <3>3. runs' = [runs EXCEPT ![r] = read] /\ UNCHANGED <<package, staged, changes>>
            BY <2>2 DEF ReadManifest
        <3> HIDE DEF read
        <3> QED
            BY <2>1, <3>2, <3>3 DEF GateInv, GateTypes
    <2>3. ASSUME NEW point \in Points, Go(r, point)
          PROVE  /\ \A s \in Runs \ {r} : runs'[s] = runs[s]
                 /\ runs'[r].profile = runs[r].profile
                 /\ runs' \in [Runs -> RunStates]
        <3>1. runs' \in [Runs -> RunStates]
            BY <2>1, <2>3, RunTypes DEF Go
        <3>2. runs[r] \in RunStates /\ runs' = [runs EXCEPT ![r] = [runs[r] EXCEPT !.pc = point]]
            BY <2>1, <2>3 DEF Go
        <3>3. [runs[r] EXCEPT !.pc = point].profile = runs[r].profile
            BY <3>2 DEF RunStates
        <3> QED
            BY <2>1, <3>1, <3>2, <3>3
    <2>4. ASSUME NEW why \in Reasons, Refuse(r, why)
          PROVE  /\ \A s \in Runs \ {r} : runs'[s] = runs[s]
                 /\ runs'[r].profile = runs[r].profile
                 /\ runs' \in [Runs -> RunStates]
        <3>1. runs' \in [Runs -> RunStates]
            BY <2>1, <2>4, RunTypes DEF Refuse, Points
        <3>2. /\ runs[r] \in RunStates
              /\ runs' = [runs EXCEPT ![r] = [runs[r] EXCEPT !.pc = "refused", !.why = why]]
            BY <2>1, <2>4 DEF Refuse
        <3>3. [runs[r] EXCEPT !.pc = "refused", !.why = why].profile = runs[r].profile
            BY <3>2 DEF RunStates
        <3> QED
            BY <2>1, <3>1, <3>2, <3>3
    <2>5. CASE Verify(r) \/ Export(r) \/ Authenticate(r) \/ CompareBoundaries(r)
        <3>1. \/ \E point \in Points : Go(r, point)
              \/ \E why \in Reasons : Refuse(r, why)
            BY <2>5 DEF Verify, Export, Authenticate, CompareBoundaries, Points, Reasons
        <3>2. UNCHANGED <<package, staged, changes>>
            BY <2>5 DEF Verify, Export, Authenticate, CompareBoundaries
        <3> QED
            BY <2>3, <2>4, <3>1, <3>2 DEF GateInv, GateTypes
    <2> QED
        BY <2>2, <2>5
<1>2. UNCHANGED <<package, destination, staged, changes>>
    BY DEF Verify, ReadManifest, Export, Authenticate, CompareBoundaries
<1>3. ~At(r, "published") /\ ~At(r, "stage")' /\ ~At(r, "replace")'
    BY DEF GateInv, GateTypes, RunStates, Points, Verify, ReadManifest, Export, Authenticate,
           CompareBoundaries, Go, Refuse, At
<1>4. ASSUME NEW s \in Runs PROVE ExportInv(s)'
    <2>1. CASE s # r
        BY <1>1, <1>2, <2>1 DEF GateInv, ExportInv, At
    <2>2. CASE s = r
        <3>1. CASE Verify(r)
            BY <1>2, <2>2, <3>1 DEF GateInv, GateTypes, RunStates, ExportInv, Verify, Go, Refuse, At, Past
        <3>2. CASE ReadManifest(r)
            BY <1>2, <2>2, <3>2 DEF GateInv, GateTypes, RunStates, ExportInv, ReadManifest, At, Past
        <3>3. CASE Export(r)
            BY <1>2, <2>2, <3>3 DEF GateInv, GateTypes, RunStates, ExportInv, Export, Go, Refuse, At, Past
        <3>4. CASE Authenticate(r)
            BY <1>2, <2>2, <3>4 DEF GateInv, GateTypes, RunStates, ExportInv, Authenticate, Go, Refuse, At, Past
        <3>5. CASE CompareBoundaries(r)
            BY <1>2, <2>2, <3>5 DEF GateInv, GateTypes, RunStates, ExportInv, CompareBoundaries, Go, Refuse, At, Past
        <3> QED
            BY <3>1, <3>2, <3>3, <3>4, <3>5
    <2> QED
        BY <2>1, <2>2
<1>5. ASSUME NEW s \in Runs PROVE StageInv(s)'
    BY <1>1, <1>2, <1>3 DEF GateInv, StageInv, At
<1>6. DestinationInv'
    BY <1>1, <1>2, <1>3 DEF GateInv, DestinationInv, At
<1> QED
    BY <1>1, <1>4, <1>5, <1>6 DEF GateInv

(* The actions that prepare, abandon or lose a staging directory.          *)
LEMMA GateDirectories ==
    ASSUME GateInv, NEW r \in Runs,
           \/ Look(r) \/ List(r) \/ Clear(r) \/ Rmdir(r) \/ Mkdtemp(r)
           \/ StagingFails(r) \/ Rollback(r) \/ Kill(r)
    PROVE  GateInv'
<1>1. /\ \A s \in Runs \ {r} : runs'[s] = runs[s] /\ staged'[s] = staged[s]
      /\ runs'[r].profile = runs[r].profile
      /\ runs'[r].manifest = runs[r].manifest
      /\ UNCHANGED <<package, changes>>
    BY DEF GateInv, GateTypes, RunStates, Look, List, Clear, Rmdir, Mkdtemp,
           StagingFails, Rollback, Kill, Go, Refuse
<1>2. GateTypes'
    <2>1. runs' \in [Runs -> RunStates]
        <3>1. \/ \E point \in Points : runs' = [runs EXCEPT ![r].pc = point]
              \/ \E point \in Points, why \in Reasons :
                    runs' = [runs EXCEPT ![r].pc = point, ![r].why = why]
            <4>1. CASE Look(r) \/ Clear(r) \/ Mkdtemp(r) \/ Rollback(r) \/ Kill(r)
                BY <4>1 DEF Look, Clear, Mkdtemp, Rollback, Kill, Go, Points
            <4>2. CASE List(r) \/ Rmdir(r) \/ StagingFails(r)
                BY <4>2 DEF List, Rmdir, StagingFails, Go, Refuse, Points, Reasons
            <4> QED
                BY <4>1, <4>2
        <3> QED
            BY <3>1, RunTypes DEF GateInv, GateTypes
    <2>2. staged' = [s \in Runs |-> staged'[s]]
        BY DEF GateInv, GateTypes, Look, List, Clear, Rmdir, Mkdtemp,
               StagingFails, Rollback, Kill
    <2> QED
        BY <1>1, <2>1, <2>2 DEF GateInv, GateTypes
<1>3. runs'[r].pc \in Past => runs[r].pc \in Past /\ runs'[r].pc # "published"
    BY DEF GateInv, GateTypes, RunStates, Look, List, Clear, Rmdir, Mkdtemp,
           StagingFails, Rollback, Kill, Go, Refuse, Points, At, Past
<1>4. /\ runs'[r].pc \notin {"manifest", "weights", "authenticate"}
      /\ ~At(r, "published")
    BY DEF GateInv, GateTypes, RunStates, Look, List, Clear, Rmdir, Mkdtemp,
           StagingFails, Rollback, Kill, Go, Refuse, Points, Ends, At, Running
<1>5. ASSUME NEW s \in Runs PROVE ExportInv(s)'
    <2>1. CASE s # r
        BY <1>1, <2>1 DEF GateInv, ExportInv, At
    <2>2. CASE s = r
        BY <1>1, <1>3, <1>4, <2>2 DEF GateInv, ExportInv, At
    <2> QED
        BY <2>1, <2>2
<1>6. ASSUME NEW s \in Runs PROVE StageInv(s)'
    <2>1. CASE s # r
        BY <1>1, <2>1 DEF GateInv, StageInv, At
    <2>2. CASE s = r /\ Mkdtemp(r)
        <3> DEFINE needed == Evidence(runs[r].profile)
        <3>1. /\ Len(needed) \in Nat \ {0}
              /\ SubSeq(needed, 1, 0) = <<>>
            BY EvidenceIsASequence
        <3>2. staged'[r] = <<>> /\ runs'[r].pc = "stage"
            BY <2>2 DEF GateInv, GateTypes, RunStates, Mkdtemp, Go
        <3>3. staged'[r] = SubSeq(needed, 1, 0) /\ 0 \in 0..(Len(needed) - 1)
            BY <3>1, <3>2
        <3> QED
            BY <1>1, <2>2, <3>2, <3>3 DEF StageInv, At
    <2>3. CASE s = r /\ ~Mkdtemp(r)
        BY <2>3 DEF GateInv, GateTypes, RunStates, StageInv, Look, List, Clear, Rmdir,
           StagingFails, Rollback, Kill, Go, Refuse, At
    <2> QED
        BY <2>1, <2>2, <2>3
<1>7. DestinationInv'
    <2>1. destination' = destination \/ destination' = Absent
        BY DEF Look, List, Clear, Rmdir, Mkdtemp, StagingFails, Rollback, Kill
    <2> QED
        BY <1>1, <1>4, <2>1 DEF GateInv, DestinationInv, At
<1> QED
    BY <1>2, <1>5, <1>6, <1>7 DEF GateInv

(* A proper prefix that is not the longest one stays proper.               *)
LEMMA ProperPrefix ==
    ASSUME NEW length \in Nat, NEW n \in 0..(length - 1), n + 1 # length
    PROVE  n + 1 \in 0..(length - 1)
OBVIOUS

(* A file more in the staging directory.                                   *)
LEMMA GateStage ==
    ASSUME GateInv, NEW r \in Runs, Stage(r)
    PROVE  GateInv'
<1> DEFINE needed == Evidence(runs[r].profile)
           next == needed[Len(staged[r]) + 1]
           receipt == IF next = "package-receipt" THEN package ELSE runs[r].receipt
           full == Append(staged[r], next)
           point == IF Len(full) = Len(needed) THEN "replace" ELSE "stage"
<1>1. staged' = [staged EXCEPT ![r] = full] /\ At(r, "stage")
    BY DEF Stage
<1>2. staged'[r] = full
    BY <1>1 DEF GateInv, GateTypes
<1>3. runs' = [runs EXCEPT ![r].receipt = receipt, ![r].pc = point]
    BY <1>1, <1>2 DEF Stage, At
<1>4. receipt \in Versions \cup {Unread} /\ point \in {"stage", "replace"}
    BY DEF GateInv, GateTypes, RunStates
<1>5. /\ needed \in Seq(EvidenceFiles)
      /\ Len(needed) \in Nat \ {0}
      /\ SubSeq(needed, 1, Len(needed)) = needed
    BY EvidenceIsASequence
<1> HIDE DEF needed
<1>6. PICK n \in 0..(Len(needed) - 1) : staged[r] = SubSeq(needed, 1, n)
    BY <1>1 DEF GateInv, StageInv, needed
<1>7. full = SubSeq(needed, 1, n + 1)
    BY <1>5, <1>6, PrefixGrows
<1>8. Len(full) = n + 1
    <2>1. CASE n + 1 = Len(needed)
        BY <1>5, <1>6, <1>7, <2>1
    <2>2. CASE n + 1 # Len(needed)
        <3>1. n + 1 \in 0..(Len(needed) - 1)
            BY <1>5, <1>6, <2>2, ProperPrefix
        <3> QED
            BY <1>5, <1>6, <1>7, <3>1, PrefixGrows
    <2> QED
        BY <2>1, <2>2
<1> HIDE DEF next, receipt, full, point
<1>9. /\ \A s \in Runs \ {r} : runs'[s] = runs[s] /\ staged'[s] = staged[s]
      /\ runs'[r].profile = runs[r].profile
      /\ runs'[r].manifest = runs[r].manifest
      /\ runs'[r].pc = point
      /\ UNCHANGED <<package, destination, changes>>
    BY <1>1, <1>3 DEF GateInv, GateTypes, RunStates, Stage
<1>10. GateTypes'
    <2>1. runs' \in [Runs -> RunStates]
        <3>1. runs \in [Runs -> RunStates]
            BY DEF GateInv, GateTypes
        <3>2. [runs[r] EXCEPT !.receipt = receipt, !.pc = point] \in RunStates
            BY <1>4, <3>1 DEF RunStates, Points
        <3>3. runs' = [runs EXCEPT ![r] = [runs[r] EXCEPT !.receipt = receipt, !.pc = point]]
            BY <1>3, <3>1
        <3> QED
            BY <3>1, <3>2, <3>3
    <2>2. staged' = [s \in Runs |-> staged'[s]]
        BY <1>1 DEF GateInv, GateTypes
    <2> QED
        BY <1>9, <2>1, <2>2 DEF GateInv, GateTypes
<1>11. ASSUME NEW s \in Runs PROVE ExportInv(s)'
    BY <1>1, <1>4, <1>9 DEF GateInv, ExportInv, At, Past
<1>12. ASSUME NEW s \in Runs PROVE StageInv(s)'
    <2>1. CASE s # r
        BY <1>9, <2>1 DEF GateInv, StageInv, At
    <2>2. CASE s = r
        <3>1. Evidence(runs'[r].profile) = needed
            BY <1>9 DEF needed
        <3>2. point = "stage" => n + 1 \in 0..(Len(needed) - 1)
            <4>1. point = "stage" => Len(full) # Len(needed)
                BY DEF point
            <4> QED
                BY <1>5, <1>6, <1>8, <4>1, ProperPrefix
        <3>3. point = "replace" => full = needed
            BY <1>5, <1>6, <1>7, <1>8 DEF point
        <3> QED
            BY <1>2, <1>7, <1>9, <2>2, <3>1, <3>2, <3>3 DEF StageInv, At
    <2> QED
        BY <2>1, <2>2
<1>13. DestinationInv'
    BY <1>1, <1>9 DEF GateInv, DestinationInv, At
<1> QED
    BY <1>10, <1>11, <1>12, <1>13 DEF GateInv

(* The rename, and the exchange of the package.                            *)
LEMMA GateReplace ==
    ASSUME GateInv, NEW r \in Runs, Replace(r)
    PROVE  GateInv'
<1>1. /\ \A s \in Runs \ {r} : runs'[s] = runs[s] /\ staged'[s] = staged[s]
      /\ runs'[r].profile = runs[r].profile
      /\ runs'[r].manifest = runs[r].manifest
      /\ runs'[r].pc \in {"published", "rollback"}
      /\ UNCHANGED <<package, changes>>
    BY DEF GateInv, GateTypes, RunStates, Replace, Go
<1>2. GateTypes'
    <2>1. \/ \E point \in Points : runs' = [runs EXCEPT ![r].pc = point]
          \/ \E point \in Points, why \in Reasons :
                runs' = [runs EXCEPT ![r].pc = point, ![r].why = why]
        BY DEF Replace, Go, Points, Reasons
    <2>2. runs' \in [Runs -> RunStates]
        BY <2>1, RunTypes DEF GateInv, GateTypes
    <2>3. staged' = [s \in Runs |-> staged'[s]]
        BY DEF GateInv, GateTypes, Replace
    <2> QED
        BY <1>1, <2>2, <2>3 DEF GateInv, GateTypes
<1>3. ASSUME NEW s \in Runs PROVE ExportInv(s)' /\ StageInv(s)'
    <2>1. CASE s # r
        BY <1>1, <2>1 DEF GateInv, ExportInv, StageInv, At
    <2>2. CASE s = r
        BY <1>1, <2>2 DEF GateInv, ExportInv, StageInv, At, Replace, Past
    <2> QED
        BY <2>1, <2>2
<1>4. DestinationInv'
    <2>1. CASE destination \in {Absent, Empty}
        <3>1. destination' = Published(r) /\ runs'[r].pc = "published"
            BY <2>1 DEF Replace, Go, GateInv, GateTypes, RunStates
        <3>2. staged[r] = Evidence(runs[r].profile)
            BY DEF GateInv, StageInv, Replace
        <3> QED
            BY <1>1, <3>1, <3>2 DEF DestinationInv, Published, At
    <2>2. CASE destination \notin {Absent, Empty}
        <3>1. UNCHANGED destination /\ ~At(r, "published")
            BY <2>2 DEF Replace, At
        <3> QED
            BY <1>1, <3>1 DEF GateInv, DestinationInv, At
    <2> QED
        BY <2>1, <2>2
<1> QED
    BY <1>2, <1>3, <1>4 DEF GateInv

LEMMA GateExchange ==
    ASSUME GateInv, Exchange
    PROVE  GateInv'
<1>1. /\ UNCHANGED <<destination, staged, runs>>
      /\ package' \in Versions \ {package}
      /\ \A r \in Runs : changes'[r] = IF Running(r) THEN changes[r] + 1 ELSE changes[r]
    BY DEF Exchange
<1>2. GateTypes'
    BY DEF GateInv, GateTypes, Exchange
<1>3. ASSUME NEW r \in Runs PROVE ExportInv(r)'
    <2>1. changes[r] \in Nat /\ changes'[r] >= changes[r]
        BY <1>1 DEF GateInv, GateTypes
    <2>2. At(r, "manifest") \/ At(r, "weights") \/ At(r, "authenticate")
            => changes'[r] = changes[r] + 1
        BY <1>1 DEF Running, Ends, At
    <2> QED
        BY <1>1, <2>1, <2>2 DEF GateInv, GateTypes, ExportInv, At, Versions
<1>4. ASSUME NEW r \in Runs PROVE StageInv(r)'
    BY <1>1 DEF GateInv, StageInv, At
<1>5. DestinationInv'
    BY <1>1 DEF GateInv, DestinationInv, At
<1> QED
    BY <1>2, <1>3, <1>4, <1>5 DEF GateInv

(* Every reachable state of the gate's runs satisfies the invariant.       *)
LEMMA GateKeepsInv == GateSpec => []GateInv
<1>1. GateInv /\ [GateNext]_gateVars => GateInv'
    <2> SUFFICES ASSUME GateInv, [GateNext]_gateVars PROVE GateInv'
        OBVIOUS
    <2>1. CASE Exchange
        BY <2>1, GateExchange
    <2>2. CASE \E r \in Runs : GateStep(r) \/ Kill(r)
        BY <2>2, GateReads, GateDirectories, GateStage, GateReplace DEF GateStep
    <2>3. CASE UNCHANGED gateVars
        BY <2>3 DEF gateVars, GateInv, GateTypes, ExportInv, StageInv, DestinationInv, At
    <2> QED
        BY <2>1, <2>2, <2>3 DEF GateNext
<1> QED
    BY <1>1, GateInitInv, PTL DEF GateSpec

(* What is published is complete, is the work of a run that is done, and   *)
(* holds an export of the frozen package unless the package was exchanged  *)
(* twice under that run, for any number of runs, exchanges and kills.      *)
LEMMA PublishedStaysAuthentic == GateSpec => []PublishedIsAuthentic
<1>1. GateInv => PublishedIsAuthentic
    <2> SUFFICES ASSUME GateInv, destination.kind = "evidence"
                 PROVE  /\ At(destination.by, "published")
                        /\ destination.files = Evidence(runs[destination.by].profile)
                        /\ changes[destination.by] <= 1 => destination.export = "frozen"
        BY DEF PublishedIsAuthentic
    <2>1. DestinationInv /\ destination \notin {Absent, Empty, Foreign}
        BY DEF GateInv, Absent, Empty, Foreign
    <2>2. /\ destination.by \in Runs
          /\ At(destination.by, "published")
          /\ destination.files = Evidence(runs[destination.by].profile)
          /\ destination.export = runs[destination.by].manifest
        BY <2>1 DEF DestinationInv
    <2>3. /\ changes[destination.by] \in Nat
          /\ runs[destination.by].manifest \in Versions
          /\ runs[destination.by].manifest = "other" => changes[destination.by] >= 2
        BY <2>2 DEF GateInv, GateTypes, ExportInv, At, Past
    <2> QED
        BY <2>2, <2>3 DEF Versions
<1> QED
    BY <1>1, GateKeepsInv, PTL

-----------------------------------------------------------------------------
(* The gate: the race for the directory.                                   *)

Free == destination \in {Absent, Empty}

(* A run that has the way clear, or lost it for no fault of the others.    *)
Candidate(r) ==
    \/ runs[r].pc \in {"mkdtemp", "stage", "replace", "crashed"}
    \/ runs[r].pc \in {"rollback", "refused"} /\ runs[r].why = "files"

(* A run that found the directory taken was right, or turned away in       *)
(* favour of a candidate; the same for one about to look closer.           *)
RaceInv ==
    /\ \A r \in Runs : runs[r].why = "destination" =>
          ~Free \/ \E s \in Runs : Candidate(s)
    /\ \A r \in Runs : runs[r].pc \in {"list", "rmdir"} =>
          destination # Absent \/ \E s \in Runs : Candidate(s)

(* A step that leaves the directory as it was and every candidate one.     *)
LEMMA RaceQuiet ==
    ASSUME RaceInv, UNCHANGED destination,
           \A r \in Runs : Candidate(r) => Candidate(r)',
           \A r \in Runs : /\ runs'[r].why = "destination" => runs[r].why = "destination"
                           /\ runs'[r].pc \in {"list", "rmdir"}
                                => runs[r].pc \in {"list", "rmdir"} \/ destination # Absent
    PROVE  RaceInv'
BY DEF RaceInv, Free

(* A step that leaves a candidate, or a directory that is taken.           *)
LEMMA RaceSettled ==
    ASSUME (~Free \/ \E s \in Runs : Candidate(s))'
    PROVE  RaceInv'
BY DEF RaceInv, Free

LEMMA RaceStep ==
    ASSUME GateInv, RaceInv, [GateNext]_gateVars
    PROVE  RaceInv'
<1> USE DEF GateInv, GateTypes
<1>1. CASE Exchange
    BY <1>1, RaceQuiet DEF Exchange, Candidate
<1>2. CASE UNCHANGED gateVars
    BY <1>2, RaceQuiet DEF gateVars, Candidate
<1>3. ASSUME NEW r \in Runs,
             Verify(r) \/ ReadManifest(r) \/ Export(r) \/ Authenticate(r)
               \/ CompareBoundaries(r) \/ Look(r) \/ Kill(r)
      PROVE  RaceInv'
    <2>1. UNCHANGED destination /\ \A s \in Runs \ {r} : runs'[s] = runs[s]
        BY <1>3 DEF Verify, ReadManifest, Export, Authenticate, CompareBoundaries, Look, Kill,
                    Go, Refuse
    <2>2. Candidate(r) => Candidate(r)'
        BY <1>3 DEF Verify, ReadManifest, Export, Authenticate, CompareBoundaries, Look, Kill,
                    Go, Refuse, Candidate, RunStates, At, Running, Ends
    <2>3. /\ runs'[r].why = "destination" => runs[r].why = "destination"
          /\ runs'[r].pc \in {"list", "rmdir"}
                => runs[r].pc \in {"list", "rmdir"} \/ destination # Absent
        BY <1>3 DEF Verify, ReadManifest, Export, Authenticate, CompareBoundaries, Look, Kill,
                    Go, Refuse, RunStates, At
    <2> QED
        BY <2>1, <2>2, <2>3, RaceQuiet DEF Candidate
<1>4. ASSUME NEW r \in Runs, List(r) PROVE RaceInv'
    <2>1. CASE destination = Empty
        <3>1. UNCHANGED destination /\ runs' = [runs EXCEPT ![r].pc = "clear"] /\ runs[r].pc = "list"
            BY <1>4, <2>1 DEF List, Go, At
        <3> QED
            BY <3>1, RaceQuiet DEF Candidate, RunStates
    <2>2. CASE destination # Empty
        <3>1. /\ UNCHANGED destination
              /\ runs' = [runs EXCEPT ![r].pc = "refused", ![r].why = "destination"]
              /\ runs[r].pc = "list"
            BY <1>4, <2>2 DEF List, Refuse, At
        <3>2. ~Free \/ \E s \in Runs \ {r} : Candidate(s)
            BY <2>2, <3>1 DEF RaceInv, Free, Candidate
        <3>3. \A s \in Runs \ {r} : Candidate(s) => Candidate(s)'
            BY <3>1 DEF Candidate
        <3> QED
            BY <3>1, <3>2, <3>3, RaceSettled DEF Free
    <2> QED
        BY <2>1, <2>2
<1>5. ASSUME NEW r \in Runs, Clear(r) PROVE RaceInv'
    <2>1. /\ UNCHANGED destination
          /\ runs' = [runs EXCEPT ![r].pc = IF destination = Absent THEN "mkdtemp" ELSE "rmdir"]
          /\ runs[r].pc = "clear"
        BY <1>5 DEF Clear, Go, At
    <2>2. CASE destination = Absent
        BY <2>1, <2>2, RaceSettled DEF Candidate, RunStates
    <2>3. CASE destination # Absent
        BY <2>1, <2>3, RaceQuiet DEF Candidate, RunStates
    <2> QED
        BY <2>2, <2>3
<1>6. ASSUME NEW r \in Runs, Rmdir(r) PROVE RaceInv'
    <2>1. CASE destination = Empty
        <3>1. runs'[r].pc = "mkdtemp"
            BY <1>6, <2>1 DEF Rmdir, Go, RunStates
        <3> QED
            BY <3>1, RaceSettled DEF Candidate
    <2>2. CASE destination # Empty
        <3>1. /\ UNCHANGED destination
              /\ runs' = [runs EXCEPT ![r].pc = "refused", ![r].why = "destination"]
              /\ runs[r].pc = "rmdir"
            BY <1>6, <2>2 DEF Rmdir, Refuse, At
        <3>2. ~Free \/ \E s \in Runs \ {r} : Candidate(s)
            BY <2>2, <3>1 DEF RaceInv, Free, Candidate
        <3>3. \A s \in Runs \ {r} : Candidate(s) => Candidate(s)'
            BY <3>1 DEF Candidate
        <3> QED
            BY <3>1, <3>2, <3>3, RaceSettled DEF Free
    <2> QED
        BY <2>1, <2>2
<1>7. ASSUME NEW r \in Runs, Mkdtemp(r) \/ Stage(r) \/ StagingFails(r) PROVE RaceInv'
    <2>1. CASE Mkdtemp(r)
        BY <2>1, RaceSettled DEF Mkdtemp, Go, Candidate, RunStates
    <2>2. CASE Stage(r)
        <3>1. runs'[r].pc \in {"stage", "replace"}
            BY <2>2 DEF Stage, RunStates, At
        <3> QED
            BY <3>1, RaceSettled DEF Candidate
    <2>3. CASE StagingFails(r)
        BY <2>3, RaceSettled DEF StagingFails, Candidate, RunStates
    <2> QED
        BY <1>7, <2>1, <2>2, <2>3
<1>8. ASSUME NEW r \in Runs, Replace(r) PROVE RaceInv'
    <2>1. ~Free'
        <3>1. CASE destination \in {Absent, Empty}
            BY <1>8, <3>1 DEF Replace, Published, Free, Absent, Empty
        <3>2. CASE destination \notin {Absent, Empty}
            BY <1>8, <3>2 DEF Replace, Free
        <3> QED
            BY <3>1, <3>2
    <2> QED
        BY <2>1, RaceSettled
<1>9. ASSUME NEW r \in Runs, Rollback(r) PROVE RaceInv'
    <2>1. /\ UNCHANGED destination
          /\ runs' = [runs EXCEPT ![r].pc = "refused"]
          /\ runs[r].pc = "rollback"
        BY <1>9 DEF Rollback, Go, At
    <2> QED
        BY <2>1, RaceQuiet DEF Candidate, RunStates
<1> QED
    BY <1>1, <1>2, <1>3, <1>4, <1>5, <1>6, <1>7, <1>8, <1>9 DEF GateNext, GateStep

(* When every run has ended and one was turned away because of the         *)
(* directory, the directory is taken, or the run that had the way clear    *)
(* was killed or could not write its files; for any number of runs.        *)
LEMMA RaceAlwaysHasAWinner == GateSpec => []RaceHasAWinner
<1>1. GateInit => RaceInv
    BY DEF GateInit, RaceInv
<1>2. GateInv /\ RaceInv => RaceHasAWinner
    <2> SUFFICES ASSUME GateInv, RaceInv, \A r \in Runs : ~Running(r),
                        NEW r \in Runs, runs[r].why = "destination"
                 PROVE  \/ destination.kind \in {"evidence", "foreign"}
                        \/ \E s \in Runs : At(s, "crashed") \/ runs[s].why = "files"
        BY DEF RaceHasAWinner
    <2>1. CASE ~Free
        BY <2>1 DEF GateInv, DestinationInv, Free, Foreign
    <2>2. CASE \E s \in Runs : Candidate(s)
        BY <2>2 DEF Candidate, Running, Ends, At
    <2> QED
        BY <2>1, <2>2 DEF RaceInv
<1>3. GateInv /\ RaceInv /\ [GateNext]_gateVars => RaceInv'
    BY RaceStep
<1> QED
    BY <1>1, <1>2, <1>3, GateKeepsInv, PTL DEF GateSpec

(* The gate publishes nothing but what it authenticated, and runs that     *)
(* race for one directory do not all lose it to one another.               *)
THEOREM PublicationStaysSound == GateSpec => []PublicationIsSound
<1>1. PublishedIsAuthentic /\ RaceHasAWinner => PublicationIsSound
    BY DEF PublicationIsSound
<1> QED
    BY <1>1, PublishedStaysAuthentic, RaceAlwaysHasAWinner, PTL

-----------------------------------------------------------------------------
(* The lowering of the LayerNorm.                                          *)

Texts == ValidTexts \cup {"none"}
LoweringPoints == {"load", "flat", "render", "omit", "clear", "convert", "read", "reparse",
                   "attest", "discard", "report", "truncate", "write", "done", "failed",
                   "killed"}
LoweringStates == [pc: LoweringPoints, text: Texts, reparsed: Texts,
                   stamp: CalyxFiles \cup {NoFile}]
Reports == [calyx: Texts, by: Lowerings \cup {"none", "earlier"},
            state: {"absent", "partial", "whole"}]

(* Before the conversion there is no text; past it, a file at the path is  *)
(* of an invocation that converted, and one the invocation may still call  *)
(* its own is the one it read.                                             *)
FileInv(l) ==
    /\ lowerings[l].pc \in {"load", "flat", "render", "omit"} => lowerings[l].text = "none"
    /\ lowerings[l].pc \in {"convert", "read", "reparse"} /\ calyx # NoFile =>
         \E writer \in Lowerings : calyx.writer = writer /\ Converted(writer)
    /\ Is(l, "reparse") => /\ lowerings[l].text # "none"
                           /\ \/ calyx = NoFile
                              \/ calyx.text = lowerings[l].text
                              \/ calyx.writer # l

(* A text that was not reparsed was replaced once; should it be back at    *)
(* the path, it was replaced twice.                                        *)
TextInv(l) ==
    lowerings[l].text # "none" =>
        /\ lowerings[l].pc \in {"attest", "report"} =>
             \/ lowerings[l].reparsed = lowerings[l].text
             \/ \E j \in Lowerings \ {l} :
                  Converted(j) /\ (calyx.text = lowerings[l].text => Overtaken(l))
        /\ lowerings[l].pc \in {"truncate", "write", "done"} =>
             lowerings[l].reparsed = lowerings[l].text \/ Overtaken(l)

(* A whole report is the one found at the start or that of an invocation   *)
(* that is done.                                                           *)
ReportInv(rep) ==
    rep.state = "whole" =>
        \/ rep = PinnedReport
        \/ /\ rep.by \in Lowerings
           /\ Is(rep.by, "done")
           /\ rep.calyx = lowerings[rep.by].text

ProbeInv ==
    /\ probe.pc \in {"calyx", "accepted"} =>
         probe.report.state = "whole" /\ ReportInv(probe.report)
    /\ probe.pc = "accepted" =>
         probe.calyx # NoFile /\ probe.calyx.text = probe.report.calyx

BackendInv ==
    /\ BackendTypeOK
    /\ \A l \in Lowerings : FileInv(l) /\ TextInv(l)
    /\ ReportInv(report)
    /\ ProbeInv

LEMMA BackendTypes ==
    BackendTypeOK <=>
        /\ flat \in {"absent", "partial", "whole"}
        /\ calyx \in CalyxFiles \cup {NoFile}
        /\ report \in Reports
        /\ lowerings \in [Lowerings -> LoweringStates]
        /\ probe \in [pc: {"hash", "hash calyx", "report", "calyx", "accepted", "rejected"},
                      report: Reports, calyx: CalyxFiles \cup {NoFile}]
BY DEF BackendTypeOK, Reports, LoweringStates, LoweringPoints, Texts

LEMMA BackendInitInv == BackendInit => BackendInv
<1> SUFFICES ASSUME BackendInit PROVE BackendInv
    OBVIOUS
<1>1. BackendTypeOK
    BY DEF BackendInit, BackendTypeOK, CalyxFiles, ValidTexts, NoFile, NoReport, PinnedReport, Idle
<1>2. \A l \in Lowerings : lowerings[l].pc = "load" /\ lowerings[l].text = "none"
    BY DEF BackendInit, Idle
<1>3. \A l \in Lowerings : FileInv(l) /\ TextInv(l)
    BY <1>2 DEF FileInv, TextInv, Is
<1>4. ReportInv(report) /\ ProbeInv
    BY DEF BackendInit, ReportInv, ProbeInv, NoReport, PinnedReport
<1> QED
    BY <1>1, <1>3, <1>4 DEF BackendInv

(* A step of an invocation replaces that invocation's state by another.    *)
LEMMA LoweringShape ==
    ASSUME BackendTypeOK, NEW k \in Lowerings, Lowering(k) \/ KillLowering(k)
    PROVE  \E new \in LoweringStates : lowerings' = [lowerings EXCEPT ![k] = new]
<1>0. lowerings[k] \in LoweringStates /\ calyx \in CalyxFiles \cup {NoFile}
    BY BackendTypes
<1>1. ASSUME NEW point \in LoweringPoints, Then(k, point)
      PROVE  \E new \in LoweringStates : lowerings' = [lowerings EXCEPT ![k] = new]
    <2>1. [lowerings[k] EXCEPT !.pc = point] \in LoweringStates
        BY <1>0 DEF LoweringStates
    <2>2. lowerings' = [lowerings EXCEPT ![k] = [lowerings[k] EXCEPT !.pc = point]]
        BY <1>1 DEF Then
    <2> QED
        BY <2>1, <2>2
<1>2. CASE ReadOutput(k)
    <2> DEFINE point == IF calyx = NoFile THEN "report"
                        ELSE IF Valid(calyx) THEN "reparse" ELSE "discard"
               text == IF Valid(calyx) THEN calyx.text ELSE "none"
    <2>1. point \in LoweringPoints /\ text \in Texts
        BY DEF LoweringPoints, Texts, Valid
    <2>2. lowerings' = [lowerings EXCEPT ![k].pc = point, ![k].text = text]
        BY <1>2 DEF ReadOutput
    <2> HIDE DEF point, text
    <2>3. [lowerings[k] EXCEPT !.pc = point, !.text = text] \in LoweringStates
        BY <1>0, <2>1 DEF LoweringStates
    <2>4. lowerings' = [lowerings EXCEPT ![k] = [lowerings[k] EXCEPT !.pc = point, !.text = text]]
        BY <2>2
    <2> QED
        BY <2>3, <2>4
<1>3. CASE Reparse(k)
    <2>1. CASE Then(k, "discard")
        BY <1>1, <2>1 DEF LoweringPoints
    <2>2. CASE /\ Valid(calyx)
               /\ lowerings' = [lowerings EXCEPT ![k].pc = "attest", ![k].reparsed = calyx.text]
        <3>1. "attest" \in LoweringPoints /\ calyx.text \in Texts
            BY <2>2 DEF LoweringPoints, Texts, Valid
        <3>2. [lowerings[k] EXCEPT !.pc = "attest", !.reparsed = calyx.text] \in LoweringStates
            BY <1>0, <3>1 DEF LoweringStates
        <3>3. lowerings' = [lowerings EXCEPT ![k] = [lowerings[k] EXCEPT !.pc = "attest",
                                                              !.reparsed = calyx.text]]
            BY <2>2
        <3> QED
            BY <3>2, <3>3
    <2> QED
        BY <1>3, <2>1, <2>2 DEF Reparse
<1>4. CASE Attest(k)
    <2> DEFINE point == IF calyx = NoFile THEN "discard" ELSE "report"
    <2>1. point \in LoweringPoints
        BY DEF LoweringPoints
    <2>2. lowerings' = [lowerings EXCEPT ![k].pc = point, ![k].stamp = calyx]
        BY <1>4 DEF Attest
    <2> HIDE DEF point
    <2>3. [lowerings[k] EXCEPT !.pc = point, !.stamp = calyx] \in LoweringStates
        BY <1>0, <2>1 DEF LoweringStates
    <2>4. lowerings' = [lowerings EXCEPT ![k] = [lowerings[k] EXCEPT !.pc = point, !.stamp = calyx]]
        BY <2>2
    <2> QED
        BY <2>3, <2>4
<1>5. CASE Discard(k)
    <2>1. [lowerings[k] EXCEPT !.pc = "report", !.text = "none"] \in LoweringStates
        BY <1>0 DEF LoweringStates, LoweringPoints, Texts
    <2>2. lowerings' = [lowerings EXCEPT ![k] = [lowerings[k] EXCEPT !.pc = "report", !.text = "none"]]
        BY <1>5 DEF Discard
    <2> QED
        BY <2>1, <2>2
<1>6. CASE ~ReadOutput(k) /\ ~Reparse(k) /\ ~Attest(k) /\ ~Discard(k)
    <2>1. \/ Then(k, "flat") \/ Then(k, "failed") \/ Then(k, "render") \/ Then(k, "clear")
          \/ Then(k, "omit") \/ Then(k, "report") \/ Then(k, "convert") \/ Then(k, "read")
          \/ Then(k, "discard") \/ Then(k, "truncate") \/ Then(k, "write") \/ Then(k, "done")
          \/ Then(k, "killed")
        BY <1>6 DEF Lowering, LoadInputs, TruncateFlat, WriteFlat, OmitCalyx, ClearCalyx,
           Convert, MakeReport, TruncateReport, WriteReport, KillLowering
    <2>2. {"flat", "failed", "render", "clear", "omit", "report", "convert", "read", "discard",
           "truncate", "write", "done", "killed"} \subseteq LoweringPoints
        BY DEF LoweringPoints
    <2> QED
        BY <1>1, <2>1, <2>2
<1> QED
    BY <1>2, <1>3, <1>4, <1>5, <1>6

(* What a step of an invocation leaves alone, and what it may do to the    *)
(* Calyx file.                                                             *)
LEMMA LoweringFrame ==
    ASSUME BackendTypeOK, NEW k \in Lowerings, Lowering(k) \/ KillLowering(k)
    PROVE  /\ UNCHANGED probe
           /\ lowerings' \in [Lowerings -> LoweringStates]
           /\ \A l \in Lowerings \ {k} : lowerings'[l] = lowerings[l]
           /\ \A l \in Lowerings : Converted(l) => Converted(l)'
           /\ \/ calyx' \in {calyx, NoFile}
              \/ /\ Is(k, "convert")
                 /\ Converted(k)'
                 /\ calyx' \in CalyxFiles
                 /\ calyx'.writer = k
<1>0. lowerings \in [Lowerings -> LoweringStates]
    BY BackendTypes
<1>1. /\ lowerings' \in [Lowerings -> LoweringStates]
      /\ \A l \in Lowerings \ {k} : lowerings'[l] = lowerings[l]
    BY <1>0, LoweringShape
<1>2. UNCHANGED probe
    BY DEF Lowering, LoadInputs, TruncateFlat, WriteFlat, OmitCalyx, ClearCalyx, Convert,
           ReadOutput, Reparse, Attest, Discard, MakeReport, TruncateReport, WriteReport,
           KillLowering
<1>3. Converted(k) => Converted(k)'
    <2> SUFFICES ASSUME Converted(k) PROVE Converted(k)'
        OBVIOUS
    <2>1. ~Is(k, "load") /\ ~Is(k, "flat") /\ ~Is(k, "render") /\ ~Is(k, "omit")
          /\ ~Is(k, "clear") /\ ~Is(k, "convert")
        BY DEF Is, Converted
    <2>2. ReadOutput(k) \/ Reparse(k) \/ Attest(k) \/ Discard(k) \/ MakeReport(k)
          \/ TruncateReport(k) \/ WriteReport(k) \/ KillLowering(k)
        BY <2>1 DEF Lowering, LoadInputs, TruncateFlat, WriteFlat, OmitCalyx, ClearCalyx, Convert
    <2>3. ASSUME NEW point \in {"discard", "attest", "report", "truncate", "failed", "write", "done",
                                "killed", "reparse"}, lowerings'[k].pc = point
          PROVE  Converted(k)'
        BY <2>3 DEF Converted
    <2>4. CASE ReadOutput(k)
        BY <1>0, <2>3, <2>4 DEF ReadOutput, LoweringStates
    <2>5. CASE Reparse(k)
        BY <1>0, <2>3, <2>5 DEF Reparse, Then, LoweringStates
    <2>6. CASE Attest(k)
        BY <1>0, <2>3, <2>6 DEF Attest, LoweringStates
    <2>7. CASE Discard(k)
        BY <1>0, <2>3, <2>7 DEF Discard, LoweringStates
    <2>8. CASE MakeReport(k)
        <3>1. Then(k, "truncate") \/ Then(k, "failed")
            BY <2>8 DEF MakeReport
        <3> QED
            BY <1>0, <2>3, <3>1 DEF Then, LoweringStates
    <2>9. CASE TruncateReport(k) \/ WriteReport(k) \/ KillLowering(k)
        <3>1. Then(k, "write") \/ Then(k, "done") \/ Then(k, "killed")
            BY <2>9 DEF TruncateReport, WriteReport, KillLowering
        <3> QED
            BY <1>0, <2>3, <3>1 DEF Then, LoweringStates
    <2> QED
        BY <2>2, <2>4, <2>5, <2>6, <2>7, <2>8, <2>9
<1>4. \/ calyx' \in {calyx, NoFile}
      \/ /\ Is(k, "convert")
         /\ Converted(k)'
         /\ calyx' \in CalyxFiles
         /\ calyx'.writer = k
    <2>1. CASE Convert(k)
        <3>1. CASE UNCHANGED calyx
            BY <3>1
        <3>2. CASE \E text \in {"pinned", "invalid", k} : calyx' = [text |-> text, writer |-> k]
            <4>1. calyx' \in CalyxFiles /\ calyx'.writer = k
                <5>1. PICK text \in {"pinned", "invalid", k} : calyx' = [text |-> text, writer |-> k]
                    BY <3>2
                <5>2. text \in ValidTexts \cup {"invalid"}
                    BY DEF ValidTexts
                <5> QED
                    BY <5>1, <5>2 DEF CalyxFiles
            <4>2. Is(k, "convert") /\ Converted(k)'
                <5>1. lowerings'[k].pc \in {"read", "discard"}
                    BY <1>0, <2>1 DEF Convert, Then, LoweringStates
                <5> QED
                    BY <2>1, <5>1 DEF Convert, Is, Converted
            <4> QED
                BY <4>1, <4>2
        <3> QED
            BY <2>1, <3>1, <3>2 DEF Convert
    <2>2. CASE ~Convert(k)
        BY <2>2 DEF Lowering, LoadInputs, TruncateFlat, WriteFlat, OmitCalyx, ClearCalyx,
           ReadOutput, Reparse, Attest, Discard, MakeReport, TruncateReport, WriteReport,
           KillLowering
    <2> QED
        BY <2>1, <2>2
<1>5. \A l \in Lowerings : Converted(l) => Converted(l)'
    BY <1>1, <1>3 DEF Converted
<1> QED
    BY <1>1, <1>2, <1>4, <1>5

(* The types are kept.                                                     *)
LEMMA BackendKeepsTypes ==
    ASSUME BackendTypeOK, [BackendNext]_backendVars
    PROVE  BackendTypeOK'
<1> DEFINE T == /\ flat \in {"absent", "partial", "whole"}
                /\ calyx \in CalyxFiles \cup {NoFile}
                /\ report \in Reports
                /\ lowerings \in [Lowerings -> LoweringStates]
                /\ probe \in [pc: {"hash", "hash calyx", "report", "calyx", "accepted", "rejected"},
                              report: Reports, calyx: CalyxFiles \cup {NoFile}]
<1>0. T /\ (T' => BackendTypeOK')
    <2>1. T
        BY BackendTypes
    <2>2. T' => BackendTypeOK'
        BY DEF BackendTypeOK, Reports, LoweringStates, LoweringPoints, Texts
    <2> QED
        BY <2>1, <2>2
<1>1. CASE UNCHANGED backendVars
    BY <1>0, <1>1 DEF backendVars
<1>2. CASE Probe
    <2>1. UNCHANGED <<flat, calyx, report, lowerings>>
        BY <1>2 DEF Probe, HashEvidence, HashCalyx, ReadEvidence, ReadCalyx
    <2>2. probe' \in [pc: {"hash", "hash calyx", "report", "calyx", "accepted", "rejected"},
                      report: Reports, calyx: CalyxFiles \cup {NoFile}]
        BY <1>0, <1>2 DEF Probe, HashEvidence, HashCalyx, ReadEvidence, ReadCalyx, ProbeThen
    <2> QED
        BY <1>0, <2>1, <2>2
<1>3. ASSUME NEW k \in Lowerings, Lowering(k) \/ KillLowering(k)
      PROVE  BackendTypeOK'
    <2>1. flat' \in {"absent", "partial", "whole"}
        BY <1>0, <1>3 DEF Lowering, LoadInputs, TruncateFlat, WriteFlat, OmitCalyx, ClearCalyx,
           Convert, ReadOutput, Reparse, Attest, Discard, MakeReport, TruncateReport, WriteReport,
           KillLowering
    <2>2. calyx' \in CalyxFiles \cup {NoFile}
        BY <1>0, <1>3, LoweringFrame
    <2>3. report' \in Reports
        <3>0. NoReport \in Reports /\ [NoReport EXCEPT !.state = "partial"] \in Reports
            BY DEF NoReport, Reports, Texts
        <3>1. CASE TruncateReport(k)
            BY <3>0, <3>1 DEF TruncateReport
        <3>2. CASE WriteReport(k)
            <4>1. [calyx |-> lowerings[k].text, by |-> k, state |-> "whole"] \in Reports
                <5>1. lowerings[k].text \in Texts
                    BY <1>0 DEF LoweringStates
                <5> QED
                    BY <5>1 DEF Reports
            <4> QED
                BY <3>0, <3>2, <4>1 DEF WriteReport
        <3>3. CASE ~TruncateReport(k) /\ ~WriteReport(k)
            BY <1>0, <1>3, <3>3 DEF Lowering, LoadInputs, TruncateFlat, WriteFlat, OmitCalyx,
               ClearCalyx, Convert, ReadOutput, Reparse, Attest, Discard, MakeReport, KillLowering
        <3> QED
            BY <3>1, <3>2, <3>3
    <2>4. lowerings' \in [Lowerings -> LoweringStates] /\ UNCHANGED probe
        BY <1>3, LoweringFrame
    <2> QED
        BY <1>0, <2>1, <2>2, <2>3, <2>4
<1> QED
    BY <1>1, <1>2, <1>3 DEF BackendNext

LEMMA NoneIsNoText ==
    "none" \notin ValidTexts /\ "invalid" \notin ValidTexts
BY BackendAssumption DEF ValidTexts

(* What an invocation holds once it has moved.                             *)
LEMMA OwnState ==
    ASSUME BackendTypeOK, NEW k \in Lowerings
    PROVE  /\ \A point : Then(k, point) => /\ lowerings'[k].pc = point
                                           /\ lowerings'[k].text = lowerings[k].text
                                           /\ lowerings'[k].reparsed = lowerings[k].reparsed
           /\ ReadOutput(k) =>
                /\ lowerings'[k].pc = "reparse" => Valid(calyx)
                /\ lowerings'[k].pc \in {"report", "reparse", "discard"}
                /\ lowerings'[k].text = IF Valid(calyx) THEN calyx.text ELSE "none"
           /\ Reparse(k) =>
                /\ lowerings'[k].pc \in {"attest", "discard"}
                /\ lowerings'[k].text = lowerings[k].text
                /\ lowerings'[k].pc = "attest" => /\ Valid(calyx)
                                                  /\ lowerings'[k].reparsed = calyx.text
           /\ Attest(k) =>
                /\ lowerings'[k].pc \in {"report", "discard"}
                /\ lowerings'[k].text = lowerings[k].text
                /\ lowerings'[k].reparsed = lowerings[k].reparsed
           /\ Discard(k) => lowerings'[k].pc = "report" /\ lowerings'[k].text = "none"
<1>0. lowerings \in [Lowerings -> LoweringStates]
    BY BackendTypes
<1>1. ASSUME NEW point, Then(k, point)
      PROVE  /\ lowerings'[k].pc = point
             /\ lowerings'[k].text = lowerings[k].text
             /\ lowerings'[k].reparsed = lowerings[k].reparsed
    BY <1>0, <1>1 DEF Then, LoweringStates
<1>2. ASSUME ReadOutput(k)
      PROVE  /\ lowerings'[k].pc = "reparse" => Valid(calyx)
             /\ lowerings'[k].pc \in {"report", "reparse", "discard"}
             /\ lowerings'[k].text = IF Valid(calyx) THEN calyx.text ELSE "none"
    BY <1>0, <1>2 DEF ReadOutput, LoweringStates
<1>3. ASSUME Reparse(k)
      PROVE  /\ lowerings'[k].pc \in {"attest", "discard"}
             /\ lowerings'[k].text = lowerings[k].text
             /\ lowerings'[k].pc = "attest" => Valid(calyx) /\ lowerings'[k].reparsed = calyx.text
    <2>1. CASE Then(k, "discard")
        BY <1>1, <2>1
    <2>2. CASE ~Then(k, "discard")
        BY <1>0, <1>3, <2>2 DEF Reparse, LoweringStates
    <2> QED
        BY <2>1, <2>2
<1>4. ASSUME Attest(k)
      PROVE  /\ lowerings'[k].pc \in {"report", "discard"}
             /\ lowerings'[k].text = lowerings[k].text
             /\ lowerings'[k].reparsed = lowerings[k].reparsed
    BY <1>0, <1>4 DEF Attest, LoweringStates
<1>5. Discard(k) => lowerings'[k].pc = "report" /\ lowerings'[k].text = "none"
    BY <1>0 DEF Discard, LoweringStates
<1> QED
    BY <1>1, <1>2, <1>3, <1>4, <1>5

(* A step of k keeps what is known about every other invocation.           *)
LEMMA OthersKeepInv ==
    ASSUME BackendInv, NEW k \in Lowerings, Lowering(k) \/ KillLowering(k),
           NEW l \in Lowerings \ {k}
    PROVE  FileInv(l)' /\ TextInv(l)'
<1>0. BackendTypeOK /\ FileInv(l) /\ TextInv(l) /\ lowerings'[l] = lowerings[l]
    BY LoweringFrame DEF BackendInv
<1>1. \A j \in Lowerings : Converted(j) => Converted(j)'
    BY <1>0, LoweringFrame
<1>2. Overtaken(l) => Overtaken(l)'
    BY <1>1 DEF Overtaken
<1>3. \/ calyx' \in {calyx, NoFile}
      \/ Is(k, "convert") /\ Converted(k)' /\ calyx'.writer = k
    BY <1>0, LoweringFrame
<1>4. FileInv(l)'
    <2>1. lowerings[l].pc \in {"convert", "read", "reparse"} /\ calyx' # NoFile =>
            \E writer \in Lowerings : calyx'.writer = writer /\ Converted(writer)'
        BY <1>0, <1>1, <1>3 DEF FileInv
    <2>2. lowerings[l].pc = "reparse" => /\ lowerings[l].text # "none"
                                         /\ \/ calyx' = NoFile
                                            \/ calyx'.text = lowerings[l].text
                                            \/ calyx'.writer # l
        BY <1>0, <1>3 DEF FileInv, Is
    <2> QED
        BY <1>0, <2>1, <2>2 DEF FileInv, Is, Converted
<1>5. TextInv(l)'
    <2> SUFFICES ASSUME lowerings[l].text # "none"
                 PROVE  /\ lowerings[l].pc \in {"attest", "report"} =>
                             \/ lowerings[l].reparsed = lowerings[l].text
                             \/ \E j \in Lowerings \ {l} :
                                  Converted(j)' /\ (calyx'.text = lowerings[l].text => Overtaken(l)')
                        /\ lowerings[l].pc \in {"truncate", "write", "done"} =>
                             lowerings[l].reparsed = lowerings[l].text \/ Overtaken(l)'
        BY <1>0 DEF TextInv, Converted, Overtaken
    <2>1. ASSUME lowerings[l].pc \in {"attest", "report"},
                 lowerings[l].reparsed # lowerings[l].text
          PROVE  \E j \in Lowerings \ {l} :
                   Converted(j)' /\ (calyx'.text = lowerings[l].text => Overtaken(l)')
        <3>1. PICK j \in Lowerings \ {l} :
                Converted(j) /\ (calyx.text = lowerings[l].text => Overtaken(l))
            BY <1>0, <2>1 DEF TextInv
        <3>2. Converted(j)'
            BY <1>1, <3>1
        <3>3. CASE calyx' = calyx
            BY <1>2, <3>1, <3>2, <3>3
        <3>4. CASE calyx' = NoFile
            <4>1. calyx'.text # lowerings[l].text
                BY <3>4 DEF NoFile
            <4> QED
                BY <3>2, <4>1
        <3>5. CASE Is(k, "convert") /\ Converted(k)'
            <4>1. j # k
                BY <3>1, <3>5 DEF Is, Converted
            <4>2. Overtaken(l)'
                BY <3>2, <3>5, <4>1 DEF Overtaken
            <4> QED
                BY <3>2, <4>2
        <3> QED
            BY <1>3, <3>3, <3>4, <3>5
    <2> QED
        BY <1>0, <1>2, <2>1 DEF TextInv
<1> QED
    BY <1>4, <1>5

(* A step of k keeps what is known about k.                                *)
LEMMA OwnKeepsFileInv ==
    ASSUME BackendInv, NEW k \in Lowerings, Lowering(k) \/ KillLowering(k)
    PROVE  FileInv(k)'
<1>0. BackendTypeOK /\ FileInv(k)
    BY DEF BackendInv
<1>1. \A j \in Lowerings : Converted(j) => Converted(j)'
    BY <1>0, LoweringFrame
<1>2. CASE LoadInputs(k) \/ TruncateFlat(k) \/ WriteFlat(k)
    <2>1. lowerings[k].text = "none"
        BY <1>0, <1>2 DEF LoadInputs, TruncateFlat, WriteFlat, FileInv, Is
    <2>2. \/ Then(k, "flat") \/ Then(k, "failed") \/ Then(k, "render") \/ Then(k, "clear")
          \/ Then(k, "omit")
        BY <1>2 DEF LoadInputs, TruncateFlat, WriteFlat
    <2>3. /\ lowerings'[k].text = "none"
          /\ lowerings'[k].pc \in {"flat", "failed", "render", "clear", "omit"}
        BY <1>0, <2>1, <2>2, OwnState
    <2> QED
        BY <2>3 DEF FileInv, Is
<1>3. CASE ClearCalyx(k)
    <2>1. \/ calyx' = NoFile /\ Then(k, "convert")
          \/ Then(k, "failed")
        BY <1>3 DEF ClearCalyx
    <2>2. \/ calyx' = NoFile /\ lowerings'[k].pc = "convert"
          \/ lowerings'[k].pc = "failed"
        BY <1>0, <2>1, OwnState
    <2> QED
        BY <2>2 DEF FileInv, Is
<1>4. CASE Convert(k)
    <2>1. lowerings'[k].pc \in {"read", "discard"}
        BY <1>0, <1>4, OwnState DEF Convert
    <2>2. calyx' # NoFile =>
            \E writer \in Lowerings : calyx'.writer = writer /\ Converted(writer)'
        <3>1. CASE UNCHANGED calyx
            BY <1>0, <1>1, <1>4, <3>1 DEF FileInv, Convert, Is
        <3>2. CASE calyx' # calyx
            BY <1>0, <3>2, LoweringFrame
        <3> QED
            BY <3>1, <3>2
    <2> QED
        BY <2>1, <2>2 DEF FileInv, Is, Converted
<1>5. CASE ReadOutput(k)
    <2>1. UNCHANGED calyx /\ lowerings[k].pc = "read"
        BY <1>5 DEF ReadOutput, Is
    <2>2. calyx # NoFile =>
            \E writer \in Lowerings : calyx.writer = writer /\ Converted(writer)'
        BY <1>0, <1>1, <2>1 DEF FileInv
    <2>3. /\ lowerings'[k].pc \in {"report", "reparse", "discard"}
          /\ lowerings'[k].pc = "reparse" => lowerings'[k].text = calyx.text /\ Valid(calyx)
        BY <1>0, <1>5, OwnState
    <2>4. lowerings'[k].pc = "reparse" => lowerings'[k].text # "none"
        BY <2>3, NoneIsNoText DEF Valid
    <2> QED
        BY <2>1, <2>2, <2>3, <2>4 DEF FileInv, Is, Converted
<1>6. ASSUME lowerings'[k].pc \in {"attest", "discard", "report", "truncate", "failed", "write",
                                   "done", "killed"}
      PROVE  FileInv(k)'
    BY <1>6 DEF FileInv, Is
<1>7. CASE Reparse(k) \/ Attest(k) \/ Discard(k)
    <2>1. lowerings'[k].pc \in {"attest", "discard", "report"}
        BY <1>0, <1>7, OwnState
    <2> QED
        BY <1>6, <2>1
<1>8. CASE OmitCalyx(k) \/ MakeReport(k) \/ TruncateReport(k) \/ WriteReport(k) \/ KillLowering(k)
    <2>1. \/ Then(k, "report") \/ Then(k, "truncate") \/ Then(k, "failed") \/ Then(k, "write")
          \/ Then(k, "done") \/ Then(k, "killed")
        BY <1>8 DEF OmitCalyx, MakeReport, TruncateReport, WriteReport, KillLowering
    <2>2. lowerings'[k].pc \in {"report", "truncate", "failed", "write", "done", "killed"}
        BY <1>0, <2>1, OwnState
    <2> QED
        BY <1>6, <2>2
<1> QED
    BY <1>2, <1>3, <1>4, <1>5, <1>7, <1>8 DEF Lowering

LEMMA OwnKeepsTextInv ==
    ASSUME BackendInv, NEW k \in Lowerings, Lowering(k) \/ KillLowering(k)
    PROVE  TextInv(k)'
<1>0. BackendTypeOK /\ FileInv(k) /\ TextInv(k)
    BY DEF BackendInv
<1>1. \A j \in Lowerings : Converted(j) => Converted(j)'
    BY <1>0, LoweringFrame
<1>2. Overtaken(k) => Overtaken(k)'
    BY <1>1 DEF Overtaken
<1>3. ASSUME lowerings'[k].text = "none" \/
             lowerings'[k].pc \notin {"attest", "report", "truncate", "write", "done"}
      PROVE  TextInv(k)'
    BY <1>3 DEF TextInv
<1>4. CASE \/ LoadInputs(k) \/ TruncateFlat(k) \/ WriteFlat(k) \/ ClearCalyx(k) \/ Convert(k)
           \/ KillLowering(k)
    <2>1. \/ Then(k, "flat") \/ Then(k, "failed") \/ Then(k, "render") \/ Then(k, "clear")
          \/ Then(k, "omit") \/ Then(k, "convert") \/ Then(k, "read") \/ Then(k, "discard")
          \/ Then(k, "killed")
        BY <1>4 DEF LoadInputs, TruncateFlat, WriteFlat, ClearCalyx, Convert, KillLowering
    <2>2. lowerings'[k].pc \in {"flat", "failed", "render", "clear", "omit", "convert", "read",
                                "discard", "killed"}
        BY <1>0, <2>1, OwnState
    <2> QED
        BY <1>3, <2>2
<1>5. CASE OmitCalyx(k)
    <2>1. lowerings[k].text = "none"
        BY <1>0, <1>5 DEF OmitCalyx, FileInv, Is
    <2>2. lowerings'[k].text = "none"
        BY <1>0, <1>5, <2>1, OwnState DEF OmitCalyx
    <2> QED
        BY <1>3, <2>2
<1>6. CASE ReadOutput(k)
    <2>1. CASE Valid(calyx)
        <3>1. calyx # NoFile
            BY <2>1, NoneIsNoText DEF Valid, NoFile
        <3>2. lowerings'[k].pc = "reparse"
            BY <1>0, <1>6, <2>1, <3>1, BackendTypes DEF ReadOutput, LoweringStates
        <3> QED
            BY <1>3, <3>2
    <2>2. CASE ~Valid(calyx)
        BY <1>0, <1>3, <1>6, <2>2, OwnState
    <2> QED
        BY <2>1, <2>2
<1>7. CASE Reparse(k)
    <2>1. CASE lowerings'[k].pc # "attest"
        BY <1>0, <1>3, <1>7, <2>1, OwnState
    <2>2. CASE lowerings'[k].pc = "attest"
        <3>1. /\ Valid(calyx)
              /\ lowerings'[k].reparsed = calyx.text
              /\ lowerings'[k].text = lowerings[k].text
              /\ UNCHANGED calyx
            BY <1>0, <1>7, <2>2, OwnState DEF Reparse
        <3>2. calyx # NoFile
            BY <3>1, NoneIsNoText DEF Valid, NoFile
        <3>3. Is(k, "reparse")
            BY <1>7 DEF Reparse
        <3>4. calyx.text = lowerings[k].text \/
              (calyx.writer \in Lowerings \ {k} /\ Converted(calyx.writer))
            BY <1>0, <3>2, <3>3 DEF FileInv, Is
        <3>5. CASE calyx.text = lowerings[k].text
            BY <2>2, <3>1, <3>5 DEF TextInv
        <3>6. CASE calyx.text # lowerings[k].text
            <4>1. PICK j \in Lowerings \ {k} : Converted(j)'
                BY <1>1, <3>4, <3>6
            <4>2. calyx'.text # lowerings'[k].text
                BY <3>1, <3>6
            <4> QED
                BY <2>2, <4>1, <4>2 DEF TextInv
        <3> QED
            BY <3>5, <3>6
    <2> QED
        BY <2>1, <2>2
<1>8. CASE Attest(k)
    <2>1. /\ lowerings'[k].pc \in {"report", "discard"}
          /\ lowerings'[k].text = lowerings[k].text
          /\ lowerings'[k].reparsed = lowerings[k].reparsed
        BY <1>0, <1>8, OwnState
    <2>2. UNCHANGED calyx /\ lowerings[k].pc = "attest"
        BY <1>8 DEF Attest, Is
    <2> SUFFICES ASSUME lowerings[k].text # "none", lowerings[k].reparsed # lowerings[k].text
                 PROVE  TextInv(k)'
        BY <2>1 DEF TextInv
    <2>3. PICK j \in Lowerings \ {k} :
            Converted(j) /\ (calyx.text = lowerings[k].text => Overtaken(k))
        BY <1>0, <2>2 DEF TextInv
    <2>4. Converted(j)' /\ (calyx'.text = lowerings'[k].text => Overtaken(k)')
        BY <1>1, <1>2, <2>1, <2>2, <2>3
    <2> QED
        BY <2>1, <2>4 DEF TextInv
<1>9. CASE Discard(k)
    BY <1>0, <1>3, <1>9, OwnState
<1>10. CASE MakeReport(k)
    <2>1. CASE Then(k, "failed")
        <3>1. lowerings'[k].pc = "failed"
            BY <1>0, <2>1, OwnState
        <3> QED
            BY <1>3, <3>1
    <2>2. CASE ~Then(k, "failed")
        <3>1. Then(k, "truncate") /\ (lowerings[k].text = "none" \/ Releases(k))
            BY <1>10, <2>2 DEF MakeReport
        <3>2. /\ lowerings'[k].pc = "truncate"
              /\ lowerings'[k].text = lowerings[k].text
              /\ lowerings'[k].reparsed = lowerings[k].reparsed
            BY <1>0, <3>1, OwnState
        <3>3. CASE lowerings[k].text = "none"
            BY <1>3, <3>2, <3>3
        <3>4. CASE lowerings[k].text # "none"
            <4>1. calyx.text = lowerings[k].text /\ lowerings[k].pc = "report"
                BY <1>10, <3>1, <3>4 DEF Releases, MakeReport, Is
            <4>2. lowerings[k].reparsed = lowerings[k].text \/ Overtaken(k)
                BY <1>0, <3>4, <4>1 DEF TextInv
            <4> QED
                BY <1>2, <3>2, <4>2 DEF TextInv
        <3> QED
            BY <3>3, <3>4
    <2> QED
        BY <2>1, <2>2
<1>11. CASE TruncateReport(k) \/ WriteReport(k)
    <2>1. /\ lowerings[k].pc \in {"truncate", "write"}
          /\ Then(k, "write") \/ Then(k, "done")
        BY <1>11 DEF TruncateReport, WriteReport, Is
    <2>2. /\ lowerings'[k].pc \in {"write", "done"}
          /\ lowerings'[k].text = lowerings[k].text
          /\ lowerings'[k].reparsed = lowerings[k].reparsed
        BY <1>0, <2>1, OwnState
    <2>3. lowerings[k].text # "none" =>
            lowerings[k].reparsed = lowerings[k].text \/ Overtaken(k)
        BY <1>0, <2>1 DEF TextInv
    <2> QED
        BY <1>2, <2>2, <2>3 DEF TextInv
<1> QED
    BY <1>4, <1>5, <1>6, <1>7, <1>8, <1>9, <1>10, <1>11 DEF Lowering

(* An invocation that is done takes no further step.                       *)
LEMMA DoneStays ==
    ASSUME BackendTypeOK, NEW k \in Lowerings, Lowering(k) \/ KillLowering(k), NEW rep,
           ReportInv(rep)
    PROVE  ReportInv(rep)'
<1>1. ~Is(k, "done")
    BY DEF Lowering, LoadInputs, TruncateFlat, WriteFlat, OmitCalyx, ClearCalyx, Convert,
           ReadOutput, Reparse, Attest, Discard, MakeReport, TruncateReport, WriteReport,
           KillLowering, Is
<1>2. \A l \in Lowerings \ {k} : lowerings'[l] = lowerings[l]
    BY LoweringFrame
<1> QED
    BY <1>1, <1>2 DEF ReportInv, Is

LEMMA BackendKeepsInv ==
    BackendInv /\ [BackendNext]_backendVars => BackendInv'
<1> SUFFICES ASSUME BackendInv, [BackendNext]_backendVars PROVE BackendInv'
    OBVIOUS
<1>0. BackendTypeOK /\ BackendTypeOK'
    BY BackendKeepsTypes DEF BackendInv
<1>1. CASE UNCHANGED backendVars
    BY <1>0, <1>1 DEF BackendInv, backendVars, FileInv, TextInv, ReportInv, ProbeInv, Is,
       Converted, Overtaken
<1>2. CASE Probe
    <2>1. UNCHANGED <<flat, calyx, report, lowerings>>
        BY <1>2 DEF Probe, HashEvidence, HashCalyx, ReadEvidence, ReadCalyx
    <2>2. (\A l \in Lowerings : FileInv(l) /\ TextInv(l))' /\ ReportInv(report)'
        BY <2>1 DEF BackendInv, FileInv, TextInv, ReportInv, Is, Converted, Overtaken
    <2>3. ProbeInv'
        <3>0. probe \in [pc: {"hash", "hash calyx", "report", "calyx", "accepted", "rejected"},
                         report: Reports, calyx: CalyxFiles \cup {NoFile}]
            BY <1>0, BackendTypes
        <3>1. CASE HashEvidence \/ HashCalyx
            <4>1. probe'.pc \notin {"calyx", "accepted"}
                BY <3>0, <3>1 DEF HashEvidence, HashCalyx, ProbeThen
            <4> QED
                BY <4>1 DEF ProbeInv
        <3>2. CASE ReadEvidence
            <4>1. /\ probe'.report = report
                  /\ probe'.pc \in {"calyx", "rejected"}
                  /\ probe'.pc = "calyx" => report.state = "whole"
                BY <3>0, <3>2 DEF ReadEvidence
            <4> QED
                BY <2>1, <2>2, <4>1 DEF ProbeInv, ReportInv, Is
        <3>3. CASE ReadCalyx
            <4>1. /\ probe.pc = "calyx"
                  /\ probe'.report = probe.report
                  /\ probe'.calyx = calyx
                  /\ probe'.pc \in {"accepted", "rejected"}
                  /\ probe'.pc = "accepted" => calyx # NoFile /\ calyx.text = probe.report.calyx
                BY <3>0, <3>3 DEF ReadCalyx
            <4>2. probe.report.state = "whole" /\ ReportInv(probe.report)
                BY <4>1 DEF BackendInv, ProbeInv
            <4> QED
                BY <2>1, <4>1, <4>2 DEF ProbeInv, ReportInv, Is
        <3> QED
            BY <1>2, <3>1, <3>2, <3>3 DEF Probe
    <2> QED
        BY <1>0, <2>2, <2>3 DEF BackendInv
<1>3. ASSUME NEW k \in Lowerings, Lowering(k) \/ KillLowering(k)
      PROVE  BackendInv'
    <2>1. \A l \in Lowerings : FileInv(l)' /\ TextInv(l)'
        BY <1>3, OthersKeepInv, OwnKeepsFileInv, OwnKeepsTextInv
    <2>2. ReportInv(report)'
        <3>1. CASE TruncateReport(k)
            BY <3>1 DEF TruncateReport, NoReport, ReportInv
        <3>2. CASE WriteReport(k)
            <4>1. lowerings'[k].pc = "done" /\ lowerings'[k].text = lowerings[k].text
                BY <1>0, <3>2, OwnState DEF WriteReport
            <4>2. \/ report' = [calyx |-> lowerings[k].text, by |-> k, state |-> "whole"]
                  \/ report' = [NoReport EXCEPT !.state = "partial"]
                BY <3>2 DEF WriteReport
            <4> QED
                BY <4>1, <4>2 DEF ReportInv, Is, NoReport
        <3>3. CASE ~TruncateReport(k) /\ ~WriteReport(k)
            <4>1. UNCHANGED report
                BY <1>3, <3>3 DEF Lowering, LoadInputs, TruncateFlat, WriteFlat, OmitCalyx,
                   ClearCalyx, Convert, ReadOutput, Reparse, Attest, Discard, MakeReport,
                   KillLowering
            <4>2. ReportInv(report)
                BY DEF BackendInv
            <4>3. \A rep : ReportInv(rep) => ReportInv(rep)'
                BY <1>0, <1>3, DoneStays
            <4> QED
                BY <4>1, <4>2, <4>3 DEF ReportInv, Is
        <3> QED
            BY <3>1, <3>2, <3>3
    <2>3. ProbeInv'
        <3>1. UNCHANGED probe
            BY <1>0, <1>3, LoweringFrame
        <3>2. ASSUME probe.pc \in {"calyx", "accepted"}
              PROVE  ReportInv(probe.report)'
            <4> DEFINE rep == probe.report
            <4>1. ReportInv(rep)
                BY <3>2 DEF BackendInv, ProbeInv
            <4>2. \A r : ReportInv(r) => ReportInv(r)'
                BY <1>0, <1>3, DoneStays
            <4> QED
                BY <3>1, <4>1, <4>2 DEF ReportInv, Is
        <3> QED
            BY <3>1, <3>2 DEF BackendInv, ProbeInv, ReportInv, Is
    <2> QED
        BY <1>0, <2>1, <2>2, <2>3 DEF BackendInv
<1> QED
    BY <1>1, <1>2, <1>3 DEF BackendNext

LEMMA BackendInvSuffices == BackendInv => ReportIsOfItsConversion
<1> SUFFICES ASSUME BackendInv PROVE ReportIsOfItsConversion
    OBVIOUS
<1>1. ASSUME NEW rep, rep.state = "whole", ReportInv(rep) PROVE Earned(rep)
    <2> SUFFICES ASSUME rep.calyx # "none", rep # PinnedReport
                 PROVE  /\ rep.by \in Lowerings
                        /\ lowerings[rep.by].reparsed = rep.calyx \/ Overtaken(rep.by)
        BY DEF Earned
    <2>1. rep.by \in Lowerings /\ Is(rep.by, "done") /\ rep.calyx = lowerings[rep.by].text
        BY <1>1 DEF ReportInv
    <2>2. TextInv(rep.by)
        BY <2>1 DEF BackendInv
    <2> QED
        BY <2>1, <2>2 DEF TextInv, Is
<1>2. Earned(report)
    BY <1>1 DEF BackendInv, Earned
<1>3. ASSUME probe.pc = "accepted"
      PROVE  /\ probe.calyx.text = probe.report.calyx
             /\ Valid(probe.calyx)
             /\ Earned(probe.report)
    <2>1. /\ probe.report.state = "whole"
          /\ ReportInv(probe.report)
          /\ probe.calyx # NoFile
          /\ probe.calyx.text = probe.report.calyx
        BY <1>3 DEF BackendInv, ProbeInv
    <2>2. probe.calyx \in CalyxFiles /\ probe.report \in Reports
        BY <2>1, BackendTypes DEF BackendInv
    <2>3. /\ probe.calyx.text \in ValidTexts \cup {"invalid"}
          /\ probe.calyx.text \in ValidTexts \cup {"none"}
        BY <2>1, <2>2 DEF CalyxFiles, Reports, Texts
    <2> QED
        BY <1>1, <2>1, <2>3, NoneIsNoText DEF Valid
<1> QED
    BY <1>2, <1>3 DEF ReportIsOfItsConversion

(* However many lowerings overlap, fail or die, a report on disk names     *)
(* only a Calyx text that its own invocation reparsed, unless two others   *)
(* replaced the file in turn; and a probe that accepts holds the text its  *)
(* report names.                                                           *)
THEOREM ReportsStayEarned == BackendSpec => []ReportIsOfItsConversion
BY BackendInitInv, BackendKeepsInv, BackendInvSuffices, PTL DEF BackendSpec

-----------------------------------------------------------------------------
(***************************************************************************)
(* The matrix.  No two rows have the same place to write to, so what a row *)
(* found there stays.                                                      *)
(***************************************************************************)

PlacesTried == Len(Tried) * Len(PrimitiveRoutes)
Names == [scope : {"primitive", "full-rc"}, subject : Range(Tried) \cup {"model"},
          route : Range(PrimitiveRoutes) \cup Range(FullRoutes)]

LEMMA Beyond ==
  ASSUME NEW p \in Nat, NEW i \in 1 .. p + 8, ~(i <= p)
  PROVE  \E k \in 1 .. 8 : i = p + k
  <1>1. i - p \in 1 .. 8 /\ i = p + (i - p)
    OBVIOUS
  <1>2. QED
    BY <1>1

LEMMA RoutesAre ==
  /\ PrimitiveRoutes \in Seq(Range(PrimitiveRoutes))
  /\ Len(PrimitiveRoutes) \in Nat \ {0}
  /\ PrimitiveRoutes[1] = Direct
  /\ \A i, j \in 1 .. Len(PrimitiveRoutes) : PrimitiveRoutes[i] = PrimitiveRoutes[j] => i = j
  <1> DEFINE R == Range(Transforms) \cup {Direct}
  <1>1. Transforms \in Seq(R) /\ <<Direct>> \in Seq(R)
    BY MatrixAssumption
  <1>2. /\ PrimitiveRoutes \in Seq(R)
        /\ Len(PrimitiveRoutes) = Len(Transforms) + 1
        /\ PrimitiveRoutes[1] = Direct
        /\ \A k \in 2 .. Len(PrimitiveRoutes) : PrimitiveRoutes[k] = Transforms[k - 1]
    <2> HIDE DEF R
    <2>1. QED
      BY <1>1 DEF PrimitiveRoutes
  <1>3. Len(Transforms) \in Nat /\ DOMAIN Transforms = 1 .. Len(Transforms)
    BY MatrixAssumption
  <1>4. ASSUME NEW i \in 1 .. Len(PrimitiveRoutes), NEW j \in 1 .. Len(PrimitiveRoutes),
               PrimitiveRoutes[i] = PrimitiveRoutes[j]
        PROVE  i = j
    <2>1. \A k \in 2 .. Len(PrimitiveRoutes) :
            PrimitiveRoutes[k] \in Range(Transforms) /\ k - 1 \in DOMAIN Transforms
      BY <1>2, <1>3 DEF Range
    <2>2. CASE i = 1 \/ j = 1
      BY <2>1, <2>2, <1>2, <1>3, <1>4, MatrixAssumption
    <2>3. CASE i # 1 /\ j # 1
      <3>1. Transforms[i - 1] = Transforms[j - 1] /\ i - 1 \in DOMAIN Transforms /\ j - 1 \in DOMAIN Transforms
        BY <2>1, <2>3, <1>2, <1>3, <1>4
      <3>2. i - 1 = j - 1
        BY <3>1, MatrixAssumption DEF IsInjective
      <3>3. QED
        BY <3>2
    <2>4. QED
      BY <2>2, <2>3
  <1>5. PrimitiveRoutes \in Seq(Range(PrimitiveRoutes))
    BY <1>2 DEF Range
  <1>6. QED
    BY <1>2, <1>3, <1>4, <1>5

LEMMA PrimitiveRowsAre ==
  /\ PlacesTried \in Nat /\ Len(Tried) \in Nat
  /\ PrimitiveRows \in Seq(Names) /\ Len(PrimitiveRows) = PlacesTried
  /\ \A n \in 1 .. PlacesTried :
       PrimitiveRows[n].scope = "primitive" /\ PrimitiveRows[n].subject \in Range(Tried)
  /\ \A i, j \in 1 .. PlacesTried : PrimitiveRows[i] = PrimitiveRows[j] => i = j
  /\ \A k \in 1 .. Len(Tried) : \E n \in 1 .. PlacesTried : PrimitiveRows[n].subject = Tried[k]
  <1> DEFINE W == Len(PrimitiveRoutes)
  <1>0. W \in Nat \ {0} /\ Len(Tried) \in Nat /\ DOMAIN Tried = 1 .. Len(Tried)
    BY RoutesAre, MatrixAssumption
  <1>13. /\ \A i \in 1 .. W : PrimitiveRoutes[i] \in Range(PrimitiveRoutes)
         /\ \A i, j \in 1 .. W : PrimitiveRoutes[i] = PrimitiveRoutes[j] => i = j
    BY RoutesAre
  <1>14. /\ \A i \in 1 .. Len(Tried) : Tried[i] \in Range(Tried)
         /\ \A i, j \in 1 .. Len(Tried) : Tried[i] = Tried[j] => i = j
    <2>1. \A i \in 1 .. Len(Tried) : Tried[i] \in Range(Tried)
      BY <1>0, MatrixAssumption
    <2>2. \A i, j \in 1 .. Len(Tried) : Tried[i] = Tried[j] => i = j
      BY <1>0, MatrixAssumption DEF IsInjective
    <2>3. QED
      BY <2>1, <2>2
  <1> HIDE DEF W
  <1>1. PlacesTried = Len(Tried) * W /\ PlacesTried \in Nat
    BY <1>0 DEF PlacesTried, W
  <1>11. PICK q : q = [n \in 1 .. PlacesTried |-> (n - 1) \div W]
    OBVIOUS
  <1>12. PICK m : m = [n \in 1 .. PlacesTried |-> (n - 1) % W]
    OBVIOUS
  <1>2. ASSUME NEW n \in 1 .. PlacesTried
        PROVE  /\ n - 1 = (W * q[n]) + m[n]
               /\ q[n] \in 0 .. Len(Tried) - 1 /\ m[n] \in 0 .. W - 1
    <2>1. n - 1 \in Nat
      BY <1>1
    <2>2. q[n] \in Nat /\ m[n] \in 0 .. W - 1 /\ n - 1 = (W * q[n]) + m[n]
      <3>1. q[n] = (n - 1) \div W /\ m[n] = (n - 1) % W
        BY <1>11, <1>12
      <3>2. PICK r \in Nat : r = n - 1
        BY <2>1
      <3>3. QED
        BY <3>1, <3>2, <1>0, Quotients
    <2>3. q[n] < Len(Tried)
      <3>1. PICK a, b : a = q[n] /\ b = m[n]
        OBVIOUS
      <3>2. (W * a) + b < Len(Tried) * W
        BY <3>1, <2>2, <1>1
      <3>3. QED
        BY <3>1, <3>2, <2>2, <1>0, QuotientIsBelow
    <2>4. QED
      BY <2>2, <2>3, <1>0
  <1>3. ASSUME NEW n \in 1 .. PlacesTried
        PROVE  /\ PrimitiveRows[n] = PrimitiveRow(Tried[q[n] + 1], PrimitiveRoutes[m[n] + 1])
               /\ q[n] + 1 \in 1 .. Len(Tried) /\ m[n] + 1 \in 1 .. W
    <2>1. PrimitiveRows[n] = PrimitiveRow(Tried[q[n] + 1], PrimitiveRoutes[m[n] + 1])
      BY <1>11, <1>12 DEF PrimitiveRows, PlacesTried, W
    <2>2. q[n] + 1 \in 1 .. Len(Tried) /\ m[n] + 1 \in 1 .. W
      <3>1. PICK p, a, b : p = Len(Tried) /\ a = q[n] /\ b = m[n]
        OBVIOUS
      <3>2. p \in Nat /\ a \in 0 .. p - 1 /\ b \in 0 .. W - 1
        BY <1>0, <1>2, <3>1
      <3>3. a + 1 \in 1 .. p /\ b + 1 \in 1 .. W
        BY <3>2, <1>0
      <3>4. QED
        BY <3>1, <3>3
    <2>3. QED
      BY <2>1, <2>2
  <1>4. ASSUME NEW n \in 1 .. PlacesTried PROVE PrimitiveRows[n] \in Names
    <2>1. Tried[q[n] + 1] \in Range(Tried)
      BY <1>3, <1>14
    <2>2. PrimitiveRoutes[m[n] + 1] \in Range(PrimitiveRoutes)
      BY <1>3, <1>13
    <2>3. PICK p, route : p = Tried[q[n] + 1] /\ route = PrimitiveRoutes[m[n] + 1]
      OBVIOUS
    <2>4. PrimitiveRows[n] = [scope |-> "primitive", subject |-> p, route |-> route]
      BY <1>3, <2>3 DEF PrimitiveRow
    <2>5. QED
      BY <2>1, <2>2, <2>3, <2>4 DEF Names
  <1>5. PrimitiveRows = [n \in 1 .. PlacesTried |-> PrimitiveRows[n]]
    BY DEF PrimitiveRows, PlacesTried
  <1>6. PrimitiveRows \in Seq(Names) /\ Len(PrimitiveRows) = PlacesTried
    <2>1. PrimitiveRows \in [1 .. PlacesTried -> Names]
      BY <1>4, <1>5
    <2>2. QED
      BY <2>1, <1>1
  <1>7. ASSUME NEW i \in 1 .. PlacesTried, NEW j \in 1 .. PlacesTried,
               PrimitiveRows[i] = PrimitiveRows[j]
        PROVE  i = j
    <2>0. PICK a, b, c, d : a = q[i] + 1 /\ b = q[j] + 1 /\ c = m[i] + 1 /\ d = m[j] + 1
      OBVIOUS
    <2>1. /\ a \in 1 .. Len(Tried) /\ b \in 1 .. Len(Tried) /\ c \in 1 .. W /\ d \in 1 .. W
          /\ PrimitiveRows[i] = PrimitiveRow(Tried[a], PrimitiveRoutes[c])
          /\ PrimitiveRows[j] = PrimitiveRow(Tried[b], PrimitiveRoutes[d])
      BY <1>3, <2>0
    <2>2. Tried[a] = Tried[b] /\ PrimitiveRoutes[c] = PrimitiveRoutes[d]
      BY <2>1, <1>7 DEF PrimitiveRow
    <2>3. a = b /\ c = d
      <3>1. a = b
        BY <2>1, <2>2, <1>14, Zenon
      <3>2. c = d
        BY <2>1, <2>2, <1>13, Zenon
      <3>3. QED
        BY <3>1, <3>2
    <2>4. q[i] = q[j] /\ m[i] = m[j]
      <3>1. q[i] \in Int /\ q[j] \in Int /\ m[i] \in Int /\ m[j] \in Int
        BY <1>2
      <3>2. QED
        BY <3>1, <2>0, <2>3
    <2>5. i - 1 = j - 1
      BY <2>4, <1>2, Zenon
    <2>6. QED
      BY <2>5, <1>1
  <1>8. ASSUME NEW k \in 1 .. Len(Tried)
        PROVE  \E n \in 1 .. PlacesTried : PrimitiveRows[n].subject = Tried[k]
    <2> DEFINE n == (W * (k - 1)) + 1
    <2>1. n \in 1 .. PlacesTried
      <3>1. W * (k - 1) >= 0 /\ W * (k - 1) \in Int
        <4>1. PICK c \in Nat : c = k - 1
          BY k - 1 \in Nat
        <4>2. W * c \in Nat
          BY <1>0
        <4>3. QED
          BY <4>1, <4>2
      <3>2. PICK p \in Nat : p = Len(Tried)
        BY <1>0
      <3>3. k \in 1 .. p /\ p - k \in Nat
        BY <3>2
      <3>4. PICK e \in Nat : e = p - k
        BY <3>3
      <3>5. p * W = (W * (k - 1)) + W + (W * e) /\ W * e \in Nat
        BY <1>0, <3>3, <3>4
      <3>6. QED
        BY <3>1, <3>2, <3>5, <1>0, <1>1
    <2> HIDE DEF n
    <2>2. n - 1 = W * (k - 1) /\ n - 1 = (W * q[n]) + m[n] /\ m[n] \in 0 .. W - 1 /\ q[n] \in Nat
      BY <2>1, <1>2, <1>0 DEF n
    <2>3. q[n] = k - 1
      <3>1. PICK a \in Nat, b \in 0 .. W - 1, c \in Nat : a = q[n] /\ b = m[n] /\ c = k - 1
        BY <2>2, k - 1 \in Nat
      <3>2. (W * a) + b = W * c
        BY <3>1, <2>2
      <3>3. ~(a < c)
        <4>1. SUFFICES ASSUME a < c PROVE FALSE
          OBVIOUS
        <4>2. PICK e \in Nat : c = a + 1 + e
          BY <4>1, c - a - 1 \in Nat
        <4>3. W * c = (W * a) + W + (W * e) /\ W * e \in Nat
          BY <4>2, <1>0
        <4>4. QED
          BY <4>3, <3>2, <1>0
      <3>4. ~(c < a)
        <4>1. SUFFICES ASSUME c < a PROVE FALSE
          OBVIOUS
        <4>2. PICK e \in Nat : a = c + 1 + e
          BY <4>1, a - c - 1 \in Nat
        <4>3. W * a = (W * c) + W + (W * e) /\ W * e \in Nat
          BY <4>2, <1>0
        <4>4. QED
          BY <4>3, <3>2, <1>0
      <3>5. QED
        BY <3>1, <3>3, <3>4
    <2>4. PrimitiveRows[n].subject = Tried[k]
      <3>1. PICK a : a = q[n] + 1
        OBVIOUS
      <3>2. a = k
        BY <3>1, <2>3, <1>0
      <3>3. PrimitiveRows[n] = PrimitiveRow(Tried[k], PrimitiveRoutes[m[n] + 1])
        BY <2>1, <1>3, <3>1, <3>2
      <3>4. QED
        BY <3>3 DEF PrimitiveRow
    <2>5. QED
      BY <2>1, <2>4
  <1>9. \A n \in 1 .. PlacesTried :
          PrimitiveRows[n].scope = "primitive" /\ PrimitiveRows[n].subject \in Range(Tried)
    <2>1. SUFFICES ASSUME NEW n \in 1 .. PlacesTried 
                   PROVE  /\ PrimitiveRows[n].scope = "primitive"
                          /\ PrimitiveRows[n].subject \in Range(Tried)
      OBVIOUS
    <2>2. PICK p, route : p = Tried[q[n] + 1] /\ route = PrimitiveRoutes[m[n] + 1]
      OBVIOUS
    <2>3. PrimitiveRows[n] = [scope |-> "primitive", subject |-> p, route |-> route]
      BY <1>3, <2>2 DEF PrimitiveRow
    <2>4. QED
      BY <2>2, <2>3, <1>3, <1>14
  <1>10. QED
    BY <1>0, <1>1, <1>6, <1>7, <1>8, <1>9
LEMMA PlanIs ==
  /\ Plan \in Seq(Names) /\ Len(Plan) = PlacesTried + 8 /\ DOMAIN Plan = 1 .. PlacesTried + 8
  /\ PlacesTried \in Nat
  /\ \A n \in 1 .. PlacesTried : Plan[n] = PrimitiveRows[n] /\ Plan[n].scope = "primitive"
  /\ \A n \in 1 .. 8 :
       Plan[PlacesTried + n] = [scope |-> "full-rc", subject |-> "model", route |-> FullRoutes[n]]
  /\ \A i, j \in 1 .. Len(Plan) : Plan[i] = Plan[j] => i = j
  /\ Outputs = {Plan[n] : n \in 1 .. Len(Plan)} /\ Outputs \subseteq Names
  <1>1. /\ PlacesTried \in Nat /\ PrimitiveRows \in Seq(Names) /\ Len(PrimitiveRows) = PlacesTried
        /\ \A n \in 1 .. PlacesTried : PrimitiveRows[n].scope = "primitive"
        /\ \A i, j \in 1 .. PlacesTried : PrimitiveRows[i] = PrimitiveRows[j] => i = j
    BY PrimitiveRowsAre
  <1>2. Len(FullRoutes) = 8 /\ DOMAIN FullRoutes = 1 .. 8
    BY DEF FullRoutes
  <1>3. FullRows \in Seq(Names) /\ Len(FullRows) = 8
    <2>1. FullRows = [n \in 1 .. 8 |-> [scope |-> "full-rc", subject |-> "model",
                                       route |-> FullRoutes[n]]]
      BY <1>2 DEF FullRows
    <2>2. \A n \in 1 .. 8 : FullRoutes[n] \in Range(FullRoutes)
      BY <1>2 DEF Range
    <2>3. FullRows \in [1 .. 8 -> Names]
      BY <2>1, <2>2 DEF Names
    <2>4. PICK b : b = FullRows
      OBVIOUS
    <2>5. b \in Seq(Names) /\ Len(b) = 8
      BY <2>3, <2>4, 8 \in Nat
    <2>6. QED
      BY <2>4, <2>5
  <1>4. /\ Plan \in Seq(Names) /\ Len(Plan) = PlacesTried + 8
        /\ \A n \in 1 .. PlacesTried : Plan[n] = PrimitiveRows[n]
        /\ \A n \in 1 .. 8 : Plan[PlacesTried + n] = FullRows[n]
    <2>1. PICK a, b : a = PrimitiveRows /\ b = FullRows
      OBVIOUS
    <2>2. /\ a \in Seq(Names) /\ Len(a) = PlacesTried /\ b \in Seq(Names) /\ Len(b) = 8
          /\ Plan = a \o b
      BY <1>1, <1>3, <2>1 DEF Plan
    <2>3. /\ Plan \in Seq(Names) /\ Len(Plan) = PlacesTried + 8
          /\ \A n \in 1 .. PlacesTried : Plan[n] = a[n]
          /\ \A n \in 1 .. 8 : Plan[PlacesTried + n] = b[n]
      <3>1. PICK c : c = a \o b
        OBVIOUS
      <3>2. /\ c \in Seq(Names) /\ Len(c) = PlacesTried + 8
            /\ \A n \in 1 .. PlacesTried + 8 :
                 c[n] = IF n <= PlacesTried THEN a[n] ELSE b[n - PlacesTried]
        <4>1. /\ a \o b \in Seq(Names) /\ Len(a \o b) = Len(a) + Len(b)
              /\ \A n \in 1 .. Len(a) + Len(b) :
                   (a \o b)[n] = IF n <= Len(a) THEN a[n] ELSE b[n - Len(a)]
          BY <2>2, ConcatProperties, Zenon
        <4>2. QED
          BY <4>1, <2>2, <3>1, Zenon
      <3>3. ASSUME NEW n \in 1 .. 8 PROVE c[PlacesTried + n] = b[n]
        <4>1. /\ PlacesTried + n \in 1 .. PlacesTried + 8 /\ ~(PlacesTried + n <= PlacesTried)
              /\ (PlacesTried + n) - PlacesTried = n
          BY <1>1
        <4>2. QED
          BY <3>2, <4>1
      <3>4. ASSUME NEW n \in 1 .. PlacesTried PROVE c[n] = a[n]
        BY <3>2, <1>1
      <3>5. Plan = c
        BY <2>2, <3>1
      <3>6. QED
        BY <3>2, <3>3, <3>4, <3>5
    <2>4. QED
      BY <2>1, <2>3
  <1>5. ASSUME NEW n \in 1 .. 8
        PROVE  Plan[PlacesTried + n]
                 = [scope |-> "full-rc", subject |-> "model", route |-> FullRoutes[n]]
    BY <1>2, <1>4 DEF FullRows
  <1>6. ASSUME NEW i \in 1 .. PlacesTried + 8, NEW j \in 1 .. PlacesTried + 8, Plan[i] = Plan[j]
        PROVE  i = j
    <2>1. CASE i <= PlacesTried /\ j <= PlacesTried
      <3>1. i \in 1 .. PlacesTried /\ j \in 1 .. PlacesTried
        BY <2>1, <1>1
      <3>2. PrimitiveRows[i] = PrimitiveRows[j]
        BY <3>1, <1>4, <1>6
      <3>3. QED
        BY <3>1, <3>2, <1>1
    <2>2. CASE i <= PlacesTried /\ j > PlacesTried
      <3>1. PICK k \in 1 .. 8 : j = PlacesTried + k
        BY <2>2, <1>1, ~(j <= PlacesTried), Beyond
      <3>2. Plan[i].scope = "primitive" /\ Plan[j].scope = "full-rc"
        <4>1. i \in 1 .. PlacesTried
          BY <2>2, <1>1
        <4>2. Plan[i].scope = "primitive"
          BY <4>1, <1>1, <1>4
        <4>3. Plan[j].scope = "full-rc"
          BY <3>1, <1>5
        <4>4. QED
          BY <4>2, <4>3
      <3>3. QED
        BY <3>2, <1>6
    <2>3. CASE i > PlacesTried /\ j <= PlacesTried
      <3>1. PICK k \in 1 .. 8 : i = PlacesTried + k
        BY <2>3, <1>1, ~(i <= PlacesTried), Beyond
      <3>2. Plan[j].scope = "primitive" /\ Plan[i].scope = "full-rc"
        <4>1. j \in 1 .. PlacesTried
          BY <2>3, <1>1
        <4>2. Plan[j].scope = "primitive"
          BY <4>1, <1>1, <1>4
        <4>3. Plan[i].scope = "full-rc"
          BY <3>1, <1>5
        <4>4. QED
          BY <4>2, <4>3
      <3>3. QED
        BY <3>2, <1>6
    <2>4. CASE i > PlacesTried /\ j > PlacesTried
      <3>1. PICK k \in 1 .. 8 : i = PlacesTried + k
        BY <2>4, <1>1, ~(i <= PlacesTried), Beyond
      <3>2. PICK l \in 1 .. 8 : j = PlacesTried + l
        BY <2>4, <1>1, ~(j <= PlacesTried), Beyond
      <3>3. FullRoutes[k] = FullRoutes[l]
        BY <3>1, <3>2, <1>5, <1>6
      <3>4. k = l
        BY <3>3 DEF FullRoutes
      <3>5. QED
        BY <3>1, <3>2, <3>4
    <2>5. QED
      BY <2>1, <2>2, <2>3, <2>4, <1>1
  <1>7. DOMAIN Plan = 1 .. Len(Plan) /\ \A n \in 1 .. Len(Plan) : Plan[n] \in Names
    BY <1>4
  <1>8. Outputs = {Plan[n] : n \in 1 .. Len(Plan)} /\ Outputs \subseteq Names
    BY <1>7 DEF Outputs, Range
  <1>9. \A n \in 1 .. PlacesTried : Plan[n].scope = "primitive"
    BY <1>1, <1>4
  <1>10. QED
    BY <1>1, <1>4, <1>5, <1>6, <1>7, <1>8, <1>9

(* The route a route reads comes before it.                                *)
LEMMA PredecessorIsEarlier ==
  ASSUME NEW n \in 1 .. Len(Plan), Plan[n].scope = "full-rc", Plan[n].route \in DOMAIN Before
  PROVE  \E m \in 1 .. n - 1 : Plan[m] = Predecessor(Plan[n])
  <1>1. PICK k \in 1 .. 8 : n = PlacesTried + k
    <2>1. ~(n \in 1 .. PlacesTried)
      BY PlanIs
    <2>2. n - PlacesTried \in 1 .. 8
      BY <2>1, PlanIs
    <2>3. QED
      BY <2>2, PlanIs
  <1>2. Plan[n] = [scope |-> "full-rc", subject |-> "model", route |-> FullRoutes[k]]
    BY <1>1, PlanIs
  <1>3. PICK j \in 1 .. k - 1 : Before[FullRoutes[k]] = FullRoutes[j]
    <2>1. FullRoutes[k] \in DOMAIN Before
      BY <1>2
    <2>2. DOMAIN Before = {"validate-raw", "zero-point", "tosa-to-linalg", "linalg-to-scf",
                           "scf-to-flat", "flat-to-circt"}
      BY DEF Before
    <2>3. /\ Before["validate-raw"] = "torch-to-tosa" /\ Before["zero-point"] = "torch-to-tosa"
          /\ Before["tosa-to-linalg"] = "zero-point" /\ Before["linalg-to-scf"] = "tosa-to-linalg"
          /\ Before["scf-to-flat"] = "linalg-to-scf" /\ Before["flat-to-circt"] = "scf-to-flat"
      BY DEF Before
    <2>4. QED
      BY <2>1, <2>2, <2>3 DEF FullRoutes
  <1>4. Plan[PlacesTried + j] = Predecessor(Plan[n])
    <2>1. Plan[PlacesTried + j] = [scope |-> "full-rc", subject |-> "model", route |-> FullRoutes[j]]
      <3>1. j \in 1 .. 8
        OBVIOUS
      <3>2. QED
        BY <3>1, PlanIs
    <2>2. QED
      BY <2>1, <1>2, <1>3 DEF Predecessor
  <1>5. PlacesTried + j \in 1 .. n - 1
    <2>1. PlacesTried \in Nat
      BY PlanIs
    <2>2. j \in Nat /\ 1 <= j /\ j <= k - 1 /\ k \in Nat
      OBVIOUS
    <2>3. QED
      BY <2>1, <2>2, <1>1
  <1>6. QED
    BY <1>4, <1>5
-----------------------------------------------------------------------------
(* The matrix so far, and the outputs that are there.                      *)

AttemptStatuses == {"accepted", "rejected", "skipped", "not-run"}
MatrixRows == [id : Outputs, attempt : AttemptStatuses, calyx : AttemptStatuses, input : Outputs \cup Sources,
               census : Outputs \cup Sources, semantics : {"undetermined"},
               comparison : {"not-run"}]

MatrixTypes ==
  /\ rows \in Seq(MatrixRows) /\ Len(rows) <= Len(Plan)
  /\ files \in [Outputs -> {"none", "junk", "good"}]

(* What a row says of the files, and of the rows before it.                *)
Founded(n) ==
  /\ rows[n].id = Plan[n]
  /\ rows[n].census \in Sources \/ files[rows[n].census] # "none"
  /\ rows[n].attempt = "accepted" =>
       /\ files[Plan[n]] = "good"
       /\ Plan[n].scope = "full-rc" /\ Plan[n].route \in DOMAIN Before =>
            \E m \in 1 .. n - 1 : Plan[m] = Predecessor(Plan[n]) /\ rows[m].attempt = "accepted"
  /\ rows[n].calyx = "accepted" => rows[n].attempt = "accepted"

Unwritten == \A n \in Len(rows) + 1 .. Len(Plan) : files[Plan[n]] = "none"

MatrixInv ==
  /\ MatrixTypes
  /\ \A n \in 1 .. Len(rows) : Founded(n)
  /\ Unwritten
  /\ conclusion # NoConclusion => Len(rows) = Len(Plan) /\ conclusion = FirstRemaining

LEMMA MatrixInitInv == MatrixInit => MatrixInv
  <1>1. SUFFICES ASSUME MatrixInit PROVE MatrixInv
    OBVIOUS
  <1>2. rows = <<>> /\ Len(rows) = 0 /\ conclusion = NoConclusion
    BY <1>1 DEF MatrixInit
  <1>3. files \in [Outputs -> {"none", "junk", "good"}] /\ \A f \in Outputs : files[f] = "none"
    BY <1>1 DEF MatrixInit
  <1>4. Len(Plan) \in Nat /\ \A n \in 1 .. Len(Plan) : Plan[n] \in Outputs
    BY PlanIs
  <1>5. MatrixTypes
    BY <1>2, <1>3, <1>4 DEF MatrixTypes
  <1>6. Unwritten
    BY <1>2, <1>3, <1>4 DEF Unwritten
  <1>7. QED
    BY <1>2, <1>5, <1>6 DEF MatrixInv

(* The row that comes next.                                                *)
LEMMA PendingIs ==
  ASSUME MatrixInv, Len(rows) < Len(Plan)
  PROVE  /\ Pending \in Outputs /\ Len(rows) + 1 \in 1 .. Len(Plan)
         /\ Pending.scope = "primitive" => Pending.subject \in Range(Tried)
         /\ Pending.scope = "full-rc" => /\ Pending.subject = "model"
                                         /\ Pending.route \in Range(FullRoutes)
  <1>1. Len(rows) + 1 \in 1 .. Len(Plan)
    BY PlanIs DEF MatrixInv, MatrixTypes
  <1>2. Pending = Plan[Len(rows) + 1] /\ Pending \in Outputs
    BY <1>1, PlanIs DEF Pending
  <1>3. CASE Len(rows) + 1 \in 1 .. PlacesTried
    BY <1>1, <1>2, <1>3, PlanIs, PrimitiveRowsAre
  <1>4. CASE Len(rows) + 1 \notin 1 .. PlacesTried
    <2>1. PICK k \in 1 .. 8 : Len(rows) + 1 = PlacesTried + k
      <3>1. PICK l \in Nat : l = Len(rows) + 1
        BY <1>1
      <3>2. l \in 1 .. PlacesTried + 8 /\ ~(l <= PlacesTried) /\ PlacesTried \in Nat
        BY <3>1, <1>1, <1>4, PlanIs
      <3>3. QED
        BY <3>1, <3>2, Beyond
    <2>2. Pending = [scope |-> "full-rc", subject |-> "model", route |-> FullRoutes[k]]
      BY <2>1, <1>2, PlanIs
    <2>3. FullRoutes[k] \in Range(FullRoutes)
      BY DEF FullRoutes, Range
    <2>4. QED
      BY <1>1, <1>2, <2>2, <2>3
  <1>5. QED
    BY <1>3, <1>4

(* A row that is added leaves the earlier ones as they are: the output it  *)
(* may write was not there before.                                         *)
LEMMA AddKeepsMatrix ==
  ASSUME MatrixInv, Len(rows) < Len(Plan), UNCHANGED conclusion,
         NEW row \in MatrixRows, Add(row), row.id = Pending,
         NEW left \in {"none", "junk", "good"}, files' = [files EXCEPT ![Pending] = left],
         row.census \in Sources \/ files'[row.census] # "none",
         row.calyx = "accepted" => row.attempt = "accepted",
         row.attempt = "accepted" =>
           /\ left = "good"
           /\ Pending.scope = "full-rc" /\ Pending.route \in DOMAIN Before =>
                \E m \in 1 .. Len(rows) : Plan[m] = Predecessor(Pending)
                                          /\ rows[m].attempt = "accepted"
  PROVE  MatrixInv'
  <1> DEFINE L == Len(rows)
  <1>1. /\ rows \in Seq(MatrixRows) /\ L \in Nat /\ L < Len(Plan) /\ Len(Plan) \in Nat
        /\ files \in [Outputs -> {"none", "junk", "good"}]
        /\ rows' = Append(rows, row) /\ Pending = Plan[L + 1]
    BY PlanIs DEF MatrixInv, MatrixTypes, Add, Pending
  <1>2. /\ rows' \in Seq(MatrixRows) /\ Len(rows') = L + 1 /\ rows'[L + 1] = row
        /\ \A n \in 1 .. L : rows'[n] = rows[n]
    BY <1>1
  <1>3. Pending \in Outputs /\ \A n \in 1 .. Len(Plan) : Plan[n] \in Outputs
    BY PendingIs, PlanIs
  <1>4. files' \in [Outputs -> {"none", "junk", "good"}] /\ files'[Pending] = left
        /\ \A f \in Outputs : f # Pending => files'[f] = files[f]
    BY <1>1, <1>3
  <1>5. \A n \in 1 .. Len(Plan) : n # L + 1 => Plan[n] # Pending
    <2>1. L + 1 \in 1 .. Len(Plan)
      BY <1>1
    <2>2. \A i, j \in 1 .. Len(Plan) : Plan[i] = Plan[j] => i = j
      BY PlanIs
    <2>3. QED
      BY <1>1, <2>1, <2>2, Zenon
  <1>6. files[Pending] = "none"
    BY <1>1 DEF MatrixInv, Unwritten
  <1>7. MatrixTypes'
    <2>1. Plan' = Plan /\ Outputs' = Outputs /\ MatrixRows' = MatrixRows
      BY DEF Plan, Outputs, MatrixRows
    <2>2. QED
      BY <1>1, <1>2, <1>4, <2>1 DEF MatrixTypes
  <1>8. ASSUME NEW n \in 1 .. L + 1 PROVE Founded(n)'
    <2>1. CASE n = L + 1
      <3>1. /\ row.id = Plan[n]
            /\ row.census \in Sources \/ files'[row.census] # "none"
            /\ row.calyx = "accepted" => row.attempt = "accepted"
        BY <2>1, <1>1
      <3>2. ASSUME row.attempt = "accepted"
            PROVE  /\ files'[Plan[n]] = "good"
                   /\ Plan[n].scope = "full-rc" /\ Plan[n].route \in DOMAIN Before =>
                        \E m \in 1 .. n - 1 : /\ Plan[m] = Predecessor(Plan[n])
                                              /\ rows'[m].attempt = "accepted"
        <4>1. files'[Plan[n]] = "good"
          BY <3>2, <2>1, <1>1, <1>4
        <4>2. ASSUME Plan[n].scope = "full-rc", Plan[n].route \in DOMAIN Before
              PROVE  \E m \in 1 .. n - 1 : /\ Plan[m] = Predecessor(Plan[n])
                                           /\ rows'[m].attempt = "accepted"
          <5>1. PICK m \in 1 .. L : Plan[m] = Predecessor(Plan[n]) /\ rows[m].attempt = "accepted"
            BY <4>2, <3>2, <2>1, <1>1
          <5>2. m \in 1 .. n - 1 /\ rows'[m] = rows[m]
            BY <2>1, <1>1, <1>2
          <5>3. QED
            BY <5>1, <5>2
        <4>3. QED
          BY <4>1, <4>2
      <3>3. rows'[n] = row
        BY <2>1, <1>2
      <3>4. QED
        BY <3>1, <3>2, <3>3 DEF Founded
    <2>2. CASE n # L + 1
      <3>1. n \in 1 .. L /\ rows'[n] = rows[n] /\ rows[n] \in MatrixRows
        BY <2>2, <1>1, <1>2
      <3>2. Founded(n)
        BY <3>1 DEF MatrixInv
      <3>3. rows[n].census \in Sources \/ files'[rows[n].census] # "none"
        <4>1. SUFFICES ASSUME rows[n].census \notin Sources
                       PROVE  files'[rows[n].census] # "none"
          OBVIOUS
        <4>2. rows[n].census \in Outputs /\ files[rows[n].census] # "none"
          BY <4>1, <3>1, <3>2 DEF MatrixRows, Founded
        <4>3. QED
          BY <4>2, <1>4, <1>6
      <3>4. rows[n].attempt = "accepted" => files'[Plan[n]] = "good"
        <4>1. Plan[n] \in Outputs /\ Plan[n] # Pending
          BY <3>1, <1>1, <1>3, <1>5
        <4>2. QED
          BY <4>1, <3>2, <1>4 DEF Founded
      <3>5. \A m \in 1 .. n - 1 : rows'[m] = rows[m]
        BY <3>1, <1>1, <1>2
      <3>6. QED
        BY <3>1, <3>2, <3>3, <3>4, <3>5 DEF Founded
    <2>3. QED
      BY <2>1, <2>2
  <1>9. Unwritten'
    <2>1. ASSUME NEW n \in L + 2 .. Len(Plan) PROVE files'[Plan[n]] = "none"
      <3>1. n \in 1 .. Len(Plan) /\ n \in L + 1 .. Len(Plan) /\ n # L + 1
        BY <1>1
      <3>2. files[Plan[n]] = "none"
        BY <3>1 DEF MatrixInv, Unwritten
      <3>3. QED
        BY <3>1, <3>2, <1>3, <1>4, <1>5
    <2>2. \A n \in Len(rows') + 1 .. Len(Plan) : n \in L + 2 .. Len(Plan)
      BY <1>1, <1>2
    <2>3. QED
      BY <2>1, <2>2 DEF Unwritten
  <1>10. conclusion' = NoConclusion
    BY <1>1 DEF MatrixInv
  <1>11. QED
    BY <1>2, <1>7, <1>8, <1>9, <1>10 DEF MatrixInv, NoConclusion
LEMMA CommandLeaves ==
  ASSUME NEW c \in Commands
  PROVE  /\ Left(c) \in {"none", "junk", "good"}
         /\ Status(c) \in {"accepted", "rejected"}
         /\ Status(c) = "accepted" => Left(c) = "good"
  BY DEF Commands, Left, Status

LEMMA TryDirectKeeps == MatrixInv /\ TryDirect => MatrixInv'
  <1>1. SUFFICES ASSUME MatrixInv, TryDirect PROVE MatrixInv'
    OBVIOUS
  <1>2. PICK c \in Commands :
          /\ files' = [files EXCEPT ![Pending] = Left(c)]
          /\ Add(Row(Pending, Status(c), Status(c), Source(Pending.subject),
                     Source(Pending.subject)))
    BY <1>1 DEF TryDirect
  <1> DEFINE row == Row(Pending, Status(c), Status(c), Source(Pending.subject),
                        Source(Pending.subject))
  <1>3. Len(rows) < Len(Plan) /\ UNCHANGED conclusion /\ Pending.scope = "primitive"
    BY <1>1 DEF TryDirect
  <1>4. Pending \in Outputs /\ Pending.subject \in Range(Tried)
    BY <1>1, <1>3, PendingIs
  <1>5. Source(Pending.subject) \in Sources
    BY <1>4 DEF Sources
  <1>6. /\ row \in MatrixRows /\ row.id = Pending /\ row.census = Source(Pending.subject)
        /\ row.attempt = Status(c) /\ row.calyx = Status(c)
    BY <1>4, <1>5, CommandLeaves DEF MatrixRows, Row, AttemptStatuses
  <1> HIDE DEF row
  <1>7. QED
    BY <1>1, <1>2, <1>3, <1>5, <1>6, CommandLeaves, AddKeepsMatrix DEF row

LEMMA TryTransformKeeps == MatrixInv /\ TryTransform => MatrixInv'
  <1>1. SUFFICES ASSUME MatrixInv, TryTransform PROVE MatrixInv'
    OBVIOUS
  <1>2. PICK c \in Commands :
          /\ files' = [files EXCEPT ![Pending] = Left(c)]
          /\ \E ending \in IF Status(c) = "accepted" THEN {"accepted", "rejected"}
                          ELSE {"skipped"} :
               Add(Row(Pending, Status(c), ending, Source(Pending.subject), Pending))
    BY <1>1 DEF TryTransform
  <1>3. PICK ending \in IF Status(c) = "accepted" THEN {"accepted", "rejected"} ELSE {"skipped"} :
          Add(Row(Pending, Status(c), ending, Source(Pending.subject), Pending))
    BY <1>2
  <1> DEFINE row == Row(Pending, Status(c), ending, Source(Pending.subject), Pending)
  <1>4. Len(rows) < Len(Plan) /\ UNCHANGED conclusion /\ Pending.scope = "primitive"
    BY <1>1 DEF TryTransform
  <1>5. Pending \in Outputs /\ Pending.subject \in Range(Tried)
    BY <1>1, <1>4, PendingIs
  <1>6. Source(Pending.subject) \in Sources
    BY <1>5 DEF Sources
  <1>7. ending \in AttemptStatuses /\ (ending = "accepted" => Status(c) = "accepted")
    BY <1>3 DEF AttemptStatuses
  <1>8. /\ row \in MatrixRows /\ row.id = Pending /\ row.attempt = Status(c) /\ row.calyx = ending
        /\ row.census = IF Status(c) = "accepted" THEN Pending ELSE Source(Pending.subject)
    BY <1>5, <1>6, <1>7, CommandLeaves DEF MatrixRows, Row, AttemptStatuses
  <1> HIDE DEF row
  <1>9. files'[Pending] = Left(c)
    BY <1>1, <1>2, <1>5 DEF MatrixInv, MatrixTypes
  <1>10. row.census \in Sources \/ files'[row.census] # "none"
    BY <1>6, <1>8, <1>9, CommandLeaves
  <1>11. QED
    BY <1>1, <1>2, <1>3, <1>4, <1>7, <1>8, <1>10, CommandLeaves, AddKeepsMatrix DEF row

(* The row of an output is the one at its place.                           *)
LEMMA AttemptIs ==
  ASSUME MatrixInv, NEW m \in 1 .. Len(rows)
  PROVE  AttemptOf(Plan[m]) = rows[m].attempt
  <1>1. rows[m].id = Plan[m]
    BY DEF MatrixInv, Founded
  <1>2. \A n \in 1 .. Len(rows) : rows[n].id = Plan[m] => n = m
    <2>1. SUFFICES ASSUME NEW n \in 1 .. Len(rows), rows[n].id = Plan[m] PROVE n = m
      OBVIOUS
    <2>2. Plan[n] = Plan[m]
      BY <2>1 DEF MatrixInv, Founded
    <2>3. n \in 1 .. Len(Plan) /\ m \in 1 .. Len(Plan)
      <3>1. Len(rows) \in Nat /\ Len(Plan) \in Nat /\ Len(rows) <= Len(Plan)
        BY PlanIs DEF MatrixInv, MatrixTypes
      <3>2. QED
        BY <3>1
    <2>4. QED
      BY <2>2, <2>3, PlanIs
  <1>3. (CHOOSE n \in 1 .. Len(rows) : rows[n].id = Plan[m]) = m
    BY <1>1, <1>2
  <1>4. QED
    BY <1>3 DEF AttemptOf
LEMMA ReadsIs ==
  ASSUME MatrixInv, Len(rows) < Len(Plan), Pending.scope = "full-rc"
  PROVE  \/ Reads(Pending) \in Sources
         \/ /\ Reads(Pending) \in Outputs /\ Reads(Pending) # Pending
            /\ files[Reads(Pending)] # "none"
  <1>1. Len(rows) + 1 \in 1 .. Len(Plan) /\ Pending = Plan[Len(rows) + 1]
    BY PendingIs DEF Pending
  <1>2. CASE Pending.route \in DOMAIN Before /\ Exists(Predecessor(Pending))
    <2>1. PICK m \in 1 .. (Len(rows) + 1) - 1 : Plan[m] = Predecessor(Pending)
      BY <1>1, <1>2, PredecessorIsEarlier
    <2>2. m \in 1 .. Len(Plan) /\ m # Len(rows) + 1
      BY <1>1, <2>1
    <2>3. Plan[m] \in Outputs /\ Plan[m] # Pending
      BY <2>2, <1>1, PlanIs
    <2>4. Reads(Pending) = Plan[m]
      BY <1>2, <2>1 DEF Reads
    <2>5. QED
      BY <1>2, <2>1, <2>3, <2>4 DEF Exists
  <1>3. CASE ~(Pending.route \in DOMAIN Before /\ Exists(Predecessor(Pending)))
    BY <1>3 DEF Reads, Given, Sources
  <1>4. QED
    BY <1>2, <1>3

LEMMA PredecessorAttempt ==
  ASSUME MatrixInv, Len(rows) < Len(Plan), Pending.scope = "full-rc",
         Pending.route \in DOMAIN Before, AttemptOf(Predecessor(Pending)) = "accepted"
  PROVE  \E m \in 1 .. Len(rows) : Plan[m] = Predecessor(Pending) /\ rows[m].attempt = "accepted"
  <1>1. /\ Len(rows) + 1 \in 1 .. Len(Plan) /\ Pending = Plan[Len(rows) + 1]
        /\ Len(rows) \in Nat
    BY PendingIs DEF Pending, MatrixInv, MatrixTypes
  <1>2. PICK m \in 1 .. (Len(rows) + 1) - 1 : Plan[m] = Predecessor(Pending)
    BY <1>1, PredecessorIsEarlier
  <1>3. m \in 1 .. Len(rows)
    BY <1>1, <1>2
  <1>4. rows[m].attempt = "accepted"
    BY <1>2, <1>3, AttemptIs
  <1>5. QED
    BY <1>2, <1>3, <1>4

LEMMA TryFullKeeps == MatrixInv /\ TryFull => MatrixInv'
  <1>1. SUFFICES ASSUME MatrixInv, TryFull PROVE MatrixInv'
    OBVIOUS
  <1>2. PICK c \in Commands :
          /\ files' = [files EXCEPT ![Pending] = Left(c)]
          /\ Add(Row(Pending, Status(c), Calyx(Pending, Status(c)), Reads(Pending),
                     IF Pending.route = "direct-flat" THEN Source("flat") ELSE Pending))
    BY <1>1 DEF TryFull
  <1> DEFINE writes == IF Pending.route = "direct-flat" THEN Source("flat") ELSE Pending
             row == Row(Pending, Status(c), Calyx(Pending, Status(c)), Reads(Pending), writes)
  <1>3. /\ Len(rows) < Len(Plan) /\ UNCHANGED conclusion /\ Pending.scope = "full-rc"
        /\ Pending.route \in DOMAIN Before => AttemptOf(Predecessor(Pending)) = "accepted"
    BY <1>1 DEF TryFull
  <1>4. Pending \in Outputs
    BY <1>1, <1>3, PendingIs
  <1>5. \/ Reads(Pending) \in Sources
        \/ /\ Reads(Pending) \in Outputs /\ Reads(Pending) # Pending
           /\ files[Reads(Pending)] # "none"
    BY <1>1, <1>3, ReadsIs
  <1>6. writes = Pending \/ writes \in Sources
    BY DEF Sources
  <1>7. PICK r, w, k : r = Reads(Pending) /\ w = writes /\ k = Calyx(Pending, Status(c))
    OBVIOUS
  <1>8. k \in AttemptStatuses /\ (k = "accepted" => Status(c) = "accepted")
    BY <1>7, CommandLeaves DEF Calyx, AttemptStatuses
  <1>9. row = [id |-> Pending, attempt |-> Status(c), calyx |-> k, input |-> r,
               census |-> IF Status(c) = "accepted" THEN w ELSE r,
               semantics |-> "undetermined", comparison |-> "not-run"]
    BY <1>7 DEF Row
  <1>10. Add(row)
    BY <1>2
  <1> HIDE DEF row, writes
  <1>11. /\ row \in MatrixRows /\ row.id = Pending /\ row.attempt = Status(c) /\ row.calyx = k
         /\ row.census = IF Status(c) = "accepted" THEN w ELSE r
    BY <1>4, <1>5, <1>6, <1>7, <1>8, <1>9, CommandLeaves DEF MatrixRows, AttemptStatuses
  <1>12. files'[Pending] = Left(c) /\ \A f \in Outputs : f # Pending => files'[f] = files[f]
    BY <1>1, <1>2, <1>4 DEF MatrixInv, MatrixTypes
  <1>13. row.census \in Sources \/ files'[row.census] # "none"
    <2>1. CASE Status(c) = "accepted"
      BY <2>1, <1>6, <1>7, <1>11, <1>12, CommandLeaves
    <2>2. CASE Status(c) # "accepted"
      BY <2>2, <1>5, <1>7, <1>11, <1>12
    <2>3. QED
      BY <2>1, <2>2
  <1>14. Pending.route \in DOMAIN Before =>
           \E m \in 1 .. Len(rows) : Plan[m] = Predecessor(Pending) /\ rows[m].attempt = "accepted"
    BY <1>1, <1>3, PredecessorAttempt
  <1>15. QED
    BY <1>1, <1>2, <1>3, <1>8, <1>10, <1>11, <1>13, <1>14, CommandLeaves, AddKeepsMatrix

LEMMA SkipFullKeeps == MatrixInv /\ SkipFull => MatrixInv'
  <1>1. SUFFICES ASSUME MatrixInv, SkipFull PROVE MatrixInv'
    OBVIOUS
  <1> DEFINE row == Row(Pending, "skipped", Calyx(Pending, "skipped"), Reads(Pending), Pending)
  <1>2. /\ Len(rows) < Len(Plan) /\ UNCHANGED <<conclusion, files>> /\ Pending.scope = "full-rc"
        /\ Add(row)
    BY <1>1 DEF SkipFull
  <1>3. Pending \in Outputs
    BY <1>1, <1>2, PendingIs
  <1>4. \/ Reads(Pending) \in Sources
        \/ Reads(Pending) \in Outputs /\ files[Reads(Pending)] # "none"
    BY <1>1, <1>2, ReadsIs
  <1>5. PICK r, k : r = Reads(Pending) /\ k = Calyx(Pending, "skipped")
    OBVIOUS
  <1>6. k \in {"skipped", "not-run"}
    BY <1>5 DEF Calyx
  <1>7. row = [id |-> Pending, attempt |-> "skipped", calyx |-> k, input |-> r, census |-> r,
               semantics |-> "undetermined", comparison |-> "not-run"]
    BY <1>5 DEF Row
  <1> HIDE DEF row
  <1>8. /\ row \in MatrixRows /\ row.id = Pending /\ row.attempt = "skipped" /\ row.calyx = k
        /\ row.census = r
    BY <1>3, <1>4, <1>5, <1>6, <1>7 DEF MatrixRows, AttemptStatuses
  <1>9. PICK left \in {"none", "junk", "good"} : left = files[Pending]
    BY <1>1, <1>3 DEF MatrixInv, MatrixTypes
  <1>10. files' = [files EXCEPT ![Pending] = left]
    BY <1>1, <1>2, <1>9 DEF MatrixInv, MatrixTypes
  <1>11. row.census \in Sources \/ files'[row.census] # "none"
    BY <1>2, <1>4, <1>5, <1>8
  <1>12. row.attempt # "accepted" /\ row.calyx # "accepted"
    BY <1>6, <1>8
  <1>13. QED
    BY <1>1, <1>2, <1>8, <1>9, <1>10, <1>11, <1>12, AddKeepsMatrix
(* What the frontier concludes depends on the rows alone.                  *)
LEMMA ConclusionIsOfTheRows ==
  ASSUME rows' = rows
  PROVE  FirstRemaining' = FirstRemaining
  <1>1. ASSUME NEW p PROVE RoutesOf(p)' = RoutesOf(p) /\ RejectedOf(p)' = RejectedOf(p)
    BY DEF RoutesOf, RejectedOf, Rejected
  <1>2. ASSUME NEW p PROVE Remaining(p)' = Remaining(p)
    <2>1. Remaining(p)' <=> Remaining(p)
      BY <1>1, Zenon DEF Remaining, Validated
    <2>2. Remaining(p) \in BOOLEAN /\ Remaining(p)' \in BOOLEAN
      BY Zenon DEF Remaining
    <2>3. QED
      BY <2>1, <2>2, Zenon
  <1>3. ASSUME NEW p PROVE NamedRoutes(p)' = NamedRoutes(p)
    BY <1>1, Zenon DEF NamedRoutes
  <1>4. {k \in 1 .. Len(Required) : Remaining(Required[k])}'
          = {k \in 1 .. Len(Required) : Remaining(Required[k])}
    BY <1>2, Zenon
  <1>5. QED
    BY <1>3, <1>4, Zenon DEF FirstRemaining

LEMMA RestKeepsMatrix ==
  ASSUME MatrixInv, UNCHANGED <<rows, files>>,
         conclusion' = conclusion \/ (Len(rows) = Len(Plan) /\ conclusion' = FirstRemaining)
  PROVE  MatrixInv'
  <1>1. FirstRemaining' = FirstRemaining
    BY ConclusionIsOfTheRows
  <1>2. MatrixTypes'
    BY DEF MatrixInv, MatrixTypes
  <1>3. \A n : Founded(n)' <=> Founded(n)
    BY DEF Founded
  <1>4. Unwritten'
    BY DEF MatrixInv, Unwritten
  <1>5. conclusion' # NoConclusion => Len(rows) = Len(Plan) /\ conclusion' = FirstRemaining'
    BY <1>1 DEF MatrixInv
  <1>6. rows' = rows
    OBVIOUS
  <1>7. QED
    BY <1>2, <1>3, <1>4, <1>5, <1>6, Zenon DEF MatrixInv, Plan, NoConclusion

LEMMA LeastIsThere ==
  ASSUME NEW T, T \subseteq Nat, T # {}
  PROVE  Min(T) \in T
  <1>1. \A x, y \in Nat : y < x => <<y, x>> \in OpToRel(<, Nat)
    BY DEF OpToRel
  <1>2. PICK x \in T : \A y \in T : ~(<<y, x>> \in OpToRel(<, Nat))
    BY WFMin, NatLessThanWellFounded
  <1>3. \A y \in T : x <= y
    <2>1. SUFFICES ASSUME NEW y \in T, ~(x <= y) PROVE FALSE
      OBVIOUS
    <2>2. x \in Nat /\ y \in Nat /\ y < x
      BY <2>1
    <2>3. QED
      BY <1>1, <1>2, <2>2
  <1>4. QED
    BY <1>3, Zenon DEF Min

LEMMA FirstRequiredRemains ==
  ASSUME MatrixInv, Len(rows) = Len(Plan)
  PROVE  /\ FirstRemaining.status = "blocked"
         /\ FirstRemaining.primitive = Required[1]
         /\ Rejected(FirstRemaining.row) <=> RejectedOf(Required[1]) # {}
  <1> DEFINE remaining == {k \in 1 .. Len(Required) : Remaining(Required[k])}
  <1>1. /\ Len(Required) \in Nat \ {0} /\ Required[1] \in Range(Tried)
    BY MatrixAssumption
  <1>2. \A n \in 1 .. Len(rows) : rows[n].comparison = "not-run"
    <2>1. \A n \in 1 .. Len(rows) : rows[n] \in MatrixRows
      BY DEF MatrixInv, MatrixTypes
    <2>2. QED
      BY <2>1 DEF MatrixRows
  <1>3. ASSUME NEW p PROVE RoutesOf(p) \subseteq 1 .. Len(rows) /\ RejectedOf(p) \subseteq RoutesOf(p)
    BY DEF RoutesOf, RejectedOf
  <1>4. Remaining(Required[1])
    <2>1. ASSUME NEW n \in RoutesOf(Required[1]) PROVE ~Validated(rows[n])
      BY <1>2, <1>3 DEF Validated
    <2>2. QED
      BY <2>1 DEF Remaining
  <1>5. Min(remaining) = 1
    <2>1. 1 \in remaining /\ remaining \subseteq Nat
      BY <1>1, <1>4
    <2> HIDE DEF remaining
    <2>2. \A y \in remaining : 1 <= y
      BY DEF remaining
    <2>3. Min(remaining) \in remaining /\ \A y \in remaining : Min(remaining) <= y
      BY <2>1, <2>2, Zenon DEF Min
    <2>4. PICK m : m = Min(remaining)
      OBVIOUS
    <2>5. m \in Nat /\ m <= 1 /\ 1 <= m
      BY <2>1, <2>2, <2>3, <2>4
    <2>6. QED
      BY <2>4, <2>5
  <1>6. remaining # {}
    BY <1>1, <1>4
  <1>7. FirstRemaining = [status |-> "blocked", primitive |-> Required[1],
                          row |-> rows[Min(NamedRoutes(Required[1]))]]
    BY <1>5, <1>6, Zenon DEF FirstRemaining
  <1>8. RoutesOf(Required[1]) # {}
    <2>1. PICK k \in 1 .. Len(Tried) : Required[1] = Tried[k]
      <3>1. Required \in Seq(Range(Tried)) /\ Required # << >>
        BY MatrixAssumption
      <3>2. Required[1] \in Range(Tried)
        BY <3>1
      <3>3. Tried \in Seq(Range(Tried))
        BY MatrixAssumption
      <3>4. DOMAIN Tried = 1 .. Len(Tried)
        BY <3>3
      <3>5. QED
        BY <3>2, <3>4, Zenon DEF Range
    <2>2. PICK n \in 1 .. PlacesTried : PrimitiveRows[n].subject = Tried[k]
      BY PrimitiveRowsAre
    <2>3. /\ n \in 1 .. Len(rows)
          /\ Plan[n].scope = "primitive" /\ Plan[n].subject = Required[1]
      BY <2>1, <2>2, PlanIs
    <2>4. rows[n].id = Plan[n]
      BY <2>3 DEF MatrixInv, Founded
    <2>5. QED
      BY <2>3, <2>4 DEF RoutesOf
  <1>9. PICK m : m = Min(NamedRoutes(Required[1]))
    OBVIOUS
  <1>10. m \in NamedRoutes(Required[1])
    <2>1. NamedRoutes(Required[1]) # {} /\ NamedRoutes(Required[1]) \subseteq 1 .. Len(rows)
      BY <1>3, <1>8 DEF NamedRoutes
    <2>2. NamedRoutes(Required[1]) \subseteq Nat
      BY <2>1
    <2>3. QED
      BY <2>1, <2>2, <1>9, LeastIsThere
  <1>11. Rejected(rows[m]) <=> RejectedOf(Required[1]) # {}
    <2>1. CASE RejectedOf(Required[1]) # {}
      <3>1. m \in RejectedOf(Required[1])
        BY <2>1, <1>10 DEF NamedRoutes
      <3>2. QED
        BY <2>1, <3>1 DEF RejectedOf
    <2>2. CASE RejectedOf(Required[1]) = {}
      <3>1. m \in RoutesOf(Required[1]) /\ m \notin RejectedOf(Required[1])
        BY <2>2, <1>10 DEF NamedRoutes
      <3>2. QED
        BY <2>2, <3>1 DEF RejectedOf
    <2>3. QED
      BY <2>1, <2>2
  <1>12. QED
    BY <1>7, <1>9, <1>11

LEMMA MatrixInvSuffices == MatrixInv => MatrixIsGrounded
  <1>1. SUFFICES ASSUME MatrixInv PROVE MatrixIsGrounded
    OBVIOUS
  <1>2. ASSUME NEW n \in 1 .. Len(rows) PROVE Grounded(rows[n])
    <2>1. Founded(n) /\ n \in 1 .. Len(Plan) /\ Len(rows) \in Nat
      BY <1>1, PlanIs DEF MatrixInv, MatrixTypes
    <2>2. ASSUME rows[n].attempt = "accepted", rows[n].id.scope = "full-rc",
                 rows[n].id.route \in DOMAIN Before
          PROVE  AttemptOf(Predecessor(rows[n].id)) = "accepted"
      <3>1. PICK m \in 1 .. n - 1 : Plan[m] = Predecessor(Plan[n]) /\ rows[m].attempt = "accepted"
        BY <2>1, <2>2 DEF Founded
      <3>2. m \in 1 .. Len(rows)
        BY <2>1
      <3>3. AttemptOf(Plan[m]) = "accepted"
        BY <1>1, <3>1, <3>2, AttemptIs
      <3>4. QED
        BY <2>1, <3>1, <3>3 DEF Founded
    <2>3. QED
      BY <2>1, <2>2 DEF Grounded, Founded, Exists
  <1>3. conclusion # NoConclusion => Len(rows) = Len(Plan) /\ conclusion = FirstRemaining
    BY <1>1 DEF MatrixInv
  <1>4. QED
    BY <1>1, <1>2, <1>3, FirstRequiredRemains DEF MatrixIsGrounded

(* The matrix is grounded: whatever the tools print, exit with or leave    *)
(* behind, an accepted row left a good output and stands on an accepted    *)
(* row, and the frontier never advances past the first required primitive. *)
THEOREM MatrixStaysGrounded == MatrixSpec => []MatrixIsGrounded
  <1>1. MatrixInit => MatrixInv
    BY MatrixInitInv
  <1>2. MatrixInv /\ [MatrixNext]_matrixVars => MatrixInv'
    <2>1. SUFFICES ASSUME MatrixInv, [MatrixNext]_matrixVars PROVE MatrixInv'
      OBVIOUS
    <2>2. CASE Render
      BY <2>1, <2>2, RestKeepsMatrix DEF Render
    <2>3. CASE UNCHANGED matrixVars
      BY <2>1, <2>3, RestKeepsMatrix DEF matrixVars
    <2>4. TryDirect \/ TryTransform \/ TryFull \/ SkipFull => MatrixInv'
      BY <2>1, TryDirectKeeps, TryTransformKeeps, TryFullKeeps, SkipFullKeeps, Zenon
    <2>5. QED
      BY <2>1, <2>2, <2>3, <2>4, Zenon DEF MatrixNext
  <1>3. MatrixInv => MatrixIsGrounded
    BY MatrixInvSuffices
  <1>4. QED
    BY <1>1, <1>2, <1>3, PTL DEF MatrixSpec

-----------------------------------------------------------------------------
(* The oracle.                                                             *)

(* What two's complement leaves of a code is the code.                     *)
LEMMA Complement ==
  ASSUME NEW c \in -(CodeRange \div 2)..(CodeRange \div 2 - 1)
  PROVE  /\ c \in Int /\ c % CodeRange \in 0 .. CodeRange - 1
         /\ c = IF c % CodeRange >= CodeRange \div 2 THEN (c % CodeRange) - CodeRange
                ELSE c % CodeRange
  <1>1. PICK h \in Nat \ {0} : CodeRange = 2 * h /\ CodeRange \div 2 = h
    BY ShardsAssumption
  <1>2. CodeRange \in Nat \ {0}
    BY ShardsAssumption
  <1>3. c \in Int /\ -h <= c /\ c < h
    BY <1>1
  <1>4. PICK q \in Int, m \in 0 .. CodeRange - 1 : m = c % CodeRange /\ c = CodeRange * q + m
    <2>1. c \div CodeRange \in Int /\ c % CodeRange \in 0 .. CodeRange - 1
      BY <1>2, <1>3
    <2>2. c = CodeRange * (c \div CodeRange) + (c % CodeRange)
      BY <1>2, <1>3
    <2>3. QED
      BY <2>1, <2>2
  <1>5. q = 0 \/ q = -1
    <2>1. ASSUME q > 0 PROVE FALSE
      <3>1. PICK e \in Nat : q = 1 + e
        BY <2>1, q - 1 \in Nat
      <3>2. CodeRange * q = CodeRange + CodeRange * e /\ CodeRange * e \in Nat
        BY <3>1, <1>2
      <3>3. QED
        BY <3>2, <1>1, <1>3, <1>4
    <2>2. ASSUME q < -1 PROVE FALSE
      <3>1. PICK e \in Nat : q = -2 - e
        BY <2>2, -2 - q \in Nat
      <3>2. CodeRange * q = -(2 * CodeRange) - CodeRange * e /\ CodeRange * e \in Nat
        BY <3>1, <1>2
      <3>3. QED
        BY <3>2, <1>1, <1>3, <1>4
    <2>3. QED
      BY <2>1, <2>2
  <1>6. QED
    BY <1>1, <1>2, <1>3, <1>4, <1>5

LEMMA LowestIsLargest ==
  ASSUME NEW codes \in [CodeLanes -> Int]
  PROVE  /\ Lowest(codes) \in CodeLanes
         /\ \A t \in CodeLanes : codes[t] <= codes[Lowest(codes)]
  <1> DEFINE Beats(t, n) == \A u \in 1 .. n : codes[u] < codes[t] \/ (codes[u] = codes[t] /\ t <= u)
             T == {n \in Nat : n + 1 <= Vocabulary => \E t \in 1 .. n + 1 : Beats(t, n + 1)}
  <1>0. Vocabulary \in Nat \ {0} /\ CodeLanes = 1 .. Vocabulary
    BY ShardsAssumption DEF CodeLanes
  <1>1. 0 \in T
    <2>1. Beats(1, 0 + 1)
      OBVIOUS
    <2>2. QED
      BY <2>1
  <1>2. ASSUME NEW n \in Nat, n \in T PROVE n + 1 \in T
    <2> SUFFICES (n + 1) + 1 <= Vocabulary => \E t \in 1 .. (n + 1) + 1 : Beats(t, (n + 1) + 1)
      OBVIOUS
    <2>1. SUFFICES ASSUME (n + 1) + 1 <= Vocabulary PROVE \E t \in 1 .. (n + 1) + 1 : Beats(t, (n + 1) + 1)
      OBVIOUS
    <2>a. n + 1 <= Vocabulary
      BY <1>0, <2>1
    <2>b. (n + 1 <= Vocabulary) => \E t \in 1 .. n + 1 : Beats(t, n + 1)
      BY <1>2
    <2>2. PICK t \in 1 .. n + 1 : Beats(t, n + 1)
      <3> HIDE DEF Beats
      <3>1. QED
        BY <2>a, <2>b
    <2>3. codes[t] \in Int /\ codes[n + 2] \in Int /\ \A u \in 1 .. n + 1 : codes[u] \in Int
      BY <1>0, <2>1
    <2>4. CASE codes[n + 2] > codes[t]
      <3>1. Beats(n + 2, n + 2)
        BY <2>2, <2>3, <2>4
      <3>2. QED
        BY <3>1
    <2>5. CASE ~(codes[n + 2] > codes[t])
      <3>1. Beats(t, n + 2)
        BY <2>2, <2>3, <2>5
      <3>2. QED
        BY <3>1
    <2>6. QED
      BY <2>4, <2>5
  <1>3. Nat \subseteq T
    <2> HIDE DEF T
    <2>1. QED
      BY <1>1, <1>2, Induction
  <1>4. PICK t \in 1 .. Vocabulary : Beats(t, Vocabulary)
    <2>1. Vocabulary - 1 \in T
      <3> HIDE DEF T
      <3>1. QED
        BY <1>0, <1>3
    <2>2. QED
      BY <2>1, <1>0
  <1>5. \E b \in DOMAIN codes :
          \A u \in DOMAIN codes : codes[u] < codes[b] \/ (codes[u] = codes[b] /\ b <= u)
    BY <1>0, <1>4
  <1>6. /\ Lowest(codes) \in DOMAIN codes
        /\ \A u \in DOMAIN codes : codes[u] < codes[Lowest(codes)]
                                   \/ (codes[u] = codes[Lowest(codes)] /\ Lowest(codes) <= u)
    BY <1>5 DEF Lowest
  <1>7. QED
    BY <1>6, <1>0

(* What is left of a word when lane after lane is shifted out.             *)
LEMMA ShiftedIs ==
  ASSUME NEW word \in Nat
  PROVE  /\ Shifted(word) \in [0 .. Vocabulary + 1 -> Nat]
         /\ Shifted(word)[0] = word
         /\ \A t \in 1 .. Vocabulary + 1 : Shifted(word)[t] = Shifted(word)[t - 1] \div CodeRange
  <1> DEFINE N == Vocabulary + 1
             body(shifted) == [t \in 0 .. (Vocabulary + 1) |->
                                 IF t = 0 THEN word ELSE shifted[t - 1] \div CodeRange]
             Round == [n \in 1 .. N |-> [v \in Nat |-> v \div CodeRange]]
  <1>0. Vocabulary \in Nat /\ N \in Nat /\ CodeRange \in Nat \ {0}
    BY ShardsAssumption
  <1>1. Round \in RoundsOf(N, Nat)
    BY <1>0, Quotients DEF RoundsOf
  <1>2. Courses(N, Nat, word, Round) # {}
    <2> HIDE DEF Round, N
    <2>1. QED
      BY <1>0, <1>1, Loop, Zenon
  <1>3. PICK f \in [0 .. N -> Nat] :
          f[0] = word /\ \A n \in 1 .. N : f[n] = Round[n][f[n - 1]]
    BY <1>2, Zenon DEF Courses
  <1>4. \A n \in 1 .. N : f[n] = f[n - 1] \div CodeRange
    <2>1. ASSUME NEW n \in 1 .. N PROVE f[n] = f[n - 1] \div CodeRange
      <3>1. f[n - 1] \in Nat
        BY <1>0
      <3>2. QED
        BY <1>3, <3>1
    <2>2. QED
      BY <2>1
  <1>5. f = body(f)
    <2>1. ASSUME NEW n \in 0 .. N PROVE f[n] = body(f)[n]
      BY <1>3, <1>4
    <2>2. QED
      BY <2>1
  <1>6. Shifted(word) = CHOOSE shifted : shifted = body(shifted)
    BY Zenon DEF Shifted
  <1>7. Shifted(word) = body(Shifted(word))
    BY <1>5, <1>6, Zenon
  <1>8. /\ Shifted(word)[0] = word
        /\ \A t \in 1 .. N : Shifted(word)[t] = Shifted(word)[t - 1] \div CodeRange
    BY <1>7, <1>0
  <1> DEFINE T == {n \in Nat : n <= N => Shifted(word)[n] \in Nat}
  <1>9. Nat \subseteq T
    <2>1. 0 \in T
      BY <1>8
    <2>2. ASSUME NEW n \in Nat, n \in T PROVE n + 1 \in T
      <3>1. SUFFICES (n + 1 <= N) => Shifted(word)[n + 1] \in Nat
        OBVIOUS
      <3>2. SUFFICES ASSUME n + 1 <= N PROVE Shifted(word)[n + 1] \in Nat
        OBVIOUS
      <3>3. Shifted(word)[n] \in Nat /\ Shifted(word)[n + 1] = Shifted(word)[n] \div CodeRange
        BY <2>2, <3>2, <1>8, <1>0
      <3>4. QED
        BY <3>3, <1>0, Quotients
    <2> HIDE DEF T
    <2>3. QED
      BY <2>1, <2>2, Induction
  <1>10. DOMAIN Shifted(word) = 0 .. N /\ Shifted(word) = [t \in 0 .. N |-> Shifted(word)[t]]
    BY <1>7
  <1>11. \A n \in 0 .. N : Shifted(word)[n] \in Nat
    BY <1>9, <1>0
  <1>12. QED
    BY <1>8, <1>10, <1>11

(* A word is put together lane by lane.                                    *)
LEMMA PackIs ==
  ASSUME NEW codes, IsRecord(codes)
  PROVE  \E f \in [0 .. Vocabulary -> Nat] :
           /\ f[Vocabulary] = Pack(codes)
           /\ \A t \in 1 .. Vocabulary :
                f[t] = CodeRange * f[t - 1] + (codes[Vocabulary - t + 1] % CodeRange)
  <1> DEFINE N == Vocabulary
             Digit == [t \in 1 .. N |-> codes[N - t + 1] % CodeRange]
             start == Lowest(codes) - 1
             body(packed) == [t \in 0 .. Vocabulary |->
                                IF t = 0 THEN Lowest(codes) - 1
                                ELSE CodeRange * packed[t - 1] + (codes[Vocabulary - t + 1] % CodeRange)]
             Round == [n \in 1 .. N |-> [v \in Nat |-> CodeRange * v + Digit[n]]]
             packed == CHOOSE packed : packed = body(packed)
  <1>0. N \in Nat \ {0} /\ CodeRange \in Nat \ {0} /\ CodeLanes = 1 .. N
    BY ShardsAssumption DEF CodeLanes
  <1>1. codes \in [CodeLanes -> Int] /\ Digit \in [1 .. N -> Nat]
    <2>1. codes \in [CodeLanes -> -(CodeRange \div 2)..(CodeRange \div 2 - 1)]
      BY DEF IsRecord
    <2>2. CodeRange \div 2 \in Int
      BY <1>0
    <2>3. codes \in [CodeLanes -> Int]
      BY <2>1, <2>2
    <2>4. ASSUME NEW t \in 1 .. N PROVE codes[N - t + 1] % CodeRange \in Nat
      <3>1. N - t + 1 \in CodeLanes
        BY <1>0
      <3>2. codes[N - t + 1] % CodeRange \in 0 .. CodeRange - 1
        BY <3>1, <2>1, Complement
      <3>3. QED
        BY <3>2, <1>0
    <2>5. QED
      BY <2>3, <2>4
  <1>2. start \in Nat
    BY <1>0, <1>1, LowestIsLargest
  <1>3. Round \in RoundsOf(N, Nat)
    <2> HIDE DEF Digit
    <2>1. ASSUME NEW n \in 1 .. N, NEW v \in Nat PROVE CodeRange * v + Digit[n] \in Nat
      <3>1. PICK m \in Nat : m = Digit[n]
        BY <1>1
      <3>2. CodeRange * v \in Nat
        BY <1>0
      <3>3. QED
        BY <3>1, <3>2
    <2>2. QED
      BY <2>1 DEF RoundsOf
  <1>4. Courses(N, Nat, start, Round) # {}
    <2> HIDE DEF Round, N, start
    <2>1. QED
      BY <1>0, <1>2, <1>3, Loop, Zenon
  <1>5. PICK f \in [0 .. N -> Nat] : f[0] = start /\ \A n \in 1 .. N : f[n] = Round[n][f[n - 1]]
    BY <1>4, Zenon DEF Courses
  <1>6. \A n \in 1 .. N : f[n] = CodeRange * f[n - 1] + (codes[Vocabulary - n + 1] % CodeRange)
    <2>1. ASSUME NEW n \in 1 .. N PROVE f[n] = CodeRange * f[n - 1] + (codes[Vocabulary - n + 1] % CodeRange)
      <3>1. f[n - 1] \in Nat
        BY <1>0
      <3>2. QED
        BY <1>5, <3>1
    <2>2. QED
      BY <2>1
  <1>7. f = body(f)
    <2>1. ASSUME NEW n \in 0 .. N PROVE f[n] = body(f)[n]
      BY <1>5, <1>6
    <2>2. QED
      BY <2>1
  <1>8. packed = body(packed)
    BY <1>7, Zenon
  <1>9. Pack(codes) = packed[Vocabulary]
    BY Zenon DEF Pack
  <1> HIDE DEF packed
  <1>10. /\ packed[0] = start
         /\ \A t \in 1 .. N : packed[t] = CodeRange * packed[t - 1] + (codes[Vocabulary - t + 1] % CodeRange)
    BY <1>8, <1>0
  <1> DEFINE T == {n \in Nat : n <= N => packed[n] = f[n]}
  <1>11. Nat \subseteq T
    <2>1. 0 \in T
      BY <1>10, <1>5
    <2>2. ASSUME NEW n \in Nat, n \in T PROVE n + 1 \in T
      <3>1. SUFFICES (n + 1 <= N) => packed[n + 1] = f[n + 1]
        OBVIOUS
      <3>2. SUFFICES ASSUME n + 1 <= N PROVE packed[n + 1] = f[n + 1]
        OBVIOUS
      <3>3. n + 1 \in 1 .. N /\ (n + 1) - 1 = n /\ packed[n] = f[n]
        BY <2>2, <3>2, <1>0
      <3>4. packed[n + 1] = CodeRange * packed[n] + (codes[Vocabulary - (n + 1) + 1] % CodeRange)
        BY <3>3, <1>10
      <3>5. f[n + 1] = CodeRange * f[n] + (codes[Vocabulary - (n + 1) + 1] % CodeRange)
        BY <3>3, <1>6
      <3>6. QED
        BY <3>3, <3>4, <3>5
    <2> HIDE DEF T
    <2>3. QED
      BY <2>1, <2>2, Induction
  <1>12. packed[N] = f[N]
    BY <1>11, <1>0
  <1>13. QED
    BY <1>6, <1>9, <1>12

(* A word is read as the codes it was put together from.                   *)
LEMMA PackIsRead ==
  ASSUME NEW codes, IsRecord(codes)
  PROVE  Pack(codes) \in Nat /\ Codes(Pack(codes)) = codes
  <1>0. Vocabulary \in Nat \ {0} /\ CodeRange \in Nat \ {0} /\ CodeLanes = 1 .. Vocabulary
    BY ShardsAssumption DEF CodeLanes
  <1>1. PICK f \in [0 .. Vocabulary -> Nat] :
          /\ f[Vocabulary] = Pack(codes)
          /\ \A t \in 1 .. Vocabulary :
               f[t] = CodeRange * f[t - 1] + (codes[Vocabulary - t + 1] % CodeRange)
    BY PackIs
  <1>2. PICK word \in Nat : word = Pack(codes)
    BY <1>0, <1>1
  <1>3. /\ Shifted(word)[0] = word
        /\ \A t \in 1 .. Vocabulary + 1 : Shifted(word)[t] = Shifted(word)[t - 1] \div CodeRange
    BY ShiftedIs
  <1>4. codes \in [CodeLanes -> -(CodeRange \div 2)..(CodeRange \div 2 - 1)]
    BY DEF IsRecord
  <1>5. ASSUME NEW t \in 1 .. Vocabulary
        PROVE  /\ f[t] \div CodeRange = f[t - 1]
               /\ f[t] % CodeRange = codes[Vocabulary - t + 1] % CodeRange
    <2>1. Vocabulary - t + 1 \in CodeLanes /\ f[t - 1] \in Nat
      BY <1>0, <1>1
    <2>2. PICK m \in 0 .. CodeRange - 1 : m = codes[Vocabulary - t + 1] % CodeRange
      BY <2>1, <1>4, Complement
    <2>3. f[t] = CodeRange * f[t - 1] + m
      BY <2>2, <1>1
    <2>4. PICK q \in Nat : q = f[t - 1]
      BY <2>1
    <2>5. (CodeRange * q + m) \div CodeRange = q /\ (CodeRange * q + m) % CodeRange = m
      BY <1>0, Digits
    <2>6. QED
      BY <2>2, <2>3, <2>4, <2>5
  <1> DEFINE T == {n \in Nat : n <= Vocabulary => Shifted(word)[n] = f[Vocabulary - n]}
  <1>6. Nat \subseteq T
    <2>1. 0 \in T
      BY <1>1, <1>2, <1>3, <1>0
    <2>2. ASSUME NEW n \in Nat, n \in T PROVE n + 1 \in T
      <3>1. SUFFICES (n + 1 <= Vocabulary) => Shifted(word)[n + 1] = f[Vocabulary - (n + 1)]
        OBVIOUS
      <3>2. SUFFICES ASSUME n + 1 <= Vocabulary PROVE Shifted(word)[n + 1] = f[Vocabulary - (n + 1)]
        OBVIOUS
      <3>3. /\ n + 1 \in 1 .. Vocabulary + 1 /\ (n + 1) - 1 = n /\ Shifted(word)[n] = f[Vocabulary - n]
            /\ Vocabulary - n \in 1 .. Vocabulary /\ (Vocabulary - n) - 1 = Vocabulary - (n + 1)
        BY <2>2, <3>2, <1>0
      <3>4. QED
        BY <3>3, <1>3, <1>5
    <2> HIDE DEF T
    <2>3. QED
      BY <2>1, <2>2, Induction
  <1>7. ASSUME NEW t \in CodeLanes PROVE LaneCode(word, t) = codes[t]
    <2>1. t - 1 \in Nat /\ t - 1 <= Vocabulary /\ Vocabulary - (t - 1) \in 1 .. Vocabulary
          /\ Vocabulary - (Vocabulary - (t - 1)) + 1 = t
      BY <1>0
    <2>2. Shifted(word)[t - 1] = f[Vocabulary - (t - 1)]
      BY <2>1, <1>6
    <2>3. Shifted(word)[t - 1] % CodeRange = codes[t] % CodeRange
      BY <2>1, <2>2, <1>5
    <2>4. codes[t] = IF codes[t] % CodeRange >= CodeRange \div 2 THEN (codes[t] % CodeRange) - CodeRange
                     ELSE codes[t] % CodeRange
      BY <1>4, Complement
    <2>5. QED
      BY <2>3, <2>4 DEF LaneCode
  <1>8. Codes(word) = codes
    BY <1>4, <1>7 DEF Codes
  <1>9. QED
    BY <1>2, <1>8
-----------------------------------------------------------------------------
(* What holds of each invocation, of the files of each range, and of the   *)
(* merge.                                                                  *)

InvocationPoints == {"load", "read", "hash", "preflight", "look", "open", "evaluate", "metadata",
           "receipt", "complete", "failed", "killed"}
Writing == {"evaluate", "metadata", "receipt"}
Programs == Exports \cup {"none"}

Invocation == [pc : InvocationPoints, range : Requests, evaluator : Programs, reference : Programs,
               receipt : Programs, words : Seq(Nat)]
Shard == [there : BOOLEAN, words : Seq(Nat), metadata : {"absent", "torn", "whole"},
          receipt : Programs, claimed : Seq(Nat)]

(* The words are those of the program e for the first contexts of r.       *)
AreOf(words, e, r) ==
    \A n \in 1 .. Len(words) :
       /\ IsRecord(Observed(e, ContextAt(r[1] + n - 1)))
       /\ words[n] = Pack(Observed(e, ContextAt(r[1] + n - 1)))

(* Only a program that passed the preflight is evaluated; what it computed *)
(* is in the payload it opened, and that has no whole metadata yet.        *)
SoundInvocation(x, shard) ==
    /\ x.pc \in {"read", "hash", "preflight", "look", "open"} \cup Writing => x.evaluator \in Exports
    /\ x.pc \in {"look", "open"} \cup Writing => SameOnCorpus(x.evaluator, x.receipt)
    /\ x.pc \in {"load", "read", "hash", "preflight", "look", "open"} => x.words = <<>>
    /\ x.pc \in Writing => /\ Len(x.words) <= x.range[2] - x.range[1]
                           /\ AreOf(x.words, x.evaluator, x.range)
                           /\ shard.there /\ shard.words = x.words
                           /\ shard.metadata # "whole"
    /\ x.pc \in {"metadata", "receipt"} => Len(x.words) = x.range[2] - x.range[1]

SoundShard(shard, r) ==
    /\ ~shard.there => shard.words = <<>> /\ shard.metadata = "absent"
    /\ shard.metadata = "whole" =>
         \E e \in Exports : /\ SameOnCorpus(e, shard.receipt)
                            /\ AreOf(shard.words, e, r)
                            /\ Len(shard.words) = r[2] - r[1]

(* No two invocations write the files of one range.                        *)
GeneratorsInv ==
    /\ export \in Exports /\ reference \in Exports
    /\ generators \in [Generators -> Invocation]
    /\ shards \in [Requests -> Shard]
    /\ \A g \in Generators : SoundInvocation(generators[g], shards[generators[g].range])
    /\ \A r \in Requests : SoundShard(shards[r], r)
    /\ \A g, h \in Generators :
         g # h /\ generators[g].pc \in Writing /\ generators[h].pc \in Writing =>
            generators[g].range # generators[h].range

WordsAreRight(words, receipt, r) ==
    \A n \in 1 .. r[2] - r[1] : WordOf(words[n], receipt, r[1] + n - 1)

MergeInv ==
    /\ merge \in [pc : {"idle", "verify", "rejected", "merged"}, left : Seq(Requests),
                  seen : Seq([range : Requests, words : Seq(Nat), receipt : Programs]),
                  covered : BOOLEAN]
    /\ merge.pc = "idle" => merge.seen = <<>>
    /\ Len(merge.seen) + Len(merge.left) <= 2
    /\ \A n \in 1 .. Len(merge.seen) :
         WordsAreRight(merge.seen[n].words, merge.seen[n].receipt, merge.seen[n].range)
    /\ merge.covered => merge.pc = "merged" /\ Covers(merge.seen)

ShardsInv == GeneratorsInv /\ MergeInv

(* A word that unpacks and is one of e is right.                           *)
LEMMA RecordIsRight ==
  ASSUME NEW e \in Exports, NEW receipt, SameOnCorpus(e, receipt), NEW i,
         IsRecord(Observed(e, ContextAt(i))), Unpacks(Pack(Observed(e, ContextAt(i))))
  PROVE  WordOf(Pack(Observed(e, ContextAt(i))), receipt, i)
  <1>1. PICK codes : codes = Observed(e, ContextAt(i))
    OBVIOUS
  <1>2. PICK word \in Nat : word = Pack(codes) /\ Codes(word) = codes
    BY <1>1, PackIsRead
  <1>3. codes \in [CodeLanes -> Int]
    <2>1. CodeRange \div 2 \in Int
      BY ShardsAssumption
    <2>2. QED
      BY <1>1, <2>1 DEF IsRecord
  <1>4. /\ Lowest(codes) \in CodeLanes
        /\ \A t \in CodeLanes : codes[t] <= codes[Lowest(codes)]
    BY <1>3, LowestIsLargest
  <1>5. Token(word) = Lowest(codes) - 1
    BY <1>1, <1>2 DEF Unpacks
  <1>6. Token(word) + 1 = Lowest(codes)
    BY <1>4, <1>5 DEF CodeLanes
  <1>7. \A t \in CodeLanes : Codes(word)[t] <= Codes(word)[Token(word) + 1]
    BY <1>2, <1>4, <1>6
  <1>8. QED
    BY <1>1, <1>2, <1>7 DEF WordOf

LEMMA VerifiedIsRight ==
  ASSUME NEW r \in Requests, SoundShard(shards[r], r), Verifies(r)
  PROVE  /\ WordsAreRight(shards[r].words, shards[r].receipt, r)
         /\ shards[r].claimed = shards[r].words
  <1>1. /\ shards[r].metadata = "whole" /\ Len(shards[r].claimed) = r[2] - r[1]
        /\ shards[r].words = shards[r].claimed
        /\ \A n \in 1 .. Len(shards[r].claimed) : Unpacks(shards[r].claimed[n])
    BY DEF Verifies, PayloadHolds
  <1>2. PICK e \in Exports : SameOnCorpus(e, shards[r].receipt) /\ AreOf(shards[r].words, e, r)
    BY <1>1 DEF SoundShard
  <1>3. ASSUME NEW n \in 1 .. r[2] - r[1]
        PROVE  WordOf(shards[r].words[n], shards[r].receipt, r[1] + n - 1)
    <2>1. n \in 1 .. Len(shards[r].words) /\ Unpacks(shards[r].words[n])
      BY <1>1
    <2>2. /\ IsRecord(Observed(e, ContextAt(r[1] + n - 1)))
          /\ shards[r].words[n] = Pack(Observed(e, ContextAt(r[1] + n - 1)))
      BY <1>2, <2>1 DEF AreOf
    <2>3. QED
      BY <1>2, <2>1, <2>2, RecordIsRight
  <1>4. QED
    BY <1>1, <1>3 DEF WordsAreRight

LEMMA ShardsInitInv == ShardsInit => ShardsInv
  <1> SUFFICES ASSUME ShardsInit PROVE ShardsInv
    OBVIOUS
  <1>1. <<>> \in Seq(Nat) /\ Len(<<>>) = 0
    OBVIOUS
  <1>2. export \in Exports /\ reference \in Exports
    BY DEF ShardsInit
  <1>3. generators \in [Generators -> Invocation]
    <2>1. ASSUME NEW r \in Requests PROVE Fresh(r) \in Invocation
      BY <1>1 DEF Fresh, Invocation, InvocationPoints, Programs
    <2>2. QED
      BY <2>1 DEF ShardsInit
  <1>4. shards \in [Requests -> Shard]
    BY <1>1 DEF ShardsInit, NoShard, Shard, Programs
  <1>5. ASSUME NEW g \in Generators
        PROVE  generators[g].pc = "load" /\ SoundInvocation(generators[g], shards[generators[g].range])
    BY DEF ShardsInit, Fresh, SoundInvocation, Writing
  <1>6. ASSUME NEW r \in Requests PROVE SoundShard(shards[r], r)
    BY DEF ShardsInit, NoShard, SoundShard
  <1>7. GeneratorsInv
    BY <1>2, <1>3, <1>4, <1>5, <1>6 DEF GeneratorsInv, Writing
  <1>8. MergeInv
    BY DEF ShardsInit, NoMerge, MergeInv
  <1>9. QED
    BY <1>7, <1>8 DEF ShardsInv

(* A step of one invocation disturbs only its own: it changes the files of *)
(* its range only when it writes them, or as the first that opens them.    *)
LEMMA StepKeeps ==
  ASSUME GeneratorsInv, NEW g \in Generators, NEW x \in Invocation, NEW y \in Shard,
         x.range = generators[g].range,
         generators' = [generators EXCEPT ![g] = x],
         shards' = [shards EXCEPT ![x.range] = y],
         UNCHANGED <<export, reference>>,
         x.pc \in Writing \/ y # shards[x.range] =>
            generators[g].pc \in Writing \/ ~shards[x.range].there,
         SoundInvocation(x, y), SoundShard(y, x.range)
  PROVE  GeneratorsInv'
  <1>1. x.range \in Requests
    BY DEF Invocation
  <1>2. generators' \in [Generators -> Invocation] /\ shards' \in [Requests -> Shard]
    BY <1>1 DEF GeneratorsInv
  <1>3. /\ generators'[g] = x /\ shards'[x.range] = y
        /\ \A h \in Generators : h # g => generators'[h] = generators[h]
        /\ \A r \in Requests : r # x.range => shards'[r] = shards[r]
    BY <1>1 DEF GeneratorsInv
  <1>4. ASSUME NEW h \in Generators, h # g, generators[h].pc \in Writing,
               x.pc \in Writing \/ y # shards[x.range]
        PROVE  generators[h].range # x.range
    <2>1. CASE generators[g].pc \in Writing
      BY <1>4, <2>1 DEF GeneratorsInv
    <2>2. CASE ~shards[x.range].there
      BY <1>4, <2>2 DEF GeneratorsInv, SoundInvocation
    <2>3. QED
      BY <1>4, <2>1, <2>2
  <1>5. ASSUME NEW h \in Generators
        PROVE  SoundInvocation(generators'[h], shards'[generators'[h].range])
    <2>1. CASE h = g
      BY <2>1, <1>3
    <2>2. CASE h # g
      <3>1. generators'[h] = generators[h] /\ generators[h].range \in Requests
            /\ SoundInvocation(generators[h], shards[generators[h].range])
        BY <2>2, <1>3 DEF GeneratorsInv, Invocation
      <3>2. CASE generators[h].pc \in Writing
        <4>1. shards'[generators[h].range] = shards[generators[h].range]
          BY <3>1, <3>2, <2>2, <1>3, <1>4
        <4>2. QED
          BY <3>1, <4>1
      <3>3. CASE generators[h].pc \notin Writing
        BY <3>1, <3>3 DEF SoundInvocation
      <3>4. QED
        BY <3>2, <3>3
    <2>3. QED
      BY <2>1, <2>2
  <1>6. ASSUME NEW r \in Requests PROVE SoundShard(shards'[r], r)
    BY <1>3 DEF GeneratorsInv
  <1>7. ASSUME NEW h \in Generators, NEW k \in Generators, h # k,
               generators'[h].pc \in Writing, generators'[k].pc \in Writing
        PROVE  generators'[h].range # generators'[k].range
    <2>1. CASE h = g
      BY <2>1, <1>3, <1>4, <1>7
    <2>2. CASE k = g
      BY <2>2, <1>3, <1>4, <1>7
    <2>3. CASE h # g /\ k # g
      BY <2>3, <1>3, <1>7 DEF GeneratorsInv
    <2>4. QED
      BY <2>1, <2>2, <2>3
  <1>8. export' \in Exports /\ reference' \in Exports
    BY DEF GeneratorsInv
  <1>9. QED
    BY <1>2, <1>5, <1>6, <1>7, <1>8 DEF GeneratorsInv
LEMMA GeneratorTypes ==
  ASSUME GeneratorsInv, NEW g \in Generators
  PROVE  /\ generators[g] \in Invocation /\ generators[g].range \in Requests
         /\ shards[generators[g].range] \in Shard
         /\ SoundInvocation(generators[g], shards[generators[g].range])
         /\ SoundShard(shards[generators[g].range], generators[g].range)
  BY DEF GeneratorsInv, Invocation

(* The steps that leave the files alone.                                   *)
LEMMA QuietKeeps ==
  ASSUME GeneratorsInv, NEW g \in Generators, NEW x \in Invocation,
         x.range = generators[g].range,
         generators' = [generators EXCEPT ![g] = x],
         UNCHANGED <<export, reference, shards>>,
         x.pc \in Writing => generators[g].pc \in Writing,
         SoundInvocation(x, shards[x.range])
  PROVE  GeneratorsInv'
  <1>1. PICK y \in Shard : y = shards[x.range]
    BY GeneratorTypes
  <1>2. shards' = [shards EXCEPT ![x.range] = y]
    BY <1>1 DEF GeneratorsInv
  <1>3. SoundShard(y, x.range) /\ SoundInvocation(x, y)
    BY <1>1, GeneratorTypes
  <1>4. x.pc \in Writing \/ y # shards[x.range] =>
            generators[g].pc \in Writing \/ ~shards[x.range].there
    BY <1>1
  <1>5. UNCHANGED <<export, reference>>
    OBVIOUS
  <1> HIDE DEF GeneratorsInv
  <1>6. QED
    BY <1>2, <1>3, <1>4, <1>5, StepKeeps

LEMMA EarlyKeeps ==
  ASSUME GeneratorsInv, NEW g \in Generators,
         LoadProgram(g) \/ ReadReference(g) \/ HashProgram(g) \/ Preflight(g)
            \/ LookForShard(g) \/ KillGenerator(g)
  PROVE  GeneratorsInv'
  <1>1. PICK x, shard : x = generators[g] /\ shard = shards[x.range]
    OBVIOUS
  <1>2. x \in Invocation /\ SoundInvocation(x, shard)
    BY <1>1, GeneratorTypes
  <1>3. CASE LoadProgram(g)
    <2>1. PICK y : y = [x EXCEPT !.pc = "read", !.evaluator = export]
      OBVIOUS
    <2>2. y \in Invocation /\ y.range = x.range /\ SoundInvocation(y, shard) /\ y.pc = "read"
      BY <1>1, <1>2, <1>3, <2>1
      DEF LoadProgram, On, Invocation, InvocationPoints, Programs, SoundInvocation, Writing, GeneratorsInv
    <2>3. generators' = [generators EXCEPT ![g] = y] /\ UNCHANGED <<export, reference, shards>>
      BY <1>1, <1>3, <2>1 DEF LoadProgram, programFiles
    <2>4. QED
      BY <1>1, <2>2, <2>3, QuietKeeps DEF Writing
  <1>4. CASE ReadReference(g)
    <2>1. PICK y : y = [x EXCEPT !.pc = "hash", !.reference = reference]
      OBVIOUS
    <2>2. y \in Invocation /\ y.range = x.range /\ SoundInvocation(y, shard) /\ y.pc = "hash"
      BY <1>1, <1>2, <1>4, <2>1
      DEF ReadReference, On, Invocation, InvocationPoints, Programs, SoundInvocation, Writing, GeneratorsInv
    <2>3. generators' = [generators EXCEPT ![g] = y] /\ UNCHANGED <<export, reference, shards>>
      BY <1>1, <1>4, <2>1 DEF ReadReference, programFiles
    <2>4. QED
      BY <1>1, <2>2, <2>3, QuietKeeps DEF Writing
  <1>5. CASE HashProgram(g)
    <2>1. PICK y : y = [x EXCEPT !.pc = "preflight", !.receipt = export]
      OBVIOUS
    <2>2. y \in Invocation /\ y.range = x.range /\ SoundInvocation(y, shard) /\ y.pc = "preflight"
      BY <1>1, <1>2, <1>5, <2>1
      DEF HashProgram, On, Invocation, InvocationPoints, Programs, SoundInvocation, Writing, GeneratorsInv
    <2>3. generators' = [generators EXCEPT ![g] = y] /\ UNCHANGED <<export, reference, shards>>
      BY <1>1, <1>5, <2>1 DEF HashProgram, programFiles
    <2>4. QED
      BY <1>1, <2>2, <2>3, QuietKeeps DEF Writing
  <1>6. CASE Preflight(g)
    <2>1. PICK y : y = [x EXCEPT !.pc = IF Preflighted(g) THEN "look" ELSE "failed"]
      OBVIOUS
    <2>2. y \in Invocation /\ y.range = x.range /\ y.pc \notin Writing
      BY <1>2, <2>1 DEF Invocation, InvocationPoints, Writing
    <2>3. SoundInvocation(y, shard)
      <3>1. CASE Preflighted(g)
        BY <1>1, <1>2, <1>6, <2>1, <3>1
        DEF Preflight, Preflighted, On, Invocation, SoundInvocation, Writing
      <3>2. CASE ~Preflighted(g)
        BY <1>2, <2>1, <3>2 DEF Invocation, SoundInvocation, Writing
      <3>3. QED
        BY <3>1, <3>2
    <2>4. generators' = [generators EXCEPT ![g] = y] /\ UNCHANGED <<export, reference, shards>>
      BY <1>1, <1>6, <2>1 DEF Preflight, Goto, programFiles
    <2>5. QED
      BY <1>1, <2>2, <2>3, <2>4, QuietKeeps
  <1>7. CASE LookForShard(g)
    <2>1. PICK p \in {"failed", "open"} : generators' = [generators EXCEPT ![g].pc = p]
      BY <1>7 DEF LookForShard, Goto
    <2>2. PICK y : y = [x EXCEPT !.pc = p]
      OBVIOUS
    <2>3. y \in Invocation /\ y.range = x.range /\ y.pc \notin Writing /\ SoundInvocation(y, shard)
      BY <1>1, <1>2, <1>7, <2>1, <2>2 DEF LookForShard, On, Invocation, InvocationPoints, SoundInvocation, Writing
    <2>4. generators' = [generators EXCEPT ![g] = y] /\ UNCHANGED <<export, reference, shards>>
      BY <1>1, <1>7, <2>1, <2>2 DEF LookForShard, programFiles
    <2>5. QED
      BY <1>1, <2>3, <2>4, QuietKeeps
  <1>8. CASE KillGenerator(g)
    <2>1. PICK y : y = [x EXCEPT !.pc = "killed"]
      OBVIOUS
    <2>2. y \in Invocation /\ y.range = x.range /\ y.pc \notin Writing /\ SoundInvocation(y, shard)
      BY <1>2, <2>1 DEF Invocation, InvocationPoints, SoundInvocation, Writing
    <2>3. generators' = [generators EXCEPT ![g] = y] /\ UNCHANGED <<export, reference, shards>>
      BY <1>1, <1>8, <2>1 DEF KillGenerator, Goto, programFiles
    <2>4. QED
      BY <1>1, <2>2, <2>3, QuietKeeps
  <1>9. QED
    BY <1>3, <1>4, <1>5, <1>6, <1>7, <1>8
LEMMA OpenKeeps ==
  ASSUME GeneratorsInv, NEW g \in Generators, OpenPayload(g)
  PROVE  GeneratorsInv'
  <1>1. PICK x, shard : x = generators[g] /\ shard = shards[x.range]
    OBVIOUS
  <1>2. /\ x \in Invocation /\ SoundInvocation(x, shard) /\ x.pc = "open" /\ x.range \in Requests
        /\ shard \in Shard /\ SoundShard(shard, x.range)
    BY <1>1, GeneratorTypes DEF OpenPayload, On
  <1>3. CASE shard.there
    <2>1. PICK y : y = [x EXCEPT !.pc = "failed"]
      OBVIOUS
    <2>2. y \in Invocation /\ y.range = x.range /\ y.pc \notin Writing /\ SoundInvocation(y, shard)
      BY <1>2, <2>1 DEF Invocation, InvocationPoints, SoundInvocation, Writing
    <2>3. generators' = [generators EXCEPT ![g] = y] /\ UNCHANGED <<export, reference, shards>>
      BY <1>1, <1>3, <2>1 DEF OpenPayload, Goto, programFiles
    <2>4. QED
      BY <1>1, <2>2, <2>3, QuietKeeps
  <1>4. CASE ~shard.there
    <2>1. PICK y, new : y = [x EXCEPT !.pc = "evaluate"] /\ new = [shard EXCEPT !.there = TRUE]
      OBVIOUS
    <2>2. y \in Invocation /\ y.range = x.range /\ new \in Shard
      BY <1>2, <2>1 DEF Invocation, InvocationPoints, Shard
    <2>3. y.words = <<>> /\ new.words = <<>> /\ new.there /\ new.metadata = "absent"
      BY <1>2, <1>4, <2>1 DEF Invocation, Shard, SoundInvocation, SoundShard
    <2>4. x.range[1] < x.range[2] /\ x.range[1] \in Nat /\ x.range[2] \in Nat
      BY <1>2, ShardsAssumption
    <2>5. AreOf(y.words, y.evaluator, y.range) /\ Len(y.words) <= y.range[2] - y.range[1]
      BY <2>2, <2>3, <2>4 DEF AreOf
    <2>6. y.pc = "evaluate" /\ y.evaluator = x.evaluator /\ y.receipt = x.receipt
      BY <1>2, <2>1 DEF Invocation
    <2>7. SoundInvocation(y, new)
      BY <1>2, <2>3, <2>5, <2>6 DEF SoundInvocation, Writing
    <2>8. SoundShard(new, y.range)
      BY <2>3 DEF SoundShard
    <2>9. generators' = [generators EXCEPT ![g] = y] /\ shards' = [shards EXCEPT ![y.range] = new]
      BY <1>1, <1>4, <2>1, <2>2 DEF OpenPayload, Goto
    <2>10. UNCHANGED <<export, reference>>
      BY DEF OpenPayload, programFiles
    <2>11. QED
      BY <1>1, <1>4, <2>2, <2>7, <2>8, <2>9, <2>10, StepKeeps
  <1>5. QED
    BY <1>3, <1>4

LEMMA EvaluateKeeps ==
  ASSUME GeneratorsInv, NEW g \in Generators, EvaluateRecord(g)
  PROVE  GeneratorsInv'
  <1>1. PICK x, shard, length :
          x = generators[g] /\ shard = shards[x.range] /\ length = Len(x.words)
    OBVIOUS
  <1>2. /\ x \in Invocation /\ SoundInvocation(x, shard) /\ x.pc = "evaluate" /\ x.range \in Requests
        /\ shard \in Shard /\ SoundShard(shard, x.range)
    BY <1>1, GeneratorTypes DEF EvaluateRecord, On
  <1>3. length \in Nat /\ x.words \in Seq(Nat) /\ x.range[1] \in Nat /\ x.range[2] \in Nat
    BY <1>1, <1>2, ShardsAssumption DEF Invocation
  <1>4. UNCHANGED <<export, reference>>
    BY DEF EvaluateRecord, programFiles
  <1>5. /\ x.evaluator \in Exports /\ SameOnCorpus(x.evaluator, x.receipt)
        /\ AreOf(x.words, x.evaluator, x.range)
        /\ shard.there /\ shard.words = x.words /\ shard.metadata # "whole"
    BY <1>2 DEF SoundInvocation, Writing
  <1> DEFINE codes == Observed(x.evaluator, ContextAt(x.range[1] + length))
  <1>6. CASE /\ length < x.range[2] - x.range[1] /\ IsRecord(codes)
             /\ generators' = [generators EXCEPT ![g].words = Append(@, Pack(codes))]
             /\ shards' = [shards EXCEPT ![x.range].words = Append(@, Pack(codes))]
    <2>1. PICK word \in Nat : word = Pack(codes)
      BY <1>6, PackIsRead
    <2>2. PICK words \in Seq(Nat) : words = Append(x.words, word)
      <3>1. PICK old \in Seq(Nat) : old = x.words
        BY <1>3
      <3>2. Append(old, word) \in Seq(Nat)
        OBVIOUS
      <3>3. QED
        BY <3>1, <3>2
    <2>3. /\ Len(words) = length + 1 /\ words[length + 1] = word
          /\ \A n \in 1 .. length : words[n] = x.words[n]
      <3>1. PICK old \in Seq(Nat) : old = x.words
        BY <1>3
      <3>2. words = Append(old, word) /\ length = Len(old)
        BY <1>1, <2>2, <3>1
      <3>3. QED
        BY <3>1, <3>2
    <2>4. PICK y, new : y = [x EXCEPT !.words = words] /\ new = [shard EXCEPT !.words = words]
      OBVIOUS
    <2>5. y \in Invocation /\ y.range = x.range /\ new \in Shard
      BY <1>2, <2>4 DEF Invocation, Shard
    <2>6. /\ y.words = words /\ y.evaluator = x.evaluator /\ y.receipt = x.receipt
          /\ y.pc = "evaluate"
          /\ new.words = words /\ new.there /\ new.metadata # "whole"
      BY <1>2, <1>5, <2>4 DEF Invocation, Shard
    <2>7. AreOf(words, x.evaluator, x.range)
      <3> SUFFICES ASSUME NEW n \in 1 .. length + 1
                   PROVE  /\ IsRecord(Observed(x.evaluator, ContextAt(x.range[1] + n - 1)))
                          /\ words[n] = Pack(Observed(x.evaluator, ContextAt(x.range[1] + n - 1)))
        BY <2>3 DEF AreOf
      <3>1. CASE n = length + 1
        <4>1. x.range[1] + n - 1 = x.range[1] + length
          BY <3>1, <1>3
        <4>2. QED
          BY <3>1, <4>1, <1>6, <2>1, <2>3
      <3>2. CASE n # length + 1
        <4>1. n \in 1 .. Len(x.words) /\ n \in 1 .. length
          BY <3>2, <1>1, <1>3
        <4>2. QED
          BY <4>1, <1>5, <2>3 DEF AreOf
      <3>3. QED
        BY <3>1, <3>2
    <2>8. Len(words) <= x.range[2] - x.range[1]
      BY <1>3, <1>6, <2>3
    <2>9. SoundInvocation(y, new) /\ SoundShard(new, y.range)
      BY <1>5, <2>5, <2>6, <2>7, <2>8 DEF SoundInvocation, SoundShard, Writing
    <2>10. generators' = [generators EXCEPT ![g] = y] /\ shards' = [shards EXCEPT ![y.range] = new]
      <3>1. generators' = [generators EXCEPT ![g] = [x EXCEPT !.words = Append(@, Pack(codes))]]
        BY <1>1, <1>6
      <3>2. shards' = [shards EXCEPT ![x.range] = [shard EXCEPT !.words = Append(@, Pack(codes))]]
        BY <1>1, <1>6
      <3>3. y = [x EXCEPT !.words = Append(@, Pack(codes))]
        BY <2>1, <2>2, <2>4, <1>2 DEF Invocation
      <3>4. new = [shard EXCEPT !.words = Append(@, Pack(codes))]
        BY <2>1, <2>2, <2>4, <1>2, <1>5 DEF Shard
      <3>5. QED
        BY <2>5, <3>1, <3>2, <3>3, <3>4
    <2>11. generators[g].pc \in Writing
      BY <1>1, <1>2 DEF Writing
    <2>12. QED
      BY <1>1, <1>4, <2>5, <2>9, <2>10, <2>11, StepKeeps
  <1>7. CASE Goto(g, "failed") /\ UNCHANGED shards
    <2>1. PICK y : y = [x EXCEPT !.pc = "failed"]
      OBVIOUS
    <2>2. y \in Invocation /\ y.range = x.range /\ y.pc \notin Writing /\ SoundInvocation(y, shard)
      BY <1>2, <2>1 DEF Invocation, InvocationPoints, SoundInvocation, Writing
    <2>3. generators' = [generators EXCEPT ![g] = y] /\ UNCHANGED <<export, reference, shards>>
      BY <1>1, <1>4, <1>7, <2>1 DEF Goto
    <2>4. QED
      BY <1>1, <2>2, <2>3, QuietKeeps
  <1>8. CASE Goto(g, "metadata") /\ UNCHANGED shards /\ length = x.range[2] - x.range[1]
    <2>1. PICK y : y = [x EXCEPT !.pc = "metadata"]
      OBVIOUS
    <2>2. /\ y \in Invocation /\ y.range = x.range /\ y.words = x.words /\ y.pc = "metadata"
          /\ y.evaluator = x.evaluator /\ y.receipt = x.receipt
      BY <1>2, <2>1 DEF Invocation, InvocationPoints
    <2>3. SoundInvocation(y, shard)
      BY <1>1, <1>2, <1>3, <1>5, <1>8, <2>2 DEF SoundInvocation, Writing
    <2>4. generators' = [generators EXCEPT ![g] = y] /\ UNCHANGED <<export, reference, shards>>
      BY <1>1, <1>4, <1>8, <2>1 DEF Goto
    <2>5. generators[g].pc \in Writing
      BY <1>1, <1>2 DEF Writing
    <2>6. QED
      BY <1>1, <2>2, <2>3, <2>4, <2>5, QuietKeeps
  <1>9. QED
    BY <1>1, <1>6, <1>7, <1>8 DEF EvaluateRecord

LEMMA TruncateKeeps ==
  ASSUME GeneratorsInv, NEW g \in Generators, TruncateMetadata(g)
  PROVE  GeneratorsInv'
  <1>1. PICK x, shard : x = generators[g] /\ shard = shards[x.range]
    OBVIOUS
  <1>2. /\ x \in Invocation /\ SoundInvocation(x, shard) /\ x.pc = "metadata" /\ x.range \in Requests
        /\ shard \in Shard
    BY <1>1, GeneratorTypes DEF TruncateMetadata, On
  <1>3. PICK y, new : y = [x EXCEPT !.pc = "receipt"] /\ new = [shard EXCEPT !.metadata = "torn"]
    OBVIOUS
  <1>4. /\ y \in Invocation /\ y.range = x.range /\ new \in Shard
        /\ y.words = x.words /\ y.evaluator = x.evaluator /\ y.receipt = x.receipt /\ y.pc = "receipt"
        /\ new.words = shard.words /\ new.there = shard.there /\ new.metadata = "torn"
    BY <1>2, <1>3 DEF Invocation, InvocationPoints, Shard
  <1>5. SoundInvocation(y, new) /\ SoundShard(new, y.range)
    BY <1>2, <1>4 DEF SoundInvocation, SoundShard, Writing
  <1>6. generators' = [generators EXCEPT ![g] = y] /\ shards' = [shards EXCEPT ![y.range] = new]
    BY <1>1, <1>3, <1>4 DEF TruncateMetadata, Goto
  <1>7. generators[g].pc \in Writing /\ UNCHANGED <<export, reference>>
    BY <1>1, <1>2 DEF Writing, TruncateMetadata, programFiles
  <1>8. QED
    BY <1>1, <1>4, <1>5, <1>6, <1>7, StepKeeps

LEMMA WriteKeeps ==
  ASSUME GeneratorsInv, NEW g \in Generators, WriteMetadata(g)
  PROVE  GeneratorsInv'
  <1>1. PICK x, shard : x = generators[g] /\ shard = shards[x.range]
    OBVIOUS
  <1>2. /\ x \in Invocation /\ SoundInvocation(x, shard) /\ x.pc = "receipt" /\ x.range \in Requests
        /\ shard \in Shard
    BY <1>1, GeneratorTypes DEF WriteMetadata, On
  <1>3. PICK y, new :
          /\ y = [x EXCEPT !.pc = "complete"]
          /\ new = [shard EXCEPT !.metadata = "whole", !.receipt = x.receipt, !.claimed = x.words]
    OBVIOUS
  <1>4. /\ y \in Invocation /\ y.range = x.range /\ new \in Shard /\ y.pc = "complete"
        /\ new.words = shard.words /\ new.there = shard.there /\ new.metadata = "whole"
        /\ new.receipt = x.receipt
    BY <1>2, <1>3 DEF Invocation, InvocationPoints, Shard
  <1>5. SoundInvocation(y, new)
    BY <1>4 DEF SoundInvocation, Writing
  <1>6. SoundShard(new, y.range)
    <2>1. /\ x.evaluator \in Exports /\ SameOnCorpus(x.evaluator, x.receipt)
          /\ AreOf(x.words, x.evaluator, x.range) /\ Len(x.words) = x.range[2] - x.range[1]
          /\ shard.there /\ shard.words = x.words
      BY <1>2 DEF SoundInvocation, Writing
    <2>2. QED
      BY <1>4, <2>1 DEF SoundShard
  <1>7. generators' = [generators EXCEPT ![g] = y] /\ shards' = [shards EXCEPT ![y.range] = new]
    BY <1>1, <1>3, <1>4 DEF WriteMetadata, Goto
  <1>8. generators[g].pc \in Writing /\ UNCHANGED <<export, reference>>
    BY <1>1, <1>2 DEF Writing, WriteMetadata, programFiles
  <1>9. QED
    BY <1>1, <1>4, <1>5, <1>6, <1>7, <1>8, StepKeeps
LEMMA GeneratorsKeep ==
  ASSUME GeneratorsInv, [ShardsNext]_shardVars
  PROVE  GeneratorsInv'
  <1>1. ASSUME UNCHANGED <<generators, shards>>, export' \in Exports, reference' \in Exports
        PROVE  GeneratorsInv'
    BY <1>1 DEF GeneratorsInv
  <1>2. ASSUME UNCHANGED <<programFiles, shards, generators>> PROVE GeneratorsInv'
    BY <1>1, <1>2 DEF GeneratorsInv, programFiles
  <1>3. ASSUME ExchangeInputs PROVE GeneratorsInv'
    BY <1>1, <1>3 DEF ExchangeInputs, GeneratorsInv
  <1>4. ASSUME StartMerge \/ VerifyNext \/ MergeReceipts PROVE GeneratorsInv'
    BY <1>2, <1>4 DEF StartMerge, VerifyNext, MergeReceipts
  <1>5. ASSUME NEW g \in Generators, Generate(g) \/ KillGenerator(g) PROVE GeneratorsInv'
    BY <1>5, EarlyKeeps, OpenKeeps, EvaluateKeeps, TruncateKeeps, WriteKeeps, Zenon DEF Generate
  <1>6. ASSUME UNCHANGED shardVars PROVE GeneratorsInv'
    BY <1>2, <1>6 DEF shardVars, programFiles
  <1>7. QED
    BY <1>3, <1>4, <1>5, <1>6, Zenon DEF ShardsNext

LEMMA StartKeeps ==
  ASSUME MergeInv, StartMerge
  PROVE  MergeInv'
  <1>1. PICK a \in Requests, b \in Requests :
          \E paths \in {<<a>>, <<a, b>>} : merge' = [merge EXCEPT !.pc = "verify", !.left = paths]
    BY DEF StartMerge
  <1>2. PICK paths \in {<<a>>, <<a, b>>} : merge' = [merge EXCEPT !.pc = "verify", !.left = paths]
    BY <1>1
  <1>3. paths \in Seq(Requests) /\ Len(paths) <= 2 /\ Len(paths) \in Nat
    <2>1. /\ <<a>> \in Seq(Requests) /\ Len(<<a>>) = 1
          /\ <<a, b>> \in Seq(Requests) /\ Len(<<a, b>>) = 2
      OBVIOUS
    <2>2. CASE paths = <<a>>
      BY <2>1, <2>2
    <2>3. CASE paths = <<a, b>>
      BY <2>1, <2>3
    <2>4. QED
      BY <2>2, <2>3
  <1>4. merge.pc = "idle" /\ merge.seen = <<>> /\ ~merge.covered
    BY DEF StartMerge, MergeInv
  <1>5. /\ merge'.pc = "verify" /\ merge'.left = paths /\ merge'.seen = <<>> /\ ~merge'.covered
        /\ merge' \in [pc : {"idle", "verify", "rejected", "merged"}, left : Seq(Requests),
                       seen : Seq([range : Requests, words : Seq(Nat), receipt : Programs]),
                       covered : BOOLEAN]
    BY <1>2, <1>3, <1>4 DEF MergeInv
  <1>6. QED
    BY <1>3, <1>5 DEF MergeInv

LEMMA VerifyKeeps ==
  ASSUME GeneratorsInv, MergeInv, VerifyNext
  PROVE  MergeInv'
  <1> DEFINE Seen == [range : Requests, words : Seq(Nat), receipt : Programs]
  <1>1. /\ merge.pc = "verify" /\ ~merge.covered
        /\ merge \in [pc : {"idle", "verify", "rejected", "merged"}, left : Seq(Requests),
                      seen : Seq(Seen), covered : BOOLEAN]
        /\ merge.left # <<>>
    BY DEF VerifyNext, MergeInv
  <1>2. PICK left \in Seq(Requests), seen \in Seq(Seen) : left = merge.left /\ seen = merge.seen
    BY <1>1
  <1>3. PICK r \in Requests : r = Head(left)
    BY <1>1, <1>2
  <1>4. /\ Tail(left) \in Seq(Requests) /\ Len(Tail(left)) = Len(left) - 1
        /\ Len(seen) + Len(left) <= 2
    BY <1>1, <1>2 DEF MergeInv
  <1>5. CASE ~Verifies(r)
    <2>1. merge' = [merge EXCEPT !.pc = "rejected"]
      BY <1>2, <1>3, <1>5 DEF VerifyNext
    <2>2. /\ merge'.pc = "rejected" /\ merge'.left = merge.left /\ merge'.seen = merge.seen
          /\ ~merge'.covered
          /\ merge' \in [pc : {"idle", "verify", "rejected", "merged"}, left : Seq(Requests),
                      seen : Seq(Seen), covered : BOOLEAN]
      BY <1>1, <2>1
    <2>3. QED
      BY <2>2 DEF MergeInv
  <1>6. CASE Verifies(r)
    <2>1. PICK new : new = [range |-> r, words |-> shards[r].claimed, receipt |-> shards[r].receipt]
      OBVIOUS
    <2>2. SoundShard(shards[r], r) /\ shards[r] \in Shard
      BY DEF GeneratorsInv
    <2>3. new \in Seen
      BY <2>1, <2>2 DEF Shard
    <2>4. WordsAreRight(new.words, new.receipt, new.range)
      BY <1>6, <2>1, <2>2, VerifiedIsRight
    <2>5. merge' = [merge EXCEPT !.left = Tail(@), !.seen = Append(@, new)]
      BY <1>2, <1>3, <1>6, <2>1 DEF VerifyNext
    <2>6. PICK more \in Seq(Seen) : more = Append(seen, new)
      <3> HIDE DEF Seen
      <3>1. Append(seen, new) \in Seq(Seen)
        BY <2>3
      <3>2. QED
        BY <3>1
    <2>7. /\ Len(more) = Len(seen) + 1 /\ more[Len(seen) + 1] = new
          /\ \A n \in 1 .. Len(seen) : more[n] = seen[n]
      BY <2>3, <2>6
    <2>8. /\ merge'.pc = "verify" /\ merge'.left = Tail(left) /\ merge'.seen = more
          /\ ~merge'.covered
          /\ merge' \in [pc : {"idle", "verify", "rejected", "merged"}, left : Seq(Requests),
                      seen : Seq(Seen), covered : BOOLEAN]
      BY <1>1, <1>2, <1>4, <2>5, <2>6
    <2>9. ASSUME NEW n \in 1 .. Len(more)
          PROVE  WordsAreRight(more[n].words, more[n].receipt, more[n].range)
      <3>1. CASE n = Len(seen) + 1
        BY <3>1, <2>4, <2>7
      <3>2. CASE n # Len(seen) + 1
        <4>1. n \in 1 .. Len(seen)
          BY <3>2, <2>7
        <4>2. QED
          BY <4>1, <2>7, <1>2 DEF MergeInv
      <3>3. QED
        BY <3>1, <3>2
    <2>10. Len(more) + Len(Tail(left)) <= 2
      BY <1>4, <2>7
    <2>11. QED
      BY <2>8, <2>9, <2>10 DEF MergeInv
  <1>7. QED
    BY <1>5, <1>6

LEMMA ReceiptsKeep ==
  ASSUME MergeInv, MergeReceipts
  PROVE  MergeInv'
  <1>1. /\ merge.pc = "verify"
        /\ merge' = [merge EXCEPT !.pc = IF Covers(merge.seen) THEN "merged" ELSE "rejected",
                                  !.covered = Covers(merge.seen)]
    BY DEF MergeReceipts
  <1>2. Covers(merge.seen) \in BOOLEAN
    BY Zenon DEF Covers
  <1>3. PICK covers \in BOOLEAN : covers = Covers(merge.seen)
    BY <1>2
  <1>4. /\ merge'.pc = (IF covers THEN "merged" ELSE "rejected")
        /\ merge'.covered = covers /\ merge'.left = merge.left /\ merge'.seen = merge.seen
        /\ merge' \in [pc : {"idle", "verify", "rejected", "merged"}, left : Seq(Requests),
                  seen : Seq([range : Requests, words : Seq(Nat), receipt : Programs]),
                  covered : BOOLEAN]
    BY <1>1, <1>3 DEF MergeInv
  <1>5. covers => Covers(merge'.seen)
    BY <1>3, <1>4
  <1>6. merge'.covered => merge'.pc = "merged" /\ Covers(merge'.seen)
    BY <1>4, <1>5
  <1>7. QED
    BY <1>4, <1>6 DEF MergeInv

LEMMA MergeKeeps ==
  ASSUME GeneratorsInv, MergeInv, [ShardsNext]_shardVars
  PROVE  MergeInv'
  <1>1. ASSUME UNCHANGED merge PROVE MergeInv'
    BY <1>1 DEF MergeInv
  <1>2. ASSUME NEW g \in Generators, Generate(g) \/ KillGenerator(g) PROVE UNCHANGED merge
    BY <1>2, Zenon
    DEF Generate, KillGenerator, LoadProgram, ReadReference, HashProgram, Preflight, LookForShard,
        OpenPayload, EvaluateRecord, TruncateMetadata, WriteMetadata
  <1>3. ASSUME ExchangeInputs PROVE UNCHANGED merge
    BY <1>3 DEF ExchangeInputs
  <1>4. ASSUME UNCHANGED shardVars PROVE UNCHANGED merge
    BY <1>4 DEF shardVars
  <1>5. QED
    BY <1>1, <1>2, <1>3, <1>4, StartKeeps, VerifyKeeps, ReceiptsKeep, Zenon DEF ShardsNext

LEMMA ShardsKeepInv == ShardsSpec => []ShardsInv
<1>1. ShardsInv /\ [ShardsNext]_shardVars => ShardsInv'
  BY GeneratorsKeep, MergeKeeps, Zenon DEF ShardsInv
<1>2. QED
  BY <1>1, ShardsInitInv, PTL DEF ShardsSpec

-----------------------------------------------------------------------------
(* Of one or two shards that cover everything, one holds a context.        *)

Holds(seen, n, index) == seen[n].range[1] <= index /\ index < seen[n].range[2]

LEMMA ElementOf ==
  ASSUME NEW S, NEW q \in Seq(S), NEW n \in 1 .. Len(q)
  PROVE  q[n] \in S
  OBVIOUS

LEMMA OneShardHolds ==
  ASSUME NEW seen \in Seq([range : Requests, words : Seq(Nat), receipt : Programs]),
         Len(seen) <= 2, Covers(seen), NEW index \in 0 .. (Contexts - 1)
  PROVE  \E k \in 1 .. Len(seen) : {n \in 1 .. Len(seen) : Holds(seen, n, index)} = {k}
  <1>1. PICK length \in {1, 2} : length = Len(seen)
    <2>1. Len(seen) \in Nat /\ Len(seen) # 0
      <3>1. Len(seen) = 0 => seen = <<>>
        OBVIOUS
      <3>2. QED
        BY <3>1 DEF Covers
    <2>2. PICK length \in Nat : length = Len(seen)
      BY <2>1
    <2>3. length \in {1, 2}
      <3>1. length # 0 /\ length <= 2
        BY <2>1, <2>2
      <3>2. QED
        BY <3>1
    <2>4. QED
      BY <2>2, <2>3
  <1>2. ASSUME NEW n \in 1 .. length
        PROVE  /\ seen[n].range[1] \in Nat /\ seen[n].range[2] \in Nat
               /\ seen[n].range[1] < seen[n].range[2]
    <2>1. seen[n] \in [range : Requests, words : Seq(Nat), receipt : Programs]
      BY <1>1, ElementOf, Zenon
    <2>2. QED
      BY <2>1, ShardsAssumption
  <1>3. PICK order \in [1 .. length -> 1 .. length] :
         /\ \A m, n \in 1 .. length :
              m < n => /\ order[m] # order[n]
                       /\ seen[order[m]].range[1] <= seen[order[n]].range[1]
         /\ seen[order[1]].range[1] = 0
         /\ \A n \in 1 .. (length - 1) :
              seen[order[n + 1]].range[1] = seen[order[n]].range[2]
         /\ seen[order[length]].range[2] = Contexts
    BY <1>1 DEF Covers
  <1>4. CASE length = 1
    <2>1. order[1] = 1
      BY <1>3, <1>4
    <2>2. Contexts \in Nat /\ index \in Nat
      BY <1>2, <1>3, <1>4, <2>1
    <2>3. Holds(seen, 1, index)
      BY <1>2, <1>3, <1>4, <2>1, <2>2 DEF Holds
    <2>4. {n \in 1 .. Len(seen) : Holds(seen, n, index)} = {1}
      BY <1>1, <1>4, <2>3
    <2>5. QED
      BY <1>1, <1>4, <2>4
  <1>5. CASE length = 2
    <2>1. PICK a \in 1 .. 2, b \in 1 .. 2 : a = order[1] /\ b = order[2] /\ a # b
      BY <1>3, <1>5
    <2>2. /\ seen[a].range[1] = 0 /\ seen[b].range[1] = seen[a].range[2]
          /\ seen[b].range[2] = Contexts
      BY <1>3, <1>5, <2>1
    <2>3. /\ seen[a].range[2] \in Nat /\ seen[b].range[2] \in Nat
      BY <1>2, <1>5
    <2>4. index \in Nat /\ index < Contexts
      <3>1. PICK top \in Nat : top = Contexts
        BY <2>2, <2>3
      <3>2. index \in 0 .. (top - 1)
        BY <3>1
      <3>3. QED
        BY <3>1, <3>2
    <2>5. Holds(seen, a, index) <=> index < seen[a].range[2]
      BY <2>2, <2>3, <2>4 DEF Holds
    <2>6. Holds(seen, b, index) <=> ~(index < seen[a].range[2])
      <3>1. PICK middle \in Nat : middle = seen[a].range[2]
        BY <2>3
      <3>2. Holds(seen, b, index) <=> middle <= index
        BY <2>2, <2>4, <3>1 DEF Holds
      <3>3. QED
        BY <2>4, <3>1, <3>2
    <2>7. 1 .. Len(seen) = {a, b}
      BY <1>1, <1>5, <2>1
    <2>8. \/ {n \in 1 .. Len(seen) : Holds(seen, n, index)} = {a}
          \/ {n \in 1 .. Len(seen) : Holds(seen, n, index)} = {b}
      BY <2>1, <2>5, <2>6, <2>7
    <2>9. QED
      BY <2>7, <2>8
  <1>6. QED
    BY <1>4, <1>5

LEMMA CoverageIsRight ==
  ASSUME MergeInv, merge.covered, NEW index \in 0 .. (Contexts - 1)
  PROVE  /\ Cardinality({n \in 1..Len(merge.seen) :
                    merge.seen[n].range[1] <= index /\ index < merge.seen[n].range[2]}) = 1
         /\ \A n \in 1..Len(merge.seen) :
              merge.seen[n].range[1] <= index /\ index < merge.seen[n].range[2] =>
                 WordOf(merge.seen[n].words[index - merge.seen[n].range[1] + 1],
                        merge.seen[1].receipt, index)
  <1>1. PICK seen \in Seq([range : Requests, words : Seq(Nat), receipt : Programs]) :
          seen = merge.seen
    BY DEF MergeInv
  <1>2. Covers(seen) /\ Len(seen) <= 2
    <2>1. merge.left \in Seq(Requests) /\ Len(seen) + Len(merge.left) <= 2 /\ Covers(seen)
      BY <1>1 DEF MergeInv
    <2>2. QED
      BY <2>1
  <1>3. PICK k \in 1 .. Len(seen) : {n \in 1 .. Len(seen) : Holds(seen, n, index)} = {k}
    BY <1>2, OneShardHolds
  <1>4. Cardinality({n \in 1 .. Len(seen) : Holds(seen, n, index)}) = 1
    BY <1>3, FS_Singleton
  <1>5. ASSUME NEW n \in 1 .. Len(seen), Holds(seen, n, index)
        PROVE  WordOf(seen[n].words[index - seen[n].range[1] + 1], seen[1].receipt, index)
    <2>1. seen[n] \in [range : Requests, words : Seq(Nat), receipt : Programs]
      BY ElementOf, Zenon
    <2>2. PICK from \in Nat, upto \in Nat : from = seen[n].range[1] /\ upto = seen[n].range[2]
      BY <2>1, ShardsAssumption
    <2>3. from <= index /\ index < upto
      BY <1>5, <2>2 DEF Holds
    <2>4. index - from + 1 \in 1 .. upto - from /\ from + (index - from + 1) - 1 = index
      <3>1. PICK i \in Int : i = index
        OBVIOUS
      <3>2. QED
        BY <3>1, <2>3
    <2>5. WordsAreRight(seen[n].words, seen[n].receipt, seen[n].range)
      BY <1>1 DEF MergeInv
    <2>6. seen[n].receipt = seen[1].receipt
      BY <1>2 DEF Covers
    <2>7. WordOf(seen[n].words[index - from + 1], seen[n].receipt, index)
      BY <2>2, <2>4, <2>5 DEF WordsAreRight
    <2>8. QED
      BY <2>2, <2>6, <2>7
  <1>6. QED
    BY <1>1, <1>4, <1>5 DEF Holds

(* However invocations overlap, die or find their inputs exchanged, and    *)
(* whatever the programs compute: a shard that verify_shard accepts holds  *)
(* the observables of the program its receipt names, context by context,   *)
(* and a coverage receipt of merge_oracle_files stands for every context   *)
(* of the vocabulary exactly once.                                         *)
THEOREM ShardsStayRight == ShardsSpec => []ShardsAreRight
<1>1. ASSUME ShardsInv PROVE ShardsAreRight
  <2>1. GeneratorsInv /\ MergeInv
    BY <1>1 DEF ShardsInv
  <2>2. ASSUME NEW r \in Requests, Verifies(r), NEW n \in 1..(r[2] - r[1])
        PROVE  WordOf(shards[r].words[n], shards[r].receipt, r[1] + n - 1)
    <3>1. SoundShard(shards[r], r)
      BY <2>1 DEF GeneratorsInv
    <3>2. WordsAreRight(shards[r].words, shards[r].receipt, r)
      BY <2>2, <3>1, VerifiedIsRight
    <3>3. QED
      BY <3>2 DEF WordsAreRight
  <2>3. QED
    BY <2>1, <2>2, CoverageIsRight DEF ShardsAreRight
<1>2. QED
  BY <1>1, ShardsKeepInv, PTL

-----------------------------------------------------------------------------
(* The build monitor.                                                      *)

\* The process about to be sampled has its metadata row, and there is a process
\* to visit in the steps that visit one.
VisitInv ==
  /\ pc \in {"describe", "describing", "sample"} => pid \in Processes
  /\ pc = "sample" => pid \in seenPids

\* The sample after the wait, and the summary, come after the command's end.
EndedInv == final \/ pc = "summarise" => status # None

\* There is no summary before the script has stopped.
SummaryInv == pc # "stopped" => summary = None

MonitorInv ==
  /\ TypeOK
  /\ VisitInv
  /\ EndedInv
  /\ SummaryInv
  /\ SampledAreDescribed
  /\ ExitStatusIsTheCommands

-----------------------------------------------------------------------------
(* The invariant holds at first and is kept by every step. *)

\* The script starts beside its command with nothing described or sampled.
LEMMA MonitorInitInv == Init => MonitorInv
<1> SUFFICES ASSUME Init PROVE MonitorInv
  OBVIOUS
<1>1. printed \in 0 .. Lines /\ logged \in 0 .. printed
  BY LinesAssumption DEF Init
<1>2. alive \subseteq Processes /\ fresh \subseteq Workers
  BY DEF Init, Processes
<1>3. TypeOK
  BY <1>1, <1>2 DEF Init, TypeOK
<1> QED
  BY <1>3 DEF Init, MonitorInv, VisitInv, EndedInv, SummaryInv, SampledAreDescribed,
     ExitStatusIsTheCommands

\* The command, its tee and the operating system never touch the script's
\* variables, and a command ends once.
LEMMA CommandKeepsMonitor ==
  ASSUME MonitorInv,
         \/ Tee \/ PrintStage
         \/ \E w \in Workers : Spawn(w) \/ Vanish(w)
         \/ \E s \in Statuses : CommandEnds(s)
  PROVE  MonitorInv'
<1>1. TypeOK'
  <2>1. CASE Tee \/ PrintStage
    BY <2>1, LinesAssumption DEF MonitorInv, TypeOK, Tee, PrintStage, command, script
  <2>2. CASE \E w \in Workers : Spawn(w) \/ Vanish(w)
    BY <2>2 DEF MonitorInv, TypeOK, Spawn, Vanish, script, Processes
  <2>3. CASE \E s \in Statuses : CommandEnds(s)
    BY <2>3 DEF MonitorInv, TypeOK, CommandEnds, script
  <2> QED
    BY <2>1, <2>2, <2>3
<1>2. UNCHANGED script
  BY DEF Tee, PrintStage, Spawn, Vanish, CommandEnds
<1>3. status = None \/ status' = status
  BY DEF Tee, PrintStage, Spawn, Vanish, CommandEnds, command
<1> QED
  BY <1>1, <1>2, <1>3 DEF MonitorInv, script, VisitInv, EndedInv, SummaryInv, SampledAreDescribed,
     ExitStatusIsTheCommands

\* The steps of the script that only move it on.
LEMMA ControlKeepsMonitor ==
  ASSUME MonitorInv, ListTree \/ TreeSampled \/ KillProbe \/ Wait \/ \E p \in Processes : Visit(p)
  PROVE  MonitorInv'
<1>1. TypeOK'
  BY DEF MonitorInv, TypeOK, ListTree, TreeSampled, KillProbe, Wait, Visit, command, Processes
<1> QED
  BY <1>1 DEF MonitorInv, TypeOK, VisitInv, EndedInv, SummaryInv, SampledAreDescribed,
     ExitStatusIsTheCommands, ListTree, TreeSampled, KillProbe, Wait, Visit, command

\* The steps that read a process's files: it may have vanished.
LEMMA ReadKeepsMonitor == ASSUME MonitorInv, Describe \/ ReadName \/ Sample PROVE MonitorInv'
<1>1. TypeOK'
  BY DEF MonitorInv, TypeOK, VisitInv, Describe, ReadName, Sample, Errexit, StopScript, Record, command
<1>2. SampledAreDescribed'
  BY DEF MonitorInv, VisitInv, SampledAreDescribed, Describe, ReadName, Sample, Errexit, Record
<1> QED
  BY <1>1, <1>2 DEF MonitorInv, VisitInv, EndedInv, SummaryInv, ExitStatusIsTheCommands, Describe,
     ReadName, Sample, Errexit, StopScript, Record, command

\* The summary and the script's own status are the command's.
LEMMA SummariseKeepsMonitor == ASSUME MonitorInv, Summarise PROVE MonitorInv'
<1>1. status \in Statuses /\ status # None /\ logged \in 0 .. Lines
  BY LinesAssumption DEF MonitorInv, TypeOK, EndedInv, Summarise
<1>2. summary' = [exit_status |-> status, last_stage |-> logged] /\ exitStatus' = status
  BY DEF Summarise, StopScript, CommandStatus
<1>3. TypeOK'
  BY <1>1, <1>2 DEF MonitorInv, TypeOK, Summarise, StopScript, command
<1> QED
  BY <1>1, <1>2, <1>3 DEF MonitorInv, VisitInv, EndedInv, SummaryInv, SampledAreDescribed,
     ExitStatusIsTheCommands, Summarise, StopScript, command

\* Every step keeps the invariant.
LEMMA MonitorKeepsInv == MonitorInv /\ [Next]_vars => MonitorInv'
<1> SUFFICES ASSUME MonitorInv, [Next]_vars PROVE MonitorInv'
  OBVIOUS
<1>1. CASE UNCHANGED vars
  BY <1>1 DEF vars, command, script, MonitorInv, TypeOK, VisitInv, EndedInv, SummaryInv,
     SampledAreDescribed, ExitStatusIsTheCommands
<1>2. CASE Next
  BY <1>2, CommandKeepsMonitor, ControlKeepsMonitor, ReadKeepsMonitor, SummariseKeepsMonitor DEF Next, Script
<1> QED
  BY <1>1, <1>2

-----------------------------------------------------------------------------
(* The theorems. *)

\* The script and its command always satisfy the invariant.
LEMMA MonitorInvariant == Spec => []MonitorInv
BY MonitorInitInv, MonitorKeepsInv, PTL DEF Spec

\* The script's logs and steps are always of their types.
THEOREM MonitorTypeCorrect == Spec => []TypeOK
<1>1. MonitorInv => TypeOK
  BY DEF MonitorInv
<1> QED
  BY <1>1, MonitorInvariant, PTL

\* No process has a sample row without a metadata row.
THEOREM SamplesHaveMetadata == Spec => []SampledAreDescribed
<1>1. MonitorInv => SampledAreDescribed
  BY DEF MonitorInv
<1> QED
  BY <1>1, MonitorInvariant, PTL

\* Unless a failed sample ends the script, its exit status and the summary's are
\* the command's.
THEOREM StatusIsTheCommands == Spec => []ExitStatusIsTheCommands
<1>1. MonitorInv => ExitStatusIsTheCommands
  BY DEF MonitorInv
<1> QED
  BY <1>1, MonitorInvariant, PTL

-----------------------------------------------------------------------------
(* The reports: what is in hand at a line, what was used, and what is      *)
(* still to be hashed.  Of the sequences only their order is used.         *)

PastLast == Len(ScriptSteps[author]) + 1

\* Every variable keeps its type, and a report is written after the last step.
ReportTypes ==
    /\ author \in Authors
    /\ touched \in SUBSET Files
    /\ line \in 1..PastLast
    /\ disk \in [Files -> FileVersions]
    /\ holding \in [Files -> FileVersions \cup {Unopened}]
    /\ used \in [Files -> SUBSET FileVersions]
    /\ named \in [Files -> SUBSET FileVersions]
    /\ swapped \in Nat
    /\ outcome \in {"running", "written", "refused"}
    /\ outcome = "written" => line = PastLast

\* What was opened is in hand, and nothing else was used.
Opened(f) ==
    IF ReadBefore(author, f, line) THEN holding[f] \in FileVersions ELSE used[f] = {}

\* While nobody exchanged a file, it is what was read and named of it, and
\* the pinned one once it was checked.
Quiet(f) ==
    swapped = 0 =>
        /\ used[f] \subseteq {disk[f]}
        /\ holding[f] \in {Unopened, disk[f]}
        /\ Checked(author, f, line) => disk[f] = Pinned
        /\ ReadBefore(author, f, PastLast) => named[f] \subseteq {disk[f]}

\* What was read last may be another file only if it is still to be hashed.
Sealing(f) ==
    <<author, f>> \in HashedAsRead =>
        \/ used[f] \subseteq {Pinned}
        \/ used[f] \subseteq {Pinned, holding[f]} /\ HashAhead(author, f, line)

\* The file is read once, and named by what was read.
Owning(f) ==
    <<author, f>> \in NamedAsRead =>
        /\ used[f] \subseteq {holding[f]}
        /\ \A k \in 1..(line - 1) :
              Does(author, k, {"own"}, f) /\ AfterReading(author, f, k) => holding[f] \in named[f]

\* Another file was read only if it was exchanged, and stays for its second
\* hash unless it is exchanged again.
Rehashing(f) ==
    <<author, f>> \in HashedAgain =>
        \/ used[f] \subseteq {Pinned}
        \/ swapped >= 2
        \/ swapped = 1 /\ ~(named[f] \subseteq {Pinned})
        \/ /\ swapped = 1
           /\ disk[f] # Pinned
           /\ \A k \in 1..(line - 1) :
                 Does(author, k, {"pin", "stamp"}, f) => ~AfterReading(author, f, k)

AuthorInv ==
    /\ ReportTypes
    /\ \A f \in Files : Opened(f) /\ Quiet(f) /\ Sealing(f) /\ Owning(f) /\ Rehashing(f)

LEMMA StepsAreSteps ==
    ASSUME NEW a \in Authors
    PROVE  /\ ScriptSteps[a] \in Seq([does : Doings, file : Files, by : Files])
           /\ Len(ScriptSteps[a]) \in Nat
           /\ \A i \in StepsOf(a) : ScriptSteps[a][i] \in [does : Doings, file : Files, by : Files]
<1> DEFINE S == [does : Doings, file : Files, by : Files]
<1>1. ScriptSteps[a] \in Seq(S)
  BY StepsAssumption DEF StepsAreOrdered
<1> HIDE DEF S
<1>2. Len(ScriptSteps[a]) \in Nat /\ \A i \in StepsOf(a) : ScriptSteps[a][i] \in S
  BY <1>1 DEF StepsOf
<1> QED
  BY <1>1, <1>2 DEF S

\* One line further, one more step was read, checked or passed.
LEMMA OneLineOn ==
    ASSUME NEW a, NEW f, NEW n \in Nat \ {0}
    PROVE  /\ ReadBefore(a, f, n + 1) <=> ReadBefore(a, f, n) \/ Does(a, n, {"take"}, f)
           /\ Checked(a, f, n + 1) =>
                \/ Checked(a, f, n)
                \/ Does(a, n, {"pin"}, f)
                \/ /\ Does(a, n, {"list", "attest"}, f)
                   /\ Checked(a, ScriptSteps[a][n].by, n)
                   /\ ReadBefore(a, ScriptSteps[a][n].by, n)
           /\ HashAhead(a, f, n) =>
                Does(a, n, {"seal"}, f) \/ (HashAhead(a, f, n + 1) /\ ~Does(a, n, {"take"}, f))
<1>1. 1..((n + 1) - 1) = 1..(n - 1) \cup {n}
  OBVIOUS
<1>2. ReadBefore(a, f, n + 1) <=> ReadBefore(a, f, n) \/ Does(a, n, {"take"}, f)
  BY <1>1, Zenon DEF ReadBefore
<1>3. ASSUME Checked(a, f, n + 1), ~Checked(a, f, n), ~Does(a, n, {"pin"}, f)
      PROVE  /\ Does(a, n, {"list", "attest"}, f)
             /\ Checked(a, ScriptSteps[a][n].by, n)
             /\ ReadBefore(a, ScriptSteps[a][n].by, n)
  <2>1. PICK i \in 1..((n + 1) - 1) :
            \/ Does(a, i, {"pin"}, f)
            \/ /\ Does(a, i, {"list", "attest"}, f)
               /\ \E j, k \in 1..(i - 1) : Does(a, j, {"pin"}, ScriptSteps[a][i].by)
                                        /\ Does(a, k, {"take"}, ScriptSteps[a][i].by)
    BY <1>3, Zenon DEF Checked
  <2>2. i \notin 1..(n - 1)
    BY <1>3, <2>1, Zenon DEF Checked
  <2>3. i = n
    BY <2>2, <1>1
  <2>4. /\ Does(a, n, {"list", "attest"}, f)
        /\ \E j, k \in 1..(n - 1) : Does(a, j, {"pin"}, ScriptSteps[a][n].by)
                                 /\ Does(a, k, {"take"}, ScriptSteps[a][n].by)
    BY <1>3, <2>1, <2>3, Zenon
  <2> QED
    BY <2>4, Zenon DEF Checked, ReadBefore
<1>4. ASSUME HashAhead(a, f, n), ~Does(a, n, {"seal"}, f)
      PROVE  HashAhead(a, f, n + 1) /\ ~Does(a, n, {"take"}, f)
  <2>1. PICK j \in StepsOf(a) :
            j >= n /\ Does(a, j, {"seal"}, f) /\ \A k \in n..(j - 1) : ~Does(a, k, {"take"}, f)
    BY <1>4, Zenon DEF HashAhead
  <2>2. j # n
    BY <1>4, <2>1, Zenon
  <2>3. j \in Nat
    BY DEF StepsOf
  <2>4. j >= n + 1 /\ n \in n..(j - 1) /\ (n + 1)..(j - 1) \subseteq n..(j - 1)
    BY <2>1, <2>2, <2>3
  <2> QED
    BY <2>1, <2>4, Zenon DEF HashAhead
<1>5. Checked(a, f, n + 1) =>
        \/ Checked(a, f, n)
        \/ Does(a, n, {"pin"}, f)
        \/ /\ Does(a, n, {"list", "attest"}, f)
           /\ Checked(a, ScriptSteps[a][n].by, n)
           /\ ReadBefore(a, ScriptSteps[a][n].by, n)
  BY <1>3, Zenon
<1>6. HashAhead(a, f, n) =>
        Does(a, n, {"seal"}, f) \/ (HashAhead(a, f, n + 1) /\ ~Does(a, n, {"take"}, f))
  BY <1>4, Zenon
<1> QED
  BY <1>2, <1>5, <1>6, Zenon

LEMMA OrderOfSteps ==
    ASSUME NEW a \in Authors, NEW f \in Files, NEW i \in StepsOf(a)
    PROVE  /\ Does(a, i, {"name"}, f) =>
                Checked(a, f, i) \/ ~ReadBefore(a, f, Len(ScriptSteps[a]) + 1)
           /\ Does(a, i, {"own", "store"}, f) => ReadBefore(a, f, i)
           /\ Does(a, i, {"store"}, f) => <<a, f>> \notin HashedAgain
           /\ Does(a, i, {"take"}, f) =>
                 /\ <<a, f>> \in HashedAsRead => HashAhead(a, f, i + 1)
                 /\ <<a, f>> \in NamedAsRead => ~ReadBefore(a, f, i)
                 /\ <<a, f>> \in HashedAgain => Checked(a, f, i)
  BY StepsAssumption, Zenon DEF StepsAreOrdered

LEMMA OrderOfFiles ==
    ASSUME NEW a \in Authors, NEW f \in Files
    PROVE  /\ <<a, f>> \in NamedAsRead =>
                 \E k \in StepsOf(a) : Does(a, k, {"own"}, f) /\ AfterReading(a, f, k)
           /\ <<a, f>> \in HashedAgain =>
                 \E k \in StepsOf(a) : Does(a, k, {"pin", "stamp"}, f) /\ AfterReading(a, f, k)
  BY StepsAssumption, Zenon DEF StepsAreOrdered

\* What a step does to one file.
LEMMA ProceedAt ==
    ASSUME ReportTypes, Proceed, NEW f \in Files
    PROVE  /\ author' = author /\ swapped' = swapped /\ touched' = touched /\ outcome' = outcome
           /\ line' = line + 1 /\ line \in StepsOf(author) /\ line \in Nat \ {0}
           /\ outcome = "running" /\ line' \in 1..PastLast
           /\ Now \in [does : Doings, file : Files, by : Files]
           /\ ~Fails(Now)
           /\ used'[f] = (IF Does(author, line, {"take"}, f) THEN used[f] \cup {disk[f]} ELSE used[f])
           /\ holding'[f] = (IF Does(author, line, {"take"}, f) THEN disk[f] ELSE holding[f])
           /\ disk'[f] = (IF Does(author, line, {"store"}, f) THEN holding[f] ELSE disk[f])
           /\ Does(author, line, {"stamp", "attest"}, f) => named'[f] = named[f] \cup {disk[f]}
           /\ Does(author, line, {"name"}, f) => named'[f] = named[f] \cup {Pinned}
           /\ Does(author, line, {"own"}, f) => named'[f] = named[f] \cup {holding[f]}
           /\ ~Does(author, line, {"stamp", "attest", "name", "own"}, f) => named'[f] = named[f]
<1> USE DEF ReportTypes
<1>1. Len(ScriptSteps[author]) \in Nat
  BY StepsAreSteps
<1>2. line <= Len(ScriptSteps[author]) /\ outcome = "running" /\ ~Fails(Now) /\ line' = line + 1
      /\ author' = author /\ swapped' = swapped /\ touched' = touched /\ outcome' = outcome
  BY DEF Proceed, Due, Authoring
<1>3. line \in StepsOf(author) /\ line \in Nat \ {0} /\ line' \in 1..PastLast
  BY <1>1, <1>2 DEF StepsOf, PastLast
<1>4. Now \in [does : Doings, file : Files, by : Files]
  BY <1>3, StepsAreSteps, Zenon DEF Now
<1>5. \A S : Does(author, line, S, f) <=> Now.does \in S /\ Now.file = f
  BY DEF Does, Now
<1>6. used'[f] = (IF Does(author, line, {"take"}, f) THEN used[f] \cup {disk[f]} ELSE used[f])
  <2>1. used'[f] = (IF Now.file = f THEN used[f] \cup Taken(Now) ELSE used[f])
    BY <1>4 DEF Proceed
  <2>2. Taken(Now) = (IF Now.does = "take" THEN {disk[Now.file]} ELSE {})
    BY DEF Taken
  <2>3. used[f] \cup {} = used[f]
    OBVIOUS
  <2>4. Does(author, line, {"take"}, f) <=> Now.does = "take" /\ Now.file = f
    BY <1>5
  <2> QED
    BY <2>1, <2>2, <2>3, <2>4, Zenon
<1>10. holding'[f] = (IF Does(author, line, {"take"}, f) THEN disk[f] ELSE holding[f])
  BY <1>4, <1>5 DEF Proceed
<1>7. disk'[f] = (IF Does(author, line, {"store"}, f) THEN holding[f] ELSE disk[f])
  BY <1>4, <1>5 DEF Proceed
<1>8. named'[f] = (IF Now.file = f THEN named[f] \cup Recorded(Now) ELSE named[f])
  BY <1>4 DEF Proceed
<1>9. /\ Does(author, line, {"stamp", "attest"}, f) => named'[f] = named[f] \cup {disk[f]}
      /\ Does(author, line, {"name"}, f) => named'[f] = named[f] \cup {Pinned}
      /\ Does(author, line, {"own"}, f) => named'[f] = named[f] \cup {holding[f]}
      /\ ~Does(author, line, {"stamp", "attest", "name", "own"}, f) => named'[f] = named[f]
  BY <1>5, <1>8 DEF Recorded
<1> QED
  BY <1>2, <1>3, <1>4, <1>6, <1>10, <1>7, <1>9, Zenon

LEMMA ProceedTypes ==
    ASSUME AuthorInv, Proceed
    PROVE  ReportTypes'
<1>1. "contract" \in Files /\ ReportTypes
  BY DEF Files, AuthorInv
<1>2. /\ author' = author /\ swapped' = swapped /\ touched' = touched /\ outcome' = outcome
      /\ outcome = "running" /\ line' \in 1..PastLast /\ line \in StepsOf(author)
      /\ Now \in [does : Doings, file : Files, by : Files]
  BY <1>1, ProceedAt
<1>3. Now.does \in {"own", "store"} => holding[Now.file] \in FileVersions
  <2>1. Does(author, line, {"own", "store"}, Now.file) => ReadBefore(author, Now.file, line)
    BY <1>1, <1>2, OrderOfSteps DEF ReportTypes
  <2>2. Now.does \in {"own", "store"} => Does(author, line, {"own", "store"}, Now.file)
    BY DEF Does, Now
  <2> QED
    BY <1>2, <2>1, <2>2 DEF AuthorInv, Opened
<1>4. disk' \in [Files -> FileVersions]
  BY <1>1, <1>2, <1>3 DEF Proceed, ReportTypes
<1>5. holding' \in [Files -> FileVersions \cup {Unopened}]
  BY <1>1, <1>2 DEF Proceed, ReportTypes
<1>6. Taken(Now) \in SUBSET FileVersions
  BY <1>1, <1>2 DEF Taken, ReportTypes
<1>7. Recorded(Now) \in SUBSET FileVersions
  BY <1>1, <1>2, <1>3 DEF Recorded, ReportTypes, FileVersions
<1>8. used' \in [Files -> SUBSET FileVersions]
  BY <1>1, <1>2, <1>6 DEF Proceed, ReportTypes
<1>9. named' \in [Files -> SUBSET FileVersions]
  BY <1>1, <1>2, <1>7 DEF Proceed, ReportTypes
<1>10. PastLast' = PastLast
  BY <1>2 DEF PastLast
<1> QED
  BY <1>1, <1>2, <1>4, <1>5, <1>8, <1>9, <1>10 DEF ReportTypes

LEMMA ProceedOpened ==
    ASSUME AuthorInv, Proceed, NEW f \in Files
    PROVE  Opened(f)'
<1>1. ReportTypes /\ Opened(f)
  BY DEF AuthorInv
<1>2. /\ author' = author /\ line' = line + 1 /\ line \in Nat \ {0}
      /\ used'[f] = (IF Does(author, line, {"take"}, f) THEN used[f] \cup {disk[f]} ELSE used[f])
      /\ holding'[f] = (IF Does(author, line, {"take"}, f) THEN disk[f] ELSE holding[f])
  BY <1>1, ProceedAt
<1>3. ReadBefore(author, f, line + 1) <=> ReadBefore(author, f, line) \/ Does(author, line, {"take"}, f)
  BY <1>2, OneLineOn
<1>4. disk[f] \in FileVersions
  BY <1>1 DEF ReportTypes
<1>5. IF ReadBefore(author, f, line + 1) THEN holding'[f] \in FileVersions ELSE used'[f] = {}
  BY <1>1, <1>2, <1>3, <1>4 DEF Opened
<1> QED
  BY <1>2, <1>5 DEF Opened

LEMMA ProceedQuiet ==
    ASSUME AuthorInv, Proceed, NEW f \in Files
    PROVE  Quiet(f)'
<1>1. ReportTypes /\ Opened(f) /\ Quiet(f)
  BY DEF AuthorInv
<1> DEFINE This(S) == Does(author, line, S, f)
<1>2. /\ author \in Authors
      /\ author' = author /\ line' = line + 1 /\ line \in Nat \ {0} /\ line \in StepsOf(author) /\ swapped' = swapped
      /\ Now \in [does : Doings, file : Files, by : Files] /\ ~Fails(Now)
      /\ used'[f] = (IF This({"take"}) THEN used[f] \cup {disk[f]} ELSE used[f])
      /\ holding'[f] = (IF This({"take"}) THEN disk[f] ELSE holding[f])
      /\ disk'[f] = (IF This({"store"}) THEN holding[f] ELSE disk[f])
      /\ This({"stamp", "attest"}) => named'[f] = named[f] \cup {disk[f]}
      /\ This({"name"}) => named'[f] = named[f] \cup {Pinned}
      /\ This({"own"}) => named'[f] = named[f] \cup {holding[f]}
      /\ ~This({"stamp", "attest", "name", "own"}) => named'[f] = named[f]
  BY <1>1, ProceedAt DEF ReportTypes
<1>3. SUFFICES ASSUME swapped = 0
               PROVE  /\ used'[f] \subseteq {disk'[f]}
                      /\ holding'[f] \in {Unopened, disk'[f]}
                      /\ Checked(author, f, line + 1) => disk'[f] = Pinned
                      /\ ReadBefore(author, f, PastLast) => named'[f] \subseteq {disk'[f]}
  <2>1. PastLast' = PastLast
    BY <1>2 DEF PastLast
  <2> QED
    BY <1>2, <2>1 DEF Quiet
<1>4. /\ used[f] \subseteq {disk[f]}
      /\ holding[f] \in {Unopened, disk[f]}
      /\ Checked(author, f, line) => disk[f] = Pinned
      /\ ReadBefore(author, f, PastLast) => named[f] \subseteq {disk[f]}
  BY <1>1, <1>3 DEF Quiet
<1>5. /\ This({"name"}) => Checked(author, f, line) \/ ~ReadBefore(author, f, PastLast)
      /\ This({"own", "store"}) => ReadBefore(author, f, line)
  BY <1>2, OrderOfSteps DEF PastLast
<1>6. ReadBefore(author, f, line) => holding[f] = disk[f]
  <2>1. Unopened \notin FileVersions
    BY DEF Unopened, FileVersions, Pinned, Alike, Broken
  <2> QED
    BY <1>1, <1>4, <2>1, Zenon DEF Opened
<1>7. /\ This({"own"}) \/ This({"store"}) => This({"own", "store"})
      /\ This({"stamp", "attest", "name", "own"}) => This({"stamp", "attest"}) \/ This({"name"}) \/ This({"own"})
  BY DEF Does
<1>8. disk'[f] = disk[f]
  BY <1>2, <1>5, <1>6, <1>7, Zenon
<1>9. /\ used'[f] \subseteq {disk'[f]}
      /\ holding'[f] \in {Unopened, disk'[f]}
  BY <1>2, <1>4, <1>8
<1>10. ReadBefore(author, f, PastLast) => named'[f] \subseteq {disk'[f]}
  BY <1>2, <1>4, <1>5, <1>6, <1>7, <1>8
<1>11. Checked(author, f, line + 1) => disk[f] = Pinned
  <2> SUFFICES ASSUME Checked(author, f, line + 1), ~Checked(author, f, line)
               PROVE  disk[f] = Pinned
    BY <1>4
  <2>1. \/ This({"pin"})
        \/ /\ This({"list", "attest"})
           /\ Checked(author, ScriptSteps[author][line].by, line)
           /\ ReadBefore(author, ScriptSteps[author][line].by, line)
    BY <1>2, OneLineOn, Zenon
  <2>2. CASE This({"pin"})
    BY <2>2, <1>2 DEF Does, Now, Fails
  <2>3. CASE /\ This({"list", "attest"})
             /\ Checked(author, ScriptSteps[author][line].by, line)
             /\ ReadBefore(author, ScriptSteps[author][line].by, line)
    <3> DEFINE g == ScriptSteps[author][line].by
    <3>1. g \in Files /\ g = Now.by
      BY <1>2 DEF Now
    <3>2. Opened(g) /\ Quiet(g)
      BY <3>1 DEF AuthorInv
    <3>3. holding[g] \in FileVersions /\ disk[g] = Pinned /\ holding[g] \in {Unopened, disk[g]}
      BY <3>2, <2>3, <1>3 DEF Opened, Quiet
    <3>4. holding[Now.by] = Pinned
      BY <3>3, <3>1 DEF Unopened, FileVersions, Pinned, Alike, Broken
    <3>5. Now.does \in {"list", "attest"} /\ Now.file = f
      BY <2>3 DEF Does, Now
    <3> QED
      BY <3>4, <3>5, <1>2 DEF Fails
  <2> QED
    BY <2>1, <2>2, <2>3, Zenon
<1> QED
  BY <1>8, <1>9, <1>10, <1>11, Zenon

LEMMA ProceedSealing ==
    ASSUME AuthorInv, Proceed, NEW f \in Files
    PROVE  Sealing(f)'
<1>1. ReportTypes /\ Sealing(f)
  BY DEF AuthorInv
<1> DEFINE This(S) == Does(author, line, S, f)
<1>2. /\ author \in Authors
      /\ author' = author /\ line' = line + 1 /\ line \in Nat \ {0} /\ line \in StepsOf(author)
      /\ ~Fails(Now)
      /\ used'[f] = (IF This({"take"}) THEN used[f] \cup {disk[f]} ELSE used[f])
      /\ holding'[f] = (IF This({"take"}) THEN disk[f] ELSE holding[f])
  BY <1>1, ProceedAt DEF ReportTypes
<1>3. SUFFICES ASSUME <<author, f>> \in HashedAsRead
               PROVE  \/ used'[f] \subseteq {Pinned}
                      \/ used'[f] \subseteq {Pinned, holding'[f]} /\ HashAhead(author, f, line + 1)
  BY <1>2 DEF Sealing
<1>4. \/ used[f] \subseteq {Pinned}
      \/ used[f] \subseteq {Pinned, holding[f]} /\ HashAhead(author, f, line)
  BY <1>1, <1>3 DEF Sealing
<1>5. HashAhead(author, f, line) => This({"seal"}) \/ (HashAhead(author, f, line + 1) /\ ~This({"take"}))
  BY <1>2, OneLineOn
<1>6. CASE This({"take"})
  <2>1. HashAhead(author, f, line + 1)
    BY <1>2, <1>3, <1>6, OrderOfSteps
  <2>2. ~This({"seal"})
    BY <1>6 DEF Does
  <2>3. used[f] \subseteq {Pinned}
    BY <1>4, <1>5, <1>6, <2>2, Zenon
  <2> QED
    BY <1>2, <1>6, <2>1, <2>3
<1>7. CASE This({"seal"})
  <2>1. Now.does = "seal" /\ Now.file = f
    BY <1>7 DEF Does, Now
  <2>2. holding[f] = Pinned
    BY <2>1, <1>2 DEF Fails, Unsealed
  <2>3. ~This({"take"})
    BY <1>7 DEF Does
  <2> QED
    BY <1>2, <1>4, <2>2, <2>3
<1>8. CASE ~This({"take"}) /\ ~This({"seal"})
  BY <1>2, <1>4, <1>5, <1>8
<1> QED
  BY <1>6, <1>7, <1>8, Zenon

LEMMA ProceedOwning ==
    ASSUME AuthorInv, Proceed, NEW f \in Files
    PROVE  Owning(f)'
<1>1. ReportTypes /\ Owning(f) /\ Opened(f)
  BY DEF AuthorInv
<1> DEFINE This(S) == Does(author, line, S, f)
<1>2. /\ author \in Authors
      /\ author' = author /\ line' = line + 1 /\ line \in Nat \ {0} /\ line \in StepsOf(author)
      /\ used'[f] = (IF This({"take"}) THEN used[f] \cup {disk[f]} ELSE used[f])
      /\ holding'[f] = (IF This({"take"}) THEN disk[f] ELSE holding[f])
      /\ This({"stamp", "attest"}) => named'[f] = named[f] \cup {disk[f]}
      /\ This({"name"}) => named'[f] = named[f] \cup {Pinned}
      /\ This({"own"}) => named'[f] = named[f] \cup {holding[f]}
      /\ ~This({"stamp", "attest", "name", "own"}) => named'[f] = named[f]
  BY <1>1, ProceedAt DEF ReportTypes
<1>3. SUFFICES ASSUME <<author, f>> \in NamedAsRead
               PROVE  /\ used'[f] \subseteq {holding'[f]}
                      /\ \A k \in 1..((line + 1) - 1) :
                            Does(author, k, {"own"}, f) /\ AfterReading(author, f, k)
                                => holding'[f] \in named'[f]
  BY <1>2 DEF Owning
<1>4. /\ used[f] \subseteq {holding[f]}
      /\ \A k \in 1..(line - 1) :
            Does(author, k, {"own"}, f) /\ AfterReading(author, f, k) => holding[f] \in named[f]
  BY <1>1, <1>3 DEF Owning
<1>5. named[f] \subseteq named'[f]
  <2>1. This({"stamp", "attest", "name", "own"}) => This({"stamp", "attest"}) \/ This({"name"}) \/ This({"own"})
    BY DEF Does
  <2> QED
    BY <1>2, <2>1
<1>6. 1..((line + 1) - 1) = 1..(line - 1) \cup {line} /\ \A k \in 1..line : ~(line < k)
  BY <1>2
<1>7. This({"take"}) => used[f] = {} /\ \A k \in 1..line : ~AfterReading(author, f, k)
  <2> SUFFICES ASSUME This({"take"}) PROVE used[f] = {} /\ \A k \in 1..line : ~AfterReading(author, f, k)
    OBVIOUS
  <2>1. ~ReadBefore(author, f, line)
    BY <1>2, <1>3, OrderOfSteps
  <2>2. \A k \in 1..line : ~AfterReading(author, f, k)
    BY <1>2, <1>6, Zenon DEF AfterReading
  <2> QED
    BY <1>1, <2>1, <2>2, Zenon DEF Opened
<1>8. used'[f] \subseteq {holding'[f]}
  BY <1>2, <1>4, <1>7
<1>9. ASSUME NEW k \in 1..((line + 1) - 1), Does(author, k, {"own"}, f), AfterReading(author, f, k)
      PROVE  holding'[f] \in named'[f]
  <2>1. k \in 1..line
    BY <1>2
  <2>2. ~This({"take"})
    BY <2>1, <1>7, <1>9, Zenon
  <2>3. CASE k \in 1..(line - 1)
    BY <2>2, <2>3, <1>2, <1>4, <1>5, <1>9
  <2>4. CASE k = line
    BY <2>2, <2>4, <1>2, <1>9
  <2> QED
    BY <1>6, <2>3, <2>4
<1> QED
  BY <1>8, <1>9, Zenon

LEMMA ProceedRehashing ==
    ASSUME AuthorInv, Proceed, NEW f \in Files
    PROVE  Rehashing(f)'
<1>1. ReportTypes /\ Rehashing(f) /\ Quiet(f)
  BY DEF AuthorInv
<1> DEFINE This(S) == Does(author, line, S, f)
<1>2. /\ author \in Authors /\ swapped \in Nat
      /\ author' = author /\ line' = line + 1 /\ line \in Nat \ {0} /\ line \in StepsOf(author) /\ swapped' = swapped
      /\ ~Fails(Now)
      /\ used'[f] = (IF This({"take"}) THEN used[f] \cup {disk[f]} ELSE used[f])
      /\ disk'[f] = (IF This({"store"}) THEN holding[f] ELSE disk[f])
      /\ This({"stamp", "attest"}) => named'[f] = named[f] \cup {disk[f]}
      /\ This({"name"}) => named'[f] = named[f] \cup {Pinned}
      /\ This({"own"}) => named'[f] = named[f] \cup {holding[f]}
      /\ ~This({"stamp", "attest", "name", "own"}) => named'[f] = named[f]
  BY <1>1, ProceedAt DEF ReportTypes
<1> DEFINE NotYet(n) ==
              \A k \in 1..(n - 1) : Does(author, k, {"pin", "stamp"}, f) => ~AfterReading(author, f, k)
<1>3. SUFFICES ASSUME <<author, f>> \in HashedAgain, ~(swapped >= 2)
               PROVE  \/ used'[f] \subseteq {Pinned}
                      \/ swapped = 1 /\ ~(named'[f] \subseteq {Pinned})
                      \/ swapped = 1 /\ disk'[f] # Pinned /\ NotYet(line + 1)
  BY <1>2 DEF Rehashing
<1>4. \/ used[f] \subseteq {Pinned}
      \/ swapped = 1 /\ ~(named[f] \subseteq {Pinned})
      \/ swapped = 1 /\ disk[f] # Pinned /\ NotYet(line)
  BY <1>1, <1>3 DEF Rehashing
<1>5. named[f] \subseteq named'[f]
  <2>1. This({"stamp", "attest", "name", "own"}) => This({"stamp", "attest"}) \/ This({"name"}) \/ This({"own"})
    BY DEF Does
  <2> QED
    BY <1>2, <2>1
<1>6. disk'[f] = disk[f]
  <2>1. ~This({"store"})
    BY <1>2, <1>3, OrderOfSteps
  <2> QED
    BY <1>2, <2>1
<1>7. 1..((line + 1) - 1) = 1..(line - 1) \cup {line} /\ \A k \in 1..line : ~(line < k)
  BY <1>2
<1>8. CASE This({"take"}) /\ disk[f] # Pinned
  <2>1. Checked(author, f, line)
    BY <1>2, <1>3, <1>8, OrderOfSteps
  <2>2. swapped = 1
    BY <1>1, <1>2, <1>3, <1>8, <2>1 DEF Quiet
  <2>3. \A k \in 1..line : ~AfterReading(author, f, k)
    BY <1>2, <1>7, <1>8, Zenon DEF AfterReading
  <2>4. 1..((line + 1) - 1) = 1..line
    BY <1>2
  <2> QED
    BY <1>6, <1>8, <2>2, <2>3, <2>4, Zenon
<1>9. CASE ~(This({"take"}) /\ disk[f] # Pinned)
  <2>1. used[f] \subseteq {Pinned} => used'[f] \subseteq {Pinned}
    BY <1>2, <1>9
  <2>2. CASE swapped = 1 /\ disk[f] # Pinned /\ NotYet(line)
    <3>1. CASE This({"pin", "stamp"}) /\ AfterReading(author, f, line)
      <4>1. ~This({"pin"})
        BY <1>2, <2>2 DEF Does, Now, Fails
      <4>2. This({"stamp", "attest"})
        BY <3>1, <4>1 DEF Does
      <4> QED
        BY <1>2, <2>2, <4>2
    <3>2. CASE ~(This({"pin", "stamp"}) /\ AfterReading(author, f, line))
      BY <1>6, <1>7, <2>2, <3>2, Zenon
    <3> QED
      BY <3>1, <3>2, Zenon
  <2> QED
    BY <1>4, <1>5, <2>1, <2>2
<1> QED
  BY <1>8, <1>9, Zenon

LEMMA ReportsStart == ReportsInit => AuthorInv
<1> SUFFICES ASSUME ReportsInit PROVE AuthorInv
  OBVIOUS
<1>1. author \in Authors /\ line = 1 /\ swapped = 0 /\ outcome = "running"
  BY DEF ReportsInit
<1>2. Len(ScriptSteps[author]) \in Nat
  BY <1>1, StepsAreSteps
<1>3. ReportTypes
  BY <1>1, <1>2, ReportsAssumption DEF ReportsInit, ReportTypes, PastLast, FileVersions, Pinned, Alike, Broken
<1>4. ASSUME NEW f \in Files
      PROVE  Opened(f) /\ Quiet(f) /\ Sealing(f) /\ Owning(f) /\ Rehashing(f)
  <2>1. used[f] = {} /\ named[f] = {} /\ holding[f] = Unopened
    BY DEF ReportsInit
  <2>2. 1..(line - 1) = {}
    BY <1>1
  <2>3. ~ReadBefore(author, f, line) /\ ~Checked(author, f, line)
    BY <2>2, Zenon DEF ReadBefore, Checked
  <2> QED
    BY <2>1, <2>2, <2>3 DEF Opened, Quiet, Sealing, Owning, Rehashing
<1> QED
  BY <1>3, <1>4 DEF AuthorInv

LEMMA SwapKeeps ==
    ASSUME AuthorInv, SwapFiles
    PROVE  AuthorInv'
<1>1. /\ author' = author /\ line' = line /\ touched' = touched /\ holding' = holding /\ used' = used
      /\ named' = named /\ outcome' = outcome /\ swapped' = swapped + 1 /\ outcome = "running"
      /\ ReportTypes /\ swapped \in Nat
  BY DEF SwapFiles, Authoring, AuthorInv, ReportTypes
<1>2. disk' \in [Files -> FileVersions]
  BY <1>1 DEF SwapFiles, ReportTypes
<1>3. PastLast' = PastLast
  BY <1>1 DEF PastLast
<1>4. ReportTypes'
  BY <1>1, <1>2, <1>3 DEF ReportTypes
<1>5. ASSUME NEW f \in Files
      PROVE  (Opened(f) /\ Quiet(f) /\ Sealing(f) /\ Owning(f) /\ Rehashing(f))'
  <2>1. Opened(f) /\ Quiet(f) /\ Sealing(f) /\ Owning(f) /\ Rehashing(f)
    BY DEF AuthorInv
  <2>2. Opened(f)' /\ Sealing(f)' /\ Owning(f)'
    BY <1>1, <2>1 DEF Opened, Sealing, Owning
  <2>3. Quiet(f)'
    BY <1>1 DEF Quiet
  <2>4. Rehashing(f)'
    BY <1>1, <2>1 DEF Rehashing
  <2> QED
    BY <2>2, <2>3, <2>4
<1> QED
  BY <1>4, <1>5 DEF AuthorInv

LEMMA StoppingKeeps ==
    ASSUME AuthorInv,
           UNCHANGED <<author, line, touched, disk, holding, used, named, swapped>>,
           outcome' = outcome \/ outcome' = "refused" \/ (outcome' = "written" /\ line = PastLast)
    PROVE  AuthorInv'
<1>1. ReportTypes'
  BY DEF AuthorInv, ReportTypes, PastLast
<1>2. ASSUME NEW f \in Files
      PROVE  (Opened(f) /\ Quiet(f) /\ Sealing(f) /\ Owning(f) /\ Rehashing(f))'
  BY DEF AuthorInv, Opened, Quiet, Sealing, Owning, Rehashing, PastLast
<1> QED
  BY <1>1, <1>2 DEF AuthorInv

LEMMA ReportsGoOn == AuthorInv /\ [ReportsNext]_reportVars => AuthorInv'
<1> SUFFICES ASSUME AuthorInv, [ReportsNext]_reportVars PROVE AuthorInv'
  OBVIOUS
<1>1. CASE Proceed
  <2>1. ReportTypes'
    BY <1>1, ProceedTypes
  <2>2. ASSUME NEW f \in Files
        PROVE  (Opened(f) /\ Quiet(f) /\ Sealing(f) /\ Owning(f) /\ Rehashing(f))'
    BY <1>1, ProceedOpened, ProceedQuiet, ProceedSealing, ProceedOwning, ProceedRehashing
  <2> QED
    BY <2>1, <2>2 DEF AuthorInv
<1>2. CASE RefuseReport
  BY <1>2, StoppingKeeps DEF RefuseReport
<1>3. CASE FinishReport
  <2>1. line = PastLast
    <3>1. line \in 1..PastLast /\ author \in Authors
      BY DEF AuthorInv, ReportTypes
    <3>2. Len(ScriptSteps[author]) \in Nat
      BY <3>1, StepsAreSteps
    <3> QED
      BY <1>3, <3>1, <3>2 DEF FinishReport, PastLast
  <2> QED
    BY <1>3, <2>1, StoppingKeeps DEF FinishReport
<1>4. CASE SwapFiles
  BY <1>4, SwapKeeps
<1>5. CASE UNCHANGED reportVars
  BY <1>5, StoppingKeeps DEF reportVars
<1> QED
  BY <1>1, <1>2, <1>3, <1>4, <1>5, Zenon DEF ReportsNext

LEMMA ReportsAreHonest == AuthorInv => ReportsNameWhatTheyUsed
<1> SUFFICES ASSUME AuthorInv, outcome = "written", NEW f \in Files
             PROVE  /\ swapped = 0 /\ named[f] # {} => used[f] \subseteq named[f]
                    /\ Misled(f) =>
                         /\ <<author, f>> \notin HashedAsRead \cup NamedAsRead
                         /\ swapped >= (IF <<author, f>> \in HashedAgain THEN 2 ELSE 1)
  BY DEF ReportsNameWhatTheyUsed
<1>1. /\ author \in Authors /\ line = PastLast /\ swapped \in Nat
      /\ Opened(f) /\ Quiet(f) /\ Sealing(f) /\ Owning(f) /\ Rehashing(f)
  BY DEF AuthorInv, ReportTypes
<1>2. Len(ScriptSteps[author]) \in Nat /\ PastLast \in Nat \ {0} /\ 1..(line - 1) = StepsOf(author)
  BY <1>1, StepsAreSteps DEF PastLast, StepsOf
<1>3. swapped = 0 /\ used[f] # {} => named[f] \subseteq {disk[f]} /\ used[f] \subseteq {disk[f]}
  BY <1>1 DEF Opened, Quiet
<1>4. swapped = 0 /\ named[f] # {} => used[f] \subseteq named[f]
  BY <1>3
<1>5. Misled(f) => swapped >= 1
  BY <1>1, <1>3 DEF Misled
<1>6. ~HashAhead(author, f, line)
  BY <1>1, <1>2 DEF HashAhead, StepsOf, PastLast
<1>7. Misled(f) => <<author, f>> \notin HashedAsRead
  BY <1>1, <1>6 DEF Misled, Sealing
<1>8. Misled(f) => <<author, f>> \notin NamedAsRead
  <2> SUFFICES ASSUME Misled(f), <<author, f>> \in NamedAsRead PROVE FALSE
    OBVIOUS
  <2>1. \E k \in StepsOf(author) : Does(author, k, {"own"}, f) /\ AfterReading(author, f, k)
    BY <1>1, OrderOfFiles
  <2>2. holding[f] \in named[f] /\ used[f] \subseteq {holding[f]}
    BY <1>1, <1>2, <2>1, Zenon DEF Owning
  <2> QED
    BY <2>2 DEF Misled
<1>9. Misled(f) /\ <<author, f>> \in HashedAgain => swapped >= 2
  <2> SUFFICES ASSUME Misled(f), <<author, f>> \in HashedAgain PROVE swapped >= 2
    OBVIOUS
  <2>1. \E k \in StepsOf(author) : Does(author, k, {"pin", "stamp"}, f) /\ AfterReading(author, f, k)
    BY <1>1, OrderOfFiles
  <2>2. ~(used[f] \subseteq {Pinned}) /\ named[f] \subseteq {Pinned}
    BY DEF Misled
  <2> QED
    BY <1>1, <1>2, <2>1, <2>2, Zenon DEF Rehashing
<1> QED
  BY <1>4, <1>5, <1>7, <1>8, <1>9

\* A report that names the pinned file rests on another one only if the files
\* were exchanged under the script, twice if it hashes the file again after
\* reading it, and never if it hashes what it read; one written over files
\* that nobody exchanged names what was used.
THEOREM ReportsStayHonest == ReportsSpec => []ReportsNameWhatTheyUsed
  BY ReportsStart, ReportsGoOn, ReportsAreHonest, PTL DEF ReportsSpec

-----------------------------------------------------------------------------
(* Cutting a block out of a design.                                         *)

(* No name of a set of modules that parses is declared twice.               *)
LEMMA NamesAreUnique ==
  ASSUME NEW M, IsFiniteSet(M), Cardinality(ModuleNames(M)) = Cardinality(M),
         NEW x \in M, NEW y \in M, x.name = y.name
  PROVE  x = y
  <1> DEFINE f == [m \in M |-> m.name]
  <1>1. f \in Surjection(M, ModuleNames(M))
    BY DEF Surjection, ModuleNames
  <1>2. f \in Injection(M, ModuleNames(M))
    <2> HIDE DEF f
    <2>1. QED BY <1>1, FS_Surjection
  <1>3. f[x] = f[y] => x = y
    BY <1>2 DEF Injection, IsInjective
  <1>4. QED BY <1>3

(* The closure of an anchor has the anchor, is closed, and is in every set  *)
(* that is.                                                                 *)
IsClosed(M, anchor, names) ==
  anchor \in names /\ Needs(M, names) \cap ModuleNames(M) \subseteq names

LEMMA NeedsGrow ==
  ASSUME NEW M, NEW S, NEW T, S \subseteq T
  PROVE  Needs(M, S) \subseteq Needs(M, T)
  BY DEF Needs

LEMMA ClosureIsLeast ==
  ASSUME NEW M, NEW anchor \in ModuleNames(M)
  PROVE  LET C == DependencyClosure(M, anchor) IN
         /\ C \subseteq ModuleNames(M) /\ IsClosed(M, anchor, C)
         /\ \A S \in SUBSET ModuleNames(M) : IsClosed(M, anchor, S) => C \subseteq S
  <1> DEFINE C == DependencyClosure(M, anchor)
  <1>1. C \subseteq ModuleNames(M)
    BY DEF DependencyClosure
  <1>2. \A S \in SUBSET ModuleNames(M) : IsClosed(M, anchor, S) => C \subseteq S
    BY DEF DependencyClosure, IsClosed
  <1>3. anchor \in C
    BY DEF DependencyClosure
  <1>4. Needs(M, C) \cap ModuleNames(M) \subseteq C
    <2> SUFFICES ASSUME NEW n \in Needs(M, C), n \in ModuleNames(M),
                        NEW S \in SUBSET ModuleNames(M), IsClosed(M, anchor, S)
                 PROVE  n \in S
      BY DEF DependencyClosure, IsClosed
    <2>1. Needs(M, C) \subseteq Needs(M, S)
      BY <1>2, NeedsGrow
    <2> QED BY <2>1 DEF IsClosed
  <1>5. QED BY <1>1, <1>2, <1>3, <1>4 DEF IsClosed

(* The closure is the same in any part of the modules that has all of it,   *)
(* and resolves everything there if it did.                                 *)
LEMMA ClosureOfAPart ==
  ASSUME NEW M, IsFiniteSet(M), Cardinality(ModuleNames(M)) = Cardinality(M),
         NEW anchor \in ModuleNames(M), NEW P \in SUBSET M,
         DependencyClosure(M, anchor) \subseteq ModuleNames(P),
         Unresolved(M, DependencyClosure(M, anchor)) = {}
  PROVE  /\ DependencyClosure(P, anchor) = DependencyClosure(M, anchor)
         /\ Unresolved(P, DependencyClosure(M, anchor)) = {}
  <1> DEFINE C == DependencyClosure(M, anchor)
             D == DependencyClosure(P, anchor)
  <1>1. C \subseteq ModuleNames(M) /\ IsClosed(M, anchor, C)
        /\ \A S \in SUBSET ModuleNames(M) : IsClosed(M, anchor, S) => C \subseteq S
    BY ClosureIsLeast
  <1>2. anchor \in ModuleNames(P)
    BY <1>1 DEF IsClosed
  <1>3. D \subseteq ModuleNames(P) /\ IsClosed(P, anchor, D)
        /\ \A S \in SUBSET ModuleNames(P) : IsClosed(P, anchor, S) => D \subseteq S
    BY <1>2, ClosureIsLeast
  <1>4. ModuleNames(P) \subseteq ModuleNames(M)
    BY DEF ModuleNames
  <1> HIDE DEF C, D
  <1>5. \A S : Needs(P, S) \subseteq Needs(M, S)
    BY DEF Needs
  <1>6. IsClosed(P, anchor, C)
    BY <1>1, <1>4, <1>5 DEF IsClosed
  <1>7. D \subseteq C
    BY <1>3, <1>6 DEF C
  <1>8. ASSUME NEW S, S \subseteq C PROVE Needs(M, S) \subseteq Needs(P, S)
    <2> SUFFICES ASSUME NEW m \in M, m.name \in S, NEW x \in m.needs PROVE x \in Needs(P, S)
      BY DEF Needs
    <2>1. PICK q \in P : q.name = m.name
      BY <1>8 DEF C, ModuleNames
    <2>2. q = m
      BY <2>1, NamesAreUnique
    <2> QED BY <2>1, <2>2 DEF Needs
  <1>9. IsClosed(M, anchor, D)
    <2>1. Needs(M, D) \cap ModuleNames(M) \subseteq C
      BY <1>1, <1>7, NeedsGrow DEF IsClosed
    <2>2. Needs(M, D) \subseteq Needs(P, D)
      BY <1>7, <1>8
    <2>3. C \subseteq ModuleNames(P)
      BY DEF C
    <2> QED BY <1>3, <2>1, <2>2, <2>3 DEF IsClosed
  <1>10. C \subseteq D
    BY <1>1, <1>3, <1>4, <1>9
  <1>11. Unresolved(P, C) = {}
    <2> SUFFICES ASSUME NEW x \in Needs(P, C), x \notin YosysCells PROVE x \in ModuleNames(P)
      BY DEF Unresolved
    <2>1. x \in ModuleNames(M)
      BY <1>5 DEF Unresolved, C
    <2> QED BY <1>1, <1>5, <2>1 DEF IsClosed, C
  <1> QED BY <1>7, <1>10, <1>11 DEF C, D

(* What is known of a design whose files parse.                             *)
LEMMA ReadyParses ==
  ASSUME NEW d \in DesignSet, NEW paths \in SUBSET Existing(d), ParseCode(d, paths) = "ready"
  PROVE  LET M == Declared(d, paths)
             b == BlockOf(d, paths)
             C == DependencyClosure(M, b.anchor)
         IN  /\ IsFiniteSet(M) /\ Cardinality(ModuleNames(M)) = Cardinality(M)
             /\ b.anchor \in ModuleNames(M)
             /\ Unresolved(M, C) = {}
             /\ b.closure \in Seq(C) /\ Range(b.closure) = C
  <1> DEFINE M == Declared(d, paths)
             A == Anchors(M)
             x == CHOOSE a \in A : TRUE
             C == DependencyClosure(M, x)
  <1>1. /\ Cardinality(ModuleNames(M)) = Cardinality(M)
        /\ Cardinality(A) = 1
        /\ Unresolved(M, C) = {}
    <2> HIDE DEF M, A, C
    <2>1. ParseCode(d, paths) =
            IF \E p \in paths : ~SourceFiles(d)[p].readable THEN "invalid_input"
            ELSE IF Cardinality(ModuleNames(M)) # Cardinality(M) THEN "ambiguous_module"
            ELSE IF Cardinality(A) # 1 THEN "boundary_not_found"
            ELSE IF Unresolved(M, C) # {} THEN "unbounded_dependency_closure"
            ELSE "ready"
      BY Zenon DEF ParseCode, M, A, C
    <2>2. QED BY <2>1
  <1>2. M \subseteq Declared(d, Existing(d))
    BY DEF Declared
  <1>3. IsFiniteSet(M)
    <2>1. IsFiniteSet(Declared(d, Existing(d)))
      BY SliceAssumption
    <2> HIDE DEF M
    <2>2. QED BY <1>2, <2>1, FS_Subset
  <1>4. A # {}
    BY <1>1, FS_EmptySet
  <1>5. x \in A /\ A \subseteq ModuleNames(M)
    BY <1>4 DEF Anchors, ModuleNames
  <1>6. C \in SUBSET ModuleNames(AllModules)
    <2>1. M \subseteq AllModules
      BY <1>2 DEF AllModules
    <2>2. QED BY <2>1 DEF DependencyClosure, ModuleNames
  <1>7. SortedNames(C) \in Seq(C) /\ Range(SortedNames(C)) = C
    BY <1>6, SliceAssumption
  <1>8. BlockOf(d, paths) = [anchor |-> x, closure |-> SortedNames(C)]
    BY DEF BlockOf
  <1> HIDE DEF M, A, x, C
  <1>9. BlockOf(d, paths).anchor = x /\ BlockOf(d, paths).closure = SortedNames(C)
    BY <1>8
  <1> QED BY <1>1, <1>3, <1>5, <1>7, <1>9 DEF M, A, C

(* The modules of the sources that a manifest names, as it has hashed them. *)
BoundModules(m) == UNION {m.artifacts[n].sourceIs.modules : n \in 1..Len(m.artifacts)}

(* What an extraction has cut so far is as it was in the design it parsed.  *)
IsCutFrom(artifacts, closure, d, paths) ==
  \A n \in 1..Len(artifacts) :
    LET a == artifacts[n] IN
    /\ a.module = closure[n]
    /\ a.source = DeclaredBy(d, paths, a.module)
    /\ a.sourceIs = SourceFiles(d)[a.source]
    /\ a.text = TheModule(a.sourceIs.modules, a.module).text

(* A block that was cut out of one design binds itself.                     *)
LEMMA CutBindsItsBlock ==
  ASSUME NEW d \in DesignSet, NEW paths \in SUBSET Existing(d), ParseCode(d, paths) = "ready",
         NEW m, m.block = BlockOf(d, paths), Len(m.artifacts) = Len(m.block.closure),
         IsCutFrom(m.artifacts, m.block.closure, d, paths)
  PROVE  BindsItsBlock(m)
  <1> DEFINE M == Declared(d, paths)
             P == BoundModules(m)
             closure == m.block.closure
             C == DependencyClosure(M, m.block.anchor)
  <1>1. /\ IsFiniteSet(M) /\ Cardinality(ModuleNames(M)) = Cardinality(M)
        /\ m.block.anchor \in ModuleNames(M)
        /\ Unresolved(M, C) = {}
        /\ closure \in Seq(C) /\ Range(closure) = C
    BY ReadyParses
  <1>2. C \subseteq ModuleNames(M) /\ m.block.anchor \in C
    <2> HIDE DEF M
    <2>1. QED BY <1>1, ClosureIsLeast DEF IsClosed
  <1>3. ASSUME NEW n \in 1..Len(m.artifacts)
        PROVE  LET a == m.artifacts[n] IN
               /\ a.module = closure[n] /\ a.source \in paths
               /\ a.sourceIs = SourceFiles(d)[a.source]
               /\ \E s \in a.sourceIs.modules : s.name = a.module /\ s.text = a.text
    <2> DEFINE a == m.artifacts[n]
    <2>1. /\ a.module = closure[n]
          /\ a.source = DeclaredBy(d, paths, a.module)
          /\ a.sourceIs = SourceFiles(d)[a.source]
          /\ a.text = TheModule(a.sourceIs.modules, a.module).text
      BY <1>3 DEF IsCutFrom
    <2>2. closure[n] \in C
      BY <1>1
    <2>3. PICK s \in M : s.name = a.module
      BY <1>2, <2>1, <2>2 DEF ModuleNames
    <2>4. \E p \in paths : a.module \in ModuleNames(SourceFiles(d)[p].modules)
      BY <2>3 DEF Declared, ModuleNames
    <2>5. a.source \in paths /\ a.module \in ModuleNames(SourceFiles(d)[a.source].modules)
      BY <2>1, <2>4 DEF DeclaredBy
    <2>6. \E t \in a.sourceIs.modules : t.name = a.module
      BY <2>1, <2>5 DEF ModuleNames
    <2>7. TheModule(a.sourceIs.modules, a.module) \in a.sourceIs.modules
          /\ TheModule(a.sourceIs.modules, a.module).name = a.module
      BY <2>6 DEF TheModule
    <2> HIDE DEF a
    <2> QED BY <2>1, <2>5, <2>7 DEF a
  <1>4. P \subseteq M
    BY <1>3 DEF BoundModules, Declared
  <1>5. C \subseteq ModuleNames(P)
    <2> SUFFICES ASSUME NEW c \in Range(closure) PROVE \E s \in P : s.name = c
      BY <1>1 DEF ModuleNames
    <2>1. PICK n \in DOMAIN closure : c = closure[n]
      BY DEF Range
    <2>2. DOMAIN closure = 1..Len(m.artifacts)
      BY <1>1
    <2>3. QED BY <1>3, <2>1, <2>2 DEF BoundModules
  <1>6. DependencyClosure(P, m.block.anchor) = C /\ Unresolved(P, C) = {}
    <2>1. m.block.anchor \in ModuleNames(M)
      BY <1>1
    <2> HIDE DEF M, P
    <2>2. QED BY <1>1, <1>4, <1>5, ClosureOfAPart
  <1>7. \A n \in 1..Len(m.artifacts) : \E s \in P :
          s.name = m.artifacts[n].module /\ s.text = m.artifacts[n].text
    BY <1>3 DEF BoundModules
  <1> HIDE DEF M, C
  <1>8. QED BY <1>1, <1>2, <1>3, <1>6, <1>7 DEF BindsItsBlock, BoundModules

(* A block that is derived again from the sources the manifest names, when  *)
(* they and the slice's files are as it says, is bound by it.               *)
IsDerivedFrom(m, d, paths) ==
  /\ paths = {m.artifacts[n].source : n \in 1..Len(m.artifacts)}
  /\ Len(m.artifacts) = Len(m.block.closure)
  /\ \A n \in 1..Len(m.artifacts) :
       LET a == m.artifacts[n] IN
       /\ a.module = m.block.closure[n]
       /\ a.sourceIs = SourceFiles(d)[a.source]
       /\ a.text = TheModule(Declared(d, paths), a.module).text

LEMMA DerivedBindsItsBlock ==
  ASSUME NEW d \in DesignSet, NEW m, NEW paths \in SUBSET Existing(d),
         ParseCode(d, paths) = "ready", BlockOf(d, paths) = m.block, IsDerivedFrom(m, d, paths)
  PROVE  BindsItsBlock(m)
  <1> DEFINE M == Declared(d, paths)
             closure == m.block.closure
             C == DependencyClosure(M, m.block.anchor)
  <1>1. /\ m.block.anchor \in ModuleNames(M)
        /\ Unresolved(M, C) = {}
        /\ closure \in Seq(C) /\ Range(closure) = C
    BY ReadyParses
  <1>2. C \subseteq ModuleNames(M) /\ m.block.anchor \in C
    <2> HIDE DEF M
    <2>1. QED BY <1>1, ClosureIsLeast DEF IsClosed
  <1>3. BoundModules(m) = M
    <2>1. \A n \in 1..Len(m.artifacts) :
            m.artifacts[n].source \in paths
            /\ m.artifacts[n].sourceIs.modules = SourceFiles(d)[m.artifacts[n].source].modules
      BY DEF IsDerivedFrom
    <2>2. \A p \in paths : \E n \in 1..Len(m.artifacts) : p = m.artifacts[n].source
      BY DEF IsDerivedFrom
    <2>3. \A x : x \in BoundModules(m) <=> \E n \in 1..Len(m.artifacts) : x \in m.artifacts[n].sourceIs.modules
      BY DEF BoundModules
    <2>4. \A x : x \in M <=> \E p \in paths : x \in SourceFiles(d)[p].modules
      BY DEF Declared
    <2>5. \A x : x \in BoundModules(m) <=> x \in M
      <3> HIDE DEF M
      <3>1. ASSUME NEW x, x \in BoundModules(m) PROVE x \in M
        <4>1. PICK n \in 1..Len(m.artifacts) : x \in m.artifacts[n].sourceIs.modules
          BY <2>3, <3>1
        <4>2. QED BY <2>1, <2>4, <4>1
      <3>2. ASSUME NEW x, x \in M PROVE x \in BoundModules(m)
        <4>1. PICK p \in paths : x \in SourceFiles(d)[p].modules
          BY <2>4, <3>2
        <4>2. PICK n \in 1..Len(m.artifacts) : p = m.artifacts[n].source
          BY <2>2
        <4>3. x \in m.artifacts[n].sourceIs.modules
          BY <2>1, <4>1, <4>2
        <4>4. QED BY <2>3, <4>3
      <3>3. QED BY <3>1, <3>2
    <2>6. QED BY <2>5
  <1>4. \A n \in 1..Len(m.artifacts) : \E s \in M :
          s.name = m.artifacts[n].module /\ s.text = m.artifacts[n].text
    <2> SUFFICES ASSUME NEW n \in 1..Len(m.artifacts)
                 PROVE  \E s \in M : s.name = m.artifacts[n].module /\ s.text = m.artifacts[n].text
      OBVIOUS
    <2>0. closure[n] \in C
      BY <1>1 DEF IsDerivedFrom
    <2>1. m.artifacts[n].module \in C
      BY <2>0 DEF IsDerivedFrom
    <2>2. \E s \in M : s.name = m.artifacts[n].module
      BY <1>2, <2>1 DEF ModuleNames
    <2>3. QED BY <2>2 DEF TheModule, IsDerivedFrom
  <1> HIDE DEF M, C
  <1>5. QED BY <1>1, <1>2, <1>3, <1>4 DEF BindsItsBlock, BoundModules, C, IsDerivedFrom

-----------------------------------------------------------------------------
(* What is judged aligned are measurements that were taken.                 *)

PathsAreClaims(e) ==
  \A s \in Sides : e[s].there => \A k \in Kinds : e[s].claims[k].path \in Sides \X Kinds
ReportsAreTaken ==
  \A s \in Sides, k \in Kinds : measurementReports[s][k].there => measurementReports[s][k] \in taken

(* Four claims with four ids: no two have the same.                         *)
LEMMA IdsDiffer ==
  ASSUME NEW id, Cardinality({id[x] : x \in Sides \X Kinds}) = Cardinality(Sides \X Kinds),
         NEW p \in Sides \X Kinds, NEW q \in Sides \X Kinds, p # q
  PROVE  id[p] # id[q]
  <1> DEFINE claims == Sides \X Kinds
             f == [x \in claims |-> id[x]]
             T == {id[x] : x \in claims}
  <1>2. IsFiniteSet(claims)
    <2>1. IsFiniteSet(Sides) /\ IsFiniteSet(Kinds)
      <3>1. \A x, y : IsFiniteSet({x} \cup {y})
        BY FS_Singleton, FS_Union
      <3>2. Sides = {"reference"} \cup {"compiler"} /\ Kinds = {"resources"} \cup {"timing"}
        BY DEF Sides, Kinds
      <3>3. QED BY <3>1, <3>2
    <2>2. QED BY <2>1, FS_Product
  <1>3. f \in Surjection(claims, T)
    BY DEF Surjection
  <1>4. Cardinality(T) = Cardinality(claims)
    OBVIOUS
  <1>5. f \in Injection(claims, T)
    <2> HIDE DEF f, T, claims
    <2>1. QED BY <1>2, <1>3, <1>4, FS_Surjection
  <1>6. f[p] = f[q] => p = q
    BY <1>5 DEF Injection, IsInjective
  <1>7. QED BY <1>6

LEMMA JudgedAreMeasurements ==
  ASSUME NEW e, NEW m, NEW c, Judgement(e, m, c) = "aligned", PathsAreClaims(e), ReportsAreTaken
  PROVE  AreMeasurements([s \in Sides |-> e[s].claims], m, c)
  <1> DEFINE claims == {<<s, k>> : s \in Sides, k \in Kinds}
             id == [p \in claims |-> e[p[1]].claims[p[2]].says.id]
  <1>1. /\ \A s \in Sides : e[s].there
        /\ Cardinality({e[p[1]].claims[p[2]].says.id : p \in claims}) = Cardinality(claims)
        /\ \A p \in claims : Measured(e[p[1]].claims[p[2]], p[1], p[2], m, c)
    <2> DEFINE ref == e["reference"]
               com == e["compiler"]
               T1 == ContractOf(ref, c) # ContractOf(com, c)
               T2 == ~Traced(ref, m, c) \/ ~Traced(com, m, c)
               T3 == \/ ref.checkpoints # com.checkpoints
                     \/ ref.tokens # com.tokens \/ ref.tokens # c.tokens
               T4 == \/ \E p \in claims : ~e[p[1]].claims[p[2]].there
                     \/ Cardinality({e[p[1]].claims[p[2]].says.id : p \in claims}) # Cardinality(claims)
                     \/ \E p \in claims : ~Measured(e[p[1]].claims[p[2]], p[1], p[2], m, c)
    <2>1. "aligned" =
            IF T1 THEN "contract_mismatch" ELSE IF T2 THEN "incomplete"
            ELSE IF T3 THEN "functional_mismatch" ELSE IF T4 THEN "incomplete" ELSE "aligned"
      BY SMTT(60) DEF Judgement
    <2> HIDE DEF T1, T2, T3, T4
    <2>2. ~T2
      BY <2>1
    <2>3. ~T4
      BY <2>1
    <2>4. Traced(ref, m, c) /\ Traced(com, m, c)
      BY <2>2 DEF T2
    <2>5. \A s \in Sides : e[s].there
      BY <2>4 DEF Traced, Sides
    <2> HIDE DEF claims
    <2>6. ~T4 => /\ Cardinality({e[p[1]].claims[p[2]].says.id : p \in claims}) = Cardinality(claims)
                 /\ \A p \in claims : Measured(e[p[1]].claims[p[2]], p[1], p[2], m, c)
      BY Zenon DEF T4
    <2>7. QED
      BY <2>3, <2>5, <2>6, Zenon
  <1>2. ASSUME NEW s \in Sides, NEW k \in Kinds
        PROVE  LET says == e[s].claims[k].says IN
               /\ says \in taken /\ says.side = s /\ says.kind = k
               /\ says.contract = c /\ says.manifest = m
    <2> DEFINE claim == e[s].claims[k]
               shown == measurementReports[claim.path[1]][claim.path[2]]
    <2>1. Measured(claim, s, k, m, c)
      <3>1. <<s, k>> \in claims /\ <<s, k>>[1] = s /\ <<s, k>>[2] = k
        OBVIOUS
      <3>2. \A p \in claims : Measured(e[p[1]].claims[p[2]], p[1], p[2], m, c)
        BY <1>1
      <3> HIDE DEF claims
      <3>3. Measured(e[<<s, k>>[1]].claims[<<s, k>>[2]], <<s, k>>[1], <<s, k>>[2], m, c)
        BY <3>1, <3>2
      <3>4. QED BY <3>1, <3>3
    <2>2. claim.path \in Sides \X Kinds
      BY <1>1 DEF PathsAreClaims
    <2>3. shown.there => shown \in taken
      BY <2>2 DEF ReportsAreTaken
    <2> HIDE DEF claim
    <2>4. QED BY <2>1, <2>3 DEF Measured, claim
  <1>3. ASSUME NEW s \in Sides, NEW k \in Kinds, NEW t \in Sides, NEW j \in Kinds, <<t, j>> # <<s, k>>
        PROVE  e[t].claims[j].says.id # e[s].claims[k].says.id
    <2>1. claims = Sides \X Kinds
      OBVIOUS
    <2>2. Cardinality({id[p] : p \in Sides \X Kinds}) = Cardinality(Sides \X Kinds)
      <3>1. \A p \in claims : id[p] = e[p[1]].claims[p[2]].says.id
        OBVIOUS
      <3> HIDE DEF id, claims
      <3>2. {id[p] : p \in claims} = {e[p[1]].claims[p[2]].says.id : p \in claims}
        BY <3>1
      <3>3. QED BY <1>1, <2>1, <3>2
    <2>3. id[<<t, j>>] = e[t].claims[j].says.id /\ id[<<s, k>>] = e[s].claims[k].says.id
      OBVIOUS
    <2>4. id[<<t, j>>] # id[<<s, k>>]
      <3>1. <<t, j>> \in Sides \X Kinds /\ <<s, k>> \in Sides \X Kinds
        OBVIOUS
      <3> HIDE DEF id
      <3>2. QED BY <1>3, <2>2, <3>1, IdsDiffer
    <2>5. QED
      <3> HIDE DEF id
      <3>1. QED BY <2>3, <2>4
  <1>4. QED BY <1>2, <1>3 DEF AreMeasurements

-----------------------------------------------------------------------------
(* The invariant: until the one replacement everything an extraction has in *)
(* hand is of one design; after it nothing is replaced while the comparison *)
(* hashes the slice's files and reads them again.                           *)

IsSequence(s) == \E S : s \in Seq(S)

ExtractorInv ==
  /\ extractor.pc \in {"idle", "files", "manifest"}
  /\ extractor.pc # "idle" =>
       /\ extractor = [pc |-> extractor.pc, runs |-> extractor.runs, parsed |-> extractor.parsed,
                       paths |-> extractor.paths, identity |-> extractor.identity,
                       artifacts |-> extractor.artifacts, block |-> extractor.block]
       /\ swaps = 0 =>
            /\ extractor.parsed = sourceDesign
            /\ extractor.paths \subseteq Existing(sourceDesign)
            /\ ParseCode(sourceDesign, extractor.paths) = "ready"
            /\ extractor.block = BlockOf(sourceDesign, extractor.paths)
            /\ IsSequence(extractor.artifacts)
            /\ IsCutFrom(extractor.artifacts, extractor.block.closure, sourceDesign, extractor.paths)
            /\ IF extractor.pc = "files"
               THEN Len(extractor.artifacts) < Len(extractor.block.closure)
               ELSE Len(extractor.artifacts) = Len(extractor.block.closure)

ManifestInv == sliceManifest.status = "ready" /\ swaps = 0 => BindsItsBlock(sliceManifest)

(* What hashing the slice has found.                                        *)
SourcesAsHashed(m) ==
  /\ Len(m.artifacts) = Len(m.block.closure)
  /\ \A n \in 1..Len(m.artifacts) :
       LET a == m.artifacts[n] IN
       /\ a.module = m.block.closure[n]
       /\ a.sourceIs = SourceFiles(sourceDesign)[a.source]
FilesAsHashed(m) == \A n \in 1..Len(m.artifacts) : sliceFiles[m.artifacts[n].extracted] = m.artifacts[n].text

ComparerInv ==
  LET m == comparer.manifest IN
  /\ comparer.pc \in {"idle", "manifest", "evidence", "hash", "derive", "judge"}
  /\ comparer.pc \in {"hash", "derive", "judge"} =>
       /\ comparer = [pc |-> comparer.pc, contract |-> comparer.contract, manifest |-> m,
                      frozen |-> comparer.frozen, evidence |-> comparer.evidence]
       /\ PathsAreClaims(comparer.evidence)
  /\ comparer.pc \in {"evidence", "hash", "derive"} /\ m.status = "ready" =>
       BindsItsBlock(m) \/ swaps > 0
  /\ comparer.pc \in {"derive", "judge"} =>
       m.status = "ready" /\ m.contract = comparer.frozen /\ m.identity = comparer.frozen.identity
  /\ comparer.pc = "derive" =>
       /\ BindsItsBlock(m) \/ SourcesAsHashed(m)
       /\ overtaken \/ FilesAsHashed(m)
  /\ comparer.pc = "judge" => overtaken \/ BindsItsBlock(m)

SliceInv ==
  /\ sourceDesign \in DesignSet /\ swaps \in Nat /\ overtaken \in BOOLEAN
  /\ ExtractorInv /\ ManifestInv
  /\ PathsAreClaims(evidenceFiles) /\ ReportsAreTaken
  /\ ComparerInv
  /\ AlignedIsEarned

LEMMA AppendedIs ==
  ASSUME NEW s, IsSequence(s), NEW x
  PROVE  /\ IsSequence(Append(s, x)) /\ Len(s) \in Nat
         /\ Len(Append(s, x)) = Len(s) + 1 /\ Append(s, x)[Len(s) + 1] = x
         /\ \A n \in 1..Len(s) : Append(s, x)[n] = s[n]
  <1>1. PICK S : s \in Seq(S)
    BY DEF IsSequence
  <1>2. s \in Seq(S \cup {x})
    BY <1>1
  <1>3. Append(s, x) \in Seq(S \cup {x}) /\ Len(s) \in Nat
        /\ Len(Append(s, x)) = Len(s) + 1 /\ Append(s, x)[Len(s) + 1] = x
        /\ \A n \in 1..Len(s) : Append(s, x)[n] = s[n]
    BY <1>2
  <1>4. QED BY <1>3 DEF IsSequence

(* What the steps that do not concern a part of the invariant leave of it.  *)
LEMMA SliceRest ==
  ASSUME SliceInv, UNCHANGED <<sourceDesign, swaps>>
  PROVE  /\ sourceDesign' \in DesignSet /\ swaps' \in Nat
         /\ UNCHANGED extractor => ExtractorInv'
         /\ UNCHANGED sliceManifest => ManifestInv'
         /\ UNCHANGED evidenceFiles => PathsAreClaims(evidenceFiles')
         /\ UNCHANGED <<measurementReports, taken>> => ReportsAreTaken'
         /\ UNCHANGED <<comparer, sliceFiles, overtaken>> => ComparerInv'
         /\ UNCHANGED <<verdict, overtaken, taken>> => AlignedIsEarned'
  <1>1. sourceDesign' \in DesignSet /\ swaps' \in Nat
    BY DEF SliceInv
  <1>2. UNCHANGED extractor => ExtractorInv'
    BY DEF SliceInv, ExtractorInv
  <1>3. UNCHANGED sliceManifest => ManifestInv'
    BY DEF SliceInv, ManifestInv
  <1>4. UNCHANGED evidenceFiles => PathsAreClaims(evidenceFiles')
    BY DEF SliceInv
  <1>5. UNCHANGED <<measurementReports, taken>> => ReportsAreTaken'
    BY DEF SliceInv, ReportsAreTaken
  <1>6. UNCHANGED <<comparer, sliceFiles, overtaken>> => ComparerInv'
    BY DEF SliceInv, ComparerInv, SourcesAsHashed, FilesAsHashed
  <1>7. UNCHANGED <<verdict, overtaken, taken>> => AlignedIsEarned'
    BY DEF SliceInv, AlignedIsEarned, AreMeasurements
  <1>8. QED BY <1>1, <1>2, <1>3, <1>4, <1>5, <1>6, <1>7

LEMMA StartExtractionKeeps ==
  ASSUME SliceInv, StartExtraction
  PROVE  SliceInv'
  <1> USE DEF inputFiles, evidencePart
  <1> DEFINE Code(paths) ==
               IF paths = {} THEN "source_artifact_unavailable"
               ELSE IF metadataFile # contractFile.identity THEN "contract_mismatch"
               ELSE IF ~(paths \subseteq Existing(sourceDesign)) THEN "source_artifact_unavailable"
               ELSE ParseCode(sourceDesign, paths)
  <1>1. PICK paths \in {SourcePaths, Existing(sourceDesign)} :
          LET code == Code(paths) IN
             IF code # "ready"
             THEN /\ sliceManifest' = Refusal(code)
                  /\ extractor' = IdleExtractor(extractor.runs + 1)
             ELSE /\ extractor' = [pc |-> "files", runs |-> extractor.runs + 1,
                                   parsed |-> sourceDesign, paths |-> paths,
                                   identity |-> contractFile.identity, artifacts |-> <<>>,
                                   block |-> BlockOf(sourceDesign, paths)]
                  /\ UNCHANGED sliceManifest
    BY DEF StartExtraction
  <1>2. UNCHANGED <<inputFiles, sliceFiles, evidencePart, comparer, verdict, overtaken>>
    BY DEF StartExtraction
  <1> DEFINE code == Code(paths)
  <1>3. CASE code # "ready"
    <2>1. ExtractorInv'
      BY <1>1, <1>3 DEF ExtractorInv, IdleExtractor
    <2>2. ManifestInv'
      BY <1>1, <1>3 DEF ManifestInv, Refusal
    <2>3. QED BY <1>2, <2>1, <2>2, SliceRest DEF SliceInv
  <1>4. CASE code = "ready"
    <2>1. /\ paths \subseteq Existing(sourceDesign)
          /\ ParseCode(sourceDesign, paths) = "ready"
      BY <1>1, <1>4
    <2>2. LET b == BlockOf(sourceDesign, paths) IN 0 < Len(b.closure)
      <3> DEFINE b == BlockOf(sourceDesign, paths)
                 C == DependencyClosure(Declared(sourceDesign, paths), b.anchor)
      <3>1. b.anchor \in ModuleNames(Declared(sourceDesign, paths)) /\ b.closure \in Seq(C) /\ Range(b.closure) = C
        BY <2>1, ReadyParses DEF SliceInv
      <3>2. b.anchor \in C
        <4>1. LET M == Declared(sourceDesign, paths) IN
              b.anchor \in ModuleNames(M) => b.anchor \in DependencyClosure(M, b.anchor)
          BY ClosureIsLeast DEF IsClosed
        <4>2. QED BY <3>1, <4>1
      <3> HIDE DEF b, C
      <3>3. \E n \in DOMAIN b.closure : TRUE
        BY <3>1, <3>2 DEF Range
      <3>4. QED BY <3>1, <3>3 DEF b
    <2>3. ExtractorInv'
      <3>1. extractor' = [pc |-> "files", runs |-> extractor.runs + 1,
                          parsed |-> sourceDesign, paths |-> paths,
                          identity |-> contractFile.identity, artifacts |-> <<>>,
                          block |-> BlockOf(sourceDesign, paths)]
        BY <1>1, <1>4
      <3>2. IsSequence(<<>>) /\ Len(<<>>) = 0
        <4>1. <<>> \in Seq({})
          OBVIOUS
        <4>2. QED BY <4>1 DEF IsSequence
      <3>3. IsCutFrom(<<>>, BlockOf(sourceDesign, paths).closure, sourceDesign, paths)
        BY <3>2 DEF IsCutFrom
      <3>4. QED BY <1>2, <2>1, <2>2, <3>1, <3>2, <3>3 DEF ExtractorInv
    <2>4. UNCHANGED sliceManifest
      BY <1>1, <1>4
    <2>5. QED BY <1>2, <2>3, <2>4, SliceRest DEF SliceInv
  <1>5. QED BY <1>3, <1>4

(* A file that is written where the comparison looks is seen as overtaking. *)
LEMMA OvertakeKeeps ==
  ASSUME SliceInv, Overtake, UNCHANGED <<sourceDesign, swaps, comparer, verdict, taken>>
  PROVE  overtaken' \in BOOLEAN /\ ComparerInv' /\ AlignedIsEarned'
  <1>1. overtaken' \in BOOLEAN /\ (overtaken => overtaken')
    BY DEF SliceInv, Overtake
  <1>2. comparer.pc = "derive" => overtaken'
    BY DEF Overtake
  <1>3. ComparerInv'
    BY <1>1, <1>2 DEF SliceInv, ComparerInv, SourcesAsHashed
  <1>4. AlignedIsEarned'
    BY <1>1 DEF SliceInv, AlignedIsEarned, AreMeasurements
  <1>5. QED BY <1>1, <1>3, <1>4

LEMMA WriteModuleKeeps ==
  ASSUME SliceInv, WriteModule
  PROVE  SliceInv'
  <1> USE DEF inputFiles, evidencePart
  <1> DEFINE index == Len(extractor.artifacts) + 1
             name  == extractor.block.closure[index]
             path  == DeclaredBy(extractor.parsed, extractor.paths, name)
             text  == TheModule(SourceFiles(extractor.parsed)[path].modules, name).text
             new   == [module |-> name, source |-> path, sourceIs |-> SourceFiles(sourceDesign)[path],
                       extracted |-> <<index, name>>, text |-> text]
             next    == IF index = Len(extractor.block.closure) THEN "manifest" ELSE extractor.pc
  <1>1. /\ extractor.pc = "files"
        /\ extractor' = IF path \notin Existing(sourceDesign) THEN Rest
                        ELSE [extractor EXCEPT
                                !.pc = IF index = Len(extractor.block.closure) THEN "manifest" ELSE @,
                                !.artifacts = Append(@, new)]
        /\ Overtake
        /\ UNCHANGED <<inputFiles, sliceManifest, evidencePart, comparer, verdict>>
    BY DEF WriteModule
  <1>2. ExtractorInv'
    <2>1. CASE path \notin Existing(sourceDesign)
      BY <1>1, <2>1 DEF ExtractorInv, Rest, IdleExtractor
    <2>2. CASE path \in Existing(sourceDesign)
      <3>1. extractor = [pc |-> extractor.pc, runs |-> extractor.runs, parsed |-> extractor.parsed,
                         paths |-> extractor.paths, identity |-> extractor.identity,
                         artifacts |-> extractor.artifacts, block |-> extractor.block]
        BY <1>1 DEF SliceInv, ExtractorInv
      <3>2. extractor' = [pc |-> next, runs |-> extractor.runs, parsed |-> extractor.parsed,
                          paths |-> extractor.paths, identity |-> extractor.identity,
                          artifacts |-> Append(extractor.artifacts, new), block |-> extractor.block]
        <4> HIDE DEF new, index, path
        <4>1. extractor' = [extractor EXCEPT !.pc = next, !.artifacts = Append(extractor.artifacts, new)]
          BY <1>1, <2>2
        <4>2. QED BY <3>1, <4>1
      <3>3. ASSUME swaps = 0
            PROVE  /\ IsSequence(Append(extractor.artifacts, new))
                   /\ IsCutFrom(Append(extractor.artifacts, new), extractor.block.closure,
                                sourceDesign, extractor.paths)
                   /\ IF next = "files"
                      THEN Len(Append(extractor.artifacts, new)) < Len(extractor.block.closure)
                      ELSE Len(Append(extractor.artifacts, new)) = Len(extractor.block.closure)
        <4> DEFINE artifacts == extractor.artifacts
                   closure == extractor.block.closure
        <4>1. /\ extractor.parsed = sourceDesign
              /\ extractor.paths \subseteq Existing(sourceDesign)
              /\ ParseCode(sourceDesign, extractor.paths) = "ready"
              /\ extractor.block = BlockOf(sourceDesign, extractor.paths)
              /\ IsSequence(artifacts)
              /\ IsCutFrom(artifacts, closure, sourceDesign, extractor.paths)
              /\ Len(artifacts) < Len(closure)
          BY <1>1, <3>3 DEF SliceInv, ExtractorInv
        <4>2. /\ IsSequence(Append(artifacts, new)) /\ Len(artifacts) \in Nat
              /\ Len(Append(artifacts, new)) = Len(artifacts) + 1
              /\ Append(artifacts, new)[Len(artifacts) + 1] = new
              /\ \A n \in 1..Len(artifacts) : Append(artifacts, new)[n] = artifacts[n]
          <5> HIDE DEF new, artifacts
          <5>1. QED BY <4>1, AppendedIs
        <4>3. Len(closure) \in Nat
          <5>1. \E S : closure \in Seq(S)
            BY <4>1, ReadyParses DEF SliceInv
          <5>2. QED BY <5>1
        <4>4. /\ new.module = closure[index]
              /\ new.source = DeclaredBy(sourceDesign, extractor.paths, new.module)
              /\ new.sourceIs = SourceFiles(sourceDesign)[new.source]
              /\ new.text = TheModule(new.sourceIs.modules, new.module).text
          BY <4>1
        <4>5. ASSUME NEW n \in 1..Len(Append(artifacts, new))
              PROVE  LET a == Append(artifacts, new)[n] IN
                     /\ a.module = closure[n]
                     /\ a.source = DeclaredBy(sourceDesign, extractor.paths, a.module)
                     /\ a.sourceIs = SourceFiles(sourceDesign)[a.source]
                     /\ a.text = TheModule(a.sourceIs.modules, a.module).text
          <5> HIDE DEF new, closure, artifacts
          <5>1. n \in 1..Len(artifacts) \/ n = Len(artifacts) + 1
            BY <4>2
          <5>2. CASE n \in 1..Len(artifacts)
            BY <4>1, <4>2, <5>2 DEF IsCutFrom
          <5>3. CASE n = Len(artifacts) + 1
            BY <4>2, <4>4, <5>3 DEF artifacts
          <5>4. QED BY <5>1, <5>2, <5>3
        <4>6. IsCutFrom(Append(artifacts, new), closure, sourceDesign, extractor.paths)
          BY <4>5 DEF IsCutFrom
        <4>7. next = IF Len(artifacts) + 1 = Len(closure) THEN "manifest" ELSE "files"
          BY <1>1
        <4>8. IF next = "files" THEN Len(Append(artifacts, new)) < Len(closure)
              ELSE Len(Append(artifacts, new)) = Len(closure)
          <5> HIDE DEF new, next, closure, artifacts
          <5>1. QED BY <4>1, <4>2, <4>3, <4>7
        <4> HIDE DEF new, next
        <4>9. QED BY <4>2, <4>6, <4>8
      <3>4. next \in {"files", "manifest"}
        BY <1>1
      <3>5. swaps = 0 => /\ extractor.parsed = sourceDesign
                         /\ extractor.paths \subseteq Existing(sourceDesign)
                         /\ ParseCode(sourceDesign, extractor.paths) = "ready"
                         /\ extractor.block = BlockOf(sourceDesign, extractor.paths)
        BY <1>1 DEF SliceInv, ExtractorInv
      <3> HIDE DEF new, next
      <3>6. swaps' = swaps /\ sourceDesign' = sourceDesign
        BY <1>1
      <3>7. /\ extractor'.pc = next /\ extractor'.parsed = extractor.parsed /\ extractor'.paths = extractor.paths
            /\ extractor'.artifacts = Append(extractor.artifacts, new) /\ extractor'.block = extractor.block
            /\ extractor' = [pc |-> extractor'.pc, runs |-> extractor'.runs, parsed |-> extractor'.parsed,
                             paths |-> extractor'.paths, identity |-> extractor'.identity,
                             artifacts |-> extractor'.artifacts, block |-> extractor'.block]
        BY <3>2
      <3>8. QED BY <3>3, <3>4, <3>5, <3>6, <3>7 DEF ExtractorInv
    <2>3. QED BY <2>1, <2>2
  <1>3. UNCHANGED <<sourceDesign, swaps, sliceManifest, evidenceFiles, measurementReports, taken, comparer, verdict>>
        /\ Overtake
    BY <1>1
  <1> HIDE DEF new
  <1>4. QED BY <1>2, <1>3, SliceRest, OvertakeKeeps DEF SliceInv

LEMMA WriteSliceManifestKeeps ==
  ASSUME SliceInv, WriteSliceManifest
  PROVE  SliceInv'
  <1> USE DEF inputFiles, evidencePart
  <1>1. ExtractorInv'
    BY DEF WriteSliceManifest, ExtractorInv, Rest, IdleExtractor
  <1>2. ManifestInv'
    <2> SUFFICES ASSUME swaps = 0 PROVE BindsItsBlock(sliceManifest')
      BY DEF ManifestInv, WriteSliceManifest
    <2>1. /\ extractor.paths \subseteq Existing(sourceDesign)
          /\ ParseCode(sourceDesign, extractor.paths) = "ready"
          /\ extractor.block = BlockOf(sourceDesign, extractor.paths)
          /\ IsCutFrom(extractor.artifacts, extractor.block.closure, sourceDesign, extractor.paths)
          /\ Len(extractor.artifacts) = Len(extractor.block.closure)
      BY DEF SliceInv, ExtractorInv, WriteSliceManifest
    <2>2. sliceManifest'.block = extractor.block /\ sliceManifest'.artifacts = extractor.artifacts
      BY DEF WriteSliceManifest
    <2>3. QED BY <2>1, <2>2, CutBindsItsBlock DEF SliceInv
  <1>3. QED BY <1>1, <1>2, SliceRest DEF SliceInv, WriteSliceManifest

LEMMA KillExtractionKeeps ==
  ASSUME SliceInv, KillExtraction
  PROVE  SliceInv'
  <1> USE DEF inputFiles, evidencePart
  <1>1. ExtractorInv'
    BY DEF KillExtraction, ExtractorInv, Rest, IdleExtractor
  <1>2. CASE extractor.pc = "files"
    <2>1. Overtake /\ UNCHANGED <<sourceDesign, swaps, sliceManifest, evidenceFiles, measurementReports,
                                  taken, comparer, verdict>>
      BY <1>2 DEF KillExtraction
    <2>2. QED BY <1>1, <2>1, SliceRest, OvertakeKeeps DEF SliceInv
  <1>3. CASE extractor.pc # "files"
    <2>1. /\ sliceManifest' = [status |-> "torn"]
          /\ UNCHANGED <<sourceDesign, swaps, sliceFiles, overtaken, evidenceFiles, measurementReports,
                         taken, comparer, verdict>>
      BY <1>3 DEF KillExtraction
    <2>2. ManifestInv'
      BY <2>1 DEF ManifestInv
    <2>3. QED BY <1>1, <2>1, <2>2, SliceRest DEF SliceInv
  <1>4. QED BY <1>2, <1>3

LEMMA ReplacementKeeps ==
  ASSUME SliceInv, Swap, MaxSwaps <= 1
  PROVE  SliceInv'
  <1>1. swaps = 0 /\ swaps' = 1
    BY SliceAssumption DEF Swap, SliceInv
  <1>2. sourceDesign' \in DesignSet
    BY DEF Swap, SliceInv, DesignSet
  <1>3. UNCHANGED <<sliceFiles, sliceManifest, extractor, evidencePart, comparer, verdict, overtaken>>
    BY DEF Swap
  <1> USE DEF evidencePart
  <1>4. ExtractorInv'
    BY <1>1, <1>3 DEF SliceInv, ExtractorInv
  <1>5. ManifestInv'
    BY <1>1 DEF ManifestInv
  <1>6. ComparerInv'
    <2>1. comparer.pc = "derive" => BindsItsBlock(comparer.manifest)
      BY <1>1 DEF SliceInv, ComparerInv
    <2>2. QED BY <1>1, <1>3, <2>1 DEF SliceInv, ComparerInv, FilesAsHashed
  <1>7. AlignedIsEarned'
    BY <1>3 DEF SliceInv, AlignedIsEarned, AreMeasurements
  <1>8. QED BY <1>1, <1>2, <1>3, <1>4, <1>5, <1>6, <1>7 DEF SliceInv, ReportsAreTaken

LEMMA ClaimsPaths ==
  ASSUME NEW flaw, NEW s \in Sides, NEW k \in Kinds
  PROVE  Claims(flaw)[s][k].path \in Sides \X Kinds
  <1> DEFINE Claim(t, j) ==
                [there |-> ~(flaw = "unmeasured" /\ <<t, j>> = <<"compiler", "timing">>),
                 path |-> <<t, j>>, report |-> Measurement(flaw, t, j, 1),
                 says |-> Measurement(flaw, t, j,
                    IF flaw = "edited" /\ <<t, j>> = <<"compiler", "resources">> THEN 2 ELSE 1)]
             other == [Claim("reference", k) EXCEPT !.says.id = <<s, k>>]
  <1>1. Claims(flaw)[s][k] =
          IF flaw = "borrowed" /\ <<s, k>> = <<"compiler", "timing">> THEN other ELSE Claim(s, k)
    BY DEF Claims
  <1>2. Claim(s, k).path \in Sides \X Kinds
    OBVIOUS
  <1>3. other.path \in Sides \X Kinds
    <2>1. Claim("reference", k).path = <<"reference", k>> /\ "reference" \in Sides
      BY DEF Sides
    <2>2. other.path = Claim("reference", k).path
      OBVIOUS
    <2>3. QED BY <2>1, <2>2
  <1> HIDE DEF Claim, other
  <1>4. QED BY <1>1, <1>2, <1>3

LEMMA ProduceKeeps ==
  ASSUME SliceInv, Produce
  PROVE  SliceInv'
  <1>1. /\ taken = {}
        /\ UNCHANGED <<sourceDesign, swaps, sliceFiles, sliceManifest, extractor, comparer, verdict, overtaken>>
    BY DEF Produce, extractionVars
  <1>2. PathsAreClaims(evidenceFiles') /\ ReportsAreTaken'
    <2>1. PICK flaw \in Flaws : \A s \in Sides : evidenceFiles'[s].claims = Claims(flaw)[s]
      BY DEF Produce
    <2>3. \A s \in Sides, k \in Kinds : measurementReports'[s][k] \in taken'
      BY DEF Produce
    <2>4. QED BY <2>1, <2>3, ClaimsPaths DEF PathsAreClaims, ReportsAreTaken
  <1>3. AlignedIsEarned'
    <2>1. ~(verdict.status = "aligned" /\ ~overtaken)
      BY <1>1 DEF SliceInv, AlignedIsEarned, AreMeasurements, Sides, Kinds
    <2>2. QED BY <1>1, <2>1 DEF AlignedIsEarned
  <1>4. QED BY <1>1, <1>2, <1>3, SliceRest DEF SliceInv

LEMMA LoadsKeep ==
  ASSUME SliceInv, LoadFrozenContract \/ LoadSliceManifest \/ LoadEvidence
  PROVE  SliceInv'
  <1> USE DEF extractionVars, evidencePart
  <1>1. CASE LoadFrozenContract
    <2>1. ComparerInv'
      BY <1>1 DEF LoadFrozenContract, ComparerInv
    <2>2. QED BY <1>1, <2>1, SliceRest DEF SliceInv, LoadFrozenContract
  <1>2. CASE LoadSliceManifest
    <2>1. UNCHANGED <<sourceDesign, swaps, sliceManifest, extractor, evidenceFiles, measurementReports, taken, overtaken>>
      BY <1>2 DEF LoadSliceManifest
    <2>2. ComparerInv'
      <3>1. \/ comparer' = IdleComparer
            \/ comparer' = [pc |-> "evidence", contract |-> comparer.contract, manifest |-> sliceManifest]
        BY <1>2 DEF LoadSliceManifest
      <3>2. sliceManifest.status = "ready" => BindsItsBlock(sliceManifest) \/ swaps > 0
        BY DEF SliceInv, ManifestInv
      <3>3. QED BY <2>1, <3>1, <3>2 DEF ComparerInv, IdleComparer
    <2>3. verdict' = verdict \/ verdict'.status = "contract_mismatch"
      BY <1>2 DEF LoadSliceManifest
    <2>4. AlignedIsEarned'
      BY <2>1, <2>3, SliceRest DEF AlignedIsEarned
    <2>5. QED BY <2>1, <2>2, <2>4, SliceRest DEF SliceInv
  <1>3. CASE LoadEvidence
    <2>1. ComparerInv'
      <3>1. comparer.manifest.status = "ready" => BindsItsBlock(comparer.manifest) \/ swaps > 0
        BY <1>3 DEF SliceInv, ComparerInv, LoadEvidence
      <3>2. /\ comparer' = [pc |-> "hash", contract |-> comparer.contract, manifest |-> comparer.manifest,
                            frozen |-> contractFile, evidence |-> evidenceFiles]
            /\ swaps' = swaps
        BY <1>3 DEF LoadEvidence
      <3>3. PathsAreClaims(comparer'.evidence)
        BY <3>2 DEF SliceInv
      <3>4. QED BY <3>1, <3>2, <3>3 DEF ComparerInv
    <2>2. QED BY <1>3, <2>1, SliceRest DEF SliceInv, LoadEvidence
  <1>4. QED BY <1>1, <1>2, <1>3

LEMMA ConcludeKeeps ==
  ASSUME SliceInv, NEW word, Conclude(word), word # "aligned",
         UNCHANGED <<extractionVars, evidencePart, overtaken>>
  PROVE  SliceInv'
  <1> USE DEF extractionVars, evidencePart
  <1>1. ComparerInv'
    BY DEF Conclude, IdleComparer, ComparerInv
  <1>2. AlignedIsEarned'
    BY DEF Conclude, AlignedIsEarned
  <1>3. QED BY <1>1, <1>2, SliceRest DEF SliceInv

LEMMA HashSliceKeeps ==
  ASSUME SliceInv, HashSlice
  PROVE  SliceInv'
  <1> DEFINE m == comparer.manifest
  <1>1. UNCHANGED <<extractionVars, evidencePart, overtaken>>
    BY DEF HashSlice
  <1>2. CASE Conclude("contract_mismatch") \/ Conclude("incomplete")
    BY <1>1, <1>2, ConcludeKeeps
  <1>3. CASE /\ contractFile = comparer.frozen /\ comparer.contract = comparer.frozen
             /\ m.contract = comparer.frozen
             /\ ManifestHolds(m, comparer.frozen)
             /\ comparer' = [comparer EXCEPT !.pc = "derive"] /\ UNCHANGED verdict
    <2>1. /\ comparer = [pc |-> comparer.pc, contract |-> comparer.contract, manifest |-> m,
                         frozen |-> comparer.frozen, evidence |-> comparer.evidence]
          /\ PathsAreClaims(comparer.evidence)
          /\ m.status = "ready" => BindsItsBlock(m) \/ swaps > 0
      BY DEF HashSlice, SliceInv, ComparerInv
    <2>2. comparer' = [pc |-> "derive", contract |-> comparer.contract, manifest |-> m,
                       frozen |-> comparer.frozen, evidence |-> comparer.evidence]
      BY <1>3, <2>1
    <2>3. m.status = "ready" /\ m.identity = comparer.frozen.identity
      BY <1>3 DEF ManifestHolds
    <2>4. SourcesAsHashed(m) /\ FilesAsHashed(m)
      <3>1. /\ [n \in 1..Len(m.artifacts) |-> m.artifacts[n].module] = m.block.closure
            /\ \A n \in 1..Len(m.artifacts) :
                 LET a == m.artifacts[n] IN
                 /\ SourceFiles(sourceDesign)[a.source] = a.sourceIs
                 /\ sliceFiles[a.extracted] = a.text
        BY <1>3 DEF ManifestHolds
      <3> HIDE DEF m
      <3>2. Len(m.artifacts) = Len(m.block.closure)
        BY <3>1
      <3>3. \A n \in 1..Len(m.artifacts) : m.artifacts[n].module = m.block.closure[n]
        BY <3>1
      <3>4. QED BY <3>1, <3>2, <3>3 DEF SourcesAsHashed, FilesAsHashed
    <2>5. UNCHANGED <<sourceDesign, swaps, sliceFiles>>
      BY <1>1 DEF extractionVars
    <2>6. SourcesAsHashed(m)' /\ FilesAsHashed(m)'
      <3>1. m' = m
        BY <2>2
      <3>2. QED BY <2>4, <2>5, <3>1 DEF SourcesAsHashed, FilesAsHashed
    <2>7. ComparerInv'
      BY <1>3, <2>1, <2>2, <2>3, <2>5, <2>6 DEF ComparerInv
    <2>8. QED BY <1>1, <1>3, <2>7, SliceRest DEF SliceInv, extractionVars, evidencePart
  <1>4. QED BY <1>2, <1>3 DEF HashSlice

LEMMA DeriveSliceKeeps ==
  ASSUME SliceInv, DeriveSlice
  PROVE  SliceInv'
  <1> DEFINE m == comparer.manifest
  <1>1. UNCHANGED <<extractionVars, evidencePart, overtaken>>
    BY DEF DeriveSlice
  <1>2. CASE Conclude("incomplete")
    BY <1>1, <1>2, ConcludeKeeps
  <1>3. CASE Derived(m) /\ comparer' = [comparer EXCEPT !.pc = "judge"] /\ UNCHANGED verdict
    <2>1. /\ comparer = [pc |-> comparer.pc, contract |-> comparer.contract, manifest |-> m,
                         frozen |-> comparer.frozen, evidence |-> comparer.evidence]
          /\ PathsAreClaims(comparer.evidence)
          /\ m.status = "ready" /\ m.contract = comparer.frozen /\ m.identity = comparer.frozen.identity
          /\ BindsItsBlock(m) \/ SourcesAsHashed(m)
          /\ overtaken \/ FilesAsHashed(m)
      BY DEF DeriveSlice, SliceInv, ComparerInv
    <2>2. comparer' = [pc |-> "judge", contract |-> comparer.contract, manifest |-> m,
                       frozen |-> comparer.frozen, evidence |-> comparer.evidence]
      BY <1>3, <2>1
    <2>3. ASSUME SourcesAsHashed(m), FilesAsHashed(m) PROVE BindsItsBlock(m)
      <3> DEFINE paths == {m.artifacts[n].source : n \in 1..Len(m.artifacts)}
      <3>1. /\ paths \subseteq Existing(sourceDesign)
            /\ ParseCode(sourceDesign, paths) = "ready"
            /\ BlockOf(sourceDesign, paths) = m.block
            /\ \A n \in 1..Len(m.artifacts) :
                 LET a == m.artifacts[n] IN
                 sliceFiles[a.extracted] = TheModule(Declared(sourceDesign, paths), a.module).text
        BY <1>3 DEF Derived
      <3>2. \A n \in 1..Len(m.artifacts) :
              LET a == m.artifacts[n] IN
              /\ a.module = m.block.closure[n]
              /\ a.sourceIs = SourceFiles(sourceDesign)[a.source]
              /\ a.text = TheModule(Declared(sourceDesign, paths), a.module).text
        <4> HIDE DEF paths, m
        <4>1. QED BY <2>3, <3>1 DEF SourcesAsHashed, FilesAsHashed
      <3>3. sourceDesign \in DesignSet /\ Len(m.artifacts) = Len(m.block.closure)
        BY <2>3 DEF SliceInv, SourcesAsHashed
      <3> HIDE DEF m
      <3>4. paths = {m.artifacts[n].source : n \in 1..Len(m.artifacts)}
        OBVIOUS
      <3> HIDE DEF paths
      <3>5. IsDerivedFrom(m, sourceDesign, paths)
        BY <3>2, <3>3, <3>4 DEF IsDerivedFrom
      <3>6. QED BY <3>1, <3>3, <3>5, DerivedBindsItsBlock
    <2>4. overtaken \/ BindsItsBlock(m)
      BY <2>1, <2>3
    <2>5. UNCHANGED <<swaps, overtaken>>
      BY <1>1 DEF extractionVars
    <2>6. ComparerInv'
      BY <2>1, <2>2, <2>4, <2>5 DEF ComparerInv
    <2>7. QED BY <1>1, <1>3, <2>6, SliceRest DEF SliceInv, extractionVars, evidencePart
  <1>4. QED BY <1>2, <1>3 DEF DeriveSlice

LEMMA JudgeKeeps ==
  ASSUME SliceInv, Judge
  PROVE  SliceInv'
  <1> DEFINE e == comparer.evidence
             m == comparer.manifest
             c == comparer.frozen
             word == Judgement(e, m, c)
  <1>1. UNCHANGED <<extractionVars, evidencePart, overtaken>>
    BY DEF Judge
  <1>2. CASE word # "aligned" /\ Conclude(word)
    BY <1>1, <1>2, ConcludeKeeps
  <1>3. CASE /\ word = "aligned"
             /\ verdict' = [status |-> word, contract |-> c, manifest |-> m,
                            claims |-> [s \in Sides |-> e[s].claims]]
             /\ comparer' = IdleComparer
    <2>1. /\ PathsAreClaims(e) /\ ReportsAreTaken
          /\ m.contract = c /\ m.identity = c.identity
          /\ overtaken \/ BindsItsBlock(m)
      BY DEF Judge, SliceInv, ComparerInv
    <2>2. AreMeasurements([s \in Sides |-> e[s].claims], m, c)
      <3> HIDE DEF e, m, c
      <3>1. QED BY <1>3, <2>1, JudgedAreMeasurements
    <2>3. overtaken' = overtaken /\ taken' = taken
      BY <1>1 DEF evidencePart
    <2>4. AlignedIsEarned'
      <3> HIDE DEF e, m, c, word
      <3>1. /\ verdict'.manifest = m /\ verdict'.contract = c
            /\ verdict'.claims = [s \in Sides |-> e[s].claims]
        BY <1>3
      <3>2. QED BY <2>1, <2>2, <2>3, <3>1 DEF AlignedIsEarned, AreMeasurements
    <2>5. ComparerInv'
      BY <1>3 DEF IdleComparer, ComparerInv
    <2>6. QED BY <1>1, <2>4, <2>5, SliceRest DEF SliceInv, extractionVars, evidencePart
  <1>4. QED BY <1>2, <1>3 DEF Judge

(* An aligned verdict is earned, when at most one file is replaced: the     *)
(* manifest binds the modules of one block and all that they need, and the  *)
(* numbers are measurements of it that were taken.                          *)
THEOREM AlignedStaysEarned ==
  ASSUME MaxSwaps <= 1
  PROVE  SliceSpec => []AlignedIsEarned
  <1>1. SliceInit => SliceInv
    <2> SUFFICES ASSUME SliceInit PROVE SliceInv
      OBVIOUS
    <2> USE DEF SliceInit, ExtractionInit, EvidenceFilesInit
    <2>1. ExtractorInv /\ ManifestInv
      BY DEF ExtractorInv, ManifestInv, IdleExtractor, NoSliceManifest
    <2>2. PathsAreClaims(evidenceFiles) /\ ReportsAreTaken
      BY DEF PathsAreClaims, NoEvidence, ReportsAreTaken, NoClaim
    <2>3. ComparerInv /\ AlignedIsEarned
      BY DEF ComparerInv, IdleComparer, AlignedIsEarned, NoVerdict
    <2>4. QED BY <2>1, <2>2, <2>3 DEF SliceInv, DesignSet
  <1>2. SliceInv /\ [SliceNext]_sliceVars => SliceInv'
    <2> SUFFICES ASSUME SliceInv, [SliceNext]_sliceVars PROVE SliceInv'
      OBVIOUS
    <2>1. CASE SliceNext
      BY <2>1, StartExtractionKeeps, WriteModuleKeeps, WriteSliceManifestKeeps, KillExtractionKeeps,
         ReplacementKeeps, ProduceKeeps, LoadsKeep, HashSliceKeeps, DeriveSliceKeeps, JudgeKeeps DEF SliceNext
    <2>2. CASE UNCHANGED sliceVars
      BY <2>2, SliceRest DEF SliceInv, sliceVars, extractionVars, evidencePart
    <2>3. QED BY <2>1, <2>2
  <1>3. SliceInv => AlignedIsEarned
    BY DEF SliceInv
  <1>4. QED BY <1>1, <1>2, <1>3, PTL DEF SliceSpec

-----------------------------------------------------------------------------
(* The reference package and the adapter that reads it.                    *)

(* The steps by what the run has behind it: the contract is pinned, the    *)
(* contract is read, the manifest is hashed, and so on.                    *)
Verifying == {"pin", "contract", "hash", "manifest", "receipt", "named", "weights", "scales",
              "files", "describe", "verified"}
WithAManifest == {"pin config", "config", "weights again", "scales again", "loaded"}
Rereading == WithAManifest \cup {"manifest again"}
Again == Rereading \cup {"contract again", "validate"}

Held(f) == PackageVersions[f] \cup {FrozenFile(f)}
IsAnAdapter(a) ==
    /\ a \in [step: {a.step}, adapts: BOOLEAN, done: Nat, contract: {a.contract}, manifest: {a.manifest},
              receipt: {a.receipt}, weights: {a.weights}, seen: {a.seen}, proof: {a.proof},
              shapes: {a.shapes}, replaced: SUBSET ReferenceFiles]
    /\ a.step \in Verifying \cup Again \cup {"idle"}

(* What a run over these files and beside this bundle has in hand.  While  *)
(* neither the manifest nor the contract is exchanged each is the frozen   *)
(* one: on the disk from the pin and the hash on, in hand from the reads.  *)
FrozenInHand(a, held) ==
    {"manifest", "contract"} \cap a.replaced = {} =>
      /\ a.step \notin {"idle", "pin"} => held["contract"] = FrozenContract
      /\ a.step \notin {"idle", "pin", "contract"} => a.contract = FrozenContract
      /\ a.step \notin {"idle", "pin", "contract", "hash"} \/ (a.step = "hash" /\ a.done > 0) =>
           held["manifest"] = FrozenPackage["manifest"]
      /\ a.step \in WithAManifest => a.manifest = FrozenPackage["manifest"]
BesideBundle(a, b) ==
    /\ a.adapts /\ a.step \notin {"idle", "loaded"} => ~b.made
    /\ a.step \in Again => a.adapts
    /\ a.step = "loaded" => b.made /\ b.manifest = a.manifest
    /\ a.step \in Rereading => a.proof.package = a.contract.package
    /\ a.step \in WithAManifest => a.manifest \in Held("manifest") \ {Unreadable}
RunInv(a, held, b) == IsAnAdapter(a) /\ BesideBundle(a, b) /\ FrozenInHand(a, held)

BundleIsNamed ==
    /\ DOMAIN bundle.state = Targets(bundle.manifest.model.layers)
    /\ \A t \in Values(bundle.manifest.tensors) :
          bundle.state[package_name_to_gpt_neo_key(t.name)] = DecodedOf(t)
    /\ bundle.state[LmHead] = bundle.state[Embedding]
    /\ bundle.verified.package = bundle.contract.package
ReferenceInv ==
    /\ packageFiles = [f \in ReferenceFiles |-> packageFiles[f]]
    /\ \A f \in ReferenceFiles : packageFiles[f] \in Held(f)
    /\ RunInv(adapter, packageFiles, bundle)
    /\ ~bundle.made => numericTrace = NotMade /\ packageProgram = NotMade
    /\ bundle.made => BundleIsNamed
    /\ numericTrace # NotMade => numericTrace.state = bundle.state
    /\ packageProgram # NotMade => packageProgram.state = bundle.state

-----------------------------------------------------------------------------
(* The names of a package and the keys of the model.                       *)

(* A source name is the model's own or a block's.                          *)
LEMMA SourceNameForms ==
    ASSUME NEW layers \in Nat, NEW name \in _expected_source_names(layers)
    PROVE  \/ name[1] = 0 /\ name[2] \in DOMAIN ModelTargets /\ name = <<name[1], name[2]>>
           \/ name[1] \in 1..layers /\ name[2] \in DOMAIN BlockTargets /\ name = <<name[1], name[2]>>
BY DEF _expected_source_names

(* Two source names do not share a key, and none has the key of the head.  *)
LEMMA KeysAreDistinct ==
    ASSUME NEW layers \in Nat, NEW a \in _expected_source_names(layers), NEW b \in _expected_source_names(layers),
           package_name_to_gpt_neo_key(a) = package_name_to_gpt_neo_key(b)
    PROVE  a = b
<1>1. a[1] = b[1] /\ (a[1] = 0 \/ a[1] \in 1..layers)
    BY SourceNameForms DEF package_name_to_gpt_neo_key
<1>2. CASE a[1] = 0
  <2> 0 \notin 1..layers
    OBVIOUS
  <2>1. a[2] \in DOMAIN ModelTargets /\ b[2] \in DOMAIN ModelTargets
    BY <1>1, <1>2, SourceNameForms
  <2>2. ModelTargets[a[2]] = ModelTargets[b[2]]
    BY <1>1, <1>2 DEF package_name_to_gpt_neo_key
  <2>3. a[2] = b[2]
    BY <2>1, <2>2 DEF ModelTargets
  <2> QED BY <1>1, <2>3, SourceNameForms
<1>3. CASE a[1] # 0
  <2>1. a[2] \in DOMAIN BlockTargets /\ b[2] \in DOMAIN BlockTargets
    BY <1>1, <1>3, SourceNameForms
  <2>2. BlockTargets[a[2]] = BlockTargets[b[2]]
    BY <1>1, <1>3 DEF package_name_to_gpt_neo_key
  <2>3. a[2] = b[2]
    BY <2>1, <2>2 DEF BlockTargets
  <2> QED BY <1>1, <2>3, SourceNameForms
<1> QED BY <1>2, <1>3

LEMMA NoKeyIsTheHeads ==
    ASSUME NEW layers \in Nat, NEW a \in _expected_source_names(layers)
    PROVE  package_name_to_gpt_neo_key(a) # LmHead
<1>1. CASE a[1] = 0
  <2>1. a[2] \in DOMAIN ModelTargets
    BY <1>1, SourceNameForms
  <2>2. ModelTargets[a[2]] # "lm_head.weight"
    BY <2>1 DEF ModelTargets
  <2> QED BY <1>1, <2>2 DEF package_name_to_gpt_neo_key, LmHead
<1>2. CASE a[1] # 0
    BY <1>2 DEF package_name_to_gpt_neo_key, LmHead
<1> QED BY <1>1, <1>2

LEMMA EmbeddingIsATarget ==
    ASSUME NEW layers \in Nat
    PROVE  Embedding \in Targets(layers) /\ Embedding # LmHead
<1> DEFINE name == <<0, "token_embedding">>
<1>1. name \in _expected_source_names(layers) /\ package_name_to_gpt_neo_key(name) = Embedding
    BY DEF _expected_source_names, ModelTargets, package_name_to_gpt_neo_key, Embedding
<1> QED BY <1>1 DEF Targets, Embedding, LmHead

(* A manifest of the disk lists a name once.                               *)
LEMMA TensorNamesAreUnique ==
    ASSUME NEW m \in Held("manifest") \ {Unreadable}, NEW t \in Values(m.tensors), NEW u \in Values(m.tensors),
           t.name = u.name
    PROVE  t = u
<1>1. PICK i \in DOMAIN m.tensors : t = m.tensors[i]
    BY DEF Values
<1>2. PICK j \in DOMAIN m.tensors : u = m.tensors[j]
    BY DEF Values
<1>3. m \in (PackageVersions["manifest"] \cup {FrozenPackage["manifest"]}) \ {Unreadable}
    BY DEF Held, FrozenFile
<1>4. i = j
    BY <1>1, <1>2, <1>3, ReferenceAssumption
<1> QED BY <1>1, <1>2, <1>4

LEMMA LayersAreCounted ==
    ASSUME NEW m \in Held("manifest") \ {Unreadable}
    PROVE  m.model.layers \in Nat
<1>1. m \in (PackageVersions["manifest"] \cup {FrozenPackage["manifest"]}) \ {Unreadable}
    BY DEF Held, FrozenFile
<1> QED BY <1>1, ReferenceAssumption

(* What is reconstructed has every tensor under its key.                   *)
LEMMA ReconstructionIsNamed ==
    ASSUME NEW m \in Held("manifest") \ {Unreadable}, NEW weights, NEW scales, NEW shapes,
           CanReconstruct(m, weights, scales, shapes)
    PROVE  LET state == reconstruct_state_dict(m, weights, scales) IN
           /\ DOMAIN state = Targets(m.model.layers)
           /\ \A t \in Values(m.tensors) : state[package_name_to_gpt_neo_key(t.name)] = DecodedOf(t)
           /\ state[LmHead] = state[Embedding]
<1> DEFINE layers == m.model.layers
           state  == reconstruct_state_dict(m, weights, scales)
<1>1. layers \in Nat
    BY LayersAreCounted
<1>2. DOMAIN state = Targets(layers)
    BY DEF reconstruct_state_dict
<1>3. \A target \in Targets(layers) : state[target] = TensorOfImages(SourceOf(m, target), weights, scales)
    BY DEF reconstruct_state_dict
<1>4. ASSUME NEW t \in Values(m.tensors)
      PROVE  state[package_name_to_gpt_neo_key(t.name)] = DecodedOf(t)
  <2> DEFINE target == package_name_to_gpt_neo_key(t.name)
  <2>1. TensorNames(m) = _expected_source_names(layers) /\ TensorIsMapped(t, weights, scales, shapes)
    BY DEF CanReconstruct
  <2>2. \A u \in Values(m.tensors) : u.name \in _expected_source_names(layers)
    BY <2>1 DEF TensorNames
  <2>3. target \in Targets(layers) /\ target # LmHead
    BY <1>1, <2>2, NoKeyIsTheHeads DEF Targets
  <2>4. /\ SourceOf(m, target) \in Values(m.tensors)
        /\ package_name_to_gpt_neo_key(SourceOf(m, target).name) = target
    BY <2>3 DEF SourceOf
  <2>5. SourceOf(m, target).name = t.name
    BY <1>1, <2>2, <2>4, KeysAreDistinct
  <2>6. SourceOf(m, target) = t
    BY <2>4, <2>5, TensorNamesAreUnique
  <2>7. IsIntact(t, weights, scales)
    BY <2>1 DEF TensorIsMapped
  <2>8. TensorOfImages(t, weights, scales) = DecodedOf(t)
    BY <2>7 DEF TensorOfImages, DecodedOf, IsIntact
  <2> QED BY <1>3, <2>3, <2>6, <2>8
<1>5. LmHead \in Targets(layers) /\ Embedding \in Targets(layers) /\ Embedding # LmHead
    BY <1>1, EmbeddingIsATarget DEF Targets
<1>6. SourceOf(m, LmHead) = SourceOf(m, Embedding)
    BY <1>5 DEF SourceOf
<1>7. state[LmHead] = state[Embedding]
    BY <1>3, <1>5, <1>6
<1> QED BY <1>2, <1>4, <1>7
-----------------------------------------------------------------------------
(* The steps of a run.                                                     *)

LEMMA NoRunIsFine == \A held, b : RunInv(NoAdapter, held, b)
BY DEF RunInv, IsAnAdapter, BesideBundle, FrozenInHand, NoAdapter, Verifying, Again, Rereading, WithAManifest

(* A step that moves only the run keeps the invariant if it keeps the run's. *)
LEMMA RunStepIsEnough ==
    ASSUME ReferenceInv, UNCHANGED <<packageFiles, bundle, numericTrace, packageProgram>>,
           adapter' = NoAdapter \/ RunInv(adapter', packageFiles, bundle)
    PROVE  ReferenceInv'
<1>1. RunInv(adapter', packageFiles', bundle')
    BY NoRunIsFine
<1> QED BY <1>1 DEF ReferenceInv, BundleIsNamed

(* Where a run has got to, and the rest of it.                             *)
LEMMA MovedTo ==
    ASSUME NEW held, NEW b, RunInv(adapter, held, b), NEW step \in Verifying \cup Again
    PROVE  LET a == Onward(step) IN
           /\ IsAnAdapter(a) /\ a.step = step /\ a.done = 0 /\ a.adapts = adapter.adapts
           /\ a.contract = adapter.contract /\ a.manifest = adapter.manifest
           /\ a.proof = adapter.proof /\ a.replaced = adapter.replaced
BY DEF RunInv, IsAnAdapter, Onward

LEMMA StartSteps ==
    ASSUME ReferenceInv, StartVerify \/ StartAdapter
    PROVE  ReferenceInv'
<1>1. CASE StartVerify
  <2> DEFINE moved == [NoAdapter EXCEPT !.step = "pin"]
  <2>1. RunInv(moved, packageFiles, bundle)
    BY DEF RunInv, IsAnAdapter, BesideBundle, FrozenInHand, NoAdapter, Verifying, Again, Rereading, WithAManifest
  <2>2. adapter' = moved /\ UNCHANGED <<packageFiles, bundle, numericTrace, packageProgram>>
    BY <1>1 DEF StartVerify, Reached, products
  <2> QED BY <2>1, <2>2, RunStepIsEnough
<1>2. CASE StartAdapter
  <2> DEFINE moved == [NoAdapter EXCEPT !.step = "pin", !.adapts = TRUE]
  <2>1. ~bundle.made
    BY <1>2 DEF StartAdapter
  <2>2. RunInv(moved, packageFiles, bundle)
    BY <2>1 DEF RunInv, IsAnAdapter, BesideBundle, FrozenInHand, NoAdapter, Verifying, Again, Rereading, WithAManifest
  <2>3. adapter' \in {moved, NoAdapter} /\ UNCHANGED <<packageFiles, bundle, numericTrace, packageProgram>>
    BY <1>2 DEF StartAdapter, Reached, products, Need
  <2> QED BY <2>2, <2>3, RunStepIsEnough
<1> QED BY <1>1, <1>2

LEMMA ContractSteps ==
    ASSUME ReferenceInv, PinContract \/ ReadContract
    PROVE  ReferenceInv'
<1>1. CASE PinContract
  <2> DEFINE moved == Onward("contract")
  <2>1. /\ adapter.step = "pin" /\ UNCHANGED <<packageFiles, bundle, numericTrace, packageProgram>>
        /\ (adapter' = moved /\ packageFiles["contract"] = FrozenContract) \/ adapter' = NoAdapter
    BY <1>1 DEF PinContract, Reached, products, Need
  <2>2. RunInv(adapter, packageFiles, bundle)
    BY DEF ReferenceInv
  <2>3. /\ IsAnAdapter(moved) /\ moved.step = "contract" /\ moved.adapts = adapter.adapts
        /\ moved.replaced = adapter.replaced
    BY <2>2, MovedTo DEF Verifying
  <2> HIDE DEF moved
  <2>4. packageFiles["contract"] = FrozenContract => RunInv(moved, packageFiles, bundle)
    BY <2>1, <2>2, <2>3 DEF RunInv, BesideBundle, FrozenInHand, Again, Rereading, WithAManifest
  <2> QED BY <2>1, <2>4, RunStepIsEnough
<1>2. CASE ReadContract
  <2> DEFINE moved == [Onward("hash") EXCEPT !.contract = packageFiles["contract"]]
  <2>1. /\ adapter.step = "contract" /\ UNCHANGED <<packageFiles, bundle, numericTrace, packageProgram>>
        /\ adapter' \in {moved, NoAdapter}
    BY <1>2 DEF ReadContract, Reached, products, Need
  <2>2. RunInv(adapter, packageFiles, bundle)
    BY DEF ReferenceInv
  <2>3. /\ IsAnAdapter(moved) /\ moved.step = "hash" /\ moved.done = 0 /\ moved.adapts = adapter.adapts
        /\ moved.replaced = adapter.replaced /\ moved.contract = packageFiles["contract"]
    BY <2>2 DEF Onward, RunInv, IsAnAdapter, Verifying
  <2> HIDE DEF moved
  <2>4. RunInv(moved, packageFiles, bundle)
    BY <2>1, <2>2, <2>3 DEF RunInv, BesideBundle, FrozenInHand, Again, Rereading, WithAManifest
  <2> QED BY <2>1, <2>4, RunStepIsEnough
<1> QED BY <1>1, <1>2

(* The steps of the verifier after the contract is in hand and the         *)
(* manifest has been hashed.                                               *)
Later == {"manifest", "receipt", "named", "weights", "scales", "files", "describe", "verified"}
LEMMA LaterRunsAreFine ==
    ASSUME ReferenceInv, adapter.step \in Later, NEW moved, IsAnAdapter(moved), moved.step \in Later,
           moved.adapts = adapter.adapts, moved.contract = adapter.contract, moved.replaced = adapter.replaced
    PROVE  RunInv(moved, packageFiles, bundle)
BY DEF ReferenceInv, RunInv, BesideBundle, FrozenInHand, Later, Again, Rereading, WithAManifest

LEMMA ListedRun ==
    ASSUME ReferenceInv, NEW list, NEW step \in Verifying, adapter.step # "idle"
    PROVE  LET a == Listed(list, step) IN
           /\ IsAnAdapter(a) /\ a.step \in {step, adapter.step} /\ a.adapts = adapter.adapts
           /\ a.contract = adapter.contract /\ a.replaced = adapter.replaced
<1>1. IsAnAdapter(adapter)
    BY DEF ReferenceInv, RunInv
<1> DEFINE Fine(a) ==
      /\ IsAnAdapter(a) /\ a.step \in {step, adapter.step} /\ a.adapts = adapter.adapts
      /\ a.contract = adapter.contract /\ a.replaced = adapter.replaced
<1>2. ASSUME NEW count \in Nat, NEW place \in {step, adapter.step}
      PROVE  Fine([adapter EXCEPT !.done = count, !.step = place])
    BY <1>1 DEF IsAnAdapter
<1> DEFINE last == adapter.done + 1 = Len(list)
           done == IF last THEN 0 ELSE adapter.done + 1
           next == IF last THEN step ELSE adapter.step
<1>3. done \in Nat /\ next \in {step, adapter.step}
    BY <1>1 DEF IsAnAdapter
<1>4. Listed(list, step) = [adapter EXCEPT !.done = done, !.step = next]
    BY DEF Listed
<1> HIDE DEF done, next, Fine
<1>5. Fine(Listed(list, step))
    BY <1>2, <1>3, <1>4
<1> QED BY <1>5 DEF Fine

LEMMA HashStep ==
    ASSUME ReferenceInv, HashPackageFile
    PROVE  ReferenceInv'
<1> DEFINE moved == Listed(Hashed, "manifest")
           f   == Hashed[adapter.done + 1]
<1>1. /\ adapter.step = "hash" /\ UNCHANGED <<packageFiles, bundle, numericTrace, packageProgram>>
      /\ (adapter' = moved /\ packageFiles[f] = adapter.contract.package[f]) \/ adapter' = NoAdapter
    BY DEF HashPackageFile, Reached, products, Need
<1>2. RunInv(adapter, packageFiles, bundle) /\ adapter.done \in Nat
    BY DEF ReferenceInv, RunInv, IsAnAdapter
<1>3. /\ IsAnAdapter(moved) /\ moved.step \in {"hash", "manifest"} /\ moved.adapts = adapter.adapts
      /\ moved.contract = adapter.contract /\ moved.replaced = adapter.replaced
    BY <1>1, ListedRun DEF Verifying
<1>4. adapter.done = 0 => f = "manifest"
    BY DEF Hashed
<1>5. ASSUME adapter' = moved, packageFiles[f] = adapter.contract.package[f],
             {"manifest", "contract"} \cap adapter.replaced = {}
      PROVE  packageFiles["manifest"] = FrozenPackage["manifest"] /\ adapter.contract = FrozenContract
  <2>1. adapter.contract = FrozenContract
    BY <1>1, <1>2, <1>5 DEF RunInv, FrozenInHand
  <2>2. CASE adapter.done = 0
    BY <1>4, <1>5, <2>1, <2>2 DEF FrozenPackage
  <2>3. CASE adapter.done > 0
    BY <1>1, <1>2, <1>5, <2>1, <2>3 DEF RunInv, FrozenInHand
  <2> QED BY <1>2, <2>1, <2>2, <2>3
<1> HIDE DEF moved, f
<1>6. adapter' = moved /\ packageFiles[f] = adapter.contract.package[f] => FrozenInHand(moved, packageFiles)
  <2> SUFFICES ASSUME adapter' = moved, packageFiles[f] = adapter.contract.package[f],
                      {"manifest", "contract"} \cap moved.replaced = {}
               PROVE  /\ packageFiles["contract"] = FrozenContract /\ moved.contract = FrozenContract
                      /\ packageFiles["manifest"] = FrozenPackage["manifest"] /\ moved.step \notin WithAManifest
    BY DEF FrozenInHand
  <2>1. packageFiles["contract"] = FrozenContract
    BY <1>1, <1>2, <1>3 DEF RunInv, FrozenInHand
  <2> QED BY <1>3, <1>5, <2>1 DEF WithAManifest
<1>7. BesideBundle(moved, bundle)
    BY <1>1, <1>2, <1>3 DEF RunInv, BesideBundle, Again, Rereading, WithAManifest
<1> QED BY <1>1, <1>3, <1>6, <1>7, RunStepIsEnough DEF RunInv

(* The reads and comparisons of the verifier after that.                   *)
LEMMA VerifierSteps ==
    ASSUME ReferenceInv,
           \/ ReadPackageManifest \/ ReadPackageReceipt \/ _validate_receipt
           \/ ReadPackageWeights \/ ReadPackageScales \/ CheckPackageFiles \/ DescribePackage
    PROVE  ReferenceInv'
<1> DEFINE Keeps(moved) ==
      /\ IsAnAdapter(moved) /\ moved.step \in Later /\ moved.adapts = adapter.adapts
      /\ moved.contract = adapter.contract /\ moved.replaced = adapter.replaced
<1>1. IsAnAdapter(adapter)
    BY DEF ReferenceInv, RunInv
<1>2. SUFFICES ASSUME NEW moved, adapter.step \in Later, Keeps(moved) PROVE RunInv(moved, packageFiles, bundle)
  <2>1. \A moved : adapter.step \in Later /\ Keeps(moved) => RunInv(moved, packageFiles, bundle)
    BY <1>2
  <2>2. ASSUME NEW moved, adapter.step \in Later, Keeps(moved), adapter' \in {moved, NoAdapter},
               UNCHANGED <<packageFiles, bundle, numericTrace, packageProgram>>
        PROVE  ReferenceInv'
    BY <2>1, <2>2, RunStepIsEnough
  <2> HIDE DEF Keeps
  <2>3. CASE ReadPackageManifest
    <3> DEFINE moved == [Onward("receipt") EXCEPT !.manifest = packageFiles["manifest"]]
    <3>1. Keeps(moved)
      BY <1>1 DEF Keeps, Onward, IsAnAdapter, Later, Verifying
    <3>2. adapter.step = "manifest" /\ adapter' \in {moved, NoAdapter}
      BY <2>3 DEF ReadPackageManifest, Reached, Need
    <3> HIDE DEF moved
    <3> QED BY <2>2, <2>3, <3>1, <3>2 DEF ReadPackageManifest, Reached, products, Later
  <2>4. CASE ReadPackageReceipt
    <3> DEFINE moved == [Onward("named") EXCEPT !.receipt = packageFiles["receipt"]]
    <3>1. Keeps(moved)
      BY <1>1 DEF Keeps, Onward, IsAnAdapter, Later, Verifying
    <3>2. adapter.step = "receipt" /\ adapter' \in {moved, NoAdapter}
      BY <2>4 DEF ReadPackageReceipt, Reached, Need
    <3> HIDE DEF moved
    <3> QED BY <2>2, <2>4, <3>1, <3>2 DEF ReadPackageReceipt, Reached, products, Later
  <2>5. CASE _validate_receipt
    <3> DEFINE moved == Listed(NamedFiles, "weights")
    <3>1. adapter.step = "named" /\ adapter' \in {moved, NoAdapter}
      BY <2>5 DEF _validate_receipt, Reached, Need
    <3>2. Keeps(moved)
      BY <3>1, ListedRun DEF Keeps, Later, Verifying
    <3> HIDE DEF moved
    <3> QED BY <2>2, <2>5, <3>1, <3>2 DEF _validate_receipt, Reached, products, Later
  <2>6. CASE ReadPackageWeights
    <3> DEFINE moved == [Onward("scales") EXCEPT !.weights = packageFiles["weights"]]
    <3>1. Keeps(moved)
      BY <1>1 DEF Keeps, Onward, IsAnAdapter, Later, Verifying
    <3>2. adapter.step = "weights" /\ adapter' \in {moved, NoAdapter}
      BY <2>6 DEF ReadPackageWeights, Reached, Need
    <3> HIDE DEF moved
    <3> QED BY <2>2, <2>6, <3>1, <3>2 DEF ReadPackageWeights, Reached, products, Later
  <2>7. CASE ReadPackageScales
    <3> DEFINE moved == Onward("files")
    <3>1. Keeps(moved)
      BY <1>1 DEF Keeps, Onward, IsAnAdapter, Later, Verifying
    <3>2. adapter.step = "scales" /\ adapter' \in {moved, NoAdapter}
      BY <2>7 DEF ReadPackageScales, Reached, Need
    <3> HIDE DEF moved
    <3> QED BY <2>2, <2>7, <3>1, <3>2 DEF ReadPackageScales, Reached, products, Later
  <2>8. CASE CheckPackageFiles
    <3> DEFINE moved == Listed(NamedFiles, "describe")
    <3>1. adapter.step = "files" /\ adapter' \in {moved, NoAdapter}
      BY <2>8 DEF CheckPackageFiles, Reached, Need
    <3>2. Keeps(moved)
      BY <3>1, ListedRun DEF Keeps, Later, Verifying
    <3> HIDE DEF moved
    <3> QED BY <2>2, <2>8, <3>1, <3>2 DEF CheckPackageFiles, Reached, products, Later
  <2>9. CASE DescribePackage
    <3> DEFINE listed == Listed(Described, "verified")
               moved    == [listed EXCEPT !.seen = Append(@, packageFiles[Described[adapter.done + 1]])]
    <3>1. adapter.step = "describe" /\ adapter' \in {moved, NoAdapter}
      BY <2>9 DEF DescribePackage, Reached, Need
    <3>2. Keeps(listed)
      BY <3>1, ListedRun DEF Keeps, Later, Verifying
    <3> HIDE DEF listed
    <3>3. Keeps(moved)
      BY <3>2 DEF Keeps, IsAnAdapter
    <3> HIDE DEF moved
    <3> QED BY <2>2, <2>9, <3>1, <3>3 DEF DescribePackage, Reached, products, Later
  <2> QED BY <2>3, <2>4, <2>5, <2>6, <2>7, <2>8, <2>9
<1> QED BY <1>2, LaterRunsAreFine
(* The verifier's receipt is written, or is the adapter's proof.           *)
LEMMA ReturnStep ==
    ASSUME ReferenceInv, ReturnReceipt
    PROVE  ReferenceInv'
<1> DEFINE moved == [Onward("contract again") EXCEPT !.proof = InputReceipt]
<1>1. /\ adapter.step = "verified" /\ UNCHANGED <<packageFiles, bundle, numericTrace, packageProgram>>
      /\ (adapter.adapts /\ adapter' = moved) \/ adapter' = NoAdapter
    BY DEF ReturnReceipt, Reached
<1>2. RunInv(adapter, packageFiles, bundle)
    BY DEF ReferenceInv
<1>3. /\ IsAnAdapter(moved) /\ moved.step = "contract again" /\ moved.adapts = adapter.adapts
      /\ moved.contract = adapter.contract /\ moved.replaced = adapter.replaced
    BY <1>2 DEF RunInv, Onward, IsAnAdapter, Again
<1> HIDE DEF moved
<1>4. adapter.adapts => RunInv(moved, packageFiles, bundle)
    BY <1>1, <1>2, <1>3 DEF RunInv, BesideBundle, FrozenInHand, Again, Rereading, WithAManifest
<1> QED BY <1>1, <1>4, RunStepIsEnough

(* The adapter's own reads.                                                *)
LEMMA AgainSteps ==
    ASSUME ReferenceInv,
           \/ ReadContractAgain \/ validate_verifier_receipt \/ ReadManifestAgain \/ PinConfig \/ ReadConfig
           \/ ReadWeightsAgain
    PROVE  ReferenceInv'
<1>1. RunInv(adapter, packageFiles, bundle) /\ IsAnAdapter(adapter)
    BY DEF ReferenceInv, RunInv
<1>2. packageFiles["manifest"] \in Held("manifest")
    BY DEF ReferenceInv, ReferenceFiles, PackageFiles
<1>3. CASE ReadContractAgain
  <2> DEFINE moved == [Onward("validate") EXCEPT !.contract = packageFiles["contract"]]
  <2>1. /\ adapter.step = "contract again" /\ UNCHANGED <<packageFiles, bundle, numericTrace, packageProgram>>
        /\ adapter' \in {moved, NoAdapter}
    BY <1>3 DEF ReadContractAgain, Reached, products, Need
  <2>2. /\ IsAnAdapter(moved) /\ moved.step = "validate" /\ moved.adapts = adapter.adapts
        /\ moved.contract = packageFiles["contract"] /\ moved.replaced = adapter.replaced
    BY <1>1 DEF Onward, IsAnAdapter, Again
  <2> HIDE DEF moved
  <2>3. RunInv(moved, packageFiles, bundle)
    BY <1>1, <2>1, <2>2 DEF RunInv, BesideBundle, FrozenInHand, Again, Rereading, WithAManifest
  <2> QED BY <2>1, <2>3, RunStepIsEnough
<1>4. CASE validate_verifier_receipt
  <2> DEFINE moved == Onward("manifest again")
  <2>1. /\ adapter.step = "validate" /\ UNCHANGED <<packageFiles, bundle, numericTrace, packageProgram>>
        /\ (adapter' = moved /\ adapter.proof.package = adapter.contract.package) \/ adapter' = NoAdapter
    BY <1>4 DEF validate_verifier_receipt, Reached, products, Need
  <2>2. /\ IsAnAdapter(moved) /\ moved.step = "manifest again" /\ moved.adapts = adapter.adapts
        /\ moved.contract = adapter.contract /\ moved.replaced = adapter.replaced /\ moved.proof = adapter.proof
    BY <1>1, MovedTo DEF Again, Rereading
  <2> HIDE DEF moved
  <2>3. adapter' = moved => RunInv(moved, packageFiles, bundle) \/ adapter' = NoAdapter
    BY <1>1, <2>1, <2>2 DEF RunInv, BesideBundle, FrozenInHand, Again, Rereading, WithAManifest
  <2> QED BY <2>1, <2>3, RunStepIsEnough
<1>5. CASE ReadManifestAgain
  <2> DEFINE moved == [Onward("pin config") EXCEPT !.manifest = packageFiles["manifest"]]
  <2>1. /\ adapter.step = "manifest again" /\ UNCHANGED <<packageFiles, bundle, numericTrace, packageProgram>>
        /\ (adapter' = moved /\ packageFiles["manifest"] # Unreadable) \/ adapter' = NoAdapter
    BY <1>5 DEF ReadManifestAgain, Reached, products, Need, Readable
  <2>2. /\ IsAnAdapter(moved) /\ moved.step = "pin config" /\ moved.adapts = adapter.adapts
        /\ moved.contract = adapter.contract /\ moved.replaced = adapter.replaced /\ moved.proof = adapter.proof
        /\ moved.manifest = packageFiles["manifest"]
    BY <1>1 DEF Onward, IsAnAdapter, Again, Rereading, WithAManifest
  <2> HIDE DEF moved
  <2>3. packageFiles["manifest"] # Unreadable => RunInv(moved, packageFiles, bundle)
    BY <1>1, <1>2, <2>1, <2>2 DEF RunInv, BesideBundle, FrozenInHand, Again, Rereading, WithAManifest
  <2> QED BY <2>1, <2>3, RunStepIsEnough
<1>6. ASSUME NEW moved, IsAnAdapter(moved), moved.step \in WithAManifest \ {"loaded"}, moved.adapts = adapter.adapts,
             moved.contract = adapter.contract, moved.replaced = adapter.replaced, moved.proof = adapter.proof,
             moved.manifest = adapter.manifest, adapter.step \in WithAManifest \ {"loaded"},
             adapter' \in {moved, NoAdapter}, UNCHANGED <<packageFiles, bundle, numericTrace, packageProgram>>
      PROVE  ReferenceInv'
  <2>1. RunInv(moved, packageFiles, bundle)
    BY <1>1, <1>6 DEF RunInv, BesideBundle, FrozenInHand, Again, Rereading, WithAManifest
  <2> QED BY <1>6, <2>1, RunStepIsEnough
<1>7. CASE PinConfig
  <2> DEFINE moved == Onward("config")
  <2>1. adapter.step = "pin config" /\ adapter' \in {moved, NoAdapter}
    BY <1>7 DEF PinConfig, Reached, Need
  <2>2. /\ IsAnAdapter(moved) /\ moved.step = "config" /\ moved.adapts = adapter.adapts
        /\ moved.contract = adapter.contract /\ moved.replaced = adapter.replaced /\ moved.proof = adapter.proof
        /\ moved.manifest = adapter.manifest
    BY <1>1, MovedTo DEF Again, Rereading, WithAManifest
  <2> HIDE DEF moved
  <2> QED BY <1>6, <1>7, <2>1, <2>2 DEF PinConfig, Reached, products, WithAManifest
<1>8. CASE ReadConfig
  <2> DEFINE moved == [Onward("weights again") EXCEPT !.shapes = packageFiles["config"].shapes]
  <2>1. adapter.step = "config" /\ adapter' \in {moved, NoAdapter}
    BY <1>8 DEF ReadConfig, Reached, Need
  <2>2. /\ IsAnAdapter(moved) /\ moved.step = "weights again" /\ moved.adapts = adapter.adapts
        /\ moved.contract = adapter.contract /\ moved.replaced = adapter.replaced /\ moved.proof = adapter.proof
        /\ moved.manifest = adapter.manifest
    BY <1>1 DEF Onward, IsAnAdapter, Again, Rereading, WithAManifest
  <2> HIDE DEF moved
  <2> QED BY <1>6, <1>8, <2>1, <2>2 DEF ReadConfig, Reached, products, WithAManifest
<1>9. CASE ReadWeightsAgain
  <2> DEFINE moved == [Onward("scales again") EXCEPT !.weights = packageFiles["weights"]]
  <2>1. adapter.step = "weights again" /\ adapter' \in {moved, NoAdapter}
    BY <1>9 DEF ReadWeightsAgain, Reached, Need
  <2>2. /\ IsAnAdapter(moved) /\ moved.step = "scales again" /\ moved.adapts = adapter.adapts
        /\ moved.contract = adapter.contract /\ moved.replaced = adapter.replaced /\ moved.proof = adapter.proof
        /\ moved.manifest = adapter.manifest
    BY <1>1 DEF Onward, IsAnAdapter, Again, Rereading, WithAManifest
  <2> HIDE DEF moved
  <2> QED BY <1>6, <1>9, <2>1, <2>2 DEF ReadWeightsAgain, Reached, products, WithAManifest
<1> QED BY <1>3, <1>4, <1>5, <1>7, <1>8, <1>9

-----------------------------------------------------------------------------
(* The bundle and what is made of it.                                      *)

LEMMA LoadStep ==
    ASSUME ReferenceInv, load_authenticated_package
    PROVE  ReferenceInv'
<1> DEFINE moved    == Onward("loaded")
           scales == packageFiles["scales"]
           m      == adapter.manifest
           loaded == PackageBundle(scales)
           fits   == /\ Readable("scales") /\ Readable("contract")
                     /\ CanReconstruct(m, adapter.weights, scales, adapter.shapes)
                     /\ BoundariesAreRight(m)
<1>1. /\ adapter.step = "scales again" /\ UNCHANGED <<packageFiles, numericTrace, packageProgram>>
      /\ fits => adapter' = moved /\ bundle' = loaded
      /\ ~fits => adapter' = NoAdapter /\ UNCHANGED bundle
    BY DEF load_authenticated_package, Reached
<1>2. RunInv(adapter, packageFiles, bundle)
    BY DEF ReferenceInv
<1>3. /\ m \in Held("manifest") \ {Unreadable} /\ ~bundle.made
      /\ adapter.proof.package = adapter.contract.package
    BY <1>1, <1>2 DEF RunInv, BesideBundle, Again, Rereading, WithAManifest
<1>4. CASE ~fits
    BY <1>1, <1>4, RunStepIsEnough
<1>5. CASE fits
  <2>1. /\ IsAnAdapter(moved) /\ moved.step = "loaded" /\ moved.adapts = adapter.adapts /\ moved.manifest = m
        /\ moved.contract = adapter.contract /\ moved.proof = adapter.proof /\ moved.replaced = adapter.replaced
    BY <1>2, MovedTo DEF Again, Rereading, WithAManifest
  <2>2. /\ loaded.made /\ loaded.manifest = m /\ loaded.contract = adapter.contract
        /\ loaded.verified = adapter.proof /\ loaded.state = reconstruct_state_dict(m, adapter.weights, scales)
    BY DEF PackageBundle
  <2>3. CanReconstruct(m, adapter.weights, scales, adapter.shapes)
    BY <1>5
  <2> HIDE DEF moved, loaded, fits, m, scales
  <2>4. /\ DOMAIN loaded.state = Targets(m.model.layers)
        /\ \A t \in Values(m.tensors) : loaded.state[package_name_to_gpt_neo_key(t.name)] = DecodedOf(t)
        /\ loaded.state[LmHead] = loaded.state[Embedding]
    BY <1>3, <2>2, <2>3, ReconstructionIsNamed
  <2>5. adapter' = moved /\ bundle' = loaded
    BY <1>1, <1>5
  <2>6. RunInv(moved, packageFiles, loaded)
    BY <1>1, <1>2, <1>3, <2>1, <2>2 DEF m, RunInv, BesideBundle, FrozenInHand, Again, Rereading, WithAManifest
  <2>7. BundleIsNamed'
    BY <1>3, <2>2, <2>4, <2>5 DEF BundleIsNamed
  <2>8. numericTrace = NotMade /\ packageProgram = NotMade
    BY <1>3 DEF ReferenceInv
  <2> QED BY <1>1, <2>2, <2>5, <2>6, <2>7, <2>8 DEF ReferenceInv
<1> QED BY <1>4, <1>5

LEMMA ProductSteps ==
    ASSUME ReferenceInv, build_numeric_trace_gate \/ TraceFails \/ export_bundle_program
    PROVE  ReferenceInv'
<1>1. adapter.step = "loaded" => bundle.made
    BY DEF ReferenceInv, RunInv, BesideBundle
<1>2. CASE build_numeric_trace_gate
  <2>1. /\ adapter.step = "loaded" /\ UNCHANGED <<packageFiles, adapter, bundle, packageProgram>>
        /\ numericTrace'.state = bundle.state
    BY <1>2 DEF build_numeric_trace_gate, Reached
  <2> QED BY <1>1, <2>1 DEF ReferenceInv, BundleIsNamed
<1>3. CASE TraceFails
    BY <1>3, RunStepIsEnough DEF TraceFails, Reached, products
<1>4. CASE export_bundle_program
  <2>1. /\ adapter.step = "loaded" /\ UNCHANGED <<packageFiles, bundle, numericTrace>>
        /\ adapter' = NoAdapter /\ packageProgram'.state = bundle.state
    BY <1>4 DEF export_bundle_program, Reached
  <2>2. RunInv(NoAdapter, packageFiles, bundle)
    BY NoRunIsFine
  <2> QED BY <1>1, <2>1, <2>2 DEF ReferenceInv, BundleIsNamed
<1> QED BY <1>2, <1>3, <1>4

LEMMA ReplaceStep ==
    ASSUME ReferenceInv, ReplaceFile
    PROVE  ReferenceInv'
<1>1. PICK f \in ReferenceFiles :
        \E version \in Held(f) :
          /\ packageFiles' = [packageFiles EXCEPT ![f] = version]
          /\ adapter' = [adapter EXCEPT !.replaced = IF adapter.step = "idle" THEN @ ELSE @ \cup {f}]
    BY DEF ReplaceFile, Held
<1>2. PICK version \in Held(f) :
          /\ packageFiles' = [packageFiles EXCEPT ![f] = version]
          /\ adapter' = [adapter EXCEPT !.replaced = IF adapter.step = "idle" THEN @ ELSE @ \cup {f}]
    BY <1>1
<1>3. /\ packageFiles' = [g \in ReferenceFiles |-> packageFiles'[g]]
      /\ \A g \in ReferenceFiles : packageFiles'[g] = IF g = f THEN version ELSE packageFiles[g]
    BY <1>2 DEF ReferenceInv
<1>4. \A g \in ReferenceFiles : packageFiles'[g] \in Held(g)
    BY <1>2, <1>3 DEF ReferenceInv
<1>5. IsAnAdapter(adapter)
    BY DEF ReferenceInv, RunInv
<1>6. /\ IsAnAdapter(adapter') /\ adapter'.step = adapter.step /\ adapter'.adapts = adapter.adapts
      /\ adapter'.done = adapter.done /\ adapter'.contract = adapter.contract
      /\ adapter'.manifest = adapter.manifest /\ adapter'.proof = adapter.proof
      /\ adapter'.replaced = IF adapter.step = "idle" THEN adapter.replaced ELSE adapter.replaced \cup {f}
    BY <1>2, <1>5 DEF IsAnAdapter
<1>7. UNCHANGED <<bundle, numericTrace, packageProgram>>
    BY DEF ReplaceFile, products
<1>8. BesideBundle(adapter', bundle')
    BY <1>6, <1>7 DEF ReferenceInv, RunInv, BesideBundle
<1>9. FrozenInHand(adapter', packageFiles')
  <2>1. CASE adapter.step = "idle"
    BY <1>6, <2>1 DEF FrozenInHand, WithAManifest
  <2>2. CASE adapter.step # "idle" /\ f \notin {"manifest", "contract"}
    <3>1. packageFiles'["manifest"] = packageFiles["manifest"] /\ packageFiles'["contract"] = packageFiles["contract"]
      BY <1>3, <2>2 DEF ReferenceFiles, PackageFiles
    <3> QED BY <1>6, <2>2, <3>1 DEF ReferenceInv, RunInv, FrozenInHand
  <2>3. CASE adapter.step # "idle" /\ f \in {"manifest", "contract"}
    BY <1>6, <2>3 DEF FrozenInHand
  <2> QED BY <2>1, <2>2, <2>3
<1> QED BY <1>3, <1>4, <1>6, <1>7, <1>8, <1>9 DEF ReferenceInv, RunInv, BundleIsNamed

LEMMA ReferenceInitInv == ReferenceInit => ReferenceInv
<1> SUFFICES ASSUME ReferenceInit PROVE ReferenceInv
    OBVIOUS
<1>1. /\ packageFiles = [f \in ReferenceFiles |-> packageFiles[f]]
      /\ \A f \in ReferenceFiles : packageFiles[f] \in Held(f)
    BY DEF ReferenceInit, Held
<1>2. RunInv(adapter, packageFiles, bundle)
    BY NoRunIsFine DEF ReferenceInit
<1> QED BY <1>1, <1>2 DEF ReferenceInit, ReferenceInv, Unloaded

LEMMA ReferenceInvStep == ASSUME ReferenceInv, [ReferenceNext]_referenceVars PROVE ReferenceInv'
<1>1. CASE UNCHANGED referenceVars
    BY <1>1 DEF referenceVars, ReferenceInv, BundleIsNamed
<1> QED BY <1>1, StartSteps, ContractSteps, HashStep, VerifierSteps, ReturnStep, AgainSteps, LoadStep,
           ProductSteps, ReplaceStep DEF ReferenceNext

\* Under every tensor's key the returned model has the bytes its manifest has
\* the hashes of, whatever is exchanged while the adapter runs; and while the
\* manifest and the contract stay in place, the manifest is the frozen one.
THEOREM TensorsStayNamed == ReferenceSpec => []TensorsAreNamed
<1>1. ReferenceInv => TensorsAreNamed
    BY DEF ReferenceInv, TensorsAreNamed, BundleIsNamed, RunInv, BesideBundle, FrozenInHand, WithAManifest
<1> QED BY <1>1, ReferenceInitInv, ReferenceInvStep, PTL DEF ReferenceSpec

-----------------------------------------------------------------------------
(* The serving trace.                                                      *)

(* Sequences of anything.                                                  *)
IsSeq(s) == \E S : s \in Seq(S)

LEMMA AppendIsSeq ==
    ASSUME NEW s, IsSeq(s), NEW e
    PROVE  /\ IsSeq(Append(s, e)) /\ Len(s) \in Nat /\ Len(Append(s, e)) = Len(s) + 1
           /\ Append(s, e)[Len(s) + 1] = e
           /\ \A i \in 1..Len(s) : Append(s, e)[i] = s[i]
<1>1. PICK S : s \in Seq(S)
    BY DEF IsSeq
<1>2. s \in Seq(S \cup {e}) /\ e \in S \cup {e}
    BY <1>1
<1>3. Append(s, e) \in Seq(S \cup {e})
    BY <1>2
<1> QED BY <1>2, <1>3 DEF IsSeq

(* A sequence with one more element: its length, its first, and that it    *)
(* has one way to come about.                                              *)
LEMMA Longer ==
    ASSUME NEW S, NEW e \in Seq(S), NEW t \in S
    PROVE  /\ e \o <<t>> \in Seq(S) /\ Len(e \o <<t>>) = Len(e) + 1 /\ Len(e) \in Nat
           /\ \A i \in 1..Len(e) : (e \o <<t>>)[i] = e[i]
           /\ (e \o <<t>>)[Len(e) + 1] = t
OBVIOUS

LEMMA Shorter ==
    ASSUME NEW S, NEW e \in Seq(S), NEW f \in Seq(S), NEW t \in S, e \o <<t>> = f \o <<t>>
    PROVE  e = f
<1>1. Len(e) = Len(f)
    BY Longer
<1>2. \A i \in 1..Len(e) : e[i] = f[i]
    BY <1>1, Longer
<1> QED BY <1>1, <1>2, SeqEqual

(* What a call may make of a cache.                                        *)
LEMMA GrownForms ==
    ASSUME NEW S, NEW e \in Seq(S), NEW t \in S, NEW type, NEW how
    PROVE  LET grown == Grown(Cache(type, e), <<t>>, how) IN
           /\ how = "rewrites" => /\ grown.entries[1] = Rewritten /\ Len(grown.entries) = Len(e) + 1
                                  /\ grown = Cache(type, grown.entries)
           /\ how = "forgets" => grown = Cache(type, e)
           /\ how = "retypes" => grown = Cache("other", e \o <<t>>)
           /\ how \notin {"rewrites", "forgets", "retypes"} => grown = Cache(type, e \o <<t>>)
<1>1. Cache(type, e).entries = e /\ Cache(type, e).type = type
    BY DEF Cache
<1>2. CASE how = "rewrites"
  <2> DEFINE rest == Tail(e \o <<t>>)
  <2>1. rest \in Seq(S) /\ Len(rest) = Len(e) /\ Len(e) \in Nat
    BY Longer
  <2> HIDE DEF rest
  <2>2. rest \in Seq(S \cup {Rewritten}) /\ <<Rewritten>> \in Seq(S \cup {Rewritten})
    BY <2>1
  <2>3. (<<Rewritten>> \o rest)[1] = Rewritten /\ Len(<<Rewritten>> \o rest) = Len(e) + 1
    BY <2>1, <2>2
  <2>4. Grown(Cache(type, e), <<t>>, how) = Cache(type, <<Rewritten>> \o rest)
    BY <1>1, <1>2 DEF Grown, rest
  <2> QED BY <1>2, <2>3, <2>4 DEF Cache
<1>3. CASE how = "forgets"
    BY <1>3 DEF Grown
<1>4. CASE how \notin {"rewrites", "forgets"}
    BY <1>1, <1>4 DEF Grown
<1> QED BY <1>2, <1>3, <1>4

LEMMA CachesEqual ==
    ASSUME NEW type, NEW e, NEW other, NEW f, Cache(type, e) = Cache(other, f)
    PROVE  type = other /\ e = f
BY DEF Cache

-----------------------------------------------------------------------------
(* The record of a model.                                                  *)

(* A decode hears the token that the phase before it answered, on the      *)
(* cache that this phase left.                                             *)
Follows(m, n) ==
    \E S : \E e \in Seq(S) : \E t \in S :
        /\ Len(e) = PREFILL_LENGTH + n - 2 /\ e[1] \in Tokens /\ t = Served(m)[n - 1].greedy_token
        /\ Served(m)[n - 1].cache = Cache("native", e)
        /\ Served(m)[n] = PhaseRecord(m, <<t>>, Cache("native", e \o <<t>>))

(* The cache each phase leaves: the prompt and a token more each time.     *)
LEMMA ServedCaches ==
    ASSUME load_trace, trace.prompt \in Seq(Nat), NEW m
    PROVE  /\ Len(Served(m)) = 3 /\ Served(m)[1] = FirstPhase(m)
           /\ Served(m)[1].input = trace.prompt /\ Served(m)[1].cache = Cache("native", trace.prompt)
           /\ Follows(m, 2) /\ Follows(m, 3)
<1> DEFINE p1 == FirstPhase(m)
           t1 == p1.greedy_token
           p2 == NextPhase(m, p1)
           t2 == p2.greedy_token
           p3 == NextPhase(m, p2)
           S  == Nat \cup {t1, t2}
           e1 == trace.prompt
           e2 == e1 \o <<t1>>
<1>1. Len(Served(m)) = 3 /\ Served(m)[1] = p1 /\ Served(m)[2] = p2 /\ Served(m)[3] = p3
    BY DEF Served
<1>2. e1 \in Seq(S) /\ t1 \in S /\ t2 \in S /\ Len(e1) = PREFILL_LENGTH /\ e1[1] \in Tokens
    <2>1. Len(e1) = PREFILL_LENGTH /\ \A n \in 1..Len(e1) : e1[n] \in Tokens
        BY DEF load_trace, validate_token_ids
    <2>2. 1 \in 1..Len(e1)
        BY <2>1, ServingAssumption
    <2> HIDE DEF e1, t1, t2
    <2>3. e1 \in Seq(Nat)
        BY DEF e1
    <2>4. t1 \in S /\ t2 \in S /\ Nat \subseteq S
        OBVIOUS
    <2> HIDE DEF S
    <2>5. e1 \in Seq(S)
        BY <2>3, <2>4
    <2> QED BY <2>1, <2>2, <2>4, <2>5
<1>3. p1.input = e1 /\ p1.cache = Cache("native", e1)
    BY DEF FirstPhase, PhaseRecord
<1> HIDE DEF p1
<1>4. p2 = PhaseRecord(m, <<t1>>, Cache("native", e2))
  <2>1. Grown(Cache("native", e1), <<t1>>, "none") = Cache("native", e2)
    BY <1>2, GrownForms
  <2> QED BY <1>3, <2>1 DEF NextPhase
<1>5. p2.cache = Cache("native", e2)
    BY <1>4 DEF PhaseRecord
<1>6. e2 \in Seq(S) /\ Len(e2) = PREFILL_LENGTH + 1 /\ e2[1] \in Tokens
    BY <1>2, Longer, ServingAssumption
<1> HIDE DEF p2, e2, t1, t2
<1>7. p3 = PhaseRecord(m, <<t2>>, Cache("native", e2 \o <<t2>>))
  <2>1. Grown(Cache("native", e2), <<t2>>, "none") = Cache("native", e2 \o <<t2>>)
    BY <1>2, <1>6, GrownForms
  <2> QED BY <1>5, <2>1 DEF NextPhase, t2
<1> HIDE DEF p3
<1>8. Follows(m, 2)
  <2>1. Len(e1) = PREFILL_LENGTH + 2 - 2
    BY <1>2, ServingAssumption
  <2>2. Served(m)[2 - 1] = p1
    BY <1>1
  <2> QED BY <1>1, <1>2, <1>3, <1>4, <2>1, <2>2 DEF t1, e2, Follows
<1>9. Follows(m, 3)
  <2>1. Len(e2) = PREFILL_LENGTH + 3 - 2
    BY <1>6, ServingAssumption
  <2>2. Served(m)[3 - 1] = p2
    BY <1>1
  <2> QED BY <1>1, <1>2, <1>5, <1>6, <1>7, <2>1, <2>2 DEF t2, Follows
<1> QED BY <1>1, <1>3, <1>8, <1>9 DEF p1
-----------------------------------------------------------------------------
(* A program that conforms serves its phase.                               *)

(* What is to be compared for a decode: an input of one token, and a cache. *)
LEMMA InvocationForms ==
    ASSUME load_trace, trace.prompt \in Seq(Nat), NEW m, NEW n \in {2, 3}
    PROVE  LET call == fresh_phase_invocation(m, n) IN
           \E S : \E e \in Seq(S) : \E t \in S : \E type :
              /\ call.input = <<t>> /\ call.cache # 0
              /\ call.heap[call.cache] = Cache(type, e)
<1> DEFINE prefill == run_native_call(<<>>, trace.prompt, 0)
           t1      == GreedyToken(m, prefill.left)
           decode  == run_native_call(prefill.heap, <<t1>>, prefill.cache)
           t2      == GreedyToken(m, decode.left)
           S       == Nat \cup {t1, t2, Rewritten}
           first   == Cache("native", trace.prompt)
           grown   == Grown(first, <<t1>>, fault)
<1>1. prefill.heap = <<first>> /\ prefill.cache = 1
    BY DEF run_native_call
<1>2. /\ trace.prompt \in Seq(S) /\ t1 \in S /\ t2 \in S
      /\ t1 \in Nat \cup {t1, Rewritten} /\ trace.prompt \in Seq(Nat \cup {t1, Rewritten})
    OBVIOUS
<1> HIDE DEF prefill, t1, t2, first
<1>3. \E type : \E e \in Seq(S) : grown = Cache(type, e)
  <2>1. trace.prompt \o <<t1>> \in Seq(S) /\ Len(trace.prompt) \in Nat
    BY <1>2, Longer
  <2>2. CASE fault = "rewrites"
    <3> DEFINE rest == Tail(trace.prompt \o <<t1>>)
    <3>1. rest \in Seq(S) /\ <<Rewritten>> \in Seq(S)
      BY <2>1, <1>2, Longer
    <3> HIDE DEF rest
    <3>2. <<Rewritten>> \o rest \in Seq(S)
      BY <3>1
    <3>3. grown = Cache("native", <<Rewritten>> \o rest)
      BY <2>2 DEF Grown, first, Cache, rest
    <3> QED BY <3>2, <3>3
  <2>3. CASE fault = "forgets"
    <3>1. grown = Cache("native", trace.prompt)
      BY <1>2, <2>3, GrownForms DEF first
    <3> HIDE DEF grown
    <3> QED BY <1>2, <3>1
  <2>4. CASE fault = "retypes"
    <3>1. grown = Cache("other", trace.prompt \o <<t1>>)
      BY <1>2, <2>4, GrownForms DEF first
    <3> HIDE DEF grown
    <3> QED BY <2>1, <3>1
  <2>5. CASE fault \notin {"rewrites", "forgets", "retypes"}
    <3>1. grown = Cache("native", trace.prompt \o <<t1>>)
      BY <1>2, <2>5, GrownForms DEF first
    <3> HIDE DEF grown
    <3> QED BY <2>1, <3>1
  <2> QED BY <2>2, <2>3, <2>4, <2>5
<1>4. /\ prefill.heap[prefill.cache] = first /\ prefill.cache # 0 /\ Len(prefill.heap) = 1
    BY <1>1
<1> HIDE DEF grown
<1>5. /\ decode.heap[1] = first \/ decode.heap[1] = grown
      /\ decode.heap[decode.cache] = grown /\ decode.cache # 0
  <2>1. /\ updates = "a copy" => decode.heap = Append(prefill.heap, grown) /\ decode.cache = Len(prefill.heap) + 1
        /\ updates # "a copy" => /\ decode.heap = [prefill.heap EXCEPT ![prefill.cache] = grown]
                                 /\ decode.cache = prefill.cache
    <3>1. Grown(prefill.heap[prefill.cache], <<t1>>, fault) = grown
      BY <1>4 DEF grown
    <3>2. /\ updates = "a copy" => /\ decode.heap = Append(prefill.heap, Grown(prefill.heap[prefill.cache], <<t1>>, fault))
                                   /\ decode.cache = Len(prefill.heap) + 1
          /\ updates # "a copy" =>
               /\ decode.heap = [prefill.heap EXCEPT ![prefill.cache] =
                                    Grown(prefill.heap[prefill.cache], <<t1>>, fault)]
               /\ decode.cache = prefill.cache
      BY <1>4 DEF decode, run_native_call
    <3> HIDE DEF decode
    <3> QED BY <3>1, <3>2
  <2>2. IsSeq(prefill.heap) /\ DOMAIN prefill.heap = {1}
    <3>1. prefill.heap \in Seq({first})
      BY <1>1
    <3>2. IsSeq(prefill.heap)
      BY <3>1 DEF IsSeq
    <3> QED BY <1>1, <3>2
  <2>3. CASE updates = "a copy"
    <3>0. /\ Append(prefill.heap, grown)[Len(prefill.heap) + 1] = grown
          /\ \A i \in 1..Len(prefill.heap) : Append(prefill.heap, grown)[i] = prefill.heap[i]
      BY <2>2, AppendIsSeq
    <3>1. Append(prefill.heap, grown)[2] = grown /\ Append(prefill.heap, grown)[1] = prefill.heap[1]
      BY <1>4, <3>0
    <3> HIDE DEF decode
    <3>2. decode.heap[1] = prefill.heap[1] /\ decode.heap[2] = grown /\ decode.cache = 2
      <4>1. decode.heap = Append(prefill.heap, grown) /\ decode.cache = Len(prefill.heap) + 1
        BY <2>1, <2>3
      <4>2. decode.cache = 2
        BY <1>4, <4>1
      <4> QED BY <3>1, <4>1, <4>2
    <3> QED BY <1>1, <1>4, <3>2
  <2>4. CASE updates # "a copy"
    BY <1>1, <1>4, <2>1, <2>2, <2>4
  <2> QED BY <2>3, <2>4
<1> HIDE DEF decode
<1>6. \E type : \E e \in Seq(S) : decode.heap[1] = Cache(type, e)
    BY <1>2, <1>3, <1>5 DEF first
<1>7. \E type : \E e \in Seq(S) : decode.heap[decode.cache] = Cache(type, e)
    BY <1>3, <1>5
<1> HIDE DEF S
<1>8. fresh_phase_invocation(m, n) =
        IF n = 2 THEN [input |-> <<t1>>, heap |-> decode.heap, cache |-> prefill.cache]
        ELSE [input |-> <<t2>>, heap |-> decode.heap, cache |-> decode.cache]
    BY DEF fresh_phase_invocation, prefill, t1, decode, t2
<1>9. CASE n = 2
  <2>1. /\ fresh_phase_invocation(m, n).input = <<t1>> /\ fresh_phase_invocation(m, n).cache = 1
        /\ fresh_phase_invocation(m, n).heap = decode.heap
    BY <1>1, <1>8, <1>9
  <2>2. PICK type : \E e \in Seq(S) : decode.heap[1] = Cache(type, e)
    BY <1>6
  <2>3. PICK e \in Seq(S) : decode.heap[1] = Cache(type, e)
    BY <2>2
  <2> QED BY <1>2, <2>1, <2>3
<1>10. CASE n = 3
  <2>1. /\ fresh_phase_invocation(m, n).input = <<t2>> /\ fresh_phase_invocation(m, n).cache = decode.cache
        /\ fresh_phase_invocation(m, n).heap = decode.heap
    BY <1>8, <1>10
  <2>2. decode.cache # 0
    BY <1>5
  <2>3. PICK type : \E e \in Seq(S) : decode.heap[decode.cache] = Cache(type, e)
    BY <1>7
  <2>4. PICK e \in Seq(S) : decode.heap[decode.cache] = Cache(type, e)
    BY <2>3
  <2> QED BY <1>2, <2>1, <2>2, <2>4
<1> QED BY <1>9, <1>10

(* The fields of a phase's record.                                         *)
LEMMA RecordFields ==
    ASSUME NEW m, NEW input, NEW cache
    PROVE  PhaseRecord(m, input, cache).input = input /\ PhaseRecord(m, input, cache).cache = cache
BY DEF PhaseRecord

(* What the model and a program make of a decode agree with the record     *)
(* only if they heard the record's token on the record's cache.            *)
LEMMA SameDecode ==
    ASSUME NEW S, NEW T, NEW e \in Seq(S), NEW t \in S, NEW type, NEW f \in Seq(T), NEW g \in T,
           Len(f) \in Nat \ {0}, f[1] \in Tokens, NEW m, NEW of, NEW program,
           PhaseRecord(of, <<t>>, Grown(Cache(type, e), <<t>>, fault)) = PhaseRecord(m, <<g>>, Cache("native", f \o <<g>>)),
           RunExported(program, <<t>>, Cache(type, e)).cache = Grown(Cache(type, e), <<t>>, fault)
    PROVE  t = g /\ type = "native" /\ e = f
<1> DEFINE left == Grown(Cache(type, e), <<t>>, fault)
           U    == S \cup T
<1>1. t = g /\ left = Cache("native", f \o <<g>>)
    BY RecordFields
<1>2. e \in Seq(U) /\ f \in Seq(U) /\ t \in U
    BY <1>1
<1>3. /\ Len(f \o <<t>>) = Len(f) + 1 /\ (f \o <<t>>)[1] = f[1] /\ Len(e) \in Nat
      /\ Len(e \o <<t>>) = Len(e) + 1
    BY <1>2, Longer
<1>4. left.entries = f \o <<t>> /\ left.type = "native"
    BY <1>1, SMTT(60) DEF Cache
<1>5. CASE fault = "rewrites"
  <2>1. left.entries[1] = Rewritten
    BY <1>5, GrownForms
  <2>2. f[1] # Rewritten
    BY ServingAssumption DEF Tokens, Rewritten
  <2> QED BY <1>3, <1>4, <2>1, <2>2
<1>6. CASE fault = "forgets"
  <2> DEFINE how   == IF program.differs = "cache" THEN "rewrites"
                      ELSE IF program.differs = "type" THEN "retypes" ELSE "none"
             grown == Grown(Cache(type, e), <<t>>, how)
  <2>1. left = Cache(type, e)
    BY <1>6, GrownForms
  <2>2. RunExported(program, <<t>>, Cache(type, e)).cache = grown
    BY DEF RunExported
  <2>3. grown = left
    BY <2>2
  <2>4. how \in {"rewrites", "retypes", "none"}
    OBVIOUS
  <2> HIDE DEF how
  <2>5. how = "rewrites" => Len(grown.entries) = Len(e) + 1
    BY <1>2, GrownForms
  <2>6. how = "retypes" => grown = Cache("other", e \o <<t>>)
    <3>1. grown = Grown(Cache(type, e), <<t>>, how)
      BY Zenon DEF how
    <3> HIDE DEF grown
    <3> QED BY <1>2, <3>1, GrownForms, SMTT(60)
  <2>7. how = "none" => grown = Cache(type, e \o <<t>>)
    <3>1. grown = Grown(Cache(type, e), <<t>>, how)
      BY Zenon DEF how
    <3> HIDE DEF grown
    <3> QED BY <1>2, <3>1, GrownForms, SMTT(60)
  <2> HIDE DEF grown, left
  <2>8. Len(grown.entries) = Len(e) + 1
    BY <1>3, <2>4, <2>5, <2>6, <2>7 DEF Cache
  <2>9. Len(grown.entries) = Len(e)
    BY <2>1, <2>3 DEF Cache
  <2> QED BY <1>3, <2>8, <2>9
<1>7. CASE fault = "retypes"
  <2>1. left = Cache("other", e \o <<t>>)
    BY <1>7, GrownForms
  <2> QED BY <1>4, <2>1 DEF Cache
<1>8. CASE fault \notin {"rewrites", "forgets", "retypes"}
  <2>1. left = Cache(type, e \o <<t>>)
    BY <1>8, GrownForms
  <2>2. Cache(type, e \o <<t>>) = Cache("native", f \o <<t>>)
    BY <1>1, <2>1
  <2>3. type = "native" /\ e \o <<t>> = f \o <<t>>
    BY <2>2, CachesEqual
  <2> QED BY <1>1, <1>2, <2>3, Shorter
<1> QED BY <1>5, <1>6, <1>7, <1>8

(* The lengths a phase has before it.                                      *)
LEMMA PhaseLengths ==
    /\ Len(Phases) = 3 /\ Phases[1].cache_length_before = 0
    /\ Phases[2].cache_length_before = PREFILL_LENGTH
    /\ Phases[3].cache_length_before = PREFILL_LENGTH + 1
BY DEF Phases, Phase

(* What the model answers a decode it is given.                            *)
LEMMA EagerDecode ==
    ASSUME NEW call, NEW t, NEW c, call.input = <<t>>, call.cache # 0, call.heap[call.cache] = c
    PROVE  /\ EagerRecord(call) = PhaseRecord(run.of, <<t>>, Grown(c, <<t>>, fault))
           /\ CacheAt(call.heap, call.cache) = c
<1>1. run_native_call(call.heap, call.input, call.cache).left = Grown(c, <<t>>, fault)
    BY DEF run_native_call
<1> QED BY <1>1 DEF EagerRecord, CacheAt

LEMMA ConformingServes ==
    ASSUME load_trace, trace.prompt \in Seq(Nat), NEW m, run.read.phases = Served(m),
           NEW program, NEW n \in 1..3, Conforms(program, n)
    PROVE  ProgramServes(program, n, Served(m))
<1> DEFINE call  == fresh_phase_invocation(run.of, n)
           cache == CacheAt(call.heap, call.cache)
<1>1. /\ EagerRecord(call) = Served(m)[n] /\ Accepts(program, cache)
      /\ RunExported(program, call.input, cache) = Served(m)[n]
    BY DEF Conforms
<1>2. CASE n = 1
  <2>1. call.input = trace.prompt /\ call.cache = 0
    BY <1>2 DEF fresh_phase_invocation
  <2>2. cache = NoEntries /\ Served(m)[1].input = trace.prompt
    BY <2>1, ServedCaches DEF CacheAt
  <2>3. program.length = 0
    BY <1>1, <2>2 DEF Accepts, NoEntries, Cache
  <2> HIDE DEF call, cache
  <2> QED BY <1>1, <1>2, <2>1, <2>2, <2>3, PhaseLengths DEF ProgramServes
<1>3. CASE n \in {2, 3}
  <2>1. PICK S : \E e \in Seq(S) : \E t \in S : \E type :
              /\ call.input = <<t>> /\ call.cache # 0
              /\ call.heap[call.cache] = Cache(type, e)
    BY <1>3, InvocationForms
  <2> HIDE DEF call
  <2>2. PICK e \in Seq(S) : \E t \in S : \E type :
              /\ call.input = <<t>> /\ call.cache # 0
              /\ call.heap[call.cache] = Cache(type, e)
    BY <2>1
  <2>3. PICK t \in S : \E type :
              /\ call.input = <<t>> /\ call.cache # 0
              /\ call.heap[call.cache] = Cache(type, e)
    BY <2>2
  <2>4. PICK type :
              /\ call.input = <<t>> /\ call.cache # 0
              /\ call.heap[call.cache] = Cache(type, e)
    BY <2>3
  <2>5. Follows(m, n)
    BY <1>3, ServedCaches
  <2>6. PICK T : \E f \in Seq(T) : \E g \in T :
        /\ Len(f) = PREFILL_LENGTH + n - 2 /\ f[1] \in Tokens /\ g = Served(m)[n - 1].greedy_token
        /\ Served(m)[n - 1].cache = Cache("native", f)
        /\ Served(m)[n] = PhaseRecord(m, <<g>>, Cache("native", f \o <<g>>))
    BY <2>5 DEF Follows
  <2>7. PICK f \in Seq(T) : \E g \in T :
        /\ Len(f) = PREFILL_LENGTH + n - 2 /\ f[1] \in Tokens /\ g = Served(m)[n - 1].greedy_token
        /\ Served(m)[n - 1].cache = Cache("native", f)
        /\ Served(m)[n] = PhaseRecord(m, <<g>>, Cache("native", f \o <<g>>))
    BY <2>6
  <2>8. PICK g \in T :
        /\ Len(f) = PREFILL_LENGTH + n - 2 /\ f[1] \in Tokens /\ g = Served(m)[n - 1].greedy_token
        /\ Served(m)[n - 1].cache = Cache("native", f)
        /\ Served(m)[n] = PhaseRecord(m, <<g>>, Cache("native", f \o <<g>>))
    BY <2>7
  <2>9. /\ EagerRecord(call) = PhaseRecord(run.of, <<t>>, Grown(Cache(type, e), <<t>>, fault))
        /\ cache = Cache(type, e)
    BY <2>4, EagerDecode
  <2> HIDE DEF cache
  <2>10. RunExported(program, <<t>>, Cache(type, e)) = Served(m)[n]
    BY <1>1, <2>4, <2>9
  <2>11. /\ PhaseRecord(run.of, <<t>>, Grown(Cache(type, e), <<t>>, fault))
              = PhaseRecord(m, <<g>>, Cache("native", f \o <<g>>))
         /\ RunExported(program, <<t>>, Cache(type, e)).cache = Grown(Cache(type, e), <<t>>, fault)
    BY <1>1, <2>8, <2>9, <2>10, RecordFields
  <2>12. Len(f) \in Nat \ {0}
    BY <1>3, <2>8, ServingAssumption
  <2>13. t = g /\ type = "native" /\ e = f
    BY <2>8, <2>11, <2>12, SameDecode
  <2>14. cache = Served(m)[n - 1].cache /\ Served(m)[n].input = <<t>>
    BY <2>8, <2>9, <2>13, RecordFields
  <2>15. program.length = PREFILL_LENGTH + n - 2
    BY <1>1, <2>8, <2>9, <2>13 DEF Accepts, Cache
  <2>16. Phases[n].cache_length_before = PREFILL_LENGTH + n - 2
    BY <1>3, PhaseLengths, ServingAssumption
  <2>17. RunExported(program, Served(m)[n].input, Served(m)[n - 1].cache) = Served(m)[n]
    BY <2>9, <2>10, <2>14
  <2> QED BY <1>3, <2>15, <2>16, <2>17 DEF ProgramServes
<1> QED BY <1>2, <1>3

-----------------------------------------------------------------------------
(* The recording run keeps the record of its model's first phases.         *)

SoFar(m, k) ==
    IF k = 1 THEN <<Served(m)[1]>> ELSE IF k = 2 THEN <<Served(m)[1], Served(m)[2]>> ELSE Served(m)

LEMMA SoFarFacts ==
    ASSUME load_trace, trace.prompt \in Seq(Nat), NEW m
    PROVE  /\ \A k \in 1..3 : Len(SoFar(m, k)) = k /\ SoFar(m, k)[k] = Served(m)[k]
           /\ \A k \in {1, 2} : Append(SoFar(m, k), Served(m)[k + 1]) = SoFar(m, k + 1)
           /\ SoFar(m, 3) = Served(m) /\ Len(Served(m)) = 3 /\ Served(m) # <<>>
<1>1. Len(Served(m)) = 3 /\ Served(m) = <<Served(m)[1], Served(m)[2], Served(m)[3]>>
    BY DEF Served
<1>2. \A k \in 1..3 : Len(SoFar(m, k)) = k /\ SoFar(m, k)[k] = Served(m)[k]
    BY <1>1 DEF SoFar
<1>3. ASSUME NEW a, NEW b, NEW c PROVE Append(<<a>>, b) = <<a, b>> /\ Append(<<a, b>>, c) = <<a, b, c>>
  <2> DEFINE S == {a, b, c}
  <2>1. <<a>> \in Seq(S) /\ <<a, b>> \in Seq(S) /\ <<a, b, c>> \in Seq(S) /\ b \in S /\ c \in S
    OBVIOUS
  <2>2. Append(<<a>>, b) \in Seq(S) /\ Append(<<a, b>>, c) \in Seq(S)
    BY <2>1
  <2>3. /\ Len(Append(<<a>>, b)) = 2 /\ Append(<<a>>, b)[1] = a /\ Append(<<a>>, b)[2] = b
        /\ Len(Append(<<a, b>>, c)) = 3 /\ Append(<<a, b>>, c)[1] = a
        /\ Append(<<a, b>>, c)[2] = b /\ Append(<<a, b>>, c)[3] = c
    BY <2>1
  <2> HIDE DEF S
  <2>4. Append(<<a>>, b) = <<a, b>>
    <3>1. Len(Append(<<a>>, b)) = Len(<<a, b>>)
      BY <2>3
    <3>2. \A i \in 1..Len(Append(<<a>>, b)) : Append(<<a>>, b)[i] = <<a, b>>[i]
      BY <2>3
    <3> QED BY <2>1, <2>2, <3>1, <3>2, SeqEqual
  <2>5. Append(<<a, b>>, c) = <<a, b, c>>
    <3>1. Len(Append(<<a, b>>, c)) = Len(<<a, b, c>>)
      BY <2>3
    <3>2. \A i \in 1..Len(Append(<<a, b>>, c)) : Append(<<a, b>>, c)[i] = <<a, b, c>>[i]
      BY <2>3
    <3> QED BY <2>1, <2>2, <3>1, <3>2, SeqEqual
  <2> QED BY <2>4, <2>5
<1>4. Append(SoFar(m, 1), Served(m)[2]) = SoFar(m, 2)
  <2>1. SoFar(m, 1) = <<Served(m)[1]>> /\ SoFar(m, 2) = <<Served(m)[1], Served(m)[2]>>
    BY DEF SoFar
  <2> QED BY <1>3, <2>1, Zenon
<1>5. Append(SoFar(m, 2), Served(m)[3]) = SoFar(m, 3)
  <2>1. Append(<<Served(m)[1], Served(m)[2]>>, Served(m)[3]) = <<Served(m)[1], Served(m)[2], Served(m)[3]>>
    BY <1>3
  <2> QED BY <1>1, <2>1 DEF SoFar
<1>6. SoFar(m, 3) = Served(m) /\ Served(m) # <<>>
  <2>1. SoFar(m, 3) = Served(m)
    BY DEF SoFar
  <2>2. Len(<<>>) # 3
    OBVIOUS
  <2>3. Len(Served(m)) = 3
    BY <1>1, Zenon
  <2>4. Served(m) # <<>>
    <3>1. ASSUME Served(m) = <<>> PROVE FALSE
      BY <2>2, <2>3, <3>1, Zenon
    <3> QED BY <3>1, Zenon
  <2> QED BY <2>1, <2>4, Zenon
<1>7. \A k \in {1, 2} : Append(SoFar(m, k), Served(m)[k + 1]) = SoFar(m, k + 1)
    BY <1>4, <1>5
<1> QED BY <1>1, <1>2, <1>6, <1>7

(* A decode whose cache kept its prefix left the cache that was to come.   *)
LEMMA KeptDecode ==
    ASSUME load_trace, trace.prompt \in Seq(Nat), NEW m, NEW n \in {2, 3}, NEW c, NEW t,
           c = Served(m)[n - 1].cache, t = Served(m)[n - 1].greedy_token,
           assert_cache_prefix_unchanged(c, Grown(c, <<t>>, fault))
    PROVE  PhaseRecord(m, <<t>>, Grown(c, <<t>>, fault)) = Served(m)[n]
<1>0. Follows(m, n)
    BY ServedCaches
<1>1. PICK S : \E e \in Seq(S) : \E g \in S :
        /\ Len(e) = PREFILL_LENGTH + n - 2 /\ e[1] \in Tokens /\ g = Served(m)[n - 1].greedy_token
        /\ Served(m)[n - 1].cache = Cache("native", e)
        /\ Served(m)[n] = PhaseRecord(m, <<g>>, Cache("native", e \o <<g>>))
    BY <1>0 DEF Follows
<1>2. PICK e \in Seq(S) : \E g \in S :
        /\ Len(e) = PREFILL_LENGTH + n - 2 /\ e[1] \in Tokens /\ g = Served(m)[n - 1].greedy_token
        /\ Served(m)[n - 1].cache = Cache("native", e)
        /\ Served(m)[n] = PhaseRecord(m, <<g>>, Cache("native", e \o <<g>>))
    BY <1>1
<1>3. /\ Len(e) = PREFILL_LENGTH + n - 2 /\ e[1] \in Tokens /\ t \in S
      /\ c = Cache("native", e)
      /\ Served(m)[n] = PhaseRecord(m, <<t>>, Cache("native", e \o <<t>>))
    BY <1>2
<1> DEFINE left == Grown(c, <<t>>, fault)
<1>4. /\ left.type = "native" /\ Len(left.entries) = Len(e) + 1
      /\ \A i \in 1..Len(e) : left.entries[i] = e[i]
    BY <1>3 DEF assert_cache_prefix_unchanged, SameSchema, GrowsByOne, PrefixUnchanged, Cache
<1>5. Len(e) \in Nat \ {0} /\ Len(e \o <<t>>) = Len(e) + 1
    BY <1>3, ServingAssumption
<1>6. fault # "rewrites"
  <2>1. fault = "rewrites" => left.entries[1] = Rewritten
    BY <1>3, GrownForms
  <2>2. e[1] # Rewritten
    BY <1>3, ServingAssumption DEF Tokens, Rewritten
  <2> HIDE DEF left
  <2> QED BY <1>4, <1>5, <2>1, <2>2
<1>7. fault # "forgets"
  <2>1. fault = "forgets" => left = Cache("native", e)
    BY <1>3, GrownForms
  <2> HIDE DEF left
  <2> QED BY <1>4, <1>5, <2>1 DEF Cache
<1>8. fault # "retypes"
  <2>1. fault = "retypes" => left = Cache("other", e \o <<t>>)
    BY <1>3, GrownForms
  <2> HIDE DEF left
  <2> QED BY <1>4, <2>1 DEF Cache
<1>9. left = Cache("native", e \o <<t>>)
    BY <1>3, <1>6, <1>7, <1>8, GrownForms
<1> QED BY <1>3, <1>9

-----------------------------------------------------------------------------
(* The inductive invariant.                                                *)

TraceIsTyped == trace \in Traces /\ model \in Models

NativeSound ==
    /\ native \in [pc : {"idle", "decode", "refused", "written"}, of : {native.of},
                   heap : {native.heap}, cache : {native.cache}, records : {native.records}]
    /\ native.pc = "decode" =>
         /\ load_trace
         /\ \E m \in Models : \E k \in 1..3 : native.of = m /\ native.records = SoFar(m, k)
         /\ IsSeq(native.heap) /\ native.cache \in 1..Len(native.heap)
         /\ native.heap[native.cache] = native.records[Len(native.records)].cache
    /\ exchanged = 0 /\ recorded.phases # <<>> => native.pc = "written"

RunIsTyped ==
    /\ run \in [pc : {"idle", "directory", "export", "compare", "digest", "copy", "manifest",
                      "published", "refused"},
                read : {run.read}, of : {run.of}, digests : {run.digests}]
    /\ out \in [source : BOOLEAN, programs : {out.programs}, reference : {out.reference},
                manifest : {out.manifest}]

RunReadsARecord ==
    run.pc # "idle" =>
        /\ load_trace /\ \E m \in Models : run.read.phases = Served(m)
        /\ exchanged = 0 => recorded = run.read

NothingMade == ~out.source => out.programs = <<>> /\ out.manifest = <<>>

Working == {"export", "compare", "digest", "copy", "manifest"}
ProgramsServe ==
    /\ run.pc = "directory" => run.digests = <<>>
    /\ run.pc \in Working =>
         /\ out.source /\ out.manifest = <<>> /\ IsSeq(run.digests) /\ Len(run.digests) \in 0..3
         /\ \A n \in 1..Len(run.digests) : ProgramServes(run.digests[n], n, run.read.phases)
    /\ run.pc \in {"export", "copy", "manifest"} => out.programs = run.digests
    /\ run.pc \in {"export", "compare", "digest"} => Len(run.digests) < 3
    /\ run.pc \in {"compare", "digest"} => \E p : out.programs = Append(run.digests, p)
    /\ run.pc = "digest" => ProgramServes(out.programs[Current], Current, run.read.phases)
    /\ run.pc \in {"copy", "manifest"} => Len(run.digests) = 3
    /\ run.pc = "manifest" /\ exchanged = 0 => out.reference = run.read

ServingInv ==
    /\ TraceIsTyped /\ exchanged \in Nat /\ NativeSound
    /\ RunIsTyped /\ RunReadsARecord /\ NothingMade /\ ProgramsServe
    /\ RecordIsServed /\ BundleServes

LEMMA ServedUnchanged ==
    ASSUME trace' = trace
    PROVE  /\ \A m : Served(m)' = Served(m) /\ \A k : SoFar(m, k)' = SoFar(m, k)
           /\ load_trace' = load_trace
<1>1. \A m : FirstPhase(m)' = FirstPhase(m)
    BY DEF FirstPhase
<1>2. \A m : Served(m)' = Served(m)
    BY <1>1 DEF Served
<1> QED BY <1>2 DEF SoFar, load_trace

LEMMA ServingInitial == ServingInit => ServingInv
<1> SUFFICES ASSUME ServingInit PROVE ServingInv
    OBVIOUS
<1> USE DEF ServingInit
<1>1. NativeSound
    BY DEF NativeSound, NativeIdle, NoTrace
<1>2. RunIsTyped /\ RunReadsARecord /\ NothingMade /\ ProgramsServe
    BY DEF RunIsTyped, RunReadsARecord, NothingMade, ProgramsServe, Working, NoRun, NoBundle
<1>3. RecordIsServed /\ BundleServes
    BY DEF RecordIsServed, BundleServes, NoTrace, NoBundle
<1> QED BY <1>1, <1>2, <1>3 DEF ServingInv, TraceIsTyped

(* What a step leaves alone stays.                                         *)
LEMMA RunsKept ==
    ASSUME ServingInv, trace' = trace, recorded' = recorded, run' = run, out' = out, exchanged' = exchanged
    PROVE  /\ RunIsTyped' /\ RunReadsARecord' /\ NothingMade' /\ ProgramsServe'
           /\ RecordIsServed' /\ BundleServes' /\ (exchanged \in Nat)'
<1>1. RunIsTyped' /\ NothingMade'
    BY DEF ServingInv, RunIsTyped, NothingMade
<1>2. RunReadsARecord'
    BY ServedUnchanged DEF ServingInv, RunReadsARecord
<1>3. ProgramsServe'
  <2>1. ProgramsServe
    BY DEF ServingInv
  <2> QED BY <2>1 DEF ProgramsServe, Current
<1>4. RecordIsServed'
    BY ServedUnchanged DEF ServingInv, RecordIsServed
<1>5. BundleServes'
    BY ServedUnchanged DEF ServingInv, BundleServes
<1> QED BY <1>1, <1>2, <1>3, <1>4, <1>5, ServedUnchanged DEF ServingInv

LEMMA NativeKept ==
    ASSUME ServingInv, trace' = trace, recorded' = recorded, native' = native, exchanged' = exchanged
    PROVE  NativeSound' /\ RecordIsServed' /\ (exchanged \in Nat)'
<1>1. NativeSound'
    BY ServedUnchanged DEF ServingInv, NativeSound
<1>2. RecordIsServed'
    BY ServedUnchanged DEF ServingInv, RecordIsServed
<1> QED BY <1>1, <1>2, ServedUnchanged DEF ServingInv

LEMMA BundleKept ==
    ASSUME ServingInv, trace' = trace, out' = out, exchanged' = exchanged
    PROVE  BundleServes' /\ NothingMade'
BY ServedUnchanged DEF ServingInv, BundleServes, NothingMade

LEMMA PrefillStep == ASSUME ServingInv, RunPrefill PROVE ServingInv'
<1> USE DEF RunPrefill
<1> DEFINE first == Cache("native", trace.prompt)
           call  == run_native_call(<<>>, trace.prompt, 0)
<1>1. call.heap = <<first>> /\ call.cache = 1 /\ call.left = first
    BY DEF run_native_call
<1>2. PhaseRecord(model, trace.prompt, call.left) = Served(model)[1]
    BY <1>1 DEF Served, FirstPhase
<1>3. Served(model)[1].cache = first
    BY DEF Served, FirstPhase, PhaseRecord
<1> HIDE DEF call, first
<1>4. native' = [pc |-> "decode", of |-> model, heap |-> <<first>>, cache |-> 1, records |-> <<Served(model)[1]>>]
    BY <1>1, <1>2 DEF call
<1>5. <<Served(model)[1]>> = SoFar(model, 1) /\ <<first>> \in Seq({first})
    BY DEF SoFar
<1>6. NativeSound'
  <2>1. native'.pc = "decode" /\ native'.of = model /\ native'.heap = <<first>> /\ native'.cache = 1
        /\ native'.records = <<Served(model)[1]>>
    BY <1>4
  <2>2. native' \in [pc : {"idle", "decode", "refused", "written"}, of : {native'.of},
                     heap : {native'.heap}, cache : {native'.cache}, records : {native'.records}]
    BY <1>4
  <2>3. load_trace'
    BY ServedUnchanged
  <2>4. \E m \in Models : \E k \in 1..3 : native'.of = m /\ native'.records = SoFar(m, k)'
    <3>1. PICK m \in Models : m = model
      BY DEF ServingInv, TraceIsTyped
    <3>2. SoFar(m, 1)' = SoFar(m, 1)
      BY ServedUnchanged
    <3> QED BY <1>5, <2>1, <3>1, <3>2
  <2>5. IsSeq(native'.heap) /\ native'.cache \in 1..Len(native'.heap)
    <3>1. \E S : native'.heap \in Seq(S)
      BY <1>5, <2>1
    <3>2. native'.cache \in 1..Len(native'.heap)
      <4>1. Len(<<first>>) = 1
        OBVIOUS
      <4>2. Len(native'.heap) = 1 /\ native'.cache = 1
        BY <2>1, <4>1
      <4>3. 1 \in 1..1
        OBVIOUS
      <4> QED BY <4>2, <4>3, Zenon
    <3> QED BY <3>1, <3>2 DEF IsSeq
  <2>6. native'.heap[native'.cache] = native'.records[Len(native'.records)].cache
    BY <1>3, <2>1
  <2>7. ~(exchanged' = 0 /\ recorded'.phases # <<>>)
    BY DEF ServingInv, NativeSound
  <2>8. IsSeq(native.heap)' = IsSeq(native'.heap)
    BY DEF IsSeq
  <2> QED BY <2>2, <2>3, <2>4, <2>5, <2>6, <2>7, <2>8 DEF NativeSound
<1> QED BY <1>6, RunsKept DEF ServingInv, TraceIsTyped

LEMMA DecodeStep == ASSUME ServingInv, RunDecode PROVE ServingInv'
<1> USE DEF RunDecode
<1> DEFINE last == native.records[Len(native.records)]
           call == run_native_call(native.heap, <<last.greedy_token>>, native.cache)
           left == Grown(native.heap[native.cache], <<last.greedy_token>>, fault)
<1>1. /\ native \in [pc : {"idle", "decode", "refused", "written"}, of : {native.of},
                   heap : {native.heap}, cache : {native.cache}, records : {native.records}]
      /\ native.pc = "decode" /\ load_trace /\ IsSeq(native.heap)
      /\ native.cache \in 1..Len(native.heap) /\ native.heap[native.cache] = last.cache
      /\ trace.prompt \in Seq(Nat) /\ Len(native.records) < 3
      /\ ~(exchanged = 0 /\ recorded.phases # <<>>)
    BY PhaseLengths, ServingAssumption DEF ServingInv, TraceIsTyped, NativeSound
<1>0. PICK m \in Models : \E k \in 1..3 : native.of = m /\ native.records = SoFar(m, k)
    BY <1>1 DEF ServingInv, NativeSound
<1>2. PICK k \in {1, 2} : native.of = m /\ native.records = SoFar(m, k)
  <2>1. PICK k \in 1..3 : native.of = m /\ native.records = SoFar(m, k)
    BY <1>0
  <2> QED BY <1>1, <2>1, SoFarFacts
<1>3. last = Served(m)[k] /\ Append(native.records, Served(m)[k + 1]) = SoFar(m, k + 1)
      /\ Len(SoFar(m, k + 1)) = k + 1 /\ SoFar(m, k + 1)[k + 1] = Served(m)[k + 1]
  <2>1. load_trace /\ trace.prompt \in Seq(Nat)
    BY <1>1
  <2>2. \A n \in 1..3 : Len(SoFar(m, n)) = n /\ SoFar(m, n)[n] = Served(m)[n]
    BY <2>1, SoFarFacts, Zenon
  <2>3. \A n \in {1, 2} : Append(SoFar(m, n), Served(m)[n + 1]) = SoFar(m, n + 1)
    BY <2>1, SoFarFacts, Zenon
  <2>4. k \in 1..3 /\ k + 1 \in 1..3
    OBVIOUS
  <2>5. Len(SoFar(m, k)) = k /\ SoFar(m, k)[k] = Served(m)[k]
    BY <2>2, <2>4, Zenon
  <2>6. native.records = SoFar(m, k)
    BY <1>2
  <2>7. last = Served(m)[k]
    BY <2>5, <2>6, Zenon
  <2>8. Append(native.records, Served(m)[k + 1]) = SoFar(m, k + 1)
    BY <2>3, <2>6, Zenon
  <2> QED BY <2>2, <2>4, <2>7, <2>8, Zenon
<1>4. /\ call.left = left /\ IsSeq(call.heap) /\ call.cache \in 1..Len(call.heap)
      /\ call.heap[call.cache] = left
  <2>1. native.cache # 0 /\ Len(native.heap) \in Nat
    BY <1>1, AppendIsSeq
  <2>2. CASE updates = "a copy"
    <3>1. call.heap = Append(native.heap, left) /\ call.cache = Len(native.heap) + 1 /\ call.left = left
      BY <2>1, <2>2 DEF run_native_call
    <3> HIDE DEF call, left
    <3> QED BY <1>1, <2>1, <3>1, AppendIsSeq
  <2>3. CASE updates # "a copy"
    <3>1. call.heap = [native.heap EXCEPT ![native.cache] = left] /\ call.cache = native.cache /\ call.left = left
      BY <2>1, <2>3 DEF run_native_call
    <3> HIDE DEF call, left
    <3>2. PICK S : native.heap \in Seq(S)
      BY <1>1 DEF IsSeq
    <3>3. [native.heap EXCEPT ![native.cache] = left] \in Seq(S \cup {left})
      <4>1. native.heap \in Seq(S \cup {left})
        BY <3>2
      <4> QED BY <1>1, <4>1
    <3> QED BY <1>1, <3>1, <3>2, <3>3 DEF IsSeq
  <2> QED BY <2>2, <2>3
<1> HIDE DEF call
<1>5. CASE assert_cache_prefix_unchanged(last.cache, call.left)
  <2> DEFINE new == PhaseRecord(m, <<last.greedy_token>>, call.left)
  <2>1. new = Served(m)[k + 1]
    <3>1. k + 1 \in {2, 3} /\ (k + 1) - 1 = k
      OBVIOUS
    <3>2. last.cache = Served(m)[(k + 1) - 1].cache /\ last.greedy_token = Served(m)[(k + 1) - 1].greedy_token
      BY <1>3, <3>1
    <3>3. assert_cache_prefix_unchanged(last.cache, Grown(last.cache, <<last.greedy_token>>, fault))
      BY <1>1, <1>4, <1>5
    <3>4. PhaseRecord(m, <<last.greedy_token>>, Grown(last.cache, <<last.greedy_token>>, fault)) = Served(m)[k + 1]
      BY <1>1, <3>1, <3>2, <3>3, KeptDecode
    <3> QED BY <1>1, <1>4, <3>4
  <2>2. new.cache = left
    BY <1>4, RecordFields
  <2>3. native' = [native EXCEPT !.heap = call.heap, !.cache = call.cache, !.records = Append(@, new)]
    BY <1>2, <1>5 DEF call
  <2> HIDE DEF new, left, last
  <2>4. /\ native'.pc = "decode" /\ native'.of = m /\ native'.heap = call.heap /\ native'.cache = call.cache
        /\ native'.records = SoFar(m, k + 1)
        /\ native' \in [pc : {"idle", "decode", "refused", "written"}, of : {native'.of},
                     heap : {native'.heap}, cache : {native'.cache}, records : {native'.records}]
    BY <1>1, <1>2, <1>3, <2>1, <2>3
  <2>5. \E a \in Models : \E j \in 1..3 : native'.of = a /\ native'.records = SoFar(a, j)'
    <3>1. PICK j \in 1..3 : j = k + 1
      OBVIOUS
    <3>2. SoFar(m, j)' = SoFar(m, j)
      BY ServedUnchanged
    <3> QED BY <2>4, <3>1, <3>2
  <2>6. native'.heap[native'.cache] = native'.records[Len(native'.records)].cache
    BY <1>3, <1>4, <2>1, <2>2, <2>4
  <2>7. IsSeq(native.heap)' /\ native'.cache \in 1..Len(native'.heap)
    BY <1>4, <2>4 DEF IsSeq
  <2>8. load_trace' /\ ~(exchanged' = 0 /\ recorded'.phases # <<>>)
    BY <1>1, ServedUnchanged
  <2>9. NativeSound'
    BY <2>4, <2>5, <2>6, <2>7, <2>8 DEF NativeSound
  <2> QED BY <2>9, RunsKept DEF ServingInv, TraceIsTyped
<1>6. CASE ~assert_cache_prefix_unchanged(last.cache, call.left)
  <2>1. native' = [native EXCEPT !.pc = "refused"]
    BY <1>6 DEF call
  <2> HIDE DEF last
  <2>2. NativeSound'
    BY <1>1, <2>1 DEF NativeSound
  <2> QED BY <2>2, RunsKept DEF ServingInv, TraceIsTyped
<1> QED BY <1>5, <1>6

LEMMA WriteReferenceStep == ASSUME ServingInv, WriteReference PROVE ServingInv'
<1> USE DEF WriteReference
<1>1. /\ native \in [pc : {"idle", "decode", "refused", "written"}, of : {native.of},
                   heap : {native.heap}, cache : {native.cache}, records : {native.records}]
      /\ native.pc = "decode" /\ load_trace
      /\ trace.prompt \in Seq(Nat) /\ Len(native.records) = 3
      /\ ~(exchanged = 0 /\ recorded.phases # <<>>)
    BY PhaseLengths, ServingAssumption DEF ServingInv, TraceIsTyped, NativeSound
<1>0. PICK m \in Models : \E k \in 1..3 : native.of = m /\ native.records = SoFar(m, k)
    BY <1>1 DEF ServingInv, NativeSound
<1>2. native.records = Served(m)
  <2>1. PICK k \in 1..3 : native.of = m /\ native.records = SoFar(m, k)
    BY <1>0
  <2>2. k = 3
    BY <1>1, <2>1, SoFarFacts
  <2> QED BY <1>1, <2>1, <2>2, SoFarFacts
<1>3. UNCHANGED recorded \/ recorded' = [phases |-> native.records]
    OBVIOUS
<1>4. \/ native' = [native EXCEPT !.pc = "written"]
      \/ native' = [native EXCEPT !.pc = "refused"] /\ UNCHANGED recorded
    OBVIOUS
<1>5. NativeSound'
    BY <1>1, <1>4 DEF NativeSound
<1>6. RecordIsServed'
  <2>1. CASE UNCHANGED recorded
    BY <2>1, ServedUnchanged DEF ServingInv, RecordIsServed
  <2>2. CASE recorded' = [phases |-> native.records]
    BY <1>1, <1>2, <2>2, ServedUnchanged DEF RecordIsServed
  <2> QED BY <1>3, <2>1, <2>2
<1>7. RunReadsARecord'
  <2>1. ASSUME run.pc # "idle" PROVE load_trace' /\ (\E a \in Models : run.read.phases = Served(a)) /\ exchanged # 0
    <3>1. PICK a \in Models : run.read.phases = Served(a)
      BY <2>1 DEF ServingInv, RunReadsARecord
    <3>2. run.read.phases # <<>>
      BY <1>1, <3>1, SoFarFacts
    <3>3. exchanged = 0 => recorded = run.read
      BY <2>1 DEF ServingInv, RunReadsARecord
    <3>4. exchanged # 0
      BY <1>1, <3>2, <3>3
    <3> QED BY <1>1, <3>1, <3>4, ServedUnchanged
  <2> QED BY <2>1, ServedUnchanged DEF RunReadsARecord
<1>8. RunIsTyped' /\ ProgramsServe'
  <2>1. RunIsTyped /\ ProgramsServe
    BY DEF ServingInv
  <2> QED BY <2>1 DEF RunIsTyped, ProgramsServe, Current
<1>9. BundleServes' /\ NothingMade' /\ TraceIsTyped' /\ (exchanged \in Nat)'
    BY BundleKept DEF ServingInv, TraceIsTyped
<1> QED BY <1>5, <1>6, <1>7, <1>8, <1>9 DEF ServingInv

LEMMA ReadStep == ASSUME ServingInv, ReadNativeReference PROVE ServingInv'
<1> USE DEF ReadNativeReference
<1>1. /\ run' = [NoRun EXCEPT !.pc = "directory", !.read = recorded]
      /\ load_trace /\ recorded.phases # <<>>
  <2>1. Len(<<>>) # 3
    OBVIOUS
  <2>2. Len(recorded.phases) = 3
    <3>1. Len(recorded.phases) = Len(Phases)
      OBVIOUS
    <3> QED BY <3>1, PhaseLengths, Zenon
  <2>3. recorded.phases # <<>>
    <3>1. ASSUME recorded.phases = <<>> PROVE FALSE
      BY <2>1, <2>2, <3>1, Zenon
    <3> QED BY <3>1, Zenon
  <2>4. run' = [NoRun EXCEPT !.pc = "directory", !.read = recorded] /\ load_trace
    OBVIOUS
  <2> QED BY <2>3, <2>4, Zenon
<1>2. /\ run'.pc = "directory" /\ run'.read = recorded /\ run'.digests = <<>>
      /\ run' \in [pc : {"directory"}, read : {run'.read}, of : {run'.of}, digests : {run'.digests}]
    BY <1>1 DEF NoRun
<1>3. RunIsTyped'
    BY <1>2 DEF ServingInv, RunIsTyped
<1>4. RunReadsARecord'
  <2>1. PICK m \in Models : recorded.phases = Served(m)
    BY <1>1 DEF ServingInv, RecordIsServed
  <2> QED BY <1>1, <1>2, <2>1, ServedUnchanged DEF RunReadsARecord
<1>5. ProgramsServe'
    BY <1>2 DEF ProgramsServe, Working
<1> QED BY <1>3, <1>4, <1>5, NativeKept, BundleKept DEF ServingInv, TraceIsTyped

(* A step of a run that goes on with its record.                           *)
LEMMA RecordKept ==
    ASSUME ServingInv, run.pc # "idle", run'.read = run.read, trace' = trace, recorded' = recorded,
           exchanged' = exchanged
    PROVE  RunReadsARecord'
BY ServedUnchanged DEF ServingInv, RunReadsARecord

LEMMA MakeDirectoryStep == ASSUME ServingInv, MakeDirectory PROVE ServingInv'
<1> USE DEF MakeDirectory, RefuseRun
<1>1. RunIsTyped /\ NothingMade /\ ProgramsServe /\ run.pc = "directory"
    BY DEF ServingInv
<1>2. run'.pc \in {"refused", "export"} /\ run'.read = run.read /\ run'.digests = <<>> /\ RunIsTyped'
    BY <1>1 DEF RunIsTyped, ProgramsServe
<1>3. RunReadsARecord'
    BY <1>1, <1>2, RecordKept
<1>4. out'.programs = out.programs /\ out'.manifest = out.manifest /\ out'.reference = out.reference
    BY <1>1 DEF RunIsTyped
<1>5. ProgramsServe' /\ NothingMade'
  <2>1. CASE out.source
    <3>1. run'.pc = "refused" /\ out' = out
      BY <1>1, <2>1 DEF RunIsTyped
    <3> QED BY <1>1, <3>1 DEF ProgramsServe, Working, NothingMade
  <2>2. CASE ~out.source
    <3>1. run'.pc = "export" /\ out'.source /\ out'.programs = <<>> /\ out'.manifest = <<>>
      BY <1>1, <2>2 DEF RunIsTyped, NothingMade
    <3>2. Len(<<>>) = 0 /\ IsSeq(<<>>)
      <4>1. <<>> \in Seq({}) /\ Len(<<>>) = 0
        OBVIOUS
      <4> QED BY <4>1 DEF IsSeq
    <3>3. IsSeq(run'.digests) /\ Len(run'.digests) = 0
      BY <1>2, <3>2
    <3> QED BY <1>2, <3>1, <3>3 DEF ProgramsServe, Working, NothingMade
  <2> QED BY <2>1, <2>2
<1>6. BundleServes'
    BY <1>4, ServedUnchanged DEF ServingInv, BundleServes
<1> QED BY <1>2, <1>3, <1>5, <1>6, NativeKept DEF ServingInv, TraceIsTyped

LEMMA ExportStep == ASSUME ServingInv, ExportPhase PROVE ServingInv'
<1> USE DEF ExportPhase
<1>1. RunIsTyped /\ NothingMade /\ ProgramsServe /\ run.pc = "export"
    BY DEF ServingInv
<1>2. PICK p : out' = [out EXCEPT !.programs = Append(@, p)]
    OBVIOUS
<1>3. run' = [run EXCEPT !.pc = "compare", !.of = model]
    OBVIOUS
<1>4. run'.pc = "compare" /\ run'.read = run.read /\ run'.digests = run.digests
    BY <1>1, <1>3 DEF RunIsTyped
<1>5. /\ out'.programs = Append(out.programs, p) /\ out'.manifest = out.manifest
      /\ out'.source = out.source
    BY <1>1, <1>2 DEF RunIsTyped
<1>6. RunIsTyped'
    BY <1>1, <1>2, <1>3 DEF RunIsTyped
<1>7. ProgramsServe' /\ NothingMade' /\ out.manifest = <<>>
  <2>1. /\ out.source /\ out.manifest = <<>> /\ out.programs = run.digests /\ Len(run.digests) < 3
        /\ IsSeq(run.digests) /\ Len(run.digests) \in 0..3
        /\ \A n \in 1..Len(run.digests) : ProgramServes(run.digests[n], n, run.read.phases)
    BY <1>1 DEF ProgramsServe, Working
  <2> QED BY <1>4, <1>5, <2>1 DEF ProgramsServe, Working, NothingMade
<1>8. BundleServes'
    BY <1>5, <1>7 DEF BundleServes
<1> QED BY <1>1, <1>4, <1>6, <1>7, <1>8, RecordKept, NativeKept DEF ServingInv, TraceIsTyped

LEMMA CompareStep == ASSUME ServingInv, compare_eager_and_exported_phase PROVE ServingInv'
<1> USE DEF compare_eager_and_exported_phase, RefuseRun
<1>1. RunIsTyped /\ ProgramsServe /\ run.pc = "compare" /\ trace.prompt \in Seq(Nat)
    BY ServingAssumption DEF ServingInv, TraceIsTyped
<1>2. run'.pc \in {"digest", "refused"} /\ run'.read = run.read /\ run'.digests = run.digests /\ RunIsTyped'
    BY <1>1 DEF RunIsTyped
<1>3. run'.pc = "digest" => Conforms(out.programs[Current], Current)
    BY <1>1 DEF RunIsTyped
<1>4. /\ out.source /\ out.manifest = <<>> /\ IsSeq(run.digests) /\ Len(run.digests) < 3
      /\ Len(run.digests) \in 0..3 /\ (\E p : out.programs = Append(run.digests, p))
      /\ \A n \in 1..Len(run.digests) : ProgramServes(run.digests[n], n, run.read.phases)
    BY <1>1 DEF ProgramsServe, Working
<1>5. PICK m \in Models : load_trace /\ run.read.phases = Served(m)
    BY <1>1 DEF ServingInv, RunReadsARecord
<1>6. run'.pc = "digest" => ProgramServes(out.programs[Current], Current, run.read.phases)
  <2>1. Current \in 1..3
    BY <1>4 DEF Current
  <2>2. ASSUME Conforms(out.programs[Current], Current)
        PROVE  ProgramServes(out.programs[Current], Current, Served(m))
    <3>1. PICK program : program = out.programs[Current]
      OBVIOUS
    <3>2. PICK n \in 1..3 : n = Current
      BY <2>1
    <3>3. Conforms(program, n)
      BY <2>2, <3>1, <3>2
    <3>4. ProgramServes(program, n, Served(m))
      BY <1>1, <1>5, <3>3, ConformingServes
    <3> QED BY <3>1, <3>2, <3>4
  <2> QED BY <1>3, <1>5, <2>2
<1>7. ProgramsServe'
  <2>1. run'.pc = "digest" => ProgramServes(out'.programs[Len(run'.digests) + 1], Len(run'.digests) + 1, run'.read.phases)
    BY <1>2, <1>6 DEF Current
  <2> QED BY <1>2, <1>4, <2>1 DEF ProgramsServe, Working, Current
<1> QED BY <1>1, <1>2, <1>7, RecordKept, NativeKept, BundleKept DEF ServingInv, TraceIsTyped

LEMMA DigestStep == ASSUME ServingInv, DigestPhase PROVE ServingInv'
<1> USE DEF DigestPhase
<1>1. RunIsTyped /\ ProgramsServe /\ run.pc = "digest"
    BY DEF ServingInv
<1>2. PICK p : out.programs = Append(run.digests, p)
    BY <1>1 DEF ProgramsServe
<1>3. /\ out.source /\ out.manifest = <<>> /\ IsSeq(run.digests) /\ Len(run.digests) < 3
      /\ Len(run.digests) \in 0..3 /\ ProgramServes(out.programs[Current], Current, run.read.phases)
      /\ \A n \in 1..Len(run.digests) : ProgramServes(run.digests[n], n, run.read.phases)
    BY <1>1 DEF ProgramsServe, Working
<1>4. /\ out.programs[Current] = p /\ IsSeq(Append(run.digests, p))
      /\ Len(Append(run.digests, p)) = Len(run.digests) + 1
      /\ \A i \in 1..Len(run.digests) : Append(run.digests, p)[i] = run.digests[i]
      /\ Append(run.digests, p)[Len(run.digests) + 1] = p
    BY <1>2, <1>3, AppendIsSeq DEF Current
<1>5. /\ run'.read = run.read /\ run'.digests = Append(run.digests, p) /\ RunIsTyped'
      /\ run'.pc = IF Current = 3 THEN "copy" ELSE "export"
    BY <1>1, <1>4, PhaseLengths DEF RunIsTyped
<1>6. \A n \in 1..Len(run'.digests) : ProgramServes(run'.digests[n], n, run'.read.phases)
  <2> SUFFICES ASSUME NEW n \in 1..Len(run'.digests)
               PROVE  ProgramServes(run'.digests[n], n, run'.read.phases)
    OBVIOUS
  <2>1. CASE n \in 1..Len(run.digests)
    BY <1>3, <1>4, <1>5, <2>1
  <2>2. CASE n = Len(run.digests) + 1
    BY <1>3, <1>4, <1>5, <2>2 DEF Current
  <2> QED BY <1>3, <1>4, <1>5, <2>1, <2>2
<1>7. Current = Len(run.digests) + 1
    BY DEF Current
<1>8. ProgramsServe'
    BY <1>2, <1>3, <1>4, <1>5, <1>6, <1>7 DEF ProgramsServe, Working
<1> QED BY <1>1, <1>5, <1>8, RecordKept, NativeKept, BundleKept DEF ServingInv, TraceIsTyped

LEMMA CopyStep == ASSUME ServingInv, CopyReference PROVE ServingInv'
<1> USE DEF CopyReference
<1>1. RunIsTyped /\ NothingMade /\ ProgramsServe /\ run.pc = "copy"
      /\ (exchanged = 0 => recorded = run.read)
    BY DEF ServingInv, RunReadsARecord
<1>2. run'.pc = "manifest" /\ run'.read = run.read /\ run'.digests = run.digests /\ RunIsTyped'
    BY <1>1 DEF RunIsTyped
<1>3. out'.programs = out.programs /\ out'.manifest = out.manifest /\ out'.source = out.source
      /\ out'.reference = recorded
    BY <1>1 DEF RunIsTyped
<1>4. ProgramsServe' /\ NothingMade' /\ out.manifest = <<>>
    BY <1>1, <1>2, <1>3 DEF ProgramsServe, Working, NothingMade
<1>5. BundleServes'
    BY <1>3, <1>4 DEF BundleServes
<1> QED BY <1>1, <1>2, <1>4, <1>5, RecordKept, NativeKept DEF ServingInv, TraceIsTyped

LEMMA ManifestStep == ASSUME ServingInv, WriteManifest PROVE ServingInv'
<1> USE DEF WriteManifest
<1>1. RunIsTyped /\ NothingMade /\ ProgramsServe /\ run.pc = "manifest"
    BY DEF ServingInv
<1>2. run'.pc = "published" /\ run'.read = run.read /\ RunIsTyped'
    BY <1>1 DEF RunIsTyped
<1>3. out'.programs = out.programs /\ out'.manifest = run.digests /\ out'.source = out.source
      /\ out'.reference = out.reference
    BY <1>1 DEF RunIsTyped
<1>4. /\ out.source /\ out.programs = run.digests /\ Len(run.digests) = 3
      /\ \A n \in 1..3 : ProgramServes(run.digests[n], n, run.read.phases)
      /\ exchanged = 0 => out.reference = run.read
    BY <1>1 DEF ProgramsServe, Working
<1>5. ProgramsServe' /\ NothingMade'
    BY <1>2, <1>3, <1>4 DEF ProgramsServe, Working, NothingMade
<1>6. PICK m \in Models : run.read.phases = Served(m)
    BY <1>1 DEF ServingInv, RunReadsARecord
<1>7. BundleServes'
  <2>1. /\ out'.manifest = out'.programs /\ Len(out'.programs) = Len(Phases)
        /\ \A n \in 1..Len(Phases) : ProgramServes(out'.programs[n], n, Served(m))
        /\ exchanged = 0 => out'.reference.phases = Served(m)
    BY <1>3, <1>4, <1>6, PhaseLengths
  <2> QED BY <2>1, ServedUnchanged DEF BundleServes
<1> QED BY <1>1, <1>2, <1>5, <1>7, RecordKept, NativeKept DEF ServingInv, TraceIsTyped

LEMMA StopStep == ASSUME ServingInv, StopRun PROVE ServingInv'
<1> USE DEF StopRun
<1>1. run'.pc = "idle" /\ run' \in [pc : {"idle"}, read : {run'.read}, of : {run'.of}, digests : {run'.digests}]
    BY DEF NoRun
<1>2. RunIsTyped' /\ RunReadsARecord' /\ ProgramsServe'
    BY <1>1 DEF ServingInv, RunIsTyped, RunReadsARecord, ProgramsServe, Working
<1> QED BY <1>2, NativeKept, BundleKept DEF ServingInv, TraceIsTyped

LEMMA ExchangeStep == ASSUME ServingInv, ExchangeServing PROVE ServingInv'
<1> USE DEF ExchangeServing
<1>1. exchanged' \in Nat /\ exchanged' # 0 /\ exchanged \in Nat
    BY DEF ServingInv
<1>2. TraceIsTyped'
    BY DEF ServingInv, TraceIsTyped
<1>3. NativeSound'
    BY <1>1, ServedUnchanged DEF ServingInv, NativeSound
<1>4. RunIsTyped' /\ NothingMade'
    BY DEF ServingInv, RunIsTyped, NothingMade
<1>5. RunReadsARecord'
    BY <1>1, ServedUnchanged DEF ServingInv, RunReadsARecord
<1>6. ProgramsServe'
  <2>1. ProgramsServe
    BY DEF ServingInv
  <2> QED BY <1>1, <2>1 DEF ProgramsServe, Current
<1>7. RecordIsServed'
  <2>1. CASE UNCHANGED recorded
    BY <2>1, ServedUnchanged DEF ServingInv, RecordIsServed
  <2>2. CASE \E m \in Models : recorded' = [phases |-> Served(m)]
    BY <2>2, ServedUnchanged DEF RecordIsServed
  <2> QED BY <2>1, <2>2
<1>8. BundleServes'
    BY <1>1, ServedUnchanged DEF ServingInv, BundleServes
<1> QED BY <1>1, <1>2, <1>3, <1>4, <1>5, <1>6, <1>7, <1>8 DEF ServingInv

LEMMA ServingStutter == ASSUME ServingInv, UNCHANGED servingVars PROVE ServingInv'
<1> QED BY RunsKept, NativeKept DEF servingVars, ServingInv, TraceIsTyped

(* Every record is that of one model and every published program answers   *)
(* its phase of it.                                                        *)
THEOREM ServedStaysTraced == ServingSpec => []ServedAsTraced
<1>1. ServingInv /\ [ServingNext]_servingVars => ServingInv'
    BY PrefillStep, DecodeStep, WriteReferenceStep, ReadStep, MakeDirectoryStep, ExportStep, CompareStep,
       DigestStep, CopyStep, ManifestStep, StopStep, ExchangeStep, ServingStutter DEF ServingNext
<1>2. ServingInv => ServedAsTraced
    BY DEF ServingInv, ServedAsTraced
<1> QED BY <1>1, <1>2, ServingInitial, PTL DEF ServingSpec
=============================================================================
