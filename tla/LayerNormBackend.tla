--------------------------- MODULE LayerNormBackend ---------------------------
(***************************************************************************)
(* The lowering of the fixed LayerNorm to Calyx                            *)
(* (lower_tinystories_1m_fixed_layernorm_backend.py) and the probe that    *)
(* takes its report and its Calyx file as evidence                         *)
(* (execute_tinystories_1m_fixed_layernorm_backend.py).                    *)
(*                                                                         *)
(* They share three files: the flat SCF, the Calyx output and the report.  *)
(* Nothing serialises two lowerings, a lowering may be killed between any  *)
(* two steps, and circt-opt may fail in every way the script guards        *)
(* against.  A text of the Calyx file stands for its hash.                 *)
(***************************************************************************)
EXTENDS Naturals, FiniteSets

CONSTANTS
    Lowerings,   \* invocations of the lowering
    MaxKills     \* how many of them may be killed

ASSUME BackendAssumption ==
    /\ MaxKills \in Nat
    /\ Lowerings \cap {"none", "pinned", "invalid", "earlier"} = {}

VARIABLES
    flat,        \* the flat SCF file
    calyx,       \* the Calyx file
    report,      \* the report
    lowerings,   \* each invocation's control point and what it holds in memory
    probe        \* the probe's control point and what it has read

backendVars == <<flat, calyx, report, lowerings, probe>>

-----------------------------------------------------------------------------
(* The files.  The pinned text is the one whose hash the probe knows; a    *)
(* lowering produces it again, or, with another circt-opt, a text of its   *)
(* own.  The writer stands for the inode and the times of a file.          *)

NoFile == [text |-> "none", writer |-> "none"]
ValidTexts == {"pinned"} \cup Lowerings
CalyxFiles == [text: ValidTexts \cup {"invalid"}, writer: Lowerings \cup {"earlier"}]
Valid(file) == file.text \in ValidTexts

NoReport == [calyx |-> "none", by |-> "none", state |-> "absent"]
PinnedReport == [calyx |-> "pinned", by |-> "earlier", state |-> "whole"]

Idle == [pc |-> "load", text |-> "none", reparsed |-> "none", stamp |-> NoFile]

(* The directory is new, or holds what an earlier lowering left.           *)
BackendInit ==
    /\ \/ flat = "absent" /\ calyx = NoFile /\ report = NoReport
       \/ /\ flat = "whole"
          /\ calyx = [text |-> "pinned", writer |-> "earlier"]
          /\ report = PinnedReport
    /\ lowerings = [l \in Lowerings |-> Idle]
    /\ probe = [pc |-> "hash", report |-> NoReport, calyx |-> NoFile]

Is(l, point) == lowerings[l].pc = point
Then(l, point) == lowerings' = [lowerings EXCEPT ![l].pc = point]

-----------------------------------------------------------------------------
(* main up to the conversion.                                              *)

(* The pinned inputs are loaded, or rejected before any file is touched.   *)
LoadInputs(l) ==
    /\ Is(l, "load")
    /\ Then(l, "flat") \/ Then(l, "failed")
    /\ UNCHANGED <<flat, calyx, report, probe>>

(* The flat SCF is rendered from pinned inputs, so every lowering writes   *)
(* the same text; opening the file truncates it.                           *)
TruncateFlat(l) ==
    /\ Is(l, "flat")
    /\ flat' = "partial"
    /\ Then(l, "render")
    /\ UNCHANGED <<calyx, report, probe>>

(* Without --circt-opt no conversion is requested.                         *)
WriteFlat(l) ==
    /\ Is(l, "render")
    /\ flat' = "whole"
    /\ Then(l, "clear") \/ Then(l, "omit")
    /\ UNCHANGED <<calyx, report, probe>>

OmitCalyx(l) ==
    /\ Is(l, "omit")
    /\ calyx' = NoFile
    /\ Then(l, "report")
    /\ UNCHANGED <<flat, report, probe>>

-----------------------------------------------------------------------------
(* run_calyx_conversion.                                                   *)

ClearCalyx(l) ==
    /\ Is(l, "clear")
    /\ IF flat = "whole"
       THEN calyx' = NoFile /\ Then(l, "convert")
       ELSE Then(l, "failed") /\ UNCHANGED calyx
    /\ UNCHANGED <<flat, report, probe>>

(* circt-opt: a text, an unusable one, or none, and an exit code that may  *)
(* contradict it.  Only a whole flat file converts.                        *)
Convert(l) ==
    /\ Is(l, "convert")
    /\ \/ UNCHANGED calyx
       \/ \E text \in {"pinned", "invalid", l} :
            /\ text \in ValidTexts => flat = "whole"
            /\ calyx' = [text |-> text, writer |-> l]
    /\ Then(l, "read") \/ Then(l, "discard")
    /\ UNCHANGED <<flat, report, probe>>

(* A missing output fails the conversion, an invalid one is discarded.     *)
ReadOutput(l) ==
    /\ Is(l, "read")
    /\ lowerings' = [lowerings EXCEPT
                       ![l].pc = IF calyx = NoFile THEN "report"
                                 ELSE IF Valid(calyx) THEN "reparse" ELSE "discard",
                       ![l].text = IF Valid(calyx) THEN calyx.text ELSE "none"]
    /\ UNCHANGED <<flat, calyx, report, probe>>

(* The verifier parses what the path holds now and writes a text of its    *)
(* own; it may reject even a valid file or lose its output.                *)
Reparse(l) ==
    /\ Is(l, "reparse")
    /\ \/ /\ Valid(calyx)
          /\ lowerings' = [lowerings EXCEPT ![l].pc = "attest", ![l].reparsed = calyx.text]
       \/ Then(l, "discard")
    /\ UNCHANGED <<flat, calyx, report, probe>>

(* The attestation stats the file.                                         *)
Attest(l) ==
    /\ Is(l, "attest")
    /\ lowerings' = [lowerings EXCEPT
                       ![l].pc = IF calyx = NoFile THEN "discard" ELSE "report",
                       ![l].stamp = calyx]
    /\ UNCHANGED <<flat, calyx, report, probe>>

(* A failed conversion removes the output and reports no Calyx.            *)
Discard(l) ==
    /\ Is(l, "discard")
    /\ calyx' = NoFile
    /\ lowerings' = [lowerings EXCEPT ![l].pc = "report", ![l].text = "none"]
    /\ UNCHANGED <<flat, report, probe>>

-----------------------------------------------------------------------------
(* The report.                                                             *)

SlipRelease(l) == calyx = lowerings[l].stamp

(* release: the file is still the attested one, and is the text the        *)
(* conversion returned.                                                    *)
Releases(l) == calyx = lowerings[l].stamp /\ calyx.text = lowerings[l].text

MakeReport(l) ==
    /\ Is(l, "report")
    /\ Then(l, IF lowerings[l].text = "none" \/ Releases(l) THEN "truncate" ELSE "failed")
    /\ UNCHANGED <<flat, calyx, report, probe>>

TruncateReport(l) ==
    /\ Is(l, "truncate")
    /\ report' = [NoReport EXCEPT !.state = "partial"]
    /\ Then(l, "write")
    /\ UNCHANGED <<flat, calyx, probe>>

(* Two reports written at once may leave a mixture, which is no JSON.      *)
WriteReport(l) ==
    /\ Is(l, "write")
    /\ \/ report' = [calyx |-> lowerings[l].text, by |-> l, state |-> "whole"]
       \/ /\ report.state = "whole" \/ \E k \in Lowerings \ {l} : Is(k, "write")
          /\ report' = [NoReport EXCEPT !.state = "partial"]
    /\ Then(l, "done")
    /\ UNCHANGED <<flat, calyx, probe>>

Lowering(l) ==
    \/ LoadInputs(l) \/ TruncateFlat(l) \/ WriteFlat(l) \/ OmitCalyx(l)
    \/ ClearCalyx(l) \/ Convert(l) \/ ReadOutput(l) \/ Reparse(l) \/ Attest(l)
    \/ Discard(l) \/ MakeReport(l) \/ TruncateReport(l) \/ WriteReport(l)

(* A kill leaves every file as the last step left it.                      *)
KillLowering(l) ==
    /\ lowerings[l].pc \notin {"done", "failed", "killed"}
    /\ Cardinality({k \in Lowerings : Is(k, "killed")}) < MaxKills
    /\ Then(l, "killed")
    /\ UNCHANGED <<flat, calyx, report, probe>>

-----------------------------------------------------------------------------
(* The probe hashes both files against its pinned hashes, then reads them  *)
(* again.                                                                  *)

ProbeThen(point) == probe' = [probe EXCEPT !.pc = point]

HashEvidence ==
    /\ probe.pc = "hash"
    /\ ProbeThen(IF report.state = "whole" /\ report.calyx = "pinned" THEN "hash calyx"
                 ELSE "rejected")
    /\ UNCHANGED <<flat, calyx, report, lowerings>>

HashCalyx ==
    /\ probe.pc = "hash calyx"
    /\ ProbeThen(IF calyx.text = "pinned" THEN "report" ELSE "rejected")
    /\ UNCHANGED <<flat, calyx, report, lowerings>>

(* The self-hash of the report rejects one that is not whole.              *)
ReadEvidence ==
    /\ probe.pc = "report"
    /\ probe' = [probe EXCEPT !.pc = IF report.state = "whole" THEN "calyx" ELSE "rejected",
                              !.report = report]
    /\ UNCHANGED <<flat, calyx, report, lowerings>>

(* The Calyx file read now is the one the report names.                    *)
ReadCalyx ==
    /\ probe.pc = "calyx"
    /\ probe' = [probe EXCEPT
                   !.pc = IF calyx # NoFile /\ calyx.text = probe.report.calyx THEN "accepted"
                          ELSE "rejected",
                   !.calyx = calyx]
    /\ UNCHANGED <<flat, calyx, report, lowerings>>

Probe == HashEvidence \/ HashCalyx \/ ReadEvidence \/ ReadCalyx

BackendNext == Probe \/ \E l \in Lowerings : Lowering(l) \/ KillLowering(l)

BackendSpec == BackendInit /\ [][BackendNext]_backendVars

-----------------------------------------------------------------------------
(* The files, the invocations and the probe stay in their domains.         *)
BackendTypeOK ==
    /\ flat \in {"absent", "partial", "whole"}
    /\ calyx \in CalyxFiles \cup {NoFile}
    /\ report \in [calyx: ValidTexts \cup {"none"}, by: Lowerings \cup {"none", "earlier"},
                   state: {"absent", "partial", "whole"}]
    /\ lowerings \in [Lowerings ->
         [pc: {"load", "flat", "render", "omit", "clear", "convert", "read", "reparse",
               "attest", "discard", "report", "truncate", "write", "done", "failed", "killed"},
          text: ValidTexts \cup {"none"}, reparsed: ValidTexts \cup {"none"},
          stamp: CalyxFiles \cup {NoFile}]]
    /\ probe \in [pc: {"hash", "hash calyx", "report", "calyx", "accepted", "rejected"},
                  report: [calyx: ValidTexts \cup {"none"},
                           by: Lowerings \cup {"none", "earlier"},
                           state: {"absent", "partial", "whole"}],
                  calyx: CalyxFiles \cup {NoFile}]

(* Once past its conversion an invocation may have put a file of its own   *)
(* at the path.                                                            *)
Converted(l) ==
    lowerings[l].pc \notin {"load", "flat", "render", "omit", "clear", "convert"}
Overtaken(l) == \E j, k \in Lowerings \ {l} : j # k /\ Converted(j) /\ Converted(k)

(* What a report calls converted and reparsed was reparsed by the very     *)
(* invocation that wrote the report; two others may have replaced the file *)
(* in turn, by another text for the reparse and by the first one again.    *)
Earned(rep) ==
    rep.state = "whole" /\ rep.calyx # "none" =>
        \/ rep = PinnedReport
        \/ /\ rep.by \in Lowerings
           /\ lowerings[rep.by].reparsed = rep.calyx \/ Overtaken(rep.by)

(* Unless two others overtook it twice, a report on disk only names a      *)
(* Calyx text its own invocation reparsed, however lowerings overlap or    *)
(* die; and a probe that accepts holds the text its report names.          *)
ReportIsOfItsConversion ==
    /\ Earned(report)
    /\ probe.pc = "accepted" => /\ probe.calyx.text = probe.report.calyx
                                /\ Valid(probe.calyx)
                                /\ Earned(probe.report)
=============================================================================
