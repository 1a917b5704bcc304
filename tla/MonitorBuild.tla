----------------------------- MODULE MonitorBuild -----------------------------
(***************************************************************************)
(* scripts/pipeline/monitor_build.sh: it runs a build command in the       *)
(* background, samples /proc for the command's process tree until the      *)
(* command has ended, and writes a summary.  The script runs under         *)
(* "set -euo pipefail": a command that fails outside a condition ends it.  *)
(*                                                                         *)
(* The command's processes come and go between any two steps of the        *)
(* script, and its output reaches build.log through a tee that runs beside *)
(* both.  Sizes, names and times are left out: a sample row and a metadata *)
(* row are the process they are about.                                     *)
(***************************************************************************)
EXTENDS Naturals, FiniteSets

CONSTANTS
  Root,      (* the subshell that runs the command                         *)
  Workers,   (* the processes it may spawn                                 *)
  Lines,     (* bound on the stage lines the command prints                *)
  Statuses,  (* exit statuses of a command                                 *)
  None       (* no summary, no process, not exited                         *)

ASSUME RootAssumption == Root \notin Workers
ASSUME LinesAssumption == Lines \in Nat
ASSUME NoneAssumption == None \notin Workers \cup {Root} \cup Statuses

Processes == Workers \cup {Root}

VARIABLES
  alive,     (* processes that have an entry in /proc                      *)
  fresh,     (* workers that have not been spawned yet                     *)
  status,    (* the command's exit status once it has ended                *)
  printed,   (* stage lines the command has printed                        *)
  logged,    (* of these, the lines the tee has written to build.log       *)
  pc,        (* the step the script is at                                  *)
  final,     (* the script is in the sample after the wait                 *)
  todo,      (* processes of the current sample still to visit             *)
  pid,       (* the process being visited                                  *)
  seenPids,      (* seen_pids, and the rows of processes.tsv                   *)
  samples,   (* processes that have a row in process-samples.tsv           *)
  summary,   (* summary.txt: exit status and last stage line               *)
  exitStatus (* of the script itself                                       *)

command == <<alive, fresh, status, printed>>
script == <<pc, final, todo, pid, seenPids, samples, summary, exitStatus>>
vars == <<command, logged, script>>

Init ==
  /\ alive = {Root} /\ fresh = Workers
  /\ status = None /\ printed = 0 /\ logged = 0
  /\ pc = "list" /\ final = FALSE
  /\ todo = {} /\ pid = None
  /\ seenPids = {} /\ samples = {}
  /\ summary = None /\ exitStatus = None

-----------------------------------------------------------------------------
(* The command, its tee, and the operating system. *)

Spawn(w) ==
  /\ status = None
  /\ w \in fresh
  /\ alive' = alive \cup {w}
  /\ fresh' = fresh \ {w}
  /\ UNCHANGED <<status, printed, logged, script>>

Vanish(w) ==
  /\ w \in alive \ {Root}
  /\ alive' = alive \ {w}
  /\ UNCHANGED <<fresh, status, printed, logged, script>>

PrintStage ==
  /\ status = None
  /\ printed < Lines
  /\ printed' = printed + 1
  /\ UNCHANGED <<alive, fresh, status, logged, script>>

\* The shell reaps the ended command: its entry in /proc is gone.
CommandEnds(s) ==
  /\ status = None
  /\ status' = s
  /\ alive' = alive \ {Root}
  /\ UNCHANGED <<fresh, printed, logged, script>>

Tee ==
  /\ logged < printed
  /\ logged' = logged + 1
  /\ UNCHANGED <<command, script>>

-----------------------------------------------------------------------------
(* The script. *)

StopScript(s) == pc' = "stopped" /\ exitStatus' = s
\* What "set -e" does when a command fails; any failing status is taken as 1.
Errexit == StopScript(1) /\ UNCHANGED <<final, todo, pid, seenPids, samples, summary>>

\* collect_sample_pids: the root, whether it lives or not, and the workers
\* found: one whose parent has ended is found by the global pattern only.
ListTree ==
  /\ pc = "list"
  /\ \E found \in SUBSET (alive \ {Root}) : todo' = {Root} \cup found
  /\ pc' = "next"
  /\ UNCHANGED <<command, logged, final, pid, seenPids, samples, summary, exitStatus>>

\* "[[ -r /proc/$pid/status ]] || continue"
Visit(p) ==
  /\ pc = "next"
  /\ p \in todo
  /\ todo' = todo \ {p}
  /\ IF p \notin alive THEN UNCHANGED <<pid, pc>>
     ELSE pid' = p /\ pc' = IF p \in seenPids THEN "sample" ELSE "describe"
  /\ UNCHANGED <<command, logged, final, seenPids, samples, summary, exitStatus>>

\* record_process_metadata: a vanished process makes its check, or the awk
\* that reads its name, return a failure.
Describe ==
  /\ pc = "describe"
  /\ IF pid \in alive
     THEN /\ pc' = "describing"
          /\ UNCHANGED <<final, todo, pid, seenPids, samples, summary, exitStatus>>
     ELSE Errexit
  /\ UNCHANGED <<command, logged>>

Record == seenPids' = seenPids \cup {pid}

ReadName ==
  /\ pc = "describing"
  /\ IF pid \in alive
     THEN /\ Record
          /\ pc' = "sample"
          /\ UNCHANGED <<final, todo, pid, samples, summary, exitStatus>>
     ELSE Errexit
  /\ UNCHANGED <<command, logged>>

\* The awk that reads the process's status file.  When the file is gone awk
\* fails, and its END rule may still print a row without values.
Sample ==
  /\ pc = "sample"
  /\ \/ /\ pid \in alive
        /\ samples' = samples \cup {pid}
        /\ pc' = "next"
        /\ UNCHANGED exitStatus
     \/ /\ pid \notin alive
        /\ samples' \in {samples, samples \cup {pid}}
        /\ StopScript(1)
  /\ UNCHANGED <<command, logged, final, todo, pid, seenPids, summary>>

\* "kill -0" decides between another sample and the wait.
TreeSampled ==
  /\ pc = "next"
  /\ todo = {}
  /\ pc' = IF final THEN "summarise" ELSE "alive?"
  /\ UNCHANGED <<command, logged, final, todo, pid, seenPids, samples, summary, exitStatus>>

\* Slip: any process of the tree keeps the loop going.
LoopWhileWorkers == alive # {}
LoopGoesOn == Root \in alive

KillProbe ==
  /\ pc = "alive?"
  /\ pc' = IF LoopGoesOn THEN "list" ELSE "wait"
  /\ UNCHANGED <<command, logged, final, todo, pid, seenPids, samples, summary, exitStatus>>

Wait ==
  /\ pc = "wait"
  /\ status # None
  /\ pc' = "list"
  /\ final' = TRUE
  /\ UNCHANGED <<command, logged, todo, pid, seenPids, samples, summary, exitStatus>>

\* Slip: the script exits with the status of the summary's awk.
AwkStatus == 0
CommandStatus == status

\* The last stage line is looked up in build.log as the tee has left it.
Summarise ==
  /\ pc = "summarise"
  /\ summary' = [exit_status |-> status, last_stage |-> logged]
  /\ StopScript(CommandStatus)
  /\ UNCHANGED <<command, logged, final, todo, pid, seenPids, samples>>

Script ==
  \/ ListTree \/ Describe \/ ReadName \/ Sample \/ TreeSampled \/ KillProbe
  \/ Wait \/ Summarise
  \/ \E p \in Processes : Visit(p)

Next ==
  \/ Script
  \/ Tee \/ PrintStage
  \/ \E w \in Workers : Spawn(w) \/ Vanish(w)
  \/ \E s \in Statuses : CommandEnds(s)

\* The script and the tee run; the command ends.
Fairness ==
  /\ WF_vars(Script)
  /\ WF_vars(Tee)
  /\ WF_vars(\E s \in Statuses : CommandEnds(s))

Spec == Init /\ [][Next]_vars /\ Fairness

-----------------------------------------------------------------------------
(* Correctness. *)

TypeOK ==
  /\ alive \subseteq Processes /\ fresh \subseteq Workers
  /\ status \in Statuses \cup {None}
  /\ printed \in 0 .. Lines /\ logged \in 0 .. printed
  /\ pc \in {"list", "next", "describe", "describing", "sample", "alive?",
             "wait", "summarise", "stopped"}
  /\ final \in BOOLEAN
  /\ todo \subseteq Processes /\ pid \in Processes \cup {None}
  /\ seenPids \subseteq Processes /\ samples \subseteq Processes
  /\ summary = None \/ summary \in [exit_status : Statuses, last_stage : 0 .. Lines]
  /\ exitStatus \in Statuses \cup {None, 1}

\* Every process with a sample row has its metadata row, although the two are
\* read from /proc at different moments.
SampledAreDescribed == samples \subseteq seenPids

\* The caller of the script sees the command's own exit status, and so does the
\* reader of the summary, unless a failed sample ended the script.
ExitStatusIsTheCommands ==
  pc = "stopped" =>
    \/ summary = None /\ exitStatus = 1
    \/ /\ status # None
       /\ exitStatus = status
       /\ summary.exit_status = status

\* The script stops once the command has ended, whatever workers the command
\* leaves behind.
StopsWithTheCommand == status # None ~> pc = "stopped"

\* "Artifacts written under OUTPUT_DIR: ... summary.txt": a script that has
\* stopped has written its summary.
SummaryIsWritten == pc = "stopped" => summary # None
=============================================================================
