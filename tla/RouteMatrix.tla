------------------------------ MODULE RouteMatrix ------------------------------
(***************************************************************************)
(* The nonlinear route matrix                                              *)
(* (run_quantized_rc_nonlinear_matrix.py), which tries the standard        *)
(* lowerings of each primitive and of the whole model and records what the *)
(* tools accepted, and the frontier that is concluded from it              *)
(* (render_quantized_rc_nonlinear_frontier.py).  Each run has an output    *)
(* directory of its own, as the Nix derivation gives it.                   *)
(***************************************************************************)
EXTENDS Naturals, Sequences, SequencesExt

CONSTANTS
    Tried,        \* the primitives in the order their rows are written
    Required,     \* the same primitives in the order the frontier reports them
    Transforms    \* the transformations tried on each primitive

Direct == "direct-circt"

\* Both scripts name the same primitives, each once, and each route once.
ASSUME MatrixAssumption ==
    /\ Tried \in Seq(Range(Tried)) /\ IsInjective(Tried)
    /\ Required \in Seq(Range(Tried)) /\ Required # <<>>
    /\ Transforms \in Seq(Range(Transforms)) /\ IsInjective(Transforms)
    /\ Direct \notin Range(Transforms)

VARIABLES
    rows,         \* the rows so far: the routes of the matrix
    files,        \* what the tools left in the output directory
    conclusion    \* the frontier's result, once rendered

matrixVars == <<rows, files, conclusion>>

-----------------------------------------------------------------------------
(* The rows of a matrix, in the order they are written.                    *)

PrimitiveRoutes == <<Direct>> \o Transforms
FullRoutes == <<"torch-to-tosa", "validate-raw", "zero-point", "tosa-to-linalg",
                "linalg-to-scf", "scf-to-flat", "flat-to-circt", "direct-flat">>

(* The route whose output a route reads, and the input named when there is *)
(* no such output.                                                         *)
Before ==
    [r \in {"validate-raw", "zero-point", "tosa-to-linalg", "linalg-to-scf", "scf-to-flat",
            "flat-to-circt"} |->
        IF r \in {"validate-raw", "zero-point"} THEN "torch-to-tosa"
        ELSE IF r = "tosa-to-linalg" THEN "zero-point"
        ELSE IF r = "linalg-to-scf" THEN "tosa-to-linalg"
        ELSE IF r = "scf-to-flat" THEN "linalg-to-scf" ELSE "scf-to-flat"]
Given(route) == IF route \in {"flat-to-circt", "direct-flat"} THEN "flat" ELSE "torch"

PrimitiveRow(p, route) == [scope |-> "primitive", subject |-> p, route |-> route]
PrimitiveRows ==
    [n \in 1..(Len(Tried) * Len(PrimitiveRoutes)) |->
        PrimitiveRow(Tried[((n - 1) \div Len(PrimitiveRoutes)) + 1],
                     PrimitiveRoutes[((n - 1) % Len(PrimitiveRoutes)) + 1])]
FullRows == [n \in 1..Len(FullRoutes) |->
                [scope |-> "full-rc", subject |-> "model", route |-> FullRoutes[n]]]
Plan == PrimitiveRows \o FullRows

Outputs == Range(Plan)
Source(name) == [scope |-> "source", subject |-> name, route |-> "given"]
Sources == {Source(name) : name \in {"torch", "flat"} \cup Range(Tried)}

-----------------------------------------------------------------------------
(* One command: its exit code, whether its log shows an error, and what it *)
(* left at its output path.  A tool that fails may leave junk; one that    *)
(* reports no failure may still leave nothing.                             *)
Commands ==
    {c \in [exit: {0, 1}, diagnostic: BOOLEAN, output: {"none", "empty", "junk", "good"}] :
        /\ c.output = "good" => c.exit = 0 /\ ~c.diagnostic
        /\ c.output = "junk" => c.exit # 0 \/ c.diagnostic}

(* What stays at the output path: an empty file is as bad as junk.         *)
Left(c) == IF c.output = "empty" THEN "junk" ELSE c.output

(* run_command accepts on a clean exit, a clean log and a nonempty output. *)
Status(c) ==
    IF c.exit = 0 /\ ~c.diagnostic /\ c.output \notin {"none", "empty"}
    THEN "accepted" ELSE "rejected"

NoConclusion == [status |-> "none"]

Exists(f) == f \in Sources \/ files[f] # "none"

Row(id, attempt, calyx, reads, writes) ==
    [id |-> id, attempt |-> attempt, calyx |-> calyx, input |-> reads,
     census |-> IF attempt = "accepted" THEN writes ELSE reads,
     semantics |-> "undetermined", comparison |-> "not-run"]

Add(row) == rows' = Append(rows, row)
Pending == Plan[Len(rows) + 1]

MatrixInit ==
    /\ rows = <<>>
    /\ files = [f \in Outputs |-> "none"]
    /\ conclusion = NoConclusion

(* circt-opt on the primitive itself: the row names its input as output.   *)
TryDirect ==
    /\ Len(rows) < Len(Plan) /\ Pending.scope = "primitive" /\ Pending.route = Direct
    /\ \E c \in Commands :
         /\ files' = [files EXCEPT ![Pending] = Left(c)]
         /\ Add(Row(Pending, Status(c), Status(c), Source(Pending.subject), Source(Pending.subject)))
    /\ UNCHANGED conclusion

(* A transformation, then circt-opt on what it produced.                   *)
TryTransform ==
    /\ Len(rows) < Len(Plan) /\ Pending.scope = "primitive" /\ Pending.route # Direct
    /\ \E c \in Commands :
         /\ files' = [files EXCEPT ![Pending] = Left(c)]
         /\ \E calyx \in IF Status(c) = "accepted" THEN {"accepted", "rejected"}
                         ELSE {"skipped"} :
              Add(Row(Pending, Status(c), calyx, Source(Pending.subject), Pending))
    /\ UNCHANGED conclusion

Predecessor(id) == [id EXCEPT !.route = Before[id.route]]
AttemptOf(id) == rows[CHOOSE n \in 1..Len(rows) : rows[n].id = id].attempt
Calyx(id, status) == IF id.route \in {"flat-to-circt", "direct-flat"} THEN status ELSE "not-run"

SlipReads(id) ==
    IF id.route \in DOMAIN Before THEN Predecessor(id) ELSE Source(Given(id.route))

(* The output of the predecessor when there is one, accepted or not.       *)
Reads(id) ==
    IF id.route \in DOMAIN Before /\ Exists(Predecessor(id))
    THEN Predecessor(id) ELSE Source(Given(id.route))

(* A step of the whole model, on the output of an accepted predecessor.    *)
TryFull ==
    /\ Len(rows) < Len(Plan) /\ Pending.scope = "full-rc"
    /\ Pending.route \in DOMAIN Before => AttemptOf(Predecessor(Pending)) = "accepted"
    /\ \E c \in Commands :
         /\ files' = [files EXCEPT ![Pending] = Left(c)]
         /\ Add(Row(Pending, Status(c), Calyx(Pending, Status(c)), Reads(Pending),
                    IF Pending.route = "direct-flat" THEN Source("flat") ELSE Pending))
    /\ UNCHANGED conclusion

(* A step whose predecessor was rejected, or was itself skipped.           *)
SkipFull ==
    /\ Len(rows) < Len(Plan) /\ Pending.scope = "full-rc"
    /\ Pending.route \in DOMAIN Before
    /\ AttemptOf(Predecessor(Pending)) # "accepted"
    /\ Add(Row(Pending, "skipped", Calyx(Pending, "skipped"), Reads(Pending), Pending))
    /\ UNCHANGED <<files, conclusion>>

-----------------------------------------------------------------------------
(* The frontier.                                                           *)

Rejected(row) == row.attempt = "rejected" \/ row.calyx = "rejected"

(* A route counts only with a comparison that passed.                      *)
Validated(row) ==
    /\ row.attempt = "accepted" /\ row.calyx = "accepted"
    /\ row.semantics = "exact" /\ row.comparison = "pass"

(* The rows of a primitive, by their places in the matrix.                 *)
RoutesOf(p) == {n \in 1..Len(rows) : rows[n].id.scope = "primitive" /\ rows[n].id.subject = p}
RejectedOf(p) == {n \in RoutesOf(p) : Rejected(rows[n])}
Remaining(p) == RejectedOf(p) # {} \/ ~\E n \in RoutesOf(p) : Validated(rows[n])

(* The first primitive that remains, and its first rejected route, or its  *)
(* first route when none was rejected.                                     *)
NamedRoutes(p) == IF RejectedOf(p) # {} THEN RejectedOf(p) ELSE RoutesOf(p)
FirstRemaining ==
    LET remaining == {k \in 1..Len(Required) : Remaining(Required[k])} IN
    IF remaining = {} THEN [status |-> "standard-route-advance"]
    ELSE [status |-> "blocked", primitive |-> Required[Min(remaining)],
          row |-> rows[Min(NamedRoutes(Required[Min(remaining)]))]]

Render ==
    /\ Len(rows) = Len(Plan) /\ conclusion = NoConclusion
    /\ conclusion' = FirstRemaining
    /\ UNCHANGED <<rows, files>>

MatrixNext == TryDirect \/ TryTransform \/ TryFull \/ SkipFull \/ Render

MatrixSpec == MatrixInit /\ [][MatrixNext]_matrixVars

-----------------------------------------------------------------------------
(* The census of a row reads a file that exists.  A row that was accepted  *)
(* left a good output and, in the chain of the whole model, everything     *)
(* before it was accepted too; no Calyx is accepted from a failed step.    *)
Grounded(row) ==
    /\ Exists(row.census)
    /\ row.attempt = "accepted" =>
         /\ files[row.id] = "good"
         /\ row.id.scope = "full-rc" /\ row.id.route \in DOMAIN Before =>
              AttemptOf(Predecessor(row.id)) = "accepted"
    /\ row.calyx = "accepted" => row.attempt = "accepted"

(* Every row of the matrix is grounded, and the conclusion drawn from a    *)
(* matrix whose rows were never compared with the oracle is blocked at the *)
(* first required primitive, whatever the tools accepted.                  *)
MatrixIsGrounded ==
    /\ \A n \in 1..Len(rows) : Grounded(rows[n])
    /\ conclusion # NoConclusion =>
         /\ conclusion.status = "blocked"
         /\ conclusion.primitive = Required[1]
         /\ Rejected(conclusion.row) <=> RejectedOf(Required[1]) # {}
=============================================================================
