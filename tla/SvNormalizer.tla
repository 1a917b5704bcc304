------------------------------ MODULE SvNormalizer ------------------------------
(***************************************************************************)
(* The simulation-only rewriting of the generated SystemVerilog            *)
(* (run_rc_sv_equivalence.py, _normalize_large_or_assignments): the right  *)
(* side of a huge OR or priority ternary is cut into pages, nets of their  *)
(* own with at most PageTerms terms, without looking at what it means.     *)
(* The same parser classifies the write enables of the memory ports        *)
(* (_write_enable_is_proven_zero).                                         *)
(*                                                                         *)
(* A text is a sequence of tokens; a token is a tuple, so that a symbol, a *)
(* name, a literal and the net of a page can be told apart.  Values are    *)
(* 0, 1 and X, as in the four-state logic the rewriting is to preserve.    *)
(***************************************************************************)
EXTENDS Naturals, Sequences, SequencesExt, FiniteSets, FiniteSetsExt

CONSTANTS
    PageTerms,      \* NORMALIZER_PAGE_TERMS: 128
    Assignments     \* the assignments looked at, one at a time

VARIABLES
    assignment,     \* the assignment matched: its text and its declaration
    normalizer,     \* the rewriting: control point, pairs parsed, text left, terms
    lines           \* the assignments it is replaced by, in their order

normalizerVars == <<assignment, normalizer, lines>>

ASSUME NormalizerAssumption == PageTerms \in Nat /\ PageTerms > 1

-----------------------------------------------------------------------------
(* Tokens.                                                                 *)

Question == <<"?">>
Colon == <<":">>
Bar == <<"|">>
OpenParen == <<"(">>
CloseParen == <<")">>
Page(level, index) == <<"page", level, index>>
Target == <<"target">>

(* An unsigned literal of the declared width; one of another width is no   *)
(* better than a name.                                                     *)
IsLiteral(text) == Len(text) = 1 /\ text[1][1] = "literal"

(* How many parentheses the tokens after the first "from" leave open.      *)
Opened(text, from, n) ==
    Cardinality({k \in (from + 1)..n : text[k] = OpenParen})
        - Cardinality({k \in (from + 1)..n : text[k] = CloseParen})

(* The tokens outside parentheses, up to the first that closes too many.   *)
TopLevel(text, from, token) ==
    {n \in (from + 1)..Len(text) :
        /\ text[n] = token /\ Opened(text, from, n) = 0
        /\ \A k \in (from + 1)..n : Opened(text, from, k) >= 0}

(* _matching_ternary_colon: each question in between takes a colon.        *)
MatchingColon(text, question) ==
    {n \in TopLevel(text, question, Colon) :
        Cardinality({k \in TopLevel(text, question, Colon) : k < n})
            = Cardinality({k \in TopLevel(text, question, Question) : k < n})}

-----------------------------------------------------------------------------
NormalizerInit ==
    /\ assignment \in Assignments
    /\ normalizer = [pc |-> "match", pairs |-> <<>>, rest |-> <<>>, level |-> 0,
                      verdict |-> "none"]
    /\ lines = <<>>

InPhase(phase) == normalizer.pc = phase
Keep ==
    /\ normalizer' = [normalizer EXCEPT !.pc = "done"]
    /\ lines' = <<[name |-> Target, text |-> assignment.text]>>
    /\ UNCHANGED assignment

(* _strip_outer_parentheses.                                               *)
RECURSIVE Stripped(_)
Stripped(text) ==
    IF /\ Len(text) > 1 /\ text[1] = OpenParen /\ text[Len(text)] = CloseParen
       /\ \A n \in 1..(Len(text) - 1) : Opened(text, 0, n) > 0
       /\ Opened(text, 0, Len(text)) = 0
    THEN Stripped(SubSeq(text, 2, Len(text) - 1)) ELSE text

(* _write_enable_leaf_kind.                                                *)
LeafKind(text) ==
    LET leaf == Stripped(text) IN
    IF Len(leaf) # 1 THEN "unsupported"
    ELSE IF leaf[1] = <<"literal", 0>> THEN "zero"
    ELSE IF leaf[1] = <<"literal", 1>> THEN "one"
    ELSE IF leaf[1][1] = "name" THEN "dynamic" ELSE "unsupported"

Verdict(kinds) ==
    IF "unsupported" \in kinds THEN "rejected"
    ELSE IF kinds = {"zero"} THEN "immutable" ELSE "mutable"

Classified(kinds) ==
    /\ normalizer' = [normalizer EXCEPT !.pc = "done", !.verdict = Verdict(kinds)]
    /\ UNCHANGED <<assignment, lines>>

(* The assignment is short, or its pages have their names already, or it   *)
(* is not declared the way its kind needs.                                 *)
Refused ==
    \/ ~assignment.large
    \/ assignment.prefixed
    \/ IF Question \in ToSet(assignment.text) THEN assignment.declared # "packed"
       ELSE Bar \notin ToSet(assignment.text) \/ assignment.declared # "scalar"

Match ==
    /\ InPhase("match")
    /\ IF assignment.kind = "enable"
       THEN /\ normalizer' = [normalizer EXCEPT !.pc = "parse", !.rest = Stripped(assignment.text)]
            /\ UNCHANGED <<assignment, lines>>
       ELSE IF Refused THEN Keep
       ELSE /\ normalizer' = [normalizer EXCEPT
                    !.pc = IF Question \in ToSet(assignment.text) THEN "parse" ELSE "split",
                    !.rest = assignment.text]
            /\ UNCHANGED <<assignment, lines>>

NotParsed == IF assignment.kind = "enable" THEN Classified({"unsupported"}) ELSE Keep

(* _flat_priority_ternary: one condition and its value.                    *)
ParsePair ==
    LET rest == normalizer.rest
        questions == TopLevel(rest, 0, Question) IN
    /\ InPhase("parse") /\ questions # {}
    /\ LET question == Min(questions)
           colons == MatchingColon(rest, question) IN
       IF colons = {} \/ question = 1 \/ question + 1 \in colons THEN NotParsed
       ELSE /\ normalizer' = [normalizer EXCEPT
                    !.pairs = Append(@, [condition |-> SubSeq(rest, 1, question - 1),
                                         value |-> SubSeq(rest, question + 1, Min(colons) - 1)]),
                    !.rest = SubSeq(rest, Min(colons) + 1, Len(rest))]
            /\ UNCHANGED <<assignment, lines>>

(* The whole text is parsed: a write enable is what its leaves are; an     *)
(* assignment is paged if it is long enough and all its values are         *)
(* literals of the declared width.                                         *)
ParseEnds ==
    /\ InPhase("parse") /\ TopLevel(normalizer.rest, 0, Question) = {}
    /\ IF assignment.kind = "enable"
       THEN Classified({LeafKind(normalizer.rest)}
                \cup {LeafKind(normalizer.pairs[n].value) : n \in DOMAIN normalizer.pairs})
       ELSE
       IF /\ Len(normalizer.pairs) > PageTerms
          /\ IsLiteral(normalizer.rest)
          /\ \A n \in DOMAIN normalizer.pairs : IsLiteral(normalizer.pairs[n].value)
       THEN /\ normalizer' = [normalizer EXCEPT !.pc = "ternary"]
            /\ UNCHANGED <<assignment, lines>>
       ELSE Keep

(* _priority_chain.                                                        *)
Chain(pairs, fallback) ==
    FlattenSeq([n \in DOMAIN pairs |->
        pairs[n].condition \o <<Question>> \o pairs[n].value \o <<Colon>>]) \o fallback

SlipFallback(index) == normalizer.rest

(* What a page that is not the last falls back to: the page after it.      *)
Fallback(index) ==
    IF lines = <<>> THEN normalizer.rest ELSE <<Page(0, index + 1)>>

(* _render_ternary_pages, from the last page to the first, which is the    *)
(* assignment itself.                                                      *)
TernaryPage ==
    LET index == (Len(normalizer.pairs) - 1) \div PageTerms
        chunk == SubSeq(normalizer.pairs, index * PageTerms + 1, Len(normalizer.pairs)) IN
    /\ InPhase("ternary")
    /\ lines' = Append(lines, [name |-> IF index = 0 THEN Target ELSE Page(0, index),
                               text |-> Chain(chunk, Fallback(index))])
    /\ normalizer' = [normalizer EXCEPT !.pc = IF index = 0 THEN "done" ELSE @,
                                        !.pairs = SubSeq(@, 1, index * PageTerms)]
    /\ UNCHANGED assignment

(* The terms of an OR are what is between its bars, in parentheses or not. *)
Terms(text) ==
    FoldLeft(LAMBDA terms, token :
                IF token = Bar THEN Append(terms, <<>>)
                ELSE [terms EXCEPT ![Len(terms)] = Append(@, token)],
             <<<<>>>>, text)

Joined(terms) ==
    FlattenSeq([n \in DOMAIN terms |->
        IF n = 1 THEN terms[1] ELSE <<Bar>> \o terms[n]])

SplitOr ==
    /\ InPhase("split")
    /\ IF Len(Terms(assignment.text)) <= PageTerms THEN Keep
       ELSE /\ normalizer' = [normalizer EXCEPT !.pc = "or", !.pairs = Terms(assignment.text)]
            /\ UNCHANGED <<assignment, lines>>

(* _render_or_pages: one level, each page of which becomes a term of the   *)
(* next; the last level is the assignment.                                 *)
OrLevel ==
    LET terms == normalizer.pairs
        pages == (Len(terms) + PageTerms - 1) \div PageTerms
        text(n) == Joined(SubSeq(terms, (n - 1) * PageTerms + 1,
                                 Min({n * PageTerms, Len(terms)}))) IN
    /\ InPhase("or")
    /\ IF Len(terms) > PageTerms
       THEN /\ lines' = lines \o [n \in 1..pages |->
                            [name |-> Page(normalizer.level, n), text |-> text(n)]]
            /\ normalizer' = [normalizer EXCEPT
                    !.pairs = [n \in 1..pages |-> <<Page(normalizer.level, n)>>],
                    !.level = @ + 1]
       ELSE /\ lines' = Append(lines, [name |-> Target, text |-> Joined(terms)])
            /\ normalizer' = [normalizer EXCEPT !.pc = "done"]
    /\ UNCHANGED assignment

NormalizerNext == Match \/ ParsePair \/ ParseEnds \/ TernaryPage \/ SplitOr \/ OrLevel

NormalizerSpec == NormalizerInit /\ [][NormalizerNext]_normalizerVars

-----------------------------------------------------------------------------
(* What a text means to the simulator: its grammar, as the set of values a *)
(* text can have.  A text that is no expression has none.                  *)
X == 2
OrOf(a, b) == IF 1 \in {a, b} THEN 1 ELSE IF X \in {a, b} THEN X ELSE 0
Choice(c, a, b) == IF c = 1 THEN a ELSE IF c = 0 THEN b ELSE IF a = b THEN a ELSE X

RECURSIVE Primary(_, _), OrExpression(_, _), Expression(_, _)

Primary(text, nets) ==
    IF Len(text) = 1
    THEN IF text[1] \in DOMAIN nets THEN {nets[text[1]]}
         ELSE IF text[1][1] = "literal" THEN {text[1][2]} ELSE {}
    ELSE IF Len(text) > 2 /\ text[1] = OpenParen /\ text[Len(text)] = CloseParen
    THEN Expression(SubSeq(text, 2, Len(text) - 1), nets)
    ELSE {}

\* The last bar outside parentheses joins the terms before it to the last.
OrExpression(text, nets) ==
    LET bars == TopLevel(text, 0, Bar) IN
    IF bars = {} THEN Primary(text, nets)
    ELSE {OrOf(a, b) : a \in OrExpression(SubSeq(text, 1, Max(bars) - 1), nets),
                       b \in Primary(SubSeq(text, Max(bars) + 1, Len(text)), nets)}

\* The first question belongs to the colon that leaves two expressions.
Expression(text, nets) ==
    LET questions == TopLevel(text, 0, Question)
        q == Min(questions)
        colons == {n \in TopLevel(text, 0, Colon) :
                    n > q /\ Expression(SubSeq(text, q + 1, n - 1), nets) # {}} IN
    IF questions = {} THEN OrExpression(text, nets)
    ELSE UNION {{Choice(c, a, b) : c \in OrExpression(SubSeq(text, 1, q - 1), nets),
                                   a \in Expression(SubSeq(text, q + 1, n - 1), nets),
                                   b \in Expression(SubSeq(text, n + 1, Len(text)), nets)} :
                 n \in colons}

(* The nets after the lines, or none if one of them is no expression.      *)
Driven(nets) ==
    FoldLeft(LAMBDA known, line :
                LET values == Expression(line.text, known) IN
                IF DOMAIN known = {} \/ values = {} THEN [t \in {} |-> X]
                ELSE [t \in DOMAIN known \cup {line.name} |->
                        IF t = line.name THEN CHOOSE v \in values : TRUE ELSE known[t]],
             nets, lines)

NetNames == {t \in ToSet(assignment.text) : t[1] = "name"}
SplitsInside(text) == \E n \in DOMAIN text : text[n] = Bar /\ Opened(text, 0, n) > 0

(* Whatever the nets carry, unknown values included, the assignments that  *)
(* replace an assignment drive its net to the very value it had: pages keep*)
(* the priority of the conditions, and nested conditions stay whole.  Only *)
(* an OR with another one in parentheses may be cut inside it, and then    *)
(* the simulator cannot read the result at all.                            *)
PagesKeepTheValue ==
    normalizer.pc = "done" /\ assignment.kind = "assign" =>
        \A nets \in [NetNames -> {0, 1, X}] :
            LET after == Driven(nets) IN
            \/ Target \in DOMAIN after /\ {after[Target]} = Expression(assignment.text, nets)
            \/ DOMAIN after = {} /\ SplitsInside(assignment.text)

(* A memory port is only called immutable if no state of the design, known *)
(* or unknown, raises its write enable.                                    *)
ProvenZeroStaysZero ==
    normalizer.verdict = "immutable" =>
        \A nets \in [NetNames -> {0, 1, X}] : Expression(assignment.text, nets) = {0}

(* Neither the rewriting nor the classification, which both work on the    *)
(* text alone, goes against what the text means.                           *)
TextIsUnderstood == PagesKeepTheValue /\ ProvenZeroStaysZero
=============================================================================
