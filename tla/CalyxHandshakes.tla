----------------------------- MODULE CalyxHandshakes -----------------------------
(***************************************************************************)
(* The three repairs of the handshakes in a generated design --            *)
(* fix_futil_fptosi_handshake.py before Calyx, fix_sv_fptosi_handshake.py  *)
(* and fix_sv_divsqrt_handshake.py after it -- and a clocked run of the    *)
(* design they leave: a division, a conversion of its quotient, again.     *)
(*                                                                         *)
(* A capture group converts a float to an integer with a converter of its  *)
(* own, named like the group, into a register that cell sharing may have   *)
(* given to other groups too.                                              *)
(***************************************************************************)
EXTENDS Naturals, Sequences, FiniteSets, Functions

CONSTANTS
    Groups,            \* the capture groups, in the order of the Futil
    Sharings,          \* the physical registers cell sharing may give them
    PlainRegister,     \* the register that a group of another kind writes
    Latency,           \* the cycles a converter takes
    MaxRuns            \* bounds a run of the design

VARIABLES
    futil,             \* what enables each group's result register
    sv,                \* the physical registers, their enables, the divider
    made,              \* how far the scripts are
    chip               \* the design in a clock cycle

handshakeVars == <<futil, sv, made, chip>>

GroupSet == Range(Groups)
Registers == UNION {Range(sharing) : sharing \in Sharings}
plain == "plain"

ASSUME HandshakeAssumption ==
    /\ Latency \in Nat \ {0} /\ MaxRuns \in Nat
    /\ {plain, "div", "one"} \cap GroupSet = {}
    /\ \A sharing \in Sharings : DOMAIN sharing = GroupSet
    /\ PlainRegister \in Registers

-----------------------------------------------------------------------------
(* fix_futil_fptosi_handshake.py: the write enables of a group are "one",    *)
(* which is 1'b1, or a converter's done.                                    *)

NotMade == [stage |-> "export", gated |-> FALSE, repairs |-> 0, changed |-> FALSE]
Off == [run |-> 0]

ExportInit ==
    /\ futil \in [GroupSet -> {<<>>} \cup {<<enable>> : enable \in {"one"} \cup GroupSet}]
    /\ sv = [divider |-> "none"] /\ made = NotMade /\ chip = Off

FixedGroup(g) == [n \in 1..Len(futil[g]) |-> IF futil[g][n] = "one" THEN g ELSE futil[g][n]]
FixFutil ==
    /\ made.stage = "export" /\ ~made.gated
    /\ IF \A g \in GroupSet : \/ Cardinality({n \in 1..Len(futil[g]) : futil[g][n] = "one"}) = 1
                              \/ ("one" \notin Range(futil[g]) /\ g \in Range(futil[g]))
       THEN futil' = [g \in GroupSet |-> FixedGroup(g)] /\ made' = [made EXCEPT !.gated = TRUE]
       ELSE futil' = futil /\ made' = [made EXCEPT !.stage = "refused"]
    /\ UNCHANGED <<sv, chip>>

(* Calyx: a register's enable is an OR of go signals when they all write at  *)
(* once, or else a chain of conditions with the values they select.  A pair  *)
(* is a condition, the go signals it ORs, with its value and its place.      *)
Place(g) == CHOOSE n \in 1..Len(Groups) : Groups[n] = g
LastPlace == Len(Groups) + 1
Pair(when, value, place) == [when |-> when, value |-> value, place |-> place]
Before(p, q) ==
    \/ p.place[1] < q.place[1]
    \/ p.place[1] = q.place[1] /\ p.place[2] < q.place[2]

Compiled(physical, r, last) ==
    LET writing == {g \in GroupSet : physical[g] = r /\ futil[g] # <<>>}
        gated   == {g \in writing : futil[g] # <<"one">>}
        atOnce  == (writing \ gated) \cup (IF r = PlainRegister THEN {plain} ELSE {})
        pairs   == {Pair({g}, futil[g][1], <<Place(g), LastPlace>>) : g \in gated}
    IN  IF gated = {}
        THEN [chain |-> FALSE, pairs |-> {Pair({g}, "one", <<0, LastPlace>>) : g \in atOnce}]
        ELSE [chain |-> TRUE,
              pairs |-> pairs \cup {Pair(gs, "one", <<IF last THEN LastPlace ELSE 0, LastPlace>>) : gs \in {atOnce} \ {{}}}]
Compile ==
    /\ made.stage = "export" /\ made' = [made EXCEPT !.stage = "sv"]
    /\ \E physical \in Sharings, last \in BOOLEAN, divider \in {"legacy", "fixed", "other"} :
         sv' = [physical |-> physical, divider |-> divider,
                enables |-> [r \in Registers |-> Compiled(physical, r, last)]]
    /\ UNCHANGED <<futil, chip>>

-----------------------------------------------------------------------------
(* fix_sv_divsqrt_handshake.py.                                             *)

RepairDivider ==
    /\ made.stage = "sv" /\ sv.divider # "fixed"
    /\ IF sv.divider = "legacy" THEN sv' = [sv EXCEPT !.divider = "fixed"] /\ made' = made
       ELSE sv' = sv /\ made' = [made EXCEPT !.stage = "refused"]
    /\ UNCHANGED <<futil, chip>>

(* fix_sv_fptosi_handshake.py: the Futil binds groups to converters, the     *)
(* SystemVerilog groups to registers.                                       *)
Bound(g) == futil[g] \in {<<"one">>, <<g>>}
Captures(r) == {g \in GroupSet : sv.physical[g] = r}
ExactTerms(pairs, g, value) == {p \in pairs : p.when = {g} /\ p.value = value}
AtOnce(pairs, g) == {p \in pairs : g \in p.when /\ p.value = "one"}

\* Slip: the gated term joins the OR that the old one stays in.
GatedBeside(pairs, gs) == pairs \cup {Pair({g}, g, <<0, LastPlace>>) : g \in gs}

(* A flat OR: a group's term is gated where it stands.                      *)
GatedTerms(pairs, g) == {[p EXCEPT !.value = g] : p \in ExactTerms(pairs, g, "one")}
Gated(pairs, gs) ==
    {p \in pairs : \A g \in gs : p \notin ExactTerms(pairs, g, "one")}
        \cup UNION {GatedTerms(pairs, g) : g \in gs}

(* A chain: a group that is not gated yet gets a pair of its own before the *)
(* one that ORs it with others, and leaves that one.                        *)
Pending(pairs, gs) == {g \in gs : ExactTerms(pairs, g, g) = {}}
Due(pairs, gs, p) == {g \in Pending(pairs, gs) : p \in AtOnce(pairs, g)}
Freed(pairs, gs, p) ==
    {Pair({g}, g, <<p.place[1], Place(g)>>) : g \in Due(pairs, gs, p)}
        \cup (IF p.when \subseteq Due(pairs, gs, p) THEN {}
              ELSE {Pair(p.when \ Due(pairs, gs, p), p.value, p.place)})
Split(pairs, gs) == UNION {Freed(pairs, gs, p) : p \in pairs}

Rewritable(enable, gs) ==
    \A g \in gs :
        LET fixed == Cardinality(ExactTerms(enable.pairs, g, g)) IN
        IF enable.chain
        THEN fixed = 1 \/ (fixed = 0 /\ Cardinality(AtOnce(enable.pairs, g)) = 1)
        ELSE fixed + Cardinality(ExactTerms(enable.pairs, g, "one")) = 1
rewrite_assignment(enable, gs) ==
    [enable EXCEPT !.pairs = IF enable.chain THEN Split(enable.pairs, gs) ELSE Gated(enable.pairs, gs)]

RepairCaptures ==
    /\ made.stage = "sv" /\ made.repairs < 2
    /\ IF /\ \A g \in GroupSet : Bound(g)
          /\ \A r \in Registers : Rewritable(sv.enables[r], Captures(r))
       THEN /\ sv' = [sv EXCEPT !.enables = [r \in Registers |-> rewrite_assignment(sv.enables[r], Captures(r))]]
            /\ made' = [made EXCEPT !.repairs = @ + 1, !.changed = made.repairs > 0 /\ sv' # sv]
       ELSE sv' = sv /\ made' = [made EXCEPT !.stage = "refused"]
    /\ UNCHANGED <<futil, chip>>

-----------------------------------------------------------------------------
(* A run of the design.  The n-th division has the quotient n; 0 is what    *)
(* the other group writes, and what a register holds after the reset.       *)

Reset ==
    [run |-> 1, at |-> "div", state |-> "IDLE", out |-> 0, unit |-> [holds |-> 0, valid |-> FALSE],
     quotient |-> [value |-> 0, done |-> FALSE],
     converters |-> [g \in GroupSet |-> [out |-> 0, age |-> 0]],
     registers |-> [r \in Registers |-> [value |-> 0, done |-> FALSE]]]
PowerOn ==
    /\ made.stage = "sv" /\ sv.divider = "fixed"
    /\ made' = [made EXCEPT !.stage = "running"] /\ chip' = Reset
    /\ UNCHANGED <<futil, sv>>

RegisterOf(group) == IF group = plain THEN PlainRegister ELSE sv.physical[group]
GroupDone == IF chip.at = "div" THEN chip.quotient.done ELSE chip.registers[RegisterOf(chip.at)].done
Go(group) == chip.at = group /\ ~GroupDone
ConverterDone(g) == chip.converters[g].age = Latency

(* The divider's wrapper: one request for each go, and done after outValid. *)
divider_done == chip.state = "COMPLETE"
divider_go == Go("div") /\ ~divider_done
inReady == chip.unit.holds = 0 \/ chip.unit.valid
llm2fpga_request == chip.state = "IDLE" /\ divider_go /\ inReady

\* Slip: a guess how long the division takes.
NextStateGuessed ==
    IF chip.state = "IDLE" THEN (IF llm2fpga_request THEN "BUSY" ELSE "IDLE")
    ELSE IF chip.state = "BUSY" THEN "COMPLETE"
    ELSE (IF divider_go THEN "COMPLETE" ELSE "IDLE")

NextState ==
    IF chip.state = "IDLE" THEN (IF llm2fpga_request THEN "BUSY" ELSE "IDLE")
    ELSE IF chip.state = "BUSY" THEN (IF chip.unit.valid THEN "COMPLETE" ELSE "BUSY")
    ELSE (IF divider_go THEN "COMPLETE" ELSE "IDLE")

\* The unit answers in any later cycle, and takes a request in that cycle.
NextUnits ==
    IF llm2fpga_request THEN {[holds |-> chip.run, valid |-> FALSE]}
    ELSE IF inReady THEN {[holds |-> 0, valid |-> FALSE]}
    ELSE {[chip.unit EXCEPT !.valid = valid] : valid \in BOOLEAN}

Asserted(signal) == signal = "one" \/ ConverterDone(signal)
WriteEnable(r) ==
    LET asked == {p \in sv.enables[r].pairs : \E t \in p.when : Go(t)}
    IN  \E p \in asked : Asserted(p.value) /\ (sv.enables[r].chain => \A q \in asked : ~Before(q, p))

\* The control goes on when a group is done, as it likes.
NextGroups ==
    IF ~GroupDone THEN {<<chip.run, chip.at>>}
    ELSE {<<chip.run, g>> : g \in IF chip.at = "div" THEN GroupSet ELSE {}}
         \cup (IF chip.at \in GroupSet THEN {<<chip.run, plain>>} ELSE {})
         \cup (IF chip.at # "div" /\ chip.run < MaxRuns THEN {<<chip.run + 1, "div">>} ELSE {})

Clock ==
    /\ made.stage = "running"
    /\ \E unit \in NextUnits, next \in NextGroups :
         chip' = [run |-> next[1], at |-> next[2], state |-> NextState, unit |-> unit,
                  out |-> IF chip.state = "BUSY" /\ chip.unit.valid THEN chip.unit.holds ELSE chip.out,
                  quotient |-> IF Go("div") /\ divider_done THEN [value |-> chip.out, done |-> TRUE]
                               ELSE [chip.quotient EXCEPT !.done = FALSE],
                  converters |-> [g \in GroupSet |->
                      IF Go(g) /\ ~ConverterDone(g)
                      THEN [out |-> chip.quotient.value, age |-> chip.converters[g].age + 1]
                      ELSE [chip.converters[g] EXCEPT !.age = 0]],
                  registers |-> [r \in Registers |->
                      IF WriteEnable(r)
                      THEN [value |-> IF chip.at = plain THEN 0 ELSE chip.converters[chip.at].out, done |-> TRUE]
                      ELSE [chip.registers[r] EXCEPT !.done = FALSE]]]
    /\ UNCHANGED <<futil, sv, made>>

HandshakesNext == FixFutil \/ Compile \/ RepairDivider \/ RepairCaptures \/ PowerOn \/ Clock
HandshakesSpec == ExportInit /\ [][HandshakesNext]_handshakeVars

-----------------------------------------------------------------------------
(* In a design that was gated in the Futil or repaired in the SystemVerilog, *)
(* a capture group that is done has its register hold the conversion of this *)
(* run's quotient, not of an earlier one's -- whatever it shares the         *)
(* register with, and however long the division takes; and to repair a       *)
(* repaired design again changes nothing.                                   *)
CapturesAreOfTheirRun ==
    /\ made.stage = "running" /\ (made.gated \/ made.repairs > 0) =>
           (chip.at \in GroupSet /\ GroupDone => chip.registers[RegisterOf(chip.at)].value = chip.run)
    /\ ~made.changed
=============================================================================
