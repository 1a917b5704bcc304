----------------------------- MODULE SelfTestTop -----------------------------
(***************************************************************************)
(* The board self-tests.  gen_tiny_stories_selftest_top.py reads the port  *)
(* list of a generated `main` and wraps it: it starts it once, answers its *)
(* loads with the address (or a constant), acknowledges its stores and     *)
(* lights a lamp when it is done or late; tiny_stories_selftest_top.sv is  *)
(* such a wrapper.  matmul_selftest_top.sv seeds the operand memories of   *)
(* its design and compares the result.                                     *)
(*                                                                         *)
(* A port's name is a record; a declaration is its number of bits, 0 for   *)
(* one whose width is unknown.  The lamp that blinks is left out.          *)
(***************************************************************************)
EXTENDS Naturals, Sequences, FiniteSets

CONSTANTS
    Headers,            \* the port lists a design's header may have
    BOOT_RESET_CYCLES, TIMEOUT_CYCLES,
    WideBits,           \* the two data widths that have a constant of their own,
    NarrowBits,
    WideConstant,       \* and the constants
    NarrowConstant,
    VectorLength,       \* operands of the matrix product
    ResultModulus       \* its result's width, as a modulus

ASSUME SelfTestAssumption ==
    /\ BOOT_RESET_CYCLES \in Nat /\ BOOT_RESET_CYCLES < 255
    /\ TIMEOUT_CYCLES \in Nat
    /\ VectorLength \in Nat \ {0} /\ ResultModulus \in Nat \ {0}

VARIABLES
    header,        \* the design's port list
    wrapper,       \* what was generated for it
    regs,          \* the wrapper's registers
    design,        \* what the wrapped design was given and gave
    matmul,        \* the registers of the other self-test
    product        \* its design: its memories, and what it stored

selfTestVars == <<header, wrapper, regs, design, matmul, product>>

-----------------------------------------------------------------------------
(* parse_main_ports                                                        *)

In(n, signal)  == [side |-> "in", number |-> n, part |-> signal]
Out(n, signal) == [side |-> "out", number |-> n, part |-> signal]

\* A token without a direction inherits it, and the declaration, if it has
\* none, of the last token that had one.
Directed(token) == token.direction # ""
Declares(token) == token.direction # "" \/ token.declared
Latest(numbers) == CHOOSE i \in numbers : \A j \in numbers : j <= i
ParsedPort(tokens, k) ==
    LET declaration == tokens[Latest({i \in 1..k : Declares(tokens[i])})] IN
    [name |-> tokens[k].name,
     direction |-> tokens[Latest({i \in 1..k : Directed(tokens[i])})].direction,
     bits |-> IF declaration.declared THEN declaration.bits ELSE 1]
Parses(tokens) == tokens # <<>> /\ Directed(tokens[1])
parse_main_ports(tokens) == {ParsedPort(tokens, k) : k \in DOMAIN tokens}

-----------------------------------------------------------------------------
(* generate_wrapper                                                        *)

inputPorts(ports)  == {p.name : p \in {q \in ports : q.direction = "input"}}
outputPorts(ports) == {p.name : p \in {q \in ports : q.direction = "output"}}
names(ports)   == inputPorts(ports) \cup outputPorts(ports)
Bits(ports, name) == (CHOOSE p \in ports : p.name = name).bits

StartCandidates(ports) ==
    {n \in {p.name.number : p \in ports} :
        In(n, "valid") \in inputPorts(ports) /\ In(n, "ready") \in outputPorts(ports)}
DoneCandidates(ports) ==
    {n \in {p.name.number : p \in ports} :
        Out(n, "valid") \in outputPorts(ports) /\ Out(n, "ready") \in inputPorts(ports)}
choose_start_channel(ports) == CHOOSE n \in StartCandidates(ports) : \A m \in StartCandidates(ports) : m <= n
choose_done_channel(ports)  == CHOOSE n \in DoneCandidates(ports) : \A m \in DoneCandidates(ports) : n <= m

StoreParts == {"st0", "st0_valid", "st0_ready", "st0_done_valid", "st0_done_ready"}
StorePrefixes(ports) ==
    {p.name.number : p \in {q \in ports : q.name.side = "in" /\ q.name.part \in StoreParts}}
choose_store_prefix(ports) == CHOOSE n \in StorePrefixes(ports) : \A m \in StorePrefixes(ports) : n <= m

LoadPrefixes(ports) ==
    {n \in {p.name.number : p \in ports} :
        /\ {In(n, "ld0_data"), In(n, "ld0_data_valid"), In(n, "ld0_addr_ready")} \subseteq inputPorts(ports)
        /\ In(n, "ld0_addr_valid") \in outputPorts(ports)}
HasAddress(ports, n) == In(n, "ld0_addr") \in outputPorts(ports)
WidthsAreKnown(ports) ==
    \A n \in LoadPrefixes(ports) :
        /\ Bits(ports, In(n, "ld0_data")) # 0
        /\ HasAddress(ports, n) => Bits(ports, In(n, "ld0_addr")) # 0

Generates(ports) ==
    /\ StartCandidates(ports) # {} /\ DoneCandidates(ports) # {} /\ StorePrefixes(ports) # {}
    /\ \A signal \in StoreParts : In(choose_store_prefix(ports), signal) \in names(ports)
    /\ WidthsAreKnown(ports)

\* The address, extended or cut to the data's width; or a constant.
data_expr(ports, n, addr_q) ==
    LET bits == Bits(ports, In(n, "ld0_data")) IN
    IF HasAddress(ports, n) THEN addr_q % (2 ^ bits)
    ELSE IF bits = WideBits THEN WideConstant
    ELSE IF bits = NarrowBits THEN NarrowConstant
    ELSE 0

generate_wrapper(ports) ==
    [ports |-> ports, start |-> choose_start_channel(ports), done |-> choose_done_channel(ports),
     store |-> choose_store_prefix(ports), loads |-> LoadPrefixes(ports)]
NoWrapper == [ports |-> {}, start |-> 0, done |-> 0, store |-> 0, loads |-> {}]

-----------------------------------------------------------------------------
(* The wrapper's registers.  While `reset` holds the design is reset too.  *)

Zeroed(loads) == [n \in loads |-> 0]
PoweredUp(loads) ==
    [boot |-> 0, start |-> TRUE, pending |-> [n \in loads |-> FALSE], addr_q |-> Zeroed(loads),
     store_done_pending |-> FALSE, pass |-> FALSE, fail |-> FALSE, cycles |-> 0]
reset == regs.boot <= BOOT_RESET_CYCLES

\* What a design shows in a cycle: in reset and before its start, nothing;
\* then it would take another start at any time.
Addresses(ports, n) == IF HasAddress(ports, n) THEN 0..(2 ^ Bits(ports, In(n, "ld0_addr")) - 1) ELSE {0}
Silent(ready) ==
    [asks |-> {}, address |-> Zeroed(wrapper.loads), takes |-> {}, start_ready |-> ready,
     stores |-> FALSE, acknowledges |-> FALSE, done |-> FALSE]
Asked(asks) ==
    {f \in [wrapper.loads -> UNION {Addresses(wrapper.ports, n) : n \in wrapper.loads}] :
        \A n \in wrapper.loads : IF n \in asks THEN f[n] \in Addresses(wrapper.ports, n) ELSE f[n] = 0}
ShownAsking(asks) ==
    {[asks |-> asks, address |-> address, takes |-> takes, start_ready |-> TRUE,
      stores |-> stores, acknowledges |-> acknowledges, done |-> done] :
         address \in Asked(asks), takes \in SUBSET wrapper.loads, stores, acknowledges, done \in BOOLEAN}
Shown ==
    IF reset THEN {Silent(FALSE)}
    ELSE IF design.started = 0 THEN {Silent(ready) : ready \in BOOLEAN}
    ELSE UNION {ShownAsking(asks) : asks \in SUBSET wrapper.loads}

\* The single start token.
NextStart(show) == IF reset THEN TRUE ELSE regs.start /\ ~show.start_ready

\* addr_ready = ~pending and data_valid = pending.
Accepts(n, show) == ~regs.pending[n] /\ n \in show.asks
Delivers(n, show) == regs.pending[n] /\ n \in show.takes
NextPending(n, show) == ~reset /\ (Accepts(n, show) \/ (regs.pending[n] /\ ~Delivers(n, show)))
NextAddress(n, show) ==
    IF reset THEN 0
    ELSE IF Accepts(n, show) /\ HasAddress(wrapper.ports, n) THEN show.address[n] ELSE regs.addr_q[n]

\* st0_ready = ~store_done_pending and st0_done_valid = store_done_pending.
StoreAccepted(show) == ~regs.store_done_pending /\ show.stores
StoreReturned(show) == regs.store_done_pending /\ show.acknowledges
NextStorePending(show) == ~reset /\ (StoreAccepted(show) \/ (regs.store_done_pending /\ ~StoreReturned(show)))

\* The pass/fail monitor.
Judging == ~reset /\ ~regs.pass /\ ~regs.fail
Late == regs.cycles >= TIMEOUT_CYCLES
NextPass(show) == ~reset /\ (regs.pass \/ (Judging /\ show.done))
NextFail(show) == ~reset /\ (regs.fail \/ (Judging /\ ~show.done /\ Late))
NextCycles(show) ==
    IF reset THEN 0 ELSE IF Judging /\ ~show.done /\ ~Late THEN regs.cycles + 1 ELSE regs.cycles

ClockedRegs(show) ==
    [boot |-> IF reset THEN regs.boot + 1 ELSE regs.boot,
     start |-> NextStart(show),
     pending |-> [n \in wrapper.loads |-> NextPending(n, show)],
     addr_q |-> [n \in wrapper.loads |-> NextAddress(n, show)],
     store_done_pending |-> NextStorePending(show),
     pass |-> NextPass(show), fail |-> NextFail(show), cycles |-> NextCycles(show)]

(* The design keeps, per load, the addresses it was told are accepted and  *)
(* has no data for, and what it was given last.                            *)
NewDesign(loads) ==
    [started |-> 0, asked |-> [n \in loads |-> <<>>],
     given |-> [n \in loads |-> <<>>], unreturned |-> 0, ended |-> FALSE]
AskedOf(n, show) ==
    LET asked == IF Delivers(n, show) THEN Tail(design.asked[n]) ELSE design.asked[n]
    IN  IF Accepts(n, show) THEN Append(asked, show.address[n]) ELSE asked
GivenOf(n, show) ==
    IF Delivers(n, show) THEN <<Head(design.asked[n]), data_expr(wrapper.ports, n, regs.addr_q[n])>>
    ELSE design.given[n]
ClockedDesign(show) ==
    IF reset THEN NewDesign(wrapper.loads)
    ELSE [started |-> IF regs.start /\ show.start_ready THEN design.started + 1 ELSE design.started,
          asked |-> [n \in wrapper.loads |-> AskedOf(n, show)],
          given |-> [n \in wrapper.loads |-> GivenOf(n, show)],
          unreturned |-> (design.unreturned + IF StoreAccepted(show) THEN 1 ELSE 0)
                             - IF StoreReturned(show) THEN 1 ELSE 0,
          ended |-> design.ended \/ show.done]

-----------------------------------------------------------------------------
(* matmul_selftest_top.sv                                                  *)

vec_a(i) == i + 1
vec_b(i) == VectorLength - i
Dot(a, b) ==
    LET sum[i \in 0..VectorLength] == IF i = 0 THEN 0 ELSE (sum[i - 1] + a[i - 1] * b[i - 1]) % ResultModulus
    IN  sum[VectorLength]
Operands == 0..(VectorLength - 1)
EXPECTED == Dot([i \in Operands |-> vec_a(i)], [i \in Operands |-> vec_b(i)])

MatmulPoweredUp ==
    [boot |-> 0, start |-> TRUE, initialized |-> FALSE, index |-> 0,
     pass |-> FALSE, fail |-> FALSE, cycles |-> 0]
\* Slip: the design runs as soon as the boot counter is through.
MatmulBooting == matmul.boot <= BOOT_RESET_CYCLES
MatmulReset == matmul.boot <= BOOT_RESET_CYCLES \/ ~matmul.initialized
MatmulJudging == ~MatmulReset /\ ~matmul.pass /\ ~matmul.fail
MatmulLate == matmul.cycles >= TIMEOUT_CYCLES

\* A result that is stored: nothing before the start, then the product of
\* what the memories hold, or another one if the design is wrong.
Results(p) == {Dot(p.a, p.b)} \cup IF p.wrong THEN {(Dot(p.a, p.b) + 1) % ResultModulus} ELSE {}
ClockedMatmul(ready, stores, data) ==
    [boot |-> IF matmul.boot <= BOOT_RESET_CYCLES THEN matmul.boot + 1 ELSE matmul.boot,
     start |-> MatmulReset \/ (matmul.start /\ ~ready),
     initialized |-> matmul.initialized \/ matmul.index = VectorLength - 1,
     index |-> IF matmul.initialized \/ matmul.index = VectorLength - 1 THEN matmul.index ELSE matmul.index + 1,
     pass |-> ~MatmulReset /\ (matmul.pass \/ (MatmulJudging /\ stores /\ data = EXPECTED)),
     fail |-> ~MatmulReset /\ (matmul.fail \/ (MatmulJudging /\ IF stores THEN data # EXPECTED ELSE MatmulLate)),
     cycles |-> IF MatmulReset THEN 0
                ELSE IF MatmulJudging /\ ~stores /\ ~MatmulLate THEN matmul.cycles + 1 ELSE matmul.cycles]
Seeded(p) ==
    IF matmul.initialized THEN p
    ELSE [p EXCEPT !.a[matmul.index] = vec_a(matmul.index), !.b[matmul.index] = vec_b(matmul.index)]

-----------------------------------------------------------------------------
SelfTestInit ==
    /\ header \in Headers
    /\ wrapper = NoWrapper /\ regs = PoweredUp({}) /\ design = NewDesign({})
    /\ matmul = MatmulPoweredUp
    /\ \E wrong \in BOOLEAN :
         product = [a |-> [i \in Operands |-> 0], b |-> [i \in Operands |-> 0], started |-> FALSE, wrong |-> wrong,
                    stored |-> FALSE, first |-> 0]

GenerateWrapper ==
    /\ wrapper = NoWrapper
    /\ Parses(header) /\ Generates(parse_main_ports(header))
    /\ wrapper' = generate_wrapper(parse_main_ports(header))
    /\ regs' = PoweredUp(LoadPrefixes(parse_main_ports(header)))
    /\ design' = NewDesign(LoadPrefixes(parse_main_ports(header)))
    /\ UNCHANGED <<header, matmul, product>>

ClockWrapper ==
    /\ wrapper # NoWrapper
    /\ \E show \in Shown : regs' = ClockedRegs(show) /\ design' = ClockedDesign(show)
    /\ UNCHANGED <<header, wrapper, matmul, product>>

\* SYS_RSTN resets every register, whatever the design is at.
PressReset ==
    /\ wrapper # NoWrapper /\ regs.boot > 0
    /\ regs' = PoweredUp(wrapper.loads) /\ design' = NewDesign(wrapper.loads)
    /\ UNCHANGED <<header, wrapper, matmul, product>>

ClockMatmul ==
    /\ \E ready, stores \in BOOLEAN : \E data \in Results(product) :
         /\ MatmulReset => ~ready /\ ~stores
         /\ stores => product.started
         /\ matmul' = ClockedMatmul(ready, stores, data)
         /\ product' = [Seeded(product) EXCEPT
                           !.started = ~MatmulReset /\ (@ \/ (matmul.start /\ ready)),
                           !.stored = ~MatmulReset /\ (@ \/ stores),
                           !.first = IF stores /\ ~product.stored THEN data ELSE @]
    /\ UNCHANGED <<header, wrapper, regs, design>>

\* The memories keep what they hold.
PressMatmulReset ==
    /\ matmul.boot > 0
    /\ matmul' = MatmulPoweredUp
    /\ product' = [product EXCEPT !.started = FALSE, !.stored = FALSE]
    /\ UNCHANGED <<header, wrapper, regs, design>>

WrapperNext == GenerateWrapper \/ ClockWrapper \/ PressReset
MatmulNext == ClockMatmul \/ PressMatmulReset
SelfTestNext == WrapperNext \/ MatmulNext

SelfTestSpec == SelfTestInit /\ [][SelfTestNext]_selfTestVars

-----------------------------------------------------------------------------
(* The design that a wrapper starts is started once, has at most one load  *)
(* in flight per port and gets the data of the address it asked for, and   *)
(* gets one acknowledgement per store; at most one lamp is lit, the first  *)
(* one only if the design ended, the other only if it was late.            *)
WrapperServes ==
    wrapper # NoWrapper =>
        /\ design.started <= 1
        /\ \A n \in wrapper.loads :
             /\ Len(design.asked[n]) = (IF regs.pending[n] THEN 1 ELSE 0)
             /\ design.given[n] # <<>> =>
                  design.given[n][2] = data_expr(wrapper.ports, n, design.given[n][1])
        /\ design.unreturned = (IF regs.store_done_pending THEN 1 ELSE 0)
        /\ ~(regs.pass /\ regs.fail)
        /\ regs.pass => design.ended /\ design.started = 1
        /\ regs.fail => regs.cycles = TIMEOUT_CYCLES

\* The product's lamps judge the first result that a started design stored,
\* and a design that multiplies what its memories hold fails only late.
MatmulIsJudged ==
    /\ ~(matmul.pass /\ matmul.fail)
    /\ matmul.pass => product.stored /\ product.first = EXPECTED
    /\ matmul.fail => matmul.cycles = TIMEOUT_CYCLES \/ (product.wrong /\ product.first # EXPECTED)
LampsAreEarned == WrapperServes /\ MatmulIsJudged
=============================================================================
