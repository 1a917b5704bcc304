----------------------------- MODULE DDR3Adapter -----------------------------
(***************************************************************************)
(* The read-only, single-outstanding adapter between a client of the RC    *)
(* memory image and the UberDDR3 user port                                 *)
(* (src/rtl/rc-working/rc_ddr3_adapter.sv).                                *)
(*                                                                         *)
(* A step is one rising clock edge.  An action below is one branch of the  *)
(* adapter's always_ff block: it reads the registers and the input wires   *)
(* as they were before the edge and writes the adapter's registers.  The   *)
(* wires wbAccept, wbAck, wbErr and wbData are registers of the memory     *)
(* controller, which DDR3Transport adds.                                   *)
(***************************************************************************)
EXTENDS Integers

CONSTANTS
  ClientBytes,  (* CLIENT_DATA_WIDTH / 8                                    *)
  Words,        (* number of 16-byte words of the memory image              *)
  Byte,         (* the values of a byte                                     *)
  Memory        (* Memory[w][l]: the byte in lane l of word w               *)

\* DDR_BYTES: the adapter "only implements the audited 128-bit" transport.
LineBytes == 16
Lane == 0 .. LineBytes - 1
Word == 0 .. Words - 1
Address == 0 .. LineBytes * Words - 1
Line == [Lane -> Byte]

ASSUME ClientBytesAssumption == ClientBytes \in 1 .. LineBytes
ASSUME WordsAssumption == Words \in Nat \ {0}
ASSUME ByteAssumption == 0 \in Byte
ASSUME MemoryAssumption == Memory \in [Word -> Line]

VARIABLES
  state,             (* IDLE, WAIT_ACCEPT or WAIT_ACK                      *)
  savedByteAddress,  (* address latched with the request                  *)
  savedLane,         (* its lane, latched beside it                       *)
  respValid,         (* response pulse ...                                *)
  respError,         (* ... its error flag                                *)
  respData,          (* ... and its bytes                                 *)
  wbAccept, wbAck, wbErr, wbData   (* inputs from the controller          *)

adapterRegs == <<state, savedByteAddress, savedLane, respValid, respError, respData>>
wbInputs == <<wbAccept, wbAck, wbErr, wbData>>

WordOf(a) == a \div LineBytes
LaneOf(a) == a % LineBytes

\* A read the adapter forwards: it stays inside one 16-byte line.
Fits(a) == LaneOf(a) <= LineBytes - ClientBytes

\* resp_rdata[lane * 8 +: CLIENT_DATA_WIDTH]: the client's bytes of a line.
Slice(line, lane) == [i \in 0 .. ClientBytes - 1 |-> line[lane + i]]
\* The '0 a rejected request and a reset put on resp_rdata.
ZeroData == [i \in 0 .. ClientBytes - 1 |-> 0]

\* The combinational outputs towards the controller.
WbStb == state = "WAIT_ACCEPT"
WbAddr == WordOf(savedByteAddress)
WbSel == {l \in Lane : l >= savedLane /\ l < savedLane + ClientBytes}

AdapterInit ==
  /\ state = "IDLE"
  /\ savedByteAddress = 0
  /\ savedLane = 0
  /\ respValid = FALSE
  /\ respError = FALSE
  /\ respData = ZeroData

-----------------------------------------------------------------------------
(* The branches of the clocked process. *)

ResetAdapter ==
  /\ state' = "IDLE"
  /\ savedByteAddress' = 0
  /\ savedLane' = 0
  /\ respValid' = FALSE
  /\ respError' = FALSE
  /\ respData' = ZeroData

\* Every other edge first lowers resp_valid; no branch below keeps it high.
NoResponse ==
  /\ respValid' = FALSE
  /\ UNCHANGED <<respError, respData>>

Idle ==
  /\ state = "IDLE"
  /\ NoResponse
  /\ UNCHANGED <<state, savedByteAddress, savedLane>>

\* Slip: a read up to the line's end is refused.
ForwardedShort(a, write) == ~write /\ LaneOf(a) < LineBytes - ClientBytes

\* The requests that become controller reads.
Forwarded(a, write) == ~(write \/ ~Fits(a))

\* A write, or a read that would straddle two lines, is answered locally.
Reject(a, write) ==
  /\ state = "IDLE"
  /\ ~Forwarded(a, write)
  /\ respValid' = TRUE
  /\ respError' = TRUE
  /\ respData' = ZeroData
  /\ UNCHANGED <<state, savedByteAddress, savedLane>>

\* Slip: the lane is not loaded.
SaveAddressOnly(a) == savedByteAddress' = a /\ UNCHANGED savedLane

Save(a) == savedByteAddress' = a /\ savedLane' = LaneOf(a)

Latch(a, write) ==
  /\ state = "IDLE"
  /\ Forwarded(a, write)
  /\ Save(a)
  /\ state' = "WAIT_ACCEPT"
  /\ NoResponse

\* Slips: the request stays on the bus until the completion; the address
\* input is sampled again while the controller stalls.
HoldUntilAck ==
  /\ state' = IF wbAck THEN "WAIT_ACK" ELSE state
  /\ UNCHANGED <<savedByteAddress, savedLane>>
ResampleWhileStalled ==
  /\ state' = IF wbAccept THEN "WAIT_ACK" ELSE state
  /\ savedByteAddress' \in Address
  /\ UNCHANGED savedLane

HoldUntilAccept ==
  /\ state' = IF wbAccept THEN "WAIT_ACK" ELSE state
  /\ UNCHANGED <<savedByteAddress, savedLane>>

AwaitAccept ==
  /\ state = "WAIT_ACCEPT"
  /\ HoldUntilAccept
  /\ NoResponse

AwaitAck ==
  /\ state = "WAIT_ACK"
  /\ ~wbAck
  /\ NoResponse
  /\ UNCHANGED <<state, savedByteAddress, savedLane>>

\* Slips: a failed read completes without a response; the adapter answers and
\* stays in WAIT_ACK.
ReplyUnlessError ==
  respValid' = ~wbErr /\ respError' = FALSE /\ state' = "IDLE"
ReplyAndStay ==
  respValid' = TRUE /\ respError' = wbErr /\ UNCHANGED state

Reply ==
  respValid' = TRUE /\ respError' = wbErr /\ state' = "IDLE"

Respond ==
  /\ state = "WAIT_ACK"
  /\ wbAck
  /\ Reply
  /\ respData' = Slice(wbData, savedLane)
  /\ UNCHANGED <<savedByteAddress, savedLane>>

\* An edge on which the client raises no request.
Unasked == Idle \/ AwaitAccept \/ AwaitAck \/ Respond
=============================================================================
