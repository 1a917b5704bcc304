---------------------------- MODULE DDR3Transport ----------------------------
(***************************************************************************)
(* The adapter of DDR3Adapter between one client and a memory controller,  *)
(* all on one clock and one reset, as sim/rc-working/rc_ddr3_transport_tb  *)
(* connects them.                                                          *)
(*                                                                         *)
(* The controller stalls a request for any number of edges (the test       *)
(* bench's stall_cycles), accepts it, and completes it on a later edge.    *)
(* The test bench completes on the very next edge and never faults; a real *)
(* controller may take longer (Latency) and may fail some words            *)
(* (BadWords), which the adapter's wb_ack wait and wb_err input are for.   *)
(*                                                                         *)
(* The client raises a one-edge request and waits for its response before  *)
(* it raises another (start_read and expect_response).                     *)
(***************************************************************************)
EXTENDS DDR3Adapter

CONSTANTS
  BadWords,  (* words whose read the controller completes with wb_err      *)
  None,      (* the client waits for nothing                               *)
  Silent,    (* no response, as the read service names it                  *)
  Fault      (* an error response, as the read service names it            *)

Request == [address : Address, write : BOOLEAN]

ASSUME BadWordsAssumption == BadWords \subseteq Word
ASSUME NoneAssumption == None \notin Request \cup Address

VARIABLES
  pending,      (* the controller holds an accepted read                   *)
  pendingAddr,  (* its word                                                *)
  asked         (* what the client waits for: None or its request          *)

controllerRegs == <<pending, pendingAddr, wbInputs>>
vars == <<adapterRegs, controllerRegs, asked>>

ZeroLine == [l \in Lane |-> 0]

Init ==
  /\ AdapterInit
  /\ wbAccept = FALSE
  /\ wbAck = FALSE
  /\ wbErr = FALSE
  /\ wbData = ZeroLine
  /\ pending = FALSE
  /\ pendingAddr = 0
  /\ asked = None

-----------------------------------------------------------------------------
(* The controller, one action per branch of its clocked process.  Every    *)
(* branch lowers the three pulses it does not raise.                       *)

Drive(accept, ack, err) == wbAccept' = accept /\ wbAck' = ack /\ wbErr' = err

ResetController ==
  /\ Drive(FALSE, FALSE, FALSE)
  /\ pending' = FALSE
  /\ wbData' = ZeroLine
  /\ UNCHANGED pendingAddr

\* No request on the bus, or one the controller leaves stalled.
Stall ==
  /\ ~pending
  /\ Drive(FALSE, FALSE, FALSE)
  /\ UNCHANGED <<wbData, pending, pendingAddr>>

Grant ==
  /\ ~pending
  /\ WbStb
  /\ Drive(TRUE, FALSE, FALSE)
  /\ pendingAddr' = WbAddr
  /\ pending' = TRUE
  /\ UNCHANGED wbData

Complete ==
  /\ pending
  /\ Drive(FALSE, TRUE, pendingAddr \in BadWords)
  /\ wbData' = Memory[pendingAddr]
  /\ pending' = FALSE
  /\ UNCHANGED pendingAddr

\* The read is still on its way through the memory.
Latency ==
  /\ pending
  /\ Drive(FALSE, FALSE, FALSE)
  /\ UNCHANGED <<wbData, pending, pendingAddr>>

Controller == Stall \/ Grant \/ Complete \/ Latency

-----------------------------------------------------------------------------
(* The client, and the clock edge that moves all three. *)

\* The client is free to ask: nothing outstanding, or its response is here.
MayAsk == asked = None \/ respValid

Ask(req) ==
  /\ MayAsk
  /\ asked' = req
  /\ \/ Latch(req.address, req.write)
     \/ Reject(req.address, req.write)

Listen ==
  /\ asked' = IF respValid THEN None ELSE asked
  /\ Unasked

Edge == (Listen \/ \E req \in Request : Ask(req)) /\ Controller

Reset == ResetAdapter /\ ResetController /\ asked' = None

Next == Edge \/ Reset

\* The clock runs; the controller neither stalls nor delays a read for ever.
Fairness ==
  /\ WF_vars(Edge)
  /\ WF_vars(Listen /\ Grant)
  /\ WF_vars(Listen /\ Complete)

SafeSpec == Init /\ [][Next]_vars
Spec == SafeSpec /\ Fairness

-----------------------------------------------------------------------------
(* Correctness. *)

TypeOK ==
  /\ state \in {"IDLE", "WAIT_ACCEPT", "WAIT_ACK"}
  /\ savedByteAddress \in Address
  /\ savedLane \in Lane
  /\ respValid \in BOOLEAN
  /\ respError \in BOOLEAN
  /\ respData \in [0 .. ClientBytes - 1 -> Byte]
  /\ wbAccept \in BOOLEAN
  /\ wbAck \in BOOLEAN
  /\ wbErr \in BOOLEAN
  /\ wbData \in Line
  /\ pending \in BOOLEAN
  /\ pendingAddr \in Word
  /\ asked \in Request \cup {None}

\* The adapter never drives a request while the controller holds a read,
\* except on the edge on which the acceptance is still on its way to it
\* (the test bench's $fatal "issued a second read").
SingleOutstanding == pending /\ WbStb => wbAccept

\* The bytes a client reads at a readable address.
BytesAsked(a) == Slice(Memory[WordOf(a)], LaneOf(a))

\* A good response carries the bytes at the address its client waits for,
\* whatever was outstanding before a reset and however long the memory took.
ClientSeesItsBytes ==
  respValid /\ ~respError =>
    asked # None /\ ~asked.write /\ respData = BytesAsked(asked.address)

\* An error response answers a write, a read across a line or a failed word:
\* a readable request is never refused.
ErrorsAreEarned ==
  respValid /\ respError =>
    /\ asked # None
    /\ asked.write \/ ~Fits(asked.address) \/ WordOf(asked.address) \in BadWords

\* The two sides of an answer: right bytes, or an error that is earned.
AnswersAreRight == ClientSeesItsBytes /\ ErrorsAreEarned

\* Whatever the controller sees or holds is the read the client waits for,
\* with exactly its lanes selected: rejected requests never reach it.
ControllerSeesOnlyReads ==
  /\ WbStb \/ pending =>
       asked # None /\ ~asked.write /\ Fits(asked.address)
  /\ WbStb => /\ WbAddr = WordOf(asked.address)
              /\ WbSel = {l \in Lane : l - LaneOf(asked.address) \in 0 .. ClientBytes - 1}
  /\ pending => pendingAddr = WordOf(asked.address)

\* A request on the bus keeps its address and its lanes until it is accepted
\* (the test bench's $fatal "changed address or lane mask").
StableUnderBackpressure == [][WbStb /\ WbStb' => UNCHANGED <<WbAddr, WbSel>>]_vars

\* A request gets its response (or is withdrawn by a reset).
Answered == asked # None ~> respValid \/ asked = None

\* The transport implements the read service.  The outstanding read is the
\* one in the adapter's registers.
Service == INSTANCE DDR3ReadService WITH
  Contents <- [a \in {b \in Address : Fits(b)} |-> BytesAsked(a)],
  request <- IF state = "IDLE" THEN None ELSE savedByteAddress,
  response <- IF ~respValid THEN Silent ELSE IF respError THEN Fault ELSE respData

ImplementsReadService == Service!Spec
=============================================================================
