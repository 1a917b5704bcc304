------------------------------- MODULE DDR3Proofs -------------------------------
(***************************************************************************)
(* Proofs about the memory in DDR3.  DDR3Transport: for every image, every *)
(* client width up to a line, every set of failing words, and every stall  *)
(* and latency.  WorkingImage and DDR3Mapping: for all programs, tensors,  *)
(* alignments and designs, supposing only that the corpus and the globals  *)
(* tell programs apart.                                                    *)
(***************************************************************************)
EXTENDS DDR3Transport, DDR3Mapping, SequenceTheorems, FiniteSetTheorems, Loops

(***************************************************************************)
(* The inductive invariant says how the three automata move together.      *)
(***************************************************************************)

\* The client waits exactly while the adapter is busy or is answering.
WaitingInv ==
  /\ respValid => state = "IDLE"
  /\ asked = None <=> state = "IDLE" /\ ~respValid

\* The adapter's registers hold the readable request the client waits for.
LatchedInv ==
  state # "IDLE" =>
    /\ ~asked.write
    /\ Fits(asked.address)
    /\ savedByteAddress = asked.address
    /\ savedLane = LaneOf(asked.address)

\* The controller holds a read only for a busy adapter, and the acceptance
\* pulse travels to the adapter while it does.
HeldInv ==
  /\ wbAccept => pending /\ state = "WAIT_ACCEPT"
  /\ pending => /\ state # "IDLE"
                /\ state = "WAIT_ACCEPT" => wbAccept
                /\ pendingAddr = WordOf(savedByteAddress)

\* A completion pulse finds the adapter waiting for that very word.
CompletedInv ==
  wbAck => /\ state = "WAIT_ACK"
           /\ ~pending
           /\ wbData = Memory[WordOf(savedByteAddress)]
           /\ wbErr = (WordOf(savedByteAddress) \in BadWords)

IInv ==
  /\ TypeOK
  /\ WaitingInv
  /\ LatchedInv
  /\ HeldInv
  /\ CompletedInv
  /\ ClientSeesItsBytes
  /\ ErrorsAreEarned

-----------------------------------------------------------------------------
(* Arithmetic of addresses: the only facts about \div and % that are used. *)

\* Every address of the image is a lane of one of its words.
LEMMA AddressParts ==
  ASSUME NEW a \in Address
  PROVE  WordOf(a) \in Word /\ LaneOf(a) \in Lane
BY WordsAssumption DEF Address, Word, Lane, WordOf, LaneOf, LineBytes

\* The client's bytes of a line, from a lane at which they fit.
LEMMA SliceType ==
  ASSUME NEW line \in Line, NEW a \in Address, Fits(a)
  PROVE  Slice(line, LaneOf(a)) \in [0 .. ClientBytes - 1 -> Byte]
BY AddressParts, ClientBytesAssumption DEF Slice, Line, Lane, Fits, LineBytes

\* The zeros of a reset and of a rejected request are client bytes.
LEMMA ZeroType ==
  /\ ZeroData \in [0 .. ClientBytes - 1 -> Byte]
  /\ ZeroLine \in Line
  /\ 0 \in Address /\ 0 \in Lane /\ 0 \in Word
BY ByteAssumption, WordsAssumption
   DEF ZeroData, ZeroLine, Line, Lane, Address, Word, LineBytes

-----------------------------------------------------------------------------
(* Type correctness. *)

\* The controller's registers keep their types on every edge.
LEMMA ControllerType ==
  ASSUME TypeOK, Controller
  PROVE  /\ wbAccept' \in BOOLEAN /\ wbAck' \in BOOLEAN /\ wbErr' \in BOOLEAN
         /\ wbData' \in Line /\ pending' \in BOOLEAN /\ pendingAddr' \in Word
<1>1. CASE Stall \/ Latency
  BY <1>1 DEF TypeOK, Stall, Latency, Drive
<1>2. CASE Grant
  <2>1. WbAddr \in Word
    BY AddressParts DEF TypeOK, WbAddr
  <2> QED
    BY <1>2, <2>1 DEF TypeOK, Grant, Drive
<1>3. CASE Complete
  <2>1. wbErr' \in BOOLEAN
    <3>1. wbErr' = (pendingAddr \in BadWords)
      BY <1>3 DEF Complete, Drive
    <3>2. (pendingAddr \in BadWords) \in BOOLEAN
      OBVIOUS
    <3> QED
      BY <3>1, <3>2, Zenon
  <2> QED
    BY <1>3, <2>1, MemoryAssumption DEF TypeOK, Complete, Drive
<1> QED
  BY <1>1, <1>2, <1>3 DEF Controller

\* So do the adapter's, when the client listens.  The lane of an outstanding
\* read is one at which the client's bytes fit.
LEMMA UnaskedType ==
  ASSUME IInv, Unasked
  PROVE  /\ state' \in {"IDLE", "WAIT_ACCEPT", "WAIT_ACK"}
         /\ savedByteAddress' \in Address /\ savedLane' \in Lane
         /\ respValid' \in BOOLEAN /\ respError' \in BOOLEAN
         /\ respData' \in [0 .. ClientBytes - 1 -> Byte]
<1>1. CASE Idle \/ AwaitAccept \/ AwaitAck
  BY <1>1 DEF IInv, TypeOK, Idle, AwaitAccept, HoldUntilAccept, AwaitAck, NoResponse
<1>2. CASE Respond
  <2>1. Fits(savedByteAddress) /\ savedLane = LaneOf(savedByteAddress)
    BY <1>2 DEF IInv, LatchedInv, Respond, Reply
  <2>2. Slice(wbData, savedLane) \in [0 .. ClientBytes - 1 -> Byte]
    BY <2>1, SliceType DEF IInv, TypeOK
  <2> QED
    BY <1>2, <2>2 DEF IInv, TypeOK, Respond, Reply
<1> QED
  BY <1>1, <1>2 DEF Unasked

\* Every step keeps every register in its type, given the inductive invariant.
LEMMA NextType == IInv /\ [Next]_vars => TypeOK'
<1> SUFFICES ASSUME IInv, [Next]_vars PROVE TypeOK'
  OBVIOUS
<1>1. CASE Reset
  BY <1>1, ZeroType
     DEF IInv, TypeOK, Reset, ResetAdapter, ResetController, Drive
<1>2. ASSUME NEW req \in Request, Ask(req), Controller PROVE TypeOK'
  <2>1. CASE Latch(req.address, req.write)
    <3>1. req.address \in Address /\ LaneOf(req.address) \in Lane
      BY AddressParts DEF Request
    <3> QED
      BY <1>2, <2>1, <3>1, ControllerType DEF IInv, TypeOK, Ask, Latch, Forwarded, Save, NoResponse
  <2>2. CASE Reject(req.address, req.write)
    BY <1>2, <2>2, ZeroType, ControllerType DEF IInv, TypeOK, Ask, Reject, Forwarded
  <2> QED
    BY <1>2, <2>1, <2>2 DEF Ask
<1>3. CASE Listen /\ Controller
  BY <1>3, ControllerType, UnaskedType DEF IInv, TypeOK, Listen
<1>4. CASE UNCHANGED vars
  BY <1>4 DEF IInv, TypeOK, vars, adapterRegs, controllerRegs, wbInputs
<1> QED
  BY <1>1, <1>2, <1>3, <1>4 DEF Next, Edge

-----------------------------------------------------------------------------
(* The inductive invariant. *)

\* After a power-on reset nothing is outstanding, held or completed.
LEMMA InitIInv == Init => IInv
BY ZeroType, NoneAssumption
   DEF Init, AdapterInit, IInv, TypeOK, WaitingInv, LatchedInv, HeldInv,
       CompletedInv, ClientSeesItsBytes, ErrorsAreEarned

\* Every clock edge, of a reset, a request or a listening client, keeps it.
LEMMA NextIInv == IInv /\ [Next]_vars => IInv'
<1> SUFFICES ASSUME IInv, [Next]_vars PROVE IInv'
  OBVIOUS
<1> USE DEF IInv
<1>1. TypeOK'
  BY NextType
<1>2. CASE Reset
  BY <1>1, <1>2 DEF Reset, ResetAdapter, ResetController, Drive, WaitingInv,
     LatchedInv, HeldInv, CompletedInv, ClientSeesItsBytes, ErrorsAreEarned
<1>3. ASSUME NEW req \in Request, Ask(req), Controller PROVE IInv'
  <2>1. state = "IDLE" /\ ~pending /\ ~wbAck /\ ~WbStb
    BY <1>3 DEF Ask, Latch, Forwarded, Save, Reject, HeldInv, CompletedInv, WbStb
  <2>2. UNCHANGED pending /\ ~wbAccept' /\ ~wbAck'
    BY <1>3, <2>1 DEF Controller, Stall, Grant, Complete, Latency, Drive
  <2>3. asked' = req /\ req # None
    BY <1>3, NoneAssumption DEF Ask
  <2>4. CASE Latch(req.address, req.write)
    BY <1>1, <2>1, <2>2, <2>3, <2>4 DEF Latch, Forwarded, Save, NoResponse, WaitingInv,
       LatchedInv, HeldInv, CompletedInv, ClientSeesItsBytes, ErrorsAreEarned
  <2>5. CASE Reject(req.address, req.write)
    BY <1>1, <2>1, <2>2, <2>3, <2>5 DEF Reject, Forwarded, WaitingInv,
       LatchedInv, HeldInv, CompletedInv, ClientSeesItsBytes, ErrorsAreEarned
  <2> QED
    BY <1>3, <2>4, <2>5 DEF Ask
<1>4. CASE Listen /\ Controller
  <2>1. CASE Idle
    <3>1. ~pending /\ ~wbAck /\ ~WbStb
      BY <2>1 DEF Idle, HeldInv, CompletedInv, WbStb
    <3>2. UNCHANGED pending /\ ~wbAccept' /\ ~wbAck'
      BY <1>4, <3>1 DEF Controller, Stall, Grant, Complete, Latency, Drive
    <3> QED
      BY <1>1, <1>4, <2>1, <3>1, <3>2 DEF Listen, Idle, NoResponse, WaitingInv,
         LatchedInv, HeldInv, CompletedInv, ClientSeesItsBytes, ErrorsAreEarned
  <2>2. CASE AwaitAccept
    <3>1. UNCHANGED <<asked, savedByteAddress, savedLane>> /\ ~respValid'
      BY <1>4, <2>2 DEF Listen, AwaitAccept, HoldUntilAccept, NoResponse, WaitingInv
    <3>2. WaitingInv' /\ LatchedInv' /\ ClientSeesItsBytes' /\ ErrorsAreEarned'
      BY <2>2, <3>1 DEF AwaitAccept, HoldUntilAccept, WaitingInv, LatchedInv,
         ClientSeesItsBytes, ErrorsAreEarned
    <3>3. HeldInv' /\ CompletedInv'
      BY <1>4, <2>2, <3>1 DEF Controller, Stall, Grant, Complete, Latency, Drive,
         AwaitAccept, HoldUntilAccept, HeldInv, CompletedInv, WbAddr, WbStb
    <3> QED
      BY <1>1, <3>2, <3>3
  <2>3. CASE AwaitAck
    <3>1. UNCHANGED <<asked, savedByteAddress, savedLane, state>> /\ ~respValid'
      BY <1>4, <2>3 DEF Listen, AwaitAck, NoResponse, WaitingInv
    <3>2. WaitingInv' /\ LatchedInv' /\ ClientSeesItsBytes' /\ ErrorsAreEarned'
      BY <2>3, <3>1 DEF AwaitAck, WaitingInv, LatchedInv,
         ClientSeesItsBytes, ErrorsAreEarned
    <3>3. HeldInv' /\ CompletedInv'
      BY <1>4, <2>3, <3>1 DEF Controller, Stall, Grant, Complete, Latency, Drive,
         AwaitAck, HeldInv, CompletedInv, WbStb
    <3> QED
      BY <1>1, <3>2, <3>3
  <2>4. CASE Respond
    <3>1. ~pending /\ ~WbStb /\ ~respValid
      BY <2>4 DEF Respond, Reply, CompletedInv, WbStb, WaitingInv
    <3>2. UNCHANGED pending /\ ~wbAccept' /\ ~wbAck'
      BY <1>4, <3>1 DEF Controller, Stall, Grant, Complete, Latency, Drive
    <3>3. UNCHANGED asked /\ asked # None
      BY <1>4, <2>4, <3>1 DEF Listen, Respond, Reply, WaitingInv
    <3> QED
      BY <1>1, <2>4, <3>1, <3>2, <3>3 DEF Respond, Reply, WaitingInv, LatchedInv, HeldInv,
         CompletedInv, ClientSeesItsBytes, ErrorsAreEarned, BytesAsked
  <2> QED
    BY <1>4, <2>1, <2>2, <2>3, <2>4 DEF Listen, Unasked
<1>5. CASE UNCHANGED vars
  BY <1>1, <1>5 DEF vars, adapterRegs, controllerRegs, wbInputs, WaitingInv,
     LatchedInv, HeldInv, CompletedInv, ClientSeesItsBytes, ErrorsAreEarned
<1> QED
  BY <1>2, <1>3, <1>4, <1>5 DEF Next, Edge

\* So every reachable state of the transport satisfies it.
LEMMA InductiveInvariant == Spec => []IInv
<1> QED
  BY InitIInv, NextIInv, PTL DEF Spec, SafeSpec

-----------------------------------------------------------------------------
(* What follows from it. *)

\* Every register keeps its type.
THEOREM TypeCorrect == Spec => []TypeOK
<1>1. IInv => TypeOK
  BY DEF IInv
<1> QED
  BY <1>1, InductiveInvariant, PTL

\* The adapter never drives a request at a controller that holds a read,
\* however long the controller stalls and the memory takes.
THEOREM OneReadOutstanding == Spec => []SingleOutstanding
<1>1. IInv => SingleOutstanding
  BY DEF IInv, HeldInv, SingleOutstanding, WbStb
<1> QED
  BY <1>1, InductiveInvariant, PTL

\* A good response carries the bytes at the address the client waits for,
\* and a readable request of a working word is never answered with an error.
THEOREM ClientGetsItsBytes == Spec => []AnswersAreRight
<1>1. IInv => AnswersAreRight
  BY DEF IInv, AnswersAreRight
<1> QED
  BY <1>1, InductiveInvariant, PTL

\* The controller sees readable requests only, and the one the client waits for.
THEOREM RejectedNeverForwarded == Spec => []ControllerSeesOnlyReads
<1>1. ASSUME IInv PROVE ControllerSeesOnlyReads
  <2>1. WbStb \/ pending => asked # None /\ ~asked.write /\ Fits(asked.address)
    BY <1>1 DEF IInv, WaitingInv, LatchedInv, HeldInv, WbStb
  <2>2. pending => pendingAddr = WordOf(asked.address)
    BY <1>1 DEF IInv, LatchedInv, HeldInv
  <2>3. ASSUME WbStb
        PROVE  /\ WbAddr = WordOf(asked.address)
               /\ WbSel = {l \in Lane : l - LaneOf(asked.address) \in 0 .. ClientBytes - 1}
    <3>1. savedByteAddress = asked.address /\ savedLane = LaneOf(asked.address)
      BY <1>1, <2>3 DEF IInv, LatchedInv, WbStb
    <3>2. savedLane \in Int /\ ClientBytes \in Int
      BY <1>1, ClientBytesAssumption DEF IInv, TypeOK, Lane
    <3>3. \A l \in Lane : l >= savedLane /\ l < savedLane + ClientBytes
                           <=> l - savedLane \in 0 .. ClientBytes - 1
      BY <3>2 DEF Lane
    <3> QED
      BY <3>1, <3>3 DEF WbAddr, WbSel
  <2> QED
    BY <2>1, <2>2, <2>3 DEF ControllerSeesOnlyReads
<1> QED
  BY <1>1, InductiveInvariant, PTL

\* A request on the bus is the same request until the controller accepts it.
THEOREM BackpressureStable == Spec => StableUnderBackpressure
<1>1. IInv /\ [Next]_vars => [WbStb /\ WbStb' => UNCHANGED <<WbAddr, WbSel>>]_vars
  <2> SUFFICES ASSUME IInv, Next, WbStb, WbStb'
               PROVE  UNCHANGED <<WbAddr, WbSel>>
    OBVIOUS
  <2>1. UNCHANGED <<savedByteAddress, savedLane>>
    BY DEF Next, Edge, Reset, ResetAdapter, Listen, Unasked, Idle, AwaitAccept, HoldUntilAccept,
       AwaitAck, Respond, Reply, Ask, Latch, Forwarded, Save, Reject, WbStb
  <2> QED
    BY <2>1 DEF WbAddr, WbSel
<1> QED
  BY <1>1, InductiveInvariant, PTL DEF StableUnderBackpressure, Spec, SafeSpec

\* The transport implements the read service: every edge takes a read, refuses
\* a request, answers the outstanding read, waits, or is a reset.
THEOREM TransportIsAReadService == Spec => Service!Safe
<1> DEFINE request == IF state = "IDLE" THEN None ELSE savedByteAddress
           response == IF ~respValid THEN Silent ELSE IF respError THEN Fault ELSE respData
<1>1. Init => Service!Init
  BY DEF Init, AdapterInit, Service!Init
<1>2. ASSUME IInv, [Next]_vars PROVE [Service!Next]_(Service!serviceVars)
  <2>1. CASE Reset
    BY <2>1 DEF Reset, ResetAdapter, Service!Next, Service!Withdraw
  <2>2. ASSUME NEW req \in Request, Ask(req) PROVE [Service!Next]_(Service!serviceVars)
    <3>1. CASE Latch(req.address, req.write)
      <4>1. req.address \in Service!Readable
        BY <3>1 DEF Latch, Forwarded, Save, Request, Service!Readable
      <4>2. Service!Take(req.address)
        BY <3>1 DEF Latch, Forwarded, Save, NoResponse, Service!Take
      <4> QED
        BY <4>1, <4>2 DEF Service!Next
    <3>2. CASE Reject(req.address, req.write)
      BY <3>2 DEF Reject, Forwarded, Service!Next, Service!Refuse
    <3> QED
      BY <2>2, <3>1, <3>2 DEF Ask
  <2>3. CASE Idle \/ AwaitAccept \/ AwaitAck
    <3>1. Service!Wait
      BY <2>3 DEF Idle, AwaitAccept, HoldUntilAccept, AwaitAck, NoResponse, Service!Wait
    <3> QED
      BY <3>1 DEF Service!Next
  <2>4. CASE Respond
    <3>1. savedByteAddress \in Address /\ Fits(savedByteAddress)
          /\ savedByteAddress # None /\ savedLane = LaneOf(savedByteAddress)
      BY <1>2, <2>4, NoneAssumption DEF IInv, TypeOK, LatchedInv, Respond, Reply
    <3>2. Service!Answer
      BY <1>2, <2>4, <3>1 DEF IInv, CompletedInv, Respond, Reply, BytesAsked, Service!Answer
    <3> QED
      BY <3>2 DEF Service!Next
  <2>5. CASE UNCHANGED vars
    BY <2>5 DEF vars, adapterRegs, Service!serviceVars
  <2> QED
    BY <1>2, <2>1, <2>2, <2>3, <2>4, <2>5 DEF Next, Edge, Listen, Unasked
<1> QED
  BY <1>1, <1>2, InductiveInvariant, PTL DEF Spec, SafeSpec, Service!Safe
-----------------------------------------------------------------------------

(***************************************************************************)
(* The image: what the packer makes of a program's tensors.                *)
(***************************************************************************)

LEMMA AlignedIs ==
  ASSUME NEW n \in Nat
  PROVE  Aligned(n) \in Nat /\ n <= Aligned(n) /\ Aligned(n) % Alignment = 0
  <1> DEFINE r == n + Alignment - 1
  <1>0. Alignment \in Nat \ {0} /\ r \in Nat
    BY ImageAssumption
  <1>1. PICK q \in Nat, m \in 0 .. Alignment - 1 : q = r \div Alignment /\ r = Alignment * q + m
    <2> HIDE DEF r
    <2>1. QED
      BY <1>0, Quotients
  <1>2. Aligned(n) = q * Alignment /\ q * Alignment = Alignment * q + 0 /\ Alignment * q \in Nat
    BY <1>0, <1>1 DEF Aligned
  <1>3. (Alignment * q + 0) % Alignment = 0
    BY <1>0, Digits, 0 \in 0 .. Alignment - 1
  <1>4. n <= Alignment * q
    BY <1>0, <1>1, <1>2
  <1>5. QED
    BY <1>2, <1>3, <1>4

(* Sorting loses no tensor and makes none.                                 *)
LEMMA SortedIs ==
  ASSUME NEW p \in Programs, NEW N \in Nat, N = Len(Tensors(p))
  PROVE  \E f \in [1 .. N -> 1 .. N] :
           /\ Sorted(p) = [n \in 1 .. N |-> Tensors(p)[f[n]]]
           /\ \A m, n \in 1 .. N : f[m] = f[n] => m = n
           /\ \A k \in 1 .. N : \E n \in 1 .. N : f[n] = k
  <1> DEFINE f == CHOOSE f \in Bijection(1 .. N, 1 .. N) : InOrder(Tensors(p), f)
  <1>1. f \in Bijection(1 .. N, 1 .. N)
    <2>1. \E g \in Bijection(1 .. N, 1 .. N) : InOrder(Tensors(p), g)
      BY TensorsAssumption
    <2>2. QED
      BY <2>1, Zenon
  <1>2. /\ f \in [1 .. N -> 1 .. N]
        /\ \A m, n \in 1 .. N : f[m] = f[n] => m = n
        /\ \A k \in 1 .. N : \E n \in 1 .. N : f[n] = k
    <2> HIDE DEF f
    <2>1. f \in [1 .. N -> 1 .. N] /\ IsInjective(f) /\ \A k \in 1 .. N : \E n \in 1 .. N : f[n] = k
      BY <1>1, Zenon DEF Bijection, Injection, Surjection
    <2>2. QED
      BY <2>1 DEF IsInjective
  <1>3. Sorted(p) = [n \in 1 .. N |-> Tensors(p)[f[n]]]
    <2>1. Sorted(p) = [n \in 1 .. Len(Tensors(p)) |-> Tensors(p)[
                (CHOOSE g \in Bijection(1 .. Len(Tensors(p)), 1 .. Len(Tensors(p))) :
                    InOrder(Tensors(p), g))[n]]]
      BY DEF Sorted, SortOrder
    <2>2. QED
      BY <2>1, Zenon
  <1>4. QED
    BY <1>2, <1>3, Zenon

Segment == [name : {"state", "constants"} \X STRING, dtype : STRING, shape : Seq(Nat),
            offset : Nat, length : Nat, payload : Seq(Nat)]
Layout == [bytes : Seq(Nat), segments : Seq(Segment)]

\* The segment is the tensor's, and the bytes at it are the tensor's.
Holds(bytes, s, t) ==
  /\ s.name = Named(t) /\ s.dtype = t.dtype /\ s.shape = t.shape
  /\ s.payload = t.payload /\ s.length = Len(t.payload)
  /\ s.offset % Alignment = 0
  /\ s.offset + s.length <= Len(bytes)
  /\ \A i \in 1 .. s.length : bytes[s.offset + i] = t.payload[i]

LEMMA Joined ==
  ASSUME NEW a \in Seq(Nat), NEW b \in Seq(Nat)
  PROVE  /\ a \o b \in Seq(Nat) /\ Len(a \o b) = Len(a) + Len(b)
         /\ \A i \in 1 .. Len(a) : (a \o b)[i] = a[i]
         /\ \A i \in 1 .. Len(b) : (a \o b)[Len(a) + i] = b[i]
  <1> PICK m \in Nat, n \in Nat : m = Len(a) /\ n = Len(b)
    BY LenProperties
  <1>1. /\ a \o b \in Seq(Nat) /\ Len(a \o b) = m + n
        /\ \A i \in 1 .. m + n : (a \o b)[i] = IF i <= m THEN a[i] ELSE b[i - m]
    BY ConcatProperties
  <1>2. ASSUME NEW i \in 1 .. n PROVE (a \o b)[m + i] = b[i]
    <2>1. m + i \in 1 .. m + n /\ ~(m + i <= m) /\ (m + i) - m = i
      OBVIOUS
    <2>2. QED
      BY <1>1, <2>1
  <1>3. QED
    BY <1>1, <1>2

(* One tensor more: what is there stays, and the tensor comes after it.    *)
LEMMA PackTensorIs ==
  ASSUME NEW x \in Layout, NEW t \in Tensor, NEW y, y = PackTensor(x, t),
         NEW n \in Nat, n = Len(x.segments)
  PROVE  /\ y \in Layout
         /\ Len(y.segments) = n + 1
         /\ \A k \in 1 .. n : y.segments[k] = x.segments[k]
         /\ Holds(y.bytes, y.segments[n + 1], t)
         /\ Len(x.bytes) <= y.segments[n + 1].offset
         /\ Len(x.bytes) <= Len(y.bytes)
         /\ \A i \in 1 .. Len(x.bytes) : y.bytes[i] = x.bytes[i]
  <1> DEFINE offset == Aligned(Len(x.bytes))
             gap == offset - Len(x.bytes)
             padding == [k \in 1 .. gap |-> 0]
             s == [name |-> Named(t), dtype |-> t.dtype, shape |-> t.shape,
                   offset |-> offset, length |-> Len(t.payload), payload |-> t.payload]
             low == x.bytes \o padding
  <1>0. x.bytes \in Seq(Nat) /\ x.segments \in Seq(Segment) /\ t.payload \in Seq(Nat)
    BY DEF Layout, Tensor
  <1>1. Len(x.bytes) \in Nat /\ Len(t.payload) \in Nat
    BY <1>0, LenProperties
  <1>2. offset \in Nat /\ Len(x.bytes) <= offset /\ offset % Alignment = 0 /\ gap \in Nat
    <2>1. offset \in Nat /\ Len(x.bytes) <= offset /\ offset % Alignment = 0
      BY <1>1, AlignedIs, Zenon
    <2> HIDE DEF offset
    <2>2. QED
      BY <2>1, <1>1
  <1>3. y = [bytes |-> low \o t.payload, segments |-> Append(x.segments, s)]
    BY Zenon DEF PackTensor
  <1>4. s \in Segment
    BY <1>0, <1>1, <1>2 DEF Segment, Tensor, Named
  <1>5. padding \in Seq(Nat) /\ Len(padding) = gap
    BY <1>2, IsASeq
  <1>6. /\ low \in Seq(Nat) /\ Len(low) = offset
        /\ \A i \in 1 .. Len(x.bytes) : low[i] = x.bytes[i]
    <2> HIDE DEF padding, offset, gap
    <2>0. /\ x.bytes \in Seq(Nat) /\ padding \in Seq(Nat) /\ Len(x.bytes) \in Nat /\ gap \in Nat
          /\ gap = Len(padding)
      BY <1>0, <1>1, <1>2, <1>5
    <2>1. /\ low \in Seq(Nat) /\ Len(low) = Len(x.bytes) + gap
          /\ \A i \in 1 .. Len(x.bytes) : low[i] = x.bytes[i]
      <3>1. /\ low \in Seq(Nat) /\ Len(low) = Len(x.bytes) + Len(padding)
            /\ \A i \in 1 .. Len(x.bytes) : low[i] = x.bytes[i]
        BY <2>0, Joined, Zenon DEF low
      <3>2. QED
        BY <2>0, <3>1
    <2>2. Len(x.bytes) + gap = offset
      BY <1>1, <1>2 DEF gap
    <2>3. QED
      BY <2>1, <2>2
  <1>7. /\ y.bytes \in Seq(Nat) /\ Len(y.bytes) = offset + Len(t.payload)
        /\ \A i \in 1 .. offset : y.bytes[i] = low[i]
        /\ \A i \in 1 .. Len(t.payload) : y.bytes[offset + i] = t.payload[i]
    <2> HIDE DEF low, offset, s
    <2>1. y.bytes = low \o t.payload
      BY <1>3
    <2>2. /\ low \in Seq(Nat) /\ t.payload \in Seq(Nat) /\ offset \in Nat /\ Len(t.payload) \in Nat
          /\ offset = Len(low)
      BY <1>0, <1>1, <1>2, <1>6
    <2>3. PICK a \in Seq(Nat), c \in Seq(Nat), k \in Nat, l \in Nat :
            a = low /\ c = t.payload /\ k = offset /\ l = Len(t.payload) /\ k = Len(a) /\ l = Len(c)
      BY <2>2
    <2>4. /\ a \o c \in Seq(Nat) /\ Len(a \o c) = Len(a) + Len(c)
          /\ \A i \in 1 .. Len(a) : (a \o c)[i] = a[i]
          /\ \A i \in 1 .. Len(c) : (a \o c)[Len(a) + i] = c[i]
      BY Joined, Zenon
    <2>5. QED
      BY <2>1, <2>3, <2>4
  <1>8. /\ y.segments \in Seq(Segment) /\ Len(y.segments) = n + 1
        /\ \A k \in 1 .. n : y.segments[k] = x.segments[k]
        /\ y.segments[n + 1] = s
    <2> HIDE DEF s, low
    <2>1. y.segments = Append(x.segments, s)
      BY <1>3
    <2>2. QED
      BY <2>1, <1>0, <1>4, AppendProperties
  <1> HIDE DEF low, padding, gap
  <1>9. y \in Layout
    <2>1. y = [bytes |-> y.bytes, segments |-> y.segments]
      BY <1>3
    <2>2. QED
      BY <2>1, <1>7, <1>8 DEF Layout
  <1>10. /\ s.name = Named(t) /\ s.dtype = t.dtype /\ s.shape = t.shape
         /\ s.payload = t.payload /\ s.length = Len(t.payload) /\ s.offset = offset
    BY Zenon
  <1> HIDE DEF s, offset
  <1>11. Holds(y.bytes, s, t)
    <2>1. s.offset % Alignment = 0 /\ s.offset + s.length <= Len(y.bytes)
      BY <1>1, <1>2, <1>7, <1>10
    <2>2. \A i \in 1 .. s.length : y.bytes[s.offset + i] = t.payload[i]
      BY <1>7, <1>10
    <2>3. QED
      BY <1>10, <2>1, <2>2, Zenon DEF Holds
  <1>12. \A i \in 1 .. Len(x.bytes) : y.bytes[i] = x.bytes[i]
    <2>1. ASSUME NEW i \in 1 .. Len(x.bytes) PROVE i \in 1 .. offset
      BY <1>1, <1>2
    <2>2. QED
      BY <2>1, <1>6, <1>7
  <1>13. QED
    BY <1>1, <1>2, <1>7, <1>8, <1>9, <1>10, <1>11, <1>12
(* The sorted tensors are the tensors.                                     *)
LEMMA SortedTensors ==
  ASSUME NEW p \in Programs, NEW st, st = Sorted(p)
  PROVE  /\ Len(st) = Len(Tensors(p)) /\ Len(st) \in Nat
         /\ st \in [1 .. Len(st) -> Tensor]
         /\ \A m, n \in 1 .. Len(st) : Named(st[m]) = Named(st[n]) => m = n
         /\ \A k \in 1 .. Len(st) : \E n \in 1 .. Len(st) : st[n] = Tensors(p)[k]
         /\ \A n \in 1 .. Len(st) : \E k \in 1 .. Len(st) : st[n] = Tensors(p)[k]
  <1> DEFINE ts == Tensors(p)
  <1>1. /\ ts \in Seq(Tensor)
        /\ \A m, n \in 1 .. Len(ts) : Named(ts[m]) = Named(ts[n]) => m = n
    BY TensorsAssumption
  <1> HIDE DEF ts
  <1>2. PICK N \in Nat : N = Len(ts)
    BY <1>1, LenProperties
  <1>3. ts \in [1 .. N -> Tensor]
    BY <1>1, <1>2, LenProperties
  <1>4. PICK f \in [1 .. N -> 1 .. N] :
          /\ st = [n \in 1 .. N |-> ts[f[n]]]
          /\ \A m, n \in 1 .. N : f[m] = f[n] => m = n
          /\ \A k \in 1 .. N : \E n \in 1 .. N : f[n] = k
    <2>1. \E f \in [1 .. N -> 1 .. N] :
           /\ Sorted(p) = [n \in 1 .. N |-> Tensors(p)[f[n]]]
           /\ \A m, n \in 1 .. N : f[m] = f[n] => m = n
           /\ \A k \in 1 .. N : \E n \in 1 .. N : f[n] = k
      BY <1>2, SortedIs, Zenon DEF ts
    <2>2. QED
      BY <2>1, Zenon DEF ts
  <1>5. st \in [1 .. N -> Tensor]
    BY <1>3, <1>4
  <1>6. st \in Seq(Tensor) /\ Len(st) = N
    BY <1>4, <1>5, IsASeq
  <1>7. QED
    BY <1>1, <1>2, <1>3, <1>4, <1>5, <1>6, SMTT(60) DEF ts

\* The first n of the sorted tensors are in the image, one after another.
LaidOut(st, n, x) ==
  /\ x \in Layout
  /\ Len(x.segments) = n
  /\ \A k \in 1 .. n :
       /\ Holds(x.bytes, x.segments[k], st[k])
       /\ \A m \in 1 .. k - 1 : x.segments[m].offset + x.segments[m].length <= x.segments[k].offset

NothingLaid == [bytes |-> <<>>, segments |-> <<>>]

LEMMA LaidOutStep ==
  ASSUME NEW N \in Nat, NEW st \in [1 .. N -> Tensor], NEW n \in Nat, n + 1 <= N, NEW x, LaidOut(st, n, x)
  PROVE  LaidOut(st, n + 1, PackTensor(x, st[n + 1]))
  <1>0. n + 1 \in 1 .. N /\ st[n + 1] \in Tensor
    OBVIOUS
  <1>1. x \in Layout /\ n = Len(x.segments) /\ x.segments \in Seq(Segment) /\ x.bytes \in Seq(Nat)
    BY DEF LaidOut, Layout
  <1>2. PICK y : y = PackTensor(x, st[n + 1])
    OBVIOUS
  <1>3. /\ y \in Layout
        /\ Len(y.segments) = n + 1
        /\ \A k \in 1 .. n : y.segments[k] = x.segments[k]
        /\ Holds(y.bytes, y.segments[n + 1], st[n + 1])
        /\ Len(x.bytes) <= y.segments[n + 1].offset
        /\ Len(x.bytes) <= Len(y.bytes)
        /\ \A i \in 1 .. Len(x.bytes) : y.bytes[i] = x.bytes[i]
    <2>1. PICK t \in Tensor : t = st[n + 1]
      BY <1>0
    <2>2. y = PackTensor(x, t) /\ x \in Layout /\ n = Len(x.segments)
      BY <1>1, <1>2, <2>1
    <2>3. /\ y \in Layout
          /\ Len(y.segments) = n + 1
          /\ \A k \in 1 .. n : y.segments[k] = x.segments[k]
          /\ Holds(y.bytes, y.segments[n + 1], t)
          /\ Len(x.bytes) <= y.segments[n + 1].offset
          /\ Len(x.bytes) <= Len(y.bytes)
          /\ \A i \in 1 .. Len(x.bytes) : y.bytes[i] = x.bytes[i]
      BY <2>2, PackTensorIs, SMTT(60)
    <2>4. QED
      BY <2>1, <2>3
  <1>4. Len(x.bytes) \in Nat /\ Len(y.bytes) \in Nat /\ y.segments \in [1 .. n + 1 -> Segment]
    BY <1>1, <1>3, LenProperties DEF Layout
  <1>5. ASSUME NEW k \in 1 .. n
        PROVE  /\ Holds(y.bytes, y.segments[k], st[k])
               /\ \A m \in 1 .. k - 1 : y.segments[m].offset + y.segments[m].length <= y.segments[k].offset
               /\ y.segments[k].offset + y.segments[k].length <= y.segments[n + 1].offset
    <2>1. Holds(x.bytes, x.segments[k], st[k]) /\ x.segments[k] = y.segments[k]
      BY <1>3 DEF LaidOut
    <2>2. PICK o \in Nat, l \in Nat, top \in Nat, low \in Nat, high \in Nat :
            /\ o = y.segments[k].offset /\ l = y.segments[k].length /\ top = y.segments[n + 1].offset
            /\ low = Len(x.bytes) /\ high = Len(y.bytes)
      <3>1. y.segments[k] \in Segment /\ y.segments[n + 1] \in Segment
        BY <1>4
      <3>2. QED
        BY <3>1, <1>4 DEF Segment
    <2>3. o + l <= low /\ low <= top /\ low <= high
      BY <2>1, <2>2, <1>3 DEF Holds
    <2>4. ASSUME NEW i \in 1 .. l PROVE y.bytes[o + i] = st[k].payload[i]
      <3>1. x.bytes[o + i] = st[k].payload[i]
        BY <2>1, <2>2 DEF Holds
      <3>2. o + i \in 1 .. low
        BY <2>3
      <3>3. QED
        BY <3>1, <3>2, <2>2, <1>3
    <2>5. Holds(y.bytes, y.segments[k], st[k])
      <3>1. o + l <= high
        BY <2>3
      <3>2. QED
        BY <2>1, <2>2, <2>4, <3>1 DEF Holds
    <2>6. ASSUME NEW m \in 1 .. k - 1
          PROVE  y.segments[m].offset + y.segments[m].length <= y.segments[k].offset
      <3>1. m \in 1 .. n
        OBVIOUS
      <3>2. QED
        BY <3>1, <2>1, <1>3 DEF LaidOut
    <2>7. o + l <= top
      BY <2>3
    <2>8. QED
      BY <2>2, <2>5, <2>6, <2>7
  <1>6. ASSUME NEW k \in 1 .. n + 1
        PROVE  /\ Holds(y.bytes, y.segments[k], st[k])
               /\ \A m \in 1 .. k - 1 : y.segments[m].offset + y.segments[m].length <= y.segments[k].offset
    <2>1. CASE k = n + 1
      BY <2>1, <1>3, <1>5
    <2>2. CASE k # n + 1
      BY <2>2, <1>5
    <2>3. QED
      BY <2>1, <2>2
  <1>7. QED
    BY <1>2, <1>3, <1>6 DEF LaidOut

(* What the packer makes of a program is its sorted tensors laid out.      *)
LEMMA PackedIs ==
  ASSUME NEW p \in Programs
  PROVE  LaidOut(Sorted(p), Len(Sorted(p)), Packed(p))
  <1> DEFINE st == Sorted(p)
             N == Len(st)
             body(packed) == [n \in 0 .. Len(st) |->
                                IF n = 0 THEN NothingLaid ELSE PackTensor(packed[n - 1], st[n])]
             Round == [n \in 1 .. N |-> [x \in Layout |-> PackTensor(x, st[n])]]
             packed == CHOOSE packed : packed = body(packed)
  <1>0. N \in Nat /\ st \in [1 .. N -> Tensor]
    BY SortedTensors
  <1>1. NothingLaid \in Layout /\ Len(NothingLaid.segments) = 0
    BY DEF NothingLaid, Layout
  <1>2. Round \in RoundsOf(N, Layout)
    <2> HIDE DEF st, N
    <2>1. ASSUME NEW n \in 1 .. N, NEW x \in Layout PROVE PackTensor(x, st[n]) \in Layout
      <3>1. x.segments \in Seq(Segment) /\ Len(x.segments) \in Nat /\ st[n] \in Tensor
        BY <1>0, LenProperties DEF Layout
      <3>2. QED
        BY <3>1, PackTensorIs
    <2>2. QED
      BY <2>1 DEF RoundsOf
  <1>3. Courses(N, Layout, NothingLaid, Round) # {}
    <2> HIDE DEF Round, N
    <2>1. QED
      BY <1>0, <1>1, <1>2, Loop, Zenon
  <1>4. PICK f \in [0 .. N -> Layout] :
          f[0] = NothingLaid /\ \A n \in 1 .. N : f[n] = Round[n][f[n - 1]]
    BY <1>3, Zenon DEF Courses
  <1>5. \A n \in 1 .. N : f[n] = PackTensor(f[n - 1], st[n])
    <2> HIDE DEF st, N
    <2>1. ASSUME NEW n \in 1 .. N PROVE f[n] = PackTensor(f[n - 1], st[n])
      <3>1. f[n - 1] \in Layout
        BY <1>0
      <3>2. QED
        BY <1>4, <3>1
    <2>2. QED
      BY <2>1
  <1>6. f = body(f)
    <2>1. ASSUME NEW n \in 0 .. N PROVE f[n] = body(f)[n]
      BY <1>4, <1>5
    <2>2. QED
      BY <2>1
  <1>7. packed = body(packed)
    BY <1>6, Zenon
  <1>8. Packed(p) = packed[N]
    BY Zenon DEF Packed, NothingLaid
  <1> HIDE DEF packed, st, N
  <1>9. packed[0] = NothingLaid /\ \A n \in 1 .. N : packed[n] = PackTensor(packed[n - 1], st[n])
    <2>1. N = Len(st)
      BY DEF N
    <2>2. QED
      BY <1>7, <1>0, <2>1
  <1> DEFINE T == {n \in Nat : n <= N => LaidOut(st, n, packed[n])}
  <1>10. Nat \subseteq T
    <2>1. 0 \in T
      BY <1>9, <1>1 DEF LaidOut
    <2>2. ASSUME NEW n \in Nat, n \in T PROVE n + 1 \in T
      <3>1. SUFFICES (n + 1 <= N) => LaidOut(st, n + 1, packed[n + 1])
        OBVIOUS
      <3>2. SUFFICES ASSUME n + 1 <= N PROVE LaidOut(st, n + 1, packed[n + 1])
        OBVIOUS
      <3>3. n + 1 \in 1 .. N /\ (n + 1) - 1 = n /\ LaidOut(st, n, packed[n])
        BY <2>2, <3>2, <1>0
      <3>4. packed[n + 1] = PackTensor(packed[n], st[n + 1])
        BY <3>3, <1>9
      <3>5. LaidOut(st, n + 1, PackTensor(packed[n], st[n + 1]))
        BY <3>2, <3>3, <1>0, LaidOutStep
      <3>6. QED
        BY <3>4, <3>5, Zenon
    <2> HIDE DEF T
    <2>3. QED
      BY <2>1, <2>2, Induction
  <1>11. LaidOut(st, N, packed[N])
    BY <1>10, <1>0
  <1>12. QED
    BY <1>8, <1>11 DEF st, N
-----------------------------------------------------------------------------
(* A program's tensors by their names.                                     *)

LEMMA TensorsByName ==
  ASSUME NEW p \in Programs
  PROVE  /\ Len(Tensors(p)) \in Nat
         /\ Tensors(p) \in [1 .. Len(Tensors(p)) -> Tensor]
         /\ \A m \in 1 .. Len(Tensors(p)) :
              /\ Named(Tensors(p)[m]) \in Names(p)
              /\ TensorOf(p, Named(Tensors(p)[m])) = Tensors(p)[m]
         /\ \A name \in Names(p) :
              /\ TensorOf(p, name) \in Tensor
              /\ \E m \in 1 .. Len(Tensors(p)) :
                   Named(Tensors(p)[m]) = name /\ TensorOf(p, name) = Tensors(p)[m]
  <1> DEFINE ts == Tensors(p)
  <1>1. /\ ts \in Seq(Tensor)
        /\ \A m, n \in 1 .. Len(ts) : Named(ts[m]) = Named(ts[n]) => m = n
    BY TensorsAssumption
  <1>2. Len(ts) \in Nat /\ ts \in [1 .. Len(ts) -> Tensor]
    BY <1>1, LenProperties
  <1>3. ASSUME NEW m \in 1 .. Len(ts)
        PROVE  /\ Named(ts[m]) \in Names(p)
               /\ TensorOf(p, Named(ts[m])) = ts[m]
    <2> DEFINE k == CHOOSE n \in 1 .. Len(ts) : Named(ts[n]) = Named(ts[m])
    <2>1. k \in 1 .. Len(ts) /\ Named(ts[k]) = Named(ts[m])
      BY Zenon
    <2>2. k = m
      <3> HIDE DEF k, ts
      <3>1. QED
        BY <2>1, <1>1
    <2>3. TensorOf(p, Named(ts[m])) = ts[k]
      BY Zenon DEF TensorOf
    <2>4. QED
      BY <2>2, <2>3, Zenon DEF Names
  <1>4. ASSUME NEW name \in Names(p)
        PROVE  /\ TensorOf(p, name) \in Tensor
               /\ \E m \in 1 .. Len(ts) : Named(ts[m]) = name /\ TensorOf(p, name) = ts[m]
    <2>1. PICK m \in 1 .. Len(ts) : Named(ts[m]) = name
      BY Zenon DEF Names
    <2>2. ts[m] \in Tensor
      BY <1>2
    <2>3. QED
      BY <2>1, <2>2, <1>3, Zenon
  <1>5. QED
    BY <1>2, <1>3, <1>4, Zenon

\* There are as many names as tensors.
LEMMA NamesAreCounted ==
  ASSUME NEW p \in Programs
  PROVE  IsFiniteSet(Names(p)) /\ Cardinality(Names(p)) = Len(Tensors(p))
  <1>1. PICK N \in Nat : N = Len(Tensors(p))
    BY TensorsByName
  <1> DEFINE f == [n \in 1 .. N |-> Named(Tensors(p)[n])]
  <1>2. \A m, n \in 1 .. N : Named(Tensors(p)[m]) = Named(Tensors(p)[n]) => m = n
    BY <1>1, TensorsAssumption
  <1>3. \A name \in Names(p) : \E n \in 1 .. N : f[n] = name
    BY <1>1, Zenon DEF Names
  <1>4. f \in [1 .. N -> Names(p)]
    BY <1>1, Zenon DEF Names
  <1>5. f \in Bijection(1 .. N, Names(p))
    <2>1. \A a, b \in 1 .. N : f[a] = f[b] => a = b
      BY <1>2
    <2> HIDE DEF f
    <2>2. IsInjective(f)
      BY <2>1, <1>4 DEF IsInjective
    <2>3. QED
      BY <2>2, <1>3, <1>4, Zenon DEF Bijection, Injection, Surjection
  <1>6. IsFiniteSet(1 .. N) /\ Cardinality(1 .. N) = N
    BY FS_Interval
  <1>7. QED
    <2>1. ExistsBijection(1 .. N, Names(p))
      BY <1>5, Zenon DEF ExistsBijection
    <2>2. IsFiniteSet(Names(p)) /\ Cardinality(Names(p)) = Cardinality(1 .. N)
      BY <2>1, <1>6, FS_Bijection, Zenon
    <2>3. QED
      BY <2>2, <1>1, <1>6
\* The image of a program: its tensors, all of them and nothing else, each
\* at an aligned offset and apart from the others.
IsImageOf(p, b, s) ==
  /\ b \in Seq(Nat) /\ Len(b) \in Nat
  /\ s \in Seq(Segment) /\ Len(s) = Len(Tensors(p)) /\ Len(s) \in Nat
  /\ s \in [1 .. Len(s) -> Segment]
  /\ \A k \in 1 .. Len(s) : s[k].name \in Names(p) /\ Holds(b, s[k], TensorOf(p, s[k].name))
  /\ \A name \in Names(p) : \E k \in 1 .. Len(s) : s[k].name = name
  /\ \A m, n \in 1 .. Len(s) : s[m].name = s[n].name => m = n
  /\ \A n \in 1 .. Len(s) : \A m \in 1 .. n - 1 : s[m].offset + s[m].length <= s[n].offset

LEMMA PackedHolds ==
  ASSUME NEW p \in Programs
  PROVE  IsImageOf(p, Packed(p).bytes, Packed(p).segments)
  <1> PICK b, s : b = Packed(p).bytes /\ s = Packed(p).segments
    OBVIOUS
  <1>0. PICK st : st = Sorted(p)
    OBVIOUS
  <1>1. PICK N \in Nat : N = Len(st) /\ N = Len(Tensors(p)) /\ st \in [1 .. N -> Tensor]
    BY <1>0, SortedTensors
  <1>2. /\ \A m, n \in 1 .. N : Named(st[m]) = Named(st[n]) => m = n
        /\ \A k \in 1 .. N : \E n \in 1 .. N : st[n] = Tensors(p)[k]
        /\ \A n \in 1 .. N : \E k \in 1 .. N : st[n] = Tensors(p)[k]
    <2> DEFINE sorted == Sorted(p)
    <2>1. /\ \A m, n \in 1 .. Len(sorted) : Named(sorted[m]) = Named(sorted[n]) => m = n
          /\ \A k \in 1 .. Len(sorted) : \E n \in 1 .. Len(sorted) : sorted[n] = Tensors(p)[k]
          /\ \A n \in 1 .. Len(sorted) : \E k \in 1 .. Len(sorted) : sorted[n] = Tensors(p)[k]
      BY SortedTensors, Zenon
    <2>2. Len(sorted) = N /\ st = sorted
      BY <1>0, <1>1
    <2> HIDE DEF sorted
    <2>3. QED
      BY <2>1, <2>2
  <1>3. LaidOut(st, N, Packed(p))
    BY <1>0, <1>1, PackedIs
  <1>4. /\ b \in Seq(Nat) /\ s \in Seq(Segment) /\ Len(s) = N
        /\ \A k \in 1 .. N :
             /\ Holds(b, s[k], st[k])
             /\ \A m \in 1 .. k - 1 : s[m].offset + s[m].length <= s[k].offset
    BY <1>3 DEF LaidOut, Layout
  <1>5. Len(b) \in Nat /\ s \in [1 .. N -> Segment]
    BY <1>4, LenProperties
  <1>6. ASSUME NEW k \in 1 .. N
        PROVE  s[k].name \in Names(p) /\ st[k] = TensorOf(p, s[k].name) /\ s[k].name = Named(st[k])
    <2>1. s[k].name = Named(st[k])
      BY <1>4 DEF Holds
    <2>2. PICK m \in 1 .. N : st[k] = Tensors(p)[m]
      BY <1>2
    <2>3. QED
      BY <1>1, <2>1, <2>2, TensorsByName
  <1>7. ASSUME NEW name \in Names(p) PROVE \E k \in 1 .. N : s[k].name = name
    <2>1. PICK m \in 1 .. N : Named(Tensors(p)[m]) = name
      BY <1>1, TensorsByName
    <2>2. PICK k \in 1 .. N : st[k] = Tensors(p)[m]
      BY <1>2
    <2>3. QED
      BY <2>1, <2>2, <1>6
  <1>8. \A m, n \in 1 .. N : s[m].name = s[n].name => m = n
    BY <1>2, <1>6
  <1>9. \A k \in 1 .. N : s[k].name \in Names(p) /\ Holds(b, s[k], TensorOf(p, s[k].name))
    BY <1>4, <1>6
  <1>10. QED
    BY <1>1, <1>4, <1>5, <1>7, <1>8, <1>9 DEF IsImageOf

\* Read back from the image, a segment's bytes are its tensor's.
LEMMA BytesAreHeld ==
  ASSUME NEW b \in Seq(Nat), NEW s \in Segment, NEW t \in Tensor, Holds(b, s, t)
  PROVE  Bytes(b, s) = t.payload
  <1>1. PICK o \in Nat, l \in Nat, top \in Nat : o = s.offset /\ l = s.length /\ top = Len(b)
    BY LenProperties DEF Segment
  <1>2. /\ t.payload \in Seq(Nat) /\ Len(t.payload) = l /\ o + l <= top
        /\ \A i \in 1 .. l : b[o + i] = t.payload[i]
    BY <1>1 DEF Holds, Tensor
  <1>3. \A i \in o + 1 .. o + l : b[i] \in Nat
    <2>1. b \in [1 .. top -> Nat]
      BY <1>1, LenProperties
    <2>2. QED
      BY <2>1, <1>2
  <1>4. /\ SubSeq(b, o + 1, o + l) \in Seq(Nat)
        /\ Len(SubSeq(b, o + 1, o + l)) = IF o + 1 <= o + l THEN (o + l) - (o + 1) + 1 ELSE 0
        /\ \A i \in 1 .. (o + l) - (o + 1) + 1 : SubSeq(b, o + 1, o + l)[i] = b[(o + 1) + i - 1]
    <2>1. o + 1 \in Int /\ o + l \in Int
      OBVIOUS
    <2>2. QED
      BY <2>1, <1>3, SubSeqProperties
  <1>5. Len(SubSeq(b, o + 1, o + l)) = l
    BY <1>4
  <1>6. ASSUME NEW i \in 1 .. l PROVE SubSeq(b, o + 1, o + l)[i] = t.payload[i]
    <2>1. (o + 1) + i - 1 = o + i /\ (o + l) - (o + 1) + 1 = l
      OBVIOUS
    <2>2. QED
      BY <2>1, <1>2, <1>4
  <1>7. SubSeq(b, o + 1, o + l) = t.payload
    BY <1>2, <1>4, <1>5, <1>6, SeqEqual
  <1>8. QED
    BY <1>1, <1>7 DEF Bytes
-----------------------------------------------------------------------------
(* The image's publication.  The inductive invariant says what each script *)
(* has in hand: a whole manifest is what the packer makes of one program,  *)
(* though perhaps under another's hash, a whole reference is what one      *)
(* program computes, and what the replay has loaded is a program.          *)

Own(p) == Results(p, Payloads(p))
ManifestOf(l, e) ==
  [file |-> "whole", segments |-> Packed(l).segments, image |-> Packed(l).bytes, export |-> e]
IsManifest(m) == \E l, e \in Programs : m = ManifestOf(l, e)

FilesInv ==
  /\ exported \in Programs
  /\ manifestFile.file = "whole" => IsManifest(manifestFile)
  /\ referenceFile.file = "whole" => \E x \in Programs : referenceFile.results = Own(x)
PackerInv ==
  /\ packer = [pc |-> packer.pc, runs |-> packer.runs, loaded |-> packer.loaded,
               image |-> packer.image, manifest |-> packer.manifest]
  /\ packer.pc = "hash" => packer.loaded \in Programs
  /\ packer.pc \in {"image", "manifest"} => IsManifest(packer.manifest)
OracleInv == oracle.pc = "hash" => \E x \in Programs : oracle.results = Own(x)
ReplayerInv ==
  /\ replayer = [pc |-> replayer.pc, manifest |-> replayer.manifest,
                 image |-> replayer.image, graph |-> replayer.graph]
  /\ replayer.pc \in {"image", "load", "replay"} => IsManifest(replayer.manifest)
  /\ replayer.pc = "replay" => replayer.graph \in Programs
ImageInv == FilesInv /\ PackerInv /\ OracleInv /\ ReplayerInv /\ PublishedImageIsAProgram

\* What the property says of one publication.
IsAProgram(out) ==
  \E p \in Programs :
    LET s == out.manifest.segments
        t == Tensors(p)
    IN
    /\ Len(s) = Len(t)
    /\ \A m \in 1 .. Len(t) : \E n \in 1 .. Len(s) :
         /\ s[n].name = Named(t[m]) /\ s[n].dtype = t[m].dtype /\ s[n].shape = t[m].shape
         /\ Bytes(out.image, s[n]) = t[m].payload
    /\ \A n \in 1 .. Len(s) :
         /\ s[n].offset % Alignment = 0
         /\ \A m \in 1 .. n - 1 : Apart(s[m], s[n])
    /\ out.results = Results(p, Payloads(p))

\* What the replay rebuilds from a whole image is its program's tensors.
LEMMA ReconstructedIs ==
  ASSUME NEW l \in Programs, NEW e \in Programs
  PROVE  Reconstructed(ManifestOf(l, e), Packed(l).bytes) = Payloads(l)
  <1>1. PICK b, s : b = Packed(l).bytes /\ s = Packed(l).segments
    OBVIOUS
  <1>2. /\ b \in Seq(Nat) /\ s \in [1 .. Len(s) -> Segment]
        /\ \A k \in 1 .. Len(s) : s[k].name \in Names(l) /\ Holds(b, s[k], TensorOf(l, s[k].name))
        /\ \A name \in Names(l) : \E k \in 1 .. Len(s) : s[k].name = name
        /\ \A m, n \in 1 .. Len(s) : s[m].name = s[n].name => m = n
    <2>1. IsImageOf(l, b, s)
      BY <1>1, PackedHolds
    <2>2. QED
      BY <2>1, Zenon DEF IsImageOf
  <1> DEFINE names == {s[k].name : k \in 1 .. Len(s)}
  <1>3. names = Names(l)
    BY <1>2
  <1>4. ASSUME NEW name \in Names(l) PROVE Bytes(b, SegmentOf(s, name)) = TensorOf(l, name).payload
    <2> DEFINE k == CHOOSE n \in 1 .. Len(s) : s[n].name = name
    <2>1. k \in 1 .. Len(s) /\ s[k].name = name
      BY <1>2, Zenon
    <2>2. SegmentOf(s, name) = s[k]
      BY Zenon DEF SegmentOf
    <2> HIDE DEF k
    <2>3. TensorOf(l, name) \in Tensor
      BY TensorsByName
    <2>4. s[k] \in Segment /\ Holds(b, s[k], TensorOf(l, name))
      BY <2>1, <1>2
    <2>5. QED
      BY <2>2, <2>3, <2>4, <1>2, BytesAreHeld
  <1>5. Reconstructed(ManifestOf(l, e), b) = [name \in names |-> Bytes(b, SegmentOf(s, name))]
    BY <1>1 DEF Reconstructed, ManifestOf
  <1>6. Payloads(l) = [name \in Names(l) |-> TensorOf(l, name).payload]
    BY Zenon DEF Payloads
  <1> HIDE DEF names
  <1>7. QED
    BY <1>1, <1>3, <1>4, <1>5, <1>6

\* A program of the same names, types, shapes and values is in the image.
LEMMA ImageIsOf ==
  ASSUME NEW l \in Programs, NEW p \in Programs,
         SameSignature(p, l), Payloads(p) = Payloads(l), NEW out,
         out.manifest.segments = Packed(l).segments, out.image = Packed(l).bytes,
         out.results = Results(p, Payloads(p))
  PROVE  IsAProgram(out)
  <1>1. PICK b, s : b = Packed(l).bytes /\ s = Packed(l).segments
    OBVIOUS
  <1>2. /\ b \in Seq(Nat) /\ s \in [1 .. Len(s) -> Segment] /\ Len(s) \in Nat
        /\ Len(s) = Len(Tensors(l))
        /\ \A k \in 1 .. Len(s) : s[k].name \in Names(l) /\ Holds(b, s[k], TensorOf(l, s[k].name))
        /\ \A name \in Names(l) : \E k \in 1 .. Len(s) : s[k].name = name
        /\ \A n \in 1 .. Len(s) : \A m \in 1 .. n - 1 : s[m].offset + s[m].length <= s[n].offset
    <2>1. IsImageOf(l, b, s)
      BY <1>1, PackedHolds
    <2>2. QED
      BY <2>1, Zenon DEF IsImageOf
  <1>3. Names(p) = Names(l)
    BY DEF SameSignature
  <1>4. Len(s) = Len(Tensors(p))
    BY <1>2, <1>3, NamesAreCounted
  <1>5. ASSUME NEW m \in 1 .. Len(Tensors(p))
        PROVE  \E n \in 1 .. Len(s) :
                 /\ s[n].name = Named(Tensors(p)[m]) /\ s[n].dtype = Tensors(p)[m].dtype
                 /\ s[n].shape = Tensors(p)[m].shape
                 /\ Bytes(b, s[n]) = Tensors(p)[m].payload
    <2>1. PICK name \in Names(p) : name = Named(Tensors(p)[m]) /\ TensorOf(p, name) = Tensors(p)[m]
      BY TensorsByName
    <2>2. PICK n \in 1 .. Len(s) : s[n].name = name
      BY <1>2, <1>3
    <2>3. PICK t : t = TensorOf(l, name)
      OBVIOUS
    <2>4. t \in Tensor
      BY <1>3, <2>3, TensorsByName
    <2>5. s[n] \in Segment /\ Holds(b, s[n], t)
      BY <1>2, <2>2, <2>3
    <2>6. Bytes(b, s[n]) = t.payload
      BY <1>2, <2>4, <2>5, BytesAreHeld
    <2>7. s[n].dtype = t.dtype /\ s[n].shape = t.shape
      BY <2>5 DEF Holds
    <2>8. t.dtype = Tensors(p)[m].dtype /\ t.shape = Tensors(p)[m].shape
      BY <2>1, <2>3 DEF SameSignature
    <2>9. t.payload = Tensors(p)[m].payload
      BY <2>1, <2>3, <1>3 DEF Payloads
    <2>10. QED
      BY <2>1, <2>2, <2>6, <2>7, <2>8, <2>9
  <1>6. ASSUME NEW n \in 1 .. Len(s)
        PROVE  /\ s[n].offset % Alignment = 0
               /\ \A m \in 1 .. n - 1 : Apart(s[m], s[n])
    BY <1>2 DEF Holds, Apart
  <1>7. QED
    BY <1>1, <1>4, <1>5, <1>6, ZenonT(60) DEF IsAProgram
\* A replay that passes has a program in hand, if the corpus tells programs.
LEMMA PassedIsAProgram ==
  ASSUME CorpusTellsPrograms, ImageInv, replayer.pc = "replay", Passes, NEW out,
         out.manifest = replayer.manifest, out.image = replayer.image,
         out.results = referenceFile.results
  PROVE  IsAProgram(out)
  <1>1. PICK l \in Programs, e \in Programs : replayer.manifest = ManifestOf(l, e)
    BY Zenon DEF ImageInv, ReplayerInv, IsManifest
  <1>2. PICK x \in Programs : referenceFile.results = Own(x)
    BY Zenon DEF Passes, ImageInv, FilesInv
  <1>3. PICK g \in Programs : g = replayer.graph
    BY DEF ImageInv, ReplayerInv
  <1>4. PICK m : m = replayer.manifest /\ m = ManifestOf(l, e)
    BY <1>1
  <1>5. m.segments = Packed(l).segments /\ m.image = Packed(l).bytes
    BY <1>4 DEF ManifestOf
  <1>6. Reconstructs(m, replayer.image, g)
    BY <1>3, <1>4, Zenon DEF Passes
  <1>7. replayer.image = Packed(l).bytes
    BY <1>5, <1>6, Zenon DEF Reconstructs, Verified
  <1>8. SameSignature(g, l)
    <2>1. PICK b, s : b = Packed(l).bytes /\ s = Packed(l).segments
      OBVIOUS
    <2>2. IsImageOf(l, b, s)
      BY <2>1, PackedHolds
    <2>3. /\ {s[n].name : n \in 1 .. Len(s)} = Names(g)
          /\ \A n \in 1 .. Len(s) :
               /\ s[n].dtype = TensorOf(g, s[n].name).dtype
               /\ s[n].shape = TensorOf(g, s[n].name).shape
      <3>1. m.segments = s
        BY <1>5, <2>1
      <3>2. QED
        BY <1>6, <3>1 DEF Reconstructs
    <2>4. {s[n].name : n \in 1 .. Len(s)} = Names(l)
      <3>1. /\ \A k \in 1 .. Len(s) : s[k].name \in Names(l)
            /\ \A name \in Names(l) : \E k \in 1 .. Len(s) : s[k].name = name
        BY <2>2, Zenon DEF IsImageOf
      <3>2. QED
        BY <3>1
    <2>5. ASSUME NEW name \in Names(g)
          PROVE  /\ TensorOf(g, name).dtype = TensorOf(l, name).dtype
                 /\ TensorOf(g, name).shape = TensorOf(l, name).shape
      <3>1. PICK n \in 1 .. Len(s) : s[n].name = name
        BY <2>3
      <3>2. Holds(b, s[n], TensorOf(l, name))
        BY <3>1, <2>2, Zenon DEF IsImageOf
      <3>3. QED
        BY <2>3, <3>1, <3>2, Zenon DEF Holds
    <2>6. QED
      BY <2>3, <2>4, <2>5, Zenon DEF SameSignature
  <1>9. Results(g, Payloads(l)) = Own(x)
    <2>1. Reconstructed(m, replayer.image) = Payloads(l)
      BY <1>4, <1>7, ReconstructedIs
    <2>2. SameAnswers(referenceFile, Results(g, Payloads(l)))
      BY <1>3, <1>4, <2>1, Zenon DEF Passes
    <2>3. \A c \in Cases : Results(g, Payloads(l))[c] = Own(x)[c]
      BY <1>2, <2>2, Zenon DEF SameAnswers
    <2>4. QED
      BY <2>3 DEF Results, Own
  <1>10. PICK p \in Programs :
           /\ SameSignature(p, l) /\ Payloads(p) = Payloads(l)
           /\ Results(p, Payloads(p)) = Own(x)
    <2>1. Results(g, Payloads(l)) = Results(x, Payloads(x))
      BY <1>9 DEF Own
    <2>2. \E p \in Programs :
            /\ SameSignature(p, l) /\ Payloads(p) = Payloads(l)
            /\ Results(p, Payloads(p)) = Results(x, Payloads(x))
      BY <1>8, <2>1 DEF CorpusTellsPrograms
    <2>3. QED
      BY <2>2, Zenon DEF Own
  <1>11. /\ out.manifest.segments = Packed(l).segments /\ out.image = Packed(l).bytes
         /\ out.results = Results(p, Payloads(p))
    BY <1>2, <1>4, <1>5, <1>7, <1>10
  <1>12. QED
    BY <1>10, <1>11, ImageIsOf, Zenon

LEMMA ImageInitInv == ImageInit => ImageInv
  <1> SUFFICES ASSUME ImageInit PROVE ImageInv
    OBVIOUS
  <1>1. FilesInv
    BY DEF ImageInit, ScriptsInit, FilesInv, NoManifest, NoReference
  <1>2. PackerInv
    BY DEF ImageInit, ScriptsInit, PackerInv, IdlePacker
  <1>3. OracleInv /\ ReplayerInv
    BY DEF ImageInit, ScriptsInit, OracleInv, ReplayerInv, IdleOracle, IdleReplayer
  <1>4. PublishedImageIsAProgram
    BY DEF ImageInit, NothingOut, PublishedImageIsAProgram
  <1>5. QED
    BY <1>1, <1>2, <1>3, <1>4 DEF ImageInv

\* What is published stays what it is while published does.
LEMMA PublishedStays ==
  ASSUME ImageInv, UNCHANGED published PROVE PublishedImageIsAProgram'
  BY DEF ImageInv, PublishedImageIsAProgram

LEMMA ImageStepInv ==
  ASSUME CorpusTellsPrograms, ImageInv, [ImageNext]_imageVars
  PROVE  ImageInv'
  <1> USE DEF exportFiles, OutputFiles
  <1>1. FilesInv /\ PackerInv /\ OracleInv /\ ReplayerInv
    BY DEF ImageInv
  <1>2. CASE LoadForPacking
    <2>1. PackerInv'
      BY <1>1, <1>2 DEF LoadForPacking, PackerInv, FilesInv
    <2>2. FilesInv' /\ OracleInv' /\ ReplayerInv'
      BY <1>1, <1>2 DEF LoadForPacking, FilesInv, OracleInv, ReplayerInv
    <2>3. QED
      BY <2>1, <2>2, <1>2, PublishedStays DEF ImageInv, LoadForPacking
  <1>3. CASE HashAndPack
    <2>1. PackerInv'
      <3>1. IsManifest(ManifestOf(packer.loaded, exported))
        BY <1>1, <1>3 DEF HashAndPack, PackerInv, FilesInv, IsManifest
      <3>2. \/ packer' = [packer EXCEPT !.pc = "image", !.image = Packed(packer.loaded).bytes,
                                        !.manifest = ManifestOf(packer.loaded, exported)]
            \/ packer' = [packer EXCEPT !.pc = "idle"]
        BY <1>3, Zenon DEF HashAndPack, ManifestOf
      <3>3. QED
        BY <1>1, <3>1, <3>2 DEF PackerInv
    <2>2. FilesInv' /\ OracleInv' /\ ReplayerInv'
      BY <1>1, <1>3 DEF HashAndPack, FilesInv, OracleInv, ReplayerInv
    <2>3. QED
      BY <2>1, <2>2, <1>3, PublishedStays DEF ImageInv, HashAndPack
  <1>4. CASE WriteImage
    <2>1. PackerInv'
      BY <1>1, <1>4 DEF WriteImage, PackerInv
    <2>2. FilesInv' /\ OracleInv' /\ ReplayerInv'
      BY <1>1, <1>4 DEF WriteImage, FilesInv, OracleInv, ReplayerInv
    <2>3. QED
      BY <2>1, <2>2, <1>4, PublishedStays DEF ImageInv, WriteImage
  <1>5. CASE WriteImageManifest
    <2>1. PackerInv'
      BY <1>1, <1>5 DEF WriteImageManifest, PackerInv, IdlePacker
    <2>2. FilesInv' /\ OracleInv' /\ ReplayerInv'
      BY <1>1, <1>5 DEF WriteImageManifest, FilesInv, PackerInv, OracleInv, ReplayerInv
    <2>3. QED
      BY <2>1, <2>2, <1>5, PublishedStays DEF ImageInv, WriteImageManifest
  <1>6. CASE KillPacker
    <2>1. PackerInv'
      BY <1>1, <1>6 DEF KillPacker, PackerInv, IdlePacker
    <2>2. manifestFile' = manifestFile \/ manifestFile'.file # "whole"
      BY <1>6 DEF KillPacker, NoManifest
    <2>3. FilesInv' /\ OracleInv' /\ ReplayerInv'
      BY <1>1, <1>6, <2>2 DEF KillPacker, FilesInv, OracleInv, ReplayerInv
    <2>4. QED
      BY <2>1, <2>3, <1>6, PublishedStays DEF ImageInv, KillPacker
  <1>7. CASE ReplaceProgram
    <2>1. PackerInv' /\ FilesInv' /\ OracleInv' /\ ReplayerInv'
      BY <1>1, <1>7 DEF ReplaceProgram, PackerInv, FilesInv, OracleInv, ReplayerInv
    <2>2. QED
      BY <2>1, <1>7, PublishedStays DEF ImageInv, ReplaceProgram
  <1>8. CASE Evaluate
    <2>1. oracle'.results = Own(exported) /\ exported \in Programs
      BY <1>1, <1>8 DEF Evaluate, FilesInv, Own
    <2>2. OracleInv'
      BY <2>1, Zenon DEF OracleInv
    <2>3. PackerInv' /\ FilesInv' /\ ReplayerInv'
      BY <1>1, <1>8 DEF Evaluate, PackerInv, FilesInv, ReplayerInv
    <2>4. QED
      BY <2>2, <2>3, <1>8, PublishedStays DEF ImageInv, Evaluate
  <1>9. CASE FreezeReference
    <2>1. OracleInv'
      BY <1>9 DEF FreezeReference, OracleInv, IdleOracle
    <2>2. PackerInv' /\ FilesInv' /\ ReplayerInv'
      BY <1>1, <1>9 DEF FreezeReference, OracleInv, PackerInv, FilesInv, ReplayerInv
    <2>3. QED
      BY <2>1, <2>2, <1>9, PublishedStays DEF ImageInv, FreezeReference
  <1>10. CASE ReadForReplay
    <2>1. ReplayerInv'
      BY <1>1, <1>10 DEF ReadForReplay, ReplayerInv, FilesInv
    <2>2. PackerInv' /\ FilesInv' /\ OracleInv'
      BY <1>1, <1>10 DEF ReadForReplay, OracleInv, PackerInv, FilesInv
    <2>3. QED
      BY <2>1, <2>2, <1>10, PublishedStays DEF ImageInv, ReadForReplay
  <1>11. CASE ReadImage
    <2>1. ReplayerInv'
      BY <1>1, <1>11 DEF ReadImage, ReplayerInv
    <2>2. PackerInv' /\ FilesInv' /\ OracleInv'
      BY <1>1, <1>11 DEF ReadImage, OracleInv, PackerInv, FilesInv
    <2>3. QED
      BY <2>1, <2>2, <1>11, PublishedStays DEF ImageInv, ReadImage
  <1>12. CASE LoadForReplay
    <2>1. ReplayerInv'
      BY <1>1, <1>12 DEF LoadForReplay, ReplayerInv, FilesInv
    <2>2. PackerInv' /\ FilesInv' /\ OracleInv'
      BY <1>1, <1>12 DEF LoadForReplay, OracleInv, PackerInv, FilesInv
    <2>3. QED
      BY <2>1, <2>2, <1>12, PublishedStays DEF ImageInv, LoadForReplay
  <1>13. CASE Replay
    <2>1. ReplayerInv'
      BY <1>13 DEF Replay, ReplayerInv, IdleReplayer
    <2>2. PackerInv' /\ FilesInv' /\ OracleInv'
      BY <1>1, <1>13 DEF Replay, OracleInv, PackerInv, FilesInv
    <2>3. PublishedImageIsAProgram'
      <3>1. CASE Passes
        <4>1. published' = [there |-> TRUE, image |-> replayer.image,
                            manifest |-> replayer.manifest, results |-> referenceFile.results]
          BY <1>13, <3>1, Zenon DEF Replay
        <4>2. /\ published'.manifest = replayer.manifest /\ published'.image = replayer.image
              /\ published'.results = referenceFile.results
          BY <4>1
        <4>3. IsAProgram(published')
          BY <3>1, <4>2, <1>13, PassedIsAProgram, Zenon DEF Replay
        <4>4. QED
          BY <4>3, Zenon DEF IsAProgram, PublishedImageIsAProgram
      <3>2. CASE ~Passes
        <4>1. published' = published
          BY <1>13, <3>2, Zenon DEF Replay
        <4>2. QED
          BY <4>1, PublishedStays
      <3>3. QED
        BY <3>1, <3>2
    <2>4. QED
      BY <2>1, <2>2, <2>3 DEF ImageInv
  <1>14. CASE UNCHANGED imageVars
    <2>1. PackerInv' /\ FilesInv' /\ OracleInv' /\ ReplayerInv'
      BY <1>1, <1>14 DEF imageVars, scriptVars, PackerInv, FilesInv, OracleInv, ReplayerInv
    <2>2. QED
      BY <2>1, <1>14, PublishedStays DEF ImageInv, imageVars
  <1>15. QED
    BY <1>2, <1>3, <1>4, <1>5, <1>6, <1>7, <1>8, <1>9, <1>10, <1>11, <1>12, <1>13, <1>14
    DEF ImageNext

(* Supposing that the corpus tells programs, an image that is published    *)
(* holds, aligned and apart, the tensors of one program, and the results   *)
(* beside it are what that program computes: of any programs, replaced     *)
(* however often, and however packers die.                                 *)
THEOREM ImagesAreOfPrograms ==
  ASSUME CorpusTellsPrograms
  PROVE  ImageSpec => []PublishedImageIsAProgram
  <1>1. ImageInv => PublishedImageIsAProgram
    BY DEF ImageInv
  <1>2. ImageInv /\ [ImageNext]_imageVars => ImageInv'
    BY ImageStepInv
  <1>3. QED
    BY <1>1, <1>2, ImageInitInv, PTL DEF ImageSpec
-----------------------------------------------------------------------------
(* Reads: an element of an aligned tensor lies in one line, and it is the  *)
(* tensor's.                                                               *)

LEMMA ReadFits ==
  ASSUME NEW o \in Nat, o % Alignment = 0, NEW i \in Nat, NEW b \in {1, 2, 4}
  PROVE  Fitting(o + i * b, b)
  <1>0. /\ Alignment \in Nat \ {0} /\ WordBytes \in Nat \ {0}
        /\ WordBytes % 4 = 0 /\ Alignment % WordBytes = 0
    BY ImageAssumption, MappingAssumption
  <1>1. PICK c \in Nat \ {0} : WordBytes = b * c
    <2>1. PICK w \in Nat : WordBytes = 4 * w
      BY <1>0, Quotients, 4 \in Nat \ {0}
    <2>2. w \in Nat \ {0}
      BY <2>1, <1>0
    <2>3. CASE b = 1
      BY <2>1, <2>2, <2>3, 4 * w \in Nat \ {0}
    <2>4. CASE b = 2
      BY <2>1, <2>2, <2>4, 2 * w \in Nat \ {0}
    <2>5. CASE b = 4
      BY <2>1, <2>2, <2>5
    <2>6. QED
      BY <2>3, <2>4, <2>5
  <1>2. PICK v \in Nat : o = WordBytes * v
    <2>1. PICK a \in Nat : Alignment = WordBytes * a
      <3>1. /\ Alignment \div WordBytes \in Nat
            /\ Alignment = WordBytes * (Alignment \div WordBytes) + (Alignment % WordBytes)
        BY <1>0, Quotients
      <3>2. PICK k \in Nat : k = Alignment \div WordBytes
        BY <3>1
      <3>3. Alignment = WordBytes * k + 0 /\ WordBytes * k \in Nat
        BY <3>1, <3>2, <1>0
      <3>4. QED
        BY <3>3
    <2>2. PICK u \in Nat : o = Alignment * u
      <3>1. o \div Alignment \in Nat /\ o = Alignment * (o \div Alignment) + (o % Alignment)
        BY <1>0, Quotients
      <3>2. PICK k \in Nat : k = o \div Alignment
        BY <3>1
      <3>3. o = Alignment * k + 0 /\ Alignment * k \in Nat
        BY <3>1, <3>2, <1>0
      <3>4. QED
        BY <3>3
    <2>3. o = WordBytes * (a * u) /\ a * u \in Nat
      BY <2>1, <2>2, <1>0
    <2>4. QED
      BY <2>3
  <1>3. PICK q \in Nat, r \in 0 .. c - 1 : i = c * q + r
    <2>1. i \div c \in Nat /\ i % c \in 0 .. c - 1 /\ i = c * (i \div c) + (i % c)
      BY Quotients
    <2>2. QED
      BY <2>1, Zenon
  <1>4. PICK m \in Nat : m = r * b /\ m + b <= WordBytes
    <2>1. CASE b = 1
      BY <2>1, <1>1
    <2>2. CASE b = 2
      BY <2>2, <1>1
    <2>3. CASE b = 4
      BY <2>3, <1>1
    <2>4. QED
      BY <2>1, <2>2, <2>3
  <1>5. i * b = WordBytes * q + m
    BY <1>1, <1>3, <1>4
  <1>6. o + i * b = WordBytes * (v + q) + m
    <2>1. o + i * b = WordBytes * v + (WordBytes * q + m)
      BY <1>2, <1>5
    <2>2. WordBytes * v \in Nat /\ WordBytes * q \in Nat
      BY <1>0
    <2>3. WordBytes * (v + q) = WordBytes * v + WordBytes * q
      BY <1>0
    <2>4. QED
      BY <2>1, <2>2, <2>3
  <1>7. (WordBytes * (v + q) + m) % WordBytes = m
    <2>1. v + q \in Nat /\ m \in 0 .. WordBytes - 1
      BY <1>4, <1>0
    <2>2. QED
      BY <2>1, <1>0, Digits
  <1>8. QED
    BY <1>4, <1>6, <1>7 DEF Fitting

LEMMA ElementIsRead ==
  ASSUME NEW image \in Seq(Nat), NEW s \in Segment, NEW t \in Tensor, Holds(image, s, t),
         NEW b \in Nat, NEW d \in Nat, s.length = b * d, NEW i \in 0 .. d - 1
  PROVE  BytesAt(image, s.offset + i * b, b) = SubSeq(t.payload, i * b + 1, (i + 1) * b)
  <1>1. PICK o \in Nat, l \in Nat, top \in Nat : o = s.offset /\ l = s.length /\ top = Len(image)
    BY LenProperties DEF Segment
  <1>2. PICK x \in Nat : x = i * b /\ (i + 1) * b = x + b /\ x + b <= l
    <2>1. PICK e \in Nat : d = i + 1 + e
      BY d - i - 1 \in Nat
    <2>2. b * d = i * b + b + b * e /\ b * e \in Nat /\ i * b \in Nat /\ (i + 1) * b = i * b + b
      BY <2>1
    <2>3. QED
      BY <2>2, <1>1
  <1>3. /\ t.payload \in Seq(Nat) /\ Len(t.payload) = l /\ o + l <= top
        /\ \A k \in 1 .. l : image[o + k] = t.payload[k]
    BY <1>1 DEF Holds, Tensor
  <1>4. t.payload \in [1 .. l -> Nat]
    BY <1>3, LenProperties
  <1>5. ASSUME NEW k \in o + x + 1 .. o + x + b PROVE image[k] \in Nat /\ image[k] = t.payload[k - o]
    <2>1. k - o \in 1 .. l /\ o + (k - o) = k
      BY <1>2
    <2>2. image[o + (k - o)] = t.payload[k - o]
      BY <2>1, <1>3
    <2>3. QED
      BY <2>1, <2>2, <1>4
  <1>6. /\ SubSeq(image, o + x + 1, o + x + b) \in Seq(Nat)
        /\ Len(SubSeq(image, o + x + 1, o + x + b)) = b
        /\ \A k \in 1 .. b : SubSeq(image, o + x + 1, o + x + b)[k] = t.payload[x + k]
    <2>1. /\ SubSeq(image, o + x + 1, o + x + b) \in Seq(Nat)
          /\ Len(SubSeq(image, o + x + 1, o + x + b))
               = IF o + x + 1 <= o + x + b THEN (o + x + b) - (o + x + 1) + 1 ELSE 0
          /\ \A k \in 1 .. (o + x + b) - (o + x + 1) + 1 :
               SubSeq(image, o + x + 1, o + x + b)[k] = image[(o + x + 1) + k - 1]
      BY <1>5, SubSeqProperties, o + x + 1 \in Int, o + x + b \in Int
    <2>2. Len(SubSeq(image, o + x + 1, o + x + b)) = b
      BY <2>1
    <2>3. ASSUME NEW k \in 1 .. b PROVE SubSeq(image, o + x + 1, o + x + b)[k] = t.payload[x + k]
      <3>1. /\ (o + x + 1) + k - 1 = o + x + k /\ k \in 1 .. (o + x + b) - (o + x + 1) + 1
            /\ o + x + k \in o + x + 1 .. o + x + b /\ (o + x + k) - o = x + k
        OBVIOUS
      <3>2. SubSeq(image, o + x + 1, o + x + b)[k] = image[o + x + k]
        BY <2>1, <3>1
      <3>3. image[o + x + k] = t.payload[x + k]
        BY <1>5, <3>1
      <3>4. QED
        BY <3>2, <3>3
    <2>4. QED
      BY <2>1, <2>2, <2>3
  <1>7. /\ SubSeq(t.payload, x + 1, x + b) \in Seq(Nat)
        /\ Len(SubSeq(t.payload, x + 1, x + b)) = b
        /\ \A k \in 1 .. b : SubSeq(t.payload, x + 1, x + b)[k] = t.payload[x + k]
    <2>1. \A k \in x + 1 .. x + b : t.payload[k] \in Nat
      <3>1. \A k \in x + 1 .. x + b : k \in 1 .. l
        BY <1>2
      <3>2. QED
        BY <3>1, <1>4
    <2>2. /\ SubSeq(t.payload, x + 1, x + b) \in Seq(Nat)
          /\ Len(SubSeq(t.payload, x + 1, x + b))
               = IF x + 1 <= x + b THEN (x + b) - (x + 1) + 1 ELSE 0
          /\ \A k \in 1 .. (x + b) - (x + 1) + 1 :
               SubSeq(t.payload, x + 1, x + b)[k] = t.payload[(x + 1) + k - 1]
      BY <2>1, SubSeqProperties, x + 1 \in Int, x + b \in Int
    <2>3. Len(SubSeq(t.payload, x + 1, x + b)) = b
      BY <2>2
    <2>4. ASSUME NEW k \in 1 .. b PROVE SubSeq(t.payload, x + 1, x + b)[k] = t.payload[x + k]
      <3>1. (x + 1) + k - 1 = x + k /\ k \in 1 .. (x + b) - (x + 1) + 1
        OBVIOUS
      <3>2. QED
        BY <2>2, <3>1
    <2>5. QED
      BY <2>2, <2>3, <2>4
  <1>8. SubSeq(image, o + x + 1, o + x + b) = SubSeq(t.payload, x + 1, x + b)
    BY <1>6, <1>7, SeqEqual
  <1>9. QED
    BY <1>1, <1>2, <1>8 DEF BytesAt
-----------------------------------------------------------------------------
(* The mapping.  What is published is some program's image, a receipt      *)
(* holds a generated design's port table and the words of one program, and *)
(* the generator's copy of a receipt is one that was written.              *)

IsBinding(r) ==
  \E q \in Programs : r.words = [n \in BoundPorts |-> Globals(q, n)]
IsAudit(r) == r.abi \in Designs /\ IsBinding(r.bindings)
PublicationInv == published \in Publications
ReceiptsInv ==
  /\ design \in Designs /\ memoryAbi \in Designs
  /\ bindings.there => IsBinding(bindings)
  /\ compatibility.there => IsAudit(compatibility)
  /\ mapper.pc \in {"bindings", "image"} => IsAudit(mapper.compatibility)
MappingInv == PublicationInv /\ ReceiptsInv /\ MappedReadsAreTensors

\* What the property says of one map.
ReadsTensors(map) ==
  \E p \in Programs :
    \A n \in LearnedPorts :
      LET row     == map.rows[n]
          payload == TensorOf(p, row.name).payload
          bytes   == map.abi[n].width \div 8
      IN
      /\ row.name \in Names(p)
      /\ IF n \in BoundPorts THEN payload = Globals(p, n) ELSE row.name = FixedName(n)
      /\ Len(payload) = bytes * map.abi[n].depth
      /\ \A i \in 0 .. map.abi[n].depth - 1 :
           LET address == row.offset + i * bytes IN
           /\ Fitting(address, bytes)
           /\ BytesAt(map.image, address, bytes)
                = SubSeq(payload, i * bytes + 1, (i + 1) * bytes)

\* One port: a segment that fits it holds a tensor of the published program.
LEMMA FittingSegment ==
  ASSUME NEW p \in Programs, published = Publication(p), ReceiptsInv, mapper.pc = "image",
         NEW n \in LearnedPorts, NEW s \in Candidates(n), SegmentFits(n, s)
  PROVE  /\ s.name \in Names(p)
         /\ n \notin BoundPorts => s.name = FixedName(n)
         /\ n \in BoundPorts => TensorOf(p, s.name).payload = mapper.bindings.words[n]
         /\ Len(TensorOf(p, s.name).payload)
              = (mapper.compatibility.abi[n].width \div 8) * mapper.compatibility.abi[n].depth
         /\ \A i \in 0 .. mapper.compatibility.abi[n].depth - 1 :
              LET bytes == mapper.compatibility.abi[n].width \div 8 IN
              /\ Fitting(s.offset + i * bytes, bytes)
              /\ BytesAt(Supplied.image, s.offset + i * bytes, bytes)
                   = SubSeq(TensorOf(p, s.name).payload, i * bytes + 1, (i + 1) * bytes)
  <1>1. PICK image, segs : image = Packed(p).bytes /\ segs = Packed(p).segments
    OBVIOUS
  <1>2. IsImageOf(p, image, segs)
    BY <1>1, PackedHolds
  <1>3. Supplied.image = image /\ Supplied.manifest.segments = segs
    BY <1>1 DEF Supplied, Manifest, Publication
  <1>4. s \in Range(segs) /\ (n \notin BoundPorts => s.name = FixedName(n))
    BY <1>3 DEF Candidates
  <1>5. PICK k \in 1 .. Len(segs) : s = segs[k]
    <2>1. segs \in [1 .. Len(segs) -> Segment]
      BY <1>2, Zenon DEF IsImageOf
    <2>2. QED
      BY <1>4, <2>1 DEF Range
  <1>6. PICK t \in Tensor : t = TensorOf(p, s.name)
    BY <1>2, <1>5, TensorsByName, Zenon DEF IsImageOf
  <1>7. /\ s.name \in Names(p) /\ Holds(image, s, t) /\ s \in Segment /\ image \in Seq(Nat)
    <2>1. /\ image \in Seq(Nat) /\ segs \in [1 .. Len(segs) -> Segment]
          /\ segs[k].name \in Names(p) /\ Holds(image, segs[k], TensorOf(p, segs[k].name))
      BY <1>2, Zenon DEF IsImageOf
    <2>2. QED
      BY <2>1, <1>5, <1>6
  <1>8. PICK port : port = mapper.compatibility.abi[n] /\ port.width \in Nat /\ port.depth \in Nat
    BY MappingAssumption DEF ReceiptsInv, IsAudit
  <1>9. PICK b \in {1, 2, 4} : b = port.width \div 8
    <2>1. s.dtype \in DOMAIN Width /\ 8 * Width[s.dtype] = port.width
      BY <1>8, Zenon DEF SegmentFits
    <2>2. Width[s.dtype] \in {1, 2, 4}
      BY <2>1 DEF Width
    <2>3. QED
      BY <2>1, <2>2, <1>8
  <1>10. s.length = b * port.depth
    BY <1>8, <1>9 DEF SegmentFits
  <1>11. n \in BoundPorts => t.payload = mapper.bindings.words[n]
    <2>1. Bytes(image, s) = t.payload
      BY <1>7, BytesAreHeld
    <2>2. QED
      BY <2>1, <1>3, Zenon DEF SegmentFits
  <1>12. Len(t.payload) = b * port.depth /\ s.offset \in Nat /\ s.offset % Alignment = 0
    BY <1>7, <1>10 DEF Holds, Segment
  <1>13. ASSUME NEW i \in 0 .. port.depth - 1
         PROVE  /\ Fitting(s.offset + i * b, b)
                /\ BytesAt(image, s.offset + i * b, b) = SubSeq(t.payload, i * b + 1, (i + 1) * b)
    <2>1. i \in Nat /\ b \in Nat
      BY <1>8
    <2>2. Fitting(s.offset + i * b, b)
      BY <2>1, <1>12, ReadFits
    <2>3. BytesAt(image, s.offset + i * b, b) = SubSeq(t.payload, i * b + 1, (i + 1) * b)
      <3>1. PICK d \in Nat : d = port.depth
        BY <1>8
      <3>2. i \in 0 .. d - 1 /\ s.length = b * d
        BY <3>1, <1>10
      <3>3. QED
        BY <2>1, <3>2, <1>7, ElementIsRead, ZenonT(60)
    <2>4. QED
      BY <2>2, <2>3
  <1>14. QED
    BY <1>3, <1>4, <1>6, <1>7, <1>8, <1>9, <1>11, <1>12, <1>13
LEMMA MappingInitInv == MappingInit => MappingInv
  <1> SUFFICES ASSUME MappingInit PROVE MappingInv
    OBVIOUS
  <1>1. PublicationInv /\ ReceiptsInv
    BY DEF MappingInit, ReceiptsInit, PublicationInv, ReceiptsInv, NotThere, IdleMapper
  <1>2. MappedReadsAreTensors
    BY DEF MappingInit, ReceiptsInit, MappedReadsAreTensors, NotThere
  <1>3. QED
    BY <1>1, <1>2 DEF MappingInv

LEMMA MappingStays ==
  ASSUME MappingInv, UNCHANGED mapping PROVE MappedReadsAreTensors'
  BY DEF MappingInv, MappedReadsAreTensors

\* The map that is made reads the tensors of the program that is published.
LEMMA MapReadsTensors ==
  ASSUME GlobalsTellPrograms, MappingInv, Map, OneBuild, WellFormed, Mappable
  PROVE  MappedReadsAreTensors'
  <1>1. PICK p \in Programs : published = Publication(p)
    BY Zenon DEF MappingInv, PublicationInv, Publications
  <1>2. ReceiptsInv /\ mapper.pc = "image"
    BY Zenon DEF MappingInv, Map
  <1>3. PICK q \in Programs : mapper.bindings.words = [n \in BoundPorts |-> Globals(q, n)]
    <2>1. mapper.compatibility.bindings = mapper.bindings
      BY Zenon DEF OneBuild
    <2>2. IsBinding(mapper.bindings)
      BY <1>2, <2>1 DEF ReceiptsInv, IsAudit
    <2>3. QED
      BY <2>2, Zenon DEF IsBinding
  <1> DEFINE chosen(n) == CHOOSE s \in Candidates(n) : TRUE
             map == [there |-> TRUE, image |-> Supplied.image, abi |-> mapper.compatibility.abi,
                     rows |-> [n \in LearnedPorts |->
                                 [offset |-> chosen(n).offset, name |-> chosen(n).name]]]
  <1>4. mapping' = map
    BY Zenon DEF Map
  <1>5. ASSUME NEW n \in LearnedPorts PROVE chosen(n) \in Candidates(n) /\ SegmentFits(n, chosen(n))
    <2>1. PICK s \in Candidates(n) : Candidates(n) = {s} /\ SegmentFits(n, s)
      BY Zenon DEF Mappable
    <2>2. chosen(n) \in Candidates(n)
      BY <2>1, Zenon
    <2> HIDE DEF chosen
    <2>3. chosen(n) = s
      BY <2>1, <2>2
    <2>4. QED
      BY <2>1, <2>2, <2>3
  <1> HIDE DEF chosen
  <1>6. ASSUME NEW n \in BoundPorts PROVE TensorOf(p, chosen(n).name).payload = Globals(p, n)
    <2>1. \A b \in BoundPorts :
            /\ chosen(b).name \in Names(p)
            /\ TensorOf(p, chosen(b).name).payload = Globals(q, b)
      <3>1. ASSUME NEW b \in BoundPorts
            PROVE  /\ chosen(b).name \in Names(p)
                   /\ TensorOf(p, chosen(b).name).payload = Globals(q, b)
        <4>1. b \in LearnedPorts
          BY DEF LearnedPorts
        <4>2. /\ chosen(b).name \in Names(p)
              /\ TensorOf(p, chosen(b).name).payload = mapper.bindings.words[b]
          BY <4>1, <1>1, <1>2, <1>5, FittingSegment, Zenon
        <4>3. QED
          BY <4>2, <1>3
      <3>2. QED
        BY <3>1
    <2>2. \A b \in BoundPorts : \E t \in Range(Tensors(p)) : t.payload = Globals(q, b)
      <3>1. ASSUME NEW b \in BoundPorts PROVE \E t \in Range(Tensors(p)) : t.payload = Globals(q, b)
        <4>1. PICK m \in 1 .. Len(Tensors(p)) : TensorOf(p, chosen(b).name) = Tensors(p)[m]
          BY <2>1, TensorsByName, Zenon
        <4>2. Tensors(p)[m] \in Range(Tensors(p))
          <5>1. DOMAIN Tensors(p) = 1 .. Len(Tensors(p))
            BY TensorsByName
          <5>2. QED
            BY <5>1 DEF Range
        <4>3. QED
          BY <2>1, <4>1, <4>2, Zenon
      <3>2. QED
        BY <3>1
    <2>3. Globals(p, n) = Globals(q, n)
      BY <2>2, Zenon DEF GlobalsTellPrograms
    <2>4. QED
      BY <2>1, <2>3
  <1>7. ASSUME NEW n \in LearnedPorts
        PROVE  LET row     == map.rows[n]
                   payload == TensorOf(p, row.name).payload
                   bytes   == map.abi[n].width \div 8
               IN
               /\ row.name \in Names(p)
               /\ IF n \in BoundPorts THEN payload = Globals(p, n) ELSE row.name = FixedName(n)
               /\ Len(payload) = bytes * map.abi[n].depth
               /\ \A i \in 0 .. map.abi[n].depth - 1 :
                    LET address == row.offset + i * bytes IN
                    /\ Fitting(address, bytes)
                    /\ BytesAt(map.image, address, bytes)
                         = SubSeq(payload, i * bytes + 1, (i + 1) * bytes)
    <2>1. PICK s \in Candidates(n) : s = chosen(n) /\ SegmentFits(n, s)
      BY <1>5
    <2>2. /\ map.rows[n].offset = s.offset /\ map.rows[n].name = s.name
          /\ map.abi = mapper.compatibility.abi /\ map.image = Supplied.image
      BY <2>1
    <2> HIDE DEF map
    <2>3. /\ s.name \in Names(p)
          /\ n \notin BoundPorts => s.name = FixedName(n)
          /\ Len(TensorOf(p, s.name).payload)
              = (mapper.compatibility.abi[n].width \div 8) * mapper.compatibility.abi[n].depth
          /\ \A i \in 0 .. mapper.compatibility.abi[n].depth - 1 :
              LET bytes == mapper.compatibility.abi[n].width \div 8 IN
              /\ Fitting(s.offset + i * bytes, bytes)
              /\ BytesAt(Supplied.image, s.offset + i * bytes, bytes)
                   = SubSeq(TensorOf(p, s.name).payload, i * bytes + 1, (i + 1) * bytes)
      BY <2>1, <1>1, <1>2, FittingSegment, Zenon
    <2>4. n \in BoundPorts => TensorOf(p, s.name).payload = Globals(p, n)
      BY <2>1, <1>6
    <2>5. QED
      BY <2>2, <2>3, <2>4, Zenon
  <1> HIDE DEF map
  <1>8. ReadsTensors(map)
    BY <1>7, Zenon DEF ReadsTensors
  <1>9. QED
    BY <1>4, <1>8, ZenonT(60) DEF ReadsTensors, MappedReadsAreTensors

LEMMA MappingStepInv ==
  ASSUME GlobalsTellPrograms, MappingInv, [MappingNext]_mappingVars
  PROVE  MappingInv'
  <1>1. PublicationInv /\ ReceiptsInv
    BY DEF MappingInv
  <1>2. CASE Regenerate
    <2>1. PublicationInv' /\ ReceiptsInv'
      BY <1>1, <1>2 DEF Regenerate, PublicationInv, ReceiptsInv
    <2>2. QED
      BY <2>1, <1>2, MappingStays DEF MappingInv, Regenerate
  <1>3. CASE EmitAbi
    <2>1. PublicationInv' /\ ReceiptsInv'
      BY <1>1, <1>3 DEF EmitAbi, PublicationInv, ReceiptsInv
    <2>2. QED
      BY <2>1, <1>3, MappingStays DEF MappingInv, EmitAbi
  <1>4. CASE ExtractEvidence
    <2>1. PublicationInv' /\ ReceiptsInv'
      BY <1>1, <1>4 DEF ExtractEvidence, PublicationInv, ReceiptsInv
    <2>2. QED
      BY <2>1, <1>4, MappingStays DEF MappingInv, ExtractEvidence
  <1>5. CASE Bind
    <2>1. IsBinding(bindings')
      <3>1. PICK p \in Programs : bindings'.words = [n \in BoundPorts |-> Globals(p, n)]
        BY <1>5 DEF Bind
      <3>2. QED
        BY <3>1, Zenon DEF IsBinding
    <2>2. PublicationInv' /\ ReceiptsInv'
      BY <1>1, <1>5, <2>1 DEF Bind, PublicationInv, ReceiptsInv
    <2>3. QED
      BY <2>2, <1>5, MappingStays DEF MappingInv, Bind
  <1>6. CASE Audit
    <2>1. IsAudit(compatibility')
      <3>1. compatibility'.abi = memoryAbi /\ compatibility'.bindings = bindings /\ bindings.there
        BY <1>6 DEF Audit, Audited
      <3>2. QED
        BY <3>1, <1>1 DEF IsAudit, ReceiptsInv
    <2>2. PublicationInv' /\ ReceiptsInv'
      BY <1>1, <1>6, <2>1 DEF Audit, PublicationInv, ReceiptsInv
    <2>3. QED
      BY <2>2, <1>6, MappingStays DEF MappingInv, Audit
  <1>7. CASE ReadCompatibility
    <2>1. PublicationInv' /\ ReceiptsInv'
      BY <1>1, <1>7 DEF ReadCompatibility, PublicationInv, ReceiptsInv
    <2>2. QED
      BY <2>1, <1>7, MappingStays DEF MappingInv, ReadCompatibility
  <1>8. CASE ReadBindings
    <2>1. PublicationInv' /\ ReceiptsInv'
      BY <1>1, <1>8 DEF ReadBindings, PublicationInv, ReceiptsInv
    <2>2. QED
      BY <2>1, <1>8, MappingStays DEF MappingInv, ReadBindings
  <1>9. CASE Map
    <2>1. mapper'.pc \notin {"bindings", "image"}
      BY <1>9 DEF Map, IdleMapper
    <2>2. PublicationInv' /\ ReceiptsInv'
      BY <1>1, <1>9, <2>1 DEF Map, PublicationInv, ReceiptsInv
    <2>3. MappedReadsAreTensors'
      <3>1. CASE OneBuild /\ WellFormed /\ Mappable
        BY <1>9, <3>1, MapReadsTensors, Zenon
      <3>2. CASE ~(OneBuild /\ WellFormed /\ Mappable)
        <4>1. UNCHANGED mapping
          BY <1>9, <3>2, Zenon DEF Map
        <4>2. QED
          BY <4>1, MappingStays
      <3>3. QED
        BY <3>1, <3>2
    <2>4. QED
      BY <2>2, <2>3 DEF MappingInv
  <1>10. CASE UNCHANGED mappingVars
    <2>1. PublicationInv' /\ ReceiptsInv'
      BY <1>1, <1>10 DEF mappingVars, receiptVars, PublicationInv, ReceiptsInv
    <2>2. QED
      BY <2>1, <1>10, MappingStays DEF MappingInv, mappingVars, receiptVars
  <1>11. QED
    BY <1>2, <1>3, <1>4, <1>5, <1>6, <1>7, <1>8, <1>9, <1>10 DEF MappingNext

(* Supposing that globals tell programs, through a map that is emitted     *)
(* every element of every learned port is read in one line of DDR3, and it *)
(* is the element of that port's tensor, all of one program: for any       *)
(* designs, images and programs, made anew between any two receipts.       *)
THEOREM MapsReadTensors ==
  ASSUME GlobalsTellPrograms
  PROVE  MappingSpec => []MappedReadsAreTensors
  <1>1. MappingInv => MappedReadsAreTensors
    BY DEF MappingInv
  <1>2. MappingInv /\ [MappingNext]_mappingVars => MappingInv'
    BY MappingStepInv
  <1>3. QED
    BY <1>1, <1>2, MappingInitInv, PTL DEF MappingSpec
=============================================================================
