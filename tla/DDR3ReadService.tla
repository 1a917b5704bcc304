--------------------------- MODULE DDR3ReadService ---------------------------
(***************************************************************************)
(* What the DDR3 transport promises its client: a memory that answers one  *)
(* read at a time.  A read it takes is answered once, with the bytes at    *)
(* that address or with a fault, unless a reset withdraws it; anything     *)
(* else is refused at once with a fault.                                   *)
(***************************************************************************)
CONSTANTS
  Contents,  (* Contents[a]: the bytes a client reads at address a         *)
  None,      (* no read outstanding                                        *)
  Silent,    (* no response                                                *)
  Fault      (* an error response                                          *)

VARIABLES request, response
serviceVars == <<request, response>>

Readable == DOMAIN Contents

Init == request = None /\ response = Silent

Take(a) == request = None /\ request' = a /\ response' = Silent

Refuse == request = None /\ response' = Fault /\ UNCHANGED request

Wait == response' = Silent /\ UNCHANGED request

Answer ==
  /\ request # None
  /\ response' \in {Contents[request], Fault}
  /\ request' = None

Withdraw == request' = None /\ response' = Silent

Next ==
  \/ \E a \in Readable : Take(a)
  \/ Refuse
  \/ Wait
  \/ Answer
  \/ Withdraw

Safe == Init /\ [][Next]_serviceVars

\* An outstanding read does not stay outstanding.
Prompt == request # None ~> request = None

Spec == Safe /\ Prompt
=============================================================================
