--------------------------- MODULE MCDDR3Transport ---------------------------
(* DDR3Transport on a small image whose bytes tell all addresses apart. *)
EXTENDS DDR3Transport

MCBytes == 0 .. LineBytes * Words
MCMemory == [w \in Word |-> [l \in Lane |-> 1 + LineBytes * w + l]]
=============================================================================
