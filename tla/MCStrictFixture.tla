--------------------------- MODULE MCStrictFixture ---------------------------
(* Two lanes, so tokens are 0 and 1, and windows of two tokens: four        *)
(* contexts.  A shard of one or two of them, or a sequence that runs back.  *)
EXTENDS StrictFixture

Code(a, b) == [l \in Lane |-> IF l = 0 THEN a ELSE b]
MCOracle ==
  [i \in 0 .. 3 |->
     LET codes == CASE i = 0 -> Code(0, 0) [] i = 1 -> Code(0, 1)
                    [] i = 2 -> Code(1, 0) [] i = 3 -> Code(1, 1)
     IN [codes |-> codes, token |-> LowestArgmax(codes)]]
MCRequests ==
  [sequence : {FALSE}, indexes : {<<0>>, <<1, 2>>}]
    \cup [sequence : {TRUE}, indexes : {<<2, 1>>}]
=============================================================================
