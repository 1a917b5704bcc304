----------------------------- MODULE MCWorkingImage -----------------------------
(* Programs that differ in values, in a size, in a type, in the graph alone, *)
(* and in a tensor that cannot be packed; designs that differ in a size, in  *)
(* a width and in how a write enable is written.                             *)
EXTENDS DDR3Mapping

T(category, name, dtype, shape, payload) ==
    [category |-> category, name |-> name, dtype |-> dtype, shape |-> shape, payload |-> payload]

MCTensors(p) ==
    <<T("state", "zero", "float32", <<>>, <<0, 0, 0, 0>>),
      IF p = "wide" THEN T("state", "p0", "int8", <<9>>, <<1, 2, 3, 4, 5, 6, 7, 8, 9>>)
      ELSE T("state", "p0", IF p = "cast" THEN "uint8" ELSE "int8", <<2>>,
             IF p = "new" THEN <<5, 6>> ELSE <<1, 2>>),
      T("state", "w", "float32", <<2>>, <<IF p = "new" THEN 8 ELSE 7, 1, 1, 1, 2, 2, 2, 2>>),
      T("state", "p1", "int16", <<2>>, <<3, 0, 4, 0>>),
      T("constants", "c", IF p = "odd" THEN "complex64" ELSE "int8", <<1>>, <<9>>)>>

MCAnswer(graph, values, c) ==
    IF c = "a" THEN <<values[<<"state", "p0">>][1], 1>>
    ELSE <<values[<<"state", "w">>][1], IF graph = "twin" THEN 0 ELSE 1>>

MCNames == <<"c", "p0", "p1", "w", "zero">>
Rank(name) == CHOOSE n \in 1..Len(MCNames) : MCNames[n] = name
MCBefore(a, b) == Rank(a) < Rank(b)

MCFixedName(n) == <<"state", IF n = 0 THEN "p0" ELSE "p1">>
MCGlobals(p, n) == IF n = 4 THEN <<0, 0, 0, 0>> ELSE TensorOf(p, <<"state", "w">>).payload

Table(width, depth, enable, boundDepth) ==
    [n \in {0, 1, 4, 5} |->
        CASE n = 0 -> [width |-> width, depth |-> depth, enable |-> enable]
          [] n = 1 -> [width |-> 16, depth |-> 2, enable |-> "zero"]
          [] n = 4 -> [width |-> 32, depth |-> 1, enable |-> "zero"]
          [] n = 5 -> [width |-> 32, depth |-> boundDepth, enable |-> "zero"]]
MCDesign == Table(8, 2, "zero", 2)
MCDesigns == {MCDesign, Table(8, 2, "zero", 4), Table(16, 1, "zero", 2),
              Table(8, 2, "zero arms", 2), Table(8, 4, "zero", 2)}

\* What the theorems suppose of programs and corpus holds of these.
ASSUME SuppositionsHold == CorpusTellsPrograms /\ GlobalsTellPrograms

\* The image is made and published, or it is published and mapped.
VARIABLE phase

workingVars == <<phase, scriptVars, mappingVars>>

WorkingInit ==
    /\ phase \in {"image", "map"}
    /\ ScriptsInit
    /\ ReceiptsInit
    /\ IF phase = "image" THEN published = NothingOut /\ design = MCDesign
       ELSE published \in Publications /\ exported = "old"
WorkingNext ==
    /\ UNCHANGED phase
    /\ \/ phase = "image" /\ ImageNext /\ UNCHANGED receiptVars
       \/ phase = "map" /\ MappingNext /\ UNCHANGED scriptVars
WorkingSpec == WorkingInit /\ [][WorkingNext]_workingVars
=============================================================================
