------------------------------ MODULE MemRefViews ------------------------------
(***************************************************************************)
(* The pass LowerStaticMemRefViewsForCalyx of FoldConstantTruncFOps.cpp on *)
(* a function with two buffers, views of them, and one access: it flattens *)
(* the types of globals and arguments in place, resolves each view to an   *)
(* offset and strides in a flat buffer, and rewrites the access.           *)
(*                                                                         *)
(* An access stands for itself at all of its indices.                      *)
(***************************************************************************)
EXTENDS Integers, Sequences, SequencesExt

CONSTANTS
    Signatures,        \* pairs of buffers [op: argument, global or alloc, shape]
    Casts,             \* [offset, shape, strides] a reinterpret_cast may ask for
    Factors,           \* the sizes an expand_shape may split off
    MaxValues          \* bounds the function: its buffers and views

ASSUME MaxValues \in Nat

VARIABLES
    values,            \* the buffers and views, as the function has them
    types,             \* their shapes, as the pass has changed them
    access,            \* the access, as the pass has changed it
    argumentViews,     \* the arguments that were flattened
    lowering           \* what the pass does next, and its verdict

viewVars == <<values, types, access, argumentViews, lowering>>

-----------------------------------------------------------------------------
Size(shape) == FoldLeft(LAMBDA a, b : a * b, 1, shape)
getIdentityStrides(shape) == [n \in 1..Len(shape) |-> Size(SubSeq(shape, n + 1, Len(shape)))]
Flattened(shape) == IF Len(shape) <= 1 THEN shape ELSE <<Size(shape)>>
Indices(shape) == {index \in [1..Len(shape) -> 0..(Size(shape) - 1)] : \A n \in 1..Len(shape) : index[n] < shape[n]}
Linear(view, index) == FoldLeft(LAMBDA a, n : a + index[n] * view.strides[n], view.offset, [n \in 1..Len(index) |-> n])

(* The layout a value has: a buffer's is row-major, a cast's is its own, an  *)
(* expansion splits a dimension, a collapse joins two adjoining ones.        *)
Layout(v) ==
    LET layout[n \in 1..Len(values)] ==
          LET value == values[n] IN
          IF value.from = 0
          THEN [base |-> n, offset |-> 0, shape |-> value.shape, strides |-> getIdentityStrides(value.shape)]
          ELSE IF value.op = "cast"
          THEN [base |-> layout[value.from].base, offset |-> value.offset, shape |-> value.shape,
                strides |-> value.strides]
          ELSE LET s == layout[value.from].strides IN
               [layout[value.from] EXCEPT !.shape = value.shape,
                  !.strides = IF value.op = "expand"
                              THEN SubSeq(s, 1, value.at - 1) \o <<s[value.at] * value.shape[value.at + 1]>>
                                   \o SubSeq(s, value.at, Len(s))
                              ELSE SubSeq(s, 1, value.at - 1) \o SubSeq(s, value.at + 1, Len(s))]
    IN  layout[v]
RowMajor(v) == Layout(v).offset = 0 /\ Layout(v).strides = getIdentityStrides(values[v].shape)

-----------------------------------------------------------------------------
(* The function, as bufferization and flatten-memref leave it.             *)

Value(op, from, at, shape, offset, strides) ==
    [op |-> op, from |-> from, at |-> at, shape |-> shape, offset |-> offset, strides |-> strides]
NoAccess == [op |-> "none", of |-> <<>>, shape |-> <<>>, views |-> <<>>]

ViewsInit ==
    /\ \E buffers \in Signatures :
         values = [n \in 1..2 |-> Value(buffers[n].op, 0, 0, buffers[n].shape, 0, <<>>)]
    /\ types = <<>> /\ access = NoAccess /\ argumentViews = {}
    /\ lowering = [pc |-> "build", verdict |-> "none"]

AddCast(v) ==
    \E cast \in Casts :
      /\ \A index \in Indices(cast.shape) : Linear(cast, index) < Size(values[Layout(v).base].shape)
      /\ values' = Append(values, Value("cast", v, 0, cast.shape, cast.offset, cast.strides))
AddExpand(v) ==
    LET shape == values[v].shape IN
    \E at \in 1..Len(shape), f \in Factors :
      /\ shape[at] % f = 0
      /\ values' = Append(values, Value("expand", v, at,
                     SubSeq(shape, 1, at - 1) \o <<shape[at] \div f, f>> \o SubSeq(shape, at + 1, Len(shape)), 0, <<>>))
AddCollapse(v) ==
    LET shape == values[v].shape  s == Layout(v).strides IN
    \E at \in 1..(Len(shape) - 1) :
      /\ s[at] = s[at + 1] * shape[at + 1]
      /\ values' = Append(values, Value("collapse", v, at,
                     SubSeq(shape, 1, at - 1) \o <<shape[at] * shape[at + 1]>> \o SubSeq(shape, at + 2, Len(shape)), 0, <<>>))
AddView ==
    /\ Len(values) < MaxValues /\ lowering.pc = "build"
    /\ \E v \in 1..Len(values) : AddCast(v) \/ AddExpand(v) \/ AddCollapse(v)
    /\ UNCHANGED <<types, access, argumentViews, lowering>>

\* A load or store needs a flat global: flatten-memref has seen to that.
AddAccess ==
    /\ lowering.pc = "build"
    /\ \/ \E v \in 1..Len(values) :
            /\ values[v].op = "global" => Len(values[v].shape) <= 1
            /\ access' = [op |-> "load", of |-> <<v>>, shape |-> values[v].shape, views |-> <<>>]
       \/ \E v, w \in 1..Len(values) :
            /\ values[v].shape = values[w].shape
            /\ access' = [op |-> "copy", of |-> <<v, w>>, shape |-> values[v].shape, views |-> <<>>]
    /\ types' = [v \in 1..Len(values) |-> values[v].shape]
    /\ lowering' = [lowering EXCEPT !.pc = "globals"]
    /\ UNCHANGED <<values, argumentViews>>

-----------------------------------------------------------------------------
(* The pass.                                                               *)

Then(pc, next) == lowering.pc = pc /\ lowering' = [lowering EXCEPT !.pc = next]

flattenStaticIdentityMemRefGlobals ==
    /\ Then("globals", "arguments")
    /\ types' = [v \in DOMAIN types |-> IF values[v].op = "global" THEN Flattened(types[v]) ELSE types[v]]
    /\ UNCHANGED <<values, access, argumentViews>>

flattenStaticIdentityMemRefArguments ==
    /\ Then("arguments", "accesses")
    /\ argumentViews' = {v \in DOMAIN types : values[v].op = "argument" /\ Len(types[v]) > 1}
    /\ types' = [v \in DOMAIN types |-> IF v \in argumentViews' THEN Flattened(types[v]) ELSE types[v]]
    /\ UNCHANGED <<values, access>>

NoView == [base |-> 0, offset |-> 0, shape |-> <<>>, strides |-> <<>>]

\* Slip: a reshape of any view is row-major.
RowMajorAnyhow(view) == TRUE

RowMajorView(view) == view.strides = getIdentityStrides(view.shape)

getStaticView(v) ==
    LET Identity(base, offset, shape) ==
            [base |-> base, offset |-> offset, shape |-> shape, strides |-> getIdentityStrides(shape)]
        view[n \in DOMAIN types] ==
          LET value == values[n]  source == view[value.from] IN
          IF n \in argumentViews THEN Identity(n, 0, value.shape)
          ELSE IF value.op = "cast"
          THEN IF Len(types[value.from]) <= 1
               THEN [base |-> value.from, offset |-> value.offset, shape |-> value.shape, strides |-> value.strides]
               ELSE IF source = NoView THEN NoView
               ELSE [base |-> source.base, offset |-> source.offset + value.offset, shape |-> value.shape,
                     strides |-> value.strides]
          ELSE IF value.from # 0
          THEN IF source = NoView \/ ~RowMajorView(source) THEN NoView
               ELSE Identity(source.base, source.offset, value.shape)
          ELSE IF Len(types[n]) <= 1 THEN Identity(n, 0, types[n]) ELSE NoView
    IN  view[v]

\* An access that is direct already stays as it is.
Direct(v, view) == view.base = v /\ Len(access.shape) = Len(types[v])
rewriteLoad(view) == IF NoView = view \/ Direct(access.of[1], view) THEN <<>> ELSE <<view>>
rewriteCopy(source, target) ==
    IF \/ NoView \in {source, target} \/ source.shape # target.shape
       \/ <<source.base, target.base>> = access.of /\ Len(source.shape) <= 1
    THEN <<>> ELSE <<source, target>>
RewriteAccess ==
    LET views == [n \in 1..Len(access.of) |-> getStaticView(access.of[n])] IN
    /\ Then("accesses", "erase")
    /\ access' = [access EXCEPT !.views = IF access.op = "load" THEN rewriteLoad(views[1])
                                          ELSE rewriteCopy(views[1], views[2])]
    /\ UNCHANGED <<values, types, argumentViews>>

(* The unused casts, from the last to the first, then the unused expansions  *)
(* and then the collapses: an erased value is left as op "erased".           *)
Rewritten == access.views # <<>>
Used(v) == IF Rewritten THEN \E n \in 1..Len(access.views) : access.views[n].base = v
           ELSE \E n \in 1..Len(access.of) : access.of[n] = v
Erased(kind, ops) ==
    FoldRight(LAMBDA v, left :
                IF left[v] = kind /\ ~Used(v) /\ \A n \in 1..Len(ops) : left[n] # "erased" => values[n].from # v
                THEN [left EXCEPT ![v] = "erased"] ELSE left,
              [n \in 1..Len(ops) |-> n], ops)
Left == Erased("collapse", Erased("expand", Erased("cast", [v \in 1..Len(values) |-> values[v].op])))

(* What is left has to verify: a reshape of a flattened value, an access     *)
(* with the wrong number of indices or a copy between different shapes does  *)
(* not.                                                                      *)
Verifies ==
    /\ \A v \in 1..Len(values) :
         Left[v] \in {"expand", "collapse"} => types[values[v].from] = values[values[v].from].shape
    /\ ~Rewritten /\ access.op = "load" => Len(types[access.of[1]]) = Len(access.shape)
    /\ ~Rewritten /\ access.op = "copy" => types[access.of[1]] = types[access.of[2]]
EraseViews ==
    /\ lowering.pc = "erase"
    /\ lowering' = [pc |-> "done", verdict |-> IF Verifies THEN "lowered" ELSE "invalid"]
    /\ UNCHANGED <<values, types, access, argumentViews>>

ViewsNext ==
    \/ AddView \/ AddAccess \/ flattenStaticIdentityMemRefGlobals \/ flattenStaticIdentityMemRefArguments
    \/ RewriteAccess \/ EraseViews
ViewsSpec == ViewsInit /\ [][ViewsNext]_viewVars

-----------------------------------------------------------------------------
(* The element of its buffer that an access of v with these indices means,  *)
(* and the one that a rewritten access reaches.                             *)
ElementOf(v, index) == <<Layout(v).base, Linear(Layout(v), index)>>
Reached(view, index) ==
    LET layout == Layout(view.base) IN
    IF types[view.base] = <<>> THEN <<layout.base, layout.offset>>
    ELSE IF values[view.base].from = 0 THEN <<view.base, Linear(view, index)>>
    ELSE <<layout.base, layout.offset + Linear(view, index) * layout.strides[1]>>

(* A cast counts from the buffer itself, whatever its source is a view of.  *)
CastsAreOfWholeBuffers == \A v \in 1..Len(values) : values[v].op = "cast" => RowMajor(values[v].from)

(* The lowered access reaches, at every index, the element the access of    *)
(* the view meant, and a lowered copy copies every element to where the     *)
(* copy meant to -- however the views are chained, and although types have  *)
(* changed under them.                                                      *)
AccessIsKept ==
    lowering.verdict = "lowered" /\ Rewritten /\ CastsAreOfWholeBuffers =>
        \A n \in 1..Len(access.of) : \A index \in Indices(access.shape) :
            Reached(access.views[n], index) = ElementOf(access.of[n], index)
=============================================================================
