----------------------------- MODULE SoftmaxPattern -----------------------------
(***************************************************************************)
(* The structural matcher of bridge_tinystories_1m_softmax.py.  A lowered  *)
(* graph is a row of loop nests that read and write buffers; the matcher   *)
(* recovers, for every exponential, the chain of nests that make it the    *)
(* softmax of one layer, although the layers may share their workspaces    *)
(* and their nests may come in any order.                                  *)
(*                                                                         *)
(* A nest runs over its whole domain, so it is one operation on whole      *)
(* buffers; an index expression is that of the domain or another one.      *)
(***************************************************************************)
EXTENDS Naturals, Sequences, FiniteSets

CONSTANTS
    expected_exp_sites,  \* how many softmaxes the caller expects, one a layer
    Sharings             \* the sets of workspaces that layers may share

Layers == 1..expected_exp_sites

ASSUME PatternAssumption ==
    /\ expected_exp_sites \in Nat \ {0}
    /\ \A sharing \in Sharings : sharing \subseteq {"max", "delta", "exp"}

\* What may be wrong with one nest of a layer.
NestFlaws == {[kind |-> "mask", what |-> "argument"], [kind |-> "max", what |-> "operand"],
          [kind |-> "max", what |-> "seed"], [kind |-> "delta", what |-> "index"],
          [kind |-> "exp", what |-> "index"], [kind |-> "sum", what |-> "index"],
          [kind |-> "sum", what |-> "seed"], [kind |-> "div", what |-> "index"],
          [kind |-> "div", what |-> "operand"]}
Sound == [layer |-> 0, nest |-> [kind |-> "none", what |-> "none"]]

VARIABLES
    shared,            \* the workspaces the layers of this graph share
    flaw,              \* the layer that is wrong, and what is wrong with it
    graph,             \* the nests so far
    matcher            \* the chains it has found, and what they occupy

patternVars == <<shared, flaw, graph, matcher>>

-----------------------------------------------------------------------------
(* The graph: the nests of a layer come in their order, those of several   *)
(* layers in any.  A layer's scores and its sum are in buffers of its own. *)

NestKinds == <<"max", "delta", "exp", "sum", "div">>
Wrong(l, kind, what) == flaw = [layer |-> l, nest |-> [kind |-> kind, what |-> what]]
Other(l) == 1 + (l % expected_exp_sites)

\* A view has a layer's own name and, where layers share, one base.
canonical_memref(view) == IF view[1] \in shared THEN <<view[1], 0>> ELSE view

FirstOperand(kind, l) ==
    IF kind = "mask" \/ (kind = "max" /\ Wrong(l, "max", "operand")) THEN <<"raw", l>>
    ELSE IF kind \in {"max", "delta"} THEN <<"score", l>>
    ELSE IF kind = "exp" THEN <<"delta", l>>
    ELSE <<"exp", l>>
SecondOperand(kind, l) ==
    IF kind = "delta" THEN <<"max", l>>
    ELSE IF kind = "div" THEN <<"sum", IF Wrong(l, "div", "operand") THEN Other(l) ELSE l>>
    ELSE <<"none", 0>>

Nest(kind, l) ==
    [kind |-> kind, layer |-> l, a |-> FirstOperand(kind, l), b |-> SecondOperand(kind, l),
     into |-> IF kind \in {"mask", "div"} THEN <<"score", l>> ELSE <<kind, l>>,
     domain |-> ~Wrong(l, kind, "index"), seeded |-> ~Wrong(l, kind, "seed"),
     mask |-> IF Wrong(l, "mask", "argument") THEN Other(l) ELSE l]

Lines == 1..Len(graph)
Emitted(kind, l) == \E n \in Lines : graph[n].kind = kind /\ graph[n].layer = l

Unmatched == [regions |-> {}, sums |-> {}, causal |-> {}, chains |-> <<>>, verdict |-> "none"]

PatternInit ==
    /\ shared \in Sharings
    /\ \/ flaw = Sound
       \/ shared = {} /\ flaw \in [layer: Layers, nest: NestFlaws]
    /\ graph = [l \in Layers |-> Nest("mask", l)]
    /\ matcher = Unmatched

AddNest ==
    /\ matcher = Unmatched
    /\ \E l \in Layers, k \in DOMAIN NestKinds :
         /\ ~Emitted(NestKinds[k], l)
         /\ \A earlier \in 1..(k - 1) : Emitted(NestKinds[earlier], l)
         /\ graph' = Append(graph, Nest(NestKinds[k], l))
    /\ UNCHANGED <<shared, flaw, matcher>>

-----------------------------------------------------------------------------
(* Matching the next exponential, which is the number-th.                  *)

number == Len(matcher.chains) + 1
ExpLines == {n \in Lines : graph[n].kind = "exp"}
Unseen == ExpLines \ {matcher.chains[i].exp : i \in DOMAIN matcher.chains}

\* An index is that of the nest's domain; a reduction starts from its seed.
same_index(n) == graph[n].domain
has_initialization(n) == graph[n].seeded
IsLast(n, S) == n \in S /\ \A k \in S : k <= n
IsFirst(n, S) == n \in S /\ \A k \in S : n <= k

StoresInto(view, before) ==
    {n \in 1..(before - 1) : canonical_memref(graph[n].into) = canonical_memref(view)}

\* Slip: a workspace may be used again while it is in use.
ReuseAnyhow(role, view, start) == start \in Lines

temporal_reuse_safe(role, view, start) ==
    \A r \in matcher.regions : r.role = role /\ r.base = canonical_memref(view) => r.end < start

(* The store of the loaded delta, a subtraction of a row's maximum from    *)
(* the row's score.                                                        *)
DeltaOf(exp, delta) ==
    /\ IsLast(delta, {n \in StoresInto(graph[exp].a, exp) : same_index(n)})
    /\ graph[delta].kind = "delta"
    /\ temporal_reuse_safe("delta", graph[delta].into, delta)

(* The last store into the maximum's buffer is a seeded reduction of the   *)
(* same score buffer.                                                      *)
RowMaxOf(delta, max) ==
    /\ IsLast(max, StoresInto(graph[delta].b, delta))
    /\ graph[max].kind = "max" /\ graph[max].a = graph[delta].a
    /\ \E n \in StoresInto(graph[delta].b, delta) : graph[n].kind = "max" /\ has_initialization(n)
    /\ \A view \in {graph[delta].a, graph[delta].b} : temporal_reuse_safe("operand", view, delta)

(* A reload of the exponentials, their sum from zero in an accumulator no  *)
(* other site has, and a division of a reload by that sum.                 *)
Reloads(exp) ==
    {n \in Lines : n > exp /\ same_index(n) /\ canonical_memref(graph[n].a) = canonical_memref(graph[exp].into)}
NormalizedBy(exp, sum, div) ==
    /\ graph[sum].kind = "sum" /\ graph[div].kind = "div" /\ sum \in Reloads(exp)
    /\ IsFirst(div, {n \in Reloads(exp) : n > sum /\ graph[n].kind = "div" /\ graph[n].b = graph[sum].into})
NormalizationOf(exp, sum, div) ==
    /\ NormalizedBy(exp, sum, div)
    /\ \A s, d \in Lines : NormalizedBy(exp, s, d) => sum <= s
    /\ has_initialization(sum)
    /\ graph[sum].into \notin matcher.sums
    /\ same_index(exp) /\ temporal_reuse_safe("exp", graph[exp].into, exp)

(* A select by this site's own mask argument, stored as its scores.        *)
CausalOf(delta, mask) ==
    IsFirst(mask, {n \in Lines \ matcher.causal :
                     graph[n].kind = "mask" /\ graph[n].into = graph[delta].a /\ graph[n].mask = number})

\* At most one.
Chains ==
    LET exps   == {n \in Lines : IsFirst(n, Unseen)}
        deltas == {n \in Lines : \E exp \in exps : DeltaOf(exp, n)}
        sums   == {n \in Lines : \E exp \in exps, div \in Lines : NormalizationOf(exp, n, div)}
    IN  [exp: exps, delta: deltas,
         max: {n \in Lines : \E delta \in deltas : RowMaxOf(delta, n)},
         sum: sums, div: {n \in Lines : \E exp \in exps, sum \in sums : NormalizedBy(exp, sum, n)},
         mask: {n \in Lines : \E delta \in deltas : CausalOf(delta, n)}]

Region(role, view, end) == [role |-> role, base |-> canonical_memref(view), end |-> end]
RegionsOf(chain) ==
    {Region("delta", graph[chain.delta].into, chain.div), Region("exp", graph[chain.exp].into, chain.div),
     Region("operand", graph[chain.delta].a, chain.div), Region("operand", graph[chain.delta].b, chain.div)}

MatchSite ==
    /\ matcher.verdict = "none"
    /\ \A l \in Layers : Emitted("div", l)
    /\ \/ \E chain \in Chains :
            matcher' = [regions |-> matcher.regions \cup RegionsOf(chain),
                        sums |-> matcher.sums \cup {graph[chain.sum].into},
                        causal |-> matcher.causal \cup {chain.mask},
                        chains |-> Append(matcher.chains, chain),
                        verdict |-> IF Unseen = {chain.exp} THEN "bridged" ELSE "none"]
       \/ Chains = {} /\ matcher' = [matcher EXCEPT !.verdict = "refused"]
    /\ UNCHANGED <<shared, flaw, graph>>

PatternNext == AddNest \/ MatchSite
PatternSpec == PatternInit /\ [][PatternNext]_patternVars

-----------------------------------------------------------------------------
(* What the graph computes: a buffer holds what was last stored in it.     *)

Junk == <<"junk">>
\* What nest n reads, and what it makes, when the others made what `made` says.
Held(view, n, made) ==
    IF view[1] = "raw" THEN view
    ELSE IF \E k \in Lines : IsLast(k, StoresInto(view, n))
         THEN made[CHOOSE k \in Lines : IsLast(k, StoresInto(view, n))]
         ELSE Junk
Outcome(n, made) ==
    LET nest == graph[n] IN
    IF ~nest.domain \/ ~nest.seeded THEN Junk
    ELSE IF nest.kind = "mask" THEN <<"masked", Held(nest.a, n, made), nest.mask>>
    ELSE IF nest.kind \in {"delta", "div"} THEN <<nest.kind, Held(nest.a, n, made), Held(nest.b, n, made)>>
    ELSE <<nest.kind, Held(nest.a, n, made)>>
Made == LET made[n \in Lines] == Outcome(n, made) IN made

(* Every softmax the matcher replaces is one: the n-th division divides    *)
(* the exponentials of the n-th layer's own scores, masked by its own mask *)
(* and lowered by their own maximum, by the sum of those exponentials --   *)
(* whichever workspaces the layers share and however their nests mix.      *)
BridgedSitesAreSoftmax ==
    matcher.verdict = "bridged" =>
        \A n \in Layers :
            LET masked == <<"masked", <<"raw", n>>, n>>
                powers == <<"exp", <<"delta", masked, <<"max", masked>>>>>>
            IN  Made[matcher.chains[n].div] = <<"div", powers, <<"sum", powers>>>>
=============================================================================
