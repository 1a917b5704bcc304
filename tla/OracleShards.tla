------------------------------ MODULE OracleShards ------------------------------
(***************************************************************************)
(* The observable oracle (build_rc_observable_oracle.py): invocations that *)
(* evaluate an exported program over a range of contexts and leave a       *)
(* payload with its metadata, in a directory they share, and the merge     *)
(* that certifies that verified shards cover every context.                *)
(*                                                                         *)
(* An invocation may be killed between any two steps, and the exported     *)
(* program and the reference frozen from it may be exchanged under it.  A  *)
(* program stands for its hash, the sequence of words of a payload for     *)
(* the hash of the payload.                                                *)
(***************************************************************************)
EXTENDS Integers, Sequences, FiniteSets

CONSTANTS
    Generators,        \* invocations of "generate"
    Requests,          \* the ranges they are asked for: pairs <<start, stop>>
    Exports,           \* exported programs
    Vocabulary,        \* VOCAB_SIZE: tokens, and code lanes of a record
    ContextTokens,     \* CONTEXT_LENGTH
    CodeRange,         \* how many values a code has: 2^8
    Observed(_, _),    \* the codes a program computes for a context
    Corpus,            \* the contexts of the canonical corpus
    MaxKilled,         \* how many invocations are killed
    MaxExchanges       \* how often program or reference are exchanged

Contexts == Vocabulary ^ ContextTokens

ASSUME ShardsAssumption ==
    /\ {Vocabulary, ContextTokens, CodeRange} \subseteq Nat \ {0}
    /\ CodeRange % 2 = 0
    /\ {MaxKilled, MaxExchanges} \subseteq Nat
    /\ \A r \in Requests : r \in Nat \X Nat /\ r[1] < r[2] /\ r[2] <= Contexts

VARIABLES
    export,            \* the program in the export directory
    reference,         \* the program whose results the reference file holds
    exchanges,         \* exchanges so far
    shards,            \* the payload and metadata files of each range
    generators,        \* each invocation's control point and memory
    merge              \* the merging invocation and the coverage receipt

shardVars == <<export, reference, exchanges, shards, generators, merge>>

-----------------------------------------------------------------------------
(* Contexts and records.                                                   *)

(* context_from_index: the rightmost token is the fastest digit.           *)
ContextAt(index) ==
    [p \in 1..ContextTokens |-> (index \div Vocabulary ^ (ContextTokens - p)) % Vocabulary]

Lowest(codes) ==
    CHOOSE t \in DOMAIN codes :
        \A u \in DOMAIN codes : codes[u] < codes[t] \/ (codes[u] = codes[t] /\ t <= u)

CodeLanes == 1..Vocabulary

(* pack_record refuses codes that do not fit their bits.                   *)
IsRecord(codes) == codes \in [CodeLanes -> -(CodeRange \div 2)..(CodeRange \div 2 - 1)]

(* A word holds the codes in two's complement, the first one lowest, and   *)
(* above them the token: it is put together from the top.                  *)
Pack(codes) ==
    LET packed[t \in 0..Vocabulary] ==
            IF t = 0 THEN Lowest(codes) - 1
            ELSE CodeRange * packed[t - 1] + (codes[Vocabulary - t + 1] % CodeRange)
    IN  packed[Vocabulary]

(* A word shifted right by no lane, by one, ..., and by all and the token. *)
Shifted(word) ==
    LET shifted[t \in 0..(Vocabulary + 1)] ==
            IF t = 0 THEN word ELSE shifted[t - 1] \div CodeRange
    IN  shifted

LaneCode(word, t) ==
    LET bits == Shifted(word)[t - 1] % CodeRange
    IN  IF bits >= CodeRange \div 2 THEN bits - CodeRange ELSE bits
Codes(word) == [t \in CodeLanes |-> LaneCode(word, t)]
Token(word) == Shifted(word)[Vocabulary] % CodeRange

(* unpack_record: the reserved bits are zero, and the token is the lowest  *)
(* of the largest codes.                                                   *)
Unpacks(word) ==
    /\ Shifted(word)[Vocabulary + 1] = 0
    /\ Token(word) = Lowest(Codes(word)) - 1

-----------------------------------------------------------------------------
(* Files.                                                                  *)

NoShard == [there |-> FALSE, words |-> <<>>, metadata |-> "absent",
            receipt |-> "none", claimed |-> <<>>]

(* verify_payload.                                                         *)
PayloadHolds(shard, words) ==
    /\ shard.there
    /\ shard.words = words
    /\ \A n \in 1..Len(words) : Unpacks(words[n])

(* verify_shard: torn metadata is no JSON; the records counted are those   *)
(* of the range.                                                           *)
Verifies(r) ==
    /\ shards[r].metadata = "whole"
    /\ Len(shards[r].claimed) = r[2] - r[1]
    /\ PayloadHolds(shards[r], shards[r].claimed)

Fresh(r) == [pc |-> "load", range |-> r, evaluator |-> "none", reference |-> "none",
             receipt |-> "none", words |-> <<>>]
NoMerge == [pc |-> "idle", left |-> <<>>, seen |-> <<>>, covered |-> FALSE]

ShardsInit ==
    /\ export \in Exports
    /\ reference = export
    /\ exchanges = 0
    /\ shards = [r \in Requests |-> NoShard]
    /\ generators \in [Generators -> {Fresh(r) : r \in Requests}]
    /\ merge = NoMerge

On(g, point) == generators[g].pc = point
Goto(g, point) == generators' = [generators EXCEPT ![g].pc = point]
programFiles == <<export, reference, exchanges>>

-----------------------------------------------------------------------------
(* generate: the program is loaded first, the reference next, and the      *)
(* receipt hashes what the directory holds after that.                     *)

LoadProgram(g) ==
    /\ On(g, "load")
    /\ generators' = [generators EXCEPT ![g].pc = "read", ![g].evaluator = export]
    /\ UNCHANGED <<programFiles, shards, merge>>

ReadReference(g) ==
    /\ On(g, "read")
    /\ generators' = [generators EXCEPT ![g].pc = "hash", ![g].reference = reference]
    /\ UNCHANGED <<programFiles, shards, merge>>

HashProgram(g) ==
    /\ On(g, "hash")
    /\ generators' = [generators EXCEPT ![g].pc = "preflight", ![g].receipt = export]
    /\ UNCHANGED <<programFiles, shards, merge>>

SameOnCorpus(e, f) == \A c \in Corpus : Observed(e, ContextAt(c)) = Observed(f, ContextAt(c))

SlipPreflight(g) ==
    generators[g].reference = generators[g].receipt

(* The reference is bound to the hashed program, and the loaded program    *)
(* computes every result of the reference.                                 *)
Preflighted(g) ==
    /\ generators[g].reference = generators[g].receipt
    /\ SameOnCorpus(generators[g].evaluator, generators[g].reference)

Preflight(g) ==
    /\ On(g, "preflight")
    /\ Goto(g, IF Preflighted(g) THEN "look" ELSE "failed")
    /\ UNCHANGED <<programFiles, shards, merge>>

(* Nothing that exists is overwritten, not even what a killed invocation   *)
(* left.                                                                   *)
LookForShard(g) ==
    LET shard == shards[generators[g].range] IN
    /\ On(g, "look")
    /\ Goto(g, IF shard.there \/ shard.metadata # "absent" THEN "failed" ELSE "open")
    /\ UNCHANGED <<programFiles, shards, merge>>

(* Of two invocations that both saw nothing only one opens the payload.    *)
OpenPayload(g) ==
    LET r == generators[g].range IN
    /\ On(g, "open")
    /\ IF shards[r].there
       THEN Goto(g, "failed") /\ UNCHANGED shards
       ELSE /\ shards' = [shards EXCEPT ![r].there = TRUE]
            /\ Goto(g, "evaluate")
    /\ UNCHANGED <<programFiles, merge>>

(* The program is evaluated on one context after the other; it may fail.   *)
EvaluateRecord(g) ==
    LET r == generators[g].range
        codes == Observed(generators[g].evaluator,
                          ContextAt(r[1] + Len(generators[g].words))) IN
    /\ On(g, "evaluate")
    /\ \/ /\ Len(generators[g].words) < r[2] - r[1]
          /\ IsRecord(codes)
          /\ generators' = [generators EXCEPT ![g].words = Append(@, Pack(codes))]
          /\ shards' = [shards EXCEPT ![r].words = Append(@, Pack(codes))]
       \/ /\ Len(generators[g].words) < r[2] - r[1]
          /\ Goto(g, "failed") /\ UNCHANGED shards
       \/ /\ Len(generators[g].words) = r[2] - r[1]
          /\ Goto(g, IF PayloadHolds(shards[r], generators[g].words) THEN "metadata"
                     ELSE "failed")
          /\ UNCHANGED shards
    /\ UNCHANGED <<programFiles, merge>>

(* The metadata file is truncated and then written.                        *)
TruncateMetadata(g) ==
    /\ On(g, "metadata")
    /\ shards' = [shards EXCEPT ![generators[g].range].metadata = "torn"]
    /\ Goto(g, "receipt")
    /\ UNCHANGED <<programFiles, merge>>

WriteMetadata(g) ==
    /\ On(g, "receipt")
    /\ shards' = [shards EXCEPT ![generators[g].range].metadata = "whole",
                                ![generators[g].range].receipt = generators[g].receipt,
                                ![generators[g].range].claimed = generators[g].words]
    /\ Goto(g, "complete")
    /\ UNCHANGED <<programFiles, merge>>

Generate(g) ==
    \/ LoadProgram(g) \/ ReadReference(g) \/ HashProgram(g) \/ Preflight(g)
    \/ LookForShard(g) \/ OpenPayload(g) \/ EvaluateRecord(g)
    \/ TruncateMetadata(g) \/ WriteMetadata(g)

KillGenerator(g) ==
    /\ generators[g].pc \notin {"complete", "failed", "killed"}
    /\ Cardinality({h \in Generators : On(h, "killed")}) < MaxKilled
    /\ Goto(g, "killed")
    /\ UNCHANGED <<programFiles, shards, merge>>

(* Another export is put in place, with a reference frozen from it or      *)
(* before that is done.                                                    *)
ExchangeInputs ==
    /\ exchanges < MaxExchanges
    /\ exchanges' = exchanges + 1
    /\ export' \in Exports
    /\ reference' \in {reference, export'}
    /\ <<export', reference'>> # <<export, reference>>
    /\ UNCHANGED <<shards, generators, merge>>

-----------------------------------------------------------------------------
(* merge-oracle: every shard named is verified, and only then compared; a  *)
(* name without a file ends it before anything is read.                    *)

StartMerge ==
    /\ merge.pc = "idle"
    /\ \E a, b \in {r \in Requests : shards[r].metadata # "absent"} :
         \E paths \in {<<a>>, <<a, b>>} :
            merge' = [merge EXCEPT !.pc = "verify", !.left = paths]
    /\ UNCHANGED <<programFiles, shards, generators>>

VerifyNext ==
    /\ merge.pc = "verify" /\ merge.left # <<>>
    /\ LET r == Head(merge.left) IN
       merge' = IF Verifies(r)
                THEN [merge EXCEPT !.left = Tail(@),
                                   !.seen = Append(@, [range |-> r, words |-> shards[r].claimed,
                                                       receipt |-> shards[r].receipt])]
                ELSE [merge EXCEPT !.pc = "rejected"]
    /\ UNCHANGED <<programFiles, shards, generators>>

(* One receipt, and, in the order of their starts, no overlap and no gap   *)
(* from the first context to the last.                                     *)
Covers(seen) ==
    /\ seen # <<>>
    /\ \A n \in 1..Len(seen) : seen[n].receipt = seen[1].receipt
    /\ \E order \in [1..Len(seen) -> 1..Len(seen)] :
         /\ \A m, n \in 1..Len(seen) :
              m < n => /\ order[m] # order[n]
                       /\ seen[order[m]].range[1] <= seen[order[n]].range[1]
         /\ seen[order[1]].range[1] = 0
         /\ \A n \in 1..(Len(seen) - 1) :
              seen[order[n + 1]].range[1] = seen[order[n]].range[2]
         /\ seen[order[Len(seen)]].range[2] = Contexts

MergeReceipts ==
    /\ merge.pc = "verify" /\ merge.left = <<>>
    /\ merge' = [merge EXCEPT !.pc = IF Covers(merge.seen) THEN "merged" ELSE "rejected",
                              !.covered = Covers(merge.seen)]
    /\ UNCHANGED <<programFiles, shards, generators>>

ShardsNext ==
    \/ \E g \in Generators : Generate(g) \/ KillGenerator(g)
    \/ ExchangeInputs \/ StartMerge \/ VerifyNext \/ MergeReceipts

ShardsSpec == ShardsInit /\ [][ShardsNext]_shardVars

-----------------------------------------------------------------------------
(* The word holds what the program a receipt names computes for the        *)
(* context.  A program that agrees with it on the whole corpus passes the  *)
(* preflight in its place when the two are exchanged during the load.      *)
WordOf(word, receipt, index) ==
    \E e \in Exports :
        /\ SameOnCorpus(e, receipt)
        /\ Codes(word) = Observed(e, ContextAt(index))
        /\ \A t \in CodeLanes : Codes(word)[t] <= Codes(word)[Token(word) + 1]

(* However invocations overlap, die or find their inputs exchanged, a      *)
(* shard that verifies holds the observables of the program its receipt    *)
(* names, in the order of the contexts; and a coverage receipt stands for  *)
(* every context exactly once, all of them by one program.                 *)
ShardsAreRight ==
    /\ \A r \in Requests :
         Verifies(r) =>
            \A n \in 1..(r[2] - r[1]) :
                WordOf(shards[r].words[n], shards[r].receipt, r[1] + n - 1)
    /\ merge.covered =>
         \A index \in 0..(Contexts - 1) :
            /\ Cardinality({n \in 1..Len(merge.seen) :
                    merge.seen[n].range[1] <= index /\ index < merge.seen[n].range[2]}) = 1
            /\ \A n \in 1..Len(merge.seen) :
                 merge.seen[n].range[1] <= index /\ index < merge.seen[n].range[2] =>
                    WordOf(merge.seen[n].words[index - merge.seen[n].range[1] + 1],
                           merge.seen[1].receipt, index)
=============================================================================
