---------------------------- MODULE MCComponents -----------------------------
(***************************************************************************)
(* The components that are used one by one, each on its own inputs: the    *)
(* block table, the two parts of MCFrontend, a sparse attention layer, the *)
(* kernels around it and the checkpoint tools.  A behaviour is one of a    *)
(* single component; kernels are functions, checked on every input when    *)
(* they start.                                                             *)
(***************************************************************************)
EXTENDS BlockTable, MCFrontend, CheckpointVariant

VARIABLES layer, computed, tables, leaves, swa, state, rows, step, seen,
          case      \* the input of a kernel

layerVars == <<layer, computed, tables, leaves, swa, state, rows, step, seen>>

-------------------------------------------------------------------------------
(* A layer with an indexer, one that attends to all rows, and one with the *)
(* window only.                                                            *)
Indexed == [ratio |-> 2, overlap |-> 1, chunk |-> 2]
SmallLayers == {Indexed, [ratio |-> 2, overlap |-> 0, chunk |-> 1], [ratio |-> 1, overlap |-> 0, chunk |-> 2]}

S == INSTANCE SparseLayer WITH
        NumReqs <- 2, MaxLen <- 4, MaxChunk <- 3, NumDrafts <- 1, Window <- 2, TopK <- 1,
        BlockSize <- 2, MaxLeaves <- 1, Layers <- SmallLayers, Uneven <- FALSE

-------------------------------------------------------------------------------
(* Inputs of the kernels *)

\* Three rows in each cache; the ones past the bound are not to be read.
RowScore == [key \in ({"main", "extra"} \X (0 .. 2)) |-> IF key[1] = "main" THEN key[2] ELSE 2 - key[2]]

A == INSTANCE SparseAttention WITH MainRows <- 2, ExtraRows <- 2, Score <- RowScore

AttentionInputs ==
    {[main |-> <<a, <<0, 1>>>>, mainLens |-> <<la, 2>>, extra |-> <<<<0, 1, 1>>, e>>, extraLens |-> <<1, le>>,
      old |-> 0, sink |-> sink, blockK |-> g[2], headsBlocks |-> 1, cu |-> g[1]] :
        a \in {<<-1, 1>>, <<1, 1>>, <<0, 2>>}, la \in {0, 2, 3}, le \in {0, 2, 3}, sink \in {-100, 1},
        e \in {<<-1, -1, -1>>, <<0, 1, 0>>, <<1, -1, 1>>, <<0, 0, 1>>}, g \in {<<1, 1>>, <<3, 2>>, <<8, 2>>}}

L == INSTANCE PagedLogits

\* kernel, tokens of a chunk, tokens of a block
LogitsKernels == {<<"simple", 4, 1>>, <<"preshuffle", 8, 2>>, <<"preshuffle", 8, 4>>, <<"preshuffle", 4, 4>>,
                  <<"preshuffle", 4, 8>>, <<"gfx1250", 4, 2>>, <<"varctx", 8, 2>>, <<"varctx", 4, 8>>}

\* Two requests; varctx stops at one without context (README, "Observations").
LogitsInputs ==
    {x \in {[kind |-> k[1], ctx |-> <<a, b>>, nextN |-> n, chunk |-> k[2], kvb |-> k[3], splits |-> s, maxLen |-> 24] :
               k \in LogitsKernels, a \in 0 .. 24, b \in {0, 1, 7, 24}, s \in 1 .. 4, n \in 1 .. 2} :
        x.kind = "varctx" => x.ctx[1] > 0 \/ x.ctx[2] = 0}

\* Nine keys of three half-precision bins; two threads with one item each.
HalfBins == [k \in 0 .. 8 |-> IF k < 2 THEN 0 ELSE IF k < 5 THEN 1 ELSE 2]

T == INSTANCE TopKSelect WITH
        HalfBin <- HalfBins, MidBins <- 2, LowBins <- 2, Threads <- 2, ItemsPerThread <- 1, Parts <- 2

Shuffled == <<2, 0, 3, 1, 6, 4, 5, 8, 9, 7, 11, 10>>
Backwards == [i \in 1 .. 12 |-> 12 - i]
SelectedRows == [0 .. 4 -> {0, 1, 3}] \cup [0 .. 2 -> {0, 1, 3}] \cup [0 .. 3 -> {0, 2, 4, 7}]

TopKInputs ==
    {[keys |-> r, topK |-> 2, kind |-> k, order |-> o] :
        r \in SelectedRows, k \in {"insertion", "radix", "split"}, o \in {Shuffled, Backwards}}

C == INSTANCE CacheLayout WITH
        Tile <- 2, HeadDim <- 4, ScaleBytes <- 2, Stage <- 4, NopeDim <- 4, RopeDim <- 1, QuantBlock <- 2,
        ScaleDim <- 3, Width32 <- 64

WritersReaders == ({"compress_indexer", "indexer_k_quant"} \X {"cp_gather", "logits"})
                    \cup ({"quantize_insert", "compress_sparse"} \X {"gather", "decode"})

\* The logits kernel with stages reads shuffled caches only.
LayoutInputs ==
    {x \in {[writer |-> p[1], reader |-> p[2], blockSize |-> bs, tables |-> <<s, t>>, lens |-> <<n, m>>] :
               p \in WritersReaders, bs \in {1, 2, 4}, s \in {<<0, 3>>, <<1, 0>>, <<3, 2>>}, t \in {<<5, 4>>, <<4, 7>>},
               n \in 1 .. 6, m \in 0 .. 2} :
        /\ x.lens[1] <= 2 * x.blockSize
        /\ x.reader = "logits" => x.blockSize > 1}

-------------------------------------------------------------------------------
(* A shard with tensors of both kinds to replace, one with those of one.   *)

TwoShards == [s1 |-> {"mtp", "d1"}, s2 |-> {"wo_b", "markov"}, config |-> {"text"}, provenance |-> {"text"}]
TwoTools == [mtp |-> {"mtp", "wo_b"}, markov |-> {"markov"}]

-------------------------------------------------------------------------------

NoLayer ==
    /\ layer = <<>> /\ computed = <<>> /\ tables = <<>> /\ leaves = 0 /\ swa = <<>> /\ state = <<>>
    /\ rows = <<>> /\ step = <<>> /\ seen = <<>>
NoCase == case = <<>>
NoVariant == VariantInit /\ tool = "mtp" /\ DOMAIN input = Files
NoState == Init /\ NoVariant /\ NoRequest /\ NoOutput /\ NoLayer

Kernel ==
    \/ part = "sparse attention" /\ case \in AttentionInputs
    \/ part = "paged logits" /\ case \in LogitsInputs
    \/ part = "top-k" /\ case \in TopKInputs
    \/ part = "cache layout" /\ case \in LayoutInputs

ComponentsInit ==
    \/ Kernel /\ NoState
    \/ part = "block table" /\ NoState /\ NoCase
    \/ part = "layer" /\ S!Init /\ Init /\ NoVariant /\ NoRequest /\ NoOutput /\ NoCase
    \/ part = "variant" /\ VariantInit /\ Init /\ NoLayer /\ NoRequest /\ NoOutput /\ NoCase
    \/ FrontendInit /\ Init /\ NoVariant /\ NoLayer /\ NoCase

Table == part = "block table" /\ Next /\ UNCHANGED <<part, middlewareVars, parserVars, layerVars, variantVars, case>>
Layer == part = "layer" /\ S!Next /\ UNCHANGED <<part, vars, middlewareVars, parserVars, variantVars, case>>
Variant ==
    part = "variant" /\ VariantNext /\ UNCHANGED <<part, vars, middlewareVars, parserVars, layerVars, case>>
Frontend == FrontendNext /\ UNCHANGED <<vars, layerVars, variantVars, case>>

ComponentsNext == Table \/ Layer \/ Variant \/ Frontend

ComponentsSpec ==
    ComponentsInit /\ [][ComponentsNext]_<<part, vars, middlewareVars, parserVars, layerVars, variantVars, case>>

-------------------------------------------------------------------------------
(* The properties of the modules, each where its part runs; those of the   *)
(* block table and of the checkpoint tools hold of their initial states    *)
(* elsewhere.                                                              *)

\* A token attends to its own request's keys (_forward_decode, _forward_prefill).
AttendsOwnContext == part = "layer" => S!AttendsOwnContext

\* Rows of rejected drafts are rewritten before use (the compressor kernels).
RowsSettled == part = "layer" => S!RowsSettled

\* Decode attention is a softmax over its valid rows (rocm_sparse_attn_decode).
AttentionExact == part = "sparse attention" => A!AttentionExact(case)

\* Every kernel of the indexer's logits computes the reference (pa_mqa_logits).
LogitsExact == part = "paged logits" => L!LogitsExact(case)

\* A row's best scores are selected, each once (topKPerRowJob).
TopKExact == part = "top-k" => T!TopKExact(case)

\* Readers of a cache find what its writers stored (the cache kernels).
LayoutsAgree == part = "cache layout" => C!LayoutsAgree(case)
==============================================================================
