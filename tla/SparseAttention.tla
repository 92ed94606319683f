--------------------------- MODULE SparseAttention ---------------------------
(***************************************************************************)
(* The sparse attention kernels of                                         *)
(* patches/rocm_aiter_mla_sparse.decode-h32-k16.py: a softmax over the     *)
(* cache rows that index lists name, computed block by block with a        *)
(* running maximum; decodes cut the two lists of a query (window and       *)
(* selected rows) into splits that a second kernel joins.                  *)
(*                                                                         *)
(* A score is 0, 1 or 2 and exp(x) is 2^x, counted in quarters, so that    *)
(* every product of the kernels is a whole number.  A value vector is its  *)
(* key: an accumulator is the weight that it holds of each key.            *)
(***************************************************************************)
EXTENDS Integers, Sequences, FiniteSets, FiniteSetsExt

CONSTANTS
    MainRows,       \* rows of the sliding-window cache, or of the workspace
    ExtraRows,      \* rows of the compressed cache
    Score           \* Score[key]: the score of a query and a cache row

Rows(cache) == IF cache = "main" THEN MainRows ELSE ExtraRows
Keys == {<<c, s>> \in {"main", "extra"} \X (0 .. Max({MainRows, ExtraRows})) : s < Rows(c)}

Ceil(a, b) == (a + b - 1) \div b

NegLarge == -99
One == 4
Exp(d) == IF d < -2 THEN 0 ELSE One \div 2 ^ (-d)
Times(a, b) == (a * b) \div One
NoSink == NegLarge - 1

-------------------------------------------------------------------------------
(* Lists of slots, one behind the other: list q is flat[indptr[q]] up to    *)
(* flat[indptr[q + 1] - 1], both counted from 0.                            *)

\* build_ragged_indices_from_dense; what no row fills of the buffer is left as it was.
Ragged(dense, lengths, rows, old) ==
    LET width == Len(dense[1])
        len(q) == Max({0, Min({lengths[q], width})})
        indptr[q \in 0 .. Len(dense)] == IF q = 0 THEN 0 ELSE indptr[q - 1] + len(q)
        kept(v) == IF v >= 0 /\ v < rows THEN v ELSE -1
        from(i) == {q \in DOMAIN dense : indptr[q - 1] < i /\ i <= indptr[q]}
    IN [flat |-> [i \in 1 .. Len(dense) * width |->
                    IF from(i) = {} THEN old
                    ELSE LET q == CHOOSE x \in from(i) : TRUE IN kept(dense[q][i - indptr[q - 1]])],
        indptr |-> indptr]

Start(list, q) == list.indptr[q - 1]
Length(list, q) == list.indptr[q] - list.indptr[q - 1]

-------------------------------------------------------------------------------
(* The online softmax *)

Fresh == [m |-> NegLarge, l |-> 0, acc |-> [key \in Keys |-> 0]]

(* One BLOCK_K of positions of a list, from k up to but not including hi.   *)
Block(st, cache, flat, base, k, hi, blockK) ==
    LET slot(p) == flat[base + p + 1]
        valid == {p \in k .. k + blockK - 1 : p < hi /\ slot(p) >= 0 /\ slot(p) < Rows(cache)}
        mNew  == Max({st.m} \cup {Score[<<cache, slot(p)>>] : p \in valid})
        alpha == Exp(st.m - mNew)
        weight(p) == Exp(Score[<<cache, slot(p)>>] - mNew)
        new(key) == MapThenSumSet(weight, {p \in valid : key = <<cache, slot(p)>>})
    IN [m   |-> mNew,
        l   |-> Times(st.l, alpha) + MapThenSumSet(weight, valid),
        acc |-> [key \in Keys |-> Times(st.acc[key], alpha) + new(key)]]

Walk(st, cache, list, q, lo, hi, blockK) ==
    LET n == IF hi > lo THEN Ceil(hi - lo, blockK) ELSE 0
        after[i \in 0 .. n] ==
            IF i = 0 THEN st
            ELSE Block(after[i - 1], cache, list.flat, Start(list, q), lo + (i - 1) * blockK, hi, blockK)
    IN after[n]

\* acc / l_final, or zero if nothing was attended to
Out(acc, l) == IF l > 0 THEN [num |-> acc, den |-> l] ELSE [num |-> [key \in Keys |-> 0], den |-> 1]

(* The end of a kernel that walked all of the lists: the sink takes part in *)
(* the sum but has no value.                                                *)
Finish(st, sink) ==
    LET m     == Max({st.m, sink})
        alpha == Exp(st.m - m)
    IN IF sink = NoSink THEN Out(st.acc, st.l)
       ELSE Out([key \in Keys |-> Times(st.acc[key], alpha)], Times(st.l, alpha) + Exp(sink - m))

\* _sparse_attn_prefill_ragged_kernel
Prefill(list, q, sink, blockK) ==
    Finish(Walk(Fresh, "main", list, q, 0, Length(list, q), blockK), sink)

\* _sparse_attn_decode_ragged_kernel
DecodeUnsplit(main, extra, q, sink, blockK) ==
    LET window == Walk(Fresh, "main", main, q, 0, Length(main, q), blockK)
    IN Finish(Walk(window, "extra", extra, q, 0, Length(extra, q), blockK), sink)

-------------------------------------------------------------------------------
(* Splits *)

\* MUTANT: the last split is not cut at the end of the list.
SplitEndOpen(len, split, splits) == (split + 1) * Ceil(len, splits)

SplitStart(len, split, splits) == split * Ceil(len, splits)
SplitEnd(len, split, splits) == Min({SplitStart(len, split, splits) + Ceil(len, splits), len})

\* _sparse_attn_decode_partial_kernel
Partial(main, extra, q, split, splits, blockK) ==
    LET part(st, cache, list) ==
            LET len == Length(list, q) IN
            Walk(st, cache, list, q, SplitStart(len, split, splits), SplitEnd(len, split, splits), blockK)
    IN part(part(Fresh, "main", main), "extra", extra)

\* _sparse_attn_decode_reduce_kernel
Reduce(parts, sink) ==
    LET m    == Max({parts[s].m : s \in DOMAIN parts} \cup (IF sink = NoSink THEN {} ELSE {sink}))
        w(s) == Exp(parts[s].m - m)
        l    == MapThenSumSet(LAMBDA s : Times(w(s), parts[s].l), DOMAIN parts)
    IN Out([key \in Keys |-> MapThenSumSet(LAMBDA s : Times(w(s), parts[s].acc[key]), DOMAIN parts)],
           IF sink = NoSink THEN l ELSE l + Exp(sink - m))

\* _decode_partial_iters for lists of total lengths main and extra over n queries
PartialIters(main, extra, n, splits, blockK) ==
    Ceil(Ceil(main, n * splits), blockK) + Ceil(Ceil(extra, n * splits), blockK)

(* _decode_num_splits: the least waves * (1 / splits + 0.04), then as few   *)
(* splits as need no more waves and no more iterations.                     *)
NumSplits(n, headsBlocks, main, extra, blockK, cu) ==
    LET base      == Max({1, n * headsBlocks})
        waves(s)  == Ceil(base * s, cu)
        cost(s, t) == waves(s) * (25 + s) * t    \* of s, for comparison with cost(t, s)
        cheapest  == {s \in 1 .. 16 : \A t \in 1 .. 16 : cost(s, t) <= cost(t, s)}
        best      == Min(cheapest)
        same      == {s \in 1 .. best : /\ waves(s) = waves(best)
                                        /\ PartialIters(main, extra, n, s, blockK)
                                           = PartialIters(main, extra, n, best, blockK)}
    IN IF best > 1 /\ (main > 0 \/ extra > 0) THEN Min(same) ELSE best

\* _rocm_sparse_attn_decode_ragged_triton on a tuned architecture
DecodeSplit(main, extra, q, sink, blockK, n, headsBlocks, cu) ==
    LET splits == NumSplits(n, headsBlocks, Len(main.flat), Len(extra.flat), blockK, cu)
    IN Reduce([s \in 1 .. splits |-> Partial(main, extra, q, s - 1, splits, blockK)], sink)

-------------------------------------------------------------------------------
(* Properties *)

(* The softmax over the slots that the first entries of two dense rows name. *)
Named(dense, lengths, q, key, cache) ==
    IF key[1] # cache THEN 0
    ELSE Cardinality({o \in DOMAIN dense[q] : o <= lengths[q] /\ dense[q][o] = key[2]})

Softmax(count, sink) ==
    LET num == [key \in Keys |-> count[key] * 2 ^ Score[key]]
    IN Out(num, MapThenSumSet(LAMBDA key : num[key], Keys) + IF sink = NoSink THEN 0 ELSE 2 ^ sink)

Same(a, b) == \A key \in Keys : a.num[key] * b.den = b.num[key] * a.den

(* However the lists are cut into splits and blocks, whatever the number of *)
(* compute units, with empty splits, invalid slots and unfilled ends of the *)
(* buffers, a query attends to each slot of its own lists, as often as they *)
(* name it and with its own weight (partial and reduce kernels,             *)
(* _decode_num_splits, the unsplit kernels).  x is an input of a launch.    *)
AttentionExact(x) ==
    LET main  == Ragged(x.main, x.mainLens, MainRows, x.old)
        extra == Ragged(x.extra, x.extraLens, ExtraRows, x.old)
        inWindow(q) == [key \in Keys |-> Named(x.main, x.mainLens, q, key, "main")]
        named(q) == [key \in Keys |-> inWindow(q)[key] + Named(x.extra, x.extraLens, q, key, "extra")]
    IN \A q \in DOMAIN x.main :
        LET n == Len(x.main) IN
        /\ Same(DecodeSplit(main, extra, q, x.sink, x.blockK, n, x.headsBlocks, x.cu), Softmax(named(q), x.sink))
        /\ Same(DecodeUnsplit(main, extra, q, x.sink, x.blockK), Softmax(named(q), x.sink))
        /\ Same(Prefill(main, q, x.sink, x.blockK), Softmax(inWindow(q), x.sink))
==============================================================================
