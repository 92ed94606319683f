----------------------------- MODULE SparseLayer -----------------------------
(***************************************************************************)
(* One attention layer of DeepSeek V4 on ROCm and its three paged caches,  *)
(* step after step: the sliding-window cache, the compressor's state and   *)
(* the compressed rows.  A step inserts the keys of its tokens, compresses *)
(* the groups they complete, selects rows for each token, and attends:     *)
(* decodes through ragged index lists into the caches, prefills through a  *)
(* workspace the caches are gathered into.                                 *)
(*                                                                         *)
(* A key is the token it was computed from: its request, its position and  *)
(* whether the token was kept or is a draft that the step's sampler will   *)
(* reject.  What a token attends to is recorded as the keys that its index *)
(* lists reach.  Scores are not modelled: the indexer takes the newest     *)
(* rows.                                                                   *)
(***************************************************************************)
EXTENDS Integers, Sequences, FiniteSets, SequencesExt, FiniteSetsExt, Functions

CONSTANTS
    NumReqs,        \* requests
    MaxLen,         \* max_model_len
    MaxChunk,       \* bound on the tokens of a request in a step
    NumDrafts,      \* speculative tokens: the decode threshold is 1 + NumDrafts
    Window,         \* window_size
    TopK,           \* topk_tokens of the indexer
    BlockSize,      \* tokens of a block, for each of the caches
    MaxLeaves,      \* bound on the requests that leave
    Layers,         \* kinds of layers: compress_ratio, overlap, PREFILL_CHUNK_SIZE
    Uneven          \* decodes of one step may have different lengths

VARIABLES
    layer,          \* the kind of this layer
    computed,       \* computed[r]: tokens of r whose keys are kept, or NotAdmitted
    tables,         \* tables[r]: its blocks in each cache
    leaves,         \* requests that have left
    swa,            \* the sliding-window cache, by slot
    state,          \* the compressor's state cache
    rows,           \* the compressed rows
    step,           \* history: the batch of the last step
    seen            \* history: what each token of it attended to

vars == <<layer, computed, tables, leaves, swa, state, rows, step, seen>>

Reqs == 1 .. NumReqs
NotAdmitted == -1
Admitted == {r \in Reqs : computed[r] # NotAdmitted}

Cdiv(a, b) == (a + b - 1) \div b

\* FlattenSeq of SequencesExt, in one pass
Concat(seqs) ==
    LET upto[i \in 0 .. Len(seqs)] == IF i = 0 THEN <<>> ELSE upto[i - 1] \o seqs[i]
    IN upto[Len(seqs)]
SwaOnly == layer.ratio = 1
HasIndexer == layer.ratio > 1 /\ layer.overlap = 1

(* Blocks of a request: enough for MaxLen tokens.  Block 0 belongs to no   *)
(* request.                                                                *)
PerReq == Cdiv(MaxLen, BlockSize)
Blocks == 0 .. NumReqs * PerReq
Slots == Blocks \X (0 .. BlockSize - 1)
RowBlock == BlockSize \div layer.ratio

\* What a cache holds: the keys it was computed from and the position of its
\* rotary embedding.
KeyOf(k) == [parts |-> {<<k, FALSE>>}, rope |-> k[2]]
Garbage == [parts |-> {}, rope |-> -1]
Nothing == [key |-> Garbage, enc |-> "none"]

\* Entry i of a block table, 0 counting as no request's block.
TableEntry(t, i) == IF i + 1 \in DOMAIN t THEN t[i + 1] ELSE 0
SlotOf(r, pos) == <<TableEntry(tables[r], pos \div BlockSize), pos % BlockSize>>
RowSlot(r, g) == <<TableEntry(tables[r], g \div RowBlock), g % RowBlock>>

Init ==
    /\ layer \in Layers
    /\ computed = [r \in Reqs |-> NotAdmitted]
    /\ tables = [r \in Reqs |-> <<>>]
    /\ leaves = 0
    /\ swa = [s \in Slots |-> Nothing]
    /\ state = [s \in Slots |-> <<>>]
    /\ rows = [s \in Slots |-> Nothing]
    /\ step = <<>>
    /\ seen = <<>>

(* Requests come and go; the blocks of one are given to the next as they   *)
(* are, with what was last written in them.                                *)
FreeBlocks == Blocks \ ({0} \cup UNION {Range(tables[r]) : r \in Reqs})

Admit(r) ==
    /\ r \notin Admitted
    /\ computed' = [computed EXCEPT ![r] = 0]
    /\ tables' = [tables EXCEPT ![r] = SubSeq(SetToSortSeq(FreeBlocks, LAMBDA x, y : x > y), 1, PerReq)]
    /\ step' = <<>>
    /\ seen' = <<>>
    /\ UNCHANGED <<layer, leaves, swa, state, rows>>

Leave(r) ==
    /\ r \in Admitted
    /\ leaves < MaxLeaves
    /\ leaves' = leaves + 1
    /\ computed' = [computed EXCEPT ![r] = NotAdmitted]
    /\ tables' = [tables EXCEPT ![r] = <<>>]
    /\ step' = <<>>
    /\ seen' = <<>>
    /\ UNCHANGED <<layer, swa, state, rows>>

-------------------------------------------------------------------------------
(* The batch of a step: requests with their first position, the number of  *)
(* their tokens and how many of these will be kept; decodes, which are     *)
(* those no longer than the threshold, stand first.                        *)

IsDecode(e) == e.len <= 1 + NumDrafts
Decodes(b) == SelectSeq(b, IsDecode)
NumDecodes(b) == Len(Decodes(b))
QueryStart(b, i) ==    \* query_start_loc[i]
    LET upto[k \in 0 .. i] == IF k = 0 THEN 0 ELSE upto[k - 1] + b[k].len IN upto[i]
NumDecodeTokens(b) == QueryStart(b, NumDecodes(b))

Key(e, pos) == <<e.req, pos, IF pos < e.start + e.kept THEN "kept" ELSE "draft">>

(* The tokens in the order of the batch: their entry and position.         *)
TokensOf(b) == Concat([i \in DOMAIN b |-> [k \in 1 .. b[i].len |->
                  [at |-> i, req |-> b[i].req, pos |-> b[i].start + k - 1]]])

(* _fused_qnorm_rope_kv_insert writes the sliding-window cache in the      *)
(* platform's encoding; the compressor first saves its state per token.    *)
Inserted(b) ==
    LET written == {<<SlotOf(t.req, t.pos), Key(b[t.at], t.pos)>> : t \in Range(TokensOf(b))}
    IN [s \in Slots |-> IF \E w \in written : w[1] = s
                        THEN [key |-> KeyOf((CHOOSE w \in written : w[1] = s)[2]), enc |-> "fnuz"]
                        ELSE swa[s]]

SavedState(b) ==
    [s \in Slots |-> LET w == {t \in Range(TokensOf(b)) : SlotOf(t.req, t.pos) = s} IN
        IF w = {} THEN state[s] ELSE LET t == CHOOSE u \in w : TRUE IN Key(b[t.at], t.pos)]

-------------------------------------------------------------------------------
(* The compressor: a token that completes a group of compress_ratio reads  *)
(* the state of the group, and of the one before it if they overlap, each  *)
(* with its own half of the state row.                                     *)

\* Mutation of GroupWindow: one position late.
GroupWindowLate(pos) == (pos - (1 + layer.overlap) * layer.ratio + 2) .. pos

GroupWindow(pos) == (pos - (1 + layer.overlap) * layer.ratio + 1) .. pos

SecondHalf(pos, p) == p - (pos - (1 + layer.overlap) * layer.ratio + 1) >= layer.ratio

Gathered(st, r, pos) ==
    {<<st[SlotOf(r, p)], SecondHalf(pos, p)>> : p \in {q \in GroupWindow(pos) : q >= 0}}

CompressedPos(pos) == (pos \div layer.ratio) * layer.ratio

Compress(st, t) == [parts |-> Gathered(st, t.req, t.pos), rope |-> CompressedPos(t.pos)]

(* The split variant for layers without overlap: NumSplits programs per    *)
(* token fill the columns of a scratch row, which a second kernel reads.   *)
HeadTiles == 4
NumSplits(n) ==
    LET target == Cdiv(3, Max({1, n \div layer.ratio}))
    IN Max({k \in {1, 2, 4} : k = 1 \/ (k <= target /\ k <= HeadTiles)})

Scratch(st, tokens, i) ==
    LET ns == NumSplits(Len(tokens)) IN
    [col \in 0 .. HeadTiles - 1 |->
        IF \E s \in 0 .. ns - 1 : col \in s * (HeadTiles \div ns) .. (s + 1) * (HeadTiles \div ns) - 1
        THEN Gathered(st, tokens[i].req, tokens[i].pos) ELSE {}]

Finalize(scratch, t) ==
    [parts |-> UNION {scratch[col] : col \in DOMAIN scratch}, rope |-> CompressedPos(t.pos)]

(* Single pass for decodes, the split kernels for prefills.                *)
Completes(t) == (t.pos + 1) % layer.ratio = 0

Stored(st, b) ==
    LET tokens == TokensOf(b)
        first  == SubSeq(tokens, 1, NumDecodeTokens(b))
        rest   == SubSeq(tokens, NumDecodeTokens(b) + 1, Len(tokens))
        done(ts) == {i \in DOMAIN ts : Completes(ts[i])}
        row(t) == RowSlot(t.req, t.pos \div layer.ratio)
    IN IF layer.overlap = 1
       THEN {<<row(tokens[i]), Compress(st, tokens[i])>> : i \in done(tokens)}
       ELSE {<<row(first[i]), Compress(st, first[i])>> : i \in done(first)}
            \cup {<<row(rest[i]), Finalize(Scratch(st, rest, i), rest[i])>> : i \in done(rest)}

CompressedRows(st, b) ==
    LET written == Stored(st, b) IN
    IF SwaOnly THEN rows
    ELSE [s \in Slots |-> IF \E w \in written : w[1] = s
                          THEN [key |-> (CHOOSE w \in written : w[1] = s)[2], enc |-> "ocp"]
                          ELSE rows[s]]

-------------------------------------------------------------------------------
(* The rows a token may attend to, in topk_indices_buffer: a row of TopK   *)
(* entries for each token, -1 behind the last.  Without an indexer all     *)
(* rows are taken.                                                         *)

Available(pos) == (pos + 1) \div layer.ratio
Width == IF HasIndexer THEN TopK ELSE Cdiv(MaxLen, layer.ratio)

\* _fill_short_context_topk_indices, and the lists of layers without indexer
AllRows(pos) == [o \in 1 .. Width |-> IF o - 1 < Available(pos) THEN o - 1 ELSE -1]

\* top_k_per_row, sorted in descending order
Selected(pos) == [o \in 1 .. Width |-> IF o <= Available(pos) THEN Available(pos) - o ELSE -1]

MaxSeqLen(b) == Max({b[i].start + b[i].len : i \in DOMAIN b})
ShortContext(b) == MaxSeqLen(b) \div layer.ratio <= TopK

Unwritten == [o \in 1 .. Width |-> -2]
WriteRows(buffer, at, list) ==
    [i \in DOMAIN buffer |-> IF i - at \in DOMAIN list THEN list[i - at] ELSE buffer[i]]

\* The decodes of a step padded to one length, and what is kept of them.
NextN(b) == Max({b[i].len : i \in 1 .. NumDecodes(b)})
Packed(b) == Concat([i \in 1 .. NumDecodes(b) |-> [k \in 1 .. NextN(b) |->
                IF k <= b[i].len THEN Selected(b[i].start + k - 1) ELSE Unwritten]])
Unpacked(b) == Concat([i \in 1 .. NumDecodes(b) |-> [k \in 1 .. b[i].len |->
                Selected(b[i].start + k - 1)]])

Indexer(b) ==
    LET tokens  == TokensOf(b)
        buffer  == [i \in 1 .. NumReqs * (MaxChunk + NumDrafts + 1) |-> Unwritten]
        short   == [i \in DOMAIN tokens |-> AllRows(tokens[i].pos)]
        prefill == [i \in 1 .. Len(tokens) - NumDecodeTokens(b) |->
                        Selected(tokens[NumDecodeTokens(b) + i].pos)]
        first   == WriteRows(buffer, NumDecodeTokens(b), prefill)
    IN IF ~HasIndexer \/ ShortContext(b) THEN WriteRows(buffer, 0, short)
       ELSE IF NumDecodes(b) = 0 THEN first
       ELSE WriteRows(WriteRows(first, 0, Packed(b)), 0, Unpacked(b))

-------------------------------------------------------------------------------
(* Decodes: lists of slots per token, packed one behind the other; indptr  *)
(* bounds what the attention kernel reads of them.                         *)

Read(cache, slot, enc) == IF cache[slot].enc = enc THEN cache[slot].key ELSE Garbage

WindowOf(pos) == Max({0, pos - Window + 1}) .. pos
SwaSlots(t) ==
    LET n == Min({t.pos + 1, Window}) IN [i \in 1 .. n |-> SlotOf(t.req, t.pos - n + i)]

Valid(list) == Cardinality({o \in DOMAIN list : list[o] >= 0})   \* _compute_topk_lens_kernel

\* _pack_global_topk_ragged_kernel: the first entries, as many as are valid
RaggedRows(t, list) == [o \in 1 .. Valid(list) |-> RowSlot(t.req, list[o])]

Pack(lists) ==
    LET indptr[i \in 0 .. Len(lists)] == IF i = 0 THEN 0 ELSE indptr[i - 1] + Len(lists[i])
    IN [flat |-> Concat(lists), indptr |-> indptr]
Entry(p, i) == SubSeq(p.flat, p.indptr[i - 1] + 1, p.indptr[i])

ForwardDecode(b, topk, sw, ro) ==
    LET tokens == SubSeq(TokensOf(b), 1, NumDecodeTokens(b))
        main   == Pack([i \in DOMAIN tokens |-> SwaSlots(tokens[i])])
        extra  == Pack([i \in DOMAIN tokens |->
                      IF SwaOnly THEN <<>> ELSE RaggedRows(tokens[i], topk[i])])
    IN [i \in DOMAIN tokens |->
           LET m == Entry(main, i)
               x == Entry(extra, i)
           IN [t |-> tokens[i],
               attends |-> [j \in DOMAIN m |-> Read(sw, m[j], "fnuz")]
                        \o [j \in DOMAIN x |-> Read(ro, x[j], "ocp")]]]

-------------------------------------------------------------------------------
(* Prefills, PREFILL_CHUNK_SIZE requests at a time: compressed rows are    *)
(* gathered into the first N rows of a request's part of the workspace,    *)
(* the window of the chunk's first token and all after it behind them.     *)

N == IF SwaOnly THEN 0 ELSE Cdiv(MaxLen, layer.ratio)
M == N + Window + MaxChunk

SeqLen(e) == e.start + e.len
GatherLen(e) == e.len + Min({e.start, Window - 1})

Gather(kv, chunk, sw, ro) ==
    [x \in DOMAIN kv |->
        LET e   == chunk[(x \div M) + 1]
            row == x % M
            pos == SeqLen(e) - GatherLen(e) + (row - N)
        IN IF x \div M >= Len(chunk) THEN kv[x]
           ELSE IF row < N
           THEN IF row < SeqLen(e) \div layer.ratio THEN Read(ro, RowSlot(e.req, row), "ocp") ELSE kv[x]
           ELSE IF row - N < GatherLen(e) THEN Read(sw, SlotOf(e.req, pos), "fnuz") ELSE kv[x]]

\* Mutation of Combined: the part of the workspace is not the request's own.
CombinedInFirst(i, e, pos, list) ==
    LET n == Min({(pos + 1) \div layer.ratio, Len(list)})
        w == Min({pos + 1, Window})
    IN [o \in 1 .. n |-> IF list[o] >= 0 /\ list[o] < N THEN list[o] ELSE -1]
       \o [o \in 1 .. w |-> N + (o - 1) + pos - w + 1 - (SeqLen(e) - GatherLen(e))]

\* _combine_topk_swa_indices_kernel: one token of the chunk's request i
Combined(i, e, pos, list) ==
    LET n == Min({(pos + 1) \div layer.ratio, Len(list)})
        w == Min({pos + 1, Window})
    IN [o \in 1 .. n |-> IF list[o] >= 0 /\ list[o] < N THEN list[o] + M * (i - 1) ELSE -1]
       \o [o \in 1 .. w |-> M * (i - 1) + N + (o - 1) + pos - w + 1 - (SeqLen(e) - GatherLen(e))]

\* topk is the part of the buffer behind the decodes.
ForwardChunk(acc, p, c, topk, sw, ro) ==
    LET first == (c - 1) * layer.chunk
        chunk == SubSeq(p, first + 1, Min({first + layer.chunk, Len(p)}))
        kv    == Gather(acc.kv, chunk, sw, ro)
        start == QueryStart(p, first)
        tokens == TokensOf(chunk)
        attended(t, list) ==
            LET index == Combined(t.at, chunk[t.at], t.pos, list)
            IN [o \in DOMAIN index |-> IF index[o] \in DOMAIN kv THEN kv[index[o]] ELSE Garbage]
    IN [kv |-> kv,
        out |-> acc.out \o [k \in DOMAIN tokens |->
            [t |-> tokens[k],
             attends |-> attended(tokens[k], IF SwaOnly THEN <<>> ELSE topk[start + k])]]]

ForwardPrefill(b, topk, sw, ro) ==
    LET p      == SubSeq(b, NumDecodes(b) + 1, Len(b))
        behind == [i \in 1 .. Len(topk) - NumDecodeTokens(b) |-> topk[NumDecodeTokens(b) + i]]
        empty  == [x \in 0 .. layer.chunk * M - 1 |-> Garbage]
        chunks == Cdiv(Len(p), layer.chunk)
        after[c \in 0 .. chunks] ==
            IF c = 0 THEN [kv |-> empty, out |-> <<>>]
            ELSE ForwardChunk(after[c - 1], p, c, behind, sw, ro)
    IN after[chunks].out

-------------------------------------------------------------------------------

(* attention_impl and forward_mqa for the batch b.                         *)
Forward(b) ==
    LET topk == Indexer(b) IN
    /\ swa' = Inserted(b)
    /\ state' = SavedState(b)
    /\ rows' = CompressedRows(state', b)
    /\ seen' = ForwardPrefill(b, topk, swa', rows') \o ForwardDecode(b, topk, swa', rows')

EvenDecodes(b) == Cardinality({b[i].len : i \in 1 .. NumDecodes(b)}) <= 1

Batches ==
    LET entries(r) == {[req |-> r, start |-> computed[r], len |-> n, kept |-> k] :
                          n \in 1 .. Min({MaxChunk, MaxLen - computed[r]}), k \in 1 .. MaxChunk}
        legal(r)   == {e \in entries(r) : e.kept <= e.len /\ (IsDecode(e) \/ e.kept = e.len)}
        choices    == {c \in [Admitted -> UNION {legal(r) : r \in Admitted} \cup {<<>>}] :
                          \A r \in Admitted : c[r] \in legal(r) \cup {<<>>}}
        listed(c)  == LET all == SelectSeq([r \in Reqs |-> IF r \in Admitted THEN c[r] ELSE <<>>],
                                           LAMBDA e : e # <<>>)
                      IN SelectSeq(all, IsDecode) \o SelectSeq(all, LAMBDA e : ~IsDecode(e))
    IN {listed(c) : c \in choices}

Step ==
    \E b \in Batches :
        /\ b # <<>>
        /\ Uneven \/ EvenDecodes(b)
        /\ Forward(b)
        /\ step' = b
        /\ computed' = [r \in Reqs |-> LET e == {b[i] : i \in {j \in DOMAIN b : b[j].req = r}} IN
                           computed[r] + IF e = {} THEN 0 ELSE (CHOOSE x \in e : TRUE).kept]
        /\ UNCHANGED <<layer, tables, leaves>>

Next ==
    \/ \E r \in Reqs : Admit(r) \/ Leave(r)
    \/ Step

Spec == Init /\ [][Next]_vars

-------------------------------------------------------------------------------
(* Properties *)

(* What the row of group g must be: the keys of its positions, and with    *)
(* overlap those of the group before it in the other half.                 *)
RowOf(e, g) ==
    [parts |-> {<<Key(e, p), layer.overlap = 1 /\ p >= g * layer.ratio>> :
                    p \in Max({0, (g - layer.overlap) * layer.ratio}) .. (g + 1) * layer.ratio - 1},
     rope |-> g * layer.ratio]

ContextOf(e, pos) ==
    {KeyOf(Key(e, p)) : p \in WindowOf(pos)}
    \cup IF SwaOnly THEN {}
         ELSE {RowOf(e, g) : g \in Max({0, Available(pos) - Width}) .. Available(pos) - 1}

(* Each token of a step attends to exactly the keys of its own window and  *)
(* to the compressed rows selected for it, each once: never to a key of    *)
(* another request, of a request that had the blocks before, of a rejected *)
(* draft of an earlier step or of an earlier chunk in the workspace        *)
(* (_forward_prefill and _forward_decode with the index kernels).          *)
AttendsOwnContext ==
    \A i \in DOMAIN seen :
        LET t == seen[i].t
            e == CHOOSE x \in Range(step) : x.req = t.req
        IN /\ IsInjective(seen[i].attends)
           /\ Range(seen[i].attends) = ContextOf(e, t.pos)

(* Rows that drafts completed and that were rejected are rewritten before  *)
(* anything can see them: the row of every group within the computed       *)
(* tokens comes from kept tokens only (the boundary test of the compressor *)
(* kernels, and the window they gather).                                   *)
RowsSettled ==
    \A r \in Admitted : ~SwaOnly =>
        LET e == [req |-> r, start |-> 0, kept |-> computed[r]] IN
        \A g \in 0 .. (computed[r] \div layer.ratio) - 1 : rows[RowSlot(r, g)].key = RowOf(e, g)
==============================================================================
