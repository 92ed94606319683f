----------------------------- MODULE CacheLayout -----------------------------
(***************************************************************************)
(* Where the bytes of a token lie in the paged caches.  Kernels of four    *)
(* files compute the same offsets by hand: the writers of the indexer's    *)
(* cache (fused_compress_quant_cache, rocm_aiter_mla_sparse) tile it 16 by *)
(* 16 for the readers (cp_gather, aiter_pa_mqa_logits); the writers of the *)
(* attention caches (cache_utils, fused_compress_quant_cache) keep FP8 and *)
(* bf16 parts by token and the scales at the end of the block, for two     *)
(* readers more (cache_utils, rocm_aiter_mla_sparse).                      *)
(*                                                                         *)
(* A byte is named by what it is a byte of: <<token, part, index>>.  x is  *)
(* a cache in use: x.writer, x.reader, x.blockSize, and x.tables and       *)
(* x.lens, the block tables and lengths of the requests.                   *)
(***************************************************************************)
EXTENDS Integers, Sequences, FiniteSets

CONSTANTS
    Tile,           \* 16: BLOCK_TILE_SIZE and HEAD_TILE_SIZE
    HeadDim,        \* 128, the indexer's head
    ScaleBytes,     \* 4: the float32 scale of an indexer key
    Stage,          \* ChunkKPerStage of the logits kernel
    NopeDim,        \* 448 dimensions in FP8
    RopeDim,        \* 64 dimensions in bf16
    QuantBlock,     \* 64 dimensions share a scale
    ScaleDim,       \* 8 scales, the last one padding
    Width32         \* 2^32

IndexerWriters == {"compress_indexer", "indexer_k_quant"}

-------------------------------------------------------------------------------
(* Blocks and slots *)

TokenBytes == NopeDim + 2 * RopeDim
IsIndexer(x) == x.writer \in IndexerWriters

\* k_cache.stride(0); attention caches are padded to a multiple of a token.
Stride(x) ==
    IF IsIndexer(x) THEN x.blockSize * (HeadDim + ScaleBytes)
    ELSE ((x.blockSize * (TokenBytes + ScaleDim) + TokenBytes - 1) \div TokenBytes) * TokenBytes

Tokens(x) == UNION {{<<r, p>> : p \in 0 .. x.lens[r] - 1} : r \in DOMAIN x.lens}
BlockOf(x, token) == x.tables[token[1]][(token[2] \div x.blockSize) + 1]
Slot(x, token) == BlockOf(x, token) * x.blockSize + (token[2] % x.blockSize)

\* MUTANT: the product of block and stride in 32 bits.
ProductIn32Bits(block, stride) == ((block * stride + (Width32 \div 2)) % Width32) - (Width32 \div 2)

\* block_idx.to(tl.int64) * stride: wide enough for every address
BlockStart(block, stride) == block * stride

\* Bytes first .. first + n - 1 of a part at address a on.
Span(a, token, part, first, n) == {<<a + i, <<token, part, first + i>>>> : i \in 0 .. n - 1}

-------------------------------------------------------------------------------
(* The indexer's cache: values, then a float per token. *)

Shuffled(x) == x.blockSize > 1      \* SHUFFLE_CACHE; layout == "SHUFFLE"

(* _fused_kv_compress_norm_rope_insert_indexer_attn *)
CompressedAt(x, pos, d) ==
    IF Shuffled(x)
    THEN (pos \div Tile) * Tile * HeadDim + (d \div Tile) * Tile * Tile + (pos % Tile) * Tile + (d % Tile)
    ELSE pos * HeadDim + d

CompressIndexer(x, token) ==
    LET slot  == Slot(x, token)
        pos   == slot % x.blockSize
        start == BlockStart(slot \div x.blockSize, Stride(x))
    IN {<<start + CompressedAt(x, pos, d), <<token, "value", d>>>> : d \in 0 .. HeadDim - 1}
        \cup Span(start + x.blockSize * HeadDim + pos * ScaleBytes, token, "scale", 0, ScaleBytes)

(* _indexer_k_quant_and_cache_kernel: views of the values and, counted in   *)
(* floats, of the scales                                                    *)
TileOffset(x, d) == IF Shuffled(x) THEN (d \div Tile) * Tile * Tile + (d % Tile) ELSE d

IndexerKQuant(x, token) ==
    LET slot  == Slot(x, token)
        pos   == slot % x.blockSize
        dst   == BlockStart(slot \div x.blockSize, Stride(x))
                    + IF Shuffled(x) THEN (pos \div Tile) * Tile * HeadDim + (pos % Tile) * Tile ELSE pos * HeadDim
        float == BlockStart(slot \div x.blockSize, (Stride(x) \div ScaleBytes)) + pos
    IN {<<dst + TileOffset(x, d), <<token, "value", d>>>> : d \in 0 .. HeadDim - 1}
        \cup Span(x.blockSize * HeadDim + float * ScaleBytes, token, "scale", 0, ScaleBytes)

(* _cp_gather_indexer_quant_cache_kernel: tokens by their offset in     *)
(* the batch, to rows of k_fp8.  A reader gives an address to each byte.    *)
CpGather(x, token) ==
    LET block  == x.tables[token[1]][(token[2] \div x.blockSize) + 1]
        pos    == token[2] % x.blockSize
        src    == BlockStart(block, Stride(x))
                    + IF Shuffled(x) THEN (pos \div Tile) * HeadDim * Tile + (pos % Tile) * Tile ELSE pos * HeadDim
        float  == BlockStart(block, Stride(x) \div ScaleBytes) + pos
    IN {<<src + TileOffset(x, d), <<token, "value", d>>>> : d \in 0 .. HeadDim - 1}
        \cup Span(x.blockSize * HeadDim + float * ScaleBytes, token, "scale", 0, ScaleBytes)

(* _gluon_deepgemm_fp8_paged_mqa_logits_preshuffle: a lane of a stage of    *)
(* whole blocks; only the block is looked up.                               *)
LogitsStage(x, token) ==
    LET lane  == token[2] % Stage
        block == x.tables[token[1]][((token[2] - lane) \div x.blockSize) + (lane \div x.blockSize) + 1]
        start == BlockStart(block, Stride(x))
        fixed(d) == (d % Tile) + (d \div Tile) * Tile * Tile
                        + (lane % Tile) * Tile + ((lane % x.blockSize) \div Tile) * Tile * HeadDim
        scale == x.blockSize * HeadDim
                    + (BlockStart(block, Stride(x) \div ScaleBytes) + (lane % x.blockSize)) * ScaleBytes
    IN {<<start + fixed(d), <<token, "value", d>>>> : d \in 0 .. HeadDim - 1}
        \cup Span(scale, token, "scale", 0, ScaleBytes)

-------------------------------------------------------------------------------
(* The attention caches: by token 448 FP8 and 64 bf16 values, and the       *)
(* scales after the tokens of the block.                                    *)

(* quantize_and_insert_k_kernel: block by block of dimensions               *)
QuantizeInsert(x, token) ==
    LET slot  == Slot(x, token)
        start == BlockStart(slot \div x.blockSize, Stride(x))
        data  == start + (slot % x.blockSize) * TokenBytes
        scale == start + x.blockSize * TokenBytes + (slot % x.blockSize) * ScaleDim
        quantized(b) ==
            IF b * QuantBlock >= NopeDim THEN {}
            ELSE {<<data + d, <<token, "nope", d>>>> :
                     d \in {e \in b * QuantBlock .. (b + 1) * QuantBlock - 1 : e < NopeDim}}
                 \cup {<<scale + b, <<token, "scale", b>>>>}
    IN UNION {quantized(b) : b \in 0 .. ScaleDim - 1}
        \cup {<<scale + ScaleDim - 1, <<token, "padding", 0>>>>}
        \cup Span(data + NopeDim, token, "rope", 0, 2 * RopeDim)

(* _fused_kv_compress_norm_rope_insert_sparse_attn and, with the same       *)
(* offsets, the second kernel of the two-stage compressor                   *)
CompressSparse(x, token) ==
    LET slot  == Slot(x, token)
        start == BlockStart(slot \div x.blockSize, Stride(x))
        fp8   == start + (slot % x.blockSize) * TokenBytes
        scale == start + x.blockSize * TokenBytes + (slot % x.blockSize) * ScaleDim
        nopeBlocks == NopeDim \div QuantBlock
    IN Span(fp8, token, "nope", 0, NopeDim)
        \cup Span(scale, token, "scale", 0, nopeBlocks)
        \cup {<<scale + nopeBlocks, <<token, "padding", 0>>>>}
        \cup Span(fp8 + NopeDim, token, "rope", 0, 2 * RopeDim)

(* _dequantize_and_gather_k_kernel: by position, through the block table     *)
GatherK(x, token) ==
    LET start == BlockStart(x.tables[token[1]][(token[2] \div x.blockSize) + 1], Stride(x))
        data  == start + (token[2] % x.blockSize) * TokenBytes
        scale == start + x.blockSize * TokenBytes + (token[2] % x.blockSize) * ScaleDim
    IN Span(data, token, "nope", 0, NopeDim)
        \cup {<<scale + b, <<token, "scale", b>>>> : b \in {c \in 0 .. ScaleDim - 2 : c * QuantBlock < NopeDim}}
        \cup Span(data + NopeDim, token, "rope", 0, 2 * RopeDim)

(* _sparse_attn_decode_ragged_kernel, by slot: each dimension with the      *)
(* scale it is multiplied with                                              *)
DecodeK(x, token) ==
    LET slot  == Slot(x, token)
        start == BlockStart(slot \div x.blockSize, Stride(x))
        data  == start + (slot % x.blockSize) * TokenBytes
        scale == start + x.blockSize * TokenBytes + (slot % x.blockSize) * ScaleDim
    IN Span(data, token, "nope", 0, NopeDim)
        \cup {<<scale + (d \div QuantBlock), <<token, "scale", d \div QuantBlock>>>> : d \in 0 .. NopeDim - 1}
        \cup Span(data + NopeDim, token, "rope", 0, 2 * RopeDim)

-------------------------------------------------------------------------------

Writes(x, token) ==
    CASE x.writer = "compress_indexer" -> CompressIndexer(x, token)
      [] x.writer = "indexer_k_quant" -> IndexerKQuant(x, token)
      [] x.writer = "quantize_insert" -> QuantizeInsert(x, token)
      [] x.writer = "compress_sparse" -> CompressSparse(x, token)

Reads(x, token) ==
    CASE x.reader = "cp_gather" -> CpGather(x, token)
      [] x.reader = "logits" -> LogitsStage(x, token)
      [] x.reader = "gather" -> GatherK(x, token)
      [] x.reader = "decode" -> DecodeK(x, token)

(* Whatever blocks the requests have, also where a block's offset does not  *)
(* fit in 32 bits: every byte a reader takes for a byte of a token was      *)
(* written as that byte and by no other token, and no write leaves its      *)
(* block (the store and load offsets of the kernels above).                *)
LayoutsAgree(x) ==
    LET memory == UNION {Writes(x, token) : token \in Tokens(x)}
    IN \A token \in Tokens(x) :
        /\ \A read \in Reads(x, token) : {w \in memory : w[1] = read[1]} = {read}
        /\ \A w \in Writes(x, token) : w[1] \div Stride(x) = BlockOf(x, token)
==============================================================================
