----------------------------- MODULE PagedLogits -----------------------------
(***************************************************************************)
(* The indexer's paged logits kernels of patches/                          *)
(* aiter_pa_mqa_logits.i64.py.  A program computes one split of the        *)
(* context of one row (one of the next_n query tokens of a request) and    *)
(* stores a score for each position; it loads block indices and keys a     *)
(* stage or two before it uses them.  Programs run in any order, so what   *)
(* a launch leaves is known only where all stores to an address agree.     *)
(*                                                                         *)
(* x is a launch: x.kind the kernel, x.ctx the context length of each      *)
(* request, x.nextN, x.chunk (ChunkK), x.kvb (KVBlockSize), x.maxLen       *)
(* (max_model_len) and x.splits (SplitKV, or safe_chunks_per_cta).         *)
(* Block i of request b is <<b, i>>; the score of a position is the cache  *)
(* row that it was computed from, <<block, offset>>.                       *)
(***************************************************************************)
EXTENDS Integers, Sequences, FiniteSets, FiniteSetsExt

LOCAL Least(S) == CHOOSE i \in S : \A j \in S : i <= j

Ceil(a, b) == (a + b - 1) \div b
Max0(a) == IF a > 0 THEN a ELSE 0

Zero == <<0, 0>>            \* a masked index load: block 0
Junk == <<0, 1>>            \* a masked load without a value for what is masked
Minus == <<<<0, 2>>, 0>>    \* -inf

Batches(x) == 1 .. Len(x.ctx)
Tokens(x) == 0 .. x.nextN - 1
Stage(x) == x.chunk \div 2

\* A split: its row and the part [start, start + len) of the context.
Split(b, n, start, len) == [b |-> b, n |-> n, start |-> start, len |-> len]

Row(x, s) == (s.b - 1) * x.nextN + s.n
Address(x, s, p) == Row(x, s) * x.maxLen + p
Limit(x, s) == x.ctx[s.b] - x.nextN + s.n

(* buffer_store of the tile of keys k (a function of its offsets) from      *)
(* position c on: positions in [lo, hi) only; causal tiles store -inf       *)
(* behind the row's own token.                                              *)
Put(x, s, c, k, causal, lo, hi) ==
    {[at |-> Address(x, s, c + o),
      val |-> IF causal /\ c + o > Limit(x, s) THEN Minus ELSE k[o]]
        : o \in {i \in DOMAIN k : c + i >= lo /\ c + i < hi}}

AnyEnd(x) == (Len(x.ctx) * x.nextN + 1) * x.maxLen      \* no upper mask

-------------------------------------------------------------------------------
(* How a context is cut *)

\* Contiguous runs of cdiv(chunks, SplitKV) chunks, the last ones cut off or empty.
EqualSplit(x, b, n, i) ==
    LET run == Ceil(Ceil(x.ctx[b], x.chunk), x.splits)
        start == i * run * x.chunk
    IN Split(b, n, start, Min({x.ctx[b] - start, run * x.chunk}))

\* MUTANT: the chunks that are left over are given to nobody.
WithoutRemainder(x, b, n, i, splits) ==
    LET run == Ceil(x.ctx[b], x.chunk) \div splits IN Split(b, n, i * run * x.chunk, Min({x.ctx[b] - i * run * x.chunk, run * x.chunk}))

\* As many chunks each, and one more for each of the first ones.
FairSplit(x, b, n, i, splits) ==
    LET chunks == Ceil(x.ctx[b], x.chunk)
        run    == chunks \div splits
        left   == chunks % splits
        start  == (i * run + Min({i, left})) * x.chunk
    IN Split(b, n, start,
             Min({x.ctx[b] - start, run * x.chunk + IF i < left THEN x.chunk ELSE 0}))

FairSplits(x) == {FairSplit(x, b, n, i, x.splits) : b \in Batches(x), n \in Tokens(x), i \in 0 .. x.splits - 1}

\* The CTAs of a request for each of its tokens (splits is safe_chunks_per_cta).
CtaCount(x, b) == IF b \in Batches(x) THEN Ceil(Ceil(x.ctx[b], x.chunk), x.splits) ELSE 0
CtasBefore(x, b) == MapThenSumSet(LAMBDA i : CtaCount(x, i) * x.nextN, 1 .. b - 1)

(* The walk over the requests from the program's own number; it also ends   *)
(* at a request without context, whose programs return.                     *)
CtaSplits(x, pid) ==
    LET b == Least({i \in 1 .. Len(x.ctx) + 1 : CtaCount(x, i) = 0 \/ pid < CtasBefore(x, i + 1)})
        r == pid - CtasBefore(x, b)
    IN IF CtaCount(x, b) = 0 THEN {}
       ELSE {FairSplit(x, b, r % x.nextN, r \div x.nextN, CtaCount(x, b))}

-------------------------------------------------------------------------------
(* _gluon_deepgemm_fp8_paged_mqa_logits: one index for each position; tiles *)
(* end at the split's end, so the first one may start before it.            *)

Simple(x, s) ==
    LET tile(c) == [o \in 0 .. x.chunk - 1 |-> <<<<s.b, c + o>>, 0>>]
        first(c) == [o \in 0 .. x.chunk - 1 |-> IF c + o >= 0 THEN <<<<s.b, c + o>>, 0>> ELSE <<Zero, 0>>]
        c0 == s.start - ((x.chunk - (s.len % x.chunk)) % x.chunk)
        last == Ceil(Max0(s.start + s.len - x.chunk - c0), x.chunk)
        pos(j) == c0 + j * x.chunk
        \* k_next holds the tile of pos(j) when iteration j begins.
        k(j) == IF j = 0 THEN first(c0) ELSE tile(pos(j - 1) + x.chunk)
    IN UNION {Put(x, s, IF j = last THEN s.start + s.len - x.chunk ELSE pos(j), k(j), TRUE, 0, AnyEnd(x))
                : j \in 0 .. last}

-------------------------------------------------------------------------------
(* The preshuffle kernel on gfx1250: two buffers in shared memory, filled   *)
(* by asynchronous loads that complete in order, two for each block (its    *)
(* keys, then its scales); a wait names how many may still be in flight.    *)

NumBuffers == 2
NotLoaded == -1

\* The block that buffer j % 2 holds of one kind of load once all but inFlight are done.
BufferRead(j, issuedBlocks, which, inFlight) ==
    LET number(t) == 2 * t + (IF which = "keys" THEN 1 ELSE 2)
        t == Max({i \in 0 .. issuedBlocks - 1 : i % NumBuffers = j % NumBuffers})
    IN IF number(t) <= 2 * issuedBlocks - inFlight THEN t ELSE NotLoaded

Tdm(x, s) ==
    LET blocks == Ceil(s.len, x.kvb)
        more(j) == j + 1 < blocks
        issued(j) == IF more(j) THEN j + 2 ELSE j + 1
        keys(j) == BufferRead(j, issued(j), "keys", IF more(j) THEN 3 ELSE 1)
        scales(j) == BufferRead(j, issued(j), "scales", IF more(j) THEN 2 ELSE 0)
        k(j) == [o \in 0 .. x.kvb - 1 |->
                    IF keys(j) = scales(j) /\ keys(j) # NotLoaded
                    THEN <<<<s.b, s.start \div x.kvb + keys(j)>>, o>> ELSE <<Junk, o>>]
    IN UNION {Put(x, s, s.start + j * x.kvb, k(j), TRUE, 0, x.maxLen) : j \in 0 .. blocks - 1}

-------------------------------------------------------------------------------
(* The preshuffle kernels with a block index for each position of a stage   *)
(* (half a chunk is a whole number of blocks).  Chunks end at the split's   *)
(* last block.  A step keeps the keys k of the second half of the chunk at  *)
(* c and the indices i of the first half of the next.                       *)

Padded(x, s) == Ceil(s.len, x.kvb) * x.kvb
Residual(x, s) ==
    LET per == x.chunk \div x.kvb IN ((per - (Ceil(s.len, x.kvb) % per)) % per) * x.kvb
SplitEnd(x, s) == s.start + Padded(x, s)

Indices(x, s, c) == [o \in 0 .. Stage(x) - 1 |-> <<s.b, c \div x.kvb + o \div x.kvb>>]
FirstIndices(x, s, c) ==
    [o \in 0 .. Stage(x) - 1 |->
        IF c \div x.kvb + o \div x.kvb >= s.start \div x.kvb THEN Indices(x, s, c)[o] ELSE Zero]
Load(x, i) == [o \in DOMAIN i |-> <<i[o], o % x.kvb>>]

NextIndices(x, s, c, i) == IF c < SplitEnd(x, s) THEN Indices(x, s, c) ELSE i

StageBegin(x, s) ==
    LET c == s.start - Residual(x, s)
        i == FirstIndices(x, s, c)
    IN [c |-> c, k |-> Load(x, FirstIndices(x, s, c + Stage(x))),
        i |-> NextIndices(x, s, c + x.chunk, i),
        put |-> Put(x, s, c, Load(x, i), FALSE, s.start, AnyEnd(x))]

StageStep(x, s, r) ==
    [c |-> r.c + x.chunk,
     k |-> Load(x, Indices(x, s, r.c + x.chunk + Stage(x))),
     i |-> NextIndices(x, s, r.c + 2 * x.chunk, r.i),
     put |-> r.put \cup Put(x, s, r.c + Stage(x), r.k, FALSE, s.start, AnyEnd(x))
                   \cup Put(x, s, r.c + x.chunk, Load(x, r.i), FALSE, 0, x.maxLen)]

PerStage(x, s) ==
    LET steps == (Padded(x, s) + Residual(x, s)) \div x.chunk - 1
        after[j \in 0 .. steps] ==
            IF j = 0 THEN StageBegin(x, s) ELSE StageStep(x, s, after[j - 1])
        r == after[steps]
    IN r.put \cup Put(x, s, SplitEnd(x, s) - x.chunk + Stage(x), r.k, TRUE, s.start, AnyEnd(x))

-------------------------------------------------------------------------------
(* The preshuffle kernels with one block index for several stages (a block  *)
(* is a whole number of chunks): i0 is the block in use, i1 the next one,   *)
(* rank counts the stages of i0 that are loaded.                            *)

BlockIndex(x, s, i) == IF i < Ceil(x.ctx[s.b], x.kvb) THEN <<s.b, i>> ELSE Junk
Keys(x, i, c) == [o \in 0 .. Stage(x) - 1 |-> <<i, (c % x.kvb) + o>>]

BlockBegin(x, s) ==
    LET c == s.start
        i == c \div x.kvb
    IN [c |-> c, rank |-> ((c \div Stage(x)) % (x.kvb \div Stage(x))) + 2,
        i0 |-> <<s.b, i>>, i1 |-> BlockIndex(x, s, i + 1), next |-> i + 2,
        k |-> Keys(x, <<s.b, i>>, c + Stage(x)),
        put |-> Put(x, s, c, Keys(x, <<s.b, i>>, c), TRUE, 0, x.maxLen)]

BlockStep(x, s, r) ==
    LET turn == r.rank = x.kvb \div Stage(x)
        i0 == IF turn THEN r.i1 ELSE r.i0
    IN [c |-> r.c + x.chunk, rank |-> (IF turn THEN 0 ELSE r.rank) + 2,
        i0 |-> i0,
        i1 |-> IF turn THEN BlockIndex(x, s, r.next) ELSE r.i1,
        next |-> IF turn THEN r.next + 1 ELSE r.next,
        k |-> Keys(x, i0, r.c + x.chunk + Stage(x)),
        put |-> r.put \cup Put(x, s, r.c + Stage(x), r.k, FALSE, 0, x.maxLen)
                      \cup Put(x, s, r.c + x.chunk, Keys(x, i0, r.c + x.chunk), TRUE, 0, x.maxLen)]

PerBlock(x, s) ==
    LET steps == Ceil(Max0(s.len - x.chunk), x.chunk)
        after[j \in 0 .. steps] ==
            IF j = 0 THEN BlockBegin(x, s) ELSE BlockStep(x, s, after[j - 1])
        r == after[steps]
    IN r.put \cup Put(x, s, r.c + Stage(x), r.k, TRUE, 0, x.maxLen)

-------------------------------------------------------------------------------
(* Launches *)

StageIsWholeBlocks(x) == Stage(x) % x.kvb = 0       \* LoadBlockIndiceForEachStage

Preshuffle(x, s) == IF StageIsWholeBlocks(x) THEN PerStage(x, s) ELSE PerBlock(x, s)

\* _gluon_deepgemm_fp8_paged_mqa_logits_preshuffle_varctx; its grid holds every CTA it needs.
VarCtx(x) ==
    UNION {Preshuffle(x, s) : s \in UNION {CtaSplits(x, pid) : pid \in 0 .. CtasBefore(x, Len(x.ctx) + 1)}}

NonEmpty(splits) == {s \in splits : s.len > 0}

Launch(x) ==
    CASE x.kind = "simple" ->
            UNION {Simple(x, s) : s \in NonEmpty({EqualSplit(x, b, n, i)
                                    : b \in Batches(x), n \in Tokens(x), i \in 0 .. x.splits - 1})}
      [] x.kind = "preshuffle" -> UNION {Preshuffle(x, s) : s \in NonEmpty(FairSplits(x))}
      [] x.kind = "gfx1250" -> UNION {Tdm(x, s) : s \in NonEmpty(FairSplits(x))}
      [] x.kind = "varctx" -> VarCtx(x)

(* fp8_paged_mqa_logits_torch, the path without aiter: row n of request b   *)
(* has the score of each position up to its own, and -inf elsewhere.        *)
Reference(x, b, n, p) ==
    IF p < x.ctx[b] /\ p <= x.ctx[b] - x.nextN + n
    THEN <<<<b, p \div x.kvb>>, p % x.kvb>> ELSE Minus

-------------------------------------------------------------------------------
(* Properties *)

(* Every position that a row may attend to gets the score the reference     *)
(* path computes for it, from its own request's block, and no program of    *)
(* any split or row stores anything else there; and unless one block spans  *)
(* several stages, what is stored behind a row's own token is -inf (the     *)
(* four kernels of aiter_pa_mqa_logits against the torch path).             *)
LogitsExact(x) ==
    LET stores == Launch(x) IN
    \A b \in Batches(x) : \A n \in Tokens(x), p \in 0 .. x.ctx[b] - 1 :
        LET stored == {s.val : s \in {t \in stores : t.at = Address(x, Split(b, n, 0, 0), p)}}
            value == Reference(x, b, n, p)
        IN IF value # Minus THEN stored = {value}
           ELSE StageIsWholeBlocks(x) => stored \subseteq {Minus}
==============================================================================
