------------------------------ MODULE BlockTable ------------------------------
(***************************************************************************)
(* The block table of patches/block_table.active-width-copy.py: one row of *)
(* kernel block numbers per request of the persistent batch, kept on the   *)
(* CPU, copied to the GPU before a step, up to the widest row only, and    *)
(* read there to map token positions to cache slots.                       *)
(*                                                                         *)
(* Rows and columns count from 1, positions, ranks and offsets from 0.     *)
(* The caller is the input batch of the model runner: it adds a request to *)
(* a vacant row, clears the row of one that leaves, and moves rows so that *)
(* the requests of a step are in the first ones.                           *)
(***************************************************************************)
EXTENDS Integers, Sequences, FiniteSets

CONSTANTS
    MaxNumReqs,         \* max_num_reqs, the rows
    MaxNumBlocks,       \* max_num_blocks_per_req, in KV blocks
    BlockIds,           \* ids of the KV manager's blocks; 0 is the null block
    BlockSize,          \* block_size of the attention kernel
    BlocksPerKVBlock,   \* blocks_per_kv_block
    CPWorldSize,        \* total_cp_world_size
    InterleaveSize      \* cp_kv_cache_interleave_size

ASSUME BlockTableAssumption ==
    /\ {MaxNumReqs, MaxNumBlocks, BlockSize, BlocksPerKVBlock, CPWorldSize, InterleaveSize}
        \subseteq Nat \ {0}
    /\ BlockIds \subseteq Nat \ {0}
    /\ (BlockSize * BlocksPerKVBlock) % InterleaveSize = 0

VARIABLES
    np,         \* block_table.np, the table on the CPU
    num,        \* num_blocks_per_row
    gpu,        \* block_table.gpu
    batch,      \* batch[row]: the kernel blocks of the request in the row
    active,     \* the rows that hold a request
    committed   \* the rows of the last commit, 0 once a row has changed

vars == <<np, num, gpu, batch, active, committed>>

Rows == 1 .. MaxNumReqs
Width == MaxNumBlocks * BlocksPerKVBlock
Cols == 1 .. Width

ZeroRow == [c \in Cols |-> 0]

Init ==
    /\ np = [row \in Rows |-> ZeroRow]
    /\ num = [row \in Rows |-> 0]
    /\ gpu = [row \in Rows |-> ZeroRow]
    /\ batch = [row \in Rows |-> <<>>]
    /\ active = {}
    /\ committed = 0

-------------------------------------------------------------------------------

(* map_to_kernel_blocks: a KV block is BlocksPerKVBlock kernel blocks.      *)
KernelBlocks(ids) ==
    [i \in 1 .. Len(ids) * BlocksPerKVBlock |->
        ids[((i - 1) \div BlocksPerKVBlock) + 1] * BlocksPerKVBlock + ((i - 1) % BlocksPerKVBlock)]

(* Row r with the sequence s written from column start + 1 on.              *)
Written(r, start, s) ==
    [c \in Cols |-> IF start < c /\ c <= start + Len(s) THEN s[c - start] ELSE r[c]]

(* Row r with its first n columns zeroed.                                   *)
Zeroed(r, n) == [c \in Cols |-> IF c <= n THEN 0 ELSE r[c]]

(* Row t with the first n columns of row s.                                 *)
Copied(s, t, n) == [c \in Cols |-> IF c <= n THEN s[c] ELSE t[c]]

(* append_row, for a request of the batch that got more blocks: the KV      *)
(* manager never gives it more than max_num_blocks_per_req.                 *)
AppendRow(row, ids) ==
    LET new == KernelBlocks(ids)
    IN  /\ row \in active
        /\ num[row] + Len(new) <= Width
        /\ np' = [np EXCEPT ![row] = Written(@, num[row], new)]
        /\ num' = [num EXCEPT ![row] = @ + Len(new)]
        /\ batch' = [batch EXCEPT ![row] = @ \o new]
        /\ committed' = 0
        /\ UNCHANGED <<gpu, active>>

(* add_row, for a new request.                                              *)
AddRow(row, ids) ==
    LET new == KernelBlocks(ids)
    IN  /\ row \notin active
        /\ Len(new) <= Width
        /\ np' = [np EXCEPT ![row] = Written(@, 0, new)]
        /\ num' = [num EXCEPT ![row] = Len(new)]
        /\ batch' = [batch EXCEPT ![row] = new]
        /\ active' = active \cup {row}
        /\ committed' = 0
        /\ UNCHANGED gpu

(* clear_row, for a request that leaves the batch.                          *)
ClearRow(row) ==
    /\ row \in active
    /\ np' = [np EXCEPT ![row] = Zeroed(@, num[row])]
    /\ num' = [num EXCEPT ![row] = 0]
    /\ batch' = [batch EXCEPT ![row] = <<>>]
    /\ active' = active \ {row}
    /\ committed' = 0
    /\ UNCHANGED gpu

(* MUTANT: the vacated row keeps its blocks and its count.                  *)
MoveKeepsSource(src, tgt) ==
    /\ src \in active
    /\ tgt \notin active
    /\ np' = [np EXCEPT ![tgt] = Copied(np[src], @, num[src])]
    /\ num' = [num EXCEPT ![tgt] = num[src]]
    /\ batch' = [batch EXCEPT ![tgt] = batch[src], ![src] = <<>>]
    /\ active' = (active \ {src}) \cup {tgt}
    /\ committed' = 0
    /\ UNCHANGED gpu

(* move_row: a row moves into a vacant one (condense).                      *)
MoveRow(src, tgt) ==
    /\ src \in active
    /\ tgt \notin active
    /\ np' = [np EXCEPT ![tgt] = Copied(np[src], @, num[src]),
                        ![src] = Zeroed(@, num[src])]
    /\ num' = [num EXCEPT ![tgt] = num[src], ![src] = 0]
    /\ batch' = [batch EXCEPT ![tgt] = batch[src], ![src] = <<>>]
    /\ active' = (active \ {src}) \cup {tgt}
    /\ committed' = 0
    /\ UNCHANGED gpu

(* swap_row: the batch is reordered.                                        *)
SwapRow(src, tgt) ==
    /\ {src, tgt} \subseteq active
    /\ src # tgt
    /\ np' = [np EXCEPT ![src] = np[tgt], ![tgt] = np[src]]
    /\ num' = [num EXCEPT ![src] = num[tgt], ![tgt] = num[src]]
    /\ batch' = [batch EXCEPT ![src] = batch[tgt], ![tgt] = batch[src]]
    /\ committed' = 0
    /\ UNCHANGED <<gpu, active>>

(* MUTANT: the width is that of the first row.                              *)
IsFirstWidth(w, n) == w = num[1]

(* w is the width of the widest of the first n rows: max(initial=0).        *)
IsActiveWidth(w, n) ==
    /\ \A row \in 1 .. n : num[row] <= w
    /\ w # 0 => \E row \in 1 .. n : num[row] = w

(* commit_block_table for the n requests of a step, or for a dummy batch    *)
(* that is longer than the batch (rows past it are vacant).                 *)
Commit(n) ==
    /\ active \subseteq 1 .. n
    /\ \E w \in 0 .. Width :
        /\ IsActiveWidth(w, n)
        /\ gpu' = [row \in Rows |-> IF row <= n THEN Copied(np[row], gpu[row], w) ELSE gpu[row]]
    /\ committed' = n
    /\ UNCHANGED <<np, num, batch, active>>

(* The KV manager gives a request no block twice.                           *)
Holds(row, b) == \E i \in DOMAIN batch[row] : batch[row][i] \in {KernelBlocks(<<b>>)[k] : k \in 1 .. BlocksPerKVBlock}

Next ==
    \/ \E row \in Rows, b \in BlockIds : ~Holds(row, b) /\ AppendRow(row, <<b>>)
    \/ \E row \in Rows, b \in BlockIds : AddRow(row, <<b>>)
    \/ \E row \in Rows : ClearRow(row)
    \/ \E src, tgt \in Rows : MoveRow(src, tgt)
    \/ \E src, tgt \in Rows : SwapRow(src, tgt)
    \/ \E n \in Rows : Commit(n)

Spec == Init /\ [][Next]_vars

-------------------------------------------------------------------------------
(* _compute_slot_mapping_kernel: the slot of position pos of a row on a     *)
(* context-parallel rank.                                                   *)

VirtualBlockSize == BlockSize * BlocksPerKVBlock * CPWorldSize

IsLocal(pos, rank) == ((pos % VirtualBlockSize) \div InterleaveSize) % CPWorldSize = rank

(* MUTANT: the interleave is left out of the local offset.                  *)
OffsetWithoutInterleave(pos) == (pos % VirtualBlockSize) \div CPWorldSize

LocalOffset(pos) ==
    LET off == pos % VirtualBlockSize
    IN  (off \div (CPWorldSize * InterleaveSize)) * InterleaveSize + (off % InterleaveSize)

Slot(row, pos) ==
    LET col == (pos \div VirtualBlockSize) * BlocksPerKVBlock + (LocalOffset(pos) \div BlockSize)
    IN  gpu[row][col + 1] * BlockSize + (LocalOffset(pos) % BlockSize)

-------------------------------------------------------------------------------

TypeOK ==
    /\ np \in [Rows -> [Cols -> Nat]]
    /\ num \in [Rows -> 0 .. Width]
    /\ gpu \in [Rows -> [Cols -> Nat]]
    /\ batch \in [Rows -> Seq(Nat)]
    /\ active \subseteq Rows
    /\ committed \in 0 .. MaxNumReqs

(* Through any sequence of adds, appends, moves, swaps and clears, a row    *)
(* lists the blocks of its own request and nothing of earlier tenants: what *)
(* lies behind the row's count is zero.                                     *)
RowExact(row, table) ==
    /\ num[row] = Len(batch[row])
    /\ \A c \in Cols : table[row][c] = IF c <= num[row] THEN batch[row][c] ELSE 0

RowsExact ==
    /\ \A row \in Rows : RowExact(row, np)
    /\ \A row \in Rows \ active : batch[row] = <<>>

(* A step finds all blocks of each of its requests on the GPU, and within   *)
(* the columns that were copied nothing left of an earlier step.            *)
StepSeesItsBlocks ==
    \A row \in 1 .. committed :
        /\ \A c \in 1 .. num[row] : gpu[row][c] = batch[row][c]
        /\ \A c \in Cols, other \in 1 .. committed :
            num[row] < c /\ c <= num[other] => gpu[row][c] = 0

(* A request has whole KV blocks, and no kernel block twice: what makes the *)
(* slots of its positions differ.                                           *)
KVBlocksInv ==
    \A row \in Rows :
        /\ num[row] % BlocksPerKVBlock = 0
        /\ \A i, j \in DOMAIN batch[row] : batch[row][i] = batch[row][j] => i = j

(* The positions the blocks of a row have room for, those of a rank among   *)
(* them, and the slots of the blocks.                                       *)
RowPositions(row) == 0 .. (num[row] \div BlocksPerKVBlock) * VirtualBlockSize - 1
RankPositions(row, rank) == {pos \in RowPositions(row) : IsLocal(pos, rank)}
RowSlots(row) ==
    {b * BlockSize + o : b \in {batch[row][i] : i \in DOMAIN batch[row]}, o \in 0 .. BlockSize - 1}

(* Context-parallel ranks share a request's tokens out exactly: a position  *)
(* belongs to one rank, and on each rank the positions of a request fill    *)
(* every slot of its blocks once.                                           *)
SlotsExact ==
    \A row \in 1 .. committed :
        /\ \A pos \in RowPositions(row) :
            Cardinality({rank \in 0 .. CPWorldSize - 1 : IsLocal(pos, rank)}) = 1
        /\ \A rank \in 0 .. CPWorldSize - 1 :
            /\ {Slot(row, pos) : pos \in RankPositions(row, rank)} = RowSlots(row)
            /\ Cardinality(RankPositions(row, rank)) = Cardinality(RowSlots(row))

===============================================================================
