# Verification of the DeepSeek-V4-Flash serving patches

This directory holds TLA+ modules for the program logic of this repository: the
patches that are mounted over a vLLM image (`src/patches`), and the scripts
around them (`src/scripts`). TLC checks the modules on small instances; TLAPS
proves theorems about five of them, the scheduler among them, for every value of
their constants. Paths below are relative to `src/`.

What has state, order and failure is the request scheduler with its KV block
pool, the worker that moves KV blocks between CPU and GPU, the block table of the
model runner, the HTTP middleware, the streaming parser of tool calls and the
tools that write checkpoint variants. The rest of the repository is GPU kernels
and tensor code; its numbers are not modelled, but which cache row, which byte
and which list entry a kernel reads and writes is, because a wrong index is
silent: the model answers, with the keys of somebody else.

## The system and its parts

| Part | Source | State it keeps | Operations | Module |
|---|---|---|---|---|
| Request scheduler | `patches/scheduler.contention-aware.py` | three queues, the counters of each request, the steps in flight, prefills in flight, ended and failed loads, blocks kept for sending | `add_request`, `schedule`, `update_from_output`, `finish_requests`, `reset_prefix_cache`, `update_draft_token_ids` | `Scheduler` |
| Deferred block frees | same file | `deferred_frees`, `sched_step_seq`, `processed_step_seq`, `last_sched_seq` | `_free_request_blocks`, `_free_cow_retained_blocks`, `_drain_deferred_frees` | `BlockFence` |
| Block table | `patches/block_table.active-width-copy.py` | rows on the CPU and on the GPU, blocks per row | `append_row`, `add_row`, `clear_row`, `move_row`, `swap_row`, `commit_block_table`, slot mapping | `BlockTable` |
| KV offload worker | `patches/kv_offload_cpu_gpu_worker.load-war.py` | two transfer queues, pools of streams, events and descriptor buffers | `transfer_async`, `get_finished`, `wait`, `shutdown` | `OffloadWorker`, `TransferOrder` |
| Request diagnostics | `patches/request_diagnostics.py` | buffered request messages, pending event, what has ended | ASGI `receive` and `send` wrappers, the rewrite of the body | `Diagnostics` |
| Hermes fallback parser | `patches/deepseek_v4_hermes_fallback.py` | look-back buffer, open wrapper, engine state | feed a delta, end a stream, judge an output | `HermesFeed` |
| Attention layer | `patches/deepseek_v4_rocm...py`, `deepseek_v4_attention...py`, `rocm_aiter_mla_sparse.decode-h32-k16.py`, `fused_compress...py` | three paged caches, the index buffer, the prefill workspace | insert, compress, select, attend | `SparseLayer` |
| Sparse decode and prefill attention | `patches/rocm_aiter_mla_sparse.decode-h32-k16.py` | accumulators of a launch | partial, reduce, unsplit kernels | `SparseAttention` |
| Indexer logits | `patches/aiter_pa_mqa_logits.i64.py` | stages in flight of a program | four kernels, their splits | `PagedLogits` |
| Top-k selection | `patches/sampler.topk-tiebreak-sanitize.cu` | histograms, final items | histogram steps, two sorts, split and merge | `TopKSelect` |
| Cache layouts | `cache_utils`, `fused_compress_quant_cache`, `rocm_aiter_mla_sparse`, `aiter_pa_mqa_logits` in `patches/` | bytes of a block | four writers, four readers | `CacheLayout` |
| Checkpoint variants | `scripts/restore_base_mtp.py`, `scripts/export_markov_variant.py`, their verifiers | a tree of hard links, replaced shards, provenance file | build, rebuild, verify | `CheckpointVariant` |
| DSpark draft sampling | `patches/dspark-speculator...py`, `patches/spec-decode-utils...py` | none of its own | neural computation, a shifted noise position | not modelled |
| Training and data collection | `scripts/train_markov_calibrator.py`, `scripts/collect_mtp_calibration_data.py` | tensors, files | numeric loop, HTTP | not modelled |
| Measurement scripts | `scripts/phase3_ab.py`, `scripts/phase4_quality_gate.py`, `scripts/test_stream_integrity.py` | none | HTTP, statistics | not modelled |
| Mixture-of-experts kernels | `patches/mxfp4...py`, `patches/gpt_oss_triton...py`, `kernel-dev/` | tensors | floating point | not modelled |
| Deployment and tuning tables | `compose.yaml`, shell scripts, `tuning/` | configuration | set-up | not modelled |

How the parts interact. The scheduler and the block pool live in one EngineCore
thread, which runs one handler at a time. A step that `schedule` dispatches runs
on the GPU; its output comes back to `update_from_output` in FIFO order, up to
`max_concurrent_batches` schedules later. In between the scheduler preempts,
finishes and admits requests on counters that already include the steps in
flight. A KV connector loads prefixes into blocks at its own pace: the scheduler
learns only from a later output that a load has ended or failed, and keeps the
blocks of a finished request as long as the connector still sends them. The worker
side of such a connector is the offload worker. Block ids of a step travel to the
model runner's block table, whose rows follow the persistent batch. Every
attention layer then inserts the step's keys into its caches through these
tables, compresses the groups that the step completes, scores the compressed rows
with the logits kernels, selects the best with the top-k kernel, and attends. The
tokens go out through the streaming parser and the diagnostics middleware.

### What is hard, and what makes each part correct

* Scheduler: the counters of a request (`num_computed_tokens`,
  `num_output_placeholders`, `num_in_flight_tokens`, `num_stale_output_tokens`)
  are moved ahead at dispatch and put right by outputs that come back steps
  later, possibly after a preemption. Correct means: they match what is in
  flight; each output position is delivered once and in order; each unfinished
  request is in the one queue its status calls for; a step stays within its
  budget; no block is lost; every request ends.
* Deferred frees: blocks of a preempted request may still be written by a step
  in flight, while a load, ordered by no stream, is about to fill them. Correct
  means: no such block is in the pool, none is lost, all come back in the end.
* Block table: rows are reused by many requests and only the active width
  reaches the GPU. Correct means: a step reads exactly its own blocks, and the
  ranks of a context-parallel group share the tokens out without gap or overlap.
* Offload worker: transfers of one direction run in order over pooled streams and
  events, and a load must not overwrite blocks that enqueued steps still read.
* Diagnostics: the wrapped application, the client and the wrapper may each end
  the exchange; a stream must end once, with a finish or an error, and buffered
  messages must be replayed in order.
* Hermes parser: a tag may be split over deltas anywhere; the streamed result
  must be that of the whole text, and an incomplete call must not pass.
* Attention layer: a token attends to the keys of its own request and window, and
  to the rows selected for it, whatever was in the blocks, the workspace or the
  index buffer before, and whatever drafts are rejected.
* Kernels: splits, stages, padding and ties must not show in the result, and
  kernels that share a cache must agree on where each byte lies.
* Checkpoint variants: a crash between two steps must not leave a directory that
  passes for complete, and a shard shared by hard link must not be written.

PROJECT.json lists every hazard at its line with the properties that cover it.

## Modules

| Module | What it is |
|---|---|
| `BlockFence` | The step fence of the block pool alone: which blocks are free, owned, deferred or touched by a step in flight. The abstract specification of the pool. |
| `BlockFence_proofs` | Theorems about `BlockFence`. |
| `Scheduler` | The scheduler's handlers, phase by phase, with its instance `Fence` of `BlockFence` and the refinement `ImplementsFence`. |
| `Scheduler_proofs` | The shapes of the scheduler's variables, what each action leaves alone, `PoolWhole`, and the queues: `QueuesConsistent`. |
| `SchedulerAccounts_proofs` | Sums over the steps in flight, and the counters of a request: `InFlightExact`, `ComputedExact`. |
| `SchedulerPromises_proofs` | What rests on the accounts: output order, loads, threshold, budget, blocks. |
| `SchedulerFence_proofs` | The refinement `ImplementsFence`, `NoLoadRace` with and without the fence, and `TypeOK`. |
| `BlockTable` | Rows of the block table on the CPU and the GPU, and the slot mapping kernel. |
| `BlockTable_proofs` | Theorems about `BlockTable`. |
| `TransferOrder` | What the offload worker promises: an ordered queue of transfers per direction, each after the steps enqueued before it. |
| `OffloadWorker` | Host calls, streams, events and pools of the worker; implements `TransferOrder`. |
| `OffloadWorker_proofs` | Theorems about `OffloadWorker`, the refinement among them. |
| `Diagnostics` | Client, application and the two wrappers between them. |
| `HermesFeed` | The rewrite of a streamed output, against one of the whole text. |
| `SparseLayer` | An attention layer and its caches, step after step. |
| `SparseAttention`, `PagedLogits`, `TopKSelect`, `CacheLayout` | Kernels as functions of a launch, each with the reference it must equal. |
| `CheckpointVariant` | The checkpoint tools as processes on a file system, and the verifiers as tests of its state. |
| `CheckpointVariant_proofs` | Theorems about `CheckpointVariant`. |
| `MCBlockFence`, `MCScheduler`, `MCSparseLayer` | Instances for TLC: symmetry sets, prompt lengths, a layer. |
| `MCFrontend` | Inputs of `Diagnostics` and `HermesFeed`. |
| `MCComponents` | The composition of all parts that have no run of their own, one part per behaviour. |

Definitions marked MUTANT are wrong on purpose: each is a plausible bug of the
definition after it, and TLC finds the property it is paired with violated when
it takes that definition's place. No specification uses them.

### BlockFence

A block is in `free`, in the table `owned[r]` of a request, among the retained
copy-on-write sources `cow`, or in an entry of `deferred`. `access[s]` is a ghost:
the blocks step `s` may touch from its dispatch until its output is processed.
Slot `schedSeq + 1` collects the copies that are enqueued with a step of zero
tokens, which gets no number. The actions are `Allocate` and `BeginLoad`
(`allocate_slots`), `EndLoad` (the worker), `FreeFailedLoad` (the path past the
fence in `_update_waiting_for_remote_kv`), `FreeRequestBlocks`, `Dispatch` (the
end of `schedule`) and `Process` (`update_from_output`, which drains the entries
whose fence is reached, stopping at the first that is not).

The module lets any request take any blocks at any time: it promises safety
whatever the scheduler decides, so it can be checked and proved on its own.

### Scheduler

`req[r]` is the Request record, `running`, `waiting`, `skipped` the queues,
`inflight` the steps on the GPU with the batch each carries. A handler with a
loop is a chain of phases held in `step` (its locals): one action per iteration
of the running loop (`SkipRunning`, `ScheduleRunning`, `PreemptForBlocks`), of
the waiting loop (`SkipWaiting`, `PromoteLoaded`, `AdmitLoad`, `AdmitRunning`,
`BreakWaiting`), of the loop of `update_from_output` (`SkipEntry`, `UpdateEntry`),
and of `reset_prefix_cache`. Nothing else runs between two of them: client calls
(`AddRequest`, `Abort`, `UpdateSession`) come between handlers, and so does
`LoadDone` and `SendDone`, the worker's end of a transfer. The worker is not bound to
that, but no handler looks at a transfer before an output reports it, so an end in
the middle of a handler shows no other behaviour.

The KV connector is outside the repository and is modelled by what this code calls and
receives. A lookup (`get_num_new_matched_tokens`) answers with any number of
`LoadableTokens`, 0, or, with `LookupsMayWait`, None: the candidate is skipped
(`SkipWaiting`). `request_finished` may keep the blocks of a finished request to send
them, with `SendsKV` (`FreeRequest`); `finished_sending` frees them (`ReportSent`). A
connector that is asked about a request whose load is still under way is taken to keep
nothing: the request has computed nothing that could be sent. Invalid blocks may come
with any output for any request that waits for its load, whether the load has ended or
not, and again (`InvalidBlocks`); the blocks looked at are those of its computed
tokens.

Tokens are counted, not named: a delivered token carries its output position,
which is all `DeliveredInOrder` needs. What the drafts are worth is a choice of
how many are accepted. The KV cache manager is outside the repository: it is
modelled by counts of blocks (`Needed`, `Fits`, `Take`) as this code uses it.

Left out, and why: encoder inputs, LoRA, grammars, pooling models and Mamba
alignment (the profile in `configs/production-k7.env` serves one text model);
the priority policy (FCFS is configured); connectors with synchronous loads;
`PauseState`; data-parallel prefill balancing. Prefix-cache hits in the GPU pool
are enabled in production and are left out too: they share blocks between
requests, which needs reference counts in the pool. Each admission starts from
what the connector holds.

### BlockTable

`np`, `num` and `gpu` are the table; `batch[row]` is a ghost with the kernel
blocks the row's request was given, `active` the rows that hold a request and
`committed` the rows of the last commit, reset as soon as a row changes. The
caller, vLLM's input batch, is external: it adds requests to vacant rows only,
moves rows into vacant ones, and commits at least the rows that are active.
The guard of `AppendRow` is what the KV manager ensures (no request outgrows its
row). One table is modelled; MultiGroupBlockTable runs the same operation on
each group's table.

### OffloadWorker and TransferOrder

A transfer is a record of the stream, the two events and the buffers it took from
the pools. The device follows CUDA's rules, which are written at the head of the
module: streams run their operations in order and concurrently to each other,
`record` makes a new version of an event, `wait_event` waits for the version
recorded last when it was called. `Execute(s)` takes the next operation of a
stream; everything else is a host call: `SubmitStore` and `SubmitLoad` (the two
directions of `transfer_async`, which both wait for the steps enqueued before them,
line 378),
`GetFinished`, `BeginWait` and `EndWait`, `Shutdown` with `DrainTransfer` and
`EndShutdown`, and `EnqueueStep` for the model runner's steps on the compute
stream, which end with `EndStep`. A copy reads its descriptor buffer when it
executes, so a buffer that went back to the pool too early shows in `moved`, the
history of whose descriptors each copy used. `CopiesOwnBlocks` asks that it is its own,
and that whoever is taken for ended, by `get_finished`, by `wait` or by the shutdown, has
made its copy.

`TransferOrder` knows no streams: in each direction a transfer starts when the
one before it is done and the steps enqueued before it are over. The refinement
`InSubmissionOrder` reads a transfer's phase from what is left on its stream.

### Diagnostics and HermesFeed

Both are driven by inputs that are chosen at the start: the client's messages and
the symbols the application wants to stream, or a model output and the tools of
the request. Chunks and deltas are cut anywhere. In `Diagnostics` the wrapped
application may return, raise or find the client gone at any point; `pending` is
the part of an event that was not passed on yet. `lacks` says that the body is a
deepseek-v4 request that selects no chat template: within the cap, what the application
reads is the client's body with that selection (`Rewritten`, one more unit); over the
cap it is the client's messages as they came. In `HermesFeed` tool calls may be
suppressed (the rewrite returns at once), the engine starts in content or, with
thinking, in reasoning, and a stream ends with a last delta (`ParseLastDelta`) or by
`finish_streaming`, which flushes nothing of what is held back. `WholeRun` is
the same rewrite fed the text at once: the reference that `SplitIndependent`,
`LastDeltaJudged` and `BodiesWhole` compare with. The engine behind the rewrite is outside the
repository and is modelled by the transition table this code imports.

### SparseLayer

A key is the token it was computed from, so attention needs no numbers: `seen`
records which keys the index lists of each token reach. `Forward` follows the
order of the layer: insert into the window cache, store the compressor's state,
write compressed rows (`CompressedRows`, with overlap in two stages), select
(`Indexer`, with the short-context path, or all rows), attend
(`ForwardPrefill` by chunks through the workspace, `ForwardDecode` through ragged
lists). Blocks of requests that leave are given to others as they are. Padding
rows, the shared index buffer and the workspace keep what was in them.

### The kernels

`SparseAttention`, `PagedLogits`, `TopKSelect` and `CacheLayout` are functions from
a launch to its result; they have no behaviour of their own. Concurrency inside a
launch is in them where it can show: stores of all programs are collected as a set
and must agree on each address (`PagedLogits`), the order in which threads reach an
atomic counter is an input (`TopKSelect`). Floating point is replaced by whole
numbers in which the kernels' operations are exact.

### CheckpointVariant

`entry` says for each file of the output whether it is absent, a hard link to the
input's inode, or an inode of its own. Writing to a linked entry writes the input
(`WrittenTo`); renaming onto it does not (`Renamed`). The actions are the system
calls that matter, in the order of `main`; `Crash` is a kill between two of them,
`Fail` an exception, which runs the `finally` clause. The tool may be started again
with `--force`. The verifiers are predicates on the directory: `Verified` is what
they would answer at that moment.

## Runs

| Run | What it asks | Instance | Distinct states |
|---|---|---|---|
| `BlockFence` | Does the fence keep blocks of steps in flight out of the pool, lose none, and return all? | 2 requests, 3 blocks, 3 steps | 49,365 |
| `SchedulerAsync` | Do counters, queues, budget and output order survive overlap, drafts, preemption, an abort and a cache reset? | 2 requests, 4 blocks of 2 tokens, 3 batches in flight, 1 draft, 1 reset | 133,525 |
| `SchedulerLoads` | With loads that may fail and blocks that are sent: no lost block, no race, does every report meet its request, and does the scheduler implement `BlockFence`? | 2 requests, prompts of 3 tokens and of 1, loads of 1 or 2 tokens, lookups that wait, sends, both may be aborted, 3 blocks, 2 batches in flight, 5 numbered steps | 113,736 |
| `SchedulerSessions` | Are the slots of paused, fed and ended sessions counted right while nothing is preempted? | 1 session with 2 updates, 2 others, 2 slots | 32,255 |
| `SchedulerLiveness` | Does every request end when two loads, which may fail, cannot both stay in the pool, and blocks are sent? | 2 requests, one may be aborted, 4 blocks | 68,973 |
| `SchedulerLostSession` | finding 1 | 2 requests, 3 blocks | violation |
| `SchedulerPadOverrun` | finding 2 | 2 requests, 6 blocks, 2 drafts | violation |
| `SchedulerLookahead` | finding 3 | 2 requests, 4 blocks, 2 lookahead slots | violation |
| `OffloadWorker` | Do transfers run in order and after the steps before them, with pooled streams and events, copy their own blocks, and end? | 3 transfers, 1 step, empty or not | 240,456 |
| `Components` | Each other part against its properties, on all its small inputs. | see below | 256,900 |
| `HermesBodies` | finding 4 | as in `Components` | violation |
| `IndexerPadding` | finding 5 | 3 requests, decodes of different lengths | violation |

What each property says is in the comment before it. The deep ones are:
`InFlightExact` (the stale share of a request is always a whole number of its
oldest steps, so it drains to zero exactly with its last stale output),
`ComputedExact` (rejected drafts are rolled back exactly although later steps
were scheduled on top of them), `DeliveredInOrder` (a preempted request neither
repeats nor skips an output), `TokensBacked`, `QueuesConsistent`, `NoLoadRace`,
`ImplementsFence`, `Completes`, `InSubmissionOrder`, `EndEventExact`, `FailsClosed`,
`SplitIndependent`, `AttendsOwnContext`, `LogitsExact`, `LayoutsAgree`,
`VariantExact`.

### The `Components` run

One run checks the parts that are used one at a time. The variable `part` says
which one a behaviour is about, and never changes; the variables of the others keep
their initial values. Nothing is lost by that: these parts share no state. A
kernel part is one state per launch, so the invariant is checked on every launch
of the set; the other parts are explored as usual.

| `part` | Properties | Instance |
|---|---|---|
| block table | `RowsExact`, `StepSeesItsBlocks`, `SlotsExact` | 3 rows of 2 KV blocks, 2 kernel blocks each, 2 ranks, interleave 2 |
| middleware | `BodyIntact`, `FailsClosed`, `Transparent`, `EndsOnce` | bodies of up to 3 messages around a cap of 2; streams of up to 3 events, cut anywhere, in chunks of up to 3 symbols |
| parser | `SplitIndependent`, `LastDeltaJudged`, `FirstEnvelopesClosed` | three pieces of text and tags, or a native envelope of two calls, cut anywhere, deltas of up to 3 symbols; none, one or both tools, suppressed or not, with and without thinking |
| layer | `AttendsOwnContext`, `RowsSettled` | 2 requests of up to 4 tokens, 1 draft, window 2; layers with overlap and indexer, without, and window only |
| sparse attention | `AttentionExact` | 2 queries, 3 rows per cache, lists with invalid entries and stale ends, 1 to 8 compute units |
| paged logits | `LogitsExact` | 4 kernels, contexts up to 24 tokens beside one of 0, 1, 7 or 24, 1 to 4 splits, 1 or 2 query tokens |
| top-k | `TopKExact` | rows of 3 to 5 keys in 3 bins, 2 best, 2 threads with one item, two append orders |
| cache layout | `LayoutsAgree` | every writer with every reader of its cache, blocks of 1, 2 and 4 tokens, offsets beyond the width |
| variant | `VariantExact` | both tools, 2 shards, a configuration file, with and without a provenance file in the input |

### Bounds, and why they are enough

* Two requests are enough to compete for blocks, slots and budget: one is
  preempted for the other, one loads while the other's blocks are deferred. The
  session run has a third, so that a paused session and two others meet at two
  slots. Blocks are chosen one short of what both requests need, so preemption
  is reached in every run that is about it.
* Three batches in flight let a request be scheduled, preempted and resumed
  before its first output is back, and be preempted twice.
* `MaxSteps` bounds the number of numbered steps, and only where blocks are
  deferred (`DeferBlockFree`); elsewhere sequence numbers are not needed and the
  runs are unbounded in length. Five steps allow a block to be written, deferred,
  drained, loaded and written again. `MaxUpdates`, `MaxResets` and `MaxTokens`
  bound what clients do.
* Blocks are interchangeable and no property names one, so `Symmetry` permutes
  them; requests are permuted in the `BlockFence` module only. No run with a
  liveness property uses symmetry.
* In the `Components` run a row of the block table has two KV blocks, so an active width may be
  zero, half or full, and a virtual block is split twice over two ranks.
* Three transfers let a stream, an event and a buffer be used, returned and used
  again while another transfer that waits for the first is still queued; one step
  is enough to be overtaken. `OpCounts` has an empty transfer, which records its
  events without a copy.
* Two requests in the layer make two rows of every list, a chunk boundary in the
  workspace and one request that gets the blocks of another that left. Four tokens
  are two groups, so a row with overlap has a group before it. Drafts may be
  rejected where they complete a group.
* The kernels' tiles, stages, widths and thread counts are parameters with small
  values that keep their relations: a context spans several stages and splits, with
  and without a remainder; a block is smaller than, equal to and larger than a
  stage; more elements fall into the cut than fit in the final sort; a block's
  offset passes the width of 32-bit arithmetic (`Width32`), which is what the 64-bit
  change of the patches is about.
* The `Components` run does not check deadlock: a response that was sent, a text
  that was fed and a kernel that ran have ended.
* The scheduler runs do not check deadlock: when all requests have finished and
  the bounds are used up, the engine really has nothing to do. That something
  which should go on does is the business of `Completes`.

### Fairness

* `WF_vars(EngineNext)` in `Scheduler`: the busy loop of EngineCore calls
  `schedule` and collects outputs as long as there are requests; a handler, once
  called, runs to its end. Arrivals, aborts, session updates and resets are the
  clients' and have no fairness.
* `SF_vars(LoadDone(r))`, `SF_vars(SendDone(r))`: a transfer, once begun, ends,
  whatever the engine does meanwhile. The fairness is strong because the model enables
  these actions between handlers only, while the worker may be done at any time, and
  because a retry may begin the load again. That loads succeed is not assumed.
* `WF_vars(Process)` in `BlockFence`: a step in flight is executed and its output
  collected.

* `OffloadWorker`: `WF_vars(Execute(s))` and `WF_vars(EndStep)`, since the device
  executes what it can; `WF_vars(EndWait)`, `WF_vars(DrainTransfer(d))` and
  `WF_vars(EndShutdown(d))`, since a host call that has begun goes on;
  `SF_vars(GetFinished)`, since the engine's loop polls again and again, but `wait`
  disables it in between. `EveryTransferEnds` needs no fairness of submissions.

`Completes` is checked with failing loads under the policy fail. Under
recompute a load may fail for ever, and so may the request. Lookups answer there
(`LookupsMayWait` is FALSE): a connector that says None for ever starves its request,
and nothing in this code prevents it.

`DeferredReturn` speaks of entries of `deferred`. Copy-on-write sources that are fenced
at `schedSeq + 1` stay until another numbered step is scheduled and its output is back,
which an idle engine may never do; no property promises their return.

## Proofs

`BlockFence_proofs`, for every set of requests and blocks and every bound on the
steps (the only assumption is `MaxSteps \in Nat`):

* `TypeCorrect`: the variables keep their types.
* `InductiveInvariant`: `IInv == TypeOK /\ Exclusive /\ FenceInv` always holds.
* `BlocksPartitioned`, `FenceHolds`, `LoadsDoNotRace`: `PoolPartitioned` (which is
  `Exclusive` and `NoLeak`), `NoEarlyFree` and `NoLoadRace` always hold.

`NoEarlyFree` is not inductive: nothing in it keeps a table or a deferred entry
from being freed while a step still touches its blocks. `FenceInv` says why that
does not happen: whoever owns a block that step `s` touches was last scheduled in
`s` or later, and runs no load; an entry that holds such a block has a fence no
earlier than `s`. So a request is freed at once only if no step in flight touches
its blocks, and an entry is drained only after the steps that do. `Exclusive` is
needed beside it, because a block in two places could be freed in the one while
it is guarded in the other. One step of
the argument deserves mention: copy-on-write sources are fenced by the number
of the next non-empty step, even when the step that enqueues them is empty.
`NoLeak` needs only the types: every action moves blocks from one place to another.

`Scheduler` is connected by refinement: `SchedulerLoads` checks it on its instance,
and `MovesAsFenced` (below) proves it, so that these theorems speak of the scheduler too.

The scheduler, for every set of requests, every finite pool and every setting that
`SchedulerAssumption` allows (sizes are positive, prompts fit the model, drafts over
several batches need the async scheduler, sessions exclude it: what vLLM's own
configuration checks enforce). The modules build on each other:

* `Scheduler_proofs`. `ShapesHold`: every variable keeps its shape. Counters are
  integers there; that they stay in range takes the accounts below. `PoolStaysWhole`:
  `PoolWhole`, with streaming sessions and in either mode of freeing. It is inductive
  once the shapes are known: each action moves blocks from one place to another.
  `QueuesStayConsistent`: `QueuesConsistent`, if there are no sessions (`NoSessions`).
  `QueuesInv` carries it through the handlers, where a request may be in none of the
  queues (`schedule` has skipped it) or still in one although it has stopped
  (`Leaving`). With sessions the statement is false: finding 1.
* `SchedulerAccounts_proofs`. `InFlightStaysExact` and `ComputedStaysExact`, under
  `NoSessions` and `PadsFit`. `PadsFit` asks that a padded decode stays below
  `MaxModelLen` and is not cut by the threshold; without it a step may have a count
  below zero (finding 2) or more drafts than tokens (see Observations), and the accounts
  do not hold. The inductive invariant is `AccountsInv`. Its centre is the list of
  `Slots`, the steps whose output is still to come: the tokens of a request in them
  add up to `inFlight`; `stale` is one of the partial sums (`Balanced`); the outputs
  that count (`Awaited`) continue the request's output without a gap (`Follows`). A
  request that runs decodes, with all its tokens but the last computed plus those
  to come, or is in its prefill with none to come (`Runs`); one that does not run has
  nothing in flight but stale steps (`Waits`). `BatchInv` says the same of the step
  `schedule` is filling. The sums are recursive functions; what happens to them when a
  slot is appended, drained or rebased is proved in lemmas about any sequence
  (`SumsGrow`, `SumsShift`, `SumsHead`), position by position: `UpTo` says that a set of
  positions with 0, closed under successor, has them all, which takes no operator
  parameter and so is within the provers' reach.
* `SchedulerPromises_proofs`, under the same two hypotheses: `OutputInOrder`
  (`DeliveredInOrder`, an action property: by `Follows`, the entry at the head of
  `update_from_output` has the position behind the last token), `TransfersStayTracked`
  (`TransfersTracked`, with `LoadsInv`, `LoadingInv` and `SendsInv`), `LongPrefillsAlone` (`FullQuantumOnlyAlone`, with
  `AloneInv`), `BudgetIsKept` (`StepWithinBudget`, with `BudgetInv`), `BlocksBackTokens`
  (`TokensBacked`, with `BackedInv`: within `schedule` the blocks already cover the
  tokens of the step being filled) and `ResetFreesAll` (`ResetReleasesBlocks`). The last
  one has a third hypothesis, `~DeferBlockFree`: with deferred frees the reset fails
  while a step is in flight (see Observations).
* `SchedulerFence_proofs`, under the same two hypotheses again.
  * `MovesAsFenced` (`ImplementsFence`), with `DeferBlockFree`: every step of the scheduler
    is a step of `BlockFence` or leaves its variables alone. Two invariants carry it.
    `SeqInv`: the steps in flight that have requests are exactly those numbered from
    `procSeq + 1` to `schedSeq`, oldest first, and the others write nothing; so the step
    that leaves the pipeline is the one whose number the fence moves to, and what it
    wrote is what leaves `access`. `LoadingInv`: what a load still fills belongs to a
    request that waits for it, or that finished meanwhile, and is not yet reported; so
    blocks are never freed or scheduled under a load. That a request which computes has
    blocks (`BackedInv`) is needed for the fence's guard on a step.
  * `LoadsMeetNoStep` (`NoLoadRace`): with `DeferBlockFree` it is `LoadsDoNotRace` of
    `BlockFence_proofs`, instantiated with the scheduler's variables, over the refinement.
    Without, there is no connector, or one batch at a time and nothing in flight while
    `schedule` begins a load; no fence is needed then.
  * `TypesHold` (`TypeOK`): no counter of any request ever becomes negative. For requests
    that are not finished this is what the accounts say; a finished one has left them,
    while its steps are still in flight. `FinishedInv` says what it keeps: all counters it
    had when it stopped are natural, and once it is forgotten so is what it had in
    flight. That the steps which still drain never take more than is there is
    `InFlightExact`, which covers whoever the scheduler knows.

The proof of the refinement found `BlockFence` wrong where the run did not: its load
action asked for a request without blocks, but a prompt of one token that is loaded
whole is asked for again with its table in place (see Observations). `BeginLoad` allows
it now, the theorems about `BlockFence` were proved again, and `SchedulerLoads` has such a
prompt.

All of these invariants were checked by TLC on the scheduler's instances before they were
proved. `NoSessions` and `PadsFit` are satisfied by `SchedulerAsync` and `SchedulerLoads`.

`OffloadWorker_proofs`, for every number of transfers, streams and events and every
size of a transfer:

* `WorkerInvariant`: `WorkerInv`. Streams, events and buffers are reused, so none of the
  properties is inductive: that an end event reads complete exactly at the end of its
  own transfer needs that nobody else records it (`PoolsExact`, `TransfersApart`),
  that what was executed has had its effect and the rest is on the stream in the order
  it was enqueued (`RestOfEnqueued`, `EffectOfExecuted`), and that a stream or event in
  a pool is at rest (`UnusedAtRest`).
* `EndEventExactHolds`, `CopiesOwnBlocksHolds`: `EndEventExact` and `CopiesOwnBlocks`. For
  the second, `CopiesAhead` says that a transfer whose copy is still on its stream has
  not moved its blocks yet and finds its own descriptors, and that any other has moved
  them; with `EndEventExact`, whoever is taken for ended has nothing left on its stream.
* `InSubmissionOrderHolds`: every step of the worker is a step of `TransferOrder` or
  leaves its variables alone. `Chained` is what it rests on: a transfer's stream waits
  for the end event of the one before it, in the version that one recorded, so when it
  has started all before it are done.

`BlockTable_proofs`, for every number of rows and blocks under
`BlockTableAssumption` (sizes are positive; a KV block is a multiple of the
interleave size):

* `TypeCorrect`, and `RowsStayExact`: `RowsExact` is inductive with `TypeOK`. What
  carries the proof is that vacant rows are empty, so that a move or an add,
  which writes only a prefix of the target, leaves zeros behind it.
* `ActiveWidthSuffices`: `StepSeesItsBlocks`. A commit copies the first `w` columns
  and `w` is at least the count of every row of the step; by `RowsExact` what is
  copied behind a row's count is zero.
* `SlotsStayExact`: `SlotsExact`, for every number of ranks, interleave and block size. The
  strengthening is `KVBlocksInv`, inductive with `TypeOK`: a row has whole KV blocks and no
  kernel block twice. A position is then given by four numbers, its KV block, its
  interleave of all ranks in it, the rank, and the place in that (`PositionAt`), and the
  divisions of the kernel find exactly these (`PositionRead`), since a quotient and
  remainder are unique (`PartsUnique`). So a position belongs to one rank, and for
  each rank the slot mapping is a bijection from its positions to the slots of the
  row's blocks (`SlotHasPosition`, `SlotsDiffer`). The two theorems above say which
  blocks these are and that the GPU sees them.

`CheckpointVariant_proofs`, for every set of shards and other files and every
distribution of tensors over them, under `VariantAssumption` (a tensor is in one
shard, as the index says; each tool has something to replace; the Markov tensors
are in one shard: both tools exit otherwise):

* `VariantInvariant`: `VariantInv` always holds, with any number of crashes,
  failures and restarts.
* `VariantsStayExact`: so does `VariantExact`. What the verifiers look at does not
  include that all files are there; `Settled` closes the gap: a shard of the
  output's own, or a temporary file, exists only after all links, and the
  temporary file only while some shard is still unreplaced. A verifier that accepts
  has seen every edited shard replaced (`VerifiedReplaced`).

Only model-checked: of `Scheduler`, `SlotsRespected` (its point is sessions, which the
proofs exclude); the middleware, the parser and the layer; the kernels, whose results are
sums and folds over lists; every liveness property (`DeferredReturn`, `Completes`,
`EveryTransferEnds`), since fairness and ENABLED are out of the prover's reach, as is
induction over data in general.


## Findings

1. `SchedulerLostSession` (`patches/scheduler.contention-aware.py:1954`): a
   streaming session preempted with an output in flight, which that output then
   stops, is re-queued by `_handle_stopped_request` and removed from the queues
   again at the end of the update. It is never scheduled again.
2. `SchedulerPadOverrun` (`:896`): the draft padding may fill `max_model_len`
   itself; the next overlapped schedule computes -1 tokens.
3. `SchedulerLookahead` (`:973`): the reservations of loads leave out the lookahead
   slots the first chunk needs, so loads can hold the pool among them and nothing
   runs.
4. `HermesBodies` (`patches/deepseek_v4_hermes_fallback.py:396`): in an open
   wrapper only what may start a closing tag is held back. If the tag comes in a
   later delta than the body, the call gets the end of its body, the rest is text.
5. `IndexerPadding` (`patches/rocm_aiter_mla_sparse.decode-h32-k16.py:829`): decodes
   of different lengths are padded to more rows than there are decode tokens, and
   their selection is written over the first rows of the step's prefills.

## Observations

Seen while modelling, without a run. The models follow the code in each case, and
the properties say where they stop short because of it.

* Scheduler: `reset_prefix_cache` raises when blocks are still in `deferred_frees`,
  although the comment before its reset (2438-2440) expects all blocks to be free:
  with a connector and two batches in flight TLC finds `ResetReleasesBlocks` violated.
  `SchedulerAsync` checks the reset without a connector, and its theorem excludes
  deferred frees.
* Scheduler: the threshold of long prefills is applied after a decode was padded to
  1 + `num_spec_tokens` tokens (902-903, after 884-900). A threshold of at most
  `num_spec_tokens` cuts it again, while as many drafts are named for the step
  (1078-1081), against "Pad new decode requests to uniform spec decoding size" (884).
  The proof of the accounts stopped there, and TLC finds such a step; `PadsFit`
  excludes it.
* Scheduler: a prompt of one token that is loaded whole has no computed token left when
  it is promoted (its last token is computed anew), so the connector is asked again, and
  if it answers as before, another load begins into the blocks the request has.
* Scheduler: a load that fails with no
  valid token stays in `_inflight_prefills`, so its retry counts its own reservation
  against itself (969, 2660-2665).
* Scheduler: a session that is fed while it waits keeps its blocks, and the loop over the
  waiting requests breaks at the first one that lacks blocks (988-996). If a request
  ahead of it needs more than is free and nothing runs that could be preempted, no step
  is scheduled again. TLC finds `Completes` violated with one session, one update and
  three blocks, in which two loads of one block each are each a block short; so
  `SchedulerLiveness` is about requests that are no sessions.
* Block table: the zeros of vacated rows need not reach the GPU, because only the
  active width is copied (214), against the comment in `move_row` (170-172). A
  dummy batch over vacant rows sees old block numbers; a real step does not
  (`StepSeesItsBlocks`).
* Offload worker: the store handler's shutdown cleans `mmap_region` (459-461) before
  the load handler has drained its transfers, which read it.
* Diagnostics: `terminal_sse` does not record the [DONE] that line 333 appends, so
  an exception after the final body ends the stream twice; a last [DONE] without its
  blank line passes with no error before it. `EndsOnce` and `FailsClosed` except
  exactly these two.
* Hermes parser: whether the output is incomplete is decided before the last delta is
  fed (426): a call that this delta closes is dropped, one that it opens is flushed
  (compare `docs/STREAM_DIAGNOSTICS.md:57`). `LastDeltaJudged` is about outputs in
  which no envelope, wrapped or native, is opened or closed in the last delta or in what
  was held back before it; what comes earlier may be anything.
* Hermes parser: `_incomplete_tool_markup` looks for a closer behind the first opener of
  each kind only (289-290; `find` at 279-281 for native envelopes, where any `TOOL_END`
  behind the first `TOOL_START` will do). So `<execute_code></execute_code><execute_code>`
  is accepted with a wrapper open, against "Return true when output starts a tool envelope
  but never closes it" (269) and "now rejects incomplete native DSML and Hermes XML
  envelopes in non-streaming responses" (`docs/STREAM_DIAGNOSTICS.md:49-50`).
  TLC finds it as soon as `FirstEnvelopesClosed` is asked of outputs in which an
  opening tag comes twice; the property is about those in which each comes once.
* Paged logits: the epilogue of the staged kernels stores without the test against
  `max_model_len` (about 976-984), so with a length that is no multiple of the block
  size -inf spills into the next row; the run has `maxLen` a multiple. The walk of
  the varctx kernel stops at a request without context, so the run has none before
  another. With blocks of more than a stage, and three query tokens, finite scores
  are stored behind a row's own token; the top-k, which is given row lengths, does
  not read them. The weights of padded decodes (822) are not packed as the queries
  are.
* Top-k: "a deterministic lower-original-index tie break"
  (`PREFILL-OPTIMIZATION-20260809.md:79`) holds where the cut is sorted by insertion;
  long decode rows take the radix sort, and split rows the merge, which break ties by
  the order of atomic appends. Registers without an item hold -FLT_MAX and no index;
  scores of -infinity sort behind them.
* Cache layouts: the torch fallback of the logits (287-386) reads values unshuffled
  and scales token by token, unlike what the writers of a shuffled cache store; the
  comment at 424-425 describes that layout. Blocks must have 1 token or a multiple of
  16. The kernel for blocks of 1 token computes offsets in 32 bits, and so does the
  per-block branch of the preshuffle kernel (1072-1086 and its later stages), whose
  `buffer_load` takes 32-bit offsets. Neither is among the readers of `LayoutsAgree`, which with
  offsets past that width would not find the writers' bytes.
* Checkpoint tools: "The original checkpoint is never modified"
  (`scripts/export_markov_variant.py:6`) does not hold of an input that is such a
  variant itself: its provenance file is linked into the output, and `write_text`
  (106; likewise `restore_base_mtp.py:136`) truncates and rewrites the shared inode.
  `VariantExact` speaks of weights and configuration only. A removal that is cut
  short (`--force`) can leave a directory without its configuration or its other
  shards that `verify_mtp_variant.py` accepts.

## Not modelled

* Numbers: matrix products, quantisation, the Mixture-of-experts kernels, the DSpark
  draft model and its noise, training. TLC has nothing to say about floating point;
  where a kernel's control depends on numbers (top-k, softmax) small whole numbers
  stand for them.
* `rocm_aiter_mla_sparse.topk-tiebreak.py` is an earlier version of the modelled
  `decode-h32-k16`; the dense MLA backend (`rocm_aiter_mla.dspark-causal.py`) prepares
  metadata for kernels of the image.
* I/O without a protocol: measurement scripts, data collection, downloads,
  deployment.
* In modelled components: what "Modules" and the notes of PROJECT.json list.
  Symbolic links, which `export_markov_variant.py` falls back to across file systems,
  are left out; sub-block arithmetic of the offload descriptors is, too.

## Plan

1. Proofs: `BodyIntact` of `Diagnostics`; `SlotsRespected` of `Scheduler` with sessions, which needs queue invariants that
   finding 1 does not break.
2. A composition of `OffloadWorker` with `BlockFence` in which the worker takes the
   place of the load actions, so that the order the streams give and the order the
   fence gives are checked together.
3. The scheduler with shared prefix blocks, which needs reference counts in the pool.
