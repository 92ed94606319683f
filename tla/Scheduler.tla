------------------------------ MODULE Scheduler ------------------------------
(***************************************************************************)
(* The request scheduler of patches/scheduler.contention-aware.py.         *)
(*                                                                         *)
(* The EngineCore thread runs one handler at a time (schedule,             *)
(* update_from_output, add_request, finish_requests, reset_prefix_cache);  *)
(* the steps it dispatches run on the GPU and their outputs come back in   *)
(* FIFO order, up to MaxConcurrentBatches steps later, while loads of the  *)
(* KV connector end whenever they end.  A handler with a loop is a phase:  *)
(* one action per iteration, nothing of the thread in between.             *)
(*                                                                         *)
(* Policy FCFS, loads of the connector asynchronous.  Left out: encoder    *)
(* inputs, LoRA, grammars, pooling, Mamba alignment, DP prefill balancing, *)
(* the decode cadence of pipeline parallelism with async scheduling, pauses*)
(* and prefix-cache hits in the GPU pool (each admission starts from the   *)
(* tokens the connector finds).                                            *)
(***************************************************************************)
EXTENDS Integers, SequencesExt

CONSTANTS
    Requests,                  \* request identifiers, never reused
    Blocks,                    \* KV blocks of the GPU block pool
    BlockSize,                 \* tokens per block
    PromptTokens,              \* PromptTokens[r]: length of r's prompt
    MaxTokens,                 \* max_tokens of every request
    MaxModelLen,               \* max_model_len
    MaxNumRunningReqs,         \* max_num_running_reqs
    MaxNumScheduledTokens,     \* max_num_scheduled_tokens
    LongPrefillTokenThreshold, \* long_prefill_token_threshold, 0 is off
    NumSpecTokens,             \* num_spec_tokens
    NumLookaheadTokens,        \* num_lookahead_tokens
    MaxConcurrentBatches,      \* max_concurrent_batches
    AsyncScheduling,           \* the AsyncScheduler subclass is used
    KVConsumer,                \* there is a connector that loads KV
    RequiresKVDelivery,        \* connector.requires_kv_delivery
    RecomputeKVLoadFailures,   \* recompute_kv_load_failures
    ReserveFullISL,            \* scheduler_reserve_full_isl
    LoadableTokens,            \* the prefix lengths the connector can hold
    FailingLoads,              \* whether loads may report invalid blocks
    LookupsMayWait,            \* whether a lookup of the connector may be put off
    SendsKV,                   \* the connector may send a finished request's blocks
    Resumable,                 \* the requests that are streaming sessions
    Abortable,                 \* the requests a client may abort
    MaxUpdates,                \* bound on the updates of a session
    MaxResets,                 \* bound on the calls of reset_prefix_cache
    MaxSteps                   \* bound on the non-empty steps (DeferBlockFree)

ASSUME SchedulerAssumption ==
    /\ IsFiniteSet(Blocks)
    /\ LoadableTokens \subseteq Nat
    /\ {AsyncScheduling, KVConsumer, RequiresKVDelivery, RecomputeKVLoadFailures, ReserveFullISL,
        FailingLoads, LookupsMayWait, SendsKV} \subseteq BOOLEAN
    /\ {BlockSize, MaxTokens, MaxModelLen, MaxNumRunningReqs, MaxNumScheduledTokens,
        MaxConcurrentBatches} \subseteq Nat \ {0}
    /\ {LongPrefillTokenThreshold, NumSpecTokens, NumLookaheadTokens, MaxUpdates, MaxResets,
        MaxSteps} \subseteq Nat
    /\ PromptTokens \in [Requests -> 1 .. MaxModelLen - 1]
    /\ Resumable \cup Abortable \subseteq Requests
    /\ (NumSpecTokens > 0 /\ MaxConcurrentBatches > 1) => AsyncScheduling
    /\ Resumable # {} => ~AsyncScheduling

VARIABLES
    req,        \* req[r]: the counters and the status of a Request
    requests,   \* self.requests: what finish and KV transfer still know
    running, waiting, skipped,  \* the three queues (skipped_waiting)
    numWaitingForStreaming,     \* num_waiting_for_streaming_input
    inflightPrefills,           \* _inflight_prefills
    recv, failed,   \* finished_recving_kv_req_ids, failed_recving_kv_req_ids
    send,           \* send[r]: whether the connector still sends r's blocks
    free, owned,    \* the block pool and the block tables
    load,           \* load[r]: as mode[r] of BlockFence
    deferred, schedSeq, procSeq,  \* as in BlockFence
    inflight,       \* the steps on the GPU, oldest first
    step,           \* the locals of the handler that is running
    resets          \* number of calls of reset_prefix_cache

queues == <<running, waiting, skipped, numWaitingForStreaming>>
kv == <<free, owned, load, deferred>>
seqs == <<schedSeq, procSeq>>
xfer == <<recv, failed, send>>
vars == <<req, requests, queues, inflightPrefills, xfer, kv, seqs, inflight, step, resets>>

(* MUTANT: the pool is fenced without a connector, too. *)
DeferAlways == MaxConcurrentBatches > 1

DeferBlockFree == KVConsumer /\ MaxConcurrentBatches > 1

Blocked == {"WAITING_FOR_REMOTE_KVS", "WAITING_FOR_STREAMING_REQ"}
Status == Blocked \cup {"NEW", "WAITING", "PREEMPTED", "RUNNING", "FINISHED"}

NewRequest(r) ==
    [status |-> "NEW", prompt |-> PromptTokens[r], all |-> PromptTokens[r], output |-> 0,
     computed |-> 0, placeholders |-> 0, spec |-> 0, inFlight |-> 0, stale |-> 0,
     drop |-> FALSE, chunk |-> FALSE, lastSched |-> 0, preempted |-> FALSE,
     queue |-> <<>>, updates |-> 0]

Idle ==
    [phase |-> "idle", idx |-> 1, budget |-> 0, threshold |-> 0, batch |-> <<>>,
     preempted |-> FALSE, ran |-> FALSE, prefill |-> FALSE, skipped |-> <<>>, todo |-> <<>>, ids |-> {},
     stoppedRunning |-> {}, stoppedOther |-> {}, errors |-> {}, received |-> {}]

Init ==
    /\ req = [r \in Requests |-> NewRequest(r)]
    /\ requests = {} /\ inflightPrefills = {}
    /\ recv = {} /\ failed = {} /\ send = [r \in Requests |-> "none"]
    /\ running = <<>> /\ waiting = <<>> /\ skipped = <<>>
    /\ numWaitingForStreaming = 0
    /\ free = Blocks
    /\ owned = [r \in Requests |-> {}]
    /\ load = [r \in Requests |-> "idle"]
    /\ deferred = <<>> /\ schedSeq = 0 /\ procSeq = 0
    /\ inflight = <<>>
    /\ step = Idle
    /\ resets = 0

-------------------------------------------------------------------------------
(* Queues and block arithmetic.                                             *)

Least(a, b) == IF a < b THEN a ELSE b

(* remove_requests *)
RemoveAll(queue, S) ==
    LET kept[i \in 0 .. Len(queue)] ==
            IF i = 0 THEN <<>>
            ELSE IF queue[i] \in S THEN kept[i - 1] ELSE Append(kept[i - 1], queue[i])
    IN  kept[Len(queue)]

BlocksFor(tokens) == (Least(tokens, MaxModelLen) + BlockSize - 1) \div BlockSize

(* The load of r is not reported yet.                                       *)
AwaitsLoad(r) == req[r].status = "WAITING_FOR_REMOTE_KVS" /\ r \notin recv

(* Blocks allocate_slots has to add to r's table to reach `tokens` tokens.  *)
Needed(r, tokens) ==
    LET n == BlocksFor(tokens) - Cardinality(owned[r]) IN IF n > 0 THEN n ELSE 0

(* MUTANT: the reservation of the requests between load and last prefill    *)
(* chunk is forgotten.                                                      *)
NothingReserved == 0

(* _request_remaining_blocks and _inflight_prefill_reserved_blocks.         *)
Remaining(r) == Needed(r, req[r].all)
ReservedBlocks == MapThenSumSet(Remaining, inflightPrefills)

Fits(n, reserved) == n <= Cardinality(free) - reserved

Take(r, n) ==
    \E B \in kSubset(n, free) :
        /\ free' = free \ B
        /\ owned' = [owned EXCEPT ![r] = @ \cup B]

(* MUTANT: blocks are freed one step too early.                             *)
FencedOneShort(r) == ~DeferBlockFree \/ req[r].lastSched <= procSeq + 1

NoWriteInFlight(r) == ~DeferBlockFree \/ req[r].lastSched <= procSeq

(* _free_request_blocks, and the pool's free when no fence is needed.       *)
FreeRequestBlocks(r) ==
    /\ IF NoWriteInFlight(r)
       THEN free' = free \cup owned[r] /\ UNCHANGED deferred
       ELSE /\ deferred' = IF owned[r] = {} THEN deferred
                           ELSE Append(deferred, [fence |-> schedSeq, blocks |-> owned[r]])
            /\ UNCHANGED free
    /\ owned' = [owned EXCEPT ![r] = {}]
    /\ load' = [load EXCEPT ![r] = "idle"]

(* MUTANT: drained entries are not popped, and are freed again.             *)
DrainKeepsEntries(p) ==
    /\ free' = free \cup UNION {deferred[i].blocks : i \in {j \in DOMAIN deferred : deferred[j].fence <= p}}
    /\ UNCHANGED deferred

(* _drain_deferred_frees once step p is processed.                          *)
DrainDeferredFrees(p) ==
    \E k \in 0 .. Len(deferred) :
        /\ \A i \in 1 .. k : deferred[i].fence <= p
        /\ k < Len(deferred) => deferred[k + 1].fence > p
        /\ free' = free \cup UNION {deferred[i].blocks : i \in 1 .. k}
        /\ deferred' = SubSeq(deferred, k + 1, Len(deferred))

(* MUTANTS: a second preemption adds to the stale tokens what they already  *)
(* hold; or the computed tokens are kept although their blocks go.          *)
PreemptedTwice(q, drop) ==
    [q EXCEPT !.status = "PREEMPTED", !.computed = 0, !.spec = 0, !.placeholders = 0,
              !.drop = drop \/ (q.drop /\ q.stale > 0), !.stale = @ + q.inFlight,
              !.preempted = TRUE]

PreemptedComputed(q, drop) ==
    [q EXCEPT !.status = "PREEMPTED", !.spec = 0, !.placeholders = 0,
              !.drop = drop \/ (q.drop /\ q.stale > 0), !.stale = q.inFlight,
              !.preempted = TRUE]

(* _preempt_request, with the victim already out of `running`.              *)
PreemptedRequest(q, drop) ==
    [q EXCEPT !.status = "PREEMPTED", !.computed = 0, !.spec = 0, !.placeholders = 0,
              !.drop = drop \/ (q.drop /\ q.stale > 0), !.stale = q.inFlight,
              !.preempted = TRUE]

PreemptRequest(r, drop) ==
    /\ req' = [req EXCEPT ![r] = PreemptedRequest(@, drop)]
    /\ FreeRequestBlocks(r)
    /\ inflightPrefills' = inflightPrefills \ {r}
    /\ waiting' = <<r>> \o waiting

(* _update_request_as_session: the tokens past the computed ones are        *)
(* dropped, the kept ones and one new token become the prompt.              *)
SessionRequest(q) ==
    LET kept == Least(q.computed, q.all)
        keptOutput == IF kept > q.prompt THEN kept - q.prompt ELSE 0
    IN  [q EXCEPT !.status = "WAITING", !.all = kept + 1, !.prompt = @ + keptOutput + 1,
                  !.output = 0]

-------------------------------------------------------------------------------
(* add_request and finish_requests.                                         *)

AddRequest(r) ==
    /\ step.phase = "idle"
    /\ req[r].status = "NEW"
    /\ req' = [req EXCEPT ![r].status = "WAITING"]
    /\ requests' = requests \cup {r}
    /\ waiting' = Append(waiting, r)
    /\ UNCHANGED <<running, skipped, numWaitingForStreaming, inflightPrefills, xfer, kv, seqs,
                   inflight, step, resets>>

(* _free_request for a request without a load under way: its blocks are     *)
(* freed, unless the connector keeps them to send them.                     *)
FreeRequest(r) ==
    \/ requests' = requests \ {r} /\ FreeRequestBlocks(r) /\ UNCHANGED send
    \/ SendsKV /\ send' = [send EXCEPT ![r] = "sending"] /\ UNCHANGED <<requests, kv>>

(* MUTANTS: a finished request stays in the sets of reported loads; or its  *)
(* blocks are freed although its load is still under way.                   *)
FinishKeepsReports(r) ==
    /\ req' = [req EXCEPT ![r].status = "FINISHED"]
    /\ inflightPrefills' = inflightPrefills \ {r}
    /\ IF AwaitsLoad(r) THEN UNCHANGED <<requests, kv, send>> ELSE FreeRequest(r)
    /\ UNCHANGED <<recv, failed>>

FinishFreesLoad(r) ==
    /\ req' = [req EXCEPT ![r].status = "FINISHED"]
    /\ inflightPrefills' = inflightPrefills \ {r}
    /\ FreeRequest(r)
    /\ recv' = recv \ {r}
    /\ failed' = failed \ {r}

(* The second half of finish_requests for r, whose queues are up to date:   *)
(* blocks an async load still writes stay until the load is reported.       *)
FinishAndFree(r) ==
    /\ req' = [req EXCEPT ![r].status = "FINISHED"]
    /\ inflightPrefills' = inflightPrefills \ {r}
    /\ IF AwaitsLoad(r) THEN UNCHANGED <<requests, kv, send>> ELSE FreeRequest(r)
    /\ recv' = IF req[r].status = "WAITING_FOR_REMOTE_KVS" THEN recv \ {r} ELSE recv
    /\ failed' = IF req[r].status = "WAITING_FOR_REMOTE_KVS" THEN failed \ {r} ELSE failed

(* MUTANT: an aborted session keeps its slot.                               *)
SlotsKept(r) == 0

(* The slots of the model runner that r gives back by leaving its queue.    *)
SlotsReleased(r) == IF req[r].status = "WAITING_FOR_STREAMING_REQ" THEN 1 ELSE 0

FinishRequest(r) ==
    /\ r \in requests
    /\ req[r].status # "FINISHED"
    /\ running' = RemoveAll(running, {r})
    /\ waiting' = RemoveAll(waiting, {r})
    /\ skipped' = RemoveAll(skipped, {r})
    /\ numWaitingForStreaming' = numWaitingForStreaming - SlotsReleased(r)
    /\ FinishAndFree(r)
    /\ UNCHANGED <<seqs, inflight, resets>>

Abort(r) ==
    /\ step.phase = "idle"
    /\ FinishRequest(r)
    /\ UNCHANGED step

(* add_request for a session that exists: a chunk of one token, or the end. *)
UpdateSession(r, u) ==
    /\ step.phase = "idle"
    /\ r \in requests
    /\ req[r].updates < MaxUpdates
    /\ IF req[r].status # "WAITING_FOR_STREAMING_REQ"
       THEN /\ req' = [req EXCEPT ![r].queue = Append(@, u), ![r].updates = @ + 1]
            /\ UNCHANGED <<requests, queues, inflightPrefills, xfer, kv, seqs, inflight, resets>>
       ELSE IF u = "chunk"
       THEN /\ req' = [req EXCEPT ![r] = [SessionRequest(req[r]) EXCEPT !.updates = @ + 1]]
            /\ numWaitingForStreaming' = numWaitingForStreaming - 1
            /\ UNCHANGED <<requests, running, waiting, skipped, inflightPrefills, xfer, kv, seqs,
                           inflight, resets>>
       ELSE FinishRequest(r)
    /\ UNCHANGED step

-------------------------------------------------------------------------------
(* schedule(): the running requests first.                                  *)

(* MUTANT: only running requests contend for a step.                        *)
NumRunning == Len(running)

NumQueued == Len(running) + Len(waiting) + Len(skipped)

(* The engine calls schedule() while it has requests and the batch queue    *)
(* has room.  A request alone in the queues is not held to the threshold.   *)
BeginSchedule ==
    /\ step.phase = "idle"
    /\ requests # {}
    /\ Len(inflight) < MaxConcurrentBatches
    /\ schedSeq < MaxSteps
    /\ step' = [Idle EXCEPT
        !.phase = "running", !.budget = MaxNumScheduledTokens,
        !.threshold = IF NumQueued <= 1 THEN 0 ELSE LongPrefillTokenThreshold]
    /\ UNCHANGED <<req, requests, queues, inflightPrefills, xfer, kv, seqs, inflight, resets>>

MoreRunning == step.phase = "running" /\ step.idx <= Len(running) /\ step.budget > 0

Current == running[step.idx]

Capped(n) == IF 0 < step.threshold /\ step.threshold < n THEN step.threshold ELSE n

(* A step in flight is sure to bring the request to max_tokens.             *)
ReachesMaxTokens(q) ==
    /\ q.placeholders > 0
    /\ q.computed + 2 - q.placeholders >= q.prompt + MaxTokens

NewTokens(q) ==
    Least(Least(Capped(q.all + q.spec + q.placeholders - q.computed), step.budget),
          MaxModelLen - q.computed - 1)

(* MUTANT: a request with nothing to compute is scheduled all the same.     *)
SkippableAtLimit(q) == ReachesMaxTokens(q)

Skippable(q) == ReachesMaxTokens(q) \/ NewTokens(q) = 0

NeededRunning(r) == Needed(r, req[r].computed + NewTokens(req[r]) + NumLookaheadTokens)

(* An entry of num_scheduled_tokens: n tokens of r, k of them drafts;       *)
(* pos is the output position of the step's first sampled token, as long as *)
(* no draft of an earlier step is rejected (see Rebased).                   *)
Scheduled(r, n, k) ==
    [r |-> r, n |-> n, k |-> k, pos |-> req[r].output + req[r].placeholders, samples |-> FALSE]

SkipRunning ==
    /\ MoreRunning
    /\ Skippable(req[Current])
    /\ step' = [step EXCEPT !.idx = @ + 1]
    /\ UNCHANGED <<req, requests, queues, inflightPrefills, xfer, kv, seqs, inflight, resets>>

DraftsScheduled(q, n) ==
    LET k == n + q.computed - q.all - q.placeholders
    IN  IF q.spec = 0 \/ k < 0 THEN 0 ELSE Least(q.spec, k)

ScheduleRunning ==
    /\ MoreRunning
    /\ ~Skippable(req[Current])
    /\ Fits(NeededRunning(Current), 0)
    /\ LET q == req[Current]
           n == NewTokens(q)
       IN  /\ Take(Current, NeededRunning(Current))
           /\ step' = [step EXCEPT
                !.idx = @ + 1, !.budget = @ - n, !.ran = TRUE, !.prefill = @ \/ q.chunk,
                !.batch = Append(@, Scheduled(Current, n, DraftsScheduled(q, n)))]
           /\ req' = [req EXCEPT ![Current].spec = 0]
    /\ UNCHANGED <<requests, queues, inflightPrefills, xfer, load, deferred, seqs, inflight, resets>>

(* No block is left: the last of `running` is preempted, be it the request  *)
(* itself, and then the loop ends.                                          *)
PreemptForBlocks ==
    /\ MoreRunning
    /\ ~Skippable(req[Current])
    /\ ~Fits(NeededRunning(Current), 0)
    /\ running' = Front(running)
    /\ PreemptRequest(Last(running), RequiresKVDelivery)
    /\ step' = [step EXCEPT
        !.preempted = TRUE,
        !.phase = IF Last(running) = Current THEN "emit" ELSE "running"]
    /\ UNCHANGED <<requests, skipped, numWaitingForStreaming, xfer, seqs, inflight, resets>>

EndRunning ==
    /\ step.phase = "running"
    /\ ~MoreRunning
    /\ step' = [step EXCEPT !.phase = IF step.preempted THEN "emit" ELSE "waiting"]
    /\ UNCHANGED <<req, requests, queues, inflightPrefills, xfer, kv, seqs, inflight, resets>>

-------------------------------------------------------------------------------
(* schedule(): then the waiting requests, the skipped ones first.           *)

MoreWaiting ==
    /\ step.phase = "waiting"
    /\ waiting # <<>> \/ skipped # <<>>
    /\ step.budget > 0
    /\ Len(running) + numWaitingForStreaming < MaxNumRunningReqs

Candidate == IF skipped # <<>> THEN Head(skipped) ELSE Head(waiting)

PopCandidate ==
    IF skipped # <<>> THEN skipped' = Tail(skipped) /\ UNCHANGED waiting
                      ELSE waiting' = Tail(waiting) /\ UNCHANGED skipped

(* MUTANT: a preempted request does not wait for its stale outputs.         *)
UnreadyBlocked(r) == req[r].status = "WAITING_FOR_STREAMING_REQ" \/ AwaitsLoad(r)

Unready(r) ==
    \/ req[r].status = "WAITING_FOR_STREAMING_REQ"
    \/ AwaitsLoad(r)
    \/ req[r].status \notin Blocked /\ req[r].stale > 0 /\ ~req[r].drop

Admissible(r) == req[r].status \in {"WAITING", "PREEMPTED"} /\ ~Unready(r)

LooksUp(r) == KVConsumer /\ req[r].computed = 0

(* The candidate is not ready, or get_num_new_matched_tokens does not know  *)
(* yet and answers None.                                                    *)
SkipWaiting ==
    /\ MoreWaiting
    /\ Unready(Candidate) \/ (LookupsMayWait /\ Admissible(Candidate) /\ LooksUp(Candidate))
    /\ PopCandidate
    /\ step' = [step EXCEPT !.skipped = <<Candidate>> \o @]
    /\ UNCHANGED <<req, requests, running, numWaitingForStreaming, inflightPrefills, xfer, kv,
                   seqs, inflight, resets>>

(* _try_promote_blocked_waiting_request for a load that is reported.  The   *)
(* candidate stays at the head, and the loop comes back to it at once.      *)
PromoteLoaded ==
    /\ MoreWaiting
    /\ req[Candidate].status = "WAITING_FOR_REMOTE_KVS"
    /\ Candidate \in recv
    /\ LET r == Candidate
           q == req[r]
       IN  /\ req' = [req EXCEPT
                ![r].status = IF q.preempted THEN "PREEMPTED" ELSE "WAITING",
                ![r].computed = IF r \notin failed /\ @ = q.all THEN q.all - 1 ELSE @]
           /\ recv' = recv \ {r}
           /\ failed' = failed \ {r}
           /\ IF r \in failed /\ q.computed = 0
              THEN /\ free' = free \cup owned[r]
                   /\ owned' = [owned EXCEPT ![r] = {}]
                   /\ load' = [load EXCEPT ![r] = "idle"]
              ELSE UNCHANGED <<free, owned, load>>
    /\ UNCHANGED <<requests, queues, inflightPrefills, send, deferred, seqs, inflight, step, resets>>

(* What get_num_new_matched_tokens may answer.                              *)
Loadable(r) ==
    IF LooksUp(r)
    THEN {0} \cup {n \in LoadableTokens : n <= req[r].all} ELSE {0}

(* reserve_full_isl: admit only if all of r's tokens fit.                   *)
FullSequenceFits(r, reserved) == ReserveFullISL => Fits(Remaining(r), reserved)

LoadFits(r, ext) ==
    Fits(Needed(r, ext), ReservedBlocks) /\ FullSequenceFits(r, ReservedBlocks)

AdmitLoad(ext) ==
    /\ MoreWaiting
    /\ Admissible(Candidate)
    /\ ext \in Loadable(Candidate) \ {0}
    /\ LoadFits(Candidate, ext)
    /\ Take(Candidate, Needed(Candidate, ext))
    /\ PopCandidate
    /\ req' = [req EXCEPT ![Candidate].status = "WAITING_FOR_REMOTE_KVS",
                          ![Candidate].computed = ext]
    /\ load' = [load EXCEPT ![Candidate] = "loading"]
    /\ inflightPrefills' = inflightPrefills \cup {Candidate}
    /\ step' = [step EXCEPT !.skipped = <<Candidate>> \o @]
    /\ UNCHANGED <<requests, running, numWaitingForStreaming, xfer, deferred, seqs, inflight, resets>>

(* A new decode joins a batch of decodes with as many (invalid) drafts.     *)
Padded(r) ==
    /\ NumSpecTokens > 0
    /\ req[r].all - req[r].computed = 1
    /\ step.ran /\ ~step.prefill

PadFits(r) ==
    /\ 1 + NumSpecTokens <= step.budget
    /\ req[r].computed + 1 + NumSpecTokens <= MaxModelLen

(* MUTANT: a prompt is scheduled whole, whatever is left of the budget.     *)
AdmittedWhole(r) ==
    Capped(IF Padded(r) THEN 1 + NumSpecTokens ELSE req[r].all - req[r].computed)

AdmittedTokens(r) ==
    LET n == IF Padded(r) THEN 1 + NumSpecTokens ELSE req[r].all - req[r].computed
    IN  Least(Capped(n), step.budget)

RunFits(r) ==
    /\ Padded(r) => PadFits(r)
    /\ Fits(Needed(r, req[r].computed + AdmittedTokens(r) + NumLookaheadTokens), 0)
    /\ FullSequenceFits(r, 0)

AdmitRunning ==
    /\ MoreWaiting
    /\ Admissible(Candidate)
    /\ 0 \in Loadable(Candidate)
    /\ RunFits(Candidate)
    /\ LET r == Candidate
           n == AdmittedTokens(r)
       IN  /\ Take(r, Needed(r, req[r].computed + n + NumLookaheadTokens))
           /\ PopCandidate
           /\ running' = Append(running, r)
           /\ req' = [req EXCEPT ![r].status = "RUNNING"]
           /\ step' = [step EXCEPT
                !.budget = @ - n,
                !.batch = Append(@, Scheduled(r, n, IF Padded(r) THEN NumSpecTokens ELSE 0))]
           /\ inflightPrefills' = IF req[r].computed + n < req[r].all
                                  THEN inflightPrefills \cup {r} ELSE inflightPrefills
    /\ UNCHANGED <<requests, numWaitingForStreaming, xfer, load, deferred, seqs, inflight, resets>>

(* The candidate cannot have its blocks (or its padding): nobody behind it  *)
(* is looked at.                                                            *)
BreakWaiting(ext) ==
    /\ MoreWaiting
    /\ Admissible(Candidate)
    /\ ext \in Loadable(Candidate)
    /\ IF ext > 0 THEN ~LoadFits(Candidate, ext) ELSE ~RunFits(Candidate)
    /\ step' = [step EXCEPT !.phase = "emit"]
    /\ UNCHANGED <<req, requests, queues, inflightPrefills, xfer, kv, seqs, inflight, resets>>

EndWaiting ==
    /\ step.phase = "waiting"
    /\ ~MoreWaiting
    /\ step' = [step EXCEPT !.phase = "emit"]
    /\ UNCHANGED <<req, requests, queues, inflightPrefills, xfer, kv, seqs, inflight, resets>>

-------------------------------------------------------------------------------
(* schedule(): the output, then _update_after_schedule.                     *)

(* The AsyncScheduler subclass counts the tokens a step will sample as      *)
(* placeholders and lets the next step be scheduled with as many drafts.    *)
AfterSchedule(q, e, seq) ==
    LET computed == q.computed + e.n
        chunk == computed < q.all + q.placeholders
        async == AsyncScheduling /\ ~chunk
    IN  [q EXCEPT !.computed = computed, !.inFlight = @ + e.n, !.chunk = chunk,
                  !.lastSched = IF DeferBlockFree THEN seq ELSE @,
                  !.placeholders = IF async THEN @ + 1 + e.k ELSE @,
                  !.spec = IF async THEN NumSpecTokens ELSE @]

BatchIds(batch) == {batch[i].r : i \in DOMAIN batch}

(* num_scheduled_tokens[r], a dictionary *)
EntryOf(batch, r) == CHOOSE e \in ToSet(batch) : e.r = r

SlotTokens(batch, r) == IF r \in BatchIds(batch) THEN EntryOf(batch, r).n ELSE 0

EndSchedule ==
    /\ step.phase = "emit"
    /\ LET ids == BatchIds(step.batch)
           seq == IF DeferBlockFree /\ ids # {} THEN schedSeq + 1 ELSE schedSeq
           After(r) == IF r \in ids
                       THEN AfterSchedule(req[r], EntryOf(step.batch, r), seq)
                       ELSE req[r]
       IN  /\ req' = [r \in Requests |-> After(r)]
           /\ schedSeq' = seq
           /\ inflight' = Append(inflight,
                [seq |-> seq,
                 writes |-> UNION {owned[r] : r \in ids},
                 batch |-> [i \in DOMAIN step.batch |->
                     [step.batch[i] EXCEPT !.samples = ~After(step.batch[i].r).chunk]]])
           /\ inflightPrefills' = inflightPrefills \ {r \in ids : ~After(r).chunk}
           /\ load' = [r \in Requests |-> IF r \in ids THEN "idle" ELSE load[r]]
    /\ skipped' = Reverse(step.skipped) \o skipped
    /\ step' = Idle
    /\ UNCHANGED <<requests, running, waiting, numWaitingForStreaming, xfer, free, owned, deferred,
                   procSeq, resets>>

-------------------------------------------------------------------------------
(* The worker ends a load; the next output reports it (finished_recving).   *)
LoadDone(r) ==
    /\ step.phase = "idle"
    /\ load[r] = "loading"
    /\ load' = [load EXCEPT ![r] = "loaded"]
    /\ UNCHANGED <<req, requests, queues, inflightPrefills, xfer, free, owned, deferred, seqs,
                   inflight, step, resets>>

Reported ==
    {r \in requests : /\ load[r] = "loaded"
                      /\ AwaitsLoad(r) \/ (req[r].status = "FINISHED" /\ send[r] = "none")}

(* The worker has sent the blocks of a finished request; the next output    *)
(* reports it (finished_sending).                                           *)
SendDone(r) ==
    /\ step.phase = "idle"
    /\ send[r] = "sending"
    /\ send' = [send EXCEPT ![r] = "sent"]
    /\ UNCHANGED <<req, requests, queues, inflightPrefills, recv, failed, kv, seqs, inflight, step,
                   resets>>

Sent == {r \in Requests : send[r] = "sent"}

(* _update_requests_with_invalid_blocks: bad[r] is the first invalid block  *)
(* of a load that failed.                                                   *)
Truncated(bad) ==
    [r \in Requests |->
        IF r \in DOMAIN bad THEN [req[r] EXCEPT !.computed = bad[r] * BlockSize] ELSE req[r]]

(* _handle_invalid_blocks: the requests to retry, and those to fail.        *)
RetriedLoads(bad) == IF RecomputeKVLoadFailures THEN DOMAIN bad ELSE {}
FailedLoads(bad) == DOMAIN bad \ RetriedLoads(bad)

(* Any request that waits for its load may have them, the load ended or     *)
(* not; the blocks looked at are those of its computed tokens, but for the  *)
(* tokens that the step of this output has of it.                           *)
ScannedBlocks(r, batch) ==
    {b \in 0 .. Cardinality(Blocks) : b * BlockSize < req[r].computed - SlotTokens(batch, r)}

InvalidBlocks(batch) ==
    LET awaited == {r \in requests : req[r].status = "WAITING_FOR_REMOTE_KVS"}
        loads == IF FailingLoads THEN SUBSET awaited ELSE {{}}
    IN  UNION {{bad \in [F -> 0 .. Cardinality(Blocks)] :
                    \A r \in F : bad[r] \in ScannedBlocks(r, batch)} : F \in loads}

(* update_from_output up to its loop: the fence, then the invalid blocks.   *)
BeginUpdate ==
    /\ step.phase = "idle"
    /\ inflight # <<>>
    /\ LET batch == Head(inflight).batch IN
        /\ IF DeferBlockFree /\ batch # <<>>
           THEN procSeq' = procSeq + 1 /\ DrainDeferredFrees(procSeq + 1)
           ELSE UNCHANGED <<procSeq, free, deferred>>
        /\ \E bad \in InvalidBlocks(batch) :
            /\ req' = Truncated(bad)
            /\ failed' = failed \cup RetriedLoads(bad)
            /\ step' = [Idle EXCEPT
                !.phase = "update", !.todo = batch, !.ids = BatchIds(batch),
                !.received = Reported, !.errors = FailedLoads(bad)]
    /\ inflight' = Tail(inflight)
    /\ UNCHANGED <<requests, queues, inflightPrefills, recv, send, owned, load, schedSeq, resets>>

(* MUTANT: every output drains the stale share, stale or not.               *)
DrainAlways(q, e) == [q EXCEPT !.inFlight = @ - e.n, !.stale = @ - e.n]

(* One entry of num_scheduled_tokens.  Its tokens leave the pipeline, and   *)
(* the stale share of a preempted request drains in lockstep.               *)
Drain(q, e) ==
    [q EXCEPT !.inFlight = @ - e.n, !.stale = IF @ > 0 THEN @ - e.n ELSE @]

Discarded(q, e) ==
    \/ q.status = "FINISHED"
    \/ q.stale > 0 /\ q.drop
    \/ e.r \in step.errors

(* MUTANT: rejected drafts stay counted as computed.                        *)
DeliverAllDrafts(q, e, g, m) ==
    [Drain(q, e) EXCEPT
        !.placeholders = IF q.stale > 0 \/ ~AsyncScheduling THEN @
                         ELSE (IF q.computed > 0 THEN @ - (e.k + 1 - g) ELSE @) - m,
        !.all = @ + m, !.output = @ + m]

(* The step sampled g tokens, k + 1 - g drafts are rejected, and the first  *)
(* m tokens are appended; a stale output leaves the reset counters alone.   *)
Deliver(q, e, g, m) ==
    LET rejected == e.k + 1 - g
        stale == q.stale > 0
        d == Drain(q, e)
    IN  [d EXCEPT
          !.computed = IF ~stale /\ @ > 0 THEN @ - rejected ELSE @,
          !.placeholders = IF stale \/ ~AsyncScheduling THEN @
                           ELSE (IF @ > 0 THEN @ - rejected ELSE @) - m,
          !.all = @ + m, !.output = @ + m]

(* The model runner computes a step after the tokens really accepted before *)
(* it, so n rejected drafts of r move the steps behind it n positions back. *)
MovedBack(batch, r, n) ==
    [j \in DOMAIN batch |-> IF batch[j].r = r THEN [batch[j] EXCEPT !.pos = @ - n] ELSE batch[j]]

Rebased(r, n) == [i \in DOMAIN inflight |-> [inflight[i] EXCEPT !.batch = MovedBack(@, r, n)]]

(* check_stop: by a stop token (eos), or by length.                         *)
AtLimit(q) == q.output >= MaxTokens \/ q.all >= MaxModelLen

(* _handle_stopped_request, then _free_request if the request is finished.  *)
Stop(r, q) ==
    IF r \notin Resumable \/ (q.queue # <<>> /\ Head(q.queue) = "end")
    THEN /\ req' = [req EXCEPT ![r] = [q EXCEPT !.status = "FINISHED"]]
         /\ inflightPrefills' = inflightPrefills \ {r}
         /\ FreeRequest(r)
         /\ UNCHANGED <<waiting, skipped, numWaitingForStreaming>>
    ELSE /\ UNCHANGED <<requests, inflightPrefills, send, kv>>
         /\ IF q.queue # <<>>
            THEN /\ req' = [req EXCEPT ![r] = [SessionRequest(q) EXCEPT !.queue = Tail(@)]]
                 /\ waiting' = Append(waiting, r)
                 /\ UNCHANGED <<skipped, numWaitingForStreaming>>
            ELSE /\ req' = [req EXCEPT ![r] = [q EXCEPT !.status = "WAITING_FOR_STREAMING_REQ"]]
                 /\ skipped' = Append(skipped, r)
                 /\ numWaitingForStreaming' = numWaitingForStreaming + 1
                 /\ UNCHANGED waiting

NextEntry == step.phase = "update" /\ step.todo # <<>>

SkipEntry ==
    /\ NextEntry
    /\ LET e == Head(step.todo) IN
        /\ e.r \in requests => Discarded(req[e.r], e) \/ ~e.samples
        /\ req' = IF e.r \in requests THEN [req EXCEPT ![e.r] = Drain(@, e)] ELSE req
    /\ step' = [step EXCEPT !.todo = Tail(@)]
    /\ UNCHANGED <<requests, queues, inflightPrefills, xfer, kv, seqs, inflight, resets>>

UpdateEntry(g, m, eos) ==
    /\ NextEntry
    /\ LET e == Head(step.todo)
           q == Deliver(req[e.r], e, g, m)
           short == [q EXCEPT !.output = @ - 1, !.all = @ - 1]
           stopped == eos \/ AtLimit(q)
       IN  /\ e.r \in requests /\ e.samples /\ ~Discarded(req[e.r], e)
           /\ g \in 1 .. e.k + 1 /\ m \in 1 .. g
           /\ m > 1 => ~AtLimit(short)
           /\ m < g => stopped
           /\ step' = [step EXCEPT
                !.todo = Tail(@),
                !.stoppedRunning = IF stopped /\ q.status = "RUNNING" THEN @ \cup {e.r} ELSE @,
                !.stoppedOther = IF stopped /\ q.status # "RUNNING" THEN @ \cup {e.r} ELSE @]
           /\ IF stopped
              THEN Stop(e.r, q)
              ELSE /\ req' = [req EXCEPT ![e.r] = q]
                   /\ UNCHANGED <<requests, inflightPrefills, waiting, skipped,
                                  numWaitingForStreaming, send, kv>>
           /\ inflight' = Rebased(e.r, e.k + 1 - g)
    /\ UNCHANGED <<running, recv, failed, seqs, resets>>

(* MUTANT: requests that stop while preempted stay queued.                  *)
RemoveOnlyRunning ==
    /\ step.phase = "update"
    /\ step.todo = <<>>
    /\ running' = RemoveAll(running, step.stoppedRunning)
    /\ step' = [step EXCEPT !.phase = "transfers"]
    /\ UNCHANGED <<req, requests, waiting, skipped, numWaitingForStreaming, inflightPrefills, xfer, kv,
                   seqs, inflight, resets>>

(* The stopped requests leave the queues they were in before they stopped.  *)
RemoveStopped ==
    /\ step.phase = "update"
    /\ step.todo = <<>>
    /\ running' = RemoveAll(running, step.stoppedRunning)
    /\ waiting' = RemoveAll(waiting, step.stoppedOther)
    /\ skipped' = RemoveAll(skipped, step.stoppedOther)
    /\ step' = [step EXCEPT !.phase = "transfers"]
    /\ UNCHANGED <<req, requests, numWaitingForStreaming, inflightPrefills, xfer, kv, seqs, inflight,
                   resets>>

(* With policy "fail", requests whose load failed finish with an error.     *)
FinishFailed(r) ==
    /\ step.phase = "transfers"
    /\ r \in step.errors
    /\ step' = [step EXCEPT !.errors = @ \ {r}]
    /\ IF r \in requests /\ req[r].status # "FINISHED"
       THEN FinishRequest(r)
       ELSE UNCHANGED <<req, requests, queues, inflightPrefills, xfer, kv, seqs, inflight, resets>>

(* _update_from_kv_xfer_finished, one request of finished_recving.          *)
ReportReceived(r) ==
    /\ step.phase = "transfers"
    /\ step.errors = {}
    /\ r \in step.received
    /\ step' = [step EXCEPT !.received = @ \ {r}]
    /\ IF req[r].status = "WAITING_FOR_REMOTE_KVS"
       THEN recv' = recv \cup {r} /\ UNCHANGED <<requests, kv>>
       ELSE UNCHANGED recv /\ requests' = requests \ {r} /\ FreeRequestBlocks(r)
    /\ UNCHANGED <<req, queues, inflightPrefills, failed, send, seqs, inflight, resets>>

(* Then one request of finished_sending.                                    *)
ReportSent(r) ==
    /\ step.phase = "transfers"
    /\ step.errors = {} /\ step.received = {}
    /\ r \in Sent
    /\ requests' = requests \ {r}
    /\ FreeRequestBlocks(r)
    /\ send' = [send EXCEPT ![r] = "none"]
    /\ UNCHANGED <<req, queues, inflightPrefills, recv, failed, seqs, inflight, step, resets>>

(* The output is dealt with; without async scheduling the engine then hands *)
(* the drafts of the step to update_draft_token_ids.                        *)
WithDrafts(q) == [q EXCEPT !.spec = IF q.chunk THEN 0 ELSE NumSpecTokens]

EndUpdate ==
    /\ step.phase = "transfers"
    /\ step.errors = {} /\ step.received = {} /\ Sent = {}
    /\ req' = IF AsyncScheduling THEN req
              ELSE [r \in Requests |-> IF r \in step.ids \cap requests /\ req[r].status # "FINISHED"
                                       THEN WithDrafts(req[r]) ELSE req[r]]
    /\ step' = Idle
    /\ UNCHANGED <<requests, queues, inflightPrefills, xfer, kv, seqs, inflight, resets>>

-------------------------------------------------------------------------------
(* reset_prefix_cache(reset_running_requests=True).                         *)

BeginReset ==
    /\ step.phase = "idle"
    /\ resets < MaxResets
    /\ resets' = resets + 1
    /\ step' = [Idle EXCEPT !.phase = "reset"]
    /\ UNCHANGED <<req, requests, queues, inflightPrefills, xfer, kv, seqs, inflight>>

ResetPreempt ==
    /\ step.phase = "reset"
    /\ running # <<>>
    /\ running' = Front(running)
    /\ PreemptRequest(Last(running), TRUE)
    /\ UNCHANGED <<requests, skipped, numWaitingForStreaming, xfer, seqs, inflight, step, resets>>

EndReset ==
    /\ step.phase = "reset"
    /\ running = <<>>
    /\ step' = Idle
    /\ UNCHANGED <<req, requests, queues, inflightPrefills, xfer, kv, seqs, inflight, resets>>

-------------------------------------------------------------------------------

ScheduleNext ==
    \/ BeginSchedule \/ SkipRunning \/ ScheduleRunning \/ PreemptForBlocks \/ EndRunning
    \/ SkipWaiting \/ PromoteLoaded \/ AdmitRunning \/ EndWaiting \/ EndSchedule
    \/ \E ext \in LoadableTokens : AdmitLoad(ext)
    \/ \E ext \in LoadableTokens \cup {0} : BreakWaiting(ext)

UpdateNext ==
    \/ BeginUpdate \/ SkipEntry \/ RemoveStopped \/ EndUpdate
    \/ \E g, m \in 1 .. NumSpecTokens + 1, eos \in BOOLEAN : UpdateEntry(g, m, eos)
    \/ \E r \in Requests : FinishFailed(r) \/ ReportReceived(r) \/ ReportSent(r)

ResetNext == BeginReset \/ ResetPreempt \/ EndReset

ClientNext ==
    \/ \E r \in Requests : AddRequest(r)
    \/ \E r \in Abortable : Abort(r)
    \/ \E r \in Resumable, u \in {"chunk", "end"} : UpdateSession(r, u)

WorkerNext == \E r \in Requests : LoadDone(r) \/ SendDone(r)

Next == ScheduleNext \/ UpdateNext \/ ResetNext \/ ClientNext \/ WorkerNext

Spec == Init /\ [][Next]_vars

(* The EngineCore loop keeps calling the scheduler while it has requests or *)
(* steps in flight, and every transfer of the worker ends.  LoadDone and    *)
(* SendDone are only enabled between handlers here, hence strong fairness   *)
(* for what the worker does at any time.                                    *)
EngineNext == ScheduleNext \/ UpdateNext \/ ResetPreempt \/ EndReset

FairSpec ==
    /\ Spec
    /\ WF_vars(EngineNext)
    /\ \A r \in Requests : SF_vars(LoadDone(r)) /\ SF_vars(SendDone(r))

-------------------------------------------------------------------------------
(* Properties.                                                              *)

TypeOK ==
    /\ \A r \in Requests :
        /\ req[r].status \in Status
        /\ {req[r].prompt, req[r].all, req[r].output, req[r].computed, req[r].placeholders,
            req[r].spec, req[r].inFlight, req[r].stale} \subseteq Nat
        /\ {req[r].drop, req[r].chunk, req[r].preempted} \subseteq BOOLEAN
    /\ requests \cup inflightPrefills \cup recv \cup failed \subseteq Requests
    /\ ToSet(running \o waiting \o skipped) \subseteq Requests
    /\ numWaitingForStreaming \in Nat
    /\ free \subseteq Blocks
    /\ owned \in [Requests -> SUBSET Blocks]
    /\ load \in [Requests -> {"idle", "loading", "loaded"}]
    /\ send \in [Requests -> {"none", "sending", "sent"}]
    /\ schedSeq \in 0 .. MaxSteps /\ procSeq \in 0 .. schedSeq
    /\ Len(inflight) <= MaxConcurrentBatches

AtRest == step.phase = "idle"

Queued == running \o waiting \o skipped
Unfinished == {r \in requests : req[r].status # "FINISHED"}

(* Between two handlers every unfinished request the scheduler knows is in  *)
(* exactly one queue, once, and in the one its status calls for; a finished *)
(* one that waits for its transfer is in none (has_finished_requests tells  *)
(* the two apart by counting).                                              *)
QueuesConsistent ==
    AtRest =>
        /\ IsInjective(Queued)
        /\ ToSet(Queued) = Unfinished
        /\ \A r \in requests : req[r].status = "RUNNING" <=> r \in ToSet(running)
        /\ \A r \in requests : req[r].status \in Blocked => r \in ToSet(skipped)

(* The counter of paused sessions is exact, and with the running requests   *)
(* they never exceed the slots of the model runner.                         *)
SlotsRespected ==
    AtRest =>
        /\ numWaitingForStreaming
            = Cardinality({r \in requests : req[r].status = "WAITING_FOR_STREAMING_REQ"})
        /\ Len(running) + numWaitingForStreaming <= MaxNumRunningReqs

(* Sums(w)[j] is the sum of the first j elements of w.                      *)
Sums(w) == LET sum[j \in 0 .. Len(w)] == IF j = 0 THEN 0 ELSE sum[j - 1] + w[j] IN sum
Total(w) == Sums(w)[Len(w)]

Tokens(batch) == Total([i \in DOMAIN batch |-> batch[i].n])

(* Every step in flight has a positive count for each of its requests, as   *)
(* update_from_output asserts.                                              *)
PositiveCounts == \A i \in DOMAIN inflight : \A j \in DOMAIN inflight[i].batch : inflight[i].batch[j].n > 0

(* What the assertions at the end of schedule() and in update_from_output   *)
(* say: a step has at most the budget, and a positive count per request.    *)
StepWithinBudget ==
    /\ Tokens(step.batch) + step.budget = MaxNumScheduledTokens \/ step.phase \notin {"running", "waiting", "emit"}
    /\ step.budget >= 0
    /\ Len(step.batch) <= Len(running) \/ step.phase # "emit"
    /\ Len(running) <= MaxNumRunningReqs
    /\ PositiveCounts

(* The steps whose output is still to come, a slot each: what is left of    *)
(* the one update_from_output goes through, then those in flight, oldest    *)
(* first.                                                                   *)
Slots == [j \in 1 .. Len(inflight) + 1 |-> IF j = 1 THEN step.todo ELSE inflight[j - 1].batch]

SlotOutputs(batch, r) ==
    IF r \in BatchIds(batch) /\ EntryOf(batch, r).samples THEN 1 + EntryOf(batch, r).k ELSE 0

TokensIn(r) == [j \in DOMAIN Slots |-> SlotTokens(Slots[j], r)]

Balanced(r) ==
    /\ req[r].inFlight = Total(TokensIn(r))
    /\ \E j \in 0 .. Len(Slots) : req[r].stale = Sums(TokensIn(r))[j]

(* num_in_flight_tokens is what is in flight, and the stale share of a      *)
(* preempted request is made of whole steps, the oldest ones: it drains to  *)
(* zero exactly when its last stale output is back.                         *)
InFlightExact == AtRest => \A r \in requests : Balanced(r)

(* The outputs of r that are waited for: those of its stale steps are not,  *)
(* if they are to be dropped.                                               *)
Dropped(r) == IF req[r].drop THEN req[r].stale ELSE 0
Awaited(r) ==
    [j \in DOMAIN Slots |->
        IF Sums(TokensIn(r))[j - 1] >= Dropped(r) THEN SlotOutputs(Slots[j], r) ELSE 0]

(* Tokens the steps in flight may still append to r.                        *)
Pending(r) == Total(Awaited(r))

(* A decoding request has computed all its tokens but the last, plus what   *)
(* is in flight: rejected drafts are rolled back exactly, and the           *)
(* placeholders count exactly the tokens still to come.                     *)
ComputedExact ==
    AtRest => \A r \in ToSet(running) :
        /\ ~req[r].chunk => req[r].computed = req[r].all - 1 + Pending(r)
        /\ AsyncScheduling => req[r].placeholders = Pending(r)

(* The KV of every computed token of a request has a block, and only a      *)
(* request with computed tokens, or with a transfer, keeps blocks.          *)
TokensBacked ==
    AtRest => \A r \in Requests :
        /\ BlocksFor(req[r].computed) <= Cardinality(owned[r]) \/ r \notin requests
        /\ owned[r] # {} =>
            r \in requests /\ (req[r].computed > 0 \/ load[r] # "idle" \/ send[r] # "none")

(* No block is lost or in two places.                                       *)
PoolWhole ==
    /\ Blocks = free \cup UNION ({owned[r] : r \in Requests}
                                  \cup {deferred[i].blocks : i \in DOMAIN deferred})
    /\ \A r \in Requests : owned[r] \cap free = {}
    /\ \A q, r \in Requests : q # r => owned[q] \cap owned[r] = {}
    /\ \A i \in DOMAIN deferred :
        /\ deferred[i].blocks \cap free = {}
        /\ \A r \in Requests : deferred[i].blocks \cap owned[r] = {}
        /\ \A j \in DOMAIN deferred : i # j => deferred[i].blocks \cap deferred[j].blocks = {}

(* A load never fills a block a step in flight writes.                      *)
NoLoadRace ==
    \A r \in Requests, i \in DOMAIN inflight :
        load[r] = "loading" => owned[r] \cap inflight[i].writes = {}

(* A report of the worker always finds its request, in a status that        *)
(* _update_from_kv_xfer_finished accepts (its assertions); the names in     *)
(* finished_recving and failed_recving are those of requests that wait; and *)
(* whoever waits for a report still has a transfer to get it from.          *)
TransfersTracked ==
    /\ \A r \in step.received : r \in requests /\ req[r].status \in {"WAITING_FOR_REMOTE_KVS", "FINISHED"}
    /\ \A r \in Requests : send[r] # "none" => r \in requests /\ req[r].status = "FINISHED"
    /\ AtRest =>
        /\ recv \cup failed \subseteq {r \in requests : req[r].status = "WAITING_FOR_REMOTE_KVS"}
        /\ \A r \in requests : AwaitsLoad(r) => load[r] # "idle"
        /\ \A r \in requests : req[r].status = "FINISHED" => load[r] # "idle" \/ send[r] # "none"

(* Whatever is delivered to the client is the next token of the output: no  *)
(* output position is sampled twice or delivered out of order, preempted or *)
(* not.                                                                     *)
DeliveredInOrder ==
    [][\A r \in Requests :
        req'[r].output > req[r].output =>
            Head(step.todo).r = r /\ Head(step.todo).pos = req[r].output]_vars

(* A request gets more than the threshold only in a step that no other      *)
(* request can be delayed by.                                               *)
FullQuantumOnlyAlone ==
    LongPrefillTokenThreshold > 0 =>
        \A i \in DOMAIN step.batch :
            step.batch[i].n > LongPrefillTokenThreshold =>
                \A r \in requests : req[r].status # "FINISHED" => r = step.batch[i].r

(* Once reset_prefix_cache preempted every running request, and no transfer *)
(* is going on, all blocks are back in the pool and the reset succeeds.     *)
ResetReleasesBlocks ==
    (/\ step.phase = "reset" /\ running = <<>>
     /\ \A r \in Requests : load[r] = "idle" /\ send[r] = "none") => free = Blocks

(* Every request comes to an end: preemptions do not go on for ever, and    *)
(* the reservations keep loads from holding all blocks among them.          *)
Completes == \A r \in Requests : r \in requests ~> r \notin requests

(* In its defer_block_free mode the scheduler moves blocks only the way     *)
(* BlockFence allows, so what is proved of BlockFence holds of it.          *)
LastScheds == [r \in Requests |-> req[r].lastSched]

(* What the steps with number s may still write.                            *)
StepWrites(s) == UNION {inflight[i].writes : i \in {j \in DOMAIN inflight : inflight[j].seq = s}}
FenceAccess == [s \in 1 .. MaxSteps + 1 |-> StepWrites(s)]

Fence == INSTANCE BlockFence WITH
    mode <- load, lastSched <- LastScheds, cow <- {}, access <- FenceAccess

ImplementsFence == Fence!Spec

-------------------------------------------------------------------------------
(* Why it works: the inductive invariants of the proofs.                    *)

Phases == {"idle", "running", "waiting", "emit", "update", "transfers", "reset"}

RequestRecord ==
    [status : Status, prompt : Int, all : Int, output : Int, computed : Int, placeholders : Int,
     spec : Int, inFlight : Int, stale : Int, drop : BOOLEAN, chunk : BOOLEAN, lastSched : Nat,
     preempted : BOOLEAN, queue : Seq({"chunk", "end"}), updates : Nat]

BatchEntry == [r : Requests, n : Int, k : Int, pos : Int, samples : BOOLEAN]
DispatchedStep == [seq : Nat, writes : SUBSET Blocks, batch : Seq(BatchEntry)]
DeferredEntry == [fence : Nat, blocks : SUBSET Blocks]

HandlerLocals ==
    [phase : Phases, idx : Nat \ {0}, budget : Int, threshold : Int, batch : Seq(BatchEntry),
     preempted : BOOLEAN, ran : BOOLEAN, prefill : BOOLEAN, skipped : Seq(Requests),
     todo : Seq(BatchEntry), ids : SUBSET Requests, stoppedRunning : SUBSET Requests,
     stoppedOther : SUBSET Requests, errors : SUBSET Requests, received : SUBSET Requests]

(* The shapes alone: the counters are integers here; that they never become *)
(* negative takes the accounts below.                                       *)
Shapes ==
    /\ req \in [Requests -> RequestRecord]
    /\ requests \cup inflightPrefills \cup recv \cup failed \subseteq Requests
    /\ {running, waiting, skipped} \subseteq Seq(Requests)
    /\ numWaitingForStreaming \in Int
    /\ free \subseteq Blocks
    /\ owned \in [Requests -> SUBSET Blocks]
    /\ load \in [Requests -> {"idle", "loading", "loaded"}]
    /\ send \in [Requests -> {"none", "sending", "sent"}]
    /\ deferred \in Seq(DeferredEntry)
    /\ {schedSeq, procSeq, resets} \subseteq Nat
    /\ inflight \in Seq(DispatchedStep)
    /\ step \in HandlerLocals

NoSessions == Resumable = {}

(* Requests that stopped while update_from_output goes through its entries, *)
(* and still have to leave their queues.                                    *)
Leaving == IF step.phase = "update" THEN step.stoppedRunning \cup step.stoppedOther ELSE {}

(* Each queue, and the requests schedule() skipped so far, holds a request  *)
(* once, and no two of them the same one.                                   *)
QueuesApart ==
    /\ \A queue \in {running, waiting, skipped, step.skipped} : IsInjective(queue)
    /\ ToSet(running) \cap ToSet(waiting) = {}
    /\ (ToSet(running) \cup ToSet(waiting)) \cap (ToSet(skipped) \cup ToSet(step.skipped)) = {}
    /\ ToSet(skipped) \cap ToSet(step.skipped) = {}

AllQueued == ToSet(running) \cup ToSet(waiting) \cup ToSet(skipped) \cup ToSet(step.skipped)

(* QueuesConsistent within the handlers.                                    *)
QueuesPlaced ==
    /\ QueuesApart
    /\ AllQueued = Unfinished \cup Leaving
    /\ Leaving \cap Unfinished = {}
    /\ step.phase = "update" =>
        step.stoppedRunning \subseteq ToSet(running) /\ step.stoppedOther \cap ToSet(running) = {}
    /\ \A r \in Unfinished : req[r].status = "RUNNING" <=> r \in ToSet(running)
    /\ \A r \in Unfinished :
        req[r].status \in Blocked => r \in ToSet(skipped) \cup ToSet(step.skipped)
    /\ \A r \in requests : req[r].status # "NEW"
    /\ \A r \in step.received : req[r].status \in {"WAITING_FOR_REMOTE_KVS", "FINISHED"}
    /\ step.received # {} => step.phase \in {"update", "transfers"}
    /\ step.skipped # <<>> => step.phase \in {"waiting", "emit"}

(* The connector sends nothing but what a finished request computed.        *)
SendsInv == \A r \in Requests : send[r] # "none" => req[r].status = "FINISHED"

QueuesInv == QueuesPlaced /\ SendsInv

(* The hypothesis of the accounts: a padded decode stays below the model's  *)
(* length and is not cut by the threshold.                                  *)
PadsFit ==
    NumSpecTokens > 0 =>
        /\ LongPrefillTokenThreshold \notin 1 .. NumSpecTokens
        /\ \A r \in Requests : PromptTokens[r] + MaxTokens + NumSpecTokens < MaxModelLen

Scheduling == step.phase \in {"running", "waiting", "emit"}

(* A step has a request once, with tokens to compute.                       *)
WellFormed(batch) ==
    /\ \A i, j \in DOMAIN batch : batch[i].r = batch[j].r => i = j
    /\ \A i \in DOMAIN batch : batch[i].n > 0 /\ batch[i].k \in 0 .. NumSpecTokens

(* Whoever is to finish with an error still waits for its load, or is done. *)
ErrorsKnown ==
    /\ step.errors # {} => step.phase \in {"update", "transfers"}
    /\ step.errors \subseteq {r \in Requests : req[r].status \in {"WAITING_FOR_REMOTE_KVS", "FINISHED"}}

SlotsInv ==
    /\ \A j \in DOMAIN Slots :
        WellFormed(Slots[j]) /\ \A r \in BatchIds(Slots[j]) : req[r].status # "NEW"
    /\ step.todo # <<>> => step.phase = "update"
    /\ ErrorsKnown
    /\ Len(inflight) <= MaxConcurrentBatches
    /\ Scheduling => Len(inflight) < MaxConcurrentBatches

(* What schedule() has put into the step holds until the step is emitted:   *)
(* nobody in it is preempted, and its drafts are the tokens past those that *)
(* r is sure to have.                                                       *)
Promised(e) ==
    LET q == req[e.r]
        excess == q.computed + e.n - q.all - q.placeholders
    IN  /\ e.r \in Unfinished /\ q.status = "RUNNING"
        /\ step.phase = "running" => \E p \in 1 .. step.idx - 1 : p <= Len(running) /\ running[p] = e.r
        /\ e.k = IF excess > 0 THEN excess ELSE 0
        /\ e.pos = q.output + q.placeholders
        /\ q.placeholders = Pending(e.r)
        /\ q.computed + e.n < MaxModelLen

BatchInv ==
    /\ step.batch # <<>> => Scheduling
    /\ step.threshold \in {0, LongPrefillTokenThreshold}
    /\ WellFormed(step.batch)
    /\ \A i \in DOMAIN step.batch : Promised(step.batch[i])

Unstarted(q) ==
    q.status = "NEW" =>
        /\ q.all = q.prompt /\ q.output = 0 /\ q.computed = 0 /\ q.placeholders = 0 /\ q.spec = 0
        /\ q.inFlight = 0 /\ q.stale = 0

(* The bounds of the counters of a request that is not finished.            *)
Bounded(q) ==
    /\ q.prompt > 0 /\ q.all = q.prompt + q.output /\ q.all < MaxModelLen
    /\ q.output \in 0 .. MaxTokens - 1
    /\ q.computed \in 0 .. MaxModelLen - 1
    /\ q.spec \in 0 .. NumSpecTokens
    /\ ~AsyncScheduling => q.placeholders = 0 /\ q.computed <= q.all + NumSpecTokens

(* A request that does not run has nothing but stale steps in flight; if    *)
(* they are still to be delivered it waits for them.                        *)
Waits(r) ==
    LET q == req[r] IN
    /\ q.stale = q.inFlight /\ q.placeholders = 0
    /\ q.computed <= q.all
    /\ (q.status = "WAITING_FOR_REMOTE_KVS" /\ r \notin failed) \/ q.computed < q.all
    /\ q.stale > 0 /\ ~q.drop => q.status = "PREEMPTED"

Decodes(r) == req[r].computed = req[r].all - 1 + Pending(r)

(* A request that runs either decodes or is in its prefill.                 *)
Runs(r) ==
    /\ Decodes(r) \/ (req[r].computed < req[r].all /\ Pending(r) = 0)
    /\ r \notin BatchIds(step.batch) /\ ~req[r].chunk => Decodes(r)
    /\ AsyncScheduling => req[r].placeholders = Pending(r)
    /\ req[r].stale > 0 => req[r].drop

(* The step behind samples the output position behind.                      *)
Follows(r) ==
    \A j \in DOMAIN Slots :
        Awaited(r)[j] > 0 => EntryOf(Slots[j], r).pos = req[r].output + Sums(Awaited(r))[j - 1]

Account(r) ==
    /\ Unstarted(req[r]) /\ req[r].prompt = PromptTokens[r]
    /\ r \notin requests => req[r].status \in {"NEW", "FINISHED"}
    /\ r \in requests => Balanced(r)
    /\ r \in recv \cup failed => r \in Unfinished /\ req[r].status = "WAITING_FOR_REMOTE_KVS"
    /\ r \in Unfinished =>
        Bounded(req[r]) /\ Follows(r) /\ IF req[r].status = "RUNNING" THEN Runs(r) ELSE Waits(r)

AccountsInv == SlotsInv /\ BatchInv /\ \A r \in Requests : Account(r)

(* Requests that wait for a load have one; those that are finished hold     *)
(* their blocks for a transfer, and it is theirs alone.                     *)
LoadsInv ==
    /\ \A r \in requests :
        /\ req[r].status = "WAITING_FOR_REMOTE_KVS" => load[r] # "idle"
        /\ req[r].status = "FINISHED" => load[r] # "idle" \/ send[r] # "none"
    /\ \A r \in Requests : send[r] # "none" => r \in requests /\ req[r].status = "FINISHED"
    /\ \A r \in step.received : r \in requests /\ r \notin recv /\ send[r] = "none"

(* A step without threshold has one request to schedule at most.            *)
AloneInv ==
    Scheduling =>
        /\ step.threshold > 0 => \A i \in DOMAIN step.batch : step.batch[i].n <= step.threshold
        /\ step.threshold = 0 /\ LongPrefillTokenThreshold > 0 => \A q, r \in Unfinished : q = r

(* The tokens of r that have their KV, or get it in the step being filled.  *)
Covered(r) == req[r].computed + SlotTokens(step.batch, r)

(* The blocks of a request are for the tokens it has, and it runs with them *)
(* or got them for a load.                                                  *)
Backed(r) ==
    /\ r \in requests => BlocksFor(Covered(r)) <= Cardinality(owned[r])
    /\ owned[r] # {} =>
        /\ r \in requests
        /\ load[r] = "idle" /\ send[r] = "none" => req[r].status = "RUNNING" /\ Covered(r) > 0

BackedInv == (~DeferBlockFree => deferred = <<>>) /\ \A r \in Requests : Backed(r)

(* What a load still fills belongs to a request that waits for it, or       *)
(* finished meanwhile, and is not reported.                                 *)
LoadingInv ==
    \A r \in Requests : load[r] = "loading" =>
        /\ r \in requests /\ req[r].status \in {"WAITING_FOR_REMOTE_KVS", "FINISHED"}
        /\ r \notin recv \cup step.received /\ send[r] = "none"

(* The steps in flight that have requests are those that are not processed, *)
(* oldest first; the others write nothing.                                  *)
SeqInv ==
    /\ procSeq <= schedSeq /\ schedSeq <= MaxSteps
    /\ Scheduling => schedSeq < MaxSteps
    /\ \A i \in DOMAIN inflight :
        IF inflight[i].batch = <<>> THEN inflight[i].writes = {}
        ELSE inflight[i].seq \in procSeq + 1 .. schedSeq
    /\ \A i, j \in DOMAIN inflight :
        i < j /\ inflight[i].batch # <<>> /\ inflight[j].batch # <<>> => inflight[i].seq < inflight[j].seq
    /\ \A s \in procSeq + 1 .. schedSeq :
        \E i \in DOMAIN inflight : inflight[i].batch # <<>> /\ inflight[i].seq = s

(* What a finished request is left with; the steps it still has in flight   *)
(* drain as long as the scheduler knows it.                                 *)
Tallied(q) == {q.prompt, q.all, q.output, q.computed, q.placeholders, q.spec} \subseteq Nat
Piped(q) == {q.inFlight, q.stale} \subseteq Nat

FinishedInv ==
    \A r \in Requests : req[r].status = "FINISHED" =>
        Tallied(req[r]) /\ (r \notin requests => Piped(req[r]))

BudgetInv ==
    /\ Scheduling => Tokens(step.batch) + step.budget = MaxNumScheduledTokens
    /\ step.budget >= 0
    /\ Len(running) <= MaxNumRunningReqs
    /\ numWaitingForStreaming = 0
    /\ \A r \in Requests : req[r].status # "WAITING_FOR_STREAMING_REQ"
===============================================================================
