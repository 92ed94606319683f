---------------------------- MODULE OffloadWorker ----------------------------
(***************************************************************************)
(* The KV offload worker of patches/kv_offload_cpu_gpu_worker.load-war.py: *)
(* two SingleDirectionOffloadingHandlers, stores (GPU to CPU) and loads    *)
(* (CPU to GPU), driven by one host thread.  A transfer is a stream of its *)
(* own, two events and a set of descriptor buffers, all taken from pools   *)
(* and given back when the end event has completed.                        *)
(*                                                                         *)
(* The device is modelled by CUDA's rules.  A stream executes what is      *)
(* enqueued on it in order; different streams run concurrently.  record()  *)
(* makes a new version of the event, complete when the stream reaches it;  *)
(* wait_event() waits for the version recorded last when it is called;     *)
(* query() and synchronize() ask for the version recorded last.  The copy  *)
(* reads its descriptors when it executes, not when it is enqueued.        *)
(*                                                                         *)
(* Job ids count up.  Streams, events and buffers are numbered as they are *)
(* created, for both handlers together.                                    *)
(***************************************************************************)
EXTENDS Integers, Sequences, FiniteSets

CONSTANTS
    NumJobs,        \* bound on the transfers submitted
    NumSteps,       \* bound on the model steps enqueued
    OpCounts        \* values of num_copy_ops

ASSUME OffloadAssumption ==
    /\ NumJobs \in Nat \ {0}
    /\ NumSteps \in Nat
    /\ OpCounts \subseteq Nat

VARIABLES
    host,           \* what the host thread is in
    waitFor,        \* jobs the host synchronizes with in wait()
    submitted,      \* job ids 1 .. submitted have been used
    transfers,      \* transfers[d]: handler d's _transfers
    streamPool,     \* streamPool[d], eventPool[d], bufferPool[d]: handler d's pools
    eventPool,
    bufferPool,
    numStreams,     \* streams, events and buffers created, numbered from 1
    numEvents,
    capacity,       \* capacity[b]: elements of descriptor buffer b
    content,        \* content[b]: the job whose descriptors b holds
    ops,            \* ops[s]: operations enqueued on stream s and not executed
    recorded,       \* recorded[e]: versions of event e recorded
    completed,      \* completed[e]: the newest version that has completed
    enqueued,       \* model steps enqueued on the current (compute) stream
    over,           \* model steps that are over
    fence,          \* history: steps enqueued when the job was submitted
    moved           \* history: the job whose descriptors its copy used, 0 while
                    \* the copy is to come; a job without descriptors has none

vars == <<host, waitFor, submitted, transfers, streamPool, eventPool, bufferPool, numStreams,
          numEvents, capacity, content, ops, recorded, completed, enqueued, over, fence, moved>>

handlerVars == <<transfers, streamPool, eventPool, bufferPool>>
deviceVars == <<ops, completed, over, moved>>

Dirs == {"store", "load"}
Jobs == 1 .. NumJobs
Streams == 1 .. NumJobs
Events == 1 .. 2 * NumJobs
Buffers == DOMAIN capacity

Init ==
    /\ host = "idle"
    /\ waitFor = {}
    /\ submitted = 0
    /\ transfers = [d \in Dirs |-> <<>>]
    /\ streamPool = [d \in Dirs |-> <<>>]
    /\ eventPool = [d \in Dirs |-> <<>>]
    /\ bufferPool = [d \in Dirs |-> <<>>]
    /\ numStreams = 0
    /\ numEvents = 0
    /\ capacity = <<>>
    /\ content = <<>>
    /\ ops = [s \in Streams |-> <<>>]
    /\ recorded = [e \in Events |-> 0]
    /\ completed = [e \in Events |-> 0]
    /\ enqueued = 0
    /\ over = 0
    /\ fence = [j \in Jobs |-> 0]
    /\ moved = [j \in Jobs |-> 0]

-------------------------------------------------------------------------------
(* Operations on a stream.                                                 *)

AfterSteps(n) == [kind |-> "steps", ver |-> n]
AfterEvent(e, n) == [kind |-> "event", event |-> e, ver |-> n]
Copy(j, b) == [kind |-> "copy", job |-> j, buffer |-> b]
Record(e, n) == [kind |-> "record", event |-> e, ver |-> n]

(* An event query: the version recorded last has completed.                *)
Query(e) == completed[e] = recorded[e]

(* pool.pop() if pool else a new one, and the pool after it                *)
Popped(pool, created) == IF pool = <<>> THEN created + 1 ELSE pool[Len(pool)]
Rest(pool) == IF pool = <<>> THEN <<>> ELSE SubSeq(pool, 1, Len(pool) - 1)
Created(id, created) == IF id > created THEN id ELSE created

(* The descriptor buffers of a transfer of n operations: pooled ones that  *)
(* are too small are dropped for new ones.                                 *)
GivesRoom(b, n) == b \in Buffers /\ capacity[b] >= n

(* Mutations of Enqueued: wait_event is left out; the transfer is appended *)
(* before it looks for the last one.                                       *)
EnqueuedUnchained(d, j, n, b, start, end) ==
    <<AfterSteps(enqueued), Record(start, recorded[start] + 1)>>
    \o (IF n > 0 THEN <<Copy(j, b)>> ELSE <<>>)
    \o <<Record(end, recorded[end] + 1)>>

EnqueuedAfterItself(d, j, n, b, start, end) ==
    <<AfterSteps(enqueued), AfterEvent(end, recorded[end] + 1), Record(start, recorded[start] + 1)>>
    \o (IF n > 0 THEN <<Copy(j, b)>> ELSE <<>>)
    \o <<Record(end, recorded[end] + 1)>>

(* transfer_async: the stream operations, in the order they are enqueued.  *)
Enqueued(d, j, n, b, start, end) ==
    LET last == transfers[d][Len(transfers[d])].end IN
    <<AfterSteps(enqueued)>>
    \o (IF transfers[d] # <<>> THEN <<AfterEvent(last, recorded[last])>> ELSE <<>>)
    \o <<Record(start, recorded[start] + 1)>>
    \o (IF n > 0 THEN <<Copy(j, b)>> ELSE <<>>)
    \o <<Record(end, recorded[end] + 1)>>

TransferAsync(d, n) ==
    LET j      == submitted + 1
        popped == Popped(bufferPool[d], Len(capacity))
        b      == IF GivesRoom(popped, n) THEN popped ELSE Len(capacity) + 1
        s      == Popped(streamPool[d], numStreams)
        start  == Popped(eventPool[d], numEvents)
        end    == Popped(Rest(eventPool[d]), Created(start, numEvents))
    IN
    /\ host = "idle"
    /\ submitted < NumJobs
    /\ submitted' = j
    /\ streamPool' = [streamPool EXCEPT ![d] = Rest(@)]
    /\ eventPool' = [eventPool EXCEPT ![d] = Rest(Rest(@))]
    /\ bufferPool' = [bufferPool EXCEPT ![d] = Rest(@)]
    /\ numStreams' = Created(s, numStreams)
    /\ numEvents' = Created(end, Created(start, numEvents))
    /\ capacity' = IF b \in Buffers THEN capacity ELSE Append(capacity, n)
    /\ content' = IF b \in Buffers THEN [content EXCEPT ![b] = j] ELSE Append(content, j)
    /\ recorded' = [recorded EXCEPT ![start] = @ + 1, ![end] = @ + 1]
    /\ ops' = [ops EXCEPT ![s] = @ \o Enqueued(d, j, n, b, start, end)]
    /\ transfers' = [transfers EXCEPT ![d] = Append(@,
                        [job |-> j, stream |-> s, start |-> start, end |-> end, buffer |-> b])]
    /\ fence' = [fence EXCEPT ![j] = enqueued]
    /\ moved' = [moved EXCEPT ![j] = IF n = 0 THEN j ELSE @]
    /\ UNCHANGED <<host, waitFor, completed, enqueued, over>>

(* submit_store and submit_load *)
SubmitStore == \E n \in OpCounts : TransferAsync("store", n)
SubmitLoad == \E n \in OpCounts : TransferAsync("load", n)

-------------------------------------------------------------------------------
(* get_finished of both handlers: each pops transfers from the front while *)
(* the end event of the first one has completed.                           *)

\* Mutation of Finished: the start event is asked.
FinishedByStart(d) ==
    CHOOSE n \in 0 .. Len(transfers[d]) :
        /\ \A i \in 1 .. n : Query(transfers[d][i].start)
        /\ n < Len(transfers[d]) => ~Query(transfers[d][n + 1].start)

Finished(d) ==
    CHOOSE n \in 0 .. Len(transfers[d]) :
        /\ \A i \in 1 .. n : Query(transfers[d][i].end)
        /\ n < Len(transfers[d]) => ~Query(transfers[d][n + 1].end)

(* What the first n transfers of d put back, in the order they are popped. *)
StreamsOf(d, n) == [i \in 1 .. n |-> transfers[d][i].stream]
BuffersOf(d, n) == [i \in 1 .. n |-> transfers[d][i].buffer]
EndsOnly(d, n) == [i \in 1 .. 2 * n |-> transfers[d][(i + 1) \div 2].end]   \* mutation of EventsOf

EventsOf(d, n) == [i \in 1 .. 2 * n |->
    LET t == transfers[d][(i + 1) \div 2] IN IF i % 2 = 1 THEN t.end ELSE t.start]

GetFinished ==
    /\ host = "idle"
    /\ transfers' = [d \in Dirs |-> SubSeq(transfers[d], Finished(d) + 1, Len(transfers[d]))]
    /\ streamPool' = [d \in Dirs |-> streamPool[d] \o StreamsOf(d, Finished(d))]
    /\ eventPool' = [d \in Dirs |-> eventPool[d] \o EventsOf(d, Finished(d))]
    /\ bufferPool' = [d \in Dirs |-> bufferPool[d] \o BuffersOf(d, Finished(d))]
    /\ UNCHANGED <<host, waitFor, submitted, numStreams, numEvents, capacity, content,
                   recorded, enqueued, fence, deviceVars>>

-------------------------------------------------------------------------------
(* wait blocks the host on the end events of the jobs in flight among      *)
(* job_ids, one after the other: waitFor is the one it is blocked on.      *)

InFlight == UNION {{transfers[d][i] : i \in DOMAIN transfers[d]} : d \in Dirs}

EndEvent(j) == (CHOOSE t \in InFlight : t.job = j).end

BeginWait ==
    /\ host = "idle"
    /\ \E t \in InFlight : waitFor' = {t.job}
    /\ host' = "wait"
    /\ UNCHANGED <<submitted, handlerVars, numStreams, numEvents, capacity, content,
                   recorded, enqueued, fence, deviceVars>>

EndWait ==
    /\ host = "wait"
    /\ \A j \in waitFor : Query(EndEvent(j))
    /\ host' = "idle"
    /\ waitFor' = {}
    /\ UNCHANGED <<submitted, handlerVars, numStreams, numEvents, capacity, content,
                   recorded, enqueued, fence, deviceVars>>

(* shutdown of the store handler, then of the load handler: transfers are  *)
(* synchronized with and dropped in order, then the pools are cleared.     *)
(* The store handler cleans the shared region up at its end.               *)
Shutdown ==
    /\ host = "idle"
    /\ host' = "shutdown_store"
    /\ UNCHANGED <<waitFor, submitted, handlerVars, numStreams, numEvents, capacity, content,
                   recorded, enqueued, fence, deviceVars>>

FrontFinished(d) == transfers[d] # <<>> /\ Query(transfers[d][1].end)

Shutting(d) == host = (IF d = "store" THEN "shutdown_store" ELSE "shutdown_load")

DrainTransfer(d) ==
    /\ Shutting(d)
    /\ FrontFinished(d)
    /\ transfers' = [transfers EXCEPT ![d] = Tail(@)]
    /\ UNCHANGED <<host, waitFor, submitted, streamPool, eventPool, bufferPool, numStreams,
                   numEvents, capacity, content, recorded, enqueued, fence, deviceVars>>

EndShutdown(d) ==
    /\ Shutting(d)
    /\ transfers[d] = <<>>
    /\ streamPool' = [streamPool EXCEPT ![d] = <<>>]
    /\ eventPool' = [eventPool EXCEPT ![d] = <<>>]
    /\ bufferPool' = [bufferPool EXCEPT ![d] = <<>>]
    /\ host' = IF d = "store" THEN "shutdown_load" ELSE "down"
    /\ UNCHANGED <<waitFor, submitted, transfers, numStreams, numEvents, capacity, content,
                   recorded, enqueued, fence, deviceVars>>

-------------------------------------------------------------------------------
(* The device, and the model steps the same host thread enqueues.          *)

EnqueueStep ==
    /\ host = "idle"
    /\ enqueued < NumSteps
    /\ enqueued' = enqueued + 1
    /\ UNCHANGED <<host, waitFor, submitted, handlerVars, numStreams, numEvents, capacity, content,
                   recorded, fence, deviceVars>>

EndStep ==
    /\ over < enqueued
    /\ over' = over + 1
    /\ UNCHANGED <<host, waitFor, submitted, handlerVars, numStreams, numEvents, capacity, content,
                   recorded, enqueued, fence, ops, completed, moved>>

Ready(op) ==
    CASE op.kind = "steps" -> over >= op.ver
      [] op.kind = "event" -> completed[op.event] >= op.ver
      [] OTHER -> TRUE

Execute(s) ==
    /\ ops[s] # <<>>
    /\ LET op == Head(ops[s]) IN
        /\ Ready(op)
        /\ completed' = IF op.kind = "record"
                        THEN [completed EXCEPT ![op.event] = op.ver] ELSE completed
        /\ moved' = IF op.kind = "copy"
                    THEN [moved EXCEPT ![op.job] = content[op.buffer]] ELSE moved
    /\ ops' = [ops EXCEPT ![s] = Tail(@)]
    /\ UNCHANGED <<host, waitFor, submitted, handlerVars, numStreams, numEvents, capacity, content,
                   recorded, enqueued, fence, over>>

Next ==
    \/ SubmitStore
    \/ SubmitLoad
    \/ GetFinished
    \/ \E d \in Dirs : DrainTransfer(d) \/ EndShutdown(d)
    \/ BeginWait
    \/ EndWait
    \/ Shutdown
    \/ EnqueueStep
    \/ EndStep
    \/ \E s \in Streams : Execute(s)

Spec == Init /\ [][Next]_vars

(* The device executes what it can; a host call that has begun goes on;    *)
(* the engine's loop asks for finished transfers again and again.          *)
FairSpec ==
    /\ Spec
    /\ WF_vars(EndStep)
    /\ \A s \in Streams : WF_vars(Execute(s))
    /\ WF_vars(EndWait)
    /\ SF_vars(GetFinished)
    /\ \A d \in Dirs : WF_vars(DrainTransfer(d)) /\ WF_vars(EndShutdown(d))

-------------------------------------------------------------------------------
(* Properties *)

Transfer == [job: Jobs, stream: Streams, start: Events, end: Events, buffer: Nat]

Op == [kind: {"steps"}, ver: Nat] \cup [kind: {"event"}, event: Events, ver: Nat]
        \cup [kind: {"copy"}, job: Jobs, buffer: Nat] \cup [kind: {"record"}, event: Events, ver: Nat]

TypeOK ==
    /\ host \in {"idle", "wait", "shutdown_store", "shutdown_load", "down"}
    /\ waitFor \subseteq Jobs
    /\ submitted \in 0 .. NumJobs
    /\ transfers \in [Dirs -> Seq(Transfer)]
    /\ {streamPool, eventPool, bufferPool} \subseteq [Dirs -> Seq(Nat)]
    /\ numStreams \in 0 .. submitted
    /\ numEvents \in 0 .. 2 * submitted
    /\ capacity \in Seq(Nat) /\ content \in Seq(Jobs) /\ Len(content) = Len(capacity)
    /\ ops \in [Streams -> Seq(Op)]
    /\ recorded \in [Events -> 0 .. submitted]
    /\ completed \in [Events -> Nat]
    /\ enqueued \in Nat /\ over \in 0 .. enqueued
    /\ fence \in [Jobs -> Nat]
    /\ moved \in [Jobs -> Nat]

StreamHas(t, e) == \E i \in DOMAIN ops[t.stream] :
    ops[t.stream][i].kind = "record" /\ ops[t.stream][i].event = e

(* An end event answers for its own transfer, although it comes from the   *)
(* pool and has been recorded for others before: it reads as complete      *)
(* exactly when the stream of the transfer has executed everything.  This  *)
(* is what get_finished, wait and shutdown rely on (query at line 421,     *)
(* synchronize at 447 and 452).                                            *)
EndEventExact ==
    \A t \in InFlight : Query(t.end) <=> ops[t.stream] = <<>>

(* No copy uses the descriptors of another transfer, and what get_finished, *)
(* wait or shutdown takes for ended has moved all its blocks: the pooled    *)
(* buffers are not written again before the copy that reads them has        *)
(* executed, and no end event is complete ahead of its copy (lines 289 to   *)
(* 300, 392 to 400 and 437).                                                *)
CopiesOwnBlocks ==
    /\ \A j \in Jobs : moved[j] \in {0, j}
    /\ \A j \in 1 .. submitted :
        (\A t \in InFlight : t.job = j => Query(t.end)) => moved[j] = j

(* The order the class comment promises, with the fence of line 378.       *)
PhaseOf(j) ==
    IF j > submitted THEN "new"
    ELSE IF ~\E t \in InFlight : t.job = j THEN "retired"
    ELSE LET t == CHOOSE u \in InFlight : u.job = j IN
         IF StreamHas(t, t.start) THEN "queued"
         ELSE IF StreamHas(t, t.end) THEN "running"
         ELSE "done"

Order == INSTANCE TransferOrder WITH
    queue <- [d \in Dirs |-> [i \in DOMAIN transfers[d] |-> transfers[d][i].job]],
    phase <- [j \in Jobs |-> PhaseOf(j)]

(* The worker implements TransferOrder: in each direction transfers run in *)
(* the order of submission, one at a time, never before the model steps    *)
(* enqueued ahead of them are over, and leave in that order after their    *)
(* end.  The code only chains each transfer to the newest one (line 379)   *)
(* and takes streams and events from pools.                                *)
InSubmissionOrder == Order!Spec

(* No stream waits for something that never comes: when no more transfers  *)
(* are submitted (their number is bounded), those in flight all end and    *)
(* are handed to the engine, or dropped by shutdown.                       *)
EveryTransferEnds == <>[](InFlight = {})
-------------------------------------------------------------------------------
(* Why it works: the inductive invariant of the proofs.                    *)

(* The ids in the pools of both handlers are distinct, among the first n   *)
(* created, and not in use.                                                *)
PoolOK(pool, used, n) ==
    /\ \A d \in Dirs : \A i \in DOMAIN pool[d] : pool[d][i] \in (1 .. n) \ used
    /\ \A d, e \in Dirs : \A i \in DOMAIN pool[d], k \in DOMAIN pool[e] :
        pool[d][i] = pool[e][k] => d = e /\ i = k
    /\ used \subseteq 1 .. n

StreamsInUse == {t.stream : t \in InFlight}
EventsInUse == {t.start : t \in InFlight} \cup {t.end : t \in InFlight}
BuffersInUse == {t.buffer : t \in InFlight}

(* Streams, events and buffers have one user or are in one pool, once.     *)
PoolsExact ==
    /\ PoolOK(streamPool, StreamsInUse, numStreams)
    /\ PoolOK(eventPool, EventsInUse, numEvents)
    /\ PoolOK(bufferPool, BuffersInUse, Len(capacity))

Apart(t, u) ==
    /\ t.job # u.job /\ t.stream # u.stream /\ t.buffer # u.buffer
    /\ t.start # u.start /\ t.start # u.end /\ t.end # u.start /\ t.end # u.end

(* Transfers in flight share nothing, and have the jobs submitted last.    *)
TransfersApart ==
    /\ \A d \in Dirs : Len(transfers[d]) <= submitted
    /\ \A t \in InFlight : t.job <= submitted /\ t.start # t.end
    /\ \A d, e \in Dirs : \A i \in DOMAIN transfers[d], k \in DOMAIN transfers[e] :
        (d # e \/ i # k) => Apart(transfers[d][i], transfers[e][k])

(* What nobody uses is at rest.                                            *)
UnusedAtRest ==
    /\ \A s \in Streams \ StreamsInUse : ops[s] = <<>>
    /\ \A e \in Events \ EventsInUse : completed[e] = recorded[e]

(* The rest of what Enqueued put on the stream of t, in its order.         *)
RestOfEnqueued(t) ==
    LET o == ops[t.stream] IN
    /\ \A k \in DOMAIN o :
        \/ (o[k] = AfterSteps(fence[t.job]) \/ o[k].kind = "event") /\ StreamHas(t, t.start)
        \/ o[k] \in {Record(t.start, recorded[t.start]), Copy(t.job, t.buffer)}
        \/ o[k] = Record(t.end, recorded[t.end]) /\ k = Len(o)
    /\ \A k, l \in DOMAIN o : k < l =>
        /\ o[l].kind # "steps"
        /\ o[l].kind = "event" => o[k].kind = "steps"
        /\ o[l].kind = "record" /\ o[l].event = t.start => o[k].kind \in {"steps", "event"}
    /\ o # <<>> => o[Len(o)] = Record(t.end, recorded[t.end])

(* What is gone from the stream has had its effect.                        *)
EffectOfExecuted(t) ==
    LET o == ops[t.stream] IN
    /\ (\E k \in DOMAIN o : o[k].kind = "steps") \/ fence[t.job] <= over
    /\ StreamHas(t, t.start) \/ completed[t.start] = recorded[t.start]
    /\ IF o = <<>> THEN completed[t.end] = recorded[t.end] ELSE completed[t.end] < recorded[t.end]

(* A transfer waits for the end of the one before it, and one that has     *)
(* started has all before it behind it.                                    *)
Chained(d, i) ==
    LET t == transfers[d][i]
        u == transfers[d][i - 1]
        o == ops[t.stream]
    IN  /\ ops[u.stream] # <<>> =>
            \E k \in DOMAIN o : o[k].kind = "event" /\ o[k].event = u.end /\ o[k].ver = recorded[u.end]
        /\ StreamHas(t, t.start) \/ \A k \in 1 .. i - 1 : ops[transfers[d][k].stream] = <<>>

(* Who has not moved its blocks has its copy ahead.                        *)
CopiesAhead ==
    /\ \A j \in Jobs : moved[j] \in {0, j}
    /\ \A j \in 1 .. submitted :
        \/ moved[j] = j
        \/ \E t \in InFlight : t.job = j /\ \E k \in DOMAIN ops[t.stream] : ops[t.stream][k] = Copy(j, t.buffer)

WorkerInv ==
    /\ TypeOK
    /\ PoolsExact
    /\ TransfersApart
    /\ UnusedAtRest
    /\ \A t \in InFlight : RestOfEnqueued(t) /\ EffectOfExecuted(t) /\ content[t.buffer] = t.job
    /\ \A d \in Dirs : \A i \in 2 .. Len(transfers[d]) : Chained(d, i)
    /\ CopiesAhead
==============================================================================
