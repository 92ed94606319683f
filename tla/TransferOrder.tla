---------------------------- MODULE TransferOrder ----------------------------
(***************************************************************************)
(* What the offload worker promises about the order of its transfers,      *)
(* without streams, events or pools.  "Transfers are guaranteed to be      *)
(* executed in order of their submission" (the class comment of            *)
(* SingleDirectionOffloadingHandler), and a transfer starts only when the  *)
(* model steps enqueued before it was submitted are over, because these    *)
(* may still read or write the blocks it moves.                            *)
(***************************************************************************)
EXTENDS Naturals, Sequences, FiniteSets

CONSTANTS
    Jobs,       \* job ids
    Dirs        \* directions, each with a queue of its own

VARIABLES
    queue,      \* queue[d]: the jobs of direction d submitted and not retired, oldest first
    phase,      \* phase[j]: how far a job is
    fence,      \* fence[j]: the steps enqueued when j was submitted
    enqueued,   \* model steps enqueued on the compute stream
    over        \* model steps that are over

vars == <<queue, phase, fence, enqueued, over>>

Init ==
    /\ queue = [d \in Dirs |-> <<>>]
    /\ phase = [j \in Jobs |-> "new"]
    /\ fence = [j \in Jobs |-> 0]
    /\ enqueued = 0
    /\ over = 0

EnqueueStep ==
    /\ enqueued' = enqueued + 1
    /\ UNCHANGED <<queue, phase, fence, over>>

EndStep ==
    /\ over < enqueued
    /\ over' = over + 1
    /\ UNCHANGED <<queue, phase, fence, enqueued>>

Submit(d, j) ==
    /\ phase[j] = "new"
    /\ phase' = [phase EXCEPT ![j] = "queued"]
    /\ queue' = [queue EXCEPT ![d] = Append(@, j)]
    /\ fence' = [fence EXCEPT ![j] = enqueued]
    /\ UNCHANGED <<enqueued, over>>

\* A transfer starts when all submitted before it in its direction are done
\* and so are the steps enqueued before it.
Start(d, i) ==
    LET j == queue[d][i] IN
    /\ phase[j] = "queued"
    /\ \A k \in 1 .. i - 1 : phase[queue[d][k]] = "done"
    /\ over >= fence[j]
    /\ phase' = [phase EXCEPT ![j] = "running"]
    /\ UNCHANGED <<queue, fence, enqueued, over>>

Finish(j) ==
    /\ phase[j] = "running"
    /\ phase' = [phase EXCEPT ![j] = "done"]
    /\ UNCHANGED <<queue, fence, enqueued, over>>

\* Transfers leave the queues in order, each after its end.
Retire(n) ==
    /\ \A d \in Dirs : \A i \in 1 .. n[d] : phase[queue[d][i]] = "done"
    /\ queue' = [d \in Dirs |-> SubSeq(queue[d], n[d] + 1, Len(queue[d]))]
    /\ phase' = [j \in Jobs |->
                    IF \E d \in Dirs : \E i \in 1 .. n[d] : queue[d][i] = j
                    THEN "retired" ELSE phase[j]]
    /\ UNCHANGED <<fence, enqueued, over>>

Next ==
    \/ EnqueueStep
    \/ EndStep
    \/ \E d \in Dirs, j \in Jobs : Submit(d, j)
    \/ \E d \in Dirs : \E i \in 1 .. Len(queue[d]) : Start(d, i)
    \/ \E j \in Jobs : Finish(j)
    \/ \E n \in [Dirs -> 0 .. Cardinality(Jobs)] : (\A d \in Dirs : n[d] <= Len(queue[d])) /\ Retire(n)

Spec == Init /\ [][Next]_vars
==============================================================================
