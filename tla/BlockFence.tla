------------------------------ MODULE BlockFence ------------------------------
(***************************************************************************)
(* The step fence that guards the KV block pool of                         *)
(* patches/scheduler.contention-aware.py in its `defer_block_free` mode:   *)
(* several batches are in flight and a consumer KV connector may fill a    *)
(* block by a load that no stream orders against the steps in flight.      *)
(*                                                                         *)
(* Blocks only move here; which request is scheduled, and why, is the      *)
(* business of module Scheduler, which implements this one.                *)
(***************************************************************************)
EXTENDS Naturals, Sequences, FiniteSets

CONSTANTS
    Requests,   \* request identifiers
    Blocks,     \* KV blocks of the GPU block pool
    MaxSteps    \* bound on the number of non-empty steps ever scheduled

ASSUME MaxStepsAssumption == MaxSteps \in Nat

VARIABLES
    free,       \* the block pool's free list
    owned,      \* owned[r]: the blocks in r's block table
    mode,       \* mode[r]: "idle", or an async load into r's blocks is
                \* "loading", or has "loaded" them and no step used them yet
    lastSched,  \* lastSched[r]: Request.last_sched_seq
    cow,        \* sources retained for the copy-on-writes of the next step
    deferred,   \* deferred_frees: FIFO of [fence, blocks]
    access,     \* access[s]: blocks step s (or a copy before it) touches
    schedSeq,   \* sched_step_seq
    procSeq     \* processed_step_seq

vars == <<free, owned, mode, lastSched, cow, deferred, access, schedSeq, procSeq>>

(* Steps enqueued on the GPU whose output is not processed yet.  The slot   *)
(* schedSeq + 1 holds the copies of zero-token steps, which have no number. *)
InFlight == (procSeq + 1) .. (schedSeq + 1)

Steps == 1 .. (MaxSteps + 1)

Entry == [fence : Nat, blocks : SUBSET Blocks]

DeferredBlocks == UNION {deferred[i].blocks : i \in DOMAIN deferred}

Init ==
    /\ free = Blocks
    /\ owned = [r \in Requests |-> {}]
    /\ mode = [r \in Requests |-> "idle"]
    /\ lastSched = [r \in Requests |-> 0]
    /\ cow = {}
    /\ deferred = <<>>
    /\ access = [s \in Steps |-> {}]
    /\ schedSeq = 0
    /\ procSeq = 0

-------------------------------------------------------------------------------

(* allocate_slots for a request that computes: B is new, C are the sources  *)
(* of the copy-on-writes the adoption of a partial cached block needs.      *)
Allocate(r, B, C) ==
    /\ mode[r] # "loading"
    /\ B \subseteq free
    /\ C \subseteq free \ B
    /\ free' = free \ (B \cup C)
    /\ owned' = [owned EXCEPT ![r] = @ \cup B]
    /\ cow' = cow \cup C
    /\ UNCHANGED <<mode, lastSched, deferred, access, schedSeq, procSeq>>

(* allocate_slots with load_kv_async: the connector starts to fill the      *)
(* table, and B is what it lacks.  A table that no step used yet may be     *)
(* filled again: the last token of a prompt that was loaded whole is        *)
(* computed, and a one-token prompt has no computed token then.             *)
BeginLoad(r, B) ==
    /\ mode[r] # "loading"
    /\ mode[r] = "idle" => owned[r] = {}
    /\ owned[r] \cup B # {}
    /\ B \subseteq free
    /\ free' = free \ B
    /\ owned' = [owned EXCEPT ![r] = @ \cup B]
    /\ mode' = [mode EXCEPT ![r] = "loading"]
    /\ UNCHANGED <<lastSched, cow, deferred, access, schedSeq, procSeq>>

(* The worker's load ends; from then on it writes none of r's blocks.       *)
EndLoad(r) ==
    /\ mode[r] = "loading"
    /\ mode' = [mode EXCEPT ![r] = "loaded"]
    /\ UNCHANGED <<free, owned, lastSched, cow, deferred, access, schedSeq, procSeq>>

(* MUTANT: the table keeps blocks that are back in the pool.                *)
FreeFailedLoadKeepsTable(r) ==
    /\ mode[r] = "loaded"
    /\ free' = free \cup owned[r]
    /\ mode' = [mode EXCEPT ![r] = "idle"]
    /\ UNCHANGED <<owned, lastSched, cow, deferred, access, schedSeq, procSeq>>

(* _update_waiting_for_remote_kv when no loaded token is valid: the blocks  *)
(* go back by kv_cache_manager.free, past the fence.                        *)
FreeFailedLoad(r) ==
    /\ mode[r] = "loaded"
    /\ free' = free \cup owned[r]
    /\ owned' = [owned EXCEPT ![r] = {}]
    /\ mode' = [mode EXCEPT ![r] = "idle"]
    /\ UNCHANGED <<lastSched, cow, deferred, access, schedSeq, procSeq>>

(* MUTANT: no request counts as having a write in flight.                   *)
NeverFenced(r) == TRUE

(* _free_request_blocks, for a preempted or a finished request.             *)
NoWriteInFlight(r) == lastSched[r] <= procSeq

FreeRequestBlocks(r) ==
    /\ mode[r] # "loading"
    /\ IF NoWriteInFlight(r)
       THEN /\ free' = free \cup owned[r]
            /\ UNCHANGED deferred
       ELSE /\ deferred' = IF owned[r] = {} THEN deferred
                           ELSE Append(deferred, [fence |-> schedSeq, blocks |-> owned[r]])
            /\ UNCHANGED free
    /\ owned' = [owned EXCEPT ![r] = {}]
    /\ mode' = [mode EXCEPT ![r] = "idle"]
    /\ UNCHANGED <<lastSched, cow, access, schedSeq, procSeq>>

(* MUTANT: the copies of a zero-token step are fenced by the step before.   *)
CowFencedBefore == schedSeq

(* The end of schedule(): S are the requests with tokens in the step.  The  *)
(* retained copy sources are fenced by the first non-empty step at or after *)
(* this one; only a non-empty step gets a number, recorded in its requests. *)
CowFence == schedSeq + 1

Dispatch(S) ==
    /\ schedSeq < MaxSteps
    /\ \A r \in S : mode[r] # "loading" /\ owned[r] # {}
    /\ access' = [access EXCEPT ![schedSeq + 1] = @ \cup cow \cup UNION {owned[r] : r \in S}]
    /\ deferred' = IF cow = {} THEN deferred
                   ELSE Append(deferred, [fence |-> CowFence, blocks |-> cow])
    /\ cow' = {}
    /\ schedSeq' = IF S = {} THEN schedSeq ELSE schedSeq + 1
    /\ lastSched' = [r \in Requests |-> IF r \in S THEN schedSeq' ELSE lastSched[r]]
    /\ mode' = [r \in Requests |-> IF r \in S THEN "idle" ELSE mode[r]]
    /\ UNCHANGED <<free, owned, procSeq>>

(* MUTANT: an entry waits for the step after its fence.                     *)
DrainedLate(k, p) ==
    /\ \A i \in 1 .. k : deferred[i].fence < p
    /\ k < Len(deferred) => deferred[k + 1].fence >= p

(* _drain_deferred_frees: the k satisfied entries at the front go back.     *)
Drained(k, p) ==
    /\ \A i \in 1 .. k : deferred[i].fence <= p
    /\ k < Len(deferred) => deferred[k + 1].fence > p

(* update_from_output for a non-empty step.                                 *)
Process ==
    /\ procSeq < schedSeq
    /\ procSeq' = procSeq + 1
    /\ access' = [access EXCEPT ![procSeq + 1] = {}]
    /\ \E k \in 0 .. Len(deferred) :
        /\ Drained(k, procSeq + 1)
        /\ free' = free \cup UNION {deferred[i].blocks : i \in 1 .. k}
        /\ deferred' = SubSeq(deferred, k + 1, Len(deferred))
    /\ UNCHANGED <<owned, mode, lastSched, cow, schedSeq>>

Next ==
    \/ \E r \in Requests, B, C \in SUBSET Blocks : Allocate(r, B, C)
    \/ \E r \in Requests, B \in SUBSET Blocks : BeginLoad(r, B)
    \/ \E r \in Requests : EndLoad(r)
    \/ \E r \in Requests : FreeFailedLoad(r)
    \/ \E r \in Requests : FreeRequestBlocks(r)
    \/ \E S \in SUBSET Requests : Dispatch(S)
    \/ Process

Spec == Init /\ [][Next]_vars

(* The model runner executes what was dispatched and its output is always   *)
(* collected (EngineCore's batch queue), so a step in flight is processed.  *)
FairSpec == Spec /\ WF_vars(Process)

-------------------------------------------------------------------------------

TypeOK ==
    /\ free \subseteq Blocks
    /\ owned \in [Requests -> SUBSET Blocks]
    /\ mode \in [Requests -> {"idle", "loading", "loaded"}]
    /\ lastSched \in [Requests -> Nat]
    /\ cow \subseteq Blocks
    /\ deferred \in Seq(Entry)
    /\ access \in [Steps -> SUBSET Blocks]
    /\ schedSeq \in 0 .. MaxSteps
    /\ procSeq \in 0 .. schedSeq

(* A block an async load is filling is touched by no step in flight: the    *)
(* race the comment at defer_block_free describes never happens.            *)
NoLoadRace ==
    \A r \in Requests : mode[r] = "loading" =>
        \A s \in InFlight : owned[r] \cap access[s] = {}

(* No block a step in flight may still touch is in the free list, where the *)
(* next allocation would find it.                                           *)
NoEarlyFree == \A s \in InFlight : access[s] \cap free = {}

(* No block is in two of these places: the free list, one block table, the  *)
(* retained copy sources and one deferred entry (no double free, no sharing *)
(* by accident).                                                            *)
Exclusive ==
    /\ free \cap cow = {}
    /\ \A r \in Requests : owned[r] \cap (free \cup cow) = {}
    /\ \A q, r \in Requests : q # r => owned[q] \cap owned[r] = {}
    /\ \A i \in DOMAIN deferred :
        /\ deferred[i].blocks \cap (free \cup cow) = {}
        /\ \A r \in Requests : deferred[i].blocks \cap owned[r] = {}
        /\ \A j \in DOMAIN deferred : i # j => deferred[i].blocks \cap deferred[j].blocks = {}

NoLeak == Blocks = free \cup cow \cup DeferredBlocks \cup UNION {owned[r] : r \in Requests}

(* Every block is in exactly one place: freeing, deferring and draining     *)
(* neither lose one nor free it twice.                                      *)
PoolPartitioned == Exclusive /\ NoLeak

(* What makes the fence work.  A block a step in flight touches is still in *)
(* the table of a request that was last scheduled in that step or a later   *)
(* one and runs no load, or it waits behind a fence no earlier than that    *)
(* step; slots of steps not yet dispatched are empty.                       *)
FenceInv ==
    /\ \A r \in Requests : lastSched[r] <= schedSeq
    /\ \A s \in InFlight, r \in Requests :
        owned[r] \cap access[s] # {} => lastSched[r] >= s /\ mode[r] = "idle"
    /\ \A s \in InFlight, i \in DOMAIN deferred :
        deferred[i].blocks \cap access[s] # {} => deferred[i].fence >= s
    /\ \A s \in InFlight : access[s] \cap (free \cup cow) = {}
    /\ \A s \in Steps : s > schedSeq + 1 => access[s] = {}

IInv == TypeOK /\ Exclusive /\ FenceInv

(* A deferred block whose fence a dispatched step covers, with no later     *)
(* fence queued before it, comes back once the steps in flight are done.    *)
Covered(b) ==
    \E i \in DOMAIN deferred :
        b \in deferred[i].blocks /\ \A j \in 1 .. i : deferred[j].fence <= schedSeq

DeferredReturn == \A b \in Blocks : Covered(b) ~> b \notin DeferredBlocks

===============================================================================
