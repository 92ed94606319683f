-------------------------- MODULE SchedulerFence_proofs --------------------------
(***************************************************************************)
(* In its defer_block_free mode the scheduler moves blocks only the way     *)
(* BlockFence allows, so its loads never meet a step in flight; and no      *)
(* counter of a request becomes negative.                                   *)
(***************************************************************************)
EXTENDS SchedulerPromises_proofs

-------------------------------------------------------------------------------
(* What the fence sees of the scheduler.                                    *)

(* A step keeps the invariants behind the fence, and is one of its steps.   *)
FenceKept == LoadingInv' /\ SeqInv' /\ [Fence!Next]_(Fence!vars)

(* Nobody else is reported, and who is loading stays what it was.           *)
SpareLoading(r) ==
    /\ requests \ {r} \subseteq requests'
    /\ recv' \cup step'.received \subseteq recv \cup step.received
    /\ \A s \in Requests \ {r} :
            load[s] = "loading" => req'[s].status = req[s].status /\ send'[s] = send[s]

LEMMA LoadingSpared ==
  ASSUME LoadingInv, NEW r, SpareLoading(r), \A s \in Requests \ {r} : load'[s] = load[s],
         r \in Requests => load'[r] # "loading"
  PROVE  LoadingInv'
<1>1. ASSUME NEW s \in Requests, load'[s] = "loading"
      PROVE  /\ s \in requests' /\ req'[s].status \in {"WAITING_FOR_REMOTE_KVS", "FINISHED"}
             /\ s \notin recv' \cup step'.received /\ send'[s] = "none"
  <2>1. s # r
    BY <1>1
  <2>2. load[s] = "loading" /\ req'[s].status = req[s].status /\ send'[s] = send[s]
    BY <1>1, <2>1 DEF SpareLoading
  <2>3. /\ s \in requests /\ req[s].status \in {"WAITING_FOR_REMOTE_KVS", "FINISHED"}
        /\ s \notin recv \cup step.received /\ send[s] = "none"
    BY <2>2 DEF LoadingInv
  <2> QED
    BY <2>1, <2>2, <2>3 DEF SpareLoading
<1> QED
  BY <1>1 DEF LoadingInv

LEMMA SchedsStand ==
  ASSUME \A s \in Requests : req'[s].lastSched = req[s].lastSched
  PROVE  LastScheds' = LastScheds
BY DEF LastScheds

LEMMA AccessStands ==
  ASSUME DOMAIN inflight' = DOMAIN inflight,
         \A i \in DOMAIN inflight :
            inflight'[i].seq = inflight[i].seq /\ inflight'[i].writes = inflight[i].writes
  PROVE  FenceAccess' = FenceAccess
<1>1. ASSUME NEW s PROVE StepWrites(s)' = StepWrites(s)
  <2>1. {j \in DOMAIN inflight' : inflight'[j].seq = s} = {j \in DOMAIN inflight : inflight[j].seq = s}
    OBVIOUS
  <2> QED
    BY <2>1 DEF StepWrites
<1> QED
  BY <1>1 DEF FenceAccess

LEMMA SameAccess ==
  ASSUME inflight' = inflight
  PROVE  FenceAccess' = FenceAccess
BY AccessStands

LEMMA SeqStands ==
  ASSUME SeqInv, UNCHANGED <<inflight, schedSeq, procSeq>>, schedSeq < MaxSteps \/ ~Scheduling'
  PROVE  SeqInv'
BY DEF SeqInv

(* No block moves.                                                          *)
LEMMA StandsStill ==
  ASSUME LoadingInv, SeqInv', UNCHANGED <<kv, seqs>>, requests \subseteq requests',
         recv' \cup step'.received \subseteq recv \cup step.received,
         \A s \in Requests : load[s] = "loading" => req'[s].status = req[s].status /\ send'[s] = send[s],
         \A s \in Requests : req'[s].lastSched = req[s].lastSched,
         FenceAccess' = FenceAccess
  PROVE  FenceKept
<1>1. UNCHANGED <<free, owned, load, deferred, schedSeq, procSeq>>
  BY DEF kv, seqs
<1>2. LoadingInv'
  BY <1>1 DEF LoadingInv
<1>3. LastScheds' = LastScheds
  BY SchedsStand
<1>4. UNCHANGED Fence!vars
  BY <1>1, <1>3 DEF Fence!vars
<1> QED
  BY <1>2, <1>4 DEF FenceKept

(* The blocks of a request are freed, or wait for the steps in flight.      *)
LEMMA FreesBlocks ==
  ASSUME DeferBlockFree, Shapes, LoadingInv, SeqInv', NEW r \in Requests, FreeRequestBlocks(r),
         load[r] # "loading", SpareLoading(r), UNCHANGED seqs,
         \A s \in Requests : req'[s].lastSched = req[s].lastSched,
         FenceAccess' = FenceAccess
  PROVE  FenceKept
<1>1. load' = [load EXCEPT ![r] = "idle"] /\ UNCHANGED <<schedSeq, procSeq>>
  BY DEF FreeRequestBlocks, seqs
<1>2. LoadingInv'
  <2>1. load'[r] # "loading" /\ \A s \in Requests \ {r} : load'[s] = load[s]
    BY <1>1 DEF Shapes
  <2> QED
    BY <2>1, LoadingSpared
<1>3. LastScheds' = LastScheds /\ LastScheds[r] = req[r].lastSched
  BY SchedsStand DEF LastScheds
<1>4. Fence!NoWriteInFlight(r) <=> NoWriteInFlight(r)
  BY <1>3 DEF Fence!NoWriteInFlight, NoWriteInFlight
<1>5. Fence!FreeRequestBlocks(r)
  BY <1>1, <1>3, <1>4 DEF FreeRequestBlocks, Fence!FreeRequestBlocks
<1>6. Fence!Next
  BY <1>5 DEF Fence!Next
<1> QED
  BY <1>2, <1>6 DEF FenceKept

(* A request gets blocks to compute with.                                   *)
LEMMA TakesBlocks ==
  ASSUME Shapes, LoadingInv, SeqInv', NEW r \in Requests, NEW n, Take(r, n),
         load[r] # "loading", SpareLoading(r), UNCHANGED <<load, deferred, seqs, inflight>>,
         \A s \in Requests : req'[s].lastSched = req[s].lastSched
  PROVE  FenceKept
<1>1. PICK B \in SUBSET free : free' = free \ B /\ owned' = [owned EXCEPT ![r] = @ \cup B]
  BY DEF Take, kSubset
<1>2. LoadingInv'
  BY LoadingSpared
<1>3. LastScheds' = LastScheds /\ FenceAccess' = FenceAccess
  BY SchedsStand, SameAccess
<1>4. UNCHANGED <<schedSeq, procSeq>>
  BY DEF seqs
<1>5. Fence!Allocate(r, B, {})
  BY <1>1, <1>3, <1>4 DEF Fence!Allocate
<1>6. B \in SUBSET Blocks /\ {} \in SUBSET Blocks
  BY DEF Shapes
<1>7. Fence!Next
  BY <1>5, <1>6 DEF Fence!Next
<1> QED
  BY <1>2, <1>7 DEF FenceKept

-------------------------------------------------------------------------------
(* schedule().                                                              *)

LEMMA ScheduleRoom ==
  ASSUME SeqInv, ScheduleNext
  PROVE  schedSeq < MaxSteps
<1>1. BeginSchedule \/ Scheduling
  BY ZenonT(60) DEF ScheduleNext, SkipRunning, ScheduleRunning, PreemptForBlocks, EndRunning, SkipWaiting,
     PromoteLoaded, AdmitRunning, EndWaiting, EndSchedule, AdmitLoad, BreakWaiting, MoreRunning,
     MoreWaiting, Scheduling
<1> QED
  BY <1>1, SMTT(60) DEF SeqInv, BeginSchedule

(* The requests that are passed, and the ends of the loops.                 *)
LEMMA PassedFence ==
  ASSUME BooksInv, LoadingInv, SeqInv,
         \/ BeginSchedule \/ SkipRunning \/ EndRunning \/ SkipWaiting \/ EndWaiting
         \/ \E ext \in LoadableTokens \cup {0} : BreakWaiting(ext)
  PROVE  FenceKept
<1>1. UNCHANGED <<req, requests, recv, failed, send, kv, seqs, inflight>>
  BY DEF BeginSchedule, SkipRunning, EndRunning, SkipWaiting, EndWaiting, BreakWaiting, xfer
<1>2. step'.received = {} /\ schedSeq < MaxSteps
  BY ScheduleReceives, ScheduleRoom DEF ScheduleNext
<1>3. SeqInv'
  BY <1>1, <1>2, SeqStands DEF seqs
<1> QED
  BY <1>1, <1>2, <1>3, SameAccess, StandsStill

LEMMA RunningFence ==
  ASSUME BooksInv, LoadingInv, SeqInv, ScheduleRunning
  PROVE  FenceKept
<1>1. Shapes /\ QueuesInv /\ AccountsInv /\ req \in [Requests -> RequestRecord]
  BY DEF BooksInv, ShapesInv, Shapes
<1>2. PICK r \in Requests : r = Current /\ r \in ToSet(running)
  BY <1>1, CurrentType DEF ScheduleRunning
<1>3. load[r] # "loading"
  <2>1. step.phase # "update"
    BY DEF ScheduleRunning, MoreRunning
  <2>2. req[r].status = "RUNNING"
    BY <1>1, <1>2, <2>1, RunningIs
  <2> QED
    BY <2>2 DEF LoadingInv
<1>4. req' = [req EXCEPT ![r] = WithSpec(req[r], 0)]
  BY <1>2 DEF ScheduleRunning, WithSpec
<1>5. WithSpec(req[r], 0).lastSched = req[r].lastSched
  BY <1>1, WithSpecIs DEF SamePipeline
<1>6. \A s \in Requests : req'[s].lastSched = req[s].lastSched
  BY <1>1, <1>4, <1>5
<1>7. Take(r, NeededRunning(r)) /\ UNCHANGED <<requests, recv, send, load, deferred, seqs, inflight>>
  BY <1>2 DEF ScheduleRunning, xfer
<1>8. step'.received = {} /\ schedSeq < MaxSteps
  BY ScheduleReceives, ScheduleRoom DEF ScheduleNext
<1>9. SpareLoading(r)
  BY <1>1, <1>4, <1>7, <1>8 DEF SpareLoading
<1>10. SeqInv'
  BY <1>7, <1>8, SeqStands DEF seqs
<1> QED
  BY <1>1, <1>3, <1>6, <1>7, <1>9, <1>10, TakesBlocks

(* Preempted by schedule() or by a reset.                                   *)
LEMMA PreemptFence ==
  ASSUME DeferBlockFree, BooksInv, LoadingInv, SeqInv, PreemptForBlocks \/ ResetPreempt
  PROVE  FenceKept
<1>1. Shapes /\ QueuesInv /\ AccountsInv /\ req \in [Requests -> RequestRecord]
  BY DEF BooksInv, ShapesInv, Shapes
<1>2. running # <<>> /\ running \in Seq(Requests) /\ step.phase # "update"
  BY <1>1, CurrentType DEF PreemptForBlocks, ResetPreempt, MoreRunning, Shapes
<1>3. PICK r \in Requests : r = Last(running) /\ r \in ToSet(running)
  BY <1>2, QueueFront
<1>4. load[r] # "loading"
  BY <1>1, <1>2, <1>3, RunningIs DEF LoadingInv
<1>5. PICK d \in BOOLEAN : PreemptRequest(r, d)
  BY <1>3, Parameters DEF PreemptForBlocks, ResetPreempt
<1>6. PICK t : t = PreemptedRequest(req[r], d) /\ req' = [req EXCEPT ![r] = t]
  BY <1>5 DEF PreemptRequest
<1>7. t.lastSched = req[r].lastSched
  BY <1>1, <1>6, PreemptedIs
<1>8. \A s \in Requests : req'[s].lastSched = req[s].lastSched
  BY <1>1, <1>6, <1>7
<1>9. FreeRequestBlocks(r) /\ UNCHANGED <<requests, recv, send, seqs, inflight>>
  BY <1>5 DEF PreemptRequest, PreemptForBlocks, ResetPreempt, xfer
<1>10. step'.received = step.received /\ (schedSeq < MaxSteps \/ ~Scheduling')
  <2>1. CASE PreemptForBlocks
    BY <2>1, ScheduleReceives, ScheduleRoom DEF ScheduleNext
  <2>2. CASE ResetPreempt
    BY <2>2 DEF ResetPreempt, Scheduling
  <2> QED
    BY <2>1, <2>2
<1>11. SpareLoading(r)
  BY <1>1, <1>6, <1>9, <1>10 DEF SpareLoading
<1>12. SeqInv'
  BY <1>9, <1>10, SeqStands DEF seqs
<1> QED
  BY <1>1, <1>4, <1>8, <1>9, <1>11, <1>12, SameAccess, FreesBlocks

(* A load is reported: what it loaded is kept, unless nothing of it is      *)
(* valid.                                                                   *)
LEMMA PromotedFence ==
  ASSUME BooksInv, LoadsInv, LoadingInv, SeqInv, PromoteLoaded
  PROVE  FenceKept
<1>1. Shapes /\ QueuesInv /\ AccountsInv /\ req \in [Requests -> RequestRecord]
  BY DEF BooksInv, ShapesInv, Shapes
<1>2. PICK r \in Requests : r = Candidate
  BY <1>1, CandidateType DEF PromoteLoaded
<1>3. r \in recv /\ req[r].status = "WAITING_FOR_REMOTE_KVS"
  BY <1>2 DEF PromoteLoaded
<1>4. load[r] = "loaded"
  <2>1. r \in requests
    BY <1>1, <1>3 DEF AccountsInv, Account, Unfinished
  <2>2. load[r] # "idle"
    BY <1>3, <2>1 DEF LoadsInv
  <2>3. load[r] # "loading"
    BY <1>3 DEF LoadingInv
  <2> QED
    BY <1>1, <2>2, <2>3 DEF Shapes
<1>5. PICK x \in Status, n \in Int : req' = [req EXCEPT ![r].status = x, ![r].computed = n]
  <2> DEFINE x == IF req[r].preempted THEN "PREEMPTED" ELSE "WAITING"
             n == IF r \notin failed /\ req[r].computed = req[r].all THEN req[r].all - 1
                  ELSE req[r].computed
  <2>1. req' = [req EXCEPT ![r].status = x, ![r].computed = n]
    BY <1>2 DEF PromoteLoaded
  <2>2. x \in Status /\ n \in Int
    BY <1>1, RequestTypes DEF Status
  <2> HIDE DEF x, n
  <2> QED
    BY <2>1, <2>2
<1>6. PICK t : t = WithAdmission(req[r], x, n) /\ req' = [req EXCEPT ![r] = t]
  BY <1>1, <1>5 DEF WithAdmission
<1>7. t.lastSched = req[r].lastSched
  BY <1>1, <1>6, WithAdmissionIs DEF SamePipeline
<1>8. \A s \in Requests : req'[s].lastSched = req[s].lastSched
  BY <1>1, <1>6, <1>7
<1>9. recv' \subseteq recv /\ UNCHANGED <<requests, send, seqs, inflight, deferred>>
  BY DEF PromoteLoaded
<1>10. step'.received = {} /\ schedSeq < MaxSteps
  BY ScheduleReceives, ScheduleRoom DEF ScheduleNext
<1>11. SpareLoading(r)
  BY <1>1, <1>6, <1>9, <1>10 DEF SpareLoading
<1>12. SeqInv'
  BY <1>9, <1>10, SeqStands DEF seqs
<1>13. LastScheds' = LastScheds /\ FenceAccess' = FenceAccess
  BY <1>8, <1>9, SchedsStand, SameAccess
<1>14. \/ UNCHANGED <<free, owned, load>>
       \/ /\ free' = free \cup owned[r] /\ owned' = [owned EXCEPT ![r] = {}]
          /\ load' = [load EXCEPT ![r] = "idle"]
  BY <1>2 DEF PromoteLoaded
<1>15. LoadingInv'
  <2>1. load'[r] # "loading" /\ \A s \in Requests \ {r} : load'[s] = load[s]
    BY <1>1, <1>4, <1>14 DEF Shapes
  <2> QED
    BY <1>11, <2>1, LoadingSpared
<1>16. CASE UNCHANGED <<free, owned, load>>
  <2>1. UNCHANGED Fence!vars
    BY <1>9, <1>13, <1>16 DEF Fence!vars, seqs
  <2> QED
    BY <1>12, <1>15, <2>1 DEF FenceKept
<1>17. CASE /\ free' = free \cup owned[r] /\ owned' = [owned EXCEPT ![r] = {}]
            /\ load' = [load EXCEPT ![r] = "idle"]
  <2>1. Fence!FreeFailedLoad(r)
    BY <1>4, <1>9, <1>13, <1>17 DEF Fence!FreeFailedLoad, seqs
  <2>2. Fence!Next
    BY <2>1 DEF Fence!Next
  <2> QED
    BY <1>12, <1>15, <2>2 DEF FenceKept
<1> QED
  BY <1>14, <1>16, <1>17
(* Who has blocks for a token has a block.                                  *)
LEMMA BlocksForSome ==
  ASSUME NEW n \in Int, n > 0, NEW S, BlocksFor(n) <= Cardinality(S)
  PROVE  S # {}
<1>1. PICK b \in Nat \ {0}, l \in Nat \ {0} : b = BlockSize /\ l = MaxModelLen
  BY Parameters
<1>2. PICK q \in Int : q = BlocksFor(n)
  BY BlocksForIs
<1>3. Least(n, l) >= 1 /\ Least(n, l) \in Int
  BY DEF Least
<1>4. b < b * q + b
  BY <1>1, <1>2, <1>3, BlocksForIs
<1>5. b * 0 < b * q
  BY <1>4
<1>6. q > 0
  BY <1>5
<1>7. Cardinality({}) = 0
  BY FS_EmptySet
<1> QED
  BY <1>2, <1>6, <1>7

(* The connector starts to fill a table that no step in flight has.         *)
LEMMA LoadingFence ==
  ASSUME BooksInv, BackedInv, LoadingInv, SeqInv, NEW ext \in LoadableTokens, AdmitLoad(ext)
  PROVE  FenceKept
<1>1. /\ ShapesInv /\ Shapes /\ QueuesInv /\ AccountsInv /\ req \in [Requests -> RequestRecord]
      /\ owned \in [Requests -> SUBSET Blocks] /\ load \in [Requests -> {"idle", "loading", "loaded"}]
  BY DEF BooksInv, ShapesInv, Shapes
<1>2. PICK r \in Requests : r = Candidate
  BY <1>1, CandidateType DEF AdmitLoad
<1>3. r \in requests /\ Account(r)
  BY <1>1, <1>2, WaitingIs DEF AdmitLoad
<1>4. req[r].status \in {"WAITING", "PREEMPTED"}
  BY <1>2 DEF AdmitLoad, Admissible
<1>5. load[r] # "loading" /\ (load[r] = "idle" => owned[r] = {}) /\ r \notin recv /\ send[r] = "none"
  <2>1. load[r] # "loading" /\ r \notin recv /\ send[r] = "none"
    BY <1>1, <1>3, <1>4, NothingSent DEF LoadingInv, Account
  <2> QED
    BY <1>1, <1>3, <1>4, <2>1 DEF BackedInv, Backed
<1>6. PICK n \in Int : n = ext /\ n > 0
  <2>1. ext \in Nat /\ ext # 0
    BY Parameters DEF AdmitLoad
  <2> QED
    BY <2>1
<1>7. Take(r, Needed(r, n))
  BY <1>2, <1>6 DEF AdmitLoad
<1>8. owned'[r] # {}
  BY <1>1, <1>6, <1>7, TakenCovers, BlocksForSome
<1>9. PICK B \in SUBSET free : free' = free \ B /\ owned' = [owned EXCEPT ![r] = @ \cup B]
  BY <1>7 DEF Take, kSubset
<1>10. owned[r] \cup B # {}
  BY <1>1, <1>8, <1>9
<1>11. load' = [load EXCEPT ![r] = "loading"] /\ UNCHANGED <<requests, recv, send, deferred, seqs, inflight>>
  BY <1>2 DEF AdmitLoad, xfer
<1>12. step'.received = {} /\ schedSeq < MaxSteps
  BY ScheduleReceives, ScheduleRoom DEF ScheduleNext
<1>13. req' = [req EXCEPT ![r].status = "WAITING_FOR_REMOTE_KVS", ![r].computed = n]
  BY <1>2, <1>6 DEF AdmitLoad
<1>14. PICK t : t = WithAdmission(req[r], "WAITING_FOR_REMOTE_KVS", n) /\ req' = [req EXCEPT ![r] = t]
  BY <1>1, <1>13 DEF WithAdmission
<1>15. t.lastSched = req[r].lastSched /\ t.status = "WAITING_FOR_REMOTE_KVS"
  <2>1. "WAITING_FOR_REMOTE_KVS" \in Status
    BY DEF Status, Blocked
  <2> QED
    BY <1>1, <1>14, <2>1, WithAdmissionIs DEF SamePipeline
<1>16. /\ \A s \in Requests : req'[s].lastSched = req[s].lastSched
       /\ req'[r].status = "WAITING_FOR_REMOTE_KVS"
       /\ \A s \in Requests \ {r} : req'[s] = req[s] /\ load'[s] = load[s]
  BY <1>1, <1>11, <1>14, <1>15
<1>17. SeqInv'
  BY <1>11, <1>12, SeqStands DEF seqs
<1>18. LoadingInv'
  BY <1>3, <1>5, <1>11, <1>12, <1>16 DEF LoadingInv
<1>19. LastScheds' = LastScheds /\ FenceAccess' = FenceAccess
  BY <1>11, <1>16, SchedsStand, SameAccess
<1>20. Fence!BeginLoad(r, B)
  BY <1>5, <1>9, <1>10, <1>11, <1>19 DEF Fence!BeginLoad, seqs
<1>21. Fence!Next
  <2>1. B \in SUBSET Blocks
    BY <1>1 DEF Shapes
  <2> QED
    BY <1>20, <2>1 DEF Fence!Next
<1> QED
  BY <1>17, <1>18, <1>21 DEF FenceKept

LEMMA AdmittedFence ==
  ASSUME BooksInv, LoadingInv, SeqInv, AdmitRunning
  PROVE  FenceKept
<1>1. Shapes /\ req \in [Requests -> RequestRecord]
  BY DEF BooksInv, ShapesInv, Shapes
<1>2. PICK r \in Requests : r = Candidate
  BY <1>1, CandidateType DEF AdmitRunning
<1>3. load[r] # "loading"
  BY <1>2 DEF AdmitRunning, Admissible, LoadingInv
<1>4. PICK n : Take(r, n)
  BY <1>2 DEF AdmitRunning
<1>5. PICK t : t = WithStatus(req[r], "RUNNING") /\ req' = [req EXCEPT ![r] = t]
  BY <1>2 DEF AdmitRunning, WithStatus
<1>6. t.lastSched = req[r].lastSched
  BY <1>1, <1>5, WithStatusIs DEF SamePipeline, Status
<1>7. \A s \in Requests : req'[s].lastSched = req[s].lastSched
  BY <1>1, <1>5, <1>6
<1>8. UNCHANGED <<requests, recv, send, load, deferred, seqs, inflight>>
  BY DEF AdmitRunning, xfer
<1>9. step'.received = {} /\ schedSeq < MaxSteps
  BY ScheduleReceives, ScheduleRoom DEF ScheduleNext
<1>10. SpareLoading(r)
  BY <1>1, <1>5, <1>8, <1>9 DEF SpareLoading
<1>11. SeqInv'
  BY <1>8, <1>9, SeqStands DEF seqs
<1> QED
  BY <1>1, <1>3, <1>4, <1>7, <1>8, <1>10, <1>11, TakesBlocks

(* Who is in the step that is emitted has blocks, and no load.              *)
LEMMA EmittedRequests ==
  ASSUME BooksInv, BackedInv, LoadingInv, NEW r \in BatchIds(step.batch)
  PROVE  r \in Requests /\ load[r] # "loading" /\ owned[r] # {}
<1>1. Shapes /\ AccountsInv /\ req \in [Requests -> RequestRecord]
  BY DEF BooksInv, ShapesInv, Shapes
<1>2. PICK b \in Seq(BatchEntry) : b = step.batch
  BY <1>1, LocalsTypes DEF Shapes
<1>3. StepOf(b) /\ r \in BatchIds(b)
  BY <1>1, <1>2 DEF StepOf, AccountsInv, BatchInv
<1>4. PICK e \in BatchEntry : e = EntryOf(b, r)
  BY <1>3, SlotOfMember
<1>5. SlotTokens(b, r) = e.n /\ e.n > 0 /\ e.r = r /\ \E i \in DOMAIN b : b[i] = e
  BY <1>3, <1>4, SlotOfMember
<1>6. Promised(e) /\ e.n \in Int /\ r \in Requests
  BY <1>1, <1>2, <1>5 DEF AccountsInv, BatchInv, BatchEntry
<1>7. r \in Unfinished /\ req[r].status = "RUNNING"
  BY <1>5, <1>6 DEF Promised
<1>8. req[r].computed >= 0 /\ req[r].computed \in Int
  <2>1. Account(r)
    BY <1>1, <1>6 DEF AccountsInv
  <2> QED
    BY <1>7, <2>1, Parameters DEF Account, Bounded
<1>9. PICK n \in Int : n = Covered(r) /\ n > 0
  BY <1>2, <1>5, <1>6, <1>8 DEF Covered
<1>10. BlocksFor(n) <= Cardinality(owned[r])
  BY <1>6, <1>7, <1>9 DEF BackedInv, Backed, Unfinished
<1>11. owned[r] # {}
  BY <1>9, <1>10, BlocksForSome
<1> QED
  BY <1>6, <1>7, <1>11 DEF LoadingInv

(* A step is put behind those in flight.                                    *)
LEMMA StepAppended ==
  ASSUME inflight \in Seq(DispatchedStep), NEW d \in DispatchedStep, inflight' = Append(inflight, d)
  PROVE  /\ DOMAIN inflight' = DOMAIN inflight \cup {Len(inflight) + 1}
         /\ \A i \in DOMAIN inflight : inflight'[i] = inflight[i] /\ i < Len(inflight) + 1
         /\ inflight'[Len(inflight) + 1] = d /\ Len(inflight) \in Nat
         /\ DOMAIN inflight \subseteq Nat
OBVIOUS

LEMMA AccessGrows ==
  ASSUME inflight \in Seq(DispatchedStep), NEW d \in DispatchedStep, inflight' = Append(inflight, d)
  PROVE  \A s \in 1 .. MaxSteps + 1 :
            FenceAccess'[s] = IF d.seq = s THEN FenceAccess[s] \cup d.writes ELSE FenceAccess[s]
<1> DEFINE n == Len(inflight) + 1
<1>1. /\ DOMAIN inflight' = DOMAIN inflight \cup {n} /\ inflight'[n] = d
      /\ \A i \in DOMAIN inflight : inflight'[i] = inflight[i]
  BY StepAppended
<1> HIDE DEF n
<1>2. ASSUME NEW s \in 1 .. MaxSteps + 1
      PROVE  StepWrites(s)' = IF d.seq = s THEN StepWrites(s) \cup d.writes ELSE StepWrites(s)
  <2>1. \A x : x \in StepWrites(s) <=> \E i \in DOMAIN inflight : inflight[i].seq = s /\ x \in inflight[i].writes
    BY DEF StepWrites
  <2>2. \A x : x \in StepWrites(s)' <=> \E i \in DOMAIN inflight' : inflight'[i].seq = s /\ x \in inflight'[i].writes
    BY DEF StepWrites
  <2>3. ASSUME NEW x
        PROVE  x \in StepWrites(s)' <=> x \in StepWrites(s) \/ (d.seq = s /\ x \in d.writes)
    <3>1. CASE \E i \in DOMAIN inflight : inflight[i].seq = s /\ x \in inflight[i].writes
      BY <1>1, <2>1, <2>2, <3>1
    <3>2. CASE ~\E i \in DOMAIN inflight : inflight[i].seq = s /\ x \in inflight[i].writes
      BY <1>1, <2>1, <2>2, <3>2
    <3> QED
      BY <3>1, <3>2
  <2>4. CASE d.seq = s
    BY <2>3, <2>4
  <2>5. CASE d.seq # s
    BY <2>3, <2>5
  <2> QED
    BY <2>4, <2>5
<1> QED
  BY <1>2 DEF FenceAccess

LEMMA SeqGrows ==
  ASSUME Shapes, SeqInv, schedSeq < MaxSteps, ~Scheduling',
         NEW d \in DispatchedStep, inflight' = Append(inflight, d), procSeq' = procSeq,
         IF d.batch = <<>> THEN d.writes = {} /\ schedSeq' = schedSeq
         ELSE schedSeq' = schedSeq + 1 /\ d.seq = schedSeq'
  PROVE  SeqInv'
<1>1. /\ inflight \in Seq(DispatchedStep) /\ schedSeq \in Nat /\ procSeq \in Nat /\ MaxSteps \in Nat
  BY Parameters DEF Shapes
<1>2. PICK n \in Nat : n = Len(inflight) + 1
  BY <1>1
<1>3. /\ DOMAIN inflight' = DOMAIN inflight \cup {n} /\ inflight'[n] = d
      /\ \A i \in DOMAIN inflight : inflight'[i] = inflight[i] /\ i < n
      /\ DOMAIN inflight \subseteq Nat
  BY <1>1, <1>2, StepAppended
<1>4. /\ procSeq <= schedSeq
      /\ \A i \in DOMAIN inflight :
            IF inflight[i].batch = <<>> THEN inflight[i].writes = {}
            ELSE inflight[i].seq \in procSeq + 1 .. schedSeq
      /\ \A i, j \in DOMAIN inflight :
            i < j /\ inflight[i].batch # <<>> /\ inflight[j].batch # <<>> => inflight[i].seq < inflight[j].seq
      /\ \A s \in procSeq + 1 .. schedSeq :
            \E i \in DOMAIN inflight : inflight[i].batch # <<>> /\ inflight[i].seq = s
  BY DEF SeqInv
<1>5. /\ schedSeq' \in Nat /\ schedSeq <= schedSeq' /\ schedSeq' <= MaxSteps
      /\ procSeq' <= schedSeq'
  BY <1>1, <1>4
<1>6. ASSUME NEW i \in DOMAIN inflight'
      PROVE  IF inflight'[i].batch = <<>> THEN inflight'[i].writes = {}
             ELSE inflight'[i].seq \in procSeq' + 1 .. schedSeq'
  <2>1. CASE i \in DOMAIN inflight
    BY <1>1, <1>3, <1>4, <1>5, <2>1
  <2>2. CASE i = n
    BY <1>1, <1>3, <1>4, <2>2
  <2> QED
    BY <1>3, <2>1, <2>2
<1>7. ASSUME NEW i \in DOMAIN inflight', NEW j \in DOMAIN inflight', i < j,
             inflight'[i].batch # <<>>, inflight'[j].batch # <<>>
      PROVE  inflight'[i].seq < inflight'[j].seq
  <2>1. i \in DOMAIN inflight
    BY <1>3, <1>7
  <2>2. CASE j \in DOMAIN inflight
    BY <1>3, <1>4, <1>7, <2>1, <2>2
  <2>3. CASE j = n
    BY <1>1, <1>3, <1>4, <1>7, <2>1, <2>3, SMTT(60)
  <2> QED
    BY <1>3, <2>2, <2>3
<1>8. ASSUME NEW s \in procSeq' + 1 .. schedSeq'
      PROVE  \E i \in DOMAIN inflight' : inflight'[i].batch # <<>> /\ inflight'[i].seq = s
  <2>1. CASE s \in procSeq + 1 .. schedSeq
    <3>1. PICK i \in DOMAIN inflight : inflight[i].batch # <<>> /\ inflight[i].seq = s
      BY <1>4, <2>1
    <3> QED
      BY <1>3, <3>1
  <2>2. CASE s \notin procSeq + 1 .. schedSeq
    <3>1. d.batch # <<>> /\ s = d.seq
      BY <1>1, <1>8, <2>2
    <3> QED
      BY <1>3, <3>1
  <2> QED
    BY <2>1, <2>2
<1> QED
  BY <1>5, <1>6, <1>7, <1>8 DEF SeqInv

(* The end of schedule() dispatches the step.                               *)
LEMMA EmittedFence ==
  ASSUME DeferBlockFree, BooksInv, BooksInv', BackedInv, LoadingInv, SeqInv, EndSchedule
  PROVE  FenceKept
<1>1. /\ Shapes /\ Shapes' /\ req \in [Requests -> RequestRecord] /\ inflight \in Seq(DispatchedStep)
      /\ schedSeq \in Nat /\ procSeq \in Nat /\ MaxSteps \in Nat /\ owned \in [Requests -> SUBSET Blocks]
  BY Parameters DEF BooksInv, ShapesInv, Shapes
<1>2. PICK b \in Seq(BatchEntry) : b = step.batch
  BY <1>1, LocalsTypes DEF Shapes
<1>3. PICK S \in SUBSET Requests : S = BatchIds(b)
  BY <1>2, BatchIdsType
<1>4. \A r \in S : load[r] # "loading" /\ owned[r] # {}
  BY <1>2, <1>3, EmittedRequests, SMTT(60)
<1>5. schedSeq < MaxSteps /\ step'.received = {} /\ step' = Idle
  BY ScheduleReceives, ScheduleRoom DEF ScheduleNext, EndSchedule
<1>6. S = {} <=> b = <<>>
  <2>1. S = {} <=> DOMAIN b = {}
    BY <1>3 DEF BatchIds
  <2>2. DOMAIN b = 1 .. Len(b) /\ Len(b) \in Nat /\ (b = <<>> <=> Len(b) = 0)
    BY <1>2
  <2> QED
    BY <2>1, <2>2, SMTT(60)
<1>7. PICK n \in Nat : n = IF S = {} THEN schedSeq ELSE schedSeq + 1
  <2>1. schedSeq \in Nat /\ schedSeq + 1 \in Nat
    BY <1>1
  <2> QED
    BY <2>1
<1>8. PICK w \in SUBSET Blocks : w = UNION {owned[r] : r \in S}
  BY <1>1, <1>3, ZenonT(60)
<1>9. /\ schedSeq' = n
      /\ load' = [r \in Requests |-> IF r \in S THEN "idle" ELSE load[r]]
      /\ UNCHANGED <<requests, recv, send, free, owned, deferred, procSeq>>
  BY <1>2, <1>3, <1>7, SMTT(60) DEF EndSchedule, xfer
<1>10. \A r \in Requests : req'[r] = IF r \in S THEN AfterSchedule(req[r], EntryOf(b, r), n) ELSE req[r]
  BY <1>2, <1>3, <1>7 DEF EndSchedule
<1>11. PICK d : /\ inflight' = Append(inflight, d) /\ d.seq = n /\ d.writes = w
                /\ DOMAIN d.batch = DOMAIN b
  <2> DEFINE After(r) == IF r \in S THEN AfterSchedule(req[r], EntryOf(b, r), n) ELSE req[r]
             c == [i \in DOMAIN b |-> [b[i] EXCEPT !.samples = ~After(b[i].r).chunk]]
  <2>1. inflight' = Append(inflight, [seq |-> n, writes |-> w, batch |-> c])
    BY <1>2, <1>3, <1>7, <1>8, ZenonT(60) DEF EndSchedule
  <2>2. DOMAIN c = DOMAIN b
    OBVIOUS
  <2> HIDE DEF c
  <2> QED
    BY <2>1, <2>2, SMTT(60)
<1>12. d \in DispatchedStep /\ (d.batch = <<>> <=> S = {})
  <2>1. inflight' \in Seq(DispatchedStep)
    BY <1>1 DEF Shapes
  <2>2. Len(inflight') = Len(inflight) + 1 /\ inflight'[Len(inflight) + 1] = d
    BY <1>1, <1>11
  <2>3. d \in DispatchedStep
    BY <1>1, <2>1, <2>2
  <2>4. d.batch \in Seq(BatchEntry)
    BY <2>3 DEF DispatchedStep
  <2> QED
    BY <1>2, <1>6, <1>11, <2>3, <2>4
<1>13. SeqInv'
  <2>1. ~Scheduling'
    BY <1>5 DEF Scheduling, Idle
  <2>2. S = {} => w = {}
    BY <1>8
  <2> QED
    BY <1>1, <1>5, <1>7, <1>9, <1>11, <1>12, <2>1, <2>2, SeqGrows
<1>14. LoadingInv'
  BY <1>5, <1>9, <1>10 DEF LoadingInv
<1>15. LastScheds' = [r \in Requests |-> IF r \in S THEN schedSeq' ELSE LastScheds[r]]
  <2>1. ASSUME NEW r \in Requests
        PROVE  req'[r].lastSched = IF r \in S THEN n ELSE req[r].lastSched
    <3>1. CASE r \in S
      <4>1. PICK e \in BatchEntry : e = EntryOf(b, r)
        BY <1>2, <1>3, <3>1, EntryOfIs
      <4>2. AfterSchedule(req[r], e, n).lastSched = n
        BY <1>1, AfterScheduleIs
      <4> QED
        BY <1>10, <3>1, <4>1, <4>2
    <3>2. CASE r \notin S
      BY <1>10, <3>2
    <3> QED
      BY <3>1, <3>2
  <2> QED
    BY <1>9, <2>1 DEF LastScheds
<1>16. FenceAccess' = [FenceAccess EXCEPT ![schedSeq + 1] = @ \cup {} \cup w]
  <2>1. \A s \in 1 .. MaxSteps + 1 :
            FenceAccess'[s] = IF n = s THEN FenceAccess[s] \cup w ELSE FenceAccess[s]
    BY <1>1, <1>11, <1>12, AccessGrows
  <2>2. S = {} => w = {}
    BY <1>8
  <2>3. \A s \in 1 .. MaxSteps + 1 :
            FenceAccess'[s] = IF s = schedSeq + 1 THEN FenceAccess[s] \cup w ELSE FenceAccess[s]
    BY <1>7, <2>1, <2>2
  <2>4. FenceAccess = [s \in 1 .. MaxSteps + 1 |-> FenceAccess[s]]
    BY DEF FenceAccess
  <2>5. FenceAccess' = [s \in 1 .. MaxSteps + 1 |-> FenceAccess'[s]]
    BY DEF FenceAccess
  <2> QED
    BY <2>3, <2>4, <2>5
<1>17. Fence!Dispatch(S)
  BY <1>4, <1>5, <1>7, <1>8, <1>9, <1>15, <1>16 DEF Fence!Dispatch
<1>18. Fence!Next
  BY <1>17 DEF Fence!Next
<1> QED
  BY <1>13, <1>14, <1>18 DEF FenceKept

LEMMA ScheduleFence ==
  ASSUME DeferBlockFree, BooksInv, BooksInv', LoadsInv, BackedInv, LoadingInv, SeqInv, ScheduleNext
  PROVE  FenceKept
BY PassedFence, RunningFence, PreemptFence, PromotedFence, LoadingFence, AdmittedFence, EmittedFence
   DEF ScheduleNext

-------------------------------------------------------------------------------
(* update_from_output.                                                      *)

(* The oldest step leaves: if it has requests it is the next to process.    *)
LEMMA HeadIs ==
  ASSUME Shapes, SeqInv, inflight # <<>>, NEW d, d = Head(inflight)
  PROVE  /\ d \in DispatchedStep
         /\ d.batch = <<>> => d.writes = {}
         /\ d.batch # <<>> =>
              /\ d.seq = procSeq + 1 /\ procSeq < schedSeq
              /\ \A i \in DOMAIN inflight : i # 1 /\ inflight[i].batch # <<>> => d.seq < inflight[i].seq
<1>1. inflight \in Seq(DispatchedStep) /\ schedSeq \in Nat /\ procSeq \in Nat
  BY DEF Shapes
<1>2. 1 \in DOMAIN inflight /\ d = inflight[1] /\ d \in DispatchedStep /\ DOMAIN inflight \subseteq Nat \ {0}
  BY <1>1
<1>3. d.batch = <<>> => d.writes = {}
  BY <1>2 DEF SeqInv
<1>4. ASSUME d.batch # <<>>
      PROVE  /\ d.seq = procSeq + 1 /\ procSeq < schedSeq
             /\ \A i \in DOMAIN inflight : i # 1 /\ inflight[i].batch # <<>> => d.seq < inflight[i].seq
  <2>1. d.seq \in procSeq + 1 .. schedSeq
    BY <1>2, <1>4 DEF SeqInv
  <2>2. \A i \in DOMAIN inflight : i # 1 /\ inflight[i].batch # <<>> => d.seq < inflight[i].seq
    <3> SUFFICES ASSUME NEW i \in DOMAIN inflight, i # 1, inflight[i].batch # <<>>
                 PROVE  d.seq < inflight[i].seq
      OBVIOUS
    <3>1. 1 < i
      BY <1>2
    <3> QED
      BY <1>2, <1>4, <3>1 DEF SeqInv
  <2>3. procSeq + 1 \in procSeq + 1 .. schedSeq
    BY <1>1, <2>1
  <2>4. PICK i \in DOMAIN inflight : inflight[i].batch # <<>> /\ inflight[i].seq = procSeq + 1
    BY <2>3 DEF SeqInv
  <2>5. d.seq = procSeq + 1
    BY <1>1, <1>2, <2>1, <2>2, <2>4
  <2> QED
    BY <1>1, <2>1, <2>2, <2>5
<1> QED
  BY <1>2, <1>3, <1>4

LEMMA StepRemoved ==
  ASSUME inflight \in Seq(DispatchedStep), inflight # <<>>, inflight' = Tail(inflight)
  PROVE  /\ \A i \in DOMAIN inflight' :
              i + 1 \in DOMAIN inflight /\ i + 1 # 1 /\ i \in Nat /\ inflight'[i] = inflight[i + 1]
         /\ \A i \in DOMAIN inflight : i # 1 => i - 1 \in DOMAIN inflight' /\ inflight'[i - 1] = inflight[i]
         /\ 1 \in DOMAIN inflight /\ Head(inflight) = inflight[1]
         /\ DOMAIN inflight \subseteq Nat
OBVIOUS

LEMMA SeqShrinks ==
  ASSUME Shapes, SeqInv, inflight # <<>>, inflight' = Tail(inflight), schedSeq' = schedSeq,
         procSeq' = IF Head(inflight).batch = <<>> THEN procSeq ELSE procSeq + 1, ~Scheduling'
  PROVE  SeqInv'
<1>1. inflight \in Seq(DispatchedStep) /\ schedSeq \in Nat /\ procSeq \in Nat
  BY DEF Shapes
<1>2. PICK d : d = Head(inflight)
  OBVIOUS
<1>3. /\ d \in DispatchedStep
      /\ d.batch # <<>> =>
            /\ d.seq = procSeq + 1 /\ procSeq < schedSeq
            /\ \A i \in DOMAIN inflight : i # 1 /\ inflight[i].batch # <<>> => d.seq < inflight[i].seq
  BY <1>2, HeadIs
<1>4. /\ \A i \in DOMAIN inflight' :
           i + 1 \in DOMAIN inflight /\ i + 1 # 1 /\ i \in Nat /\ inflight'[i] = inflight[i + 1]
      /\ \A i \in DOMAIN inflight : i # 1 => i - 1 \in DOMAIN inflight' /\ inflight'[i - 1] = inflight[i]
      /\ d = inflight[1] /\ DOMAIN inflight \subseteq Nat
  BY <1>1, <1>2, StepRemoved
<1>5. procSeq' = (IF d.batch = <<>> THEN procSeq ELSE procSeq + 1) /\ procSeq' \in Nat /\ schedSeq' = schedSeq
  BY <1>1, <1>2
<1>6. /\ procSeq <= schedSeq /\ schedSeq <= MaxSteps
      /\ \A i \in DOMAIN inflight :
            IF inflight[i].batch = <<>> THEN inflight[i].writes = {}
            ELSE inflight[i].seq \in procSeq + 1 .. schedSeq
      /\ \A i, j \in DOMAIN inflight :
            i < j /\ inflight[i].batch # <<>> /\ inflight[j].batch # <<>> => inflight[i].seq < inflight[j].seq
      /\ \A s \in procSeq + 1 .. schedSeq :
            \E i \in DOMAIN inflight : inflight[i].batch # <<>> /\ inflight[i].seq = s
  BY DEF SeqInv
<1>7. procSeq' <= schedSeq' /\ schedSeq' <= MaxSteps
  BY <1>1, <1>3, <1>5, <1>6
<1>8. ASSUME NEW i \in DOMAIN inflight'
      PROVE  IF inflight'[i].batch = <<>> THEN inflight'[i].writes = {}
             ELSE inflight'[i].seq \in procSeq' + 1 .. schedSeq'
  <2>1. PICK j \in DOMAIN inflight : j # 1 /\ inflight'[i] = inflight[j]
    BY <1>4
  <2>2. CASE inflight[j].batch = <<>>
    BY <1>6, <2>1, <2>2
  <2>3. CASE inflight[j].batch # <<>>
    <3>1. PICK s \in procSeq + 1 .. schedSeq : s = inflight[j].seq
      BY <1>6, <2>3
    <3>2. d.batch # <<>> => d.seq = procSeq + 1 /\ d.seq < s
      BY <1>3, <2>1, <2>3, <3>1
    <3>3. s \in procSeq' + 1 .. schedSeq'
      BY <1>1, <1>5, <3>2
    <3> QED
      BY <2>1, <2>3, <3>1, <3>3
  <2> QED
    BY <2>2, <2>3
<1>9. ASSUME NEW i \in DOMAIN inflight', NEW j \in DOMAIN inflight', i < j,
             inflight'[i].batch # <<>>, inflight'[j].batch # <<>>
      PROVE  inflight'[i].seq < inflight'[j].seq
  <2>1. /\ i + 1 \in DOMAIN inflight /\ inflight'[i] = inflight[i + 1]
        /\ j + 1 \in DOMAIN inflight /\ inflight'[j] = inflight[j + 1] /\ i \in Nat /\ j \in Nat
    BY <1>4
  <2>2. i + 1 < j + 1
    BY <1>9, <2>1
  <2> QED
    BY <1>6, <1>9, <2>1, <2>2
<1>10. ASSUME NEW s \in procSeq' + 1 .. schedSeq'
       PROVE  \E i \in DOMAIN inflight' : inflight'[i].batch # <<>> /\ inflight'[i].seq = s
  <2>1. s \in procSeq + 1 .. schedSeq
    BY <1>1, <1>5, <1>10
  <2>2. PICK i \in DOMAIN inflight : inflight[i].batch # <<>> /\ inflight[i].seq = s
    BY <1>6, <2>1
  <2>3. i # 1
    <3>1. CASE d.batch = <<>>
      BY <1>4, <2>2, <3>1
    <3>2. CASE d.batch # <<>>
      <4>1. s # procSeq + 1
        BY <1>1, <1>5, <1>10, <3>2
      <4> QED
        BY <1>3, <1>4, <2>2, <3>2, <4>1
    <3> QED
      BY <3>1, <3>2
  <2>4. i - 1 \in DOMAIN inflight' /\ inflight'[i - 1] = inflight[i]
    BY <1>4, <2>3
  <2> QED
    BY <2>2, <2>4
<1> QED
  BY <1>7, <1>8, <1>9, <1>10 DEF SeqInv

(* The step that leaves takes its writes with it, and no other's.           *)
LEMMA AccessShrinks ==
  ASSUME Shapes, SeqInv, inflight # <<>>, inflight' = Tail(inflight)
  PROVE  \A s \in 1 .. MaxSteps + 1 :
            FenceAccess'[s] = IF Head(inflight).batch # <<>> /\ s = procSeq + 1 THEN {} ELSE FenceAccess[s]
<1>1. inflight \in Seq(DispatchedStep) /\ procSeq \in Nat
  BY DEF Shapes
<1>2. PICK d : d = Head(inflight)
  OBVIOUS
<1>3. /\ d.batch = <<>> => d.writes = {}
      /\ d.batch # <<>> =>
            /\ d.seq = procSeq + 1
            /\ \A i \in DOMAIN inflight : i # 1 /\ inflight[i].batch # <<>> => d.seq < inflight[i].seq
  BY <1>2, HeadIs
<1>4. /\ \A i \in DOMAIN inflight' :
           i + 1 \in DOMAIN inflight /\ i + 1 # 1 /\ i \in Nat /\ inflight'[i] = inflight[i + 1]
      /\ \A i \in DOMAIN inflight : i # 1 => i - 1 \in DOMAIN inflight' /\ inflight'[i - 1] = inflight[i]
      /\ d = inflight[1]
  BY <1>1, <1>2, StepRemoved
<1>5. ASSUME NEW s \in 1 .. MaxSteps + 1
      PROVE  StepWrites(s)' = IF d.batch # <<>> /\ s = procSeq + 1 THEN {} ELSE StepWrites(s)
  <2>1. \A x : x \in StepWrites(s) <=> \E i \in DOMAIN inflight : inflight[i].seq = s /\ x \in inflight[i].writes
    BY DEF StepWrites
  <2>2. \A x : x \in StepWrites(s)' <=> \E i \in DOMAIN inflight' : inflight'[i].seq = s /\ x \in inflight'[i].writes
    BY DEF StepWrites
  <2>3. CASE d.batch # <<>> /\ s = procSeq + 1
    <3>1. ASSUME NEW i \in DOMAIN inflight', inflight'[i].seq = s PROVE inflight'[i].writes = {}
      <4>1. PICK j \in DOMAIN inflight : j # 1 /\ inflight'[i] = inflight[j]
        BY <1>4
      <4>2. inflight[j].batch = <<>>
        <5>1. ~(s < s)
          OBVIOUS
        <5> QED
          BY <1>3, <2>3, <3>1, <4>1, <5>1
      <4> QED
        BY <4>1, <4>2 DEF SeqInv
    <3> QED
      BY <2>2, <2>3, <3>1
  <2>4. CASE ~(d.batch # <<>> /\ s = procSeq + 1)
    <3>1. d.seq # s \/ d.writes = {}
      BY <1>3, <2>4
    <3>2. ASSUME NEW x, x \in StepWrites(s) PROVE x \in StepWrites(s)'
      <4>1. PICK i \in DOMAIN inflight : inflight[i].seq = s /\ x \in inflight[i].writes
        BY <2>1, <3>2
      <4>2. i # 1
        BY <1>4, <3>1, <4>1
      <4>3. i - 1 \in DOMAIN inflight' /\ inflight'[i - 1] = inflight[i]
        BY <1>4, <4>2
      <4> QED
        BY <2>2, <4>1, <4>3
    <3>3. ASSUME NEW x, x \in StepWrites(s)' PROVE x \in StepWrites(s)
      <4>1. PICK i \in DOMAIN inflight' : inflight'[i].seq = s /\ x \in inflight'[i].writes
        BY <2>2, <3>3
      <4>2. i + 1 \in DOMAIN inflight /\ inflight'[i] = inflight[i + 1]
        BY <1>4
      <4> QED
        BY <2>1, <4>1, <4>2
    <3>4. StepWrites(s)' = StepWrites(s)
      BY <3>2, <3>3
    <3> QED
      BY <2>4, <3>4
  <2> QED
    BY <2>3, <2>4
<1> QED
  BY <1>2, <1>5 DEF FenceAccess
(* The blocks whose fence is passed go back to the pool.                    *)
LEMMA BegunFence ==
  ASSUME DeferBlockFree, BooksInv, NoSessions, LoadingInv, SeqInv, BeginUpdate
  PROVE  FenceKept
<1>1. Shapes /\ req \in [Requests -> RequestRecord]
  BY DEF BooksInv, ShapesInv, Shapes
<1>2. /\ inflight # <<>> /\ inflight' = Tail(inflight)
      /\ UNCHANGED <<requests, recv, send, owned, load, schedSeq>>
  BY DEF BeginUpdate
<1>3. PICK d : d = Head(inflight)
  OBVIOUS
<1>4. step'.phase = "update" /\ step'.received = Reported
  BY DEF BeginUpdate, Idle
<1>5. \A s \in Requests : req'[s].status = req[s].status /\ req'[s].lastSched = req[s].lastSched
  <2>1. PICK bad \in InvalidBlocks(Head(inflight).batch) : req' = Truncated(bad)
    BY DEF BeginUpdate
  <2>2. ASSUME NEW s \in Requests
        PROVE  req'[s].status = req[s].status /\ req'[s].lastSched = req[s].lastSched
    <3>1. CASE s \in DOMAIN bad
      <4>1. bad[s] * BlockSize \in Int
        BY <3>1, Parameters, InvalidBlocksIs
      <4>2. req'[s] = WithComputed(req[s], bad[s] * BlockSize)
        BY <1>1, <2>1, <3>1, TruncatedIs
      <4> QED
        BY <1>1, <4>1, <4>2, WithComputedIs DEF SamePipeline
    <3>2. CASE s \notin DOMAIN bad
      BY <1>1, <2>1, <3>2, TruncatedIs
    <3> QED
      BY <3>1, <3>2
  <2> QED
    BY <2>2
<1>6. LoadingInv'
  <2>1. \A s \in Requests : load[s] = "loading" => s \notin Reported
    BY DEF Reported
  <2> QED
    BY <1>2, <1>4, <1>5, <2>1 DEF LoadingInv
<1>7. procSeq' = IF d.batch = <<>> THEN procSeq ELSE procSeq + 1
  BY <1>3 DEF BeginUpdate
<1>8. SeqInv'
  <2>1. ~Scheduling'
    BY <1>4 DEF Scheduling
  <2> QED
    BY <1>1, <1>2, <1>3, <1>7, <2>1, SeqShrinks
<1>9. LastScheds' = LastScheds
  BY <1>5, SchedsStand
<1>10. /\ \A s \in 1 .. MaxSteps + 1 :
            FenceAccess'[s] = IF d.batch # <<>> /\ s = procSeq + 1 THEN {} ELSE FenceAccess[s]
       /\ FenceAccess = [s \in 1 .. MaxSteps + 1 |-> FenceAccess[s]]
       /\ FenceAccess' = [s \in 1 .. MaxSteps + 1 |-> FenceAccess'[s]]
  <2>1. \A s \in 1 .. MaxSteps + 1 :
            FenceAccess'[s] = IF d.batch # <<>> /\ s = procSeq + 1 THEN {} ELSE FenceAccess[s]
    BY <1>1, <1>2, <1>3, AccessShrinks
  <2> QED
    BY <2>1 DEF FenceAccess
<1>11. CASE d.batch = <<>>
  <2>1. UNCHANGED <<procSeq, free, deferred>>
    BY <1>3, <1>11 DEF BeginUpdate
  <2>2. FenceAccess' = FenceAccess
    BY <1>10, <1>11
  <2>3. UNCHANGED Fence!vars
    BY <1>2, <1>9, <2>1, <2>2 DEF Fence!vars
  <2> QED
    BY <1>6, <1>8, <2>3 DEF FenceKept
<1>12. CASE d.batch # <<>>
  <2>1. DrainDeferredFrees(procSeq + 1)
    BY <1>3, <1>12 DEF BeginUpdate
  <2>2. procSeq < schedSeq
    BY <1>1, <1>2, <1>3, <1>12, HeadIs
  <2>3. FenceAccess' = [FenceAccess EXCEPT ![procSeq + 1] = {}]
    BY <1>10, <1>12
  <2>4. Fence!Process
    <3>1. PICK k \in 0 .. Len(deferred) :
            /\ \A i \in 1 .. k : deferred[i].fence <= procSeq + 1
            /\ k < Len(deferred) => deferred[k + 1].fence > procSeq + 1
            /\ free' = free \cup UNION {deferred[i].blocks : i \in 1 .. k}
            /\ deferred' = SubSeq(deferred, k + 1, Len(deferred))
      BY <2>1 DEF DrainDeferredFrees
    <3>2. Fence!Drained(k, procSeq + 1)
      BY <3>1 DEF Fence!Drained
    <3>3. \E j \in 0 .. Len(deferred) :
            /\ Fence!Drained(j, procSeq + 1)
            /\ free' = free \cup UNION {deferred[i].blocks : i \in 1 .. j}
            /\ deferred' = SubSeq(deferred, j + 1, Len(deferred))
      BY <3>1, <3>2
    <3> QED
      BY <1>2, <1>7, <1>9, <1>12, <2>2, <2>3, <3>3 DEF Fence!Process
  <2>5. Fence!Next
    BY <2>4 DEF Fence!Next
  <2> QED
    BY <1>6, <1>8, <2>5 DEF FenceKept
<1> QED
  BY <1>11, <1>12

(* A load goes on, or the blocks are freed: r leaves the scheduler.         *)
LEMMA GoneFence ==
  ASSUME DeferBlockFree, Shapes, LoadingInv, SeqInv', NEW r \in Requests, NEW t,
         req' = [req EXCEPT ![r] = t], t.lastSched = req[r].lastSched,
         requests' = requests \ {r}, FreeRequestBlocks(r), load[r] # "loading",
         recv' \cup step'.received \subseteq recv \cup step.received, UNCHANGED seqs,
         \A s \in Requests \ {r} : send'[s] = send[s], FenceAccess' = FenceAccess
  PROVE  FenceKept
<1>1. req \in [Requests -> RequestRecord]
  BY DEF Shapes
<1>2. SpareLoading(r)
  BY <1>1 DEF SpareLoading
<1>3. \A s \in Requests : req'[s].lastSched = req[s].lastSched
  BY <1>1
<1> QED
  BY <1>2, <1>3, FreesBlocks

(* A request that finishes keeps its blocks for a load that goes on.        *)
LEMMA FinishFence ==
  ASSUME DeferBlockFree, Shapes, LoadingInv, SeqInv, NEW r \in Requests, FinishRequest(r),
         step'.received = step.received, ~Scheduling'
  PROVE  FenceKept
<1>1. req \in [Requests -> RequestRecord]
  BY DEF Shapes
<1>2. PICK t : t = WithStatus(req[r], "FINISHED")
  OBVIOUS
<1>3. t.status = "FINISHED" /\ t.lastSched = req[r].lastSched
  BY <1>1, <1>2, WithStatusIs DEF SamePipeline, Status
<1>4. /\ req' = [req EXCEPT ![r] = t] /\ r \in requests /\ req[r].status # "FINISHED"
      /\ UNCHANGED <<schedSeq, procSeq, inflight>> /\ recv' \subseteq recv
  BY <1>2 DEF FinishRequest, FinishAndFree, WithStatus, seqs
<1>5. SeqInv' /\ FenceAccess' = FenceAccess
  BY <1>4, SeqStands, SameAccess
<1>6. recv' \cup step'.received \subseteq recv \cup step.received
  BY <1>4
<1>7. LastScheds' = LastScheds
  <2>1. \A s \in Requests : req'[s].lastSched = req[s].lastSched
    BY <1>1, <1>3, <1>4
  <2> QED
    BY <2>1, SchedsStand
<1>8. ASSUME UNCHANGED <<requests, kv>>, \A s \in Requests \ {r} : send'[s] = send[s],
             load[r] = "loading" => send'[r] = send[r]
      PROVE  FenceKept
  <2>1. LoadingInv'
    <3>1. \A s \in Requests \ {r} : req'[s] = req[s]
      BY <1>1, <1>4
    <3>2. req'[r].status = "FINISHED"
      BY <1>1, <1>3, <1>4
    <3> QED
      BY <1>6, <1>8, <3>1, <3>2 DEF LoadingInv, kv
  <2>2. UNCHANGED Fence!vars
    BY <1>4, <1>5, <1>7, <1>8 DEF Fence!vars, kv
  <2> QED
    BY <1>5, <2>1, <2>2 DEF FenceKept
<1>9. CASE AwaitsLoad(r)
  <2>1. UNCHANGED <<requests, kv, send>>
    BY <1>9 DEF FinishRequest, FinishAndFree
  <2> QED
    BY <1>8, <2>1
<1>10. CASE ~AwaitsLoad(r)
  <2>1. FreeRequest(r) /\ UNCHANGED seqs
    BY <1>10 DEF FinishRequest, FinishAndFree
  <2>2. load[r] # "loading"
    BY <1>4, <1>10 DEF LoadingInv, AwaitsLoad
  <2>3. CASE requests' = requests \ {r} /\ FreeRequestBlocks(r) /\ UNCHANGED send
    BY <1>3, <1>4, <1>5, <1>6, <2>1, <2>2, <2>3, GoneFence
  <2>4. CASE send' = [send EXCEPT ![r] = "sending"] /\ UNCHANGED <<requests, kv>>
    <3>1. \A s \in Requests \ {r} : send'[s] = send[s]
      BY <2>4 DEF Shapes
    <3> QED
      BY <1>8, <2>2, <2>4, <3>1
  <2> QED
    BY <2>1, <2>3, <2>4 DEF FreeRequest
<1> QED
  BY <1>9, <1>10

(* Who comes before whom in the pipeline does not depend on the positions.  *)
LEMMA SeqRebased ==
  ASSUME Shapes, SeqInv, UNCHANGED seqs, ~Scheduling', DOMAIN inflight' = DOMAIN inflight,
         \A i \in DOMAIN inflight :
            /\ inflight'[i].seq = inflight[i].seq /\ inflight'[i].writes = inflight[i].writes
            /\ inflight'[i].batch = <<>> <=> inflight[i].batch = <<>>
  PROVE  SeqInv'
<1>1. UNCHANGED <<schedSeq, procSeq>>
  BY DEF seqs
<1>2. /\ procSeq' <= schedSeq' /\ schedSeq' <= MaxSteps
      /\ Scheduling' => schedSeq' < MaxSteps
  BY <1>1 DEF SeqInv
<1>3. ASSUME NEW i \in DOMAIN inflight'
      PROVE  IF inflight'[i].batch = <<>> THEN inflight'[i].writes = {}
             ELSE inflight'[i].seq \in procSeq' + 1 .. schedSeq'
  BY <1>1 DEF SeqInv
<1>4. ASSUME NEW i \in DOMAIN inflight', NEW j \in DOMAIN inflight', i < j,
             inflight'[i].batch # <<>>, inflight'[j].batch # <<>>
      PROVE  inflight'[i].seq < inflight'[j].seq
  BY <1>4 DEF SeqInv
<1>5. ASSUME NEW s \in procSeq' + 1 .. schedSeq'
      PROVE  \E i \in DOMAIN inflight' : inflight'[i].batch # <<>> /\ inflight'[i].seq = s
  <2>1. PICK i \in DOMAIN inflight : inflight[i].batch # <<>> /\ inflight[i].seq = s
    BY <1>1, <1>5 DEF SeqInv
  <2> QED
    BY <2>1
<1> QED
  BY <1>2, <1>3, <1>4, <1>5 DEF SeqInv

LEMMA PipelineRebased ==
  ASSUME Shapes, SeqInv, UNCHANGED seqs, ~Scheduling', NEW r \in Requests, NEW n \in Int,
         inflight' = Rebased(r, n)
  PROVE  SeqInv' /\ FenceAccess' = FenceAccess
<1>1. inflight \in Seq(DispatchedStep)
  BY DEF Shapes
<1>2. inflight' \in Seq(DispatchedStep) /\ Len(inflight') = Len(inflight)
  BY RebasedIs
<1>3. DOMAIN inflight' = DOMAIN inflight
  BY <1>1, <1>2
<1>4. ASSUME NEW i \in DOMAIN inflight
      PROVE  /\ inflight'[i].seq = inflight[i].seq /\ inflight'[i].writes = inflight[i].writes
             /\ inflight'[i].batch = <<>> <=> inflight[i].batch = <<>>
  <2>1. inflight'[i].seq = inflight[i].seq /\ inflight'[i].writes = inflight[i].writes
    BY RebasedIs
  <2>2. /\ inflight'[i].batch \in Seq(BatchEntry)
        /\ Len(inflight'[i].batch) = Len(inflight[i].batch)
    BY RebasedIs
  <2>3. inflight[i].batch \in Seq(BatchEntry)
    <3>1. inflight[i] \in DispatchedStep
      BY <1>1
    <3> QED
      BY <3>1 DEF DispatchedStep
  <2>4. inflight'[i].batch = <<>> <=> inflight[i].batch = <<>>
    BY <2>2, <2>3
  <2> QED
    BY <2>1, <2>4
<1>5. SeqInv'
  BY <1>3, <1>4, SeqRebased
<1>6. FenceAccess' = FenceAccess
  BY <1>3, <1>4, AccessStands, SMTT(60)
<1> QED
  BY <1>5, <1>6

(* An output is delivered: the request goes on, or it stops and its blocks  *)
(* are freed.                                                               *)
LEMMA DeliveredFence ==
  ASSUME DeferBlockFree, BooksInv, NoSessions, LoadingInv, SeqInv, ~Scheduling',
         NEW g \in Int, NEW m \in Int, NEW eos \in BOOLEAN, UpdateEntry(g, m, eos)
  PROVE  FenceKept
<1>1. /\ Shapes /\ req \in [Requests -> RequestRecord] /\ step \in HandlerLocals
  BY DEF BooksInv, ShapesInv, Shapes
<1>2. PICK e, r : e = Head(step.todo) /\ r = e.r
  OBVIOUS
<1>3. /\ e \in BatchEntry /\ r \in Requests /\ r \in Unfinished /\ Account(r)
      /\ e.k \in Nat /\ Pending(r) \in Nat /\ 1 + e.k <= Pending(r)
  BY <1>2, EntryExpected
<1>4. PICK q \in RequestRecord : q = Deliver(req[r], e, g, m)
  BY <1>1, <1>3, DeliverIs
<1>5. q.status = req[r].status /\ q.lastSched = req[r].lastSched
  <2>1. q.status = req[r].status /\ q.lastSched = Drain(req[r], e).lastSched
    BY <1>1, <1>3, <1>4, DeliverIs DEF SamePipeline
  <2>2. Drain(req[r], e).lastSched = req[r].lastSched
    BY <1>1, <1>3, DrainIs
  <2> QED
    BY <2>1, <2>2
<1>6. SeqInv' /\ FenceAccess' = FenceAccess
  <2>1. e.k + 1 - g \in Int
    BY <1>3, SMTT(60)
  <2>2. inflight' = Rebased(r, e.k + 1 - g) /\ UNCHANGED seqs
    BY <1>2 DEF UpdateEntry
  <2> QED
    BY <1>1, <1>3, <2>1, <2>2, PipelineRebased
<1>7. recv' \cup step'.received \subseteq recv \cup step.received /\ UNCHANGED seqs
  <2>1. step'.received = step.received
    BY <1>1, SMTT(60) DEF UpdateEntry, HandlerLocals
  <2>2. recv' = recv /\ UNCHANGED seqs
    BY DEF UpdateEntry, xfer
  <2> QED
    BY <2>1, <2>2, SMTT(60)
<1>8. CASE req' = [req EXCEPT ![r] = q] /\ UNCHANGED <<requests, send, kv>>
  <2>1. \A s \in Requests : req'[s].status = req[s].status /\ req'[s].lastSched = req[s].lastSched
    BY <1>1, <1>5, <1>8
  <2> QED
    BY <1>6, <1>7, <1>8, <2>1, StandsStill
<1>9. CASE Stop(r, q)
  <2>1. PICK t : t = WithStatus(q, "FINISHED")
    OBVIOUS
  <2>2. req' = [req EXCEPT ![r] = t] /\ FreeRequest(r)
    BY <1>9, <2>1 DEF Stop, NoSessions, WithStatus
  <2>3. t.lastSched = req[r].lastSched
    BY <1>5, <2>1, WithStatusIs DEF SamePipeline, Status
  <2>4. load[r] # "loading"
    <3>1. req[r].status \notin {"WAITING_FOR_REMOTE_KVS", "FINISHED"}
      BY <1>2, DeliveredIsReady
    <3> QED
      BY <1>3, <3>1 DEF LoadingInv
  <2>5. CASE requests' = requests \ {r} /\ FreeRequestBlocks(r) /\ UNCHANGED send
    BY <1>1, <1>3, <1>6, <1>7, <2>2, <2>3, <2>4, <2>5, GoneFence
  <2>6. CASE send' = [send EXCEPT ![r] = "sending"] /\ UNCHANGED <<requests, kv>>
    <3>1. \A s \in Requests \ {r} : req'[s] = req[s] /\ send'[s] = send[s]
      BY <1>1, <2>2, <2>6 DEF Shapes
    <3>2. \A s \in Requests : load[s] = "loading" => req'[s].status = req[s].status /\ send'[s] = send[s]
      BY <2>4, <3>1
    <3>3. \A s \in Requests : req'[s].lastSched = req[s].lastSched
      BY <1>1, <1>3, <2>2, <2>3
    <3> QED
      BY <1>6, <1>7, <2>6, <3>2, <3>3, StandsStill
  <2> QED
    BY <2>2, <2>5, <2>6 DEF FreeRequest
<1> QED
  BY <1>2, <1>4, <1>8, <1>9 DEF UpdateEntry

LEMMA UpdateFence ==
  ASSUME DeferBlockFree, BooksInv, NoSessions, LoadingInv, SeqInv, UpdateNext
  PROVE  FenceKept
<1>1. /\ Shapes /\ QueuesInv /\ req \in [Requests -> RequestRecord] /\ step \in HandlerLocals
  BY DEF BooksInv, ShapesInv, Shapes
<1>2. ~Scheduling'
  BY <1>1, OutsideSchedule DEF Outside
<1>3. ASSUME UNCHANGED <<requests, recv, send, kv, seqs, inflight>>, step'.received \subseteq step.received,
             \A s \in Requests : req'[s].status = req[s].status /\ req'[s].lastSched = req[s].lastSched
      PROVE  FenceKept
  <2>1. SeqInv' /\ FenceAccess' = FenceAccess
    BY <1>2, <1>3, SeqStands, SameAccess DEF seqs
  <2>2. recv' \cup step'.received \subseteq recv \cup step.received /\ requests \subseteq requests'
    BY <1>3
  <2> QED
    BY <1>3, <2>1, <2>2, StandsStill
<1>4. CASE SkipEntry
  <2>1. PICK e \in BatchEntry : e = Head(step.todo) /\ e.r \in Requests
    BY <1>1, <1>4, NextEntryIs DEF SkipEntry
  <2>2. /\ Drain(req[e.r], e).status = req[e.r].status
        /\ Drain(req[e.r], e).lastSched = req[e.r].lastSched
    BY <1>1, <2>1, DrainIs
  <2>3. /\ req' = IF e.r \in requests THEN [req EXCEPT ![e.r] = Drain(req[e.r], e)] ELSE req
        /\ UNCHANGED <<requests, recv, send, kv, seqs, inflight>>
    BY <1>4, <2>1 DEF SkipEntry, xfer
  <2>4. \A s \in Requests : req'[s].status = req[s].status /\ req'[s].lastSched = req[s].lastSched
    BY <1>1, <2>2, <2>3
  <2>5. step'.received = step.received
    <3>1. step' = WithTodo(step, Tail(step.todo)) /\ Tail(step.todo) \in Seq(BatchEntry)
      BY <1>1, <1>4, NextEntryIs DEF SkipEntry, WithTodo
    <3> QED
      BY <1>1, <3>1, WithTodoIs
  <2> QED
    BY <1>3, <2>3, <2>4, <2>5
<1>5. CASE RemoveStopped
  <2>1. UNCHANGED <<req, requests, recv, send, kv, seqs, inflight>>
    BY <1>5 DEF RemoveStopped, xfer
  <2>2. step'.received = step.received
    <3>1. step' = WithPhase(step, "transfers") /\ "transfers" \in Phases
      BY <1>5 DEF RemoveStopped, WithPhase, Phases
    <3> QED
      BY <1>1, <3>1, WithPhaseIs
  <2> QED
    BY <1>3, <2>1, <2>2
<1>6. CASE EndUpdate
  <2>1. UNCHANGED <<requests, recv, send, kv, seqs, inflight>> /\ step' = Idle
    BY <1>6 DEF EndUpdate, xfer
  <2>2. ASSUME NEW q \in RequestRecord
        PROVE  WithDrafts(q).status = q.status /\ WithDrafts(q).lastSched = q.lastSched
    BY DEF WithDrafts, RequestRecord
  <2>3. \A s \in Requests : req'[s].status = req[s].status /\ req'[s].lastSched = req[s].lastSched
    BY <1>1, <1>6, <2>2, SMTT(60) DEF EndUpdate
  <2>4. step'.received = {}
    BY <2>1, IdleFields
  <2> QED
    BY <1>3, <2>1, <2>3, <2>4
<1>7. ASSUME NEW g \in 1 .. NumSpecTokens + 1, NEW m \in 1 .. NumSpecTokens + 1,
             NEW eos \in BOOLEAN, UpdateEntry(g, m, eos)
      PROVE  FenceKept
  <2>1. g \in Int /\ m \in Int
    OBVIOUS
  <2> QED
    BY <1>2, <1>7, <2>1, DeliveredFence
<1>8. ASSUME NEW r \in Requests, FinishFailed(r) PROVE FenceKept
  <2>1. step'.received = step.received
    <3>1. step' = WithErrors(step, step.errors \ {r})
      BY <1>8 DEF FinishFailed, WithErrors
    <3>2. step.errors \ {r} \subseteq Requests
      BY <1>1, LocalsTypes
    <3> QED
      BY <1>1, <3>1, <3>2, WithErrorsIs
  <2>2. CASE r \in requests /\ req[r].status # "FINISHED"
    BY <1>1, <1>2, <1>8, <2>1, <2>2, FinishFence DEF FinishFailed
  <2>3. CASE ~(r \in requests /\ req[r].status # "FINISHED")
    <3>1. UNCHANGED <<req, requests, recv, send, kv, seqs, inflight>>
      BY <1>8, <2>3 DEF FinishFailed, xfer
    <3> QED
      BY <1>3, <2>1, <3>1
  <2> QED
    BY <2>2, <2>3
<1>9. ASSUME NEW r \in Requests, ReportReceived(r) PROVE FenceKept
  <2>1. /\ step' = WithReceived(step, step.received \ {r}) /\ r \in step.received
        /\ UNCHANGED <<req, send, seqs, inflight>>
    BY <1>9 DEF ReportReceived, WithReceived
  <2>2. step'.received = step.received \ {r}
    <3>1. step.received \ {r} \subseteq Requests
      BY <1>1, LocalsTypes
    <3> QED
      BY <1>1, <2>1, <3>1, WithReceivedIs
  <2>3. SeqInv' /\ FenceAccess' = FenceAccess
    BY <1>2, <2>1, SeqStands, SameAccess DEF seqs
  <2>4. load[r] # "loading"
    BY <2>1 DEF LoadingInv
  <2>5. CASE req[r].status = "WAITING_FOR_REMOTE_KVS"
    <3>1. recv' = recv \cup {r} /\ UNCHANGED <<requests, kv>>
      BY <1>9, <2>5 DEF ReportReceived
    <3>2. recv' \cup step'.received \subseteq recv \cup step.received /\ requests \subseteq requests'
      BY <2>1, <2>2, <3>1
    <3> QED
      BY <2>1, <2>3, <3>1, <3>2, StandsStill
  <2>6. CASE req[r].status # "WAITING_FOR_REMOTE_KVS"
    <3>1. recv' = recv /\ requests' = requests \ {r} /\ FreeRequestBlocks(r)
      BY <1>9, <2>6 DEF ReportReceived
    <3>2. recv' \cup step'.received \subseteq recv \cup step.received
      BY <2>2, <3>1
    <3>3. req' = [req EXCEPT ![r] = req[r]]
      BY <1>1, <2>1
    <3> QED
      BY <1>1, <2>1, <2>3, <2>4, <3>1, <3>2, <3>3, GoneFence
  <2> QED
    BY <2>5, <2>6
<1>10. ASSUME NEW r \in Requests, ReportSent(r) PROVE FenceKept
  <2>1. /\ requests' = requests \ {r} /\ FreeRequestBlocks(r) /\ send' = [send EXCEPT ![r] = "none"]
        /\ send[r] = "sent" /\ UNCHANGED <<req, recv, seqs, inflight, step>>
    BY <1>10 DEF ReportSent, Sent
  <2>2. load[r] # "loading" /\ \A s \in Requests \ {r} : send'[s] = send[s]
    BY <1>1, <2>1 DEF LoadingInv, Shapes
  <2>3. SeqInv' /\ FenceAccess' = FenceAccess
    BY <1>2, <2>1, SeqStands, SameAccess DEF seqs
  <2>4. req' = [req EXCEPT ![r] = req[r]]
    BY <1>1, <2>1
  <2> QED
    BY <1>1, <2>1, <2>2, <2>3, <2>4, GoneFence
<1> QED
  BY <1>4, <1>5, <1>6, <1>7, <1>8, <1>9, <1>10, BegunFence DEF UpdateNext

-------------------------------------------------------------------------------
(* The other handlers, and the worker.                                      *)

LEMMA LoadedFence ==
  ASSUME Shapes, LoadingInv, SeqInv, NEW r \in Requests, LoadDone(r)
  PROVE  FenceKept
<1>1. /\ load' = [load EXCEPT ![r] = "loaded"] /\ load[r] = "loading" /\ step.phase = "idle"
      /\ UNCHANGED <<req, requests, recv, send, free, owned, deferred, seqs, inflight, step>>
  BY DEF LoadDone, xfer
<1>2. LoadingInv'
  <2>1. \A s \in Requests : load'[s] = "loading" => load[s] = "loading"
    BY <1>1 DEF Shapes
  <2> QED
    BY <1>1, <2>1 DEF LoadingInv
<1>3. SeqInv' /\ FenceAccess' = FenceAccess
  <2>1. ~Scheduling'
    BY <1>1 DEF Scheduling
  <2> QED
    BY <1>1, <2>1, SeqStands, SameAccess DEF seqs
<1>4. LastScheds' = LastScheds
  BY <1>1, SchedsStand
<1>5. Fence!EndLoad(r)
  BY <1>1, <1>3, <1>4 DEF Fence!EndLoad, seqs
<1>6. Fence!Next
  BY <1>5 DEF Fence!Next
<1> QED
  BY <1>2, <1>3, <1>6 DEF FenceKept

LEMMA SentFence ==
  ASSUME Shapes, LoadingInv, SeqInv, NEW r \in Requests, SendDone(r)
  PROVE  FenceKept
<1>1. /\ send' = [send EXCEPT ![r] = "sent"] /\ send[r] = "sending" /\ step.phase = "idle"
      /\ UNCHANGED <<req, requests, recv, kv, seqs, inflight, step>>
  BY DEF SendDone
<1>2. load[r] # "loading" /\ \A s \in Requests \ {r} : send'[s] = send[s]
  BY <1>1 DEF LoadingInv, Shapes
<1>3. SeqInv' /\ FenceAccess' = FenceAccess
  <2>1. ~Scheduling'
    BY <1>1 DEF Scheduling
  <2> QED
    BY <1>1, <2>1, SeqStands, SameAccess DEF seqs
<1>4. \A s \in Requests : load[s] = "loading" => req'[s].status = req[s].status /\ send'[s] = send[s]
  BY <1>1, <1>2
<1>5. /\ requests \subseteq requests' /\ recv' \cup step'.received \subseteq recv \cup step.received
      /\ \A s \in Requests : req'[s].lastSched = req[s].lastSched
  BY <1>1
<1> QED
  BY <1>1, <1>3, <1>4, <1>5, StandsStill

LEMMA AddFence ==
  ASSUME BooksInv, LoadingInv, SeqInv, NEW r \in Requests, AddRequest(r)
  PROVE  FenceKept
<1>1. Shapes /\ QueuesInv /\ req \in [Requests -> RequestRecord]
  BY DEF BooksInv, ShapesInv, Shapes
<1>2. PICK t : t = WithStatus(req[r], "WAITING")
  OBVIOUS
<1>3. /\ req' = [req EXCEPT ![r] = t] /\ requests' = requests \cup {r} /\ req[r].status = "NEW"
      /\ step.phase = "idle" /\ UNCHANGED <<recv, send, kv, seqs, inflight, step>>
  BY <1>2 DEF AddRequest, WithStatus, xfer
<1>4. t.lastSched = req[r].lastSched
  BY <1>1, <1>2, WithStatusIs DEF SamePipeline, Status
<1>5. load[r] # "loading"
  BY <1>3 DEF LoadingInv
<1>6. SeqInv' /\ FenceAccess' = FenceAccess
  <2>1. ~Scheduling'
    BY <1>3 DEF Scheduling
  <2> QED
    BY <1>3, <2>1, SeqStands, SameAccess DEF seqs
<1>7. \A s \in Requests : req'[s].lastSched = req[s].lastSched
  BY <1>1, <1>3, <1>4
<1>8. \A s \in Requests : load[s] = "loading" => req'[s].status = req[s].status /\ send'[s] = send[s]
  BY <1>1, <1>3, <1>5
<1> QED
  BY <1>3, <1>6, <1>7, <1>8, StandsStill

LEMMA OtherFence ==
  ASSUME DeferBlockFree, BooksInv, NoSessions, LoadingInv, SeqInv,
         \/ ResetNext \/ ClientNext \/ WorkerNext \/ UNCHANGED vars
  PROVE  FenceKept
<1>1. Shapes /\ QueuesInv
  BY DEF BooksInv, ShapesInv
<1>2. CASE BeginReset \/ EndReset
  <2>1. UNCHANGED <<req, requests, recv, send, kv, seqs, inflight>>
    BY <1>2 DEF BeginReset, EndReset, xfer
  <2>2. ~Scheduling' /\ step'.received = {}
    <3>1. step'.phase \in {"idle", "reset"} /\ step'.received = {}
      BY <1>2 DEF BeginReset, EndReset, Idle
    <3> QED
      BY <3>1 DEF Scheduling
  <2>3. SeqInv' /\ FenceAccess' = FenceAccess
    BY <2>1, <2>2, SeqStands, SameAccess DEF seqs
  <2> QED
    BY <2>1, <2>2, <2>3, StandsStill
<1>3. ASSUME NEW r \in Abortable, Abort(r) PROVE FenceKept
  <2>1. step' = step /\ ~Scheduling' /\ FinishRequest(r) /\ r \in Requests
    BY <1>3, Parameters DEF Abort, Scheduling
  <2> QED
    BY <1>1, <2>1, FinishFence
<1>4. CASE UNCHANGED vars
  <2>1. UNCHANGED <<req, requests, recv, send, load, step>> /\ UNCHANGED <<free, owned, deferred>>
        /\ UNCHANGED <<schedSeq, procSeq, inflight>>
    BY <1>4 DEF vars, kv, seqs, xfer
  <2>2. LoadingInv'
    BY <2>1 DEF LoadingInv
  <2>3. SeqInv'
    BY <2>1 DEF SeqInv, Scheduling
  <2>4. LastScheds' = LastScheds /\ FenceAccess' = FenceAccess
    BY <2>1, SchedsStand, SameAccess
  <2>5. UNCHANGED Fence!vars
    BY <2>1, <2>4 DEF Fence!vars
  <2> QED
    BY <2>2, <2>3, <2>5 DEF FenceKept
<1> QED
  BY <1>1, <1>2, <1>3, <1>4, AddFence, LoadedFence, SentFence, PreemptFence
  DEF ResetNext, ClientNext, WorkerNext, NoSessions

LEMMA FenceStep ==
  ASSUME DeferBlockFree, BooksInv, BooksInv', LoadsInv, BackedInv, NoSessions, LoadingInv, SeqInv,
         [Next]_vars
  PROVE  FenceKept
BY ScheduleFence, UpdateFence, OtherFence DEF Next

LEMMA FenceInitially == Init => LoadingInv /\ SeqInv /\ Fence!Init
<1> SUFFICES ASSUME Init PROVE LoadingInv /\ SeqInv /\ Fence!Init
  OBVIOUS
<1>1. /\ load = [r \in Requests |-> "idle"] /\ inflight = <<>> /\ schedSeq = 0 /\ procSeq = 0
      /\ step.phase = "idle" /\ req = [r \in Requests |-> NewRequest(r)]
  BY DEF Init, Idle
<1>2. LoadingInv
  BY <1>1 DEF LoadingInv
<1>3. SeqInv
  BY <1>1, Parameters DEF SeqInv, Scheduling
<1>4. LastScheds = [r \in Requests |-> 0]
  BY <1>1 DEF LastScheds, NewRequest
<1>5. FenceAccess = [s \in Fence!Steps |-> {}]
  BY <1>1 DEF FenceAccess, StepWrites, Fence!Steps
<1> QED
  BY <1>1, <1>2, <1>3, <1>4, <1>5 DEF Init, Fence!Init

(* In its defer_block_free mode every step of the scheduler is one of the   *)
(* step fence's, or moves no block: what is proved of BlockFence, that no   *)
(* step in flight meets a load or a block that is free, holds of the        *)
(* scheduler with all its handlers.                                         *)
THEOREM MovesAsFenced == NoSessions /\ PadsFit /\ DeferBlockFree => (Spec => ImplementsFence)
<1> SUFFICES ASSUME NoSessions, PadsFit, DeferBlockFree PROVE Spec => ImplementsFence
  OBVIOUS
<1>1. Init => LoadingInv /\ SeqInv /\ Fence!Init
  BY FenceInitially
<1>2. BooksInv /\ BooksInv' /\ LoadsInv /\ BackedInv /\ LoadingInv /\ SeqInv /\ [Next]_vars
        => LoadingInv' /\ SeqInv' /\ [Fence!Next]_(Fence!vars)
  BY FenceStep DEF FenceKept
<1> QED
  BY <1>1, <1>2, BackedHolds, PTL DEF Spec, ImplementsFence, Fence!Spec
-------------------------------------------------------------------------------
(* Loads and steps in flight, with or without the fence.                    *)

(* Nobody but schedule() makes a load write other blocks.                   *)
LoadWritesStand ==
    \A r \in Requests : load'[r] = "loading" => load[r] = "loading" /\ owned'[r] = owned[r]

LEMMA FreedLoadWritesStand ==
  ASSUME Shapes, NEW r, FreeRequestBlocks(r)
  PROVE  LoadWritesStand
BY DEF FreeRequestBlocks, LoadWritesStand, Shapes

LEMMA FinishLoadWritesStand ==
  ASSUME Shapes, NEW r, FinishRequest(r)
  PROVE  LoadWritesStand
<1>1. FreeRequestBlocks(r) \/ UNCHANGED kv
  BY DEF FinishRequest, FinishAndFree, FreeRequest
<1> QED
  BY <1>1, FreedLoadWritesStand DEF LoadWritesStand, kv

LEMMA OutsideLoadWritesStand ==
  ASSUME Shapes, NoSessions,
         \/ UpdateNext \/ ResetNext \/ ClientNext \/ WorkerNext \/ UNCHANGED vars
  PROVE  LoadWritesStand
<1>1. ASSUME UNCHANGED <<owned, load>> PROVE LoadWritesStand
  BY <1>1 DEF LoadWritesStand
<1>2. CASE UpdateNext
  <2>1. CASE BeginUpdate
    BY <1>1, <2>1 DEF BeginUpdate
  <2>2. CASE SkipEntry \/ RemoveStopped \/ EndUpdate
    BY <1>1, <2>2, SMTT(60) DEF SkipEntry, RemoveStopped, EndUpdate, kv
  <2>3. ASSUME NEW g, NEW m, NEW eos, UpdateEntry(g, m, eos) PROVE LoadWritesStand
    <3>1. (\E r : FreeRequestBlocks(r)) \/ UNCHANGED kv
      BY <2>3, ZenonT(60) DEF UpdateEntry, Stop, FreeRequest
    <3> QED
      BY <1>1, <3>1, FreedLoadWritesStand, SMTT(60) DEF kv
  <2>4. ASSUME NEW r, FinishFailed(r) PROVE LoadWritesStand
    BY <1>1, <2>4, FinishLoadWritesStand DEF FinishFailed, kv
  <2>5. ASSUME NEW r, ReportReceived(r) \/ ReportSent(r) PROVE LoadWritesStand
    BY <1>1, <2>5, FreedLoadWritesStand DEF ReportReceived, ReportSent, kv
  <2> QED
    BY <1>2, <2>1, <2>2, <2>3, <2>4, <2>5 DEF UpdateNext
<1>3. CASE ResetNext
  BY <1>1, <1>3, FreedLoadWritesStand DEF ResetNext, BeginReset, ResetPreempt, EndReset, PreemptRequest, kv
<1>4. CASE ClientNext
  BY <1>1, <1>4, FinishLoadWritesStand DEF ClientNext, AddRequest, Abort, NoSessions, kv
<1>5. CASE WorkerNext
  BY <1>1, <1>5 DEF WorkerNext, LoadDone, SendDone, LoadWritesStand, Shapes, kv
<1>6. CASE UNCHANGED vars
  BY <1>1, <1>6 DEF vars, kv
<1> QED
  BY <1>2, <1>3, <1>4, <1>5, <1>6

(* No step starts to write anything but the one that is emitted.            *)
LEMMA OutsideWritesStand ==
  ASSUME Shapes, NoSessions,
         \/ UpdateNext \/ ResetNext \/ ClientNext \/ WorkerNext \/ UNCHANGED vars
  PROVE  \A i \in DOMAIN inflight' : \E j \in DOMAIN inflight : inflight'[i].writes = inflight[j].writes
<1>1. inflight \in Seq(DispatchedStep)
  BY DEF Shapes
<1>2. ASSUME inflight' = inflight
      PROVE  \A i \in DOMAIN inflight' : \E j \in DOMAIN inflight : inflight'[i].writes = inflight[j].writes
  BY <1>2
<1>3. CASE BeginUpdate
  <2>1. inflight # <<>> /\ inflight' = Tail(inflight)
    BY <1>3 DEF BeginUpdate
  <2>2. \A i \in DOMAIN inflight' : i + 1 \in DOMAIN inflight /\ inflight'[i] = inflight[i + 1]
    BY <1>1, <2>1, StepRemoved
  <2> QED
    BY <2>2
<1>4. ASSUME NEW g \in 1 .. NumSpecTokens + 1, NEW m \in 1 .. NumSpecTokens + 1,
             NEW eos \in BOOLEAN, UpdateEntry(g, m, eos)
      PROVE  \A i \in DOMAIN inflight' : \E j \in DOMAIN inflight : inflight'[i].writes = inflight[j].writes
  <2>1. PICK e \in BatchEntry : e = Head(step.todo) /\ e.r \in Requests
    BY <1>4, NextEntryIs DEF UpdateEntry
  <2>2. PICK n \in Int : n = e.k + 1 - g
    BY <2>1, SMTT(60) DEF BatchEntry
  <2>3. inflight' = Rebased(e.r, n)
    BY <1>4, <2>1, <2>2 DEF UpdateEntry
  <2>4. /\ inflight' \in Seq(DispatchedStep) /\ Len(inflight') = Len(inflight)
        /\ \A i \in DOMAIN inflight : inflight'[i].writes = inflight[i].writes
    BY <2>1, <2>2, <2>3, RebasedIs
  <2>5. DOMAIN inflight' = DOMAIN inflight
    BY <1>1, <2>4
  <2> QED
    BY <2>4, <2>5, SMTT(60)
<1>5. CASE SkipEntry \/ RemoveStopped \/ EndUpdate
  BY <1>2, <1>5, SMTT(60) DEF SkipEntry, RemoveStopped, EndUpdate
<1>6. ASSUME NEW r, FinishFailed(r) \/ ReportReceived(r) \/ ReportSent(r) PROVE inflight' = inflight
  BY <1>6 DEF FinishFailed, ReportReceived, ReportSent, FinishRequest
<1>7. CASE ResetNext
  BY <1>2, <1>7 DEF ResetNext, BeginReset, ResetPreempt, EndReset
<1>8. CASE ClientNext
  BY <1>2, <1>8 DEF ClientNext, AddRequest, Abort, FinishRequest, NoSessions
<1>9. CASE WorkerNext \/ UNCHANGED vars
  BY <1>2, <1>9 DEF WorkerNext, LoadDone, SendDone, vars
<1>10. CASE UpdateNext
  BY <1>2, <1>3, <1>4, <1>5, <1>6, <1>10 DEF UpdateNext
<1> QED
  BY <1>7, <1>8, <1>9, <1>10

(* Loads begin in schedule(), and only if there is a connector.             *)
LEMMA ScheduleBeginsLoads ==
  ASSUME Shapes, ScheduleNext, NEW r \in Requests, load'[r] = "loading", load[r] # "loading"
  PROVE  KVConsumer /\ ~EndSchedule
<1>1. CASE BeginSchedule \/ SkipRunning \/ ScheduleRunning \/ EndRunning \/ SkipWaiting \/ AdmitRunning \/ EndWaiting
  BY <1>1 DEF BeginSchedule, SkipRunning, ScheduleRunning, EndRunning, SkipWaiting, AdmitRunning,
     EndWaiting, kv
<1>2. CASE PreemptForBlocks
  BY <1>2, FreedLoadWritesStand DEF PreemptForBlocks, PreemptRequest, LoadWritesStand
<1>3. CASE PromoteLoaded
  BY <1>3, SMTT(60) DEF PromoteLoaded, Shapes
<1>4. CASE EndSchedule
  BY <1>4 DEF EndSchedule
<1>5. ASSUME NEW ext \in LoadableTokens \cup {0}, BreakWaiting(ext) PROVE FALSE
  BY <1>5 DEF BreakWaiting, kv
<1>6. ASSUME NEW ext \in LoadableTokens, AdmitLoad(ext) PROVE KVConsumer /\ ~EndSchedule
  BY <1>6 DEF AdmitLoad, Loadable, LooksUp, MoreWaiting, EndSchedule
<1> QED
  BY <1>1, <1>2, <1>3, <1>4, <1>5, <1>6 DEF ScheduleNext

(* The step that is emitted writes no block of another request.             *)
LEMMA EmittedAlone ==
  ASSUME BooksInv, inflight = <<>>, EndSchedule
  PROVE  NoLoadRace'
<1>1. Shapes /\ PoolWhole
  BY PoolInvWhole DEF BooksInv, ShapesInv
<1>2. PICK b \in Seq(BatchEntry) : b = step.batch
  BY <1>1, LocalsTypes DEF Shapes
<1>3. PICK S \in SUBSET Requests : S = BatchIds(b)
  BY <1>2, BatchIdsType
<1>4. load' = [r \in Requests |-> IF r \in S THEN "idle" ELSE load[r]] /\ owned' = owned
  BY <1>2, <1>3 DEF EndSchedule
<1>5. PICK d : inflight' = Append(inflight, d) /\ d.writes = UNION {owned[r] : r \in S}
  <2>1. PICK n : n = IF DeferBlockFree /\ S # {} THEN schedSeq + 1 ELSE schedSeq
    OBVIOUS
  <2>2. PICK w : w = UNION {owned[r] : r \in S}
    OBVIOUS
  <2> DEFINE After(r) == IF r \in S THEN AfterSchedule(req[r], EntryOf(b, r), n) ELSE req[r]
             c == [i \in DOMAIN b |-> [b[i] EXCEPT !.samples = ~After(b[i].r).chunk]]
  <2>3. inflight' = Append(inflight, [seq |-> n, writes |-> w, batch |-> c])
    BY <1>2, <1>3, <2>1, <2>2 DEF EndSchedule
  <2> HIDE DEF c
  <2> QED
    BY <2>2, <2>3
<1>6. DOMAIN inflight' = {1} /\ inflight'[1] = d
  BY <1>5
<1>7. ASSUME NEW r \in Requests, load'[r] = "loading" PROVE owned'[r] \cap d.writes = {}
  <2>1. r \notin S
    BY <1>4, <1>7
  <2>2. \A s \in S : owned[s] \cap owned[r] = {}
    BY <1>1, <1>3, <2>1 DEF PoolWhole
  <2> QED
    BY <1>4, <1>5, <2>2
<1> QED
  BY <1>6, <1>7 DEF NoLoadRace

(* Without the fence there are no loads, or nothing is in flight while      *)
(* schedule() begins one.                                                   *)
LEMMA UnfencedStep ==
  ASSUME ~DeferBlockFree, BooksInv, NoSessions, NoLoadRace,
         ~KVConsumer => \A r \in Requests : load[r] # "loading", [Next]_vars
  PROVE  NoLoadRace' /\ (~KVConsumer => \A r \in Requests : load'[r] # "loading")
<1>1. Shapes /\ AccountsInv
  BY DEF BooksInv, ShapesInv
<1>2. CASE \/ UpdateNext \/ ResetNext \/ ClientNext \/ WorkerNext \/ UNCHANGED vars
  <2>1. LoadWritesStand
    BY <1>1, <1>2, OutsideLoadWritesStand
  <2>2. \A i \in DOMAIN inflight' : \E j \in DOMAIN inflight : inflight'[i].writes = inflight[j].writes
    BY <1>1, <1>2, OutsideWritesStand
  <2>3. NoLoadRace'
    BY <2>1, <2>2 DEF LoadWritesStand, NoLoadRace
  <2>4. ~KVConsumer => \A r \in Requests : load'[r] # "loading"
    BY <2>1 DEF LoadWritesStand
  <2> QED
    BY <2>3, <2>4
<1>3. CASE ScheduleNext /\ ~KVConsumer
  <2>1. \A r \in Requests : load'[r] # "loading"
    BY <1>1, <1>3, ScheduleBeginsLoads
  <2> QED
    BY <2>1 DEF NoLoadRace
<1>4. CASE ScheduleNext /\ KVConsumer
  <2>1. MaxConcurrentBatches = 1
    BY <1>4, Parameters DEF DeferBlockFree
  <2>2. inflight = <<>>
    <3>1. Len(inflight) < MaxConcurrentBatches
      <4>1. BeginSchedule \/ Scheduling
        BY <1>4 DEF ScheduleNext, Scheduling, SkipRunning, ScheduleRunning, PreemptForBlocks, EndRunning,
           SkipWaiting, PromoteLoaded, AdmitRunning, EndWaiting, EndSchedule, AdmitLoad, BreakWaiting,
           MoreRunning, MoreWaiting
      <4> QED
        BY <1>1, <4>1, SMTT(60) DEF BeginSchedule, AccountsInv, SlotsInv
    <3>2. inflight \in Seq(DispatchedStep)
      BY <1>1 DEF Shapes
    <3> QED
      BY <2>1, <3>1, <3>2
  <2>3. CASE EndSchedule
    BY <1>4, <2>2, <2>3, EmittedAlone
  <2>4. CASE ~EndSchedule
    <3>1. inflight' = inflight
      BY <1>4, <2>4, ZenonT(60) DEF ScheduleNext, BeginSchedule, SkipRunning, ScheduleRunning, PreemptForBlocks,
         EndRunning, SkipWaiting, PromoteLoaded, AdmitRunning, EndWaiting, AdmitLoad, BreakWaiting
    <3>2. DOMAIN inflight' = {}
      BY <2>2, <3>1
    <3> QED
      BY <1>4, <3>2 DEF NoLoadRace
  <2> QED
    BY <2>3, <2>4
<1> QED
  BY <1>2, <1>3, <1>4 DEF Next

(* The fence's own proofs, for the blocks of the scheduler.                 *)
Proved == INSTANCE BlockFence_proofs WITH
    mode <- load, lastSched <- LastScheds, cow <- {}, access <- FenceAccess

LEMMA FencedLoads ==
  ASSUME NoSessions, PadsFit, DeferBlockFree
  PROVE  Spec => [](SeqInv /\ Proved!NoLoadRace)
<1>1. Init => LoadingInv /\ SeqInv /\ Proved!Init
  BY FenceInitially DEF Fence!Init, Proved!Init, Fence!Steps, Proved!Steps
<1>2. Fence!Next => Proved!Next
  BY DEF Fence!Next, Proved!Next, Fence!Allocate, Proved!Allocate, Fence!BeginLoad, Proved!BeginLoad,
     Fence!EndLoad, Proved!EndLoad, Fence!FreeFailedLoad, Proved!FreeFailedLoad,
     Fence!FreeRequestBlocks, Proved!FreeRequestBlocks, Fence!NoWriteInFlight, Proved!NoWriteInFlight,
     Fence!Dispatch, Proved!Dispatch, Fence!CowFence, Proved!CowFence,
     Fence!Process, Proved!Process, Fence!Drained, Proved!Drained
<1>3. UNCHANGED Fence!vars => UNCHANGED Proved!vars
  BY DEF Fence!vars, Proved!vars
<1>4. BooksInv /\ BooksInv' /\ LoadsInv /\ BackedInv /\ LoadingInv /\ SeqInv /\ [Next]_vars
        => LoadingInv' /\ SeqInv' /\ [Proved!Next]_(Proved!vars)
  BY <1>2, <1>3, FenceStep DEF FenceKept
<1>5. Proved!Spec => []Proved!NoLoadRace
  BY Proved!LoadsDoNotRace, Parameters
<1> QED
  BY <1>1, <1>4, <1>5, BackedHolds, PTL DEF Spec, Proved!Spec

(* A load never fills a block that a step in flight writes: with            *)
(* overlapping steps by the fence, with one step at a time because nothing  *)
(* is in flight when a load begins.                                         *)
THEOREM LoadsMeetNoStep == NoSessions /\ PadsFit => (Spec => []NoLoadRace)
<1> SUFFICES ASSUME NoSessions, PadsFit PROVE Spec => []NoLoadRace
  OBVIOUS
<1>1. ASSUME DeferBlockFree PROVE Spec => []NoLoadRace
  <2>1. BooksInv /\ SeqInv /\ Proved!NoLoadRace => NoLoadRace
    <3> SUFFICES ASSUME BooksInv, SeqInv, Proved!NoLoadRace, NEW r \in Requests, load[r] = "loading",
                        NEW i \in DOMAIN inflight
                 PROVE  owned[r] \cap inflight[i].writes = {}
      BY DEF NoLoadRace
    <3>1. CASE inflight[i].batch = <<>>
      BY <3>1 DEF SeqInv
    <3>2. CASE inflight[i].batch # <<>>
      <4>1. PICK s \in procSeq + 1 .. schedSeq : s = inflight[i].seq
        BY <3>2 DEF SeqInv
      <4>2. procSeq \in Nat /\ schedSeq \in Nat /\ MaxSteps \in Nat /\ schedSeq <= MaxSteps
        BY Parameters DEF BooksInv, ShapesInv, Shapes, SeqInv
      <4>3. s \in Proved!InFlight /\ s \in 1 .. MaxSteps + 1
        BY <4>1, <4>2 DEF Proved!InFlight
      <4>4. owned[r] \cap FenceAccess[s] = {}
        BY <4>3 DEF Proved!NoLoadRace
      <4>5. FenceAccess[s] = StepWrites(s)
        BY <4>3 DEF FenceAccess
      <4>6. inflight[i].writes \subseteq StepWrites(s)
        BY <4>1 DEF StepWrites
      <4> QED
        BY <4>4, <4>5, <4>6
    <3> QED
      BY <3>1, <3>2
  <2> QED
    BY <1>1, <2>1, BooksHold, FencedLoads, PTL
<1>2. ASSUME ~DeferBlockFree PROVE Spec => []NoLoadRace
  <2> DEFINE NoLoads == ~KVConsumer => \A r \in Requests : load[r] # "loading"
  <2>1. Init => NoLoadRace /\ NoLoads
    BY DEF Init, NoLoadRace
  <2>2. BooksInv /\ NoLoadRace /\ NoLoads /\ [Next]_vars => NoLoadRace' /\ NoLoads'
    BY <1>2, UnfencedStep
  <2> HIDE DEF NoLoads
  <2> QED
    BY <2>1, <2>2, BooksHold, PTL DEF Spec
<1> QED
  BY <1>1, <1>2
-------------------------------------------------------------------------------
(* TypeOK: no counter of a request ever becomes negative.                   *)

(* The oldest step is part of what is in flight, and of what is stale.      *)
LEMMA FirstShare ==
  ASSUME NEW S, Pipeline(S), NEW r, NEW f, NEW s, BalancedOf(S, r, f, s),
         NEW n, n = SlotTokens(S[1], r)
  PROVE  n \in Nat /\ f \in Nat /\ s \in Nat /\ n <= f /\ (s > 0 => s >= n)
<1>1. PICK T \in Seq(Nat) : T = TokensOf(S, r) /\ Len(T) = Len(S) /\ T[1] = n /\ 1 \in 1 .. Len(T)
  <2>1. /\ Stream(TokensOf(S, r), OutputsOf(S, r)) /\ Len(TokensOf(S, r)) = Len(S)
        /\ Len(S) \in Nat /\ Len(S) > 0
        /\ \A j \in 1 .. Len(S) : TokensOf(S, r)[j] = SlotTokens(S[j], r)
    BY PipelineStream
  <2> QED
    BY <2>1 DEF Stream
<1>2. f = Total(T) /\ \E j \in 0 .. Len(T) : s = Sums(T)[j]
  BY <1>1 DEF BalancedOf
<1>3. /\ Total(T) \in Nat /\ Sums(T)[0] = 0
      /\ \A j \in 0 .. Len(T) : Sums(T)[j] \in Nat
      /\ \A j \in 1 .. Len(T) : Sums(T)[j] = Sums(T)[j - 1] + T[j] /\ T[j] <= Total(T)
  BY TotalIs
<1>4. \A i \in 0 .. Len(T), j \in 0 .. Len(T) : i <= j => Sums(T)[i] <= Sums(T)[j]
  BY SumsGrow
<1>5. PICK j \in 0 .. Len(T) : s = Sums(T)[j]
  BY <1>2
<1>6. n \in Nat /\ Len(T) \in Nat
  BY <1>1
<1>7. Sums(T)[1] = n
  BY <1>1, <1>3, <1>6
<1>8. CASE j = 0
  BY <1>1, <1>2, <1>3, <1>5, <1>6, <1>8
<1>9. CASE j # 0
  <2>1. 1 <= j /\ 1 \in 0 .. Len(T)
    BY <1>1, <1>6, <1>9
  <2>2. Sums(T)[1] <= Sums(T)[j]
    BY <1>4, <2>1
  <2> QED
    BY <1>1, <1>2, <1>3, <1>5, <1>6, <1>7, <2>2
<1> QED
  BY <1>8, <1>9

(* The books say it of every request that is not finished, and of what a    *)
(* finished one has in flight.                                              *)
LEMMA BookedCounters ==
  ASSUME BooksInv, NEW r \in Requests
  PROVE  /\ r \in requests => Piped(req[r])
         /\ req[r].status # "FINISHED" => Tallied(req[r]) /\ Piped(req[r])
<1>1. /\ Shapes /\ SlotsInv /\ Account(r) /\ req[r] \in RequestRecord
  BY DEF BooksInv, ShapesInv, Shapes, AccountsInv
<1>2. PICK q \in RequestRecord : q = req[r]
  BY <1>1
<1>3. ASSUME r \in requests PROVE Piped(q)
  <2>1. Pipeline(Slots) /\ BalancedOf(Slots, r, q.inFlight, q.stale)
    BY <1>1, <1>2, <1>3, SlotsAre, BooksAre DEF Account
  <2>2. q.inFlight \in Nat /\ q.stale \in Nat
    BY <2>1, FirstShare
  <2> QED
    BY <2>2 DEF Piped
<1>4. ASSUME r \notin requests, q.status # "FINISHED" PROVE Tallied(q) /\ Piped(q)
  <2>1. q.status = "NEW" /\ q.prompt = PromptTokens[r]
    BY <1>1, <1>2, <1>4 DEF Account
  <2>2. /\ q.all = q.prompt /\ q.output = 0 /\ q.computed = 0 /\ q.placeholders = 0 /\ q.spec = 0
        /\ q.inFlight = 0 /\ q.stale = 0
    BY <1>1, <1>2, <2>1 DEF Account, Unstarted
  <2>3. PromptTokens[r] \in Nat
    BY Parameters
  <2> QED
    BY <2>1, <2>2, <2>3 DEF Tallied, Piped
<1>5. ASSUME r \in requests, q.status # "FINISHED" PROVE Tallied(q)
  <2>1. r \in Unfinished
    BY <1>2, <1>5 DEF Unfinished
  <2>2. Bounded(q) /\ IF q.status = "RUNNING" THEN Runs(r) ELSE Waits(r)
    BY <1>1, <1>2, <2>1 DEF Account
  <2>3. q.placeholders \in Nat
    <3>1. Pending(r) \in Nat
      <4>1. PICK d \in Int : d = Dropped(r)
        BY <1>2, RequestTypes DEF Dropped
      <4>2. Pipeline(Slots)
        BY <1>1, SlotsAre
      <4> QED
        BY <4>1, <4>2, ExpectedIs, BooksAre
    <3>2. q.placeholders = 0 \/ q.placeholders = Pending(r)
      BY <1>2, <2>2 DEF Runs, Waits, Bounded
    <3> QED
      BY <3>1, <3>2
  <2>4. /\ MaxTokens \in Nat /\ MaxModelLen \in Nat /\ NumSpecTokens \in Nat
        /\ q.prompt \in Int /\ q.all \in Int /\ q.output \in Int /\ q.computed \in Int
    BY Parameters, RequestTypes
  <2>5. q.prompt \in Nat /\ q.output \in Nat /\ q.all \in Nat /\ q.computed \in Nat /\ q.spec \in Nat
    BY <2>2, <2>4 DEF Bounded
  <2> QED
    BY <2>3, <2>5 DEF Tallied
<1> QED
  BY <1>2, <1>3, <1>4, <1>5
(* Who is finished after the step was finished before, unchanged.           *)
FinishedStand ==
    \A r \in Requests : req'[r].status = "FINISHED" =>
        req'[r] = req[r] /\ (r \in requests <=> r \in requests')

LEMMA FinishedKept ==
  ASSUME FinishedInv, FinishedStand
  PROVE  FinishedInv'
BY DEF FinishedInv, FinishedStand

LEMMA OneNotFinished ==
  ASSUME Shapes, NEW r \in Requests, NEW t, req' = [req EXCEPT ![r] = t], t.status # "FINISHED",
         requests' = requests
  PROVE  FinishedStand
BY DEF FinishedStand, Shapes

LEMMA PreemptedNotFinished ==
  ASSUME Shapes, NEW r \in Requests, NEW d \in BOOLEAN, PreemptRequest(r, d), requests' = requests
  PROVE  FinishedStand
<1>1. PICK t : t = PreemptedRequest(req[r], d)
  OBVIOUS
<1>2. t.status = "PREEMPTED"
  BY <1>1, PreemptedIs DEF Shapes
<1>3. req' = [req EXCEPT ![r] = t]
  BY <1>1 DEF PreemptRequest
<1> QED
  BY <1>2, <1>3, OneNotFinished

LEMMA ScheduleFinished ==
  ASSUME BooksInv, ScheduleNext
  PROVE  FinishedStand
<1>1. /\ Shapes /\ req \in [Requests -> RequestRecord] /\ step \in HandlerLocals
      /\ running \in Seq(Requests) /\ BatchInv
  BY DEF BooksInv, ShapesInv, Shapes, AccountsInv
<1>2. ASSUME UNCHANGED <<req, requests>> PROVE FinishedStand
  BY <1>2 DEF FinishedStand
<1>3. CASE BeginSchedule \/ SkipRunning \/ EndRunning \/ SkipWaiting \/ EndWaiting
  BY <1>2, <1>3 DEF BeginSchedule, SkipRunning, EndRunning, SkipWaiting, EndWaiting
<1>4. ASSUME NEW ext \in LoadableTokens \cup {0}, BreakWaiting(ext) PROVE FinishedStand
  BY <1>2, <1>4 DEF BreakWaiting
<1>5. CASE ScheduleRunning
  <2>1. PICK r \in Requests : r = Current /\ r \in ToSet(running)
    BY <1>1, <1>5, CurrentType DEF ScheduleRunning
  <2>2. PICK t : t = WithSpec(req[r], 0)
    OBVIOUS
  <2>3. req' = [req EXCEPT ![r] = t] /\ requests' = requests
    BY <1>5, <2>1, <2>2 DEF ScheduleRunning, WithSpec
  <2>4. t.status = req[r].status
    BY <1>1, <2>2, WithSpecIs
  <2>5. req[r].status = "RUNNING"
    <3>1. step.phase # "update" /\ QueuesInv /\ AccountsInv
      BY <1>5 DEF ScheduleRunning, MoreRunning, BooksInv
    <3> QED
      BY <1>1, <2>1, <3>1, RunningIs
  <2> QED
    BY <1>1, <2>3, <2>4, <2>5, OneNotFinished
<1>6. CASE PreemptForBlocks
  <2>1. PICK r \in Requests : r = Last(running)
    BY <1>1, <1>6, CurrentType, QueueFront DEF PreemptForBlocks
  <2>2. PreemptRequest(r, RequiresKVDelivery) /\ requests' = requests
    BY <1>6, <2>1 DEF PreemptForBlocks
  <2> QED
    BY <1>1, <2>2, PreemptedNotFinished, Parameters
<1>7. CASE PromoteLoaded
  <2>1. PICK r \in Requests : r = Candidate
    BY <1>1, <1>7, CandidateType DEF PromoteLoaded
  <2>2. PICK x \in {"PREEMPTED", "WAITING"} : x = IF req[r].preempted THEN "PREEMPTED" ELSE "WAITING"
    OBVIOUS
  <2>3. PICK n : n = IF r \notin failed /\ req[r].computed = req[r].all THEN req[r].all - 1 ELSE req[r].computed
    OBVIOUS
  <2>4. req' = [req EXCEPT ![r].status = x, ![r].computed = n] /\ requests' = requests
    BY <1>7, <2>1, <2>2, <2>3 DEF PromoteLoaded
  <2>5. PICK t : t = WithAdmission(req[r], x, n)
    OBVIOUS
  <2>6. req' = [req EXCEPT ![r] = t]
    BY <1>1, <2>4, <2>5 DEF WithAdmission
  <2>7. t.status = x
    BY <1>1, <2>5 DEF WithAdmission, RequestRecord
  <2> QED
    BY <1>1, <2>4, <2>6, <2>7, OneNotFinished
<1>8. ASSUME NEW ext \in LoadableTokens, AdmitLoad(ext) PROVE FinishedStand
  <2>1. PICK r \in Requests : r = Candidate
    BY <1>1, <1>8, CandidateType DEF AdmitLoad
  <2>2. PICK t : t = WithAdmission(req[r], "WAITING_FOR_REMOTE_KVS", ext)
    OBVIOUS
  <2>3. req' = [req EXCEPT ![r] = t] /\ requests' = requests
    BY <1>1, <1>8, <2>1, <2>2 DEF AdmitLoad, WithAdmission
  <2>4. t.status = "WAITING_FOR_REMOTE_KVS"
    BY <1>1, <2>2 DEF WithAdmission, RequestRecord
  <2> QED
    BY <1>1, <2>3, <2>4, OneNotFinished
<1>9. CASE AdmitRunning
  <2>1. PICK r \in Requests : r = Candidate
    BY <1>1, <1>9, CandidateType DEF AdmitRunning
  <2>2. PICK t : t = WithStatus(req[r], "RUNNING")
    OBVIOUS
  <2>3. req' = [req EXCEPT ![r] = t] /\ requests' = requests
    BY <1>9, <2>1, <2>2 DEF AdmitRunning, WithStatus
  <2>4. t.status = "RUNNING"
    BY <1>1, <2>2, WithStatusIs DEF Status
  <2> QED
    BY <1>1, <2>3, <2>4, OneNotFinished
<1>10. CASE EndSchedule
  <2>1. PICK b \in Seq(BatchEntry) : b = step.batch
    BY <1>1, LocalsTypes, SMTT(60)
  <2>2. PICK n \in Nat : n = IF DeferBlockFree /\ BatchIds(b) # {} THEN schedSeq + 1 ELSE schedSeq
    <3>1. schedSeq \in Nat
      BY <1>1 DEF Shapes
    <3> QED
      BY <3>1, SMTT(60)
  <2>3. /\ requests' = requests
        /\ \A r \in Requests :
               req'[r] = IF r \in BatchIds(b) THEN AfterSchedule(req[r], EntryOf(b, r), n) ELSE req[r]
    BY <1>10, <2>1, <2>2 DEF EndSchedule
  <2>4. ASSUME NEW r \in BatchIds(b) PROVE r \in Requests /\ req'[r].status = "RUNNING"
    <3>1. PICK e \in BatchEntry : e = EntryOf(b, r)
      BY EntryOfIs
    <3>2. r \in Requests /\ req[r].status = "RUNNING"
      <4>1. PICK i \in DOMAIN b : r = b[i].r
        BY DEF BatchIds
      <4>2. Promised(b[i])
        BY <1>1, <2>1, <4>1 DEF BatchInv
      <4>3. b[i] \in BatchEntry
        BY <4>1
      <4> QED
        BY <4>1, <4>2, <4>3 DEF Promised, BatchEntry
    <3>3. AfterSchedule(req[r], e, n).status = req[r].status
      BY <1>1, <3>2, AfterScheduleIs
    <3> QED
      BY <2>3, <3>1, <3>2, <3>3
  <2> QED
    BY <2>3, <2>4 DEF FinishedStand
<1> QED
  BY <1>3, <1>4, <1>5, <1>6, <1>7, <1>8, <1>9, <1>10 DEF ScheduleNext

(* A finished request is left with what it had when it stopped.             *)
LEMMA OneFinished ==
  ASSUME Shapes, FinishedInv, NEW r \in Requests, NEW t, req' = [req EXCEPT ![r] = t],
         requests' \in {requests, requests \ {r}}, Tallied(t), r \notin requests' => Piped(t)
  PROVE  FinishedInv'
<1>1. \A s \in Requests : req'[s] = IF s = r THEN t ELSE req[s]
  BY DEF Shapes
<1>2. \A s \in Requests \ {r} : s \in requests <=> s \in requests'
  OBVIOUS
<1> QED
  BY <1>1, <1>2 DEF FinishedInv

LEMMA FinishFinished ==
  ASSUME BooksInv, FinishedInv, NEW r \in Requests, FinishRequest(r)
  PROVE  FinishedInv'
<1>1. PICK t : t = WithStatus(req[r], "FINISHED")
  OBVIOUS
<1>2. /\ Shapes /\ req[r] \in RequestRecord /\ req[r].status # "FINISHED" /\ r \in requests
  BY DEF BooksInv, ShapesInv, Shapes, FinishRequest
<1>3. SameTokens(t, req[r]) /\ SamePipeline(t, req[r]) /\ SameComputed(t, req[r]) /\ t.spec = req[r].spec
  BY <1>1, <1>2, WithStatusIs DEF Status
<1>4. Tallied(req[r]) /\ Piped(req[r])
  BY <1>2, BookedCounters
<1>5. Tallied(t) /\ Piped(t)
  BY <1>3, <1>4 DEF Tallied, Piped, SameTokens, SamePipeline, SameComputed
<1>6. req' = [req EXCEPT ![r] = t] /\ requests' \in {requests, requests \ {r}}
  BY <1>1, SMTT(60) DEF FinishRequest, FinishAndFree, FreeRequest, WithStatus
<1> QED
  BY <1>2, <1>5, <1>6, OneFinished
(* The request of an output is left with what the books say of it: the      *)
(* tokens appended were expected, whatever of them it keeps.                *)
LEMMA DeliveredCounters ==
  ASSUME BooksInv, NoSessions, NEW g \in Int, NEW m \in Int, NEW eos \in BOOLEAN, UpdateEntry(g, m, eos),
         NEW e, e = Head(step.todo), NEW r, r = e.r, NEW t, t = Deliver(req[r], e, g, m)
  PROVE  Tallied(t) /\ Piped(t)
<1>1. /\ e \in BatchEntry /\ r \in Requests /\ r \in Unfinished /\ Account(r) /\ r \in requests
      /\ r \in BatchIds(step.todo) /\ EntryOf(step.todo, r) = e
      /\ e.k \in Nat /\ Pending(r) \in Nat /\ 1 + e.k <= Pending(r)
  BY EntryExpected DEF Unfinished
<1>2. PICK q \in RequestRecord : q = req[r]
  BY <1>1, SMTT(60) DEF BooksInv, ShapesInv, Shapes
<1>3. g \in 1 .. e.k + 1 /\ m \in 1 .. g /\ ~(q.stale > 0 /\ q.drop)
  BY <1>2 DEF UpdateEntry, Discarded
<1>4. PICK k \in Nat, n \in Int : k = e.k /\ n = e.n
  BY <1>1 DEF BatchEntry
<1>5. PICK p \in Nat : p = Pending(r) /\ 1 + k <= p
  BY <1>1, <1>4
<1>6. n \in Nat /\ n > 0 /\ n <= q.inFlight /\ q.inFlight \in Nat /\ q.stale \in Nat /\ (q.stale > 0 => q.stale >= n)
  <2>1. Pipeline(Slots) /\ Slots[1] = step.todo /\ BalancedOf(Slots, r, q.inFlight, q.stale)
    BY <1>1, <1>2, SlotsAre, BooksAre DEF BooksInv, ShapesInv, AccountsInv, Account
  <2>2. StepOf(step.todo)
    BY <2>1, SMTT(60) DEF Pipeline
  <2>3. SlotTokens(Slots[1], r) = n /\ n > 0
    BY <1>1, <1>4, <2>1, <2>2, SlotOfMember, SMTT(60)
  <2> QED
    BY <2>1, <2>3, FirstShare, SMTT(60)
<1>7. /\ t.computed = IF q.stale <= 0 /\ q.computed > 0 THEN q.computed - (k + 1 - g) ELSE q.computed
      /\ t.placeholders =
            IF q.stale > 0 \/ ~AsyncScheduling THEN q.placeholders
            ELSE IF q.placeholders > 0 THEN q.placeholders - (k + 1 - g) - m
            ELSE q.placeholders - m
      /\ t.all = q.all + m /\ t.output = q.output + m /\ t.prompt = q.prompt /\ t.spec = q.spec
      /\ t.inFlight = q.inFlight - n /\ t.stale = IF q.stale > 0 THEN q.stale - n ELSE q.stale
  <2>1. t = Deliver(q, e, g, m) /\ k = e.k /\ n = e.n
    BY <1>2, <1>4
  <2>2. SamePipeline(t, Drain(q, e))
    BY <1>1, <2>1, DeliverIs
  <2>3. /\ Drain(q, e).inFlight = q.inFlight - n
        /\ Drain(q, e).stale = IF q.stale > 0 THEN q.stale - n ELSE q.stale
    BY <1>1, <2>1, DrainIs
  <2> QED
    BY <1>1, <2>1, <2>2, <2>3, DeliverIs DEF SamePipeline
<1>8. Tallied(q)
  BY <1>1, <1>2, BookedCounters DEF Unfinished
<1>9. q.stale = 0 => q.computed = q.all - 1 + p /\ (AsyncScheduling => q.placeholders = p) /\ q.all > 0
  <2>1. SUFFICES ASSUME q.stale = 0
                 PROVE  q.computed = q.all - 1 + p /\ (AsyncScheduling => q.placeholders = p) /\ q.all > 0
    OBVIOUS
  <2>2. Bounded(q) /\ IF q.status = "RUNNING" THEN Runs(r) ELSE Waits(r)
    BY <1>1, <1>2 DEF Account
  <2>3. q.status = "RUNNING"
    BY <1>2, <1>6, <2>1, <2>2 DEF Waits
  <2>4. Runs(r) /\ p > 0
    BY <1>5, <2>2, <2>3, SMTT(60)
  <2>5. q.computed = q.all - 1 + p /\ (AsyncScheduling => q.placeholders = p)
    BY <1>2, <1>5, <2>4 DEF Runs, Decodes
  <2>6. q.all > 0
    BY <2>2, RequestTypes DEF Bounded
  <2> QED
    BY <2>5, <2>6
<1>10. /\ q.prompt \in Nat /\ q.all \in Nat /\ q.output \in Nat /\ q.computed \in Nat /\ q.placeholders \in Nat
       /\ q.spec \in Nat /\ q.stale \in Nat
  BY <1>6, <1>8 DEF Tallied
<1>11. m \in Nat /\ 0 <= k + 1 - g /\ k + 1 - g \in Nat /\ k + 1 - g <= k /\ k + 1 - g + m <= k + 1
  BY <1>3, <1>4
<1>12. t.computed \in Nat /\ t.placeholders \in Nat
  <2>1. CASE q.stale = 0
    <3>1. q.computed >= k + 1 - g
      BY <1>5, <1>9, <1>10, <1>11, <2>1
    <3>2. t.computed \in Nat
      BY <1>7, <1>10, <1>11, <2>1, <3>1
    <3>3. AsyncScheduling => q.placeholders > 0 /\ q.placeholders >= k + 1 - g + m
      BY <1>5, <1>9, <1>10, <1>11, <2>1
    <3>4. t.placeholders \in Nat
      BY <1>7, <1>10, <1>11, <2>1, <3>3
    <3> QED
      BY <3>2, <3>4
  <2>2. CASE q.stale # 0
    BY <1>7, <1>10, <2>2
  <2> QED
    BY <2>1, <2>2
<1>13. t.inFlight \in Nat /\ t.stale \in Nat
  BY <1>6, <1>7
<1>14. t.all \in Nat /\ t.output \in Nat /\ t.prompt \in Nat /\ t.spec \in Nat
  BY <1>7, <1>10, <1>11, SMTT(60)
<1> QED
  BY <1>12, <1>13, <1>14 DEF Tallied, Piped

LEMMA DeliveredFinished ==
  ASSUME BooksInv, FinishedInv, NoSessions, NEW g \in Int, NEW m \in Int, NEW eos \in BOOLEAN,
         UpdateEntry(g, m, eos)
  PROVE  FinishedInv'
<1>1. PICK e, r : e = Head(step.todo) /\ r = e.r
  OBVIOUS
<1>2. Shapes /\ r \in Requests /\ e \in BatchEntry /\ req[r] \in RequestRecord
  <2>1. r \in Requests /\ e \in BatchEntry
    BY <1>1, EntryExpected
  <2> QED
    BY <2>1 DEF BooksInv, ShapesInv, Shapes
<1>3. PICK q \in RequestRecord : q = Deliver(req[r], e, g, m)
  BY <1>2, DeliverIs
<1>4. Tallied(q) /\ Piped(q)
  BY <1>1, <1>3, DeliveredCounters
<1>5. CASE req' = [req EXCEPT ![r] = q] /\ UNCHANGED requests
  BY <1>2, <1>4, <1>5, OneFinished
<1>6. CASE Stop(r, q)
  <2>1. PICK t : t = WithStatus(q, "FINISHED")
    OBVIOUS
  <2>2. req' = [req EXCEPT ![r] = t] /\ requests' \in {requests, requests \ {r}}
    BY <1>6, <2>1 DEF Stop, FreeRequest, NoSessions, WithStatus
  <2>3. SameTokens(t, q) /\ SamePipeline(t, q) /\ SameComputed(t, q) /\ t.spec = q.spec
    BY <2>1, WithStatusIs DEF Status
  <2>4. Tallied(t) /\ Piped(t)
    BY <1>4, <2>3 DEF Tallied, Piped, SameTokens, SamePipeline, SameComputed
  <2> QED
    BY <1>2, <2>2, <2>4, OneFinished
<1> QED
  BY <1>1, <1>3, <1>5, <1>6 DEF UpdateEntry

LEMMA UpdateFinished ==
  ASSUME BooksInv, FinishedInv, NoSessions, UpdateNext
  PROVE  FinishedInv'
<1>1. /\ Shapes /\ step \in HandlerLocals /\ req \in [Requests -> RequestRecord]
  BY DEF BooksInv, ShapesInv, Shapes
<1>2. ASSUME UNCHANGED <<req, requests>> PROVE FinishedInv'
  BY <1>2 DEF FinishedInv
<1>3. CASE BeginUpdate
  <2>1. PICK bad \in InvalidBlocks(Head(inflight).batch) : req' = Truncated(bad)
    BY <1>3 DEF BeginUpdate
  <2>2. ASSUME NEW s \in Requests, req'[s].status = "FINISHED" PROVE req'[s] = req[s]
    <3>1. SUFFICES ASSUME s \in DOMAIN bad PROVE FALSE
      BY <1>1, <2>1, TruncatedIs
    <3>2. bad[s] * BlockSize \in Int
      BY <1>1, <3>1, Parameters, InvalidBlocksIs
    <3>3. PICK n \in Int : n = bad[s] * BlockSize
      BY <3>2
    <3>4. req'[s] = WithComputed(req[s], n)
      BY <1>1, <2>1, <3>1, <3>3, TruncatedIs
    <3>5. WithComputed(req[s], n).status = req[s].status
      BY <1>1, WithComputedIs
    <3>6. req[s].status = "WAITING_FOR_REMOTE_KVS"
      BY <3>1, InvalidBlocksIs
    <3> QED
      BY <2>2, <3>4, <3>5, <3>6
  <2>3. requests' = requests
    BY <1>3 DEF BeginUpdate
  <2> QED
    BY <2>2, <2>3, FinishedKept DEF FinishedStand
<1>4. CASE SkipEntry
  <2>1. PICK e \in BatchEntry : e = Head(step.todo) /\ e.r \in Requests
    BY <1>1, <1>4, NextEntryIs DEF SkipEntry
  <2>2. PICK r, t : r = e.r /\ r \in Requests /\ t = Drain(req[r], e)
    BY <2>1
  <2>3. requests' = requests /\ req' = IF r \in requests THEN [req EXCEPT ![r] = t] ELSE req
    BY <1>4, <2>1, <2>2 DEF SkipEntry
  <2>4. CASE r \notin requests \/ req[r].status # "FINISHED"
    <3>1. t.status = req[r].status
      BY <1>1, <2>2, DrainIs
    <3> QED
      BY <1>1, <1>2, <2>3, <2>4, <3>1, OneNotFinished, FinishedKept
  <2>5. CASE r \in requests /\ req[r].status = "FINISHED"
    <3>1. SameTokens(t, req[r]) /\ SameComputed(t, req[r]) /\ t.spec = req[r].spec
      BY <1>1, <2>1, <2>2, DrainIs
    <3>2. Tallied(t)
      BY <2>2, <2>5, <3>1 DEF FinishedInv, Tallied, SameTokens, SameComputed
    <3> QED
      BY <1>1, <2>2, <2>3, <2>5, <3>2, OneFinished
  <2> QED
    BY <2>4, <2>5
<1>5. CASE RemoveStopped
  BY <1>2, <1>5 DEF RemoveStopped
<1>6. CASE EndUpdate
  <2>1. requests' = requests
    BY <1>6 DEF EndUpdate
  <2>2. ASSUME NEW s \in Requests, req'[s].status = "FINISHED" PROVE req'[s] = req[s]
    <3>1. CASE req[s].status = "FINISHED" \/ req'[s] = req[s]
      BY <1>6, <3>1 DEF EndUpdate
    <3>2. CASE req[s].status # "FINISHED" /\ req'[s] # req[s]
      <4>1. req'[s] = WithDrafts(req[s])
        BY <1>6, <3>2 DEF EndUpdate
      <4>2. WithDrafts(req[s]).status = req[s].status
        BY <1>1 DEF WithDrafts, RequestRecord
      <4> QED
        BY <2>2, <3>2, <4>1, <4>2
    <3> QED
      BY <3>1, <3>2
  <2> QED
    BY <2>1, <2>2, FinishedKept DEF FinishedStand
<1>7. ASSUME NEW g \in 1 .. NumSpecTokens + 1, NEW m \in 1 .. NumSpecTokens + 1, NEW eos \in BOOLEAN,
             UpdateEntry(g, m, eos)
      PROVE  FinishedInv'
  <2>1. g \in Int /\ m \in Int
    OBVIOUS
  <2> QED
    BY <1>7, <2>1, DeliveredFinished
<1>8. ASSUME NEW r \in Requests, FinishFailed(r) PROVE FinishedInv'
  BY <1>2, <1>8, FinishFinished DEF FinishFailed
<1>9. ASSUME NEW r \in Requests, ReportReceived(r) PROVE FinishedInv'
  <2>1. req' = req /\ r \in step.received
    BY <1>9 DEF ReportReceived
  <2>2. \A s \in requests : Piped(req[s])
    BY <1>1, BookedCounters DEF Shapes
  <2> QED
    BY <2>1, <2>2 DEF FinishedInv
<1>10. ASSUME NEW r \in Requests, ReportSent(r) PROVE FinishedInv'
  <2>1. req' = req
    BY <1>10 DEF ReportSent
  <2>2. \A s \in requests : Piped(req[s])
    BY <1>1, BookedCounters DEF Shapes
  <2> QED
    BY <2>1, <2>2 DEF FinishedInv
<1> QED
  BY <1>3, <1>4, <1>5, <1>6, <1>7, <1>8, <1>9, <1>10 DEF UpdateNext

LEMMA FinishedStep ==
  ASSUME BooksInv, FinishedInv, NoSessions, [Next]_vars
  PROVE  FinishedInv'
<1>1. /\ Shapes /\ req \in [Requests -> RequestRecord] /\ running \in Seq(Requests)
  BY DEF BooksInv, ShapesInv, Shapes
<1>2. ASSUME UNCHANGED <<req, requests>> PROVE FinishedInv'
  BY <1>2 DEF FinishedInv
<1>3. CASE ResetNext
  <2>1. CASE BeginReset \/ EndReset
    BY <1>2, <2>1 DEF BeginReset, EndReset
  <2>2. CASE ResetPreempt
    <3>1. PICK r \in Requests : r = Last(running)
      BY <1>1, <2>2, QueueFront DEF ResetPreempt
    <3>2. PreemptRequest(r, TRUE) /\ requests' = requests
      BY <2>2, <3>1 DEF ResetPreempt
    <3> QED
      BY <1>1, <3>2, PreemptedNotFinished, FinishedKept
  <2> QED
    BY <1>3, <2>1, <2>2 DEF ResetNext
<1>4. ASSUME NEW r \in Requests, AddRequest(r) PROVE FinishedInv'
  <2>1. PICK t : t = WithStatus(req[r], "WAITING")
    OBVIOUS
  <2>2. req' = [req EXCEPT ![r] = t] /\ requests' = requests \cup {r}
    BY <1>4, <2>1 DEF AddRequest, WithStatus
  <2>3. t.status = "WAITING"
    BY <1>1, <2>1, WithStatusIs DEF Status
  <2>4. \A s \in Requests : s # r => req'[s] = req[s] /\ (s \in requests' <=> s \in requests)
    BY <1>1, <2>2
  <2>5. req'[r].status # "FINISHED"
    BY <1>1, <2>2, <2>3
  <2> QED
    BY <2>4, <2>5 DEF FinishedInv
<1>5. ASSUME NEW r \in Abortable, Abort(r) PROVE FinishedInv'
  BY <1>5, Parameters, FinishFinished DEF Abort
<1>6. CASE WorkerNext
  BY <1>2, <1>6 DEF WorkerNext, LoadDone, SendDone
<1>7. CASE ScheduleNext
  BY <1>7, ScheduleFinished, FinishedKept
<1>8. CASE UpdateNext
  BY <1>8, UpdateFinished
<1>9. CASE UNCHANGED vars
  BY <1>2, <1>9 DEF vars
<1> QED
  BY <1>3, <1>4, <1>5, <1>6, <1>7, <1>8, <1>9 DEF Next, ClientNext, NoSessions

(* Every counter the scheduler keeps of a request is a natural number, in   *)
(* the handlers and when it is finished too; the batch queue is never       *)
(* overfull, and no step is processed before it is scheduled.               *)
THEOREM TypesHold == NoSessions /\ PadsFit => (Spec => []TypeOK)
<1> SUFFICES ASSUME NoSessions, PadsFit PROVE Spec => []TypeOK
  OBVIOUS
<1> DEFINE StepsInOrder == schedSeq \in 0 .. MaxSteps /\ procSeq \in 0 .. schedSeq
           Unnumbered == schedSeq = 0 /\ procSeq = 0
<1>1. Spec => []StepsInOrder
  <2>1. ASSUME DeferBlockFree PROVE Spec => []StepsInOrder
    <3>1. BooksInv /\ SeqInv => StepsInOrder
      BY Parameters, SMTT(60) DEF BooksInv, ShapesInv, Shapes, SeqInv
    <3> HIDE DEF StepsInOrder
    <3> QED
      BY <2>1, <3>1, BooksHold, FencedLoads, PTL
  <2>2. ASSUME ~DeferBlockFree PROVE Spec => []StepsInOrder
    <3>1. Init => Unnumbered
      BY DEF Init
    <3>2. Unnumbered /\ [Next]_vars => Unnumbered'
      <4> SUFFICES ASSUME Unnumbered, [Next]_vars PROVE Unnumbered'
        OBVIOUS
      <4>1. CASE ScheduleNext
        <5>1. CASE EndSchedule
          BY <2>2, <5>1 DEF EndSchedule
        <5>2. CASE ~EndSchedule
          BY <4>1, <5>2, ZenonT(60) DEF ScheduleNext, BeginSchedule, SkipRunning, ScheduleRunning,
             PreemptForBlocks, EndRunning, SkipWaiting, PromoteLoaded, AdmitRunning, EndWaiting, AdmitLoad,
             BreakWaiting, seqs
        <5> QED
          BY <5>1, <5>2
      <4>2. CASE UpdateNext
        <5>1. CASE BeginUpdate
          BY <2>2, <5>1 DEF BeginUpdate
        <5>2. CASE ~BeginUpdate
          BY <4>2, <5>2, ZenonT(60) DEF UpdateNext, SkipEntry, RemoveStopped, EndUpdate, UpdateEntry,
             FinishFailed, FinishRequest, ReportReceived, ReportSent, seqs
        <5> QED
          BY <5>1, <5>2
      <4>3. CASE ResetNext \/ ClientNext \/ WorkerNext \/ UNCHANGED vars
        BY <4>3, ZenonT(60) DEF ResetNext, BeginReset, ResetPreempt, EndReset, ClientNext, AddRequest, Abort,
           UpdateSession, FinishRequest, WorkerNext, LoadDone, SendDone, vars, seqs
      <4> QED
        BY <4>1, <4>2, <4>3 DEF Next
    <3>3. Unnumbered => StepsInOrder
      BY Parameters
    <3> HIDE DEF StepsInOrder, Unnumbered
    <3> QED
      BY <3>1, <3>2, <3>3, PTL DEF Spec
  <2> QED
    BY <2>1, <2>2
<1>2. Init => FinishedInv
  BY DEF Init, NewRequest, FinishedInv
<1>3. BooksInv /\ FinishedInv /\ [Next]_vars => FinishedInv'
  BY FinishedStep
<1>4. BooksInv /\ FinishedInv /\ BudgetInv /\ StepsInOrder => TypeOK
  <2> SUFFICES ASSUME BooksInv, FinishedInv, BudgetInv, StepsInOrder PROVE TypeOK
    OBVIOUS
  <2>1. Shapes /\ SlotsInv
    BY DEF BooksInv, ShapesInv, AccountsInv
  <2>2. ASSUME NEW r \in Requests
        PROVE  /\ req[r].status \in Status
               /\ {req[r].prompt, req[r].all, req[r].output, req[r].computed, req[r].placeholders,
                   req[r].spec, req[r].inFlight, req[r].stale} \subseteq Nat
               /\ {req[r].drop, req[r].chunk, req[r].preempted} \subseteq BOOLEAN
    <3>1. req[r] \in RequestRecord
      BY <2>1 DEF Shapes
    <3>2. Tallied(req[r]) /\ Piped(req[r])
      BY BookedCounters DEF FinishedInv
    <3>3. {req[r].drop, req[r].chunk, req[r].preempted} \subseteq BOOLEAN /\ req[r].status \in Status
      BY <3>1, RequestTypes
    <3> QED
      BY <3>2, <3>3 DEF Tallied, Piped
  <2>3. ToSet(running \o waiting \o skipped) \subseteq Requests
    <3>1. running \in Seq(Requests) /\ waiting \in Seq(Requests) /\ skipped \in Seq(Requests)
      BY <2>1 DEF Shapes
    <3>2. running \o waiting \o skipped \in Seq(Requests)
      BY <3>1
    <3> QED
      BY <3>2 DEF ToSet
  <2>4. numWaitingForStreaming \in Nat
    BY DEF BudgetInv
  <2> HIDE DEF StepsInOrder
  <2>5. /\ requests \cup inflightPrefills \cup recv \cup failed \subseteq Requests
        /\ free \subseteq Blocks /\ owned \in [Requests -> SUBSET Blocks]
        /\ load \in [Requests -> {"idle", "loading", "loaded"}]
        /\ send \in [Requests -> {"none", "sending", "sent"}]
    BY <2>1 DEF Shapes
  <2>6. Len(inflight) <= MaxConcurrentBatches
    BY <2>1 DEF SlotsInv
  <2> QED
    BY <2>2, <2>3, <2>4, <2>5, <2>6 DEF TypeOK, StepsInOrder
<1> HIDE DEF StepsInOrder
<1> QED
  BY <1>1, <1>2, <1>3, <1>4, BooksHold, BudgetHolds, PTL DEF Spec
===============================================================================
