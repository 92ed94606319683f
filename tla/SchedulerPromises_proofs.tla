------------------------ MODULE SchedulerPromises_proofs ------------------------
(***************************************************************************)
(* What the scheduler promises, and keeps because its queues and its books *)
(* are in order: outputs in order, steps within the budget, long prefills  *)
(* that delay nobody, and loads that are not forgotten.                    *)
(***************************************************************************)
EXTENDS SchedulerAccounts_proofs

-------------------------------------------------------------------------------
(* Only update_from_output appends to the output of a request.              *)

OutputsStand == \A s \in Requests : req'[s].output = req[s].output

LEMMA OneRequestStands ==
  ASSUME Shapes, NEW r \in Requests, NEW t, req' = [req EXCEPT ![r] = t], SameTokens(t, req[r])
  PROVE  OutputsStand
BY DEF OutputsStand, Shapes, SameTokens

LEMMA RunningOutputs ==
  ASSUME ShapesInv,
         BeginSchedule \/ SkipRunning \/ ScheduleRunning \/ PreemptForBlocks \/ EndRunning
  PROVE  OutputsStand
<1>1. Shapes /\ req \in [Requests -> RequestRecord]
  BY DEF ShapesInv, Shapes
<1>2. CASE BeginSchedule \/ SkipRunning \/ EndRunning
  BY <1>2 DEF BeginSchedule, SkipRunning, EndRunning, OutputsStand
<1>3. CASE ScheduleRunning
  <2>1. PICK r \in Requests : r = Current
    BY <1>1, <1>3, CurrentType DEF ScheduleRunning
  <2>2. req' = [req EXCEPT ![r] = WithSpec(req[r], 0)]
    BY <1>3, <2>1 DEF ScheduleRunning, WithSpec
  <2>3. SameTokens(WithSpec(req[r], 0), req[r])
    BY <1>1, WithSpecIs
  <2> QED
    BY <1>1, <2>2, <2>3, OneRequestStands
<1>4. CASE PreemptForBlocks
  <2>1. PICK r \in Requests : r = Last(running)
    BY <1>1, <1>4, CurrentType, QueueFront DEF PreemptForBlocks, Shapes
  <2>2. req' = [req EXCEPT ![r] = PreemptedRequest(req[r], RequiresKVDelivery)]
    BY <1>4, <2>1 DEF PreemptForBlocks, PreemptRequest
  <2>3. SameTokens(PreemptedRequest(req[r], RequiresKVDelivery), req[r])
    BY <1>1, Parameters, PreemptedIs
  <2> QED
    BY <1>1, <2>2, <2>3, OneRequestStands
<1> QED
  BY <1>2, <1>3, <1>4

LEMMA WaitingOutputs ==
  ASSUME ShapesInv,
         \/ SkipWaiting \/ EndWaiting \/ PromoteLoaded \/ AdmitRunning
         \/ \E ext \in LoadableTokens \cup {0} : BreakWaiting(ext)
         \/ \E ext \in LoadableTokens : AdmitLoad(ext)
  PROVE  OutputsStand
<1>1. Shapes /\ req \in [Requests -> RequestRecord]
  BY DEF ShapesInv, Shapes
<1>2. CASE SkipWaiting \/ EndWaiting \/ \E ext \in LoadableTokens \cup {0} : BreakWaiting(ext)
  BY <1>2 DEF SkipWaiting, EndWaiting, BreakWaiting, OutputsStand
<1>3. CASE PromoteLoaded
  <2>1. PICK r \in Requests : r = Candidate
    BY <1>1, <1>3, CandidateType DEF PromoteLoaded
  <2>2. PICK x, n : req' = [req EXCEPT ![r].status = x, ![r].computed = n] /\ x \in Status /\ n \in Int
    <3> DEFINE x == IF req[r].preempted THEN "PREEMPTED" ELSE "WAITING"
               n == IF r \notin failed /\ req[r].computed = req[r].all THEN req[r].all - 1
                    ELSE req[r].computed
    <3>1. req' = [req EXCEPT ![r].status = x, ![r].computed = n]
      BY <1>3, <2>1 DEF PromoteLoaded
    <3>2. x \in Status /\ n \in Int
      BY <1>1, RequestTypes DEF Status
    <3> HIDE DEF x, n
    <3> QED
      BY <3>1, <3>2
  <2>3. req' = [req EXCEPT ![r] = WithAdmission(req[r], x, n)]
    BY <1>1, <2>2 DEF WithAdmission
  <2>4. SameTokens(WithAdmission(req[r], x, n), req[r])
    BY <1>1, <2>2, WithAdmissionIs
  <2> QED
    BY <1>1, <2>3, <2>4, OneRequestStands
<1>4. ASSUME NEW ext \in LoadableTokens, AdmitLoad(ext) PROVE OutputsStand
  <2>1. PICK r \in Requests : r = Candidate
    BY <1>1, <1>4, CandidateType DEF AdmitLoad
  <2>2. ext \in Int /\ "WAITING_FOR_REMOTE_KVS" \in Status
    BY Parameters DEF Status, Blocked
  <2>3. req' = [req EXCEPT ![r].status = "WAITING_FOR_REMOTE_KVS", ![r].computed = ext]
    BY <1>4, <2>1 DEF AdmitLoad
  <2>4. req' = [req EXCEPT ![r] = WithAdmission(req[r], "WAITING_FOR_REMOTE_KVS", ext)]
    BY <1>1, <2>3 DEF WithAdmission
  <2>5. SameTokens(WithAdmission(req[r], "WAITING_FOR_REMOTE_KVS", ext), req[r])
    BY <1>1, <2>2, WithAdmissionIs
  <2> QED
    BY <1>1, <2>4, <2>5, OneRequestStands
<1>5. CASE AdmitRunning
  <2>1. PICK r \in Requests : r = Candidate
    BY <1>1, <1>5, CandidateType DEF AdmitRunning
  <2>2. req' = [req EXCEPT ![r] = WithStatus(req[r], "RUNNING")] /\ "RUNNING" \in Status
    BY <1>5, <2>1 DEF AdmitRunning, WithStatus, Status
  <2>3. SameTokens(WithStatus(req[r], "RUNNING"), req[r])
    BY <1>1, <2>2, WithStatusIs
  <2> QED
    BY <1>1, <2>2, <2>3, OneRequestStands
<1> QED
  BY <1>2, <1>3, <1>4, <1>5

LEMMA EmittedOutputs ==
  ASSUME ShapesInv, EndSchedule
  PROVE  OutputsStand
<1>1. PICK b : b = step.batch
  OBVIOUS
<1>2. b \in Seq(BatchEntry) /\ req \in [Requests -> RequestRecord] /\ schedSeq \in Nat
  BY <1>1, LocalsTypes, SMTT(60) DEF ShapesInv, Shapes
<1>3. PICK seq \in Nat : \A r \in Requests :
            req'[r] = IF r \in BatchIds(b) THEN AfterSchedule(req[r], EntryOf(b, r), seq) ELSE req[r]
  <2>1. PICK seq \in Nat : seq = IF DeferBlockFree /\ BatchIds(b) # {} THEN schedSeq + 1 ELSE schedSeq
    BY <1>2
  <2> QED
    BY <1>1, <2>1 DEF EndSchedule
<1>4. ASSUME NEW r \in BatchIds(b), r \in Requests
      PROVE  SameTokens(AfterSchedule(req[r], EntryOf(b, r), seq), req[r])
  BY <1>2, <1>4, EntryOfIs, AfterScheduleIs
<1>5. ASSUME NEW r \in Requests PROVE req'[r].output = req[r].output
  <2>1. CASE r \in BatchIds(b)
    BY <1>3, <1>4, <2>1 DEF SameTokens
  <2>2. CASE r \notin BatchIds(b)
    BY <1>3, <2>2
  <2> QED
    BY <2>1, <2>2
<1> QED
  BY <1>5 DEF OutputsStand

LEMMA FinishOutputs ==
  ASSUME ShapesInv, NEW r \in Requests, FinishRequest(r)
  PROVE  OutputsStand
<1>1. Shapes /\ req \in [Requests -> RequestRecord]
  BY DEF ShapesInv, Shapes
<1>2. req' = [req EXCEPT ![r] = WithStatus(req[r], "FINISHED")] /\ "FINISHED" \in Status
  BY DEF FinishRequest, FinishAndFree, WithStatus, Status
<1>3. SameTokens(WithStatus(req[r], "FINISHED"), req[r])
  BY <1>1, <1>2, WithStatusIs
<1> QED
  BY <1>1, <1>2, <1>3, OneRequestStands

LEMMA UpdateOutputs ==
  ASSUME ShapesInv,
         \/ BeginUpdate \/ SkipEntry \/ RemoveStopped \/ EndUpdate
         \/ \E r \in Requests : FinishFailed(r) \/ ReportReceived(r) \/ ReportSent(r)
  PROVE  OutputsStand
<1>1. Shapes /\ req \in [Requests -> RequestRecord]
  BY DEF ShapesInv, Shapes
<1>2. CASE BeginUpdate
  <2>1. PICK bad \in InvalidBlocks(Head(inflight).batch) : req' = Truncated(bad)
    BY <1>2 DEF BeginUpdate
  <2>2. ASSUME NEW s \in Requests PROVE req'[s].output = req[s].output
    <3>1. CASE s \in DOMAIN bad
      <4>1. bad[s] \in Nat /\ BlockSize \in Nat
        BY <3>1, Parameters, InvalidBlocksIs
      <4>2. bad[s] * BlockSize \in Int
        BY <4>1
      <4>3. req'[s] = WithComputed(req[s], bad[s] * BlockSize)
        BY <1>1, <2>1, <3>1, TruncatedIs
      <4>4. SameTokens(WithComputed(req[s], bad[s] * BlockSize), req[s])
        BY <1>1, <4>2, WithComputedIs
      <4> QED
        BY <4>3, <4>4 DEF SameTokens
    <3>2. CASE s \notin DOMAIN bad
      BY <1>1, <2>1, <3>2, TruncatedIs
    <3> QED
      BY <3>1, <3>2
  <2> QED
    BY <2>2 DEF OutputsStand
<1>3. CASE SkipEntry
  <2>1. PICK e \in BatchEntry : e = Head(step.todo) /\ e.r \in Requests
    BY <1>1, <1>3, NextEntryIs DEF SkipEntry
  <2>2. SameTokens(Drain(req[e.r], e), req[e.r])
    BY <1>1, <2>1, DrainIs
  <2>3. req' = IF e.r \in requests THEN [req EXCEPT ![e.r] = Drain(req[e.r], e)] ELSE req
    BY <1>3, <2>1 DEF SkipEntry
  <2>4. CASE e.r \in requests
    BY <1>1, <2>1, <2>2, <2>3, <2>4, OneRequestStands
  <2>5. CASE e.r \notin requests
    BY <2>3, <2>5 DEF OutputsStand
  <2> QED
    BY <2>4, <2>5
<1>4. CASE RemoveStopped \/ \E r \in Requests : ReportReceived(r) \/ ReportSent(r)
  BY <1>4 DEF RemoveStopped, ReportReceived, ReportSent, OutputsStand
<1>5. CASE EndUpdate
  <2>1. ASSUME NEW q \in RequestRecord PROVE SameTokens(WithDrafts(q), q)
    <3>1. WithDrafts(q) = WithSpec(q, IF q.chunk THEN 0 ELSE NumSpecTokens)
      BY DEF WithDrafts, WithSpec
    <3>2. (IF q.chunk THEN 0 ELSE NumSpecTokens) \in Int
      BY Parameters
    <3> QED
      BY <3>1, <3>2, WithSpecIs
  <2> QED
    BY <1>1, <1>5, <2>1 DEF EndUpdate, SameTokens, OutputsStand
<1>6. ASSUME NEW r \in Requests, FinishFailed(r) PROVE OutputsStand
  <2>1. CASE r \in requests /\ req[r].status # "FINISHED"
    BY <1>6, <2>1, FinishOutputs DEF FinishFailed
  <2>2. CASE ~(r \in requests /\ req[r].status # "FINISHED")
    BY <1>6, <2>2 DEF FinishFailed, OutputsStand
  <2> QED
    BY <2>1, <2>2
<1> QED
  BY <1>2, <1>3, <1>4, <1>5, <1>6

LEMMA OtherOutputs ==
  ASSUME ShapesInv, NoSessions,
         \/ ResetNext \/ ClientNext \/ WorkerNext \/ UNCHANGED vars
  PROVE  OutputsStand
<1>1. Shapes /\ req \in [Requests -> RequestRecord]
  BY DEF ShapesInv, Shapes
<1>2. CASE ResetNext
  <2>1. CASE BeginReset \/ EndReset
    BY <2>1 DEF BeginReset, EndReset, OutputsStand
  <2>2. CASE ResetPreempt
    <3>1. PICK r \in Requests : r = Last(running)
      BY <1>1, <2>2, QueueFront DEF ResetPreempt, Shapes
    <3>2. req' = [req EXCEPT ![r] = PreemptedRequest(req[r], TRUE)]
      BY <2>2, <3>1 DEF ResetPreempt, PreemptRequest
    <3>3. SameTokens(PreemptedRequest(req[r], TRUE), req[r])
      BY <1>1, PreemptedIs
    <3> QED
      BY <1>1, <3>2, <3>3, OneRequestStands
  <2> QED
    BY <1>2, <2>1, <2>2 DEF ResetNext
<1>3. ASSUME NEW r \in Requests, AddRequest(r) PROVE OutputsStand
  <2>1. req' = [req EXCEPT ![r] = WithStatus(req[r], "WAITING")] /\ "WAITING" \in Status
    BY <1>3 DEF AddRequest, WithStatus, Status
  <2>2. SameTokens(WithStatus(req[r], "WAITING"), req[r])
    BY <1>1, <2>1, WithStatusIs
  <2> QED
    BY <1>1, <2>1, <2>2, OneRequestStands
<1>4. ASSUME NEW r \in Abortable, Abort(r) PROVE OutputsStand
  BY <1>4, Parameters, FinishOutputs DEF Abort
<1>5. CASE ClientNext
  BY <1>3, <1>4, <1>5 DEF ClientNext, NoSessions
<1>6. CASE WorkerNext \/ UNCHANGED vars
  BY <1>6 DEF WorkerNext, LoadDone, SendDone, vars, OutputsStand
<1> QED
  BY <1>2, <1>5, <1>6

-------------------------------------------------------------------------------
(* An output that is not discarded is the one the books expect first, and   *)
(* the step it comes from sampled the position behind the last token.       *)

LEMMA EntryExpected ==
  ASSUME BooksInv, NoSessions, NEW g \in Int, NEW m \in Int, NEW eos \in BOOLEAN,
         UpdateEntry(g, m, eos), NEW e, e = Head(step.todo), NEW r, r = e.r
  PROVE  /\ e \in BatchEntry /\ r \in Requests /\ r \in Unfinished /\ Account(r)
         /\ r \in BatchIds(step.todo) /\ EntryOf(step.todo, r) = e
         /\ e.k \in Nat /\ Dropped(r) \in Int /\ Pending(r) \in Nat /\ 1 + e.k <= Pending(r)
         /\ ExpectedOf(Slots, r, Dropped(r))[1] = 1 + e.k
<1>1. ShapesInv /\ Shapes /\ QueuesInv /\ SlotsInv /\ \A s \in Requests : Account(s)
  BY DEF BooksInv, ShapesInv, AccountsInv
<1>2. Pipeline(Slots) /\ Slots[1] = step.todo /\ 1 \in DOMAIN Slots /\ Len(Slots) \in Nat /\ 1 \in 1 .. Len(Slots)
  BY <1>1, SlotsAre, SMTT(60)
<1>3. StepOf(step.todo) /\ step.todo # <<>>
  BY <1>2 DEF Pipeline, UpdateEntry, NextEntry
<1>4. e \in BatchEntry /\ r \in BatchIds(step.todo) /\ EntryOf(step.todo, r) = e /\ r \in Requests
  BY <1>3, TailStep DEF BatchEntry
<1>5. r \in requests /\ e.samples /\ ~Discarded(req[r], e) /\ step.phase = "update"
  BY DEF UpdateEntry, NextEntry
<1>6. r \in Unfinished /\ ~(req[r].stale > 0 /\ req[r].drop) /\ Account(r)
  BY <1>1, <1>4, <1>5 DEF Discarded, Unfinished, QueuesInv, QueuesPlaced
<1>7. PICK d \in Int : d = Dropped(r) /\ d <= 0
  <2>1. req[r].stale \in Int /\ req[r].drop \in BOOLEAN
    BY <1>1, <1>4, RequestTypes DEF Shapes
  <2> QED
    BY <1>6, <2>1 DEF Dropped
<1>8. PICK A : A = ExpectedOf(Slots, r, d)
  OBVIOUS
<1>9. A[1] = 1 + e.k /\ e.k \in Nat
  <2>1. SlotOutputs(Slots[1], r) = 1 + e.k /\ e.k \in 0 .. NumSpecTokens /\ NumSpecTokens \in Nat
    BY <1>2, <1>3, <1>4, <1>5, SlotOfMember, Parameters
  <2>2. PICK T, O : T = TokensOf(Slots, r) /\ O = OutputsOf(Slots, r)
    OBVIOUS
  <2>3. Stream(T, O) /\ Len(T) = Len(Slots) /\ O[1] = 1 + e.k
    BY <1>2, <2>1, <2>2, PipelineStream
  <2>4. A[1] = (IF Sums(T)[1 - 1] >= d THEN O[1] ELSE 0) /\ T \in Seq(Nat)
    <3>1. Len(T) \in Nat /\ 1 \in 1 .. Len(T) /\ T \in Seq(Nat)
      BY <1>2, <2>3, StreamIs
    <3>2. A = AwaitedOf(T, O, d)
      BY <1>8, <2>2 DEF ExpectedOf
    <3> QED
      BY <1>7, <2>3, <3>1, <3>2, AwaitedIs
  <2>5. Sums(T)[0] = 0
    BY <2>4, TotalIs
  <2> QED
    BY <1>7, <2>1, <2>3, <2>4, <2>5
<1>10. Pending(r) \in Nat /\ A[1] <= Pending(r)
  BY <1>2, <1>7, <1>8, ExpectedIs, BooksAre
<1> QED
  BY <1>4, <1>6, <1>7, <1>8, <1>9, <1>10

(* Whoever waits for a load has no output to be delivered.                  *)
LEMMA DeliveredIsReady ==
  ASSUME BooksInv, NoSessions, NEW g \in Int, NEW m \in Int, NEW eos \in BOOLEAN,
         UpdateEntry(g, m, eos), NEW r, r = Head(step.todo).r
  PROVE  req[r].status \notin {"WAITING_FOR_REMOTE_KVS", "FINISHED"}
<1>1. PICK e : e = Head(step.todo)
  OBVIOUS
<1>2. r \in Unfinished /\ Account(r) /\ e.k \in Nat /\ Pending(r) \in Nat /\ 1 + e.k <= Pending(r)
  BY <1>1, EntryExpected, SMTT(60)
<1>3. req[r].status # "FINISHED" /\ ~(req[r].stale > 0 /\ req[r].drop)
  BY DEF UpdateEntry, Discarded
<1>4. ASSUME req[r].status = "WAITING_FOR_REMOTE_KVS" PROVE FALSE
  <2>1. Waits(r) /\ Balanced(r)
    BY <1>2, <1>4 DEF Account, Unfinished
  <2>2. PICK f : f = req[r].inFlight /\ f = req[r].stale
    BY <2>1 DEF Waits
  <2>3. Pipeline(Slots)
    BY SlotsAre, SMTT(60) DEF BooksInv, ShapesInv, AccountsInv
  <2>4. f \in Nat /\ PendingOf(Slots, r, f) = 0
    <3>1. BalancedOf(Slots, r, f, f)
      BY <2>1, <2>2, BooksAre
    <3> QED
      BY <2>3, <3>1, NothingExpected
  <2>5. f = 0
    BY <1>3, <1>4, <2>1, <2>2, <2>4 DEF Waits
  <2>6. Dropped(r) = 0
    BY <2>2, <2>5 DEF Dropped
  <2>7. Pending(r) = 0
    BY <2>4, <2>5, <2>6, BooksAre
  <2> QED
    BY <1>2, <2>7
<1> QED
  BY <1>3, <1>4

LEMMA NextPosition ==
  ASSUME BooksInv, NoSessions, NEW g \in Int, NEW m \in Int, NEW eos \in BOOLEAN,
         UpdateEntry(g, m, eos)
  PROVE  Head(step.todo).pos = req[Head(step.todo).r].output
<1>1. PICK e, r : e = Head(step.todo) /\ r = e.r
  OBVIOUS
<1>2. /\ e \in BatchEntry /\ r \in Requests /\ EntryOf(step.todo, r) = e /\ Account(r) /\ r \in Unfinished
      /\ e.k \in Nat /\ ExpectedOf(Slots, r, Dropped(r))[1] = 1 + e.k /\ Dropped(r) \in Int
  BY <1>1, EntryExpected
<1>3. /\ Pipeline(Slots) /\ Slots[1] = step.todo /\ 1 \in DOMAIN Slots /\ Len(Slots) \in Nat
      /\ req[r] \in RequestRecord
  BY <1>2, SlotsAre, SMTT(60) DEF BooksInv, ShapesInv, Shapes, AccountsInv
<1>4. PICK d \in Int : d = Dropped(r)
  BY <1>2
<1>5. PICK A : A = ExpectedOf(Slots, r, d) /\ A[1] > 0
  BY <1>2, <1>4
<1>6. FollowsOf(Slots, r, d, req[r].output)
  BY <1>2, <1>4, BooksAre DEF Account
<1>7. e.pos = req[r].output + Sums(A)[0]
  BY <1>2, <1>3, <1>5, <1>6 DEF FollowsOf
<1>8. Sums(A)[0] = 0 /\ e.pos \in Int /\ req[r].output \in Int
  BY <1>2, <1>3, <1>4, <1>5, ExpectedIs, RequestTypes, SMTT(60) DEF BatchEntry
<1> QED
  BY <1>1, <1>7, <1>8

(* The action of DeliveredInOrder.                                          *)
DeliversNext ==
    \A r \in Requests :
        req'[r].output > req[r].output =>
            Head(step.todo).r = r /\ Head(step.todo).pos = req[r].output

LEMMA EntryDeliversNext ==
  ASSUME BooksInv, NoSessions, NEW g \in Int, NEW m \in Int, NEW eos \in BOOLEAN,
         UpdateEntry(g, m, eos)
  PROVE  DeliversNext
<1>1. Shapes /\ req \in [Requests -> RequestRecord]
  BY SMTT(60) DEF BooksInv, ShapesInv, Shapes
<1>2. PICK e \in BatchEntry : e = Head(step.todo) /\ e.r \in Requests
  BY <1>1, NextEntryIs DEF UpdateEntry
<1>3. PICK t : req' = [req EXCEPT ![e.r] = t]
  BY <1>2, ZenonT(60) DEF UpdateEntry, Stop, NoSessions
<1>4. \A s \in Requests \ {e.r} : req'[s] = req[s]
  BY <1>1, <1>3
<1>5. \A s \in Requests : req[s].output \in Int
  BY <1>1, RequestTypes
<1>6. e.pos = req[e.r].output
  BY <1>2, NextPosition
<1> QED
  BY <1>2, <1>4, <1>5, <1>6 DEF DeliversNext

LEMMA NextDeliversNext ==
  ASSUME BooksInv, NoSessions, [Next]_vars
  PROVE  DeliversNext
<1>1. ShapesInv /\ \A r \in Requests : req[r].output \in Int
  BY RequestTypes DEF BooksInv, ShapesInv, Shapes
<1>2. OutputsStand => DeliversNext
  BY <1>1 DEF OutputsStand, DeliversNext
<1>3. CASE ScheduleNext
  BY <1>1, <1>2, <1>3, RunningOutputs, WaitingOutputs, EmittedOutputs DEF ScheduleNext
<1>4. CASE UpdateNext
  <2>1. ASSUME NEW g \in 1 .. NumSpecTokens + 1, NEW m \in 1 .. NumSpecTokens + 1,
               NEW eos \in BOOLEAN, UpdateEntry(g, m, eos)
        PROVE  DeliversNext
    <3>1. g \in Int /\ m \in Int
      OBVIOUS
    <3> QED
      BY <2>1, <3>1, EntryDeliversNext
  <2> QED
    BY <1>1, <1>2, <1>4, <2>1, UpdateOutputs DEF UpdateNext
<1>5. CASE ResetNext \/ ClientNext \/ WorkerNext \/ UNCHANGED vars
  BY <1>1, <1>2, <1>5, OtherOutputs
<1> QED
  BY <1>3, <1>4, <1>5 DEF Next

(* Whatever update_from_output appends to the output of a request is what   *)
(* was sampled for the position behind its last token: preempted, aborted,  *)
(* loaded or drafted, no position is delivered twice and none is skipped.   *)
THEOREM OutputInOrder == NoSessions /\ PadsFit => (Spec => DeliveredInOrder)
<1> SUFFICES ASSUME NoSessions, PadsFit PROVE Spec => DeliveredInOrder
  OBVIOUS
<1>1. BooksInv /\ [Next]_vars => [DeliversNext]_vars
  BY NextDeliversNext
<1>2. DeliveredInOrder <=> [][DeliversNext]_vars
  BY DEF DeliveredInOrder, DeliversNext
<1> QED
  BY <1>1, <1>2, BooksHold, PTL DEF Spec

-------------------------------------------------------------------------------
(* Loads.                                                                   *)

(* Only r changes: afterwards it has no transfer and needs none, or its     *)
(* blocks are being sent.                                                   *)
LEMMA LoadDropped ==
  ASSUME Shapes, LoadsInv, NEW r \in Requests, NEW t, req' = [req EXCEPT ![r] = t],
         requests' \subseteq requests, requests \ {r} \subseteq requests',
         step'.received \subseteq step.received \ {r}, recv' \subseteq recv,
         \A s \in Requests \ {r} : load'[s] = load[s] /\ send'[s] = send[s],
         \/ send'[r] = "none" /\ (t.status \notin {"WAITING_FOR_REMOTE_KVS", "FINISHED"} \/ r \notin requests')
         \/ send'[r] # "none" /\ t.status = "FINISHED" /\ r \in requests'
  PROVE  LoadsInv'
<1>1. req \in [Requests -> RequestRecord] /\ requests \subseteq Requests /\ step.received \subseteq Requests
  BY LocalsTypes DEF Shapes
<1>2. req'[r] = t /\ \A s \in Requests \ {r} : req'[s] = req[s] /\ (s \in requests' <=> s \in requests)
  BY <1>1
<1>3. ASSUME NEW s \in requests'
      PROVE  /\ req'[s].status = "WAITING_FOR_REMOTE_KVS" => load'[s] # "idle"
             /\ req'[s].status = "FINISHED" => load'[s] # "idle" \/ send'[s] # "none"
  <2>1. CASE s = r
    BY <1>2, <1>3, <2>1
  <2>2. CASE s # r
    BY <1>1, <1>2, <1>3, <2>2 DEF LoadsInv
  <2> QED
    BY <2>1, <2>2
<1>4. ASSUME NEW s \in Requests, send'[s] # "none"
      PROVE  s \in requests' /\ req'[s].status = "FINISHED"
  <2>1. CASE s = r
    BY <1>2, <1>4, <2>1
  <2>2. CASE s # r
    BY <1>2, <1>4, <2>2 DEF LoadsInv
  <2> QED
    BY <2>1, <2>2
<1>5. ASSUME NEW s \in step'.received
      PROVE  s \in requests' /\ s \notin recv' /\ send'[s] = "none"
  <2>1. s \in Requests \ {r} /\ s \in step.received
    BY <1>1
  <2> QED
    BY <1>2, <2>1 DEF LoadsInv
<1> QED
  BY <1>3, <1>4, <1>5 DEF LoadsInv

(* Nothing happens to the transfers.                                        *)
LEMMA LoadsStand ==
  ASSUME Shapes, LoadsInv, UNCHANGED <<requests, load, send>>, recv' \subseteq recv,
         step'.received \subseteq step.received,
         \A s \in Requests : req'[s].status = req[s].status
  PROVE  LoadsInv'
BY LocalsTypes DEF LoadsInv, Shapes

(* Whoever is not finished has nothing to send.                             *)
LEMMA NothingSent ==
  ASSUME QueuesInv, Shapes, NEW r \in Requests, req[r].status # "FINISHED"
  PROVE  send[r] = "none"
BY DEF QueuesInv, SendsInv, Shapes

(* Between and outside the handlers of an output nothing is reported.       *)
LEMMA NothingReceived ==
  ASSUME QueuesInv, step.phase \notin {"update", "transfers"}
  PROVE  step.received = {}
BY DEF QueuesInv, QueuesPlaced

(* schedule() reports no load.                                              *)
LEMMA ScheduleReceives ==
  ASSUME BooksInv, ScheduleNext
  PROVE  step.received = {} /\ step'.received = {}
<1>1. Shapes /\ QueuesInv
  BY DEF BooksInv, ShapesInv
<1>2. step.phase \notin {"update", "transfers"}
  BY ZenonT(60) DEF ScheduleNext, BeginSchedule, SkipRunning, ScheduleRunning, PreemptForBlocks, EndRunning,
     SkipWaiting, PromoteLoaded, AdmitRunning, EndWaiting, EndSchedule, AdmitLoad, BreakWaiting,
     MoreRunning, MoreWaiting
<1>3. step.received = {}
  BY <1>1, <1>2, NothingReceived
<1>4. DOMAIN step = DOMAIN Idle /\ Idle.received = {} /\ "received" \in DOMAIN Idle
  BY <1>1, IdleFields DEF Idle, HandlerLocals, Shapes
<1>5. CASE BeginSchedule
  <2>1. PICK h : step' = [Idle EXCEPT !.phase = "running", !.budget = MaxNumScheduledTokens, !.threshold = h]
    BY <1>5 DEF BeginSchedule
  <2> QED
    BY <1>3, <1>4, <2>1
<1>6. CASE EndSchedule
  <2>1. step' = Idle
    BY <1>6 DEF EndSchedule
  <2> QED
    BY <1>3, <2>1, IdleFields, SMTT(60)
<1>7. CASE SkipRunning \/ ScheduleRunning \/ PreemptForBlocks \/ EndRunning
  BY <1>3, <1>4, <1>7 DEF SkipRunning, ScheduleRunning, PreemptForBlocks, EndRunning
<1>8. CASE SkipWaiting \/ PromoteLoaded \/ AdmitRunning \/ EndWaiting
  BY <1>3, <1>4, <1>8 DEF SkipWaiting, PromoteLoaded, AdmitRunning, EndWaiting
<1>9. CASE \/ \E ext \in LoadableTokens : AdmitLoad(ext)
           \/ \E ext \in LoadableTokens \cup {0} : BreakWaiting(ext)
  BY <1>3, <1>4, <1>9 DEF AdmitLoad, BreakWaiting
<1> QED
  BY <1>3, <1>5, <1>6, <1>7, <1>8, <1>9 DEF ScheduleNext

LEMMA ScheduleLoads ==
  ASSUME BooksInv, BooksInv', LoadsInv, ScheduleNext
  PROVE  LoadsInv'
<1>1. /\ Shapes /\ QueuesInv /\ QueuesInv' /\ AccountsInv
      /\ req \in [Requests -> RequestRecord] /\ requests \subseteq Requests
      /\ load \in [Requests -> {"idle", "loading", "loaded"}]
  BY DEF BooksInv, ShapesInv, Shapes
<1>2. step.received = {} /\ step'.received = {}
  BY ScheduleReceives
<1>4. CASE \/ BeginSchedule \/ SkipRunning \/ EndRunning \/ SkipWaiting \/ EndWaiting
           \/ \E ext \in LoadableTokens \cup {0} : BreakWaiting(ext)
  <2>1. UNCHANGED <<req, requests, load, recv, send>>
    BY <1>4 DEF BeginSchedule, SkipRunning, EndRunning, SkipWaiting, EndWaiting, BreakWaiting, kv, xfer
  <2> QED
    BY <1>1, <1>2, <2>1, LoadsStand
<1>5. CASE ScheduleRunning
  <2>1. UNCHANGED <<requests, load, recv, send>>
    BY <1>5 DEF ScheduleRunning, xfer
  <2>2. PICK r \in Requests : r = Current
    BY <1>1, <1>5, CurrentType DEF ScheduleRunning
  <2>3. req' = [req EXCEPT ![r] = WithSpec(req[r], 0)]
    BY <1>5, <2>2 DEF ScheduleRunning, WithSpec
  <2>4. WithSpec(req[r], 0).status = req[r].status
    BY <1>1, WithSpecIs
  <2>5. \A s \in Requests : req'[s].status = req[s].status
    BY <1>1, <2>3, <2>4
  <2> QED
    BY <1>1, <1>2, <2>1, <2>5, LoadsStand
<1>6. CASE PreemptForBlocks
  <2>1. PICK r \in Requests : r = Last(running)
    BY <1>1, <1>6, CurrentType, QueueFront DEF PreemptForBlocks, Shapes
  <2>2. PICK t : t = PreemptedRequest(req[r], RequiresKVDelivery)
    OBVIOUS
  <2>3. /\ req' = [req EXCEPT ![r] = t] /\ load' = [load EXCEPT ![r] = "idle"]
        /\ UNCHANGED <<requests, recv, send>>
    BY <1>6, <2>1, <2>2 DEF PreemptForBlocks, PreemptRequest, FreeRequestBlocks, xfer
  <2>4. t.status = "PREEMPTED"
    BY <1>1, <2>2, Parameters, PreemptedIs
  <2>5. send[r] = "none"
    <3>1. r \in ToSet(running)
      BY <1>1, <1>6, <2>1, CurrentType, QueueFront DEF PreemptForBlocks, Shapes
    <3>2. step.phase # "update"
      BY <1>6 DEF PreemptForBlocks, MoreRunning
    <3> QED
      BY <1>1, <3>1, <3>2, RunningIs, NothingSent
  <2> QED
    BY <1>1, <1>2, <2>3, <2>4, <2>5, LoadDropped
<1>7. CASE PromoteLoaded
  <2>1. PICK r \in Requests : r = Candidate
    BY <1>1, <1>7, CandidateType DEF PromoteLoaded
  <2>2. PICK x \in {"PREEMPTED", "WAITING"} : x = IF req[r].preempted THEN "PREEMPTED" ELSE "WAITING"
    OBVIOUS
  <2>3. PICK n : n = IF r \notin failed /\ req[r].computed = req[r].all THEN req[r].all - 1 ELSE req[r].computed
    OBVIOUS
  <2>4. req' = [req EXCEPT ![r].status = x, ![r].computed = n]
    BY <1>7, <2>1, <2>2, <2>3 DEF PromoteLoaded
  <2>5. PICK t : req' = [req EXCEPT ![r] = t] /\ t.status = x
    <3>1. req' = [req EXCEPT ![r] = WithAdmission(req[r], x, n)]
      BY <1>1, <2>4 DEF WithAdmission
    <3>2. WithAdmission(req[r], x, n).status = x
      BY <1>1 DEF WithAdmission, RequestRecord
    <3> QED
      BY <3>1, <3>2
  <2>6. /\ recv' = recv \ {r} /\ failed' = failed \ {r} /\ requests' = requests
        /\ send' = send /\ req[r].status = "WAITING_FOR_REMOTE_KVS"
        /\ \A s \in Requests \ {r} : load'[s] = load[s]
    BY <1>1, <1>7, <2>1 DEF PromoteLoaded
  <2>7. send[r] = "none"
    BY <1>1, <2>6, NothingSent
  <2> QED
    BY <1>1, <1>2, <2>5, <2>6, <2>7, LoadDropped
<1>8. ASSUME NEW ext \in LoadableTokens, AdmitLoad(ext) PROVE LoadsInv'
  <2>1. PICK r \in Requests : r = Candidate
    BY <1>1, <1>8, CandidateType DEF AdmitLoad
  <2>2. /\ \A s \in Requests \ {r} : req'[s] = req[s] /\ load'[s] = load[s]
        /\ load'[r] = "loading" /\ UNCHANGED <<requests, recv, send>>
        /\ req[r].status # "FINISHED"
    BY <1>1, <1>8, <2>1 DEF AdmitLoad, Admissible, xfer
  <2>3. send[r] = "none"
    BY <1>1, <2>2, NothingSent
  <2> QED
    BY <1>1, <1>2, <2>2, <2>3 DEF LoadsInv
<1>9. CASE AdmitRunning
  <2>1. PICK r \in Requests : r = Candidate
    BY <1>1, <1>9, CandidateType DEF AdmitRunning
  <2>2. PICK t : t = WithStatus(req[r], "RUNNING")
    OBVIOUS
  <2>3. req' = [req EXCEPT ![r] = t] /\ UNCHANGED <<requests, load, recv, send>>
        /\ req[r].status # "FINISHED"
    BY <1>9, <2>1, <2>2 DEF AdmitRunning, Admissible, WithStatus, xfer
  <2>4. t.status = "RUNNING"
    BY <1>1, <2>2, WithStatusIs DEF Status
  <2>5. send[r] = "none"
    BY <1>1, <2>3, NothingSent
  <2> QED
    BY <1>1, <1>2, <2>3, <2>4, <2>5, LoadDropped
<1>10. CASE EndSchedule
  <2>1. PICK b : b = step.batch
    OBVIOUS
  <2>2. /\ UNCHANGED <<requests, recv, send>>
        /\ load' = [r \in Requests |-> IF r \in BatchIds(b) THEN "idle" ELSE load[r]]
    BY <1>10, <2>1, SMTT(60) DEF EndSchedule, xfer
  <2>3. PICK seq \in Nat : \A r \in Requests :
            req'[r] = IF r \in BatchIds(b) THEN AfterSchedule(req[r], EntryOf(b, r), seq) ELSE req[r]
    <3>1. schedSeq \in Nat
      BY <1>1 DEF Shapes
    <3>2. PICK seq \in Nat : seq = IF DeferBlockFree /\ BatchIds(b) # {} THEN schedSeq + 1 ELSE schedSeq
      BY <3>1
    <3> QED
      BY <1>10, <2>1, <3>2 DEF EndSchedule
  <2>4. b \in Seq(BatchEntry)
    BY <1>1, <2>1, LocalsTypes DEF Shapes
  <2>5. ASSUME NEW r \in BatchIds(b), r \in Requests
        PROVE  req'[r].status = "RUNNING"
    <3>1. PICK i \in DOMAIN b : b[i].r = r
      BY <2>5 DEF BatchIds
    <3>2. req[r].status = "RUNNING"
      BY <1>1, <2>1, <3>1 DEF AccountsInv, BatchInv, Promised
    <3>3. PICK e \in BatchEntry : e = EntryOf(b, r)
      BY <2>4, <2>5, EntryOfIs
    <3>4. AfterSchedule(req[r], e, seq).status = req[r].status
      BY <1>1, <2>5, AfterScheduleIs
    <3> QED
      BY <2>3, <2>5, <3>2, <3>3, <3>4
  <2>6. ASSUME NEW s \in Requests, req'[s].status # "RUNNING"
        PROVE  req'[s] = req[s] /\ load'[s] = load[s]
    BY <2>2, <2>3, <2>5, <2>6
  <2>7. ASSUME NEW s \in Requests PROVE req'[s].status = req[s].status
    <3>1. CASE s \in BatchIds(b)
      <4>1. PICK e \in BatchEntry : e = EntryOf(b, s)
        BY <2>4, <3>1, EntryOfIs
      <4>2. AfterSchedule(req[s], e, seq).status = req[s].status
        BY <1>1, AfterScheduleIs
      <4> QED
        BY <2>3, <3>1, <4>1, <4>2
    <3>2. CASE s \notin BatchIds(b)
      BY <2>3, <3>2
    <3> QED
      BY <3>1, <3>2
  <2>8. ASSUME NEW s \in requests'
        PROVE  /\ req'[s].status = "WAITING_FOR_REMOTE_KVS" => load'[s] # "idle"
               /\ req'[s].status = "FINISHED" => load'[s] # "idle" \/ send'[s] # "none"
    BY <1>1, <2>2, <2>6, <2>8 DEF LoadsInv
  <2>9. ASSUME NEW s \in Requests, send'[s] # "none"
        PROVE  s \in requests' /\ req'[s].status = "FINISHED"
    BY <2>2, <2>7, <2>9 DEF LoadsInv
  <2> QED
    BY <1>2, <2>8, <2>9 DEF LoadsInv
<1> QED
  BY <1>4, <1>5, <1>6, <1>7, <1>8, <1>9, <1>10 DEF ScheduleNext

LEMMA FinishLoads ==
  ASSUME Shapes, QueuesInv, AccountsInv, LoadsInv, NEW r \in Requests, FinishRequest(r),
         AwaitsLoad(r) \/ r \notin step.received, step'.received = step.received
  PROVE  LoadsInv'
<1>1. /\ req \in [Requests -> RequestRecord] /\ requests \subseteq Requests /\ r \in requests
      /\ send \in [Requests -> {"none", "sending", "sent"}]
      /\ load \in [Requests -> {"idle", "loading", "loaded"}] /\ send[r] = "none"
  BY NothingSent DEF Shapes, FinishRequest
<1>2. PICK t : t = WithStatus(req[r], "FINISHED")
  OBVIOUS
<1>3. req' = [req EXCEPT ![r] = t] /\ t.status = "FINISHED"
  BY <1>1, <1>2, WithStatusIs DEF FinishRequest, FinishAndFree, WithStatus, Status
<1>4. recv' \subseteq recv
  BY DEF FinishRequest, FinishAndFree
<1>5. CASE AwaitsLoad(r)
  <2>1. UNCHANGED <<load, requests, send>>
    BY <1>5 DEF FinishRequest, FinishAndFree, kv
  <2>2. \A s \in Requests \ {r} : req'[s] = req[s]
    BY <1>1, <1>3
  <2>3. load[r] # "idle" /\ req'[r].status = "FINISHED"
    BY <1>1, <1>3, <1>5 DEF AwaitsLoad, LoadsInv
  <2>4. ASSUME NEW s \in Requests, send'[s] # "none"
        PROVE  s \in requests' /\ req'[s].status = "FINISHED"
    BY <1>1, <2>1, <2>2, <2>4 DEF LoadsInv
  <2> QED
    BY <1>1, <1>4, <2>1, <2>2, <2>3, <2>4 DEF LoadsInv
<1>6. CASE ~AwaitsLoad(r)
  <2>1. FreeRequest(r) /\ step'.received \subseteq step.received \ {r}
    BY <1>6 DEF FinishRequest, FinishAndFree
  <2>2. CASE requests' = requests \ {r} /\ FreeRequestBlocks(r) /\ UNCHANGED send
    <3>1. \A s \in Requests \ {r} : load'[s] = load[s]
      BY <1>1, <2>2 DEF FreeRequestBlocks
    <3> QED
      BY <1>1, <1>3, <1>4, <2>1, <2>2, <3>1, LoadDropped
  <2>3. CASE send' = [send EXCEPT ![r] = "sending"] /\ UNCHANGED <<requests, kv>>
    <3>1. load' = load /\ send'[r] = "sending" /\ \A s \in Requests \ {r} : send'[s] = send[s]
      BY <1>1, <2>3 DEF kv
    <3> QED
      BY <1>1, <1>3, <1>4, <2>1, <2>3, <3>1, LoadDropped
  <2> QED
    BY <2>1, <2>2, <2>3 DEF FreeRequest
<1> QED
  BY <1>5, <1>6

LEMMA UpdateLoads ==
  ASSUME BooksInv, BooksInv', LoadsInv, NoSessions, UpdateNext
  PROVE  LoadsInv'
<1>1. /\ Shapes /\ ShapesInv /\ QueuesInv /\ AccountsInv /\ AccountsInv'
      /\ req \in [Requests -> RequestRecord] /\ requests \subseteq Requests /\ step \in HandlerLocals
      /\ load \in [Requests -> {"idle", "loading", "loaded"}]
  BY DEF BooksInv, ShapesInv, Shapes
<1>2. CASE BeginUpdate
  <2>1. PICK bad \in InvalidBlocks(Head(inflight).batch) : req' = Truncated(bad)
    BY <1>2 DEF BeginUpdate
  <2>2. UNCHANGED <<requests, load, send, recv>> /\ step'.received = Reported
    BY <1>2 DEF BeginUpdate, Idle
  <2>3. ASSUME NEW s \in Reported PROVE s \in requests /\ s \notin recv /\ send[s] = "none"
    <3>1. s \in requests /\ s \in Requests
      BY <1>1, <2>3 DEF Reported
    <3>2. CASE AwaitsLoad(s)
      BY <1>1, <3>1, <3>2, NothingSent DEF AwaitsLoad
    <3>3. CASE req[s].status = "FINISHED" /\ send[s] = "none"
      BY <1>1, <3>1, <3>3 DEF AccountsInv, Account
    <3> QED
      BY <2>3, <3>1, <3>2, <3>3 DEF Reported
  <2>4. ASSUME NEW s \in Requests PROVE req'[s].status = req[s].status
    <3>1. CASE s \in DOMAIN bad
      <4>1. bad[s] * BlockSize \in Int
        BY <3>1, Parameters, InvalidBlocksIs
      <4>2. req'[s] = WithComputed(req[s], bad[s] * BlockSize)
        BY <1>1, <2>1, <3>1, TruncatedIs
      <4> QED
        BY <1>1, <4>1, <4>2, WithComputedIs
    <3>2. CASE s \notin DOMAIN bad
      BY <1>1, <2>1, <3>2, TruncatedIs
    <3> QED
      BY <3>1, <3>2
  <2> QED
    BY <1>1, <2>1, <2>2, <2>3, <2>4 DEF LoadsInv
<1>3. CASE SkipEntry
  <2>1. PICK e \in BatchEntry : e = Head(step.todo) /\ e.r \in Requests
    BY <1>1, <1>3, NextEntryIs DEF SkipEntry
  <2>2. Drain(req[e.r], e).status = req[e.r].status
    BY <1>1, <2>1, DrainIs
  <2>3. /\ req' = IF e.r \in requests THEN [req EXCEPT ![e.r] = Drain(req[e.r], e)] ELSE req
        /\ UNCHANGED <<requests, load, recv, send>>
    BY <1>3, <2>1 DEF SkipEntry, kv, xfer
  <2>4. \A s \in Requests : req'[s].status = req[s].status
    BY <1>1, <2>2, <2>3
  <2>5. step'.received = step.received
    <3>1. step' = WithTodo(step, Tail(step.todo)) /\ Tail(step.todo) \in Seq(BatchEntry)
      BY <1>1, <1>3, NextEntryIs DEF SkipEntry, WithTodo
    <3> QED
      BY <1>1, <3>1, WithTodoIs
  <2> QED
    BY <1>1, <2>3, <2>4, <2>5, LoadsStand
<1>4. CASE RemoveStopped
  <2>1. UNCHANGED <<req, requests, load, recv, send>>
    BY <1>4 DEF RemoveStopped, kv, xfer
  <2>2. step'.received = step.received
    <3>1. step' = WithPhase(step, "transfers") /\ "transfers" \in Phases
      BY <1>4 DEF RemoveStopped, WithPhase, Phases
    <3> QED
      BY <1>1, <3>1, WithPhaseIs
  <2> QED
    BY <1>1, <2>1, <2>2, LoadsStand
<1>5. CASE EndUpdate
  <2>1. step'.received = {} /\ UNCHANGED <<requests, load, recv, send>>
    BY <1>5 DEF EndUpdate, Idle, kv, xfer
  <2>2. ASSUME NEW q \in RequestRecord PROVE WithDrafts(q).status = q.status
    BY DEF WithDrafts, RequestRecord
  <2>3. \A s \in Requests : req'[s].status = req[s].status
    BY <1>1, <1>5, <2>2, SMTT(60) DEF EndUpdate
  <2> QED
    BY <1>1, <2>1, <2>3, LoadsStand
<1>6. ASSUME NEW g \in 1 .. NumSpecTokens + 1, NEW m \in 1 .. NumSpecTokens + 1,
             NEW eos \in BOOLEAN, UpdateEntry(g, m, eos)
      PROVE  LoadsInv'
  <2>1. PICK e \in BatchEntry : e = Head(step.todo) /\ e.r \in Requests
    BY <1>1, <1>6, NextEntryIs DEF UpdateEntry
  <2>2. PICK r \in Requests : r = e.r
    BY <2>1
  <2>3. PICK q : q = Deliver(req[r], e, g, m)
    OBVIOUS
  <2>4. q.status = req[r].status /\ q \in RequestRecord
    BY <1>1, <2>3, DeliverIs, SMTT(60)
  <2>5. step'.received = step.received
    BY <1>1, <1>6, SMTT(60) DEF UpdateEntry, HandlerLocals
  <2>6. recv' = recv /\ r \in requests
    BY <1>6, <2>1, <2>2 DEF UpdateEntry
  <2>9. req[r].status \notin {"WAITING_FOR_REMOTE_KVS", "FINISHED"} /\ send[r] = "none" /\ r \notin step.received
    <3>1. req[r].status \notin {"WAITING_FOR_REMOTE_KVS", "FINISHED"}
      BY <1>1, <1>6, <2>1, <2>2, DeliveredIsReady
    <3> QED
      BY <1>1, <3>1, NothingSent DEF QueuesInv, QueuesPlaced
  <2>7. CASE req' = [req EXCEPT ![r] = q] /\ UNCHANGED <<requests, send, kv>>
    <3>1. \A s \in Requests : req'[s].status = req[s].status
      BY <1>1, <2>4, <2>7
    <3> QED
      BY <1>1, <2>5, <2>6, <2>7, <3>1, LoadsStand DEF kv
  <2>8. CASE Stop(r, q)
    <3>1. PICK t : t = WithStatus(q, "FINISHED")
      OBVIOUS
    <3>2. req' = [req EXCEPT ![r] = t] /\ FreeRequest(r)
      BY <2>8, <3>1 DEF Stop, NoSessions, WithStatus
    <3>3. t.status = "FINISHED" /\ step'.received \subseteq step.received \ {r}
      BY <2>4, <2>5, <2>9, <3>1, WithStatusIs DEF Status
    <3>4. CASE requests' = requests \ {r} /\ FreeRequestBlocks(r) /\ UNCHANGED send
      <4>1. \A s \in Requests \ {r} : load'[s] = load[s]
        BY <1>1, <3>4 DEF FreeRequestBlocks
      <4> QED
        BY <1>1, <2>6, <2>9, <3>2, <3>3, <3>4, <4>1, LoadDropped
    <3>5. CASE send' = [send EXCEPT ![r] = "sending"] /\ UNCHANGED <<requests, kv>>
      <4>1. load' = load /\ send'[r] = "sending" /\ \A s \in Requests \ {r} : send'[s] = send[s]
        BY <1>1, <2>1, <2>2, <3>5 DEF kv, Shapes
      <4> QED
        BY <1>1, <2>6, <3>2, <3>3, <3>5, <4>1, LoadDropped
    <3> QED
      BY <3>2, <3>4, <3>5 DEF FreeRequest
  <2> QED
    BY <1>6, <2>1, <2>2, <2>3, <2>7, <2>8, SMTT(60) DEF UpdateEntry
<1>7. ASSUME NEW r \in Requests, FinishFailed(r) PROVE LoadsInv'
  <2>1. step' = WithErrors(step, step.errors \ {r}) /\ step.phase = "transfers"
    BY <1>7 DEF FinishFailed, WithErrors
  <2>2. step.errors \ {r} \subseteq Requests
    BY <1>1, LocalsTypes
  <2>3. step'.received = step.received
    BY <1>1, <2>1, <2>2, WithErrorsIs
  <2>4. CASE r \in requests /\ req[r].status # "FINISHED"
    <3>1. req[r].status = "WAITING_FOR_REMOTE_KVS"
      BY <1>1, <1>7, <2>4 DEF FinishFailed, AccountsInv, SlotsInv, ErrorsKnown
    <3>2. AwaitsLoad(r) \/ r \notin step.received
      BY <3>1 DEF AwaitsLoad, LoadsInv
    <3> QED
      BY <1>1, <1>7, <2>1, <2>3, <2>4, <3>2, FinishLoads DEF FinishFailed
  <2>5. CASE ~(r \in requests /\ req[r].status # "FINISHED")
    BY <1>1, <1>7, <2>3, <2>5, LoadsStand DEF FinishFailed, kv, xfer
  <2> QED
    BY <2>4, <2>5
<1>8. ASSUME NEW r \in Requests, ReportReceived(r) PROVE LoadsInv'
  <2>1. /\ step' = WithReceived(step, step.received \ {r}) /\ r \in step.received
        /\ UNCHANGED <<req, send>> /\ send[r] = "none" /\ req[r].status \in {"WAITING_FOR_REMOTE_KVS", "FINISHED"}
    BY <1>1, <1>8 DEF ReportReceived, WithReceived, LoadsInv, QueuesInv, QueuesPlaced
  <2>2. step.received \ {r} \subseteq Requests
    BY <1>1, LocalsTypes
  <2>3. step'.received = step.received \ {r}
    BY <1>1, <2>1, <2>2, WithReceivedIs
  <2>4. CASE req[r].status = "WAITING_FOR_REMOTE_KVS"
    <3>1. recv' = recv \cup {r} /\ UNCHANGED <<requests, load>>
      BY <1>8, <2>4 DEF ReportReceived, kv
    <3> QED
      BY <2>1, <2>3, <3>1 DEF LoadsInv
  <2>5. CASE req[r].status # "WAITING_FOR_REMOTE_KVS"
    <3>1. recv' = recv /\ requests' = requests \ {r} /\ load' = [load EXCEPT ![r] = "idle"]
      BY <1>8, <2>5 DEF ReportReceived, FreeRequestBlocks
    <3>2. req' = [req EXCEPT ![r] = req[r]]
      BY <1>1, <2>1
    <3> QED
      BY <1>1, <2>1, <2>3, <2>5, <3>1, <3>2, LoadDropped
  <2> QED
    BY <2>4, <2>5
<1>9. ASSUME NEW r \in Requests, ReportSent(r) PROVE LoadsInv'
  <2>1. /\ UNCHANGED <<req, recv, step>> /\ step.received = {} /\ requests' = requests \ {r}
        /\ load' = [load EXCEPT ![r] = "idle"] /\ send' = [send EXCEPT ![r] = "none"]
    BY <1>9 DEF ReportSent, FreeRequestBlocks
  <2>2. req' = [req EXCEPT ![r] = req[r]] /\ send \in [Requests -> {"none", "sending", "sent"}]
    BY <1>1, <2>1 DEF Shapes
  <2>3. send'[r] = "none" /\ r \notin requests' /\ \A s \in Requests \ {r} : load'[s] = load[s] /\ send'[s] = send[s]
    BY <1>1, <2>1, <2>2
  <2> QED
    BY <1>1, <2>1, <2>2, <2>3, LoadDropped
<1> QED
  BY <1>2, <1>3, <1>4, <1>5, <1>6, <1>7, <1>8, <1>9 DEF UpdateNext

LEMMA OtherLoads ==
  ASSUME BooksInv, BooksInv', LoadsInv, NoSessions,
         \/ ResetNext \/ ClientNext \/ WorkerNext \/ UNCHANGED vars
  PROVE  LoadsInv'
<1>1. /\ Shapes /\ ShapesInv /\ QueuesInv /\ AccountsInv
      /\ req \in [Requests -> RequestRecord] /\ requests \subseteq Requests /\ step \in HandlerLocals
      /\ load \in [Requests -> {"idle", "loading", "loaded"}]
  BY DEF BooksInv, ShapesInv, Shapes
<1>2. CASE BeginReset \/ EndReset
  <2>1. UNCHANGED <<req, requests, load, recv, send>> /\ step'.received = {}
    BY <1>2 DEF BeginReset, EndReset, Idle, kv, xfer
  <2> QED
    BY <1>1, <2>1, LoadsStand
<1>3. CASE ResetPreempt
  <2>1. PICK r \in Requests : r = Last(running)
    BY <1>1, <1>3, QueueFront DEF ResetPreempt, Shapes
  <2>2. PICK t : t = PreemptedRequest(req[r], TRUE)
    OBVIOUS
  <2>3. /\ req' = [req EXCEPT ![r] = t] /\ load' = [load EXCEPT ![r] = "idle"]
        /\ UNCHANGED <<requests, recv, send, step>> /\ step.phase = "reset" /\ running # <<>>
    BY <1>3, <2>1, <2>2 DEF ResetPreempt, PreemptRequest, FreeRequestBlocks, xfer
  <2>4. t.status = "PREEMPTED"
    BY <1>1, <2>2, PreemptedIs
  <2>5. send[r] = "none" /\ step.received = {}
    <3>1. r \in ToSet(running)
      BY <1>1, <2>1, <2>3, QueueFront DEF Shapes
    <3> QED
      BY <1>1, <2>3, <3>1, RunningIs, NothingSent, NothingReceived
  <2> QED
    BY <1>1, <2>3, <2>4, <2>5, LoadDropped
<1>4. ASSUME NEW r \in Requests, AddRequest(r) PROVE LoadsInv'
  <2>1. /\ req' = [req EXCEPT ![r] = WithStatus(req[r], "WAITING")] /\ requests' = requests \cup {r}
        /\ UNCHANGED <<load, recv, send, step>> /\ req[r].status = "NEW"
    BY <1>4 DEF AddRequest, WithStatus, kv, xfer
  <2>2. WithStatus(req[r], "WAITING").status = "WAITING"
    BY <1>1, WithStatusIs DEF Status
  <2>3. req'[r].status = "WAITING" /\ \A s \in Requests \ {r} : req'[s] = req[s]
    BY <1>1, <2>1, <2>2
  <2> QED
    BY <1>1, <2>1, <2>3 DEF LoadsInv, QueuesInv, QueuesPlaced
<1>5. ASSUME NEW r \in Abortable, Abort(r) PROVE LoadsInv'
  <2>1. r \in Requests /\ step.received = {} /\ step' = step /\ FinishRequest(r)
    BY <1>1, <1>5, Parameters, NothingReceived DEF Abort
  <2> QED
    BY <1>1, <2>1, FinishLoads
<1>6. ASSUME NEW r \in Requests, LoadDone(r) PROVE LoadsInv'
  <2>1. load' = [load EXCEPT ![r] = "loaded"] /\ UNCHANGED <<req, requests, recv, send, step>>
    BY <1>6 DEF LoadDone, xfer
  <2>2. \A s \in Requests : load[s] # "idle" => load'[s] # "idle"
    BY <1>1, <2>1
  <2> QED
    BY <1>1, <2>1, <2>2 DEF LoadsInv
<1>7. ASSUME NEW r \in Requests, SendDone(r) PROVE LoadsInv'
  <2>1. /\ send' = [send EXCEPT ![r] = "sent"] /\ UNCHANGED <<req, requests, load, recv, step>>
        /\ send[r] = "sending" /\ step.phase = "idle"
    BY <1>7 DEF SendDone, kv
  <2>2. send \in [Requests -> {"none", "sending", "sent"}] /\ step.received = {}
    BY <1>1, <2>1, NothingReceived DEF Shapes
  <2>3. \A s \in Requests : send[s] # "none" <=> send'[s] # "none"
    BY <2>1, <2>2
  <2> QED
    BY <1>1, <2>1, <2>2, <2>3 DEF LoadsInv
<1>8. CASE UNCHANGED vars
  BY <1>8 DEF LoadsInv, vars, kv, xfer
<1> QED
  BY <1>2, <1>3, <1>4, <1>5, <1>6, <1>7, <1>8 DEF ResetNext, ClientNext, WorkerNext, NoSessions

LEMMA LoadsStep ==
  ASSUME BooksInv, BooksInv', LoadsInv, NoSessions, [Next]_vars
  PROVE  LoadsInv'
BY ScheduleLoads, UpdateLoads, OtherLoads DEF Next

(* Whatever the worker reports, finds its request, in a status that the     *)
(* scheduler accepts; finished_recving and failed_recving name requests     *)
(* that wait for their load and no others; and whoever waits for a report,  *)
(* be it with nothing but blocks to give back, has a transfer to be         *)
(* reported: invalid blocks reported ahead of the load, an abort or an      *)
(* error in between lose none of them.                                      *)
THEOREM TransfersStayTracked == NoSessions /\ PadsFit => (Spec => []TransfersTracked)
<1> SUFFICES ASSUME NoSessions, PadsFit PROVE Spec => []TransfersTracked
  OBVIOUS
<1>1. Init => LoadsInv
  BY DEF Init, LoadsInv, Idle
<1>2. BooksInv /\ BooksInv' /\ LoadsInv /\ [Next]_vars => LoadsInv'
  BY LoadsStep
<1>3. BooksInv /\ LoadsInv => TransfersTracked
  <2> SUFFICES ASSUME BooksInv, LoadsInv PROVE TransfersTracked
    OBVIOUS
  <2>1. Shapes /\ QueuesInv /\ AccountsInv /\ requests \subseteq Requests /\ recv \cup failed \subseteq Requests
    BY DEF BooksInv, ShapesInv, Shapes
  <2>2. \A r \in step.received : r \in requests /\ req[r].status \in {"WAITING_FOR_REMOTE_KVS", "FINISHED"}
    BY <2>1 DEF LoadsInv, QueuesInv, QueuesPlaced
  <2>3. \A r \in Requests : send[r] # "none" => r \in requests /\ req[r].status = "FINISHED"
    BY DEF LoadsInv
  <2>4. recv \cup failed \subseteq {r \in requests : req[r].status = "WAITING_FOR_REMOTE_KVS"}
    BY <2>1 DEF AccountsInv, Account, Unfinished
  <2>5. /\ \A r \in requests : AwaitsLoad(r) => load[r] # "idle"
        /\ \A r \in requests : req[r].status = "FINISHED" => load[r] # "idle" \/ send[r] # "none"
    BY DEF LoadsInv, AwaitsLoad
  <2> QED
    BY <2>2, <2>3, <2>4, <2>5, Zenon DEF TransfersTracked
<1> QED
  BY <1>1, <1>2, <1>3, BooksHold, PTL DEF Spec

-------------------------------------------------------------------------------
(* Quanta: what schedule() puts into a step.                                *)

(* The same requests are to be scheduled, under the same threshold.         *)
Schedules ==
    /\ Scheduling /\ Scheduling' /\ step'.threshold = step.threshold
    /\ \A s \in Requests : s \in Unfinished' <=> s \in Unfinished

(* Nobody is scheduled.                                                     *)
Passes ==
    /\ step'.batch = step.batch /\ step'.budget = step.budget
    /\ Len(running') <= Len(running)

(* r is scheduled with n tokens, and may have been admitted for it.         *)
Extends(r, n, k) ==
    /\ n \in Int /\ n > 0 /\ n <= step.budget /\ (step.threshold > 0 => n <= step.threshold)
    /\ Append(step.batch, Scheduled(r, n, k)) \in Seq(BatchEntry)
    /\ step'.batch = Append(step.batch, Scheduled(r, n, k))
    /\ step'.budget = step.budget - n
    /\ \/ running' = running
       \/ running' = Append(running, r) /\ Len(running) + numWaitingForStreaming < MaxNumRunningReqs

LEMMA SameUnfinished ==
  ASSUME requests' = requests,
         \A s \in requests : req'[s].status = "FINISHED" <=> req[s].status = "FINISHED"
  PROVE  \A s \in Requests : s \in Unfinished' <=> s \in Unfinished
BY DEF Unfinished

(* schedule() goes past a request of `running`, or preempts one.            *)
LEMMA RunningPasses ==
  ASSUME BooksInv, SkipRunning \/ EndRunning \/ PreemptForBlocks
  PROVE  Schedules /\ Passes
<1>1. /\ Shapes /\ QueuesInv /\ AccountsInv /\ step \in HandlerLocals /\ running \in Seq(Requests)
      /\ req \in [Requests -> RequestRecord] /\ requests \subseteq Requests /\ Len(running) \in Nat
  BY DEF BooksInv, ShapesInv, Shapes
<1>2. CASE SkipRunning
  <2>1. step' = WithIdx(step, step.idx + 1) /\ step.phase = "running"
    BY <1>2 DEF SkipRunning, WithIdx, MoreRunning
  <2>2. step.idx + 1 \in Nat \ {0}
    BY <1>1, LocalsTypes
  <2>3. /\ step'.phase = "running" /\ step'.threshold = step.threshold
        /\ step'.batch = step.batch /\ step'.budget = step.budget
    BY <1>1, <2>1, <2>2, WithIdxIs
  <2>4. UNCHANGED <<req, requests, running>>
    BY <1>2 DEF SkipRunning, queues
  <2> QED
    BY <1>1, <2>1, <2>3, <2>4, SameUnfinished DEF Schedules, Passes, Scheduling
<1>3. CASE EndRunning
  <2>1. PICK p \in {"emit", "waiting"} : step' = WithPhase(step, p) /\ step.phase = "running"
    BY <1>3 DEF EndRunning, WithPhase
  <2>2. p \in Phases
    BY DEF Phases
  <2>3. /\ step'.phase = p /\ step'.threshold = step.threshold
        /\ step'.batch = step.batch /\ step'.budget = step.budget
    BY <1>1, <2>1, <2>2, WithPhaseIs
  <2>4. UNCHANGED <<req, requests, running>>
    BY <1>3 DEF EndRunning, queues
  <2> QED
    BY <1>1, <2>1, <2>3, <2>4, SameUnfinished DEF Schedules, Passes, Scheduling
<1>4. CASE PreemptForBlocks
  <2>1. PICK p \in {"emit", "running"} : step' = WithPreempted(step, TRUE, p) /\ step.phase = "running"
    BY <1>4 DEF PreemptForBlocks, WithPreempted, MoreRunning
  <2>2. p \in Phases /\ TRUE \in BOOLEAN
    BY DEF Phases
  <2>3. /\ step'.phase = p /\ step'.threshold = step.threshold
        /\ step'.batch = step.batch /\ step'.budget = step.budget
    BY <1>1, <2>1, <2>2, WithPreemptedIs, ZenonT(60)
  <2>4. running # <<>> /\ running' = Front(running)
    BY <1>1, <1>4, CurrentType DEF PreemptForBlocks
  <2>5. Len(running') <= Len(running)
    BY <1>1, <2>4, FrontAt
  <2>6. PICK r : r = Last(running)
    OBVIOUS
  <2>7. r \in ToSet(running)
    BY <1>1, <2>4, <2>6, QueueFront
  <2>8. r \in Requests /\ req[r].status = "RUNNING" /\ req[r] \in RequestRecord
    BY <1>1, <2>1, <2>7, RunningIs
  <2>9. PICK t : t = PreemptedRequest(req[r], RequiresKVDelivery)
    OBVIOUS
  <2>10. t.status = "PREEMPTED"
    BY <2>8, <2>9, Parameters, PreemptedIs
  <2>11. req' = [req EXCEPT ![r] = t] /\ requests' = requests
    BY <1>4, <2>6, <2>9 DEF PreemptForBlocks, PreemptRequest
  <2>12. \A s \in requests : req'[s].status = "FINISHED" <=> req[s].status = "FINISHED"
    BY <1>1, <2>8, <2>10, <2>11
  <2> QED
    BY <2>1, <2>3, <2>5, <2>11, <2>12, SameUnfinished DEF Schedules, Passes, Scheduling
<1> QED
  BY <1>2, <1>3, <1>4

(* schedule() goes past a waiting request, promotes one, or starts a load.  *)
LEMMA WaitingPasses ==
  ASSUME BooksInv,
         \/ SkipWaiting \/ PromoteLoaded \/ EndWaiting
         \/ \E ext \in LoadableTokens : AdmitLoad(ext)
         \/ \E ext \in LoadableTokens \cup {0} : BreakWaiting(ext)
  PROVE  Schedules /\ Passes
<1>1. /\ Shapes /\ QueuesInv /\ AccountsInv /\ step \in HandlerLocals /\ running \in Seq(Requests)
      /\ req \in [Requests -> RequestRecord] /\ requests \subseteq Requests /\ Len(running) \in Nat
      /\ step.skipped \in Seq(Requests)
  BY LocalsTypes DEF BooksInv, ShapesInv, Shapes
<1>2. step.phase = "waiting"
  BY DEF SkipWaiting, PromoteLoaded, EndWaiting, AdmitLoad, BreakWaiting, MoreWaiting
<1>3. ASSUME step'.phase \in {"waiting", "emit"}, step'.threshold = step.threshold,
             step'.batch = step.batch, step'.budget = step.budget, running' = running,
             requests' = requests,
             \A s \in requests : req'[s].status = "FINISHED" <=> req[s].status = "FINISHED"
      PROVE  Schedules /\ Passes
  BY <1>1, <1>2, <1>3, SameUnfinished DEF Schedules, Passes, Scheduling
<1>4. CASE EndWaiting \/ \E ext \in LoadableTokens \cup {0} : BreakWaiting(ext)
  <2>1. step' = WithPhase(step, "emit") /\ "emit" \in Phases /\ UNCHANGED <<req, requests, running>>
    BY <1>4 DEF EndWaiting, BreakWaiting, WithPhase, Phases, queues
  <2>2. /\ step'.phase = "emit" /\ step'.threshold = step.threshold
        /\ step'.batch = step.batch /\ step'.budget = step.budget
    BY <1>1, <2>1, WithPhaseIs
  <2> QED
    BY <1>3, <2>1, <2>2
<1>5. ASSUME NEW r \in Requests, step' = WithSkipped(step, <<r>> \o step.skipped)
      PROVE  /\ step'.phase = "waiting" /\ step'.threshold = step.threshold
             /\ step'.batch = step.batch /\ step'.budget = step.budget
  <2>1. <<r>> \o step.skipped \in Seq(Requests)
    BY <1>1, QueueCons
  <2> QED
    BY <1>1, <1>2, <1>5, <2>1, WithSkippedIs
<1>6. CASE SkipWaiting
  <2>1. PICK r \in Requests : r = Candidate
    BY <1>1, <1>6, CandidateType DEF SkipWaiting
  <2>2. step' = WithSkipped(step, <<r>> \o step.skipped) /\ UNCHANGED <<req, requests, running>>
    BY <1>6, <2>1 DEF SkipWaiting, WithSkipped
  <2> QED
    BY <1>3, <1>5, <2>2
<1>7. CASE PromoteLoaded
  <2>1. PICK r \in Requests : r = Candidate
    BY <1>1, <1>7, CandidateType DEF PromoteLoaded
  <2>2. req[r].status = "WAITING_FOR_REMOTE_KVS" /\ UNCHANGED <<requests, running, step>>
    BY <1>7, <2>1 DEF PromoteLoaded, queues
  <2>3. PICK x \in {"PREEMPTED", "WAITING"} : x = IF req[r].preempted THEN "PREEMPTED" ELSE "WAITING"
    OBVIOUS
  <2>4. PICK n : n = IF r \notin failed /\ req[r].computed = req[r].all THEN req[r].all - 1 ELSE req[r].computed
    OBVIOUS
  <2>5. req' = [req EXCEPT ![r].status = x, ![r].computed = n]
    BY <1>7, <2>1, <2>3, <2>4 DEF PromoteLoaded
  <2>6. PICK t : req' = [req EXCEPT ![r] = t] /\ t.status = x
    <3>1. req' = [req EXCEPT ![r] = WithAdmission(req[r], x, n)]
      BY <1>1, <2>5 DEF WithAdmission
    <3>2. WithAdmission(req[r], x, n).status = x
      BY <1>1 DEF WithAdmission, RequestRecord
    <3> QED
      BY <3>1, <3>2
  <2>7. \A s \in requests : req'[s].status = "FINISHED" <=> req[s].status = "FINISHED"
    BY <1>1, <2>2, <2>5, <2>6
  <2> QED
    BY <1>2, <1>3, <2>2, <2>7
<1>8. ASSUME NEW ext \in LoadableTokens, AdmitLoad(ext) PROVE Schedules /\ Passes
  <2>1. PICK r \in Requests : r = Candidate /\ req[r].status \in {"WAITING", "PREEMPTED"}
    BY <1>1, <1>8, CandidateType DEF AdmitLoad, Admissible
  <2>2. step' = WithSkipped(step, <<r>> \o step.skipped) /\ UNCHANGED <<requests, running>>
    BY <1>8, <2>1 DEF AdmitLoad, WithSkipped
  <2>3. (\A s \in Requests \ {r} : req'[s] = req[s]) /\ req'[r].status = "WAITING_FOR_REMOTE_KVS"
    <3>1. PICK t : t = WithAdmission(req[r], "WAITING_FOR_REMOTE_KVS", ext)
      OBVIOUS
    <3>2. t.status = "WAITING_FOR_REMOTE_KVS"
      BY <1>1, <3>1 DEF WithAdmission, RequestRecord
    <3>3. req' = [req EXCEPT ![r] = t]
      BY <1>1, <1>8, <2>1, <3>1 DEF AdmitLoad, WithAdmission
    <3> QED
      BY <1>1, <3>2, <3>3
  <2>4. \A s \in requests : req'[s].status = "FINISHED" <=> req[s].status = "FINISHED"
    BY <1>1, <2>1, <2>3
  <2> QED
    BY <1>3, <1>5, <2>2, <2>4
<1> QED
  BY <1>4, <1>6, <1>7, <1>8

(* A running request goes on: within the threshold and the budget.          *)
LEMMA RunningExtends ==
  ASSUME BooksInv, ScheduleRunning
  PROVE  Schedules /\ \E r \in Requests, n \in Int, k \in Int : Extends(r, n, k)
<1>1. /\ Shapes /\ QueuesInv /\ AccountsInv /\ step \in HandlerLocals /\ running \in Seq(Requests)
      /\ req \in [Requests -> RequestRecord] /\ requests \subseteq Requests
      /\ step.idx \in Nat \ {0} /\ step.budget \in Int /\ step.threshold \in Int
      /\ step.prefill \in BOOLEAN
  BY LocalsTypes DEF BooksInv, ShapesInv, Shapes
<1>2. MoreRunning /\ step.phase = "running"
  BY DEF ScheduleRunning, MoreRunning
<1>3. PICK r \in Requests : r = Current
  BY <1>1, <1>2, CurrentType
<1>4. r \notin BatchIds(step.batch)
  <2>1. ASSUME NEW i \in DOMAIN step.batch PROVE step.batch[i].r # r
    <3>1. Promised(step.batch[i])
      BY <1>1 DEF AccountsInv, BatchInv
    <3>2. PICK p \in 1 .. step.idx - 1 : p <= Len(running) /\ running[p] = step.batch[i].r
      BY <1>2, <3>1 DEF Promised
    <3>3. p \in DOMAIN running /\ p # step.idx
      BY <1>1, <3>2
    <3>4. step.idx \in DOMAIN running /\ running[step.idx] = r /\ IsInjective(running)
      BY <1>1, <1>2, <1>3, CurrentType DEF Current, QueuesInv, QueuesPlaced, QueuesApart
    <3> QED
      BY <3>2, <3>3, <3>4 DEF IsInjective
  <2> QED
    BY <2>1 DEF BatchIds
<1>5. PICK n : n = NewTokens(req[r])
  OBVIOUS
<1>6. PICK k : k = DraftsScheduled(req[r], n)
  OBVIOUS
<1>7. n \in Int /\ n > 0 /\ k \in Int
  <2>1. ~Skippable(req[r])
    BY <1>3 DEF ScheduleRunning
  <2>2. n \in Int /\ n > 0 /\ k \in 0 .. NumSpecTokens
    BY <1>1, <1>2, <1>4, <1>6, <1>5, <1>3, <2>1, NewTokensAre
  <2> QED
    BY <2>2
<1>8. n <= step.budget /\ (step.threshold > 0 => n <= step.threshold)
  <2>1. PICK q \in RequestRecord : q = req[r]
    BY <1>1
  <2>2. PICK x \in Int : x = q.all + q.spec + q.placeholders - q.computed
    BY RequestTypes, SMTT(60)
  <2>3. PICK y \in Int : y = Capped(x) /\ (step.threshold > 0 => y <= step.threshold)
    BY <1>1 DEF Capped
  <2>4. PICK z \in Int : z = MaxModelLen - q.computed - 1
    BY Parameters, RequestTypes, SMTT(60)
  <2>5. n = Least(Least(y, step.budget), z)
    BY <1>5, <2>1, <2>2, <2>3, <2>4 DEF NewTokens
  <2> QED
    BY <1>1, <2>3, <2>5 DEF Least
<1>9. PICK b \in BOOLEAN : b = (step.prefill \/ req[r].chunk)
  BY <1>1
<1>10. PICK B \in Seq(BatchEntry) : B = Append(step.batch, Scheduled(r, n, k))
  BY <1>1, <1>7, ScheduledType
<1>11. PICK m \in Int : m = step.budget - n
  BY <1>1, <1>7
<1>12. PICK i \in Nat \ {0} : i = step.idx + 1
  BY <1>1
<1>13. step' = WithScheduled(step, i, m, TRUE, b, B)
  BY <1>9, <1>10, <1>11, <1>12, <1>6, <1>5, <1>3 DEF ScheduleRunning, WithScheduled
<1>14. step'.phase = "running" /\ step'.threshold = step.threshold /\ step'.budget = m /\ step'.batch = B
  <2>1. PICK a \in BOOLEAN : a = TRUE
    OBVIOUS
  <2>2. PICK s \in HandlerLocals : s = step
    BY <1>1
  <2>3. PICK t : t = WithScheduled(s, i, m, a, b, B)
    OBVIOUS
  <2>4. t.phase = s.phase /\ t.threshold = s.threshold /\ t.budget = m /\ t.batch = B
    BY <2>3, WithScheduledIs, SMTT(60)
  <2>5. step' = t
    BY <1>13, <2>1, <2>2, <2>3
  <2> QED
    BY <1>2, <2>2, <2>4, <2>5
<1>15. UNCHANGED <<requests, running>>
  BY DEF ScheduleRunning, queues
<1>16. \A s \in requests : req'[s].status = "FINISHED" <=> req[s].status = "FINISHED"
  <2>1. req' = [req EXCEPT ![r] = WithSpec(req[r], 0)]
    BY <1>3 DEF ScheduleRunning, WithSpec
  <2>2. WithSpec(req[r], 0).status = req[r].status
    BY <1>1, WithSpecIs
  <2> QED
    BY <1>1, <2>1, <2>2
<1>17. Schedules
  BY <1>2, <1>14, <1>15, <1>16, SameUnfinished DEF Schedules, Scheduling
<1>18. Extends(r, n, k)
  BY <1>7, <1>8, <1>10, <1>11, <1>14, <1>15 DEF Extends
<1> QED
  BY <1>7, <1>17, <1>18

(* A waiting request is admitted: within the threshold and the budget, too. *)
LEMMA AdmittedExtends ==
  ASSUME BooksInv, PadsFit, AdmitRunning
  PROVE  Schedules /\ \E r \in Requests, n \in Int, k \in Int : Extends(r, n, k)
<1>1. /\ Shapes /\ QueuesInv /\ AccountsInv /\ step \in HandlerLocals /\ running \in Seq(Requests)
      /\ req \in [Requests -> RequestRecord] /\ requests \subseteq Requests
      /\ step.budget \in Int /\ step.threshold \in Int
  BY LocalsTypes DEF BooksInv, ShapesInv, Shapes
<1>2. MoreWaiting /\ step.phase = "waiting" /\ Len(running) + numWaitingForStreaming < MaxNumRunningReqs
  BY DEF AdmitRunning, MoreWaiting
<1>3. PICK r \in Requests : r = Candidate
  BY <1>1, <1>2, CandidateType
<1>4. PICK n : n = AdmittedTokens(r)
  OBVIOUS
<1>5. PICK k : k = IF Padded(r) THEN NumSpecTokens ELSE 0
  OBVIOUS
<1>6. Admissible(r) /\ (Padded(r) => PadFits(r))
  BY <1>3 DEF AdmitRunning, RunFits
<1>7. n \in Int /\ n > 0 /\ k \in Int
  <2>1. n \in Int /\ n > 0 /\ k \in 0 .. NumSpecTokens
    BY <1>1, <1>2, <1>6, <1>5, <1>4, <1>3, AdmittedTokensAre
  <2> QED
    BY <2>1
<1>8. n <= step.budget /\ (step.threshold > 0 => n <= step.threshold)
  <2>1. PICK q \in RequestRecord : q = req[r]
    BY <1>1
  <2>2. PICK x \in Int : x = IF Padded(r) THEN 1 + NumSpecTokens ELSE req[r].all - req[r].computed
    <3>1. 1 + NumSpecTokens \in Int /\ q.all - q.computed \in Int
      BY Parameters, RequestTypes
    <3> QED
      BY <2>1, <3>1
  <2>3. PICK y \in Int : y = Capped(x) /\ (step.threshold > 0 => y <= step.threshold)
    BY <1>1 DEF Capped
  <2>4. n = Least(y, step.budget)
    BY <1>4, <2>2, <2>3 DEF AdmittedTokens
  <2> QED
    BY <1>1, <2>3, <2>4 DEF Least
<1>9. PICK B \in Seq(BatchEntry) : B = Append(step.batch, Scheduled(r, n, k))
  BY <1>1, <1>7, ScheduledType
<1>10. PICK m \in Int : m = step.budget - n
  BY <1>1, <1>7
<1>11. step' = WithAdmitted(step, m, B)
  BY <1>9, <1>10, <1>5, <1>4, <1>3 DEF AdmitRunning, WithAdmitted
<1>12. step'.phase = "waiting" /\ step'.threshold = step.threshold /\ step'.budget = m /\ step'.batch = B
  BY <1>1, <1>2, <1>11, WithAdmittedIs
<1>13. /\ req' = [req EXCEPT ![r] = WithStatus(req[r], "RUNNING")] /\ "RUNNING" \in Status
       /\ requests' = requests /\ running' = Append(running, r)
  BY <1>3 DEF AdmitRunning, WithStatus, Status
<1>14. \A s \in requests : req'[s].status = "FINISHED" <=> req[s].status = "FINISHED"
  <2>1. WithStatus(req[r], "RUNNING").status = "RUNNING"
    BY <1>1, <1>13, WithStatusIs
  <2>2. req[r].status # "FINISHED"
    BY <1>6 DEF Admissible
  <2> QED
    BY <1>1, <1>13, <2>1, <2>2
<1>15. Schedules
  BY <1>2, <1>12, <1>13, <1>14, SameUnfinished DEF Schedules, Scheduling
<1>16. Extends(r, n, k)
  BY <1>2, <1>7, <1>8, <1>9, <1>10, <1>12, <1>13 DEF Extends
<1> QED
  BY <1>7, <1>15, <1>16

(* Every other step is outside of schedule(), or its last.                  *)
Outside == EndSchedule \/ UpdateNext \/ ResetNext \/ ClientNext \/ WorkerNext

LEMMA OutsideSchedule ==
  ASSUME Shapes, NoSessions, Outside
  PROVE  ~Scheduling' /\ step'.budget \in {0, step.budget}
<1>1. step \in HandlerLocals /\ Idle.budget = 0 /\ Idle.phase = "idle" /\ Idle \in HandlerLocals
  BY IdleAccounts, IdleFields DEF Shapes
<1>2. ASSUME step'.phase \notin {"running", "waiting", "emit"}, step'.budget \in {0, step.budget}
      PROVE  ~Scheduling' /\ step'.budget \in {0, step.budget}
  BY <1>2 DEF Scheduling
<1>3. CASE EndSchedule \/ EndUpdate \/ EndReset
  <2>1. step' = Idle /\ step.phase # "update"
    BY <1>3 DEF EndSchedule, EndUpdate, EndReset
  <2> QED
    BY <1>1, <1>2, <2>1, SMTT(60)
<1>4. CASE BeginReset
  <2>1. step' = WithPhase(Idle, "reset") /\ "reset" \in Phases /\ step.phase = "idle"
    BY <1>4 DEF BeginReset, WithPhase, Phases
  <2>2. step'.phase = "reset" /\ step'.budget = 0
    BY <1>1, <2>1, WithPhaseIs
  <2> QED
    BY <1>2, <2>1, <2>2
<1>5. CASE BeginUpdate
  <2>1. step'.phase = "update" /\ step'.budget = 0 /\ step.phase = "idle"
    BY <1>5 DEF BeginUpdate, Idle
  <2> QED
    BY <1>2, <2>1
<1>6. CASE RemoveStopped
  <2>1. step' = WithPhase(step, "transfers") /\ "transfers" \in Phases
    BY <1>6 DEF RemoveStopped, WithPhase, Phases
  <2>2. step'.phase = "transfers" /\ step'.budget = step.budget
    BY <1>1, <2>1, WithPhaseIs
  <2> QED
    BY <1>2, <1>6, <2>2
<1>7. CASE SkipEntry \/ \E g, m \in 1 .. NumSpecTokens + 1, eos \in BOOLEAN : UpdateEntry(g, m, eos)
  <2>1. step.phase = "update"
    <3>1. SkipEntry => NextEntry
      BY SMTT(60) DEF SkipEntry
    <3>2. ASSUME NEW g, NEW m, NEW eos, UpdateEntry(g, m, eos) PROVE NextEntry
      BY <3>2 DEF UpdateEntry
    <3>3. NextEntry => step.phase = "update"
      BY DEF NextEntry
    <3> QED
      BY <1>7, <3>1, <3>2, <3>3
  <2>2. SkipEntry => step'.phase = step.phase /\ step'.budget = step.budget
    BY <1>1, SMTT(60) DEF SkipEntry, HandlerLocals
  <2>3. ASSUME NEW g, NEW m, NEW eos, UpdateEntry(g, m, eos)
        PROVE  step'.phase = step.phase /\ step'.budget = step.budget
    BY <1>1, <2>3 DEF UpdateEntry, HandlerLocals
  <2> QED
    BY <1>2, <1>7, <2>1, <2>2, <2>3
<1>8. ASSUME NEW r \in Requests, FinishFailed(r) \/ ReportReceived(r) \/ ReportSent(r)
      PROVE  step.phase = "transfers" /\ step'.phase = step.phase /\ step'.budget = step.budget
  BY <1>1, <1>8 DEF FinishFailed, ReportReceived, ReportSent, HandlerLocals
<1>9. CASE ResetPreempt
  BY <1>2, <1>9 DEF ResetPreempt
<1>10. CASE ClientNext \/ WorkerNext
  <2>1. step.phase = "idle" /\ step' = step
    BY <1>10 DEF ClientNext, NoSessions, AddRequest, Abort, WorkerNext, LoadDone, SendDone
  <2> QED
    BY <1>2, <2>1
<1> QED
  BY <1>2, <1>3, <1>4, <1>5, <1>6, <1>7, <1>8, <1>9, <1>10 DEF Outside, UpdateNext, ResetNext

(* schedule() begins: nobody else is there if the threshold is not applied. *)
LEMMA BeginsAlone ==
  ASSUME BooksInv, BeginSchedule
  PROVE  /\ step'.batch = <<>> /\ step'.budget = MaxNumScheduledTokens
         /\ step'.threshold \in {0, LongPrefillTokenThreshold}
         /\ step'.threshold = 0 /\ LongPrefillTokenThreshold > 0 => \A q, r \in Unfinished' : q = r
         /\ UNCHANGED <<req, requests, running, numWaitingForStreaming>>
<1>1. /\ Shapes /\ QueuesInv /\ Idle \in HandlerLocals /\ Idle.batch = <<>>
      /\ running \in Seq(Requests) /\ waiting \in Seq(Requests) /\ skipped \in Seq(Requests)
      /\ Len(running) \in Nat /\ Len(waiting) \in Nat /\ Len(skipped) \in Nat
  BY IdleAccounts DEF BooksInv, ShapesInv, Shapes
<1>2. UNCHANGED <<req, requests, running, numWaitingForStreaming>> /\ step.phase = "idle"
  BY DEF BeginSchedule, queues
<1>3. PICK h \in Int : h = IF NumQueued <= 1 THEN 0 ELSE LongPrefillTokenThreshold
  BY Parameters
<1>4. step' = WithBudget(Idle, "running", MaxNumScheduledTokens, h)
  BY <1>3 DEF BeginSchedule, WithBudget
<1>5. MaxNumScheduledTokens \in Int /\ "running" \in Phases
  BY Parameters DEF Phases
<1>6. step'.batch = <<>> /\ step'.budget = MaxNumScheduledTokens /\ step'.threshold = h
  BY <1>1, <1>4, <1>5, WithBudgetIs
<1>7. ASSUME h = 0, LongPrefillTokenThreshold > 0, NEW q \in Unfinished, NEW r \in Unfinished
      PROVE  q = r
  <2>1. Len(running) + Len(waiting) + Len(skipped) <= 1
    BY <1>3, <1>7 DEF NumQueued
  <2>2. AllQueued = Unfinished /\ step.skipped = <<>>
    BY <1>1, <1>2 DEF QueuesInv, QueuesPlaced, Leaving
  <2>3. Unfinished = ToSet(running) \cup ToSet(waiting) \cup ToSet(skipped)
    BY <2>2, EmptyQueue DEF AllQueued
  <2>4. \/ Len(running) = 0 /\ Len(waiting) = 0
        \/ Len(running) = 0 /\ Len(skipped) = 0
        \/ Len(waiting) = 0 /\ Len(skipped) = 0
    <3>1. PICK i \in Nat, j \in Nat, k \in Nat : i = Len(running) /\ j = Len(waiting) /\ k = Len(skipped)
      BY <1>1
    <3>2. i + j + k <= 1
      BY <2>1, <3>1
    <3>3. (i = 0 /\ j = 0) \/ (i = 0 /\ k = 0) \/ (j = 0 /\ k = 0)
      BY <3>2
    <3> QED
      BY <3>1, <3>3
  <2>5. ASSUME NEW s \in Seq(Requests), Len(s) = 0 PROVE ToSet(s) = {}
    BY <2>5 DEF ToSet
  <2>6. ASSUME NEW s \in Seq(Requests), Len(s) <= 1, q \in ToSet(s), r \in ToSet(s) PROVE q = r
    BY <2>6 DEF ToSet
  <2> QED
    BY <1>1, <2>1, <2>3, <2>4, <2>5, <2>6
<1>8. \A s \in Requests : s \in Unfinished' <=> s \in Unfinished
  BY <1>2, SameUnfinished
<1>9. Unfinished' \subseteq Requests
  BY <1>1, <1>2 DEF Unfinished, Shapes
<1> QED
  BY <1>2, <1>3, <1>6, <1>7, <1>8, <1>9

LEMMA ScheduleCases ==
  ASSUME BooksInv, PadsFit, NoSessions, [Next]_vars
  PROVE  \/ BeginSchedule
         \/ Schedules /\ (Passes \/ \E r \in Requests, n \in Int, k \in Int : Extends(r, n, k))
         \/ Outside /\ ~Scheduling' /\ step'.budget \in {0, step.budget}
         \/ UNCHANGED vars
<1>1. CASE ScheduleNext /\ ~BeginSchedule /\ ~EndSchedule
  BY <1>1, RunningPasses, WaitingPasses, RunningExtends, AdmittedExtends DEF ScheduleNext
<1>2. CASE Outside
  BY <1>2, OutsideSchedule DEF BooksInv, ShapesInv
<1> QED
  BY <1>1, <1>2 DEF Next, Outside

LEMMA ExtendedBatch ==
  ASSUME Shapes, NEW e, Append(step.batch, e) \in Seq(BatchEntry), step'.batch = Append(step.batch, e)
  PROVE  /\ Len(step'.batch) = Len(step.batch) + 1 /\ Len(step.batch) \in Nat /\ step.batch \in Seq(BatchEntry)
         /\ DOMAIN step'.batch = 1 .. Len(step.batch) + 1 /\ DOMAIN step.batch = 1 .. Len(step.batch)
         /\ \A i \in 1 .. Len(step.batch) : step'.batch[i] = step.batch[i]
         /\ step'.batch[Len(step.batch) + 1] = e
<1>1. PICK b \in Seq(BatchEntry) : b = step.batch
  BY LocalsTypes DEF Shapes
<1>2. /\ Len(Append(b, e)) = Len(b) + 1 /\ Len(b) \in Nat /\ DOMAIN b = 1 .. Len(b)
      /\ DOMAIN Append(b, e) = 1 .. Len(b) + 1
      /\ \A i \in 1 .. Len(b) : Append(b, e)[i] = b[i]
      /\ Append(b, e)[Len(b) + 1] = e
  BY <1>1
<1> QED
  BY <1>1, <1>2

LEMMA AloneStep ==
  ASSUME BooksInv, BooksInv', PadsFit, NoSessions, AloneInv, [Next]_vars
  PROVE  AloneInv'
<1>1. Shapes /\ Shapes' /\ step.threshold \in Int /\ Unfinished' \subseteq Requests
  BY LocalsTypes DEF BooksInv, ShapesInv, Shapes, Unfinished
<1>2. CASE BeginSchedule
  BY <1>2, BeginsAlone DEF AloneInv
<1>3. CASE ~Scheduling'
  BY <1>3 DEF AloneInv
<1>4. CASE UNCHANGED vars
  <2>1. Scheduling' <=> Scheduling
    BY <1>4 DEF vars, Scheduling
  <2>2. step' = step /\ Unfinished' = Unfinished
    BY <1>4 DEF vars, Unfinished
  <2> QED
    BY <2>1, <2>2 DEF AloneInv
<1>5. ASSUME Schedules,
             step'.threshold > 0 => \A i \in DOMAIN step'.batch : step'.batch[i].n <= step'.threshold
      PROVE  AloneInv'
  BY <1>1, <1>5 DEF AloneInv, Schedules
<1>6. CASE Schedules /\ Passes
  BY <1>5, <1>6 DEF AloneInv, Schedules, Passes
<1>7. ASSUME NEW r \in Requests, NEW n \in Int, NEW k \in Int, Schedules, Extends(r, n, k)
      PROVE  AloneInv'
  <2>1. PICK e : e = Scheduled(r, n, k)
    OBVIOUS
  <2>2. e.n = n
    BY <2>1 DEF Scheduled
  <2>3. /\ DOMAIN step'.batch = 1 .. Len(step.batch) + 1 /\ DOMAIN step.batch = 1 .. Len(step.batch)
        /\ \A i \in 1 .. Len(step.batch) : step'.batch[i] = step.batch[i]
        /\ step'.batch[Len(step.batch) + 1] = e /\ Len(step.batch) \in Nat
    BY <1>1, <1>7, <2>1, ExtendedBatch DEF Extends
  <2>4. ASSUME step'.threshold > 0, NEW i \in DOMAIN step'.batch
        PROVE  step'.batch[i].n <= step'.threshold
    <3>1. step'.threshold = step.threshold /\ Scheduling /\ n <= step.threshold
      BY <1>7, <2>4 DEF Schedules, Extends
    <3>2. CASE i \in 1 .. Len(step.batch)
      BY <2>3, <2>4, <3>1, <3>2 DEF AloneInv
    <3>3. CASE i = Len(step.batch) + 1
      BY <2>2, <2>3, <3>1, <3>3
    <3> QED
      BY <2>3, <3>2, <3>3
  <2> QED
    BY <1>5, <1>7, <2>4
<1> QED
  BY <1>2, <1>3, <1>4, <1>6, <1>7, ScheduleCases

(* A step with more tokens of a request than the threshold is one that      *)
(* nobody else could be in: a long prefill is not held to the threshold     *)
(* only where it is alone.                                                  *)
THEOREM LongPrefillsAlone == NoSessions /\ PadsFit => (Spec => []FullQuantumOnlyAlone)
<1> SUFFICES ASSUME NoSessions, PadsFit PROVE Spec => []FullQuantumOnlyAlone
  OBVIOUS
<1>1. Init => AloneInv
  BY IdleFields DEF Init, AloneInv, Scheduling
<1>2. BooksInv /\ BooksInv' /\ AloneInv /\ [Next]_vars => AloneInv'
  BY AloneStep
<1>3. BooksInv /\ AloneInv => FullQuantumOnlyAlone
  <2> SUFFICES ASSUME BooksInv, AloneInv, LongPrefillTokenThreshold > 0,
                      NEW i \in DOMAIN step.batch, step.batch[i].n > LongPrefillTokenThreshold,
                      NEW r \in requests, req[r].status # "FINISHED"
               PROVE  r = step.batch[i].r
    BY DEF FullQuantumOnlyAlone
  <2>1. BatchInv /\ step.batch # <<>>
    BY DEF BooksInv, AccountsInv
  <2>2. Scheduling /\ step.threshold \in {0, LongPrefillTokenThreshold} /\ Promised(step.batch[i])
    BY <2>1 DEF BatchInv
  <2>3. step.batch[i].n \in Int /\ LongPrefillTokenThreshold \in Int
    <3>1. step.batch \in Seq(BatchEntry)
      BY LocalsTypes DEF BooksInv, ShapesInv, Shapes
    <3>2. step.batch[i] \in BatchEntry
      BY <3>1
    <3> QED
      BY <3>2, Parameters DEF BatchEntry
  <2>4. step.threshold = 0
    BY <2>2, <2>3 DEF AloneInv
  <2>5. step.batch[i].r \in Unfinished /\ r \in Unfinished
    BY <2>2 DEF Promised, Unfinished
  <2> QED
    BY <2>2, <2>4, <2>5 DEF AloneInv
<1> QED
  BY <1>1, <1>2, <1>3, BooksHold, PTL DEF Spec

-------------------------------------------------------------------------------
(* The budget and the slots of the model runner.                            *)

(* The counts of a step.                                                    *)
Counts(c) == [i \in DOMAIN c |-> c[i].n]

LEMMA CountsAre ==
  ASSUME NEW c \in Seq(BatchEntry)
  PROVE  /\ Counts(c) \in Seq(Int) /\ Len(Counts(c)) = Len(c)
         /\ \A i \in 1 .. Len(c) : Counts(c)[i] = c[i].n
         /\ Tokens(c) = Sums(Counts(c))[Len(c)] /\ Tokens(c) \in Int
<1>1. DOMAIN c = 1 .. Len(c) /\ Len(c) \in Nat /\ \A i \in 1 .. Len(c) : c[i] \in BatchEntry
  OBVIOUS
<1>2. DOMAIN c = 1 .. Len(c) /\ Len(c) \in Nat /\ \A i \in 1 .. Len(c) : c[i].n \in Int
  BY <1>1 DEF BatchEntry
<1>3. Counts(c) \in [1 .. Len(c) -> Int]
  BY <1>2 DEF Counts
<1>4. Counts(c) \in Seq(Int) /\ Len(Counts(c)) = Len(c) /\ \A i \in 1 .. Len(c) : Counts(c)[i] = c[i].n
  BY <1>2, <1>3 DEF Counts
<1>5. Tokens(c) = Sums(Counts(c))[Len(c)]
  BY <1>4 DEF Tokens, Total, Counts
<1>6. Sums(Counts(c)) \in [0 .. Len(c) -> Int] /\ Len(c) \in 0 .. Len(c)
  BY <1>2, <1>4, SumsAre
<1> QED
  BY <1>4, <1>5, <1>6

LEMMA EmptyTokens == Tokens(<<>>) = 0
<1>1. <<>> \in Seq(BatchEntry) /\ Len(<<>>) = 0
  OBVIOUS
<1> QED
  BY <1>1, CountsAre, SumsAre

LEMMA TokensAppend ==
  ASSUME NEW b \in Seq(BatchEntry), NEW e \in BatchEntry
  PROVE  Tokens(Append(b, e)) = Tokens(b) + e.n /\ Tokens(b) \in Int
<1>1. Append(b, e) \in Seq(BatchEntry) /\ Len(b) \in Nat
  OBVIOUS
<1>2. PICK c \in Seq(BatchEntry) : c = Append(b, e)
  BY <1>1
<1>3. PICK v \in Seq(Int), u \in Seq(Int) : v = Counts(b) /\ u = Counts(c)
  BY CountsAre
<1>4. PICK N \in Nat : N = Len(b)
  BY <1>1
<1>5. Len(c) = N + 1 /\ c[N + 1] = e /\ \A i \in 1 .. N : c[i] = b[i]
  BY <1>2, <1>4
<1>6. /\ Len(v) = N /\ Len(u) = N + 1 /\ u[N + 1] = e.n
      /\ \A i \in 1 .. N : u[i] = v[i]
      /\ Tokens(b) = Sums(v)[N] /\ Tokens(b) \in Int /\ Tokens(c) = Sums(u)[N + 1]
  <2>1. /\ Len(v) = N /\ (\A i \in 1 .. N : v[i] = b[i].n)
        /\ Tokens(b) = Sums(v)[N] /\ Tokens(b) \in Int
    BY <1>3, <1>4, CountsAre
  <2>2. /\ Len(u) = N + 1 /\ (\A i \in 1 .. N + 1 : u[i] = c[i].n) /\ Tokens(c) = Sums(u)[N + 1]
    BY <1>3, <1>5, CountsAre
  <2>3. N + 1 \in 1 .. N + 1 /\ \A i \in 1 .. N : i \in 1 .. N + 1
    OBVIOUS
  <2> QED
    BY <1>5, <2>1, <2>2, <2>3, ZenonT(60)
<1>7. Sums(v)[N] = Sums(u)[N]
  <2>1. N \in 0 .. Len(v) /\ N <= Len(u) /\ N \in 0 .. N /\ \A i \in 1 .. N : v[i] = u[i]
    BY <1>6
  <2> QED
    BY <2>1, SumsSame
<1>8. Sums(u)[N + 1] = Sums(u)[N] + e.n
  <2>1. N + 1 \in 1 .. Len(u) /\ (N + 1) - 1 = N
    BY <1>6
  <2>2. Sums(u)[N + 1] = Sums(u)[(N + 1) - 1] + u[N + 1]
    BY <2>1, SumsAre
  <2> QED
    BY <1>6, <2>1, <2>2
<1> QED
  BY <1>2, <1>6, <1>7, <1>8

(* Without sessions nobody waits for the input of one.                      *)
NoStreams ==
    /\ numWaitingForStreaming = 0
    /\ \A r \in Requests : req[r].status # "WAITING_FOR_STREAMING_REQ"

(* Only r changes, and does not begin to wait for input.                    *)
LEMMA OneMoves ==
  ASSUME Shapes, NoStreams, NEW r, NEW t, req' = [req EXCEPT ![r] = t],
         t.status # "WAITING_FOR_STREAMING_REQ", numWaitingForStreaming' = numWaitingForStreaming
  PROVE  NoStreams'
BY DEF NoStreams, Shapes

LEMMA ScheduleStreams ==
  ASSUME BooksInv, NoStreams, ScheduleNext
  PROVE  NoStreams'
<1>1. /\ Shapes /\ QueuesInv /\ AccountsInv /\ step \in HandlerLocals /\ running \in Seq(Requests)
      /\ req \in [Requests -> RequestRecord] /\ requests \subseteq Requests
  BY DEF BooksInv, ShapesInv, Shapes
<1>2. numWaitingForStreaming' = numWaitingForStreaming
  BY ZenonT(60) DEF ScheduleNext, BeginSchedule, SkipRunning, ScheduleRunning, PreemptForBlocks, EndRunning,
     SkipWaiting, PromoteLoaded, AdmitRunning, EndWaiting, EndSchedule, AdmitLoad, BreakWaiting, queues
<1>3. CASE \/ BeginSchedule \/ SkipRunning \/ EndRunning \/ SkipWaiting \/ EndWaiting
           \/ \E ext \in LoadableTokens \cup {0} : BreakWaiting(ext)
  <2>1. req' = req
    BY <1>3 DEF BeginSchedule, SkipRunning, EndRunning, SkipWaiting, EndWaiting, BreakWaiting
  <2> QED
    BY <1>2, <2>1 DEF NoStreams
<1>4. CASE ScheduleRunning
  <2>1. PICK r \in Requests : r = Current
    BY <1>1, <1>4, CurrentType DEF ScheduleRunning
  <2>2. req' = [req EXCEPT ![r] = WithSpec(req[r], 0)]
    BY <1>4, <2>1 DEF ScheduleRunning, WithSpec
  <2>3. WithSpec(req[r], 0).status = req[r].status
    BY <1>1, WithSpecIs
  <2>4. req[r].status # "WAITING_FOR_STREAMING_REQ"
    BY DEF NoStreams
  <2> QED
    BY <1>1, <1>2, <2>2, <2>3, <2>4, OneMoves
<1>5. CASE PreemptForBlocks
  <2>1. PICK r \in Requests : r = Last(running)
    BY <1>1, <1>5, CurrentType, QueueFront DEF PreemptForBlocks
  <2>2. PICK t : t = PreemptedRequest(req[r], RequiresKVDelivery)
    OBVIOUS
  <2>3. req' = [req EXCEPT ![r] = t]
    BY <1>5, <2>1, <2>2 DEF PreemptForBlocks, PreemptRequest
  <2>4. t.status = "PREEMPTED"
    BY <1>1, <2>2, Parameters, PreemptedIs
  <2> QED
    BY <1>1, <1>2, <2>3, <2>4, OneMoves
<1>6. CASE PromoteLoaded
  <2>1. PICK r \in Requests : r = Candidate
    BY <1>1, <1>6, CandidateType DEF PromoteLoaded
  <2>2. PICK x \in {"PREEMPTED", "WAITING"} : x = IF req[r].preempted THEN "PREEMPTED" ELSE "WAITING"
    OBVIOUS
  <2>3. PICK n : n = IF r \notin failed /\ req[r].computed = req[r].all THEN req[r].all - 1 ELSE req[r].computed
    OBVIOUS
  <2>4. req' = [req EXCEPT ![r].status = x, ![r].computed = n]
    BY <1>6, <2>1, <2>2, <2>3 DEF PromoteLoaded
  <2>5. PICK t : t = WithAdmission(req[r], x, n)
    OBVIOUS
  <2>6. req' = [req EXCEPT ![r] = t]
    BY <1>1, <2>4, <2>5 DEF WithAdmission
  <2>7. t.status = x
    BY <1>1, <2>5 DEF WithAdmission, RequestRecord
  <2> QED
    BY <1>1, <1>2, <2>6, <2>7, OneMoves
<1>7. ASSUME NEW ext \in LoadableTokens, AdmitLoad(ext) PROVE NoStreams'
  <2>1. PICK r \in Requests : r = Candidate
    BY <1>1, <1>7, CandidateType DEF AdmitLoad
  <2>2. PICK t : t = WithAdmission(req[r], "WAITING_FOR_REMOTE_KVS", ext)
    OBVIOUS
  <2>3. req' = [req EXCEPT ![r] = t]
    BY <1>1, <1>7, <2>1, <2>2 DEF AdmitLoad, WithAdmission
  <2>4. t.status = "WAITING_FOR_REMOTE_KVS"
    BY <1>1, <2>2 DEF WithAdmission, RequestRecord
  <2> QED
    BY <1>1, <1>2, <2>3, <2>4, OneMoves
<1>8. CASE AdmitRunning
  <2>1. PICK r \in Requests : r = Candidate
    BY <1>1, <1>8, CandidateType DEF AdmitRunning
  <2>2. PICK t : t = WithStatus(req[r], "RUNNING")
    OBVIOUS
  <2>3. req' = [req EXCEPT ![r] = t]
    BY <1>8, <2>1, <2>2 DEF AdmitRunning, WithStatus
  <2>4. t.status = "RUNNING"
    BY <1>1, <2>2, WithStatusIs DEF Status
  <2> QED
    BY <1>1, <1>2, <2>3, <2>4, OneMoves
<1>9. CASE EndSchedule
  <2>1. PICK b \in Seq(BatchEntry) : b = step.batch
    BY <1>1, LocalsTypes, SMTT(60)
  <2>2. PICK seq \in Nat : \A r \in Requests :
            req'[r] = IF r \in BatchIds(b) THEN AfterSchedule(req[r], EntryOf(b, r), seq) ELSE req[r]
    <3>1. schedSeq \in Nat
      BY <1>1 DEF Shapes
    <3>2. PICK seq \in Nat : seq = IF DeferBlockFree /\ BatchIds(b) # {} THEN schedSeq + 1 ELSE schedSeq
      BY <3>1
    <3> QED
      BY <1>9, <2>1, <3>2 DEF EndSchedule
  <2>3. ASSUME NEW r \in Requests PROVE req'[r].status = req[r].status
    <3>1. CASE r \in BatchIds(b)
      <4>1. PICK e \in BatchEntry : e = EntryOf(b, r)
        BY <3>1, EntryOfIs
      <4>2. AfterSchedule(req[r], e, seq).status = req[r].status
        BY <1>1, AfterScheduleIs
      <4> QED
        BY <2>2, <3>1, <4>1, <4>2
    <3>2. CASE r \notin BatchIds(b)
      BY <2>2, <3>2
    <3> QED
      BY <3>1, <3>2
  <2> QED
    BY <1>2, <2>3 DEF NoStreams
<1> QED
  BY <1>3, <1>4, <1>5, <1>6, <1>7, <1>8, <1>9 DEF ScheduleNext

LEMMA FinishStreams ==
  ASSUME Shapes, NoStreams, NEW r \in Requests, FinishRequest(r)
  PROVE  NoStreams' /\ Len(running') <= Len(running)
<1>1. req \in [Requests -> RequestRecord] /\ running \in Seq(Requests)
  BY DEF Shapes
<1>2. PICK t : t = WithStatus(req[r], "FINISHED")
  OBVIOUS
<1>3. t.status = "FINISHED"
  BY <1>1, <1>2, WithStatusIs DEF Status
<1>4. req' = [req EXCEPT ![r] = t] /\ running' = RemoveAll(running, {r})
  BY <1>2 DEF FinishRequest, FinishAndFree, WithStatus
<1>5. numWaitingForStreaming' = numWaitingForStreaming
  <2>1. SlotsReleased(r) = 0 /\ numWaitingForStreaming = 0
    BY DEF SlotsReleased, NoStreams
  <2>2. numWaitingForStreaming' = numWaitingForStreaming - SlotsReleased(r)
    BY DEF FinishRequest
  <2> QED
    BY <2>1, <2>2
<1> QED
  BY <1>1, <1>3, <1>4, <1>5, QueueRemoveAll, OneMoves

LEMMA UpdateStreams ==
  ASSUME BooksInv, NoStreams, NoSessions, UpdateNext
  PROVE  NoStreams' /\ Len(running') <= Len(running)
<1>1. /\ Shapes /\ QueuesInv /\ step \in HandlerLocals /\ running \in Seq(Requests)
      /\ req \in [Requests -> RequestRecord] /\ Len(running) \in Nat
  BY DEF BooksInv, ShapesInv, Shapes
<1>2. ASSUME \A s \in Requests : req'[s].status = req[s].status,
             UNCHANGED <<running, numWaitingForStreaming>>
      PROVE  NoStreams' /\ Len(running') <= Len(running)
  BY <1>1, <1>2 DEF NoStreams
<1>3. CASE BeginUpdate
  <2>1. PICK bad \in InvalidBlocks(Head(inflight).batch) : req' = Truncated(bad)
    BY <1>3 DEF BeginUpdate
  <2>2. ASSUME NEW s \in Requests PROVE req'[s].status = req[s].status
    <3>1. CASE s \in DOMAIN bad
      <4>1. bad[s] * BlockSize \in Int
        BY <1>1, <3>1, Parameters, InvalidBlocksIs
      <4>2. PICK n \in Int : n = bad[s] * BlockSize
        BY <4>1
      <4>3. req'[s] = WithComputed(req[s], n)
        BY <1>1, <2>1, <3>1, <4>2, TruncatedIs
      <4>4. WithComputed(req[s], n).status = req[s].status
        BY <1>1, WithComputedIs
      <4> QED
        BY <4>3, <4>4
    <3>2. CASE s \notin DOMAIN bad
      BY <1>1, <2>1, <3>2, TruncatedIs
    <3> QED
      BY <3>1, <3>2
  <2> QED
    BY <1>2, <1>3, <2>2 DEF BeginUpdate, queues
<1>4. CASE SkipEntry
  <2>1. PICK e \in BatchEntry : e = Head(step.todo) /\ e.r \in Requests
    BY <1>1, <1>4, NextEntryIs DEF SkipEntry
  <2>2. Drain(req[e.r], e).status = req[e.r].status
    BY <1>1, <2>1, DrainIs
  <2>3. req' = IF e.r \in requests THEN [req EXCEPT ![e.r] = Drain(req[e.r], e)] ELSE req
    BY <1>4, <2>1 DEF SkipEntry
  <2>4. \A s \in Requests : req'[s].status = req[s].status
    BY <1>1, <2>2, <2>3
  <2> QED
    BY <1>2, <1>4, <2>4 DEF SkipEntry, queues
<1>5. CASE RemoveStopped
  <2>1. running' = RemoveAll(running, step.stoppedRunning) /\ UNCHANGED <<req, numWaitingForStreaming>>
    BY <1>5 DEF RemoveStopped
  <2> QED
    BY <1>1, <2>1, QueueRemoveAll DEF NoStreams
<1>6. CASE EndUpdate
  <2>1. ASSUME NEW q \in RequestRecord PROVE WithDrafts(q).status = q.status
    BY DEF WithDrafts, RequestRecord
  <2>2. \A s \in Requests : req'[s].status = req[s].status
    BY <1>1, <1>6, <2>1, SMTT(60) DEF EndUpdate
  <2> QED
    BY <1>2, <1>6, <2>2 DEF EndUpdate, queues
<1>7. ASSUME NEW g \in 1 .. NumSpecTokens + 1, NEW m \in 1 .. NumSpecTokens + 1,
             NEW eos \in BOOLEAN, UpdateEntry(g, m, eos)
      PROVE  NoStreams' /\ Len(running') <= Len(running)
  <2>1. PICK e \in BatchEntry : e = Head(step.todo) /\ e.r \in Requests
    BY <1>1, <1>7, NextEntryIs DEF UpdateEntry
  <2>2. PICK r \in Requests : r = e.r
    BY <2>1
  <2>3. PICK q : q = Deliver(req[r], e, g, m)
    OBVIOUS
  <2>4. q.status = req[r].status /\ q \in RequestRecord
    BY <1>1, <2>3, DeliverIs, SMTT(60)
  <2>5. running' = running
    BY <1>7 DEF UpdateEntry
  <2>6. req[r].status # "WAITING_FOR_STREAMING_REQ"
    BY DEF NoStreams
  <2>7. CASE req' = [req EXCEPT ![r] = q] /\ UNCHANGED numWaitingForStreaming
    <3>1. NoStreams'
      BY <1>1, <2>4, <2>6, <2>7, OneMoves
    <3> QED
      BY <1>1, <2>5, <3>1
  <2>8. CASE Stop(r, q)
    <3>1. PICK t : t = WithStatus(q, "FINISHED")
      OBVIOUS
    <3>2. req' = [req EXCEPT ![r] = t] /\ UNCHANGED numWaitingForStreaming
      BY <2>8, <3>1 DEF Stop, NoSessions, WithStatus
    <3>3. t.status = "FINISHED"
      BY <2>4, <3>1, WithStatusIs DEF Status
    <3>4. NoStreams'
      BY <1>1, <3>2, <3>3, OneMoves
    <3> QED
      BY <1>1, <2>5, <3>4
  <2> QED
    BY <1>7, <2>1, <2>2, <2>3, <2>7, <2>8, SMTT(60) DEF UpdateEntry
<1>8. ASSUME NEW r \in Requests, FinishFailed(r) PROVE NoStreams' /\ Len(running') <= Len(running)
  <2>1. FinishRequest(r) \/ UNCHANGED <<req, queues>>
    BY <1>8 DEF FinishFailed
  <2> QED
    BY <1>1, <1>2, <2>1, FinishStreams DEF queues
<1>9. ASSUME NEW r \in Requests, ReportReceived(r) \/ ReportSent(r)
      PROVE  NoStreams' /\ Len(running') <= Len(running)
  BY <1>2, <1>9 DEF ReportReceived, ReportSent, queues
<1> QED
  BY <1>3, <1>4, <1>5, <1>6, <1>7, <1>8, <1>9 DEF UpdateNext

LEMMA OtherStreams ==
  ASSUME BooksInv, NoStreams, NoSessions,
         \/ EndSchedule \/ ResetNext \/ ClientNext \/ WorkerNext \/ UNCHANGED vars
  PROVE  NoStreams' /\ Len(running') <= Len(running)
<1>1. /\ Shapes /\ QueuesInv /\ step \in HandlerLocals /\ running \in Seq(Requests)
      /\ req \in [Requests -> RequestRecord] /\ Len(running) \in Nat
  BY SMTT(60) DEF BooksInv, ShapesInv, Shapes
<1>2. CASE EndSchedule
  <2>1. running' = running
    BY <1>2 DEF EndSchedule
  <2> QED
    BY <1>1, <1>2, <2>1, ScheduleStreams, SMTT(60) DEF ScheduleNext
<1>3. CASE BeginReset \/ EndReset \/ WorkerNext \/ UNCHANGED vars
  <2>1. UNCHANGED <<req, running, numWaitingForStreaming>>
    BY <1>3 DEF BeginReset, EndReset, WorkerNext, LoadDone, SendDone, vars, queues
  <2> QED
    BY <1>1, <2>1 DEF NoStreams
<1>4. CASE ResetPreempt
  <2>1. running # <<>> /\ running' = Front(running) /\ UNCHANGED numWaitingForStreaming
    BY <1>4 DEF ResetPreempt
  <2>2. PICK r \in Requests : r = Last(running)
    BY <1>1, <2>1, QueueFront
  <2>3. PICK t : t = PreemptedRequest(req[r], TRUE)
    OBVIOUS
  <2>4. req' = [req EXCEPT ![r] = t]
    BY <1>4, <2>2, <2>3 DEF ResetPreempt, PreemptRequest
  <2>5. t.status = "PREEMPTED"
    BY <1>1, <2>3, PreemptedIs
  <2>6. Len(running') <= Len(running)
    BY <1>1, <2>1, FrontAt
  <2> QED
    BY <1>1, <2>1, <2>4, <2>5, <2>6, OneMoves
<1>5. ASSUME NEW r \in Requests, AddRequest(r) PROVE NoStreams' /\ Len(running') <= Len(running)
  <2>1. PICK t : t = WithStatus(req[r], "WAITING")
    OBVIOUS
  <2>2. req' = [req EXCEPT ![r] = t] /\ UNCHANGED <<running, numWaitingForStreaming>>
    BY <1>5, <2>1 DEF AddRequest, WithStatus
  <2>3. t.status = "WAITING"
    BY <1>1, <2>1, WithStatusIs DEF Status
  <2>4. NoStreams'
    BY <1>1, <2>2, <2>3, OneMoves
  <2> QED
    BY <1>1, <2>2, <2>4
<1>6. ASSUME NEW r \in Abortable, Abort(r) PROVE NoStreams' /\ Len(running') <= Len(running)
  BY <1>1, <1>6, Parameters, FinishStreams DEF Abort
<1> QED
  BY <1>2, <1>3, <1>4, <1>5, <1>6 DEF ResetNext, ClientNext, NoSessions

LEMMA BudgetStep ==
  ASSUME BooksInv, BooksInv', PadsFit, NoSessions, BudgetInv, [Next]_vars
  PROVE  BudgetInv'
<1>1. /\ Shapes /\ Shapes' /\ step.budget \in Int /\ step.batch \in Seq(BatchEntry) /\ running \in Seq(Requests)
      /\ Len(running) \in Nat /\ Len(running') \in Nat /\ NoStreams
      /\ MaxNumRunningReqs \in Nat /\ MaxNumScheduledTokens \in Nat
  <2>1. Shapes /\ Shapes' /\ NoStreams /\ MaxNumRunningReqs \in Nat /\ MaxNumScheduledTokens \in Nat
    BY Parameters DEF BooksInv, ShapesInv, BudgetInv, NoStreams
  <2>2. step \in HandlerLocals /\ running \in Seq(Requests) /\ running' \in Seq(Requests)
    BY <2>1 DEF Shapes
  <2>3. step.budget \in Int /\ step.batch \in Seq(BatchEntry)
    BY <2>2, LocalsTypes
  <2> QED
    BY <2>1, <2>2, <2>3
<1>2. NoStreams'
  BY <1>1, ScheduleStreams, UpdateStreams, OtherStreams DEF Next
<1>3. ASSUME Scheduling' => Tokens(step'.batch) + step'.budget = MaxNumScheduledTokens,
             step'.budget >= 0, Len(running') <= MaxNumRunningReqs
      PROVE  BudgetInv'
  BY <1>2, <1>3 DEF BudgetInv, NoStreams
<1>4. CASE BeginSchedule
  <2>1. step'.batch = <<>> /\ step'.budget = MaxNumScheduledTokens /\ running' = running
    BY <1>4, BeginsAlone
  <2>2. Tokens(<<>>) = 0
    BY <1>1, EmptyTokens
  <2> QED
    BY <1>1, <1>3, <2>1, <2>2 DEF BudgetInv
<1>5. CASE Schedules /\ Passes
  <2>1. Len(running') <= MaxNumRunningReqs
    BY <1>1, <1>5 DEF Passes, BudgetInv
  <2> QED
    BY <1>3, <1>5, <2>1 DEF Schedules, Passes, BudgetInv
<1>6. ASSUME NEW r \in Requests, NEW n \in Int, NEW k \in Int, Schedules, Extends(r, n, k)
      PROVE  BudgetInv'
  <2>1. PICK e \in BatchEntry : e = Scheduled(r, n, k)
    BY <1>1, ScheduledType
  <2>2. e.n = n
    BY <2>1 DEF Scheduled
  <2>3. Tokens(Append(step.batch, e)) = Tokens(step.batch) + n /\ Tokens(step.batch) \in Int
    BY <1>1, <2>2, TokensAppend
  <2>4. step'.batch = Append(step.batch, e) /\ step'.budget = step.budget - n /\ n <= step.budget
    BY <1>6, <2>1 DEF Extends
  <2>5. Tokens(step'.batch) + step'.budget = MaxNumScheduledTokens
    <3>1. Tokens(step.batch) + step.budget = MaxNumScheduledTokens
      BY <1>6 DEF Schedules, BudgetInv
    <3>2. PICK a \in Int, b \in Int, c \in Int : a = Tokens(step.batch) /\ b = step.budget /\ c = Tokens(step'.batch)
      BY <1>1, <2>3, <2>4
    <3>3. c = a + n /\ a + b = MaxNumScheduledTokens
      BY <2>3, <2>4, <3>1, <3>2
    <3>4. step'.budget = b - n
      BY <2>4, <3>2
    <3>5. c + (b - n) = MaxNumScheduledTokens
      BY <1>1, <3>3
    <3> QED
      BY <3>2, <3>4, <3>5
  <2>6. Len(running') <= MaxNumRunningReqs
    <3>1. Len(Append(running, r)) = Len(running) + 1
      BY <1>1
    <3> QED
      BY <1>1, <1>6, <3>1 DEF Extends, BudgetInv
  <2>7. step'.budget >= 0
    BY <1>1, <2>4
  <2> QED
    BY <1>3, <2>5, <2>6, <2>7
<1>7. CASE Outside /\ ~Scheduling' /\ step'.budget \in {0, step.budget}
  <2>1. Len(running') <= Len(running)
    BY <1>1, <1>7, UpdateStreams, OtherStreams DEF Outside
  <2> QED
    BY <1>1, <1>3, <1>7, <2>1 DEF BudgetInv
<1>8. CASE UNCHANGED vars
  <2>1. UNCHANGED <<step, running>> /\ (Scheduling' <=> Scheduling)
    BY <1>8 DEF vars, queues, Scheduling
  <2> QED
    BY <1>3, <2>1 DEF BudgetInv
<1> QED
  BY <1>4, <1>5, <1>6, <1>7, <1>8, ScheduleCases

(* A step that is about to be emitted has running requests only, each once. *)
LEMMA EmittedFew ==
  ASSUME BooksInv, step.phase = "emit"
  PROVE  Len(step.batch) <= Len(running)
<1>1. PICK b \in Seq(BatchEntry), s \in Seq(Requests) : b = step.batch /\ s = running
  BY LocalsTypes DEF BooksInv, ShapesInv, Shapes
<1>2. DOMAIN b = 1 .. Len(b) /\ Len(b) \in Nat /\ DOMAIN s = 1 .. Len(s) /\ Len(s) \in Nat
  OBVIOUS
<1>3. ASSUME NEW i \in 1 .. Len(b) PROVE \E p \in 1 .. Len(s) : s[p] = b[i].r
  <2>1. Promised(b[i])
    BY <1>1, <1>2 DEF BooksInv, AccountsInv, BatchInv
  <2>2. b[i].r \in Unfinished /\ req[b[i].r].status = "RUNNING"
    BY <2>1 DEF Promised
  <2>3. b[i].r \in ToSet(s)
    BY <1>1, <2>2 DEF BooksInv, QueuesInv, QueuesPlaced
  <2> QED
    BY <1>2, <2>3 DEF ToSet
<1> DEFINE f == [i \in 1 .. Len(b) |-> CHOOSE p \in 1 .. Len(s) : s[p] = b[i].r]
<1>4. \A i \in 1 .. Len(b) : f[i] \in 1 .. Len(s) /\ s[f[i]] = b[i].r
  BY <1>3
<1>5. f \in Injection(1 .. Len(b), 1 .. Len(s))
  <2>1. f \in [1 .. Len(b) -> 1 .. Len(s)]
    BY <1>4
  <2>2. \A i, j \in DOMAIN b : b[i].r = b[j].r => i = j
    BY <1>1 DEF BooksInv, AccountsInv, BatchInv, WellFormed
  <2>3. ASSUME NEW i \in DOMAIN f, NEW j \in DOMAIN f, f[i] = f[j] PROVE i = j
    BY <1>2, <1>4, <2>2, <2>3
  <2> QED
    BY <2>1, <2>3 DEF Injection, IsInjective
<1>6. /\ IsFiniteSet(1 .. Len(s)) /\ Cardinality(1 .. Len(s)) = Len(s)
      /\ Cardinality(1 .. Len(b)) = Len(b)
  <2>1. 1 \in Int /\ Len(s) \in Int /\ Len(b) \in Int
    BY <1>2
  <2>2. Cardinality(1 .. Len(s)) = (IF 1 > Len(s) THEN 0 ELSE Len(s) - 1 + 1) /\ IsFiniteSet(1 .. Len(s))
    BY <2>1, FS_Interval
  <2>3. Cardinality(1 .. Len(b)) = (IF 1 > Len(b) THEN 0 ELSE Len(b) - 1 + 1)
    BY <2>1, FS_Interval
  <2> QED
    BY <1>2, <2>2, <2>3
<1> HIDE DEF f
<1>7. Cardinality(1 .. Len(b)) <= Cardinality(1 .. Len(s))
  BY <1>5, <1>6, FS_Injection
<1> QED
  BY <1>1, <1>6, <1>7

LEMMA BudgetHolds ==
  ASSUME NoSessions, PadsFit
  PROVE  Spec => []BudgetInv
<1>1. Init => BudgetInv
  <2>1. ASSUME Init PROVE BudgetInv
    <3>1. step = Idle /\ running = <<>> /\ numWaitingForStreaming = 0
      BY <2>1 DEF Init
    <3>2. \A r \in Requests : req[r].status = "NEW"
      BY <2>1 DEF Init, NewRequest
    <3>3. Idle.phase = "idle" /\ Idle.budget = 0 /\ MaxNumRunningReqs \in Nat
      BY IdleFields, IdleAccounts, Parameters
    <3> QED
      BY <3>1, <3>2, <3>3 DEF BudgetInv, Scheduling
  <2> QED
    BY <2>1
<1>2. BooksInv /\ BooksInv' /\ BudgetInv /\ [Next]_vars => BudgetInv'
  BY BudgetStep
<1> QED
  BY <1>1, <1>2, BooksHold, PTL DEF Spec

(* What schedule() asserts of its output and update_from_output of its      *)
(* input: the budget is spent exactly, a request at a time, on running      *)
(* requests that the model runner has a slot for, and nobody is in a step   *)
(* for nothing.                                                             *)
THEOREM BudgetIsKept == NoSessions /\ PadsFit => (Spec => []StepWithinBudget)
<1> SUFFICES ASSUME NoSessions, PadsFit PROVE Spec => []StepWithinBudget
  OBVIOUS
<1>1. BooksInv /\ BudgetInv => StepWithinBudget
  <2> SUFFICES ASSUME BooksInv, BudgetInv PROVE StepWithinBudget
    OBVIOUS
  <2>1. Len(step.batch) <= Len(running) \/ step.phase # "emit"
    BY EmittedFew
  <2>2. ASSUME NEW i \in DOMAIN inflight, NEW j \in DOMAIN inflight[i].batch
        PROVE  inflight[i].batch[j].n > 0
    <3>1. /\ Len(inflight) \in Nat /\ DOMAIN inflight = 1 .. Len(inflight)
          /\ DOMAIN Slots = 1 .. Len(inflight) + 1
          /\ \A k \in 1 .. Len(inflight) : Slots[k + 1] = inflight[k].batch
      BY SlotsAre DEF BooksInv, ShapesInv, Shapes, AccountsInv
    <3>2. i + 1 \in DOMAIN Slots /\ Slots[i + 1] = inflight[i].batch
      BY <3>1
    <3>3. WellFormed(inflight[i].batch)
      BY <3>2 DEF BooksInv, AccountsInv, SlotsInv
    <3> QED
      BY <3>3 DEF WellFormed
  <2>3. PositiveCounts
    BY <2>2 DEF PositiveCounts
  <2> QED
    BY <2>1, <2>3 DEF BudgetInv, StepWithinBudget, Scheduling
<1> QED
  BY <1>1, BooksHold, BudgetHolds, PTL

-------------------------------------------------------------------------------
(* The blocks of a request are enough for its tokens.                       *)

LEMMA BlocksForIs ==
  ASSUME NEW n \in Int
  PROVE  /\ BlocksFor(n) \in Int
         /\ BlockSize * BlocksFor(n) <= Least(n, MaxModelLen) + BlockSize - 1
         /\ Least(n, MaxModelLen) + BlockSize - 1 < BlockSize * BlocksFor(n) + BlockSize
<1>1. BlockSize \in Nat \ {0} /\ MaxModelLen \in Nat
  BY Parameters
<1>2. PICK x \in Int : x = Least(n, MaxModelLen) + BlockSize - 1
  BY <1>1 DEF Least
<1>3. PICK b \in Nat \ {0} : b = BlockSize
  BY <1>1
<1>4. x \div b \in Int /\ b * (x \div b) <= x /\ x < b * (x \div b) + b
  OBVIOUS
<1> QED
  BY <1>2, <1>3, <1>4 DEF BlocksFor

(* More tokens take no fewer blocks.                                        *)
LEMMA BlocksForGrows ==
  ASSUME NEW m \in Int, NEW n \in Int, m <= n
  PROVE  BlocksFor(m) <= BlocksFor(n)
<1>1. PICK b \in Nat \ {0}, l \in Nat : b = BlockSize /\ l = MaxModelLen
  BY Parameters
<1>2. PICK x \in Int, y \in Int : x = Least(m, l) + b - 1 /\ y = Least(n, l) + b - 1 /\ x <= y
  BY DEF Least
<1>3. PICK p \in Int, q \in Int : p = BlocksFor(m) /\ q = BlocksFor(n)
  BY BlocksForIs
<1>4. b * p <= x /\ y < b * q + b
  BY <1>1, <1>2, <1>3, BlocksForIs
<1>5. b * p < b * (q + 1)
  BY <1>2, <1>4
<1>6. p < q + 1
  BY <1>5
<1> QED
  BY <1>3, <1>6

LEMMA BlocksForNone == BlocksFor(0) = 0
<1>1. PICK b \in Nat \ {0}, l \in Nat \ {0} : b = BlockSize /\ l = MaxModelLen
  BY Parameters
<1>2. PICK q \in Int : q = BlocksFor(0)
  BY BlocksForIs
<1>3. Least(0, l) = 0
  BY DEF Least
<1>4. b * q <= b - 1 /\ b - 1 < b * q + b
  BY <1>1, <1>2, <1>3, BlocksForIs
<1>5. b * q < b * 1 /\ b * (0 - 1) < b * q
  BY <1>4
<1>6. q < 1 /\ 0 - 1 < q
  BY <1>5
<1> QED
  BY <1>2, <1>6

(* Whole blocks take as many blocks as they are.                            *)
LEMMA BlocksForWhole ==
  ASSUME NEW n \in Int
  PROVE  BlocksFor(n * BlockSize) <= n /\ n * BlockSize \in Int
<1>1. PICK b \in Nat \ {0}, l \in Nat \ {0} : b = BlockSize /\ l = MaxModelLen
  BY Parameters
<1>2. PICK q \in Int : q = BlocksFor(n * b)
  BY BlocksForIs
<1>3. n * b \in Int /\ Least(n * b, l) <= n * b /\ Least(n * b, l) \in Int
  BY DEF Least
<1>4. b * q <= n * b + b - 1
  BY <1>1, <1>2, <1>3, BlocksForIs
<1>5. b * q < b * (n + 1)
  BY <1>4
<1>6. q < n + 1
  BY <1>5
<1> QED
  BY <1>1, <1>2, <1>3, <1>6

(* What allocate_slots adds to a table is enough.                           *)
LEMMA TakenCovers ==
  ASSUME ShapesInv, NEW r \in Requests, NEW n \in Int, Take(r, Needed(r, n))
  PROVE  /\ BlocksFor(n) <= Cardinality(owned'[r]) /\ Cardinality(owned'[r]) \in Int
         /\ \A s \in Requests \ {r} : owned'[s] = owned[s]
<1>1. owned \in [Requests -> SUBSET Blocks] /\ free \subseteq Blocks /\ owned[r] \cap free = {}
  BY DEF ShapesInv, Shapes, PoolInv, PoolApart
<1>2. PICK B \in SUBSET free : Cardinality(B) = Needed(r, n) /\ owned' = [owned EXCEPT ![r] = @ \cup B]
  BY DEF Take, kSubset
<1>3. IsFiniteSet(Blocks) /\ B \in SUBSET Blocks /\ owned[r] \in SUBSET Blocks /\ owned[r] \cap B = {}
  BY <1>1, <1>2, Parameters
<1>4. IsFiniteSet(owned[r]) /\ IsFiniteSet(B)
  BY <1>3, FS_Subset
<1>5. PICK c \in Nat, d \in Nat : c = Cardinality(owned[r]) /\ d = Cardinality(B)
  BY <1>4, FS_CardinalityType
<1>6. Cardinality(owned[r] \cup B) = c + d
  <2>1. Cardinality(owned[r] \cup B) = Cardinality(owned[r]) + Cardinality(B) - Cardinality(owned[r] \cap B)
    BY <1>4, FS_Union
  <2>2. Cardinality(owned[r] \cap B) = 0
    BY <1>3, FS_EmptySet
  <2> QED
    BY <1>5, <2>1, <2>2
<1>7. PICK q \in Int : q = BlocksFor(n)
  BY BlocksForIs
<1>8. d >= q - c
  BY <1>2, <1>5, <1>7 DEF Needed
<1>9. owned'[r] = owned[r] \cup B /\ \A s \in Requests \ {r} : owned'[s] = owned[s]
  BY <1>1, <1>2
<1> QED
  BY <1>6, <1>7, <1>8, <1>9

(* Nothing of s changes that its blocks depend on.                          *)
Spares(s) ==
    /\ s \in requests' <=> s \in requests
    /\ req'[s].computed = req[s].computed /\ req'[s].status = req[s].status
    /\ owned'[s] = owned[s] /\ load'[s] = load[s] /\ send'[s] = send[s]
    /\ SlotTokens(step'.batch, s) = SlotTokens(step.batch, s)

LEMMA SparedBacked ==
  ASSUME NEW s, Backed(s), Spares(s)
  PROVE  Backed(s)'
BY DEF Backed, Covered, Spares

LEMMA FreedBacked ==
  ASSUME NEW s, owned'[s] = {},
         s \in requests' => req'[s].computed = 0 /\ SlotTokens(step'.batch, s) = 0
  PROVE  Backed(s)'
<1>1. Cardinality({}) = 0 /\ BlocksFor(0) = 0
  BY BlocksForNone, FS_EmptySet
<1> QED
  BY <1>1 DEF Backed, Covered

(* A request that has tokens, and enough blocks for more.                   *)
LEMMA GrownBacked ==
  ASSUME NEW s, NEW m \in Int, NEW n \in Int, m <= n, BlocksFor(n) <= Cardinality(owned'[s]),
         Cardinality(owned'[s]) \in Int, Covered(s)' = m, s \in requests',
         load'[s] = "idle" /\ send'[s] = "none" => req'[s].status = "RUNNING" /\ m > 0
  PROVE  Backed(s)'
<1>1. PICK p \in Int, q \in Int, c \in Int : p = BlocksFor(m) /\ q = BlocksFor(n) /\ c = Cardinality(owned'[s])
  BY BlocksForIs
<1>2. p <= q
  BY <1>1, BlocksForGrows
<1>3. p <= c
  BY <1>1, <1>2
<1> QED
  BY <1>1, <1>3 DEF Backed

(* Who is not in the step that schedule() fills has no tokens in it.        *)
LEMMA NotInStep ==
  ASSUME AccountsInv, NEW s, req[s].status # "RUNNING" \/ ~Scheduling
  PROVE  SlotTokens(step.batch, s) = 0
<1>1. ASSUME NEW i \in DOMAIN step.batch PROVE step.batch[i].r # s
  <2>1. Promised(step.batch[i]) /\ step.batch # <<>>
    BY <1>1 DEF AccountsInv, BatchInv
  <2>2. Scheduling
    BY <2>1 DEF AccountsInv, BatchInv
  <2> QED
    BY <2>1, <2>2 DEF Promised
<1>2. s \notin BatchIds(step.batch)
  BY <1>1 DEF BatchIds
<1> QED
  BY <1>2, SlotOfOther

(* The tokens of each request as one joins the step.                        *)
LEMMA JoinedTokens ==
  ASSUME NEW b \in Seq(BatchEntry), NEW e \in BatchEntry, NEW c, c = Append(b, e), WellFormed(c)
  PROVE  /\ SlotTokens(c, e.r) = e.n /\ e.n > 0
         /\ \A s : s # e.r => SlotTokens(c, s) = SlotTokens(b, s)
<1>1. /\ c \in Seq(BatchEntry) /\ Len(b) \in Nat /\ DOMAIN b = 1 .. Len(b)
      /\ DOMAIN c = 1 .. Len(b) + 1 /\ Len(b) + 1 \in DOMAIN c
      /\ \A i \in DOMAIN b : c[i] = b[i] /\ i \in DOMAIN c
      /\ c[Len(b) + 1] = e
      /\ \A i \in DOMAIN c : i \in DOMAIN b \/ i = Len(b) + 1
  OBVIOUS
<1>2. WellFormed(b)
  BY <1>1 DEF WellFormed
<1>3. StepOf(b) /\ StepOf(c)
  BY <1>1, <1>2 DEF StepOf
<1>4. SlotTokens(c, e.r) = e.n /\ e.n > 0
  BY <1>1, <1>3, EntryIs DEF SlotTokens
<1>5. ASSUME NEW s, s # e.r PROVE SlotTokens(c, s) = SlotTokens(b, s)
  <2>1. CASE s \in BatchIds(b)
    <3>1. PICK i \in DOMAIN b : b[i].r = s
      BY <2>1 DEF BatchIds
    <3>2. EntryOf(b, s) = b[i] /\ EntryOf(c, s) = b[i] /\ s \in BatchIds(c)
      BY <1>1, <1>3, <3>1, EntryIs
    <3> QED
      BY <2>1, <3>2 DEF SlotTokens
  <2>2. CASE s \notin BatchIds(b)
    <3>1. s \notin BatchIds(c)
      BY <1>1, <1>5, <2>2 DEF BatchIds
    <3> QED
      BY <2>2, <3>1, SlotOfOther
  <2> QED
    BY <2>1, <2>2
<1> QED
  BY <1>4, <1>5

(* schedule() puts n tokens of r into the step and takes the blocks for     *)
(* them, if not for more.                                                   *)
LEMMA JoinedBacked ==
  ASSUME BooksInv, BooksInv', \A s \in Requests : Backed(s), NEW r \in Requests, r \in requests,
         NEW n \in Int, NEW k \in Int, step'.batch = Append(step.batch, Scheduled(r, n, k)),
         NEW m \in Nat, Take(r, Needed(r, req[r].computed + n + m)),
         \A s \in Requests \ {r} : req'[s] = req[s],
         req'[r].status = "RUNNING", req'[r].computed = req[r].computed, req[r].computed >= 0,
         load' = load, send' = send, requests' = requests
  PROVE  \A s \in Requests : Backed(s)'
<1>1. /\ ShapesInv /\ step.batch \in Seq(BatchEntry) /\ WellFormed(step'.batch)
      /\ req[r].computed \in Int
  <2>1. ShapesInv /\ step \in HandlerLocals /\ req[r] \in RequestRecord /\ WellFormed(step'.batch)
    BY DEF BooksInv, ShapesInv, Shapes, AccountsInv, BatchInv
  <2> QED
    BY <2>1, LocalsTypes, RequestTypes
<1>2. PICK e \in BatchEntry : e = Scheduled(r, n, k)
  BY <1>1, ScheduledType DEF ShapesInv
<1>3. e.r = r /\ e.n = n
  BY <1>2 DEF Scheduled
<1>4. PICK b \in Seq(BatchEntry) : b = step.batch
  BY <1>1
<1>5. PICK B : B = step'.batch /\ B = Append(b, e) /\ WellFormed(B)
  BY <1>1, <1>2, <1>4
<1>6. /\ SlotTokens(B, r) = n /\ n > 0
      /\ \A s : s # r => SlotTokens(B, s) = SlotTokens(b, s)
  <2>1. /\ SlotTokens(B, e.r) = e.n /\ e.n > 0
        /\ \A s : s # e.r => SlotTokens(B, s) = SlotTokens(b, s)
    BY <1>5, JoinedTokens, ZenonT(60)
  <2> QED
    BY <1>3, <2>1
<1>7. PICK c \in Int : c = req[r].computed /\ c >= 0
  BY <1>1
<1>8. c + n + m \in Int /\ c + n \in Int /\ c + n <= c + n + m /\ c + n > 0
  <2>1. n > 0
    BY <1>6
  <2>2. \A x \in Int, y \in Int, z \in Nat : x >= 0 /\ y > 0 =>
          x + y + z \in Int /\ x + y \in Int /\ x + y <= x + y + z /\ x + y > 0
    OBVIOUS
  <2> QED
    BY <1>7, <2>1, <2>2
<1>9. /\ BlocksFor(c + n + m) <= Cardinality(owned'[r]) /\ Cardinality(owned'[r]) \in Int
      /\ \A s \in Requests \ {r} : owned'[s] = owned[s]
  BY <1>1, <1>7, <1>8, TakenCovers
<1>10. Covered(r)' = c + n
  BY <1>5, <1>6, <1>7 DEF Covered
<1>11. Backed(r)'
  <2>1. r \in requests'
    OBVIOUS
  <2> QED
    BY <1>8, <1>9, <1>10, <2>1, GrownBacked
<1>12. ASSUME NEW s \in Requests, s # r PROVE Backed(s)'
  BY <1>4, <1>5, <1>6, <1>9, <1>12, SparedBacked DEF Spares
<1> QED
  BY <1>11, <1>12

(* The same, and none of the requests moves.                                *)
LEMMA AllSpared ==
  ASSUME \A s \in Requests : Backed(s), UNCHANGED <<req, requests, owned, load, send>>,
         step'.batch = step.batch
  PROVE  \A s \in Requests : Backed(s)'
BY SparedBacked DEF Spares

(* Only r changes.                                                          *)
LEMMA OneBacked ==
  ASSUME \A s \in Requests : Backed(s), NEW r, Backed(r)', step'.batch = step.batch,
         \A s \in Requests \ {r} :
            /\ req'[s] = req[s] /\ owned'[s] = owned[s] /\ load'[s] = load[s] /\ send'[s] = send[s]
            /\ s \in requests' <=> s \in requests
  PROVE  \A s \in Requests : Backed(s)'
<1>1. ASSUME NEW s \in Requests, s # r PROVE Backed(s)'
  BY <1>1, SparedBacked DEF Spares
<1> QED
  BY <1>1

(* r loses tokens, or none: its blocks stay enough.                         *)
LEMMA ShrunkBacked ==
  ASSUME Shapes, NEW s \in Requests, Backed(s), NEW m \in Int, NEW n \in Int, m <= n,
         Covered(s) = n, Covered(s)' = m, s \in requests' <=> s \in requests,
         owned'[s] = owned[s], load'[s] = load[s],
         load[s] # "idle" \/ send'[s] # "none" \/ owned[s] = {} \/ (req'[s].status = "RUNNING" /\ m > 0)
  PROVE  Backed(s)'
<1>1. PICK p \in Int, q \in Int : p = BlocksFor(m) /\ q = BlocksFor(n) /\ p <= q
  BY BlocksForIs, BlocksForGrows
<1>2. PICK c \in Nat : c = Cardinality(owned[s])
  <2>1. owned[s] \subseteq Blocks /\ IsFiniteSet(Blocks)
    BY Parameters DEF Shapes
  <2> QED
    BY <2>1, FS_Subset, FS_CardinalityType
<1>3. s \in requests => q <= c
  BY <1>1, <1>2 DEF Backed
<1>4. s \in requests' => p <= c
  BY <1>1, <1>3
<1> QED
  BY <1>1, <1>2, <1>4 DEF Backed

(* schedule() passes on, but for a preemption, a promotion or a load.       *)
LEMMA PassedBacked ==
  ASSUME BooksInv, BooksInv', \A s \in Requests : Backed(s),
         \/ BeginSchedule \/ SkipRunning \/ EndRunning \/ SkipWaiting \/ EndWaiting
         \/ \E ext \in LoadableTokens \cup {0} : BreakWaiting(ext)
  PROVE  \A s \in Requests : Backed(s)'
<1>1. UNCHANGED <<req, requests, owned, load, send>>
  BY DEF BeginSchedule, SkipRunning, EndRunning, SkipWaiting, EndWaiting, BreakWaiting, kv, xfer
<1>2. step'.batch = step.batch
  <2>1. CASE BeginSchedule
    <3>1. step.batch = <<>>
      BY <2>1, HandlerIs DEF BooksInv, BeginSchedule
    <3> QED
      BY <2>1, <3>1, BeginsAlone
  <2> QED
    BY <2>1, RunningPasses, WaitingPasses DEF Passes
<1> QED
  BY <1>1, <1>2, AllSpared

LEMMA RunningBacked ==
  ASSUME BooksInv, BooksInv', \A s \in Requests : Backed(s), ScheduleRunning
  PROVE  \A s \in Requests : Backed(s)'
<1>1. /\ Shapes /\ QueuesInv /\ AccountsInv /\ req \in [Requests -> RequestRecord]
  BY DEF BooksInv, ShapesInv, Shapes
<1>2. PICK r \in Requests : r = Current /\ r \in ToSet(running)
  BY <1>1, CurrentType DEF ScheduleRunning
<1>3. r \in requests /\ req[r].status = "RUNNING" /\ req[r] \in RequestRecord /\ Bounded(req[r])
  <2>1. step.phase # "update"
    BY DEF ScheduleRunning, MoreRunning
  <2> QED
    BY <1>1, <1>2, <2>1, RunningIs
<1>4. PICK n \in Int : n = NewTokens(req[r])
  BY <1>1, <1>3, NewTokensType
<1>5. PICK k \in Int : k = DraftsScheduled(req[r], n)
  <2>1. PICK q \in RequestRecord : q = req[r]
    BY <1>3
  <2>2. n + q.computed - q.all - q.placeholders \in Int /\ q.spec \in Int
    BY RequestTypes
  <2>3. DraftsScheduled(q, n) \in Int
    BY <2>2 DEF DraftsScheduled, Least
  <2> QED
    BY <2>1, <2>3
<1>6. PICK m \in Nat : m = NumLookaheadTokens
  BY Parameters
<1>7. Take(r, Needed(r, req[r].computed + n + m))
  BY <1>2, <1>4, <1>6 DEF ScheduleRunning, NeededRunning
<1>8. step'.batch = Append(step.batch, Scheduled(r, n, k))
  <2>1. step'.batch = Append(step.batch, Scheduled(r, n, DraftsScheduled(req[r], n)))
    BY <1>1, <1>2, <1>4 DEF ScheduleRunning, HandlerLocals, Shapes
  <2> QED
    BY <1>5, <2>1
<1>9. UNCHANGED <<load, send, requests>>
  BY DEF ScheduleRunning, xfer
<1>10. req' = [req EXCEPT ![r] = WithSpec(req[r], 0)]
  BY <1>2 DEF ScheduleRunning, WithSpec
<1>11. /\ req'[r].status = "RUNNING" /\ req'[r].computed = req[r].computed
       /\ \A s \in Requests \ {r} : req'[s] = req[s]
  <2>1. WithSpec(req[r], 0).status = "RUNNING" /\ WithSpec(req[r], 0).computed = req[r].computed
    BY <1>3, WithSpecIs DEF SameComputed
  <2> QED
    BY <1>1, <1>10, <2>1
<1>12. req[r].computed >= 0
  BY <1>3, Parameters DEF Bounded
<1> QED
  BY <1>3, <1>7, <1>8, <1>9, <1>11, <1>12, JoinedBacked

LEMMA PreemptBacked ==
  ASSUME BooksInv, BooksInv', \A s \in Requests : Backed(s), PreemptForBlocks \/ ResetPreempt
  PROVE  \A s \in Requests : Backed(s)'
<1>1. /\ Shapes /\ QueuesInv /\ AccountsInv /\ AccountsInv' /\ running \in Seq(Requests)
      /\ req \in [Requests -> RequestRecord] /\ owned \in [Requests -> SUBSET Blocks]
      /\ load \in [Requests -> {"idle", "loading", "loaded"}]
  BY DEF BooksInv, ShapesInv, Shapes
<1>2. running # <<>>
  BY <1>1, CurrentType DEF PreemptForBlocks, ResetPreempt
<1>3. PICK r \in Requests : r = Last(running)
  BY <1>1, <1>2, QueueFront
<1>4. PICK d \in BOOLEAN : PreemptRequest(r, d)
  BY <1>3, Parameters DEF PreemptForBlocks, ResetPreempt
<1>5. PICK t : t = PreemptedRequest(req[r], d)
  OBVIOUS
<1>6. t.status = "PREEMPTED" /\ t.computed = 0
  BY <1>1, <1>5, PreemptedIs
<1>7. /\ req' = [req EXCEPT ![r] = t] /\ owned' = [owned EXCEPT ![r] = {}]
      /\ load' = [load EXCEPT ![r] = "idle"]
  BY <1>4, <1>5 DEF PreemptRequest, FreeRequestBlocks
<1>8. step'.batch = step.batch /\ requests' = requests
  BY RunningPasses DEF PreemptForBlocks, ResetPreempt, Passes
<1>9. SlotTokens(step'.batch, r) = 0
  <2>1. req'[r].status # "RUNNING"
    BY <1>1, <1>6, <1>7, SMTT(60)
  <2>2. \A i \in DOMAIN step'.batch : step'.batch[i].r # r
    BY <1>1, <2>1 DEF AccountsInv, BatchInv, Promised
  <2>3. r \notin BatchIds(step'.batch)
    BY <2>2 DEF BatchIds
  <2> QED
    BY <2>3, SlotOfOther
<1>10. Backed(r)'
  BY <1>1, <1>6, <1>7, <1>9, FreedBacked
<1>11. send' = send
  BY DEF PreemptForBlocks, ResetPreempt, xfer
<1> QED
  BY <1>1, <1>7, <1>8, <1>10, <1>11, OneBacked

LEMMA PromotedBacked ==
  ASSUME BooksInv, BooksInv', LoadsInv, \A s \in Requests : Backed(s), PromoteLoaded
  PROVE  \A s \in Requests : Backed(s)'
<1>1. /\ Shapes /\ QueuesInv /\ AccountsInv /\ req \in [Requests -> RequestRecord]
      /\ owned \in [Requests -> SUBSET Blocks] /\ load \in [Requests -> {"idle", "loading", "loaded"}]
  BY DEF BooksInv, ShapesInv, Shapes
<1>2. PICK r \in Requests : r = Candidate
  BY <1>1, CandidateType DEF PromoteLoaded
<1>3. /\ r \in requests /\ req[r] \in RequestRecord /\ req[r].status = "WAITING_FOR_REMOTE_KVS"
      /\ SlotTokens(step.batch, r) = 0 /\ load[r] # "idle"
  <2>1. /\ r \in requests /\ req[r] \in RequestRecord /\ req[r].status = "WAITING_FOR_REMOTE_KVS"
        /\ r \notin BatchIds(step.batch)
    BY <1>1, <1>2, WaitingIs DEF PromoteLoaded
  <2> QED
    BY <2>1, SlotOfOther DEF LoadsInv
<1>4. PICK q \in RequestRecord : q = req[r]
  BY <1>3
<1>5. PICK x \in {"PREEMPTED", "WAITING"} : x = IF q.preempted THEN "PREEMPTED" ELSE "WAITING"
  OBVIOUS
<1>6. PICK n \in Int : n = IF r \notin failed /\ q.computed = q.all THEN q.all - 1 ELSE q.computed
  BY RequestTypes
<1>7. PICK t : t = WithAdmission(q, x, n)
  OBVIOUS
<1>8. t.computed = n /\ n <= q.computed
  <2>1. t.computed = n
    BY <1>7 DEF WithAdmission, RequestRecord
  <2> QED
    BY <1>6, <2>1, RequestTypes
<1>9. req' = [req EXCEPT ![r] = t]
  BY <1>1, <1>2, <1>4, <1>5, <1>6, <1>7 DEF PromoteLoaded, WithAdmission
<1>10. UNCHANGED <<requests, send, step>>
  BY DEF PromoteLoaded
<1>11. \A s \in Requests \ {r} : req'[s] = req[s] /\ owned'[s] = owned[s] /\ load'[s] = load[s]
  BY <1>1, <1>2, <1>9 DEF PromoteLoaded
<1>12. Backed(r)'
  <2>1. CASE r \in failed /\ q.computed = 0
    <3>1. owned' = [owned EXCEPT ![r] = {}]
      BY <1>2, <1>4, <2>1 DEF PromoteLoaded
    <3>2. owned'[r] = {} /\ req'[r].computed = 0 /\ SlotTokens(step'.batch, r) = 0
      BY <1>1, <1>3, <1>6, <1>8, <1>9, <1>10, <2>1, <3>1
    <3> QED
      BY <3>2, FreedBacked
  <2>2. CASE ~(r \in failed /\ q.computed = 0)
    <3>1. owned' = owned /\ load' = load
      BY <1>2, <1>4, <2>2 DEF PromoteLoaded
    <3>2. PICK c \in Int : c = q.computed
      BY RequestTypes
    <3>3. Covered(r) = c /\ Covered(r)' = n
      BY <1>1, <1>3, <1>4, <1>8, <1>9, <1>10, <3>2 DEF Covered
    <3> QED
      BY <1>1, <1>3, <1>8, <1>10, <3>1, <3>2, <3>3, ShrunkBacked
  <2> QED
    BY <2>1, <2>2
<1> QED
  BY <1>10, <1>11, <1>12, OneBacked

LEMMA LoadingBacked ==
  ASSUME BooksInv, BooksInv', \A s \in Requests : Backed(s), NEW ext \in LoadableTokens, AdmitLoad(ext)
  PROVE  \A s \in Requests : Backed(s)'
<1>1. /\ ShapesInv /\ Shapes /\ QueuesInv /\ AccountsInv /\ req \in [Requests -> RequestRecord]
      /\ owned \in [Requests -> SUBSET Blocks] /\ load \in [Requests -> {"idle", "loading", "loaded"}]
  BY DEF BooksInv, ShapesInv, Shapes
<1>2. PICK r \in Requests : r = Candidate
  BY <1>1, CandidateType DEF AdmitLoad
<1>3. r \in requests /\ req[r] \in RequestRecord /\ SlotTokens(step.batch, r) = 0
  <2>1. r \in requests /\ req[r] \in RequestRecord /\ r \notin BatchIds(step.batch)
    BY <1>1, <1>2, WaitingIs DEF AdmitLoad
  <2> QED
    BY <2>1, SlotOfOther
<1>4. PICK n \in Int : n = ext
  BY Parameters
<1>5. PICK t : t = WithAdmission(req[r], "WAITING_FOR_REMOTE_KVS", n)
  OBVIOUS
<1>6. t.computed = n
  BY <1>3, <1>5 DEF WithAdmission, RequestRecord
<1>7. req' = [req EXCEPT ![r] = t]
  BY <1>1, <1>2, <1>4, <1>5 DEF AdmitLoad, WithAdmission
<1>8. load' = [load EXCEPT ![r] = "loading"] /\ requests' = requests /\ Take(r, Needed(r, n))
      /\ send' = send
  BY <1>2, <1>4 DEF AdmitLoad, xfer
<1>9. /\ BlocksFor(n) <= Cardinality(owned'[r]) /\ Cardinality(owned'[r]) \in Int
      /\ \A s \in Requests \ {r} : owned'[s] = owned[s]
  BY <1>1, <1>8, TakenCovers
<1>10. step'.batch = step.batch
  BY WaitingPasses DEF Passes
<1>11. Covered(r)' = n
  BY <1>1, <1>3, <1>6, <1>7, <1>10 DEF Covered
<1>12. load'[r] # "idle" /\ r \in requests' /\ n <= n
  BY <1>1, <1>3, <1>8
<1>13. Backed(r)'
  BY <1>9, <1>11, <1>12, GrownBacked
<1>14. \A s \in Requests \ {r} : req'[s] = req[s] /\ load'[s] = load[s]
  BY <1>1, <1>7, <1>8
<1> QED
  BY <1>8, <1>9, <1>10, <1>13, <1>14, OneBacked

LEMMA AdmittedBacked ==
  ASSUME BooksInv, BooksInv', \A s \in Requests : Backed(s), AdmitRunning
  PROVE  \A s \in Requests : Backed(s)'
<1>1. /\ Shapes /\ QueuesInv /\ AccountsInv /\ req \in [Requests -> RequestRecord]
  BY DEF BooksInv, ShapesInv, Shapes
<1>2. PICK r \in Requests : r = Candidate
  BY <1>1, CandidateType DEF AdmitRunning
<1>3. r \in requests /\ req[r] \in RequestRecord /\ Bounded(req[r])
  <2>1. r \in requests /\ r \in Unfinished /\ Account(r) /\ req[r] \in RequestRecord
    BY <1>1, <1>2, WaitingIs DEF AdmitRunning
  <2> QED
    BY <2>1 DEF Account
<1>4. PICK n \in Int : n = AdmittedTokens(r)
  BY <1>1, AdmittedTokensType
<1>5. PICK k \in Int : k = IF Padded(r) THEN NumSpecTokens ELSE 0
  BY Parameters
<1>6. PICK m \in Nat : m = NumLookaheadTokens
  BY Parameters
<1>7. Take(r, Needed(r, req[r].computed + n + m))
  BY <1>2, <1>4, <1>6 DEF AdmitRunning
<1>8. step'.batch = Append(step.batch, Scheduled(r, n, k))
  <2>1. step'.batch = Append(step.batch, Scheduled(r, n, IF Padded(r) THEN NumSpecTokens ELSE 0))
    BY <1>1, <1>2, <1>4 DEF AdmitRunning, HandlerLocals, Shapes
  <2> QED
    BY <1>5, <2>1
<1>9. UNCHANGED <<load, send, requests>>
  BY DEF AdmitRunning, xfer
<1>10. req' = [req EXCEPT ![r] = WithStatus(req[r], "RUNNING")]
  BY <1>2 DEF AdmitRunning, WithStatus
<1>11. /\ req'[r].status = "RUNNING" /\ req'[r].computed = req[r].computed
       /\ \A s \in Requests \ {r} : req'[s] = req[s]
  <2>1. /\ WithStatus(req[r], "RUNNING").status = "RUNNING"
        /\ WithStatus(req[r], "RUNNING").computed = req[r].computed
    BY <1>3, WithStatusIs DEF SameComputed, Status
  <2> QED
    BY <1>1, <1>10, <2>1
<1>12. req[r].computed >= 0
  BY <1>3, Parameters DEF Bounded
<1> QED
  BY <1>3, <1>7, <1>8, <1>9, <1>11, <1>12, JoinedBacked

(* The tokens of the step become computed tokens.                           *)
LEMMA EmittedBacked ==
  ASSUME BooksInv, BooksInv', \A s \in Requests : Backed(s), EndSchedule
  PROVE  \A s \in Requests : Backed(s)'
<1>1. /\ Shapes /\ AccountsInv /\ req \in [Requests -> RequestRecord]
  BY DEF BooksInv, ShapesInv, Shapes
<1>2. PICK b \in Seq(BatchEntry) : b = step.batch
  BY <1>1, LocalsTypes DEF Shapes
<1>3. StepOf(b)
  BY <1>1, <1>2 DEF StepOf, AccountsInv, BatchInv
<1>4. /\ UNCHANGED <<requests, owned, send>> /\ step' = Idle
      /\ load' = [r \in Requests |-> IF r \in BatchIds(b) THEN "idle" ELSE load[r]]
  BY <1>2 DEF EndSchedule, xfer
<1>5. PICK seq \in Nat : \A r \in Requests :
            req'[r] = IF r \in BatchIds(b) THEN AfterSchedule(req[r], EntryOf(b, r), seq) ELSE req[r]
  <2>1. schedSeq \in Nat
    BY <1>1 DEF Shapes
  <2>2. PICK seq \in Nat : seq = IF DeferBlockFree /\ BatchIds(b) # {} THEN schedSeq + 1 ELSE schedSeq
    BY <2>1
  <2> QED
    BY <1>2, <2>2 DEF EndSchedule
<1>6. \A s : SlotTokens(step'.batch, s) = 0
  <2>1. step'.batch = <<>>
    BY <1>4, IdleAccounts
  <2>2. BatchIds(<<>>) = {}
    BY DEF BatchIds
  <2> QED
    BY <2>1, <2>2, SlotOfOther
<1>7. ASSUME NEW s \in Requests, s \in BatchIds(b) PROVE Backed(s)'
  <2>1. PICK e \in BatchEntry : e = EntryOf(b, s)
    BY <1>3, <1>7, SlotOfMember
  <2>2. SlotTokens(b, s) = e.n /\ e.n \in Int /\ e.n > 0 /\ Promised(e) /\ e.r = s
    <3>1. SlotTokens(b, s) = e.n /\ e.n > 0 /\ e.r = s /\ \E i \in DOMAIN b : b[i] = e
      BY <1>3, <1>7, <2>1, SlotOfMember
    <3>2. Promised(e)
      BY <1>1, <1>2, <3>1 DEF AccountsInv, BatchInv
    <3> QED
      BY <3>1, <3>2 DEF BatchEntry
  <2>3. PICK q \in RequestRecord : q = req[s]
    BY <1>1
  <2>4. PICK t : t = AfterSchedule(q, e, seq)
    OBVIOUS
  <2>5. req'[s] = t /\ t.computed = q.computed + e.n /\ t.status = "RUNNING" /\ q.computed \in Int
    <3>1. t.computed = q.computed + e.n /\ t.status = q.status
      BY <2>4, AfterScheduleIs
    <3>2. q.status = "RUNNING"
      BY <2>2, <2>3 DEF Promised
    <3> QED
      BY <1>5, <1>7, <2>1, <2>3, <2>4, <3>1, <3>2, RequestTypes
  <2>6. q.computed >= 0
    <3>1. s \in Unfinished /\ Account(s)
      BY <1>1, <2>2 DEF Promised, AccountsInv
    <3> QED
      BY <2>3, <2>5, <3>1, Parameters DEF Account, Bounded
  <2>7. PICK n \in Int : n = q.computed + e.n
    BY <2>2, <2>5
  <2>8. n > 0
    BY <2>2, <2>5, <2>6, <2>7
  <2>9. Covered(s) = n /\ Covered(s)' = n
    BY <1>2, <1>6, <2>2, <2>3, <2>5, <2>7 DEF Covered
  <2> QED
    BY <1>4, <2>5, <2>8, <2>9 DEF Backed
<1>8. ASSUME NEW s \in Requests, s \notin BatchIds(b) PROVE Backed(s)'
  BY <1>2, <1>4, <1>5, <1>6, <1>8, SlotOfOther, SparedBacked DEF Spares
<1> QED
  BY <1>7, <1>8

LEMMA ScheduleBacked ==
  ASSUME BooksInv, BooksInv', LoadsInv, \A s \in Requests : Backed(s), ScheduleNext
  PROVE  \A s \in Requests : Backed(s)'
BY PassedBacked, RunningBacked, PreemptBacked, PromotedBacked, LoadingBacked, AdmittedBacked,
   EmittedBacked DEF ScheduleNext

(* Outside of schedule() no step is being filled.                           *)
LEMMA NoStepFilled ==
  ASSUME BooksInv, BooksInv', NoSessions,
         UpdateNext \/ ResetNext \/ ClientNext \/ WorkerNext
  PROVE  /\ step.batch = <<>> /\ step'.batch = <<>>
         /\ \A s : SlotTokens(step.batch, s) = 0 /\ SlotTokens(step'.batch, s) = 0
<1>1. ~Scheduling'
  BY OutsideSchedule DEF Outside, BooksInv, ShapesInv
<1>2. ~Scheduling
  <2>1. ASSUME NEW g, NEW m, NEW eos, UpdateEntry(g, m, eos) PROVE step.phase = "update"
    BY <2>1 DEF UpdateEntry, NextEntry
  <2>2. ASSUME NEW r, FinishFailed(r) \/ ReportReceived(r) \/ ReportSent(r) PROVE step.phase = "transfers"
    BY <2>2 DEF FinishFailed, ReportReceived, ReportSent
  <2>3. /\ BeginUpdate => step.phase = "idle"
        /\ SkipEntry \/ RemoveStopped => step.phase = "update"
        /\ EndUpdate => step.phase = "transfers"
    BY DEF BeginUpdate, SkipEntry, RemoveStopped, EndUpdate, NextEntry
  <2>4. UpdateNext => step.phase \in {"idle", "update", "transfers"}
    BY <2>1, <2>2, <2>3 DEF UpdateNext
  <2>5. ResetNext => step.phase \in {"idle", "reset"}
    BY DEF ResetNext, BeginReset, ResetPreempt, EndReset
  <2>6. ClientNext \/ WorkerNext => step.phase = "idle"
    BY DEF ClientNext, AddRequest, Abort, NoSessions, WorkerNext, LoadDone, SendDone
  <2> QED
    BY <2>4, <2>5, <2>6, SMTT(60) DEF Scheduling
<1>3. step.batch = <<>> /\ step'.batch = <<>>
  BY <1>1, <1>2 DEF BooksInv, AccountsInv, BatchInv
<1>4. BatchIds(<<>>) = {}
  BY DEF BatchIds
<1> QED
  BY <1>3, <1>4, SlotOfOther

(* The statuses and the computed tokens stay, and so do the blocks.         *)
LEMMA StandingBacked ==
  ASSUME \A s \in Requests : Backed(s), UNCHANGED <<requests, owned, load, send>>,
         step'.batch = step.batch,
         \A s \in Requests : req'[s].computed = req[s].computed /\ req'[s].status = req[s].status
  PROVE  \A s \in Requests : Backed(s)'
BY SparedBacked DEF Spares

(* r leaves with its blocks.                                                *)
LEMMA GoneBacked ==
  ASSUME Shapes, \A s \in Requests : Backed(s), NEW r \in Requests, NEW t,
         req' = [req EXCEPT ![r] = t], requests' = requests \ {r}, step'.batch = step.batch,
         owned' = [owned EXCEPT ![r] = {}], load' = [load EXCEPT ![r] = "idle"],
         \A s \in Requests \ {r} : send'[s] = send[s]
  PROVE  \A s \in Requests : Backed(s)'
<1>1. /\ req \in [Requests -> RequestRecord] /\ owned \in [Requests -> SUBSET Blocks]
      /\ load \in [Requests -> {"idle", "loading", "loaded"}]
  BY DEF Shapes
<1>2. owned'[r] = {} /\ r \notin requests'
  BY <1>1
<1>3. Backed(r)'
  BY <1>2, FreedBacked
<1> QED
  BY <1>1, <1>3, OneBacked

LEMMA BegunBacked ==
  ASSUME BooksInv, BooksInv', LoadsInv, NoSessions, \A s \in Requests : Backed(s), BeginUpdate
  PROVE  \A s \in Requests : Backed(s)'
<1>1. /\ Shapes /\ req \in [Requests -> RequestRecord] /\ owned \in [Requests -> SUBSET Blocks]
  BY DEF BooksInv, ShapesInv, Shapes
<1> DEFINE batch == Head(inflight).batch
<1>2. PICK bad \in InvalidBlocks(batch) : req' = Truncated(bad) /\ step'.todo = batch
  BY DEF BeginUpdate, Idle
<1>3. UNCHANGED <<requests, owned, load, send>>
  BY DEF BeginUpdate
<1>4. \A s : SlotTokens(step.batch, s) = 0 /\ SlotTokens(step'.batch, s) = 0
  BY NoStepFilled DEF UpdateNext
<1>7. StepOf(batch)
  <2>1. Shapes' /\ SlotsInv'
    BY DEF BooksInv, ShapesInv, AccountsInv
  <2>2. 1 \in DOMAIN Slots' /\ Slots'[1] = step'.todo
    BY <2>1, SlotsBecome
  <2>3. step'.todo \in Seq(BatchEntry)
    BY <2>1, LocalsTypes DEF Shapes
  <2> QED
    BY <1>2, <2>1, <2>2, <2>3 DEF SlotsInv, StepOf
<1>5. ASSUME NEW s \in Requests, s \in DOMAIN bad PROVE Backed(s)'
  <2>1. /\ bad[s] \in Nat /\ bad[s] * BlockSize < req[s].computed - SlotTokens(batch, s)
        /\ s \in requests /\ req[s].status = "WAITING_FOR_REMOTE_KVS"
    BY <1>2, <1>5, InvalidBlocksIs, ZenonT(60)
  <2>2. PICK m \in Int : m = bad[s] * BlockSize
    BY <2>1, Parameters
  <2>3. PICK n \in Int : n = req[s].computed
    BY <1>1, RequestTypes
  <2>4. m <= n
    <3>1. PICK k \in Nat : k = SlotTokens(batch, s)
      BY <1>7, SlotTypes
    <3> QED
      BY <2>1, <2>2, <2>3, <3>1
  <2>5. req'[s].computed = m
    <3>1. req'[s] = WithComputed(req[s], m)
      BY <1>1, <1>2, <1>5, <2>2, TruncatedIs
    <3> QED
      BY <1>1, <3>1, WithComputedIs
  <2>6. Covered(s) = n /\ Covered(s)' = m
    BY <1>4, <2>3, <2>5 DEF Covered
  <2>7. load[s] # "idle"
    BY <2>1 DEF LoadsInv
  <2> QED
    BY <1>1, <1>3, <2>4, <2>6, <2>7, ShrunkBacked
<1>6. ASSUME NEW s \in Requests, s \notin DOMAIN bad PROVE Backed(s)'
  <2>1. req'[s] = req[s]
    BY <1>1, <1>2, <1>6, TruncatedIs
  <2> QED
    BY <1>3, <1>4, <2>1, SparedBacked DEF Spares
<1> QED
  BY <1>5, <1>6

(* A request that finishes keeps its blocks for a load that goes on, or for *)
(* the connector that sends them.                                           *)
LEMMA FinishBacked ==
  ASSUME Shapes, LoadsInv, \A s \in Requests : Backed(s), NEW r \in Requests, FinishRequest(r),
         step'.batch = step.batch, step.batch = <<>>
  PROVE  \A s \in Requests : Backed(s)'
<1>1. /\ req \in [Requests -> RequestRecord] /\ owned \in [Requests -> SUBSET Blocks]
  BY DEF Shapes
<1>2. PICK t : t = WithStatus(req[r], "FINISHED")
  OBVIOUS
<1>3. req' = [req EXCEPT ![r] = t]
  BY <1>2 DEF FinishRequest, FinishAndFree, WithStatus
<1>4. /\ AwaitsLoad(r) => UNCHANGED <<requests, kv, send>>
      /\ ~AwaitsLoad(r) => FreeRequest(r)
  BY DEF FinishRequest, FinishAndFree
<1>5. CASE /\ UNCHANGED <<requests, kv>> /\ (load[r] # "idle" \/ send'[r] # "none")
           /\ \A s \in Requests \ {r} : send'[s] = send[s]
  <2>1. UNCHANGED <<requests, owned, load>>
    BY <1>5 DEF kv
  <2>2. t.computed = req[r].computed
    BY <1>1, <1>2, WithStatusIs DEF SameComputed, Status
  <2>3. PICK n \in Int : n = Covered(r)
    <3>1. BatchIds(<<>>) = {}
      BY DEF BatchIds
    <3>2. SlotTokens(step.batch, r) = 0 /\ req[r].computed \in Int
      BY <1>1, <3>1, RequestTypes, SlotOfOther
    <3> QED
      BY <3>2 DEF Covered
  <2>4. Covered(r)' = n /\ n <= n
    BY <1>1, <1>3, <2>2, <2>3 DEF Covered
  <2>5. Backed(r)'
    BY <1>5, <2>1, <2>3, <2>4, ShrunkBacked
  <2> QED
    BY <1>1, <1>3, <1>5, <2>1, <2>5, OneBacked
<1>6. CASE requests' = requests \ {r} /\ FreeRequestBlocks(r) /\ UNCHANGED send
  <2>1. owned' = [owned EXCEPT ![r] = {}] /\ load' = [load EXCEPT ![r] = "idle"]
    BY <1>6 DEF FreeRequestBlocks
  <2> QED
    BY <1>3, <1>6, <2>1, GoneBacked
<1>7. CASE AwaitsLoad(r)
  <2>1. load[r] # "idle"
    BY <1>7 DEF FinishRequest, AwaitsLoad, LoadsInv
  <2> QED
    BY <1>4, <1>5, <1>7, <2>1
<1>8. CASE UNCHANGED <<requests, kv>> /\ send' = [send EXCEPT ![r] = "sending"]
  <2>1. send \in [Requests -> {"none", "sending", "sent"}]
    BY DEF Shapes
  <2>2. send'[r] # "none" /\ \A s \in Requests \ {r} : send'[s] = send[s]
    BY <1>8, <2>1, SMTT(60)
  <2> QED
    BY <1>5, <1>8, <2>2
<1> QED
  BY <1>4, <1>6, <1>7, <1>8 DEF FreeRequest

(* An output is delivered: rejected drafts are rolled back, and the request *)
(* keeps its blocks, or it stops and gives them back, sent or not.          *)
LEMMA DeliveredBacked ==
  ASSUME BooksInv, BooksInv', NoSessions, \A s \in Requests : Backed(s),
         NEW g \in Int, NEW m \in Int, NEW eos \in BOOLEAN, UpdateEntry(g, m, eos), UpdateNext
  PROVE  \A s \in Requests : Backed(s)'
<1>1. /\ Shapes /\ AccountsInv /\ req \in [Requests -> RequestRecord]
  BY DEF BooksInv, ShapesInv, Shapes
<1>2. PICK e, r : e = Head(step.todo) /\ r = e.r
  OBVIOUS
<1>3. /\ e \in BatchEntry /\ r \in Requests /\ r \in Unfinished /\ Account(r)
      /\ e.k \in Nat /\ Pending(r) \in Nat /\ 1 + e.k <= Pending(r)
  BY <1>2, EntryExpected
<1>4. g \in 1 .. e.k + 1 /\ r \in requests
  BY <1>2 DEF UpdateEntry
<1>5. step'.batch = step.batch /\ \A s : SlotTokens(step.batch, s) = 0 /\ SlotTokens(step'.batch, s) = 0
  BY NoStepFilled
<1>6. PICK p \in RequestRecord : p = req[r]
  BY <1>1, <1>3
<1>7. PICK q \in RequestRecord : q = Deliver(p, e, g, m)
  BY <1>3, DeliverIs
<1>10. PICK x \in Int : x = e.k + 1 - g /\ 0 <= x /\ x <= e.k
  BY <1>3, <1>4
<1>11. PICK n \in Int : n = p.computed
  BY RequestTypes
<1>12. PICK d \in Int : d = q.computed
  BY RequestTypes
<1>13. q.status = p.status /\ d = IF p.stale <= 0 /\ n > 0 THEN n - x ELSE n
  BY <1>3, <1>7, <1>10, <1>11, <1>12, DeliverIs
<1>14. d <= n
  BY <1>10, <1>13
<1>15. Covered(r) = n
  BY <1>5, <1>6, <1>11 DEF Covered
<1>8. CASE req' = [req EXCEPT ![r] = q] /\ UNCHANGED <<requests, send, kv>>
  <2>6. Covered(r)' = d
    BY <1>1, <1>3, <1>5, <1>8, <1>12 DEF Covered
  <2>7. load[r] # "idle" \/ owned[r] = {} \/ (req'[r].status = "RUNNING" /\ d > 0)
    <3>1. SUFFICES ASSUME load[r] = "idle", owned[r] # {} PROVE p.status = "RUNNING" /\ d > 0
      BY <1>1, <1>3, <1>6, <1>8, <1>13
    <3>2. p.status = "RUNNING" /\ n > 0
      <4>1. send[r] = "none"
        BY <1>1, <1>3, NothingSent DEF BooksInv, Unfinished
      <4> QED
        BY <1>3, <1>6, <1>15, <3>1, <4>1 DEF Backed
    <3>3. PICK w \in Nat : w = Pending(r) /\ 1 + e.k <= w
      BY <1>3
    <3>4. n = p.all - 1 + w /\ p.all \in Int /\ p.all > 0
      <4>1. Runs(r) /\ Bounded(p)
        BY <1>3, <1>6, <3>2 DEF Account
      <4>2. w > 0
        BY <1>3, <3>3
      <4>3. n = p.all - 1 + w
        BY <1>6, <1>11, <3>3, <4>1, <4>2 DEF Runs, Decodes
      <4> QED
        BY <4>1, <4>3, RequestTypes DEF Bounded
    <3>5. n - x > 0
      BY <1>3, <1>10, <3>3, <3>4
    <3> QED
      BY <1>13, <3>2, <3>5
  <2>8. owned'[r] = owned[r] /\ load'[r] = load[r] /\ (r \in requests' <=> r \in requests)
    BY <1>8 DEF kv
  <2>9. Backed(r)'
    BY <1>1, <1>3, <1>14, <1>15, <2>6, <2>7, <2>8, ShrunkBacked
  <2> QED
    BY <1>1, <1>5, <1>8, <2>9, OneBacked DEF kv
<1>9. CASE Stop(r, q)
  <2>1. PICK t : t = WithStatus(q, "FINISHED")
    OBVIOUS
  <2>2. req' = [req EXCEPT ![r] = t] /\ FreeRequest(r)
    BY <1>9, <2>1 DEF Stop, NoSessions, WithStatus
  <2>3. CASE requests' = requests \ {r} /\ FreeRequestBlocks(r) /\ UNCHANGED send
    <3>1. owned' = [owned EXCEPT ![r] = {}] /\ load' = [load EXCEPT ![r] = "idle"]
      BY <2>3 DEF FreeRequestBlocks
    <3> QED
      BY <1>1, <1>3, <1>5, <2>2, <2>3, <3>1, GoneBacked
  <2>4. CASE UNCHANGED <<requests, kv>> /\ send' = [send EXCEPT ![r] = "sending"]
    <3>1. send \in [Requests -> {"none", "sending", "sent"}]
      BY <1>1 DEF Shapes
    <3>2. send'[r] # "none" /\ \A s \in Requests \ {r} : send'[s] = send[s]
      BY <1>3, <2>4, <3>1
    <3>3. t.computed = d
      BY <1>12, <2>1, WithStatusIs DEF SameComputed, Status
    <3>4. Covered(r)' = d
      BY <1>1, <1>3, <1>5, <2>2, <3>3 DEF Covered
    <3>5. UNCHANGED <<requests, owned, load>>
      BY <2>4 DEF kv
    <3>6. Backed(r)'
      BY <1>1, <1>3, <1>14, <1>15, <3>2, <3>4, <3>5, ShrunkBacked
    <3> QED
      BY <1>1, <1>5, <2>2, <3>2, <3>5, <3>6, OneBacked
  <2> QED
    BY <2>2, <2>3, <2>4 DEF FreeRequest
<1> QED
  BY <1>2, <1>6, <1>7, <1>8, <1>9 DEF UpdateEntry

LEMMA UpdateBacked ==
  ASSUME BooksInv, BooksInv', LoadsInv, NoSessions, \A s \in Requests : Backed(s), UpdateNext
  PROVE  \A s \in Requests : Backed(s)'
<1>1. /\ Shapes /\ req \in [Requests -> RequestRecord]
  BY DEF BooksInv, ShapesInv, Shapes
<1>2. step'.batch = step.batch /\ step.batch = <<>>
  BY NoStepFilled
<1>3. CASE SkipEntry
  <2>1. PICK e \in BatchEntry : e = Head(step.todo) /\ e.r \in Requests
    BY <1>1, <1>3, NextEntryIs DEF SkipEntry
  <2>2. PICK t : t = Drain(req[e.r], e)
    OBVIOUS
  <2>3. t.status = req[e.r].status /\ t.computed = req[e.r].computed
    BY <1>1, <2>1, <2>2, DrainIs DEF SameComputed
  <2>4. /\ req' = IF e.r \in requests THEN [req EXCEPT ![e.r] = t] ELSE req
        /\ UNCHANGED <<requests, owned, load, send>>
    BY <1>3, <2>1, <2>2 DEF SkipEntry, kv, xfer
  <2>5. \A s \in Requests : req'[s].computed = req[s].computed /\ req'[s].status = req[s].status
    BY <1>1, <2>3, <2>4
  <2> QED
    BY <1>2, <2>4, <2>5, StandingBacked
<1>4. CASE RemoveStopped
  <2>1. UNCHANGED <<req, requests, owned, load, send>>
    BY <1>4 DEF RemoveStopped, kv, xfer
  <2> QED
    BY <1>2, <2>1, AllSpared
<1>5. CASE EndUpdate
  <2>1. UNCHANGED <<requests, owned, load, send>>
    BY <1>5 DEF EndUpdate, kv, xfer
  <2>2. ASSUME NEW q \in RequestRecord
        PROVE  WithDrafts(q).status = q.status /\ WithDrafts(q).computed = q.computed
    BY DEF WithDrafts, RequestRecord
  <2>3. \A s \in Requests : req'[s].computed = req[s].computed /\ req'[s].status = req[s].status
    BY <1>1, <1>5, <2>2 DEF EndUpdate
  <2> QED
    BY <1>2, <2>1, <2>3, StandingBacked
<1>6. ASSUME NEW g \in 1 .. NumSpecTokens + 1, NEW m \in 1 .. NumSpecTokens + 1,
             NEW eos \in BOOLEAN, UpdateEntry(g, m, eos)
      PROVE  \A s \in Requests : Backed(s)'
  <2>1. g \in Int /\ m \in Int
    OBVIOUS
  <2> QED
    BY <1>6, <2>1, DeliveredBacked
<1>7. ASSUME NEW r \in Requests, FinishFailed(r) PROVE \A s \in Requests : Backed(s)'
  <2>1. CASE r \in requests /\ req[r].status # "FINISHED"
    BY <1>1, <1>2, <1>7, <2>1, FinishBacked DEF FinishFailed
  <2>2. CASE ~(r \in requests /\ req[r].status # "FINISHED")
    <3>1. UNCHANGED <<req, requests, owned, load, send>>
      BY <1>7, <2>2 DEF FinishFailed, kv, xfer
    <3> QED
      BY <1>2, <3>1, AllSpared
  <2> QED
    BY <2>1, <2>2
<1>8. ASSUME NEW r \in Requests, ReportReceived(r) PROVE \A s \in Requests : Backed(s)'
  <2>1. CASE req[r].status = "WAITING_FOR_REMOTE_KVS"
    <3>1. UNCHANGED <<req, requests, owned, load, send>>
      BY <1>8, <2>1 DEF ReportReceived, kv
    <3> QED
      BY <1>2, <3>1, AllSpared
  <2>2. CASE req[r].status # "WAITING_FOR_REMOTE_KVS"
    <3>1. /\ req' = req /\ requests' = requests \ {r}
          /\ owned' = [owned EXCEPT ![r] = {}] /\ load' = [load EXCEPT ![r] = "idle"]
          /\ send' = send
      BY <1>8, <2>2 DEF ReportReceived, FreeRequestBlocks
    <3>2. req' = [req EXCEPT ![r] = req[r]]
      BY <1>1, <3>1
    <3> QED
      BY <1>1, <1>2, <3>1, <3>2, GoneBacked
  <2> QED
    BY <2>1, <2>2
<1>9. ASSUME NEW r \in Requests, ReportSent(r) PROVE \A s \in Requests : Backed(s)'
  <2>1. /\ req' = req /\ requests' = requests \ {r}
        /\ owned' = [owned EXCEPT ![r] = {}] /\ load' = [load EXCEPT ![r] = "idle"]
        /\ send' = [send EXCEPT ![r] = "none"]
    BY <1>9 DEF ReportSent, FreeRequestBlocks
  <2>2. req' = [req EXCEPT ![r] = req[r]]
    BY <1>1, <2>1
  <2>3. \A s \in Requests \ {r} : send'[s] = send[s]
    BY <1>1, <2>1 DEF Shapes
  <2> QED
    BY <1>1, <1>2, <2>1, <2>2, <2>3, GoneBacked
<1> QED
  BY <1>3, <1>4, <1>5, <1>6, <1>7, <1>8, <1>9, BegunBacked DEF UpdateNext

LEMMA OtherBacked ==
  ASSUME BooksInv, BooksInv', LoadsInv, NoSessions, \A s \in Requests : Backed(s),
         ResetNext \/ ClientNext \/ WorkerNext
  PROVE  \A s \in Requests : Backed(s)'
<1>1. /\ Shapes /\ QueuesInv /\ AccountsInv /\ req \in [Requests -> RequestRecord]
      /\ owned \in [Requests -> SUBSET Blocks] /\ load \in [Requests -> {"idle", "loading", "loaded"}]
  BY DEF BooksInv, ShapesInv, Shapes
<1>2. step'.batch = step.batch /\ step.batch = <<>> /\ \A s : SlotTokens(step'.batch, s) = 0
  BY NoStepFilled
<1>3. CASE BeginReset \/ EndReset
  <2>1. UNCHANGED <<req, requests, owned, load, send>>
    BY <1>3 DEF BeginReset, EndReset, kv, xfer
  <2> QED
    BY <1>2, <2>1, AllSpared
<1>4. ASSUME NEW r \in Requests, AddRequest(r) PROVE \A s \in Requests : Backed(s)'
  <2>1. /\ req' = [req EXCEPT ![r] = WithStatus(req[r], "WAITING")] /\ requests' = requests \cup {r}
        /\ UNCHANGED <<owned, load, send>> /\ req[r].status = "NEW"
    BY <1>4 DEF AddRequest, WithStatus, kv, xfer
  <2>2. req[r].computed = 0 /\ r \notin requests
    BY <1>1, <2>1 DEF AccountsInv, Account, Unstarted, QueuesInv, QueuesPlaced
  <2>3. req'[r].computed = 0
    <3>1. WithStatus(req[r], "WAITING").computed = req[r].computed
      BY <1>1, WithStatusIs DEF SameComputed, Status
    <3> QED
      BY <1>1, <2>1, <2>2, <3>1
  <2>4. owned'[r] = {}
    BY <2>1, <2>2 DEF Backed
  <2>5. Backed(r)'
    BY <1>2, <2>3, <2>4, FreedBacked
  <2> QED
    BY <1>1, <1>2, <2>1, <2>5, OneBacked
<1>5. ASSUME NEW r \in Requests, Abort(r) PROVE \A s \in Requests : Backed(s)'
  BY <1>1, <1>2, <1>5, FinishBacked DEF Abort
<1>6. ASSUME NEW r \in Requests, LoadDone(r) PROVE \A s \in Requests : Backed(s)'
  <2>1. load' = [load EXCEPT ![r] = "loaded"] /\ UNCHANGED <<req, requests, owned, send, step>>
    BY <1>6 DEF LoadDone, xfer
  <2>2. load'[r] = "loaded" /\ \A s \in Requests \ {r} : load'[s] = load[s]
    BY <1>1, <2>1
  <2>3. Backed(r)'
    BY <2>1, <2>2 DEF Backed, Covered
  <2> QED
    BY <1>2, <2>1, <2>2, <2>3, OneBacked
<1>7. ASSUME NEW r \in Requests, SendDone(r) PROVE \A s \in Requests : Backed(s)'
  <2>1. /\ send[r] = "sending" /\ send' = [send EXCEPT ![r] = "sent"]
        /\ UNCHANGED <<req, requests, owned, load, step>>
    BY <1>7 DEF SendDone, kv
  <2>2. send'[r] = "sent" /\ \A s \in Requests \ {r} : send'[s] = send[s]
    BY <1>1, <2>1 DEF Shapes
  <2>3. Backed(r)'
    BY <2>1, <2>2 DEF Backed, Covered
  <2> QED
    BY <1>2, <2>1, <2>2, <2>3, OneBacked
<1> QED
  BY <1>3, <1>4, <1>5, <1>6, <1>7, Parameters, PreemptBacked
  DEF ResetNext, ClientNext, WorkerNext, NoSessions

(* Without a fence the blocks of a request are freed at once.               *)
LEMMA NothingDeferred ==
  ASSUME ~DeferBlockFree, NoSessions, deferred = <<>>, [Next]_vars
  PROVE  deferred' = <<>>
<1>1. ASSUME NEW r, FreeRequestBlocks(r) PROVE deferred' = deferred
  BY <1>1 DEF FreeRequestBlocks, NoWriteInFlight
<1>2. ASSUME NEW r, FinishRequest(r) PROVE deferred' = deferred
  BY <1>1, <1>2 DEF FinishRequest, FinishAndFree, FreeRequest, kv
<1>3. CASE ScheduleNext
  <2>1. CASE BeginSchedule \/ SkipRunning \/ ScheduleRunning \/ EndRunning
    BY <2>1 DEF BeginSchedule, SkipRunning, ScheduleRunning, EndRunning, kv
  <2>2. CASE PreemptForBlocks
    BY <1>1, <2>2, SMTT(60) DEF PreemptForBlocks, PreemptRequest
  <2>3. CASE SkipWaiting \/ PromoteLoaded \/ AdmitRunning \/ EndWaiting \/ EndSchedule
    BY <2>3 DEF SkipWaiting, PromoteLoaded, AdmitRunning, EndWaiting, EndSchedule, kv
  <2>4. CASE \/ \E ext \in LoadableTokens : AdmitLoad(ext)
             \/ \E ext \in LoadableTokens \cup {0} : BreakWaiting(ext)
    BY <2>4 DEF AdmitLoad, BreakWaiting, kv
  <2> QED
    BY <1>3, <2>1, <2>2, <2>3, <2>4 DEF ScheduleNext
<1>4. CASE UpdateNext
  <2>1. CASE BeginUpdate
    BY <2>1 DEF BeginUpdate
  <2>2. CASE SkipEntry \/ RemoveStopped \/ EndUpdate
    BY <2>2, SMTT(60) DEF SkipEntry, RemoveStopped, EndUpdate, kv
  <2>3. ASSUME NEW g, NEW m, NEW eos, UpdateEntry(g, m, eos) PROVE deferred' = deferred
    BY <1>1, <2>3 DEF UpdateEntry, Stop, FreeRequest, NoSessions, kv
  <2>4. ASSUME NEW r, FinishFailed(r) \/ ReportReceived(r) \/ ReportSent(r) PROVE deferred' = deferred
    BY <1>1, <1>2, <2>4 DEF FinishFailed, ReportReceived, ReportSent, kv
  <2> QED
    BY <1>4, <2>1, <2>2, <2>3, <2>4 DEF UpdateNext
<1>5. CASE ResetNext
  BY <1>1, <1>5 DEF ResetNext, BeginReset, ResetPreempt, EndReset, PreemptRequest, kv
<1>6. CASE ClientNext
  BY <1>2, <1>6 DEF ClientNext, AddRequest, Abort, NoSessions, kv
<1>7. CASE WorkerNext \/ UNCHANGED vars
  BY <1>7 DEF WorkerNext, LoadDone, SendDone, vars, kv
<1> QED
  BY <1>3, <1>4, <1>5, <1>6, <1>7 DEF Next

LEMMA BackedStep ==
  ASSUME BooksInv, BooksInv', LoadsInv, BackedInv, NoSessions, [Next]_vars
  PROVE  BackedInv'
<1>1. \A s \in Requests : Backed(s)
  BY DEF BackedInv
<1>2. ASSUME UNCHANGED vars PROVE \A s \in Requests : Backed(s)'
  <2>1. UNCHANGED <<req, requests, owned, load, send>> /\ step'.batch = step.batch
    BY <1>2 DEF vars, kv, xfer
  <2>2. \A s \in Requests : Backed(s)'
    BY <1>1, <2>1, AllSpared
  <2> QED
    BY <2>2
<1>3. ASSUME ScheduleNext PROVE \A s \in Requests : Backed(s)'
  BY <1>1, <1>3, ScheduleBacked
<1>4. ASSUME UpdateNext PROVE \A s \in Requests : Backed(s)'
  BY <1>1, <1>4, UpdateBacked
<1>5. ASSUME ResetNext \/ ClientNext \/ WorkerNext PROVE \A s \in Requests : Backed(s)'
  BY <1>1, <1>5, OtherBacked
<1>6. \A s \in Requests : Backed(s)'
  BY <1>2, <1>3, <1>4, <1>5 DEF Next
<1>7. ~DeferBlockFree => deferred' = <<>>
  BY NothingDeferred DEF BackedInv
<1> QED
  BY <1>6, <1>7 DEF BackedInv

LEMMA BackedInitially == Init => BackedInv
<1> SUFFICES ASSUME Init PROVE BackedInv
  OBVIOUS
<1>1. deferred = <<>> /\ requests = {} /\ \A r \in Requests : owned[r] = {}
  BY DEF Init
<1> QED
  BY <1>1 DEF BackedInv, Backed

LEMMA BackedHolds ==
  ASSUME NoSessions, PadsFit
  PROVE  Spec => [](BooksInv /\ LoadsInv /\ BackedInv)
<1>1. Init => LoadsInv
  BY DEF Init, Idle, LoadsInv
<1>2. BooksInv /\ BooksInv' /\ LoadsInv /\ [Next]_vars => LoadsInv'
  BY LoadsStep
<1>3. BooksInv /\ BooksInv' /\ LoadsInv /\ BackedInv /\ [Next]_vars => BackedInv'
  BY BackedStep
<1> QED
  BY <1>1, <1>2, <1>3, BackedInitially, BooksHold, PTL DEF Spec

(* Between two handlers the table of every request the scheduler knows has  *)
(* a block for each of its computed tokens, and no request keeps blocks     *)
(* that has neither computed tokens nor a transfer.                         *)
THEOREM BlocksBackTokens == NoSessions /\ PadsFit => (Spec => []TokensBacked)
<1> SUFFICES ASSUME NoSessions, PadsFit PROVE Spec => []TokensBacked
  OBVIOUS
<1>1. BooksInv /\ LoadsInv /\ BackedInv => TokensBacked
  <2> SUFFICES ASSUME BooksInv, BackedInv, AtRest, NEW r \in Requests
               PROVE  /\ BlocksFor(req[r].computed) <= Cardinality(owned[r]) \/ r \notin requests
                      /\ owned[r] # {} => r \in requests
                             /\ (req[r].computed > 0 \/ load[r] # "idle" \/ send[r] # "none")
    BY DEF TokensBacked
  <2>1. SlotTokens(step.batch, r) = 0
    BY NotInStep DEF BooksInv, AtRest, Scheduling
  <2>2. req[r].computed \in Int
    BY RequestTypes DEF BooksInv, ShapesInv, Shapes
  <2>3. Covered(r) = req[r].computed
    BY <2>1, <2>2 DEF Covered
  <2>4. Backed(r)
    BY DEF BackedInv
  <2> QED
    BY <2>3, <2>4 DEF Backed
<1> QED
  BY <1>1, BackedHolds, PTL

(* A reset that preempted every running request while no transfer goes on   *)
(* has all blocks back in the pool, as reset_prefix_cache expects, as long  *)
(* as blocks are freed at once.                                             *)
THEOREM ResetFreesAll == NoSessions /\ PadsFit /\ ~DeferBlockFree => (Spec => []ResetReleasesBlocks)
<1> SUFFICES ASSUME NoSessions, PadsFit, ~DeferBlockFree PROVE Spec => []ResetReleasesBlocks
  OBVIOUS
<1>1. BooksInv /\ LoadsInv /\ BackedInv => ResetReleasesBlocks
  <2> SUFFICES ASSUME BooksInv, BackedInv, step.phase = "reset", running = <<>>,
                      \A r \in Requests : load[r] = "idle" /\ send[r] = "none"
               PROVE  free = Blocks
    BY DEF ResetReleasesBlocks
  <2>1. ASSUME NEW r \in Requests PROVE owned[r] = {}
    <3>1. SUFFICES ASSUME owned[r] # {} PROVE FALSE
      OBVIOUS
    <3>2. r \in requests /\ req[r].status = "RUNNING"
      BY <3>1 DEF BackedInv, Backed
    <3>3. r \in ToSet(running)
      BY <3>2 DEF BooksInv, QueuesInv, QueuesPlaced, Unfinished
    <3> QED
      BY <3>3, EmptyQueue
  <2>2. deferred = <<>>
    BY DEF BackedInv
  <2>3. PoolWhole
    BY PoolInvWhole DEF BooksInv, ShapesInv
  <2>4. Blocks = free \cup UNION ({owned[r] : r \in Requests} \cup {deferred[i].blocks : i \in DOMAIN deferred})
    BY <2>3 DEF PoolWhole
  <2>5. {deferred[i].blocks : i \in DOMAIN deferred} = {}
    BY <2>2
  <2>6. UNION ({owned[r] : r \in Requests} \cup {}) = {}
    BY <2>1
  <2> QED
    BY <2>4, <2>5, <2>6
<1> QED
  BY <1>1, BackedHolds, PTL
===============================================================================
