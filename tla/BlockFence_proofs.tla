-------------------------- MODULE BlockFence_proofs --------------------------
(* Proofs about BlockFence for every set of requests and of blocks and every *)
(* bound on the steps.                                                      *)
EXTENDS BlockFence, TLAPS

(* A deferred free appends one entry behind the ones already queued.        *)
LEMMA AppendEntry ==
  ASSUME deferred \in Seq(Entry), NEW f \in Nat, NEW B \in SUBSET Blocks,
         deferred' = Append(deferred, [fence |-> f, blocks |-> B])
  PROVE  /\ deferred' \in Seq(Entry)
         /\ DOMAIN deferred' = DOMAIN deferred \cup {Len(deferred) + 1}
         /\ Len(deferred) + 1 \notin DOMAIN deferred
         /\ \A i \in DOMAIN deferred : deferred'[i] = deferred[i]
         /\ deferred'[Len(deferred) + 1].fence = f
         /\ deferred'[Len(deferred) + 1].blocks = B
<1> DEFINE e == [fence |-> f, blocks |-> B]
<1>1. e \in Entry /\ e.fence = f /\ e.blocks = B
  BY DEF Entry
<1> HIDE DEF e
<1>2. deferred' = Append(deferred, e)
  BY DEF e
<1> QED
  BY <1>1, <1>2

(* Draining k entries moves every later one forward by k places.            *)
LEMMA DrainEntries ==
  ASSUME deferred \in Seq(Entry), NEW k \in 0 .. Len(deferred),
         deferred' = SubSeq(deferred, k + 1, Len(deferred))
  PROVE  /\ deferred' \in Seq(Entry)
         /\ \A i \in DOMAIN deferred' :
              i + k \in DOMAIN deferred /\ i + k > k /\ deferred'[i] = deferred[i + k]
  OBVIOUS

(* The steps keep the types of the state.                                   *)
LEMMA TypeInductive == TypeOK /\ [Next]_vars => TypeOK'
<1> SUFFICES ASSUME TypeOK, [Next]_vars PROVE TypeOK'
  OBVIOUS
<1> USE MaxStepsAssumption DEF TypeOK
<1>1. ASSUME NEW r \in Requests, NEW B \in SUBSET Blocks, NEW C \in SUBSET Blocks,
             Allocate(r, B, C)
      PROVE  TypeOK'
  BY <1>1 DEF Allocate
<1>2. ASSUME NEW r \in Requests, NEW B \in SUBSET Blocks, BeginLoad(r, B)
      PROVE  TypeOK'
  BY <1>2 DEF BeginLoad
<1>3. ASSUME NEW r \in Requests, EndLoad(r) PROVE TypeOK'
  BY <1>3 DEF EndLoad
<1>4. ASSUME NEW r \in Requests, FreeFailedLoad(r) PROVE TypeOK'
  BY <1>4 DEF FreeFailedLoad
<1>5. ASSUME NEW r \in Requests, FreeRequestBlocks(r) PROVE TypeOK'
  <2>1. deferred' \in Seq(Entry)
    <3>1. ASSUME deferred' = Append(deferred, [fence |-> schedSeq, blocks |-> owned[r]])
          PROVE  deferred' \in Seq(Entry)
      <4>1. schedSeq \in Nat /\ owned[r] \in SUBSET Blocks /\ deferred \in Seq(Entry)
        OBVIOUS
      <4> HIDE DEF TypeOK
      <4> QED
        BY <3>1, <4>1, AppendEntry
    <3> QED
      BY <3>1, <1>5 DEF FreeRequestBlocks
  <2> QED
    BY <1>5, <2>1 DEF FreeRequestBlocks
<1>6. ASSUME NEW S \in SUBSET Requests, Dispatch(S) PROVE TypeOK'
  <2>1. deferred' \in Seq(Entry)
    <3>1. ASSUME deferred' = Append(deferred, [fence |-> CowFence, blocks |-> cow])
          PROVE  deferred' \in Seq(Entry)
      <4>1. CowFence \in Nat /\ cow \in SUBSET Blocks /\ deferred \in Seq(Entry)
        BY DEF CowFence
      <4> HIDE DEF TypeOK
      <4> QED
        BY <3>1, <4>1, AppendEntry
    <3> QED
      BY <3>1, <1>6 DEF Dispatch
  <2>2. access' \in [Steps -> SUBSET Blocks]
    <3>1. UNION {owned[r] : r \in S} \subseteq Blocks
      OBVIOUS
    <3>2. schedSeq + 1 \in Steps
      BY <1>6 DEF Dispatch, Steps
    <3>3. access[schedSeq + 1] \cup cow \cup UNION {owned[r] : r \in S} \in SUBSET Blocks
      BY <3>1, <3>2
    <3> QED
      BY <3>3, <1>6 DEF Dispatch
  <2>3. schedSeq' \in 0 .. MaxSteps /\ procSeq' \in 0 .. schedSeq'
    BY <1>6 DEF Dispatch
  <2>4. lastSched' \in [Requests -> Nat] /\ mode' \in [Requests -> {"idle", "loading", "loaded"}]
    BY <1>6, <2>3 DEF Dispatch
  <2> QED
    BY <1>6, <2>1, <2>2, <2>3, <2>4 DEF Dispatch
<1>7. CASE Process
  <2>1. PICK k \in 0 .. Len(deferred) :
           /\ free' = free \cup UNION {deferred[i].blocks : i \in 1 .. k}
           /\ deferred' = SubSeq(deferred, k + 1, Len(deferred))
    BY <1>7 DEF Process
  <2>2. \A i \in 1 .. k : deferred[i] \in Entry
    OBVIOUS
  <2>3. free' \subseteq Blocks
    BY <2>1, <2>2 DEF Entry
  <2>4. deferred' \in Seq(Entry)
    BY <2>1, DrainEntries
  <2>5. procSeq' \in 0 .. schedSeq' /\ schedSeq' = schedSeq
    BY <1>7 DEF Process
  <2>6. access' \in [Steps -> SUBSET Blocks]
    BY <1>7 DEF Process
  <2>7. UNCHANGED <<owned, mode, lastSched, cow>>
    BY <1>7 DEF Process
  <2> QED
    BY <2>3, <2>4, <2>5, <2>6, <2>7
<1>8. CASE UNCHANGED vars
  BY <1>8 DEF vars
<1> QED
  BY <1>1, <1>2, <1>3, <1>4, <1>5, <1>6, <1>7, <1>8 DEF Next

(* The fence's state always has its types, and the processed steps never    *)
(* overtake the scheduled ones.                                             *)
THEOREM TypeCorrect == Spec => []TypeOK
<1>1. Init => TypeOK
  BY MaxStepsAssumption DEF Init, TypeOK, Steps, Entry
<1> QED
  BY <1>1, TypeInductive, PTL DEF Spec

-------------------------------------------------------------------------------

(* The steps keep every block in one place.                                 *)
LEMMA ExclusiveInductive == IInv /\ [Next]_vars => Exclusive'
<1> SUFFICES ASSUME TypeOK, Exclusive, FenceInv, [Next]_vars PROVE Exclusive'
  BY DEF IInv
<1> USE MaxStepsAssumption
<1>1. ASSUME NEW r \in Requests, NEW B \in SUBSET Blocks, NEW C \in SUBSET Blocks,
             Allocate(r, B, C)
      PROVE  Exclusive'
  BY <1>1 DEF Allocate, TypeOK, Exclusive
<1>2. ASSUME NEW r \in Requests, NEW B \in SUBSET Blocks, BeginLoad(r, B)
      PROVE  Exclusive'
  BY <1>2 DEF BeginLoad, TypeOK, Exclusive
<1>3. ASSUME NEW r \in Requests, EndLoad(r) PROVE Exclusive'
  BY <1>3 DEF EndLoad, Exclusive
<1>4. ASSUME NEW r \in Requests, FreeFailedLoad(r) PROVE Exclusive'
  BY <1>4 DEF FreeFailedLoad, TypeOK, Exclusive
<1>5. ASSUME NEW r \in Requests, FreeRequestBlocks(r) PROVE Exclusive'
  <2>1. CASE NoWriteInFlight(r)
    BY <1>5, <2>1 DEF FreeRequestBlocks, TypeOK, Exclusive
  <2>2. CASE ~NoWriteInFlight(r) /\ owned[r] = {}
    BY <1>5, <2>2 DEF FreeRequestBlocks, TypeOK, Exclusive
  <2>3. CASE ~NoWriteInFlight(r) /\ owned[r] # {}
    <3>1. deferred' = Append(deferred, [fence |-> schedSeq, blocks |-> owned[r]])
      BY <1>5, <2>3 DEF FreeRequestBlocks
    <3>2. /\ DOMAIN deferred' = DOMAIN deferred \cup {Len(deferred) + 1}
          /\ \A i \in DOMAIN deferred : deferred'[i] = deferred[i]
          /\ deferred'[Len(deferred) + 1].blocks = owned[r]
      BY <3>1, AppendEntry DEF TypeOK
    <3>3. owned' = [owned EXCEPT ![r] = {}] /\ UNCHANGED <<free, cow>>
      BY <1>5, <2>3 DEF FreeRequestBlocks
    <3> QED
      BY <3>2, <3>3 DEF TypeOK, Exclusive
  <2> QED
    BY <2>1, <2>2, <2>3
<1>6. ASSUME NEW S \in SUBSET Requests, Dispatch(S) PROVE Exclusive'
  <2>1. CASE cow = {}
    BY <1>6, <2>1 DEF Dispatch, Exclusive
  <2>2. CASE cow # {}
    <3>1. deferred' = Append(deferred, [fence |-> CowFence, blocks |-> cow])
      BY <1>6, <2>2 DEF Dispatch
    <3>2. /\ DOMAIN deferred' = DOMAIN deferred \cup {Len(deferred) + 1}
          /\ \A i \in DOMAIN deferred : deferred'[i] = deferred[i]
          /\ deferred'[Len(deferred) + 1].blocks = cow
      BY <3>1, AppendEntry DEF TypeOK, CowFence
    <3>3. cow' = {} /\ UNCHANGED <<free, owned>>
      BY <1>6 DEF Dispatch
    <3> QED
      BY <3>2, <3>3 DEF TypeOK, Exclusive
  <2> QED
    BY <2>1, <2>2
<1>7. CASE Process
  <2>1. PICK k \in 0 .. Len(deferred) :
           /\ free' = free \cup UNION {deferred[i].blocks : i \in 1 .. k}
           /\ deferred' = SubSeq(deferred, k + 1, Len(deferred))
    BY <1>7 DEF Process
  <2>2. \A i \in DOMAIN deferred' :
           i + k \in DOMAIN deferred /\ i + k > k /\ deferred'[i] = deferred[i + k]
    BY <2>1, DrainEntries DEF TypeOK
  <2>3. UNCHANGED <<owned, cow>>
    BY <1>7 DEF Process
  <2>4. \A b \in free' : b \in free \/ \E i \in 1 .. k : b \in deferred[i].blocks
    BY <2>1
  <2>5. 1 .. k \subseteq DOMAIN deferred
    BY DEF TypeOK
  <2>6. free' \cap cow' = {} /\ \A r \in Requests : owned'[r] \cap (free' \cup cow') = {}
    BY <2>3, <2>4, <2>5 DEF Exclusive
  <2>7. \A q, r \in Requests : q # r => owned'[q] \cap owned'[r] = {}
    BY <2>3 DEF Exclusive
  <2>8. ASSUME NEW i \in DOMAIN deferred'
        PROVE  /\ deferred'[i].blocks \cap (free' \cup cow') = {}
               /\ \A r \in Requests : deferred'[i].blocks \cap owned'[r] = {}
    <3>1. \A j \in 1 .. k : j # i + k
      BY <2>2
    <3> QED
      BY <2>2, <2>3, <2>4, <2>5, <3>1 DEF Exclusive
  <2>9. \A i, j \in DOMAIN deferred' : i # j => deferred'[i].blocks \cap deferred'[j].blocks = {}
    <3>1. \A i, j \in DOMAIN deferred' : i # j => i + k # j + k
      BY <2>1, DrainEntries DEF TypeOK
    <3> QED
      BY <2>2, <3>1 DEF Exclusive
  <2> QED
    BY <2>6, <2>7, <2>8, <2>9 DEF Exclusive
<1>8. CASE UNCHANGED vars
  BY <1>8 DEF vars, Exclusive
<1> QED
  BY <1>1, <1>2, <1>3, <1>4, <1>5, <1>6, <1>7, <1>8 DEF Next

(* The steps keep the fence in front of every block still in use on the GPU. *)
LEMMA FenceInductive == IInv /\ [Next]_vars => FenceInv'
<1> SUFFICES ASSUME TypeOK, Exclusive, FenceInv, [Next]_vars PROVE FenceInv'
  BY DEF IInv
<1> USE MaxStepsAssumption
<1>1. ASSUME NEW r \in Requests, NEW B \in SUBSET Blocks, NEW C \in SUBSET Blocks,
             Allocate(r, B, C)
      PROVE  FenceInv'
  BY <1>1 DEF Allocate, TypeOK, FenceInv, InFlight
<1>2. ASSUME NEW r \in Requests, NEW B \in SUBSET Blocks, BeginLoad(r, B)
      PROVE  FenceInv'
  BY <1>2 DEF BeginLoad, TypeOK, FenceInv, InFlight
<1>3. ASSUME NEW r \in Requests, EndLoad(r) PROVE FenceInv'
  BY <1>3 DEF EndLoad, TypeOK, FenceInv, InFlight
<1>4. ASSUME NEW r \in Requests, FreeFailedLoad(r) PROVE FenceInv'
  BY <1>4 DEF FreeFailedLoad, TypeOK, FenceInv, InFlight
<1>5. ASSUME NEW r \in Requests, FreeRequestBlocks(r) PROVE FenceInv'
  <2> USE DEF TypeOK, FenceInv, InFlight
  <2>1. CASE NoWriteInFlight(r)
    <3>1. \A s \in InFlight : owned[r] \cap access[s] = {}
      BY <2>1 DEF NoWriteInFlight
    <3> QED
      BY <1>5, <2>1, <3>1 DEF FreeRequestBlocks
  <2>2. CASE ~NoWriteInFlight(r) /\ owned[r] = {}
    BY <1>5, <2>2 DEF FreeRequestBlocks
  <2>3. CASE ~NoWriteInFlight(r) /\ owned[r] # {}
    <3>1. deferred' = Append(deferred, [fence |-> schedSeq, blocks |-> owned[r]])
      BY <1>5, <2>3 DEF FreeRequestBlocks
    <3>2. /\ DOMAIN deferred' = DOMAIN deferred \cup {Len(deferred) + 1}
          /\ \A i \in DOMAIN deferred : deferred'[i] = deferred[i]
          /\ deferred'[Len(deferred) + 1].fence = schedSeq
          /\ deferred'[Len(deferred) + 1].blocks = owned[r]
      BY <3>1, AppendEntry
    <3>3. /\ owned' = [owned EXCEPT ![r] = {}]
          /\ mode' = [mode EXCEPT ![r] = "idle"]
          /\ UNCHANGED <<free, lastSched, cow, access, schedSeq, procSeq>>
      BY <1>5, <2>3 DEF FreeRequestBlocks
    <3>4. \A s \in InFlight : owned[r] \cap access[s] # {} => schedSeq >= s
      OBVIOUS
    <3>5. InFlight' = InFlight
      BY <3>3
    <3>6. \A s \in InFlight, i \in DOMAIN deferred' :
             deferred'[i].blocks \cap access[s] # {} => deferred'[i].fence >= s
      BY <3>2, <3>4
    <3>7. \A s \in InFlight, q \in Requests :
             owned'[q] \cap access[s] # {} => lastSched[q] >= s /\ mode'[q] = "idle"
      BY <3>3
    <3> QED
      BY <3>3, <3>5, <3>6, <3>7
  <2> QED
    BY <2>1, <2>2, <2>3
<1>6. ASSUME NEW S \in SUBSET Requests, Dispatch(S) PROVE FenceInv'
  <2> DEFINE n == schedSeq + 1
             step == UNION {owned[r] : r \in S}
  <2>1. /\ n \in Steps /\ n \in InFlight
        /\ access' = [access EXCEPT ![n] = access[n] \cup cow \cup step]
        /\ cow' = {} /\ UNCHANGED <<free, owned, procSeq>>
        /\ schedSeq' = IF S = {} THEN schedSeq ELSE n
    BY <1>6, SMTT(60) DEF Dispatch, Steps, InFlight, TypeOK
  <2>2. /\ \A s \in Steps \ {n} : access'[s] = access[s]
        /\ access'[n] = access[n] \cup cow \cup step
    BY <2>1 DEF TypeOK
  <2>3. /\ InFlight' \subseteq InFlight \cup {n + 1}
        /\ InFlight \subseteq Steps /\ InFlight' \subseteq Steps
        /\ \A s \in Steps : s > n => access[s] = {}
        /\ n + 1 \in InFlight' => S # {}
    <3>1. schedSeq \in Nat /\ procSeq \in Nat /\ schedSeq < MaxSteps /\ procSeq' = procSeq
      BY <1>6, <2>1 DEF Dispatch, TypeOK
    <3>2. \A s \in Steps : s > n => access[s] = {}
      BY DEF FenceInv
    <3>3. CASE S = {}
      BY <2>1, <3>1, <3>2, <3>3 DEF InFlight, Steps
    <3>4. CASE S # {}
      BY <2>1, <3>1, <3>2, <3>4 DEF InFlight, Steps
    <3> QED
      BY <3>3, <3>4
  <2>4. \A b \in step : \E r \in S : b \in owned[r]
    OBVIOUS
  <2>12. \A s \in InFlight' \ {n} : access'[s] = access[s] /\ (access[s] # {} => s \in InFlight)
    <3> SUFFICES ASSUME NEW s \in InFlight', s # n
                 PROVE  access'[s] = access[s] /\ (access[s] # {} => s \in InFlight)
      OBVIOUS
    <3>1. access'[s] = access[s]
      BY <2>2, <2>3
    <3>2. CASE s = n + 1
      <4>1. s \in Steps /\ s > n
        BY <2>3, <3>2 DEF TypeOK
      <4> QED
        BY <2>3, <3>1, <4>1
    <3> QED
      BY <2>3, <3>1, <3>2
  <2> HIDE DEF step
  <2>5. \A r \in Requests : lastSched'[r] = IF r \in S THEN schedSeq' ELSE lastSched[r]
    BY <1>6 DEF Dispatch
  <2>6. \A r \in Requests : mode'[r] = IF r \in S THEN "idle" ELSE mode[r]
    BY <1>6 DEF Dispatch
  <2>7. \A r \in Requests : lastSched'[r] <= schedSeq'
    BY <2>1, <2>5 DEF FenceInv, TypeOK
  <2>8. ASSUME NEW s \in InFlight', NEW r \in Requests, NEW b \in owned[r], b \in access'[s]
        PROVE  lastSched'[r] >= s /\ mode'[r] = "idle"
    <3>1. CASE s # n
      <4>1. b \in access[s] /\ s \in InFlight
        BY <2>12, <2>8, <3>1
      <4>2. lastSched[r] >= s /\ mode[r] = "idle"
        BY <4>1 DEF FenceInv
      <4> QED
        BY <4>1, <4>2, <2>1, <2>5, <2>6 DEF FenceInv, TypeOK, InFlight
    <3>2. CASE s = n /\ b \in access[n]
      <4>1. lastSched[r] >= n
        BY <2>1, <3>2 DEF FenceInv
      <4>2. lastSched[r] <= schedSeq
        BY DEF FenceInv
      <4> QED
        BY <4>1, <4>2 DEF TypeOK
    <3>3. CASE s = n /\ b \in cow
      BY <3>3 DEF Exclusive
    <3>4. CASE s = n /\ b \in step
      <4>1. PICK q \in S : b \in owned[q]
        BY <2>4, <3>4
      <4>2. q = r
        BY <4>1 DEF Exclusive
      <4> QED
        BY <4>1, <4>2, <3>4, <2>1, <2>5, <2>6 DEF TypeOK
    <3> QED
      BY <2>2, <2>8, <3>1, <3>2, <3>3, <3>4
  <2>9. ASSUME NEW s \in InFlight', NEW i \in DOMAIN deferred', NEW b \in deferred'[i].blocks,
               b \in access'[s]
        PROVE  deferred'[i].fence >= s
    <3>1. ASSUME i \in DOMAIN deferred, deferred'[i] = deferred[i] PROVE deferred'[i].fence >= s
      <4>1. CASE s # n
        BY <2>12, <2>9, <3>1, <4>1 DEF FenceInv
      <4>2. CASE s = n
        <5>1. b \notin cow
          BY <2>9, <3>1 DEF Exclusive
        <5>2. b \notin step
          BY <2>4, <2>9, <3>1 DEF Exclusive
        <5> QED
          BY <2>1, <2>2, <2>9, <3>1, <4>2, <5>1, <5>2 DEF FenceInv
      <4> QED
        BY <4>1, <4>2
    <3>2. CASE cow = {}
      BY <1>6, <3>1, <3>2 DEF Dispatch
    <3>3. CASE cow # {}
      <4>1. deferred' = Append(deferred, [fence |-> n, blocks |-> cow])
        BY <1>6, <3>3 DEF Dispatch, CowFence
      <4>2. /\ DOMAIN deferred' = DOMAIN deferred \cup {Len(deferred) + 1}
            /\ \A j \in DOMAIN deferred : deferred'[j] = deferred[j]
            /\ deferred'[Len(deferred) + 1].fence = n
            /\ deferred'[Len(deferred) + 1].blocks = cow
        BY <4>1, AppendEntry DEF TypeOK
      <4>3. CASE i \in DOMAIN deferred
        BY <3>1, <4>2, <4>3
      <4>4. CASE i = Len(deferred) + 1
        <5>1. s # n + 1
          BY <2>2, <2>3, <2>9, SMTT(60) DEF TypeOK
        <5>2. s <= n
          BY <2>3, <5>1 DEF InFlight, TypeOK
        <5> QED
          BY <4>2, <4>4, <5>2
      <4> QED
        BY <4>2, <4>3, <4>4
    <3> QED
      BY <3>2, <3>3
  <2>10. \A s \in InFlight' : access'[s] \cap (free' \cup cow') = {}
    <3> SUFFICES ASSUME NEW s \in InFlight', NEW b \in access'[s] PROVE b \notin free
      BY <2>1
    <3>1. CASE s # n
      BY <2>12, <3>1 DEF FenceInv
    <3>2. CASE s = n /\ b \in access[n]
      BY <2>1, <3>2 DEF FenceInv
    <3>3. CASE s = n /\ b \in cow
      BY <3>3 DEF Exclusive
    <3>4. CASE s = n /\ b \in step
      BY <2>4, <3>4 DEF Exclusive
    <3> QED
      BY <2>2, <3>1, <3>2, <3>3, <3>4
  <2>11. \A s \in Steps : s > schedSeq' + 1 => access'[s] = {}
    <3> SUFFICES ASSUME NEW s \in Steps, s > schedSeq' + 1 PROVE access'[s] = {}
      OBVIOUS
    <3>1. s > n
      BY <2>1 DEF TypeOK, Steps
    <3> QED
      BY <3>1, <2>2, <2>3 DEF TypeOK, Steps
  <2> QED
    BY <2>1, <2>7, <2>8, <2>9, <2>10, <2>11 DEF FenceInv
<1>7. CASE Process
  <2>1. PICK k \in 0 .. Len(deferred) :
           /\ Drained(k, procSeq + 1)
           /\ free' = free \cup UNION {deferred[i].blocks : i \in 1 .. k}
           /\ deferred' = SubSeq(deferred, k + 1, Len(deferred))
    BY <1>7 DEF Process
  <2>2. \A i \in DOMAIN deferred' :
           i + k \in DOMAIN deferred /\ i + k > k /\ deferred'[i] = deferred[i + k]
    BY <2>1, DrainEntries DEF TypeOK
  <2>3. /\ InFlight' = InFlight \ {procSeq + 1}
        /\ UNCHANGED <<owned, mode, lastSched, cow, schedSeq>>
        /\ \A s \in Steps \ {procSeq + 1} : access'[s] = access[s]
        /\ \A s \in InFlight : s \in Steps
    BY <1>7 DEF Process, InFlight, Steps, TypeOK
  <2>4. \A i \in 1 .. k : i \in DOMAIN deferred /\ deferred[i].fence <= procSeq + 1
    BY <2>1 DEF Drained, TypeOK
  <2>5. \A s \in InFlight' : s > procSeq + 1
    BY <2>3 DEF InFlight, TypeOK
  <2>6. \A s \in InFlight' : access'[s] \cap (free' \cup cow') = {}
    <3> SUFFICES ASSUME NEW s \in InFlight', NEW b \in access'[s], b \in free' \cup cow'
                 PROVE  FALSE
      OBVIOUS
    <3>1. b \in access[s] /\ s \in InFlight
      BY <2>3
    <3>2. b \notin free \cup cow
      BY <3>1 DEF FenceInv
    <3>3. PICK i \in 1 .. k : b \in deferred[i].blocks
      BY <2>1, <2>3, <3>2
    <3>4. deferred[i].fence >= s
      BY <2>4, <3>1, <3>3 DEF FenceInv
    <3>5. deferred[i].fence \in Nat
      <4>1. deferred[i] \in Entry
        BY <2>4 DEF TypeOK
      <4> QED
        BY <4>1 DEF Entry
    <3> QED
      BY <2>4, <2>5, <3>1, <3>4, <3>5 DEF TypeOK, InFlight
  <2>7. \A s \in InFlight', i \in DOMAIN deferred' :
           deferred'[i].blocks \cap access'[s] # {} => deferred'[i].fence >= s
    BY <2>2, <2>3 DEF FenceInv
  <2>8. \A s \in Steps : s > schedSeq' + 1 => access'[s] = {}
    BY <2>3, <1>7 DEF FenceInv, Process, TypeOK
  <2> QED
    BY <2>3, <2>6, <2>7, <2>8 DEF FenceInv
<1>8. CASE UNCHANGED vars
  BY <1>8 DEF vars, FenceInv, InFlight
<1> QED
  BY <1>1, <1>2, <1>3, <1>4, <1>5, <1>6, <1>7, <1>8 DEF Next

(* The steps lose no block.                                                 *)
LEMMA NoLeakInductive == TypeOK /\ NoLeak /\ [Next]_vars => NoLeak'
<1> DEFINE Somewhere(b) == \/ b \in free \cup cow
                           \/ \E i \in DOMAIN deferred : b \in deferred[i].blocks
                           \/ \E r \in Requests : b \in owned[r]
<1> SUFFICES ASSUME TypeOK, NoLeak, [Next]_vars PROVE NoLeak'
  OBVIOUS
<1> SUFFICES ASSUME NEW b \in Blocks PROVE Somewhere(b)'
  <2>1. TypeOK'
    BY TypeInductive
  <2>2. DeferredBlocks' \subseteq Blocks
    <3>1. \A i \in DOMAIN deferred' : deferred'[i] \in Entry
      BY <2>1 DEF TypeOK
    <3> QED
      BY <3>1 DEF DeferredBlocks, Entry
  <2>3. free' \cup cow' \cup UNION {owned'[r] : r \in Requests} \subseteq Blocks
    BY <2>1 DEF TypeOK
  <2> QED
    BY <2>2, <2>3 DEF NoLeak, DeferredBlocks
<1> USE MaxStepsAssumption
<1>0. Somewhere(b)
  BY DEF NoLeak, DeferredBlocks
<1>1. ASSUME NEW r \in Requests, NEW B \in SUBSET Blocks, NEW C \in SUBSET Blocks,
             Allocate(r, B, C)
      PROVE  Somewhere(b)'
  BY <1>0, <1>1 DEF Allocate, TypeOK
<1>2. ASSUME NEW r \in Requests, NEW B \in SUBSET Blocks, BeginLoad(r, B)
      PROVE  Somewhere(b)'
  BY <1>0, <1>2 DEF BeginLoad, TypeOK
<1>3. ASSUME NEW r \in Requests, EndLoad(r) PROVE Somewhere(b)'
  BY <1>0, <1>3 DEF EndLoad
<1>4. ASSUME NEW r \in Requests, FreeFailedLoad(r) PROVE Somewhere(b)'
  BY <1>0, <1>4 DEF FreeFailedLoad, TypeOK
<1>5. ASSUME NEW r \in Requests, FreeRequestBlocks(r) PROVE Somewhere(b)'
  <2>1. CASE NoWriteInFlight(r) \/ owned[r] = {}
    BY <1>0, <1>5, <2>1 DEF FreeRequestBlocks, TypeOK
  <2>2. CASE ~NoWriteInFlight(r) /\ owned[r] # {}
    <3>1. deferred' = Append(deferred, [fence |-> schedSeq, blocks |-> owned[r]])
      BY <1>5, <2>2 DEF FreeRequestBlocks
    <3>2. /\ DOMAIN deferred' = DOMAIN deferred \cup {Len(deferred) + 1}
          /\ \A i \in DOMAIN deferred : deferred'[i] = deferred[i]
          /\ deferred'[Len(deferred) + 1].blocks = owned[r]
      BY <3>1, AppendEntry DEF TypeOK
    <3>3. owned' = [owned EXCEPT ![r] = {}] /\ UNCHANGED <<free, cow>>
      BY <1>5, <2>2 DEF FreeRequestBlocks
    <3> QED
      BY <1>0, <3>2, <3>3 DEF TypeOK
  <2> QED
    BY <2>1, <2>2
<1>6. ASSUME NEW S \in SUBSET Requests, Dispatch(S) PROVE Somewhere(b)'
  <2>1. CASE cow = {}
    BY <1>0, <1>6, <2>1 DEF Dispatch
  <2>2. CASE cow # {}
    <3>1. deferred' = Append(deferred, [fence |-> CowFence, blocks |-> cow])
      BY <1>6, <2>2 DEF Dispatch
    <3>2. /\ DOMAIN deferred' = DOMAIN deferred \cup {Len(deferred) + 1}
          /\ \A i \in DOMAIN deferred : deferred'[i] = deferred[i]
          /\ deferred'[Len(deferred) + 1].blocks = cow
      BY <3>1, AppendEntry DEF TypeOK, CowFence
    <3>3. UNCHANGED <<free, owned>>
      BY <1>6 DEF Dispatch
    <3> QED
      BY <1>0, <3>2, <3>3
  <2> QED
    BY <2>1, <2>2
<1>7. CASE Process
  <2>1. PICK k \in 0 .. Len(deferred) :
           /\ free' = free \cup UNION {deferred[i].blocks : i \in 1 .. k}
           /\ deferred' = SubSeq(deferred, k + 1, Len(deferred))
    BY <1>7 DEF Process
  <2>2. UNCHANGED <<owned, cow>>
    BY <1>7 DEF Process
  <2>3. ASSUME NEW i \in DOMAIN deferred, b \in deferred[i].blocks PROVE Somewhere(b)'
    <3>1. CASE i <= k
      <4>1. i \in 1 .. k
        BY <3>1 DEF TypeOK
      <4> QED
        BY <2>1, <2>3, <4>1
    <3>2. CASE i > k
      <4>1. i - k \in DOMAIN deferred' /\ deferred'[i - k] = deferred[i]
        BY <2>1, <3>2 DEF TypeOK
      <4> QED
        BY <2>3, <4>1
    <3> QED
      BY <3>1, <3>2 DEF TypeOK
  <2> QED
    BY <1>0, <2>1, <2>2, <2>3
<1>8. CASE UNCHANGED vars
  BY <1>0, <1>8 DEF vars
<1> QED
  BY <1>1, <1>2, <1>3, <1>4, <1>5, <1>6, <1>7, <1>8 DEF Next

-------------------------------------------------------------------------------

(* The inductive invariant holds in every reachable state.                  *)
THEOREM InductiveInvariant == Spec => []IInv
<1>1. Init => IInv
  BY MaxStepsAssumption DEF Init, IInv, TypeOK, Exclusive, FenceInv, InFlight, Steps, Entry
<1>2. IInv /\ [Next]_vars => IInv'
  BY TypeInductive, ExclusiveInductive, FenceInductive DEF IInv
<1> QED
  BY <1>1, <1>2, PTL DEF Spec

(* No block a step in flight may still write or copy from is handed back to *)
(* the pool: what the fence of _free_request_blocks is for.                 *)
THEOREM FenceHolds == Spec => []NoEarlyFree
<1>1. IInv => NoEarlyFree
  BY DEF IInv, FenceInv, NoEarlyFree
<1> QED
  BY <1>1, InductiveInvariant, PTL

(* The race the comment at defer_block_free describes never happens: an     *)
(* async load never fills a block a step in flight may still write.         *)
THEOREM LoadsDoNotRace == Spec => []NoLoadRace
<1>1. IInv => NoLoadRace
  BY DEF IInv, FenceInv, NoLoadRace
<1> QED
  BY <1>1, InductiveInvariant, PTL

(* Every KV block is always in exactly one place: `_free_request_blocks`,   *)
(* `_free_cow_retained_blocks` and `_drain_deferred_frees` together never   *)
(* free a block twice, never hand one to two owners and never lose one.     *)
THEOREM BlocksPartitioned == Spec => []PoolPartitioned
<1>1. Init => NoLeak
  BY DEF Init, NoLeak, DeferredBlocks
<1>2. Spec => []NoLeak
  BY <1>1, TypeCorrect, NoLeakInductive, PTL DEF Spec
<1>3. IInv /\ NoLeak => PoolPartitioned
  BY DEF IInv, PoolPartitioned
<1> QED
  BY <1>2, <1>3, InductiveInvariant, PTL

==============================================================================
