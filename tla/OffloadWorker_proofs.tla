------------------------ MODULE OffloadWorker_proofs ------------------------
(* Proofs about OffloadWorker for every number of transfers and steps and   *)
(* every set of operation counts.                                           *)
EXTENDS OffloadWorker, SequenceTheorems, FiniteSetTheorems, WellFoundedInduction, TLAPS

USE DEF Jobs, Streams, Events

-------------------------------------------------------------------------------
(* The pools.                                                               *)

(* Taking an id from the pool of d.                                         *)
Pops(pool, used, n, d, id, rest, m) ==
  /\ pool \in [Dirs -> Seq(Nat)] /\ n \in Nat /\ d \in Dirs /\ PoolOK(pool, used, n)
  /\ id = Popped(pool[d], n)
  /\ rest = [pool EXCEPT ![d] = Rest(@)]
  /\ m = Created(id, n)

(* It is new or was in the pool, and in use by nobody; what is left are     *)
(* pools for one id in use more.                                            *)
LEMMA PopOK ==
  ASSUME NEW pool, NEW used, NEW n, NEW d, NEW id, NEW rest, NEW m,
         Pops(pool, used, n, d, id, rest, m)
  PROVE  /\ id \in 1 .. n + 1 /\ id \notin used /\ (id > n <=> pool[d] = <<>>)
         /\ m \in n .. n + 1 /\ m \in Nat /\ id <= m
         /\ rest \in [Dirs -> Seq(Nat)]
         /\ PoolOK(rest, used \cup {id}, m)
<1>1. /\ pool \in [Dirs -> Seq(Nat)] /\ n \in Nat /\ d \in Dirs /\ PoolOK(pool, used, n)
      /\ id = Popped(pool[d], n) /\ m = Created(id, n)
      /\ rest \in [Dirs -> {rest[e] : e \in Dirs}]
      /\ \A e \in Dirs : rest[e] = IF e = d THEN Rest(pool[d]) ELSE pool[e]
  BY DEF Pops
<1>2. CASE pool[d] = <<>>
  <2>1. id = n + 1 /\ m = n + 1
    BY <1>2, <1>1 DEF Popped, Created
  <2>2. rest = pool
    BY <1>2, <1>1 DEF Rest
  <2>3. id \notin used /\ PoolOK(pool, used \cup {n + 1}, n + 1)
    BY <1>1, <2>1, SMTT(60) DEF PoolOK
  <2>4. PoolOK(rest, used \cup {id}, m)
    BY <2>1, <2>2, <2>3
  <2>5. id \in 1 .. n + 1 /\ m \in n .. n + 1 /\ m \in Nat /\ id <= m /\ id > n
    BY <1>1, <2>1
  <2>6. rest \in [Dirs -> Seq(Nat)]
    BY <1>1, <2>2
  <2> QED
    BY <1>2, <2>3, <2>4, <2>5, <2>6
<1>3. CASE pool[d] # <<>>
  <2> DEFINE p == pool[d]
  <2>1. Len(p) \in Nat /\ Len(p) > 0 /\ p \in Seq(Nat) /\ DOMAIN p = 1 .. Len(p)
    BY <1>3, <1>1
  <2>2. id = p[Len(p)] /\ id \in 1 .. n /\ id \notin used
    BY <1>3, <1>1, <2>1 DEF Popped, PoolOK
  <2>3. m = n
    BY <1>1, <2>2 DEF Created
  <2>4. rest[d] = SubSeq(p, 1, Len(p) - 1) /\ \A e \in Dirs : e # d => rest[e] = pool[e]
    BY <1>3, <1>1 DEF Rest
  <2> HIDE DEF p
  <2>5. /\ rest[d] \in Seq(Nat) /\ DOMAIN rest[d] = 1 .. Len(p) - 1
        /\ \A i \in 1 .. Len(p) - 1 : rest[d][i] = p[i]
    <3>1. Len(p) - 1 \in Int /\ 1 \in Int /\ \A i \in 1 .. Len(p) - 1 : p[i] \in Nat
      BY <2>1
    <3>2. /\ SubSeq(p, 1, Len(p) - 1) \in Seq(Nat)
          /\ Len(SubSeq(p, 1, Len(p) - 1)) = Len(p) - 1
          /\ \A i \in 1 .. Len(p) - 1 : SubSeq(p, 1, Len(p) - 1)[i] = p[i]
      BY <2>1, <3>1, SubSeqProperties
    <3>3. DOMAIN SubSeq(p, 1, Len(p) - 1) = 1 .. Len(p) - 1
      BY <3>2, LenProperties
    <3> QED
      BY <2>4, <3>2, <3>3
  <2>6. \A e \in Dirs : \A i \in DOMAIN rest[e] :
            rest[e][i] = pool[e][i] /\ i \in DOMAIN pool[e] /\ rest[e][i] # id
    <3>1. ASSUME NEW i \in DOMAIN rest[d] PROVE rest[d][i] = p[i] /\ i \in DOMAIN p /\ p[i] # id
      <4>1. rest[d][i] = p[i] /\ i \in DOMAIN p /\ Len(p) \in DOMAIN p /\ i # Len(p)
        BY <2>1, <2>5, SMTT(60)
      <4>2. p[i] # p[Len(p)]
        BY <1>1, <4>1 DEF PoolOK, p
      <4> QED
        BY <2>2, <4>1, <4>2
    <3>2. ASSUME NEW e \in Dirs, e # d, NEW i \in DOMAIN pool[e] PROVE pool[e][i] # id
      <4>1. Len(p) \in DOMAIN p
        BY <2>1
      <4>2. pool[e][i] # pool[d][Len(p)]
        BY <1>1, <3>2, <4>1 DEF PoolOK, p
      <4> QED
        BY <2>2, <4>2 DEF p
    <3>3. \A i \in DOMAIN rest[d] : rest[d][i] = pool[d][i] /\ i \in DOMAIN pool[d] /\ rest[d][i] # id
      BY <3>1 DEF p
    <3>4. \A e \in Dirs : e # d => \A i \in DOMAIN rest[e] :
              rest[e][i] = pool[e][i] /\ i \in DOMAIN pool[e] /\ rest[e][i] # id
      BY <2>4, <3>2
    <3> QED
      BY <3>3, <3>4
  <2>7. rest \in [Dirs -> Seq(Nat)]
    BY <1>1, <2>4, <2>5
  <2>8. PoolOK(rest, used \cup {id}, n)
    <3>1. \A e \in Dirs : \A i \in DOMAIN rest[e] : rest[e][i] \in (1 .. n) \ (used \cup {id})
      BY <1>1, <2>2, <2>6, SMTT(60) DEF PoolOK
    <3>2. \A e, f \in Dirs : \A i \in DOMAIN rest[e], k \in DOMAIN rest[f] :
              rest[e][i] = rest[f][k] => e = f /\ i = k
      BY <1>1, <2>6 DEF PoolOK
    <3>3. used \cup {id} \subseteq 1 .. n
      BY <1>1, <2>2 DEF PoolOK
    <3> QED
      BY <3>1, <3>2, <3>3 DEF PoolOK
  <2> QED
    BY <1>3, <1>1, <2>2, <2>3, <2>7, <2>8, SMTT(60)
<1> QED
  BY <1>2, <1>3

(* Giving ids back to the pools, each once, that were in use.               *)
GivesBack(back, used, still) ==
  /\ back \in [Dirs -> Seq(Nat)]
  /\ still \subseteq used
  /\ \A d \in Dirs : \A i \in DOMAIN back[d] : back[d][i] \in used \ still
  /\ \A d, e \in Dirs : \A i \in DOMAIN back[d], k \in DOMAIN back[e] :
        back[d][i] = back[e][k] => d = e /\ i = k

LEMMA PushOK ==
  ASSUME NEW pool \in [Dirs -> Seq(Nat)], NEW used, NEW n \in Nat, PoolOK(pool, used, n),
         NEW back, NEW still, GivesBack(back, used, still),
         NEW all, all = [d \in Dirs |-> pool[d] \o back[d]]
  PROVE  all \in [Dirs -> Seq(Nat)] /\ PoolOK(all, still, n)
<1> USE DEF GivesBack
<1>1. \A d \in Dirs : /\ all[d] \in Seq(Nat) /\ Len(all[d]) = Len(pool[d]) + Len(back[d])
                      /\ \A i \in 1 .. Len(pool[d]) : all[d][i] = pool[d][i]
                      /\ \A i \in Len(pool[d]) + 1 .. Len(all[d]) : all[d][i] = back[d][i - Len(pool[d])]
  OBVIOUS
<1>2. all \in [Dirs -> Seq(Nat)]
  BY <1>1
<1>3. \A d \in Dirs : /\ DOMAIN pool[d] = 1 .. Len(pool[d]) /\ DOMAIN back[d] = 1 .. Len(back[d])
                      /\ DOMAIN all[d] = 1 .. Len(all[d])
                      /\ Len(pool[d]) \in Nat /\ Len(back[d]) \in Nat /\ Len(all[d]) \in Nat
  BY <1>1
<1>4. ASSUME NEW d \in Dirs, NEW i \in DOMAIN all[d]
      PROVE  \/ i \in DOMAIN pool[d] /\ all[d][i] = pool[d][i]
             \/ i - Len(pool[d]) \in DOMAIN back[d] /\ all[d][i] = back[d][i - Len(pool[d])] /\ i \in Int
  <2> DEFINE a == Len(pool[d])
             b == Len(back[d])
  <2>1. /\ a \in Nat /\ b \in Nat /\ DOMAIN pool[d] = 1 .. a /\ DOMAIN back[d] = 1 .. b /\ i \in 1 .. a + b
        /\ \A k \in 1 .. a : all[d][k] = pool[d][k]
        /\ \A k \in a + 1 .. a + b : all[d][k] = back[d][k - a]
    BY <1>1, <1>3
  <2> HIDE DEF a, b
  <2> QED
    BY <2>1 DEF a
<1>5. \A d \in Dirs : \A i \in DOMAIN all[d] : all[d][i] \in (1 .. n) \ still
  <2> SUFFICES ASSUME NEW d \in Dirs, NEW i \in DOMAIN all[d] PROVE all[d][i] \in (1 .. n) \ still
    OBVIOUS
  <2>1. CASE i \in DOMAIN pool[d] /\ all[d][i] = pool[d][i]
    BY <2>1 DEF PoolOK
  <2>2. CASE i - Len(pool[d]) \in DOMAIN back[d] /\ all[d][i] = back[d][i - Len(pool[d])] /\ i \in Int
    <3>1. back[d][i - Len(pool[d])] \in used \ still
      BY <2>2
    <3> QED
      BY <2>2, <3>1 DEF PoolOK
  <2> QED
    BY <1>4, <2>1, <2>2
<1>6. ASSUME NEW f \in Dirs, NEW g \in Dirs, NEW i \in DOMAIN all[f], NEW k \in DOMAIN all[g],
             all[f][i] = all[g][k]
      PROVE  f = g /\ i = k
  <2>1. CASE i \in DOMAIN pool[f] /\ all[f][i] = pool[f][i]
    <3>1. pool[f][i] \notin used
      BY <2>1 DEF PoolOK
    <3>2. all[g][k] \notin used
      BY <1>6, <2>1, <3>1
    <3>3. k \in DOMAIN pool[g] /\ all[g][k] = pool[g][k]
      BY <1>4, <3>2, SMTT(60)
    <3>4. pool[f][i] = pool[g][k]
      BY <1>6, <2>1, <3>3
    <3> QED
      BY <2>1, <3>3, <3>4 DEF PoolOK
  <2>2. CASE i - Len(pool[f]) \in DOMAIN back[f] /\ all[f][i] = back[f][i - Len(pool[f])] /\ i \in Int
    <3>1. back[f][i - Len(pool[f])] \in used
      BY <2>2
    <3>2. \A j \in DOMAIN pool[g] : pool[g][j] \notin used
      BY DEF PoolOK
    <3>3. k - Len(pool[g]) \in DOMAIN back[g] /\ all[g][k] = back[g][k - Len(pool[g])] /\ k \in Int
      BY <1>4, <1>6, <2>2, <3>1, <3>2, ZenonT(60)
    <3>4. back[f][i - Len(pool[f])] = back[g][k - Len(pool[g])]
      BY <1>6, <2>2, <3>3
    <3>5. f = g /\ i - Len(pool[f]) = k - Len(pool[g])
      BY <2>2, <3>3, <3>4
    <3> QED
      BY <1>3, <2>2, <3>3, <3>5
  <2> QED
    BY <1>4, <2>1, <2>2
<1>7. PoolOK(all, still, n)
  BY <1>5, <1>6 DEF PoolOK
<1> QED
  BY <1>2, <1>7

-------------------------------------------------------------------------------
(* The transfers in flight.                                                 *)
LEMMA InFlightIs ==
  /\ \A t : t \in InFlight <=> \E d \in Dirs : \E i \in DOMAIN transfers[d] : t = transfers[d][i]
  /\ \A t : t \in InFlight' <=> \E d \in Dirs : \E i \in DOMAIN transfers'[d] : t = transfers'[d][i]
BY DEF InFlight

LEMMA Types ==
  ASSUME TypeOK
  PROVE  /\ \A d \in Dirs : /\ transfers[d] \in Seq(Transfer) /\ Len(transfers[d]) \in Nat
                            /\ DOMAIN transfers[d] = 1 .. Len(transfers[d])
         /\ \A t \in InFlight : /\ t \in Transfer /\ t.job \in Jobs /\ t.stream \in Streams /\ t.buffer \in Nat
                                /\ t.start \in Events /\ t.end \in Events
         /\ \A s \in Streams : ops[s] \in Seq(Op) /\ Len(ops[s]) \in Nat /\ DOMAIN ops[s] = 1 .. Len(ops[s])
<1>1. \A d \in Dirs : /\ transfers[d] \in Seq(Transfer) /\ Len(transfers[d]) \in Nat
                      /\ DOMAIN transfers[d] = 1 .. Len(transfers[d])
  BY DEF TypeOK
<1>2. \A d \in Dirs : \A i \in DOMAIN transfers[d] : transfers[d][i] \in Transfer
  BY <1>1
<1>3. \A t \in InFlight : t \in Transfer
  BY <1>2, InFlightIs
<1>4. \A t \in InFlight : /\ t.job \in Jobs /\ t.stream \in Streams /\ t.buffer \in Nat
                          /\ t.start \in Events /\ t.end \in Events
  BY <1>3 DEF Transfer
<1>5. ops \in [Streams -> Seq(Op)]
  BY DEF TypeOK
<1>6. \A s \in Streams : ops[s] \in Seq(Op) /\ Len(ops[s]) \in Nat /\ DOMAIN ops[s] = 1 .. Len(ops[s])
  BY <1>5
<1> QED
  BY <1>1, <1>3, <1>4, <1>6

(* No two transfers in flight share anything.                               *)
LEMMA ApartInFlight ==
  ASSUME TransfersApart, NEW t \in InFlight, NEW u \in InFlight, t # u
  PROVE  Apart(t, u)
<1>1. PICK d \in Dirs : \E i \in DOMAIN transfers[d] : t = transfers[d][i]
  BY InFlightIs
<1>2. PICK i \in DOMAIN transfers[d] : t = transfers[d][i]
  BY <1>1
<1>3. PICK e \in Dirs : \E k \in DOMAIN transfers[e] : u = transfers[e][k]
  BY InFlightIs
<1>4. PICK k \in DOMAIN transfers[e] : u = transfers[e][k]
  BY <1>3
<1>5. d # e \/ i # k
  BY <1>2, <1>4
<1> QED
  BY <1>2, <1>4, <1>5 DEF TransfersApart

LEMMA WorkerInitially == Init => WorkerInv
<1> SUFFICES ASSUME Init PROVE WorkerInv
  OBVIOUS
<1>1. InFlight = {} /\ StreamsInUse = {} /\ EventsInUse = {} /\ BuffersInUse = {}
  BY DEF Init, InFlight, StreamsInUse, EventsInUse, BuffersInUse
<1>2. TypeOK
  BY OffloadAssumption DEF Init, TypeOK, OffloadAssumption
<1>3. PoolsExact
  BY <1>1 DEF Init, PoolsExact, PoolOK
<1>4. TransfersApart
  BY <1>1 DEF Init, TransfersApart
<1>5. UnusedAtRest
  BY <1>1 DEF Init, UnusedAtRest
<1>6. \A d \in Dirs : \A i \in 2 .. Len(transfers[d]) : Chained(d, i)
  BY DEF Init
<1>7. CopiesAhead
  BY DEF Init, CopiesAhead
<1> QED
  BY <1>1, <1>2, <1>3, <1>4, <1>5, <1>6, <1>7 DEF WorkerInv

(* Steps that change none of the transfers, streams and events.             *)
LEMMA NothingMoved ==
  ASSUME WorkerInv, TypeOK', PoolsExact',
         UNCHANGED <<submitted, transfers, content, ops, recorded, completed, fence, moved>>,
         over <= over'
  PROVE  WorkerInv'
<1>1. InFlight' = InFlight /\ StreamsInUse' = StreamsInUse /\ EventsInUse' = EventsInUse
  BY DEF InFlight, StreamsInUse, EventsInUse
<1>2. TransfersApart' /\ UnusedAtRest' /\ CopiesAhead'
  BY <1>1 DEF WorkerInv, TransfersApart, UnusedAtRest, CopiesAhead
<1>3. \A t \in InFlight' : (RestOfEnqueued(t) /\ EffectOfExecuted(t) /\ content[t.buffer] = t.job)'
  <2> SUFFICES ASSUME NEW t \in InFlight
               PROVE  (RestOfEnqueued(t) /\ EffectOfExecuted(t) /\ content[t.buffer] = t.job)'
    BY <1>1
  <2>1. RestOfEnqueued(t) /\ EffectOfExecuted(t) /\ content[t.buffer] = t.job /\ t.job \in Jobs
    BY Types DEF WorkerInv
  <2>2. RestOfEnqueued(t)'
    BY <2>1 DEF RestOfEnqueued, StreamHas
  <2>3. fence[t.job] <= over => fence'[t.job] <= over'
    BY <2>1, SMTT(60) DEF TypeOK, WorkerInv
  <2>4. EffectOfExecuted(t)'
    BY <2>1, <2>3 DEF EffectOfExecuted, StreamHas
  <2> QED
    BY <2>1, <2>2, <2>4
<1>4. \A d \in Dirs : \A i \in 2 .. Len(transfers'[d]) : Chained(d, i)'
  BY DEF WorkerInv, Chained, StreamHas
<1> QED
  BY <1>2, <1>3, <1>4 DEF WorkerInv

LEMMA HostSteps ==
  ASSUME WorkerInv,
         \/ BeginWait \/ EndWait \/ Shutdown \/ EnqueueStep \/ EndStep
         \/ \E d \in Dirs : EndShutdown(d)
         \/ UNCHANGED vars
  PROVE  WorkerInv'
<1> USE DEF handlerVars, deviceVars
<1>1. TypeOK /\ PoolsExact /\ \A t \in InFlight : t.job \in Jobs
  BY Types DEF WorkerInv
<1>2. CASE \/ BeginWait \/ EndWait \/ Shutdown \/ EnqueueStep \/ EndStep \/ UNCHANGED vars
  <2>1. /\ UNCHANGED <<submitted, transfers, streamPool, eventPool, bufferPool, numStreams, numEvents, capacity,
                       content, ops, recorded, completed, fence, moved>>
        /\ over <= over' /\ over' \in 0 .. enqueued' /\ enqueued' \in Nat
    BY <1>1, <1>2, SMTT(60) DEF TypeOK, BeginWait, EndWait, Shutdown, EnqueueStep, EndStep, vars
  <2>2. host' \in {"idle", "wait", "shutdown_store", "shutdown_load", "down"} /\ waitFor' \subseteq Jobs
    BY <1>1, <1>2 DEF TypeOK, BeginWait, EndWait, Shutdown, EnqueueStep, EndStep, vars
  <2>3. TypeOK'
    BY <1>1, <2>1, <2>2 DEF TypeOK
  <2>4. PoolsExact'
    BY <1>1, <2>1 DEF PoolsExact, PoolOK, StreamsInUse, EventsInUse, BuffersInUse, InFlight
  <2> QED
    BY <2>1, <2>3, <2>4, NothingMoved
<1>3. CASE \E d \in Dirs : EndShutdown(d)
  <2>1. PICK d \in Dirs : EndShutdown(d)
    BY <1>3
  <2>2. UNCHANGED <<waitFor, submitted, transfers, numStreams, numEvents, capacity, content, ops, recorded,
                    completed, enqueued, over, fence, moved>>
    BY <2>1 DEF EndShutdown
  <2>3. /\ streamPool' \in [Dirs -> Seq(Nat)]
        /\ eventPool' \in [Dirs -> Seq(Nat)]
        /\ bufferPool' \in [Dirs -> Seq(Nat)]
    BY <1>1, <2>1 DEF EndShutdown, TypeOK
  <2>4. TypeOK'
    BY <1>1, <2>1, <2>2, <2>3 DEF TypeOK, EndShutdown
  <2>5. \A e \in Dirs : /\ streamPool'[e] = IF e = d THEN <<>> ELSE streamPool[e]
                        /\ eventPool'[e] = IF e = d THEN <<>> ELSE eventPool[e]
                        /\ bufferPool'[e] = IF e = d THEN <<>> ELSE bufferPool[e]
    BY <1>1, <2>1 DEF EndShutdown, TypeOK
  <2>6. InFlight' = InFlight /\ StreamsInUse' = StreamsInUse /\ EventsInUse' = EventsInUse /\ BuffersInUse' = BuffersInUse
    BY <2>2 DEF InFlight, StreamsInUse, EventsInUse, BuffersInUse
  <2>7. PoolOK(streamPool', StreamsInUse', numStreams')
    BY <1>1, <2>2, <2>5, <2>6 DEF PoolsExact, PoolOK
  <2>8. PoolOK(eventPool', EventsInUse', numEvents')
    BY <1>1, <2>2, <2>5, <2>6 DEF PoolsExact, PoolOK
  <2>9. PoolOK(bufferPool', BuffersInUse', Len(capacity'))
    BY <1>1, <2>2, <2>5, <2>6 DEF PoolsExact, PoolOK
  <2>10. PoolsExact' /\ over <= over'
    BY <1>1, <2>2, <2>7, <2>8, <2>9 DEF PoolsExact, TypeOK
  <2> QED
    BY <2>2, <2>4, <2>10, NothingMoved
<1> QED
  BY <1>2, <1>3

(* Transfers that have ended leave, the first n[d] in each direction.       *)
Retired(n) ==
  /\ n \in [Dirs -> Nat]
  /\ \A d \in Dirs : n[d] <= Len(transfers[d]) /\ \A i \in 1 .. n[d] : Query(transfers[d][i].end)
  /\ transfers' = [d \in Dirs |-> SubSeq(transfers[d], n[d] + 1, Len(transfers[d]))]
  /\ UNCHANGED <<submitted, numStreams, numEvents, capacity, content, recorded, enqueued, fence, deviceVars>>

LEMMA EndedIsIdle ==
  ASSUME WorkerInv, NEW t \in InFlight
  PROVE  Query(t.end) <=> ops[t.stream] = <<>>
BY Types DEF WorkerInv, EffectOfExecuted, Query, TypeOK

LEMMA RetiredKeepsOrder ==
  ASSUME WorkerInv, NEW n, Retired(n)
  PROVE  /\ \A d \in Dirs : /\ transfers'[d] \in Seq(Transfer)
                            /\ DOMAIN transfers'[d] = 1 .. Len(transfers[d]) - n[d]
                            /\ Len(transfers'[d]) = Len(transfers[d]) - n[d]
                            /\ \A i \in DOMAIN transfers'[d] :
                                   /\ i + n[d] \in DOMAIN transfers[d]
                                   /\ transfers'[d][i] = transfers[d][i + n[d]]
         /\ transfers' \in [Dirs -> Seq(Transfer)]
         /\ InFlight' \subseteq InFlight
         /\ \A t \in InFlight : t \in InFlight' \/ \E d \in Dirs : \E i \in 1 .. n[d] : t = transfers[d][i]
<1>1. ASSUME NEW d \in Dirs
      PROVE  /\ transfers'[d] \in Seq(Transfer)
             /\ DOMAIN transfers'[d] = 1 .. Len(transfers[d]) - n[d]
             /\ Len(transfers'[d]) = Len(transfers[d]) - n[d]
             /\ \A i \in DOMAIN transfers'[d] :
                    /\ i + n[d] \in DOMAIN transfers[d]
                    /\ transfers'[d][i] = transfers[d][i + n[d]]
  <2> DEFINE s == transfers[d]
             a == n[d] + 1
             b == Len(s)
             r == SubSeq(s, a, b)
  <2>1. a \in Int /\ b \in Nat /\ a <= b + 1 /\ a >= 1 /\ n[d] \in Nat /\ DOMAIN s = 1 .. b /\ s \in Seq(Transfer)
    BY Types DEF WorkerInv, Retired
  <2>2. transfers'[d] = r
    BY DEF Retired
  <2> HIDE DEF s, a, b
  <2>3. \A i \in a .. b : s[i] \in Transfer
    BY <2>1
  <2>4. /\ r \in Seq(Transfer) /\ Len(r) = IF a <= b THEN b - a + 1 ELSE 0
        /\ \A i \in 1 .. b - a + 1 : r[i] = s[a + i - 1]
    BY <2>1, <2>3, SubSeqProperties
  <2>5. Len(r) = b - a + 1 /\ DOMAIN r = 1 .. b - a + 1
    BY <2>1, <2>4, LenProperties
  <2> HIDE DEF r
  <2>6. b - a + 1 = b - n[d] /\ \A i \in 1 .. b - n[d] : a + i - 1 = i + n[d] /\ i + n[d] \in 1 .. b
    <3>1. PICK m \in Nat : m = n[d]
      BY <2>1
    <3>2. a = m + 1 /\ b \in Nat /\ m <= b
      BY <2>1, <3>1 DEF a
    <3>3. b - a + 1 = b - m /\ \A i \in 1 .. b - m : a + i - 1 = i + m /\ i + m \in 1 .. b
      BY <3>2
    <3> QED
      BY <3>1, <3>3
  <2>7. \A i \in 1 .. b - n[d] : r[i] = s[i + n[d]]
    BY <2>4, <2>6
  <2> QED
    BY <2>1, <2>2, <2>4, <2>5, <2>6, <2>7 DEF s, b
<1>2. transfers' \in [Dirs -> Seq(Transfer)]
  BY <1>1 DEF Retired
<1>3. InFlight' \subseteq InFlight
  BY <1>1, InFlightIs
<1>4. ASSUME NEW t \in InFlight
      PROVE  t \in InFlight' \/ \E d \in Dirs : \E i \in 1 .. n[d] : t = transfers[d][i]
  <2>1. PICK d \in Dirs : \E i \in DOMAIN transfers[d] : t = transfers[d][i]
    BY InFlightIs
  <2>2. PICK i \in DOMAIN transfers[d] : t = transfers[d][i]
    BY <2>1
  <2>3. n[d] \in Nat /\ i \in 1 .. Len(transfers[d]) /\ Len(transfers[d]) \in Nat
    BY Types DEF WorkerInv, Retired
  <2>4. CASE i > n[d]
    <3>1. i - n[d] \in DOMAIN transfers'[d] /\ (i - n[d]) + n[d] = i
      BY <1>1, <2>3, <2>4
    <3>2. t = transfers'[d][i - n[d]]
      BY <1>1, <2>2, <3>1
    <3> QED
      BY <3>1, <3>2, InFlightIs
  <2>5. CASE i <= n[d]
    BY <2>2, <2>3, <2>5
  <2> QED
    BY <2>3, <2>4, <2>5
<1> QED
  BY <1>1, <1>2, <1>3, <1>4

LEMMA RetiredInv ==
  ASSUME WorkerInv, NEW n, Retired(n), TypeOK', PoolsExact', UNCHANGED moved
  PROVE  WorkerInv'
<1> USE DEF deviceVars
<1>1. UNCHANGED <<submitted, content, ops, recorded, completed, enqueued, over, fence>>
  BY DEF Retired
<1>2. \A d \in Dirs : /\ n[d] \in Nat /\ Len(transfers[d]) \in Nat /\ Len(transfers'[d]) = Len(transfers[d]) - n[d]
                      /\ DOMAIN transfers'[d] = 1 .. Len(transfers'[d])
                      /\ \A i \in DOMAIN transfers'[d] :
                             /\ i \in Int /\ i + n[d] \in DOMAIN transfers[d]
                             /\ transfers'[d][i] = transfers[d][i + n[d]]
  <2>1. \A d \in Dirs : n[d] \in Nat /\ Len(transfers[d]) \in Nat
    BY Types DEF Retired, WorkerInv
  <2> QED
    BY <2>1, RetiredKeepsOrder
<1>3. \A t \in InFlight \ InFlight' : ops[t.stream] = <<>>
  <2> SUFFICES ASSUME NEW t \in InFlight, t \notin InFlight' PROVE ops[t.stream] = <<>>
    OBVIOUS
  <2>1. PICK d \in Dirs : \E i \in 1 .. n[d] : t = transfers[d][i]
    BY RetiredKeepsOrder
  <2>2. Query(t.end)
    BY <2>1 DEF Retired
  <2> QED
    BY <2>2, EndedIsIdle
<1>4. TransfersApart'
  <2>1. \A d \in Dirs : Len(transfers'[d]) <= submitted'
    <3>1. submitted' = submitted /\ submitted \in Nat
      BY <1>1 DEF WorkerInv, TypeOK
    <3>2. \A d \in Dirs : /\ Len(transfers[d]) <= submitted /\ Len(transfers[d]) \in Nat /\ n[d] \in Nat
                          /\ Len(transfers'[d]) = Len(transfers[d]) - n[d]
      BY Types, RetiredKeepsOrder DEF WorkerInv, TransfersApart, Retired
    <3> QED
      BY <3>1, <3>2
  <2>2. \A t \in InFlight' : t.job <= submitted' /\ t.start # t.end
    BY <1>1, RetiredKeepsOrder DEF WorkerInv, TransfersApart
  <2>3. ASSUME NEW d \in Dirs, NEW e \in Dirs, NEW i \in DOMAIN transfers'[d], NEW k \in DOMAIN transfers'[e],
               d # e \/ i # k
        PROVE  Apart(transfers'[d][i], transfers'[e][k])
    <3>1. /\ i + n[d] \in DOMAIN transfers[d] /\ transfers'[d][i] = transfers[d][i + n[d]]
          /\ k + n[e] \in DOMAIN transfers[e] /\ transfers'[e][k] = transfers[e][k + n[e]]
          /\ i \in Int /\ k \in Int /\ n[d] \in Nat /\ n[e] \in Nat
      BY <1>2
    <3>2. d # e \/ i + n[d] # k + n[e]
      BY <2>3, <3>1
    <3>3. Apart(transfers[d][i + n[d]], transfers[e][k + n[e]])
      BY <2>3, <3>1, <3>2 DEF WorkerInv, TransfersApart
    <3> QED
      BY <3>1, <3>3
  <2> QED
    BY <2>1, <2>2, <2>3 DEF TransfersApart, Apart
<1>5. UnusedAtRest'
  <2>1. ASSUME NEW s \in Streams, s \notin StreamsInUse' PROVE ops[s] = <<>>
    <3>1. CASE s \notin StreamsInUse
      BY <3>1 DEF WorkerInv, UnusedAtRest
    <3>2. CASE s \in StreamsInUse
      <4>1. PICK t \in InFlight : t.stream = s
        BY <3>2 DEF StreamsInUse
      <4>2. t \notin InFlight'
        BY <2>1, <4>1 DEF StreamsInUse
      <4> QED
        BY <1>3, <4>1, <4>2
    <3> QED
      BY <3>1, <3>2
  <2>2. ASSUME NEW e \in Events, e \notin EventsInUse' PROVE completed[e] = recorded[e]
    <3>1. CASE e \notin EventsInUse
      BY <3>1 DEF WorkerInv, UnusedAtRest
    <3>2. CASE e \in EventsInUse
      <4>1. PICK t \in InFlight : t.start = e \/ t.end = e
        BY <3>2 DEF EventsInUse
      <4>2. t \notin InFlight'
        BY <2>2, <4>1 DEF EventsInUse
      <4>3. ops[t.stream] = <<>> /\ EffectOfExecuted(t)
        BY <1>3, <4>2 DEF WorkerInv
      <4>4. ~StreamHas(t, t.start)
        BY <4>3 DEF StreamHas
      <4> QED
        BY <4>1, <4>3, <4>4 DEF EffectOfExecuted
    <3> QED
      BY <3>1, <3>2
  <2> QED
    BY <1>1, <2>1, <2>2 DEF UnusedAtRest
<1>6. ASSUME NEW t \in InFlight'
      PROVE  (RestOfEnqueued(t) /\ EffectOfExecuted(t) /\ content[t.buffer] = t.job)'
  <2>1. RestOfEnqueued(t) /\ EffectOfExecuted(t) /\ content[t.buffer] = t.job
    BY RetiredKeepsOrder DEF WorkerInv
  <2>2. RestOfEnqueued(t)'
    BY <1>1, <2>1 DEF RestOfEnqueued, StreamHas
  <2>3. EffectOfExecuted(t)'
    BY <1>1, <2>1 DEF EffectOfExecuted, StreamHas
  <2> QED
    BY <1>1, <2>1, <2>2, <2>3
<1>7. ASSUME NEW d \in Dirs, NEW i \in 2 .. Len(transfers'[d])
      PROVE  Chained(d, i)'
  <2>1. PICK x \in Nat : x = n[d]
    BY <1>2
  <2>2. /\ i \in Int /\ i + x \in 2 .. Len(transfers[d]) /\ (i - 1) + x = i + x - 1
        /\ i - 1 \in DOMAIN transfers'[d] /\ i \in DOMAIN transfers'[d]
        /\ \A k \in 1 .. i - 1 : k + x \in 1 .. i + x - 1 /\ k \in DOMAIN transfers'[d]
    <3>1. /\ Len(transfers'[d]) = Len(transfers[d]) - x /\ Len(transfers[d]) \in Nat
          /\ DOMAIN transfers'[d] = 1 .. Len(transfers[d]) - x
      BY <1>2, <2>1
    <3> DEFINE L == Len(transfers[d])
    <3>2. i \in 2 .. L - x /\ L \in Nat
      BY <3>1
    <3> HIDE DEF L
    <3>3. /\ i \in Int /\ i + x \in 2 .. L /\ (i - 1) + x = i + x - 1
          /\ i - 1 \in 1 .. L - x /\ i \in 1 .. L - x
          /\ \A k \in 1 .. i - 1 : k + x \in 1 .. i + x - 1 /\ k \in 1 .. L - x
      BY <3>2
    <3> QED
      BY <3>1, <3>3 DEF L
  <2>3. PICK t, u : t = transfers[d][i + x] /\ u = transfers[d][i + x - 1]
    OBVIOUS
  <2>4. /\ transfers'[d][i] = t /\ transfers'[d][i - 1] = u
        /\ \A k \in 1 .. i - 1 : transfers'[d][k] = transfers[d][k + x]
    BY <1>2, <2>1, <2>2, <2>3
  <2>5. Chained(d, i + x)
    BY <2>2, SMTT(60) DEF WorkerInv
  <2>6. /\ ops[u.stream] # <<>> =>
              \E k \in DOMAIN ops[t.stream] : /\ ops[t.stream][k].kind = "event" /\ ops[t.stream][k].event = u.end
                                              /\ ops[t.stream][k].ver = recorded[u.end]
        /\ StreamHas(t, t.start) \/ \A k \in 1 .. i + x - 1 : ops[transfers[d][k].stream] = <<>>
    BY <2>3, <2>5 DEF Chained
  <2>7. StreamHas(t, t.start)' <=> StreamHas(t, t.start)
    BY <1>1 DEF StreamHas
  <2>8. StreamHas(t, t.start) \/ \A k \in 1 .. i - 1 : ops[transfers'[d][k].stream] = <<>>
    BY <2>2, <2>4, <2>6
  <2> QED
    BY <1>1, <2>4, <2>6, <2>7, <2>8 DEF Chained
<1>8. CopiesAhead'
  <2>1. ASSUME NEW t \in InFlight, NEW k \in DOMAIN ops[t.stream] PROVE t \in InFlight'
    BY <1>3, <2>1
  <2>2. CopiesAhead
    BY DEF WorkerInv
  <2> QED
    BY <1>1, <2>1, <2>2 DEF CopiesAhead
<1> QED
  BY <1>4, <1>5, <1>6, <1>7, <1>8 DEF WorkerInv

LEMMA DrainRetires ==
  ASSUME WorkerInv, NEW d \in Dirs, DrainTransfer(d)
  PROVE  \E n : Retired(n)
<1> DEFINE n == [e \in Dirs |-> IF e = d THEN 1 ELSE 0]
<1>1. /\ Len(transfers[d]) \in Nat /\ Len(transfers[d]) >= 1 /\ transfers[d] \in Seq(Transfer)
      /\ transfers \in [Dirs -> Seq(Transfer)]
  BY DEF WorkerInv, TypeOK, DrainTransfer, FrontFinished
<1>2. transfers' = [e \in Dirs |-> SubSeq(transfers[e], n[e] + 1, Len(transfers[e]))]
  <2>1. Tail(transfers[d]) = SubSeq(transfers[d], 2, Len(transfers[d]))
    BY <1>1, TailIsSubSeq DEF DrainTransfer, FrontFinished
  <2>2. \A e \in Dirs : transfers[e] = SubSeq(transfers[e], 1, Len(transfers[e]))
    BY <1>1, SubSeqFull
  <2>3. \A e \in Dirs : transfers'[e] = IF e = d THEN Tail(transfers[d]) ELSE transfers[e]
    BY <1>1 DEF DrainTransfer
  <2>4. ASSUME NEW e \in Dirs
        PROVE  transfers'[e] = SubSeq(transfers[e], n[e] + 1, Len(transfers[e]))
    <3>1. CASE e = d
      <4>1. n[e] + 1 = 2
        BY <3>1
      <4> QED
        BY <2>1, <2>3, <3>1, <4>1
    <3>2. CASE e # d
      <4>1. n[e] + 1 = 1
        BY <3>2
      <4> QED
        BY <2>2, <2>3, <3>2, <4>1
    <3> QED
      BY <3>1, <3>2
  <2>5. transfers' = [e \in Dirs |-> transfers'[e]]
    BY <1>1 DEF DrainTransfer
  <2> HIDE DEF n
  <2> QED
    BY <2>4, <2>5
<1>3. Retired(n)
  <2>1. \A e \in Dirs : n[e] \in Nat /\ n[e] <= Len(transfers[e])
    BY <1>1
  <2>2. \A e \in Dirs : \A i \in 1 .. n[e] : Query(transfers[e][i].end)
    BY DEF DrainTransfer, FrontFinished
  <2>3. n \in [Dirs -> Nat]
    BY <2>1
  <2> HIDE DEF n
  <2> QED
    BY <1>2, <2>1, <2>2, <2>3 DEF Retired, DrainTransfer, deviceVars
<1> HIDE DEF n
<1> QED
  BY <1>3

LEMMA DrainInv == WorkerInv /\ (\E d \in Dirs : DrainTransfer(d)) => WorkerInv'
<1> SUFFICES ASSUME WorkerInv, NEW d \in Dirs, DrainTransfer(d) PROVE WorkerInv'
  OBVIOUS
<1>1. PICK n : Retired(n)
  BY DrainRetires
<1>2. TypeOK'
  BY <1>1, RetiredKeepsOrder DEF WorkerInv, TypeOK, DrainTransfer, deviceVars
<1>3. /\ StreamsInUse' \subseteq StreamsInUse /\ EventsInUse' \subseteq EventsInUse
      /\ BuffersInUse' \subseteq BuffersInUse
  BY <1>1, RetiredKeepsOrder DEF StreamsInUse, EventsInUse, BuffersInUse
<1>4. PoolsExact'
  BY <1>3 DEF WorkerInv, PoolsExact, PoolOK, DrainTransfer
<1> QED
  BY <1>1, <1>2, <1>4, RetiredInv DEF DrainTransfer, deviceVars

LEMMA SmallestNat ==
  ASSUME NEW T, T \subseteq Nat, T # {}
  PROVE  \E n \in T : \A m \in T : n <= m
<1> DEFINE R == OpToRel(<, Nat)
<1>1. PICK n \in T : \A m \in T : ~ (<<m, n>> \in R)
  BY NatLessThanWellFounded, WFMin
<1>2. \A m \in T : ~ (m < n)
  BY <1>1 DEF OpToRel
<1> QED
  BY <1>2

(* The handler pops up to the first transfer whose end is not reached.      *)
LEMMA FinishedIs ==
  ASSUME TypeOK, NEW d \in Dirs
  PROVE  /\ Finished(d) \in 0 .. Len(transfers[d])
         /\ \A i \in 1 .. Finished(d) : Query(transfers[d][i].end)
<1> DEFINE L == Len(transfers[d])
           P(n) == /\ \A i \in 1 .. n : Query(transfers[d][i].end)
                   /\ n < L => ~Query(transfers[d][n + 1].end)
           T == {n \in 0 .. L - 1 : ~Query(transfers[d][n + 1].end)}
<1>1. L \in Nat
  BY Types
<1> HIDE DEF L
<1>2. \E n \in 0 .. L : P(n)
  <2>1. CASE T = {}
    <3>1. \A i \in 1 .. L : i - 1 \in 0 .. L - 1 /\ (i - 1) + 1 = i
      BY <1>1
    <3>2. \A i \in 1 .. L : Query(transfers[d][i].end)
      BY <2>1, <3>1
    <3> QED
      BY <1>1, <3>2
  <2>2. CASE T # {}
    <3>1. T \subseteq Nat
      BY <1>1
    <3> HIDE DEF T
    <3>2. PICK n \in T : \A m \in T : n <= m
      BY <2>2, <3>1, SmallestNat
    <3> USE DEF T
    <3>3. n \in T /\ \A m \in T : n <= m
      BY <3>2
    <3>4. \A i \in 1 .. n : i - 1 \in 0 .. L - 1 /\ (i - 1) + 1 = i /\ ~(n <= i - 1)
      BY <1>1, <3>3
    <3>5. \A i \in 1 .. n : i - 1 \notin T
      BY <3>3, <3>4
    <3>6. \A i \in 1 .. n : Query(transfers[d][i].end)
      BY <3>4, <3>5
    <3>7. n \in 0 .. L /\ ~Query(transfers[d][n + 1].end)
      BY <1>1, <3>3
    <3> QED
      BY <3>6, <3>7
  <2> QED
    BY <2>1, <2>2
<1>3. Finished(d) = CHOOSE n \in 0 .. L : P(n)
  BY DEF Finished, L
<1> HIDE DEF P
<1>4. Finished(d) \in 0 .. L /\ P(Finished(d))
  BY <1>2, <1>3
<1> QED
  BY <1>4 DEF P, L

LEMMA Halves ==
  ASSUME NEW n \in Nat
  PROVE  /\ \A i \in 1 .. 2 * n : (i + 1) \div 2 \in 1 .. n
         /\ \A i, k \in 1 .. 2 * n : (i + 1) \div 2 = (k + 1) \div 2 /\ (i % 2 = 1 <=> k % 2 = 1) => i = k
OBVIOUS

(* What get_finished gives back to the pools is what the transfers it pops  *)
(* had in use, each once.                                                   *)
LEMMA GivenBack ==
  ASSUME WorkerInv, NEW n, Retired(n)
  PROVE  /\ \A t \in InFlight' : /\ t.stream \in StreamsInUse /\ t.buffer \in BuffersInUse
                                 /\ t.start \in EventsInUse /\ t.end \in EventsInUse
         /\ \A d \in Dirs : \A i \in 1 .. n[d] :
               LET t == transfers[d][i] IN
               /\ t \in InFlight
               /\ t.stream \in StreamsInUse \ StreamsInUse' /\ t.buffer \in BuffersInUse \ BuffersInUse'
               /\ t.start \in EventsInUse \ EventsInUse' /\ t.end \in EventsInUse \ EventsInUse'
<1>1. ASSUME NEW d \in Dirs, NEW i \in 1 .. n[d]
      PROVE  transfers[d][i] \in InFlight \ InFlight'
  <2>1. i \in DOMAIN transfers[d] /\ n[d] \in Nat
    BY Types DEF WorkerInv, Retired
  <2>2. ASSUME NEW e \in Dirs, NEW k \in DOMAIN transfers'[e] PROVE transfers'[e][k] # transfers[d][i]
    <3>1. k + n[e] \in DOMAIN transfers[e] /\ transfers'[e][k] = transfers[e][k + n[e]] /\ n[e] \in Nat /\ k >= 1 /\ k \in Int
      BY RetiredKeepsOrder, SMTT(60) DEF Retired
    <3>2. d # e \/ i # k + n[e]
      BY <2>1, <3>1
    <3>3. Apart(transfers[d][i], transfers[e][k + n[e]])
      BY <2>1, <3>1, <3>2 DEF WorkerInv, TransfersApart
    <3> QED
      BY <3>1, <3>3 DEF Apart
  <2> QED
    BY <2>1, <2>2, InFlightIs
<1>2. InFlight' \subseteq InFlight
  BY RetiredKeepsOrder
<1>3. ASSUME NEW t \in InFlight \ InFlight', NEW u \in InFlight'
      PROVE  Apart(t, u)
  BY <1>2, ApartInFlight DEF WorkerInv
<1>4. ASSUME NEW t \in InFlight \ InFlight'
      PROVE  /\ t.stream \in StreamsInUse \ StreamsInUse' /\ t.buffer \in BuffersInUse \ BuffersInUse'
             /\ t.start \in EventsInUse \ EventsInUse' /\ t.end \in EventsInUse \ EventsInUse'
  BY <1>3 DEF StreamsInUse, BuffersInUse, EventsInUse, Apart
<1>5. \A t \in InFlight' : /\ t.stream \in StreamsInUse /\ t.buffer \in BuffersInUse
                           /\ t.start \in EventsInUse /\ t.end \in EventsInUse
  BY <1>2 DEF StreamsInUse, BuffersInUse, EventsInUse
<1> QED
  BY <1>1, <1>4, <1>5

LEMMA GetFinishedRetires ==
  ASSUME WorkerInv, GetFinished
  PROVE  Retired([d \in Dirs |-> Finished(d)])
<1> DEFINE n == [d \in Dirs |-> Finished(d)]
<1>1. \A d \in Dirs : n[d] \in Nat /\ n[d] <= Len(transfers[d]) /\ \A i \in 1 .. n[d] : Query(transfers[d][i].end)
  BY FinishedIs, Types DEF WorkerInv
<1>2. n \in [Dirs -> Nat] /\ \A d \in Dirs : n[d] = Finished(d)
  BY <1>1
<1> HIDE DEF n
<1>3. Retired(n)
  BY <1>1, <1>2 DEF Retired, GetFinished, deviceVars
<1> QED
  BY <1>3 DEF n

LEMMA GetFinishedInv == WorkerInv /\ GetFinished => WorkerInv'
<1> SUFFICES ASSUME WorkerInv, GetFinished PROVE WorkerInv'
  OBVIOUS
<1> DEFINE n == [d \in Dirs |-> Finished(d)]
           streams == [d \in Dirs |-> StreamsOf(d, n[d])]
           events == [d \in Dirs |-> EventsOf(d, n[d])]
           buffers == [d \in Dirs |-> BuffersOf(d, n[d])]
<1>1. \A d \in Dirs : n[d] \in Nat /\ n[d] <= Len(transfers[d]) /\ \A i \in 1 .. n[d] : Query(transfers[d][i].end)
  BY FinishedIs, Types DEF WorkerInv
<1>2. n \in [Dirs -> Nat] /\ \A d \in Dirs : n[d] = Finished(d)
  BY <1>1
<1> HIDE DEF n
<1>3. Retired(n)
  BY GetFinishedRetires DEF n
<1>4. \A d \in Dirs : \A i \in 1 .. n[d] :
          /\ i \in DOMAIN transfers[d] /\ transfers[d][i] \in InFlight
          /\ transfers[d][i].stream \in (StreamsInUse \ StreamsInUse') \cap Nat
          /\ transfers[d][i].buffer \in (BuffersInUse \ BuffersInUse') \cap Nat
          /\ transfers[d][i].start \in (EventsInUse \ EventsInUse') \cap Nat
          /\ transfers[d][i].end \in (EventsInUse \ EventsInUse') \cap Nat
  BY <1>1, <1>3, GivenBack, Types, SMTT(60) DEF WorkerInv
<1>5. ASSUME NEW d \in Dirs, NEW e \in Dirs, NEW i \in 1 .. n[d], NEW k \in 1 .. n[e], d # e \/ i # k
      PROVE  Apart(transfers[d][i], transfers[e][k])
  BY <1>4, <1>5 DEF WorkerInv, TransfersApart
<1>6. \A t \in InFlight : t.start # t.end
  BY DEF WorkerInv, TransfersApart
<1>7. /\ StreamsInUse' \subseteq StreamsInUse /\ EventsInUse' \subseteq EventsInUse
      /\ BuffersInUse' \subseteq BuffersInUse
  BY <1>3, RetiredKeepsOrder DEF StreamsInUse, EventsInUse, BuffersInUse
<1>8. streamPool' \in [Dirs -> Seq(Nat)] /\ PoolOK(streamPool', StreamsInUse', numStreams)
  <2>1. \A d \in Dirs : /\ streams[d] = [i \in 1 .. n[d] |-> transfers[d][i].stream]
                        /\ DOMAIN streams[d] = 1 .. n[d] /\ streams[d] \in Seq(Nat)
                        /\ \A i \in 1 .. n[d] : streams[d][i] = transfers[d][i].stream
    BY <1>1, <1>4, IsASeq, SMTT(60) DEF StreamsOf
  <2>2. streams = [d \in Dirs |-> streams[d]]
    OBVIOUS
  <2> HIDE DEF streams
  <2>3. streams \in [Dirs -> Seq(Nat)]
    BY <2>1, <2>2
  <2>4. \A d \in Dirs : \A i \in DOMAIN streams[d] : streams[d][i] \in StreamsInUse \ StreamsInUse'
    BY <1>4, <2>1, ZenonT(60)
  <2>5. ASSUME NEW d \in Dirs, NEW e \in Dirs, NEW i \in DOMAIN streams[d], NEW k \in DOMAIN streams[e],
               streams[d][i] = streams[e][k]
        PROVE  d = e /\ i = k
    <3>1. i \in 1 .. n[d] /\ k \in 1 .. n[e] /\ transfers[d][i].stream = transfers[e][k].stream
      BY <2>1, <2>5
    <3>2. (d # e \/ i # k) => Apart(transfers[d][i], transfers[e][k])
      BY <1>5, <3>1
    <3> QED
      BY <3>1, <3>2 DEF Apart
  <2>6. GivesBack(streams, StreamsInUse, StreamsInUse')
    BY <1>7, <2>3, <2>4, <2>5 DEF GivesBack
  <2>7. streamPool' = [d \in Dirs |-> streamPool[d] \o streams[d]]
    BY <1>2 DEF GetFinished, streams
  <2>8. streamPool \in [Dirs -> Seq(Nat)] /\ numStreams \in Nat /\ PoolOK(streamPool, StreamsInUse, numStreams)
    BY DEF WorkerInv, TypeOK, PoolsExact
  <2> QED
    BY <2>7, <2>8, <2>6, PushOK
<1>9. bufferPool' \in [Dirs -> Seq(Nat)] /\ PoolOK(bufferPool', BuffersInUse', Len(capacity))
  <2>1. \A d \in Dirs : /\ buffers[d] = [i \in 1 .. n[d] |-> transfers[d][i].buffer]
                        /\ DOMAIN buffers[d] = 1 .. n[d] /\ buffers[d] \in Seq(Nat)
                        /\ \A i \in 1 .. n[d] : buffers[d][i] = transfers[d][i].buffer
    BY <1>1, <1>4, IsASeq, SMTT(60) DEF BuffersOf
  <2>2. buffers = [d \in Dirs |-> buffers[d]]
    OBVIOUS
  <2> HIDE DEF buffers
  <2>3. buffers \in [Dirs -> Seq(Nat)]
    BY <2>1, <2>2
  <2>4. \A d \in Dirs : \A i \in DOMAIN buffers[d] : buffers[d][i] \in BuffersInUse \ BuffersInUse'
    BY <1>4, <2>1, ZenonT(60)
  <2>5. ASSUME NEW d \in Dirs, NEW e \in Dirs, NEW i \in DOMAIN buffers[d], NEW k \in DOMAIN buffers[e],
               buffers[d][i] = buffers[e][k]
        PROVE  d = e /\ i = k
    <3>1. i \in 1 .. n[d] /\ k \in 1 .. n[e] /\ transfers[d][i].buffer = transfers[e][k].buffer
      BY <2>1, <2>5
    <3>2. (d # e \/ i # k) => Apart(transfers[d][i], transfers[e][k])
      BY <1>5, <3>1
    <3> QED
      BY <3>1, <3>2 DEF Apart
  <2>6. GivesBack(buffers, BuffersInUse, BuffersInUse')
    BY <1>7, <2>3, <2>4, <2>5 DEF GivesBack
  <2>7. bufferPool' = [d \in Dirs |-> bufferPool[d] \o buffers[d]]
    BY <1>2 DEF GetFinished, buffers
  <2>8. bufferPool \in [Dirs -> Seq(Nat)] /\ Len(capacity) \in Nat /\ PoolOK(bufferPool, BuffersInUse, Len(capacity))
    BY DEF WorkerInv, TypeOK, PoolsExact
  <2> QED
    BY <2>7, <2>8, <2>6, PushOK
<1>10. eventPool' \in [Dirs -> Seq(Nat)] /\ PoolOK(eventPool', EventsInUse', numEvents)
  <2> DEFINE half(i) == (i + 1) \div 2
  <2>1. ASSUME NEW d \in Dirs, NEW i \in 1 .. 2 * n[d]
        PROVE  /\ half(i) \in 1 .. n[d]
               /\ transfers[d][half(i)].end \in (EventsInUse \ EventsInUse') \cap Nat
               /\ transfers[d][half(i)].start \in (EventsInUse \ EventsInUse') \cap Nat
    <3>1. half(i) \in 1 .. n[d]
      BY <1>1, Halves
    <3> HIDE DEF half
    <3> QED
      BY <1>4, <3>1
  <2>2. \A d \in Dirs : /\ DOMAIN events[d] = 1 .. 2 * n[d]
                        /\ \A i \in 1 .. 2 * n[d] :
                             events[d][i] = IF i % 2 = 1 THEN transfers[d][half(i)].end ELSE transfers[d][half(i)].start
    BY DEF EventsOf
  <2>3. \A d \in Dirs : \A i \in 1 .. 2 * n[d] :
            /\ events[d][i] = IF i % 2 = 1 THEN transfers[d][half(i)].end ELSE transfers[d][half(i)].start
            /\ events[d][i] \in (EventsInUse \ EventsInUse') \cap Nat
    <3> HIDE DEF half, events
    <3> QED
      BY <2>1, <2>2
  <2> HIDE DEF half, events
  <2>4. \A d \in Dirs : events[d] \in Seq(Nat)
    <3>1. \A d \in Dirs : 2 * n[d] \in Nat
      BY <1>1
    <3>2. \A d \in Dirs : events[d] \in [1 .. 2 * n[d] -> Nat]
      <4>1. \A d \in Dirs : events[d] = [i \in 1 .. 2 * n[d] |-> events[d][i]]
        BY DEF events, EventsOf
      <4>2. \A d \in Dirs : \A i \in 1 .. 2 * n[d] : events[d][i] \in Nat
        BY <2>3
      <4> QED
        BY <4>1, <4>2
    <3> QED
      BY <3>1, <3>2, IsASeq
  <2>5. events \in [Dirs -> Seq(Nat)]
    BY <2>4 DEF events
  <2>6. \A d \in Dirs : \A i \in DOMAIN events[d] : events[d][i] \in EventsInUse \ EventsInUse'
    BY <2>2, <2>3
  <2>7. ASSUME NEW d \in Dirs, NEW e \in Dirs, NEW i \in DOMAIN events[d], NEW k \in DOMAIN events[e],
               events[d][i] = events[e][k]
        PROVE  d = e /\ i = k
    <3>1. i \in 1 .. 2 * n[d] /\ k \in 1 .. 2 * n[e] /\ half(i) \in 1 .. n[d] /\ half(k) \in 1 .. n[e]
      BY <2>1, <2>2
    <3>2. /\ events[d][i] = IF i % 2 = 1 THEN transfers[d][half(i)].end ELSE transfers[d][half(i)].start
          /\ events[e][k] = IF k % 2 = 1 THEN transfers[e][half(k)].end ELSE transfers[e][half(k)].start
      BY <2>3, <3>1
    <3>3. d = e /\ half(i) = half(k)
      <4>1. SUFFICES ASSUME d # e \/ half(i) # half(k) PROVE FALSE
        OBVIOUS
      <4>2. Apart(transfers[d][half(i)], transfers[e][half(k)])
        BY <1>5, <3>1, <4>1
      <4> QED
        BY <2>7, <3>2, <4>2 DEF Apart
    <3>4. transfers[d][half(i)].start # transfers[d][half(i)].end
      BY <1>4, <1>6, <3>1
    <3>5. i % 2 = 1 <=> k % 2 = 1
      BY <2>7, <3>2, <3>3, <3>4
    <3> QED
      BY <1>1, <3>1, <3>3, <3>5, Halves DEF half
  <2>8. GivesBack(events, EventsInUse, EventsInUse')
    BY <1>7, <2>5, <2>6, <2>7 DEF GivesBack
  <2>9. eventPool' = [d \in Dirs |-> eventPool[d] \o events[d]]
    BY <1>2 DEF GetFinished, events
  <2>10. eventPool \in [Dirs -> Seq(Nat)] /\ numEvents \in Nat /\ PoolOK(eventPool, EventsInUse, numEvents)
    BY DEF WorkerInv, TypeOK, PoolsExact
  <2> QED
    BY <2>9, <2>10, <2>8, PushOK
<1>11. TypeOK'
  BY <1>3, <1>8, <1>9, <1>10, RetiredKeepsOrder DEF WorkerInv, TypeOK, GetFinished, deviceVars
<1>12. PoolsExact'
  BY <1>8, <1>9, <1>10 DEF PoolsExact, GetFinished
<1> QED
  BY <1>3, <1>11, <1>12, RetiredInv DEF GetFinished, deviceVars

-------------------------------------------------------------------------------
(* The device executes the operation at the head of a stream.               *)

LEMMA HeadGone ==
  ASSUME NEW S, NEW o \in Seq(S), o # <<>>, NEW r, r = Tail(o)
  PROVE  /\ Len(o) \in Nat \ {0} /\ DOMAIN o = 1 .. Len(o)
         /\ o[1] = Head(o) /\ o[1] \in S
         /\ r \in Seq(S) /\ Len(r) = Len(o) - 1 /\ DOMAIN r = 1 .. Len(o) - 1
         /\ \A k \in 1 .. Len(o) - 1 : r[k] = o[k + 1]
         /\ \A k \in 2 .. Len(o) : k - 1 \in DOMAIN r /\ r[k - 1] = o[k]
         /\ r = <<>> <=> Len(o) = 1
<1>1. /\ Len(o) \in Nat \ {0} /\ DOMAIN o = 1 .. Len(o) /\ o[1] = Head(o) /\ o[1] \in S
      /\ r \in Seq(S) /\ Len(r) = Len(o) - 1 /\ DOMAIN r = 1 .. Len(o) - 1
      /\ \A k \in 1 .. Len(o) - 1 : r[k] = o[k + 1]
  OBVIOUS
<1>2. \A k \in 2 .. Len(o) : k - 1 \in 1 .. Len(o) - 1 /\ (k - 1) + 1 = k
  BY <1>1
<1>3. \A k \in 2 .. Len(o) : k - 1 \in DOMAIN r /\ r[k - 1] = o[k]
  BY <1>1, <1>2
<1>4. r = <<>> <=> Len(o) = 1
  <2>1. r = <<>> <=> Len(r) = 0
    BY <1>1, EmptySeq
  <2> QED
    BY <1>1, <2>1
<1> QED
  BY <1>1, <1>3, <1>4

(* The executed operation was enqueued for a transfer t in flight; r is     *)
(* what is left of its stream.  Only the start and the end event of t can   *)
(* complete.                                                                *)
HeadOf(t, s, o, op, r) ==
  /\ t \in InFlight /\ t.stream = s
  /\ o = ops[s] /\ o # <<>> /\ op = Head(o) /\ r = Tail(o)
  /\ ops'[s] = r /\ \A q \in Streams \ {s} : ops'[q] = ops[q]
  /\ Ready(op)
  /\ RestOfEnqueued(t) /\ EffectOfExecuted(t) /\ content[t.buffer] = t.job /\ t.start # t.end
  /\ \A e \in Events : completed'[e] = IF op.kind = "record" /\ op.event = e THEN op.ver ELSE completed[e]
  /\ op.kind = "record" => op.event \in {t.start, t.end}

LEMMA ExecuteIs ==
  ASSUME WorkerInv, NEW s \in Streams, Execute(s)
  PROVE  \E t, o, op, r : HeadOf(t, s, o, op, r)
<1>1. PICK t \in InFlight : t.stream = s
  BY DEF Execute, WorkerInv, UnusedAtRest, StreamsInUse
<1>2. PICK o, op, r : o = ops[s] /\ op = Head(o) /\ r = Tail(o)
  OBVIOUS
<1>3. o \in Seq(Op) /\ o # <<>> /\ ops \in [Streams -> Seq(Op)] /\ completed \in [Events -> Nat]
  BY <1>2 DEF Execute, WorkerInv, TypeOK
<1>4. ops'[s] = r /\ \A q \in Streams \ {s} : ops'[q] = ops[q]
  BY <1>2, <1>3 DEF Execute
<1>5. RestOfEnqueued(t) /\ EffectOfExecuted(t) /\ content[t.buffer] = t.job /\ t.start # t.end
  BY DEF WorkerInv, TransfersApart
<1>6. Ready(op) /\ completed' = IF op.kind = "record" THEN [completed EXCEPT ![op.event] = op.ver] ELSE completed
  BY <1>2 DEF Execute
<1>7. \A e \in Events : completed'[e] = IF op.kind = "record" /\ op.event = e THEN op.ver ELSE completed[e]
  BY <1>3, <1>6
<1>8. op.kind = "record" => op.event \in {t.start, t.end}
  <2>1. o[1] = op /\ 1 \in DOMAIN o
    BY <1>2, <1>3, HeadGone
  <2>2. \/ op = AfterSteps(fence[t.job]) \/ op.kind = "event"
        \/ op = Record(t.start, recorded[t.start]) \/ op = Copy(t.job, t.buffer)
        \/ op = Record(t.end, recorded[t.end])
    BY <1>1, <1>2, <1>5, <2>1 DEF RestOfEnqueued
  <2> QED
    BY <2>2 DEF AfterSteps, Record, Copy
<1>9. HeadOf(t, s, o, op, r)
  BY <1>1, <1>2, <1>3, <1>4, <1>5, <1>6, <1>7, <1>8 DEF HeadOf
<1> QED
  BY <1>9

LEMMA ExecuteTypes ==
  ASSUME WorkerInv, NEW s \in Streams, Execute(s)
  PROVE  TypeOK' /\ \A j \in Jobs : moved'[j] \in {0, j}
<1>1. PICK t, o, op, r : HeadOf(t, s, o, op, r)
  BY ExecuteIs
<1>2. /\ o \in Seq(Op) /\ op \in Op /\ r \in Seq(Op) /\ o[1] = op /\ 1 \in DOMAIN o
      /\ ops \in [Streams -> Seq(Op)] /\ t.job \in Jobs /\ op = Head(ops[s])
  <2>1. ops \in [Streams -> Seq(Op)] /\ o = ops[s] /\ o # <<>> /\ r = Tail(o) /\ op = Head(o)
    BY <1>1 DEF HeadOf, WorkerInv, TypeOK
  <2>2. t \in InFlight
    BY <1>1 DEF HeadOf
  <2>3. t.job \in Jobs
    BY <2>2, Types DEF WorkerInv
  <2>4. o \in Seq(Op)
    BY <2>1
  <2> QED
    BY <2>1, <2>3, <2>4, HeadGone
<1>3. ops' \in [Streams -> Seq(Op)]
  BY <1>1, <1>2 DEF HeadOf, Execute
<1>4. completed' \in [Events -> Nat]
  <2>1. completed \in [Events -> Nat]
    BY DEF WorkerInv, TypeOK
  <2>2. CASE op.kind = "record"
    <3>1. op.ver \in Nat
      BY <1>2, <2>2 DEF Op
    <3>2. completed' = [completed EXCEPT ![op.event] = op.ver]
      BY <1>2, <2>2 DEF Execute
    <3> QED
      BY <2>1, <3>1, <3>2
  <2>3. CASE op.kind # "record"
    BY <1>2, <2>1, <2>3 DEF Execute
  <2> QED
    BY <2>2, <2>3
<1>5. moved' \in [Jobs -> Nat] /\ \A j \in Jobs : moved'[j] \in {0, j}
  <2>1. moved \in [Jobs -> Nat] /\ \A j \in Jobs : moved[j] \in {0, j}
    BY DEF WorkerInv, TypeOK, CopiesAhead
  <2>2. CASE op.kind = "copy"
    <3>1. op = Copy(t.job, t.buffer)
      BY <1>1, <1>2, <2>2 DEF HeadOf, RestOfEnqueued, Record, AfterSteps
    <3>2. content[op.buffer] = t.job /\ op.job = t.job
      BY <1>1, <3>1 DEF HeadOf, Copy
    <3>3. moved' = [moved EXCEPT ![t.job] = t.job]
      BY <1>2, <2>2, <3>2 DEF Execute
    <3> QED
      BY <1>2, <2>1, <3>3
  <2>3. CASE op.kind # "copy"
    <3>1. moved' = moved
      BY <1>2, <2>3 DEF Execute
    <3> QED
      BY <2>1, <3>1
  <2> QED
    BY <2>2, <2>3
<1>6. UNCHANGED <<host, waitFor, submitted, handlerVars, numStreams, numEvents, capacity, content,
                  recorded, enqueued, fence, over>>
  BY DEF Execute
<1> QED
  BY <1>3, <1>4, <1>5, <1>6 DEF WorkerInv, TypeOK, handlerVars

(* The transfer whose operation was executed.                               *)
LEMMA ExecuteOwn ==
  ASSUME WorkerInv, NEW s \in Streams, Execute(s),
         NEW t, NEW o, NEW op, NEW r, HeadOf(t, s, o, op, r)
  PROVE  /\ (RestOfEnqueued(t) /\ EffectOfExecuted(t) /\ content[t.buffer] = t.job)'
         /\ StreamHas(t, t.start)' => StreamHas(t, t.start)
         /\ StreamHas(t, t.start) /\ ~StreamHas(t, t.start)' =>
                op = Record(t.start, recorded[t.start]) /\ \A k \in DOMAIN o : o[k].kind \notin {"steps", "event"}
         /\ \A k \in DOMAIN o : o[k].kind = "event" => (k - 1 \in DOMAIN r /\ r[k - 1] = o[k]) \/ o[k] = op
<1> DEFINE L == Len(o)
<1>1. /\ t \in InFlight /\ t.stream = s /\ s \in Streams /\ o = ops[s] /\ r = ops'[s] /\ Ready(op)
      /\ t.start # t.end /\ t.start \in Events /\ t.end \in Events /\ content[t.buffer] = t.job
      /\ UNCHANGED <<content, recorded, fence, over>>
  BY Types DEF HeadOf, Execute, WorkerInv
<1>2. o \in Seq(Op) /\ o # <<>> /\ op = Head(o) /\ r = Tail(o)
  BY DEF HeadOf, WorkerInv, TypeOK
<1>3. /\ L \in Nat \ {0} /\ DOMAIN o = 1 .. L /\ o[1] = op /\ op \in Op
      /\ Len(r) = L - 1 /\ DOMAIN r = 1 .. L - 1
      /\ \A k \in 1 .. L - 1 : r[k] = o[k + 1]
      /\ \A k \in 2 .. L : k - 1 \in DOMAIN r /\ r[k - 1] = o[k]
      /\ r = <<>> <=> L = 1
  BY <1>2, HeadGone, SMTT(60)
<1> HIDE DEF L

(* What RestOfEnqueued says, in terms of o.                                 *)
<1> DEFINE has == \E k \in 1 .. L : o[k].kind = "record" /\ o[k].event = t.start
           left == \E k \in 1 .. L - 1 : r[k].kind = "record" /\ r[k].event = t.start
<1>4. (StreamHas(t, t.start) <=> has) /\ (StreamHas(t, t.start)' <=> left)
  <2>1. ops[t.stream] = o /\ ops'[t.stream] = r /\ DOMAIN o = 1 .. L /\ DOMAIN r = 1 .. L - 1
    BY <1>1, <1>3
  <2>2. \A x : /\ StreamHas(t, x) <=> \E k \in 1 .. L : o[k].kind = "record" /\ o[k].event = x
               /\ StreamHas(t, x)' <=> \E k \in 1 .. L - 1 : r[k].kind = "record" /\ r[k].event = x
    BY <2>1, Zenon DEF StreamHas
  <2> QED
    BY <2>2
<1>5. RestOfEnqueued(t) /\ ops[t.stream] = o /\ DOMAIN o = 1 .. L /\ t.job \in Jobs
  BY <1>1, <1>3, Types DEF HeadOf, WorkerInv
<1>6. \A k \in 1 .. L :
        \/ (o[k] = AfterSteps(fence[t.job]) \/ o[k].kind = "event") /\ has
        \/ o[k] \in {Record(t.start, recorded[t.start]), Copy(t.job, t.buffer)}
        \/ o[k] = Record(t.end, recorded[t.end]) /\ k = L
  BY <1>4, <1>5, ZenonT(60) DEF RestOfEnqueued, L
<1>7. \A k, l \in 1 .. L : k < l =>
        /\ o[l].kind # "steps"
        /\ o[l].kind = "event" => o[k].kind = "steps"
        /\ o[l].kind = "record" /\ o[l].event = t.start => o[k].kind \in {"steps", "event"}
  BY <1>5 DEF RestOfEnqueued
<1>8. o[L] = Record(t.end, recorded[t.end])
  BY <1>2, <1>5 DEF RestOfEnqueued, L
<1> HIDE DEF has, left
<1>9. left => has
  <2>1. ASSUME NEW k \in 1 .. L - 1, r[k].kind = "record", r[k].event = t.start PROVE has
    <3>1. k + 1 \in 1 .. L /\ r[k] = o[k + 1]
      BY <1>3
    <3> QED
      BY <2>1, <3>1 DEF has
  <2> QED
    BY <2>1 DEF left
<1>10. has => left \/ op = Record(t.start, recorded[t.start])
  <2>1. ASSUME NEW k \in 1 .. L, o[k].kind = "record", o[k].event = t.start
        PROVE  left \/ op = Record(t.start, recorded[t.start])
    <3>1. CASE k = 1
      <4>1. o[k] = Record(t.start, recorded[t.start])
        BY <1>1, <1>6, <2>1 DEF AfterSteps, Record, Copy
      <4> QED
        BY <1>3, <3>1, <4>1
    <3>2. CASE k # 1
      <4>1. k \in 2 .. L
        BY <3>2
      <4>2. k - 1 \in 1 .. L - 1 /\ r[k - 1] = o[k]
        BY <1>3, <4>1
      <4> QED
        BY <2>1, <4>2 DEF left
    <3> QED
      BY <3>1, <3>2
  <2> QED
    BY <2>1 DEF has
<1>11. op = Record(t.start, recorded[t.start]) => \A k \in 1 .. L : o[k].kind \notin {"steps", "event"}
  <2> SUFFICES ASSUME op = Record(t.start, recorded[t.start]), NEW k \in 1 .. L
               PROVE  o[k].kind \notin {"steps", "event"}
    OBVIOUS
  <2>1. o[1].kind = "record" /\ 1 \in 1 .. L
    BY <1>3 DEF Record
  <2>2. CASE k = 1
    BY <2>1, <2>2
  <2>3. CASE k # 1
    <3>1. 1 < k
      BY <2>3
    <3> QED
      BY <1>7, <2>1, <3>1
  <2> QED
    BY <2>2, <2>3
<1>12. RestOfEnqueued(t)'
  <2>1. ASSUME NEW k \in 1 .. L - 1
        PROVE  \/ (r[k] = AfterSteps(fence[t.job]) \/ r[k].kind = "event") /\ left
               \/ r[k] \in {Record(t.start, recorded[t.start]), Copy(t.job, t.buffer)}
               \/ r[k] = Record(t.end, recorded[t.end]) /\ k = L - 1
    <3>1. k + 1 \in 1 .. L /\ r[k] = o[k + 1] /\ (k + 1 = L => k = L - 1)
      BY <1>3
    <3>2. CASE (o[k + 1] = AfterSteps(fence[t.job]) \/ o[k + 1].kind = "event") /\ has
      <4>1. o[k + 1].kind \in {"steps", "event"}
        BY <3>2 DEF AfterSteps
      <4>2. left
        BY <1>10, <1>11, <3>1, <3>2, <4>1
      <4> QED
        BY <3>1, <3>2, <4>2
    <3> QED
      BY <1>6, <3>1, <3>2
  <2>2. ASSUME NEW k \in 1 .. L - 1, NEW l \in 1 .. L - 1, k < l
        PROVE  /\ r[l].kind # "steps"
               /\ r[l].kind = "event" => r[k].kind = "steps"
               /\ r[l].kind = "record" /\ r[l].event = t.start => r[k].kind \in {"steps", "event"}
    <3>1. k + 1 \in 1 .. L /\ l + 1 \in 1 .. L /\ k + 1 < l + 1 /\ r[k] = o[k + 1] /\ r[l] = o[l + 1]
      BY <1>3, <2>2
    <3> QED
      BY <1>7, <3>1
  <2>3. r # <<>> => r[Len(r)] = Record(t.end, recorded[t.end])
    <3>1. SUFFICES ASSUME L # 1 PROVE r[L - 1] = Record(t.end, recorded[t.end])
      BY <1>3
    <3>2. L \in 2 .. L
      BY <1>3, <3>1
    <3> QED
      BY <1>3, <1>8, <3>2
  <2>4. /\ ops'[t.stream] = r /\ DOMAIN r = 1 .. L - 1 /\ fence' = fence /\ recorded' = recorded
        /\ StreamHas(t, t.start)' <=> left
    BY <1>1, <1>3, <1>4
  <2> QED
    BY <2>1, <2>2, <2>3, <2>4 DEF RestOfEnqueued
<1>13. (\E k \in DOMAIN r : r[k].kind = "steps") \/ fence[t.job] <= over
  <2>1. CASE \E k \in DOMAIN o : o[k].kind = "steps"
    <3>1. PICK k \in 1 .. L : o[k].kind = "steps"
      BY <1>3, <2>1
    <3>2. k = 1
      <4>1. 1 \in 1 .. L
        BY <1>3
      <4> QED
        BY <1>7, <3>1, <4>1
    <3>3. op = AfterSteps(fence[t.job])
      BY <1>3, <1>6, <3>1, <3>2 DEF Record, Copy
    <3>4. over >= fence[t.job]
      BY <1>1, <3>3 DEF Ready, AfterSteps
    <3>5. fence[t.job] \in Nat /\ over \in Nat
      BY <1>5 DEF WorkerInv, TypeOK
    <3> QED
      BY <3>4, <3>5
  <2>2. CASE ~\E k \in DOMAIN o : o[k].kind = "steps"
    BY <1>1, <2>2 DEF EffectOfExecuted, HeadOf
  <2> QED
    BY <2>1, <2>2
<1>14. left \/ completed'[t.start] = recorded[t.start]
  <2>1. CASE op = Record(t.start, recorded[t.start])
    BY <1>1, <2>1 DEF HeadOf, Record
  <2>2. CASE op # Record(t.start, recorded[t.start]) /\ ~left
    <3>1. ~has /\ completed[t.start] = recorded[t.start]
      BY <1>1, <1>4, <1>10, <2>2 DEF HeadOf, EffectOfExecuted
    <3>2. ~(op.kind = "record" /\ op.event = t.start)
      BY <1>3, <3>1 DEF has
    <3> QED
      BY <1>1, <3>1, <3>2 DEF HeadOf
  <2> QED
    BY <2>1, <2>2
<1>15. IF r = <<>> THEN completed'[t.end] = recorded[t.end] ELSE completed'[t.end] < recorded[t.end]
  <2>1. completed[t.end] < recorded[t.end]
    BY <1>1, <1>2 DEF HeadOf, EffectOfExecuted
  <2>2. CASE L = 1
    <3>1. op = Record(t.end, recorded[t.end])
      BY <1>3, <1>8, <2>2
    <3> QED
      BY <1>1, <1>3, <2>2, <3>1 DEF HeadOf, Record
  <2>3. CASE L # 1
    <3>1. 1 \in 1 .. L
      BY <1>3
    <3>2. \/ op = AfterSteps(fence[t.job]) \/ op.kind = "event"
          \/ op = Record(t.start, recorded[t.start]) \/ op = Copy(t.job, t.buffer)
      BY <1>3, <1>6, <2>3, <3>1
    <3>3. ~(op.kind = "record" /\ op.event = t.end)
      BY <1>1, <3>2 DEF Record, Copy, AfterSteps
    <3> QED
      BY <1>1, <1>3, <2>1, <2>3, <3>3 DEF HeadOf
  <2> QED
    BY <2>2, <2>3
<1>16. EffectOfExecuted(t)'
  BY <1>1, <1>4, <1>13, <1>14, <1>15 DEF EffectOfExecuted
<1>17. \A k \in DOMAIN o : o[k].kind = "event" => (k - 1 \in DOMAIN r /\ r[k - 1] = o[k]) \/ o[k] = op
  <2> SUFFICES ASSUME NEW k \in 1 .. L PROVE (k - 1 \in DOMAIN r /\ r[k - 1] = o[k]) \/ o[k] = op
    BY <1>3
  <2>1. CASE k = 1
    BY <1>3, <2>1
  <2>2. CASE k # 1
    <3>1. k \in 2 .. L
      BY <2>2
    <3> QED
      BY <1>3, <3>1
  <2> QED
    BY <2>1, <2>2
<1>18. op = Record(t.start, recorded[t.start]) => \A k \in DOMAIN o : o[k].kind \notin {"steps", "event"}
  BY <1>3, <1>11
<1> QED
  BY <1>1, <1>4, <1>9, <1>10, <1>12, <1>16, <1>17, <1>18

(* The others: nothing of theirs changes.                                   *)
LEMMA ExecuteOthers ==
  ASSUME WorkerInv, NEW s \in Streams, Execute(s),
         NEW t, NEW o, NEW op, NEW r, HeadOf(t, s, o, op, r),
         NEW u \in InFlight, u # t
  PROVE  /\ ops'[u.stream] = ops[u.stream]
         /\ StreamHas(u, u.start)' <=> StreamHas(u, u.start)
         /\ (RestOfEnqueued(u) /\ EffectOfExecuted(u) /\ content[u.buffer] = u.job)'
<1>1. RestOfEnqueued(u) /\ EffectOfExecuted(u) /\ content[u.buffer] = u.job
  BY DEF WorkerInv
<1>2. Apart(u, t) /\ t.stream = s
  BY ApartInFlight DEF WorkerInv, HeadOf
<1>3. u.stream \in Streams \ {s} /\ u.start \in Events /\ u.end \in Events
  BY <1>2, Types DEF WorkerInv, Apart
<1>4. ops'[u.stream] = ops[u.stream]
  BY <1>3 DEF HeadOf
<1>5. completed'[u.start] = completed[u.start] /\ completed'[u.end] = completed[u.end]
  BY <1>2, <1>3 DEF HeadOf, Apart
<1>6. UNCHANGED <<content, recorded, fence, over>>
  BY DEF Execute
<1>7. \A e : StreamHas(u, e)' <=> StreamHas(u, e)
  BY <1>4 DEF StreamHas
<1>8. RestOfEnqueued(u)'
  BY <1>1, <1>4, <1>6, <1>7 DEF RestOfEnqueued
<1>9. EffectOfExecuted(u)'
  BY <1>1, <1>4, <1>5, <1>6, <1>7 DEF EffectOfExecuted
<1> QED
  BY <1>1, <1>4, <1>6, <1>7, <1>8, <1>9

(* A copy is executed, or still ahead.                                      *)
LEMMA ExecuteAhead ==
  ASSUME WorkerInv, NEW s \in Streams, Execute(s)
  PROVE  CopiesAhead'
<1>1. PICK t, o, op, r : HeadOf(t, s, o, op, r)
  BY ExecuteIs
<1>2. /\ t \in InFlight /\ t.job \in Jobs /\ o \in Seq(Op) /\ o # <<>> /\ o = ops[s] /\ s = t.stream
      /\ op = Head(ops[s]) /\ r = Tail(o) /\ ops'[s] = r /\ op = Head(o)
  BY <1>1, Types DEF HeadOf, WorkerInv, TypeOK
<1>3. /\ Len(o) \in Nat /\ DOMAIN o = 1 .. Len(o) /\ o[1] = op /\ 1 \in DOMAIN o
      /\ \A k \in 2 .. Len(o) : k - 1 \in DOMAIN r /\ r[k - 1] = o[k]
  BY <1>2, HeadGone, SMTT(60)
<1>4. UNCHANGED <<submitted, transfers>> /\ InFlight' = InFlight
  BY DEF Execute, handlerVars, InFlight
<1>5. \A j \in Jobs : moved'[j] = IF op.kind = "copy" /\ j = t.job THEN j ELSE moved[j]
  <2>1. moved \in [Jobs -> Nat]
    BY DEF WorkerInv, TypeOK
  <2>2. CASE op.kind = "copy"
    <3>1. op = Copy(t.job, t.buffer)
      BY <1>1, <1>2, <1>3, <2>2 DEF HeadOf, RestOfEnqueued, Record, AfterSteps
    <3>2. content[op.buffer] = t.job /\ op.job = t.job
      BY <1>1, <3>1 DEF HeadOf, Copy
    <3>3. moved' = [moved EXCEPT ![t.job] = t.job]
      BY <1>2, <2>2, <3>2 DEF Execute
    <3> QED
      BY <1>2, <2>1, <2>2, <3>3
  <2>3. CASE op.kind # "copy"
    BY <1>2, <2>3 DEF Execute
  <2> QED
    BY <2>2, <2>3
<1>6. submitted \in 0 .. NumJobs /\ NumJobs \in Nat /\ CopiesAhead
  BY OffloadAssumption DEF WorkerInv, TypeOK, OffloadAssumption
<1>7. ASSUME NEW j \in 1 .. submitted, moved'[j] # j
      PROVE  \E u \in InFlight : u.job = j /\ \E k \in DOMAIN ops'[u.stream] : ops'[u.stream][k] = Copy(j, u.buffer)
  <2>1. j \in Jobs
    BY <1>6 DEF Jobs
  <2>2. moved[j] # j /\ ~(op.kind = "copy" /\ j = t.job)
    BY <1>5, <1>7, <2>1
  <2>3. PICK u \in InFlight : u.job = j /\ \E k \in DOMAIN ops[u.stream] : ops[u.stream][k] = Copy(j, u.buffer)
    BY <1>6, <2>2 DEF CopiesAhead
  <2>4. PICK k \in DOMAIN ops[u.stream] : ops[u.stream][k] = Copy(j, u.buffer)
    BY <2>3
  <2>5. CASE u = t
    <3>1. k \in 1 .. Len(o) /\ o[k] = Copy(j, u.buffer)
      BY <1>2, <1>3, <2>4, <2>5
    <3>2. k # 1
      BY <1>3, <2>2, <2>3, <2>5, <3>1 DEF Copy
    <3>3. k \in 2 .. Len(o)
      BY <1>3, <3>1, <3>2
    <3> QED
      BY <1>2, <1>3, <2>3, <2>5, <3>1, <3>3, ZenonT(60)
  <2>6. CASE u # t
    <3>1. ops'[u.stream] = ops[u.stream]
      BY <1>1, <2>6, ExecuteOthers
    <3> QED
      BY <2>3, <2>4, <3>1
  <2> QED
    BY <2>5, <2>6
<1>8. \A j \in Jobs : moved'[j] \in {0, j}
  BY ExecuteTypes
<1> QED
  BY <1>4, <1>7, <1>8 DEF CopiesAhead

LEMMA ExecuteChained ==
  ASSUME WorkerInv, NEW s \in Streams, Execute(s), NEW d \in Dirs, NEW i \in 2 .. Len(transfers[d])
  PROVE  Chained(d, i)'
<1>1. PICK t, o, op, r : HeadOf(t, s, o, op, r)
  BY ExecuteIs
<1>2. PICK v, u : v = transfers[d][i] /\ u = transfers[d][i - 1]
  OBVIOUS
<1>3. UNCHANGED <<transfers, recorded>>
  BY DEF Execute, handlerVars
<1>4. /\ i \in Int /\ i - 1 \in 1 .. i - 1 /\ i - 1 \in DOMAIN transfers[d] /\ i \in DOMAIN transfers[d]
      /\ \A k \in 1 .. i - 1 : k \in DOMAIN transfers[d] /\ k # i
  <2>1. Len(transfers[d]) \in Nat /\ DOMAIN transfers[d] = 1 .. Len(transfers[d])
    BY Types DEF WorkerInv
  <2> DEFINE L == Len(transfers[d])
  <2>2. L \in Nat /\ i \in 2 .. L
    BY <2>1
  <2> HIDE DEF L
  <2>3. i \in Int /\ i - 1 \in 1 .. i - 1 /\ i - 1 \in 1 .. L /\ i \in 1 .. L /\ \A k \in 1 .. i - 1 : k \in 1 .. L /\ k # i
    BY <2>2
  <2> QED
    BY <2>1, <2>3 DEF L
<1>5. /\ v \in InFlight /\ u \in InFlight /\ Apart(v, u)
      /\ \A k \in 1 .. i - 1 : transfers[d][k] \in InFlight /\ Apart(v, transfers[d][k])
  <2>1. \A k \in 1 .. i - 1 : transfers[d][k] \in InFlight /\ Apart(v, transfers[d][k])
    BY <1>2, <1>4, InFlightIs, SMTT(60) DEF WorkerInv, TransfersApart
  <2>2. v \in InFlight
    BY <1>2, <1>4, InFlightIs
  <2> QED
    BY <1>2, <1>4, <2>1, <2>2
<1>6. /\ ops[u.stream] # <<>> =>
            \E k \in DOMAIN ops[v.stream] : /\ ops[v.stream][k].kind = "event" /\ ops[v.stream][k].event = u.end
                                            /\ ops[v.stream][k].ver = recorded[u.end]
      /\ StreamHas(v, v.start) \/ \A k \in 1 .. i - 1 : ops[transfers[d][k].stream] = <<>>
  <2>1. Chained(d, i)
    BY DEF WorkerInv
  <2> QED
    BY <1>2, <2>1 DEF Chained
<1>7. \A w \in InFlight : ops'[w.stream] # <<>> => ops[w.stream] # <<>>
  <2> SUFFICES ASSUME NEW w \in InFlight, ops'[w.stream] # <<>> PROVE ops[w.stream] # <<>>
    OBVIOUS
  <2>1. CASE w = t
    BY <1>1, <2>1 DEF HeadOf
  <2>2. CASE w # t
    BY <1>1, <2>2, ExecuteOthers
  <2> QED
    BY <2>1, <2>2

(* Before v has started, the one before it has ended and so have all.       *)
<1>8. ops[u.stream] = <<>> => \A k \in 1 .. i - 1 : ops[transfers[d][k].stream] = <<>>
  <2> SUFFICES ASSUME ops[u.stream] = <<>>, NEW k \in 1 .. i - 1 PROVE ops[transfers[d][k].stream] = <<>>
    OBVIOUS
  <2>1. CASE k = i - 1
    BY <1>2, <2>1
  <2>2. CASE k # i - 1
    <3>1. i - 1 \in 2 .. Len(transfers[d]) /\ k \in 1 .. (i - 1) - 1
      BY <2>2, Types DEF WorkerInv
    <3>2. Chained(d, i - 1)
      BY <3>1 DEF WorkerInv
    <3>3. u.stream \in Streams /\ ~StreamHas(u, u.start)
      BY <1>5, Types DEF StreamHas, WorkerInv
    <3>4. \A l \in 1 .. (i - 1) - 1 : ops[transfers[d][l].stream] = <<>>
      BY <1>2, <3>2, <3>3 DEF Chained
    <3> QED
      BY <3>1, <3>4
  <2> QED
    BY <2>1, <2>2
<1>9. CASE v = t
  <2>1. o = ops[v.stream] /\ r = ops'[v.stream]
    BY <1>1, <1>9 DEF HeadOf
  <2>2. ops'[u.stream] # <<>> =>
            \E k \in DOMAIN r : r[k].kind = "event" /\ r[k].event = u.end /\ r[k].ver = recorded[u.end]
    <3>1. SUFFICES ASSUME ops'[u.stream] # <<>>
                   PROVE \E k \in DOMAIN r : r[k].kind = "event" /\ r[k].event = u.end /\ r[k].ver = recorded[u.end]
      OBVIOUS
    <3>2. PICK k \in DOMAIN o : o[k].kind = "event" /\ o[k].event = u.end /\ o[k].ver = recorded[u.end]
      BY <1>5, <1>6, <1>7, <2>1, <3>1
    <3>3. o[k] # op
      <4>1. completed[u.end] < recorded[u.end]
        BY <1>5, <1>7, <3>1 DEF WorkerInv, EffectOfExecuted
      <4>2. completed[u.end] \in Nat /\ recorded[u.end] \in Nat
        <5>1. u.end \in Events
          BY <1>5, Types DEF WorkerInv
        <5> QED
          BY <5>1 DEF WorkerInv, TypeOK
      <4>3. Ready(op)
        BY <1>1 DEF HeadOf
      <4> QED
        BY <3>2, <4>1, <4>2, <4>3 DEF Ready
    <3>4. k - 1 \in DOMAIN r /\ r[k - 1] = o[k]
      BY <1>1, <3>2, <3>3, ExecuteOwn
    <3> QED
      BY <3>2, <3>4
  <2>3. StreamHas(v, v.start)' \/ \A k \in 1 .. i - 1 : ops'[transfers[d][k].stream] = <<>>
    <3>1. SUFFICES ASSUME ~StreamHas(v, v.start)' PROVE \A k \in 1 .. i - 1 : ops[transfers[d][k].stream] = <<>>
      BY <1>5, <1>7
    <3>2. CASE StreamHas(v, v.start)
      <4>1. \A k \in DOMAIN o : o[k].kind # "event"
        BY <1>1, <1>9, <3>1, <3>2, ExecuteOwn
      <4>2. ops[u.stream] = <<>>
        BY <1>6, <2>1, <4>1
      <4> QED
        BY <1>8, <4>2
    <3>3. CASE ~StreamHas(v, v.start)
      BY <1>6, <3>3, SMTT(60)
    <3> QED
      BY <3>2, <3>3
  <2> QED
    BY <1>2, <1>3, <2>1, <2>2, <2>3 DEF Chained
<1>10. CASE v # t
  <2>1. /\ ops'[v.stream] = ops[v.stream]
        /\ StreamHas(v, v.start)' <=> StreamHas(v, v.start)
    BY <1>1, <1>5, <1>10, ExecuteOthers
  <2>2. StreamHas(v, v.start)' \/ \A k \in 1 .. i - 1 : ops'[transfers[d][k].stream] = <<>>
    BY <1>5, <1>6, <1>7, <2>1
  <2>3. ops'[u.stream] # <<>> =>
            \E k \in DOMAIN ops'[v.stream] : /\ ops'[v.stream][k].kind = "event" /\ ops'[v.stream][k].event = u.end
                                             /\ ops'[v.stream][k].ver = recorded[u.end]
    BY <1>5, <1>6, <1>7, <2>1
  <2> QED
    BY <1>2, <1>3, <2>2, <2>3 DEF Chained
<1> QED
  BY <1>9, <1>10

LEMMA ExecuteInv == WorkerInv /\ (\E s \in Streams : Execute(s)) => WorkerInv'
<1> SUFFICES ASSUME WorkerInv, NEW s \in Streams, Execute(s) PROVE WorkerInv'
  OBVIOUS
<1>1. PICK t, o, op, r : HeadOf(t, s, o, op, r)
  BY ExecuteIs
<1>2. UNCHANGED <<submitted, transfers, streamPool, eventPool, bufferPool, numStreams, numEvents, capacity, recorded>>
  BY DEF Execute, handlerVars
<1>3. InFlight' = InFlight /\ StreamsInUse' = StreamsInUse /\ EventsInUse' = EventsInUse /\ BuffersInUse' = BuffersInUse
  BY <1>2 DEF InFlight, StreamsInUse, EventsInUse, BuffersInUse
<1>4. TypeOK' /\ CopiesAhead'
  BY ExecuteTypes, ExecuteAhead
<1>5. PoolsExact' /\ TransfersApart'
  BY <1>2, <1>3 DEF WorkerInv, PoolsExact, PoolOK, TransfersApart
<1>6. UnusedAtRest'
  <2>1. t \in InFlight /\ s \in StreamsInUse /\ t.start \in EventsInUse /\ t.end \in EventsInUse
    BY <1>1 DEF HeadOf, StreamsInUse, EventsInUse
  <2>2. \A q \in Streams \ StreamsInUse : ops'[q] = <<>>
    BY <1>1, <2>1 DEF HeadOf, WorkerInv, UnusedAtRest
  <2>3. \A e \in Events \ EventsInUse : completed'[e] = recorded[e]
    BY <1>1, <2>1 DEF HeadOf, WorkerInv, UnusedAtRest
  <2> QED
    BY <1>2, <1>3, <2>2, <2>3 DEF UnusedAtRest
<1>7. \A u \in InFlight : (RestOfEnqueued(u) /\ EffectOfExecuted(u) /\ content[u.buffer] = u.job)'
  BY <1>1, ExecuteOwn, ExecuteOthers
<1>8. \A d \in Dirs : \A i \in 2 .. Len(transfers'[d]) : Chained(d, i)'
  BY <1>2, ExecuteChained
<1> QED
  BY <1>3, <1>4, <1>5, <1>6, <1>7, <1>8 DEF WorkerInv

-------------------------------------------------------------------------------
(* transfer_async.                                                          *)

LEMMA AddLast ==
  ASSUME NEW S, NEW p \in Seq(S), NEW x \in S, NEW q, q = p \o <<x>>
  PROVE  /\ q \in Seq(S) /\ Len(p) \in Nat /\ Len(q) = Len(p) + 1
         /\ \A k \in 1 .. Len(p) : q[k] = p[k]
         /\ q[Len(q)] = x
OBVIOUS

(* The operations of a transfer, m of them up to the record of its start.   *)
Shape(d, n, j, b, start, end, o, m) ==
  LET last == transfers[d][Len(transfers[d])].end IN
  /\ o \in Seq(Op) /\ DOMAIN o = 1 .. Len(o)
  /\ m \in {2, 3} /\ Len(o) \in {m + 1, m + 2} /\ (n > 0 => Len(o) = m + 2)
  /\ m = 3 <=> transfers[d] # <<>>
  /\ o[1] = AfterSteps(enqueued)
  /\ m = 3 => o[2] = AfterEvent(last, recorded[last])
  /\ o[m] = Record(start, recorded[start] + 1)
  /\ Len(o) = m + 2 => o[m + 1] = Copy(j, b)
  /\ o[Len(o)] = Record(end, recorded[end] + 1)

LEMMA EnqueuedIs ==
  ASSUME WorkerInv, NEW d \in Dirs, NEW n \in Nat, NEW j \in Jobs, NEW b \in Nat,
         NEW start \in Events, NEW end \in Events,
         NEW o, o = Enqueued(d, j, n, b, start, end)
  PROVE  \E m : Shape(d, n, j, b, start, end, o, m)
<1> DEFINE last == transfers[d][Len(transfers[d])].end
           x1 == AfterSteps(enqueued)
           x2 == AfterEvent(last, recorded[last])
           x3 == Record(start, recorded[start] + 1)
           x4 == Copy(j, b)
           x5 == Record(end, recorded[end] + 1)
           c2 == transfers[d] # <<>>
           c4 == n > 0
           o1 == <<x1>>
           o2 == o1 \o (IF c2 THEN <<x2>> ELSE <<>>)
           o3 == o2 \o <<x3>>
           o4 == o3 \o (IF c4 THEN <<x4>> ELSE <<>>)
           o5 == o4 \o <<x5>>
<1>1. o = o5
  BY DEF Enqueued
<1>2. recorded \in [Events -> Nat] /\ enqueued \in Nat
  BY DEF WorkerInv, TypeOK
<1>3. x1 \in Op /\ x3 \in Op /\ x4 \in Op /\ x5 \in Op
  BY <1>2, SMTT(60) DEF Op, AfterSteps, Record, Copy
<1>4. c2 => x2 \in Op
  <2> SUFFICES ASSUME c2 PROVE x2 \in Op
    OBVIOUS
  <2>1. Len(transfers[d]) \in DOMAIN transfers[d]
    BY Types DEF WorkerInv
  <2>2. last \in Events
    BY <2>1, InFlightIs, Types DEF WorkerInv
  <2> HIDE DEF last
  <2> QED
    BY <1>2, <2>2 DEF Op, AfterEvent
<1>5. o1 \in Seq(Op) /\ Len(o1) = 1 /\ o1[1] = x1
  BY <1>3
<1> HIDE DEF x1, x2, x3, x4, x5, last, o1
<1>6. /\ o2 \in Seq(Op) /\ Len(o2) = IF c2 THEN 2 ELSE 1
      /\ o2[1] = x1 /\ (c2 => o2[2] = x2)
  <2>1. CASE c2
    <3>1. o2 = o1 \o <<x2>> /\ x2 \in Op
      BY <1>4, <2>1
    <3> HIDE DEF c2, o2
    <3>2. /\ o2 \in Seq(Op) /\ Len(o2) = Len(o1) + 1
          /\ \A k \in 1 .. Len(o1) : o2[k] = o1[k]
          /\ o2[Len(o2)] = x2
      BY <1>5, <3>1, AddLast, SMTT(60)
    <3> QED
      BY <1>5, <2>1, <3>2
  <2>2. CASE ~c2
    <3>1. o2 = o1
      BY <1>5, <2>2
    <3> QED
      BY <1>5, <2>2, <3>1
  <2> QED
    BY <2>1, <2>2
<1> HIDE DEF o2, c2, c4
<1>7. o3 = o2 \o <<x3>>
  OBVIOUS
<1> HIDE DEF o3
<1>8. o2 \in Seq(Op) /\ x3 \in Op
  BY <1>3, <1>6
<1>9. /\ o3 \in Seq(Op) /\ Len(o3) = Len(o2) + 1
      /\ \A k \in 1 .. Len(o2) : o3[k] = o2[k]
      /\ o3[Len(o3)] = x3
  BY <1>7, <1>8, AddLast
<1>10. /\ o4 \in Seq(Op) /\ Len(o4) = IF c4 THEN Len(o3) + 1 ELSE Len(o3)
       /\ \A k \in 1 .. Len(o3) : o4[k] = o3[k]
       /\ c4 => o4[Len(o4)] = x4
  <2>1. CASE c4
    <3>1. o4 = o3 \o <<x4>>
      BY <2>1
    <3> HIDE DEF o4
    <3> QED
      BY <1>3, <1>9, <2>1, <3>1, AddLast
  <2>2. CASE ~c4
    <3>1. o4 = o3
      BY <1>9, <2>2
    <3> QED
      BY <1>9, <2>2, <3>1
  <2> QED
    BY <2>1, <2>2
<1> HIDE DEF o4
<1>11. /\ o5 \in Seq(Op) /\ Len(o5) = Len(o4) + 1
       /\ \A k \in 1 .. Len(o4) : o5[k] = o4[k]
       /\ o5[Len(o5)] = x5
  BY <1>3, <1>10, AddLast
<1> HIDE DEF o5
<1> DEFINE m == Len(o3)
<1>12. /\ m \in {2, 3} /\ (m = 3 <=> c2)
        /\ o3[1] = x1 /\ (m = 3 => o3[2] = x2) /\ o3[m] = x3
  BY <1>6, <1>9
<1> HIDE DEF m
<1>13. /\ Len(o4) \in {m, m + 1}
       /\ o4[1] = x1 /\ (m = 3 => o4[2] = x2) /\ o4[m] = x3 /\ (Len(o4) = m + 1 => o4[m + 1] = x4)
  <2>1. 1 \in 1 .. m /\ 2 \in 1 .. m /\ m \in 1 .. m /\ m + 1 # m
    BY <1>12
  <2> QED
    BY <1>10, <1>12, <2>1, SMTT(60) DEF m
<1>14. /\ Len(o5) \in {m + 1, m + 2} /\ DOMAIN o5 = 1 .. Len(o5)
       /\ o5[1] = x1 /\ (m = 3 => o5[2] = x2) /\ o5[m] = x3 /\ (Len(o5) = m + 2 => o5[m + 1] = x4)
  <2>1. m \in Nat /\ Len(o4) \in Nat
    BY <1>12, <1>13
  <2>2. 1 \in 1 .. Len(o4) /\ 2 \in 1 .. Len(o4) /\ m \in 1 .. Len(o4) /\ (Len(o4) = m + 1 => m + 1 \in 1 .. Len(o4))
    BY <1>12, <1>13
  <2>3. DOMAIN o5 = 1 .. Len(o5)
    BY <1>11
  <2>4. Len(o5) = m + 2 <=> Len(o4) = m + 1
    BY <1>11, <2>1
  <2> QED
    BY <1>11, <1>13, <2>1, <2>2, <2>3, <2>4
<1>15. c4 => Len(o5) = m + 2
  BY <1>10, <1>11, <1>12 DEF m
<1> QED
  BY <1>1, <1>11, <1>12, <1>14, <1>15 DEF Shape, x1, x2, x3, x4, x5, last, c2, c4

(* A new transfer t takes a stream, two events and a buffer that nobody     *)
(* uses, and the operations o go on its stream.                             *)
Submitted(d, n, t, o) ==
  /\ d \in Dirs /\ n \in Nat
  /\ t \in Transfer /\ t.job = submitted + 1 /\ t.start # t.end
  /\ t.stream \notin StreamsInUse /\ t.buffer \notin BuffersInUse
  /\ t.start \notin EventsInUse /\ t.end \notin EventsInUse
  /\ o = Enqueued(d, t.job, n, t.buffer, t.start, t.end)
  /\ transfers' = [transfers EXCEPT ![d] = Append(@, t)]
  /\ ops' = [ops EXCEPT ![t.stream] = @ \o o]
  /\ recorded' = [recorded EXCEPT ![t.start] = @ + 1, ![t.end] = @ + 1]
  /\ fence' = [fence EXCEPT ![t.job] = enqueued]
  /\ submitted' = submitted + 1
  /\ moved' = [moved EXCEPT ![t.job] = IF n = 0 THEN t.job ELSE @]
  /\ UNCHANGED <<host, waitFor, completed, enqueued, over>>

(* What it takes from the pools.                                            *)
Taken(t) ==
  /\ streamPool' \in [Dirs -> Seq(Nat)] /\ eventPool' \in [Dirs -> Seq(Nat)] /\ bufferPool' \in [Dirs -> Seq(Nat)]
  /\ numStreams' \in 0 .. submitted + 1 /\ numEvents' \in 0 .. 2 * (submitted + 1)
  /\ PoolOK(streamPool', StreamsInUse \cup {t.stream}, numStreams')
  /\ PoolOK(eventPool', EventsInUse \cup {t.start, t.end}, numEvents')
  /\ PoolOK(bufferPool', BuffersInUse \cup {t.buffer}, Len(capacity'))
  /\ capacity' \in Seq(Nat) /\ content' \in Seq(Jobs) /\ Len(content') = Len(capacity')
  /\ content'[t.buffer] = t.job /\ \A c \in BuffersInUse : content'[c] = content[c]

LEMMA SubmitStreams ==
  ASSUME WorkerInv, NEW d \in Dirs, submitted < NumJobs, NEW s, s = Popped(streamPool[d], numStreams),
         streamPool' = [streamPool EXCEPT ![d] = Rest(@)], numStreams' = Created(s, numStreams)
  PROVE  /\ s \in Streams \ StreamsInUse
         /\ streamPool' \in [Dirs -> Seq(Nat)] /\ numStreams' \in 0 .. submitted + 1
         /\ PoolOK(streamPool', StreamsInUse \cup {s}, numStreams')
<1>1. /\ streamPool \in [Dirs -> Seq(Nat)] /\ PoolOK(streamPool, StreamsInUse, numStreams)
      /\ numStreams \in 0 .. submitted /\ numStreams \in Nat /\ submitted \in Nat /\ NumJobs \in Nat
  BY OffloadAssumption DEF WorkerInv, TypeOK, PoolsExact, OffloadAssumption
<1>2. PICK m, q : /\ m = numStreams' /\ q = streamPool'
                  /\ Pops(streamPool, StreamsInUse, numStreams, d, s, q, m)
  BY <1>1 DEF Pops
<1>3. Pops(streamPool, StreamsInUse, numStreams, d, s, q, m)
  BY <1>2
<1>4. /\ s \in 1 .. numStreams + 1 /\ s \notin StreamsInUse
      /\ m \in numStreams .. numStreams + 1
      /\ q \in [Dirs -> Seq(Nat)] /\ PoolOK(q, StreamsInUse \cup {s}, m)
  BY <1>3, PopOK
<1>5. s \in Streams /\ m \in 0 .. submitted + 1
  BY <1>1, <1>4
<1> QED
  BY <1>2, <1>4, <1>5

LEMMA SubmitEvents ==
  ASSUME WorkerInv, NEW d \in Dirs, submitted < NumJobs,
         NEW start, start = Popped(eventPool[d], numEvents),
         NEW end, end = Popped(Rest(eventPool[d]), Created(start, numEvents)),
         eventPool' = [eventPool EXCEPT ![d] = Rest(Rest(@))],
         numEvents' = Created(end, Created(start, numEvents))
  PROVE  /\ start \in Events \ EventsInUse /\ end \in Events \ EventsInUse /\ start # end
         /\ eventPool' \in [Dirs -> Seq(Nat)] /\ numEvents' \in 0 .. 2 * (submitted + 1)
         /\ PoolOK(eventPool', EventsInUse \cup {start, end}, numEvents')
<1>1. /\ eventPool \in [Dirs -> Seq(Nat)] /\ PoolOK(eventPool, EventsInUse, numEvents)
      /\ numEvents \in 0 .. 2 * submitted /\ numEvents \in Nat /\ submitted \in Nat /\ NumJobs \in Nat
  BY OffloadAssumption DEF WorkerInv, TypeOK, PoolsExact, OffloadAssumption
<1>2. PICK rest, q, m, l :
                        /\ rest = [eventPool EXCEPT ![d] = Rest(@)] /\ q = eventPool'
                        /\ m = Created(start, numEvents) /\ l = numEvents'
  OBVIOUS
<1>3. Pops(eventPool, EventsInUse, numEvents, d, start, rest, m)
  BY <1>1, <1>2 DEF Pops
<1>4. /\ start \in 1 .. numEvents + 1 /\ start \notin EventsInUse
      /\ m \in numEvents .. numEvents + 1 /\ m \in Nat /\ start <= m
      /\ rest \in [Dirs -> Seq(Nat)] /\ PoolOK(rest, EventsInUse \cup {start}, m)
  BY <1>3, PopOK, ZenonT(60)
<1>5. end = Popped(rest[d], m) /\ l = Created(end, m)
  BY <1>1, <1>2
<1>6. eventPool' = [rest EXCEPT ![d] = Rest(@)]
  BY <1>1, <1>2, ZenonT(60)
<1>7. Pops(rest, EventsInUse \cup {start}, m, d, end, q, l)
  BY <1>2, <1>4, <1>5, <1>6 DEF Pops
<1>8. /\ end \in 1 .. m + 1 /\ end \notin EventsInUse \cup {start}
      /\ l \in m .. m + 1
      /\ q \in [Dirs -> Seq(Nat)] /\ PoolOK(q, (EventsInUse \cup {start}) \cup {end}, l)
  BY <1>7, PopOK
<1>9. start \in Events /\ end \in Events /\ l \in 0 .. 2 * (submitted + 1)
  BY <1>1, <1>4, <1>8
<1>10. (EventsInUse \cup {start}) \cup {end} = EventsInUse \cup {start, end}
  OBVIOUS
<1> QED
  BY <1>2, <1>4, <1>8, <1>9, <1>10

BufferTaken(d, n, j, popped, b) ==
  /\ popped = Popped(bufferPool[d], Len(capacity))
  /\ b = IF GivesRoom(popped, n) THEN popped ELSE Len(capacity) + 1
  /\ bufferPool' = [bufferPool EXCEPT ![d] = Rest(@)]
  /\ capacity' = IF b \in Buffers THEN capacity ELSE Append(capacity, n)
  /\ content' = IF b \in Buffers THEN [content EXCEPT ![b] = j] ELSE Append(content, j)

LEMMA SubmitBuffers ==
  ASSUME WorkerInv, NEW d \in Dirs, NEW n \in Nat, NEW j \in Jobs,
         NEW popped, NEW b, BufferTaken(d, n, j, popped, b)
  PROVE  /\ b \in Nat \ BuffersInUse
         /\ bufferPool' \in [Dirs -> Seq(Nat)]
         /\ PoolOK(bufferPool', BuffersInUse \cup {b}, Len(capacity'))
         /\ capacity' \in Seq(Nat) /\ content' \in Seq(Jobs) /\ Len(content') = Len(capacity')
         /\ content'[b] = j /\ \A c \in BuffersInUse : content'[c] = content[c]
<1>1. /\ bufferPool \in [Dirs -> Seq(Nat)] /\ PoolOK(bufferPool, BuffersInUse, Len(capacity))
      /\ capacity \in Seq(Nat) /\ content \in Seq(Jobs) /\ Len(content) = Len(capacity)
      /\ Len(capacity) \in Nat /\ Buffers = 1 .. Len(capacity)
  BY DEF WorkerInv, TypeOK, PoolsExact, Buffers
<1>2. PICK m, l, q :
        /\ m = Created(popped, l) /\ l = Len(capacity) /\ q = bufferPool'
        /\ Pops(bufferPool, BuffersInUse, l, d, popped, q, m)
  BY <1>1 DEF Pops, BufferTaken
<1>3. Pops(bufferPool, BuffersInUse, l, d, popped, q, m)
  BY <1>2
<1>4. /\ popped \in 1 .. l + 1 /\ popped \notin BuffersInUse
      /\ m \in l .. l + 1 /\ popped <= m
      /\ q \in [Dirs -> Seq(Nat)] /\ PoolOK(q, BuffersInUse \cup {popped}, m)
  BY <1>3, PopOK
<1>5. bufferPool' \in [Dirs -> Seq(Nat)] /\ PoolOK(bufferPool', BuffersInUse \cup {popped}, m)
  BY <1>2, <1>4
<1>6. BuffersInUse \subseteq 1 .. l
  BY <1>1, <1>2 DEF PoolOK
<1>7. CASE b \in Buffers
  <2>1. b = popped /\ m = l /\ b \in 1 .. l
    BY <1>1, <1>2, <1>4, <1>7 DEF Created, BufferTaken
  <2>2. capacity' = capacity /\ content' = [content EXCEPT ![b] = j]
    BY <1>7 DEF BufferTaken
  <2>3. content' \in Seq(Jobs) /\ Len(content') = Len(content) /\ content'[b] = j
        /\ \A c \in 1 .. l \ {b} : content'[c] = content[c]
    BY <1>1, <1>2, <2>1, <2>2
  <2>4. \A c \in BuffersInUse : c \in 1 .. l \ {b}
    BY <1>4, <1>6, <2>1
  <2>5. PoolOK(bufferPool', BuffersInUse \cup {b}, Len(capacity'))
    BY <1>2, <1>5, <2>1, <2>2
  <2> QED
    BY <1>1, <1>2, <1>5, <2>1, <2>2, <2>3, <2>4, <2>5
<1>8. CASE b \notin Buffers
  <2>1. b = l + 1 /\ l \in Nat
    BY <1>1, <1>2, <1>8 DEF GivesRoom, BufferTaken
  <2>2. capacity' = Append(capacity, n) /\ content' = Append(content, j)
    BY <1>8 DEF BufferTaken
  <2>3. /\ capacity' \in Seq(Nat) /\ content' \in Seq(Jobs) /\ Len(content') = l + 1 /\ Len(capacity') = l + 1
        /\ content'[l + 1] = j /\ \A c \in 1 .. l : content'[c] = content[c]
    <3>1. l = Len(content) /\ content \in Seq(Jobs) /\ content' = Append(content, j)
      BY <1>1, <1>2, <2>2
    <3>2. \A c \in 1 .. l : content'[c] = content[c]
      BY <3>1
    <3>3. capacity' \in Seq(Nat) /\ content' \in Seq(Jobs) /\ Len(content') = l + 1 /\ Len(capacity') = l + 1
      BY <1>1, <1>2, <2>2
    <3>4. content'[l + 1] = j
      BY <3>1
    <3> QED
      BY <3>2, <3>3, <3>4
  <2>4. PoolOK(bufferPool', BuffersInUse \cup {b}, l + 1)
    <3>1. \A e \in Dirs : \A i \in DOMAIN bufferPool'[e] : bufferPool'[e][i] \in (1 .. l + 1) \ (BuffersInUse \cup {b})
      <4> SUFFICES ASSUME NEW e \in Dirs, NEW i \in DOMAIN bufferPool'[e]
                   PROVE  bufferPool'[e][i] \in (1 .. l + 1) \ (BuffersInUse \cup {b})
        OBVIOUS
      <4>1. bufferPool'[e][i] \in (1 .. m) \ (BuffersInUse \cup {popped})
        BY <1>5 DEF PoolOK
      <4>2. CASE m = l
        BY <2>1, <4>1, <4>2
      <4>3. CASE m = l + 1
        <5>1. popped = l + 1
          BY <1>2, <2>1, <4>3 DEF Created
        <5> QED
          BY <2>1, <4>1, <4>3, <5>1
      <4> QED
        BY <1>4, <2>1, <4>2, <4>3
    <3>2. \A e, f \in Dirs : \A i \in DOMAIN bufferPool'[e], k \in DOMAIN bufferPool'[f] :
              bufferPool'[e][i] = bufferPool'[f][k] => e = f /\ i = k
      BY <1>5 DEF PoolOK
    <3>3. BuffersInUse \cup {b} \subseteq 1 .. l + 1
      <4>1. 1 .. l \subseteq 1 .. l + 1 /\ l + 1 \in 1 .. l + 1
        BY <2>1
      <4> QED
        BY <1>6, <2>1, <4>1
    <3> QED
      BY <3>1, <3>2, <3>3 DEF PoolOK
  <2> QED
    BY <1>4, <1>6, <1>5, <2>1, <2>3, <2>4
<1> QED
  BY <1>7, <1>8

LEMMA SubmitIs ==
  ASSUME WorkerInv, NEW d \in Dirs, NEW n \in OpCounts, TransferAsync(d, n)
  PROVE  \E t, o : Submitted(d, n, t, o) /\ Taken(t)
<1>1. PICK popped, b, s, start, end :
        /\ popped = Popped(bufferPool[d], Len(capacity))
        /\ b = IF GivesRoom(popped, n) THEN popped ELSE Len(capacity) + 1
        /\ s = Popped(streamPool[d], numStreams)
        /\ start = Popped(eventPool[d], numEvents)
        /\ end = Popped(Rest(eventPool[d]), Created(start, numEvents))
  OBVIOUS
<1>2. PICK t, o : /\ t = [job |-> submitted + 1, stream |-> s, start |-> start, end |-> end, buffer |-> b]
                  /\ o = Enqueued(d, submitted + 1, n, b, start, end)
  OBVIOUS
<1>3. /\ submitted \in Nat /\ submitted < NumJobs /\ submitted + 1 \in Jobs /\ n \in Nat
  BY OffloadAssumption, SMTT(60) DEF WorkerInv, TypeOK, TransferAsync, OffloadAssumption
<1>4. /\ streamPool' = [streamPool EXCEPT ![d] = Rest(@)] /\ numStreams' = Created(s, numStreams)
      /\ eventPool' = [eventPool EXCEPT ![d] = Rest(Rest(@))]
      /\ numEvents' = Created(end, Created(start, numEvents))
      /\ BufferTaken(d, n, submitted + 1, popped, b)
  BY <1>1 DEF TransferAsync, BufferTaken
<1>5. /\ s \in Streams \ StreamsInUse
      /\ streamPool' \in [Dirs -> Seq(Nat)] /\ numStreams' \in 0 .. submitted + 1
      /\ PoolOK(streamPool', StreamsInUse \cup {s}, numStreams')
  BY <1>1, <1>3, <1>4, SubmitStreams
<1>6. /\ start \in Events \ EventsInUse /\ end \in Events \ EventsInUse /\ start # end
      /\ eventPool' \in [Dirs -> Seq(Nat)] /\ numEvents' \in 0 .. 2 * (submitted + 1)
      /\ PoolOK(eventPool', EventsInUse \cup {start, end}, numEvents')
  BY <1>1, <1>3, <1>4, SubmitEvents
<1>7. /\ b \in Nat \ BuffersInUse
      /\ bufferPool' \in [Dirs -> Seq(Nat)]
      /\ PoolOK(bufferPool', BuffersInUse \cup {b}, Len(capacity'))
      /\ capacity' \in Seq(Nat) /\ content' \in Seq(Jobs) /\ Len(content') = Len(capacity')
      /\ content'[b] = submitted + 1 /\ \A c \in BuffersInUse : content'[c] = content[c]
  BY <1>3, <1>4, SubmitBuffers
<1>8. t.job = submitted + 1 /\ t.stream = s /\ t.start = start /\ t.end = end /\ t.buffer = b
  BY <1>2
<1>9. t \in Transfer
  BY <1>2, <1>3, <1>5, <1>6, <1>7 DEF Transfer
<1>10. Taken(t)
  BY <1>5, <1>6, <1>7, <1>8 DEF Taken
<1>11. /\ transfers' = [transfers EXCEPT ![d] = Append(@, t)]
       /\ ops' = [ops EXCEPT ![s] = @ \o o]
       /\ recorded' = [recorded EXCEPT ![start] = @ + 1, ![end] = @ + 1]
       /\ fence' = [fence EXCEPT ![submitted + 1] = enqueued]
       /\ submitted' = submitted + 1
       /\ moved' = [moved EXCEPT ![submitted + 1] = IF n = 0 THEN submitted + 1 ELSE @]
       /\ UNCHANGED <<host, waitFor, completed, enqueued, over>>
  BY <1>1, <1>2 DEF TransferAsync
<1>12. Submitted(d, n, t, o)
  BY <1>2, <1>3, <1>5, <1>6, <1>7, <1>8, <1>9, <1>11 DEF Submitted
<1> QED
  BY <1>10, <1>12

(* The transfers in flight are those before and t.                          *)
LEMMA SubmittedKeeps ==
  ASSUME WorkerInv, NEW d, NEW n, NEW t, NEW o, Submitted(d, n, t, o)
  PROVE  /\ transfers' \in [Dirs -> Seq(Transfer)]
         /\ Len(transfers'[d]) = Len(transfers[d]) + 1 /\ Len(transfers[d]) \in Nat
         /\ transfers'[d][Len(transfers[d]) + 1] = t
         /\ \A i \in 1 .. Len(transfers[d]) : transfers'[d][i] = transfers[d][i]
         /\ \A e \in Dirs \ {d} : transfers'[e] = transfers[e]
         /\ \A e \in Dirs : \A i \in DOMAIN transfers'[e] :
                \/ transfers'[e][i] = t /\ e = d /\ i = Len(transfers[d]) + 1
                \/ i \in DOMAIN transfers[e] /\ transfers'[e][i] = transfers[e][i]
         /\ t \notin InFlight /\ InFlight' = InFlight \cup {t}
         /\ StreamsInUse' = StreamsInUse \cup {t.stream} /\ BuffersInUse' = BuffersInUse \cup {t.buffer}
         /\ EventsInUse' = EventsInUse \cup {t.start, t.end}
<1>1. /\ d \in Dirs /\ transfers \in [Dirs -> Seq(Transfer)] /\ t \in Transfer
      /\ transfers' = [transfers EXCEPT ![d] = Append(@, t)]
  BY DEF Submitted, WorkerInv, TypeOK
<1>2. transfers'[d] = Append(transfers[d], t) /\ \A e \in Dirs \ {d} : transfers'[e] = transfers[e]
  BY <1>1
<1>3. transfers' \in [Dirs -> Seq(Transfer)]
  BY <1>1
<1>4. PICK p \in Seq(Transfer) : p = transfers[d]
  BY <1>1
<1>5. PICK q : q = Append(p, t)
  OBVIOUS
<1>6. /\ q \in Seq(Transfer) /\ Len(q) = Len(p) + 1 /\ Len(p) \in Nat
      /\ DOMAIN p = 1 .. Len(p) /\ DOMAIN q = 1 .. Len(p) + 1
      /\ q[Len(p) + 1] = t /\ \A i \in 1 .. Len(p) : q[i] = p[i]
  BY <1>1, <1>4, <1>5
<1>7. transfers'[d] = q /\ transfers[d] = p
  BY <1>2, <1>4, <1>5
<1>8. ASSUME NEW e \in Dirs, NEW i \in DOMAIN transfers'[e]
      PROVE  \/ transfers'[e][i] = t /\ e = d /\ i = Len(transfers[d]) + 1
             \/ i \in DOMAIN transfers[e] /\ transfers'[e][i] = transfers[e][i]
  <2>1. CASE e = d
    <3>1. i \in 1 .. Len(p) + 1 /\ Len(p) \in Nat
      BY <1>6, <1>7, <1>8, <2>1
    <3>2. i = Len(p) + 1 \/ i \in 1 .. Len(p)
      BY <3>1
    <3> QED
      BY <1>6, <1>7, <2>1, <3>2
  <2>2. CASE e # d
    BY <1>2, <1>8, <2>2
  <2> QED
    BY <2>1, <2>2
<1>9. t \notin InFlight
  BY DEF Submitted, StreamsInUse
<1>10. InFlight' = InFlight \cup {t}
  <2>1. ASSUME NEW u \in InFlight PROVE u \in InFlight'
    <3>1. PICK e \in Dirs : \E i \in DOMAIN transfers[e] : u = transfers[e][i]
      BY InFlightIs
    <3>2. PICK i \in DOMAIN transfers[e] : u = transfers[e][i]
      BY <3>1
    <3>3. i \in DOMAIN transfers'[e] /\ transfers'[e][i] = u
      <4>1. CASE e = d
        <5>1. i \in 1 .. Len(p)
          BY <1>6, <1>7, <3>2, <4>1
        <5>2. i \in 1 .. Len(p) + 1
          BY <1>6, <5>1
        <5> QED
          BY <1>6, <1>7, <3>2, <4>1, <5>1, <5>2
      <4>2. CASE e # d
        BY <1>2, <3>2, <4>2
      <4> QED
        BY <4>1, <4>2
    <3> QED
      BY <3>3, InFlightIs
  <2>2. t \in InFlight'
    <3>1. Len(p) + 1 \in DOMAIN transfers'[d]
      BY <1>6, <1>7
    <3>2. t = transfers'[d][Len(p) + 1]
      BY <1>6, <1>7
    <3> QED
      BY <1>1, <3>1, <3>2, InFlightIs
  <2>3. ASSUME NEW u \in InFlight' PROVE u \in InFlight \cup {t}
    <3>1. PICK e \in Dirs : \E i \in DOMAIN transfers'[e] : u = transfers'[e][i]
      BY InFlightIs
    <3>2. PICK i \in DOMAIN transfers'[e] : u = transfers'[e][i]
      BY <3>1
    <3>3. CASE transfers'[e][i] = t
      BY <3>2, <3>3
    <3>4. CASE i \in DOMAIN transfers[e] /\ transfers'[e][i] = transfers[e][i]
      BY <3>2, <3>4, InFlightIs
    <3> QED
      BY <1>8, <3>3, <3>4
  <2> QED
    BY <2>1, <2>2, <2>3
<1>11. StreamsInUse' = StreamsInUse \cup {t.stream} /\ BuffersInUse' = BuffersInUse \cup {t.buffer}
  BY <1>10 DEF StreamsInUse, BuffersInUse
<1>12. EventsInUse' = EventsInUse \cup {t.start, t.end}
  BY <1>10 DEF EventsInUse
<1>13. /\ Len(transfers'[d]) = Len(transfers[d]) + 1 /\ Len(transfers[d]) \in Nat
       /\ transfers'[d][Len(transfers[d]) + 1] = t
       /\ \A i \in 1 .. Len(transfers[d]) : transfers'[d][i] = transfers[d][i]
  BY <1>6, <1>7
<1>14. \A e \in Dirs : \A i \in DOMAIN transfers'[e] :
           \/ transfers'[e][i] = t /\ e = d /\ i = Len(transfers[d]) + 1
           \/ i \in DOMAIN transfers[e] /\ transfers'[e][i] = transfers[e][i]
  BY <1>8
<1> QED
  BY <1>2, <1>3, <1>9, <1>10, <1>11, <1>12, <1>13, <1>14

LEMMA SubmitTypes ==
  ASSUME WorkerInv, NEW d, NEW n, NEW t, NEW o, Submitted(d, n, t, o), Taken(t)
  PROVE  /\ TypeOK' /\ PoolsExact'
         /\ ops'[t.stream] = o /\ \A s \in Streams \ {t.stream} : ops'[s] = ops[s]
         /\ recorded'[t.start] = recorded[t.start] + 1 /\ recorded'[t.end] = recorded[t.end] + 1
         /\ \A e \in Events \ {t.start, t.end} : recorded'[e] = recorded[e]
         /\ fence'[t.job] = enqueued /\ \A j \in Jobs \ {t.job} : fence'[j] = fence[j]
         /\ completed[t.start] = recorded[t.start] /\ completed[t.end] = recorded[t.end]
<1>1. /\ d \in Dirs /\ n \in Nat /\ t.job \in Jobs /\ t.stream \in Streams /\ t.start \in Events /\ t.end \in Events
      /\ t.buffer \in Nat /\ t.start # t.end /\ t.job = submitted + 1 /\ submitted' = submitted + 1
      /\ t.stream \notin StreamsInUse /\ t.start \notin EventsInUse /\ t.end \notin EventsInUse
      /\ o = Enqueued(d, t.job, n, t.buffer, t.start, t.end)
      /\ moved' = [moved EXCEPT ![t.job] = IF n = 0 THEN t.job ELSE @]
      /\ UNCHANGED <<host, waitFor, completed, enqueued, over>>
  BY DEF Submitted, Transfer
<1>2. /\ ops' = [ops EXCEPT ![t.stream] = @ \o o]
      /\ recorded' = [recorded EXCEPT ![t.start] = @ + 1, ![t.end] = @ + 1]
      /\ fence' = [fence EXCEPT ![t.job] = enqueued]
  BY DEF Submitted
<1>3. /\ ops \in [Streams -> Seq(Op)] /\ recorded \in [Events -> 0 .. submitted] /\ submitted \in Nat
      /\ fence \in [Jobs -> Nat] /\ enqueued \in Nat /\ submitted \in 0 .. NumJobs /\ NumJobs \in Nat
  <2>1. /\ ops \in [Streams -> Seq(Op)] /\ recorded \in [Events -> 0 .. submitted]
        /\ fence \in [Jobs -> Nat] /\ enqueued \in Nat /\ submitted \in 0 .. NumJobs
    BY DEF WorkerInv, TypeOK
  <2>2. NumJobs \in Nat
    BY OffloadAssumption DEF OffloadAssumption
  <2>3. submitted \in Nat
    BY <2>1, <2>2
  <2> QED
    BY <2>1, <2>2, <2>3
<1>4. PICK m : Shape(d, n, t.job, t.buffer, t.start, t.end, o, m)
  BY <1>1, EnqueuedIs
<1>5. o \in Seq(Op)
  BY <1>4 DEF Shape
<1>6. ops[t.stream] = <<>>
  BY <1>1 DEF WorkerInv, UnusedAtRest
<1>7. <<>> \o o = o
  BY <1>5
<1>8. /\ ops' \in [Streams -> Seq(Op)]
      /\ ops'[t.stream] = o /\ \A s \in Streams \ {t.stream} : ops'[s] = ops[s]
  BY <1>1, <1>2, <1>3, <1>5, <1>6, <1>7
<1>9. /\ recorded'[t.start] = recorded[t.start] + 1 /\ recorded'[t.end] = recorded[t.end] + 1
      /\ \A e \in Events \ {t.start, t.end} : recorded'[e] = recorded[e]
  BY <1>1, <1>2, <1>3
<1>10. recorded' \in [Events -> 0 .. submitted + 1]
  <2>1. \A e \in Events : recorded[e] \in 0 .. submitted
    BY <1>3
  <2>2. \A e \in Events : recorded'[e] \in 0 .. submitted + 1
    <3>1. ASSUME NEW e \in {t.start, t.end} PROVE recorded'[e] = recorded[e] + 1 /\ recorded[e] \in 0 .. submitted
      BY <1>1, <1>9, <2>1
    <3>2. ASSUME NEW e \in Events \ {t.start, t.end} PROVE recorded'[e] = recorded[e] /\ recorded[e] \in 0 .. submitted
      BY <1>9, <2>1
    <3>3. 0 .. submitted \subseteq 0 .. submitted + 1 /\ \A x \in 0 .. submitted : x + 1 \in 0 .. submitted + 1
      BY <1>3
    <3> QED
      BY <3>1, <3>2, <3>3
  <2>3. recorded' = [e \in Events |-> recorded'[e]]
    BY <1>2, <1>3
  <2> QED
    BY <2>2, <2>3
<1>11. /\ fence' \in [Jobs -> Nat]
       /\ fence'[t.job] = enqueued /\ \A j \in Jobs \ {t.job} : fence'[j] = fence[j]
  BY <1>1, <1>2, <1>3
<1>12. completed[t.start] = recorded[t.start] /\ completed[t.end] = recorded[t.end]
  BY <1>1 DEF WorkerInv, UnusedAtRest
<1>13. submitted' \in 0 .. NumJobs
  BY <1>1, <1>3
<1>14. TypeOK'
  <2>1. /\ host' \in {"idle", "wait", "shutdown_store", "shutdown_load", "down"} /\ waitFor' \subseteq Jobs
        /\ completed' \in [Events -> Nat] /\ enqueued' \in Nat /\ over' \in 0 .. enqueued' /\ moved' \in [Jobs -> Nat]
    <3>1. t.job \in Nat
      BY <1>1, <1>3
    <3>2. moved' \in [Jobs -> Nat]
      <4>1. moved \in [Jobs -> Nat]
        BY DEF WorkerInv, TypeOK
      <4> QED
        BY <1>1, <3>1, <4>1
    <3> QED
      BY <1>1, <3>2 DEF WorkerInv, TypeOK
  <2>2. transfers' \in [Dirs -> Seq(Transfer)]
    BY SubmittedKeeps
  <2>3. /\ {streamPool', eventPool', bufferPool'} \subseteq [Dirs -> Seq(Nat)]
        /\ numStreams' \in 0 .. submitted' /\ numEvents' \in 0 .. 2 * submitted'
        /\ capacity' \in Seq(Nat) /\ content' \in Seq(Jobs) /\ Len(content') = Len(capacity')
    BY <1>1 DEF Taken
  <2>4. recorded' \in [Events -> 0 .. submitted']
    BY <1>1, <1>10
  <2> QED
    BY <1>8, <1>11, <1>13, <2>1, <2>2, <2>3, <2>4 DEF TypeOK
<1>15. PoolsExact'
  <2>1. StreamsInUse' = StreamsInUse \cup {t.stream} /\ BuffersInUse' = BuffersInUse \cup {t.buffer}
        /\ EventsInUse' = EventsInUse \cup {t.start, t.end}
    BY SubmittedKeeps
  <2>2. /\ PoolOK(streamPool', StreamsInUse', numStreams')
        /\ PoolOK(eventPool', EventsInUse', numEvents')
        /\ PoolOK(bufferPool', BuffersInUse', Len(capacity'))
    BY <2>1 DEF Taken
  <2> QED
    BY <2>2 DEF PoolsExact
<1> QED
  BY <1>8, <1>9, <1>11, <1>12, <1>14, <1>15

LEMMA SubmitApart ==
  ASSUME WorkerInv, NEW d, NEW n, NEW t, NEW o, Submitted(d, n, t, o)
  PROVE  /\ TransfersApart'
         /\ \A u \in InFlight : Apart(t, u) /\ Apart(u, t)
<1>1. submitted \in Nat /\ submitted' = submitted + 1 /\ t.job = submitted + 1 /\ t.start # t.end /\ d \in Dirs
  BY DEF Submitted, WorkerInv, TypeOK
<1>2. ASSUME NEW u \in InFlight PROVE Apart(t, u) /\ Apart(u, t) /\ u.job \in Jobs /\ u.job <= submitted /\ u.start # u.end
  <2>1. u.job <= submitted /\ u.job \in Jobs /\ u.start # u.end
    BY Types DEF WorkerInv, TransfersApart
  <2>2. u.stream \in StreamsInUse /\ u.buffer \in BuffersInUse /\ u.start \in EventsInUse /\ u.end \in EventsInUse
    BY DEF StreamsInUse, BuffersInUse, EventsInUse
  <2>3. t.stream \notin StreamsInUse /\ t.buffer \notin BuffersInUse /\ t.start \notin EventsInUse /\ t.end \notin EventsInUse
    BY DEF Submitted
  <2>4. t.job # u.job
    BY <1>1, <2>1
  <2>5. /\ t.stream # u.stream /\ t.buffer # u.buffer
        /\ t.start # u.start /\ t.start # u.end /\ t.end # u.start /\ t.end # u.end
    BY <2>2, <2>3
  <2> QED
    BY <2>1, <2>4, <2>5 DEF Apart
<1>3. \A e \in Dirs : Len(transfers'[e]) <= submitted'
  <2> SUFFICES ASSUME NEW e \in Dirs PROVE Len(transfers'[e]) <= submitted'
    OBVIOUS
  <2>1. Len(transfers[e]) <= submitted /\ Len(transfers[e]) \in Nat
    BY Types DEF WorkerInv, TransfersApart
  <2>2. CASE e = d
    <3>1. Len(transfers'[e]) = Len(transfers[e]) + 1
      BY <2>2, SubmittedKeeps
    <3> QED
      BY <1>1, <2>1, <3>1
  <2>3. CASE e # d
    <3>1. transfers'[e] = transfers[e]
      BY <2>3, SubmittedKeeps
    <3> QED
      BY <1>1, <2>1, <3>1
  <2> QED
    BY <2>2, <2>3
<1>4. \A u \in InFlight' : u.job <= submitted' /\ u.start # u.end
  <2>1. InFlight' = InFlight \cup {t}
    BY SubmittedKeeps
  <2>2. \A u \in InFlight : u.job <= submitted'
    BY <1>1, <1>2
  <2> QED
    BY <1>1, <1>2, <2>1, <2>2
<1>5. ASSUME NEW e \in Dirs, NEW f \in Dirs, NEW i \in DOMAIN transfers'[e], NEW k \in DOMAIN transfers'[f],
             e # f \/ i # k
      PROVE  Apart(transfers'[e][i], transfers'[f][k])
  <2>1. \/ transfers'[e][i] = t /\ e = d /\ i = Len(transfers[d]) + 1
        \/ i \in DOMAIN transfers[e] /\ transfers'[e][i] = transfers[e][i]
    BY SubmittedKeeps
  <2>2. \/ transfers'[f][k] = t /\ f = d /\ k = Len(transfers[d]) + 1
        \/ k \in DOMAIN transfers[f] /\ transfers'[f][k] = transfers[f][k]
    BY SubmittedKeeps
  <2>3. CASE i \in DOMAIN transfers[e] /\ transfers'[e][i] = transfers[e][i]
    <3>1. transfers[e][i] \in InFlight
      BY <2>3, InFlightIs
    <3>2. CASE k \in DOMAIN transfers[f] /\ transfers'[f][k] = transfers[f][k]
      BY <1>5, <2>3, <3>2 DEF WorkerInv, TransfersApart
    <3>3. CASE transfers'[f][k] = t
      BY <1>2, <2>3, <3>1, <3>3
    <3> QED
      BY <2>2, <3>2, <3>3
  <2>4. CASE transfers'[e][i] = t /\ e = d /\ i = Len(transfers[d]) + 1
    <3>1. k \in DOMAIN transfers[f] /\ transfers'[f][k] = transfers[f][k]
      BY <1>5, <2>2, <2>4
    <3>2. transfers[f][k] \in InFlight
      BY <3>1, InFlightIs
    <3> QED
      BY <1>2, <2>4, <3>1, <3>2
  <2> QED
    BY <2>1, <2>3, <2>4
<1>6. TransfersApart'
  BY <1>3, <1>4, <1>5 DEF TransfersApart, Apart
<1> QED
  BY <1>2, <1>6

(* The new transfer.                                                        *)
LEMMA SubmitNew ==
  ASSUME WorkerInv, NEW d, NEW n, NEW t, NEW o, Submitted(d, n, t, o), Taken(t)
  PROVE  /\ (RestOfEnqueued(t) /\ EffectOfExecuted(t) /\ content[t.buffer] = t.job)'
         /\ StreamHas(t, t.start)'
         /\ transfers[d] # <<>> =>
                LET last == transfers[d][Len(transfers[d])].end
                IN  2 \in DOMAIN o /\ o[2] = AfterEvent(last, recorded[last])
<1>1. /\ d \in Dirs /\ n \in Nat /\ t.job \in Jobs /\ t.buffer \in Nat /\ t.start \in Events /\ t.end \in Events
      /\ t.start # t.end /\ o = Enqueued(d, t.job, n, t.buffer, t.start, t.end)
      /\ completed' = completed
  BY DEF Submitted, Transfer
<1>2. /\ ops'[t.stream] = o
      /\ recorded'[t.start] = recorded[t.start] + 1 /\ recorded'[t.end] = recorded[t.end] + 1
      /\ fence'[t.job] = enqueued
      /\ completed[t.start] = recorded[t.start] /\ completed[t.end] = recorded[t.end]
  BY SubmitTypes
<1>3. recorded[t.end] \in Nat
  <2>1. recorded \in [Events -> 0 .. submitted]
    BY DEF WorkerInv, TypeOK
  <2>2. recorded[t.end] \in 0 .. submitted
    BY <1>1, <2>1
  <2> QED
    BY <2>2
<1> DEFINE last == transfers[d][Len(transfers[d])].end
<1>4. PICK m : Shape(d, n, t.job, t.buffer, t.start, t.end, o, m)
  BY <1>1, EnqueuedIs, SMTT(30)
<1>5.   /\ m \in {2, 3} /\ Len(o) \in {m + 1, m + 2}
        /\ m = 3 <=> transfers[d] # <<>>
        /\ o[1] = AfterSteps(enqueued)
        /\ m = 3 => o[2] = AfterEvent(last, recorded[last])
        /\ o[m] = Record(t.start, recorded[t.start] + 1)
        /\ Len(o) = m + 2 => o[m + 1] = Copy(t.job, t.buffer)
        /\ o[Len(o)] = Record(t.end, recorded[t.end] + 1)
  BY <1>4, ZenonT(60) DEF Shape
<1>6. PICK L : L = Len(o)
  OBVIOUS
<1>7. DOMAIN o = 1 .. L /\ (m = 2 \/ m = 3) /\ (L = m + 1 \/ L = m + 2)
  BY <1>4, <1>6, ZenonT(60) DEF Shape
<1> HIDE DEF last
<1>8. /\ 1 \in DOMAIN o /\ 2 \in DOMAIN o /\ m \in DOMAIN o /\ L \in DOMAIN o
      /\ L \in Nat /\ L > m /\ m \in Nat /\ \A k \in DOMAIN o : k \in Int /\ k >= 1
  BY <1>7
<1>9. ASSUME NEW k \in DOMAIN o
      PROVE  \/ k = 1 /\ o[k] = AfterSteps(fence'[t.job])
             \/ k = 2 /\ m = 3 /\ o[k].kind = "event"
             \/ k = m /\ o[k] = Record(t.start, recorded'[t.start])
             \/ k = m + 1 /\ k # L /\ o[k] = Copy(t.job, t.buffer)
             \/ k = L /\ o[k] = Record(t.end, recorded'[t.end])
  <2>1. k = 1 \/ (k = 2 /\ m = 3) \/ k = m \/ (k = m + 1 /\ L = m + 2) \/ k = L
    <3>1. k \in Int /\ 1 <= k /\ k <= L
      BY <1>7, <1>8
    <3>2. CASE m = 2
      BY <1>7, <3>1, <3>2
    <3>3. CASE m = 3
      BY <1>7, <3>1, <3>3
    <3> QED
      BY <1>7, <3>2, <3>3
  <2>2. CASE k = 1
    BY <1>2, <1>5, <2>2
  <2>3. CASE k = 2 /\ m = 3
    BY <1>5, <2>3 DEF AfterEvent
  <2>4. CASE k = m
    BY <1>2, <1>5, <2>4
  <2>5. CASE k = m + 1 /\ L = m + 2
    BY <1>5, <1>6, <2>5
  <2>6. CASE k = L
    BY <1>2, <1>5, <1>6, <2>6
  <2> QED
    BY <2>1, <2>2, <2>3, <2>4, <2>5, <2>6
<1>10. StreamHas(t, t.start)'
  <2>1. o[m].kind = "record" /\ o[m].event = t.start
    BY <1>5 DEF Record
  <2> QED
    BY <1>2, <1>8, <2>1 DEF StreamHas
<1>11. RestOfEnqueued(t)'
  <2>1. \A k \in DOMAIN o :
          \/ (o[k] = AfterSteps(fence'[t.job]) \/ o[k].kind = "event")
          \/ o[k] \in {Record(t.start, recorded'[t.start]), Copy(t.job, t.buffer)}
          \/ o[k] = Record(t.end, recorded'[t.end]) /\ k = L
    BY <1>9
  <2>2. ASSUME NEW k \in DOMAIN o, NEW l \in DOMAIN o, k < l
        PROVE  /\ o[l].kind # "steps"
               /\ o[l].kind = "event" => o[k].kind = "steps"
               /\ o[l].kind = "record" /\ o[l].event = t.start => o[k].kind \in {"steps", "event"}
    <3>1. \A i \in DOMAIN o : /\ o[i].kind = "steps" <=> i = 1
                              /\ o[i].kind = "event" => i = 2
                              /\ o[i].kind = "event" <=> i = 2 /\ m = 3
                              /\ o[i].kind = "record" /\ o[i].event = t.start => i = m
      <4> SUFFICES ASSUME NEW i \in DOMAIN o
                   PROVE  /\ o[i].kind = "steps" <=> i = 1
                          /\ o[i].kind = "event" => i = 2
                          /\ o[i].kind = "event" <=> i = 2 /\ m = 3
                          /\ o[i].kind = "record" /\ o[i].event = t.start => i = m
        OBVIOUS
      <4>1. CASE i = 1 /\ o[i] = AfterSteps(fence'[t.job])
        BY <1>5, <4>1 DEF AfterSteps
      <4>2. CASE i = 2 /\ m = 3 /\ o[i].kind = "event"
        BY <4>2
      <4>3. CASE i = m /\ o[i] = Record(t.start, recorded'[t.start])
        BY <1>5, <4>3 DEF Record
      <4>4. CASE i = m + 1 /\ i # L /\ o[i] = Copy(t.job, t.buffer)
        BY <1>5, <4>4 DEF Copy
      <4>5. CASE i = L /\ o[i] = Record(t.end, recorded'[t.end])
        <5>1. o[i].kind = "record" /\ o[i].event # t.start
          BY <1>1, <4>5 DEF Record
        <5>2. i # 1 /\ (m = 3 => i # 2)
          BY <1>7, <4>5
        <5> QED
          BY <5>1, <5>2
      <4> QED
        BY <1>9, <4>1, <4>2, <4>3, <4>4, <4>5
    <3>2. k \in Int /\ l \in Int /\ k >= 1
      BY <1>8
    <3> QED
      BY <1>7, <2>2, <3>1, <3>2
  <2>3. o # <<>> => o[Len(o)] = Record(t.end, recorded'[t.end])
    BY <1>2, <1>5
  <2> QED
    BY <1>2, <1>10, <1>6, <2>1, <2>2, <2>3 DEF RestOfEnqueued
<1>12. EffectOfExecuted(t)'
  <2>1. o # <<>>
    BY <1>8
  <2>2. o[1].kind = "steps"
    BY <1>5 DEF AfterSteps
  <2>3. completed[t.end] < recorded'[t.end]
    BY <1>2, <1>3
  <2> QED
    BY <1>1, <1>2, <1>8, <1>10, <2>1, <2>2, <2>3 DEF EffectOfExecuted
<1>13. content'[t.buffer] = t.job
  BY DEF Taken
<1> QED
  BY <1>5, <1>8, <1>10, <1>11, <1>12, <1>13 DEF last

(* Those in flight before.                                                  *)
LEMMA SubmitOthers ==
  ASSUME WorkerInv, NEW d, NEW n, NEW t, NEW o, Submitted(d, n, t, o), Taken(t), NEW u \in InFlight
  PROVE  /\ ops'[u.stream] = ops[u.stream]
         /\ StreamHas(u, u.start)' <=> StreamHas(u, u.start)
         /\ recorded'[u.start] = recorded[u.start] /\ recorded'[u.end] = recorded[u.end]
         /\ (RestOfEnqueued(u) /\ EffectOfExecuted(u) /\ content[u.buffer] = u.job)'
<1>1. RestOfEnqueued(u) /\ EffectOfExecuted(u) /\ content[u.buffer] = u.job
  BY DEF WorkerInv
<1>2. Apart(u, t)
  BY SubmitApart
<1>3. u.job \in Jobs /\ u.stream \in Streams /\ u.start \in Events /\ u.end \in Events
  BY Types DEF WorkerInv
<1>4. /\ ops'[u.stream] = ops[u.stream] /\ fence'[u.job] = fence[u.job]
      /\ recorded'[u.start] = recorded[u.start] /\ recorded'[u.end] = recorded[u.end]
  BY <1>2, <1>3, SubmitTypes DEF Apart
<1>5. completed' = completed /\ over' = over
  BY DEF Submitted
<1>6. content'[u.buffer] = content[u.buffer]
  <2>1. u.buffer \in BuffersInUse
    BY DEF BuffersInUse
  <2> QED
    BY <2>1 DEF Taken
<1>7. \A e : StreamHas(u, e)' <=> StreamHas(u, e)
  BY <1>4 DEF StreamHas
<1>8. RestOfEnqueued(u)'
  BY <1>1, <1>4, <1>7 DEF RestOfEnqueued
<1>9. EffectOfExecuted(u)'
  BY <1>1, <1>4, <1>5, <1>7 DEF EffectOfExecuted
<1> QED
  BY <1>1, <1>4, <1>6, <1>7, <1>8, <1>9

LEMMA SubmitChained ==
  ASSUME WorkerInv, NEW d, NEW n, NEW t, NEW o, Submitted(d, n, t, o), Taken(t),
         NEW e \in Dirs, NEW i \in 2 .. Len(transfers'[e])
  PROVE  Chained(e, i)'
<1>1. d \in Dirs /\ Len(transfers[d]) \in Nat /\ DOMAIN transfers[d] = 1 .. Len(transfers[d])
  BY Types DEF Submitted, WorkerInv
<1>2. CASE e = d /\ i = Len(transfers[d]) + 1
  <2>1. PICK l : l = Len(transfers[d])
    OBVIOUS
  <2>2. l \in Nat /\ i = l + 1 /\ l \in 1 .. l /\ i - 1 = l
    <3>1. i \in 2 .. Len(transfers'[d])
      BY <1>2
    <3>2. l \in Nat /\ i = l + 1 /\ i \in 2 .. l + 1
      BY <1>1, <1>2, <2>1, <3>1, SubmittedKeeps
    <3> QED
      BY <3>2
  <2>3. PICK u : u = transfers[d][l]
    OBVIOUS
  <2>4. u \in InFlight /\ transfers'[e][i] = t /\ transfers'[e][i - 1] = u
    <3>1. u \in InFlight
      BY <1>1, <2>1, <2>2, <2>3, InFlightIs
    <3>2. transfers'[d][l + 1] = t /\ transfers'[d][l] = transfers[d][l]
      BY <2>1, <2>2, SubmittedKeeps
    <3> QED
      BY <1>2, <2>2, <2>3, <3>1, <3>2
  <2>5. 2 \in DOMAIN o /\ o[2] = AfterEvent(u.end, recorded[u.end])
    <3>1. transfers[d] # <<>>
      BY <1>1, <2>1, <2>2
    <3> QED
      BY <2>1, <2>3, <3>1, SubmitNew
  <2>6. ops'[t.stream] = o /\ recorded'[u.end] = recorded[u.end] /\ StreamHas(t, t.start)'
    BY <2>4, SubmitTypes, SubmitOthers, SubmitNew
  <2>7. o[2].kind = "event" /\ o[2].event = u.end /\ o[2].ver = recorded'[u.end]
    BY <2>5, <2>6 DEF AfterEvent
  <2> QED
    BY <2>4, <2>5, <2>6, <2>7 DEF Chained
<1>3. CASE ~(e = d /\ i = Len(transfers[d]) + 1)
  <2>1. PICK l : l = Len(transfers[e])
    OBVIOUS
  <2>2. l \in Nat /\ i \in 2 .. l /\ \A k \in 1 .. l : transfers'[e][k] = transfers[e][k] /\ k \in DOMAIN transfers[e]
    <3>1. CASE e = d
      <4>1. i \in 2 .. l + 1 /\ l \in Nat /\ i # l + 1
        BY <1>1, <1>3, <2>1, <3>1, SubmittedKeeps
      <4>2. i \in 2 .. l
        BY <4>1
      <4> QED
        BY <1>1, <2>1, <3>1, <4>1, <4>2, SubmittedKeeps
    <3>2. CASE e # d
      <4>1. transfers'[e] = transfers[e]
        BY <3>2, SubmittedKeeps
      <4> QED
        BY <2>1, <4>1, Types DEF WorkerInv
    <3> QED
      BY <3>1, <3>2
  <2>3. /\ i \in 1 .. l /\ i - 1 \in 1 .. l /\ \A k \in 1 .. i - 1 : k \in 1 .. l
    BY <2>2
  <2>4. PICK v, u : v = transfers[e][i] /\ u = transfers[e][i - 1]
    OBVIOUS
  <2>5. /\ v \in InFlight /\ u \in InFlight /\ transfers'[e][i] = v /\ transfers'[e][i - 1] = u
        /\ \A k \in 1 .. i - 1 : transfers[e][k] \in InFlight /\ transfers'[e][k] = transfers[e][k]
    BY <2>2, <2>3, <2>4, InFlightIs
  <2>6. Chained(e, i)
    BY <2>1, <2>2 DEF WorkerInv
  <2>7. /\ ops[u.stream] # <<>> =>
              \E k \in DOMAIN ops[v.stream] : /\ ops[v.stream][k].kind = "event" /\ ops[v.stream][k].event = u.end
                                              /\ ops[v.stream][k].ver = recorded[u.end]
        /\ StreamHas(v, v.start) \/ \A k \in 1 .. i - 1 : ops[transfers[e][k].stream] = <<>>
    BY <2>4, <2>6 DEF Chained
  <2>8. /\ ops'[v.stream] = ops[v.stream] /\ ops'[u.stream] = ops[u.stream]
        /\ StreamHas(v, v.start)' <=> StreamHas(v, v.start)
        /\ recorded'[u.end] = recorded[u.end]
    BY <2>5, SubmitOthers
  <2>9. \A k \in 1 .. i - 1 : ops'[transfers'[e][k].stream] = ops[transfers[e][k].stream]
    BY <2>5, SubmitOthers
  <2>10. StreamHas(v, v.start)' \/ \A k \in 1 .. i - 1 : ops'[transfers'[e][k].stream] = <<>>
    BY <2>7, <2>8, <2>9
  <2> QED
    BY <2>5, <2>7, <2>8, <2>10 DEF Chained
<1> QED
  BY <1>2, <1>3

(* The copy of the new transfer is ahead, if it has one.                    *)
LEMMA SubmitAhead ==
  ASSUME WorkerInv, NEW d, NEW n, NEW t, NEW o, Submitted(d, n, t, o), Taken(t)
  PROVE  CopiesAhead'
<1>1. /\ d \in Dirs /\ n \in Nat /\ t.job \in Jobs /\ t.buffer \in Nat /\ t.start \in Events /\ t.end \in Events
      /\ o = Enqueued(d, t.job, n, t.buffer, t.start, t.end)
      /\ t.job = submitted + 1 /\ submitted' = submitted + 1
      /\ moved' = [moved EXCEPT ![t.job] = IF n = 0 THEN t.job ELSE @]
  BY DEF Submitted, Transfer
<1>2. moved \in [Jobs -> Nat] /\ submitted \in 0 .. NumJobs /\ NumJobs \in Nat /\ CopiesAhead
  BY OffloadAssumption DEF WorkerInv, TypeOK, OffloadAssumption
<1>3. InFlight' = InFlight \cup {t} /\ ops'[t.stream] = o
  BY SubmittedKeeps, SubmitTypes
<1>4. \A j \in Jobs : moved'[j] = IF j = t.job /\ n = 0 THEN j ELSE moved[j]
  BY <1>1, <1>2
<1>5. n > 0 => \E k \in DOMAIN o : o[k] = Copy(t.job, t.buffer)
  <2>1. PICK m : Shape(d, n, t.job, t.buffer, t.start, t.end, o, m)
    BY <1>1, EnqueuedIs, SMTT(60)
  <2>2. /\ m \in {2, 3} /\ DOMAIN o = 1 .. Len(o)
        /\ n > 0 => Len(o) = m + 2 /\ o[m + 1] = Copy(t.job, t.buffer)
    BY <2>1, ZenonT(60) DEF Shape
  <2>3. n > 0 => m + 1 \in 1 .. Len(o)
    BY <2>2
  <2> QED
    BY <2>2, <2>3
<1>6. ASSUME NEW j \in 1 .. submitted', moved'[j] # j
      PROVE  \E u \in InFlight' : u.job = j /\ \E k \in DOMAIN ops'[u.stream] : ops'[u.stream][k] = Copy(j, u.buffer)
  <2>1. CASE j = t.job
    <3>1. n > 0
      BY <1>1, <1>4, <1>6, <2>1
    <3> QED
      BY <1>3, <1>5, <2>1, <3>1
  <2>2. CASE j # t.job
    <3>1. j \in 1 .. submitted /\ j \in Jobs
      BY <1>1, <1>2, <2>2 DEF Jobs
    <3>2. PICK u \in InFlight : u.job = j /\ \E k \in DOMAIN ops[u.stream] : ops[u.stream][k] = Copy(j, u.buffer)
      BY <1>2, <1>4, <1>6, <2>2, <3>1 DEF CopiesAhead
    <3>3. ops'[u.stream] = ops[u.stream]
      BY SubmitOthers
    <3> QED
      BY <1>3, <3>2, <3>3
  <2> QED
    BY <2>1, <2>2
<1>7. \A j \in Jobs : moved'[j] \in {0, j}
  BY <1>2, <1>4 DEF CopiesAhead
<1> QED
  BY <1>6, <1>7 DEF CopiesAhead

LEMMA SubmitInv == WorkerInv /\ (SubmitStore \/ SubmitLoad) => WorkerInv'
<1> SUFFICES ASSUME WorkerInv, NEW d \in Dirs, NEW n \in OpCounts, TransferAsync(d, n) PROVE WorkerInv'
  BY DEF SubmitStore, SubmitLoad, Dirs
<1>1. PICK t, o : Submitted(d, n, t, o) /\ Taken(t)
  BY SubmitIs
<1>2. TypeOK' /\ PoolsExact'
  BY <1>1, SubmitTypes
<1>3. TransfersApart'
  BY <1>1, SubmitApart
<1>4. UnusedAtRest'
  <2>1. /\ StreamsInUse' = StreamsInUse \cup {t.stream} /\ EventsInUse' = EventsInUse \cup {t.start, t.end}
    BY <1>1, SubmittedKeeps
  <2>2. /\ \A s \in Streams \ {t.stream} : ops'[s] = ops[s]
        /\ \A e \in Events \ {t.start, t.end} : recorded'[e] = recorded[e]
    BY <1>1, SubmitTypes
  <2>3. completed' = completed
    BY <1>1 DEF Submitted
  <2> QED
    BY <2>1, <2>2, <2>3 DEF WorkerInv, UnusedAtRest
<1>5. \A u \in InFlight' : (RestOfEnqueued(u) /\ EffectOfExecuted(u) /\ content[u.buffer] = u.job)'
  <2>1. InFlight' = InFlight \cup {t}
    BY <1>1, SubmittedKeeps
  <2>2. (RestOfEnqueued(t) /\ EffectOfExecuted(t) /\ content[t.buffer] = t.job)'
    BY <1>1, SubmitNew
  <2>3. \A u \in InFlight : (RestOfEnqueued(u) /\ EffectOfExecuted(u) /\ content[u.buffer] = u.job)'
    BY <1>1, SubmitOthers
  <2> QED
    BY <2>1, <2>2, <2>3
<1>6. \A e \in Dirs : \A i \in 2 .. Len(transfers'[e]) : Chained(e, i)'
  BY <1>1, SubmitChained
<1>7. CopiesAhead'
  BY <1>1, SubmitAhead
<1> QED
  BY <1>2, <1>3, <1>4, <1>5, <1>6, <1>7 DEF WorkerInv

-------------------------------------------------------------------------------
(* What the worker guarantees.                                              *)

LEMMA WorkerStep == WorkerInv /\ [Next]_vars => WorkerInv'
<1> SUFFICES ASSUME WorkerInv, [Next]_vars PROVE WorkerInv'
  OBVIOUS
<1>1. CASE SubmitStore \/ SubmitLoad
  BY <1>1, SubmitInv
<1>2. CASE GetFinished
  BY <1>2, GetFinishedInv
<1>3. CASE \E d \in Dirs : DrainTransfer(d)
  BY <1>3, DrainInv
<1>4. CASE \E s \in Streams : Execute(s)
  BY <1>4, ExecuteInv
<1>5. CASE \/ BeginWait \/ EndWait \/ Shutdown \/ EnqueueStep \/ EndStep
           \/ \E d \in Dirs : EndShutdown(d)
           \/ UNCHANGED vars
  BY <1>5, HostSteps
<1> QED
  BY <1>1, <1>2, <1>3, <1>4, <1>5 DEF Next

(* The inductive invariant.                                                 *)
THEOREM WorkerInvariant == Spec => []WorkerInv
<1>1. Init => WorkerInv
  BY WorkerInitially
<1>2. WorkerInv /\ [Next]_vars => WorkerInv'
  BY WorkerStep
<1> QED
  BY <1>1, <1>2, PTL DEF Spec

(* An end event that get_finished, wait or shutdown sees complete is the    *)
(* end of this transfer, never that of an earlier user of the event; and    *)
(* one that has not completed belongs to a transfer with work left.         *)
THEOREM EndEventExactHolds == Spec => []EndEventExact
<1>1. WorkerInv => EndEventExact
  BY EndedIsIdle DEF EndEventExact
<1> QED
  BY <1>1, WorkerInvariant, PTL

(* No copy runs with the descriptors of another transfer, and whoever is    *)
(* taken for ended has moved all its blocks.                                *)
THEOREM CopiesOwnBlocksHolds == Spec => []CopiesOwnBlocks
<1>1. WorkerInv => CopiesOwnBlocks
  <2> SUFFICES ASSUME WorkerInv PROVE CopiesOwnBlocks
    OBVIOUS
  <2>1. CopiesAhead
    BY DEF WorkerInv
  <2>2. ASSUME NEW j \in 1 .. submitted, \A t \in InFlight : t.job = j => Query(t.end)
        PROVE  moved[j] = j
    <3>1. \A t \in InFlight : t.job = j => ops[t.stream] = <<>>
      BY <2>2, EndedIsIdle
    <3> QED
      BY <2>1, <3>1 DEF CopiesAhead
  <2> QED
    BY <2>1, <2>2 DEF CopiesAhead, CopiesOwnBlocks
<1> QED
  BY <1>1, WorkerInvariant, PTL

-------------------------------------------------------------------------------
(* The worker implements TransferOrder.                                     *)

Queue == [d \in Dirs |-> [i \in DOMAIN transfers[d] |-> transfers[d][i].job]]
Phase == [j \in Jobs |-> PhaseOf(j)]

JobPhase(t) == IF StreamHas(t, t.start) THEN "queued" ELSE IF ops[t.stream] # <<>> THEN "running" ELSE "done"

PhasesAre ==
  /\ \A t \in InFlight : PhaseOf(t.job) = JobPhase(t)
  /\ \A j \in Jobs : j > submitted => PhaseOf(j) = "new"
  /\ \A j \in Jobs : j <= submitted /\ (\A t \in InFlight : t.job # j) => PhaseOf(j) = "retired"

(* A job in flight belongs to one transfer, and ends with its end event.    *)
LEMMA PhasesOK == WorkerInv => PhasesAre
<1> SUFFICES ASSUME WorkerInv PROVE PhasesAre
  OBVIOUS
<1>1. submitted \in Nat /\ \A t \in InFlight : t.job \in Jobs /\ t.job <= submitted /\ t.stream \in Streams
  BY Types DEF WorkerInv, TypeOK, TransfersApart
<1>2. ASSUME NEW t \in InFlight PROVE PhaseOf(t.job) = JobPhase(t)
  <2>1. ~(t.job > submitted)
    BY <1>1
  <2>2. (CHOOSE u \in InFlight : u.job = t.job) = t
    <3>1. \A u \in InFlight : u.job = t.job => u = t
      BY ApartInFlight DEF WorkerInv, Apart
    <3> QED
      BY <3>1
  <2>3. StreamHas(t, t.end) <=> ops[t.stream] # <<>>
    <3>1. RestOfEnqueued(t) /\ ops[t.stream] \in Seq(Op)
      BY <1>1, Types DEF WorkerInv
    <3>2. ops[t.stream] # <<>> => Len(ops[t.stream]) \in DOMAIN ops[t.stream]
      BY <3>1
    <3>3. ops[t.stream] # <<>> => /\ ops[t.stream][Len(ops[t.stream])].kind = "record"
                                  /\ ops[t.stream][Len(ops[t.stream])].event = t.end
      BY <3>1 DEF RestOfEnqueued, Record
    <3> QED
      BY <3>2, <3>3 DEF StreamHas
  <2>4. PhaseOf(t.job) = IF StreamHas(t, t.start) THEN "queued" ELSE IF StreamHas(t, t.end) THEN "running" ELSE "done"
    BY <2>1, <2>2 DEF PhaseOf
  <2> QED
    BY <2>3, <2>4 DEF JobPhase
<1>3. \A j \in Jobs : j > submitted => PhaseOf(j) = "new"
  BY DEF PhaseOf
<1>4. \A j \in Jobs : j <= submitted /\ (\A t \in InFlight : t.job # j) => PhaseOf(j) = "retired"
  BY <1>1 DEF PhaseOf
<1> QED
  BY <1>2, <1>3, <1>4 DEF PhasesAre

LEMMA PhasesNext == WorkerInv' => PhasesAre'
BY PhasesOK, PTL

(* One job changes phase.                                                   *)
LEMMA PhaseChange ==
  ASSUME WorkerInv, WorkerInv', UNCHANGED <<transfers, submitted>>, NEW t \in InFlight,
         \A u \in InFlight : u # t => JobPhase(u)' = JobPhase(u)
  PROVE  Phase' = [Phase EXCEPT ![t.job] = JobPhase(t)']
<1>1. PhasesAre /\ PhasesAre' /\ InFlight' = InFlight /\ t.job \in Jobs /\ submitted \in Nat
  <2>1. PhasesAre /\ PhasesAre'
    BY PhasesOK, PhasesNext
  <2>2. InFlight' = InFlight
    BY DEF InFlight
  <2>3. t.job \in Jobs /\ submitted \in Nat
    BY Types, SMTT(60) DEF WorkerInv, TypeOK
  <2> QED
    BY <2>1, <2>2, <2>3
<1>2. PhaseOf(t.job)' = JobPhase(t)'
  BY <1>1 DEF PhasesAre
<1>3. ASSUME NEW j \in Jobs, j # t.job PROVE PhaseOf(j)' = PhaseOf(j)
  <2>1. CASE \E u \in InFlight : u.job = j
    <3>1. PICK u \in InFlight : u.job = j
      BY <2>1
    <3>2. PhaseOf(u.job)' = JobPhase(u)' /\ PhaseOf(u.job) = JobPhase(u)
      BY <1>1 DEF PhasesAre
    <3>3. JobPhase(u)' = JobPhase(u)
      BY <1>3, <3>1
    <3> QED
      BY <3>1, <3>2, <3>3
  <2>2. CASE j > submitted
    BY <1>1, <2>2 DEF PhasesAre
  <2>3. CASE j <= submitted /\ ~\E u \in InFlight : u.job = j
    BY <1>1, <2>3 DEF PhasesAre
  <2> QED
    BY <1>1, <2>1, <2>2, <2>3
<1>4. \A j \in Jobs : Phase[j] = PhaseOf(j) /\ Phase'[j] = PhaseOf(j)'
  BY DEF Phase
<1>5. Phase' = [j \in Jobs |-> PhaseOf(j)'] /\ Phase = [j \in Jobs |-> PhaseOf(j)]
  BY DEF Phase
<1> QED
  BY <1>1, <1>2, <1>3, <1>5

(* The queue of a direction, as its transfers come and go.                  *)
JobsIn(p) == [i \in DOMAIN p |-> p[i].job]

LEMMA JobsAppended ==
  ASSUME NEW p \in Seq(Transfer), NEW t \in Transfer
  PROVE  JobsIn(Append(p, t)) = Append(JobsIn(p), t.job)
<1>1. PICK q : q = Append(p, t)
  OBVIOUS
<1>2. PICK l : l = Len(p)
  OBVIOUS
<1>3. /\ l \in Nat /\ q \in Seq(Transfer) /\ DOMAIN p = 1 .. l /\ DOMAIN q = 1 .. l + 1
      /\ q[l + 1] = t /\ \A i \in 1 .. l : q[i] = p[i]
  BY <1>1, <1>2
<1>4. PICK a : a = JobsIn(p)
  OBVIOUS
<1>5. \A i \in 1 .. l : p[i] \in Transfer /\ p[i].job \in Jobs
  <2>1. \A i \in 1 .. l : p[i] \in Transfer
    BY <1>2, <1>3, ElementOfSeq
  <2> QED
    BY <2>1 DEF Transfer
<1>6. a \in Seq(Jobs) /\ Len(a) = l /\ \A i \in 1 .. l : a[i] = p[i].job
  <2>1. a = [i \in 1 .. l |-> p[i].job]
    BY <1>3, <1>4 DEF JobsIn
  <2>2. a \in Seq(Jobs)
    BY <1>3, <1>5, <2>1, IsASeq
  <2>3. DOMAIN a = 1 .. l
    BY <2>1
  <2> QED
    BY <1>3, <2>1, <2>2, <2>3, LenProperties
<1>7. PICK b : b = Append(a, t.job)
  OBVIOUS
<1>8. DOMAIN b = 1 .. l + 1 /\ b[l + 1] = t.job /\ \A i \in 1 .. l : b[i] = a[i]
  BY <1>3, <1>6, <1>7
<1>9. b \in Seq(Jobs)
  BY <1>6, <1>7 DEF Transfer
<1>10. b = [i \in 1 .. l + 1 |-> b[i]]
  BY <1>8, <1>9
<1>11. \A i \in 1 .. l + 1 : b[i] = q[i].job
  BY <1>3, <1>6, <1>8
<1>12. b = [i \in 1 .. l + 1 |-> q[i].job]
  BY <1>10, <1>11
<1> QED
  BY <1>1, <1>3, <1>4, <1>7, <1>12 DEF JobsIn

LEMMA JobsLeft ==
  ASSUME NEW p \in Seq(Transfer), NEW n \in Nat, n <= Len(p)
  PROVE  JobsIn(SubSeq(p, n + 1, Len(p))) = SubSeq(JobsIn(p), n + 1, Len(JobsIn(p)))
<1>1. PICK l : l = Len(p)
  OBVIOUS
<1>2. l \in Nat /\ DOMAIN p = 1 .. l /\ n <= l
  BY <1>1
<1>3. PICK a : a = JobsIn(p)
  OBVIOUS
<1>4. \A i \in 1 .. l : p[i] \in Transfer /\ p[i].job \in Jobs
  <2>1. \A i \in 1 .. l : p[i] \in Transfer
    BY <1>1, ElementOfSeq
  <2> QED
    BY <2>1 DEF Transfer
<1>5. a \in Seq(Jobs) /\ Len(a) = l /\ \A i \in 1 .. l : a[i] = p[i].job
  <2>1. a = [i \in 1 .. l |-> p[i].job]
    BY <1>2, <1>3 DEF JobsIn
  <2>2. a \in Seq(Jobs)
    BY <1>2, <1>4, <2>1, IsASeq
  <2>3. DOMAIN a = 1 .. l
    BY <2>1
  <2> QED
    BY <1>2, <2>1, <2>2, <2>3, LenProperties
<1>6. PICK q, b : q = SubSeq(p, n + 1, l) /\ b = SubSeq(a, n + 1, l)
  OBVIOUS
<1>7. PICK m : m = l - n
  OBVIOUS
<1>8. m \in Nat /\ \A i \in 1 .. m : n + i \in 1 .. l
  BY <1>2, <1>7
<1>9. q = [i \in 1 .. m |-> p[n + i]] /\ b = [i \in 1 .. m |-> a[n + i]]
  BY <1>1, <1>2, <1>5, <1>6, <1>7
<1>10. JobsIn(q) = [i \in 1 .. m |-> p[n + i].job]
  BY <1>8, <1>9 DEF JobsIn
<1>11. \A i \in 1 .. m : a[n + i] = p[n + i].job
  BY <1>5, <1>8
<1>12. b = [i \in 1 .. m |-> p[n + i].job]
  BY <1>9, <1>11
<1> QED
  BY <1>1, <1>3, <1>5, <1>6, <1>10, <1>12

LEMMA QueueIs ==
  /\ Queue = [d \in Dirs |-> JobsIn(transfers[d])] /\ Queue' = [d \in Dirs |-> JobsIn(transfers'[d])]
  /\ Phase = [j \in Jobs |-> PhaseOf(j)] /\ Phase' = [j \in Jobs |-> PhaseOf(j)']
  /\ \A d \in Dirs : DOMAIN Queue[d] = DOMAIN transfers[d]
  /\ \A d \in Dirs : \A i \in DOMAIN transfers[d] : Queue[d][i] = transfers[d][i].job
BY DEF Queue, Phase, JobsIn

LEMMA QueueLen ==
  ASSUME TypeOK, NEW d \in Dirs
  PROVE  Queue[d] \in Seq(Jobs) /\ Len(Queue[d]) = Len(transfers[d])
<1>1. PICK l : l = Len(transfers[d])
  OBVIOUS
<1>2. l \in Nat /\ DOMAIN transfers[d] = 1 .. l /\ transfers[d] \in Seq(Transfer)
  BY <1>1, Types
<1>3. \A i \in 1 .. l : transfers[d][i].job \in Jobs
  BY <1>2, InFlightIs, Types
<1>4. Queue[d] = [i \in 1 .. l |-> transfers[d][i].job]
  BY <1>2, QueueIs DEF JobsIn
<1>5. Queue[d] \in Seq(Jobs)
  BY <1>2, <1>3, <1>4, IsASeq
<1>6. DOMAIN Queue[d] = 1 .. l
  BY <1>4
<1> QED
  BY <1>1, <1>2, <1>5, <1>6, LenProperties

(* The actions of TransferOrder in these terms.                             *)
LEMMA OrderActions ==
  /\ \A d \in Dirs, j \in Jobs :
        Order!Submit(d, j) <=>
            /\ Phase[j] = "new"
            /\ Phase' = [Phase EXCEPT ![j] = "queued"]
            /\ Queue' = [Queue EXCEPT ![d] = Append(@, j)]
            /\ fence' = [fence EXCEPT ![j] = enqueued]
            /\ UNCHANGED <<enqueued, over>>
  /\ \A d \in Dirs : \A i :
        Order!Start(d, i) <=>
            /\ Phase[Queue[d][i]] = "queued"
            /\ \A k \in 1 .. i - 1 : Phase[Queue[d][k]] = "done"
            /\ over >= fence[Queue[d][i]]
            /\ Phase' = [Phase EXCEPT ![Queue[d][i]] = "running"]
            /\ Queue' = Queue /\ UNCHANGED <<fence, enqueued, over>>
  /\ \A j \in Jobs :
        Order!Finish(j) <=>
            /\ Phase[j] = "running"
            /\ Phase' = [Phase EXCEPT ![j] = "done"]
            /\ Queue' = Queue /\ UNCHANGED <<fence, enqueued, over>>
  /\ \A n :
        Order!Retire(n) <=>
            /\ \A d \in Dirs : \A i \in 1 .. n[d] : Phase[Queue[d][i]] = "done"
            /\ Queue' = [d \in Dirs |-> SubSeq(Queue[d], n[d] + 1, Len(Queue[d]))]
            /\ Phase' = [j \in Jobs |-> IF \E d \in Dirs : \E i \in 1 .. n[d] : Queue[d][i] = j
                                        THEN "retired" ELSE Phase[j]]
            /\ UNCHANGED <<fence, enqueued, over>>
<1>1. \A d \in Dirs, j \in Jobs :
        Order!Submit(d, j) <=>
            /\ Phase[j] = "new"
            /\ Phase' = [Phase EXCEPT ![j] = "queued"]
            /\ Queue' = [Queue EXCEPT ![d] = Append(@, j)]
            /\ fence' = [fence EXCEPT ![j] = enqueued]
            /\ UNCHANGED <<enqueued, over>>
  BY DEF Order!Submit, Phase, Queue
<1>2. \A d \in Dirs : \A i :
        Order!Start(d, i) <=>
            /\ Phase[Queue[d][i]] = "queued"
            /\ \A k \in 1 .. i - 1 : Phase[Queue[d][k]] = "done"
            /\ over >= fence[Queue[d][i]]
            /\ Phase' = [Phase EXCEPT ![Queue[d][i]] = "running"]
            /\ Queue' = Queue /\ UNCHANGED <<fence, enqueued, over>>
  BY DEF Order!Start, Phase, Queue
<1>3. \A j \in Jobs :
        Order!Finish(j) <=>
            /\ Phase[j] = "running"
            /\ Phase' = [Phase EXCEPT ![j] = "done"]
            /\ Queue' = Queue /\ UNCHANGED <<fence, enqueued, over>>
  BY DEF Order!Finish, Phase, Queue
<1>4. \A n :
        Order!Retire(n) <=>
            /\ \A d \in Dirs : \A i \in 1 .. n[d] : Phase[Queue[d][i]] = "done"
            /\ Queue' = [d \in Dirs |-> SubSeq(Queue[d], n[d] + 1, Len(Queue[d]))]
            /\ Phase' = [j \in Jobs |-> IF \E d \in Dirs : \E i \in 1 .. n[d] : Queue[d][i] = j
                                        THEN "retired" ELSE Phase[j]]
            /\ UNCHANGED <<fence, enqueued, over>>
  BY DEF Order!Retire, Phase, Queue
<1> QED
  BY <1>1, <1>2, <1>3, <1>4

LEMMA SubmitRefines ==
  ASSUME WorkerInv, WorkerInv', NEW d \in Dirs, NEW n \in OpCounts, TransferAsync(d, n)
  PROVE  \E j \in Jobs : Order!Submit(d, j)
<1>1. PICK t, o : Submitted(d, n, t, o) /\ Taken(t)
  BY SubmitIs
<1>2. PICK j : j = t.job
  OBVIOUS
<1>3. /\ t \in Transfer /\ j \in Jobs /\ j = submitted + 1 /\ submitted \in Nat /\ submitted' = submitted + 1
  BY <1>1, <1>2 DEF Submitted, Transfer, WorkerInv, TypeOK
<1>4. PhasesAre /\ PhasesAre'
  BY PhasesOK, PhasesNext
<1>5. InFlight' = InFlight \cup {t} /\ t \in InFlight'
  BY <1>1, SubmittedKeeps
<1>6. PhaseOf(j) = "new"
  BY <1>3, <1>4 DEF PhasesAre
<1>7. PhaseOf(j)' = "queued"
  <2>1. StreamHas(t, t.start)'
    BY <1>1, SubmitNew
  <2>2. JobPhase(t)' = "queued"
    BY <2>1 DEF JobPhase
  <2> QED
    BY <1>2, <1>4, <1>5, <2>2 DEF PhasesAre
<1>8. ASSUME NEW k \in Jobs, k # j PROVE PhaseOf(k)' = PhaseOf(k)
  <2>1. CASE \E u \in InFlight : u.job = k
    <3>1. PICK u \in InFlight : u.job = k
      BY <2>1
    <3>2. ops'[u.stream] = ops[u.stream] /\ (StreamHas(u, u.start)' <=> StreamHas(u, u.start))
      BY <1>1, SubmitOthers
    <3>3. JobPhase(u)' = JobPhase(u)
      BY <3>2 DEF JobPhase
    <3>4. PhaseOf(u.job)' = JobPhase(u)' /\ PhaseOf(u.job) = JobPhase(u)
      BY <1>4, <1>5 DEF PhasesAre
    <3> QED
      BY <3>1, <3>3, <3>4
  <2>2. CASE ~\E u \in InFlight : u.job = k
    <3>1. \A u \in InFlight : u.job # k
      BY <2>2
    <3>2. \A u \in InFlight' : u.job # k
      BY <1>2, <1>5, <1>8, <3>1
    <3>3. (k > submitted <=> k > submitted') /\ (k <= submitted <=> k <= submitted')
          /\ (k > submitted \/ k <= submitted)
      BY <1>3, <1>8
    <3> QED
      BY <1>4, <3>1, <3>2, <3>3 DEF PhasesAre
  <2> QED
    BY <2>1, <2>2
<1>9. Phase[j] = "new" /\ Phase' = [Phase EXCEPT ![j] = "queued"]
  <2>1. Phase' = [k \in Jobs |-> IF k = j THEN "queued" ELSE PhaseOf(k)]
    BY <1>7, <1>8, QueueIs
  <2> QED
    BY <1>3, <1>6, <2>1, QueueIs
<1>10. Queue' = [Queue EXCEPT ![d] = Append(@, j)]
  <2>1. transfers[d] \in Seq(Transfer) /\ transfers'[d] = Append(transfers[d], t)
    BY <1>1 DEF Submitted, WorkerInv, TypeOK
  <2>2. JobsIn(transfers'[d]) = Append(JobsIn(transfers[d]), j)
    BY <1>2, <1>3, <2>1, JobsAppended
  <2>3. \A e \in Dirs \ {d} : transfers'[e] = transfers[e]
    BY <1>1, SubmittedKeeps
  <2>4. Queue' = [e \in Dirs |-> IF e = d THEN Append(JobsIn(transfers[d]), j) ELSE JobsIn(transfers[e])]
    BY <2>2, <2>3, QueueIs
  <2> HIDE DEF JobsIn
  <2> QED
    BY <2>4, QueueIs
<1>11. fence' = [fence EXCEPT ![j] = enqueued] /\ UNCHANGED <<enqueued, over>>
  BY <1>1, <1>2 DEF Submitted
<1>12. Order!Submit(d, j)
  BY <1>3, <1>9, <1>10, <1>11, OrderActions
<1> QED
  BY <1>3, <1>12

(* Transfers leave: their jobs are done, and nobody else's phase changes.   *)
LEMMA RetiredRefines ==
  ASSUME WorkerInv, WorkerInv', NEW n, Retired(n)
  PROVE  Order!Retire(n) /\ n \in [Dirs -> 0 .. Cardinality(Jobs)] /\ \A d \in Dirs : n[d] <= Len(Queue[d])
<1>1. PhasesAre /\ PhasesAre'
  BY PhasesOK, PhasesNext
<1>2. /\ \A d \in Dirs : n[d] \in Nat /\ n[d] <= Len(transfers[d])
      /\ \A d \in Dirs : \A i \in 1 .. n[d] : Query(transfers[d][i].end)
      /\ UNCHANGED <<submitted, ops, fence, enqueued, over>>
  BY DEF Retired, deviceVars
<1>3. \A d \in Dirs : /\ transfers[d] \in Seq(Transfer) /\ Len(transfers[d]) \in Nat
                      /\ DOMAIN transfers[d] = 1 .. Len(transfers[d])
  BY Types DEF WorkerInv
<1>4. \A d \in Dirs : \A i \in 1 .. n[d] : /\ i \in DOMAIN transfers[d] /\ transfers[d][i] \in InFlight
                                           /\ Queue[d][i] = transfers[d][i].job
  <2>1. \A d \in Dirs : \A i \in 1 .. n[d] : i \in DOMAIN transfers[d]
    BY <1>2, <1>3
  <2> QED
    BY <2>1, InFlightIs, QueueIs
<1>5. ASSUME NEW d \in Dirs, NEW i \in 1 .. n[d] PROVE Phase[Queue[d][i]] = "done"
  <2>1. PICK t : t = transfers[d][i]
    OBVIOUS
  <2>2. t \in InFlight /\ Query(t.end) /\ Queue[d][i] = t.job
    BY <1>2, <1>4, <2>1
  <2>3. ops[t.stream] = <<>> /\ t.stream \in Streams /\ t.job \in Jobs
    BY <2>2, EndedIsIdle, Types DEF WorkerInv
  <2>4. JobPhase(t) = "done"
    BY <2>3 DEF JobPhase, StreamHas
  <2> QED
    BY <1>1, <2>2, <2>3, <2>4, QueueIs DEF PhasesAre
<1>6. Queue' = [d \in Dirs |-> SubSeq(Queue[d], n[d] + 1, Len(Queue[d]))]
  <2>1. \A d \in Dirs : JobsIn(SubSeq(transfers[d], n[d] + 1, Len(transfers[d])))
                            = SubSeq(JobsIn(transfers[d]), n[d] + 1, Len(JobsIn(transfers[d])))
    BY <1>2, <1>3, JobsLeft
  <2>2. \A d \in Dirs : transfers'[d] = SubSeq(transfers[d], n[d] + 1, Len(transfers[d]))
    BY DEF Retired
  <2>3. \A d \in Dirs : JobsIn(transfers'[d]) = SubSeq(Queue[d], n[d] + 1, Len(Queue[d]))
    BY <2>1, <2>2, QueueIs
  <2> QED
    BY <2>3, QueueIs
<1>7. ASSUME NEW j \in Jobs
      PROVE  PhaseOf(j)' = IF \E d \in Dirs : \E i \in 1 .. n[d] : Queue[d][i] = j THEN "retired" ELSE PhaseOf(j)
  <2>1. InFlight' \subseteq InFlight /\ submitted \in Nat
    <3>1. InFlight' \subseteq InFlight
      BY RetiredKeepsOrder
    <3> QED
      BY <3>1 DEF WorkerInv, TypeOK
  <2>2. CASE \E d \in Dirs : \E i \in 1 .. n[d] : Queue[d][i] = j
    <3>1. PICK d \in Dirs : \E i \in 1 .. n[d] : Queue[d][i] = j
      BY <2>2
    <3>2. PICK i \in 1 .. n[d] : Queue[d][i] = j
      BY <3>1
    <3>3. PICK t : t = transfers[d][i]
      OBVIOUS
    <3>4. t \in InFlight /\ t.job = j /\ j <= submitted
      BY <1>4, <3>2, <3>3 DEF WorkerInv, TransfersApart
    <3>5. ASSUME NEW u \in InFlight' PROVE u.job # j
      <4>1. u # t
        <5>1. t.stream \notin StreamsInUse'
          BY <3>2, <3>3, GivenBack
        <5>2. u.stream \in StreamsInUse'
          BY <3>5 DEF StreamsInUse
        <5> QED
          BY <5>1, <5>2
      <4>2. u \in InFlight
        BY <2>1
      <4> QED
        BY <3>4, <4>1, <4>2, ApartInFlight DEF WorkerInv, Apart
    <3>6. PhaseOf(j)' = "retired"
      BY <1>1, <1>2, <3>4, <3>5 DEF PhasesAre
    <3> QED
      BY <2>2, <3>6
  <2>3. CASE ~\E d \in Dirs : \E i \in 1 .. n[d] : Queue[d][i] = j
    <3>1. CASE \E u \in InFlight : u.job = j
      <4>1. PICK u \in InFlight : u.job = j
        BY <3>1
      <4>2. \A d \in Dirs : \A i \in 1 .. n[d] : u # transfers[d][i]
        BY <1>4, <2>3, <4>1
      <4>3. u \in InFlight'
        BY <4>2, RetiredKeepsOrder
      <4>4. JobPhase(u)' = JobPhase(u)
        BY <1>2 DEF JobPhase, StreamHas
      <4>5. PhaseOf(u.job)' = JobPhase(u)' /\ PhaseOf(u.job) = JobPhase(u)
        BY <1>1, <4>3 DEF PhasesAre
      <4> QED
        BY <2>3, <4>1, <4>4, <4>5
    <3>2. CASE ~\E u \in InFlight : u.job = j
      <4>1. (\A u \in InFlight : u.job # j) /\ (\A u \in InFlight' : u.job # j)
        BY <2>1, <3>2
      <4>2. j > submitted \/ j <= submitted
        BY <2>1
      <4>3. PhaseOf(j)' = PhaseOf(j)
        BY <1>1, <1>2, <4>1, <4>2 DEF PhasesAre
      <4> QED
        BY <2>3, <4>3
    <3> QED
      BY <3>1, <3>2
  <2> QED
    BY <2>2, <2>3
<1>8. Phase' = [j \in Jobs |-> IF \E d \in Dirs : \E i \in 1 .. n[d] : Queue[d][i] = j
                               THEN "retired" ELSE Phase[j]]
  BY <1>7, QueueIs
<1>9. Order!Retire(n)
  BY <1>2, <1>5, <1>6, <1>8, OrderActions
<1>10. n \in [Dirs -> 0 .. Cardinality(Jobs)]
  <2>1. Cardinality(Jobs) = NumJobs /\ NumJobs \in Nat
    <3>1. NumJobs \in Nat
      BY OffloadAssumption DEF OffloadAssumption
    <3>2. Cardinality(1 .. NumJobs) = IF 1 > NumJobs THEN 0 ELSE NumJobs - 1 + 1
      BY <3>1, FS_Interval
    <3> QED
      BY <3>1, <3>2
  <2>2. \A d \in Dirs : Len(transfers[d]) <= submitted /\ submitted \in 0 .. NumJobs
    BY DEF WorkerInv, TransfersApart, TypeOK
  <2>3. \A d \in Dirs : n[d] \in 0 .. NumJobs
    BY <1>2, <1>3, <2>1, <2>2
  <2> QED
    BY <2>1, <2>3 DEF Retired
<1>11. \A d \in Dirs : n[d] <= Len(Queue[d])
  <2>1. \A d \in Dirs : Len(Queue[d]) = Len(transfers[d])
    BY QueueLen DEF WorkerInv
  <2> QED
    BY <1>2, <2>1
<1> QED
  BY <1>9, <1>10, <1>11

(* Record(start) is executed when the transfers before it have ended and    *)
(* the steps before it are over; the stream ends with Record(end).          *)
LEMMA ExecuteRefines ==
  ASSUME WorkerInv, WorkerInv', NEW s \in Streams, Execute(s)
  PROVE  \/ \E d \in Dirs : \E i \in 1 .. Len(Queue[d]) : Order!Start(d, i)
         \/ \E j \in Jobs : Order!Finish(j)
         \/ UNCHANGED <<Queue, Phase, fence, enqueued, over>>
<1>1. PICK t, o, op, r : HeadOf(t, s, o, op, r)
  BY ExecuteIs
<1>2. UNCHANGED <<transfers, submitted, fence, enqueued, over>>
  BY DEF Execute, handlerVars
<1>3. PhasesAre /\ PhasesAre'
  BY PhasesOK, PhasesNext
<1>4. /\ t \in InFlight /\ t.job \in Jobs /\ s = t.stream /\ o = ops[s] /\ o # <<>> /\ r = ops'[s]
      /\ Phase[t.job] = JobPhase(t)
  <2>1. t \in InFlight /\ s = t.stream /\ o = ops[s] /\ o # <<>> /\ r = ops'[s]
    BY <1>1 DEF HeadOf
  <2> QED
    BY <1>3, <2>1, QueueIs, Types DEF WorkerInv, PhasesAre
<1>5. ASSUME NEW u \in InFlight, u # t PROVE JobPhase(u)' = JobPhase(u)
  BY <1>1, <1>5, ExecuteOthers DEF JobPhase
<1>6. Phase' = [Phase EXCEPT ![t.job] = JobPhase(t)']
  BY <1>2, <1>4, <1>5, PhaseChange
<1>7. Queue' = Queue /\ Phase \in [Jobs -> {"new", "queued", "running", "done", "retired"}]
  BY <1>2, QueueIs DEF PhaseOf
<1>8. StreamHas(t, t.start)' => StreamHas(t, t.start)
  BY <1>1, ExecuteOwn
<1>9. CASE JobPhase(t)' = JobPhase(t)
  <2>1. Phase' = Phase
    BY <1>4, <1>6, <1>7, <1>9
  <2> QED
    BY <1>2, <1>7, <2>1
<1>10. CASE StreamHas(t, t.start) /\ ~StreamHas(t, t.start)'
  <2>1. \A k \in DOMAIN o : o[k].kind \notin {"steps", "event"}
    BY <1>1, <1>10, ExecuteOwn
  <2>2. r # <<>>
    <3>1. RestOfEnqueued(t) /\ t.start # t.end
      BY <1>1 DEF HeadOf
    <3>2. o \in Seq(Op) /\ r = Tail(o) /\ op = Head(o)
      BY <1>1, <1>4, Types DEF WorkerInv, HeadOf
    <3>3. o[1] = op /\ (r = <<>> <=> Len(o) = 1)
      BY <1>4, <3>2, HeadGone, SMTT(60)
    <3>4. o[Len(o)] = Record(t.end, recorded[t.end])
      BY <1>4, <3>1 DEF RestOfEnqueued
    <3>5. op = Record(t.start, recorded[t.start])
      BY <1>1, <1>10, ExecuteOwn
    <3> QED
      BY <3>1, <3>3, <3>4, <3>5 DEF Record
  <2>3. JobPhase(t) = "queued" /\ JobPhase(t)' = "running"
    BY <1>4, <1>10, <2>2 DEF JobPhase
  <2>4. over >= fence[t.job]
    <3>1. EffectOfExecuted(t)
      BY <1>1 DEF HeadOf
    <3>2. fence[t.job] <= over
      BY <1>4, <2>1, <3>1 DEF EffectOfExecuted
    <3> QED
      BY <1>4, <3>2 DEF WorkerInv, TypeOK
  <2>5. PICK d \in Dirs : \E i \in DOMAIN transfers[d] : t = transfers[d][i]
    BY <1>4, InFlightIs
  <2>6. PICK i \in DOMAIN transfers[d] : t = transfers[d][i]
    BY <2>5
  <2>7. PICK l : l = Len(transfers[d])
    OBVIOUS
  <2>8. l \in Nat /\ DOMAIN transfers[d] = 1 .. l /\ i \in 1 .. l /\ Len(Queue[d]) = l
    <3>1. l \in Nat /\ DOMAIN transfers[d] = 1 .. l
      BY <2>7, Types DEF WorkerInv
    <3> QED
      BY <2>6, <2>7, <3>1, QueueLen DEF WorkerInv
  <2>9. ASSUME NEW k \in 1 .. i - 1 PROVE Phase[Queue[d][k]] = "done"
    <3>1. PICK u : u = transfers[d][k]
      OBVIOUS
    <3>2. k \in DOMAIN transfers[d] /\ k # i
      BY <2>8
    <3>3. u \in InFlight /\ Queue[d][k] = u.job /\ u.job \in Jobs /\ u.stream \in Streams
      BY <3>1, <3>2, InFlightIs, QueueIs, Types DEF WorkerInv
    <3>4. ops'[u.stream] = <<>>
      <4>1. i \in 2 .. l
        BY <2>8
      <4>2. Chained(d, i)'
        BY <2>7, <4>1, ExecuteChained
      <4>3. transfers'[d][i] = t
        BY <1>2, <2>6
      <4>4. \A m \in 1 .. i - 1 : ops'[transfers'[d][m].stream] = <<>>
        BY <1>10, <4>2, <4>3 DEF Chained
      <4> QED
        BY <1>2, <3>1, <4>4
    <3>5. u # t
      BY <2>6, <3>1, <3>2 DEF WorkerInv, TransfersApart, Apart
    <3>6. ops[u.stream] = <<>>
      BY <1>1, <3>3, <3>4, <3>5, ExecuteOthers
    <3>7. JobPhase(u) = "done"
      BY <3>6 DEF JobPhase, StreamHas
    <3> QED
      BY <1>3, <3>3, <3>7, QueueIs DEF PhasesAre
  <2>10. Queue[d][i] = t.job
    BY <2>6, QueueIs
  <2>11. /\ Phase[Queue[d][i]] = "queued"
         /\ over >= fence[Queue[d][i]]
         /\ Phase' = [Phase EXCEPT ![Queue[d][i]] = "running"]
    BY <1>4, <1>6, <2>3, <2>4, <2>10
  <2>12. Order!Start(d, i)
    BY <1>2, <1>7, <2>9, <2>11, OrderActions
  <2> QED
    BY <2>8, <2>12
<1>11. CASE ~StreamHas(t, t.start) /\ r = <<>>
  <2>1. JobPhase(t) = "running" /\ JobPhase(t)' = "done"
    BY <1>4, <1>8, <1>11 DEF JobPhase
  <2>2. Phase[t.job] = "running" /\ Phase' = [Phase EXCEPT ![t.job] = "done"] /\ Queue' = Queue
    BY <1>4, <1>6, <1>7, <2>1
  <2>3. Order!Finish(t.job)
    BY <1>2, <1>4, <2>2, OrderActions
  <2> QED
    BY <1>4, <2>3
<1>12. CASE (StreamHas(t, t.start) /\ StreamHas(t, t.start)') \/ (~StreamHas(t, t.start) /\ r # <<>>)
  <2>1. JobPhase(t)' = JobPhase(t)
    BY <1>4, <1>8, <1>12 DEF JobPhase
  <2> QED
    BY <1>9, <2>1
<1> QED
  BY <1>10, <1>11, <1>12

LEMMA OrderInitially == Init => Order!Init
<1> SUFFICES ASSUME Init PROVE Order!Init
  OBVIOUS
<1>1. \A d \in Dirs : DOMAIN transfers[d] = {}
  BY DEF Init
<1>2. Queue = [d \in Dirs |-> <<>>]
  <2>1. \A d \in Dirs : [i \in DOMAIN transfers[d] |-> transfers[d][i].job] = <<>>
    BY <1>1
  <2> QED
    BY <2>1 DEF Queue
<1>3. Phase = [j \in Jobs |-> "new"]
  BY DEF Init, Phase, PhaseOf
<1> QED
  BY <1>2, <1>3 DEF Init, Order!Init, Queue, Phase

LEMMA SamePhases ==
  ASSUME UNCHANGED <<transfers, ops, submitted>>
  PROVE  Queue' = Queue /\ Phase' = Phase
<1>1. InFlight' = InFlight
  BY DEF InFlight
<1>2. \A t, e : StreamHas(t, e)' <=> StreamHas(t, e)
  BY DEF StreamHas
<1>3. ASSUME NEW j PROVE PhaseOf(j)' = PhaseOf(j)
  BY <1>1, <1>2 DEF PhaseOf
<1> QED
  BY <1>3, QueueIs

(* Every step of the worker is a step of TransferOrder, or none.            *)
LEMMA OrderStep ==
  ASSUME WorkerInv, WorkerInv', [Next]_vars
  PROVE  [Order!Next]_(Order!vars)
<1>1. Order!vars = <<Queue, Phase, fence, enqueued, over>>
  BY DEF Order!vars, Queue, Phase
<1>2. Order!vars' = <<Queue', Phase', fence', enqueued', over'>>
  BY DEF Order!vars, Queue, Phase
<1>3. CASE SubmitStore \/ SubmitLoad
  <2>1. \E d \in Dirs, n \in OpCounts : TransferAsync(d, n)
    BY <1>3 DEF SubmitStore, SubmitLoad, Dirs
  <2>2. \E d \in Dirs, j \in Jobs : Order!Submit(d, j)
    BY <2>1, SubmitRefines
  <2> QED
    BY <2>2 DEF Order!Next
<1>4. ASSUME NEW n, Retired(n) PROVE Order!Next
  <2>1. Order!Retire(n) /\ n \in [Dirs -> 0 .. Cardinality(Jobs)] /\ \A d \in Dirs : n[d] <= Len(Queue[d])
    BY <1>4, RetiredRefines
  <2>2. \A d \in Dirs : n[d] <= Len([i \in DOMAIN transfers[d] |-> transfers[d][i].job])
    BY <2>1 DEF Queue
  <2>3. \E k \in [Dirs -> 0 .. Cardinality(Jobs)] :
            (\A d \in Dirs : k[d] <= Len([i \in DOMAIN transfers[d] |-> transfers[d][i].job])) /\ Order!Retire(k)
    BY <2>1, <2>2, Zenon
  <2>4. Order!Cardinality(Jobs) = Cardinality(Jobs)
    BY DEF Order!Cardinality, Cardinality
  <2>5. \E k \in [Dirs -> 0 .. Order!Cardinality(Jobs)] :
            (\A d \in Dirs : k[d] <= Len([i \in DOMAIN transfers[d] |-> transfers[d][i].job])) /\ Order!Retire(k)
    BY <2>3, <2>4
  <2> QED
    BY <2>5 DEF Order!Next
<1>5. CASE GetFinished
  BY <1>4, <1>5, GetFinishedRetires
<1>6. CASE \E d \in Dirs : DrainTransfer(d)
  BY <1>4, <1>6, DrainRetires
<1>7. CASE \E s \in Streams : Execute(s)
  <2>1. \/ \E d \in Dirs : \E i \in 1 .. Len(Queue[d]) : Order!Start(d, i)
        \/ \E j \in Jobs : Order!Finish(j)
        \/ UNCHANGED <<Queue, Phase, fence, enqueued, over>>
    BY <1>7, ExecuteRefines
  <2>2. (\E d \in Dirs : \E i \in 1 .. Len(Queue[d]) : Order!Start(d, i)) => Order!Next
    BY DEF Order!Next, Queue
  <2>3. (\E j \in Jobs : Order!Finish(j)) => Order!Next
    BY DEF Order!Next
  <2> QED
    BY <1>1, <1>2, <2>1, <2>2, <2>3
<1>8. CASE EnqueueStep \/ EndStep
  <2>1. Queue' = Queue /\ Phase' = Phase
    BY <1>8, SamePhases DEF EnqueueStep, EndStep, handlerVars, deviceVars
  <2>2. Order!EnqueueStep \/ Order!EndStep
    BY <1>8, <2>1 DEF EnqueueStep, EndStep, Order!EnqueueStep, Order!EndStep, Queue, Phase, deviceVars
  <2> QED
    BY <2>2 DEF Order!Next
<1>9. CASE BeginWait \/ EndWait \/ Shutdown \/ (\E d \in Dirs : EndShutdown(d)) \/ UNCHANGED vars
  <2>1. UNCHANGED <<transfers, ops, submitted, fence, enqueued, over>>
    BY <1>9 DEF BeginWait, EndWait, Shutdown, EndShutdown, handlerVars, deviceVars, vars
  <2>2. Queue' = Queue /\ Phase' = Phase
    BY <2>1, SamePhases
  <2> QED
    BY <1>1, <1>2, <2>1, <2>2
<1> QED
  BY <1>3, <1>5, <1>6, <1>7, <1>8, <1>9 DEF Next

(* In each direction transfers run in the order of submission, one at a     *)
(* time, behind the model steps enqueued before them, and leave in that     *)
(* order after their end.                                                   *)
THEOREM InSubmissionOrderHolds == Spec => InSubmissionOrder
<1>1. Init => Order!Init
  BY OrderInitially
<1>2. WorkerInv /\ WorkerInv' /\ [Next]_vars => [Order!Next]_(Order!vars)
  BY OrderStep
<1> QED
  BY <1>1, <1>2, WorkerInvariant, PTL DEF Spec, InSubmissionOrder, Order!Spec
=============================================================================
