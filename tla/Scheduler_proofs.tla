--------------------------- MODULE Scheduler_proofs ---------------------------
(* Proofs about Scheduler for every set of requests and blocks and every    *)
(* value of the parameters: its variables keep their shapes, no block is    *)
(* lost, and without streaming sessions the queues stay consistent.         *)
EXTENDS Scheduler, SequenceTheorems, FiniteSetTheorems, WellFoundedInduction, TLAPS

-------------------------------------------------------------------------------
(* Queues.                                                                  *)

(* What the operations of a queue keep and lose.                            *)
LEMMA QueueAppend ==
  ASSUME NEW S, NEW s \in Seq(S), NEW x \in S
  PROVE  /\ Append(s, x) \in Seq(S)
         /\ ToSet(Append(s, x)) = ToSet(s) \cup {x}
         /\ IsInjective(s) /\ x \notin ToSet(s) => IsInjective(Append(s, x))
<1> DEFINE t == Append(s, x)
<1>1. t \in Seq(S) /\ DOMAIN t = 1 .. Len(s) + 1 /\ DOMAIN s = 1 .. Len(s) /\ Len(s) \in Nat
  OBVIOUS
<1>2. \A i \in DOMAIN s : i \in DOMAIN t /\ t[i] = s[i]
  OBVIOUS
<1>3. t[Len(s) + 1] = x
  OBVIOUS
<1> HIDE DEF t
<1>4. ToSet(t) = ToSet(s) \cup {x}
  BY <1>1, <1>2, <1>3 DEF ToSet
<1>5. ASSUME IsInjective(s), x \notin ToSet(s) PROVE IsInjective(t)
  BY <1>1, <1>2, <1>3, <1>5 DEF ToSet, IsInjective
<1> QED
  BY <1>1, <1>4, <1>5 DEF t

LEMMA QueueCons ==
  ASSUME NEW S, NEW s \in Seq(S), NEW x \in S
  PROVE  /\ <<x>> \o s \in Seq(S)
         /\ ToSet(<<x>> \o s) = ToSet(s) \cup {x}
         /\ IsInjective(s) /\ x \notin ToSet(s) => IsInjective(<<x>> \o s)
<1> DEFINE t == <<x>> \o s
<1>1. t \in Seq(S) /\ DOMAIN t = 1 .. Len(s) + 1 /\ DOMAIN s = 1 .. Len(s) /\ Len(s) \in Nat
  OBVIOUS
<1>2. \A i \in DOMAIN s : i + 1 \in DOMAIN t /\ t[i + 1] = s[i]
  OBVIOUS
<1>3. t[1] = x
  OBVIOUS
<1> HIDE DEF t
<1>4. \A i \in DOMAIN t : i = 1 \/ (i - 1 \in DOMAIN s /\ t[i] = s[i - 1])
  BY <1>1, <1>2
<1>5. ToSet(t) = ToSet(s) \cup {x}
  BY <1>1, <1>2, <1>3, <1>4 DEF ToSet
<1>6. ASSUME IsInjective(s), x \notin ToSet(s) PROVE IsInjective(t)
  BY <1>1, <1>2, <1>3, <1>4, <1>6, SMTT(60) DEF ToSet, IsInjective
<1> QED
  BY <1>1, <1>5, <1>6 DEF t

LEMMA QueueTail ==
  ASSUME NEW S, NEW s \in Seq(S), s # <<>>
  PROVE  /\ Tail(s) \in Seq(S) /\ Head(s) \in S /\ Head(s) \in ToSet(s)
         /\ ToSet(Tail(s)) \subseteq ToSet(s)
         /\ ToSet(s) = ToSet(Tail(s)) \cup {Head(s)}
         /\ IsInjective(s) => IsInjective(Tail(s)) /\ Head(s) \notin ToSet(Tail(s))
<1> DEFINE t == Tail(s)
<1>1. /\ t \in Seq(S) /\ Len(s) \in Nat \ {0} /\ DOMAIN s = 1 .. Len(s)
      /\ DOMAIN t = 1 .. Len(s) - 1
  OBVIOUS
<1>2. \A i \in DOMAIN t : i + 1 \in DOMAIN s /\ t[i] = s[i + 1]
  OBVIOUS
<1>3. Head(s) = s[1] /\ 1 \in DOMAIN s /\ s[1] \in S
  OBVIOUS
<1> HIDE DEF t
<1>4. \A i \in DOMAIN s : i = 1 \/ (i - 1 \in DOMAIN t /\ s[i] = t[i - 1])
  BY <1>1, <1>2
<1>5. ToSet(s) = ToSet(t) \cup {Head(s)}
  BY <1>1, <1>2, <1>3, <1>4 DEF ToSet
<1>6. ASSUME IsInjective(s) PROVE IsInjective(t) /\ Head(s) \notin ToSet(t)
  BY <1>1, <1>2, <1>3, <1>6, SMTT(60) DEF ToSet, IsInjective
<1> QED
  BY <1>1, <1>3, <1>5, <1>6 DEF t

LEMMA QueueFront ==
  ASSUME NEW S, NEW s \in Seq(S), s # <<>>
  PROVE  /\ Front(s) \in Seq(S) /\ Last(s) \in S /\ Last(s) \in ToSet(s)
         /\ Len(Front(s)) = Len(s) - 1
         /\ ToSet(s) = ToSet(Front(s)) \cup {Last(s)}
         /\ IsInjective(s) => IsInjective(Front(s)) /\ Last(s) \notin ToSet(Front(s))
<1> DEFINE t == Front(s)
<1>1. /\ t \in Seq(S) /\ Len(s) \in Nat \ {0} /\ DOMAIN s = 1 .. Len(s)
      /\ DOMAIN t = 1 .. Len(s) - 1 /\ Len(t) = Len(s) - 1
  <2>1. Len(s) \in Nat \ {0} /\ DOMAIN s = 1 .. Len(s)
    OBVIOUS
  <2>2. \A i \in 1 .. Len(s) - 1 : s[i] \in S
    BY <2>1
  <2>3. t = [i \in 1 .. Len(s) - 1 |-> s[i]]
    BY <2>1 DEF Front
  <2> QED
    BY <2>1, <2>2, <2>3
<1>2. \A i \in DOMAIN t : i \in DOMAIN s /\ t[i] = s[i]
  <2>1. 1 \in Int /\ Len(s) - 1 \in Int /\ 1 .. Len(s) - 1 \subseteq DOMAIN s
    BY <1>1
  <2>2. t = [i \in 1 .. Len(s) - 1 |-> s[i]]
    BY <1>1 DEF Front
  <2> QED
    BY <2>1, <2>2, <1>1
<1>3. Last(s) = s[Len(s)] /\ Len(s) \in DOMAIN s /\ s[Len(s)] \in S
  BY <1>1 DEF Last
<1> HIDE DEF t
<1>4. \A i \in DOMAIN s : i = Len(s) \/ (i \in DOMAIN t /\ s[i] = t[i])
  BY <1>1, <1>2
<1>5. ToSet(s) = ToSet(t) \cup {Last(s)}
  BY <1>1, <1>2, <1>3, <1>4 DEF ToSet
<1>6. ASSUME IsInjective(s) PROVE IsInjective(t) /\ Last(s) \notin ToSet(t)
  BY <1>1, <1>2, <1>3, <1>6 DEF ToSet, IsInjective
<1> QED
  BY <1>1, <1>3, <1>5, <1>6 DEF t

LEMMA QueueConcat ==
  ASSUME NEW S, NEW s \in Seq(S), NEW t \in Seq(S)
  PROVE  /\ s \o t \in Seq(S)
         /\ ToSet(s \o t) = ToSet(s) \cup ToSet(t)
         /\ IsInjective(s) /\ IsInjective(t) /\ ToSet(s) \cap ToSet(t) = {} => IsInjective(s \o t)
<1> DEFINE u == s \o t
<1>1. /\ u \in Seq(S) /\ Len(s) \in Nat /\ Len(t) \in Nat /\ DOMAIN s = 1 .. Len(s)
      /\ DOMAIN t = 1 .. Len(t) /\ DOMAIN u = 1 .. Len(s) + Len(t)
  OBVIOUS
<1>2. \A i \in DOMAIN s : i \in DOMAIN u /\ u[i] = s[i]
  OBVIOUS
<1>3. \A i \in DOMAIN t : i + Len(s) \in DOMAIN u /\ u[i + Len(s)] = t[i]
  OBVIOUS
<1> HIDE DEF u
<1>4. \A i \in DOMAIN u : i \in DOMAIN s \/ (i - Len(s) \in DOMAIN t /\ u[i] = t[i - Len(s)])
  BY <1>1, <1>3
<1>5. ToSet(u) = ToSet(s) \cup ToSet(t)
  BY <1>1, <1>2, <1>3, <1>4 DEF ToSet
<1>6. ASSUME IsInjective(s), IsInjective(t), ToSet(s) \cap ToSet(t) = {} PROVE IsInjective(u)
  <2> SUFFICES ASSUME NEW i \in DOMAIN u, NEW j \in DOMAIN u, u[i] = u[j] PROVE i = j
    BY DEF IsInjective
  <2>1. ASSUME NEW a \in DOMAIN s, NEW b \in DOMAIN t PROVE s[a] # t[b]
    BY <1>6 DEF ToSet
  <2>2. CASE i \in DOMAIN s /\ j \in DOMAIN s
    BY <2>2, <1>2, <1>6 DEF IsInjective
  <2>3. CASE i \in DOMAIN s /\ j \notin DOMAIN s
    BY <2>3, <2>1, <1>2, <1>4
  <2>4. CASE i \notin DOMAIN s /\ j \in DOMAIN s
    BY <2>4, <2>1, <1>2, <1>4
  <2>5. CASE i \notin DOMAIN s /\ j \notin DOMAIN s
    <3>1. i - Len(s) \in DOMAIN t /\ j - Len(s) \in DOMAIN t
      BY <2>5, <1>4
    <3>2. i - Len(s) = j - Len(s)
      BY <3>1, <2>5, <1>4, <1>6 DEF IsInjective
    <3> QED
      BY <3>2, <1>1
  <2> QED
    BY <2>2, <2>3, <2>4, <2>5
<1> QED
  BY <1>1, <1>5, <1>6 DEF u

LEMMA QueueReverse ==
  ASSUME NEW S, NEW s \in Seq(S)
  PROVE  /\ Reverse(s) \in Seq(S)
         /\ ToSet(Reverse(s)) = ToSet(s)
         /\ IsInjective(s) => IsInjective(Reverse(s))
<1> DEFINE t == Reverse(s)
<1>1. /\ t \in Seq(S) /\ Len(s) \in Nat /\ DOMAIN s = 1 .. Len(s) /\ DOMAIN t = 1 .. Len(s)
  BY DEF Reverse
<1>2. \A i \in DOMAIN t : Len(s) - i + 1 \in DOMAIN s /\ t[i] = s[Len(s) - i + 1]
  BY DEF Reverse
<1> HIDE DEF t
<1>3. \A i \in DOMAIN s : Len(s) - i + 1 \in DOMAIN t /\ t[Len(s) - i + 1] = s[i]
  BY <1>1, <1>2
<1>4. ToSet(t) = ToSet(s)
  BY <1>1, <1>2, <1>3 DEF ToSet
<1>5. ASSUME IsInjective(s) PROVE IsInjective(t)
  BY <1>1, <1>2, <1>5 DEF IsInjective
<1> QED
  BY <1>1, <1>4, <1>5 DEF t

LEMMA SmallestNat ==
  ASSUME NEW T, T \subseteq Nat, T # {}
  PROVE  \E n \in T : \A m \in T : n <= m
<1> DEFINE R == OpToRel(<, Nat)
<1>1. PICK n \in T : \A m \in T : ~ (<<m, n>> \in R)
  BY NatLessThanWellFounded, WFMin
<1>2. \A m \in T : ~ (m < n)
  BY <1>1 DEF OpToRel
<1> QED
  BY <1>2

(* Induction over the positions of a sequence.                              *)
LEMMA UpTo ==
  ASSUME NEW n \in Nat, NEW T, 0 \in T, \A i \in 0 .. n - 1 : i \in T => i + 1 \in T
  PROVE  0 .. n \subseteq T
<1> SUFFICES ASSUME (0 .. n) \ T # {} PROVE FALSE
  OBVIOUS
<1>1. PICK m \in (0 .. n) \ T : \A k \in (0 .. n) \ T : m <= k
  <2> DEFINE U == (0 .. n) \ T
  <2>1. U \subseteq Nat /\ U # {}
    OBVIOUS
  <2> HIDE DEF U
  <2>2. \E m \in U : \A k \in U : m <= k
    BY <2>1, SmallestNat
  <2> QED
    BY <2>2 DEF U
<1>2. m # 0 /\ m - 1 \in 0 .. n - 1
  OBVIOUS
<1>3. m - 1 \in T
  BY <1>1, <1>2
<1> QED
  BY <1>2, <1>3

(* The recursion of RemoveAll.                                              *)
Keeps(f, s, T, n) ==
  f = [i \in 0 .. n |->
        IF i = 0 THEN <<>> ELSE IF s[i] \in T THEN f[i - 1] ELSE Append(f[i - 1], s[i])]

LEMMA KeepsExists ==
  ASSUME NEW S, NEW s \in Seq(S), NEW T
  PROVE  \E f : Keeps(f, s, T, Len(s))
<1> DEFINE G == {n \in Nat : \E f : Keeps(f, s, T, n)}
<1>1. Len(s) \in Nat
  OBVIOUS
<1>2. 0 \in G
  <2> DEFINE f == [i \in 0 .. 0 |-> <<>>]
  <2>1. Keeps(f, s, T, 0)
    BY DEF Keeps
  <2> QED
    BY <2>1
<1>3. ASSUME NEW n \in 0 .. Len(s) - 1, n \in G PROVE n + 1 \in G
  <2>1. PICK f : Keeps(f, s, T, n)
    BY <1>3
  <2> DEFINE Last1 == IF s[n + 1] \in T THEN f[n] ELSE Append(f[n], s[n + 1])
  <2> DEFINE g == [i \in 0 .. n + 1 |-> IF i <= n THEN f[i] ELSE Last1]
  <2>2. \A i \in 0 .. n : f[i] = IF i = 0 THEN <<>> ELSE IF s[i] \in T THEN f[i - 1]
                                               ELSE Append(f[i - 1], s[i])
    BY <2>1 DEF Keeps
  <2>3. \A i \in 0 .. n : g[i] = f[i]
    OBVIOUS
  <2>4. g[n + 1] = Last1
    OBVIOUS
  <2>5. \A i \in 0 .. n + 1 :
          g[i] = IF i = 0 THEN <<>> ELSE IF s[i] \in T THEN g[i - 1]
                                         ELSE Append(g[i - 1], s[i])
    <3> TAKE i \in 0 .. n + 1
    <3> HIDE DEF g
    <3>1. CASE i = n + 1
      <4>1. g[i] = Last1 /\ g[i - 1] = f[n] /\ i # 0
        BY <2>3, <2>4, <3>1
      <4> QED
        BY <4>1, <3>1
    <3>2. CASE i \in 0 .. n /\ i # 0
      <4>1. g[i] = f[i] /\ g[i - 1] = f[i - 1]
        BY <2>3, <3>2
      <4> QED
        BY <4>1, <2>2, <3>2
    <3>3. CASE i = 0
      BY <3>3, <2>2, <2>3
    <3> QED
      BY <3>1, <3>2, <3>3
  <2>6. Keeps(g, s, T, n + 1)
    <3>1. g = [i \in 0 .. n + 1 |-> g[i]]
      OBVIOUS
    <3> HIDE DEF g
    <3> QED
      BY <3>1, <2>5 DEF Keeps
  <2> HIDE DEF g
  <2> QED
    BY <2>6
<1> HIDE DEF G
<1>4. Len(s) \in G
  <2>1. 0 .. Len(s) \subseteq G
    BY <1>1, <1>2, <1>3, UpTo
  <2> QED
    BY <1>1, <2>1
<1> QED
  BY <1>4 DEF G

(* remove_requests drops exactly the requests of T, and keeps the others    *)
(* once if they were there once.                                            *)
LEMMA QueueRemoveAll ==
  ASSUME NEW S, NEW s \in Seq(S), NEW T
  PROVE  /\ RemoveAll(s, T) \in Seq(S)
         /\ ToSet(RemoveAll(s, T)) = ToSet(s) \ T
         /\ IsInjective(s) => IsInjective(RemoveAll(s, T))
         /\ Len(RemoveAll(s, T)) <= Len(s)
<1> DEFINE f == CHOOSE f : Keeps(f, s, T, Len(s))
<1>1. RemoveAll(s, T) = f[Len(s)]
  BY DEF RemoveAll, Keeps
<1>2. Keeps(f, s, T, Len(s))
  BY KeepsExists
<1> HIDE DEF f
<1>3. \A i \in 0 .. Len(s) :
        f[i] = IF i = 0 THEN <<>> ELSE IF s[i] \in T THEN f[i - 1] ELSE Append(f[i - 1], s[i])
  BY <1>2 DEF Keeps
<1> DEFINE Until(i) == {s[j] : j \in 1 .. i}
           Good(i) == /\ f[i] \in Seq(S) /\ Len(f[i]) <= i
                      /\ ToSet(f[i]) = Until(i) \ T
                      /\ IsInjective(s) => IsInjective(f[i])
           G == {i \in 0 .. Len(s) : Good(i)}
<1>4. Good(0)
  <2>1. f[0] = <<>> /\ Until(0) = {}
    BY <1>3
  <2> QED
    BY <2>1 DEF ToSet, IsInjective
<1>5. ASSUME NEW i \in 0 .. Len(s) - 1, Good(i) PROVE Good(i + 1)
  <2>1. s[i + 1] \in S /\ Until(i + 1) = Until(i) \cup {s[i + 1]}
    OBVIOUS
  <2>2. f[i + 1] = IF s[i + 1] \in T THEN f[i] ELSE Append(f[i], s[i + 1])
    BY <1>3
  <2>3. IsInjective(s) => s[i + 1] \notin Until(i)
    BY DEF IsInjective
  <2> HIDE DEF Until
  <2>4. CASE s[i + 1] \in T
    BY <2>4, <2>1, <2>2, <1>5
  <2>5. CASE s[i + 1] \notin T
    <3>1. f[i + 1] = Append(f[i], s[i + 1]) /\ f[i] \in Seq(S) /\ Len(f[i]) <= i
      BY <1>5, <2>2, <2>5
    <3>2. Len(f[i + 1]) <= i + 1
      BY <2>1, <3>1
    <3> QED
      BY <2>5, <2>1, <2>3, <1>5, <3>1, <3>2, QueueAppend
  <2> QED
    BY <2>4, <2>5
<1> HIDE DEF Good
<1>6. Good(Len(s))
  <2>1. Len(s) \in Nat
    OBVIOUS
  <2>2. 0 \in G /\ \A i \in 0 .. Len(s) - 1 : i \in G => i + 1 \in G
    BY <1>4, <1>5, <2>1
  <2>3. 0 .. Len(s) \subseteq G
    <3> HIDE DEF G
    <3> QED
      BY <2>1, <2>2, UpTo
  <2> QED
    BY <2>1, <2>3
<1>7. ToSet(s) = Until(Len(s))
  BY DEF ToSet
<1> QED
  BY <1>1, <1>6, <1>7 DEF Good

-------------------------------------------------------------------------------
(* Records.                                                                 *)

LEMMA Parameters ==
         /\ IsFiniteSet(Blocks) /\ LoadableTokens \subseteq Nat
         /\ AsyncScheduling \in BOOLEAN /\ RequiresKVDelivery \in BOOLEAN
         /\ BlockSize \in Nat \ {0} /\ MaxTokens \in Nat \ {0} /\ MaxModelLen \in Nat \ {0}
         /\ MaxNumRunningReqs \in Nat \ {0} /\ MaxNumScheduledTokens \in Nat \ {0}
         /\ MaxConcurrentBatches \in Nat \ {0}
         /\ LongPrefillTokenThreshold \in Nat /\ NumSpecTokens \in Nat
         /\ NumLookaheadTokens \in Nat /\ MaxUpdates \in Nat /\ MaxResets \in Nat
         /\ MaxSteps \in Nat
         /\ PromptTokens \in [Requests -> 1 .. MaxModelLen - 1]
         /\ Resumable \subseteq Requests /\ Abortable \subseteq Requests
BY SchedulerAssumption

(* A record with the fields of a request, each of its type, is one.         *)
LEMMA RequestFields ==
  ASSUME NEW q \in RequestRecord, NEW t, DOMAIN t = DOMAIN q, t = [f \in DOMAIN q |-> t[f]],
         t.status \in Status,
         {t.prompt, t.all, t.output, t.computed, t.placeholders, t.spec, t.inFlight, t.stale}
             \subseteq Int,
         {t.drop, t.chunk, t.preempted} \subseteq BOOLEAN,
         {t.lastSched, t.updates} \subseteq Nat, t.queue \in Seq({"chunk", "end"})
  PROVE  t \in RequestRecord
BY DEF RequestRecord

LEMMA RequestTypes ==
  ASSUME NEW q \in RequestRecord
  PROVE  /\ q.status \in Status
         /\ q.prompt \in Int /\ q.all \in Int /\ q.output \in Int /\ q.computed \in Int
         /\ q.placeholders \in Int /\ q.spec \in Int /\ q.inFlight \in Int /\ q.stale \in Int
         /\ q.drop \in BOOLEAN /\ q.chunk \in BOOLEAN /\ q.preempted \in BOOLEAN
         /\ q.lastSched \in Nat /\ q.updates \in Nat /\ q.queue \in Seq({"chunk", "end"})
BY DEF RequestRecord

(* What only the counters of a request that are in play change.             *)
SameTokens(t, q) ==
  t.prompt = q.prompt /\ t.all = q.all /\ t.output = q.output
SamePipeline(t, q) ==
  t.inFlight = q.inFlight /\ t.stale = q.stale /\ t.drop = q.drop /\ t.lastSched = q.lastSched
SameComputed(t, q) ==
  t.computed = q.computed /\ t.placeholders = q.placeholders /\ t.chunk = q.chunk
SameUpdates(t, q) ==
  t.queue = q.queue /\ t.updates = q.updates

WithStatus(q, x) == [q EXCEPT !.status = x]

LEMMA WithStatusIs ==
  ASSUME NEW q \in RequestRecord, NEW x \in Status
  PROVE  LET t == WithStatus(q, x)
         IN  /\ t \in RequestRecord
             /\ t.status = x /\ t.spec = q.spec /\ t.preempted = q.preempted
             /\ SameTokens(t, q) /\ SamePipeline(t, q) /\ SameComputed(t, q) /\ SameUpdates(t, q)
<1> DEFINE t == WithStatus(q, x)
<1>1. /\ DOMAIN t = DOMAIN q /\ t = [f \in DOMAIN q |-> t[f]]
      /\ t.status = x /\ t.spec = q.spec /\ t.preempted = q.preempted
  BY DEF RequestRecord, WithStatus
<1>2. SameTokens(t, q) /\ SamePipeline(t, q)
  BY DEF RequestRecord, WithStatus, SameTokens, SamePipeline
<1>3. SameComputed(t, q) /\ SameUpdates(t, q)
  BY DEF RequestRecord, WithStatus, SameComputed, SameUpdates
<1> HIDE DEF t
<1>4. t \in RequestRecord
  BY <1>1, <1>2, <1>3, RequestFields, RequestTypes, ZenonT(60)
     DEF SameTokens, SamePipeline, SameComputed, SameUpdates
<1> QED
  BY <1>1, <1>2, <1>3, <1>4 DEF t

LEMMA PreemptedIs ==
  ASSUME NEW q \in RequestRecord, NEW d \in BOOLEAN
  PROVE  LET t == PreemptedRequest(q, d)
         IN  /\ t \in RequestRecord
             /\ t.status = "PREEMPTED" /\ t.spec = 0 /\ t.preempted = TRUE
             /\ t.computed = 0 /\ t.placeholders = 0 /\ t.chunk = q.chunk
             /\ t.inFlight = q.inFlight /\ t.stale = q.inFlight /\ t.lastSched = q.lastSched
             /\ t.drop = (d \/ (q.drop /\ q.stale > 0))
             /\ SameTokens(t, q) /\ SameUpdates(t, q)
<1> DEFINE t == PreemptedRequest(q, d)
           b == d \/ (q.drop /\ q.stale > 0)
<1>1. PICK c \in BOOLEAN : c = b
  OBVIOUS
<1>2. t = [q EXCEPT !.status = "PREEMPTED", !.computed = 0, !.spec = 0, !.placeholders = 0,
                    !.drop = c, !.stale = q.inFlight, !.preempted = TRUE]
  BY <1>1 DEF PreemptedRequest
<1> HIDE DEF t
<1>3. DOMAIN t = DOMAIN q /\ t = [f \in DOMAIN q |-> t[f]]
  BY <1>2 DEF RequestRecord
<1>4. t.status = "PREEMPTED" /\ t.spec = 0 /\ t.preempted = TRUE /\ t.computed = 0
  BY <1>2 DEF RequestRecord
<1>5. t.placeholders = 0 /\ t.stale = q.inFlight /\ t.drop = c
  BY <1>2 DEF RequestRecord
<1>6. t.chunk = q.chunk /\ t.inFlight = q.inFlight /\ t.lastSched = q.lastSched
  BY <1>2 DEF RequestRecord
<1>7. SameTokens(t, q) /\ SameUpdates(t, q)
  BY <1>2 DEF RequestRecord, SameTokens, SameUpdates
<1> HIDE DEF b
<1>8. t \in RequestRecord
  <2>1. t.status \in Status
    BY <1>4 DEF Status
  <2>2. t.drop \in BOOLEAN /\ t.chunk \in BOOLEAN /\ t.preempted \in BOOLEAN
    BY <1>1, <1>4, <1>5, <1>6, RequestTypes
  <2>3. {t.prompt, t.all, t.output, t.computed, t.placeholders, t.spec, t.inFlight, t.stale}
            \subseteq Int
    BY <1>4, <1>5, <1>6, <1>7, RequestTypes DEF SameTokens
  <2>4. {t.lastSched, t.updates} \subseteq Nat /\ t.queue \in Seq({"chunk", "end"})
    BY <1>6, <1>7, RequestTypes DEF SameUpdates
  <2> QED
    BY <2>1, <2>2, <2>3, <2>4, <1>3, RequestFields
<1> QED
  BY <1>1, <1>4, <1>5, <1>6, <1>7, <1>8 DEF t, b
WithComputed(q, x) == [q EXCEPT !.computed = x]

LEMMA WithComputedIs ==
  ASSUME NEW q \in RequestRecord, NEW x \in Int
  PROVE  LET t == WithComputed(q, x)
         IN  /\ t \in RequestRecord
             /\ t.computed = x /\ t.placeholders = q.placeholders /\ t.chunk = q.chunk
             /\ t.status = q.status /\ t.spec = q.spec /\ t.preempted = q.preempted
             /\ SameTokens(t, q) /\ SamePipeline(t, q) /\ SameUpdates(t, q)
<1> DEFINE t == WithComputed(q, x)
<1>1. /\ DOMAIN t = DOMAIN q /\ t = [f \in DOMAIN q |-> t[f]]
      /\ t.computed = x /\ t.placeholders = q.placeholders /\ t.chunk = q.chunk
  BY DEF RequestRecord, WithComputed
<1>2. /\ t.status = q.status /\ t.spec = q.spec /\ t.preempted = q.preempted
      /\ SameTokens(t, q) /\ SamePipeline(t, q)
  BY DEF RequestRecord, WithComputed, SameTokens, SamePipeline
<1>3. SameUpdates(t, q)
  BY DEF RequestRecord, WithComputed, SameUpdates
<1> HIDE DEF t
<1>4. t \in RequestRecord
  BY <1>1, <1>2, <1>3, RequestFields, RequestTypes, ZenonT(60) DEF SameTokens, SamePipeline, SameUpdates
<1> QED
  BY <1>1, <1>2, <1>3, <1>4 DEF t

WithSpec(q, x) == [q EXCEPT !.spec = x]

LEMMA WithSpecIs ==
  ASSUME NEW q \in RequestRecord, NEW x \in Int
  PROVE  LET t == WithSpec(q, x)
         IN  /\ t \in RequestRecord
             /\ t.status = q.status /\ t.spec = x /\ t.preempted = q.preempted
             /\ SameTokens(t, q) /\ SamePipeline(t, q) /\ SameComputed(t, q) /\ SameUpdates(t, q)
<1> DEFINE t == WithSpec(q, x)
<1>1. /\ DOMAIN t = DOMAIN q /\ t = [f \in DOMAIN q |-> t[f]]
      /\ t.status = q.status /\ t.spec = x /\ t.preempted = q.preempted
  BY DEF RequestRecord, WithSpec
<1>2. SameTokens(t, q) /\ SamePipeline(t, q)
  BY DEF RequestRecord, WithSpec, SameTokens, SamePipeline
<1>3. SameComputed(t, q) /\ SameUpdates(t, q)
  BY DEF RequestRecord, WithSpec, SameComputed, SameUpdates
<1> HIDE DEF t
<1>4. t \in RequestRecord
  BY <1>1, <1>2, <1>3, RequestFields, RequestTypes, ZenonT(60)
     DEF SameTokens, SamePipeline, SameComputed, SameUpdates
<1> QED
  BY <1>1, <1>2, <1>3, <1>4 DEF t

WithUpdates(q, x, n) == [q EXCEPT !.queue = x, !.updates = n]

LEMMA WithUpdatesIs ==
  ASSUME NEW q \in RequestRecord, NEW x \in Seq({"chunk", "end"}), NEW n \in Nat
  PROVE  LET t == WithUpdates(q, x, n)
         IN  /\ t \in RequestRecord
             /\ t.status = q.status /\ t.spec = q.spec /\ t.preempted = q.preempted
             /\ SameTokens(t, q) /\ SamePipeline(t, q) /\ SameComputed(t, q)
<1> DEFINE t == WithUpdates(q, x, n)
<1>1. /\ DOMAIN t = DOMAIN q /\ t = [f \in DOMAIN q |-> t[f]]
      /\ t.status = q.status /\ t.spec = q.spec /\ t.preempted = q.preempted
  BY DEF RequestRecord, WithUpdates
<1>2. SameTokens(t, q) /\ SamePipeline(t, q)
  BY DEF RequestRecord, WithUpdates, SameTokens, SamePipeline
<1>3. SameComputed(t, q) /\ t.queue = x /\ t.updates = n
  BY DEF RequestRecord, WithUpdates, SameComputed
<1> HIDE DEF t
<1>4. t \in RequestRecord
  BY <1>1, <1>2, <1>3, RequestFields, RequestTypes, ZenonT(60) DEF SameTokens, SamePipeline, SameComputed
<1> QED
  BY <1>1, <1>2, <1>3, <1>4 DEF t

LEMMA DrainIs ==
  ASSUME NEW q \in RequestRecord, NEW e \in BatchEntry
  PROVE  LET t == Drain(q, e)
         IN  /\ t \in RequestRecord
             /\ t.inFlight = q.inFlight - e.n
             /\ t.stale = IF q.stale > 0 THEN q.stale - e.n ELSE q.stale
             /\ t.drop = q.drop /\ t.lastSched = q.lastSched
             /\ t.status = q.status /\ t.spec = q.spec /\ t.preempted = q.preempted
             /\ SameTokens(t, q) /\ SameComputed(t, q) /\ SameUpdates(t, q)
<1> DEFINE s == IF q.stale > 0 THEN q.stale - e.n ELSE q.stale
           t == Drain(q, e)
<1>1. t = [q EXCEPT !.inFlight = q.inFlight - e.n, !.stale = s]
  BY DEF Drain
<1> HIDE DEF t, s
<1>2. DOMAIN t = DOMAIN q /\ t = [f \in DOMAIN q |-> t[f]]
  BY <1>1 DEF RequestRecord
<1>3. /\ t.inFlight = q.inFlight - e.n /\ t.stale = s
      /\ t.drop = q.drop /\ t.lastSched = q.lastSched
  BY <1>1 DEF RequestRecord
<1>4. t.status = q.status /\ t.spec = q.spec /\ t.preempted = q.preempted
  BY <1>1 DEF RequestRecord
<1>5. SameTokens(t, q) /\ SameComputed(t, q)
  BY <1>1 DEF RequestRecord, SameTokens, SameComputed
<1>6. SameUpdates(t, q)
  BY <1>1 DEF RequestRecord, SameUpdates
<1>7. t \in RequestRecord
  <2>1. e.n \in Int /\ s \in Int
    BY RequestTypes DEF BatchEntry, s
  <2>2. {t.prompt, t.all, t.output, t.computed, t.placeholders, t.spec, t.inFlight, t.stale}
            \subseteq Int
    BY <1>3, <1>4, <1>5, <2>1, RequestTypes DEF SameTokens, SameComputed
  <2>3. t.drop \in BOOLEAN /\ t.chunk \in BOOLEAN /\ t.preempted \in BOOLEAN
    BY <1>3, <1>4, <1>5, RequestTypes DEF SameComputed
  <2> QED
    BY <1>2, <1>3, <1>4, <1>6, <2>2, <2>3, RequestFields, RequestTypes DEF SameUpdates
<1> QED
  BY <1>3, <1>4, <1>5, <1>6, <1>7 DEF t, s

(* What the tokens of a delivered output change, besides what it drains.    *)
LEMMA DeliverIs ==
  ASSUME NEW q \in RequestRecord, NEW e \in BatchEntry, NEW g \in Int, NEW m \in Int
  PROVE  LET t == Deliver(q, e, g, m)
             d == Drain(q, e)
         IN  /\ t \in RequestRecord
             /\ t.computed = IF q.stale <= 0 /\ q.computed > 0 THEN q.computed - (e.k + 1 - g)
                             ELSE q.computed
             /\ t.placeholders =
                  IF q.stale > 0 \/ ~AsyncScheduling THEN q.placeholders
                  ELSE IF q.placeholders > 0 THEN q.placeholders - (e.k + 1 - g) - m
                  ELSE q.placeholders - m
             /\ t.all = q.all + m /\ t.output = q.output + m
             /\ t.prompt = q.prompt /\ t.chunk = q.chunk
             /\ t.status = q.status /\ t.spec = q.spec /\ t.preempted = q.preempted
             /\ SamePipeline(t, d) /\ SameUpdates(t, q)
<1> DEFINE t == Deliver(q, e, g, m)
           d == Drain(q, e)
           c == IF q.stale <= 0 /\ q.computed > 0 THEN q.computed - (e.k + 1 - g) ELSE q.computed
           p == IF q.stale > 0 \/ ~AsyncScheduling THEN q.placeholders
                ELSE IF q.placeholders > 0 THEN q.placeholders - (e.k + 1 - g) - m
                ELSE q.placeholders - m
<1>1. /\ d \in RequestRecord
      /\ d.status = q.status /\ d.spec = q.spec /\ d.preempted = q.preempted
      /\ SameTokens(d, q) /\ SameComputed(d, q) /\ SameUpdates(d, q)
  BY DrainIs
<1>2. c \in Int /\ p \in Int
  BY RequestTypes, SMTT(60) DEF BatchEntry
<1>3. t = [d EXCEPT !.computed = c, !.placeholders = p, !.all = q.all + m,
                    !.output = q.output + m]
  <2> HIDE DEF d
  <2>1. t = [d EXCEPT
          !.computed = IF ~(q.stale > 0) /\ d.computed > 0 THEN d.computed - (e.k + 1 - g)
                       ELSE d.computed,
          !.placeholders = IF q.stale > 0 \/ ~AsyncScheduling THEN d.placeholders
                           ELSE (IF d.placeholders > 0 THEN d.placeholders - (e.k + 1 - g)
                                 ELSE d.placeholders) - m,
          !.all = d.all + m, !.output = d.output + m]
    BY DEF Deliver, d
  <2>2. d.all = q.all /\ d.output = q.output
    BY <1>1 DEF SameTokens
  <2>3. (IF ~(q.stale > 0) /\ d.computed > 0 THEN d.computed - (e.k + 1 - g)
          ELSE d.computed) = c
    BY <1>1, RequestTypes DEF SameComputed
  <2>4. (IF q.stale > 0 \/ ~AsyncScheduling THEN d.placeholders
          ELSE (IF d.placeholders > 0 THEN d.placeholders - (e.k + 1 - g)
                ELSE d.placeholders) - m) = p
    BY <1>1, RequestTypes DEF SameComputed, BatchEntry
  <2> HIDE DEF c, p, t
  <2> QED
    BY <2>1, <2>2, <2>3, <2>4
<1> HIDE DEF t, d, c, p
<1>4. DOMAIN t = DOMAIN d /\ t = [f \in DOMAIN d |-> t[f]]
  BY <1>1, <1>3 DEF RequestRecord
<1>5. t.computed = c /\ t.placeholders = p /\ t.all = q.all + m /\ t.output = q.output + m
  BY <1>1, <1>3 DEF RequestRecord
<1>6. /\ t.prompt = d.prompt /\ t.chunk = d.chunk
      /\ t.status = d.status /\ t.spec = d.spec /\ t.preempted = d.preempted
  BY <1>1, <1>3 DEF RequestRecord
<1>7. SamePipeline(t, d) /\ SameUpdates(t, d)
  BY <1>1, <1>3 DEF RequestRecord, SamePipeline, SameUpdates
<1>8. t \in RequestRecord
  <2>1. /\ {t.prompt, t.all, t.output, t.computed, t.placeholders, t.spec, t.inFlight, t.stale}
             \subseteq Int
    BY <1>1, <1>2, <1>5, <1>6, <1>7, RequestTypes, SMTT(60) DEF SamePipeline
  <2> QED
    BY <2>1, <1>1, <1>4, <1>6, <1>7, RequestFields, RequestTypes DEF SamePipeline, SameUpdates
<1>9. t.prompt = q.prompt /\ t.chunk = q.chunk /\ t.status = q.status /\ t.spec = q.spec
  BY <1>1, <1>6 DEF SameTokens, SameComputed
<1>10. t.preempted = q.preempted /\ SameUpdates(t, q)
  BY <1>1, <1>6, <1>7 DEF SameUpdates
<1> QED
  BY <1>5, <1>7, <1>8, <1>9, <1>10 DEF t, d, c, p
WithAdmission(q, x, n) == [q EXCEPT !.status = x, !.computed = n]

LEMMA WithAdmissionIs ==
  ASSUME NEW q \in RequestRecord, NEW x \in Status, NEW n \in Int
  PROVE  LET t == WithAdmission(q, x, n)
         IN  /\ t \in RequestRecord
             /\ t.status = x /\ t.spec = q.spec /\ t.preempted = q.preempted
             /\ t.computed = n /\ t.placeholders = q.placeholders /\ t.chunk = q.chunk
             /\ SameTokens(t, q) /\ SamePipeline(t, q) /\ SameUpdates(t, q)
<1> DEFINE s == WithStatus(q, x)
           t == WithComputed(s, n)
<1>1. t = WithAdmission(q, x, n)
  BY DEF WithAdmission, WithStatus, WithComputed
<1> HIDE DEF s, t
<1>2. /\ s \in RequestRecord /\ s.status = x /\ s.spec = q.spec /\ s.preempted = q.preempted
      /\ SameTokens(s, q) /\ SamePipeline(s, q) /\ SameComputed(s, q) /\ SameUpdates(s, q)
  BY WithStatusIs DEF s
<1>3. /\ t \in RequestRecord
      /\ t.computed = n /\ t.placeholders = s.placeholders /\ t.chunk = s.chunk
      /\ t.status = s.status /\ t.spec = s.spec /\ t.preempted = s.preempted
      /\ SameTokens(t, s) /\ SamePipeline(t, s) /\ SameUpdates(t, s)
  BY <1>2, WithComputedIs DEF t
<1>4. /\ t \in RequestRecord
      /\ t.status = x /\ t.spec = q.spec /\ t.preempted = q.preempted
      /\ t.computed = n /\ t.placeholders = q.placeholders /\ t.chunk = q.chunk
      /\ SameTokens(t, q) /\ SamePipeline(t, q) /\ SameUpdates(t, q)
  BY <1>2, <1>3 DEF SameTokens, SamePipeline, SameComputed, SameUpdates
<1> QED
  BY <1>1, <1>4

(* What the end of schedule() does to a request of the step.                *)
LEMMA AfterScheduleIs ==
  ASSUME NEW q \in RequestRecord, NEW e \in BatchEntry, NEW seq \in Nat
  PROVE  LET t == AfterSchedule(q, e, seq)
             async == AsyncScheduling /\ ~t.chunk
         IN  /\ t \in RequestRecord
             /\ t.computed = q.computed + e.n
             /\ t.chunk = (q.computed + e.n < q.all + q.placeholders)
             /\ t.placeholders = IF async THEN q.placeholders + 1 + e.k ELSE q.placeholders
             /\ t.spec = IF async THEN NumSpecTokens ELSE q.spec
             /\ t.inFlight = q.inFlight + e.n /\ t.stale = q.stale /\ t.drop = q.drop
             /\ t.lastSched = IF DeferBlockFree THEN seq ELSE q.lastSched
             /\ t.status = q.status /\ t.preempted = q.preempted
             /\ SameTokens(t, q) /\ SameUpdates(t, q)
<1> DEFINE t == AfterSchedule(q, e, seq)
           chunk == q.computed + e.n < q.all + q.placeholders
           async == AsyncScheduling /\ ~chunk
           l == IF DeferBlockFree THEN seq ELSE q.lastSched
           p == IF async THEN q.placeholders + 1 + e.k ELSE q.placeholders
           s == IF async THEN NumSpecTokens ELSE q.spec
<1>1. PICK b \in BOOLEAN : b = chunk
  <2>1. {q.computed, q.all, q.placeholders, e.n} \subseteq Int
    BY RequestTypes DEF BatchEntry
  <2>2. chunk \in BOOLEAN
    BY <2>1
  <2> HIDE DEF chunk
  <2> QED
    BY <2>2
<1>2. /\ l \in Nat /\ p \in Int /\ s \in Int /\ q.computed + e.n \in Int
      /\ q.inFlight + e.n \in Int
  <2>1. NumSpecTokens \in Nat /\ e.n \in Int /\ e.k \in Int
    BY Parameters DEF BatchEntry
  <2>2. q.computed + e.n \in Int /\ q.inFlight + e.n \in Int
    BY <2>1, RequestTypes
  <2>3. l \in Nat
    BY RequestTypes
  <2> HIDE DEF chunk
  <2>4. p \in Int
    BY <2>1, RequestTypes
  <2>5. s \in Int
    BY <2>1, RequestTypes
  <2> HIDE DEF l, p, s
  <2> QED
    BY <2>2, <2>3, <2>4, <2>5
<1>3. t = [q EXCEPT !.computed = q.computed + e.n, !.inFlight = q.inFlight + e.n, !.chunk = b,
                    !.lastSched = l, !.placeholders = p, !.spec = s]
  BY <1>1 DEF AfterSchedule
<1> HIDE DEF t, l, p, s, chunk
<1>4. DOMAIN t = DOMAIN q /\ t = [f \in DOMAIN q |-> t[f]]
  BY <1>3 DEF RequestRecord
<1>5. t.computed = q.computed + e.n /\ t.inFlight = q.inFlight + e.n /\ t.chunk = b
  BY <1>3 DEF RequestRecord
<1>6. t.lastSched = l /\ t.placeholders = p /\ t.spec = s
  BY <1>3 DEF RequestRecord
<1>7. /\ t.stale = q.stale /\ t.drop = q.drop /\ t.status = q.status
      /\ t.preempted = q.preempted
  BY <1>3 DEF RequestRecord
<1>8. SameTokens(t, q) /\ SameUpdates(t, q)
  BY <1>3 DEF RequestRecord, SameTokens, SameUpdates
<1>9. t \in RequestRecord
  <2>1. {t.prompt, t.all, t.output, t.computed, t.placeholders, t.spec, t.inFlight, t.stale}
            \subseteq Int
    BY <1>2, <1>5, <1>6, <1>7, <1>8, RequestTypes DEF SameTokens
  <2>2. t.drop \in BOOLEAN /\ t.chunk \in BOOLEAN /\ t.preempted \in BOOLEAN
    BY <1>5, <1>7, RequestTypes
  <2> QED
    BY <2>1, <2>2, <1>2, <1>4, <1>6, <1>7, <1>8, RequestFields, RequestTypes DEF SameUpdates
<1> QED
  BY <1>1, <1>5, <1>6, <1>7, <1>8, <1>9 DEF t, chunk, l, p, s

LEMMA SessionIs ==
  ASSUME NEW q \in RequestRecord
  PROVE  SessionRequest(q) \in RequestRecord /\ SameUpdates(SessionRequest(q), q)
<1> DEFINE t == SessionRequest(q)
           kept == Least(q.computed, q.all)
           keptOutput == IF kept > q.prompt THEN kept - q.prompt ELSE 0
           p == q.prompt + keptOutput + 1
<1>1. kept + 1 \in Int /\ p \in Int
  BY RequestTypes DEF Least
<1>2. t = [q EXCEPT !.status = "WAITING", !.all = kept + 1, !.prompt = p, !.output = 0]
  BY DEF SessionRequest
<1> HIDE DEF t, kept, keptOutput, p
<1>3. DOMAIN t = DOMAIN q /\ t = [f \in DOMAIN q |-> t[f]]
  BY <1>2 DEF RequestRecord
<1>4. /\ t.status = "WAITING" /\ t.all = kept + 1 /\ t.prompt = p /\ t.output = 0
      /\ t.spec = q.spec /\ t.preempted = q.preempted
  BY <1>2 DEF RequestRecord
<1>5. SamePipeline(t, q) /\ SameComputed(t, q)
  BY <1>2 DEF RequestRecord, SamePipeline, SameComputed
<1>6. SameUpdates(t, q)
  BY <1>2 DEF RequestRecord, SameUpdates
<1>7. t \in RequestRecord
  <2>1. t.status \in Status
    BY <1>4 DEF Status
  <2>2. {t.prompt, t.all, t.output, t.computed, t.placeholders, t.spec, t.inFlight, t.stale}
            \subseteq Int
    BY <1>1, <1>4, <1>5, RequestTypes DEF SamePipeline, SameComputed
  <2>3. t.drop \in BOOLEAN /\ t.chunk \in BOOLEAN /\ t.preempted \in BOOLEAN
    BY <1>4, <1>5, RequestTypes DEF SamePipeline, SameComputed
  <2> QED
    BY <2>1, <2>2, <2>3, <1>3, <1>5, <1>6, RequestFields, RequestTypes
       DEF SamePipeline, SameUpdates
<1> QED
  BY <1>6, <1>7 DEF t

LEMMA NewRequestType ==
  ASSUME NEW r \in Requests
  PROVE  NewRequest(r) \in RequestRecord
<1>1. PromptTokens[r] \in Int
  BY SchedulerAssumption
<1>2. "NEW" \in Status /\ <<>> \in Seq({"chunk", "end"})
  BY DEF Status
<1> QED
  BY <1>1, <1>2 DEF NewRequest, RequestRecord

LEMMA LocalsFields ==
  ASSUME NEW s \in HandlerLocals, NEW t, DOMAIN t = DOMAIN s, t = [f \in DOMAIN s |-> t[f]],
         t.phase \in Phases,
         t.idx \in Nat \ {0},
         t.budget \in Int,
         t.threshold \in Int,
         t.batch \in Seq(BatchEntry),
         t.preempted \in BOOLEAN,
         t.ran \in BOOLEAN,
         t.prefill \in BOOLEAN,
         t.skipped \in Seq(Requests),
         t.todo \in Seq(BatchEntry),
         t.ids \in SUBSET Requests,
         t.stoppedRunning \in SUBSET Requests,
         t.stoppedOther \in SUBSET Requests,
         t.errors \in SUBSET Requests,
         t.received \in SUBSET Requests
  PROVE  t \in HandlerLocals
BY DEF HandlerLocals

LEMMA LocalsTypes ==
  ASSUME NEW s \in HandlerLocals
  PROVE  /\ s.phase \in Phases
         /\ s.idx \in Nat \ {0}
         /\ s.budget \in Int
         /\ s.threshold \in Int
         /\ s.batch \in Seq(BatchEntry)
         /\ s.preempted \in BOOLEAN
         /\ s.ran \in BOOLEAN
         /\ s.prefill \in BOOLEAN
         /\ s.skipped \in Seq(Requests)
         /\ s.todo \in Seq(BatchEntry)
         /\ s.ids \in SUBSET Requests
         /\ s.stoppedRunning \in SUBSET Requests
         /\ s.stoppedOther \in SUBSET Requests
         /\ s.errors \in SUBSET Requests
         /\ s.received \in SUBSET Requests
BY DEF HandlerLocals

(* The assignments of the handlers to their locals.                         *)
WithPhase(s, p) == [s EXCEPT !.phase = p]

LEMMA WithPhaseIs ==
  ASSUME NEW s \in HandlerLocals,
         NEW p \in Phases
  PROVE  LET t == WithPhase(s, p)
         IN  /\ t \in HandlerLocals
             /\ t.phase = p
             /\ t.idx = s.idx /\ t.budget = s.budget /\ t.threshold = s.threshold
             /\ t.batch = s.batch
             /\ t.preempted = s.preempted /\ t.ran = s.ran /\ t.prefill = s.prefill
             /\ t.skipped = s.skipped
             /\ t.todo = s.todo /\ t.ids = s.ids /\ t.stoppedRunning = s.stoppedRunning
             /\ t.stoppedOther = s.stoppedOther
             /\ t.errors = s.errors /\ t.received = s.received
<1> DEFINE t == WithPhase(s, p)
<1>1. DOMAIN t = DOMAIN s /\ t = [f \in DOMAIN s |-> t[f]]
  BY DEF HandlerLocals, WithPhase
<1>2. t.phase = p
  BY DEF HandlerLocals, WithPhase
<1>3. /\ t.idx = s.idx /\ t.budget = s.budget /\ t.threshold = s.threshold
      /\ t.batch = s.batch
  BY DEF HandlerLocals, WithPhase
<1>4. /\ t.preempted = s.preempted /\ t.ran = s.ran /\ t.prefill = s.prefill
      /\ t.skipped = s.skipped
  BY DEF HandlerLocals, WithPhase
<1>5. /\ t.todo = s.todo /\ t.ids = s.ids /\ t.stoppedRunning = s.stoppedRunning
      /\ t.stoppedOther = s.stoppedOther
  BY DEF HandlerLocals, WithPhase
<1>6. t.errors = s.errors /\ t.received = s.received
  BY DEF HandlerLocals, WithPhase
<1> HIDE DEF t
<1>7. t \in HandlerLocals
  BY <1>1, <1>2, <1>3, <1>4, <1>5, <1>6, LocalsFields, LocalsTypes
<1> QED
  BY <1>2, <1>3, <1>4, <1>5, <1>6, <1>7 DEF t

WithIdx(s, i) == [s EXCEPT !.idx = i]

LEMMA WithIdxIs ==
  ASSUME NEW s \in HandlerLocals,
         NEW i \in Nat \ {0}
  PROVE  LET t == WithIdx(s, i)
         IN  /\ t \in HandlerLocals
             /\ t.idx = i
             /\ t.phase = s.phase /\ t.budget = s.budget /\ t.threshold = s.threshold
             /\ t.batch = s.batch
             /\ t.preempted = s.preempted /\ t.ran = s.ran /\ t.prefill = s.prefill
             /\ t.skipped = s.skipped
             /\ t.todo = s.todo /\ t.ids = s.ids /\ t.stoppedRunning = s.stoppedRunning
             /\ t.stoppedOther = s.stoppedOther
             /\ t.errors = s.errors /\ t.received = s.received
<1> DEFINE t == WithIdx(s, i)
<1>1. DOMAIN t = DOMAIN s /\ t = [f \in DOMAIN s |-> t[f]]
  BY DEF HandlerLocals, WithIdx
<1>2. t.idx = i
  BY DEF HandlerLocals, WithIdx
<1>3. /\ t.phase = s.phase /\ t.budget = s.budget /\ t.threshold = s.threshold
      /\ t.batch = s.batch
  BY DEF HandlerLocals, WithIdx
<1>4. /\ t.preempted = s.preempted /\ t.ran = s.ran /\ t.prefill = s.prefill
      /\ t.skipped = s.skipped
  BY DEF HandlerLocals, WithIdx
<1>5. /\ t.todo = s.todo /\ t.ids = s.ids /\ t.stoppedRunning = s.stoppedRunning
      /\ t.stoppedOther = s.stoppedOther
  BY DEF HandlerLocals, WithIdx
<1>6. t.errors = s.errors /\ t.received = s.received
  BY DEF HandlerLocals, WithIdx
<1> HIDE DEF t
<1>7. t \in HandlerLocals
  BY <1>1, <1>2, <1>3, <1>4, <1>5, <1>6, LocalsFields, LocalsTypes
<1> QED
  BY <1>2, <1>3, <1>4, <1>5, <1>6, <1>7 DEF t

WithSkipped(s, q) == [s EXCEPT !.skipped = q]

LEMMA WithSkippedIs ==
  ASSUME NEW s \in HandlerLocals,
         NEW q \in Seq(Requests)
  PROVE  LET t == WithSkipped(s, q)
         IN  /\ t \in HandlerLocals
             /\ t.skipped = q
             /\ t.phase = s.phase /\ t.idx = s.idx /\ t.budget = s.budget
             /\ t.threshold = s.threshold
             /\ t.batch = s.batch /\ t.preempted = s.preempted /\ t.ran = s.ran
             /\ t.prefill = s.prefill
             /\ t.todo = s.todo /\ t.ids = s.ids /\ t.stoppedRunning = s.stoppedRunning
             /\ t.stoppedOther = s.stoppedOther
             /\ t.errors = s.errors /\ t.received = s.received
<1> DEFINE t == WithSkipped(s, q)
<1>1. DOMAIN t = DOMAIN s /\ t = [f \in DOMAIN s |-> t[f]]
  BY DEF HandlerLocals, WithSkipped
<1>2. t.skipped = q
  BY DEF HandlerLocals, WithSkipped
<1>3. /\ t.phase = s.phase /\ t.idx = s.idx /\ t.budget = s.budget
      /\ t.threshold = s.threshold
  BY DEF HandlerLocals, WithSkipped
<1>4. /\ t.batch = s.batch /\ t.preempted = s.preempted /\ t.ran = s.ran
      /\ t.prefill = s.prefill
  BY DEF HandlerLocals, WithSkipped
<1>5. /\ t.todo = s.todo /\ t.ids = s.ids /\ t.stoppedRunning = s.stoppedRunning
      /\ t.stoppedOther = s.stoppedOther
  BY DEF HandlerLocals, WithSkipped
<1>6. t.errors = s.errors /\ t.received = s.received
  BY DEF HandlerLocals, WithSkipped
<1> HIDE DEF t
<1>7. t \in HandlerLocals
  BY <1>1, <1>2, <1>3, <1>4, <1>5, <1>6, LocalsFields, LocalsTypes
<1> QED
  BY <1>2, <1>3, <1>4, <1>5, <1>6, <1>7 DEF t

WithTodo(s, d) == [s EXCEPT !.todo = d]

LEMMA WithTodoIs ==
  ASSUME NEW s \in HandlerLocals,
         NEW d \in Seq(BatchEntry)
  PROVE  LET t == WithTodo(s, d)
         IN  /\ t \in HandlerLocals
             /\ t.todo = d
             /\ t.phase = s.phase /\ t.idx = s.idx /\ t.budget = s.budget
             /\ t.threshold = s.threshold
             /\ t.batch = s.batch /\ t.preempted = s.preempted /\ t.ran = s.ran
             /\ t.prefill = s.prefill
             /\ t.skipped = s.skipped /\ t.ids = s.ids
             /\ t.stoppedRunning = s.stoppedRunning /\ t.stoppedOther = s.stoppedOther
             /\ t.errors = s.errors /\ t.received = s.received
<1> DEFINE t == WithTodo(s, d)
<1>1. DOMAIN t = DOMAIN s /\ t = [f \in DOMAIN s |-> t[f]]
  BY DEF HandlerLocals, WithTodo
<1>2. t.todo = d
  BY DEF HandlerLocals, WithTodo
<1>3. /\ t.phase = s.phase /\ t.idx = s.idx /\ t.budget = s.budget
      /\ t.threshold = s.threshold
  BY DEF HandlerLocals, WithTodo
<1>4. /\ t.batch = s.batch /\ t.preempted = s.preempted /\ t.ran = s.ran
      /\ t.prefill = s.prefill
  BY DEF HandlerLocals, WithTodo
<1>5. /\ t.skipped = s.skipped /\ t.ids = s.ids /\ t.stoppedRunning = s.stoppedRunning
      /\ t.stoppedOther = s.stoppedOther
  BY DEF HandlerLocals, WithTodo
<1>6. t.errors = s.errors /\ t.received = s.received
  BY DEF HandlerLocals, WithTodo
<1> HIDE DEF t
<1>7. t \in HandlerLocals
  BY <1>1, <1>2, <1>3, <1>4, <1>5, <1>6, LocalsFields, LocalsTypes
<1> QED
  BY <1>2, <1>3, <1>4, <1>5, <1>6, <1>7 DEF t

WithErrors(s, F) == [s EXCEPT !.errors = F]

LEMMA WithErrorsIs ==
  ASSUME NEW s \in HandlerLocals,
         NEW F \in SUBSET Requests
  PROVE  LET t == WithErrors(s, F)
         IN  /\ t \in HandlerLocals
             /\ t.errors = F
             /\ t.phase = s.phase /\ t.idx = s.idx /\ t.budget = s.budget
             /\ t.threshold = s.threshold
             /\ t.batch = s.batch /\ t.preempted = s.preempted /\ t.ran = s.ran
             /\ t.prefill = s.prefill
             /\ t.skipped = s.skipped /\ t.todo = s.todo /\ t.ids = s.ids
             /\ t.stoppedRunning = s.stoppedRunning
             /\ t.stoppedOther = s.stoppedOther /\ t.received = s.received
<1> DEFINE t == WithErrors(s, F)
<1>1. DOMAIN t = DOMAIN s /\ t = [f \in DOMAIN s |-> t[f]]
  BY DEF HandlerLocals, WithErrors
<1>2. t.errors = F
  BY DEF HandlerLocals, WithErrors
<1>3. /\ t.phase = s.phase /\ t.idx = s.idx /\ t.budget = s.budget
      /\ t.threshold = s.threshold
  BY DEF HandlerLocals, WithErrors
<1>4. /\ t.batch = s.batch /\ t.preempted = s.preempted /\ t.ran = s.ran
      /\ t.prefill = s.prefill
  BY DEF HandlerLocals, WithErrors
<1>5. /\ t.skipped = s.skipped /\ t.todo = s.todo /\ t.ids = s.ids
      /\ t.stoppedRunning = s.stoppedRunning
  BY DEF HandlerLocals, WithErrors
<1>6. t.stoppedOther = s.stoppedOther /\ t.received = s.received
  BY DEF HandlerLocals, WithErrors
<1> HIDE DEF t
<1>7. t \in HandlerLocals
  BY <1>1, <1>2, <1>3, <1>4, <1>5, <1>6, LocalsFields, LocalsTypes
<1> QED
  BY <1>2, <1>3, <1>4, <1>5, <1>6, <1>7 DEF t

WithReceived(s, R) == [s EXCEPT !.received = R]

LEMMA WithReceivedIs ==
  ASSUME NEW s \in HandlerLocals,
         NEW R \in SUBSET Requests
  PROVE  LET t == WithReceived(s, R)
         IN  /\ t \in HandlerLocals
             /\ t.received = R
             /\ t.phase = s.phase /\ t.idx = s.idx /\ t.budget = s.budget
             /\ t.threshold = s.threshold
             /\ t.batch = s.batch /\ t.preempted = s.preempted /\ t.ran = s.ran
             /\ t.prefill = s.prefill
             /\ t.skipped = s.skipped /\ t.todo = s.todo /\ t.ids = s.ids
             /\ t.stoppedRunning = s.stoppedRunning
             /\ t.stoppedOther = s.stoppedOther /\ t.errors = s.errors
<1> DEFINE t == WithReceived(s, R)
<1>1. DOMAIN t = DOMAIN s /\ t = [f \in DOMAIN s |-> t[f]]
  BY DEF HandlerLocals, WithReceived
<1>2. t.received = R
  BY DEF HandlerLocals, WithReceived
<1>3. /\ t.phase = s.phase /\ t.idx = s.idx /\ t.budget = s.budget
      /\ t.threshold = s.threshold
  BY DEF HandlerLocals, WithReceived
<1>4. /\ t.batch = s.batch /\ t.preempted = s.preempted /\ t.ran = s.ran
      /\ t.prefill = s.prefill
  BY DEF HandlerLocals, WithReceived
<1>5. /\ t.skipped = s.skipped /\ t.todo = s.todo /\ t.ids = s.ids
      /\ t.stoppedRunning = s.stoppedRunning
  BY DEF HandlerLocals, WithReceived
<1>6. t.stoppedOther = s.stoppedOther /\ t.errors = s.errors
  BY DEF HandlerLocals, WithReceived
<1> HIDE DEF t
<1>7. t \in HandlerLocals
  BY <1>1, <1>2, <1>3, <1>4, <1>5, <1>6, LocalsFields, LocalsTypes
<1> QED
  BY <1>2, <1>3, <1>4, <1>5, <1>6, <1>7 DEF t

WithPreempted(s, b, p) == [s EXCEPT !.preempted = b, !.phase = p]

LEMMA WithPreemptedIs ==
  ASSUME NEW s \in HandlerLocals,
         NEW b \in BOOLEAN,
         NEW p \in Phases
  PROVE  LET t == WithPreempted(s, b, p)
         IN  /\ t \in HandlerLocals
             /\ t.preempted = b /\ t.phase = p
             /\ t.idx = s.idx /\ t.budget = s.budget /\ t.threshold = s.threshold
             /\ t.batch = s.batch
             /\ t.ran = s.ran /\ t.prefill = s.prefill /\ t.skipped = s.skipped
             /\ t.todo = s.todo
             /\ t.ids = s.ids /\ t.stoppedRunning = s.stoppedRunning
             /\ t.stoppedOther = s.stoppedOther /\ t.errors = s.errors
             /\ t.received = s.received
<1> DEFINE t == WithPreempted(s, b, p)
<1>1. DOMAIN t = DOMAIN s /\ t = [f \in DOMAIN s |-> t[f]]
  BY DEF HandlerLocals, WithPreempted
<1>2. t.preempted = b /\ t.phase = p
  BY DEF HandlerLocals, WithPreempted
<1>3. /\ t.idx = s.idx /\ t.budget = s.budget /\ t.threshold = s.threshold
      /\ t.batch = s.batch
  BY DEF HandlerLocals, WithPreempted
<1>4. t.ran = s.ran /\ t.prefill = s.prefill /\ t.skipped = s.skipped /\ t.todo = s.todo
  BY DEF HandlerLocals, WithPreempted
<1>5. /\ t.ids = s.ids /\ t.stoppedRunning = s.stoppedRunning
      /\ t.stoppedOther = s.stoppedOther /\ t.errors = s.errors
  BY DEF HandlerLocals, WithPreempted
<1>6. t.received = s.received
  BY DEF HandlerLocals, WithPreempted
<1> HIDE DEF t
<1>7. t \in HandlerLocals
  BY <1>1, <1>2, <1>3, <1>4, <1>5, <1>6, LocalsFields, LocalsTypes
<1> QED
  BY <1>2, <1>3, <1>4, <1>5, <1>6, <1>7 DEF t

WithAdmitted(s, n, B) == [s EXCEPT !.budget = n, !.batch = B]

LEMMA WithAdmittedIs ==
  ASSUME NEW s \in HandlerLocals,
         NEW n \in Int,
         NEW B \in Seq(BatchEntry)
  PROVE  LET t == WithAdmitted(s, n, B)
         IN  /\ t \in HandlerLocals
             /\ t.budget = n /\ t.batch = B
             /\ t.phase = s.phase /\ t.idx = s.idx /\ t.threshold = s.threshold
             /\ t.preempted = s.preempted
             /\ t.ran = s.ran /\ t.prefill = s.prefill /\ t.skipped = s.skipped
             /\ t.todo = s.todo
             /\ t.ids = s.ids /\ t.stoppedRunning = s.stoppedRunning
             /\ t.stoppedOther = s.stoppedOther /\ t.errors = s.errors
             /\ t.received = s.received
<1> DEFINE t == WithAdmitted(s, n, B)
<1>1. DOMAIN t = DOMAIN s /\ t = [f \in DOMAIN s |-> t[f]]
  BY DEF HandlerLocals, WithAdmitted
<1>2. t.budget = n /\ t.batch = B
  BY DEF HandlerLocals, WithAdmitted
<1>3. /\ t.phase = s.phase /\ t.idx = s.idx /\ t.threshold = s.threshold
      /\ t.preempted = s.preempted
  BY DEF HandlerLocals, WithAdmitted
<1>4. t.ran = s.ran /\ t.prefill = s.prefill /\ t.skipped = s.skipped /\ t.todo = s.todo
  BY DEF HandlerLocals, WithAdmitted
<1>5. /\ t.ids = s.ids /\ t.stoppedRunning = s.stoppedRunning
      /\ t.stoppedOther = s.stoppedOther /\ t.errors = s.errors
  BY DEF HandlerLocals, WithAdmitted
<1>6. t.received = s.received
  BY DEF HandlerLocals, WithAdmitted
<1> HIDE DEF t
<1>7. t \in HandlerLocals
  BY <1>1, <1>2, <1>3, <1>4, <1>5, <1>6, LocalsFields, LocalsTypes
<1> QED
  BY <1>2, <1>3, <1>4, <1>5, <1>6, <1>7 DEF t

WithScheduled(s, i, n, a, b, B) == [s EXCEPT !.idx = i, !.budget = n, !.ran = a, !.prefill = b, !.batch = B]

LEMMA WithScheduledIs ==
  ASSUME NEW s \in HandlerLocals,
         NEW i \in Nat \ {0},
         NEW n \in Int,
         NEW a \in BOOLEAN,
         NEW b \in BOOLEAN,
         NEW B \in Seq(BatchEntry)
  PROVE  LET t == WithScheduled(s, i, n, a, b, B)
         IN  /\ t \in HandlerLocals
             /\ t.idx = i /\ t.budget = n /\ t.ran = a /\ t.prefill = b /\ t.batch = B
             /\ t.phase = s.phase /\ t.threshold = s.threshold /\ t.preempted = s.preempted
             /\ t.skipped = s.skipped
             /\ t.todo = s.todo /\ t.ids = s.ids /\ t.stoppedRunning = s.stoppedRunning
             /\ t.stoppedOther = s.stoppedOther
             /\ t.errors = s.errors /\ t.received = s.received
<1> DEFINE t == WithScheduled(s, i, n, a, b, B)
<1>1. DOMAIN t = DOMAIN s /\ t = [f \in DOMAIN s |-> t[f]]
  BY DEF HandlerLocals, WithScheduled
<1>2. t.idx = i /\ t.budget = n /\ t.ran = a /\ t.prefill = b /\ t.batch = B
  BY DEF HandlerLocals, WithScheduled
<1>3. /\ t.phase = s.phase /\ t.threshold = s.threshold /\ t.preempted = s.preempted
      /\ t.skipped = s.skipped
  BY DEF HandlerLocals, WithScheduled
<1>4. /\ t.todo = s.todo /\ t.ids = s.ids /\ t.stoppedRunning = s.stoppedRunning
      /\ t.stoppedOther = s.stoppedOther
  BY DEF HandlerLocals, WithScheduled
<1>5. t.errors = s.errors /\ t.received = s.received
  BY DEF HandlerLocals, WithScheduled
<1> HIDE DEF t
<1>6. t \in HandlerLocals
  BY <1>1, <1>2, <1>3, <1>4, <1>5, LocalsFields, LocalsTypes
<1> QED
  BY <1>2, <1>3, <1>4, <1>5, <1>6 DEF t

WithStopped(s, d, R, O) == [s EXCEPT !.todo = d, !.stoppedRunning = R, !.stoppedOther = O]

LEMMA WithStoppedIs ==
  ASSUME NEW s \in HandlerLocals,
         NEW d \in Seq(BatchEntry),
         NEW R \in SUBSET Requests,
         NEW O \in SUBSET Requests
  PROVE  LET t == WithStopped(s, d, R, O)
         IN  /\ t \in HandlerLocals
             /\ t.todo = d /\ t.stoppedRunning = R /\ t.stoppedOther = O
             /\ t.phase = s.phase /\ t.idx = s.idx /\ t.budget = s.budget
             /\ t.threshold = s.threshold
             /\ t.batch = s.batch /\ t.preempted = s.preempted /\ t.ran = s.ran
             /\ t.prefill = s.prefill
             /\ t.skipped = s.skipped /\ t.ids = s.ids /\ t.errors = s.errors
             /\ t.received = s.received
<1> DEFINE t == WithStopped(s, d, R, O)
<1>1. DOMAIN t = DOMAIN s /\ t = [f \in DOMAIN s |-> t[f]]
  BY DEF HandlerLocals, WithStopped
<1>2. t.todo = d /\ t.stoppedRunning = R /\ t.stoppedOther = O
  BY DEF HandlerLocals, WithStopped
<1>3. /\ t.phase = s.phase /\ t.idx = s.idx /\ t.budget = s.budget
      /\ t.threshold = s.threshold
  BY DEF HandlerLocals, WithStopped
<1>4. /\ t.batch = s.batch /\ t.preempted = s.preempted /\ t.ran = s.ran
      /\ t.prefill = s.prefill
  BY DEF HandlerLocals, WithStopped
<1>5. /\ t.skipped = s.skipped /\ t.ids = s.ids /\ t.errors = s.errors
      /\ t.received = s.received
  BY DEF HandlerLocals, WithStopped
<1> HIDE DEF t
<1>6. t \in HandlerLocals
  BY <1>1, <1>2, <1>3, <1>4, <1>5, LocalsFields, LocalsTypes
<1> QED
  BY <1>2, <1>3, <1>4, <1>5, <1>6 DEF t

WithBudget(s, p, n, h) == [s EXCEPT !.phase = p, !.budget = n, !.threshold = h]

LEMMA WithBudgetIs ==
  ASSUME NEW s \in HandlerLocals,
         NEW p \in Phases,
         NEW n \in Int,
         NEW h \in Int
  PROVE  LET t == WithBudget(s, p, n, h)
         IN  /\ t \in HandlerLocals
             /\ t.phase = p /\ t.budget = n /\ t.threshold = h
             /\ t.idx = s.idx /\ t.batch = s.batch /\ t.preempted = s.preempted
             /\ t.ran = s.ran
             /\ t.prefill = s.prefill /\ t.skipped = s.skipped /\ t.todo = s.todo
             /\ t.ids = s.ids
             /\ t.stoppedRunning = s.stoppedRunning /\ t.stoppedOther = s.stoppedOther
             /\ t.errors = s.errors /\ t.received = s.received
<1> DEFINE t == WithBudget(s, p, n, h)
<1>1. DOMAIN t = DOMAIN s /\ t = [f \in DOMAIN s |-> t[f]]
  BY DEF HandlerLocals, WithBudget
<1>2. t.phase = p /\ t.budget = n /\ t.threshold = h
  BY DEF HandlerLocals, WithBudget
<1>3. t.idx = s.idx /\ t.batch = s.batch /\ t.preempted = s.preempted /\ t.ran = s.ran
  BY DEF HandlerLocals, WithBudget
<1>4. t.prefill = s.prefill /\ t.skipped = s.skipped /\ t.todo = s.todo /\ t.ids = s.ids
  BY DEF HandlerLocals, WithBudget
<1>5. /\ t.stoppedRunning = s.stoppedRunning /\ t.stoppedOther = s.stoppedOther
      /\ t.errors = s.errors /\ t.received = s.received
  BY DEF HandlerLocals, WithBudget
<1> HIDE DEF t
<1>6. t \in HandlerLocals
  BY <1>1, <1>2, <1>3, <1>4, <1>5, LocalsFields, LocalsTypes
<1> QED
  BY <1>2, <1>3, <1>4, <1>5, <1>6 DEF t

WithOutput(s, p, d, I, R, F) == [s EXCEPT !.phase = p, !.todo = d, !.ids = I, !.received = R, !.errors = F]

LEMMA WithOutputIs ==
  ASSUME NEW s \in HandlerLocals,
         NEW p \in Phases,
         NEW d \in Seq(BatchEntry),
         NEW I \in SUBSET Requests,
         NEW R \in SUBSET Requests,
         NEW F \in SUBSET Requests
  PROVE  LET t == WithOutput(s, p, d, I, R, F)
         IN  /\ t \in HandlerLocals
             /\ t.phase = p /\ t.todo = d /\ t.ids = I /\ t.received = R /\ t.errors = F
             /\ t.idx = s.idx /\ t.budget = s.budget /\ t.threshold = s.threshold
             /\ t.batch = s.batch
             /\ t.preempted = s.preempted /\ t.ran = s.ran /\ t.prefill = s.prefill
             /\ t.skipped = s.skipped
             /\ t.stoppedRunning = s.stoppedRunning /\ t.stoppedOther = s.stoppedOther
<1> DEFINE t == WithOutput(s, p, d, I, R, F)
<1>1. DOMAIN t = DOMAIN s /\ t = [f \in DOMAIN s |-> t[f]]
  BY DEF HandlerLocals, WithOutput
<1>2. t.phase = p /\ t.todo = d /\ t.ids = I /\ t.received = R /\ t.errors = F
  BY DEF HandlerLocals, WithOutput
<1>3. /\ t.idx = s.idx /\ t.budget = s.budget /\ t.threshold = s.threshold
      /\ t.batch = s.batch
  BY DEF HandlerLocals, WithOutput
<1>4. /\ t.preempted = s.preempted /\ t.ran = s.ran /\ t.prefill = s.prefill
      /\ t.skipped = s.skipped
  BY DEF HandlerLocals, WithOutput
<1>5. t.stoppedRunning = s.stoppedRunning /\ t.stoppedOther = s.stoppedOther
  BY DEF HandlerLocals, WithOutput
<1> HIDE DEF t
<1>6. t \in HandlerLocals
  BY <1>1, <1>2, <1>3, <1>4, <1>5, LocalsFields, LocalsTypes
<1> QED
  BY <1>2, <1>3, <1>4, <1>5, <1>6 DEF t

LEMMA IdleType == Idle \in HandlerLocals
<1>1. "idle" \in Phases /\ 1 \in Nat \ {0} /\ 0 \in Int
  BY DEF Phases
<1>2. <<>> \in Seq(BatchEntry) /\ <<>> \in Seq(Requests) /\ {} \in SUBSET Requests
  OBVIOUS
<1> QED
  BY <1>1, <1>2 DEF Idle, HandlerLocals

-------------------------------------------------------------------------------
(* The block pool.                                                          *)

(* What is to prove of it, block by block, and its shapes.                  *)
PoolCovers ==
  \A b \in Blocks :
    \/ b \in free
    \/ \E r \in Requests : b \in owned[r]
    \/ \E i \in DOMAIN deferred : b \in deferred[i].blocks

PoolApart ==
  /\ \A r \in Requests : owned[r] \cap free = {}
  /\ \A q, r \in Requests : q # r => owned[q] \cap owned[r] = {}
  /\ \A i \in DOMAIN deferred :
      /\ deferred[i].blocks \cap free = {}
      /\ \A r \in Requests : deferred[i].blocks \cap owned[r] = {}
      /\ \A j \in DOMAIN deferred : i # j => deferred[i].blocks \cap deferred[j].blocks = {}

PoolInv ==
  /\ free \subseteq Blocks
  /\ owned \in [Requests -> SUBSET Blocks]
  /\ deferred \in Seq(DeferredEntry)
  /\ PoolCovers
  /\ PoolApart

LEMMA PoolInvWhole == PoolInv => PoolWhole
<1> SUFFICES ASSUME PoolInv PROVE PoolWhole
  OBVIOUS
<1>1. \A i \in DOMAIN deferred : deferred[i].blocks \subseteq Blocks
  <2>1. \A i \in DOMAIN deferred : deferred[i] \in DeferredEntry
    BY DEF PoolInv
  <2> QED
    BY <2>1 DEF DeferredEntry
<1>2. \A r \in Requests : owned[r] \subseteq Blocks
  BY DEF PoolInv
<1> DEFINE Held == {owned[r] : r \in Requests} \cup {deferred[i].blocks : i \in DOMAIN deferred}
<1>3. Held \subseteq SUBSET Blocks
  BY <1>1, <1>2
<1>4. \A r \in Requests : owned[r] \in Held
  OBVIOUS
<1>5. \A i \in DOMAIN deferred : deferred[i].blocks \in Held
  OBVIOUS
<1>6. Blocks = free \cup UNION Held
  <2> HIDE DEF Held
  <2> QED
    BY <1>3, <1>4, <1>5 DEF PoolInv, PoolCovers
<1>7. PoolApart
  BY DEF PoolInv
<1> QED
  BY <1>6, <1>7 DEF PoolWhole, PoolApart

LEMMA TakeKeepsPool ==
  ASSUME PoolInv, NEW r \in Requests, NEW n, Take(r, n), deferred' = deferred
  PROVE  PoolInv'
<1>1. PICK B \in SUBSET free : free' = free \ B /\ owned' = [owned EXCEPT ![r] = @ \cup B]
  BY DEF Take, kSubset
<1>2. /\ owned' \in [Requests -> SUBSET Blocks] /\ free' \subseteq Blocks
      /\ owned'[r] = owned[r] \cup B
      /\ \A q \in Requests : q # r => owned'[q] = owned[q]
  BY <1>1 DEF PoolInv
<1>3. free \subseteq free' \cup owned'[r] /\ owned[r] \subseteq owned'[r]
  BY <1>1, <1>2
<1>4. /\ \A q \in Requests : owned[q] \cap free = {}
      /\ \A q, s \in Requests : q # s => owned[q] \cap owned[s] = {}
      /\ \A i \in DOMAIN deferred :
          /\ deferred[i].blocks \cap free = {}
          /\ \A q \in Requests : deferred[i].blocks \cap owned[q] = {}
          /\ \A j \in DOMAIN deferred : i # j => deferred[i].blocks \cap deferred[j].blocks = {}
  BY DEF PoolInv, PoolApart
<1>5. PoolCovers'
  BY <1>2, <1>3 DEF PoolInv, PoolCovers
<1>6. \A q \in Requests : owned'[q] \cap free' = {}
  BY <1>1, <1>2, <1>4
<1>7. \A q, s \in Requests : q # s => owned'[q] \cap owned'[s] = {}
  BY <1>1, <1>2, <1>4
<1>8. \A i \in DOMAIN deferred :
        /\ deferred[i].blocks \cap free' = {}
        /\ \A q \in Requests : deferred[i].blocks \cap owned'[q] = {}
  BY <1>1, <1>2, <1>4
<1>9. PoolApart'
  BY <1>4, <1>6, <1>7, <1>8 DEF PoolApart
<1> QED
  BY <1>2, <1>5, <1>9 DEF PoolInv

(* Blocks that go back to the pool at once.                                 *)
LEMMA ReturnKeepsPool ==
  ASSUME PoolInv, NEW r \in Requests, free' = free \cup owned[r],
         owned' = [owned EXCEPT ![r] = {}], deferred' = deferred
  PROVE  PoolInv'
<1>1. /\ owned' \in [Requests -> SUBSET Blocks] /\ free' \subseteq Blocks
      /\ owned'[r] = {}
      /\ \A q \in Requests : q # r => owned'[q] = owned[q]
  BY DEF PoolInv
<1>2. /\ \A q \in Requests : owned[q] \cap free = {}
      /\ \A q, s \in Requests : q # s => owned[q] \cap owned[s] = {}
      /\ \A i \in DOMAIN deferred :
          /\ deferred[i].blocks \cap free = {}
          /\ \A q \in Requests : deferred[i].blocks \cap owned[q] = {}
          /\ \A j \in DOMAIN deferred : i # j => deferred[i].blocks \cap deferred[j].blocks = {}
  BY DEF PoolInv, PoolApart
<1>3. PoolCovers'
  BY <1>1 DEF PoolInv, PoolCovers
<1>4. \A q \in Requests : owned'[q] \cap free' = {}
  BY <1>1, <1>2
<1>5. \A q, s \in Requests : q # s => owned'[q] \cap owned'[s] = {}
  BY <1>1, <1>2
<1>6. \A i \in DOMAIN deferred :
        /\ deferred[i].blocks \cap free' = {}
        /\ \A q \in Requests : deferred[i].blocks \cap owned'[q] = {}
  BY <1>1, <1>2
<1>7. PoolApart'
  BY <1>2, <1>4, <1>5, <1>6 DEF PoolApart
<1> QED
  BY <1>1, <1>3, <1>7 DEF PoolInv

(* Blocks that wait behind the fence.                                       *)
LEMMA DeferKeepsPool ==
  ASSUME PoolInv, NEW r \in Requests, NEW s \in Nat, free' = free,
         owned' = [owned EXCEPT ![r] = {}],
         deferred' = IF owned[r] = {} THEN deferred
                     ELSE Append(deferred, [fence |-> s, blocks |-> owned[r]])
  PROVE  PoolInv'
<1>1. /\ owned' \in [Requests -> SUBSET Blocks]
      /\ owned'[r] = {} /\ owned[r] \subseteq Blocks
      /\ \A q \in Requests : q # r => owned'[q] = owned[q]
  BY DEF PoolInv
<1>2. /\ \A q \in Requests : owned[q] \cap free = {}
      /\ \A q, t \in Requests : q # t => owned[q] \cap owned[t] = {}
      /\ \A i \in DOMAIN deferred :
          /\ deferred[i].blocks \cap free = {}
          /\ \A q \in Requests : deferred[i].blocks \cap owned[q] = {}
          /\ \A j \in DOMAIN deferred : i # j => deferred[i].blocks \cap deferred[j].blocks = {}
  BY DEF PoolInv, PoolApart
<1>3. \A q, t \in Requests : q # t => owned'[q] \cap owned'[t] = {}
  BY <1>1, <1>2
<1>4. \A q \in Requests : owned'[q] \cap free' = {}
  BY <1>1, <1>2
<1>5. CASE owned[r] = {}
  <2>1. deferred' = deferred /\ owned' = owned
    BY <1>5 DEF PoolInv
  <2> QED
    BY <2>1 DEF PoolInv, PoolCovers, PoolApart
<1>6. CASE owned[r] # {}
  <2> DEFINE d == [fence |-> s, blocks |-> owned[r]]
             n == Len(deferred) + 1
  <2>1. d \in DeferredEntry /\ d.blocks = owned[r] /\ deferred \in Seq(DeferredEntry)
    BY <1>1 DEF DeferredEntry, PoolInv
  <2> HIDE DEF d
  <2>2. deferred' = Append(deferred, d)
    BY <1>6 DEF d
  <2>3. /\ deferred' \in Seq(DeferredEntry) /\ DOMAIN deferred' = DOMAIN deferred \cup {n}
        /\ n \notin DOMAIN deferred /\ deferred'[n] = d
        /\ \A i \in DOMAIN deferred : deferred'[i] = deferred[i]
    <3>1. /\ deferred' \in Seq(DeferredEntry) /\ DOMAIN deferred' = 1 .. n
          /\ DOMAIN deferred = 1 .. n - 1 /\ n \in Nat \ {0}
      BY <2>1, <2>2
    <3>2. deferred'[n] = d /\ \A i \in DOMAIN deferred : deferred'[i] = deferred[i]
      BY <2>1, <2>2
    <3> HIDE DEF n
    <3> QED
      BY <3>1, <3>2
  <2> HIDE DEF n
  <2>4. /\ \A i \in DOMAIN deferred : deferred'[i].blocks = deferred[i].blocks
        /\ deferred'[n].blocks = owned[r]
    BY <2>1, <2>3
  <2>5. PoolCovers'
    BY <1>1, <2>3, <2>4 DEF PoolInv, PoolCovers
  <2>6. \A i \in DOMAIN deferred' :
          /\ deferred'[i].blocks \cap free' = {}
          /\ \A q \in Requests : deferred'[i].blocks \cap owned'[q] = {}
          /\ \A j \in DOMAIN deferred' : i # j => deferred'[i].blocks \cap deferred'[j].blocks = {}
    <3>1. \A i \in DOMAIN deferred' : i = n \/ i \in DOMAIN deferred
      BY <2>3
    <3>2. deferred'[n].blocks \cap free' = {}
      BY <1>2, <2>4
    <3>3. \A q \in Requests : deferred'[n].blocks \cap owned'[q] = {}
      BY <1>1, <1>2, <2>4
    <3>4. \A j \in DOMAIN deferred : deferred'[n].blocks \cap deferred'[j].blocks = {}
      BY <1>2, <2>4
    <3>5. \A i \in DOMAIN deferred :
            /\ deferred'[i].blocks \cap free' = {}
            /\ \A q \in Requests : deferred'[i].blocks \cap owned'[q] = {}
            /\ \A j \in DOMAIN deferred : i # j => deferred'[i].blocks \cap deferred'[j].blocks = {}
      BY <1>1, <1>2, <2>4
    <3> QED
      BY <3>1, <3>2, <3>3, <3>4, <3>5
  <2>7. PoolApart'
    BY <1>3, <1>4, <2>6 DEF PoolApart
  <2> QED
    BY <1>1, <2>3, <2>5, <2>7 DEF PoolInv
<1> QED
  BY <1>5, <1>6

LEMMA FreeKeepsPool ==
  ASSUME PoolInv, schedSeq \in Nat, load \in [Requests -> {"idle", "loading", "loaded"}],
         NEW r \in Requests, FreeRequestBlocks(r)
  PROVE  PoolInv' /\ load' \in [Requests -> {"idle", "loading", "loaded"}]
<1>1. load' \in [Requests -> {"idle", "loading", "loaded"}]
  BY DEF FreeRequestBlocks
<1>2. CASE NoWriteInFlight(r)
  BY <1>2, <1>1, ReturnKeepsPool DEF FreeRequestBlocks
<1>3. CASE ~NoWriteInFlight(r)
  BY <1>3, <1>1, DeferKeepsPool DEF FreeRequestBlocks
<1> QED
  BY <1>2, <1>3

(* Blocks the fence lets go.                                                *)
LEMMA DrainKeepsPool ==
  ASSUME PoolInv, NEW p, DrainDeferredFrees(p), owned' = owned
  PROVE  PoolInv'
<1>1. PICK k \in 0 .. Len(deferred) :
        /\ free' = free \cup UNION {deferred[i].blocks : i \in 1 .. k}
        /\ deferred' = SubSeq(deferred, k + 1, Len(deferred))
  BY DEF DrainDeferredFrees
<1> DEFINE L == Len(deferred)
<1>2. L \in Nat /\ DOMAIN deferred = 1 .. L /\ \A i \in 1 .. L : deferred[i] \in DeferredEntry
  BY DEF PoolInv
<1>3. /\ deferred' \in Seq(DeferredEntry) /\ DOMAIN deferred' = 1 .. L - k
      /\ \A i \in 1 .. L - k : deferred'[i] = deferred[i + k]
  <2>1. \A i \in k + 1 .. L : deferred[i] \in DeferredEntry
    BY <1>2
  <2>2. /\ deferred' \in Seq(DeferredEntry)
        /\ Len(deferred') = IF k + 1 <= L THEN L - (k + 1) + 1 ELSE 0
        /\ \A i \in 1 .. L - (k + 1) + 1 : deferred'[i] = deferred[k + 1 + i - 1]
    BY <1>1, <1>2, <2>1, SubSeqProperties
  <2>3. Len(deferred') = L - k
    <3>1. k \in 0 .. L
      OBVIOUS
    <3> HIDE DEF L
    <3> QED
      BY <3>1, <1>2, <2>2
  <2>4. \A i \in 1 .. L - k : i \in 1 .. L - (k + 1) + 1 /\ k + 1 + i - 1 = i + k
    BY <1>2
  <2> QED
    BY <2>2, <2>3, <2>4, SMTT(60)
<1>4. /\ \A q \in Requests : owned[q] \cap free = {}
      /\ \A q, s \in Requests : q # s => owned[q] \cap owned[s] = {}
      /\ \A i \in DOMAIN deferred :
          /\ deferred[i].blocks \cap free = {}
          /\ \A q \in Requests : deferred[i].blocks \cap owned[q] = {}
          /\ \A j \in DOMAIN deferred : i # j => deferred[i].blocks \cap deferred[j].blocks = {}
  BY DEF PoolInv, PoolApart
<1> HIDE DEF L
<1>5. \A i \in 1 .. k : i \in DOMAIN deferred
  BY <1>1, <1>2 DEF L
<1>6. \A i \in DOMAIN deferred' :
        /\ i + k \in DOMAIN deferred /\ i + k \notin 1 .. k
        /\ deferred'[i].blocks = deferred[i + k].blocks
  BY <1>1, <1>2, <1>3, SMTT(60)
<1>7. \A i \in DOMAIN deferred :
        i \in 1 .. k \/ (i - k \in DOMAIN deferred' /\ deferred'[i - k].blocks = deferred[i].blocks)
  <2> TAKE i \in DOMAIN deferred
  <2>1. k \in 0 .. L
    BY DEF L
  <2>2. CASE i > k
    <3>1. i - k \in 1 .. L - k /\ i - k + k = i
      BY <2>1, <2>2, <1>2
    <3> QED
      BY <3>1, <1>3
  <2>3. CASE ~(i > k)
    BY <2>1, <2>3, <1>2
  <2> QED
    BY <2>2, <2>3
<1>8. free' \subseteq Blocks
  <2>1. \A i \in 1 .. k : deferred[i].blocks \subseteq Blocks
    BY <1>1, <1>2 DEF DeferredEntry
  <2> QED
    BY <1>1, <2>1 DEF PoolInv
<1>9. \A b : b \in free' <=> b \in free \/ \E i \in 1 .. k : b \in deferred[i].blocks
  BY <1>1
<1>10. PoolCovers'
  BY <1>7, <1>9 DEF PoolInv, PoolCovers
<1>11. \A q \in Requests : owned'[q] \cap free' = {}
  BY <1>1, <1>4, <1>5
<1>12. \A i \in DOMAIN deferred' :
         /\ deferred'[i].blocks \cap free' = {}
         /\ \A q \in Requests : deferred'[i].blocks \cap owned'[q] = {}
         /\ \A j \in DOMAIN deferred' : i # j => deferred'[i].blocks \cap deferred'[j].blocks = {}
  <2> TAKE i \in DOMAIN deferred'
  <2>1. /\ i + k \in DOMAIN deferred /\ i + k \notin 1 .. k
        /\ deferred'[i].blocks = deferred[i + k].blocks
    BY <1>6
  <2>2. deferred'[i].blocks \cap free' = {}
    <3>1. \A j \in 1 .. k : deferred[i + k].blocks \cap deferred[j].blocks = {}
      BY <1>4, <1>5, <2>1
    <3> QED
      BY <3>1, <2>1, <1>1, <1>4
  <2>3. \A q \in Requests : deferred'[i].blocks \cap owned'[q] = {}
    BY <1>4, <2>1
  <2>4. ASSUME NEW j \in DOMAIN deferred', i # j
        PROVE  deferred'[i].blocks \cap deferred'[j].blocks = {}
    <3>1. j + k \in DOMAIN deferred /\ deferred'[j].blocks = deferred[j + k].blocks
      BY <1>6
    <3>2. i + k # j + k
      BY <2>4, <1>3, <1>2
    <3> QED
      BY <3>1, <3>2, <2>1, <1>4
  <2> QED
    BY <2>2, <2>3, <2>4
<1>13. PoolApart'
  BY <1>4, <1>11, <1>12 DEF PoolApart
<1> QED
  BY <1>3, <1>8, <1>10, <1>13 DEF PoolInv

-------------------------------------------------------------------------------
(* The shapes of all variables, and the pool, through every action.         *)

ShapesInv == Shapes /\ PoolInv

LEMMA PoolSame ==
  ASSUME PoolInv, free' = free, owned' = owned, deferred' = deferred
  PROVE  PoolInv'
BY DEF PoolInv, PoolCovers, PoolApart

LEMMA ShapesInitially == Init => ShapesInv
<1> SUFFICES ASSUME Init PROVE ShapesInv
  OBVIOUS
<1>1. req \in [Requests -> RequestRecord]
  BY NewRequestType DEF Init
<1>2. step \in HandlerLocals
  BY IdleType DEF Init
<1>3. /\ requests \cup inflightPrefills \cup recv \cup failed \subseteq Requests
      /\ {running, waiting, skipped} \subseteq Seq(Requests)
      /\ numWaitingForStreaming \in Int /\ free \subseteq Blocks
      /\ owned \in [Requests -> SUBSET Blocks]
      /\ load \in [Requests -> {"idle", "loading", "loaded"}]
      /\ send \in [Requests -> {"none", "sending", "sent"}]
  BY DEF Init
<1>4. /\ deferred \in Seq(DeferredEntry) /\ {schedSeq, procSeq, resets} \subseteq Nat
      /\ inflight \in Seq(DispatchedStep)
  BY Parameters DEF Init
<1>5. PoolCovers /\ PoolApart
  BY DEF Init, PoolCovers, PoolApart
<1> QED
  BY <1>1, <1>2, <1>3, <1>4, <1>5 DEF ShapesInv, Shapes, PoolInv

(* What Current and the candidate of the second loop are.                   *)
LEMMA CurrentType ==
  ASSUME Shapes, MoreRunning
  PROVE  /\ running # <<>> /\ Current \in Requests /\ Current \in ToSet(running)
         /\ step.idx \in DOMAIN running
<1>1. running \in Seq(Requests) /\ step.idx \in Nat \ {0} /\ step.idx <= Len(running)
  BY LocalsTypes DEF Shapes, MoreRunning
<1> QED
  BY <1>1 DEF Current, ToSet

LEMMA CandidateType ==
  ASSUME Shapes, MoreWaiting
  PROVE  /\ Candidate \in Requests
         /\ \/ skipped # <<>> /\ Candidate = Head(skipped) /\ Candidate \in ToSet(skipped)
            \/ skipped = <<>> /\ waiting # <<>> /\ Candidate = Head(waiting)
               /\ Candidate \in ToSet(waiting)
<1>1. skipped \in Seq(Requests) /\ waiting \in Seq(Requests)
  BY DEF Shapes
<1>2. CASE skipped # <<>>
  BY <1>1, <1>2, QueueTail DEF Candidate
<1>3. CASE skipped = <<>>
  <2>1. waiting # <<>>
    BY <1>3 DEF MoreWaiting
  <2> QED
    BY <1>1, <1>3, <2>1, QueueTail DEF Candidate
<1> QED
  BY <1>2, <1>3

LEMMA PopTypes ==
  ASSUME Shapes, MoreWaiting, PopCandidate
  PROVE  /\ waiting' \in Seq(Requests) /\ skipped' \in Seq(Requests)
         /\ skipped # <<>> => skipped' = Tail(skipped) /\ waiting' = waiting
         /\ skipped = <<>> => waiting' = Tail(waiting) /\ skipped' = skipped
<1>1. skipped \in Seq(Requests) /\ waiting \in Seq(Requests)
  BY DEF Shapes
<1>2. CASE skipped # <<>>
  BY <1>1, <1>2, QueueTail DEF PopCandidate
<1>3. CASE skipped = <<>>
  BY <1>1, <1>3, CandidateType, QueueTail DEF PopCandidate
<1> QED
  BY <1>2, <1>3

LEMMA NewTokensType ==
  ASSUME Shapes, NEW q \in RequestRecord
  PROVE  NewTokens(q) \in Int
<1>1. /\ MaxModelLen \in Int /\ step.budget \in Int /\ step.threshold \in Int
      /\ q.all \in Int /\ q.spec \in Int /\ q.placeholders \in Int /\ q.computed \in Int
  BY Parameters, RequestTypes, LocalsTypes DEF Shapes
<1> QED
  BY <1>1 DEF NewTokens, Capped, Least

LEMMA ScheduledType ==
  ASSUME Shapes, NEW r \in Requests, NEW n \in Int, NEW k \in Int
  PROVE  /\ Scheduled(r, n, k) \in BatchEntry
         /\ Append(step.batch, Scheduled(r, n, k)) \in Seq(BatchEntry)
<1>1. req[r].output + req[r].placeholders \in Int
  BY RequestTypes DEF Shapes
<1>2. Scheduled(r, n, k) \in BatchEntry
  BY <1>1 DEF Scheduled, BatchEntry
<1>3. step.batch \in Seq(BatchEntry)
  BY LocalsTypes DEF Shapes
<1> QED
  BY <1>2, <1>3

LEMMA ScheduleRunningTypes ==
  ASSUME ShapesInv,
         BeginSchedule \/ SkipRunning \/ ScheduleRunning \/ PreemptForBlocks \/ EndRunning
  PROVE  ShapesInv'
<1> USE DEF ShapesInv
<1>1. step \in HandlerLocals /\ running \in Seq(Requests) /\ waiting \in Seq(Requests)
  BY DEF Shapes
<1>2. CASE BeginSchedule
  <2> DEFINE t == IF NumQueued <= 1 THEN 0 ELSE LongPrefillTokenThreshold
  <2>1. "running" \in Phases /\ MaxNumScheduledTokens \in Int /\ t \in Int
    BY Parameters DEF Phases
  <2>2. step' = WithBudget(Idle, "running", MaxNumScheduledTokens, t)
    BY <1>2 DEF BeginSchedule, WithBudget
  <2> HIDE DEF t
  <2>3. step' \in HandlerLocals
    BY <2>1, <2>2, IdleType, WithBudgetIs
  <2> QED
    BY <1>2, <2>3, PoolSame DEF BeginSchedule, Shapes, queues, xfer, kv, seqs
<1>3. CASE SkipRunning
  <2>1. step' \in HandlerLocals
    <3>1. step.idx + 1 \in Nat \ {0}
      <4>1. step.idx \in Nat \ {0}
        BY <1>1, LocalsTypes
      <4> QED
        BY <4>1
    <3>2. step' = WithIdx(step, step.idx + 1)
      BY <1>3 DEF SkipRunning, WithIdx
    <3> QED
      BY <3>1, <3>2, <1>1, WithIdxIs
  <2> QED
    BY <1>3, <2>1, PoolSame DEF SkipRunning, Shapes, queues, xfer, kv, seqs
<1>4. CASE ScheduleRunning
  <2> DEFINE q == req[Current]
             n == NewTokens(q)
             k == DraftsScheduled(q, n)
  <2>1. Current \in Requests /\ q \in RequestRecord
    BY <1>4, CurrentType DEF ScheduleRunning, Shapes
  <2>2. n \in Int
    BY <2>1, NewTokensType
  <2>3. k \in Int
    <3>1. q.spec \in Int /\ n + q.computed - q.all - q.placeholders \in Int
      <4> HIDE DEF n, q
      <4> QED
        BY <2>1, <2>2, RequestTypes
    <3> HIDE DEF n, q
    <3> QED
      BY <3>1 DEF DraftsScheduled, Least
  <2>4. Append(step.batch, Scheduled(Current, n, k)) \in Seq(BatchEntry)
    BY <2>1, <2>2, <2>3, ScheduledType
  <2>5. step' \in HandlerLocals
    <3>1. /\ step.idx + 1 \in Nat \ {0} /\ step.budget - n \in Int /\ TRUE \in BOOLEAN
          /\ (step.prefill \/ q.chunk) \in BOOLEAN
      <4>1. step.idx \in Nat \ {0} /\ step.budget \in Int
        BY <1>1, LocalsTypes
      <4> HIDE DEF n, q
      <4> QED
        BY <4>1, <2>2
    <3>2. step' = WithScheduled(step, step.idx + 1, step.budget - n, TRUE,
                     step.prefill \/ q.chunk, Append(step.batch, Scheduled(Current, n, k)))
      BY <1>4 DEF ScheduleRunning, WithScheduled
    <3>3. PICK b \in BOOLEAN : b = (step.prefill \/ q.chunk)
      BY <3>1
    <3> HIDE DEF n, q, k
    <3>4. step' = WithScheduled(step, step.idx + 1, step.budget - n, TRUE, b,
                                Append(step.batch, Scheduled(Current, n, k)))
      BY <3>2, <3>3
    <3>5. \E i \in Nat \ {0}, m \in Int, a, c \in BOOLEAN, B \in Seq(BatchEntry) :
            step' = WithScheduled(step, i, m, a, c, B)
      BY <2>4, <3>1, <3>4, Zenon
    <3> QED
      BY <1>1, <3>5, WithScheduledIs
  <2>6. req' \in [Requests -> RequestRecord]
    <3>1. WithSpec(q, 0) \in RequestRecord
      BY <2>1, WithSpecIs
    <3>2. req' = [req EXCEPT ![Current] = WithSpec(q, 0)]
      BY <1>4 DEF ScheduleRunning, WithSpec
    <3> HIDE DEF q
    <3> QED
      BY <3>1, <3>2 DEF Shapes
  <2>7. PoolInv'
    BY <1>4, <2>1, TakeKeepsPool DEF ScheduleRunning
  <2>8. free' \subseteq Blocks /\ owned' \in [Requests -> SUBSET Blocks]
    BY <2>7 DEF PoolInv
  <2> QED
    BY <1>4, <2>5, <2>6, <2>7, <2>8 DEF ScheduleRunning, Shapes, xfer, queues, seqs
<1>5. CASE PreemptForBlocks
  <2>1. /\ running' \in Seq(Requests) /\ Last(running) \in Requests
        /\ <<Last(running)>> \o waiting \in Seq(Requests)
    BY <1>1, <1>5, CurrentType, QueueFront, QueueCons DEF PreemptForBlocks
  <2>2. step' \in HandlerLocals
    <3> DEFINE p == IF Last(running) = Current THEN "emit" ELSE "running"
    <3>1. p \in Phases /\ TRUE \in BOOLEAN
      BY DEF Phases
    <3>2. step' = WithPreempted(step, TRUE, p)
      BY <1>5 DEF PreemptForBlocks, WithPreempted
    <3> HIDE DEF p
    <3> QED
      BY <1>1, <3>1, <3>2, WithPreemptedIs
  <2>3. PoolInv' /\ load' \in [Requests -> {"idle", "loading", "loaded"}]
    BY <1>5, <2>1, FreeKeepsPool DEF PreemptForBlocks, PreemptRequest, Shapes
  <2>4. req' \in [Requests -> RequestRecord]
    <3> DEFINE r == Last(running)
    <3>1. PreemptedRequest(req[r], RequiresKVDelivery) \in RequestRecord
      BY <2>1, Parameters, PreemptedIs DEF Shapes
    <3>2. req' = [req EXCEPT ![r] = PreemptedRequest(req[r], RequiresKVDelivery)]
      BY <1>5 DEF PreemptForBlocks, PreemptRequest
    <3> HIDE DEF r
    <3> QED
      BY <3>1, <3>2 DEF Shapes
  <2> QED
    BY <1>5, <2>1, <2>2, <2>3, <2>4
       DEF PreemptForBlocks, PreemptRequest, Shapes, PoolInv, xfer, seqs
<1>6. CASE EndRunning
  <2>1. step' \in HandlerLocals
    <3> DEFINE p == IF step.preempted THEN "emit" ELSE "waiting"
    <3>1. p \in Phases
      BY DEF Phases
    <3>2. step' = WithPhase(step, p)
      BY <1>6 DEF EndRunning, WithPhase
    <3> HIDE DEF p
    <3> QED
      BY <1>1, <3>1, <3>2, WithPhaseIs
  <2> QED
    BY <1>6, <2>1, PoolSame DEF EndRunning, Shapes, queues, xfer, kv, seqs
<1> QED
  BY <1>2, <1>3, <1>4, <1>5, <1>6

LEMMA SkipWaitingTypes ==
  ASSUME ShapesInv, SkipWaiting \/ EndWaiting \/ \E ext \in LoadableTokens \cup {0} : BreakWaiting(ext)
  PROVE  ShapesInv'
<1> USE DEF ShapesInv
<1>1. step \in HandlerLocals
  BY DEF Shapes
<1>2. CASE SkipWaiting
  <2>1. /\ Candidate \in Requests
        /\ waiting' \in Seq(Requests) /\ skipped' \in Seq(Requests)
    BY <1>2, CandidateType, PopTypes DEF SkipWaiting
  <2>2. step' \in HandlerLocals
    <3>1. <<Candidate>> \o step.skipped \in Seq(Requests)
      BY <1>1, <2>1, LocalsTypes, QueueCons
    <3>2. step' = WithSkipped(step, <<Candidate>> \o step.skipped)
      BY <1>2 DEF SkipWaiting, WithSkipped
    <3> QED
      BY <1>1, <3>1, <3>2, WithSkippedIs
  <2> QED
    BY <1>2, <2>1, <2>2, PoolSame DEF SkipWaiting, Shapes, xfer, kv, seqs
<1>3. CASE step' = WithPhase(step, "emit") /\ UNCHANGED <<req, requests, queues, inflightPrefills,
                                                       xfer, kv, seqs, inflight, resets>>
  <2>1. step' \in HandlerLocals
    <3>1. "emit" \in Phases
      BY DEF Phases
    <3> QED
      BY <1>1, <1>3, <3>1, WithPhaseIs
  <2> QED
    BY <1>3, <2>1, PoolSame DEF Shapes, queues, xfer, kv, seqs
<1>4. CASE EndWaiting
  BY <1>3, <1>4 DEF EndWaiting, WithPhase
<1>5. CASE \E ext \in LoadableTokens \cup {0} : BreakWaiting(ext)
  BY <1>3, <1>5 DEF BreakWaiting, WithPhase
<1> QED
  BY <1>2, <1>4, <1>5

LEMMA PromoteTypes ==
  ASSUME ShapesInv, PromoteLoaded
  PROVE  ShapesInv'
<1> USE DEF ShapesInv
<1> DEFINE r == Candidate
           q == req[r]
           x == IF q.preempted THEN "PREEMPTED" ELSE "WAITING"
           n == IF r \notin failed /\ q.computed = q.all THEN q.all - 1 ELSE q.computed
<1>1. r \in Requests /\ q \in RequestRecord
  BY CandidateType DEF PromoteLoaded, Shapes
<1>2. req' \in [Requests -> RequestRecord]
  <2>1. x \in Status /\ n \in Int
    BY <1>1, RequestTypes DEF Status
  <2>2. req' = [req EXCEPT ![r] = WithAdmission(q, x, n)]
    <3>1. req' = [req EXCEPT ![r].status = x, ![r].computed = n]
      BY DEF PromoteLoaded
    <3> QED
      BY <3>1, <1>1 DEF WithAdmission, Shapes
  <2> HIDE DEF r, q, x, n
  <2> QED
    BY <1>1, <2>1, <2>2, WithAdmissionIs DEF Shapes
<1>3. PoolInv' /\ load' \in [Requests -> {"idle", "loading", "loaded"}]
  <2>1. CASE r \in failed /\ q.computed = 0
    BY <1>1, <2>1, ReturnKeepsPool DEF PromoteLoaded, Shapes
  <2>2. CASE ~(r \in failed /\ q.computed = 0)
    BY <2>2, PoolSame DEF PromoteLoaded, Shapes
  <2> QED
    BY <2>1, <2>2
<1>4. recv' \subseteq recv /\ failed' \subseteq failed
  BY DEF PromoteLoaded
<1> HIDE DEF r, q, x, n
<1> QED
  BY <1>2, <1>3, <1>4 DEF PromoteLoaded, Shapes, PoolInv, queues, seqs

LEMMA AdmitLoadTypes ==
  ASSUME ShapesInv, NEW ext \in LoadableTokens, AdmitLoad(ext)
  PROVE  ShapesInv'
<1> USE DEF ShapesInv
<1> DEFINE r == Candidate
<1>1. step \in HandlerLocals /\ r \in Requests /\ req[r] \in RequestRecord
  BY CandidateType DEF AdmitLoad, Shapes
<1>2. waiting' \in Seq(Requests) /\ skipped' \in Seq(Requests)
  BY PopTypes DEF AdmitLoad
<1>3. req' \in [Requests -> RequestRecord]
  <2>1. ext \in Int /\ "WAITING_FOR_REMOTE_KVS" \in Status
    BY Parameters DEF Status, Blocked
  <2>2. req' = [req EXCEPT ![r] = WithAdmission(req[r], "WAITING_FOR_REMOTE_KVS", ext)]
    <3>1. req' = [req EXCEPT ![r].status = "WAITING_FOR_REMOTE_KVS", ![r].computed = ext]
      BY DEF AdmitLoad
    <3> QED
      BY <3>1, <1>1 DEF WithAdmission, Shapes
  <2> HIDE DEF r
  <2> QED
    BY <1>1, <2>1, <2>2, WithAdmissionIs DEF Shapes
<1>4. step' \in HandlerLocals
  <2>1. <<r>> \o step.skipped \in Seq(Requests)
    BY <1>1, LocalsTypes, QueueCons
  <2>2. step' = WithSkipped(step, <<r>> \o step.skipped)
    BY DEF AdmitLoad, WithSkipped
  <2> QED
    BY <1>1, <2>1, <2>2, WithSkippedIs
<1>5. PoolInv' /\ load' \in [Requests -> {"idle", "loading", "loaded"}]
  BY <1>1, TakeKeepsPool DEF AdmitLoad, Shapes
<1>6. inflightPrefills' \subseteq Requests
  BY <1>1 DEF AdmitLoad, Shapes
<1> HIDE DEF r
<1> QED
  BY <1>2, <1>3, <1>4, <1>5, <1>6 DEF AdmitLoad, Shapes, PoolInv, xfer, seqs

LEMMA AdmittedTokensType ==
  ASSUME Shapes, NEW r \in Requests
  PROVE  AdmittedTokens(r) \in Int
<1>1. /\ NumSpecTokens \in Int /\ step.budget \in Int /\ step.threshold \in Int
      /\ req[r].all \in Int /\ req[r].computed \in Int
  BY Parameters, RequestTypes, LocalsTypes DEF Shapes
<1> QED
  BY <1>1 DEF AdmittedTokens, Capped, Least

LEMMA AdmitRunningTypes ==
  ASSUME ShapesInv, AdmitRunning
  PROVE  ShapesInv'
<1> USE DEF ShapesInv
<1> DEFINE r == Candidate
           n == AdmittedTokens(r)
           k == IF Padded(r) THEN NumSpecTokens ELSE 0
<1>1. /\ step \in HandlerLocals /\ r \in Requests /\ req[r] \in RequestRecord
      /\ running \in Seq(Requests)
  BY CandidateType DEF AdmitRunning, Shapes
<1>2. waiting' \in Seq(Requests) /\ skipped' \in Seq(Requests)
  BY PopTypes DEF AdmitRunning
<1>3. req' \in [Requests -> RequestRecord]
  <2>1. "RUNNING" \in Status
    BY DEF Status
  <2>2. req' = [req EXCEPT ![r] = WithStatus(req[r], "RUNNING")]
    BY DEF AdmitRunning, WithStatus
  <2> HIDE DEF r
  <2> QED
    BY <1>1, <2>1, <2>2, WithStatusIs DEF Shapes
<1>4. step' \in HandlerLocals
  <2>1. n \in Int /\ k \in Int
    BY <1>1, AdmittedTokensType, Parameters
  <2>2. Append(step.batch, Scheduled(r, n, k)) \in Seq(BatchEntry)
    BY <1>1, <2>1, ScheduledType
  <2>3. step' = WithAdmitted(step, step.budget - n, Append(step.batch, Scheduled(r, n, k)))
    BY DEF AdmitRunning, WithAdmitted
  <2>4. step.budget - n \in Int
    <3>1. step.budget \in Int
      BY <1>1, LocalsTypes
    <3> HIDE DEF n
    <3> QED
      BY <2>1, <3>1
  <2> HIDE DEF r, n, k
  <2> QED
    BY <1>1, <2>2, <2>3, <2>4, WithAdmittedIs
<1>5. PoolInv'
  BY <1>1, TakeKeepsPool DEF AdmitRunning
<1>6. inflightPrefills' \subseteq Requests
  BY <1>1 DEF AdmitRunning, Shapes
<1>7. running' \in Seq(Requests)
  BY <1>1, QueueAppend DEF AdmitRunning
<1> HIDE DEF r, n, k
<1> QED
  BY <1>2, <1>3, <1>4, <1>5, <1>6, <1>7 DEF AdmitRunning, Shapes, PoolInv, xfer, seqs

(* The entry of a request of the batch.                                     *)
LEMMA EntryOfIs ==
  ASSUME NEW batch \in Seq(BatchEntry), NEW r \in BatchIds(batch)
  PROVE  /\ EntryOf(batch, r) \in BatchEntry /\ EntryOf(batch, r).r = r
         /\ EntryOf(batch, r) \in ToSet(batch) /\ r \in Requests
<1>1. PICK i \in DOMAIN batch : batch[i].r = r
  BY DEF BatchIds
<1>2. batch[i] \in ToSet(batch)
  BY DEF ToSet
<1>3. EntryOf(batch, r) \in ToSet(batch) /\ EntryOf(batch, r).r = r
  BY <1>1, <1>2 DEF EntryOf
<1>4. ToSet(batch) \subseteq BatchEntry
  BY DEF ToSet
<1> QED
  BY <1>3, <1>4 DEF BatchEntry

LEMMA BatchIdsType ==
  ASSUME NEW batch \in Seq(BatchEntry)
  PROVE  BatchIds(batch) \subseteq Requests
BY EntryOfIs

(* Its record in the new step of the pipeline.                              *)
LEMMA EndScheduleTypes ==
  ASSUME ShapesInv, EndSchedule
  PROVE  ShapesInv'
<1> USE DEF ShapesInv
<1> DEFINE ids == BatchIds(step.batch)
           seq == IF DeferBlockFree /\ ids # {} THEN schedSeq + 1 ELSE schedSeq
           After(r) == IF r \in ids
                       THEN AfterSchedule(req[r], EntryOf(step.batch, r), seq)
                       ELSE req[r]
           batch == [i \in DOMAIN step.batch |->
                       [step.batch[i] EXCEPT !.samples = ~After(step.batch[i].r).chunk]]
           d == [seq |-> seq, writes |-> UNION {owned[r] : r \in ids}, batch |-> batch]
<1>1. /\ step \in HandlerLocals /\ step.batch \in Seq(BatchEntry) /\ step.skipped \in Seq(Requests)
      /\ schedSeq \in Nat /\ req \in [Requests -> RequestRecord] /\ ids \subseteq Requests
  BY LocalsTypes, BatchIdsType DEF Shapes
<1>2. seq \in Nat
  BY <1>1
<1>3. \A r \in Requests : After(r) \in RequestRecord
  <2> HIDE DEF seq
  <2>1. ASSUME NEW r \in ids PROVE AfterSchedule(req[r], EntryOf(step.batch, r), seq) \in RequestRecord
    BY <1>1, <1>2, EntryOfIs, AfterScheduleIs
  <2> QED
    BY <1>1, <2>1
<1>4. req' \in [Requests -> RequestRecord]
  <2>1. req' = [r \in Requests |-> After(r)]
    BY DEF EndSchedule
  <2> HIDE DEF After
  <2> QED
    BY <1>3, <2>1, SMTT(60)
<1>5. d \in DispatchedStep
  <2>1. batch \in Seq(BatchEntry)
    <3>1. ASSUME NEW i \in DOMAIN step.batch
          PROVE  [step.batch[i] EXCEPT !.samples = ~After(step.batch[i].r).chunk] \in BatchEntry
      <4>1. step.batch[i] \in BatchEntry
        BY <1>1
      <4>2. PICK b \in BOOLEAN : b = ~After(step.batch[i].r).chunk
        OBVIOUS
      <4> HIDE DEF After
      <4> QED
        BY <4>1, <4>2 DEF BatchEntry
    <3> HIDE DEF After
    <3>2. DOMAIN step.batch = 1 .. Len(step.batch) /\ Len(step.batch) \in Nat
      BY <1>1
    <3> QED
      BY <3>1, <3>2
  <2>2. UNION {owned[r] : r \in ids} \in SUBSET Blocks
    BY <1>1, SMTT(60) DEF Shapes
  <2> HIDE DEF batch, ids, seq
  <2> QED
    BY <1>2, <2>1, <2>2 DEF DispatchedStep
<1>6. inflight' \in Seq(DispatchedStep)
  <2>1. inflight' = Append(inflight, d)
    BY SMTT(60) DEF EndSchedule
  <2> HIDE DEF d
  <2> QED
    BY <1>5, <2>1 DEF Shapes
<1>7. load' \in [Requests -> {"idle", "loading", "loaded"}]
  BY <1>1, SMTT(60) DEF EndSchedule, Shapes
<1>8. schedSeq' \in Nat /\ inflightPrefills' \subseteq inflightPrefills
  BY <1>2, SMTT(60) DEF EndSchedule
<1>9. skipped' \in Seq(Requests)
  BY <1>1, QueueReverse, QueueConcat, SMTT(60) DEF EndSchedule, Shapes
<1>10. step' \in HandlerLocals
  BY IdleType DEF EndSchedule
<1>11. PoolInv'
  BY PoolSame DEF EndSchedule
<1> HIDE DEF ids, seq, After, batch, d
<1> QED
  BY <1>4, <1>6, <1>7, <1>8, <1>9, <1>10, <1>11, ZenonT(60) DEF EndSchedule, Shapes, PoolInv, xfer

(* What the worker may say of the loads of a step.                          *)
LEMMA InvalidBlocksIs ==
  ASSUME NEW batch, NEW bad \in InvalidBlocks(batch)
  PROVE  /\ DOMAIN bad \subseteq {r \in requests : req[r].status = "WAITING_FOR_REMOTE_KVS"}
         /\ \A r \in DOMAIN bad :
              bad[r] \in Nat /\ bad[r] * BlockSize < req[r].computed - SlotTokens(batch, r)
<1> DEFINE awaited == {r \in requests : req[r].status = "WAITING_FOR_REMOTE_KVS"}
           loads == IF FailingLoads THEN SUBSET awaited ELSE {{}}
           Bad(F) == {b \in [F -> 0 .. Cardinality(Blocks)] :
                        \A r \in F : b[r] \in ScannedBlocks(r, batch)}
<1>1. bad \in UNION {Bad(F) : F \in loads}
  BY DEF InvalidBlocks
<1>2. PICK F \in loads : bad \in Bad(F)
  <2> HIDE DEF loads, Bad
  <2> QED
    BY <1>1
<1>3. F \subseteq awaited
  <2> HIDE DEF awaited
  <2> QED
    BY <1>2
<1>4. Cardinality(Blocks) \in Nat
  BY Parameters, FS_CardinalityType
<1>5. DOMAIN bad = F /\ \A r \in F : bad[r] \in Nat /\ bad[r] \in ScannedBlocks(r, batch)
  BY <1>2, <1>4
<1>6. \A r \in F : bad[r] * BlockSize < req[r].computed - SlotTokens(batch, r)
  BY <1>5 DEF ScannedBlocks
<1> QED
  BY <1>3, <1>5, <1>6

LEMMA TruncatedIs ==
  ASSUME Shapes, NEW batch, NEW bad \in InvalidBlocks(batch)
  PROVE  /\ Truncated(bad) \in [Requests -> RequestRecord]
         /\ \A r \in Requests \ DOMAIN bad : Truncated(bad)[r] = req[r]
         /\ \A r \in Requests \cap DOMAIN bad :
              Truncated(bad)[r] = WithComputed(req[r], bad[r] * BlockSize)
<1>1. ASSUME NEW r \in Requests \cap DOMAIN bad
      PROVE  WithComputed(req[r], bad[r] * BlockSize) \in RequestRecord
  <2>1. bad[r] \in Nat /\ BlockSize \in Nat /\ req[r] \in RequestRecord
    BY Parameters, InvalidBlocksIs DEF Shapes
  <2>2. bad[r] * BlockSize \in Int
    BY <2>1
  <2> QED
    BY <2>1, <2>2, WithComputedIs
<1>2. Truncated(bad) = [r \in Requests |-> IF r \in DOMAIN bad
                                           THEN WithComputed(req[r], bad[r] * BlockSize) ELSE req[r]]
  BY DEF Truncated, WithComputed
<1> QED
  BY <1>1, <1>2 DEF Shapes

LEMMA ReportedType == Shapes => Reported \subseteq requests /\ Reported \subseteq Requests
BY DEF Reported, Shapes

(* The oldest step leaves the pipeline.                                     *)
LEMMA HeadStep ==
  ASSUME Shapes, inflight # <<>>
  PROVE  /\ Head(inflight) \in DispatchedStep /\ Head(inflight).batch \in Seq(BatchEntry)
         /\ Tail(inflight) \in Seq(DispatchedStep)
<1>1. inflight \in Seq(DispatchedStep)
  BY DEF Shapes
<1>2. Head(inflight) \in DispatchedStep /\ Tail(inflight) \in Seq(DispatchedStep)
  BY <1>1
<1> QED
  BY <1>2 DEF DispatchedStep

LEMMA BeginUpdateTypes ==
  ASSUME ShapesInv, BeginUpdate
  PROVE  ShapesInv'
<1> USE DEF ShapesInv
<1> DEFINE batch == Head(inflight).batch
<1>1. PICK bad \in InvalidBlocks(batch) :
        /\ req' = Truncated(bad)
        /\ failed' = failed \cup RetriedLoads(bad)
        /\ step' = WithOutput(Idle, "update", batch, BatchIds(batch), Reported, FailedLoads(bad))
  BY DEF BeginUpdate, WithOutput
<1>2. batch \in Seq(BatchEntry) /\ inflight' \in Seq(DispatchedStep)
  BY HeadStep DEF BeginUpdate
<1>3. DOMAIN bad \subseteq Requests
  BY InvalidBlocksIs DEF Shapes
<1>4. req' \in [Requests -> RequestRecord]
  BY <1>1, TruncatedIs
<1>5. failed' \subseteq Requests
  BY <1>1, <1>3 DEF RetriedLoads, Shapes
<1>6. step' \in HandlerLocals
  <2>1. /\ "update" \in Phases /\ BatchIds(batch) \subseteq Requests
        /\ FailedLoads(bad) \subseteq Requests /\ Reported \subseteq Requests
    BY <1>2, <1>3, BatchIdsType, ReportedType DEF Phases, FailedLoads
  <2> HIDE DEF batch
  <2> QED
    BY <1>1, <1>2, <2>1, IdleType, WithOutputIs
<1>7. PoolInv' /\ procSeq' \in Nat
  <2>1. CASE DeferBlockFree /\ batch # <<>>
    BY <2>1, DrainKeepsPool, SMTT(60) DEF BeginUpdate, Shapes
  <2>2. CASE ~(DeferBlockFree /\ batch # <<>>)
    BY <2>2, PoolSame DEF BeginUpdate, Shapes
  <2> QED
    BY <2>1, <2>2
<1> HIDE DEF batch
<1> QED
  BY <1>2, <1>4, <1>5, <1>6, <1>7 DEF BeginUpdate, Shapes, PoolInv, queues

(* The entry update_from_output looks at.                                   *)
LEMMA NextEntryIs ==
  ASSUME Shapes, NextEntry
  PROVE  /\ Head(step.todo) \in BatchEntry /\ Tail(step.todo) \in Seq(BatchEntry)
         /\ Head(step.todo).r \in Requests /\ req[Head(step.todo).r] \in RequestRecord
<1>1. step.todo \in Seq(BatchEntry) /\ step.todo # <<>>
  BY LocalsTypes DEF Shapes, NextEntry
<1>2. Head(step.todo) \in BatchEntry /\ Tail(step.todo) \in Seq(BatchEntry)
  BY <1>1
<1>3. Head(step.todo).r \in Requests
  BY <1>2 DEF BatchEntry
<1> QED
  BY <1>2, <1>3 DEF Shapes

LEMMA SkipEntryTypes ==
  ASSUME ShapesInv, SkipEntry
  PROVE  ShapesInv'
<1> USE DEF ShapesInv
<1> DEFINE e == Head(step.todo)
<1>1. /\ e \in BatchEntry /\ Tail(step.todo) \in Seq(BatchEntry)
      /\ e.r \in Requests /\ req[e.r] \in RequestRecord
  BY NextEntryIs DEF SkipEntry
<1>2. req' \in [Requests -> RequestRecord]
  <2>1. req' = IF e.r \in requests THEN [req EXCEPT ![e.r] = Drain(req[e.r], e)] ELSE req
    BY DEF SkipEntry
  <2> HIDE DEF e
  <2> QED
    BY <1>1, <2>1, DrainIs DEF Shapes
<1>3. step' \in HandlerLocals
  <2>1. step' = WithTodo(step, Tail(step.todo))
    BY DEF SkipEntry, WithTodo
  <2> QED
    BY <1>1, <2>1, WithTodoIs DEF Shapes
<1> QED
  BY <1>2, <1>3, PoolSame DEF SkipEntry, Shapes, queues, xfer, kv, seqs

(* An entry a few positions earlier.                                        *)
LEMMA MovedEntryIs ==
  ASSUME NEW x \in BatchEntry, NEW n \in Int
  PROVE  [x EXCEPT !.pos = @ - n] \in BatchEntry
BY DEF BatchEntry

(* Rejected drafts move the steps behind, and change nothing else of them.  *)
LEMMA RebasedIs ==
  ASSUME Shapes, NEW r \in Requests, NEW n \in Int
  PROVE  /\ Rebased(r, n) \in Seq(DispatchedStep) /\ Len(Rebased(r, n)) = Len(inflight)
         /\ \A i \in DOMAIN inflight :
              /\ Rebased(r, n)[i].seq = inflight[i].seq
              /\ Rebased(r, n)[i].writes = inflight[i].writes
              /\ Rebased(r, n)[i].batch \in Seq(BatchEntry)
              /\ Len(Rebased(r, n)[i].batch) = Len(inflight[i].batch)
              /\ \A j \in DOMAIN inflight[i].batch :
                  Rebased(r, n)[i].batch[j]
                    = IF inflight[i].batch[j].r = r
                      THEN [inflight[i].batch[j] EXCEPT !.pos = @ - n] ELSE inflight[i].batch[j]
<1> DEFINE s == [i \in DOMAIN inflight |-> [inflight[i] EXCEPT !.batch = MovedBack(@, r, n)]]
<1>1. Rebased(r, n) = s
  BY DEF Rebased
<1>2. inflight \in Seq(DispatchedStep)
  BY DEF Shapes
<1>3. ASSUME NEW b \in Seq(BatchEntry)
      PROVE  /\ MovedBack(b, r, n) \in Seq(BatchEntry) /\ Len(MovedBack(b, r, n)) = Len(b)
             /\ DOMAIN MovedBack(b, r, n) = DOMAIN b
  <2>1. ASSUME NEW j \in DOMAIN b
        PROVE  (IF b[j].r = r THEN [b[j] EXCEPT !.pos = @ - n] ELSE b[j]) \in BatchEntry
    <3>1. b[j] \in BatchEntry
      OBVIOUS
    <3> QED
      BY <3>1, MovedEntryIs
  <2>2. DOMAIN b = 1 .. Len(b) /\ Len(b) \in Nat
    OBVIOUS
  <2>3. MovedBack(b, r, n) \in [1 .. Len(b) -> BatchEntry]
    BY <2>1, <2>2 DEF MovedBack
  <2> QED
    BY <2>2, <2>3
<1>4. \A i \in DOMAIN inflight :
        inflight[i] \in DispatchedStep /\ inflight[i].batch \in Seq(BatchEntry)
  <2>1. \A i \in DOMAIN inflight : inflight[i] \in DispatchedStep
    BY <1>2
  <2> QED
    BY <2>1 DEF DispatchedStep
<1>5. ASSUME NEW i \in DOMAIN inflight
      PROVE  /\ s[i] \in DispatchedStep /\ s[i].seq = inflight[i].seq
             /\ s[i].writes = inflight[i].writes /\ s[i].batch = MovedBack(inflight[i].batch, r, n)
  <2>1. s[i] = [inflight[i] EXCEPT !.batch = MovedBack(inflight[i].batch, r, n)]
    OBVIOUS
  <2>2. inflight[i] \in DispatchedStep /\ MovedBack(inflight[i].batch, r, n) \in Seq(BatchEntry)
    BY <1>3, <1>4
  <2> HIDE DEF s
  <2> QED
    BY <2>1, <2>2 DEF DispatchedStep
<1>6. s \in Seq(DispatchedStep) /\ Len(s) = Len(inflight)
  <2>1. DOMAIN inflight = 1 .. Len(inflight) /\ Len(inflight) \in Nat /\ DOMAIN s = DOMAIN inflight
    BY <1>2
  <2>2. s = [i \in DOMAIN inflight |-> s[i]]
    OBVIOUS
  <2> HIDE DEF s
  <2>3. s \in [1 .. Len(inflight) -> DispatchedStep]
    BY <1>5, <2>1, <2>2
  <2> QED
    BY <2>1, <2>3
<1> HIDE DEF s
<1> QED
  BY <1>1, <1>3, <1>4, <1>5, <1>6, ZenonT(60) DEF MovedBack

LEMMA FreeRequestTypes ==
  ASSUME ShapesInv, NEW r \in Requests, FreeRequest(r)
  PROVE  /\ PoolInv' /\ load' \in [Requests -> {"idle", "loading", "loaded"}]
         /\ requests' \subseteq Requests /\ send' \in [Requests -> {"none", "sending", "sent"}]
<1> USE DEF ShapesInv
<1>1. /\ schedSeq \in Nat /\ load \in [Requests -> {"idle", "loading", "loaded"}]
      /\ requests \subseteq Requests /\ send \in [Requests -> {"none", "sending", "sent"}]
  BY DEF Shapes
<1>2. CASE requests' = requests \ {r} /\ FreeRequestBlocks(r) /\ UNCHANGED send
  BY <1>1, <1>2, FreeKeepsPool
<1>3. CASE send' = [send EXCEPT ![r] = "sending"] /\ UNCHANGED <<requests, kv>>
  BY <1>1, <1>3, PoolSame DEF kv
<1> QED
  BY <1>2, <1>3 DEF FreeRequest

LEMMA StopTypes ==
  ASSUME ShapesInv, NEW r \in requests, NEW q \in RequestRecord, Stop(r, q)
  PROVE  /\ req' \in [Requests -> RequestRecord]
         /\ requests' \subseteq Requests /\ inflightPrefills' \subseteq Requests
         /\ PoolInv' /\ load' \in [Requests -> {"idle", "loading", "loaded"}]
         /\ waiting' \in Seq(Requests) /\ skipped' \in Seq(Requests)
         /\ numWaitingForStreaming' \in Int /\ send' \in [Requests -> {"none", "sending", "sent"}]
<1> USE DEF ShapesInv
<1>1. /\ r \in Requests /\ req \in [Requests -> RequestRecord] /\ schedSeq \in Nat
      /\ load \in [Requests -> {"idle", "loading", "loaded"}]
      /\ waiting \in Seq(Requests) /\ skipped \in Seq(Requests) /\ numWaitingForStreaming \in Int
      /\ requests \subseteq Requests /\ inflightPrefills \subseteq Requests
      /\ send \in [Requests -> {"none", "sending", "sent"}]
  BY DEF Shapes
<1>2. CASE r \notin Resumable \/ (q.queue # <<>> /\ Head(q.queue) = "end")
  <2>1. req' = [req EXCEPT ![r] = WithStatus(q, "FINISHED")] /\ "FINISHED" \in Status
    BY <1>2 DEF Stop, WithStatus, Status
  <2>2. req' \in [Requests -> RequestRecord]
    BY <1>1, <2>1, WithStatusIs
  <2>3. /\ PoolInv' /\ load' \in [Requests -> {"idle", "loading", "loaded"}]
        /\ requests' \subseteq Requests /\ send' \in [Requests -> {"none", "sending", "sent"}]
    <3>1. FreeRequest(r)
      BY <1>2 DEF Stop
    <3> QED
      BY <1>1, <3>1, FreeRequestTypes
  <2> QED
    BY <1>1, <1>2, <2>2, <2>3 DEF Stop
<1>3. CASE ~(r \notin Resumable \/ (q.queue # <<>> /\ Head(q.queue) = "end")) /\ q.queue # <<>>
  <2>1. req' = [req EXCEPT ![r] = [SessionRequest(q) EXCEPT !.queue = Tail(q.queue)]]
    <3>1. SessionRequest(q).queue = q.queue
      BY SessionIs DEF SameUpdates
    <3> QED
      BY <1>3, <3>1 DEF Stop
  <2>2. SessionRequest(q) \in RequestRecord /\ Tail(q.queue) \in Seq({"chunk", "end"})
    BY <1>3, SessionIs, RequestTypes
  <2> DEFINE t == [SessionRequest(q) EXCEPT !.queue = Tail(q.queue)]
  <2>3. t \in RequestRecord
    <3> DEFINE v == SessionRequest(q)
    <3>1. t = WithUpdates(v, Tail(q.queue), v.updates)
      BY <2>2 DEF WithUpdates, RequestRecord
    <3>2. v.updates \in Nat
      BY <2>2, RequestTypes
    <3> HIDE DEF t, v
    <3> QED
      BY <2>2, <3>1, <3>2, WithUpdatesIs DEF v
  <2>4. req' \in [Requests -> RequestRecord]
    <3> HIDE DEF t
    <3> QED
      BY <1>1, <2>1, <2>3 DEF t
  <2>5. waiting' \in Seq(Requests)
    <3>1. waiting' = Append(waiting, r)
      BY <1>3 DEF Stop
    <3> QED
      BY <1>1, <3>1
  <2> HIDE DEF t
  <2>6. /\ UNCHANGED <<requests, inflightPrefills, send, kv>>
        /\ UNCHANGED <<skipped, numWaitingForStreaming>>
    BY <1>3 DEF Stop
  <2> QED
    BY <1>1, <2>4, <2>5, <2>6, PoolSame DEF kv
<1>4. CASE ~(r \notin Resumable \/ (q.queue # <<>> /\ Head(q.queue) = "end")) /\ q.queue = <<>>
  <2>1. req' = [req EXCEPT ![r] = WithStatus(q, "WAITING_FOR_STREAMING_REQ")]
    BY <1>4 DEF Stop, WithStatus
  <2>2. "WAITING_FOR_STREAMING_REQ" \in Status
    BY DEF Status, Blocked
  <2>3. req' \in [Requests -> RequestRecord]
    BY <1>1, <2>1, <2>2, WithStatusIs
  <2> QED
    BY <1>1, <1>4, <2>3, PoolSame, QueueAppend, SMTT(60) DEF Stop, kv
<1> QED
  BY <1>2, <1>3, <1>4

LEMMA UpdateEntryTypes ==
  ASSUME ShapesInv, NEW g \in Int, NEW m \in Int, NEW eos \in BOOLEAN, UpdateEntry(g, m, eos)
  PROVE  ShapesInv'
<1> USE DEF ShapesInv
<1> DEFINE e == Head(step.todo)
           q == Deliver(req[e.r], e, g, m)
           stopped == eos \/ AtLimit(q)
<1>1. /\ e \in BatchEntry /\ Tail(step.todo) \in Seq(BatchEntry)
      /\ e.r \in Requests /\ req[e.r] \in RequestRecord /\ e.r \in requests
  BY NextEntryIs DEF UpdateEntry
<1>2. q \in RequestRecord
  BY <1>1, DeliverIs
<1>3. /\ req' \in [Requests -> RequestRecord]
      /\ requests' \subseteq Requests /\ inflightPrefills' \subseteq Requests
      /\ PoolInv' /\ load' \in [Requests -> {"idle", "loading", "loaded"}]
      /\ waiting' \in Seq(Requests) /\ skipped' \in Seq(Requests)
      /\ numWaitingForStreaming' \in Int /\ send' \in [Requests -> {"none", "sending", "sent"}]
  <2>1. CASE stopped
    <3>1. Stop(e.r, q)
      BY <2>1 DEF UpdateEntry
    <3> HIDE DEF e, q
    <3> QED
      BY <1>1, <1>2, <3>1, StopTypes, SMTT(60)
  <2>2. CASE ~stopped
    <3>1. /\ req' = [req EXCEPT ![e.r] = q]
          /\ UNCHANGED <<requests, inflightPrefills, waiting, skipped, numWaitingForStreaming, send, kv>>
      BY <2>2 DEF UpdateEntry
    <3> HIDE DEF e, q
    <3> QED
      BY <1>1, <1>2, <3>1, PoolSame, SMTT(60) DEF Shapes, kv
  <2> QED
    BY <2>1, <2>2
<1>4. step' \in HandlerLocals
  <2> DEFINE R == IF stopped /\ q.status = "RUNNING" THEN step.stoppedRunning \cup {e.r}
                  ELSE step.stoppedRunning
             O == IF stopped /\ q.status # "RUNNING" THEN step.stoppedOther \cup {e.r}
                  ELSE step.stoppedOther
  <2>1. step' = WithStopped(step, Tail(step.todo), R, O)
    BY DEF UpdateEntry, WithStopped
  <2>2. step \in HandlerLocals /\ R \subseteq Requests /\ O \subseteq Requests
    BY <1>1, LocalsTypes DEF Shapes
  <2> HIDE DEF R, O, e
  <2> QED
    BY <1>1, <2>1, <2>2, WithStoppedIs
<1>5. inflight' \in Seq(DispatchedStep)
  <2>1. inflight' = Rebased(e.r, e.k + 1 - g) /\ e.k \in Int
    BY <1>1 DEF UpdateEntry, BatchEntry
  <2> HIDE DEF e
  <2> QED
    BY <1>1, <2>1, RebasedIs
<1> HIDE DEF e, q, stopped
<1> QED
  BY <1>3, <1>4, <1>5, ZenonT(60) DEF UpdateEntry, Shapes, PoolInv, seqs

LEMMA RemoveStoppedTypes ==
  ASSUME ShapesInv, RemoveStopped
  PROVE  ShapesInv'
<1> USE DEF ShapesInv
<1>1. /\ running \in Seq(Requests) /\ waiting \in Seq(Requests) /\ skipped \in Seq(Requests)
      /\ step \in HandlerLocals
  BY DEF Shapes
<1>2. running' \in Seq(Requests) /\ waiting' \in Seq(Requests) /\ skipped' \in Seq(Requests)
  BY <1>1, QueueRemoveAll DEF RemoveStopped
<1>3. step' \in HandlerLocals
  <2>1. step' = WithPhase(step, "transfers") /\ "transfers" \in Phases
    BY DEF RemoveStopped, WithPhase, Phases
  <2> QED
    BY <1>1, <2>1, WithPhaseIs
<1> QED
  BY <1>2, <1>3, PoolSame DEF RemoveStopped, Shapes, xfer, kv, seqs

(* finish_requests, wherever it is called from.                             *)
LEMMA FinishRequestTypes ==
  ASSUME ShapesInv, NEW r \in Requests, FinishRequest(r), step' \in HandlerLocals
  PROVE  ShapesInv'
<1> USE DEF ShapesInv
<1>1. /\ running \in Seq(Requests) /\ waiting \in Seq(Requests) /\ skipped \in Seq(Requests)
      /\ req \in [Requests -> RequestRecord] /\ numWaitingForStreaming \in Int
      /\ requests \subseteq Requests /\ inflightPrefills \subseteq Requests
      /\ recv \subseteq Requests /\ failed \subseteq Requests
      /\ load \in [Requests -> {"idle", "loading", "loaded"}] /\ schedSeq \in Nat
  BY DEF Shapes
<1>2. running' \in Seq(Requests) /\ waiting' \in Seq(Requests) /\ skipped' \in Seq(Requests)
  BY <1>1, QueueRemoveAll DEF FinishRequest
<1>3. numWaitingForStreaming' \in Int
  BY <1>1 DEF FinishRequest, SlotsReleased
<1>4. req' \in [Requests -> RequestRecord]
  <2>1. req' = [req EXCEPT ![r] = WithStatus(req[r], "FINISHED")] /\ "FINISHED" \in Status
    BY DEF FinishRequest, FinishAndFree, WithStatus, Status
  <2> QED
    BY <1>1, <2>1, WithStatusIs
<1>5. /\ inflightPrefills' \subseteq Requests /\ recv' \subseteq Requests
      /\ failed' \subseteq Requests
  BY <1>1 DEF FinishRequest, FinishAndFree
<1>6. /\ PoolInv' /\ load' \in [Requests -> {"idle", "loading", "loaded"}]
      /\ requests' \subseteq Requests /\ send' \in [Requests -> {"none", "sending", "sent"}]
  <2>1. CASE UNCHANGED <<requests, kv, send>>
    BY <1>1, <2>1, PoolSame DEF kv, Shapes
  <2>2. CASE FreeRequest(r)
    BY <2>2, FreeRequestTypes
  <2> QED
    BY <2>1, <2>2 DEF FinishRequest, FinishAndFree
<1> QED
  BY <1>2, <1>3, <1>4, <1>5, <1>6 DEF FinishRequest, Shapes, PoolInv, seqs

LEMMA TransfersTypes ==
  ASSUME ShapesInv, NEW r \in Requests, FinishFailed(r) \/ ReportReceived(r) \/ ReportSent(r)
  PROVE  ShapesInv'
<1> USE DEF ShapesInv
<1>1. step \in HandlerLocals /\ step.errors \subseteq Requests /\ step.received \subseteq Requests
  BY LocalsTypes DEF Shapes
<1>2. CASE FinishFailed(r)
  <2>1. step' = WithErrors(step, step.errors \ {r})
    BY <1>2 DEF FinishFailed, WithErrors
  <2>2. step' \in HandlerLocals
    BY <1>1, <2>1, WithErrorsIs
  <2>3. CASE r \in requests /\ req[r].status # "FINISHED"
    BY <1>2, <2>2, <2>3, FinishRequestTypes DEF FinishFailed
  <2>4. CASE ~(r \in requests /\ req[r].status # "FINISHED")
    BY <1>2, <2>2, <2>4, PoolSame DEF FinishFailed, Shapes, queues, xfer, kv, seqs
  <2> QED
    BY <2>3, <2>4
<1>3. CASE ReportReceived(r)
  <2>1. step' = WithReceived(step, step.received \ {r})
    BY <1>3 DEF ReportReceived, WithReceived
  <2>2. step' \in HandlerLocals
    BY <1>1, <2>1, WithReceivedIs
  <2>3. /\ load \in [Requests -> {"idle", "loading", "loaded"}] /\ schedSeq \in Nat
        /\ requests \subseteq Requests /\ recv \subseteq Requests
    BY DEF Shapes
  <2>4. /\ PoolInv' /\ load' \in [Requests -> {"idle", "loading", "loaded"}]
        /\ requests' \subseteq Requests /\ recv' \subseteq Requests
    <3>1. CASE req[r].status = "WAITING_FOR_REMOTE_KVS"
      BY <1>3, <2>3, <3>1, PoolSame DEF ReportReceived, kv
    <3>2. CASE req[r].status # "WAITING_FOR_REMOTE_KVS"
      BY <1>3, <2>3, <3>2, FreeKeepsPool DEF ReportReceived
    <3> QED
      BY <3>1, <3>2
  <2> QED
    BY <1>3, <2>2, <2>4 DEF ReportReceived, Shapes, PoolInv, queues, seqs
<1>4. CASE ReportSent(r)
  <2>1. /\ load \in [Requests -> {"idle", "loading", "loaded"}] /\ schedSeq \in Nat
        /\ requests \subseteq Requests /\ send \in [Requests -> {"none", "sending", "sent"}]
    BY DEF Shapes
  <2>2. /\ PoolInv' /\ load' \in [Requests -> {"idle", "loading", "loaded"}]
        /\ requests' \subseteq Requests /\ send' \in [Requests -> {"none", "sending", "sent"}]
    BY <1>4, <2>1, FreeKeepsPool DEF ReportSent
  <2> QED
    BY <1>4, <2>2 DEF ReportSent, Shapes, PoolInv, queues, seqs
<1> QED
  BY <1>2, <1>3, <1>4

LEMMA EndUpdateTypes ==
  ASSUME ShapesInv, EndUpdate
  PROVE  ShapesInv'
<1> USE DEF ShapesInv
<1>1. req \in [Requests -> RequestRecord]
  BY DEF Shapes
<1>2. ASSUME NEW q \in RequestRecord PROVE WithDrafts(q) \in RequestRecord
  <2>1. WithDrafts(q) = WithSpec(q, IF q.chunk THEN 0 ELSE NumSpecTokens)
    BY DEF WithDrafts, WithSpec
  <2>2. (IF q.chunk THEN 0 ELSE NumSpecTokens) \in Int
    BY Parameters
  <2> QED
    BY <2>1, <2>2, WithSpecIs
<1>3. req' \in [Requests -> RequestRecord]
  BY <1>1, <1>2 DEF EndUpdate
<1> QED
  BY <1>3, IdleType, PoolSame DEF EndUpdate, Shapes, queues, xfer, kv, seqs

LEMMA ResetTypes ==
  ASSUME ShapesInv, BeginReset \/ ResetPreempt \/ EndReset
  PROVE  ShapesInv'
<1> USE DEF ShapesInv
<1>1. CASE BeginReset
  <2>1. step' = WithPhase(Idle, "reset") /\ "reset" \in Phases
    BY <1>1 DEF BeginReset, WithPhase, Phases
  <2>2. step' \in HandlerLocals
    BY <2>1, IdleType, WithPhaseIs
  <2> QED
    BY <1>1, <2>2, PoolSame DEF BeginReset, Shapes, queues, xfer, kv, seqs
<1>2. CASE ResetPreempt
  <2>1. /\ running \in Seq(Requests) /\ running # <<>> /\ waiting \in Seq(Requests)
        /\ req \in [Requests -> RequestRecord] /\ schedSeq \in Nat
        /\ load \in [Requests -> {"idle", "loading", "loaded"}]
    BY <1>2 DEF ResetPreempt, Shapes
  <2>2. Last(running) \in Requests /\ running' \in Seq(Requests)
    BY <1>2, <2>1, QueueFront DEF ResetPreempt
  <2>3. waiting' \in Seq(Requests)
    BY <1>2, <2>1, <2>2, QueueCons DEF ResetPreempt, PreemptRequest
  <2>4. req' \in [Requests -> RequestRecord]
    BY <1>2, <2>1, <2>2, PreemptedIs DEF ResetPreempt, PreemptRequest
  <2>5. PoolInv' /\ load' \in [Requests -> {"idle", "loading", "loaded"}]
    BY <1>2, <2>1, <2>2, FreeKeepsPool DEF ResetPreempt, PreemptRequest
  <2> QED
    BY <1>2, <2>2, <2>3, <2>4, <2>5 DEF ResetPreempt, PreemptRequest, Shapes, PoolInv, xfer, seqs
<1>3. CASE EndReset
  BY <1>3, IdleType, PoolSame DEF EndReset, Shapes, queues, xfer, kv, seqs
<1> QED
  BY <1>1, <1>2, <1>3

LEMMA ClientTypes ==
  ASSUME ShapesInv, NEW r \in Requests,
         \/ AddRequest(r) \/ Abort(r) \/ LoadDone(r) \/ SendDone(r)
         \/ \E u \in {"chunk", "end"} : UpdateSession(r, u)
  PROVE  ShapesInv'
<1> USE DEF ShapesInv
<1>1. /\ req \in [Requests -> RequestRecord] /\ waiting \in Seq(Requests) /\ step \in HandlerLocals
      /\ load \in [Requests -> {"idle", "loading", "loaded"}] /\ numWaitingForStreaming \in Int
  BY DEF Shapes
<1>2. CASE AddRequest(r)
  <2>1. req' = [req EXCEPT ![r] = WithStatus(req[r], "WAITING")] /\ "WAITING" \in Status
    BY <1>2 DEF AddRequest, WithStatus, Status
  <2>2. req' \in [Requests -> RequestRecord]
    BY <1>1, <2>1, WithStatusIs
  <2>3. waiting' \in Seq(Requests)
    BY <1>1, <1>2, QueueAppend DEF AddRequest
  <2> QED
    BY <1>2, <2>2, <2>3, PoolSame DEF AddRequest, Shapes, xfer, kv, seqs
<1>3. CASE Abort(r)
  BY <1>1, <1>3, FinishRequestTypes DEF Abort
<1>4. CASE LoadDone(r)
  <2>1. load' \in [Requests -> {"idle", "loading", "loaded"}]
    BY <1>1, <1>4 DEF LoadDone
  <2> QED
    BY <1>4, <2>1, PoolSame DEF LoadDone, Shapes, queues, xfer, seqs
<1>6. CASE SendDone(r)
  <2>1. send' \in [Requests -> {"none", "sending", "sent"}]
    BY <1>6 DEF SendDone, Shapes
  <2> QED
    BY <1>6, <2>1, PoolSame DEF SendDone, Shapes, queues, kv, seqs
<1>5. ASSUME NEW u \in {"chunk", "end"}, UpdateSession(r, u)
      PROVE  ShapesInv'
  <2> DEFINE q == req[r]
  <2>1. q \in RequestRecord /\ q.queue \in Seq({"chunk", "end"}) /\ q.updates + 1 \in Nat
    BY <1>1, RequestTypes
  <2>2. CASE q.status # "WAITING_FOR_STREAMING_REQ"
    <3>1. req' = [req EXCEPT ![r] = WithUpdates(q, Append(q.queue, u), q.updates + 1)]
      BY <1>1, <1>5, <2>2 DEF UpdateSession, WithUpdates
    <3>2. Append(q.queue, u) \in Seq({"chunk", "end"})
      BY <2>1
    <3> HIDE DEF q
    <3>3. req' \in [Requests -> RequestRecord]
      BY <1>1, <2>1, <3>1, <3>2, WithUpdatesIs
    <3>4. UNCHANGED <<requests, queues, inflightPrefills, xfer, kv, seqs, inflight, step, resets>>
      BY <1>5, <2>2 DEF UpdateSession, q
    <3> QED
      BY <3>3, <3>4, PoolSame DEF Shapes, queues, xfer, kv, seqs
  <2>3. CASE q.status = "WAITING_FOR_STREAMING_REQ" /\ u = "chunk"
    <3> DEFINE v == SessionRequest(q)
    <3>1. v \in RequestRecord /\ v.queue = q.queue /\ v.updates = q.updates
      BY <2>1, SessionIs DEF SameUpdates
    <3>2. req' = [req EXCEPT ![r] = [v EXCEPT !.updates = v.updates + 1]]
      BY <1>5, <2>3 DEF UpdateSession
    <3>3. [v EXCEPT !.updates = v.updates + 1] = WithUpdates(v, v.queue, v.updates + 1)
      BY <3>1 DEF WithUpdates, RequestRecord
    <3>4. /\ UNCHANGED <<requests, running, waiting, skipped, inflightPrefills, xfer, kv, seqs,
                         inflight, step, resets>>
          /\ numWaitingForStreaming' = numWaitingForStreaming - 1
      BY <1>5, <2>3 DEF UpdateSession
    <3> HIDE DEF v
    <3>5. req' \in [Requests -> RequestRecord]
      <4>1. v.queue \in Seq({"chunk", "end"}) /\ v.updates + 1 \in Nat
        BY <2>1, <3>1
      <4> HIDE DEF q
      <4> QED
        BY <1>1, <3>1, <3>2, <3>3, <4>1, WithUpdatesIs
    <3> QED
      BY <1>1, <3>4, <3>5, PoolSame DEF Shapes, xfer, kv, seqs
  <2>4. CASE q.status = "WAITING_FOR_STREAMING_REQ" /\ u # "chunk"
    BY <1>1, <1>5, <2>4, FinishRequestTypes DEF UpdateSession
  <2> QED
    BY <2>2, <2>3, <2>4
<1> QED
  BY <1>2, <1>3, <1>4, <1>5, <1>6

LEMMA ShapesStep == ShapesInv /\ [Next]_vars => ShapesInv'
<1> SUFFICES ASSUME ShapesInv, [Next]_vars PROVE ShapesInv'
  OBVIOUS
<1>1. CASE ScheduleNext
  BY <1>1, ScheduleRunningTypes, SkipWaitingTypes, PromoteTypes, AdmitLoadTypes, AdmitRunningTypes,
     EndScheduleTypes DEF ScheduleNext
<1>2. CASE UpdateNext
  <2>1. ASSUME NEW g \in 1 .. NumSpecTokens + 1, NEW m \in 1 .. NumSpecTokens + 1,
               NEW eos \in BOOLEAN, UpdateEntry(g, m, eos)
        PROVE  ShapesInv'
    <3>1. g \in Int /\ m \in Int
      OBVIOUS
    <3> QED
      BY <2>1, <3>1, UpdateEntryTypes
  <2> QED
    BY <1>2, <2>1, BeginUpdateTypes, SkipEntryTypes, RemoveStoppedTypes, EndUpdateTypes,
       TransfersTypes DEF UpdateNext
<1>3. CASE ResetNext
  BY <1>3, ResetTypes DEF ResetNext
<1>4. CASE ClientNext
  BY <1>4, ClientTypes, Parameters DEF ClientNext
<1>5. CASE WorkerNext
  BY <1>5, ClientTypes DEF WorkerNext
<1>6. CASE UNCHANGED vars
  BY <1>6, PoolSame DEF ShapesInv, Shapes, vars, queues, xfer, kv, seqs
<1> QED
  BY <1>1, <1>2, <1>3, <1>4, <1>5, <1>6 DEF Next

(* Every variable keeps its shape: a queue holds requests, the pool and the *)
(* block tables hold blocks, a handler its own locals, whatever the order of*)
(* handlers, loads and steps.                                               *)
THEOREM ShapesHold == Spec => []Shapes
<1>1. Spec => []ShapesInv
  BY ShapesInitially, ShapesStep, PTL DEF Spec
<1> QED
  BY <1>1, PTL DEF ShapesInv

(* No KV block is lost, and none is in two places: in the pool, in one      *)
(* request's table or in one entry of the deferred frees, through           *)
(* allocations, preemptions, aborts, failed loads and drains.               *)
THEOREM PoolStaysWhole == Spec => []PoolWhole
<1>1. Spec => []ShapesInv
  BY ShapesInitially, ShapesStep, PTL DEF Spec
<1>2. ShapesInv => PoolWhole
  BY PoolInvWhole DEF ShapesInv
<1> QED
  BY <1>1, <1>2, PTL

-------------------------------------------------------------------------------
(* The scheduler never loses or duplicates a request: `running`, `waiting`, *)
(* `skipped_waiting` and the requests schedule() put aside (step.skipped).  *)

LEMMA EmptyQueue == ToSet(<<>>) = {} /\ IsInjective(<<>>)
BY DEF ToSet, IsInjective

LEMMA QueueTypes ==
  ASSUME Shapes
  PROVE  /\ running \in Seq(Requests) /\ waiting \in Seq(Requests) /\ skipped \in Seq(Requests)
         /\ step \in HandlerLocals /\ step.skipped \in Seq(Requests)
         /\ req \in [Requests -> RequestRecord] /\ requests \subseteq Requests
<1>1. step \in HandlerLocals
  BY DEF Shapes
<1> QED
  BY <1>1, LocalsTypes DEF Shapes

LEMMA IdleFields ==
  /\ Idle.phase = "idle" /\ Idle.skipped = <<>> /\ Idle.received = {} /\ Idle.errors = {}
  /\ Idle.stoppedRunning = {} /\ Idle.stoppedOther = {} /\ Idle.todo = <<>>
BY DEF Idle

(* The statuses stay.                                                       *)
StatusSame == \A r \in Requests : req'[r].status = req[r].status

(* Whoever is finished stays so: what the connector sends is left alone.    *)
FinishedStays ==
  \A r \in Requests : req[r].status = "FINISHED" => req'[r].status = "FINISHED"

(* What a step does with its requests, the queues as they are.              *)
LEMMA QueuesSame ==
  ASSUME Shapes, QueuesInv, StatusSame,
         requests' \subseteq requests, Unfinished \subseteq requests',
         running' = running, waiting' = waiting, skipped' = skipped, step'.skipped = step.skipped,
         step'.phase = "update" =>
            \/ step'.stoppedRunning = {} /\ step'.stoppedOther = {}
            \/ /\ step.phase = "update" /\ step'.stoppedRunning = step.stoppedRunning
               /\ step'.stoppedOther = step.stoppedOther,
         Leaving' = Leaving,
         \A r \in step'.received :
            r \in Requests /\ req[r].status \in {"WAITING_FOR_REMOTE_KVS", "FINISHED"},
         step'.received # {} => step'.phase \in {"update", "transfers"},
         step'.skipped # <<>> => step'.phase \in {"waiting", "emit"}
  PROVE  QueuesPlaced' /\ FinishedStays
<1>1. requests \subseteq Requests
  BY QueueTypes
<1>2. Unfinished' = Unfinished /\ Unfinished \subseteq Requests
  BY <1>1 DEF Unfinished, StatusSame
<1>3. QueuesApart'
  BY DEF QueuesApart, QueuesInv, QueuesPlaced
<1>4. AllQueued' = AllQueued
  BY DEF AllQueued
<1>5. AllQueued' = Unfinished' \cup Leaving' /\ Leaving' \cap Unfinished' = {}
  BY <1>2, <1>4 DEF QueuesInv, QueuesPlaced
<1>6. step'.phase = "update" =>
        /\ step'.stoppedRunning \subseteq ToSet(running')
        /\ step'.stoppedOther \cap ToSet(running') = {}
  BY DEF QueuesInv, QueuesPlaced
<1>7. /\ \A r \in Unfinished' : req'[r].status = "RUNNING" <=> r \in ToSet(running')
      /\ \A r \in Unfinished' :
           req'[r].status \in Blocked => r \in ToSet(skipped') \cup ToSet(step'.skipped)
  BY <1>2 DEF QueuesInv, QueuesPlaced, StatusSame
<1>8. \A r \in requests' : req'[r].status # "NEW"
  BY <1>1 DEF QueuesInv, QueuesPlaced, StatusSame
<1>9. \A r \in step'.received : req'[r].status \in {"WAITING_FOR_REMOTE_KVS", "FINISHED"}
  BY DEF StatusSame
<1> QED
  BY <1>3, <1>5, <1>6, <1>7, <1>8, <1>9 DEF QueuesInv, QueuesPlaced, StatusSame, FinishedStays

(* The handlers that look at the queues, or at one request, and move none.  *)
LEMMA QuietSchedule ==
  ASSUME ShapesInv, QueuesInv,
         \/ BeginSchedule \/ SkipRunning \/ ScheduleRunning \/ EndRunning
         \/ EndWaiting \/ \E ext \in LoadableTokens \cup {0} : BreakWaiting(ext)
  PROVE  QueuesPlaced' /\ FinishedStays
<1> USE DEF ShapesInv
<1>1. step \in HandlerLocals /\ req \in [Requests -> RequestRecord]
  BY QueueTypes
<1>2. StatusSame
  <2>1. CASE ScheduleRunning
    <3>1. req' = [req EXCEPT ![Current] = WithSpec(req[Current], 0)] /\ Current \in Requests
      BY <2>1, CurrentType DEF ScheduleRunning, WithSpec
    <3>2. WithSpec(req[Current], 0).status = req[Current].status
      BY <1>1, <3>1, WithSpecIs
    <3> QED
      BY <1>1, <3>1, <3>2 DEF StatusSame
  <2>2. CASE ~ScheduleRunning
    <3>1. req' = req
      BY <2>2 DEF BeginSchedule, SkipRunning, EndRunning, EndWaiting, BreakWaiting
    <3> QED
      BY <3>1 DEF StatusSame
  <2> QED
    BY <2>1, <2>2
<1>3. UNCHANGED <<requests, running, waiting, skipped>>
  BY DEF BeginSchedule, SkipRunning, ScheduleRunning, EndRunning, EndWaiting, BreakWaiting, queues
<1>4. /\ step'.skipped = step.skipped /\ step'.received = {} /\ step.phase # "update"
      /\ step'.phase \in {"running", "waiting", "emit"} /\ step'.phase # "update"
      /\ step.skipped # <<>> => step'.phase = "emit"
  <2>1. CASE BeginSchedule
    BY <2>1 DEF BeginSchedule, Idle, QueuesInv, QueuesPlaced
  <2>2. CASE SkipRunning
    BY <1>1, <2>2 DEF SkipRunning, MoreRunning, HandlerLocals, QueuesInv, QueuesPlaced
  <2>3. CASE ScheduleRunning
    BY <1>1, <2>3 DEF ScheduleRunning, MoreRunning, HandlerLocals, QueuesInv, QueuesPlaced
  <2>4. CASE EndRunning
    BY <1>1, <2>4 DEF EndRunning, HandlerLocals, QueuesInv, QueuesPlaced
  <2>5. CASE EndWaiting
    BY <1>1, <2>5 DEF EndWaiting, HandlerLocals, QueuesInv, QueuesPlaced
  <2>6. CASE \E ext \in LoadableTokens \cup {0} : BreakWaiting(ext)
    BY <1>1, <2>6 DEF BreakWaiting, MoreWaiting, HandlerLocals, QueuesInv, QueuesPlaced
  <2> QED
    BY <2>1, <2>2, <2>3, <2>4, <2>5, <2>6
<1>5. Leaving = {} /\ Leaving' = {}
  BY <1>4 DEF Leaving
<1>6. Unfinished \subseteq requests'
  BY <1>3 DEF Unfinished
<1> QED
  BY <1>2, <1>3, <1>4, <1>5, <1>6, QueuesSame

LEMMA QuietUpdate ==
  ASSUME ShapesInv, QueuesInv, BeginUpdate \/ SkipEntry \/ EndUpdate
  PROVE  QueuesPlaced' /\ FinishedStays
<1> USE DEF ShapesInv
<1>1. step \in HandlerLocals /\ req \in [Requests -> RequestRecord]
  BY QueueTypes, SMTT(60)
<1>2. UNCHANGED <<requests, running, waiting, skipped>>
  BY DEF BeginUpdate, SkipEntry, EndUpdate, queues
<1>3. Unfinished \subseteq requests'
  BY <1>2 DEF Unfinished
<1>4. CASE BeginUpdate
  <2>1. PICK bad \in InvalidBlocks(Head(inflight).batch) : req' = Truncated(bad)
    BY <1>4 DEF BeginUpdate
  <2>2. StatusSame
    <3>1. ASSUME NEW r \in Requests
          PROVE  Truncated(bad)[r].status = req[r].status
      <4>1. CASE r \in DOMAIN bad
        <5>1. Truncated(bad)[r] = WithComputed(req[r], bad[r] * BlockSize)
          BY <4>1, TruncatedIs
        <5>2. bad[r] * BlockSize \in Int
          BY <4>1, InvalidBlocksIs, Parameters
        <5> QED
          BY <1>1, <5>1, <5>2, WithComputedIs
      <4>2. CASE r \notin DOMAIN bad
        BY <4>2, TruncatedIs
      <4> QED
        BY <4>1, <4>2
    <3> QED
      BY <2>1, <3>1 DEF StatusSame
  <2>3. /\ step.phase = "idle" /\ step'.phase = "update" /\ step'.skipped = <<>>
        /\ step'.stoppedRunning = {} /\ step'.stoppedOther = {} /\ step'.received = Reported
    BY <1>4 DEF BeginUpdate, Idle
  <2>4. step.skipped = <<>>
    BY <2>3 DEF QueuesInv, QueuesPlaced
  <2>5. \A r \in Reported : req[r].status \in {"WAITING_FOR_REMOTE_KVS", "FINISHED"}
    BY DEF Reported, AwaitsLoad
  <2>6. Leaving = {} /\ Leaving' = {}
    BY <2>3 DEF Leaving
  <2> QED
    BY <1>2, <1>3, <2>2, <2>3, <2>4, <2>5, <2>6, QueuesSame, ReportedType
<1>5. CASE SkipEntry
  <2> DEFINE e == Head(step.todo)
  <2>1. e \in BatchEntry /\ e.r \in Requests /\ req[e.r] \in RequestRecord
    BY <1>5, NextEntryIs DEF SkipEntry
  <2>2. req' = IF e.r \in requests THEN [req EXCEPT ![e.r] = Drain(req[e.r], e)] ELSE req
    BY <1>5 DEF SkipEntry
  <2>3. step' = WithTodo(step, Tail(step.todo)) /\ Tail(step.todo) \in Seq(BatchEntry)
    BY <1>5, NextEntryIs DEF SkipEntry, WithTodo
  <2>4. step.phase = "update"
    BY <1>5 DEF SkipEntry, NextEntry
  <2> HIDE DEF e
  <2>5. StatusSame
    BY <1>1, <2>1, <2>2, DrainIs DEF StatusSame
  <2>6. /\ step'.phase = "update" /\ step'.skipped = step.skipped
        /\ step'.stoppedRunning = step.stoppedRunning /\ step'.stoppedOther = step.stoppedOther
        /\ step'.received = step.received /\ step.received \subseteq Requests
    BY <1>1, <2>3, <2>4, WithTodoIs, LocalsTypes, ZenonT(60)
  <2>7. Leaving' = Leaving
    BY <2>4, <2>6 DEF Leaving
  <2>8. step.skipped = <<>> /\ \A r \in step.received : req[r].status \in {"WAITING_FOR_REMOTE_KVS", "FINISHED"}
    BY <2>4 DEF QueuesInv, QueuesPlaced
  <2> QED
    BY <1>2, <1>3, <2>4, <2>5, <2>6, <2>7, <2>8, QueuesSame
<1>6. CASE EndUpdate
  <2>1. step.phase = "transfers" /\ step' = Idle
    BY <1>6 DEF EndUpdate
  <2>2. StatusSame
    <3>1. ASSUME NEW q \in RequestRecord PROVE WithDrafts(q).status = q.status
      BY <3>1 DEF WithDrafts, RequestRecord
    <3> QED
      BY <1>1, <1>6, <3>1 DEF EndUpdate, StatusSame
  <2>3. step.skipped = <<>>
    BY <2>1 DEF QueuesInv, QueuesPlaced
  <2>4. Leaving = {} /\ Leaving' = {}
    BY <2>1, IdleFields DEF Leaving
  <2> QED
    BY <1>2, <1>3, <2>1, <2>2, <2>3, <2>4, IdleFields, QueuesSame
<1> QED
  BY <1>4, <1>5, <1>6

(* A load that is reported for a finished request lets the request go, too. *)
LEMMA QuietTransfers ==
  ASSUME ShapesInv, QueuesInv, NEW r \in Requests,
         ReportReceived(r) \/ ReportSent(r) \/ LoadDone(r) \/ SendDone(r)
  PROVE  QueuesPlaced' /\ FinishedStays
<1> USE DEF ShapesInv
<1>1. step \in HandlerLocals /\ req \in [Requests -> RequestRecord]
  BY QueueTypes
<1>2. StatusSame /\ UNCHANGED <<running, waiting, skipped>>
  BY DEF ReportReceived, ReportSent, LoadDone, SendDone, StatusSame, queues
<1>3. CASE ReportReceived(r)
  <2>1. step' = WithReceived(step, step.received \ {r}) /\ step.phase = "transfers" /\ r \in step.received
    BY <1>3 DEF ReportReceived, WithReceived
  <2>2. /\ step'.phase = "transfers" /\ step'.skipped = step.skipped /\ step.received \subseteq Requests
        /\ step'.received = step.received \ {r}
    BY <1>1, <2>1, WithReceivedIs, LocalsTypes
  <2>3. /\ step.skipped = <<>>
        /\ \A s \in step.received : req[s].status \in {"WAITING_FOR_REMOTE_KVS", "FINISHED"}
    BY <2>1 DEF QueuesInv, QueuesPlaced
  <2>4. requests' \subseteq requests /\ Unfinished \subseteq requests'
    <3>1. CASE req[r].status = "WAITING_FOR_REMOTE_KVS"
      BY <1>3, <3>1 DEF ReportReceived, Unfinished
    <3>2. CASE req[r].status # "WAITING_FOR_REMOTE_KVS"
      BY <1>3, <2>1, <2>3, <3>2 DEF ReportReceived, Unfinished
    <3> QED
      BY <3>1, <3>2
  <2>5. Leaving = {} /\ Leaving' = {}
    BY <2>1, <2>2 DEF Leaving
  <2> QED
    BY <1>2, <2>1, <2>2, <2>3, <2>4, <2>5, QueuesSame
<1>4. CASE LoadDone(r) \/ SendDone(r)
  <2>1. step' = step /\ step.phase = "idle" /\ requests' = requests
    BY <1>4 DEF LoadDone, SendDone
  <2>2. Leaving = {} /\ Leaving' = {}
    BY <2>1 DEF Leaving
  <2>3. step.received = {} /\ step.skipped = <<>>
    BY <2>1 DEF QueuesInv, QueuesPlaced
  <2>4. Unfinished \subseteq requests'
    BY <2>1 DEF Unfinished
  <2> QED
    BY <1>2, <2>1, <2>2, <2>3, <2>4, QueuesSame
<1>5. CASE ReportSent(r)
  <2>1. step' = step /\ step.phase = "transfers" /\ requests' = requests \ {r} /\ send[r] = "sent"
    BY <1>5 DEF ReportSent, Sent
  <2>2. Leaving = {} /\ Leaving' = {}
    BY <2>1 DEF Leaving
  <2>3. /\ step.skipped = <<>> /\ step.received \subseteq Requests
        /\ \A s \in step.received : req[s].status \in {"WAITING_FOR_REMOTE_KVS", "FINISHED"}
    BY <1>1, <2>1, LocalsTypes DEF QueuesInv, QueuesPlaced
  <2>4. Unfinished \subseteq requests'
    BY <2>1 DEF Unfinished, QueuesInv, SendsInv
  <2> QED
    BY <1>2, <2>1, <2>2, <2>3, <2>4, QueuesSame
<1> QED
  BY <1>3, <1>4, <1>5

LEMMA QuietReset ==
  ASSUME ShapesInv, QueuesInv, BeginReset \/ EndReset
  PROVE  QueuesPlaced' /\ FinishedStays
<1> USE DEF ShapesInv
<1>1. StatusSame /\ UNCHANGED <<requests, running, waiting, skipped>>
  BY DEF BeginReset, EndReset, StatusSame, queues
<1>2. /\ step.phase \in {"idle", "reset"} /\ step'.phase \in {"idle", "reset"}
      /\ step'.skipped = <<>> /\ step'.received = {}
  BY DEF BeginReset, EndReset, Idle
<1>3. step.skipped = <<>>
  BY <1>2 DEF QueuesInv, QueuesPlaced
<1>4. Leaving = {} /\ Leaving' = {}
  BY <1>2 DEF Leaving
<1>5. Unfinished \subseteq requests'
  BY <1>1 DEF Unfinished
<1> QED
  BY <1>1, <1>2, <1>3, <1>4, <1>5, QueuesSame

(* In which queue r is, the others of which are as they were.               *)
OnlyIn(r, inRunning, inWaiting, inSkipped, aside) ==
  /\ r \in ToSet(running) <=> inRunning
  /\ r \in ToSet(waiting) <=> inWaiting
  /\ r \in ToSet(skipped) <=> inSkipped
  /\ r \in ToSet(step.skipped) <=> aside

Placed(r) ==
  \/ OnlyIn(r, TRUE, FALSE, FALSE, FALSE) /\ r \in requests /\ req[r].status = "RUNNING"
  \/ /\ OnlyIn(r, FALSE, TRUE, FALSE, FALSE) /\ r \in requests
     /\ req[r].status \in {"WAITING", "PREEMPTED"}
  \/ /\ OnlyIn(r, FALSE, FALSE, TRUE, FALSE) \/ OnlyIn(r, FALSE, FALSE, FALSE, TRUE)
     /\ r \in requests
     /\ req[r].status \in {"WAITING", "PREEMPTED"} \cup Blocked
  \/ /\ OnlyIn(r, FALSE, FALSE, FALSE, FALSE)
     /\ r \notin requests \/ req[r].status = "FINISHED"

(* A handler that moves one request, outside update_from_output's loop.     *)
LEMMA QueuesMove ==
  ASSUME Shapes, QueuesInv, NEW r \in Requests,
         requests' \ {r} = requests \ {r},
         \A s \in Requests \ {r} : req'[s].status = req[s].status,
         req[r].status = "FINISHED" => req'[r].status = "FINISHED",
         IsInjective(running'), IsInjective(waiting'), IsInjective(skipped'),
         IsInjective(step'.skipped),
         ToSet(running') \ {r} = ToSet(running) \ {r},
         ToSet(waiting') \ {r} = ToSet(waiting) \ {r},
         ToSet(skipped') \ {r} = ToSet(skipped) \ {r},
         ToSet(step'.skipped) \ {r} = ToSet(step.skipped) \ {r},
         Placed(r)',
         step.phase # "update", step'.phase # "update",
         \A s \in step'.received : req'[s].status \in {"WAITING_FOR_REMOTE_KVS", "FINISHED"},
         step'.received # {} => step'.phase \in {"update", "transfers"},
         step'.skipped # <<>> => step'.phase \in {"waiting", "emit"}
  PROVE  QueuesPlaced' /\ FinishedStays
<1>1. /\ running \in Seq(Requests) /\ waiting \in Seq(Requests) /\ skipped \in Seq(Requests)
      /\ step.skipped \in Seq(Requests) /\ requests \subseteq Requests
  BY QueueTypes
<1>2. /\ ToSet(running) \subseteq Requests /\ ToSet(waiting) \subseteq Requests
      /\ ToSet(skipped) \subseteq Requests /\ ToSet(step.skipped) \subseteq Requests
  BY <1>1 DEF ToSet
<1>3. Leaving = {} /\ Leaving' = {}
  BY DEF Leaving
<1> DEFINE R == ToSet(running)
           W == ToSet(waiting)
           S == ToSet(skipped)
           K == ToSet(step.skipped)
           RR == ToSet(running')
           WW == ToSet(waiting')
           SS == ToSet(skipped')
           KK == ToSet(step'.skipped)
<1>4. \A s \in Requests \ {r} :
        (s \in RR <=> s \in R) /\ (s \in WW <=> s \in W) /\ (s \in SS <=> s \in S) /\ (s \in KK <=> s \in K)
  OBVIOUS
<1>5. RR \subseteq Requests /\ WW \subseteq Requests /\ SS \subseteq Requests /\ KK \subseteq Requests
  BY <1>2 DEF AllQueued
<1>6. /\ R \cap W = {} /\ (R \cup W) \cap (S \cup K) = {} /\ S \cap K = {}
  BY DEF QueuesInv, QueuesPlaced, QueuesApart
<1>7. \/ r \in RR /\ r \notin WW /\ r \notin SS /\ r \notin KK
      \/ r \notin RR /\ r \in WW /\ r \notin SS /\ r \notin KK
      \/ r \notin RR /\ r \notin WW /\ r \in SS /\ r \notin KK
      \/ r \notin RR /\ r \notin WW /\ r \notin SS /\ r \in KK
      \/ r \notin RR /\ r \notin WW /\ r \notin SS /\ r \notin KK
  BY DEF Placed, OnlyIn
<1>8. QueuesApart'
  <2>1. /\ RR \cap WW = {} /\ (RR \cup WW) \cap (SS \cup KK) = {} /\ SS \cap KK = {}
    <3> HIDE DEF R, W, S, K, RR, WW, SS, KK
    <3> QED
      BY <1>4, <1>5, <1>6, <1>7
  <2> QED
    BY <2>1 DEF QueuesApart
<1>9. \A s \in Requests \ {r} : s \in Unfinished' <=> s \in Unfinished
  BY DEF Unfinished
<1>10. Unfinished' \subseteq Requests
  BY <1>1 DEF Unfinished
<1>11. AllQueued' = Unfinished'
  <2>1. \A s \in Requests \ {r} : s \in R \cup W \cup S \cup K <=> s \in Unfinished
    BY <1>3 DEF QueuesInv, QueuesPlaced, AllQueued
  <2>2. r \in RR \cup WW \cup SS \cup KK <=> r \in Unfinished'
    BY DEF Placed, OnlyIn, Unfinished, Blocked
  <2>3. RR \cup WW \cup SS \cup KK = Unfinished'
    <3> HIDE DEF R, W, S, K, RR, WW, SS, KK
    <3> QED
      BY <1>4, <1>5, <1>9, <1>10, <2>1, <2>2
  <2> QED
    BY <2>3 DEF AllQueued
<1>12. /\ \A s \in Unfinished' : req'[s].status = "RUNNING" <=> s \in RR
       /\ \A s \in Unfinished' : req'[s].status \in Blocked => s \in SS \cup KK
  <2>1. ASSUME NEW s \in Unfinished'
        PROVE  /\ req'[s].status = "RUNNING" <=> s \in RR
               /\ req'[s].status \in Blocked => s \in SS \cup KK
    <3>1. CASE s = r
      BY <2>1, <3>1 DEF Placed, OnlyIn, Unfinished, Blocked
    <3>2. CASE s # r
      <4>1. s \in Unfinished /\ s \in Requests \ {r} /\ req'[s].status = req[s].status
        BY <1>9, <1>10, <2>1, <3>2
      <4>2. /\ req[s].status = "RUNNING" <=> s \in R
            /\ req[s].status \in Blocked => s \in S \cup K
        BY <4>1 DEF QueuesInv, QueuesPlaced
      <4> HIDE DEF R, W, S, K, RR, WW, SS, KK
      <4> QED
        BY <1>4, <4>1, <4>2
    <3> QED
      BY <3>1, <3>2
  <2> QED
    BY <2>1
<1>13. \A s \in requests' : req'[s].status # "NEW"
  <2>1. ASSUME NEW s \in requests' PROVE req'[s].status # "NEW"
    <3>1. CASE s = r
      BY <2>1, <3>1 DEF Placed, Blocked
    <3>2. CASE s # r
      BY <1>1, <2>1, <3>2 DEF QueuesInv, QueuesPlaced
    <3> QED
      BY <3>1, <3>2
  <2> QED
    BY <2>1
<1>14. FinishedStays
  <2>1. ASSUME NEW s \in Requests, req[s].status = "FINISHED" PROVE req'[s].status = "FINISHED"
    BY <2>1
  <2> QED
    BY <2>1 DEF FinishedStays
<1> QED
  BY <1>3, <1>8, <1>11, <1>12, <1>13, <1>14 DEF QueuesInv, QueuesPlaced

LEMMA PreemptMoves ==
  ASSUME ShapesInv, QueuesInv, PreemptForBlocks \/ ResetPreempt
  PROVE  QueuesPlaced' /\ FinishedStays
<1> USE DEF ShapesInv
<1>1. /\ running \in Seq(Requests) /\ waiting \in Seq(Requests) /\ skipped \in Seq(Requests)
      /\ step \in HandlerLocals /\ req \in [Requests -> RequestRecord]
  BY QueueTypes
<1>2. running # <<>>
  BY CurrentType DEF PreemptForBlocks, ResetPreempt
<1>3. PICK r \in Requests : r = Last(running)
  BY <1>1, <1>2, QueueFront
<1>4. PICK d \in BOOLEAN :
        /\ running' = Front(running) /\ PreemptRequest(r, d)
        /\ UNCHANGED <<requests, skipped>>
  BY <1>3, Parameters DEF PreemptForBlocks, ResetPreempt
<1>5. /\ r \in Requests /\ r \in ToSet(running)
      /\ ToSet(running) = ToSet(running') \cup {r} /\ r \notin ToSet(running') /\ IsInjective(running')
  BY <1>1, <1>4, <1>2, <1>3, QueueFront DEF QueuesInv, QueuesPlaced, QueuesApart
<1>6. step.skipped = <<>> /\ step.received = {} /\ step.phase \in {"running", "reset"}
  BY DEF PreemptForBlocks, ResetPreempt, MoreRunning, QueuesInv, QueuesPlaced
<1>7. /\ step'.skipped = step.skipped /\ step'.received = step.received
      /\ step'.phase \in {"running", "emit", "reset"}
  <2>1. CASE PreemptForBlocks
    BY <1>1, <1>6, <2>1 DEF PreemptForBlocks, HandlerLocals
  <2>2. CASE ResetPreempt
    BY <1>6, <2>2 DEF ResetPreempt
  <2> QED
    BY <2>1, <2>2
<1>8. req' = [req EXCEPT ![r] = PreemptedRequest(req[r], d)] /\ waiting' = <<r>> \o waiting
  BY <1>4 DEF PreemptRequest
<1>9. req'[r].status = "PREEMPTED" /\ \A s \in Requests \ {r} : req'[s] = req[s]
  BY <1>1, <1>5, <1>8, PreemptedIs
<1>10. /\ r \notin ToSet(waiting) /\ r \notin ToSet(skipped) /\ r \in Unfinished
       /\ IsInjective(waiting) /\ IsInjective(skipped)
  BY <1>5, <1>6 DEF QueuesInv, QueuesPlaced, QueuesApart, AllQueued, Leaving
<1>11. ToSet(waiting') = ToSet(waiting) \cup {r} /\ IsInjective(waiting')
  BY <1>1, <1>5, <1>8, <1>10, QueueCons
<1>12. Placed(r)'
  BY <1>4, <1>5, <1>6, <1>7, <1>9, <1>10, <1>11, EmptyQueue DEF Placed, OnlyIn, Unfinished
<1>13. req[r].status # "FINISHED"
  BY <1>10 DEF Unfinished
<1> QED
  BY <1>4, <1>5, <1>6, <1>7, <1>9, <1>10, <1>11, <1>12, <1>13, EmptyQueue, QueuesMove

(* The candidate leaves the queue it heads.                                 *)
LEMMA PopIs ==
  ASSUME Shapes, QueuesInv, MoreWaiting, PopCandidate
  PROVE  /\ waiting' \in Seq(Requests) /\ skipped' \in Seq(Requests)
         /\ IsInjective(waiting') /\ IsInjective(skipped')
         /\ Candidate \in Unfinished /\ Candidate \in Requests
         /\ Candidate \notin ToSet(running) /\ Candidate \notin ToSet(step.skipped)
         /\ ToSet(waiting') = ToSet(waiting) \ {Candidate}
         /\ ToSet(skipped') = ToSet(skipped) \ {Candidate}
<1>1. waiting \in Seq(Requests) /\ skipped \in Seq(Requests)
  BY QueueTypes
<1>2. /\ IsInjective(waiting) /\ IsInjective(skipped) /\ Leaving = {}
      /\ ToSet(waiting) \cap (ToSet(skipped) \cup ToSet(step.skipped)) = {}
      /\ ToSet(running) \cap (ToSet(waiting) \cup ToSet(skipped)) = {}
      /\ ToSet(skipped) \cap ToSet(step.skipped) = {}
      /\ ToSet(waiting) \cup ToSet(skipped) \subseteq Unfinished
  BY DEF QueuesInv, QueuesPlaced, QueuesApart, Leaving, MoreWaiting, AllQueued
<1>3. CASE skipped # <<>>
  <2>1. skipped' = Tail(skipped) /\ waiting' = waiting /\ Candidate = Head(skipped)
    BY <1>3 DEF PopCandidate, Candidate
  <2>2. /\ Candidate \in Requests /\ Candidate \in ToSet(skipped) /\ skipped' \in Seq(Requests)
        /\ ToSet(skipped) = ToSet(skipped') \cup {Candidate} /\ Candidate \notin ToSet(skipped')
        /\ IsInjective(skipped')
    BY <1>1, <1>2, <1>3, <2>1, QueueTail
  <2> QED
    BY <1>1, <1>2, <2>1, <2>2
<1>4. CASE skipped = <<>>
  <2>1. waiting' = Tail(waiting) /\ skipped' = skipped /\ Candidate = Head(waiting) /\ waiting # <<>>
    BY <1>4 DEF PopCandidate, Candidate, MoreWaiting
  <2>2. /\ Candidate \in Requests /\ Candidate \in ToSet(waiting) /\ waiting' \in Seq(Requests)
        /\ ToSet(waiting) = ToSet(waiting') \cup {Candidate} /\ Candidate \notin ToSet(waiting')
        /\ IsInjective(waiting')
    BY <1>1, <1>2, <2>1, QueueTail
  <2> QED
    BY <1>1, <1>2, <2>1, <2>2
<1> QED
  BY <1>3, <1>4

(* What holds of the candidate while it is looked at.                       *)
LEMMA CandidateIs ==
  ASSUME Shapes, QueuesInv, MoreWaiting
  PROVE  /\ Candidate \in Requests /\ Candidate \in Unfinished
         /\ req[Candidate].status \in {"WAITING", "PREEMPTED"} \cup Blocked
         /\ Candidate \in ToSet(skipped) \cup ToSet(waiting)
         /\ Candidate \notin ToSet(running) /\ Candidate \notin ToSet(step.skipped)
         /\ req[Candidate].status \in Blocked => Candidate \in ToSet(skipped)
<1>1. /\ Candidate \in Requests /\ Candidate \in ToSet(skipped) \cup ToSet(waiting)
  BY CandidateType
<1>2. Leaving = {} /\ Candidate \in Unfinished /\ Candidate \notin ToSet(running)
  BY <1>1 DEF QueuesInv, QueuesPlaced, QueuesApart, AllQueued, Leaving, MoreWaiting
<1>3. req[Candidate].status \in Status
  BY <1>1, QueueTypes, RequestTypes
<1>4. req[Candidate].status \notin {"NEW", "RUNNING", "FINISHED"}
  BY <1>2 DEF QueuesInv, QueuesPlaced, Unfinished
<1>5. Candidate \notin ToSet(step.skipped)
  BY <1>1, <1>2 DEF QueuesInv, QueuesPlaced, QueuesApart
<1>6. req[Candidate].status \in Blocked => Candidate \in ToSet(skipped)
  BY <1>2, <1>5 DEF QueuesInv, QueuesPlaced
<1> QED
  BY <1>1, <1>2, <1>3, <1>4, <1>5, <1>6 DEF Status

(* A candidate that cannot run yet, or starts a load, is put aside.         *)
LEMMA AsideMoves ==
  ASSUME ShapesInv, QueuesInv, SkipWaiting \/ \E ext \in LoadableTokens : AdmitLoad(ext)
  PROVE  QueuesPlaced' /\ FinishedStays
<1> USE DEF ShapesInv
<1>1. step \in HandlerLocals /\ req \in [Requests -> RequestRecord] /\ step.skipped \in Seq(Requests)
  BY QueueTypes
<1>2. MoreWaiting /\ PopCandidate /\ UNCHANGED <<requests, running>>
  BY DEF SkipWaiting, AdmitLoad
<1>3. PICK r \in Requests : r = Candidate
  BY <1>2, CandidateIs
<1>4. step.phase = "waiting" /\ step.received = {}
  BY <1>2 DEF MoreWaiting, QueuesInv, QueuesPlaced
<1>5. step' = WithSkipped(step, <<r>> \o step.skipped)
  BY <1>3 DEF SkipWaiting, AdmitLoad, WithSkipped
<1>6. /\ \A s \in Requests \ {r} : req'[s] = req[s]
      /\ req'[r].status \in {"WAITING", "PREEMPTED"} \cup Blocked
  <2>1. CASE SkipWaiting
    BY <1>2, <1>3, <2>1, CandidateIs DEF SkipWaiting
  <2>2. ASSUME NEW ext \in LoadableTokens, AdmitLoad(ext)
        PROVE  /\ \A s \in Requests \ {r} : req'[s] = req[s]
               /\ req'[r].status \in {"WAITING", "PREEMPTED"} \cup Blocked
    <3>1. req' = [req EXCEPT ![r] = WithAdmission(req[r], "WAITING_FOR_REMOTE_KVS", ext)]
      BY <1>1, <1>3, <2>2 DEF AdmitLoad, WithAdmission
    <3>2. ext \in Int /\ "WAITING_FOR_REMOTE_KVS" \in Status
      BY Parameters DEF Status, Blocked
    <3> QED
      BY <1>1, <3>1, <3>2, WithAdmissionIs DEF Blocked
  <2> QED
    BY <2>1, <2>2
<1>7. /\ r \in Requests /\ r \in Unfinished /\ r \notin ToSet(running) /\ r \notin ToSet(step.skipped)
      /\ IsInjective(waiting') /\ IsInjective(skipped')
      /\ ToSet(waiting') = ToSet(waiting) \ {r} /\ ToSet(skipped') = ToSet(skipped) \ {r}
  BY <1>2, <1>3, PopIs
<1>8. IsInjective(running) /\ IsInjective(step.skipped)
  BY DEF QueuesInv, QueuesPlaced, QueuesApart
<1>9. /\ <<r>> \o step.skipped \in Seq(Requests)
      /\ ToSet(<<r>> \o step.skipped) = ToSet(step.skipped) \cup {r}
      /\ IsInjective(<<r>> \o step.skipped)
  BY <1>1, <1>7, <1>8, QueueCons
<1>10. step'.skipped = <<r>> \o step.skipped /\ step'.phase = "waiting" /\ step'.received = {}
  BY <1>1, <1>4, <1>5, <1>9, WithSkippedIs, ZenonT(60)
<1>11. Placed(r)'
  BY <1>2, <1>6, <1>7, <1>9, <1>10 DEF Placed, OnlyIn, Unfinished
<1>12. req[r].status # "FINISHED"
  BY <1>7 DEF Unfinished
<1> QED
  BY <1>2, <1>4, <1>6, <1>7, <1>8, <1>9, <1>10, <1>11, <1>12, QueuesMove

LEMMA AdmitMoves ==
  ASSUME ShapesInv, QueuesInv, AdmitRunning
  PROVE  QueuesPlaced' /\ FinishedStays
<1> USE DEF ShapesInv
<1>1. /\ step \in HandlerLocals /\ req \in [Requests -> RequestRecord]
      /\ running \in Seq(Requests)
  BY QueueTypes
<1>2. PICK r \in Requests : r = Candidate
  BY CandidateIs DEF AdmitRunning
<1>3. MoreWaiting /\ PopCandidate /\ requests' = requests /\ running' = Append(running, r)
  BY <1>2 DEF AdmitRunning
<1>4. step.phase = "waiting" /\ step.received = {}
  BY <1>3 DEF MoreWaiting, QueuesInv, QueuesPlaced
<1>5. step'.skipped = step.skipped /\ step'.phase = "waiting" /\ step'.received = {}
  BY <1>1, <1>4 DEF AdmitRunning, HandlerLocals
<1>6. /\ r \in Requests /\ r \in Unfinished /\ r \notin ToSet(running) /\ r \notin ToSet(step.skipped)
      /\ IsInjective(waiting') /\ IsInjective(skipped')
      /\ ToSet(waiting') = ToSet(waiting) \ {r} /\ ToSet(skipped') = ToSet(skipped) \ {r}
  BY <1>3, <1>2, PopIs
<1>7. req' = [req EXCEPT ![r] = WithStatus(req[r], "RUNNING")] /\ "RUNNING" \in Status
  BY <1>2 DEF AdmitRunning, WithStatus, Status
<1>8. req'[r].status = "RUNNING" /\ \A s \in Requests \ {r} : req'[s] = req[s]
  BY <1>1, <1>6, <1>7, WithStatusIs
<1>9. IsInjective(running) /\ IsInjective(step.skipped)
  BY DEF QueuesInv, QueuesPlaced, QueuesApart
<1>10. ToSet(running') = ToSet(running) \cup {r} /\ IsInjective(running')
  BY <1>1, <1>3, <1>6, <1>9, QueueAppend
<1>11. Placed(r)'
  BY <1>3, <1>5, <1>6, <1>8, <1>10 DEF Placed, OnlyIn, Unfinished
<1>12. req[r].status # "FINISHED"
  BY <1>6 DEF Unfinished
<1> QED
  BY <1>3, <1>4, <1>5, <1>6, <1>8, <1>9, <1>10, <1>11, <1>12, QueuesMove

LEMMA PromoteMoves ==
  ASSUME ShapesInv, QueuesInv, PromoteLoaded
  PROVE  QueuesPlaced' /\ FinishedStays
<1> USE DEF ShapesInv
<1>1. PICK r \in Requests : r = Candidate
  BY CandidateIs DEF PromoteLoaded
<1> DEFINE x == IF req[r].preempted THEN "PREEMPTED" ELSE "WAITING"
           c == IF r \notin failed /\ req[r].computed = req[r].all THEN req[r].all - 1 ELSE req[r].computed
<1>2. step \in HandlerLocals /\ req \in [Requests -> RequestRecord]
  BY QueueTypes
<1>3. MoreWaiting /\ req[r].status \in Blocked /\ UNCHANGED <<requests, running, waiting, skipped, step>>
  BY <1>1 DEF PromoteLoaded, queues, Blocked
<1>4. step.phase = "waiting" /\ step.received = {}
  BY <1>3 DEF MoreWaiting, QueuesInv, QueuesPlaced
<1>5. /\ r \in Requests /\ r \in Unfinished /\ r \notin ToSet(running) /\ r \notin ToSet(step.skipped)
      /\ r \in ToSet(skipped)
  BY <1>3, <1>1, CandidateIs
<1>6. req' = [req EXCEPT ![r] = WithAdmission(req[r], x, c)]
  BY <1>2, <1>1 DEF PromoteLoaded, WithAdmission
<1>7. x \in Status /\ x \in {"WAITING", "PREEMPTED"} /\ c \in Int
  <2>1. req[r].computed \in Int /\ req[r].all \in Int
    BY <1>2, <1>5, RequestTypes
  <2> QED
    BY <2>1 DEF Status
<1> HIDE DEF x, c
<1>8. req'[r].status = x /\ \A s \in Requests \ {r} : req'[s] = req[s]
  BY <1>2, <1>5, <1>6, <1>7, WithAdmissionIs
<1>9. /\ IsInjective(running) /\ IsInjective(waiting) /\ IsInjective(skipped)
      /\ IsInjective(step.skipped) /\ r \notin ToSet(waiting)
  BY <1>5 DEF QueuesInv, QueuesPlaced, QueuesApart
<1>10. Placed(r)'
  BY <1>3, <1>5, <1>7, <1>8, <1>9 DEF Placed, OnlyIn, Unfinished
<1>11. req[r].status # "FINISHED"
  BY <1>5 DEF Unfinished
<1> QED
  BY <1>3, <1>4, <1>5, <1>8, <1>9, <1>10, <1>11, QueuesMove

LEMMA AddMoves ==
  ASSUME ShapesInv, QueuesInv, NEW r \in Requests, AddRequest(r)
  PROVE  QueuesPlaced' /\ FinishedStays
<1> USE DEF ShapesInv
<1>1. step \in HandlerLocals /\ req \in [Requests -> RequestRecord] /\ waiting \in Seq(Requests)
  BY QueueTypes
<1>2. /\ step' = step /\ step.phase = "idle" /\ requests' = requests \cup {r}
      /\ UNCHANGED <<running, skipped>> /\ waiting' = Append(waiting, r) /\ req[r].status = "NEW"
  BY DEF AddRequest
<1>3. step.skipped = <<>> /\ step.received = {} /\ r \notin requests
  BY <1>2 DEF QueuesInv, QueuesPlaced
<1>4. /\ r \notin ToSet(running) /\ r \notin ToSet(waiting) /\ r \notin ToSet(skipped)
      /\ IsInjective(running) /\ IsInjective(waiting) /\ IsInjective(skipped)
  BY <1>2, <1>3 DEF QueuesInv, QueuesPlaced, QueuesApart, AllQueued, Leaving, Unfinished
<1>5. ToSet(waiting') = ToSet(waiting) \cup {r} /\ IsInjective(waiting')
  BY <1>1, <1>2, <1>4, QueueAppend
<1>6. req'[r].status = "WAITING" /\ \A s \in Requests \ {r} : req'[s] = req[s]
  <2>1. req' = [req EXCEPT ![r] = WithStatus(req[r], "WAITING")] /\ "WAITING" \in Status
    BY DEF AddRequest, WithStatus, Status
  <2> QED
    BY <1>1, <2>1, WithStatusIs
<1>7. Placed(r)'
  BY <1>2, <1>3, <1>4, <1>5, <1>6, EmptyQueue DEF Placed, OnlyIn
<1> QED
  BY <1>2, <1>3, <1>4, <1>5, <1>6, <1>7, EmptyQueue, QueuesMove

(* finish_requests takes the request out of whatever queue holds it.        *)
LEMMA FinishMoves ==
  ASSUME ShapesInv, QueuesInv, NEW r \in Requests, FinishRequest(r),
         step.phase \in {"idle", "transfers"}, step'.phase = step.phase,
         step'.skipped = step.skipped, step'.received = step.received
  PROVE  QueuesPlaced' /\ FinishedStays
<1> USE DEF ShapesInv
<1>1. /\ req \in [Requests -> RequestRecord] /\ step.received \subseteq Requests
      /\ running \in Seq(Requests) /\ waiting \in Seq(Requests) /\ skipped \in Seq(Requests)
  BY QueueTypes, LocalsTypes
<1>2. /\ running' = RemoveAll(running, {r}) /\ waiting' = RemoveAll(waiting, {r})
      /\ skipped' = RemoveAll(skipped, {r}) /\ requests' \ {r} = requests \ {r}
  BY DEF FinishRequest, FinishAndFree, FreeRequest
<1>3. step.skipped = <<>>
  BY DEF QueuesInv, QueuesPlaced
<1>4. IsInjective(running) /\ IsInjective(waiting) /\ IsInjective(skipped)
  BY DEF QueuesInv, QueuesPlaced, QueuesApart
<1>5. /\ ToSet(running') = ToSet(running) \ {r} /\ IsInjective(running')
      /\ ToSet(waiting') = ToSet(waiting) \ {r} /\ IsInjective(waiting')
      /\ ToSet(skipped') = ToSet(skipped) \ {r} /\ IsInjective(skipped')
  BY <1>1, <1>2, <1>4, QueueRemoveAll
<1>6. req'[r].status = "FINISHED" /\ \A s \in Requests \ {r} : req'[s] = req[s]
  <2>1. req' = [req EXCEPT ![r] = WithStatus(req[r], "FINISHED")] /\ "FINISHED" \in Status
    BY DEF FinishRequest, FinishAndFree, WithStatus, Status
  <2> QED
    BY <1>1, <2>1, WithStatusIs
<1>7. Placed(r)'
  BY <1>3, <1>5, <1>6, EmptyQueue DEF Placed, OnlyIn
<1>8. /\ \A s \in step'.received : req'[s].status \in {"WAITING_FOR_REMOTE_KVS", "FINISHED"}
      /\ step'.received # {} => step'.phase \in {"update", "transfers"}
  BY <1>1, <1>6 DEF QueuesInv, QueuesPlaced
<1> QED
  BY <1>2, <1>3, <1>5, <1>6, <1>7, <1>8, EmptyQueue, QueuesMove

LEMMA FinishFailedMoves ==
  ASSUME ShapesInv, QueuesInv, NEW r \in Requests, FinishFailed(r)
  PROVE  QueuesPlaced' /\ FinishedStays
<1> USE DEF ShapesInv
<1>1. step \in HandlerLocals /\ step.errors \ {r} \in SUBSET Requests /\ step.received \subseteq Requests
  BY QueueTypes, LocalsTypes
<1>2. step.phase = "transfers" /\ step' = WithErrors(step, step.errors \ {r})
  BY DEF FinishFailed, WithErrors
<1>3. step'.phase = "transfers" /\ step'.skipped = step.skipped /\ step'.received = step.received
  BY <1>1, <1>2, WithErrorsIs
<1>4. CASE r \in requests /\ req[r].status # "FINISHED"
  BY <1>2, <1>3, <1>4, FinishMoves DEF FinishFailed
<1>5. CASE ~(r \in requests /\ req[r].status # "FINISHED")
  <2>1. UNCHANGED <<req, requests, running, waiting, skipped>>
    BY <1>5 DEF FinishFailed, queues
  <2>2. StatusSame /\ Unfinished \subseteq requests'
    BY <2>1 DEF StatusSame, Unfinished
  <2>3. Leaving = {} /\ Leaving' = {}
    BY <1>2, <1>3 DEF Leaving
  <2>4. /\ step.skipped = <<>>
        /\ \A s \in step.received : req[s].status \in {"WAITING_FOR_REMOTE_KVS", "FINISHED"}
    BY <1>2 DEF QueuesInv, QueuesPlaced
  <2> QED
    BY <1>1, <1>3, <2>1, <2>2, <2>3, <2>4, QueuesSame
<1> QED
  BY <1>4, <1>5

(* The end of schedule(): the requests put aside go to the head of the      *)
(* skipped queue, in the order they were found.                             *)
LEMMA EndScheduleMoves ==
  ASSUME ShapesInv, QueuesInv, EndSchedule
  PROVE  QueuesPlaced' /\ FinishedStays
<1> USE DEF ShapesInv
<1> DEFINE ids == BatchIds(step.batch)
           seq == IF DeferBlockFree /\ ids # {} THEN schedSeq + 1 ELSE schedSeq
<1>1. /\ step \in HandlerLocals /\ req \in [Requests -> RequestRecord] /\ requests \subseteq Requests
      /\ skipped \in Seq(Requests) /\ step.skipped \in Seq(Requests) /\ step.batch \in Seq(BatchEntry)
  BY QueueTypes, LocalsTypes, SMTT(60)
<1>2. /\ skipped' = Reverse(step.skipped) \o skipped /\ step' = Idle /\ step.phase = "emit"
      /\ UNCHANGED <<requests, running, waiting>>
  BY DEF EndSchedule
<1>3. StatusSame
  <2>1. seq \in Nat
    BY SMTT(60) DEF Shapes
  <2>2. req' = [r \in Requests |-> IF r \in ids THEN AfterSchedule(req[r], EntryOf(step.batch, r), seq)
                                   ELSE req[r]]
    BY DEF EndSchedule
  <2> HIDE DEF ids, seq
  <2>3. ASSUME NEW r \in Requests, r \in ids
        PROVE  AfterSchedule(req[r], EntryOf(step.batch, r), seq).status = req[r].status
    BY <1>1, <2>1, <2>3, EntryOfIs, AfterScheduleIs DEF ids
  <2> QED
    BY <1>1, <2>2, <2>3 DEF StatusSame
<1>4. /\ IsInjective(running) /\ IsInjective(waiting) /\ IsInjective(skipped)
      /\ IsInjective(step.skipped) /\ ToSet(skipped) \cap ToSet(step.skipped) = {}
  BY DEF QueuesInv, QueuesPlaced, QueuesApart
<1>5. ToSet(skipped') = ToSet(step.skipped) \cup ToSet(skipped) /\ IsInjective(skipped')
  <2>1. /\ Reverse(step.skipped) \in Seq(Requests) /\ IsInjective(Reverse(step.skipped))
        /\ ToSet(Reverse(step.skipped)) = ToSet(step.skipped)
    BY <1>1, <1>4, QueueReverse
  <2> QED
    BY <1>1, <1>2, <1>4, <2>1, QueueConcat
<1>6. /\ step'.skipped = <<>> /\ step'.received = {} /\ step'.phase = "idle"
  BY <1>2, IdleFields
<1>7. QueuesApart'
  BY <1>2, <1>4, <1>5, <1>6, EmptyQueue DEF QueuesInv, QueuesPlaced, QueuesApart
<1>8. AllQueued' = AllQueued
  BY <1>2, <1>5, <1>6, EmptyQueue DEF AllQueued
<1>9. Unfinished' = Unfinished /\ Unfinished \subseteq Requests
  BY <1>1, <1>2, <1>3 DEF Unfinished, StatusSame
<1>10. Leaving = {} /\ Leaving' = {}
  BY <1>2, <1>6 DEF Leaving
<1>11. /\ \A r \in Unfinished' : req'[r].status = "RUNNING" <=> r \in ToSet(running')
       /\ \A r \in Unfinished' :
            req'[r].status \in Blocked => r \in ToSet(skipped') \cup ToSet(step'.skipped)
       /\ \A r \in requests' : req'[r].status # "NEW"
  BY <1>1, <1>2, <1>3, <1>5, <1>6, <1>9, ZenonT(60) DEF QueuesInv, QueuesPlaced, StatusSame
<1>12. FinishedStays
  BY <1>3 DEF FinishedStays, StatusSame
<1> QED
  BY <1>6, <1>7, <1>8, <1>9, <1>10, <1>11, <1>12 DEF QueuesInv, QueuesPlaced

(* The stopped requests leave the queues they were in.                      *)
LEMMA RemoveStoppedMoves ==
  ASSUME ShapesInv, QueuesInv, RemoveStopped
  PROVE  QueuesPlaced' /\ FinishedStays
<1> USE DEF ShapesInv
<1> DEFINE sr == step.stoppedRunning
           so == step.stoppedOther
<1>1. /\ step \in HandlerLocals /\ req \in [Requests -> RequestRecord] /\ requests \subseteq Requests
      /\ running \in Seq(Requests) /\ waiting \in Seq(Requests) /\ skipped \in Seq(Requests)
  BY QueueTypes
<1>2. /\ running' = RemoveAll(running, sr) /\ waiting' = RemoveAll(waiting, so)
      /\ skipped' = RemoveAll(skipped, so) /\ step.phase = "update"
      /\ UNCHANGED <<req, requests>> /\ step' = WithPhase(step, "transfers") /\ "transfers" \in Phases
  BY DEF RemoveStopped, WithPhase, Phases
<1>3. /\ step'.phase = "transfers" /\ step'.skipped = step.skipped /\ step'.received = step.received
  BY <1>1, <1>2, WithPhaseIs
<1>4. /\ IsInjective(running) /\ IsInjective(waiting) /\ IsInjective(skipped)
      /\ step.skipped = <<>> /\ Leaving = sr \cup so
      /\ sr \subseteq ToSet(running) /\ so \cap ToSet(running) = {}
  BY <1>2 DEF QueuesInv, QueuesPlaced, QueuesApart, Leaving
<1>5. /\ ToSet(running') = ToSet(running) \ sr /\ IsInjective(running')
      /\ ToSet(waiting') = ToSet(waiting) \ so /\ IsInjective(waiting')
      /\ ToSet(skipped') = ToSet(skipped) \ so /\ IsInjective(skipped')
  BY <1>1, <1>2, <1>4, QueueRemoveAll
<1>6. QueuesApart'
  BY <1>3, <1>4, <1>5, EmptyQueue DEF QueuesInv, QueuesPlaced, QueuesApart
<1>7. Leaving' = {} /\ Unfinished' = Unfinished
  BY <1>2, <1>3 DEF Leaving, Unfinished
<1>8. AllQueued' = Unfinished
  <2>1. AllQueued' = AllQueued \ (sr \cup so)
    <3>1. ToSet(running) \cap (ToSet(waiting) \cup ToSet(skipped)) = {}
      BY DEF QueuesInv, QueuesPlaced, QueuesApart
    <3> HIDE DEF sr, so
    <3> QED
      BY <1>3, <1>4, <1>5, <3>1, EmptyQueue DEF AllQueued
  <2> QED
    BY <1>4, <2>1 DEF QueuesInv, QueuesPlaced
<1>9. \A r \in Unfinished : r \in ToSet(running) <=> r \in ToSet(running')
  BY <1>4, <1>5 DEF QueuesInv, QueuesPlaced
<1>10. \A r \in Unfinished : r \in ToSet(skipped) <=> r \in ToSet(skipped')
  BY <1>4, <1>5 DEF QueuesInv, QueuesPlaced
<1>11. /\ \A r \in Unfinished' : req'[r].status = "RUNNING" <=> r \in ToSet(running')
       /\ \A r \in Unfinished' :
            req'[r].status \in Blocked => r \in ToSet(skipped') \cup ToSet(step'.skipped)
       /\ \A r \in requests' : req'[r].status # "NEW"
       /\ \A r \in step'.received : req'[r].status \in {"WAITING_FOR_REMOTE_KVS", "FINISHED"}
  BY <1>2, <1>3, <1>4, <1>7, <1>9, <1>10 DEF QueuesInv, QueuesPlaced
<1>12. FinishedStays
  BY <1>2 DEF FinishedStays
<1> QED
  BY <1>3, <1>4, <1>6, <1>7, <1>8, <1>11, <1>12 DEF QueuesInv, QueuesPlaced

(* Without sessions a request that stops is finished, and leaves its queue  *)
(* only after the loop over the entries: until then it is in Leaving.       *)
LEMMA UpdateEntryMoves ==
  ASSUME ShapesInv, QueuesInv, NoSessions,
         NEW g \in Int, NEW m \in Int, NEW eos \in BOOLEAN, UpdateEntry(g, m, eos)
  PROVE  QueuesPlaced' /\ FinishedStays
<1> USE DEF ShapesInv
<1>1. /\ step \in HandlerLocals /\ req \in [Requests -> RequestRecord] /\ requests \subseteq Requests
      /\ step.stoppedRunning \subseteq Requests /\ step.stoppedOther \subseteq Requests
  BY QueueTypes, LocalsTypes, SMTT(60)
<1>2. PICK e \in BatchEntry : e = Head(step.todo)
  BY NextEntryIs DEF UpdateEntry
<1>3. PICK r \in Requests : r = e.r
  BY <1>2, SMTT(60) DEF BatchEntry
<1>4. /\ r \in requests /\ req[r].status # "FINISHED" /\ req[r] \in RequestRecord
      /\ step.phase = "update" /\ UNCHANGED running
  BY <1>1, <1>2, <1>3 DEF UpdateEntry, Discarded, NextEntry
<1> DEFINE q == Deliver(req[r], e, g, m)
           stopped == eos \/ AtLimit(q)
           sr == IF stopped /\ q.status = "RUNNING" THEN step.stoppedRunning \cup {r}
                 ELSE step.stoppedRunning
           so == IF stopped /\ q.status # "RUNNING" THEN step.stoppedOther \cup {r}
                 ELSE step.stoppedOther
<1>5. q \in RequestRecord /\ q.status = req[r].status
  BY <1>4, DeliverIs
<1>6. /\ step'.phase = "update" /\ step'.skipped = step.skipped /\ step'.received = step.received
      /\ step'.stoppedRunning = sr /\ step'.stoppedOther = so
  <2>1. step' = WithStopped(step, Tail(step.todo), sr, so)
    BY <1>2, <1>3, SMTT(60) DEF UpdateEntry, WithStopped
  <2>2. Tail(step.todo) \in Seq(BatchEntry) /\ sr \subseteq Requests /\ so \subseteq Requests
    BY <1>1, NextEntryIs DEF UpdateEntry
  <2> HIDE DEF sr, so
  <2>3. PICK d \in Seq(BatchEntry), F \in SUBSET Requests, G \in SUBSET Requests :
          step' = WithStopped(step, d, F, G) /\ F = sr /\ G = so
    BY <2>1, <2>2
  <2> DEFINE t == WithStopped(step, d, F, G)
  <2>4. /\ t.phase = step.phase /\ t.skipped = step.skipped
        /\ t.received = step.received /\ t.stoppedRunning = F /\ t.stoppedOther = G
    BY <1>1, WithStoppedIs
  <2> HIDE DEF t
  <2>5. /\ step'.phase = step.phase /\ step'.skipped = step.skipped
        /\ step'.received = step.received /\ step'.stoppedRunning = sr /\ step'.stoppedOther = so
    BY <2>3, <2>4 DEF t
  <2> QED
    BY <1>4, <2>5, SMTT(60)
<1>7. step.skipped = <<>>
  BY <1>4 DEF QueuesInv, QueuesPlaced
<1>8. step.received \subseteq Requests
  BY <1>1, LocalsTypes
<1>9. CASE ~stopped
  <2>1. req' = [req EXCEPT ![r] = q] /\ UNCHANGED <<requests, waiting, skipped>>
    BY <1>9, <1>2, <1>3 DEF UpdateEntry
  <2>2. step'.stoppedRunning = step.stoppedRunning /\ step'.stoppedOther = step.stoppedOther
    BY <1>6, <1>9
  <2> HIDE DEF q, stopped, sr, so
  <2>3. StatusSame /\ Unfinished \subseteq requests'
    BY <1>1, <1>5, <2>1 DEF StatusSame, Unfinished
  <2>4. Leaving' = Leaving
    BY <1>4, <1>6, <2>2 DEF Leaving
  <2>5. \A s \in step.received : req[s].status \in {"WAITING_FOR_REMOTE_KVS", "FINISHED"}
    BY DEF QueuesInv, QueuesPlaced
  <2> QED
    BY <1>4, <1>6, <1>7, <1>8, <2>1, <2>2, <2>3, <2>4, <2>5, QueuesSame
<1>10. CASE stopped
  <2>1. /\ req' = [req EXCEPT ![r] = WithStatus(q, "FINISHED")] /\ "FINISHED" \in Status
        /\ requests' \in {requests \ {r}, requests} /\ UNCHANGED <<waiting, skipped>>
    <3>1. Stop(r, q)
      BY <1>10, <1>2, <1>3 DEF UpdateEntry
    <3> HIDE DEF q
    <3> QED
      BY <3>1, SMTT(60) DEF Stop, FreeRequest, NoSessions, WithStatus, Status
  <2>2. /\ step'.stoppedRunning = IF req[r].status = "RUNNING" THEN step.stoppedRunning \cup {r}
                                  ELSE step.stoppedRunning
        /\ step'.stoppedOther = IF req[r].status # "RUNNING" THEN step.stoppedOther \cup {r}
                                ELSE step.stoppedOther
    BY <1>5, <1>6, <1>10
  <2> HIDE DEF q, stopped, sr, so
  <2>3. \A s \in Requests \ {r} : req'[s] = req[s]
    BY <1>1, <2>1
  <2>4. req'[r].status = "FINISHED"
    BY <1>1, <1>5, <2>1, WithStatusIs
  <2>5. Unfinished' = Unfinished \ {r} /\ r \in Unfinished /\ Unfinished \subseteq Requests
    BY <1>1, <1>4, <2>1, <2>3, <2>4 DEF Unfinished
  <2>6. Leaving' = Leaving \cup {r}
    BY <1>4, <1>6, <2>2 DEF Leaving
  <2>7. QueuesApart' /\ AllQueued' = AllQueued
    BY <1>4, <1>6, <2>1 DEF QueuesInv, QueuesPlaced, QueuesApart, AllQueued
  <2>8. AllQueued' = Unfinished' \cup Leaving' /\ Leaving' \cap Unfinished' = {}
    BY <2>5, <2>6, <2>7 DEF QueuesInv, QueuesPlaced
  <2>9. req[r].status = "RUNNING" <=> r \in ToSet(running)
    BY <2>5 DEF QueuesInv, QueuesPlaced
  <2>10. /\ step'.stoppedRunning \subseteq ToSet(running')
         /\ step'.stoppedOther \cap ToSet(running') = {}
    BY <1>4, <2>2, <2>9 DEF QueuesInv, QueuesPlaced
  <2>11. /\ \A s \in Unfinished' : req'[s].status = "RUNNING" <=> s \in ToSet(running')
         /\ \A s \in Unfinished' :
              req'[s].status \in Blocked => s \in ToSet(skipped') \cup ToSet(step'.skipped)
         /\ \A s \in requests' : req'[s].status # "NEW"
    BY <1>1, <1>4, <1>6, <2>1, <2>3, <2>4, <2>5 DEF QueuesInv, QueuesPlaced
  <2>12. \A s \in step'.received : req'[s].status \in {"WAITING_FOR_REMOTE_KVS", "FINISHED"}
    BY <1>6, <1>8, <2>3, <2>4 DEF QueuesInv, QueuesPlaced
  <2>13. FinishedStays
    BY <2>3, <2>4 DEF FinishedStays
  <2> QED
    BY <1>6, <1>7, <2>7, <2>8, <2>10, <2>11, <2>12, <2>13 DEF QueuesInv, QueuesPlaced
<1> QED
  BY <1>9, <1>10

LEMMA PlacedStep ==
  ASSUME ShapesInv, QueuesInv, NoSessions, [Next]_vars
  PROVE  QueuesPlaced' /\ FinishedStays
<1>1. CASE ScheduleNext
  BY <1>1, QuietSchedule, PreemptMoves, AsideMoves, PromoteMoves, AdmitMoves, EndScheduleMoves
     DEF ScheduleNext
<1>2. CASE UpdateNext
  <2>1. ASSUME NEW g \in 1 .. NumSpecTokens + 1, NEW m \in 1 .. NumSpecTokens + 1,
               NEW eos \in BOOLEAN, UpdateEntry(g, m, eos)
        PROVE  QueuesPlaced' /\ FinishedStays
    <3>1. g \in Int /\ m \in Int
      OBVIOUS
    <3> QED
      BY <2>1, <3>1, UpdateEntryMoves
  <2> QED
    BY <1>2, <2>1, QuietUpdate, RemoveStoppedMoves, FinishFailedMoves, QuietTransfers DEF UpdateNext
<1>3. CASE ResetNext
  BY <1>3, QuietReset, PreemptMoves DEF ResetNext
<1>4. CASE ClientNext
  <2>1. ASSUME NEW r \in Abortable, Abort(r) PROVE QueuesPlaced' /\ FinishedStays
    <3>1. r \in Requests
      BY Parameters
    <3> QED
      BY <2>1, <3>1, FinishMoves DEF Abort
  <2> QED
    BY <1>4, <2>1, AddMoves DEF ClientNext, NoSessions
<1>5. CASE WorkerNext
  BY <1>5, QuietTransfers DEF WorkerNext
<1>6. CASE UNCHANGED vars
  BY <1>6 DEF vars, queues, QueuesInv, QueuesPlaced, QueuesApart, AllQueued, Unfinished, Leaving,
              FinishedStays
<1> QED
  BY <1>1, <1>2, <1>3, <1>4, <1>5, <1>6 DEF Next

(* The connector begins to send only when a request finishes.               *)
LEMMA SendsBegin ==
  ASSUME Shapes, NoSessions, NEW r \in Requests, [Next]_vars, send'[r] # "none"
  PROVE  send[r] # "none" \/ req'[r].status = "FINISHED"
<1>1. send \in [Requests -> {"none", "sending", "sent"}] /\ req \in [Requests -> RequestRecord]
  BY DEF Shapes
<1>2. CASE ScheduleNext \/ ResetNext \/ UNCHANGED vars
  <2>1. send' = send
    BY <1>2 DEF ScheduleNext, ResetNext, BeginSchedule, SkipRunning, ScheduleRunning,
         PreemptForBlocks, EndRunning, SkipWaiting, PromoteLoaded, AdmitLoad, AdmitRunning,
         BreakWaiting, EndWaiting, EndSchedule, BeginReset, ResetPreempt, EndReset, vars, xfer
  <2> QED
    BY <2>1
<1>3. ASSUME NEW s \in Requests, FinishRequest(s) PROVE send[r] # "none" \/ req'[r].status = "FINISHED"
  <2>1. req' = [req EXCEPT ![s].status = "FINISHED"] /\ (send' = send \/ send' = [send EXCEPT ![s] = "sending"])
    BY <1>3 DEF FinishRequest, FinishAndFree, FreeRequest, kv
  <2> QED
    BY <1>1, <2>1 DEF RequestRecord
<1>4. CASE UpdateNext
  <2>1. ASSUME NEW s \in Requests, ReportSent(s) PROVE send[r] # "none"
    BY <1>1, <2>1 DEF ReportSent
  <2>2. ASSUME NEW g \in 1 .. NumSpecTokens + 1, NEW m \in 1 .. NumSpecTokens + 1,
               NEW eos \in BOOLEAN, UpdateEntry(g, m, eos)
        PROVE  send[r] # "none" \/ req'[r].status = "FINISHED"
    <3> DEFINE e == Head(step.todo)
               q == Deliver(req[e.r], e, g, m)
    <3>1. Stop(e.r, q) \/ send' = send
      BY <2>2 DEF UpdateEntry
    <3>2. ASSUME Stop(e.r, q), send' # send
          PROVE  req' = [req EXCEPT ![e.r] = WithStatus(q, "FINISHED")] /\ send' = [send EXCEPT ![e.r] = "sending"]
      <4> HIDE DEF q
      <4> QED
        BY <3>2 DEF Stop, FreeRequest, WithStatus
    <3>3. e \in BatchEntry /\ e.r \in Requests
      BY <2>2, NextEntryIs DEF UpdateEntry
    <3>4. q \in RequestRecord
      <4>1. g \in Int /\ m \in Int
        OBVIOUS
      <4> QED
        BY <1>1, <3>3, <4>1, DeliverIs
    <3> HIDE DEF e, q
    <3>5. WithStatus(q, "FINISHED").status = "FINISHED"
      BY <3>4, WithStatusIs DEF Status
    <3> QED
      BY <1>1, <3>1, <3>2, <3>3, <3>5
  <2>3. (BeginUpdate \/ SkipEntry \/ RemoveStopped \/ EndUpdate) => send' = send
    BY DEF BeginUpdate, SkipEntry, RemoveStopped, EndUpdate, xfer
  <2>4. \A s \in Requests : ReportReceived(s) => send' = send
    BY DEF ReportReceived, xfer
  <2>5. ASSUME NEW s \in Requests, FinishFailed(s) PROVE send[r] # "none" \/ req'[r].status = "FINISHED"
    BY <1>3, <2>5 DEF FinishFailed, xfer
  <2> QED
    BY <1>4, <2>1, <2>2, <2>3, <2>4, <2>5 DEF UpdateNext
<1>5. CASE ClientNext
  <2>1. \A s \in Requests : AddRequest(s) => send' = send
    BY DEF AddRequest, xfer
  <2>2. ASSUME NEW s \in Abortable, Abort(s) PROVE send[r] # "none" \/ req'[r].status = "FINISHED"
    BY <1>3, <2>2, Parameters DEF Abort
  <2> QED
    BY <1>5, <2>1, <2>2 DEF ClientNext, NoSessions
<1>6. CASE WorkerNext
  BY <1>1, <1>6 DEF WorkerNext, LoadDone, SendDone, xfer
<1> QED
  BY <1>2, <1>4, <1>5, <1>6 DEF Next

LEMMA QueuesStep == ShapesInv /\ QueuesInv /\ NoSessions /\ [Next]_vars => QueuesInv'
<1> SUFFICES ASSUME ShapesInv, QueuesInv, NoSessions, [Next]_vars PROVE QueuesInv'
  OBVIOUS
<1>1. QueuesPlaced' /\ FinishedStays
  BY PlacedStep
<1>2. \A r \in Requests : send'[r] # "none" => send[r] # "none" \/ req'[r].status = "FINISHED"
  BY SendsBegin DEF ShapesInv
<1>3. SendsInv'
  BY <1>1, <1>2 DEF QueuesInv, SendsInv, FinishedStays
<1> QED
  BY <1>1, <1>3 DEF QueuesInv

LEMMA QueuesInitially == Init => QueuesInv
BY EmptyQueue, IdleFields DEF Init, QueuesInv, QueuesPlaced, SendsInv, QueuesApart, AllQueued, Unfinished,
   Leaving

LEMMA QueuesInvConsistent == Shapes /\ QueuesInv => QueuesConsistent
<1> SUFFICES ASSUME Shapes, QueuesInv, AtRest PROVE
        /\ IsInjective(Queued)
        /\ ToSet(Queued) = Unfinished
        /\ \A r \in requests : req[r].status = "RUNNING" <=> r \in ToSet(running)
        /\ \A r \in requests : req[r].status \in Blocked => r \in ToSet(skipped)
  BY DEF QueuesConsistent
<1>1. step.phase = "idle" /\ step.skipped = <<>> /\ Leaving = {}
  BY DEF AtRest, QueuesInv, QueuesPlaced, Leaving
<1>2. running \in Seq(Requests) /\ waiting \in Seq(Requests) /\ skipped \in Seq(Requests)
  BY QueueTypes
<1>3. /\ IsInjective(running) /\ IsInjective(waiting) /\ IsInjective(skipped)
      /\ ToSet(running) \cap ToSet(waiting) = {}
      /\ (ToSet(running) \cup ToSet(waiting)) \cap ToSet(skipped) = {}
  BY DEF QueuesInv, QueuesPlaced, QueuesApart
<1>4. /\ running \o waiting \in Seq(Requests) /\ IsInjective(running \o waiting)
      /\ ToSet(running \o waiting) = ToSet(running) \cup ToSet(waiting)
  BY <1>2, <1>3, QueueConcat
<1>5. /\ IsInjective(Queued)
      /\ ToSet(Queued) = ToSet(running) \cup ToSet(waiting) \cup ToSet(skipped)
  <2> DEFINE head == running \o waiting
  <2>1. Queued = head \o skipped /\ head \in Seq(Requests)
    BY <1>4 DEF Queued
  <2>2. IsInjective(head) /\ ToSet(head) \cap ToSet(skipped) = {}
    BY <1>3, <1>4
  <2>3. ToSet(head) = ToSet(running) \cup ToSet(waiting)
    BY <1>4
  <2> HIDE DEF head
  <2> QED
    BY <1>2, <1>3, <2>1, <2>2, <2>3, QueueConcat
<1>6. ToSet(Queued) = Unfinished
  BY <1>1, <1>5, EmptyQueue DEF QueuesInv, QueuesPlaced, AllQueued
<1>7. \A r \in requests : req[r].status = "RUNNING" <=> r \in ToSet(running)
  BY <1>5, <1>6 DEF QueuesInv, QueuesPlaced, Unfinished
<1>8. \A r \in requests : req[r].status \in Blocked => r \in ToSet(skipped)
  BY <1>1, EmptyQueue DEF QueuesInv, QueuesPlaced, Unfinished, Blocked
<1> QED
  BY <1>5, <1>6, <1>7, <1>8

(* Without streaming sessions, and whatever the order of handlers, loads,   *)
(* preemptions, aborts and resets, every unfinished request is in exactly   *)
(* one queue between two handlers, the one its status calls for: none is    *)
(* lost, scheduled twice, or left behind by a stop while it was preempted.  *)
(* With sessions the code does lose one (see the run of LostSession).       *)
THEOREM QueuesStayConsistent == NoSessions => (Spec => []QueuesConsistent)
<1> SUFFICES ASSUME NoSessions PROVE Spec => []QueuesConsistent
  OBVIOUS
<1>1. Init => ShapesInv /\ QueuesInv
  BY ShapesInitially, QueuesInitially
<1>2. ShapesInv /\ QueuesInv /\ [Next]_vars => ShapesInv' /\ QueuesInv'
  BY ShapesStep, QueuesStep
<1>3. ShapesInv /\ QueuesInv => QueuesConsistent
  BY QueuesInvConsistent DEF ShapesInv
<1> QED
  BY <1>1, <1>2, <1>3, PTL DEF Spec
===============================================================================
