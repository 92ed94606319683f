------------------------ MODULE SchedulerAccounts_proofs ------------------------
(***************************************************************************)
(* The scheduler's books balance: proofs about the counters of a request   *)
(* (num_in_flight_tokens, num_stale_output_tokens, num_computed_tokens,    *)
(* num_output_placeholders) and the steps whose output is still to come.   *)
(***************************************************************************)
EXTENDS Scheduler_proofs

-------------------------------------------------------------------------------
(* Sums along a sequence.                                                   *)

SumsOf(f, w, n) == f = [j \in 0 .. n |-> IF j = 0 THEN 0 ELSE f[j - 1] + w[j]]

LEMMA SumsExist ==
  ASSUME NEW w \in Seq(Int)
  PROVE  \E f : SumsOf(f, w, Len(w))
<1> DEFINE G == {n \in Nat : \E f : SumsOf(f, w, n)}
<1>1. Len(w) \in Nat
  OBVIOUS
<1>2. 0 \in G
  <2> DEFINE f == [j \in 0 .. 0 |-> 0]
  <2>1. SumsOf(f, w, 0)
    BY DEF SumsOf
  <2> QED
    BY <2>1
<1>3. ASSUME NEW n \in 0 .. Len(w) - 1, n \in G PROVE n + 1 \in G
  <2>1. PICK f : SumsOf(f, w, n)
    BY <1>3
  <2> DEFINE g == [j \in 0 .. n + 1 |-> IF j <= n THEN f[j] ELSE f[n] + w[n + 1]]
  <2>2. \A j \in 0 .. n : f[j] = IF j = 0 THEN 0 ELSE f[j - 1] + w[j]
    BY <2>1 DEF SumsOf
  <2>3. (\A j \in 0 .. n : g[j] = f[j]) /\ g[n + 1] = f[n] + w[n + 1]
    OBVIOUS
  <2>4. g = [j \in 0 .. n + 1 |-> g[j]]
    OBVIOUS
  <2> HIDE DEF g
  <2>5. ASSUME NEW j \in 0 .. n + 1
        PROVE  g[j] = IF j = 0 THEN 0 ELSE g[j - 1] + w[j]
    <3>1. CASE j = n + 1
      <4>1. g[j - 1] = f[n] /\ j # 0
        BY <2>3, <3>1
      <4> QED
        BY <2>3, <3>1, <4>1
    <3>2. CASE j \in 0 .. n /\ j # 0
      <4>1. g[j] = f[j] /\ g[j - 1] = f[j - 1]
        BY <2>3, <3>2
      <4> QED
        BY <2>2, <3>2, <4>1
    <3>3. CASE j = 0
      BY <2>2, <2>3, <3>3
    <3> QED
      BY <3>1, <3>2, <3>3
  <2>6. SumsOf(g, w, n + 1)
    BY <2>4, <2>5 DEF SumsOf
  <2> QED
    BY <2>6
<1> HIDE DEF G
<1>4. 0 .. Len(w) \subseteq G
  BY <1>1, <1>2, <1>3, UpTo
<1>5. Len(w) \in G
  BY <1>1, <1>4
<1> QED
  BY <1>5 DEF G

LEMMA SumsAre ==
  ASSUME NEW w \in Seq(Int)
  PROVE  /\ Sums(w) \in [0 .. Len(w) -> Int] /\ Sums(w)[0] = 0
         /\ \A j \in 1 .. Len(w) : Sums(w)[j] = Sums(w)[j - 1] + w[j]
<1> DEFINE f == CHOOSE f : SumsOf(f, w, Len(w))
<1>1. Len(w) \in Nat /\ \A j \in 1 .. Len(w) : w[j] \in Int
  OBVIOUS
<1>2. Sums(w) = f
  BY DEF Sums, SumsOf
<1>3. SumsOf(f, w, Len(w))
  BY SumsExist
<1> HIDE DEF f
<1>4. f = [j \in 0 .. Len(w) |-> f[j]]
  BY <1>3 DEF SumsOf
<1>5. \A j \in 0 .. Len(w) : f[j] = IF j = 0 THEN 0 ELSE f[j - 1] + w[j]
  BY <1>3 DEF SumsOf
<1>6. f[0] = 0
  BY <1>1, <1>5
<1>7. \A j \in 1 .. Len(w) : f[j] = f[j - 1] + w[j]
  BY <1>1, <1>5
<1> DEFINE G == {j \in Nat : f[j] \in Int}
<1>8. 0 .. Len(w) \subseteq G
  <2>1. 0 \in G
    BY <1>6
  <2>2. ASSUME NEW j \in 0 .. Len(w) - 1, j \in G PROVE j + 1 \in G
    <3>1. j + 1 \in 1 .. Len(w) /\ (j + 1) - 1 = j
      BY <1>1
    <3>2. f[j + 1] = f[j] + w[j + 1] /\ w[j + 1] \in Int
      BY <1>1, <1>7, <3>1
    <3>3. f[j] \in Int
      BY <2>2
    <3> QED
      BY <3>1, <3>2, <3>3
  <2> HIDE DEF G
  <2> QED
    BY <1>1, <2>1, <2>2, UpTo
<1>9. \A j \in 0 .. Len(w) : f[j] \in Int
  BY <1>8
<1>10. f \in [0 .. Len(w) -> Int]
  BY <1>4, <1>9
<1> QED
  BY <1>2, <1>6, <1>7, <1>10

(* Two functions with the same increments keep their distance.              *)
SameSteps(f, g, c, a, n) ==
    /\ a \in Nat /\ n \in Nat /\ c \in Int
    /\ \A j \in a .. n : f[j] \in Int /\ g[j] \in Int
    /\ a <= n => f[a] = g[a] + c
    /\ \A j \in a + 1 .. n : f[j] - f[j - 1] = g[j] - g[j - 1]

LEMMA SameIncrements ==
  ASSUME NEW a, NEW n, NEW c, NEW f, NEW g, SameSteps(f, g, c, a, n)
  PROVE  \A j \in a .. n : f[j] = g[j] + c
<1> USE DEF SameSteps
<1> DEFINE G == {j \in Nat : j < a \/ f[j] = g[j] + c}
<1>1. 0 .. n \subseteq G
  <2>1. 0 \in G
    OBVIOUS
  <2>2. ASSUME NEW j \in 0 .. n - 1, j \in G PROVE j + 1 \in G
    <3>1. CASE j + 1 <= a
      BY <3>1
    <3>2. CASE j >= a
      <4>1. j \in a .. n /\ j + 1 \in a + 1 .. n /\ j + 1 \in a .. n /\ f[j] = g[j] + c
        BY <2>2, <3>2
      <4>2. f[j + 1] - f[j] = g[j + 1] - g[j]
        BY <4>1
      <4>3. f[j] \in Int /\ g[j] \in Int /\ f[j + 1] \in Int /\ g[j + 1] \in Int
        BY <4>1
      <4>4. f[j + 1] = g[j + 1] + c
        BY <4>1, <4>2, <4>3
      <4> QED
        BY <4>4
    <3> QED
      BY <3>1, <3>2
  <2> HIDE DEF G
  <2> QED
    BY <2>1, <2>2, UpTo
<1> QED
  BY <1>1

LEMMA SumsSame ==
  ASSUME NEW v \in Seq(Int), NEW w \in Seq(Int), NEW n \in 0 .. Len(v), n <= Len(w),
         \A j \in 1 .. n : v[j] = w[j]
  PROVE  \A j \in 0 .. n : Sums(v)[j] = Sums(w)[j]
<1> DEFINE f == Sums(v)
           g == Sums(w)
<1>1. n \in Nat /\ 0 \in Nat /\ 0 \in Int /\ Len(v) \in Nat /\ Len(w) \in Nat
  OBVIOUS
<1>2. /\ f[0] = 0 /\ g[0] = 0
      /\ \A j \in 0 .. n : f[j] \in Int /\ g[j] \in Int
  <2>1. f \in [0 .. Len(v) -> Int] /\ g \in [0 .. Len(w) -> Int] /\ f[0] = 0 /\ g[0] = 0
    BY SumsAre
  <2> HIDE DEF f, g
  <2>2. ASSUME NEW j \in 0 .. n PROVE f[j] \in Int /\ g[j] \in Int
    <3>1. j \in 0 .. Len(v) /\ j \in 0 .. Len(w)
      BY <1>1
    <3> QED
      BY <2>1, <3>1
  <2> QED
    BY <2>1, <2>2
<1>3. /\ \A j \in 1 .. Len(v) : f[j] = f[j - 1] + v[j]
      /\ \A j \in 1 .. Len(w) : g[j] = g[j - 1] + w[j]
  BY SumsAre
<1>4. \A j \in 1 .. n : v[j] \in Int /\ w[j] \in Int
  BY <1>1
<1> HIDE DEF f, g
<1>5. ASSUME NEW j \in 0 + 1 .. n PROVE f[j] - f[j - 1] = g[j] - g[j - 1]
  <2>1. /\ f[j] = f[j - 1] + v[j] /\ g[j] = g[j - 1] + w[j] /\ v[j] = w[j]
        /\ f[j - 1] \in Int /\ g[j - 1] \in Int /\ v[j] \in Int
    BY <1>1, <1>2, <1>3, <1>4, SMTT(60)
  <2> QED
    BY <2>1, SMTT(60)
<1>6. \A j \in 0 .. n : f[j] = g[j] + 0
  <2>1. SameSteps(f, g, 0, 0, n)
    BY <1>1, <1>2, <1>5 DEF SameSteps
  <2> QED
    BY <2>1, SameIncrements, SMTT(60)
<1>7. ASSUME NEW j \in 0 .. n PROVE f[j] = g[j]
  <2>1. f[j] = g[j] + 0 /\ g[j] \in Int
    BY <1>2, <1>6
  <2> QED
    BY <2>1
<1> QED
  BY <1>7 DEF f, g

(* The first element taken away.                                            *)
LEMMA SumsShift ==
  ASSUME NEW v \in Seq(Int), NEW w \in Seq(Int), Len(w) = Len(v) + 1,
         \A j \in 1 .. Len(v) : v[j] = w[j + 1]
  PROVE  \A j \in 0 .. Len(v) : Sums(v)[j] = Sums(w)[j + 1] - w[1]
<1> DEFINE n == Len(v)
           f == Sums(v)
           s == Sums(w)
           g == [j \in 0 .. n |-> s[j + 1]]
<1>1. n \in Nat /\ 0 \in Nat /\ Len(w) = n + 1 /\ w[1] \in Int /\ -w[1] \in Int
  OBVIOUS
<1>2. /\ f[0] = 0 /\ \A j \in 0 .. n : f[j] \in Int
      /\ \A j \in 1 .. n : f[j] = f[j - 1] + v[j]
  BY <1>1, SumsAre
<1>3. /\ s[0] = 0 /\ \A j \in 0 .. n + 1 : s[j] \in Int
      /\ \A j \in 1 .. n + 1 : s[j] = s[j - 1] + w[j]
  BY <1>1, SumsAre
<1>4. \A j \in 1 .. n : v[j] \in Int /\ v[j] = w[j + 1]
  BY <1>1
<1> HIDE DEF f, s, n
<1>5. (\A j \in 0 .. n : g[j] = s[j + 1] /\ g[j] \in Int) /\ g[0] = w[1]
  <2>1. \A j \in 0 .. n : g[j] = s[j + 1]
    OBVIOUS
  <2>2. s[1] = w[1]
    BY <1>1, <1>3
  <2>3. g[0] = s[1]
    BY <1>1
  <2>4. ASSUME NEW j \in 0 .. n PROVE s[j + 1] \in Int
    <3>1. j + 1 \in 0 .. n + 1
      BY <1>1
    <3> QED
      BY <1>3, <3>1
  <2> HIDE DEF g
  <2> QED
    BY <2>1, <2>2, <2>3, <2>4
<1> HIDE DEF g
<1>6. ASSUME NEW j \in 0 + 1 .. n PROVE f[j] - f[j - 1] = g[j] - g[j - 1]
  <2>1. /\ f[j] = f[j - 1] + v[j] /\ v[j] = w[j + 1]
        /\ f[j - 1] \in Int /\ v[j] \in Int
    BY <1>1, <1>2, <1>4, SMTT(60)
  <2>2. g[j] = s[j + 1] /\ g[j - 1] = s[j] /\ s[j + 1] = s[j] + w[j + 1] /\ s[j] \in Int
    <3>1. /\ j \in 0 .. n /\ j - 1 \in 0 .. n /\ (j - 1) + 1 = j /\ j \in 0 .. n + 1
          /\ j + 1 \in 1 .. n + 1 /\ (j + 1) - 1 = j
      BY <1>1
    <3>2. g[j] = s[j + 1] /\ g[j - 1] = s[j] /\ s[j] \in Int
      BY <1>3, <1>5, <3>1
    <3>3. s[j + 1] = s[j] + w[j + 1]
      BY <1>3, <3>1
    <3> QED
      BY <3>2, <3>3
  <2> QED
    BY <2>1, <2>2, SMTT(60)
<1>7. f[0] = g[0] + -w[1]
  BY <1>1, <1>2, <1>5
<1>8. \A j \in 0 .. n : f[j] = g[j] + -w[1]
  <2>1. SameSteps(f, g, -w[1], 0, n)
    BY <1>1, <1>2, <1>5, <1>6, <1>7 DEF SameSteps
  <2> QED
    BY <2>1, SameIncrements
<1>9. \A j \in 0 .. n : f[j] = s[j + 1] - w[1]
  BY <1>1, <1>5, <1>8
<1> QED
  BY <1>9 DEF f, s, n

(* The first element changed.                                               *)
LEMMA SumsHead ==
  ASSUME NEW v \in Seq(Int), NEW w \in Seq(Int), Len(w) = Len(v), Len(v) > 0,
         \A j \in 2 .. Len(v) : v[j] = w[j]
  PROVE  \A j \in 1 .. Len(v) : Sums(v)[j] = Sums(w)[j] + (v[1] - w[1])
<1> DEFINE n == Len(v)
           f == Sums(v)
           g == Sums(w)
           c == v[1] - w[1]
<1>1. n \in Nat /\ 1 \in Nat /\ Len(w) = n /\ n > 0 /\ v[1] \in Int /\ w[1] \in Int /\ c \in Int
  OBVIOUS
<1>2. /\ f[0] = 0 /\ \A j \in 0 .. n : f[j] \in Int
      /\ \A j \in 1 .. n : f[j] = f[j - 1] + v[j]
  BY <1>1, SumsAre
<1>3. /\ g[0] = 0 /\ \A j \in 0 .. n : g[j] \in Int
      /\ \A j \in 1 .. n : g[j] = g[j - 1] + w[j]
  BY <1>1, SumsAre
<1>4. \A j \in 2 .. n : v[j] \in Int /\ v[j] = w[j]
  BY <1>1
<1>5. f[1] = v[1] /\ g[1] = w[1]
  BY <1>1, <1>2, <1>3
<1> HIDE DEF f, g, n
<1>6. ASSUME NEW j \in 1 + 1 .. n PROVE f[j] - f[j - 1] = g[j] - g[j - 1]
  <2>1. /\ f[j] = f[j - 1] + v[j] /\ g[j] = g[j - 1] + w[j] /\ v[j] = w[j]
        /\ f[j - 1] \in Int /\ g[j - 1] \in Int /\ v[j] \in Int
    BY <1>1, <1>2, <1>3, <1>4, SMTT(60)
  <2> QED
    BY <2>1, SMTT(60)
<1>7. f[1] = g[1] + c
  BY <1>1, <1>5
<1>8. \A j \in 1 .. n : f[j] \in Int /\ g[j] \in Int
  BY <1>2, <1>3
<1> HIDE DEF c
<1>9. \A j \in 1 .. n : f[j] = g[j] + c
  <2>1. SameSteps(f, g, c, 1, n)
    BY <1>1, <1>6, <1>7, <1>8 DEF SameSteps
  <2> QED
    BY <2>1, SameIncrements
<1> QED
  BY <1>9 DEF f, g, n, c

LEMMA SumsGrow ==
  ASSUME NEW w \in Seq(Nat)
  PROVE  /\ \A j \in 0 .. Len(w) : Sums(w)[j] \in Nat
         /\ \A i \in 0 .. Len(w), j \in 0 .. Len(w) : i <= j => Sums(w)[i] <= Sums(w)[j]
         /\ \A j \in 1 .. Len(w) : Sums(w)[j] = Sums(w)[j - 1] + w[j]
<1> DEFINE n == Len(w)
           s == Sums(w)
<1>1. n \in Nat /\ w \in Seq(Int) /\ \A j \in 1 .. n : w[j] \in Nat
  OBVIOUS
<1>2. s[0] = 0 /\ (\A j \in 0 .. n : s[j] \in Int) /\ \A j \in 1 .. n : s[j] = s[j - 1] + w[j]
  BY <1>1, SumsAre
<1> HIDE DEF s, n
<1>3. ASSUME NEW i \in 0 .. n
      PROVE  \A j \in i .. n : s[i] <= s[j]
  <2> DEFINE G == {j \in Nat : j < i \/ s[i] <= s[j]}
  <2>1. 0 \in G
    BY <1>2
  <2>2. ASSUME NEW j \in 0 .. n - 1, j \in G PROVE j + 1 \in G
    <3>1. CASE j + 1 < i
      BY <3>1
    <3>2. CASE j + 1 = i
      BY <1>2, <3>2
    <3>3. CASE j >= i
      <4>1. s[j + 1] = s[j] + w[j + 1] /\ w[j + 1] \in Nat /\ s[j] \in Int /\ s[i] \in Int
        BY <1>1, <1>2
      <4>2. s[i] <= s[j]
        BY <2>2, <3>3
      <4>3. s[i] <= s[j + 1]
        BY <4>1, <4>2
      <4> QED
        BY <4>3
    <3> QED
      BY <3>1, <3>2, <3>3
  <2> HIDE DEF G
  <2>3. 0 .. n \subseteq G
    BY <1>1, <2>1, <2>2, UpTo
  <2> QED
    BY <2>3 DEF G
<1>4. \A j \in 0 .. n : s[j] \in Nat
  <2>1. 0 \in 0 .. n
    BY <1>1
  <2>2. \A j \in 0 .. n : s[0] <= s[j]
    BY <2>1, <1>3
  <2> QED
    BY <1>2, <2>2
<1> QED
  BY <1>2, <1>3, <1>4 DEF s, n

LEMMA SumsZero ==
  ASSUME NEW w \in Seq(Int), \A j \in 1 .. Len(w) : w[j] = 0
  PROVE  \A j \in 0 .. Len(w) : Sums(w)[j] = 0
<1> DEFINE n == Len(w)
           s == Sums(w)
           G == {j \in Nat : s[j] = 0}
<1>1. n \in Nat
  OBVIOUS
<1>2. s[0] = 0 /\ \A j \in 1 .. n : s[j] = s[j - 1] + w[j]
  BY SumsAre
<1>3. 0 \in G
  BY <1>2
<1>4. ASSUME NEW j \in 0 .. n - 1, j \in G PROVE j + 1 \in G
  <2>1. s[j + 1] = s[j] + w[j + 1] /\ w[j + 1] = 0 /\ s[j] = 0
    BY <1>1, <1>2, <1>4
  <2> QED
    BY <2>1
<1> HIDE DEF G
<1>5. 0 .. n \subseteq G
  BY <1>1, <1>3, <1>4, UpTo
<1> QED
  BY <1>5 DEF G

-------------------------------------------------------------------------------
(* The stream of a request: T[j] tokens of it and O[j] outputs in slot j.   *)

Stream(T, O) ==
    /\ T \in Seq(Nat) /\ O \in Seq(Nat) /\ Len(O) = Len(T) /\ Len(T) > 0
    /\ \A j \in 1 .. Len(T) : T[j] = 0 => O[j] = 0

AwaitedOf(T, O, d) == [j \in DOMAIN T |-> IF Sums(T)[j - 1] >= d THEN O[j] ELSE 0]

LEMMA TotalIs ==
  ASSUME NEW w \in Seq(Nat)
  PROVE  /\ Total(w) \in Nat /\ Total(w) = Sums(w)[Len(w)] /\ Sums(w)[0] = 0
         /\ \A j \in 0 .. Len(w) : Sums(w)[j] \in Nat /\ Sums(w)[j] <= Total(w)
         /\ \A j \in 1 .. Len(w) : Sums(w)[j] = Sums(w)[j - 1] + w[j] /\ w[j] <= Total(w)
<1>1. Len(w) \in Nat /\ w \in Seq(Int) /\ (\A j \in 1 .. Len(w) : w[j] \in Nat) /\ Len(w) \in 0 .. Len(w)
  OBVIOUS
<1> DEFINE s == Sums(w)
           n == Len(w)
<1>2. Total(w) = s[n]
  BY DEF Total
<1>3. s[0] = 0
  BY <1>1, SumsAre
<1>4. /\ \A j \in 0 .. n : s[j] \in Nat
      /\ \A i \in 0 .. n, j \in 0 .. n : i <= j => s[i] <= s[j]
      /\ \A j \in 1 .. n : s[j] = s[j - 1] + w[j]
  BY SumsGrow
<1> HIDE DEF s, n
<1>5. ASSUME NEW j \in 0 .. n PROVE s[j] \in Nat /\ s[j] <= s[n]
  <2>1. j <= n /\ n \in 0 .. n
    BY <1>1 DEF n
  <2> QED
    BY <1>4, <2>1
<1>6. ASSUME NEW j \in 1 .. n PROVE s[j] = s[j - 1] + w[j] /\ w[j] <= s[n]
  <2>1. s[j] = s[j - 1] + w[j] /\ w[j] \in Nat /\ s[j - 1] \in Nat /\ s[j] \in Nat /\ s[j] <= s[n] /\ s[n] \in Nat
    <3>1. j \in 0 .. n /\ j - 1 \in 0 .. n /\ n \in 0 .. n
      BY <1>1 DEF n
    <3> QED
      BY <1>1, <1>4, <1>5, <3>1 DEF n
  <2> QED
    BY <2>1, SMTT(60)
<1>7. s[n] \in Nat
  BY <1>1, <1>5 DEF n
<1>8. /\ \A j \in 0 .. n : s[j] \in Nat /\ s[j] <= s[n]
      /\ \A j \in 1 .. n : s[j] = s[j - 1] + w[j] /\ w[j] <= s[n]
  BY <1>5, <1>6
<1> QED
  BY <1>2, <1>3, <1>7, <1>8 DEF s, n

LEMMA StreamIs ==
  ASSUME NEW T, NEW O, Stream(T, O)
  PROVE  /\ T \in Seq(Nat) /\ O \in Seq(Nat) /\ T \in Seq(Int) /\ O \in Seq(Int)
         /\ Len(T) \in Nat /\ Len(T) > 0 /\ Len(O) = Len(T)
         /\ DOMAIN T = 1 .. Len(T) /\ DOMAIN O = 1 .. Len(T)
         /\ \A j \in 1 .. Len(T) : T[j] \in Nat /\ O[j] \in Nat /\ (T[j] = 0 => O[j] = 0)
<1>1. /\ T \in Seq(Nat) /\ O \in Seq(Nat) /\ Len(O) = Len(T) /\ Len(T) > 0
      /\ \A j \in 1 .. Len(T) : T[j] = 0 => O[j] = 0
  BY DEF Stream
<1>2. T \in Seq(Int) /\ O \in Seq(Int) /\ Len(T) \in Nat /\ DOMAIN T = 1 .. Len(T) /\ DOMAIN O = 1 .. Len(T)
  BY <1>1
<1>3. \A j \in 1 .. Len(T) : T[j] \in Nat /\ O[j] \in Nat
  BY <1>1
<1> QED
  BY <1>1, <1>2, <1>3

LEMMA AwaitedIs ==
  ASSUME NEW T, NEW O, Stream(T, O), NEW d \in Int
  PROVE  /\ AwaitedOf(T, O, d) \in Seq(Nat) /\ Len(AwaitedOf(T, O, d)) = Len(T)
         /\ \A j \in 1 .. Len(T) :
                AwaitedOf(T, O, d)[j] = IF Sums(T)[j - 1] >= d THEN O[j] ELSE 0
<1> DEFINE A == AwaitedOf(T, O, d)
<1>1. Len(T) \in Nat /\ DOMAIN T = 1 .. Len(T) /\ \A j \in 1 .. Len(T) : O[j] \in Nat
  BY DEF Stream
<1>2. A = [j \in 1 .. Len(T) |-> IF Sums(T)[j - 1] >= d THEN O[j] ELSE 0]
  BY <1>1 DEF AwaitedOf
<1> HIDE DEF A
<1>3. \A j \in 1 .. Len(T) : A[j] = (IF Sums(T)[j - 1] >= d THEN O[j] ELSE 0) /\ A[j] \in Nat
  BY <1>1, <1>2
<1>4. A \in [1 .. Len(T) -> Nat]
  BY <1>2, <1>3
<1>5. A \in Seq(Nat) /\ Len(A) = Len(T)
  BY <1>1, <1>4
<1> QED
  BY <1>3, <1>5 DEF A

(* Nothing is awaited of a request all of whose steps are stale.            *)
LEMMA AwaitedNothing ==
  ASSUME NEW T, NEW O, Stream(T, O), NEW d \in Int, d >= Total(T)
  PROVE  /\ \A j \in 1 .. Len(T) : AwaitedOf(T, O, d)[j] = 0
         /\ Total(AwaitedOf(T, O, d)) = 0
<1> DEFINE A == AwaitedOf(T, O, d)
<1>1. /\ A \in Seq(Nat) /\ Len(A) = Len(T)
      /\ \A j \in 1 .. Len(T) : A[j] = IF Sums(T)[j - 1] >= d THEN O[j] ELSE 0
  BY AwaitedIs
<1>2. Len(T) \in Nat /\ T \in Seq(Nat) /\ \A j \in 1 .. Len(T) : T[j] \in Nat /\ (T[j] = 0 => O[j] = 0)
  BY DEF Stream
<1>3. /\ Total(T) \in Nat /\ \A j \in 0 .. Len(T) : Sums(T)[j] \in Nat /\ Sums(T)[j] <= Total(T)
      /\ \A j \in 1 .. Len(T) : Sums(T)[j] = Sums(T)[j - 1] + T[j]
  BY <1>2, TotalIs
<1> HIDE DEF A
<1>4. ASSUME NEW j \in 1 .. Len(T) PROVE A[j] = 0
  <2>1. CASE Sums(T)[j - 1] >= d
    <3>1. j \in 0 .. Len(T) /\ j - 1 \in 0 .. Len(T)
      BY <1>2
    <3>2. /\ Sums(T)[j] \in Nat /\ Sums(T)[j - 1] \in Nat /\ Sums(T)[j] <= Total(T) /\ T[j] \in Nat
          /\ Sums(T)[j] = Sums(T)[j - 1] + T[j]
      BY <1>2, <1>3, <3>1
    <3>3. T[j] = 0
      BY <1>3, <2>1, <3>2, SMTT(60)
    <3>4. O[j] = 0
      BY <1>2, <3>3
    <3> QED
      BY <1>1, <3>4
  <2>2. CASE ~(Sums(T)[j - 1] >= d)
    BY <1>1, <2>2
  <2> QED
    BY <2>1, <2>2
<1>5. A \in Seq(Int) /\ Len(A) \in 0 .. Len(A) /\ \A j \in 1 .. Len(A) : A[j] = 0
  BY <1>2, <1>1, <1>4
<1>6. Total(A) = 0
  BY <1>5, SumsZero DEF Total
<1> QED
  BY <1>4, <1>6 DEF A

(* A step is dispatched with n tokens of the request, and o outputs.        *)
Appended(T, O, n, o, d, U, P) ==
    /\ Stream(T, O) /\ n \in Nat /\ o \in Nat /\ (n = 0 => o = 0)
    /\ d \in Int /\ d <= Total(T) /\ U = Append(T, n) /\ P = Append(O, o)

LEMMA AwaitedAppend ==
  ASSUME NEW T, NEW O, NEW n, NEW o, NEW d, NEW U, NEW P, Appended(T, O, n, o, d, U, P)
  PROVE  /\ Stream(U, P) /\ Len(U) = Len(T) + 1
         /\ \A j \in 0 .. Len(T) : Sums(U)[j] = Sums(T)[j]
         /\ Total(U) = Total(T) + n
         /\ \A j \in 0 .. Len(T) : Sums(AwaitedOf(U, P, d))[j] = Sums(AwaitedOf(T, O, d))[j]
         /\ \A j \in 1 .. Len(T) : AwaitedOf(U, P, d)[j] = AwaitedOf(T, O, d)[j]
         /\ AwaitedOf(U, P, d)[Len(T) + 1] = o
         /\ Total(AwaitedOf(U, P, d)) = Total(AwaitedOf(T, O, d)) + o
<1> USE DEF Appended
<1> DEFINE A == AwaitedOf(T, O, d)
           B == AwaitedOf(U, P, d)
           N == Len(T)
<1>1. /\ N \in Nat /\ N > 0 /\ T \in Seq(Nat) /\ O \in Seq(Nat) /\ Len(O) = N
      /\ \A j \in 1 .. N : T[j] \in Nat /\ O[j] \in Nat /\ (T[j] = 0 => O[j] = 0)
  BY StreamIs
<1>2. /\ U \in Seq(Nat) /\ P \in Seq(Nat) /\ Len(U) = N + 1 /\ Len(P) = N + 1
      /\ \A j \in 1 .. N : U[j] = T[j] /\ P[j] = O[j]
      /\ U[N + 1] = n /\ P[N + 1] = o
  <2>1. /\ U \in Seq(Nat) /\ Len(U) = Len(T) + 1 /\ U[Len(T) + 1] = n
        /\ \A j \in 1 .. Len(T) : U[j] = T[j]
    BY <1>1
  <2>2. /\ P \in Seq(Nat) /\ Len(P) = Len(O) + 1 /\ P[Len(O) + 1] = o
        /\ \A j \in 1 .. Len(O) : P[j] = O[j]
    BY <1>1, SMTT(60)
  <2> QED
    BY <1>1, <2>1, <2>2
<1>3. Stream(U, P)
  BY <1>1, <1>2, SMTT(60) DEF Stream
<1>4. /\ A \in Seq(Nat) /\ Len(A) = N
      /\ \A j \in 1 .. N : A[j] = IF Sums(T)[j - 1] >= d THEN O[j] ELSE 0
  BY AwaitedIs
<1>5. /\ B \in Seq(Nat) /\ Len(B) = N + 1
      /\ \A j \in 1 .. N + 1 : B[j] = IF Sums(U)[j - 1] >= d THEN P[j] ELSE 0
  <2>1. /\ B \in Seq(Nat) /\ Len(B) = Len(U)
        /\ \A j \in 1 .. Len(U) : B[j] = IF Sums(U)[j - 1] >= d THEN P[j] ELSE 0
    BY <1>3, AwaitedIs
  <2> QED
    BY <1>2, <2>1
<1> HIDE DEF A, B, N
<1>6. \A j \in 0 .. N : Sums(T)[j] = Sums(U)[j]
  <2>1. /\ T \in Seq(Int) /\ U \in Seq(Int) /\ Len(T) \in 0 .. Len(T) /\ Len(T) <= Len(U)
        /\ \A j \in 1 .. Len(T) : T[j] = U[j]
    BY <1>1, <1>2 DEF N
  <2> QED
    BY <2>1, SumsSame DEF N
<1>7. Total(T) = Sums(T)[N] /\ Total(T) \in Nat
  BY <1>1, TotalIs DEF N
<1>8. Total(U) = Sums(U)[N + 1] /\ Sums(U)[N + 1] = Sums(U)[N] + n
  <2>1. N + 1 \in 1 .. Len(U) /\ (N + 1) - 1 = N
    BY <1>1, <1>2
  <2> QED
    BY <1>2, <2>1, TotalIs, ZenonT(60)
<1>9. Total(U) = Total(T) + n
  BY <1>1, <1>6, <1>7, <1>8
<1>10. \A j \in 1 .. N : B[j] = A[j]
  <2> TAKE j \in 1 .. N
  <2>1. j - 1 \in 0 .. N /\ j \in 1 .. N + 1
    BY <1>1
  <2> QED
    BY <1>2, <1>4, <1>5, <1>6, <2>1, ZenonT(60)
<1>11. B[N + 1] = o
  <2>1. N + 1 \in 1 .. N + 1 /\ (N + 1) - 1 = N /\ N \in 0 .. N
    BY <1>1
  <2>2. Sums(U)[N] = Total(T)
    BY <1>6, <1>7, <2>1
  <2> QED
    BY <1>2, <1>5, <1>7, <2>1, <2>2
<1>12. \A j \in 0 .. N : Sums(A)[j] = Sums(B)[j]
  <2>1. /\ A \in Seq(Int) /\ B \in Seq(Int) /\ Len(A) \in 0 .. Len(A) /\ Len(A) <= Len(B)
        /\ \A j \in 1 .. Len(A) : A[j] = B[j]
    BY <1>1, <1>4, <1>5, <1>10, SMTT(60)
  <2> QED
    BY <1>4, <2>1, SumsSame
<1>13. Total(A) = Sums(A)[N] /\ Total(A) \in Nat
  BY <1>4, TotalIs
<1>14. Total(B) = Sums(B)[N + 1] /\ Sums(B)[N + 1] = Sums(B)[N] + B[N + 1]
  <2>1. N + 1 \in 1 .. Len(B) /\ (N + 1) - 1 = N
    BY <1>1, <1>5
  <2> QED
    BY <1>5, <2>1, TotalIs, ZenonT(60)
<1>15. Total(B) = Total(A) + o
  BY <1>1, <1>11, <1>12, <1>13, <1>14
<1> QED
  BY <1>2, <1>3, <1>6, <1>9, <1>10, <1>11, <1>12, <1>15 DEF A, B, N

(* The oldest step, without the request, is taken away.                     *)
Shifted(T, O, d, U, P) ==
    /\ Stream(T, O) /\ T[1] = 0 /\ d \in Int
    /\ U \in Seq(Nat) /\ P \in Seq(Nat) /\ Len(U) > 0 /\ Len(P) = Len(U) /\ Len(T) = Len(U) + 1
    /\ \A j \in 1 .. Len(U) : U[j] = T[j + 1] /\ P[j] = O[j + 1]

LEMMA AwaitedShift ==
  ASSUME NEW T, NEW O, NEW d, NEW U, NEW P, Shifted(T, O, d, U, P)
  PROVE  /\ Stream(U, P)
         /\ \A j \in 0 .. Len(U) : Sums(U)[j] = Sums(T)[j + 1]
         /\ Sums(U)[0] = Sums(T)[0]
         /\ Total(U) = Total(T)
         /\ \A j \in 1 .. Len(U) : AwaitedOf(U, P, d)[j] = AwaitedOf(T, O, d)[j + 1]
         /\ \A j \in 0 .. Len(U) : Sums(AwaitedOf(U, P, d))[j] = Sums(AwaitedOf(T, O, d))[j + 1]
         /\ Total(AwaitedOf(U, P, d)) = Total(AwaitedOf(T, O, d))
<1> USE DEF Shifted
<1> DEFINE A == AwaitedOf(T, O, d)
           B == AwaitedOf(U, P, d)
           N == Len(U)
<1>1. /\ N \in Nat /\ N > 0 /\ Len(T) = N + 1 /\ T \in Seq(Nat) /\ T \in Seq(Int) /\ U \in Seq(Int)
      /\ \A j \in 1 .. N + 1 : T[j] \in Nat /\ O[j] \in Nat /\ (T[j] = 0 => O[j] = 0)
  BY StreamIs, SMTT(60)
<1>2. \A j \in 1 .. N : j + 1 \in 1 .. N + 1 /\ U[j] = T[j + 1] /\ P[j] = O[j + 1]
  BY <1>1
<1>3. Stream(U, P)
  BY <1>1, <1>2 DEF Stream
<1>4. /\ A \in Seq(Nat) /\ Len(A) = N + 1
      /\ \A j \in 1 .. N + 1 : A[j] = IF Sums(T)[j - 1] >= d THEN O[j] ELSE 0
  BY <1>1, AwaitedIs, SMTT(60)
<1>5. /\ B \in Seq(Nat) /\ Len(B) = N
      /\ \A j \in 1 .. N : B[j] = IF Sums(U)[j - 1] >= d THEN P[j] ELSE 0
  BY <1>3, AwaitedIs
<1>6. \A j \in 0 .. N : Sums(U)[j] = Sums(T)[j + 1] - T[1]
  BY <1>1, <1>2, SumsShift
<1> HIDE DEF A, B, N
<1>7. /\ Total(T) = Sums(T)[N + 1] /\ Total(T) \in Nat /\ Sums(T)[0] = 0
      /\ \A j \in 0 .. N + 1 : Sums(T)[j] \in Nat
  BY <1>1, TotalIs
<1>8. Total(U) = Sums(U)[N] /\ Sums(U)[0] = 0
  BY TotalIs DEF N
<1>9. ASSUME NEW j \in 0 .. N PROVE Sums(U)[j] = Sums(T)[j + 1]
  <2>1. j + 1 \in 0 .. N + 1
    BY <1>1
  <2> QED
    BY <1>6, <1>7, <2>1
<1>10. N \in 0 .. N /\ 1 \in 1 .. N + 1 /\ 1 \in 0 .. N + 1 /\ 1 - 1 = 0
  BY <1>1
<1>11. Total(U) = Total(T)
  BY <1>7, <1>8, <1>9, <1>10
<1>12. A[1] = 0
  BY <1>1, <1>4, <1>10
<1>13. \A j \in 1 .. N : B[j] = A[j + 1]
  <2> TAKE j \in 1 .. N
  <2>1. j + 1 \in 1 .. N + 1 /\ (j + 1) - 1 = j /\ j - 1 \in 0 .. N /\ (j - 1) + 1 = j
    BY <1>1
  <2>2. Sums(U)[j - 1] = Sums(T)[j]
    BY <1>9, <2>1
  <2>3. B[j] = IF Sums(U)[j - 1] >= d THEN P[j] ELSE 0
    BY <1>5
  <2>4. A[j + 1] = IF Sums(T)[j] >= d THEN O[j + 1] ELSE 0
    BY <1>4, <2>1
  <2> QED
    BY <1>2, <2>2, <2>3, <2>4
<1>14. \A j \in 0 .. N : Sums(B)[j] = Sums(A)[j + 1] - A[1]
  <2>1. A \in Seq(Int) /\ B \in Seq(Int) /\ Len(A) = Len(B) + 1 /\ \A j \in 1 .. Len(B) : B[j] = A[j + 1]
    BY <1>4, <1>5, <1>13
  <2> QED
    BY <1>5, <2>1, SumsShift
<1>15. /\ Total(A) = Sums(A)[N + 1] /\ Total(B) = Sums(B)[N]
       /\ \A j \in 0 .. N + 1 : Sums(A)[j] \in Nat
  BY <1>4, <1>5, TotalIs
<1>16. ASSUME NEW j \in 0 .. N PROVE Sums(B)[j] = Sums(A)[j + 1]
  <2>1. j + 1 \in 0 .. N + 1
    BY <1>1
  <2> QED
    BY <1>12, <1>14, <1>15, <2>1
<1>17. Total(B) = Total(A)
  BY <1>10, <1>15, <1>16
<1>18. Sums(U)[0] = Sums(T)[0]
  BY <1>7, <1>8
<1> QED
  BY <1>3, <1>9, <1>11, <1>13, <1>16, <1>17, <1>18 DEF A, B, N

(* The oldest step's output comes back: the stale share drains.             *)
Drained(T, O, d, c, U, P) ==
    /\ Stream(T, O) /\ T[1] > 0
    /\ d \in Nat /\ (d = 0 \/ d >= T[1]) /\ c = (IF d > 0 THEN d - T[1] ELSE 0)
    /\ U \in Seq(Nat) /\ P \in Seq(Nat) /\ Len(U) = Len(T) /\ Len(P) = Len(T)
    /\ U[1] = 0 /\ P[1] = 0 /\ \A j \in 2 .. Len(T) : U[j] = T[j] /\ P[j] = O[j]

LEMMA AwaitedDrain ==
  ASSUME NEW T, NEW O, NEW d, NEW c, NEW U, NEW P, Drained(T, O, d, c, U, P)
  PROVE  /\ Stream(U, P)
         /\ \A j \in 1 .. Len(T) : Sums(U)[j] = Sums(T)[j] - T[1]
         /\ Total(U) = Total(T) - T[1]
         /\ AwaitedOf(U, P, c)[1] = 0
         /\ AwaitedOf(T, O, d)[1] = IF d > 0 THEN 0 ELSE O[1]
         /\ \A j \in 2 .. Len(T) : AwaitedOf(U, P, c)[j] = AwaitedOf(T, O, d)[j]
         /\ \A j \in 1 .. Len(T) : Sums(AwaitedOf(U, P, c))[j]
                                     = Sums(AwaitedOf(T, O, d))[j] - AwaitedOf(T, O, d)[1]
         /\ Total(AwaitedOf(U, P, c)) = Total(AwaitedOf(T, O, d)) - AwaitedOf(T, O, d)[1]
<1> USE DEF Drained
<1> DEFINE A == AwaitedOf(T, O, d)
           B == AwaitedOf(U, P, c)
           N == Len(T)
<1>1. /\ N \in Nat /\ N > 0 /\ T \in Seq(Nat) /\ T \in Seq(Int) /\ U \in Seq(Int)
      /\ \A j \in 1 .. N : T[j] \in Nat /\ O[j] \in Nat /\ (T[j] = 0 => O[j] = 0)
  BY StreamIs, SMTT(60)
<1>2. 1 \in 1 .. N /\ N \in 1 .. N /\ 1 - 1 = 0 /\ \A j \in 2 .. N : j \in 1 .. N /\ j - 1 \in 1 .. N
  BY <1>1
<1>3. Stream(U, P)
  <2>1. \A j \in 1 .. Len(U) : U[j] = 0 => P[j] = 0
    <3> TAKE j \in 1 .. Len(U)
    <3>1. CASE j = 1
      BY <3>1
    <3>2. CASE j \in 2 .. N
      BY <1>1, <1>2, <3>2
    <3> QED
      BY <1>1, <3>1, <3>2
  <2> QED
    BY <1>1, <2>1 DEF Stream
<1>4. c \in Nat
  BY <1>1, <1>2
<1>5. /\ A \in Seq(Nat) /\ Len(A) = N
      /\ \A j \in 1 .. N : A[j] = IF Sums(T)[j - 1] >= d THEN O[j] ELSE 0
  BY AwaitedIs
<1>6. /\ B \in Seq(Nat) /\ Len(B) = N
      /\ \A j \in 1 .. N : B[j] = IF Sums(U)[j - 1] >= c THEN P[j] ELSE 0
  <2>1. /\ B \in Seq(Nat) /\ Len(B) = Len(U)
        /\ \A j \in 1 .. Len(U) : B[j] = IF Sums(U)[j - 1] >= c THEN P[j] ELSE 0
    BY <1>3, <1>4, AwaitedIs, SMTT(60)
  <2> QED
    BY <2>1
<1>7. \A j \in 1 .. N : Sums(U)[j] = Sums(T)[j] + (U[1] - T[1])
  <2>1. Len(T) = Len(U) /\ Len(U) > 0 /\ \A j \in 2 .. Len(U) : U[j] = T[j]
    BY <1>1
  <2>2. \A j \in 1 .. Len(U) : Sums(U)[j] = Sums(T)[j] + (U[1] - T[1])
    BY <1>1, <2>1, SumsHead
  <2> QED
    BY <2>2
<1> HIDE DEF A, B, N
<1>8. /\ Total(T) = Sums(T)[N] /\ Sums(T)[0] = 0
      /\ \A j \in 0 .. N : Sums(T)[j] \in Nat
      /\ \A j \in 1 .. N : Sums(T)[j] = Sums(T)[j - 1] + T[j]
  BY <1>1, TotalIs DEF N
<1>9. Total(U) = Sums(U)[N] /\ Sums(U)[0] = 0 /\ \A j \in 0 .. N : Sums(U)[j] \in Nat
  <2>1. N = Len(U)
    BY DEF N
  <2> QED
    BY <2>1, TotalIs
<1>10. T[1] \in Nat /\ T[1] \in Int /\ O[1] \in Nat
  BY <1>1, <1>2
<1>11. ASSUME NEW j \in 1 .. N PROVE Sums(U)[j] = Sums(T)[j] - T[1]
  <2>1. Sums(T)[j] \in Nat
    <3>1. j \in 0 .. N
      BY <1>1
    <3> QED
      BY <1>8, <3>1
  <2>2. PICK s \in Nat : s = Sums(T)[j]
    BY <2>1
  <2>3. PICK t \in Nat : t = T[1]
    BY <1>10
  <2>4. Sums(U)[j] = s + (0 - t)
    BY <1>7, <2>2, <2>3
  <2>5. Sums(U)[j] = s - t
    BY <2>4
  <2> QED
    BY <2>2, <2>3, <2>5
<1>12. Total(U) = Total(T) - T[1]
  BY <1>2, <1>8, <1>9, <1>11
<1>13. B[1] = 0
  BY <1>2, <1>6
<1>14. A[1] = IF d > 0 THEN 0 ELSE O[1]
  BY <1>2, <1>5, <1>8
<1>15. \A j \in 2 .. N : B[j] = A[j]
  <2> TAKE j \in 2 .. N
  <2>1. j \in 1 .. N /\ j - 1 \in 1 .. N /\ j - 1 \in 0 .. N
    BY <1>2
  <2>2. Sums(U)[j - 1] = Sums(T)[j - 1] - T[1] /\ Sums(U)[j - 1] \in Nat /\ Sums(T)[j - 1] \in Nat
    BY <1>8, <1>9, <1>11, <2>1
  <2>3. Sums(U)[j - 1] >= c <=> Sums(T)[j - 1] >= d
    BY <1>10, <2>2, SMTT(60)
  <2>4. P[j] = O[j]
    BY DEF N
  <2> QED
    BY <1>5, <1>6, <2>1, <2>3, <2>4
<1>16. \A j \in 1 .. N : Sums(B)[j] = Sums(A)[j] + (B[1] - A[1])
  <2>1. /\ A \in Seq(Int) /\ B \in Seq(Int) /\ Len(A) = Len(B) /\ Len(B) > 0
        /\ \A j \in 2 .. Len(B) : B[j] = A[j]
    BY <1>1, <1>5, <1>6, <1>15, SMTT(60)
  <2> QED
    BY <1>6, <2>1, SumsHead
<1>17. Total(A) = Sums(A)[N] /\ Total(B) = Sums(B)[N] /\ \A j \in 0 .. N : Sums(A)[j] \in Nat
  BY <1>5, <1>6, TotalIs
<1>18. A[1] \in Nat
  BY <1>10, <1>14
<1>19. ASSUME NEW j \in 1 .. N PROVE Sums(B)[j] = Sums(A)[j] - A[1]
  <2>1. Sums(B)[j] = Sums(A)[j] + (B[1] - A[1]) /\ Sums(A)[j] \in Nat
    BY <1>1, <1>16, <1>17
  <2> QED
    BY <1>13, <1>18, <2>1
<1>20. Total(B) = Total(A) - A[1]
  BY <1>2, <1>17, <1>19
<1> QED
  BY <1>3, <1>11, <1>12, <1>13, <1>14, <1>15, <1>19, <1>20 DEF A, B, N

-------------------------------------------------------------------------------
(* The entries of a step.                                                   *)

StepOf(b) == b \in Seq(BatchEntry) /\ WellFormed(b)

LEMMA EntryIs ==
  ASSUME NEW b, StepOf(b), NEW i \in DOMAIN b
  PROVE  /\ b[i] \in BatchEntry /\ b[i].n > 0 /\ b[i].k \in 0 .. NumSpecTokens
         /\ b[i].r \in BatchIds(b) /\ EntryOf(b, b[i].r) = b[i]
<1>1. b \in Seq(BatchEntry) /\ WellFormed(b)
  BY DEF StepOf
<1>2. b[i] \in BatchEntry
  BY <1>1
<1>3. b[i].n > 0 /\ b[i].k \in 0 .. NumSpecTokens
  BY <1>1 DEF WellFormed
<1>4. b[i].r \in BatchIds(b)
  BY DEF BatchIds
<1>5. EntryOf(b, b[i].r) = b[i]
  <2>1. b[i] \in ToSet(b)
    BY DEF ToSet
  <2>2. \A e \in ToSet(b) : e.r = b[i].r => e = b[i]
    BY <1>1 DEF ToSet, WellFormed
  <2>3. EntryOf(b, b[i].r) \in ToSet(b) /\ EntryOf(b, b[i].r).r = b[i].r
    BY <2>1 DEF EntryOf
  <2> QED
    BY <2>2, <2>3
<1> QED
  BY <1>2, <1>3, <1>4, <1>5

LEMMA SlotOfMember ==
  ASSUME NEW b, StepOf(b), NEW r \in BatchIds(b)
  PROVE  /\ EntryOf(b, r) \in BatchEntry /\ EntryOf(b, r).r = r
         /\ EntryOf(b, r).n > 0 /\ EntryOf(b, r).k \in 0 .. NumSpecTokens
         /\ \E i \in DOMAIN b : b[i] = EntryOf(b, r)
         /\ SlotTokens(b, r) = EntryOf(b, r).n
         /\ SlotOutputs(b, r) = IF EntryOf(b, r).samples THEN 1 + EntryOf(b, r).k ELSE 0
<1>1. PICK i \in DOMAIN b : b[i].r = r
  BY DEF BatchIds
<1>2. b[i] = EntryOf(b, r) /\ b[i] \in BatchEntry /\ b[i].n > 0 /\ b[i].k \in 0 .. NumSpecTokens
  BY <1>1, EntryIs
<1> QED
  BY <1>1, <1>2 DEF SlotTokens, SlotOutputs

LEMMA SlotOfOther ==
  ASSUME NEW b, NEW r, r \notin BatchIds(b)
  PROVE  SlotTokens(b, r) = 0 /\ SlotOutputs(b, r) = 0
BY DEF SlotTokens, SlotOutputs

LEMMA SlotTypes ==
  ASSUME NEW b, StepOf(b), NEW r
  PROVE  /\ SlotTokens(b, r) \in Nat /\ SlotOutputs(b, r) \in Nat
         /\ SlotTokens(b, r) = 0 => SlotOutputs(b, r) = 0
         /\ SlotTokens(b, r) > 0 <=> r \in BatchIds(b)
<1>1. CASE r \in BatchIds(b)
  <2>1. PICK e \in BatchEntry : e = EntryOf(b, r)
    BY <1>1, SlotOfMember
  <2>2. e.n > 0 /\ e.k \in 0 .. NumSpecTokens /\ SlotTokens(b, r) = e.n
        /\ SlotOutputs(b, r) = IF e.samples THEN 1 + e.k ELSE 0
    BY <1>1, <2>1, SlotOfMember
  <2>3. e.n \in Int
    BY DEF BatchEntry
  <2> QED
    BY <1>1, <2>2, <2>3
<1>2. CASE r \notin BatchIds(b)
  <2>1. SlotTokens(b, r) = 0 /\ SlotOutputs(b, r) = 0
    BY <1>2, SlotOfOther
  <2> QED
    BY <1>2, <2>1
<1> QED
  BY <1>1, <1>2

LEMMA EmptyStep ==
  StepOf(<<>>) /\ BatchIds(<<>>) = {}
BY DEF StepOf, WellFormed, BatchIds

(* One entry is dealt with.                                                 *)
LEMMA TailStep ==
  ASSUME NEW b, StepOf(b), b # <<>>
  PROVE  /\ Head(b) \in BatchEntry /\ Head(b).r \in BatchIds(b) /\ EntryOf(b, Head(b).r) = Head(b)
         /\ StepOf(Tail(b)) /\ BatchIds(Tail(b)) = BatchIds(b) \ {Head(b).r}
         /\ \A s : s # Head(b).r =>
                /\ SlotTokens(Tail(b), s) = SlotTokens(b, s)
                /\ SlotOutputs(Tail(b), s) = SlotOutputs(b, s)
                /\ s \in BatchIds(b) => EntryOf(Tail(b), s) = EntryOf(b, s)
<1> DEFINE t == Tail(b)
           e == Head(b)
<1>1. b \in Seq(BatchEntry) /\ WellFormed(b)
  BY DEF StepOf
<1>2. /\ Len(b) \in Nat /\ Len(b) > 0 /\ DOMAIN b = 1 .. Len(b) /\ e = b[1] /\ 1 \in DOMAIN b
      /\ t \in Seq(BatchEntry) /\ Len(t) = Len(b) - 1 /\ DOMAIN t = 1 .. Len(b) - 1
  BY <1>1
<1>3. \A i \in DOMAIN t : i + 1 \in DOMAIN b /\ t[i] = b[i + 1] /\ i \in Int
  BY <1>1, <1>2
<1>4. \A i \in DOMAIN b : i = 1 \/ (i - 1 \in DOMAIN t /\ b[i] = t[i - 1])
  <2> TAKE i \in DOMAIN b
  <2>1. i \in 1 .. Len(b)
    BY <1>2
  <2>2. CASE i # 1
    <3>1. i - 1 \in DOMAIN t /\ (i - 1) + 1 = i
      BY <1>2, <2>1, <2>2
    <3> QED
      BY <1>3, <3>1
  <2> QED
    BY <2>2
<1> HIDE DEF t, e
<1>5. e \in BatchEntry /\ e.r \in BatchIds(b) /\ EntryOf(b, e.r) = e
  BY <1>2, EntryIs
<1>6. WellFormed(t)
  <2>1. ASSUME NEW i \in DOMAIN t, NEW j \in DOMAIN t, t[i].r = t[j].r PROVE i = j
    <3>1. i + 1 \in DOMAIN b /\ j + 1 \in DOMAIN b /\ b[i + 1].r = b[j + 1].r /\ i \in Int /\ j \in Int
      BY <1>3, <2>1
    <3>2. i + 1 = j + 1
      BY <1>1, <3>1 DEF WellFormed
    <3> QED
      BY <3>1, <3>2
  <2>2. \A i \in DOMAIN t : t[i].n > 0 /\ t[i].k \in 0 .. NumSpecTokens
    BY <1>1, <1>3 DEF WellFormed
  <2> QED
    BY <2>1, <2>2 DEF WellFormed
<1>7. StepOf(t)
  BY <1>2, <1>6 DEF StepOf
<1>8. \A i \in DOMAIN t : t[i].r # e.r
  <2> TAKE i \in DOMAIN t
  <2>1. i + 1 \in DOMAIN b /\ t[i] = b[i + 1] /\ i + 1 # 1
    <3>1. i \in 1 .. Len(b) - 1
      BY <1>2
    <3> QED
      BY <1>2, <1>3, <3>1
  <2> QED
    BY <1>1, <1>2, <2>1 DEF WellFormed
<1>9. BatchIds(t) = BatchIds(b) \ {e.r}
  <2>1. BatchIds(t) \subseteq BatchIds(b) \ {e.r}
    BY <1>3, <1>8 DEF BatchIds
  <2>2. BatchIds(b) \ {e.r} \subseteq BatchIds(t)
    BY <1>2, <1>4 DEF BatchIds
  <2> QED
    BY <2>1, <2>2
<1>10. ASSUME NEW s, s # e.r
       PROVE  /\ SlotTokens(t, s) = SlotTokens(b, s) /\ SlotOutputs(t, s) = SlotOutputs(b, s)
              /\ s \in BatchIds(b) => EntryOf(t, s) = EntryOf(b, s)
  <2>1. CASE s \in BatchIds(b)
    <3>1. PICK i \in DOMAIN b : b[i].r = s
      BY <2>1 DEF BatchIds
    <3>2. i - 1 \in DOMAIN t /\ b[i] = t[i - 1]
      BY <1>2, <1>4, <1>10, <3>1
    <3>3. EntryOf(b, s) = b[i]
      BY <3>1, EntryIs
    <3>4. EntryOf(t, s) = b[i] /\ s \in BatchIds(t)
      BY <1>7, <3>1, <3>2, EntryIs
    <3> QED
      BY <2>1, <3>3, <3>4 DEF SlotTokens, SlotOutputs
  <2>2. CASE s \notin BatchIds(b)
    BY <1>9, <2>2, SlotOfOther
  <2> QED
    BY <2>1, <2>2
<1> QED
  BY <1>5, <1>7, <1>9, <1>10 DEF t, e

(* A step with the same requests and counts.                                *)
Alike(b, c) ==
    /\ c \in Seq(BatchEntry) /\ DOMAIN c = DOMAIN b
    /\ \A i \in DOMAIN b : c[i].r = b[i].r /\ c[i].n = b[i].n /\ c[i].k = b[i].k

LEMMA AlikeStep ==
  ASSUME NEW b, StepOf(b), NEW c, Alike(b, c)
  PROVE  /\ StepOf(c) /\ BatchIds(c) = BatchIds(b)
         /\ \A s : SlotTokens(c, s) = SlotTokens(b, s)
         /\ \A i \in DOMAIN b : EntryOf(b, b[i].r) = b[i] /\ EntryOf(c, b[i].r) = c[i]
<1>1. /\ b \in Seq(BatchEntry) /\ WellFormed(b) /\ c \in Seq(BatchEntry) /\ DOMAIN c = DOMAIN b
      /\ \A i \in DOMAIN b : c[i].r = b[i].r /\ c[i].n = b[i].n /\ c[i].k = b[i].k
  BY DEF StepOf, Alike
<1>2. StepOf(c)
  BY <1>1 DEF StepOf, WellFormed
<1>3. BatchIds(c) = BatchIds(b)
  BY <1>1 DEF BatchIds
<1>4. ASSUME NEW i \in DOMAIN b PROVE EntryOf(b, b[i].r) = b[i] /\ EntryOf(c, b[i].r) = c[i]
  <2>1. i \in DOMAIN c /\ c[i].r = b[i].r
    BY <1>1
  <2>2. EntryOf(c, c[i].r) = c[i]
    BY <1>2, <2>1, EntryIs
  <2> QED
    BY <2>1, <2>2, EntryIs
<1>5. ASSUME NEW s PROVE SlotTokens(c, s) = SlotTokens(b, s)
  <2>1. CASE s \in BatchIds(b)
    <3>1. PICK i \in DOMAIN b : b[i].r = s
      BY <2>1 DEF BatchIds
    <3> QED
      BY <1>1, <1>3, <1>4, <2>1, <3>1 DEF SlotTokens
  <2>2. CASE s \notin BatchIds(b)
    BY <1>3, <2>2, SlotOfOther
  <2> QED
    BY <2>1, <2>2
<1> QED
  BY <1>2, <1>3, <1>4, <1>5

LEMMA MovedBackEntry ==
  ASSUME NEW e \in BatchEntry, NEW n \in Int, NEW f, f = [e EXCEPT !.pos = @ - n]
  PROVE  /\ f \in BatchEntry /\ f.r = e.r /\ f.n = e.n /\ f.k = e.k /\ f.samples = e.samples
         /\ f.pos = e.pos - n
<1>1. e.pos \in Int
  BY DEF BatchEntry
<1>2. e.pos - n \in Int
  BY <1>1
<1> QED
  BY <1>2 DEF BatchEntry

(* The positions of a step move back.                                       *)
LEMMA MovedBackStep ==
  ASSUME NEW b, StepOf(b), NEW q, NEW n \in Int, NEW c, c = MovedBack(b, q, n)
  PROVE  /\ StepOf(c) /\ BatchIds(c) = BatchIds(b)
         /\ \A s : SlotTokens(c, s) = SlotTokens(b, s) /\ SlotOutputs(c, s) = SlotOutputs(b, s)
         /\ \A s \in BatchIds(b) :
                EntryOf(c, s).pos = IF s = q THEN EntryOf(b, s).pos - n ELSE EntryOf(b, s).pos
<1>1. b \in Seq(BatchEntry) /\ DOMAIN b = 1 .. Len(b) /\ Len(b) \in Nat /\ \A i \in DOMAIN b : b[i] \in BatchEntry
  BY DEF StepOf
<1>2. c = [i \in 1 .. Len(b) |-> IF b[i].r = q THEN [b[i] EXCEPT !.pos = @ - n] ELSE b[i]]
  BY <1>1 DEF MovedBack
<1>3. ASSUME NEW i \in DOMAIN b
      PROVE  /\ c[i] \in BatchEntry /\ c[i].r = b[i].r /\ c[i].n = b[i].n /\ c[i].k = b[i].k
             /\ c[i].samples = b[i].samples
             /\ c[i].pos = IF b[i].r = q THEN b[i].pos - n ELSE b[i].pos
  <2>1. b[i] \in BatchEntry
    BY <1>1
  <2>2. CASE b[i].r = q
    <3>1. c[i] = [b[i] EXCEPT !.pos = @ - n]
      BY <1>1, <1>2, <2>2
    <3> QED
      BY <2>1, <2>2, <3>1, MovedBackEntry
  <2>3. CASE b[i].r # q
    <3>1. c[i] = b[i]
      BY <1>1, <1>2, <2>3
    <3> QED
      BY <2>1, <2>3, <3>1
  <2> QED
    BY <2>2, <2>3
<1>4. c \in Seq(BatchEntry) /\ DOMAIN c = DOMAIN b
  <2>1. c \in [1 .. Len(b) -> BatchEntry]
    <3>1. DOMAIN c = 1 .. Len(b) /\ c = [i \in 1 .. Len(b) |-> c[i]]
      BY <1>2
    <3> QED
      BY <1>1, <1>3, <3>1
  <2> QED
    BY <1>1, <2>1
<1>5. Alike(b, c)
  BY <1>3, <1>4 DEF Alike
<1>6. /\ StepOf(c) /\ BatchIds(c) = BatchIds(b)
      /\ \A s : SlotTokens(c, s) = SlotTokens(b, s)
      /\ \A i \in DOMAIN b : EntryOf(b, b[i].r) = b[i] /\ EntryOf(c, b[i].r) = c[i]
  BY <1>5, AlikeStep
<1>7. ASSUME NEW s \in BatchIds(b)
      PROVE  /\ SlotOutputs(c, s) = SlotOutputs(b, s)
             /\ EntryOf(c, s).pos = IF s = q THEN EntryOf(b, s).pos - n ELSE EntryOf(b, s).pos
  <2>1. PICK i \in DOMAIN b : b[i].r = s
    BY DEF BatchIds
  <2>2. EntryOf(b, s) = b[i] /\ EntryOf(c, s) = c[i]
    BY <1>6, <2>1
  <2> QED
    BY <1>3, <1>6, <2>1, <2>2 DEF SlotOutputs
<1>8. \A s : SlotOutputs(c, s) = SlotOutputs(b, s)
  BY <1>6, <1>7, SlotOfOther
<1> QED
  BY <1>6, <1>7, <1>8

-------------------------------------------------------------------------------
(* The books of a request, over any pipeline S of steps.                    *)

Pipeline(S) ==
    Len(S) \in Nat /\ Len(S) > 0 /\ DOMAIN S = 1 .. Len(S) /\ \A j \in DOMAIN S : StepOf(S[j])

TokensOf(S, r) == [j \in DOMAIN S |-> SlotTokens(S[j], r)]
OutputsOf(S, r) == [j \in DOMAIN S |-> SlotOutputs(S[j], r)]
ExpectedOf(S, r, d) == AwaitedOf(TokensOf(S, r), OutputsOf(S, r), d)
PendingOf(S, r, d) == Total(ExpectedOf(S, r, d))
BalancedOf(S, r, inFlight, stale) ==
    /\ inFlight = Total(TokensOf(S, r))
    /\ \E j \in 0 .. Len(S) : stale = Sums(TokensOf(S, r))[j]
FollowsOf(S, r, d, output) ==
    \A j \in DOMAIN S :
        ExpectedOf(S, r, d)[j] > 0 =>
            EntryOf(S[j], r).pos = output + Sums(ExpectedOf(S, r, d))[j - 1]

LEMMA BooksAre ==
  ASSUME NEW r
  PROVE  /\ Balanced(r) = BalancedOf(Slots, r, req[r].inFlight, req[r].stale)
         /\ Pending(r) = PendingOf(Slots, r, Dropped(r))
         /\ Follows(r) = FollowsOf(Slots, r, Dropped(r), req[r].output)
<1>1. DOMAIN TokensIn(r) = DOMAIN Slots /\ TokensIn(r) = TokensOf(Slots, r)
  BY DEF TokensIn, TokensOf
<1>2. Awaited(r) = ExpectedOf(Slots, r, Dropped(r))
  <2>1. \A j \in DOMAIN Slots : OutputsOf(Slots, r)[j] = SlotOutputs(Slots[j], r)
    BY DEF OutputsOf
  <2> QED
    BY <1>1, <2>1 DEF Awaited, ExpectedOf, AwaitedOf
<1>3. Pending(r) = PendingOf(Slots, r, Dropped(r))
  BY <1>2 DEF Pending, PendingOf
<1>4. Follows(r) = FollowsOf(Slots, r, Dropped(r), req[r].output)
  BY <1>2 DEF Follows, FollowsOf
<1>5. Balanced(r) = BalancedOf(Slots, r, req[r].inFlight, req[r].stale)
  BY <1>1 DEF Balanced, BalancedOf
<1> QED
  BY <1>3, <1>4, <1>5

LEMMA BooksBecome ==
  ASSUME NEW r
  PROVE  /\ Balanced(r)' = BalancedOf(Slots', r, req'[r].inFlight, req'[r].stale)
         /\ Pending(r)' = PendingOf(Slots', r, Dropped(r)')
         /\ Follows(r)' = FollowsOf(Slots', r, Dropped(r)', req'[r].output)
         /\ Dropped(r)' = IF req'[r].drop THEN req'[r].stale ELSE 0
<1>1. DOMAIN TokensIn(r)' = DOMAIN Slots' /\ TokensIn(r)' = TokensOf(Slots', r)
  BY DEF TokensIn, TokensOf
<1>2. Awaited(r)' = ExpectedOf(Slots', r, Dropped(r)')
  <2>1. \A j \in DOMAIN Slots' : OutputsOf(Slots', r)[j] = SlotOutputs(Slots'[j], r)
    BY DEF OutputsOf
  <2> QED
    BY <1>1, <2>1 DEF Awaited, ExpectedOf, AwaitedOf
<1>3. Pending(r)' = PendingOf(Slots', r, Dropped(r)')
  BY <1>2 DEF Pending, PendingOf
<1>4. Follows(r)' = FollowsOf(Slots', r, Dropped(r)', req'[r].output)
  BY <1>2 DEF Follows, FollowsOf
<1>5. Balanced(r)' = BalancedOf(Slots', r, req'[r].inFlight, req'[r].stale)
  BY <1>1 DEF Balanced, BalancedOf
<1> QED
  BY <1>3, <1>4, <1>5 DEF Dropped

LEMMA PipelineStream ==
  ASSUME NEW S, Pipeline(S), NEW r
  PROVE  /\ Stream(TokensOf(S, r), OutputsOf(S, r))
         /\ Len(TokensOf(S, r)) = Len(S) /\ Len(OutputsOf(S, r)) = Len(S)
         /\ DOMAIN S = 1 .. Len(S) /\ Len(S) \in Nat /\ Len(S) > 0
         /\ \A j \in 1 .. Len(S) :
                /\ TokensOf(S, r)[j] = SlotTokens(S[j], r) /\ OutputsOf(S, r)[j] = SlotOutputs(S[j], r)
                /\ StepOf(S[j])
                /\ TokensOf(S, r)[j] > 0 <=> r \in BatchIds(S[j])
<1> DEFINE T == TokensOf(S, r)
           O == OutputsOf(S, r)
<1>1. /\ Len(S) \in Nat /\ Len(S) > 0 /\ DOMAIN S = 1 .. Len(S)
      /\ \A j \in 1 .. Len(S) : StepOf(S[j])
  BY DEF Pipeline
<1>2. T = [j \in 1 .. Len(S) |-> SlotTokens(S[j], r)] /\ O = [j \in 1 .. Len(S) |-> SlotOutputs(S[j], r)]
  BY <1>1 DEF TokensOf, OutputsOf
<1> HIDE DEF T, O
<1>3. ASSUME NEW j \in 1 .. Len(S)
      PROVE  /\ T[j] \in Nat /\ O[j] \in Nat /\ (T[j] = 0 => O[j] = 0)
             /\ T[j] > 0 <=> r \in BatchIds(S[j])
             /\ T[j] = SlotTokens(S[j], r) /\ O[j] = SlotOutputs(S[j], r)
  BY <1>1, <1>2, SlotTypes
<1>4. T \in [1 .. Len(S) -> Nat] /\ O \in [1 .. Len(S) -> Nat]
  BY <1>2, <1>3
<1>5. T \in Seq(Nat) /\ O \in Seq(Nat) /\ Len(T) = Len(S) /\ Len(O) = Len(S)
  BY <1>1, <1>4
<1>6. Stream(T, O)
  BY <1>1, <1>3, <1>5 DEF Stream
<1> QED
  BY <1>1, <1>3, <1>5, <1>6 DEF T, O

(* Two pipelines that look the same to r.                                   *)
LEMMA SameBooks ==
  ASSUME NEW S, Pipeline(S), NEW R, Pipeline(R), Len(R) = Len(S), NEW r,
         \A j \in 1 .. Len(S) :
            /\ SlotTokens(R[j], r) = SlotTokens(S[j], r) /\ SlotOutputs(R[j], r) = SlotOutputs(S[j], r)
            /\ r \in BatchIds(S[j]) => EntryOf(R[j], r).pos = EntryOf(S[j], r).pos,
         NEW d \in Int
  PROVE  /\ \A f, s : BalancedOf(R, r, f, s) <=> BalancedOf(S, r, f, s)
         /\ PendingOf(R, r, d) = PendingOf(S, r, d)
         /\ \A out : FollowsOf(S, r, d, out) => FollowsOf(R, r, d, out)
<1>1. DOMAIN S = 1 .. Len(S) /\ DOMAIN R = 1 .. Len(S)
  BY DEF Pipeline
<1>2. TokensOf(R, r) = TokensOf(S, r) /\ OutputsOf(R, r) = OutputsOf(S, r)
  BY <1>1 DEF TokensOf, OutputsOf
<1>3. ExpectedOf(R, r, d) = ExpectedOf(S, r, d)
  BY <1>2 DEF ExpectedOf
<1>4. ASSUME NEW j \in 1 .. Len(S), ExpectedOf(S, r, d)[j] > 0 PROVE r \in BatchIds(S[j])
  <2>1. /\ Stream(TokensOf(S, r), OutputsOf(S, r)) /\ Len(TokensOf(S, r)) = Len(S)
        /\ OutputsOf(S, r)[j] = SlotOutputs(S[j], r)
    BY PipelineStream
  <2>2. ExpectedOf(S, r, d)[j] = 0 \/ ExpectedOf(S, r, d)[j] = SlotOutputs(S[j], r)
    BY <2>1, AwaitedIs DEF ExpectedOf
  <2> QED
    BY <1>4, <2>2, SlotOfOther
<1>5. ASSUME NEW out, FollowsOf(S, r, d, out) PROVE FollowsOf(R, r, d, out)
  <2> SUFFICES ASSUME NEW j \in 1 .. Len(S), ExpectedOf(R, r, d)[j] > 0
               PROVE  EntryOf(R[j], r).pos = out + Sums(ExpectedOf(R, r, d))[j - 1]
    BY <1>1 DEF FollowsOf
  <2>1. EntryOf(S[j], r).pos = out + Sums(ExpectedOf(S, r, d))[j - 1]
    BY <1>1, <1>3, <1>5 DEF FollowsOf
  <2> QED
    BY <1>3, <1>4, <2>1
<1>6. ASSUME NEW f, NEW s PROVE BalancedOf(R, r, f, s) <=> BalancedOf(S, r, f, s)
  BY <1>2 DEF BalancedOf
<1> QED
  BY <1>3, <1>5, <1>6 DEF PendingOf

(* What is expected is no more than what is sampled, and of fresh steps.    *)
LEMMA ExpectedIs ==
  ASSUME NEW S, Pipeline(S), NEW r, NEW d \in Int
  PROVE  /\ ExpectedOf(S, r, d) \in Seq(Nat) /\ Len(ExpectedOf(S, r, d)) = Len(S)
         /\ PendingOf(S, r, d) \in Nat
         /\ \A j \in 1 .. Len(S) :
                /\ ExpectedOf(S, r, d)[j] \in Nat
                /\ ExpectedOf(S, r, d)[j] <= PendingOf(S, r, d)
                /\ ExpectedOf(S, r, d)[j] > 0 => r \in BatchIds(S[j])
         /\ Sums(ExpectedOf(S, r, d))[0] = 0
<1>1. /\ Stream(TokensOf(S, r), OutputsOf(S, r)) /\ Len(TokensOf(S, r)) = Len(S)
      /\ \A j \in 1 .. Len(S) : OutputsOf(S, r)[j] = SlotOutputs(S[j], r)
  BY PipelineStream
<1> DEFINE A == ExpectedOf(S, r, d)
<1>2. /\ A \in Seq(Nat) /\ Len(A) = Len(S)
      /\ \A j \in 1 .. Len(S) : A[j] = IF Sums(TokensOf(S, r))[j - 1] >= d THEN OutputsOf(S, r)[j] ELSE 0
  BY <1>1, AwaitedIs DEF ExpectedOf
<1>3. PendingOf(S, r, d) = Total(A)
  BY DEF PendingOf
<1> HIDE DEF A
<1>4. Total(A) \in Nat /\ Sums(A)[0] = 0 /\ \A j \in 1 .. Len(S) : A[j] <= Total(A)
  BY <1>2, TotalIs
<1>5. \A j \in 1 .. Len(S) : A[j] \in Nat
  BY <1>2
<1>6. ASSUME NEW j \in 1 .. Len(S), A[j] > 0 PROVE r \in BatchIds(S[j])
  <2>1. A[j] = 0 \/ A[j] = SlotOutputs(S[j], r)
    BY <1>1, <1>2
  <2> QED
    BY <1>6, <2>1, SlotOfOther
<1> QED
  BY <1>2, <1>3, <1>4, <1>5, <1>6 DEF A

(* All steps of r are stale: nothing is expected.                           *)
LEMMA NothingExpected ==
  ASSUME NEW S, Pipeline(S), NEW r, NEW f, NEW s, BalancedOf(S, r, f, s)
  PROVE  /\ f \in Nat /\ s \in Nat /\ s <= f
         /\ PendingOf(S, r, f) = 0 /\ \A out : FollowsOf(S, r, f, out)
         /\ BalancedOf(S, r, f, f)
<1>1. /\ Stream(TokensOf(S, r), OutputsOf(S, r)) /\ Len(TokensOf(S, r)) = Len(S)
      /\ DOMAIN S = 1 .. Len(S) /\ Len(S) \in Nat
  BY PipelineStream
<1> DEFINE T == TokensOf(S, r)
<1>2. T \in Seq(Nat)
  BY <1>1, StreamIs
<1>3. f = Total(T) /\ \E j \in 0 .. Len(S) : s = Sums(T)[j]
  BY DEF BalancedOf
<1>4. Total(T) \in Nat /\ Total(T) = Sums(T)[Len(S)] /\ \A j \in 0 .. Len(S) : Sums(T)[j] \in Nat /\ Sums(T)[j] <= Total(T)
  <2>1. Len(T) = Len(S)
    BY <1>1
  <2> HIDE DEF T
  <2> QED
    BY <1>2, <2>1, TotalIs
<1>5. f \in Int /\ f >= Total(T)
  BY <1>3, <1>4
<1>6. /\ \A j \in 1 .. Len(T) : AwaitedOf(T, OutputsOf(S, r), f)[j] = 0
      /\ Total(AwaitedOf(T, OutputsOf(S, r), f)) = 0
  BY <1>1, <1>5, AwaitedNothing
<1>7. \A out : FollowsOf(S, r, f, out)
  BY <1>1, <1>6 DEF FollowsOf, ExpectedOf
<1>8. BalancedOf(S, r, f, f)
  BY <1>1, <1>3, <1>4 DEF BalancedOf
<1> QED
  BY <1>3, <1>4, <1>6, <1>7, <1>8 DEF PendingOf, ExpectedOf

LEMMA AppendIs ==
  ASSUME NEW s \in Seq(Nat), NEW x \in Nat
  PROVE  Append(s, x) = [j \in 1 .. Len(s) + 1 |-> IF j = Len(s) + 1 THEN x ELSE s[j]]
<1> DEFINE t == Append(s, x)
<1>1. Len(s) \in Nat
  OBVIOUS
<1>2. /\ t \in Seq(Nat) /\ Len(t) = Len(s) + 1 /\ t[Len(s) + 1] = x
      /\ \A j \in 1 .. Len(s) : t[j] = s[j]
  OBVIOUS
<1> HIDE DEF t
<1>3. t = [j \in 1 .. Len(s) + 1 |-> t[j]]
  BY <1>2
<1>4. \A j \in 1 .. Len(s) + 1 : j = Len(s) + 1 \/ j \in 1 .. Len(s)
  BY <1>1
<1>5. t = [j \in 1 .. Len(s) + 1 |-> IF j = Len(s) + 1 THEN x ELSE s[j]]
  BY <1>2, <1>3, <1>4
<1> QED
  BY <1>5 DEF t

(* schedule() dispatches a step.                                            *)
Dispatches(S, R, b, r, d) ==
    /\ Pipeline(R)
    /\ \A f \in Int : \A s : BalancedOf(S, r, f, s) => BalancedOf(R, r, f + SlotTokens(b, r), s)
    /\ PendingOf(R, r, d) = PendingOf(S, r, d) + SlotOutputs(b, r)
    /\ \A out :
        /\ FollowsOf(S, r, d, out)
        /\ SlotOutputs(b, r) > 0 => EntryOf(b, r).pos = out + PendingOf(S, r, d)
        => FollowsOf(R, r, d, out)

LEMMA AppendBooks ==
  ASSUME NEW S, Pipeline(S), S \in Seq(Seq(BatchEntry)), NEW b, StepOf(b), NEW R, R = Append(S, b),
         NEW r, NEW d \in Int, d <= Total(TokensOf(S, r))
  PROVE  Dispatches(S, R, b, r, d)
<1> DEFINE T == TokensOf(S, r)
           O == OutputsOf(S, r)
           U == TokensOf(R, r)
           P == OutputsOf(R, r)
           N == Len(S)
           n == SlotTokens(b, r)
           o == SlotOutputs(b, r)
<1>1. /\ N \in Nat /\ N > 0 /\ DOMAIN S = 1 .. N /\ \A j \in 1 .. N : StepOf(S[j])
  BY DEF Pipeline
<1>2. /\ Len(R) = N + 1 /\ DOMAIN R = 1 .. N + 1 /\ R[N + 1] = b /\ \A j \in 1 .. N : R[j] = S[j]
  BY <1>1
<1>3. Pipeline(R)
  <2>1. \A j \in 1 .. N + 1 : j \in 1 .. N \/ j = N + 1
    BY <1>1
  <2> QED
    BY <1>1, <1>2, <2>1 DEF Pipeline
<1>4. n \in Nat /\ o \in Nat /\ (n = 0 => o = 0)
  BY SlotTypes
<1>5. Stream(T, O) /\ Len(T) = N /\ T \in Seq(Nat) /\ O \in Seq(Nat) /\ Len(O) = N
  <2>1. Stream(T, O) /\ Len(T) = N
    BY PipelineStream
  <2> HIDE DEF T, O
  <2> QED
    BY <2>1, StreamIs
<1>6. U = Append(T, n) /\ P = Append(O, o)
  <2>1. U = [j \in 1 .. N + 1 |-> SlotTokens(R[j], r)] /\ P = [j \in 1 .. N + 1 |-> SlotOutputs(R[j], r)]
    BY <1>2 DEF TokensOf, OutputsOf
  <2>2. \A j \in 1 .. N : T[j] = SlotTokens(R[j], r) /\ O[j] = SlotOutputs(R[j], r)
    BY <1>1, <1>2 DEF TokensOf, OutputsOf
  <2>3. SlotTokens(R[N + 1], r) = n /\ SlotOutputs(R[N + 1], r) = o
    BY <1>2
  <2> HIDE DEF T, O, U, P, n, o, N
  <2>4. U = Append(T, n)
    <3>1. Append(T, n) = [j \in 1 .. N + 1 |-> IF j = N + 1 THEN n ELSE T[j]]
      BY <1>4, <1>5, AppendIs
    <3>2. \A j \in 1 .. N + 1 : j = N + 1 \/ j \in 1 .. N
      BY <1>1 DEF N
    <3> QED
      BY <2>1, <2>2, <2>3, <3>1, <3>2
  <2>5. P = Append(O, o)
    <3>1. Append(O, o) = [j \in 1 .. N + 1 |-> IF j = N + 1 THEN o ELSE O[j]]
      BY <1>4, <1>5, AppendIs
    <3>2. \A j \in 1 .. N + 1 : j = N + 1 \/ j \in 1 .. N
      BY <1>1 DEF N
    <3> QED
      BY <2>1, <2>2, <2>3, <3>1, <3>2
  <2> QED
    BY <2>4, <2>5
<1> DEFINE A == ExpectedOf(S, r, d)
           B == ExpectedOf(R, r, d)
<1>7. A = AwaitedOf(T, O, d) /\ B = AwaitedOf(U, P, d)
  BY DEF ExpectedOf
<1>8. d <= Total(T)
  OBVIOUS
<1>9. PendingOf(R, r, d) = Total(B) /\ PendingOf(S, r, d) = Total(A)
  BY DEF PendingOf
<1>10. /\ \A out : FollowsOf(S, r, d, out) <=>
                     \A j \in 1 .. N : A[j] > 0 => EntryOf(S[j], r).pos = out + Sums(A)[j - 1]
       /\ \A out : FollowsOf(R, r, d, out) <=>
                     \A j \in 1 .. N + 1 : B[j] > 0 => EntryOf(R[j], r).pos = out + Sums(B)[j - 1]
  BY <1>1, <1>2 DEF FollowsOf
<1>11. /\ \A f, s : BalancedOf(S, r, f, s) <=> f = Total(T) /\ \E j \in 0 .. N : s = Sums(T)[j]
       /\ \A f, s : BalancedOf(R, r, f, s) <=> f = Total(U) /\ \E j \in 0 .. N + 1 : s = Sums(U)[j]
  BY <1>2 DEF BalancedOf
<1> HIDE DEF T, O, U, P, A, B, n, o, N
<1>12. /\ Stream(U, P) /\ Len(U) = N + 1
       /\ \A j \in 0 .. N : Sums(U)[j] = Sums(T)[j]
       /\ Total(U) = Total(T) + n
       /\ \A j \in 0 .. N : Sums(B)[j] = Sums(A)[j]
       /\ \A j \in 1 .. N : B[j] = A[j]
       /\ B[N + 1] = o
       /\ Total(B) = Total(A) + o
  <2>1. Appended(T, O, n, o, d, U, P)
    BY <1>4, <1>5, <1>6, <1>8 DEF Appended
  <2>2. Len(U) = Len(T) + 1
    BY <2>1, AwaitedAppend
  <2> QED
    BY <1>5, <1>7, <2>1, <2>2, AwaitedAppend, SMTT(60)
<1>13. ASSUME NEW f \in Int, NEW s, BalancedOf(S, r, f, s) PROVE BalancedOf(R, r, f + n, s)
  <2>1. f = Total(T) /\ \E j \in 0 .. N : s = Sums(T)[j]
    BY <1>13, <1>11
  <2>2. PICK j \in 0 .. N : s = Sums(T)[j]
    BY <2>1
  <2>3. j \in 0 .. N + 1 /\ s = Sums(U)[j]
    BY <1>1, <1>12, <2>2 DEF N
  <2> QED
    BY <1>12, <1>11, <2>1, <2>3
<1>14. ASSUME NEW out, FollowsOf(S, r, d, out), o > 0 => EntryOf(b, r).pos = out + PendingOf(S, r, d)
       PROVE  FollowsOf(R, r, d, out)
  <2>1. ASSUME NEW j \in 1 .. N + 1, B[j] > 0 PROVE EntryOf(R[j], r).pos = out + Sums(B)[j - 1]
    <3>1. CASE j \in 1 .. N
      <4>1. j - 1 \in 0 .. N
        BY <1>1, <3>1 DEF N
      <4> QED
        BY <1>2, <1>12, <1>14, <1>10, <2>1, <3>1, <4>1, ZenonT(60)
    <3>2. CASE j = N + 1
      <4>1. j - 1 = N /\ N \in 0 .. N
        BY <1>1, <3>2 DEF N
      <4>2. Sums(B)[j - 1] = Total(A)
        <5>1. A \in Seq(Nat) /\ Len(A) = N
          BY <1>5, <1>7, AwaitedIs
        <5> QED
          BY <1>12, <4>1, <5>1 DEF Total
      <4> QED
        BY <1>2, <1>12, <1>14, <1>9, <2>1, <3>2, <4>2
    <3> QED
      BY <1>1, <3>1, <3>2 DEF N
  <2> QED
    BY <1>10, <2>1
<1> QED
  BY <1>3, <1>12, <1>13, <1>14, <1>9 DEF n, o, Dispatches

(* The steps move up by one slot.                                           *)
LEMMA ShiftBooks ==
  ASSUME NEW S, Pipeline(S), NEW R, Len(R) \in Nat, Len(R) > 0, Len(S) = Len(R) + 1,
         DOMAIN R = 1 .. Len(R), S[1] = <<>>, \A j \in 1 .. Len(R) : R[j] = S[j + 1],
         NEW r, NEW d \in Int
  PROVE  /\ Pipeline(R)
         /\ \A f, s : BalancedOf(S, r, f, s) => BalancedOf(R, r, f, s)
         /\ PendingOf(R, r, d) = PendingOf(S, r, d)
         /\ \A out : FollowsOf(S, r, d, out) => FollowsOf(R, r, d, out)
<1> DEFINE T == TokensOf(S, r)
           O == OutputsOf(S, r)
           U == TokensOf(R, r)
           P == OutputsOf(R, r)
           N == Len(R)
<1>1. /\ N \in Nat /\ N > 0 /\ DOMAIN S = 1 .. N + 1 /\ DOMAIN R = 1 .. N
      /\ \A j \in 1 .. N + 1 : StepOf(S[j])
  BY DEF Pipeline
<1>2. \A j \in 1 .. N : j + 1 \in 1 .. N + 1 /\ R[j] = S[j + 1]
  BY <1>1
<1>3. Pipeline(R)
  BY <1>1, <1>2 DEF Pipeline
<1>4. /\ Stream(T, O) /\ Len(T) = N + 1
      /\ \A j \in 1 .. N + 1 : T[j] = SlotTokens(S[j], r) /\ O[j] = SlotOutputs(S[j], r)
  BY <1>1, PipelineStream
<1>5. /\ Stream(U, P) /\ Len(U) = N /\ Len(P) = N
      /\ \A j \in 1 .. N : U[j] = SlotTokens(R[j], r) /\ P[j] = SlotOutputs(R[j], r)
  BY <1>3, PipelineStream
<1>6. /\ T[1] = 0 /\ \A j \in 1 .. N : U[j] = T[j + 1] /\ P[j] = O[j + 1]
  <2>1. 1 \in 1 .. N + 1
    BY <1>1
  <2>2. SlotTokens(<<>>, r) = 0
    BY EmptyStep, SlotOfOther
  <2>3. T[1] = 0
    BY <1>4, <2>1, <2>2
  <2> HIDE DEF T, O, U, P, N
  <2> QED
    BY <1>2, <1>4, <1>5, <2>3
<1> DEFINE A == ExpectedOf(S, r, d)
           B == ExpectedOf(R, r, d)
<1>7. A = AwaitedOf(T, O, d) /\ B = AwaitedOf(U, P, d)
  BY DEF ExpectedOf
<1>8. PendingOf(R, r, d) = Total(B) /\ PendingOf(S, r, d) = Total(A)
  BY DEF PendingOf
<1>9. /\ \A out : FollowsOf(S, r, d, out) <=>
                    \A j \in 1 .. N + 1 : A[j] > 0 => EntryOf(S[j], r).pos = out + Sums(A)[j - 1]
      /\ \A out : FollowsOf(R, r, d, out) <=>
                    \A j \in 1 .. N : B[j] > 0 => EntryOf(R[j], r).pos = out + Sums(B)[j - 1]
  BY <1>1 DEF FollowsOf
<1>10. /\ \A f, s : BalancedOf(S, r, f, s) <=> f = Total(T) /\ \E j \in 0 .. N + 1 : s = Sums(T)[j]
       /\ \A f, s : BalancedOf(R, r, f, s) <=> f = Total(U) /\ \E j \in 0 .. N : s = Sums(U)[j]
  BY <1>1 DEF BalancedOf
<1> HIDE DEF T, O, U, P, A, B, N
<1>11. U \in Seq(Nat) /\ P \in Seq(Nat) /\ T \in Seq(Nat)
  BY <1>4, <1>5, StreamIs
<1>12. /\ \A j \in 0 .. N : Sums(U)[j] = Sums(T)[j + 1]
       /\ Sums(U)[0] = Sums(T)[0]
       /\ Total(U) = Total(T)
       /\ \A j \in 1 .. N : B[j] = A[j + 1]
       /\ \A j \in 0 .. N : Sums(B)[j] = Sums(A)[j + 1]
       /\ Total(B) = Total(A)
  <2>1. Shifted(T, O, d, U, P)
    BY <1>1, <1>4, <1>5, <1>6, <1>11 DEF Shifted
  <2> QED
    BY <1>5, <1>7, <2>1, AwaitedShift
<1>13. ASSUME NEW f, NEW s, BalancedOf(S, r, f, s) PROVE BalancedOf(R, r, f, s)
  <2>1. PICK j \in 0 .. N + 1 : s = Sums(T)[j]
    BY <1>13, <1>10
  <2>2. \E i \in 0 .. N : s = Sums(U)[i]
    <3>1. CASE j = 0
      BY <1>1, <1>12, <2>1, <3>1
    <3>2. CASE j # 0
      <4>1. j - 1 \in 0 .. N /\ (j - 1) + 1 = j
        BY <1>1, <3>2
      <4>2. Sums(U)[j - 1] = s
        BY <1>12, <2>1, <4>1
      <4> QED
        BY <4>1, <4>2
    <3> QED
      BY <3>1, <3>2
  <2> QED
    BY <1>12, <1>13, <1>10, <2>2
<1>14. ASSUME NEW out, FollowsOf(S, r, d, out) PROVE FollowsOf(R, r, d, out)
  <2>1. ASSUME NEW j \in 1 .. N, B[j] > 0 PROVE EntryOf(R[j], r).pos = out + Sums(B)[j - 1]
    <3>1. j + 1 \in 1 .. N + 1 /\ j - 1 \in 0 .. N /\ (j - 1) + 1 = j /\ (j + 1) - 1 = j
      BY <1>1
    <3>2. A[j + 1] > 0 /\ R[j] = S[j + 1] /\ Sums(B)[j - 1] = Sums(A)[j]
      BY <1>2, <1>12, <2>1, <3>1
    <3>3. EntryOf(S[j + 1], r).pos = out + Sums(A)[(j + 1) - 1]
      BY <1>14, <1>9, <3>1, <3>2
    <3> QED
      BY <3>1, <3>2, <3>3
  <2> QED
    BY <1>9, <2>1
<1> QED
  BY <1>3, <1>12, <1>13, <1>14, <1>8

(* The output of r's oldest step comes back: its tokens leave the pipeline, *)
(* the stale share drains, and the steps behind move x positions back.      *)
Returned(S, R, r, x) ==
    /\ Pipeline(S) /\ Pipeline(R) /\ Len(R) = Len(S)
    /\ r \in BatchIds(S[1]) /\ r \notin BatchIds(R[1])
    /\ \A j \in 2 .. Len(S) :
        /\ SlotTokens(R[j], r) = SlotTokens(S[j], r) /\ SlotOutputs(R[j], r) = SlotOutputs(S[j], r)
        /\ r \in BatchIds(S[j]) => EntryOf(R[j], r).pos = EntryOf(S[j], r).pos - x

StaleAfter(s, n) == IF s > 0 THEN s - n ELSE s

LEMMA DrainBooks ==
  ASSUME NEW S, NEW R, NEW r, NEW x \in Int, Returned(S, R, r, x),
         NEW f, NEW s, BalancedOf(S, r, f, s), NEW drop \in BOOLEAN,
         NEW n, n = SlotTokens(S[1], r), NEW d, d = IF drop THEN s ELSE 0,
         NEW c, c = IF drop THEN StaleAfter(s, n) ELSE 0,
         NEW a, a = ExpectedOf(S, r, d)[1]
  PROVE  /\ n \in Nat /\ n > 0 /\ f \in Nat /\ s \in Nat /\ n <= f /\ s <= f /\ (s > 0 => s >= n)
         /\ d \in Nat /\ c \in Nat
         /\ BalancedOf(R, r, f - n, StaleAfter(s, n))
         /\ a \in Nat /\ a <= PendingOf(S, r, d) /\ PendingOf(S, r, d) \in Nat
         /\ a = IF d > 0 THEN 0 ELSE SlotOutputs(S[1], r)
         /\ PendingOf(R, r, c) = PendingOf(S, r, d) - a
         /\ \A out \in Int, out2 \in Int :
                FollowsOf(S, r, d, out) /\ out2 = out + a - x => FollowsOf(R, r, c, out2)
<1> USE DEF StaleAfter
<1> DEFINE T == TokensOf(S, r)
           O == OutputsOf(S, r)
           U == TokensOf(R, r)
           P == OutputsOf(R, r)
           N == Len(S)
<1>1. /\ N \in Nat /\ N > 0 /\ DOMAIN S = 1 .. N /\ DOMAIN R = 1 .. N /\ 1 \in 1 .. N
      /\ Pipeline(S) /\ Pipeline(R) /\ Len(R) = N
  BY DEF Returned, Pipeline
<1>2. /\ Stream(T, O) /\ Len(T) = N
      /\ \A j \in 1 .. N : T[j] = SlotTokens(S[j], r) /\ O[j] = SlotOutputs(S[j], r)
      /\ \A j \in 1 .. N : T[j] > 0 <=> r \in BatchIds(S[j])
  BY <1>1, PipelineStream
<1>3. /\ Stream(U, P) /\ Len(U) = N /\ Len(P) = N
      /\ \A j \in 1 .. N : U[j] = SlotTokens(R[j], r) /\ P[j] = SlotOutputs(R[j], r)
  BY <1>1, PipelineStream
<1> DEFINE A == ExpectedOf(S, r, d)
           B == ExpectedOf(R, r, c)
<1>4. A = AwaitedOf(T, O, d) /\ B = AwaitedOf(U, P, c)
  BY DEF ExpectedOf
<1>5. PendingOf(R, r, c) = Total(B) /\ PendingOf(S, r, d) = Total(A) /\ a = A[1]
  BY DEF PendingOf
<1>6. /\ \A out : FollowsOf(S, r, d, out) <=>
                    \A j \in 1 .. N : A[j] > 0 => EntryOf(S[j], r).pos = out + Sums(A)[j - 1]
      /\ \A out : FollowsOf(R, r, c, out) <=>
                    \A j \in 1 .. N : B[j] > 0 => EntryOf(R[j], r).pos = out + Sums(B)[j - 1]
  BY <1>1 DEF FollowsOf
<1>7. /\ f = Total(T) /\ \E j \in 0 .. N : s = Sums(T)[j]
      /\ \A g, t : BalancedOf(R, r, g, t) <=> g = Total(U) /\ \E j \in 0 .. N : t = Sums(U)[j]
  BY <1>1 DEF BalancedOf
<1>8. \A j \in 1 .. N : A[j] > 0 => r \in BatchIds(S[j])
  <2> SUFFICES ASSUME d \in Int, NEW j \in 1 .. N PROVE A[j] > 0 => r \in BatchIds(S[j])
    <3>1. T \in Seq(Nat)
      BY <1>2, StreamIs
    <3>2. \A j \in 0 .. N : Sums(T)[j] \in Nat
      BY <1>2, <3>1, TotalIs
    <3>3. s \in Int
      BY <1>7, <3>2
    <3> QED
      BY <3>3
  <2> QED
    BY <1>1, ExpectedIs
<1> HIDE DEF T, O, U, P, A, B, N
<1>9. /\ T \in Seq(Nat) /\ U \in Seq(Nat) /\ P \in Seq(Nat)
      /\ \A j \in 1 .. N : T[j] \in Nat /\ O[j] \in Nat
  BY <1>2, <1>3, StreamIs
<1>10. /\ Total(T) \in Nat /\ Sums(T)[0] = 0 /\ \A j \in 0 .. N : Sums(T)[j] \in Nat /\ Sums(T)[j] <= Total(T)
       /\ \A j \in 1 .. N : Sums(T)[j] = Sums(T)[j - 1] + T[j] /\ T[j] <= Total(T)
       /\ \A i \in 0 .. N, j \in 0 .. N : i <= j => Sums(T)[i] <= Sums(T)[j]
  BY <1>2, <1>9, TotalIs, SumsGrow
<1>11. n = T[1] /\ n \in Nat /\ n > 0 /\ U[1] = 0
  <2>1. r \in BatchIds(S[1]) /\ r \notin BatchIds(R[1])
    BY DEF Returned
  <2>2. SlotTokens(R[1], r) = 0
    BY <2>1, SlotOfOther
  <2> QED
    BY <1>1, <1>2, <1>3, <1>9, <2>1, <2>2
<1>12. PICK i \in 0 .. N : s = Sums(T)[i]
  BY <1>7
<1>13. s \in Nat /\ s <= f /\ f \in Nat /\ n <= f
  BY <1>1, <1>10, <1>11, <1>12, <1>7
<1>14. s > 0 => i \in 1 .. N /\ s >= n
  <2> SUFFICES ASSUME s > 0 PROVE i \in 1 .. N /\ s >= n
    OBVIOUS
  <2>1. i \in 1 .. N
    BY <1>1, <1>10, <1>12
  <2>2. Sums(T)[1] = n
    <3>1. Sums(T)[1] = Sums(T)[1 - 1] + T[1]
      BY <1>1, <1>10
    <3>2. 1 - 1 = 0
      OBVIOUS
    <3> QED
      BY <1>10, <1>11, <3>1, <3>2
  <2>3. Sums(T)[1] <= Sums(T)[i]
    <3>1. 1 \in 0 .. N /\ 1 <= i
      BY <1>1, <2>1
    <3> QED
      BY <1>10, <3>1
  <2> QED
    BY <1>12, <2>1, <2>2, <2>3
<1>15. d \in Nat /\ (d = 0 \/ d >= T[1]) /\ c = (IF d > 0 THEN d - T[1] ELSE 0)
  BY <1>11, <1>13, <1>14
<1>16. c \in Nat
  BY <1>11, <1>15
<1>17. P[1] = 0 /\ \A j \in 2 .. N : U[j] = T[j] /\ P[j] = O[j]
  <2>1. P[1] = 0
    <3>1. r \notin BatchIds(R[1])
      BY DEF Returned
    <3> QED
      BY <1>1, <1>3, <3>1, SlotOfOther
  <2>2. ASSUME NEW j \in 2 .. N PROVE U[j] = T[j] /\ P[j] = O[j]
    <3>1. SlotTokens(R[j], r) = SlotTokens(S[j], r) /\ SlotOutputs(R[j], r) = SlotOutputs(S[j], r)
      BY DEF Returned, N
    <3>2. j \in 1 .. N
      BY <1>1
    <3> QED
      BY <1>2, <1>3, <3>1, <3>2
  <2> QED
    BY <2>1, <2>2
<1>18. Drained(T, O, d, c, U, P)
  BY <1>2, <1>3, <1>9, <1>11, <1>15, <1>17 DEF Drained
<1>19. /\ \A j \in 1 .. N : Sums(U)[j] = Sums(T)[j] - n
       /\ Total(U) = Total(T) - n
       /\ B[1] = 0
       /\ A[1] = IF d > 0 THEN 0 ELSE O[1]
       /\ \A j \in 2 .. N : B[j] = A[j]
       /\ \A j \in 1 .. N : Sums(B)[j] = Sums(A)[j] - A[1]
       /\ Total(B) = Total(A) - A[1]
  BY <1>2, <1>4, <1>11, <1>18, AwaitedDrain
<1>20. /\ A \in Seq(Nat) /\ Len(A) = N
       /\ Total(A) \in Nat /\ A[1] \in Nat /\ A[1] <= Total(A)
       /\ \A j \in 0 .. N : Sums(A)[j] \in Nat
  <2>1. A \in Seq(Nat) /\ Len(A) = N
    BY <1>2, <1>4, <1>15, AwaitedIs
  <2>2. A[1] \in Nat
    BY <1>1, <2>1
  <2> QED
    BY <1>1, <2>1, <2>2, TotalIs
<1>21. BalancedOf(R, r, f - n, StaleAfter(s, n))
  <2>1. f - n = Total(U)
    BY <1>19, <1>7
  <2>2. CASE s > 0
    <3>1. Sums(U)[i] = s - n /\ i \in 0 .. N
      BY <1>12, <1>14, <1>19, <2>2
    <3> QED
      BY <1>7, <2>1, <2>2, <3>1
  <2>3. CASE s = 0
    <3>1. Sums(U)[0] = 0 /\ 0 \in 0 .. N
      BY <1>1, <1>3, <1>9, TotalIs
    <3> QED
      BY <1>7, <2>1, <2>3, <3>1
  <2> QED
    BY <1>13, <2>2, <2>3
<1>22. ASSUME NEW out \in Int, NEW out2 \in Int, FollowsOf(S, r, d, out), out2 = out + a - x
       PROVE  FollowsOf(R, r, c, out2)
  <2>1. ASSUME NEW j \in 1 .. N, B[j] > 0 PROVE EntryOf(R[j], r).pos = out2 + Sums(B)[j - 1]
    <3>1. j \in 2 .. N /\ j - 1 \in 1 .. N /\ j - 1 \in 0 .. N
      BY <1>1, <1>19, <2>1
    <3>2. A[j] > 0
      BY <1>19, <2>1, <3>1
    <3>3. EntryOf(S[j], r).pos = out + Sums(A)[j - 1]
      BY <1>22, <1>6, <3>2
    <3>4. EntryOf(R[j], r).pos = EntryOf(S[j], r).pos - x
      <4>1. r \in BatchIds(S[j])
        BY <1>8, <3>2
      <4> QED
        BY <3>1, <4>1 DEF Returned, N
    <3>5. Sums(B)[j - 1] = Sums(A)[j - 1] - A[1] /\ Sums(A)[j - 1] \in Nat
      BY <1>19, <1>20, <3>1
    <3>6. PICK z \in Nat : z = Sums(A)[j - 1]
      BY <3>5
    <3>7. EntryOf(R[j], r).pos = (out + z) - x /\ Sums(B)[j - 1] = z - a /\ a \in Nat
      BY <1>20, <1>5, <3>3, <3>4, <3>5, <3>6
    <3> QED
      BY <1>22, <3>7
  <2> QED
    BY <1>6, <2>1
<1>23. a \in Nat /\ a <= Total(A) /\ Total(A) \in Nat /\ a = IF d > 0 THEN 0 ELSE SlotOutputs(S[1], r)
  BY <1>1, <1>2, <1>19, <1>20, <1>5
<1> QED
  BY <1>11, <1>13, <1>14, <1>15, <1>16, <1>19, <1>21, <1>22, <1>23, <1>5

-------------------------------------------------------------------------------
(* The books in a state and in the next.                                    *)

SlotsOf(S, todo, dispatched) ==
    S = [j \in 1 .. Len(dispatched) + 1 |-> IF j = 1 THEN todo ELSE dispatched[j - 1].batch]

LEMMA SlotsShape ==
  ASSUME NEW todo \in Seq(BatchEntry), NEW dispatched \in Seq(DispatchedStep),
         NEW S, SlotsOf(S, todo, dispatched)
  PROVE  /\ S \in Seq(Seq(BatchEntry)) /\ Len(S) \in Nat /\ Len(S) > 0
         /\ Len(S) = Len(dispatched) + 1 /\ DOMAIN S = 1 .. Len(dispatched) + 1 /\ S[1] = todo
         /\ \A j \in 1 .. Len(dispatched) : S[j + 1] = dispatched[j].batch
         /\ (\A j \in DOMAIN S : WellFormed(S[j])) => Pipeline(S)
<1> DEFINE n == Len(dispatched)
<1>1. n \in Nat /\ \A j \in 1 .. n : dispatched[j] \in DispatchedStep
  OBVIOUS
<1>2. \A j \in 1 .. n : dispatched[j].batch \in Seq(BatchEntry)
  BY <1>1 DEF DispatchedStep
<1> HIDE DEF n
<1>3. S = [j \in 1 .. n + 1 |-> IF j = 1 THEN todo ELSE dispatched[j - 1].batch]
  BY DEF n, SlotsOf
<1>4. \A j \in 1 .. n + 1 : j = 1 \/ (j # 1 /\ j - 1 \in 1 .. n)
  BY <1>1
<1>5. \A j \in 1 .. n + 1 : S[j] \in Seq(BatchEntry)
  BY <1>2, <1>3, <1>4
<1>6. S \in [1 .. n + 1 -> Seq(BatchEntry)]
  BY <1>3, <1>5
<1>7. S \in Seq(Seq(BatchEntry)) /\ Len(S) = n + 1 /\ DOMAIN S = 1 .. n + 1
  BY <1>1, <1>6
<1>8. S[1] = todo
  BY <1>1, <1>3
<1>9. ASSUME NEW j \in 1 .. n PROVE S[j + 1] = dispatched[j].batch
  <2>1. j + 1 \in 1 .. n + 1 /\ j + 1 # 1 /\ (j + 1) - 1 = j
    BY <1>1
  <2> QED
    BY <1>3, <2>1
<1>10. (\A j \in DOMAIN S : WellFormed(S[j])) => Pipeline(S)
  BY <1>1, <1>5, <1>7 DEF Pipeline, StepOf
<1> QED
  BY <1>1, <1>7, <1>8, <1>9, <1>10 DEF n

LEMMA SlotsAre ==
  ASSUME Shapes, SlotsInv
  PROVE  /\ Pipeline(Slots) /\ Slots \in Seq(Seq(BatchEntry))
         /\ Len(Slots) = Len(inflight) + 1 /\ DOMAIN Slots = 1 .. Len(inflight) + 1
         /\ Len(inflight) \in Nat /\ Slots[1] = step.todo
         /\ \A j \in 1 .. Len(inflight) : Slots[j + 1] = inflight[j].batch
<1>1. step.todo \in Seq(BatchEntry) /\ inflight \in Seq(DispatchedStep)
  BY LocalsTypes DEF Shapes
<1>2. SlotsOf(Slots, step.todo, inflight)
  BY DEF Slots, SlotsOf
<1>3. \A j \in DOMAIN Slots : WellFormed(Slots[j])
  BY DEF SlotsInv
<1> QED
  BY <1>1, <1>2, <1>3, SlotsShape

LEMMA SlotsBecome ==
  ASSUME Shapes'
  PROVE  /\ Slots' \in Seq(Seq(BatchEntry)) /\ Len(Slots') \in Nat /\ Len(Slots') > 0
         /\ Len(Slots') = Len(inflight') + 1 /\ DOMAIN Slots' = 1 .. Len(inflight') + 1
         /\ Slots'[1] = step'.todo
         /\ \A j \in 1 .. Len(inflight') : Slots'[j + 1] = inflight'[j].batch
         /\ (\A j \in DOMAIN Slots' : WellFormed(Slots'[j])) => Pipeline(Slots')
<1>1. step'.todo \in Seq(BatchEntry) /\ inflight' \in Seq(DispatchedStep)
  <2>1. step' \in HandlerLocals /\ inflight' \in Seq(DispatchedStep)
    BY DEF Shapes
  <2> QED
    BY <2>1, LocalsTypes
<1>2. SlotsOf(Slots', step'.todo, inflight')
  BY DEF Slots, SlotsOf
<1> QED
  BY <1>1, <1>2, SlotsShape

BooksKept(r) ==
    /\ Balanced(r) => Balanced(r)'
    /\ Pending(r)' = Pending(r)
    /\ Follows(r) => Follows(r)'

LEMMA QuietBooks ==
  ASSUME NEW r, Slots' = Slots, SamePipeline(req'[r], req[r]), req'[r].output = req[r].output
  PROVE  BooksKept(r)
<1>1. Dropped(r)' = Dropped(r)
  BY DEF SamePipeline, Dropped
<1> QED
  BY <1>1, BooksAre, BooksBecome DEF BooksKept, SamePipeline

(* A request none of whose accounts changes, its drafts excepted.           *)
LEMMA AccountKept ==
  ASSUME NEW r \in Requests, Account(r), BooksKept(r),
         req'[r].status = req[r].status, SameTokens(req'[r], req[r]),
         SamePipeline(req'[r], req[r]), SameComputed(req'[r], req[r]),
         r \in Unfinished => req'[r].spec \in 0 .. NumSpecTokens,
         req[r].status = "NEW" => req'[r].spec = req[r].spec,
         r \in requests' <=> r \in requests,
         r \in recv' => r \in recv \/ (r \in Unfinished /\ req[r].status = "WAITING_FOR_REMOTE_KVS"),
         r \in failed' => r \in failed,
         r \in BatchIds(step.batch) => r \in BatchIds(step'.batch)
  PROVE  Account(r)'
<1>1. r \in Unfinished' <=> r \in Unfinished
  BY DEF Unfinished
<1>2. Unstarted(req'[r]) /\ req'[r].prompt = PromptTokens[r]
  BY DEF Account, Unstarted, SameTokens, SamePipeline, SameComputed
<1>3. r \notin requests' => req'[r].status \in {"NEW", "FINISHED"}
  BY DEF Account
<1>4. r \in requests' => Balanced(r)'
  BY DEF Account, BooksKept
<1>5. r \in recv' \cup failed' => r \in Unfinished' /\ req'[r].status = "WAITING_FOR_REMOTE_KVS"
  BY <1>1 DEF Account
<1>6. ASSUME r \in Unfinished
      PROVE  Bounded(req'[r]) /\ Follows(r)' /\ IF req'[r].status = "RUNNING" THEN Runs(r)' ELSE Waits(r)'
  <2>1. Bounded(req[r]) /\ Follows(r) /\ IF req[r].status = "RUNNING" THEN Runs(r) ELSE Waits(r)
    BY <1>6 DEF Account
  <2>2. Bounded(req'[r])
    BY <1>6, <2>1 DEF Bounded, SameTokens, SameComputed
  <2>3. Follows(r)'
    BY <2>1 DEF BooksKept
  <2>4. Runs(r) => Runs(r)'
    BY DEF Runs, Decodes, BooksKept, SameTokens, SameComputed, SamePipeline
  <2>5. Waits(r) => Waits(r)'
    BY DEF Waits, SameTokens, SameComputed, SamePipeline
  <2> QED
    BY <2>1, <2>2, <2>3, <2>4, <2>5
<1> QED
  BY <1>1, <1>2, <1>3, <1>4, <1>5, <1>6 DEF Account

(* A request that has finished.                                             *)
LEMMA AccountGone ==
  ASSUME NEW r \in Requests, Account(r), req'[r].status = "FINISHED",
         req'[r].prompt = req[r].prompt, r \notin recv' \cup failed',
         r \in requests' => Balanced(r)'
  PROVE  Account(r)'
BY DEF Account, Unstarted, Unfinished

(* What schedule() has promised is still so.                                *)
LEMMA BatchKept ==
  ASSUME BatchInv, step'.batch = step.batch, step'.threshold = step.threshold,
         step.batch # <<>> => Scheduling',
         \A r \in BatchIds(step.batch) :
            /\ r \in Unfinished => r \in Unfinished'
            /\ req'[r].status = req[r].status /\ SameTokens(req'[r], req[r])
            /\ req'[r].computed = req[r].computed /\ req'[r].placeholders = req[r].placeholders
            /\ Pending(r)' = Pending(r),
         step'.phase = "running" =>
            /\ step.phase = "running"
            /\ \A p \in 1 .. step.idx - 1 :
                p <= Len(running) /\ running[p] \in BatchIds(step.batch) =>
                    p \in 1 .. step'.idx - 1 /\ p <= Len(running') /\ running'[p] = running[p]
  PROVE  BatchInv'
<1>1. ASSUME NEW i \in DOMAIN step.batch PROVE Promised(step.batch[i])'
  <2>1. PICK e : e = step.batch[i]
    OBVIOUS
  <2>2. e.r \in BatchIds(step.batch)
    BY <2>1 DEF BatchIds
  <2>3. Promised(e)
    BY <2>1 DEF BatchInv
  <2>4. /\ e.r \in Unfinished' /\ req'[e.r].status = "RUNNING"
        /\ req'[e.r].computed = req[e.r].computed /\ req'[e.r].all = req[e.r].all
        /\ req'[e.r].placeholders = req[e.r].placeholders /\ req'[e.r].output = req[e.r].output
        /\ Pending(e.r)' = Pending(e.r)
    BY <2>2, <2>3 DEF Promised, SameTokens
  <2>5. step'.phase = "running" => \E p \in 1 .. step'.idx - 1 : p <= Len(running') /\ running'[p] = e.r
    BY <2>2, <2>3 DEF Promised
  <2>6. step'.batch[i] = e
    BY <2>1
  <2>7. Promised(e)'
    BY <2>3, <2>4, <2>5 DEF Promised
  <2> QED
    BY <2>1, <2>6, <2>7
<1>2. (\A i \in DOMAIN step.batch : Promised(step.batch[i]))'
  BY <1>1
<1>3. WellFormed(step'.batch)
  BY DEF BatchInv
<1>4. step'.threshold \in {0, LongPrefillTokenThreshold} /\ (step'.batch # <<>> => Scheduling')
  BY DEF BatchInv
<1> QED
  BY <1>2, <1>3, <1>4 DEF BatchInv

LEMMA BatchNone ==
  ASSUME step'.batch = <<>>, step'.threshold \in {0, LongPrefillTokenThreshold}
  PROVE  BatchInv'
BY DEF BatchInv, WellFormed

(* Whoever is to finish with an error waits for its load, or is done.       *)
LEMMA ErrorsNone ==
  ASSUME step'.errors = {}
  PROVE  ErrorsKnown'
BY DEF ErrorsKnown

LEMMA ErrorsKept ==
  ASSUME ErrorsKnown, step'.errors \subseteq step.errors,
         step'.errors = {} \/ step'.phase \in {"update", "transfers"},
         \A r \in Requests : req'[r].status = req[r].status \/ req'[r].status = "FINISHED"
  PROVE  ErrorsKnown'
BY DEF ErrorsKnown

LEMMA SlotsStay ==
  ASSUME Shapes, SlotsInv, inflight' = inflight, step'.todo = step.todo,
         \A r \in Requests : req[r].status # "NEW" => req'[r].status # "NEW",
         step'.todo # <<>> => step'.phase = "update",
         ErrorsKnown',
         Scheduling' => Len(inflight) < MaxConcurrentBatches
  PROVE  SlotsInv' /\ Slots' = Slots
<1>1. Slots' = Slots
  BY DEF Slots
<1>2. /\ DOMAIN Slots = 1 .. Len(inflight) + 1 /\ Slots \in Seq(Seq(BatchEntry))
  BY SlotsAre
<1>3. ASSUME NEW j \in DOMAIN Slots, NEW r \in BatchIds(Slots[j])
      PROVE  req'[r].status # "NEW"
  <2>1. Slots[j] \in Seq(BatchEntry)
    BY <1>2
  <2>2. r \in Requests
    BY <2>1, BatchIdsType
  <2> QED
    BY <2>2 DEF SlotsInv
<1>4. ASSUME NEW j \in DOMAIN Slots'
      PROVE  WellFormed(Slots'[j]) /\ \A r \in BatchIds(Slots'[j]) : req'[r].status # "NEW"
  BY <1>1, <1>3 DEF SlotsInv
<1>5. Len(inflight') <= MaxConcurrentBatches
  BY DEF SlotsInv
<1>6. SlotsInv'
  BY <1>4, <1>5 DEF SlotsInv
<1> QED
  BY <1>1, <1>6
Untouched(r) ==
    /\ req'[r] = req[r]
    /\ r \in requests' <=> r \in requests
    /\ r \in recv' <=> r \in recv
    /\ r \in failed' <=> r \in failed
    /\ r \in BatchIds(step.batch) => r \in BatchIds(step'.batch)

(* A request the step has nothing to do with.                               *)
LEMMA UntouchedKept ==
  ASSUME NEW r \in Requests, Account(r), Slots' = Slots, Untouched(r)
  PROVE  Account(r)'
<1>1. BooksKept(r)
  BY QuietBooks DEF Untouched, SamePipeline
<1>2. r \in Unfinished => req'[r].spec \in 0 .. NumSpecTokens
  BY DEF Account, Bounded, Untouched
<1> QED
  BY <1>1, <1>2, AccountKept DEF Untouched, SameTokens, SamePipeline, SameComputed

(* The step that schedule() fills stays as it is, or there is none.         *)
SameStep ==
    \/ step.batch = <<>> /\ step'.batch = <<>> /\ step'.threshold \in {0, LongPrefillTokenThreshold}
    \/ /\ step'.batch = step.batch /\ step'.threshold = step.threshold
       /\ Scheduling'
       /\ step'.phase = "running" => step.phase = "running" /\ running' = running /\ step'.idx >= step.idx

SameWork ==
    /\ inflight' = inflight /\ step'.todo = step.todo
    /\ step'.todo # <<>> => step'.phase = "update"
    /\ ErrorsKnown'
    /\ Scheduling' => Len(inflight) < MaxConcurrentBatches

(* A step that changes no request.                                          *)
LEMMA QuietAccounts ==
  ASSUME Shapes, Shapes', AccountsInv, req' = req, SameWork, SameStep,
         requests' \subseteq requests, Unfinished \subseteq requests',
         \A r \in Requests : r \in recv' => r \in recv \/ (r \in Unfinished /\ req[r].status = "WAITING_FOR_REMOTE_KVS"),
         failed' = failed
  PROVE  AccountsInv'
<1> USE DEF SameWork
<1>1. SlotsInv /\ BatchInv /\ \A r \in Requests : Account(r)
  BY DEF AccountsInv
<1>2. SlotsInv' /\ Slots' = Slots
  BY <1>1, SlotsStay
<1>3. BatchIds(step'.batch) = BatchIds(step.batch)
  BY DEF SameStep
<1>4. ASSUME NEW r \in Requests PROVE BooksKept(r)
  BY <1>2, QuietBooks DEF SamePipeline
<1>5. BatchInv'
  <2>1. CASE step'.batch = <<>> /\ step'.threshold \in {0, LongPrefillTokenThreshold}
    BY <2>1, BatchNone
  <2>2. CASE /\ step'.batch = step.batch /\ step'.threshold = step.threshold
             /\ Scheduling'
             /\ step'.phase = "running" => step.phase = "running" /\ running' = running /\ step'.idx >= step.idx
    <3>1. BatchIds(step.batch) \subseteq Requests
      <4>1. step.batch \in Seq(BatchEntry)
        BY LocalsTypes DEF Shapes
      <4> QED
        BY <4>1, BatchIdsType
    <3>2. ASSUME NEW r \in BatchIds(step.batch)
          PROVE  /\ r \in Unfinished => r \in Unfinished'
                 /\ req'[r].status = req[r].status /\ SameTokens(req'[r], req[r])
                 /\ req'[r].computed = req[r].computed /\ req'[r].placeholders = req[r].placeholders
                 /\ Pending(r)' = Pending(r)
      <4>1. r \in Requests
        BY <3>1
      <4>2. Pending(r)' = Pending(r)
        BY <1>4, <4>1 DEF BooksKept
      <4>3. r \in Unfinished => r \in Unfinished'
        BY DEF Unfinished
      <4> QED
        BY <4>2, <4>3 DEF SameTokens
    <3>3. step.idx \in Nat /\ step'.idx \in Nat
      <4>1. step \in HandlerLocals /\ step' \in HandlerLocals
        BY DEF Shapes
      <4> QED
        BY <4>1, LocalsTypes
    <3>4. step'.phase = "running" =>
            /\ step.phase = "running"
            /\ \A p \in 1 .. step.idx - 1 :
                p <= Len(running) /\ running[p] \in BatchIds(step.batch) =>
                    p \in 1 .. step'.idx - 1 /\ p <= Len(running') /\ running'[p] = running[p]
      BY <2>2, <3>3
    <3> QED
      BY <1>1, <2>2, <3>2, <3>4, BatchKept
  <2> QED
    BY <2>1, <2>2 DEF SameStep
<1>6. ASSUME NEW r \in Requests PROVE Account(r)'
  <2>1. Account(r) /\ BooksKept(r)
    BY <1>1, <1>4
  <2>2. CASE r \in requests' <=> r \in requests
    <3>1. r \in Unfinished => req'[r].spec \in 0 .. NumSpecTokens
      BY <2>1 DEF Account, Bounded
    <3> QED
      BY <1>3, <2>1, <2>2, <3>1, AccountKept DEF SameTokens, SamePipeline, SameComputed
  <2>3. CASE r \in requests /\ r \notin requests'
    <3>1. req[r].status = "FINISHED" /\ r \notin Unfinished
      BY <2>3 DEF Unfinished
    <3>2. r \notin recv' \cup failed'
      BY <2>1, <3>1 DEF Account
    <3> QED
      BY <2>1, <2>3, <3>1, <3>2, AccountGone
  <2> QED
    BY <2>2, <2>3
<1> QED
  BY <1>2, <1>5, <1>6 DEF AccountsInv

LEMMA IdleAccounts ==
  /\ Idle.batch = <<>> /\ Idle.threshold = 0 /\ Idle.budget = 0 /\ Idle.idx = 1
  /\ Idle.ran = FALSE /\ Idle.prefill = FALSE /\ Idle \in HandlerLocals
BY IdleType DEF Idle

(* Between the handlers, and within them, only what belongs to the handler. *)
LEMMA HandlerIs ==
  ASSUME AccountsInv
  PROVE  /\ step.phase \notin {"running", "waiting", "emit"} => step.batch = <<>>
         /\ step.phase # "update" => step.todo = <<>>
         /\ ErrorsKnown /\ (step.phase \notin {"update", "transfers"} => step.errors = {})
         /\ step.threshold \in {0, LongPrefillTokenThreshold}
         /\ Len(inflight) <= MaxConcurrentBatches
         /\ Scheduling => Len(inflight) < MaxConcurrentBatches
BY DEF AccountsInv, SlotsInv, ErrorsKnown, BatchInv, Scheduling

(* schedule() moves on from a request that it does not schedule.            *)
LEMMA ScheduleQuietAccounts ==
  ASSUME ShapesInv, ShapesInv', AccountsInv,
         \/ BeginSchedule \/ SkipRunning \/ EndRunning \/ SkipWaiting
         \/ EndWaiting \/ \E ext \in LoadableTokens \cup {0} : BreakWaiting(ext)
  PROVE  AccountsInv'
<1> USE DEF ShapesInv
<1>1. step \in HandlerLocals /\ step.idx \in Nat \ {0} /\ step.skipped \in Seq(Requests)
  BY LocalsTypes DEF Shapes
<1>2. UNCHANGED <<req, requests, recv, failed, inflight>>
  BY DEF BeginSchedule, SkipRunning, EndRunning, SkipWaiting, EndWaiting, BreakWaiting, xfer
<1>3. /\ {"running", "waiting", "emit"} \subseteq Phases /\ "emit" \in Phases /\ "running" \in Phases
      /\ "waiting" \in Phases
  BY DEF Phases
<1>4. CASE BeginSchedule
  <2>1. PICK h \in {0, LongPrefillTokenThreshold} :
            step' = WithBudget(Idle, "running", MaxNumScheduledTokens, h)
    BY <1>4 DEF BeginSchedule, WithBudget
  <2>2. h \in Int /\ MaxNumScheduledTokens \in Int
    BY Parameters
  <2>3. /\ step'.phase = "running" /\ step'.threshold = h /\ step'.batch = <<>> /\ step'.todo = <<>>
        /\ step'.errors = {}
    <3>1. /\ step'.phase = "running" /\ step'.threshold = h /\ step'.batch = Idle.batch
          /\ step'.todo = Idle.todo /\ step'.errors = Idle.errors
      BY <1>3, <2>1, <2>2, WithBudgetIs, IdleType
    <3> QED
      BY <3>1, IdleAccounts, IdleFields
  <2>4. step.batch = <<>> /\ step.todo = <<>> /\ Len(inflight) < MaxConcurrentBatches
    BY <1>4, HandlerIs DEF BeginSchedule
  <2> QED
    BY <1>2, <2>3, <2>4, ErrorsNone, QuietAccounts DEF SameWork, SameStep, Unfinished
<1>5. CASE ~BeginSchedule
  <2>1. /\ step'.batch = step.batch /\ step'.threshold = step.threshold /\ step'.todo = step.todo
        /\ step'.errors = step.errors /\ step'.received = step.received
        /\ step'.phase \in {"running", "waiting", "emit"} /\ step.phase \in {"running", "waiting"}
        /\ step'.phase = "running" => step.phase = "running" /\ running' = running /\ step'.idx >= step.idx
    <3>1. CASE SkipRunning
      <4>1. step' = WithIdx(step, step.idx + 1) /\ step.phase = "running" /\ UNCHANGED running
        BY <3>1 DEF SkipRunning, MoreRunning, WithIdx, queues
      <4>2. step.idx + 1 \in Nat \ {0} /\ step.idx + 1 >= step.idx
        BY <1>1
      <4> QED
        BY <1>1, <4>1, <4>2, WithIdxIs
    <3>2. CASE SkipWaiting
      <4>1. step' = WithSkipped(step, <<Candidate>> \o step.skipped) /\ step.phase = "waiting"
        BY <3>2 DEF SkipWaiting, MoreWaiting, WithSkipped
      <4>2. <<Candidate>> \o step.skipped \in Seq(Requests)
        BY <1>1, <3>2, CandidateType, QueueCons DEF SkipWaiting
      <4> QED
        BY <1>1, <4>1, <4>2, WithSkippedIs, ZenonT(60)
    <3>3. CASE EndRunning \/ EndWaiting \/ \E ext \in LoadableTokens \cup {0} : BreakWaiting(ext)
      <4>1. PICK p \in {"waiting", "emit"} : step' = WithPhase(step, p)
        BY <3>3 DEF EndRunning, EndWaiting, BreakWaiting, WithPhase
      <4>2. step.phase \in {"running", "waiting"}
        BY <3>3 DEF EndRunning, EndWaiting, BreakWaiting, MoreWaiting
      <4> QED
        BY <1>1, <1>3, <4>1, <4>2, WithPhaseIs
    <3> QED
      BY <1>5, <3>1, <3>2, <3>3
  <2>2. step.todo = <<>> /\ step.errors = {} /\ Len(inflight) < MaxConcurrentBatches
    BY <2>1, HandlerIs DEF Scheduling
  <2> QED
    BY <1>2, <2>1, <2>2, ErrorsNone, QuietAccounts DEF SameWork, SameStep, Scheduling, Unfinished
<1> QED
  BY <1>4, <1>5

(* The handlers that leave the counters alone.                              *)
LEMMA QuietHandlerAccounts ==
  ASSUME ShapesInv, ShapesInv', QueuesInv, AccountsInv,
         \/ BeginReset \/ EndReset \/ RemoveStopped
         \/ \E r \in Requests : LoadDone(r) \/ SendDone(r) \/ ReportReceived(r) \/ ReportSent(r)
         \/ UNCHANGED vars
  PROVE  AccountsInv'
<1> USE DEF ShapesInv
<1>1. step \in HandlerLocals /\ step.received \subseteq Requests
  BY LocalsTypes DEF Shapes
<1>2. CASE BeginReset \/ EndReset
  <2>1. UNCHANGED <<req, requests, recv, failed, inflight>> /\ step.phase \in {"idle", "reset"}
    BY <1>2 DEF BeginReset, EndReset, xfer
  <2>2. /\ step'.phase \in {"idle", "reset"} /\ step'.batch = <<>> /\ step'.todo = <<>>
        /\ step'.errors = {} /\ step'.threshold = 0
    <3>1. CASE BeginReset
      <4>1. step' = WithPhase(Idle, "reset") /\ "reset" \in Phases
        BY <3>1 DEF BeginReset, WithPhase, Phases
      <4> QED
        BY <4>1, WithPhaseIs, IdleAccounts, IdleFields
    <3>2. CASE EndReset
      BY <3>2, IdleAccounts, IdleFields DEF EndReset
    <3> QED
      BY <1>2, <3>1, <3>2
  <2>3. step.batch = <<>> /\ step.todo = <<>>
    BY <2>1, HandlerIs
  <2> QED
    BY <2>1, <2>2, <2>3, ErrorsNone, QuietAccounts DEF SameWork, SameStep, Scheduling, Unfinished
<1>3. CASE RemoveStopped
  <2>1. /\ UNCHANGED <<req, requests, recv, failed, inflight>> /\ step.phase = "update" /\ step.todo = <<>>
        /\ step' = WithPhase(step, "transfers") /\ "transfers" \in Phases
    BY <1>3 DEF RemoveStopped, WithPhase, Phases, xfer
  <2>2. /\ step'.phase = "transfers" /\ step'.batch = step.batch /\ step'.todo = step.todo
        /\ step'.threshold = step.threshold /\ step'.errors = step.errors /\ step'.received = step.received
    BY <1>1, <2>1, WithPhaseIs
  <2>3. step.batch = <<>> /\ ErrorsKnown' /\ step.threshold \in {0, LongPrefillTokenThreshold}
    BY <2>1, <2>2, HandlerIs, ErrorsKept
  <2> QED
    BY <2>1, <2>2, <2>3, QuietAccounts DEF SameWork, SameStep, Scheduling, Unfinished
<1>4. ASSUME NEW r \in Requests, LoadDone(r) \/ SendDone(r) PROVE AccountsInv'
  <2>1. UNCHANGED <<req, requests, recv, failed, inflight, step>> /\ step.phase = "idle"
    BY <1>4 DEF LoadDone, SendDone, xfer
  <2>2. step.batch = <<>> /\ step.todo = <<>> /\ step.errors = {} /\ step.threshold \in {0, LongPrefillTokenThreshold}
    BY <2>1, HandlerIs
  <2> QED
    BY <2>1, <2>2, ErrorsNone, QuietAccounts DEF SameWork, SameStep, Scheduling, Unfinished
<1>5. ASSUME NEW r \in Requests, ReportReceived(r) PROVE AccountsInv'
  <2>1. /\ UNCHANGED <<req, failed, inflight>> /\ step.phase = "transfers" /\ step.errors = {}
        /\ r \in step.received /\ step' = WithReceived(step, step.received \ {r})
    BY <1>5 DEF ReportReceived, WithReceived
  <2>2. /\ step'.phase = "transfers" /\ step'.batch = step.batch /\ step'.todo = step.todo
        /\ step'.threshold = step.threshold /\ step'.errors = step.errors
    BY <1>1, <2>1, WithReceivedIs
  <2>3. step.batch = <<>> /\ step.todo = <<>> /\ step.threshold \in {0, LongPrefillTokenThreshold}
    BY <2>1, HandlerIs
  <2>4. req[r].status \in {"WAITING_FOR_REMOTE_KVS", "FINISHED"}
    BY <2>1 DEF QueuesInv, QueuesPlaced
  <2>5. CASE req[r].status = "WAITING_FOR_REMOTE_KVS"
    <3>1. recv' = recv \cup {r} /\ requests' = requests
      BY <1>5, <2>5 DEF ReportReceived
    <3>2. r \in Unfinished
      <4>1. r \notin requests => req[r].status \in {"NEW", "FINISHED"}
        BY DEF AccountsInv, Account
      <4> QED
        BY <2>5, <4>1 DEF Unfinished
    <3> QED
      BY <2>1, <2>2, <2>3, <2>5, <3>1, <3>2, ErrorsNone, QuietAccounts DEF SameWork, SameStep, Scheduling, Unfinished
  <2>6. CASE req[r].status = "FINISHED"
    <3>1. recv' = recv /\ requests' = requests \ {r}
      BY <1>5, <2>6 DEF ReportReceived
    <3> QED
      BY <2>1, <2>2, <2>3, <2>6, <3>1, ErrorsNone, QuietAccounts DEF SameWork, SameStep, Scheduling, Unfinished
  <2> QED
    BY <2>4, <2>5, <2>6
<1>6. CASE UNCHANGED vars
  <2>1. UNCHANGED <<req, requests, running, recv, failed, inflight, step>>
    BY <1>6 DEF vars, queues, xfer
  <2>2. /\ step.batch # <<>> => Scheduling
        /\ step.todo # <<>> => step.phase = "update"
        /\ step.threshold \in {0, LongPrefillTokenThreshold} /\ ErrorsKnown
        /\ Scheduling => Len(inflight) < MaxConcurrentBatches
        /\ step.idx \in Nat
    BY <1>1, LocalsTypes DEF AccountsInv, SlotsInv, BatchInv
  <2>3. ErrorsKnown'
    BY <2>1, <2>2 DEF ErrorsKnown
  <2> QED
    BY <2>1, <2>2, <2>3, QuietAccounts DEF SameWork, SameStep, Scheduling, Unfinished
<1>7. ASSUME NEW r \in Requests, ReportSent(r) PROVE AccountsInv'
  <2>1. /\ UNCHANGED <<req, recv, failed, inflight, step>> /\ step.phase = "transfers" /\ step.errors = {}
        /\ requests' = requests \ {r} /\ send[r] = "sent"
    BY <1>7 DEF ReportSent, Sent
  <2>2. step.batch = <<>> /\ step.todo = <<>> /\ step.threshold \in {0, LongPrefillTokenThreshold}
    BY <2>1, HandlerIs
  <2>3. req[r].status = "FINISHED"
    BY <2>1 DEF QueuesInv, SendsInv
  <2> QED
    BY <2>1, <2>2, <2>3, ErrorsNone, QuietAccounts DEF SameWork, SameStep, Scheduling, Unfinished
<1> QED
  BY <1>2, <1>3, <1>4, <1>5, <1>6, <1>7

(* A request is aborted, or fails: its steps in flight are still counted.   *)
LEMMA FinishAccounts ==
  ASSUME ShapesInv, ShapesInv', AccountsInv, NEW r \in Requests, FinishRequest(r),
         step.phase \in {"idle", "transfers"}, step'.phase = step.phase, step'.batch = step.batch,
         step'.todo = step.todo, step'.threshold = step.threshold, step'.errors \subseteq step.errors
  PROVE  AccountsInv'
<1> USE DEF ShapesInv
<1>1. req \in [Requests -> RequestRecord] /\ "FINISHED" \in Status
  BY DEF Shapes, Status
<1>2. SlotsInv /\ \A s \in Requests : Account(s)
  BY DEF AccountsInv
<1>3. step.batch = <<>> /\ step.todo = <<>> /\ step.threshold \in {0, LongPrefillTokenThreshold}
  BY HandlerIs
<1>4. req' = [req EXCEPT ![r] = WithStatus(req[r], "FINISHED")] /\ inflight' = inflight
  BY DEF FinishRequest, FinishAndFree, WithStatus
<1>5. /\ req'[r].status = "FINISHED" /\ SamePipeline(req'[r], req[r]) /\ SameTokens(req'[r], req[r])
      /\ \A s \in Requests \ {r} : req'[s] = req[s]
  BY <1>1, <1>4, WithStatusIs
<1>6. SlotsInv' /\ Slots' = Slots
  <2>1. \A s \in Requests : req[s].status # "NEW" => req'[s].status # "NEW"
    BY <1>5
  <2>2. ErrorsKnown'
    BY <1>5, HandlerIs, ErrorsKept
  <2> QED
    BY <1>2, <1>3, <1>4, <2>1, <2>2, SlotsStay DEF Scheduling
<1>7. BatchInv'
  BY <1>3, BatchNone
<1>8. /\ \A s \in Requests \ {r} : s \in requests' <=> s \in requests
      /\ \A s \in Requests \ {r} : (s \in recv' <=> s \in recv) /\ (s \in failed' <=> s \in failed)
      /\ r \in requests /\ r \notin recv' /\ r \notin failed'
  <2>1. r \in recv \cup failed => req[r].status = "WAITING_FOR_REMOTE_KVS"
    BY <1>2 DEF Account
  <2> QED
    BY <2>1 DEF FinishRequest, FinishAndFree, FreeRequest
<1>9. ASSUME NEW s \in Requests \ {r} PROVE Account(s)'
  BY <1>2, <1>3, <1>5, <1>6, <1>8, UntouchedKept DEF Untouched
<1>10. Account(r)'
  <2>1. BooksKept(r)
    BY <1>5, <1>6, QuietBooks DEF SameTokens
  <2>2. Balanced(r)
    BY <1>2, <1>8 DEF Account
  <2> QED
    BY <1>2, <1>5, <1>8, <2>1, <2>2, AccountGone DEF BooksKept, SameTokens
<1> QED
  BY <1>6, <1>7, <1>9, <1>10 DEF AccountsInv

LEMMA FinishFailedAccounts ==
  ASSUME ShapesInv, ShapesInv', AccountsInv, NEW r \in Requests, FinishFailed(r)
  PROVE  AccountsInv'
<1> USE DEF ShapesInv
<1>1. step \in HandlerLocals /\ step.errors \ {r} \in SUBSET Requests
  BY LocalsTypes DEF Shapes
<1>2. step.phase = "transfers" /\ step' = WithErrors(step, step.errors \ {r})
  BY DEF FinishFailed, WithErrors
<1>3. /\ step'.phase = "transfers" /\ step'.batch = step.batch /\ step'.todo = step.todo
      /\ step'.threshold = step.threshold /\ step'.errors = step.errors \ {r}
      /\ step'.received = step.received
  BY <1>1, <1>2, WithErrorsIs
<1>4. /\ step.batch = <<>> /\ step.todo = <<>> /\ ErrorsKnown
      /\ step.threshold \in {0, LongPrefillTokenThreshold}
  BY <1>2, HandlerIs
<1>5. CASE r \in requests /\ req[r].status # "FINISHED"
  BY <1>2, <1>3, <1>4, <1>5, FinishAccounts DEF FinishFailed
<1>6. CASE ~(r \in requests /\ req[r].status # "FINISHED")
  <2>1. UNCHANGED <<req, requests, recv, failed, inflight>>
    BY <1>6 DEF FinishFailed, xfer
  <2>2. ErrorsKnown'
    BY <1>3, <1>4, <2>1, ErrorsKept
  <2> QED
    BY <1>3, <1>4, <2>1, <2>2, QuietAccounts DEF SameWork, SameStep, Scheduling, Unfinished
<1> QED
  BY <1>5, <1>6

LEMMA AbortAccounts ==
  ASSUME ShapesInv, ShapesInv', AccountsInv, NEW r \in Requests, Abort(r)
  PROVE  AccountsInv'
<1>1. FinishRequest(r) /\ step' = step /\ step.phase = "idle"
  BY DEF Abort
<1> QED
  BY <1>1, HandlerIs, FinishAccounts

(* A request with nothing in flight.                                        *)
LEMMA AbsentBooks ==
  ASSUME NEW S, Pipeline(S), NEW r, \A j \in DOMAIN S : r \notin BatchIds(S[j])
  PROVE  /\ BalancedOf(S, r, 0, 0)
         /\ \A d \in Int : PendingOf(S, r, d) = 0
         /\ \A d \in Int : \A out : FollowsOf(S, r, d, out)
<1>1. /\ Stream(TokensOf(S, r), OutputsOf(S, r)) /\ Len(TokensOf(S, r)) = Len(S)
      /\ DOMAIN S = 1 .. Len(S) /\ Len(S) \in Nat /\ Len(S) > 0
      /\ \A j \in 1 .. Len(S) : TokensOf(S, r)[j] = SlotTokens(S[j], r)
  BY PipelineStream
<1> DEFINE T == TokensOf(S, r)
<1>2. T \in Seq(Nat)
  BY <1>1, StreamIs
<1>3. \A j \in 1 .. Len(S) : T[j] = 0
  BY <1>1, SlotOfOther
<1>4. Len(T) = Len(S)
  BY <1>1
<1>5. \A f, s : BalancedOf(S, r, f, s) <=> f = Total(T) /\ \E j \in 0 .. Len(S) : s = Sums(T)[j]
  BY DEF BalancedOf
<1> HIDE DEF T
<1>6. Sums(T)[0] = 0 /\ Total(T) = 0
  BY <1>2, <1>3, <1>4, SumsZero, TotalIs
<1>7. BalancedOf(S, r, 0, 0)
  BY <1>1, <1>6, <1>5
<1>8. ASSUME NEW d \in Int PROVE PendingOf(S, r, d) = 0 /\ \A out : FollowsOf(S, r, d, out)
  <2> DEFINE A == ExpectedOf(S, r, d)
  <2>1. /\ A \in Seq(Nat) /\ Len(A) = Len(S) /\ PendingOf(S, r, d) = Total(A)
        /\ \A j \in 1 .. Len(S) : A[j] \in Nat /\ (A[j] > 0 => r \in BatchIds(S[j]))
    BY ExpectedIs DEF PendingOf
  <2>2. \A j \in 1 .. Len(S) : A[j] = 0
    BY <1>1, <2>1
  <2>3. \A out : FollowsOf(S, r, d, out)
    BY <1>1, <2>2 DEF FollowsOf
  <2> HIDE DEF A
  <2>4. Total(A) = 0
    BY <2>1, <2>2, SumsZero, TotalIs, SMTT(60)
  <2> QED
    BY <2>1, <2>3, <2>4
<1> QED
  BY <1>7, <1>8

LEMMA AddAccounts ==
  ASSUME ShapesInv, ShapesInv', AccountsInv, NEW r \in Requests, AddRequest(r)
  PROVE  AccountsInv'
<1> USE DEF ShapesInv
<1>1. req \in [Requests -> RequestRecord] /\ req[r] \in RequestRecord /\ "WAITING" \in Status
  BY DEF Shapes, Status
<1>2. SlotsInv /\ \A s \in Requests : Account(s)
  BY DEF AccountsInv
<1>3. /\ step.batch = <<>> /\ step.todo = <<>> /\ step.threshold \in {0, LongPrefillTokenThreshold}
      /\ step.errors = {} /\ step.phase = "idle"
  BY HandlerIs DEF AddRequest
<1>4. /\ req' = [req EXCEPT ![r] = WithStatus(req[r], "WAITING")] /\ req[r].status = "NEW"
      /\ requests' = requests \cup {r} /\ UNCHANGED <<recv, failed, inflight, step>>
  BY DEF AddRequest, WithStatus, xfer
<1>5. /\ req'[r].status = "WAITING" /\ SamePipeline(req'[r], req[r]) /\ SameTokens(req'[r], req[r])
      /\ SameComputed(req'[r], req[r]) /\ req'[r].spec = req[r].spec
      /\ \A s \in Requests \ {r} : req'[s] = req[s]
  BY <1>1, <1>4, WithStatusIs
<1>6. SlotsInv' /\ Slots' = Slots
  <2>1. \A s \in Requests : req[s].status # "NEW" => req'[s].status # "NEW"
    BY <1>5
  <2> QED
    BY <1>2, <1>3, <1>4, <2>1, ErrorsNone, SlotsStay DEF Scheduling
<1>7. BatchInv'
  BY <1>3, <1>4, BatchNone
<1>8. ASSUME NEW s \in Requests \ {r} PROVE Account(s)'
  BY <1>2, <1>4, <1>5, <1>6, UntouchedKept DEF Untouched
<1>9. Account(r)'
  <2>1. /\ req'[r].all = req'[r].prompt /\ req'[r].output = 0 /\ req'[r].computed = 0
        /\ req'[r].placeholders = 0 /\ req'[r].spec = 0 /\ req'[r].inFlight = 0 /\ req'[r].stale = 0
        /\ req'[r].prompt = PromptTokens[r] /\ r \notin recv' \cup failed'
    BY <1>2, <1>4, <1>5 DEF Account, Unstarted, SameTokens, SameComputed, SamePipeline
  <2>2. PromptTokens[r] \in 1 .. MaxModelLen - 1 /\ MaxModelLen \in Nat \ {0} /\ MaxTokens \in Nat \ {0} /\ NumSpecTokens \in Nat
    BY Parameters
  <2>3. Bounded(req'[r])
    BY <2>1, <2>2 DEF Bounded
  <2>4. /\ Balanced(r)' /\ Follows(r)'
    <3>1. Pipeline(Slots) /\ \A j \in DOMAIN Slots : r \notin BatchIds(Slots[j])
      BY <1>2, <1>4, SlotsAre DEF SlotsInv
    <3>2. BalancedOf(Slots, r, 0, 0) /\ \A d \in Int : \A out : FollowsOf(Slots, r, d, out)
      BY <3>1, AbsentBooks
    <3>3. Dropped(r)' = 0
      BY <2>1, BooksBecome
    <3> QED
      BY <1>6, <2>1, <3>2, <3>3, BooksBecome
  <2>5. Waits(r)'
    BY <2>1, <2>2 DEF Waits
  <2> QED
    BY <1>4, <1>5, <2>1, <2>3, <2>4, <2>5 DEF Account, Unstarted
<1> QED
  BY <1>6, <1>7, <1>8, <1>9 DEF AccountsInv

(* Only c changes, and it is not in the step that schedule() fills.         *)
LEMMA BatchAround ==
  ASSUME Shapes, BatchInv, Slots' = Slots, NEW c, c \notin BatchIds(step.batch),
         \A r \in Requests \ {c} : req'[r] = req[r] /\ (r \in requests => r \in requests'),
         step'.batch = step.batch, step'.threshold = step.threshold,
         step.batch # <<>> => Scheduling',
         step'.phase = "running" =>
            /\ step.phase = "running"
            /\ \A p \in 1 .. step.idx - 1 :
                p <= Len(running) /\ running[p] \in BatchIds(step.batch) =>
                    p \in 1 .. step'.idx - 1 /\ p <= Len(running') /\ running'[p] = running[p]
  PROVE  BatchInv'
<1>1. BatchIds(step.batch) \subseteq Requests
  <2>1. step.batch \in Seq(BatchEntry)
    BY LocalsTypes DEF Shapes
  <2> QED
    BY <2>1, BatchIdsType
<1>2. ASSUME NEW r \in BatchIds(step.batch)
      PROVE  /\ r \in Unfinished => r \in Unfinished'
             /\ req'[r].status = req[r].status /\ SameTokens(req'[r], req[r])
             /\ req'[r].computed = req[r].computed /\ req'[r].placeholders = req[r].placeholders
             /\ Pending(r)' = Pending(r)
  <2>1. r \in Requests \ {c} /\ req'[r] = req[r] /\ (r \in requests => r \in requests')
    BY <1>1
  <2>2. Pending(r)' = Pending(r)
    BY <2>1, QuietBooks DEF SamePipeline, BooksKept
  <2> QED
    BY <2>1, <2>2 DEF Unfinished, SameTokens
<1> QED
  BY <1>2, BatchKept

LEMMA FrontAt ==
  ASSUME NEW S, NEW s \in Seq(S), s # <<>>
  PROVE  /\ Len(Front(s)) = Len(s) - 1 /\ Len(s) \in Nat
         /\ \A p \in 1 .. Len(s) - 1 : Front(s)[p] = s[p]
         /\ IsInjective(s) => \A p \in 1 .. Len(s) : s[p] = Last(s) => p = Len(s)
<1>1. Len(s) \in Nat \ {0} /\ DOMAIN s = 1 .. Len(s)
  OBVIOUS
<1>2. Front(s) = [i \in 1 .. Len(s) - 1 |-> s[i]]
  BY <1>1 DEF Front
<1>3. Last(s) = s[Len(s)] /\ Len(s) \in DOMAIN s
  BY <1>1 DEF Last
<1>4. IsInjective(s) => \A p \in 1 .. Len(s) : s[p] = Last(s) => p = Len(s)
  BY <1>1, <1>3, ZenonT(60) DEF IsInjective
<1> QED
  BY <1>1, <1>2, <1>4, QueueFront, ZenonT(60)

(* A request that runs has the accounts of one.                             *)
LEMMA RunningIs ==
  ASSUME Shapes, QueuesInv, AccountsInv, NEW r \in ToSet(running), step.phase # "update"
  PROVE  /\ r \in Requests /\ r \in Unfinished /\ r \in requests /\ req[r].status = "RUNNING"
         /\ Account(r) /\ Runs(r) /\ Bounded(req[r]) /\ Balanced(r) /\ Follows(r)
         /\ req[r] \in RequestRecord
<1>1. r \in Requests /\ req[r] \in RequestRecord
  BY DEF Shapes, ToSet
<1>2. r \in Unfinished /\ req[r].status = "RUNNING" /\ r \in requests
  <2>1. r \in Unfinished
    BY DEF QueuesInv, QueuesPlaced, AllQueued, Leaving
  <2> QED
    BY <2>1 DEF QueuesInv, QueuesPlaced, Unfinished
<1>3. Account(r)
  BY <1>1 DEF AccountsInv
<1> QED
  BY <1>1, <1>2, <1>3 DEF Account

(* A preempted request: all that is in flight is stale, and is dropped, or  *)
(* waited for.                                                              *)
LEMMA PreemptedAccount ==
  ASSUME Shapes, QueuesInv, AccountsInv, NEW r \in ToSet(running), step.phase # "update",
         Slots' = Slots, NEW d \in BOOLEAN, req'[r] = PreemptedRequest(req[r], d),
         requests' = requests, recv' = recv, failed' = failed
  PROVE  Account(r)'
<1>1. /\ r \in Requests /\ r \in Unfinished /\ r \in requests /\ req[r].status = "RUNNING"
      /\ Account(r) /\ Runs(r) /\ Bounded(req[r]) /\ Balanced(r) /\ Follows(r) /\ req[r] \in RequestRecord
  BY RunningIs
<1>2. PICK q \in RequestRecord : q = req[r]
  BY <1>1
<1>3. PICK t : t = PreemptedRequest(q, d)
  OBVIOUS
<1>4. req'[r] = t
  BY <1>2, <1>3
<1>5. /\ t.status = "PREEMPTED" /\ t.spec = 0 /\ t.computed = 0 /\ t.placeholders = 0
      /\ t.inFlight = q.inFlight /\ t.stale = q.inFlight
      /\ t.drop \/ ~(q.drop /\ q.stale > 0)
      /\ SameTokens(t, q)
  BY <1>2, <1>3, PreemptedIs
<1>6. BalancedOf(Slots, r, q.inFlight, q.stale) /\ FollowsOf(Slots, r, Dropped(r), q.output)
  BY <1>1, <1>2, BooksAre
<1>7. Pipeline(Slots)
  BY SlotsAre DEF AccountsInv
<1>8. /\ q.inFlight \in Nat /\ q.stale \in Nat /\ BalancedOf(Slots, r, q.inFlight, q.inFlight)
      /\ \A out : FollowsOf(Slots, r, q.inFlight, out)
  BY <1>6, <1>7, NothingExpected
<1>9. t.output = q.output /\ t.all = q.all /\ t.prompt = q.prompt
  BY <1>5 DEF SameTokens
<1>10. Balanced(r)'
  BY <1>5, <1>8, <1>4, BooksBecome
<1>11. Follows(r)'
  <2>1. CASE t.drop
    BY <1>5, <1>8, <1>4, <2>1, BooksBecome
  <2>2. CASE ~t.drop
    <3>1. q.stale = 0
      <4>1. q.stale > 0 => q.drop
        BY <1>1, <1>2 DEF Runs
      <4> QED
        BY <1>5, <1>8, <2>2, <4>1
    <3>2. Dropped(r) = 0 /\ Dropped(r)' = 0
      BY <1>4, <1>2, <2>2, <3>1, BooksBecome DEF Dropped
    <3> QED
      BY <1>6, <1>9, <1>4, <3>2, BooksBecome
  <2> QED
    BY <2>1, <2>2
<1>12. Bounded(t)
  <2>1. /\ q.prompt > 0 /\ q.all = q.prompt + q.output /\ q.all < MaxModelLen
        /\ q.output \in 0 .. MaxTokens - 1
    BY <1>1, <1>2 DEF Bounded
  <2>2. 0 <= q.all + NumSpecTokens /\ q.all \in Int
    BY <2>1, Parameters, RequestTypes
  <2>3. 0 \in 0 .. MaxModelLen - 1 /\ 0 \in 0 .. NumSpecTokens
    BY Parameters
  <2> QED
    BY <1>5, <1>9, <2>1, <2>2, <2>3 DEF Bounded
<1>13. Waits(r)'
  <2>1. q.all \in Int /\ q.all > 0
    <3>1. q.prompt \in Int /\ q.prompt > 0 /\ q.all = q.prompt + q.output /\ q.output \in 0 .. MaxTokens - 1
      BY <1>1, <1>2, RequestTypes DEF Bounded
    <3> QED
      BY <3>1
  <2> QED
    BY <1>5, <1>9, <1>4, <2>1 DEF Waits
<1>14. r \notin recv \cup failed /\ q.prompt = PromptTokens[r]
  BY <1>1, <1>2 DEF Account
<1> QED
  BY <1>1, <1>5, <1>9, <1>10, <1>11, <1>12, <1>13, <1>14, <1>4 DEF Account, Unstarted

LEMMA PreemptAccounts ==
  ASSUME ShapesInv, ShapesInv', QueuesInv, AccountsInv, PreemptForBlocks \/ ResetPreempt
  PROVE  AccountsInv'
<1> USE DEF ShapesInv
<1>1. /\ running \in Seq(Requests) /\ step \in HandlerLocals /\ req \in [Requests -> RequestRecord]
  BY QueueTypes
<1>2. SlotsInv /\ BatchInv /\ \A s \in Requests : Account(s)
  BY DEF AccountsInv
<1>3. running # <<>> /\ step.phase \in {"running", "reset"}
  BY CurrentType DEF PreemptForBlocks, ResetPreempt, MoreRunning
<1>4. PICK r \in Requests : r = Last(running)
  BY <1>1, <1>3, QueueFront
<1>5. PICK d \in BOOLEAN :
        /\ req' = [req EXCEPT ![r] = PreemptedRequest(req[r], d)]
        /\ running' = Front(running) /\ UNCHANGED <<requests, recv, failed, inflight>>
  BY <1>4, Parameters DEF PreemptForBlocks, ResetPreempt, PreemptRequest, xfer
<1>6. r \in ToSet(running) /\ IsInjective(running)
  BY <1>1, <1>3, <1>4, QueueFront DEF QueuesInv, QueuesPlaced, QueuesApart
<1>7. /\ step'.batch = step.batch /\ step'.todo = step.todo /\ step'.threshold = step.threshold
      /\ step'.errors = step.errors /\ step'.received = step.received /\ step'.idx = step.idx
      /\ step.phase = "running" => step'.phase \in {"running", "emit"} /\ PreemptForBlocks
      /\ step.phase = "reset" => step'.phase = "reset"
  <2>1. CASE PreemptForBlocks
    <3>1. PICK p \in {"running", "emit"} : step' = WithPreempted(step, TRUE, p)
      BY <2>1 DEF PreemptForBlocks, WithPreempted
    <3>2. p \in Phases
      BY DEF Phases
    <3>3. step.phase = "running"
      BY <2>1 DEF PreemptForBlocks, MoreRunning
    <3> QED
      BY <1>1, <2>1, <3>1, <3>2, <3>3, WithPreemptedIs, ZenonT(60)
  <2>2. CASE ResetPreempt
    BY <2>2 DEF ResetPreempt
  <2> QED
    BY <2>1, <2>2
<1>8. /\ \A s \in Requests \ {r} : req'[s] = req[s]
      /\ req'[r] = PreemptedRequest(req[r], d)
      /\ req'[r].status = "PREEMPTED"
  BY <1>1, <1>5, PreemptedIs
<1>9. SlotsInv' /\ Slots' = Slots
  <2>1. \A s \in Requests : req[s].status # "NEW" => req'[s].status # "NEW"
    BY <1>8
  <2>2. step.todo = <<>> /\ step.errors = {} /\ (Scheduling => Len(inflight) < MaxConcurrentBatches)
    BY <1>3, HandlerIs
  <2> QED
    BY <1>2, <1>3, <1>5, <1>7, <2>1, <2>2, ErrorsNone, SlotsStay DEF Scheduling
<1>10. BatchInv'
  <2>1. CASE step.phase = "reset"
    BY <1>7, <2>1, HandlerIs, BatchNone
  <2>2. CASE step.phase = "running"
    <3>1. step.idx \in 1 .. Len(running) /\ Len(running) \in Nat /\ DOMAIN running = 1 .. Len(running)
      BY <1>1, <1>7, <2>2, CurrentType DEF PreemptForBlocks
    <3>2. ASSUME NEW p \in 1 .. step.idx - 1
          PROVE  running[p] # r /\ running'[p] = running[p] /\ p <= Len(running')
      <4>1. p \in 1 .. Len(running) - 1 /\ p \in 1 .. Len(running) /\ p # Len(running)
        <5>1. PICK n \in Nat : n = Len(running)
          BY <3>1, ZenonT(60)
        <5>2. PICK i \in 1 .. n : i = step.idx
          BY <3>1, <5>1
        <5>3. p \in 1 .. i - 1
          BY <5>2
        <5>4. p \in 1 .. n - 1 /\ p \in 1 .. n /\ p # n
          BY <5>3
        <5> QED
          BY <5>1, <5>4
      <4>2. running[p] # r
        BY <1>1, <1>3, <1>4, <1>6, <4>1, FrontAt
      <4>3. running'[p] = running[p] /\ Len(running') = Len(running) - 1
        BY <1>1, <1>3, <1>5, <4>1, FrontAt
      <4> QED
        BY <3>1, <4>1, <4>2, <4>3
    <3>3. r \notin BatchIds(step.batch)
      <4>1. ASSUME NEW i \in DOMAIN step.batch PROVE step.batch[i].r # r
        <5>1. Promised(step.batch[i])
          BY <1>2 DEF BatchInv
        <5>2. PICK p \in 1 .. step.idx - 1 : running[p] = step.batch[i].r
          BY <2>2, <5>1 DEF Promised
        <5> QED
          BY <3>2, <5>2
      <4> QED
        BY <4>1 DEF BatchIds
    <3>4. Scheduling'
      BY <1>7, <2>2 DEF Scheduling
    <3> QED
      BY <1>2, <1>5, <1>7, <1>8, <1>9, <2>2, <3>2, <3>3, <3>4, BatchAround
  <2> QED
    BY <1>3, <2>1, <2>2
<1>11. ASSUME NEW s \in Requests \ {r} PROVE Account(s)'
  BY <1>2, <1>5, <1>7, <1>8, <1>9, UntouchedKept DEF Untouched
<1>12. Account(r)'
  BY <1>3, <1>5, <1>6, <1>8, <1>9, PreemptedAccount
<1> QED
  BY <1>9, <1>10, <1>11, <1>12 DEF AccountsInv

(* A request of the waiting queues has the accounts of one that waits.      *)
LEMMA WaitingIs ==
  ASSUME Shapes, QueuesInv, AccountsInv, MoreWaiting
  PROVE  /\ Candidate \in Requests /\ Candidate \in Unfinished /\ Candidate \in requests
         /\ req[Candidate] \in RequestRecord
         /\ req[Candidate].status \in {"WAITING", "PREEMPTED"} \cup Blocked
         /\ Account(Candidate) /\ Waits(Candidate) /\ Candidate \notin BatchIds(step.batch)
         /\ step.phase = "waiting" /\ step.todo = <<>> /\ step.errors = {}
         /\ Len(inflight) < MaxConcurrentBatches
<1>1. PICK r : r = Candidate
  OBVIOUS
<1>2. r \in Requests /\ r \in Unfinished /\ req[r].status \in {"WAITING", "PREEMPTED"} \cup Blocked
  BY <1>1, CandidateIs
<1>3. Account(r) /\ r \in requests /\ req[r] \in RequestRecord
  BY <1>2 DEF AccountsInv, Shapes, Unfinished
<1>4. req[r].status # "RUNNING"
  BY <1>2 DEF Blocked
<1>5. Waits(r)
  BY <1>2, <1>3, <1>4 DEF Account
<1>6. r \notin BatchIds(step.batch)
  <2>1. ASSUME NEW i \in DOMAIN step.batch PROVE step.batch[i].r # r
    <3>1. Promised(step.batch[i])
      BY DEF AccountsInv, BatchInv
    <3> QED
      BY <1>4, <3>1 DEF Promised
  <2> QED
    BY <2>1 DEF BatchIds
<1>7. step.phase = "waiting"
  BY DEF MoreWaiting
<1> QED
  BY <1>1, <1>2, <1>3, <1>5, <1>6, <1>7, HandlerIs DEF Scheduling

(* A request that waits, and goes on waiting with n computed tokens.        *)
LEMMA WaitingAccount ==
  ASSUME Shapes, NEW r \in Requests, r \in Unfinished, Account(r), Waits(r), Slots' = Slots,
         NEW x \in {"WAITING", "PREEMPTED", "WAITING_FOR_REMOTE_KVS"}, NEW n \in Int,
         req'[r] = WithAdmission(req[r], x, n), 0 <= n, n <= req[r].all, requests' = requests,
         n < req[r].all \/ (x = "WAITING_FOR_REMOTE_KVS" /\ r \notin failed'),
         x = "PREEMPTED" \/ req[r].stale = 0 \/ req[r].drop,
         r \in recv' \cup failed' => x = "WAITING_FOR_REMOTE_KVS"
  PROVE  Account(r)'
<1>1. PICK q \in RequestRecord : q = req[r]
  BY DEF Shapes
<1>2. PICK t : t = req'[r]
  OBVIOUS
<1>3. x \in Status
  BY DEF Status, Blocked
<1>4. /\ t.status = x /\ t.spec = q.spec /\ t.computed = n /\ t.placeholders = q.placeholders
      /\ t.chunk = q.chunk /\ SameTokens(t, q) /\ SamePipeline(t, q)
  BY <1>1, <1>2, <1>3, WithAdmissionIs
<1>5. t.prompt = q.prompt /\ t.all = q.all /\ t.output = q.output /\ t.inFlight = q.inFlight
      /\ t.stale = q.stale /\ t.drop = q.drop
  BY <1>4 DEF SameTokens, SamePipeline
<1>6. BooksKept(r)
  BY <1>1, <1>2, <1>4, <1>5, QuietBooks
<1>7. Bounded(q) /\ Balanced(r) /\ Follows(r) /\ q.prompt = PromptTokens[r] /\ r \in requests
  BY <1>1 DEF Account, Unfinished
<1>8. q.all \in Int /\ q.all < MaxModelLen /\ n < MaxModelLen /\ MaxModelLen \in Nat /\ NumSpecTokens \in Nat
  BY <1>1, <1>7, Parameters, RequestTypes DEF Bounded
<1>9. Bounded(t)
  <2>1. n \in 0 .. MaxModelLen - 1 /\ n <= q.all + NumSpecTokens
    BY <1>1, <1>8
  <2> QED
    BY <1>4, <1>5, <1>7, <2>1 DEF Bounded
<1>10. Waits(r)'
  <2>1. q.stale = q.inFlight /\ q.placeholders = 0 /\ q.stale \in Int
    BY <1>1, RequestTypes DEF Waits
  <2>2. t.stale > 0 /\ ~t.drop => t.status = "PREEMPTED"
    BY <1>1, <1>4, <1>5, <2>1
  <2>3. (t.status = "WAITING_FOR_REMOTE_KVS" /\ r \notin failed') \/ t.computed < t.all
    BY <1>1, <1>4, <1>5
  <2>4. t.computed <= t.all
    BY <1>1, <1>4, <1>5
  <2> QED
    BY <1>2, <1>4, <1>5, <2>1, <2>2, <2>3, <2>4 DEF Waits
<1>11. t.status # "NEW" /\ t.status # "RUNNING" /\ t.status # "FINISHED"
  BY <1>4
<1>12. r \in Unfinished'
  BY <1>2, <1>7, <1>11 DEF Unfinished
<1> QED
  BY <1>2, <1>4, <1>5, <1>6, <1>7, <1>9, <1>10, <1>11, <1>12 DEF Account, Unstarted, BooksKept

(* A load is reported, or begins.                                           *)
LEMMA LoadAccounts ==
  ASSUME ShapesInv, ShapesInv', QueuesInv, AccountsInv,
         PromoteLoaded \/ \E ext \in LoadableTokens : AdmitLoad(ext)
  PROVE  AccountsInv'
<1> USE DEF ShapesInv
<1>1. step \in HandlerLocals /\ req \in [Requests -> RequestRecord] /\ step.skipped \in Seq(Requests)
  BY QueueTypes
<1>2. SlotsInv /\ BatchInv /\ \A s \in Requests : Account(s)
  BY DEF AccountsInv
<1>3. MoreWaiting
  BY DEF PromoteLoaded, AdmitLoad
<1>4. PICK r : r = Candidate
  OBVIOUS
<1>5. /\ r \in Requests /\ r \in Unfinished /\ r \in requests /\ Account(r) /\ Waits(r)
      /\ r \notin BatchIds(step.batch) /\ req[r].status \in {"WAITING", "PREEMPTED"} \cup Blocked
      /\ step.phase = "waiting" /\ step.todo = <<>> /\ step.errors = {}
      /\ Len(inflight) < MaxConcurrentBatches
  BY <1>3, <1>4, WaitingIs
<1>6. PICK q \in RequestRecord : q = req[r]
  BY <1>1, <1>5
<1>7. /\ step'.batch = step.batch /\ step'.todo = step.todo /\ step'.threshold = step.threshold
      /\ step'.errors = step.errors /\ step'.received = step.received /\ step'.phase = "waiting"
  <2>1. CASE PromoteLoaded
    BY <1>5, <2>1 DEF PromoteLoaded
  <2>2. CASE \E ext \in LoadableTokens : AdmitLoad(ext)
    <3>1. step' = WithSkipped(step, <<r>> \o step.skipped)
      BY <1>4, <2>2 DEF AdmitLoad, WithSkipped
    <3>2. <<r>> \o step.skipped \in Seq(Requests)
      BY <1>1, <1>5, QueueCons
    <3> QED
      BY <1>1, <1>5, <3>1, <3>2, WithSkippedIs, ZenonT(60)
  <2> QED
    BY <2>1, <2>2
<1>8. UNCHANGED <<requests, inflight>>
  BY DEF PromoteLoaded, AdmitLoad
<1>9. q.all \in Int /\ q.computed \in Int /\ q.stale \in Int /\ q.all > 0 /\ 0 <= q.computed /\ q.computed <= q.all
  <2>1. Bounded(q)
    BY <1>5, <1>6 DEF Account
  <2>2. q.all > 0
    <3>1. q.prompt \in Int /\ q.output \in Int
      BY RequestTypes
    <3> QED
      BY <2>1, <3>1 DEF Bounded
  <2> QED
    BY <1>5, <1>6, <2>1, <2>2, RequestTypes DEF Waits, Bounded
<1>10. PICK x \in {"WAITING", "PREEMPTED", "WAITING_FOR_REMOTE_KVS"}, n \in Int :
         /\ req' = [req EXCEPT ![r] = WithAdmission(req[r], x, n)]
         /\ 0 <= n /\ n <= q.all
         /\ n < q.all \/ (x = "WAITING_FOR_REMOTE_KVS" /\ r \notin failed')
         /\ x = "PREEMPTED" \/ q.stale = 0 \/ q.drop
         /\ r \in recv' \cup failed' => x = "WAITING_FOR_REMOTE_KVS"
         /\ \A s \in Requests \ {r} : (s \in recv' <=> s \in recv) /\ (s \in failed' <=> s \in failed)
  <2>1. q.stale = q.inFlight /\ (q.stale > 0 /\ ~q.drop => q.status = "PREEMPTED") /\ q.drop \in BOOLEAN
        /\ (q.computed < q.all \/ (q.status = "WAITING_FOR_REMOTE_KVS" /\ r \notin failed))
    BY <1>5, <1>6, RequestTypes DEF Waits
  <2>2. q.stale >= 0
    <3>1. BalancedOf(Slots, r, q.inFlight, q.stale) /\ Pipeline(Slots)
      BY <1>2, <1>5, <1>6, BooksAre, SlotsAre DEF Account
    <3> QED
      BY <3>1, NothingExpected
  <2>3. CASE PromoteLoaded
    <3> DEFINE c == IF r \notin failed /\ req[r].computed = req[r].all THEN req[r].all - 1 ELSE req[r].computed
    <3>1. PICK x \in {"WAITING", "PREEMPTED"} : x = IF req[r].preempted THEN "PREEMPTED" ELSE "WAITING"
      OBVIOUS
    <3>2. req' = [req EXCEPT ![r] = WithAdmission(req[r], x, c)]
      BY <1>1, <1>4, <1>5, <2>3, <3>1 DEF PromoteLoaded, WithAdmission
    <3>3. q.status = "WAITING_FOR_REMOTE_KVS" /\ recv' = recv \ {r} /\ failed' = failed \ {r}
      BY <1>4, <1>6, <2>3 DEF PromoteLoaded
    <3>4. c \in Int /\ 0 <= c /\ c < q.all
      BY <1>6, <1>9, <2>1
    <3>5. q.stale = 0 \/ q.drop
      BY <1>9, <2>1, <2>2, <3>3
    <3> HIDE DEF c
    <3>6. /\ r \notin recv' \cup failed' /\ c <= q.all
          /\ \A s \in Requests \ {r} : (s \in recv' <=> s \in recv) /\ (s \in failed' <=> s \in failed)
      BY <1>9, <3>3, <3>4
    <3>7. x \in {"WAITING", "PREEMPTED", "WAITING_FOR_REMOTE_KVS"}
      BY <3>1
    <3> QED
      BY <3>2, <3>4, <3>5, <3>6, <3>7
  <2>4. ASSUME NEW ext \in LoadableTokens, AdmitLoad(ext)
        PROVE  \E x \in {"WAITING", "PREEMPTED", "WAITING_FOR_REMOTE_KVS"}, n \in Int :
                /\ req' = [req EXCEPT ![r] = WithAdmission(req[r], x, n)]
                /\ 0 <= n /\ n <= q.all
                /\ n < q.all \/ (x = "WAITING_FOR_REMOTE_KVS" /\ r \notin failed')
                /\ x = "PREEMPTED" \/ q.stale = 0 \/ q.drop
                /\ r \in recv' \cup failed' => x = "WAITING_FOR_REMOTE_KVS"
                /\ \A s \in Requests \ {r} : (s \in recv' <=> s \in recv) /\ (s \in failed' <=> s \in failed)
    <3>1. req' = [req EXCEPT ![r] = WithAdmission(req[r], "WAITING_FOR_REMOTE_KVS", ext)]
      BY <1>1, <1>4, <1>5, <2>4 DEF AdmitLoad, WithAdmission
    <3>2. UNCHANGED <<recv, failed>> /\ q.status \in {"WAITING", "PREEMPTED"} /\ ~Unready(r)
      BY <1>4, <1>6, <2>4 DEF AdmitLoad, Admissible, xfer
    <3>3. ext \in Nat /\ ext <= q.all
      <4>1. ext \in Loadable(r) /\ ext # 0
        BY <1>4, <2>4 DEF AdmitLoad
      <4> QED
        BY <1>6, <4>1, Parameters DEF Loadable
    <3>4. r \notin failed
      BY <1>5, <1>6, <3>2 DEF Account
    <3>5. q.stale = 0 \/ q.drop
      <4>1. ~(q.stale > 0 /\ ~q.drop)
        BY <1>6, <3>2 DEF Unready, Blocked
      <4> QED
        BY <1>9, <2>2, <4>1
    <3>6. /\ \A s \in Requests \ {r} : (s \in recv' <=> s \in recv) /\ (s \in failed' <=> s \in failed)
          /\ r \notin failed' /\ ext \in Int /\ 0 <= ext
      BY <3>2, <3>3, <3>4
    <3>7. "WAITING_FOR_REMOTE_KVS" \in {"WAITING", "PREEMPTED", "WAITING_FOR_REMOTE_KVS"}
      OBVIOUS
    <3> QED
      BY <3>1, <3>3, <3>5, <3>6, <3>7
  <2> QED
    BY <2>3, <2>4
<1>11. req'[r] = WithAdmission(req[r], x, n) /\ \A s \in Requests \ {r} : req'[s] = req[s]
  BY <1>1, <1>5, <1>10
<1>12. SlotsInv' /\ Slots' = Slots
  <2>1. x \in Status /\ x # "NEW"
    BY DEF Status, Blocked
  <2>2. req'[r].status = x
    BY <1>6, <1>11, <2>1, WithAdmissionIs
  <2>3. \A s \in Requests : req[s].status # "NEW" => req'[s].status # "NEW"
    BY <1>11, <2>1, <2>2
  <2> QED
    BY <1>2, <1>5, <1>7, <1>8, <2>3, ErrorsNone, SlotsStay
<1>13. BatchInv'
  BY <1>2, <1>5, <1>7, <1>8, <1>11, <1>12, BatchAround DEF Scheduling
<1>14. ASSUME NEW s \in Requests \ {r} PROVE Account(s)'
  BY <1>2, <1>7, <1>8, <1>10, <1>11, <1>12, UntouchedKept DEF Untouched
<1>15. Account(r)'
  BY <1>5, <1>6, <1>8, <1>10, <1>11, <1>12, WaitingAccount
<1> QED
  BY <1>12, <1>13, <1>14, <1>15 DEF AccountsInv

(* schedule() puts n tokens of r into the step, k of them drafts.           *)
LEMMA JoinsStep ==
  ASSUME Shapes, BatchInv, Slots' = Slots, NEW r \in Requests, NEW n \in Int, NEW k \in 0 .. NumSpecTokens,
         r \in Unfinished, r \notin BatchIds(step.batch), requests' = requests,
         \A s \in Requests \ {r} : req'[s] = req[s],
         step'.batch = Append(step.batch, Scheduled(r, n, k)), step'.threshold = step.threshold,
         step'.phase \in {"running", "waiting", "emit"},
         req'[r].status = "RUNNING", SameTokens(req'[r], req[r]), SamePipeline(req'[r], req[r]),
         req'[r].computed = req[r].computed, req'[r].placeholders = req[r].placeholders,
         n > 0, req[r].computed + n < MaxModelLen, req[r].placeholders = Pending(r),
         LET excess == req[r].computed + n - req[r].all - req[r].placeholders
         IN  k = IF excess > 0 THEN excess ELSE 0,
         step'.phase = "running" =>
            /\ step.phase = "running" /\ running' = running /\ step'.idx = step.idx + 1
            /\ step.idx \in 1 .. Len(running) /\ running[step.idx] = r
  PROVE  BatchInv' /\ BatchIds(step.batch) \subseteq BatchIds(step'.batch) /\ r \in BatchIds(step'.batch)
<1>1. PICK b \in Seq(BatchEntry) : b = step.batch
  BY LocalsTypes DEF Shapes
<1>2. step.idx \in Nat \ {0}
  BY LocalsTypes DEF Shapes
<1>3. PICK e \in BatchEntry : e = Scheduled(r, n, k)
  BY ScheduledType
<1>4. e.r = r /\ e.n = n /\ e.k = k /\ e.pos = req[r].output + req[r].placeholders
  BY <1>3 DEF Scheduled
<1>5. PICK c : c = Append(b, e)
  OBVIOUS
<1>6. /\ c \in Seq(BatchEntry) /\ Len(b) \in Nat /\ DOMAIN b = 1 .. Len(b)
      /\ DOMAIN c = 1 .. Len(b) + 1 /\ Len(b) + 1 \in DOMAIN c
      /\ \A i \in 1 .. Len(b) : c[i] = b[i] /\ i \in DOMAIN c
      /\ c[Len(b) + 1] = e
      /\ \A i \in DOMAIN c : i \in DOMAIN b \/ i = Len(b) + 1
  BY <1>5
<1>7. step'.batch = c
  BY <1>1, <1>5, <1>3
<1>8. Pending(r)' = Pending(r)
  BY QuietBooks DEF SameTokens, BooksKept
<1>9. Promised(e)'
  <2>1. /\ req'[e.r].computed = req[r].computed /\ req'[e.r].placeholders = req[r].placeholders
        /\ req'[e.r].all = req[r].all /\ req'[e.r].output = req[r].output /\ req'[e.r].status = "RUNNING"
        /\ Pending(e.r)' = Pending(r)
    BY <1>4, <1>8 DEF SameTokens
  <2>2. e.r \in Unfinished'
    BY <1>4 DEF Unfinished
  <2>3. step'.phase = "running" => \E p \in 1 .. step'.idx - 1 : p <= Len(running') /\ running'[p] = e.r
    <3> SUFFICES ASSUME step'.phase = "running" PROVE step.idx \in 1 .. step'.idx - 1 /\ step.idx <= Len(running') /\ running'[step.idx] = e.r
      OBVIOUS
    <3>1. step.idx \in 1 .. (step.idx + 1) - 1
      BY <1>2
    <3> QED
      BY <1>4, <3>1
  <2> QED
    BY <1>4, <2>1, <2>2, <2>3 DEF Promised
<1>10. ASSUME NEW f, NEW i \in DOMAIN b, f = b[i] PROVE Promised(f)'
  <2>1. f.r \in BatchIds(step.batch)
    BY <1>10, <1>1 DEF BatchIds
  <2>2. Promised(f)
    BY <1>10, <1>1 DEF BatchInv
  <2>3. f.r \in Requests \ {r}
    BY <1>1, <2>1, BatchIdsType
  <2>4. Pending(f.r)' = Pending(f.r) /\ req'[f.r] = req[f.r]
    BY <2>3, QuietBooks DEF SamePipeline, BooksKept
  <2>5. f.r \in Unfinished'
    BY <2>2, <2>3 DEF Promised, Unfinished
  <2>6. step'.phase = "running" => \E p \in 1 .. step'.idx - 1 : p <= Len(running') /\ running'[p] = f.r
    <3> SUFFICES ASSUME step'.phase = "running" PROVE \E p \in 1 .. step'.idx - 1 : p <= Len(running') /\ running'[p] = f.r
      OBVIOUS
    <3>1. PICK p \in 1 .. step.idx - 1 : p <= Len(running) /\ running[p] = f.r
      BY <2>2 DEF Promised
    <3>2. p \in 1 .. (step.idx + 1) - 1
      BY <1>2
    <3> QED
      BY <3>1, <3>2
  <2> QED
    BY <2>2, <2>4, <2>5, <2>6 DEF Promised
<1>11. \A i \in DOMAIN c : Promised(c[i])'
  BY <1>6, <1>9, <1>10
<1>12. (\A i \in DOMAIN step.batch : Promised(step.batch[i]))'
  BY <1>7, <1>11
<1>13. WellFormed(step'.batch)
  <2>1. WellFormed(b) /\ \A i \in DOMAIN b : b[i].r # r
    BY <1>1 DEF BatchInv, BatchIds
  <2>2. ASSUME NEW i \in DOMAIN c, NEW j \in DOMAIN c, c[i].r = c[j].r PROVE i = j
    BY <1>4, <1>6, <2>1, <2>2 DEF WellFormed
  <2>3. ASSUME NEW i \in DOMAIN c PROVE c[i].n > 0 /\ c[i].k \in 0 .. NumSpecTokens
    BY <1>4, <1>6, <2>1 DEF WellFormed
  <2> QED
    BY <1>7, <2>2, <2>3 DEF WellFormed
<1>14. BatchInv'
  <2>1. step'.threshold \in {0, LongPrefillTokenThreshold} /\ (step'.batch # <<>> => Scheduling')
    BY DEF BatchInv, Scheduling
  <2> QED
    BY <1>12, <1>13, <2>1 DEF BatchInv
<1>15. BatchIds(step.batch) \subseteq BatchIds(step'.batch) /\ r \in BatchIds(step'.batch)
  <2>1. BatchIds(b) \subseteq BatchIds(c)
    BY <1>6 DEF BatchIds
  <2>2. r \in BatchIds(c)
    BY <1>4, <1>6 DEF BatchIds
  <2> QED
    BY <1>7, <1>1, <2>1, <2>2
<1> QED
  BY <1>14, <1>15

(* With nothing in flight there is nothing to wait for.                     *)
LEMMA NothingInFlight ==
  ASSUME Shapes, SlotsInv, inflight = <<>>, step.todo = <<>>, NEW r, Dropped(r) \in Int
  PROVE  Pending(r) = 0
<1>1. Pipeline(Slots) /\ DOMAIN Slots = 1 .. Len(inflight) + 1 /\ Slots[1] = <<>>
  BY SlotsAre
<1>2. Len(inflight) = 0
  OBVIOUS
<1>3. \A j \in DOMAIN Slots : j = 1
  BY <1>1, <1>2
<1>4. \A j \in DOMAIN Slots : r \notin BatchIds(Slots[j])
  BY <1>1, <1>3, EmptyStep
<1> QED
  BY <1>1, <1>4, AbsentBooks, BooksAre

(* The books of a request, in numbers.                                      *)
LEMMA BookTypes ==
  ASSUME Shapes, SlotsInv, NEW r \in Requests, Balanced(r)
  PROVE  /\ req[r].inFlight \in Nat /\ req[r].stale \in Nat /\ req[r].stale <= req[r].inFlight
         /\ Dropped(r) \in Nat /\ Pending(r) \in Nat
         /\ Dropped(r) = req[r].inFlight => Pending(r) = 0
<1>1. Pipeline(Slots) /\ BalancedOf(Slots, r, req[r].inFlight, req[r].stale)
  BY SlotsAre, BooksAre
<1>2. /\ req[r].inFlight \in Nat /\ req[r].stale \in Nat /\ req[r].stale <= req[r].inFlight
      /\ PendingOf(Slots, r, req[r].inFlight) = 0
  BY <1>1, NothingExpected
<1>3. Dropped(r) \in Nat
  BY <1>2 DEF Dropped
<1>4. Pending(r) = PendingOf(Slots, r, Dropped(r))
  BY BooksAre
<1>5. Pending(r) \in Nat
  BY <1>1, <1>3, <1>4, ExpectedIs
<1> QED
  BY <1>2, <1>3, <1>4, <1>5

(* A running request with tokens to compute next.                           *)
LEMMA NewTokensAre ==
  ASSUME Shapes, QueuesInv, AccountsInv, MoreRunning, NEW r, r = Current, ~Skippable(req[r]),
         r \notin BatchIds(step.batch), NEW n, n = NewTokens(req[r]),
         NEW k, k = DraftsScheduled(req[r], n)
  PROVE  /\ n \in Int /\ n > 0 /\ req[r].computed + n < MaxModelLen
         /\ k \in 0 .. NumSpecTokens
         /\ LET excess == req[r].computed + n - req[r].all - req[r].placeholders
            IN  k = IF excess > 0 THEN excess ELSE 0
         /\ req[r].placeholders = Pending(r)
<1>1. step \in HandlerLocals /\ step.budget \in Int /\ step.threshold \in Int
  BY LocalsTypes DEF Shapes
<1>2. r \in ToSet(running) /\ step.phase = "running" /\ step.budget > 0
  BY CurrentType DEF MoreRunning
<1>3. /\ r \in Requests /\ Account(r) /\ Runs(r) /\ Bounded(req[r]) /\ Balanced(r)
      /\ req[r] \in RequestRecord
  BY <1>2, RunningIs
<1>4. PICK q \in RequestRecord : q = req[r]
  BY <1>3
<1>5. /\ q.prompt \in Int /\ q.all \in Int /\ q.output \in Int /\ q.computed \in Int
      /\ q.placeholders \in Int /\ q.spec \in Int
  BY RequestTypes
<1>6. /\ q.spec \in 0 .. NumSpecTokens /\ q.computed \in 0 .. MaxModelLen - 1
      /\ ~AsyncScheduling => q.placeholders = 0 /\ q.computed <= q.all + NumSpecTokens
  BY <1>3, <1>4 DEF Bounded
<1>7. SlotsInv /\ step.todo = <<>> /\ Len(inflight) < MaxConcurrentBatches /\ step.threshold \in {0, LongPrefillTokenThreshold}
  BY <1>2, HandlerIs DEF AccountsInv, Scheduling
<1>8. PICK p \in Nat : p = Pending(r)
  BY <1>3, <1>7, BookTypes
<1>9. /\ q.computed = q.all - 1 + p \/ (q.computed < q.all /\ p = 0)
      /\ AsyncScheduling => q.placeholders = p
  BY <1>3, <1>4, <1>8 DEF Runs, Decodes
<1>10. ~AsyncScheduling => q.placeholders = 0 /\ (p = 0 \/ (q.computed <= q.all /\ q.spec = 0))
  <2> SUFFICES ASSUME ~AsyncScheduling PROVE p = 0 \/ (q.computed <= q.all /\ q.spec = 0)
    BY <1>6
  <2>1. CASE NumSpecTokens > 0
    <3>1. MaxConcurrentBatches = 1
      BY <2>1, Parameters, SchedulerAssumption
    <3>2. inflight = <<>>
      <4>1. inflight \in Seq(DispatchedStep)
        BY DEF Shapes
      <4> QED
        BY <1>7, <3>1, <4>1
    <3>3. Dropped(r) \in Int
      BY <1>3, <1>7, BookTypes
    <3> QED
      BY <1>7, <1>8, <3>2, <3>3, NothingInFlight
  <2>2. CASE NumSpecTokens = 0
    BY <1>5, <1>6, <2>2
  <2> QED
    BY <2>1, <2>2, Parameters
<1>11. PICK x \in Int : x = q.all + q.spec + q.placeholders - q.computed
  BY <1>5
<1>12. x >= 0
  BY <1>5, <1>6, <1>9, <1>10, <1>11, Parameters
<1>13. PICK y \in Int : y = Capped(x) /\ y >= 0 /\ y <= x /\ (x > 0 => y > 0)
  <2>1. LongPrefillTokenThreshold \in Nat
    BY Parameters
  <2> QED
    BY <1>1, <1>7, <1>12, <2>1 DEF Capped
<1>14. n = Least(Least(y, step.budget), MaxModelLen - q.computed - 1)
  BY <1>4, <1>11, <1>13 DEF NewTokens
<1>15. n # 0
  BY <1>4 DEF Skippable
<1>16. MaxModelLen \in Nat /\ NumSpecTokens \in Nat
  BY Parameters
<1>17. n \in Int /\ n > 0 /\ n <= x /\ n <= MaxModelLen - q.computed - 1
  BY <1>1, <1>2, <1>5, <1>6, <1>13, <1>14, <1>15, <1>16 DEF Least
<1>18. PICK m \in Int : m = q.computed + n - q.all - q.placeholders
  BY <1>5, <1>17
<1>19. m <= q.spec
  BY <1>5, <1>11, <1>17, <1>18
<1>20. k = IF q.spec = 0 \/ m < 0 THEN 0 ELSE Least(q.spec, m)
  <2>1. n + q.computed - q.all - q.placeholders = m
    BY <1>5, <1>17, <1>18
  <2> QED
    BY <1>4, <2>1 DEF DraftsScheduled
<1>21. k = (IF m > 0 THEN m ELSE 0) /\ k \in 0 .. NumSpecTokens
  BY <1>5, <1>6, <1>16, <1>18, <1>19, <1>20 DEF Least
<1>22. q.placeholders = p
  BY <1>5, <1>6, <1>9, <1>10, <1>11, <1>17
<1> QED
  BY <1>4, <1>5, <1>8, <1>16, <1>17, <1>18, <1>21, <1>22

LEMMA ScheduleRunningAccounts ==
  ASSUME ShapesInv, ShapesInv', QueuesInv, AccountsInv, ScheduleRunning
  PROVE  AccountsInv'
<1> USE DEF ShapesInv
<1>1. /\ step \in HandlerLocals /\ req \in [Requests -> RequestRecord] /\ running \in Seq(Requests)
      /\ step.idx \in Nat \ {0} /\ step.budget \in Int /\ step.prefill \in BOOLEAN
  BY QueueTypes, LocalsTypes
<1>2. SlotsInv /\ BatchInv /\ \A s \in Requests : Account(s)
  BY DEF AccountsInv
<1>3. MoreRunning /\ step.phase = "running"
  BY DEF ScheduleRunning, MoreRunning
<1>4. PICK r : r = Current
  OBVIOUS
<1>5. /\ r \in Requests /\ r \in ToSet(running) /\ step.idx \in DOMAIN running
      /\ running[step.idx] = r /\ IsInjective(running)
  BY <1>3, <1>4, CurrentType DEF Current, QueuesInv, QueuesPlaced, QueuesApart
<1>6. /\ r \in Unfinished /\ r \in requests /\ req[r].status = "RUNNING" /\ Account(r)
      /\ req[r] \in RequestRecord
  BY <1>3, <1>5, RunningIs
<1>7. r \notin BatchIds(step.batch)
  <2>1. ASSUME NEW i \in DOMAIN step.batch PROVE step.batch[i].r # r
    <3>1. Promised(step.batch[i])
      BY <1>2 DEF BatchInv
    <3>2. PICK p \in 1 .. step.idx - 1 : p <= Len(running) /\ running[p] = step.batch[i].r
      BY <1>3, <3>1 DEF Promised
    <3>3. p \in DOMAIN running /\ p # step.idx
      BY <1>1, <3>2
    <3> QED
      BY <1>5, <3>2, <3>3 DEF IsInjective
  <2> QED
    BY <2>1 DEF BatchIds
<1>8. PICK n : n = NewTokens(req[r])
  OBVIOUS
<1>9. PICK k : k = DraftsScheduled(req[r], n)
  OBVIOUS
<1>10. ~Skippable(req[r])
  BY <1>4 DEF ScheduleRunning
<1>11. /\ n \in Int /\ n > 0 /\ req[r].computed + n < MaxModelLen /\ k \in 0 .. NumSpecTokens
       /\ LET excess == req[r].computed + n - req[r].all - req[r].placeholders
          IN  k = IF excess > 0 THEN excess ELSE 0
       /\ req[r].placeholders = Pending(r)
  BY <1>3, <1>7, <1>10, <1>9, <1>8, <1>4, NewTokensAre
<1>12. PICK b \in BOOLEAN : b = (step.prefill \/ req[r].chunk)
  BY <1>1
<1>13. Append(step.batch, Scheduled(r, n, k)) \in Seq(BatchEntry)
  <2>1. k \in Int
    BY <1>11
  <2> QED
    BY <1>5, <1>11, <2>1, ScheduledType
<1>14. step' = WithScheduled(step, step.idx + 1, step.budget - n, TRUE, b, Append(step.batch, Scheduled(r, n, k)))
  BY <1>12, <1>9, <1>8, <1>4 DEF ScheduleRunning, WithScheduled
<1>15. /\ step'.batch = Append(step.batch, Scheduled(r, n, k)) /\ step'.threshold = step.threshold
       /\ step'.phase = "running" /\ step'.idx = step.idx + 1 /\ step'.todo = step.todo
       /\ step'.errors = step.errors /\ step'.received = step.received
  <2>1. PICK i \in Nat \ {0} : i = step.idx + 1
    BY <1>1
  <2>2. PICK m \in Int : m = step.budget - n
    BY <1>1, <1>11
  <2>3. PICK B \in Seq(BatchEntry) : B = Append(step.batch, Scheduled(r, n, k))
    BY <1>13
  <2>4. PICK s \in HandlerLocals : s = step
    BY <1>1
  <2>5. PICK a \in BOOLEAN : a = TRUE
    OBVIOUS
  <2>6. PICK t : t = WithScheduled(s, i, m, a, b, B)
    OBVIOUS
  <2>7. /\ t.idx = i /\ t.batch = B /\ t.phase = s.phase /\ t.threshold = s.threshold
        /\ t.todo = s.todo /\ t.errors = s.errors /\ t.received = s.received
    BY <2>6, WithScheduledIs, SMTT(60)
  <2>8. step' = t
    BY <1>14, <2>1, <2>2, <2>3, <2>4, <2>6, <2>5
  <2> QED
    BY <1>3, <2>1, <2>3, <2>4, <2>7, <2>8
<1>16. /\ req' = [req EXCEPT ![r] = WithSpec(req[r], 0)]
       /\ UNCHANGED <<requests, running, recv, failed, inflight>>
  BY <1>4 DEF ScheduleRunning, WithSpec, queues, xfer
<1>17. /\ \A s \in Requests \ {r} : req'[s] = req[s]
       /\ req'[r].status = "RUNNING" /\ req'[r].spec = 0
       /\ SameTokens(req'[r], req[r]) /\ SamePipeline(req'[r], req[r]) /\ SameComputed(req'[r], req[r])
  <2>1. PICK q \in RequestRecord : q = req[r]
    BY <1>6
  <2>2. PICK t : t = WithSpec(q, 0)
    OBVIOUS
  <2>3. t.status = q.status /\ t.spec = 0 /\ SameTokens(t, q) /\ SamePipeline(t, q) /\ SameComputed(t, q)
    BY <2>2, WithSpecIs
  <2>4. req'[r] = t /\ \A s \in Requests \ {r} : req'[s] = req[s]
    BY <1>1, <1>5, <1>16, <2>1, <2>2
  <2> QED
    BY <1>6, <2>1, <2>3, <2>4
<1>18. SlotsInv' /\ Slots' = Slots
  <2>1. \A s \in Requests : req[s].status # "NEW" => req'[s].status # "NEW"
    BY <1>17
  <2>2. step.todo = <<>> /\ step.errors = {} /\ Len(inflight) < MaxConcurrentBatches
    BY <1>3, HandlerIs DEF Scheduling
  <2> QED
    BY <1>2, <1>15, <1>16, <2>1, <2>2, ErrorsNone, SlotsStay
<1>19. BatchInv' /\ BatchIds(step.batch) \subseteq BatchIds(step'.batch)
  <2>1. step.idx \in 1 .. Len(running)
    BY <1>1, <1>5
  <2>2. req'[r].computed = req[r].computed /\ req'[r].placeholders = req[r].placeholders
    BY <1>17 DEF SameComputed
  <2> QED
    BY <1>2, <1>3, <1>5, <1>6, <1>7, <1>11, <1>15, <1>16, <1>17, <1>18, <2>1, <2>2, JoinsStep
<1>20. ASSUME NEW s \in Requests \ {r} PROVE Account(s)'
  BY <1>2, <1>16, <1>17, <1>18, <1>19, UntouchedKept DEF Untouched
<1>21. Account(r)'
  <2>1. BooksKept(r)
    BY <1>17, <1>18, QuietBooks DEF SameTokens
  <2>2. 0 \in 0 .. NumSpecTokens
    BY Parameters
  <2> QED
    BY <1>5, <1>6, <1>16, <1>17, <1>19, <2>1, <2>2, AccountKept
<1> QED
  BY <1>18, <1>19, <1>20, <1>21 DEF AccountsInv

(* A waiting request with tokens to compute next: the padding of a decode   *)
(* is scheduled whole, which takes PadsFit.                                 *)
LEMMA AdmittedTokensAre ==
  ASSUME Shapes, QueuesInv, AccountsInv, PadsFit, MoreWaiting, NEW r, r = Candidate, Admissible(r),
         Padded(r) => PadFits(r), NEW n, n = AdmittedTokens(r),
         NEW k, k = IF Padded(r) THEN NumSpecTokens ELSE 0
  PROVE  /\ n \in Int /\ n > 0 /\ req[r].computed + n < MaxModelLen
         /\ k \in 0 .. NumSpecTokens
         /\ LET excess == req[r].computed + n - req[r].all - req[r].placeholders
            IN  k = IF excess > 0 THEN excess ELSE 0
         /\ req[r].placeholders = Pending(r) /\ Pending(r) = 0 /\ req[r].computed < req[r].all
         /\ req[r].stale > 0 => req[r].drop
<1>1. step \in HandlerLocals /\ step.budget \in Int /\ step.threshold \in Int /\ step.budget > 0
  BY LocalsTypes DEF Shapes, MoreWaiting
<1>2. /\ r \in Requests /\ r \in Unfinished /\ r \in requests /\ Account(r) /\ Waits(r)
      /\ req[r] \in RequestRecord
  BY WaitingIs
<1>3. Bounded(req[r]) /\ Balanced(r) /\ req[r].prompt = PromptTokens[r]
  BY <1>2 DEF Account
<1>4. PICK q \in RequestRecord : q = req[r]
  BY <1>2
<1>5. /\ q.prompt \in Int /\ q.all \in Int /\ q.output \in Int /\ q.computed \in Int
      /\ q.placeholders \in Int /\ q.spec \in Int
  BY RequestTypes
<1>6. /\ q.computed \in 0 .. MaxModelLen - 1 /\ q.all < MaxModelLen /\ q.all = q.prompt + q.output
      /\ q.output \in 0 .. MaxTokens - 1
  BY <1>3, <1>4 DEF Bounded
<1>7. q.computed < q.all /\ q.placeholders = 0 /\ q.stale = q.inFlight
  <2>1. q.status # "WAITING_FOR_REMOTE_KVS"
    BY <1>4 DEF Admissible
  <2> QED
    BY <1>2, <1>4, <2>1 DEF Waits
<1>8. SlotsInv /\ step.threshold \in {0, LongPrefillTokenThreshold}
  BY HandlerIs DEF AccountsInv
<1>9. q.stale \in Nat /\ (q.stale > 0 => q.drop)
  <2>1. ~(q.stale > 0 /\ ~q.drop)
    BY <1>4 DEF Admissible, Unready, Blocked
  <2> QED
    BY <1>2, <1>3, <1>4, <1>8, <2>1, BookTypes
<1>10. Pending(r) = 0
  <2>1. Dropped(r) = req[r].inFlight
    BY <1>4, <1>7, <1>9 DEF Dropped
  <2> QED
    BY <1>2, <1>3, <1>8, <2>1, BookTypes
<1>11. /\ MaxModelLen \in Nat /\ NumSpecTokens \in Nat /\ LongPrefillTokenThreshold \in Nat /\ MaxTokens \in Nat
       /\ PromptTokens[r] \in Nat
  BY <1>2, Parameters
<1>12. CASE Padded(r)
  <2>1. NumSpecTokens > 0 /\ q.all - q.computed = 1 /\ 1 + NumSpecTokens <= step.budget
    BY <1>4, <1>12 DEF Padded, PadFits
  <2>2. LongPrefillTokenThreshold \notin 1 .. NumSpecTokens /\ PromptTokens[r] + MaxTokens + NumSpecTokens < MaxModelLen
    BY <1>2, <2>1 DEF PadsFit
  <2>3. Capped(1 + NumSpecTokens) = 1 + NumSpecTokens
    BY <1>8, <1>11, <2>1, <2>2 DEF Capped
  <2>4. n = 1 + NumSpecTokens /\ k = NumSpecTokens
    BY <1>1, <1>11, <1>12, <2>1, <2>3 DEF AdmittedTokens, Least
  <2>5. PICK m \in Int : m = q.computed + n - q.all - q.placeholders
    BY <1>5, <1>11, <2>4
  <2>6. m = NumSpecTokens
    BY <1>5, <1>7, <1>11, <2>1, <2>4, <2>5
  <2>7. q.computed + n < MaxModelLen
    <3>1. q.prompt = PromptTokens[r]
      BY <1>3, <1>4
    <3> QED
      BY <1>5, <1>6, <1>11, <2>1, <2>2, <2>4, <3>1
  <2> QED
    BY <1>4, <1>7, <1>9, <1>10, <1>11, <2>1, <2>4, <2>5, <2>6, <2>7
<1>13. CASE ~Padded(r)
  <2>1. PICK x \in Int : x = q.all - q.computed /\ x > 0
    BY <1>5, <1>7
  <2>2. PICK y \in Int : y = Capped(x) /\ y <= x /\ y > 0
    BY <1>1, <1>8, <1>11, <2>1 DEF Capped
  <2>3. n = Least(y, step.budget) /\ k = 0
    BY <1>4, <1>13, <2>1, <2>2 DEF AdmittedTokens
  <2>4. n \in Int /\ n > 0 /\ n <= x
    BY <1>1, <2>2, <2>3 DEF Least
  <2>5. PICK m \in Int : m = q.computed + n - q.all - q.placeholders
    BY <1>5, <2>4
  <2>6. m <= 0 /\ q.computed + n < MaxModelLen
    BY <1>5, <1>6, <1>7, <1>11, <2>1, <2>4, <2>5
  <2> QED
    BY <1>4, <1>7, <1>9, <1>10, <1>11, <2>3, <2>4, <2>5, <2>6
<1> QED
  BY <1>12, <1>13

LEMMA AdmitRunningAccounts ==
  ASSUME ShapesInv, ShapesInv', QueuesInv, AccountsInv, PadsFit, AdmitRunning
  PROVE  AccountsInv'
<1> USE DEF ShapesInv
<1>1. /\ step \in HandlerLocals /\ req \in [Requests -> RequestRecord] /\ step.budget \in Int
  BY QueueTypes, LocalsTypes
<1>2. SlotsInv /\ BatchInv /\ \A s \in Requests : Account(s)
  BY DEF AccountsInv
<1>3. MoreWaiting
  BY DEF AdmitRunning
<1>4. PICK r : r = Candidate
  OBVIOUS
<1>5. /\ r \in Requests /\ r \in Unfinished /\ r \in requests /\ Account(r)
      /\ r \notin BatchIds(step.batch) /\ req[r] \in RequestRecord
      /\ step.phase = "waiting" /\ step.todo = <<>> /\ step.errors = {}
      /\ Len(inflight) < MaxConcurrentBatches
  BY <1>3, <1>4, WaitingIs
<1>6. PICK n : n = AdmittedTokens(r)
  OBVIOUS
<1>7. PICK k : k = IF Padded(r) THEN NumSpecTokens ELSE 0
  OBVIOUS
<1>8. Admissible(r) /\ (Padded(r) => PadFits(r))
  BY <1>4 DEF AdmitRunning, RunFits
<1>9. /\ n \in Int /\ n > 0 /\ req[r].computed + n < MaxModelLen /\ k \in 0 .. NumSpecTokens
      /\ LET excess == req[r].computed + n - req[r].all - req[r].placeholders
         IN  k = IF excess > 0 THEN excess ELSE 0
      /\ req[r].placeholders = Pending(r) /\ Pending(r) = 0 /\ req[r].computed < req[r].all
      /\ req[r].stale > 0 => req[r].drop
  BY <1>3, <1>8, <1>7, <1>6, <1>4, AdmittedTokensAre
<1>10. Append(step.batch, Scheduled(r, n, k)) \in Seq(BatchEntry)
  <2>1. k \in Int
    BY <1>9
  <2> QED
    BY <1>5, <1>9, <2>1, ScheduledType
<1>11. step' = WithAdmitted(step, step.budget - n, Append(step.batch, Scheduled(r, n, k)))
  BY <1>7, <1>6, <1>4 DEF AdmitRunning, WithAdmitted
<1>12. /\ step'.batch = Append(step.batch, Scheduled(r, n, k)) /\ step'.threshold = step.threshold
       /\ step'.phase = "waiting" /\ step'.todo = step.todo
       /\ step'.errors = step.errors /\ step'.received = step.received
  <2>1. PICK m \in Int : m = step.budget - n
    BY <1>1, <1>9
  <2>2. PICK B \in Seq(BatchEntry) : B = Append(step.batch, Scheduled(r, n, k))
    BY <1>10
  <2>3. PICK s \in HandlerLocals : s = step
    BY <1>1
  <2>4. PICK t : t = WithAdmitted(s, m, B)
    OBVIOUS
  <2>5. /\ t.batch = B /\ t.phase = s.phase /\ t.threshold = s.threshold
        /\ t.todo = s.todo /\ t.errors = s.errors /\ t.received = s.received
    BY <2>4, WithAdmittedIs
  <2>6. step' = t
    BY <1>11, <2>1, <2>2, <2>3, <2>4
  <2> QED
    BY <1>5, <2>2, <2>3, <2>5, <2>6
<1>13. /\ req' = [req EXCEPT ![r] = WithStatus(req[r], "RUNNING")] /\ "RUNNING" \in Status
       /\ UNCHANGED <<requests, recv, failed, inflight>>
  BY <1>4 DEF AdmitRunning, WithStatus, Status, xfer
<1>14. /\ \A s \in Requests \ {r} : req'[s] = req[s]
       /\ req'[r].status = "RUNNING" /\ req'[r].spec = req[r].spec
       /\ SameTokens(req'[r], req[r]) /\ SamePipeline(req'[r], req[r]) /\ SameComputed(req'[r], req[r])
  BY <1>1, <1>5, <1>13, WithStatusIs
<1>15. SlotsInv' /\ Slots' = Slots
  <2>1. \A s \in Requests : req[s].status # "NEW" => req'[s].status # "NEW"
    BY <1>14
  <2> QED
    BY <1>2, <1>5, <1>12, <1>13, <2>1, ErrorsNone, SlotsStay
<1>16. /\ BatchInv' /\ BatchIds(step.batch) \subseteq BatchIds(step'.batch)
       /\ r \in BatchIds(step'.batch)
  <2>1. req'[r].computed = req[r].computed /\ req'[r].placeholders = req[r].placeholders
    BY <1>14 DEF SameComputed
  <2> QED
    BY <1>2, <1>5, <1>9, <1>12, <1>13, <1>14, <1>15, <2>1, JoinsStep
<1>17. ASSUME NEW s \in Requests \ {r} PROVE Account(s)'
  BY <1>2, <1>13, <1>14, <1>15, <1>16, UntouchedKept DEF Untouched
<1>18. Account(r)'
  <2>1. BooksKept(r)
    BY <1>14, <1>15, QuietBooks DEF SameTokens
  <2>2. Pending(r)' = 0 /\ Balanced(r)' /\ Follows(r)'
    BY <1>5, <1>9, <2>1 DEF BooksKept, Account
  <2>3. Bounded(req'[r])
    BY <1>5, <1>14 DEF Account, Bounded, SameTokens, SameComputed
  <2>4. Runs(r)'
    BY <1>9, <1>14, <1>16, <2>2 DEF Runs, SameTokens, SameComputed, SamePipeline
  <2>5. r \notin recv \cup failed /\ req[r].prompt = PromptTokens[r]
    BY <1>5, <1>8 DEF Account, Admissible
  <2>6. req'[r].prompt = PromptTokens[r] /\ r \notin recv' \cup failed' /\ r \in requests'
    BY <1>5, <1>13, <1>14, <2>5 DEF SameTokens
  <2> QED
    BY <1>14, <2>2, <2>3, <2>4, <2>6 DEF Account, Unstarted
<1> QED
  BY <1>15, <1>16, <1>17, <1>18 DEF AccountsInv

-------------------------------------------------------------------------------
(* An output is dealt with, one request after the other.                    *)

(* The step c is b with r's first output position x positions back.         *)
StepBack(b, c, r, x) ==
    /\ StepOf(c) /\ BatchIds(c) = BatchIds(b)
    /\ \A s : SlotTokens(c, s) = SlotTokens(b, s) /\ SlotOutputs(c, s) = SlotOutputs(b, s)
    /\ \A s \in BatchIds(b) :
        EntryOf(c, s).pos = IF s = r THEN EntryOf(b, s).pos - x ELSE EntryOf(b, s).pos

(* The entry e of the oldest step is dealt with.                            *)
EntryDone(e, x) ==
    /\ step.todo # <<>> /\ e = Head(step.todo) /\ step'.todo = Tail(step.todo)
    /\ Len(inflight') = Len(inflight)
    /\ \A j \in 1 .. Len(inflight) : StepBack(inflight[j].batch, inflight'[j].batch, e.r, x)

LEMMA SameStepBack ==
  ASSUME NEW b, StepOf(b), NEW r
  PROVE  StepBack(b, b, r, 0)
<1>1. ASSUME NEW s \in BatchIds(b) PROVE EntryOf(b, s).pos - 0 = EntryOf(b, s).pos
  <2>1. EntryOf(b, s) \in BatchEntry
    BY SlotOfMember
  <2> QED
    BY <2>1 DEF BatchEntry
<1> QED
  BY <1>1 DEF StepBack

LEMMA EntryPipeline ==
  ASSUME Shapes, Shapes', SlotsInv, NEW e, NEW x \in Int, EntryDone(e, x)
  PROVE  /\ e \in BatchEntry /\ e.r \in Requests /\ e.n > 0 /\ e.k \in 0 .. NumSpecTokens
         /\ e.r \in BatchIds(step.todo) /\ EntryOf(step.todo, e.r) = e
         /\ Pipeline(Slots) /\ Pipeline(Slots') /\ Len(Slots') = Len(Slots)
         /\ \A j \in 1 .. Len(Slots) : BatchIds(Slots'[j]) \subseteq BatchIds(Slots[j])
         /\ Returned(Slots, Slots', e.r, x)
         /\ \A s : s # e.r =>
                \A j \in 1 .. Len(Slots) :
                    /\ SlotTokens(Slots'[j], s) = SlotTokens(Slots[j], s)
                    /\ SlotOutputs(Slots'[j], s) = SlotOutputs(Slots[j], s)
                    /\ s \in BatchIds(Slots[j]) => EntryOf(Slots'[j], s).pos = EntryOf(Slots[j], s).pos
<1>1. /\ Pipeline(Slots) /\ Len(Slots) = Len(inflight) + 1 /\ DOMAIN Slots = 1 .. Len(inflight) + 1
      /\ Len(inflight) \in Nat /\ Slots[1] = step.todo
      /\ \A j \in 1 .. Len(inflight) : Slots[j + 1] = inflight[j].batch
  BY SlotsAre
<1>2. /\ Len(Slots') = Len(Slots) /\ DOMAIN Slots' = 1 .. Len(inflight) + 1
      /\ Slots'[1] = Tail(step.todo)
      /\ \A j \in 1 .. Len(inflight) : Slots'[j + 1] = inflight'[j].batch
      /\ (\A j \in DOMAIN Slots' : WellFormed(Slots'[j])) => Pipeline(Slots')
  BY <1>1, SlotsBecome DEF EntryDone
<1>3. StepOf(step.todo) /\ step.todo # <<>> /\ e = Head(step.todo)
  BY <1>1 DEF Pipeline, EntryDone
<1>4. /\ e \in BatchEntry /\ e.r \in BatchIds(step.todo) /\ EntryOf(step.todo, e.r) = e
      /\ StepOf(Slots'[1]) /\ BatchIds(Slots'[1]) = BatchIds(Slots[1]) \ {e.r}
      /\ \A s : s # e.r =>
            /\ SlotTokens(Slots'[1], s) = SlotTokens(Slots[1], s)
            /\ SlotOutputs(Slots'[1], s) = SlotOutputs(Slots[1], s)
            /\ s \in BatchIds(Slots[1]) => EntryOf(Slots'[1], s).pos = EntryOf(Slots[1], s).pos
  BY <1>1, <1>2, <1>3, TailStep
<1>5. e.r \in Requests /\ e.n > 0 /\ e.k \in 0 .. NumSpecTokens
  BY <1>3, <1>4, SlotOfMember DEF BatchEntry
<1>6. ASSUME NEW j \in 2 .. Len(Slots) PROVE StepBack(Slots[j], Slots'[j], e.r, x)
  <2>1. PICK i \in 1 .. Len(inflight) : j = i + 1
    <3>1. j - 1 \in 1 .. Len(inflight) /\ j = (j - 1) + 1
      BY <1>1
    <3> QED
      BY <3>1
  <2>2. StepBack(inflight[i].batch, inflight'[i].batch, e.r, x)
    BY DEF EntryDone
  <2> QED
    BY <1>1, <1>2, <2>1, <2>2
<1>7. \A j \in 1 .. Len(Slots) : j = 1 \/ j \in 2 .. Len(Slots)
  BY <1>1
<1>8. Pipeline(Slots')
  <2>1. \A j \in DOMAIN Slots' : WellFormed(Slots'[j])
    BY <1>1, <1>2, <1>4, <1>6, <1>7 DEF StepBack, StepOf
  <2> QED
    BY <1>2, <2>1
<1>9. \A j \in 1 .. Len(Slots) : BatchIds(Slots'[j]) \subseteq BatchIds(Slots[j])
  BY <1>4, <1>6, <1>7 DEF StepBack
<1>10. Returned(Slots, Slots', e.r, x)
  BY <1>1, <1>2, <1>4, <1>6, <1>8, ZenonT(60) DEF Returned, StepBack
<1>11. ASSUME NEW s, s # e.r, NEW j \in 1 .. Len(Slots)
       PROVE  /\ SlotTokens(Slots'[j], s) = SlotTokens(Slots[j], s)
              /\ SlotOutputs(Slots'[j], s) = SlotOutputs(Slots[j], s)
              /\ s \in BatchIds(Slots[j]) => EntryOf(Slots'[j], s).pos = EntryOf(Slots[j], s).pos
  BY <1>4, <1>6, <1>7, <1>11 DEF StepBack
<1> QED
  BY <1>1, <1>2, <1>4, <1>5, <1>8, <1>9, <1>10, <1>11

(* The other requests of the step, and those that are not in it.            *)
LEMMA OtherBooks ==
  ASSUME Shapes, Shapes', SlotsInv, NEW e, NEW x \in Int, EntryDone(e, x),
         NEW s \in Requests, s # e.r, SamePipeline(req'[s], req[s]), req'[s].output = req[s].output
  PROVE  BooksKept(s)
<1>1. Dropped(s) \in Int /\ Dropped(s)' = Dropped(s)
  <2>1. PICK q \in RequestRecord : q = req[s]
    BY DEF Shapes
  <2>2. q.stale \in Int
    BY RequestTypes
  <2> QED
    BY <2>1, <2>2 DEF Dropped, SamePipeline
<1>2. /\ Pipeline(Slots) /\ Pipeline(Slots') /\ Len(Slots') = Len(Slots)
      /\ \A j \in 1 .. Len(Slots) :
            /\ SlotTokens(Slots'[j], s) = SlotTokens(Slots[j], s)
            /\ SlotOutputs(Slots'[j], s) = SlotOutputs(Slots[j], s)
            /\ s \in BatchIds(Slots[j]) => EntryOf(Slots'[j], s).pos = EntryOf(Slots[j], s).pos
  BY EntryPipeline
<1>3. /\ \A f, t : BalancedOf(Slots', s, f, t) <=> BalancedOf(Slots, s, f, t)
      /\ PendingOf(Slots', s, Dropped(s)) = PendingOf(Slots, s, Dropped(s))
      /\ \A out : FollowsOf(Slots, s, Dropped(s), out) => FollowsOf(Slots', s, Dropped(s), out)
  BY <1>1, <1>2, SameBooks
<1> QED
  BY <1>1, <1>3, BooksAre, BooksBecome DEF BooksKept, SamePipeline

(* The request of the entry: its tokens leave the pipeline, its stale share *)
(* drains, and a tokens are no longer awaited.                              *)
Drains(e, r) ==
    /\ req'[r].inFlight = req[r].inFlight - e.n
    /\ req'[r].stale = StaleAfter(req[r].stale, e.n)
    /\ req'[r].drop = req[r].drop

AwaitedOfEntry(e, r) == IF Dropped(r) > 0 \/ ~e.samples THEN 0 ELSE 1 + e.k

EntryBooks(e, r, x, a) ==
    /\ Balanced(r)' /\ Pending(r) \in Nat /\ a \in Nat /\ a <= Pending(r)
    /\ Pending(r)' = Pending(r) - a
    /\ Follows(r) /\ req'[r].output = req[r].output + a - x => Follows(r)'
    /\ req[r].inFlight \in Nat /\ req[r].stale \in Nat /\ e.n > 0 /\ e.n <= req[r].inFlight
    /\ req[r].stale > 0 => req[r].stale >= e.n

LEMMA EntryAccount ==
  ASSUME Shapes, Shapes', SlotsInv, NEW e, NEW x \in Int, EntryDone(e, x),
         NEW r, r = e.r, Balanced(r), Drains(e, r), NEW a, a = AwaitedOfEntry(e, r)
  PROVE  EntryBooks(e, r, x, a)
<1> USE DEF Drains, AwaitedOfEntry
<1>1. /\ e \in BatchEntry /\ r \in Requests /\ e.n > 0 /\ e.k \in 0 .. NumSpecTokens
      /\ r \in BatchIds(step.todo) /\ EntryOf(step.todo, r) = e /\ Returned(Slots, Slots', r, x)
      /\ Slots[1] = step.todo
  BY EntryPipeline, SlotsAre
<1>2. req[r].drop \in BOOLEAN /\ req[r].output \in Int /\ req'[r].output \in Int
  <2>1. PICK q \in RequestRecord : q = req[r]
    BY <1>1 DEF Shapes
  <2>2. PICK t \in RequestRecord : t = req'[r]
    BY <1>1 DEF Shapes
  <2>3. q.drop \in BOOLEAN /\ q.output \in Int /\ t.output \in Int
    BY RequestTypes
  <2> QED
    BY <2>1, <2>2, <2>3
<1>3. PICK f, s : f = req[r].inFlight /\ s = req[r].stale
  OBVIOUS
<1>4. PICK drop \in BOOLEAN : drop = req[r].drop
  BY <1>2
<1>5. PICK out \in Int, out2 \in Int : out = req[r].output /\ out2 = req'[r].output
  BY <1>2
<1>6. /\ f = req[r].inFlight /\ s = req[r].stale /\ drop = req[r].drop
      /\ out = req[r].output /\ out2 = req'[r].output
  BY <1>3, <1>4, <1>5
<1>7. PICK n, d, c, b : /\ n = SlotTokens(Slots[1], r) /\ d = (IF drop THEN s ELSE 0)
                        /\ c = (IF drop THEN StaleAfter(s, n) ELSE 0) /\ b = ExpectedOf(Slots, r, d)[1]
  OBVIOUS
<1>8. BalancedOf(Slots, r, f, s)
  BY <1>6, BooksAre
<1>9. n = e.n /\ SlotOutputs(Slots[1], r) = IF e.samples THEN 1 + e.k ELSE 0
  BY <1>1, <1>7 DEF SlotTokens, SlotOutputs
<1>10. /\ n > 0 /\ f \in Nat /\ s \in Nat /\ n <= f /\ s <= f /\ (s > 0 => s >= n)
       /\ d \in Nat /\ c \in Nat
       /\ BalancedOf(Slots', r, f - n, StaleAfter(s, n))
       /\ b \in Nat /\ b <= PendingOf(Slots, r, d) /\ PendingOf(Slots, r, d) \in Nat
       /\ b = IF d > 0 THEN 0 ELSE SlotOutputs(Slots[1], r)
       /\ PendingOf(Slots', r, c) = PendingOf(Slots, r, d) - b
       /\ FollowsOf(Slots, r, d, out) /\ out2 = out + b - x => FollowsOf(Slots', r, c, out2)
  BY <1>1, <1>7, <1>8, DrainBooks
<1>11. Dropped(r) = d /\ Dropped(r)' = c
  BY <1>6, <1>7, <1>9, BooksBecome DEF Dropped
<1>12. a = b
  BY <1>9, <1>10, <1>11
<1>13. Balanced(r)'
  BY <1>6, <1>9, <1>10, BooksBecome
<1>14. Pending(r) = PendingOf(Slots, r, d) /\ Pending(r)' = PendingOf(Slots', r, c)
  BY <1>11, BooksAre, BooksBecome
<1>15. Follows(r) /\ req'[r].output = req[r].output + a - x => Follows(r)'
  BY <1>6, <1>10, <1>11, <1>12, BooksAre, BooksBecome
<1> QED
  BY <1>1, <1>6, <1>9, <1>10, <1>12, <1>13, <1>14, <1>15 DEF EntryBooks


(* SlotsInv and the batch once an entry is dealt with.                      *)
LEMMA EntrySlots ==
  ASSUME Shapes, Shapes', SlotsInv, BatchInv, NEW e, NEW x \in Int, EntryDone(e, x),
         \A s \in Requests : req'[s].status = req[s].status \/ req'[s].status = "FINISHED",
         step'.phase = step.phase, step'.batch = step.batch, step'.threshold = step.threshold,
         step'.errors = step.errors, step'.received = step.received
  PROVE  SlotsInv' /\ BatchInv' /\ step.batch = <<>>
<1>1. step.phase = "update" /\ step.batch = <<>>
  BY DEF EntryDone, SlotsInv, BatchInv, Scheduling
<1>2. /\ Pipeline(Slots') /\ Pipeline(Slots) /\ Len(Slots') = Len(Slots)
      /\ \A j \in 1 .. Len(Slots) : BatchIds(Slots'[j]) \subseteq BatchIds(Slots[j])
  BY EntryPipeline
<1>3. ASSUME NEW j \in DOMAIN Slots'
      PROVE  WellFormed(Slots'[j]) /\ \A r \in BatchIds(Slots'[j]) : req'[r].status # "NEW"
  <2>1. j \in 1 .. Len(Slots) /\ j \in DOMAIN Slots /\ StepOf(Slots'[j]) /\ StepOf(Slots[j])
    BY <1>2 DEF Pipeline
  <2>2. \A r \in BatchIds(Slots'[j]) : r \in Requests /\ req[r].status # "NEW"
    BY <1>2, <2>1, BatchIdsType DEF SlotsInv, StepOf
  <2> QED
    BY <2>1, <2>2 DEF StepOf
<1>4. SlotsInv'
  <2>1. Len(inflight') = Len(inflight)
    BY DEF EntryDone
  <2>2. ErrorsKnown'
    BY <1>1, ErrorsKept DEF SlotsInv
  <2> QED
    BY <1>1, <1>3, <2>1, <2>2 DEF SlotsInv, Scheduling
<1>5. BatchInv'
  BY <1>1, BatchNone DEF BatchInv
<1> QED
  BY <1>1, <1>4, <1>5

LEMMA SkipEntryAccounts ==
  ASSUME ShapesInv, ShapesInv', QueuesInv, AccountsInv, SkipEntry
  PROVE  AccountsInv'
<1> USE DEF ShapesInv
<1>1. step \in HandlerLocals /\ req \in [Requests -> RequestRecord] /\ requests \subseteq Requests
  BY QueueTypes DEF Shapes
<1>2. SlotsInv /\ BatchInv /\ \A s \in Requests : Account(s)
  BY DEF AccountsInv
<1>3. PICK e \in BatchEntry : e = Head(step.todo)
  BY NextEntryIs DEF SkipEntry
<1>4. PICK r \in Requests : r = e.r
  BY <1>3 DEF BatchEntry
<1>5. /\ step'.todo = Tail(step.todo) /\ step'.phase = step.phase /\ step'.batch = step.batch
      /\ step'.threshold = step.threshold /\ step'.errors = step.errors
      /\ step'.received = step.received /\ step.phase = "update" /\ step.todo # <<>>
  <2>1. step' = WithTodo(step, Tail(step.todo)) /\ Tail(step.todo) \in Seq(BatchEntry)
    BY NextEntryIs DEF SkipEntry, WithTodo
  <2> QED
    BY <1>1, <2>1, WithTodoIs DEF SkipEntry, NextEntry
<1>6. /\ UNCHANGED <<requests, recv, failed, inflight>>
      /\ r \in requests => Discarded(req[r], e) \/ ~e.samples
      /\ req' = IF r \in requests THEN [req EXCEPT ![r] = Drain(req[r], e)] ELSE req
  BY <1>3, <1>4 DEF SkipEntry, xfer
<1>7. EntryDone(e, 0)
  <2>1. ASSUME NEW j \in 1 .. Len(inflight) PROVE StepBack(inflight[j].batch, inflight'[j].batch, e.r, 0)
    <3>1. Pipeline(Slots) /\ j + 1 \in DOMAIN Slots /\ Slots[j + 1] = inflight[j].batch
      BY <1>2, SlotsAre
    <3> QED
      BY <1>6, <3>1, SameStepBack DEF Pipeline
  <2> QED
    BY <1>5, <1>6, <1>3, <2>1 DEF EntryDone
<1>8. \A s \in Requests \ {r} : req'[s] = req[s]
  BY <1>1, <1>6
<1>9. /\ req[r] \in RequestRecord
      /\ r \in requests =>
            /\ req'[r].inFlight = req[r].inFlight - e.n
            /\ req'[r].stale = StaleAfter(req[r].stale, e.n)
            /\ req'[r].drop = req[r].drop /\ req'[r].status = req[r].status /\ req'[r].spec = req[r].spec
            /\ SameTokens(req'[r], req[r]) /\ SameComputed(req'[r], req[r])
      /\ r \notin requests => req'[r] = req[r]
  <2>1. req[r] \in RequestRecord
    BY <1>1
  <2> QED
    BY <1>1, <1>6, <2>1, DrainIs DEF StaleAfter
<1>10. SlotsInv' /\ BatchInv' /\ step.batch = <<>>
  <2>1. \A s \in Requests : req'[s].status = req[s].status
    BY <1>8, <1>9
  <2> QED
    BY <1>2, <1>5, <1>7, <2>1, EntrySlots
<1>11. ASSUME NEW s \in Requests \ {r} PROVE Account(s)'
  <2>1. req'[s] = req[s]
    BY <1>8
  <2>2. BooksKept(s)
    BY <1>2, <1>7, <1>4, <2>1, OtherBooks DEF SamePipeline
  <2>3. s \in Unfinished => req[s].spec \in 0 .. NumSpecTokens
    BY <1>2 DEF Account, Bounded
  <2> QED
    BY <1>2, <1>5, <1>6, <2>1, <2>2, <2>3, AccountKept DEF SameTokens, SamePipeline, SameComputed
<1>12. CASE r \notin requests
  <2>1. req[r].status # "NEW"
    BY <1>2, <1>7, <1>4, EntryPipeline, SlotsAre DEF SlotsInv
  <2>2. req'[r].status = "FINISHED" /\ r \notin recv' \cup failed'
    BY <1>2, <1>6, <1>9, <1>12, <2>1 DEF Account, Unfinished
  <2>3. Account(r)'
    BY <1>2, <1>6, <1>9, <1>12, <2>2, AccountGone
  <2> QED
    BY <1>10, <1>11, <2>3 DEF AccountsInv
<1>13. CASE r \in requests
  <2>1. Balanced(r) /\ Account(r)
    BY <1>2, <1>13 DEF Account
  <2>2. PICK a : a = AwaitedOfEntry(e, r)
    OBVIOUS
  <2>3. /\ Balanced(r)' /\ Pending(r) \in Nat /\ Pending(r)' = Pending(r) - a
        /\ Follows(r) /\ req'[r].output = req[r].output + a - 0 => Follows(r)'
        /\ req[r].inFlight \in Nat /\ req[r].stale \in Nat /\ e.n > 0 /\ e.n <= req[r].inFlight
        /\ req[r].stale > 0 => req[r].stale >= e.n
    <3>1. Drains(e, r)
      BY <1>9, <1>13 DEF Drains
    <3>2. EntryBooks(e, r, 0, a)
      BY <1>2, <1>7, <1>4, <2>1, <2>2, <3>1, EntryAccount
    <3> QED
      BY <3>2 DEF EntryBooks
  <2>4. e.n \in Int /\ req[r].drop \in BOOLEAN
    BY <1>9, RequestTypes DEF BatchEntry
  <2>5. CASE req[r].status = "FINISHED"
    <3>1. r \notin recv' \cup failed'
      BY <1>6, <2>1, <2>5 DEF Account
    <3>2. Account(r)'
      BY <1>9, <1>13, <2>1, <2>3, <2>5, <3>1, AccountGone DEF SameTokens
    <3> QED
      BY <1>10, <1>11, <3>2 DEF AccountsInv
  <2>6. CASE req[r].status # "FINISHED"
    <3>1. r \in Unfinished
      BY <1>13, <2>6 DEF Unfinished
    <3>2. a = 0
      <4>1. CASE ~e.samples
        BY <2>2, <4>1 DEF AwaitedOfEntry
      <4>2. CASE req[r].stale > 0 /\ req[r].drop
        BY <2>2, <4>2 DEF Dropped, AwaitedOfEntry
      <4>3. CASE e.r \in step.errors
        <5>1. req[r].status = "WAITING_FOR_REMOTE_KVS"
          BY <1>2, <1>4, <2>6, <4>3 DEF SlotsInv, ErrorsKnown
        <5>2. Waits(r)
          BY <2>1, <3>1, <5>1 DEF Account
        <5>3. req[r].stale > 0 /\ req[r].drop
          BY <2>3, <2>4, <5>1, <5>2 DEF Waits
        <5> QED
          BY <4>2, <5>3
      <4> QED
        BY <1>6, <1>13, <2>6, <4>1, <4>2, <4>3 DEF Discarded
    <3>3. PICK o \in Int : o = req[r].output
      BY <1>9, RequestTypes
    <3>4. Pending(r)' = Pending(r) /\ (Follows(r) => Follows(r)')
      BY <1>9, <1>13, <2>3, <3>2, <3>3 DEF SameTokens
    <3>5. Bounded(req[r]) /\ Follows(r) /\ IF req[r].status = "RUNNING" THEN Runs(r) ELSE Waits(r)
      BY <2>1, <3>1 DEF Account
    <3>6. Bounded(req'[r])
      BY <1>9, <1>13, <3>5 DEF Bounded, SameTokens, SameComputed
    <3>7. req'[r].stale > 0 => req[r].stale > 0
      BY <1>9, <1>13, <2>3 DEF StaleAfter
    <3>8. Runs(r) => Runs(r)'
      BY <1>5, <1>9, <1>13, <3>4, <3>7 DEF Runs, Decodes, SameTokens, SameComputed
    <3>9. Waits(r) => Waits(r)'
      <4>1. ASSUME Waits(r) PROVE req'[r].stale = req'[r].inFlight
        BY <1>9, <1>13, <2>3, <2>4, <4>1 DEF Waits, StaleAfter
      <4> QED
        BY <1>6, <1>9, <1>13, <3>7, <4>1 DEF Waits, SameTokens, SameComputed
    <3>10. r \in Unfinished' /\ Unstarted(req'[r]) /\ req'[r].prompt = PromptTokens[r]
      <4>1. req[r].status # "NEW"
        BY <1>13 DEF QueuesInv, QueuesPlaced
      <4> QED
        BY <1>6, <1>9, <1>13, <2>1, <2>6, <4>1 DEF Unfinished, Unstarted, Account, SameTokens
    <3>11. r \in recv' \cup failed' => req'[r].status = "WAITING_FOR_REMOTE_KVS"
      BY <1>6, <1>9, <1>13, <2>1 DEF Account
    <3>12. Account(r)'
      BY <1>6, <1>9, <1>13, <2>3, <3>4, <3>5, <3>6, <3>8, <3>9, <3>10, <3>11 DEF Account
    <3> QED
      BY <1>10, <1>11, <3>12 DEF AccountsInv
  <2> QED
    BY <2>5, <2>6
<1> QED
  BY <1>12, <1>13

(* The counters of a request before and after g tokens of an entry with k   *)
(* drafts and n tokens are delivered.                                       *)
Delivered(q, t, k, g, n) ==
    /\ t.computed = IF q.stale <= 0 /\ q.computed > 0 THEN q.computed - (k + 1 - g) ELSE q.computed
    /\ t.placeholders =
          IF q.stale > 0 \/ ~AsyncScheduling THEN q.placeholders
          ELSE IF q.placeholders > 0 THEN q.placeholders - (k + 1 - g) - g
          ELSE q.placeholders - g
    /\ t.all = q.all + g /\ t.output = q.output + g /\ t.prompt = q.prompt /\ t.spec = q.spec
    /\ t.inFlight = q.inFlight - n /\ t.stale = StaleAfter(q.stale, n)

LEMMA DeliveredIs ==
  ASSUME NEW q \in RequestRecord, NEW e \in BatchEntry, NEW g \in Int, NEW t, t = Deliver(q, e, g, g)
  PROVE  /\ Delivered(q, t, e.k, g, e.n)
         /\ t.status = q.status /\ t.drop = q.drop /\ t.chunk = q.chunk /\ t \in RequestRecord
BY DeliverIs, DrainIs DEF Delivered, SamePipeline, StaleAfter

(* The bounds, whether the request runs or not.                             *)
LEMMA DeliveredBounds ==
  ASSUME NEW q \in RequestRecord, NEW t \in RequestRecord, NEW k \in Nat, NEW g \in Int, 1 <= g, g <= k + 1,
         NEW n, Delivered(q, t, k, g, n), Bounded(q), ~AtLimit(t), 0 <= t.computed
  PROVE  Bounded(t) /\ MaxModelLen \in Nat
<1>1. /\ q.prompt \in Int /\ q.all \in Int /\ q.output \in Int /\ q.computed \in Int
      /\ q.placeholders \in Int /\ q.spec \in Int
      /\ t.prompt \in Int /\ t.all \in Int /\ t.output \in Int /\ t.computed \in Int
  BY RequestTypes
<1>2. NumSpecTokens \in Nat /\ MaxModelLen \in Nat /\ MaxTokens \in Nat
  BY Parameters
<1>3. t.output < MaxTokens /\ t.all < MaxModelLen
  BY <1>1, <1>2 DEF AtLimit
<1>4. t.all = q.all + g /\ t.output = q.output + g /\ t.prompt = q.prompt /\ t.spec = q.spec
  BY DEF Delivered
<1>5. t.computed <= q.computed
  BY <1>1 DEF Delivered
<1>6. /\ q.prompt > 0 /\ q.all = q.prompt + q.output /\ q.output >= 0 /\ q.computed <= MaxModelLen - 1
      /\ q.spec \in 0 .. NumSpecTokens
      /\ ~AsyncScheduling => q.placeholders = 0 /\ q.computed <= q.all + NumSpecTokens
  BY <1>1, <1>2 DEF Bounded
<1>7. ~AsyncScheduling => t.placeholders = q.placeholders
  BY DEF Delivered
<1> QED
  BY <1>1, <1>2, <1>3, <1>4, <1>5, <1>6, <1>7 DEF Bounded

(* A request that decodes goes on doing so.                                 *)
LEMMA DeliveredDecoding ==
  ASSUME NEW q \in RequestRecord, NEW t \in RequestRecord, NEW k \in Nat, NEW g \in Int, 1 <= g, g <= k + 1,
         NEW n, Delivered(q, t, k, g, n), Bounded(q), ~AtLimit(t), q.stale = 0,
         NEW p \in Int, p >= 1 + k, q.computed = q.all - 1 + p, AsyncScheduling => q.placeholders = p
  PROVE  /\ Bounded(t) /\ t.stale = 0 /\ t.computed = t.all - 1 + (p - 1 - k)
         /\ AsyncScheduling => t.placeholders = p - 1 - k
<1>1. /\ q.prompt \in Int /\ q.all \in Int /\ q.output \in Int /\ q.computed \in Int
      /\ q.placeholders \in Int /\ t.all \in Int /\ t.computed \in Int /\ t.placeholders \in Int
  BY RequestTypes
<1>2. q.all > 0
  BY <1>1 DEF Bounded
<1>3. q.computed > 0
  BY <1>1, <1>2
<1>4. t.stale = 0 /\ t.computed = q.computed - (k + 1 - g) /\ t.all = q.all + g
  BY <1>3 DEF Delivered, StaleAfter
<1>5. t.computed = t.all - 1 + (p - 1 - k)
  BY <1>1, <1>4
<1>6. t.computed >= 0
  BY <1>1, <1>2, <1>4
<1>7. AsyncScheduling => t.placeholders = p - 1 - k
  <2>1. AsyncScheduling => t.placeholders = q.placeholders - (k + 1 - g) - g
    BY <1>1 DEF Delivered
  <2> QED
    BY <1>1, <2>1
<1> QED
  BY <1>4, <1>5, <1>6, <1>7, DeliveredBounds

(* The request of an entry whose tokens are delivered, if it goes on: a     *)
(* running one keeps decoding, a preempted one waits for the rest of its    *)
(* stale steps.                                                             *)
GoesOn(e, g, k, n, x, q, t) ==
    /\ k = e.k /\ n = e.n /\ x = k + 1 - g /\ 1 <= g /\ g <= k + 1
    /\ t = Deliver(q, e, g, g) /\ e.samples /\ ~(q.stale > 0 /\ q.drop) /\ ~AtLimit(t)

LEMMA GoesOnDelivered ==
  ASSUME NEW e \in BatchEntry, NEW g \in Int, NEW k, NEW n, NEW x, NEW q \in RequestRecord, NEW t,
         GoesOn(e, g, k, n, x, q, t)
  PROVE  Delivered(q, t, k, g, n) /\ t.status = q.status /\ t.drop = q.drop /\ t.chunk = q.chunk
<1>1. k = e.k /\ n = e.n /\ t = Deliver(q, e, g, g)
  BY DEF GoesOn
<1>2. Delivered(q, t, e.k, g, e.n) /\ t.status = q.status /\ t.drop = q.drop /\ t.chunk = q.chunk
  BY <1>1, DeliveredIs
<1> QED
  BY <1>1, <1>2

LEMMA DeliveredAccount ==
  ASSUME Shapes, Shapes', SlotsInv, NEW e \in BatchEntry, NEW g \in Int, NEW k \in Nat, NEW n \in Int,
         NEW x \in Int, NEW q \in RequestRecord, NEW t \in RequestRecord, GoesOn(e, g, k, n, x, q, t),
         NEW r \in Requests, EntryDone(e, x), r = e.r, r \in Unfinished, r \in requests', Account(r),
         req[r].status # "NEW", step.batch = <<>>, recv' = recv, failed' = failed,
         req[r] = q, req'[r] = t
  PROVE  Account(r)'
<1>1. /\ Delivered(q, t, k, g, n) /\ t.status = q.status /\ t.drop = q.drop /\ t.chunk = q.chunk
  BY GoesOnDelivered
<1>2. /\ t.inFlight = q.inFlight - n /\ t.stale = StaleAfter(q.stale, n) /\ t.output = q.output + g
      /\ t.all = q.all + g /\ t.prompt = q.prompt
  BY <1>1 DEF Delivered
<1>3. /\ q.all \in Int /\ q.output \in Int /\ q.computed \in Int /\ q.stale \in Int /\ q.drop \in BOOLEAN
      /\ t.all \in Int /\ t.computed \in Int /\ MaxModelLen \in Nat
  BY RequestTypes, Parameters
<1>4. Balanced(r) /\ Bounded(q) /\ Follows(r) /\ IF q.status = "RUNNING" THEN Runs(r) ELSE Waits(r)
  BY DEF Account, Unfinished
<1>5. k = e.k /\ n = e.n /\ x = k + 1 - g /\ 1 <= g /\ g <= k + 1 /\ ~AtLimit(t)
  BY DEF GoesOn
<1>6. ~(q.stale > 0 /\ q.drop)
  BY DEF GoesOn
<1>7. PICK a : a = AwaitedOfEntry(e, r)
  OBVIOUS
<1>8. /\ Balanced(r)' /\ Pending(r) \in Nat /\ a <= Pending(r) /\ Pending(r)' = Pending(r) - a
      /\ Follows(r) /\ req'[r].output = req[r].output + a - x => Follows(r)'
      /\ q.inFlight \in Nat /\ q.stale \in Nat /\ n > 0 /\ n <= q.inFlight
      /\ q.stale > 0 => q.stale >= n
  <2>1. Drains(e, r)
    BY <1>1, <1>2, <1>5 DEF Drains
  <2>2. Balanced(r)
    BY <1>4
  <2>3. EntryBooks(e, r, x, a)
    BY <1>7, <2>1, <2>2, EntryAccount
  <2> QED
    BY <1>5, <2>3 DEF EntryBooks
<1>9. a = 1 + k
  BY <1>3, <1>7, <1>8 DEF Dropped, GoesOn, AwaitedOfEntry
<1>10. PICK p \in Int : p = Pending(r) /\ p >= 1 + k /\ Pending(r)' = p - 1 - k
  <2>1. PICK p \in Int : p = Pending(r)
    BY <1>8
  <2> QED
    BY <1>8, <1>9, <2>1
<1>11. Follows(r)'
  <2>1. t.output = q.output + a - x
    <3>1. \A u, v, w \in Int : u + v = u + (1 + w) - (w + 1 - v)
      OBVIOUS
    <3>2. t.output = q.output + g /\ a = 1 + k /\ x = k + 1 - g
      BY <1>2, <1>9, <1>5
    <3>3. q.output \in Int /\ g \in Int /\ k \in Int
      BY <1>3
    <3>4. q.output + g = q.output + (1 + k) - (k + 1 - g)
      BY <3>1, <3>3
    <3> QED
      BY ONLY <3>2, <3>4
  <2> QED
    BY <1>4, <1>8, <2>1
<1>12. CASE q.status = "RUNNING"
  <2>1. Runs(r)
    BY <1>4, <1>12
  <2>2. q.stale = 0
    <3>1. q.stale > 0 => q.drop
      BY <2>1 DEF Runs
    <3> QED
      BY <1>8, <1>6, <3>1
  <2>3. q.computed = q.all - 1 + p /\ (AsyncScheduling => q.placeholders = p)
    BY <1>10, <2>1 DEF Runs, Decodes
  <2>4. /\ Bounded(t) /\ t.stale = 0 /\ t.computed = t.all - 1 + (p - 1 - k)
        /\ AsyncScheduling => t.placeholders = p - 1 - k
    <3>1. Delivered(q, t, k, g, n) /\ Bounded(q) /\ ~AtLimit(t) /\ 1 <= g /\ g <= k + 1 /\ p >= 1 + k
      BY <1>1, <1>4, <1>10, <1>5
    <3> QED
      BY <2>2, <2>3, <3>1, DeliveredDecoding
  <2>5. Runs(r)'
    BY <1>10, <2>4 DEF Runs, Decodes
  <2>6. r \notin recv \cup failed /\ q.prompt = PromptTokens[r]
    BY <1>12 DEF Account
  <2> QED
    BY <1>1, <1>2, <1>8, <1>11, <1>12, <2>4, <2>5, <2>6 DEF Account, Unfinished, Unstarted
<1>13. CASE q.status # "RUNNING"
  <2>1. Waits(r)
    BY <1>4, <1>13
  <2>2. q.stale = q.inFlight /\ q.stale > 0 /\ q.placeholders = 0 /\ q.computed <= q.all
    BY <1>8, <2>1 DEF Waits
  <2>3. q.status = "PREEMPTED" /\ q.computed < q.all
    BY <1>3, <1>6, <2>1, <2>2 DEF Waits
  <2>4. t.computed = q.computed /\ t.placeholders = 0 /\ t.stale = t.inFlight
    BY <1>1, <1>2, <1>8, <2>2 DEF StaleAfter, Delivered
  <2>5. t.computed < t.all /\ t.computed <= t.all
    BY <1>2, <1>3, <1>5, <2>3, <2>4, SMTT(60)
  <2>6. Bounded(t)
    <3>1. 0 <= t.computed
      BY <1>3, <1>4, <2>4 DEF Bounded
    <3> QED
      BY <1>1, <1>4, <1>5, <3>1, DeliveredBounds
  <2>7. Waits(r)'
    BY <1>1, <2>3, <2>4, <2>5 DEF Waits
  <2>8. r \notin recv \cup failed /\ q.prompt = PromptTokens[r]
    BY <2>3 DEF Account
  <2> QED
    BY <1>1, <1>2, <1>8, <1>11, <1>13, <2>3, <2>6, <2>7, <2>8 DEF Account, Unfinished, Unstarted
<1> QED
  BY <1>12, <1>13

LEMMA UpdateEntryAccounts ==
  ASSUME ShapesInv, ShapesInv', QueuesInv, AccountsInv, NoSessions,
         NEW g \in Int, NEW m \in Int, NEW eos \in BOOLEAN, UpdateEntry(g, m, eos)
  PROVE  AccountsInv'
<1> USE DEF ShapesInv
<1>1. /\ step \in HandlerLocals /\ req \in [Requests -> RequestRecord] /\ requests \subseteq Requests
      /\ step.stoppedRunning \subseteq Requests /\ step.stoppedOther \subseteq Requests
  BY QueueTypes, LocalsTypes DEF Shapes
<1>2. SlotsInv /\ BatchInv /\ \A s \in Requests : Account(s)
  BY DEF AccountsInv
<1>3. PICK e \in BatchEntry : e = Head(step.todo)
  BY NextEntryIs DEF UpdateEntry
<1>4. PICK r \in Requests : r = e.r
  BY <1>3, SMTT(60) DEF BatchEntry
<1>5. /\ r \in requests /\ e.samples /\ ~Discarded(req[r], e) /\ req[r] \in RequestRecord
      /\ g \in 1 .. e.k + 1 /\ m \in 1 .. g /\ step.phase = "update" /\ step.todo # <<>>
      /\ inflight' = Rebased(r, e.k + 1 - g) /\ UNCHANGED <<recv, failed>>
  BY <1>1, <1>3, <1>4 DEF UpdateEntry, NextEntry, xfer
<1>6. e.k \in Int /\ e.k + 1 - g \in Int
  BY DEF BatchEntry
<1> DEFINE q == Deliver(req[r], e, g, m)
           stopped == eos \/ AtLimit(q)
           sr == IF stopped /\ q.status = "RUNNING" THEN step.stoppedRunning \cup {r}
                 ELSE step.stoppedRunning
           so == IF stopped /\ q.status # "RUNNING" THEN step.stoppedOther \cup {r}
                 ELSE step.stoppedOther
<1>7. q \in RequestRecord /\ q.status = req[r].status /\ q.prompt = req[r].prompt
  BY <1>5, DeliverIs
<1>8. /\ step'.todo = Tail(step.todo) /\ step'.phase = step.phase /\ step'.batch = step.batch
      /\ step'.threshold = step.threshold /\ step'.errors = step.errors
      /\ step'.received = step.received
  <2>1. step' = WithStopped(step, Tail(step.todo), sr, so)
    BY <1>3, <1>4, SMTT(60) DEF UpdateEntry, WithStopped
  <2>2. Tail(step.todo) \in Seq(BatchEntry) /\ sr \subseteq Requests /\ so \subseteq Requests
    BY <1>1, NextEntryIs DEF UpdateEntry
  <2> HIDE DEF sr, so
  <2>3. PICK d \in Seq(BatchEntry), F \in SUBSET Requests, G \in SUBSET Requests :
          step' = WithStopped(step, d, F, G) /\ d = Tail(step.todo)
    BY <2>1, <2>2
  <2> DEFINE t == WithStopped(step, d, F, G)
  <2>4. /\ t.todo = d /\ t.phase = step.phase /\ t.batch = step.batch /\ t.threshold = step.threshold
        /\ t.errors = step.errors /\ t.received = step.received
    BY <1>1, WithStoppedIs
  <2> HIDE DEF t
  <2> QED
    BY <2>3, <2>4, SMTT(60) DEF t
<1>9. EntryDone(e, e.k + 1 - g)
  <2>1. Len(inflight') = Len(inflight) /\ inflight \in Seq(DispatchedStep)
    BY <1>5, <1>6, RebasedIs, ZenonT(60) DEF Shapes
  <2>2. ASSUME NEW j \in 1 .. Len(inflight)
        PROVE  StepBack(inflight[j].batch, inflight'[j].batch, e.r, e.k + 1 - g)
    <3>1. Pipeline(Slots) /\ j + 1 \in DOMAIN Slots /\ Slots[j + 1] = inflight[j].batch
      BY <1>2, SlotsAre
    <3>2. PICK b : b = inflight[j].batch /\ StepOf(b)
      BY <3>1 DEF Pipeline
    <3>3. inflight'[j].batch = MovedBack(b, r, e.k + 1 - g)
      <4>1. j \in DOMAIN inflight /\ inflight[j] \in DispatchedStep
        BY <2>1
      <4> QED
        BY <1>5, <3>2, <4>1 DEF Rebased, DispatchedStep
    <3> QED
      BY <1>6, <1>4, <3>2, <3>3, MovedBackStep DEF StepBack
  <2> QED
    BY <1>5, <1>8, <1>3, <2>1, <2>2 DEF EntryDone
<1>10. CASE ~stopped
  <2>1. req' = [req EXCEPT ![r] = q] /\ requests' = requests
    BY <1>10, <1>3, <1>4 DEF UpdateEntry
  <2>2. m = g
    <3>1. m < g => stopped
      BY <1>3, <1>4 DEF UpdateEntry
    <3> QED
      BY <1>5, <1>10, <3>1, SMTT(60)
  <2>3. req'[r] = Deliver(req[r], e, g, g) /\ ~AtLimit(req'[r]) /\ \A s \in Requests \ {r} : req'[s] = req[s]
    BY <1>1, <1>10, <2>1, <2>2
  <2>4. \A s \in Requests : req'[s].status = req[s].status
    BY <1>1, <1>7, <2>1
  <2> HIDE DEF q, stopped, sr, so
  <2>5. SlotsInv' /\ BatchInv' /\ step.batch = <<>>
    BY <1>2, <1>8, <1>9, <1>6, <2>4, EntrySlots
  <2>6. ASSUME NEW s \in Requests \ {r} PROVE Account(s)'
    <3>1. req'[s] = req[s]
      BY <2>3
    <3>2. BooksKept(s)
      BY <1>2, <1>9, <1>6, <1>4, <3>1, OtherBooks DEF SamePipeline
    <3>3. s \in Unfinished => req[s].spec \in 0 .. NumSpecTokens
      BY <1>2 DEF Account, Bounded
    <3> QED
      BY <1>2, <1>5, <1>8, <2>1, <3>1, <3>2, <3>3, AccountKept DEF SameTokens, SamePipeline, SameComputed
  <2>7. Account(r)'
    <3>1. ~(req[r].stale > 0 /\ req[r].drop) /\ req[r].status # "FINISHED"
      BY <1>5 DEF Discarded
    <3>2. r \in Unfinished /\ r \in requests' /\ req[r].status # "NEW" /\ Account(r)
      BY <1>2, <1>5, <2>1, <3>1 DEF Unfinished, QueuesInv, QueuesPlaced
    <3>3. PICK q0 \in RequestRecord, t \in RequestRecord : q0 = req[r] /\ t = req'[r]
      BY DEF Shapes
    <3>4. PICK k \in Nat, n \in Int, x \in Int : k = e.k /\ n = e.n /\ x = k + 1 - g /\ 1 <= g /\ g <= k + 1
      <4>1. e.k \in 0 .. NumSpecTokens /\ NumSpecTokens \in Nat /\ e.n \in Int
        BY <1>2, <1>9, <1>6, EntryPipeline, Parameters DEF BatchEntry
      <4>2. e.k \in Nat /\ 1 <= g /\ g <= e.k + 1
        BY <1>5, <4>1
      <4> QED
        BY <1>6, <4>1, <4>2
    <3>5. EntryDone(e, x)
      BY <1>9, <3>4
    <3>6. t = Deliver(q0, e, g, g) /\ ~(q0.stale > 0 /\ q0.drop) /\ ~AtLimit(t)
      BY <2>3, <3>1, <3>3
    <3>7. GoesOn(e, g, k, n, x, q0, t)
      BY <1>5, <3>4, <3>6, SMTT(60) DEF GoesOn
    <3> QED
      BY <1>2, <1>5, <1>4, <2>5, <3>2, <3>3, <3>5, <3>7, DeliveredAccount
  <2> QED
    BY <2>5, <2>6, <2>7 DEF AccountsInv
<1>11. CASE stopped
  <2>1. Stop(r, q)
    BY <1>11, <1>3, <1>4 DEF UpdateEntry
  <2>2. /\ req' = [req EXCEPT ![r] = WithStatus(q, "FINISHED")] /\ "FINISHED" \in Status
        /\ requests' \in {requests \ {r}, requests}
    BY <2>1 DEF Stop, FreeRequest, NoSessions, WithStatus, Status
  <2>8. /\ q.inFlight = req[r].inFlight - e.n /\ q.stale = StaleAfter(req[r].stale, e.n)
        /\ q.drop = req[r].drop
    BY <1>5, DeliverIs, DrainIs DEF SamePipeline, StaleAfter
  <2> HIDE DEF q, stopped, sr, so
  <2>3. /\ req'[r].status = "FINISHED" /\ req'[r].prompt = req[r].prompt
        /\ \A s \in Requests \ {r} : req'[s] = req[s]
        /\ SamePipeline(req'[r], q)
    BY <1>1, <1>7, <2>2, WithStatusIs DEF SameTokens
  <2>4. SlotsInv' /\ BatchInv' /\ step.batch = <<>>
    <3>1. \A s \in Requests : req'[s].status = req[s].status \/ req'[s].status = "FINISHED"
      BY <2>3
    <3> QED
      BY <1>2, <1>8, <1>9, <1>6, <3>1, EntrySlots
  <2>5. ASSUME NEW s \in Requests \ {r} PROVE Account(s)'
    <3>1. req'[s] = req[s] /\ (s \in requests' <=> s \in requests)
      BY <2>2, <2>3
    <3>2. BooksKept(s)
      BY <1>2, <1>9, <1>6, <1>4, <3>1, OtherBooks DEF SamePipeline
    <3>3. s \in Unfinished => req[s].spec \in 0 .. NumSpecTokens
      BY <1>2 DEF Account, Bounded
    <3> QED
      BY <1>2, <1>5, <1>8, <3>1, <3>2, <3>3, AccountKept DEF SameTokens, SamePipeline, SameComputed
  <2>6. r \notin recv' \cup failed'
    <3>1. SUFFICES ASSUME r \in recv \cup failed PROVE FALSE
      BY <1>5
    <3>2. r \in Unfinished /\ req[r].status = "WAITING_FOR_REMOTE_KVS" /\ Waits(r) /\ Balanced(r)
      BY <1>2, <1>5, <3>1 DEF Account
    <3>3. PICK a : a = SlotTokens(Slots[1], r)
      OBVIOUS
    <3>4. req[r].inFlight > 0
      <4>1. /\ Returned(Slots, Slots', r, e.k + 1 - g) /\ BalancedOf(Slots, r, req[r].inFlight, req[r].stale)
        BY <1>2, <1>9, <1>6, <1>4, <3>2, EntryPipeline, BooksAre
      <4>2. FALSE \in BOOLEAN
        OBVIOUS
      <4>3. a > 0 /\ req[r].inFlight \in Nat /\ a \in Nat /\ a <= req[r].inFlight
        BY <1>6, <3>3, <4>1, <4>2, DrainBooks
      <4> QED
        BY <4>3
    <3>5. req[r].drop \in BOOLEAN
      BY <1>5, RequestTypes
    <3> QED
      BY <1>5, <3>2, <3>4, <3>5 DEF Waits, Discarded
  <2>9. Balanced(r)'
    <3>1. Drains(e, r)
      BY <2>3, <2>8 DEF Drains, SamePipeline
    <3>2. Balanced(r)
      BY <1>2, <1>5 DEF Account
    <3>3. PICK a : a = AwaitedOfEntry(e, r)
      OBVIOUS
    <3>4. EntryBooks(e, r, e.k + 1 - g, a)
      BY <1>2, <1>4, <1>6, <1>9, <3>1, <3>2, <3>3, EntryAccount
    <3> QED
      BY <3>4 DEF EntryBooks
  <2>7. Account(r)'
    BY <1>2, <2>3, <2>6, <2>9, AccountGone
  <2> QED
    BY <2>4, <2>5, <2>7 DEF AccountsInv
<1> QED
  BY <1>10, <1>11

-------------------------------------------------------------------------------
(* The ends of the two handlers, and how update_from_output begins.         *)

LEMMA EndUpdateAccounts ==
  ASSUME ShapesInv, ShapesInv', QueuesInv, AccountsInv, EndUpdate
  PROVE  AccountsInv'
<1> USE DEF ShapesInv
<1>1. req \in [Requests -> RequestRecord]
  BY DEF Shapes
<1>2. SlotsInv /\ BatchInv /\ \A s \in Requests : Account(s)
  BY DEF AccountsInv
<1>3. /\ step.phase = "transfers" /\ UNCHANGED <<requests, recv, failed, inflight>> /\ step' = Idle
  BY DEF EndUpdate, xfer
<1>4. /\ step'.batch = <<>> /\ step'.todo = <<>> /\ step'.threshold = 0 /\ step'.errors = {}
      /\ step'.received = {} /\ step'.phase = "idle" /\ step.batch = <<>> /\ step.todo = <<>>
  BY <1>3, HandlerIs, IdleAccounts, IdleFields
<1>5. ASSUME NEW r \in Requests
      PROVE  /\ req'[r].status = req[r].status
             /\ SameTokens(req'[r], req[r]) /\ SamePipeline(req'[r], req[r]) /\ SameComputed(req'[r], req[r])
             /\ r \in Unfinished => req'[r].spec \in 0 .. NumSpecTokens
             /\ req[r].status = "NEW" => req'[r].spec = req[r].spec
  <2>1. PICK t : t = req'[r]
    OBVIOUS
  <2>2. PICK q \in RequestRecord : q = req[r] /\ t = req'[r]
    BY <1>1, <2>1
  <2>3. CASE t = q
    <3>1. r \in Unfinished => Bounded(q)
      BY <1>2, <2>2 DEF Account
    <3> QED
      BY <2>2, <2>3, <3>1 DEF SameTokens, SamePipeline, SameComputed, Bounded
  <2>4. CASE r \in requests /\ t = WithDrafts(q)
    <3>1. PICK x \in 0 .. NumSpecTokens : x = IF q.chunk THEN 0 ELSE NumSpecTokens
      BY Parameters
    <3>2. t = WithSpec(q, x) /\ x \in Int
      BY <2>4, <3>1, Parameters DEF WithDrafts, WithSpec
    <3>3. req[r].status # "NEW"
      BY <2>4 DEF QueuesInv, QueuesPlaced
    <3> QED
      BY <2>2, <3>2, <3>3, WithSpecIs
  <2>5. t = q \/ (r \in requests /\ t = WithDrafts(q))
    BY <1>1, <2>2 DEF EndUpdate
  <2> QED
    BY <2>3, <2>4, <2>5
<1>6. SlotsInv' /\ Slots' = Slots
  BY <1>2, <1>3, <1>4, <1>5, ErrorsNone, SlotsStay DEF Scheduling
<1>7. BatchInv'
  BY <1>4, BatchNone
<1>8. ASSUME NEW r \in Requests PROVE Account(r)'
  <2>1. BooksKept(r)
    BY <1>5, <1>6, QuietBooks DEF SameTokens
  <2> QED
    BY <1>2, <1>3, <1>4, <1>5, <2>1, AccountKept
<1> QED
  BY <1>6, <1>7, <1>8 DEF AccountsInv

(* The oldest step becomes the one update_from_output goes through.         *)
LEMMA NextStepSlots ==
  ASSUME Shapes, Shapes', SlotsInv, inflight # <<>>, step.todo = <<>>,
         inflight' = Tail(inflight), step'.todo = Head(inflight).batch
  PROVE  /\ Len(Slots') \in Nat /\ Len(Slots') > 0 /\ Len(Slots) = Len(Slots') + 1
         /\ DOMAIN Slots' = 1 .. Len(Slots') /\ Slots[1] = <<>> /\ Pipeline(Slots)
         /\ \A j \in 1 .. Len(Slots') : j + 1 \in DOMAIN Slots /\ Slots'[j] = Slots[j + 1]
         /\ Len(inflight') < Len(inflight) /\ Len(inflight') \in Nat /\ Len(inflight) \in Nat
<1>1. /\ Pipeline(Slots) /\ Len(Slots) = Len(inflight) + 1 /\ DOMAIN Slots = 1 .. Len(inflight) + 1
      /\ Len(inflight) \in Nat /\ Slots[1] = step.todo
      /\ \A j \in 1 .. Len(inflight) : Slots[j + 1] = inflight[j].batch
  BY SlotsAre
<1>2. /\ Len(Slots') \in Nat /\ Len(Slots') > 0
      /\ Len(Slots') = Len(inflight') + 1 /\ DOMAIN Slots' = 1 .. Len(inflight') + 1
      /\ Slots'[1] = step'.todo
      /\ \A j \in 1 .. Len(inflight') : Slots'[j + 1] = inflight'[j].batch
  BY SlotsBecome
<1>3. PICK s \in Seq(DispatchedStep) : s = inflight /\ s # <<>>
  BY DEF Shapes
<1>4. /\ Len(Tail(s)) = Len(s) - 1 /\ Len(s) \in Nat /\ Len(s) > 0 /\ Head(s) = s[1]
      /\ \A i \in 1 .. Len(s) - 1 : Tail(s)[i] = s[i + 1]
  BY <1>3
<1>5. PICK n \in Nat : n = Len(s) - 1
  BY <1>4
<1>6. /\ Len(inflight) = n + 1 /\ Len(inflight') = n /\ inflight[1].batch = step'.todo
      /\ \A i \in 1 .. n : inflight'[i] = inflight[i + 1]
  BY <1>3, <1>4, <1>5
<1>7. ASSUME NEW j \in 1 .. n + 1 PROVE j + 1 \in DOMAIN Slots /\ Slots'[j] = Slots[j + 1]
  <2>1. j + 1 \in DOMAIN Slots /\ Slots[j + 1] = inflight[j].batch
    BY <1>1, <1>6
  <2>2. CASE j = 1
    BY <1>2, <1>6, <2>1, <2>2
  <2>3. CASE j # 1
    <3>1. PICK i \in 1 .. n : j = i + 1
      <4>1. j - 1 \in 1 .. n /\ j = (j - 1) + 1
        BY <2>3
      <4> QED
        BY <4>1
    <3> QED
      BY <1>2, <1>6, <2>1, <3>1
  <2> QED
    BY <2>2, <2>3
<1>8. Len(Slots') = n + 1 /\ Len(Slots) = n + 2
  BY <1>1, <1>2, <1>6
<1> QED
  BY <1>1, <1>2, <1>6, <1>7, <1>8

LEMMA NextStepBooks ==
  ASSUME Shapes, Shapes', SlotsInv, inflight # <<>>, step.todo = <<>>,
         inflight' = Tail(inflight), step'.todo = Head(inflight).batch,
         NEW r \in Requests, SamePipeline(req'[r], req[r]), req'[r].output = req[r].output
  PROVE  BooksKept(r)
<1>1. Dropped(r) \in Int /\ Dropped(r)' = Dropped(r)
  <2>1. PICK q \in RequestRecord : q = req[r]
    BY DEF Shapes
  <2>2. q.stale \in Int
    BY RequestTypes
  <2> QED
    BY <2>1, <2>2 DEF Dropped, SamePipeline
<1>2. PICK S, R, d : S = Slots /\ R = Slots' /\ d = Dropped(r)
  OBVIOUS
<1>3. /\ Pipeline(S) /\ Len(R) \in Nat /\ Len(R) > 0 /\ Len(S) = Len(R) + 1
      /\ DOMAIN R = 1 .. Len(R) /\ S[1] = <<>> /\ \A j \in 1 .. Len(R) : R[j] = S[j + 1]
      /\ d \in Int
  BY <1>1, <1>2, NextStepSlots
<1>4. /\ \A f, s : BalancedOf(S, r, f, s) => BalancedOf(R, r, f, s)
      /\ PendingOf(R, r, d) = PendingOf(S, r, d)
      /\ \A out : FollowsOf(S, r, d, out) => FollowsOf(R, r, d, out)
  BY <1>3, ShiftBooks, ZenonT(60)
<1> QED
  BY <1>1, <1>2, <1>4, BooksAre, BooksBecome DEF BooksKept, SamePipeline

(* A load whose blocks failed: the tokens before the first of them stay.    *)
LEMMA TruncatedAccount ==
  ASSUME NEW r \in Requests, r \in Unfinished, Account(r), req[r].status = "WAITING_FOR_REMOTE_KVS",
         NEW q \in RequestRecord, req[r] = q, NEW c \in Nat, c < q.computed,
         req'[r] = WithComputed(q, c), requests' = requests, BooksKept(r)
  PROVE  Account(r)'
<1>1. Bounded(q) /\ Waits(r) /\ Balanced(r) /\ Follows(r) /\ q.prompt = PromptTokens[r]
  BY DEF Account, Unfinished
<1>2. q.computed \in Int /\ q.all \in Int /\ MaxModelLen \in Nat /\ NumSpecTokens \in Nat
  BY RequestTypes, Parameters
<1>3. q.computed \in Nat /\ q.computed < MaxModelLen /\ q.computed <= q.all
  BY <1>1, <1>2 DEF Bounded, Waits
<1>5. PICK t : t = req'[r]
  OBVIOUS
<1>6. /\ t.computed = c /\ t.placeholders = q.placeholders /\ t.chunk = q.chunk
      /\ t.status = q.status /\ t.spec = q.spec /\ SameTokens(t, q) /\ SamePipeline(t, q)
  BY <1>5, WithComputedIs
<1>7. c < q.all /\ c \in 0 .. MaxModelLen - 1 /\ c <= q.all + NumSpecTokens
  BY <1>2, <1>3
<1>8. Bounded(t)
  BY <1>1, <1>6, <1>7 DEF Bounded, SameTokens
<1>9. Waits(r)'
  <2>1. c < t.all /\ c <= t.all
    BY <1>2, <1>6, <1>7 DEF SameTokens
  <2> QED
    BY <1>1, <1>5, <1>6, <2>1 DEF Waits, SamePipeline
<1>10. r \in Unfinished' /\ t.prompt = PromptTokens[r] /\ Unstarted(t)
  BY <1>1, <1>5, <1>6 DEF Unfinished, Unstarted, SameTokens
<1>11. Balanced(r)' /\ Follows(r)'
  BY <1>1 DEF BooksKept
<1> QED
  BY <1>5, <1>6, <1>8, <1>9, <1>10, <1>11 DEF Account, Unfinished

LEMMA BeginUpdateAccounts ==
  ASSUME ShapesInv, ShapesInv', QueuesInv, AccountsInv, BeginUpdate
  PROVE  AccountsInv'
<1> USE DEF ShapesInv
<1>1. req \in [Requests -> RequestRecord]
  BY DEF Shapes
<1>2. SlotsInv /\ BatchInv /\ \A s \in Requests : Account(s)
  BY DEF AccountsInv
<1> DEFINE batch == Head(inflight).batch
<1>3. PICK bad \in InvalidBlocks(batch) :
        /\ req' = Truncated(bad)
        /\ failed' = failed \cup RetriedLoads(bad)
        /\ step' = WithOutput(Idle, "update", batch, BatchIds(batch), Reported, FailedLoads(bad))
  BY DEF BeginUpdate, WithOutput
<1>4. /\ step.phase = "idle" /\ inflight # <<>> /\ inflight' = Tail(inflight)
      /\ requests' = requests /\ recv' = recv /\ step.todo = <<>>
  BY HandlerIs DEF BeginUpdate
<1>5. batch \in Seq(BatchEntry)
  BY <1>4, HeadStep
<1>6. /\ DOMAIN bad \subseteq {r \in requests : req[r].status = "WAITING_FOR_REMOTE_KVS"}
      /\ \A r \in DOMAIN bad :
            bad[r] \in Nat /\ bad[r] * BlockSize < req[r].computed - SlotTokens(batch, r)
      /\ Reported \subseteq Requests /\ requests \subseteq Requests
  BY InvalidBlocksIs, ReportedType DEF Shapes
<1>7. /\ step'.phase = "update" /\ step'.todo = batch /\ step'.batch = <<>> /\ step'.threshold = 0
      /\ step'.errors = FailedLoads(bad)
  <2>1. /\ "update" \in Phases /\ BatchIds(batch) \subseteq Requests
        /\ FailedLoads(bad) \subseteq Requests /\ Reported \subseteq Requests
    BY <1>5, <1>6, BatchIdsType DEF Phases, FailedLoads
  <2> HIDE DEF batch
  <2>2. PICK s : s = WithOutput(Idle, "update", batch, BatchIds(batch), Reported, FailedLoads(bad))
    OBVIOUS
  <2>3. FailedLoads(bad) \in SUBSET Requests
    BY <2>1
  <2>4. /\ s.phase = "update" /\ s.todo = batch /\ s.batch = Idle.batch /\ s.threshold = Idle.threshold
        /\ s.received = Reported /\ s.errors = FailedLoads(bad)
    BY <1>5, <2>1, <2>2, <2>3, IdleType, WithOutputIs
  <2> QED
    BY <1>3, <2>1, <2>2, <2>4, IdleAccounts
<1> HIDE DEF batch
<1>8. ASSUME NEW r \in Requests
      PROVE  /\ req'[r].status = req[r].status /\ SamePipeline(req'[r], req[r])
             /\ SameTokens(req'[r], req[r])
             /\ r \notin DOMAIN bad => req'[r] = req[r]
             /\ r \in DOMAIN bad => req'[r] = WithComputed(req[r], bad[r] * BlockSize)
  <2>1. CASE r \in DOMAIN bad
    <3>1. PICK q \in RequestRecord, c \in Int : q = req[r] /\ c = bad[r] * BlockSize
      <4>1. bad[r] * BlockSize \in Int
        BY <1>6, <2>1, Parameters
      <4> QED
        BY <1>1, <4>1
    <3>2. req'[r] = WithComputed(q, c)
      BY <1>3, <2>1, <3>1, TruncatedIs
    <3> QED
      BY <2>1, <3>1, <3>2, WithComputedIs
  <2>2. CASE r \notin DOMAIN bad
    BY <1>3, <2>2, TruncatedIs DEF SamePipeline, SameTokens
  <2> QED
    BY <2>1, <2>2
<1>9. step'.todo = Head(inflight).batch
  BY <1>7 DEF batch
<1>10. BatchInv'
  BY <1>7, BatchNone
<1>13. StepOf(batch)
  <2>1. /\ Pipeline(Slots) /\ Len(Slots') > 0 /\ Len(Slots') \in Nat
        /\ \A j \in 1 .. Len(Slots') : j + 1 \in DOMAIN Slots /\ Slots'[j] = Slots[j + 1]
    BY <1>2, <1>4, <1>9, NextStepSlots
  <2>2. 2 \in DOMAIN Slots /\ Slots'[1] = Slots[2]
    BY <2>1
  <2>3. Slots'[1] = batch
    BY <1>7, SlotsBecome
  <2> QED
    BY <2>1, <2>2, <2>3 DEF Pipeline
<1>11. ASSUME NEW r \in Requests PROVE Account(r)'
  <2>1. BooksKept(r)
    <3>1. SamePipeline(req'[r], req[r]) /\ req'[r].output = req[r].output
      BY <1>8 DEF SameTokens
    <3> QED
      BY <1>2, <1>4, <1>9, <3>1, NextStepBooks
  <2>2. CASE r \in DOMAIN bad
    <3>1. r \in Unfinished /\ req[r].status = "WAITING_FOR_REMOTE_KVS"
      BY <1>6, <2>2 DEF Unfinished
    <3>2. PICK q \in RequestRecord : q = req[r]
      BY <1>1
    <3>3. PICK c \in Nat : c = bad[r] * BlockSize /\ c < q.computed
      <4>1. SlotTokens(batch, r) \in Nat
        BY <1>13, SlotTypes
      <4>2. bad[r] * BlockSize \in Nat
        BY <1>6, <2>2, Parameters
      <4>3. PICK c \in Nat : c = bad[r] * BlockSize
        BY <4>2
      <4>4. q.computed \in Int /\ c < q.computed - SlotTokens(batch, r)
        BY <1>6, <2>2, <3>2, <4>3, RequestTypes
      <4> QED
        BY <4>1, <4>3, <4>4
    <3>4. req'[r] = WithComputed(q, c)
      BY <1>8, <2>2, <3>2, <3>3
    <3> QED
      BY <1>2, <1>4, <2>1, <3>1, <3>2, <3>3, <3>4, TruncatedAccount
  <2>3. CASE r \notin DOMAIN bad
    <3>1. r \in failed' => r \in failed
      BY <1>3, <2>3 DEF RetriedLoads
    <3>2. req'[r] = req[r]
      BY <1>8, <2>3
    <3>3. r \in Unfinished => req[r].spec \in 0 .. NumSpecTokens
      BY <1>2 DEF Account, Bounded
    <3>4. step.batch = <<>>
      BY <1>4, HandlerIs
    <3> QED
      BY <1>2, <1>4, <1>7, <2>1, <3>1, <3>2, <3>3, <3>4, AccountKept DEF SameTokens, SamePipeline, SameComputed
  <2> QED
    BY <2>2, <2>3
<1>12. SlotsInv'
  <2>1. /\ DOMAIN Slots' = 1 .. Len(Slots') /\ Pipeline(Slots)
        /\ \A j \in 1 .. Len(Slots') : j + 1 \in DOMAIN Slots /\ Slots'[j] = Slots[j + 1]
        /\ Len(inflight') < Len(inflight) /\ Len(inflight') \in Nat /\ Len(inflight) \in Nat
    BY <1>2, <1>4, <1>9, NextStepSlots
  <2>2. ASSUME NEW j \in DOMAIN Slots'
        PROVE  WellFormed(Slots'[j]) /\ \A s \in BatchIds(Slots'[j]) : req'[s].status # "NEW"
    <3>1. PICK i \in DOMAIN Slots : Slots'[j] = Slots[i]
      BY <2>1
    <3>2. BatchIds(Slots[i]) \subseteq Requests
      BY <2>1, BatchIdsType DEF Pipeline, StepOf
    <3> QED
      BY <1>2, <1>8, <3>1, <3>2 DEF SlotsInv
  <2>3. Len(inflight') <= MaxConcurrentBatches
    BY <1>2, <2>1, Parameters DEF SlotsInv
  <2>4. ErrorsKnown'
    BY <1>6, <1>7, <1>8 DEF ErrorsKnown, FailedLoads
  <2> QED
    BY <1>7, <2>2, <2>3, <2>4 DEF SlotsInv, Scheduling
<1> QED
  BY <1>10, <1>11, <1>12 DEF AccountsInv

(* The step that schedule() filled becomes the youngest one in flight.      *)
Emits(b, c) ==
    /\ StepOf(b) /\ StepOf(c) /\ BatchIds(c) = BatchIds(b) /\ Slots' = Append(Slots, c)
    /\ \A r \in BatchIds(b) :
        /\ EntryOf(c, r).n = EntryOf(b, r).n /\ EntryOf(c, r).k = EntryOf(b, r).k
        /\ EntryOf(c, r).pos = EntryOf(b, r).pos
        /\ EntryOf(c, r).samples = ~req'[r].chunk

LEMMA EmittedEntry ==
  ASSUME NEW e \in BatchEntry, NEW x \in BOOLEAN, NEW f, f = [e EXCEPT !.samples = x]
  PROVE  /\ f \in BatchEntry /\ f.r = e.r /\ f.n = e.n /\ f.k = e.k /\ f.pos = e.pos
         /\ f.samples = x
BY DEF BatchEntry

LEMMA EmittedStep ==
  ASSUME Shapes, Shapes', SlotsInv, BatchInv, EndSchedule, NEW b, b = step.batch
  PROVE  \E c : Emits(b, c)
<1>1. /\ b \in Seq(BatchEntry) /\ WellFormed(b) /\ Len(b) \in Nat /\ DOMAIN b = 1 .. Len(b)
      /\ req \in [Requests -> RequestRecord] /\ req' \in [Requests -> RequestRecord]
      /\ inflight \in Seq(DispatchedStep) /\ BatchIds(b) \subseteq Requests
  <2>1. b \in Seq(BatchEntry)
    BY LocalsTypes DEF Shapes
  <2>2. Len(b) \in Nat /\ DOMAIN b = 1 .. Len(b)
    BY <2>1
  <2>3. WellFormed(b)
    BY DEF BatchInv
  <2>4. BatchIds(b) \subseteq Requests
    BY <2>1, BatchIdsType
  <2> QED
    BY <2>1, <2>2, <2>3, <2>4 DEF Shapes
<1>2. PICK d : /\ inflight' = Append(inflight, d)
               /\ d.batch = [i \in DOMAIN b |-> [b[i] EXCEPT !.samples = ~req'[b[i].r].chunk]]
  <2> DEFINE ids == BatchIds(step.batch)
             seq == IF DeferBlockFree /\ ids # {} THEN schedSeq + 1 ELSE schedSeq
             After(r) == IF r \in ids THEN AfterSchedule(req[r], EntryOf(step.batch, r), seq) ELSE req[r]
  <2>1. \A i \in DOMAIN step.batch : step.batch[i].r \in Requests
    BY <1>1 DEF BatchIds
  <2>2. req' = [r \in Requests |-> After(r)]
    BY DEF EndSchedule
  <2>3. inflight' = Append(inflight,
                [seq |-> seq, writes |-> UNION {owned[r] : r \in ids},
                 batch |-> [i \in DOMAIN step.batch |->
                     [step.batch[i] EXCEPT !.samples = ~After(step.batch[i].r).chunk]]])
    BY DEF EndSchedule
  <2> HIDE DEF After, seq, ids
  <2>4. \A i \in DOMAIN step.batch : After(step.batch[i].r) = req'[step.batch[i].r]
    BY <2>1, <2>2
  <2>5. PICK new : new = [i \in DOMAIN b |-> [b[i] EXCEPT !.samples = ~req'[b[i].r].chunk]]
    OBVIOUS
  <2>6. new = [i \in DOMAIN step.batch |-> [step.batch[i] EXCEPT !.samples = ~After(step.batch[i].r).chunk]]
    BY <2>4, <2>5
  <2>7. PICK d : d = [seq |-> seq, writes |-> UNION {owned[r] : r \in ids}, batch |-> new]
    OBVIOUS
  <2>8. inflight' = Append(inflight, d)
    BY <2>3, <2>6, <2>7
  <2>9. d.batch = new
    BY <2>7
  <2> QED
    BY <2>5, <2>8, <2>9
<1>3. PICK c : c = d.batch
  OBVIOUS
<1>4. ASSUME NEW i \in DOMAIN b
      PROVE  /\ c[i] \in BatchEntry /\ c[i].r = b[i].r /\ c[i].n = b[i].n /\ c[i].k = b[i].k
             /\ c[i].pos = b[i].pos /\ c[i].samples = ~req'[b[i].r].chunk
  <2>1. b[i] \in BatchEntry /\ b[i].r \in Requests
    BY <1>1 DEF BatchIds
  <2>2. PICK q \in RequestRecord : q = req'[b[i].r]
    BY <1>1, <2>1
  <2>3. PICK x \in BOOLEAN : x = ~q.chunk
    OBVIOUS
  <2>4. c[i] = [b[i] EXCEPT !.samples = x]
    BY <1>2, <1>3, <2>2, <2>3
  <2>5. /\ c[i] \in BatchEntry /\ c[i].r = b[i].r /\ c[i].n = b[i].n /\ c[i].k = b[i].k
        /\ c[i].pos = b[i].pos /\ c[i].samples = x
    BY <2>1, <2>4, EmittedEntry
  <2> QED
    BY <2>2, <2>3, <2>5
<1>5. c \in Seq(BatchEntry) /\ DOMAIN c = DOMAIN b
  <2>1. DOMAIN c = 1 .. Len(b) /\ c = [i \in 1 .. Len(b) |-> c[i]]
    BY <1>1, <1>2, <1>3
  <2>2. \A i \in 1 .. Len(b) : c[i] \in BatchEntry
    BY <1>1, <1>4
  <2>3. c \in [1 .. Len(b) -> BatchEntry]
    BY <2>1, <2>2
  <2> QED
    BY <1>1, <2>1, <2>3, SMTT(60)
<1>6. Alike(b, c) /\ StepOf(b)
  BY <1>1, <1>4, <1>5 DEF Alike, StepOf
<1>7. StepOf(c) /\ BatchIds(c) = BatchIds(b) /\ \A i \in DOMAIN b : EntryOf(b, b[i].r) = b[i] /\ EntryOf(c, b[i].r) = c[i]
  BY <1>6, AlikeStep
<1>8. ASSUME NEW r \in BatchIds(b)
      PROVE  /\ EntryOf(c, r).n = EntryOf(b, r).n /\ EntryOf(c, r).k = EntryOf(b, r).k
             /\ EntryOf(c, r).pos = EntryOf(b, r).pos
             /\ EntryOf(c, r).samples = ~req'[r].chunk
  <2>1. PICK i \in DOMAIN b : b[i].r = r
    BY DEF BatchIds
  <2> QED
    BY <1>4, <1>7, <2>1
<1>9. Slots' = Append(Slots, c)
  <2>1. /\ Len(Slots) = Len(inflight) + 1 /\ Len(inflight) \in Nat /\ Slots[1] = step.todo
        /\ \A j \in 1 .. Len(inflight) : Slots[j + 1] = inflight[j].batch
        /\ Slots \in Seq(Seq(BatchEntry))
    BY SlotsAre
  <2>2. PICK n \in Nat : n = Len(inflight)
    BY <2>1
  <2>3. /\ Len(inflight') = n + 1 /\ inflight'[n + 1] = d /\ \A j \in 1 .. n : inflight'[j] = inflight[j]
    <3>1. inflight' \in Seq(DispatchedStep)
      BY DEF Shapes
    <3> QED
      BY <1>1, <1>2, <2>2
  <2>4. /\ Slots' \in Seq(Seq(BatchEntry)) /\ Len(Slots') = n + 2 /\ Slots'[1] = step'.todo
        /\ \A j \in 1 .. n + 1 : Slots'[j + 1] = inflight'[j].batch
    <3>1. /\ Slots' \in Seq(Seq(BatchEntry)) /\ Len(Slots') = Len(inflight') + 1 /\ Slots'[1] = step'.todo
          /\ \A j \in 1 .. Len(inflight') : Slots'[j + 1] = inflight'[j].batch
      BY SlotsBecome
    <3>2. Len(Slots') = (n + 1) + 1 /\ (n + 1) + 1 = n + 2
      BY <2>3, <3>1
    <3> QED
      BY <2>3, <3>1, <3>2
  <2>5. step'.todo = <<>> /\ step.todo = <<>>
    BY IdleFields DEF EndSchedule, SlotsInv, Idle
  <2>6. PICK A : A = Append(Slots, c)
    OBVIOUS
  <2>7. /\ A \in Seq(Seq(BatchEntry)) /\ Len(A) = n + 2 /\ A[n + 2] = c
        /\ \A j \in 1 .. n + 1 : A[j] = Slots[j]
    BY <1>5, <2>1, <2>2, <2>6
  <2>8. ASSUME NEW j \in 1 .. n + 2 PROVE Slots'[j] = A[j]
    <3>1. CASE j = 1
      <4>1. 1 \in 1 .. n + 1 /\ 1 \in 1 .. n + 2
        BY <2>2
      <4>2. Slots'[1] = <<>> /\ A[1] = <<>>
        BY <2>1, <2>4, <2>5, <2>7, <4>1
      <4> QED
        BY <3>1, <4>2
    <3>2. CASE j = n + 2
      <4>1. n + 1 \in 1 .. n + 1 /\ (n + 1) + 1 = n + 2
        OBVIOUS
      <4> QED
        BY <1>3, <2>3, <2>4, <2>7, <3>2, <4>1
    <3>3. CASE j # 1 /\ j # n + 2
      <4>1. PICK i \in 1 .. n : j = i + 1
        <5>1. j - 1 \in 1 .. n /\ j = (j - 1) + 1
          BY <3>3
        <5> QED
          BY <5>1
      <4>2. i \in 1 .. n + 1 /\ j \in 1 .. n + 1
        BY <4>1
      <4> QED
        BY <2>1, <2>2, <2>3, <2>4, <2>7, <4>1, <4>2
    <3> QED
      BY <3>1, <3>2, <3>3
  <2>9. PICK B : B = Slots'
    OBVIOUS
  <2>10. B \in Seq(Seq(BatchEntry)) /\ Len(B) = n + 2 /\ \A j \in 1 .. n + 2 : B[j] = A[j]
    BY <2>4, <2>8, <2>9
  <2>11. A = B
    BY <2>7, <2>10
  <2> QED
    BY <2>6, <2>9, <2>11
<1> QED
  BY <1>6, <1>7, <1>8, <1>9 DEF Emits

LEMMA EmittedBooks ==
  ASSUME Shapes, SlotsInv, NEW b, NEW c, Emits(b, c), NEW r \in Requests, Balanced(r),
         req'[r].stale = req[r].stale, req'[r].drop = req[r].drop, req'[r].output = req[r].output
  PROVE  /\ req'[r].inFlight = req[r].inFlight + SlotTokens(c, r) => Balanced(r)'
         /\ Pending(r)' = Pending(r) + SlotOutputs(c, r) /\ Pending(r) \in Nat
         /\ /\ Follows(r)
            /\ SlotOutputs(c, r) > 0 => EntryOf(c, r).pos = req[r].output + Pending(r)
            => Follows(r)'
<1>1. /\ req[r].inFlight \in Nat /\ req[r].stale \in Nat /\ req[r].stale <= req[r].inFlight
      /\ Dropped(r) \in Nat /\ Pending(r) \in Nat
  BY BookTypes
<1>2. PICK S, R, d : S = Slots /\ R = Slots' /\ d = Dropped(r)
  OBVIOUS
<1>3. /\ Pipeline(S) /\ S \in Seq(Seq(BatchEntry)) /\ StepOf(c) /\ R = Append(S, c) /\ d \in Int
      /\ BalancedOf(S, r, req[r].inFlight, req[r].stale)
  BY <1>1, <1>2, SlotsAre, BooksAre DEF Emits
<1>4. d <= Total(TokensOf(S, r))
  <2>1. req[r].inFlight = Total(TokensOf(S, r))
    BY <1>3 DEF BalancedOf
  <2> QED
    BY <1>1, <1>2, <2>1 DEF Dropped
<1>5. /\ \A f \in Int : \A s : BalancedOf(S, r, f, s) => BalancedOf(R, r, f + SlotTokens(c, r), s)
      /\ PendingOf(R, r, d) = PendingOf(S, r, d) + SlotOutputs(c, r)
      /\ \A out :
            /\ FollowsOf(S, r, d, out)
            /\ SlotOutputs(c, r) > 0 => EntryOf(c, r).pos = out + PendingOf(S, r, d)
            => FollowsOf(R, r, d, out)
  <2>1. Pipeline(S) /\ S \in Seq(Seq(BatchEntry)) /\ StepOf(c) /\ R = Append(S, c) /\ d \in Int
    BY <1>3
  <2>2. Dispatches(S, R, c, r, d)
    BY <1>4, <2>1, AppendBooks
  <2> QED
    BY <2>2 DEF Dispatches
<1>6. Dropped(r)' = d
  BY <1>2, BooksBecome DEF Dropped
<1>7. Pending(r) = PendingOf(S, r, d) /\ Pending(r)' = PendingOf(R, r, d)
  BY <1>2, <1>6, BooksAre, BooksBecome
<1>8. req'[r].inFlight = req[r].inFlight + SlotTokens(c, r) => Balanced(r)'
  BY <1>1, <1>2, <1>3, <1>5, BooksBecome
<1>9. /\ Follows(r)
      /\ SlotOutputs(c, r) > 0 => EntryOf(c, r).pos = req[r].output + Pending(r)
      => Follows(r)'
  BY <1>2, <1>5, <1>6, <1>7, BooksAre, BooksBecome
<1> QED
  BY <1>1, <1>5, <1>7, <1>8, <1>9

(* A request that is not in the step.                                       *)
LEMMA PassedAccount ==
  ASSUME Shapes, SlotsInv, NEW b, NEW c, Emits(b, c), NEW r \in Requests, r \notin BatchIds(b), Account(r),
         req'[r] = req[r], step.batch = b, UNCHANGED <<requests, recv, failed>>
  PROVE  Account(r)'
<1>1. SlotTokens(c, r) = 0 /\ SlotOutputs(c, r) = 0
  BY SlotOfOther DEF Emits
<1>2. CASE r \in requests
  <2>1. Balanced(r)
    BY <1>2 DEF Account
  <2>2. req[r].inFlight \in Nat
    BY <2>1, BookTypes
  <2>3. BooksKept(r)
    <3>1. req[r].inFlight + 0 = req[r].inFlight
      BY <2>2
    <3>2. Pending(r)' = Pending(r) + 0 /\ Pending(r) \in Nat
      BY <1>1, <2>1, EmittedBooks
    <3> QED
      BY <1>1, <2>1, <3>1, <3>2, EmittedBooks DEF BooksKept
  <2>4. r \in Unfinished => req[r].spec \in 0 .. NumSpecTokens
    BY DEF Account, Bounded
  <2> QED
    BY <2>3, <2>4, AccountKept DEF SameTokens, SamePipeline, SameComputed
<1>3. CASE r \notin requests
  BY <1>3 DEF Account, Unfinished
<1> QED
  BY <1>2, <1>3

(* A request that is in the step: what it gains is what the step samples.   *)
Gains(computed, n, all, ph, k, x) ==
    /\ n > 0 /\ x = computed + n - all - ph
    /\ computed = all - 1 + ph \/ (computed < all /\ ph = 0)
    /\ k = IF x > 0 THEN x ELSE 0

LEMMA PrefillGoesOn ==
  ASSUME NEW computed \in Int, NEW n \in Int, NEW all \in Int, NEW ph \in Int, NEW k \in Int,
         NEW x \in Int, Gains(computed, n, all, ph, k, x), computed + n < all + ph
  PROVE  computed + n < all /\ ph = 0
BY DEF Gains

EmittedIs(t, q, e) ==
    /\ t \in RequestRecord /\ t.computed = q.computed + e.n
    /\ t.chunk = (q.computed + e.n < q.all + q.placeholders)
    /\ t.placeholders = IF AsyncScheduling /\ ~t.chunk THEN q.placeholders + 1 + e.k ELSE q.placeholders
    /\ t.spec = IF AsyncScheduling /\ ~t.chunk THEN NumSpecTokens ELSE q.spec
    /\ t.inFlight = q.inFlight + e.n /\ t.stale = q.stale /\ t.drop = q.drop
    /\ t.status = q.status /\ SameTokens(t, q)

LEMMA EmittedCounters ==
  ASSUME NEW q \in RequestRecord, NEW e \in BatchEntry, NEW seq \in Nat, NEW t, t = AfterSchedule(q, e, seq)
  PROVE  EmittedIs(t, q, e)
BY AfterScheduleIs DEF EmittedIs

(* Its counters once the step is in flight, o more tokens being pending.    *)
EmittedCounts(t, q, o) ==
    /\ t.computed = t.all - 1 + (q.placeholders + o) \/ (t.computed < t.all /\ q.placeholders + o = 0 /\ t.chunk)
    /\ AsyncScheduling => t.placeholders = q.placeholders + o
    /\ ~AsyncScheduling => t.placeholders = 0 /\ t.computed <= t.all + NumSpecTokens
    /\ t.computed \in 0 .. MaxModelLen - 1 /\ t.spec \in 0 .. NumSpecTokens

LEMMA EmittedCount ==
  ASSUME NEW q \in RequestRecord, NEW e \in BatchEntry, NEW t, EmittedIs(t, q, e),
         e.n > 0, e.k \in 0 .. NumSpecTokens,
         e.k = IF q.computed + e.n - q.all - q.placeholders > 0
               THEN q.computed + e.n - q.all - q.placeholders ELSE 0,
         q.computed = q.all - 1 + q.placeholders \/ (q.computed < q.all /\ q.placeholders = 0),
         ~AsyncScheduling => q.placeholders = 0,
         q.computed + e.n < MaxModelLen, q.computed \in 0 .. MaxModelLen - 1, q.spec \in 0 .. NumSpecTokens,
         NEW o, o = IF t.chunk THEN 0 ELSE 1 + e.k
  PROVE  EmittedCounts(t, q, o)
<1>1. PICK N \in Nat : N = NumSpecTokens
  BY Parameters
<1>2. PICK L \in Nat : L = MaxModelLen
  BY Parameters
<1>3. /\ q.computed \in Int /\ q.all \in Int /\ q.placeholders \in Int /\ q.spec \in Int
      /\ e.n \in Int /\ e.k \in Int
  BY RequestTypes DEF BatchEntry
<1>4. PICK computed \in Int : computed = q.computed
  BY <1>3
<1>5. PICK all \in Int : all = q.all
  BY <1>3
<1>6. PICK ph \in Int : ph = q.placeholders
  BY <1>3
<1>7. PICK n \in Int : n = e.n
  BY <1>3
<1>8. PICK k \in Int : k = e.k
  BY <1>3
<1>9. PICK x \in Int : x = computed + n - all - ph
  OBVIOUS
<1>10. Gains(computed, n, all, ph, k, x)
  BY <1>4, <1>5, <1>6, <1>7, <1>8, <1>9 DEF Gains
<1>11. computed >= 0 /\ computed + n < L /\ n > 0 /\ k <= N /\ k >= 0
  BY <1>1, <1>2, <1>4, <1>7, <1>8
<1>12. /\ t.computed = computed + n /\ t.chunk = (computed + n < all + ph) /\ t.all = all
       /\ t.placeholders = IF AsyncScheduling /\ ~t.chunk THEN ph + 1 + k ELSE ph
       /\ t.spec = IF AsyncScheduling /\ ~t.chunk THEN N ELSE q.spec
  BY <1>1, <1>4, <1>5, <1>6, <1>7, <1>8 DEF EmittedIs, SameTokens
<1>13. t.computed \in 0 .. MaxModelLen - 1
  <2>1. computed + n \in 0 .. L - 1
    BY <1>11
  <2> QED
    BY <1>2, <1>12, <2>1
<1>14. t.spec \in 0 .. NumSpecTokens
  BY <1>1, <1>12
<1>15. CASE computed + n < all + ph
  <2>1. t.chunk /\ o = 0 /\ t.placeholders = ph
    BY <1>12, <1>15
  <2>2. computed + n < all /\ ph = 0
    BY <1>10, <1>15, PrefillGoesOn, SMTT(60)
  <2>3. computed + n <= all + N
    BY <2>2
  <2> QED
    BY <1>1, <1>6, <1>12, <1>13, <1>14, <2>1, <2>2, <2>3 DEF EmittedCounts
<1>16. CASE computed + n >= all + ph
  <2>1. ~(computed + n < all + ph)
    BY <1>16
  <2>2. ~t.chunk
    BY <1>12, <2>1
  <2>3. o = 1 + k /\ t.placeholders = IF AsyncScheduling THEN ph + 1 + k ELSE ph
    BY <1>8, <1>12, <2>2
  <2>4. k = x
    <3>1. x >= 0
      BY <1>9, <1>16
    <3>2. k = IF x > 0 THEN x ELSE 0
      BY <1>10 DEF Gains
    <3> QED
      BY <3>1, <3>2
  <2>5. computed + n = all - 1 + (ph + (1 + k))
    BY <1>9, <2>4
  <2>6. AsyncScheduling => t.placeholders = ph + (1 + k)
    BY <2>3
  <2>7. ASSUME ~AsyncScheduling PROVE t.placeholders = 0 /\ computed + n <= all + N
    <3>1. ph = 0
      BY <1>6, <2>7
    <3>2. computed + n <= all + N
      BY <1>9, <1>11, <2>4, <3>1
    <3> QED
      BY <2>3, <2>7, <3>1, <3>2
  <2>8. t.computed = t.all - 1 + (q.placeholders + o)
    BY <1>6, <1>12, <2>3, <2>5
  <2>9. AsyncScheduling => t.placeholders = q.placeholders + o
    BY <1>6, <2>3, <2>6
  <2> QED
    BY <1>1, <1>12, <1>13, <1>14, <2>8, <2>9, <2>7 DEF EmittedCounts
<1> QED
  BY <1>15, <1>16

LEMMA EmittedAccount ==
  ASSUME Shapes, SlotsInv, NEW b, NEW c, Emits(b, c), NEW r \in BatchIds(b), r \in Requests, Account(r),
         step'.batch = <<>>,
         NEW e, e = EntryOf(b, r), Promised(e), NEW q \in RequestRecord, q = req[r],
         NEW seq \in Nat, req'[r] = AfterSchedule(q, e, seq), UNCHANGED <<requests, recv, failed>>
  PROVE  Account(r)'
<1>1. /\ e \in BatchEntry /\ e.r = r /\ e.n > 0 /\ e.k \in 0 .. NumSpecTokens
      /\ EntryOf(c, r) \in BatchEntry /\ SlotTokens(c, r) = EntryOf(c, r).n
      /\ SlotOutputs(c, r) = IF EntryOf(c, r).samples THEN 1 + EntryOf(c, r).k ELSE 0
      /\ EntryOf(c, r).n = e.n /\ EntryOf(c, r).k = e.k /\ EntryOf(c, r).pos = e.pos
      /\ EntryOf(c, r).samples = ~req'[r].chunk
  BY SlotOfMember DEF Emits
<1>2. /\ r \in Unfinished /\ r \in requests /\ q.status = "RUNNING" /\ e.pos = q.output + q.placeholders
      /\ e.k = IF q.computed + e.n - q.all - q.placeholders > 0
               THEN q.computed + e.n - q.all - q.placeholders ELSE 0
      /\ q.placeholders = Pending(r) /\ q.computed + e.n < MaxModelLen
  BY <1>1 DEF Promised, Unfinished
<1>3. /\ Balanced(r) /\ Bounded(q) /\ Follows(r) /\ Runs(r) /\ q.prompt = PromptTokens[r]
      /\ r \notin recv \cup failed
  BY <1>2 DEF Account
<1>4. PICK t : t = AfterSchedule(q, e, seq)
  OBVIOUS
<1>5. EmittedIs(t, q, e)
  BY <1>1, <1>4, EmittedCounters
<1>6. e.k \in Int /\ q.placeholders \in Int /\ t.chunk \in BOOLEAN
  BY <1>1, <1>5, RequestTypes DEF BatchEntry, EmittedIs
<1>7. Pending(r) \in Nat
  BY <1>3, BookTypes
<1>8. PICK o \in Nat : o = IF t.chunk THEN 0 ELSE 1 + e.k
  BY <1>1, <1>6
<1>9. req'[r] = t
  BY <1>4
<1>10. SlotTokens(c, r) = e.n /\ SlotOutputs(c, r) = o
  BY <1>1, <1>6, <1>8, <1>9
<1>11. /\ Balanced(r)' /\ Pending(r)' = q.placeholders + o /\ Follows(r)'
  <2>1. /\ req'[r].stale = req[r].stale /\ req'[r].drop = req[r].drop /\ req'[r].output = req[r].output
        /\ req'[r].inFlight = req[r].inFlight + SlotTokens(c, r)
    BY <1>5, <1>9, <1>10 DEF SameTokens, EmittedIs
  <2>2. EntryOf(c, r).pos = req[r].output + Pending(r)
    BY <1>1, <1>2
  <2> QED
    BY <1>2, <1>3, <1>10, <2>1, <2>2, EmittedBooks
<1>12. /\ q.computed = q.all - 1 + q.placeholders \/ (q.computed < q.all /\ q.placeholders = 0)
       /\ ~AsyncScheduling => q.placeholders = 0
       /\ q.stale > 0 => q.drop
       /\ q.computed \in 0 .. MaxModelLen - 1 /\ q.spec \in 0 .. NumSpecTokens
  BY <1>2, <1>3 DEF Runs, Decodes, Bounded
<1>13. EmittedCounts(t, q, o)
  BY <1>1, <1>2, <1>5, <1>8, <1>12, EmittedCount
<1>14. Bounded(t)
  <2>1. t.prompt = q.prompt /\ t.all = q.all /\ t.output = q.output
    BY <1>5 DEF SameTokens, EmittedIs
  <2> QED
    BY <1>3, <1>13, <2>1 DEF Bounded, EmittedCounts
<1>15. Runs(r)'
  <2>1. Decodes(r)' \/ (t.computed < t.all /\ Pending(r)' = 0 /\ t.chunk)
    BY <1>9, <1>11, <1>13 DEF Decodes, EmittedCounts
  <2>2. AsyncScheduling => t.placeholders = Pending(r)'
    BY <1>11, <1>13 DEF EmittedCounts
  <2>3. t.stale > 0 => t.drop
    BY <1>5, <1>12 DEF EmittedIs
  <2> QED
    BY <1>9, <2>1, <2>2, <2>3 DEF Runs
<1>16. t.status = "RUNNING" /\ t.prompt = PromptTokens[r] /\ r \in Unfinished'
  BY <1>2, <1>3, <1>5, <1>9 DEF SameTokens, Unfinished, EmittedIs
<1> QED
  BY <1>2, <1>3, <1>9, <1>11, <1>14, <1>15, <1>16 DEF Account, Unstarted

LEMMA EndScheduleAccounts ==
  ASSUME ShapesInv, ShapesInv', AccountsInv, EndSchedule
  PROVE  AccountsInv'
<1> USE DEF ShapesInv
<1>1. SlotsInv /\ BatchInv /\ \A s \in Requests : Account(s)
  BY DEF AccountsInv
<1>2. PICK b : b = step.batch
  OBVIOUS
<1>3. PICK c : Emits(b, c)
  BY <1>1, <1>2, EmittedStep
<1>4. /\ b \in Seq(BatchEntry) /\ BatchIds(b) \subseteq Requests /\ StepOf(b)
      /\ req \in [Requests -> RequestRecord] /\ schedSeq \in Nat
  <2>1. b \in Seq(BatchEntry)
    BY <1>2, LocalsTypes DEF Shapes
  <2> QED
    BY <1>3, <2>1, BatchIdsType DEF Shapes, Emits
<1>5. PICK seq \in Nat : \A r \in Requests :
            req'[r] = IF r \in BatchIds(b) THEN AfterSchedule(req[r], EntryOf(b, r), seq) ELSE req[r]
  <2>1. PICK seq \in Nat : seq = IF DeferBlockFree /\ BatchIds(b) # {} THEN schedSeq + 1 ELSE schedSeq
    BY <1>4
  <2> QED
    BY <1>2, <2>1 DEF EndSchedule
<1>6. UNCHANGED <<requests, recv, failed>> /\ step' = Idle
  BY DEF EndSchedule, xfer
<1>7. /\ step'.batch = <<>> /\ step'.threshold = 0 /\ step'.todo = <<>> /\ step'.errors = {}
      /\ step'.received = {} /\ step'.phase = "idle"
  BY <1>6, IdleAccounts, IdleFields DEF Idle
<1>8. BatchInv'
  BY <1>7, BatchNone
<1>9. ASSUME NEW r \in Requests, r \in BatchIds(b)
      PROVE  Account(r)' /\ req'[r].status = "RUNNING"
  <2>1. PICK e : e = EntryOf(b, r)
    OBVIOUS
  <2>2. Promised(e) /\ e \in BatchEntry /\ e.r = r
    <3>1. PICK i \in DOMAIN b : b[i] = e
      BY <1>4, <1>9, <2>1, SlotOfMember
    <3> QED
      BY <1>4, <1>1, <1>9, <1>2, <2>1, <3>1, SlotOfMember DEF BatchInv
  <2>3. PICK q \in RequestRecord : q = req[r]
    BY <1>4
  <2>4. req'[r] = AfterSchedule(q, e, seq)
    BY <1>5, <1>9, <2>1, <2>3
  <2>5. Account(r)'
    BY <1>1, <1>6, <1>7, <1>9, <1>3, <2>1, <2>2, <2>3, <2>4, EmittedAccount
  <2>6. q.status = "RUNNING"
    BY <2>2, <2>3 DEF Promised
  <2>7. PICK t : t = AfterSchedule(q, e, seq)
    OBVIOUS
  <2>8. t.status = "RUNNING"
    BY <2>2, <2>6, <2>7, AfterScheduleIs
  <2> QED
    BY <2>4, <2>5, <2>7, <2>8
<1>10. ASSUME NEW r \in Requests, r \notin BatchIds(b) PROVE Account(r)'
  BY <1>1, <1>5, <1>6, <1>10, <1>2, <1>3, PassedAccount
<1>11. SlotsInv'
  <2>1. /\ Pipeline(Slots) /\ Slots \in Seq(Seq(BatchEntry)) /\ Len(Slots) = Len(inflight) + 1
        /\ Len(inflight) \in Nat
    BY <1>1, SlotsAre
  <2>2. Slots' = Append(Slots, c) /\ StepOf(c) /\ BatchIds(c) = BatchIds(b)
    BY <1>3 DEF Emits
  <2>3. PICK S, R : S = Slots /\ R = Slots'
    OBVIOUS
  <2>4. /\ DOMAIN R = 1 .. Len(S) + 1 /\ DOMAIN S = 1 .. Len(S) /\ R[Len(S) + 1] = c /\ Len(S) \in Nat
        /\ \A j \in 1 .. Len(S) : R[j] = S[j]
    <3>1. c \in Seq(BatchEntry) /\ S \in Seq(Seq(BatchEntry)) /\ R = Append(S, c)
      BY <2>1, <2>2, <2>3 DEF StepOf
    <3> QED
      BY <3>1
  <2>5. ASSUME NEW j \in DOMAIN R
        PROVE  WellFormed(R[j]) /\ \A s \in BatchIds(R[j]) : req'[s].status # "NEW"
    <3>1. CASE j = Len(S) + 1
      BY <1>4, <1>9, <2>2, <2>4, <3>1 DEF StepOf
    <3>2. CASE j # Len(S) + 1
      <4>1. j \in DOMAIN S /\ R[j] = S[j]
        BY <2>4, <3>2
      <4>2. WellFormed(S[j]) /\ \A s \in BatchIds(S[j]) : req[s].status # "NEW"
        BY <1>1, <2>3, <4>1 DEF SlotsInv
      <4>3. BatchIds(S[j]) \subseteq Requests
        BY <2>1, <2>3, <4>1, BatchIdsType DEF Pipeline, StepOf
      <4> QED
        BY <1>5, <1>9, <4>1, <4>2, <4>3
    <3> QED
      BY <3>1, <3>2
  <2>6. Len(inflight') <= MaxConcurrentBatches
    <3>1. Len(inflight) < MaxConcurrentBatches
      BY <1>1 DEF SlotsInv, Scheduling, EndSchedule
    <3>2. Len(Slots') = Len(inflight') + 1 /\ Len(inflight') = Len(inflight) + 1
      <4>1. PICK d : inflight' = Append(inflight, d)
        BY DEF EndSchedule
      <4>2. inflight \in Seq(DispatchedStep)
        BY DEF Shapes
      <4> QED
        BY <4>1, <4>2, SlotsBecome, SMTT(60)
    <3> QED
      BY <2>1, <3>1, <3>2, Parameters
  <2> QED
    BY <1>7, <2>3, <2>5, <2>6, ErrorsNone DEF SlotsInv, Scheduling
<1> QED
  BY <1>8, <1>9, <1>10, <1>11 DEF AccountsInv

-------------------------------------------------------------------------------
(* The accounts hold in every state.                                        *)

LEMMA AccountsInitially == Init => AccountsInv
<1> SUFFICES ASSUME Init PROVE AccountsInv
  OBVIOUS
<1>1. /\ step = Idle /\ inflight = <<>> /\ requests = {} /\ recv = {} /\ failed = {}
      /\ req = [r \in Requests |-> NewRequest(r)]
  BY DEF Init
<1>2. /\ step.batch = <<>> /\ step.threshold = 0 /\ step.todo = <<>> /\ step.errors = {}
      /\ step.received = {} /\ step.phase = "idle"
  BY <1>1, IdleAccounts, IdleFields DEF Idle
<1>3. BatchInv
  BY <1>2 DEF BatchInv, WellFormed
<1>4. SlotsInv
  <2>1. Len(inflight) = 0
    BY <1>1
  <2>2. \A j \in DOMAIN Slots : Slots[j] = <<>>
    BY <1>2, <2>1 DEF Slots
  <2>3. WellFormed(<<>>) /\ BatchIds(<<>>) = {}
    BY EmptyStep DEF StepOf
  <2>4. \A j \in DOMAIN Slots : WellFormed(Slots[j]) /\ \A r \in BatchIds(Slots[j]) : req[r].status # "NEW"
    BY <2>2, <2>3
  <2> QED
    BY <1>2, <2>1, <2>4, Parameters DEF SlotsInv, ErrorsKnown, Scheduling
<1>5. ASSUME NEW r \in Requests PROVE Account(r)
  <2>1. PICK q : q = NewRequest(r)
    OBVIOUS
  <2>2. /\ q.status = "NEW" /\ q.prompt = PromptTokens[r] /\ q.all = PromptTokens[r] /\ q.output = 0
        /\ q.computed = 0 /\ q.placeholders = 0 /\ q.spec = 0 /\ q.inFlight = 0 /\ q.stale = 0
    BY <2>1 DEF NewRequest
  <2>3. req[r] = q
    BY <1>1, <2>1
  <2> QED
    BY <1>1, <2>2, <2>3 DEF Account, Unstarted, Unfinished
<1> QED
  BY <1>3, <1>4, <1>5 DEF AccountsInv

BooksInv == ShapesInv /\ QueuesInv /\ AccountsInv

LEMMA AccountsStep ==
  ASSUME BooksInv, NoSessions, PadsFit, [Next]_vars
  PROVE  AccountsInv'
<1>1. ShapesInv /\ QueuesInv /\ AccountsInv /\ ShapesInv'
  BY ShapesStep DEF BooksInv
<1>2. CASE ScheduleNext
  <2>1. CASE BeginSchedule \/ SkipRunning \/ EndRunning \/ SkipWaiting \/ EndWaiting
    BY <1>1, <2>1, ScheduleQuietAccounts
  <2>2. CASE \E ext \in LoadableTokens \cup {0} : BreakWaiting(ext)
    BY <1>1, <2>2, ScheduleQuietAccounts
  <2>3. CASE ScheduleRunning
    BY <1>1, <2>3, ScheduleRunningAccounts
  <2>4. CASE PreemptForBlocks
    BY <1>1, <2>4, PreemptAccounts
  <2>5. CASE PromoteLoaded \/ \E ext \in LoadableTokens : AdmitLoad(ext)
    BY <1>1, <2>5, LoadAccounts
  <2>6. CASE AdmitRunning
    BY <1>1, <2>6, AdmitRunningAccounts
  <2>7. CASE EndSchedule
    BY <1>1, <2>7, EndScheduleAccounts
  <2> QED
    BY <1>2, <2>1, <2>2, <2>3, <2>4, <2>5, <2>6, <2>7 DEF ScheduleNext
<1>3. CASE UpdateNext
  <2>1. CASE BeginUpdate
    BY <1>1, <2>1, BeginUpdateAccounts
  <2>2. CASE SkipEntry
    BY <1>1, <2>2, SkipEntryAccounts
  <2>3. CASE RemoveStopped
    BY <1>1, <2>3, QuietHandlerAccounts
  <2>4. CASE EndUpdate
    BY <1>1, <2>4, EndUpdateAccounts
  <2>5. ASSUME NEW g \in 1 .. NumSpecTokens + 1, NEW m \in 1 .. NumSpecTokens + 1,
               NEW eos \in BOOLEAN, UpdateEntry(g, m, eos)
        PROVE  AccountsInv'
    <3>1. g \in Int /\ m \in Int
      OBVIOUS
    <3> QED
      BY <1>1, <2>5, <3>1, UpdateEntryAccounts
  <2>6. ASSUME NEW r \in Requests, FinishFailed(r) PROVE AccountsInv'
    BY <1>1, <2>6, FinishFailedAccounts
  <2>7. ASSUME NEW r \in Requests, ReportReceived(r) \/ ReportSent(r) PROVE AccountsInv'
    BY <1>1, <2>7, QuietHandlerAccounts
  <2> QED
    BY <1>3, <2>1, <2>2, <2>3, <2>4, <2>5, <2>6, <2>7 DEF UpdateNext
<1>4. CASE ResetNext
  BY <1>1, <1>4, QuietHandlerAccounts, PreemptAccounts DEF ResetNext
<1>5. CASE ClientNext
  <2>1. ASSUME NEW r \in Abortable, Abort(r) PROVE AccountsInv'
    <3>1. r \in Requests
      BY Parameters
    <3> QED
      BY <1>1, <2>1, <3>1, AbortAccounts
  <2> QED
    BY <1>1, <1>5, <2>1, AddAccounts DEF ClientNext, NoSessions
<1>6. CASE WorkerNext
  BY <1>1, <1>6, QuietHandlerAccounts DEF WorkerNext
<1>7. CASE UNCHANGED vars
  BY <1>1, <1>7, QuietHandlerAccounts
<1> QED
  BY <1>2, <1>3, <1>4, <1>5, <1>6, <1>7 DEF Next

LEMMA BooksStep ==
  ASSUME BooksInv, NoSessions, PadsFit, [Next]_vars
  PROVE  BooksInv'
BY AccountsStep, ShapesStep, QueuesStep DEF BooksInv

LEMMA BooksHold ==
  ASSUME NoSessions, PadsFit
  PROVE  Spec => []BooksInv
<1>1. Init => BooksInv
  BY ShapesInitially, QueuesInitially, AccountsInitially DEF BooksInv
<1>2. BooksInv /\ [Next]_vars => BooksInv'
  BY BooksStep
<1> QED
  BY <1>1, <1>2, PTL DEF Spec

(* num_in_flight_tokens of every request is the number of its tokens in the *)
(* steps whose output is still to come, and num_stale_output_tokens covers  *)
(* whole steps, the oldest ones: the stale share of a preempted request     *)
(* drains to zero exactly when the last output from before its preemption   *)
(* is back, however often it is preempted, aborted or loaded meanwhile.     *)
THEOREM InFlightStaysExact == NoSessions /\ PadsFit => (Spec => []InFlightExact)
<1> SUFFICES ASSUME NoSessions, PadsFit PROVE Spec => []InFlightExact
  OBVIOUS
<1>1. BooksInv => InFlightExact
  <2> SUFFICES ASSUME BooksInv, NEW r \in requests PROVE Balanced(r)
    BY DEF InFlightExact
  <2>1. r \in Requests
    BY DEF BooksInv, ShapesInv, Shapes
  <2> QED
    BY <2>1 DEF BooksInv, AccountsInv, Account
<1> QED
  BY <1>1, BooksHold, PTL

(* Between two handlers a decoding request has computed all its tokens but  *)
(* the last, plus those its steps in flight may still append, and under     *)
(* async scheduling its placeholders are exactly these: no rejected draft,  *)
(* preemption or late output leaves a token counted twice or not at all.    *)
THEOREM ComputedStaysExact == NoSessions /\ PadsFit => (Spec => []ComputedExact)
<1> SUFFICES ASSUME NoSessions, PadsFit PROVE Spec => []ComputedExact
  OBVIOUS
<1>1. BooksInv => ComputedExact
  <2> SUFFICES ASSUME BooksInv, AtRest, NEW r \in ToSet(running)
               PROVE  /\ ~req[r].chunk => req[r].computed = req[r].all - 1 + Pending(r)
                      /\ AsyncScheduling => req[r].placeholders = Pending(r)
    BY DEF ComputedExact
  <2>1. Leaving = {} /\ step.batch = <<>>
    BY HandlerIs DEF AtRest, BooksInv, Leaving
  <2>2. r \in Unfinished /\ req[r].status = "RUNNING"
    BY <2>1 DEF BooksInv, QueuesInv, QueuesPlaced, AllQueued
  <2>3. r \in Requests
    BY <2>2 DEF BooksInv, ShapesInv, Shapes, Unfinished
  <2>4. Runs(r)
    BY <2>2, <2>3 DEF BooksInv, AccountsInv, Account
  <2>5. r \notin BatchIds(step.batch)
    BY <2>1, EmptyStep
  <2> QED
    BY <2>4, <2>5 DEF Runs, Decodes
<1> QED
  BY <1>1, BooksHold, PTL
==============================================================================
