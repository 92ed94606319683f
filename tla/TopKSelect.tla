----------------------------- MODULE TopKSelect -----------------------------
(***************************************************************************)
(* Selection of the topK best scores of a row in                           *)
(* patches/sampler.topk-tiebreak-sanitize.cu.  Up to four histogram steps  *)
(* narrow down the bin that the cut runs through, on the bits of a half    *)
(* and then on 11, 11 and 10 bits of the float; once that bin is small     *)
(* its elements are sorted, and if it never is, they are all equal.        *)
(* Threads append to shared memory in any order.                           *)
(*                                                                         *)
(* A score is its key: the bits that extractBinIdx cuts up, for which less *)
(* is better; sparse_nan_to_num maps scores that are no numbers to keys.   *)
(* x is a row: x.keys, x.topK, x.kind (the kernel), and x.order, the order *)
(* in which threads reach the atomics.                                     *)
(***************************************************************************)
EXTENDS Integers, Sequences, FiniteSets, FiniteSetsExt

CONSTANTS
    HalfBin,        \* HalfBin[key]: the first bits of the score as a half
    MidBins,        \* bins of step 2
    LowBins,        \* bins of step 3
    Threads,        \* kNumThreadsPerBlock
    ItemsPerThread, \* kNumFinalItemsPerThread
    Parts           \* multipleBlocksPerRowConfig

NumFinalItems == Threads * ItemsPerThread
Worst == Cardinality(DOMAIN HalfBin) - 1    \* -FLT_MAX
Junk == -2                                  \* a register that was never written

\* A job: keys, the indices it reports for them, how it ends and in which order threads run.
Elements(job) == DOMAIN job.keys
Place(job, i) == CHOOSE p \in DOMAIN job.order : job.order[p] = i
AppendRank(job, S, i) == Cardinality({j \in S : Place(job, j) < Place(job, i)})

-------------------------------------------------------------------------------
(* processHistogramStep *)

Bin(step, key) ==
    CASE step = 0 -> HalfBin[key]
      [] step = 1 -> key \div (MidBins * LowBins)
      [] step = 2 -> (key \div LowBins) % MidBins
      [] step = 3 -> key % LowBins

\* isPartialMatch: the pattern holds the threshold bins of steps 1 and 2.
PartialMatch(step, key, pattern) ==
    CASE step < 2 -> TRUE
      [] step = 2 -> key \div (MidBins * LowBins) = pattern \div (MidBins * LowBins)
      [] step = 3 -> key \div LowBins = pattern \div LowBins

Pattern(step, st) ==
    CASE step < 2 -> 0
      [] step = 2 -> st.threshold * MidBins * LowBins
      [] step = 3 -> st.pattern + st.threshold * LowBins

Matching(job, step, pattern) == {i \in Elements(job) : PartialMatch(step, job.keys[i], pattern)}
InBin(job, step, S, b) == {i \in S : Bin(step, job.keys[i]) = b}
Below(job, step, S, b) == {i \in S : Bin(step, job.keys[i]) < b}

\* The bin in which the prefix sums reach topK.
Threshold(job, step, S, found) ==
    CHOOSE b \in {Bin(step, job.keys[i]) : i \in S} :
        /\ found + Cardinality(Below(job, step, S, b)) < job.topK
        /\ found + Cardinality(Below(job, step, S, b + 1)) >= job.topK

\* MUTANT: the first step always writes what is above the cut.
AlwaysDirect(step, size) == TRUE

WritesDirectly(step, size) == size <= NumFinalItems \/ step >= 1

(* Slots base, base + 1, ... of out filled with S in the order of rank.     *)
Filled(out, S, base, rank) ==
    [slot \in DOMAIN out |->
        LET at == {i \in S : base + rank[i] = slot} IN IF at = {} THEN out[slot] ELSE CHOOSE i \in at : TRUE]

(* Of equal elements at the last step the first ones are taken, by a scan   *)
(* over the row; split rows take the first ones to append.                  *)
Ties(job, S, base, out) ==
    IF job.ends = "whole row"
    THEN Filled(out, S, base, [i \in S |-> Cardinality({j \in S : j < i})])
    ELSE Filled(out, S, base, [i \in S |-> AppendRank(job, S, i)])

(* S are the elements that match the pattern, t is the threshold bin.       *)
StepAt(job, step, st, S, t, cut, above) ==
    LET out == Filled(st.out, above, st.found, [i \in above |-> AppendRank(job, above, i)])
    IN [pattern |-> Pattern(step, st), threshold |-> t,
        found |-> st.found + Cardinality(above),
        out |-> IF step = 3 THEN Ties(job, cut, st.found + Cardinality(Below(job, step, S, t)), out) ELSE out,
        items |-> IF step < 3 /\ Cardinality(cut) <= NumFinalItems THEN cut ELSE {},
        continue |-> step = 3 \/ Cardinality(cut) > NumFinalItems]    \* the last step's result is not used

StepWith(job, step, st, S, t, cut) ==
    StepAt(job, step, st, S, t, cut,
           IF WritesDirectly(step, Cardinality(cut)) THEN Below(job, step, S, t) ELSE {})

StepAmong(job, step, st, S, t) == StepWith(job, step, st, S, t, InBin(job, step, S, t))

StepOf(job, step, st, S) == StepAmong(job, step, st, S, Threshold(job, step, S, st.found))

HistogramStep(job, step, st) == StepOf(job, step, st, Matching(job, step, Pattern(step, st)))

-------------------------------------------------------------------------------
(* topKPerRowJob *)

NothingFound(job) ==
    [pattern |-> 0, threshold |-> -1, found |-> 0, out |-> [slot \in 0 .. job.topK - 1 |-> Junk],
     items |-> {}, continue |-> TRUE]

\* Each item counts the items before it, equal ones by their index.
InsertionSort(job, st) ==
    LET better(j, i) == job.keys[j] < job.keys[i] \/ (job.keys[j] = job.keys[i] /\ job.report[j] < job.report[i])
    IN Filled(st.out, st.items, st.found, [i \in st.items |-> Cardinality({j \in st.items : better(j, i)})])

(* The radix sort keeps the order of equal scores in which registers hold   *)
(* them: item s is in register s \div Threads of thread s % Threads, and    *)
(* registers without an item hold the worst score and no index.             *)
RadixSort(job, st) ==
    LET register(s) == (s % Threads) * ItemsPerThread + s \div Threads
        itemOf(r) == {i \in st.items : register(AppendRank(job, st.items, i)) = r}
        key(r) == IF itemOf(r) = {} THEN Worst ELSE job.keys[CHOOSE i \in itemOf(r) : TRUE]
        registers == 0 .. NumFinalItems - 1
        rank(r) == Cardinality({q \in registers : key(q) < key(r) \/ (key(q) = key(r) /\ q < r)})
    IN [slot \in DOMAIN st.out |->
           LET r == {q \in registers : st.found + rank(q) = slot} IN
           IF r = {} THEN st.out[slot]
           ELSE LET items == itemOf(CHOOSE q \in r : TRUE) IN
                IF items = {} THEN Junk ELSE CHOOSE i \in items : TRUE]

Steps(job) ==
    LET after[step \in 0 .. 4] ==
            IF step = 0 THEN NothingFound(job)
            ELSE IF after[step - 1].continue THEN HistogramStep(job, step - 1, after[step - 1])
            ELSE after[step - 1]
    IN after[4]

\* The chosen elements of the job by slot, -1 for slots that stay empty.
Chosen(job) ==
    LET st == Steps(job) IN
    IF Cardinality(Elements(job)) <= job.topK
    THEN [slot \in 0 .. job.topK - 1 |-> IF slot \in Elements(job) THEN slot ELSE -1]
    ELSE IF st.continue THEN st.out
    ELSE IF job.radix THEN RadixSort(job, st) ELSE InsertionSort(job, st)

\* outIndices and outLogits of chosen elements
OutIndices(job, chosen) == [slot \in DOMAIN chosen |-> IF chosen[slot] < 0 THEN chosen[slot] ELSE job.report[chosen[slot]]]
OutKeys(job, chosen) == [slot \in DOMAIN chosen |-> IF chosen[slot] < 0 THEN Worst ELSE job.keys[chosen[slot]]]

Selected(job) == OutIndices(job, Chosen(job))

Job(keys, report, topK, order, radix, ends) ==
    [keys |-> keys, report |-> report, topK |-> topK, radix |-> radix, ends |-> ends,
     order |-> SelectSeq(order, LAMBDA i : i \in DOMAIN keys)]

Own(keys) == [i \in DOMAIN keys |-> i]

-------------------------------------------------------------------------------
(* The kernels *)

\* One block for a row: topKPerRowPrefill, and topKPerRowDecode of short rows.
WholeRow(x, radix) == Selected(Job(x.keys, Own(x.keys), x.topK, x.order, radix, "whole row"))

(* Long rows: each block selects from its part, and a second launch selects *)
(* from what they found.                                                    *)
Part(x, p) ==
    LET len   == Cardinality(DOMAIN x.keys)
        size  == len \div Parts
        end   == IF p = Parts - 1 THEN len ELSE (p + 1) * size
    IN Job([i \in 0 .. end - p * size - 1 |-> x.keys[p * size + i]],
           [i \in 0 .. end - p * size - 1 |-> p * size + i], x.topK, x.order, TRUE, "part")

\* The second launch, on the indices and keys of the parts.
Merge(x, indices, keys) == Selected(Job(keys, indices, x.topK, x.order, TRUE, "merge"))

SplitRow(x) ==
    LET slots == 0 .. Parts * x.topK - 1
        chosen == [p \in 0 .. Parts - 1 |-> Chosen(Part(x, p))]
    IN Merge(x, [i \in slots |-> OutIndices(Part(x, i \div x.topK), chosen[i \div x.topK])[i % x.topK]],
                [i \in slots |-> OutKeys(Part(x, i \div x.topK), chosen[i \div x.topK])[i % x.topK]])

\* top_k_per_row_decode by the number of columns, top_k_per_row_prefill by the row
TopKPerRow(x) ==
    CASE x.kind = "insertion" -> WholeRow(x, FALSE)
      [] x.kind = "radix" -> WholeRow(x, TRUE)
      [] x.kind = "split" -> SplitRow(x)

-------------------------------------------------------------------------------
(* Properties *)

IsExact(x, out, got) ==
    /\ got \subseteq DOMAIN x.keys
    /\ Cardinality(got) = Min({x.topK, Cardinality(DOMAIN x.keys)})
    /\ Cardinality({slot \in DOMAIN out : out[slot] = -1}) = x.topK - Cardinality(got)
    /\ \A i \in got, j \in DOMAIN x.keys \ got :
        \/ x.keys[i] < x.keys[j]
        \/ x.keys[i] = x.keys[j] /\ (x.kind = "insertion" => i < j)

IsExactFor(x, out) == IsExact(x, out, {out[slot] : slot \in DOMAIN out} \ {-1})

(* However threads are ordered and wherever the cut falls, a row gets as    *)
(* many different positions as it can, none of a worse score than one left  *)
(* out; and where the items of the cut are sorted by insertion, equal       *)
(* scores go to the lower positions ("a deterministic lower-original-index  *)
(* tie break", PREFILL-OPTIMIZATION-20260809.md:79; the four histogram      *)
(* steps and both sorts).                                                   *)
TopKExact(x) == IsExactFor(x, TopKPerRow(x))
==============================================================================
