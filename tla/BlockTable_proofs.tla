-------------------------- MODULE BlockTable_proofs --------------------------
(* Proofs about BlockTable for every number and width of the rows, every    *)
(* split of a KV block into kernel blocks, and every number of ranks and    *)
(* interleave.                                                              *)
EXTENDS BlockTable, FiniteSetTheorems, TLAPS

LEMMA ConstantTypes ==
  Width \in Nat /\ MaxNumReqs \in Nat \ {0} /\ BlocksPerKVBlock \in Nat \ {0}
<1>1. {MaxNumReqs, MaxNumBlocks, BlocksPerKVBlock} \subseteq Nat \ {0}
  BY BlockTableAssumption DEF BlockTableAssumption
<1> QED
  BY <1>1 DEF Width

(* The expansion of a KV block into kernel blocks is a sequence of numbers. *)
LEMMA KernelBlocksType ==
  ASSUME NEW b \in BlockIds
  PROVE  KernelBlocks(<<b>>) \in Seq(Nat)
<1> DEFINE k == BlocksPerKVBlock
<1>1. k \in Nat \ {0} /\ b \in Nat
  BY ConstantTypes, BlockTableAssumption DEF BlockTableAssumption
<1>2. Len(<<b>>) * k = k
  BY <1>1
<1> HIDE DEF k
<1>3. ASSUME NEW i \in 1 .. k PROVE (i - 1) \div k = 0 /\ (i - 1) % k \in Nat
  BY <1>1, <1>3
<1>4. \A i \in 1 .. k : <<b>>[((i - 1) \div k) + 1] * k + ((i - 1) % k) \in Nat
  <2> SUFFICES ASSUME NEW i \in 1 .. k
               PROVE  <<b>>[((i - 1) \div k) + 1] * k + ((i - 1) % k) \in Nat
    OBVIOUS
  <2>1. <<b>>[((i - 1) \div k) + 1] = b
    BY <1>3
  <2>2. b * k \in Nat
    BY <1>1
  <2> QED
    BY <1>3, <2>1, <2>2
<1> QED
  BY <1>1, <1>2, <1>4 DEF KernelBlocks, k

(* The three ways a row is rewritten give a row again.                      *)
LEMMA RowTypes ==
  ASSUME NEW r \in [Cols -> Nat], NEW t \in [Cols -> Nat], NEW n \in Nat, NEW s \in Seq(Nat)
  PROVE  /\ Written(r, n, s) \in [Cols -> Nat]
         /\ Zeroed(r, n) \in [Cols -> Nat]
         /\ Copied(r, t, n) \in [Cols -> Nat]
<1>1. \A c \in Cols : n < c /\ c <= n + Len(s) => s[c - n] \in Nat
  BY DEF Cols
<1>2. Written(r, n, s) \in [Cols -> Nat]
  BY <1>1 DEF Written
<1>3. Zeroed(r, n) \in [Cols -> Nat]
  BY DEF Zeroed
<1>4. Copied(r, t, n) \in [Cols -> Nat]
  BY DEF Copied
<1> QED
  BY <1>2, <1>3, <1>4

(* The steps keep the types of the table.                                   *)
LEMMA TypeInductive == TypeOK /\ [Next]_vars => TypeOK'
<1> SUFFICES ASSUME TypeOK, [Next]_vars PROVE TypeOK'
  OBVIOUS
<1> USE ConstantTypes DEF TypeOK
<1>0. \A row \in Rows : np[row] \in [Cols -> Nat] /\ num[row] \in Nat
  OBVIOUS
<1>1. ASSUME NEW row \in Rows, NEW b \in BlockIds, AppendRow(row, <<b>>) PROVE TypeOK'
  <2> DEFINE new == KernelBlocks(<<b>>)
  <2>1. new \in Seq(Nat) /\ Len(new) \in Nat
    BY KernelBlocksType
  <2>2. /\ num[row] + Len(new) <= Width
        /\ np' = [np EXCEPT ![row] = Written(np[row], num[row], new)]
        /\ num' = [num EXCEPT ![row] = num[row] + Len(new)]
        /\ batch' = [batch EXCEPT ![row] = batch[row] \o new]
        /\ committed' = 0
        /\ UNCHANGED <<gpu, active>>
    BY <1>1 DEF AppendRow
  <2> HIDE DEF new
  <2>3. Written(np[row], num[row], new) \in [Cols -> Nat]
    BY <1>0, <2>1, RowTypes
  <2>4. batch[row] \o new \in Seq(Nat)
    BY <2>1
  <2>5. num[row] + Len(new) \in 0 .. Width
    BY <2>1, <2>2
  <2> QED
    BY <2>2, <2>3, <2>4, <2>5
<1>2. ASSUME NEW row \in Rows, NEW b \in BlockIds, AddRow(row, <<b>>) PROVE TypeOK'
  <2> DEFINE new == KernelBlocks(<<b>>)
  <2>1. new \in Seq(Nat) /\ Len(new) \in Nat
    BY KernelBlocksType
  <2>2. /\ Len(new) <= Width
        /\ np' = [np EXCEPT ![row] = Written(np[row], 0, new)]
        /\ num' = [num EXCEPT ![row] = Len(new)]
        /\ batch' = [batch EXCEPT ![row] = new]
        /\ active' = active \cup {row}
        /\ committed' = 0
        /\ UNCHANGED gpu
    BY <1>2 DEF AddRow
  <2> HIDE DEF new
  <2>3. Written(np[row], 0, new) \in [Cols -> Nat]
    BY <1>0, <2>1, RowTypes
  <2> QED
    BY <2>1, <2>2, <2>3
<1>3. ASSUME NEW row \in Rows, ClearRow(row) PROVE TypeOK'
  <2>1. Zeroed(np[row], num[row]) \in [Cols -> Nat]
    BY <1>0, RowTypes
  <2> QED
    BY <1>3, <2>1 DEF ClearRow
<1>4. ASSUME NEW src \in Rows, NEW tgt \in Rows, MoveRow(src, tgt) PROVE TypeOK'
  <2>1. /\ Copied(np[src], np[tgt], num[src]) \in [Cols -> Nat]
        /\ Zeroed(np[src], num[src]) \in [Cols -> Nat]
    BY <1>0, RowTypes
  <2>2. np' \in [Rows -> [Cols -> Nat]]
    BY <1>4, <2>1 DEF MoveRow
  <2>3. num' \in [Rows -> 0 .. Width] /\ batch' \in [Rows -> Seq(Nat)]
    <3>1. /\ num' = [num EXCEPT ![tgt] = num[src], ![src] = 0]
          /\ batch' = [batch EXCEPT ![tgt] = batch[src], ![src] = <<>>]
      BY <1>4 DEF MoveRow
    <3>2. num' \in [Rows -> 0 .. Width]
      BY <3>1, SMTT(60)
    <3>3. <<>> \in Seq(Nat)
      OBVIOUS
    <3>4. batch' \in [Rows -> Seq(Nat)]
      BY <3>1, <3>3
    <3> QED
      BY <3>2, <3>4
  <2>4. active' = (active \ {src}) \cup {tgt} /\ committed' = 0 /\ UNCHANGED gpu
    BY <1>4 DEF MoveRow
  <2> QED
    BY <2>2, <2>3, <2>4
<1>5. ASSUME NEW src \in Rows, NEW tgt \in Rows, SwapRow(src, tgt) PROVE TypeOK'
  <2>1. np' \in [Rows -> [Cols -> Nat]]
    <3> DEFINE Row == [Cols -> Nat]
    <3>1. np \in [Rows -> Row] /\ np' = [np EXCEPT ![src] = np[tgt], ![tgt] = np[src]]
      BY <1>5 DEF SwapRow
    <3> HIDE DEF Row
    <3>2. np' \in [Rows -> Row]
      BY <3>1
    <3> QED
      BY <3>2 DEF Row
  <2>2. num' \in [Rows -> 0 .. Width] /\ batch' \in [Rows -> Seq(Nat)]
    <3>1. /\ num' = [num EXCEPT ![src] = num[tgt], ![tgt] = num[src]]
          /\ batch' = [batch EXCEPT ![src] = batch[tgt], ![tgt] = batch[src]]
      BY <1>5 DEF SwapRow
    <3> QED
      BY <3>1
  <2>3. committed' = 0 /\ UNCHANGED <<gpu, active>>
    BY <1>5 DEF SwapRow
  <2> QED
    BY <2>1, <2>2, <2>3
<1>6. ASSUME NEW n \in Rows, Commit(n) PROVE TypeOK'
  <2>1. PICK w \in 0 .. Width :
          gpu' = [row \in Rows |-> IF row <= n THEN Copied(np[row], gpu[row], w) ELSE gpu[row]]
    BY <1>6 DEF Commit
  <2>2. \A row \in Rows : Copied(np[row], gpu[row], w) \in [Cols -> Nat]
    <3> SUFFICES ASSUME NEW row \in Rows PROVE Copied(np[row], gpu[row], w) \in [Cols -> Nat]
      OBVIOUS
    <3>1. np[row] \in [Cols -> Nat] /\ gpu[row] \in [Cols -> Nat] /\ w \in Nat
      OBVIOUS
    <3> QED
      BY <3>1, RowTypes
  <2>3. gpu' \in [Rows -> [Cols -> Nat]]
    BY <2>1, <2>2
  <2>4. n \in 0 .. MaxNumReqs
    BY DEF Rows
  <2>5. committed' = n /\ UNCHANGED <<np, num, batch, active>>
    BY <1>6 DEF Commit
  <2> QED
    BY <2>3, <2>4, <2>5
<1>7. CASE UNCHANGED vars
  BY <1>7 DEF vars
<1> QED
  BY <1>1, <1>2, <1>3, <1>4, <1>5, <1>6, <1>7 DEF Next

(* The table always has its type, so no operation writes past its row.      *)
THEOREM TypeCorrect == Spec => []TypeOK
<1>1. Init => TypeOK
  BY ConstantTypes DEF Init, TypeOK, ZeroRow
<1> QED
  BY <1>1, TypeInductive, PTL DEF Spec

-------------------------------------------------------------------------------

(* Every operation on rows keeps each row exact.                            *)
LEMMA RowsInductive == TypeOK /\ RowsExact /\ [Next]_vars => RowsExact'
<1> SUFFICES ASSUME TypeOK, RowsExact, [Next]_vars PROVE RowsExact'
  OBVIOUS
<1> USE ConstantTypes
<1>0. /\ \A q \in Rows : num[q] \in 0 .. Width /\ batch[q] \in Seq(Nat) /\ np[q] \in [Cols -> Nat]
      /\ \A q \in Rows : num[q] = Len(batch[q])
      /\ \A q \in Rows, c \in Cols : np[q][c] = IF c <= num[q] THEN batch[q][c] ELSE 0
      /\ \A q \in Rows \ active : batch[q] = <<>> /\ num[q] = 0
  BY DEF TypeOK, RowsExact, RowExact
<1>1. ASSUME NEW row \in Rows, NEW b \in BlockIds, AppendRow(row, <<b>>) PROVE RowsExact'
  <2> DEFINE new == KernelBlocks(<<b>>)
  <2>1. new \in Seq(Nat) /\ Len(new) \in Nat
    BY KernelBlocksType
  <2>2. /\ row \in active
        /\ np' = [np EXCEPT ![row] = Written(np[row], num[row], new)]
        /\ num' = [num EXCEPT ![row] = num[row] + Len(new)]
        /\ batch' = [batch EXCEPT ![row] = batch[row] \o new]
        /\ UNCHANGED active
    BY <1>1 DEF AppendRow
  <2> HIDE DEF new
  <2>3. /\ np'[row] = Written(np[row], num[row], new)
        /\ num'[row] = num[row] + Len(new)
        /\ batch'[row] = batch[row] \o new
        /\ \A q \in Rows \ {row} : np'[q] = np[q] /\ num'[q] = num[q] /\ batch'[q] = batch[q]
    BY <2>2 DEF TypeOK
  <2>4. num'[row] = Len(batch'[row])
    BY <1>0, <2>1, <2>3
  <2>5. ASSUME NEW c \in Cols PROVE np'[row][c] = IF c <= num'[row] THEN batch'[row][c] ELSE 0
    <3>1. np'[row][c] = IF num[row] < c /\ c <= num[row] + Len(new) THEN new[c - num[row]]
                                                                  ELSE np[row][c]
      BY <2>3 DEF Written
    <3>2. c \in Nat \ {0}
      BY DEF Cols
    <3>3. CASE c <= num[row]
      BY <1>0, <2>1, <2>3, <3>1, <3>2, <3>3
    <3>4. CASE num[row] < c /\ c <= num[row] + Len(new)
      <4>1. np'[row][c] = new[c - num[row]]
        BY <3>1, <3>4
      <4>2. num[row] \in Nat /\ c \in Nat /\ num[row] = Len(batch[row]) /\ batch[row] \in Seq(Nat)
        BY <1>0, <3>2
      <4>3. batch'[row][c] = new[c - num[row]]
        BY <2>1, <2>3, <3>4, <4>2
      <4>4. c <= num'[row]
        BY <2>3, <3>4
      <4> QED
        BY <4>1, <4>3, <4>4
    <3>5. CASE num[row] + Len(new) < c
      BY <1>0, <2>1, <2>3, <3>1, <3>2, <3>5
    <3> QED
      BY <1>0, <2>1, <3>2, <3>3, <3>4, <3>5
  <2>6. ASSUME NEW q \in Rows
        PROVE  /\ num'[q] = Len(batch'[q])
               /\ \A c \in Cols : np'[q][c] = IF c <= num'[q] THEN batch'[q][c] ELSE 0
    <3>1. CASE q = row
      BY <2>4, <2>5, <3>1
    <3>2. CASE q # row
      <4>1. num'[q] = num[q] /\ batch'[q] = batch[q] /\ np'[q] = np[q]
        BY <2>3, <3>2
      <4>2. num[q] = Len(batch[q])
        BY <1>0
      <4>3. \A c \in Cols : np[q][c] = IF c <= num[q] THEN batch[q][c] ELSE 0
        BY <1>0
      <4> QED
        BY <4>1, <4>2, <4>3
    <3> QED
      BY <3>1, <3>2
  <2>7. \A q \in Rows \ active' : batch'[q] = <<>>
    BY <1>0, <2>2, <2>3
  <2> QED
    BY <2>6, <2>7 DEF RowsExact, RowExact
<1>2. ASSUME NEW row \in Rows, NEW b \in BlockIds, AddRow(row, <<b>>) PROVE RowsExact'
  <2> DEFINE new == KernelBlocks(<<b>>)
  <2>1. new \in Seq(Nat) /\ Len(new) \in Nat
    BY KernelBlocksType
  <2>2. /\ row \notin active
        /\ np' = [np EXCEPT ![row] = Written(np[row], 0, new)]
        /\ num' = [num EXCEPT ![row] = Len(new)]
        /\ batch' = [batch EXCEPT ![row] = new]
        /\ active' = active \cup {row}
    BY <1>2 DEF AddRow
  <2> HIDE DEF new
  <2>3. /\ np'[row] = Written(np[row], 0, new) /\ num'[row] = Len(new) /\ batch'[row] = new
        /\ \A q \in Rows \ {row} : np'[q] = np[q] /\ num'[q] = num[q] /\ batch'[q] = batch[q]
    BY <2>2 DEF TypeOK
  <2>4. ASSUME NEW c \in Cols PROVE np'[row][c] = IF c <= num'[row] THEN batch'[row][c] ELSE 0
    <3>1. np'[row][c] = IF 0 < c /\ c <= 0 + Len(new) THEN new[c - 0] ELSE np[row][c]
      BY <2>3 DEF Written
    <3>2. c \in Nat \ {0}
      BY DEF Cols
    <3> QED
      BY <1>0, <2>1, <2>2, <2>3, <3>1, <3>2
  <2> QED
    BY <1>0, <2>2, <2>3, <2>4 DEF RowsExact, RowExact
<1>3. ASSUME NEW row \in Rows, ClearRow(row) PROVE RowsExact'
  <2>1. /\ np'[row] = Zeroed(np[row], num[row]) /\ num'[row] = 0 /\ batch'[row] = <<>>
        /\ \A q \in Rows \ {row} : np'[q] = np[q] /\ num'[q] = num[q] /\ batch'[q] = batch[q]
        /\ active' = active \ {row}
    BY <1>3 DEF ClearRow, TypeOK
  <2>2. ASSUME NEW c \in Cols PROVE np'[row][c] = 0 /\ ~(c <= 0)
    <3>1. ~(c <= 0)
      BY DEF Cols
    <3>2. np'[row][c] = IF c <= num[row] THEN 0 ELSE np[row][c]
      BY <2>1 DEF Zeroed
    <3>3. np[row][c] = IF c <= num[row] THEN batch[row][c] ELSE 0
      BY <1>0
    <3> QED
      BY <3>1, <3>2, <3>3
  <2>3. ASSUME NEW q \in Rows
        PROVE  /\ num'[q] = Len(batch'[q])
               /\ \A c \in Cols : np'[q][c] = IF c <= num'[q] THEN batch'[q][c] ELSE 0
    <3>1. CASE q = row
      BY <2>1, <2>2, <3>1
    <3>2. CASE q # row
      <4>1. num'[q] = num[q] /\ batch'[q] = batch[q] /\ np'[q] = np[q]
        BY <2>1, <3>2
      <4>2. num[q] = Len(batch[q])
        BY <1>0
      <4>3. \A c \in Cols : np[q][c] = IF c <= num[q] THEN batch[q][c] ELSE 0
        BY <1>0
      <4> QED
        BY <4>1, <4>2, <4>3
    <3> QED
      BY <3>1, <3>2
  <2>4. \A q \in Rows \ active' : batch'[q] = <<>>
    BY <1>0, <2>1
  <2> QED
    BY <2>3, <2>4 DEF RowsExact, RowExact
<1>4. ASSUME NEW src \in Rows, NEW tgt \in Rows, MoveRow(src, tgt) PROVE RowsExact'
  <2>1. src \in active /\ tgt \notin active /\ src # tgt
    BY <1>4 DEF MoveRow
  <2>2. /\ np' = [np EXCEPT ![tgt] = Copied(np[src], np[tgt], num[src]),
                            ![src] = Zeroed(np[src], num[src])]
        /\ num' = [num EXCEPT ![tgt] = num[src], ![src] = 0]
        /\ batch' = [batch EXCEPT ![tgt] = batch[src], ![src] = <<>>]
        /\ active' = (active \ {src}) \cup {tgt}
    BY <1>4 DEF MoveRow
  <2>3. /\ np'[tgt] = Copied(np[src], np[tgt], num[src]) /\ np'[src] = Zeroed(np[src], num[src])
        /\ num'[tgt] = num[src] /\ num'[src] = 0
        /\ batch'[tgt] = batch[src] /\ batch'[src] = <<>>
        /\ \A q \in Rows \ {src, tgt} : np'[q] = np[q] /\ num'[q] = num[q] /\ batch'[q] = batch[q]
    BY <2>1, <2>2 DEF TypeOK
  <2>4. \A c \in Cols : np'[src][c] = 0 /\ ~(c <= 0)
    BY <1>0, <2>3 DEF Zeroed, Cols
  <2>5. \A c \in Cols : np'[tgt][c] = IF c <= num[src] THEN np[src][c] ELSE np[tgt][c]
    BY <2>3 DEF Copied
  <2>6. \A c \in Cols : np[tgt][c] = 0
    BY <1>0, <2>1 DEF Cols
  <2>7. ASSUME NEW q \in Rows
        PROVE  /\ num'[q] = Len(batch'[q])
               /\ \A c \in Cols : np'[q][c] = IF c <= num'[q] THEN batch'[q][c] ELSE 0
    <3>1. CASE q = src
      BY <2>3, <2>4, <3>1
    <3>2. CASE q = tgt
      <4>1. num'[q] = num[src] /\ batch'[q] = batch[src] /\ num'[q] = Len(batch'[q])
        BY <1>0, <2>3, <3>2
      <4>2. \A c \in Cols : np'[q][c] = IF c <= num[src] THEN batch[src][c] ELSE 0
        BY <1>0, <2>5, <2>6, <3>2
      <4> QED
        BY <4>1, <4>2
    <3>3. CASE q \notin {src, tgt}
      <4>1. num'[q] = num[q] /\ batch'[q] = batch[q] /\ np'[q] = np[q]
        BY <2>3, <3>3
      <4>2. num[q] = Len(batch[q])
        BY <1>0
      <4>3. \A c \in Cols : np[q][c] = IF c <= num[q] THEN batch[q][c] ELSE 0
        BY <1>0
      <4> QED
        BY <4>1, <4>2, <4>3
    <3> QED
      BY <3>1, <3>2, <3>3
  <2>8. \A q \in Rows \ active' : batch'[q] = <<>>
    BY <1>0, <2>1, <2>2, <2>3
  <2> QED
    BY <2>7, <2>8 DEF RowsExact, RowExact
<1>5. ASSUME NEW src \in Rows, NEW tgt \in Rows, SwapRow(src, tgt) PROVE RowsExact'
  <2>1. /\ src # tgt /\ {src, tgt} \subseteq active
        /\ np' = [np EXCEPT ![src] = np[tgt], ![tgt] = np[src]]
        /\ num' = [num EXCEPT ![src] = num[tgt], ![tgt] = num[src]]
        /\ batch' = [batch EXCEPT ![src] = batch[tgt], ![tgt] = batch[src]]
        /\ UNCHANGED active
    BY <1>5 DEF SwapRow
  <2>2. /\ np'[src] = np[tgt] /\ num'[src] = num[tgt] /\ batch'[src] = batch[tgt]
        /\ np'[tgt] = np[src] /\ num'[tgt] = num[src] /\ batch'[tgt] = batch[src]
        /\ \A q \in Rows \ {src, tgt} : np'[q] = np[q] /\ num'[q] = num[q] /\ batch'[q] = batch[q]
    BY <2>1 DEF TypeOK
  <2>3. ASSUME NEW q \in Rows
        PROVE  /\ num'[q] = Len(batch'[q])
               /\ \A c \in Cols : np'[q][c] = IF c <= num'[q] THEN batch'[q][c] ELSE 0
    <3>1. CASE q = src
      <4>1. num'[q] = num[tgt] /\ batch'[q] = batch[tgt] /\ np'[q] = np[tgt]
        BY <2>2, <3>1
      <4>2. num[tgt] = Len(batch[tgt])
        BY <1>0
      <4>3. \A c \in Cols : np[tgt][c] = IF c <= num[tgt] THEN batch[tgt][c] ELSE 0
        BY <1>0
      <4> QED
        BY <4>1, <4>2, <4>3
    <3>2. CASE q = tgt
      <4>1. num'[q] = num[src] /\ batch'[q] = batch[src] /\ np'[q] = np[src]
        BY <2>2, <3>2
      <4>2. num[src] = Len(batch[src])
        BY <1>0
      <4>3. \A c \in Cols : np[src][c] = IF c <= num[src] THEN batch[src][c] ELSE 0
        BY <1>0
      <4> QED
        BY <4>1, <4>2, <4>3
    <3>3. CASE q \notin {src, tgt}
      <4>1. num'[q] = num[q] /\ batch'[q] = batch[q] /\ np'[q] = np[q]
        BY <2>2, <3>3
      <4>2. num[q] = Len(batch[q])
        BY <1>0
      <4>3. \A c \in Cols : np[q][c] = IF c <= num[q] THEN batch[q][c] ELSE 0
        BY <1>0
      <4> QED
        BY <4>1, <4>2, <4>3
    <3> QED
      BY <3>1, <3>2, <3>3
  <2>4. \A q \in Rows \ active' : batch'[q] = <<>>
    BY <1>0, <2>1, <2>2
  <2> QED
    BY <2>3, <2>4 DEF RowsExact, RowExact
<1>6. ASSUME NEW n \in Rows, Commit(n) PROVE RowsExact'
  BY <1>6 DEF Commit, RowsExact, RowExact
<1>7. CASE UNCHANGED vars
  BY <1>7 DEF vars, RowsExact, RowExact
<1> QED
  BY <1>1, <1>2, <1>3, <1>4, <1>5, <1>6, <1>7 DEF Next

(* A change of a row ends what the last commit promised, and a commit       *)
(* copies at least the blocks of every row of the step.                     *)
LEMMA StepInductive == TypeOK /\ RowsExact /\ StepSeesItsBlocks /\ [Next]_vars => StepSeesItsBlocks'
<1> SUFFICES ASSUME TypeOK, RowsExact, StepSeesItsBlocks, [Next]_vars PROVE StepSeesItsBlocks'
  OBVIOUS
<1> USE ConstantTypes
<1>1. CASE committed' = 0
  BY <1>1 DEF StepSeesItsBlocks
<1>2. ASSUME NEW n \in Rows, Commit(n) PROVE StepSeesItsBlocks'
  <2>1. PICK w \in 0 .. Width :
          /\ IsActiveWidth(w, n)
          /\ gpu' = [row \in Rows |-> IF row <= n THEN Copied(np[row], gpu[row], w) ELSE gpu[row]]
    BY <1>2 DEF Commit
  <2>2. committed' = n /\ UNCHANGED <<num, batch>>
    BY <1>2 DEF Commit
  <2>3. 1 .. n \subseteq Rows
    BY DEF Rows
  <2>4. \A row \in 1 .. n : num[row] <= w /\ num[row] \in 0 .. Width
    BY <2>1, <2>3 DEF IsActiveWidth, TypeOK
  <2>5. \A row \in 1 .. n : row <= n /\ gpu'[row] = Copied(np[row], gpu[row], w)
    BY <2>1, <2>3
  <2>6. \A row \in 1 .. n, c \in Cols :
          c <= w => gpu'[row][c] = IF c <= num[row] THEN batch[row][c] ELSE 0
    BY <2>3, <2>5, ZenonT(60) DEF Copied, RowsExact, RowExact
  <2>7. \A row \in 1 .. n : \A c \in 1 .. num[row] : c \in Cols /\ c <= num[row] /\ c <= w
    BY <2>4 DEF Cols
  <2>8. \A c \in Cols, other \in 1 .. n : c <= num[other] => c <= w
    BY <2>4 DEF Cols
  <2>9. \A c \in Cols, row \in 1 .. n : num[row] < c => ~(c <= num[row])
    BY <2>4 DEF Cols
  <2> QED
    BY <2>2, <2>6, <2>7, <2>8, <2>9 DEF StepSeesItsBlocks
<1>3. CASE UNCHANGED vars
  BY <1>3 DEF vars, StepSeesItsBlocks
<1>4. CASE Next
  BY <1>1, <1>2, <1>4 DEF Next, AppendRow, AddRow, ClearRow, MoveRow, SwapRow
<1> QED
  BY <1>3, <1>4

(* Whatever sequence of adds, appends, moves, swaps and clears the input    *)
(* batch runs, a row lists its request's blocks and nothing else.           *)
THEOREM RowsStayExact == Spec => []RowsExact
<1>1. Init => RowsExact
  <2>1. \A c \in Cols : ~(c <= 0)
    BY ConstantTypes DEF Cols
  <2>2. Len(<<>>) = 0
    OBVIOUS
  <2> QED
    BY <2>1, <2>2 DEF Init, RowsExact, RowExact, ZeroRow
<1> QED
  BY <1>1, TypeCorrect, RowsInductive, PTL DEF Spec

(* Copying only the columns up to the widest row loses no block of a step,  *)
(* and shows it no block of an earlier step within these columns.           *)
THEOREM ActiveWidthSuffices == Spec => []StepSeesItsBlocks
<1>1. Init => StepSeesItsBlocks
  BY DEF Init, StepSeesItsBlocks
<1> QED
  BY <1>1, TypeCorrect, RowsStayExact, StepInductive, PTL DEF Spec

-------------------------------------------------------------------------------
(* Numbers and their parts: what the slot mapping kernel divides by.        *)

(* Quotient and remainder of a division, as integers the provers can use.   *)
LEMMA Parts ==
  ASSUME NEW a \in Int, NEW b \in Nat \ {0}
  PROVE  \E q \in Int, r \in 0 .. b - 1 : a \div b = q /\ a % b = r /\ a = b * q + r
<1>1. PICK q \in Int : q = a \div b
  OBVIOUS
<1>2. PICK r \in 0 .. b - 1 : r = a % b
  OBVIOUS
<1>3. a = b * q + r
  BY <1>1, <1>2
<1> QED
  BY <1>1, <1>2, <1>3

(* A positive multiple is at least the number itself.                       *)
LEMMA Multiples ==
  ASSUME NEW b \in Nat \ {0}, NEW d \in Int, d >= 1
  PROVE  b * d >= b
OBVIOUS

(* Dividing a by b gives q and leaves r.                                    *)
Divided(a, b, q, r) == b \in Nat \ {0} /\ q \in Int /\ r \in 0 .. b - 1 /\ a \in Int /\ a = b * q + r

(* There is only one quotient and remainder.                                *)
LEMMA PartsUnique ==
  ASSUME NEW a, NEW b, NEW q, NEW r, Divided(a, b, q, r)
  PROVE  a \div b = q /\ a % b = r
<1>1. b \in Nat \ {0} /\ q \in Int /\ r \in 0 .. b - 1 /\ a \in Int /\ a = b * q + r
  BY DEF Divided
<1>2. PICK p \in Int, s \in 0 .. b - 1 : a \div b = p /\ a % b = s /\ a = b * p + s
  BY <1>1, Parts
<1>3. b * (q - p) = b * q - b * p /\ b * (p - q) = b * p - b * q
  BY <1>1
<1>4. CASE q - p >= 1
  BY <1>1, <1>2, <1>3, <1>4, Multiples
<1>5. CASE p - q >= 1
  BY <1>1, <1>2, <1>3, <1>5, Multiples
<1>6. CASE p = q
  BY <1>1, <1>2, <1>6
<1> QED
  BY <1>1, <1>2, <1>4, <1>5, <1>6

(* The quotient is below a bound exactly if the number is below so many     *)
(* divisors.                                                                *)
LEMMA QuotientBound ==
  ASSUME NEW b \in Nat \ {0}, NEW q \in Int, NEW r \in 0 .. b - 1, NEW n \in Int
  PROVE  /\ b * q + r < b * n <=> q < n
         /\ b * q + r >= 0 <=> q >= 0
<1>1. b * (n - q) = b * n - b * q /\ b * (q - n) = b * q - b * n /\ b * (-q) = -(b * q)
  OBVIOUS
<1>2. CASE q < n
  BY <1>1, <1>2, Multiples
<1>3. q >= n => b * (q - n) >= 0
  OBVIOUS
<1>4. b * q + r < b * n <=> q < n
  BY <1>1, <1>2, <1>3
<1>5. q >= 0 => b * q >= 0
  OBVIOUS
<1>6. q < 0 => b * (-q) >= b
  BY Multiples
<1> QED
  BY <1>1, <1>4, <1>5, <1>6

-------------------------------------------------------------------------------
(* A request has whole KV blocks, none twice.                               *)

(* The kernel blocks of one KV block are consecutive.                       *)
LEMMA KernelBlocksOf ==
  ASSUME NEW b \in BlockIds
  PROVE  /\ Len(KernelBlocks(<<b>>)) = BlocksPerKVBlock
         /\ \A i \in 1 .. BlocksPerKVBlock : KernelBlocks(<<b>>)[i] = b * BlocksPerKVBlock + (i - 1)
<1> DEFINE k == BlocksPerKVBlock
<1>1. k \in Nat \ {0} /\ b \in Nat
  BY ConstantTypes, BlockTableAssumption DEF BlockTableAssumption
<1>2. Len(<<b>>) * k = k
  BY <1>1
<1> HIDE DEF k
<1>3. ASSUME NEW i \in 1 .. k PROVE (i - 1) \div k = 0 /\ (i - 1) % k = i - 1
  BY <1>1, <1>3
<1>4. \A i \in 1 .. k : <<b>>[((i - 1) \div k) + 1] * k + ((i - 1) % k) = b * k + (i - 1)
  <2> SUFFICES ASSUME NEW i \in 1 .. k
               PROVE  <<b>>[((i - 1) \div k) + 1] * k + ((i - 1) % k) = b * k + (i - 1)
    OBVIOUS
  <2>1. <<b>>[((i - 1) \div k) + 1] = b
    BY <1>3
  <2> QED
    BY <1>3, <2>1
<1>5. KernelBlocks(<<b>>) = [i \in 1 .. k |-> <<b>>[((i - 1) \div k) + 1] * k + ((i - 1) % k)]
  BY <1>2 DEF KernelBlocks, k
<1>6. Len(KernelBlocks(<<b>>)) = k
  <2>1. KernelBlocks(<<b>>) \in Seq(Nat) /\ DOMAIN KernelBlocks(<<b>>) = 1 .. k
    BY <1>5, KernelBlocksType
  <2> QED
    BY <1>1, <2>1
<1>7. \A i \in 1 .. k : KernelBlocks(<<b>>)[i] = b * k + (i - 1)
  BY <1>4, <1>5
<1> QED
  BY <1>6, <1>7 DEF k

(* What a row has is whole blocks without a kernel block twice.             *)
Whole(n, s) == n % BlocksPerKVBlock = 0 /\ \A i, j \in DOMAIN s : s[i] = s[j] => i = j

(* A row without blocks.                                                    *)
LEMMA WholeEmpty == Whole(0, <<>>)
BY ConstantTypes DEF Whole

(* One more KV block, whose kernel blocks the row does not have.            *)
LEMMA WholeAppended ==
  ASSUME NEW n \in Nat, NEW s \in Seq(Nat), Whole(n, s), NEW b \in BlockIds,
         \A i \in DOMAIN s, l \in 1 .. BlocksPerKVBlock : s[i] # KernelBlocks(<<b>>)[l]
  PROVE  Whole(n + BlocksPerKVBlock, s \o KernelBlocks(<<b>>))
<1> DEFINE k == BlocksPerKVBlock
           new == KernelBlocks(<<b>>)
<1>1. k \in Nat \ {0} /\ b \in Nat
  BY ConstantTypes, BlockTableAssumption DEF BlockTableAssumption
<1>2. new \in Seq(Nat) /\ Len(new) = k
  BY KernelBlocksType, KernelBlocksOf
<1>3. \A i, j \in 1 .. k : new[i] = new[j] => i = j
  <2> SUFFICES ASSUME NEW i \in 1 .. k, NEW j \in 1 .. k, new[i] = new[j] PROVE i = j
    OBVIOUS
  <2>1. new[i] = b * k + (i - 1) /\ new[j] = b * k + (j - 1)
    BY KernelBlocksOf
  <2>2. PICK x \in Int : x = b * k
    BY <1>1
  <2> QED
    BY <1>1, <2>1, <2>2
<1>4. \A i \in DOMAIN s, l \in 1 .. k : s[i] # new[l]
  OBVIOUS
<1>5. (n + k) % k = 0
  <2>1. PICK q \in Int, r \in 0 .. k - 1 : n \div k = q /\ n % k = r /\ n = k * q + r
    BY <1>1, Parts
  <2>2. r = 0
    BY <2>1 DEF Whole
  <2>3. PICK a \in Int, p \in Int : a = n + k /\ p = q + 1
    BY <1>1, SMTT(60)
  <2>4. a = k * p + 0
    BY <1>1, <2>1, <2>2, <2>3
  <2>5. 0 \in 0 .. k - 1
    BY <1>1
  <2>6. a % k = 0
    <3>1. Divided(a, k, p, 0)
      BY <1>1, <2>4, <2>5 DEF Divided
    <3> QED
      BY <3>1, PartsUnique
  <2> QED
    BY <2>3, <2>6
<1> HIDE DEF k, new
<1>6. \A i, j \in DOMAIN (s \o new) : (s \o new)[i] = (s \o new)[j] => i = j
  <2> SUFFICES ASSUME NEW i \in DOMAIN (s \o new), NEW j \in DOMAIN (s \o new), (s \o new)[i] = (s \o new)[j]
               PROVE  i = j
    OBVIOUS
  <2>1. \A h \in DOMAIN (s \o new) :
          IF h <= Len(s) THEN h \in DOMAIN s /\ (s \o new)[h] = s[h]
          ELSE h - Len(s) \in 1 .. k /\ (s \o new)[h] = new[h - Len(s)]
    BY <1>1, <1>2
  <2>2. i \in Int /\ j \in Int /\ Len(s) \in Int
    BY <1>2
  <2>3. CASE i <= Len(s) /\ j <= Len(s)
    BY <2>1, <2>3 DEF Whole
  <2>4. CASE i <= Len(s) /\ ~(j <= Len(s))
    BY <1>4, <2>1, <2>4
  <2>5. CASE ~(i <= Len(s)) /\ j <= Len(s)
    BY <1>4, <2>1, <2>5
  <2>6. CASE ~(i <= Len(s)) /\ ~(j <= Len(s))
    <3>1. i - Len(s) = j - Len(s)
      BY <1>3, <2>1, <2>6
    <3> QED
      BY <2>2, <3>1
  <2> QED
    BY <2>3, <2>4, <2>5, <2>6
<1> QED
  BY <1>5, <1>6 DEF Whole, k, new

(* Every step of the input batch keeps whole KV blocks: an appended or added *)
(* block is one that the row does not hold, the other steps move rows.      *)
LEMMA WholeInductive == TypeOK /\ KVBlocksInv /\ [Next]_vars => KVBlocksInv'
<1> SUFFICES ASSUME TypeOK, KVBlocksInv, [Next]_vars PROVE KVBlocksInv'
  OBVIOUS
<1>0. \A q \in Rows : num[q] \in Nat /\ batch[q] \in Seq(Nat) /\ Whole(num[q], batch[q])
  BY ConstantTypes DEF TypeOK, KVBlocksInv, Whole
<1>1. SUFFICES \A q \in Rows : Whole(num'[q], batch'[q])
  BY DEF KVBlocksInv, Whole
<1>2. DOMAIN num = Rows /\ DOMAIN batch = Rows
  BY DEF TypeOK
<1>3. ASSUME NEW row \in Rows, NEW b \in BlockIds, ~Holds(row, b), AppendRow(row, <<b>>)
      PROVE  \A q \in Rows : Whole(num'[q], batch'[q])
  <2>1. /\ num' = [num EXCEPT ![row] = num[row] + BlocksPerKVBlock]
        /\ batch' = [batch EXCEPT ![row] = batch[row] \o KernelBlocks(<<b>>)]
    BY <1>3, KernelBlocksOf DEF AppendRow
  <2>2. \A i \in DOMAIN batch[row], l \in 1 .. BlocksPerKVBlock : batch[row][i] # KernelBlocks(<<b>>)[l]
    BY <1>3 DEF Holds
  <2>3. Whole(num[row] + BlocksPerKVBlock, batch[row] \o KernelBlocks(<<b>>))
    BY <1>0, <2>2, WholeAppended
  <2> QED
    BY <1>0, <1>2, <2>1, <2>3
<1>4. ASSUME NEW row \in Rows, NEW b \in BlockIds, AddRow(row, <<b>>)
      PROVE  \A q \in Rows : Whole(num'[q], batch'[q])
  <2>1. /\ num' = [num EXCEPT ![row] = BlocksPerKVBlock]
        /\ batch' = [batch EXCEPT ![row] = KernelBlocks(<<b>>)]
    BY <1>4, KernelBlocksOf DEF AddRow
  <2>2. Whole(0 + BlocksPerKVBlock, <<>> \o KernelBlocks(<<b>>))
    <3>1. <<>> \in Seq(Nat) /\ \A i \in DOMAIN <<>>, l \in 1 .. BlocksPerKVBlock : <<>>[i] # KernelBlocks(<<b>>)[l]
      OBVIOUS
    <3> QED
      BY <3>1, WholeEmpty, WholeAppended
  <2>3. 0 + BlocksPerKVBlock = BlocksPerKVBlock /\ <<>> \o KernelBlocks(<<b>>) = KernelBlocks(<<b>>)
    BY ConstantTypes, KernelBlocksType
  <2> QED
    BY <1>0, <1>2, <2>1, <2>2, <2>3
<1>5. ASSUME NEW row \in Rows, ClearRow(row) PROVE \A q \in Rows : Whole(num'[q], batch'[q])
  BY <1>0, <1>2, <1>5, WholeEmpty DEF ClearRow
<1>6. ASSUME NEW src \in Rows, NEW tgt \in Rows, MoveRow(src, tgt)
      PROVE  \A q \in Rows : Whole(num'[q], batch'[q])
  BY <1>0, <1>2, <1>6, WholeEmpty DEF MoveRow
<1>7. ASSUME NEW src \in Rows, NEW tgt \in Rows, SwapRow(src, tgt)
      PROVE  \A q \in Rows : Whole(num'[q], batch'[q])
  BY <1>0, <1>2, <1>7 DEF SwapRow
<1>8. ASSUME NEW n \in Rows, Commit(n) PROVE \A q \in Rows : Whole(num'[q], batch'[q])
  BY <1>0, <1>8 DEF Commit
<1>9. CASE UNCHANGED vars
  BY <1>0, <1>9 DEF vars
<1> QED
  BY <1>3, <1>4, <1>5, <1>6, <1>7, <1>8, <1>9 DEF Next

-------------------------------------------------------------------------------
(* The slot mapping.                                                        *)

(* A KV block holds m interleaves of each rank.                             *)
Interleaves(m) == BlockSize * BlocksPerKVBlock = InterleaveSize * m

(* The types of the constants, and that a KV block is whole interleaves.    *)
LEMMA SlotConstants ==
  /\ BlockSize \in Nat \ {0} /\ BlocksPerKVBlock \in Nat \ {0}
  /\ CPWorldSize \in Nat \ {0} /\ InterleaveSize \in Nat \ {0}
  /\ \E m \in Nat \ {0} : Interleaves(m)
<1>1. /\ BlockSize \in Nat \ {0} /\ BlocksPerKVBlock \in Nat \ {0}
      /\ CPWorldSize \in Nat \ {0} /\ InterleaveSize \in Nat \ {0}
  BY BlockTableAssumption DEF BlockTableAssumption
<1>2. PICK t \in Nat \ {0} : t = BlockSize * BlocksPerKVBlock
  BY <1>1
<1>3. PICK q \in Int, r \in 0 .. InterleaveSize - 1 :
        t \div InterleaveSize = q /\ t % InterleaveSize = r /\ t = InterleaveSize * q + r
  BY <1>1, Parts
<1>4. r = 0
  BY <1>2, <1>3, BlockTableAssumption DEF BlockTableAssumption
<1>5. q \in Nat \ {0}
  <2>1. q >= 0
    BY <1>1, <1>3, QuotientBound
  <2>2. q # 0
    BY <1>1, <1>2, <1>3, <1>4
  <2> QED
    BY <2>1, <2>2
<1>6. Interleaves(q)
  BY <1>1, <1>2, <1>3, <1>4, <1>5 DEF Interleaves
<1> QED
  BY <1>1, <1>5, <1>6

(* The position with these coordinates.                                     *)
At(k, y, a, c) == VirtualBlockSize * k + (InterleaveSize * (CPWorldSize * a + y) + c)

(* The KV blocks of all ranks together in tokens.                           *)
LEMMA BlockIsWhole ==
  ASSUME NEW m \in Nat \ {0}, Interleaves(m)
  PROVE  VirtualBlockSize \in Nat \ {0} /\ VirtualBlockSize = InterleaveSize * m * CPWorldSize
<1>1. VirtualBlockSize = InterleaveSize * m * CPWorldSize
  BY DEF VirtualBlockSize, Interleaves
<1>2. InterleaveSize * m \in Nat \ {0}
  <2>1. InterleaveSize * m >= InterleaveSize
    BY SlotConstants, Multiples
  <2> QED
    BY SlotConstants, <2>1
<1>3. PICK x \in Nat \ {0} : x = InterleaveSize * m
  BY <1>2
<1>4. x * CPWorldSize \in Nat \ {0}
  <2>1. x * CPWorldSize >= x
    BY SlotConstants, Multiples
  <2> QED
    BY SlotConstants, <2>1
<1> QED
  BY <1>1, <1>3, <1>4

(* A position of a request by its KV block k, and in it the chunk a of all  *)
(* ranks, the rank y whose interleave it is, and the place c in that: what  *)
(* the kernel divides finds exactly these.                                  *)
LEMMA PositionRead ==
  ASSUME NEW m \in Nat \ {0}, Interleaves(m),
         NEW k \in Nat, NEW y \in 0 .. CPWorldSize - 1, NEW a \in 0 .. m - 1, NEW c \in 0 .. InterleaveSize - 1,
         NEW pos, pos = At(k, y, a, c)
  PROVE  /\ pos \in Nat /\ pos \div VirtualBlockSize = k
         /\ pos % VirtualBlockSize = InterleaveSize * (CPWorldSize * a + y) + c
         /\ LocalOffset(pos) = InterleaveSize * a + c
         /\ \A rank : IsLocal(pos, rank) <=> rank = y
<1> DEFINE W == CPWorldSize
           I == InterleaveSize
           V == VirtualBlockSize
<1>0. W \in Nat \ {0} /\ I \in Nat \ {0} /\ V \in Nat \ {0} /\ V = I * m * W
  BY SlotConstants, BlockIsWhole
<1>1. y \in 0 .. W - 1 /\ c \in 0 .. I - 1 /\ pos = V * k + (I * (W * a + y) + c)
  BY DEF At
<1> HIDE DEF W, I, V
<1>2. PICK x \in Int : x = W * a + y
  BY <1>0, <1>1
<1>3. PICK n \in Int : n = W * m
  BY <1>0
<1>4. x < n /\ x >= 0
  BY <1>0, <1>1, <1>2, <1>3, QuotientBound
<1>5. V = I * n
  BY <1>0, <1>3
<1>6. PICK off \in Int : off = I * x + c
  BY <1>0, <1>1
<1>7. pos = V * k + off
  BY <1>1, <1>2, <1>6
<1>8. off \in 0 .. V - 1
  <2>1. I * x + c < I * n /\ I * x + c >= 0
    BY <1>0, <1>1, <1>4, QuotientBound
  <2> QED
    BY <1>5, <1>6, <2>1
<1>9. pos \in Nat
  <2>1. V * k \in Nat
    BY <1>0
  <2> QED
    BY <1>7, <1>8, <2>1
<1>10. pos \div V = k /\ pos % V = off
  <2>1. Divided(pos, V, k, off)
    BY <1>0, <1>7, <1>8, <1>9 DEF Divided
  <2> QED
    BY <2>1, PartsUnique
<1>11. off \div I = x /\ off % I = c
  <2>1. Divided(off, I, x, c)
    BY <1>0, <1>1, <1>6 DEF Divided
  <2> QED
    BY <2>1, PartsUnique
<1>12. x % W = y
  <2>1. Divided(x, W, a, y)
    BY <1>0, <1>1, <1>2 DEF Divided
  <2> QED
    BY <2>1, PartsUnique
<1>13. off \div (W * I) = a
  <2>1. PICK s \in Nat \ {0} : s = W * I
    BY <1>0
  <2>2. PICK r \in Int : r = I * y + c
    BY <1>0, <1>1
  <2>3. off = s * a + r
    BY <1>0, <1>1, <1>2, <1>6, <2>1, <2>2
  <2>4. r \in 0 .. s - 1
    <3>1. I * y + c < I * W /\ I * y + c >= 0
      BY <1>0, <1>1, QuotientBound
    <3> QED
      BY <1>0, <1>1, <2>1, <2>2, <3>1
  <2>5. off \div s = a
    <3>1. Divided(off, s, a, r)
      BY <2>1, <2>3, <2>4 DEF Divided
    <3> QED
      BY <3>1, PartsUnique
  <2> QED
    BY <2>1, <2>5
<1>14. LocalOffset(pos) = a * I + c
  BY <1>10, <1>11, <1>13 DEF LocalOffset, W, I, V
<1>15. \A rank : IsLocal(pos, rank) <=> rank = y
  BY <1>10, <1>11, <1>12 DEF IsLocal, W, I, V
<1>16. a * I = I * a
  BY <1>0
<1>17. off = I * (W * a + y) + c
  BY <1>2, <1>6
<1> QED
  BY <1>9, <1>10, <1>14, <1>15, <1>16, <1>17 DEF W, I, V

(* Every position has its coordinates.                                      *)
LEMMA PositionAt ==
  ASSUME NEW m \in Nat \ {0}, Interleaves(m), NEW pos \in Nat
  PROVE  \E k \in Nat, y \in 0 .. CPWorldSize - 1, a \in 0 .. m - 1, c \in 0 .. InterleaveSize - 1 :
            pos = At(k, y, a, c)
<1> DEFINE W == CPWorldSize
           I == InterleaveSize
           V == VirtualBlockSize
<1>0. W \in Nat \ {0} /\ I \in Nat \ {0} /\ V \in Nat \ {0} /\ V = I * m * W
  BY SlotConstants, BlockIsWhole
<1> HIDE DEF W, I, V
<1> USE <1>0
<1>1. PICK k \in Int, off \in 0 .. V - 1 : pos \div V = k /\ pos % V = off /\ pos = V * k + off
  BY Parts
<1>2. k \in Nat
  BY <1>1, QuotientBound
<1>3. PICK x \in Int, c \in 0 .. I - 1 : off \div I = x /\ off % I = c /\ off = I * x + c
  BY Parts
<1>4. x >= 0 /\ x < W * m
  <2>1. PICK n \in Int : n = W * m
    OBVIOUS
  <2>2. I * n = V
    BY <2>1
  <2>3. I * x + c < I * n /\ I * x + c >= 0
    BY <1>3, <2>2
  <2>4. x >= 0 /\ x < n
    BY <2>3, QuotientBound
  <2> QED
    BY <2>1, <2>4
<1>5. PICK a \in Int, y \in 0 .. W - 1 : x \div W = a /\ x % W = y /\ x = W * a + y
  BY Parts
<1>6. a \in 0 .. m - 1
  <2>1. W * a + y < W * m /\ W * a + y >= 0
    BY <1>4, <1>5
  <2>2. a < m /\ a >= 0
    BY <2>1, QuotientBound
  <2> QED
    BY <2>2
<1>7. pos = V * k + (I * (W * a + y) + c)
  BY <1>1, <1>3, <1>5
<1> QED
  BY <1>2, <1>6, <1>7, Zenon DEF At, W, I, V

(* The tokens of a KV block on a rank, by interleave and by kernel block.   *)
LEMMA OffsetParts ==
  ASSUME NEW m \in Nat \ {0}, Interleaves(m)
  PROVE  /\ \A a \in 0 .. m - 1, c \in 0 .. InterleaveSize - 1 :
              \E j \in 0 .. BlocksPerKVBlock - 1, o \in 0 .. BlockSize - 1 :
                InterleaveSize * a + c = BlockSize * j + o
         /\ \A j \in 0 .. BlocksPerKVBlock - 1, o \in 0 .. BlockSize - 1 :
              \E a \in 0 .. m - 1, c \in 0 .. InterleaveSize - 1 :
                BlockSize * j + o = InterleaveSize * a + c
<1> USE SlotConstants
<1>1. PICK t \in Int : t = BlockSize * BlocksPerKVBlock /\ t = InterleaveSize * m
  BY DEF Interleaves
<1>2. ASSUME NEW a \in 0 .. m - 1, NEW c \in 0 .. InterleaveSize - 1
      PROVE  \E j \in 0 .. BlocksPerKVBlock - 1, o \in 0 .. BlockSize - 1 :
                InterleaveSize * a + c = BlockSize * j + o
  <2>1. PICK x \in Int : x = InterleaveSize * a + c
    OBVIOUS
  <2>2. x < InterleaveSize * m /\ x >= 0
    BY <2>1, QuotientBound
  <2>3. PICK j \in Int, o \in 0 .. BlockSize - 1 :
          x \div BlockSize = j /\ x % BlockSize = o /\ x = BlockSize * j + o
    BY Parts
  <2>4. j < BlocksPerKVBlock /\ j >= 0
    <3>1. BlockSize * j + o < BlockSize * BlocksPerKVBlock /\ BlockSize * j + o >= 0
      BY <1>1, <2>2, <2>3
    <3> QED
      BY <3>1, QuotientBound
  <2>5. j \in 0 .. BlocksPerKVBlock - 1
    BY <2>3, <2>4
  <2>6. InterleaveSize * a + c = BlockSize * j + o
    BY <2>1, <2>3
  <2> QED
    BY <2>5, <2>6, Zenon
<1>3. ASSUME NEW j \in 0 .. BlocksPerKVBlock - 1, NEW o \in 0 .. BlockSize - 1
      PROVE  \E a \in 0 .. m - 1, c \in 0 .. InterleaveSize - 1 :
                BlockSize * j + o = InterleaveSize * a + c
  <2>1. PICK x \in Int : x = BlockSize * j + o
    OBVIOUS
  <2>2. x < BlockSize * BlocksPerKVBlock /\ x >= 0
    BY <2>1, QuotientBound
  <2>3. PICK a \in Int, c \in 0 .. InterleaveSize - 1 :
          x \div InterleaveSize = a /\ x % InterleaveSize = c /\ x = InterleaveSize * a + c
    BY Parts
  <2>4. a < m /\ a >= 0
    <3>1. InterleaveSize * a + c < InterleaveSize * m /\ InterleaveSize * a + c >= 0
      BY <1>1, <2>2, <2>3
    <3> QED
      BY <3>1, QuotientBound
  <2>5. a \in 0 .. m - 1
    BY <2>3, <2>4
  <2>6. BlockSize * j + o = InterleaveSize * a + c
    BY <2>1, <2>3
  <2> QED
    BY <2>5, <2>6, Zenon
<1> QED
  BY <1>2, <1>3

(* What a step on the GPU sees of a row: n KV blocks, the request's own.    *)
Sees(row, n) ==
  /\ num[row] = BlocksPerKVBlock * n /\ num[row] \div BlocksPerKVBlock = n
  /\ Len(batch[row]) = num[row] /\ batch[row] \in Seq(Nat)
  /\ \A i \in 1 .. num[row] : gpu[row][i] = batch[row][i]
  /\ \A i, j \in 1 .. num[row] : batch[row][i] = batch[row][j] => i = j

(* The slot of a position of the request is in its k-th KV block, and there *)
(* in kernel block j at o.                                                  *)
LEMMA SlotAt ==
  ASSUME NEW m \in Nat \ {0}, Interleaves(m), NEW row, NEW n \in Nat, Sees(row, n),
         NEW k \in Nat, NEW y \in 0 .. CPWorldSize - 1, NEW a \in 0 .. m - 1, NEW c \in 0 .. InterleaveSize - 1,
         NEW j \in 0 .. BlocksPerKVBlock - 1, NEW o \in 0 .. BlockSize - 1,
         InterleaveSize * a + c = BlockSize * j + o,
         NEW pos, pos = At(k, y, a, c)
  PROVE  /\ pos < n * VirtualBlockSize <=> k < n
         /\ k < n => BlocksPerKVBlock * k + j + 1 \in 1 .. num[row]
         /\ k < n => Slot(row, pos) = batch[row][BlocksPerKVBlock * k + j + 1] * BlockSize + o
<1> USE SlotConstants
<1>1. VirtualBlockSize \in Nat \ {0} /\ VirtualBlockSize = InterleaveSize * m * CPWorldSize
  BY BlockIsWhole
<1>2. pos < n * VirtualBlockSize <=> k < n
  <2>1. PICK off \in Int : off = InterleaveSize * (CPWorldSize * a + y) + c
    OBVIOUS
  <2>2. off \in 0 .. VirtualBlockSize - 1
    <3>1. pos \in Nat /\ pos % VirtualBlockSize = off
      BY <2>1, PositionRead
    <3> QED
      BY <1>1, <3>1
  <2>3. pos = VirtualBlockSize * k + off
    BY <2>1 DEF At
  <2>4. VirtualBlockSize * k + off < VirtualBlockSize * n <=> k < n
    BY <1>1, <2>2, QuotientBound
  <2>5. VirtualBlockSize * n = n * VirtualBlockSize
    BY <1>1
  <2> QED
    BY <2>3, <2>4, <2>5
<1>3. k < n => BlocksPerKVBlock * k + j + 1 \in 1 .. num[row]
  <2>1. BlocksPerKVBlock * k + j < BlocksPerKVBlock * n <=> k < n
    BY QuotientBound
  <2>2. BlocksPerKVBlock * k + j >= 0
    BY QuotientBound
  <2>3. PICK x \in Int : x = BlocksPerKVBlock * k
    OBVIOUS
  <2>4. PICK z \in Int : z = BlocksPerKVBlock * n
    OBVIOUS
  <2> QED
    BY <2>1, <2>2, <2>3, <2>4 DEF Sees
<1>4. ASSUME k < n PROVE Slot(row, pos) = batch[row][BlocksPerKVBlock * k + j + 1] * BlockSize + o
  <2>1. pos \div VirtualBlockSize = k /\ LocalOffset(pos) = InterleaveSize * a + c
    BY PositionRead
  <2>2. PICK x \in Int : x = InterleaveSize * a + c
    OBVIOUS
  <2>3. x \div BlockSize = j /\ x % BlockSize = o
    <3>1. x = BlockSize * j + o
      BY <2>2
    <3>2. Divided(x, BlockSize, j, o)
      BY <3>1 DEF Divided
    <3> QED
      BY <3>2, PartsUnique
  <2>4. LocalOffset(pos) \div BlockSize = j /\ LocalOffset(pos) % BlockSize = o
    BY <2>1, <2>2, <2>3
  <2>5. Slot(row, pos) = gpu[row][k * BlocksPerKVBlock + j + 1] * BlockSize + o
    BY <2>1, <2>4 DEF Slot
  <2>6. k * BlocksPerKVBlock = BlocksPerKVBlock * k
    OBVIOUS
  <2>7. gpu[row][BlocksPerKVBlock * k + j + 1] = batch[row][BlocksPerKVBlock * k + j + 1]
    BY <1>3, <1>4 DEF Sees
  <2> QED
    BY <2>5, <2>6, <2>7
<1> QED
  BY <1>2, <1>3, <1>4

(* Position pos of the rank is at c in interleave a of KV block k of the    *)
(* row, which is o in its kernel block j, and its slot is there.            *)
Located(m, n, row, rank, pos, k, a, c, j, o) ==
  /\ k \in 0 .. n - 1 /\ a \in 0 .. m - 1 /\ c \in 0 .. InterleaveSize - 1
  /\ j \in 0 .. BlocksPerKVBlock - 1 /\ o \in 0 .. BlockSize - 1
  /\ pos = At(k, rank, a, c) /\ InterleaveSize * a + c = BlockSize * j + o
  /\ BlocksPerKVBlock * k + j + 1 \in 1 .. num[row]
  /\ Slot(row, pos) = batch[row][BlocksPerKVBlock * k + j + 1] * BlockSize + o

(* Every position of a rank is in one of the request's blocks.              *)
LEMMA LocalSlot ==
  ASSUME NEW m \in Nat \ {0}, Interleaves(m), NEW row, NEW n \in Nat, Sees(row, n),
         NEW rank, NEW pos \in RankPositions(row, rank)
  PROVE  \E k \in Int, a \in Int, c \in Int, j \in Int, o \in Int : Located(m, n, row, rank, pos, k, a, c, j, o)
<1>1. pos \in Nat /\ pos < n * VirtualBlockSize /\ IsLocal(pos, rank)
  BY BlockIsWhole DEF RankPositions, RowPositions, Sees
<1>2. PICK k \in Nat, y \in 0 .. CPWorldSize - 1, a \in 0 .. m - 1, c \in 0 .. InterleaveSize - 1 :
        pos = At(k, y, a, c)
  BY <1>1, PositionAt
<1>3. rank = y
  BY <1>1, <1>2, PositionRead
<1>4. PICK j \in 0 .. BlocksPerKVBlock - 1, o \in 0 .. BlockSize - 1 :
        InterleaveSize * a + c = BlockSize * j + o
  BY OffsetParts
<1>5. k < n
  BY <1>1, <1>2, <1>4, SlotAt
<1>6. /\ BlocksPerKVBlock * k + j + 1 \in 1 .. num[row]
      /\ Slot(row, pos) = batch[row][BlocksPerKVBlock * k + j + 1] * BlockSize + o
  BY <1>2, <1>4, <1>5, SlotAt
<1>7. k \in 0 .. n - 1
  BY <1>5
<1>8. k \in Int /\ a \in Int /\ c \in Int /\ j \in Int /\ o \in Int
  BY SlotConstants
<1> QED
  BY <1>2, <1>3, <1>4, <1>6, <1>7, <1>8, Zenon DEF Located

(* Every slot of the request's blocks is that of a position of the rank.    *)
LEMMA SlotHasPosition ==
  ASSUME NEW m \in Nat \ {0}, Interleaves(m), NEW row, NEW n \in Nat, Sees(row, n),
         NEW rank \in 0 .. CPWorldSize - 1, NEW i \in 1 .. num[row], NEW o \in 0 .. BlockSize - 1
  PROVE  \E pos \in RankPositions(row, rank) : Slot(row, pos) = batch[row][i] * BlockSize + o
<1> USE SlotConstants
<1>1. PICK k \in Int, j \in 0 .. BlocksPerKVBlock - 1 :
        /\ (i - 1) \div BlocksPerKVBlock = k /\ (i - 1) % BlocksPerKVBlock = j
        /\ i - 1 = BlocksPerKVBlock * k + j
  <2>1. PICK h \in Int : h = i - 1
    OBVIOUS
  <2> QED
    BY <2>1, Parts
<1>2. k \in Nat /\ k < n
  <2>1. BlocksPerKVBlock * k + j >= 0 /\ BlocksPerKVBlock * k + j < num[row]
    <3>1. num[row] \in Nat
      BY DEF Sees
    <3> QED
      BY <1>1, <3>1
  <2>2. num[row] = BlocksPerKVBlock * n
    BY DEF Sees
  <2>3. BlocksPerKVBlock * k + j < BlocksPerKVBlock * n
    BY <2>1, <2>2
  <2> QED
    BY <2>1, <2>3, QuotientBound
<1>3. PICK a \in 0 .. m - 1, c \in 0 .. InterleaveSize - 1 : BlockSize * j + o = InterleaveSize * a + c
  <2>1. \A jj \in 0 .. BlocksPerKVBlock - 1, oo \in 0 .. BlockSize - 1 :
          \E a \in 0 .. m - 1, c \in 0 .. InterleaveSize - 1 : BlockSize * jj + oo = InterleaveSize * a + c
    BY ONLY OffsetParts, m \in Nat \ {0}, Interleaves(m), Zenon
  <2> QED
    BY ONLY <2>1, j \in 0 .. BlocksPerKVBlock - 1, o \in 0 .. BlockSize - 1, Zenon
<1>4. PICK pos : pos = At(k, rank, a, c)
  OBVIOUS
<1>5. /\ pos < n * VirtualBlockSize
      /\ Slot(row, pos) = batch[row][BlocksPerKVBlock * k + j + 1] * BlockSize + o
  <2>1. InterleaveSize * a + c = BlockSize * j + o
    BY <1>3
  <2>2. /\ m \in Nat \ {0} /\ Interleaves(m) /\ n \in Nat /\ Sees(row, n) /\ k \in Nat
        /\ rank \in 0 .. CPWorldSize - 1 /\ a \in 0 .. m - 1 /\ c \in 0 .. InterleaveSize - 1
        /\ j \in 0 .. BlocksPerKVBlock - 1 /\ o \in 0 .. BlockSize - 1
    BY <1>2
  <2> QED
    BY ONLY <1>2, <1>4, <2>1, <2>2, SlotAt
<1>6. pos \in Nat /\ IsLocal(pos, rank)
  BY <1>2, <1>4, PositionRead
<1>7. pos \in RankPositions(row, rank)
  <2>1. PICK e \in Int : e = n * VirtualBlockSize
    BY BlockIsWhole
  <2> QED
    BY <1>5, <1>6, <2>1 DEF RankPositions, RowPositions, Sees
<1>8. BlocksPerKVBlock * k + j + 1 = i
  <2>1. PICK h \in Int : h = BlocksPerKVBlock * k
    OBVIOUS
  <2> QED
    BY <1>1, <2>1
<1> QED
  BY <1>5, <1>7, <1>8

(* Two positions of a rank have different slots.                            *)
LEMMA SlotsDiffer ==
  ASSUME NEW m \in Nat \ {0}, Interleaves(m), NEW row, NEW n \in Nat, Sees(row, n),
         NEW rank, NEW p \in RankPositions(row, rank), NEW q \in RankPositions(row, rank), Slot(row, p) = Slot(row, q)
  PROVE  p = q
<1> USE SlotConstants
<1>a. PICK k \in Int, a \in Int, c \in Int, j \in Int, o \in Int :
        Located(m, n, row, rank, p, k, a, c, j, o)
  BY LocalSlot
<1>b. PICK kk \in Int, aa \in Int, cc \in Int, jj \in Int, oo \in Int :
        Located(m, n, row, rank, q, kk, aa, cc, jj, oo)
  BY LocalSlot
<1>1. /\ k \in 0 .. n - 1 /\ a \in 0 .. m - 1 /\ c \in 0 .. InterleaveSize - 1
      /\ j \in 0 .. BlocksPerKVBlock - 1 /\ o \in 0 .. BlockSize - 1
      /\ p = At(k, rank, a, c) /\ InterleaveSize * a + c = BlockSize * j + o
      /\ BlocksPerKVBlock * k + j + 1 \in 1 .. num[row]
      /\ Slot(row, p) = batch[row][BlocksPerKVBlock * k + j + 1] * BlockSize + o
  BY <1>a DEF Located
<1>2. /\ kk \in 0 .. n - 1 /\ aa \in 0 .. m - 1 /\ cc \in 0 .. InterleaveSize - 1
      /\ jj \in 0 .. BlocksPerKVBlock - 1 /\ oo \in 0 .. BlockSize - 1
      /\ q = At(kk, rank, aa, cc) /\ InterleaveSize * aa + cc = BlockSize * jj + oo
      /\ BlocksPerKVBlock * kk + jj + 1 \in 1 .. num[row]
      /\ Slot(row, q) = batch[row][BlocksPerKVBlock * kk + jj + 1] * BlockSize + oo
  BY <1>b DEF Located
<1>c. /\ c \in 0 .. InterleaveSize - 1 /\ cc \in 0 .. InterleaveSize - 1
      /\ j \in 0 .. BlocksPerKVBlock - 1 /\ jj \in 0 .. BlocksPerKVBlock - 1
      /\ o \in 0 .. BlockSize - 1 /\ oo \in 0 .. BlockSize - 1
  BY <1>1, <1>2
<1>3. PICK i \in 1 .. num[row] : i = BlocksPerKVBlock * k + j + 1
  BY <1>1
<1>4. PICK ii \in 1 .. num[row] : ii = BlocksPerKVBlock * kk + jj + 1
  BY <1>2
<1>5. batch[row][i] = batch[row][ii] /\ o = oo
  <2>1. PICK b \in Nat : b = batch[row][i]
    BY DEF Sees
  <2>2. PICK bb \in Nat : bb = batch[row][ii]
    BY DEF Sees
  <2>3. PICK x \in Int : x = Slot(row, p)
    BY <1>1, <1>3, <2>1
  <2>4. x = BlockSize * b + o
    BY <1>1, <1>3, <2>1, <2>3
  <2>5. x = BlockSize * bb + oo
    BY <1>2, <1>4, <2>2, <2>3
  <2>6. Divided(x, BlockSize, b, o) /\ Divided(x, BlockSize, bb, oo)
    BY <1>c, <2>4, <2>5 DEF Divided
  <2>7. b = bb /\ o = oo
    BY <2>6, PartsUnique
  <2> QED
    BY <2>1, <2>2, <2>7
<1>6. i = ii
  BY <1>5 DEF Sees
<1>7. k = kk /\ j = jj
  <2>1. PICK h \in Int : h = i - 1
    OBVIOUS
  <2>2. PICK z \in Int : z = BlocksPerKVBlock * k
    OBVIOUS
  <2>3. PICK zz \in Int : zz = BlocksPerKVBlock * kk
    OBVIOUS
  <2>4. h = BlocksPerKVBlock * k + j
    BY <1>3, <2>1, <2>2
  <2>5. h = BlocksPerKVBlock * kk + jj
    BY <1>4, <1>6, <2>1, <2>3
  <2>6. Divided(h, BlocksPerKVBlock, k, j) /\ Divided(h, BlocksPerKVBlock, kk, jj)
    BY <1>c, <2>4, <2>5 DEF Divided
  <2> QED
    BY <2>6, PartsUnique
<1>8. a = aa /\ c = cc
  <2>1. PICK x \in Int : x = InterleaveSize * a + c
    OBVIOUS
  <2>2. x = InterleaveSize * aa + cc
    BY <1>1, <1>2, <1>5, <1>7, <2>1
  <2>3. Divided(x, InterleaveSize, a, c) /\ Divided(x, InterleaveSize, aa, cc)
    BY <1>c, <2>1, <2>2 DEF Divided
  <2> QED
    BY <2>3, PartsUnique
<1> QED
  BY <1>1, <1>2, <1>7, <1>8

(* The slots of a rank's positions are the slots of the request's blocks,   *)
(* each once.                                                               *)
LEMMA RankFillsSlots ==
  ASSUME NEW m \in Nat \ {0}, Interleaves(m), NEW row, NEW n \in Nat, Sees(row, n),
         NEW rank \in 0 .. CPWorldSize - 1
  PROVE  /\ {Slot(row, pos) : pos \in RankPositions(row, rank)} = RowSlots(row)
         /\ Cardinality(RankPositions(row, rank)) = Cardinality(RowSlots(row))
<1>1. DOMAIN batch[row] = 1 .. num[row]
  BY DEF Sees
<1>2. ASSUME NEW pos \in RankPositions(row, rank) PROVE Slot(row, pos) \in RowSlots(row)
  <2>0. PICK k \in Int, a \in Int, c \in Int, j \in Int, o \in Int :
          Located(m, n, row, rank, pos, k, a, c, j, o)
    BY LocalSlot
  <2>1. /\ k \in Int /\ j \in Int /\ o \in 0 .. BlockSize - 1
        /\ BlocksPerKVBlock * k + j + 1 \in 1 .. num[row]
        /\ Slot(row, pos) = batch[row][BlocksPerKVBlock * k + j + 1] * BlockSize + o
    BY <2>0 DEF Located
  <2>2. PICK i \in DOMAIN batch[row] : i = BlocksPerKVBlock * k + j + 1
    BY <1>1, <2>1
  <2>3. PICK b \in {batch[row][x] : x \in DOMAIN batch[row]} : b = batch[row][i]
    OBVIOUS
  <2>4. Slot(row, pos) = b * BlockSize + o
    BY <2>1, <2>2, <2>3
  <2>5. o \in 0 .. BlockSize - 1
    BY <2>1
  <2> QED
    BY <2>4, <2>5 DEF RowSlots
<1>3. ASSUME NEW s \in RowSlots(row) PROVE \E pos \in RankPositions(row, rank) : Slot(row, pos) = s
  <2>1. PICK i \in DOMAIN batch[row], o \in 0 .. BlockSize - 1 : s = batch[row][i] * BlockSize + o
    BY DEF RowSlots
  <2>2. i \in 1 .. num[row]
    BY <1>1
  <2> QED
    BY <2>1, <2>2, SlotHasPosition
<1>4. {Slot(row, pos) : pos \in RankPositions(row, rank)} = RowSlots(row)
  BY <1>2, <1>3, Zenon
<1>5. IsFiniteSet(RankPositions(row, rank))
  <2>1. PICK e \in Int : e = n * VirtualBlockSize - 1
    BY BlockIsWhole
  <2>2. IsFiniteSet(0 .. e)
    BY FS_Interval
  <2>3. RankPositions(row, rank) \subseteq 0 .. e
    BY <2>1 DEF RankPositions, RowPositions, Sees
  <2> QED
    BY <2>2, <2>3, FS_Subset
<1>6. ExistsBijection(RankPositions(row, rank), RowSlots(row))
  <2> DEFINE f == [pos \in RankPositions(row, rank) |-> Slot(row, pos)]
  <2>1. f \in [RankPositions(row, rank) -> RowSlots(row)]
    BY <1>2
  <2>2. \A p, q \in RankPositions(row, rank) : f[p] = f[q] => p = q
    BY SlotsDiffer
  <2>3. \A s \in RowSlots(row) : \E pos \in RankPositions(row, rank) : f[pos] = s
    BY <1>3
  <2> HIDE DEF f
  <2>4. f \in Bijection(RankPositions(row, rank), RowSlots(row))
    BY <2>1, <2>2, <2>3, Zenon DEF Bijection, Injection, Surjection, IsInjective
  <2> QED
    BY <2>4 DEF ExistsBijection
<1> QED
  BY <1>4, <1>5, <1>6, FS_Bijection

(* SlotsExact follows from what a row lists, what the GPU sees of it, and   *)
(* that its kernel blocks are whole KV blocks and differ.                   *)
LEMMA SlotsOfStep == TypeOK /\ RowsExact /\ StepSeesItsBlocks /\ KVBlocksInv => SlotsExact
<1> SUFFICES ASSUME TypeOK, RowsExact, StepSeesItsBlocks, KVBlocksInv, NEW row \in 1 .. committed
             PROVE  /\ \A pos \in RowPositions(row) :
                        Cardinality({rank \in 0 .. CPWorldSize - 1 : IsLocal(pos, rank)}) = 1
                    /\ \A rank \in 0 .. CPWorldSize - 1 :
                        /\ {Slot(row, pos) : pos \in RankPositions(row, rank)} = RowSlots(row)
                        /\ Cardinality(RankPositions(row, rank)) = Cardinality(RowSlots(row))
  BY DEF SlotsExact
<1>1. PICK m \in Nat \ {0} : Interleaves(m)
  BY SlotConstants
<1>2. row \in Rows /\ num[row] \in Nat /\ batch[row] \in Seq(Nat)
  BY ConstantTypes DEF TypeOK, Rows
<1>3. PICK n \in Int, r \in 0 .. BlocksPerKVBlock - 1 :
        /\ num[row] \div BlocksPerKVBlock = n /\ num[row] % BlocksPerKVBlock = r
        /\ num[row] = BlocksPerKVBlock * n + r
  <2>1. PICK x \in Int : x = num[row]
    BY <1>2
  <2> QED
    BY <2>1, ConstantTypes, Parts
<1>4. n \in Nat /\ num[row] = BlocksPerKVBlock * n
  <2>1. r = 0
    BY <1>2, <1>3 DEF KVBlocksInv
  <2>2. n >= 0
    BY <1>2, <1>3, ConstantTypes, QuotientBound
  <2> QED
    BY <1>3, <2>1, <2>2, ConstantTypes
<1>5. Sees(row, n)
  <2>1. Len(batch[row]) = num[row]
    BY <1>2 DEF RowsExact, RowExact
  <2>2. \A i \in 1 .. num[row] : gpu[row][i] = batch[row][i]
    BY DEF StepSeesItsBlocks
  <2>3. \A i, j \in 1 .. num[row] : batch[row][i] = batch[row][j] => i = j
    BY <1>2, <2>1 DEF KVBlocksInv
  <2> QED
    BY <1>2, <1>3, <1>4, <2>1, <2>2, <2>3 DEF Sees
<1>6. ASSUME NEW pos \in RowPositions(row)
      PROVE  Cardinality({rank \in 0 .. CPWorldSize - 1 : IsLocal(pos, rank)}) = 1
  <2>1. pos \in Nat
    BY <1>1, BlockIsWhole DEF RowPositions
  <2>2. PICK k \in Nat, y \in 0 .. CPWorldSize - 1, a \in 0 .. m - 1, c \in 0 .. InterleaveSize - 1 :
          pos = At(k, y, a, c)
    BY <1>1, <2>1, PositionAt
  <2>3. \A rank : IsLocal(pos, rank) <=> rank = y
    BY <1>1, <2>2, PositionRead
  <2>4. {rank \in 0 .. CPWorldSize - 1 : IsLocal(pos, rank)} = {y}
    BY <2>3, Zenon
  <2> QED
    BY <2>4, FS_Singleton
<1>7. \A rank \in 0 .. CPWorldSize - 1 :
        /\ {Slot(row, pos) : pos \in RankPositions(row, rank)} = RowSlots(row)
        /\ Cardinality(RankPositions(row, rank)) = Cardinality(RowSlots(row))
  BY <1>1, <1>4, <1>5, RankFillsSlots
<1> QED
  BY <1>6, <1>7

(* Context-parallel ranks share the positions of a request out exactly, and *)
(* the slot mapping kernel of each rank fills every slot of the request's   *)
(* blocks once and no other, for every interleave and block size, whatever  *)
(* the input batch did to the rows before the commit.                       *)
THEOREM SlotsStayExact == Spec => []SlotsExact
<1>1. Init => KVBlocksInv
  BY ConstantTypes, WholeEmpty DEF Init, KVBlocksInv, Whole
<1>2. Spec => []KVBlocksInv
  BY <1>1, TypeCorrect, WholeInductive, PTL DEF Spec
<1> QED
  BY <1>2, TypeCorrect, RowsStayExact, ActiveWidthSuffices, SlotsOfStep, PTL
==============================================================================
