----------------------- MODULE CheckpointVariant_proofs -----------------------
(* Proofs about CheckpointVariant for every set of shards and other files,  *)
(* every distribution of the tensors over them, and any number of crashes.  *)
EXTENDS CheckpointVariant, TLAPS

USE DEF Weights, Files

(* A shard that is to be edited changes; other files do not.                *)
LEMMA EditedChanges ==
  ASSUME tool \in {"mtp", "markov"}, NEW f \in Weights
  PROVE  /\ f \in EditedShards => Edited(From("input", f)) # From("input", f)
         /\ f \notin EditedShards => Edited(From("input", f)) = From("input", f)
<1>1. CASE f \in EditedShards
  <2>1. PICK t \in Tensors[f] : t \in Replaced[tool]
    BY <1>1 DEF EditedShards
  <2>2. Edited(From("input", f))[t] = "new" /\ From("input", f)[t] = "input"
    BY <2>1 DEF Edited, From
  <2> QED
    BY <1>1, <2>2
<1>2. CASE f \notin EditedShards
  <2>1. Tensors[f] \cap Replaced[tool] = {}
    BY <1>2, VariantAssumption DEF EditedShards, VariantAssumption
  <2> QED
    BY <1>2, <2>1 DEF Edited, From
<1> QED
  BY <1>1, <1>2

(* There is always a shard to edit, and the Markov tool has only one.       *)
LEMMA SomethingEdited ==
  ASSUME tool \in {"mtp", "markov"}
  PROVE  /\ EditedShards # {} /\ EditedShards \subseteq Shards
         /\ tool = "markov" => \A f, g \in EditedShards : f = g
BY VariantAssumption DEF EditedShards, VariantAssumption

LEMMA VariantInitially == VariantInit => VariantInv
<1> SUFFICES ASSUME VariantInit PROVE VariantInv
  OBVIOUS
<1>1. VariantType
  BY VariantAssumption DEF VariantInit, VariantType, VariantAssumption
<1>2. InputIntact
  BY VariantAssumption DEF VariantInit, InputIntact, VariantAssumption
<1> QED
  BY <1>1, <1>2 DEF VariantInv, VariantInit, OutputRight, MemoryRight, Settled, Stage, Complete, Unreplaced

(* A state that the verifier accepts has every edited shard replaced: what  *)
(* the input has in its place is not what the verifier expects.             *)
LEMMA VerifiedReplaced ==
  ASSUME VariantInv, Verified
  PROVE  \A f \in EditedShards : entry[f] = "own"
<1> SUFFICES ASSUME NEW f \in EditedShards, entry[f] # "own" PROVE FALSE
  OBVIOUS
<1>1. tool \in {"mtp", "markov"} /\ f \in Shards /\ input[f] = From("input", f)
  BY DEF VariantInv, VariantType, InputIntact, EditedShards
<1>2. PICK t \in Tensors[f] : t \in Replaced[tool]
  BY DEF EditedShards
<1>3. CASE tool = "mtp"
  <2>1. entry[f] = "input" /\ Contents(f) = [u \in Tensors[f] |-> IF u \in Replaced[tool] THEN "new" ELSE input[f][u]]
    BY <1>1, <1>3 DEF Verified, VerifiedMtp, VariantInv, VariantType
  <2>2. Contents(f)[t] = "new" /\ input[f][t] = "input"
    BY <1>1, <1>2, <2>1 DEF From
  <2> QED
    BY <2>1, <2>2 DEF Contents
<1>4. CASE tool = "markov"
  <2>1. entry[f] = "input" /\ t \in UNION {{u \in Tensors[g] : Contents(g)[u] # input[g][u]} : g \in Shards}
    BY <1>1, <1>2, <1>4 DEF Verified, VerifiedMarkov, VariantInv, VariantType
  <2>2. PICK g \in Shards : t \in Tensors[g] /\ Contents(g)[t] # input[g][t]
    BY <2>1
  <2>3. g = f
    BY <1>1, <1>2, <2>2, VariantAssumption DEF VariantAssumption
  <2> QED
    BY <2>1, <2>2, <2>3 DEF Contents
<1> QED
  BY <1>1, <1>3, <1>4

LEMMA VariantInvExact == VariantInv => VariantExact
<1> SUFFICES ASSUME VariantInv PROVE VariantExact
  OBVIOUS
<1>1. tool \in {"mtp", "markov"} /\ \A f \in Weights : input[f] = From("input", f)
  BY DEF VariantInv, VariantType, InputIntact
<1>2. ASSUME Verified, NEW f \in Weights
      PROVE  IF entry[f] = "none" THEN removing ELSE Contents(f) = Edited(From("input", f))
  <2>1. PICK g \in EditedShards : entry[g] = "own"
    BY <1>1, <1>2, VerifiedReplaced, SomethingEdited
  <2>2. ~removing => entry[f] # "none"
    BY <1>1, <2>1, SomethingEdited DEF VariantInv, Settled, Complete
  <2>3. CASE entry[f] = "own"
    BY <2>3 DEF VariantInv, OutputRight, Contents
  <2>4. CASE entry[f] = "input"
    <3>1. f \notin EditedShards
      BY <1>2, <2>4, VerifiedReplaced
    <3> QED
      BY <1>1, <2>4, <3>1, EditedChanges DEF Contents
  <2>5. entry[f] \in {"none", "input", "own"}
    BY DEF VariantInv, VariantType
  <2> QED
    BY <2>2, <2>3, <2>4, <2>5
<1>3. Verified => removing \/ temp = "none"
  BY VerifiedReplaced DEF VariantInv, Settled, Unreplaced
<1> QED
  BY <1>1, <1>2, <1>3 DEF VariantExact

(* The steps that leave the input and all files of the output as they are.  *)
LEMMA NoFileWritten ==
  ASSUME VariantInv, BeginRemove \/ RemoveTemporary \/ SaveTemporary \/ Crash \/ Fail
  PROVE  VariantType' /\ InputIntact' /\ OutputRight' /\ EditedShards' = EditedShards /\ Complete' = Complete
         /\ Unreplaced' = Unreplaced
<1>1. UNCHANGED <<tool, input, entry, own>>
  BY DEF BeginRemove, RemoveTemporary, SaveTemporary, Crash, Fail, Kept
<1>2. EditedShards' = EditedShards /\ Complete' = Complete /\ Unreplaced' = Unreplaced
  BY <1>1 DEF EditedShards, Complete, Unreplaced
<1>3. VariantType'
  BY <1>1 DEF VariantInv, VariantType, BeginRemove, RemoveTemporary, SaveTemporary, Crash, Fail
<1>4. InputIntact' /\ OutputRight'
  BY <1>1, <1>2 DEF VariantInv, InputIntact, OutputRight, Edited, From
<1> QED
  BY <1>2, <1>3, <1>4

LEMMA VariantInductive == VariantInv /\ [VariantNext]_variantVars => VariantInv'
<1> SUFFICES ASSUME VariantInv, [VariantNext]_variantVars PROVE VariantInv'
  OBVIOUS
<1>0. tool \in {"mtp", "markov"}
  BY DEF VariantInv, VariantType
<1>1. CASE BeginRemove
  BY <1>1, NoFileWritten DEF BeginRemove, VariantInv, MemoryRight, Settled, Stage
<1>2. CASE RemoveTemporary
  BY <1>2, NoFileWritten DEF RemoveTemporary, VariantInv, MemoryRight, Settled, Stage
<1>3. CASE Crash
  BY <1>3, NoFileWritten DEF Crash, VariantInv, MemoryRight, Settled, Stage
<1>4. CASE Fail
  BY <1>4, NoFileWritten DEF Fail, VariantInv, MemoryRight, Settled, Stage
<1>5. CASE SaveTemporary
  <2>1. phase = "shard" /\ ~removing /\ todo = Unreplaced /\ todo # {} /\ Complete
        /\ phase' = "rename" /\ temp' = "written" /\ UNCHANGED <<tool, input, entry, own, todo, exists, removing>>
        /\ tensors' = IF tool = "mtp" THEN Edited(Contents(Current)) ELSE tensors
    BY <1>5 DEF SaveTemporary, Kept, VariantInv, Stage
  <2>2. Current \in EditedShards /\ entry[Current] # "own" /\ Current' = Current
    BY <2>1 DEF Current, Unreplaced
  <2>3. Contents(Current) = From("input", Current)
    BY <1>0, <2>1, <2>2, SomethingEdited DEF VariantInv, VariantType, InputIntact, Complete, Contents
  <2>4. tensors' = Edited(From("input", Current))
    BY <1>0, <2>1, <2>2, <2>3 DEF VariantInv, MemoryRight
  <2>5. MemoryRight'
    BY <2>1, <2>2, <2>4 DEF MemoryRight, Edited, From
  <2> QED
    BY <1>5, <2>1, <2>5, NoFileWritten DEF VariantInv, Settled, Stage
<1>6. ASSUME NEW f \in Files, RemoveFile(f) PROVE VariantInv'
  BY <1>6, SMTT(60) DEF RemoveFile, Kept, VariantInv, VariantType, InputIntact, OutputRight, MemoryRight, Settled, Stage,
              EditedShards, Edited, From
<1>7. CASE RemoveDirectory
  <2>1. phase' = "idle" /\ exists' = FALSE /\ removing' = FALSE /\ temp = "none"
        /\ (\A f \in Files : entry[f] = "none") /\ UNCHANGED <<tool, input, entry, own, temp, todo, tensors>>
    BY <1>7 DEF RemoveDirectory, Kept
  <2>2. VariantType'
    BY <2>1 DEF VariantInv, VariantType
  <2>3. InputIntact' /\ OutputRight'
    BY <2>1 DEF VariantInv, InputIntact, OutputRight, From
  <2>4. MemoryRight' /\ Settled' /\ Stage'
    BY <2>1 DEF MemoryRight, Settled, Stage
  <2> QED
    BY <2>2, <2>3, <2>4 DEF VariantInv
<1>8. CASE Load
  <2>1. phase' = "link" /\ exists' = TRUE /\ todo' = DOMAIN input /\ UNCHANGED <<tool, input, entry, own, temp, removing>>
        /\ ~exists /\ ~removing /\ temp = "none" /\ \A f \in Files : entry[f] = "none"
    BY <1>8 DEF Load, Kept, VariantInv, Stage
  <2>2. VariantType' /\ InputIntact' /\ OutputRight' /\ EditedShards' = EditedShards
    BY <2>1 DEF VariantInv, VariantType, InputIntact, OutputRight, EditedShards, From
  <2>3. MemoryRight'
    <3> SUFFICES ASSUME tool = "markov", NEW f \in EditedShards PROVE tensors' = Edited(From("input", f))
      BY <2>1, <2>2 DEF MemoryRight, Edited, From
    <3>1. (CHOOSE g \in EditedShards : TRUE) = f
      BY <1>0, SomethingEdited
    <3>2. input[f] = From("input", f)
      BY DEF VariantInv, InputIntact, EditedShards
    <3> QED
      BY <1>8, <3>1, <3>2 DEF Load
  <2>4. \E f \in Weights : f \in DOMAIN input
    BY <1>0, SomethingEdited DEF VariantInv, VariantType
  <2>5. Settled'
    BY <2>1 DEF Settled
  <2>6. Stage'
    BY <2>1, <2>4 DEF Stage, VariantInv, VariantType
  <2> QED
    BY <2>2, <2>3, <2>5, <2>6 DEF VariantInv
<1>9. ASSUME NEW f \in Files, LinkFile(f) PROVE VariantInv'
  <2>1. phase = "link" /\ f \in todo /\ ~removing /\ temp = "none" /\ todo \subseteq DOMAIN input
        /\ (\A g \in Weights : entry[g] = IF g \in todo THEN "none" ELSE "input")
        /\ exists /\ entry' = [entry EXCEPT ![f] = "input"] /\ UNCHANGED <<tool, input, exists, own, temp, tensors, removing>>
    BY <1>9 DEF LinkFile, Kept, VariantInv, VariantType, Stage
  <2>2. \A g \in Weights : entry'[g] = IF g \in todo \ {f} THEN "none" ELSE "input"
    BY <2>1 DEF VariantInv, VariantType
  <2>3. VariantType'
    BY <1>9, <2>1 DEF LinkFile, VariantInv, VariantType
  <2>4. InputIntact' /\ OutputRight' /\ EditedShards' = EditedShards
    BY <2>1, <2>2 DEF VariantInv, InputIntact, OutputRight, EditedShards, From
  <2>5. MemoryRight'
    BY <1>9, <2>1, <2>4 DEF LinkFile, VariantInv, MemoryRight, Edited, From
  <2>6. Settled'
    BY <2>1, <2>2 DEF Settled
  <2>7. CASE todo = {f}
    <3>1. todo' = EditedShards /\ phase' = "shard"
      BY <1>9, <2>7 DEF LinkFile
    <3>2. Complete' /\ Unreplaced' = EditedShards
      BY <1>0, <2>2, <2>4, <2>7, SomethingEdited DEF Complete, Unreplaced
    <3>3. Stage'
      BY <1>0, <2>1, <3>1, <3>2, SomethingEdited DEF Stage
    <3> QED
      BY <2>3, <2>4, <2>5, <2>6, <3>3 DEF VariantInv
  <2>8. CASE todo # {f}
    <3>1. todo' = todo \ {f} /\ phase' = "link"
      BY <1>9, <2>1, <2>8 DEF LinkFile
    <3>2. Stage'
      BY <2>1, <2>2, <2>8, <3>1 DEF Stage
    <3> QED
      BY <2>3, <2>4, <2>5, <2>6, <3>2 DEF VariantInv
  <2> QED
    BY <2>7, <2>8
<1>10. CASE Replace
  <2> DEFINE f == Current
  <2>1. phase = "rename" /\ exists /\ ~removing /\ Complete /\ todo = Unreplaced /\ todo # {}
        /\ tensors = Edited(From("input", f))
    BY <1>10 DEF Replace, VariantInv, VariantType, Stage, MemoryRight
  <2>2. f \in Unreplaced /\ f \in EditedShards /\ f \in Weights
    BY <1>0, <2>1, SomethingEdited DEF Current, Unreplaced
  <2>3. entry' = [entry EXCEPT ![f] = "own"] /\ own' = [own EXCEPT ![f] = tensors] /\ temp' = "none"
        /\ todo' = todo \ {f} /\ phase' = (IF todo = {f} THEN "provenance" ELSE "shard")
        /\ UNCHANGED <<tool, input, exists, tensors, removing>>
    BY <1>10 DEF Replace, Renamed, Kept
  <2> HIDE DEF f
  <2>4. VariantType'
    BY <2>2, <2>3 DEF VariantInv, VariantType
  <2>5. EditedShards' = EditedShards /\ InputIntact'
    BY <2>3 DEF EditedShards, VariantInv, InputIntact, From
  <2>6. \A g \in Weights :
          /\ entry'[g] = IF g = f THEN "own" ELSE entry[g]
          /\ own'[g] = IF g = f THEN tensors ELSE own[g]
    <3>1. DOMAIN own = Files /\ DOMAIN entry = Files
      BY DEF VariantInv, VariantType
    <3> QED
      BY <2>3, <3>1
  <2>7. OutputRight'
    <3> SUFFICES ASSUME NEW g \in Weights, entry'[g] = "own"
                 PROVE  g \in EditedShards /\ own'[g] = Edited(From("input", g))
      BY <2>3, <2>5 DEF OutputRight, Edited, From
    <3> QED
      BY <2>1, <2>2, <2>6 DEF VariantInv, OutputRight
  <2>8. Complete' /\ Unreplaced' = todo \ {f}
    BY <1>0, <2>1, <2>2, <2>5, <2>6, SomethingEdited DEF Complete, Unreplaced
  <2>9. MemoryRight'
    <3> SUFFICES ASSUME tool = "markov", NEW g \in EditedShards PROVE tensors = Edited(From("input", g))
      BY <2>3, <2>5 DEF MemoryRight, Edited, From
    <3> QED
      BY <1>0, <2>1, <2>2, SomethingEdited
  <2>10. Settled' /\ Stage'
    BY <2>1, <2>2, <2>3, <2>8 DEF Settled, Stage
  <2> QED
    BY <2>4, <2>5, <2>7, <2>9, <2>10 DEF VariantInv
<1>11. CASE OpenProvenance \/ WriteProvenance
  <2>1. PICK contents : WrittenTo(Provenance, contents)
    BY <1>11 DEF OpenProvenance, WriteProvenance
  <2>2. phase \in {"provenance", "text"} /\ phase' \in {"idle", "text"}
        /\ UNCHANGED <<tool, exists, temp, todo, tensors, removing>>
    BY <1>11, <2>1 DEF OpenProvenance, WriteProvenance, WrittenTo
  <2>3. VariantType'
    BY <2>1, <2>2 DEF WrittenTo, VariantInv, VariantType
  <2>4. \A g \in Weights : entry'[g] = entry[g] /\ own'[g] = own[g] /\ input'[g] = input[g]
    BY <2>1, VariantAssumption DEF WrittenTo, VariantAssumption, VariantInv, VariantType
  <2>5. EditedShards' = EditedShards /\ InputIntact' /\ OutputRight'
    BY <2>2, <2>4 DEF EditedShards, VariantInv, InputIntact, OutputRight, Edited, From
  <2>6. Complete' = Complete /\ Unreplaced' = Unreplaced
    BY <1>0, <2>4, <2>5, SomethingEdited DEF Complete, Unreplaced
  <2>7. MemoryRight' /\ Settled' /\ Stage'
    BY <2>2, <2>4, <2>6 DEF VariantInv, VariantType, MemoryRight, Settled, Stage
  <2> QED
    BY <2>3, <2>5, <2>7 DEF VariantInv
<1>12. CASE UNCHANGED variantVars
  <2>1. UNCHANGED <<tool, input, exists, entry, own, temp, phase, todo, tensors, removing>>
    BY <1>12 DEF variantVars
  <2>2. EditedShards' = EditedShards /\ Complete' = Complete /\ Unreplaced' = Unreplaced /\ VariantType'
    BY <2>1 DEF EditedShards, Complete, Unreplaced, VariantInv, VariantType
  <2>3. InputIntact' /\ OutputRight'
    BY <2>1, <2>2 DEF VariantInv, InputIntact, OutputRight, Edited, From
  <2>4. MemoryRight'
    BY <2>1, <2>2, SMTT(60) DEF VariantInv, MemoryRight, Edited, From, Current
  <2> QED
    BY <2>1, <2>2, <2>3, <2>4 DEF VariantInv, Settled, Stage
<1> QED
  BY <1>1, <1>2, <1>3, <1>4, <1>5, <1>6, <1>7, <1>8, <1>9, <1>10, <1>11, <1>12 DEF VariantNext

(* However often the tool is killed, the inductive invariant holds.         *)
THEOREM VariantInvariant == VariantSpec => []VariantInv
BY VariantInitially, VariantInductive, PTL DEF VariantSpec

(* Whatever is killed and when, the input keeps its weights, and an output  *)
(* that its verifier accepts is exact (the checkpoint tools).               *)
THEOREM VariantsStayExact == VariantSpec => []VariantExact
BY VariantInvariant, VariantInvExact, PTL
===============================================================================
