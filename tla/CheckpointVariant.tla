--------------------------- MODULE CheckpointVariant ---------------------------
(***************************************************************************)
(* The tools that derive a checkpoint from another one:                    *)
(* restore_base_mtp.py ("mtp") and export_markov_variant.py ("markov"),    *)
(* with the scripts that verify the result.  The output directory starts   *)
(* as hard links to the input's files; a tool may be killed between any    *)
(* two system calls and be started again.                                  *)
(*                                                                         *)
(* A file's contents map its tensors (the text of a file that is no shard  *)
(* counts as one) to where they come from: "input", "new" (the base        *)
(* checkpoint or the calibration) or "cut" (a file just truncated).        *)
(***************************************************************************)
EXTENDS FiniteSets

CONSTANTS
    Shards,
    Others,      \* configuration, index, tokenizer
    Provenance,  \* the file the tool writes last
    Tensors,     \* [Shards \cup Others \cup {Provenance} -> SUBSET tensors]
    Replaced     \* [{"mtp", "markov"} -> SUBSET tensors]

Weights == Shards \cup Others
Files == Weights \cup {Provenance}

(* The index names one shard per tensor; there are tensors to replace, those *)
(* of the Markov head in one shard (main of either tool).                    *)
ASSUME VariantAssumption ==
    /\ Shards \cap Others = {} /\ Provenance \notin Weights
    /\ \A f, g \in Shards : f # g => Tensors[f] \cap Tensors[g] = {}
    /\ \A w \in {"mtp", "markov"} :
        /\ \E f \in Shards : Tensors[f] \cap Replaced[w] # {}
        /\ \A f \in Others : Tensors[f] \cap Replaced[w] = {}
    /\ \A f, g \in Shards :
        Tensors[f] \cap Replaced["markov"] # {} /\ Tensors[g] \cap Replaced["markov"] # {} => f = g

VARIABLES
    tool,
    input,     \* the contents of the files of the input directory
    exists,    \* whether there is an output directory
    entry,     \* its entries: none, an inode of the input, or one of its own
    own,       \* the contents of those
    temp,      \* the temporary file beside them
    phase,     \* where the tool is; "idle" if none runs
    todo,      \* files to link, then shards to replace
    tensors,   \* of the shard to be written, in memory
    removing   \* rmtree has begun and not ended

variantVars == <<tool, input, exists, entry, own, temp, phase, todo, tensors, removing>>

From(where, f) == [t \in Tensors[f] |-> where]
Kept == UNCHANGED <<tool, input>>

EditedShards == {f \in Shards : Tensors[f] \cap Replaced[tool] # {}}
Edited(contents) == [t \in DOMAIN contents |-> IF t \in Replaced[tool] THEN "new" ELSE contents[t]]
Contents(f) == IF entry[f] = "input" THEN input[f] ELSE own[f]

\* An input that was a variant already has a provenance file.  All Markov
\* tensors are in one shard (export_markov_variant.py:74-75).
VariantInit ==
    /\ tool \in {"mtp", "markov"}
    /\ input \in {[f \in Files |-> From("input", f)], [f \in Files \ {Provenance} |-> From("input", f)]}
    /\ exists = FALSE
    /\ entry = [f \in Files |-> "none"] /\ own = [f \in Files |-> From("cut", f)]
    /\ temp = "none" /\ phase = "idle" /\ todo = {} /\ tensors = <<>> /\ removing = FALSE

-------------------------------------------------------------------------------
(* An output that exists is removed (--force) file by file. *)

BeginRemove ==
    /\ phase = "idle" /\ exists
    /\ phase' = "remove" /\ removing' = TRUE
    /\ UNCHANGED <<exists, entry, own, temp, todo, tensors>> /\ Kept

RemoveFile(f) ==
    /\ phase = "remove" /\ entry[f] # "none"
    /\ entry' = [entry EXCEPT ![f] = "none"]
    /\ UNCHANGED <<exists, own, temp, phase, todo, tensors, removing>> /\ Kept

RemoveTemporary ==
    /\ phase = "remove" /\ temp # "none"
    /\ temp' = "none"
    /\ UNCHANGED <<exists, entry, own, phase, todo, tensors, removing>> /\ Kept

\* The tool goes on as if there had been no output.
RemoveDirectory ==
    /\ phase = "remove" /\ temp = "none" /\ \A f \in Files : entry[f] = "none"
    /\ exists' = FALSE /\ removing' = FALSE /\ phase' = "idle"
    /\ UNCHANGED <<entry, own, temp, todo, tensors>> /\ Kept

\* The Markov tool reads its shard here, the other one from the linked output.
Load ==
    /\ phase = "idle" /\ ~exists
    /\ tensors' = IF tool = "mtp" THEN <<>> ELSE Edited(input[CHOOSE f \in EditedShards : TRUE])
    /\ exists' = TRUE /\ todo' = DOMAIN input /\ phase' = "link"
    /\ UNCHANGED <<entry, own, temp, removing>> /\ Kept

LinkFile(f) ==
    /\ phase = "link" /\ f \in todo
    /\ entry' = [entry EXCEPT ![f] = "input"]
    /\ IF todo = {f}
       THEN todo' = EditedShards /\ phase' = "shard"
       ELSE todo' = todo \ {f} /\ UNCHANGED phase
    /\ UNCHANGED <<exists, own, temp, tensors, removing>> /\ Kept

-------------------------------------------------------------------------------
(* replace_shard, once per shard, in the order of their names *)

Current == CHOOSE f \in todo : TRUE

\* Until it is renamed, how much of the temporary file is written is all one.
SaveTemporary ==
    /\ phase = "shard"
    /\ tensors' = IF tool = "mtp" THEN Edited(Contents(Current)) ELSE tensors
    /\ temp' = "written" /\ phase' = "rename"
    /\ UNCHANGED <<exists, entry, own, todo, removing>> /\ Kept

\* What is written to an entry goes into the input's inode if it is linked.
WrittenTo(f, contents) ==
    /\ input' = IF entry[f] = "input" THEN [input EXCEPT ![f] = contents] ELSE input
    /\ own' = IF entry[f] = "input" THEN own ELSE [own EXCEPT ![f] = contents]
    /\ entry' = [entry EXCEPT ![f] = IF @ = "input" THEN @ ELSE "own"]
    /\ UNCHANGED tool

\* MUTANT: the temporary file is copied over the shard.
RenamedByCopy(f) == WrittenTo(f, tensors)

Renamed(f) ==
    /\ entry' = [entry EXCEPT ![f] = "own"] /\ own' = [own EXCEPT ![f] = tensors]
    /\ Kept

Replace ==
    /\ phase = "rename"
    /\ Renamed(Current)
    /\ temp' = "none" /\ todo' = todo \ {Current}
    /\ phase' = IF todo = {Current} THEN "provenance" ELSE "shard"
    /\ UNCHANGED <<exists, tensors, removing>>

\* write_text truncates the entry, then writes.
OpenProvenance ==
    /\ phase = "provenance"
    /\ WrittenTo(Provenance, From("cut", Provenance)) /\ phase' = "text"
    /\ UNCHANGED <<exists, temp, todo, tensors, removing>>

WriteProvenance ==
    /\ phase = "text"
    /\ WrittenTo(Provenance, From("new", Provenance)) /\ phase' = "idle"
    /\ UNCHANGED <<exists, temp, todo, tensors, removing>>

\* Killed: no finally clause runs.
Crash ==
    /\ phase # "idle"
    /\ phase' = "idle" /\ todo' = {} /\ tensors' = <<>>
    /\ UNCHANGED <<exists, entry, own, temp, removing>> /\ Kept

\* An exception: the finally clause of the shard removes the temporary file.
Fail ==
    /\ phase \notin {"idle", "remove"}
    /\ phase' = "idle" /\ todo' = {} /\ tensors' = <<>>
    /\ temp' = IF phase = "rename" THEN "none" ELSE temp
    /\ UNCHANGED <<exists, entry, own, removing>> /\ Kept

VariantNext ==
    \/ BeginRemove \/ RemoveTemporary \/ RemoveDirectory \/ Load \/ SaveTemporary \/ Replace
    \/ OpenProvenance \/ WriteProvenance \/ Crash \/ Fail
    \/ \E f \in Files : RemoveFile(f) \/ LinkFile(f)

VariantSpec == VariantInit /\ [][VariantNext]_variantVars

-------------------------------------------------------------------------------
(* The verifiers, as tests of the directory at any time *)

\* Every tensor of the shards with replacements, and no other shard.
VerifiedMtp ==
    \A f \in EditedShards :
        entry[f] # "none" /\ Contents(f) = [t \in Tensors[f] |-> IF t \in Replaced[tool] THEN "new" ELSE input[f][t]]

\* Every shard; the set of changed tensors is compared, not their values.
VerifiedMarkov ==
    /\ \A f \in Shards : entry[f] # "none"
    /\ UNION {{t \in Tensors[f] : Contents(f)[t] # input[f][t]} : f \in Shards} = Replaced[tool]

Verified == IF tool = "mtp" THEN VerifiedMtp ELSE VerifiedMarkov

(* However often a tool is killed, the weights and the configuration of the *)
(* input keep their contents, and an output that its verifier accepts has   *)
(* every file of the input, with the right tensors, and nothing that is     *)
(* left over (save_file to a temporary file, os.replace, and the order of   *)
(* the steps in main).  The verifiers do not see that files are missing     *)
(* while a removal has begun and not ended; nor that there is no provenance.*)
VariantExact ==
    /\ \A f \in Weights : input[f] = From("input", f)
    /\ Verified =>
        /\ \A f \in Weights :
            IF entry[f] = "none" THEN removing ELSE Contents(f) = Edited(From("input", f))
        /\ removing \/ temp = "none"

-------------------------------------------------------------------------------
(* The inductive invariant behind VariantExact.                             *)

VariantType ==
    /\ tool \in {"mtp", "markov"} /\ {exists, removing} \subseteq BOOLEAN
    /\ entry \in [Files -> {"none", "input", "own"}] /\ own = [f \in Files |-> own[f]]
    /\ input = [f \in DOMAIN input |-> input[f]]
    /\ Weights \subseteq DOMAIN input /\ DOMAIN input \subseteq Files
    /\ temp \in {"none", "written"}
    /\ phase \in {"idle", "remove", "link", "shard", "rename", "provenance", "text"}

Complete == \A f \in Weights : entry[f] # "none"
Unreplaced == {f \in EditedShards : entry[f] # "own"}

InputIntact == \A f \in Weights : input[f] = From("input", f)

\* The tool writes edited shards only, and writes them right.
OutputRight == \A f \in Weights : entry[f] = "own" => f \in EditedShards /\ own[f] = Edited(From("input", f))

\* What is in memory is a shard that is to be written.
MemoryRight ==
    /\ phase = "rename" => tensors = Edited(From("input", Current))
    /\ (tool = "markov" /\ phase \in {"link", "shard"}) =>
        \A f \in EditedShards : tensors = Edited(From("input", f))

\* A shard is written, or a temporary file, only when all files are linked.
Settled ==
    ~removing =>
        /\ (\E f \in Weights : entry[f] = "own") => Complete
        /\ temp # "none" => Unreplaced # {}

\* How far the tool is, from its place in main.
Stage ==
    /\ ~exists => phase = "idle" /\ temp = "none" /\ \A f \in Files : entry[f] = "none"
    /\ (phase = "remove" \/ ~exists) => (removing <=> exists)
    /\ phase = "link" => ~removing /\ temp = "none" /\ todo # {} /\ todo \subseteq DOMAIN input
                        /\ \A f \in Weights : entry[f] = IF f \in todo THEN "none" ELSE "input"
    /\ phase \in {"shard", "rename"} => ~removing /\ Complete /\ todo = Unreplaced /\ todo # {}
    /\ phase = "shard" => temp = "none"
    /\ phase \in {"provenance", "text"} => ~removing /\ temp = "none"

VariantInv == VariantType /\ InputIntact /\ OutputRight /\ MemoryRight /\ Settled /\ Stage
===============================================================================
