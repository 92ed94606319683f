----------------------------- MODULE MCScheduler -----------------------------
(* Small instances of Scheduler for TLC. *)
EXTENDS Scheduler, TLC

CONSTANTS r1, r2, r3

Symmetry == Permutations(Blocks)

Prompt32 == r1 :> 3 @@ r2 :> 2
Prompt31 == r1 :> 3 @@ r2 :> 1
Prompt24 == r1 :> 2 @@ r2 :> 4
Prompt44 == r1 :> 4 @@ r2 :> 4
Prompt55 == r1 :> 5 @@ r2 :> 5
Prompt331 == r1 :> 3 @@ r2 :> 3 @@ r3 :> 1

==============================================================================
