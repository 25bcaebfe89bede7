---------------------------- MODULE ParallelRound ----------------------------
(***************************************************************************)
(* What World::Update relies on when it calls MapManager::Update: the       *)
(* world thread is alone, then the jobs of one round run in parallel, each   *)
(* exactly once, then the world thread is alone again.                      *)
(***************************************************************************)
CONSTANT Jobs

VARIABLES
    phase,   \* "alone" or "parallel"
    todo     \* the jobs of the round that are not finished

Init == phase = "alone" /\ todo = {}

Begin(jobs) ==
    /\ phase = "alone" /\ phase' = "parallel"
    /\ todo' = jobs

Perform(j) ==
    /\ phase = "parallel" /\ j \in todo
    /\ todo' = todo \ {j}
    /\ UNCHANGED phase

End ==
    /\ phase = "parallel" /\ todo = {}
    /\ phase' = "alone"
    /\ UNCHANGED todo

Next ==
    \/ \E jobs \in SUBSET Jobs : Begin(jobs)
    \/ \E j \in Jobs : Perform(j)
    \/ End

Spec == Init /\ [][Next]_<<phase, todo>>
=============================================================================
