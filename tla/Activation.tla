------------------------------ MODULE Activation -------------------------------
(***************************************************************************)
(* What activating a generation promises, without files, links or a        *)
(* service: one generation is active; a new one is first on trial, and the *)
(* trial is either kept or ended by going back to exactly the generation   *)
(* it replaced.  No trial starts while another is under way.               *)
(***************************************************************************)
CONSTANTS Generations, NoGeneration

VARIABLES active,    \* the active generation
          fallback   \* what the trial replaced; NoGeneration when there is none

vars == <<active, fallback>>

Init ==
    /\ active \in Generations
    /\ fallback = NoGeneration

Try(g) ==
    /\ fallback = NoGeneration
    /\ fallback' = active
    /\ active' = g

Accept ==
    /\ fallback # NoGeneration
    /\ fallback' = NoGeneration
    /\ UNCHANGED active

Revert ==
    /\ fallback # NoGeneration
    /\ active' = fallback
    /\ fallback' = NoGeneration

Next == (\E g \in Generations : Try(g)) \/ Accept \/ Revert

Spec == Init /\ [][Next]_vars
================================================================================
