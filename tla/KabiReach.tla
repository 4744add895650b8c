------------------------------ MODULE KabiReach ------------------------------
(***************************************************************************)
(* What a run of kabi-parser promises (README:354-358): it records the     *)
(* compound types on which the exported symbols depend, each once, nothing *)
(* else, and it does not finish before it has them all.                    *)
(***************************************************************************)
VARIABLES
    needed,     \* the types on which the exported symbols of the run depend
    recorded,   \* the types in the graph
    done        \* no run is under way

reachVars == <<needed, recorded, done>>

Init == needed = {} /\ recorded = {} /\ done = TRUE

\* A run is started on some sources; what they need is up to them.
Begin ==
    /\ done /\ ~done'
    /\ recorded' = {}

Record ==
    /\ ~done
    /\ \E t \in needed \ recorded : recorded' = recorded \cup {t}
    /\ UNCHANGED <<needed, done>>

End ==
    /\ ~done /\ recorded = needed
    /\ done' = TRUE
    /\ UNCHANGED <<needed, recorded>>

Next == Begin \/ Record \/ End

Spec == Init /\ [][Next]_reachVars
=============================================================================
