---------------------------- MODULE BuildPromise ----------------------------
(***************************************************************************)
(* What VectorDb promises of an index build, whatever its workflow does:   *)
(* its results are stored at most once, and never after it was given up.   *)
(***************************************************************************)
CONSTANTS
    Workflow       \* the builds that may be asked for

VARIABLES
    build          \* the fate of each build so far

Init == build = [w \in Workflow |-> "unasked"]

Move(w, from, to) ==
    /\ build[w] = from
    /\ build' = [build EXCEPT ![w] = to]

Ask(w) == Move(w, "unasked", "open")
Store(w) == Move(w, "open", "stored")
GiveUp(w) == Move(w, "open", "given up")

Next == \E w \in Workflow : Ask(w) \/ Store(w) \/ GiveUp(w)

Spec == Init /\ [][Next]_build
=============================================================================
