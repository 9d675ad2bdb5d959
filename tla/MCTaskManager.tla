--------------------------- MODULE MCTaskManager ---------------------------
(***************************************************************************)
(* TaskManager for TLC: FunctionCalling (101) tasks on a model "m" that    *)
(* may be installed locally or not (local limit 1), Chat (100) tasks on    *)
(* "m" or on "c", a cloud model that is never local.                       *)
(***************************************************************************)
EXTENDS TaskManager, TLC

MCPools == {"General", "CPUBound"}
OneThread == [p \in MCPools |-> 1]
TwoThreads == [p \in MCPools |-> 2]

\* Every task competes for the keys of FunctionCalling on model "m".
SameType == [t \in Task |-> 101]
SameModel == [t \in Task |-> "m"]
TaskSymmetry == Permutations(Task)

\* Tasks 1 and 2 are FunctionCalling on "m", task 3 is a cloud chat.
TwoTypes == (1 :> 101) @@ (2 :> 101) @@ (3 :> 100)
TwoModels == (1 :> "m") @@ (2 :> "m") @@ (3 :> "c")
=============================================================================
