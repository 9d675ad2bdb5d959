--------------------------- MODULE TaskScheduling ---------------------------
(***************************************************************************)
(* What TaskManager promises, without queues, threads, events or counters: *)
(* a task waits, is busy, and is over, or is dropped while it waits; and a *)
(* task of a key becomes busy only while fewer tasks of the key are busy   *)
(* than the key's cap. Caps may change at any time.                        *)
(***************************************************************************)
EXTENDS Integers, FiniteSets

CONSTANTS Task, Key

VARIABLES
    stage,   \* where each task is
    key,     \* the key of each task, fixed when it is submitted
    cap      \* how many tasks of a key may be busy

taskVars == <<stage, key>>
vars == <<stage, key, cap>>

Busy(k) == {t \in Task : stage[t] = "busy" /\ key[t] = k}

Init ==
    /\ stage = [t \in Task |-> "new"]
    /\ key \in [Task -> Key]
    /\ cap \in [Key -> Nat]

Submit(t) ==
    /\ stage[t] = "new"
    /\ stage' = [stage EXCEPT ![t] = "waiting"]
    /\ \E k \in Key : key' = [key EXCEPT ![t] = k]
    /\ UNCHANGED cap

Drop(S) ==
    /\ \A t \in S : stage[t] = "waiting"
    /\ stage' = [t \in Task |-> IF t \in S THEN "dropped" ELSE stage[t]]
    /\ UNCHANGED <<key, cap>>

Start(t) ==
    /\ stage[t] = "waiting"
    /\ Cardinality(Busy(key[t])) < cap[key[t]]
    /\ stage' = [stage EXCEPT ![t] = "busy"]
    /\ UNCHANGED <<key, cap>>

Finish(t) ==
    /\ stage[t] = "busy"
    /\ stage' = [stage EXCEPT ![t] = "over"]
    /\ UNCHANGED <<key, cap>>

ChangeCaps ==
    /\ cap' \in [Key -> Nat]
    /\ UNCHANGED taskVars

Next ==
    \/ \E t \in Task : Submit(t) \/ Start(t) \/ Finish(t)
    \/ \E S \in SUBSET Task : Drop(S)
    \/ ChangeCaps

Spec == Init /\ [][Next]_vars
=============================================================================
