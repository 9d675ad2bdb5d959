--------------------------- MODULE TaskManagerInv ---------------------------
(***************************************************************************)
(* The inductive invariant behind the safety theorems of TaskManager. The  *)
(* invariants the runs check are not inductive by themselves: that a slot  *)
(* is given back once needs that a task has at most one posted update,     *)
(* which needs that its runnable is started once, which needs that it sits *)
(* once in one pool queue, or once in tasksToExecute, or once in the       *)
(* waiting queue of its type.                                              *)
(***************************************************************************)
EXTENDS TaskManager, SequenceLemmas

\* Tasks whose updateTaskState is posted and not yet handled.
IsUpdate(e) == e.kind = "update"
Updated(ev) == {ev[i].task : i \in {j \in 1..Len(ev) : IsUpdate(ev[j])}}
UpdatesOnce(ev) ==
    \A i, j \in 1..Len(ev) :
       IsUpdate(ev[i]) /\ IsUpdate(ev[j]) /\ ev[i].task = ev[j].task => i = j

QueueInv ==
    /\ \A ty \in Type : Distinct(queue[ty])
    /\ \A t \in Task : status[t] = "Pending" => t \in Elems(queue[TypeOf[t]])
    /\ \A ty \in Type : \A t \in Elems(queue[ty]) : TypeOf[t] = ty /\ Waiting(t)

\* tasksToExecute: taken, counted, not yet handed to a pool; only the head may
\* be, between the two halves of executeTaskAsync.
BatchInv ==
    /\ Distinct(batch)
    /\ tm = "idle" => Elems(batch) = {}
    /\ \A t \in Elems(batch) :
          /\ status[t] = "Running"
          /\ exec[t] # "none" => tm = "track" /\ t = Head(batch)
    /\ tm = "track" => exec[Head(batch)] # "none"
    /\ \A t \in Task : status[t] = "Running" /\ exec[t] = "none" => t \in Elems(batch)

PoolInv ==
    \A p \in Pool :
       /\ Distinct(poolQueue[p])
       /\ \A t \in Elems(poolQueue[p]) : exec[t] = "queued" /\ PoolFor(TypeOf[t]) = p

\* How far the runnable of a task has got, and the status that goes with it.
ExecInv ==
    \A t \in Task :
       /\ exec[t] \in {"queued", "executing"} => status[t] = "Running"
       /\ exec[t] # "none" => status[t] \in {"Running", "Completed", "Failed"}
       /\ status[t] \in {"Completed", "Failed"} => exec[t] \in {"posted", "done"}

EventInv ==
    /\ UpdatesOnce(events)
    /\ \A t \in Updated(events) :
          t \in Task /\ status[t] = "Running" /\ exec[t] \in {"posted", "done"}
    /\ \A t \in Task : 
          status[t] = "Running" /\ exec[t] \in {"posted", "done"} => t \in Updated(events)

NoteInv == \A t \in Task : cancelNotes[t] > 0 => status[t] = "Cancelled"

RunningTasks == {t \in Task : status[t] = "Running"}
TrackInv == running = RunningTasks \ Elems(batch)

IInv ==
    /\ TypeOK
    /\ QueueInv
    /\ BatchInv
    /\ PoolInv
    /\ ExecInv
    /\ EventInv
    /\ NoteInv
    /\ TrackInv
    /\ SlotsMatchRunning
    /\ FinishedExactlyOnce
=============================================================================
