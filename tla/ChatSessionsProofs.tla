------------------------- MODULE ChatSessionsProofs -------------------------
(***************************************************************************)
(* The theorems of the chat and function calling sessions, for any number  *)
(* of sessions, tasks, types, pools, threads and chunks. What a session    *)
(* may answer rests on the TaskManager below it, so the invariant here is  *)
(* that of TaskManagerInv together with one of the sessions' own tables.   *)
(***************************************************************************)
EXTENDS ChatSessions, TaskManagerProofs

InFlightTasks == {t \in Task : status[t] \in {"Pending", "Running"}}

\* A task has an owner once it was accepted, and its owner's tables name it as
\* what it was asked for, until it is over.
OwnerInv ==
    /\ \A t \in Task : (owner[t] = None) <=> (status[t] = "New")
    /\ \A t \in streamTask : owner[t] # None
    /\ \A s \in Session : alive[s] => active[s] = {t \in Task : owner[t] = s}
    /\ \A s \in Session : pendingMsg[s] \cup streaming[s] \subseteq active[s] \ terminated
    /\ \A s \in Session : pendingMsg[s] \cap streamTask = {} /\ streaming[s] \subseteq streamTask
    /\ \A t \in terminated : status[t] # "New"

\* What is still to be answered: no task that is over, and every one in flight
\* whose session was left alone.
OpenInv ==
    /\ \A t \in Task : status[t] \in {"Completed", "Failed"} =>
          \A s \in Session : t \notin pendingMsg[s] \cup streaming[s]
    /\ \A t \in InFlightTasks \ terminated : alive[owner[t]] =>
          IF t \in streamTask THEN t \in streaming[owner[t]] ELSE t \in pendingMsg[owner[t]]

\* A cancelled task is not Pending any more: a dispatch that drops it changes
\* no status.
CancelledInv == \A t \in cancelled : status[t] \notin {"New", "Pending"}

\* In the event queue no output follows the update of its task, and none is left
\* once the task's StreamFinished was emitted.
OutputsOpen(ev, ended) ==
    \A i \in 1..Len(ev) : ev[i].kind = "output" =>
       ev[i].task \in Task /\ ended[ev[i].task] = "none"
UpdatesLast(ev) ==
    \A i, j \in 1..Len(ev) :
       ev[i].kind = "output" /\ IsUpdate(ev[j]) /\ j <= i => ev[j].task # ev[i].task
OutputInv == OutputsOpen(events, streamEnd) /\ UpdatesLast(events)

SessionInv ==
    /\ SessionTypeOK
    /\ OwnerInv
    /\ OpenInv
    /\ CancelledInv
    /\ OutputInv
    /\ AnswersAreTheTasksOwn
    /\ SurvivingRequestsAnswered
    /\ TerminatedStaySilent
    /\ DestroyedSessionsQueueNothing
    /\ BusySessionsWait

FullInv == IInv /\ SessionInv

-----------------------------------------------------------------------------
(* Outputs in the event queue                                              *)

\* Taking the head keeps the order; after an update no output of its task is left.
LEMMA OutputTail ==
    ASSUME NEW ev \in Seq(Event), ev # <<>>, NEW ended, OutputsOpen(ev, ended), UpdatesLast(ev)
    PROVE  /\ OutputsOpen(Tail(ev), ended) /\ UpdatesLast(Tail(ev))
           /\ Head(ev).kind = "output" => Head(ev).task \in Task /\ ended[Head(ev).task] = "none"
           /\ IsUpdate(Head(ev)) => \A i \in 1..Len(Tail(ev)) :
                 Tail(ev)[i].kind = "output" => Tail(ev)[i].task # Head(ev).task
<1> DEFINE r == Tail(ev)
<1>1. Head(ev) = ev[1] /\ 1 \in 1..Len(ev)
  OBVIOUS
<1>2. r \in Seq(Event) /\ Len(r) = Len(ev) - 1
  OBVIOUS
<1>3. \A i \in 1..Len(r) : i + 1 \in 1..Len(ev) /\ r[i] = ev[i + 1]
  OBVIOUS
<1> HIDE DEF r
<1>4. OutputsOpen(r, ended)
  BY <1>2, <1>3 DEF OutputsOpen
<1>5. UpdatesLast(r)
  <2> SUFFICES ASSUME NEW i \in 1..Len(r), NEW j \in 1..Len(r),
                      r[i].kind = "output", IsUpdate(r[j]), j <= i
               PROVE  r[j].task # r[i].task
    BY DEF UpdatesLast
  <2>1. i + 1 \in 1..Len(ev) /\ j + 1 \in 1..Len(ev) /\ j + 1 <= i + 1
    BY <1>3, <1>2
  <2>2. r[i] = ev[i + 1] /\ r[j] = ev[j + 1]
    BY <1>3
  <2> QED
    BY <2>1, <2>2 DEF UpdatesLast
<1>6. Head(ev).kind = "output" => Head(ev).task \in Task /\ ended[Head(ev).task] = "none"
  BY <1>1 DEF OutputsOpen
<1>7. ASSUME IsUpdate(Head(ev)), NEW i \in 1..Len(r), r[i].kind = "output"
      PROVE  r[i].task # Head(ev).task
  <2>1. i + 1 \in 1..Len(ev) /\ 1 <= i + 1 /\ r[i] = ev[i + 1]
    BY <1>3, <1>2
  <2> QED
    BY <1>1, <1>7, <2>1 DEF UpdatesLast
<1> QED
  BY <1>4, <1>5, <1>6, <1>7 DEF r

\* Appending anything but an output keeps the order, and so does an output of a
\* task whose update was not posted.
LEMMA OutputAppend ==
    ASSUME NEW ev \in Seq(Event), NEW ended, OutputsOpen(ev, ended), UpdatesLast(ev),
           NEW e \in Event,
           e.kind = "output" => /\ e.task \in Task
                                /\ ended[e.task] = "none"
                                /\ e.task \notin Updated(ev)
    PROVE  OutputsOpen(Append(ev, e), ended) /\ UpdatesLast(Append(ev, e))
<1> DEFINE r == Append(ev, e)
<1>1. r \in Seq(Event) /\ Len(r) = Len(ev) + 1
  OBVIOUS
<1>2. \A i \in 1..Len(ev) : r[i] = ev[i]
  OBVIOUS
<1>3. r[Len(ev) + 1] = e
  OBVIOUS
<1>4. 1..Len(r) = (1..Len(ev)) \cup {Len(ev) + 1}
  BY <1>1
<1> HIDE DEF r
<1>5. OutputsOpen(r, ended)
  BY <1>2, <1>3, <1>4 DEF OutputsOpen
<1>6. UpdatesLast(r)
  <2> SUFFICES ASSUME NEW i \in 1..Len(r), NEW j \in 1..Len(r),
                      r[i].kind = "output", IsUpdate(r[j]), j <= i
               PROVE  r[j].task # r[i].task
    BY DEF UpdatesLast
  <2>1. CASE i = Len(ev) + 1
    <3>1. e.kind = "output" /\ r[i] = e
      BY <1>3, <2>1
    <3>2. j # i
      BY <3>1 DEF IsUpdate
    <3>3. j \in 1..Len(ev) /\ r[j] = ev[j]
      BY <1>2, <1>4, <2>1, <3>2
    <3>4. r[j].task \in Updated(ev)
      BY <3>3 DEF Updated
    <3> QED
      BY <3>1, <3>4
  <2>2. CASE i \in 1..Len(ev)
    <3>1. j \in 1..Len(ev)
      BY <2>2, <1>1
    <3> QED
      BY <1>2, <2>2, <3>1 DEF UpdatesLast
  <2> QED
    BY <1>4, <2>1, <2>2
<1> QED
  BY <1>5, <1>6 DEF r

-----------------------------------------------------------------------------
(* The TaskManager below the sessions                                      *)

\* A step of TaskManager alone.
LEMMA CoreNext == IInv /\ [Next]_vars => IInv'
<1>1. IInv => TypeOK
  BY DEF IInv
<1> QED
  BY <1>1, StepTyped, QueueStep, BatchStep, PoolStep, ExecStep, EventStep, TrackStep,
     NoteStep, SlotStep, FinishStep DEF IInv

\* terminate and cleanup cancel a set of tasks at once, which no action of
\* TaskManager alone does.
LEMMA CoreCancel ==
    ASSUME IInv, NEW S, S \subseteq Task, CancelTasks(S)
    PROVE  IInv'
<1> USE DEF dispatchVars, poolVars
<1>0. /\ TypeOK /\ QueueInv /\ BatchInv /\ PoolInv /\ ExecInv /\ EventInv /\ NoteInv
      /\ TrackInv /\ SlotsMatchRunning /\ FinishedExactlyOnce
  BY DEF IInv
<1>1. /\ \A t \in Task : status'[t] = IF t \in S /\ status[t] = "Pending" THEN "Cancelled"
                                                                        ELSE status[t]
      /\ \A t \in Task : cancelNotes'[t] = IF t \in S /\ status[t] = "Pending"
                                           THEN cancelNotes[t] + 1 ELSE cancelNotes[t]
      /\ \A t \in Task : status[t] = "Pending" /\ t \in S => t \in cancelled'
      /\ cancelled \subseteq cancelled' /\ cancelled' \subseteq Task
      /\ status' \in [Task -> TaskStatus]
      /\ UNCHANGED <<installed, deploy, queue, counter, limit, throttle, running, events,
                     finished, tm, scan, batch, poolQueue, exec, outcome>>
  BY <1>0 DEF CancelTasks, Recorded, TypeOK, TaskStatus
<1>2. TypeOK'
  <2>1. cancelNotes' \in [Task -> Nat]
    BY <1>0 DEF CancelTasks, TypeOK
  <2> QED
    BY <1>0, <1>1, <2>1 DEF TypeOK
<1>3. QueueInv'
  <2>1. \A t \in Task : Waiting(t) => Waiting(t)'
    BY <1>1 DEF Waiting
  <2>2. \A ty \in Type : Elems(queue[ty]) \subseteq Task
    BY <1>0, ElemsTyped DEF TypeOK
  <2> QED
    BY <1>0, <1>1, <2>1, <2>2 DEF QueueInv
<1>4. \A t \in Task : /\ (status'[t] = "Running") = (status[t] = "Running")
                      /\ (status'[t] = "Completed") = (status[t] = "Completed")
                      /\ (status'[t] = "Failed") = (status[t] = "Failed")
  BY <1>1
<1>5. BatchInv'
  <2>1. Elems(batch) \subseteq Task
    BY <1>0, ElemsTyped DEF TypeOK
  <2> QED
    BY <1>0, <1>1, <1>4, <2>1 DEF BatchInv
<1>6. PoolInv' /\ ExecInv' /\ EventInv'
  <2>1. PoolInv'
    BY <1>0, <1>1 DEF PoolInv
  <2>2. ExecInv'
    BY <1>0, <1>1, <1>4 DEF ExecInv
  <2>3. EventInv'
    BY <1>0, <1>1, <1>4 DEF EventInv
  <2> QED
    BY <2>1, <2>2, <2>3
<1>7. NoteInv'
  BY <1>0, <1>1 DEF NoteInv
<1>8. TrackInv' /\ SlotsMatchRunning' /\ FinishedExactlyOnce'
  <2>1. RunningTasks' = RunningTasks
    BY <1>4 DEF RunningTasks
  <2>2. \A k \in Key : RunningOf(k)' = RunningOf(k)
    BY <1>1, <1>4 DEF RunningOf, KeyOf
  <2>3. TrackInv'
    BY <1>0, <1>1, <2>1 DEF TrackInv
  <2>4. SlotsMatchRunning'
    BY <1>0, <1>1, <2>2 DEF SlotsMatchRunning
  <2>5. FinishedExactlyOnce'
    BY <1>0, <1>1, <1>4 DEF FinishedExactlyOnce
  <2> QED
    BY <2>3, <2>4, <2>5
<1> QED
  BY <1>2, <1>3, <1>5, <1>6, <1>7, <1>8 DEF IInv

\* What passes through the event queue besides updates is of no concern to it.
LEMMA CoreEvents ==
    ASSUME IInv, events' \in Seq(Event), UpdatesOnce(events'),
           Updated(events') = Updated(events),
           UNCHANGED <<installed, status, deploy, queue, cancelled, counter, limit,
                       throttle, running, finished, cancelNotes>>,
           UNCHANGED dispatchVars, UNCHANGED poolVars
    PROVE  IInv'
<1> USE DEF dispatchVars, poolVars
<1>1. TypeOK'
  BY DEF IInv, TypeOK
<1>2. QueueInv' /\ BatchInv' /\ PoolInv' /\ ExecInv'
  BY DEF IInv, QueueInv, Waiting, BatchInv, PoolInv, ExecInv
<1>3. EventInv'
  BY DEF IInv, EventInv
<1>4. NoteInv' /\ TrackInv' /\ FinishedExactlyOnce'
  BY DEF IInv, NoteInv, TrackInv, RunningTasks, FinishedExactlyOnce
<1>5. SlotsMatchRunning'
  <2>1. \A k \in Key : RunningOf(k)' = RunningOf(k)
    BY DEF RunningOf, KeyOf
  <2> QED
    BY <2>1 DEF IInv, SlotsMatchRunning
<1> QED
  BY <1>1, <1>2, <1>3, <1>4, <1>5 DEF IInv

LEMMA CoreOutputs ==
    ASSUME IInv, EmitOutput \/ \E t \in Task : StreamChunk(t)
    PROVE  IInv'
<1>0. events \in Seq(Event) /\ UpdatesOnce(events)
  BY DEF IInv, TypeOK, EventInv
<1>1. CASE EmitOutput
  <2>1. ~IsUpdate(Head(events))
    BY <1>1 DEF EmitOutput, IsUpdate
  <2>2. events' \in Seq(Event) /\ UpdatesOnce(events') /\ Updated(events') = Updated(events)
    BY <1>0, <1>1, <2>1, HandleHead, HeadTail DEF EmitOutput
  <2> QED
    BY <1>1, <2>2, CoreEvents DEF EmitOutput
<1>2. ASSUME NEW t \in Task, StreamChunk(t)
      PROVE  IInv'
  <2> DEFINE e == [kind |-> "output", task |-> t, ok |-> TRUE]
  <2>1. e \in Event /\ ~IsUpdate(e) /\ events' = Append(events, e)
    BY <1>2 DEF Event, IsUpdate, StreamChunk
  <2> HIDE DEF e
  <2>2. events' \in Seq(Event) /\ UpdatesOnce(events') /\ Updated(events') = Updated(events)
    BY <1>0, <2>1, AppendOther, AppendElems
  <2> QED
    BY <1>2, <2>2, CoreEvents DEF StreamChunk
<1> QED
  BY <1>1, <1>2

-----------------------------------------------------------------------------
(* Steps the sessions do not see                                           *)

\* A task that is taken from its queue leaves what its session knows of it as it
\* was; nothing else that TaskManager does by itself changes a status, except
\* for the updates the sessions hear of.
LEMMA QuietStep ==
    ASSUME SessionInv, UNCHANGED sessionVars,
           \A t \in Task : \/ status'[t] = status[t]
                           \/ status[t] = "Pending" /\ status'[t] = "Running",
           cancelled' \subseteq cancelled, cancelled \subseteq Task,
           OutputInv'
    PROVE  SessionInv'
<1> USE DEF sessionVars
<1>0. /\ SessionTypeOK /\ OwnerInv /\ OpenInv /\ CancelledInv /\ AnswersAreTheTasksOwn
      /\ SurvivingRequestsAnswered /\ TerminatedStaySilent /\ DestroyedSessionsQueueNothing
      /\ BusySessionsWait
  BY DEF SessionInv
<1>1. SessionTypeOK'
  BY <1>0 DEF SessionTypeOK
<1>2. \A t \in Task : /\ (status'[t] = "New") = (status[t] = "New")
                      /\ (status'[t] = "Completed") = (status[t] = "Completed")
                      /\ (status'[t] = "Failed") = (status[t] = "Failed")
                      /\ status'[t] = "Pending" => status[t] = "Pending"
  OBVIOUS
<1>3. OwnerInv'
  BY <1>0, <1>2 DEF OwnerInv, SessionTypeOK
<1>4. InFlightTasks' = InFlightTasks
  BY DEF InFlightTasks
<1>5. OpenInv'
  BY <1>0, <1>2, <1>4 DEF OpenInv
<1>6. CancelledInv'
  BY <1>0 DEF CancelledInv
<1>7. \A t \in Task : Settled(t)' = Settled(t)
  BY <1>2 DEF Settled
<1>8. AnswersAreTheTasksOwn' /\ SurvivingRequestsAnswered'
  BY <1>0, <1>2, <1>7 DEF AnswersAreTheTasksOwn, SurvivingRequestsAnswered
<1>9. TerminatedStaySilent' /\ DestroyedSessionsQueueNothing'
  BY <1>0, <1>2 DEF TerminatedStaySilent, DestroyedSessionsQueueNothing
<1>10. BusySessionsWait'
  BY <1>0 DEF BusySessionsWait, SessionTypeOK
<1> QED
  BY <1>1, <1>3, <1>5, <1>6, <1>8, <1>9, <1>10 DEF SessionInv

CoreSteps ==
    \/ StartDispatch \/ LeaveType \/ DropCancelled \/ TakeTask \/ EndCollect
    \/ SubmitTask \/ TrackTask \/ EndDispatch
    \/ PoolThreads \/ Environment

LEMMA CoreStepsQuiet ==
    ASSUME FullInv, CoreSteps, UNCHANGED sessionVars
    PROVE  SessionInv'
<1> USE DEF dispatchVars, poolVars, sessionVars
<1>0. /\ IInv /\ TypeOK /\ SessionInv /\ CancelledInv /\ events \in Seq(Event)
      /\ OutputsOpen(events, streamEnd) /\ UpdatesLast(events)
      /\ status \in [Task -> TaskStatus] /\ cancelled \subseteq Task
  BY DEF FullInv, IInv, TypeOK, SessionInv, OutputInv
<1> DEFINE Kept == /\ \A t \in Task : \/ status'[t] = status[t]
                                      \/ status[t] = "Pending" /\ status'[t] = "Running"
                   /\ cancelled' \subseteq cancelled
                   /\ OutputInv'
<1>1. ASSUME UNCHANGED events
      PROVE  OutputInv'
  BY <1>0, <1>1 DEF OutputInv
<1>2. ASSUME StartDispatch
      PROVE  Kept
  <2>1. OutputInv'
    BY <1>0, <1>2, OutputTail DEF OutputInv, StartDispatch
  <2> QED
    BY <1>2, <2>1 DEF StartDispatch
<1>3. ASSUME DropCancelled
      PROVE  Kept
  <2>1. HeadTask \in Task /\ HeadTask \in cancelled /\ Waiting(HeadTask)
    BY <1>0, <1>3, HeadFacts DEF DropCancelled
  <2>2. status[HeadTask] = "Cancelled"
    BY <1>0, <2>1 DEF CancelledInv, Waiting
  <2> QED
    BY <1>0, <1>1, <1>3, <2>1, <2>2 DEF DropCancelled
<1>4. ASSUME TakeTask
      PROVE  Kept
  <2>1. /\ status[HeadTask] = "Pending" /\ status'[HeadTask] = "Running"
        /\ \A x \in Task : x # HeadTask => status'[x] = status[x]
    BY <1>0, <1>4, TakeEffect
  <2> QED
    BY <1>1, <1>4, <2>1 DEF TakeTask
<1>5. ASSUME LeaveType \/ EndCollect \/ SubmitTask \/ TrackTask \/ EndDispatch
      PROVE  Kept
  BY <1>1, <1>5 DEF LeaveType, EndCollect, SubmitTask, TrackTask, EndDispatch
<1>6. ASSUME Environment
      PROVE  Kept
  BY <1>1, <1>6 DEF Environment, CooldownElapses, ChangeInstalled
<1>7. ASSUME NEW t \in Task, NEW r \in Results, ExecutorEnds(t, r)
      PROVE  Kept
  <2> DEFINE e == UpdateEvent(t, r = "ok")
  <2>1. e \in Event /\ IsUpdate(e) /\ events' = Append(events, e)
    BY <1>7, EventTypes DEF ExecutorEnds, Posted
  <2> HIDE DEF e
  <2>2. e.kind # "output"
    BY <2>1 DEF IsUpdate
  <2>3. OutputInv'
    BY <1>0, <1>7, <2>1, <2>2, OutputAppend DEF OutputInv
  <2> QED
    BY <1>7, <2>3 DEF ExecutorEnds
<1>8. ASSUME \/ \E p \in Pool : StartRunnable(p)
             \/ \E t \in Task : ReportTaskResult(t)
      PROVE  Kept
  BY <1>1, <1>8 DEF StartRunnable, ReportTaskResult
<1>9. Kept
  BY <1>2, <1>3, <1>4, <1>5, <1>6, <1>7, <1>8 DEF CoreSteps, PoolThreads
<1> QED
  BY <1>0, <1>9, QuietStep

\* An output that is posted or arrives changes nothing else.
LEMMA OutputsQuiet ==
    ASSUME FullInv, EmitOutput \/ \E t \in Task : StreamChunk(t)
    PROVE  SessionInv'
<1> USE DEF sessionVars
<1>0. /\ IInv /\ TypeOK /\ SessionInv /\ SessionTypeOK /\ events \in Seq(Event)
      /\ OutputsOpen(events, streamEnd) /\ UpdatesLast(events)
  BY DEF FullInv, IInv, TypeOK, SessionInv, OutputInv
<1>1. CASE EmitOutput
  <2>1. OutputInv'
    BY <1>0, <1>1, OutputTail DEF OutputInv, EmitOutput
  <2> QED
    BY <1>0, <1>1, <2>1, QuietStep DEF EmitOutput, TypeOK
<1>2. ASSUME NEW t \in Task, StreamChunk(t)
      PROVE  SessionInv'
  <2> DEFINE e == [kind |-> "output", task |-> t, ok |-> TRUE]
  <2>1. e \in Event /\ e.task = t /\ events' = Append(events, e)
    BY <1>2 DEF Event, StreamChunk
  <2>2. t \notin Updated(events)
    BY <1>0, <1>2 DEF StreamChunk, Streamer, IInv, EventInv
  <2>3. streamEnd[t] = "none"
    BY <1>0, <1>2 DEF StreamChunk, Streamer, IInv, ExecInv, SessionInv, AnswersAreTheTasksOwn,
       Settled
  <2> HIDE DEF e
  <2>4. OutputInv'
    <3>1. OutputsOpen(Append(events, e), streamEnd) /\ UpdatesLast(Append(events, e))
      BY <1>0, <2>1, <2>2, <2>3, OutputAppend
    <3> QED
      BY <1>2, <2>1, <3>1 DEF OutputInv, StreamChunk
  <2>5. UNCHANGED <<alive, generating, active, pendingMsg, streaming, owner, streamTask,
                    replied, streamEnd, terminated, status, cancelled>>
    BY <1>2 DEF StreamChunk
  <2>6. chunks' \in [Task -> 0..MaxChunks]
    <3>1. chunks[t] \in 0..MaxChunks /\ chunks[t] < MaxChunks /\ MaxChunks \in Nat
      BY <1>0, <1>2, SessionAssumption DEF SessionTypeOK, StreamChunk, SessionAssumption
    <3>2. chunks[t] + 1 \in 0..MaxChunks
      BY <3>1
    <3> QED
      BY <1>0, <1>2, <3>2 DEF SessionTypeOK, StreamChunk
  <2>7. SessionTypeOK'
    BY <1>0, <2>5, <2>6 DEF SessionTypeOK
  <2>8. OwnerInv' /\ OpenInv' /\ CancelledInv'
    BY <1>0, <2>5 DEF SessionInv, OwnerInv, OpenInv, InFlightTasks, CancelledInv
  <2>9. AnswersAreTheTasksOwn' /\ SurvivingRequestsAnswered'
    BY <1>0, <2>5 DEF SessionInv, AnswersAreTheTasksOwn, SurvivingRequestsAnswered, Settled
  <2>10. TerminatedStaySilent' /\ DestroyedSessionsQueueNothing' /\ BusySessionsWait'
    BY <1>0, <2>5 DEF SessionInv, TerminatedStaySilent, DestroyedSessionsQueueNothing,
       BusySessionsWait
  <2> QED
    BY <2>4, <2>7, <2>8, <2>9, <2>10 DEF SessionInv
<1> QED
  BY <1>1, <1>2

-----------------------------------------------------------------------------
(* Requests                                                                *)

\* A task that was never added is unknown to every table of the sessions.
LEMMA NewIsUnknown ==
    ASSUME SessionInv, NEW t \in Task, status[t] = "New"
    PROVE  /\ owner[t] = None
           /\ t \notin streamTask /\ t \notin terminated /\ t \notin cancelled
           /\ \A s \in Session : t \notin active[s] \cup pendingMsg[s] \cup streaming[s]
           /\ replied[t] = "none" /\ streamEnd[t] = "none"
<1>1. owner[t] = None /\ t \notin streamTask /\ t \notin terminated /\ t \notin cancelled
  BY DEF SessionInv, OwnerInv, CancelledInv
<1>2. \A s \in Session : t \notin active[s]
  BY <1>1, SessionAssumption DEF SessionInv, SessionTypeOK, SessionAssumption
<1>3. \A s \in Session : t \notin pendingMsg[s] \cup streaming[s]
  BY <1>2 DEF SessionInv, OwnerInv
<1>4. replied[t] = "none" /\ streamEnd[t] = "none"
  BY DEF SessionInv, AnswersAreTheTasksOwn, Settled
<1> QED
  BY <1>1, <1>2, <1>3, <1>4

\* An accepted request gets a Pending task of its session, which expects a
\* reply or a stream for it and was doing nothing else.
LEMMA RequestStep ==
    ASSUME FullInv, NEW s \in Session, NEW t \in Task,
           Chat(s, t) \/ Parse(s, t) \/ StreamChat(s, t)
    PROVE  SessionInv'
<1>0. /\ IInv /\ TypeOK /\ SessionInv /\ SessionTypeOK /\ OwnerInv /\ OpenInv /\ CancelledInv
      /\ AnswersAreTheTasksOwn /\ SurvivingRequestsAnswered /\ TerminatedStaySilent
      /\ DestroyedSessionsQueueNothing /\ BusySessionsWait
      /\ OutputsOpen(events, streamEnd) /\ UpdatesLast(events)
      /\ events \in Seq(Event) /\ status \in [Task -> TaskStatus]
  BY DEF FullInv, IInv, TypeOK, SessionInv, OutputInv
<1>1. Accept(s, t)
  BY DEF Chat, Parse, StreamChat
<1>2. /\ alive[s] /\ ~generating[s] /\ status[t] = "New" /\ alive' = alive
      /\ status'[t] = "Pending" /\ \A x \in Task : x # t => status'[x] = status[x]
      /\ cancelled' = cancelled /\ events' = Append(events, DispatchEvent)
      /\ generating'[s] = TRUE /\ \A r \in Session : r # s => generating'[r] = generating[r]
      /\ active'[s] = active[s] \cup {t} /\ \A r \in Session : r # s => active'[r] = active[r]
      /\ owner'[t] = s /\ \A x \in Task : x # t => owner'[x] = owner[x]
      /\ UNCHANGED <<chunks, replied, streamEnd, terminated>>
  BY <1>0, <1>1 DEF Accept, AddTask, Triggered, Chat, Parse, StreamChat, SessionTypeOK
<1>3. /\ generating' \in [Session -> BOOLEAN]
      /\ active' \in [Session -> SUBSET Task]
      /\ owner' \in [Task -> Session \cup {None}]
  BY <1>0, <1>1 DEF Accept, SessionTypeOK
<1>4. /\ pendingMsg' \in [Session -> SUBSET Task]
      /\ streaming' \in [Session -> SUBSET Task]
      /\ streamTask' \subseteq Task
      /\ \A r \in Session : r # s => pendingMsg'[r] = pendingMsg[r] /\ streaming'[r] = streaming[r]
      /\ \/ /\ pendingMsg'[s] = pendingMsg[s] \cup {t} /\ streaming'[s] = streaming[s]
            /\ streamTask' = streamTask
         \/ /\ streaming'[s] = streaming[s] \cup {t} /\ pendingMsg'[s] = pendingMsg[s]
            /\ streamTask' = streamTask \cup {t}
  <2>0. /\ pendingMsg \in [Session -> SUBSET Task] /\ streaming \in [Session -> SUBSET Task]
        /\ streamTask \subseteq Task
    BY <1>0 DEF SessionTypeOK
  <2>1. ASSUME NEW table, table \in [Session -> SUBSET Task], NEW next,
               next = [table EXCEPT ![s] = @ \cup {t}]
        PROVE  /\ next \in [Session -> SUBSET Task] /\ next[s] = table[s] \cup {t}
               /\ \A r \in Session : r # s => next[r] = table[r]
    BY <2>1
  <2>2. CASE Chat(s, t) \/ Parse(s, t)
    <3>1. /\ pendingMsg' = [pendingMsg EXCEPT ![s] = @ \cup {t}]
          /\ streaming' = streaming /\ streamTask' = streamTask
      BY <2>2 DEF Chat, Parse
    <3>2. /\ pendingMsg' \in [Session -> SUBSET Task] /\ pendingMsg'[s] = pendingMsg[s] \cup {t}
          /\ \A r \in Session : r # s => pendingMsg'[r] = pendingMsg[r]
      BY <2>0, <2>1, <3>1
    <3> QED
      BY <2>0, <3>1, <3>2
  <2>3. CASE StreamChat(s, t)
    <3>1. /\ streaming' = [streaming EXCEPT ![s] = @ \cup {t}]
          /\ pendingMsg' = pendingMsg /\ streamTask' = streamTask \cup {t}
      BY <2>3 DEF StreamChat
    <3>2. /\ streaming' \in [Session -> SUBSET Task] /\ streaming'[s] = streaming[s] \cup {t}
          /\ \A r \in Session : r # s => streaming'[r] = streaming[r]
      BY <2>0, <2>1, <3>1
    <3> QED
      BY <2>0, <3>1, <3>2
  <2> QED
    BY <2>2, <2>3
<1>5. /\ owner[t] = None
      /\ t \notin streamTask /\ t \notin terminated /\ t \notin cancelled
      /\ \A r \in Session : t \notin active[r] \cup pendingMsg[r] \cup streaming[r]
      /\ replied[t] = "none" /\ streamEnd[t] = "none"
  BY <1>0, <1>2, NewIsUnknown
<1>6. SessionTypeOK'
  <2>1. \A r \in Session : active'[r] \subseteq {x \in Task : owner'[x] = r}
    <3> SUFFICES ASSUME NEW r \in Session, NEW x \in active'[r]
                 PROVE  x \in Task /\ owner'[x] = r
      OBVIOUS
    <3>1. CASE x = t
      <4>1. r = s
        BY <1>2, <1>5, <3>1
      <4> QED
        BY <1>2, <3>1, <4>1
    <3>2. CASE x # t
      <4>1. x \in active[r]
        BY <1>2, <3>2
      <4>2. x \in Task /\ owner[x] = r
        BY <1>0, <4>1 DEF SessionTypeOK
      <4> QED
        BY <1>2, <3>2, <4>2
    <3> QED
      BY <3>1, <3>2
  <2>2. \A r \in Session : ~alive'[r] =>
           ~generating'[r] /\ active'[r] \cup pendingMsg'[r] \cup streaming'[r] = {}
    BY <1>0, <1>2, <1>4 DEF SessionTypeOK
  <2> QED
    BY <1>0, <1>2, <1>3, <1>4, <2>1, <2>2 DEF SessionTypeOK
<1>7. OwnerInv'
  <2>1. s # None /\ None \notin Session
    BY SessionAssumption DEF SessionAssumption
  <2>2. \A x \in Task : (owner'[x] = None) <=> (status'[x] = "New")
    BY <1>0, <1>2, <2>1 DEF OwnerInv
  <2>3. \A x \in streamTask' : owner'[x] # None
    BY <1>0, <1>2, <1>4, <2>1 DEF OwnerInv, SessionTypeOK
  <2>4. \A r \in Session : alive'[r] => active'[r] = {x \in Task : owner'[x] = r}
    BY <1>0, <1>2, <1>5, <2>1 DEF OwnerInv
  <2>5. \A r \in Session : pendingMsg'[r] \cup streaming'[r] \subseteq active'[r] \ terminated'
    BY <1>0, <1>2, <1>4, <1>5 DEF OwnerInv
  <2>6. \A r \in Session : pendingMsg'[r] \cap streamTask' = {} /\ streaming'[r] \subseteq streamTask'
    BY <1>0, <1>2, <1>4, <1>5 DEF OwnerInv
  <2>7. \A x \in terminated' : status'[x] # "New"
    BY <1>0, <1>2, <1>5 DEF OwnerInv, SessionTypeOK
  <2> QED
    BY <2>2, <2>3, <2>4, <2>5, <2>6, <2>7 DEF OwnerInv
<1>8. OpenInv'
  <2>1. \A x \in Task : status'[x] \in {"Completed", "Failed"} =>
           \A r \in Session : x \notin pendingMsg'[r] \cup streaming'[r]
    BY <1>0, <1>2, <1>4 DEF OpenInv
  <2>2. ASSUME NEW x \in Task, status'[x] \in {"Pending", "Running"}, x \notin terminated',
               alive'[owner'[x]]
        PROVE  IF x \in streamTask' THEN x \in streaming'[owner'[x]] ELSE x \in pendingMsg'[owner'[x]]
    <3>1. CASE x = t
      BY <1>2, <1>4, <1>5, <3>1
    <3>2. CASE x # t
      <4>1. owner'[x] = owner[x] /\ owner[x] \in Session
        BY <1>0, <1>2, <2>2, <3>2 DEF OwnerInv, SessionTypeOK
      <4>2. IF x \in streamTask THEN x \in streaming[owner[x]] ELSE x \in pendingMsg[owner[x]]
        BY <1>0, <1>2, <2>2, <3>2, <4>1 DEF OpenInv, InFlightTasks
      <4> QED
        BY <1>4, <3>2, <4>1, <4>2
    <3> QED
      BY <3>1, <3>2
  <2> QED
    BY <2>1, <2>2 DEF OpenInv, InFlightTasks
<1>9. CancelledInv'
  BY <1>0, <1>2, <1>5 DEF CancelledInv, TypeOK
<1>10. OutputInv'
  <2>1. DispatchEvent \in Event /\ DispatchEvent.kind # "output"
    BY DEF DispatchEvent, Event
  <2> QED
    BY <1>0, <1>2, <2>1, OutputAppend DEF OutputInv
<1>11. AnswersAreTheTasksOwn'
  <2>1. \A x \in Task : x # t => Settled(x)' = Settled(x)
    BY <1>2 DEF Settled
  <2>2. \A x \in Task : x # t => (x \in streamTask' <=> x \in streamTask)
    BY <1>4
  <2> QED
    BY <1>0, <1>2, <1>5, <2>1, <2>2 DEF AnswersAreTheTasksOwn
<1>12. SurvivingRequestsAnswered'
  <2>1. \A x \in Task : x # t => Settled(x)' = Settled(x)
    BY <1>2 DEF Settled
  <2> QED
    BY <1>0, <1>2, <1>4, <2>1 DEF SurvivingRequestsAnswered
<1>13. TerminatedStaySilent' /\ DestroyedSessionsQueueNothing'
  BY <1>0, <1>2 DEF TerminatedStaySilent, DestroyedSessionsQueueNothing
<1>14. BusySessionsWait'
  <2> SUFFICES ASSUME NEW r \in Session, generating'[r]
               PROVE  \E x \in active'[r] : status'[x] \in {"Pending", "Running"}
    BY DEF BusySessionsWait
  <2>1. CASE r = s
    BY <1>2, <2>1
  <2>2. CASE r # s
    <3>1. generating[r] /\ active'[r] = active[r] /\ active[r] \subseteq Task
      BY <1>0, <1>2, <2>2 DEF SessionTypeOK
    <3>2. PICK x \in active[r] : status[x] \in {"Pending", "Running"}
      BY <1>0, <3>1 DEF BusySessionsWait
    <3> QED
      BY <1>2, <3>1, <3>2
  <2> QED
    BY <2>1, <2>2
<1> QED
  BY <1>6, <1>7, <1>8, <1>9, <1>10, <1>11, <1>12, <1>13, <1>14 DEF SessionInv

-----------------------------------------------------------------------------
(* terminate and cleanup                                                   *)

\* What a session that ends cancels is its own, and none of it is Pending any
\* more; what is over stays over, and the tables of the others are left alone.
LEMMA EndStep ==
    ASSUME FullInv, NEW s \in Session, Terminate(s) \/ Destroy(s)
    PROVE  SessionInv'
<1>0. /\ IInv /\ TypeOK /\ SessionInv /\ SessionTypeOK /\ OwnerInv /\ OpenInv /\ CancelledInv
      /\ AnswersAreTheTasksOwn /\ SurvivingRequestsAnswered /\ TerminatedStaySilent
      /\ DestroyedSessionsQueueNothing /\ BusySessionsWait /\ OutputInv
      /\ status \in [Task -> TaskStatus] /\ terminated \subseteq Task
  BY DEF FullInv, IInv, TypeOK, SessionInv, SessionTypeOK
<1>1. alive[s] /\ CancelTasks(active[s]) /\ UNCHANGED <<owner, streamTask, chunks, replied, streamEnd>>
  BY DEF Terminate, Destroy, CancelActive
<1>2. active[s] = {t \in Task : owner[t] = s}
  BY <1>0, <1>1 DEF OwnerInv
<1>3. /\ \A t \in Task : status'[t] = IF t \in active[s] /\ status[t] = "Pending"
                                      THEN "Cancelled" ELSE status[t]
      /\ cancelled' = cancelled \cup {t \in active[s] : status[t] \in {"Pending", "Running"}}
      /\ UNCHANGED events
  BY <1>1 DEF CancelTasks, Recorded
<1>4. \A t \in Task : /\ (status'[t] = "New") = (status[t] = "New")
                      /\ (status'[t] = "Running") = (status[t] = "Running")
                      /\ (status'[t] = "Completed") = (status[t] = "Completed")
                      /\ (status'[t] = "Failed") = (status[t] = "Failed")
                      /\ status'[t] = "Pending" => status[t] = "Pending" /\ t \notin active[s]
  BY <1>3
<1>5. /\ generating' = [generating EXCEPT ![s] = FALSE]
      /\ pendingMsg' = [pendingMsg EXCEPT ![s] = {}]
      /\ streaming' = [streaming EXCEPT ![s] = {}]
      /\ \/ /\ alive' = alive /\ active' = active
            /\ terminated' = terminated \cup InFlightOf(s)
         \/ /\ alive' = [alive EXCEPT ![s] = FALSE] /\ active' = [active EXCEPT ![s] = {}]
            /\ terminated' = terminated
  BY DEF Terminate, Destroy, Cleared
<1>6. /\ ~generating'[s] /\ pendingMsg'[s] = {} /\ streaming'[s] = {}
      /\ \A r \in Session : r # s =>
            /\ generating'[r] = generating[r] /\ pendingMsg'[r] = pendingMsg[r]
            /\ streaming'[r] = streaming[r] /\ active'[r] = active[r] /\ alive'[r] = alive[r]
      /\ generating' \in [Session -> BOOLEAN]
      /\ pendingMsg' \in [Session -> SUBSET Task]
      /\ streaming' \in [Session -> SUBSET Task]
  BY <1>0, <1>5 DEF SessionTypeOK
<1>7. \/ alive' = alive /\ active' = active /\ terminated' = terminated \cup InFlightOf(s)
      \/ ~alive'[s] /\ active'[s] = {} /\ terminated' = terminated
  BY <1>0, <1>5 DEF SessionTypeOK
<1>8. InFlightOf(s) = {t \in Task : owner[t] = s /\ status[t] \in {"Pending", "Running"}}
  BY <1>2 DEF InFlightOf
<1>9. terminated \subseteq terminated' /\ terminated' \subseteq Task
      /\ \A t \in terminated' \ terminated : owner[t] = s /\ status[t] \in {"Pending", "Running"}
  BY <1>0, <1>7, <1>8
<1>10. SessionTypeOK'
  <2>1. alive' \in [Session -> BOOLEAN] /\ active' \in [Session -> SUBSET Task]
    BY <1>0, <1>5 DEF SessionTypeOK
  <2>2. \A r \in Session : active'[r] \subseteq {t \in Task : owner'[t] = r}
    BY <1>0, <1>1, <1>6, <1>7 DEF SessionTypeOK
  <2>3. \A r \in Session : ~alive'[r] =>
           ~generating'[r] /\ active'[r] \cup pendingMsg'[r] \cup streaming'[r] = {}
    BY <1>0, <1>1, <1>6, <1>7 DEF SessionTypeOK
  <2> QED
    BY <1>0, <1>1, <1>6, <1>9, <2>1, <2>2, <2>3 DEF SessionTypeOK
<1>11. OwnerInv'
  <2>1. \A t \in Task : (owner'[t] = None) <=> (status'[t] = "New")
    BY <1>0, <1>1, <1>4 DEF OwnerInv
  <2>2. \A t \in streamTask' : owner'[t] # None
    BY <1>0, <1>1 DEF OwnerInv
  <2>3. \A r \in Session : alive'[r] => active'[r] = {t \in Task : owner'[t] = r}
    BY <1>0, <1>1, <1>6, <1>7 DEF OwnerInv
  <2>4. ASSUME NEW r \in Session
        PROVE  /\ pendingMsg'[r] \cup streaming'[r] \subseteq active'[r] \ terminated'
               /\ pendingMsg'[r] \cap streamTask' = {} /\ streaming'[r] \subseteq streamTask'
    <3>1. CASE r = s
      BY <1>6, <3>1
    <3>2. CASE r # s
      <4>1. /\ pendingMsg[r] \cup streaming[r] \subseteq active[r] \ terminated
            /\ pendingMsg[r] \cap streamTask = {} /\ streaming[r] \subseteq streamTask
            /\ \A t \in active[r] : owner[t] = r
        BY <1>0 DEF OwnerInv, SessionTypeOK
      <4> QED
        BY <1>1, <1>6, <1>9, <3>2, <4>1
    <3> QED
      BY <3>1, <3>2
  <2>5. \A t \in terminated' : status'[t] # "New"
    BY <1>0, <1>4, <1>9 DEF OwnerInv
  <2> QED
    BY <2>1, <2>2, <2>3, <2>4, <2>5 DEF OwnerInv
<1>12. OpenInv'
  <2>1. ASSUME NEW t \in Task, status'[t] \in {"Completed", "Failed"}, NEW r \in Session
        PROVE  t \notin pendingMsg'[r] \cup streaming'[r]
    BY <1>0, <1>4, <1>6, <2>1 DEF OpenInv
  <2>2. ASSUME NEW t \in Task, status'[t] \in {"Pending", "Running"}, t \notin terminated',
               alive'[owner'[t]]
        PROVE  IF t \in streamTask' THEN t \in streaming'[owner'[t]] ELSE t \in pendingMsg'[owner'[t]]
    <3>1. status[t] \in {"Pending", "Running"} /\ t \notin terminated
      BY <1>4, <1>9, <2>2
    <3>2. owner'[t] = owner[t] /\ owner[t] \in Session
      BY <1>0, <1>1, <3>1 DEF OwnerInv, SessionTypeOK
    <3>3. owner[t] # s
      BY <1>1, <1>7, <1>8, <2>2, <3>1
    <3>4. alive[owner[t]]
      BY <1>6, <2>2, <3>2, <3>3
    <3>5. IF t \in streamTask THEN t \in streaming[owner[t]] ELSE t \in pendingMsg[owner[t]]
      BY <1>0, <3>1, <3>4 DEF OpenInv, InFlightTasks
    <3> QED
      BY <1>1, <1>6, <3>2, <3>3, <3>5
  <2> QED
    BY <2>1, <2>2 DEF OpenInv, InFlightTasks
<1>13. CancelledInv'
  <2>1. active[s] \subseteq Task /\ cancelled \subseteq Task
    BY <1>0, <1>2 DEF TypeOK
  <2> QED
    BY <1>0, <1>3, <2>1 DEF CancelledInv
<1>14. OutputInv'
  BY <1>0, <1>1, <1>3 DEF OutputInv
<1>15. \A t \in Task : Settled(t)' = Settled(t)
  BY <1>4 DEF Settled
<1>16. AnswersAreTheTasksOwn'
  BY <1>0, <1>1, <1>15 DEF AnswersAreTheTasksOwn
<1>17. SurvivingRequestsAnswered'
  <2> SUFFICES ASSUME NEW t \in Task, status'[t] \in {"Completed", "Failed"}, alive'[owner'[t]],
                      t \notin terminated'
               PROVE  IF t \in streamTask' THEN streamEnd'[t] = Settled(t)'
                                           ELSE replied'[t] = Settled(t)'
    BY DEF SurvivingRequestsAnswered
  <2>1. status[t] \in {"Completed", "Failed"} /\ t \notin terminated
    BY <1>4, <1>9
  <2>2. owner[t] \in Session /\ owner'[t] = owner[t]
    BY <1>0, <1>1, <2>1 DEF OwnerInv, SessionTypeOK
  <2>3. alive[owner[t]]
    BY <1>1, <1>6, <2>2
  <2> QED
    BY <1>0, <1>1, <1>15, <2>1, <2>3 DEF SurvivingRequestsAnswered
<1>18. TerminatedStaySilent'
  <2> SUFFICES ASSUME NEW t \in terminated'
               PROVE  replied'[t] = "none" /\ streamEnd'[t] = "none"
    BY DEF TerminatedStaySilent
  <2>1. CASE t \in terminated
    BY <1>0, <1>1, <2>1 DEF TerminatedStaySilent
  <2>2. CASE t \notin terminated
    <3>1. t \in Task /\ Settled(t) = "none"
      BY <1>9, <2>2 DEF Settled
    <3> QED
      BY <1>0, <1>1, <3>1 DEF AnswersAreTheTasksOwn
  <2> QED
    BY <2>1, <2>2
<1>19. DestroyedSessionsQueueNothing'
  <2> SUFFICES ASSUME NEW t \in Task, owner'[t] # None, status'[t] = "Pending"
               PROVE  alive'[owner'[t]]
    BY DEF DestroyedSessionsQueueNothing
  <2>1. status[t] = "Pending" /\ owner[t] # s /\ owner'[t] = owner[t]
    BY <1>1, <1>2, <1>4
  <2>2. owner[t] \in Session /\ alive[owner[t]]
    BY <1>0, <1>1, <2>1 DEF SessionTypeOK, DestroyedSessionsQueueNothing
  <2> QED
    BY <1>6, <2>1, <2>2
<1>20. BusySessionsWait'
  <2> SUFFICES ASSUME NEW r \in Session, generating'[r]
               PROVE  \E t \in active'[r] : status'[t] \in {"Pending", "Running"}
    BY DEF BusySessionsWait
  <2>1. r # s /\ generating[r] /\ active'[r] = active[r]
    BY <1>6
  <2>2. PICK t \in active[r] : status[t] \in {"Pending", "Running"}
    BY <1>0, <2>1 DEF BusySessionsWait
  <2>3. t \in Task /\ t \notin active[s]
    BY <1>0, <1>2, <2>1, <2>2 DEF SessionTypeOK
  <2> QED
    BY <1>3, <2>1, <2>2, <2>3
<1> QED
  BY <1>10, <1>11, <1>12, <1>13, <1>14, <1>16, <1>17, <1>18, <1>19, <1>20 DEF SessionInv

-----------------------------------------------------------------------------
(* Results                                                                 *)

\* Every living session hears the result of a task; the one that expects it, if
\* it was left alone, is the only one that answers, with the task's own outcome.
LEMMA ResultStep ==
    ASSUME FullInv, Deliver
    PROVE  SessionInv'
<1>0. /\ IInv /\ TypeOK /\ SessionInv /\ SessionTypeOK /\ OwnerInv /\ OpenInv /\ CancelledInv
      /\ AnswersAreTheTasksOwn /\ SurvivingRequestsAnswered /\ TerminatedStaySilent
      /\ DestroyedSessionsQueueNothing
      /\ OutputsOpen(events, streamEnd) /\ UpdatesLast(events)
      /\ events \in Seq(Event) /\ status \in [Task -> TaskStatus]
  BY DEF FullInv, IInv, TypeOK, SessionInv, OutputInv
<1>1. PICK t \in Task :
         /\ t = Head(events).task /\ status[t] = "Running"
         /\ status'[t] \in {"Completed", "Failed"}
         /\ \A x \in Task : x # t => status'[x] = status[x]
  BY <1>0, UpdateEffect DEF Deliver
<1> DEFINE a == IF Head(events).ok THEN "ok" ELSE "error"
<1>2. HandleResult(t, a) /\ events # <<>> /\ Head(events).kind = "update"
      /\ events' = Tail(events) /\ UNCHANGED cancelled
  BY <1>1 DEF Deliver, UpdateTaskState
<1>3. Settled(t) = "none" /\ Settled(t)' = a /\ a \in {"ok", "error"}
  <2>1. status'[t] = IF Head(events).ok THEN "Completed" ELSE "Failed"
    BY <1>0, <1>1 DEF Deliver, UpdateTaskState
  <2>2. Settled(t)' = a
    BY <2>1 DEF Settled
  <2>3. Settled(t) = "none"
    BY <1>1 DEF Settled
  <2> QED
    BY <2>2, <2>3
<1>4. \A x \in Task : x # t => Settled(x)' = Settled(x)
  BY <1>1 DEF Settled
<1> HIDE DEF a
<1>5. /\ \A s \in Session : generating'[s] = FALSE
      /\ \A s \in Session : /\ pendingMsg'[s] = pendingMsg[s] \ {t}
                            /\ streaming'[s] = streaming[s] \ {t}
      /\ generating' \in [Session -> BOOLEAN]
      /\ pendingMsg' \in [Session -> SUBSET Task]
      /\ streaming' \in [Session -> SUBSET Task]
      /\ UNCHANGED <<alive, active, owner, streamTask, chunks, terminated>>
  BY <1>0, <1>2 DEF HandleResult, Freed, SessionTypeOK
<1>6. /\ replied'[t] = IF Answering(t) # {} THEN a ELSE replied[t]
      /\ \A x \in Task : x # t => replied'[x] = replied[x]
      /\ replied' \in [Task -> Answer]
  BY <1>0, <1>2, <1>3 DEF HandleResult, SessionTypeOK, Answer
<1>7. /\ streamEnd'[t] = IF Finishing(t) # {} THEN a ELSE streamEnd[t]
      /\ \A x \in Task : x # t => streamEnd'[x] = streamEnd[x]
      /\ streamEnd' \in [Task -> Answer]
  BY <1>0, <1>2, <1>3 DEF HandleResult, SessionTypeOK, Answer
<1>8. replied[t] = "none" /\ streamEnd[t] = "none"
  BY <1>0, <1>3 DEF AnswersAreTheTasksOwn
<1>9. /\ Answering(t) # {} => t \notin streamTask /\ t \notin terminated
      /\ Finishing(t) # {} => t \in streamTask /\ t \notin terminated
  BY <1>0 DEF Answering, Finishing, OwnerInv
<1>10. SessionTypeOK'
  BY <1>0, <1>5, <1>6, <1>7 DEF SessionTypeOK
<1>11. OwnerInv'
  <2>1. \A x \in Task : (status'[x] = "New") = (status[x] = "New")
    BY <1>1
  <2>2. terminated \subseteq Task
    BY <1>0 DEF SessionTypeOK
  <2> QED
    BY <1>0, <1>5, <2>1, <2>2 DEF OwnerInv
<1>12. OpenInv'
  <2>1. \A x \in Task : status'[x] \in {"Completed", "Failed"} =>
           \A s \in Session : x \notin pendingMsg'[s] \cup streaming'[s]
    BY <1>0, <1>1, <1>5 DEF OpenInv
  <2>2. ASSUME NEW x \in Task, status'[x] \in {"Pending", "Running"}, x \notin terminated',
               alive'[owner'[x]]
        PROVE  IF x \in streamTask' THEN x \in streaming'[owner'[x]] ELSE x \in pendingMsg'[owner'[x]]
    <3>1. x # t /\ status[x] \in {"Pending", "Running"}
      BY <1>1, <2>2
    <3>2. owner[x] \in Session
      BY <1>0, <3>1 DEF OwnerInv, SessionTypeOK
    <3>3. IF x \in streamTask THEN x \in streaming[owner[x]] ELSE x \in pendingMsg[owner[x]]
      BY <1>0, <1>5, <2>2, <3>1 DEF OpenInv, InFlightTasks
    <3> QED
      BY <1>5, <3>1, <3>2, <3>3
  <2> QED
    BY <2>1, <2>2 DEF OpenInv, InFlightTasks
<1>13. CancelledInv'
  BY <1>0, <1>1, <1>2 DEF CancelledInv, TypeOK
<1>14. OutputInv'
  <2>1. IsUpdate(Head(events))
    BY <1>2 DEF IsUpdate
  <2>2. /\ OutputsOpen(events', streamEnd) /\ UpdatesLast(events')
        /\ \A i \in 1..Len(events') : events'[i].kind = "output" => events'[i].task # t
    BY <1>0, <1>1, <1>2, <2>1, OutputTail
  <2>3. OutputsOpen(events', streamEnd')
    BY <1>7, <2>2 DEF OutputsOpen
  <2> QED
    BY <2>2, <2>3 DEF OutputInv
<1>15. AnswersAreTheTasksOwn'
  <2> SUFFICES ASSUME NEW x \in Task
               PROVE  /\ replied'[x] \in {"none", Settled(x)'}
                      /\ streamEnd'[x] \in {"none", Settled(x)'}
                      /\ replied'[x] # "none" => x \notin streamTask'
                      /\ streamEnd'[x] # "none" => x \in streamTask'
    BY DEF AnswersAreTheTasksOwn
  <2>1. CASE x = t
    BY <1>3, <1>5, <1>6, <1>7, <1>8, <1>9, <2>1
  <2>2. CASE x # t
    BY <1>0, <1>4, <1>5, <1>6, <1>7, <2>2 DEF AnswersAreTheTasksOwn
  <2> QED
    BY <2>1, <2>2
<1>16. SurvivingRequestsAnswered'
  <2> SUFFICES ASSUME NEW x \in Task, status'[x] \in {"Completed", "Failed"}, alive[owner[x]],
                      x \notin terminated
               PROVE  IF x \in streamTask THEN streamEnd'[x] = Settled(x)'
                                          ELSE replied'[x] = Settled(x)'
    BY <1>5 DEF SurvivingRequestsAnswered
  <2>1. CASE x = t
    <3>1. owner[t] \in Session /\ t \in InFlightTasks
      BY <1>0, <1>1 DEF OwnerInv, SessionTypeOK, InFlightTasks
    <3>2. IF t \in streamTask THEN Finishing(t) # {} ELSE Answering(t) # {}
      BY <1>0, <2>1, <3>1 DEF OpenInv, Finishing, Answering
    <3> QED
      BY <1>3, <1>6, <1>7, <2>1, <3>2
  <2>2. CASE x # t
    BY <1>0, <1>1, <1>4, <1>6, <1>7, <2>2 DEF SurvivingRequestsAnswered
  <2> QED
    BY <2>1, <2>2
<1>17. TerminatedStaySilent'
  <2>1. terminated \subseteq Task
    BY <1>0 DEF SessionTypeOK
  <2> QED
    BY <1>0, <1>5, <1>6, <1>7, <1>8, <1>9, <2>1 DEF TerminatedStaySilent
<1>18. DestroyedSessionsQueueNothing'
  BY <1>0, <1>1, <1>5 DEF DestroyedSessionsQueueNothing
<1>19. BusySessionsWait'
  BY <1>5 DEF BusySessionsWait
<1> QED
  BY <1>10, <1>11, <1>12, <1>13, <1>14, <1>15, <1>16, <1>17, <1>18, <1>19 DEF SessionInv

-----------------------------------------------------------------------------
(* The theorems                                                            *)

LEMMA InitFull == Init /\ SessionInit => FullInv
<1> SUFFICES ASSUME Init, SessionInit
             PROVE  FullInv
  OBVIOUS
<1>1. IInv
  BY InitInv
<1>2. \A t \in Task : Settled(t) = "none"
  BY DEF Init, Settled
<1>3. \A t \in Task : status[t] = "New"
  BY DEF Init
<1>4. SessionTypeOK
  BY SessionAssumption DEF SessionInit, SessionTypeOK, SessionAssumption, Answer
<1>5. OwnerInv
  BY <1>3, SessionAssumption DEF SessionInit, OwnerInv, SessionAssumption
<1>6. OpenInv /\ CancelledInv
  BY <1>3 DEF Init, SessionInit, OpenInv, InFlightTasks, CancelledInv
<1>7. OutputInv
  BY DEF Init, OutputInv, OutputsOpen, UpdatesLast
<1>8. AnswersAreTheTasksOwn /\ SurvivingRequestsAnswered
  BY <1>2, <1>3 DEF SessionInit, AnswersAreTheTasksOwn, SurvivingRequestsAnswered
<1>9. TerminatedStaySilent /\ DestroyedSessionsQueueNothing /\ BusySessionsWait
  BY DEF SessionInit, TerminatedStaySilent, DestroyedSessionsQueueNothing, BusySessionsWait
<1> QED
  BY <1>1, <1>4, <1>5, <1>6, <1>7, <1>8, <1>9 DEF FullInv, SessionInv

LEMMA CoreStep ==
    ASSUME FullInv, [SessionNext]_allVars
    PROVE  IInv'
<1>0. IInv /\ SessionTypeOK
  BY DEF FullInv, SessionInv
<1>1. ASSUME NEW s \in Session, NEW t \in Task, Chat(s, t) \/ Parse(s, t) \/ StreamChat(s, t)
      PROVE  IInv'
  <2>1. AddTask(t)
    BY <1>1 DEF Chat, Parse, StreamChat, Accept
  <2>2. Next
    BY <2>1 DEF Next, Calls
  <2> QED
    BY <1>0, <2>2, CoreNext
<1>2. ASSUME NEW s \in Session, Terminate(s) \/ Destroy(s)
      PROVE  IInv'
  <2>1. CancelTasks(active[s]) /\ active[s] \subseteq Task
    BY <1>0, <1>2 DEF Terminate, Destroy, CancelActive, SessionTypeOK
  <2> QED
    BY <1>0, <2>1, CoreCancel
<1>3. ASSUME CoreSteps \/ Deliver
      PROVE  IInv'
  <2>1. Next
    BY <1>3 DEF CoreSteps, Deliver, Next, Dispatching
  <2> QED
    BY <1>0, <2>1, CoreNext
<1>4. ASSUME EmitOutput \/ \E t \in Task : StreamChunk(t)
      PROVE  IInv'
  BY <1>0, <1>4, CoreOutputs
<1>5. ASSUME UNCHANGED allVars
      PROVE  IInv'
  <2>1. UNCHANGED vars
    BY <1>5 DEF allVars
  <2> QED
    BY <1>0, <2>1, CoreNext
<1> QED
  BY <1>1, <1>2, <1>3, <1>4, <1>5 DEF SessionNext, Requests, EventLoop, SessionPool, CoreSteps

LEMMA SessionStep ==
    ASSUME FullInv, [SessionNext]_allVars
    PROVE  SessionInv'
<1>1. ASSUME UNCHANGED allVars
      PROVE  SessionInv'
  <2>1. UNCHANGED <<status, cancelled, events>> /\ UNCHANGED sessionVars
    BY <1>1 DEF allVars, vars
  <2>2. OutputInv'
    BY <2>1 DEF FullInv, SessionInv, OutputInv, sessionVars
  <2> QED
    BY <2>1, <2>2, QuietStep DEF FullInv, IInv, TypeOK
<1>2. ASSUME CoreSteps, UNCHANGED sessionVars
      PROVE  SessionInv'
  BY <1>2, CoreStepsQuiet
<1> QED
  BY <1>1, <1>2, RequestStep, EndStep, ResultStep, OutputsQuiet
     DEF SessionNext, Requests, EventLoop, SessionPool, CoreSteps

\* The invariant of the sessions and of the TaskManager under them.
THEOREM SessionsInvariant == SessionSpec => []FullInv
<1>1. FullInv /\ [SessionNext]_allVars => FullInv'
  BY CoreStep, SessionStep DEF FullInv
<1> QED
  BY InitFull, <1>1, PTL DEF SessionSpec

\* A request whose session was left alone is answered with its own task's
\* outcome, once and as soon as the task is over, whichever other results the
\* broadcast of taskCompleted and taskFailed brought its session before.
THEOREM AnswersAreOwn == SessionSpec => []AnswersFitRequests
<1>1. FullInv => AnswersFitRequests
  BY DEF FullInv, SessionInv, AnswersFitRequests
<1> QED
  BY SessionsInvariant, <1>1, PTL

\* What was terminated is never answered, and nothing of a destroyed session is
\* left to start.
THEOREM EndedAreSilent == SessionSpec => []EndedStaySilent
<1>1. FullInv => EndedStaySilent
  BY DEF FullInv, SessionInv, EndedStaySilent
<1> QED
  BY SessionsInvariant, <1>1, PTL

\* A session that refuses requests always has one of its own still to end.
THEOREM BusyAreWaiting == SessionSpec => []BusySessionsWait
<1>1. FullInv => BusySessionsWait
  BY DEF FullInv, SessionInv
<1> QED
  BY SessionsInvariant, <1>1, PTL

\* No StreamOutput reaches a client after the StreamFinished of its task.
THEOREM OutputsComeFirst == SessionSpec => OutputPrecedesFinish
<1> DEFINE Quiet ==
      \A t \in Task : events # <<>> /\ events' = Tail(events) /\ Head(events).kind = "output"
                        /\ Head(events).task = t => streamEnd[t] = "none"
<1>1. FullInv => Quiet
  <2> SUFFICES ASSUME FullInv, NEW t \in Task, events # <<>>, Head(events).kind = "output",
                      Head(events).task = t
               PROVE  streamEnd[t] = "none"
    OBVIOUS
  <2>1. events \in Seq(Event) /\ OutputsOpen(events, streamEnd) /\ UpdatesLast(events)
    BY DEF FullInv, IInv, TypeOK, SessionInv, OutputInv
  <2> QED
    BY <2>1, OutputTail
<1>2. FullInv /\ [SessionNext]_allVars => [Quiet]_allVars
  BY <1>1
<1> QED
  BY SessionsInvariant, <1>2, PTL DEF SessionSpec, OutputPrecedesFinish

\* What TaskManager guarantees by itself also holds with sessions on top, which
\* cancel sets of tasks at once and post outputs to its event queue.
THEOREM TaskManagerUnderSessions ==
    SessionSpec => [](TasksAreInPlace /\ SlotsMatchRunning /\ CancelledNeverExecutes
                        /\ FinishedExactlyOnce)
<1>1. IInv => QueuesHoldPending
  BY DEF IInv, QueueInv, QueuesHoldPending, QueuedTasks, Distinct, Elems
<1>2. IInv => TrackedWhenIdle
  BY DEF IInv, BatchInv, TrackInv, RunningTasks, TrackedWhenIdle
<1>3. IInv => CancelledNeverExecutes
  BY DEF IInv, NoteInv, ExecInv, FinishedExactlyOnce, CancelledNeverExecutes
<1>4. FullInv => TasksAreInPlace /\ SlotsMatchRunning /\ CancelledNeverExecutes
                    /\ FinishedExactlyOnce
  BY <1>1, <1>2, <1>3 DEF FullInv, IInv, TasksAreInPlace
<1> QED
  BY SessionsInvariant, <1>4, PTL
=============================================================================
