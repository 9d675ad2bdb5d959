---------------------------- MODULE ChatSessions ----------------------------
(***************************************************************************)
(* TextChatSession and FunctionCallingSession on top of TaskManager.       *)
(*                                                                         *)
(* Sessions live on the TaskManager's thread. Every one of them is         *)
(* connected to the broadcast signals taskCompleted and taskFailed, so     *)
(* updateTaskState runs the handler of every living session before it      *)
(* returns (direct connections). StreamOutput is posted by the pool thread *)
(* to the session and so passes through the same event queue as the        *)
(* status updates.                                                         *)
(***************************************************************************)
EXTENDS TaskManager

CONSTANTS
    ChatSession,      \* the TextChatSession objects
    CallSession,      \* the FunctionCallingSession objects
    None,             \* no session
    MaxChunks         \* bound: StreamOutput chunks posted per task

Session == ChatSession \cup CallSession

ASSUME SessionAssumption ==
    /\ ChatSession \cap CallSession = {}
    /\ None \notin Session
    /\ MaxChunks \in Nat

VARIABLES
    alive,         \* the session object exists
    generating,    \* generating
    active,        \* SessionBase::activeTasks
    pendingMsg,    \* tasks with an entry in pendingMessages
    streaming,     \* tasks mapped to true in streamingTasks
    owner,         \* the session that created the task
    streamTask,    \* tasks whose executor was given a streamer
    chunks,        \* how many StreamOutput chunks the task's executor posted
    replied,       \* observed: the delayed D-Bus reply of the task's request
    streamEnd,     \* observed: StreamFinished emitted for the task
    terminated     \* observed: tasks in flight when their session terminated

sessionVars == <<alive, generating, active, pendingMsg, streaming, owner,
                 streamTask, chunks, replied, streamEnd, terminated>>
allVars == <<vars, sessionVars>>

Answer == {"none", "ok", "error"}

SessionInit ==
    /\ alive = [s \in Session |-> TRUE]
    /\ generating = [s \in Session |-> FALSE]
    /\ active = [s \in Session |-> {}]
    /\ pendingMsg = [s \in Session |-> {}]
    /\ streaming = [s \in Session |-> {}]
    /\ owner = [t \in Task |-> None]
    /\ streamTask = {}
    /\ chunks = [t \in Task |-> 0]
    /\ replied = [t \in Task |-> "none"]
    /\ streamEnd = [t \in Task |-> "none"]
    /\ terminated = {}

ServiceType(s) == IF s \in ChatSession THEN 100 ELSE 101

\* What chat, streamChat and Parse share once the request is accepted: the
\* task joins activeTasks (submitTask) and TaskManager's queue.
Accept(s, t) ==
    /\ alive[s]
    /\ ~generating[s]
    /\ TypeOf[t] = ServiceType(s)
    /\ AddTask(t)
    /\ generating' = [generating EXCEPT ![s] = TRUE]
    /\ active' = [active EXCEPT ![s] = @ \cup {t}]
    /\ owner' = [owner EXCEPT ![t] = s]

\* TextChatSession::chat and FunctionCallingSession::Parse keep the message
\* for a delayed reply.
Chat(s, t) ==
    /\ s \in ChatSession
    /\ Accept(s, t)
    /\ pendingMsg' = [pendingMsg EXCEPT ![s] = @ \cup {t}]
    /\ UNCHANGED <<alive, streaming, streamTask, chunks, replied, streamEnd, terminated>>

Parse(s, t) ==
    /\ s \in CallSession
    /\ Accept(s, t)
    /\ pendingMsg' = [pendingMsg EXCEPT ![s] = @ \cup {t}]
    /\ UNCHANGED <<alive, streaming, streamTask, chunks, replied, streamEnd, terminated>>

\* streamChat answers at once; the result comes as signals.
StreamChat(s, t) ==
    /\ s \in ChatSession
    /\ Accept(s, t)
    /\ streaming' = [streaming EXCEPT ![s] = @ \cup {t}]
    /\ streamTask' = streamTask \cup {t}
    /\ UNCHANGED <<alive, pendingMsg, chunks, replied, streamEnd, terminated>>

\* A session's tasks are forgotten in one of its tables.
Cleared(table, s) == [table EXCEPT ![s] = {}]

\* What terminate and cleanup cancel.
CancelStreamed(s) == CancelTasks(streaming[s])                   \* mutant
CancelActive(s) == CancelTasks(active[s])

InFlightOf(s) == {t \in active[s] : status[t] \in {"Pending", "Running"}}

\* terminate: cancels every active task and forgets the pending messages and
\* streams, answering none of them; activeTasks itself is kept.
Terminate(s) ==
    /\ alive[s]
    /\ generating[s]
    /\ CancelActive(s)
    /\ generating' = [generating EXCEPT ![s] = FALSE]
    /\ pendingMsg' = Cleared(pendingMsg, s)
    /\ streaming' = Cleared(streaming, s)
    /\ terminated' = terminated \cup InFlightOf(s)
    /\ UNCHANGED <<alive, active, owner, streamTask, chunks, replied, streamEnd>>

\* SessionManager::destroySession: cleanup(), then the object is deleted.
Destroy(s) ==
    /\ alive[s]
    /\ CancelActive(s)
    /\ alive' = [alive EXCEPT ![s] = FALSE]
    /\ generating' = [generating EXCEPT ![s] = FALSE]
    /\ active' = Cleared(active, s)
    /\ pendingMsg' = Cleared(pendingMsg, s)
    /\ streaming' = Cleared(streaming, s)
    /\ UNCHANGED <<owner, streamTask, chunks, replied, streamEnd, terminated>>

\* The sessions that send the delayed reply of a task, and those that finish
\* its stream.
AnsweringWhileGenerating(t) ==                                   \* mutant
    {s \in Session : alive[s] /\ generating[s] /\ t \in pendingMsg[s]}
Answering(t) == {s \in Session : alive[s] /\ t \in pendingMsg[s]}
Finishing(t) == {s \in Session : alive[s] /\ t \in streaming[s]}

\* The sessions that stop being generating: all that hear the result.
FreedBySuccess(answer) == {s \in Session : alive[s] /\ answer = "ok"}     \* mutant
Freed(answer) == {s \in Session : alive[s]}

\* handleChatResult and handleFunctionCallingResult, in every living session,
\* for a task that need not be its own: the session that has a message or a
\* stream for the task answers it, and each of them stops being "generating".
\* (A function calling session emits FunctionResult or ParseError in any case,
\* also for a task that is not its own; no state depends on the signal.)
HandleResult(t, answer) ==
    LET answering == Answering(t)
        finishing == Finishing(t)
    IN  /\ generating' = [s \in Session |-> generating[s] /\ s \notin Freed(answer)]
        /\ replied' = [replied EXCEPT ![t] = IF answering # {} THEN answer ELSE @]
        /\ streamEnd' = [streamEnd EXCEPT ![t] = IF finishing # {} THEN answer ELSE @]
        /\ pendingMsg' = [s \in Session |-> IF alive[s] THEN pendingMsg[s] \ {t}
                                                        ELSE pendingMsg[s]]
        /\ streaming' = [s \in Session |-> IF alive[s] THEN streaming[s] \ {t}
                                                       ELSE streaming[s]]
        /\ UNCHANGED <<alive, active, owner, streamTask, chunks, terminated>>

Deliver ==
    /\ UpdateTaskState
    /\ HandleResult(Head(events).task, IF Head(events).ok THEN "ok" ELSE "error")

StreamerLate(t) ==                                               \* mutant
    exec[t] \in {"executing", "posted"} /\ t \in streamTask /\ alive[owner[t]]
Streamer(t) == exec[t] = "executing" /\ t \in streamTask /\ alive[owner[t]]

\* The streamer of an executing task posts StreamOutput while its session
\* exists. It looks at nothing else, cancelledTasks included.
StreamChunk(t) ==
    /\ Streamer(t)
    /\ chunks[t] < MaxChunks
    /\ chunks' = [chunks EXCEPT ![t] = @ + 1]
    /\ events' = Append(events, [kind |-> "output", task |-> t, ok |-> TRUE])
    /\ UNCHANGED <<installed, status, deploy, queue, cancelled, counter, limit,
                   throttle, running, finished, cancelNotes>>
    /\ UNCHANGED dispatchVars /\ UNCHANGED poolVars
    /\ UNCHANGED <<alive, generating, active, pendingMsg, streaming, owner,
                   streamTask, replied, streamEnd, terminated>>

\* The posted StreamOutput reaches the session, or is discarded with it.
EmitOutput ==
    /\ Idle
    /\ events # <<>>
    /\ Head(events).kind = "output"
    /\ events' = Tail(events)
    /\ UNCHANGED <<installed, status, deploy, queue, cancelled, counter, limit,
                   throttle, running, finished, cancelNotes>>
    /\ UNCHANGED dispatchVars /\ UNCHANGED poolVars /\ UNCHANGED sessionVars

-----------------------------------------------------------------------------
Requests ==
    \E s \in Session :
       \/ \E t \in Task : Chat(s, t) \/ Parse(s, t) \/ StreamChat(s, t)
       \/ Terminate(s)
       \/ Destroy(s)

\* The event loop of the sessions' thread.
EventLoop ==
    \/ /\ StartDispatch \/ LeaveType \/ DropCancelled \/ TakeTask \/ EndCollect
          \/ SubmitTask \/ TrackTask \/ EndDispatch
       /\ UNCHANGED sessionVars
    \/ Deliver
    \/ EmitOutput

SessionPool ==
    \/ (PoolThreads \/ Environment) /\ UNCHANGED sessionVars
    \/ \E t \in Task : StreamChunk(t)

SessionNext == Requests \/ EventLoop \/ SessionPool

SessionSpec == (Init /\ SessionInit) /\ [][SessionNext]_allVars

-----------------------------------------------------------------------------
(* Properties                                                              *)

\* Every session variable has its type; a session tracks only tasks it made,
\* and nothing is left in the tables of a destroyed one.
SessionTypeOK ==
    /\ alive \in [Session -> BOOLEAN]
    /\ generating \in [Session -> BOOLEAN]
    /\ active \in [Session -> SUBSET Task]
    /\ pendingMsg \in [Session -> SUBSET Task]
    /\ streaming \in [Session -> SUBSET Task]
    /\ owner \in [Task -> Session \cup {None}]
    /\ streamTask \subseteq Task
    /\ chunks \in [Task -> 0..MaxChunks]
    /\ replied \in [Task -> Answer]
    /\ streamEnd \in [Task -> Answer]
    /\ terminated \subseteq Task
    /\ \A s \in Session : active[s] \subseteq {t \in Task : owner[t] = s}
    /\ \A s \in Session :
          ~alive[s] => ~generating[s] /\ active[s] \cup pendingMsg[s] \cup streaming[s] = {}

Settled(t) ==
    CASE status[t] = "Completed" -> "ok"
      [] status[t] = "Failed" -> "error"
      [] OTHER -> "none"

\* Although every session hears every result, a request is only answered with
\* the outcome of its own task, and not before that task is over; a request
\* is answered either by a reply or by StreamFinished.
AnswersAreTheTasksOwn ==
    \A t \in Task :
       /\ replied[t] \in {"none", Settled(t)}
       /\ streamEnd[t] \in {"none", Settled(t)}
       /\ replied[t] # "none" => t \notin streamTask
       /\ streamEnd[t] # "none" => t \in streamTask

\* A request whose session was neither terminated nor destroyed is answered as
\* soon as its task is over: no foreign result can use up its reply.
SurvivingRequestsAnswered ==
    \A t \in Task :
       status[t] \in {"Completed", "Failed"} /\ alive[owner[t]] /\ t \notin terminated
          => IF t \in streamTask THEN streamEnd[t] = Settled(t)
                                 ELSE replied[t] = Settled(t)

\* After terminate no result of the terminated tasks reaches the client as an
\* answer, not even when the executor was running and completes later.
TerminatedStaySilent ==
    \A t \in terminated : replied[t] = "none" /\ streamEnd[t] = "none"

\* Destroying a session (its client may be gone) cancels everything it still
\* had queued, so that nothing of it starts afterwards.
DestroyedSessionsQueueNothing ==
    \A t \in Task : owner[t] # None /\ status[t] = "Pending" => alive[owner[t]]

\* No StreamOutput follows the StreamFinished of the same task, although both
\* come from another thread.
OutputPrecedesFinish ==
    [][\A t \in Task :
          events # <<>> /\ events' = Tail(events) /\ Head(events).kind = "output"
             /\ Head(events).task = t => streamEnd[t] = "none"]_allVars

\* A session that refuses requests has one of its own that is still to end: no
\* order of foreign and own results, cancellations and terminations leaves it
\* generating with nothing to wait for.
BusySessionsWait ==
    \A s \in Session :
       generating[s] => \E t \in active[s] : status[t] \in {"Pending", "Running"}

\* Every request of a session left alone is answered once, with its own task's
\* outcome, and the session's tables name its own tasks.
AnswersFitRequests == SessionTypeOK /\ AnswersAreTheTasksOwn /\ SurvivingRequestsAnswered

\* What is terminated answers nothing any more, and what is destroyed starts
\* nothing any more.
EndedStaySilent == TerminatedStaySilent /\ DestroyedSessionsQueueNothing
=============================================================================
