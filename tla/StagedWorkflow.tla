--------------------------- MODULE StagedWorkflow ---------------------------
(***************************************************************************)
(* Index builds of a VectorDb: WorkflowOrchestrator takes a build through  *)
(* its stages (parsing the files, embedding the chunks), its own           *)
(* StageBasedTaskManager queues one task per stage and runs it on the pool *)
(* of the stage, and VectorDb stores the results when the last stage is    *)
(* done.                                                                   *)
(*                                                                         *)
(* The orchestrator, the task manager and VectorDb live on one thread; a   *)
(* pool thread runs StageTask::executeTask and reports by a queued signal. *)
(* A timer of the task manager starts queued tasks and sweeps tasks whose  *)
(* status says they ended, whether their report was handled or not.        *)
(***************************************************************************)
EXTENDS Naturals, Sequences, FiniteSets

CONSTANTS
    Workflow,      \* builds
    PoolSize,      \* threads of each stage's pool (4 and 2 in the code)
    MaxTasks,      \* bound: tasks of one workflow, one more for every resume
    Outcomes,      \* how a task may end: some of "full", "empty", "throws"
    Nobody         \* the thread is not waiting for any pool

Parsing == 1
Embedding == 2
Stage == {Parsing, Embedding}

ASSUME WorkflowAssumption ==
    /\ PoolSize \in [Stage -> Nat \ {0}]
    /\ MaxTasks \in Nat \ {0, 1}
    /\ Outcomes \subseteq {"full", "empty", "throws"}
    /\ Nobody \notin Workflow

VARIABLES
    flow,          \* WorkflowOrchestrator: status, stages, m_completedStages
    mgr,           \* its StageBasedTaskManager: tasks, queues, posted reports
    active,        \* VectorDb::m_activeWorkflows
    leaving,       \* workflows whose unregistration is posted (singleShot 0)
    stored,        \* results VectorDb stored, per workflow
    told,          \* indexBuildWorkflowCompleted signals, per workflow
    joining,       \* the workflow whose pools the destructor waits for
    lost,          \* history: the awaited task was swept before its report
    crashed        \* a pool thread used a task that was destroyed

vars == <<flow, mgr, active, leaving, stored, told, joining, lost, crashed>>

Id == 1..MaxTasks
NoTask == 0
NoResult == 0

Status == {"None", "Pending", "Running", "Paused", "Completed", "Failed", "Cancelled"}

\* WorkflowStage. Parsing results are named by the task that made them, those
\* of embedding by the parsing results that were embedded.
StageRecord == [task : 0..MaxTasks, done : BOOLEAN, failed : BOOLEAN, result : 0..MaxTasks]

\* A StageTask and the pool thread that runs it.
TaskRecord == [stage : Stage, input : 0..MaxTasks,
               thread : {"none", "running", "closing", "returned"},
               outcome : {"none", "full", "empty", "throws"}]

NewStage == [task |-> NoTask, done |-> FALSE, failed |-> FALSE, result |-> NoResult]

\* setupIndexBuildingWorkflow: two stages, the second depends on the first.
IndexBuilding == [status |-> "Pending", stages |-> [s \in Stage |-> NewStage], completed |-> 0]

NewManager == [task |-> <<>>, queue |-> [s \in Stage |-> <<>>],
               tracked |-> {}, running |-> {}, inbox |-> <<>>]

Init ==
    /\ flow = [w \in Workflow |-> [IndexBuilding EXCEPT !.status = "None"]]
    /\ mgr = [w \in Workflow |-> NewManager]
    /\ active = {}
    /\ leaving = {}
    /\ stored = [w \in Workflow |-> <<>>]
    /\ told = [w \in Workflow |-> 0]
    /\ joining = Nobody
    /\ lost = {}
    /\ crashed = FALSE

-----------------------------------------------------------------------------
(* StageBasedTaskManager: each operator is what one call leaves of the     *)
(* manager m.                                                              *)

\* createStageTask: connected to the manager, not yet on any thread.
NewTask(s, input) == [stage |-> s, input |-> input, thread |-> "none", outcome |-> "none"]

\* createDataParserTask, createEmbeddingTask: the task is made, tracked and
\* put into the queue of its stage; every task of a stage has one priority.
CreateTask(m, s, input) ==
    LET t == Len(m.task) + 1
    IN  [m EXCEPT !.task = Append(@, NewTask(s, input)),
                  !.tracked = @ \cup {t},
                  !.queue[s] = Append(@, t)]

\* canStartStageTask: QThreadPool::activeThreadCount against its maximum.
CanStartStageTask(m, s) ==
    Cardinality({t \in DOMAIN m.task :
        m.task[t].stage = s /\ m.task[t].thread \in {"running", "closing"}}) < PoolSize[s]

\* selectNextTaskFromQueue
NextTask(m, s) == Head(m.queue[s])

\* scheduleNextStageTask: at most one task starts; an id whose task is gone is
\* taken out of the queue and nothing starts.
ScheduleNextStageTask(m, s) ==
    IF ~CanStartStageTask(m, s) \/ m.queue[s] = <<>> THEN m
    ELSE LET t == NextTask(m, s)
             rest == [m EXCEPT !.queue[s] = Tail(@)]
         IN  IF t \in m.tracked
             THEN [rest EXCEPT !.running = @ \cup {t}, !.task[t].thread = "running"]
             ELSE rest

\* The task's status: Completed is set before the report is posted, Failed
\* after it.
HasEnded(m, t) ==
    \/ m.task[t].thread = "returned"
    \/ m.task[t].thread = "closing" /\ m.task[t].outcome # "throws"

Ended(m) == {t \in m.tracked : HasEnded(m, t)}

\* cleanupCompletedTasks destroys every task that has ended.
CleanupCompletedTasks(m) ==
    [m EXCEPT !.tracked = @ \ Ended(m), !.running = @ \ Ended(m)]

\* onStageTaskCompleted and onStageTaskError after the signal they emit.
Forget(m, t) == [m EXCEPT !.running = @ \ {t}, !.tracked = @ \ {t}]

-----------------------------------------------------------------------------
(* WorkflowOrchestrator and VectorDb                                       *)

\* The event loop of the thread is not held up by a destructor.
Free == joining = Nobody /\ ~crashed

IsStageReady(f, s) == s = Embedding => f.stages[Parsing].done

AnyStatus(f) == TRUE                                             \* mutant
\* processNextStage returns unless the workflow is running.
MayAdvance(f) == f.status = "Running"

\* The stages processNextStage may start; it takes the first of them.
StartableStages(f) ==
    {s \in Stage : /\ MayAdvance(f)
                   /\ ~f.stages[s].done /\ ~f.stages[s].failed
                   /\ IsStageReady(f, s)}

FirstOf(S) == CHOOSE s \in S : \A u \in S : s <= u

\* getStageResultsFromPrevious: embedding takes the chunks parsing left.
InputOf(f, s) == IF s = Embedding THEN f.stages[Parsing].result ELSE NoResult

\* processNextStage when nothing is left to start.
Concluded(f) ==
    LET all == \A s \in Stage : f.stages[s].done
        any == \E s \in Stage : f.stages[s].failed
    IN  IF MayAdvance(f) /\ (all \/ any)
        THEN [f EXCEPT !.status = IF any THEN "Failed" ELSE "Completed"]
        ELSE f

\* collectWorkflowResults
Results(f) == [chunks |-> f.stages[Parsing].result, vectors |-> f.stages[Embedding].result]

Keep == UNCHANGED <<stored, told, leaving>>

AnnounceSuccess(w, f) ==                                         \* mutant
    /\ leaving' = IF w \in active /\ f.status = "Completed" THEN leaving \cup {w} ELSE leaving
    /\ \/ /\ w \in active /\ f.status = "Completed"
          /\ stored' = [stored EXCEPT ![w] = Append(@, Results(f))]
          /\ told' \in {told, [told EXCEPT ![w] = @ + 1]}
       \/ ~(w \in active /\ f.status = "Completed") /\ UNCHANGED <<stored, told>>

\* workflowCompleted, VectorDb::onWorkflowCompleted: results there are only
\* after success; storing them may fail, and the client hears of a build only
\* when it did not. The workflow is unregistered by the next event loop.
Announce(w, f) ==
    /\ leaving' = IF w \in active THEN leaving \cup {w} ELSE leaving
    /\ \/ /\ w \in active /\ f.status = "Completed"
          /\ stored' = [stored EXCEPT ![w] = Append(@, Results(f))]
          /\ told' \in {told, [told EXCEPT ![w] = @ + 1]}
       \/ ~(w \in active /\ f.status = "Completed") /\ UNCHANGED <<stored, told>>

\* What the manager's handler does after its signal: the reported task t is
\* let go and its stage may start another; other callers have no task.
Leave(m, t) == IF t = NoTask THEN m ELSE ScheduleNextStageTask(Forget(m, t), m.task[t].stage)

\* startStage: the stage gets a task of its own, a new one if it had one.
StartStage(w, f, s, m, reported) ==
    LET created == CreateTask(m, s, InputOf(f, s))
    IN  /\ flow' = [flow EXCEPT ![w] = [f EXCEPT !.stages[s].task = Len(created.task)]]
        /\ mgr' = [mgr EXCEPT ![w] = Leave(created, reported)]
        /\ Keep

\* processNextStage: the next stage starts, or the workflow may be over.
ProcessNextStage(w, f, m, reported) ==
    IF StartableStages(f) # {}
    THEN StartStage(w, f, FirstOf(StartableStages(f)), m, reported)
    ELSE /\ flow' = [flow EXCEPT ![w] = Concluded(f)]
         /\ mgr' = [mgr EXCEPT ![w] = Leave(m, reported)]
         /\ IF Concluded(f) # f THEN Announce(w, Concluded(f)) ELSE Keep

\* startWorkflow
StartWorkflow(f) == [f EXCEPT !.status = "Running"]

\* VectorDb::buildIndex with documents to build: create, register, start.
BuildIndex(w) ==
    /\ Free
    /\ flow[w].status = "None"
    /\ active' = active \cup {w}
    /\ ProcessNextStage(w, StartWorkflow(IndexBuilding), NewManager, NoTask)
    /\ UNCHANGED <<joining, lost, crashed>>

\* pauseWorkflow: only the status changes, tasks go on.
PauseWorkflow(w) ==
    /\ Free
    /\ w \in active /\ flow[w].status = "Running"
    /\ flow' = [flow EXCEPT ![w].status = "Paused"]
    /\ UNCHANGED <<mgr, active, leaving, stored, told, joining, lost, crashed>>

\* resumeWorkflow: a stage in progress is started again with a task of its own.
ResumeWorkflow(w) ==
    /\ Free
    /\ w \in active /\ flow[w].status = "Paused"
    /\ Len(mgr[w].task) < MaxTasks - 1
    /\ ProcessNextStage(w, [flow[w] EXCEPT !.status = "Running"], mgr[w], NoTask)
    /\ UNCHANGED <<active, joining, lost, crashed>>

\* cancelWorkflow: a failed workflow can be cancelled too.
CancelWorkflow(w) ==
    /\ Free
    /\ w \in active /\ flow[w].status \notin {"Completed", "Cancelled"}
    /\ flow' = [flow EXCEPT ![w].status = "Cancelled"]
    /\ Announce(w, flow'[w])
    /\ UNCHANGED <<mgr, active, joining, lost, crashed>>

AnyTaskOfStage(f, s, t) == TRUE                                  \* mutant
\* onStageTaskCompleted looks for the stage whose task this is: a task that
\* was replaced belongs to none.
IsCurrent(f, s, t) == f.stages[s].task = t

\* validateStageResults: both stages must have produced something.
ValidResults(o) == o = "full"

\* completeStage
CompleteStage(f, s, result) ==
    [f EXCEPT !.stages[s].done = TRUE, !.stages[s].result = result, !.completed = @ + 1]

\* failStage: the status is overwritten whatever it was.
FailStage(f, s) == [f EXCEPT !.stages[s].failed = TRUE, !.status = "Failed"]

\* What the task of stage s computed.
ResultOf(m, t) == IF m.task[t].stage = Parsing THEN t ELSE m.task[t].input

\* The queued report of a pool thread reaches the manager. The report of a
\* task that was swept is ignored.
Deliver(w) ==
    /\ Free
    /\ mgr[w].inbox # <<>>
    /\ LET t == Head(mgr[w].inbox)
           m == [mgr[w] EXCEPT !.inbox = Tail(@)]
           s == m.task[t].stage
           f == flow[w]
       IN  IF t \notin m.tracked
           THEN mgr' = [mgr EXCEPT ![w] = m] /\ Keep /\ UNCHANGED flow
           ELSE IF ~IsCurrent(f, s, t)
           THEN mgr' = [mgr EXCEPT ![w] = Leave(m, t)] /\ Keep /\ UNCHANGED flow
           ELSE IF ValidResults(m.task[t].outcome)
           THEN ProcessNextStage(w, CompleteStage(f, s, ResultOf(m, t)), m, t)
           ELSE /\ flow' = [flow EXCEPT ![w] = FailStage(f, s)]
                /\ mgr' = [mgr EXCEPT ![w] = Leave(m, t)]
                /\ Announce(w, FailStage(f, s))
    /\ UNCHANGED <<active, joining, lost, crashed>>

\* processStageQueues, every second: one task per stage may start, then the
\* ended ones are swept.
ProcessStageQueues(w) ==
    /\ Free
    /\ w \in active
    /\ LET started == ScheduleNextStageTask(ScheduleNextStageTask(mgr[w], Parsing), Embedding)
           awaited == {t \in Ended(started) : \E s \in Stage :
                          flow[w].stages[s].task = t /\ ~flow[w].stages[s].done}
       IN  /\ mgr' = [mgr EXCEPT ![w] = CleanupCompletedTasks(started)]
           /\ lost' = IF awaited # {} THEN lost \cup {w} ELSE lost
    /\ UNCHANGED <<flow, active, leaving, stored, told, joining, crashed>>

\* unregisterWorkflow: the last reference goes, the orchestrator, its manager
\* and the tasks are destroyed, then the pools are waited for.
UnregisterWorkflow(w) ==
    /\ Free
    /\ w \in leaving
    /\ leaving' = leaving \ {w}
    /\ active' = active \ {w}
    /\ mgr' = [mgr EXCEPT ![w].tracked = {}, ![w].running = {}, ![w].inbox = <<>>,
                          ![w].queue = [s \in Stage |-> <<>>]]
    /\ joining' = w
    /\ UNCHANGED <<flow, stored, told, lost, crashed>>

\* QThreadPool's destructor returns when no thread of the workflow is left.
JoinDone ==
    /\ joining # Nobody /\ ~crashed
    /\ \A t \in DOMAIN mgr[joining].task : mgr[joining].task[t].thread \notin {"running", "closing"}
    /\ joining' = Nobody
    /\ UNCHANGED <<flow, mgr, active, leaving, stored, told, lost, crashed>>

-----------------------------------------------------------------------------
(* The pool threads                                                        *)

\* DataParserTask::executeStage: a file that cannot be read, parsed or cut into
\* chunks is left out; the result is empty when every file is.
ParserOutcomes == Outcomes \cap {"full", "empty", "throws"}

\* EmbeddingTask::executeStage: one request per batch; the result is empty
\* unless there are as many embeddings as chunks.
EmbeddingOutcomes == Outcomes \cap {"full", "empty", "throws"}

\* StageTask::executeTask and executeInternal up to setStatus(Completed), or up
\* to the report of what was thrown.
Execute(w, t) ==
    /\ ~crashed
    /\ t \in mgr[w].tracked
    /\ mgr[w].task[t].thread = "running"
    /\ \E o \in IF mgr[w].task[t].stage = Parsing THEN ParserOutcomes ELSE EmbeddingOutcomes :
        mgr' = [mgr EXCEPT ![w].task[t].thread = "closing", ![w].task[t].outcome = o,
                           ![w].inbox = IF o = "throws" THEN Append(@, t) ELSE @]
    /\ UNCHANGED <<flow, active, leaving, stored, told, joining, lost, crashed>>

\* The rest of executeInternal: taskCompleted is posted, or Failed is set.
Report(w, t) ==
    /\ ~crashed
    /\ t \in mgr[w].tracked
    /\ mgr[w].task[t].thread = "closing"
    /\ mgr' = [mgr EXCEPT ![w].task[t].thread = "returned",
                          ![w].inbox = IF mgr[w].task[t].outcome = "throws" THEN @ ELSE Append(@, t)]
    /\ UNCHANGED <<flow, active, leaving, stored, told, joining, lost, crashed>>

\* The thread goes on with a task that was destroyed under it: whatever it
\* emits reaches nobody, and the process may die of it.
Orphaned(w, t) ==
    /\ ~crashed
    /\ t \notin mgr[w].tracked
    /\ mgr[w].task[t].thread \in {"running", "closing"}
    /\ mgr' = [mgr EXCEPT ![w].task[t].thread = "returned"]
    /\ crashed' \in BOOLEAN
    /\ UNCHANGED <<flow, active, leaving, stored, told, joining, lost>>

PoolThread(w, t) == Execute(w, t) \/ Report(w, t) \/ Orphaned(w, t)
PoolStep(w) == \E t \in DOMAIN mgr[w].task : PoolThread(w, t)

Next ==
    \/ \E w \in Workflow :
        \/ BuildIndex(w)
        \/ PauseWorkflow(w) \/ ResumeWorkflow(w) \/ CancelWorkflow(w)
        \/ Deliver(w) \/ ProcessStageQueues(w) \/ UnregisterWorkflow(w)
        \/ PoolStep(w)
    \/ JoinDone

Spec == Init /\ [][Next]_vars

\* The event loop takes every posted event and every timer in time, and pool
\* threads run; nobody has to ask for anything.
Fairness ==
    /\ \A w \in Workflow :
        /\ WF_vars(Deliver(w)) /\ WF_vars(ProcessStageQueues(w))
        /\ WF_vars(UnregisterWorkflow(w)) /\ WF_vars(PoolStep(w))
    /\ WF_vars(JoinDone)

FairSpec == Spec /\ Fairness

-----------------------------------------------------------------------------
(* Properties                                                              *)

Manager == [task : Seq(TaskRecord), queue : [Stage -> Seq(Id)], tracked : SUBSET Id,
            running : SUBSET Id, inbox : Seq(Id)]

\* The variables have their types, and the manager only speaks of tasks it
\* made.
WorkflowTypeOK ==
    /\ flow \in [Workflow -> [status : Status, stages : [Stage -> StageRecord], completed : 0..2]]
    /\ mgr \in [Workflow -> Manager]
    /\ \A w \in Workflow :
        /\ mgr[w].running \subseteq mgr[w].tracked
        /\ mgr[w].tracked \subseteq DOMAIN mgr[w].task
    /\ active \subseteq Workflow /\ leaving \subseteq active
    /\ stored \in [Workflow -> Seq([chunks : Id, vectors : Id])]
    /\ told \in [Workflow -> 0..1]
    /\ joining \in Workflow \cup {Nobody}
    /\ lost \subseteq Workflow
    /\ crashed \in BOOLEAN

\* The vectors a build stores are those of the chunks it stores, however often
\* a stage was started again (processIndexBuildWorkflowRestults pairs Task_0
\* and Task_1 without looking).
VectorsMatchChunks ==
    \A w \in Workflow : \A i \in DOMAIN stored[w] : stored[w][i].vectors = stored[w][i].chunks

\* m_completedStages, which the progress signal and getOverallProgress divide
\* by the total, is the number of completed stages.
CompletedStagesCounted ==
    \A w \in Workflow :
        flow[w].completed = Cardinality({s \in Stage : flow[w].stages[s].done})

\* A running workflow waits for a task that can still report: it is queued, on
\* a thread, or its report is posted, unless the timer swept it.
RunningAwaitsTask ==
    \A w \in Workflow :
        flow[w].status = "Running" /\ w \notin lost =>
            \E s \in Stage :
                LET t == flow[w].stages[s].task IN
                /\ ~flow[w].stages[s].done
                /\ t \in mgr[w].tracked
                /\ \/ mgr[w].task[t].thread = "none" /\ \E i \in DOMAIN mgr[w].queue[s] : mgr[w].queue[s][i] = t
                   \/ mgr[w].task[t].thread \in {"running", "closing"}
                   \/ \E i \in DOMAIN mgr[w].inbox : mgr[w].inbox[i] = t

Fate(w) ==
    IF stored[w] # <<>> THEN "stored"
    ELSE IF flow[w].status = "None" THEN "unasked"
    ELSE IF flow[w].status \in {"Failed", "Cancelled"} THEN "given up"
    ELSE "open"

Fates == [w \in Workflow |-> Fate(w)]

Promise == INSTANCE BuildPromise WITH build <- Fates

\* A build stores its results at most once, and a cancelled or failed one
\* never does, although its tasks go on and report.
KeepsPromise == Promise!Spec

HasFinished(w) == flow[w].status \in {"Completed", "Failed", "Cancelled"}

\* A started build comes to an end unless it is paused or the timer swept its
\* task before the report was handled.
BuildsEnd ==
    \A w \in Workflow :
        flow[w].status = "Running" ~> HasFinished(w) \/ flow[w].status = "Paused" \/ w \in lost \/ crashed

\* A workflow that ended leaves m_activeWorkflows (isRunning looks at it).
FinishedLeave == \A w \in Workflow : HasFinished(w) ~> w \notin active \/ crashed

\* The orchestrator's books agree with the manager's tasks: the stages done are
\* counted, a running build waits for a task that can report, and the results it
\* pairs are those of one chunking.
StagesAgree ==
    WorkflowTypeOK /\ VectorsMatchChunks /\ CompletedStagesCounted /\ RunningAwaitsTask

\* A build ends, and leaves m_activeWorkflows when it did.
BuildsEndAndLeave == BuildsEnd /\ FinishedLeave
=============================================================================
