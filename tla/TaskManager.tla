---------------------------- MODULE TaskManager ----------------------------
(***************************************************************************)
(* The daemon's TaskManager: one waiting queue per service type, limits on *)
(* the tasks of one (type, deployment) that run together, and the thread   *)
(* pools that run the executors.                                           *)
(*                                                                         *)
(* TaskManager lives on the sessionWorker thread, and so do the sessions   *)
(* that call it: addTask, the cancel calls, dispatchTasks and              *)
(* updateTaskState run there, one at a time (variable tm is that thread's  *)
(* place in dispatchTasks). The pool threads run beside it: they post      *)
(* updateTaskState to it and adjust the throttle under taskMutex.          *)
(* dispatchTasks holds taskMutex while it collects, so no throttle         *)
(* adjustment falls between two iterations of the collecting loop; every   *)
(* other critical section is one action.                                   *)
(*                                                                         *)
(* pendingDispatchCount is left out: dispatchTasks is only ever invoked    *)
(* through the event queue of one thread and runs no event loop, so the    *)
(* counter is 0 at each entry and the early return is never taken.         *)
(***************************************************************************)
EXTENDS ResponsiveThrottle, Sequences, FiniteSets

CONSTANTS
    Task,            \* task ids (generateUniqueTaskId never repeats one)
    Type,            \* AITypes::ServiceType values, e.g. Chat = 100
    Pool,            \* ThreadPoolManager::PoolType
    PoolSize,        \* maxThreadCount of each pool
    TypeOf,          \* task.taskType
    Model,           \* model names
    Installable,     \* models the modelhub can have installed
    ModelOf,         \* task.modelName
    Throttled,       \* types whose cloud key DBusServer::start throttles
    LimitChoices,    \* values setLocalModelLimit may be called with
    Results,         \* outcomes the executors may end with
    Used             \* optional calls the environment makes, see Calls

\* CPU-intensive types go to the CPUBound pool, all others to General.
PoolFor(ty) ==
    IF ty \in {400, 402, 403, 304, 305} THEN "CPUBound" ELSE "General"

ASSUME TaskManagerAssumption ==
    /\ IsFiniteSet(Task)
    /\ Type \subseteq Nat
    /\ IsFiniteSet(Type)
    /\ PoolSize \in [Pool -> Nat \ {0}]
    /\ \A ty \in Type : PoolFor(ty) \in Pool
    /\ TypeOf \in [Task -> Type]
    /\ ModelOf \in [Task -> Model]
    /\ Installable \subseteq Model
    /\ LimitChoices \subseteq Nat
    /\ Results \subseteq Outcome

VARIABLES
    installed,   \* models ModelhubWrapper::isModelInstalled answers yes for
    status,      \* allTasks[t].status, "New" before addTask
    deploy,      \* allTasks[t].deployType
    queue,       \* waitingQueues
    cancelled,   \* cancelledTasks
    counter,     \* currentTasksByDeploy
    limit,       \* defaultConcurrencyLimits, the Local entries
    throttle,    \* throttlingStates, the Cloud entries
    running,     \* keys of runningTasks
    tm,          \* where the TaskManager thread stands in dispatchTasks
    scan,        \* types the collecting loop has still to visit
    batch,       \* tasksToExecute
    events,      \* slots posted to the TaskManager thread, in order
    poolQueue,   \* runnables QThreadPool has not started, per pool
    exec,        \* how far the runnable of a task has got
    outcome,     \* what the executor ended with, until it is reported
    finished,    \* taskCompleted or taskFailed signals emitted per task
    cancelNotes  \* taskCancelled signals emitted per task

dispatchVars == <<tm, scan, batch>>
poolVars == <<poolQueue, exec, outcome>>
vars == <<installed, status, deploy, queue, cancelled, counter, limit,
          throttle, running, tm, scan, batch, events, poolQueue, exec,
          outcome, finished, cancelNotes>>

Deploy == {"Local", "Cloud"}
TaskStatus == {"New", "Pending", "Running", "Completed", "Failed", "Cancelled"}
ExecStage == {"none", "queued", "executing", "posted", "done"}
\* "output" is posted by streaming executors to their session, which shares
\* the thread and hence its event queue; TaskManager itself never posts one.
Event == [kind : {"dispatch", "update", "output"}, task : Task \cup {0}, ok : BOOLEAN]

DispatchEvent == [kind |-> "dispatch", task |-> 0, ok |-> TRUE]
UpdateEvent(t, ok) == [kind |-> "update", task |-> t, ok |-> ok]

\* The constructor's table of local limits, 4 for every other type.
DefaultLimit(ty) ==
    CASE ty \in {101, 304} -> 1          \* FunctionCalling, ImageGeneration
      [] ty \in {100, 200, 201} -> 2     \* Chat, TextToSpeech, SpeechToText
      [] ty = 303 -> 3                   \* OCR
      [] ty = 402 -> 6                   \* VectorSearch
      [] OTHER -> 4                      \* TextEmbedding, and the fallback

\* A model is local when ModelhubWrapper finds it installed, whichever
\* provider was named; everything else is a cloud model.
DetectModelDeployType(t) ==
    IF ModelOf[t] \in installed THEN "Local" ELSE "Cloud"

\* The key of currentTasksByDeploy and of the limits: the deployment is the one
\* detected when the task was added.
Key == Type \X Deploy
RedetectedKeyOf(t) == <<TypeOf[t], DetectModelDeployType(t)>>   \* mutant
KeyOf(t) == <<TypeOf[t], deploy[t]>>

\* Below the limit of its key; cloud keys without throttling have none.
CanDispatchOneMore(t) ==                                        \* mutant
    LET n == counter[KeyOf(t)]
    IN  IF deploy[t] = "Cloud"
        THEN throttle[TypeOf[t]].enabled => n <= throttle[TypeOf[t]].conc
        ELSE n <= limit[TypeOf[t]]

CanDispatch(t) ==
    LET n == counter[KeyOf(t)]
    IN  IF deploy[t] = "Cloud"
        THEN throttle[TypeOf[t]].enabled => n < throttle[TypeOf[t]].conc
        ELSE n < limit[TypeOf[t]]

Init ==
    /\ installed \in SUBSET Installable
    /\ status = [t \in Task |-> "New"]
    /\ deploy = [t \in Task |-> "Cloud"]
    /\ queue = [ty \in Type |-> <<>>]
    /\ cancelled = {}
    /\ counter = [k \in Key |-> 0]
    /\ limit = [ty \in Type |-> DefaultLimit(ty)]
    /\ throttle = [ty \in Type |-> InitialThrottlingState(ty \in Throttled)]
    /\ running = {}
    /\ tm = "idle"
    /\ scan = {}
    /\ batch = <<>>
    /\ events = <<>>
    /\ poolQueue = [p \in Pool |-> <<>>]
    /\ exec = [t \in Task |-> "none"]
    /\ outcome = [t \in Task |-> "ok"]
    /\ finished = [t \in Task |-> 0]
    /\ cancelNotes = [t \in Task |-> 0]

-----------------------------------------------------------------------------
(* Calls made on the TaskManager thread by the sessions                    *)

\* The thread is at its event loop: nothing called from dispatchTasks or
\* updateTaskState runs a nested one.
NestedLoop == tm \in {"idle", "collect", "submit", "track"}     \* mutant
Idle == tm = "idle"

\* The event queue once a dispatch was posted.
TriggeredWhenQuiet ==                                           \* mutant
    IF events = <<>> THEN <<DispatchEvent>> ELSE events
Triggered == Append(events, DispatchEvent)

\* addTask: the task is stored Pending under its detected deployment, queued
\* behind the tasks of its type, and a dispatch is posted.
AddTask(t) ==
    /\ Idle
    /\ status[t] = "New"
    /\ status' = [status EXCEPT ![t] = "Pending"]
    /\ deploy' = [deploy EXCEPT ![t] = DetectModelDeployType(t)]
    /\ queue' = [queue EXCEPT ![TypeOf[t]] = Append(@, t)]
    /\ events' = Triggered
    /\ UNCHANGED <<installed, cancelled, counter, limit, throttle, running,
                   finished, cancelNotes>>
    /\ UNCHANGED dispatchVars /\ UNCHANGED poolVars

\* The tasks of S that cancelTask records in cancelledTasks.
RecordedRunning(S) == {t \in S : status[t] = "Running"}         \* mutant
Recorded(S) == {t \in S : status[t] \in {"Pending", "Running"}}

\* cancelTask on each of S: a Pending task becomes Cancelled at once but stays
\* queued; a Running one is only recorded in cancelledTasks.
CancelTasks(S) ==
    LET pending == {t \in S : status[t] = "Pending"}
    IN  /\ Idle
        /\ cancelled' = cancelled \cup Recorded(S)
        /\ status' = [t \in Task |-> IF t \in pending THEN "Cancelled" ELSE status[t]]
        /\ cancelNotes' = [t \in Task |-> IF t \in pending THEN cancelNotes[t] + 1
                                                           ELSE cancelNotes[t]]
        /\ UNCHANGED <<installed, deploy, queue, counter, limit, throttle,
                       running, events, finished>>
        /\ UNCHANGED dispatchVars /\ UNCHANGED poolVars

CancelTask(t) ==
    /\ status[t] \in {"Pending", "Running"}
    /\ t \notin cancelled
    /\ CancelTasks({t})

QueuedTasks(ty) == {queue[ty][i] : i \in 1..Len(queue[ty])}

\* cancelTasksByType: empties the queue of the type, marking every task in it
\* Cancelled, and records the running ones.
CancelTasksByType(ty) ==
    LET dropped == QueuedTasks(ty)
        busy == {t \in Task : TypeOf[t] = ty /\ status[t] = "Running"}
    IN  /\ Idle
        /\ dropped \cup busy # {}
        /\ queue' = [queue EXCEPT ![ty] = <<>>]
        /\ cancelled' = cancelled \cup dropped \cup busy
        /\ status' = [t \in Task |-> IF t \in dropped THEN "Cancelled" ELSE status[t]]
        /\ cancelNotes' = [t \in Task |-> IF t \in dropped THEN cancelNotes[t] + 1
                                                           ELSE cancelNotes[t]]
        /\ UNCHANGED <<installed, deploy, counter, limit, throttle, running,
                       events, finished>>
        /\ UNCHANGED dispatchVars /\ UNCHANGED poolVars

SetLocalModelLimit(ty, n) ==
    /\ Idle
    /\ limit' = [limit EXCEPT ![ty] = n]
    /\ UNCHANGED <<installed, status, deploy, queue, cancelled, counter,
                   throttle, running, events, finished, cancelNotes>>
    /\ UNCHANGED dispatchVars /\ UNCHANGED poolVars

EnableResponsiveThrottling(ty, on) ==
    /\ Idle
    /\ throttle' = [throttle EXCEPT ![ty].enabled = on]
    /\ UNCHANGED <<installed, status, deploy, queue, cancelled, counter,
                   limit, running, events, finished, cancelNotes>>
    /\ UNCHANGED dispatchVars /\ UNCHANGED poolVars

-----------------------------------------------------------------------------
(* dispatchTasks, on the TaskManager thread                                *)

\* The loop of collectTasksToExecute visits the types in ascending order.
Current == CHOOSE ty \in scan : \A other \in scan : ty <= other
HeadTask == Head(queue[Current])

StartDispatch ==
    /\ Idle
    /\ events # <<>>
    /\ Head(events).kind = "dispatch"
    /\ events' = Tail(events)
    /\ tm' = "collect"
    /\ scan' = Type
    /\ UNCHANGED <<installed, status, deploy, queue, cancelled, counter, limit,
                   throttle, running, batch, finished, cancelNotes>>
    /\ UNCHANGED poolVars

\* The type's queue is empty, or its head must wait for the limit.
LeaveType ==
    /\ tm = "collect"
    /\ scan # {}
    /\ queue[Current] # <<>> => HeadTask \notin cancelled /\ ~CanDispatch(HeadTask)
    /\ scan' = scan \ {Current}
    /\ UNCHANGED <<installed, status, deploy, queue, cancelled, counter, limit,
                   throttle, running, tm, batch, events, finished, cancelNotes>>
    /\ UNCHANGED poolVars

\* A head that was cancelled is taken out and reported once more.
DropCancelled ==
    /\ tm = "collect"
    /\ scan # {}
    /\ queue[Current] # <<>>
    /\ HeadTask \in cancelled
    /\ queue' = [queue EXCEPT ![Current] = Tail(@)]
    /\ cancelled' = cancelled \ {HeadTask}
    /\ status' = [status EXCEPT ![HeadTask] = "Cancelled"]
    /\ cancelNotes' = [cancelNotes EXCEPT ![HeadTask] = @ + 1]
    /\ UNCHANGED <<installed, deploy, counter, limit, throttle, running,
                   events, finished>>
    /\ UNCHANGED dispatchVars /\ UNCHANGED poolVars

\* A head under its limit becomes Running and is counted.
TakeTask ==
    /\ tm = "collect"
    /\ scan # {}
    /\ queue[Current] # <<>>
    /\ HeadTask \notin cancelled
    /\ CanDispatch(HeadTask)
    /\ queue' = [queue EXCEPT ![Current] = Tail(@)]
    /\ status' = [status EXCEPT ![HeadTask] = "Running"]
    /\ counter' = [counter EXCEPT ![KeyOf(HeadTask)] = @ + 1]
    /\ batch' = Append(batch, HeadTask)
    /\ UNCHANGED <<installed, deploy, cancelled, limit, throttle, running, tm,
                   scan, events, finished, cancelNotes>>
    /\ UNCHANGED poolVars

EndCollect ==
    /\ tm = "collect"
    /\ scan = {}
    /\ tm' = "submit"
    /\ UNCHANGED <<installed, status, deploy, queue, cancelled, counter, limit,
                   throttle, running, scan, batch, events, finished, cancelNotes>>
    /\ UNCHANGED poolVars

\* executeTaskAsync, first half: the runnable is handed to its pool.
SubmitTask ==
    /\ tm = "submit"
    /\ batch # <<>>
    /\ poolQueue' = [poolQueue EXCEPT ![PoolFor(TypeOf[Head(batch)])] =
                        Append(@, Head(batch))]
    /\ exec' = [exec EXCEPT ![Head(batch)] = "queued"]
    /\ tm' = "track"
    /\ UNCHANGED <<installed, status, deploy, queue, cancelled, counter, limit,
                   throttle, running, scan, batch, events, outcome, finished,
                   cancelNotes>>

\* executeTaskAsync, second half: by then the runnable may have finished.
TrackTask ==
    /\ tm = "track"
    /\ running' = running \cup {Head(batch)}
    /\ batch' = Tail(batch)
    /\ tm' = "submit"
    /\ UNCHANGED <<installed, status, deploy, queue, cancelled, counter, limit,
                   throttle, scan, events, finished, cancelNotes>>
    /\ UNCHANGED poolVars

EndDispatch ==
    /\ tm = "submit"
    /\ batch = <<>>
    /\ tm' = "idle"
    /\ UNCHANGED <<installed, status, deploy, queue, cancelled, counter, limit,
                   throttle, running, scan, batch, events, finished, cancelNotes>>
    /\ UNCHANGED poolVars

\* updateTaskState, posted by the pool thread: the outcome overwrites whatever
\* status the task has, the slot of its key is given back, and the sessions
\* are told.
UpdateTaskState ==
    LET t == Head(events).task
    IN  /\ Idle
        /\ events # <<>>
        /\ Head(events).kind = "update"
        /\ events' = Tail(events)
        /\ status' = [status EXCEPT ![t] = IF Head(events).ok THEN "Completed"
                                                              ELSE "Failed"]
        /\ counter' = [counter EXCEPT ![KeyOf(t)] = @ - 1]
        /\ running' = running \ {t}
        /\ finished' = [finished EXCEPT ![t] = @ + 1]
        /\ UNCHANGED <<installed, deploy, queue, cancelled, limit, throttle,
                       cancelNotes>>
        /\ UNCHANGED dispatchVars /\ UNCHANGED poolVars

-----------------------------------------------------------------------------
(* The pool threads                                                        *)

BusyThreads(p) ==
    {t \in Task : PoolFor(TypeOf[t]) = p /\ exec[t] \in {"executing", "posted"}}

StartRunnable(p) ==
    /\ poolQueue[p] # <<>>
    /\ Cardinality(BusyThreads(p)) < PoolSize[p]
    /\ exec' = [exec EXCEPT ![Head(poolQueue[p])] = "executing"]
    /\ poolQueue' = [poolQueue EXCEPT ![p] = Tail(@)]
    /\ UNCHANGED <<installed, status, deploy, queue, cancelled, counter, limit,
                   throttle, running, events, outcome, finished, cancelNotes>>
    /\ UNCHANGED dispatchVars

\* The event queue once the end of a task was posted.
PostedTwice(t, ok) == Append(Append(events, UpdateEvent(t, ok)), UpdateEvent(t, ok))   \* mutant
Posted(t, ok) == Append(events, UpdateEvent(t, ok))

\* The executor returns or throws; the status update is posted.
ExecutorEnds(t, result) ==
    /\ exec[t] = "executing"
    /\ exec' = [exec EXCEPT ![t] = "posted"]
    /\ outcome' = [outcome EXCEPT ![t] = result]
    /\ events' = Posted(t, result = "ok")
    /\ UNCHANGED <<installed, status, deploy, queue, cancelled, counter, limit,
                   throttle, running, poolQueue, finished, cancelNotes>>
    /\ UNCHANGED dispatchVars

\* reportTaskResult, still on the pool thread, then the thread is free.
ReportTaskResult(t) ==
    LET ty == TypeOf[t]
    IN  /\ exec[t] = "posted"
        /\ deploy[t] = "Cloud" /\ throttle[ty].enabled => tm # "collect"
        /\ throttle' = IF deploy[t] = "Cloud"
                       THEN [throttle EXCEPT ![ty] = AdjustConcurrency(@, outcome[t])]
                       ELSE throttle
        /\ exec' = [exec EXCEPT ![t] = "done"]
        /\ outcome' = [outcome EXCEPT ![t] = "ok"]
        /\ UNCHANGED <<installed, status, deploy, queue, cancelled, counter,
                       limit, running, events, poolQueue, finished, cancelNotes>>
        /\ UNCHANGED dispatchVars

CooldownElapses(ty) ==
    /\ throttle[ty].cooling
    /\ throttle' = [throttle EXCEPT ![ty] = CooldownOver(@)]
    /\ UNCHANGED <<installed, status, deploy, queue, cancelled, counter, limit,
                   running, events, finished, cancelNotes>>
    /\ UNCHANGED dispatchVars /\ UNCHANGED poolVars

\* External: a model is installed or removed by its own package.
ChangeInstalled(m) ==
    /\ installed' = IF m \in installed THEN installed \ {m} ELSE installed \cup {m}
    /\ UNCHANGED <<status, deploy, queue, cancelled, counter, limit, throttle,
                   running, events, finished, cancelNotes>>
    /\ UNCHANGED dispatchVars /\ UNCHANGED poolVars

-----------------------------------------------------------------------------
Dispatching ==
    \/ StartDispatch \/ LeaveType \/ DropCancelled \/ TakeTask \/ EndCollect
    \/ SubmitTask \/ TrackTask \/ EndDispatch \/ UpdateTaskState

PoolThreads ==
    \/ \E p \in Pool : StartRunnable(p)
    \/ \E t \in Task : (\E r \in Results : ExecutorEnds(t, r)) \/ ReportTaskResult(t)

\* addTask is always used; Used bounds the rest of the public interface.
Calls ==
    \/ \E t \in Task : AddTask(t)
    \/ "cancelTask" \in Used /\ \E t \in Task : CancelTask(t)
    \/ "cancelTasksByType" \in Used /\ \E ty \in Type : CancelTasksByType(ty)
    \/ "setLocalModelLimit" \in Used
         /\ \E ty \in Type, n \in LimitChoices : SetLocalModelLimit(ty, n)
    \/ "enableResponsiveThrottling" \in Used
         /\ \E ty \in Type, on \in BOOLEAN : EnableResponsiveThrottling(ty, on)

Environment ==
    \/ \E ty \in Type : CooldownElapses(ty)
    \/ "install" \in Used /\ \E m \in Installable : ChangeInstalled(m)

Next == Calls \/ Dispatching \/ PoolThreads \/ Environment

Spec == Init /\ [][Next]_vars

\* The event loop of the thread keeps running, a pool thread that is free
\* takes the next runnable, and executors return: each is a call bounded by
\* its HTTP timeout. Nothing obliges anyone to add or cancel a task.
Fairness ==
    /\ WF_vars(Dispatching)
    /\ \A p \in Pool : WF_vars(StartRunnable(p))
    /\ \A t \in Task : WF_vars(\E r \in Results : ExecutorEnds(t, r))
                       /\ WF_vars(ReportTaskResult(t))

FairSpec == Spec /\ Fairness

-----------------------------------------------------------------------------
(* Properties                                                              *)

\* Every variable has its type.
TypeOK ==
    /\ installed \subseteq Installable
    /\ status \in [Task -> TaskStatus]
    /\ deploy \in [Task -> Deploy]
    /\ queue \in [Type -> Seq(Task)]
    /\ cancelled \subseteq Task
    /\ counter \in [Key -> Int]
    /\ limit \in [Type -> Nat]
    /\ throttle \in [Type -> ThrottlingState]
    /\ running \subseteq Task
    /\ tm \in {"idle", "collect", "submit", "track"}
    /\ scan \subseteq Type
    /\ batch \in Seq(Task)
    /\ events \in Seq(Event)
    /\ poolQueue \in [Pool -> Seq(Task)]
    /\ exec \in [Task -> ExecStage]
    /\ outcome \in [Task -> Outcome]
    /\ finished \in [Task -> Nat]
    /\ cancelNotes \in [Task -> Nat]
    /\ tm = "track" => batch # <<>>

RunningOf(k) == {t \in Task : status[t] = "Running" /\ KeyOf(t) = k}

\* currentTasksByDeploy of a key is the number of its tasks whose status is
\* Running, whatever was cancelled, failed or reinstalled meanwhile: a slot is
\* neither leaked nor given back twice.
SlotsMatchRunning == \A k \in Key : counter[k] = Cardinality(RunningOf(k))

\* Tasks whose executor may still be called or is being called.
InFlight(k) ==
    {t \in Task : KeyOf(t) = k /\ (t \in {batch[i] : i \in 1..Len(batch)}
                                    \/ exec[t] \in {"queued", "executing"})}

LimitOf(k) == IF k[2] = "Local" THEN limit[k[1]] ELSE throttle[k[1]].conc
Limited(k) == k[2] = "Local" \/ throttle[k[1]].enabled

\* The concurrency limit bounds executors, not only a counter: whenever a task
\* becomes Running, fewer executors of its key than the limit are in flight.
StartsUnderLimit ==
    [][\A t \in Task :
          status[t] = "Pending" /\ status'[t] = "Running" /\ Limited(KeyOf(t))
             => Cardinality(InFlight(KeyOf(t))) < LimitOf(KeyOf(t))]_vars

Waiting(t) == status[t] = "Pending" \/ (status[t] = "Cancelled" /\ t \in cancelled)

\* A task that is Pending is in the queue of its type, once, and nowhere else:
\* cancelling, dropping and taking tasks neither loses nor duplicates one.
QueuesHoldPending ==
    /\ \A ty \in Type : \A i, j \in 1..Len(queue[ty]) :
          queue[ty][i] = queue[ty][j] => i = j
    /\ \A t \in Task : status[t] = "Pending" => t \in QueuedTasks(TypeOf[t])
    /\ \A ty \in Type : \A t \in QueuedTasks(ty) : TypeOf[t] = ty /\ Waiting(t)

\* Once taskCancelled was emitted for a task it stays Cancelled and is never
\* handed to a pool: whoever was told will see no side effect of it and hear
\* no answer for it, although it stays queued and dispatches still meet it.
CancelledNeverExecutes ==
    \A t \in Task :
       cancelNotes[t] > 0 => status[t] = "Cancelled" /\ exec[t] = "none" /\ finished[t] = 0

\* Sessions hear of a task exactly once, and only when it is over: no pool
\* thread can report a task twice, and a cancelled one is never reported.
FinishedExactlyOnce ==
    \A t \in Task : finished[t] = IF status[t] \in {"Completed", "Failed"} THEN 1 ELSE 0

\* runningTasks names exactly the Running tasks whenever the thread is between
\* two events, although the runnable may end before executeTaskAsync records it.
TrackedWhenIdle ==
    tm = "idle" => running = {t \in Task : status[t] = "Running"}

\* Every task is where its status says: a Pending one once in the queue of its
\* type, a Running one in runningTasks, and every variable has its type.
TasksAreInPlace == TypeOK /\ QueuesHoldPending /\ TrackedWhenIdle

\* Every task that was started is eventually over, in whatever order pool
\* threads, status updates, cancellations and dispatches interleave.
StartedTasksFinish ==
    \A t \in Task : status[t] = "Running" ~> status[t] \in {"Completed", "Failed"}

UnlimitedType(ty) ==
    /\ ty \notin Throttled /\ "enableResponsiveThrottling" \notin Used
    /\ \A t \in Task : TypeOf[t] = ty => ModelOf[t] \notin Installable

\* A task of a type whose tasks are all cloud tasks and not throttled never
\* waits for good: limits reached by other types do not hold it back.
UnlimitedTasksLeaveQueue ==
    \A t \in Task :
       UnlimitedType(TypeOf[t]) /\ status[t] = "Pending" ~> status[t] # "Pending"

\* What was started ends, and what nothing limits is started.
TasksProceed == StartedTasksFinish /\ UnlimitedTasksLeaveQueue

-----------------------------------------------------------------------------
(* The abstract specification                                              *)

StageOf(st) ==
    CASE st = "New" -> "new"
      [] st = "Pending" -> "waiting"
      [] st = "Running" -> "busy"
      [] st = "Cancelled" -> "dropped"
      [] OTHER -> "over"

Stages == [t \in Task |-> StageOf(status[t])]
Keys == [t \in Task |-> KeyOf(t)]
Caps == [k \in Key |-> IF Limited(k) THEN LimitOf(k) ELSE Cardinality(Task)]

Scheduling == INSTANCE TaskScheduling WITH stage <- Stages, key <- Keys, cap <- Caps

\* TaskManager implements TaskScheduling: seen through the statuses alone, its
\* queues, counters and threads only ever start a waiting task under its cap.
ImplementsScheduling == Scheduling!Spec

-----------------------------------------------------------------------------
(* What comments of the code claim                                         *)

\* Stated by the comment in addTask ("Immediately trigger task dispatch"): a
\* queued task is eventually started or cancelled.
QueuedTasksLeaveQueue ==
    \A t \in Task : status[t] = "Pending" ~> status[t] # "Pending"
=============================================================================
