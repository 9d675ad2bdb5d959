--------------------------- MODULE WorkflowProofs ---------------------------
(***************************************************************************)
(* The books of an index build agree with the tasks of its manager, and a  *)
(* build keeps its promise, for any builds, pools and bounds.              *)
(*                                                                         *)
(* That vectors are stored with their chunks needs the embedding task to   *)
(* work on the result its stage's parsing left, and every completed stage  *)
(* to have let go of its task: a second report would complete it twice.    *)
(* That a running build waits for a task that can report needs the queues  *)
(* and the posted reports of every tracked task, the replaced ones too.    *)
(*                                                                         *)
(* The chunker a build's parsing task calls, the packing of the pieces of  *)
(* a text, and a search of the embedding index have their proofs at the    *)
(* end; they share no state.                                               *)
(***************************************************************************)
EXTENDS StagedWorkflow, TextChunking, SearchMerge, SequenceLemmas, FiniteSetTheorems

Over == {"Completed", "Failed", "Cancelled"}

\* A task whose thread has nothing more to post has its report posted, and one
\* that has no thread is in the queue of its stage.
CanReport(m, t) ==
    /\ m.task[t].thread = "none" => t \in Elems(m.queue[m.task[t].stage])
    /\ m.task[t].thread = "returned" => t \in Elems(m.inbox)
    /\ m.task[t].thread = "closing" /\ m.task[t].outcome = "throws" => t \in Elems(m.inbox)

\* A manager knows what it speaks of, and has every report that is awaited but
\* that of the task t, which is being handled.
ManagerOK(m, t) ==
    /\ m \in Manager
    /\ Len(m.task) <= MaxTasks
    /\ m.running \subseteq m.tracked
    /\ m.tracked \subseteq DOMAIN m.task
    /\ \A u \in m.tracked \ {t} : CanReport(m, u)

FlowType == [status : Status, stages : [Stage -> StageRecord], completed : 0..2]

\* A stage's task is a task of that stage, and embedding works on the chunks
\* parsing left.
TasksFit(f, m) ==
    /\ \A s \in Stage : f.stages[s].task # NoTask =>
        f.stages[s].task \in DOMAIN m.task /\ m.task[f.stages[s].task].stage = s
    /\ f.stages[Embedding].task # NoTask =>
        /\ f.stages[Parsing].done
        /\ m.task[f.stages[Embedding].task].input = f.stages[Parsing].result

\* The books of one build. The task t is being handled: its stage may be done
\* although it is still tracked.
BooksAgree(f, m, t) ==
    /\ f \in FlowType
    /\ TasksFit(f, m)
    /\ \A s \in Stage : f.stages[s].done =>
        /\ f.stages[s].task # NoTask /\ f.stages[s].task \notin m.tracked \ {t}
        /\ f.stages[s].result \in Id
        /\ f.stages[s].result = f.stages[Parsing].result
    /\ \A s \in Stage : f.stages[s].failed => f.status \in {"Failed", "Cancelled"}
    /\ ~f.stages[Parsing].done => Len(m.task) < MaxTasks
    /\ f.completed = (IF f.stages[Parsing].done THEN 1 ELSE 0)
                     + (IF f.stages[Embedding].done THEN 1 ELSE 0)
    /\ f.status = "Completed" => f.stages[Parsing].done /\ f.stages[Embedding].done
    /\ f.status = "None" => Len(m.task) = 0

\* A stage that is not done has a task the manager still tracks.
Awaits(f, m) == \E s \in Stage : ~f.stages[s].done /\ f.stages[s].task \in m.tracked

\* What was stored is stored once, of a completed build, and pairs the vectors
\* with the chunks they are of.
StoredOK(f, results, n) ==
    /\ results \in Seq([chunks : Id, vectors : Id])
    /\ n \in 0..1
    /\ results # <<>> => f.status = "Completed"
    /\ results = <<>> => n = 0
    /\ \A i \in DOMAIN results : results[i].vectors = results[i].chunks

BuildOK(w) ==
    /\ ManagerOK(mgr[w], NoTask)
    /\ BooksAgree(flow[w], mgr[w], NoTask)
    /\ StoredOK(flow[w], stored[w], told[w])
    /\ w \in leaving => w \in active /\ flow[w].status \in Over
    /\ w \in active => flow[w].status # "None"
    /\ flow[w].status = "Running" => w \in lost \/ Awaits(flow[w], mgr[w])

Rest ==
    /\ DOMAIN flow = Workflow /\ flow = [w \in Workflow |-> flow[w]]
    /\ DOMAIN mgr = Workflow /\ mgr = [w \in Workflow |-> mgr[w]]
    /\ DOMAIN stored = Workflow /\ stored = [w \in Workflow |-> stored[w]]
    /\ DOMAIN told = Workflow /\ told = [w \in Workflow |-> told[w]]
    /\ active \subseteq Workflow /\ leaving \subseteq Workflow
    /\ joining \in Workflow \cup {Nobody}
    /\ lost \subseteq Workflow
    /\ crashed \in BOOLEAN

IInv == Rest /\ \A w \in Workflow : BuildOK(w)

-----------------------------------------------------------------------------
(* What the calls on a manager leave of it                                 *)

\* The tasks of m are those of n, on whatever thread.
SameTasks(m, n) ==
    /\ Len(n.task) = Len(m.task)
    /\ \A t \in DOMAIN m.task :
        n.task[t].stage = m.task[t].stage /\ n.task[t].input = m.task[t].input

LEMMA ManagerFields ==
    ASSUME NEW m \in Manager
    PROVE  /\ m.task \in Seq(TaskRecord) /\ DOMAIN m.task = 1..Len(m.task)
           /\ m.queue \in [Stage -> Seq(Id)]
           /\ m.tracked \in SUBSET Id /\ m.running \in SUBSET Id /\ m.inbox \in Seq(Id)
BY DEF Manager

LEMMA ManagerOf ==
    ASSUME NEW a \in Seq(TaskRecord), NEW q \in [Stage -> Seq(Id)], NEW t \in SUBSET Id,
           NEW r \in SUBSET Id, NEW i \in Seq(Id)
    PROVE  [task |-> a, queue |-> q, tracked |-> t, running |-> r, inbox |-> i] \in Manager
BY DEF Manager

LEMMA TaskFields ==
    ASSUME NEW x \in TaskRecord
    PROVE  /\ x.stage \in Stage /\ x.input \in 0..MaxTasks
           /\ x.thread \in {"none", "running", "closing", "returned"}
           /\ x.outcome \in {"none", "full", "empty", "throws"}
BY DEF TaskRecord

\* The tasks a, with x in the place of t.
TaskSet(a, t, x) == [a EXCEPT ![t] = x]

\* The task x on another thread, or with an outcome.
Moved(x, h, o) == [x EXCEPT !.thread = h, !.outcome = o]

LEMMA MovedIs ==
    ASSUME NEW x \in TaskRecord, NEW h \in {"none", "running", "closing", "returned"},
           NEW o \in {"none", "full", "empty", "throws"}
    PROVE  /\ Moved(x, h, o) \in TaskRecord
           /\ Moved(x, h, o).stage = x.stage /\ Moved(x, h, o).input = x.input
           /\ Moved(x, h, o).thread = h /\ Moved(x, h, o).outcome = o
BY DEF Moved, TaskRecord

LEMMA NewTaskTyped ==
    ASSUME NEW s \in Stage, NEW i \in 0..MaxTasks
    PROVE  NewTask(s, i) \in TaskRecord
BY DEF NewTask, TaskRecord

LEMMA NewManagerOK ==
    /\ ManagerOK(NewManager, NoTask) /\ NewManager.tracked = {} /\ NewManager.task = <<>>
<1>1. NewManager \in Manager
  BY DEF NewManager, Manager
<1>2. Len(NewManager.task) = 0 /\ NewManager.tracked = {} /\ NewManager.running = {}
      /\ NewManager.task = <<>>
  BY DEF NewManager
<1> QED
  BY <1>1, <1>2, WorkflowAssumption DEF ManagerOK, WorkflowAssumption

\* createDataParserTask, createEmbeddingTask
LEMMA CreateKeeps ==
    ASSUME NEW m, NEW t, ManagerOK(m, t), Len(m.task) < MaxTasks,
           NEW s \in Stage, NEW input \in 0..MaxTasks
    PROVE  LET n == CreateTask(m, s, input)
               c == Len(m.task) + 1
           IN  /\ ManagerOK(n, t)
               /\ Len(n.task) = c /\ c \in Id
               /\ n.tracked = m.tracked \cup {c}
               /\ \A u \in DOMAIN m.task :
                    n.task[u].stage = m.task[u].stage /\ n.task[u].input = m.task[u].input
               /\ n.task[c].stage = s /\ n.task[c].input = input
<1> DEFINE c == Len(m.task) + 1
           x == NewTask(s, input)
           a == Append(m.task, x)
           q == [m.queue EXCEPT ![s] = Append(@, c)]
           n == CreateTask(m, s, input)
<1>1. /\ m \in Manager /\ m.task \in Seq(TaskRecord) /\ DOMAIN m.task = 1..Len(m.task)
      /\ m.queue \in [Stage -> Seq(Id)] /\ Len(m.task) \in Nat
  BY ManagerFields DEF ManagerOK
<1>2. c \in Id /\ c \notin DOMAIN m.task /\ MaxTasks \in Nat
  BY <1>1, WorkflowAssumption DEF Id, WorkflowAssumption
<1>3. x \in TaskRecord /\ x.stage = s /\ x.input = input /\ x.thread = "none" /\ x.outcome = "none"
  BY NewTaskTyped DEF NewTask
<1>4. n = [task |-> a, queue |-> q, tracked |-> m.tracked \cup {c}, running |-> m.running,
           inbox |-> m.inbox]
  <2>1. m = [task |-> m.task, queue |-> m.queue, tracked |-> m.tracked, running |-> m.running,
             inbox |-> m.inbox]
    BY <1>1 DEF Manager
  <2>2. n = [m EXCEPT !.task = a, !.tracked = m.tracked \cup {c}, !.queue = q]
    BY <1>1, <2>1 DEF CreateTask
  <2> HIDE DEF a, q, c, n
  <2> QED
    BY <2>1, <2>2
<1> HIDE DEF x, n
<1>5. /\ a \in Seq(TaskRecord) /\ Len(a) = c /\ DOMAIN a = 1..c
      /\ a[c] = x /\ \A u \in DOMAIN m.task : a[u] = m.task[u]
  BY <1>1, <1>3
<1>6. /\ q \in [Stage -> Seq(Id)] /\ q[s] = Append(m.queue[s], c)
      /\ \A u \in Stage : u # s => q[u] = m.queue[u]
      /\ m.queue[s] \in Seq(Id)
  BY <1>1, <1>2
<1>7. /\ Elems(q[s]) = Elems(m.queue[s]) \cup {c}
      /\ \A u \in Stage : u # s => Elems(q[u]) = Elems(m.queue[u])
  <2>1. Elems(q[s]) = Elems(m.queue[s]) \cup {c}
    BY <1>6, <1>2, AppendElems
  <2> QED
    BY <2>1, <1>6
<1> HIDE DEF a, q, c
<1>8. n \in Manager
  BY <1>4, <1>5, <1>6, <1>1, <1>2, ManagerFields DEF Manager
<1>9. /\ n.task = a /\ n.queue = q /\ n.tracked = m.tracked \cup {c}
      /\ n.running = m.running /\ n.inbox = m.inbox
  BY <1>4
<1>10. \A u \in n.tracked \ {t} : CanReport(n, u)
  <2> SUFFICES ASSUME NEW u \in n.tracked, u # t PROVE CanReport(n, u)
    OBVIOUS
  <2>1. CASE u = c
    BY <2>1, <1>3, <1>5, <1>7, <1>9 DEF CanReport
  <2>2. CASE u \in m.tracked /\ u # c
    <3>1. u \in DOMAIN m.task /\ CanReport(m, u) /\ m.task[u] \in TaskRecord
      BY <2>2, <1>1 DEF ManagerOK
    <3>2. n.task[u] = m.task[u] /\ m.task[u].stage \in Stage
      BY <3>1, <1>5, <1>9, TaskFields
    <3> QED
      BY <3>1, <3>2, <1>7, <1>9 DEF CanReport
  <2> QED
    BY <2>1, <2>2, <1>9
<1>11. ManagerOK(n, t)
  <2>1. Len(n.task) <= MaxTasks
    BY <1>1, <1>2, <1>5, <1>9 DEF c
  <2>2. n.running \subseteq n.tracked /\ n.tracked \subseteq DOMAIN n.task
    <3>1. DOMAIN m.task \subseteq DOMAIN a /\ c \in DOMAIN a
      BY <1>1, <1>5 DEF c
    <3> QED
      BY <3>1, <1>9 DEF ManagerOK
  <2> QED
    BY <1>8, <1>10, <2>1, <2>2 DEF ManagerOK
<1> QED
  BY <1>2, <1>3, <1>5, <1>9, <1>11 DEF n, c

\* Letting go of tasks keeps the manager, and so does every change of a field
\* that leaves each tracked task able to report.
LEMMA FewerTracked ==
    ASSUME NEW m, NEW T, NEW t \in T, ManagerOK(m, t)
    PROVE  LET n == [m EXCEPT !.tracked = @ \ T, !.running = @ \ T]
           IN  ManagerOK(n, NoTask) /\ SameTasks(m, n) /\ n.tracked = m.tracked \ T
<1> DEFINE n == [m EXCEPT !.tracked = @ \ T, !.running = @ \ T]
<1>1. m \in Manager
  BY DEF ManagerOK
<1>2. /\ n \in Manager
      /\ n.task = m.task /\ n.queue = m.queue /\ n.inbox = m.inbox
      /\ n.tracked = m.tracked \ T /\ n.running = m.running \ T
  BY <1>1 DEF Manager
<1> HIDE DEF n
<1> QED
  BY <1>2 DEF ManagerOK, SameTasks, CanReport, n

\* Forget and cleanupCompletedTasks
LEMMA ForgetKeeps ==
    ASSUME NEW m, NEW t, ManagerOK(m, t)
    PROVE  /\ ManagerOK(Forget(m, t), NoTask) /\ SameTasks(m, Forget(m, t))
           /\ Forget(m, t).tracked = m.tracked \ {t}
<1>1. m \in Manager
  BY DEF ManagerOK
<1> DEFINE T == {t}
<1>2. Forget(m, t) = [m EXCEPT !.tracked = @ \ T, !.running = @ \ T]
  BY <1>1 DEF Forget, Manager
<1>3. t \in T
  OBVIOUS
<1> HIDE DEF T
<1>4. LET n == [m EXCEPT !.tracked = @ \ T, !.running = @ \ T]
      IN  ManagerOK(n, NoTask) /\ SameTasks(m, n) /\ n.tracked = m.tracked \ T
  BY <1>3, FewerTracked
<1> QED
  BY <1>2, <1>4 DEF T

LEMMA CleanupKeeps ==
    ASSUME NEW m, ManagerOK(m, NoTask)
    PROVE  /\ ManagerOK(CleanupCompletedTasks(m), NoTask) /\ SameTasks(m, CleanupCompletedTasks(m))
           /\ CleanupCompletedTasks(m).tracked = m.tracked \ Ended(m)
<1> DEFINE T == Ended(m) \cup {NoTask}
<1>1. m \in Manager /\ NoTask \notin m.tracked /\ NoTask \notin m.running
  BY ManagerFields DEF ManagerOK, NoTask, Id
<1>2. CleanupCompletedTasks(m) = [m EXCEPT !.tracked = @ \ T, !.running = @ \ T]
      /\ m.tracked \ T = m.tracked \ Ended(m)
  <2>1. m.tracked \ T = m.tracked \ Ended(m) /\ m.running \ T = m.running \ Ended(m)
    BY <1>1
  <2> HIDE DEF T
  <2> QED
    BY <1>1, <2>1 DEF CleanupCompletedTasks, Manager
<1>3. NoTask \in T
  OBVIOUS
<1> HIDE DEF T
<1>4. LET n == [m EXCEPT !.tracked = @ \ T, !.running = @ \ T]
      IN  ManagerOK(n, NoTask) /\ SameTasks(m, n) /\ n.tracked = m.tracked \ T
  BY <1>3, FewerTracked
<1> QED
  BY <1>2, <1>4

\* scheduleNextStageTask
LEMMA ScheduleKeeps ==
    ASSUME NEW m, ManagerOK(m, NoTask), NEW s \in Stage
    PROVE  LET n == ScheduleNextStageTask(m, s)
           IN  ManagerOK(n, NoTask) /\ SameTasks(m, n) /\ n.tracked = m.tracked
<1>1. /\ m \in Manager /\ m.task \in Seq(TaskRecord) /\ DOMAIN m.task = 1..Len(m.task)
      /\ m.queue \in [Stage -> Seq(Id)] /\ Len(m.task) \in Nat
      /\ m = [task |-> m.task, queue |-> m.queue, tracked |-> m.tracked, running |-> m.running,
              inbox |-> m.inbox]
  BY ManagerFields DEF ManagerOK, Manager
<1>2. CASE ~CanStartStageTask(m, s) \/ m.queue[s] = <<>>
  BY <1>2 DEF ScheduleNextStageTask, SameTasks
<1>3. CASE CanStartStageTask(m, s) /\ m.queue[s] # <<>>
  <2> DEFINE t == Head(m.queue[s])
             q == [m.queue EXCEPT ![s] = Tail(@)]
             rest == [m EXCEPT !.queue[s] = Tail(@)]
  <2>1. m.queue[s] \in Seq(Id)
    BY <1>1
  <2>2. Tail(m.queue[s]) \in Seq(Id) /\ \A u \in Elems(m.queue[s]) : u = t \/ u \in Elems(Tail(m.queue[s]))
    <3>1. Tail(m.queue[s]) \in Seq(Id)
      BY <2>1, <1>3, HeadTail
    <3>2. ASSUME NEW u \in Elems(m.queue[s]), u # t PROVE u \in Elems(Tail(m.queue[s]))
      <4>1. PICK i \in 1..Len(m.queue[s]) : u = m.queue[s][i]
        BY DEF Elems
      <4>2. i # 1
        BY <4>1, <3>2, <2>1, <1>3
      <4>3. i - 1 \in 1..Len(Tail(m.queue[s])) /\ Tail(m.queue[s])[i - 1] = u
        BY <4>1, <4>2, <2>1, <1>3
      <4> QED
        BY <4>3 DEF Elems
    <3> QED
      BY <3>1, <3>2
  <2>3. /\ q \in [Stage -> Seq(Id)]
        /\ \A v \in Stage : \A u \in Elems(m.queue[v]) : u = t \/ u \in Elems(q[v])
    <3>1. q \in [Stage -> Seq(Id)] /\ q[s] = Tail(m.queue[s])
          /\ \A v \in Stage : v # s => q[v] = m.queue[v]
      BY <1>1, <2>2
    <3> QED
      BY <3>1, <2>2
  <2>4. rest = [task |-> m.task, queue |-> q, tracked |-> m.tracked, running |-> m.running,
                inbox |-> m.inbox]
    <3>1. rest = [m EXCEPT !.queue = q]
      BY <1>1
    <3> HIDE DEF q, rest
    <3> QED
      BY <1>1, <3>1
  <2> HIDE DEF q, rest, t
  <2>5. CASE t \in m.tracked
    <3> DEFINE x == Moved(m.task[t], "running", m.task[t].outcome)
               a == TaskSet(m.task, t, x)
               n == [rest EXCEPT !.running = @ \cup {t}, !.task[t].thread = "running"]
    <3>1. t \in DOMAIN m.task /\ t \in Id /\ m.task[t] \in TaskRecord
      <4>1. t \in DOMAIN m.task /\ t \in Id
        BY <1>1, <2>5, ManagerFields DEF ManagerOK
      <4> QED
        BY <1>1, <4>1
    <3>2. /\ x \in TaskRecord /\ x.stage = m.task[t].stage /\ x.input = m.task[t].input
          /\ x.thread = "running"
      BY <3>1, TaskFields, MovedIs
    <3>3. n = [task |-> a, queue |-> q, tracked |-> m.tracked, running |-> m.running \cup {t},
               inbox |-> m.inbox]
      <4>1. x = [m.task[t] EXCEPT !.thread = "running"]
        BY <3>1 DEF Moved, TaskRecord
      <4>2. n = [rest EXCEPT !.running = m.running \cup {t}, !.task = a]
        BY <2>4, <4>1 DEF TaskSet
      <4> HIDE DEF a, n
      <4> QED
        BY <2>4, <4>2
    <3>a. /\ a \in Seq(TaskRecord) /\ Len(a) = Len(m.task) /\ DOMAIN a = DOMAIN m.task
          /\ \A u \in DOMAIN m.task : u # t => a[u] = m.task[u]
          /\ a[t].stage = m.task[t].stage /\ a[t].input = m.task[t].input
          /\ a[t].thread = "running"
      <4> HIDE DEF x
      <4>1. /\ a \in Seq(TaskRecord) /\ Len(a) = Len(m.task) /\ DOMAIN a = DOMAIN m.task
            /\ \A u \in DOMAIN m.task : u # t => a[u] = m.task[u]
            /\ a[t] = x
        <5>1. m.task \in Seq(TaskRecord) /\ t \in DOMAIN m.task /\ x \in TaskRecord
          BY <1>1, <3>1, <3>2
        <5> QED
          BY <5>1 DEF TaskSet
      <4> HIDE DEF a
      <4> QED
        BY <4>1, <3>2
    <3> HIDE DEF a, n, x
    <3>4. n \in Manager
      BY <3>1, <3>a, <3>3, <2>3, <1>1, ManagerFields DEF Manager
    <3>5. /\ n.task = a /\ n.queue = q /\ n.tracked = m.tracked
          /\ n.running = m.running \cup {t} /\ n.inbox = m.inbox
      BY <3>3
    <3>6. \A u \in n.tracked \ {NoTask} : CanReport(n, u)
      <4> SUFFICES ASSUME NEW u \in m.tracked, u # NoTask PROVE CanReport(n, u)
        BY <3>5
      <4>1. CASE u = t
        BY <4>1, <3>a, <3>5 DEF CanReport
      <4>2. CASE u # t
        <5>1. u \in DOMAIN m.task /\ CanReport(m, u) /\ m.task[u].stage \in Stage
          BY <1>1, TaskFields DEF ManagerOK
        <5>2. n.task[u] = m.task[u]
          BY <5>1, <4>2, <3>a, <3>5
        <5> QED
          BY <5>1, <5>2, <4>2, <2>3, <3>5 DEF CanReport
      <4> QED
        BY <4>1, <4>2
    <3>7. SameTasks(m, n)
      BY <3>a, <3>5 DEF SameTasks
    <3>8. ManagerOK(n, NoTask)
      BY <3>a, <3>4, <3>5, <3>6, <2>5 DEF ManagerOK
    <3>9. ScheduleNextStageTask(m, s) = n
      BY <1>3, <2>5 DEF ScheduleNextStageTask, NextTask, n, rest, t
    <3> QED
      BY <3>5, <3>7, <3>8, <3>9
  <2>6. CASE t \notin m.tracked
    <3>1. rest \in Manager
      BY <2>4, <2>3, <1>1, ManagerFields DEF Manager
    <3>2. /\ rest.task = m.task /\ rest.queue = q /\ rest.tracked = m.tracked
          /\ rest.running = m.running /\ rest.inbox = m.inbox
      BY <2>4
    <3>3. \A u \in rest.tracked \ {NoTask} : CanReport(rest, u)
      <4> SUFFICES ASSUME NEW u \in m.tracked, u # NoTask PROVE CanReport(rest, u)
        BY <3>2
      <4>1. u \in DOMAIN m.task /\ CanReport(m, u) /\ m.task[u].stage \in Stage /\ u # t
        BY <1>1, <2>6, TaskFields DEF ManagerOK
      <4> QED
        BY <4>1, <2>3, <3>2 DEF CanReport
    <3>4. ManagerOK(rest, NoTask) /\ SameTasks(m, rest)
      BY <3>1, <3>2, <3>3 DEF ManagerOK, SameTasks
    <3>5. ScheduleNextStageTask(m, s) = rest
      BY <1>3, <2>6 DEF ScheduleNextStageTask, NextTask, rest, t
    <3> QED
      BY <3>2, <3>4, <3>5
  <2> QED
    BY <2>5, <2>6
<1> QED
  BY <1>2, <1>3

\* What Leave does, of a reported task or of none.
LEMMA LeaveKeeps ==
    ASSUME NEW m, NEW t \in m.tracked \cup {NoTask}, ManagerOK(m, t)
    PROVE  LET n == Leave(m, t)
           IN  ManagerOK(n, NoTask) /\ SameTasks(m, n) /\ n.tracked = m.tracked \ {t}
<1>1. CASE t = NoTask
  <2>1. NoTask \notin m.tracked
    BY ManagerFields DEF ManagerOK, NoTask, Id
  <2> QED
    BY <1>1, <2>1 DEF Leave, SameTasks
<1>2. CASE t # NoTask
  <2>1. t \in m.tracked /\ t \in DOMAIN m.task /\ m.task[t].stage \in Stage
    BY <1>2, ManagerFields, TaskFields DEF ManagerOK
  <2>2. Leave(m, t) = ScheduleNextStageTask(Forget(m, t), m.task[t].stage)
    BY <1>2 DEF Leave
  <2> DEFINE k == Forget(m, t)
  <2>3. ManagerOK(k, NoTask) /\ SameTasks(m, k) /\ k.tracked = m.tracked \ {t}
    BY ForgetKeeps
  <2> HIDE DEF k
  <2> DEFINE n == ScheduleNextStageTask(k, m.task[t].stage)
  <2>4. ManagerOK(n, NoTask) /\ SameTasks(k, n) /\ n.tracked = k.tracked
    BY <2>1, <2>3, ScheduleKeeps
  <2>5. DOMAIN m.task = DOMAIN k.task
    BY <2>3, ManagerFields DEF ManagerOK, SameTasks
  <2>6. SameTasks(m, n)
    BY <2>3, <2>4, <2>5 DEF SameTasks
  <2> QED
    BY <2>2, <2>3, <2>4, <2>6 DEF k
<1> QED
  BY <1>1, <1>2

\* The handled report is taken out of the inbox.
LEMMA TakenKeeps ==
    ASSUME NEW m, ManagerOK(m, NoTask), m.inbox # <<>>
    PROVE  LET n == [m EXCEPT !.inbox = Tail(@)]
           IN  /\ ManagerOK(n, Head(m.inbox)) /\ SameTasks(m, n) /\ n.tracked = m.tracked
               /\ n.task = m.task
<1> DEFINE t == Head(m.inbox)
           n == [m EXCEPT !.inbox = Tail(@)]
<1>1. m \in Manager /\ m.inbox \in Seq(Id) /\ NoTask \notin m.tracked
  BY ManagerFields DEF ManagerOK, NoTask, Id
<1>2. Tail(m.inbox) \in Seq(Id) /\ \A u \in Elems(m.inbox) : u = t \/ u \in Elems(Tail(m.inbox))
  <2>1. Tail(m.inbox) \in Seq(Id)
    BY <1>1, HeadTail
  <2>2. ASSUME NEW u \in Elems(m.inbox), u # t PROVE u \in Elems(Tail(m.inbox))
    <3>1. PICK i \in 1..Len(m.inbox) : u = m.inbox[i]
      BY DEF Elems
    <3>2. i # 1
      BY <3>1, <2>2, <1>1
    <3>3. i - 1 \in 1..Len(Tail(m.inbox)) /\ Tail(m.inbox)[i - 1] = u
      BY <3>1, <3>2, <1>1
    <3> QED
      BY <3>3 DEF Elems
  <2> QED
    BY <2>1, <2>2
<1>3. /\ n \in Manager /\ n.task = m.task /\ n.tracked = m.tracked /\ n.queue = m.queue
      /\ n.running = m.running /\ n.inbox = Tail(m.inbox)
  BY <1>1, <1>2 DEF Manager
<1> HIDE DEF n
<1>4. \A u \in m.tracked \ {t} : CanReport(n, u)
  BY <1>1, <1>2, <1>3 DEF ManagerOK, CanReport
<1>5. ManagerOK(n, t) /\ SameTasks(m, n)
  BY <1>3, <1>4 DEF ManagerOK, SameTasks
<1> QED
  BY <1>3, <1>5 DEF n

\* A step of the thread of task t: its record becomes x, its report is posted
\* when it has to be.
Stepped(m, t, x, i) == [m EXCEPT !.task = TaskSet(m.task, t, x), !.inbox = i]

LEMMA ThreadKeeps ==
    ASSUME NEW m, ManagerOK(m, NoTask), NEW t \in DOMAIN m.task, NEW x \in TaskRecord,
           x.stage = m.task[t].stage, x.input = m.task[t].input, x.thread # "none",
           NEW i \in Seq(Id), Elems(m.inbox) \subseteq Elems(i),
           t \in m.tracked /\ x.thread = "returned" => t \in Elems(i),
           t \in m.tracked /\ x.thread = "closing" /\ x.outcome = "throws" => t \in Elems(i)
    PROVE  /\ ManagerOK(Stepped(m, t, x, i), NoTask) /\ SameTasks(m, Stepped(m, t, x, i))
           /\ Stepped(m, t, x, i).tracked = m.tracked
<1> DEFINE a == TaskSet(m.task, t, x)
           n == Stepped(m, t, x, i)
<1>1. /\ m \in Manager /\ m.task \in Seq(TaskRecord) /\ DOMAIN m.task = 1..Len(m.task)
      /\ Len(m.task) \in Nat
  BY ManagerFields DEF ManagerOK
<1>2. /\ a \in Seq(TaskRecord) /\ Len(a) = Len(m.task) /\ DOMAIN a = DOMAIN m.task
      /\ \A u \in DOMAIN m.task : u # t => a[u] = m.task[u]
      /\ a[t] = x
  BY <1>1 DEF TaskSet
<1> HIDE DEF a
<1>3. n = [m EXCEPT !.task = a, !.inbox = i]
  BY DEF a, Stepped
<1> HIDE DEF n
<1>4. /\ n \in Manager
      /\ n.task = a /\ n.queue = m.queue /\ n.tracked = m.tracked /\ n.running = m.running
      /\ n.inbox = i
  BY <1>1, <1>2, <1>3 DEF Manager
<1>5. \A u \in n.tracked \ {NoTask} : CanReport(n, u)
  <2> SUFFICES ASSUME NEW u \in m.tracked, u # NoTask PROVE CanReport(n, u)
    BY <1>4
  <2>1. CASE u = t
    BY <2>1, <1>2, <1>4 DEF CanReport
  <2>2. CASE u # t
    <3>1. u \in DOMAIN m.task /\ CanReport(m, u)
      BY DEF ManagerOK
    <3> QED
      BY <3>1, <2>2, <1>2, <1>4 DEF CanReport
  <2> QED
    BY <2>1, <2>2
<1>6. SameTasks(m, n)
  <2> SUFFICES ASSUME NEW u \in DOMAIN m.task
      PROVE  n.task[u].stage = m.task[u].stage /\ n.task[u].input = m.task[u].input
    BY <1>2, <1>4 DEF SameTasks
  <2>1. CASE u = t
    BY <2>1, <1>2, <1>4
  <2>2. CASE u # t
    BY <2>2, <1>2, <1>4
  <2> QED
    BY <2>1, <2>2
<1> QED
  BY <1>2, <1>4, <1>5, <1>6 DEF ManagerOK, n

-----------------------------------------------------------------------------
(* What the books of a build come to                                       *)

LEMMA Stages == Stage = {Parsing, Embedding} /\ Parsing # Embedding
BY DEF Stage, Parsing, Embedding

LEMMA FlowFields ==
    ASSUME NEW f \in FlowType, NEW s \in Stage
    PROVE  /\ f.status \in Status /\ f.completed \in 0..2 /\ f.stages \in [Stage -> StageRecord]
           /\ f.stages[s] \in StageRecord
           /\ f.stages[s].task \in 0..MaxTasks /\ f.stages[s].result \in 0..MaxTasks
           /\ f.stages[s].done \in BOOLEAN /\ f.stages[s].failed \in BOOLEAN
<1>1. f.status \in Status /\ f.completed \in 0..2 /\ f.stages \in [Stage -> StageRecord]
  BY DEF FlowType
<1>2. f.stages[s] \in StageRecord
  BY <1>1
<1> QED
  BY <1>1, <1>2 DEF StageRecord

\* The flow f, with x in the place of stage s.
StageSet(f, s, x) == [f EXCEPT !.stages = [@ EXCEPT ![s] = x]]

LEMMA StageSetIs ==
    ASSUME NEW f \in FlowType, NEW s \in Stage, NEW x \in StageRecord
    PROVE  LET g == StageSet(f, s, x)
           IN  /\ g \in FlowType
               /\ g.status = f.status /\ g.completed = f.completed
               /\ g.stages[s] = x /\ \A u \in Stage : u # s => g.stages[u] = f.stages[u]
<1> DEFINE y == [f.stages EXCEPT ![s] = x]
           g == StageSet(f, s, x)
<1>1. /\ y \in [Stage -> StageRecord] /\ y[s] = x
      /\ \A u \in Stage : u # s => y[u] = f.stages[u]
  BY FlowFields
<1>2. g = [f EXCEPT !.stages = y]
  BY DEF StageSet
<1> HIDE DEF y, g
<1>3. g \in FlowType /\ g.stages = y /\ g.status = f.status /\ g.completed = f.completed
  BY <1>1, <1>2 DEF FlowType
<1> QED
  BY <1>1, <1>3 DEF g

\* The books agree with a manager that lets go of tasks.
LEMMA BooksKept ==
    ASSUME NEW f, NEW m, NEW n, NEW t, NEW u, BooksAgree(f, m, t),
           m \in Manager, n \in Manager, SameTasks(m, n),
           n.tracked \ {u} \subseteq m.tracked \ {t}
    PROVE  BooksAgree(f, n, u)
<1>1. DOMAIN m.task = 1..Len(m.task) /\ DOMAIN n.task = 1..Len(n.task)
  BY ManagerFields
<1>2. TasksFit(f, n)
  BY <1>1, Stages DEF BooksAgree, TasksFit, SameTasks
<1> QED
  BY <1>2, Stages DEF BooksAgree, SameTasks

\* setupIndexBuildingWorkflow, startWorkflow
LEMMA NewFlow ==
    LET f == StartWorkflow(IndexBuilding)
    IN  /\ f \in FlowType /\ f.status = "Running" /\ f.completed = 0
        /\ \A s \in Stage : f.stages[s] = NewStage
        /\ BooksAgree(f, NewManager, NoTask)
<1> DEFINE f == StartWorkflow(IndexBuilding)
<1>1. f = [status |-> "Running", stages |-> [s \in Stage |-> NewStage], completed |-> 0]
  BY DEF StartWorkflow, IndexBuilding
<1>2. NewStage \in StageRecord
  BY WorkflowAssumption DEF NewStage, StageRecord, NoTask, NoResult, WorkflowAssumption
<1> HIDE DEF f
<1>3. f \in FlowType /\ f.status = "Running" /\ f.completed = 0 /\ \A s \in Stage : f.stages[s] = NewStage
  BY <1>1, <1>2 DEF FlowType, Status
<1>4. ~NewStage.done /\ ~NewStage.failed /\ NewStage.task = NoTask
  BY DEF NewStage
<1>5. TasksFit(f, NewManager)
  BY <1>3, <1>4, Stages DEF TasksFit
<1>6. Len(NewManager.task) < MaxTasks
  BY WorkflowAssumption DEF NewManager, WorkflowAssumption
<1>7. BooksAgree(f, NewManager, NoTask)
  BY <1>3, <1>4, <1>5, <1>6, Stages DEF BooksAgree
<1> QED
  BY <1>3, <1>7 DEF f

\* startStage: the stage waits for its own new task.
LEMMA StartKeeps ==
    ASSUME NEW f, NEW m, NEW t \in m.tracked \cup {NoTask}, NEW s \in Stage,
           BooksAgree(f, m, t), ManagerOK(m, t),
           f.status = "Running", ~f.stages[s].done, s = Embedding => f.stages[Parsing].done,
           Len(m.task) < MaxTasks, s = Parsing => Len(m.task) + 1 < MaxTasks
    PROVE  LET c == CreateTask(m, s, InputOf(f, s))
               g == [f EXCEPT !.stages[s].task = Len(c.task)]
               n == Leave(c, t)
           IN  /\ BooksAgree(g, n, NoTask) /\ ManagerOK(n, NoTask)
               /\ Awaits(g, n) /\ g.status = f.status
<1> DEFINE input == InputOf(f, s)
           c == CreateTask(m, s, input)
           k == Len(m.task) + 1
           x == [f.stages[s] EXCEPT !.task = k]
           g == [f EXCEPT !.stages[s].task = Len(c.task)]
           n == Leave(c, t)
<1>1. f \in FlowType /\ m \in Manager /\ DOMAIN m.task = 1..Len(m.task) /\ Len(m.task) \in Nat
  BY ManagerFields DEF BooksAgree, ManagerOK
<1>2. input \in 0..MaxTasks /\ (s = Embedding => input = f.stages[Parsing].result)
  BY <1>1, Stages, FlowFields, WorkflowAssumption DEF InputOf, NoResult, WorkflowAssumption
<1> HIDE DEF input
<1>3. /\ ManagerOK(c, t)
      /\ Len(c.task) = k /\ k \in Id /\ c.tracked = m.tracked \cup {k}
      /\ \A u \in DOMAIN m.task :
            c.task[u].stage = m.task[u].stage /\ c.task[u].input = m.task[u].input
      /\ c.task[k].stage = s /\ c.task[k].input = input
  BY <1>2, CreateKeeps
<1> HIDE DEF c
<1>4. /\ ManagerOK(n, NoTask) /\ SameTasks(c, n) /\ n.tracked = c.tracked \ {t}
  BY <1>3, LeaveKeeps
<1> HIDE DEF n
<1>5. /\ n \in Manager /\ DOMAIN n.task = 1..k /\ Len(n.task) = k /\ k \in Nat \ {0} /\ k # t
  BY <1>1, <1>3, <1>4, ManagerFields DEF ManagerOK, SameTasks, NoTask
<1>6. /\ \A u \in DOMAIN m.task :
            n.task[u].stage = m.task[u].stage /\ n.task[u].input = m.task[u].input
      /\ n.task[k].stage = s /\ n.task[k].input = input
  <2>1. \A u \in DOMAIN c.task :
            n.task[u].stage = c.task[u].stage /\ n.task[u].input = c.task[u].input
    BY <1>4 DEF SameTasks
  <2>2. DOMAIN c.task = 1..k
    BY <1>3, ManagerFields DEF ManagerOK
  <2> QED
    BY <1>1, <1>3, <1>5, <2>1, <2>2
<1>7. /\ x \in StageRecord /\ x.task = k /\ x.done = f.stages[s].done
      /\ x.failed = f.stages[s].failed /\ x.result = f.stages[s].result
  <2>1. f.stages[s] \in StageRecord /\ k \in 0..MaxTasks
    BY <1>1, <1>3, FlowFields DEF Id
  <2> QED
    BY <2>1 DEF StageRecord
<1> HIDE DEF x
<1>8. g = StageSet(f, s, x)
  BY <1>1, <1>3, FlowFields DEF StageSet, x, FlowType
<1> HIDE DEF g
<1>9. /\ g \in FlowType /\ g.status = f.status /\ g.completed = f.completed
      /\ g.stages[s] = x /\ \A u \in Stage : u # s => g.stages[u] = f.stages[u]
  <2>1. LET h == StageSet(f, s, x)
        IN  /\ h \in FlowType
            /\ h.status = f.status /\ h.completed = f.completed
            /\ h.stages[s] = x /\ \A u \in Stage : u # s => h.stages[u] = f.stages[u]
    BY <1>1, <1>7, StageSetIs
  <2> QED
    BY <2>1, <1>8
<1> HIDE DEF k
<1>10. TasksFit(f, m)
  BY DEF BooksAgree
<1>11. TasksFit(g, n)
  <2>1. \A u \in Stage : g.stages[u].task # NoTask =>
            g.stages[u].task \in DOMAIN n.task /\ n.task[g.stages[u].task].stage = u
    <3> SUFFICES ASSUME NEW u \in Stage, g.stages[u].task # NoTask
        PROVE  g.stages[u].task \in DOMAIN n.task /\ n.task[g.stages[u].task].stage = u
      OBVIOUS
    <3>1. CASE u = s
      BY <3>1, <1>5, <1>6, <1>7, <1>9
    <3>2. CASE u # s
      <4>1. g.stages[u] = f.stages[u]
        BY <3>2, <1>9
      <4>2. f.stages[u].task \in DOMAIN m.task /\ m.task[f.stages[u].task].stage = u
        BY <4>1, <1>10 DEF TasksFit
      <4>3. DOMAIN m.task \subseteq DOMAIN n.task
        BY <1>1, <1>5 DEF k
      <4> QED
        BY <4>1, <4>2, <4>3, <1>6
    <3> QED
      BY <3>1, <3>2
  <2>2. g.stages[Embedding].task # NoTask =>
            /\ g.stages[Parsing].done
            /\ n.task[g.stages[Embedding].task].input = g.stages[Parsing].result
    <3>1. CASE s = Embedding
      BY <3>1, <1>2, <1>6, <1>7, <1>9, Stages
    <3>2. CASE s = Parsing
      BY <3>2, <1>9, <1>10, Stages DEF TasksFit
    <3> QED
      BY <3>1, <3>2, Stages
  <2> QED
    BY <2>1, <2>2 DEF TasksFit
<1>12. \A u \in Stage : g.stages[u].done => u # s /\ g.stages[u] = f.stages[u] /\ f.stages[u].done
  BY <1>7, <1>9
<1>13. \A u \in Stage : g.stages[u].done =>
        /\ g.stages[u].task # NoTask /\ g.stages[u].task \notin n.tracked \ {NoTask}
        /\ g.stages[u].result \in Id
        /\ g.stages[u].result = g.stages[Parsing].result
  <2> SUFFICES ASSUME NEW u \in Stage, g.stages[u].done
      PROVE  /\ g.stages[u].task # NoTask /\ g.stages[u].task \notin n.tracked \ {NoTask}
             /\ g.stages[u].result \in Id
             /\ g.stages[u].result = g.stages[Parsing].result
    OBVIOUS
  <2>1. u # s /\ g.stages[u] = f.stages[u] /\ f.stages[u].done
    BY <1>12
  <2>2. /\ f.stages[u].task # NoTask /\ f.stages[u].task \notin m.tracked \ {t}
        /\ f.stages[u].result \in Id /\ f.stages[u].result = f.stages[Parsing].result
    BY <2>1 DEF BooksAgree
  <2>3. f.stages[u].task # k
    <3>1. f.stages[u].task \in DOMAIN m.task
      BY <2>2, <1>10 DEF TasksFit
    <3> QED
      BY <3>1, <1>1 DEF k
  <2>4. g.stages[Parsing].result = f.stages[Parsing].result
    <3>1. CASE s = Parsing
      BY <3>1, <1>7, <1>9
    <3>2. CASE s # Parsing
      BY <3>2, <1>9, Stages
    <3> QED
      BY <3>1, <3>2
  <2> QED
    BY <2>1, <2>2, <2>3, <2>4, <1>3, <1>4
<1>14. \A u \in Stage : g.stages[u].failed => g.status \in {"Failed", "Cancelled"}
  BY <1>7, <1>9 DEF BooksAgree
<1>15. /\ ~g.stages[Parsing].done => Len(n.task) < MaxTasks
       /\ g.completed = (IF g.stages[Parsing].done THEN 1 ELSE 0)
                        + (IF g.stages[Embedding].done THEN 1 ELSE 0)
       /\ g.status = "Completed" => g.stages[Parsing].done /\ g.stages[Embedding].done
       /\ g.status # "None"
  <2>1. \A u \in Stage : g.stages[u].done = f.stages[u].done
    BY <1>7, <1>9
  <2>2. ~g.stages[Parsing].done => Len(n.task) < MaxTasks
    BY <2>1, <1>5, Stages DEF k
  <2> QED
    BY <2>1, <2>2, <1>9, Stages DEF BooksAgree
<1>16. BooksAgree(g, n, NoTask)
  BY <1>9, <1>11, <1>13, <1>14, <1>15 DEF BooksAgree
<1>17. Awaits(g, n)
  <2>1. ~g.stages[s].done /\ g.stages[s].task = k /\ k \in n.tracked
    BY <1>3, <1>4, <1>5, <1>7, <1>9
  <2> QED
    BY <2>1 DEF Awaits
<1> QED
  BY <1>4, <1>9, <1>16, <1>17 DEF g, n, c, k, input

\* Which stage processNextStage starts.
LEMMA FirstStartable ==
    ASSUME NEW f \in FlowType, StartableStages(f) # {}
    PROVE  LET s == FirstOf(StartableStages(f))
           IN  /\ s \in Stage /\ f.status = "Running" /\ ~f.stages[s].done
               /\ s = Embedding => f.stages[Parsing].done
               /\ s = Parsing => ~f.stages[Parsing].done
<1> DEFINE S == StartableStages(f)
<1>1. S \subseteq Stage
  BY DEF StartableStages
<1>2. \E s \in S : \A u \in S : s <= u
  <2>1. CASE Parsing \in S
    BY <2>1, <1>1 DEF Stage, Parsing, Embedding
  <2>2. CASE Parsing \notin S
    BY <2>2, <1>1 DEF Stage, Parsing, Embedding
  <2> QED
    BY <2>1, <2>2
<1>3. FirstOf(S) \in S
  BY <1>2 DEF FirstOf
<1> QED
  BY <1>3 DEF StartableStages, MayAdvance, IsStageReady

\* When nothing can start, a running build is over, and only then.
LEMMA ConcludedIs ==
    ASSUME NEW f, NEW m, NEW t, BooksAgree(f, m, t), StartableStages(f) = {}
    PROVE  /\ f.status = "Running" => /\ Concluded(f) = [f EXCEPT !.status = "Completed"]
                                      /\ f.stages[Parsing].done /\ f.stages[Embedding].done
                                      /\ Concluded(f) # f
           /\ f.status # "Running" => Concluded(f) = f
<1>1. f \in FlowType
  BY DEF BooksAgree
<1>2. CASE f.status = "Running"
  <2>1. \A s \in Stage : ~f.stages[s].failed
    BY <1>2 DEF BooksAgree
  <2>2. f.stages[Parsing].done
    BY <1>2, <2>1, Stages DEF StartableStages, MayAdvance, IsStageReady
  <2>3. f.stages[Embedding].done
    BY <1>2, <2>1, <2>2, Stages DEF StartableStages, MayAdvance, IsStageReady
  <2>4. Concluded(f) = [f EXCEPT !.status = "Completed"]
    BY <1>2, <2>1, <2>2, <2>3, Stages DEF Concluded, MayAdvance
  <2>5. Concluded(f).status = "Completed"
    BY <2>4, <1>1 DEF FlowType
  <2> QED
    BY <1>2, <2>2, <2>3, <2>4, <2>5
<1>3. CASE f.status # "Running"
  BY <1>3 DEF Concluded, MayAdvance
<1> QED
  BY <1>2, <1>3

-----------------------------------------------------------------------------
(* One build moves, the others stay as they are                            *)

Only(w) ==
    /\ flow' = [flow EXCEPT ![w] = flow'[w]] /\ mgr' = [mgr EXCEPT ![w] = mgr'[w]]
    /\ stored' = [stored EXCEPT ![w] = stored'[w]] /\ told' = [told EXCEPT ![w] = told'[w]]
    /\ active' \subseteq Workflow /\ leaving' \subseteq Workflow
    /\ lost \subseteq lost' /\ lost' \subseteq Workflow
    /\ joining' \in Workflow \cup {Nobody} /\ crashed' \in BOOLEAN
    /\ \A v \in Workflow : v # w => (v \in active' <=> v \in active) /\ (v \in leaving' <=> v \in leaving)

\* What is left to say of the build that moved.
LEMMA BuildParts ==
    ASSUME NEW w \in Workflow, NEW f, NEW m, f = flow'[w], m = mgr'[w],
           ManagerOK(m, NoTask), BooksAgree(f, m, NoTask), StoredOK(f, stored'[w], told'[w]),
           w \in leaving' => w \in active' /\ f.status \in Over,
           w \in active' => f.status # "None",
           f.status = "Running" => w \in lost' \/ Awaits(f, m)
    PROVE  BuildOK(w)'
BY DEF BuildOK

LEMMA BuildMoves ==
    ASSUME IInv, NEW w \in Workflow, Only(w), BuildOK(w)'
    PROVE  IInv'
<1>1. Rest'
  BY DEF IInv, Rest, Only
<1>2. ASSUME NEW v \in Workflow, v # w PROVE BuildOK(v)'
  <2>1. BuildOK(v)
    BY DEF IInv
  <2>2. flow'[v] = flow[v] /\ mgr'[v] = mgr[v] /\ stored'[v] = stored[v] /\ told'[v] = told[v]
    BY <1>2 DEF IInv, Rest, Only
  <2>3. (v \in active' <=> v \in active) /\ (v \in leaving' <=> v \in leaving)
        /\ (v \in lost => v \in lost')
    BY <1>2 DEF Only
  <2> QED
    BY <2>1, <2>2, <2>3 DEF BuildOK
<1> QED
  BY <1>1, <1>2 DEF IInv

\* What results a completed build stores.
LEMMA ResultsFit ==
    ASSUME NEW f, NEW m, NEW t, BooksAgree(f, m, t), f.status = "Completed"
    PROVE  Results(f) \in [chunks : Id, vectors : Id] /\ Results(f).vectors = Results(f).chunks
BY Stages DEF BooksAgree, Results

\* The end of a build that was not over with its results is announced: they
\* are stored now or never.
LEMMA AnnounceKeeps ==
    ASSUME IInv, NEW w \in Workflow, NEW f, NEW m, NEW t, BooksAgree(f, m, t),
           f.status \in Over, flow[w].status # "Completed", Announce(w, f)
    PROVE  /\ StoredOK(f, stored'[w], told'[w])
           /\ stored' = [stored EXCEPT ![w] = stored'[w]] /\ told' = [told EXCEPT ![w] = told'[w]]
           /\ leaving' \subseteq Workflow
           /\ \A v \in Workflow : v # w => (v \in leaving' <=> v \in leaving)
           /\ w \in leaving' => w \in active
<1>1. /\ stored[w] = <<>> /\ told[w] = 0 /\ (w \in leaving => w \in active)
  BY DEF IInv, BuildOK, StoredOK
<1>2. /\ leaving' \subseteq Workflow
      /\ \A v \in Workflow : v # w => (v \in leaving' <=> v \in leaving)
      /\ w \in leaving' => w \in active
  BY <1>1 DEF Announce, IInv, Rest
<1>3. CASE w \in active /\ f.status = "Completed"
  <2> DEFINE e == Results(f)
             q == <<e>>
  <2>1. e \in [chunks : Id, vectors : Id] /\ e.vectors = e.chunks
    BY <1>3, ResultsFit
  <2>2. stored' = [stored EXCEPT ![w] = Append(stored[w], e)] /\ told' \in {told, [told EXCEPT ![w] = @ + 1]}
    BY <1>3 DEF Announce
  <2> HIDE DEF e
  <2>3. stored'[w] = q /\ stored' = [stored EXCEPT ![w] = stored'[w]]
    BY <2>2, <1>1 DEF IInv, Rest
  <2>4. told'[w] \in 0..1 /\ told' = [told EXCEPT ![w] = told'[w]]
    BY <2>2, <1>1 DEF IInv, Rest
  <2>5. q \in Seq([chunks : Id, vectors : Id]) /\ q # <<>> /\ \A i \in DOMAIN q : q[i] = e
    BY <2>1
  <2> HIDE DEF q
  <2>6. StoredOK(f, stored'[w], told'[w])
    BY <1>3, <2>1, <2>3, <2>4, <2>5 DEF StoredOK
  <2> QED
    BY <1>2, <2>3, <2>4, <2>6
<1>4. CASE ~(w \in active /\ f.status = "Completed")
  <2>1. stored' = stored /\ told' = told
    BY <1>4 DEF Announce
  <2>2. StoredOK(f, <<>>, 0)
    BY DEF StoredOK
  <2> QED
    BY <1>1, <1>2, <2>1, <2>2 DEF IInv, Rest
<1> QED
  BY <1>3, <1>4

\* Nothing is announced.
LEMMA KeepKeeps ==
    ASSUME IInv, NEW w \in Workflow, NEW f, Keep,
           f.status = flow[w].status \/ flow[w].status # "Completed"
    PROVE  /\ StoredOK(f, stored'[w], told'[w])
           /\ stored' = [stored EXCEPT ![w] = stored'[w]] /\ told' = [told EXCEPT ![w] = told'[w]]
           /\ leaving' \subseteq Workflow
           /\ \A v \in Workflow : v # w => (v \in leaving' <=> v \in leaving)
           /\ w \in leaving' => w \in active
BY DEF Keep, IInv, Rest, BuildOK, StoredOK

-----------------------------------------------------------------------------
(* One lemma per action                                                    *)

\* processNextStage
LEMMA ProcessNextKeeps ==
    ASSUME IInv, NEW w \in Workflow, NEW f, NEW m, NEW t \in m.tracked \cup {NoTask},
           BooksAgree(f, m, t), ManagerOK(m, t),
           flow[w].status # "Completed", f.status # "None",
           f.status = flow[w].status \/ (f.status = "Running" /\ flow[w].status \notin Over),
           f.status = "Running" /\ StartableStages(f) # {} => Len(m.task) < MaxTasks,
           f.status = "Running" /\ ~f.stages[Parsing].done => Len(m.task) + 1 < MaxTasks,
           ProcessNextStage(w, f, m, t),
           active' = active \/ active' = active \cup {w},
           UNCHANGED <<joining, lost, crashed>>
    PROVE  IInv'
<1>1. f \in FlowType /\ m \in Manager
  BY DEF BooksAgree, ManagerOK
<1>2. /\ active' \subseteq Workflow /\ (w \in active => w \in active')
      /\ \A v \in Workflow : v # w => (v \in active' <=> v \in active)
      /\ lost \subseteq lost' /\ lost' \subseteq Workflow
      /\ joining' \in Workflow \cup {Nobody} /\ crashed' \in BOOLEAN
  BY DEF IInv, Rest
<1>3. w \in leaving => w \in active /\ flow[w].status \in Over
  BY DEF IInv, BuildOK
<1>4. flow = [v \in Workflow |-> flow[v]] /\ mgr = [v \in Workflow |-> mgr[v]]
  BY DEF IInv, Rest
<1>5. CASE StartableStages(f) # {}
  <2> DEFINE s == FirstOf(StartableStages(f))
             c == CreateTask(m, s, InputOf(f, s))
             g == [f EXCEPT !.stages[s].task = Len(c.task)]
             n == Leave(c, t)
  <2>1. /\ s \in Stage /\ f.status = "Running" /\ ~f.stages[s].done
        /\ s = Embedding => f.stages[Parsing].done
        /\ s = Parsing => ~f.stages[Parsing].done
    BY <1>1, <1>5, FirstStartable
  <2>2. StartStage(w, f, s, m, t)
    BY <1>5 DEF ProcessNextStage
  <2>3. flow' = [flow EXCEPT ![w] = g] /\ mgr' = [mgr EXCEPT ![w] = n] /\ Keep
    BY <2>2 DEF StartStage
  <2> HIDE DEF s
  <2>4. Len(m.task) < MaxTasks /\ (s = Parsing => Len(m.task) + 1 < MaxTasks)
    BY <1>5, <2>1
  <2>5. BooksAgree(g, n, NoTask) /\ ManagerOK(n, NoTask) /\ Awaits(g, n) /\ g.status = f.status
    BY <2>1, <2>4, StartKeeps
  <2> HIDE DEF c, g, n
  <2>6. flow'[w] = g /\ mgr'[w] = n /\ flow' = [flow EXCEPT ![w] = flow'[w]]
        /\ mgr' = [mgr EXCEPT ![w] = mgr'[w]]
    BY <2>3, <1>4
  <2>7. /\ StoredOK(g, stored'[w], told'[w])
        /\ stored' = [stored EXCEPT ![w] = stored'[w]] /\ told' = [told EXCEPT ![w] = told'[w]]
        /\ leaving' \subseteq Workflow
        /\ \A v \in Workflow : v # w => (v \in leaving' <=> v \in leaving)
    BY <2>3, KeepKeeps
  <2>8. w \in leaving' => w \in active' /\ g.status \in Over
    BY <2>1, <2>3, <2>5, <1>2, <1>3 DEF Keep
  <2>9. BuildOK(w)'
    BY <2>5, <2>6, <2>7, <2>8, BuildParts
  <2> QED
    BY <2>6, <2>7, <2>9, <1>2, BuildMoves DEF Only
<1>6. CASE StartableStages(f) = {}
  <2> DEFINE g == Concluded(f)
             n == Leave(m, t)
  <2>1. /\ flow' = [flow EXCEPT ![w] = g] /\ mgr' = [mgr EXCEPT ![w] = n]
        /\ IF g # f THEN Announce(w, g) ELSE Keep
    BY <1>6 DEF ProcessNextStage
  <2>2. ManagerOK(n, NoTask) /\ SameTasks(m, n) /\ n.tracked = m.tracked \ {t}
    BY LeaveKeeps
  <2>3. BooksAgree(f, n, NoTask)
    BY <2>2, <1>1, BooksKept DEF ManagerOK
  <2>4. /\ f.status = "Running" => /\ g = [f EXCEPT !.status = "Completed"]
                                   /\ f.stages[Parsing].done /\ f.stages[Embedding].done
                                   /\ g # f
        /\ f.status # "Running" => g = f
    BY <1>6, ConcludedIs
  <2> HIDE DEF g, n
  <2>5. flow'[w] = g /\ mgr'[w] = n /\ flow' = [flow EXCEPT ![w] = flow'[w]]
        /\ mgr' = [mgr EXCEPT ![w] = mgr'[w]]
    BY <2>1, <1>4
  <2>6. CASE f.status = "Running"
    <3>1. g.status = "Completed" /\ g.completed = f.completed /\ g.stages = f.stages /\ g \in FlowType
      BY <2>4, <2>6, <1>1 DEF FlowType, Status
    <3>2. BooksAgree(g, n, NoTask)
      BY <3>1, <2>3, <2>4, <2>6 DEF BooksAgree, TasksFit
    <3>3. Announce(w, g) /\ g.status \in Over
      BY <2>1, <2>4, <2>6, <3>1 DEF Over
    <3>4. /\ StoredOK(g, stored'[w], told'[w])
          /\ stored' = [stored EXCEPT ![w] = stored'[w]] /\ told' = [told EXCEPT ![w] = told'[w]]
          /\ leaving' \subseteq Workflow
          /\ \A v \in Workflow : v # w => (v \in leaving' <=> v \in leaving)
          /\ w \in leaving' => w \in active
      BY <3>2, <3>3, AnnounceKeeps
    <3>5. BuildOK(w)'
      BY <3>1, <3>2, <3>3, <3>4, <2>2, <2>5, <1>2, BuildParts
    <3> QED
      BY <3>4, <3>5, <2>5, <1>2, BuildMoves DEF Only
  <2>7. CASE f.status # "Running"
    <3>1. g = f /\ Keep /\ f.status = flow[w].status
      BY <2>1, <2>4, <2>7
    <3>2. /\ StoredOK(f, stored'[w], told'[w])
          /\ stored' = [stored EXCEPT ![w] = stored'[w]] /\ told' = [told EXCEPT ![w] = told'[w]]
          /\ leaving' \subseteq Workflow
          /\ \A v \in Workflow : v # w => (v \in leaving' <=> v \in leaving)
      BY <3>1, KeepKeeps
    <3>3. w \in leaving' => w \in active' /\ f.status \in Over
      BY <3>1, <1>2, <1>3 DEF Keep
    <3>4. BuildOK(w)'
      BY <3>1, <3>2, <3>3, <2>2, <2>3, <2>5, <2>7, BuildParts
    <3> QED
      BY <3>2, <3>4, <2>5, <1>2, BuildMoves DEF Only
  <2> QED
    BY <2>6, <2>7
<1> QED
  BY <1>5, <1>6

LEMMA BuildIndexKeeps ==
    ASSUME IInv, NEW w \in Workflow, BuildIndex(w)
    PROVE  IInv'
<1> DEFINE f == StartWorkflow(IndexBuilding)
<1>1. /\ f \in FlowType /\ f.status = "Running"
      /\ BooksAgree(f, NewManager, NoTask)
  BY NewFlow
<1>2. ManagerOK(NewManager, NoTask) /\ Len(NewManager.task) = 0
  BY NewManagerOK
<1>3. MaxTasks \in Nat /\ 0 < MaxTasks /\ 0 + 1 < MaxTasks
  BY WorkflowAssumption DEF WorkflowAssumption
<1>4. /\ flow[w].status = "None" /\ active' = active \cup {w}
      /\ ProcessNextStage(w, f, NewManager, NoTask)
      /\ UNCHANGED <<joining, lost, crashed>>
  BY DEF BuildIndex
<1>5. "None" # "Completed" /\ "None" \notin Over
  BY DEF Over
<1> HIDE DEF f
<1>6. NoTask \in NewManager.tracked \cup {NoTask}
  OBVIOUS
<1> QED
  BY <1>1, <1>2, <1>3, <1>4, <1>5, <1>6, ProcessNextKeeps

LEMMA ResumeKeeps ==
    ASSUME IInv, NEW w \in Workflow, ResumeWorkflow(w)
    PROVE  IInv'
<1> DEFINE f == [flow[w] EXCEPT !.status = "Running"]
           m == mgr[w]
<1>1. /\ flow[w].status = "Paused" /\ Len(m.task) < MaxTasks - 1
      /\ ProcessNextStage(w, f, m, NoTask)
      /\ UNCHANGED <<active, joining, lost, crashed>>
  BY DEF ResumeWorkflow
<1>2. BooksAgree(flow[w], m, NoTask) /\ ManagerOK(m, NoTask) /\ flow[w] \in FlowType
  BY DEF IInv, BuildOK, BooksAgree
<1>3. f.status = "Running" /\ f.stages = flow[w].stages /\ f.completed = flow[w].completed
      /\ f \in FlowType
  BY <1>2 DEF FlowType, Status
<1>4. Len(m.task) \in Nat /\ MaxTasks \in Nat
  BY <1>2, ManagerFields, WorkflowAssumption DEF ManagerOK, WorkflowAssumption
<1> HIDE DEF f, m
<1>5. BooksAgree(f, m, NoTask)
  BY <1>1, <1>2, <1>3 DEF BooksAgree, TasksFit
<1>6. "Paused" # "Completed" /\ "Paused" \notin Over
  BY DEF Over
<1>7. Len(m.task) < MaxTasks /\ Len(m.task) + 1 < MaxTasks
  BY <1>1, <1>4
<1>8. NoTask \in m.tracked \cup {NoTask}
  OBVIOUS
<1> QED
  BY <1>1, <1>2, <1>3, <1>5, <1>6, <1>7, <1>8, ProcessNextKeeps

LEMMA PauseKeeps ==
    ASSUME IInv, NEW w \in Workflow, PauseWorkflow(w)
    PROVE  IInv'
<1> DEFINE f == [flow[w] EXCEPT !.status = "Paused"]
<1>1. /\ flow[w].status = "Running" /\ flow' = [flow EXCEPT ![w] = f]
      /\ UNCHANGED <<mgr, active, leaving, stored, told, joining, lost, crashed>>
  BY DEF PauseWorkflow
<1>2. BooksAgree(flow[w], mgr[w], NoTask) /\ ManagerOK(mgr[w], NoTask) /\ flow[w] \in FlowType
      /\ StoredOK(flow[w], stored[w], told[w]) /\ (w \in leaving => flow[w].status \in Over)
  BY DEF IInv, BuildOK, BooksAgree
<1>3. f.status = "Paused" /\ f.stages = flow[w].stages /\ f.completed = flow[w].completed
      /\ f \in FlowType
  BY <1>2 DEF FlowType, Status
<1> HIDE DEF f
<1>4. BooksAgree(f, mgr[w], NoTask)
  BY <1>1, <1>2, <1>3 DEF BooksAgree, TasksFit
<1>5. StoredOK(f, stored[w], told[w])
  BY <1>1, <1>2 DEF StoredOK
<1>6. w \notin leaving
  BY <1>1, <1>2 DEF Over
<1>7. /\ flow'[w] = f /\ mgr'[w] = mgr[w] /\ flow' = [flow EXCEPT ![w] = flow'[w]]
      /\ mgr' = [mgr EXCEPT ![w] = mgr'[w]]
      /\ stored' = [stored EXCEPT ![w] = stored'[w]] /\ told' = [told EXCEPT ![w] = told'[w]]
  BY <1>1 DEF IInv, Rest
<1>8. BuildOK(w)'
  BY <1>1, <1>2, <1>3, <1>4, <1>5, <1>6, <1>7, BuildParts
<1>9. Only(w)
  BY <1>1, <1>7 DEF Only, IInv, Rest
<1> QED
  BY <1>8, <1>9, BuildMoves

LEMMA CancelKeeps ==
    ASSUME IInv, NEW w \in Workflow, CancelWorkflow(w)
    PROVE  IInv'
<1> DEFINE f == [flow[w] EXCEPT !.status = "Cancelled"]
<1>1. /\ flow[w].status \notin {"Completed", "Cancelled"} /\ flow' = [flow EXCEPT ![w] = f]
      /\ Announce(w, flow'[w])
      /\ UNCHANGED <<mgr, active, joining, lost, crashed>>
  BY DEF CancelWorkflow
<1>2. BooksAgree(flow[w], mgr[w], NoTask) /\ ManagerOK(mgr[w], NoTask) /\ flow[w] \in FlowType
  BY DEF IInv, BuildOK, BooksAgree
<1>3. f.status = "Cancelled" /\ f.stages = flow[w].stages /\ f.completed = flow[w].completed
      /\ f \in FlowType
  BY <1>2 DEF FlowType, Status
<1> HIDE DEF f
<1>4. BooksAgree(f, mgr[w], NoTask) /\ f.status \in Over
  BY <1>1, <1>2, <1>3 DEF BooksAgree, TasksFit, Over
<1>5. /\ flow'[w] = f /\ mgr'[w] = mgr[w] /\ flow' = [flow EXCEPT ![w] = flow'[w]]
      /\ mgr' = [mgr EXCEPT ![w] = mgr'[w]]
  BY <1>1 DEF IInv, Rest
<1>6. /\ StoredOK(f, stored'[w], told'[w])
      /\ stored' = [stored EXCEPT ![w] = stored'[w]] /\ told' = [told EXCEPT ![w] = told'[w]]
      /\ leaving' \subseteq Workflow
      /\ \A v \in Workflow : v # w => (v \in leaving' <=> v \in leaving)
      /\ w \in leaving' => w \in active
  BY <1>1, <1>4, <1>5, AnnounceKeeps
<1>7. BuildOK(w)'
  BY <1>1, <1>2, <1>3, <1>4, <1>5, <1>6, BuildParts
<1>8. Only(w)
  BY <1>1, <1>5, <1>6 DEF Only, IInv, Rest
<1> QED
  BY <1>7, <1>8, BuildMoves

\* A manager that changed while the flow did not, and lost no awaited task.
LEMMA ManagerMoves ==
    ASSUME IInv, NEW w \in Workflow, NEW n, mgr' = [mgr EXCEPT ![w] = n],
           ManagerOK(n, NoTask), BooksAgree(flow[w], n, NoTask),
           UNCHANGED <<flow, stored, told>>,
           w \in leaving' => w \in leaving /\ w \in active', w \in active' => w \in active,
           active' \subseteq Workflow, leaving' \subseteq Workflow,
           \A v \in Workflow : v # w => (v \in active' <=> v \in active) /\ (v \in leaving' <=> v \in leaving),
           lost \subseteq lost', lost' \subseteq Workflow,
           joining' \in Workflow \cup {Nobody}, crashed' \in BOOLEAN,
           flow[w].status = "Running" /\ w \notin lost' /\ Awaits(flow[w], mgr[w]) => Awaits(flow[w], n)
    PROVE  IInv'
<1>1. BuildOK(w)
  BY DEF IInv
<1>2. /\ flow'[w] = flow[w] /\ mgr'[w] = n /\ flow' = [flow EXCEPT ![w] = flow'[w]]
      /\ mgr' = [mgr EXCEPT ![w] = mgr'[w]]
      /\ stored'[w] = stored[w] /\ told'[w] = told[w]
      /\ stored' = [stored EXCEPT ![w] = stored'[w]] /\ told' = [told EXCEPT ![w] = told'[w]]
  BY DEF IInv, Rest
<1>3. flow[w].status = "Running" => w \in lost' \/ Awaits(flow[w], n)
  BY <1>1 DEF BuildOK
<1>4. /\ StoredOK(flow[w], stored'[w], told'[w])
      /\ w \in leaving' => w \in active' /\ flow[w].status \in Over
      /\ w \in active' => flow[w].status # "None"
  BY <1>1, <1>2 DEF BuildOK
<1>5. BuildOK(w)'
  BY <1>2, <1>3, <1>4, BuildParts
<1> QED
  BY <1>2, <1>5, BuildMoves DEF Only

LEMMA DeliverKeeps ==
    ASSUME IInv, NEW w \in Workflow, Deliver(w)
    PROVE  IInv'
<1> DEFINE t == Head(mgr[w].inbox)
           m == [mgr[w] EXCEPT !.inbox = Tail(@)]
           s == m.task[t].stage
           f == flow[w]
<1>1. /\ mgr[w].inbox # <<>>
      /\ UNCHANGED <<active, joining, lost, crashed>>
  BY DEF Deliver
<1>2. /\ BooksAgree(f, mgr[w], NoTask) /\ ManagerOK(mgr[w], NoTask) /\ f \in FlowType
      /\ StoredOK(f, stored[w], told[w]) /\ (w \in leaving => w \in active /\ f.status \in Over)
      /\ f.status = "Running" => w \in lost \/ Awaits(f, mgr[w])
  BY DEF IInv, BuildOK, BooksAgree
<1>3. /\ ManagerOK(m, t) /\ SameTasks(mgr[w], m) /\ m.tracked = mgr[w].tracked
      /\ m.task = mgr[w].task
  BY <1>1, <1>2, TakenKeeps
<1>4. IF t \notin m.tracked
      THEN mgr' = [mgr EXCEPT ![w] = m] /\ Keep /\ UNCHANGED flow
      ELSE IF ~IsCurrent(f, s, t)
      THEN mgr' = [mgr EXCEPT ![w] = Leave(m, t)] /\ Keep /\ UNCHANGED flow
      ELSE IF ValidResults(m.task[t].outcome)
      THEN ProcessNextStage(w, CompleteStage(f, s, ResultOf(m, t)), m, t)
      ELSE /\ flow' = [flow EXCEPT ![w] = FailStage(f, s)]
           /\ mgr' = [mgr EXCEPT ![w] = Leave(m, t)]
           /\ Announce(w, FailStage(f, s))
  BY DEF Deliver
<1> HIDE DEF m, t
<1>5. m \in Manager /\ mgr[w] \in Manager /\ m.tracked \subseteq DOMAIN m.task /\ DOMAIN m.task = 1..Len(m.task)
      /\ NoTask \notin m.tracked /\ m.tracked \subseteq Id
  BY <1>2, <1>3, ManagerFields DEF ManagerOK, NoTask, Id
<1>6. BooksAgree(f, m, t)
  <2>1. m.tracked \ {t} \subseteq mgr[w].tracked \ {NoTask}
    BY <1>3, <1>5
  <2> QED
    BY <2>1, <1>2, <1>3, <1>5, BooksKept
<1>7. CASE t \notin m.tracked
  <2>1. mgr' = [mgr EXCEPT ![w] = m] /\ Keep /\ UNCHANGED flow
    BY <1>4, <1>7
  <2>2. ManagerOK(m, NoTask)
    BY <1>3, <1>7 DEF ManagerOK
  <2>3. BooksAgree(f, m, NoTask)
    BY <1>6, <1>7 DEF BooksAgree
  <2>4. Awaits(f, mgr[w]) => Awaits(f, m)
    BY <1>3 DEF Awaits
  <2> QED
    BY <2>1, <2>2, <2>3, <2>4, <1>1, <1>2, ManagerMoves DEF Keep, IInv, Rest
<1>8. CASE t \in m.tracked /\ ~IsCurrent(f, s, t)
  <2> DEFINE n == Leave(m, t)
  <2>1. mgr' = [mgr EXCEPT ![w] = n] /\ Keep /\ UNCHANGED flow
    BY <1>4, <1>8
  <2>2. ManagerOK(n, NoTask) /\ SameTasks(m, n) /\ n.tracked = m.tracked \ {t}
    BY <1>3, <1>8, LeaveKeeps
  <2> HIDE DEF n
  <2>3. BooksAgree(f, n, NoTask)
    BY <1>5, <1>6, <2>2, BooksKept DEF ManagerOK
  <2>4. Awaits(f, mgr[w]) => Awaits(f, n)
    <3> SUFFICES ASSUME NEW u \in Stage, ~f.stages[u].done, f.stages[u].task \in m.tracked
        PROVE  Awaits(f, n)
      BY <1>3 DEF Awaits
    <3>1. f.stages[u].task # NoTask
      BY <1>5
    <3>2. m.task[f.stages[u].task].stage = u
      BY <1>6, <3>1 DEF BooksAgree, TasksFit
    <3>3. f.stages[u].task # t
      BY <3>2, <1>8 DEF IsCurrent
    <3> QED
      BY <3>3, <2>2 DEF Awaits
  <2> QED
    BY <2>1, <2>2, <2>3, <2>4, <1>1, <1>2, ManagerMoves DEF Keep, IInv, Rest
<1>9. CASE t \in m.tracked /\ IsCurrent(f, s, t)
  <2>1. s \in Stage /\ t \in DOMAIN m.task /\ m.task[t] \in TaskRecord /\ t \in Id
    <3>1. t \in DOMAIN m.task /\ m.task \in Seq(TaskRecord) /\ t \in Id
      BY <1>5, <1>9, ManagerFields
    <3>2. m.task[t] \in TaskRecord
      BY <3>1
    <3> QED
      BY <3>1, <3>2, TaskFields
  <2>2. f.stages[s].task = t
    BY <1>9 DEF IsCurrent
  <2>3. ~f.stages[s].done
    BY <1>2, <1>3, <1>5, <1>9, <2>1, <2>2 DEF BooksAgree
  <2>4. f.status # "Completed"
    BY <2>1, <2>3, <1>2, Stages DEF BooksAgree
  <2>5. f.status # "None"
    BY <2>1, <1>6 DEF BooksAgree
  <2> HIDE DEF s
  <2>6. CASE ValidResults(m.task[t].outcome)
    <3> DEFINE result == ResultOf(m, t)
               g == CompleteStage(f, s, result)
               x == [f.stages[s] EXCEPT !.done = TRUE, !.result = result]
               b == StageSet(f, s, x)
    <3>1. ProcessNextStage(w, g, m, t)
      BY <1>4, <1>9, <2>6 DEF s
    <3>2. result \in Id /\ (s = Parsing => result = t)
          /\ (s = Embedding => f.stages[Parsing].done /\ result = f.stages[Parsing].result)
      <4>1. CASE s = Parsing
        BY <4>1, <2>1, Stages DEF ResultOf, s
      <4>2. CASE s = Embedding
        <5>1. f.stages[Parsing].done /\ m.task[t].input = f.stages[Parsing].result
          BY <4>2, <2>2, <1>5, <1>6, <1>9 DEF BooksAgree, TasksFit
        <5>2. f.stages[Parsing].result \in Id
          BY <5>1, <1>2, Stages DEF BooksAgree
        <5> QED
          BY <4>2, <5>1, <5>2, Stages DEF ResultOf, s
      <4> QED
        BY <4>1, <4>2, <2>1, Stages
    <3> HIDE DEF result
    <3>3. x \in StageRecord /\ x.done /\ x.result = result /\ x.task = t /\ x.failed = f.stages[s].failed
      <4>1. f.stages[s] \in StageRecord /\ result \in 0..MaxTasks
        BY <1>2, <2>1, <3>2, FlowFields DEF Id
      <4> QED
        BY <4>1, <2>2 DEF StageRecord
    <3>4. g = [b EXCEPT !.completed = f.completed + 1]
      BY <1>2, <2>1, FlowFields DEF CompleteStage, FlowType, StageSet, StageRecord
    <3> HIDE DEF x
    <3>5. /\ b \in FlowType /\ b.status = f.status /\ b.completed = f.completed
          /\ b.stages[s] = x /\ \A u \in Stage : u # s => b.stages[u] = f.stages[u]
      <4>1. LET h == StageSet(f, s, x)
            IN  /\ h \in FlowType
                /\ h.status = f.status /\ h.completed = f.completed
                /\ h.stages[s] = x /\ \A u \in Stage : u # s => h.stages[u] = f.stages[u]
        BY <1>2, <2>1, <3>3, StageSetIs
      <4> QED
        BY <4>1
    <3> HIDE DEF b, g
    <3>6. f.completed + 1 \in 0..2 /\ (IF b.stages[Parsing].done THEN 1 ELSE 0)
             + (IF b.stages[Embedding].done THEN 1 ELSE 0) = f.completed + 1
      BY <3>3, <3>5, <2>1, <2>3, <1>2, Stages DEF BooksAgree
    <3>7. g \in FlowType /\ g.status = f.status /\ g.completed = f.completed + 1 /\ g.stages = b.stages
      BY <3>4, <3>5, <3>6 DEF FlowType
    <3>8. BooksAgree(g, m, t)
      <4>1. TasksFit(f, m)
        BY <1>6 DEF BooksAgree
      <4>2. \A u \in Stage : b.stages[u].task = f.stages[u].task /\ b.stages[u].failed = f.stages[u].failed
        BY <2>2, <3>3, <3>5
      <4>3. \A u \in Stage : u # s => b.stages[u].done = f.stages[u].done
                                      /\ b.stages[u].result = f.stages[u].result
        BY <3>5
      <4>4. f.stages[Embedding].task # NoTask => b.stages[Parsing].result = f.stages[Parsing].result
                                                 /\ b.stages[Parsing].done
        <5>1. CASE s = Parsing
          BY <5>1, <2>3, <4>1 DEF TasksFit
        <5>2. CASE s # Parsing
          BY <5>2, <4>1, <4>3, Stages DEF TasksFit
        <5> QED
          BY <5>1, <5>2
      <4>5. TasksFit(g, m)
        BY <4>1, <4>2, <4>4, <3>7, Stages DEF TasksFit
      <4>6. \A u \in Stage : g.stages[u].done =>
              /\ g.stages[u].task # NoTask /\ g.stages[u].task \notin m.tracked \ {t}
              /\ g.stages[u].result \in Id
              /\ g.stages[u].result = g.stages[Parsing].result
        <5> SUFFICES ASSUME NEW u \in Stage, b.stages[u].done
            PROVE  /\ b.stages[u].task # NoTask /\ b.stages[u].task \notin m.tracked \ {t}
                   /\ b.stages[u].result \in Id
                   /\ b.stages[u].result = b.stages[Parsing].result
          BY <3>7
        <5>1. CASE u = s
          <6>1. b.stages[u].task = t /\ b.stages[u].result = result
            BY <5>1, <3>3, <3>5
          <6>2. result = b.stages[Parsing].result
            BY <3>2, <3>3, <3>5, <2>1, Stages
          <6> QED
            BY <6>1, <6>2, <3>2, <1>5, <1>9
        <5>2. CASE u # s
          <6>1. f.stages[u].done /\ b.stages[u].result = f.stages[u].result
            BY <5>2, <4>3
          <6>2. /\ f.stages[u].task # NoTask /\ f.stages[u].task \notin m.tracked \ {t}
                /\ f.stages[u].result \in Id
                /\ f.stages[u].result = f.stages[Parsing].result
            BY <6>1, <1>6 DEF BooksAgree
          <6>3. s # Parsing
            <7> SUFFICES ASSUME s = Parsing PROVE FALSE
              OBVIOUS
            <7>1. u = Embedding
              BY <5>2, Stages
            <7> QED
              BY <7>1, <6>2, <4>1, <2>3 DEF TasksFit
          <6>4. b.stages[Parsing].result = f.stages[Parsing].result
            BY <6>3, <4>3, Stages
          <6> QED
            BY <6>1, <6>2, <6>4, <4>2
        <5> QED
          BY <5>1, <5>2
      <4>7. /\ \A u \in Stage : g.stages[u].failed => g.status \in {"Failed", "Cancelled"}
            /\ g.status # "Completed" /\ g.status # "None"
        BY <4>2, <3>7, <2>4, <2>5, <1>6 DEF BooksAgree
      <4>8. ~g.stages[Parsing].done => Len(m.task) < MaxTasks
        BY <3>3, <3>5, <3>7, <4>3, <1>6, Stages DEF BooksAgree
      <4> QED
        BY <3>6, <3>7, <4>5, <4>6, <4>7, <4>8 DEF BooksAgree
    <3>9. g.stages[Parsing].done
      BY <3>2, <3>3, <3>5, <3>7, <2>1, Stages
    <3>10. StartableStages(g) # {} => Len(m.task) < MaxTasks
      <4> SUFFICES ASSUME StartableStages(g) # {} PROVE Len(m.task) < MaxTasks
        OBVIOUS
      <4>1. s # Embedding
        <5> SUFFICES ASSUME s = Embedding PROVE FALSE
          OBVIOUS
        <5>1. g.stages[Embedding].done
          BY <3>3, <3>5, <3>7
        <5> QED
          BY <5>1, <3>9, Stages DEF StartableStages
      <4>2. ~f.stages[Parsing].done
        BY <4>1, <2>1, <2>3, Stages
      <4> QED
        BY <4>2, <1>6 DEF BooksAgree
    <3> QED
      BY <3>1, <3>7, <3>8, <3>9, <3>10, <1>1, <1>3, <1>9, <2>4, <2>5, ProcessNextKeeps
  <2>7. CASE ~ValidResults(m.task[t].outcome)
    <3> DEFINE g == FailStage(f, s)
               n == Leave(m, t)
               x == [f.stages[s] EXCEPT !.failed = TRUE]
               b == StageSet(f, s, x)
    <3>1. flow' = [flow EXCEPT ![w] = g] /\ mgr' = [mgr EXCEPT ![w] = n] /\ Announce(w, g)
      BY <1>4, <1>9, <2>7 DEF s
    <3>2. ManagerOK(n, NoTask) /\ SameTasks(m, n) /\ n.tracked = m.tracked \ {t}
      BY <1>3, <1>9, LeaveKeeps
    <3> HIDE DEF n
    <3>3. BooksAgree(f, n, NoTask)
      BY <1>5, <1>6, <3>2, BooksKept DEF ManagerOK
    <3>4. x \in StageRecord /\ x.done = f.stages[s].done /\ x.result = f.stages[s].result /\ x.task = t
      <4>1. f.stages[s] \in StageRecord
        BY <1>2, <2>1, FlowFields
      <4> QED
        BY <4>1, <2>2 DEF StageRecord
    <3>5. g = [b EXCEPT !.status = "Failed"]
      BY <1>2, <2>1, FlowFields DEF FailStage, FlowType, StageSet, StageRecord
    <3> HIDE DEF x
    <3>6. /\ b \in FlowType /\ b.status = f.status /\ b.completed = f.completed
          /\ b.stages[s] = x /\ \A u \in Stage : u # s => b.stages[u] = f.stages[u]
      <4>1. LET h == StageSet(f, s, x)
            IN  /\ h \in FlowType
                /\ h.status = f.status /\ h.completed = f.completed
                /\ h.stages[s] = x /\ \A u \in Stage : u # s => h.stages[u] = f.stages[u]
        BY <1>2, <2>1, <3>4, StageSetIs
      <4> QED
        BY <4>1
    <3> HIDE DEF b, g
    <3>7. g \in FlowType /\ g.status = "Failed" /\ g.completed = f.completed /\ g.stages = b.stages
      BY <3>5, <3>6 DEF FlowType, Status
    <3>8. BooksAgree(g, n, NoTask)
      <4>1. \A u \in Stage : /\ g.stages[u].task = f.stages[u].task /\ g.stages[u].done = f.stages[u].done
                             /\ g.stages[u].result = f.stages[u].result
        BY <2>2, <3>4, <3>6, <3>7
      <4>2. TasksFit(g, n)
        BY <4>1, <3>3, Stages DEF BooksAgree, TasksFit
      <4>3. "Failed" # "Completed"
        OBVIOUS
      <4> QED
        BY <4>1, <4>2, <4>3, <3>3, <3>7, Stages DEF BooksAgree
    <3>9. g.status \in Over
      BY <3>7 DEF Over
    <3>10. /\ StoredOK(g, stored'[w], told'[w])
           /\ stored' = [stored EXCEPT ![w] = stored'[w]] /\ told' = [told EXCEPT ![w] = told'[w]]
           /\ leaving' \subseteq Workflow
           /\ \A v \in Workflow : v # w => (v \in leaving' <=> v \in leaving)
           /\ w \in leaving' => w \in active
      BY <3>1, <3>8, <3>9, <2>4, AnnounceKeeps
    <3>11. flow'[w] = g /\ mgr'[w] = n /\ flow' = [flow EXCEPT ![w] = flow'[w]]
           /\ mgr' = [mgr EXCEPT ![w] = mgr'[w]]
      BY <3>1 DEF IInv, Rest
    <3>12. BuildOK(w)'
      BY <1>1, <3>2, <3>7, <3>8, <3>9, <3>10, <3>11, BuildParts
    <3> QED
      BY <1>1, <3>10, <3>11, <3>12, BuildMoves DEF Only, IInv, Rest
  <2> QED
    BY <2>6, <2>7
<1> QED
  BY <1>7, <1>8, <1>9

LEMMA StageQueuesKeep ==
    ASSUME IInv, NEW w \in Workflow, ProcessStageQueues(w)
    PROVE  IInv'
<1> DEFINE m == mgr[w]
           k == ScheduleNextStageTask(m, Parsing)
           started == ScheduleNextStageTask(k, Embedding)
           n == CleanupCompletedTasks(started)
           awaited == {t \in Ended(started) : \E s \in Stage :
                          flow[w].stages[s].task = t /\ ~flow[w].stages[s].done}
<1>1. BooksAgree(flow[w], m, NoTask) /\ ManagerOK(m, NoTask)
  BY DEF IInv, BuildOK
<1>2. /\ mgr' = [mgr EXCEPT ![w] = n]
      /\ lost' = (IF awaited # {} THEN lost \cup {w} ELSE lost)
      /\ UNCHANGED <<flow, active, leaving, stored, told, joining, crashed>>
  BY DEF ProcessStageQueues
<1> HIDE DEF m
<1>3. ManagerOK(k, NoTask) /\ SameTasks(m, k) /\ k.tracked = m.tracked
  BY <1>1, Stages, ScheduleKeeps
<1> HIDE DEF k
<1>4. ManagerOK(started, NoTask) /\ SameTasks(k, started) /\ started.tracked = k.tracked
  BY <1>3, Stages, ScheduleKeeps
<1> HIDE DEF started
<1>5. ManagerOK(n, NoTask) /\ SameTasks(started, n) /\ n.tracked = started.tracked \ Ended(started)
  BY <1>4, CleanupKeeps
<1> HIDE DEF n
<1>6. BooksAgree(flow[w], k, NoTask)
  BY <1>1, <1>3, BooksKept DEF ManagerOK
<1>7. BooksAgree(flow[w], started, NoTask)
  BY <1>3, <1>4, <1>6, BooksKept DEF ManagerOK
<1>8. BooksAgree(flow[w], n, NoTask)
  BY <1>4, <1>5, <1>7, BooksKept DEF ManagerOK
<1>9. w \notin lost' /\ Awaits(flow[w], m) => Awaits(flow[w], n)
  <2> SUFFICES ASSUME w \notin lost', NEW s \in Stage, ~flow[w].stages[s].done,
                      flow[w].stages[s].task \in m.tracked
      PROVE  Awaits(flow[w], n)
    BY DEF Awaits
  <2>1. awaited = {}
    BY <1>2
  <2>2. flow[w].stages[s].task \notin Ended(started)
    BY <2>1
  <2> QED
    BY <2>2, <1>3, <1>4, <1>5 DEF Awaits
<1>10. lost \subseteq lost' /\ lost' \subseteq Workflow
  BY <1>2 DEF IInv, Rest
<1>11. w \in leaving => w \in active
  BY DEF IInv, BuildOK
<1> HIDE DEF awaited
<1>12. w \notin lost' /\ Awaits(flow[w], mgr[w]) => Awaits(flow[w], n)
  BY <1>9 DEF m
<1> QED
  BY <1>2, <1>5, <1>8, <1>10, <1>11, <1>12, ManagerMoves DEF IInv, Rest

LEMMA UnregisterKeeps ==
    ASSUME IInv, NEW w \in Workflow, UnregisterWorkflow(w)
    PROVE  IInv'
<1> DEFINE m == mgr[w]
           n == [m EXCEPT !.tracked = {}, !.running = {}, !.inbox = <<>>, !.queue = [s \in Stage |-> <<>>]]
<1>1. /\ w \in leaving /\ leaving' = leaving \ {w} /\ active' = active \ {w} /\ joining' = w
      /\ UNCHANGED <<flow, stored, told, lost, crashed>>
  BY DEF UnregisterWorkflow
<1>2. BooksAgree(flow[w], m, NoTask) /\ ManagerOK(m, NoTask) /\ m \in Manager
      /\ flow[w].status \in Over
  BY <1>1 DEF IInv, BuildOK, ManagerOK
<1>3. mgr' = [mgr EXCEPT ![w] = n]
  BY DEF UnregisterWorkflow, IInv, Rest
<1>4. n \in Manager /\ n.task = m.task /\ n.tracked = {} /\ n.running = {}
  <2> DEFINE q == [s \in Stage |-> <<>>]
             i == <<>>
  <2>1. q \in [Stage -> Seq(Id)] /\ i \in Seq(Id)
    OBVIOUS
  <2>2. n = [m EXCEPT !.tracked = {}, !.running = {}, !.inbox = i, !.queue = q]
    OBVIOUS
  <2> HIDE DEF n, m, q, i
  <2> QED
    BY <1>2, <2>1, <2>2 DEF Manager
<1> HIDE DEF n, m
<1>5. ManagerOK(n, NoTask) /\ SameTasks(m, n)
  BY <1>2, <1>4 DEF ManagerOK, SameTasks
<1>6. BooksAgree(flow[w], n, NoTask)
  BY <1>2, <1>4, <1>5, BooksKept
<1>7. flow[w].status # "Running"
  BY <1>2 DEF Over
<1> QED
  BY <1>1, <1>3, <1>5, <1>6, <1>7, ManagerMoves DEF IInv, Rest

LEMMA JoinKeeps ==
    ASSUME IInv, JoinDone
    PROVE  IInv'
<1>1. joining' = Nobody /\ UNCHANGED <<flow, mgr, active, leaving, stored, told, lost, crashed>>
  BY DEF JoinDone
<1>2. Rest'
  BY <1>1 DEF IInv, Rest
<1>3. ASSUME NEW w \in Workflow PROVE BuildOK(w)'
  BY <1>1 DEF IInv, BuildOK
<1> QED
  BY <1>2, <1>3 DEF IInv

\* A step of a pool thread that ManagerMoves can take.
LEMMA ThreadMoves ==
    ASSUME IInv, NEW w \in Workflow, NEW n, mgr' = [mgr EXCEPT ![w] = n],
           ManagerOK(n, NoTask), SameTasks(mgr[w], n), n.tracked = mgr[w].tracked,
           UNCHANGED <<flow, active, leaving, stored, told, joining, lost>>, crashed' \in BOOLEAN
    PROVE  IInv'
<1>1. BooksAgree(flow[w], mgr[w], NoTask) /\ mgr[w] \in Manager /\ n \in Manager
      /\ (w \in leaving => w \in active)
  BY DEF IInv, BuildOK, ManagerOK
<1>2. BooksAgree(flow[w], n, NoTask)
  BY <1>1, BooksKept
<1>3. Awaits(flow[w], mgr[w]) => Awaits(flow[w], n)
  BY DEF Awaits
<1> QED
  BY <1>1, <1>2, <1>3, ManagerMoves DEF IInv, Rest

LEMMA PoolThreadKeeps ==
    ASSUME IInv, NEW w \in Workflow, NEW t \in DOMAIN mgr[w].task, PoolThread(w, t)
    PROVE  IInv'
<1> DEFINE m == mgr[w]
<1>1. /\ ManagerOK(m, NoTask) /\ m \in Manager /\ m.task \in Seq(TaskRecord)
      /\ m.inbox \in Seq(Id) /\ m.tracked \subseteq Id
      /\ mgr = [v \in Workflow |-> mgr[v]] /\ crashed \in BOOLEAN
  BY ManagerFields DEF IInv, BuildOK, ManagerOK, Rest
<1>2. m.task[t] \in TaskRecord /\ t \in DOMAIN m.task
  BY <1>1
<1>3. m.task[t].outcome \in {"none", "full", "empty", "throws"}
  BY <1>2, TaskFields
<1>4. CASE Execute(w, t)
  <2>1. PICK o \in Outcomes \cap {"full", "empty", "throws"} :
            mgr' = [mgr EXCEPT ![w].task[t].thread = "closing", ![w].task[t].outcome = o,
                               ![w].inbox = IF o = "throws" THEN Append(@, t) ELSE @]
    BY <1>4 DEF Execute, ParserOutcomes, EmbeddingOutcomes
  <2>2. /\ t \in m.tracked /\ crashed' = crashed
        /\ UNCHANGED <<flow, active, leaving, stored, told, joining, lost, crashed>>
    BY <1>4 DEF Execute
  <2> DEFINE x == Moved(m.task[t], "closing", o)
             i == IF o = "throws" THEN Append(m.inbox, t) ELSE m.inbox
             n == Stepped(m, t, x, i)
  <2>3. mgr' = [mgr EXCEPT ![w] = n]
    BY <2>1, <1>1, <1>2 DEF Moved, TaskSet, Stepped
  <2>4. /\ x \in TaskRecord /\ x.stage = m.task[t].stage /\ x.input = m.task[t].input
        /\ x.thread = "closing" /\ x.outcome = o
    BY <1>2, MovedIs
  <2>5. /\ i \in Seq(Id) /\ Elems(m.inbox) \subseteq Elems(i)
        /\ o = "throws" => t \in Elems(i)
    BY <1>1, <2>2, AppendElems
  <2> HIDE DEF x, i
  <2>6. x.thread # "none" /\ x.thread # "returned"
    BY <2>4
  <2> HIDE DEF m
  <2>7. ManagerOK(n, NoTask) /\ SameTasks(m, n) /\ n.tracked = m.tracked
    BY <1>1, <2>4, <2>5, <2>6, <1>2, ThreadKeeps
  <2> HIDE DEF n
  <2> QED
    BY <1>1, <2>2, <2>3, <2>7, ThreadMoves DEF m
<1>5. CASE Report(w, t)
  <2>1. mgr' = [mgr EXCEPT ![w].task[t].thread = "returned",
                           ![w].inbox = IF mgr[w].task[t].outcome = "throws" THEN @ ELSE Append(@, t)]
    BY <1>5 DEF Report
  <2>2. /\ t \in m.tracked /\ crashed' = crashed /\ m.task[t].thread = "closing"
        /\ UNCHANGED <<flow, active, leaving, stored, told, joining, lost, crashed>>
    BY <1>5 DEF Report
  <2> DEFINE o == m.task[t].outcome
             x == Moved(m.task[t], "returned", o)
             i == IF o = "throws" THEN m.inbox ELSE Append(m.inbox, t)
             n == Stepped(m, t, x, i)
  <2>3. mgr' = [mgr EXCEPT ![w] = n]
    BY <2>1, <1>1, <1>2 DEF Moved, TaskSet, Stepped, TaskRecord
  <2>4. /\ x \in TaskRecord /\ x.stage = m.task[t].stage /\ x.input = m.task[t].input
        /\ x.thread = "returned"
    BY <1>2, <1>3, MovedIs
  <2>5. /\ i \in Seq(Id) /\ Elems(m.inbox) \subseteq Elems(i) /\ t \in Elems(i)
    <3>1. CASE o = "throws"
      <4>1. t # NoTask
        BY <1>1, <2>2 DEF Id, NoTask
      <4>2. CanReport(m, t)
        BY <1>1, <2>2, <4>1 DEF ManagerOK
      <4>3. t \in Elems(m.inbox)
        BY <3>1, <4>2, <2>2 DEF CanReport
      <4> QED
        BY <1>1, <3>1, <4>3
    <3>2. CASE o # "throws"
      BY <1>1, <2>2, <3>2, AppendElems
    <3> QED
      BY <3>1, <3>2
  <2> HIDE DEF x, i
  <2>6. x.thread # "none" /\ x.thread # "closing"
    BY <2>4
  <2> HIDE DEF m
  <2>7. ManagerOK(n, NoTask) /\ SameTasks(m, n) /\ n.tracked = m.tracked
    BY <1>1, <2>4, <2>5, <2>6, <1>2, ThreadKeeps
  <2> HIDE DEF n
  <2> QED
    BY <1>1, <2>2, <2>3, <2>7, ThreadMoves DEF m
<1>6. CASE Orphaned(w, t)
  <2>1. mgr' = [mgr EXCEPT ![w].task[t].thread = "returned"]
    BY <1>6 DEF Orphaned
  <2>2. /\ t \notin m.tracked /\ crashed' \in BOOLEAN
        /\ UNCHANGED <<flow, active, leaving, stored, told, joining, lost>>
    BY <1>6 DEF Orphaned
  <2> DEFINE o == m.task[t].outcome
             x == Moved(m.task[t], "returned", o)
             i == m.inbox
             n == Stepped(m, t, x, i)
  <2>3. mgr' = [mgr EXCEPT ![w] = n]
    BY <2>1, <1>1, <1>2 DEF Moved, TaskSet, Stepped, TaskRecord, Manager
  <2>4. /\ x \in TaskRecord /\ x.stage = m.task[t].stage /\ x.input = m.task[t].input
        /\ x.thread = "returned"
    BY <1>2, <1>3, MovedIs
  <2> HIDE DEF x
  <2>5. i \in Seq(Id) /\ Elems(m.inbox) \subseteq Elems(i)
    BY <1>1
  <2>6. x.thread # "none"
    BY <2>4
  <2> HIDE DEF m
  <2>7. ManagerOK(n, NoTask) /\ SameTasks(m, n) /\ n.tracked = m.tracked
    BY <1>1, <2>2, <2>4, <2>5, <2>6, <1>2, ThreadKeeps
  <2> HIDE DEF n
  <2> QED
    BY <1>1, <2>2, <2>3, <2>7, ThreadMoves DEF m
<1> QED
  BY <1>4, <1>5, <1>6 DEF PoolThread

-----------------------------------------------------------------------------
(* The invariant                                                           *)

LEMMA InitKeeps == Init => IInv
<1> SUFFICES ASSUME Init PROVE IInv
  OBVIOUS
<1>1. Rest
  BY DEF Init, Rest
<1>2. ASSUME NEW w \in Workflow PROVE BuildOK(w)
  <2> DEFINE f == flow[w]
             g == StartWorkflow(IndexBuilding)
  <2>1. /\ f = [IndexBuilding EXCEPT !.status = "None"] /\ mgr[w] = NewManager
        /\ stored[w] = <<>> /\ told[w] = 0 /\ leaving = {} /\ active = {}
    BY DEF Init
  <2>2. g \in FlowType /\ g.completed = 0 /\ BooksAgree(g, NewManager, NoTask)
        /\ \A s \in Stage : g.stages[s] = NewStage
    BY NewFlow
  <2>3. f \in FlowType /\ f.status = "None" /\ f.stages = g.stages /\ f.completed = g.completed
    BY <2>1, <2>2 DEF StartWorkflow, IndexBuilding, FlowType, Status
  <2> HIDE DEF f, g
  <2>4. ~NewStage.done /\ ~NewStage.failed
    BY DEF NewStage
  <2>5. \A s \in Stage : ~f.stages[s].done /\ ~f.stages[s].failed
    BY <2>2, <2>3, <2>4
  <2>6. TasksFit(f, NewManager) /\ (~f.stages[Parsing].done => Len(NewManager.task) < MaxTasks)
    BY <2>2, <2>3 DEF BooksAgree, TasksFit
  <2>7. f.completed = (IF f.stages[Parsing].done THEN 1 ELSE 0)
                      + (IF f.stages[Embedding].done THEN 1 ELSE 0)
    BY <2>2, <2>3 DEF BooksAgree
  <2>8. BooksAgree(f, NewManager, NoTask)
    BY <2>3, <2>5, <2>6, <2>7, NewManagerOK DEF BooksAgree
  <2>9. StoredOK(f, <<>>, 0)
    BY DEF StoredOK
  <2> QED
    BY <2>1, <2>3, <2>8, <2>9, NewManagerOK DEF BuildOK, f
<1> QED
  BY <1>1, <1>2 DEF IInv

LEMMA NextKeeps == IInv /\ [Next]_vars => IInv'
<1> SUFFICES ASSUME IInv, [Next]_vars PROVE IInv'
  OBVIOUS
<1>1. CASE UNCHANGED vars
  <2>1. Rest'
    BY <1>1 DEF IInv, Rest, vars
  <2>2. ASSUME NEW w \in Workflow PROVE BuildOK(w)'
    BY <1>1 DEF IInv, BuildOK, vars
  <2> QED
    BY <2>1, <2>2 DEF IInv
<1>2. ASSUME NEW w \in Workflow,
             \/ BuildIndex(w)
             \/ PauseWorkflow(w) \/ ResumeWorkflow(w) \/ CancelWorkflow(w)
             \/ Deliver(w) \/ ProcessStageQueues(w) \/ UnregisterWorkflow(w)
             \/ PoolStep(w)
      PROVE  IInv'
  <2>1. CASE BuildIndex(w)
    BY <2>1, BuildIndexKeeps
  <2>2. CASE PauseWorkflow(w)
    BY <2>2, PauseKeeps
  <2>3. CASE ResumeWorkflow(w)
    BY <2>3, ResumeKeeps
  <2>4. CASE CancelWorkflow(w)
    BY <2>4, CancelKeeps
  <2>5. CASE Deliver(w)
    BY <2>5, DeliverKeeps
  <2>6. CASE ProcessStageQueues(w)
    BY <2>6, StageQueuesKeep
  <2>7. CASE UnregisterWorkflow(w)
    BY <2>7, UnregisterKeeps
  <2>8. CASE PoolStep(w)
    BY <2>8, PoolThreadKeeps DEF PoolStep
  <2> QED
    BY <1>2, <2>1, <2>2, <2>3, <2>4, <2>5, <2>6, <2>7, <2>8
<1>3. CASE JoinDone
  BY <1>3, JoinKeeps
<1> QED
  BY <1>1, <1>2, <1>3 DEF Next

\* The books of every build agree with its manager's tasks in every state, for
\* any builds, pools and bound of tasks: an invariant that every step keeps.
THEOREM WorkflowInvariant == Spec => []IInv
<1> QED
  BY InitKeeps, NextKeeps, PTL DEF Spec

LEMMA CompletedIsCount ==
    ASSUME NEW w \in Workflow, BooksAgree(flow[w], mgr[w], NoTask)
    PROVE  flow[w].completed = Cardinality({s \in Stage : flow[w].stages[s].done})
<1> DEFINE D == {s \in Stage : flow[w].stages[s].done}
           p == flow[w].stages[Parsing].done
           e == flow[w].stages[Embedding].done
<1>1. Parsing # Embedding /\ Stage = {Parsing, Embedding}
  BY Stages
<1>2. CASE p /\ e
  <2>1. D = {Parsing, Embedding}
    BY <1>1, <1>2
  <2>2. IsFiniteSet({Parsing}) /\ Cardinality({Parsing}) = 1
    BY FS_Singleton
  <2>3. Cardinality({Parsing} \cup {Embedding}) = Cardinality({Parsing}) + 1
    BY <1>1, <2>2, FS_AddElement
  <2>4. {Parsing} \cup {Embedding} = D
    BY <2>1
  <2> QED
    BY <1>2, <2>2, <2>3, <2>4 DEF BooksAgree
<1>3. CASE p /\ ~e
  <2>1. D = {Parsing}
    BY <1>1, <1>3
  <2>2. Cardinality({Parsing}) = 1
    BY FS_Singleton
  <2>3. flow[w].completed = 1
    BY <1>3 DEF BooksAgree
  <2> QED
    BY <2>1, <2>2, <2>3
<1>4. CASE ~p /\ e
  <2>1. D = {Embedding}
    BY <1>1, <1>4
  <2>2. Cardinality({Embedding}) = 1
    BY FS_Singleton
  <2>3. flow[w].completed = 1
    BY <1>4 DEF BooksAgree
  <2> QED
    BY <2>1, <2>2, <2>3
<1>5. CASE ~p /\ ~e
  <2>1. D = {}
    BY <1>1, <1>5
  <2>2. Cardinality({}) = 0
    BY FS_EmptySet
  <2>3. flow[w].completed = 0
    BY <1>5 DEF BooksAgree
  <2> QED
    BY <2>1, <2>2, <2>3
<1> QED
  BY <1>2, <1>3, <1>4, <1>5

LEMMA InvariantAgrees == IInv => StagesAgree
<1> SUFFICES ASSUME IInv PROVE StagesAgree
  OBVIOUS
<1>1. WorkflowTypeOK
  <2>1. \A w \in Workflow : flow[w] \in FlowType /\ mgr[w] \in Manager
    BY DEF IInv, BuildOK, BooksAgree, ManagerOK
  <2>2. flow \in [Workflow -> FlowType] /\ mgr \in [Workflow -> Manager]
    BY <2>1 DEF IInv, Rest
  <2>3. \A w \in Workflow : mgr[w].running \subseteq mgr[w].tracked
                            /\ mgr[w].tracked \subseteq DOMAIN mgr[w].task
    BY DEF IInv, BuildOK, ManagerOK
  <2>4. active \subseteq Workflow /\ leaving \subseteq active
        /\ joining \in Workflow \cup {Nobody} /\ lost \subseteq Workflow /\ crashed \in BOOLEAN
    BY DEF IInv, Rest, BuildOK
  <2>5. \A w \in Workflow : stored[w] \in Seq([chunks : Id, vectors : Id]) /\ told[w] \in 0..1
    BY DEF IInv, BuildOK, StoredOK
  <2>6. stored \in [Workflow -> Seq([chunks : Id, vectors : Id])] /\ told \in [Workflow -> 0..1]
    BY <2>5 DEF IInv, Rest
  <2> QED
    BY <2>2, <2>3, <2>4, <2>6 DEF WorkflowTypeOK, FlowType
<1>2. VectorsMatchChunks
  BY DEF IInv, BuildOK, StoredOK, VectorsMatchChunks
<1>3. CompletedStagesCounted
  BY CompletedIsCount DEF CompletedStagesCounted, IInv, BuildOK
<1>4. RunningAwaitsTask
  <2> SUFFICES ASSUME NEW w \in Workflow, flow[w].status = "Running", w \notin lost
      PROVE  \E s \in Stage :
                LET t == flow[w].stages[s].task IN
                /\ ~flow[w].stages[s].done
                /\ t \in mgr[w].tracked
                /\ \/ mgr[w].task[t].thread = "none" /\ \E i \in DOMAIN mgr[w].queue[s] : mgr[w].queue[s][i] = t
                   \/ mgr[w].task[t].thread \in {"running", "closing"}
                   \/ \E i \in DOMAIN mgr[w].inbox : mgr[w].inbox[i] = t
    BY DEF RunningAwaitsTask
  <2>1. PICK s \in Stage : ~flow[w].stages[s].done /\ flow[w].stages[s].task \in mgr[w].tracked
    BY DEF IInv, BuildOK, Awaits
  <2> DEFINE t == flow[w].stages[s].task
  <2>2. ManagerOK(mgr[w], NoTask) /\ BooksAgree(flow[w], mgr[w], NoTask)
    BY DEF IInv, BuildOK
  <2>3. /\ t # NoTask /\ t \in DOMAIN mgr[w].task
        /\ mgr[w].queue[s] \in Seq(Id) /\ mgr[w].inbox \in Seq(Id)
        /\ mgr[w].task \in Seq(TaskRecord)
    BY <2>1, <2>2, ManagerFields DEF ManagerOK, NoTask, Id
  <2>4. mgr[w].task[t].stage = s /\ CanReport(mgr[w], t)
    BY <2>1, <2>2, <2>3 DEF BooksAgree, TasksFit, ManagerOK
  <2>5. mgr[w].task[t].thread \in {"none", "running", "closing", "returned"}
    BY <2>3, TaskFields
  <2>6. mgr[w].task[t].thread = "none" => \E i \in DOMAIN mgr[w].queue[s] : mgr[w].queue[s][i] = t
    BY <2>3, <2>4 DEF CanReport, Elems
  <2>7. mgr[w].task[t].thread = "returned" => \E i \in DOMAIN mgr[w].inbox : mgr[w].inbox[i] = t
    BY <2>3, <2>4 DEF CanReport, Elems
  <2> QED
    BY <2>1, <2>5, <2>6, <2>7
<1> QED
  BY <1>1, <1>2, <1>3, <1>4 DEF StagesAgree

\* The stages done are counted, a running build waits for a task that can still
\* report, and a build stores the vectors of the chunks it stores.
THEOREM BooksOfStagesAgree == Spec => []StagesAgree
<1> QED
  BY WorkflowInvariant, InvariantAgrees, PTL

-----------------------------------------------------------------------------
(* The promise to the clients                                              *)

\* How a step may change what became of a build.
FateStep(w) ==
    \/ flow'[w].status = flow[w].status /\ stored'[w] = stored[w]
    \/ flow[w].status = "None" /\ flow'[w].status = "Running" /\ stored'[w] = stored[w]
    \/ flow[w].status \notin {"None"} \cup Over /\ flow'[w].status # "None"
    \/ /\ flow[w].status \in {"Failed", "Cancelled"} /\ flow'[w].status \in {"Failed", "Cancelled"}
       /\ stored'[w] = stored[w]

Others(w) == \A v \in Workflow : v # w => flow'[v] = flow[v] /\ stored'[v] = stored[v]

LEMMA FateFollows ==
    ASSUME IInv, NEW w \in Workflow, Others(w), FateStep(w)
    PROVE  [Promise!Next]_Fates
<1>0. Fates = [v \in Workflow |-> Fate(v)] /\ Fates' = [v \in Workflow |-> Fate(v)']
  BY DEF Fates
<1>1. \A v \in Workflow : v # w => Fate(v)' = Fate(v)
  BY DEF Others, Fate
<1>2. stored[w] # <<>> => flow[w].status = "Completed"
  BY DEF IInv, BuildOK, StoredOK
<1>3. \/ Fate(w)' = Fate(w)
      \/ Fate(w) = "unasked" /\ Fate(w)' = "open"
      \/ Fate(w) = "open" /\ Fate(w)' \in {"stored", "given up"}
  <2>1. CASE flow'[w].status = flow[w].status /\ stored'[w] = stored[w]
    BY <2>1 DEF Fate
  <2>2. CASE flow[w].status = "None" /\ flow'[w].status = "Running" /\ stored'[w] = stored[w]
    <3>1. stored[w] = <<>>
      BY <1>2, <2>2
    <3> QED
      BY <2>2, <3>1 DEF Fate
  <2>3. CASE flow[w].status \notin {"None"} \cup Over /\ flow'[w].status # "None"
    <3>1. stored[w] = <<>>
      BY <1>2, <2>3 DEF Over
    <3>2. Fate(w) = "open"
      BY <2>3, <3>1 DEF Fate, Over
    <3>3. Fate(w)' \in {"stored", "given up", "open"}
      BY <2>3 DEF Fate
    <3> QED
      BY <3>2, <3>3
  <2>4. CASE /\ flow[w].status \in {"Failed", "Cancelled"} /\ flow'[w].status \in {"Failed", "Cancelled"}
             /\ stored'[w] = stored[w]
    BY <2>4 DEF Fate
  <2> QED
    BY <2>1, <2>2, <2>3, <2>4 DEF FateStep
<1>4. CASE Fate(w)' = Fate(w)
  <2>1. Fates' = Fates
    BY <1>0, <1>1, <1>4
  <2> QED
    BY <2>1
<1>5. CASE Fate(w) = "unasked" /\ Fate(w)' = "open"
  <2>1. Fates' = [Fates EXCEPT ![w] = "open"]
    BY <1>0, <1>1, <1>5
  <2> QED
    BY <1>0, <1>5, <2>1 DEF Promise!Next, Promise!Ask, Promise!Move
<1>6. CASE Fate(w) = "open" /\ Fate(w)' = "stored"
  <2>1. Fates' = [Fates EXCEPT ![w] = "stored"]
    BY <1>0, <1>1, <1>6
  <2> QED
    BY <1>0, <1>6, <2>1 DEF Promise!Next, Promise!Store, Promise!Move
<1>7. CASE Fate(w) = "open" /\ Fate(w)' = "given up"
  <2>1. Fates' = [Fates EXCEPT ![w] = "given up"]
    BY <1>0, <1>1, <1>7
  <2> QED
    BY <1>0, <1>7, <2>1 DEF Promise!Next, Promise!GiveUp, Promise!Move
<1> QED
  BY <1>3, <1>4, <1>5, <1>6, <1>7

\* An announcement stores for nobody else, and nothing of a build given up.
LEMMA AnnounceIs ==
    ASSUME IInv, NEW w \in Workflow, NEW f, Announce(w, f)
    PROVE  /\ \A v \in Workflow : v # w => stored'[v] = stored[v]
           /\ f.status # "Completed" => stored' = stored
BY DEF Announce, IInv, Rest

\* processNextStage of a running build goes on or ends it; any other it leaves.
LEMMA ProcessNextFates ==
    ASSUME IInv, NEW w \in Workflow, NEW f, NEW m, NEW t,
           "status" \in DOMAIN f,
           ProcessNextStage(w, f, m, t)
    PROVE  /\ Others(w)
           /\ StartableStages(f) # {} \/ f.status # "Running" =>
                flow'[w].status = f.status /\ stored' = stored
           /\ f.status = "Running" => flow'[w].status # "None"
<1>1. flow = [v \in Workflow |-> flow[v]]
  BY DEF IInv, Rest
<1>2. CASE StartableStages(f) # {}
  <2> DEFINE s == FirstOf(StartableStages(f))
             k == Len(CreateTask(m, s, InputOf(f, s)).task)
             g == [f EXCEPT !.stages[s].task = k]
  <2>1. StartStage(w, f, s, m, t)
    BY <1>2 DEF ProcessNextStage
  <2>2. flow' = [flow EXCEPT ![w] = g] /\ stored' = stored
    BY <2>1 DEF StartStage, Keep
  <2>3. g.status = f.status
    OBVIOUS
  <2> HIDE DEF g
  <2>4. Others(w) /\ flow'[w].status = f.status
    BY <1>1, <2>2, <2>3 DEF Others
  <2> QED
    BY <1>2, <2>2, <2>4
<1>3. CASE StartableStages(f) = {}
  <2> DEFINE g == Concluded(f)
  <2>1. flow' = [flow EXCEPT ![w] = g] /\ IF g # f THEN Announce(w, g) ELSE Keep
    BY <1>3 DEF ProcessNextStage
  <2>2. /\ f.status # "Running" => g = f
        /\ f.status = "Running" => g.status \in {"Running", "Failed", "Completed"}
    BY DEF Concluded, MayAdvance
  <2> HIDE DEF g
  <2>3. \A v \in Workflow : v # w => stored'[v] = stored[v]
    BY <2>1, AnnounceIs DEF Keep
  <2>4. f.status # "Running" => stored' = stored
    BY <2>1, <2>2 DEF Keep
  <2>5. flow'[w] = g /\ \A v \in Workflow : v # w => flow'[v] = flow[v]
    BY <1>1, <2>1
  <2>6. Others(w)
    BY <2>3, <2>5 DEF Others
  <2>7. f.status = "Running" => flow'[w].status # "None"
    BY <2>2, <2>5
  <2> QED
    BY <1>3, <2>2, <2>4, <2>5, <2>6, <2>7
<1> QED
  BY <1>2, <1>3

LEMMA DeliverFates ==
    ASSUME IInv, NEW w \in Workflow, Deliver(w)
    PROVE  Others(w) /\ FateStep(w)
<1> DEFINE t == Head(mgr[w].inbox)
           m == [mgr[w] EXCEPT !.inbox = Tail(@)]
           s == m.task[t].stage
           f == flow[w]
<1>1. flow = [v \in Workflow |-> flow[v]] /\ f \in FlowType
  BY DEF IInv, Rest, BuildOK, BooksAgree
<1>2. /\ mgr[w].inbox # <<>>
      /\ IF t \notin m.tracked
         THEN mgr' = [mgr EXCEPT ![w] = m] /\ Keep /\ UNCHANGED flow
         ELSE IF ~IsCurrent(f, s, t)
         THEN mgr' = [mgr EXCEPT ![w] = Leave(m, t)] /\ Keep /\ UNCHANGED flow
         ELSE IF ValidResults(m.task[t].outcome)
         THEN ProcessNextStage(w, CompleteStage(f, s, ResultOf(m, t)), m, t)
         ELSE /\ flow' = [flow EXCEPT ![w] = FailStage(f, s)]
              /\ mgr' = [mgr EXCEPT ![w] = Leave(m, t)]
              /\ Announce(w, FailStage(f, s))
  BY DEF Deliver
<1>3. m.task = mgr[w].task /\ m.tracked = mgr[w].tracked
  BY DEF IInv, BuildOK, ManagerOK, Manager
<1> HIDE DEF m, t, f
<1>4. CASE t \notin m.tracked \/ ~IsCurrent(f, s, t)
  <2>1. flow' = flow /\ stored' = stored
    BY <1>2, <1>4 DEF Keep
  <2> QED
    BY <2>1 DEF Others, FateStep
<1>5. CASE t \in m.tracked /\ IsCurrent(f, s, t)
  <2>1. ManagerOK(mgr[w], NoTask) /\ BooksAgree(f, mgr[w], NoTask)
    BY DEF IInv, BuildOK, f
  <2>2. t \in DOMAIN mgr[w].task /\ t # NoTask /\ mgr[w].task \in Seq(TaskRecord)
    BY <1>3, <1>5, <2>1, ManagerFields DEF ManagerOK, NoTask, Id
  <2>3. mgr[w].task[t] \in TaskRecord
    BY <2>2
  <2>4. s \in Stage
    BY <1>3, <2>3, TaskFields
  <2>5. ~f.stages[s].done
    BY <1>3, <1>5, <2>1, <2>2, <2>4 DEF BooksAgree, IsCurrent
  <2>6. f.status # "Completed"
    BY <2>1, <2>4, <2>5, Stages DEF BooksAgree
  <2>7. f.status # "None"
    BY <2>1, <2>2 DEF BooksAgree
  <2>8. f.status \in {"Failed", "Cancelled"} \/ f.status \notin {"None"} \cup Over
    BY <2>6, <2>7 DEF Over
  <2> HIDE DEF s
  <2>9. CASE ValidResults(m.task[t].outcome)
    <3> DEFINE g == CompleteStage(f, s, ResultOf(m, t))
    <3>1. ProcessNextStage(w, g, m, t)
      BY <1>2, <1>5, <2>9
    <3>2. /\ g.status = f.status
          /\ "status" \in DOMAIN g
      BY <1>1 DEF CompleteStage, FlowType
    <3> HIDE DEF g
    <3>3. Others(w) /\ (g.status # "Running" => flow'[w].status = g.status /\ stored' = stored)
          /\ (g.status = "Running" => flow'[w].status # "None")
      BY <3>1, <3>2, ProcessNextFates
    <3> QED
      BY <3>2, <3>3, <2>8 DEF FateStep, f, Over
  <2>10. CASE ~ValidResults(m.task[t].outcome)
    <3> DEFINE g == FailStage(f, s)
    <3>1. flow' = [flow EXCEPT ![w] = g] /\ Announce(w, g)
      BY <1>2, <1>5, <2>10
    <3>2. g.status = "Failed"
      BY <1>1 DEF FailStage, FlowType
    <3> HIDE DEF g
    <3>3. stored' = stored
      BY <3>1, <3>2, AnnounceIs
    <3> QED
      BY <1>1, <3>1, <3>2, <3>3, <2>8 DEF FateStep, Others, f, Over
  <2> QED
    BY <2>9, <2>10
<1> QED
  BY <1>4, <1>5

\* No step makes more of a build than the promise allows.
LEMMA StepsKeepPromise ==
    ASSUME IInv, Next
    PROVE  [Promise!Next]_Fates
<1>1. flow = [v \in Workflow |-> flow[v]]
  BY DEF IInv, Rest
<1>2. ASSUME NEW w \in Workflow, BuildIndex(w)
      PROVE  Others(w) /\ FateStep(w)
  <2> DEFINE f == StartWorkflow(IndexBuilding)
  <2>1. f \in FlowType /\ f.status = "Running" /\ \A s \in Stage : f.stages[s] = NewStage
    BY NewFlow
  <2>2. flow[w].status = "None" /\ ProcessNextStage(w, f, NewManager, NoTask)
    BY <1>2 DEF BuildIndex
  <2> HIDE DEF f
  <2>3. ~NewStage.done /\ ~NewStage.failed
    BY DEF NewStage
  <2>4. Parsing \in StartableStages(f)
    BY <2>1, <2>3, Stages DEF StartableStages, MayAdvance, IsStageReady
  <2>5. "status" \in DOMAIN f
    BY <2>1 DEF FlowType
  <2>6. Others(w) /\ flow'[w].status = f.status /\ stored' = stored
    BY <2>1, <2>2, <2>4, <2>5, ProcessNextFates
  <2> QED
    BY <2>1, <2>2, <2>6 DEF FateStep
<1>3. ASSUME NEW w \in Workflow, PauseWorkflow(w)
      PROVE  Others(w) /\ FateStep(w)
  <2>1. flow[w].status = "Running" /\ flow' = [flow EXCEPT ![w].status = "Paused"] /\ stored' = stored
    BY <1>3 DEF PauseWorkflow
  <2>2. flow'[w].status = "Paused"
    BY <2>1, <1>1 DEF IInv, BuildOK, BooksAgree, FlowType
  <2> QED
    BY <1>1, <2>1, <2>2 DEF Others, FateStep, Over
<1>4. ASSUME NEW w \in Workflow, ResumeWorkflow(w)
      PROVE  Others(w) /\ FateStep(w)
  <2> DEFINE f == [flow[w] EXCEPT !.status = "Running"]
  <2>1. flow[w].status = "Paused" /\ ProcessNextStage(w, f, mgr[w], NoTask)
    BY <1>4 DEF ResumeWorkflow
  <2>2. /\ f.status = "Running"
        /\ "status" \in DOMAIN f
    BY DEF IInv, BuildOK, BooksAgree, FlowType
  <2> HIDE DEF f
  <2>3. Others(w) /\ flow'[w].status # "None"
    BY <2>1, <2>2, ProcessNextFates
  <2> QED
    BY <2>1, <2>3 DEF FateStep, Over
<1>5. ASSUME NEW w \in Workflow, CancelWorkflow(w)
      PROVE  Others(w) /\ FateStep(w)
  <2> DEFINE f == [flow[w] EXCEPT !.status = "Cancelled"]
  <2>1. /\ flow[w].status \notin {"Completed", "Cancelled"} /\ flow' = [flow EXCEPT ![w] = f]
        /\ Announce(w, flow'[w]) /\ w \in active
    BY <1>5 DEF CancelWorkflow
  <2>2. f.status = "Cancelled"
    BY DEF IInv, BuildOK, BooksAgree, FlowType
  <2> HIDE DEF f
  <2>3. flow'[w] = f /\ \A v \in Workflow : v # w => flow'[v] = flow[v]
    BY <2>1, <1>1
  <2>4. stored' = stored
    BY <2>1, <2>2, <2>3, AnnounceIs
  <2>5. flow[w].status # "None"
    BY <2>1 DEF IInv, BuildOK
  <2> QED
    BY <2>1, <2>2, <2>3, <2>4, <2>5 DEF Others, FateStep, Over
<1>6. ASSUME NEW w \in Workflow,
             ProcessStageQueues(w) \/ UnregisterWorkflow(w) \/ PoolStep(w)
      PROVE  Others(w) /\ FateStep(w)
  <2>1. flow' = flow /\ stored' = stored
    BY <1>6 DEF ProcessStageQueues, UnregisterWorkflow, PoolStep, PoolThread, Execute,
                Report, Orphaned
  <2> QED
    BY <2>1 DEF Others, FateStep
<1>7. CASE JoinDone
  <2>1. flow' = flow /\ stored' = stored
    BY <1>7 DEF JoinDone
  <2> QED
    BY <2>1 DEF Fates, Fate
<1>8. ASSUME NEW w \in Workflow, Others(w) /\ FateStep(w)
      PROVE  [Promise!Next]_Fates
  BY <1>8, FateFollows
<1>9. ASSUME NEW w \in Workflow, Deliver(w)
      PROVE  Others(w) /\ FateStep(w)
  BY <1>9, DeliverFates
<1> QED
  BY <1>2, <1>3, <1>4, <1>5, <1>6, <1>7, <1>8, <1>9 DEF Next

\* Every build stores its results at most once, and never after it failed or
\* was cancelled: the orchestrator implements BuildPromise.
THEOREM PromiseIsKept == Spec => KeepsPromise
<1>1. Init => Promise!Init
  BY DEF Init, Promise!Init, IndexBuilding, Fates, Fate
<1>2. IInv /\ [Next]_vars => [Promise!Next]_Fates
  <2>1. ASSUME UNCHANGED vars PROVE UNCHANGED Fates
    BY <2>1 DEF vars, Fates, Fate
  <2> QED
    BY <2>1, StepsKeepPromise
<1> QED
  BY <1>1, <1>2, WorkflowInvariant, PTL DEF Spec, KeepsPromise, Promise!Spec

-----------------------------------------------------------------------------
(* The chunks of one text                                                  *)
(*                                                                         *)
(* The bounded overlap is not inductive: that a new window begins no       *)
(* earlier than an old one less the overlap needs every window to lie      *)
(* before the next start but for the overlap, and the turn of the loop     *)
(* keeps that only for a configuration that was validated.                 *)

Cutting == strategy \in {"fixed", "sliding"}

\* Nothing is chunked under a configuration that was refused.
ConfigIsValid == config \in Config /\ (strategy # "none" => ValidateConfig)

\* Packing and splitting leave the windows alone.
NothingCut == ~Cutting => text = <<>> /\ startPos = 0 /\ windows = {}

\* The windows lie before the next start, but for the overlap.
WindowsBehind ==
    \A w \in windows : w.from < startPos /\ w.to - config.overlap <= startPos

CutInv ==
    /\ ChunkTypeOK
    /\ ConfigIsValid
    /\ NothingCut
    /\ WindowsBehind
    /\ OverlapIsBounded
    /\ LostBehindEarlyBreak

\* What one turn of either loop needs of its window and of the next start.
FitsTurn(e, next) ==
    /\ e \in Int /\ next \in Int
    /\ startPos < e /\ e <= Length /\ e <= startPos + config.maxSize
    /\ startPos < next /\ e - config.overlap <= next
    /\ e < next => Skips(Window(startPos, e))

-----------------------------------------------------------------------------
LEMMA InitCut == ChunkInit => CutInv
<1> SUFFICES ASSUME ChunkInit PROVE CutInv
  OBVIOUS
<1>1. text \in Seq(Kind) /\ Length = 0
  BY DEF ChunkInit, Length
<1> QED
  BY <1>1 DEF ChunkInit, CutInv, ChunkTypeOK, ConfigIsValid, NothingCut, WindowsBehind, Cutting,
     OverlapIsBounded, LostBehindEarlyBreak, Smaller

\* The numbers a turn computes with.
LEMMA Numbers ==
    ASSUME CutInv, Cutting
    PROVE  /\ config.maxSize \in Int /\ config.overlap \in Int /\ config.minChunkSize \in Int
           /\ config.maxSize > 0 /\ config.minChunkSize > 0
           /\ config.minChunkSize <= config.maxSize
           /\ 0 <= config.overlap /\ config.overlap < config.maxSize
           /\ Length \in Nat /\ startPos \in Nat
<1>1. config \in [maxSize : Int, overlap : Int, minChunkSize : Int,
                  preserveWords : BOOLEAN, preserveSentences : BOOLEAN]
  BY ChunkingAssumption DEF ChunkingAssumption, CutInv, ConfigIsValid
<1>2. config.maxSize \in Int /\ config.overlap \in Int /\ config.minChunkSize \in Int
  BY <1>1
<1>3. ValidateConfig
  BY DEF CutInv, ConfigIsValid, Cutting
<1>4. Length \in Nat /\ startPos \in Nat
  BY DEF CutInv, ChunkTypeOK, Length
<1> QED
  BY <1>2, <1>3, <1>4 DEF ValidateConfig

\* The bounds of a configuration do not change.
LEMMA ValidStays == config' = config => (ValidateConfig' <=> ValidateConfig)
BY DEF ValidateConfig

-----------------------------------------------------------------------------
(* A turn of the loop                                                      *)

\* The end of a window, at a break or not, lies behind its beginning.
LEMMA BreakFits ==
    ASSUME CutInv, Cutting, startPos < Length,
           NEW b \in startPos..WindowEnd(startPos),
           IF WindowEnd(startPos) < Length
           THEN IsBreakPosition(startPos, WindowEnd(startPos), b)
           ELSE b = WindowEnd(startPos)
    PROVE  b \in Int /\ startPos < b /\ b <= Length /\ b <= startPos + config.maxSize
<1>1. /\ WindowEnd(startPos) \in Int /\ startPos < WindowEnd(startPos)
      /\ WindowEnd(startPos) <= Length /\ WindowEnd(startPos) <= startPos + config.maxSize
  BY Numbers DEF WindowEnd, Smaller
<1>2. b \in Int /\ b <= WindowEnd(startPos)
  BY <1>1, Numbers
<1>3. startPos < b
  <2>1. CASE b = WindowEnd(startPos)
    BY <2>1, <1>1
  <2>2. CASE b # WindowEnd(startPos)
    <3>1. b - 1 \in Breaks(startPos, WindowEnd(startPos))
      BY <2>2 DEF IsBreakPosition
    <3>2. b - 1 \in startPos + 1..WindowEnd(startPos) - 1
      BY <3>1 DEF Breaks
    <3> QED
      BY <3>2, <1>1, <1>2, Numbers
  <2> QED
    BY <2>1, <2>2
<1> QED
  BY <1>1, <1>2, <1>3, Numbers

\* The end made longer is one too.
LEMMA StretchFits ==
    ASSUME CutInv, Cutting, startPos < Length, NEW b \in Int,
           startPos < b, b <= Length, b <= startPos + config.maxSize
    PROVE  LET e == StretchedEnd(startPos, b)
           IN  e \in Int /\ startPos < e /\ e <= Length /\ e <= startPos + config.maxSize
BY Numbers DEF StretchedEnd, Smaller

LEMMA FixedTurn ==
    ASSUME CutInv, strategy = "fixed", NEW e \in Int,
           startPos < e, e <= Length, e <= startPos + config.maxSize
    PROVE  FitsTurn(e, NextStart(startPos, e))
<1>1. Cutting
  BY DEF Cutting
<1>2. Window(startPos, e).from = startPos /\ Window(startPos, e).to = e
  BY DEF Window
<1>3. Skips(Window(startPos, e)) <=> e - config.overlap <= startPos
  BY <1>2 DEF Skips
<1>4. CASE e - config.overlap > startPos
  <2>1. NextStart(startPos, e) = e - config.overlap
    BY <1>4 DEF NextStart
  <2> QED
    BY <2>1, <1>1, <1>4, Numbers DEF FitsTurn
<1>5. CASE ~(e - config.overlap > startPos)
  <2>1. /\ NextStart(startPos, e) \in Int /\ NextStart(startPos, e) > startPos
        /\ e - config.overlap <= NextStart(startPos, e)
    BY <1>1, <1>5, Numbers DEF NextStart, Larger
  <2>2. Skips(Window(startPos, e))
    BY <1>1, <1>3, <1>5, Numbers
  <2> QED
    BY <2>1, <2>2 DEF FitsTurn
<1> QED
  BY <1>4, <1>5

LEMMA SlidingTurn ==
    ASSUME CutInv, strategy = "sliding", NEW e \in Int,
           startPos < e, e <= Length, e <= startPos + config.maxSize
    PROVE  FitsTurn(e, startPos + config.maxSize - config.overlap)
<1>1. Cutting
  BY DEF Cutting
<1>2. Window(startPos, e).from = startPos /\ Window(startPos, e).to = e
  BY DEF Window
<1>3. Skips(Window(startPos, e)) <=> e < startPos + config.maxSize - config.overlap
  BY <1>2 DEF Skips
<1> QED
  BY <1>1, <1>3, Numbers DEF FitsTurn

-----------------------------------------------------------------------------
(* A fitting turn keeps the invariant                                      *)

LEMMA CutKeepsInv ==
    ASSUME CutInv, Cutting, NEW e, NEW next, FitsTurn(e, next), CutWindow(startPos, e, next)
    PROVE  CutInv'
<1> DEFINE w0 == Window(startPos, e)
<1>1. w0.from = startPos /\ w0.to = e
  BY DEF Window
<1>2. windows' = windows \cup {w0} /\ startPos' = next
  BY DEF CutWindow
<1>3. strategy' = strategy /\ text' = text /\ config' = config /\ Length' = Length
  BY DEF CutWindow, Length
<1>4. \A w \in windows : /\ w.from \in Nat /\ w.to \in Nat
                         /\ w.from < w.to /\ w.to <= Length /\ w.to <= w.from + config.maxSize
                         /\ w.from < startPos /\ w.to - config.overlap <= startPos
  BY DEF CutInv, ChunkTypeOK, WindowsBehind
<1>5. /\ e \in Nat /\ next \in Nat
      /\ startPos < e /\ e <= Length /\ e <= startPos + config.maxSize
      /\ startPos < next /\ e - config.overlap <= next
      /\ e < next => Skips(w0)
  BY Numbers DEF FitsTurn
<1> HIDE DEF w0
<1>6. ChunkTypeOK'
  <2>1. \A w \in windows' : /\ w.from \in Nat /\ w.to \in Nat
                            /\ w.from < w.to /\ w.to <= Length /\ w.to <= w.from + config.maxSize
    BY <1>1, <1>2, <1>4, <1>5, Numbers
  <2> QED
    BY <2>1, <1>2, <1>3, <1>5 DEF CutInv, ChunkTypeOK
<1>7. ConfigIsValid' /\ NothingCut'
  BY <1>3, ValidStays DEF CutInv, ConfigIsValid, NothingCut, Cutting
<1>8. WindowsBehind'
  BY <1>1, <1>2, <1>3, <1>4, <1>5, Numbers DEF WindowsBehind
<1>9. OverlapIsBounded'
  <2> SUFFICES ASSUME NEW v \in windows', NEW w \in windows', v.from < w.from
               PROVE  v.to - config.overlap <= w.from
    BY <1>3 DEF OverlapIsBounded
  <2>1. CASE v \in windows /\ w \in windows
    BY <2>1 DEF CutInv, OverlapIsBounded
  <2>2. CASE v \in windows /\ w = w0
    BY <2>2, <1>1, <1>4
  <2>3. CASE v = w0
    <3>1. w.from <= startPos
      BY <1>1, <1>2, <1>4, Numbers
    <3>2. w.from \in Int
      BY <1>1, <1>2, <1>4, Numbers
    <3> QED
      BY <3>1, <3>2, <2>3, <1>1, Numbers
  <2> QED
    BY <2>1, <2>2, <2>3, <1>2
<1>10. LostBehindEarlyBreak'
  <2> SUFFICES ASSUME NEW p \in 0..Smaller(startPos, Length)' - 1
               PROVE  \/ \E w \in windows' : w.from <= p /\ p < w.to
                      \/ \E w \in windows' : w.to <= p /\ Skips(w)
    BY <1>3 DEF LostBehindEarlyBreak, Skips
  <2>1. p \in Int /\ 0 <= p /\ p < Length /\ p < next
    BY <1>2, <1>3, <1>5, Numbers DEF Smaller
  <2>2. CASE p < startPos
    <3>1. p \in 0..Smaller(startPos, Length) - 1
      BY <2>1, <2>2, Numbers DEF Smaller
    <3> QED
      BY <3>1, <1>2 DEF CutInv, LostBehindEarlyBreak
  <2>3. CASE startPos <= p /\ p < e
    BY <2>3, <1>1, <1>2
  <2>4. CASE e <= p
    <3>1. Skips(w0)
      BY <2>1, <2>4, <1>5
    <3> QED
      BY <3>1, <2>4, <1>1, <1>2
  <2> QED
    BY <2>1, <2>2, <2>3, <2>4, <1>5, Numbers
<1> QED
  BY <1>6, <1>7, <1>8, <1>9, <1>10 DEF CutInv

-----------------------------------------------------------------------------
(* The steps                                                               *)

LEMMA FixedKeepsInv ==
    ASSUME CutInv, CutFixed
    PROVE  CutInv' /\ startPos' > startPos
<1>1. Cutting /\ strategy = "fixed" /\ startPos < Length
  BY DEF CutFixed, Cutting
<1>2. PICK b \in startPos..WindowEnd(startPos) :
        /\ IF WindowEnd(startPos) < Length
           THEN IsBreakPosition(startPos, WindowEnd(startPos), b)
           ELSE b = WindowEnd(startPos)
        /\ LET e == StretchedEnd(startPos, b)
           IN  CutWindow(startPos, e, NextStart(startPos, e))
  BY DEF CutFixed
<1>3. b \in Int /\ startPos < b /\ b <= Length /\ b <= startPos + config.maxSize
  BY <1>1, <1>2, BreakFits
<1> DEFINE e == StretchedEnd(startPos, b)
<1>4. e \in Int /\ startPos < e /\ e <= Length /\ e <= startPos + config.maxSize
  BY <1>1, <1>3, StretchFits
<1>5. CutWindow(startPos, e, NextStart(startPos, e))
  BY <1>2
<1> HIDE DEF e
<1>6. FitsTurn(e, NextStart(startPos, e))
  BY <1>1, <1>4, FixedTurn
<1>7. CutInv'
  BY <1>1, <1>5, <1>6, CutKeepsInv
<1> QED
  BY <1>5, <1>6, <1>7 DEF FitsTurn, CutWindow

LEMMA SlidingKeepsInv ==
    ASSUME CutInv, CutSliding
    PROVE  CutInv' /\ startPos' > startPos
<1>1. Cutting /\ strategy = "sliding" /\ startPos < Length
  BY DEF CutSliding, Cutting
<1>2. PICK b \in startPos..WindowEnd(startPos) :
        /\ IF WindowEnd(startPos) < Length
           THEN IsBreakPosition(startPos, WindowEnd(startPos), b)
           ELSE b = WindowEnd(startPos)
        /\ CutWindow(startPos, b, startPos + config.maxSize - config.overlap)
  BY DEF CutSliding
<1>3. b \in Int /\ startPos < b /\ b <= Length /\ b <= startPos + config.maxSize
  BY <1>1, <1>2, BreakFits
<1>4. FitsTurn(b, startPos + config.maxSize - config.overlap)
  BY <1>1, <1>3, SlidingTurn
<1>5. CutInv'
  BY <1>1, <1>2, <1>4, CutKeepsInv
<1> QED
  BY <1>2, <1>4, <1>5 DEF FitsTurn, CutWindow

\* Before the first window there is nothing to lose.
LEMMA NothingIsLost ==
    ASSUME startPos' = 0, Length' \in Nat
    PROVE  LostBehindEarlyBreak'
<1>1. Smaller(startPos, Length)' = 0
  BY DEF Smaller
<1>2. 0..Smaller(startPos, Length)' - 1 = {}
  BY <1>1
<1> QED
  BY <1>2 DEF LostBehindEarlyBreak

\* A text is given to a fixed or a sliding cut before anything was cut.
LEMMA ChunkTextKeepsInv ==
    ASSUME CutInv, strategy = "none", ValidateConfig, NEW t \in Text, NEW s \in {"fixed", "sliding"},
           ChunkText(s, t)
    PROVE  CutInv' /\ windows' = windows
<1>1. text = <<>> /\ startPos = 0 /\ windows = {}
  BY DEF CutInv, NothingCut, Cutting
<1>2. t \in Seq(Kind)
  BY ChunkingAssumption DEF ChunkingAssumption
<1>3. Length' \in Nat
  BY <1>2 DEF ChunkText, Length
<1>4. ChunkTypeOK'
  BY <1>1, <1>2 DEF ChunkText, ChunkTypeOK
<1>5. ConfigIsValid' /\ NothingCut'
  BY ValidStays DEF ChunkText, CutInv, ConfigIsValid, NothingCut, Cutting
<1>6. startPos' = 0 /\ windows' = {}
  BY <1>1 DEF ChunkText
<1>7. WindowsBehind' /\ OverlapIsBounded'
  BY <1>6 DEF WindowsBehind, OverlapIsBounded
<1>8. LostBehindEarlyBreak'
  BY <1>3, <1>6, NothingIsLost
<1> QED
  BY <1>1, <1>4, <1>5, <1>6, <1>7, <1>8 DEF CutInv

\* The other steps cut nothing.
PiecesStep ==
    /\ ~Cutting /\ ~Cutting' /\ ValidateConfig
    /\ strategy' \in {"pieces", "split", "over"}
    /\ UNCHANGED <<text, config, startPos, windows>>

LEMMA PiecesKeepInv ==
    ASSUME CutInv, PiecesStep
    PROVE  CutInv' /\ windows' = windows
<1>1. text = <<>> /\ startPos = 0 /\ windows = {} /\ Length = 0
  BY DEF CutInv, NothingCut, PiecesStep, Length
<1>2. ChunkTypeOK' /\ NothingCut'
  BY <1>1 DEF PiecesStep, CutInv, ChunkTypeOK, NothingCut
<1>3. ConfigIsValid'
  BY ValidStays DEF PiecesStep, CutInv, ConfigIsValid
<1>4. startPos' = 0 /\ windows' = {} /\ Length' = 0
  BY <1>1 DEF PiecesStep, Length
<1>5. WindowsBehind' /\ OverlapIsBounded'
  BY <1>4 DEF WindowsBehind, OverlapIsBounded
<1>6. LostBehindEarlyBreak'
  BY <1>4, NothingIsLost
<1> QED
  BY <1>1, <1>2, <1>3, <1>4, <1>5, <1>6 DEF CutInv

LEMMA PiecesAreSteps ==
    ASSUME CutInv,
           \/ /\ strategy = "none" /\ ValidateConfig
              /\ \E p \in Pieces : ChunkPieces(p) \/ SplitTexts(p)
           \/ PackPiece \/ PackRest \/ SplitPiece \/ SplitRest
    PROVE  PiecesStep
<1>1. CASE /\ strategy = "none" /\ ValidateConfig
           /\ \E p \in Pieces : ChunkPieces(p) \/ SplitTexts(p)
  BY <1>1 DEF ChunkPieces, SplitTexts, PiecesStep, Cutting
<1>2. CASE PackPiece
  BY <1>2 DEF PackPiece, PiecesStep, Cutting, CutInv, ConfigIsValid
<1>3. CASE PackRest
  BY <1>3 DEF PackRest, PiecesStep, Cutting, CutInv, ConfigIsValid
<1>4. CASE SplitPiece
  BY <1>4 DEF SplitPiece, PiecesStep, Cutting, CutInv, ConfigIsValid
<1>5. CASE SplitRest
  BY <1>5 DEF SplitRest, PiecesStep, Cutting, CutInv, ConfigIsValid
<1> QED
  BY <1>1, <1>2, <1>3, <1>4, <1>5

\* One conjunct for the invariant, one for the progress of the loops.
Advances == windows' # windows => startPos' > startPos

LEMMA ChunkingKeepsInv ==
    ASSUME CutInv, [ChunkNext]_chunking
    PROVE  CutInv' /\ Advances
<1>1. CASE CutFixed
  BY <1>1, FixedKeepsInv DEF Advances
<1>2. CASE CutSliding
  BY <1>2, SlidingKeepsInv DEF Advances
<1>3. CASE /\ strategy = "none" /\ ValidateConfig
           /\ \E t \in Text, s \in {"fixed", "sliding"} : ChunkText(s, t)
  BY <1>3, ChunkTextKeepsInv DEF Advances
<1>4. CASE \/ /\ strategy = "none" /\ ValidateConfig
              /\ \E p \in Pieces : ChunkPieces(p) \/ SplitTexts(p)
           \/ PackPiece \/ PackRest \/ SplitPiece \/ SplitRest
  BY <1>4, PiecesAreSteps, PiecesKeepInv DEF Advances
<1>5. CASE UNCHANGED chunking
  BY <1>5, ValidStays DEF chunking, Advances, CutInv, ChunkTypeOK, ConfigIsValid, NothingCut, Cutting,
     WindowsBehind, OverlapIsBounded, LostBehindEarlyBreak, Skips, Smaller, Length
<1> QED
  BY <1>1, <1>2, <1>3, <1>4, <1>5 DEF ChunkNext

-----------------------------------------------------------------------------
\* The strengthened invariant of TextChunker's loops.
THEOREM ChunkingInvariant == ChunkSpec => []CutInv
<1>1. ChunkInit => CutInv
  BY InitCut
<1>2. CutInv /\ [ChunkNext]_chunking => CutInv'
  BY ChunkingKeepsInv
<1> QED
  BY <1>1, <1>2, PTL DEF ChunkSpec

\* Whatever the text and the configuration: the windows lie in the text and
\* are no longer than they may be, two share no more than the overlap, only what
\* follows an early break is left out, and every turn of the loop gets further
\* (textchunker.cpp:207).
THEOREM TextsAreCut == ChunkSpec => WindowsAreCut
<1>1. CutInv => WindowsFit
  BY DEF CutInv, WindowsFit
<1>2. CutInv /\ [ChunkNext]_chunking => [Advances]_chunking
  BY ChunkingKeepsInv
<1>3. ChunkSpec => []CutInv
  BY ChunkingInvariant
<1>4. ChunkSpec => [][Advances]_chunking
  BY <1>2, <1>3, PTL DEF ChunkSpec
<1>5. ChunkSpec => []WindowsFit
  BY <1>1, <1>3, PTL
<1> QED
  BY <1>4, <1>5 DEF WindowsAreCut, EveryTurnAdvances, Advances

-----------------------------------------------------------------------------
(***************************************************************************)
(* The pieces of one text. What they add up to, and what they are when     *)
(* they are put behind each other again, is computed by recursion: the     *)
(* functions exist because recursion along a sequence does, and what they  *)
(* do to two sequences behind each other is shown by induction.            *)
(***************************************************************************)

\* The sums of the first pieces.
Sums(s, f) ==
    /\ s \in [0..Len(f) -> Nat] /\ s[0] = 0
    /\ \A n \in 1..Len(f) : s[n] = s[n - 1] + f[n]

LEMMA SumsExist ==
    ASSUME NEW f \in Seq(Nat)
    PROVE  \E s : Sums(s, f) /\ Total(f) = s[Len(f)]
<1> DEFINE N == Len(f)
           Body(s) == [n \in 0..N |-> IF n = 0 THEN 0 ELSE s[n - 1] + f[n]]
           sum == CHOOSE s : s = Body(s)
<1>1. N \in Nat /\ \A n \in 1..N : f[n] \in Nat
  OBVIOUS
<1>2. \E s : s = Body(s)
  <2> DEFINE step == [x \in (1..N) \X Nat |-> x[2] + f[x[1]]]
  <2>1. step \in [(1..N) \X Nat -> Nat]
    BY <1>1
  <2>2. PICK s \in [0..N -> Nat] : s[0] = 0 /\ \A k \in 1..N : s[k] = step[<<k, s[k - 1]>>]
    <3>1. Steps(Nat, N, step) /\ 0 \in Nat
      BY <2>1 DEF Steps
    <3> HIDE DEF step, N
    <3>2. \E s : Follows(s, Nat, 0, N, step)
      BY <1>1, <3>1, RecursionExists
    <3> QED
      BY <3>2 DEF Follows
  <2>3. \A k \in 1..N : s[k] = s[k - 1] + f[k]
    <3> TAKE k \in 1..N
    <3>1. <<k, s[k - 1]>> \in (1..N) \X Nat
      <4>1. k - 1 \in 0..N
        BY <1>1
      <4> HIDE DEF N
      <4> QED
        BY <2>2, <4>1
    <3> QED
      BY <2>2, <3>1
  <2>4. s = Body(s)
    <3> HIDE DEF N
    <3>1. \A n \in 0..N : s[n] = IF n = 0 THEN 0 ELSE s[n - 1] + f[n]
      <4> TAKE n \in 0..N
      <4>1. n # 0 => n \in 1..N
        BY <1>1
      <4> QED
        BY <2>2, <2>3, <4>1
    <3> QED
      BY <2>2, <3>1
  <2> QED
    BY <2>4
<1>3. sum = Body(sum)
  <2> HIDE DEF Body
  <2> QED
    BY <1>2
<1>4. Total(f) = sum[N]
  BY DEF Total
<1> HIDE DEF sum
<1>5. sum[0] = 0 /\ \A n \in 1..N : sum[n] = sum[n - 1] + f[n]
  <2>1. 0 \in 0..N /\ \A n \in 1..N : n \in 0..N /\ n # 0
    BY <1>1
  <2> HIDE DEF N
  <2> QED
    BY <1>3, <2>1
<1>6. \A n \in 0..N : sum[n] \in Nat
  <2> DEFINE T == {n \in Nat : sum[n] \in Nat}
  <2>1. 0 \in T
    BY <1>5
  <2>2. ASSUME NEW n \in 1..N, n - 1 \in T PROVE n \in T
    BY <1>1, <1>5, <2>2
  <2>3. 0..N \subseteq T
    <3> HIDE DEF T, N
    <3> QED
      BY <1>1, <2>1, <2>2, StepsByInduction
  <2> QED
    BY <2>3
<1>7. sum \in [0..N -> Nat]
  <2>1. sum = [n \in 0..N |-> sum[n]]
    <3> HIDE DEF N
    <3> QED
      BY <1>3
  <2> HIDE DEF N
  <2> QED
    BY <1>6, <2>1
<1> QED
  BY <1>4, <1>5, <1>7 DEF Sums

\* The first groups, behind each other.
Flats(s, f) ==
    /\ s \in [0..Len(f) -> Seq(Nat)] /\ s[0] = <<>>
    /\ \A n \in 1..Len(f) : s[n] = s[n - 1] \o f[n]

LEMMA FlatsExist ==
    ASSUME NEW f \in Seq(Seq(Nat))
    PROVE  \E s : Flats(s, f) /\ FlattenGroups(f) = s[Len(f)]
<1> DEFINE N == Len(f)
           Body(s) == [n \in 0..N |-> IF n = 0 THEN <<>> ELSE s[n - 1] \o f[n]]
           flat == CHOOSE s : s = Body(s)
<1>1. N \in Nat /\ \A n \in 1..N : f[n] \in Seq(Nat)
  OBVIOUS
<1>2. \E s : s = Body(s)
  <2> DEFINE step == [x \in (1..N) \X Seq(Nat) |-> x[2] \o f[x[1]]]
  <2>1. step \in [(1..N) \X Seq(Nat) -> Seq(Nat)]
    BY <1>1
  <2>2. PICK s \in [0..N -> Seq(Nat)] : s[0] = <<>> /\ \A k \in 1..N : s[k] = step[<<k, s[k - 1]>>]
    <3>1. Steps(Seq(Nat), N, step) /\ <<>> \in Seq(Nat)
      BY <2>1 DEF Steps
    <3> HIDE DEF step, N
    <3>2. \E s : Follows(s, Seq(Nat), <<>>, N, step)
      BY <1>1, <3>1, RecursionExists
    <3> QED
      BY <3>2 DEF Follows
  <2>3. \A k \in 1..N : s[k] = s[k - 1] \o f[k]
    <3> TAKE k \in 1..N
    <3>1. <<k, s[k - 1]>> \in (1..N) \X Seq(Nat)
      <4>1. k - 1 \in 0..N
        BY <1>1
      <4> HIDE DEF N
      <4> QED
        BY <2>2, <4>1
    <3> QED
      BY <2>2, <3>1
  <2>4. s = Body(s)
    <3> HIDE DEF N
    <3>1. \A n \in 0..N : s[n] = IF n = 0 THEN <<>> ELSE s[n - 1] \o f[n]
      <4> TAKE n \in 0..N
      <4>1. n # 0 => n \in 1..N
        BY <1>1
      <4> QED
        BY <2>2, <2>3, <4>1
    <3> QED
      BY <2>2, <3>1
  <2> QED
    BY <2>4
<1>3. flat = Body(flat)
  <2> HIDE DEF Body
  <2> QED
    BY <1>2
<1>4. FlattenGroups(f) = flat[N]
  BY DEF FlattenGroups
<1> HIDE DEF flat
<1>5. flat[0] = <<>> /\ \A n \in 1..N : flat[n] = flat[n - 1] \o f[n]
  <2>1. 0 \in 0..N /\ \A n \in 1..N : n \in 0..N /\ n # 0
    BY <1>1
  <2> HIDE DEF N
  <2> QED
    BY <1>3, <2>1
<1>6. \A n \in 0..N : flat[n] \in Seq(Nat)
  <2> DEFINE T == {n \in Nat : flat[n] \in Seq(Nat)}
  <2>1. 0 \in T
    <3>1. flat[0] = <<>> /\ <<>> \in Seq(Nat)
      BY <1>5
    <3> QED
      BY <3>1
  <2>2. ASSUME NEW n \in 1..N, n - 1 \in T PROVE n \in T
    <3>1. n \in Nat /\ flat[n - 1] \in Seq(Nat) /\ f[n] \in Seq(Nat)
      BY <1>1, <2>2
    <3>2. flat[n - 1] \o f[n] \in Seq(Nat)
      BY <3>1, Concatenated
    <3>3. flat[n] \in Seq(Nat)
      BY <1>5, <3>2
    <3> QED
      BY <3>1, <3>3
  <2>3. 0..N \subseteq T
    <3> HIDE DEF T, N
    <3> QED
      BY <1>1, <2>1, <2>2, StepsByInduction
  <2> QED
    BY <2>3
<1>7. flat \in [0..N -> Seq(Nat)]
  <2>1. flat = [n \in 0..N |-> flat[n]]
    <3> HIDE DEF N
    <3> QED
      BY <1>3
  <2> HIDE DEF N
  <2> QED
    BY <1>6, <2>1
<1> QED
  BY <1>4, <1>5, <1>7 DEF Flats

\* What adds up for one sequence adds up for another behind it.
LEMMA TotalBehind ==
    ASSUME NEW f \in Seq(Nat), NEW g \in Seq(Nat)
    PROVE  /\ Total(f \o g) = Total(f) + Total(g)
           /\ Total(f) \in Nat /\ Total(g) \in Nat /\ Total(f \o g) \in Nat
<1> DEFINE h == f \o g
           m == Len(f)
           n == Len(g)
<1>1. /\ h \in Seq(Nat) /\ Len(h) = m + n /\ m \in Nat /\ n \in Nat
      /\ \A k \in 1..m : h[k] = f[k]
      /\ \A k \in 1..n : h[m + k] = g[k] /\ g[k] \in Nat
  OBVIOUS
<1> HIDE DEF h
<1>2. PICK s : Sums(s, f) /\ Total(f) = s[m]
  BY SumsExist
<1>3. PICK t : Sums(t, g) /\ Total(g) = t[n]
  BY SumsExist
<1>4. PICK u : Sums(u, h) /\ Total(h) = u[m + n]
  BY <1>1, SumsExist
<1> HIDE DEF m, n
<1>5. /\ s \in [0..m -> Nat] /\ s[0] = 0 /\ \A k \in 1..m : s[k] = s[k - 1] + f[k]
      /\ t \in [0..n -> Nat] /\ t[0] = 0 /\ \A k \in 1..n : t[k] = t[k - 1] + g[k]
      /\ u \in [0..m + n -> Nat] /\ u[0] = 0 /\ \A k \in 1..m + n : u[k] = u[k - 1] + h[k]
  BY <1>1, <1>2, <1>3, <1>4 DEF Sums, m, n
<1>6. 0..m \subseteq {k \in 0..m : u[k] = s[k]}
  <2> DEFINE T == {k \in 0..m : u[k] = s[k]}
  <2>1. 0 \in T
    BY <1>1, <1>5
  <2>2. ASSUME NEW k \in 1..m, k - 1 \in T PROVE k \in T
    <3>1. k \in 1..m + n /\ u[k - 1] = s[k - 1] /\ h[k] = f[k]
      BY <1>1, <2>2
    <3> QED
      BY <1>5, <3>1
  <2> HIDE DEF T
  <2>3. 0..m \subseteq T
    BY <1>1, <2>1, <2>2, StepsByInduction
  <2> QED
    BY <2>3 DEF T
<1>7. 0..n \subseteq {k \in 0..n : u[m + k] = s[m] + t[k]}
  <2> DEFINE T == {k \in 0..n : u[m + k] = s[m] + t[k]}
  <2>1. 0 \in T
    <3>1. u[m] = s[m] /\ s[m] \in Nat
      BY <1>1, <1>5, <1>6
    <3> QED
      BY <1>1, <1>5, <3>1
  <2>2. ASSUME NEW k \in 1..n, k - 1 \in T PROVE k \in T
    <3>1. /\ m + k \in 1..m + n /\ (m + k) - 1 = m + (k - 1) /\ h[m + k] = g[k]
          /\ u[m + (k - 1)] = s[m] + t[k - 1]
      BY <1>1, <2>2
    <3>2. u[m + k] = (s[m] + t[k - 1]) + g[k]
      BY <1>5, <3>1
    <3>3. t[k] = t[k - 1] + g[k] /\ k \in 0..n /\ k - 1 \in 0..n /\ m \in 0..m
      BY <1>1, <1>5
    <3>4. g[k] \in Nat /\ s[m] \in Nat /\ t[k - 1] \in Nat
      BY <1>1, <1>5, <3>3
    <3>5. u[m + k] = s[m] + t[k]
      BY <3>2, <3>3, <3>4
    <3> QED
      BY <3>3, <3>5
  <2> HIDE DEF T
  <2>3. 0..n \subseteq T
    BY <1>1, <2>1, <2>2, StepsByInduction
  <2> QED
    BY <2>3 DEF T
<1>8. u[m + n] = s[m] + t[n] /\ s[m] \in Nat /\ t[n] \in Nat
  BY <1>1, <1>5, <1>7
<1> QED
  BY <1>2, <1>3, <1>4, <1>8 DEF h

\* Groups behind groups.
LEMMA GroupsBehind ==
    ASSUME NEW f \in Seq(Seq(Nat)), NEW g \in Seq(Seq(Nat))
    PROVE  /\ FlattenGroups(f \o g) = FlattenGroups(f) \o FlattenGroups(g)
           /\ FlattenGroups(f) \in Seq(Nat) /\ FlattenGroups(g) \in Seq(Nat)
<1> DEFINE h == f \o g
           m == Len(f)
           n == Len(g)
<1>1. /\ h \in Seq(Seq(Nat)) /\ Len(h) = m + n /\ m \in Nat /\ n \in Nat
      /\ \A k \in 1..m : h[k] = f[k]
      /\ \A k \in 1..n : h[m + k] = g[k] /\ g[k] \in Seq(Nat)
  <2> DEFINE S == Seq(Nat)
  <2>1. f \in Seq(S) /\ g \in Seq(S)
    OBVIOUS
  <2> HIDE DEF S
  <2>2. /\ h \in Seq(S) /\ Len(h) = m + n /\ m \in Nat /\ n \in Nat
        /\ \A k \in 1..m : h[k] = f[k]
        /\ \A k \in 1..n : h[m + k] = g[k] /\ g[k] \in S
    BY <2>1, Concatenated
  <2> QED
    BY <2>2 DEF S
<1> HIDE DEF h
<1>2. PICK s : Flats(s, f) /\ FlattenGroups(f) = s[m]
  BY FlatsExist
<1>3. PICK t : Flats(t, g) /\ FlattenGroups(g) = t[n]
  BY FlatsExist
<1>4. PICK u : Flats(u, h) /\ FlattenGroups(h) = u[m + n]
  BY <1>1, FlatsExist
<1> HIDE DEF m, n
<1>5. /\ s \in [0..m -> Seq(Nat)] /\ s[0] = <<>> /\ \A k \in 1..m : s[k] = s[k - 1] \o f[k]
      /\ t \in [0..n -> Seq(Nat)] /\ t[0] = <<>> /\ \A k \in 1..n : t[k] = t[k - 1] \o g[k]
      /\ u \in [0..m + n -> Seq(Nat)] /\ u[0] = <<>> /\ \A k \in 1..m + n : u[k] = u[k - 1] \o h[k]
  BY <1>1, <1>2, <1>3, <1>4 DEF Flats, m, n
<1>6. 0..m \subseteq {k \in 0..m : u[k] = s[k]}
  <2> DEFINE T == {k \in 0..m : u[k] = s[k]}
  <2>1. 0 \in T
    BY <1>1, <1>5
  <2>2. ASSUME NEW k \in 1..m, k - 1 \in T PROVE k \in T
    <3>1. k \in 1..m + n /\ u[k - 1] = s[k - 1] /\ h[k] = f[k] /\ k \in 0..m
      BY <1>1, <2>2
    <3>2. u[k] = u[k - 1] \o h[k] /\ s[k] = s[k - 1] \o f[k]
      BY <1>5, <3>1
    <3>3. u[k] = s[k]
      BY <3>1, <3>2
    <3> QED
      BY <3>1, <3>3
  <2> HIDE DEF T
  <2>3. 0..m \subseteq T
    BY <1>1, <2>1, <2>2, StepsByInduction
  <2> QED
    BY <2>3 DEF T
<1> DEFINE Both(k) == s[m] \o t[k]
<1>7. 0..n \subseteq {k \in 0..n : u[m + k] = Both(k)}
  <2> DEFINE T == {k \in 0..n : u[m + k] = Both(k)}
  <2>0. s[m] \in Seq(Nat) /\ u[m] = s[m]
    BY <1>1, <1>5, <1>6
  <2>1. 0 \in T
    <3>1. s[m] \o <<>> = s[m]
      BY <2>0, NothingBehind
    <3>2. u[m + 0] = s[m] \o t[0]
      BY <1>1, <1>5, <2>0, <3>1
    <3>3. u[m + 0] = Both(0) /\ 0 \in 0..n
      BY <1>1, <3>2
    <3> HIDE DEF Both
    <3> QED
      BY <3>3
  <2>2. ASSUME NEW k \in 1..n, k - 1 \in T PROVE k \in T
    <3>0. u[m + (k - 1)] = Both(k - 1)
      <4> HIDE DEF Both
      <4> QED
        BY <2>2
    <3>1. /\ m + k \in 1..m + n /\ (m + k) - 1 = m + (k - 1) /\ h[m + k] = g[k]
          /\ u[m + (k - 1)] = s[m] \o t[k - 1] /\ k \in 0..n
      BY <1>1, <3>0
    <3>2. u[m + k] = (s[m] \o t[k - 1]) \o g[k]
      BY <1>5, <3>1
    <3>3. t[k] = t[k - 1] \o g[k] /\ t[k - 1] \in Seq(Nat) /\ g[k] \in Seq(Nat)
      <4>1. k - 1 \in 0..n
        BY <1>1
      <4> QED
        BY <1>1, <1>5, <4>1
    <3>4. (s[m] \o t[k - 1]) \o g[k] = s[m] \o (t[k - 1] \o g[k])
      BY <2>0, <3>3, NumbersBehind
    <3>5. u[m + k] = Both(k)
      BY <3>2, <3>3, <3>4
    <3> HIDE DEF Both
    <3> QED
      BY <3>1, <3>5
  <2> HIDE DEF T
  <2>3. 0..n \subseteq T
    BY <1>1, <2>1, <2>2, StepsByInduction
  <2> QED
    BY <2>3 DEF T
<1>8. u[m + n] = s[m] \o t[n] /\ s[m] \in Seq(Nat) /\ t[n] \in Seq(Nat)
  <2>1. m \in 0..m /\ n \in 0..n
    BY <1>1
  <2>2. u[m + n] = Both(n)
    <3> HIDE DEF Both
    <3> QED
      BY <1>7, <2>1
  <2> QED
    BY <1>5, <2>1, <2>2
<1> QED
  BY <1>2, <1>3, <1>4, <1>8 DEF h

\* One piece, one group, nothing.
LEMMA SmallTotals ==
    /\ Total(<<>>) = 0
    /\ \A x \in Nat : <<x>> \in Seq(Nat) /\ Total(<<x>>) = x
    /\ FlattenGroups(<<>>) = <<>>
    /\ \A x \in Seq(Nat) : <<x>> \in Seq(Seq(Nat)) /\ FlattenGroups(<<x>>) = x
<1>1. Total(<<>>) = 0
  <2>0. <<>> \in Seq(Nat) /\ Len(<<>>) = 0
    OBVIOUS
  <2>1. PICK s : Sums(s, <<>>) /\ Total(<<>>) = s[Len(<<>>)]
    BY <2>0, SumsExist
  <2> QED
    BY <2>0, <2>1 DEF Sums
<1>2. ASSUME NEW x \in Nat PROVE <<x>> \in Seq(Nat) /\ Total(<<x>>) = x
  <2>1. <<x>> \in Seq(Nat) /\ Len(<<x>>) = 1 /\ <<x>>[1] = x
    OBVIOUS
  <2>2. PICK s : Sums(s, <<x>>) /\ Total(<<x>>) = s[Len(<<x>>)]
    BY <2>1, SumsExist
  <2>3. s[1] = s[0] + x /\ s[0] = 0
    <3>1. 1 \in 1..Len(<<x>>) /\ 1 - 1 = 0
      BY <2>1
    <3> QED
      BY <2>1, <2>2, <3>1 DEF Sums
  <2> QED
    BY <2>1, <2>2, <2>3
<1>3. FlattenGroups(<<>>) = <<>>
  <2>0. <<>> \in Seq(Seq(Nat)) /\ Len(<<>>) = 0
    OBVIOUS
  <2>1. PICK s : Flats(s, <<>>) /\ FlattenGroups(<<>>) = s[Len(<<>>)]
    BY <2>0, FlatsExist
  <2> QED
    BY <2>0, <2>1 DEF Flats
<1>4. ASSUME NEW x \in Seq(Nat) PROVE <<x>> \in Seq(Seq(Nat)) /\ FlattenGroups(<<x>>) = x
  <2>1. <<x>> \in Seq(Seq(Nat)) /\ Len(<<x>>) = 1 /\ <<x>>[1] = x
    OBVIOUS
  <2>2. PICK s : Flats(s, <<x>>) /\ FlattenGroups(<<x>>) = s[Len(<<x>>)]
    BY <2>1, FlatsExist
  <2>3. s[1] = s[0] \o x /\ s[0] = <<>>
    <3>1. 1 \in 1..Len(<<x>>) /\ 1 - 1 = 0
      BY <2>1
    <3> QED
      BY <2>1, <2>2, <3>1 DEF Flats
  <2>4. <<>> \o x = x
    BY NothingBehind
  <2> QED
    BY <2>1, <2>2, <2>3, <2>4
<1> QED
  BY <1>1, <1>2, <1>3, <1>4

\* One more group.
LEMMA OneGroup ==
    ASSUME NEW f \in Seq(Seq(Nat)), NEW x \in Seq(Nat)
    PROVE  /\ Append(f, x) \in Seq(Seq(Nat)) /\ FlattenGroups(Append(f, x)) = FlattenGroups(f) \o x
           /\ FlattenGroups(f) \in Seq(Nat)
<1> DEFINE S == Seq(Nat)
           y == <<x>>
<1>1. f \in Seq(S) /\ x \in S
  OBVIOUS
<1>2. Append(f, x) = f \o y /\ y \in Seq(S) /\ Append(f, x) \in Seq(S)
  <2> HIDE DEF S
  <2> QED
    BY <1>1, AppendIsBehind
<1>3. FlattenGroups(y) = x
  BY SmallTotals
<1> HIDE DEF y
<1>4. FlattenGroups(f \o y) = FlattenGroups(f) \o FlattenGroups(y) /\ FlattenGroups(f) \in Seq(Nat)
  BY <1>2, GroupsBehind
<1> QED
  BY <1>2, <1>3, <1>4

-----------------------------------------------------------------------------
(* The chunks a long text is cut into                                      *)

\* A sentence longer than the largest size is a chunk of its own.
Alone(m) == {g \in Seq(Nat) : Joined(g) > m => Len(g) = 1}

\* While a text is split no chunk is too short and none too long.
Full(m, n) == {g \in Seq(Nat) : Total(g) <= m /\ (Total(g) > n \/ Total(g) = m)}

LEMMA GroupsTyped ==
    ASSUME NEW S, S \subseteq Seq(Nat), NEW f \in Seq(S)
    PROVE  f \in Seq(Seq(Nat)) /\ Len(f) \in Nat /\ \A i \in 1..Len(f) : f[i] \in S
<1> DEFINE A == Seq(Nat)
<1>1. S \subseteq A
  OBVIOUS
<1> HIDE DEF A
<1>2. f \in Seq(A) /\ Len(f) \in Nat /\ \A i \in 1..Len(f) : f[i] \in S
  BY <1>1
<1> QED
  BY <1>2 DEF A

LEMMA LongIsSplit ==
    ASSUME NEW m \in Nat \ {0}, config.maxSize = m, NEW n \in Nat, NEW least \in Int
    PROVE  /\ SplitSize(n) \in Seq(Full(m, least)) /\ SplitSize(n) \in Seq(Seq(Nat))
           /\ n % m \in Nat /\ n % m <= m
           /\ Total(FlattenGroups(SplitSize(n))) + (n % m) = n
<1> DEFINE f == SplitSize(n)
<1>1. PICK q \in Nat, r \in Nat : n \div m = q /\ n % m = r /\ Parts(n, m, q, r)
  BY Divided
<1>2. f = [i \in 1..q |-> <<m>>]
  BY <1>1 DEF SplitSize
<1>3. <<m>> \in Full(m, least)
  BY SmallTotals DEF Full
<1>4. f \in Seq(Full(m, least)) /\ Len(f) = q /\ \A i \in 1..q : f[i] = <<m>>
  <2> DEFINE S == Full(m, least)
             x == <<m>>
  <2>1. f = [i \in 1..q |-> x] /\ x \in S
    BY <1>2, <1>3
  <2> HIDE DEF S, x, f
  <2>2. f \in Seq(S) /\ Len(f) = q /\ \A i \in 1..q : f[i] = x
    BY <2>1
  <2> QED
    BY <2>2 DEF S, x
<1>5. f \in Seq(Seq(Nat))
  BY <1>4, GroupsTyped DEF Full
<1> HIDE DEF f
<1>6. PICK s : Flats(s, f) /\ FlattenGroups(f) = s[q]
  BY <1>4, <1>5, FlatsExist
<1> DEFINE T == {k \in 0..q : Total(s[k]) = k * m}
<1>7. 0 \in T
  <2>1. s[0] = <<>>
    BY <1>6 DEF Flats
  <2> QED
    BY <2>1, SmallTotals
<1>8. ASSUME NEW k \in 1..q, k - 1 \in T PROVE k \in T
  <2>1. k \in 0..q /\ k - 1 \in 0..q /\ k \in Nat
    OBVIOUS
  <2>2. s[k] = s[k - 1] \o <<m>> /\ s[k - 1] \in Seq(Nat)
    BY <1>4, <1>6, <2>1 DEF Flats
  <2>3. <<m>> \in Seq(Nat) /\ Total(<<m>>) = m
    BY SmallTotals
  <2>4. Total(s[k]) = Total(s[k - 1]) + m
    BY <2>2, <2>3, TotalBehind
  <2>5. Total(s[k - 1]) = (k - 1) * m
    BY <1>8
  <2>6. (k - 1) * m + m = k * m
    BY <2>1
  <2> QED
    BY <2>1, <2>4, <2>5, <2>6
<1>9. 0..q \subseteq T
  <2> HIDE DEF T
  <2> QED
    BY <1>7, <1>8, StepsByInduction
<1>10. Total(FlattenGroups(f)) = q * m
  BY <1>6, <1>9
<1>11. n = q * m + r /\ r < m
  BY <1>1 DEF Parts
<1>12. Total(FlattenGroups(f)) + (n % m) = n /\ n % m \in Nat /\ n % m <= m
  <2> DEFINE u == q * m
  <2>1. u \in Nat /\ n = u + r /\ r < m /\ n % m = r /\ Total(FlattenGroups(f)) = u
    BY <1>1, <1>10, <1>11
  <2> DEFINE z == n % m
  <2>2. z = r
    BY <2>1
  <2> HIDE DEF u, z
  <2>3. Total(FlattenGroups(f)) + z = n /\ z \in Nat /\ z <= m
    BY <1>1, <2>1, <2>2
  <2> QED
    BY <2>3 DEF z
<1> QED
  BY <1>4, <1>5, <1>12 DEF f

-----------------------------------------------------------------------------
(* The invariant: a chunk being packed is no longer than it may be unless   *)
(* it is one sentence, and while a text is split every chunk could be the   *)
(* last one, so none may be too short or too long.                          *)

PiecesTyped ==
    pieces \in Seq(Nat) /\ given \in Seq(Nat) /\ current \in Seq(Nat) /\ groups \in Seq(Seq(Nat))

NothingPacked ==
    strategy \in {"none", "fixed", "sliding"} =>
       pieces = <<>> /\ current = <<>> /\ groups = <<>> /\ given = <<>>

\* Nothing is left out or taken twice.
NothingDropped ==
    /\ strategy = "pieces" => (FlattenGroups(groups) \o current) \o pieces = given
    /\ strategy \in {"split", "over"} =>
          Total(FlattenGroups(groups)) + Total(current) + Total(pieces) = Total(given)

SentencesFit ==
    strategy = "pieces" => current \in Alone(config.maxSize) /\ groups \in Seq(Alone(config.maxSize))

SplitsFit ==
    strategy = "split" =>
       Total(current) <= config.maxSize /\ groups \in Seq(Full(config.maxSize, config.minChunkSize))

\* What was too short at the end is a chunk if there is no other, or else the
\* end of the last one.
EndsFit ==
    strategy = "over" =>
       \A i \in 1..Len(groups) :
          /\ \/ Total(groups[i]) > config.minChunkSize
             \/ Total(groups[i]) = config.maxSize \/ Len(groups) = 1
          /\ \/ Total(groups[i]) <= config.maxSize
             \/ i = Len(groups) /\ Total(groups[i]) <= config.maxSize + config.minChunkSize

PieceInv ==
    /\ PiecesTyped
    /\ ConfigIsValid
    /\ NothingPacked
    /\ NothingDropped
    /\ SentencesFit
    /\ SplitsFit
    /\ EndsFit

LEMMA PieceNumbers ==
    ASSUME ConfigIsValid, strategy # "none"
    PROVE  /\ config.maxSize \in Nat \ {0} /\ config.minChunkSize \in Nat \ {0}
           /\ config.minChunkSize <= config.maxSize
<1>1. config \in [maxSize : Int, overlap : Int, minChunkSize : Int,
                  preserveWords : BOOLEAN, preserveSentences : BOOLEAN]
  BY ChunkingAssumption DEF ChunkingAssumption, ConfigIsValid
<1>2. config.maxSize \in Int /\ config.minChunkSize \in Int
  BY <1>1
<1>3. ValidateConfig
  BY DEF ConfigIsValid
<1> QED
  BY <1>2, <1>3 DEF ValidateConfig

LEMMA InitPacked == ChunkInit => PieceInv
<1> SUFFICES ASSUME ChunkInit PROVE PieceInv
  OBVIOUS
<1>1. <<>> \in Seq(Nat) /\ <<>> \in Seq(Seq(Nat))
  OBVIOUS
<1> QED
  BY <1>1 DEF ChunkInit, PieceInv, PiecesTyped, ConfigIsValid, NothingPacked, NothingDropped,
     SentencesFit, SplitsFit, EndsFit

\* The pieces of a text are given, and nothing is packed yet.
LEMMA GivenKeepsInv ==
    ASSUME PieceInv, strategy = "none", ValidateConfig, NEW p \in Pieces, ChunkPieces(p) \/ SplitTexts(p)
    PROVE  PieceInv'
<1>1. /\ pieces' = p /\ given' = p /\ current' = <<>> /\ groups' = <<>> /\ config' = config
      /\ strategy' \in {"pieces", "split"}
  BY DEF PieceInv, NothingPacked, ChunkPieces, SplitTexts
<1>2. p \in Seq(Nat) /\ <<>> \in Seq(Nat) /\ <<>> \in Seq(Seq(Nat))
  BY ChunkingAssumption DEF ChunkingAssumption
<1>3. PiecesTyped' /\ ConfigIsValid' /\ NothingPacked' /\ EndsFit'
  BY <1>1, <1>2, ValidStays DEF PieceInv, PiecesTyped, ConfigIsValid, NothingPacked, EndsFit
<1>4. config.maxSize \in Int /\ config.maxSize > 0
  BY ChunkingAssumption DEF ChunkingAssumption, PieceInv, ConfigIsValid, ValidateConfig
<1>5. Total(<<>>) = 0 /\ FlattenGroups(<<>>) = <<>> /\ Joined(<<>>) = 0 /\ Total(p) \in Nat
  BY <1>2, SmallTotals, TotalBehind DEF Joined
<1>6. (<<>> \o <<>>) \o p = p
  OBVIOUS
<1>7. NothingDropped'
  <2>1. (FlattenGroups(<<>>) \o <<>>) \o p = p /\ Total(FlattenGroups(<<>>)) + Total(<<>>) + Total(p) = Total(p)
    <3>1. Total(FlattenGroups(<<>>)) = 0
      BY <1>5
    <3>2. (FlattenGroups(<<>>) \o <<>>) \o p = p
      BY <1>5, <1>6
    <3> QED
      BY <1>5, <3>1, <3>2
  <2> QED
    BY <1>1, <2>1 DEF NothingDropped
<1>8. <<>> \in Alone(config.maxSize)
  BY <1>2, <1>4, <1>5 DEF Alone
<1>9. \A S : <<>> \in Seq(S)
  OBVIOUS
<1>10. SentencesFit' /\ SplitsFit'
  BY <1>1, <1>4, <1>5, <1>8, <1>9 DEF SentencesFit, SplitsFit
<1> QED
  BY <1>3, <1>7, <1>10 DEF PieceInv

\* A sentence is packed into the current chunk, or begins the next one.
LEMMA PackKeepsInv ==
    ASSUME PieceInv, PackPiece
    PROVE  PieceInv'
<1> DEFINE p == Head(pieces)
           rest == Tail(pieces)
           flat == FlattenGroups(groups)
           m == config.maxSize
<1>1. /\ strategy = "pieces" /\ strategy' = strategy /\ config' = config /\ given' = given
      /\ pieces # <<>> /\ pieces' = rest
      /\ \/ groups' = Append(groups, current) /\ current' = <<p>> /\ current # <<>>
         \/ groups' = groups /\ current' = Append(current, p)
            /\ (Joined(current') > m => current = <<>>)
  BY DEF PackPiece, KeepPiece
<1>2. /\ pieces \in Seq(Nat) /\ given \in Seq(Nat) /\ current \in Seq(Nat) /\ groups \in Seq(Seq(Nat))
      /\ current \in Alone(m) /\ groups \in Seq(Alone(m))
      /\ (flat \o current) \o pieces = given
  BY <1>1 DEF PieceInv, PiecesTyped, SentencesFit, NothingDropped
<1>3. /\ pieces = <<p>> \o rest /\ p \in Nat /\ rest \in Seq(Nat) /\ <<p>> \in Seq(Nat)
  BY <1>1, <1>2, HeadBeforeTail
<1>4. flat \in Seq(Nat)
  BY <1>2, GroupsBehind
<1> HIDE DEF p, rest, flat, m
<1>5. ConfigIsValid' /\ NothingPacked' /\ SplitsFit' /\ EndsFit'
  BY <1>1, ValidStays DEF PieceInv, ConfigIsValid, NothingPacked, SplitsFit, EndsFit
<1>6. (flat \o current) \o pieces = ((flat \o current) \o <<p>>) \o rest
  <2>1. flat \o current \in Seq(Nat)
    BY <1>2, <1>4, Concatenated
  <2> QED
    BY <1>3, <2>1, NumbersBehind
<1>7. CASE groups' = Append(groups, current) /\ current' = <<p>>
  <2>2. FlattenGroups(groups') = flat \o current
    BY <1>2, <1>7, OneGroup DEF flat
  <2>3. groups' \in Seq(Seq(Nat)) /\ groups' \in Seq(Alone(m)) /\ <<p>> \in Alone(m)
    <3>1. \A S, g, e : g \in Seq(S) /\ e \in S => Append(g, e) \in Seq(S)
      OBVIOUS
    <3>2. Len(<<p>>) = 1
      OBVIOUS
    <3> QED
      BY <1>2, <1>3, <1>7, <3>1, <3>2 DEF Alone
  <2>4. NothingDropped'
    BY <1>1, <1>2, <1>6, <1>7, <2>2 DEF NothingDropped
  <2>5. PiecesTyped' /\ SentencesFit'
    BY <1>1, <1>2, <1>3, <1>7, <2>3 DEF PiecesTyped, SentencesFit, m
  <2> QED
    BY <1>5, <2>4, <2>5 DEF PieceInv
<1>8. CASE groups' = groups /\ current' = Append(current, p) /\ (Joined(current') > m => current = <<>>)
  <2>1. current' = current \o <<p>> /\ current' \in Seq(Nat)
    <3>1. Append(current, p) = current \o <<p>> /\ Append(current, p) \in Seq(Nat)
      BY <1>2, <1>3
    <3> QED
      BY <1>8, <3>1
  <2>2. current' \in Alone(m)
    <3>1. current = <<>> => Len(current') = 1
      BY <1>8, <1>3
    <3> QED
      BY <1>8, <2>1, <3>1 DEF Alone
  <2>3. (flat \o current) \o <<p>> = flat \o current'
    <3>1. (flat \o current) \o <<p>> = flat \o (current \o <<p>>)
      <4> DEFINE x == <<p>>
      <4>1. x \in Seq(Nat)
        BY <1>3
      <4> HIDE DEF x
      <4>2. (flat \o current) \o x = flat \o (current \o x)
        BY <1>2, <1>4, <4>1, NumbersBehind
      <4> QED
        BY <4>2 DEF x
    <3> QED
      BY <2>1, <3>1
  <2>4. NothingDropped'
    BY <1>1, <1>2, <1>6, <1>8, <2>3 DEF NothingDropped, flat
  <2>5. PiecesTyped' /\ SentencesFit'
    BY <1>1, <1>2, <1>3, <1>8, <2>1, <2>2 DEF PiecesTyped, SentencesFit, m
  <2> QED
    BY <1>5, <2>4, <2>5 DEF PieceInv
<1> QED
  BY <1>1, <1>7, <1>8

\* The last chunk of sentences.
LEMMA RestKeepsInv ==
    ASSUME PieceInv, PackRest
    PROVE  PieceInv'
<1> DEFINE flat == FlattenGroups(groups)
           m == config.maxSize
<1>1. /\ strategy = "pieces" /\ strategy' = strategy /\ config' = config /\ given' = given
      /\ pieces = <<>> /\ pieces' = <<>> /\ groups' = Append(groups, current) /\ current' = <<>>
  BY DEF PackRest
<1>2. /\ given \in Seq(Nat) /\ current \in Seq(Nat) /\ groups \in Seq(Seq(Nat))
      /\ current \in Alone(m) /\ groups \in Seq(Alone(m))
      /\ (flat \o current) \o pieces = given /\ pieces \in Seq(Nat)
  BY <1>1 DEF PieceInv, PiecesTyped, SentencesFit, NothingDropped
<1>3. flat \in Seq(Nat)
  BY <1>2, GroupsBehind
<1>4. m \in Nat \ {0}
  BY <1>1, PieceNumbers DEF PieceInv
<1> HIDE DEF flat, m
<1>5. ConfigIsValid' /\ NothingPacked' /\ SplitsFit' /\ EndsFit'
  BY <1>1, ValidStays DEF PieceInv, ConfigIsValid, NothingPacked, SplitsFit, EndsFit
<1>7. FlattenGroups(groups') = flat \o current
  BY <1>1, <1>2, OneGroup DEF flat
<1>8. (FlattenGroups(groups') \o <<>>) \o <<>> = (flat \o current) \o <<>>
  BY <1>2, <1>3, <1>7, Concatenated, NothingBehind
<1>9. groups' \in Seq(Seq(Nat)) /\ groups' \in Seq(Alone(m)) /\ <<>> \in Alone(m) /\ <<>> \in Seq(Nat)
  <2>1. \A S, g, e : g \in Seq(S) /\ e \in S => Append(g, e) \in Seq(S)
    OBVIOUS
  <2>2. <<>> \in Seq(Nat) /\ Joined(<<>>) = 0
    BY SmallTotals DEF Joined
  <2> QED
    BY <1>1, <1>2, <1>4, <2>1, <2>2 DEF Alone
<1>10. NothingDropped'
  BY <1>1, <1>2, <1>8 DEF NothingDropped
<1>11. PiecesTyped' /\ SentencesFit'
  BY <1>1, <1>2, <1>9 DEF PiecesTyped, SentencesFit, m
<1> QED
  BY <1>5, <1>10, <1>11 DEF PieceInv

-----------------------------------------------------------------------------
(* Splitting at punctuation                                                *)

\* What is between two marks joins what was carried over.
LEMMA SplitKeepsInv ==
    ASSUME PieceInv, SplitPiece
    PROVE  PieceInv'
<1> DEFINE p == Head(pieces)
           rest == Tail(pieces)
           flat == FlattenGroups(groups)
           m == config.maxSize
           least == config.minChunkSize
           length == Total(current) + p
           whole == Full(m, least)
<1>1. /\ strategy = "split" /\ strategy' = strategy /\ config' = config /\ given' = given
      /\ pieces # <<>> /\ pieces' = rest
  BY DEF SplitPiece
<1>2. /\ pieces \in Seq(Nat) /\ given \in Seq(Nat) /\ current \in Seq(Nat) /\ groups \in Seq(Seq(Nat))
      /\ Total(current) <= m /\ groups \in Seq(whole)
      /\ Total(flat) + Total(current) + Total(pieces) = Total(given)
  BY <1>1 DEF PieceInv, PiecesTyped, SplitsFit, NothingDropped
<1>3. /\ pieces = <<p>> \o rest /\ p \in Nat /\ rest \in Seq(Nat) /\ <<p>> \in Seq(Nat)
  BY <1>1, <1>2, HeadBeforeTail
<1>4. flat \in Seq(Nat) /\ Total(flat) \in Nat /\ Total(current) \in Nat /\ Total(rest) \in Nat
  BY <1>2, <1>3, GroupsBehind, TotalBehind
<1>5. m \in Nat \ {0} /\ least \in Nat \ {0} /\ least <= m
  BY <1>1, PieceNumbers DEF PieceInv
<1>6. Total(pieces) = p + Total(rest)
  BY <1>3, SmallTotals, TotalBehind
<1>7. length \in Nat
  BY <1>3, <1>4
<1>8. \/ length > m /\ groups' = groups \o SplitSize(length) /\ current' = <<length % m>>
      \/ length \in least + 1..m - 1 /\ groups' = Append(groups, <<length>>) /\ current' = <<>>
      \/ length <= m /\ current' = <<length>> /\ groups' = groups
  BY <1>3, <1>4, <1>5 DEF SplitPiece
<1>9. Total(flat) + length + Total(rest) = Total(given)
  BY <1>2, <1>3, <1>4, <1>6
<1> HIDE DEF p, rest, flat, m, least, length
<1>10. ConfigIsValid' /\ NothingPacked' /\ SentencesFit' /\ EndsFit'
  BY <1>1, ValidStays DEF PieceInv, ConfigIsValid, NothingPacked, SentencesFit, EndsFit
\* What remains to be shown in each case.
<1>11. SUFFICES /\ groups' \in Seq(Seq(Nat)) /\ groups' \in Seq(whole)
                /\ current' \in Seq(Nat) /\ Total(current') <= m
                /\ Total(FlattenGroups(groups')) + Total(current') = Total(flat) + length
  <2>1. Total(FlattenGroups(groups')) + Total(current') + Total(pieces') = Total(given')
    BY <1>1, <1>9, <1>11
  <2>2. NothingDropped'
    BY <1>1, <2>1 DEF NothingDropped
  <2>3. PiecesTyped' /\ SplitsFit'
    BY <1>1, <1>2, <1>3, <1>11 DEF PiecesTyped, SplitsFit, m, least
  <2> QED
    BY <1>10, <2>2, <2>3 DEF PieceInv
<1>12. CASE length > m /\ groups' = groups \o SplitSize(length) /\ current' = <<length % m>>
  <2> DEFINE more == SplitSize(length)
             r == length % m
  <2>1. /\ more \in Seq(whole) /\ more \in Seq(Seq(Nat))
        /\ r \in Nat /\ r <= m /\ Total(FlattenGroups(more)) + r = length
    <3>1. config.maxSize = m /\ least \in Int
      BY <1>5 DEF m
    <3> QED
      BY <1>5, <1>7, <3>1, LongIsSplit
  <2> HIDE DEF more, r, whole
  <2>2. groups' = groups \o more /\ current' = <<r>>
    BY <1>12 DEF more, r
  <2>3. groups' \in Seq(whole)
    BY <1>2, <2>1, <2>2, Concatenated
  <2>4. groups' \in Seq(Seq(Nat))
    <3> DEFINE S == Seq(Nat)
    <3>1. groups \in Seq(S) /\ more \in Seq(S)
      BY <1>2, <2>1
    <3> HIDE DEF S
    <3>2. groups' \in Seq(S)
      BY <2>2, <3>1, Concatenated
    <3> QED
      BY <3>2 DEF S
  <2>5. FlattenGroups(groups') = flat \o FlattenGroups(more) /\ FlattenGroups(more) \in Seq(Nat)
    BY <1>2, <2>1, <2>2, GroupsBehind DEF flat
  <2>6. Total(FlattenGroups(groups')) = Total(flat) + Total(FlattenGroups(more))
        /\ Total(FlattenGroups(more)) \in Nat
    BY <1>4, <2>5, TotalBehind
  <2>7. current' \in Seq(Nat) /\ Total(current') = r
    BY <2>1, <2>2, SmallTotals
  <2> QED
    BY <1>4, <2>1, <2>3, <2>4, <2>6, <2>7
<1>13. CASE length \in least + 1..m - 1 /\ groups' = Append(groups, <<length>>) /\ current' = <<>>
  <2>1. /\ <<length>> \in Seq(Nat) /\ Total(<<length>>) = length
        /\ <<>> \in Seq(Nat) /\ Total(<<>>) = 0
    BY <1>7, SmallTotals
  <2>2. length > least /\ length <= m
    BY <1>5, <1>7, <1>13
  <2>3. <<length>> \in whole
    BY <2>1, <2>2 DEF Full
  <2>4. groups' \in Seq(whole)
    <3> DEFINE e == <<length>>
    <3>1. groups \in Seq(whole) /\ e \in whole /\ groups' = Append(groups, e)
      BY <1>2, <1>13, <2>3
    <3> HIDE DEF whole, e
    <3> QED
      BY <3>1
  <2>5. /\ groups' \in Seq(Seq(Nat)) /\ FlattenGroups(groups') = flat \o <<length>>
    BY <1>2, <1>13, <2>1, OneGroup DEF flat
  <2>6. Total(FlattenGroups(groups')) = Total(flat) + length
    BY <1>4, <2>1, <2>5, TotalBehind
  <2>7. current' \in Seq(Nat) /\ Total(current') = 0
    BY <1>13, <2>1
  <2> QED
    BY <1>4, <1>5, <1>7, <2>4, <2>5, <2>6, <2>7
<1>14. CASE length <= m /\ current' = <<length>> /\ groups' = groups
  <2>1. current' \in Seq(Nat) /\ Total(current') = length
    BY <1>7, <1>14, SmallTotals
  <2>2. Total(FlattenGroups(groups')) = Total(flat)
    BY <1>14 DEF flat
  <2> QED
    BY <1>2, <1>14, <2>1, <2>2
<1> QED
  BY <1>8, <1>12, <1>13, <1>14

\* The last chunk of a text that was split.
LEMMA OverKeepsInv ==
    ASSUME PieceInv, SplitRest
    PROVE  PieceInv'
<1> DEFINE flat == FlattenGroups(groups)
           m == config.maxSize
           least == config.minChunkSize
           over == Total(current)
           n == Len(groups)
<1>1. /\ strategy = "split" /\ strategy' = "over" /\ config' = config /\ given' = given
      /\ pieces = <<>> /\ pieces' = <<>> /\ current' = <<>>
  BY DEF SplitRest
<1>2. /\ given \in Seq(Nat) /\ current \in Seq(Nat) /\ groups \in Seq(Seq(Nat))
      /\ over <= m /\ groups \in Seq(Full(m, least))
      /\ Total(flat) + over + Total(<<>>) = Total(given)
  BY <1>1 DEF PieceInv, PiecesTyped, SplitsFit, NothingDropped
<1>3. flat \in Seq(Nat) /\ Total(flat) \in Nat /\ over \in Nat /\ Total(given) \in Nat
  BY <1>2, GroupsBehind, TotalBehind
<1>4. m \in Nat \ {0} /\ least \in Nat \ {0} /\ least <= m
  BY <1>1, PieceNumbers DEF PieceInv
<1>5. <<over>> \in Seq(Nat) /\ Total(<<over>>) = over /\ <<>> \in Seq(Nat) /\ Total(<<>>) = 0
  BY <1>3, SmallTotals
<1>6. n \in Nat /\ \A i \in 1..n : groups[i] \in Seq(Nat) /\ groups[i] \in Full(m, least)
  BY <1>2, GroupsTyped DEF Full
<1>7. \A i \in 1..n : Total(groups[i]) \in Nat /\ Total(groups[i]) <= m
                      /\ (Total(groups[i]) > least \/ Total(groups[i]) = m)
  BY <1>6, TotalBehind DEF Full
<1>8. \/ groups' = Append(groups, <<over>>) /\ (over > least \/ groups = <<>>)
      \/ groups' = [groups EXCEPT ![n] = Append(groups[n], over)] /\ over <= least /\ groups # <<>>
  BY <1>3, <1>4 DEF SplitRest
<1> HIDE DEF flat, m, least, over
<1>9. ConfigIsValid' /\ NothingPacked' /\ SentencesFit' /\ SplitsFit'
  BY <1>1, ValidStays DEF PieceInv, ConfigIsValid, NothingPacked, SentencesFit, SplitsFit
<1>10. SUFFICES /\ groups' \in Seq(Seq(Nat)) /\ EndsFit'
                /\ Total(FlattenGroups(groups')) = Total(flat) + over
  <2>1. Total(FlattenGroups(groups')) + Total(current') + Total(pieces') = Total(given')
    BY <1>1, <1>2, <1>3, <1>5, <1>10
  <2>2. NothingDropped'
    BY <1>1, <2>1 DEF NothingDropped
  <2>3. PiecesTyped'
    BY <1>1, <1>2, <1>5, <1>10 DEF PiecesTyped
  <2> QED
    BY <1>9, <1>10, <2>2, <2>3 DEF PieceInv
<1>11. CASE groups' = Append(groups, <<over>>) /\ (over > least \/ groups = <<>>)
  <2>1. groups' \in Seq(Seq(Nat)) /\ FlattenGroups(groups') = flat \o <<over>>
    BY <1>2, <1>5, <1>11, OneGroup DEF flat
  <2>2. Total(FlattenGroups(groups')) = Total(flat) + over
    BY <1>3, <1>5, <2>1, TotalBehind
  <2>3. /\ Len(groups') = n + 1 /\ groups'[n + 1] = <<over>>
        /\ \A i \in 1..n : groups'[i] = groups[i]
        /\ groups = <<>> => n = 0
    BY <1>2, <1>11
  <2>4. ASSUME NEW i \in 1..Len(groups')
        PROVE  /\ \/ Total(groups'[i]) > least
                  \/ Total(groups'[i]) = m \/ Len(groups') = 1
               /\ Total(groups'[i]) <= m
    <3>1. CASE i \in 1..n
      BY <1>7, <2>3, <3>1
    <3>2. CASE i = n + 1
      BY <1>2, <1>5, <1>6, <1>11, <2>3, <3>2
    <3> QED
      BY <1>6, <2>3, <3>1, <3>2
  <2>5. EndsFit'
    BY <1>1, <2>4 DEF EndsFit, m, least
  <2> QED
    BY <2>1, <2>2, <2>5
<1>12. CASE groups' = [groups EXCEPT ![n] = Append(groups[n], over)] /\ over <= least /\ groups # <<>>
  <2> DEFINE front == [i \in 1..n - 1 |-> groups[i]]
             last == groups[n]
  <2>1. n \in 1..n /\ n - 1 \in Nat
    BY <1>2, <1>12
  <2>2. last \in Seq(Nat) /\ Append(last, over) \in Seq(Nat) /\ Append(last, over) = last \o <<over>>
    BY <1>3, <1>6, <2>1
  <2>3. /\ Len(groups') = n /\ groups' \in Seq(Seq(Nat)) /\ groups'[n] = Append(last, over)
        /\ \A i \in 1..n - 1 : groups'[i] = groups[i]
    <3> DEFINE S == Seq(Nat)
    <3>1. groups \in Seq(S) /\ Append(last, over) \in S
      BY <1>2, <2>2
    <3> DEFINE x == Append(last, over)
    <3>2. groups' = [groups EXCEPT ![n] = x] /\ x \in S
      BY <1>12, <3>1
    <3> HIDE DEF S, x
    <3>3. /\ Len(groups') = n /\ groups' \in Seq(S) /\ groups'[n] = x
          /\ \A i \in 1..n - 1 : groups'[i] = groups[i]
      BY <2>1, <3>1, <3>2
    <3> QED
      BY <3>3 DEF S, x
  <2>4. front \in Seq(Seq(Nat)) /\ groups = Append(front, last) /\ groups' = Append(front, Append(last, over))
    <3> DEFINE S == Seq(Nat)
               x == Append(last, over)
    <3>1. groups \in Seq(S) /\ last \in S /\ x \in S /\ groups' \in Seq(S) /\ groups'[n] = x
      BY <1>2, <2>2, <2>3
    <3>2. \A i \in 1..n - 1 : groups[i] \in S
      BY <1>6, <2>1
    <3> HIDE DEF S, x
    <3>3. front \in Seq(S) /\ Len(front) = n - 1
      BY <2>1, <3>2
    <3>4. groups = Append(front, last)
      BY <2>1, <3>1, <3>3
    <3>5. groups' = Append(front, x)
      <4> DEFINE l == groups'
                 r == Append(front, x)
      <4>1. l \in Seq(S) /\ Len(l) = n /\ l[n] = x /\ \A i \in 1..n - 1 : l[i] = front[i]
        BY <2>1, <2>3, <3>1
      <4>2. r \in Seq(S) /\ Len(r) = n /\ r[n] = x /\ \A i \in 1..n - 1 : r[i] = front[i]
        BY <2>1, <3>1, <3>3
      <4>3. \A i \in 1..n : i = n \/ i \in 1..n - 1
        BY <2>1
      <4> HIDE DEF l, r, front
      <4>4. l = r
        BY <4>1, <4>2, <4>3
      <4> QED
        BY <4>4 DEF l, r
    <3> QED
      BY <3>3, <3>4, <3>5 DEF S, x
  <2> HIDE DEF front, last
  <2>5. /\ flat = FlattenGroups(front) \o last /\ FlattenGroups(front) \in Seq(Nat)
        /\ FlattenGroups(groups') = FlattenGroups(front) \o (last \o <<over>>)
    <3>1. FlattenGroups(groups) = FlattenGroups(front) \o last /\ FlattenGroups(front) \in Seq(Nat)
      BY <2>2, <2>4, OneGroup
    <3>2. FlattenGroups(groups') = FlattenGroups(front) \o Append(last, over)
      BY <2>2, <2>4, OneGroup
    <3> QED
      BY <2>2, <3>1, <3>2 DEF flat
  <2>6. Total(last \o <<over>>) = Total(last) + over /\ Total(last) \in Nat
    BY <1>5, <2>2, TotalBehind
  <2>7. Total(FlattenGroups(groups')) = Total(flat) + over
    <3>1. Total(flat) = Total(FlattenGroups(front)) + Total(last) /\ Total(FlattenGroups(front)) \in Nat
      BY <2>2, <2>5, TotalBehind
    <3>2. last \o <<over>> \in Seq(Nat)
      BY <2>2
    <3>3. Total(FlattenGroups(groups')) = Total(FlattenGroups(front)) + Total(last \o <<over>>)
      BY <2>5, <3>2, TotalBehind
    <3> QED
      BY <1>3, <2>6, <3>1, <3>3
  <2>8. ASSUME NEW i \in 1..Len(groups')
        PROVE  /\ Total(groups'[i]) > least \/ Total(groups'[i]) = m
               /\ Total(groups'[i]) <= m \/ (i = Len(groups') /\ Total(groups'[i]) <= m + least)
    <3>1. CASE i \in 1..n - 1
      <4>1. i \in 1..n /\ groups'[i] = groups[i]
        BY <2>1, <2>3, <3>1
      <4> QED
        BY <1>7, <4>1
    <3>2. CASE i = n
      <4>1. Total(groups'[i]) = Total(last) + over
        BY <2>2, <2>3, <2>6, <3>2
      <4>2. Total(last) <= m /\ (Total(last) > least \/ Total(last) = m)
        BY <1>7, <2>1 DEF last
      <4>3. over <= least /\ over \in Nat /\ least \in Nat /\ m \in Nat /\ least <= m
        BY <1>3, <1>4, <1>12
      <4>4. Total(last) + over > least \/ Total(last) + over = m
        BY <2>6, <4>2, <4>3
      <4>5. Total(last) + over <= m + least
        BY <2>6, <4>2, <4>3
      <4> QED
        BY <2>3, <3>2, <4>1, <4>4, <4>5
    <3> QED
      BY <2>1, <2>3, <3>1, <3>2
  <2>9. EndsFit'
    BY <1>1, <2>8 DEF EndsFit, m, least
  <2> QED
    BY <2>3, <2>7, <2>9
<1> QED
  BY <1>8, <1>11, <1>12

\* Cutting by size leaves the pieces alone.
LEMMA CuttingLeavesPieces ==
    ASSUME PieceInv, strategy \in {"none", "fixed", "sliding"},
           strategy' \in {"none", "fixed", "sliding"}, strategy' # "none" => ValidateConfig,
           UNCHANGED <<config, pieces, current, groups, given>>
    PROVE  PieceInv'
<1>1. /\ strategy \notin {"pieces", "split", "over"} /\ strategy' \notin {"pieces", "split", "over"}
      /\ strategy' \in {"none", "fixed", "sliding"}
  OBVIOUS
<1> QED
  BY <1>1, ValidStays DEF PieceInv, PiecesTyped, ConfigIsValid, NothingPacked, NothingDropped,
     SentencesFit, SplitsFit, EndsFit

LEMMA PackingKeepsInv ==
    ASSUME PieceInv, [ChunkNext]_chunking
    PROVE  PieceInv'
<1>1. CASE strategy = "none" /\ ValidateConfig /\ \E t \in Text, s \in {"fixed", "sliding"} : ChunkText(s, t)
  BY <1>1, CuttingLeavesPieces DEF ChunkText
<1>2. CASE strategy = "none" /\ ValidateConfig /\ \E p \in Pieces : ChunkPieces(p) \/ SplitTexts(p)
  BY <1>2, GivenKeepsInv
<1>3. CASE CutFixed
  BY <1>3, CuttingLeavesPieces DEF CutFixed, CutWindow, PieceInv, ConfigIsValid
<1>4. CASE CutSliding
  BY <1>4, CuttingLeavesPieces DEF CutSliding, CutWindow, PieceInv, ConfigIsValid
<1>5. CASE PackPiece
  BY <1>5, PackKeepsInv
<1>6. CASE PackRest
  BY <1>6, RestKeepsInv
<1>7. CASE SplitPiece
  BY <1>7, SplitKeepsInv
<1>8. CASE SplitRest
  BY <1>8, OverKeepsInv
<1>9. CASE UNCHANGED chunking
  BY <1>9, ValidStays DEF chunking, PieceInv, PiecesTyped, ConfigIsValid, NothingPacked, NothingDropped,
     SentencesFit, SplitsFit, EndsFit
<1> QED
  BY <1>1, <1>2, <1>3, <1>4, <1>5, <1>6, <1>7, <1>8, <1>9 DEF ChunkNext

\* The pieces of a text, the chunk being packed and the chunks that are done
\* keep agreeing, for any configuration that is accepted and any pieces.
THEOREM PiecesInvariant == ChunkSpec => []PieceInv
<1>1. ChunkInit => PieceInv
  BY InitPacked
<1>2. PieceInv /\ [ChunkNext]_chunking => PieceInv'
  BY PackingKeepsInv
<1> QED
  BY <1>1, <1>2, PTL DEF ChunkSpec

LEMMA PieceInvPacks == PieceInv => PiecesArePacked
<1> SUFFICES ASSUME PieceInv PROVE PiecesArePacked
  OBVIOUS
<1>1. SentencesArePacked
  <2> SUFFICES ASSUME strategy = "pieces" PROVE SentencesArePacked
    BY DEF SentencesArePacked
  <2> DEFINE S == Alone(config.maxSize)
  <2>1. groups \in Seq(S) /\ (FlattenGroups(groups) \o current) \o pieces = given
    BY DEF PieceInv, SentencesFit, NothingDropped
  <2>2. \A i \in 1..Len(groups) : groups[i] \in S
    <3> HIDE DEF S
    <3> QED
      BY <2>1
  <2>3. \A i \in 1..Len(groups) : Joined(groups[i]) > config.maxSize => Len(groups[i]) = 1
    BY <2>2 DEF Alone
  <2> QED
    BY <2>1, <2>3 DEF SentencesArePacked
<1>2. TextsAreSplit
  <2>1. CASE strategy = "split"
    <3> DEFINE S == Full(config.maxSize, config.minChunkSize)
    <3>1. groups \in Seq(S) /\ Total(FlattenGroups(groups)) + Total(current) + Total(pieces) = Total(given)
      BY <2>1 DEF PieceInv, SplitsFit, NothingDropped
    <3>2. \A i \in 1..Len(groups) : groups[i] \in S
      <4> HIDE DEF S
      <4> QED
        BY <3>1
    <3> QED
      BY <2>1, <3>1, <3>2 DEF TextsAreSplit, Full
  <2>2. CASE strategy = "over"
    BY <2>2 DEF TextsAreSplit, PieceInv, EndsFit, NothingDropped
  <2> QED
    BY <2>1, <2>2 DEF TextsAreSplit
<1> QED
  BY <1>1, <1>2 DEF PiecesArePacked

\* Packing leaves out no sentence and takes none twice, and a chunk longer than
\* the largest size is one sentence; splitting at punctuation loses no
\* character and keeps the sizes: whatever the pieces and the configuration.
THEOREM PiecesAlwaysPacked == ChunkSpec => []PiecesArePacked
BY PiecesInvariant, PieceInvPacks, PTL

-----------------------------------------------------------------------------
(* One search of the embedding index                                       *)
(*                                                                         *)
(* An answer is what the two maps held, in the order of their keys, up to  *)
(* two positions: what lies before a position was told (or its row is      *)
(* gone), what lies behind it is no nearer than anything told. A map holds *)
(* every hit of the indexes read into it, unless its index broke off or    *)
(* another hit of the same distance replaced it.                           *)

\* The keys before a position, and those that are left.
Before(S, pos) == {d \in S : RankIn(S, d) < pos}
Left(S, pos) == {d \in S : ~(RankIn(S, d) < pos)}

\* A map holds the hits of the indexes in W, and nothing else. H has the hits
\* of each index.
MapHolds(map, W, H) ==
    /\ DOMAIN map \subseteq Distance
    /\ \A d \in DOMAIN map :
          /\ map[d] \in Chunk /\ map[d][1] \in W
          /\ map[d][2] \in DOMAIN H[map[d][1]] /\ H[map[d][1]][map[d][2]] = d
    /\ \A id \in Chunk :
          id[1] \in W /\ id[2] \in DOMAIN H[id[1]] =>
             \/ H[id[1]][id[2]] \in DOMAIN map
             \/ \E n \in DOMAIN H[id[1]] : H[id[1]][n] = 0

Known == [w \in 0..Len(files) |-> HitsOf(w)]

SearchTyped ==
    /\ asking \in {"no", "files", "merge", "answered"} /\ system \in BOOLEAN
    /\ topK \in Nat /\ topK <= MaxTopK
    /\ cacheIndex \in Hits(topK) /\ files \in Seq(File(topK)) /\ Len(files) <= MaxFiles
    /\ file \in Nat /\ file <= Len(files)
    /\ resultArray \in Seq([distance : Distance, id : Chunk, text : BOOLEAN])

NotYet ==
    /\ asking = "no" => cacheIndex = <<>> /\ file = 0 /\ cacheSearchRes = EmptyMap
    /\ asking \in {"no", "files"} => cachePos = 0 /\ dumpPos = 0 /\ resultArray = <<>>
    /\ file = 0 => dumpSearchRes = EmptyMap

\* Only the last file that was read may be unreadable, and it ends the reading.
FilesRead ==
    /\ \A m \in 1..file : m < file \/ asking = "files" => files[m].readable
    /\ asking \in {"merge", "answered"} => file = Len(files) \/ (file > 0 /\ ~files[file].readable)

SystemHasOne ==
    system => /\ cacheSearchRes = EmptyMap /\ Len(files) = 1
              /\ Cardinality(DOMAIN dumpSearchRes) <= topK /\ Len(resultArray) <= dumpPos

MapsHold == MapHolds(cacheSearchRes, {0}, Known) /\ MapHolds(dumpSearchRes, 1..file, Known)

Positions ==
    /\ cachePos \in Nat /\ cachePos <= Size(cacheSearchRes)
    /\ dumpPos \in Nat /\ dumpPos <= Size(dumpSearchRes)

\* A missing row of the system assistant's took the whole answer with it.
Lost ==
    asking = "answered" /\ system /\ resultArray = <<>> /\ \E other \in Found : other \notin rows

Told(id) == \E n \in DOMAIN resultArray : resultArray[n].id = id

CacheTold == \A d \in Before(DOMAIN cacheSearchRes, cachePos) : Told(cacheSearchRes[d])
DumpTold ==
    Lost \/ \A d \in Before(DOMAIN dumpSearchRes, dumpPos) :
               dumpSearchRes[d] \notin rows \/ Told(dumpSearchRes[d])

TellsTaken ==
    \A n \in DOMAIN resultArray :
       \/ /\ resultArray[n].distance \in Before(DOMAIN cacheSearchRes, cachePos)
          /\ resultArray[n].id = cacheSearchRes[resultArray[n].distance]
       \/ /\ resultArray[n].distance \in Before(DOMAIN dumpSearchRes, dumpPos)
          /\ resultArray[n].id = dumpSearchRes[resultArray[n].distance]

NearestFirst ==
    \A n \in DOMAIN resultArray :
       /\ \A d \in Left(DOMAIN cacheSearchRes, cachePos) : resultArray[n].distance <= d
       /\ \A d \in Left(DOMAIN dumpSearchRes, dumpPos) : resultArray[n].distance <= d

Ordered ==
    \A m, n \in DOMAIN resultArray :
       m < n => resultArray[m].distance <= resultArray[n].distance
                /\ resultArray[m].id # resultArray[n].id

Ends ==
    /\ Len(resultArray) <= topK
    /\ asking = "answered" =>
          \/ Lost \/ Len(resultArray) = topK
          \/ cachePos = Size(cacheSearchRes) /\ dumpPos = Size(dumpSearchRes)

MergeInv == Positions /\ CacheTold /\ DumpTold /\ TellsTaken /\ NearestFirst /\ Ordered /\ Ends

SearchInv ==
    /\ SearchTyped /\ NotYet /\ FilesRead /\ SystemHasOne /\ MapsHold
    /\ MergeInv

-----------------------------------------------------------------------------
(* Hits, and the maps they are inserted into                               *)

LEMMA HitsAre ==
    ASSUME NEW k \in Nat, NEW h \in Hits(k)
    PROVE  \E n \in Nat : n <= k /\ DOMAIN h = 1..n /\ \A m \in 1..n : h[m] \in Distance
<1>1. h \in UNION {[1..n -> Distance] : n \in 0..k}
  BY DEF Hits
<1>2. PICK n \in 0..k : h \in [1..n -> Distance]
  BY <1>1
<1> QED
  BY <1>2

LEMMA NoHits == \A k \in Nat : <<>> \in Hits(k)
<1> SUFFICES ASSUME NEW k \in Nat PROVE <<>> \in Hits(k)
  OBVIOUS
<1>1. <<>> \in [1..0 -> Distance] /\ 0 \in 0..k /\ DOMAIN <<>> = {}
  OBVIOUS
<1> QED
  BY <1>1 DEF Hits

LEMMA FileHits ==
    ASSUME NEW k \in Nat, NEW f \in File(k)
    PROVE  /\ f.hits \in Hits(k) /\ f.readable \in BOOLEAN
           /\ ~f.readable => f.hits = <<>>
<1>1. CASE f = Unreadable
  <2>1. f.hits = <<>> /\ f.readable = FALSE
    BY <1>1 DEF Unreadable
  <2> QED
    BY <2>1, NoHits
<1>2. CASE f \in [readable : {TRUE}, hits : Hits(k)]
  <2> DEFINE S == Hits(k)
  <2> HIDE DEF S
  <2>1. f.hits \in S /\ f.readable = TRUE
    BY <1>2 DEF S
  <2> QED
    BY <2>1 DEF S
<1> QED
  BY <1>1, <1>2 DEF File

LEMMA GreatestNumber ==
    ASSUME NEW N \in Nat, NEW T, T \subseteq 1..N, T # {}
    PROVE  \E x \in T : \A y \in T : y <= x
<1> DEFINE U == {N - x : x \in T}
<1>0. \A x \in T : x \in Int /\ N - x \in Nat
  OBVIOUS
<1>1. U \subseteq Nat /\ U # {}
  BY <1>0
<1>2. PICK u \in U : \A v \in U : u <= v
  <2> HIDE DEF U
  <2> QED
    BY <1>1, LeastNumber
<1>3. PICK x \in T : u = N - x
  BY <1>2
<1>4. \A y \in T : N - x <= N - y
  BY <1>2, <1>3
<1>5. ASSUME NEW y \in T PROVE y <= x
  <2>1. N - x <= N - y /\ x \in Int /\ y \in Int
    BY <1>0, <1>4
  <2> QED
    BY <2>1
<1> QED
  BY <1>5

\* What is inserted has the hit's distance as its key, and what was there keeps
\* its place unless a hit has the same distance.
InsertedOrKept(r, map, w, h) ==
    \A d \in DOMAIN r :
       \/ d \in DOMAIN map /\ r[d] = map[d]
       \/ \E n \in DOMAIN h : r[d] = <<w, n>> /\ h[n] = d

LEMMA InsertedIs ==
    ASSUME NEW k \in Nat, NEW h \in Hits(k), NEW map, NEW w
    PROVE  /\ DOMAIN Inserted(map, w, h) = DOMAIN map \cup {h[n] : n \in Taken(h)}
           /\ InsertedOrKept(Inserted(map, w, h), map, w, h)
<1> DEFINE taken == Taken(h)
           At(d) == CHOOSE n \in taken : h[n] = d /\ \A m \in taken : h[m] = d => m <= n
           dom == DOMAIN map \cup {h[n] : n \in taken}
           r == Inserted(map, w, h)
<1>1. PICK N \in Nat : N <= k /\ DOMAIN h = 1..N /\ \A m \in 1..N : h[m] \in Distance
  BY HitsAre
<1>2. taken \subseteq 1..N
  BY <1>1 DEF Taken
<1>3. r = [d \in dom |-> IF \E n \in taken : h[n] = d THEN <<w, At(d)>> ELSE map[d]]
  BY DEF Inserted
<1>4. ASSUME NEW d, \E n \in taken : h[n] = d
      PROVE  At(d) \in taken /\ h[At(d)] = d
  <2> DEFINE T == {n \in taken : h[n] = d}
  <2>1. T \subseteq 1..N /\ T # {}
    BY <1>2, <1>4
  <2>2. \E x \in T : \A y \in T : y <= x
    <3> HIDE DEF T
    <3> QED
      BY <2>1, GreatestNumber
  <2>3. \E n \in taken : h[n] = d /\ \A m \in taken : h[m] = d => m <= n
    BY <2>2
  <2> HIDE DEF taken
  <2> QED
    BY <2>3
<1> HIDE DEF At, taken, r
<1>5. DOMAIN r = dom
  BY <1>3
<1>6. ASSUME NEW d \in DOMAIN r
      PROVE  \/ d \in DOMAIN map /\ r[d] = map[d]
             \/ \E n \in DOMAIN h : r[d] = <<w, n>> /\ h[n] = d
  <2>1. CASE \E n \in taken : h[n] = d
    <3>1. r[d] = <<w, At(d)>> /\ At(d) \in taken /\ h[At(d)] = d
      BY <1>3, <1>4, <1>5, <2>1
    <3> QED
      BY <1>1, <1>2, <3>1
  <2>2. CASE ~\E n \in taken : h[n] = d
    BY <1>3, <1>5, <2>2
  <2> QED
    BY <2>1, <2>2
<1> QED
  BY <1>5, <1>6 DEF r, taken, InsertedOrKept

\* The hits of one more index.
LEMMA InsertHolds ==
    ASSUME NEW k \in Nat, k <= MaxTopK, NEW W, W \subseteq 0..MaxFiles, NEW w \in 0..MaxFiles, NEW H,
           H[w] \in Hits(k), NEW map, MapHolds(map, W, H)
    PROVE  MapHolds(Inserted(map, w, H[w]), W \cup {w}, H)
<1> DEFINE h == H[w]
           r == Inserted(map, w, h)
<1>1. PICK N \in Nat : N <= k /\ DOMAIN h = 1..N /\ \A m \in 1..N : h[m] \in Distance
  BY HitsAre
<1>2. /\ DOMAIN r = DOMAIN map \cup {h[n] : n \in Taken(h)}
      /\ \A d \in DOMAIN r :
            \/ d \in DOMAIN map /\ r[d] = map[d]
            \/ \E n \in DOMAIN h : r[d] = <<w, n>> /\ h[n] = d
  <2>1. DOMAIN r = DOMAIN map \cup {h[n] : n \in Taken(h)} /\ InsertedOrKept(r, map, w, h)
    BY InsertedIs
  <2> HIDE DEF r, h
  <2> QED
    BY <2>1 DEF InsertedOrKept
<1>3. Taken(h) \subseteq DOMAIN h
  BY DEF Taken
<1>4. MaxTopK \in Nat
  BY SearchAssumption DEF SearchAssumption
<1> HIDE DEF r
<1>5. DOMAIN r \subseteq Distance
  BY <1>1, <1>2, <1>3 DEF MapHolds
<1>6. ASSUME NEW d \in DOMAIN r
      PROVE  /\ r[d] \in Chunk /\ r[d][1] \in W \cup {w}
             /\ r[d][2] \in DOMAIN H[r[d][1]] /\ H[r[d][1]][r[d][2]] = d
  <2>1. CASE d \in DOMAIN map /\ r[d] = map[d]
    BY <2>1 DEF MapHolds
  <2>2. ASSUME NEW n \in DOMAIN h, r[d] = <<w, n>>, h[n] = d
        PROVE  /\ r[d] \in Chunk /\ r[d][1] \in W \cup {w}
               /\ r[d][2] \in DOMAIN H[r[d][1]] /\ H[r[d][1]][r[d][2]] = d
    <3>1. n \in 1..MaxTopK
      BY <1>1, <1>4
    <3> QED
      BY <2>2, <3>1 DEF Chunk
  <2> QED
    BY <1>2, <2>1, <2>2
<1>7. ASSUME NEW id \in Chunk, id[1] \in W \cup {w}, id[2] \in DOMAIN H[id[1]]
      PROVE  \/ H[id[1]][id[2]] \in DOMAIN r
             \/ \E n \in DOMAIN H[id[1]] : H[id[1]][n] = 0
  <2>1. CASE id[1] \in W
    BY <1>2, <1>7, <2>1 DEF MapHolds
  <2>2. CASE id[1] = w
    <3> SUFFICES ASSUME ~\E n \in DOMAIN h : h[n] = 0
                 PROVE  h[id[2]] \in DOMAIN r
      BY <2>2
    <3>1. id[2] \in Taken(h)
      BY <1>1, <1>7, <2>2 DEF Taken
    <3> QED
      BY <1>2, <3>1
  <2> QED
    BY <1>7, <2>1, <2>2
<1>8. MapHolds(r, W \cup {w}, H)
  BY <1>5, <1>6, <1>7 DEF MapHolds
<1> QED
  BY <1>8 DEF r

\* Nothing is known of a map but of the indexes read into it.
LEMMA SameHits ==
    ASSUME NEW map, NEW W, NEW H, NEW G, \A w \in W : H[w] = G[w], MapHolds(map, W, H)
    PROVE  MapHolds(map, W, G)
BY DEF MapHolds

LEMMA NothingHeld ==
    ASSUME NEW H
    PROVE  MapHolds(EmptyMap, {}, H) /\ DOMAIN EmptyMap = {}
BY DEF MapHolds, EmptyMap

\* No more keys than hits.
LEMMA InsertedIsSmall ==
    ASSUME NEW k \in Nat, NEW h \in Hits(k), NEW w
    PROVE  Cardinality(DOMAIN Inserted(EmptyMap, w, h)) <= k
<1> DEFINE keys == {h[n] : n \in Taken(h)}
<1>1. PICK N \in Nat : N <= k /\ DOMAIN h = 1..N
  BY HitsAre
<1>2. DOMAIN Inserted(EmptyMap, w, h) = keys
  <2>1. DOMAIN Inserted(EmptyMap, w, h) = DOMAIN EmptyMap \cup keys
    BY InsertedIs
  <2>2. DOMAIN EmptyMap = {}
    BY DEF EmptyMap
  <2> QED
    BY <2>1, <2>2
<1>3. IsFiniteSet(1..N) /\ Cardinality(1..N) = N
  <2>1. 1 \in Int /\ N \in Int /\ (1 > N => N = 0)
    OBVIOUS
  <2> QED
    BY <2>1, FS_Interval
<1>4. Taken(h) \in SUBSET (1..N)
  BY <1>1 DEF Taken
<1>5. IsFiniteSet(Taken(h)) /\ Cardinality(Taken(h)) <= N
  BY <1>3, <1>4, FS_Subset
<1> DEFINE S == Taken(h)
           F == [n \in S |-> h[n]]
<1>6. F \in Surjection(S, keys)
  BY DEF Surjection
<1>7. Cardinality(keys) <= Cardinality(S)
  <2> HIDE DEF S, F, keys
  <2> QED
    BY <1>5, <1>6, FS_Surjection DEF S
<1>8. Cardinality(keys) \in Nat /\ Cardinality(S) \in Nat
  <2>1. IsFiniteSet(keys)
    <3> HIDE DEF S, F, keys
    <3> QED
      BY <1>5, <1>6, FS_Surjection DEF S
  <2> QED
    BY <1>5, <2>1, FS_CardinalityType
<1> QED
  BY <1>1, <1>2, <1>5, <1>7, <1>8

-----------------------------------------------------------------------------
(* A position among the keys                                               *)

LEMMA KeysFinite ==
    ASSUME NEW S, S \subseteq Distance
    PROVE  IsFiniteSet(S) /\ S \subseteq Int /\ Cardinality(S) \in Nat
<1>1. MaxDistance \in Int /\ 0 \in Int
  BY SearchAssumption DEF SearchAssumption
<1>2. IsFiniteSet(0..MaxDistance)
  BY <1>1, FS_Interval
<1>3. IsFiniteSet(S)
  BY <1>2, FS_Subset DEF Distance
<1> QED
  BY <1>1, <1>3, FS_CardinalityType DEF Distance

LEMMA KeyAtIs ==
    ASSUME NEW map, DOMAIN map \subseteq Distance, NEW n \in Nat, n < Size(map)
    PROVE  KeyAt(map, n) \in DOMAIN map /\ RankIn(DOMAIN map, KeyAt(map, n)) = n
<1> DEFINE S == DOMAIN map
<1>1. \E e \in S : RankIn(S, e) = n
  <2>1. IsFiniteSet(S) /\ S \subseteq Int /\ n < Cardinality(S)
    BY KeysFinite DEF Size
  <2> HIDE DEF S
  <2> QED
    BY <2>1, RankIsMet
<1> QED
  BY <1>1 DEF KeyAt, RankIn

\* Going one key further.
LEMMA NextKey ==
    ASSUME NEW S, S \subseteq Distance, NEW pos \in Nat, NEW k \in S, RankIn(S, k) = pos
    PROVE  /\ Before(S, pos + 1) = Before(S, pos) \cup {k} /\ k \notin Before(S, pos)
           /\ Left(S, pos + 1) = Left(S, pos) \ {k} /\ k \in Left(S, pos)
           /\ \A d \in Left(S, pos) : k <= d
<1>1. IsFiniteSet(S) /\ S \subseteq Int
  BY KeysFinite
<1>2. \A d \in S : d \in Int /\ RankIn(S, d) \in Nat
  BY <1>1, RankTyped
<1>3. \A d \in S : RankIn(S, d) = pos => d = k
  BY <1>1, RankIsOwn
<1>4. \A d \in S : d < k => RankIn(S, d) < pos
  BY <1>1, <1>2, RankIncreases
<1>5. \A d \in S : RankIn(S, d) < pos + 1 <=> RankIn(S, d) < pos \/ d = k
  BY <1>2, <1>3
<1>6. ~(RankIn(S, k) < pos)
  BY <1>2
<1>7. Before(S, pos + 1) = Before(S, pos) \cup {k} /\ k \notin Before(S, pos)
  BY <1>5, <1>6 DEF Before
<1>8. Left(S, pos + 1) = Left(S, pos) \ {k} /\ k \in Left(S, pos)
  BY <1>5, <1>6 DEF Left
<1>9. \A d \in Left(S, pos) : k <= d
  BY <1>2, <1>4 DEF Left
<1> QED
  BY <1>7, <1>8, <1>9

\* At the beginning nothing lies before the position, at the end nothing behind.
LEMMA EndsOfKeys ==
    ASSUME NEW S, S \subseteq Distance
    PROVE  /\ Before(S, 0) = {} /\ Left(S, Cardinality(S)) = {}
           /\ \A pos \in Nat : Before(S, pos) \cup Left(S, pos) = S /\ Before(S, pos) \subseteq S
<1>1. IsFiniteSet(S) /\ S \subseteq Int
  BY KeysFinite
<1>2. \A d \in S : RankIn(S, d) \in Nat /\ RankIn(S, d) < Cardinality(S)
  BY <1>1, RankTyped
<1> QED
  BY <1>2 DEF Before, Left

-----------------------------------------------------------------------------
(* Asking, and reading the indexes                                         *)

\* Until the merge begins nothing is told and nothing taken.
Unmerged ==
    /\ DOMAIN cacheSearchRes \subseteq Distance /\ DOMAIN dumpSearchRes \subseteq Distance
    /\ topK \in Nat /\ cachePos = 0 /\ dumpPos = 0 /\ resultArray = <<>> /\ asking # "answered"

LEMMA BeforeMerge == Unmerged => MergeInv
<1> SUFFICES ASSUME Unmerged PROVE MergeInv
  OBVIOUS
<1> USE DEF Unmerged
<1>1. Size(cacheSearchRes) \in Nat /\ Size(dumpSearchRes) \in Nat
  BY KeysFinite DEF Size
<1>2. Before(DOMAIN cacheSearchRes, 0) = {} /\ Before(DOMAIN dumpSearchRes, 0) = {}
  BY EndsOfKeys
<1>3. Len(resultArray) = 0 /\ DOMAIN resultArray = {}
  OBVIOUS
<1> QED
  BY <1>1, <1>2, <1>3 DEF MergeInv, Positions, CacheTold, DumpTold, TellsTaken, NearestFirst, Ordered, Ends

LEMMA SearchBegins == SearchInit => SearchInv
<1> SUFFICES ASSUME SearchInit PROVE SearchInv
  OBVIOUS
<1>1. MaxTopK \in Nat /\ MaxFiles \in Nat
  BY SearchAssumption DEF SearchAssumption
<1>2. /\ asking = "no" /\ system = FALSE /\ topK = 0 /\ cacheIndex = <<>> /\ files = <<>> /\ file = 0
      /\ cacheSearchRes = EmptyMap /\ dumpSearchRes = EmptyMap
      /\ cachePos = 0 /\ dumpPos = 0 /\ resultArray = <<>>
  BY DEF SearchInit
<1>3. SearchTyped
  <2>1. \A S : <<>> \in Seq(S)
    OBVIOUS
  <2>2. Len(files) = 0 /\ files \in Seq(File(topK)) /\ cacheIndex \in Hits(topK)
    BY <1>2, <2>1, NoHits
  <2>3. topK <= MaxTopK /\ Len(files) <= MaxFiles /\ file <= Len(files) /\ topK \in Nat /\ file \in Nat
    BY <1>1, <1>2, <2>2
  <2>4. resultArray \in Seq([distance : Distance, id : Chunk, text : BOOLEAN])
    BY <1>2, <2>1
  <2> QED
    BY <1>2, <2>2, <2>3, <2>4 DEF SearchTyped
<1>4. NotYet /\ FilesRead /\ SystemHasOne
  BY <1>2 DEF NotYet, FilesRead, SystemHasOne
<1>5. MapsHold
  <2>1. MapHolds(dumpSearchRes, 1..file, Known)
    <3>1. 1..file = {}
      BY <1>2
    <3> QED
      BY <1>2, <3>1, NothingHeld
  <2>2. MapHolds(cacheSearchRes, {0}, Known)
    <3>1. Known[0] = <<>>
      BY <1>2 DEF Known, HitsOf
    <3>2. DOMAIN <<>> = {}
      OBVIOUS
    <3> QED
      BY <1>2, <3>1, <3>2 DEF MapHolds, EmptyMap
  <2> QED
    BY <2>1, <2>2 DEF MapsHold
<1>6. MergeInv
  <2>1. DOMAIN cacheSearchRes \subseteq Distance /\ DOMAIN dumpSearchRes \subseteq Distance
    BY <1>5 DEF MapsHold, MapHolds
  <2> QED
    BY <1>2, <2>1, BeforeMerge DEF Unmerged
<1> QED
  BY <1>3, <1>4, <1>5, <1>6 DEF SearchInv

\* The hits of each index are known.
LEMMA KnownIs ==
    ASSUME SearchTyped
    PROVE  /\ Known[0] = cacheIndex
           /\ \A w \in 1..Len(files) : Known[w] = files[w].hits /\ files[w] \in File(topK)
           /\ \A w \in 0..Len(files) : Known[w] = HitsOf(w) /\ Known[w] \in Hits(topK) /\ w \in 0..MaxFiles
<1>1. files \in Seq(File(topK)) /\ Len(files) \in Nat /\ Len(files) <= MaxFiles /\ MaxFiles \in Nat
  BY SearchAssumption DEF SearchTyped, SearchAssumption
<1>2. \A w \in 1..Len(files) : files[w] \in File(topK)
  <2> DEFINE S == File(topK)
  <2> HIDE DEF S
  <2> QED
    BY <1>1
<1>3. \A w \in 0..Len(files) : Known[w] = HitsOf(w) /\ w \in 0..MaxFiles
  BY <1>1 DEF Known
<1>4. HitsOf(0) = cacheIndex /\ \A w \in 1..Len(files) : HitsOf(w) = files[w].hits /\ w \in 0..Len(files)
  BY <1>1 DEF HitsOf
<1>5. cacheIndex \in Hits(topK) /\ topK \in Nat
  BY DEF SearchTyped
<1>6. \A w \in 1..Len(files) : files[w].hits \in Hits(topK)
  BY <1>2, <1>5, FileHits
<1>7. \A w \in 0..Len(files) : w = 0 \/ w \in 1..Len(files)
  BY <1>1
<1>8. 0 \in 0..Len(files)
  BY <1>1
<1>9. \A w \in 0..Len(files) : Known[w] \in Hits(topK)
  BY <1>3, <1>4, <1>5, <1>6, <1>7
<1> QED
  BY <1>2, <1>3, <1>4, <1>8, <1>9

\* One more hit list in the maps: an application's search begins.
LEMMA CacheSearched ==
    ASSUME SearchInv, NEW k \in 1..MaxTopK, NEW hits \in Hits(k), NEW n \in 0..MaxFiles,
           NEW fs \in [1..n -> File(k)], SearchCache(k, hits, fs)
    PROVE  SearchInv'
<1>1. /\ asking = "no" /\ asking' = "files" /\ system' = FALSE /\ topK' = k
      /\ cacheIndex' = hits /\ files' = fs /\ cacheSearchRes' = Inserted(EmptyMap, 0, hits)
      /\ dumpSearchRes' = EmptyMap /\ file' = 0 /\ cachePos' = 0 /\ dumpPos' = 0 /\ resultArray' = <<>>
  BY DEF SearchCache, SearchInv, NotYet
<1>2. MaxTopK \in Nat /\ MaxFiles \in Nat /\ k \in Nat /\ k <= MaxTopK
  BY SearchAssumption DEF SearchAssumption
<1>3. fs \in Seq(File(k)) /\ Len(fs) = n
  <2> DEFINE S == File(k)
  <2> HIDE DEF S
  <2> QED
    BY <1>2 DEF S
<1>4. SearchTyped'
  <2>1. \A S : <<>> \in Seq(S)
    OBVIOUS
  <2>2. 0 <= n /\ n <= MaxFiles
    BY <1>2
  <2> QED
    BY <1>1, <1>2, <1>3, <2>1, <2>2 DEF SearchTyped
<1>5. NotYet' /\ FilesRead' /\ SystemHasOne'
  BY <1>1 DEF NotYet, FilesRead, SystemHasOne
<1>6. MapsHold'
  <2> DEFINE H == Known'
  <2>1. H[0] = hits
    BY <1>1, <1>3 DEF Known, HitsOf
  <2>2. 0 \in 0..MaxFiles
    BY <1>2
  <2> HIDE DEF H
  <2>3. MapHolds(Inserted(EmptyMap, 0, H[0]), {} \cup {0}, H)
    BY <1>2, <2>1, <2>2, NothingHeld, InsertHolds
  <2>4. {} \cup {0} = {0} /\ 1..0 = {}
    OBVIOUS
  <2>5. MapHolds(cacheSearchRes', {0}, H)
    BY <1>1, <2>1, <2>3, <2>4
  <2>6. MapHolds(dumpSearchRes', 1..file', H)
    BY <1>1, <2>4, NothingHeld
  <2> QED
    BY <2>5, <2>6 DEF MapsHold, H
<1>7. MergeInv'
  <2>1. DOMAIN cacheSearchRes' \subseteq Distance /\ DOMAIN dumpSearchRes' \subseteq Distance
    BY <1>6 DEF MapsHold, MapHolds
  <2>2. asking' # "answered" /\ topK' \in Nat
    BY <1>1, <1>2
  <2> QED
    <3>1. Unmerged'
      BY <1>1, <2>1, <2>2 DEF Unmerged
    <3>2. (Unmerged => MergeInv)'
      BY BeforeMerge, PTL
    <3> QED
      BY <3>1, <3>2
<1> QED
  BY <1>4, <1>5, <1>6, <1>7 DEF SearchInv

\* The system assistant's search begins.
LEMMA SystemSearched ==
    ASSUME SearchInv, NEW k \in 1..MaxTopK, NEW f \in File(k), NEW kept, SearchSystem(k, f, kept)
    PROVE  SearchInv'
<1>1. /\ asking = "no" /\ asking' = "files" /\ system' = TRUE /\ topK' = k
      /\ cacheIndex' = <<>> /\ files' = <<f>> /\ cacheSearchRes' = EmptyMap
      /\ dumpSearchRes' = EmptyMap /\ file' = 0 /\ cachePos' = 0 /\ dumpPos' = 0 /\ resultArray' = <<>>
  BY DEF SearchSystem, SearchInv, NotYet
<1>2. MaxTopK \in Nat /\ MaxFiles \in Nat \ {0} /\ k \in Nat /\ k <= MaxTopK
  BY SearchAssumption DEF SearchAssumption
<1>3. <<f>> \in Seq(File(k)) /\ Len(<<f>>) = 1
  <2> DEFINE S == File(k)
  <2> HIDE DEF S
  <2> QED
    BY DEF S
<1>4. SearchTyped'
  <2>1. \A S : <<>> \in Seq(S)
    OBVIOUS
  <2>2. 1 <= MaxFiles
    BY <1>2
  <2> QED
    BY <1>1, <1>2, <1>3, <2>1, <2>2, NoHits DEF SearchTyped
<1>5. NotYet' /\ FilesRead' /\ SystemHasOne'
  <2>1. Len(<<>>) = 0 /\ DOMAIN EmptyMap = {}
    BY DEF EmptyMap
  <2>2. Cardinality({}) = 0
    BY FS_EmptySet
  <2> QED
    BY <1>1, <1>2, <1>3, <2>1, <2>2 DEF NotYet, FilesRead, SystemHasOne
<1>6. MapsHold'
  <2> DEFINE H == Known'
  <2>1. H[0] = <<>>
    BY <1>1, <1>3 DEF Known, HitsOf
  <2>2. DOMAIN <<>> = {} /\ 1..0 = {}
    OBVIOUS
  <2> HIDE DEF H
  <2>3. MapHolds(cacheSearchRes', {0}, H)
    BY <1>1, <2>1, <2>2 DEF MapHolds, EmptyMap
  <2>4. MapHolds(dumpSearchRes', 1..file', H)
    BY <1>1, <2>2, NothingHeld
  <2> QED
    BY <2>3, <2>4 DEF MapsHold, H
<1>7. MergeInv'
  <2>1. DOMAIN cacheSearchRes' \subseteq Distance /\ DOMAIN dumpSearchRes' \subseteq Distance
    BY <1>6 DEF MapsHold, MapHolds
  <2>2. asking' # "answered" /\ topK' \in Nat
    BY <1>1, <1>2
  <2> QED
    <3>1. Unmerged'
      BY <1>1, <2>1, <2>2 DEF Unmerged
    <3>2. (Unmerged => MergeInv)'
      BY BeforeMerge, PTL
    <3> QED
      BY <3>1, <3>2
<1> QED
  BY <1>4, <1>5, <1>6, <1>7 DEF SearchInv

\* One more file is read.
LEMMA FileSearched ==
    ASSUME SearchInv, SearchFile
    PROVE  SearchInv'
<1> DEFINE w == file + 1
           f == files[w]
<1>1. /\ asking = "files" /\ file < Len(files) /\ file' = w
      /\ dumpSearchRes' = Inserted(dumpSearchRes, w, f.hits)
      /\ asking' = IF f.readable THEN "files" ELSE "merge"
      /\ UNCHANGED <<system, topK, cacheIndex, files, rows, cacheSearchRes, cachePos, dumpPos, resultArray>>
  BY DEF SearchFile
<1>2. /\ SearchTyped /\ file \in Nat /\ topK \in Nat /\ topK <= MaxTopK /\ Len(files) \in Nat
      /\ cachePos = 0 /\ dumpPos = 0 /\ resultArray = <<>> /\ (file = 0 => dumpSearchRes = EmptyMap)
  BY <1>1 DEF SearchInv, SearchTyped, NotYet
<1>3. w \in 1..Len(files) /\ w \in 0..Len(files) /\ w \in Nat
  BY <1>1, <1>2
<1>4. /\ f \in File(topK) /\ f.readable \in BOOLEAN /\ Known[w] = f.hits /\ Known[w] \in Hits(topK)
      /\ w \in 0..MaxFiles
  BY <1>2, <1>3, KnownIs, FileHits
<1>5. SearchTyped'
  BY <1>1, <1>2, <1>3 DEF SearchTyped
<1>6. NotYet'
  BY <1>1, <1>2, <1>3 DEF NotYet
<1>7. FilesRead'
  <2>1. \A m \in 1..file : files[m].readable
    BY <1>1 DEF SearchInv, FilesRead
  <2>2. \A m \in 1..w : m \in 1..file \/ m = w
    BY <1>2
  <2>3. \A m \in 1..w : m < w => m \in 1..file
    BY <1>2
  <2> HIDE DEF f
  <2> QED
    BY <1>1, <1>3, <1>4, <2>1, <2>2, <2>3 DEF FilesRead, f
<1>8. SystemHasOne'
  <2> SUFFICES ASSUME system PROVE SystemHasOne'
    BY <1>1 DEF SystemHasOne
  <2>1. cacheSearchRes = EmptyMap /\ Len(files) = 1 /\ Len(resultArray) <= dumpPos
    BY DEF SearchInv, SystemHasOne
  <2>2. dumpSearchRes = EmptyMap
    BY <1>1, <1>2, <2>1
  <2>3. Cardinality(DOMAIN dumpSearchRes') <= topK
    BY <1>1, <1>2, <1>4, <2>2, InsertedIsSmall
  <2> QED
    BY <1>1, <2>1, <2>3 DEF SystemHasOne
<1>9. MapsHold'
  <2>1. MapHolds(cacheSearchRes, {0}, Known) /\ MapHolds(dumpSearchRes, 1..file, Known)
    BY DEF SearchInv, MapsHold
  <2>2. Known' = Known
    BY <1>1 DEF Known, HitsOf
  <2>3. 1..file \subseteq 0..MaxFiles /\ (1..file) \cup {w} = 1..w
    <3>1. MaxFiles \in Nat /\ file < MaxFiles /\ file \in Nat
      BY <1>2, <1>4, SearchAssumption DEF SearchAssumption
    <3> QED
      BY <3>1
  <2> DEFINE H == Known
  <2> HIDE DEF w, f, H
  <2>4. MapHolds(Inserted(dumpSearchRes, w, H[w]), (1..file) \cup {w}, H)
    BY <1>2, <1>4, <2>1, <2>3, InsertHolds DEF H
  <2>5. MapHolds(dumpSearchRes', 1..file', H)
    BY <1>1, <1>4, <2>3, <2>4 DEF H
  <2> QED
    BY <1>1, <2>1, <2>2, <2>5 DEF MapsHold, H
<1>10. MergeInv'
  <2>1. DOMAIN cacheSearchRes' \subseteq Distance /\ DOMAIN dumpSearchRes' \subseteq Distance
    BY <1>9 DEF MapsHold, MapHolds
  <2>2. asking' # "answered" /\ topK' \in Nat /\ cachePos' = 0 /\ dumpPos' = 0 /\ resultArray' = <<>>
    BY <1>1, <1>2
  <2> QED
    <3>1. Unmerged'
      BY <2>1, <2>2 DEF Unmerged
    <3>2. (Unmerged => MergeInv)'
      BY BeforeMerge, PTL
    <3> QED
      BY <3>1, <3>2
<1> QED
  BY <1>5, <1>6, <1>7, <1>8, <1>9, <1>10 DEF SearchInv

LEMMA SearchEnds ==
    ASSUME SearchInv, EndSearch
    PROVE  SearchInv'
<1>1. /\ asking = "files" /\ file = Len(files) /\ asking' = "merge"
      /\ UNCHANGED <<system, topK, cacheIndex, files, rows, cacheSearchRes, dumpSearchRes, file,
                     cachePos, dumpPos, resultArray>>
  BY DEF EndSearch
<1>2. SearchTyped' /\ NotYet' /\ FilesRead' /\ SystemHasOne'
  BY <1>1 DEF SearchInv, SearchTyped, NotYet, FilesRead, SystemHasOne
<1>3. MapsHold' /\ Positions'
  BY <1>1 DEF SearchInv, MergeInv, MapsHold, Positions, Known, HitsOf, Size
<1>4. CacheTold' /\ DumpTold' /\ TellsTaken' /\ NearestFirst' /\ Ordered' /\ Ends'
  BY <1>1 DEF SearchInv, MergeInv, CacheTold, DumpTold, Lost, Told, TellsTaken, NearestFirst, Ordered, Ends
<1> QED
  BY <1>2, <1>3, <1>4 DEF SearchInv, MergeInv

-----------------------------------------------------------------------------
(* The merge                                                               *)

EntryType == [distance : Distance, id : Chunk, text : BOOLEAN]

\* What the two maps hold are different chunks, each under its distance.
LEMMA HeldIds ==
    ASSUME MapsHold
    PROVE  /\ DOMAIN cacheSearchRes \subseteq Distance /\ DOMAIN dumpSearchRes \subseteq Distance
           /\ \A d \in DOMAIN cacheSearchRes : cacheSearchRes[d] \in Chunk
           /\ \A d \in DOMAIN dumpSearchRes : dumpSearchRes[d] \in Chunk
           /\ \A d, e \in DOMAIN cacheSearchRes : d # e => cacheSearchRes[d] # cacheSearchRes[e]
           /\ \A d, e \in DOMAIN dumpSearchRes : d # e => dumpSearchRes[d] # dumpSearchRes[e]
           /\ \A d \in DOMAIN cacheSearchRes, e \in DOMAIN dumpSearchRes :
                 cacheSearchRes[d] # dumpSearchRes[e]
<1>1. 0 \notin 1..file
  OBVIOUS
<1> QED
  BY <1>1 DEF MapsHold, MapHolds

LEMMA OneMore ==
    ASSUME resultArray \in Seq(EntryType), NEW e \in EntryType, resultArray' = Append(resultArray, e)
    PROVE  /\ resultArray' \in Seq(EntryType) /\ Len(resultArray) \in Nat
           /\ DOMAIN resultArray = 1..Len(resultArray)
           /\ Len(resultArray') = Len(resultArray) + 1 /\ DOMAIN resultArray' = 1..Len(resultArray) + 1
           /\ \A n \in 1..Len(resultArray) : resultArray'[n] = resultArray[n]
           /\ resultArray'[Len(resultArray) + 1] = e
<1> DEFINE S == EntryType
<1>1. resultArray \in Seq(S) /\ e \in S
  OBVIOUS
<1> HIDE DEF S
<1>2. /\ resultArray' \in Seq(S) /\ Len(resultArray) \in Nat
      /\ DOMAIN resultArray = 1..Len(resultArray)
      /\ Len(resultArray') = Len(resultArray) + 1 /\ DOMAIN resultArray' = 1..Len(resultArray) + 1
      /\ \A n \in 1..Len(resultArray) : resultArray'[n] = resultArray[n]
      /\ resultArray'[Len(resultArray) + 1] = e
  BY <1>1
<1> QED
  BY <1>2 DEF S

\* A position that is not at the end has a key, and there is none behind one
\* that is.
LEMMA CachedKey ==
    ASSUME MapsHold, Positions, cachePos < Size(cacheSearchRes)
    PROVE  LET k == KeyAt(cacheSearchRes, cachePos)
           IN  k \in DOMAIN cacheSearchRes /\ RankIn(DOMAIN cacheSearchRes, k) = cachePos
BY HeldIds, KeyAtIs DEF Positions

LEMMA StoredKey ==
    ASSUME MapsHold, Positions, dumpPos < Size(dumpSearchRes)
    PROVE  LET k == KeyAt(dumpSearchRes, dumpPos)
           IN  k \in DOMAIN dumpSearchRes /\ RankIn(DOMAIN dumpSearchRes, k) = dumpPos
BY HeldIds, KeyAtIs DEF Positions

\* The nearest of what is left in the other map is what the merge compares with.
LEMMA StoredLeft ==
    ASSUME MapsHold, Positions, NEW d \in Left(DOMAIN dumpSearchRes, dumpPos)
    PROVE  /\ dumpPos < Size(dumpSearchRes) /\ KeyAt(dumpSearchRes, dumpPos) <= d
           /\ d \in Distance /\ KeyAt(dumpSearchRes, dumpPos) \in Distance
<1> DEFINE S == DOMAIN dumpSearchRes
<1>1. S \subseteq Distance /\ Cardinality(S) \in Nat
  BY HeldIds, KeysFinite
<1>2. dumpPos < Size(dumpSearchRes)
  <2> SUFFICES ASSUME ~(dumpPos < Size(dumpSearchRes)) PROVE FALSE
    OBVIOUS
  <2>1. dumpPos = Cardinality(S)
    BY <1>1 DEF Positions, Size
  <2> QED
    BY <1>1, <2>1, EndsOfKeys
<1>3. KeyAt(dumpSearchRes, dumpPos) \in S /\ RankIn(S, KeyAt(dumpSearchRes, dumpPos)) = dumpPos
  BY <1>2, StoredKey
<1>4. d \in S
  BY DEF Left
<1> QED
  BY <1>1, <1>2, <1>3, <1>4, NextKey DEF Positions

LEMMA CachedLeft ==
    ASSUME MapsHold, Positions, NEW d \in Left(DOMAIN cacheSearchRes, cachePos)
    PROVE  /\ cachePos < Size(cacheSearchRes) /\ KeyAt(cacheSearchRes, cachePos) <= d
           /\ d \in Distance /\ KeyAt(cacheSearchRes, cachePos) \in Distance
<1> DEFINE S == DOMAIN cacheSearchRes
<1>1. S \subseteq Distance /\ Cardinality(S) \in Nat
  BY HeldIds, KeysFinite
<1>2. cachePos < Size(cacheSearchRes)
  <2> SUFFICES ASSUME ~(cachePos < Size(cacheSearchRes)) PROVE FALSE
    OBVIOUS
  <2>1. cachePos = Cardinality(S)
    BY <1>1 DEF Positions, Size
  <2> QED
    BY <1>1, <2>1, EndsOfKeys
<1>3. KeyAt(cacheSearchRes, cachePos) \in S /\ RankIn(S, KeyAt(cacheSearchRes, cachePos)) = cachePos
  BY <1>2, CachedKey
<1>4. d \in S
  BY DEF Left
<1> QED
  BY <1>1, <1>2, <1>3, <1>4, NextKey DEF Positions

\* An answer one longer is still in order and without its like, if what is new
\* is what lies nearest of all that is left.
LEMMA OrderKept ==
    ASSUME resultArray \in Seq(EntryType), NEW e \in EntryType, resultArray' = Append(resultArray, e), Ordered,
           \A n \in DOMAIN resultArray : resultArray[n].distance <= e.distance /\ resultArray[n].id # e.id
    PROVE  Ordered'
<1> DEFINE L == Len(resultArray)
<1>1. /\ L \in Nat /\ DOMAIN resultArray = 1..L /\ DOMAIN resultArray' = 1..L + 1
      /\ \A n \in 1..L : resultArray'[n] = resultArray[n]
      /\ resultArray'[L + 1] = e
  BY OneMore
<1> HIDE DEF L
<1>2. ASSUME NEW m \in 1..L + 1, NEW n \in 1..L + 1, m < n
      PROVE  resultArray'[m].distance <= resultArray'[n].distance /\ resultArray'[m].id # resultArray'[n].id
  <2>1. m \in 1..L /\ (n \in 1..L \/ n = L + 1)
    BY <1>1, <1>2
  <2>2. CASE n \in 1..L
    BY <1>1, <1>2, <2>1, <2>2 DEF Ordered
  <2>3. CASE n = L + 1
    BY <1>1, <2>1, <2>3
  <2> QED
    BY <2>1, <2>2, <2>3
<1> QED
  BY <1>1, <1>2 DEF Ordered

LEMMA CachedTaken ==
    ASSUME SearchInv, TakeCached
    PROVE  SearchInv'
<1> DEFINE C == DOMAIN cacheSearchRes
           D == DOMAIN dumpSearchRes
           c == KeyAt(cacheSearchRes, cachePos)
           e == Entry(cacheSearchRes, c)
<1>1. /\ asking = "merge" /\ ~Enough /\ cachePos < Size(cacheSearchRes)
      /\ (dumpPos < Size(dumpSearchRes) => c < KeyAt(dumpSearchRes, dumpPos))
      /\ resultArray' = Append(resultArray, e) /\ cachePos' = cachePos + 1
      /\ UNCHANGED <<asking, system, topK, cacheIndex, files, rows, cacheSearchRes, dumpSearchRes, file, dumpPos>>
  BY DEF TakeCached, CachedIsNearer
<1>2. MapsHold /\ Positions /\ SearchTyped /\ MergeInv
  BY DEF SearchInv, MergeInv
<1>3. c \in C /\ RankIn(C, c) = cachePos /\ C \subseteq Distance /\ D \subseteq Distance
  BY <1>1, <1>2, CachedKey, HeldIds
<1>4. /\ Before(C, cachePos + 1) = Before(C, cachePos) \cup {c} /\ c \notin Before(C, cachePos)
      /\ Left(C, cachePos + 1) = Left(C, cachePos) \ {c} /\ c \in Left(C, cachePos)
      /\ \A d \in Left(C, cachePos) : c <= d
  BY <1>2, <1>3, NextKey DEF Positions
<1>5. e \in EntryType /\ e.distance = c /\ e.id = cacheSearchRes[c]
  BY <1>2, <1>3, HeldIds DEF Entry, EntryType
<1>6. resultArray \in Seq(EntryType)
  BY <1>2 DEF SearchTyped, EntryType
<1> DEFINE L == Len(resultArray)
<1>7. /\ resultArray' \in Seq(EntryType) /\ L \in Nat /\ DOMAIN resultArray = 1..L
      /\ Len(resultArray') = L + 1 /\ DOMAIN resultArray' = 1..L + 1
      /\ \A n \in 1..L : resultArray'[n] = resultArray[n]
      /\ resultArray'[L + 1] = e
  BY <1>1, <1>5, <1>6, OneMore
<1>8. ~system
  <2> SUFFICES ASSUME system PROVE FALSE
    OBVIOUS
  <2>1. Size(cacheSearchRes) = 0
    BY NothingHeld, FS_EmptySet DEF SearchInv, SystemHasOne, Size
  <2> QED
    BY <1>1, <1>2, <2>1 DEF Positions
<1> HIDE DEF C, D, c, e, L
<1>9. SearchTyped' /\ NotYet' /\ FilesRead' /\ SystemHasOne'
  <2>1. SearchTyped'
    BY <1>1, <1>2, <1>7 DEF SearchTyped, EntryType
  <2> QED
    BY <1>1, <1>8, <2>1 DEF SearchInv, NotYet, FilesRead, SystemHasOne
<1>10. MapsHold'
  <2>1. Known' = Known
    BY <1>1 DEF Known, HitsOf
  <2> QED
    BY <1>1, <1>2, <2>1 DEF MapsHold
<1>11. Positions'
  <2>1. Size(cacheSearchRes) \in Nat
    BY <1>3, KeysFinite DEF Size, C
  <2> QED
    BY <1>1, <1>2, <2>1 DEF Positions, Size
<1>12. CacheTold'
  <2>1. \A d \in Before(C, cachePos) : Told(cacheSearchRes[d])
    BY <1>2 DEF MergeInv, CacheTold, C
  <2>2. \A d \in Before(C, cachePos + 1) : Told(cacheSearchRes[d])'
    <3> TAKE d \in Before(C, cachePos + 1)
    <3>1. CASE d \in Before(C, cachePos)
      <4>1. \E n \in 1..L : resultArray[n].id = cacheSearchRes[d]
        BY <1>7, <2>1, <3>1 DEF Told
      <4>2. \A n \in 1..L : n \in 1..L + 1
        BY <1>7
      <4> QED
        BY <1>1, <1>7, <4>1, <4>2 DEF Told
    <3>2. CASE d = c
      <4>1. L + 1 \in 1..L + 1
        BY <1>7
      <4> QED
        BY <1>1, <1>5, <1>7, <3>2, <4>1 DEF Told
    <3> QED
      BY <1>4, <3>1, <3>2
  <2> QED
    BY <1>1, <2>2 DEF CacheTold, Told, C
<1>13. DumpTold'
  <2>1. ASSUME NEW d \in Before(D, dumpPos), dumpSearchRes[d] \in rows
        PROVE  \E n \in DOMAIN resultArray' : resultArray'[n].id = dumpSearchRes[d]
    <3>1. \E n \in DOMAIN resultArray : resultArray[n].id = dumpSearchRes[d]
      BY <1>1, <1>2, <2>1 DEF MergeInv, DumpTold, Lost, Told, D
    <3>2. \A n \in 1..L : n \in 1..L + 1
      BY <1>7
    <3> QED
      BY <1>7, <3>1, <3>2
  <2> QED
    BY <1>1, <2>1 DEF DumpTold, Told, D
<1>14. TellsTaken'
  <2>1. ASSUME NEW n \in 1..L + 1
        PROVE  \/ /\ resultArray'[n].distance \in Before(C, cachePos + 1)
                  /\ resultArray'[n].id = cacheSearchRes[resultArray'[n].distance]
               \/ /\ resultArray'[n].distance \in Before(D, dumpPos)
                  /\ resultArray'[n].id = dumpSearchRes[resultArray'[n].distance]
    <3>1. CASE n \in 1..L
      BY <1>2, <1>4, <1>7, <3>1 DEF MergeInv, TellsTaken, C, D
    <3>2. CASE n = L + 1
      BY <1>4, <1>5, <1>7, <3>2
    <3> QED
      BY <1>7, <3>1, <3>2
  <2> QED
    BY <1>1, <1>7, <2>1 DEF TellsTaken, C, D
<1>15. \A d \in Left(D, dumpPos) : c <= d
  <2> TAKE d \in Left(D, dumpPos)
  <2>1. /\ dumpPos < Size(dumpSearchRes) /\ KeyAt(dumpSearchRes, dumpPos) <= d
        /\ d \in Distance /\ KeyAt(dumpSearchRes, dumpPos) \in Distance
    BY <1>2, StoredLeft DEF D
  <2>2. c < KeyAt(dumpSearchRes, dumpPos) /\ c \in Distance
    BY <1>1, <1>3, <2>1
  <2> QED
    BY <2>1, <2>2 DEF Distance
<1>16. NearestFirst'
  <2>1. ASSUME NEW n \in 1..L + 1
        PROVE  /\ \A d \in Left(C, cachePos + 1) : resultArray'[n].distance <= d
               /\ \A d \in Left(D, dumpPos) : resultArray'[n].distance <= d
    <3>1. CASE n \in 1..L
      BY <1>2, <1>4, <1>7, <3>1 DEF MergeInv, NearestFirst, C, D
    <3>2. CASE n = L + 1
      BY <1>4, <1>5, <1>7, <1>15, <3>2
    <3> QED
      BY <1>7, <3>1, <3>2
  <2> QED
    BY <1>1, <1>7, <2>1 DEF NearestFirst, C, D
<1>17. Ordered'
  <2>1. ASSUME NEW n \in DOMAIN resultArray
        PROVE  resultArray[n].distance <= e.distance /\ resultArray[n].id # e.id
    <3>1. resultArray[n].distance <= c
      BY <1>2, <1>4 DEF MergeInv, NearestFirst, C
    <3>2. resultArray[n].id # cacheSearchRes[c]
      <4>1. CASE resultArray[n].distance \in Before(C, cachePos)
                 /\ resultArray[n].id = cacheSearchRes[resultArray[n].distance]
        <5>1. resultArray[n].distance \in C /\ resultArray[n].distance # c
          BY <1>4, <4>1 DEF Before
        <5> QED
          BY <1>2, <1>3, <4>1, <5>1, HeldIds DEF C
      <4>2. CASE resultArray[n].distance \in Before(D, dumpPos)
                 /\ resultArray[n].id = dumpSearchRes[resultArray[n].distance]
        <5>1. resultArray[n].distance \in D
          BY <4>2 DEF Before
        <5> QED
          BY <1>2, <1>3, <4>2, <5>1, HeldIds DEF C, D
      <4> QED
        BY <1>2, <4>1, <4>2 DEF MergeInv, TellsTaken, C, D
    <3> QED
      BY <1>5, <3>1, <3>2
  <2> QED
    BY <1>1, <1>2, <1>5, <1>6, <2>1, OrderKept DEF MergeInv
<1>18. Ends'
  <2>1. L < topK /\ topK \in Nat
    BY <1>1, <1>2, <1>7, <1>8 DEF Enough, SearchTyped, L
  <2> QED
    BY <1>1, <1>7, <2>1 DEF Ends
<1> QED
  BY <1>9, <1>10, <1>11, <1>12, <1>13, <1>14, <1>16, <1>17, <1>18 DEF SearchInv, MergeInv

\* What the maps hold was found in an index that was read.
LEMMA StoredFound ==
    ASSUME MapsHold, SearchTyped, FilesRead, NEW d \in DOMAIN dumpSearchRes
    PROVE  dumpSearchRes[d] \in Found
<1> DEFINE id == dumpSearchRes[d]
           w == id[1]
<1>1. /\ id \in Chunk /\ w \in 1..file /\ id[2] \in DOMAIN Known[w]
  BY DEF MapsHold, MapHolds
<1>2. file \in Nat /\ file <= Len(files) /\ Len(files) \in Nat /\ topK \in Nat
  BY DEF SearchTyped
<1>3. w \in 1..Len(files) /\ w \in 0..Len(files)
  BY <1>1, <1>2
<1>4. /\ Known[w] = HitsOf(w) /\ Known[w] = files[w].hits /\ files[w] \in File(topK)
      /\ files[w].readable \in BOOLEAN /\ (~files[w].readable => files[w].hits = <<>>)
  BY <1>2, <1>3, KnownIs, FileHits
<1>5. files[w].readable
  <2>1. DOMAIN <<>> = {}
    OBVIOUS
  <2> HIDE DEF w, id
  <2> QED
    BY <1>1, <1>4, <2>1
<1>6. \A m \in 1..w : files[m].readable
  <2> TAKE m \in 1..w
  <2>1. m = w \/ (m \in 1..file /\ m < file)
    BY <1>1, <1>2
  <2> QED
    BY <1>5, <2>1 DEF FilesRead
<1>7. DOMAIN files = 1..Len(files)
  <2> DEFINE S == File(topK)
  <2>1. files \in Seq(S)
    BY DEF SearchTyped
  <2> HIDE DEF S
  <2> QED
    BY <2>1
<1>8. w \in Readable
  BY <1>3, <1>6, <1>7 DEF Readable
<1> QED
  BY <1>1, <1>4, <1>8 DEF Found

\* A stored chunk comes next: its row is told, passed over, or missing.
LEMMA StoredTaken ==
    ASSUME SearchInv, TakeStored
    PROVE  SearchInv'
<1> DEFINE C == DOMAIN cacheSearchRes
           D == DOMAIN dumpSearchRes
           c == KeyAt(dumpSearchRes, dumpPos)
           e == Entry(dumpSearchRes, c)
           missing == ~e.text /\ system
           isTold == e.text
<1>1. /\ asking = "merge" /\ ~Enough /\ dumpPos < Size(dumpSearchRes)
      /\ (cachePos < Size(cacheSearchRes) => ~(KeyAt(cacheSearchRes, cachePos) < c))
      /\ dumpPos' = dumpPos + 1
      /\ UNCHANGED <<system, topK, cacheIndex, files, rows, cacheSearchRes, dumpSearchRes, file, cachePos>>
      /\ isTold => resultArray' = Append(resultArray, e) /\ asking' = asking
      /\ missing => resultArray' = <<>> /\ asking' = "answered"
      /\ ~isTold /\ ~missing => UNCHANGED <<resultArray, asking>>
  BY DEF TakeStored, CachedIsNearer, Entry
<1>2. MapsHold /\ Positions /\ SearchTyped /\ MergeInv
  BY DEF SearchInv, MergeInv
<1>3. c \in D /\ RankIn(D, c) = dumpPos /\ C \subseteq Distance /\ D \subseteq Distance
  BY <1>1, <1>2, StoredKey, HeldIds
<1>4. /\ Before(D, dumpPos + 1) = Before(D, dumpPos) \cup {c} /\ c \notin Before(D, dumpPos)
      /\ Left(D, dumpPos + 1) = Left(D, dumpPos) \ {c} /\ c \in Left(D, dumpPos)
      /\ \A d \in Left(D, dumpPos) : c <= d
  BY <1>2, <1>3, NextKey DEF Positions
<1>5. /\ e \in EntryType /\ e.distance = c /\ e.id = dumpSearchRes[c]
      /\ (isTold <=> dumpSearchRes[c] \in rows)
  <2>1. dumpSearchRes[c] \in Chunk /\ c \in Distance
    BY <1>2, <1>3, HeldIds
  <2>2. e = [distance |-> c, id |-> dumpSearchRes[c], text |-> dumpSearchRes[c] \in rows]
    BY DEF Entry
  <2> HIDE DEF c, e, D
  <2>3. e.distance = c /\ e.id = dumpSearchRes[c] /\ (e.text <=> dumpSearchRes[c] \in rows)
    BY <2>2
  <2>4. e \in EntryType
    BY <2>1, <2>2 DEF EntryType
  <2> QED
    BY <2>3, <2>4
<1>6. resultArray \in Seq(EntryType)
  BY <1>2 DEF SearchTyped, EntryType
<1> DEFINE L == Len(resultArray)
<1>7. /\ isTold => /\ resultArray' \in Seq(EntryType) /\ Len(resultArray') = L + 1
                 /\ DOMAIN resultArray' = 1..L + 1
                 /\ \A n \in 1..L : resultArray'[n] = resultArray[n]
                 /\ resultArray'[L + 1] = e
      /\ L \in Nat /\ DOMAIN resultArray = 1..L
  <2>1. L \in Nat /\ DOMAIN resultArray = 1..L
    <3> DEFINE S == EntryType
    <3>1. resultArray \in Seq(S)
      BY <1>6
    <3> HIDE DEF S
    <3> QED
      BY <3>1
  <2>2. CASE isTold
    <3>1. resultArray' = Append(resultArray, e)
      BY <1>1, <2>2
    <3> HIDE DEF e
    <3> QED
      BY <1>5, <1>6, <2>1, <3>1, OneMore
  <2> QED
    BY <2>1, <2>2
<1>8. MapsHold'
  <2>1. Known' = Known
    BY <1>1 DEF Known, HitsOf
  <2> HIDE DEF c, e, isTold, missing
  <2> QED
    BY <1>1, <1>2, <2>1 DEF MapsHold
<1> HIDE DEF C, D, c, e, L, isTold, missing
<1>9. Positions'
  <2>1. Size(dumpSearchRes) \in Nat
    BY <1>3, KeysFinite DEF Size, D
  <2> QED
    BY <1>1, <1>2, <2>1 DEF Positions, Size
<1>10. /\ resultArray' \in Seq(EntryType) /\ Len(resultArray') \in Nat
       /\ Len(resultArray') <= L + 1
  <2>1. <<>> \in Seq(EntryType) /\ Len(<<>>) = 0
    OBVIOUS
  <2> QED
    <3>1. CASE isTold
      BY <1>7, <3>1
    <3>2. CASE missing
      <4>1. resultArray' = <<>>
        BY <1>1, <3>2
      <4> QED
        BY <1>7, <2>1, <4>1
    <3>3. CASE ~isTold /\ ~missing
      <4>1. resultArray' = resultArray
        BY <1>1, <3>3
      <4>2. resultArray' \in Seq(EntryType)
        BY <1>6, <4>1
      <4>3. Len(resultArray') = L /\ L \in Nat
        BY <1>7, <4>1 DEF L
      <4> QED
        BY <4>2, <4>3
    <3> QED
      BY <3>1, <3>2, <3>3
<1>11. SystemHasOne'
  <2> SUFFICES ASSUME system
               PROVE  /\ cacheSearchRes = EmptyMap /\ Len(files) = 1
                      /\ Cardinality(DOMAIN dumpSearchRes) <= topK /\ Len(resultArray') <= dumpPos + 1
    BY <1>1 DEF SystemHasOne
  <2>1. L <= dumpPos /\ dumpPos \in Nat
    BY <1>2 DEF SearchInv, SystemHasOne, Positions, L
  <2> QED
    BY <1>7, <1>10, <2>1 DEF SearchInv, SystemHasOne
<1>12. SearchTyped' /\ NotYet' /\ FilesRead'
  <2>1. asking' \in {"merge", "answered"}
    BY <1>1
  <2>2. SearchTyped'
    BY <1>1, <1>2, <1>10, <2>1 DEF SearchTyped, EntryType
  <2>3. NotYet'
    BY <1>1, <2>1 DEF SearchInv, NotYet
  <2>4. FilesRead'
    BY <1>1, <2>1 DEF SearchInv, FilesRead
  <2> QED
    BY <2>2, <2>3, <2>4
<1>13. Len(resultArray') <= topK
  <2>1. CASE system
    <3>1. Len(resultArray') <= dumpPos + 1 /\ Cardinality(D) <= topK
      BY <1>1, <1>11, <2>1 DEF SystemHasOne, D
    <3>2. dumpPos + 1 <= Cardinality(D) /\ Cardinality(D) \in Nat /\ dumpPos \in Nat /\ topK \in Nat
      BY <1>1, <1>2, <1>3, KeysFinite DEF Size, D, Positions, SearchTyped
    <3> QED
      BY <1>10, <3>1, <3>2
  <2>2. CASE ~system
    <3>1. L < topK /\ topK \in Nat
      BY <1>1, <1>2, <1>7, <2>2 DEF Enough, SearchTyped, L
    <3> QED
      BY <1>7, <1>10, <3>1
  <2> QED
    BY <2>1, <2>2
\* The whole answer is gone with one row.
<1>14. CASE missing
  <2>1. resultArray' = <<>> /\ asking' = "answered" /\ system' /\ DOMAIN resultArray' = {} /\ system
    BY <1>1, <1>14 DEF missing
  <2>2. Lost'
    <3> DEFINE id == dumpSearchRes[c]
    <3>1. id \notin rows
      BY <1>5, <1>14 DEF isTold, missing
    <3>2. id \in Found
      BY <1>2, <1>3, StoredFound DEF D, SearchInv
    <3>3. Found' = Found /\ rows' = rows
      BY <1>1 DEF Found, Readable, HitsOf
    <3> QED
      BY <2>1, <3>1, <3>2, <3>3 DEF Lost
  <2>3. CacheTold'
    <3>1. DOMAIN cacheSearchRes = {}
      BY <2>1, NothingHeld DEF SearchInv, SystemHasOne
    <3> QED
      BY <1>1, <3>1 DEF CacheTold, Before
  <2>4. DumpTold' /\ Ends'
    BY <1>1, <1>13, <2>2 DEF DumpTold, Ends
  <2>5. TellsTaken' /\ NearestFirst' /\ Ordered'
    BY <2>1 DEF TellsTaken, NearestFirst, Ordered
  <2> QED
    BY <1>8, <1>9, <1>11, <1>12, <2>3, <2>4, <2>5 DEF SearchInv, MergeInv
\* A row that is gone is passed over.
<1>15. CASE ~isTold /\ ~missing
  <2>1. UNCHANGED <<resultArray, asking>>
    BY <1>1, <1>15
  <2>2. CacheTold' /\ Ordered' /\ Ends'
    BY <1>1, <1>2, <2>1, <1>13 DEF MergeInv, CacheTold, Told, Ordered, Ends
  <2>3. DumpTold'
    <3>1. ASSUME NEW d \in Before(D, dumpPos + 1)
          PROVE  dumpSearchRes[d] \notin rows \/ Told(dumpSearchRes[d])
      BY <1>1, <1>2, <1>4, <1>5, <1>15, <3>1 DEF MergeInv, DumpTold, Lost, D
    <3> QED
      BY <1>1, <2>1, <3>1 DEF DumpTold, Told, D
  <2>4. TellsTaken' /\ NearestFirst'
    BY <1>1, <1>2, <1>4, <2>1 DEF MergeInv, TellsTaken, NearestFirst, D
  <2> QED
    BY <1>8, <1>9, <1>11, <1>12, <2>2, <2>3, <2>4 DEF SearchInv, MergeInv
<1>16. CASE isTold
  <2>1. /\ DOMAIN resultArray' = 1..L + 1 /\ \A n \in 1..L : resultArray'[n] = resultArray[n]
        /\ resultArray'[L + 1] = e /\ asking' = "merge" /\ resultArray' = Append(resultArray, e)
    BY <1>1, <1>7, <1>16
  <2>2. \A n \in 1..L : n \in 1..L + 1
    BY <1>7
  <2>3. L + 1 \in 1..L + 1
    BY <1>7
  <2>4. CacheTold'
    <3>1. ASSUME NEW d \in Before(C, cachePos)
          PROVE  \E n \in DOMAIN resultArray' : resultArray'[n].id = cacheSearchRes[d]
      <4>1. \E n \in 1..L : resultArray[n].id = cacheSearchRes[d]
        BY <1>2, <1>7 DEF MergeInv, CacheTold, Told, C
      <4> QED
        BY <2>1, <2>2, <4>1
    <3> QED
      BY <1>1, <3>1 DEF CacheTold, Told, C
  <2>5. DumpTold'
    <3>1. ASSUME NEW d \in Before(D, dumpPos + 1), dumpSearchRes[d] \in rows
          PROVE  \E n \in DOMAIN resultArray' : resultArray'[n].id = dumpSearchRes[d]
      <4>1. CASE d \in Before(D, dumpPos)
        <5>1. \E n \in 1..L : resultArray[n].id = dumpSearchRes[d]
          BY <1>1, <1>2, <1>7, <3>1, <4>1 DEF MergeInv, DumpTold, Lost, Told, D
        <5> QED
          BY <2>1, <2>2, <5>1
      <4>2. CASE d = c
        BY <1>5, <2>1, <2>3, <4>2
      <4> QED
        BY <1>4, <4>1, <4>2
    <3> QED
      BY <1>1, <3>1 DEF DumpTold, Told, D
  <2>6. TellsTaken'
    <3>1. ASSUME NEW n \in 1..L + 1
          PROVE  \/ /\ resultArray'[n].distance \in Before(C, cachePos)
                    /\ resultArray'[n].id = cacheSearchRes[resultArray'[n].distance]
                 \/ /\ resultArray'[n].distance \in Before(D, dumpPos + 1)
                    /\ resultArray'[n].id = dumpSearchRes[resultArray'[n].distance]
      <4>1. CASE n \in 1..L
        BY <1>2, <1>4, <1>7, <2>1, <4>1 DEF MergeInv, TellsTaken, C, D
      <4>2. CASE n = L + 1
        BY <1>4, <1>5, <2>1, <4>2
      <4> QED
        BY <1>7, <4>1, <4>2
    <3> QED
      BY <1>1, <2>1, <3>1 DEF TellsTaken, C, D
  <2>7. \A d \in Left(C, cachePos) : c <= d
    <3> TAKE d \in Left(C, cachePos)
    <3>1. /\ cachePos < Size(cacheSearchRes) /\ KeyAt(cacheSearchRes, cachePos) <= d
          /\ d \in Distance /\ KeyAt(cacheSearchRes, cachePos) \in Distance
      BY <1>2, CachedLeft DEF C
    <3>2. ~(KeyAt(cacheSearchRes, cachePos) < c) /\ c \in Distance
      BY <1>1, <1>3, <3>1
    <3> QED
      BY <3>1, <3>2 DEF Distance
  <2>8. NearestFirst'
    <3>1. ASSUME NEW n \in 1..L + 1
          PROVE  /\ \A d \in Left(C, cachePos) : resultArray'[n].distance <= d
                 /\ \A d \in Left(D, dumpPos + 1) : resultArray'[n].distance <= d
      <4>1. CASE n \in 1..L
        BY <1>2, <1>4, <1>7, <2>1, <4>1 DEF MergeInv, NearestFirst, C, D
      <4>2. CASE n = L + 1
        BY <1>4, <1>5, <2>1, <2>7, <4>2
      <4> QED
        BY <1>7, <4>1, <4>2
    <3> QED
      BY <1>1, <2>1, <3>1 DEF NearestFirst, C, D
  <2>9. Ordered'
    <3>1. ASSUME NEW n \in DOMAIN resultArray
          PROVE  resultArray[n].distance <= e.distance /\ resultArray[n].id # e.id
      <4>1. resultArray[n].distance <= c
        BY <1>2, <1>4 DEF MergeInv, NearestFirst, D
      <4>2. resultArray[n].id # dumpSearchRes[c]
        <5>1. CASE resultArray[n].distance \in Before(D, dumpPos)
                   /\ resultArray[n].id = dumpSearchRes[resultArray[n].distance]
          <6>1. resultArray[n].distance \in D /\ resultArray[n].distance # c
            BY <1>4, <5>1 DEF Before
          <6> QED
            BY <1>2, <1>3, <5>1, <6>1, HeldIds DEF D
        <5>2. CASE resultArray[n].distance \in Before(C, cachePos)
                   /\ resultArray[n].id = cacheSearchRes[resultArray[n].distance]
          <6>1. resultArray[n].distance \in C
            BY <5>2 DEF Before
          <6> QED
            BY <1>2, <1>3, <5>2, <6>1, HeldIds DEF C, D
        <5> QED
          BY <1>2, <5>1, <5>2 DEF MergeInv, TellsTaken, C, D
      <4> QED
        BY <1>5, <4>1, <4>2
    <3> QED
      BY <1>2, <1>5, <1>6, <2>1, <3>1, OrderKept DEF MergeInv
  <2>10. Ends'
    BY <1>1, <1>13, <2>1 DEF Ends
  <2> QED
    BY <1>8, <1>9, <1>11, <1>12, <2>4, <2>5, <2>6, <2>8, <2>9, <2>10 DEF SearchInv, MergeInv
<1> QED
  BY <1>14, <1>15, <1>16

LEMMA MergeEnds ==
    ASSUME SearchInv, EndMerge
    PROVE  SearchInv'
<1>1. /\ asking = "merge" /\ asking' = "answered"
      /\ Enough \/ (cachePos = Size(cacheSearchRes) /\ dumpPos = Size(dumpSearchRes))
      /\ UNCHANGED <<system, topK, cacheIndex, files, rows, cacheSearchRes, dumpSearchRes, file,
                     cachePos, dumpPos, resultArray>>
  BY DEF EndMerge
<1>2. SearchTyped' /\ NotYet' /\ FilesRead' /\ SystemHasOne'
  BY <1>1 DEF SearchInv, SearchTyped, NotYet, FilesRead, SystemHasOne
<1>3. MapsHold' /\ Positions'
  BY <1>1 DEF SearchInv, MergeInv, MapsHold, Positions, Known, HitsOf, Size
<1>4. CacheTold' /\ DumpTold' /\ TellsTaken' /\ NearestFirst' /\ Ordered'
  BY <1>1 DEF SearchInv, MergeInv, CacheTold, DumpTold, Lost, Told, TellsTaken, NearestFirst, Ordered
<1>5. Ends'
  <2>1. Len(resultArray) <= topK /\ topK \in Nat /\ Len(resultArray) \in Nat
    BY <1>1 DEF SearchInv, MergeInv, Ends, SearchTyped
  <2>2. Enough => Len(resultArray) = topK
    BY <2>1 DEF Enough
  <2> QED
    BY <1>1, <2>1, <2>2 DEF Ends, Size
<1> QED
  BY <1>2, <1>3, <1>4, <1>5 DEF SearchInv, MergeInv

\* A row is taken away while the answer is put together.
LEMMA RowRemoved ==
    ASSUME SearchInv, NEW id, RemoveRow(id)
    PROVE  SearchInv'
<1>1. /\ asking = "merge" /\ rows' = rows \ {id}
      /\ UNCHANGED <<asking, system, topK, cacheIndex, files, cacheSearchRes, dumpSearchRes, file,
                     cachePos, dumpPos, resultArray>>
  BY DEF RemoveRow
<1>2. SearchTyped' /\ NotYet' /\ FilesRead' /\ SystemHasOne'
  BY <1>1 DEF SearchInv, SearchTyped, NotYet, FilesRead, SystemHasOne
<1>3. MapsHold' /\ Positions'
  BY <1>1 DEF SearchInv, MergeInv, MapsHold, Positions, Known, HitsOf, Size
<1>4. CacheTold' /\ TellsTaken' /\ NearestFirst' /\ Ordered' /\ Ends'
  BY <1>1 DEF SearchInv, MergeInv, CacheTold, Told, TellsTaken, NearestFirst, Ordered, Ends
<1>5. DumpTold'
  <2>1. \A d \in Before(DOMAIN dumpSearchRes, dumpPos) :
           dumpSearchRes[d] \notin rows \/ Told(dumpSearchRes[d])
    BY <1>1 DEF SearchInv, MergeInv, DumpTold, Lost
  <2> QED
    BY <1>1, <2>1 DEF DumpTold, Told
<1> QED
  BY <1>2, <1>3, <1>4, <1>5 DEF SearchInv, MergeInv

LEMMA SearchKeepsInv ==
    ASSUME SearchInv, [SearchNext]_search
    PROVE  SearchInv'
<1>1. ASSUME NEW k \in 1..MaxTopK, NEW hits \in Hits(k), NEW n \in 0..MaxFiles,
             NEW fs \in [1..n -> File(k)], SearchCache(k, hits, fs)
      PROVE  SearchInv'
  BY <1>1, CacheSearched
<1>2. ASSUME NEW k \in 1..MaxTopK, NEW f \in File(k), NEW kept, SearchSystem(k, f, kept)
      PROVE  SearchInv'
  BY <1>2, SystemSearched
<1>3. CASE SearchFile
  BY <1>3, FileSearched
<1>4. CASE EndSearch
  BY <1>4, SearchEnds
<1>5. CASE TakeCached
  BY <1>5, CachedTaken
<1>6. CASE TakeStored
  BY <1>6, StoredTaken
<1>7. CASE EndMerge
  BY <1>7, MergeEnds
<1>8. ASSUME NEW id \in Found, RemoveRow(id) PROVE SearchInv'
  BY <1>8, RowRemoved
<1>9. CASE UNCHANGED search
  <2>1. Known' = Known /\ Found' = Found
    BY <1>9 DEF search, Known, HitsOf, Found, Readable
  <2>2. SearchTyped' /\ NotYet' /\ FilesRead' /\ SystemHasOne'
    BY <1>9 DEF search, SearchInv, SearchTyped, NotYet, FilesRead, SystemHasOne
  <2>3. MapsHold' /\ Positions' /\ CacheTold' /\ TellsTaken' /\ NearestFirst' /\ Ordered'
    BY <1>9, <2>1 DEF search, SearchInv, MergeInv, MapsHold, Positions, CacheTold, Told, TellsTaken,
       NearestFirst, Ordered, Size
  <2>4. DumpTold' /\ Ends'
    BY <1>9, <2>1 DEF search, SearchInv, MergeInv, DumpTold, Lost, Told, Ends, Size
  <2> QED
    BY <2>2, <2>3, <2>4 DEF SearchInv, MergeInv
<1> QED
  BY <1>1, <1>2, <1>3, <1>4, <1>5, <1>6, <1>7, <1>8, <1>9 DEF SearchNext

\* The maps and the answer of a search keep agreeing with what its indexes
\* found, for any bounds.
THEOREM SearchInvariant == SearchSpec => []SearchInv
<1>1. SearchInit => SearchInv
  BY SearchBegins
<1>2. SearchInv /\ [SearchNext]_search => SearchInv'
  BY SearchKeepsInv
<1> QED
  BY <1>1, <1>2, PTL DEF SearchSpec

\* What an index that was read holds is in one of the maps, unless it was
\* swallowed.
LEMMA FoundIsHeld ==
    ASSUME MapsHold, SearchTyped, FilesRead, asking = "answered", NEW id \in Found, ~Swallowed(id)
    PROVE  /\ DistanceOf(id) \in Distance
           /\ \/ DistanceOf(id) \in DOMAIN cacheSearchRes /\ cacheSearchRes[DistanceOf(id)] = id
              \/ DistanceOf(id) \in DOMAIN dumpSearchRes /\ dumpSearchRes[DistanceOf(id)] = id
<1> DEFINE w == id[1]
           d == DistanceOf(id)
<1>1. /\ id \in Chunk /\ w \in Readable \cup {0} /\ id[2] \in DOMAIN HitsOf(w)
  BY DEF Found
<1>2. /\ file \in Nat /\ file <= Len(files) /\ Len(files) \in Nat /\ topK \in Nat
      /\ DOMAIN files = 1..Len(files)
  <2> DEFINE S == File(topK)
  <2>1. files \in Seq(S)
    BY DEF SearchTyped
  <2>2. file \in Nat /\ file <= Len(files) /\ topK \in Nat
    BY DEF SearchTyped
  <2> HIDE DEF S
  <2> QED
    BY <2>1, <2>2
\* A file behind an unreadable one is not readable in this sense.
<1>3. w = 0 \/ w \in 1..file
  <2> SUFFICES ASSUME w \in Readable, w \notin 1..file PROVE FALSE
    BY <1>1
  <2>1. w \in 1..Len(files) /\ \A m \in 1..w : files[m].readable
    BY <1>2 DEF Readable
  <2> HIDE DEF w, d
  <2>2. file < w /\ file # Len(files)
    <3>1. w \in Nat /\ 1 <= w /\ w <= Len(files) /\ w \notin 1..file
      BY <1>2, <2>1
    <3>2. file \in Nat /\ Len(files) \in Nat
      BY <1>2
    <3> QED
      BY <3>1, <3>2
  <2>3. file > 0 /\ ~files[file].readable
    BY <2>2 DEF FilesRead
  <2>4. file \in 1..w
    <3>1. w \in Int
      BY <1>2, <2>1
    <3>2. file \in Nat /\ file < w /\ file > 0
      BY <1>2, <2>2, <2>3
    <3> QED
      BY <3>1, <3>2
  <2> QED
    BY <2>1, <2>3, <2>4
<1>4. Known[w] = HitsOf(w) /\ w \in 0..Len(files) /\ HitsOf(w) \in Hits(topK)
  <2>1. w \in 0..Len(files)
    BY <1>2, <1>3
  <2> QED
    BY <2>1, KnownIs
<1>5. Known[w][id[2]] = d /\ d \in Distance
  <2>1. PICK n \in Nat : DOMAIN HitsOf(w) = 1..n /\ \A m \in 1..n : HitsOf(w)[m] \in Distance
    BY <1>2, <1>4, HitsAre
  <2> QED
    BY <1>1, <1>4, <2>1 DEF DistanceOf
<1>6. ~\E n \in DOMAIN Known[w] : Known[w][n] = 0
  BY <1>4 DEF Swallowed
<1>7. CASE w = 0
  <2>1. d \in DOMAIN cacheSearchRes
    BY <1>1, <1>4, <1>5, <1>6, <1>7 DEF MapsHold, MapHolds
  <2> DEFINE other == cacheSearchRes[d]
  <2>2. /\ other \in Chunk /\ other[1] = 0 /\ other[2] \in DOMAIN Known[0] /\ Known[0][other[2]] = d
    BY <2>1 DEF MapsHold, MapHolds
  <2>3. other \in Found /\ DistanceOf(other) = d
    <3> HIDE DEF w, d, other
    <3> QED
      BY <1>4, <1>7, <2>2 DEF Found, DistanceOf
  <2>4. other = id
    <3> HIDE DEF other
    <3> QED
      BY <1>7, <2>2, <2>3 DEF Swallowed
  <2> QED
    BY <1>5, <2>1, <2>4
<1>8. CASE w \in 1..file
  <2>1. w # 0 /\ 0 \notin 1..file
    BY <1>8
  <2>2. d \in DOMAIN dumpSearchRes
    BY <1>1, <1>4, <1>5, <1>6, <1>8 DEF MapsHold, MapHolds
  <2> DEFINE other == dumpSearchRes[d]
  <2>3. /\ other \in Chunk /\ other[1] \in 1..file /\ Known[other[1]][other[2]] = d
    BY <2>2 DEF MapsHold, MapHolds
  <2>4. other \in Found
    BY <2>2, StoredFound
  <2>5. Known[other[1]] = HitsOf(other[1])
    <3>1. other[1] \in 0..Len(files)
      BY <1>2, <2>3
    <3> QED
      BY <3>1, KnownIs
  <2>6. DistanceOf(other) = d
    <3> HIDE DEF d, other
    <3> QED
      BY <2>3, <2>5 DEF DistanceOf
  <2>7. other = id
    <3> HIDE DEF other
    <3> QED
      BY <2>1, <2>3, <2>4, <2>6 DEF Swallowed
  <2> QED
    BY <1>5, <2>2, <2>7
<1> QED
  BY <1>3, <1>7, <1>8

\* What the cache holds was found.
LEMMA CachedFound ==
    ASSUME MapsHold, SearchTyped, NEW d \in DOMAIN cacheSearchRes
    PROVE  cacheSearchRes[d] \in Found
<1> DEFINE id == cacheSearchRes[d]
<1>1. id \in Chunk /\ id[1] = 0 /\ id[2] \in DOMAIN Known[0]
  BY DEF MapsHold, MapHolds
<1>2. Known[0] = cacheIndex
  BY KnownIs
<1> HIDE DEF id
<1>3. id \in Found
  BY <1>1, <1>2 DEF Found, HitsOf
<1> QED
  BY <1>3 DEF id

LEMMA SearchInvIsNearest == SearchInv => ResultsAreNearest
<1> SUFFICES ASSUME SearchInv, asking = "answered" PROVE ResultsAreNearest
  BY DEF ResultsAreNearest
<1> DEFINE C == DOMAIN cacheSearchRes
           D == DOMAIN dumpSearchRes
<1>1. /\ MapsHold /\ SearchTyped /\ FilesRead /\ Positions /\ CacheTold /\ DumpTold /\ TellsTaken
      /\ NearestFirst /\ Ordered /\ Ends
  BY DEF SearchInv, MergeInv
<1>2. C \subseteq Distance /\ D \subseteq Distance
  BY <1>1, HeldIds
<1>3. /\ Before(C, cachePos) \cup Left(C, cachePos) = C /\ Before(C, cachePos) \subseteq C
      /\ Before(D, dumpPos) \cup Left(D, dumpPos) = D /\ Before(D, dumpPos) \subseteq D
  BY <1>1, <1>2, EndsOfKeys DEF Positions
<1>4. \A n \in DOMAIN resultArray : resultArray[n].id \in Found
  BY <1>1, <1>3, CachedFound, StoredFound DEF TellsTaken
<1>5. ASSUME NEW id \in Found, ~Swallowed(id), id \in rows,
             ~\E n \in DOMAIN resultArray : resultArray[n].id = id,
             ~(system /\ resultArray = <<>> /\ \E other \in Found : other \notin rows)
      PROVE  /\ Len(resultArray) = topK
             /\ \A n \in DOMAIN resultArray : resultArray[n].distance <= DistanceOf(id)
  <2> DEFINE d == DistanceOf(id)
  <2>1. ~Lost
    BY <1>5 DEF Lost
  <2>2. (d \in C /\ cacheSearchRes[d] = id) \/ (d \in D /\ dumpSearchRes[d] = id)
    BY <1>1, <1>5, FoundIsHeld
  <2> HIDE DEF d
  <2>3. d \in Left(C, cachePos) \/ d \in Left(D, dumpPos)
    <3>1. CASE d \in C /\ cacheSearchRes[d] = id
      <4>1. d \notin Before(C, cachePos)
        BY <1>1, <1>5, <3>1 DEF CacheTold, Told
      <4> QED
        BY <1>3, <3>1, <4>1
    <3>2. CASE d \in D /\ dumpSearchRes[d] = id
      <4>1. d \notin Before(D, dumpPos)
        BY <1>1, <1>5, <2>1, <3>2 DEF DumpTold, Told
      <4> QED
        BY <1>3, <3>2, <4>1
    <3> QED
      BY <2>2, <3>1, <3>2
  <2>4. \A n \in DOMAIN resultArray : resultArray[n].distance <= d
    BY <1>1, <2>3 DEF NearestFirst
  <2>5. ~(cachePos = Size(cacheSearchRes) /\ dumpPos = Size(dumpSearchRes))
    <3>1. Left(C, Cardinality(C)) = {} /\ Left(D, Cardinality(D)) = {}
      BY <1>2, EndsOfKeys
    <3> QED
      BY <2>3, <3>1 DEF Size
  <2> QED
    BY <1>1, <2>1, <2>4, <2>5 DEF Ends, d
<1>6. Len(resultArray) <= topK
  BY <1>1 DEF Ends
<1>7. \A m, n \in DOMAIN resultArray :
         m < n => resultArray[m].distance <= resultArray[n].distance
                  /\ resultArray[m].id # resultArray[n].id
  BY <1>1 DEF Ordered
<1> QED
  BY <1>4, <1>5, <1>6, <1>7 DEF ResultsAreNearest

\* Whatever the indexes find and whichever rows are gone: an answer is in
\* order, no longer than asked for and without repeats, and leaves out nothing
\* nearer than what it has but what the maps swallowed or a missing row took
\* (vectorindex.cpp:194, embedding.cpp:573).
THEOREM SearchesAreNearest == SearchSpec => []ResultsAreNearest
BY SearchInvariant, SearchInvIsNearest, PTL
=============================================================================
