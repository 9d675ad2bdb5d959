--------------------------- MODULE PropertyIndex ---------------------------
(***************************************************************************)
(* The index of file properties: IndexManager switches it on and off from  *)
(* a D-Bus thread, FileMonitor turns kernel events into jobs on a thread   *)
(* of its own, and IndexWorker runs the jobs and walks the home directory  *)
(* while files come, change and go. The process may end at any point;      *)
(* what a writer has not closed is lost then. Documents are the times of   *)
(* modification they were made at.                                         *)
(***************************************************************************)
EXTENDS Naturals, Sequences, FiniteSets

CONSTANTS
    Loose,         \* files of the home directory
    Inside,        \* files of a folder in it
    Folder,        \* that folder
    MaxChanges,    \* bound: changes of the file system
    MaxSwitches,   \* bound: times the index is switched
    MaxCrashes     \* bound: ends of the process

File == Loose \cup Inside

\* Of the constants; a module that extends this one assumes it.
PropertyAssumption ==
    /\ Loose \cap Inside = {} /\ Folder \notin File
    /\ MaxChanges \in Nat \ {0} /\ MaxSwitches \in Nat /\ MaxCrashes \in Nat

VARIABLES
    changed,       \* time of the last change of a file, 0 if there is none
    folder,        \* the folder is in the home directory
    now,           \* changes so far
    kernel,        \* events on their way to FileMonitor
    process,       \* the daemon runs
    listening,     \* its socket is in the kernel's multicast group
    linked,        \* IndexManager's signals are connected to the worker
    stopped,       \* isStoped
    switching,     \* where onSemanticAnalysisChecked is: "none", "up" or "down"
    jobs,          \* slots posted to the worker's thread
    timers,        \* single shots of onCreateAllIndex that are running
    walk,          \* the job being done, and the files it still visits
    docs,          \* documents of each file, as the writer has them
    saved,         \* documents in the closed index
    exists,        \* indexExists
    enabled,       \* ENABLE_SEMANTIC_ANALYSIS
    finished,      \* SEMANTIC_ANALYSIS_FINISHED
    switches, crashes,
    covered,       \* observed: a whole walk was done since the worker was started
    unseen         \* observed: files that went without the worker being told

files == <<changed, folder, now>>
switch == <<linked, stopped, switching, enabled, switches>>
written == <<docs, saved, exists, finished>>
running == <<process, listening>>
observed == <<covered, unseen>>
propertyVars == <<files, kernel, running, switch, jobs, timers, walk, written, crashes, observed>>

Idle == [job |-> "none", todo |-> {}, sure |-> {}, whole |-> FALSE]
NoDocs == [f \in File |-> <<>>]

PropertyInit ==
    /\ changed \in [File -> {0, 1}] /\ folder = TRUE /\ now = 1
    /\ kernel = <<>> /\ process = TRUE /\ listening = TRUE
    /\ linked = FALSE /\ stopped = TRUE /\ switching = "none"
    /\ jobs = <<>> /\ timers = 0 /\ walk = Idle
    /\ docs = NoDocs /\ saved = NoDocs /\ exists = FALSE
    /\ enabled = FALSE /\ finished = FALSE
    /\ switches = 0 /\ crashes = 0
    /\ covered = FALSE /\ unseen = {}

Present(f) == changed[f] > 0 /\ (f \in Inside => folder)
Under(p) == IF p = Folder THEN Inside ELSE {p}

-----------------------------------------------------------------------------
\* The file system; what happens while nobody listens is told to nobody.

Tell(act, p) == kernel' = IF listening THEN Append(kernel, <<act, p>>) ELSE kernel
Vanish(S) == unseen' = IF listening THEN unseen ELSE unseen \cup S
Tick == now < MaxChanges /\ now' = now + 1

CreateFile(f) ==
    /\ Tick /\ changed[f] = 0 /\ (f \in Inside => folder)
    /\ changed' = [changed EXCEPT ![f] = now']
    /\ Tell("new", f)
    /\ UNCHANGED <<folder, running, switch, jobs, timers, walk, written, crashes, observed>>

\* The kernel has no event for what is written to a file.
WriteFile(f) ==
    /\ Tick /\ Present(f)
    /\ changed' = [changed EXCEPT ![f] = now']
    /\ UNCHANGED <<folder, kernel, running, switch, jobs, timers, walk, written, crashes,
                   observed>>

RemoveFile(f) ==
    /\ Tick /\ Present(f)
    /\ changed' = [changed EXCEPT ![f] = 0]
    /\ Tell("deleted", f) /\ Vanish({f})
    /\ UNCHANGED <<folder, running, switch, jobs, timers, walk, written, crashes, covered>>

\* A folder goes, and its files with it, in one event.
MoveFolderOut ==
    /\ Tick /\ folder
    /\ folder' = FALSE
    /\ Tell("renamed from", Folder)
    /\ unseen' = unseen \cup Inside
    /\ UNCHANGED <<changed, running, switch, jobs, timers, walk, written, crashes, covered>>

MoveFolderIn ==
    /\ Tick /\ ~folder
    /\ folder' = TRUE
    /\ Tell("renamed to", Folder)
    /\ UNCHANGED <<changed, running, switch, jobs, timers, walk, written, crashes, observed>>

FileSystem ==
    \/ \E f \in File : CreateFile(f) \/ WriteFile(f) \/ RemoveFile(f)
    \/ MoveFolderOut \/ MoveFolderIn

-----------------------------------------------------------------------------
\* FileMonitor.

\* Mutants: renamed folders and renamed files are not followed.
OnlyNew == {"new"}
Creating == {"new", "renamed to"}
Deleting == {"deleted", "renamed from"}

\* handleMsgFromGenl posts a job, if the worker is connected.
HandleMsgFromGenl ==
    /\ process /\ kernel # <<>>
    /\ LET act == Head(kernel)[1]
           p == Head(kernel)[2]
       IN  /\ jobs' = IF ~linked THEN jobs
                      ELSE IF act \in Creating THEN Append(jobs, <<"created", p>>)
                      ELSE IF act \in Deleting THEN Append(jobs, <<"deleted", p>>)
                      ELSE jobs
           /\ unseen' = IF act \in {"deleted", "renamed from"} /\ ~linked
                        THEN unseen \cup Under(p) ELSE unseen
    /\ kernel' = Tail(kernel)
    /\ UNCHANGED <<files, running, switch, timers, walk, written, crashes, covered>>

-----------------------------------------------------------------------------
\* onSemanticAnalysisChecked, under semanticOnMutex; the worker and the monitor
\* go on between its steps.

SwitchOn ==
    /\ process /\ switching = "none"
    /\ ~linked /\ switches < MaxSwitches
    /\ enabled' = TRUE /\ linked' = TRUE /\ switching' = "up"
    /\ switches' = switches + 1
    /\ UNCHANGED <<files, kernel, running, stopped, jobs, timers, walk, written, crashes,
                   observed>>

\* The user's switch asks for all of the index, whether there is one or not.
StartWorker ==
    /\ process /\ switching = "up"
    /\ stopped' = FALSE /\ switching' = "none"
    /\ jobs' = Append(jobs, <<"create all", Folder>>)
    /\ UNCHANGED <<files, kernel, running, linked, enabled, switches, timers, walk, written,
                   crashes, observed>>

SwitchOff ==
    /\ process /\ switching = "none"
    /\ linked /\ switches < MaxSwitches
    /\ stopped' = TRUE /\ switching' = "down"
    /\ switches' = switches + 1
    /\ walk' = [walk EXCEPT !.whole = FALSE]
    /\ covered' = FALSE
    /\ UNCHANGED <<files, kernel, running, linked, enabled, jobs, timers, written, crashes,
                   unseen>>

\* What was posted stays posted.
Disconnect ==
    /\ process /\ switching = "down"
    /\ linked' = FALSE /\ enabled' = FALSE /\ switching' = "none"
    /\ UNCHANGED <<files, kernel, running, stopped, switches, jobs, timers, walk, written,
                   crashes, observed>>

\* FileMonitor::start, when the daemon has started: only an unfinished index is
\* asked for again.
StartAgain ==
    /\ ~process
    /\ process' = TRUE
    /\ linked' = enabled /\ stopped' = ~enabled
    /\ jobs' = IF enabled /\ ~finished THEN <<<<"create all", Folder>>>> ELSE <<>>
    /\ UNCHANGED <<files, kernel, listening, switching, enabled, switches, timers, walk, written,
                   crashes, observed>>

\* The socket joins the group after the worker was asked to begin.
Listen ==
    /\ process /\ ~listening
    /\ listening' = TRUE
    /\ UNCHANGED <<files, kernel, process, switch, jobs, timers, walk, written, crashes,
                   observed>>

Untold(f, queue) ==
    \E i \in 1..Len(queue) : queue[i][1] \in {"deleted", "renamed from"} /\ queue[i][2] = f

\* An open writer is lost, and every event on its way.
Crash ==
    /\ process /\ crashes < MaxCrashes
    /\ process' = FALSE /\ listening' = FALSE /\ crashes' = crashes + 1
    /\ kernel' = <<>> /\ jobs' = <<>> /\ timers' = 0 /\ walk' = Idle
    /\ docs' = saved
    /\ linked' = FALSE /\ stopped' = TRUE /\ switching' = "none"
    /\ covered' = FALSE
    /\ unseen' = unseen \cup {f \in File : Untold(f, kernel) \/ Untold(f, jobs)}
    /\ UNCHANGED <<files, enabled, switches, saved, exists, finished>>

-----------------------------------------------------------------------------
\* IndexWorker.

Free == process /\ walk = Idle /\ jobs # <<>>

\* The files a walk will come by: those that are there when it begins, and
\* perhaps those that come later.
Walk(job, S) == [job |-> job, todo |-> S, sure |-> {f \in S : Present(f)},
                 whole |-> S = File /\ listening]

\* The writer is closed: what it did is in the index.
Close == saved' = docs' /\ exists' = TRUE

\* A job that finds the worker stopped is forgotten.
Skip ==
    /\ Free /\ stopped
    /\ jobs' = Tail(jobs)
    /\ finished' = IF Head(jobs)[1] = "create all" THEN FALSE ELSE finished
    /\ unseen' = IF Head(jobs)[1] = "deleted" THEN unseen \cup Under(Head(jobs)[2]) ELSE unseen
    /\ UNCHANGED <<files, kernel, running, switch, timers, walk, docs, saved, exists, crashes,
                   covered>>

OnFileCreated ==
    /\ Free /\ ~stopped
    /\ Head(jobs)[1] = "created"
    /\ jobs' = Tail(jobs)
    /\ walk' = [Walk("created", Under(Head(jobs)[2])) EXCEPT !.whole = FALSE]
    /\ UNCHANGED <<files, kernel, running, switch, timers, written, crashes, observed>>

\* A folder that is gone is no folder: its path is looked for as a file's, and
\* the documents of its files stay.
OnFileDeleted ==
    /\ Free /\ ~stopped
    /\ Head(jobs)[1] = "deleted"
    /\ jobs' = Tail(jobs)
    /\ LET p == Head(jobs)[2]
           gone == IF p = Folder THEN {f \in Inside : folder} ELSE {p}
       IN  docs' = [f \in File |-> IF exists /\ f \in gone THEN <<>> ELSE docs[f]]
    /\ saved' = docs'
    /\ UNCHANGED <<files, kernel, running, switch, timers, walk, exists, finished, crashes,
                   observed>>

\* Mutant: an index that exists is taken for a whole one.
NoTimer == 0
NewTimer == 1

OnCreateAllIndex ==
    /\ Free /\ ~stopped
    /\ Head(jobs)[1] = "create all"
    /\ jobs' = Tail(jobs)
    /\ finished' = FALSE
    /\ IF exists THEN timers' = timers + NewTimer /\ UNCHANGED walk
                 ELSE walk' = Walk("create all", File) /\ UNCHANGED timers
    /\ UNCHANGED <<files, kernel, running, switch, docs, saved, exists, crashes, observed>>

\* Ten seconds later, stopped and started again meanwhile or not.
OnUpdateAllIndex ==
    /\ process /\ walk = Idle /\ timers > 0
    /\ timers' = timers - 1
    /\ walk' = IF stopped THEN walk ELSE Walk("update all", File)
    /\ UNCHANGED <<files, kernel, running, switch, jobs, written, crashes, observed>>

\* indexDocument: what the parsers make of a file, told by its time.
DocumentOf(f) == changed[f]

\* checkUpdate: a file without a document, or whose first one is of another time.
IsNew(f) == docs[f] = <<>>
IsStale(f) == docs[f] # <<>> /\ Head(docs[f]) # DocumentOf(f)

\* indexFile: updateDocument replaces, addDocument adds.
Indexed(f) ==
    IF walk.job # "update all" THEN Append(docs[f], DocumentOf(f))
    ELSE IF IsNew(f) \/ IsStale(f) THEN <<DocumentOf(f)>> ELSE docs[f]

\* doIndexTask of one file. A stopped worker passes it by, and so does a walk
\* that began before the file came.
Visit(f) ==
    /\ process /\ f \in walk.todo
    /\ docs' = [docs EXCEPT ![f] = IF ~stopped /\ Present(f) THEN Indexed(f) ELSE @]
    /\ walk' = [walk EXCEPT !.todo = @ \ {f}]
    /\ UNCHANGED <<files, kernel, running, switch, jobs, timers, saved, exists, finished,
                   crashes, observed>>

Overlook(f) ==
    /\ process /\ f \in walk.todo \ walk.sure
    /\ walk' = [walk EXCEPT !.todo = @ \ {f}]
    /\ UNCHANGED <<files, kernel, running, switch, jobs, timers, written, crashes, observed>>

\* The directory that is read ends, or the worker was stopped: either way the
\* writer is closed and a walk of everything recorded as finished.
EndWalk ==
    /\ process /\ walk.job # "none"
    /\ walk.todo = {} \/ stopped
    /\ UNCHANGED docs
    /\ Close
    /\ finished' = (finished \/ walk.job \in {"create all", "update all"})
    /\ covered' = (covered \/ (walk.whole /\ ~stopped))
    /\ walk' = Idle
    /\ UNCHANGED <<files, kernel, running, switch, jobs, timers, crashes, unseen>>

\* What GetSemanticStatus tells a client.
SemanticStatus ==
    IF ~enabled THEN "off" ELSE IF finished THEN "complete" ELSE "incomplete"

WorkerStep ==
    \/ Skip \/ OnFileCreated \/ OnFileDeleted \/ OnCreateAllIndex
    \/ \E f \in File : Visit(f) \/ Overlook(f)
    \/ EndWalk

Switch == SwitchOn \/ StartWorker \/ SwitchOff \/ Disconnect

PropertyNext ==
    \/ FileSystem \/ HandleMsgFromGenl \/ Switch
    \/ WorkerStep \/ OnUpdateAllIndex
    \/ StartAgain \/ Listen \/ Crash

PropertySpec == PropertyInit /\ [][PropertyNext]_propertyVars

\* The threads run, timers expire, and the daemon is started again.
Fairness ==
    /\ WF_propertyVars(WorkerStep) /\ WF_propertyVars(OnUpdateAllIndex)
    /\ WF_propertyVars(HandleMsgFromGenl) /\ WF_propertyVars(Listen)
    /\ WF_propertyVars(StartWorker) /\ WF_propertyVars(Disconnect)
    /\ WF_propertyVars(StartAgain)

PropertyFairSpec == PropertySpec /\ Fairness

-----------------------------------------------------------------------------

\* Every variable keeps its type, and the writer and the closed index agree
\* while no walk is under way.
PropertyTypeOK ==
    /\ changed \in [File -> 0..MaxChanges]
    /\ \A f \in File : \A i \in 1..Len(docs[f]) : docs[f][i] \in 1..now
    /\ switching \in {"none", "up", "down"}
    /\ walk.job \in {"none", "created", "create all", "update all"}
    /\ timers \in 0..MaxSwitches + MaxCrashes
    /\ walk.job = "none" => docs = saved
    /\ ~exists => saved = NoDocs

\* Nothing is under way that would still change the index.
Quiet == process /\ kernel = <<>> /\ jobs = <<>> /\ walk = Idle /\ timers = 0

\* Once a walk of everything was done, with the worker left on since, every file
\* there is has a document when all is quiet: whatever came before, during or
\* after the walk, alone or with a folder, was found by it or by an event.
PresentIsIndexed ==
    Quiet /\ covered => \A f \in File : Present(f) => docs[f] # <<>>

\* A file that is gone has a document only if it went with its folder, whose
\* event names no file (onFileDeleted looks for a directory that is no longer
\* one), or while the worker was stopped, unconnected or not running.
GhostsWentUnseen ==
    Quiet => \A f \in File : docs[f] # <<>> /\ ~Present(f) => f \in unseen

\* What an update writes takes the place of every document of the file, however
\* many events have added: an update never indexes a file twice.
UpdateReplaces ==
    [][ \A f \in File :
            walk.job = "update all" /\ process' /\ docs'[f] # docs[f]
                => docs'[f] = <<changed[f]>> ]_propertyVars

\* While the index stays switched on its completion is reported in the end, over
\* walks that were interrupted, timers of earlier switches, and restarts.
CompletionReported == SemanticStatus = "incomplete" ~> SemanticStatus # "incomplete"

\* Once quiet, the index holds what the files are, but for the changes that
\* nobody could see.
FilesAreIndexed == PropertyTypeOK /\ PresentIsIndexed /\ GhostsWentUnseen
=============================================================================
