--------------------------- MODULE VectorSessions ---------------------------
(***************************************************************************)
(* The vector database behind EmbPlatformDBus: SessionManager's sessions,  *)
(* each with its ProjectManager and the VectorDb of its project, over the  *)
(* disk and the cache of VectorStore.  Requests are handled one at a time  *)
(* on the interface's thread; a build parses and embeds on pool threads    *)
(* and comes back to that thread when it is done, and a search waits for   *)
(* its embedding in an event loop of its own, in which the other requests  *)
(* go on.  The process may end between any two steps of a handler.         *)
(***************************************************************************)
EXTENDS VectorStore, Sequences, SequencesExt

CONSTANTS
    App,           \* applications
    NoApp,         \* none of them
    MaxSearches,   \* bound: searches waiting at a time
    MaxFaults,     \* bound: failing writes
    MaxRestarts,   \* bound: ends of the process
    MaxDestroys    \* bound: calls of DestroyIndex

ASSUME SessionsAssumption ==
    /\ NoApp \notin App
    /\ {MaxSearches, MaxFaults, MaxRestarts, MaxDestroys} \subseteq Nat

VARIABLES
    session,       \* applications with a Session in m_sessions
    connection,    \* the one whose "vectordb_projects" connection is open
    known,         \* applications whose project is in the ProjectManager's cache
    project,       \* applications with a row in their project.db
    generation,    \* how often the VectorDb of an application was destroyed
    disk, cache,   \* what VectorStore keeps of each application
    uploaded,      \* documents made so far
    builds,        \* the workflows of the VectorDbs
    searches,      \* searches waiting for their embedding, the innermost last
    process,       \* "running", "hung" or "crashed"
    announced,     \* builds the client was told of
    ghosts,        \* chunks a search found in an index and nowhere else
    faults, restarts,
    torn,          \* history: documents a removal broke, or with such a one's name
    stray          \* history: builds that overlapped something or failed a step

vars == <<session, connection, known, project, generation, disk, cache, uploaded,
          builds, searches, process, announced, ghosts, faults, restarts, torn,
          stray>>
opened == <<session, connection, known>>
counters == <<faults, restarts>>
history == <<torn, stray>>

BuildRecord == [stage : {"unused", "parsing", "parsed", "ended"}, app : App \cup {NoApp},
                doc : Doc \cup {NoDoc}, name : Name, text : Doc \cup {NoDoc},
                generation : 0..MaxDestroys, life : 0..MaxRestarts]

Unused == [stage |-> "unused", app |-> NoApp, doc |-> NoDoc,
           name |-> <<CHOOSE x \in Base : TRUE, 0>>, text |-> NoDoc,
           generation |-> 0, life |-> 0]

\* A workflow that is over; its name and text no longer matter.
Over(build) == [build EXCEPT !.stage = "ended", !.name = Unused.name, !.text = NoDoc]

Init ==
    /\ session = {} /\ connection = NoApp /\ known = {} /\ project = {}
    /\ generation = [a \in App |-> 0]
    /\ disk = [a \in App |-> EmptyDisk]
    /\ cache = [a \in App |-> EmptyCache]
    /\ uploaded = 0
    /\ builds = [b \in Build |-> Unused]
    /\ searches = <<>>
    /\ process = "running"
    /\ announced = {} /\ ghosts = {}
    /\ faults = 0 /\ restarts = 0
    /\ torn = {} /\ stray = {}

-----------------------------------------------------------------------------
\* Sessions and projects.

\* createSession: a new session's ProjectManager opens project.db under the
\* one connection name and reads the projects.
OpenSession(a) ==
    /\ session' = session \cup {a}
    /\ connection' = IF a \in session THEN connection ELSE a

LoadProjects(a) == IF a \in session THEN known ELSE known \cup ({a} \cap project)

Running == process = "running"

\* A request that needs nothing but the session: DocumentsInfo and the like.
DocumentsInfo(a) ==
    /\ Running
    /\ OpenSession(a)
    /\ known' = LoadProjects(a)
    /\ UNCHANGED <<project, generation, disk, cache, uploaded, builds, searches,
                   process, announced, ghosts, counters, history>>

\* The insert fails, and the upload with it, when the session that opened the
\* connection last is another application's.
CanInsertProject(a) == a \in session => connection = a

\* getOrCreateProjectId and createOrGetProject.
EnsureProject(a) ==
    /\ a \in known \/ CanInsertProject(a)
    /\ OpenSession(a)
    /\ known' = LoadProjects(a) \cup {a}
    /\ project' = project \cup {a}

\* The process ends with that much on the disk of the application.
Crash(a, left) ==
    /\ restarts < MaxRestarts
    /\ restarts' = restarts + 1
    /\ disk' = [disk EXCEPT ![a] = left]
    /\ cache' = [c \in App |-> EmptyCache]
    /\ session' = {} /\ connection' = NoApp /\ known' = {}
    /\ builds' = [b \in Build |-> IF builds[b].stage = "unused" THEN builds[b]
                                  ELSE Over(builds[b])]
    /\ searches' = <<>>
    /\ process' = "running"
    /\ UNCHANGED <<generation, announced, ghosts>>

Restart ==
    /\ \E a \in App : Crash(a, disk[a])
    /\ UNCHANGED <<project, uploaded, faults, history>>

-----------------------------------------------------------------------------
\* Documents: what a handler leaves on the disk, step by step.

UploadSteps(a, d, x) ==
    LET n == BackupName(disk[a], x)
        copied == BackupDocument(disk[a], d, n)
    IN  <<copied, InsertDocument(copied, d, n)>>

\* The row of a document whose file is gone has the name already.
IsTaken(a, n) == \E r \in disk[a].rows : r.name = n

UploadDocument(a, x) ==
    /\ Running
    /\ uploaded < MaxDocs
    /\ EnsureProject(a)
    /\ CanBackup(disk[a], BackupName(disk[a], x))
    /\ uploaded' = uploaded + 1
    /\ disk' = [disk EXCEPT ![a] = Last(UploadSteps(a, uploaded + 1, x))]
    /\ torn' = IF IsTaken(a, BackupName(disk[a], x)) THEN torn \cup {uploaded + 1} ELSE torn
    /\ UNCHANGED <<generation, cache, builds, searches, process, announced, ghosts,
                   counters, stray>>

\* The copy is there and the row is not.
CrashInUpload(a, x) ==
    /\ Running
    /\ uploaded < MaxDocs
    /\ a \in known
    /\ CanBackup(disk[a], BackupName(disk[a], x))
    /\ uploaded' = uploaded + 1
    /\ Crash(a, UploadSteps(a, uploaded + 1, x)[1])
    /\ UNCHANGED <<project, faults, history>>

\* The vectors of d leave its index when that index can be read. A cached
\* index is read from the cache, whatever the disk holds.
Readable(a, i) == Cached(cache[a], i) \/ disk[a].index[i] # "absent"
LosesVectors(a, d) ==
    LET i == RowOf(disk[a], d).index
    IN  i # NoIndex /\ ChunksOf(disk[a], d) # {} /\ Readable(a, i)

DeletedCache(a, d) ==
    IF ~LosesVectors(a, d) THEN cache[a]
    ELSE LET i == RowOf(disk[a], d).index
             read == Load(disk[a], cache[a], {i})
         IN  RemoveVectors(read, {i} \cap ChunksOf(disk[a], d))

DeleteSteps(a, d, fault) ==
    LET row == RowOf(disk[a], d)
        saved == /\ LosesVectors(a, d)
                 /\ row.index \in Load(disk[a], cache[a], {row.index}).held
                 /\ row.index \in ChunksOf(disk[a], d)
                 /\ fault # "save"
        unindexed == IF saved THEN SaveIndexToFile(disk[a], DeletedCache(a, d), row.index)
                     ELSE disk[a]
        unfiled == RemoveFile(unindexed, d)
        unchunked == RemoveChunks(unfiled, d)
    IN  IF fault = "database" THEN <<unindexed, unfiled>>
        ELSE <<unindexed, unfiled, unchunked, RemoveRow(unchunked, d)>>

\* A removal takes the file of whoever has the same name with it.
Namesakes(a, d) == {r.doc : r \in {s \in disk[a].rows : s.name = RowOf(disk[a], d).name}}

RunningBuilds(a, n) ==
    {b \in Build : /\ builds[b].stage \in {"parsing", "parsed"}
                   /\ builds[b].app = a /\ builds[b].name = n}

Fault(fault) ==
    /\ fault # "none" => faults < MaxFaults
    /\ faults' = IF fault = "none" THEN faults ELSE faults + 1

\* findProjectByDocument finds the row; the session knows its project.
HasDocument(a, d) == a \in LoadProjects(a) /\ IsDocument(disk[a], d)

DeleteMarks(a, d, complete, fault) ==
    /\ torn' = torn \cup (IF complete THEN Namesakes(a, d) \ {d} ELSE Namesakes(a, d))
    /\ stray' = stray \cup RunningBuilds(a, RowOf(disk[a], d).name)
                      \cup (IF fault = "save" THEN ChunksOf(disk[a], d) ELSE {})

DeleteDocument(a, d, fault) ==
    /\ Running
    /\ HasDocument(a, d)
    /\ ~(LosesVectors(a, d) /\ Deadlocks(disk[a], cache[a], {RowOf(disk[a], d).index}))
    /\ Fault(fault)
    /\ OpenSession(a) /\ known' = LoadProjects(a)
    /\ disk' = [disk EXCEPT ![a] = Last(DeleteSteps(a, d, fault))]
    /\ cache' = [cache EXCEPT ![a] = DeletedCache(a, d)]
    /\ DeleteMarks(a, d, fault # "database", fault)
    /\ UNCHANGED <<project, generation, uploaded, builds, searches, process, announced,
                   ghosts, restarts>>

CrashInDelete(a, d) ==
    /\ Running
    /\ HasDocument(a, d)
    /\ ~(LosesVectors(a, d) /\ Deadlocks(disk[a], cache[a], {RowOf(disk[a], d).index}))
    /\ \E i \in 1..3 : Crash(a, DeleteSteps(a, d, "none")[i])
    /\ DeleteMarks(a, d, FALSE, "none")
    /\ UNCHANGED <<project, uploaded, faults>>

-----------------------------------------------------------------------------
\* Building the index of one document.

BuildIndex(a, d, b) ==
    /\ Running
    /\ HasDocument(a, d)
    /\ IsReadyForProcessing(disk[a], d)
    /\ builds[b].stage = "unused"
    /\ \A c \in Build : c < b => builds[c].stage # "unused"
    /\ OpenSession(a) /\ known' = LoadProjects(a)
    /\ LET n == RowOf(disk[a], d).name
           others == RunningBuilds(a, n)
       IN  /\ builds' = [builds EXCEPT ![b] = [stage |-> "parsing", app |-> a, doc |-> d,
                             name |-> n, text |-> NoDoc,
                             generation |-> generation[a], life |-> restarts]]
           /\ stray' = IF others = {} THEN stray ELSE stray \cup others \cup {b}
    /\ UNCHANGED <<project, generation, disk, cache, uploaded, searches, process,
                   announced, ghosts, counters, torn>>

\* On a pool thread: DataParserTask reads what the path names by then, and
\* EmbeddingTask embeds it. Without a file the workflow fails, and that is all.
ParseFile(b) ==
    LET text == disk[builds[b].app].files[builds[b].name]
    IN  /\ process # "crashed"
        /\ builds[b].stage = "parsing"
        /\ builds' = [builds EXCEPT ![b] = IF text = NoDoc THEN Over(@)
                                           ELSE [@ EXCEPT !.text = text, !.stage = "parsed"]]
        /\ UNCHANGED <<opened, project, generation, disk, cache, uploaded, searches,
                       process, announced, ghosts, counters, history>>

\* processIndexBuildWorkflowRestults: the results of the save are not looked at.
CompletedCache(a, b, fault) ==
    LET created == CreateIndex(cache[a], b)
    IN  IF fault = "vectors" THEN created ELSE AddVectors(created, b)

CompleteSteps(a, b, fault) ==
    LET d == DocumentIdByPath(disk[a], builds[b].name)
        stored == IF fault = "chunks" THEN disk[a]
                  ELSE StoreDocumentChunks(disk[a], b, d, builds[b].text)
        unsaved == fault \in {"vectors", "save"}
        written == IF unsaved THEN stored ELSE WriteIndex(stored, b)
        saved == IF unsaved THEN stored
                 ELSE SaveIndexToFile(stored, CompletedCache(a, b, fault), b)
        index == IF fault = "vectors" THEN NoIndex ELSE b
    IN  <<stored, written, saved, IF d = NoDoc THEN saved
                                  ELSE UpdateIndexAndStatus(saved, d, index)>>

\* overallSuccess: the chunks and the vectors are in.
OverallSuccess(d, fault) == d # NoDoc /\ fault \notin {"chunks", "vectors"}

CompleteBuild(b, fault) ==
    LET a == builds[b].app
        d == DocumentIdByPath(disk[a], builds[b].name)
    IN  /\ Running
        /\ builds[b].stage = "parsed"
        /\ Fault(fault)
        /\ cache' = [cache EXCEPT ![a] = CompletedCache(a, b, fault)]
        /\ disk' = [disk EXCEPT ![a] = Last(CompleteSteps(a, b, fault))]
        /\ builds' = [builds EXCEPT ![b] = Over(@)]
        /\ announced' = IF OverallSuccess(d, fault) THEN announced \cup {b} ELSE announced
        /\ stray' = IF fault = "none" THEN stray ELSE stray \cup {b}
        /\ torn' = IF fault = "none" \/ d = NoDoc THEN torn ELSE torn \cup {d}
        /\ UNCHANGED <<opened, project, generation, uploaded, searches, process, ghosts,
                       restarts>>

CrashInComplete(b) ==
    LET a == builds[b].app
    IN  /\ Running
        /\ builds[b].stage = "parsed"
        /\ \E i \in 1..3 : Crash(a, CompleteSteps(a, b, "none")[i])
        /\ stray' = stray \cup {b}
        /\ UNCHANGED <<project, uploaded, faults, torn>>

\* Mutant: the workflows go on.
KeepWorkflows(a) == builds
\* The VectorDb goes, and its workflows with it.
DropWorkflows(a) ==
    [b \in Build |-> IF builds[b].app = a THEN Over(builds[b]) ELSE builds[b]]

DestroyIndex(a) ==
    /\ Running
    /\ a \in LoadProjects(a)
    /\ generation[a] < MaxDestroys
    /\ OpenSession(a) /\ known' = LoadProjects(a)
    /\ disk' = [disk EXCEPT ![a] = EmptyDisk]
    /\ cache' = [cache EXCEPT ![a] = EmptyCache]
    /\ builds' = DropWorkflows(a)
    /\ generation' = [generation EXCEPT ![a] = @ + 1]
    /\ UNCHANGED <<project, uploaded, searches, process, announced, ghosts, counters,
                   history>>

-----------------------------------------------------------------------------
\* Searching: the embedding of the query is awaited in a nested event loop,
\* so that the search that began last ends first.

StartSearch(a) ==
    /\ Running
    /\ a \in LoadProjects(a)
    /\ Len(searches) < MaxSearches
    /\ OpenSession(a) /\ known' = LoadProjects(a)
    /\ searches' = Append(searches, [app |-> a, generation |-> generation[a]])
    /\ UNCHANGED <<project, generation, disk, cache, uploaded, builds, process, announced,
                   ghosts, counters, history>>

FinishSearch ==
    LET s == Last(searches)
        a == s.app
        found == Found(disk[a], cache[a])
    IN  /\ Running
        /\ searches # <<>>
        /\ searches' = Front(searches)
        /\ s.generation = generation[a]
        /\ IF Deadlocks(disk[a], cache[a], AllIndexIds(disk[a]))
           THEN process' = "hung" /\ UNCHANGED <<cache, ghosts>>
           ELSE /\ cache' = [cache EXCEPT ![a] = Load(disk[a], cache[a], AllIndexIds(disk[a]))]
                /\ ghosts' = ghosts \cup {b \in found : ~\E c \in disk[a].chunks : c.build = b}
                /\ UNCHANGED process
        /\ UNCHANGED <<opened, project, generation, disk, uploaded, builds, announced,
                       counters, history>>

\* The VectorDb was destroyed while the search waited in it, which then reads
\* freed memory: it finds nothing, or the process ends.
FinishSearchFreed ==
    LET s == Last(searches)
    IN  /\ Running
        /\ searches # <<>>
        /\ s.generation # generation[s.app]
        /\ searches' = Front(searches)
        /\ process' \in {"running", "crashed"}
        /\ UNCHANGED <<opened, project, generation, disk, cache, uploaded, builds,
                       announced, ghosts, counters, history>>

\* A removal that has to read an index back may never return either.
HangInDelete(a, d) ==
    /\ Running
    /\ HasDocument(a, d)
    /\ LosesVectors(a, d) /\ Deadlocks(disk[a], cache[a], {RowOf(disk[a], d).index})
    /\ process' = "hung"
    /\ OpenSession(a) /\ known' = LoadProjects(a)
    /\ UNCHANGED <<project, generation, disk, cache, uploaded, builds, searches,
                   announced, ghosts, counters, history>>

-----------------------------------------------------------------------------

Next ==
    \/ Restart \/ FinishSearch \/ FinishSearchFreed
    \/ \E a \in App : DocumentsInfo(a) \/ DestroyIndex(a) \/ StartSearch(a)
    \/ \E a \in App, x \in Base : UploadDocument(a, x) \/ CrashInUpload(a, x)
    \/ \E a \in App, d \in Doc :
          \/ \E fault \in {"none", "save", "database"} : DeleteDocument(a, d, fault)
          \/ CrashInDelete(a, d) \/ HangInDelete(a, d)
          \/ \E b \in Build : BuildIndex(a, d, b)
    \/ \E b \in Build :
          \/ ParseFile(b) \/ CrashInComplete(b)
          \/ \E fault \in {"none", "chunks", "vectors", "save"} : CompleteBuild(b, fault)

Spec == Init /\ [][Next]_vars

-----------------------------------------------------------------------------

\* Every variable keeps its type: what VectorDb, DataManager and
\* VectorIndexManager keep stays what their tables and files can hold, and no
\* two rows have one document's key.
StoreTypeOK ==
    /\ session \subseteq App /\ connection \in App \cup {NoApp}
    /\ known \subseteq project /\ project \subseteq App
    /\ \A a \in App :
          /\ disk[a].rows \subseteq RowRecord
          /\ \A r, s \in disk[a].rows : r.doc = s.doc => r = s
          /\ disk[a].files \in [Name -> 0..MaxDocs]
          /\ disk[a].chunks \subseteq ChunkRecord
          /\ disk[a].index \in [Build -> {"absent", "unmapped", "mapped"}]
          /\ cache[a].entry \in [Build -> {"none", "built", "loaded"}]
          /\ cache[a].held \subseteq {b \in Build : cache[a].entry[b] # "none"}
    /\ builds \in [Build -> BuildRecord]
    /\ process \in {"running", "hung", "crashed"}
    /\ announced \subseteq Build /\ ghosts \subseteq Build /\ stray \subseteq Build
    /\ torn \subseteq Doc

\* A document no removal broke keeps the copy of its own file: uploads,
\* removals and crashes never give its name to another document's file, though
\* DataManager::genBackupFileName numbers names by counting rows.
DocumentsKeepTheirFile ==
    \A a \in App : \A r \in disk[a].rows :
        r.doc \notin torn => disk[a].files[r.name] = r.doc

\* A chunk holds another document's text only when its build ran while a
\* removal or another build had its hands on the name: VectorDb finds the
\* document of a result again by its name (vectordb.cpp:646).
ChunkTextIsOwn ==
    \A a \in App : \A c \in disk[a].chunks :
        c.text # c.doc => c.build \in stray \/ {c.doc, c.text} \cap torn # {}

\* A document called Vectorized is found by a search, whatever crashes came
\* in between: its index is on the disk with its id map, and its chunk is in
\* the table. Exempt are documents a failed step or a removal left in pieces.
VectorizedIsSearchable ==
    \A a \in App : \A r \in disk[a].rows :
        r.status = Vectorized /\ r.doc \notin torn =>
            /\ r.index # NoIndex /\ disk[a].index[r.index] = "mapped"
            /\ \E c \in disk[a].chunks : c.doc = r.doc /\ c.build = r.index

\* A search returns a vector whose chunk is gone only when the build
\* overlapped a removal or another build of the same name, a step of it failed
\* or a removal left its document in pieces: otherwise
\* VectorDb::deleteDocuments takes vectors and chunks away together, across
\* crashes and reloads.
GhostsOnlyFromOverlap == \A b \in ghosts : b \in stray \/ builds[b].doc \in torn

\* What is in an application's store was made after its last DestroyIndex:
\* no build begun before comes back to store its chunks or its index.
NothingOutlivesDestroy ==
    \A a \in App : \A b \in Build :
        disk[a].index[b] # "absent" \/ (\E c \in disk[a].chunks : c.build = b) =>
            builds[b].app = a /\ builds[b].generation = generation[a]

\* The interface's thread locks itself out in IndexCache::addIndex only when
\* more indexes of earlier lives of the process are on the disk than the cache
\* holds: however many a process builds, it goes on.
HangsOnlyOnReload ==
    process = "hung" =>
        \E a \in App : Cardinality({b \in Build : /\ disk[a].index[b] # "absent"
                                                   /\ builds[b].life < restarts}) > CacheLimit

\* Names, files and chunks of the documents agree, over uploads, removals,
\* builds that overlap, crashes and restarts.
StoreAgrees == StoreTypeOK /\ DocumentsKeepTheirFile /\ ChunkTextIsOwn

\* A search finds the documents called Vectorized and no removed ones, but for
\* those a failed step or a race took to pieces.
SearchesFindDocuments == VectorizedIsSearchable /\ GhostsOnlyFromOverlap
=============================================================================
