---------------------------- MODULE VectorStore ----------------------------
(***************************************************************************)
(* What a project of the vector database keeps: DataManager's copies of    *)
(* the uploaded files, DocumentDbWrapper's tables of documents and chunks, *)
(* VectorIndexManager's index files with the id maps beside them, and the  *)
(* IndexCache in memory.  Every build makes an index of its own, so a      *)
(* build names its index, and all chunks of a build stand for one.  The    *)
(* operators say what one step of a handler makes of the disk or the       *)
(* cache; VectorSessions puts the steps together.                          *)
(***************************************************************************)
EXTENDS Naturals, FiniteSets

CONSTANTS
    Base,          \* names of the clients' files
    Matches,      \* <<x, y>>: file_name LIKE '%x%' holds of the names made of y
    MaxDocs,       \* bound: uploads
    MaxBuilds,     \* bound: builds
    CacheLimit     \* IndexCache's maximal size, in indexes read back from disk

ASSUME StoreAssumption ==
    /\ Base # {}
    /\ Matches \subseteq Base \X Base
    /\ \A x \in Base : <<x, x>> \in Matches
    /\ MaxDocs \in Nat /\ MaxBuilds \in Nat /\ CacheLimit \in Nat

Doc == 1..MaxDocs
Build == 1..MaxBuilds
NoDoc == 0
NoIndex == 0

\* A file keeps its name, or gets the number of documents found so far.
Name == Base \X (0..MaxDocs)

\* DocumentDbWrapper::ProcessingStatus; parsing alone never sets one.
Unprocessed == 0
Chunked == 2
Vectorized == 3

RowRecord == [doc : Doc, name : Name, status : {Unprocessed, Chunked, Vectorized},
              index : 0..MaxBuilds]
ChunkRecord == [build : Build, doc : Doc, text : Doc]

\* The project directory. A file is named by the document it was copied for.
\* An index file without its vector in the id map finds nothing.
EmptyDisk == [rows |-> {}, files |-> [n \in Name |-> NoDoc], chunks |-> {},
              index |-> [b \in Build |-> "absent"]]

-----------------------------------------------------------------------------
\* Documents.

IsDocument(disk, d) == \E r \in disk.rows : r.doc = d
RowOf(disk, d) == CHOOSE r \in disk.rows : r.doc = d

IsReadyForProcessing(disk, d) == RowOf(disk, d).status = Unprocessed

\* genBackupFileName, with documentNameCount.
BackupName(disk, x) ==
    <<x, Cardinality({r \in disk.rows : <<x, r.name[1]>> \in Matches})>>

\* Mutant: the copy overwrites.
CanBackupAnything(disk, n) == TRUE
\* QFile::copy does not overwrite.
CanBackup(disk, n) == disk.files[n] = NoDoc

BackupDocument(disk, d, n) == [disk EXCEPT !.files[n] = d]

InsertDocument(disk, d, n) ==
    [disk EXCEPT !.rows = @ \cup {[doc |-> d, name |-> n, status |-> Unprocessed,
                                   index |-> NoIndex]}]

\* getDocumentIdByPath: the first row of that name, in the order of insertion.
DocumentIdByPath(disk, n) ==
    LET named == {r.doc : r \in {s \in disk.rows : s.name = n}}
    IN  IF named = {} THEN NoDoc ELSE CHOOSE d \in named : \A e \in named : d <= e

Update(disk, d, status, index) ==
    [disk EXCEPT !.rows = {IF r.doc = d THEN [r EXCEPT !.status = status, !.index = index]
                           ELSE r : r \in @}]

\* insertChunks, a transaction, then the status of the document.
StoreDocumentChunks(disk, b, d, text) ==
    IF d = NoDoc THEN disk
    ELSE Update([disk EXCEPT !.chunks = @ \cup {[build |-> b, doc |-> d, text |-> text]}],
                d, Chunked, RowOf(disk, d).index)

UpdateIndexAndStatus(disk, d, index) == Update(disk, d, Vectorized, index)

ChunksOf(disk, d) == {c.build : c \in {k \in disk.chunks : k.doc = d}}

RemoveFile(disk, d) == [disk EXCEPT !.files[RowOf(disk, d).name] = NoDoc]
RemoveChunks(disk, d) == [disk EXCEPT !.chunks = {c \in @ : c.doc # d}]
RemoveRow(disk, d) == [disk EXCEPT !.rows = {r \in @ : r.doc # d}]

-----------------------------------------------------------------------------
\* Indexes and their cache. An entry made by a build is counted with the size
\* it had when it was created, which is nothing.

EmptyCache == [entry |-> [b \in Build |-> "none"], held |-> {}]

\* Mutant: an index counts from the moment it is filled.
CountedFilled(cache) == {b \in Build : cache.entry[b] # "none"}
Counted(cache) == {b \in Build : cache.entry[b] = "loaded"}

\* The build's index, empty and cached, and then its vectors in it.
CreateIndex(cache, b) == [cache EXCEPT !.entry[b] = "built"]
AddVectors(cache, b) == [cache EXCEPT !.held = @ \cup {b}]

\* write_index replaces the file, then the id map is written beside it.
WriteIndex(disk, b) == [disk EXCEPT !.index[b] = IF @ = "absent" THEN "unmapped" ELSE @]
WriteIdMap(disk, cache, b) ==
    [disk EXCEPT !.index[b] = IF b \in cache.held THEN "mapped" ELSE "unmapped"]

SaveIndexToFile(disk, cache, b) == WriteIdMap(WriteIndex(disk, b), cache, b)

Cached(cache, b) == cache.entry[b] # "none"
MustLoad(disk, cache, wanted) ==
    {b \in wanted : ~Cached(cache, b) /\ disk.index[b] # "absent"}

\* addIndex over the limit calls evictLeastRecentlyUsed, which takes m_mutex
\* again in getCurrentSize and never returns.
NeedsEviction(cache, loading) == Cardinality(loading \cup Counted(cache)) > CacheLimit
Deadlocks(disk, cache, wanted) ==
    LET loading == MustLoad(disk, cache, wanted)
    IN  loading # {} /\ NeedsEviction(cache, loading)

AddIndex(cache, loading) ==
    [cache EXCEPT !.entry = [b \in Build |-> IF b \in loading THEN "loaded" ELSE @[b]]]

\* The vectors whose id map came back with their index.
ReadMapped(disk, loading) == {b \in loading : disk.index[b] = "mapped"}
Load(disk, cache, wanted) ==
    LET loading == MustLoad(disk, cache, wanted)
    IN  [AddIndex(cache, loading) EXCEPT !.held = @ \cup ReadMapped(disk, loading)]

\* Mutant: only the chunks of the document go.
KeepVectors(cache, chunkIds) == cache
\* removeVectors: the vector stays in the index, only the id map forgets it.
RemoveVectors(cache, chunkIds) == [cache EXCEPT !.held = @ \ chunkIds]

AllIndexIds(disk) == {b \in Build : disk.index[b] # "absent"}

\* What an index returns: a vector the id map does not know is dropped.
SearchInIndex(cache, i) == {i} \cap cache.held

\* The chunks a search may return, read through the cache.
Found(disk, cache) ==
    UNION {SearchInIndex(Load(disk, cache, AllIndexIds(disk)), i) : i \in AllIndexIds(disk)}
=============================================================================
