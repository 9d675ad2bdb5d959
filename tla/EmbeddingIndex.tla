--------------------------- MODULE EmbeddingIndex ---------------------------
(***************************************************************************)
(* The vector index of one application (uos-ai-assistant): EmbeddingWorker *)
(* with its Embedding and VectorIndex, on the worker's own thread.         *)
(*                                                                         *)
(* A document's text chunks and their vectors are kept under one id in     *)
(* four places: the caches embedDataCache and embedVectorCache, the faiss  *)
(* index cacheIndex, and, once dumped, the tables of the database and the  *)
(* index files. Nothing but the arithmetic of the ids relates them.        *)
(*                                                                         *)
(* embeddingApi waits for the model server in an event loop of its own, so *)
(* while one document is being embedded the thread takes further events:   *)
(* frames is the stack of doCreateIndex calls under way, of which only the *)
(* last makes progress. Search runs on the D-Bus thread (vecWorker) beside *)
(* it. Requests come as the clients like, so the queue of posted events is *)
(* the choice of the next one. segmentIds is left out: it is always the    *)
(* list of cacheIndex's ids. A vector is identified with the chunk it was  *)
(* computed from.                                                          *)
(***************************************************************************)
EXTENDS Integers, Sequences, FiniteSets, SequencesExt, FiniteSetsExt, Functions

CONSTANTS
    Doc,            \* documents, by the path of the saved copy
    ChunksOf,       \* number of text chunks of a document
    Batches,        \* the lists of documents clients pass to Create
    DumpThreshold,  \* cacheIndex->ntotal that triggers a dump, 100 in the code
    MaxId,          \* bound: ids given out
    MaxCreates,     \* bound: documents passed to doCreateIndex
    MaxSearches,    \* bound: searches that may race with the worker
    Faults,         \* optional events, see Optional
    Blank,          \* the empty pair QMap::operator[] inserts
    Junk,           \* a vector read beyond the end of the array
    None            \* no search is between its two steps

ASSUME IndexAssumption ==
    /\ IsFiniteSet(Doc)
    /\ ChunksOf \in [Doc -> Nat \ {0}]
    /\ Batches \subseteq Seq(Doc)
    /\ DumpThreshold \in Nat \ {0}
    /\ MaxId \in Nat /\ MaxCreates \in Nat /\ MaxSearches \in Nat
    /\ Faults \subseteq {"fail", "io", "restart", "search", "delete"}
    /\ Blank \notin Doc \X Nat

VARIABLES
    frames,    \* doCreateIndex calls under way, each inside the one before it
    abort,     \* abortFiles
    texts,     \* embedDataCache: id -> chunk
    vectors,   \* embedVectorCache: id -> vector
    index,     \* cacheIndex: its ids and their vectors, in order
    range,     \* dumpIndexIDRange
    status,    \* embedding_status
    meta,      \* embedding_metadata: id -> chunk
    seg,       \* index_segment: id -> deleteBit
    disk,      \* the entries of the index files
    dump,      \* how far doIndexDump has got
    hit,       \* an id the D-Bus thread found in cacheIndex, not yet looked up
    searches,  \* searches made so far
    creates,   \* documents passed to doCreateIndex so far
    damaged    \* observed: an event the ids do not survive has happened

cacheVars == <<texts, vectors>>
tableVars == <<status, meta, seg, disk>>
countVars == <<hit, searches, creates>>
vars == <<frames, abort, texts, vectors, index, range, status, meta, seg,
          disk, dump, hit, searches, creates, damaged>>

Id == 0..MaxId
Chunk == {<<d, k>> : d \in Doc, k \in 1..MaxId}
Status == {"absent", "start", "success", "contentError", "embeddingError"}
Entry == [id : Id, vec : Chunk \cup {Junk}]
EmptyRange == <<0, -1>>
Nothing == [i \in {} |-> Blank]     \* an empty map

Init ==
    /\ frames = <<>>
    /\ abort = {}
    /\ texts = Nothing
    /\ vectors = Nothing
    /\ index = <<>>
    /\ range = EmptyRange
    /\ status = [d \in Doc |-> "absent"]
    /\ meta = Nothing
    /\ seg = Nothing
    /\ disk = {}
    /\ dump = "no"
    /\ hit = None
    /\ searches = 0
    /\ creates = 0
    /\ damaged = FALSE

-----------------------------------------------------------------------------
(* What the code computes from its maps                                    *)

Without(map, ids) == Restrict(map, DOMAIN map \ ids)
IdsOf(map, d) == {i \in DOMAIN map : map[i] \in Chunk /\ map[i][1] = d}
Ascending(ids) ==
    [k \in 1..Cardinality(ids) |-> CHOOSE i \in ids : Cardinality({j \in ids : j < i}) = k - 1]
IndexIds == {index[i].id : i \in DOMAIN index}

\* getDBLastID: one above the highest id of index_segment.
LastId == IF seg = Nothing THEN 0 ELSE Max(DOMAIN seg) + 1

\* The first id of a document's chunks.
NextIdCached == Cardinality(DOMAIN texts)                        \* mutant
NextId == Cardinality(DOMAIN texts) + LastId

\* isDupDocument, and the search for the document in the cache.
Known(d) == IdsOf(meta, d) # {} \/ IdsOf(texts, d) # {}

\* The entries updateIndex adds: all ids from ntotal + firstKey up to the last
\* one cached, and the cached vectors one after the other, which fall short
\* of the ids if one of them is missing from the cache.
NewEntries ==
    LET first == Len(index) + Min(DOMAIN vectors)
        ids == Ascending(first..Max(DOMAIN vectors))
        vecs == Ascending({i \in DOMAIN vectors : i >= first})
    IN  [i \in DOMAIN ids |->
            [id |-> ids[i], vec |-> IF i <= Len(vecs) THEN vectors[vecs[i]] ELSE Junk]]

\* resetCacheIndex: the index holds exactly what is cached.
Rebuilt(map) ==
    LET ids == Ascending(DOMAIN map)
    IN  [i \in DOMAIN ids |-> [id |-> ids[i], vec |-> map[ids[i]]]]

\* id_map.front() and back().
RangeOf(entries) == <<Head(entries).id, Last(entries).id>>

-----------------------------------------------------------------------------
(* doCreateIndex                                                           *)

Top == Last(frames)
Doing == Head(Top.todo)
WithTop(frame) == Append(Front(frames), frame)

\* Between two events: the thread is in its own event loop or in the one of
\* embeddingApi.
Ready == dump = "no" /\ (frames # <<>> => Top.waiting)
Working == dump = "no" /\ frames # <<>> /\ ~Top.waiting

InProgress == UNION {Range(frames[i].todo) : i \in DOMAIN frames}

\* The frame when the document at its head is done with.
Done(ok) == [todo |-> Tail(Top.todo), ok |-> Top.ok /\ ok, waiting |-> FALSE]

\* A client asks for documents none of which is being worked on.
CreateIndex(docs) ==
    /\ Ready
    /\ creates + Len(docs) <= MaxCreates
    /\ creates' = creates + Len(docs)
    /\ Range(docs) \cap InProgress = {}
    /\ frames' = Append(frames, [todo |-> docs, ok |-> TRUE, waiting |-> FALSE])
    /\ UNCHANGED <<abort, index, range, dump, damaged>>
    /\ UNCHANGED <<hit, searches>>
    /\ UNCHANGED cacheVars /\ UNCHANGED tableVars

\* The document is in the table or in the cache already.
RejectKnown ==
    /\ Working
    /\ Top.todo # <<>>
    /\ Known(Doing)
    /\ frames' = WithTop(Done(FALSE))
    /\ UNCHANGED <<abort, index, range, dump, damaged>> /\ UNCHANGED countVars
    /\ UNCHANGED cacheVars /\ UNCHANGED tableVars

\* The file is gone, of a kind no parser reads, or empty.
RejectContent ==
    /\ Working
    /\ Top.todo # <<>>
    /\ ~Known(Doing)
    /\ status' = [status EXCEPT ![Doing] = "contentError"]
    /\ frames' = WithTop(Done(FALSE))
    /\ UNCHANGED <<abort, index, range, meta, seg, disk, dump, damaged>> /\ UNCHANGED countVars
    /\ UNCHANGED cacheVars

StartEmbedding ==
    /\ Working
    /\ Top.todo # <<>>
    /\ ~Known(Doing)
    /\ NextId + ChunksOf[Doing] <= MaxId
    /\ status' = [status EXCEPT ![Doing] = "start"]
    /\ frames' = WithTop([Top EXCEPT !.waiting = TRUE])
    /\ UNCHANGED <<abort, index, range, meta, seg, disk, dump, damaged>> /\ UNCHANGED countVars
    /\ UNCHANGED cacheVars

\* The model server's answer to the last call made is there.
Answered == dump = "no" /\ frames # <<>> /\ Top.waiting

Forget(d) == abort \ {d}

\* The document was deleted meanwhile.
EmbedAborted ==
    /\ Answered
    /\ Doing \in abort
    /\ abort' = Forget(Doing)
    /\ frames' = WithTop(Done(FALSE))
    /\ UNCHANGED <<index, range, dump, damaged>> /\ UNCHANGED countVars
    /\ UNCHANGED cacheVars /\ UNCHANGED tableVars

EmbedFails ==
    /\ Answered
    /\ Doing \notin abort
    /\ status' = [status EXCEPT ![Doing] = "embeddingError"]
    /\ frames' = WithTop(Done(FALSE))
    /\ UNCHANGED <<abort, index, range, meta, seg, disk, dump, damaged>> /\ UNCHANGED countVars
    /\ UNCHANGED cacheVars

\* All vectors have come: chunks and vectors are cached under the next ids,
\* replacing what is there.
EmbedSucceeds ==
    LET ids == NextId..(NextId + ChunksOf[Doing] - 1)
        chunks == [i \in ids |-> <<Doing, i - NextId + 1>>]
        cached(map) == [i \in DOMAIN map \cup ids |-> IF i \in ids THEN chunks[i] ELSE map[i]]
    IN  /\ Answered
        /\ Doing \notin abort
        /\ NextId + ChunksOf[Doing] <= MaxId
        /\ texts' = cached(texts)
        /\ vectors' = cached(vectors)
        /\ status' = [status EXCEPT ![Doing] = "success"]
        /\ frames' = WithTop(Done(TRUE))
        /\ damaged' = (damaged \/ ids \cap DOMAIN texts # {})
        /\ UNCHANGED <<abort, index, range, meta, seg, disk, dump>> /\ UNCHANGED countVars

\* All documents of the call went well: the new vectors join the index, which
\* is dumped at once when it is large.
UpdateIndex ==
    /\ Working
    /\ Top.todo = <<>>
    /\ Top.ok /\ vectors # Nothing
    /\ index' = index \o NewEntries
    /\ range' = RangeOf(index')
    /\ frames' = Front(frames)
    /\ dump' = IF Len(index') >= DumpThreshold THEN "due" ELSE "no"
    /\ UNCHANGED <<abort, damaged>> /\ UNCHANGED countVars
    /\ UNCHANGED cacheVars /\ UNCHANGED tableVars

\* One of them failed: everything cached is dropped, but not the index.
EmbeddingClear ==
    /\ Working
    /\ Top.todo = <<>>
    /\ ~(Top.ok /\ vectors # Nothing)
    /\ texts' = Nothing
    /\ vectors' = Nothing
    /\ frames' = Front(frames)
    /\ damaged' = (damaged \/ texts # Nothing)
    /\ UNCHANGED <<abort, index, range, dump>> /\ UNCHANGED countVars
    /\ UNCHANGED tableVars

-----------------------------------------------------------------------------
(* doIndexDump: the dump timer, saveAllIndex, or a large index             *)

\* The cached texts of the range are taken out and inserted in one
\* transaction, which an id already in the table makes fail.
DumpTexts ==
    LET ids == {i \in DOMAIN texts : range[1] <= i /\ i <= range[2]}
        conflict == ids \cap DOMAIN meta # {}
    IN  /\ dump = "due" \/ (Ready /\ range[1] <= range[2])
        /\ texts' = Without(texts, ids)
        /\ vectors' = Without(vectors, ids)
        /\ \E stored \in BOOLEAN :
              /\ stored => ids # {} /\ ~conflict
              /\ ~stored => ids = {} \/ conflict \/ "io" \in Faults
              /\ meta' = IF stored THEN [i \in DOMAIN meta \cup ids |->
                                           IF i \in ids THEN texts[i] ELSE meta[i]]
                                   ELSE meta
              /\ dump' = IF stored THEN "index" ELSE "no"
              /\ damaged' = (damaged \/ (ids # {} /\ ~stored))
        /\ UNCHANGED <<frames, abort, index, range, status, seg, disk>> /\ UNCHANGED countVars

\* saveIndexToFile, first half: a row per id. The result is ignored.
DumpSegment ==
    LET conflict == IndexIds \cap DOMAIN seg # {} \/ Cardinality(IndexIds) < Len(index)
    IN  /\ dump = "index"
        /\ IF index = <<>>
           THEN /\ range' = EmptyRange
                /\ dump' = "no"
                /\ UNCHANGED <<seg, damaged>>
           ELSE /\ \E stored \in BOOLEAN :
                      /\ stored => ~conflict
                      /\ ~stored => conflict \/ "io" \in Faults
                      /\ seg' = IF stored THEN [i \in DOMAIN seg \cup IndexIds |->
                                                  IF i \in IndexIds THEN FALSE ELSE seg[i]]
                                          ELSE seg
                      /\ damaged' = (damaged \/ ~stored)
                /\ dump' = "file"
                /\ UNCHANGED range
        /\ UNCHANGED <<frames, abort, index, status, meta, disk>> /\ UNCHANGED countVars
        /\ UNCHANGED cacheVars

\* Second half: the next index file is written, or fails to be; the index is
\* emptied either way.
DumpFile ==
    /\ dump = "file"
    /\ \E written \in BOOLEAN :
          /\ ~written => "io" \in Faults
          /\ disk' = IF written THEN disk \cup Range(index) ELSE disk
          /\ damaged' = (damaged \/ ~written)
    /\ index' = <<>>
    /\ range' = EmptyRange
    /\ dump' = "no"
    /\ UNCHANGED <<frames, abort, status, meta, seg>> /\ UNCHANGED countVars
    /\ UNCHANGED cacheVars

-----------------------------------------------------------------------------
(* doDeleteIndex, one document                                             *)

\* The ids of a document whose cached texts and vectors go.
CachedIdsKept(d) == {}                                           \* mutant
CachedIds(d) == IdsOf(texts, d)

\* deleteSuccessIndex, the cache: the document's entries go and the index is
\* made anew from what is left, which may be large enough for a dump: a new
\* vector is cached before the call it is part of has ended. front() and back()
\* of an empty id_map are undefined: the range may come out empty or not.
DeleteCached(d) ==
    LET ids == CachedIds(d)
        left == Without(vectors, ids)
        kept == DOMAIN texts \ ids
    IN  IF vectors = Nothing
        THEN UNCHANGED <<texts, vectors, index, range, dump, damaged>>
        ELSE /\ texts' = Without(texts, ids)
             /\ vectors' = left
             /\ index' = Rebuilt(left)
             /\ dump' = IF Len(index') >= DumpThreshold THEN "due" ELSE "no"
             /\ IF left = Nothing THEN range' \in {EmptyRange, <<0, MaxId>>}
                                  ELSE range' = RangeOf(index')
             /\ damaged' = (damaged \/ left = Nothing
                              \/ kept # LastId..(LastId + Cardinality(kept) - 1))

\* deleteSuccessIndex, the tables: the rows go, the bits of their ids are set.
\* A dump due to the new index comes before it in the code; it is about other
\* documents' rows.
Marked(ids) == [i \in DOMAIN seg |-> seg[i] \/ i \in ids]

DeleteStored(d) ==
    LET ids == IdsOf(meta, d)
    IN  /\ meta' = Without(meta, ids)
        /\ seg' = Marked(ids)

DeleteIndex(d) ==
    /\ Ready
    /\ status[d] # "absent"
    /\ status' = [status EXCEPT ![d] = "absent"]
    /\ abort' = IF status[d] = "start" THEN abort \cup {d} ELSE abort
    /\ IF status[d] = "success"
       THEN DeleteCached(d) /\ DeleteStored(d)
       ELSE UNCHANGED <<texts, vectors, index, range, meta, seg, dump, damaged>>
    /\ UNCHANGED <<frames, disk>> /\ UNCHANGED countVars

-----------------------------------------------------------------------------
(* The D-Bus thread, and the process                                       *)

\* vectorSearch: one of the ids the index returns. vectorIndexMtx keeps it out
\* of saveIndexToFile.
SearchIndex ==
    /\ hit = None
    /\ searches < MaxSearches
    /\ dump # "file"
    /\ hit' \in IndexIds
    /\ searches' = searches + 1
    /\ UNCHANGED <<frames, abort, index, range, dump, creates, damaged>>
    /\ UNCHANGED cacheVars /\ UNCHANGED tableVars

\* loadTextsFromSearch, getDataCacheFromID: looking up an id that is no longer
\* cached inserts an empty text under it.
LoadText ==
    /\ hit # None
    /\ texts' = IF hit \in DOMAIN texts THEN texts
                ELSE [i \in DOMAIN texts \cup {hit} |-> IF i = hit THEN Blank ELSE texts[i]]
    /\ damaged' = (damaged \/ hit \notin DOMAIN texts)
    /\ hit' = None
    /\ UNCHANGED <<frames, abort, vectors, index, range, dump, searches, creates>>
    /\ UNCHANGED tableVars

\* initDataStatus: what was in progress failed, what was only cached is
\* forgotten, what is stored is a success.
InitialStatus(d) ==
    CASE IdsOf(meta, d) # {} /\ status[d] = "absent" -> "success"
      [] IdsOf(meta, d) = {} /\ status[d] = "success" -> "absent"
      [] status[d] = "start" -> "embeddingError"
      [] OTHER -> status[d]

\* The process ends, at any point, and starts again: the database and the
\* files are what is left.
Restart ==
    /\ frames' = <<>>
    /\ abort' = {}
    /\ texts' = Nothing
    /\ vectors' = Nothing
    /\ index' = <<>>
    /\ range' = EmptyRange
    /\ status' = [d \in Doc |-> InitialStatus(d)]
    /\ dump' = "no"
    /\ hit' = None
    /\ damaged' = (damaged \/ dump \in {"index", "file"})
    /\ UNCHANGED <<meta, seg, disk, searches, creates>>

-----------------------------------------------------------------------------
Worker ==
    \/ RejectKnown \/ StartEmbedding \/ EmbedAborted \/ EmbedSucceeds
    \/ UpdateIndex \/ EmbeddingClear
    \/ DumpTexts \/ DumpSegment \/ DumpFile

Optional ==
    \/ "fail" \in Faults /\ (RejectContent \/ EmbedFails)
    \/ "delete" \in Faults /\ \E d \in Doc : DeleteIndex(d)
    \/ "search" \in Faults /\ (SearchIndex \/ LoadText)
    \/ "restart" \in Faults /\ Restart

Next == (\E docs \in Batches : CreateIndex(docs)) \/ Worker \/ Optional

Spec == Init /\ [][Next]_vars

-----------------------------------------------------------------------------
(* Properties                                                              *)

\* Every variable has its type.
IndexTypeOK ==
    /\ frames \in Seq([todo : Seq(Doc), ok : BOOLEAN, waiting : BOOLEAN])
    /\ abort \subseteq Doc
    /\ DOMAIN texts \subseteq Id /\ Range(texts) \subseteq Chunk \cup {Blank}
    /\ DOMAIN vectors \subseteq Id /\ Range(vectors) \subseteq Chunk
    /\ index \in Seq(Entry)
    /\ range \in Id \X (Id \cup {-1})
    /\ status \in [Doc -> Status]
    /\ DOMAIN meta \subseteq Id /\ Range(meta) \subseteq Chunk \cup {Blank}
    /\ DOMAIN seg \subseteq Id /\ Range(seg) \subseteq BOOLEAN
    /\ disk \subseteq Entry
    /\ dump \in {"no", "due", "index", "file"}
    /\ hit \in Id \cup {None}
    /\ searches \in 0..MaxSearches
    /\ creates \in 0..MaxCreates
    /\ damaged \in BOOLEAN

\* The ids agree: those of the table and of the files are 0, 1, 2 and so on
\* (the delete bits are read by position), those cached follow, the index
\* holds the first of them, and every entry carries the vector of the text
\* that is found under its id, over nested creations, dumps between the
\* documents of one call, deletions of stored documents and restarts.
IdsAgree ==
    ~damaged /\ dump = "no" =>
       /\ DOMAIN seg = 0..(LastId - 1)
       /\ texts = vectors
       /\ DOMAIN texts = LastId..(NextId - 1)
       /\ \A i \in DOMAIN index : index[i] = [id |-> LastId + i - 1, vec |-> texts[LastId + i - 1]]
       /\ DOMAIN seg = {e.id : e \in disk}
       /\ \A e \in disk : seg[e.id] \/ (e.id \in DOMAIN meta /\ meta[e.id] = e.vec)

\* A search of the files looks at an id only when the bit at that position
\* among the rows is clear.
Selected(i) ==
    LET rows == Ascending(DOMAIN seg)
    IN  i < Len(rows) /\ ~seg[rows[i + 1]]

\* A search can find the chunk and shows its text.
Findable(c) ==
    \/ \E i \in DOMAIN index : index[i].vec = c /\ texts[index[i].id] = c
    \/ \E e \in disk : e.vec = c /\ Selected(e.id) /\ e.id \in DOMAIN meta /\ meta[e.id] = c

ChunksIn(d) == {<<d, k>> : k \in 1..ChunksOf[d]}

\* When no call is under way, every chunk of a document reported as a success
\* is found by a search, wherever it is kept and whatever was deleted beside
\* it.
SuccessIsFindable ==
    ~damaged /\ dump = "no" /\ frames = <<>> =>
       \A d \in Doc : status[d] = "success" => \A c \in ChunksIn(d) : Findable(c)

\* Text is only kept of documents that are listed as a success, so that the
\* client can delete it: neither an abort, a failure, a restart nor a deletion
\* beside other documents leaves text behind that no list shows.
KeptTextIsListed ==
    \A d \in Doc : IdsOf(texts, d) \cup IdsOf(meta, d) # {} => status[d] = "success"

\* A document said to be in progress is, and a request to abort one is never
\* left over for the next time the document is created.
ProgressIsReal ==
    /\ \A d \in Doc : status[d] = "start" => d \in InProgress
    /\ \A d \in abort : \E i \in DOMAIN frames :
          frames[i].waiting /\ Head(frames[i].todo) = d

\* No chunk is kept twice, in the cache, in the table, or in both.
NoDuplicates ==
    \A c \in Chunk :
       Cardinality({i \in DOMAIN texts : texts[i] = c})
          + Cardinality({i \in DOMAIN meta : meta[i] = c}) <= 1

\* What is stored is what the list shows: a success is found whole and once, and
\* nothing is kept or in progress that the list does not say.
StoredIsListed == SuccessIsFindable /\ KeptTextIsListed /\ ProgressIsReal /\ NoDuplicates

\* The ids of cache, index, files and table agree, and every variable has its
\* type.
IdsAndTypesAgree == IndexTypeOK /\ IdsAgree
=============================================================================
