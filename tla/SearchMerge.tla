---------------------------- MODULE SearchMerge ----------------------------
(***************************************************************************)
(* One search of the vector index: VectorIndex::vectorSearch collects the  *)
(* nearest chunks of the cache and of every index file, in two maps that   *)
(* are keyed by the distance, and Embedding::loadTextsFromSearch merges    *)
(* the two and looks the texts up. The worker may take rows away meanwhile *)
(* (EmbeddingIndex has the races of the ids; here each id has one chunk).  *)
(* What faiss finds is a choice: distances in ascending order, 0 for the   *)
(* text itself.                                                            *)
(***************************************************************************)
EXTENDS Naturals, Sequences, FiniteSets

CONSTANTS
    MaxTopK,       \* bound: results asked for
    MaxDistance,   \* bound: distances
    MaxFiles       \* bound: index files

\* The system assistant has one index file.
ASSUME SearchAssumption ==
    MaxTopK \in Nat /\ MaxDistance \in Nat /\ MaxFiles \in Nat \ {0}

\* A chunk by where it is found: index 0 is the cache, the others are files.
Chunk == (0..MaxFiles) \X (1..MaxTopK)
Distance == 0..MaxDistance
Hits(k) ==
    {h \in UNION {[1..n -> Distance] : n \in 0..k} :
        \A m, n \in DOMAIN h : m < n => h[m] <= h[n]}
Unreadable == [readable |-> FALSE, hits |-> <<>>]
File(k) == {Unreadable} \cup [readable : {TRUE}, hits : Hits(k)]

VARIABLES
    asking,        \* "no", the stage of the search, "answered"
    system,        \* whether the index is the system assistant's
    topK,
    cacheIndex,    \* what the index in memory finds
    files,         \* what each index file finds
    rows,          \* ids whose text is still kept
    cacheSearchRes, dumpSearchRes,
    file,          \* index files read
    cachePos, dumpPos,  \* i and j of the merge
    resultArray

search == <<asking, system, topK, cacheIndex, files, rows, cacheSearchRes, dumpSearchRes,
            file, cachePos, dumpPos, resultArray>>

EmptyMap == [d \in {} |-> 0]

SearchInit ==
    /\ asking = "no" /\ system = FALSE /\ topK = 0
    /\ cacheIndex = <<>> /\ files = <<>> /\ rows = {}
    /\ cacheSearchRes = EmptyMap /\ dumpSearchRes = EmptyMap
    /\ file = 0 /\ cachePos = 0 /\ dumpPos = 0 /\ resultArray = <<>>

\* The loop over the hits of one index ends at the first distance of zero,
\* which also stands for no hit at all; QMap::insert replaces what has the
\* same distance.
Taken(hits) == {n \in DOMAIN hits : \A m \in 1..n : hits[m] # 0}
Inserted(map, where, hits) ==
    LET taken == Taken(hits)
    IN  [d \in DOMAIN map \cup {hits[n] : n \in taken} |->
            IF \E n \in taken : hits[n] = d
            THEN <<where, CHOOSE n \in taken : hits[n] = d /\ \A m \in taken : hits[m] = d => m <= n>>
            ELSE map[d]]

\* vectorSearch of an application, up to the cache. The system assistant has
\* one packaged index, and may lack rows from the beginning.
SearchCache(k, hits, fs) ==
    /\ asking = "no"
    /\ asking' = "files" /\ system' = FALSE /\ topK' = k
    /\ cacheIndex' = hits /\ files' = fs /\ rows' = Chunk
    /\ cacheSearchRes' = Inserted(EmptyMap, 0, hits)
    /\ UNCHANGED <<dumpSearchRes, file, cachePos, dumpPos, resultArray>>

SearchSystem(k, f, kept) ==
    /\ asking = "no"
    /\ asking' = "files" /\ system' = TRUE /\ topK' = k
    /\ files' = <<f>> /\ rows' = kept
    /\ UNCHANGED <<cacheIndex, cacheSearchRes, dumpSearchRes, file, cachePos, dumpPos, resultArray>>

\* One turn of the loop over the files; one that cannot be read ends it.
SearchFile ==
    /\ asking = "files" /\ file < Len(files)
    /\ file' = file + 1
    /\ dumpSearchRes' = Inserted(dumpSearchRes, file + 1, files[file + 1].hits)
    /\ asking' = IF files[file + 1].readable THEN "files" ELSE "merge"
    /\ UNCHANGED <<system, topK, cacheIndex, files, rows, cacheSearchRes, cachePos, dumpPos, resultArray>>

EndSearch ==
    /\ asking = "files" /\ file = Len(files)
    /\ asking' = "merge"
    /\ UNCHANGED <<system, topK, cacheIndex, files, rows, cacheSearchRes, dumpSearchRes, file, cachePos,
                   dumpPos, resultArray>>

Size(map) == Cardinality(DOMAIN map)
\* The key at begin() + n.
KeyAt(map, n) == CHOOSE d \in DOMAIN map : Cardinality({e \in DOMAIN map : e < d}) = n

Entry(map, d) == [distance |-> d, id |-> map[d], text |-> map[d] \in rows]

Enough == ~system /\ Len(resultArray) >= topK
\* Mutant: a stored chunk comes first only if it is farther.
CachedIsFarther == KeyAt(cacheSearchRes, cachePos) >= KeyAt(dumpSearchRes, dumpPos)
CachedIsNearer == KeyAt(cacheSearchRes, cachePos) < KeyAt(dumpSearchRes, dumpPos)

\* The text of a cached chunk that is gone is empty.
TakeCached ==
    /\ asking = "merge" /\ ~Enough
    /\ cachePos < Size(cacheSearchRes)
    /\ dumpPos < Size(dumpSearchRes) => CachedIsNearer
    /\ resultArray' = Append(resultArray, Entry(cacheSearchRes, KeyAt(cacheSearchRes, cachePos)))
    /\ cachePos' = cachePos + 1
    /\ UNCHANGED <<asking, system, topK, cacheIndex, files, rows, cacheSearchRes, dumpSearchRes,
                   file, dumpPos>>

\* A stored chunk that is gone is passed over; in the system assistant's index
\* it is the end of the answer.
TakeStored ==
    /\ asking = "merge" /\ ~Enough
    /\ dumpPos < Size(dumpSearchRes)
    /\ cachePos < Size(cacheSearchRes) => ~CachedIsNearer
    /\ LET stored == Entry(dumpSearchRes, KeyAt(dumpSearchRes, dumpPos))
       IN  CASE stored.text -> /\ resultArray' = Append(resultArray, stored)
                               /\ UNCHANGED asking
             [] ~stored.text /\ system -> resultArray' = <<>> /\ asking' = "answered"
             [] OTHER -> UNCHANGED <<resultArray, asking>>
    /\ dumpPos' = dumpPos + 1
    /\ UNCHANGED <<system, topK, cacheIndex, files, rows, cacheSearchRes, dumpSearchRes, file, cachePos>>

EndMerge ==
    /\ asking = "merge"
    /\ Enough \/ (cachePos = Size(cacheSearchRes) /\ dumpPos = Size(dumpSearchRes))
    /\ asking' = "answered"
    /\ UNCHANGED <<system, topK, cacheIndex, files, rows, cacheSearchRes, dumpSearchRes, file, cachePos,
                   dumpPos, resultArray>>

\* Meanwhile the worker deletes a chunk of the application's index. Texts are
\* looked up by the merge only.
RemoveRow(id) ==
    /\ asking = "merge" /\ ~system
    /\ rows = Chunk \* bound: one row
    /\ rows' = rows \ {id}
    /\ UNCHANGED <<asking, system, topK, cacheIndex, files, cacheSearchRes, dumpSearchRes, file,
                   cachePos, dumpPos, resultArray>>

\* The hits of the indexes that were read, each index's own.
Readable == {n \in DOMAIN files : \A m \in 1..n : files[m].readable}
HitsOf(where) == IF where = 0 THEN cacheIndex ELSE files[where].hits
Found == {id \in Chunk : id[1] \in Readable \cup {0} /\ id[2] \in DOMAIN HitsOf(id[1])}
DistanceOf(id) == HitsOf(id[1])[id[2]]

SearchNext ==
    \/ \E k \in 1..MaxTopK : \E hits \in Hits(k), n \in 0..MaxFiles :
           \E fs \in [1..n -> File(k)] : SearchCache(k, hits, fs)
    \/ \E k \in 1..MaxTopK : \E f \in File(k), kept \in SUBSET ({1} \X (1..MaxTopK)) :
           SearchSystem(k, f, kept)
    \/ SearchFile \/ EndSearch \/ TakeCached \/ TakeStored \/ EndMerge
    \/ \E id \in Found : RemoveRow(id)

SearchSpec == SearchInit /\ [][SearchNext]_search

-----------------------------------------------------------------------------
\* A hit that is not told although it was found: its index found the text
\* itself as well, and the loop over its hits broke off there
\* (vectorindex.cpp:194); or another one has the same distance, and the map
\* keeps one of them.
Swallowed(id) ==
    \/ \E n \in DOMAIN HitsOf(id[1]) : HitsOf(id[1])[n] = 0
    \/ \E other \in Found \ {id} :
           DistanceOf(other) = DistanceOf(id) /\ (other[1] = 0 <=> id[1] = 0)

\* An answer is in ascending order and no longer than asked for; of what was
\* found and not swallowed it leaves out only what is no nearer than all of a
\* full answer, or whose row is gone - one missing row of the system
\* assistant's takes the whole answer with it.
ResultsAreNearest ==
    asking = "answered" =>
        /\ Len(resultArray) <= topK
        /\ \A m, n \in DOMAIN resultArray :
              m < n => resultArray[m].distance <= resultArray[n].distance
                       /\ resultArray[m].id # resultArray[n].id
        /\ \A id \in Found :
              \/ \E n \in DOMAIN resultArray : resultArray[n].id = id
              \/ Swallowed(id) \/ id \notin rows
              \/ /\ Len(resultArray) = topK
                 /\ \A n \in DOMAIN resultArray : resultArray[n].distance <= DistanceOf(id)
              \/ system /\ resultArray = <<>> /\ \E other \in Found : other \notin rows
        /\ \A n \in DOMAIN resultArray : resultArray[n].id \in Found
=============================================================================
