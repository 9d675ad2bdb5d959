-------------------------- MODULE MCStagedWorkflow --------------------------
(***************************************************************************)
(* Staged workflows with pools of one thread, so that a task started again *)
(* by resume waits; and, apart from them, the chunking a parser task does  *)
(* of one text, and one search of the embedding index. Each is explored    *)
(* while the others have nothing to do.                                    *)
(***************************************************************************)
EXTENDS StagedWorkflow, TextChunking, SearchMerge

SmallPools == [s \in Stage |-> 1]

SmallTexts == UNION {[1..n -> Kind] : n \in 0..5}
\* The first is refused; in the third a stretched window is shorter than the
\* overlap, and in the last no chunk but one of the largest size is long enough.
SmallConfigs ==
    [maxSize : {4}, overlap : {4}, minChunkSize : {1},
     preserveWords : {TRUE}, preserveSentences : {FALSE}]
    \cup [maxSize : {4}, overlap : {1, 2}, minChunkSize : {1, 2},
           preserveWords : BOOLEAN, preserveSentences : {FALSE}]
    \cup [maxSize : {4}, overlap : {3}, minChunkSize : {2},
           preserveWords : {TRUE}, preserveSentences : BOOLEAN]
    \cup [maxSize : {4}, overlap : {1}, minChunkSize : {4},
           preserveWords : {TRUE}, preserveSentences : {FALSE}]
SmallPieces == UNION {[1..n -> 1..4] : n \in 0..4}

NoWorkflow == active = {} /\ \A w \in Workflow : flow[w].status = "None"
NoText == strategy = "none" /\ config = CHOOSE c \in SmallConfigs : TRUE

NoSearch == asking = "no"

MCInit == Init /\ ChunkInit /\ SearchInit
MCNext ==
    \/ NoText /\ NoSearch /\ Next /\ UNCHANGED <<chunking, search>>
    \/ NoWorkflow /\ NoSearch /\ ChunkNext /\ UNCHANGED <<vars, search>>
    \/ NoWorkflow /\ NoText /\ SearchNext /\ UNCHANGED <<vars, chunking>>
MCSpec == MCInit /\ [][MCNext]_<<vars, chunking, search>> /\ Fairness
=============================================================================
