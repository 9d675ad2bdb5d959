---------------------------- MODULE TextChunking ----------------------------
(***************************************************************************)
(* TextChunker: how the text of a document is cut into the chunks that are *)
(* embedded. A text is a sequence of kinds of characters, and a position   *)
(* counts from zero, as in the code. DataParserTask asks for chunks of a   *)
(* fixed size; the other strategies belong to the class alone. The index   *)
(* of uos-ai-assistant splits its texts itself, at punctuation.            *)
(***************************************************************************)
EXTENDS Naturals, Integers, Sequences, FiniteSets

CONSTANTS
    Text,          \* the texts, sequences over Kind
    Config,        \* the configurations
    Pieces         \* sentences or paragraphs of a text: sequences of lengths

Kind == {"letter", "digit", "space", "stop"}

ASSUME ChunkingAssumption ==
    /\ Text \subseteq Seq(Kind)
    /\ Config \subseteq [maxSize : Int, overlap : Int, minChunkSize : Int,
                         preserveWords : BOOLEAN, preserveSentences : BOOLEAN]
    /\ Pieces \subseteq Seq(Nat)

VARIABLES
    strategy,      \* "none" before a text is given
    text, config,
    startPos,
    windows,       \* what was cut, blank or not
    pieces,        \* sentences or paragraphs still to be packed
    current,       \* those of currentChunk
    groups,        \* those of each chunk
    given          \* observed: the sentences or paragraphs of the text

chunking == <<strategy, text, config, startPos, windows, pieces, current, groups, given>>

ChunkInit ==
    /\ strategy = "none" /\ text = <<>> /\ startPos = 0 /\ windows = {}
    /\ config \in Config
    /\ pieces = <<>> /\ current = <<>> /\ groups = <<>> /\ given = <<>>

Length == Len(text)
Smaller(a, b) == IF a < b THEN a ELSE b
Larger(a, b) == IF a > b THEN a ELSE b

LargestSize == 100000
ValidateConfig ==
    /\ config.maxSize > 0 /\ config.maxSize <= LargestSize
    /\ config.overlap >= 0 /\ config.overlap < config.maxSize
    /\ config.minChunkSize > 0 /\ config.minChunkSize <= config.maxSize

\* shouldBreakAtPosition: words are not cut, and where sentences are kept only
\* their ends are breaks.
ShouldBreakAt(pos) ==
    LET ch == text[pos + 1]
    IN  /\ ~(config.preserveWords /\ ch = "letter")
        /\ ~(config.preserveSentences /\ ch # "stop")
        /\ ch \in {"space", "stop"}

\* findBreakPosition: behind the last break of the window, or at its end.
Breaks(from, to) == {pos \in from + 1..to - 1 : ShouldBreakAt(pos)}
IsBreakPosition(from, to, e) ==
    IF Breaks(from, to) = {} THEN e = to
    ELSE e - 1 \in Breaks(from, to) /\ \A pos \in Breaks(from, to) : pos < e

WindowEnd(from) == Smaller(from + config.maxSize, Length)
\* Too short a chunk is made longer, in the middle of a word if need be.
StretchedEnd(from, e) ==
    IF e - from < config.minChunkSize /\ e < Length
    THEN Smaller(from + config.minChunkSize, Length) ELSE e

\* Mutant: a window no longer than the overlap begins again where it began.
SameStart(from, e) == Larger(from, e - config.overlap)
\* The overlap with the window before; behind a window no longer than that,
\* as far on as if it had been a whole one.
NextStart(from, e) ==
    IF e - config.overlap > from THEN e - config.overlap
    ELSE from + Larger(1, config.maxSize - config.overlap)

Window(from, e) == [from |-> from, to |-> e]

\* chunkText with a fixed size or a sliding window.
ChunkText(s, t) ==
    /\ strategy' = s /\ text' = t
    /\ UNCHANGED <<config, startPos, windows, pieces, current, groups, given>>

CutWindow(from, e, next) ==
    /\ windows' = windows \cup {Window(from, e)}
    /\ startPos' = next
    /\ UNCHANGED <<strategy, text, config, pieces, current, groups, given>>

\* One turn of the loop of chunkByFixedSize.
CutFixed ==
    /\ strategy = "fixed" /\ startPos < Length
    /\ \E b \in startPos..WindowEnd(startPos) :
          /\ IF WindowEnd(startPos) < Length
             THEN IsBreakPosition(startPos, WindowEnd(startPos), b)
             ELSE b = WindowEnd(startPos)
          /\ LET e == StretchedEnd(startPos, b)
             IN  CutWindow(startPos, e, NextStart(startPos, e))

\* One turn of the loop of chunkBySliding.
CutSliding ==
    /\ strategy = "sliding" /\ startPos < Length
    /\ \E b \in startPos..WindowEnd(startPos) :
          /\ IF WindowEnd(startPos) < Length
             THEN IsBreakPosition(startPos, WindowEnd(startPos), b)
             ELSE b = WindowEnd(startPos)
          /\ CutWindow(startPos, b, startPos + config.maxSize - config.overlap)

-----------------------------------------------------------------------------
\* chunkBySentence and chunkByParagraph pack pieces into chunks, with a
\* separator between two of them.

Total(f) ==
    LET sum[n \in 0..Len(f)] == IF n = 0 THEN 0 ELSE sum[n - 1] + f[n]
    IN  sum[Len(f)]
Joined(f) == Total(f) + (IF f = <<>> THEN 0 ELSE Len(f) - 1)

ChunkPieces(p) ==
    /\ p # <<>>
    /\ strategy' = "pieces" /\ pieces' = p /\ given' = p
    /\ UNCHANGED <<text, config, startPos, windows, current, groups>>

\* Mutant: the piece that no longer fits is left out.
DropPiece(p) == <<>>
KeepPiece(p) == <<p>>

PackPiece ==
    /\ strategy = "pieces" /\ pieces # <<>>
    /\ pieces' = Tail(pieces)
    /\ IF Joined(Append(current, Head(pieces))) > config.maxSize /\ current # <<>>
       THEN groups' = Append(groups, current) /\ current' = KeepPiece(Head(pieces))
       ELSE current' = Append(current, Head(pieces)) /\ UNCHANGED groups
    /\ UNCHANGED <<strategy, text, config, startPos, windows, given>>

PackRest ==
    /\ strategy = "pieces" /\ pieces = <<>> /\ current # <<>>
    /\ groups' = Append(groups, current) /\ current' = <<>>
    /\ UNCHANGED <<strategy, text, config, startPos, windows, pieces, given>>

-----------------------------------------------------------------------------
\* Embedding::textsSpliter joins what lies between two punctuation marks until
\* it is long enough. Only lengths count: "current" is what is carried over,
\* and the order of the characters never changes.

SplitTexts(p) ==
    /\ strategy' = "split" /\ pieces' = p /\ given' = p
    /\ UNCHANGED <<text, config, startPos, windows, current, groups>>

\* textsSplitSize cuts a long text into chunks of the largest size and a rest.
\* A text of exactly that size is carried over like a short one.
SplitSize(n) == [i \in 1..n \div config.maxSize |-> <<config.maxSize>>]

SplitPiece ==
    LET length == Total(current) + Head(pieces)
    IN  /\ strategy = "split" /\ pieces # <<>>
        /\ pieces' = Tail(pieces)
        /\ CASE length > config.maxSize ->
                   groups' = groups \o SplitSize(length) /\ current' = <<length % config.maxSize>>
             [] length \in config.minChunkSize + 1..config.maxSize - 1 ->
                   groups' = Append(groups, <<length>>) /\ current' = <<>>
             [] OTHER -> current' = <<length>> /\ UNCHANGED groups
        /\ UNCHANGED <<strategy, text, config, startPos, windows, given>>

\* What is left over is a chunk if it is long enough or the only one, or else
\* the end of the last one.
SplitRest ==
    LET over == Total(current)
    IN  /\ strategy = "split" /\ pieces = <<>>
        /\ strategy' = "over"
        /\ groups' = IF over > config.minChunkSize \/ groups = <<>>
                     THEN Append(groups, <<over>>)
                     ELSE [groups EXCEPT ![Len(groups)] = Append(@, over)]
        /\ current' = <<>>
        /\ UNCHANGED <<text, config, startPos, windows, pieces, given>>

ChunkNext ==
    \/ /\ strategy = "none" /\ ValidateConfig
       /\ \/ \E t \in Text, s \in {"fixed", "sliding"} : ChunkText(s, t)
          \/ \E p \in Pieces : ChunkPieces(p) \/ SplitTexts(p)
    \/ CutFixed \/ CutSliding \/ PackPiece \/ PackRest \/ SplitPiece \/ SplitRest

ChunkSpec == ChunkInit /\ [][ChunkNext]_chunking

-----------------------------------------------------------------------------

\* The windows lie in the text, none is empty, and none is longer than the
\* largest size, stretched or not.
ChunkTypeOK ==
    /\ strategy \in {"none", "fixed", "sliding", "pieces", "split", "over"}
    /\ text \in Seq(Kind)
    /\ startPos \in Nat
    /\ \A w \in windows :
          /\ w.from \in Nat /\ w.to \in Nat
          /\ w.from < w.to /\ w.to <= Length /\ w.to <= w.from + config.maxSize

\* Every turn of the loop begins further on than the one before: chunking ends,
\* also where an early break makes a window shorter than the overlap.
EveryTurnAdvances == [][windows' # windows => startPos' > startPos]_chunking

\* The next window begins beyond the end of this one.
Skips(w) ==
    IF strategy = "fixed" THEN w.to - config.overlap <= w.from
    ELSE w.to < w.from + config.maxSize - config.overlap

\* Of the text behind it a character is left out only if it follows a window
\* that was cut at a break no further on than the overlap (or, sliding, short
\* of the step): a long run without a break that follows an early one is lost,
\* and nothing else is.
LostBehindEarlyBreak ==
    \A p \in 0..Smaller(startPos, Length) - 1 :
       \/ \E w \in windows : w.from <= p /\ p < w.to
       \/ \E w \in windows : w.to <= p /\ Skips(w)

\* Two windows share no more than the overlap, however early their breaks and
\* however far they were stretched.
OverlapIsBounded ==
    \A v, w \in windows : v.from < w.from => v.to - config.overlap <= w.from

\* Cutting by size: the windows lie in the text, overlap by no more than they
\* should, leave nothing out but what follows an early break, and every turn
\* gets further.
WindowsFit == ChunkTypeOK /\ OverlapIsBounded /\ LostBehindEarlyBreak
WindowsAreCut == []WindowsFit /\ EveryTurnAdvances

\* What was packed, piece by piece.
FlattenGroups(g) ==
    LET flat[n \in 0..Len(g)] == IF n = 0 THEN <<>> ELSE flat[n - 1] \o g[n]
    IN  flat[Len(g)]
SentencesArePacked ==
    strategy = "pieces" =>
       /\ FlattenGroups(groups) \o current \o pieces = given
       /\ \A i \in 1..Len(groups) :
             Joined(groups[i]) > config.maxSize => Len(groups[i]) = 1

\* Splitting loses no character; a chunk is longer than the largest size only
\* as the last one, with what was too short for a chunk of its own, and too
\* short itself only if it is all there is (a chunk of the largest size is not,
\* also when the smallest is as large).
TextsAreSplit ==
    strategy \in {"split", "over"} =>
       /\ Total(FlattenGroups(groups)) + Total(current) + Total(pieces) = Total(given)
       /\ \A i \in 1..Len(groups) :
             /\ \/ Total(groups[i]) > config.minChunkSize
                \/ Total(groups[i]) = config.maxSize \/ Len(groups) = 1
             /\ \/ Total(groups[i]) <= config.maxSize
                \/ /\ strategy = "over" /\ i = Len(groups)
                   /\ Total(groups[i]) <= config.maxSize + config.minChunkSize

\* Packing leaves out no sentence and takes none twice, and a chunk longer than
\* the largest size is one sentence; splitting at punctuation loses nothing
\* and keeps the sizes.
PiecesArePacked == SentencesArePacked /\ TextsAreSplit
=============================================================================
