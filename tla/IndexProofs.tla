----------------------------- MODULE IndexProofs -----------------------------
(***************************************************************************)
(* Theorems about the two indexes of the index center. About the vector    *)
(* index: that its ids agree and that what is kept is what the list of     *)
(* documents shows, for any documents and number of chunks, any dump       *)
(* threshold, and calls of doCreateIndex nested to any depth. About the    *)
(* property index, in the second half: that it follows the files, for any  *)
(* files and any order of events, switches and ends of the process.        *)
(*                                                                         *)
(* Neither of the first is inductive. The ids agree again after a dump     *)
(* only because of where each boundary stands while it is under way: the   *)
(* texts, the rows and the files are written in three steps (Agree: files  *)
(* below b, rows below r, texts of the table below t, the cache from t to  *)
(* u). They are whole documents that a dump takes, though it takes them by *)
(* id, because the index has all of a document or nothing                  *)
(* (WholeDocuments). An answer of the model server finds nothing of its    *)
(* document kept, because a document is in one call only and is waited for *)
(* by one (FramesOk, ProgressOk). And an id of a document kept twice would *)
(* be deleted with one copy and shown with the other (KeptOk).             *)
(*                                                                         *)
(* That quiet finds every file in the property index is the end of an      *)
(* order of events: whatever would drop the documents of a file that is    *)
(* there has to be followed by what makes one again (HealedIn), in the     *)
(* kernel's queue alone and in the jobs with it, but for the jobs of a     *)
(* worker that is stopped; and between the two a walk has the file before  *)
(* it or its timer runs (WillBeFound). A timer of an earlier switch may    *)
(* run before jobs that are older than the walk it begins, so the order of *)
(* the queues alone would not do.                                          *)
(***************************************************************************)
EXTENDS EmbeddingIndex, PropertyIndex, SequenceLemmas, FiniteSetTheorems, TLAPS
-----------------------------------------------------------------------------
(* Sets of ids in ascending order                                          *)

Below(S, i) == {j \in S : j < i}
Rank(S, i) == Cardinality(Below(S, i))

LEMMA AscendingDef ==
    ASSUME NEW S
    PROVE  Ascending(S) = [k \in 1..Cardinality(S) |-> CHOOSE i \in S : Rank(S, i) = k - 1]
BY DEF Ascending, Rank, Below

\* A number with more below it is the larger one.
LEMMA RankGrows ==
    ASSUME NEW S \in SUBSET Int, IsFiniteSet(S), NEW i \in S, NEW j \in S, i < j
    PROVE  Rank(S, i) < Rank(S, j)
<1>1. Below(S, i) \subseteq Below(S, j) /\ i \in Below(S, j) /\ i \notin Below(S, i)
  <2>1. \A k \in S : k \in Int
    OBVIOUS
  <2>2. \A k \in S : k < i => k < j
    BY <2>1
  <2>3. ~(i < i)
    BY <2>1
  <2> QED
    BY <2>2, <2>3 DEF Below
<1>2. IsFiniteSet(Below(S, j)) /\ IsFiniteSet(Below(S, i))
  BY FS_Subset DEF Below
<1>3. Rank(S, i) <= Rank(S, j) /\ Rank(S, i) # Rank(S, j)
  BY <1>1, <1>2, FS_Subset DEF Rank
<1> QED
  BY <1>2, <1>3, FS_CardinalityType DEF Rank

\* Every place among the numbers is taken.
LEMMA RankTaken ==
    ASSUME NEW S \in SUBSET Int, IsFiniteSet(S), NEW k \in 1..Cardinality(S)
    PROVE  \E i \in S : Rank(S, i) = k - 1
<1>1. SUFFICES ASSUME \A i \in S : Rank(S, i) # k - 1 PROVE FALSE
  OBVIOUS
<1>2. Cardinality(S) \in Nat
  BY FS_CardinalityType
<1> DEFINE n == Cardinality(S)
           T == (0..(n - 1)) \ {k - 1}
           f == [i \in S |-> Rank(S, i)]
<1>3. ASSUME NEW i \in S PROVE Rank(S, i) \in 0..(n - 1)
  <2>1. Below(S, i) \subseteq S \ {i}
    BY DEF Below
  <2>2. IsFiniteSet(S \ {i}) /\ Cardinality(S \ {i}) = n - 1
    BY FS_RemoveElement
  <2>3. IsFiniteSet(Below(S, i)) /\ Cardinality(Below(S, i)) <= n - 1
    BY <2>1, <2>2, FS_Subset
  <2> QED
    BY <1>2, <2>3, FS_CardinalityType DEF Rank
<1>4. f \in [S -> T]
  BY <1>1, <1>3
<1>5. IsFiniteSet(T) /\ Cardinality(T) < n
  <2>1. IsFiniteSet(0..(n - 1)) /\ Cardinality(0..(n - 1)) = n
    <3>1. 0 \in Int /\ n - 1 \in Int /\ ~(0 > n - 1) /\ (n - 1) - 0 + 1 = n
      BY <1>2
    <3> HIDE DEF n
    <3> QED
      BY <3>1, FS_Interval
  <2>2. k - 1 \in 0..(n - 1)
    BY <1>2
  <2>3. IsFiniteSet(T) /\ Cardinality(T) = n - 1
    <3> DEFINE U == 0..(n - 1)
    <3>1. IsFiniteSet(U) /\ Cardinality(U) = n /\ k - 1 \in U /\ T = U \ {k - 1}
      BY <2>1, <2>2
    <3> HIDE DEF U, n, T
    <3> QED
      BY <3>1, FS_RemoveElement
  <2> QED
    BY <1>2, <2>3
<1>6. PICK x, y \in S : x # y /\ f[x] = f[y]
  <2> HIDE DEF T, f
  <2> QED
    BY <1>4, <1>5, FS_PigeonHole
<1>7. Rank(S, x) = Rank(S, y) /\ (x < y \/ y < x)
  BY <1>6
<1>8. x < y => Rank(S, x) < Rank(S, y)
  BY RankGrows
<1>9. y < x => Rank(S, y) < Rank(S, x)
  BY RankGrows
<1>10. Rank(S, x) \in Int /\ Rank(S, y) \in Int
  BY <1>3
<1> QED
  BY <1>7, <1>8, <1>9, <1>10

\* The list of a set has its members.
LEMMA AscendingTyped ==
    ASSUME NEW S \in SUBSET Int, IsFiniteSet(S)
    PROVE  /\ Cardinality(S) \in Nat
           /\ Ascending(S) \in [1..Cardinality(S) -> S]
<1>1. \A k \in 1..Cardinality(S) : (CHOOSE i \in S : Rank(S, i) = k - 1) \in S
  BY RankTaken
<1> QED
  BY <1>1, AscendingDef, FS_CardinalityType

\* The list of an interval is the interval.
LEMMA AscendingInterval ==
    ASSUME NEW a \in Int, NEW b \in Int, b >= a - 1
    PROVE  Ascending(a..b) = [k \in 1..(b - a + 1) |-> a + k - 1]
<1>1. Cardinality(a..b) = b - a + 1 /\ IsFiniteSet(a..b)
  BY FS_Interval
<1>2. ASSUME NEW i \in a..b PROVE Rank(a..b, i) = i - a
  <2>1. Below(a..b, i) = a..(i - 1)
    BY DEF Below
  <2>2. Cardinality(a..(i - 1)) = i - a
    <3>1. i \in Int /\ i - 1 \in Int /\ a <= i
      OBVIOUS
    <3>2. Cardinality(a..(i - 1)) = IF a > i - 1 THEN 0 ELSE (i - 1) - a + 1
      BY <3>1, FS_Interval
    <3> QED
      BY <3>1, <3>2
  <2> QED
    BY <2>1, <2>2 DEF Rank
<1>3. ASSUME NEW k \in 1..(b - a + 1)
      PROVE  (CHOOSE i \in a..b : Rank(a..b, i) = k - 1) = a + k - 1
  <2>1. a + k - 1 \in a..b
    OBVIOUS
  <2>2. \A i \in a..b : Rank(a..b, i) = k - 1 <=> i = a + k - 1
    BY <1>2
  <2> QED
    BY <2>1, <2>2
<1> QED
  BY <1>1, <1>3, AscendingDef

\* The greatest and the least of a set.
LEMMA Extremes ==
    ASSUME NEW S \in SUBSET Int, IsFiniteSet(S), S # {}
    PROVE  /\ Max(S) \in S /\ \A j \in S : Max(S) >= j
           /\ Min(S) \in S /\ \A j \in S : Min(S) <= j
<1>1. Cardinality(S) \in Nat \ {0}
  BY FS_CardinalityType, FS_EmptySet
<1> DEFINE n == Cardinality(S)
<1>2. PICK x \in S : Rank(S, x) = 1 - 1
  BY <1>1, RankTaken
<1>3. \A j \in S : x <= j
  <2> SUFFICES ASSUME NEW j \in S, j < x PROVE FALSE
    OBVIOUS
  <2>1. Rank(S, j) < Rank(S, x)
    BY RankGrows
  <2>2. Rank(S, j) \in Nat
    BY FS_Subset, FS_CardinalityType DEF Rank, Below
  <2> QED
    BY <1>2, <2>1, <2>2
<1>4. PICK y \in S : Rank(S, y) = n - 1
  BY <1>1, RankTaken
<1>5. \A j \in S : y >= j
  <2> SUFFICES ASSUME NEW j \in S, y < j PROVE FALSE
    OBVIOUS
  <2>1. Rank(S, y) < Rank(S, j)
    BY RankGrows
  <2>2. Below(S, j) \subseteq S \ {j} /\ IsFiniteSet(S \ {j}) /\ Cardinality(S \ {j}) = n - 1
    BY FS_RemoveElement DEF Below
  <2>3. Rank(S, j) <= n - 1 /\ Rank(S, j) \in Nat
    BY <2>2, FS_Subset, FS_CardinalityType DEF Rank
  <2> QED
    BY <1>1, <1>4, <2>1, <2>3
<1>6. \E z \in S : \A j \in S : z >= j
  BY <1>5
<1>7. \E z \in S : \A j \in S : z <= j
  BY <1>3
<1> QED
  BY <1>6, <1>7 DEF Max, Min

LEMMA IntervalExtremes ==
    ASSUME NEW a \in Int, NEW b \in Int, a <= b
    PROVE  Max(a..b) = b /\ Min(a..b) = a
<1>1. b \in a..b /\ \A j \in a..b : b >= j
  OBVIOUS
<1>2. a \in a..b /\ \A j \in a..b : a <= j
  OBVIOUS
<1>3. a..b \in SUBSET Int /\ IsFiniteSet(a..b) /\ a..b # {}
  <2>1. IsFiniteSet(a..b)
    BY FS_Interval
  <2>2. \A k \in a..b : k \in Int
    OBVIOUS
  <2> QED
    BY <1>1, <2>1, <2>2
<1>4. /\ Max(a..b) \in a..b /\ Max(a..b) >= b
      /\ Min(a..b) \in a..b /\ Min(a..b) <= a
  BY <1>1, <1>2, <1>3, Extremes
<1> QED
  BY <1>4

-----------------------------------------------------------------------------
(* What is kept, and where                                                 *)

Paused(i) == frames[i].waiting
WaitsFor(i, d) == Paused(i) /\ Head(frames[i].todo) = d
WaitingFor(d) == \E i \in 1..Len(frames) : WaitsFor(i, d)

FramesTyped == frames \in Seq([todo : Seq(Doc), ok : BOOLEAN, waiting : BOOLEAN])

\* Only the last call makes progress, and no document is in two calls.
FramesOk ==
    /\ FramesTyped
    /\ \A i \in 1..Len(frames) : Paused(i) => frames[i].todo # <<>>
    /\ \A i \in 1..Len(frames) : i < Len(frames) => Paused(i)
    /\ \A i, j \in 1..Len(frames) : i # j =>
          Elems(frames[i].todo) \cap Elems(frames[j].todo) = {}

\* A document is in progress while the model server is asked about it, unless
\* it was deleted meanwhile, and nothing of it is kept yet.
ProgressOk(d) ==
    /\ status[d] = "start" => WaitingFor(d) /\ d \notin abort
    /\ d \in abort => WaitingFor(d)
    /\ WaitingFor(d) => ~Known(d)

\* Text is kept of listed documents, once, and with its vector.
IsOf(map, i, d) == i \in DOMAIN map /\ map[i] \in Chunk /\ map[i][1] = d
KeptOk ==
    /\ \A i \in DOMAIN texts : texts[i] \in Chunk => i \in DOMAIN vectors
    /\ \A i, j \in DOMAIN texts : texts[i] \in Chunk /\ texts[i] = texts[j] => i = j
    /\ \A i, j \in DOMAIN meta : meta[i] \in Chunk /\ meta[i] = meta[j] => i = j
    /\ \A i \in DOMAIN texts, j \in DOMAIN meta : texts[i] \in Chunk => texts[i] # meta[j]

MapsTyped ==
    /\ texts \in [DOMAIN texts -> Chunk \cup {Blank}]
    /\ vectors \in [DOMAIN vectors -> Chunk]
    /\ meta \in [DOMAIN meta -> Chunk \cup {Blank}]
    /\ seg \in [DOMAIN seg -> BOOLEAN]

Listed == KeptTextIsListed
Orderly == FramesOk /\ (\A d \in Doc : ProgressOk(d)) /\ KeptOk /\ Listed

\* The rows of the ids below b are in the files, those below r in
\* index_segment, those below t in embedding_metadata, and those below u in
\* the cache; but for a dump under way, b, r and t are the same.
TextOf(i) == IF i \in DOMAIN texts THEN texts[i] ELSE meta[i]

CacheFits(t, u) == DOMAIN texts = t..(u - 1) /\ texts = vectors
TablesFit(b, r, t) ==
    /\ DOMAIN seg = 0..(r - 1)
    /\ DOMAIN meta \subseteq 0..(t - 1) /\ b..(t - 1) \subseteq DOMAIN meta
    /\ \A i \in DOMAIN meta \cap DOMAIN seg : ~seg[i]
FilesFit(b) ==
    /\ {e.id : e \in disk} = 0..(b - 1)
    /\ \A e \in disk : seg[e.id] \/ (e.id \in DOMAIN meta /\ meta[e.id] = e.vec)
IndexFits(b, u) ==
    /\ b + Len(index) <= u
    /\ \A i \in 1..Len(index) : index[i].id = b + i - 1 /\ index[i].vec = TextOf(b + i - 1)
    /\ range = IF index = <<>> THEN EmptyRange ELSE <<b, b + Len(index) - 1>>
    /\ frames = <<>> => b + Len(index) = u
\* The index has all of a cached document, or nothing.
WholeDocuments(b) ==
    \A i, j \in DOMAIN texts : texts[i][1] = texts[j][1] =>
        (i < b + Len(index) <=> j < b + Len(index))
DumpFits(b, r, t) ==
    /\ dump \in {"no", "due"} => r = b /\ t = b
    /\ dump = "index" => r = b /\ t = b + Len(index)
    /\ dump = "file" => r = b + Len(index) /\ t = b + Len(index)
    /\ dump # "no" => index # <<>>

Agree(b, r, t, u) ==
    /\ b <= r /\ r <= t /\ t <= u
    /\ CacheFits(t, u) /\ TablesFit(b, r, t) /\ FilesFit(b) /\ IndexFits(b, u)
    /\ WholeDocuments(b) /\ DumpFits(b, r, t)

\* A success is cached whole or stored whole.
AllIn(map, d) == \A c \in ChunksIn(d) : \E i \in DOMAIN map : map[i] = c
SuccessOk(d) ==
    status[d] = "success" =>
        \/ AllIn(texts, d) /\ IdsOf(meta, d) = {}
        \/ AllIn(meta, d)

Sound ==
    ~damaged =>
        /\ \E b, r, t, u \in Nat : Agree(b, r, t, u)
        /\ \A d \in Doc : SuccessOk(d)

IndexInv == IndexTypeOK /\ MapsTyped /\ Orderly /\ Sound

-----------------------------------------------------------------------------
(* The calls under way                                                     *)

Frame == [todo : Seq(Doc), ok : BOOLEAN, waiting : BOOLEAN]

LEMMA RangeIsElems ==
    ASSUME NEW S, NEW s \in Seq(S)
    PROVE  Range(s) = Elems(s)
BY DEF Range, Elems

LEMMA TopIs ==
    ASSUME FramesOk, frames # <<>>
    PROVE  /\ Len(frames) \in Nat \ {0} /\ Top = frames[Len(frames)] /\ Top \in Frame
           /\ Top.todo \in Seq(Doc) /\ Top.ok \in BOOLEAN /\ Top.waiting \in BOOLEAN
           /\ Top.waiting => Top.todo # <<>>
           /\ Front(frames) \in Seq(Frame) /\ Len(Front(frames)) = Len(frames) - 1
           /\ \A i \in 1..(Len(frames) - 1) : Front(frames)[i] = frames[i]
<1>1. frames \in Seq(Frame) /\ Len(frames) \in Nat \ {0}
  BY DEF FramesOk, FramesTyped, Frame
<1>2. Top = frames[Len(frames)] /\ Top \in Frame
  BY <1>1 DEF Top, Last
<1>3. /\ Top.todo \in Seq(Doc) /\ Top.ok \in BOOLEAN /\ Top.waiting \in BOOLEAN
  BY <1>2 DEF Frame
<1>4. Top.waiting => Top.todo # <<>>
  BY <1>1, <1>2 DEF FramesOk, Paused
<1>5. Front(frames) = SubSeq(frames, 1, Len(frames) - 1)
  BY DEF Front
<1>6. /\ Front(frames) \in Seq(Frame) /\ Len(Front(frames)) = Len(frames) - 1
      /\ \A i \in 1..(Len(frames) - 1) : Front(frames)[i] = frames[i]
  <2>1. 1 \in 1..(Len(frames) + 1) /\ Len(frames) - 1 \in 0..Len(frames)
    BY <1>1
  <2>2. \A i \in 1..(Len(frames) - 1) : SubSeq(frames, 1, Len(frames) - 1)[i] = frames[i]
    BY <1>1
  <2>3. Len(SubSeq(frames, 1, Len(frames) - 1)) = Len(frames) - 1
    BY <1>1
  <2>4. SubSeq(frames, 1, Len(frames) - 1) \in Seq(Frame)
    BY <1>1, <2>1
  <2> QED
    BY <1>5, <2>2, <2>3, <2>4
<1> QED
  BY <1>1, <1>2, <1>3, <1>4, <1>6

LEMMA FrameIs ==
    ASSUME FramesOk, NEW i \in 1..Len(frames)
    PROVE  frames[i] \in Frame /\ frames[i].todo \in Seq(Doc) /\ DOMAIN frames = 1..Len(frames)
<1>1. frames \in Seq(Frame)
  BY DEF FramesOk, FramesTyped, Frame
<1>2. frames[i] \in Frame
  BY <1>1
<1> QED
  BY <1>1, <1>2 DEF Frame

\* A call taken back to its next document, or to the one it waits for.
LEMMA WithTopKeeps ==
    ASSUME FramesOk, frames # <<>>, NEW f \in Frame,
           Elems(f.todo) \subseteq Elems(Top.todo), f.waiting => f.todo # <<>>,
           frames' = WithTop(f)
    PROVE  /\ FramesOk' /\ Len(frames') = Len(frames)
           /\ \A i \in 1..Len(frames) : frames'[i] = IF i = Len(frames) THEN f ELSE frames[i]
<1>1. /\ Len(frames) \in Nat \ {0} /\ Top = frames[Len(frames)]
      /\ Front(frames) \in Seq(Frame) /\ Len(Front(frames)) = Len(frames) - 1
      /\ \A i \in 1..(Len(frames) - 1) : Front(frames)[i] = frames[i]
  BY TopIs
<1>2. frames' = Append(Front(frames), f)
  BY DEF WithTop
<1>3. frames' \in Seq(Frame) /\ Len(frames') = Len(frames)
  BY <1>1, <1>2
<1>4. \A i \in 1..Len(frames) : frames'[i] = IF i = Len(frames) THEN f ELSE frames[i]
  BY <1>1, <1>2
<1>5. FramesOk'
  <2>1. FramesTyped'
    BY <1>3 DEF FramesTyped, Frame
  <2>2. \A i \in 1..Len(frames') : frames'[i].waiting => frames'[i].todo # <<>>
    BY <1>3, <1>4 DEF FramesOk, Paused
  <2>3. \A i \in 1..Len(frames') : i < Len(frames') => frames'[i].waiting
    BY <1>3, <1>4 DEF FramesOk, Paused
  <2>4. \A i, j \in 1..Len(frames') : i # j =>
          Elems(frames'[i].todo) \cap Elems(frames'[j].todo) = {}
    <3> SUFFICES ASSUME NEW i \in 1..Len(frames), NEW j \in 1..Len(frames), i # j
                 PROVE  Elems(frames'[i].todo) \cap Elems(frames'[j].todo) = {}
      BY <1>3
    <3>1. Elems(frames'[i].todo) \subseteq Elems(frames[i].todo)
      BY <1>1, <1>4
    <3>2. Elems(frames'[j].todo) \subseteq Elems(frames[j].todo)
      BY <1>1, <1>4
    <3>3. Elems(frames[i].todo) \cap Elems(frames[j].todo) = {}
      BY DEF FramesOk
    <3> QED
      BY <3>1, <3>2, <3>3
  <2> QED
    BY <2>1, <2>2, <2>3, <2>4 DEF FramesOk, Paused
<1> QED
  BY <1>3, <1>4, <1>5

\* Who is waited for is in progress, in one call.
LEMMA WaitingIsOne ==
    ASSUME FramesOk, NEW i \in 1..Len(frames), NEW j \in 1..Len(frames), NEW d,
           WaitsFor(i, d), d \in Elems(frames[j].todo)
    PROVE  i = j
<1>1. frames[i].todo \in Seq(Doc) /\ frames[i].todo # <<>> /\ Head(frames[i].todo) = d
  BY FrameIs DEF FramesOk, WaitsFor, Paused
<1>2. d \in Elems(frames[i].todo)
  BY <1>1 DEF Elems
<1> QED
  BY <1>2 DEF FramesOk

LEMMA DoingIs ==
    ASSUME FramesOk, frames # <<>>, Top.todo # <<>>
    PROVE  /\ Doing \in Doc /\ Doing \in Elems(Top.todo)
           /\ Doing \in Elems(frames[Len(frames)].todo)
           /\ \A ok \in BOOLEAN : /\ Done(ok) \in Frame /\ ~Done(ok).waiting
                                  /\ Elems(Done(ok).todo) \subseteq Elems(Top.todo)
<1>1. Top.todo \in Seq(Doc) /\ Top.ok \in BOOLEAN /\ Top = frames[Len(frames)]
  BY TopIs
<1>2. /\ Head(Top.todo) \in Doc /\ Head(Top.todo) \in Elems(Top.todo)
      /\ Tail(Top.todo) \in Seq(Doc) /\ Elems(Tail(Top.todo)) \subseteq Elems(Top.todo)
  BY <1>1, HeadTail
<1>3. \A ok \in BOOLEAN : Done(ok) \in Frame /\ ~Done(ok).waiting /\ Done(ok).todo = Tail(Top.todo)
  BY <1>1, <1>2 DEF Done, Frame
<1> QED
  BY <1>1, <1>2, <1>3 DEF Doing

\* What a step of the last call does to the documents that are waited for.
LEMMA DoneKeeps ==
    ASSUME FramesOk, frames # <<>>, Top.todo # <<>>, NEW ok \in BOOLEAN,
           frames' = WithTop(Done(ok))
    PROVE  /\ FramesOk' /\ Len(frames') = Len(frames) /\ Doing \in Doc
           /\ \A d : WaitingFor(d)' <=> WaitingFor(d) /\ (Top.waiting => d # Doing)
           /\ ~Top.waiting => ~WaitingFor(Doing)
<1>0. PICK f \in Frame : f = Done(ok) /\ ~f.waiting /\ Elems(f.todo) \subseteq Elems(Top.todo)
  BY DoingIs
<1>1. /\ FramesOk' /\ Len(frames') = Len(frames)
      /\ \A i \in 1..Len(frames) : frames'[i] = IF i = Len(frames) THEN f ELSE frames[i]
  BY <1>0, WithTopKeeps
<1>2. /\ Len(frames) \in Nat \ {0} /\ Top = frames[Len(frames)] /\ Len(frames) \in 1..Len(frames)
  BY TopIs
<1>3. ASSUME NEW d
      PROVE  WaitingFor(d)' <=> \E i \in 1..Len(frames) : i # Len(frames) /\ WaitsFor(i, d)
  BY <1>0, <1>1 DEF WaitingFor, WaitsFor, Paused
<1>4. ASSUME NEW i \in 1..Len(frames), WaitsFor(i, Doing)
      PROVE  i = Len(frames)
  BY <1>2, <1>4, DoingIs, WaitingIsOne
<1>5. \A d : WaitsFor(Len(frames), d) <=> Top.waiting /\ d = Doing
  BY <1>2 DEF WaitsFor, Paused, Doing
<1> QED
  BY <1>1, <1>2, <1>3, <1>4, <1>5, DoingIs DEF WaitingFor

LEMMA WaitKeeps ==
    ASSUME FramesOk, frames # <<>>, Top.todo # <<>>, ~Top.waiting,
           frames' = WithTop([Top EXCEPT !.waiting = TRUE])
    PROVE  /\ FramesOk' /\ Len(frames') = Len(frames) /\ Doing \in Doc
           /\ \A d : WaitingFor(d)' <=> WaitingFor(d) \/ d = Doing
           /\ ~WaitingFor(Doing)
<1>2. /\ Len(frames) \in Nat \ {0} /\ Top = frames[Len(frames)] /\ Len(frames) \in 1..Len(frames)
      /\ Top \in Frame
  BY TopIs
<1>0. PICK f \in Frame : f = [Top EXCEPT !.waiting = TRUE] /\ f.waiting /\ f.todo = Top.todo
  <2>1. /\ [Top EXCEPT !.waiting = TRUE] \in Frame /\ [Top EXCEPT !.waiting = TRUE].waiting
        /\ [Top EXCEPT !.waiting = TRUE].todo = Top.todo
    BY <1>2 DEF Frame
  <2> QED
    BY <2>1
<1>1. /\ FramesOk' /\ Len(frames') = Len(frames)
      /\ \A i \in 1..Len(frames) : frames'[i] = IF i = Len(frames) THEN f ELSE frames[i]
  BY <1>0, WithTopKeeps
<1>3. ASSUME NEW d
      PROVE  WaitingFor(d)' <=> d = Doing \/ \E i \in 1..Len(frames) : i # Len(frames) /\ WaitsFor(i, d)
  <2>1. WaitingFor(d)' <=> \E i \in 1..Len(frames) : frames'[i].waiting /\ Head(frames'[i].todo) = d
    BY <1>1 DEF WaitingFor, WaitsFor, Paused
  <2>2. frames'[Len(frames)].waiting /\ Head(frames'[Len(frames)].todo) = Doing
    BY <1>0, <1>1, <1>2 DEF Doing
  <2>3. \A i \in 1..Len(frames) : i # Len(frames) =>
            (frames'[i].waiting /\ Head(frames'[i].todo) = d <=> WaitsFor(i, d))
    BY <1>1 DEF WaitsFor, Paused
  <2> QED
    BY <1>2, <2>1, <2>2, <2>3
<1>4. ASSUME NEW i \in 1..Len(frames), WaitsFor(i, Doing)
      PROVE  i = Len(frames)
  BY <1>2, <1>4, DoingIs, WaitingIsOne
<1>5. \A d : ~WaitsFor(Len(frames), d)
  BY <1>2 DEF WaitsFor, Paused
<1> QED
  BY <1>1, <1>2, <1>3, <1>4, <1>5, DoingIs DEF WaitingFor

LEMMA CallKeeps ==
    ASSUME FramesOk, NEW batch \in Seq(Doc), Range(batch) \cap InProgress = {},
           frames # <<>> => Top.waiting,
           frames' = Append(frames, [todo |-> batch, ok |-> TRUE, waiting |-> FALSE])
    PROVE  /\ FramesOk' /\ frames' # <<>>
           /\ \A d : WaitingFor(d)' <=> WaitingFor(d)
<1> DEFINE f == [todo |-> batch, ok |-> TRUE, waiting |-> FALSE]
<1>1. f \in Frame /\ frames \in Seq(Frame) /\ ~f.waiting /\ f.todo = batch
  BY DEF FramesOk, FramesTyped, Frame
<1>2. /\ frames' \in Seq(Frame) /\ Len(frames') = Len(frames) + 1 /\ frames' # <<>>
      /\ frames'[Len(frames) + 1] = f
      /\ \A i \in 1..Len(frames) : frames'[i] = frames[i]
  BY <1>1
<1> HIDE DEF f
<1>3. \A i \in 1..Len(frames) : Elems(frames[i].todo) \cap Elems(batch) = {}
  <2> SUFFICES ASSUME NEW i \in 1..Len(frames)
               PROVE  Elems(frames[i].todo) \cap Elems(batch) = {}
    OBVIOUS
  <2>1. frames[i].todo \in Seq(Doc) /\ DOMAIN frames = 1..Len(frames)
    BY FrameIs
  <2>2. Range(frames[i].todo) \subseteq InProgress
    BY <2>1 DEF InProgress
  <2> QED
    BY <2>1, <2>2, RangeIsElems
<1>4. \A i \in 1..(Len(frames) + 1) : i = Len(frames) + 1 \/ i \in 1..Len(frames)
  BY <1>1
<1>5. \A i \in 1..Len(frames) : Paused(i)
  <2> SUFFICES ASSUME NEW i \in 1..Len(frames) PROVE Paused(i)
    OBVIOUS
  <2>1. frames # <<>>
    BY <1>1
  <2>2. Top = frames[Len(frames)] /\ Len(frames) \in Nat
    BY <2>1, TopIs
  <2>3. CASE i = Len(frames)
    BY <2>1, <2>2, <2>3 DEF Paused
  <2>4. CASE i # Len(frames)
    BY <2>2, <2>4 DEF FramesOk
  <2> QED
    BY <2>3, <2>4
<1>6. FramesOk'
  <2>1. FramesTyped'
    BY <1>2 DEF FramesTyped, Frame
  <2>2. \A i \in 1..Len(frames') : frames'[i].waiting => frames'[i].todo # <<>>
    BY <1>1, <1>2, <1>4 DEF FramesOk, Paused
  <2>3. \A i \in 1..Len(frames') : i < Len(frames') => frames'[i].waiting
    BY <1>1, <1>2, <1>4, <1>5 DEF Paused
  <2>4. \A i, j \in 1..Len(frames') : i # j =>
          Elems(frames'[i].todo) \cap Elems(frames'[j].todo) = {}
    <3> SUFFICES ASSUME NEW i \in 1..(Len(frames) + 1), NEW j \in 1..(Len(frames) + 1), i # j
                 PROVE  Elems(frames'[i].todo) \cap Elems(frames'[j].todo) = {}
      BY <1>2
    <3>1. CASE i \in 1..Len(frames) /\ j \in 1..Len(frames)
      BY <1>2, <3>1 DEF FramesOk
    <3>2. CASE i = Len(frames) + 1 /\ j \in 1..Len(frames)
      BY <1>1, <1>2, <1>3, <3>2
    <3>3. CASE j = Len(frames) + 1 /\ i \in 1..Len(frames)
      BY <1>1, <1>2, <1>3, <3>3
    <3> QED
      BY <1>4, <3>1, <3>2, <3>3
  <2> QED
    BY <2>1, <2>2, <2>3, <2>4 DEF FramesOk, Paused
<1>7. ASSUME NEW d PROVE WaitingFor(d)' <=> WaitingFor(d)
  BY <1>1, <1>2, <1>4 DEF WaitingFor, WaitsFor, Paused
<1> QED
  BY <1>2, <1>6, <1>7

LEMMA ReturnKeeps ==
    ASSUME FramesOk, frames # <<>>, ~Top.waiting, frames' = Front(frames)
    PROVE  /\ FramesOk'
           /\ \A d : WaitingFor(d)' <=> WaitingFor(d)
<1>1. /\ Len(frames) \in Nat \ {0} /\ Top = frames[Len(frames)]
      /\ frames' \in Seq(Frame) /\ Len(frames') = Len(frames) - 1
      /\ \A i \in 1..(Len(frames) - 1) : frames'[i] = frames[i]
  BY TopIs
<1>2. FramesOk'
  <2>1. FramesTyped'
    BY <1>1 DEF FramesTyped, Frame
  <2>2. \A i \in 1..Len(frames') : i \in 1..Len(frames) /\ i < Len(frames) /\ frames'[i] = frames[i]
    BY <1>1
  <2> QED
    BY <2>1, <2>2 DEF FramesOk, Paused
<1>3. \A i \in 1..Len(frames) : i = Len(frames) \/ i \in 1..(Len(frames) - 1)
  BY <1>1
<1>4. ASSUME NEW d PROVE WaitingFor(d)' <=> WaitingFor(d)
  BY <1>1, <1>3 DEF WaitingFor, WaitsFor, Paused
<1> QED
  BY <1>2, <1>4

-----------------------------------------------------------------------------
(* What is kept, and what the list says                                    *)

Kept(d) == \E i : IsOf(texts, i, d) \/ IsOf(meta, i, d)

LEMMA KnownIsKept ==
    /\ \A d : Known(d) <=> Kept(d)
    /\ \A d : IdsOf(texts, d) \cup IdsOf(meta, d) # {} <=> Kept(d)
    /\ KeptTextIsListed <=> \A d \in Doc : Kept(d) => status[d] = "success"
BY DEF Known, Kept, IdsOf, IsOf, KeptTextIsListed

LEMMA KnownIsKeptNext ==
    /\ \A d : Known(d)' <=> Kept(d)'
    /\ KeptTextIsListed' <=> \A d \in Doc : Kept(d)' => status'[d] = "success"
BY DEF Known, Kept, IdsOf, IsOf, KeptTextIsListed

\* Where the text stays as it is.
LEMMA TextStays ==
    ASSUME KeptOk, UNCHANGED <<texts, vectors, meta>>
    PROVE  KeptOk' /\ \A d : Kept(d)' <=> Kept(d)
BY DEF KeptOk, Kept, IsOf

\* Orderly again after a step that is told by what it does to the calls under
\* way, to the list and to what is kept.
Waiters(old) == \A d \in Doc : WaitingFor(d)' <=> WaitingFor(d) /\ d \notin old
Fewer(gone) == \A d \in Doc : Kept(d)' => Kept(d) /\ d \notin gone
StatusAt(d, s) == status' = [status EXCEPT ![d] = s]

LEMMA OrderlyAgain ==
    ASSUME Orderly, status \in [Doc -> Status],
           FramesOk', KeptOk', NEW old \in SUBSET Doc, NEW gone \in SUBSET Doc,
           Waiters(old), Fewer(gone),
           \A d \in Doc : \/ status'[d] = status[d]
                          \/ status'[d] \notin {"start", "success"} /\ (d \in gone \/ ~Kept(d)),
           \A d \in old : status'[d] # "start",
           abort' \subseteq Doc,
           \A d \in abort' : d \notin old /\ (d \in abort \/ WaitingFor(d)),
           \A d \in abort' : status'[d] # "start"
    PROVE  Orderly'
<1> USE KnownIsKept, KnownIsKeptNext DEF Orderly, Listed
<1>1. ASSUME NEW d \in Doc PROVE ProgressOk(d)'
  BY <1>1 DEF ProgressOk, Waiters, Fewer
<1>2. Listed'
  BY DEF Fewer
<1> QED
  BY <1>1, <1>2

LEMMA OrderlyStill ==
    ASSUME Orderly, UNCHANGED <<frames, abort, texts, vectors, meta, status>>
    PROVE  Orderly'
<1>1. FramesOk'
  BY DEF Orderly, FramesOk, FramesTyped, Paused
<1>2. KeptOk' /\ Listed'
  BY TextStays DEF Orderly, Listed, KeptTextIsListed, IdsOf
<1>3. ASSUME NEW d \in Doc PROVE ProgressOk(d)'
  BY <1>3 DEF Orderly, ProgressOk, WaitingFor, WaitsFor, Paused, Known, IdsOf
<1> QED
  BY <1>1, <1>2, <1>3 DEF Orderly

Typed == status \in [Doc -> Status] /\ abort \subseteq Doc

LEMMA CallOrderly ==
    ASSUME Orderly, Typed, NEW batch \in Batches, CreateIndex(batch)
    PROVE  Orderly'
<1>1. batch \in Seq(Doc)
  BY IndexAssumption DEF IndexAssumption
<1>2. FramesOk' /\ \A d : WaitingFor(d)' <=> WaitingFor(d)
  BY <1>1, CallKeeps DEF CreateIndex, Ready, Orderly
<1>3. KeptOk' /\ \A d : Kept(d)' <=> Kept(d)
  BY TextStays DEF CreateIndex, cacheVars, tableVars, Orderly
<1>4. Waiters({}) /\ Fewer({})
  BY <1>2, <1>3 DEF Waiters, Fewer
<1>5. abort' = abort /\ status' = status
  BY DEF CreateIndex, tableVars
<1>6. \A d \in Doc : d \in abort => status[d] # "start" /\ WaitingFor(d)
  BY DEF Orderly, ProgressOk
<1> QED
  BY <1>2, <1>3, <1>4, <1>5, <1>6, OrderlyAgain DEF Typed

LEMMA RejectOrderly ==
    ASSUME Orderly, Typed, RejectKnown \/ RejectContent
    PROVE  Orderly'
<1>1. /\ frames # <<>> /\ Top.todo # <<>> /\ ~Top.waiting /\ UNCHANGED <<texts, vectors, meta, abort>>
      /\ frames' = WithTop(Done(FALSE))
      /\ status' = status \/ (~Known(Doing) /\ StatusAt(Doing, "contentError"))
  BY DEF RejectKnown, RejectContent, Working, cacheVars, tableVars, StatusAt
<1>2. FramesOk' /\ Doing \in Doc /\ \A d : WaitingFor(d)' <=> WaitingFor(d)
  BY <1>1, DoneKeeps DEF Orderly
<1>3. KeptOk' /\ \A d : Kept(d)' <=> Kept(d)
  BY <1>1, TextStays DEF Orderly
<1>4. Waiters({}) /\ Fewer({})
  BY <1>2, <1>3 DEF Waiters, Fewer
<1>5. \A d \in Doc : status'[d] = status[d] \/ (status'[d] = "contentError" /\ ~Kept(d))
  BY <1>1, <1>2, KnownIsKept DEF Typed, StatusAt
<1>6. \A d \in Doc : d \in abort => status[d] # "start" /\ WaitingFor(d)
  BY DEF Orderly, ProgressOk
<1>7. /\ \A d \in Doc : status'[d] = status[d]
                          \/ (status'[d] \notin {"start", "success"} /\ (d \in {} \/ ~Kept(d)))
      /\ \A d \in abort' : status'[d] # "start" /\ d \in abort /\ d \in Doc
  BY <1>1, <1>5, <1>6 DEF Typed
<1> QED
  BY <1>1, <1>2, <1>3, <1>4, <1>7, OrderlyAgain DEF Typed

LEMMA StartOrderly ==
    ASSUME Orderly, Typed, StartEmbedding
    PROVE  Orderly'
<1>1. /\ frames # <<>> /\ Top.todo # <<>> /\ ~Top.waiting /\ UNCHANGED <<texts, vectors, meta, abort>>
      /\ ~Known(Doing) /\ StatusAt(Doing, "start")
      /\ frames' = WithTop([Top EXCEPT !.waiting = TRUE])
  BY DEF StartEmbedding, Working, cacheVars, StatusAt
<1>2. /\ FramesOk' /\ Doing \in Doc /\ ~WaitingFor(Doing)
      /\ \A d : WaitingFor(d)' <=> WaitingFor(d) \/ d = Doing
  BY <1>1, WaitKeeps DEF Orderly
<1>3. KeptOk' /\ \A d : Kept(d)' <=> Kept(d)
  BY <1>1, TextStays DEF Orderly
<1>4. \A d \in Doc : status'[d] = IF d = Doing THEN "start" ELSE status[d]
  BY <1>1, <1>2 DEF Typed, StatusAt
<1>5. ASSUME NEW d \in Doc PROVE ProgressOk(d)'
  <2>1. ProgressOk(d) /\ ProgressOk(Doing)
    BY <1>2 DEF Orderly
  <2> QED
    BY <1>1, <1>2, <1>3, <1>4, <2>1, KnownIsKept, KnownIsKeptNext DEF ProgressOk
<1>6. Listed'
  BY <1>1, <1>3, <1>4, KnownIsKept, KnownIsKeptNext DEF Orderly, Listed
<1> QED
  BY <1>2, <1>3, <1>5, <1>6 DEF Orderly

LEMMA EmbedEndsOrderly ==
    ASSUME Orderly, Typed, EmbedAborted \/ EmbedFails
    PROVE  Orderly'
<1>1. /\ frames # <<>> /\ Top.waiting /\ UNCHANGED <<texts, vectors, meta>>
      /\ frames' = WithTop(Done(FALSE))
      /\ \/ Doing \in abort /\ abort' = abort \ {Doing} /\ status' = status
         \/ Doing \notin abort /\ abort' = abort /\ StatusAt(Doing, "embeddingError")
  BY DEF EmbedAborted, EmbedFails, Answered, Forget, cacheVars, tableVars, StatusAt
<1>2. Top.todo # <<>>
  BY <1>1, TopIs DEF Orderly
<1>3. FramesOk' /\ Doing \in Doc /\ \A d : WaitingFor(d)' <=> WaitingFor(d) /\ d # Doing
  BY <1>1, <1>2, DoneKeeps DEF Orderly
<1>4. KeptOk' /\ \A d : Kept(d)' <=> Kept(d)
  BY <1>1, TextStays DEF Orderly
<1>5. WaitingFor(Doing)
  <2>1. Len(frames) \in 1..Len(frames) /\ Top = frames[Len(frames)]
    BY <1>1, TopIs DEF Orderly
  <2> QED
    BY <1>1, <2>1 DEF WaitingFor, WaitsFor, Paused, Doing
<1>6. \A d \in Doc : ProgressOk(d)
  BY DEF Orderly
<1>7. ~Kept(Doing)
  BY <1>3, <1>5, <1>6, KnownIsKept DEF ProgressOk
<1>8. \A d \in Doc : status'[d] = status[d] \/ (status'[d] = "embeddingError" /\ d = Doing)
  BY <1>1, <1>3 DEF Typed, StatusAt
<1>9. status'[Doing] # "start"
  BY <1>1, <1>3, <1>6 DEF ProgressOk, Typed, StatusAt
<1>10. ASSUME NEW d \in Doc PROVE ProgressOk(d)'
  BY <1>1, <1>3, <1>4, <1>6, <1>8, <1>9, KnownIsKept, KnownIsKeptNext DEF ProgressOk
<1>11. Listed'
  BY <1>4, <1>7, <1>8, KnownIsKept, KnownIsKeptNext DEF Orderly, Listed
<1> QED
  BY <1>3, <1>4, <1>10, <1>11 DEF Orderly

-----------------------------------------------------------------------------
(* The maps                                                                *)

LEMMA ChunkFacts ==
    /\ Blank \notin Chunk
    /\ \A d \in Doc, k \in 1..MaxId : <<d, k>> \in Chunk /\ <<d, k>>[1] = d
    /\ \A c \in Chunk : c[1] \in Doc
<1>1. MaxId \in Nat /\ Blank \notin Doc \X Nat
  BY IndexAssumption DEF IndexAssumption
<1>2. \A d \in Doc, k \in 1..MaxId : <<d, k>> \in Doc \X Nat
  BY <1>1
<1> QED
  BY <1>1, <1>2 DEF Chunk

LEMMA ChunksAre ==
    ASSUME NEW d \in Doc
    PROVE  ChunksOf[d] \in Nat /\ ChunksOf[d] >= 1 /\ MaxId \in Nat /\ DumpThreshold \in Nat \ {0}
BY IndexAssumption DEF IndexAssumption

LEMMA WithoutIs ==
    ASSUME NEW map, NEW ids
    PROVE  /\ DOMAIN Without(map, ids) = DOMAIN map \ ids
           /\ \A i \in DOMAIN map \ ids : Without(map, ids)[i] = map[i]
BY DEF Without, Restrict

LEMMA WithoutTyped ==
    ASSUME NEW map, NEW ids, NEW V, map \in [DOMAIN map -> V]
    PROVE  Without(map, ids) \in [DOMAIN map \ ids -> V]
BY DEF Without, Restrict

LEMMA NothingIs ==
    /\ DOMAIN Nothing = {} /\ \A V : Nothing \in [{} -> V]
    /\ \A V, D : \A map \in [D -> V] : map = Nothing <=> D = {}
BY DEF Nothing

LEMMA FiniteIds ==
    ASSUME NEW S \in SUBSET Id
    PROVE  /\ S \in SUBSET Int /\ IsFiniteSet(S) /\ Cardinality(S) \in Nat
           /\ \A i \in S : i \in Nat /\ i <= MaxId
<1>1. MaxId \in Nat
  BY IndexAssumption DEF IndexAssumption
<1>2. IsFiniteSet(Id) /\ \A i \in Id : i \in Nat /\ i <= MaxId /\ i \in Int
  BY <1>1, FS_Interval DEF Id
<1> QED
  BY <1>2, FS_Subset, FS_CardinalityType

LEMMA LastIdTyped ==
    ASSUME MapsTyped, DOMAIN seg \subseteq Id
    PROVE  LastId \in Nat
<1>1. CASE seg = Nothing
  BY <1>1 DEF LastId
<1>2. CASE seg # Nothing
  <2>1. DOMAIN seg # {}
    BY <1>2, NothingIs DEF MapsTyped
  <2>2. Max(DOMAIN seg) \in DOMAIN seg
    BY <2>1, FiniteIds, Extremes
  <2>3. Max(DOMAIN seg) \in Nat
    BY <2>2, FiniteIds
  <2> QED
    BY <1>2, <2>3 DEF LastId
<1> QED
  BY <1>1, <1>2

LEMMA NextIdTyped ==
    ASSUME MapsTyped, DOMAIN seg \subseteq Id, DOMAIN texts \subseteq Id
    PROVE  NextId \in Nat
BY FiniteIds, LastIdTyped DEF NextId

\* Less of a map.
Part(f, g) == DOMAIN f \subseteq DOMAIN g /\ \A i \in DOMAIN f : f[i] = g[i]

LEMMA LessIsKept ==
    ASSUME KeptOk, Part(texts', texts), Part(meta', meta),
           \A i \in DOMAIN texts' : texts'[i] \in Chunk => i \in DOMAIN vectors'
    PROVE  KeptOk' /\ \A d : Kept(d)' => Kept(d)
<1>1. KeptOk'
  BY DEF KeptOk, Part
<1>2. ASSUME NEW d, Kept(d)' PROVE Kept(d)
  BY <1>2 DEF Kept, IsOf, Part
<1> QED
  BY <1>1, <1>2

LEMMA UpdateOrderly ==
    ASSUME Orderly, Typed, UpdateIndex \/ EmbeddingClear
    PROVE  Orderly'
<1>1. /\ frames # <<>> /\ ~Top.waiting /\ frames' = Front(frames)
      /\ UNCHANGED <<abort, status, meta>>
      /\ UNCHANGED <<texts, vectors>> \/ texts' = Nothing
  BY DEF UpdateIndex, EmbeddingClear, Working, cacheVars, tableVars
<1>2. FramesOk' /\ \A d : WaitingFor(d)' <=> WaitingFor(d)
  BY <1>1, ReturnKeeps DEF Orderly
<1>3. Part(texts', texts) /\ Part(meta', meta)
  BY <1>1, NothingIs DEF Part
<1>4. \A i \in DOMAIN texts' : texts'[i] \in Chunk => i \in DOMAIN vectors'
  BY <1>1, NothingIs DEF Orderly, KeptOk
<1>5. KeptOk' /\ \A d : Kept(d)' => Kept(d)
  BY <1>3, <1>4, LessIsKept DEF Orderly
<1>6. Waiters({}) /\ Fewer({})
  BY <1>2, <1>5 DEF Waiters, Fewer
<1>7. \A d \in Doc : d \in abort => status[d] # "start" /\ WaitingFor(d)
  BY DEF Orderly, ProgressOk
<1> QED
  BY <1>1, <1>2, <1>5, <1>6, <1>7, OrderlyAgain DEF Typed

\* The maps after a document's chunks were cached.
NewIds == NextId..(NextId + ChunksOf[Doing] - 1)
LEMMA CachedIs ==
    ASSUME EmbedSucceeds, NextId \in Nat, Doing \in Doc
    PROVE  /\ texts' \in [DOMAIN texts \cup NewIds -> {texts[i] : i \in DOMAIN texts} \cup Chunk]
           /\ vectors' \in [DOMAIN vectors \cup NewIds -> {vectors[i] : i \in DOMAIN vectors} \cup Chunk]
           /\ \A i \in NewIds : /\ texts'[i] = <<Doing, i - NextId + 1>>
                                /\ vectors'[i] = <<Doing, i - NextId + 1>>
                                /\ <<Doing, i - NextId + 1>> \in Chunk /\ i \in Id
           /\ \A i \in DOMAIN texts \ NewIds : texts'[i] = texts[i]
           /\ \A i \in DOMAIN vectors \ NewIds : vectors'[i] = vectors[i]
<1>1. \A i \in NewIds : <<Doing, i - NextId + 1>> \in Chunk /\ i \in Id
  <2> SUFFICES ASSUME NEW i \in NewIds
               PROVE  <<Doing, i - NextId + 1>> \in Chunk /\ i \in Id
    OBVIOUS
  <2>1. ChunksOf[Doing] \in Nat /\ MaxId \in Nat /\ NextId + ChunksOf[Doing] <= MaxId
    BY ChunksAre DEF EmbedSucceeds
  <2>2. i - NextId + 1 \in 1..MaxId /\ i \in 0..MaxId
    BY <2>1 DEF NewIds
  <2> QED
    BY <2>2, ChunkFacts DEF Id
<1> DEFINE chunks == [i \in NewIds |-> <<Doing, i - NextId + 1>>]
<1>2. /\ texts' = [i \in DOMAIN texts \cup NewIds |-> IF i \in NewIds THEN chunks[i] ELSE texts[i]]
      /\ vectors' = [i \in DOMAIN vectors \cup NewIds |-> IF i \in NewIds THEN chunks[i] ELSE vectors[i]]
  BY DEF EmbedSucceeds, NewIds
<1>3. \A i \in NewIds : chunks[i] = <<Doing, i - NextId + 1>>
  OBVIOUS
<1> HIDE DEF chunks
<1> QED
  BY <1>1, <1>2, <1>3

LEMMA EmbedSucceedsOrderly ==
    ASSUME Orderly, Typed, EmbedSucceeds, NextId \in Nat
    PROVE  Orderly'
<1>1. /\ frames # <<>> /\ Top.waiting /\ UNCHANGED <<abort, meta>>
      /\ frames' = WithTop(Done(TRUE)) /\ Doing \notin abort /\ StatusAt(Doing, "success")
  BY DEF EmbedSucceeds, Answered, StatusAt
<1>2. Top.todo # <<>>
  BY <1>1, TopIs DEF Orderly
<1>3. FramesOk' /\ Doing \in Doc /\ \A d : WaitingFor(d)' <=> WaitingFor(d) /\ d # Doing
  BY <1>1, <1>2, DoneKeeps DEF Orderly
<1>4. WaitingFor(Doing)
  <2>1. Len(frames) \in 1..Len(frames) /\ Top = frames[Len(frames)]
    BY <1>1, TopIs DEF Orderly
  <2> QED
    BY <1>1, <2>1 DEF WaitingFor, WaitsFor, Paused, Doing
<1>5. \A d \in Doc : ProgressOk(d)
  BY DEF Orderly
<1>6. ~Kept(Doing)
  BY <1>3, <1>4, <1>5, KnownIsKept DEF ProgressOk
<1>7. /\ DOMAIN texts' = DOMAIN texts \cup NewIds /\ DOMAIN vectors' = DOMAIN vectors \cup NewIds
      /\ \A i \in NewIds : /\ texts'[i] = <<Doing, i - NextId + 1>>
                           /\ <<Doing, i - NextId + 1>> \in Chunk
      /\ \A i \in DOMAIN texts \ NewIds : texts'[i] = texts[i]
  BY <1>3, CachedIs
<1>8. \A i \in NewIds : texts'[i] \in Chunk /\ texts'[i][1] = Doing /\ texts'[i][2] = i - NextId + 1
  <2> SUFFICES ASSUME NEW i \in NewIds
               PROVE  texts'[i] \in Chunk /\ texts'[i][1] = Doing /\ texts'[i][2] = i - NextId + 1
    OBVIOUS
  <2>1. texts'[i] = <<Doing, i - NextId + 1>> /\ texts'[i] \in Chunk
    BY <1>7
  <2> QED
    BY <2>1
<1>9. KeptOk'
  <2>1. \A i \in DOMAIN texts' : texts'[i] \in Chunk => i \in DOMAIN vectors'
    BY <1>7 DEF Orderly, KeptOk
  <2>2. \A i \in DOMAIN texts : texts[i] \in Chunk => texts[i][1] # Doing
    BY <1>6 DEF Kept, IsOf
  <2>3. \A i \in DOMAIN meta : meta[i] \in Chunk => meta[i][1] # Doing
    BY <1>6 DEF Kept, IsOf
  <2>4. ASSUME NEW i \in DOMAIN texts', NEW j \in DOMAIN texts', texts'[i] \in Chunk,
               texts'[i] = texts'[j]
        PROVE  i = j
    <3>1. CASE i \in NewIds /\ j \in NewIds
      <4>1. i - NextId + 1 = j - NextId + 1
        BY <1>8, <2>4, <3>1
      <4>2. i \in Int /\ j \in Int
        BY <3>1, <1>3, ChunksAre DEF NewIds
      <4> QED
        BY <4>1, <4>2
    <3>2. CASE i \in NewIds /\ j \notin NewIds
      BY <1>7, <1>8, <2>2, <2>4, <3>2
    <3>3. CASE i \notin NewIds /\ j \in NewIds
      BY <1>7, <1>8, <2>2, <2>4, <3>3
    <3>4. CASE i \notin NewIds /\ j \notin NewIds
      BY <1>7, <2>4, <3>4 DEF Orderly, KeptOk
    <3> QED
      BY <3>1, <3>2, <3>3, <3>4
  <2>5. ASSUME NEW i \in DOMAIN texts', NEW j \in DOMAIN meta, texts'[i] \in Chunk
        PROVE  texts'[i] # meta[j]
    <3>1. CASE i \in NewIds
      BY <1>8, <2>3, <3>1
    <3>2. CASE i \notin NewIds
      BY <1>7, <2>5, <3>2 DEF Orderly, KeptOk
    <3> QED
      BY <3>1, <3>2
  <2> QED
    BY <1>1, <2>1, <2>4, <2>5 DEF Orderly, KeptOk
<1>10. \A d \in Doc : Kept(d)' => Kept(d) \/ d = Doing
  BY <1>1, <1>7, <1>8 DEF Kept, IsOf
<1>11. \A d \in Doc : status'[d] = IF d = Doing THEN "success" ELSE status[d]
  BY <1>1, <1>3 DEF Typed, StatusAt
<1>12. ASSUME NEW d \in Doc PROVE ProgressOk(d)'
  BY <1>1, <1>3, <1>5, <1>10, <1>11, KnownIsKept, KnownIsKeptNext DEF ProgressOk
<1>13. Listed'
  BY <1>10, <1>11, KnownIsKept, KnownIsKeptNext DEF Orderly, Listed
<1> QED
  BY <1>3, <1>9, <1>12, <1>13 DEF Orderly

\* The ids a dump takes out of the cache, and the table it leaves.
DumpedIds == {i \in DOMAIN texts : range[1] <= i /\ i <= range[2]}
WithDumped ==
    [i \in DOMAIN meta \cup DumpedIds |-> IF i \in DumpedIds THEN texts[i] ELSE meta[i]]

LEMMA DumpTextsIs ==
    ASSUME DumpTexts
    PROVE  /\ DOMAIN texts' = DOMAIN texts \ DumpedIds
           /\ \A i \in DOMAIN texts \ DumpedIds : texts'[i] = texts[i]
           /\ DOMAIN vectors' = DOMAIN vectors \ DumpedIds
           /\ \A i \in DOMAIN vectors \ DumpedIds : vectors'[i] = vectors[i]
           /\ DumpedIds \subseteq DOMAIN texts
           /\ \/ /\ meta' = WithDumped /\ DumpedIds \cap DOMAIN meta = {} /\ DumpedIds # {}
                 /\ dump' = "index" /\ (damaged' <=> damaged)
              \/ meta' = meta /\ dump' = "no" /\ (damaged' <=> damaged \/ DumpedIds # {})
           /\ UNCHANGED <<frames, abort, index, range, status, seg, disk>>
<1>1. texts' = Without(texts, DumpedIds) /\ vectors' = Without(vectors, DumpedIds)
  BY DEF DumpTexts, DumpedIds
<1>2. DumpedIds \subseteq DOMAIN texts
  BY DEF DumpedIds
<1>3. PICK stored \in BOOLEAN :
          /\ stored => DumpedIds # {} /\ ~(DumpedIds \cap DOMAIN meta # {})
          /\ meta' = IF stored THEN WithDumped ELSE meta
          /\ dump' = IF stored THEN "index" ELSE "no"
          /\ damaged' = (damaged \/ (DumpedIds # {} /\ ~stored))
  BY DEF DumpTexts, DumpedIds, WithDumped
<1>4. UNCHANGED <<frames, abort, index, range, status, seg, disk>>
  BY DEF DumpTexts
<1>7. /\ DOMAIN texts' = DOMAIN texts \ DumpedIds
      /\ \A i \in DOMAIN texts \ DumpedIds : texts'[i] = texts[i]
      /\ DOMAIN vectors' = DOMAIN vectors \ DumpedIds
      /\ \A i \in DOMAIN vectors \ DumpedIds : vectors'[i] = vectors[i]
  BY <1>1, WithoutIs
<1>5. CASE stored
  BY <1>2, <1>3, <1>4, <1>5, <1>7
<1>6. CASE ~stored
  BY <1>2, <1>3, <1>4, <1>6, <1>7
<1> QED
  BY <1>5, <1>6

LEMMA DumpTextsOrderly ==
    ASSUME Orderly, Typed, DumpTexts
    PROVE  Orderly'
<1>1. FramesOk' /\ \A d : WaitingFor(d)' <=> WaitingFor(d)
  BY DumpTextsIs DEF Orderly, FramesOk, FramesTyped, Paused, WaitingFor, WaitsFor
<1>2. KeptOk' /\ \A d : Kept(d)' => Kept(d)
  <2>1. \A i \in DOMAIN texts' : texts'[i] \in Chunk => i \in DOMAIN vectors'
    BY DumpTextsIs DEF Orderly, KeptOk
  <2>2. Part(texts', texts)
    BY DumpTextsIs DEF Part
  <2>3. CASE meta' = meta
    BY <2>1, <2>2, <2>3, LessIsKept DEF Part, Orderly
  <2>4. CASE meta' = WithDumped /\ DumpedIds \cap DOMAIN meta = {}
    <3>1. /\ DOMAIN meta' = DOMAIN meta \cup DumpedIds
          /\ \A i \in DumpedIds : meta'[i] = texts[i] /\ i \in DOMAIN texts /\ i \notin DOMAIN texts'
          /\ \A i \in DOMAIN meta : meta'[i] = meta[i]
      BY <2>4, DumpTextsIs DEF WithDumped
    <3>2. \A i, j \in DOMAIN meta' : meta'[i] \in Chunk /\ meta'[i] = meta'[j] => i = j
      BY <3>1 DEF Orderly, KeptOk
    <3>3. \A i \in DOMAIN texts', j \in DOMAIN meta' : texts'[i] \in Chunk => texts'[i] # meta'[j]
      BY <2>2, <3>1 DEF Orderly, KeptOk, Part
    <3>4. \A i, j \in DOMAIN texts' : texts'[i] \in Chunk /\ texts'[i] = texts'[j] => i = j
      BY <2>2 DEF Orderly, KeptOk, Part
    <3>5. ASSUME NEW d, Kept(d)' PROVE Kept(d)
      BY <2>2, <3>1, <3>5 DEF Kept, IsOf, Part
    <3> QED
      BY <2>1, <3>2, <3>3, <3>4, <3>5 DEF KeptOk
  <2> QED
    BY <2>3, <2>4, DumpTextsIs
<1>3. Waiters({}) /\ Fewer({})
  BY <1>1, <1>2 DEF Waiters, Fewer
<1>4. \A d \in Doc : d \in abort => status[d] # "start" /\ WaitingFor(d)
  BY DEF Orderly, ProgressOk
<1> QED
  BY <1>1, <1>2, <1>3, <1>4, DumpTextsIs, OrderlyAgain DEF Typed

LEMMA DeleteOrderly ==
    ASSUME Orderly, Typed, MapsTyped, NEW d \in Doc, DeleteIndex(d)
    PROVE  Orderly'
<1>1. /\ StatusAt(d, "absent") /\ UNCHANGED frames
      /\ abort' = IF status[d] = "start" THEN abort \cup {d} ELSE abort
  BY DEF DeleteIndex, StatusAt
<1>2. FramesOk' /\ \A e : WaitingFor(e)' <=> WaitingFor(e)
  BY <1>1 DEF Orderly, FramesOk, FramesTyped, Paused, WaitingFor, WaitsFor
<1>3. KeptOk' /\ (\A e : Kept(e)' => Kept(e)) /\ ~Kept(d)'
  <2>1. CASE status[d] # "success"
    <3>1. UNCHANGED <<texts, vectors, meta>>
      BY <2>1 DEF DeleteIndex
    <3>2. ~Kept(d)
      BY <2>1, KnownIsKept DEF Orderly, Listed
    <3> QED
      BY <3>1, <3>2, TextStays DEF Orderly
  <2>2. CASE status[d] = "success"
    <3>1. DeleteCached(d) /\ meta' = Without(meta, IdsOf(meta, d))
      BY <2>2 DEF DeleteIndex, DeleteStored
    <3>2. Part(meta', meta) /\ \A i \in DOMAIN meta' : ~IsOf(meta, i, d)
      <4>1. /\ DOMAIN meta' = DOMAIN meta \ IdsOf(meta, d)
            /\ \A i \in DOMAIN meta \ IdsOf(meta, d) : meta'[i] = meta[i]
        BY <3>1, WithoutIs
      <4> QED
        BY <4>1 DEF Part, IdsOf, IsOf
    <3>3. /\ Part(texts', texts) /\ (\A i \in DOMAIN texts' : ~IsOf(texts, i, d))
          /\ \A i \in DOMAIN texts' : texts'[i] \in Chunk => i \in DOMAIN vectors'
      <4>1. CASE vectors = Nothing
        <5>1. texts' = texts /\ vectors' = vectors
          BY <3>1, <4>1 DEF DeleteCached
        <5>2. DOMAIN vectors = {}
          BY <4>1, NothingIs
        <5> QED
          BY <5>1, <5>2 DEF Part, IsOf, Orderly, KeptOk
      <4>2. CASE vectors # Nothing
        <5>1. texts' = Without(texts, CachedIds(d)) /\ vectors' = Without(vectors, CachedIds(d))
          BY <3>1, <4>2 DEF DeleteCached
        <5> QED
          <6>1. /\ DOMAIN texts' = DOMAIN texts \ IdsOf(texts, d)
                /\ \A i \in DOMAIN texts \ IdsOf(texts, d) : texts'[i] = texts[i]
                /\ DOMAIN vectors' = DOMAIN vectors \ IdsOf(texts, d)
            BY <5>1, WithoutIs DEF CachedIds
          <6> QED
            BY <6>1 DEF Part, IdsOf, IsOf, Orderly, KeptOk
      <4> QED
        BY <4>1, <4>2
    <3>4. KeptOk' /\ \A e : Kept(e)' => Kept(e)
      BY <3>2, <3>3, LessIsKept DEF Orderly
    <3>5. ~Kept(d)'
      BY <3>2, <3>3 DEF Kept, IsOf, Part
    <3> QED
      BY <3>4, <3>5
  <2> QED
    BY <2>1, <2>2
<1>4. Waiters({}) /\ Fewer({d})
  BY <1>2, <1>3 DEF Waiters, Fewer
<1>5. \A e \in Doc : ProgressOk(e)
  BY DEF Orderly
<1>6. \A e \in Doc : status'[e] = IF e = d THEN "absent" ELSE status[e]
  BY <1>1 DEF Typed, StatusAt
<1>7. /\ abort' \subseteq Doc
      /\ \A e \in abort' : (e \in abort \/ WaitingFor(e)) /\ status'[e] # "start"
  BY <1>1, <1>5, <1>6 DEF Typed, ProgressOk
<1>8. {d} \in SUBSET Doc
  OBVIOUS
<1> QED
  BY <1>2, <1>3, <1>4, <1>6, <1>7, <1>8, OrderlyAgain DEF Typed

LEMMA LoadOrderly ==
    ASSUME Orderly, LoadText
    PROVE  Orderly'
<1>1. /\ UNCHANGED <<frames, abort, vectors, meta, status>>
      /\ texts' = texts \/ (/\ DOMAIN texts' = DOMAIN texts \cup {hit} /\ hit \notin DOMAIN texts
                            /\ \A i \in DOMAIN texts : texts'[i] = texts[i]
                            /\ texts'[hit] = Blank)
  BY DEF LoadText, tableVars
<1>2. CASE texts' = texts
  BY <1>1, <1>2, OrderlyStill
<1>3. CASE texts' # texts
  <2>1. \A i \in DOMAIN texts' : texts'[i] \in Chunk => i \in DOMAIN texts /\ texts'[i] = texts[i]
    BY <1>1, <1>3, ChunkFacts
  <2>2. KeptOk'
    BY <1>1, <2>1 DEF Orderly, KeptOk
  <2>3. \A d : Kept(d)' => Kept(d)
    BY <1>1, <2>1 DEF Kept, IsOf
  <2>4. FramesOk' /\ \A d : WaitingFor(d)' <=> WaitingFor(d)
    BY <1>1 DEF Orderly, FramesOk, FramesTyped, Paused, WaitingFor, WaitsFor
  <2>5. ASSUME NEW d \in Doc PROVE ProgressOk(d)'
    BY <1>1, <2>3, <2>4, KnownIsKept, KnownIsKeptNext DEF Orderly, ProgressOk
  <2>6. Listed'
    BY <1>1, <2>3, KnownIsKept, KnownIsKeptNext DEF Orderly, Listed
  <2> QED
    BY <2>2, <2>4, <2>5, <2>6 DEF Orderly
<1> QED
  BY <1>2, <1>3

LEMMA RestartOrderly ==
    ASSUME Orderly, Typed, Restart
    PROVE  Orderly'
<1>1. /\ frames' = <<>> /\ abort' = {} /\ texts' = Nothing /\ vectors' = Nothing /\ meta' = meta
      /\ status' = [d \in Doc |-> InitialStatus(d)]
  BY DEF Restart
<1>2. FramesOk' /\ \A d : ~WaitingFor(d)'
  BY <1>1 DEF FramesOk, FramesTyped, Paused, WaitingFor, WaitsFor
<1>3. KeptOk' /\ \A d : Kept(d)' => Kept(d)
  <2>1. /\ Part(texts', texts) /\ Part(meta', meta)
        /\ \A i \in DOMAIN texts' : texts'[i] \in Chunk => i \in DOMAIN vectors'
    BY <1>1, NothingIs DEF Part
  <2> QED
    BY <2>1, LessIsKept DEF Orderly
<1>4. ASSUME NEW d \in Doc
      PROVE  status'[d] # "start" /\ (Kept(d)' => status'[d] = "success")
  <2>1. status'[d] = InitialStatus(d)
    BY <1>1
  <2>2. InitialStatus(d) # "start"
    BY DEF InitialStatus
  <2>3. ASSUME Kept(d)' PROVE InitialStatus(d) = "success"
    <3>1. IdsOf(meta, d) # {}
      BY <1>1, <2>3, NothingIs DEF Kept, IsOf, IdsOf
    <3>2. status[d] = "success"
      BY <1>3, <2>3, KnownIsKept DEF Orderly, Listed
    <3> QED
      BY <3>1, <3>2 DEF InitialStatus
  <2> QED
    BY <2>1, <2>2, <2>3
<1>5. ASSUME NEW d \in Doc PROVE ProgressOk(d)'
  BY <1>1, <1>2, <1>4 DEF ProgressOk
<1>6. Listed'
  BY <1>4, KnownIsKeptNext DEF Listed
<1> QED
  BY <1>2, <1>3, <1>5, <1>6 DEF Orderly

-----------------------------------------------------------------------------
(* Types                                                                   *)

Shape ==
    /\ abort \subseteq Doc
    /\ DOMAIN texts \subseteq Id /\ DOMAIN vectors \subseteq Id
    /\ index \in Seq(Entry)
    /\ range \in Id \X (Id \cup {-1})
    /\ status \in [Doc -> Status]
    /\ DOMAIN meta \subseteq Id /\ DOMAIN seg \subseteq Id
    /\ disk \subseteq Entry
    /\ dump \in {"no", "due", "index", "file"}
    /\ hit \in Id \cup {None}
    /\ searches \in 0..MaxSearches /\ creates \in 0..MaxCreates
    /\ damaged \in BOOLEAN

LEMMA ShapeIs ==
    /\ IndexTypeOK /\ MapsTyped => FramesTyped /\ Shape
    /\ FramesTyped /\ Shape /\ MapsTyped => IndexTypeOK
<1>1. ASSUME MapsTyped
      PROVE  /\ Range(texts) \subseteq Chunk \cup {Blank} /\ Range(vectors) \subseteq Chunk
             /\ Range(meta) \subseteq Chunk \cup {Blank} /\ Range(seg) \subseteq BOOLEAN
  BY <1>1 DEF MapsTyped, Range
<1> QED
  BY <1>1 DEF IndexTypeOK, FramesTyped, Shape

LEMMA IdsAre ==
    /\ 0 \in Id /\ MaxId \in Id /\ Id \subseteq Nat /\ MaxId \in Nat
    /\ EmptyRange \in Id \X (Id \cup {-1}) /\ <<0, MaxId>> \in Id \X (Id \cup {-1})
    /\ \A i \in Int : i \in Id <=> 0 <= i /\ i <= MaxId
    /\ \A i \in Id : i \in Nat /\ i <= MaxId
<1>1. MaxId \in Nat
  BY IndexAssumption DEF IndexAssumption
<1>2. 0 \in Id /\ MaxId \in Id /\ Id \subseteq Nat /\ \A i \in Int : i \in Id <=> 0 <= i /\ i <= MaxId
  BY <1>1 DEF Id
<1> QED
  BY <1>1, <1>2 DEF EmptyRange

LEMMA ListIsSeq ==
    ASSUME NEW S \in SUBSET Int, IsFiniteSet(S)
    PROVE  /\ Ascending(S) \in Seq(S) /\ Len(Ascending(S)) = Cardinality(S)
           /\ DOMAIN Ascending(S) = 1..Cardinality(S) /\ Cardinality(S) \in Nat
           /\ S # {} => Cardinality(S) >= 1
<1>1. Cardinality(S) \in Nat /\ Ascending(S) \in [1..Cardinality(S) -> S]
  BY AscendingTyped
<1>2. S # {} => Cardinality(S) # 0
  BY FS_EmptySet
<1> QED
  BY <1>1, <1>2

LEMMA EntryIs ==
    /\ \A i \in Id, v \in Chunk \cup {Junk} :
          [id |-> i, vec |-> v] \in Entry /\ [id |-> i, vec |-> v].id = i /\ [id |-> i, vec |-> v].vec = v
    /\ \A e \in Entry : e.id \in Id /\ e.vec \in Chunk \cup {Junk}
BY DEF Entry

\* The first new id, the new ids, and the vectors that are there for them.
FirstNew == Len(index) + Min(DOMAIN vectors)
NewKeys == FirstNew..Max(DOMAIN vectors)
NewVectors == {i \in DOMAIN vectors : i >= FirstNew}
NewEntry(i) ==
    [id |-> Ascending(NewKeys)[i],
     vec |-> IF i <= Len(Ascending(NewVectors)) THEN vectors[Ascending(NewVectors)[i]] ELSE Junk]

LEMMA NewEntriesIs ==
    /\ DOMAIN NewEntries = DOMAIN Ascending(NewKeys)
    /\ NewEntries = [i \in DOMAIN Ascending(NewKeys) |-> NewEntry(i)]
    /\ \A i \in DOMAIN Ascending(NewKeys) : NewEntries[i] = NewEntry(i)
<1>1. NewEntries = [i \in DOMAIN Ascending(NewKeys) |-> NewEntry(i)]
  BY DEF NewEntries, NewKeys, NewVectors, FirstNew, NewEntry
<1> QED
  BY <1>1

LEMMA NewEntriesTyped ==
    ASSUME Shape, MapsTyped, vectors # Nothing
    PROVE  NewEntries \in Seq(Entry) /\ (index = <<>> => NewEntries # <<>>)
<1>1. DOMAIN vectors # {} /\ DOMAIN vectors \in SUBSET Id
  <2>1. vectors \in [DOMAIN vectors -> Chunk]
    BY DEF MapsTyped
  <2>2. DOMAIN vectors # {}
    BY <2>1, NothingIs
  <2> QED
    BY <2>2 DEF Shape
<1>2. /\ Min(DOMAIN vectors) \in Id /\ Max(DOMAIN vectors) \in Id
      /\ Min(DOMAIN vectors) <= Max(DOMAIN vectors)
  BY <1>1, FiniteIds, Extremes
<1>3. FirstNew \in Nat /\ Max(DOMAIN vectors) \in Nat /\ Max(DOMAIN vectors) <= MaxId
      /\ (index = <<>> => FirstNew = Min(DOMAIN vectors))
  <2>1. Min(DOMAIN vectors) \in Nat /\ Max(DOMAIN vectors) \in Nat /\ Max(DOMAIN vectors) <= MaxId
    BY <1>2, IdsAre
  <2>2. Len(index) \in Nat /\ (index = <<>> => Len(index) = 0)
    BY DEF Shape
  <2> QED
    BY <2>1, <2>2 DEF FirstNew
<1>4. NewKeys \subseteq Id /\ (index = <<>> => NewKeys # {})
  BY <1>2, <1>3, IdsAre DEF NewKeys
<1>5. NewVectors \subseteq Id /\ NewVectors \subseteq DOMAIN vectors
  BY <1>1 DEF NewVectors
<1>6. /\ Ascending(NewKeys) \in Seq(NewKeys) /\ DOMAIN Ascending(NewKeys) = 1..Cardinality(NewKeys)
      /\ Cardinality(NewKeys) \in Nat /\ (NewKeys # {} => Cardinality(NewKeys) >= 1)
  BY <1>4, FiniteIds, ListIsSeq
<1>7. Ascending(NewVectors) \in Seq(NewVectors)
  BY <1>5, FiniteIds, ListIsSeq
<1>8. ASSUME NEW i \in 1..Cardinality(NewKeys) PROVE NewEntry(i) \in Entry
  <2>1. Ascending(NewKeys)[i] \in Id
    BY <1>4, <1>6
  <2>2. i <= Len(Ascending(NewVectors)) => vectors[Ascending(NewVectors)[i]] \in Chunk
    <3>1. SUFFICES ASSUME i <= Len(Ascending(NewVectors))
                   PROVE  vectors[Ascending(NewVectors)[i]] \in Chunk
      OBVIOUS
    <3>2. i \in 1..Len(Ascending(NewVectors))
      BY <1>6, <1>7, <3>1
    <3>3. Ascending(NewVectors)[i] \in NewVectors
      BY <1>7, <3>2
    <3> QED
      BY <1>5, <3>3 DEF MapsTyped
  <2> QED
    BY <2>1, <2>2, EntryIs DEF NewEntry
<1>9. NewEntries \in [1..Cardinality(NewKeys) -> Entry]
  BY <1>6, <1>8, NewEntriesIs
<1> QED
  BY <1>4, <1>6, <1>9

\* The entries of what is cached.
LEMMA RebuiltTyped ==
    ASSUME NEW map, DOMAIN map \subseteq Id, map \in [DOMAIN map -> Chunk]
    PROVE  Rebuilt(map) \in Seq(Entry) /\ (map # Nothing => Rebuilt(map) # <<>>)
<1>1. DOMAIN map \in SUBSET Id
  OBVIOUS
<1>2. /\ Ascending(DOMAIN map) \in Seq(DOMAIN map)
      /\ DOMAIN Ascending(DOMAIN map) = 1..Cardinality(DOMAIN map)
      /\ Cardinality(DOMAIN map) \in Nat /\ (DOMAIN map # {} => Cardinality(DOMAIN map) >= 1)
  BY <1>1, FiniteIds, ListIsSeq
<1>3. Rebuilt(map) = [i \in 1..Cardinality(DOMAIN map) |->
                         [id |-> Ascending(DOMAIN map)[i], vec |-> map[Ascending(DOMAIN map)[i]]]]
  BY <1>2 DEF Rebuilt
<1>4. ASSUME NEW i \in 1..Cardinality(DOMAIN map)
      PROVE  [id |-> Ascending(DOMAIN map)[i], vec |-> map[Ascending(DOMAIN map)[i]]] \in Entry
  <2>1. Ascending(DOMAIN map)[i] \in DOMAIN map
    BY <1>2
  <2> QED
    BY <1>1, <2>1, EntryIs
<1>5. Rebuilt(map) \in [1..Cardinality(DOMAIN map) -> Entry]
  BY <1>3, <1>4
<1>6. map # Nothing => DOMAIN map # {}
  BY NothingIs
<1> QED
  BY <1>2, <1>5, <1>6

LEMMA RangeOfTyped ==
    ASSUME NEW entries \in Seq(Entry), entries # <<>>
    PROVE  RangeOf(entries) \in Id \X (Id \cup {-1})
<1>1. Head(entries) \in Entry /\ Last(entries) \in Entry
  BY DEF Last
<1> QED
  BY <1>1, EntryIs DEF RangeOf

\* Steps that change no more than this keep every other type.
Untouched == UNCHANGED <<abort, texts, vectors, index, range, meta, seg, disk, dump, hit, searches>>

LEMMA UntouchedTyped ==
    ASSUME Shape, MapsTyped, Untouched, damaged' \in BOOLEAN, creates' \in 0..MaxCreates,
           status' \in [Doc -> Status]
    PROVE  Shape' /\ MapsTyped'
BY DEF Shape, MapsTyped, Untouched

LEMMA CallTyped ==
    ASSUME Shape, MapsTyped, FramesOk,
           (\E batch \in Batches : CreateIndex(batch)) \/ RejectKnown \/ RejectContent \/ StartEmbedding
               \/ EmbedAborted \/ EmbedFails
    PROVE  Shape' /\ MapsTyped'
<1>1. ASSUME NEW batch \in Batches, CreateIndex(batch) PROVE Shape' /\ MapsTyped'
  <2>1. batch \in Seq(Doc) /\ MaxCreates \in Nat
    BY IndexAssumption DEF IndexAssumption
  <2>2. creates' \in 0..MaxCreates
    BY <1>1, <2>1 DEF CreateIndex, Shape
  <2> QED
    BY <1>1, <2>2, UntouchedTyped DEF CreateIndex, Untouched, Shape, cacheVars, tableVars
<1>2. ASSUME RejectKnown PROVE Shape' /\ MapsTyped'
  BY <1>2, UntouchedTyped DEF RejectKnown, Untouched, Shape, cacheVars, tableVars, countVars
<1>3. ASSUME RejectContent PROVE Shape' /\ MapsTyped'
  BY <1>3, UntouchedTyped DEF RejectContent, Untouched, Shape, cacheVars, countVars, Status
<1>4. ASSUME StartEmbedding PROVE Shape' /\ MapsTyped'
  BY <1>4, UntouchedTyped DEF StartEmbedding, Untouched, Shape, cacheVars, countVars, Status
<1>5. ASSUME EmbedAborted PROVE Shape' /\ MapsTyped'
  BY <1>5 DEF EmbedAborted, Forget, Shape, MapsTyped, cacheVars, tableVars, countVars
<1>6. ASSUME EmbedFails PROVE Shape' /\ MapsTyped'
  BY <1>6, UntouchedTyped DEF EmbedFails, Untouched, Shape, cacheVars, countVars, Status
<1> QED
  BY <1>1, <1>2, <1>3, <1>4, <1>5, <1>6

LEMMA EmbedSucceedsTyped ==
    ASSUME Shape, MapsTyped, FramesOk, EmbedSucceeds
    PROVE  Shape' /\ MapsTyped'
<1>1. NextId \in Nat
  BY NextIdTyped DEF Shape
<1>2. Doing \in Doc
  <2>1. frames # <<>> /\ Top.todo # <<>>
    BY TopIs DEF EmbedSucceeds, Answered
  <2> QED
    BY <2>1, DoingIs
<1>3. /\ texts' \in [DOMAIN texts \cup NewIds -> {texts[i] : i \in DOMAIN texts} \cup Chunk]
      /\ vectors' \in [DOMAIN vectors \cup NewIds -> {vectors[i] : i \in DOMAIN vectors} \cup Chunk]
      /\ NewIds \subseteq Id
  BY <1>1, <1>2, CachedIs
<1>4. /\ {texts[i] : i \in DOMAIN texts} \subseteq Chunk \cup {Blank}
      /\ {vectors[i] : i \in DOMAIN vectors} \subseteq Chunk
  BY DEF MapsTyped
<1>5. /\ UNCHANGED <<abort, index, range, meta, seg, disk, dump, hit, searches, creates>>
      /\ status' = [status EXCEPT ![Doing] = "success"]
      /\ damaged' \in BOOLEAN
  BY DEF EmbedSucceeds, countVars
<1>6. /\ texts' \in [DOMAIN texts' -> Chunk \cup {Blank}] /\ DOMAIN texts' \subseteq Id
      /\ vectors' \in [DOMAIN vectors' -> Chunk] /\ DOMAIN vectors' \subseteq Id
  BY <1>3, <1>4 DEF Shape
<1>7. MapsTyped'
  BY <1>5, <1>6 DEF MapsTyped
<1> QED
  BY <1>2, <1>5, <1>6, <1>7 DEF Shape, Status

LEMMA UpdateTyped ==
    ASSUME Shape, MapsTyped, UpdateIndex \/ EmbeddingClear
    PROVE  Shape' /\ MapsTyped'
<1>1. ASSUME UpdateIndex PROVE Shape' /\ MapsTyped'
  <2>1. /\ vectors # Nothing /\ index' = index \o NewEntries /\ range' = RangeOf(index')
        /\ dump' \in {"no", "due"}
        /\ UNCHANGED <<abort, texts, vectors, meta, seg, disk, status, damaged, hit, searches, creates>>
    BY <1>1 DEF UpdateIndex, cacheVars, tableVars, countVars
  <2>2. NewEntries \in Seq(Entry) /\ (index = <<>> => NewEntries # <<>>) /\ index \in Seq(Entry)
    BY <2>1, NewEntriesTyped DEF Shape
  <2>3. index' \in Seq(Entry) /\ index' # <<>>
    BY <2>1, <2>2
  <2>4. range' \in Id \X (Id \cup {-1})
    BY <2>1, <2>3, RangeOfTyped
  <2> QED
    BY <2>1, <2>3, <2>4 DEF Shape, MapsTyped
<1>2. ASSUME EmbeddingClear PROVE Shape' /\ MapsTyped'
  <2>1. /\ texts' = Nothing /\ vectors' = Nothing /\ damaged' \in BOOLEAN
        /\ UNCHANGED <<abort, index, range, dump, meta, seg, disk, status, hit, searches, creates>>
    BY <1>2 DEF EmbeddingClear, tableVars, countVars
  <2>2. MapsTyped'
    BY <2>1, NothingIs DEF MapsTyped
  <2> QED
    BY <2>1, <2>2, NothingIs DEF Shape
<1> QED
  BY <1>1, <1>2

LEMMA DumpTyped ==
    ASSUME Shape, MapsTyped, DumpTexts \/ DumpSegment \/ DumpFile
    PROVE  Shape' /\ MapsTyped'
<1>1. ASSUME DumpTexts PROVE Shape' /\ MapsTyped'
  <2>1. texts' = Without(texts, DumpedIds) /\ vectors' = Without(vectors, DumpedIds)
    BY <1>1 DEF DumpTexts, DumpedIds
  <2>2. /\ texts' \in [DOMAIN texts \ DumpedIds -> Chunk \cup {Blank}]
        /\ vectors' \in [DOMAIN vectors \ DumpedIds -> Chunk]
    BY <2>1, WithoutTyped DEF MapsTyped
  <2>3. meta' \in [DOMAIN meta' -> Chunk \cup {Blank}] /\ DOMAIN meta' \subseteq Id
    <3>1. CASE meta' = meta
      BY <3>1 DEF MapsTyped, Shape
    <3>2. CASE meta' = WithDumped
      <4>1. \A i \in DumpedIds : texts[i] \in Chunk \cup {Blank} /\ i \in Id
        BY DEF DumpedIds, MapsTyped, Shape
      <4>2. \A i \in DOMAIN meta : meta[i] \in Chunk \cup {Blank} /\ i \in Id
        BY DEF MapsTyped, Shape
      <4> QED
        BY <3>2, <4>1, <4>2 DEF WithDumped
    <3> QED
      BY <1>1, <3>1, <3>2, DumpTextsIs
  <2>4. /\ UNCHANGED <<abort, index, range, status, seg, disk, hit, searches, creates>>
        /\ dump' \in {"no", "index"} /\ damaged' \in BOOLEAN
    <3>1. UNCHANGED <<hit, searches, creates>> /\ damaged' \in BOOLEAN
      BY <1>1 DEF DumpTexts, countVars
    <3> QED
      BY <1>1, <3>1, DumpTextsIs
  <2>5. MapsTyped'
    BY <2>2, <2>3, <2>4 DEF MapsTyped
  <2> QED
    BY <2>2, <2>3, <2>4, <2>5 DEF Shape
<1>2. ASSUME DumpSegment PROVE Shape' /\ MapsTyped'
  <2>1. /\ UNCHANGED <<abort, texts, vectors, index, status, meta, disk, hit, searches, creates>>
        /\ range' = range \/ range' = EmptyRange
        /\ dump' \in {"no", "file"}
        /\ damaged' = damaged \/ damaged' \in BOOLEAN
    BY <1>2 DEF DumpSegment, cacheVars, countVars
  <2>2. IndexIds \subseteq Id
    <3>1. \A i \in DOMAIN index : index[i] \in Entry
      BY DEF Shape
    <3> QED
      BY <3>1, EntryIs DEF IndexIds
  <2>3. seg' \in [DOMAIN seg' -> BOOLEAN] /\ DOMAIN seg' \subseteq Id
    <3>1. CASE seg' = seg
      BY <3>1 DEF MapsTyped, Shape
    <3>2. CASE seg' = [i \in DOMAIN seg \cup IndexIds |-> IF i \in IndexIds THEN FALSE ELSE seg[i]]
      BY <2>2, <3>2 DEF MapsTyped, Shape
    <3>3. \/ seg' = seg
          \/ seg' = [i \in DOMAIN seg \cup IndexIds |-> IF i \in IndexIds THEN FALSE ELSE seg[i]]
      BY <1>2 DEF DumpSegment
    <3> QED
      BY <3>1, <3>2, <3>3
  <2>4. MapsTyped'
    BY <2>1, <2>3 DEF MapsTyped
  <2> QED
    BY <2>1, <2>3, <2>4, IdsAre DEF Shape
<1>3. ASSUME DumpFile PROVE Shape' /\ MapsTyped'
  <2>1. /\ UNCHANGED <<abort, texts, vectors, status, meta, seg, hit, searches, creates>>
        /\ range' = EmptyRange /\ index' = <<>> /\ dump' = "no" /\ damaged' \in BOOLEAN
        /\ disk' \in {disk, disk \cup Range(index)}
    BY <1>3 DEF DumpFile, cacheVars, countVars
  <2>2. Range(index) \subseteq Entry
    BY DEF Range, Shape
  <2>3. disk' \subseteq Entry
    BY <2>1, <2>2 DEF Shape
  <2>4. MapsTyped'
    BY <2>1 DEF MapsTyped
  <2> QED
    BY <2>1, <2>3, <2>4, IdsAre DEF Shape
<1> QED
  BY <1>1, <1>2, <1>3

LEMMA DeleteTyped ==
    ASSUME Shape, MapsTyped, NEW d \in Doc, DeleteIndex(d)
    PROVE  Shape' /\ MapsTyped'
<1>1. /\ status' = [status EXCEPT ![d] = "absent"] /\ UNCHANGED <<disk, hit, searches, creates>>
      /\ abort' \subseteq Doc
  BY DEF DeleteIndex, Shape, countVars
<1>2. status' \in [Doc -> Status]
  BY <1>1 DEF Shape, Status
<1>3. CASE status[d] # "success"
  <2>1. UNCHANGED <<texts, vectors, index, range, meta, seg, dump, damaged>>
    BY <1>3 DEF DeleteIndex
  <2> QED
    BY <1>1, <1>2, <2>1 DEF Shape, MapsTyped
<1>4. CASE status[d] = "success"
  <2>1. DeleteCached(d) /\ meta' = Without(meta, IdsOf(meta, d)) /\ seg' = Marked(IdsOf(meta, d))
    BY <1>4 DEF DeleteIndex, DeleteStored
  <2>2. meta' \in [DOMAIN meta' -> Chunk \cup {Blank}] /\ DOMAIN meta' \subseteq Id
    <3>1. meta' \in [DOMAIN meta \ IdsOf(meta, d) -> Chunk \cup {Blank}]
      BY <2>1, WithoutTyped DEF MapsTyped
    <3> QED
      BY <3>1 DEF Shape
  <2>3. seg' \in [DOMAIN seg' -> BOOLEAN] /\ DOMAIN seg' \subseteq Id
    <3>1. seg' = [i \in DOMAIN seg |-> seg[i] \/ i \in IdsOf(meta, d)]
      BY <2>1 DEF Marked
    <3> QED
      BY <3>1 DEF Shape
  <2>4. CASE vectors = Nothing
    <3>1. UNCHANGED <<texts, vectors, index, range, dump, damaged>>
      BY <2>1, <2>4 DEF DeleteCached
    <3>2. MapsTyped'
      BY <2>2, <2>3, <3>1 DEF MapsTyped
    <3> QED
      BY <1>1, <1>2, <2>2, <2>3, <3>1, <3>2 DEF Shape
  <2>5. CASE vectors # Nothing
    <3> DEFINE left == Without(vectors, CachedIds(d))
    <3>1. /\ texts' = Without(texts, CachedIds(d)) /\ vectors' = left
          /\ index' = Rebuilt(left) /\ dump' \in {"no", "due"} /\ damaged' \in BOOLEAN
          /\ left = Nothing => range' \in {EmptyRange, <<0, MaxId>>}
          /\ left # Nothing => range' = RangeOf(index')
      BY <2>1, <2>5 DEF DeleteCached
    <3>2. /\ texts' \in [DOMAIN texts \ CachedIds(d) -> Chunk \cup {Blank}]
          /\ left \in [DOMAIN vectors \ CachedIds(d) -> Chunk]
      BY <3>1, WithoutTyped DEF MapsTyped
    <3> HIDE DEF left
    <3>3. DOMAIN left \subseteq Id /\ left \in [DOMAIN left -> Chunk]
      BY <3>2 DEF Shape
    <3>4. index' \in Seq(Entry) /\ (left # Nothing => index' # <<>>)
      BY <3>1, <3>3, RebuiltTyped
    <3>5. range' \in Id \X (Id \cup {-1})
      BY <3>1, <3>4, RangeOfTyped, IdsAre
    <3>6. MapsTyped'
      BY <2>2, <2>3, <3>1, <3>2 DEF MapsTyped
    <3>7. DOMAIN texts' \subseteq Id /\ DOMAIN vectors' \subseteq Id
      BY <3>1, <3>2, <3>3 DEF Shape
    <3> QED
      BY <1>1, <1>2, <2>2, <2>3, <3>1, <3>4, <3>5, <3>6, <3>7 DEF Shape
  <2> QED
    BY <2>4, <2>5
<1> QED
  BY <1>3, <1>4

LEMMA OthersTyped ==
    ASSUME Shape, MapsTyped, SearchIndex \/ LoadText \/ Restart
    PROVE  Shape' /\ MapsTyped'
<1>1. ASSUME SearchIndex PROVE Shape' /\ MapsTyped'
  <2>1. MaxSearches \in Nat
    BY IndexAssumption DEF IndexAssumption
  <2>2. IndexIds \subseteq Id
    <3>1. \A i \in DOMAIN index : index[i] \in Entry
      BY DEF Shape
    <3> QED
      BY <3>1, EntryIs DEF IndexIds
  <2>3. /\ hit' \in IndexIds /\ searches' = searches + 1 /\ searches < MaxSearches
        /\ UNCHANGED <<abort, index, range, dump, creates, damaged, texts, vectors, status, meta, seg, disk>>
    BY <1>1 DEF SearchIndex, cacheVars, tableVars
  <2>4. searches' \in 0..MaxSearches
    BY <2>1, <2>3 DEF Shape
  <2>5. MapsTyped'
    BY <2>3 DEF MapsTyped
  <2> QED
    BY <2>2, <2>3, <2>4, <2>5 DEF Shape
<1>2. ASSUME LoadText PROVE Shape' /\ MapsTyped'
  <2>1. /\ UNCHANGED <<abort, vectors, index, range, dump, searches, creates, status, meta, seg, disk>>
        /\ hit' = None /\ damaged' \in BOOLEAN /\ hit \in Id
        /\ \/ texts' = texts
           \/ texts' = [i \in DOMAIN texts \cup {hit} |-> IF i = hit THEN Blank ELSE texts[i]]
    BY <1>2 DEF LoadText, tableVars, Shape
  <2>2. texts' \in [DOMAIN texts' -> Chunk \cup {Blank}] /\ DOMAIN texts' \subseteq Id
    <3>1. CASE texts' = texts
      BY <3>1 DEF MapsTyped, Shape
    <3>2. CASE texts' = [i \in DOMAIN texts \cup {hit} |-> IF i = hit THEN Blank ELSE texts[i]]
      BY <2>1, <3>2 DEF MapsTyped, Shape
    <3> QED
      BY <2>1, <3>1, <3>2
  <2>3. MapsTyped'
    BY <2>1, <2>2 DEF MapsTyped
  <2> QED
    BY <2>1, <2>2, <2>3 DEF Shape
<1>3. ASSUME Restart PROVE Shape' /\ MapsTyped'
  <2>1. /\ UNCHANGED <<meta, seg, disk, searches, creates>>
        /\ abort' = {} /\ texts' = Nothing /\ vectors' = Nothing /\ index' = <<>>
        /\ range' = EmptyRange /\ dump' = "no" /\ hit' = None /\ damaged' \in BOOLEAN
        /\ status' = [d \in Doc |-> InitialStatus(d)]
    BY <1>3 DEF Restart
  <2>2. \A d \in Doc : InitialStatus(d) \in Status
    BY DEF InitialStatus, Shape, Status
  <2>3. status' \in [Doc -> Status]
    BY <2>1, <2>2
  <2>4. MapsTyped'
    BY <2>1, NothingIs DEF MapsTyped
  <2> QED
    BY <2>1, <2>3, <2>4, NothingIs, IdsAre DEF Shape
<1> QED
  BY <1>1, <1>2, <1>3

-----------------------------------------------------------------------------
(* Every step keeps order and types                                        *)

LEMMA OthersOrderly ==
    ASSUME Orderly, SearchIndex \/ DumpSegment \/ DumpFile \/ UNCHANGED vars
    PROVE  Orderly'
<1>1. UNCHANGED <<frames, abort, texts, vectors, meta, status>>
  BY DEF SearchIndex, DumpSegment, DumpFile, vars, cacheVars, tableVars, countVars
<1> QED
  BY <1>1, OrderlyStill

LEMMA OrderAndTypes ==
    ASSUME Shape, MapsTyped, Orderly, [Next]_vars
    PROVE  Shape' /\ MapsTyped' /\ Orderly'
<1>1. Typed /\ FramesOk /\ NextId \in Nat
  BY NextIdTyped DEF Shape, Typed, Orderly
<1>2. CASE \E batch \in Batches : CreateIndex(batch)
  BY <1>1, <1>2, CallTyped, CallOrderly
<1>3. CASE RejectKnown \/ RejectContent
  BY <1>1, <1>3, CallTyped, RejectOrderly
<1>4. CASE StartEmbedding
  BY <1>1, <1>4, CallTyped, StartOrderly
<1>5. CASE EmbedAborted \/ EmbedFails
  BY <1>1, <1>5, CallTyped, EmbedEndsOrderly
<1>6. CASE EmbedSucceeds
  BY <1>1, <1>6, EmbedSucceedsTyped, EmbedSucceedsOrderly
<1>7. CASE UpdateIndex \/ EmbeddingClear
  BY <1>1, <1>7, UpdateTyped, UpdateOrderly
<1>8. CASE DumpTexts
  BY <1>1, <1>8, DumpTyped, DumpTextsOrderly
<1>9. CASE DumpSegment \/ DumpFile
  BY <1>9, DumpTyped, OthersOrderly
<1>10. CASE \E d \in Doc : DeleteIndex(d)
  BY <1>1, <1>10, DeleteTyped, DeleteOrderly
<1>11. CASE SearchIndex
  BY <1>11, OthersTyped, OthersOrderly
<1>12. CASE LoadText
  BY <1>12, OthersTyped, LoadOrderly
<1>13. CASE Restart
  BY <1>1, <1>13, OthersTyped, RestartOrderly
<1>14. CASE UNCHANGED vars
  <2>1. Shape' /\ MapsTyped'
    BY <1>14 DEF vars, Shape, MapsTyped
  <2> QED
    BY <1>14, <2>1, OthersOrderly
<1> QED
  BY <1>2, <1>3, <1>4, <1>5, <1>6, <1>7, <1>8, <1>9, <1>10, <1>11, <1>12, <1>13, <1>14
     DEF Next, Worker, Optional

-----------------------------------------------------------------------------
(* The arithmetic of the ids                                               *)

LEMMA LastIdIs ==
    ASSUME MapsTyped, NEW r \in Nat, DOMAIN seg = 0..(r - 1)
    PROVE  LastId = r
<1>1. seg = Nothing <=> 0..(r - 1) = {}
  BY NothingIs DEF MapsTyped
<1>2. CASE r = 0
  BY <1>1, <1>2 DEF LastId
<1>3. CASE r # 0
  <2>1. 0 <= r - 1 /\ 0 \in 0..(r - 1) /\ r - 1 \in Int
    BY <1>3
  <2>2. Max(DOMAIN seg) = r - 1
    BY <2>1, IntervalExtremes
  <2> QED
    BY <1>1, <2>1, <2>2 DEF LastId
<1> QED
  BY <1>2, <1>3

LEMMA NextIdIs ==
    ASSUME MapsTyped, NEW r \in Nat, NEW t \in Nat, NEW u \in Nat, t <= u,
           DOMAIN seg = 0..(r - 1), DOMAIN texts = t..(u - 1)
    PROVE  NextId = (u - t) + r
<1>1. Cardinality(t..(u - 1)) = u - t
  <2>1. t \in Int /\ u - 1 \in Int
    OBVIOUS
  <2>2. Cardinality(t..(u - 1)) = IF t > u - 1 THEN 0 ELSE (u - 1) - t + 1
    BY <2>1, FS_Interval
  <2> QED
    BY <2>2
<1> QED
  BY <1>1, LastIdIs DEF NextId

\* The settled case: between dumps the three boundaries are one.
LEMMA SettledIs ==
    ASSUME NEW b \in Nat, NEW r \in Nat, NEW t \in Nat, NEW u \in Nat, Agree(b, r, t, u),
           dump \in {"no", "due"}, Shape, MapsTyped
    PROVE  /\ r = b /\ t = b /\ b <= u
           /\ LastId = b /\ NextId = u
           /\ DOMAIN texts = b..(u - 1) /\ DOMAIN vectors = b..(u - 1) /\ DOMAIN seg = 0..(b - 1)
           /\ texts = vectors /\ \A i \in b..(u - 1) : texts[i] \in Chunk
           /\ Len(index) \in Nat /\ b + Len(index) <= u
           /\ \A i \in 1..Len(index) : index[i].id = b + i - 1 /\ index[i].vec = texts[b + i - 1]
<1>1. r = b /\ t = b /\ b <= u
  BY DEF Agree, DumpFits
<1>2. DOMAIN texts = b..(u - 1) /\ texts = vectors /\ DOMAIN seg = 0..(b - 1)
  BY <1>1 DEF Agree, CacheFits, TablesFit
<1>3. LastId = b /\ NextId = (u - b) + b
  BY <1>1, <1>2, LastIdIs, NextIdIs
<1>31. LastId = b /\ NextId = u
  <2>1. (u - b) + b = u
    OBVIOUS
  <2> QED
    BY <1>3, <2>1
<1>32. DOMAIN vectors = b..(u - 1)
  BY <1>2
<1>4. \A i \in b..(u - 1) : texts[i] \in Chunk
  BY <1>2 DEF MapsTyped
<1>5. Len(index) \in Nat
  BY DEF Shape
<1>6. b + Len(index) <= u
  BY DEF Agree, IndexFits
<1>7. ASSUME NEW i \in 1..Len(index)
      PROVE  index[i].id = b + i - 1 /\ index[i].vec = texts[b + i - 1]
  <2>1. index[i].id = b + i - 1 /\ index[i].vec = TextOf(b + i - 1)
    BY DEF Agree, IndexFits
  <2>2. b + i - 1 \in DOMAIN texts
    BY <1>2, <1>5, <1>6
  <2> QED
    BY <2>1, <2>2 DEF TextOf
<1> QED
  BY <1>1, <1>2, <1>31, <1>32, <1>4, <1>5, <1>6, <1>7

\* Where the data stay as they are.
LEMMA AgreeStill ==
    ASSUME NEW b \in Nat, NEW r \in Nat, NEW t \in Nat, NEW u \in Nat, Agree(b, r, t, u),
           UNCHANGED <<texts, vectors, index, range, meta, seg, disk, dump>>,
           frames' = <<>> => frames = <<>>
    PROVE  Agree(b, r, t, u)'
BY DEF Agree, CacheFits, TablesFit, FilesFit, IndexFits, WholeDocuments, DumpFits, TextOf

Succeeded == \A d \in Doc : SuccessOk(d)

LEMMA SucceededStill ==
    ASSUME Succeeded, UNCHANGED <<texts, meta>>,
           \A d \in Doc : status'[d] = "success" => status[d] = "success"
    PROVE  Succeeded'
BY DEF Succeeded, SuccessOk, AllIn, IdsOf

-----------------------------------------------------------------------------
(* Every step keeps the agreement of the ids                               *)

Agreed == \E b, r, t, u \in Nat : Agree(b, r, t, u)
Whole == Agreed /\ Succeeded

LEMMA UntouchedWhole ==
    ASSUME Shape, Orderly, Whole,
           (\E batch \in Batches : CreateIndex(batch)) \/ RejectKnown \/ RejectContent
               \/ StartEmbedding \/ EmbedAborted \/ EmbedFails \/ SearchIndex
               \/ (LoadText /\ ~damaged') \/ UNCHANGED vars
    PROVE  Whole'
<1>1. UNCHANGED <<texts, vectors, index, range, meta, seg, disk, dump>>
  BY DEF CreateIndex, RejectKnown, RejectContent, StartEmbedding, EmbedAborted, EmbedFails,
         SearchIndex, LoadText, cacheVars, tableVars, vars
<1>2. \A d \in Doc : status'[d] = "success" => status[d] = "success"
  BY DEF CreateIndex, RejectKnown, RejectContent, StartEmbedding, EmbedAborted, EmbedFails,
         SearchIndex, LoadText, tableVars, vars, Shape
<1>3. frames' = <<>> => frames = <<>>
  <2>1. FramesOk
    BY DEF Orderly
  <2>2. ASSUME NEW batch \in Batches, CreateIndex(batch) PROVE frames' # <<>>
    <3>1. frames \in Seq(Frame)
      BY <2>1 DEF FramesOk, FramesTyped, Frame
    <3> QED
      BY <2>2, <3>1 DEF CreateIndex
  <2>3. ASSUME RejectKnown \/ RejectContent \/ EmbedAborted \/ EmbedFails PROVE frames' # <<>>
    <3>1. frames # <<>> /\ Top.todo # <<>> /\ frames' = WithTop(Done(FALSE))
      BY <2>1, <2>3, TopIs DEF RejectKnown, RejectContent, EmbedAborted, EmbedFails, Working, Answered
    <3>2. Len(frames') = Len(frames)
      BY <2>1, <3>1, DoneKeeps
    <3>3. Len(frames) >= 1
      BY <2>1, <3>1, TopIs
    <3> QED
      BY <3>2, <3>3
  <2>4. ASSUME StartEmbedding PROVE frames' # <<>>
    <3>1. /\ frames # <<>> /\ Top.todo # <<>> /\ ~Top.waiting
          /\ frames' = WithTop([Top EXCEPT !.waiting = TRUE])
      BY <2>4 DEF StartEmbedding, Working
    <3>2. Len(frames') = Len(frames)
      BY <2>1, <3>1, WaitKeeps
    <3>3. Len(frames) >= 1
      BY <2>1, <3>1, TopIs
    <3> QED
      BY <3>2, <3>3
  <2>5. ASSUME SearchIndex \/ LoadText \/ UNCHANGED vars PROVE frames' = frames
    BY <2>5 DEF SearchIndex, LoadText, vars
  <2> QED
    BY <2>2, <2>3, <2>4, <2>5
<1>4. Agreed'
  <2>1. PICK b \in Nat, r \in Nat, t \in Nat, u \in Nat : Agree(b, r, t, u)
    BY DEF Whole, Agreed
  <2>2. Agree(b, r, t, u)'
    BY <1>1, <1>3, <2>1, AgreeStill
  <2> QED
    BY <2>2 DEF Agreed
<1>5. Succeeded'
  BY <1>1, <1>2, SucceededStill DEF Whole
<1> QED
  BY <1>4, <1>5 DEF Whole

\* Nothing is kept of the document the model server has answered for.
LEMMA DoingIsNew ==
    ASSUME Orderly, Answered
    PROVE  /\ Doing \in Doc /\ ~Kept(Doing) /\ IdsOf(meta, Doing) = {}
           /\ \A i \in DOMAIN texts : texts[i] \in Chunk => texts[i][1] # Doing
<1>1. FramesOk /\ frames # <<>> /\ Top.waiting
  BY DEF Orderly, Answered
<1>2. Top.todo # <<>> /\ Len(frames) \in 1..Len(frames) /\ Top = frames[Len(frames)]
  BY <1>1, TopIs
<1>3. Doing \in Doc /\ WaitingFor(Doing)
  BY <1>1, <1>2, DoingIs DEF WaitingFor, WaitsFor, Paused, Doing
<1>4. ~Known(Doing)
  BY <1>3 DEF Orderly, ProgressOk
<1> QED
  BY <1>3, <1>4, KnownIsKept DEF Known, Kept, IsOf

LEMMA EmbedSucceedsWhole ==
    ASSUME Shape, MapsTyped, Orderly, Whole, EmbedSucceeds
    PROVE  Whole'
<1>1. PICK b \in Nat, r \in Nat, t \in Nat, u \in Nat : Agree(b, r, t, u)
  BY DEF Whole, Agreed
<1>2. /\ Answered /\ dump = "no" /\ UNCHANGED <<index, range, meta, seg, disk, dump>>
      /\ frames' = WithTop(Done(TRUE)) /\ StatusAt(Doing, "success")
  BY DEF EmbedSucceeds, Answered, StatusAt
<1>3. /\ r = b /\ t = b /\ b <= u /\ NextId = u
      /\ DOMAIN texts = b..(u - 1) /\ DOMAIN vectors = b..(u - 1) /\ texts = vectors
      /\ \A i \in b..(u - 1) : texts[i] \in Chunk
      /\ Len(index) \in Nat /\ b + Len(index) <= u
      /\ \A i \in 1..Len(index) : index[i].id = b + i - 1 /\ index[i].vec = texts[b + i - 1]
  BY <1>1, <1>2, SettledIs
<1>4. /\ Doing \in Doc /\ IdsOf(meta, Doing) = {}
      /\ \A i \in b..(u - 1) : texts[i][1] # Doing
  BY <1>2, <1>3, DoingIsNew
<1>5. PICK n \in Nat : n = ChunksOf[Doing] /\ n >= 1
  BY <1>4, ChunksAre
<1>6. PICK v \in Nat : v = u + n
  BY <1>5
<1>7. NewIds = u..(v - 1)
  BY <1>3, <1>5, <1>6 DEF NewIds
<1>8. /\ DOMAIN texts' = (b..(u - 1)) \cup NewIds /\ DOMAIN vectors' = (b..(u - 1)) \cup NewIds
      /\ \A i \in NewIds : texts'[i] = <<Doing, i - u + 1>> /\ vectors'[i] = <<Doing, i - u + 1>>
      /\ \A i \in (b..(u - 1)) \ NewIds : texts'[i] = texts[i] /\ vectors'[i] = vectors[i]
  BY <1>3, <1>4, CachedIs
<1>9. /\ DOMAIN texts' = b..(v - 1) /\ DOMAIN vectors' = b..(v - 1)
      /\ \A i \in b..(u - 1) : texts'[i] = texts[i] /\ vectors'[i] = vectors[i]
      /\ \A i \in u..(v - 1) : texts'[i] = <<Doing, i - u + 1>> /\ vectors'[i] = <<Doing, i - u + 1>>
  BY <1>3, <1>6, <1>7, <1>8
<1>10. texts' = vectors'
  <2>1. MapsTyped'
    BY EmbedSucceedsTyped DEF Orderly
  <2>2. \A i \in b..(v - 1) : texts'[i] = vectors'[i]
    <3> SUFFICES ASSUME NEW i \in b..(v - 1) PROVE texts'[i] = vectors'[i]
      OBVIOUS
    <3>1. CASE i < u
      BY <1>3, <1>9, <3>1
    <3>2. CASE i >= u
      BY <1>9, <3>2
    <3> QED
      BY <3>1, <3>2
  <2>3. texts' = [i \in b..(v - 1) |-> texts'[i]] /\ vectors' = [i \in b..(v - 1) |-> vectors'[i]]
    BY <1>9, <2>1 DEF MapsTyped
  <2> QED
    BY <2>2, <2>3
<1>11. frames' # <<>>
  <2>1. FramesOk /\ frames # <<>> /\ Top.waiting
    BY <1>2 DEF Orderly, Answered
  <2>2. Top.todo # <<>> /\ Len(frames) >= 1
    BY <2>1, TopIs
  <2>3. Len(frames') = Len(frames)
    BY <1>2, <2>1, <2>2, DoneKeeps
  <2> QED
    BY <2>2, <2>3
<1>12. IndexFits(b, v)'
  <2>1. b + Len(index) <= v
    BY <1>3, <1>6
  <2>2. ASSUME NEW i \in 1..Len(index)
        PROVE  index[i].id = b + i - 1 /\ index[i].vec = TextOf(b + i - 1)'
    <3>1. b + i - 1 \in b..(u - 1) /\ b + i - 1 \in b..(v - 1)
      <4>1. PICK m \in Nat : m = Len(index) /\ b + m <= u
        BY <1>3
      <4>2. i \in Int /\ 1 <= i /\ i <= m
        BY <4>1
      <4> QED
        BY <1>6, <4>1, <4>2
    <3>2. texts'[b + i - 1] = texts[b + i - 1] /\ b + i - 1 \in DOMAIN texts'
      BY <1>9, <3>1
    <3> QED
      BY <1>3, <3>2 DEF TextOf
  <2>3. range = IF index = <<>> THEN EmptyRange ELSE <<b, b + Len(index) - 1>>
    BY <1>1 DEF Agree, IndexFits
  <2> QED
    BY <1>2, <1>11, <2>1, <2>2, <2>3 DEF IndexFits
<1>13. WholeDocuments(b)'
  <2> SUFFICES ASSUME NEW i \in DOMAIN texts', NEW j \in DOMAIN texts', texts'[i][1] = texts'[j][1]
               PROVE  i < b + Len(index) <=> j < b + Len(index)
    BY <1>2 DEF WholeDocuments
  <2>1. i \in b..(v - 1) /\ j \in b..(v - 1) /\ i \in Int /\ j \in Int /\ b + Len(index) \in Int
    BY <1>3, <1>9
  <2>2. \A k \in u..(v - 1) : texts'[k][1] = Doing
    BY <1>9
  <2>3. CASE i < u /\ j < u
    <3>1. i \in DOMAIN texts /\ j \in DOMAIN texts /\ texts[i][1] = texts[j][1]
      BY <1>3, <1>9, <2>1, <2>3
    <3> QED
      BY <1>1, <3>1 DEF Agree, WholeDocuments
  <2>4. CASE i >= u /\ j >= u
    BY <1>3, <2>1, <2>4
  <2>5. CASE i < u /\ j >= u
    <3>1. texts'[i][1] # Doing
      BY <1>3, <1>4, <1>9, <2>1, <2>5
    <3> QED
      BY <2>1, <2>2, <2>5, <3>1
  <2>6. CASE i >= u /\ j < u
    <3>1. texts'[j][1] # Doing
      BY <1>3, <1>4, <1>9, <2>1, <2>6
    <3> QED
      BY <2>1, <2>2, <2>6, <3>1
  <2> QED
    BY <2>1, <2>3, <2>4, <2>5, <2>6
<1>14. Agree(b, b, b, v)'
  <2>1. TablesFit(b, b, b)' /\ FilesFit(b)' /\ DumpFits(b, b, b)'
    BY <1>1, <1>2, <1>3 DEF Agree, TablesFit, FilesFit, DumpFits
  <2>2. CacheFits(b, v)'
    BY <1>9, <1>10 DEF CacheFits
  <2>3. b <= v
    BY <1>3, <1>6
  <2> QED
    BY <1>12, <1>13, <2>1, <2>2, <2>3 DEF Agree
<1>15. Succeeded'
  <2> SUFFICES ASSUME NEW d \in Doc, status'[d] = "success"
               PROVE  (AllIn(texts, d)' /\ IdsOf(meta, d)' = {}) \/ AllIn(meta, d)'
    BY DEF Succeeded, SuccessOk
  <2>1. CASE d = Doing
    <3>1. \A k \in 1..n : u + k - 1 \in DOMAIN texts' /\ texts'[u + k - 1] = <<d, k>>
      <4> SUFFICES ASSUME NEW k \in 1..n
                   PROVE  u + k - 1 \in DOMAIN texts' /\ texts'[u + k - 1] = <<d, k>>
        OBVIOUS
      <4>1. u + k - 1 \in u..(v - 1) /\ u + k - 1 \in b..(v - 1) /\ (u + k - 1) - u + 1 = k
        BY <1>3, <1>6
      <4> QED
        BY <1>9, <2>1, <4>1
    <3>2. AllIn(texts, d)'
      BY <1>5, <2>1, <3>1 DEF AllIn, ChunksIn
    <3>3. IdsOf(meta, d)' = {}
      BY <1>2, <1>4, <2>1 DEF IdsOf
    <3> QED
      BY <3>2, <3>3
  <2>2. CASE d # Doing
    <3>1. status[d] = "success"
      BY <1>2, <2>2 DEF StatusAt, Shape
    <3>2. (AllIn(texts, d) /\ IdsOf(meta, d) = {}) \/ AllIn(meta, d)
      BY <3>1 DEF Whole, Succeeded, SuccessOk
    <3>3. AllIn(texts, d) => AllIn(texts, d)'
      <4>1. \A i \in DOMAIN texts : i \in DOMAIN texts' /\ texts'[i] = texts[i]
        BY <1>3, <1>6, <1>9
      <4> QED
        BY <4>1 DEF AllIn
    <3> QED
      BY <1>2, <3>2, <3>3 DEF AllIn, IdsOf
  <2> QED
    BY <2>1, <2>2
<1> QED
  BY <1>14, <1>15 DEF Whole, Agreed

LEMMA UpdateIndexWhole ==
    ASSUME Shape, MapsTyped, Orderly, Whole, UpdateIndex
    PROVE  Whole'
<1>1. PICK b \in Nat, r \in Nat, t \in Nat, u \in Nat : Agree(b, r, t, u)
  BY DEF Whole, Agreed
<1>2. /\ dump = "no" /\ vectors # Nothing /\ dump' \in {"no", "due"}
      /\ index' = index \o NewEntries /\ range' = RangeOf(index')
      /\ UNCHANGED <<texts, vectors, status, meta, seg, disk>>
  BY DEF UpdateIndex, Working, cacheVars, tableVars
<1>3. /\ r = b /\ t = b /\ b <= u
      /\ DOMAIN texts = b..(u - 1) /\ DOMAIN vectors = b..(u - 1) /\ texts = vectors
      /\ \A i \in 1..Len(index) : index[i].id = b + i - 1 /\ index[i].vec = texts[b + i - 1]
  BY <1>1, <1>2, SettledIs
<1>4. PICK m \in Nat : m = Len(index) /\ b + m <= u /\ b + m \in Int
  BY <1>1, <1>2, SettledIs
<1>5. b <= u - 1
  <2>1. DOMAIN vectors # {}
    <3>1. vectors \in [DOMAIN vectors -> Chunk]
      BY DEF MapsTyped
    <3>2. vectors = Nothing <=> DOMAIN vectors = {}
      BY <3>1, NothingIs
    <3> QED
      BY <1>2, <3>2
  <2> QED
    BY <1>3, <2>1
<1>6. FirstNew = b + m /\ NewKeys = (b + m)..(u - 1) /\ NewVectors = (b + m)..(u - 1)
  <2>1. Min(DOMAIN vectors) = b /\ Max(DOMAIN vectors) = u - 1
    BY <1>3, <1>5, IntervalExtremes
  <2>2. FirstNew = b + m
    BY <1>4, <2>1 DEF FirstNew
  <2>3. {i \in b..(u - 1) : i >= b + m} = (b + m)..(u - 1)
    OBVIOUS
  <2> QED
    BY <1>3, <2>1, <2>2, <2>3 DEF NewKeys, NewVectors
<1>7. PICK n \in Nat : n = (u - 1) - (b + m) + 1 /\ m + n = u - b /\ m + n >= 1
  <2>1. (u - 1) - (b + m) + 1 \in Nat
    BY <1>4
  <2>2. m + ((u - 1) - (b + m) + 1) = u - b /\ u - b >= 1
    BY <1>5
  <2> QED
    BY <2>1, <2>2
<1>8. Ascending((b + m)..(u - 1)) = [k \in 1..n |-> b + m + k - 1]
  <2>1. u - 1 \in Int /\ u - 1 >= b + m - 1
    BY <1>4
  <2>2. Ascending((b + m)..(u - 1)) = [k \in 1..((u - 1) - (b + m) + 1) |-> b + m + k - 1]
    BY <1>4, <2>1, AscendingInterval
  <2> QED
    BY <1>7, <2>2
<1>9. /\ Len(NewEntries) = n /\ NewEntries \in Seq(Entry)
      /\ \A k \in 1..n : NewEntries[k].id = b + m + k - 1 /\ NewEntries[k].vec = texts[b + m + k - 1]
  <2>1. NewEntries \in Seq(Entry)
    BY <1>2, NewEntriesTyped
  <2>2. DOMAIN NewEntries = 1..n
    BY <1>6, <1>8, NewEntriesIs
  <2>3. Len(NewEntries) = n
    BY <2>1, <2>2
  <2>4. ASSUME NEW k \in 1..n
        PROVE  NewEntries[k].id = b + m + k - 1 /\ NewEntries[k].vec = texts[b + m + k - 1]
    <3>1. NewEntries[k] = NewEntry(k)
      BY <1>6, <1>8, NewEntriesIs
    <3>2. Ascending(NewKeys)[k] = b + m + k - 1 /\ Ascending(NewVectors)[k] = b + m + k - 1
      BY <1>6, <1>8
    <3>3. k <= Len(Ascending(NewVectors))
      BY <1>6, <1>8
    <3> QED
      BY <1>3, <3>1, <3>2, <3>3 DEF NewEntry
  <2> QED
    BY <2>1, <2>3, <2>4
<1>10. /\ index' \in Seq(Entry) /\ Len(index') = u - b
       /\ \A i \in 1..(u - b) : index'[i].id = b + i - 1 /\ index'[i].vec = texts[b + i - 1]
  <2>1. index \in Seq(Entry)
    BY DEF Shape
  <2>2. index' \in Seq(Entry) /\ Len(index') = m + n
    <3>1. PICK news \in Seq(Entry) : news = NewEntries /\ Len(news) = n
      BY <1>9
    <3>2. index' = index \o news
      BY <1>2, <3>1
    <3>3. index \o news \in Seq(Entry) /\ Len(index \o news) = Len(index) + Len(news)
      BY <2>1
    <3> QED
      BY <1>4, <3>1, <3>2, <3>3
  <2>3. ASSUME NEW i \in 1..(u - b)
        PROVE  index'[i].id = b + i - 1 /\ index'[i].vec = texts[b + i - 1]
    <3>1. CASE i <= m
      <4>1. i \in 1..Len(index) /\ index'[i] = index[i]
        BY <1>2, <1>4, <1>7, <1>9, <2>1, <3>1
      <4> QED
        BY <1>3, <4>1
    <3>2. CASE i > m
      <4>1. i - m \in 1..n /\ b + m + (i - m) - 1 = b + i - 1
        BY <1>7, <3>2
      <4>2. index'[i] = NewEntries[i - m]
        BY <1>2, <1>4, <1>7, <1>9, <2>1, <3>2
      <4> QED
        BY <1>9, <4>1, <4>2
    <3> QED
      BY <3>1, <3>2
  <2> QED
    BY <1>7, <2>2, <2>3
<1>11. index' # <<>> /\ range' = <<b, b + (u - b) - 1>>
  <2>1. Len(index') >= 1
    BY <1>5, <1>10
  <2>2. index' # <<>> /\ Head(index') = index'[1] /\ Last(index') = index'[Len(index')]
    BY <1>10, <2>1 DEF Last
  <2>3. index'[1].id = b /\ index'[u - b].id = b + (u - b) - 1
    BY <1>5, <1>10
  <2> QED
    BY <1>2, <1>10, <2>2, <2>3 DEF RangeOf
<1>12. IndexFits(b, u)'
  <2>1. b + (u - b) = u
    OBVIOUS
  <2>2. \A i \in 1..(u - b) : TextOf(b + i - 1)' = texts[b + i - 1]
    <3> SUFFICES ASSUME NEW i \in 1..(u - b) PROVE TextOf(b + i - 1)' = texts[b + i - 1]
      OBVIOUS
    <3>1. b + i - 1 \in DOMAIN texts
      BY <1>3
    <3> QED
      BY <1>2, <3>1 DEF TextOf
  <2>3. b + Len(index') <= u /\ (frames' = <<>> => b + Len(index') = u)
    BY <1>10, <2>1
  <2>4. range' = IF index' = <<>> THEN EmptyRange ELSE <<b, b + Len(index') - 1>>
    BY <1>10, <1>11
  <2>5. \A i \in 1..Len(index') : index'[i].id = b + i - 1 /\ index'[i].vec = TextOf(b + i - 1)'
    BY <1>10, <2>2
  <2> QED
    BY <2>3, <2>4, <2>5 DEF IndexFits
<1>13. WholeDocuments(b)'
  <2>1. \A i \in DOMAIN texts' : i < b + Len(index')
    BY <1>2, <1>3, <1>10
  <2> QED
    BY <2>1 DEF WholeDocuments
<1>14. Agree(b, b, b, u)'
  <2>1. CacheFits(b, u)' /\ TablesFit(b, b, b)' /\ FilesFit(b)'
    BY <1>1, <1>2, <1>3 DEF Agree, CacheFits, TablesFit, FilesFit
  <2>2. DumpFits(b, b, b)'
    BY <1>2, <1>11 DEF DumpFits
  <2> QED
    BY <1>3, <1>12, <1>13, <2>1, <2>2 DEF Agree
<1>15. Succeeded'
  BY <1>2, SucceededStill DEF Whole
<1> QED
  BY <1>14, <1>15 DEF Whole, Agreed

LEMMA EmbeddingClearWhole ==
    ASSUME Shape, MapsTyped, Orderly, Whole, EmbeddingClear, ~damaged'
    PROVE  Whole'
<1>1. PICK b \in Nat, r \in Nat, t \in Nat, u \in Nat : Agree(b, r, t, u)
  BY DEF Whole, Agreed
<1>2. /\ dump = "no" /\ texts = Nothing /\ texts' = Nothing /\ vectors' = Nothing
      /\ UNCHANGED <<index, range, dump, status, meta, seg, disk>>
  BY DEF EmbeddingClear, Working, tableVars
<1>3. /\ r = b /\ t = b /\ b <= u /\ texts = vectors /\ DOMAIN texts = b..(u - 1)
      /\ Len(index) \in Nat /\ b + Len(index) <= u
  BY <1>1, <1>2, SettledIs
<1>4. u = b /\ Len(index) = 0
  <2>1. b..(u - 1) = {}
    BY <1>2, <1>3, NothingIs
  <2>2. ~(b <= u - 1)
    BY <2>1
  <2> QED
    BY <1>3, <2>2
<1>5. UNCHANGED <<texts, vectors>>
  BY <1>2, <1>3
<1>6. Agree(b, r, t, u)'
  <2>1. IndexFits(b, u)'
    BY <1>1, <1>2, <1>3, <1>4, <1>5 DEF Agree, IndexFits, TextOf
  <2> QED
    BY <1>1, <1>2, <1>5, <2>1
       DEF Agree, CacheFits, TablesFit, FilesFit, WholeDocuments, DumpFits
<1>7. Succeeded'
  BY <1>2, <1>5, SucceededStill DEF Whole
<1> QED
  BY <1>6, <1>7 DEF Whole, Agreed

\* What a dump under way has in hand.
LEMMA IndexIs ==
    ASSUME NEW b \in Nat, NEW r \in Nat, NEW t \in Nat, NEW u \in Nat, Agree(b, r, t, u), Shape,
           index # <<>>
    PROVE  /\ Len(index) \in Nat /\ Len(index) >= 1 /\ b + Len(index) <= u
           /\ range = <<b, b + Len(index) - 1>>
           /\ DOMAIN texts = t..(u - 1) /\ DOMAIN vectors = t..(u - 1) /\ texts = vectors
           /\ IndexIds = b..(b + Len(index) - 1)
<1>1. index \in Seq(Entry)
  BY DEF Shape
<1>2. Len(index) \in Nat /\ Len(index) >= 1 /\ DOMAIN index = 1..Len(index)
  BY <1>1
<1>3. b + Len(index) <= u /\ range = <<b, b + Len(index) - 1>>
      /\ \A i \in 1..Len(index) : index[i].id = b + i - 1
  BY DEF Agree, IndexFits
<1>4. IndexIds = {b + i - 1 : i \in 1..Len(index)}
  BY <1>2, <1>3 DEF IndexIds
<1>5. {b + i - 1 : i \in 1..Len(index)} = b..(b + Len(index) - 1)
  <2>1. ASSUME NEW k \in b..(b + Len(index) - 1) PROVE k \in {b + i - 1 : i \in 1..Len(index)}
    <3>1. k - b + 1 \in 1..Len(index) /\ b + (k - b + 1) - 1 = k
      BY <1>2
    <3> QED
      BY <3>1
  <2>2. \A i \in 1..Len(index) : b + i - 1 \in b..(b + Len(index) - 1)
    BY <1>2
  <2> QED
    BY <2>1, <2>2
<1> QED
  BY <1>2, <1>3, <1>4, <1>5 DEF Agree, CacheFits

LEMMA DumpTextsWhole ==
    ASSUME Shape, MapsTyped, Orderly, Whole, DumpTexts, ~damaged'
    PROVE  Whole'
<1>1. PICK b \in Nat, r \in Nat, t \in Nat, u \in Nat : Agree(b, r, t, u)
  BY DEF Whole, Agreed
<1>2. dump \in {"no", "due"} /\ index # <<>>
  <2>1. dump = "due" \/ (dump = "no" /\ range[1] <= range[2])
    BY DEF DumpTexts, Ready
  <2>2. CASE dump = "due"
    BY <1>1, <2>2 DEF Agree, DumpFits
  <2>3. CASE dump = "no" /\ range[1] <= range[2]
    <3>1. index = <<>> => range = <<0, -1>>
      BY <1>1 DEF Agree, IndexFits, EmptyRange
    <3> QED
      BY <2>3, <3>1
  <2> QED
    BY <2>1, <2>2, <2>3
<1>3. r = b /\ t = b
  BY <1>1, <1>2 DEF Agree, DumpFits
<1>4. PICK m \in Nat : m = Len(index)
  BY <1>1, <1>2, IndexIs
<1>5. /\ m >= 1 /\ b + m <= u /\ range = <<b, b + m - 1>>
      /\ DOMAIN texts = b..(u - 1) /\ DOMAIN vectors = b..(u - 1) /\ texts = vectors
  BY <1>1, <1>2, <1>3, <1>4, IndexIs
<1>6. DumpedIds = b..(b + m - 1)
  <2>1. range[1] = b /\ range[2] = b + m - 1
    BY <1>5
  <2> QED
    BY <1>5, <2>1 DEF DumpedIds
<1>7. /\ DOMAIN texts' = (b..(u - 1)) \ DumpedIds
      /\ \A i \in (b..(u - 1)) \ DumpedIds : texts'[i] = texts[i]
      /\ DOMAIN vectors' = (b..(u - 1)) \ DumpedIds
      /\ \A i \in (b..(u - 1)) \ DumpedIds : vectors'[i] = vectors[i]
      /\ meta' = WithDumped /\ DumpedIds \cap DOMAIN meta = {} /\ dump' = "index"
      /\ UNCHANGED <<frames, index, range, status, seg, disk>>
  <2>1. b \in b..(b + m - 1)
    BY <1>5
  <2>2. DumpedIds # {}
    BY <1>6, <2>1
  <2> QED
    BY <1>5, <2>2, DumpTextsIs
<1>8. (b..(u - 1)) \ DumpedIds = (b + m)..(u - 1)
  BY <1>5, <1>6
<1>9. /\ DOMAIN texts' = (b + m)..(u - 1) /\ DOMAIN vectors' = (b + m)..(u - 1)
      /\ \A i \in (b + m)..(u - 1) : texts'[i] = texts[i] /\ vectors'[i] = vectors[i]
  BY <1>7, <1>8
<1>10. /\ DOMAIN meta' = DOMAIN meta \cup (b..(b + m - 1))
       /\ \A i \in b..(b + m - 1) : meta'[i] = texts[i]
       /\ \A i \in DOMAIN meta : meta'[i] = meta[i]
  <2>1. DOMAIN WithDumped = DOMAIN meta \cup DumpedIds
    BY DEF WithDumped
  <2>2. \A i \in DumpedIds : WithDumped[i] = texts[i]
    BY DEF WithDumped
  <2>3. \A i \in DOMAIN meta \ DumpedIds : WithDumped[i] = meta[i]
    BY DEF WithDumped
  <2>4. \A i \in DOMAIN meta : i \notin DumpedIds
    BY <1>7
  <2> QED
    BY <1>6, <1>7, <2>1, <2>2, <2>3, <2>4
<1>11. CacheFits(b + m, u)'
  <2>1. MapsTyped'
    BY DumpTyped
  <2>2. texts' = [i \in (b + m)..(u - 1) |-> texts'[i]] /\ vectors' = [i \in (b + m)..(u - 1) |-> vectors'[i]]
    BY <1>9, <2>1 DEF MapsTyped
  <2>3. \A i \in (b + m)..(u - 1) : texts'[i] = vectors'[i]
    BY <1>5, <1>9
  <2>4. texts' = vectors'
    BY <2>2, <2>3
  <2> QED
    BY <1>9, <2>4 DEF CacheFits
<1>12. TablesFit(b, b, b + m)'
  <2>1. /\ DOMAIN seg = 0..(b - 1) /\ DOMAIN meta \subseteq 0..(b - 1)
        /\ \A i \in DOMAIN meta \cap DOMAIN seg : ~seg[i]
    BY <1>1, <1>3 DEF Agree, TablesFit
  <2>2. DOMAIN meta' \subseteq 0..(b + m - 1) /\ b..(b + m - 1) \subseteq DOMAIN meta'
    BY <1>5, <1>10, <2>1
  <2>3. \A i \in DOMAIN meta' \cap DOMAIN seg : i \in DOMAIN meta
    BY <1>10, <2>1
  <2> QED
    BY <1>7, <2>1, <2>2, <2>3 DEF TablesFit
<1>13. FilesFit(b)'
  <2>1. {e.id : e \in disk} = 0..(b - 1)
    BY <1>1 DEF Agree, FilesFit
  <2>2. \A e \in disk : seg[e.id] \/ (e.id \in DOMAIN meta /\ meta[e.id] = e.vec)
    BY <1>1 DEF Agree, FilesFit
  <2>3. \A e \in disk : seg[e.id] \/ (e.id \in DOMAIN meta' /\ meta'[e.id] = e.vec)
    BY <1>10, <2>2
  <2> QED
    BY <1>7, <2>1, <2>3 DEF FilesFit
<1>14. IndexFits(b, u)'
  <2>1. /\ b + Len(index) <= u /\ (frames = <<>> => b + Len(index) = u)
        /\ range = IF index = <<>> THEN EmptyRange ELSE <<b, b + Len(index) - 1>>
    BY <1>1 DEF Agree, IndexFits
  <2>2. ASSUME NEW i \in 1..Len(index)
        PROVE  index[i].id = b + i - 1 /\ index[i].vec = TextOf(b + i - 1)'
    <3>1. b + i - 1 \in b..(b + m - 1) /\ b + i - 1 \in b..(u - 1) /\ b + i - 1 \notin (b + m)..(u - 1)
      BY <1>4, <1>5
    <3>2. index[i].id = b + i - 1 /\ index[i].vec = TextOf(b + i - 1)
      BY <1>1 DEF Agree, IndexFits
    <3>3. TextOf(b + i - 1) = texts[b + i - 1]
      BY <1>5, <3>1 DEF TextOf
    <3>4. TextOf(b + i - 1)' = texts[b + i - 1]
      BY <1>9, <1>10, <3>1 DEF TextOf
    <3> QED
      BY <3>2, <3>3, <3>4
  <2> QED
    BY <1>7, <2>1, <2>2 DEF IndexFits
<1>15. WholeDocuments(b)'
  <2>1. \A i \in DOMAIN texts' : ~(i < b + Len(index'))
    BY <1>4, <1>7, <1>9
  <2> QED
    BY <2>1 DEF WholeDocuments
<1>16. Agree(b, b, b + m, u)'
  <2>1. DumpFits(b, b, b + m)'
    BY <1>2, <1>4, <1>7 DEF DumpFits
  <2>2. b <= b + m /\ b + m \in Nat
    OBVIOUS
  <2> QED
    BY <1>5, <1>11, <1>12, <1>13, <1>14, <1>15, <2>1, <2>2 DEF Agree
<1>17. Succeeded'
  <2> SUFFICES ASSUME NEW d \in Doc, status[d] = "success"
               PROVE  (AllIn(texts, d)' /\ IdsOf(meta, d)' = {}) \/ AllIn(meta, d)'
    BY <1>7 DEF Succeeded, SuccessOk
  <2>1. (AllIn(texts, d) /\ IdsOf(meta, d) = {}) \/ AllIn(meta, d)
    BY DEF Whole, Succeeded, SuccessOk
  <2>2. CASE AllIn(meta, d)
    <3>1. \A i \in DOMAIN meta : i \in DOMAIN meta' /\ meta'[i] = meta[i]
      BY <1>10
    <3> QED
      BY <2>2, <3>1 DEF AllIn
  <2>3. CASE AllIn(texts, d) /\ IdsOf(meta, d) = {}
    <3>1. \A c \in ChunksIn(d) : c[1] = d
      BY DEF ChunksIn
    <3>2. \A i, j \in DOMAIN texts : texts[i][1] = d /\ texts[j][1] = d => (i < b + m <=> j < b + m)
      BY <1>1, <1>4 DEF Agree, WholeDocuments
    <3>3. CASE \E i \in DOMAIN texts : texts[i][1] = d /\ i < b + m
      <4>1. \A i \in DOMAIN texts : texts[i][1] = d => i \in b..(b + m - 1)
        BY <1>5, <3>2, <3>3
      <4>2. \A i \in DOMAIN texts : texts[i][1] = d => i \in DOMAIN meta' /\ meta'[i] = texts[i]
        BY <1>10, <4>1
      <4>3. AllIn(meta, d)'
        BY <2>3, <3>1, <4>2 DEF AllIn
      <4> QED
        BY <4>3
    <3>4. CASE ~\E i \in DOMAIN texts : texts[i][1] = d /\ i < b + m
      <4>1. \A i \in DOMAIN texts : texts[i][1] = d => i \in (b + m)..(u - 1)
        BY <1>5, <3>4
      <4>2. AllIn(texts, d)'
        BY <1>9, <2>3, <3>1, <4>1 DEF AllIn
      <4>3. \A i \in b..(b + m - 1) : i \in DOMAIN texts /\ i < b + m
        BY <1>5
      <4>4. \A i \in DOMAIN meta' : meta'[i] \in Chunk => meta'[i][1] # d
        BY <1>10, <2>3, <3>4, <4>3 DEF IdsOf
      <4> QED
        BY <4>2, <4>4 DEF IdsOf
    <3> QED
      BY <3>3, <3>4
  <2> QED
    BY <2>1, <2>2, <2>3
<1>18. b + m \in Nat
  OBVIOUS
<1> QED
  BY <1>16, <1>17, <1>18 DEF Whole, Agreed

LEMMA DumpSegmentWhole ==
    ASSUME Shape, MapsTyped, Orderly, Whole, DumpSegment, ~damaged'
    PROVE  Whole'
<1>1. PICK b \in Nat, r \in Nat, t \in Nat, u \in Nat : Agree(b, r, t, u)
  BY DEF Whole, Agreed
<1>2. dump = "index" /\ index # <<>> /\ r = b /\ t = b + Len(index)
  BY <1>1 DEF Agree, DumpFits, DumpSegment
<1>3. PICK m \in Nat : m = Len(index)
  BY <1>1, <1>2, IndexIs
<1>4. m >= 1 /\ IndexIds = b..(b + m - 1) /\ t = b + m
  BY <1>1, <1>2, <1>3, IndexIs
<1>5. /\ seg' = [i \in DOMAIN seg \cup IndexIds |-> IF i \in IndexIds THEN FALSE ELSE seg[i]]
      /\ dump' = "file"
      /\ UNCHANGED <<range, frames, texts, vectors, index, status, meta, disk>>
  BY <1>2 DEF DumpSegment, cacheVars
<1>6. /\ DOMAIN seg = 0..(b - 1) /\ DOMAIN meta \subseteq 0..(t - 1) /\ b..(t - 1) \subseteq DOMAIN meta
      /\ \A i \in DOMAIN meta \cap DOMAIN seg : ~seg[i]
  BY <1>1, <1>2 DEF Agree, TablesFit
<1>7. /\ DOMAIN seg' = 0..(b + m - 1)
      /\ \A i \in 0..(b - 1) : seg'[i] = seg[i]
      /\ \A i \in b..(b + m - 1) : ~seg'[i]
  <2>1. (0..(b - 1)) \cup (b..(b + m - 1)) = 0..(b + m - 1)
    OBVIOUS
  <2>2. \A i \in 0..(b - 1) : i \notin b..(b + m - 1)
    OBVIOUS
  <2> QED
    BY <1>4, <1>5, <1>6, <2>1, <2>2
<1>8. TablesFit(b, b + m, b + m)'
  <2>1. DOMAIN meta \subseteq 0..(b + m - 1) /\ b..(b + m - 1) \subseteq DOMAIN meta
    BY <1>4, <1>6
  <2>2. \A i \in DOMAIN meta \cap (0..(b + m - 1)) : ~seg'[i]
    <3> SUFFICES ASSUME NEW i \in DOMAIN meta, i \in 0..(b + m - 1) PROVE ~seg'[i]
      OBVIOUS
    <3>1. CASE i \in 0..(b - 1)
      BY <1>6, <1>7, <3>1
    <3>2. CASE i \in b..(b + m - 1)
      BY <1>7, <3>2
    <3> QED
      BY <3>1, <3>2
  <2>3. meta' = meta
    BY <1>5
  <2>4. DOMAIN meta' \subseteq 0..((b + m) - 1) /\ b..((b + m) - 1) \subseteq DOMAIN meta'
    BY <2>1, <2>3
  <2>5. DOMAIN seg' = 0..((b + m) - 1)
    BY <1>7
  <2>6. \A i \in DOMAIN meta' \cap DOMAIN seg' : ~seg'[i]
    BY <2>2, <2>3, <2>5
  <2> QED
    BY <2>4, <2>5, <2>6 DEF TablesFit
<1>9. FilesFit(b)'
  <2>1. {e.id : e \in disk} = 0..(b - 1)
    BY <1>1 DEF Agree, FilesFit
  <2>2. \A e \in disk : seg[e.id] \/ (e.id \in DOMAIN meta /\ meta[e.id] = e.vec)
    BY <1>1 DEF Agree, FilesFit
  <2>3. \A e \in disk : seg'[e.id] = seg[e.id]
    <3>1. \A e \in disk : e.id \in 0..(b - 1)
      BY <2>1
    <3> QED
      BY <1>7, <3>1
  <2> QED
    BY <1>5, <2>1, <2>2, <2>3 DEF FilesFit
<1>10. Agree(b, b + m, b + m, u)'
  <2>1. CacheFits(b + m, u)' /\ IndexFits(b, u)' /\ WholeDocuments(b)'
    BY <1>1, <1>4, <1>5 DEF Agree, CacheFits, IndexFits, WholeDocuments, TextOf
  <2>2. DumpFits(b, b + m, b + m)'
    BY <1>2, <1>3, <1>5 DEF DumpFits
  <2>3. b <= b + m /\ b + m <= u
    BY <1>1, <1>4 DEF Agree
  <2> QED
    BY <1>8, <1>9, <2>1, <2>2, <2>3 DEF Agree
<1>11. Succeeded'
  BY <1>5, SucceededStill DEF Whole
<1>12. b + m \in Nat
  OBVIOUS
<1> QED
  BY <1>10, <1>11, <1>12 DEF Whole, Agreed

LEMMA DumpFileWhole ==
    ASSUME Shape, MapsTyped, Orderly, Whole, DumpFile, ~damaged'
    PROVE  Whole'
<1>1. PICK b \in Nat, r \in Nat, t \in Nat, u \in Nat : Agree(b, r, t, u)
  BY DEF Whole, Agreed
<1>2. dump = "file" /\ index # <<>> /\ r = b + Len(index) /\ t = b + Len(index)
  BY <1>1 DEF Agree, DumpFits, DumpFile
<1>3. PICK m \in Nat : m = Len(index)
  BY <1>1, <1>2, IndexIs
<1>4. m >= 1 /\ r = b + m /\ t = b + m /\ b + m <= u /\ DOMAIN texts = (b + m)..(u - 1)
  BY <1>1, <1>2, <1>3, IndexIs
<1>5. /\ disk' = disk \cup Range(index) /\ index' = <<>> /\ range' = EmptyRange /\ dump' = "no"
      /\ UNCHANGED <<frames, texts, vectors, status, meta, seg>>
  BY DEF DumpFile, cacheVars
<1>6. /\ DOMAIN seg = 0..(r - 1) /\ DOMAIN meta \subseteq 0..(t - 1) /\ b..(t - 1) \subseteq DOMAIN meta
      /\ \A i \in DOMAIN meta \cap DOMAIN seg : ~seg[i]
  BY <1>1 DEF Agree, TablesFit
<1>7. Range(index) = {index[i] : i \in 1..m}
  BY <1>3 DEF Range, Shape
<1>8. ASSUME NEW i \in 1..m
      PROVE  /\ index[i].id = b + i - 1 /\ b + i - 1 \in DOMAIN meta
             /\ meta[b + i - 1] = index[i].vec
  <2>1. index[i].id = b + i - 1 /\ index[i].vec = TextOf(b + i - 1)
    BY <1>1, <1>3 DEF Agree, IndexFits
  <2>2. b + i - 1 \notin DOMAIN texts /\ b + i - 1 \in b..(t - 1)
    BY <1>4
  <2> QED
    BY <1>6, <2>1, <2>2 DEF TextOf
<1>9. FilesFit(r)'
  <2>1. {e.id : e \in disk} = 0..(b - 1)
    BY <1>1 DEF Agree, FilesFit
  <2>2. \A e \in disk : seg[e.id] \/ (e.id \in DOMAIN meta /\ meta[e.id] = e.vec)
    BY <1>1 DEF Agree, FilesFit
  <2>3. \A e \in Range(index) : e.id \in b..(b + m - 1) /\ e.id \in DOMAIN meta /\ meta[e.id] = e.vec
    BY <1>7, <1>8
  <2>4. \A k \in b..(b + m - 1) : \E e \in Range(index) : e.id = k
    <3> SUFFICES ASSUME NEW k \in b..(b + m - 1) PROVE \E e \in Range(index) : e.id = k
      OBVIOUS
    <3>1. k - b + 1 \in 1..m /\ b + (k - b + 1) - 1 = k
      OBVIOUS
    <3>2. index[k - b + 1] \in Range(index) /\ index[k - b + 1].id = k
      BY <1>7, <1>8, <3>1
    <3> QED
      BY <3>2
  <2>5. {e.id : e \in disk \cup Range(index)} = (0..(b - 1)) \cup (b..(b + m - 1))
    BY <2>1, <2>3, <2>4
  <2>6. (0..(b - 1)) \cup (b..(b + m - 1)) = 0..(r - 1)
    BY <1>4
  <2>7. \A e \in disk' : seg[e.id] \/ (e.id \in DOMAIN meta /\ meta[e.id] = e.vec)
    BY <1>5, <2>2, <2>3
  <2> QED
    BY <1>5, <2>5, <2>6, <2>7 DEF FilesFit
<1>10. Agree(r, r, r, u)'
  <2>1. CacheFits(r, u)'
    BY <1>1, <1>4, <1>5 DEF Agree, CacheFits
  <2>2. TablesFit(r, r, r)'
    BY <1>4, <1>5, <1>6 DEF TablesFit
  <2>3. IndexFits(r, u)'
    <3>1. Len(index') = 0 /\ r + 0 = r
      BY <1>5
    <3>2. frames = <<>> => r = u
      BY <1>1, <1>2 DEF Agree, IndexFits
    <3>3. \A i \in 1..Len(index') : FALSE
      BY <3>1
    <3> QED
      BY <1>4, <1>5, <3>1, <3>2, <3>3 DEF IndexFits
  <2>4. WholeDocuments(r)'
    <3>1. \A i \in DOMAIN texts' : ~(i < r + Len(index'))
      BY <1>4, <1>5
    <3> QED
      BY <3>1 DEF WholeDocuments
  <2>5. DumpFits(r, r, r)'
    BY <1>5 DEF DumpFits
  <2> QED
    BY <1>4, <1>9, <2>1, <2>2, <2>3, <2>4, <2>5 DEF Agree
<1>11. Succeeded'
  BY <1>5, SucceededStill DEF Whole
<1> QED
  BY <1>10, <1>11 DEF Whole, Agreed

LEMMA DeleteWhole ==
    ASSUME Shape, MapsTyped, Orderly, Whole, NEW d \in Doc, DeleteIndex(d), ~damaged'
    PROVE  Whole'
<1>1. PICK b \in Nat, r \in Nat, t \in Nat, u \in Nat : Agree(b, r, t, u)
  BY DEF Whole, Agreed
<1>2. /\ dump = "no" /\ UNCHANGED <<frames, disk>>
      /\ \A e \in Doc : status'[e] = IF e = d THEN "absent" ELSE status[e]
  BY DEF DeleteIndex, Ready, Shape
<1>3. CASE status[d] # "success"
  <2>1. UNCHANGED <<texts, vectors, index, range, meta, seg, dump>>
    BY <1>3 DEF DeleteIndex
  <2>2. Agreed'
    <3>1. frames' = <<>> => frames = <<>>
      BY <1>2
    <3>2. UNCHANGED <<texts, vectors, index, range, meta, seg, disk, dump>>
      BY <1>2, <2>1
    <3>3. Agree(b, r, t, u)'
      BY <1>1, <3>1, <3>2, AgreeStill
    <3> QED
      BY <3>3 DEF Agreed
  <2>3. Succeeded'
    BY <1>2, <2>1, SucceededStill DEF Whole
  <2> QED
    BY <2>2, <2>3 DEF Whole
<1>4. CASE status[d] = "success"
  <2> DEFINE gone == IdsOf(meta, d)
             mine == IdsOf(texts, d)
  <2>1. /\ DeleteCached(d)
        /\ meta' = Without(meta, gone) /\ seg' = [i \in DOMAIN seg |-> seg[i] \/ i \in gone]
    BY <1>4 DEF DeleteIndex, DeleteStored, Marked
  <2>2. /\ r = b /\ t = b /\ b <= u /\ LastId = b
        /\ DOMAIN texts = b..(u - 1) /\ DOMAIN vectors = b..(u - 1) /\ DOMAIN seg = 0..(b - 1)
        /\ texts = vectors
    BY <1>1, <1>2, SettledIs
  <2>3. /\ DOMAIN meta' = DOMAIN meta \ gone /\ \A i \in DOMAIN meta \ gone : meta'[i] = meta[i]
    BY <2>1, WithoutIs
  <2>4. gone \subseteq DOMAIN meta /\ \A i \in DOMAIN meta : i \in gone <=> meta[i] \in Chunk /\ meta[i][1] = d
    BY DEF IdsOf
  <2>5. mine \subseteq DOMAIN texts /\ \A i \in DOMAIN texts : i \in mine <=> texts[i] \in Chunk /\ texts[i][1] = d
    BY DEF IdsOf
  <2> HIDE DEF gone
  <2>6. TablesFit(b, b, b)'
    <3>1. DOMAIN meta \subseteq 0..(b - 1) /\ \A i \in DOMAIN meta \cap DOMAIN seg : ~seg[i]
      BY <1>1, <2>2 DEF Agree, TablesFit
    <3>2. DOMAIN seg' = 0..(b - 1)
      BY <2>1, <2>2
    <3>3. DOMAIN meta' \subseteq 0..(b - 1) /\ b..(b - 1) \subseteq DOMAIN meta'
      BY <2>3, <3>1
    <3>4. \A i \in DOMAIN meta' \cap DOMAIN seg' : ~seg'[i]
      BY <2>1, <2>3, <3>1
    <3> QED
      BY <3>2, <3>3, <3>4 DEF TablesFit
  <2>7. FilesFit(b)'
    <3>1. {e.id : e \in disk} = 0..(b - 1)
      BY <1>1 DEF Agree, FilesFit
    <3>2. \A e \in disk : seg[e.id] \/ (e.id \in DOMAIN meta /\ meta[e.id] = e.vec)
      BY <1>1 DEF Agree, FilesFit
    <3>3. \A e \in disk : e.id \in DOMAIN seg
      BY <2>2, <3>1
    <3>4. \A e \in disk : seg'[e.id] \/ (e.id \in DOMAIN meta' /\ meta'[e.id] = e.vec)
      BY <2>1, <2>3, <3>2, <3>3
    <3> QED
      BY <1>2, <3>1, <3>4 DEF FilesFit
  <2>8. ASSUME NEW e \in Doc, e # d, status[e] = "success", AllIn(meta, e)
        PROVE  AllIn(meta, e)'
    <3>1. \A c \in ChunksIn(e) : c[1] = e
      BY DEF ChunksIn
    <3>2. ASSUME NEW c \in ChunksIn(e), NEW i \in DOMAIN meta, meta[i] = c PROVE i \in DOMAIN meta' /\ meta'[i] = c
      BY <2>3, <2>4, <2>8, <3>1, <3>2
    <3> QED
      BY <2>8, <3>2 DEF AllIn
  <2>9. \A e \in Doc : IdsOf(meta, e) = {} => IdsOf(meta, e)' = {}
    BY <2>3 DEF IdsOf
  <2>10. CASE vectors = Nothing
    <3>1. UNCHANGED <<texts, vectors, index, range, dump>>
      BY <2>1, <2>10 DEF DeleteCached
    <3>2. b..(u - 1) = {}
      BY <2>2, <2>10, NothingIs
    <3>3. Len(index) \in Nat /\ b + Len(index) <= u
      BY <1>1, <1>2, SettledIs
    <3>4. \A i \in 1..Len(index) : FALSE
      <4>1. u - 1 < b
        BY <3>2
      <4>2. ~(1 <= Len(index))
        BY <3>3, <4>1
      <4> QED
        BY <3>3, <4>2
    <3>5. IndexFits(b, u)'
      BY <1>1, <1>2, <3>1, <3>4 DEF Agree, IndexFits
    <3>6. Agree(b, b, b, u)'
      BY <1>1, <2>2, <2>6, <2>7, <3>1, <3>5 DEF Agree, CacheFits, WholeDocuments, DumpFits
    <3>7. Succeeded'
      <4> SUFFICES ASSUME NEW e \in Doc, status'[e] = "success"
                   PROVE  (AllIn(texts, e)' /\ IdsOf(meta, e)' = {}) \/ AllIn(meta, e)'
        BY DEF Succeeded, SuccessOk
      <4>1. e # d /\ status[e] = "success"
        BY <1>2
      <4>2. (AllIn(texts, e) /\ IdsOf(meta, e) = {}) \/ AllIn(meta, e)
        BY <4>1 DEF Whole, Succeeded, SuccessOk
      <4>3. AllIn(texts, e) => AllIn(texts, e)'
        BY <3>1 DEF AllIn
      <4> QED
        BY <2>8, <2>9, <4>1, <4>2, <4>3
    <3> QED
      BY <3>6, <3>7 DEF Whole, Agreed
  <2>11. CASE vectors # Nothing
    <3> DEFINE left == Without(vectors, mine)
               kept == DOMAIN texts \ mine
    <3>1. /\ texts' = Without(texts, mine) /\ vectors' = left
          /\ index' = Rebuilt(left) /\ dump' \in {"no", "due"}
          /\ left # Nothing /\ range' = RangeOf(index')
          /\ kept = LastId..(LastId + Cardinality(kept) - 1)
      BY <2>1, <2>11 DEF DeleteCached, CachedIds
    <3>2. texts' = left /\ vectors' = left
      BY <2>2, <3>1
    <3>3. /\ left \in [DOMAIN vectors \ mine -> Chunk]
          /\ \A i \in kept : left[i] = texts[i] /\ i \in DOMAIN texts
      <4>1. left \in [DOMAIN vectors \ mine -> Chunk]
        BY WithoutTyped DEF MapsTyped
      <4>2. \A i \in DOMAIN vectors \ mine : left[i] = vectors[i]
        BY WithoutIs
      <4> QED
        BY <2>2, <4>1, <4>2
    <3>4. kept \subseteq Id
      BY DEF Shape
    <3>5. PICK n \in Nat : n = Cardinality(kept)
      BY <3>4, FiniteIds
    <3>6. kept = b..(b + n - 1) /\ DOMAIN left = kept /\ left \in [kept -> Chunk]
      BY <2>2, <3>1, <3>3, <3>5
    <3>7. n >= 1
      <4>1. left = Nothing <=> kept = {}
        BY <3>6, NothingIs
      <4>2. b..(b + n - 1) # {}
        BY <3>1, <3>6, <4>1
      <4> QED
        BY <4>2
    <3>8. Ascending(kept) = [k \in 1..n |-> b + k - 1]
      <4>1. b \in Int /\ b + n - 1 \in Int /\ b + n - 1 >= b - 1 /\ (b + n - 1) - b + 1 = n
        OBVIOUS
      <4>2. Ascending(b..(b + n - 1)) = [k \in 1..((b + n - 1) - b + 1) |-> b + k - 1]
        BY <4>1, AscendingInterval
      <4> QED
        BY <3>6, <4>1, <4>2
    <3> HIDE DEF left, kept
    <3>9. /\ Len(index') = n /\ DOMAIN index' = 1..n
          /\ \A k \in 1..n : index'[k].id = b + k - 1 /\ index'[k].vec = left[b + k - 1]
      <4>1. index' \in Seq(Entry)
        BY DeleteTyped DEF Shape
      <4>2. index' = [i \in 1..n |-> [id |-> Ascending(kept)[i], vec |-> left[Ascending(kept)[i]]]]
        BY <3>1, <3>6, <3>8 DEF Rebuilt
      <4>3. DOMAIN index' = 1..n /\ Len(index') = n
        BY <4>1, <4>2
      <4>4. ASSUME NEW k \in 1..n
            PROVE  index'[k].id = b + k - 1 /\ index'[k].vec = left[b + k - 1]
        <5>1. Ascending(kept)[k] = b + k - 1
          BY <3>8
        <5>2. index'[k] = [id |-> Ascending(kept)[k], vec |-> left[Ascending(kept)[k]]]
          BY <4>2
        <5> QED
          BY <5>1, <5>2
      <4> QED
        BY <4>3, <4>4
    <3>10. index' # <<>> /\ range' = <<b, b + n - 1>>
      <4>1. index' \in Seq(Entry)
        BY DeleteTyped DEF Shape
      <4>2. index' # <<>> /\ Head(index') = index'[1] /\ Last(index') = index'[n]
        BY <3>7, <3>9, <4>1 DEF Last
      <4>3. index'[1].id = b /\ index'[n].id = b + n - 1
        BY <3>7, <3>9
      <4> QED
        BY <3>1, <4>2, <4>3 DEF RangeOf
    <3>11. PICK v \in Nat : v = b + n
      OBVIOUS
    <3>12. IndexFits(b, v)'
      <4>1. ASSUME NEW i \in 1..Len(index')
            PROVE  index'[i].id = b + i - 1 /\ index'[i].vec = TextOf(b + i - 1)'
        <5>1. i \in 1..n /\ b + i - 1 \in b..(b + n - 1)
          BY <3>9
        <5>2. TextOf(b + i - 1)' = left[b + i - 1]
          BY <3>2, <3>6, <5>1 DEF TextOf
        <5> QED
          BY <3>9, <5>1, <5>2
      <4>2. b + Len(index') <= v /\ b + Len(index') = v
        BY <3>9, <3>11
      <4>3. range' = IF index' = <<>> THEN EmptyRange ELSE <<b, b + Len(index') - 1>>
        BY <3>9, <3>10
      <4> QED
        BY <4>1, <4>2, <4>3 DEF IndexFits
    <3>13. CacheFits(b, v)'
      BY <3>2, <3>6, <3>11 DEF CacheFits
    <3>14. WholeDocuments(b)'
      <4>1. \A i \in DOMAIN texts' : i < b + Len(index')
        BY <3>2, <3>6, <3>9
      <4> QED
        BY <4>1 DEF WholeDocuments
    <3>15. Agree(b, b, b, v)'
      <4>1. DumpFits(b, b, b)'
        BY <3>1, <3>10 DEF DumpFits
      <4> QED
        BY <2>6, <2>7, <3>11, <3>12, <3>13, <3>14, <4>1 DEF Agree
    <3>16. Succeeded'
      <4> SUFFICES ASSUME NEW e \in Doc, status'[e] = "success"
                   PROVE  (AllIn(texts, e)' /\ IdsOf(meta, e)' = {}) \/ AllIn(meta, e)'
        BY DEF Succeeded, SuccessOk
      <4>1. e # d /\ status[e] = "success"
        BY <1>2
      <4>2. (AllIn(texts, e) /\ IdsOf(meta, e) = {}) \/ AllIn(meta, e)
        BY <4>1 DEF Whole, Succeeded, SuccessOk
      <4>3. AllIn(texts, e) => AllIn(texts, e)'
        <5>1. \A c \in ChunksIn(e) : c[1] = e
          BY DEF ChunksIn
        <5>2. ASSUME NEW c \in ChunksIn(e), NEW i \in DOMAIN texts, texts[i] = c
              PROVE  i \in DOMAIN texts' /\ texts'[i] = c
          <6>1. i \notin mine
            BY <2>5, <4>1, <5>1, <5>2
          <6>2. i \in kept
            BY <6>1 DEF kept
          <6> QED
            BY <3>2, <3>3, <3>6, <5>2, <6>2
        <5> QED
          BY <5>2 DEF AllIn
      <4> QED
        BY <2>8, <2>9, <4>1, <4>2, <4>3
    <3> QED
      BY <3>15, <3>16 DEF Whole, Agreed
  <2> QED
    BY <2>10, <2>11
<1> QED
  BY <1>3, <1>4

LEMMA RestartWhole ==
    ASSUME Shape, MapsTyped, Orderly, Whole, Restart, ~damaged'
    PROVE  Whole'
<1>1. PICK b \in Nat, r \in Nat, t \in Nat, u \in Nat : Agree(b, r, t, u)
  BY DEF Whole, Agreed
<1>2. /\ dump \in {"no", "due"}
      /\ frames' = <<>> /\ texts' = Nothing /\ vectors' = Nothing /\ index' = <<>>
      /\ range' = EmptyRange /\ dump' = "no" /\ UNCHANGED <<meta, seg, disk>>
      /\ \A d \in Doc : status'[d] = InitialStatus(d)
  BY DEF Restart, Shape
<1>3. r = b /\ t = b
  BY <1>1, <1>2 DEF Agree, DumpFits
<1>4. DOMAIN texts' = {} /\ b..(b - 1) = {}
  BY <1>2, NothingIs
<1>5. Agree(b, b, b, b)'
  <2>1. CacheFits(b, b)'
    BY <1>2, <1>4 DEF CacheFits
  <2>2. TablesFit(b, b, b)' /\ FilesFit(b)'
    BY <1>1, <1>2, <1>3 DEF Agree, TablesFit, FilesFit
  <2>3. Len(index') = 0 /\ b + 0 = b /\ \A i \in 1..Len(index') : FALSE
    BY <1>2
  <2>4. IndexFits(b, b)'
    BY <1>2, <2>3 DEF IndexFits
  <2>5. WholeDocuments(b)' /\ DumpFits(b, b, b)'
    BY <1>2, <1>4 DEF WholeDocuments, DumpFits
  <2> QED
    BY <2>1, <2>2, <2>4, <2>5 DEF Agree
<1>6. Succeeded'
  <2> SUFFICES ASSUME NEW d \in Doc, InitialStatus(d) = "success"
               PROVE  AllIn(meta, d)'
    BY <1>2 DEF Succeeded, SuccessOk
  <2>1. IdsOf(meta, d) # {} => status[d] = "success"
    BY DEF Orderly, Listed, KeptTextIsListed
  <2>2. status[d] = "success" /\ IdsOf(meta, d) # {}
    BY <2>1 DEF InitialStatus
  <2>3. AllIn(meta, d)
    BY <2>2 DEF Whole, Succeeded, SuccessOk
  <2> QED
    BY <1>2, <2>3 DEF AllIn
<1> QED
  BY <1>5, <1>6 DEF Whole, Agreed

LEMMA SoundStays ==
    ASSUME Shape, MapsTyped, Orderly, Sound, [Next]_vars
    PROVE  Sound'
<1> SUFFICES ASSUME ~damaged' PROVE Whole'
  BY DEF Sound, Whole, Agreed, Succeeded
<1>1. ~damaged => Whole
  BY DEF Sound, Whole, Agreed, Succeeded
<1>2. CASE (\E batch \in Batches : CreateIndex(batch)) \/ RejectKnown \/ RejectContent
              \/ StartEmbedding \/ EmbedAborted \/ EmbedFails \/ SearchIndex
              \/ LoadText \/ UNCHANGED vars
  <2>1. ~damaged
    BY <1>2 DEF CreateIndex, RejectKnown, RejectContent, StartEmbedding, EmbedAborted, EmbedFails,
                SearchIndex, LoadText, vars
  <2> QED
    BY <1>1, <1>2, <2>1, UntouchedWhole
<1>3. CASE EmbedSucceeds
  <2>1. ~damaged
    BY <1>3 DEF EmbedSucceeds
  <2> QED
    BY <1>1, <1>3, <2>1, EmbedSucceedsWhole
<1>4. CASE UpdateIndex
  <2>1. ~damaged
    BY <1>4 DEF UpdateIndex
  <2> QED
    BY <1>1, <1>4, <2>1, UpdateIndexWhole
<1>5. CASE EmbeddingClear
  <2>1. ~damaged
    BY <1>5 DEF EmbeddingClear
  <2> QED
    BY <1>1, <1>5, <2>1, EmbeddingClearWhole
<1>6. CASE DumpTexts
  <2>1. ~damaged
    BY <1>6 DEF DumpTexts
  <2> QED
    BY <1>1, <1>6, <2>1, DumpTextsWhole
<1>7. CASE DumpSegment
  <2>1. ~damaged
    BY <1>7 DEF DumpSegment
  <2> QED
    BY <1>1, <1>7, <2>1, DumpSegmentWhole
<1>8. CASE DumpFile
  <2>1. ~damaged
    BY <1>8 DEF DumpFile
  <2> QED
    BY <1>1, <1>8, <2>1, DumpFileWhole
<1>9. CASE \E d \in Doc : DeleteIndex(d)
  <2>1. PICK d \in Doc : DeleteIndex(d)
    BY <1>9
  <2>2. ~damaged
    BY <2>1 DEF DeleteIndex, DeleteCached
  <2> QED
    BY <1>1, <2>1, <2>2, DeleteWhole
<1>10. CASE Restart
  <2>1. ~damaged
    BY <1>10 DEF Restart
  <2> QED
    BY <1>1, <1>10, <2>1, RestartWhole
<1> QED
  BY <1>2, <1>3, <1>4, <1>5, <1>6, <1>7, <1>8, <1>9, <1>10 DEF Next, Worker, Optional

LEMMA InvInit ==
    ASSUME Init
    PROVE  IndexInv
<1>1. /\ frames = <<>> /\ abort = {} /\ texts = Nothing /\ vectors = Nothing /\ index = <<>>
      /\ range = EmptyRange /\ status = [d \in Doc |-> "absent"] /\ meta = Nothing
      /\ seg = Nothing /\ disk = {} /\ dump = "no" /\ hit = None /\ searches = 0 /\ creates = 0
      /\ damaged = FALSE
  BY DEF Init
<1>2. /\ DOMAIN texts = {} /\ DOMAIN vectors = {} /\ DOMAIN meta = {} /\ DOMAIN seg = {}
  BY <1>1, NothingIs
<1>3. MapsTyped
  BY <1>1, NothingIs DEF MapsTyped
<1>4. Shape
  <2>1. MaxSearches \in Nat /\ MaxCreates \in Nat
    BY IndexAssumption DEF IndexAssumption
  <2>2. EmptyRange \in Id \X (Id \cup {-1})
    BY IdsAre
  <2> QED
    <3>1. /\ abort \subseteq Doc /\ DOMAIN texts \subseteq Id /\ DOMAIN vectors \subseteq Id
          /\ DOMAIN meta \subseteq Id /\ DOMAIN seg \subseteq Id /\ disk \subseteq Entry
      BY <1>1, <1>2
    <3>2. index \in Seq(Entry)
      BY <1>1
    <3>3. status \in [Doc -> Status]
      BY <1>1 DEF Status
    <3>4. /\ range \in Id \X (Id \cup {-1}) /\ dump \in {"no", "due", "index", "file"}
          /\ hit \in Id \cup {None} /\ damaged \in BOOLEAN
      BY <1>1, <2>2
    <3>5. searches \in 0..MaxSearches /\ creates \in 0..MaxCreates
      BY <1>1, <2>1
    <3> QED
      BY <3>1, <3>2, <3>3, <3>4, <3>5 DEF Shape
<1>5. Len(frames) = 0 /\ FramesTyped /\ (\A i \in 1..Len(frames) : FALSE)
  BY <1>1 DEF FramesTyped
<1>6. Orderly
  <2>1. FramesOk
    BY <1>5 DEF FramesOk
  <2>2. \A d \in Doc : ProgressOk(d)
    BY <1>1, <1>5 DEF ProgressOk, WaitingFor
  <2>3. KeptOk
    BY <1>2 DEF KeptOk
  <2>4. Listed
    BY <1>2 DEF Listed, KeptTextIsListed, IdsOf
  <2> QED
    BY <2>1, <2>2, <2>3, <2>4 DEF Orderly
<1>7. Agree(0, 0, 0, 0)
  <2>1. 0..(0 - 1) = {}
    OBVIOUS
  <2>2. CacheFits(0, 0) /\ TablesFit(0, 0, 0) /\ FilesFit(0)
    BY <1>1, <1>2, <2>1 DEF CacheFits, TablesFit, FilesFit
  <2>3. Len(index) = 0 /\ \A i \in 1..Len(index) : FALSE
    BY <1>1
  <2>4. IndexFits(0, 0)
    BY <1>1, <2>3 DEF IndexFits
  <2>5. WholeDocuments(0) /\ DumpFits(0, 0, 0)
    BY <1>1, <1>2 DEF WholeDocuments, DumpFits
  <2> QED
    BY <2>2, <2>4, <2>5 DEF Agree
<1>8. Sound
  <2>1. \A d \in Doc : SuccessOk(d)
    BY <1>1 DEF SuccessOk
  <2> QED
    BY <1>7, <2>1 DEF Sound
<1> QED
  BY <1>3, <1>4, <1>5, <1>6, <1>8, ShapeIs DEF IndexInv

LEMMA InvNext ==
    ASSUME IndexInv, [Next]_vars
    PROVE  IndexInv'
<1>1. Shape /\ MapsTyped /\ Orderly /\ Sound
  BY ShapeIs DEF IndexInv
<1>2. Shape' /\ MapsTyped' /\ Orderly'
  BY <1>1, OrderAndTypes
<1>3. Sound'
  BY <1>1, SoundStays
<1>4. IndexTypeOK'
  <2>1. FramesTyped'
    BY <1>2 DEF Orderly, FramesOk
  <2>2. /\ frames' \in Seq([todo : Seq(Doc), ok : BOOLEAN, waiting : BOOLEAN])
        /\ Range(texts)' \subseteq Chunk \cup {Blank} /\ Range(vectors)' \subseteq Chunk
        /\ Range(meta)' \subseteq Chunk \cup {Blank} /\ Range(seg)' \subseteq BOOLEAN
    BY <1>2, <2>1 DEF MapsTyped, Range, FramesTyped
  <2> QED
    BY <1>2, <2>2 DEF IndexTypeOK, Shape
<1> QED
  BY <1>2, <1>3, <1>4 DEF IndexInv

-----------------------------------------------------------------------------
(* What follows                                                            *)

LEMMA IdsFollow ==
    ASSUME IndexInv
    PROVE  IdsAgree
<1> SUFFICES ASSUME ~damaged, dump = "no"
             PROVE  /\ DOMAIN seg = 0..(LastId - 1)
                    /\ texts = vectors
                    /\ DOMAIN texts = LastId..(NextId - 1)
                    /\ \A i \in DOMAIN index :
                          index[i] = [id |-> LastId + i - 1, vec |-> texts[LastId + i - 1]]
                    /\ DOMAIN seg = {e.id : e \in disk}
                    /\ \A e \in disk : seg[e.id] \/ (e.id \in DOMAIN meta /\ meta[e.id] = e.vec)
  BY DEF IdsAgree
<1>1. Shape /\ MapsTyped
  BY ShapeIs DEF IndexInv
<1>2. PICK b \in Nat, r \in Nat, t \in Nat, u \in Nat : Agree(b, r, t, u)
  BY DEF IndexInv, Sound
<1>3. /\ LastId = b /\ NextId = u
      /\ DOMAIN texts = b..(u - 1) /\ DOMAIN seg = 0..(b - 1) /\ texts = vectors
      /\ \A i \in 1..Len(index) : index[i].id = b + i - 1 /\ index[i].vec = texts[b + i - 1]
  BY <1>1, <1>2, SettledIs
<1>4. \A i \in DOMAIN index : index[i] = [id |-> b + i - 1, vec |-> texts[b + i - 1]]
  <2> SUFFICES ASSUME NEW i \in DOMAIN index
               PROVE  index[i] = [id |-> b + i - 1, vec |-> texts[b + i - 1]]
    OBVIOUS
  <2>1. index[i] \in [id : Id, vec : Chunk \cup {Junk}] /\ i \in 1..Len(index)
    <3>1. index \in Seq(Entry)
      BY <1>1 DEF Shape
    <3>2. index[i] \in Entry /\ i \in 1..Len(index)
      BY <3>1
    <3> QED
      BY <3>2 DEF Entry
  <2> QED
    BY <1>3, <2>1
<1>5. /\ {e.id : e \in disk} = 0..(b - 1)
      /\ \A e \in disk : seg[e.id] \/ (e.id \in DOMAIN meta /\ meta[e.id] = e.vec)
  BY <1>2 DEF Agree, FilesFit
<1> QED
  BY <1>3, <1>4, <1>5

LEMMA SuccessFollows ==
    ASSUME IndexInv
    PROVE  SuccessIsFindable
<1> SUFFICES ASSUME ~damaged, dump = "no", frames = <<>>,
                    NEW d \in Doc, status[d] = "success", NEW c \in ChunksIn(d)
             PROVE  Findable(c)
  BY DEF SuccessIsFindable
<1>1. Shape /\ MapsTyped
  BY ShapeIs DEF IndexInv
<1>2. PICK b \in Nat, r \in Nat, t \in Nat, u \in Nat : Agree(b, r, t, u)
  BY DEF IndexInv, Sound
<1>3. /\ DOMAIN texts = b..(u - 1) /\ DOMAIN seg = 0..(b - 1) /\ t = b
      /\ \A i \in 1..Len(index) : index[i].id = b + i - 1 /\ index[i].vec = texts[b + i - 1]
      /\ Len(index) \in Nat
  BY <1>1, <1>2, SettledIs
<1>4. b + Len(index) = u /\ DOMAIN index = 1..Len(index)
  BY <1>1, <1>2 DEF Agree, IndexFits, Shape
<1>5. AllIn(texts, d) \/ AllIn(meta, d)
  BY DEF IndexInv, Sound, SuccessOk
<1>6. CASE AllIn(texts, d)
  <2>1. PICK i \in DOMAIN texts : texts[i] = c
    BY <1>6 DEF AllIn
  <2>2. i - b + 1 \in 1..Len(index) /\ b + (i - b + 1) - 1 = i
    BY <1>3, <1>4
  <2>3. index[i - b + 1].id = i /\ index[i - b + 1].vec = texts[i]
    BY <1>3, <2>2
  <2>4. \E k \in DOMAIN index : index[k].vec = c /\ texts[index[k].id] = c
    BY <1>4, <2>1, <2>2, <2>3
  <2> QED
    BY <2>4 DEF Findable
<1>7. CASE AllIn(meta, d)
  <2>1. PICK i \in DOMAIN meta : meta[i] = c
    BY <1>7 DEF AllIn
  <2>2. i \in 0..(b - 1) /\ ~seg[i]
    BY <1>2, <1>3, <2>1 DEF Agree, TablesFit
  <2>3. PICK e \in disk : e.id = i /\ (seg[i] \/ meta[i] = e.vec)
    BY <1>2, <2>2 DEF Agree, FilesFit
  <2>4. Ascending(0..(b - 1)) = [k \in 1..((b - 1) - 0 + 1) |-> 0 + k - 1]
    <3>1. 0 \in Int /\ b - 1 \in Int /\ b - 1 >= 0 - 1
      OBVIOUS
    <3> QED
      BY <3>1, AscendingInterval
  <2>5. Ascending(0..(b - 1)) = [k \in 1..b |-> k - 1]
    <3>1. (b - 1) - 0 + 1 = b /\ \A k \in 1..b : 0 + k - 1 = k - 1
      OBVIOUS
    <3> QED
      BY <2>4, <3>1
  <2>6. Len(Ascending(DOMAIN seg)) = b /\ Ascending(DOMAIN seg)[i + 1] = i
    BY <1>3, <2>2, <2>5
  <2>7. Selected(i)
    BY <2>2, <2>6 DEF Selected
  <2> QED
    BY <2>1, <2>2, <2>3, <2>7 DEF Findable
<1> QED
  BY <1>5, <1>6, <1>7

LEMMA AtMostOne ==
    ASSUME NEW S, \A x, y \in S : x = y
    PROVE  Cardinality(S) \in {0, 1} /\ (S = {} => Cardinality(S) = 0)
<1>1. CASE S = {}
  BY <1>1, FS_EmptySet
<1>2. CASE S # {}
  <2>1. PICK x : x \in S
    BY <1>2
  <2>2. S = {x}
    BY <2>1
  <2>3. Cardinality({x}) = 1
    BY FS_Singleton
  <2> QED
    BY <1>2, <2>2, <2>3
<1> QED
  BY <1>1, <1>2

LEMMA ListedFollows ==
    ASSUME IndexInv
    PROVE  KeptTextIsListed /\ ProgressIsReal /\ NoDuplicates
<1>1. FramesOk /\ (\A d \in Doc : ProgressOk(d)) /\ KeptOk /\ Listed /\ abort \subseteq Doc
  BY DEF IndexInv, Orderly, IndexTypeOK
<1>2. ProgressIsReal
  <2>1. ASSUME NEW d \in Doc, WaitingFor(d)
        PROVE  d \in InProgress /\ \E i \in DOMAIN frames : frames[i].waiting /\ Head(frames[i].todo) = d
    <3>1. PICK i \in 1..Len(frames) : frames[i].waiting /\ Head(frames[i].todo) = d
      BY <2>1 DEF WaitingFor, WaitsFor, Paused
    <3>2. frames[i].todo \in Seq(Doc) /\ DOMAIN frames = 1..Len(frames) /\ frames[i].todo # <<>>
      BY <1>1, <3>1, FrameIs DEF FramesOk, Paused
    <3>3. d \in Range(frames[i].todo)
      <4>1. Head(frames[i].todo) = frames[i].todo[1] /\ 1 \in DOMAIN frames[i].todo
        BY <3>2
      <4> QED
        BY <3>1, <4>1 DEF Range
    <3> QED
      BY <3>1, <3>2, <3>3 DEF InProgress
  <2> QED
    BY <1>1, <2>1 DEF ProgressIsReal, ProgressOk
<1>3. NoDuplicates
  <2> SUFFICES ASSUME NEW c \in Chunk
               PROVE  Cardinality({i \in DOMAIN texts : texts[i] = c})
                         + Cardinality({i \in DOMAIN meta : meta[i] = c}) <= 1
    BY DEF NoDuplicates
  <2> DEFINE A == {i \in DOMAIN texts : texts[i] = c}
             B == {i \in DOMAIN meta : meta[i] = c}
  <2>1. (\A i, j \in A : i = j) /\ (\A i, j \in B : i = j) /\ (A = {} \/ B = {})
    BY <1>1 DEF KeptOk
  <2> HIDE DEF A, B
  <2>2. /\ Cardinality(A) \in {0, 1} /\ (A = {} => Cardinality(A) = 0)
        /\ Cardinality(B) \in {0, 1} /\ (B = {} => Cardinality(B) = 0)
    BY <2>1, AtMostOne
  <2>3. Cardinality(A) + Cardinality(B) <= 1
    BY <2>1, <2>2
  <2> QED
    BY <2>3 DEF A, B
<1> QED
  BY <1>1, <1>2, <1>3 DEF Listed

-----------------------------------------------------------------------------
(* Theorems about the vector index                                         *)

\* The invariant the next two rest on: what doCreateIndex, doIndexDump,
\* doDeleteIndex, the search thread and a restart each find and leave behind.
THEOREM IndexInvariant == Spec => []IndexInv
<1>1. Init => IndexInv
  BY InvInit
<1>2. IndexInv /\ [Next]_vars => IndexInv'
  BY InvNext
<1> QED
  BY <1>1, <1>2, PTL DEF Spec

\* Cached texts and vectors, index, tables and files keep agreeing on the ids,
\* for any documents, any dump threshold and calls nested to any depth, as long
\* as none of the events named in damaged has happened.
THEOREM IdsAlwaysAgree == Spec => []IdsAndTypesAgree
<1>1. IndexInv => IdsAndTypesAgree
  BY IdsFollow DEF IndexInv, IdsAndTypesAgree
<1> QED
  BY <1>1, IndexInvariant, PTL

\* What is kept is what embedding_status shows: a document listed as a success
\* is found whole and once, text is kept of no other, and only a document that
\* is being embedded is said to be.
THEOREM StoredAlwaysListed == Spec => []StoredIsListed
<1>1. IndexInv => StoredIsListed
  BY SuccessFollows, ListedFollows DEF StoredIsListed
<1> QED
  BY <1>1, IndexInvariant, PTL
-----------------------------------------------------------------------------
(* The property index: what its proofs speak of                            *)

Path == File \cup {Folder}
Act == {"new", "deleted", "renamed from", "renamed to"}
JobName == {"created", "deleted", "create all"}

\* A document of f will be made of an event or a job, or dropped by it.
Finds(e, f) ==
    \/ e[1] = "create all"
    \/ e[1] \in {"new", "renamed to", "created"} /\ f \in Under(e[2])
Drops(e, f) == e[1] \in {"deleted", "renamed from"} /\ f \in Under(e[2])

FoundIn(q, f) == \E i \in 1..Len(q) : Finds(q[i], f)
DroppedIn(q, f) == \E i \in 1..Len(q) : Drops(q[i], f)
\* Whatever drops the documents of f is followed by something that finds it.
HealedIn(q, f) ==
    \A i \in 1..Len(q) : Drops(q[i], f) => \E j \in i..Len(q) : Finds(q[j], f)

\* Walks of everything that are asked for.
AsksAll(e) == e[1] = "create all"
Asked(q) == {i \in 1..Len(q) : AsksAll(q[i])}
Walks ==
    Cardinality(Asked(jobs)) + timers + (IF switching = "up" THEN 1 ELSE 0)
        + (IF process THEN 0 ELSE 1)

DiskTyped == changed \in [File -> 0..now] /\ folder \in BOOLEAN /\ now \in 1..MaxChanges
KernelTyped == kernel \in Seq(Act \X Path)
RunningTyped == process \in BOOLEAN /\ listening \in BOOLEAN
SwitchesTyped ==
    /\ linked \in BOOLEAN /\ stopped \in BOOLEAN /\ switching \in {"none", "up", "down"}
    /\ enabled \in BOOLEAN /\ switches \in 0..MaxSwitches
JobsTyped == jobs \in Seq(JobName \X Path)
WorkTyped ==
    walk \in [job : {"none", "created", "create all", "update all"},
              todo : SUBSET File, sure : SUBSET File, whole : BOOLEAN]
Written == [File -> Seq(1..MaxChanges)]
WrittenTyped ==
    docs \in Written /\ saved \in Written /\ exists \in BOOLEAN /\ finished \in BOOLEAN
ObservedTyped == covered \in BOOLEAN /\ unseen \subseteq File

FilesTyped ==
    /\ DiskTyped /\ KernelTyped /\ RunningTyped /\ SwitchesTyped /\ JobsTyped
    /\ timers \in Nat /\ WorkTyped /\ WrittenTyped /\ crashes \in 0..MaxCrashes /\ ObservedTyped

Dated(D) == \A f \in File : \A i \in 1..Len(D[f]) : D[f][i] \in 1..now

\* A process that ended has nothing left, and a socket outside the group hears nothing.
DownIsEmpty ==
    ~process => /\ ~listening /\ jobs = <<>> /\ timers = 0 /\ walk = Idle
                /\ ~linked /\ stopped /\ switching = "none"
DeafIsEmpty == ~listening => kernel = <<>> /\ \A f \in File : ~DroppedIn(jobs, f)
\* The worker is started when its signals are connected, and stopped before they go.
LinkedFirst ==
    /\ ~stopped => linked
    /\ switching = "up" => linked
    /\ switching = "down" => stopped
\* A whole walk is one of a worker that was left on and heard of.
CoverIsHeard == covered \/ walk.whole => ~stopped /\ listening
WriterClosed == walk.job = "none" => docs = saved /\ walk.todo = {}
NoIndexNoDocs == ~exists => saved = NoDocs
SavedIsWritten == \A f \in File : saved[f] # <<>> => docs[f] # <<>>

Standing ==
    /\ DownIsEmpty /\ DeafIsEmpty /\ LinkedFirst /\ CoverIsHeard
    /\ WriterClosed /\ NoIndexNoDocs /\ SavedIsWritten

WalksBounded == Walks <= switches + crashes

\* A file that is there is not dropped last.
KernelHealed == \A f \in File : Present(f) => HealedIn(kernel, f)
JobsHealed ==
    ~stopped => \A f \in File : Present(f) => HealedIn(jobs, f) \/ FoundIn(kernel, f)

WillBeFound(f) ==
    \/ docs[f] # <<>> \/ f \in walk.todo \cap walk.sure \/ timers > 0
    \/ FoundIn(jobs, f) \/ FoundIn(kernel, f)
PresentFound ==
    covered \/ walk.whole => \A f \in File : Present(f) => WillBeFound(f)

GhostsTold ==
    \A f \in File : docs[f] # <<>> /\ ~Present(f)
        => f \in unseen \/ Untold(f, kernel) \/ Untold(f, jobs)

FilesInv ==
    /\ FilesTyped /\ Dated(docs) /\ Dated(saved) /\ Standing /\ WalksBounded
    /\ KernelHealed /\ JobsHealed /\ PresentFound /\ GhostsTold

-----------------------------------------------------------------------------
(* Queues of events                                                        *)

\* What Append does to a queue.
LEMMA AppendEvent ==
    ASSUME NEW S, NEW q \in Seq(S), NEW e \in S
    PROVE  /\ Append(q, e) \in Seq(S)
           /\ Len(Append(q, e)) = Len(q) + 1
           /\ \A i \in 1..Len(q) : Append(q, e)[i] = q[i]
           /\ Append(q, e)[Len(q) + 1] = e
           /\ 1..Len(Append(q, e)) = (1..Len(q)) \cup {Len(q) + 1}
OBVIOUS

\* What Tail does to a queue.
LEMMA TailEvent ==
    ASSUME NEW S, NEW q \in Seq(S), q # <<>>
    PROVE  /\ Tail(q) \in Seq(S) /\ Len(Tail(q)) = Len(q) - 1 /\ Head(q) \in S
           /\ Head(q) = q[1] /\ 1 \in 1..Len(q)
           /\ \A i \in 1..Len(Tail(q)) : i + 1 \in 1..Len(q) /\ Tail(q)[i] = q[i + 1]
           /\ \A i \in 1..Len(q) : i # 1 => i - 1 \in 1..Len(Tail(q)) /\ Tail(q)[i - 1] = q[i]
<1>1. Tail(q) \in Seq(S) /\ Len(Tail(q)) = Len(q) - 1 /\ Head(q) \in S /\ Head(q) = q[1]
  OBVIOUS
<1>2. 1 \in 1..Len(q)
  OBVIOUS
<1>3. \A i \in 1..Len(Tail(q)) : i + 1 \in 1..Len(q) /\ Tail(q)[i] = q[i + 1]
  OBVIOUS
<1>4. ASSUME NEW i \in 1..Len(q), i # 1
      PROVE  i - 1 \in 1..Len(Tail(q)) /\ Tail(q)[i - 1] = q[i]
  <2>1. i - 1 \in 1..Len(Tail(q))
    BY <1>1, <1>4
  <2>2. Tail(q)[i - 1] = q[(i - 1) + 1]
    BY <1>3, <2>1
  <2> QED
    BY <2>1, <2>2
<1> QED
  BY <1>1, <1>2, <1>3, <1>4

LEMMA NoEvents ==
    ASSUME NEW f
    PROVE  /\ ~FoundIn(<<>>, f) /\ ~DroppedIn(<<>>, f) /\ HealedIn(<<>>, f)
           /\ ~Untold(f, <<>>)
BY DEF FoundIn, DroppedIn, HealedIn, Untold

\* What a new event does to the fate of a file.
LEMMA AppendFate ==
    ASSUME NEW S, NEW q \in Seq(S), NEW e \in S, NEW f
    PROVE  /\ FoundIn(q, f) \/ Finds(e, f) => FoundIn(Append(q, e), f)
           /\ DroppedIn(Append(q, e), f) => DroppedIn(q, f) \/ Drops(e, f)
           /\ Finds(e, f) => HealedIn(Append(q, e), f)
           /\ HealedIn(q, f) /\ ~Drops(e, f) => HealedIn(Append(q, e), f)
           /\ Untold(f, q) => Untold(f, Append(q, e))
           /\ e[1] \in {"deleted", "renamed from"} /\ e[2] = f => Untold(f, Append(q, e))
<1> DEFINE r == Append(q, e)
           n == Len(q)
<1>1. /\ Len(r) = n + 1 /\ n \in Nat /\ r[n + 1] = e
      /\ \A i \in 1..n : r[i] = q[i]
      /\ 1..Len(r) = (1..n) \cup {n + 1}
  BY AppendEvent
<1>2. \A i \in 1..n : i \in 1..Len(r) /\ n + 1 \in i..Len(r)
  BY <1>1
<1>3. n + 1 \in 1..Len(r) /\ n + 1 \in (n + 1)..Len(r)
  BY <1>1
<1>4. \A i \in 1..n : \A j \in i..n : j \in i..Len(r) /\ j \in 1..n
  BY <1>1
<1> HIDE DEF r, n
<1>5. n = Len(q)
  BY DEF n
<1>6. FoundIn(q, f) \/ Finds(e, f) => FoundIn(r, f)
  BY <1>1, <1>2, <1>3, <1>5 DEF FoundIn
<1>7. DroppedIn(r, f) => DroppedIn(q, f) \/ Drops(e, f)
  BY <1>1, <1>5 DEF DroppedIn
<1>8. ASSUME Finds(e, f)
      PROVE  HealedIn(r, f)
  BY <1>1, <1>2, <1>3, <1>8 DEF HealedIn
<1>9. ASSUME HealedIn(q, f), ~Drops(e, f)
      PROVE  HealedIn(r, f)
  <2> SUFFICES ASSUME NEW i \in 1..Len(r), Drops(r[i], f)
               PROVE  \E j \in i..Len(r) : Finds(r[j], f)
    BY DEF HealedIn
  <2>1. i \in 1..n /\ r[i] = q[i]
    BY <1>1, <1>9
  <2>2. PICK j \in i..n : Finds(q[j], f)
    BY <2>1, <1>5, <1>9 DEF HealedIn
  <2>3. j \in i..Len(r) /\ r[j] = q[j]
    BY <1>1, <1>4, <2>1, <2>2
  <2> QED
    BY <2>2, <2>3
<1>10. Untold(f, q) => Untold(f, r)
  BY <1>1, <1>2, <1>5 DEF Untold
<1>11. e[1] \in {"deleted", "renamed from"} /\ e[2] = f => Untold(f, r)
  BY <1>1, <1>3 DEF Untold
<1> QED
  BY <1>6, <1>7, <1>8, <1>9, <1>10, <1>11 DEF r

\* What a file is left with when the head of the queue has been taken.
LEMMA TailFate ==
    ASSUME NEW S, NEW q \in Seq(S), q # <<>>, NEW f
    PROVE  /\ FoundIn(q, f) => Finds(Head(q), f) \/ FoundIn(Tail(q), f)
           /\ DroppedIn(Tail(q), f) => DroppedIn(q, f)
           /\ HealedIn(q, f) => HealedIn(Tail(q), f)
           /\ HealedIn(q, f) /\ Drops(Head(q), f) => FoundIn(Tail(q), f)
           /\ Untold(f, q)
                => \/ Head(q)[1] \in {"deleted", "renamed from"} /\ Head(q)[2] = f
                   \/ Untold(f, Tail(q))
<1> DEFINE r == Tail(q)
           h == Head(q)
<1>1. /\ h = q[1] /\ 1 \in 1..Len(q) /\ Len(r) = Len(q) - 1 /\ Len(q) \in Nat
      /\ \A i \in 1..Len(r) : i + 1 \in 1..Len(q) /\ r[i] = q[i + 1]
      /\ \A i \in 1..Len(q) : i # 1 => i - 1 \in 1..Len(r) /\ r[i - 1] = q[i]
  BY TailEvent
<1> HIDE DEF r, h
<1>2. FoundIn(q, f) => Finds(h, f) \/ FoundIn(r, f)
  BY <1>1 DEF FoundIn
<1>3. DroppedIn(r, f) => DroppedIn(q, f)
  BY <1>1 DEF DroppedIn
<1>4. ASSUME HealedIn(q, f), NEW i \in 1..Len(r), Drops(r[i], f)
      PROVE  \E j \in i..Len(r) : Finds(r[j], f)
  <2>1. PICK j \in (i + 1)..Len(q) : Finds(q[j], f)
    BY <1>1, <1>4 DEF HealedIn
  <2>2. j \in 1..Len(q) /\ j # 1
    BY <1>1, <2>1
  <2>3. j - 1 \in i..Len(r) /\ r[j - 1] = q[j]
    BY <1>1, <2>1, <2>2
  <2> QED
    BY <2>1, <2>3
<1>5. ASSUME HealedIn(q, f), Drops(h, f)
      PROVE  FoundIn(r, f)
  <2>1. PICK j \in 1..Len(q) : Finds(q[j], f)
    BY <1>1, <1>5 DEF HealedIn
  <2>2. ~Finds(h, f)
    BY <1>5 DEF Finds, Drops
  <2>3. j # 1
    BY <1>1, <2>1, <2>2
  <2> QED
    BY <1>1, <2>1, <2>3 DEF FoundIn
<1>6. Untold(f, q) => (h[1] \in {"deleted", "renamed from"} /\ h[2] = f) \/ Untold(f, r)
  BY <1>1 DEF Untold
<1>7. HealedIn(q, f) => HealedIn(r, f)
  BY <1>4 DEF HealedIn
<1> QED
  BY <1>2, <1>3, <1>5, <1>6, <1>7 DEF r, h

\* The walks asked for are finitely many, and one more is one more.
LEMMA AppendAsked ==
    ASSUME NEW S, NEW q \in Seq(S), NEW e \in S
    PROVE  /\ Cardinality(Asked(q)) \in Nat /\ Cardinality(Asked(Append(q, e))) \in Nat
           /\ Cardinality(Asked(Append(q, e))) <= Cardinality(Asked(q)) + 1
           /\ ~AsksAll(e) => Cardinality(Asked(Append(q, e))) = Cardinality(Asked(q))
<1> DEFINE r == Append(q, e)
           n == Len(q)
<1>1. /\ n \in Nat /\ r[n + 1] = e
      /\ \A i \in 1..n : r[i] = q[i]
      /\ 1..Len(r) = (1..n) \cup {n + 1}
  BY AppendEvent
<1>2. n + 1 \notin 1..n
  BY <1>1
<1>3. IsFiniteSet(1..n)
  BY <1>1, FS_Interval
<1> HIDE DEF r
<1>4. Asked(r) = IF AsksAll(e) THEN Asked(q) \cup {n + 1} ELSE Asked(q)
  BY <1>1, <1>2 DEF Asked
<1>5. Asked(q) \in SUBSET (1..n) /\ n + 1 \notin Asked(q)
  BY <1>2 DEF Asked
<1> HIDE DEF n
<1>6. IsFiniteSet(Asked(q))
  BY <1>3, <1>5, FS_Subset
<1>7. Cardinality(Asked(q)) \in Nat
  BY <1>6, FS_CardinalityType
<1>8. Cardinality(Asked(q) \cup {n + 1}) = Cardinality(Asked(q)) + 1
  BY <1>5, <1>6, FS_AddElement
<1> DEFINE Good == /\ Cardinality(Asked(q)) \in Nat /\ Cardinality(Asked(r)) \in Nat
                   /\ Cardinality(Asked(r)) <= Cardinality(Asked(q)) + 1
                   /\ ~AsksAll(e) => Cardinality(Asked(r)) = Cardinality(Asked(q))
<1>9. ASSUME AsksAll(e) PROVE Good
  <2>1. Asked(r) = Asked(q) \cup {n + 1}
    BY <1>4, <1>9
  <2>2. Cardinality(Asked(r)) = Cardinality(Asked(q)) + 1
    BY <1>8, <2>1
  <2> QED
    BY <1>7, <1>9, <2>2
<1>10. ASSUME ~AsksAll(e) PROVE Good
  <2>1. Asked(r) = Asked(q)
    BY <1>4, <1>10
  <2>2. Cardinality(Asked(r)) = Cardinality(Asked(q))
    BY <2>1
  <2> QED
    BY <1>7, <2>2
<1> QED
  BY <1>9, <1>10 DEF r

LEMMA TailAsked ==
    ASSUME NEW S, NEW q \in Seq(S), q # <<>>
    PROVE  /\ Cardinality(Asked(q)) \in Nat /\ Cardinality(Asked(Tail(q))) \in Nat
           /\ Cardinality(Asked(Tail(q))) <= Cardinality(Asked(q))
           /\ AsksAll(Head(q))
                => Cardinality(Asked(Tail(q))) + 1 <= Cardinality(Asked(q))
<1> DEFINE r == Tail(q)
           A == Asked(q)
           B == Asked(q) \ {1}
           g == [i \in Asked(r) |-> i + 1]
<1>1. /\ Head(q) = q[1] /\ 1 \in 1..Len(q) /\ Len(r) \in Nat /\ Len(q) \in Nat
      /\ \A i \in 1..Len(r) : i + 1 \in 1..Len(q) /\ r[i] = q[i + 1]
  BY TailEvent
<1>2. IsFiniteSet(1..Len(q))
  BY <1>1, FS_Interval
<1>3. A \in SUBSET (1..Len(q))
  BY DEF Asked
<1> HIDE DEF r
<1>4. \A i \in Asked(r) : i + 1 \in B /\ i \in Int
  <2> SUFFICES ASSUME NEW i \in Asked(r) PROVE i + 1 \in B /\ i \in Int
    OBVIOUS
  <2>1. i \in 1..Len(r) /\ AsksAll(r[i])
    BY DEF Asked
  <2>2. i + 1 \in 1..Len(q) /\ AsksAll(q[i + 1]) /\ i + 1 # 1 /\ i \in Int
    BY <1>1, <2>1
  <2> QED
    BY <2>2 DEF Asked
<1>5. 1 \in A <=> AsksAll(Head(q))
  BY <1>1 DEF Asked
<1> HIDE DEF A
<1>6. IsFiniteSet(A)
  BY <1>2, <1>3, FS_Subset
<1>7. IsFiniteSet(A \ {1})
      /\ Cardinality(A \ {1}) = IF 1 \in A THEN Cardinality(A) - 1 ELSE Cardinality(A)
  BY <1>6, FS_RemoveElement
<1>8. g \in Injection(Asked(r), B)
  <2>1. g \in [Asked(r) -> B]
    BY <1>4
  <2>2. ASSUME NEW i \in Asked(r), NEW j \in Asked(r), g[i] = g[j]
        PROVE  i = j
    BY <1>4, <2>2
  <2> QED
    BY <2>1, <2>2 DEF Injection, IsInjective
<1>9. B = A \ {1}
  BY DEF A
<1> HIDE DEF B, g
<1>10. IsFiniteSet(Asked(r)) /\ Cardinality(Asked(r)) <= Cardinality(B)
  BY <1>7, <1>8, <1>9, FS_Injection
<1>11. Cardinality(A) \in Nat /\ Cardinality(Asked(r)) \in Nat /\ Cardinality(B) \in Nat
  BY <1>6, <1>7, <1>9, <1>10, FS_CardinalityType
<1>12. Cardinality(B) = IF 1 \in A THEN Cardinality(A) - 1 ELSE Cardinality(A)
  BY <1>7, <1>9
<1> HIDE DEF A
<1>13. Cardinality(Asked(r)) <= Cardinality(A)
  BY <1>10, <1>11, <1>12
<1>14. 1 \in A => Cardinality(Asked(r)) + 1 <= Cardinality(A)
  BY <1>10, <1>11, <1>12
<1> QED
  BY <1>5, <1>11, <1>13, <1>14 DEF A, r

LEMMA NoneAsked == Cardinality(Asked(<<>>)) = 0
<1>1. Asked(<<>>) = {}
  BY DEF Asked
<1> QED
  BY <1>1, FS_EmptySet

-----------------------------------------------------------------------------
(* Types                                                                   *)

LEMMA UnderPath ==
    ASSUME PropertyAssumption, NEW p \in Path
    PROVE  /\ Under(p) \subseteq File
           /\ p \in File => Under(p) = {p}
           /\ Under(Folder) = Inside
BY DEF PropertyAssumption, Path, Under, File

LEMMA KernelEvent ==
    ASSUME KernelTyped, kernel # <<>>
    PROVE  /\ Head(kernel)[1] \in Act /\ Head(kernel)[2] \in Path
           /\ Tail(kernel) \in Seq(Act \X Path)
<1>1. Head(kernel) \in Act \X Path /\ Tail(kernel) \in Seq(Act \X Path)
  BY TailEvent DEF KernelTyped
<1> QED
  BY <1>1

LEMMA JobEvent ==
    ASSUME JobsTyped, jobs # <<>>
    PROVE  /\ Head(jobs)[1] \in JobName /\ Head(jobs)[2] \in Path
           /\ Tail(jobs) \in Seq(JobName \X Path)
<1>1. Head(jobs) \in JobName \X Path /\ Tail(jobs) \in Seq(JobName \X Path)
  BY TailEvent DEF JobsTyped
<1> QED
  BY <1>1

LEMMA TellTyped ==
    ASSUME KernelTyped, NEW a \in Act, NEW p \in Path, Tell(a, p)
    PROVE  KernelTyped'
<1>1. <<a, p>> \in Act \X Path
  OBVIOUS
<1> QED
  BY <1>1, AppendEvent DEF Tell, KernelTyped

LEMMA TickTyped ==
    ASSUME PropertyAssumption, DiskTyped, Tick, folder' \in BOOLEAN
    PROVE  /\ now' \in 1..MaxChanges /\ now' = now + 1 /\ now \in Nat
           /\ changed' = changed => DiskTyped'
           /\ \A f \in File, t \in {0, now'} : changed' = [changed EXCEPT ![f] = t] => DiskTyped'
<1>1. now' \in 1..MaxChanges /\ now' = now + 1 /\ now \in Nat
  BY DEF PropertyAssumption, DiskTyped, Tick
<1>2. changed \in [File -> 0..now']
  BY <1>1 DEF DiskTyped
<1> QED
  BY <1>1, <1>2 DEF DiskTyped

LEMMA PresentDated ==
    ASSUME PropertyAssumption, DiskTyped, NEW f \in File, Present(f)
    PROVE  changed[f] \in 1..now /\ changed[f] \in 1..MaxChanges
<1>1. changed[f] \in 0..now /\ now \in 1..MaxChanges /\ changed[f] > 0 /\ MaxChanges \in Nat
  BY DEF DiskTyped, Present, PropertyAssumption
<1> QED
  BY <1>1

LEMMA OneEvent ==
    ASSUME NEW S, NEW e \in S
    PROVE  <<e>> \in Seq(S) /\ Len(<<e>>) = 1 /\ <<e>>[1] = e
OBVIOUS

\* What a step leaves alone keeps its type.
LEMMA LeftTyped ==
    ASSUME FilesTyped
    PROVE  /\ UNCHANGED files => DiskTyped'
           /\ UNCHANGED kernel => KernelTyped'
           /\ UNCHANGED running => RunningTyped'
           /\ UNCHANGED switch => SwitchesTyped'
           /\ UNCHANGED jobs => JobsTyped'
           /\ UNCHANGED timers => timers' \in Nat
           /\ UNCHANGED walk => WorkTyped'
           /\ UNCHANGED written => WrittenTyped'
           /\ UNCHANGED crashes => crashes' \in 0..MaxCrashes
           /\ UNCHANGED observed => ObservedTyped'
BY DEF FilesTyped, DiskTyped, KernelTyped, RunningTyped, SwitchesTyped, JobsTyped, WorkTyped,
   WrittenTyped, ObservedTyped, files, running, switch, written, observed

LEMMA FileSystemTyped ==
    ASSUME PropertyAssumption, FilesTyped, FileSystem
    PROVE  FilesTyped'
<1>1. ASSUME NEW f \in File, CreateFile(f)
      PROVE  FilesTyped'
  <2>1. KernelTyped'
    BY <1>1, TellTyped DEF CreateFile, Act, Path, FilesTyped
  <2>2. DiskTyped'
    BY <1>1, TickTyped DEF CreateFile, FilesTyped, DiskTyped
  <2> QED
    BY <1>1, <2>1, <2>2, LeftTyped DEF CreateFile, FilesTyped
<1>2. ASSUME NEW f \in File, WriteFile(f)
      PROVE  FilesTyped'
  <2>1. DiskTyped'
    BY <1>2, TickTyped DEF WriteFile, FilesTyped, DiskTyped
  <2> QED
    BY <1>2, <2>1, LeftTyped DEF WriteFile, FilesTyped
<1>3. ASSUME NEW f \in File, RemoveFile(f)
      PROVE  FilesTyped'
  <2>1. KernelTyped'
    BY <1>3, TellTyped DEF RemoveFile, Act, Path, FilesTyped
  <2>2. DiskTyped'
    BY <1>3, TickTyped DEF RemoveFile, FilesTyped, DiskTyped
  <2>3. ObservedTyped'
    BY <1>3 DEF RemoveFile, Vanish, FilesTyped, ObservedTyped
  <2> QED
    BY <1>3, <2>1, <2>2, <2>3, LeftTyped DEF RemoveFile, FilesTyped
<1>4. CASE MoveFolderOut
  <2>1. KernelTyped'
    BY <1>4, TellTyped DEF MoveFolderOut, Act, Path, FilesTyped
  <2>2. DiskTyped'
    BY <1>4, TickTyped DEF MoveFolderOut, FilesTyped, DiskTyped
  <2>3. ObservedTyped'
    BY <1>4 DEF MoveFolderOut, FilesTyped, ObservedTyped, File
  <2> QED
    BY <1>4, <2>1, <2>2, <2>3, LeftTyped DEF MoveFolderOut, FilesTyped
<1>5. CASE MoveFolderIn
  <2>1. KernelTyped'
    BY <1>5, TellTyped DEF MoveFolderIn, Act, Path, FilesTyped
  <2>2. DiskTyped'
    BY <1>5, TickTyped DEF MoveFolderIn, FilesTyped, DiskTyped
  <2> QED
    BY <1>5, <2>1, <2>2, LeftTyped DEF MoveFolderIn, FilesTyped
<1> QED
  BY <1>1, <1>2, <1>3, <1>4, <1>5 DEF FileSystem

LEMMA MonitorTyped ==
    ASSUME PropertyAssumption, FilesTyped, HandleMsgFromGenl
    PROVE  FilesTyped'
<1> DEFINE p == Head(kernel)[2]
<1>1. p \in Path /\ Tail(kernel) \in Seq(Act \X Path)
  BY KernelEvent DEF HandleMsgFromGenl, FilesTyped
<1>2. Under(p) \subseteq File
  BY <1>1, UnderPath
<1>3. <<"created", p>> \in JobName \X Path /\ <<"deleted", p>> \in JobName \X Path
  BY <1>1 DEF JobName
<1>4. /\ Append(jobs, <<"created", p>>) \in Seq(JobName \X Path)
      /\ Append(jobs, <<"deleted", p>>) \in Seq(JobName \X Path)
  BY <1>3, AppendEvent DEF FilesTyped, JobsTyped
<1>5. KernelTyped'
  BY <1>1 DEF HandleMsgFromGenl, KernelTyped
<1> HIDE DEF p
<1>6. JobsTyped'
  BY <1>4 DEF HandleMsgFromGenl, FilesTyped, JobsTyped, p
<1>7. ObservedTyped'
  BY <1>2 DEF HandleMsgFromGenl, FilesTyped, ObservedTyped, p
<1> QED
  BY <1>5, <1>6, <1>7, LeftTyped DEF HandleMsgFromGenl, FilesTyped

LEMMA SwitchTyped ==
    ASSUME PropertyAssumption, FilesTyped, Switch
    PROVE  FilesTyped'
<1>1. CASE SwitchOn
  <2>1. SwitchesTyped'
    BY <1>1 DEF SwitchOn, FilesTyped, SwitchesTyped, PropertyAssumption
  <2> QED
    BY <1>1, <2>1, LeftTyped DEF SwitchOn, FilesTyped
<1>2. CASE StartWorker
  <2>1. <<"create all", Folder>> \in JobName \X Path
    BY DEF JobName, Path
  <2>2. JobsTyped'
    BY <1>2, <2>1, AppendEvent DEF StartWorker, FilesTyped, JobsTyped
  <2>3. SwitchesTyped'
    BY <1>2 DEF StartWorker, FilesTyped, SwitchesTyped
  <2> QED
    BY <1>2, <2>2, <2>3, LeftTyped DEF StartWorker, FilesTyped
<1>3. CASE SwitchOff
  <2>1. SwitchesTyped'
    BY <1>3 DEF SwitchOff, FilesTyped, SwitchesTyped, PropertyAssumption
  <2>2. WorkTyped'
    BY <1>3 DEF SwitchOff, FilesTyped, WorkTyped
  <2>3. ObservedTyped'
    BY <1>3 DEF SwitchOff, FilesTyped, ObservedTyped
  <2> QED
    BY <1>3, <2>1, <2>2, <2>3, LeftTyped DEF SwitchOff, FilesTyped
<1>4. CASE Disconnect
  <2>1. SwitchesTyped'
    BY <1>4 DEF Disconnect, FilesTyped, SwitchesTyped
  <2> QED
    BY <1>4, <2>1, LeftTyped DEF Disconnect, FilesTyped
<1> QED
  BY <1>1, <1>2, <1>3, <1>4 DEF Switch

LEMMA ProcessTyped ==
    ASSUME PropertyAssumption, FilesTyped, StartAgain \/ Listen \/ Crash
    PROVE  FilesTyped'
<1>1. CASE StartAgain
  <2>1. <<"create all", Folder>> \in JobName \X Path
    BY DEF JobName, Path
  <2>2. <<<<"create all", Folder>>>> \in Seq(JobName \X Path) /\ <<>> \in Seq(JobName \X Path)
    <3> DEFINE e == <<"create all", Folder>>
               J == JobName \X Path
    <3>1. e \in J
      BY <2>1
    <3> HIDE DEF e, J
    <3>2. <<e>> \in Seq(J) /\ <<>> \in Seq(J)
      BY <3>1, OneEvent
    <3> QED
      BY <3>2 DEF e, J
  <2>3. JobsTyped'
    BY <1>1, <2>2, Zenon DEF StartAgain, JobsTyped
  <2>4. SwitchesTyped' /\ RunningTyped'
    BY <1>1 DEF StartAgain, FilesTyped, SwitchesTyped, RunningTyped
  <2> QED
    BY <1>1, <2>3, <2>4, LeftTyped DEF StartAgain, FilesTyped
<1>2. CASE Listen
  <2>1. RunningTyped'
    BY <1>2 DEF Listen, FilesTyped, RunningTyped
  <2> QED
    BY <1>2, <2>1, LeftTyped DEF Listen, FilesTyped
<1>3. CASE Crash
  <2>0. KernelTyped' /\ JobsTyped'
    <3>1. <<>> \in Seq(Act \X Path) /\ <<>> \in Seq(JobName \X Path)
      OBVIOUS
    <3> QED
      BY <1>3, <3>1 DEF Crash, KernelTyped, JobsTyped
  <2>1. RunningTyped' /\ SwitchesTyped'
    BY <1>3 DEF Crash, FilesTyped, RunningTyped, SwitchesTyped
  <2>2. WorkTyped' /\ WrittenTyped' /\ timers' \in Nat
    BY <1>3 DEF Crash, FilesTyped, WorkTyped, WrittenTyped, Idle
  <2>3. crashes' \in 0..MaxCrashes
    BY <1>3 DEF Crash, FilesTyped, PropertyAssumption
  <2>4. ObservedTyped'
    BY <1>3 DEF Crash, FilesTyped, ObservedTyped
  <2> QED
    BY <1>3, <2>0, <2>1, <2>2, <2>3, <2>4, LeftTyped DEF Crash, FilesTyped
<1> QED
  BY <1>1, <1>2, <1>3

WorkRecord == [job : {"none", "created", "create all", "update all"},
               todo : SUBSET File, sure : SUBSET File, whole : BOOLEAN]

LEMMA WalkTyped ==
    ASSUME RunningTyped, NEW S \in SUBSET File,
           NEW job \in {"created", "create all", "update all"}
    PROVE  /\ Walk(job, S) \in WorkRecord
           /\ [Walk(job, S) EXCEPT !.whole = FALSE] \in WorkRecord
<1>1. (S = File /\ listening) \in BOOLEAN
  BY DEF RunningTyped
<1> QED
  BY <1>1 DEF Walk, WorkRecord

\* What a visit of a present file writes.
LEMMA IndexedTyped ==
    ASSUME PropertyAssumption, FilesTyped, NEW f \in File, Present(f)
    PROVE  Indexed(f) \in Seq(1..MaxChanges) /\ Indexed(f) # <<>>
<1>1. changed[f] \in 1..MaxChanges
  BY PresentDated DEF FilesTyped
<1>2. docs[f] \in Seq(1..MaxChanges)
  BY DEF FilesTyped, WrittenTyped, Written
<1>3. /\ Append(docs[f], changed[f]) \in Seq(1..MaxChanges)
      /\ Append(docs[f], changed[f]) # <<>>
      /\ <<changed[f]>> \in Seq(1..MaxChanges) /\ <<changed[f]>> # <<>>
  BY <1>1, <1>2
<1>4. \/ Indexed(f) = Append(docs[f], changed[f])
      \/ Indexed(f) = <<changed[f]>>
      \/ Indexed(f) = docs[f] /\ ~IsNew(f)
  BY Zenon DEF Indexed, DocumentOf
<1> QED
  BY <1>2, <1>3, <1>4 DEF IsNew

LEMMA VisitTyped ==
    ASSUME PropertyAssumption, FilesTyped, NEW f \in File, Visit(f)
    PROVE  FilesTyped'
<1>1. docs' \in Written
  <2> DEFINE d == IF ~stopped /\ Present(f) THEN Indexed(f) ELSE docs[f]
  <2>1. docs \in [File -> Seq(1..MaxChanges)] /\ docs' = [docs EXCEPT ![f] = d]
    BY DEF Visit, FilesTyped, WrittenTyped, Written
  <2>2. d \in Seq(1..MaxChanges)
    BY <2>1, IndexedTyped
  <2> HIDE DEF d
  <2> QED
    BY <2>1, <2>2 DEF Written
<1>2. WrittenTyped'
  BY <1>1 DEF Visit, FilesTyped, WrittenTyped
<1>3. WorkTyped'
  BY DEF Visit, FilesTyped, WorkTyped
<1> QED
  BY <1>2, <1>3, LeftTyped DEF Visit, FilesTyped

LEMMA DeletedTyped ==
    ASSUME PropertyAssumption, FilesTyped, OnFileDeleted
    PROVE  FilesTyped'
<1>1. JobsTyped'
  BY JobEvent DEF OnFileDeleted, Free, FilesTyped, JobsTyped
<1>2. docs \in [File -> Seq(1..MaxChanges)] /\ <<>> \in Seq(1..MaxChanges)
  BY DEF FilesTyped, WrittenTyped, Written
<1>3. docs' \in Written
  BY <1>2 DEF OnFileDeleted, Written
<1>4. WrittenTyped'
  BY <1>3 DEF OnFileDeleted, FilesTyped, WrittenTyped
<1> QED
  BY <1>1, <1>4, LeftTyped DEF OnFileDeleted, FilesTyped

LEMMA WorkerTyped ==
    ASSUME PropertyAssumption, FilesTyped, WorkerStep \/ OnUpdateAllIndex
    PROVE  FilesTyped'
<1>1. CASE Skip
  <2>1. Head(jobs)[2] \in Path /\ JobsTyped'
    BY <1>1, JobEvent DEF Skip, Free, FilesTyped, JobsTyped
  <2>2. Under(Head(jobs)[2]) \subseteq File
    BY <2>1, UnderPath
  <2>3. ObservedTyped'
    BY <1>1, <2>2 DEF Skip, FilesTyped, ObservedTyped
  <2>4. WrittenTyped'
    BY <1>1 DEF Skip, FilesTyped, WrittenTyped
  <2> QED
    BY <1>1, <2>1, <2>3, <2>4, LeftTyped DEF Skip, FilesTyped
<1>2. CASE OnFileCreated
  <2>1. Head(jobs)[2] \in Path /\ JobsTyped'
    BY <1>2, JobEvent DEF OnFileCreated, Free, FilesTyped, JobsTyped
  <2>2. Under(Head(jobs)[2]) \in SUBSET File
    BY <2>1, UnderPath
  <2>3. walk' \in WorkRecord
    BY <1>2, <2>2, WalkTyped DEF OnFileCreated, FilesTyped
  <2>4. WorkTyped'
    BY <2>3 DEF WorkTyped, WorkRecord
  <2> QED
    BY <1>2, <2>1, <2>4, LeftTyped DEF OnFileCreated, FilesTyped
<1>3. CASE OnFileDeleted
  BY <1>3, DeletedTyped
<1>4. CASE OnCreateAllIndex
  <2>1. JobsTyped'
    BY <1>4, JobEvent DEF OnCreateAllIndex, Free, FilesTyped, JobsTyped
  <2>2. Walk("create all", File) \in WorkRecord
    BY WalkTyped DEF FilesTyped
  <2>3. timers' \in Nat
    <3>1. timers' = timers + 1 \/ timers' = timers
      BY <1>4, Zenon DEF OnCreateAllIndex, NewTimer
    <3>2. timers \in Nat
      BY DEF FilesTyped
    <3> QED
      BY <3>1, <3>2
  <2>4. WorkTyped'
    BY <1>4, <2>2 DEF OnCreateAllIndex, FilesTyped, WorkTyped, WorkRecord
  <2>5. WrittenTyped'
    BY <1>4 DEF OnCreateAllIndex, FilesTyped, WrittenTyped
  <2> QED
    BY <1>4, <2>1, <2>3, <2>4, <2>5, LeftTyped DEF OnCreateAllIndex, FilesTyped
<1>5. CASE OnUpdateAllIndex
  <2>1. Walk("update all", File) \in WorkRecord
    BY WalkTyped DEF FilesTyped
  <2>2. timers' \in Nat
    <3>1. timers > 0 /\ timers' = timers - 1
      BY <1>5 DEF OnUpdateAllIndex
    <3>2. timers \in Nat
      BY DEF FilesTyped
    <3> QED
      BY <3>1, <3>2
  <2>3. WorkTyped'
    BY <1>5, <2>1 DEF OnUpdateAllIndex, FilesTyped, WorkTyped, WorkRecord
  <2> QED
    BY <1>5, <2>2, <2>3, LeftTyped DEF OnUpdateAllIndex, FilesTyped
<1>6. ASSUME NEW f \in File, Visit(f)
      PROVE  FilesTyped'
  BY <1>6, VisitTyped
<1>7. ASSUME NEW f \in File, Overlook(f)
      PROVE  FilesTyped'
  <2>1. WorkTyped'
    BY <1>7 DEF Overlook, FilesTyped, WorkTyped
  <2> QED
    BY <1>7, <2>1, LeftTyped DEF Overlook, FilesTyped
<1>8. CASE EndWalk
  <2>1. finished' \in BOOLEAN /\ covered' \in BOOLEAN
    BY <1>8, Zenon DEF EndWalk, FilesTyped, WrittenTyped, ObservedTyped
  <2>2. WorkTyped'
    BY <1>8 DEF EndWalk, WorkTyped, Idle
  <2>3. WrittenTyped' /\ ObservedTyped'
    BY <1>8, <2>1 DEF EndWalk, Close, FilesTyped, WrittenTyped, ObservedTyped
  <2> QED
    BY <1>8, <2>2, <2>3, LeftTyped DEF EndWalk, FilesTyped
<1> QED
  BY <1>1, <1>2, <1>3, <1>4, <1>5, <1>6, <1>7, <1>8 DEF WorkerStep

LEMMA FilesStayTyped ==
    ASSUME PropertyAssumption, FilesTyped, PropertyNext
    PROVE  FilesTyped'
BY FileSystemTyped, MonitorTyped, SwitchTyped, ProcessTyped, WorkerTyped DEF PropertyNext

-----------------------------------------------------------------------------
(* Who runs when                                                           *)

\* What a walk is made of.
LEMMA WalkFields ==
    ASSUME RunningTyped, NEW S, NEW job
    PROVE  /\ Walk(job, S).job = job /\ Walk(job, S).todo = S
           /\ Walk(job, S).sure = {f \in S : Present(f)}
           /\ Walk(job, S).whole <=> S = File /\ listening
BY DEF RunningTyped, Walk

LEMMA WholeWalk ==
    ASSUME RunningTyped, NEW job
    PROVE  /\ Walk(job, File).job = job /\ Walk(job, File).todo = File
           /\ Walk(job, File).sure = {f \in File : Present(f)}
           /\ Walk(job, File).whole <=> listening
BY DEF RunningTyped, Walk

LEMMA DownStaysEmpty ==
    ASSUME PropertyAssumption, FilesTyped, DownIsEmpty, PropertyNext
    PROVE  DownIsEmpty'
<1> USE DEF files, running, switch, written, observed
<1>1. ASSUME NEW f \in File, CreateFile(f)
      PROVE  DownIsEmpty'
  BY <1>1 DEF CreateFile, DownIsEmpty, Free, Tell
<1>2. ASSUME NEW f \in File, WriteFile(f)
      PROVE  DownIsEmpty'
  BY <1>2 DEF WriteFile, DownIsEmpty, Free, Tell
<1>3. ASSUME NEW f \in File, RemoveFile(f)
      PROVE  DownIsEmpty'
  BY <1>3 DEF RemoveFile, DownIsEmpty, Free, Tell
<1>4. CASE MoveFolderOut
  BY <1>4 DEF MoveFolderOut, DownIsEmpty, Free, Tell
<1>5. CASE MoveFolderIn
  BY <1>5 DEF MoveFolderIn, DownIsEmpty, Free, Tell
<1>6. CASE HandleMsgFromGenl
  BY <1>6 DEF HandleMsgFromGenl, DownIsEmpty, Free, Tell
<1>7. CASE SwitchOn
  BY <1>7 DEF SwitchOn, DownIsEmpty, Free, Tell
<1>8. CASE StartWorker
  BY <1>8 DEF StartWorker, DownIsEmpty, Free, Tell
<1>9. CASE SwitchOff
  BY <1>9 DEF SwitchOff, DownIsEmpty, Free, Tell
<1>10. CASE Disconnect
  BY <1>10 DEF Disconnect, DownIsEmpty, Free, Tell
<1>11. CASE StartAgain
  BY <1>11 DEF StartAgain, DownIsEmpty, Free, Tell
<1>12. CASE Listen
  BY <1>12 DEF Listen, DownIsEmpty, Free, Tell
<1>13. CASE Crash
  BY <1>13 DEF Crash, DownIsEmpty, Free, Tell
<1>14. CASE Skip
  BY <1>14 DEF Skip, DownIsEmpty, Free, Tell
<1>15. CASE OnFileCreated
  BY <1>15 DEF OnFileCreated, DownIsEmpty, Free, Tell
<1>16. CASE OnFileDeleted
  BY <1>16 DEF OnFileDeleted, DownIsEmpty, Free, Tell
<1>17. CASE OnCreateAllIndex
  BY <1>17 DEF OnCreateAllIndex, DownIsEmpty, Free, Tell
<1>18. CASE OnUpdateAllIndex
  BY <1>18 DEF OnUpdateAllIndex, DownIsEmpty, Free, Tell
<1>19. ASSUME NEW f \in File, Visit(f)
      PROVE  DownIsEmpty'
  BY <1>19 DEF Visit, DownIsEmpty, Free, Tell
<1>20. ASSUME NEW f \in File, Overlook(f)
      PROVE  DownIsEmpty'
  BY <1>20 DEF Overlook, DownIsEmpty, Free, Tell
<1>21. CASE EndWalk
  BY <1>21 DEF EndWalk, DownIsEmpty, Free, Tell
<1> QED
  BY <1>1, <1>2, <1>3, <1>4, <1>5, <1>6, <1>7, <1>8, <1>9, <1>10, <1>11, <1>12, <1>13,
     <1>14, <1>15, <1>16, <1>17, <1>18, <1>19, <1>20, <1>21 DEF PropertyNext,
     FileSystem, Switch, WorkerStep

LEMMA LinkedStaysFirst ==
    ASSUME PropertyAssumption, FilesTyped, DownIsEmpty, LinkedFirst, PropertyNext
    PROVE  LinkedFirst'
<1> USE DEF files, running, switch, written, observed
<1>1. ASSUME NEW f \in File, CreateFile(f)
      PROVE  LinkedFirst'
  BY <1>1 DEF CreateFile, LinkedFirst
<1>2. ASSUME NEW f \in File, WriteFile(f)
      PROVE  LinkedFirst'
  BY <1>2 DEF WriteFile, LinkedFirst
<1>3. ASSUME NEW f \in File, RemoveFile(f)
      PROVE  LinkedFirst'
  BY <1>3 DEF RemoveFile, LinkedFirst
<1>4. CASE MoveFolderOut
  BY <1>4 DEF MoveFolderOut, LinkedFirst
<1>5. CASE MoveFolderIn
  BY <1>5 DEF MoveFolderIn, LinkedFirst
<1>6. CASE HandleMsgFromGenl
  BY <1>6 DEF HandleMsgFromGenl, LinkedFirst
<1>7. CASE SwitchOn
  BY <1>7 DEF SwitchOn, LinkedFirst
<1>8. CASE StartWorker
  BY <1>8 DEF StartWorker, LinkedFirst
<1>9. CASE SwitchOff
  BY <1>9 DEF SwitchOff, LinkedFirst
<1>10. CASE Disconnect
  BY <1>10 DEF Disconnect, LinkedFirst
<1>11. CASE StartAgain
  BY <1>11 DEF StartAgain, LinkedFirst, DownIsEmpty, FilesTyped, SwitchesTyped
<1>12. CASE Listen
  BY <1>12 DEF Listen, LinkedFirst
<1>13. CASE Crash
  BY <1>13 DEF Crash, LinkedFirst
<1>14. CASE Skip
  BY <1>14 DEF Skip, LinkedFirst
<1>15. CASE OnFileCreated
  BY <1>15 DEF OnFileCreated, LinkedFirst
<1>16. CASE OnFileDeleted
  BY <1>16 DEF OnFileDeleted, LinkedFirst
<1>17. CASE OnCreateAllIndex
  BY <1>17 DEF OnCreateAllIndex, LinkedFirst
<1>18. CASE OnUpdateAllIndex
  BY <1>18 DEF OnUpdateAllIndex, LinkedFirst
<1>19. ASSUME NEW f \in File, Visit(f)
      PROVE  LinkedFirst'
  BY <1>19 DEF Visit, LinkedFirst
<1>20. ASSUME NEW f \in File, Overlook(f)
      PROVE  LinkedFirst'
  BY <1>20 DEF Overlook, LinkedFirst
<1>21. CASE EndWalk
  BY <1>21 DEF EndWalk, LinkedFirst
<1> QED
  BY <1>1, <1>2, <1>3, <1>4, <1>5, <1>6, <1>7, <1>8, <1>9, <1>10, <1>11, <1>12, <1>13,
     <1>14, <1>15, <1>16, <1>17, <1>18, <1>19, <1>20, <1>21 DEF PropertyNext,
     FileSystem, Switch, WorkerStep

LEMMA CoverStaysHeard ==
    ASSUME PropertyAssumption, FilesTyped, DownIsEmpty, LinkedFirst, CoverIsHeard,
           PropertyNext
    PROVE  CoverIsHeard'
<1> USE DEF files, running, switch, written, observed
<1>1. ASSUME NEW f \in File, CreateFile(f)
      PROVE  CoverIsHeard'
  BY <1>1 DEF CreateFile, CoverIsHeard, DownIsEmpty, Walk, Idle, FilesTyped, WorkTyped
<1>2. ASSUME NEW f \in File, WriteFile(f)
      PROVE  CoverIsHeard'
  BY <1>2 DEF WriteFile, CoverIsHeard, DownIsEmpty, Walk, Idle, FilesTyped, WorkTyped
<1>3. ASSUME NEW f \in File, RemoveFile(f)
      PROVE  CoverIsHeard'
  BY <1>3 DEF RemoveFile, CoverIsHeard, DownIsEmpty, Walk, Idle, FilesTyped, WorkTyped
<1>4. CASE MoveFolderOut
  BY <1>4 DEF MoveFolderOut, CoverIsHeard, DownIsEmpty, Walk, Idle, FilesTyped, WorkTyped
<1>5. CASE MoveFolderIn
  BY <1>5 DEF MoveFolderIn, CoverIsHeard, DownIsEmpty, Walk, Idle, FilesTyped, WorkTyped
<1>6. CASE HandleMsgFromGenl
  BY <1>6 DEF HandleMsgFromGenl, CoverIsHeard, DownIsEmpty, Walk, Idle, FilesTyped, WorkTyped
<1>7. CASE SwitchOn
  BY <1>7 DEF SwitchOn, CoverIsHeard, DownIsEmpty, Walk, Idle, FilesTyped, WorkTyped
<1>8. CASE StartWorker
  BY <1>8 DEF StartWorker, CoverIsHeard, DownIsEmpty, Walk, Idle, FilesTyped, WorkTyped
<1>9. CASE SwitchOff
  BY <1>9 DEF SwitchOff, CoverIsHeard, DownIsEmpty, Walk, Idle, FilesTyped, WorkTyped
<1>10. CASE Disconnect
  BY <1>10 DEF Disconnect, CoverIsHeard, DownIsEmpty, Walk, Idle, FilesTyped, WorkTyped
<1>11. CASE StartAgain
  BY <1>11 DEF StartAgain, CoverIsHeard, DownIsEmpty, Walk, Idle, FilesTyped, WorkTyped
<1>12. CASE Listen
  BY <1>12 DEF Listen, CoverIsHeard, DownIsEmpty, Walk, Idle, FilesTyped, WorkTyped
<1>13. CASE Crash
  BY <1>13 DEF Crash, CoverIsHeard, DownIsEmpty, Walk, Idle, FilesTyped, WorkTyped
<1>14. CASE Skip
  BY <1>14 DEF Skip, CoverIsHeard, DownIsEmpty, Walk, Idle, FilesTyped, WorkTyped
<1>15. CASE OnFileCreated
  BY <1>15 DEF OnFileCreated, CoverIsHeard, DownIsEmpty, Walk, Idle, FilesTyped, WorkTyped
<1>16. CASE OnFileDeleted
  BY <1>16 DEF OnFileDeleted, CoverIsHeard, DownIsEmpty, Walk, Idle, FilesTyped, WorkTyped
<1>17. CASE OnCreateAllIndex
  <2>1. walk' = walk \/ walk' = Walk("create all", File)
    BY <1>17 DEF OnCreateAllIndex
  <2>2. UNCHANGED <<stopped, listening, covered>> /\ ~stopped
    BY <1>17 DEF OnCreateAllIndex
  <2>3. CASE walk' = walk
    BY <2>2, <2>3 DEF CoverIsHeard
  <2>4. CASE walk' = Walk("create all", File)
    BY <2>2, <2>4, WholeWalk DEF CoverIsHeard, FilesTyped
  <2> QED
    BY <2>1, <2>3, <2>4
<1>18. CASE OnUpdateAllIndex
  BY <1>18 DEF OnUpdateAllIndex, CoverIsHeard, DownIsEmpty, Walk, Idle, FilesTyped, WorkTyped
<1>19. ASSUME NEW f \in File, Visit(f)
      PROVE  CoverIsHeard'
  BY <1>19 DEF Visit, CoverIsHeard, DownIsEmpty, Walk, Idle, FilesTyped, WorkTyped
<1>20. ASSUME NEW f \in File, Overlook(f)
      PROVE  CoverIsHeard'
  BY <1>20 DEF Overlook, CoverIsHeard, DownIsEmpty, Walk, Idle, FilesTyped, WorkTyped
<1>21. CASE EndWalk
  BY <1>21 DEF EndWalk, CoverIsHeard, DownIsEmpty, Walk, Idle, FilesTyped, WorkTyped
<1> QED
  BY <1>1, <1>2, <1>3, <1>4, <1>5, <1>6, <1>7, <1>8, <1>9, <1>10, <1>11, <1>12, <1>13,
     <1>14, <1>15, <1>16, <1>17, <1>18, <1>19, <1>20, <1>21 DEF PropertyNext,
     FileSystem, Switch, WorkerStep

LEMMA WriterStaysClosed ==
    ASSUME PropertyAssumption, FilesTyped, DownIsEmpty, WriterClosed, PropertyNext
    PROVE  WriterClosed'
<1> USE DEF files, running, switch, written, observed
<1>1. ASSUME NEW f \in File, CreateFile(f)
      PROVE  WriterClosed'
  BY <1>1 DEF CreateFile, WriterClosed, DownIsEmpty, Walk, Idle, FilesTyped, WorkTyped, Close, Free
<1>2. ASSUME NEW f \in File, WriteFile(f)
      PROVE  WriterClosed'
  BY <1>2 DEF WriteFile, WriterClosed, DownIsEmpty, Walk, Idle, FilesTyped, WorkTyped, Close, Free
<1>3. ASSUME NEW f \in File, RemoveFile(f)
      PROVE  WriterClosed'
  BY <1>3 DEF RemoveFile, WriterClosed, DownIsEmpty, Walk, Idle, FilesTyped, WorkTyped, Close, Free
<1>4. CASE MoveFolderOut
  BY <1>4 DEF MoveFolderOut, WriterClosed, DownIsEmpty, Walk, Idle, FilesTyped, WorkTyped, Close, Free
<1>5. CASE MoveFolderIn
  BY <1>5 DEF MoveFolderIn, WriterClosed, DownIsEmpty, Walk, Idle, FilesTyped, WorkTyped, Close, Free
<1>6. CASE HandleMsgFromGenl
  BY <1>6 DEF HandleMsgFromGenl, WriterClosed, DownIsEmpty, Walk, Idle, FilesTyped, WorkTyped, Close, Free
<1>7. CASE SwitchOn
  BY <1>7 DEF SwitchOn, WriterClosed, DownIsEmpty, Walk, Idle, FilesTyped, WorkTyped, Close, Free
<1>8. CASE StartWorker
  BY <1>8 DEF StartWorker, WriterClosed, DownIsEmpty, Walk, Idle, FilesTyped, WorkTyped, Close, Free
<1>9. CASE SwitchOff
  BY <1>9 DEF SwitchOff, WriterClosed, DownIsEmpty, Walk, Idle, FilesTyped, WorkTyped, Close, Free
<1>10. CASE Disconnect
  BY <1>10 DEF Disconnect, WriterClosed, DownIsEmpty, Walk, Idle, FilesTyped, WorkTyped, Close, Free
<1>11. CASE StartAgain
  BY <1>11 DEF StartAgain, WriterClosed, DownIsEmpty, Walk, Idle, FilesTyped, WorkTyped, Close, Free
<1>12. CASE Listen
  BY <1>12 DEF Listen, WriterClosed, DownIsEmpty, Walk, Idle, FilesTyped, WorkTyped, Close, Free
<1>13. CASE Crash
  BY <1>13 DEF Crash, WriterClosed, DownIsEmpty, Walk, Idle, FilesTyped, WorkTyped, Close, Free
<1>14. CASE Skip
  BY <1>14 DEF Skip, WriterClosed, DownIsEmpty, Walk, Idle, FilesTyped, WorkTyped, Close, Free
<1>15. CASE OnFileCreated
  BY <1>15 DEF OnFileCreated, WriterClosed, DownIsEmpty, Walk, Idle, FilesTyped, WorkTyped, Close, Free
<1>16. CASE OnFileDeleted
  BY <1>16 DEF OnFileDeleted, WriterClosed, DownIsEmpty, Walk, Idle, FilesTyped, WorkTyped, Close, Free
<1>17. CASE OnCreateAllIndex
  <2>1. walk' = walk \/ walk' = Walk("create all", File)
    BY <1>17 DEF OnCreateAllIndex
  <2>2. UNCHANGED <<docs, saved>>
    BY <1>17 DEF OnCreateAllIndex
  <2>3. CASE walk' = walk
    BY <2>2, <2>3 DEF WriterClosed
  <2>4. CASE walk' = Walk("create all", File)
    BY <2>2, <2>4, WholeWalk DEF WriterClosed, FilesTyped
  <2> QED
    BY <2>1, <2>3, <2>4
<1>18. CASE OnUpdateAllIndex
  BY <1>18 DEF OnUpdateAllIndex, WriterClosed, DownIsEmpty, Walk, Idle, FilesTyped, WorkTyped, Close, Free
<1>19. ASSUME NEW f \in File, Visit(f)
      PROVE  WriterClosed'
  BY <1>19 DEF Visit, WriterClosed, DownIsEmpty, Walk, Idle, FilesTyped, WorkTyped, Close, Free
<1>20. ASSUME NEW f \in File, Overlook(f)
      PROVE  WriterClosed'
  BY <1>20 DEF Overlook, WriterClosed, DownIsEmpty, Walk, Idle, FilesTyped, WorkTyped, Close, Free
<1>21. CASE EndWalk
  BY <1>21 DEF EndWalk, WriterClosed, DownIsEmpty, Walk, Idle, FilesTyped, WorkTyped, Close, Free
<1> QED
  BY <1>1, <1>2, <1>3, <1>4, <1>5, <1>6, <1>7, <1>8, <1>9, <1>10, <1>11, <1>12, <1>13,
     <1>14, <1>15, <1>16, <1>17, <1>18, <1>19, <1>20, <1>21 DEF PropertyNext,
     FileSystem, Switch, WorkerStep

LEMMA NoIndexStaysNoDocs ==
    ASSUME PropertyAssumption, FilesTyped, WriterClosed, NoIndexNoDocs, PropertyNext
    PROVE  NoIndexNoDocs'
<1> USE DEF files, running, switch, written, observed
<1>1. ASSUME NEW f \in File, CreateFile(f)
      PROVE  NoIndexNoDocs'
  BY <1>1 DEF CreateFile, NoIndexNoDocs, Close, WriterClosed, Free, Idle, NoDocs, FilesTyped, WrittenTyped
<1>2. ASSUME NEW f \in File, WriteFile(f)
      PROVE  NoIndexNoDocs'
  BY <1>2 DEF WriteFile, NoIndexNoDocs, Close, WriterClosed, Free, Idle, NoDocs, FilesTyped, WrittenTyped
<1>3. ASSUME NEW f \in File, RemoveFile(f)
      PROVE  NoIndexNoDocs'
  BY <1>3 DEF RemoveFile, NoIndexNoDocs, Close, WriterClosed, Free, Idle, NoDocs, FilesTyped, WrittenTyped
<1>4. CASE MoveFolderOut
  BY <1>4 DEF MoveFolderOut, NoIndexNoDocs, Close, WriterClosed, Free, Idle, NoDocs, FilesTyped, WrittenTyped
<1>5. CASE MoveFolderIn
  BY <1>5 DEF MoveFolderIn, NoIndexNoDocs, Close, WriterClosed, Free, Idle, NoDocs, FilesTyped, WrittenTyped
<1>6. CASE HandleMsgFromGenl
  BY <1>6 DEF HandleMsgFromGenl, NoIndexNoDocs, Close, WriterClosed, Free, Idle, NoDocs, FilesTyped, WrittenTyped
<1>7. CASE SwitchOn
  BY <1>7 DEF SwitchOn, NoIndexNoDocs, Close, WriterClosed, Free, Idle, NoDocs, FilesTyped, WrittenTyped
<1>8. CASE StartWorker
  BY <1>8 DEF StartWorker, NoIndexNoDocs, Close, WriterClosed, Free, Idle, NoDocs, FilesTyped, WrittenTyped
<1>9. CASE SwitchOff
  BY <1>9 DEF SwitchOff, NoIndexNoDocs, Close, WriterClosed, Free, Idle, NoDocs, FilesTyped, WrittenTyped
<1>10. CASE Disconnect
  BY <1>10 DEF Disconnect, NoIndexNoDocs, Close, WriterClosed, Free, Idle, NoDocs, FilesTyped, WrittenTyped
<1>11. CASE StartAgain
  BY <1>11 DEF StartAgain, NoIndexNoDocs, Close, WriterClosed, Free, Idle, NoDocs, FilesTyped, WrittenTyped
<1>12. CASE Listen
  BY <1>12 DEF Listen, NoIndexNoDocs, Close, WriterClosed, Free, Idle, NoDocs, FilesTyped, WrittenTyped
<1>13. CASE Crash
  BY <1>13 DEF Crash, NoIndexNoDocs, Close, WriterClosed, Free, Idle, NoDocs, FilesTyped, WrittenTyped
<1>14. CASE Skip
  BY <1>14 DEF Skip, NoIndexNoDocs, Close, WriterClosed, Free, Idle, NoDocs, FilesTyped, WrittenTyped
<1>15. CASE OnFileCreated
  BY <1>15 DEF OnFileCreated, NoIndexNoDocs, Close, WriterClosed, Free, Idle, NoDocs, FilesTyped, WrittenTyped
<1>16. CASE OnFileDeleted
  BY <1>16 DEF OnFileDeleted, NoIndexNoDocs, Close, WriterClosed, Free, Idle, NoDocs, FilesTyped, WrittenTyped
<1>17. CASE OnCreateAllIndex
  BY <1>17 DEF OnCreateAllIndex, NoIndexNoDocs, Close, WriterClosed, Free, Idle, NoDocs, FilesTyped, WrittenTyped
<1>18. CASE OnUpdateAllIndex
  BY <1>18 DEF OnUpdateAllIndex, NoIndexNoDocs, Close, WriterClosed, Free, Idle, NoDocs, FilesTyped, WrittenTyped
<1>19. ASSUME NEW f \in File, Visit(f)
      PROVE  NoIndexNoDocs'
  BY <1>19 DEF Visit, NoIndexNoDocs, Close, WriterClosed, Free, Idle, NoDocs, FilesTyped, WrittenTyped
<1>20. ASSUME NEW f \in File, Overlook(f)
      PROVE  NoIndexNoDocs'
  BY <1>20 DEF Overlook, NoIndexNoDocs, Close, WriterClosed, Free, Idle, NoDocs, FilesTyped, WrittenTyped
<1>21. CASE EndWalk
  BY <1>21 DEF EndWalk, NoIndexNoDocs, Close, WriterClosed, Free, Idle, NoDocs, FilesTyped, WrittenTyped
<1> QED
  BY <1>1, <1>2, <1>3, <1>4, <1>5, <1>6, <1>7, <1>8, <1>9, <1>10, <1>11, <1>12, <1>13,
     <1>14, <1>15, <1>16, <1>17, <1>18, <1>19, <1>20, <1>21 DEF PropertyNext,
     FileSystem, Switch, WorkerStep

LEMMA SavedStaysWritten ==
    ASSUME PropertyAssumption, FilesTyped, SavedIsWritten, WriterClosed, PropertyNext
    PROVE  SavedIsWritten'
<1> USE DEF files, running, switch, written, observed
<1>1. ASSUME NEW f \in File, CreateFile(f)
      PROVE  SavedIsWritten'
  BY <1>1 DEF CreateFile, SavedIsWritten, Close
<1>2. ASSUME NEW f \in File, WriteFile(f)
      PROVE  SavedIsWritten'
  BY <1>2 DEF WriteFile, SavedIsWritten, Close
<1>3. ASSUME NEW f \in File, RemoveFile(f)
      PROVE  SavedIsWritten'
  BY <1>3 DEF RemoveFile, SavedIsWritten, Close
<1>4. CASE MoveFolderOut
  BY <1>4 DEF MoveFolderOut, SavedIsWritten, Close
<1>5. CASE MoveFolderIn
  BY <1>5 DEF MoveFolderIn, SavedIsWritten, Close
<1>6. CASE HandleMsgFromGenl
  BY <1>6 DEF HandleMsgFromGenl, SavedIsWritten, Close
<1>7. CASE SwitchOn
  BY <1>7 DEF SwitchOn, SavedIsWritten, Close
<1>8. CASE StartWorker
  BY <1>8 DEF StartWorker, SavedIsWritten, Close
<1>9. CASE SwitchOff
  BY <1>9 DEF SwitchOff, SavedIsWritten, Close
<1>10. CASE Disconnect
  BY <1>10 DEF Disconnect, SavedIsWritten, Close
<1>11. CASE StartAgain
  BY <1>11 DEF StartAgain, SavedIsWritten, Close
<1>12. CASE Listen
  BY <1>12 DEF Listen, SavedIsWritten, Close
<1>13. CASE Crash
  BY <1>13 DEF Crash, SavedIsWritten, Close
<1>14. CASE Skip
  BY <1>14 DEF Skip, SavedIsWritten, Close
<1>15. CASE OnFileCreated
  BY <1>15 DEF OnFileCreated, SavedIsWritten, Close
<1>16. CASE OnFileDeleted
  BY <1>16 DEF OnFileDeleted, SavedIsWritten, Close
<1>17. CASE OnCreateAllIndex
  BY <1>17 DEF OnCreateAllIndex, SavedIsWritten, Close
<1>18. CASE OnUpdateAllIndex
  BY <1>18 DEF OnUpdateAllIndex, SavedIsWritten, Close
<1>19. ASSUME NEW f \in File, Visit(f)
      PROVE  SavedIsWritten'
  <2>1. docs \in [File -> Seq(1..MaxChanges)] /\ saved' = saved
    BY <1>19 DEF Visit, FilesTyped, WrittenTyped, Written
  <2>2. docs'[f] = docs[f] \/ docs'[f] # <<>>
    BY <1>19, <2>1, IndexedTyped DEF Visit
  <2>3. \A g \in File : g # f => docs'[g] = docs[g]
    BY <1>19, <2>1 DEF Visit
  <2> QED
    BY <2>1, <2>2, <2>3 DEF SavedIsWritten
<1>20. ASSUME NEW f \in File, Overlook(f)
      PROVE  SavedIsWritten'
  BY <1>20 DEF Overlook, SavedIsWritten, Close
<1>21. CASE EndWalk
  BY <1>21 DEF EndWalk, SavedIsWritten, Close
<1> QED
  BY <1>1, <1>2, <1>3, <1>4, <1>5, <1>6, <1>7, <1>8, <1>9, <1>10, <1>11, <1>12, <1>13,
     <1>14, <1>15, <1>16, <1>17, <1>18, <1>19, <1>20, <1>21 DEF PropertyNext,
     FileSystem, Switch, WorkerStep


\* What taking a job does to the fate of a file.
LEMMA JobTaken ==
    ASSUME JobsTyped, jobs # <<>>, NEW f
    PROVE  /\ FoundIn(jobs, f) => Finds(Head(jobs), f) \/ FoundIn(Tail(jobs), f)
           /\ DroppedIn(Tail(jobs), f) => DroppedIn(jobs, f)
           /\ HealedIn(jobs, f) => HealedIn(Tail(jobs), f)
           /\ HealedIn(jobs, f) /\ Drops(Head(jobs), f) => FoundIn(Tail(jobs), f)
           /\ Untold(f, jobs)
                => \/ Head(jobs)[1] \in {"deleted", "renamed from"} /\ Head(jobs)[2] = f
                   \/ Untold(f, Tail(jobs))
BY TailFate DEF JobsTyped

\* What asking for all of the index does to it.
LEMMA AllAsked ==
    ASSUME JobsTyped, NEW f
    PROVE  /\ DroppedIn(Append(jobs, <<"create all", Folder>>), f) => DroppedIn(jobs, f)
           /\ FoundIn(Append(jobs, <<"create all", Folder>>), f)
           /\ HealedIn(Append(jobs, <<"create all", Folder>>), f)
           /\ Untold(f, jobs) => Untold(f, Append(jobs, <<"create all", Folder>>))
<1> DEFINE e == <<"create all", Folder>>
           J == JobName \X Path
<1>1. e \in J /\ jobs \in Seq(J)
  BY DEF JobName, Path, JobsTyped
<1>2. Finds(e, f) /\ ~Drops(e, f)
  BY DEF Finds, Drops
<1> HIDE DEF e, J
<1>3. /\ DroppedIn(Append(jobs, e), f) => DroppedIn(jobs, f)
      /\ FoundIn(Append(jobs, e), f) /\ HealedIn(Append(jobs, e), f)
      /\ Untold(f, jobs) => Untold(f, Append(jobs, e))
  BY <1>1, <1>2, AppendFate
<1> QED
  BY <1>3 DEF e

\* A process that has just started has nothing to drop.
LEMMA FirstJobs ==
    ASSUME StartAgain, NEW f
    PROVE  ~DroppedIn(jobs', f) /\ HealedIn(jobs', f) /\ Cardinality(Asked(jobs')) \in 0..1
<1> DEFINE e == <<"create all", Folder>>
<1>1. ~Drops(e, f) /\ AsksAll(e)
  BY DEF Drops, AsksAll
<1>2. jobs' = <<e>> \/ jobs' = <<>>
  BY DEF StartAgain
<1> HIDE DEF e
<1>3. CASE jobs' = <<>>
  BY <1>3, NoEvents, NoneAsked
<1>4. CASE jobs' = <<e>>
  <2>1. Len(jobs') = 1 /\ \A i \in 1..1 : jobs'[i] = e
    BY <1>4
  <2>2. ~DroppedIn(jobs', f) /\ HealedIn(jobs', f)
    BY <1>1, <2>1 DEF DroppedIn, HealedIn
  <2>3. Asked(jobs') = {1}
    BY <1>1, <2>1 DEF Asked
  <2>4. Cardinality({1}) = 1
    BY FS_Singleton
  <2> QED
    BY <2>2, <2>3, <2>4
<1> QED
  BY <1>2, <1>3, <1>4

LEMMA DeafStaysEmpty ==
    ASSUME PropertyAssumption, FilesTyped, DownIsEmpty, DeafIsEmpty, PropertyNext
    PROVE  DeafIsEmpty'
<1> USE DEF files, running, switch, written, observed
<1>1. ASSUME NEW f \in File, CreateFile(f)
      PROVE  DeafIsEmpty'
  BY <1>1 DEF CreateFile, DeafIsEmpty, Tell, Free, FilesTyped
<1>2. ASSUME NEW f \in File, WriteFile(f)
      PROVE  DeafIsEmpty'
  BY <1>2 DEF WriteFile, DeafIsEmpty, Tell, Free, FilesTyped
<1>3. ASSUME NEW f \in File, RemoveFile(f)
      PROVE  DeafIsEmpty'
  BY <1>3 DEF RemoveFile, DeafIsEmpty, Tell, Free, FilesTyped
<1>4. CASE MoveFolderOut
  BY <1>4 DEF MoveFolderOut, DeafIsEmpty, Tell, Free, FilesTyped
<1>5. CASE MoveFolderIn
  BY <1>5 DEF MoveFolderIn, DeafIsEmpty, Tell, Free, FilesTyped
<1>6. CASE HandleMsgFromGenl
  BY <1>6 DEF HandleMsgFromGenl, DeafIsEmpty, Tell, Free, FilesTyped
<1>7. CASE SwitchOn
  BY <1>7 DEF SwitchOn, DeafIsEmpty, Tell, Free, FilesTyped
<1>8. CASE StartWorker
  BY <1>8, AllAsked DEF StartWorker, DeafIsEmpty, Tell, Free, FilesTyped
<1>9. CASE SwitchOff
  BY <1>9 DEF SwitchOff, DeafIsEmpty, Tell, Free, FilesTyped
<1>10. CASE Disconnect
  BY <1>10 DEF Disconnect, DeafIsEmpty, Tell, Free, FilesTyped
<1>11. CASE StartAgain
  <2>1. \A f \in File : ~DroppedIn(jobs', f)
    BY <1>11, FirstJobs
  <2> QED
    BY <1>11, <2>1 DEF StartAgain, DeafIsEmpty, DownIsEmpty
<1>12. CASE Listen
  BY <1>12 DEF Listen, DeafIsEmpty, Tell, Free, FilesTyped
<1>13. CASE Crash
  BY <1>13, NoEvents DEF Crash, DeafIsEmpty, Tell, Free, FilesTyped
<1>14. CASE Skip
  BY <1>14, JobTaken DEF Skip, DeafIsEmpty, Tell, Free, FilesTyped
<1>15. CASE OnFileCreated
  BY <1>15, JobTaken DEF OnFileCreated, DeafIsEmpty, Tell, Free, FilesTyped
<1>16. CASE OnFileDeleted
  BY <1>16, JobTaken DEF OnFileDeleted, DeafIsEmpty, Tell, Free, FilesTyped
<1>17. CASE OnCreateAllIndex
  BY <1>17, JobTaken DEF OnCreateAllIndex, DeafIsEmpty, Tell, Free, FilesTyped
<1>18. CASE OnUpdateAllIndex
  BY <1>18 DEF OnUpdateAllIndex, DeafIsEmpty, Tell, Free, FilesTyped
<1>19. ASSUME NEW f \in File, Visit(f)
      PROVE  DeafIsEmpty'
  BY <1>19 DEF Visit, DeafIsEmpty, Tell, Free, FilesTyped
<1>20. ASSUME NEW f \in File, Overlook(f)
      PROVE  DeafIsEmpty'
  BY <1>20 DEF Overlook, DeafIsEmpty, Tell, Free, FilesTyped
<1>21. CASE EndWalk
  BY <1>21 DEF EndWalk, DeafIsEmpty, Tell, Free, FilesTyped
<1> QED
  BY <1>1, <1>2, <1>3, <1>4, <1>5, <1>6, <1>7, <1>8, <1>9, <1>10, <1>11, <1>12, <1>13,
     <1>14, <1>15, <1>16, <1>17, <1>18, <1>19, <1>20, <1>21 DEF PropertyNext,
     FileSystem, Switch, WorkerStep


-----------------------------------------------------------------------------
(* Documents and walks                                                     *)

BooksDated == Dated(docs) /\ Dated(saved)

LEMMA LeftDated ==
    ASSUME PropertyAssumption, FilesTyped, BooksDated, FilesTyped', now' = now \/ Tick,
           UNCHANGED <<docs, saved>>
    PROVE  BooksDated'
<1>1. \A t \in 1..now : t \in 1..now'
  BY DEF FilesTyped, DiskTyped, Tick
<1> QED
  BY <1>1 DEF BooksDated, Dated

LEMMA IndexedDated ==
    ASSUME PropertyAssumption, FilesTyped, BooksDated, NEW f \in File, Present(f)
    PROVE  \A i \in 1..Len(Indexed(f)) : Indexed(f)[i] \in 1..now
<1>1. changed[f] \in 1..now
  BY PresentDated DEF FilesTyped
<1>2. docs[f] \in Seq(1..MaxChanges)
  BY DEF FilesTyped, WrittenTyped, Written
<1>3. \A i \in 1..Len(docs[f]) : docs[f][i] \in 1..now
  BY DEF BooksDated, Dated
<1>4. \A i \in 1..Len(Append(docs[f], changed[f])) : Append(docs[f], changed[f])[i] \in 1..now
  BY <1>1, <1>2, <1>3
<1>5. \A i \in 1..Len(<<changed[f]>>) : <<changed[f]>>[i] \in 1..now
  BY <1>1
<1>6. \/ Indexed(f) = Append(docs[f], changed[f])
      \/ Indexed(f) = <<changed[f]>>
      \/ Indexed(f) = docs[f]
  BY Zenon DEF Indexed, DocumentOf
<1> QED
  BY <1>3, <1>4, <1>5, <1>6, Zenon

LEMMA BooksStayDated ==
    ASSUME PropertyAssumption, FilesTyped, BooksDated, PropertyNext
    PROVE  BooksDated'
<1> USE DEF files, running, switch, written, observed
<1>1. ASSUME NEW f \in File, CreateFile(f)
      PROVE  BooksDated'
  BY <1>1, FilesStayTyped, LeftDated DEF CreateFile
<1>2. ASSUME NEW f \in File, WriteFile(f)
      PROVE  BooksDated'
  BY <1>2, FilesStayTyped, LeftDated DEF WriteFile
<1>3. ASSUME NEW f \in File, RemoveFile(f)
      PROVE  BooksDated'
  BY <1>3, FilesStayTyped, LeftDated DEF RemoveFile
<1>4. CASE MoveFolderOut
  BY <1>4, FilesStayTyped, LeftDated DEF MoveFolderOut
<1>5. CASE MoveFolderIn
  BY <1>5, FilesStayTyped, LeftDated DEF MoveFolderIn
<1>6. CASE HandleMsgFromGenl
  BY <1>6, FilesStayTyped, LeftDated DEF HandleMsgFromGenl
<1>7. CASE SwitchOn
  BY <1>7, FilesStayTyped, LeftDated DEF SwitchOn
<1>8. CASE StartWorker
  BY <1>8, FilesStayTyped, LeftDated DEF StartWorker
<1>9. CASE SwitchOff
  BY <1>9, FilesStayTyped, LeftDated DEF SwitchOff
<1>10. CASE Disconnect
  BY <1>10, FilesStayTyped, LeftDated DEF Disconnect
<1>11. CASE StartAgain
  BY <1>11, FilesStayTyped, LeftDated DEF StartAgain
<1>12. CASE Listen
  BY <1>12, FilesStayTyped, LeftDated DEF Listen
<1>13. CASE Crash
  BY <1>13 DEF Crash, BooksDated, Dated
<1>14. CASE Skip
  BY <1>14, FilesStayTyped, LeftDated DEF Skip
<1>15. CASE OnFileCreated
  BY <1>15, FilesStayTyped, LeftDated DEF OnFileCreated
<1>16. CASE OnFileDeleted
  <2>1. \A f \in File : docs'[f] = docs[f] \/ docs'[f] = <<>>
    BY <1>16 DEF OnFileDeleted
  <2>2. saved' = docs' /\ now' = now
    BY <1>16 DEF OnFileDeleted
  <2>3. Dated(docs)'
    <3> SUFFICES ASSUME NEW f \in File, NEW i \in 1..Len(docs'[f])
                 PROVE  docs'[f][i] \in 1..now'
      BY DEF Dated
    <3>1. docs'[f] # <<>>
      OBVIOUS
    <3> QED
      BY <2>1, <2>2, <3>1 DEF BooksDated, Dated
  <2> QED
    BY <2>2, <2>3 DEF BooksDated, Dated
<1>17. CASE OnCreateAllIndex
  BY <1>17, FilesStayTyped, LeftDated DEF OnCreateAllIndex
<1>18. CASE OnUpdateAllIndex
  BY <1>18, FilesStayTyped, LeftDated DEF OnUpdateAllIndex
<1>19. ASSUME NEW f \in File, Visit(f)
      PROVE  BooksDated'
  <2>1. docs \in [File -> Seq(1..MaxChanges)] /\ saved' = saved /\ now' = now
    BY <1>19 DEF Visit, FilesTyped, WrittenTyped, Written
  <2>2. \A g \in File : g # f => docs'[g] = docs[g]
    BY <1>19, <2>1 DEF Visit
  <2>3. docs'[f] = docs[f] \/ (Present(f) /\ docs'[f] = Indexed(f))
    <3> DEFINE d == IF ~stopped /\ Present(f) THEN Indexed(f) ELSE docs[f]
    <3>1. docs' = [docs EXCEPT ![f] = d]
      BY <1>19 DEF Visit
    <3>2. docs'[f] = d
      BY <2>1, <3>1
    <3> QED
      BY <3>2
  <2>4. Present(f) => \A i \in 1..Len(Indexed(f)) : Indexed(f)[i] \in 1..now
    BY <2>1, IndexedDated
  <2>5. Dated(docs)'
    BY <2>1, <2>2, <2>3, <2>4 DEF BooksDated, Dated
  <2> QED
    BY <2>1, <2>5 DEF BooksDated, Dated
<1>20. ASSUME NEW f \in File, Overlook(f)
      PROVE  BooksDated'
  BY <1>20, FilesStayTyped, LeftDated DEF Overlook
<1>21. CASE EndWalk
  BY <1>21 DEF EndWalk, Close, BooksDated, Dated
<1> QED
  BY <1>1, <1>2, <1>3, <1>4, <1>5, <1>6, <1>7, <1>8, <1>9, <1>10, <1>11, <1>12, <1>13,
     <1>14, <1>15, <1>16, <1>17, <1>18, <1>19, <1>20, <1>21 DEF PropertyNext,
     FileSystem, Switch, WorkerStep


\* The walks that are asked for, as a sum of numbers.
LEMMA WalksSum ==
    ASSUME FilesTyped
    PROVE  /\ Cardinality(Asked(jobs)) \in Nat /\ timers \in Nat
           /\ switches \in Nat /\ crashes \in Nat
<1>1. jobs \in Seq(JobName \X Path) /\ <<"created", Folder>> \in JobName \X Path
  BY DEF FilesTyped, JobsTyped, JobName, Path
<1>2. Cardinality(Asked(jobs)) \in Nat
  BY <1>1, AppendAsked
<1>3. switches \in Nat /\ crashes \in Nat
  BY DEF FilesTyped, SwitchesTyped
<1> QED
  BY <1>2, <1>3 DEF FilesTyped

LEMMA JobTakenAsked ==
    ASSUME FilesTyped, jobs # <<>>, jobs' = Tail(jobs)
    PROVE  /\ Cardinality(Asked(jobs')) \in Nat
           /\ Cardinality(Asked(jobs')) <= Cardinality(Asked(jobs))
           /\ Head(jobs)[1] = "create all"
                => Cardinality(Asked(jobs')) + 1 <= Cardinality(Asked(jobs))
BY TailAsked DEF FilesTyped, JobsTyped, AsksAll

LEMMA JobPostedAsked ==
    ASSUME PropertyAssumption, FilesTyped, NEW job \in JobName, NEW p \in Path,
           jobs' = Append(jobs, <<job, p>>)
    PROVE  /\ Cardinality(Asked(jobs')) \in Nat
           /\ Cardinality(Asked(jobs')) <= Cardinality(Asked(jobs)) + 1
           /\ job # "create all" => Cardinality(Asked(jobs')) = Cardinality(Asked(jobs))
<1> DEFINE e == <<job, p>>
<1>1. e \in JobName \X Path /\ (AsksAll(e) <=> job = "create all")
  BY DEF AsksAll
<1> HIDE DEF e
<1>2. /\ Cardinality(Asked(Append(jobs, e))) \in Nat
      /\ Cardinality(Asked(Append(jobs, e))) <= Cardinality(Asked(jobs)) + 1
      /\ ~AsksAll(e) => Cardinality(Asked(Append(jobs, e))) = Cardinality(Asked(jobs))
  BY <1>1, AppendAsked DEF FilesTyped, JobsTyped
<1>3. jobs' = Append(jobs, e)
  BY DEF e
<1> QED
  BY <1>1, <1>2, <1>3

LEMMA HandledAsked ==
    ASSUME PropertyAssumption, FilesTyped, HandleMsgFromGenl
    PROVE  Cardinality(Asked(jobs')) = Cardinality(Asked(jobs))
<1> DEFINE p == Head(kernel)[2]
<1>1. p \in Path
  BY KernelEvent DEF HandleMsgFromGenl, FilesTyped
<1>2. \/ jobs' = jobs \/ jobs' = Append(jobs, <<"created", p>>)
      \/ jobs' = Append(jobs, <<"deleted", p>>)
  BY DEF HandleMsgFromGenl
<1> HIDE DEF p
<1> QED
  BY <1>1, <1>2, JobPostedAsked DEF JobName

LEMMA WalksStayBounded ==
    ASSUME PropertyAssumption, FilesTyped, DownIsEmpty, WalksBounded, PropertyNext
    PROVE  WalksBounded'
<1> USE DEF files, running, switch, written, observed
<1>1. ASSUME NEW f \in File, CreateFile(f)
      PROVE  WalksBounded'
  <2>1. UNCHANGED <<jobs, timers, switching, process, switches, crashes>>
    BY <1>1 DEF CreateFile
  <2> QED
    BY <2>1 DEF WalksBounded, Walks
<1>2. ASSUME NEW f \in File, WriteFile(f)
      PROVE  WalksBounded'
  <2>1. UNCHANGED <<jobs, timers, switching, process, switches, crashes>>
    BY <1>2 DEF WriteFile
  <2> QED
    BY <2>1 DEF WalksBounded, Walks
<1>3. ASSUME NEW f \in File, RemoveFile(f)
      PROVE  WalksBounded'
  <2>1. UNCHANGED <<jobs, timers, switching, process, switches, crashes>>
    BY <1>3 DEF RemoveFile
  <2> QED
    BY <2>1 DEF WalksBounded, Walks
<1>4. CASE MoveFolderOut
  <2>1. UNCHANGED <<jobs, timers, switching, process, switches, crashes>>
    BY <1>4 DEF MoveFolderOut
  <2> QED
    BY <2>1 DEF WalksBounded, Walks
<1>5. CASE MoveFolderIn
  <2>1. UNCHANGED <<jobs, timers, switching, process, switches, crashes>>
    BY <1>5 DEF MoveFolderIn
  <2> QED
    BY <2>1 DEF WalksBounded, Walks
<1>6. CASE HandleMsgFromGenl
  <2>1. UNCHANGED <<timers, switching, process, switches, crashes>>
    BY <1>6 DEF HandleMsgFromGenl
  <2> QED
    BY <1>6, <2>1, HandledAsked DEF WalksBounded, Walks
<1>7. CASE SwitchOn
  <2>1. /\ UNCHANGED <<jobs, timers, process, crashes>> /\ switching = "none" /\ switching' = "up"
        /\ switches' = switches + 1
    BY <1>7 DEF SwitchOn
  <2> QED
    BY <2>1, WalksSum DEF WalksBounded, Walks
<1>8. CASE StartWorker
  <2>1. /\ UNCHANGED <<timers, process, crashes, switches>>
        /\ switching = "up" /\ switching' = "none"
    BY <1>8 DEF StartWorker
  <2>2. /\ Cardinality(Asked(jobs')) \in Nat
        /\ Cardinality(Asked(jobs')) <= Cardinality(Asked(jobs)) + 1
    <3>1. jobs' = Append(jobs, <<"create all", Folder>>)
      BY <1>8 DEF StartWorker
    <3> QED
      BY <3>1, JobPostedAsked DEF JobName, Path
  <2> QED
    BY <2>1, <2>2, WalksSum DEF WalksBounded, Walks
<1>9. CASE SwitchOff
  <2>1. /\ UNCHANGED <<jobs, timers, process, crashes>> /\ switching = "none" /\ switching' = "down"
        /\ switches' = switches + 1
    BY <1>9 DEF SwitchOff
  <2> QED
    BY <2>1, WalksSum DEF WalksBounded, Walks
<1>10. CASE Disconnect
  <2>1. /\ UNCHANGED <<jobs, timers, process, crashes, switches>>
        /\ switching = "down" /\ switching' = "none"
    BY <1>10 DEF Disconnect
  <2> QED
    BY <2>1, WalksSum DEF WalksBounded, Walks
<1>11. CASE StartAgain
  <2>1. /\ UNCHANGED <<timers, switching, switches, crashes>> /\ ~process /\ process'
        /\ timers = 0 /\ switching = "none"
    BY <1>11 DEF StartAgain, DownIsEmpty
  <2>2. Cardinality(Asked(jobs')) \in 0..1
    BY <1>11, FirstJobs
  <2> QED
    BY <2>1, <2>2, WalksSum DEF WalksBounded, Walks
<1>12. CASE Listen
  <2>1. UNCHANGED <<jobs, timers, switching, process, switches, crashes>>
    BY <1>12 DEF Listen
  <2> QED
    BY <2>1 DEF WalksBounded, Walks
<1>13. CASE Crash
  <2>1. /\ jobs' = <<>> /\ timers' = 0 /\ switching' = "none" /\ ~process'
        /\ crashes' = crashes + 1 /\ switches' = switches
    BY <1>13 DEF Crash
  <2> QED
    BY <2>1, WalksSum, NoneAsked DEF WalksBounded, Walks
<1>14. CASE Skip
  <2>1. /\ Cardinality(Asked(jobs')) \in Nat
        /\ Cardinality(Asked(jobs')) <= Cardinality(Asked(jobs))
    BY <1>14, JobTakenAsked DEF Skip, Free
  <2>2. UNCHANGED <<timers, switching, process, switches, crashes>>
    BY <1>14 DEF Skip
  <2> QED
    BY <2>1, <2>2, WalksSum DEF WalksBounded, Walks
<1>15. CASE OnFileCreated
  <2>1. /\ Cardinality(Asked(jobs')) \in Nat
        /\ Cardinality(Asked(jobs')) <= Cardinality(Asked(jobs))
    BY <1>15, JobTakenAsked DEF OnFileCreated, Free
  <2>2. UNCHANGED <<timers, switching, process, switches, crashes>>
    BY <1>15 DEF OnFileCreated
  <2> QED
    BY <2>1, <2>2, WalksSum DEF WalksBounded, Walks
<1>16. CASE OnFileDeleted
  <2>1. /\ Cardinality(Asked(jobs')) \in Nat
        /\ Cardinality(Asked(jobs')) <= Cardinality(Asked(jobs))
    BY <1>16, JobTakenAsked DEF OnFileDeleted, Free
  <2>2. UNCHANGED <<timers, switching, process, switches, crashes>>
    BY <1>16 DEF OnFileDeleted
  <2> QED
    BY <2>1, <2>2, WalksSum DEF WalksBounded, Walks
<1>17. CASE OnCreateAllIndex
  <2>1. /\ Cardinality(Asked(jobs')) \in Nat
        /\ Cardinality(Asked(jobs')) + 1 <= Cardinality(Asked(jobs))
    BY <1>17, JobTakenAsked DEF OnCreateAllIndex, Free
  <2>2. UNCHANGED <<switching, process, switches, crashes>>
    BY <1>17 DEF OnCreateAllIndex
  <2>3. timers' = timers + 1 \/ timers' = timers
    BY <1>17, Zenon DEF OnCreateAllIndex, NewTimer
  <2> QED
    BY <2>1, <2>2, <2>3, WalksSum DEF WalksBounded, Walks
<1>18. CASE OnUpdateAllIndex
  <2>1. UNCHANGED <<jobs, switching, process, switches, crashes>> /\ timers' = timers - 1
    BY <1>18 DEF OnUpdateAllIndex
  <2> QED
    BY <2>1, WalksSum DEF WalksBounded, Walks
<1>19. ASSUME NEW f \in File, Visit(f)
      PROVE  WalksBounded'
  <2>1. UNCHANGED <<jobs, timers, switching, process, switches, crashes>>
    BY <1>19 DEF Visit
  <2> QED
    BY <2>1 DEF WalksBounded, Walks
<1>20. ASSUME NEW f \in File, Overlook(f)
      PROVE  WalksBounded'
  <2>1. UNCHANGED <<jobs, timers, switching, process, switches, crashes>>
    BY <1>20 DEF Overlook
  <2> QED
    BY <2>1 DEF WalksBounded, Walks
<1>21. CASE EndWalk
  <2>1. UNCHANGED <<jobs, timers, switching, process, switches, crashes>>
    BY <1>21 DEF EndWalk
  <2> QED
    BY <2>1 DEF WalksBounded, Walks
<1> QED
  BY <1>1, <1>2, <1>3, <1>4, <1>5, <1>6, <1>7, <1>8, <1>9, <1>10, <1>11, <1>12, <1>13,
     <1>14, <1>15, <1>16, <1>17, <1>18, <1>19, <1>20, <1>21 DEF PropertyNext,
     FileSystem, Switch, WorkerStep


-----------------------------------------------------------------------------
(* What becomes of a file                                                  *)

LEMMA KernelTaken ==
    ASSUME KernelTyped, kernel # <<>>, NEW f
    PROVE  /\ FoundIn(kernel, f) => Finds(Head(kernel), f) \/ FoundIn(Tail(kernel), f)
           /\ HealedIn(kernel, f) => HealedIn(Tail(kernel), f)
           /\ HealedIn(kernel, f) /\ Drops(Head(kernel), f) => FoundIn(Tail(kernel), f)
           /\ Untold(f, kernel)
                => \/ Head(kernel)[1] \in {"deleted", "renamed from"} /\ Head(kernel)[2] = f
                   \/ Untold(f, Tail(kernel))
BY TailFate DEF KernelTyped

\* What the kernel's next event does to the fate of a file.
LEMMA ToldFate ==
    ASSUME KernelTyped, ~listening => kernel = <<>>,
           NEW a \in Act, NEW p \in Path, NEW f, Tell(a, p)
    PROVE  /\ FoundIn(kernel, f) => FoundIn(kernel', f)
           /\ Untold(f, kernel) => Untold(f, kernel')
           /\ a \in {"new", "renamed to"} /\ f \in Under(p)
                => (listening => FoundIn(kernel', f)) /\ HealedIn(kernel', f)
           /\ HealedIn(kernel, f) /\ (a \in {"new", "renamed to"} \/ f \notin Under(p))
                => HealedIn(kernel', f)
           /\ listening /\ a \in {"deleted", "renamed from"} /\ p = f => Untold(f, kernel')
<1> DEFINE e == <<a, p>>
           K == Act \X Path
<1>1. e \in K /\ kernel \in Seq(K) /\ e[1] = a /\ e[2] = p
  BY DEF KernelTyped
<1>2. a \in {"new", "renamed to"} /\ f \in Under(p) => Finds(e, f)
  BY <1>1 DEF Finds
<1>3. a \in {"new", "renamed to"} \/ f \notin Under(p) => ~Drops(e, f)
  BY <1>1 DEF Drops
<1>4. kernel' = IF listening THEN Append(kernel, e) ELSE kernel
  BY DEF Tell
<1> HIDE DEF e, K
<1>5. CASE listening
  <2>1. /\ FoundIn(kernel, f) \/ Finds(e, f) => FoundIn(Append(kernel, e), f)
        /\ Finds(e, f) => HealedIn(Append(kernel, e), f)
        /\ HealedIn(kernel, f) /\ ~Drops(e, f) => HealedIn(Append(kernel, e), f)
        /\ Untold(f, kernel) => Untold(f, Append(kernel, e))
        /\ e[1] \in {"deleted", "renamed from"} /\ e[2] = f => Untold(f, Append(kernel, e))
    BY <1>1, AppendFate
  <2>2. kernel' = Append(kernel, e)
    BY <1>4, <1>5
  <2> QED
    BY <1>1, <1>2, <1>3, <1>5, <2>1, <2>2, Zenon
<1>6. CASE ~listening
  BY <1>4, <1>6, NoEvents, Zenon
<1> QED
  BY <1>5, <1>6

\* A job posted for the kernel's event finds and drops what the event does.
LEMMA HandledFate ==
    ASSUME PropertyAssumption, FilesTyped, HandleMsgFromGenl, linked, NEW f \in File
    PROVE  /\ FoundIn(jobs, f) => FoundIn(jobs', f)
           /\ Finds(Head(kernel), f) => FoundIn(jobs', f) /\ HealedIn(jobs', f)
           /\ HealedIn(jobs, f) /\ ~Drops(Head(kernel), f) => HealedIn(jobs', f)
           /\ Untold(f, jobs) => Untold(f, jobs')
           /\ Head(kernel)[1] \in {"deleted", "renamed from"} /\ Head(kernel)[2] = f
                => Untold(f, jobs')
<1> DEFINE a == Head(kernel)[1]
           p == Head(kernel)[2]
           b == IF a \in {"new", "renamed to"} THEN "created" ELSE "deleted"
           e == <<b, p>>
           J == JobName \X Path
<1>1. a \in Act /\ p \in Path
  BY KernelEvent DEF HandleMsgFromGenl, FilesTyped
<1>2. e \in J /\ jobs \in Seq(J) /\ e[1] = b /\ e[2] = p
  BY <1>1 DEF FilesTyped, JobsTyped, JobName
<1>3. jobs' = Append(jobs, e)
  BY <1>1 DEF HandleMsgFromGenl, Creating, Deleting, Act
<1>4. Finds(Head(kernel), f) => Finds(e, f)
  BY <1>1, <1>2 DEF Finds, Act
<1>5. Drops(e, f) => Drops(Head(kernel), f)
  BY <1>1, <1>2 DEF Drops, Act
<1>6. a \in {"deleted", "renamed from"} /\ p = f => e[1] \in {"deleted", "renamed from"} /\ e[2] = f
  BY <1>2
<1> HIDE DEF e, J
<1>7. /\ FoundIn(jobs, f) \/ Finds(e, f) => FoundIn(Append(jobs, e), f)
      /\ Finds(e, f) => HealedIn(Append(jobs, e), f)
      /\ HealedIn(jobs, f) /\ ~Drops(e, f) => HealedIn(Append(jobs, e), f)
      /\ Untold(f, jobs) => Untold(f, Append(jobs, e))
      /\ e[1] \in {"deleted", "renamed from"} /\ e[2] = f => Untold(f, Append(jobs, e))
  BY <1>2, AppendFate
<1> QED
  BY <1>3, <1>4, <1>5, <1>6, <1>7, Zenon

\* What the user does to a file is told by an event, or seen by nobody.
FileTold(f) ==
    /\ (Present(f) => HealedIn(kernel, f)) => (Present(f)' => HealedIn(kernel', f))
    /\ listening /\ Present(f)' /\ ~Present(f) => FoundIn(kernel', f)
    /\ FoundIn(kernel, f) => FoundIn(kernel', f)
    /\ Present(f) /\ ~Present(f)' => f \in unseen' \/ Untold(f, kernel')
    /\ Untold(f, kernel) => Untold(f, kernel')
    /\ f \in unseen => f \in unseen'

LEMMA FilesAreTold ==
    ASSUME PropertyAssumption, FilesTyped, DeafIsEmpty, FileSystem, NEW f \in File
    PROVE  FileTold(f)
<1>1. /\ changed \in [File -> 0..now] /\ now \in Nat /\ KernelTyped
      /\ ~listening => kernel = <<>>
  BY DEF FilesTyped, DiskTyped, DeafIsEmpty
<1>2. Folder \notin File /\ Loose \cap Inside = {} /\ f \in Path /\ Folder \in Path
  BY DEF PropertyAssumption, Path
<1>3. \A g \in File : g \in Path /\ Under(g) = {g}
  BY UnderPath DEF Path
<1>4. Under(Folder) = Inside
  BY DEF Under
<1>5. ~listening => HealedIn(kernel, f)
  BY <1>1, NoEvents
<1>6. ASSUME NEW g \in File, CreateFile(g)
      PROVE  FileTold(f)
  <2>1. /\ FoundIn(kernel, f) => FoundIn(kernel', f)
        /\ Untold(f, kernel) => Untold(f, kernel')
        /\ f \in {g} => (listening => FoundIn(kernel', f)) /\ HealedIn(kernel', f)
        /\ HealedIn(kernel, f) => HealedIn(kernel', f)
    BY <1>1, <1>3, <1>6, ToldFate DEF CreateFile, Act
  <2>2. /\ f # g => (Present(f)' <=> Present(f))
        /\ f = g => ~Present(f) /\ Present(f)'
        /\ unseen' = unseen
    BY <1>1, <1>6 DEF CreateFile, Present, Tick, observed
  <2> QED
    BY <2>1, <2>2 DEF FileTold
<1>7. ASSUME NEW g \in File, WriteFile(g)
      PROVE  FileTold(f)
  <2>1. (Present(f)' <=> Present(f)) /\ unseen' = unseen /\ kernel' = kernel
    BY <1>1, <1>7 DEF WriteFile, Present, Tick, observed
  <2> QED
    BY <2>1 DEF FileTold
<1>8. ASSUME NEW g \in File, RemoveFile(g)
      PROVE  FileTold(f)
  <2>1. /\ FoundIn(kernel, f) => FoundIn(kernel', f)
        /\ Untold(f, kernel) => Untold(f, kernel')
        /\ HealedIn(kernel, f) /\ f \notin {g} => HealedIn(kernel', f)
        /\ listening /\ g = f => Untold(f, kernel')
    BY <1>1, <1>3, <1>8, ToldFate DEF RemoveFile, Act
  <2>2. /\ f # g => (Present(f)' <=> Present(f))
        /\ f = g => ~Present(f)'
    BY <1>1, <1>8 DEF RemoveFile, Present
  <2>3. /\ f \in unseen => f \in unseen'
        /\ ~listening /\ f = g => f \in unseen'
    BY <1>8 DEF RemoveFile, Vanish
  <2> QED
    BY <2>1, <2>2, <2>3 DEF FileTold
<1>9. CASE MoveFolderOut
  <2>1. /\ FoundIn(kernel, f) => FoundIn(kernel', f)
        /\ Untold(f, kernel) => Untold(f, kernel')
        /\ HealedIn(kernel, f) /\ f \notin Inside => HealedIn(kernel', f)
    BY <1>1, <1>2, <1>4, <1>9, ToldFate DEF MoveFolderOut, Act
  <2>2. /\ f \notin Inside => (Present(f)' <=> Present(f))
        /\ f \in Inside => ~Present(f)' /\ f \in unseen'
        /\ f \in unseen => f \in unseen'
    BY <1>9 DEF MoveFolderOut, Present
  <2> QED
    BY <2>1, <2>2 DEF FileTold
<1>10. CASE MoveFolderIn
  <2>1. /\ FoundIn(kernel, f) => FoundIn(kernel', f)
        /\ Untold(f, kernel) => Untold(f, kernel')
        /\ f \in Inside => (listening => FoundIn(kernel', f)) /\ HealedIn(kernel', f)
        /\ HealedIn(kernel, f) => HealedIn(kernel', f)
    BY <1>1, <1>2, <1>4, <1>10, ToldFate DEF MoveFolderIn, Act
  <2>2. /\ f \notin Inside => (Present(f)' <=> Present(f))
        /\ Present(f) => Present(f)'
        /\ unseen' = unseen
    BY <1>10 DEF MoveFolderIn, Present, observed
  <2> QED
    BY <2>1, <2>2 DEF FileTold
<1> QED
  BY <1>6, <1>7, <1>8, <1>9, <1>10 DEF FileSystem

LEMMA FileSystemLeaves ==
    ASSUME FileSystem
    PROVE  UNCHANGED <<process, listening, linked, stopped, switching, enabled, switches, jobs,
                       timers, walk, docs, saved, exists, finished, crashes, covered>>
BY DEF FileSystem, CreateFile, WriteFile, RemoveFile, MoveFolderOut, MoveFolderIn, running, switch,
   written, observed

\* Only the user changes what is there.
LEMMA FilesStay ==
    ASSUME UNCHANGED files, NEW f
    PROVE  Present(f)' <=> Present(f)
BY DEF files, Present

\* Whoever is not the user leaves the files alone.
LEMMA OnlyFileSystem ==
    ASSUME PropertyNext
    PROVE  FileSystem \/ UNCHANGED files
BY DEF PropertyNext, HandleMsgFromGenl, Switch, SwitchOn, StartWorker, SwitchOff, Disconnect,
   StartAgain, Listen, Crash, WorkerStep, Skip, OnFileCreated, OnFileDeleted, OnCreateAllIndex,
   OnUpdateAllIndex, Visit, Overlook, EndWalk

LEMMA NotDroppedHealed ==
    ASSUME NEW q, NEW f, ~DroppedIn(q, f)
    PROVE  HealedIn(q, f)
BY DEF DroppedIn, HealedIn

LEMMA KernelStaysHealed ==
    ASSUME PropertyAssumption, FilesTyped, DeafIsEmpty, KernelHealed, PropertyNext
    PROVE  KernelHealed'
<1> SUFFICES ASSUME NEW f \in File, Present(f)'
             PROVE  HealedIn(kernel', f)
  BY DEF KernelHealed
<1>1. CASE FileSystem
  BY <1>1, FilesAreTold DEF FileTold, KernelHealed
<1>2. CASE ~FileSystem
  <2>1. HealedIn(kernel, f)
    BY <1>2, OnlyFileSystem, FilesStay DEF KernelHealed
  <2>2. \/ UNCHANGED kernel
        \/ kernel' = <<>>
        \/ kernel # <<>> /\ kernel' = Tail(kernel)
    BY <1>2 DEF PropertyNext, HandleMsgFromGenl, Switch, SwitchOn, StartWorker, SwitchOff,
       Disconnect, StartAgain, Listen, Crash, WorkerStep, Skip, OnFileCreated, OnFileDeleted,
       OnCreateAllIndex, OnUpdateAllIndex, Visit, Overlook, EndWalk
  <2> QED
    BY <2>1, <2>2, NoEvents, KernelTaken DEF FilesTyped
<1> QED
  BY <1>1, <1>2

LEMMA JobsStayHealed ==
    ASSUME PropertyAssumption, FilesTyped, DeafIsEmpty, LinkedFirst, KernelHealed, JobsHealed,
           PropertyNext
    PROVE  JobsHealed'
<1> SUFFICES ASSUME ~stopped', NEW f \in File, Present(f)'
             PROVE  HealedIn(jobs', f) \/ FoundIn(kernel', f)
  BY DEF JobsHealed
<1>1. FileSystem \/ Present(f)
  BY OnlyFileSystem, FilesStay
<1>2. CASE FileSystem
  <2>1. UNCHANGED <<stopped, jobs, listening>>
    BY <1>2, FileSystemLeaves
  <2>2. FileTold(f)
    BY <1>2, FilesAreTold
  <2>3. CASE Present(f)
    BY <2>1, <2>2, <2>3 DEF JobsHealed, FileTold
  <2>4. CASE ~Present(f)
    <3>1. ~listening => HealedIn(jobs, f)
      BY NotDroppedHealed DEF DeafIsEmpty
    <3>2. listening => FoundIn(kernel', f)
      BY <2>2, <2>4 DEF FileTold
    <3> QED
      BY <2>1, <3>1, <3>2
  <2> QED
    BY <2>3, <2>4
<1> HIDE DEF FileTold
<1>3. CASE Present(f) /\ HandleMsgFromGenl
  <2>1. linked /\ ~stopped /\ kernel # <<>> /\ kernel' = Tail(kernel)
    BY <1>3 DEF HandleMsgFromGenl, switch, LinkedFirst
  <2>2. HealedIn(kernel, f) /\ (HealedIn(jobs, f) \/ FoundIn(kernel, f))
    BY <1>3, <2>1 DEF KernelHealed, JobsHealed
  <2>3. KernelTyped
    BY DEF FilesTyped
  <2> QED
    BY <1>3, <2>1, <2>2, <2>3, KernelTaken, HandledFate, Zenon
<1>4. CASE Present(f) /\ StartWorker
  BY <1>4, AllAsked DEF StartWorker, FilesTyped
<1>5. CASE StartAgain
  BY <1>5, FirstJobs
<1>6. CASE Present(f) /\ (OnFileCreated \/ OnFileDeleted \/ OnCreateAllIndex)
  <2>1. /\ ~stopped /\ jobs # <<>> /\ jobs' = Tail(jobs) /\ kernel' = kernel
    BY <1>6 DEF OnFileCreated, OnFileDeleted, OnCreateAllIndex, Free
  <2> QED
    BY <1>6, <2>1, JobTaken DEF JobsHealed, FilesTyped
<1>7. CASE SwitchOff \/ Crash \/ Skip
  <2>1. CASE SwitchOff
    BY <2>1 DEF SwitchOff
  <2>2. CASE Crash
    BY <2>2 DEF Crash
  <2>3. CASE Skip
    BY <2>3 DEF Skip, switch
  <2> QED
    BY <1>7, <2>1, <2>2, <2>3
<1>8. CASE Present(f) /\ UNCHANGED <<stopped, jobs, kernel>>
  BY <1>8 DEF JobsHealed
<1>9. \/ FileSystem \/ HandleMsgFromGenl \/ StartWorker \/ StartAgain
      \/ OnFileCreated \/ OnFileDeleted \/ OnCreateAllIndex
      \/ SwitchOff \/ Crash \/ Skip
      \/ UNCHANGED <<stopped, jobs, kernel>>
  BY DEF PropertyNext, Switch, SwitchOn, Disconnect, Listen, WorkerStep, OnUpdateAllIndex, Visit,
     Overlook, EndWalk, switch
<1> QED
  BY <1>1, <1>2, <1>3, <1>4, <1>5, <1>6, <1>7, <1>8, <1>9

\* A walk of everything will come by what is there when it begins.
LEMMA WalkFinds ==
    ASSUME NEW f \in File, Present(f), NEW job
    PROVE  f \in Walk(job, File).todo \cap Walk(job, File).sure
BY DEF Walk

LEMMA PresentStaysFound ==
    ASSUME PropertyAssumption, FilesTyped, Standing, KernelHealed, JobsHealed, PresentFound,
           PropertyNext
    PROVE  PresentFound'
<1> SUFFICES ASSUME covered' \/ walk'.whole, NEW f \in File, Present(f)'
             PROVE  WillBeFound(f)'
  BY DEF PresentFound
<1>0. /\ RunningTyped /\ JobsTyped /\ KernelTyped /\ timers \in Nat
      /\ docs \in [File -> Seq(1..MaxChanges)]
      /\ CoverIsHeard /\ DownIsEmpty /\ LinkedFirst
  BY DEF FilesTyped, WrittenTyped, Written, Standing
<1>1. FileSystem \/ Present(f)
  BY OnlyFileSystem, FilesStay
<1>2. CASE FileSystem
  <2>1. UNCHANGED <<covered, listening, jobs, timers, walk, docs>>
    BY <1>2, FileSystemLeaves
  <2>2. FileTold(f) /\ listening
    BY <1>0, <1>2, <2>1, FilesAreTold DEF CoverIsHeard, Standing
  <2>3. Present(f) => WillBeFound(f)
    BY <2>1 DEF PresentFound
  <2> QED
    BY <2>1, <2>2, <2>3 DEF FileTold, WillBeFound
<1>3. CASE Present(f) /\ HandleMsgFromGenl
  <2>1. UNCHANGED <<covered, timers, walk, docs, linked, stopped>>
    BY <1>3 DEF HandleMsgFromGenl, written, switch
  <2>2. WillBeFound(f) /\ linked /\ kernel # <<>> /\ kernel' = Tail(kernel)
    <3>1. covered \/ walk.whole
      BY <2>1
    <3>2. WillBeFound(f) /\ linked
      BY <1>0, <1>3, <3>1 DEF PresentFound, CoverIsHeard, LinkedFirst
    <3> QED
      BY <1>3, <3>2 DEF HandleMsgFromGenl
  <2>3. /\ FoundIn(jobs, f) => FoundIn(jobs', f)
        /\ FoundIn(kernel, f) => FoundIn(jobs', f) \/ FoundIn(kernel', f)
    BY <1>0, <1>3, <2>2, KernelTaken, HandledFate, Zenon
  <2> QED
    BY <2>1, <2>2, <2>3 DEF WillBeFound
<1>4. CASE Present(f) /\ StartWorker
  <2>1. FoundIn(jobs', f)
    BY <1>0, <1>4, AllAsked DEF StartWorker
  <2> QED
    BY <2>1 DEF WillBeFound
<1>5. CASE StartAgain
  <2>1. covered' = covered /\ walk' = walk /\ ~process
    BY <1>5 DEF StartAgain, observed
  <2>2. FALSE
    BY <1>0, <2>1 DEF CoverIsHeard, DownIsEmpty
  <2> QED
    BY <2>2
<1>6. CASE Present(f) /\ OnFileCreated
  <2>1. /\ UNCHANGED <<covered, timers, docs, kernel>> /\ jobs # <<>> /\ jobs' = Tail(jobs)
        /\ walk = Idle /\ Head(jobs)[1] = "created"
    BY <1>6 DEF OnFileCreated, Free, written, observed
  <2>2. /\ walk'.todo = Under(Head(jobs)[2]) /\ ~walk'.whole
        /\ walk'.sure = {g \in Under(Head(jobs)[2]) : Present(g)}
    BY <1>6 DEF OnFileCreated, Walk
  <2>3. WillBeFound(f)
    BY <1>6, <2>1, <2>2 DEF PresentFound
  <2>4. FoundIn(jobs, f) => Finds(Head(jobs), f) \/ FoundIn(jobs', f)
    BY <1>0, <2>1, JobTaken
  <2>5. Finds(Head(jobs), f) => f \in walk'.todo \cap walk'.sure
    BY <1>6, <2>1, <2>2 DEF Finds
  <2>6. f \notin walk.todo
    BY <2>1 DEF Idle
  <2> QED
    BY <2>1, <2>3, <2>4, <2>5, <2>6 DEF WillBeFound
<1>7. CASE Present(f) /\ OnFileDeleted
  <2>1. /\ UNCHANGED <<covered, timers, kernel, walk>> /\ jobs # <<>> /\ jobs' = Tail(jobs)
        /\ Head(jobs)[1] = "deleted" /\ ~stopped
    BY <1>7 DEF OnFileDeleted, Free, observed
  <2>2. WillBeFound(f)
    BY <1>7, <2>1 DEF PresentFound
  <2>3. FoundIn(jobs, f) => FoundIn(jobs', f)
    BY <1>0, <2>1, JobTaken DEF Finds
  <2>4. docs'[f] = docs[f] \/ f \in Under(Head(jobs)[2])
    BY <1>7 DEF OnFileDeleted, Under
  <2>5. Drops(Head(jobs), f) => FoundIn(jobs', f) \/ FoundIn(kernel', f)
    <3>1. HealedIn(jobs, f) \/ FoundIn(kernel, f)
      BY <1>7, <2>1 DEF JobsHealed
    <3> QED
      BY <1>0, <2>1, <3>1, JobTaken
  <2>6. f \in Under(Head(jobs)[2]) => Drops(Head(jobs), f)
    BY <2>1 DEF Drops
  <2> QED
    BY <2>1, <2>2, <2>3, <2>4, <2>5, <2>6 DEF WillBeFound
<1>8. CASE Present(f) /\ OnCreateAllIndex
  <2>1. /\ UNCHANGED <<covered, docs, kernel>> /\ walk = Idle
        /\ \/ timers' = timers + 1
           \/ walk' = Walk("create all", File)
    BY <1>8, Zenon DEF OnCreateAllIndex, Free, NewTimer, observed
  <2>2. timers' = timers + 1 => timers' > 0
    BY <1>0
  <2>3. walk' = Walk("create all", File) => f \in walk'.todo \cap walk'.sure
    BY <1>0, <1>8, WalkFinds
  <2> QED
    BY <2>1, <2>2, <2>3 DEF WillBeFound
<1>9. CASE Present(f) /\ OnUpdateAllIndex
  <2>1. CASE stopped
    <3>1. covered' = covered /\ walk' = walk
      BY <1>9, <2>1 DEF OnUpdateAllIndex, observed
    <3> QED
      BY <1>0, <2>1, <3>1 DEF CoverIsHeard
  <2>2. CASE ~stopped
    <3>1. walk' = Walk("update all", File)
      BY <1>9, <2>2 DEF OnUpdateAllIndex
    <3>2. f \in walk'.todo \cap walk'.sure
      BY <1>0, <1>9, <3>1, WalkFinds
    <3> QED
      BY <3>2 DEF WillBeFound
  <2> QED
    BY <2>1, <2>2
<1>10. ASSUME Present(f), NEW g \in File, Visit(g)
       PROVE  WillBeFound(f)'
  <2>1. /\ UNCHANGED <<covered, kernel, jobs, timers, stopped>>
        /\ walk' = [walk EXCEPT !.todo = @ \ {g}]
        /\ docs' = [docs EXCEPT ![g] = IF ~stopped /\ Present(g) THEN Indexed(g) ELSE @]
    BY <1>10 DEF Visit, observed, switch
  <2>2. walk'.todo = walk.todo \ {g} /\ walk'.sure = walk.sure /\ walk'.whole = walk.whole
    BY <2>1 DEF FilesTyped, WorkTyped
  <2>3. WillBeFound(f) /\ ~stopped
    BY <1>0, <1>10, <2>1, <2>2 DEF PresentFound, CoverIsHeard
  <2>4. f # g => docs'[f] = docs[f]
    BY <1>0, <2>1
  <2>5. f = g => docs'[f] # <<>>
    <3>1. f = g => docs'[f] = Indexed(f)
      BY <1>0, <1>10, <2>1, <2>3
    <3> QED
      BY <1>10, <3>1, IndexedTyped
  <2> QED
    BY <2>1, <2>2, <2>3, <2>4, <2>5 DEF WillBeFound
<1>11. ASSUME Present(f), NEW g \in File, Overlook(g)
       PROVE  WillBeFound(f)'
  <2>1. /\ UNCHANGED <<covered, kernel, jobs, timers, docs>>
        /\ walk' = [walk EXCEPT !.todo = @ \ {g}] /\ g \notin walk.sure
    BY <1>11 DEF Overlook, observed, written
  <2>2. walk'.todo = walk.todo \ {g} /\ walk'.sure = walk.sure /\ walk'.whole = walk.whole
    BY <2>1 DEF FilesTyped, WorkTyped
  <2>3. WillBeFound(f)
    BY <1>11, <2>1, <2>2 DEF PresentFound
  <2> QED
    BY <2>1, <2>2, <2>3 DEF WillBeFound
<1>12. CASE Present(f) /\ EndWalk
  <2>1. /\ UNCHANGED <<kernel, jobs, timers, docs>> /\ walk' = Idle
        /\ walk.todo = {} \/ stopped
    BY <1>12 DEF EndWalk
  <2>2. covered \/ walk.whole
    <3>1. ~walk'.whole
      BY <2>1 DEF Idle
    <3>2. covered'
      BY <3>1
    <3>3. covered' = (covered \/ (walk.whole /\ ~stopped))
      BY <1>12 DEF EndWalk
    <3> QED
      BY <3>2, <3>3, Zenon
  <2>3. ~stopped /\ WillBeFound(f)
    BY <1>0, <1>12, <2>2 DEF CoverIsHeard, PresentFound
  <2> QED
    BY <2>1, <2>3 DEF WillBeFound
<1>13. CASE SwitchOff \/ Crash \/ Skip
  <2>1. FALSE
    <3>1. CASE SwitchOff
      <4>1. ~covered' /\ walk' = [walk EXCEPT !.whole = FALSE]
        BY <3>1 DEF SwitchOff
      <4> QED
        BY <4>1 DEF FilesTyped, WorkTyped
    <3>2. CASE Crash
      BY <3>2 DEF Crash, Idle
    <3>3. CASE Skip
      BY <1>0, <3>3 DEF Skip, CoverIsHeard
    <3> QED
      BY <1>13, <3>1, <3>2, <3>3
  <2> QED
    BY <2>1
<1>14. CASE Present(f) /\ UNCHANGED <<covered, walk, docs, timers, jobs, kernel>>
  BY <1>14 DEF PresentFound, WillBeFound
<1>15. \/ FileSystem \/ HandleMsgFromGenl \/ StartWorker \/ StartAgain
       \/ OnFileCreated \/ OnFileDeleted \/ OnCreateAllIndex \/ OnUpdateAllIndex
       \/ \E g \in File : Visit(g) \/ Overlook(g)
       \/ EndWalk \/ SwitchOff \/ Crash \/ Skip
       \/ UNCHANGED <<covered, walk, docs, timers, jobs, kernel>>
  BY DEF PropertyNext, Switch, SwitchOn, Disconnect, Listen, WorkerStep, written, observed
<1> QED
  BY <1>1, <1>2, <1>3, <1>4, <1>5, <1>6, <1>7, <1>8, <1>9, <1>10, <1>11, <1>12, <1>13, <1>14, <1>15

\* A job that deletes a path has nothing left of it in a writer that is closed.
LEMMA DeletedIsGone ==
    ASSUME PropertyAssumption, FilesTyped, Standing, OnFileDeleted, NEW f \in File
    PROVE  /\ docs'[f] = <<>> \/ docs'[f] = docs[f]
           /\ Head(jobs)[2] = f => docs'[f] = <<>>
<1>1. docs' = [g \in File |-> IF exists /\ g \in (IF Head(jobs)[2] = Folder
                                                   THEN {h \in Inside : folder}
                                                   ELSE {Head(jobs)[2]})
                              THEN <<>> ELSE docs[g]]
  BY DEF OnFileDeleted
<1>2. docs'[f] = <<>> \/ docs'[f] = docs[f]
  BY <1>1
<1>3. ASSUME Head(jobs)[2] = f
      PROVE  docs'[f] = <<>>
  <2>1. f # Folder
    BY DEF PropertyAssumption
  <2>2. CASE exists
    BY <1>1, <1>3, <2>1, <2>2
  <2>3. CASE ~exists
    <3>1. walk.job = "none"
      BY DEF OnFileDeleted, Free, Idle
    <3>2. docs = NoDocs
      BY <2>3, <3>1 DEF Standing, WriterClosed, NoIndexNoDocs
    <3>3. docs[f] = <<>>
      BY <3>2 DEF NoDocs
    <3> QED
      BY <1>2, <3>3
  <2> QED
    BY <2>2, <2>3
<1> QED
  BY <1>2, <1>3

LEMMA GhostsStayTold ==
    ASSUME PropertyAssumption, FilesTyped, Standing, GhostsTold, PropertyNext
    PROVE  GhostsTold'
<1> SUFFICES ASSUME NEW f \in File, docs'[f] # <<>>, ~Present(f)'
             PROVE  f \in unseen' \/ Untold(f, kernel') \/ Untold(f, jobs')
  BY DEF GhostsTold
<1> DEFINE Ghost == f \in unseen \/ Untold(f, kernel) \/ Untold(f, jobs)
<1>0. /\ JobsTyped /\ KernelTyped /\ docs \in [File -> Seq(1..MaxChanges)]
      /\ DownIsEmpty /\ DeafIsEmpty /\ SavedIsWritten
  BY DEF FilesTyped, WrittenTyped, Written, Standing
<1>1. FileSystem \/ ~Present(f)
  BY OnlyFileSystem, FilesStay
<1>2. docs[f] # <<>> /\ ~Present(f) => Ghost
  BY DEF GhostsTold
<1> HIDE DEF Ghost
<1>3. CASE FileSystem
  <2>1. UNCHANGED <<jobs, docs>>
    BY <1>3, FileSystemLeaves
  <2>2. FileTold(f)
    BY <1>0, <1>3, FilesAreTold
  <2> QED
    BY <1>2, <2>1, <2>2 DEF FileTold, Ghost
<1>4. CASE ~Present(f) /\ HandleMsgFromGenl
  <2>1. /\ docs' = docs /\ kernel # <<>> /\ kernel' = Tail(kernel)
        /\ f \in unseen => f \in unseen'
    BY <1>4 DEF HandleMsgFromGenl, written
  <2>2. Ghost
    BY <1>2, <1>4, <2>1
  <2>3. Untold(f, kernel)
          => \/ Head(kernel)[1] \in {"deleted", "renamed from"} /\ Head(kernel)[2] = f
             \/ Untold(f, kernel')
    BY <1>0, <2>1, KernelTaken
  <2>4. CASE linked
    BY <1>4, <2>1, <2>2, <2>3, <2>4, HandledFate, Zenon DEF Ghost
  <2>5. CASE ~linked
    <3>1. jobs' = jobs
      BY <1>4, <2>5 DEF HandleMsgFromGenl
    <3>2. Head(kernel)[1] \in {"deleted", "renamed from"} /\ Head(kernel)[2] = f
            => f \in unseen'
      <4>1. f \in Under(f)
        BY UnderPath DEF Path
      <4> QED
        BY <1>4, <2>5, <4>1 DEF HandleMsgFromGenl
    <3> QED
      BY <2>1, <2>2, <2>3, <3>1, <3>2 DEF Ghost
  <2> QED
    BY <2>4, <2>5
<1>5. CASE ~Present(f) /\ StartWorker
  <2>1. docs' = docs /\ kernel' = kernel /\ unseen' = unseen
    BY <1>5 DEF StartWorker, written, observed
  <2>2. Untold(f, jobs) => Untold(f, jobs')
    BY <1>0, <1>5, AllAsked DEF StartWorker
  <2> QED
    BY <1>2, <1>5, <2>1, <2>2 DEF Ghost
<1>6. CASE ~Present(f) /\ StartAgain
  <2>1. docs' = docs /\ unseen' = unseen /\ jobs = <<>> /\ kernel = <<>>
    BY <1>0, <1>6 DEF StartAgain, written, observed, DownIsEmpty, DeafIsEmpty
  <2> QED
    BY <1>2, <1>6, <2>1, NoEvents DEF Ghost
<1>7. CASE ~Present(f) /\ Crash
  <2>1. docs' = saved /\ unseen' = unseen \cup {g \in File : Untold(g, kernel) \/ Untold(g, jobs)}
    BY <1>7 DEF Crash
  <2>2. docs[f] # <<>>
    BY <1>0, <2>1 DEF SavedIsWritten
  <2> QED
    BY <1>2, <1>7, <2>1, <2>2 DEF Ghost
<1>8. CASE ~Present(f) /\ (Skip \/ OnFileCreated \/ OnFileDeleted \/ OnCreateAllIndex)
  <2>1. /\ jobs # <<>> /\ jobs' = Tail(jobs) /\ kernel' = kernel
        /\ f \in unseen => f \in unseen'
    BY <1>8 DEF Skip, OnFileCreated, OnFileDeleted, OnCreateAllIndex, Free, observed
  <2>2. docs[f] # <<>>
    BY <1>8, DeletedIsGone DEF Skip, OnFileCreated, OnCreateAllIndex, written
  <2>3. Untold(f, jobs)
          => \/ Head(jobs)[1] = "deleted" /\ Head(jobs)[2] = f
             \/ Untold(f, jobs')
    BY <1>0, <2>1, JobTaken, JobEvent DEF JobName
  <2>4. ASSUME Head(jobs)[1] = "deleted", Head(jobs)[2] = f
        PROVE  f \in unseen'
    <3>1. CASE Skip
      <4>1. f \in Under(f)
        BY UnderPath DEF Path
      <4> QED
        BY <2>4, <3>1, <4>1 DEF Skip
    <3>2. CASE OnFileDeleted
      BY <2>4, <3>2, DeletedIsGone
    <3>3. CASE OnFileCreated \/ OnCreateAllIndex
      BY <2>4, <3>3 DEF OnFileCreated, OnCreateAllIndex
    <3> QED
      BY <1>8, <3>1, <3>2, <3>3
  <2> QED
    BY <1>2, <1>8, <2>1, <2>2, <2>3, <2>4 DEF Ghost
<1>9. ASSUME ~Present(f), NEW g \in File, Visit(g)
      PROVE  f \in unseen' \/ Untold(f, kernel') \/ Untold(f, jobs')
  <2>1. /\ UNCHANGED <<kernel, jobs, unseen>>
        /\ docs' = [docs EXCEPT ![g] = IF ~stopped /\ Present(g) THEN Indexed(g) ELSE @]
    BY <1>9 DEF Visit, observed
  <2>2. docs'[f] = docs[f]
    BY <1>0, <1>9, <2>1
  <2> QED
    BY <1>2, <1>9, <2>1, <2>2 DEF Ghost
<1>10. CASE ~Present(f) /\ UNCHANGED <<docs, unseen, kernel, jobs>>
  BY <1>2, <1>10 DEF Ghost
<1>11. \/ FileSystem \/ HandleMsgFromGenl \/ StartWorker \/ StartAgain \/ Crash
       \/ Skip \/ OnFileCreated \/ OnFileDeleted \/ OnCreateAllIndex
       \/ \E g \in File : Visit(g)
       \/ UNCHANGED <<docs, unseen, kernel, jobs>>
  BY DEF PropertyNext, Switch, SwitchOn, SwitchOff, Disconnect, Listen, WorkerStep,
     OnUpdateAllIndex, Overlook, EndWalk, written, observed
<1> QED
  BY <1>1, <1>3, <1>4, <1>5, <1>6, <1>7, <1>8, <1>9, <1>10, <1>11

-----------------------------------------------------------------------------
(* Theorems about the property index                                       *)

LEMMA FilesInit ==
    ASSUME PropertyAssumption, PropertyInit
    PROVE  FilesInv
<1> USE DEF PropertyInit
<1>1. \A f \in File : docs[f] = <<>> /\ saved[f] = <<>>
  BY DEF NoDocs
<1>2. FilesTyped
  <2>0. DiskTyped
    <3>1. changed \in [File -> {0, 1}] /\ now = 1 /\ folder = TRUE /\ MaxChanges \in Nat \ {0}
      BY DEF PropertyAssumption
    <3>2. {0, 1} = 0..1 /\ 1 \in 1..MaxChanges
      BY <3>1
    <3> QED
      BY <3>1, <3>2 DEF DiskTyped
  <2>1. RunningTyped /\ SwitchesTyped /\ ObservedTyped /\ crashes \in 0..MaxCrashes
    <3>1. 0 \in 0..MaxSwitches /\ 0 \in 0..MaxCrashes
      BY DEF PropertyAssumption
    <3>2. /\ process = TRUE /\ listening = TRUE /\ linked = FALSE /\ stopped = TRUE
          /\ switching = "none" /\ enabled = FALSE /\ switches = 0 /\ crashes = 0
          /\ covered = FALSE /\ unseen = {}
      OBVIOUS
    <3> HIDE DEF PropertyInit
    <3>3. RunningTyped
      BY <3>2 DEF RunningTyped
    <3>4. SwitchesTyped
      BY <3>1, <3>2 DEF SwitchesTyped
    <3>5. ObservedTyped
      BY <3>2 DEF ObservedTyped
    <3> QED
      BY <3>1, <3>2, <3>3, <3>4, <3>5
  <2>2. KernelTyped /\ JobsTyped /\ timers \in Nat
    BY DEF KernelTyped, JobsTyped
  <2>3. WorkTyped
    BY DEF WorkTyped, Idle
  <2>4. WrittenTyped
    <3>1. <<>> \in Seq(1..MaxChanges)
      OBVIOUS
    <3>2. NoDocs \in Written
      BY <3>1 DEF NoDocs, Written
    <3> QED
      BY <3>2 DEF WrittenTyped
  <2> QED
    BY <2>0, <2>1, <2>2, <2>3, <2>4 DEF FilesTyped
<1>3. Dated(docs) /\ Dated(saved)
  BY <1>1 DEF Dated
<1>4. Standing
  <2>1. DeafIsEmpty /\ DownIsEmpty /\ LinkedFirst /\ CoverIsHeard
    BY DEF DeafIsEmpty, DownIsEmpty, LinkedFirst, CoverIsHeard, Idle
  <2>2. WriterClosed /\ NoIndexNoDocs /\ SavedIsWritten
    BY <1>1 DEF WriterClosed, NoIndexNoDocs, SavedIsWritten, Idle
  <2> QED
    BY <2>1, <2>2 DEF Standing
<1>5. WalksBounded
  BY NoneAsked DEF WalksBounded, Walks
<1>6. KernelHealed /\ JobsHealed
  BY NoEvents DEF KernelHealed, JobsHealed
<1>7. PresentFound
  BY DEF PresentFound, Idle
<1>8. GhostsTold
  BY <1>1 DEF GhostsTold
<1> QED
  BY <1>2, <1>3, <1>4, <1>5, <1>6, <1>7, <1>8 DEF FilesInv

LEMMA FilesStep ==
    ASSUME PropertyAssumption, FilesInv, [PropertyNext]_propertyVars
    PROVE  FilesInv'
<1>1. CASE PropertyNext
  <2>1. FilesTyped /\ BooksDated /\ Standing /\ WalksBounded
        /\ KernelHealed /\ JobsHealed /\ PresentFound /\ GhostsTold
    BY DEF FilesInv, BooksDated
  <2>2. /\ DownIsEmpty /\ DeafIsEmpty /\ LinkedFirst /\ CoverIsHeard
        /\ WriterClosed /\ NoIndexNoDocs /\ SavedIsWritten
    BY <2>1 DEF Standing
  <2>3. FilesTyped'
    BY <1>1, <2>1, FilesStayTyped
  <2>4. BooksDated'
    BY <1>1, <2>1, BooksStayDated
  <2>5. DownIsEmpty' /\ DeafIsEmpty' /\ LinkedFirst' /\ CoverIsHeard'
    BY <1>1, <2>1, <2>2, DownStaysEmpty, DeafStaysEmpty, LinkedStaysFirst, CoverStaysHeard
  <2>6. WriterClosed' /\ NoIndexNoDocs' /\ SavedIsWritten'
    BY <1>1, <2>1, <2>2, WriterStaysClosed, NoIndexStaysNoDocs, SavedStaysWritten
  <2>7. WalksBounded'
    BY <1>1, <2>1, <2>2, WalksStayBounded
  <2>8. KernelHealed' /\ JobsHealed'
    BY <1>1, <2>1, <2>2, KernelStaysHealed, JobsStayHealed
  <2>9. PresentFound' /\ GhostsTold'
    BY <1>1, <2>1, PresentStaysFound, GhostsStayTold
  <2> QED
    BY <2>3, <2>4, <2>5, <2>6, <2>7, <2>8, <2>9 DEF FilesInv, BooksDated, Standing
<1>2. CASE UNCHANGED propertyVars
  <2>1. UNCHANGED <<changed, folder, now, kernel, process, listening, linked, stopped, switching,
                    enabled, switches, jobs, timers, walk, docs, saved, exists, finished,
                    crashes, covered, unseen>>
    BY <1>2 DEF propertyVars, files, running, switch, written, observed
  <2>2. FilesTyped' /\ BooksDated'
    <3>1. FilesTyped /\ BooksDated
      BY DEF FilesInv, BooksDated
    <3>2. FilesTyped'
      BY <1>2, <3>1, LeftTyped DEF FilesTyped, propertyVars
    <3> QED
      BY <2>1, <3>1, <3>2 DEF BooksDated, Dated
  <2>3. Standing' /\ WalksBounded'
    BY <2>1 DEF FilesInv, Standing, DownIsEmpty, DeafIsEmpty, LinkedFirst, CoverIsHeard,
       WriterClosed, NoIndexNoDocs, SavedIsWritten, WalksBounded, Walks
  <2>4. \A f \in File : (Present(f)' <=> Present(f)) /\ (WillBeFound(f)' <=> WillBeFound(f))
    BY <2>1 DEF Present, WillBeFound
  <2>5. KernelHealed' /\ JobsHealed' /\ PresentFound' /\ GhostsTold'
    BY <2>1, <2>4 DEF FilesInv, KernelHealed, JobsHealed, PresentFound, GhostsTold
  <2> QED
    BY <2>2, <2>3, <2>5 DEF FilesInv, BooksDated
<1> QED
  BY <1>1, <1>2

LEMMA FilesInvImplies ==
    ASSUME PropertyAssumption, FilesInv
    PROVE  FilesAreIndexed
<1>1. FilesTyped /\ Dated(docs) /\ Standing /\ WalksBounded /\ PresentFound /\ GhostsTold
  BY DEF FilesInv
<1>2. PropertyTypeOK
  <2>1. changed \in [File -> 0..MaxChanges]
    BY <1>1 DEF FilesTyped, DiskTyped, PropertyAssumption
  <2>2. timers \in 0..MaxSwitches + MaxCrashes
    <3>1. Cardinality(Asked(jobs)) \in Nat /\ timers \in Nat
      BY <1>1, WalksSum
    <3>2. switches \in 0..MaxSwitches /\ crashes \in 0..MaxCrashes
      BY <1>1 DEF FilesTyped, SwitchesTyped
    <3> QED
      BY <1>1, <3>1, <3>2 DEF WalksBounded, Walks, PropertyAssumption
  <2>3. \A f \in File : \A i \in 1..Len(docs[f]) : docs[f][i] \in 1..now
    BY <1>1 DEF Dated
  <2>4. switching \in {"none", "up", "down"}
        /\ walk.job \in {"none", "created", "create all", "update all"}
    BY <1>1 DEF FilesTyped, SwitchesTyped, WorkTyped
  <2>5. (walk.job = "none" => docs = saved) /\ (~exists => saved = NoDocs)
    BY <1>1 DEF Standing, WriterClosed, NoIndexNoDocs
  <2> QED
    BY <2>1, <2>2, <2>3, <2>4, <2>5 DEF PropertyTypeOK
<1>3. PresentIsIndexed
  <2> SUFFICES ASSUME Quiet, covered, NEW f \in File, Present(f)
               PROVE  docs[f] # <<>>
    BY DEF PresentIsIndexed
  <2>1. WillBeFound(f)
    BY <1>1 DEF PresentFound
  <2>2. f \notin walk.todo /\ timers = 0 /\ ~FoundIn(jobs, f) /\ ~FoundIn(kernel, f)
    BY NoEvents DEF Quiet, Idle
  <2> QED
    BY <2>1, <2>2 DEF WillBeFound
<1>4. GhostsWentUnseen
  BY <1>1, NoEvents DEF GhostsWentUnseen, GhostsTold, Quiet
<1> QED
  BY <1>2, <1>3, <1>4 DEF FilesAreIndexed

\* Every reachable state of the property index keeps the inductive invariant:
\* whatever would drop a file that is there is followed by what finds it again,
\* and a file that is gone is on its way out or went where nobody looked.
THEOREM FilesInvariant ==
    ASSUME PropertyAssumption
    PROVE  PropertySpec => []FilesInv
<1>1. PropertyInit => FilesInv
  BY FilesInit
<1>2. FilesInv /\ [PropertyNext]_propertyVars => FilesInv'
  BY FilesStep
<1> QED
  BY <1>1, <1>2, PTL DEF PropertySpec

\* For any files and any order of events, switches and ends of the process: once
\* all is quiet, what a whole walk and the events since have to show is in the
\* index, and a document whose file is gone is one of a file that went unseen.
THEOREM FilesAlwaysIndexed ==
    ASSUME PropertyAssumption
    PROVE  PropertySpec => []FilesAreIndexed
<1>1. FilesInv => FilesAreIndexed
  BY FilesInvImplies
<1> QED
  BY <1>1, FilesInvariant, PTL

\* An update never adds a second document to a file: what it writes is the one
\* document of the file as it is.
THEOREM UpdatesReplace ==
    ASSUME PropertyAssumption
    PROVE  PropertySpec => UpdateReplaces
<1>1. ASSUME FilesInv, [PropertyNext]_propertyVars, NEW f \in File,
             walk.job = "update all", process', docs'[f] # docs[f]
      PROVE  docs'[f] = <<changed[f]>>
  <2>1. docs \in [File -> Seq(1..MaxChanges)]
    BY <1>1 DEF FilesInv, FilesTyped, WrittenTyped, Written
  <2>2. walk # Idle
    <3>1. Idle.job = "none"
      BY DEF Idle
    <3> QED
      BY <1>1, <3>1
  <2>3. \/ docs' = docs
        \/ \E g \in File : Visit(g)
    BY <1>1, <2>2 DEF PropertyNext, FileSystem, CreateFile, WriteFile, RemoveFile, MoveFolderOut,
       MoveFolderIn, HandleMsgFromGenl, Switch, SwitchOn, StartWorker, SwitchOff, Disconnect,
       StartAgain, Listen, Crash, WorkerStep, Skip, OnFileCreated, OnFileDeleted, Free,
       OnCreateAllIndex, OnUpdateAllIndex, Overlook, EndWalk, written, propertyVars
  <2>4. PICK g \in File : Visit(g)
    BY <1>1, <2>3
  <2>5. docs' = [docs EXCEPT ![g] = IF ~stopped /\ Present(g) THEN Indexed(g) ELSE @]
    BY <2>4 DEF Visit
  <2>6. docs'[f] = Indexed(f)
    BY <1>1, <2>1, <2>5
  <2> QED
    BY <1>1, <2>6 DEF Indexed, DocumentOf
<1>2. FilesInv /\ [PropertyNext]_propertyVars
        => [\A f \in File :
              walk.job = "update all" /\ process' /\ docs'[f] # docs[f]
                 => docs'[f] = <<changed[f]>>]_propertyVars
  BY <1>1
<1> QED
  BY <1>2, FilesInvariant, PTL DEF PropertySpec, UpdateReplaces
=============================================================================
