---------------------------- MODULE VectorProofs ----------------------------
(***************************************************************************)
(* What the stores of the vector database keep, for any number of          *)
(* applications, documents, builds, searches, failed writes and ends of    *)
(* the process.  The inductive invariant, VInv, says of each application   *)
(* that its disk is in order (DiskInv) and its cache fits the disk         *)
(* (CacheInv), and of each build that it is over or finds on the disk what *)
(* it was begun for (BuildOk).  DiskInv is kept through every prefix of a  *)
(* handler's steps, so that the process may end after any of them.         *)
(***************************************************************************)
EXTENDS VectorSessions, FiniteSetTheorems, TLAPS

IndexState == {"absent", "unmapped", "mapped"}
Disk == [rows : SUBSET RowRecord, files : [Name -> 0..MaxDocs], chunks : SUBSET ChunkRecord,
         index : [Build -> IndexState]]
Cache == [entry : [Build -> {"none", "built", "loaded"}], held : SUBSET Build]

\* What is said of one store, its disk D and its cache K, with the documents T
\* that are torn, the builds S that went astray, the builds B, and the
\* generation g of the application a.

RowsOk(D, upTo) ==
    /\ \A r \in D.rows : r.doc <= upTo /\ (r.status = Unprocessed => r.index = NoIndex)
    /\ \A r, s \in D.rows : r.doc = s.doc => r = s
    /\ \A r, s \in D.rows : r.index = s.index /\ r.index # NoIndex => r = s

FilesOk(D, T) ==
    /\ \A r \in D.rows : r.doc \notin T => D.files[r.name] = r.doc
    /\ \A r, s \in D.rows : r.name = s.name /\ r # s => r.doc \in T

\* The build is over, and was one of this application since it was destroyed.
Made(build, a, g) == build.stage = "ended" /\ build.app = a /\ build.generation = g

Stored(D, b) ==
    \/ D.index[b] # "absent"
    \/ \E c \in D.chunks : c.build = b
    \/ \E r \in D.rows : r.index = b

MadeOk(D, B, a, g) == \A b \in Build : Stored(D, b) => Made(B[b], a, g)

\* A chunk has its document, its own text, the document its build was begun
\* for, and the index the document knows, or it is known why not.
ChunkOk(c, D, T, S, B) ==
    /\ \E r \in D.rows : r.doc = c.doc
    /\ c.text # c.doc => c.build \in S \/ c.doc \in T \/ c.text \in T
    /\ c.build \in S \/ B[c.build].doc \in {c.doc} \cup T
    /\ \/ c.build \in S \/ B[c.build].doc \in T
       \/ \E r \in D.rows : r.doc = c.doc /\ r.index = c.build

ChunksOk(D, T, S, B) == \A c \in D.chunks : ChunkOk(c, D, T, S, B)

SearchableOk(D, T) ==
    \A r \in D.rows :
        r.status = Vectorized /\ r.doc \notin T =>
            /\ r.index # NoIndex /\ D.index[r.index] = "mapped"
            /\ \E c \in D.chunks : c.doc = r.doc /\ c.build = r.index

DiskInv(D, a, upTo, T, S, B, g) ==
    /\ D \in Disk
    /\ RowsOk(D, upTo) /\ FilesOk(D, T) /\ MadeOk(D, B, a, g) /\ ChunksOk(D, T, S, B)
    /\ SearchableOk(D, T)

\* A vector that can be found has a chunk; an index that is read from the
\* cache has the vectors it has on the disk.
Accounted(b, D, T, S, B) ==
    (\E c \in D.chunks : c.build = b) \/ b \in S \/ B[b].doc \in T

VectorOk(b, D, K, T, S, B) ==
    /\ b \in K.held \/ D.index[b] = "mapped" => Accounted(b, D, T, S, B)
    /\ D.index[b] = "mapped" /\ K.entry[b] # "none" => b \in K.held \/ b \in S

\* An index that is not in the cache, or had to be read back, is from an
\* earlier life of the process.
LifeOk(b, D, K, B, life) ==
    /\ D.index[b] # "absent" /\ K.entry[b] = "none" => B[b].life < life
    /\ K.entry[b] = "loaded" => D.index[b] # "absent" /\ B[b].life < life

CacheInv(D, K, a, T, S, B, g, life) ==
    /\ K \in Cache
    /\ \A b \in K.held : K.entry[b] # "none"
    /\ \A b \in Build :
        /\ VectorOk(b, D, K, T, S, B) /\ LifeOk(b, D, K, B, life)
        /\ K.entry[b] # "none" => Made(B[b], a, g)

\* A build under way, on the disk of its application.
UnderWay(build) == build.stage \in {"parsing", "parsed"}

RunOk(b, build, D, T, S) ==
    /\ build.stage = "parsed" =>
         build.text \in Doc /\ (b \notin S => D.files[build.name] = build.text)
    /\ b \notin S => \E r \in D.rows : /\ r.doc = build.doc /\ r.name = build.name
                                       /\ r.status = Unprocessed
    /\ \A r \in D.rows : r.name = build.name /\ r.index # NoIndex => r.index \in S \/ r.doc \in T

Meet(one, other) ==
    /\ UnderWay(one) /\ UnderWay(other)
    /\ one.app = other.app /\ one.name = other.name

BuildOk(b) ==
    /\ builds[b].stage = "unused" <=> builds[b].app = NoApp
    /\ builds[b].life <= restarts
    /\ UnderWay(builds[b]) =>
        /\ builds[b].doc \in Doc /\ builds[b].generation = generation[builds[b].app]
        /\ RunOk(b, builds[b], disk[builds[b].app], torn, stray)
    /\ \A c \in Build \ {b} : Meet(builds[b], builds[c]) => b \in stray

Typed ==
    /\ session \subseteq App /\ connection \in App \cup {NoApp}
    /\ known \subseteq project /\ project \subseteq App
    /\ generation \in [App -> 0..MaxDestroys]
    /\ DOMAIN disk = App /\ DOMAIN cache = App
    /\ uploaded \in 0..MaxDocs
    /\ builds \in [Build -> BuildRecord]
    /\ searches \in Seq([app : App, generation : 0..MaxDestroys])
    /\ process \in {"running", "hung", "crashed"}
    /\ announced \subseteq Build /\ ghosts \subseteq Build
    /\ restarts \in 0..MaxRestarts
    /\ torn \subseteq Doc /\ stray \subseteq Build

AppInv(a) ==
    /\ DiskInv(disk[a], a, uploaded, torn, stray, builds, generation[a])
    /\ CacheInv(disk[a], cache[a], a, torn, stray, builds, generation[a], restarts)

GhostsOk == \A b \in ghosts : builds[b].stage # "unused" /\ (b \in stray \/ builds[b].doc \in torn)

VInv ==
    /\ Typed /\ GhostsOk /\ HangsOnlyOnReload
    /\ \A a \in App : AppInv(a)
    /\ \A b \in Build : BuildOk(b)

-----------------------------------------------------------------------------
(* Documents, builds and rows                                              *)

LEMMA Constants ==
    /\ NoIndex \notin Build /\ NoDoc \notin Doc /\ NoIndex = 0 /\ NoDoc = 0
    /\ Build \subseteq Nat /\ Doc \subseteq Nat /\ MaxDocs \in Nat /\ MaxBuilds \in Nat
    /\ 0..MaxBuilds = Build \cup {NoIndex} /\ 0..MaxDocs = Doc \cup {NoDoc}
    /\ Unprocessed # Chunked /\ Chunked # Vectorized /\ Unprocessed # Vectorized
BY StoreAssumption DEF StoreAssumption, Build, Doc, NoIndex, NoDoc, Unprocessed, Chunked, Vectorized

LEMMA BuildsFinite == IsFiniteSet(Build)
BY FS_Interval, StoreAssumption DEF StoreAssumption, Build

LEMMA RowTyped ==
    ASSUME NEW r \in RowRecord
    PROVE  /\ r.doc \in Doc /\ r.name \in Name /\ r.status \in {Unprocessed, Chunked, Vectorized}
           /\ r.index \in 0..MaxBuilds
           /\ r.index # NoIndex => r.index \in Build
BY Constants DEF RowRecord

LEMMA ChunkTyped ==
    ASSUME NEW c \in ChunkRecord
    PROVE  c.build \in Build /\ c.doc \in Doc /\ c.text \in Doc
BY DEF ChunkRecord

LEMMA DiskTyped ==
    ASSUME NEW D \in Disk
    PROVE  /\ D.rows \subseteq RowRecord /\ D.chunks \subseteq ChunkRecord
           /\ D.files \in [Name -> 0..MaxDocs] /\ D.index \in [Build -> IndexState]
BY DEF Disk

\* A disk is told by its fields.
DiskOf(rows, files, chunks, index) ==
    [rows |-> rows, files |-> files, chunks |-> chunks, index |-> index]

LEMMA DiskIs ==
    ASSUME NEW D \in Disk
    PROVE  D = DiskOf(D.rows, D.files, D.chunks, D.index)
BY DEF Disk, DiskOf

LEMMA DiskOfTyped ==
    ASSUME NEW rows \in SUBSET RowRecord, NEW files \in [Name -> 0..MaxDocs],
           NEW chunks \in SUBSET ChunkRecord, NEW index \in [Build -> IndexState]
    PROVE  LET D == DiskOf(rows, files, chunks, index)
           IN  /\ D \in Disk
               /\ D.rows = rows /\ D.files = files /\ D.chunks = chunks /\ D.index = index
BY DEF Disk, DiskOf

LEMMA RowOfIs ==
    ASSUME NEW D, NEW upTo, RowsOk(D, upTo), NEW d, IsDocument(D, d)
    PROVE  /\ RowOf(D, d) \in D.rows /\ RowOf(D, d).doc = d
           /\ \A r \in D.rows : r.doc = d => r = RowOf(D, d)
<1>1. PICK r \in D.rows : r.doc = d
  BY DEF IsDocument
<1>2. RowOf(D, d) \in D.rows /\ RowOf(D, d).doc = d
  BY <1>1 DEF RowOf
<1> QED
  BY <1>2 DEF RowsOk

\* A row after Update.
Updated(r, d, status, index) ==
    IF r.doc = d THEN [r EXCEPT !.status = status, !.index = index] ELSE r

LEMMA UpdatedIs ==
    ASSUME NEW r \in RowRecord, NEW d, NEW status \in {Unprocessed, Chunked, Vectorized},
           NEW index \in 0..MaxBuilds
    PROVE  LET q == Updated(r, d, status, index)
           IN  /\ q \in RowRecord /\ q.doc = r.doc /\ q.name = r.name
               /\ r.doc = d => q.status = status /\ q.index = index
               /\ r.doc # d => q = r
BY DEF Updated, RowRecord

LEMMA UpdateIs ==
    ASSUME NEW D \in Disk, NEW d, NEW status \in {Unprocessed, Chunked, Vectorized},
           NEW index \in 0..MaxBuilds
    PROVE  LET rows == {Updated(r, d, status, index) : r \in D.rows}
           IN  /\ rows \in SUBSET RowRecord
               /\ Update(D, d, status, index) = DiskOf(rows, D.files, D.chunks, D.index)
<1> DEFINE rows == {Updated(r, d, status, index) : r \in D.rows}
<1>1. rows \in SUBSET RowRecord
  <2>1. \A r \in D.rows : Updated(r, d, status, index) \in RowRecord
    BY UpdatedIs, DiskTyped
  <2> QED
    BY <2>1
<1>2. Update(D, d, status, index) = [D EXCEPT !.rows = rows]
  BY DEF Update, Updated
<1> HIDE DEF rows
<1>3. [D EXCEPT !.rows = rows] = DiskOf(rows, D.files, D.chunks, D.index)
  BY DEF Disk, DiskOf
<1> QED
  BY <1>1, <1>2, <1>3 DEF rows

-----------------------------------------------------------------------------
(* What is said of a store lasts                                           *)

\* Builds are begun once, keep what they are, and when they are over stay so.
LaterBuild(build, then) ==
    build.stage # "unused" =>
        /\ then.stage # "unused"
        /\ then.doc = build.doc /\ then.app = build.app
        /\ then.generation = build.generation /\ then.life = build.life
        /\ build.stage = "ended" => then.stage = "ended"

Later(B, C) == \A b \in Build : LaterBuild(B[b], C[b])

LEMMA MadeLater ==
    ASSUME NEW build, NEW then, LaterBuild(build, then), NEW a, NEW g, Made(build, a, g)
    PROVE  Made(then, a, g) /\ then.doc = build.doc /\ then.life = build.life
BY DEF Made, LaterBuild

LEMMA DiskLater ==
    ASSUME NEW D, NEW a, NEW g, NEW u \in Int, NEW v \in Int, u <= v,
           NEW S, NEW R, S \subseteq R, NEW T, NEW U, T \subseteq U,
           NEW B, NEW C, Later(B, C),
           DiskInv(D, a, u, T, S, B, g)
    PROVE  DiskInv(D, a, v, U, R, C, g)
<1> USE DEF DiskInv
<1>1. RowsOk(D, v)
  BY DiskTyped, RowTyped, Constants DEF RowsOk
<1>2. FilesOk(D, U)
  BY DEF FilesOk
<1>3. MadeOk(D, C, a, g)
  BY MadeLater DEF MadeOk, Later
<1>4. ASSUME NEW c \in D.chunks PROVE ChunkOk(c, D, U, R, C)
  <2>1. c.build \in Build
    BY ChunkTyped, DiskTyped
  <2>2. Made(B[c.build], a, g)
    BY <2>1 DEF MadeOk, Stored
  <2>3. C[c.build].doc = B[c.build].doc
    BY <2>1, <2>2, MadeLater DEF Later
  <2>4. ChunkOk(c, D, T, S, B)
    BY DEF ChunksOk
  <2> QED
    BY <2>3, <2>4 DEF ChunkOk
<1>5. SearchableOk(D, U)
  BY DEF SearchableOk
<1> QED
  BY <1>1, <1>2, <1>3, <1>4, <1>5 DEF ChunksOk

LEMMA CacheLater ==
    ASSUME NEW D, NEW K, NEW a, NEW g, NEW k \in Int, NEW l \in Int, k <= l,
           NEW S, NEW R, S \subseteq R, NEW T, NEW U, T \subseteq U,
           NEW B, NEW C, Later(B, C), \A b \in Build : B[b].life \in Int,
           MadeOk(D, B, a, g), CacheInv(D, K, a, T, S, B, g, k)
    PROVE  CacheInv(D, K, a, U, R, C, g, l)
<1> USE DEF CacheInv
<1>1. ASSUME NEW b \in Build, D.index[b] # "absent" \/ K.entry[b] # "none"
      PROVE  Made(B[b], a, g) /\ Made(C[b], a, g) /\ C[b].doc = B[b].doc /\ C[b].life = B[b].life
  BY <1>1, MadeLater DEF MadeOk, Stored, Later
<1>2. ASSUME NEW b \in Build PROVE VectorOk(b, D, K, U, R, C)
  <2>1. VectorOk(b, D, K, T, S, B)
    OBVIOUS
  <2>2. b \in K.held \/ D.index[b] = "mapped" => D.index[b] # "absent" \/ K.entry[b] # "none"
    OBVIOUS
  <2> QED
    BY <1>1, <2>1, <2>2 DEF VectorOk, Accounted
<1>3. ASSUME NEW b \in Build PROVE LifeOk(b, D, K, C, l)
  <2>1. LifeOk(b, D, K, B, k)
    OBVIOUS
  <2>2. D.index[b] # "absent" \/ K.entry[b] # "none" => C[b].life = B[b].life
    BY <1>1
  <2> QED
    BY <2>1, <2>2 DEF LifeOk
<1> QED
  BY <1>1, <1>2, <1>3

LEMMA RunLater ==
    ASSUME NEW b, NEW build, NEW D, NEW T, NEW U, T \subseteq U, NEW S, NEW R, S \subseteq R,
           RunOk(b, build, D, T, S)
    PROVE  RunOk(b, build, D, U, R)
BY DEF RunOk

-----------------------------------------------------------------------------
(* Reading indexes back                                                    *)

LEMMA CacheTyped ==
    ASSUME NEW K \in Cache
    PROVE  K.entry \in [Build -> {"none", "built", "loaded"}] /\ K.held \subseteq Build
BY DEF Cache

CacheOf(entry, held) == [entry |-> entry, held |-> held]

LEMMA CacheOfTyped ==
    ASSUME NEW entry \in [Build -> {"none", "built", "loaded"}], NEW held \in SUBSET Build
    PROVE  LET K == CacheOf(entry, held)
           IN  K \in Cache /\ K.entry = entry /\ K.held = held
BY DEF Cache, CacheOf

LEMMA LoadIs ==
    ASSUME NEW D, NEW K \in Cache, NEW wanted \in SUBSET Build
    PROVE  LET loading == MustLoad(D, K, wanted)
           IN  Load(D, K, wanted) =
                 CacheOf([b \in Build |-> IF b \in loading THEN "loaded" ELSE K.entry[b]],
                         K.held \cup {b \in loading : D.index[b] = "mapped"})
<1>1. ASSUME NEW entry, NEW held
      PROVE  [[K EXCEPT !.entry = entry] EXCEPT !.held = held] = CacheOf(entry, held)
  <2>1. [K EXCEPT !.entry = entry] = CacheOf(entry, K.held)
    BY DEF Cache, CacheOf
  <2>2. [CacheOf(entry, K.held) EXCEPT !.held = held] = CacheOf(entry, held)
    BY DEF CacheOf
  <2> QED
    BY <2>1, <2>2
<1>2. ASSUME NEW entry
      PROVE  [K EXCEPT !.entry = entry].held = K.held
  BY DEF Cache
<1> QED
  BY <1>1, <1>2 DEF Load, AddIndex, ReadMapped

LEMMA MustLoadIs ==
    ASSUME NEW D, NEW K, NEW wanted \in SUBSET Build
    PROVE  /\ MustLoad(D, K, wanted) \subseteq wanted
           /\ \A b \in MustLoad(D, K, wanted) : K.entry[b] = "none" /\ D.index[b] # "absent"
           /\ \A b \in wanted : b \notin MustLoad(D, K, wanted) =>
                                    K.entry[b] # "none" \/ D.index[b] = "absent"
BY DEF MustLoad, Cached

LEMMA LoadFields ==
    ASSUME NEW D, NEW K \in Cache, NEW wanted \in SUBSET Build
    PROVE  LET N == Load(D, K, wanted)
           IN  /\ N \in Cache
               /\ \A b \in Build :
                    /\ N.entry[b] = K.entry[b]
                       \/ (/\ N.entry[b] = "loaded" /\ K.entry[b] = "none"
                           /\ D.index[b] # "absent" /\ b \in wanted
                           /\ D.index[b] = "mapped" => b \in N.held)
                    /\ b \in wanted => N.entry[b] # "none" \/ D.index[b] = "absent"
                    /\ b \in N.held => b \in K.held \/ (D.index[b] = "mapped" /\ N.entry[b] # "none")
               /\ K.held \subseteq N.held
<1> DEFINE loading == MustLoad(D, K, wanted)
           entry == [b \in Build |-> IF b \in loading THEN "loaded" ELSE K.entry[b]]
           held == K.held \cup {b \in loading : D.index[b] = "mapped"}
<1>1. Load(D, K, wanted) = CacheOf(entry, held)
  BY LoadIs
<1>2. loading \subseteq Build
  BY MustLoadIs
<1>3. entry \in [Build -> {"none", "built", "loaded"}] /\ held \in SUBSET Build
  BY <1>2, CacheTyped
<1>4. CacheOf(entry, held) \in Cache /\ CacheOf(entry, held).entry = entry
      /\ CacheOf(entry, held).held = held
  BY <1>3, CacheOfTyped
<1>5. ASSUME NEW b \in Build
      PROVE  /\ entry[b] = K.entry[b]
                \/ (/\ entry[b] = "loaded" /\ K.entry[b] = "none"
                    /\ D.index[b] # "absent" /\ b \in wanted
                    /\ D.index[b] = "mapped" => b \in held)
             /\ b \in wanted => entry[b] # "none" \/ D.index[b] = "absent"
             /\ b \in held => b \in K.held \/ (D.index[b] = "mapped" /\ entry[b] # "none")
  <2>1. CASE b \in loading
    BY <2>1, MustLoadIs
  <2>2. CASE b \notin loading
    BY <2>2, MustLoadIs
  <2> QED
    BY <2>1, <2>2
<1>6. K.held \subseteq held
  OBVIOUS
<1> HIDE DEF entry, held, loading
<1> QED
  BY <1>1, <1>4, <1>5, <1>6

LEMMA LoadKeeps ==
    ASSUME NEW D, NEW K, NEW a, NEW g, NEW T, NEW S, NEW B, NEW life,
           MadeOk(D, B, a, g), CacheInv(D, K, a, T, S, B, g, life), NEW wanted \in SUBSET Build
    PROVE  CacheInv(D, Load(D, K, wanted), a, T, S, B, g, life)
<1> DEFINE N == Load(D, K, wanted)
<1> USE DEF CacheInv
<1>1. /\ N \in Cache
      /\ \A b \in Build :
           /\ N.entry[b] = K.entry[b]
              \/ (/\ N.entry[b] = "loaded" /\ K.entry[b] = "none"
                  /\ D.index[b] # "absent" /\ b \in wanted
                  /\ D.index[b] = "mapped" => b \in N.held)
           /\ b \in wanted => N.entry[b] # "none" \/ D.index[b] = "absent"
           /\ b \in N.held => b \in K.held \/ (D.index[b] = "mapped" /\ N.entry[b] # "none")
      /\ K.held \subseteq N.held
  BY LoadFields
<1> HIDE DEF N
<1>2. N.held \subseteq Build
  BY <1>1, CacheTyped
<1>3. \A b \in N.held : N.entry[b] # "none"
  BY <1>1, <1>2
<1>4. ASSUME NEW b \in Build PROVE VectorOk(b, D, N, T, S, B)
  BY <1>1 DEF VectorOk
<1>5. ASSUME NEW b \in Build PROVE LifeOk(b, D, N, B, life)
  BY <1>1 DEF LifeOk
<1>6. ASSUME NEW b \in Build, N.entry[b] # "none" PROVE Made(B[b], a, g)
  <2>1. K.entry[b] # "none" \/ D.index[b] # "absent"
    BY <1>1, <1>6
  <2> QED
    BY <2>1 DEF MadeOk, Stored
<1> QED
  BY <1>1, <1>3, <1>4, <1>5, <1>6 DEF N

\* The thread locks itself out over indexes of earlier lives alone.
LEMMA DeadlockOnReload ==
    ASSUME NEW D, NEW K, NEW a, NEW g, NEW T, NEW S, NEW B, NEW life,
           CacheInv(D, K, a, T, S, B, g, life), NEW wanted \in SUBSET Build,
           Deadlocks(D, K, wanted)
    PROVE  Cardinality({b \in Build : D.index[b] # "absent" /\ B[b].life < life}) > CacheLimit
<1> DEFINE old == {b \in Build : D.index[b] # "absent" /\ B[b].life < life}
           loading == MustLoad(D, K, wanted)
<1>1. Cardinality(loading \cup Counted(K)) > CacheLimit
  BY DEF Deadlocks, NeedsEviction
<1>2. loading \subseteq old
  BY MustLoadIs DEF CacheInv, LifeOk
<1>3. Counted(K) \subseteq old
  BY DEF Counted, CacheInv, LifeOk
<1>4. IsFiniteSet(old)
  BY BuildsFinite, FS_Subset
<1> HIDE DEF old
<1>5. /\ IsFiniteSet(loading \cup Counted(K))
      /\ Cardinality(loading \cup Counted(K)) <= Cardinality(old)
  BY <1>2, <1>3, <1>4, FS_Subset
<1>6. Cardinality(loading \cup Counted(K)) \in Nat /\ Cardinality(old) \in Nat
  BY <1>4, <1>5, FS_CardinalityType
<1>7. CacheLimit \in Nat
  BY StoreAssumption DEF StoreAssumption
<1> HIDE DEF loading
<1>8. Cardinality(old) > CacheLimit
  BY <1>1, <1>5, <1>6, <1>7
<1> QED
  BY <1>8 DEF old

-----------------------------------------------------------------------------
(* Removing a document                                                     *)

\* The removal writes the index of the document again, without its vector.
Saves(a, d, fault) ==
    LET i == RowOf(disk[a], d).index
    IN  /\ LosesVectors(a, d)
        /\ i \in Load(disk[a], cache[a], {i}).held
        /\ i \in ChunksOf(disk[a], d)
        /\ fault # "save"

IndexLeft(a, d, fault) ==
    IF Saves(a, d, fault)
    THEN [disk[a].index EXCEPT ![RowOf(disk[a], d).index] = "unmapped"]
    ELSE disk[a].index

\* The rows, or chunks, of other documents.
Besides(table, d) == {r \in table : r.doc # d}
WithoutRow(D, d) == Besides(D.rows, d)
WithoutChunks(D, d) == Besides(D.chunks, d)

\* How far a removal of d has come.
RemovalLeft(left, D, d, index) ==
    /\ left \in Disk /\ left.index = index
    /\ left.files = D.files \/ left.files = [D.files EXCEPT ![RowOf(D, d).name] = NoDoc]
    /\ \/ left.rows = D.rows /\ left.chunks = D.chunks
       \/ left.rows = D.rows /\ left.chunks = WithoutChunks(D, d)
       \/ left.rows = WithoutRow(D, d) /\ left.chunks = WithoutChunks(D, d)

\* The fields of an index that is written again without its vector.
LEMMA SavedIs ==
    ASSUME NEW D \in Disk, NEW K, NEW b \in Build
    PROVE  LET v == IF b \in K.held THEN "mapped" ELSE "unmapped"
           IN  SaveIndexToFile(D, K, b) =
                 DiskOf(D.rows, D.files, D.chunks, [D.index EXCEPT ![b] = v])
<1>1. WriteIndex(D, b) =
        DiskOf(D.rows, D.files, D.chunks,
               [D.index EXCEPT ![b] = IF @ = "absent" THEN "unmapped" ELSE @])
  BY DEF WriteIndex, Disk, DiskOf
<1>2. ASSUME NEW v, NEW ix, DOMAIN ix = Build
      PROVE  [DiskOf(D.rows, D.files, D.chunks, ix) EXCEPT !.index[b] = v] =
                DiskOf(D.rows, D.files, D.chunks, [ix EXCEPT ![b] = v])
  BY DEF DiskOf
<1> DEFINE ix == [D.index EXCEPT ![b] = IF @ = "absent" THEN "unmapped" ELSE @]
           v == IF b \in K.held THEN "mapped" ELSE "unmapped"
<1>3. DOMAIN ix = Build /\ [ix EXCEPT ![b] = v] = [D.index EXCEPT ![b] = v]
  BY DiskTyped
<1>4. SaveIndexToFile(D, K, b) = [DiskOf(D.rows, D.files, D.chunks, ix) EXCEPT !.index[b] = v]
  BY <1>1 DEF SaveIndexToFile, WriteIdMap
<1> QED
  BY <1>2, <1>3, <1>4

LEMMA RemovingFields ==
    ASSUME NEW rows, NEW files, NEW chunks, NEW index, NEW d
    PROVE  /\ RemoveChunks(DiskOf(rows, files, chunks, index), d) =
                 DiskOf(rows, files, Besides(chunks, d), index)
           /\ RemoveRow(DiskOf(rows, files, chunks, index), d) =
                 DiskOf(Besides(rows, d), files, chunks, index)
<1> DEFINE D == DiskOf(rows, files, chunks, index)
<1>1. RemoveChunks(D, d) = [D EXCEPT !.chunks = Besides(chunks, d)]
  BY DEF RemoveChunks, DiskOf, Besides
<1>2. RemoveRow(D, d) = [D EXCEPT !.rows = Besides(rows, d)]
  BY DEF RemoveRow, DiskOf, Besides
<1> QED
  BY <1>1, <1>2 DEF DiskOf

LEMMA DeleteIs ==
    ASSUME NEW a \in App, NEW d \in Doc, NEW u, disk[a] \in Disk, cache[a] \in Cache,
           RowsOk(disk[a], u), IsDocument(disk[a], d),
           NEW fault \in {"none", "save", "database"},
           NEW i \in 1..Len(DeleteSteps(a, d, fault))
    PROVE  /\ RemovalLeft(DeleteSteps(a, d, fault)[i], disk[a], d, IndexLeft(a, d, fault))
           /\ i = 4 => DeleteSteps(a, d, fault)[i].rows = WithoutRow(disk[a], d)
           /\ Len(DeleteSteps(a, d, fault)) = IF fault = "database" THEN 2 ELSE 4
<1> DEFINE D == disk[a]
           row == RowOf(D, d)
           j == row.index
           ix == IndexLeft(a, d, fault)
           files == [D.files EXCEPT ![row.name] = NoDoc]
           s1 == DiskOf(D.rows, D.files, D.chunks, ix)
           s2 == DiskOf(D.rows, files, D.chunks, ix)
           s3 == DiskOf(D.rows, files, WithoutChunks(D, d), ix)
           s4 == DiskOf(WithoutRow(D, d), files, WithoutChunks(D, d), ix)
<1>1. row \in D.rows /\ row.doc = d /\ row \in RowRecord
  BY RowOfIs, DiskTyped
<1>2. j \in 0..MaxBuilds /\ row.name \in Name /\ (j # NoIndex => j \in Build)
  BY <1>1, RowTyped
<1>3. Saves(a, d, fault) => j \in Build /\ j \notin DeletedCache(a, d).held
  <2> SUFFICES ASSUME Saves(a, d, fault)
               PROVE  j \in Build /\ j \notin DeletedCache(a, d).held
    OBVIOUS
  <2>1. LosesVectors(a, d) /\ j \in ChunksOf(D, d)
    BY DEF Saves
  <2>2. j \in Build
    BY <1>2, <2>1 DEF LosesVectors
  <2>3. DeletedCache(a, d) = RemoveVectors(Load(D, cache[a], {j}), {j} \cap ChunksOf(D, d))
    BY <2>1 DEF DeletedCache
  <2>4. Load(D, cache[a], {j}) \in Cache
    <3>1. {j} \in SUBSET Build
      BY <2>2
    <3> HIDE DEF j, D
    <3> QED
      BY <3>1, LoadFields
  <2> DEFINE L == Load(D, cache[a], {j})
             gone == {j} \cap ChunksOf(D, d)
  <2>5. RemoveVectors(L, gone).held = L.held \ gone
    BY <2>4 DEF RemoveVectors, Cache
  <2> QED
    BY <2>1, <2>2, <2>3, <2>5
<1>4. ix \in [Build -> IndexState]
  BY <1>3, DiskTyped DEF IndexLeft, IndexState
<1>5. files \in [Name -> 0..MaxDocs]
  BY <1>2, DiskTyped, Constants
<1>6. /\ WithoutRow(D, d) \in SUBSET RowRecord /\ WithoutChunks(D, d) \in SUBSET ChunkRecord
      /\ D.rows \in SUBSET RowRecord /\ D.chunks \in SUBSET ChunkRecord
      /\ D.files \in [Name -> 0..MaxDocs]
  BY DiskTyped DEF WithoutRow, WithoutChunks, Besides
<1> DEFINE saved == /\ LosesVectors(a, d) /\ j \in Load(D, cache[a], {j}).held
                    /\ j \in ChunksOf(D, d) /\ fault # "save"
           unindexed == IF saved THEN SaveIndexToFile(D, DeletedCache(a, d), j) ELSE D
<1>7. unindexed = s1
  <2>1. CASE saved
    <3>1. Saves(a, d, fault)
      BY <2>1 DEF Saves
    <3>2. SaveIndexToFile(D, DeletedCache(a, d), j) =
            DiskOf(D.rows, D.files, D.chunks, [D.index EXCEPT ![j] = "unmapped"])
      BY <1>3, <3>1, SavedIs
    <3> QED
      BY <2>1, <3>1, <3>2 DEF IndexLeft
  <2>2. CASE ~saved
    <3>1. ~Saves(a, d, fault)
      BY <2>2 DEF Saves
    <3> QED
      BY <2>2, <3>1, DiskIs DEF IndexLeft
  <2> QED
    BY <2>1, <2>2
<1> HIDE DEF unindexed, saved
<1>8. DeleteSteps(a, d, fault) =
        LET unfiled == RemoveFile(unindexed, d)
            unchunked == RemoveChunks(unfiled, d)
        IN  IF fault = "database" THEN <<unindexed, unfiled>>
            ELSE <<unindexed, unfiled, unchunked, RemoveRow(unchunked, d)>>
  BY DEF DeleteSteps, unindexed, saved
<1>9. RemoveFile(s1, d) = s2
  <2>1. RowOf(s1, d) = row
    BY DEF RowOf, DiskOf
  <2> HIDE DEF row, ix
  <2> QED
    BY <2>1 DEF RemoveFile, DiskOf
<1> HIDE DEF files, ix
<1>10. RemoveChunks(s2, d) = s3
  BY RemovingFields DEF WithoutChunks
<1>11. RemoveRow(s3, d) = s4
  BY RemovingFields DEF WithoutRow
<1>12. DeleteSteps(a, d, fault) = IF fault = "database" THEN <<s1, s2>> ELSE <<s1, s2, s3, s4>>
  BY <1>7, <1>8, <1>9, <1>10, <1>11
<1>13. /\ RemovalLeft(s1, D, d, ix) /\ RemovalLeft(s2, D, d, ix)
       /\ RemovalLeft(s3, D, d, ix) /\ RemovalLeft(s4, D, d, ix)
       /\ s4.rows = WithoutRow(D, d)
  <2>1. /\ s1 \in Disk /\ s1.rows = D.rows /\ s1.files = D.files /\ s1.chunks = D.chunks
        /\ s1.index = ix
    BY <1>4, <1>6, DiskOfTyped
  <2>2. /\ s2 \in Disk /\ s2.rows = D.rows /\ s2.files = files /\ s2.chunks = D.chunks
        /\ s2.index = ix
    BY <1>4, <1>5, <1>6, DiskOfTyped
  <2>3. /\ s3 \in Disk /\ s3.rows = D.rows /\ s3.files = files
        /\ s3.chunks = WithoutChunks(D, d) /\ s3.index = ix
    BY <1>4, <1>5, <1>6, DiskOfTyped
  <2>4. /\ s4 \in Disk /\ s4.rows = WithoutRow(D, d) /\ s4.files = files
        /\ s4.chunks = WithoutChunks(D, d) /\ s4.index = ix
    BY <1>4, <1>5, <1>6, DiskOfTyped
  <2> HIDE DEF s1, s2, s3, s4
  <2> QED
    BY <2>1, <2>2, <2>3, <2>4 DEF RemovalLeft, files
<1> HIDE DEF s1, s2, s3, s4
<1>14. CASE fault = "database"
  <2>1. DeleteSteps(a, d, fault) = <<s1, s2>>
    BY <1>12, <1>14
  <2>2. i \in {1, 2}
    BY <2>1
  <2> QED
    BY <1>13, <1>14, <2>1, <2>2 DEF ix
<1>15. CASE fault # "database"
  <2>1. DeleteSteps(a, d, fault) = <<s1, s2, s3, s4>>
    BY <1>12, <1>15
  <2>2. i \in {1, 2, 3, 4}
    BY <2>1
  <2> QED
    BY <1>13, <1>15, <2>1, <2>2 DEF ix
<1> QED
  BY <1>14, <1>15

LEMMA IndexLeftIs ==
    ASSUME NEW a \in App, NEW d, NEW fault, disk[a] \in Disk,
           RowOf(disk[a], d).index \in 0..MaxBuilds
    PROVE  LET ix == IndexLeft(a, d, fault)
               i == RowOf(disk[a], d).index
           IN  /\ \A b \in Build : ix[b] = disk[a].index[b] \/ (b = i /\ ix[b] = "unmapped")
               /\ Saves(a, d, fault) => i \in Build /\ ix[i] = "unmapped"
               /\ ~Saves(a, d, fault) => ix = disk[a].index
<1>1. Saves(a, d, fault) => RowOf(disk[a], d).index \in Build
  BY Constants DEF Saves, LosesVectors
<1> QED
  BY <1>1, DiskTyped DEF IndexLeft

\* What a removal leaves, when every step or some are done, is in order: the
\* documents of the same name are torn, and the removed one is, or is gone.
LEMMA RemovalDisk ==
    ASSUME NEW D, NEW a, NEW g, NEW u, NEW T, NEW U, T \subseteq U, NEW S, NEW R, S \subseteq R,
           NEW B, DiskInv(D, a, u, T, S, B, g),
           NEW d, IsDocument(D, d), NEW left, NEW index, RemovalLeft(left, D, d, index),
           \A b \in Build : index[b] = D.index[b]
                            \/ (b = RowOf(D, d).index /\ index[b] = "unmapped"),
           \A r \in D.rows : r.name = RowOf(D, d).name /\ r.doc # d => r.doc \in U,
           d \in U \/ left.rows = WithoutRow(D, d)
    PROVE  DiskInv(left, a, u, U, R, B, g)
<1> DEFINE row == RowOf(D, d)
<1>1. /\ D \in Disk /\ RowsOk(D, u) /\ FilesOk(D, T) /\ MadeOk(D, B, a, g)
      /\ ChunksOk(D, T, S, B) /\ SearchableOk(D, T)
  BY DEF DiskInv
<1>2. row \in D.rows /\ row.doc = d /\ \A r \in D.rows : r.doc = d => r = row
  BY <1>1, RowOfIs
<1>3. row \in RowRecord /\ row.name \in Name
  BY <1>1, <1>2, DiskTyped, RowTyped
<1>4. /\ left \in Disk /\ left.index = index
      /\ left.rows \subseteq D.rows /\ left.chunks \subseteq D.chunks
      /\ \A r \in D.rows : r.doc # d => r \in left.rows
      /\ \A c \in D.chunks : c.doc # d => c \in left.chunks
      /\ left.rows = D.rows \/ \A c \in left.chunks : c.doc # d
  BY DEF RemovalLeft, WithoutRow, WithoutChunks, Besides
<1>5. \A n \in Name : n # row.name => left.files[n] = D.files[n]
  <2>1. D.files \in [Name -> 0..MaxDocs]
    BY <1>1, DiskTyped
  <2> QED
    BY <2>1 DEF RemovalLeft
<1>6. \A r \in left.rows : r.doc \notin U => r.doc # d /\ r.name # row.name
  <2>1. d \notin U => \A r \in left.rows : r.doc # d
    BY DEF WithoutRow, Besides
  <2> QED
    BY <1>4, <2>1
<1> HIDE DEF row
<1>7. RowsOk(left, u)
  BY <1>1, <1>4 DEF RowsOk
<1>8. FilesOk(left, U)
  <2>1. ASSUME NEW r \in left.rows, r.doc \notin U PROVE left.files[r.name] = r.doc
    <3>1. r.name \in Name
      BY <1>1, <1>4, DiskTyped, RowTyped
    <3> QED
      BY <1>1, <1>4, <1>5, <1>6, <2>1, <3>1 DEF FilesOk
  <2> QED
    BY <1>1, <1>4, <2>1 DEF FilesOk
<1>9. MadeOk(left, B, a, g)
  <2>1. ASSUME NEW b \in Build, Stored(left, b) PROVE Stored(D, b)
    <3>1. left.index[b] # D.index[b] => b = row.index
      BY <1>4 DEF row
    <3> QED
      BY <1>2, <1>4, <2>1, <3>1 DEF Stored
  <2> QED
    BY <1>1, <2>1 DEF MadeOk
<1>10. ASSUME NEW c \in left.chunks PROVE ChunkOk(c, left, U, R, B)
  <2>1. c \in D.chunks /\ ChunkOk(c, D, T, S, B)
    BY <1>1, <1>4 DEF ChunksOk
  <2>2. \A r \in D.rows : r.doc = c.doc => r \in left.rows
    BY <1>4
  <2> QED
    BY <2>1, <2>2 DEF ChunkOk
<1>11. SearchableOk(left, U)
  <2> SUFFICES ASSUME NEW r \in left.rows, r.status = Vectorized, r.doc \notin U
               PROVE  /\ r.index # NoIndex /\ left.index[r.index] = "mapped"
                      /\ \E c \in left.chunks : c.doc = r.doc /\ c.build = r.index
    BY DEF SearchableOk
  <2>1. r \in D.rows /\ r.doc # d
    BY <1>4, <1>6
  <2>2. /\ r.index # NoIndex /\ D.index[r.index] = "mapped"
        /\ \E c \in D.chunks : c.doc = r.doc /\ c.build = r.index
    BY <1>1, <2>1 DEF SearchableOk
  <2>3. r.index \in Build
    BY <1>1, <2>1, <2>2, DiskTyped, RowTyped
  <2>4. r.index # row.index
    BY <1>1, <1>2, <2>1, <2>2 DEF RowsOk
  <2> QED
    BY <1>4, <2>1, <2>2, <2>3, <2>4 DEF row
<1> QED
  BY <1>4, <1>7, <1>8, <1>9, <1>10, <1>11 DEF DiskInv, ChunksOk

LEMMA DeletedCacheIs ==
    ASSUME NEW a \in App, NEW d, cache[a] \in Cache, RowOf(disk[a], d).index \in 0..MaxBuilds
    PROVE  LET i == RowOf(disk[a], d).index
               N == Load(disk[a], cache[a], {i})
               K == DeletedCache(a, d)
           IN  /\ ~LosesVectors(a, d) => K = cache[a]
               /\ LosesVectors(a, d) =>
                    /\ i \in Build /\ K \in Cache /\ K.entry = N.entry
                    /\ K.held \subseteq N.held
                    /\ i \in ChunksOf(disk[a], d) => i \notin K.held
                    /\ \A b \in N.held : (b = i /\ i \in ChunksOf(disk[a], d)) \/ b \in K.held
<1> DEFINE i == RowOf(disk[a], d).index
           N == Load(disk[a], cache[a], {i})
           gone == {i} \cap ChunksOf(disk[a], d)
<1>1. ~LosesVectors(a, d) => DeletedCache(a, d) = cache[a]
  BY DEF DeletedCache
<1>2. LosesVectors(a, d) => DeletedCache(a, d) = RemoveVectors(N, gone)
  BY DEF DeletedCache
<1>3. LosesVectors(a, d) => i \in Build
  BY Constants DEF LosesVectors
<1>4. i \in Build => N \in Cache
  <2> SUFFICES ASSUME i \in Build PROVE N \in Cache
    OBVIOUS
  <2>1. {i} \in SUBSET Build
    OBVIOUS
  <2> HIDE DEF i
  <2> QED
    BY <2>1, LoadFields
<1>5. ASSUME NEW L \in Cache, NEW out
      PROVE  /\ RemoveVectors(L, out) \in Cache /\ RemoveVectors(L, out).entry = L.entry
             /\ RemoveVectors(L, out).held = L.held \ out
  BY DEF RemoveVectors, Cache
<1> HIDE DEF i, N, gone
<1>6. LosesVectors(a, d) =>
        /\ i \in Build /\ DeletedCache(a, d) \in Cache /\ DeletedCache(a, d).entry = N.entry
        /\ DeletedCache(a, d).held = N.held \ gone
  BY <1>2, <1>3, <1>4, <1>5
<1>7. gone = {i} \cap ChunksOf(disk[a], d)
  BY DEF gone, i
<1> QED
  BY <1>1, <1>6, <1>7 DEF i, N

\* A mapped vector is in the index when it has been read.
LEMMA MappedIsRead ==
    ASSUME NEW D, NEW K, NEW a, NEW g, NEW T, NEW S, NEW B, NEW life,
           CacheInv(D, K, a, T, S, B, g, life), NEW b \in Build, D.index[b] = "mapped"
    PROVE  b \in Load(D, K, {b}).held \/ b \in S
<1>1. {b} \in SUBSET Build /\ K \in Cache
  BY DEF CacheInv
<1>2. VectorOk(b, D, K, T, S, B)
  BY DEF CacheInv
<1> DEFINE N == Load(D, K, {b})
<1>3. /\ N.entry[b] = K.entry[b]
           \/ (/\ N.entry[b] = "loaded" /\ K.entry[b] = "none"
               /\ D.index[b] # "absent" /\ b \in {b}
               /\ D.index[b] = "mapped" => b \in N.held)
      /\ b \in {b} => N.entry[b] # "none" \/ D.index[b] = "absent"
      /\ K.held \subseteq N.held
  BY <1>1, LoadFields
<1> HIDE DEF N
<1> QED
  BY <1>2, <1>3 DEF VectorOk, N

\* What is removed is removed in both places, or known to be stray.
LEMMA RemovalVectors ==
    ASSUME NEW a \in App, NEW d, NEW u, NEW g, NEW T, NEW U, T \subseteq U,
           NEW S, NEW R, S \subseteq R, NEW B, NEW life,
           DiskInv(disk[a], a, u, T, S, B, g), IsDocument(disk[a], d),
           CacheInv(disk[a], cache[a], a, T, S, B, g, life),
           NEW fault, fault = "save" => ChunksOf(disk[a], d) \subseteq R,
           NEW left, RemovalLeft(left, disk[a], d, IndexLeft(a, d, fault))
    PROVE  CacheInv(left, DeletedCache(a, d), a, U, R, B, g, life)
<1> DEFINE D == disk[a]
           row == RowOf(D, d)
           i == row.index
           N == Load(D, cache[a], {i})
           K == DeletedCache(a, d)
           index == IndexLeft(a, d, fault)
<1>1. /\ D \in Disk /\ RowsOk(D, u) /\ MadeOk(D, B, a, g) /\ ChunksOk(D, T, S, B)
      /\ cache[a] \in Cache
  BY DEF DiskInv, CacheInv
<1>2. row \in D.rows /\ row.doc = d /\ \A r \in D.rows : r.doc = d => r = row
  BY <1>1, RowOfIs
<1>3. row \in RowRecord /\ i \in 0..MaxBuilds
  BY <1>1, <1>2, DiskTyped, RowTyped
<1>4. /\ left.index = index /\ left.chunks \subseteq D.chunks
      /\ \A c \in D.chunks : c.doc # d => c \in left.chunks
  BY DEF RemovalLeft, WithoutRow, WithoutChunks, Besides
<1>5. /\ \A b \in Build : index[b] = D.index[b] \/ (b = i /\ index[b] = "unmapped")
      /\ Saves(a, d, fault) => i \in Build /\ index[i] = "unmapped"
      /\ ~Saves(a, d, fault) => index = D.index
  BY <1>1, <1>3, IndexLeftIs
<1>6. /\ ~LosesVectors(a, d) => K = cache[a]
      /\ LosesVectors(a, d) =>
            /\ i \in Build /\ K \in Cache /\ K.entry = N.entry /\ K.held \subseteq N.held
            /\ i \in ChunksOf(D, d) => i \notin K.held
            /\ \A b \in N.held : (b = i /\ i \in ChunksOf(D, d)) \/ b \in K.held
  BY <1>1, <1>3, DeletedCacheIs
<1>7. i \in Build => CacheInv(D, N, a, T, S, B, g, life)
  <2> SUFFICES ASSUME i \in Build PROVE CacheInv(D, N, a, T, S, B, g, life)
    OBVIOUS
  <2>1. {i} \in SUBSET Build
    OBVIOUS
  <2> HIDE DEF i, D
  <2> QED
    BY <1>1, <2>1, LoadKeeps DEF D
<1>8. Saves(a, d, fault) <=> /\ LosesVectors(a, d) /\ i \in N.held /\ i \in ChunksOf(D, d)
                             /\ fault # "save"
  BY DEF Saves
<1>9. LosesVectors(a, d) <=> i # NoIndex /\ ChunksOf(D, d) # {} /\ Readable(a, i)
  BY DEF LosesVectors
<1>10. i \in Build /\ D.index[i] = "mapped" => i \in N.held \/ i \in S
  <2> SUFFICES ASSUME i \in Build, D.index[i] = "mapped" PROVE i \in N.held \/ i \in S
    OBVIOUS
  <2> HIDE DEF i, D
  <2> QED
    BY MappedIsRead DEF D
\* The cache of the removal, before its vectors go.
<1> DEFINE L == IF LosesVectors(a, d) THEN N ELSE cache[a]
<1>11. /\ CacheInv(D, L, a, T, S, B, g, life)
       /\ K \in Cache /\ K.entry = L.entry /\ K.held \subseteq L.held
       /\ \A b \in L.held : b \in K.held \/ (b = i /\ i \in ChunksOf(D, d) /\ LosesVectors(a, d))
  BY <1>1, <1>6, <1>7
<1>12. L.held \subseteq Build
  BY <1>11, CacheTyped DEF CacheInv
<1> HIDE DEF i, row, N, K, L, index, D
<1>13. ASSUME NEW b \in Build, left.index[b] = "mapped" PROVE D.index[b] = "mapped" /\ (b = i => ~Saves(a, d, fault))
  BY <1>4, <1>5, <1>13
<1>14. ASSUME NEW b \in Build, b \in K.held \/ left.index[b] = "mapped"
       PROVE  Accounted(b, left, U, R, B)
  <2>1. b \in L.held \/ D.index[b] = "mapped"
    BY <1>11, <1>13, <1>14
  <2>2. Accounted(b, D, T, S, B)
    BY <1>11, <2>1 DEF CacheInv, VectorOk
  <2>3. CASE b \in S \/ B[b].doc \in T
    BY <2>3 DEF Accounted
  <2>4. CASE \E c \in D.chunks : c.build = b /\ c.doc # d
    BY <1>4, <2>4 DEF Accounted
  <2>5. CASE \E c \in D.chunks : c.build = b /\ c.doc = d
    <3> SUFFICES ASSUME b \notin S, B[b].doc \notin T, b \notin R PROVE FALSE
      BY DEF Accounted
    <3>1. PICK c \in D.chunks : c.build = b /\ c.doc = d
      BY <2>5
    <3>2. ChunkOk(c, D, T, S, B)
      BY <1>1 DEF ChunksOk
    <3>3. b = i
      BY <1>2, <3>1, <3>2 DEF ChunkOk, i
    <3>4. b \in ChunksOf(D, d)
      BY <3>1 DEF ChunksOf
    <3>5. Readable(a, b)
      <4>1. CASE D.index[b] = "mapped"
        BY <4>1 DEF Readable, D
      <4>2. CASE b \in L.held /\ D.index[b] # "mapped"
        <5>1. L.entry[b] # "none"
          BY <1>11, <4>2 DEF CacheInv
        <5>2. LosesVectors(a, d) \/ cache[a].entry[b] # "none"
          BY <5>1 DEF L
        <5> QED
          BY <1>9, <3>3, <5>2 DEF Readable, Cached
      <4> QED
        BY <2>1, <4>1, <4>2
    <3>6. LosesVectors(a, d)
      BY <1>9, <3>3, <3>4, <3>5, Constants
    <3>7. b \notin K.held
      BY <1>6, <3>3, <3>4, <3>6
    <3>8. D.index[b] = "mapped" /\ ~Saves(a, d, fault)
      BY <1>13, <1>14, <3>3, <3>7
    <3>9. i \in N.held
      BY <1>10, <3>3, <3>8
    <3>10. fault = "save"
      BY <1>8, <3>3, <3>4, <3>6, <3>8, <3>9
    <3> QED
      BY <3>4, <3>10 DEF D
  <2> QED
    BY <2>2, <2>3, <2>4, <2>5 DEF Accounted
<1>15. ASSUME NEW b \in Build, left.index[b] = "mapped", K.entry[b] # "none"
       PROVE  b \in K.held \/ b \in R
  <2>1. b \in L.held \/ b \in S
    BY <1>11, <1>13, <1>15 DEF CacheInv, VectorOk
  <2>2. CASE b \in L.held /\ b \notin K.held
    <3>1. b = i /\ i \in ChunksOf(D, d) /\ LosesVectors(a, d)
      BY <1>11, <2>2
    <3>2. i \in N.held
      BY <2>2, <3>1 DEF L
    <3>3. fault = "save"
      BY <1>8, <1>13, <1>15, <3>1, <3>2
    <3> QED
      BY <3>1, <3>3 DEF D
  <2> QED
    BY <2>1, <2>2
<1>16. ASSUME NEW b \in Build PROVE LifeOk(b, left, K, B, life)
  <2>1. LifeOk(b, D, L, B, life)
    BY <1>11 DEF CacheInv
  <2>2. left.index[b] = D.index[b] \/ (left.index[b] = "unmapped" /\ K.entry[b] # "none")
    <3>1. Saves(a, d, fault) => K.entry[i] # "none"
      BY <1>8, <1>11 DEF CacheInv, L
    <3> QED
      BY <1>4, <1>5, <3>1
  <2>3. D.index[b] # "absent" => left.index[b] # "absent"
    BY <1>4, <1>5
  <2> QED
    BY <1>11, <2>1, <2>2, <2>3 DEF LifeOk
<1>17. \A b \in K.held : K.entry[b] # "none"
  BY <1>11 DEF CacheInv
<1>18. \A b \in Build : K.entry[b] # "none" => Made(B[b], a, g)
  BY <1>11 DEF CacheInv
<1> QED
  BY <1>11, <1>14, <1>15, <1>16, <1>17, <1>18 DEF CacheInv, VectorOk, K

-----------------------------------------------------------------------------
(* Completing a build                                                      *)

LEMMA SmallestDocument ==
    ASSUME NEW T \in SUBSET Doc, T # {}
    PROVE  \E d \in T : \A e \in T : d <= e
<1>1. T \subseteq Nat
  BY Constants
<1>2. PICK d \in T : \A e \in T : ~(<<e, d>> \in OpToRel(<, Nat))
  BY <1>1, NatLessThanWellFounded, WFMin
<1>3. \A e \in T : ~(e < d)
  BY <1>1, <1>2 DEF OpToRel
<1> QED
  BY <1>1, <1>3

LEMMA DocumentIdIs ==
    ASSUME NEW D \in Disk, NEW n
    PROVE  LET d == DocumentIdByPath(D, n)
           IN  \/ d = NoDoc /\ \A r \in D.rows : r.name # n
               \/ d \in Doc /\ \E r \in D.rows : r.doc = d /\ r.name = n
<1> DEFINE named == {r.doc : r \in {s \in D.rows : s.name = n}}
<1>1. named \in SUBSET Doc
  BY DiskTyped, RowTyped
<1>2. CASE named = {}
  BY <1>2 DEF DocumentIdByPath
<1>3. CASE named # {}
  <2>1. \E d \in named : \A e \in named : d <= e
    <3> HIDE DEF named
    <3> QED
      BY <1>1, <1>3, SmallestDocument
  <2>2. DocumentIdByPath(D, n) \in named
    BY <1>3, <2>1 DEF DocumentIdByPath
  <2> QED
    BY <1>1, <2>2
<1> QED
  BY <1>2, <1>3

Touched(rows, d, status, index) == {Updated(r, d, status, index) : r \in rows}

LEMMA TouchedTwice ==
    ASSUME NEW rows \in SUBSET RowRecord, NEW d,
           NEW s, NEW i, NEW t, NEW j
    PROVE  Touched(Touched(rows, d, s, i), d, t, j) = Touched(rows, d, t, j)
<1>1. ASSUME NEW r \in RowRecord
      PROVE  Updated(Updated(r, d, s, i), d, t, j) = Updated(r, d, t, j)
  <2>1. CASE r.doc = d
    <3>1. Updated(r, d, s, i) = [doc |-> d, name |-> r.name, status |-> s, index |-> i]
      BY <2>1 DEF Updated, RowRecord
    <3>2. Updated(r, d, t, j) = [doc |-> d, name |-> r.name, status |-> t, index |-> j]
      BY <2>1 DEF Updated, RowRecord
    <3> QED
      BY <3>1, <3>2 DEF Updated
  <2>2. CASE r.doc # d
    BY <2>2 DEF Updated
  <2> QED
    BY <2>1, <2>2
<1>2. Touched(Touched(rows, d, s, i), d, t, j) =
        {Updated(Updated(r, d, s, i), d, t, j) : r \in rows}
  BY DEF Touched
<1>3. \A r \in rows : Updated(Updated(r, d, s, i), d, t, j) = Updated(r, d, t, j)
  BY <1>1
<1> QED
  BY <1>2, <1>3 DEF Touched

\* These are the rows with the one of d touched.
Touches(new, rows, d, s, i) ==
    /\ new \in SUBSET RowRecord
    /\ \A q \in new : \E r \in rows :
         /\ q.doc = r.doc /\ q.name = r.name
         /\ r.doc # d => q = r
         /\ r.doc = d => q.status = s /\ q.index = i
    /\ \A r \in rows : r.doc # d => r \in new
    /\ \A r \in rows : \E q \in new : q.doc = r.doc /\ q.name = r.name
                                      /\ (r.doc = d => q.index = i)

LEMMA TouchedIs ==
    ASSUME NEW D \in Disk, NEW d,
           NEW s \in {Unprocessed, Chunked, Vectorized}, NEW i \in 0..MaxBuilds
    PROVE  Touches(Touched(D.rows, d, s, i), D.rows, d, s, i)
<1>1. D.rows \in SUBSET RowRecord
  BY DiskTyped
<1>2. ASSUME NEW r \in D.rows
      PROVE  LET q == Updated(r, d, s, i)
             IN  /\ q \in RowRecord /\ q.doc = r.doc /\ q.name = r.name
                 /\ r.doc = d => q.status = s /\ q.index = i
                 /\ r.doc # d => q = r
  <2>1. r \in RowRecord
    BY <1>1
  <2> QED
    BY <2>1 DEF Updated, RowRecord
<1> QED
  BY <1>2 DEF Touched, Touches

\* A disk after Update, in whatever order its fields were written.
LEMMA UpdateFields ==
    ASSUME NEW rows, NEW files, NEW chunks, NEW index, NEW d, NEW s, NEW i
    PROVE  Update(DiskOf(rows, files, chunks, index), d, s, i) =
              DiskOf(Touched(rows, d, s, i), files, chunks, index)
<1>1. Update(DiskOf(rows, files, chunks, index), d, s, i) =
        [DiskOf(rows, files, chunks, index) EXCEPT !.rows = Touched(rows, d, s, i)]
  BY DEF Update, Touched, Updated, DiskOf
<1> QED
  BY <1>1 DEF DiskOf

ChunkOf(b, d, text) == [build |-> b, doc |-> d, text |-> text]

\* What a completion has made of the disk before its last step and after it.
CompletionLeft(left, D, b, d, text, last, fault) ==
    /\ left \in Disk /\ left.files = D.files
    /\ left.chunks = IF d = NoDoc \/ fault = "chunks" THEN D.chunks
                     ELSE D.chunks \cup {ChunkOf(b, d, text)}
    /\ \/ d = NoDoc /\ left.rows = D.rows
       \/ d # NoDoc /\ ~last /\ (left.rows = D.rows
                         \/ left.rows = Touched(D.rows, d, Chunked, RowOf(D, d).index))
       \/ d # NoDoc /\ last /\ left.rows = Touched(D.rows, d, Vectorized,
                                                IF fault = "vectors" THEN NoIndex ELSE b)
    /\ \A c \in Build : c # b => left.index[c] = D.index[c]
    /\ last /\ fault = "none" => left.index[b] = "mapped"

LEMMA CompletedCacheIs ==
    ASSUME NEW a \in App, NEW b \in Build, NEW fault, cache[a] \in Cache
    PROVE  /\ CompletedCache(a, b, fault) \in Cache
           /\ CompletedCache(a, b, fault).entry[b] = "built"
           /\ \A c \in Build :
                c # b => CompletedCache(a, b, fault).entry[c] = cache[a].entry[c]
           /\ fault = "vectors" => CompletedCache(a, b, fault).held = cache[a].held
           /\ fault # "vectors" => CompletedCache(a, b, fault).held = cache[a].held \cup {b}
<1> DEFINE M == CreateIndex(cache[a], b)
<1>1. /\ M = CacheOf([cache[a].entry EXCEPT ![b] = "built"], cache[a].held)
      /\ [cache[a].entry EXCEPT ![b] = "built"] \in [Build -> {"none", "built", "loaded"}]
      /\ cache[a].held \in SUBSET Build
  BY DEF CreateIndex, Cache, CacheOf
<1>2. /\ M \in Cache /\ M.entry = [cache[a].entry EXCEPT ![b] = "built"]
      /\ M.held = cache[a].held
  BY <1>1, CacheOfTyped
<1>3. ASSUME NEW N \in Cache
      PROVE  AddVectors(N, b) \in Cache /\ AddVectors(N, b).entry = N.entry
             /\ AddVectors(N, b).held = N.held \cup {b}
  BY DEF AddVectors, Cache
<1>4. cache[a].entry \in [Build -> {"none", "built", "loaded"}]
  BY CacheTyped
<1>5. CompletedCache(a, b, fault) = IF fault = "vectors" THEN M ELSE AddVectors(M, b)
  BY DEF CompletedCache
<1> HIDE DEF M
<1>6. CompletedCache(a, b, fault) \in Cache /\ CompletedCache(a, b, fault).entry = M.entry
      /\ CompletedCache(a, b, fault).held =
            IF fault = "vectors" THEN cache[a].held ELSE cache[a].held \cup {b}
  BY <1>2, <1>3, <1>5
<1> QED
  BY <1>2, <1>4, <1>6

LEMMA CompleteIs ==
    ASSUME NEW b \in Build, NEW a \in App, disk[a] \in Disk, cache[a] \in Cache,
           NEW u, RowsOk(disk[a], u), builds[b].text \in Doc,
           NEW fault \in {"none", "chunks", "vectors", "save"}, NEW i \in 1..4
    PROVE  /\ Len(CompleteSteps(a, b, fault)) = 4
           /\ CompletionLeft(CompleteSteps(a, b, fault)[i], disk[a], b,
                             DocumentIdByPath(disk[a], builds[b].name), builds[b].text,
                             i = 4, fault)
<1> DEFINE D == disk[a]
           d == DocumentIdByPath(D, builds[b].name)
           text == builds[b].text
           K == CompletedCache(a, b, fault)
           stored == IF fault = "chunks" THEN D ELSE StoreDocumentChunks(D, b, d, text)
           unsaved == fault \in {"vectors", "save"}
           written == IF unsaved THEN stored ELSE WriteIndex(stored, b)
           saved == IF unsaved THEN stored ELSE SaveIndexToFile(stored, K, b)
           index == IF fault = "vectors" THEN NoIndex ELSE b
           final == IF d = NoDoc THEN saved ELSE UpdateIndexAndStatus(saved, d, index)
           none == d = NoDoc \/ fault = "chunks"
           rows == IF none THEN D.rows ELSE Touched(D.rows, d, Chunked, RowOf(D, d).index)
           chunks == IF none THEN D.chunks ELSE D.chunks \cup {ChunkOf(b, d, text)}
           begun == [D.index EXCEPT ![b] = IF @ = "absent" THEN "unmapped" ELSE @]
           over == [D.index EXCEPT ![b] = IF b \in K.held THEN "mapped" ELSE "unmapped"]
<1>1. CompleteSteps(a, b, fault) = <<stored, written, saved, final>>
  BY DEF CompleteSteps
<1>2. \/ d = NoDoc
      \/ d \in Doc /\ d # NoDoc /\ IsDocument(D, d)
  BY DocumentIdIs, Constants DEF IsDocument
<1>3. /\ D.rows \in SUBSET RowRecord /\ D.chunks \in SUBSET ChunkRecord
      /\ D.files \in [Name -> 0..MaxDocs] /\ D.index \in [Build -> IndexState]
      /\ D = DiskOf(D.rows, D.files, D.chunks, D.index)
  BY DiskTyped, DiskIs
<1>4. d # NoDoc => RowOf(D, d) \in RowRecord /\ RowOf(D, d).index \in 0..MaxBuilds
  BY <1>2, <1>3, RowOfIs, RowTyped
<1>5. b \in 0..MaxBuilds /\ NoIndex \in 0..MaxBuilds
      /\ Chunked \in {Unprocessed, Chunked, Vectorized}
      /\ Vectorized \in {Unprocessed, Chunked, Vectorized}
  BY Constants
<1>6. begun \in [Build -> IndexState] /\ over \in [Build -> IndexState]
  BY <1>3 DEF IndexState
<1>7. \A c \in Build : c # b => begun[c] = D.index[c] /\ over[c] = D.index[c]
  BY <1>3
<1>8. fault = "none" => over[b] = "mapped"
  <2>1. fault # "vectors" => CompletedCache(a, b, fault).held = cache[a].held \cup {b}
    BY CompletedCacheIs
  <2> QED
    BY <1>3, <2>1
<1> HIDE DEF K, begun, over, d, text, D
<1>9. rows \in SUBSET RowRecord
  <2>1. d # NoDoc => Touches(Touched(D.rows, d, Chunked, RowOf(D, d).index), D.rows, d, Chunked,
                             RowOf(D, d).index)
    BY <1>4, <1>5, TouchedIs DEF D
  <2> QED
    BY <1>3, <2>1 DEF Touches
<1>10. chunks \in SUBSET ChunkRecord
  <2>1. d # NoDoc => ChunkOf(b, d, text) \in ChunkRecord
    BY <1>2 DEF ChunkOf, ChunkRecord, text
  <2> QED
    BY <1>3, <2>1
<1>11. stored = DiskOf(rows, D.files, chunks, D.index)
  <2>1. CASE none
    BY <1>3, <2>1 DEF StoreDocumentChunks
  <2>2. CASE ~none
    <3>1. [D EXCEPT !.chunks = @ \cup {[build |-> b, doc |-> d, text |-> text]}] =
             DiskOf(D.rows, D.files, chunks, D.index)
      BY <2>2 DEF Disk, DiskOf, ChunkOf, D
    <3>2. stored = Update(DiskOf(D.rows, D.files, chunks, D.index), d, Chunked, RowOf(D, d).index)
      BY <2>2, <3>1 DEF StoreDocumentChunks
    <3> HIDE DEF stored, chunks
    <3> QED
      BY <2>2, <3>2, UpdateFields
  <2> QED
    BY <2>1, <2>2
<1>12. /\ stored \in Disk /\ stored.rows = rows /\ stored.files = D.files
       /\ stored.chunks = chunks /\ stored.index = D.index
  <2> HIDE DEF stored, chunks, rows
  <2> QED
    BY <1>3, <1>9, <1>10, <1>11, DiskOfTyped
<1> HIDE DEF stored
<1>13. WriteIndex(stored, b) = DiskOf(rows, D.files, chunks, begun)
  <2>1. WriteIndex(stored, b) = [stored EXCEPT !.index = begun]
    BY <1>12 DEF WriteIndex, begun, Disk
  <2> HIDE DEF rows, chunks
  <2> QED
    BY <1>11, <2>1 DEF DiskOf
<1>14. SaveIndexToFile(stored, K, b) = DiskOf(rows, D.files, chunks, over)
  <2> HIDE DEF rows, chunks
  <2> QED
    BY <1>12, SavedIs DEF over
<1> DEFINE ix == IF unsaved THEN D.index ELSE over
           ended == IF d = NoDoc THEN D.rows ELSE Touched(D.rows, d, Vectorized, index)
<1>15. saved = DiskOf(rows, D.files, chunks, ix)
  BY <1>11, <1>14
<1>16. final = DiskOf(ended, D.files, chunks, ix)
  <2>1. CASE d = NoDoc
    BY <1>15, <2>1
  <2>2. CASE d # NoDoc
    <3>1. Update(DiskOf(rows, D.files, chunks, ix), d, Vectorized, index) =
             DiskOf(Touched(rows, d, Vectorized, index), D.files, chunks, ix)
      <4> HIDE DEF rows, chunks, ix, index
      <4> QED
        BY UpdateFields
    <3>2. Touched(rows, d, Vectorized, index) = Touched(D.rows, d, Vectorized, index)
      <4> HIDE DEF index
      <4> QED
        BY <1>3, TouchedTwice
    <3> QED
      BY <1>15, <2>2, <3>1, <3>2 DEF UpdateIndexAndStatus
  <2> QED
    BY <2>1, <2>2
<1>17. ended \in SUBSET RowRecord
  <2>1. Touches(Touched(D.rows, d, Vectorized, index), D.rows, d, Vectorized, index)
    <3>1. index \in 0..MaxBuilds
      BY <1>5
    <3> HIDE DEF index
    <3> QED
      BY <1>5, <3>1, TouchedIs DEF D
  <2> QED
    BY <1>3, <2>1 DEF Touches
<1>18. ix \in [Build -> IndexState] /\ \A c \in Build : c # b => ix[c] = D.index[c]
  BY <1>3, <1>6, <1>7
<1>19. fault = "none" => ix[b] = "mapped"
  BY <1>8
<1> DEFINE w == DiskOf(rows, D.files, chunks, begun)
           s == DiskOf(rows, D.files, chunks, ix)
           f == DiskOf(ended, D.files, chunks, ix)
<1>20. /\ w \in Disk /\ w.rows = rows /\ w.files = D.files /\ w.chunks = chunks /\ w.index = begun
       /\ s \in Disk /\ s.rows = rows /\ s.files = D.files /\ s.chunks = chunks /\ s.index = ix
       /\ f \in Disk /\ f.rows = ended /\ f.files = D.files /\ f.chunks = chunks /\ f.index = ix
  <2> HIDE DEF rows, chunks, ix, ended
  <2> QED
    BY <1>3, <1>6, <1>9, <1>10, <1>17, <1>18, DiskOfTyped
<1>21. written \in {stored, w} /\ saved = s /\ final = f
  BY <1>13, <1>15, <1>16
<1> HIDE DEF ix, w, s, f, written, saved, final
<1>22. CompletionLeft(stored, D, b, d, text, FALSE, fault)
  BY <1>12 DEF CompletionLeft
<1>23. CompletionLeft(w, D, b, d, text, FALSE, fault)
  BY <1>7, <1>20 DEF CompletionLeft
<1>24. CompletionLeft(s, D, b, d, text, FALSE, fault)
  BY <1>18, <1>20 DEF CompletionLeft
<1>25. CompletionLeft(f, D, b, d, text, TRUE, fault)
  BY <1>18, <1>19, <1>20 DEF CompletionLeft
<1> DEFINE steps == CompleteSteps(a, b, fault)
<1>26. /\ Len(steps) = 4 /\ steps[1] = stored /\ steps[2] = written /\ steps[3] = saved
       /\ steps[4] = final
  BY <1>1
<1> HIDE DEF steps
<1>27. CompletionLeft(steps[i], D, b, d, text, i = 4, fault)
  <2>1. CASE i = 4
    BY <1>21, <1>25, <1>26, <2>1
  <2>2. CASE i = 3
    <3>1. (i = 4) = FALSE
      BY <2>2
    <3> QED
      BY <1>21, <1>24, <1>26, <2>2, <3>1
  <2>3. CASE i = 2
    <3>1. (i = 4) = FALSE
      BY <2>3
    <3> QED
      BY <1>21, <1>22, <1>23, <1>26, <2>3, <3>1
  <2>4. CASE i = 1
    <3>1. (i = 4) = FALSE
      BY <2>4
    <3> QED
      BY <1>22, <1>26, <2>4, <3>1
  <2> QED
    BY <2>1, <2>2, <2>3, <2>4
<1> QED
  BY <1>26, <1>27 DEF D, d, text, steps

Same(q, r) == q.doc = r.doc /\ q.name = r.name

\* The completion has changed this row, of document d.
Written(q, d, b, last, index) ==
    /\ q.doc = d /\ d # NoDoc
    /\ \/ q.status = Chunked /\ ~last /\ q.index = index
       \/ q.status = Vectorized /\ last /\ q.index \in {b, NoIndex}

\* What becomes of the rows: at most the one of d is touched.
RowsCompleted(rows, D, n, d, b, last, fault) ==
    LET row == RowOf(D, d)
    IN  /\ d = NoDoc => \A r \in D.rows : r.name # n
        /\ d # NoDoc => /\ row \in D.rows /\ row.doc = d /\ row.name = n
                        /\ row.index \in 0..MaxBuilds
                        /\ \A r \in D.rows : r.doc = d => r = row
        /\ \A q \in rows : \E r \in D.rows :
                Same(q, r) /\ (q = r \/ Written(q, d, b, last, row.index))
        /\ \A r \in D.rows : r.doc # d \/ d = NoDoc => r \in rows
        /\ \A r \in D.rows : \E q \in rows : Same(q, r)
        /\ last /\ fault = "none" /\ d # NoDoc => \E q \in rows : q.doc = d /\ q.index = b
        /\ \A q, r \in rows : q.doc = r.doc => q = r

LEMMA CompletionRows ==
    ASSUME NEW D \in Disk, NEW u, RowsOk(D, u), NEW n, NEW d, d = DocumentIdByPath(D, n),
           NEW b \in Build, NEW text, NEW last \in BOOLEAN, NEW fault,
           NEW left, CompletionLeft(left, D, b, d, text, last, fault)
    PROVE  RowsCompleted(left.rows, D, n, d, b, last, fault)
<1>1. D \in Disk /\ RowsOk(D, u)
  OBVIOUS
<1>5. d # NoDoc => d \in Doc /\ IsDocument(D, d) /\ \E r \in D.rows : r.doc = d /\ r.name = n
  BY DocumentIdIs, Constants DEF IsDocument
<1>6. d = NoDoc => \A r \in D.rows : r.name # n
  BY <1>1, DocumentIdIs, Constants
<1> DEFINE row == RowOf(D, d)
<1>7. d # NoDoc => /\ row \in D.rows /\ row.doc = d /\ row.name = n /\ row.index \in 0..MaxBuilds
                   /\ \A r \in D.rows : r.doc = d => r = row
  <2> SUFFICES ASSUME d # NoDoc
               PROVE  /\ row \in D.rows /\ row.doc = d /\ row.name = n /\ row.index \in 0..MaxBuilds
                      /\ \A r \in D.rows : r.doc = d => r = row
    OBVIOUS
  <2>1. row \in D.rows /\ row.doc = d /\ \A r \in D.rows : r.doc = d => r = row
    BY <1>1, <1>5, RowOfIs
  <2> QED
    BY <1>1, <1>5, <2>1, DiskTyped, RowTyped
<1> HIDE DEF row
<1> USE DEF Same, Written
<1>8. \A q \in left.rows : \E r \in D.rows : Same(q, r) /\ (q = r \/ Written(q, d, b, last, row.index))
  <2>1. CASE left.rows = D.rows
    BY <2>1
  <2>2. CASE d # NoDoc /\ ~last /\ left.rows = Touched(D.rows, d, Chunked, row.index)
    <3>1. row.index \in 0..MaxBuilds /\ Chunked \in {Unprocessed, Chunked, Vectorized}
      BY <1>7, <2>2
    <3>2. Touches(left.rows, D.rows, d, Chunked, row.index)
      BY <2>2, <3>1, TouchedIs
    <3> QED
      BY <2>2, <3>2 DEF Touches
  <2>3. CASE d # NoDoc /\ last /\ left.rows = Touched(D.rows, d, Vectorized,
                                                IF fault = "vectors" THEN NoIndex ELSE b)
    <3> DEFINE j == IF fault = "vectors" THEN NoIndex ELSE b
    <3>1. j \in 0..MaxBuilds /\ Vectorized \in {Unprocessed, Chunked, Vectorized} /\ j \in {b, NoIndex}
      BY Constants
    <3> HIDE DEF j
    <3>2. Touches(left.rows, D.rows, d, Vectorized, j)
      BY <2>3, <3>1, TouchedIs DEF j
    <3> QED
      BY <2>3, <3>1, <3>2 DEF Touches
  <2> QED
    BY <2>1, <2>2, <2>3 DEF CompletionLeft, row
<1>9. \A r \in D.rows : r.doc # d \/ d = NoDoc => r \in left.rows
  <2>1. CASE left.rows = D.rows
    BY <2>1
  <2>2. ASSUME NEW s \in {Unprocessed, Chunked, Vectorized}, NEW j \in 0..MaxBuilds,
               left.rows = Touched(D.rows, d, s, j), d # NoDoc
        PROVE  \A r \in D.rows : r.doc # d \/ d = NoDoc => r \in left.rows
    <3>1. Touches(left.rows, D.rows, d, s, j)
      BY <2>2, TouchedIs
    <3> QED
      BY <2>2, <3>1 DEF Touches
  <2>3. (IF fault = "vectors" THEN NoIndex ELSE b) \in 0..MaxBuilds
    BY Constants
  <2> QED
    BY <1>7, <2>1, <2>2, <2>3 DEF CompletionLeft, row
<1>10. \A r \in D.rows : \E q \in left.rows : Same(q, r)
  <2>1. CASE left.rows = D.rows
    BY <2>1
  <2>2. ASSUME NEW s \in {Unprocessed, Chunked, Vectorized}, NEW j \in 0..MaxBuilds,
               left.rows = Touched(D.rows, d, s, j)
        PROVE  \A r \in D.rows : \E q \in left.rows : Same(q, r)
    <3>1. Touches(left.rows, D.rows, d, s, j)
      BY <2>2, TouchedIs
    <3> QED
      BY <2>2, <3>1 DEF Touches
  <2>3. (IF fault = "vectors" THEN NoIndex ELSE b) \in 0..MaxBuilds
    BY Constants
  <2> QED
    BY <1>7, <2>1, <2>2, <2>3 DEF CompletionLeft, row
<1>11. last /\ fault = "none" /\ d # NoDoc => \E q \in left.rows : q.doc = d /\ q.index = b
  <2> SUFFICES ASSUME last, fault = "none", d # NoDoc
               PROVE  \E q \in left.rows : q.doc = d /\ q.index = b
    OBVIOUS
  <2>1. left.rows = Touched(D.rows, d, Vectorized, b)
    BY DEF CompletionLeft
  <2>2. b \in 0..MaxBuilds /\ Vectorized \in {Unprocessed, Chunked, Vectorized}
    BY Constants
  <2>3. Touches(left.rows, D.rows, d, Vectorized, b)
    BY <2>1, <2>2, TouchedIs
  <2> QED
    BY <1>7, <2>3 DEF Touches
<1>12. \A q, r \in left.rows : q.doc = r.doc => q = r
  <2>1. CASE left.rows = D.rows
    BY <1>1, <2>1 DEF RowsOk
  <2>2. ASSUME NEW s, NEW j, left.rows = Touched(D.rows, d, s, j)
        PROVE  \A q, r \in left.rows : q.doc = r.doc => q = r
    <3>1. \A p \in D.rows : Updated(p, d, s, j).doc = p.doc
      BY <1>1, DiskTyped DEF Updated, RowRecord
    <3>2. \A p, o \in D.rows : p.doc = o.doc => p = o
      BY <1>1 DEF RowsOk
    <3> QED
      BY <2>2, <3>1, <3>2 DEF Touched
  <2> QED
    BY <2>1, <2>2 DEF CompletionLeft
<1> QED
  BY <1>6, <1>7, <1>8, <1>9, <1>10, <1>11, <1>12 DEF row, RowsCompleted

\* A build is stray when a step of it failed or it went no further, and a
\* failed one leaves its document torn.
Marked(b, d, last, fault, U, R) ==
    /\ ~last \/ fault # "none" => b \in R
    /\ last /\ fault # "none" /\ d # NoDoc => d \in U

\* A completion puts a document's vectors, chunk and index in order, or is
\* known not to have.
LEMMA CompletionDisk ==
    ASSUME NEW D, NEW a, NEW g, NEW u, NEW T, NEW U, T \subseteq U, NEW S, NEW R, S \subseteq R,
           NEW B, DiskInv(D, a, u, T, S, B, g),
           NEW b \in Build, RunOk(b, B[b], D, T, S), B[b].stage = "parsed",
           NEW C, Later(B, C), Made(C[b], a, g), C[b].doc = B[b].doc,
           NEW d, d = DocumentIdByPath(D, B[b].name),
           NEW last \in BOOLEAN, NEW fault,
           NEW left, CompletionLeft(left, D, b, d, B[b].text, last, fault),
           Marked(b, d, last, fault, U, R)
    PROVE  DiskInv(left, a, u, U, R, C, g)
<1> DEFINE n == B[b].name
           text == B[b].text
<1> USE DEF Marked
<1>1. /\ D \in Disk /\ RowsOk(D, u) /\ FilesOk(D, T) /\ MadeOk(D, B, a, g)
      /\ ChunksOk(D, T, S, B) /\ SearchableOk(D, T)
  BY DEF DiskInv
<1>2. /\ left \in Disk /\ left.files = D.files
      /\ \A c \in Build : c # b => left.index[c] = D.index[c]
      /\ last /\ fault = "none" => left.index[b] = "mapped"
      /\ D.chunks \subseteq left.chunks
      /\ \A c \in left.chunks : c \in D.chunks \/ (d # NoDoc /\ c = ChunkOf(b, d, text))
      /\ last /\ fault = "none" /\ d # NoDoc => ChunkOf(b, d, text) \in left.chunks
  BY DEF CompletionLeft
<1>3. ~Stored(D, b)
  BY <1>1 DEF MadeOk, Made
<1>4. /\ D.index[b] = "absent" /\ \A c \in D.chunks : c.build # b
      /\ \A r \in D.rows : r.index # b
  BY <1>3 DEF Stored
<1> DEFINE row == RowOf(D, d)
<1>5. last \in BOOLEAN /\ d = DocumentIdByPath(D, n)
  OBVIOUS
<1> HIDE DEF n, text
<1>6. /\ d = NoDoc => \A r \in D.rows : r.name # n
      /\ d # NoDoc => /\ row \in D.rows /\ row.doc = d /\ row.name = n
                      /\ row.index \in 0..MaxBuilds
                      /\ \A r \in D.rows : r.doc = d => r = row
      /\ \A q \in left.rows : \E r \in D.rows :
              Same(q, r) /\ (q = r \/ Written(q, d, b, last, row.index))
      /\ \A r \in D.rows : r.doc # d \/ d = NoDoc => r \in left.rows
      /\ \A r \in D.rows : \E q \in left.rows : Same(q, r)
      /\ last /\ fault = "none" /\ d # NoDoc =>
              \E q \in left.rows : q.doc = d /\ q.index = b
      /\ \A q, r \in left.rows : q.doc = r.doc => q = r
  <2>1. CompletionLeft(left, D, b, d, B[b].text, last, fault)
    OBVIOUS
  <2>2. RowsCompleted(left.rows, D, n, d, b, last, fault)
    BY <1>1, <1>5, <2>1, CompletionRows
  <2> QED
    BY <2>2 DEF RowsCompleted, row
<1>7. d # NoDoc => /\ row \in D.rows /\ row.doc = d /\ row.name = n /\ row.index \in 0..MaxBuilds
                   /\ \A r \in D.rows : r.doc = d => r = row
  BY <1>6
<1> HIDE DEF row
<1> DEFINE Wrote(q) == Written(q, d, b, last, row.index)
<1>8. \A q \in left.rows : \E r \in D.rows : Same(q, r) /\ (q = r \/ Wrote(q))
  BY <1>6
<1>9. \A r \in D.rows : r.doc # d \/ d = NoDoc => r \in left.rows
  BY <1>6
<1>10. \A r \in D.rows : \E q \in left.rows : Same(q, r)
  BY <1>6
<1>11. last /\ fault = "none" /\ d # NoDoc => \E q \in left.rows : q.doc = d /\ q.index = b
  BY <1>6
<1>12. \A q, r \in left.rows : q.doc = r.doc => q = r
  BY <1>6
<1> USE DEF Same, Written
\* Every row is of a document, and no two are of one index.
<1>13. RowsOk(left, u)
  <2>1. ASSUME NEW q \in left.rows
        PROVE  q.doc <= u /\ (q.status = Unprocessed => q.index = NoIndex)
    <3>1. PICK r \in D.rows : Same(q, r) /\ (q = r \/ Wrote(q))
      BY <1>8
    <3>2. r.doc <= u /\ (r.status = Unprocessed => r.index = NoIndex)
      BY <1>1 DEF RowsOk
    <3> QED
      BY <3>1, <3>2, Constants
  <2>2. ASSUME NEW p \in left.rows, NEW q \in left.rows, p.index = q.index, p.index # NoIndex
        PROVE  p = q
    <3>1. PICK r \in D.rows : Same(p, r) /\ (p = r \/ Wrote(p))
      BY <1>8
    <3>2. PICK s \in D.rows : Same(q, s) /\ (q = s \/ Wrote(q))
      BY <1>8
    <3>3. r.index = s.index /\ r.index # NoIndex => r = s
      BY <1>1 DEF RowsOk
    <3>4. CASE p = r /\ q = s
      BY <2>2, <3>3, <3>4
    <3>5. CASE Wrote(p) /\ Wrote(q)
      BY <1>12, <3>5
    <3>6. CASE p = r /\ Wrote(q)
      <4>1. q.index = row.index
        BY <1>4, <2>2, <3>6
      <4>2. p = row
        BY <1>1, <1>7, <2>2, <3>6, <4>1 DEF RowsOk
      <4> QED
        BY <1>7, <1>12, <3>6, <4>2
    <3>7. CASE Wrote(p) /\ q = s
      <4>1. p.index = row.index
        BY <1>4, <2>2, <3>7
      <4>2. q = row
        BY <1>1, <1>7, <2>2, <3>7, <4>1 DEF RowsOk
      <4> QED
        BY <1>7, <1>12, <3>7, <4>2
    <3> QED
      BY <3>1, <3>2, <3>4, <3>5, <3>6, <3>7
  <2> QED
    BY <1>12, <2>1, <2>2 DEF RowsOk
<1>14. FilesOk(left, U)
  <2>1. ASSUME NEW q \in left.rows, q.doc \notin U PROVE left.files[q.name] = q.doc
    BY <1>1, <1>2, <1>8, <2>1 DEF FilesOk
  <2>2. ASSUME NEW p \in left.rows, NEW q \in left.rows, p.name = q.name, p # q PROVE p.doc \in U
    <3>1. p.doc # q.doc
      BY <1>12, <2>2
    <3> QED
      BY <1>1, <1>8, <2>2, <3>1 DEF FilesOk
  <2> QED
    BY <2>1, <2>2 DEF FilesOk
<1>15. MadeOk(left, C, a, g)
  <2>1. ASSUME NEW c \in Build, Stored(left, c), c # b PROVE Made(C[c], a, g)
    <3>1. Stored(D, c)
      <4>1. CASE left.index[c] # "absent"
        BY <1>2, <2>1, <4>1 DEF Stored
      <4>2. CASE \E k \in left.chunks : k.build = c
        BY <1>2, <2>1, <4>2 DEF Stored, ChunkOf
      <4>3. CASE \E r \in left.rows : r.index = c
        <5>1. PICK q \in left.rows : q.index = c
          BY <4>3
        <5>2. PICK r \in D.rows : Same(q, r) /\ (q = r \/ Wrote(q))
          BY <1>8
        <5>3. c # NoIndex
          BY Constants
        <5>4. q = r \/ (q.index = row.index /\ row \in D.rows)
          <6>1. Wrote(q) => d # NoDoc /\ (q.index = row.index \/ q.index \in {b, NoIndex})
            OBVIOUS
          <6>2. CASE q = r
            BY <6>2
          <6>3. CASE Wrote(q)
            BY <1>7, <2>1, <5>1, <5>3, <6>1, <6>3
          <6> QED
            BY <5>2, <6>2, <6>3
        <5> QED
          BY <5>1, <5>4 DEF Stored
      <4> QED
        BY <2>1, <4>1, <4>2, <4>3 DEF Stored
    <3>2. Made(B[c], a, g)
      BY <1>1, <3>1 DEF MadeOk
    <3> QED
      BY <3>2, MadeLater DEF Later
  <2> QED
    BY <2>1 DEF MadeOk
\* The document of the build, found again by its name, is the one it was
\* begun for, and its text the one that was read.
<1>16. b \notin R => /\ d # NoDoc /\ (text # d => d \in T) /\ B[b].doc \in {d} \cup T
  <2> SUFFICES ASSUME b \notin R PROVE d # NoDoc /\ (text # d => d \in T) /\ B[b].doc \in {d} \cup T
    OBVIOUS
  <2>1. b \notin S
    OBVIOUS
  <2>2. PICK r \in D.rows : r.doc = B[b].doc /\ r.name = n
    BY <2>1 DEF RunOk, n
  <2>3. d # NoDoc
    BY <1>6, <2>2
  <2>4. D.files[n] = text
    BY <2>1 DEF RunOk, n, text
  <2>5. d \notin T => D.files[n] = d
    BY <1>1, <1>7, <2>3 DEF FilesOk
  <2>6. r = row \/ r.doc \in T
    BY <1>1, <1>7, <2>2, <2>3 DEF FilesOk
  <2> QED
    BY <1>7, <2>2, <2>3, <2>4, <2>5, <2>6
<1>17. ASSUME NEW c \in left.chunks PROVE ChunkOk(c, left, U, R, C)
  <2>1. CASE c = ChunkOf(b, d, text) /\ d # NoDoc
    <3>1. c.build = b /\ c.doc = d /\ c.text = text
      BY <2>1 DEF ChunkOf
    <3>2. \E q \in left.rows : q.doc = d
      BY <1>7, <1>10, <2>1
    <3>3. b \notin R => \E q \in left.rows : q.doc = d /\ q.index = b
      BY <1>11, <2>1
    <3> QED
      BY <1>16, <3>1, <3>2, <3>3 DEF ChunkOk
  <2>2. CASE c \in D.chunks
    <3>1. ChunkOk(c, D, T, S, B) /\ c.build \in Build
      BY <1>1, <2>2, DiskTyped, ChunkTyped DEF ChunksOk
    <3>2. Made(B[c.build], a, g)
      BY <1>1, <2>2, <3>1 DEF MadeOk, Stored
    <3>3. C[c.build].doc = B[c.build].doc
      BY <3>1, <3>2, MadeLater DEF Later
    <3>4. \E q \in left.rows : q.doc = c.doc
      BY <1>10, <3>1 DEF ChunkOk
    <3>5. c.build \in R \/ B[c.build].doc \in U \/ \E q \in left.rows : q.doc = c.doc /\ q.index = c.build
      <4>1. CASE c.build \in S \/ B[c.build].doc \in T
        BY <4>1
      <4>2. CASE c.build \notin S /\ B[c.build].doc \notin T
        <5>1. PICK r \in D.rows : r.doc = c.doc /\ r.index = c.build
          BY <3>1, <4>2 DEF ChunkOk
        <5>2. CASE r.doc # d \/ d = NoDoc
          BY <1>9, <5>1, <5>2
        <5>3. CASE r.doc = d /\ d # NoDoc
          <6>1. r.name = n
            BY <1>7, <5>3
          <6>2. r.index \in S \/ r.doc \in T
            BY <3>1, <5>1, <6>1, Constants DEF RunOk, n
          <6> QED
            BY <3>1, <4>2, <5>1, <6>2 DEF ChunkOk
        <5> QED
          BY <5>2, <5>3
      <4> QED
        BY <4>1, <4>2
    <3> QED
      BY <3>1, <3>3, <3>4, <3>5 DEF ChunkOk
  <2> QED
    BY <1>2, <2>1, <2>2
<1>18. SearchableOk(left, U)
  <2> SUFFICES ASSUME NEW q \in left.rows, q.status = Vectorized, q.doc \notin U
               PROVE  /\ q.index # NoIndex /\ left.index[q.index] = "mapped"
                      /\ \E c \in left.chunks : c.doc = q.doc /\ c.build = q.index
    BY DEF SearchableOk
  <2>1. PICK r \in D.rows : Same(q, r) /\ (q = r \/ Wrote(q))
    BY <1>8
  <2>2. CASE q = r
    <3>1. /\ q.index # NoIndex /\ D.index[q.index] = "mapped"
          /\ \E c \in D.chunks : c.doc = q.doc /\ c.build = q.index
      BY <1>1, <2>2 DEF SearchableOk
    <3>2. q.index \in Build /\ q.index # b
      BY <1>1, <1>4, <2>2, <3>1, DiskTyped, RowTyped
    <3> QED
      BY <1>2, <3>1, <3>2
  <2>3. CASE Wrote(q)
    <3>1. last /\ d # NoDoc /\ q.doc = d
      BY <2>3, Constants
    <3>2. fault = "none"
      BY <3>1
    <3>3. q.index = b
      BY <1>11, <1>12, <3>1, <3>2
    <3>4. ChunkOf(b, d, text).doc = d /\ ChunkOf(b, d, text).build = b
      BY DEF ChunkOf
    <3> QED
      BY <1>2, <3>1, <3>2, <3>3, <3>4, Constants
  <2> QED
    BY <2>1, <2>2, <2>3
<1> QED
  BY <1>2, <1>13, <1>14, <1>15, <1>17, <1>18 DEF DiskInv, ChunksOk

\* An index beside the completed one has its chunk and its build.
StillAccounted(c, left, D, K, a, g, U, R, B, C) ==
    /\ left.index[c] = D.index[c]
    /\ left.index[c] # "absent" \/ K.entry[c] # "none" =>
         Made(C[c], a, g) /\ C[c].doc = B[c].doc /\ C[c].life = B[c].life
    /\ c \in K.held \/ left.index[c] = "mapped" => Accounted(c, left, U, R, C)

LEMMA CompletionAccounted ==
    ASSUME NEW D, NEW K, NEW a, NEW g, NEW T, NEW U, T \subseteq U, NEW S, NEW R, S \subseteq R,
           NEW B, NEW C, Later(B, C), NEW life, MadeOk(D, B, a, g),
           CacheInv(D, K, a, T, S, B, g, life),
           NEW b \in Build, NEW d, NEW text, NEW last \in BOOLEAN, NEW fault,
           NEW left, CompletionLeft(left, D, b, d, text, last, fault),
           NEW c \in Build, c # b
    PROVE  StillAccounted(c, left, D, K, a, g, U, R, B, C)
<1>1. left.index[c] = D.index[c] /\ D.chunks \subseteq left.chunks
  BY DEF CompletionLeft
<1>2. ASSUME D.index[c] # "absent" \/ K.entry[c] # "none"
      PROVE  Made(C[c], a, g) /\ C[c].doc = B[c].doc /\ C[c].life = B[c].life
  <2>1. Made(B[c], a, g)
    BY <1>2 DEF MadeOk, Stored, CacheInv
  <2> QED
    BY <2>1, MadeLater DEF Later
<1>3. ASSUME c \in K.held \/ D.index[c] = "mapped" PROVE Accounted(c, left, U, R, C)
  <2>1. Accounted(c, D, T, S, B)
    BY <1>3 DEF CacheInv, VectorOk
  <2>2. D.index[c] # "absent" \/ K.entry[c] # "none"
    BY <1>3 DEF CacheInv
  <2> QED
    BY <1>1, <1>2, <2>1, <2>2 DEF Accounted
<1> QED
  BY <1>1, <1>2, <1>3 DEF StillAccounted

\* What a completion makes of the cache.
CacheCompleted(L, K, b, fault) ==
    /\ L \in Cache /\ L.entry[b] = "built"
    /\ \A c \in Build : c # b => L.entry[c] = K.entry[c]
    /\ L.held = IF fault = "vectors" THEN K.held ELSE K.held \cup {b}

LEMMA CompletionVectors ==
    ASSUME NEW D, NEW K, NEW a, NEW g, NEW T, NEW U, T \subseteq U, NEW S, NEW R, S \subseteq R,
           NEW B, NEW C, Later(B, C), NEW life, MadeOk(D, B, a, g),
           CacheInv(D, K, a, T, S, B, g, life),
           NEW b \in Build, NEW d, NEW text, NEW last \in BOOLEAN, NEW fault,
           NEW left, CompletionLeft(left, D, b, d, text, last, fault),
           Made(C[b], a, g), fault # "none" \/ d = NoDoc => b \in R,
           NEW L, CacheCompleted(L, K, b, fault)
    PROVE  CacheInv(left, L, a, U, R, C, g, life)
<1> USE DEF CacheCompleted
<1>1. ASSUME NEW c \in Build, c # b
      PROVE  /\ left.index[c] = D.index[c]
             /\ left.index[c] # "absent" \/ K.entry[c] # "none" =>
                  Made(C[c], a, g) /\ C[c].doc = B[c].doc /\ C[c].life = B[c].life
             /\ c \in K.held \/ left.index[c] = "mapped" => Accounted(c, left, U, R, C)
  <2>1. StillAccounted(c, left, D, K, a, g, U, R, B, C)
    BY <1>1, CompletionAccounted
  <2> QED
    BY <2>1 DEF StillAccounted
<1>2. Accounted(b, left, U, R, C)
  <2>1. CASE b \in R
    BY <2>1 DEF Accounted
  <2>2. CASE fault = "none" /\ d # NoDoc
    <3>1. ChunkOf(b, d, text) \in left.chunks
      BY <2>2 DEF CompletionLeft
    <3> QED
      BY <3>1 DEF Accounted, ChunkOf
  <2> QED
    BY <2>1, <2>2
<1>3. b \in L.held \/ b \in R
  OBVIOUS
<1>4. ASSUME NEW c \in Build PROVE VectorOk(c, left, L, U, R, C)
  <2>1. CASE c = b
    BY <1>2, <1>3, <2>1 DEF VectorOk
  <2>2. CASE c # b
    <3>1. VectorOk(c, D, K, T, S, B)
      BY DEF CacheInv
    <3>2. (c \in L.held <=> c \in K.held) /\ L.entry[c] = K.entry[c]
      BY <2>2
    <3> QED
      BY <1>1, <2>2, <3>1, <3>2 DEF VectorOk
  <2> QED
    BY <2>1, <2>2
<1>5. ASSUME NEW c \in Build PROVE LifeOk(c, left, L, C, life)
  <2>1. CASE c = b
    BY <2>1 DEF LifeOk
  <2>2. CASE c # b
    <3>1. LifeOk(c, D, K, B, life)
      BY DEF CacheInv
    <3>2. L.entry[c] = K.entry[c]
      BY <2>2
    <3> QED
      BY <1>1, <2>2, <3>1, <3>2 DEF LifeOk
  <2> QED
    BY <2>1, <2>2
<1>6. \A c \in L.held : L.entry[c] # "none"
  <2>1. \A c \in K.held : c \in Build /\ K.entry[c] # "none"
    BY CacheTyped DEF CacheInv
  <2> QED
    BY <2>1
<1>7. \A c \in Build : L.entry[c] # "none" => Made(C[c], a, g)
  BY <1>1
<1> QED
  BY <1>4, <1>5, <1>6, <1>7 DEF CacheInv

\* A build beside the completed one, which is one of its name only when both
\* are stray.
LEMMA CompletionRun ==
    ASSUME NEW D \in Disk, NEW u, RowsOk(D, u), NEW n, NEW d, d = DocumentIdByPath(D, n),
           NEW b \in Build, NEW text, NEW last \in BOOLEAN, NEW fault,
           NEW left, CompletionLeft(left, D, b, d, text, last, fault),
           NEW T, NEW U, T \subseteq U, NEW S, NEW R, S \subseteq R,
           NEW c, NEW build, RunOk(c, build, D, T, S),
           build.name = n => b \in S /\ c \in S
    PROVE  RunOk(c, build, left, U, R)
<1> DEFINE row == RowOf(D, d)
<1>1. /\ d # NoDoc => /\ row \in D.rows /\ row.doc = d /\ row.name = n
                      /\ row.index \in 0..MaxBuilds
                      /\ \A r \in D.rows : r.doc = d => r = row
      /\ \A q \in left.rows : \E r \in D.rows :
              Same(q, r) /\ (q = r \/ Written(q, d, b, last, row.index))
      /\ \A r \in D.rows : r.doc # d \/ d = NoDoc => r \in left.rows
  <2>1. RowsCompleted(left.rows, D, n, d, b, last, fault)
    BY CompletionRows
  <2> QED
    BY <2>1 DEF RowsCompleted
<1>2. left.files = D.files
  BY DEF CompletionLeft
<1> HIDE DEF row
<1>3. build.stage = "parsed" => build.text \in Doc /\ (c \notin R => left.files[build.name] = build.text)
  BY <1>2 DEF RunOk
<1>4. c \notin R => \E r \in left.rows : /\ r.doc = build.doc /\ r.name = build.name
                                         /\ r.status = Unprocessed
  <2> SUFFICES ASSUME c \notin R
               PROVE  \E r \in left.rows : /\ r.doc = build.doc /\ r.name = build.name
                                           /\ r.status = Unprocessed
    OBVIOUS
  <2>1. PICK r \in D.rows : r.doc = build.doc /\ r.name = build.name /\ r.status = Unprocessed
    BY DEF RunOk
  <2>2. r.doc # d \/ d = NoDoc
    BY <1>1, <2>1
  <2> QED
    BY <1>1, <2>1, <2>2
<1>5. ASSUME NEW q \in left.rows, q.name = build.name, q.index # NoIndex
      PROVE  q.index \in R \/ q.doc \in U
  <2>1. PICK r \in D.rows : Same(q, r) /\ (q = r \/ Written(q, d, b, last, row.index))
    BY <1>1
  <2>2. CASE q = r
    BY <1>5, <2>2 DEF RunOk
  <2>3. CASE Written(q, d, b, last, row.index)
    <3>1. d # NoDoc /\ build.name = n /\ r = row
      <4>1. d # NoDoc /\ q.doc = d /\ q.doc = r.doc /\ q.name = r.name
        BY <2>1, <2>3 DEF Written, Same
      <4> QED
        BY <1>1, <1>5, <4>1
    <3>2. CASE q.index = row.index
      BY <1>1, <1>5, <2>3, <3>1, <3>2 DEF RunOk, Written
    <3>3. CASE q.index \in {b, NoIndex}
      BY <1>5, <3>1, <3>3
    <3> QED
      BY <2>3, <3>2, <3>3 DEF Written
  <2> QED
    BY <2>1, <2>2, <2>3
<1> QED
  BY <1>3, <1>4, <1>5 DEF RunOk

-----------------------------------------------------------------------------
(* What a step leaves alone                                                *)

LEMMA BuildTyped ==
    ASSUME NEW build \in BuildRecord
    PROVE  /\ build.stage \in {"unused", "parsing", "parsed", "ended"}
           /\ build.app \in App \cup {NoApp} /\ build.doc \in Doc \cup {NoDoc}
           /\ build.name \in Name /\ build.text \in Doc \cup {NoDoc}
           /\ build.generation \in 0..MaxDestroys /\ build.life \in 0..MaxRestarts
BY DEF BuildRecord

LEMMA Bounds ==
    /\ MaxDestroys \in Nat /\ MaxRestarts \in Nat /\ MaxDocs \in Nat
    /\ 0..MaxRestarts \subseteq Int /\ 0..MaxDocs \subseteq Int
BY StoreAssumption, SessionsAssumption DEF StoreAssumption, SessionsAssumption

LEMMA UnusedTyped == Unused \in BuildRecord
<1>1. (CHOOSE x \in Base : TRUE) \in Base
  BY StoreAssumption DEF StoreAssumption
<1>2. <<CHOOSE x \in Base : TRUE, 0>> \in Name
  BY <1>1, Bounds DEF Name
<1> QED
  BY <1>2, Bounds DEF Unused, BuildRecord

LEMMA OverIs ==
    ASSUME NEW build \in BuildRecord
    PROVE  LET then == Over(build)
           IN  /\ then \in BuildRecord /\ then.stage = "ended"
               /\ then.app = build.app /\ then.doc = build.doc
               /\ then.generation = build.generation /\ then.life = build.life
<1>1. Unused.name \in Name
  BY UnusedTyped, BuildTyped
<1> QED
  BY <1>1 DEF Over, BuildRecord

LEMMA EmptyTyped ==
    /\ EmptyDisk \in Disk /\ EmptyDisk.rows = {} /\ EmptyDisk.chunks = {}
    /\ \A b \in Build : EmptyDisk.index[b] = "absent"
    /\ EmptyCache \in Cache /\ EmptyCache.held = {}
    /\ \A b \in Build : EmptyCache.entry[b] = "none"
BY Constants DEF EmptyDisk, Disk, IndexState, EmptyCache, Cache

\* An application's store beside one that a step is about.
LEMMA AppKept ==
    ASSUME VInv, NEW a \in App,
           disk'[a] = disk[a], cache'[a] = cache[a], generation'[a] = generation[a],
           Later(builds, builds'), torn \subseteq torn', stray \subseteq stray',
           uploaded' \in Int, uploaded <= uploaded', restarts' = restarts
    PROVE  AppInv(a)'
<1>1. /\ DiskInv(disk[a], a, uploaded, torn, stray, builds, generation[a])
      /\ CacheInv(disk[a], cache[a], a, torn, stray, builds, generation[a], restarts)
      /\ MadeOk(disk[a], builds, a, generation[a])
  BY DEF VInv, AppInv, DiskInv
<1>2. /\ uploaded \in Int /\ restarts \in Int /\ \A b \in Build : builds[b].life \in Int
  BY Bounds, BuildTyped DEF VInv, Typed
<1>3. DiskInv(disk[a], a, uploaded', torn', stray', builds', generation[a])
  BY <1>1, <1>2, DiskLater
<1>4. CacheInv(disk[a], cache[a], a, torn', stray', builds', generation[a], restarts)
  BY <1>1, <1>2, CacheLater
<1> QED
  BY <1>3, <1>4 DEF AppInv

\* A build that a step does not touch, when its application's disk still
\* has what it needs.
LEMMA BuildKept ==
    ASSUME VInv, NEW b \in Build, builds'[b] = builds[b],
           generation'[builds[b].app] = generation[builds[b].app], restarts' = restarts,
           stray \subseteq stray',
           UnderWay(builds[b]) => RunOk(b, builds[b], disk'[builds[b].app], torn', stray'),
           \A c \in Build \ {b} :
               Meet(builds[b], builds'[c]) => Meet(builds[b], builds[c]) \/ b \in stray'
    PROVE  BuildOk(b)'
BY DEF VInv, BuildOk

\* A step about the store of one application.
LEMMA StoreStep ==
    ASSUME VInv, Typed', process' # "hung", ghosts' = ghosts, restarts' = restarts,
           uploaded <= uploaded', Later(builds, builds'),
           torn \subseteq torn', stray \subseteq stray', NEW a \in App,
           \A c \in App : c # a => /\ disk'[c] = disk[c] /\ cache'[c] = cache[c]
                                   /\ generation'[c] = generation[c],
           AppInv(a)', \A b \in Build : BuildOk(b)'
    PROVE  VInv'
<1>1. ASSUME NEW c \in App PROVE AppInv(c)'
  <2>1. uploaded' \in Int
    BY Bounds DEF Typed
  <2> QED
    BY <2>1, AppKept
<1>2. GhostsOk'
  <2>1. ghosts \subseteq Build /\ GhostsOk
    BY DEF VInv, Typed
  <2> QED
    BY <2>1 DEF GhostsOk, Later, LaterBuild
<1>3. HangsOnlyOnReload'
  BY DEF HangsOnlyOnReload
<1> QED
  BY <1>1, <1>2, <1>3 DEF VInv

LEMMA LaterSame == Later(builds, builds)
BY DEF Later, LaterBuild

LEMMA LaterOne ==
    ASSUME Typed, NEW b \in Build, NEW then, builds' = [builds EXCEPT ![b] = then],
           LaterBuild(builds[b], then)
    PROVE  Later(builds, builds') /\ builds'[b] = then
           /\ \A c \in Build : c # b => builds'[c] = builds[c]
<1>1. DOMAIN builds = Build
  BY DEF Typed
<1> QED
  BY <1>1 DEF Later, LaterBuild

LEMMA Opened ==
    ASSUME Typed, NEW a \in App
    PROVE  /\ OpenSession(a) => session' \subseteq App /\ connection' \in App \cup {NoApp}
           /\ LoadProjects(a) \subseteq project
BY DEF Typed, OpenSession, LoadProjects

-----------------------------------------------------------------------------
(* Steps that leave the stores alone                                       *)

LEMMA QuietKeeps ==
    ASSUME VInv, Typed',
           UNCHANGED <<generation, disk, cache, uploaded, builds, ghosts, restarts, torn, stray>>,
           process' = "hung" => process = "hung"
    PROVE  VInv'
<1> USE DEF VInv
<1>1. GhostsOk'
  BY DEF GhostsOk
<1>2. HangsOnlyOnReload'
  BY DEF HangsOnlyOnReload
<1>3. ASSUME NEW a \in App PROVE AppInv(a)'
  BY DEF AppInv
<1>4. ASSUME NEW b \in Build PROVE BuildOk(b)'
  BY DEF BuildOk
<1> QED
  BY <1>1, <1>2, <1>3, <1>4

LEMMA InfoKeeps ==
    ASSUME VInv, NEW a \in App, DocumentsInfo(a)
    PROVE  VInv'
<1>1. Typed'
  BY Opened DEF DocumentsInfo, VInv, Typed, counters, history
<1> QED
  BY <1>1, QuietKeeps DEF DocumentsInfo, counters, history

LEMMA StartSearchKeeps ==
    ASSUME VInv, NEW a \in App, StartSearch(a)
    PROVE  VInv'
<1>1. searches' \in Seq([app : App, generation : 0..MaxDestroys])
  <2>1. [app |-> a, generation |-> generation[a]] \in [app : App, generation : 0..MaxDestroys]
    BY DEF VInv, Typed
  <2> QED
    BY <2>1 DEF StartSearch, VInv, Typed
<1>2. Typed'
  BY <1>1, Opened DEF StartSearch, VInv, Typed, counters, history
<1> QED
  BY <1>2, QuietKeeps DEF StartSearch, counters, history

\* A removal and a search lock themselves out over indexes of earlier lives.
LEMMA HungKeeps ==
    ASSUME VInv, Typed', NEW a \in App, NEW wanted \in SUBSET Build,
           Deadlocks(disk[a], cache[a], wanted),
           UNCHANGED <<generation, disk, cache, uploaded, builds, ghosts, restarts, torn, stray>>
    PROVE  VInv'
<1> USE DEF VInv
<1>1. GhostsOk'
  BY DEF GhostsOk
<1>2. HangsOnlyOnReload'
  <2>1. CacheInv(disk[a], cache[a], a, torn, stray, builds, generation[a], restarts)
    BY DEF AppInv
  <2>2. Cardinality({b \in Build : disk[a].index[b] # "absent" /\ builds[b].life < restarts})
            > CacheLimit
    BY <2>1, DeadlockOnReload
  <2> QED
    BY <2>2 DEF HangsOnlyOnReload
<1>3. ASSUME NEW c \in App PROVE AppInv(c)'
  BY DEF AppInv
<1>4. ASSUME NEW b \in Build PROVE BuildOk(b)'
  BY DEF BuildOk
<1> QED
  BY <1>1, <1>2, <1>3, <1>4

LEMMA HangInDeleteKeeps ==
    ASSUME VInv, NEW a \in App, NEW d \in Doc, HangInDelete(a, d)
    PROVE  VInv'
<1>1. Typed'
  BY Opened DEF HangInDelete, VInv, Typed, counters, history
<1>2. {RowOf(disk[a], d).index} \in SUBSET Build
  <2>1. disk[a] \in Disk /\ RowsOk(disk[a], uploaded)
    BY DEF VInv, AppInv, DiskInv
  <2>2. RowOf(disk[a], d) \in RowRecord
    BY <2>1, RowOfIs, DiskTyped DEF HangInDelete, HasDocument
  <2> QED
    BY <2>2, RowTyped DEF HangInDelete, LosesVectors
<1>3. Deadlocks(disk[a], cache[a], {RowOf(disk[a], d).index})
  BY DEF HangInDelete
<1>4. UNCHANGED <<generation, disk, cache, uploaded, builds, ghosts, restarts, torn, stray>>
  BY DEF HangInDelete, counters, history
<1> DEFINE wanted == {RowOf(disk[a], d).index}
<1> HIDE DEF wanted
<1>5. wanted \in SUBSET Build /\ Deadlocks(disk[a], cache[a], wanted)
  BY <1>2, <1>3 DEF wanted
<1> QED
  BY <1>1, <1>4, <1>5, HungKeeps

LEMMA LastSearch ==
    ASSUME Typed, searches # <<>>
    PROVE  /\ Last(searches).app \in App
           /\ Front(searches) \in Seq([app : App, generation : 0..MaxDestroys])
<1> DEFINE Search == [app : App, generation : 0..MaxDestroys]
<1>1. searches \in Seq(Search)
  BY DEF Typed
<1>2. Last(searches) \in Search /\ Front(searches) \in Seq(Search)
  <2> HIDE DEF Search
  <2> QED
    BY <1>1 DEF Last, Front
<1> QED
  BY <1>2

LEMMA FinishSearchFreedKeeps ==
    ASSUME VInv, FinishSearchFreed
    PROVE  VInv'
<1>1. Typed'
  BY LastSearch DEF FinishSearchFreed, VInv, Typed, opened, counters, history
<1> QED
  BY <1>1, QuietKeeps DEF FinishSearchFreed, opened, counters, history

\* A search finds no vector whose chunk is gone, but those of stray builds
\* and torn documents.
LEMMA FoundIs ==
    ASSUME NEW D, NEW K, NEW a, NEW g, NEW T, NEW S, NEW B, NEW life,
           MadeOk(D, B, a, g), CacheInv(D, K, a, T, S, B, g, life),
           NEW b \in Found(D, K)
    PROVE  /\ b \in Build /\ B[b].stage = "ended"
           /\ (\E c \in D.chunks : c.build = b) \/ b \in S \/ B[b].doc \in T
<1> DEFINE N == Load(D, K, AllIndexIds(D))
<1>1. AllIndexIds(D) \in SUBSET Build
  BY DEF AllIndexIds
<1>2. CacheInv(D, N, a, T, S, B, g, life)
  BY <1>1, LoadKeeps
<1>3. b \in AllIndexIds(D) /\ b \in N.held
  BY DEF Found, SearchInIndex
<1> HIDE DEF N
<1>4. b \in Build /\ Accounted(b, D, T, S, B)
  BY <1>1, <1>2, <1>3 DEF CacheInv, VectorOk
<1>5. B[b].stage = "ended"
  BY <1>3, <1>4 DEF AllIndexIds, MadeOk, Stored, Made
<1> QED
  BY <1>4, <1>5 DEF Accounted

LEMMA FinishSearchKeeps ==
    ASSUME VInv, FinishSearch
    PROVE  VInv'
<1>0. PICK a \in App : a = Last(searches).app
  BY LastSearch DEF FinishSearch, VInv
<1> DEFINE D == disk[a]
           K == cache[a]
           found == Found(D, K)
<1>1. a \in App /\ Front(searches) \in Seq([app : App, generation : 0..MaxDestroys])
  BY LastSearch DEF FinishSearch, VInv
<1>2. /\ searches' = Front(searches)
      /\ UNCHANGED <<session, connection, known, project, generation, disk, uploaded, builds,
                     announced, faults, restarts, torn, stray>>
  BY DEF FinishSearch, opened, counters, history
<1>3. AllIndexIds(D) \in SUBSET Build
  BY DEF AllIndexIds
<1>4. /\ MadeOk(D, builds, a, generation[a])
      /\ CacheInv(D, K, a, torn, stray, builds, generation[a], restarts)
  BY <1>1 DEF VInv, AppInv, DiskInv
<1> HIDE DEF D, K, found
<1>5. CASE Deadlocks(D, K, AllIndexIds(D))
  <2>1. process' = "hung" /\ cache' = cache /\ ghosts' = ghosts
    BY <1>0, <1>5 DEF FinishSearch, D, K
  <2>2. Typed'
    BY <1>1, <1>2, <2>1 DEF VInv, Typed
  <2> QED
    BY <1>1, <1>2, <1>3, <1>5, <2>1, <2>2, HungKeeps DEF D, K
<1>6. CASE ~Deadlocks(D, K, AllIndexIds(D))
  <2>1. /\ cache' = [cache EXCEPT ![a] = Load(D, K, AllIndexIds(D))]
        /\ ghosts' = ghosts \cup {b \in found : ~\E c \in D.chunks : c.build = b}
        /\ process' = "running"
    BY <1>0, <1>6 DEF FinishSearch, Running, D, K, found
  <2>2. ASSUME NEW b \in ghosts'
        PROVE  /\ b \in Build /\ builds[b].stage # "unused"
               /\ b \in stray \/ builds[b].doc \in torn
    <3>1. CASE b \in ghosts
      BY <3>1 DEF VInv, Typed, GhostsOk
    <3>2. CASE b \in found /\ ~\E c \in D.chunks : c.build = b
      BY <1>4, <3>2, FoundIs DEF found
    <3> QED
      BY <2>1, <3>1, <3>2
  <2>3. DOMAIN cache = App
    BY DEF VInv, Typed
  <2>4. Typed'
    BY <1>1, <1>2, <2>1, <2>2 DEF VInv, Typed
  <2>5. GhostsOk'
    BY <1>2, <2>2 DEF GhostsOk
  <2>6. HangsOnlyOnReload'
    BY <2>1 DEF HangsOnlyOnReload
  <2>7. AppInv(a)'
    <3>1. cache'[a] = Load(D, K, AllIndexIds(D))
      BY <1>1, <2>1, <2>3
    <3>2. CacheInv(D, cache'[a], a, torn, stray, builds, generation[a], restarts)
      BY <1>3, <1>4, <3>1, LoadKeeps
    <3>3. DiskInv(disk[a], a, uploaded, torn, stray, builds, generation[a])
      BY <1>1 DEF VInv, AppInv
    <3> QED
      BY <1>2, <3>2, <3>3 DEF AppInv, D
  <2>8. ASSUME NEW c \in App PROVE AppInv(c)'
    <3>1. CASE c = a
      BY <2>7, <3>1
    <3>2. CASE c # a
      <4>1. cache'[c] = cache[c]
        BY <2>1, <2>3, <3>2
      <4>2. AppInv(c)
        BY DEF VInv
      <4> QED
        BY <1>2, <4>1, <4>2 DEF AppInv
    <3> QED
      BY <3>1, <3>2
  <2>9. ASSUME NEW b \in Build PROVE BuildOk(b)'
    BY <1>2 DEF VInv, BuildOk
  <2> QED
    BY <2>4, <2>5, <2>6, <2>8, <2>9 DEF VInv
<1> QED
  BY <1>5, <1>6

-----------------------------------------------------------------------------
(* The end of the process                                                  *)

\* A cache that starts anew, over a disk whose vectors all have chunks.
LEMMA EmptyCacheOk ==
    ASSUME NEW D, NEW a, NEW g, NEW T, NEW S, NEW B, NEW life,
           \A b \in Build : D.index[b] # "absent" => B[b].life < life,
           \A b \in Build : D.index[b] = "mapped" => Accounted(b, D, T, S, B)
    PROVE  CacheInv(D, EmptyCache, a, T, S, B, g, life)
<1>1. \A b \in Build : VectorOk(b, D, EmptyCache, T, S, B) /\ LifeOk(b, D, EmptyCache, B, life)
  BY EmptyTyped DEF VectorOk, LifeOk
<1> QED
  BY <1>1, EmptyTyped DEF CacheInv

LEMMA CrashedBuilds ==
    ASSUME Typed, NEW a, NEW left, Crash(a, left)
    PROVE  /\ Later(builds, builds') /\ builds' \in [Build -> BuildRecord]
           /\ \A b \in Build :
                /\ builds'[b].stage \in {"unused", "ended"}
                /\ builds'[b].stage = "unused" <=> builds[b].stage = "unused"
                /\ builds'[b].app = builds[b].app /\ builds'[b].doc = builds[b].doc
                /\ builds'[b].generation = builds[b].generation
                /\ builds'[b].life = builds[b].life
<1>1. \A b \in Build : builds'[b] = IF builds[b].stage = "unused" THEN builds[b] ELSE Over(builds[b])
  BY DEF Crash
<1>2. \A b \in Build : builds[b] \in BuildRecord
  BY DEF Typed
<1>3. DOMAIN builds' = Build /\ \E f : builds' = [b \in Build |-> f[b]]
  <2>1. builds' = [b \in Build |-> builds'[b]]
    BY DEF Crash
  <2> QED
    BY <2>1
<1>4. ASSUME NEW b \in Build
      PROVE  /\ builds'[b] \in BuildRecord
             /\ builds'[b].stage \in {"unused", "ended"}
             /\ builds'[b].stage = "unused" <=> builds[b].stage = "unused"
             /\ builds'[b].app = builds[b].app /\ builds'[b].doc = builds[b].doc
             /\ builds'[b].generation = builds[b].generation
             /\ builds'[b].life = builds[b].life
  <2>1. builds[b] \in BuildRecord
    BY <1>2
  <2>2. CASE builds[b].stage = "unused"
    BY <1>1, <2>1, <2>2
  <2>3. CASE builds[b].stage # "unused"
    BY <1>1, <2>1, <2>3, OverIs
  <2> QED
    BY <2>2, <2>3
<1>5. builds' \in [Build -> BuildRecord]
  BY <1>3, <1>4
<1>6. Later(builds, builds')
  BY <1>4 DEF Later, LaterBuild
<1> QED
  BY <1>4, <1>5, <1>6

\* Whatever the end of the process finds on the disk, when it is in order it
\* stays so in the next life.
LEMMA CrashKeeps ==
    ASSUME VInv, NEW a \in App, NEW left, Crash(a, left),
           project' = project, uploaded' \in 0..MaxDocs, uploaded <= uploaded',
           torn \subseteq torn', torn' \subseteq Doc, stray \subseteq stray', stray' \subseteq Build,
           DiskInv(left, a, uploaded', torn', stray', builds', generation[a]),
           \A b \in Build : left.index[b] = "mapped" =>
                                Accounted(b, left, torn', stray', builds')
    PROVE  VInv'
<1>1. Typed
  BY DEF VInv
<1>2. /\ Later(builds, builds') /\ builds' \in [Build -> BuildRecord]
      /\ \A b \in Build :
           /\ builds'[b].stage \in {"unused", "ended"}
           /\ builds'[b].stage = "unused" <=> builds[b].stage = "unused"
           /\ builds'[b].app = builds[b].app /\ builds'[b].doc = builds[b].doc
           /\ builds'[b].generation = builds[b].generation
           /\ builds'[b].life = builds[b].life
  BY <1>1, CrashedBuilds
<1>3. /\ restarts < MaxRestarts /\ restarts' = restarts + 1
      /\ disk' = [disk EXCEPT ![a] = left] /\ cache' = [c \in App |-> EmptyCache]
      /\ session' = {} /\ connection' = NoApp /\ known' = {}
      /\ searches' = <<>> /\ process' = "running"
      /\ generation' = generation /\ announced' = announced /\ ghosts' = ghosts
  BY DEF Crash
<1>4. Typed'
  <2>1. restarts' \in 0..MaxRestarts
    BY <1>1, <1>3, Bounds DEF Typed
  <2>2. <<>> \in Seq([app : App, generation : 0..MaxDestroys])
    OBVIOUS
  <2>3. DOMAIN disk' = App /\ DOMAIN cache' = App
    BY <1>1, <1>3 DEF Typed
  <2> QED
    BY <1>1, <1>2, <1>3, <2>1, <2>2, <2>3 DEF Typed
<1>5. GhostsOk'
  BY <1>1, <1>2, <1>3 DEF VInv, GhostsOk, Typed
<1>6. HangsOnlyOnReload'
  BY <1>3 DEF HangsOnlyOnReload
<1>7. \A b \in Build : builds'[b].life < restarts'
  <2>1. ASSUME NEW b \in Build PROVE builds[b].life <= restarts /\ builds[b].life \in Int
    BY <1>1, BuildTyped, Bounds DEF VInv, BuildOk, Typed
  <2>2. restarts \in Int
    BY <1>1, Bounds DEF Typed
  <2> QED
    BY <1>2, <1>3, <2>1, <2>2
<1>8. ASSUME NEW c \in App PROVE AppInv(c)'
  <2>1. DiskInv(disk'[c], c, uploaded', torn', stray', builds', generation[c])
        /\ \A b \in Build : disk'[c].index[b] = "mapped" =>
                                Accounted(b, disk'[c], torn', stray', builds')
    <3>1. CASE c = a
      BY <1>1, <1>3, <3>1 DEF Typed
    <3>2. CASE c # a
      <4>1. disk'[c] = disk[c]
        BY <1>1, <1>3, <3>2 DEF Typed
      <4>2. /\ DiskInv(disk[c], c, uploaded, torn, stray, builds, generation[c])
            /\ CacheInv(disk[c], cache[c], c, torn, stray, builds, generation[c], restarts)
            /\ MadeOk(disk[c], builds, c, generation[c])
        BY DEF VInv, AppInv, DiskInv
      <4>3. /\ uploaded \in Int /\ uploaded' \in Int /\ restarts \in Int
            /\ \A b \in Build : builds[b].life \in Int
        BY <1>1, Bounds, BuildTyped DEF Typed
      <4>4. DiskInv(disk[c], c, uploaded', torn', stray', builds', generation[c])
        BY <1>2, <4>2, <4>3, DiskLater
      <4>5. CacheInv(disk[c], cache[c], c, torn', stray', builds', generation[c], restarts)
        BY <1>2, <4>2, <4>3, CacheLater
      <4> QED
        BY <4>1, <4>4, <4>5 DEF CacheInv, VectorOk
    <3> QED
      BY <3>1, <3>2
  <2>2. CacheInv(disk'[c], EmptyCache, c, torn', stray', builds', generation[c], restarts')
    BY <1>7, <2>1, EmptyCacheOk
  <2> QED
    BY <1>3, <2>1, <2>2 DEF AppInv
<1>9. ASSUME NEW b \in Build PROVE BuildOk(b)'
  <2>1. builds'[b].stage = "unused" <=> builds'[b].app = NoApp
    BY <1>2 DEF VInv, BuildOk
  <2>2. builds'[b].life <= restarts'
    <3>1. builds'[b].life \in Int /\ restarts' \in Int
      BY <1>4, Bounds, BuildTyped DEF Typed
    <3> QED
      BY <1>7, <3>1
  <2>3. ~UnderWay(builds'[b])
    BY <1>2 DEF UnderWay
  <2> QED
    BY <2>1, <2>2, <2>3 DEF BuildOk, Meet
<1> QED
  BY <1>4, <1>5, <1>6, <1>8, <1>9 DEF VInv

LEMMA RestartKeeps ==
    ASSUME VInv, Restart
    PROVE  VInv'
<1>1. PICK a \in App : Crash(a, disk[a])
  BY DEF Restart
<1>2. /\ project' = project /\ uploaded' = uploaded /\ torn' = torn /\ stray' = stray
      /\ Typed
  BY DEF Restart, history, VInv
<1>3. Later(builds, builds')
  BY <1>1, <1>2, CrashedBuilds
<1>4. /\ DiskInv(disk[a], a, uploaded, torn, stray, builds, generation[a])
      /\ CacheInv(disk[a], cache[a], a, torn, stray, builds, generation[a], restarts)
      /\ MadeOk(disk[a], builds, a, generation[a])
  BY DEF VInv, AppInv, DiskInv
<1>5. /\ uploaded \in Int /\ uploaded <= uploaded /\ restarts \in Int /\ restarts <= restarts
      /\ \A b \in Build : builds[b].life \in Int
  BY <1>2, Bounds, BuildTyped DEF Typed
<1>6. DiskInv(disk[a], a, uploaded, torn, stray, builds', generation[a])
  BY <1>3, <1>4, <1>5, DiskLater
<1>7. CacheInv(disk[a], cache[a], a, torn, stray, builds', generation[a], restarts)
  BY <1>3, <1>4, <1>5, CacheLater
<1>8. \A b \in Build : disk[a].index[b] = "mapped" => Accounted(b, disk[a], torn, stray, builds')
  BY <1>7 DEF CacheInv, VectorOk
<1>9. uploaded' \in 0..MaxDocs /\ torn' \subseteq Doc /\ stray' \subseteq Build
  BY <1>2 DEF Typed
<1> QED
  BY <1>1, <1>2, <1>5, <1>6, <1>8, <1>9, CrashKeeps

-----------------------------------------------------------------------------
(* Uploading                                                               *)

\* A name never has a number beyond the documents there are.
LEMMA BackupNamed ==
    ASSUME NEW D \in Disk, NEW u, RowsOk(D, u), NEW x \in Base
    PROVE  BackupName(D, x) \in Name
<1> DEFINE M == {r \in D.rows : <<x, r.name[1]>> \in Matches}
           f == [r \in M |-> r.doc]
<1>1. f \in Injection(M, Doc)
  <2>1. f \in [M -> Doc]
    BY DiskTyped, RowTyped
  <2>2. \A r, s \in M : f[r] = f[s] => r = s
    BY DEF RowsOk
  <2> QED
    BY <2>1, <2>2 DEF Injection, IsInjective
<1>2. IsFiniteSet(Doc) /\ Cardinality(Doc) <= MaxDocs
  <2>1. MaxDocs \in Nat
    BY Bounds
  <2>2. /\ IsFiniteSet(1..MaxDocs)
        /\ Cardinality(1..MaxDocs) = IF 1 > MaxDocs THEN 0 ELSE MaxDocs - 1 + 1
    BY <2>1, FS_Interval
  <2> QED
    BY <2>1, <2>2 DEF Doc
<1> HIDE DEF M, f
<1>3. IsFiniteSet(M) /\ Cardinality(M) <= Cardinality(Doc)
  BY <1>1, <1>2, FS_Injection
<1>4. Cardinality(M) \in Nat /\ Cardinality(Doc) \in Nat
  BY <1>2, <1>3, FS_CardinalityType
<1>5. Cardinality(M) \in 0..MaxDocs
  BY <1>2, <1>3, <1>4, Bounds
<1> QED
  BY <1>5 DEF BackupName, Name, M

NewRow(d, n) == [doc |-> d, name |-> n, status |-> Unprocessed, index |-> NoIndex]

\* The copy of document d under name n, without and with its row.
Copied(D, n, d) == DiskOf(D.rows, [D.files EXCEPT ![n] = d], D.chunks, D.index)
Inserted(D, n, d) ==
    DiskOf(D.rows \cup {NewRow(d, n)}, [D.files EXCEPT ![n] = d], D.chunks, D.index)

LEMMA UploadIs ==
    ASSUME NEW a \in App, NEW d, NEW x, disk[a] \in Disk
    PROVE  UploadSteps(a, d, x) = <<Copied(disk[a], BackupName(disk[a], x), d),
                                    Inserted(disk[a], BackupName(disk[a], x), d)>>
<1> DEFINE D == disk[a]
           n == BackupName(D, x)
<1>1. BackupDocument(D, d, n) = Copied(D, n, d)
  <2> HIDE DEF n
  <2> QED
    BY DEF BackupDocument, Disk, DiskOf, Copied
<1>2. InsertDocument(Copied(D, n, d), d, n) = Inserted(D, n, d)
  <2> HIDE DEF n, D
  <2> QED
    BY DEF InsertDocument, DiskOf, NewRow, Copied, Inserted
<1> QED
  BY <1>1, <1>2 DEF UploadSteps

\* The disk after an upload, or after its copy alone.
LEMMA UploadDisk ==
    ASSUME NEW D, NEW a, NEW g, NEW u \in Int, NEW T, NEW U, T \subseteq U, NEW S, NEW B,
           DiskInv(D, a, u, T, S, B, g), u + 1 \in Doc,
           NEW n \in Name, D.files[n] = NoDoc,
           NEW left, left.files = [D.files EXCEPT ![n] = u + 1],
           left.chunks = D.chunks, left.index = D.index,
           \/ left = DiskOf(D.rows, left.files, D.chunks, D.index)
           \/ /\ left = DiskOf(D.rows \cup {NewRow(u + 1, n)}, left.files, D.chunks, D.index)
              /\ (\E r \in D.rows : r.name = n) => u + 1 \in U
    PROVE  DiskInv(left, a, u + 1, U, S, B, g)
<1> DEFINE d == u + 1
<1>1. /\ D \in Disk /\ RowsOk(D, u) /\ FilesOk(D, T) /\ MadeOk(D, B, a, g)
      /\ ChunksOk(D, T, S, B) /\ SearchableOk(D, T)
  BY DEF DiskInv
<1>2. \/ left.rows = D.rows
      \/ /\ left.rows = D.rows \cup {NewRow(d, n)}
         /\ (\E r \in D.rows : r.name = n) => d \in U
  BY DEF DiskOf
<1>3. /\ NewRow(d, n) \in RowRecord /\ NewRow(d, n).doc = d /\ NewRow(d, n).name = n
      /\ NewRow(d, n).status = Unprocessed /\ NewRow(d, n).index = NoIndex
  BY Constants DEF NewRow, RowRecord
<1>4. left \in Disk
  <2>1. /\ D.rows \in SUBSET RowRecord /\ D.chunks \in SUBSET ChunkRecord
        /\ D.files \in [Name -> 0..MaxDocs] /\ D.index \in [Build -> IndexState]
    BY <1>1, DiskTyped
  <2>2. left.files \in [Name -> 0..MaxDocs]
    BY <2>1, Constants
  <2> DEFINE files == left.files
             more == D.rows \cup {NewRow(d, n)}
  <2>3. more \in SUBSET RowRecord
    BY <1>3, <2>1
  <2> HIDE DEF files, more
  <2>4. DiskOf(D.rows, files, D.chunks, D.index) \in Disk
        /\ DiskOf(more, files, D.chunks, D.index) \in Disk
    BY <2>1, <2>2, <2>3, DiskOfTyped DEF files
  <2> QED
    BY <2>4 DEF files, more
<1>5. /\ \A m \in Name : m # n => left.files[m] = D.files[m]
      /\ left.files[n] = d
  BY <1>1, DiskTyped
<1>6. \A r \in D.rows : r.name = n => r.doc \in T
  BY <1>1, DiskTyped, RowTyped, Constants DEF FilesOk
<1>7. \A r \in D.rows : r.doc # d /\ r.name \in Name /\ r.doc <= d
  <2>1. \A r \in D.rows : r.doc <= u /\ r.doc \in Int /\ r.name \in Name
    BY <1>1, DiskTyped, RowTyped, Constants DEF RowsOk
  <2> QED
    BY <2>1
<1>8. \A q \in left.rows : q \in D.rows \/ q = NewRow(d, n)
  BY <1>2
<1>9. d <= d
  OBVIOUS
<1> HIDE DEF d
<1>10. RowsOk(left, d)
  BY <1>1, <1>3, <1>7, <1>8, <1>9 DEF RowsOk
<1>11. FilesOk(left, U)
  <2>1. ASSUME NEW q \in left.rows, q.doc \notin U PROVE left.files[q.name] = q.doc
    <3>1. CASE q \in D.rows
      BY <1>1, <1>5, <1>6, <1>7, <2>1, <3>1 DEF FilesOk
    <3>2. CASE q = NewRow(d, n)
      BY <1>3, <1>5, <3>2
    <3> QED
      BY <1>8, <3>1, <3>2
  <2>2. ASSUME NEW q \in left.rows, NEW r \in left.rows, q.name = r.name, q # r
        PROVE  q.doc \in U
    <3>1. CASE q \in D.rows /\ r \in D.rows
      BY <1>1, <2>2, <3>1 DEF FilesOk
    <3>2. CASE q \in D.rows /\ r = NewRow(d, n)
      BY <1>3, <1>6, <2>2, <3>2
    <3>3. CASE q = NewRow(d, n) /\ r \in D.rows
      BY <1>2, <1>3, <1>7, <2>2, <3>3
    <3> QED
      BY <1>8, <2>2, <3>1, <3>2, <3>3
  <2> QED
    BY <2>1, <2>2 DEF FilesOk
<1>12. MadeOk(left, B, a, g)
  <2>1. ASSUME NEW b \in Build, Stored(left, b) PROVE Stored(D, b)
    BY <1>3, <1>8, <2>1, Constants DEF Stored
  <2> QED
    BY <1>1, <2>1 DEF MadeOk
<1>13. ASSUME NEW c \in left.chunks PROVE ChunkOk(c, left, U, S, B)
  <2>1. ChunkOk(c, D, T, S, B)
    BY <1>1 DEF ChunksOk
  <2>2. D.rows \subseteq left.rows
    BY <1>2
  <2> QED
    BY <2>1, <2>2 DEF ChunkOk
<1>14. SearchableOk(left, U)
  BY <1>1, <1>3, <1>8, Constants DEF SearchableOk
<1> QED
  BY <1>4, <1>10, <1>11, <1>12, <1>13, <1>14 DEF DiskInv, ChunksOk, d

\* Vectors are accounted for by index and chunks alone.
LEMMA CacheSame ==
    ASSUME NEW D, NEW left, left.index = D.index, left.chunks = D.chunks,
           NEW K, NEW a, NEW T, NEW U, T \subseteq U, NEW S, NEW B, NEW g, NEW life,
           CacheInv(D, K, a, T, S, B, g, life)
    PROVE  CacheInv(left, K, a, U, S, B, g, life)
BY DEF CacheInv, VectorOk, LifeOk, Accounted

LEMMA UploadedIn ==
    ASSUME VInv, NEW a \in App, NEW x \in Base, uploaded < MaxDocs,
           CanBackup(disk[a], BackupName(disk[a], x))
    PROVE  /\ uploaded \in Int /\ uploaded + 1 \in Doc /\ uploaded + 1 \in 0..MaxDocs
           /\ disk[a] \in Disk /\ DiskInv(disk[a], a, uploaded, torn, stray, builds, generation[a])
           /\ BackupName(disk[a], x) \in Name
           /\ disk[a].files[BackupName(disk[a], x)] = NoDoc
<1>1. /\ disk[a] \in Disk /\ DiskInv(disk[a], a, uploaded, torn, stray, builds, generation[a])
      /\ RowsOk(disk[a], uploaded)
  BY DEF VInv, AppInv, DiskInv
<1>2. uploaded \in 0..MaxDocs
  BY DEF VInv, Typed
<1>3. uploaded \in Int /\ uploaded + 1 \in Doc /\ uploaded + 1 \in 0..MaxDocs
  BY <1>2, Bounds DEF Doc
<1>4. BackupName(disk[a], x) \in Name
  BY <1>1, BackupNamed
<1> QED
  BY <1>1, <1>3, <1>4 DEF CanBackup

LEMMA UploadKeeps ==
    ASSUME VInv, NEW a \in App, NEW x \in Base, UploadDocument(a, x)
    PROVE  VInv'
<1> DEFINE D == disk[a]
           n == BackupName(D, x)
           u == uploaded
           files == [D.files EXCEPT ![n] = u + 1]
           left == DiskOf(D.rows \cup {NewRow(u + 1, n)}, files, D.chunks, D.index)
<1>1. /\ u < MaxDocs /\ CanBackup(D, n) /\ EnsureProject(a)
      /\ uploaded' = u + 1
      /\ disk' = [disk EXCEPT ![a] = Last(UploadSteps(a, u + 1, x))]
      /\ torn' = IF IsTaken(a, n) THEN torn \cup {u + 1} ELSE torn
      /\ process = "running"
      /\ UNCHANGED <<generation, cache, builds, searches, process, announced, ghosts, restarts,
                     stray>>
  BY DEF UploadDocument, Running, counters
<1>2. /\ u \in Int /\ u + 1 \in Doc /\ u + 1 \in 0..MaxDocs
      /\ D \in Disk /\ DiskInv(D, a, u, torn, stray, builds, generation[a])
      /\ n \in Name /\ D.files[n] = NoDoc
  BY <1>1, UploadedIn
<1>3. Last(UploadSteps(a, u + 1, x)) = left
  <2> DEFINE d == u + 1
  <2> HIDE DEF d
  <2>1. UploadSteps(a, d, x) = <<Copied(D, n, d), Inserted(D, n, d)>>
    BY <1>2, UploadIs
  <2>2. Last(UploadSteps(a, d, x)) = Inserted(D, n, d)
    BY <2>1 DEF Last
  <2> QED
    BY <2>2 DEF Inserted, d
<1> HIDE DEF left, files
<1>4. left.files = files /\ left.chunks = D.chunks /\ left.index = D.index
      /\ left.rows = D.rows \cup {NewRow(u + 1, n)}
  BY DEF left, DiskOf
<1>5. DOMAIN disk = App /\ DOMAIN cache = App /\ Typed
  BY DEF VInv, Typed
<1>6. disk'[a] = left /\ \A c \in App : c # a => disk'[c] = disk[c]
  BY <1>1, <1>3, <1>5
<1>7. torn \subseteq torn' /\ torn' \subseteq Doc
  BY <1>1, <1>2, <1>5 DEF Typed
<1>8. DiskInv(left, a, u + 1, torn', stray, builds, generation[a])
  <2>1. (\E r \in D.rows : r.name = n) => u + 1 \in torn'
    BY <1>1 DEF IsTaken
  <2>2. left = DiskOf(D.rows \cup {NewRow(u + 1, n)}, left.files, D.chunks, D.index)
    BY <1>4 DEF left
  <2> HIDE DEF D, n, u
  <2> QED
    BY <1>2, <1>4, <1>7, <2>1, <2>2, UploadDisk DEF files
<1>9. CacheInv(left, cache[a], a, torn', stray, builds, generation[a], restarts)
  <2>1. CacheInv(D, cache[a], a, torn, stray, builds, generation[a], restarts)
    BY DEF VInv, AppInv
  <2> QED
    BY <1>4, <1>7, <2>1, CacheSame
<1>10. Typed'
  <2>1. project' = project \cup {a} /\ known' = LoadProjects(a) \cup {a}
        /\ session' \subseteq App /\ connection' \in App \cup {NoApp} /\ LoadProjects(a) \subseteq project
    BY <1>1, <1>5, Opened DEF EnsureProject
  <2>2. DOMAIN disk' = App
    BY <1>1, <1>5
  <2> QED
    BY <1>1, <1>2, <1>5, <1>7, <2>1, <2>2 DEF Typed
<1>11. AppInv(a)'
  BY <1>1, <1>6, <1>8, <1>9 DEF AppInv
<1>12. ASSUME NEW b \in Build PROVE BuildOk(b)'
  <2>1. ASSUME UnderWay(builds[b])
        PROVE  RunOk(b, builds[b], disk'[builds[b].app], torn', stray')
    <3>1. RunOk(b, builds[b], disk[builds[b].app], torn, stray) /\ builds[b].app \in App
      BY <1>5, <2>1, BuildTyped DEF VInv, BuildOk, Typed, UnderWay
    <3>2. CASE builds[b].app # a
      BY <1>1, <1>6, <1>7, <3>1, <3>2, RunLater
    <3>3. CASE builds[b].app = a
      <4>1. builds[b].text # NoDoc /\ builds[b].name = n => D.files[n] # builds[b].text
        BY <1>2
      <4>2. \A m \in Name : m # n => left.files[m] = D.files[m]
        BY <1>2, <1>4, DiskTyped DEF files
      <4>3. builds[b].name \in Name
        BY <1>5, BuildTyped DEF Typed
      <4>4. RunOk(b, builds[b], left, torn', stray)
        <5>1. RunOk(b, builds[b], D, torn, stray)
          BY <3>1, <3>3
        <5>2. builds[b].text \in Doc => builds[b].text # NoDoc
          BY Constants
        <5>3. \A q \in left.rows : q \in D.rows \/ q.index = NoIndex
          BY <1>4 DEF NewRow
        <5>4. D.rows \subseteq left.rows
          BY <1>4
        <5> HIDE DEF D
        <5> QED
          BY <1>7, <4>1, <4>2, <4>3, <5>1, <5>2, <5>3, <5>4 DEF RunOk
      <4> QED
        BY <1>1, <1>6, <3>3, <4>4
    <3> QED
      BY <3>2, <3>3
  <2> QED
    BY <1>1, <2>1, BuildKept
<1>13. Later(builds, builds')
  BY <1>1, LaterSame
<1> QED
  BY <1>1, <1>2, <1>6, <1>7, <1>10, <1>11, <1>12, <1>13, StoreStep

LEMMA CrashInUploadKeeps ==
    ASSUME VInv, NEW a \in App, NEW x \in Base, CrashInUpload(a, x)
    PROVE  VInv'
<1> DEFINE D == disk[a]
           n == BackupName(D, x)
           u == uploaded
           files == [D.files EXCEPT ![n] = u + 1]
           left == DiskOf(D.rows, files, D.chunks, D.index)
<1>1. /\ u < MaxDocs /\ CanBackup(D, n) /\ uploaded' = u + 1
      /\ Crash(a, UploadSteps(a, u + 1, x)[1])
      /\ project' = project /\ torn' = torn /\ stray' = stray
  BY DEF CrashInUpload, history
<1>2. /\ u \in Int /\ u + 1 \in Doc /\ u + 1 \in 0..MaxDocs
      /\ D \in Disk /\ DiskInv(D, a, u, torn, stray, builds, generation[a])
      /\ n \in Name /\ D.files[n] = NoDoc
  BY <1>1, UploadedIn
<1>3. UploadSteps(a, u + 1, x)[1] = left
  <2> DEFINE d == u + 1
  <2> HIDE DEF d
  <2>1. UploadSteps(a, d, x) = <<Copied(D, n, d), Inserted(D, n, d)>>
    BY <1>2, UploadIs
  <2>2. UploadSteps(a, d, x)[1] = Copied(D, n, d)
    BY <2>1
  <2> QED
    BY <2>2 DEF Copied, d
<1> HIDE DEF left, files
<1>4. left.files = files /\ left.chunks = D.chunks /\ left.index = D.index
      /\ left = DiskOf(D.rows, left.files, D.chunks, D.index)
  BY DEF left, DiskOf
<1>5. Typed /\ MadeOk(D, builds, a, generation[a])
      /\ CacheInv(D, cache[a], a, torn, stray, builds, generation[a], restarts)
  BY DEF VInv, AppInv, DiskInv
<1>6. Crash(a, left)
  BY <1>1, <1>3
<1>7. Later(builds, builds')
  BY <1>5, <1>6, CrashedBuilds
<1>8. DiskInv(left, a, u + 1, torn, stray, builds', generation[a])
  <2>1. DiskInv(left, a, u + 1, torn, stray, builds, generation[a])
    <3> HIDE DEF D, n, u
    <3> QED
      BY <1>2, <1>4, UploadDisk DEF files
  <2>2. u + 1 \in Int /\ u + 1 <= u + 1
    BY <1>2
  <2> HIDE DEF u
  <2> QED
    BY <1>7, <2>1, <2>2, DiskLater
<1>9. ASSUME NEW b \in Build, left.index[b] = "mapped"
      PROVE  Accounted(b, left, torn, stray, builds')
  <2>1. restarts \in Int /\ restarts <= restarts /\ \A c \in Build : builds[c].life \in Int
    BY <1>5, Bounds, BuildTyped DEF Typed
  <2>2. CacheInv(D, cache[a], a, torn, stray, builds', generation[a], restarts)
    BY <1>5, <1>7, <2>1, CacheLater
  <2>3. Accounted(b, D, torn, stray, builds')
    BY <1>4, <1>9, <2>2 DEF CacheInv, VectorOk
  <2> QED
    BY <1>4, <2>3 DEF Accounted
<1>10. u <= uploaded' /\ uploaded' \in 0..MaxDocs /\ torn' \subseteq Doc /\ stray' \subseteq Build
  BY <1>1, <1>2, <1>5 DEF Typed
<1> QED
  BY <1>1, <1>6, <1>8, <1>9, <1>10, CrashKeeps

-----------------------------------------------------------------------------
(* Removing                                                                *)

\* What a removal leaves of the stores, as far as it came.
LEMMA RemovalStep ==
    ASSUME VInv, NEW a \in App, NEW d \in Doc, IsDocument(disk[a], d),
           NEW fault, NEW complete \in BOOLEAN, DeleteMarks(a, d, complete, fault),
           NEW left, RemovalLeft(left, disk[a], d, IndexLeft(a, d, fault)),
           complete => left.rows = WithoutRow(disk[a], d)
    PROVE  /\ DiskInv(left, a, uploaded, torn', stray', builds, generation[a])
           /\ CacheInv(left, DeletedCache(a, d), a, torn', stray', builds, generation[a], restarts)
           /\ torn \subseteq torn' /\ torn' \subseteq Doc
           /\ stray \subseteq stray' /\ stray' \subseteq Build
<1> DEFINE D == disk[a]
           row == RowOf(D, d)
           index == IndexLeft(a, d, fault)
<1>1. /\ DiskInv(D, a, uploaded, torn, stray, builds, generation[a])
      /\ CacheInv(D, cache[a], a, torn, stray, builds, generation[a], restarts)
      /\ D \in Disk /\ RowsOk(D, uploaded) /\ Typed
  BY DEF VInv, AppInv, DiskInv
<1>2. row \in D.rows /\ row.doc = d /\ row \in RowRecord /\ row.index \in 0..MaxBuilds
  BY <1>1, RowOfIs, DiskTyped, RowTyped
<1>3. /\ torn \subseteq torn' /\ torn' \subseteq Doc
      /\ complete \/ d \in torn'
      /\ \A r \in D.rows : r.name = row.name /\ r.doc # d => r.doc \in torn'
  <2>1. Namesakes(a, d) \subseteq Doc
    BY <1>1, DiskTyped, RowTyped DEF Namesakes
  <2>2. torn \subseteq Doc
    BY <1>1 DEF Typed
  <2>3. d \in Namesakes(a, d) /\ \A r \in D.rows : r.name = row.name => r.doc \in Namesakes(a, d)
    BY <1>2 DEF Namesakes
  <2> QED
    BY <2>1, <2>2, <2>3 DEF DeleteMarks
<1>4. /\ stray \subseteq stray' /\ stray' \subseteq Build
      /\ fault = "save" => ChunksOf(D, d) \subseteq stray'
  <2>1. ChunksOf(D, d) \subseteq Build
    BY <1>1, DiskTyped, ChunkTyped DEF ChunksOf
  <2>2. RunningBuilds(a, row.name) \subseteq Build /\ stray \subseteq Build
    BY <1>1 DEF RunningBuilds, Typed
  <2> QED
    BY <2>1, <2>2 DEF DeleteMarks
<1>5. \A b \in Build : index[b] = D.index[b] \/ (b = row.index /\ index[b] = "unmapped")
  BY <1>1, <1>2, IndexLeftIs
<1>6. DiskInv(left, a, uploaded, torn', stray', builds, generation[a])
  <2>1. RemovalLeft(left, D, d, index) /\ (d \in torn' \/ left.rows = WithoutRow(D, d))
    BY <1>3
  <2> HIDE DEF index, D
  <2> QED
    BY <1>1, <1>3, <1>4, <1>5, <2>1, RemovalDisk DEF D
<1>7. CacheInv(left, DeletedCache(a, d), a, torn', stray', builds, generation[a], restarts)
  BY <1>1, <1>3, <1>4, RemovalVectors
<1> QED
  BY <1>3, <1>4, <1>6, <1>7

LEMMA DeleteKeeps ==
    ASSUME VInv, NEW a \in App, NEW d \in Doc, NEW fault \in {"none", "save", "database"},
           DeleteDocument(a, d, fault)
    PROVE  VInv'
<1> DEFINE D == disk[a]
           row == RowOf(D, d)
           steps == DeleteSteps(a, d, fault)
           left == Last(steps)
           complete == fault # "database"
<1>1. /\ IsDocument(D, d) /\ OpenSession(a) /\ known' = LoadProjects(a)
      /\ disk' = [disk EXCEPT ![a] = left]
      /\ cache' = [cache EXCEPT ![a] = DeletedCache(a, d)]
      /\ DeleteMarks(a, d, complete, fault)
      /\ process = "running"
      /\ UNCHANGED <<project, generation, uploaded, builds, searches, process, announced,
                     ghosts, restarts>>
  BY DEF DeleteDocument, HasDocument, Running
<1>2. /\ D \in Disk /\ RowsOk(D, uploaded) /\ cache[a] \in Cache /\ Typed
  BY DEF VInv, AppInv, DiskInv, CacheInv
<1>3. /\ RemovalLeft(left, D, d, IndexLeft(a, d, fault))
      /\ complete => left.rows = WithoutRow(D, d)
  <2>1. \A i \in 1..Len(steps) :
          /\ RemovalLeft(steps[i], D, d, IndexLeft(a, d, fault))
          /\ i = 4 => steps[i].rows = WithoutRow(D, d)
          /\ Len(steps) = IF fault = "database" THEN 2 ELSE 4
    BY <1>1, <1>2, DeleteIs
  <2>2. Len(steps) = IF fault = "database" THEN 2 ELSE 4
    BY DEF DeleteSteps
  <2> HIDE DEF steps
  <2>3. Last(steps) = steps[Len(steps)] /\ Len(steps) \in 1..Len(steps)
    BY <2>2 DEF Last
  <2> QED
    BY <2>1, <2>2, <2>3
<1> HIDE DEF left, complete, steps
<1>4. /\ DiskInv(left, a, uploaded, torn', stray', builds, generation[a])
      /\ CacheInv(left, DeletedCache(a, d), a, torn', stray', builds, generation[a], restarts)
      /\ torn \subseteq torn' /\ torn' \subseteq Doc
      /\ stray \subseteq stray' /\ stray' \subseteq Build
  <2>1. complete \in BOOLEAN
    BY DEF complete
  <2> QED
    BY <1>1, <1>3, <2>1, RemovalStep
<1>5. DOMAIN disk = App /\ DOMAIN cache = App
  BY <1>2 DEF Typed
<1>6. /\ disk'[a] = left /\ cache'[a] = DeletedCache(a, d)
      /\ \A c \in App : c # a => disk'[c] = disk[c] /\ cache'[c] = cache[c]
  BY <1>1, <1>5
<1>7. Typed'
  <2>1. session' \subseteq App /\ connection' \in App \cup {NoApp} /\ LoadProjects(a) \subseteq project
    BY <1>1, <1>2, Opened
  <2>2. DOMAIN disk' = App /\ DOMAIN cache' = App
    BY <1>1, <1>5
  <2> QED
    BY <1>1, <1>2, <1>4, <2>1, <2>2 DEF Typed
<1>8. AppInv(a)'
  BY <1>1, <1>4, <1>6 DEF AppInv
<1>9. row \in D.rows /\ row.doc = d /\ \A r \in D.rows : r.doc = d => r = row
  BY <1>1, <1>2, RowOfIs
<1>10. ASSUME NEW b \in Build PROVE BuildOk(b)'
  <2>1. ASSUME UnderWay(builds[b])
        PROVE  RunOk(b, builds[b], disk'[builds[b].app], torn', stray')
    <3>1. RunOk(b, builds[b], disk[builds[b].app], torn, stray) /\ builds[b].app \in App
          /\ builds[b].name \in Name
      BY <1>2, <2>1, BuildTyped DEF VInv, BuildOk, Typed, UnderWay
    <3>2. CASE builds[b].app # a
      BY <1>4, <1>6, <3>1, <3>2, RunLater
    <3>3. CASE builds[b].app = a
      <4>1. RunOk(b, builds[b], D, torn, stray)
        BY <3>1, <3>3
      <4>2. builds[b].name = row.name => b \in stray'
        BY <1>1, <2>1, <3>3 DEF DeleteMarks, RunningBuilds, UnderWay
      <4>3. /\ left.rows \subseteq D.rows
            /\ \A r \in D.rows : r.doc # d => r \in left.rows
        BY <1>3 DEF RemovalLeft, WithoutRow, Besides
      <4>4. builds[b].name # row.name => left.files[builds[b].name] = D.files[builds[b].name]
        BY <1>2, <1>3, <3>1, DiskTyped DEF RemovalLeft
      <4> HIDE DEF D, row
      <4>5. RunOk(b, builds[b], left, torn', stray')
        BY <1>4, <1>9, <4>1, <4>2, <4>3, <4>4 DEF RunOk
      <4> QED
        BY <1>6, <3>3, <4>5
    <3> QED
      BY <3>2, <3>3
  <2> QED
    BY <1>1, <1>4, <2>1, BuildKept
<1>11. Later(builds, builds') /\ uploaded <= uploaded'
  BY <1>1, <1>2, LaterSame, Bounds DEF Typed
<1> QED
  BY <1>1, <1>4, <1>6, <1>7, <1>8, <1>10, <1>11, StoreStep

LEMMA CrashInDeleteKeeps ==
    ASSUME VInv, NEW a \in App, NEW d \in Doc, CrashInDelete(a, d)
    PROVE  VInv'
<1> DEFINE D == disk[a]
           steps == DeleteSteps(a, d, "none")
<1>1. PICK i \in 1..3 : Crash(a, steps[i])
  BY DEF CrashInDelete
<1> DEFINE left == steps[i]
<1>2. /\ IsDocument(D, d) /\ DeleteMarks(a, d, FALSE, "none")
      /\ project' = project /\ uploaded' = uploaded
  BY DEF CrashInDelete, HasDocument
<1>3. /\ D \in Disk /\ RowsOk(D, uploaded) /\ cache[a] \in Cache /\ Typed
  BY DEF VInv, AppInv, DiskInv, CacheInv
<1>4. RemovalLeft(left, D, d, IndexLeft(a, d, "none"))
  <2>1. Len(steps) = 4
    BY DEF DeleteSteps
  <2>2. i \in 1..Len(steps)
    BY <2>1
  <2>3. "none" \in {"none", "save", "database"}
    OBVIOUS
  <2> QED
    BY <1>2, <1>3, <2>2, <2>3, DeleteIs
<1> HIDE DEF left, steps
<1>5. /\ DiskInv(left, a, uploaded, torn', stray', builds, generation[a])
      /\ CacheInv(left, DeletedCache(a, d), a, torn', stray', builds, generation[a], restarts)
      /\ torn \subseteq torn' /\ torn' \subseteq Doc
      /\ stray \subseteq stray' /\ stray' \subseteq Build
  <2>1. FALSE \in BOOLEAN /\ (FALSE => left.rows = WithoutRow(D, d))
    OBVIOUS
  <2> QED
    BY <1>2, <1>4, <2>1, RemovalStep
<1>6. Crash(a, left)
  BY <1>1 DEF left
<1>7. Later(builds, builds')
  BY <1>3, <1>6, CrashedBuilds
<1>8. /\ uploaded \in Int /\ uploaded <= uploaded /\ restarts \in Int /\ restarts <= restarts
      /\ \A b \in Build : builds[b].life \in Int
  BY <1>3, Bounds, BuildTyped DEF Typed
<1>9. DiskInv(left, a, uploaded, torn', stray', builds', generation[a])
  BY <1>5, <1>7, <1>8, DiskLater
<1>10. CacheInv(left, DeletedCache(a, d), a, torn', stray', builds', generation[a], restarts)
  <2>1. MadeOk(left, builds, a, generation[a])
    BY <1>5 DEF DiskInv
  <2> QED
    BY <1>5, <1>7, <1>8, <2>1, CacheLater
<1>11. \A b \in Build : left.index[b] = "mapped" => Accounted(b, left, torn', stray', builds')
  BY <1>10 DEF CacheInv, VectorOk
<1>12. uploaded' \in 0..MaxDocs
  BY <1>2, <1>3 DEF Typed
<1> QED
  BY <1>2, <1>5, <1>6, <1>8, <1>9, <1>11, <1>12, CrashKeeps

-----------------------------------------------------------------------------
(* Beginning a build, and parsing                                          *)

LEMMA BuildIndexKeeps ==
    ASSUME VInv, NEW a \in App, NEW d \in Doc, NEW b \in Build, BuildIndex(a, d, b)
    PROVE  VInv'
<1> DEFINE D == disk[a]
           row == RowOf(D, d)
           new == [stage |-> "parsing", app |-> a, doc |-> d, name |-> row.name,
                   text |-> NoDoc, generation |-> generation[a], life |-> restarts]
           others == RunningBuilds(a, row.name)
<1>1. /\ IsDocument(D, d) /\ row.status = Unprocessed
      /\ builds[b].stage = "unused" /\ process = "running"
      /\ OpenSession(a) /\ known' = LoadProjects(a)
      /\ builds' = [builds EXCEPT ![b] = new]
      /\ stray' = IF others = {} THEN stray ELSE stray \cup others \cup {b}
      /\ UNCHANGED <<project, generation, disk, cache, uploaded, searches, process,
                     announced, ghosts, counters, torn>>
  BY DEF BuildIndex, HasDocument, IsReadyForProcessing, Running
<1>2. /\ D \in Disk /\ RowsOk(D, uploaded) /\ FilesOk(D, torn) /\ Typed
  BY DEF VInv, AppInv, DiskInv
<1>3. /\ row \in D.rows /\ row.doc = d /\ row \in RowRecord /\ row.name \in Name
      /\ \A r \in D.rows : r.doc = d => r = row
  <2>1. row \in D.rows /\ row.doc = d /\ \A r \in D.rows : r.doc = d => r = row
    BY <1>1, <1>2, RowOfIs
  <2> QED
    BY <1>2, <2>1, DiskTyped, RowTyped
<1>4. new \in BuildRecord
  BY <1>2, <1>3 DEF BuildRecord, Typed
<1>5. /\ Later(builds, builds') /\ builds'[b] = new
      /\ \A c \in Build : c # b => builds'[c] = builds[c]
  <2>1. LaterBuild(builds[b], new)
    BY <1>1 DEF LaterBuild
  <2> HIDE DEF new
  <2> QED
    BY <1>1, <1>2, <2>1, LaterOne
<1>6. stray \subseteq stray' /\ stray' \subseteq Build
  <2>1. others \subseteq Build
    BY DEF RunningBuilds
  <2> QED
    BY <1>1, <1>2, <2>1 DEF Typed
<1>7. Typed'
  <2>1. session' \subseteq App /\ connection' \in App \cup {NoApp} /\ LoadProjects(a) \subseteq project
    BY <1>1, <1>2, Opened
  <2>2. builds' \in [Build -> BuildRecord]
    <3> HIDE DEF new
    <3> QED
      BY <1>1, <1>2, <1>4 DEF Typed
  <2> QED
    BY <1>1, <1>2, <1>6, <2>1, <2>2 DEF Typed, counters
<1>8. uploaded \in Int /\ uploaded <= uploaded
  BY <1>2, Bounds DEF Typed
<1>9. AppInv(a)'
  BY <1>1, <1>5, <1>6, <1>8, AppKept DEF counters
<1>10. ASSUME NEW c \in Build, UnderWay(builds[c]), builds[c].app = a, builds[c].name = row.name
       PROVE  c \in stray' /\ b \in stray'
  BY <1>1, <1>10 DEF RunningBuilds, UnderWay
<1>11. ASSUME NEW c \in Build, c # b PROVE BuildOk(c)'
  <2>1. UnderWay(builds[c]) => RunOk(c, builds[c], disk'[builds[c].app], torn', stray')
    <3>1. UnderWay(builds[c]) => RunOk(c, builds[c], disk[builds[c].app], torn, stray)
      BY DEF VInv, BuildOk
    <3> QED
      BY <1>1, <1>6, <3>1, RunLater
  <2>2. \A e \in Build \ {c} :
            Meet(builds[c], builds'[e]) => Meet(builds[c], builds[e]) \/ c \in stray'
    BY <1>5, <1>10 DEF Meet
  <2> QED
    BY <1>1, <1>5, <1>6, <1>11, <2>1, <2>2, BuildKept DEF counters
<1>12. BuildOk(b)'
  <2>1. RunOk(b, new, D, torn, stray')
    <3>1. \A r \in D.rows : r.name = row.name /\ r.index # NoIndex => r.doc \in torn
      BY <1>1, <1>2, <1>3 DEF FilesOk, RowsOk
    <3> QED
      BY <1>1, <1>3, <3>1 DEF RunOk
  <2>2. \A c \in Build \ {b} : Meet(new, builds'[c]) => b \in stray'
    BY <1>5, <1>10 DEF Meet
  <2>3. a # NoApp /\ restarts \in Int
    BY <1>2, Bounds, SessionsAssumption DEF Typed, SessionsAssumption
  <2>4. /\ new.stage = "parsing" /\ new.app = a /\ new.doc = d /\ new.generation = generation[a]
        /\ new.life = restarts
    OBVIOUS
  <2> HIDE DEF new, D
  <2> QED
    BY <1>1, <1>5, <2>1, <2>2, <2>3, <2>4 DEF BuildOk, counters, D
<1> QED
  BY <1>1, <1>5, <1>6, <1>7, <1>8, <1>9, <1>11, <1>12, StoreStep DEF counters

LEMMA ParseFileKeeps ==
    ASSUME VInv, NEW b \in Build, ParseFile(b)
    PROVE  VInv'
<1> DEFINE file == disk[builds[b].app].files[builds[b].name]
           new == IF file = NoDoc THEN Over(builds[b])
                  ELSE [builds[b] EXCEPT !.text = file, !.stage = "parsed"]
<1>1. /\ builds[b].stage = "parsing"
      /\ builds' = [builds EXCEPT ![b] = new]
      /\ UNCHANGED <<opened, project, generation, disk, cache, uploaded, searches,
                     process, announced, ghosts, counters, history>>
  <2>1. Typed
    BY DEF VInv
  <2> QED
    BY <2>1 DEF ParseFile, Typed
<1>2. /\ Typed /\ builds[b] \in BuildRecord /\ builds[b].app \in App
      /\ builds[b].name \in Name /\ file \in Doc \cup {NoDoc}
  <2>1. /\ Typed /\ builds[b] \in BuildRecord
    BY DEF VInv, Typed
  <2>2. builds[b].app \in App /\ builds[b].name \in Name
    BY <1>1, <2>1, BuildTyped DEF VInv, BuildOk
  <2>3. disk[builds[b].app] \in Disk
    BY <2>2 DEF VInv, AppInv, DiskInv
  <2>4. file \in 0..MaxDocs
    BY <2>2, <2>3, DiskTyped
  <2> QED
    BY <2>1, <2>2, <2>4, Constants
<1>3. /\ new \in BuildRecord /\ new.app = builds[b].app /\ new.doc = builds[b].doc
      /\ new.generation = builds[b].generation /\ new.life = builds[b].life
      /\ \/ new.stage = "ended" /\ file = NoDoc
         \/ /\ new.stage = "parsed" /\ new.name = builds[b].name /\ new.text = file
            /\ file \in Doc
  <2>1. CASE file = NoDoc
    BY <1>2, <2>1, OverIs
  <2>2. CASE file # NoDoc
    BY <1>2, <2>2 DEF BuildRecord
  <2> QED
    BY <2>1, <2>2
<1> HIDE DEF new
<1>4. /\ Later(builds, builds') /\ builds'[b] = new
      /\ \A c \in Build : c # b => builds'[c] = builds[c]
  <2>1. LaterBuild(builds[b], new)
    BY <1>1, <1>3 DEF LaterBuild
  <2> QED
    BY <1>1, <1>2, <2>1, LaterOne
<1>5. Typed'
  <2>1. builds' \in [Build -> BuildRecord]
    BY <1>1, <1>2, <1>3 DEF Typed
  <2> QED
    BY <1>1, <1>2, <2>1 DEF Typed, opened, counters, history
<1>6. /\ uploaded \in Int /\ uploaded <= uploaded /\ torn' = torn /\ stray' = stray
      /\ restarts' = restarts
  BY <1>1, <1>2, Bounds DEF Typed, history, counters
<1>7. ASSUME NEW a \in App PROVE AppInv(a)'
  BY <1>1, <1>4, <1>6, AppKept
<1>8. ASSUME NEW c \in Build, c # b PROVE BuildOk(c)'
  <2>1. UnderWay(builds[c]) => RunOk(c, builds[c], disk'[builds[c].app], torn', stray')
    BY <1>1, <1>6 DEF VInv, BuildOk
  <2>2. \A e \in Build \ {c} :
            Meet(builds[c], builds'[e]) => Meet(builds[c], builds[e]) \/ c \in stray'
    BY <1>1, <1>3, <1>4 DEF Meet, UnderWay
  <2> QED
    BY <1>1, <1>4, <1>6, <1>8, <2>1, <2>2, BuildKept
<1>9. BuildOk(b)'
  <2>1. /\ builds[b].app # NoApp /\ builds[b].life <= restarts
        /\ builds[b].doc \in Doc /\ builds[b].generation = generation[builds[b].app]
        /\ RunOk(b, builds[b], disk[builds[b].app], torn, stray)
        /\ \A c \in Build \ {b} : Meet(builds[b], builds[c]) => b \in stray
    BY <1>1 DEF VInv, BuildOk, UnderWay
  <2>2. UnderWay(new) => RunOk(b, new, disk[builds[b].app], torn, stray)
    BY <1>3, <2>1 DEF RunOk, UnderWay
  <2>3. \A c \in Build \ {b} : Meet(new, builds'[c]) => b \in stray
    BY <1>1, <1>3, <1>4, <2>1 DEF Meet, UnderWay
  <2>4. /\ builds'[b] = new /\ generation' = generation /\ disk' = disk /\ torn' = torn
        /\ stray' = stray /\ restarts' = restarts /\ new.stage # "unused" /\ new.app # NoApp
    BY <1>1, <1>3, <1>4, <1>6, <2>1
  <2> QED
    BY <1>3, <2>1, <2>2, <2>3, <2>4 DEF BuildOk
<1>10. GhostsOk'
  <2>1. ghosts \subseteq Build /\ GhostsOk
    BY DEF VInv, Typed
  <2> QED
    BY <1>1, <1>4, <1>6, <2>1 DEF GhostsOk, Later, LaterBuild
<1>11. HangsOnlyOnReload'
  <2>1. \A c \in Build : builds'[c].life = builds[c].life
    BY <1>3, <1>4
  <2>2. process' = process /\ disk' = disk /\ restarts' = restarts /\ HangsOnlyOnReload
    BY <1>1, <1>6 DEF VInv
  <2>3. ASSUME NEW a \in App
        PROVE  {c \in Build : disk[a].index[c] # "absent" /\ builds'[c].life < restarts}
                 = {c \in Build : disk[a].index[c] # "absent" /\ builds[c].life < restarts}
    BY <2>1
  <2> QED
    BY <2>2, <2>3 DEF HangsOnlyOnReload
<1> QED
  BY <1>5, <1>7, <1>8, <1>9, <1>10, <1>11 DEF VInv

-----------------------------------------------------------------------------
(* A build is complete                                                     *)

\* What a completion is about, before it begins.
Completing(b, a) ==
    /\ Typed /\ a \in App /\ a = builds[b].app /\ builds[b] \in BuildRecord
    /\ builds[b].stage = "parsed" /\ builds[b].text \in Doc
    /\ builds[b].generation = generation[a] /\ builds[b].life <= restarts
    /\ disk[a] \in Disk /\ cache[a] \in Cache /\ RowsOk(disk[a], uploaded)
    /\ MadeOk(disk[a], builds, a, generation[a])
    /\ DiskInv(disk[a], a, uploaded, torn, stray, builds, generation[a])
    /\ CacheInv(disk[a], cache[a], a, torn, stray, builds, generation[a], restarts)
    /\ RunOk(b, builds[b], disk[a], torn, stray)
    /\ \A c \in Build \ {b} : Meet(builds[b], builds[c]) => b \in stray /\ c \in stray

LEMMA CompletingIs ==
    ASSUME VInv, NEW b \in Build, builds[b].stage = "parsed"
    PROVE  \E a \in App : Completing(b, a)
<1>1. /\ Typed /\ builds[b] \in BuildRecord /\ BuildOk(b)
      /\ \A c \in Build : BuildOk(c)
  BY DEF VInv, Typed
<1>2. builds[b].app \in App
  BY <1>1, BuildTyped DEF BuildOk
<1> PICK a \in App : a = builds[b].app
  BY <1>2
<1>3. /\ DiskInv(disk[a], a, uploaded, torn, stray, builds, generation[a])
      /\ CacheInv(disk[a], cache[a], a, torn, stray, builds, generation[a], restarts)
  BY DEF VInv, AppInv
<1>4. /\ disk[a] \in Disk /\ cache[a] \in Cache /\ RowsOk(disk[a], uploaded)
      /\ MadeOk(disk[a], builds, a, generation[a])
  BY <1>3 DEF DiskInv, CacheInv
<1>5. RunOk(b, builds[b], disk[a], torn, stray) /\ builds[b].generation = generation[a]
      /\ builds[b].life <= restarts
  BY <1>1 DEF BuildOk, UnderWay
<1>6. builds[b].text \in Doc
  BY <1>5 DEF RunOk
<1>7. \A c \in Build \ {b} : Meet(builds[b], builds[c]) => b \in stray /\ c \in stray
  <2>1. \A c \in Build : Meet(builds[b], builds[c]) => Meet(builds[c], builds[b])
    BY DEF Meet
  <2> QED
    BY <1>1, <2>1 DEF BuildOk
<1> QED
  BY <1>1, <1>3, <1>4, <1>5, <1>6, <1>7 DEF Completing

\* A document without a row of its name was removed while the build ran.
LEMMA LostIsStray ==
    ASSUME NEW b \in Build, NEW a, Completing(b, a),
           DocumentIdByPath(disk[a], builds[b].name) = NoDoc
    PROVE  b \in stray
<1>1. \A r \in disk[a].rows : r.name # builds[b].name
  BY DocumentIdIs, Constants DEF Completing
<1> QED
  BY <1>1 DEF Completing, RunOk

LEMMA CompleteKeeps ==
    ASSUME VInv, NEW b \in Build, NEW fault \in {"none", "chunks", "vectors", "save"},
           CompleteBuild(b, fault)
    PROVE  VInv'
<1>1. Running /\ builds[b].stage = "parsed"
  BY DEF CompleteBuild
<1>2. PICK a \in App : Completing(b, a)
  BY <1>1, CompletingIs
<1> DEFINE D == disk[a]
           n == builds[b].name
           d == DocumentIdByPath(D, n)
           text == builds[b].text
           steps == CompleteSteps(a, b, fault)
           left == Last(steps)
           g == generation[a]
<1>3. /\ a = builds[b].app /\ Fault(fault)
      /\ cache' = [cache EXCEPT ![a] = CompletedCache(a, b, fault)]
      /\ disk' = [disk EXCEPT ![a] = left]
      /\ builds' = [builds EXCEPT ![b] = Over(builds[b])]
      /\ announced' = IF OverallSuccess(d, fault) THEN announced \cup {b} ELSE announced
      /\ stray' = IF fault = "none" THEN stray ELSE stray \cup {b}
      /\ torn' = IF fault = "none" \/ d = NoDoc THEN torn ELSE torn \cup {d}
      /\ UNCHANGED <<opened, project, generation, uploaded, searches, process, ghosts,
                     restarts>>
  <2>1. a = builds[b].app /\ Typed
    BY <1>2 DEF Completing
  <2> QED
    BY <2>1 DEF CompleteBuild, Typed
<1>4. PICK last \in BOOLEAN : last
  OBVIOUS
<1>5. CompletionLeft(left, D, b, d, text, last, fault)
  <2>1. \A i \in 1..4 : Len(steps) = 4 /\ CompletionLeft(steps[i], D, b, d, text, i = 4, fault)
    BY <1>2, CompleteIs DEF Completing
  <2>2. Len(steps) = 4 /\ CompletionLeft(steps[4], D, b, d, text, 4 = 4, fault)
    BY <2>1
  <2> HIDE DEF steps, D, d, text
  <2>3. left = steps[4]
    BY <2>2 DEF Last
  <2> HIDE DEF left
  <2>4. CompletionLeft(left, D, b, d, text, 4 = 4, fault)
    BY <2>2, <2>3
  <2> QED
    BY <1>4, <2>4 DEF CompletionLeft
<1> HIDE DEF left, steps
<1>6. /\ d \in Doc \cup {NoDoc}
      /\ d = NoDoc => b \in stray
  BY <1>2, DocumentIdIs, LostIsStray DEF Completing
<1>7. /\ Later(builds, builds') /\ builds'[b] = Over(builds[b])
      /\ \A c \in Build : c # b => builds'[c] = builds[c]
  <2>1. LaterBuild(builds[b], Over(builds[b]))
    BY <1>2, OverIs DEF LaterBuild, Completing
  <2> QED
    BY <1>2, <1>3, <2>1, LaterOne DEF Completing
<1>8. /\ Over(builds[b]) \in BuildRecord /\ Made(builds'[b], a, g)
      /\ builds'[b].doc = builds[b].doc /\ builds'[b].life = builds[b].life
      /\ builds'[b].stage = "ended" /\ builds'[b].app = a
  BY <1>2, <1>7, OverIs DEF Completing, Made
<1>9. /\ torn \subseteq torn' /\ torn' \subseteq Doc /\ stray \subseteq stray'
      /\ stray' \subseteq Build
      /\ fault # "none" \/ d = NoDoc => b \in stray'
      /\ fault # "none" /\ d # NoDoc => d \in torn'
  <2>1. torn \subseteq Doc /\ stray \subseteq Build
    BY <1>2 DEF Completing, Typed
  <2> HIDE DEF d
  <2> QED
    BY <1>3, <1>6, <2>1
<1>10. DiskInv(left, a, uploaded, torn', stray', builds', g)
  <2>1. /\ DiskInv(D, a, uploaded, torn, stray, builds, g)
        /\ RunOk(b, builds[b], D, torn, stray) /\ builds[b].stage = "parsed"
    BY <1>2 DEF Completing
  <2>2. Marked(b, d, last, fault, torn', stray')
    BY <1>4, <1>9 DEF Marked
  <2>3. d = DocumentIdByPath(D, builds[b].name)
    OBVIOUS
  <2>4. CompletionLeft(left, D, b, d, builds[b].text, last, fault)
    BY <1>5
  <2> HIDE DEF D, g, d, n, text
  <2> QED
    BY <1>7, <1>8, <1>9, <2>1, <2>2, <2>3, <2>4, CompletionDisk
<1>11. CacheInv(left, CompletedCache(a, b, fault), a, torn', stray', builds', g, restarts)
  <2>1. /\ MadeOk(D, builds, a, g)
        /\ CacheInv(D, cache[a], a, torn, stray, builds, g, restarts) /\ cache[a] \in Cache
    BY <1>2 DEF Completing
  <2> DEFINE L == CompletedCache(a, b, fault)
  <2>5. /\ L \in Cache /\ L.entry[b] = "built"
        /\ \A c \in Build : c # b => L.entry[c] = cache[a].entry[c]
        /\ fault = "vectors" => L.held = cache[a].held
        /\ fault # "vectors" => L.held = cache[a].held \cup {b}
    <3> HIDE DEF D, g, d, n, text
    <3> QED
      BY <2>1, CompletedCacheIs
  <2>2. CacheCompleted(L, cache[a], b, fault)
    <3> HIDE DEF L
    <3> QED
      BY <2>5 DEF CacheCompleted
  <2>4. /\ CompletionLeft(left, D, b, d, text, last, fault)
        /\ fault # "none" \/ d = NoDoc => b \in stray'
    BY <1>5, <1>9
  <2> HIDE DEF D, g, L, d, n, text
  <2>3. CacheInv(left, L, a, torn', stray', builds', g, restarts)
    BY <1>7, <1>8, <1>9, <2>1, <2>2, <2>4, CompletionVectors
  <2> QED
    BY <2>3 DEF L
<1>12. /\ disk'[a] = left /\ cache'[a] = CompletedCache(a, b, fault)
       /\ \A c \in App : c # a => disk'[c] = disk[c] /\ cache'[c] = cache[c]
       /\ DOMAIN disk' = App /\ DOMAIN cache' = App
  <2>1. DOMAIN disk = App /\ DOMAIN cache = App
    BY <1>2 DEF Completing, Typed
  <2> QED
    BY <1>3, <2>1
<1>13. AppInv(a)'
  BY <1>3, <1>10, <1>11, <1>12 DEF AppInv
<1>14. Typed'
  <2>1. Typed
    BY <1>2 DEF Completing
  <2>2. announced' \subseteq Build
    BY <1>3, <2>1 DEF Typed
  <2>3. builds' \in [Build -> BuildRecord]
    BY <1>3, <1>8, <2>1 DEF Typed
  <2> QED
    BY <1>3, <1>9, <1>12, <2>1, <2>2, <2>3 DEF Typed, opened
<1>15. ASSUME NEW c \in Build, c # b PROVE BuildOk(c)'
  <2>1. ASSUME UnderWay(builds[c])
        PROVE  RunOk(c, builds[c], disk'[builds[c].app], torn', stray')
    <3>1. /\ RunOk(c, builds[c], disk[builds[c].app], torn, stray)
          /\ builds[c].app \in App
      <4>1. builds[c] \in BuildRecord /\ BuildOk(c)
        BY <1>2 DEF VInv, Completing, Typed
      <4> QED
        BY <2>1, <4>1, BuildTyped DEF BuildOk, UnderWay
    <3>2. CASE builds[c].app # a
      BY <1>9, <1>12, <3>1, <3>2, RunLater
    <3>3. CASE builds[c].app = a
      <4>1. builds[c].name = n => b \in stray /\ c \in stray
        BY <1>1, <1>2, <1>15, <2>1, <3>3 DEF Completing, Meet, UnderWay
      <4>2. D \in Disk /\ RowsOk(D, uploaded) /\ RunOk(c, builds[c], D, torn, stray)
        BY <1>2, <3>1, <3>3 DEF Completing
      <4> HIDE DEF D, n
      <4>3. RunOk(c, builds[c], left, torn', stray')
        BY <1>5, <1>9, <4>1, <4>2, CompletionRun
      <4> QED
        BY <1>12, <3>3, <4>3
    <3> QED
      BY <3>2, <3>3
  <2>2. \A e \in Build \ {c} :
            Meet(builds[c], builds'[e]) => Meet(builds[c], builds[e]) \/ c \in stray'
    BY <1>7, <1>8 DEF Meet, UnderWay
  <2> QED
    BY <1>3, <1>7, <1>9, <1>15, <2>1, <2>2, BuildKept
<1>16. BuildOk(b)'
  <2>1. a # NoApp
    BY SessionsAssumption DEF SessionsAssumption
  <2>2. builds'[b].life <= restarts'
    BY <1>2, <1>3, <1>8 DEF Completing
  <2> QED
    BY <1>8, <2>1, <2>2 DEF BuildOk, UnderWay, Meet
<1>17. process' # "hung" /\ uploaded <= uploaded'
  BY <1>1, <1>2, <1>3, Bounds DEF Running, Completing, Typed
<1> QED
  BY <1>3, <1>7, <1>9, <1>12, <1>13, <1>14, <1>15, <1>16, <1>17, StoreStep

LEMMA CrashInCompleteKeeps ==
    ASSUME VInv, NEW b \in Build, CrashInComplete(b)
    PROVE  VInv'
<1>1. builds[b].stage = "parsed"
  BY DEF CrashInComplete
<1>2. PICK a \in App : Completing(b, a)
  BY <1>1, CompletingIs
<1> DEFINE D == disk[a]
           n == builds[b].name
           d == DocumentIdByPath(D, n)
           text == builds[b].text
           steps == CompleteSteps(a, b, "none")
           g == generation[a]
<1>3. /\ \E i \in 1..3 : Crash(a, steps[i])
      /\ stray' = stray \cup {b} /\ torn' = torn /\ project' = project /\ uploaded' = uploaded
  <2>1. a = builds[b].app
    BY <1>2 DEF Completing
  <2> QED
    BY <2>1 DEF CrashInComplete
<1>4. PICK i \in 1..3 : Crash(a, steps[i])
  BY <1>3
<1> DEFINE left == steps[i]
<1>5. PICK last \in BOOLEAN : ~last
  OBVIOUS
<1>6. CompletionLeft(left, D, b, d, text, last, "none")
  <2>1. i \in 1..4 /\ "none" \in {"none", "chunks", "vectors", "save"} /\ i # 4
    OBVIOUS
  <2>2. CompletionLeft(steps[i], D, b, d, text, i = 4, "none")
    BY <1>2, <2>1, CompleteIs DEF Completing
  <2> HIDE DEF steps, D, d, text
  <2> QED
    BY <1>5, <2>1, <2>2 DEF CompletionLeft
<1>7. Crash(a, left)
  BY <1>4
<1> HIDE DEF left, steps
<1>8. Typed
  BY <1>2 DEF Completing
<1>9. /\ Later(builds, builds') /\ Made(builds'[b], a, g) /\ builds'[b].doc = builds[b].doc
  <2>1. /\ Later(builds, builds')
        /\ builds'[b].stage \in {"unused", "ended"}
        /\ builds'[b].stage = "unused" <=> builds[b].stage = "unused"
        /\ builds'[b].app = builds[b].app /\ builds'[b].doc = builds[b].doc
        /\ builds'[b].generation = builds[b].generation
    BY <1>7, <1>8, CrashedBuilds
  <2> QED
    BY <1>1, <1>2, <2>1 DEF Completing, Made
<1>10. /\ torn \subseteq torn' /\ torn' \subseteq Doc
       /\ stray \subseteq stray' /\ stray' \subseteq Build /\ b \in stray'
       /\ uploaded' \in 0..MaxDocs /\ uploaded <= uploaded'
  BY <1>3, <1>8, Bounds DEF Typed
<1>11. DiskInv(left, a, uploaded', torn', stray', builds', g)
  <2>1. /\ DiskInv(D, a, uploaded', torn, stray, builds, g)
        /\ RunOk(b, builds[b], D, torn, stray)
    BY <1>2, <1>3 DEF Completing
  <2>2. Marked(b, d, last, "none", torn', stray')
    BY <1>5, <1>10 DEF Marked
  <2>3. d = DocumentIdByPath(D, builds[b].name)
    OBVIOUS
  <2>4. CompletionLeft(left, D, b, d, builds[b].text, last, "none")
    BY <1>6
  <2> HIDE DEF D, g, d, n, text
  <2> QED
    BY <1>1, <1>9, <1>10, <2>1, <2>2, <2>3, <2>4, CompletionDisk
<1>12. ASSUME NEW c \in Build, left.index[c] = "mapped"
       PROVE  Accounted(c, left, torn', stray', builds')
  <2>1. CASE c = b
    BY <1>10, <2>1 DEF Accounted
  <2>2. CASE c # b
    <3>1. /\ MadeOk(D, builds, a, g)
          /\ CacheInv(D, cache[a], a, torn, stray, builds, g, restarts)
      BY <1>2 DEF Completing
    <3> HIDE DEF D, g, d, n, text
    <3>2. StillAccounted(c, left, D, cache[a], a, g, torn', stray', builds, builds')
      BY <1>6, <1>9, <1>10, <2>2, <3>1, CompletionAccounted
    <3> QED
      BY <1>12, <3>2 DEF StillAccounted
  <2> QED
    BY <2>1, <2>2
<1> HIDE DEF g
<1> QED
  BY <1>3, <1>7, <1>10, <1>11, <1>12, CrashKeeps DEF g

-----------------------------------------------------------------------------
(* Destroying, and the beginning                                           *)

\* A store with nothing in it.
LEMMA EmptyOk ==
    ASSUME NEW a, NEW u, NEW T, NEW S, NEW B, NEW g, NEW life
    PROVE  /\ DiskInv(EmptyDisk, a, u, T, S, B, g)
           /\ CacheInv(EmptyDisk, EmptyCache, a, T, S, B, g, life)
<1>1. /\ EmptyDisk \in Disk /\ EmptyDisk.rows = {} /\ EmptyDisk.chunks = {}
      /\ \A b \in Build : EmptyDisk.index[b] = "absent"
  BY EmptyTyped
<1>2. DiskInv(EmptyDisk, a, u, T, S, B, g)
  BY <1>1 DEF DiskInv, RowsOk, FilesOk, MadeOk, Stored, ChunksOk, SearchableOk
<1>3. CacheInv(EmptyDisk, EmptyCache, a, T, S, B, g, life)
  BY <1>1, EmptyCacheOk
<1> QED
  BY <1>2, <1>3

LEMMA DestroyKeeps ==
    ASSUME VInv, NEW a \in App, DestroyIndex(a)
    PROVE  VInv'
<1>1. /\ process = "running" /\ generation[a] < MaxDestroys
      /\ OpenSession(a) /\ known' = LoadProjects(a)
      /\ disk' = [disk EXCEPT ![a] = EmptyDisk]
      /\ cache' = [cache EXCEPT ![a] = EmptyCache]
      /\ builds' = [b \in Build |-> IF builds[b].app = a THEN Over(builds[b]) ELSE builds[b]]
      /\ generation' = [generation EXCEPT ![a] = generation[a] + 1]
      /\ UNCHANGED <<project, uploaded, searches, process, announced, ghosts, counters,
                     history>>
  BY DEF DestroyIndex, Running, DropWorkflows, VInv, Typed
<1>2. Typed /\ a # NoApp
  BY SessionsAssumption DEF VInv, SessionsAssumption
<1>3. /\ disk'[a] = EmptyDisk /\ cache'[a] = EmptyCache
      /\ \A c \in App : c # a => /\ disk'[c] = disk[c] /\ cache'[c] = cache[c]
                                 /\ generation'[c] = generation[c]
      /\ DOMAIN disk' = App /\ DOMAIN cache' = App
      /\ generation' \in [App -> 0..MaxDestroys]
  <2>1. generation[a] + 1 \in 0..MaxDestroys
    BY <1>1, <1>2, Bounds DEF Typed
  <2>2. DOMAIN disk = App /\ DOMAIN cache = App /\ generation \in [App -> 0..MaxDestroys]
    BY <1>2 DEF Typed
  <2> QED
    BY <1>1, <2>1, <2>2
<1>4. ASSUME NEW b \in Build
      PROVE  /\ builds'[b] \in BuildRecord
             /\ builds[b].app # a => builds'[b] = builds[b]
             /\ builds[b].app = a => /\ builds'[b].stage = "ended" /\ builds'[b].app = a
                                     /\ builds'[b].doc = builds[b].doc
                                     /\ builds'[b].generation = builds[b].generation
                                     /\ builds'[b].life = builds[b].life
                                     /\ builds[b].stage # "unused"
  <2>1. builds[b] \in BuildRecord /\ BuildOk(b)
    BY <1>2 DEF Typed, VInv
  <2> QED
    BY <1>1, <1>2, <2>1, OverIs DEF BuildOk
<1>5. Later(builds, builds')
  BY <1>4 DEF Later, LaterBuild
<1>6. Typed'
  <2>1. session' \subseteq App /\ connection' \in App \cup {NoApp} /\ LoadProjects(a) \subseteq project
    BY <1>1, <1>2, Opened
  <2>2. builds' \in [Build -> BuildRecord]
    BY <1>1, <1>4
  <2> QED
    BY <1>1, <1>2, <1>3, <2>1, <2>2 DEF Typed, counters, history
<1>7. AppInv(a)'
  BY <1>3, EmptyOk DEF AppInv
<1>8. torn' = torn /\ stray' = stray /\ restarts' = restarts /\ uploaded <= uploaded'
  BY <1>1, <1>2, Bounds DEF counters, history, Typed
<1>9. ASSUME NEW b \in Build PROVE BuildOk(b)'
  <2>1. BuildOk(b) /\ builds[b] \in BuildRecord
    BY <1>2 DEF VInv, Typed
  <2>2. CASE builds[b].app = a
    BY <1>2, <1>4, <1>8, <2>1, <2>2 DEF BuildOk, UnderWay, Meet
  <2>3. CASE builds[b].app = NoApp
    BY <1>2, <1>4, <1>8, <2>1, <2>3 DEF BuildOk, UnderWay, Meet
  <2>4. CASE builds[b].app \notin {a, NoApp}
    <3>1. builds[b].app \in App
      BY <2>1, <2>4, BuildTyped
    <3>2. UnderWay(builds[b]) => RunOk(b, builds[b], disk'[builds[b].app], torn', stray')
      BY <1>3, <1>8, <2>1, <2>4, <3>1 DEF BuildOk
    <3>3. \A c \in Build \ {b} : Meet(builds[b], builds'[c]) => Meet(builds[b], builds[c])
      BY <1>4, <2>4 DEF Meet
    <3> QED
      BY <1>3, <1>4, <1>8, <2>4, <3>1, <3>2, <3>3, BuildKept
  <2> QED
    BY <2>2, <2>3, <2>4
<1> QED
  BY <1>1, <1>3, <1>5, <1>6, <1>7, <1>8, <1>9, StoreStep

LEMMA InitHolds == ASSUME Init PROVE VInv
<1>1. Typed
  <2>1. <<>> \in Seq([app : App, generation : 0..MaxDestroys])
    OBVIOUS
  <2>2. 0 \in 0..MaxDestroys /\ 0 \in 0..MaxDocs /\ 0 \in 0..MaxRestarts
    BY Bounds
  <2> QED
    BY <2>1, <2>2, UnusedTyped DEF Init, Typed
<1>2. ASSUME NEW a \in App PROVE AppInv(a)
  BY EmptyOk DEF Init, AppInv
<1>3. ASSUME NEW b \in Build PROVE BuildOk(b)
  <2>1. Unused.stage = "unused" /\ Unused.app = NoApp /\ Unused.life = 0
    BY DEF Unused
  <2> HIDE DEF Unused
  <2> QED
    BY <2>1 DEF Init, BuildOk, UnderWay, Meet
<1>4. GhostsOk /\ HangsOnlyOnReload
  BY DEF Init, GhostsOk, HangsOnlyOnReload
<1> QED
  BY <1>1, <1>2, <1>3, <1>4 DEF VInv

LEMMA NextKeeps == ASSUME VInv, [Next]_vars PROVE VInv'
<1>1. CASE UNCHANGED vars
  <2>1. Typed'
    BY <1>1 DEF VInv, Typed, vars
  <2> QED
    BY <1>1, <2>1, QuietKeeps DEF vars
<1>2. CASE Next
  <2>1. CASE Restart \/ FinishSearch \/ FinishSearchFreed
    BY <2>1, RestartKeeps, FinishSearchKeeps, FinishSearchFreedKeeps
  <2>2. ASSUME NEW a \in App, DocumentsInfo(a) \/ DestroyIndex(a) \/ StartSearch(a)
        PROVE  VInv'
    BY <2>2, InfoKeeps, DestroyKeeps, StartSearchKeeps
  <2>3. ASSUME NEW a \in App, NEW x \in Base, UploadDocument(a, x) \/ CrashInUpload(a, x)
        PROVE  VInv'
    BY <2>3, UploadKeeps, CrashInUploadKeeps
  <2>4. ASSUME NEW a \in App, NEW d \in Doc,
               NEW fault \in {"none", "save", "database"}, DeleteDocument(a, d, fault)
        PROVE  VInv'
    BY <2>4, DeleteKeeps
  <2>5. ASSUME NEW a \in App, NEW d \in Doc, CrashInDelete(a, d) \/ HangInDelete(a, d)
        PROVE  VInv'
    BY <2>5, CrashInDeleteKeeps, HangInDeleteKeeps
  <2>6. ASSUME NEW a \in App, NEW d \in Doc, NEW b \in Build, BuildIndex(a, d, b)
        PROVE  VInv'
    BY <2>6, BuildIndexKeeps
  <2>7. ASSUME NEW b \in Build, ParseFile(b) \/ CrashInComplete(b)
        PROVE  VInv'
    BY <2>7, ParseFileKeeps, CrashInCompleteKeeps
  <2>8. ASSUME NEW b \in Build, NEW fault \in {"none", "chunks", "vectors", "save"},
               CompleteBuild(b, fault)
        PROVE  VInv'
    BY <2>8, CompleteKeeps
  <2> QED
    BY <1>2, <2>1, <2>2, <2>3, <2>4, <2>5, <2>6, <2>7, <2>8 DEF Next
<1> QED
  BY <1>1, <1>2

-----------------------------------------------------------------------------
(* What holds of every behaviour                                           *)

\* The inductive invariant of the vector database: rows, files, chunks,
\* indexes, cache and running builds fit each other, whatever requests, failed
\* writes and ends of the process have come before.
THEOREM StoreInvariant == Spec => []VInv
<1>1. Init => VInv
  BY InitHolds
<1>2. VInv /\ [Next]_vars => VInv'
  BY NextKeeps
<1> QED
  BY <1>1, <1>2, PTL DEF Spec

\* Every variable keeps its type; a document no removal broke keeps its file,
\* though genBackupFileName numbers names by counting rows; and a chunk has
\* another document's text only when its build overlapped a removal or another
\* build of its name, or a step failed.
THEOREM StoreAgreesAlways == Spec => []StoreAgrees
<1>1. ASSUME VInv PROVE StoreAgrees
  <2> USE <1>1 DEF VInv
  <2>1. ASSUME NEW a \in App
        PROVE  /\ disk[a] \in Disk /\ RowsOk(disk[a], uploaded) /\ FilesOk(disk[a], torn)
               /\ ChunksOk(disk[a], torn, stray, builds)
               /\ cache[a] \in Cache
               /\ \A b \in cache[a].held : cache[a].entry[b] # "none"
    BY DEF AppInv, DiskInv, CacheInv
  <2>2. StoreTypeOK
    <3>1. ASSUME NEW a \in App
          PROVE  /\ disk[a].rows \subseteq RowRecord
                 /\ \A r, s \in disk[a].rows : r.doc = s.doc => r = s
                 /\ disk[a].files \in [Name -> 0..MaxDocs]
                 /\ disk[a].chunks \subseteq ChunkRecord
                 /\ disk[a].index \in [Build -> {"absent", "unmapped", "mapped"}]
                 /\ cache[a].entry \in [Build -> {"none", "built", "loaded"}]
                 /\ cache[a].held \subseteq {b \in Build : cache[a].entry[b] # "none"}
      BY <2>1, DiskTyped, CacheTyped DEF RowsOk, IndexState
    <3> QED
      BY <3>1 DEF StoreTypeOK, Typed
  <2>3. DocumentsKeepTheirFile
    BY <2>1 DEF DocumentsKeepTheirFile, FilesOk
  <2>4. ChunkTextIsOwn
    BY <2>1 DEF ChunkTextIsOwn, ChunksOk, ChunkOk
  <2> QED
    BY <2>2, <2>3, <2>4 DEF StoreAgrees
<1> QED
  BY <1>1, StoreInvariant, PTL

\* A search finds every document called Vectorized, its index and id map on
\* the disk and its chunk in the table, and no vector whose chunk is gone: but
\* for builds that overlapped a removal or another build of their name, and for
\* what a failed step or the end of the process left in pieces.
THEOREM SearchesFind == Spec => []SearchesFindDocuments
<1>1. ASSUME VInv PROVE SearchesFindDocuments
  <2>1. \A a \in App : SearchableOk(disk[a], torn)
    BY <1>1 DEF VInv, AppInv, DiskInv
  <2>2. VectorizedIsSearchable
    BY <2>1 DEF VectorizedIsSearchable, SearchableOk
  <2>3. GhostsOnlyFromOverlap
    BY <1>1 DEF VInv, GhostsOk, GhostsOnlyFromOverlap
  <2> QED
    BY <2>2, <2>3 DEF SearchesFindDocuments
<1> QED
  BY <1>1, StoreInvariant, PTL

\* No build begun before an application's DestroyIndex stores a chunk or an
\* index in it afterwards: its VectorDb took its workflows with it.
THEOREM NothingSurvives == Spec => []NothingOutlivesDestroy
<1>1. ASSUME VInv PROVE NothingOutlivesDestroy
  <2>1. \A a \in App : MadeOk(disk[a], builds, a, generation[a])
    BY <1>1 DEF VInv, AppInv, DiskInv
  <2> QED
    BY <2>1 DEF NothingOutlivesDestroy, MadeOk, Stored, Made
<1> QED
  BY <1>1, StoreInvariant, PTL

\* IndexCache::addIndex locks the interface's thread out only over indexes of
\* earlier lives of the process, more of them than the cache holds.
THEOREM HangsOnReload == Spec => []HangsOnlyOnReload
<1>1. VInv => HangsOnlyOnReload
  BY DEF VInv
<1> QED
  BY <1>1, StoreInvariant, PTL
=============================================================================
