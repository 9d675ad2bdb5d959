--------------------------- MODULE SequenceLemmas ---------------------------
(***************************************************************************)
(* Queues seen as sets: what Append and Tail do to the elements of a       *)
(* sequence and to its freedom from duplicates. And finite sets of numbers *)
(* seen as sequences: each member has a rank, and each rank a member. And  *)
(* induction and recursion along numbers, for what is computed by them.    *)
(***************************************************************************)
EXTENDS Integers, Sequences, FiniteSetTheorems, WellFoundedInduction, TLAPS

Elems(s) == {s[i] : i \in 1..Len(s)}
Distinct(s) == \A i, j \in 1..Len(s) : s[i] = s[j] => i = j

LEMMA EmptyElems == Elems(<<>>) = {} /\ Distinct(<<>>)
BY DEF Elems, Distinct

LEMMA ElemsTyped ==
    ASSUME NEW S, NEW s \in Seq(S)
    PROVE  Elems(s) \subseteq S
BY DEF Elems

\* Only the empty sequence has no elements.
LEMMA ElemsEmpty ==
    ASSUME NEW S, NEW s \in Seq(S), Elems(s) = {}
    PROVE  s = <<>>
<1> SUFFICES ASSUME s # <<>> PROVE FALSE
  OBVIOUS
<1>1. 1 \in 1..Len(s)
  OBVIOUS
<1> QED
  BY <1>1 DEF Elems

\* Appending adds one element, and no duplicate when the element is new.
LEMMA AppendElems ==
    ASSUME NEW S, NEW s \in Seq(S), NEW e \in S
    PROVE  /\ Append(s, e) \in Seq(S)
           /\ Elems(Append(s, e)) = Elems(s) \cup {e}
           /\ Distinct(s) /\ e \notin Elems(s) => Distinct(Append(s, e))
<1> DEFINE r == Append(s, e)
<1>1. r \in Seq(S) /\ Len(r) = Len(s) + 1
  OBVIOUS
<1>2. \A i \in 1..Len(s) : r[i] = s[i]
  OBVIOUS
<1>3. r[Len(s) + 1] = e
  OBVIOUS
<1>4. 1..Len(r) = (1..Len(s)) \cup {Len(s) + 1}
  BY <1>1
<1> HIDE DEF r
<1>5. Elems(r) = Elems(s) \cup {e}
  BY <1>2, <1>3, <1>4 DEF Elems
<1>6. ASSUME Distinct(s), e \notin Elems(s)
      PROVE  Distinct(r)
  BY <1>2, <1>3, <1>4, <1>6 DEF Distinct, Elems
<1> QED
  BY <1>1, <1>5, <1>6 DEF r

\* The head is an element, and the tail has all the others.
LEMMA HeadTail ==
    ASSUME NEW S, NEW s \in Seq(S), s # <<>>
    PROVE  /\ Head(s) \in S
           /\ Tail(s) \in Seq(S)
           /\ Head(s) \in Elems(s)
           /\ Elems(Tail(s)) \subseteq Elems(s)
           /\ Distinct(s) => Distinct(Tail(s)) /\ Elems(Tail(s)) = Elems(s) \ {Head(s)}
<1> DEFINE r == Tail(s)
<1>1. Head(s) = s[1] /\ 1 \in 1..Len(s)
  OBVIOUS
<1>2. r \in Seq(S) /\ Len(r) = Len(s) - 1
  OBVIOUS
<1>3. \A i \in 1..Len(r) : i + 1 \in 1..Len(s) /\ r[i] = s[i + 1]
  OBVIOUS
<1>4. \A j \in 1..Len(s) : j = 1 \/ (j - 1 \in 1..Len(r) /\ r[j - 1] = s[j])
  <2> TAKE j \in 1..Len(s)
  <2>1. CASE j = 1
    BY <2>1
  <2>2. CASE j # 1
    <3>1. j - 1 \in 1..Len(r)
      BY <1>2, <2>2
    <3>2. r[j - 1] = s[(j - 1) + 1]
      BY <1>3, <3>1
    <3> QED
      BY <3>1, <3>2
  <2> QED
    BY <2>1, <2>2
<1> HIDE DEF r
<1>5. Head(s) \in S /\ Head(s) \in Elems(s)
  BY <1>1 DEF Elems
<1>6. Elems(r) \subseteq Elems(s)
  BY <1>3 DEF Elems
<1>7. ASSUME Distinct(s)
      PROVE  Distinct(r) /\ Elems(r) = Elems(s) \ {Head(s)}
  <2>1. Distinct(r)
    <3> SUFFICES ASSUME NEW i \in 1..Len(r), NEW j \in 1..Len(r), r[i] = r[j]
                 PROVE  i = j
      BY DEF Distinct
    <3>1. s[i + 1] = s[j + 1] /\ i + 1 \in 1..Len(s) /\ j + 1 \in 1..Len(s)
      BY <1>3
    <3>2. i + 1 = j + 1
      BY <1>7, <3>1 DEF Distinct
    <3> QED
      BY <3>2
  <2>2. \A i \in 1..Len(r) : r[i] # Head(s)
    <3> SUFFICES ASSUME NEW i \in 1..Len(r), r[i] = Head(s) PROVE FALSE
      OBVIOUS
    <3>1. i + 1 = 1
      BY <1>1, <1>3, <1>7 DEF Distinct
    <3> QED
      BY <3>1
  <2>3. Elems(r) \subseteq Elems(s) \ {Head(s)}
    BY <1>6, <2>2 DEF Elems
  <2>4. Elems(s) \ {Head(s)} \subseteq Elems(r)
    BY <1>1, <1>4 DEF Elems
  <2> QED
    BY <2>1, <2>3, <2>4
<1> QED
  BY <1>2, <1>5, <1>6, <1>7 DEF r

\* Two sequences, one after the other.
LEMMA Concatenated ==
    ASSUME NEW S, NEW a \in Seq(S), NEW b \in Seq(S)
    PROVE  /\ a \o b \in Seq(S) /\ Len(a \o b) = Len(a) + Len(b)
           /\ \A i \in 1..Len(a) : (a \o b)[i] = a[i]
           /\ \A i \in 1..Len(b) : (a \o b)[Len(a) + i] = b[i]
OBVIOUS

LEMMA TwoBehind ==
    ASSUME NEW S, NEW a \in Seq(S), NEW b \in Seq(S), NEW c \in Seq(S)
    PROVE  (a \o b) \o c = a \o (b \o c)
<1> DEFINE l == (a \o b) \o c
           r == a \o (b \o c)
<1>1. a \o b \in Seq(S) /\ b \o c \in Seq(S)
  BY Concatenated
<1>2. l \in Seq(S) /\ r \in Seq(S) /\ Len(l) = Len(a) + Len(b) + Len(c) /\ Len(r) = Len(l)
  <2>1. /\ l \in Seq(S) /\ Len(l) = Len(a \o b) + Len(c) /\ Len(a \o b) = Len(a) + Len(b)
        /\ r \in Seq(S) /\ Len(r) = Len(a) + Len(b \o c) /\ Len(b \o c) = Len(b) + Len(c)
    BY <1>1, Concatenated
  <2> HIDE DEF l, r
  <2>2. Len(a) \in Nat /\ Len(b) \in Nat /\ Len(c) \in Nat
    OBVIOUS
  <2> QED
    BY <2>1, <2>2
<1>3. \A i \in 1..Len(l) : l[i] = r[i]
  OBVIOUS
<1> HIDE DEF l, r
<1>4. l = r
  BY <1>2, <1>3
<1> QED
  BY <1>4 DEF l, r

LEMMA NumbersBehind ==
    ASSUME NEW a \in Seq(Nat), NEW b \in Seq(Nat), NEW c \in Seq(Nat)
    PROVE  (a \o b) \o c = a \o (b \o c)
<1> DEFINE S == Nat
<1>1. a \in Seq(S) /\ b \in Seq(S) /\ c \in Seq(S)
  OBVIOUS
<1> HIDE DEF S
<1> QED
  BY <1>1, TwoBehind

LEMMA NothingBehind ==
    ASSUME NEW S, NEW a \in Seq(S)
    PROVE  a \o <<>> = a /\ <<>> \o a = a
OBVIOUS

LEMMA AppendIsBehind ==
    ASSUME NEW S, NEW a \in Seq(S), NEW x \in S
    PROVE  Append(a, x) = a \o <<x>>
OBVIOUS

LEMMA HeadBeforeTail ==
    ASSUME NEW S, NEW a \in Seq(S), a # <<>>
    PROVE  a = <<Head(a)>> \o Tail(a) /\ Head(a) \in S /\ Tail(a) \in Seq(S) /\ <<Head(a)>> \in Seq(S)
OBVIOUS

-----------------------------------------------------------------------------
(* Elements of a finite set of numbers by their rank                       *)

\* How many members of the set come before x.
RankIn(S, x) == Cardinality({d \in S : d < x})

LEMMA RankTyped ==
    ASSUME NEW S, IsFiniteSet(S), S \subseteq Int, NEW x \in Int
    PROVE  /\ IsFiniteSet({d \in S : d < x}) /\ RankIn(S, x) \in Nat
           /\ x \in S => RankIn(S, x) < Cardinality(S)
<1> DEFINE B == {d \in S : d < x}
<1>1. B \in SUBSET S /\ (x \in S => B # S)
  OBVIOUS
<1>2. IsFiniteSet(B) /\ Cardinality(B) <= Cardinality(S) /\ (Cardinality(S) = Cardinality(B) => S = B)
  BY <1>1, FS_Subset
<1>3. Cardinality(B) \in Nat /\ Cardinality(S) \in Nat
  BY <1>2, FS_CardinalityType
<1> QED
  BY <1>1, <1>2, <1>3 DEF RankIn

LEMMA RankIncreases ==
    ASSUME NEW S, IsFiniteSet(S), S \subseteq Int, NEW a \in S, NEW b \in Int, a < b
    PROVE  RankIn(S, a) < RankIn(S, b)
<1> DEFINE A == {d \in S : d < a}
           B == {d \in S : d < b}
<1>1. A \in SUBSET B /\ a \in B /\ a \notin A
  <2>1. \A d \in S : d \in Int /\ (d < a => d < b) /\ ~(a < a)
    OBVIOUS
  <2> QED
    BY <2>1
<1>2. IsFiniteSet(A) /\ IsFiniteSet(B) /\ Cardinality(A) \in Nat /\ Cardinality(B) \in Nat
  BY RankTyped DEF RankIn
<1>3. Cardinality(A) <= Cardinality(B) /\ (Cardinality(B) = Cardinality(A) => B = A)
  BY <1>1, <1>2, FS_Subset
<1> QED
  BY <1>1, <1>2, <1>3 DEF RankIn

\* A rank belongs to one element.
LEMMA RankIsOwn ==
    ASSUME NEW S, IsFiniteSet(S), S \subseteq Int, NEW a \in S, NEW b \in S, RankIn(S, a) = RankIn(S, b)
    PROVE  a = b
<1>1. a \in Int /\ b \in Int /\ RankIn(S, a) \in Nat
  BY RankTyped
<1>2. a < b => RankIn(S, a) < RankIn(S, b)
  BY <1>1, RankIncreases
<1>3. b < a => RankIn(S, b) < RankIn(S, a)
  BY <1>1, RankIncreases
<1> QED
  BY <1>1, <1>2, <1>3

\* Every rank below the size of the set is some element's.
LEMMA RankIsMet ==
    ASSUME NEW S, IsFiniteSet(S), S \subseteq Int, NEW n \in Nat, n < Cardinality(S)
    PROVE  \E e \in S : RankIn(S, e) = n
<1> DEFINE c == Cardinality(S)
           T == 0..c - 1
           f == [e \in S |-> RankIn(S, e)]
<1>1. c \in Nat /\ c > 0
  BY FS_CardinalityType
<1>2. IsFiniteSet(T) /\ Cardinality(T) = c
  <2>1. 0 \in Int /\ c - 1 \in Int /\ ~(0 > c - 1)
    BY <1>1
  <2>2. IsFiniteSet(T) /\ Cardinality(T) = c - 1 - 0 + 1
    BY <2>1, FS_Interval
  <2> QED
    BY <1>1, <2>2
<1>3. \A e \in S : RankIn(S, e) \in T
  <2> TAKE e \in S
  <2>1. e \in Int /\ RankIn(S, e) \in Nat /\ RankIn(S, e) < c
    BY RankTyped
  <2> QED
    BY <1>1, <2>1
<1>4. f \in [S -> T]
  BY <1>3
<1>5. f \in Injection(S, T)
  <2>1. \A a, b \in S : f[a] = f[b] => a = b
    BY RankIsOwn
  <2> HIDE DEF f, T
  <2> QED
    BY <1>4, <2>1 DEF Injection, IsInjective
<1>6. f \in Surjection(S, T)
  <2> HIDE DEF f, T
  <2> QED
    BY <1>2, <1>5, FS_Injection
<1>7. \A t \in T : \E e \in S : f[e] = t
  <2> HIDE DEF f, T
  <2> QED
    BY <1>6 DEF Surjection
<1>8. n \in T
  BY <1>1
<1> QED
  BY <1>7, <1>8

\* The element of a rank, as CHOOSE finds it.
LEMMA RankChosen ==
    ASSUME NEW S, IsFiniteSet(S), S \subseteq Int, NEW n \in Nat, n < Cardinality(S)
    PROVE  LET e == CHOOSE x \in S : Cardinality({d \in S : d < x}) = n
           IN  e \in S /\ RankIn(S, e) = n
<1>1. \E x \in S : Cardinality({d \in S : d < x}) = n
  BY RankIsMet DEF RankIn
<1> QED
  BY <1>1 DEF RankIn

-----------------------------------------------------------------------------
(* Induction over numbers, as a statement about a set of them: the provers   *)
(* cannot instantiate the library's theorems, which take a predicate.        *)

\* A set of numbers has a least one, if it has any.
LEMMA LeastNumber ==
    ASSUME NEW T, T \subseteq Nat, T # {}
    PROVE  \E x \in T : \A y \in T : x <= y
<1> DEFINE R == OpToRel(<, Nat)
<1>1. IsWellFoundedOn(R, Nat)
  BY NatLessThanWellFounded
<1>2. \E x \in T : \A y \in T : ~ (<<y, x>> \in R)
  <2> HIDE DEF R
  <2> QED
    BY <1>1, WFMin
<1>3. \A x, y \in Nat : y < x => <<y, x>> \in R
  BY DEF OpToRel
<1> HIDE DEF R
<1>4. PICK x \in T : \A y \in T : ~ (<<y, x>> \in R)
  BY <1>2
<1>5. ASSUME NEW y \in T PROVE x <= y
  <2>1. x \in Nat /\ y \in Nat /\ ~(y < x)
    BY <1>3, <1>4
  <2> QED
    BY <2>1
<1> QED
  BY <1>5

LEMMA NumbersByInduction ==
    ASSUME NEW T, 0 \in T, \A n \in Nat : n \in T => n + 1 \in T
    PROVE  Nat \subseteq T
<1> SUFFICES ASSUME Nat \ T # {} PROVE FALSE
  OBVIOUS
<1>1. PICK x \in Nat \ T : \A y \in Nat \ T : x <= y
  BY LeastNumber
<1>2. x # 0 /\ x - 1 \in Nat /\ (x - 1) + 1 = x
  BY <1>1
<1>3. x - 1 \in T
  BY <1>1, <1>2
<1> QED
  BY <1>1, <1>2, <1>3

\* f is what step makes of a, N times, with values in S.
Follows(f, S, a, N, step) ==
    f \in [0..N -> S] /\ f[0] = a /\ \A k \in 1..N : f[k] = step[<<k, f[k - 1]>>]
Steps(S, N, step) == step \in [(1..N) \X S -> S]

\* What is defined by recursion along a finite sequence of steps exists.
LEMMA RecursionExists ==
    ASSUME NEW S, NEW a \in S, NEW N \in Nat, NEW step, Steps(S, N, step)
    PROVE  \E f : Follows(f, S, a, N, step)
<1> USE DEF Steps
<1> DEFINE Fits(f, n) == f[0] = a /\ \A k \in 1..n : f[k] = step[<<k, f[k - 1]>>]
           T == {n \in Nat : n <= N => \E f \in [0..n -> S] : Fits(f, n)}
<1>1. 0 \in T
  <2>1. [k \in 0..0 |-> a] \in [0..0 -> S] /\ Fits([k \in 0..0 |-> a], 0)
    OBVIOUS
  <2> QED
    BY <2>1
<1>2. ASSUME NEW n \in Nat, n \in T
      PROVE  n + 1 \in T
  <2> SUFFICES ASSUME n + 1 <= N
               PROVE  \E f \in [0..n + 1 -> S] : Fits(f, n + 1)
    OBVIOUS
  <2>1. PICK f \in [0..n -> S] : Fits(f, n)
    BY <1>2
  <2> DEFINE g == [k \in 0..n + 1 |-> IF k <= n THEN f[k] ELSE step[<<n + 1, f[n]>>]]
  <2>2. <<n + 1, f[n]>> \in (1..N) \X S /\ step[<<n + 1, f[n]>>] \in S
    BY <2>1
  <2>3. g \in [0..n + 1 -> S]
    BY <2>1, <2>2
  <2>4. g[0] = a
    BY <2>1
  <2>5. ASSUME NEW k \in 1..n + 1
        PROVE  g[k] = step[<<k, g[k - 1]>>]
    <3>1. CASE k = n + 1
      <4>1. g[k] = step[<<n + 1, f[n]>>] /\ g[k - 1] = f[n]
        BY <3>1
      <4> QED
        BY <3>1, <4>1
    <3>2. CASE k # n + 1
      <4>1. k \in 1..n /\ k - 1 \in 0..n
        BY <3>2
      <4>2. g[k] = f[k] /\ g[k - 1] = f[k - 1]
        BY <4>1
      <4> QED
        BY <2>1, <4>1, <4>2
    <3> QED
      BY <3>1, <3>2
  <2> QED
    BY <2>3, <2>4, <2>5
<1>3. Nat \subseteq T
  <2> HIDE DEF T
  <2> QED
    BY <1>1, <1>2, NumbersByInduction
<1> QED
  BY <1>3 DEF Follows

\* What holds at the beginning and is kept by every step holds everywhere.
LEMMA StepsByInduction ==
    ASSUME NEW N \in Nat, NEW T, 0 \in T, \A n \in 1..N : n - 1 \in T => n \in T
    PROVE  0..N \subseteq T
<1> DEFINE U == {n \in Nat : n <= N => n \in T}
<1>1. 0 \in U
  OBVIOUS
<1>2. ASSUME NEW n \in Nat, n \in U PROVE n + 1 \in U
  <2> SUFFICES ASSUME n + 1 <= N PROVE n + 1 \in T
    OBVIOUS
  <2>1. n + 1 \in 1..N /\ (n + 1) - 1 = n /\ n \in T
    BY <1>2
  <2> QED
    BY <2>1
<1>3. Nat \subseteq U
  <2> HIDE DEF U
  <2> QED
    BY <1>1, <1>2, NumbersByInduction
<1> QED
  BY <1>3

\* A number is its quotient times the divisor, and the rest.
Parts(n, d, q, r) == n = q * d + r /\ r < d /\ r <= n /\ (q # 0 => d <= n)

LEMMA Divided ==
    ASSUME NEW n \in Nat, NEW d \in Nat \ {0}
    PROVE  \E q \in Nat, r \in Nat : n \div d = q /\ n % d = r /\ Parts(n, d, q, r)
<1>1. PICK q \in Int, r \in 0..(d - 1) : n \div d = q /\ n % d = r /\ n = d * q + r
  BY Z3
<1>2. d * q > d * (0 - 1)
  BY <1>1
<1>3. q >= 0
  BY <1>2, Z3
<1>4. q # 0 => d * q >= d
  BY <1>3
<1>5. d * q >= 0
  BY <1>3
<1>6. q \in Nat /\ r \in Nat /\ n = q * d + r /\ r < d /\ r <= n /\ (q # 0 => d <= n)
  BY <1>1, <1>3, <1>4, <1>5
<1>7. Parts(n, d, q, r)
  BY <1>6 DEF Parts
<1> QED
  BY <1>1, <1>6, <1>7
=============================================================================
