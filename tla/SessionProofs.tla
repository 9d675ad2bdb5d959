---------------------------- MODULE SessionProofs ----------------------------
(***************************************************************************)
(* The books of the sessions: that the two threads of the D-Bus front      *)
(* agree on which sessions there are, that the requests of media sessions  *)
(* are answered, and that what is said and heard over the web sockets is   *)
(* whole; for any clients, bounds and order of events.                     *)
(*                                                                         *)
(* HeldSessionsTracked is not inductive: onSessionDestroyed takes an entry *)
(* out of the tracking table on a notice, so one has to know that a notice *)
(* is about a session that is gone for good. That needs the session to be  *)
(* gone when the notice is posted, and that no id is given out again.      *)
(*                                                                         *)
(* AnsweredOnce is inductive only with the places of a request made        *)
(* disjoint (OnceOk) and with a result that is posted once (EventsOk);     *)
(* BoxesAreTheTexts needs what the engine of an OCR session holds for each *)
(* request that has begun (EngineOk).                                      *)
(*                                                                         *)
(* AudioIsKept is about the provider's stream only. It is inductive with   *)
(* what its frames are while it goes on (BufferOk) and while its end waits *)
(* (WaitingOk), and with nothing sent of a stream to come (Unstarted).     *)
(***************************************************************************)
EXTENDS SessionLifecycle, MediaSessions, SpeechRecognition, SpeechSynthesis, SequenceLemmas,
        FiniteSetTheorems, TLAPS

\* The session between createSession and its tracking exists.
CreatingHeld == creating # Nothing => creating \in sessions

\* Ids met anywhere were given out.
IdsGivenOut ==
    /\ \A e \in sessions \cup tracking : e[2] <= made
    /\ \A i \in Id : Posted(inbox, Destroyed(i)) => i <= made

\* A notice is about a session that is gone.
NoticesTrue == \A e \in sessions : ~Posted(inbox, Destroyed(e[2]))

IInv ==
    /\ TypeOK
    /\ CreatingHeld
    /\ IdsGivenOut
    /\ NoticesTrue
    /\ HeldSessionsTracked
    /\ TrackedSessionsHeld

-----------------------------------------------------------------------------
(* Queues                                                                  *)

\* What Append does to the messages posted.
LEMMA AppendPosted ==
    ASSUME NEW S, NEW q \in Seq(S), NEW m \in S, NEW x
    PROVE  /\ Append(q, m) \in Seq(S)
           /\ Posted(Append(q, m), x) <=> Posted(q, x) \/ x = m
<1> DEFINE r == Append(q, m)
<1>1. r \in Seq(S) /\ Len(r) = Len(q) + 1
  OBVIOUS
<1>2. \A i \in 1..Len(q) : r[i] = q[i]
  OBVIOUS
<1>3. r[Len(q) + 1] = m
  OBVIOUS
<1>4. 1..Len(r) = (1..Len(q)) \cup {Len(q) + 1}
  BY <1>1
<1> HIDE DEF r
<1>5. Posted(r, x) <=> Posted(q, x) \/ x = m
  BY <1>2, <1>3, <1>4 DEF Posted
<1> QED
  BY <1>1, <1>5 DEF r

\* What Tail does to the messages posted.
LEMMA TailPosted ==
    ASSUME NEW S, NEW q \in Seq(S), q # <<>>, NEW x
    PROVE  /\ Head(q) \in S
           /\ Tail(q) \in Seq(S)
           /\ Posted(q, Head(q))
           /\ Posted(Tail(q), x) => Posted(q, x)
           /\ Posted(q, x) /\ x # Head(q) => Posted(Tail(q), x)
<1> DEFINE r == Tail(q)
<1>1. Head(q) = q[1] /\ 1 \in 1..Len(q) /\ q[1] \in S
  OBVIOUS
<1>2. r \in Seq(S) /\ Len(r) = Len(q) - 1
  OBVIOUS
<1>3. \A i \in 1..Len(r) : i + 1 \in 1..Len(q) /\ r[i] = q[i + 1]
  OBVIOUS
<1>4. \A j \in 1..Len(q) : j # 1 => j - 1 \in 1..Len(r) /\ r[j - 1] = q[j]
  <2> SUFFICES ASSUME NEW j \in 1..Len(q), j # 1
               PROVE  j - 1 \in 1..Len(r) /\ r[j - 1] = q[j]
    OBVIOUS
  <2>1. j - 1 \in 1..Len(r)
    BY <1>2
  <2>2. r[j - 1] = q[(j - 1) + 1]
    BY <1>3, <2>1
  <2> QED
    BY <2>1, <2>2
<1> HIDE DEF r
<1>5. Posted(r, x) => Posted(q, x)
  BY <1>3 DEF Posted
<1>6. ASSUME Posted(q, x), x # Head(q)
      PROVE  Posted(r, x)
  BY <1>1, <1>4, <1>6 DEF Posted
<1>7. Posted(q, Head(q))
  BY <1>1 DEF Posted
<1> QED
  BY <1>1, <1>2, <1>5, <1>6, <1>7 DEF r

\* What concatenation does to the messages posted.
LEMMA ConcatPosted ==
    ASSUME NEW S, NEW q \in Seq(S), NEW p \in Seq(S), NEW x
    PROVE  /\ q \o p \in Seq(S)
           /\ Posted(q, x) => Posted(q \o p, x)
           /\ Posted(p, x) => Posted(q \o p, x)
<1> DEFINE r == q \o p
<1>1. r \in Seq(S) /\ Len(r) = Len(q) + Len(p) /\ Len(q) \in Nat /\ Len(p) \in Nat
  OBVIOUS
<1>2. \A i \in 1..Len(q) : i \in 1..Len(r) /\ r[i] = q[i]
  OBVIOUS
<1>3. \A i \in 1..Len(p) : Len(q) + i \in 1..Len(r) /\ r[Len(q) + i] = p[i]
  OBVIOUS
<1> HIDE DEF r
<1>4. Posted(q, x) => Posted(r, x)
  BY <1>2 DEF Posted
<1>5. Posted(p, x) => Posted(r, x)
  BY <1>3 DEF Posted
<1> QED
  BY <1>1, <1>4, <1>5 DEF r

\* SetToSeq of a finite set lists exactly its elements.
LEMMA SetListed ==
    ASSUME NEW S, IsFiniteSet(S)
    PROVE  /\ SetToSeq(S) \in Seq(S)
           /\ \A x \in S : Posted(SetToSeq(S), x)
<1> DEFINE n == Cardinality(S)
           f == SetToSeq(S)
<1>1. n \in Nat /\ ExistsBijection(1..n, S)
  BY FS_CardinalityType
<1>2. PICK g : g \in Bijection(1..n, S)
  BY <1>1 DEF ExistsBijection
<1>3. g \in [1..n -> S] /\ IsInjective(g)
  BY <1>2 DEF Bijection, Injection, IsInjective
<1>4. f \in [1..n -> S] /\ IsInjective(f)
  BY <1>3 DEF SetToSeq
<1>5. f \in Injection(1..n, S)
  BY <1>4 DEF Injection, IsInjective
<1>6. IsFiniteSet(1..n) /\ Cardinality(1..n) = n
  BY <1>1, FS_Interval
<1> HIDE DEF f
<1>7. f \in Surjection(1..n, S)
  BY <1>5, <1>6, FS_Injection
<1>8. \A x \in S : \E i \in 1..n : f[i] = x
  BY <1>7 DEF Surjection
<1> HIDE DEF n
<1>9. f \in Seq(S) /\ Len(f) = n
  BY <1>1, <1>4
<1> QED
  BY <1>8, <1>9 DEF Posted, f

\* A destruction is posted for each of the ids, and nothing else.
LEMMA AllDestroyed ==
    ASSUME NEW ids \in SUBSET Id
    PROVE  /\ DestroyAll(ids) \in Seq(Message)
           /\ \A i \in ids : Posted(DestroyAll(ids), Destroy(i))
<1> DEFINE S == {Destroy(i) : i \in ids}
           f == [i \in ids |-> Destroy(i)]
<1>1. IsFiniteSet(Id)
  BY LifecycleAssumption, FS_Interval DEF LifecycleAssumption, Id
<1>2. IsFiniteSet(ids)
  BY <1>1, FS_Subset
<1>3. f \in Surjection(ids, S)
  BY DEF Surjection
<1> HIDE DEF f
<1>4. IsFiniteSet(S)
  BY <1>2, <1>3, FS_Surjection
<1>5. S \subseteq Message
  BY DEF Message, Destroy
<1>6. SetToSeq(S) \in Seq(S) /\ \A x \in S : Posted(SetToSeq(S), x)
  BY <1>4, SetListed
<1>7. SetToSeq(S) \in Seq(Message)
  BY <1>5, <1>6
<1> QED
  BY <1>6, <1>7 DEF DestroyAll

-----------------------------------------------------------------------------
(* Messages                                                                *)

LEMMA Messages ==
    /\ \A c \in Client : Create(c) \in Message /\ Gone(c) \in Message
    /\ \A i \in Id : Destroy(i) \in Message /\ Destroyed(i) \in Message
    /\ \A m \in Message : m.kind \in {"create", "gone"} => m.client \in Client
    /\ \A m \in Message : m.kind = "destroy" => m.id \in Id /\ m = Destroy(m.id)
    /\ \A m \in Message : m.kind = "destroyed" => m.id \in Id /\ m = Destroyed(m.id)
BY DEF Message, Create, Gone, Destroy, Destroyed

LEMMA Differ ==
    /\ \A c, i : Create(c) # Destroyed(i) /\ Gone(c) # Destroyed(i)
    /\ \A c, i : Create(c) # Destroy(i) /\ Gone(c) # Destroy(i)
    /\ \A i, j : Destroy(i) # Destroyed(j)
    /\ \A i, j : Destroy(i) = Destroy(j) => i = j
    /\ \A i, j : Destroyed(i) = Destroyed(j) => i = j
BY DEF Create, Gone, Destroy, Destroyed

\* The steps there are; a call is a message appended to inbox, whoever makes it.
LEMMA StepCases ==
    ASSUME [Next]_vars
    PROVE  \/ \E c \in Client : CallCreate(c)
           \/ \E c \in Client : CallDestroy(c)
           \/ \E c \in Client : Leave(c)
           \/ Forward \/ OwnerChanged \/ SessionDestroyed
           \/ CreateSession \/ CreateFails \/ TrackSession \/ DestroySession
           \/ UNCHANGED vars
BY DEF Next, Clients, BusThread, SessionThread

-----------------------------------------------------------------------------
(* The inductive invariant                                                 *)

LEMMA InitInv == Init => IInv
<1> SUFFICES ASSUME Init PROVE IInv
  OBVIOUS
<1>1. TypeOK
  BY LifecycleAssumption DEF LifecycleAssumption, Init, TypeOK
<1>2. CreatingHeld /\ IdsGivenOut /\ NoticesTrue /\ HeldSessionsTracked /\ TrackedSessionsHeld
  BY DEF Init, CreatingHeld, IdsGivenOut, NoticesTrue, HeldSessionsTracked,
         TrackedSessionsHeld, Posted
<1> QED
  BY <1>1, <1>2 DEF IInv

\* What the head of a queue is.
LEMMA Heads ==
    ASSUME TypeOK
    PROVE  /\ inbox # <<>> => Head(inbox) \in Message /\ Tail(inbox) \in Seq(Message)
           /\ work # <<>> => Head(work) \in Message /\ Tail(work) \in Seq(Message)
BY TailPosted DEF TypeOK

\* The session a creation makes.
LEMMA SessionAdded ==
    ASSUME TypeOK, CreateSession
    PROVE  LET e == <<Head(work).client, made + 1>>
           IN  /\ e \in Entry
               /\ sessions' = sessions \cup {e} /\ creating' = e
               /\ tracking' = tracking /\ inbox' = inbox /\ work' = Tail(work)
               /\ made' = made + 1 /\ made' \in 0..MaxSessions
               /\ creating = Nothing
               /\ work # <<>> /\ Head(work).kind = "create"
<1>1. work # <<>> /\ Head(work).kind = "create" /\ creating = Nothing
  BY DEF CreateSession, Ready
<1>2. Head(work).client \in Client
  BY <1>1, Heads, Messages
<1>3. made + 1 \in Id /\ made' = made + 1
  BY LifecycleAssumption DEF LifecycleAssumption, CreateSession, TypeOK, Id
<1> QED
  BY <1>1, <1>2, <1>3 DEF CreateSession, FreshId, Entry, Id

LEMMA TypeStep == IInv /\ [Next]_vars => TypeOK'
<1> SUFFICES ASSUME IInv, [Next]_vars PROVE TypeOK'
  OBVIOUS
<1> USE LifecycleAssumption DEF LifecycleAssumption
<1>0. TypeOK /\ CreatingHeld /\ IdsGivenOut
  BY DEF IInv
<1>1. ASSUME NEW c \in Client, CallCreate(c) PROVE TypeOK'
  <2>1. inbox' \in Seq(Message)
    BY <1>0, <1>1, Messages, AppendPosted DEF TypeOK, CallCreate, Call
  <2>2. requests' \in 0..MaxRequests
    BY <1>0, <1>1 DEF TypeOK, CallCreate, Call
  <2> QED
    BY <1>0, <1>1, <2>1, <2>2 DEF TypeOK, CallCreate, Call
<1>2. ASSUME NEW c \in Client, CallDestroy(c) PROVE TypeOK'
  <2>1. PICK i \in known[c] : Call(c, Destroy(i))
    BY <1>2 DEF CallDestroy
  <2>2. i \in Id
    BY <1>0, <2>1 DEF TypeOK
  <2>3. inbox' \in Seq(Message)
    BY <1>0, <2>1, <2>2, Messages, AppendPosted DEF TypeOK, Call
  <2>4. requests' \in 0..MaxRequests
    BY <1>0, <2>1 DEF TypeOK, Call
  <2> QED
    BY <1>0, <2>1, <2>3, <2>4 DEF TypeOK, Call
<1>3. ASSUME NEW c \in Client, Leave(c) PROVE TypeOK'
  <2>1. inbox' \in Seq(Message)
    BY <1>0, <1>3, Messages, AppendPosted DEF TypeOK, Leave
  <2> QED
    BY <1>0, <1>3, <2>1 DEF TypeOK, Leave
<1>4. CASE Forward
  <2>1. inbox' \in Seq(Message) /\ Head(inbox) \in Message
    BY <1>0, <1>4, Heads DEF Forward, Take
  <2>2. work' \in Seq(Message)
    BY <1>0, <1>4, <2>1, AppendPosted DEF Forward, TypeOK
  <2> QED
    BY <1>0, <1>4, <2>1, <2>2 DEF TypeOK, Forward
<1>5. CASE OwnerChanged
  <2> DEFINE ids == {i \in Id : <<Head(inbox).client, i>> \in tracking}
  <2>1. inbox' \in Seq(Message)
    BY <1>0, <1>5, Heads DEF OwnerChanged, Take
  <2>2. DestroyAll(ids) \in Seq(Message)
    BY AllDestroyed
  <2>3. work' = work \o DestroyAll(ids)
    BY <1>5 DEF OwnerChanged
  <2> HIDE DEF ids
  <2>4. work' \in Seq(Message)
    BY <1>0, <2>2, <2>3, ConcatPosted DEF TypeOK
  <2>5. tracking' \subseteq tracking /\ UNCHANGED <<connected, requests, made, sessions, creating, known>>
    BY <1>5 DEF OwnerChanged
  <2> QED
    BY <1>0, <2>1, <2>4, <2>5 DEF TypeOK
<1>6. CASE SessionDestroyed
  <2>1. inbox' \in Seq(Message)
    BY <1>0, <1>6, Heads DEF SessionDestroyed, Take
  <2>2. tracking' \subseteq tracking /\ UNCHANGED <<connected, requests, work, made, sessions, creating, known>>
    BY <1>6 DEF SessionDestroyed
  <2> QED
    BY <1>0, <2>1, <2>2 DEF TypeOK
<1>7. CASE CreateSession
  <2> DEFINE e == <<Head(work).client, made + 1>>
  <2>1. /\ e \in Entry /\ sessions' = sessions \cup {e} /\ creating' = e
        /\ tracking' = tracking /\ inbox' = inbox /\ made' \in 0..MaxSessions
        /\ work' = Tail(work) /\ work # <<>>
    BY <1>0, <1>7, SessionAdded
  <2>2. work' \in Seq(Message)
    BY <1>0, <2>1, Heads
  <2>3. \A f \in sessions \cup tracking : f[2] # e[2]
    BY <1>0 DEF IdsGivenOut, TypeOK
  <2> HIDE DEF e
  <2>4. \A f, g \in sessions' \cup tracking' : f[2] = g[2] => f = g
    BY <1>0, <2>1, <2>3 DEF TypeOK
  <2> QED
    BY <1>0, <1>7, <2>1, <2>2, <2>4 DEF TypeOK, CreateSession
<1>8. CASE CreateFails
  <2>1. work' \in Seq(Message)
    BY <1>0, <1>8, Heads DEF CreateFails, Ready
  <2> QED
    BY <1>0, <1>8, <2>1 DEF TypeOK, CreateFails
<1>9. CASE TrackSession
  <2>1. creating \in Entry /\ creating \in sessions
    BY <1>0, <1>9 DEF TrackSession, TypeOK, CreatingHeld
  <2>2. creating[1] \in Client /\ creating[2] \in Id
    BY <2>1 DEF Entry
  <2>3. known' \in [Client -> SUBSET Id]
    BY <1>0, <1>9, <2>2 DEF TypeOK, TrackSession
  <2>4. tracking' = tracking \cup {creating} /\ creating' = Nothing
    BY <1>9 DEF TrackSession
  <2>5. sessions \cup tracking' = sessions \cup tracking
    BY <2>1, <2>4
  <2>6. \A f, g \in sessions' \cup tracking' : f[2] = g[2] => f = g
    BY <1>0, <1>9, <2>5 DEF TypeOK, TrackSession
  <2> QED
    BY <1>0, <1>9, <2>1, <2>3, <2>4, <2>6 DEF TypeOK, TrackSession
<1>10. CASE DestroySession
  <2>1. work' \in Seq(Message) /\ Head(work) \in Message /\ Head(work).id \in Id
    BY <1>0, <1>10, Heads, Messages DEF DestroySession, Ready
  <2>2. Append(inbox, Destroyed(Head(work).id)) \in Seq(Message)
    BY <1>0, <2>1, Messages, AppendPosted DEF TypeOK
  <2>3. inbox' \in Seq(Message)
    BY <1>0, <1>10, <2>2 DEF TypeOK, DestroySession
  <2>4. sessions' \subseteq sessions /\ UNCHANGED <<connected, requests, made, creating, tracking, known>>
    BY <1>10 DEF DestroySession
  <2> QED
    BY <1>0, <2>1, <2>3, <2>4 DEF TypeOK
<1>11. CASE UNCHANGED vars
  BY <1>0, <1>11 DEF TypeOK, vars
<1> QED
  BY <1>1, <1>2, <1>3, <1>4, <1>5, <1>6, <1>7, <1>8, <1>9, <1>10, <1>11, StepCases

\* An action that takes a message from inbox, and one that takes it from work.
LEMMA TakeInbox ==
    ASSUME TypeOK, NEW kind, Take(kind), NEW x
    PROVE  /\ Head(inbox) \in Message /\ Head(inbox).kind = kind
           /\ Posted(inbox, Head(inbox))
           /\ Posted(inbox', x) => Posted(inbox, x)
           /\ Posted(inbox, x) /\ x # Head(inbox) => Posted(inbox', x)
<1>1. inbox # <<>> /\ inbox' = Tail(inbox) /\ Head(inbox).kind = kind /\ inbox \in Seq(Message)
  BY DEF Take, TypeOK
<1>2. /\ Head(inbox) \in Message
      /\ Posted(inbox, Head(inbox))
      /\ Posted(Tail(inbox), x) => Posted(inbox, x)
      /\ Posted(inbox, x) /\ x # Head(inbox) => Posted(Tail(inbox), x)
  BY <1>1, TailPosted
<1> QED
  BY <1>1, <1>2

LEMMA TakeWork ==
    ASSUME TypeOK, NEW kind, Ready(kind), work' = Tail(work), NEW x
    PROVE  /\ Head(work) \in Message /\ Head(work).kind = kind
           /\ Posted(work, x) /\ x # Head(work) => Posted(work', x)
<1>1. work # <<>> /\ Head(work).kind = kind /\ work \in Seq(Message)
  BY DEF Ready, TypeOK
<1>2. /\ Head(work) \in Message
      /\ Posted(work, x) /\ x # Head(work) => Posted(Tail(work), x)
  BY <1>1, TailPosted
<1> QED
  BY <1>1, <1>2

\* Only destroying a session posts a notice, for a session that is then gone.
LEMMA NoticePosted ==
    ASSUME IInv, [Next]_vars, NEW i \in Id, Posted(inbox', Destroyed(i))
    PROVE  \/ Posted(inbox, Destroyed(i))
           \/ /\ \E e \in sessions : e[2] = i
              /\ \A e \in sessions' : e[2] # i
<1> DEFINE Goal == Posted(inbox, Destroyed(i))
<1>0. TypeOK /\ inbox \in Seq(Message)
  BY DEF IInv, TypeOK
<1>1. ASSUME NEW c \in Client, CallCreate(c) PROVE Goal
  BY <1>0, <1>1, Messages, Differ, AppendPosted DEF CallCreate, Call
<1>2. ASSUME NEW c \in Client, CallDestroy(c) PROVE Goal
  <2>1. PICK j \in known[c] : inbox' = Append(inbox, Destroy(j))
    BY <1>2 DEF CallDestroy, Call
  <2>2. Destroy(j) \in Message
    BY <1>0, <2>1, Messages DEF TypeOK
  <2> QED
    BY <1>0, <2>1, <2>2, Differ, AppendPosted
<1>3. ASSUME NEW c \in Client, Leave(c) PROVE Goal
  BY <1>0, <1>3, Messages, Differ, AppendPosted DEF Leave
<1>4. CASE Forward
  BY <1>0, <1>4, TakeInbox DEF Forward
<1>5. CASE OwnerChanged
  BY <1>0, <1>5, TakeInbox DEF OwnerChanged
<1>6. CASE SessionDestroyed
  BY <1>0, <1>6, TakeInbox DEF SessionDestroyed
<1>7. CASE CreateSession \/ CreateFails \/ TrackSession \/ UNCHANGED vars
  BY <1>7 DEF CreateSession, CreateFails, TrackSession, vars
<1>8. CASE DestroySession
  <2> DEFINE h == Head(work).id
             gone == {e \in sessions : e[2] = h}
  <2>1. h \in Id
    BY <1>0, <1>8, Heads, Messages DEF DestroySession, Ready
  <2>2. /\ sessions' = sessions \ gone
        /\ inbox' = IF gone # {} THEN Append(inbox, Destroyed(h)) ELSE inbox
    BY <1>8 DEF DestroySession
  <2>3. CASE gone = {}
    BY <2>2, <2>3
  <2>4. CASE gone # {}
    <3>1. Goal \/ Destroyed(i) = Destroyed(h)
      BY <1>0, <2>1, <2>2, <2>4, Messages, AppendPosted
    <3>2. Goal \/ i = h
      BY <3>1, Differ
    <3>3. (\E e \in sessions : e[2] = h) /\ \A e \in sessions' : e[2] # h
      BY <2>2, <2>4
    <3> QED
      BY <3>2, <3>3
  <2> QED
    BY <2>3, <2>4
<1> QED
  BY <1>1, <1>2, <1>3, <1>4, <1>5, <1>6, <1>7, <1>8, StepCases

\* A notice stays until nothing with its id is tracked.
LEMMA NoticeStays ==
    ASSUME IInv, [Next]_vars, NEW i \in Id, Posted(inbox, Destroyed(i))
    PROVE  Posted(inbox', Destroyed(i)) \/ \A e \in tracking' : e[2] # i
<1> DEFINE Goal == Posted(inbox', Destroyed(i))
<1>0. TypeOK /\ inbox \in Seq(Message)
  BY DEF IInv, TypeOK
<1>1. ASSUME NEW c \in Client, CallCreate(c) PROVE Goal
  BY <1>0, <1>1, Messages, AppendPosted DEF CallCreate, Call
<1>2. ASSUME NEW c \in Client, CallDestroy(c) PROVE Goal
  <2>1. PICK j \in known[c] : inbox' = Append(inbox, Destroy(j))
    BY <1>2 DEF CallDestroy, Call
  <2>2. Destroy(j) \in Message
    BY <1>0, <2>1, Messages DEF TypeOK
  <2> QED
    BY <1>0, <2>1, <2>2, AppendPosted
<1>3. ASSUME NEW c \in Client, Leave(c) PROVE Goal
  BY <1>0, <1>3, Messages, AppendPosted DEF Leave
<1>4. CASE Forward
  <2>1. \/ Take("create") \/ Take("destroy")
    BY <1>4 DEF Forward
  <2>2. Destroyed(i).kind = "destroyed"
    BY DEF Destroyed
  <2> QED
    BY <1>0, <2>1, <2>2, TakeInbox
<1>5. CASE OwnerChanged
  <2>1. Take("gone") /\ Destroyed(i).kind = "destroyed"
    BY <1>5 DEF OwnerChanged, Destroyed
  <2> QED
    BY <1>0, <2>1, TakeInbox
<1>6. CASE SessionDestroyed
  <2>1. Take("destroyed") /\ tracking' = {e \in tracking : e[2] # Head(inbox).id}
    BY <1>6 DEF SessionDestroyed
  <2>2. CASE Head(inbox) = Destroyed(i)
    <3>1. Head(inbox).id = i
      BY <2>2 DEF Destroyed
    <3> QED
      BY <2>1, <3>1
  <2>3. CASE Head(inbox) # Destroyed(i)
    BY <1>0, <2>1, <2>3, TakeInbox
  <2> QED
    BY <2>2, <2>3
<1>7. CASE CreateSession \/ CreateFails \/ TrackSession \/ UNCHANGED vars
  BY <1>7 DEF CreateSession, CreateFails, TrackSession, vars
<1>8. CASE DestroySession
  <2>1. Head(work).id \in Id
    BY <1>0, <1>8, Heads, Messages DEF DestroySession, Ready
  <2>2. inbox' = inbox \/ inbox' = Append(inbox, Destroyed(Head(work).id))
    BY <1>8 DEF DestroySession
  <2>3. Destroyed(Head(work).id) \in Message
    BY <2>1, Messages
  <2>4. Posted(Append(inbox, Destroyed(Head(work).id)), Destroyed(i))
    BY <1>0, <2>3, AppendPosted
  <2> QED
    BY <2>2, <2>4
<1> QED
  BY <1>1, <1>2, <1>3, <1>4, <1>5, <1>6, <1>7, <1>8, StepCases

\* A posted destruction stays until no session has its id.
LEMMA DestroyStays ==
    ASSUME IInv, [Next]_vars, NEW i \in Id, Posted(work, Destroy(i))
    PROVE  Posted(work', Destroy(i)) \/ \A e \in sessions' : e[2] # i
<1> DEFINE Goal == Posted(work', Destroy(i))
<1>0. TypeOK /\ work \in Seq(Message)
  BY DEF IInv, TypeOK
<1>1. ASSUME NEW c \in Client, CallCreate(c) \/ CallDestroy(c) \/ Leave(c) PROVE Goal
  BY <1>1 DEF CallCreate, CallDestroy, Call, Leave
<1>2. CASE Forward
  <2>1. Head(inbox) \in Message /\ work' = Append(work, Head(inbox))
    BY <1>0, <1>2, Heads DEF Forward, Take
  <2> QED
    BY <1>0, <2>1, AppendPosted
<1>3. CASE OwnerChanged
  <2> DEFINE ids == {j \in Id : <<Head(inbox).client, j>> \in tracking}
  <2>1. work' = work \o DestroyAll(ids)
    BY <1>3 DEF OwnerChanged
  <2>2. DestroyAll(ids) \in Seq(Message)
    BY AllDestroyed
  <2> QED
    BY <1>0, <2>1, <2>2, ConcatPosted
<1>4. CASE SessionDestroyed \/ TrackSession \/ UNCHANGED vars
  BY <1>4 DEF SessionDestroyed, TrackSession, vars
<1>5. CASE CreateSession \/ CreateFails
  <2>1. Ready("create") /\ work' = Tail(work)
    BY <1>5 DEF CreateSession, CreateFails
  <2>2. Destroy(i).kind = "destroy"
    BY DEF Destroy
  <2> QED
    BY <1>0, <2>1, <2>2, TakeWork
<1>6. CASE DestroySession
  <2>1. /\ Ready("destroy") /\ work' = Tail(work)
        /\ sessions' = sessions \ {e \in sessions : e[2] = Head(work).id}
    BY <1>6 DEF DestroySession
  <2>2. CASE Head(work) = Destroy(i)
    <3>1. Head(work).id = i
      BY <2>2 DEF Destroy
    <3> QED
      BY <2>1, <3>1
  <2>3. CASE Head(work) # Destroy(i)
    BY <1>0, <2>1, <2>3, TakeWork
  <2> QED
    BY <2>2, <2>3
<1> QED
  BY <1>1, <1>2, <1>3, <1>4, <1>5, <1>6, StepCases

\* How a step changes the tables: sessions are added with fresh ids, tracked
\* when they exist, and leave a table only when a message says so.
TablesChange ==
    /\ \A e \in sessions' :
          e \in sessions \/ (e = creating' /\ e[2] = made + 1 /\ made' = made + 1)
    /\ \A e \in tracking' : e \in tracking \/ e \in sessions
    /\ \A e \in sessions : e \in sessions' \/ Posted(inbox', Destroyed(e[2]))
    /\ \A e \in tracking :
          e \in tracking' \/ Posted(work', Destroy(e[2])) \/ Posted(inbox, Destroyed(e[2]))
    /\ creating' \in sessions' \cup {Nothing}
    /\ creating # Nothing => creating' = creating \/ creating \in tracking'
    /\ made' \in {made, made + 1}

LEMMA TablesStep == IInv /\ [Next]_vars => TablesChange
<1> SUFFICES ASSUME IInv, [Next]_vars PROVE TablesChange
  OBVIOUS
<1>0. TypeOK /\ creating \in sessions \cup {Nothing}
  BY DEF IInv, CreatingHeld
<1>1. CASE UNCHANGED <<made, sessions, creating, tracking>>
  BY <1>0, <1>1 DEF TablesChange
<1>2. ASSUME NEW c \in Client, CallCreate(c) \/ CallDestroy(c) \/ Leave(c) PROVE TablesChange
  <2>1. UNCHANGED <<made, sessions, creating, tracking>>
    BY <1>2 DEF CallCreate, CallDestroy, Call, Leave
  <2> QED
    BY <1>1, <2>1
<1>3. CASE Forward \/ CreateFails \/ UNCHANGED vars
  <2>1. UNCHANGED <<made, sessions, creating, tracking>>
    BY <1>3 DEF Forward, CreateFails, vars
  <2> QED
    BY <1>1, <2>1
<1>4. CASE OwnerChanged
  <2> DEFINE c == Head(inbox).client
             ids == {j \in Id : <<c, j>> \in tracking}
  <2>1. /\ UNCHANGED <<made, sessions, creating>> /\ work' = work \o DestroyAll(ids)
        /\ tracking' = {e \in tracking : e[1] # c}
    BY <1>4 DEF OwnerChanged
  <2>2. DestroyAll(ids) \in Seq(Message) /\ \A j \in ids : Posted(DestroyAll(ids), Destroy(j))
    BY AllDestroyed
  <2>3. work \in Seq(Message)
    BY <1>0 DEF TypeOK
  <2>4. \A j \in ids : Posted(work', Destroy(j))
    BY <2>1, <2>2, <2>3, ConcatPosted
  <2>5. \A e \in tracking : e \in Entry /\ (e[1] = c => e[2] \in ids)
    BY <1>0 DEF TypeOK, Entry
  <2> HIDE DEF c, ids
  <2> QED
    BY <1>0, <2>1, <2>4, <2>5 DEF TablesChange
<1>5. CASE SessionDestroyed
  <2>1. /\ Take("destroyed") /\ UNCHANGED <<made, sessions, creating>>
        /\ tracking' = {e \in tracking : e[2] # Head(inbox).id}
    BY <1>5 DEF SessionDestroyed
  <2>2. Posted(inbox, Head(inbox)) /\ Head(inbox) \in Message /\ Head(inbox).kind = "destroyed"
    BY <1>0, <2>1, TakeInbox
  <2>3. Posted(inbox, Destroyed(Head(inbox).id))
    BY <2>2, Messages
  <2> QED
    BY <1>0, <2>1, <2>3 DEF TablesChange
<1>6. CASE CreateSession
  <2> DEFINE e == <<Head(work).client, made + 1>>
  <2>1. /\ sessions' = sessions \cup {e} /\ creating' = e /\ tracking' = tracking
        /\ made' = made + 1 /\ creating = Nothing /\ e[2] = made + 1
    BY <1>0, <1>6, SessionAdded
  <2> HIDE DEF e
  <2> QED
    BY <2>1 DEF TablesChange
<1>7. CASE TrackSession
  <2>1. /\ creating # Nothing /\ tracking' = tracking \cup {creating} /\ creating' = Nothing
        /\ UNCHANGED <<made, sessions>>
    BY <1>7 DEF TrackSession
  <2> QED
    BY <1>0, <2>1 DEF TablesChange
<1>8. CASE DestroySession
  <2> DEFINE h == Head(work).id
             gone == {e \in sessions : e[2] = h}
  <2>1. h \in Id
    BY <1>0, <1>8, Heads, Messages DEF DestroySession, Ready
  <2>2. /\ sessions' = sessions \ gone /\ UNCHANGED <<made, creating, tracking>>
        /\ inbox' = IF gone # {} THEN Append(inbox, Destroyed(h)) ELSE inbox
        /\ creating = Nothing
    BY <1>8 DEF DestroySession, Ready
  <2>3. Posted(Append(inbox, Destroyed(h)), Destroyed(h))
    BY <1>0, <2>1, Messages, AppendPosted DEF TypeOK
  <2>4. \A e \in sessions : e \in sessions' \/ (e[2] = h /\ gone # {})
    BY <2>2
  <2> HIDE DEF h, gone
  <2>5. \A e \in sessions : e \in sessions' \/ Posted(inbox', Destroyed(e[2]))
    BY <2>2, <2>3, <2>4
  <2> QED
    BY <2>2, <2>5 DEF TablesChange
<1> QED
  BY <1>2, <1>3, <1>4, <1>5, <1>6, <1>7, <1>8, StepCases

LEMMA BooksStep ==
    ASSUME IInv, [Next]_vars
    PROVE  CreatingHeld' /\ IdsGivenOut' /\ NoticesTrue' /\ HeldSessionsTracked' /\ TrackedSessionsHeld'
<1>0. TypeOK /\ CreatingHeld /\ IdsGivenOut /\ NoticesTrue /\ HeldSessionsTracked /\ TrackedSessionsHeld
  BY DEF IInv
<1>t. TablesChange
  BY TablesStep
<1>1. \A e \in sessions \cup tracking : e[2] \in Id /\ e[2] \in Nat
  BY <1>0 DEF TypeOK, Entry, Id
<1>2. made \in Nat /\ made' \in {made, made + 1} /\ made <= made'
  BY <1>0, <1>t DEF TablesChange, TypeOK
<1>3. TypeOK'
  BY TypeStep
<1>4. \A e \in sessions' \cup tracking' : e[2] \in Id
  BY <1>3 DEF TypeOK, Entry
<1>5. CreatingHeld'
  BY <1>t DEF TablesChange, CreatingHeld
<1>6. IdsGivenOut'
  <2>1. \A e \in sessions' \cup tracking' : e[2] <= made'
    <3> SUFFICES ASSUME NEW e \in sessions' \cup tracking' PROVE e[2] <= made'
      OBVIOUS
    <3>1. e \in sessions \cup tracking \/ e[2] = made'
      BY <1>t DEF TablesChange
    <3>2. CASE e \in sessions \cup tracking
      <4>1. e[2] <= made
        BY <1>0, <3>2 DEF IdsGivenOut
      <4> QED
        BY <1>1, <1>2, <3>2, <4>1
    <3>3. CASE e[2] = made'
      BY <1>2, <3>3
    <3> QED
      BY <3>1, <3>2, <3>3
  <2>2. \A i \in Id : Posted(inbox', Destroyed(i)) => i <= made'
    <3> SUFFICES ASSUME NEW i \in Id, Posted(inbox', Destroyed(i)) PROVE i <= made'
      OBVIOUS
    <3>1. Posted(inbox, Destroyed(i)) \/ \E e \in sessions : e[2] = i
      BY NoticePosted
    <3>2. i <= made
      BY <1>0, <3>1 DEF IdsGivenOut
    <3> QED
      BY <1>2, <3>2 DEF Id
  <2> QED
    BY <2>1, <2>2 DEF IdsGivenOut
<1>7. NoticesTrue'
  <2> SUFFICES ASSUME NEW e \in sessions', Posted(inbox', Destroyed(e[2])) PROVE FALSE
    BY DEF NoticesTrue
  <2>1. Posted(inbox, Destroyed(e[2]))
    BY <1>4, NoticePosted
  <2>2. e \notin sessions
    BY <1>0, <2>1 DEF NoticesTrue
  <2>3. e[2] = made + 1
    BY <2>2, <1>t DEF TablesChange
  <2>4. e[2] <= made
    BY <1>0, <1>4, <2>1 DEF IdsGivenOut
  <2> QED
    BY <1>2, <2>3, <2>4
<1>8. HeldSessionsTracked'
  <2> SUFFICES ASSUME NEW e \in sessions', e # creating'
               PROVE  e \in tracking' \/ Posted(work', Destroy(e[2]))
    BY DEF HeldSessionsTracked
  <2>1. e \in sessions
    BY <1>t DEF TablesChange
  <2>2. CASE e \in tracking
    <3>1. ~Posted(inbox, Destroyed(e[2]))
      BY <1>0, <2>1 DEF NoticesTrue
    <3> QED
      BY <2>2, <3>1, <1>t DEF TablesChange
  <2>3. CASE e = creating
    <3>1. e # Nothing
      BY <1>0, <2>1, LifecycleAssumption DEF LifecycleAssumption, TypeOK, Entry, Id
    <3> QED
      BY <2>3, <3>1, <1>t DEF TablesChange
  <2>4. CASE Posted(work, Destroy(e[2]))
    BY <1>4, <2>4, DestroyStays
  <2> QED
    BY <1>0, <2>1, <2>2, <2>3, <2>4 DEF HeldSessionsTracked
<1>9. TrackedSessionsHeld'
  <2> SUFFICES ASSUME NEW e \in tracking', e \notin sessions'
               PROVE  Posted(inbox', Destroyed(e[2]))
    BY DEF TrackedSessionsHeld
  <2>1. CASE e \in sessions
    BY <2>1, <1>t DEF TablesChange
  <2>2. CASE e \notin sessions
    <3>1. e \in tracking
      BY <2>2, <1>t DEF TablesChange
    <3>2. Posted(inbox, Destroyed(e[2]))
      BY <1>0, <2>2, <3>1 DEF TrackedSessionsHeld
    <3> QED
      BY <1>4, <3>2, NoticeStays
  <2> QED
    BY <2>1, <2>2
<1> QED
  BY <1>5, <1>6, <1>7, <1>8, <1>9

-----------------------------------------------------------------------------
(* Theorems                                                                *)

\* The inductive invariant holds of every behaviour of the two threads.
THEOREM BooksInvariant == Spec => []IInv
<1>1. IInv /\ [Next]_vars => IInv'
  BY TypeStep, BooksStep DEF IInv
<1> QED
  BY <1>1, InitInv, PTL DEF Spec

\* The state of SessionManagerDBus and SessionManager is well typed, and no two
\* sessions, held or tracked, have one id.
THEOREM LifecycleTyped == Spec => []TypeOK
<1>1. IInv => TypeOK
  BY DEF IInv
<1> QED
  BY <1>1, BooksInvariant, PTL

\* A session SessionManager holds is tracked for its client by
\* SessionManagerDBus, is about to be, or its destruction has been posted: a
\* client's leaving cannot miss a session that was tracked.
THEOREM HeldAreTracked == Spec => []HeldSessionsTracked
<1>1. IInv => HeldSessionsTracked
  BY DEF IInv
<1> QED
  BY <1>1, BooksInvariant, PTL

\* A session that is tracked and no longer held has its notice under way, so
\* the tracking table does not grow with sessions that are gone.
THEOREM TrackedAreHeld == Spec => []TrackedSessionsHeld
<1>1. IInv => TrackedSessionsHeld
  BY DEF IInv
<1> QED
  BY <1>1, BooksInvariant, PTL

\* The two threads' books always agree, whatever order their messages take.
THEOREM BooksAlwaysAgree == Spec => []BooksAgree
<1>1. TypeOK /\ HeldSessionsTracked /\ TrackedSessionsHeld => BooksAgree
  BY DEF BooksAgree
<1> QED
  BY LifecycleTyped, HeldAreTracked, TrackedAreHeld, <1>1, PTL


-----------------------------------------------------------------------------
(* The media sessions: requests, executors and results                     *)

Stages == {"new", "waiting", "begun", "extracted", "posted", "over", "dropped"}

MediaTyped ==
    /\ alive \in [Session -> BOOLEAN] /\ recognizing \in [Session -> BOOLEAN]
    /\ pending \in [Session -> SUBSET Task] /\ active \in [Session -> SUBSET Task]
    /\ attached \subseteq OcrSession
    /\ engine \in [OcrSession -> 0..NoEngine]
    /\ stage \in [Task -> Stages]
    /\ owner \in [Task -> Session \cup {NoSession}]
    /\ answer \in [Task -> Answer]
    /\ events \in Seq(Task)
    /\ process \in {"running", "crashed"}
    /\ reply \in [Task -> Seq(Replies)]
    /\ silenced \subseteq Task /\ mixed \subseteq Task

\* A request is of one session, and a session that is gone has none.
OwnersOk ==
    /\ \A t \in Task : owner[t] = NoSession <=> stage[t] = "new"
    /\ \A s \in Session : \A t \in pending[s] \cup active[s] : owner[t] = s
    /\ \A s \in Session : ~alive[s] => pending[s] = {} /\ active[s] = {} /\ ~recognizing[s]
    /\ \A t \in Task : stage[t] \in {"begun", "extracted"} => owner[t] \in OcrSession

\* A result is posted once.
EventsOk == Distinct(events) /\ \A t \in Elems(events) : stage[t] = "posted"

BusyOk ==
    \A s \in SttSession \cup ImageSession :
        /\ recognizing[s] <=> pending[s] # {}
        /\ \A t, u \in pending[s] : t = u

\* The request waits, was answered, or was forgotten.
Pends(t) == \E s \in Session : t \in pending[s]
OnceOk(t) ==
    \/ stage[t] = "new" /\ ~Pends(t) /\ reply[t] = <<>> /\ t \notin silenced
    \/ stage[t] # "new" /\ Pends(t) /\ reply[t] = <<>> /\ t \notin silenced
    \/ stage[t] # "new" /\ ~Pends(t) /\ reply[t] = <<>> /\ t \in silenced
    \/ stage[t] # "new" /\ ~Pends(t) /\ Len(reply[t]) = 1 /\ t \notin silenced

OutcomeOk(t) ==
    \A i \in 1..Len(reply[t]) : reply[t][i] # "terminated" =>
        stage[t] = "over" /\ (reply[t][i] = "ok" <=> answer[t].ok)

\* The engine a request has begun with is there until its interface goes, and
\* holds the request's own image unless another one came in between.
EngineOk(t) ==
    Attached(t) =>
        /\ stage[t] \in {"begun", "extracted"} => engine[owner[t]] # NoEngine
        /\ stage[t] = "extracted" => engine[owner[t]] = t \/ t \in mixed

BoxesOk(t) ==
    /\ answer[t].text \in {NoTask, t}
    /\ answer[t].boxes \in {NoTask, t} \/ t \in mixed
    /\ stage[t] \notin {"posted", "over"} => answer[t].boxes = NoTask

TaskOk(t) == OnceOk(t) /\ OutcomeOk(t) /\ EngineOk(t) /\ BoxesOk(t)

MediaInv ==
    /\ MediaTyped /\ OwnersOk /\ EventsOk /\ BusyOk
    /\ \A t \in Task : TaskOk(t)

LEMMA MediaConstants ==
    /\ NoSession \notin Session /\ MaxTasks \in Nat /\ Task \subseteq Nat /\ NoTask = 0
    /\ NoTask \notin Task /\ NoEngine \notin Task /\ NoEngine # NoTask
    /\ 0..NoEngine = Task \cup {NoTask, NoEngine} /\ 0..MaxTasks = Task \cup {NoTask}
    /\ SttSession \subseteq Session /\ ImageSession \subseteq Session
    /\ OcrSession \subseteq Session /\ (SttSession \cup ImageSession) \cap OcrSession = {}
    /\ Session = (SttSession \cup ImageSession) \cup OcrSession
BY MediaAssumption DEF MediaAssumption, Session, Task, NoTask, NoEngine

LEMMA AnswerTyped ==
    /\ Failed \in Answer /\ Failed.text = NoTask /\ Failed.boxes = NoTask
    /\ \A t \in Task : Plain(t) \in Answer /\ Plain(t).text = t /\ Plain(t).boxes = NoTask
    /\ \A r \in Answer : r.ok \in BOOLEAN /\ r.text \in 0..MaxTasks /\ r.boxes \in 0..MaxTasks
BY MediaConstants DEF Failed, Plain, Answer

-----------------------------------------------------------------------------
(* Requests                                                                *)

LEMMA RequestKeeps ==
    ASSUME MediaInv, NEW s \in Session, NEW t \in Task,
           alive[s], s \in SttSession \cup ImageSession => ~recognizing[s],
           Fresh(t), SubmitTask(s, t), DelayReply(s, t),
           UNCHANGED <<alive, attached, engine, answer, events, process, observed>>
    PROVE  MediaInv'
<1> USE DEF MediaInv, observed
<1>1. /\ pending' = [pending EXCEPT ![s] = pending[s] \cup {t}]
      /\ recognizing' = [recognizing EXCEPT ![s] = TRUE]
      /\ active' = [active EXCEPT ![s] = active[s] \cup {t}]
      /\ stage' = [stage EXCEPT ![t] = "waiting"]
      /\ owner' = [owner EXCEPT ![t] = s]
      /\ stage[t] = "new" /\ owner[t] = NoSession
  BY DEF MediaTyped, SubmitTask, DelayReply, Fresh, OwnersOk
<1>2. MediaTyped'
  BY <1>1 DEF MediaTyped, Stages
<1>3. OwnersOk'
  <2>1. /\ \A u \in Task : owner'[u] = IF u = t THEN s ELSE owner[u]
        /\ \A u \in Task : stage'[u] = IF u = t THEN "waiting" ELSE stage[u]
        /\ \A r \in Session : pending'[r] = IF r = s THEN pending[s] \cup {t} ELSE pending[r]
        /\ \A r \in Session : active'[r] = IF r = s THEN active[s] \cup {t} ELSE active[r]
        /\ \A r \in Session : recognizing'[r] = IF r = s THEN TRUE ELSE recognizing[r]
        /\ \A r \in Session : pending[r] \cup active[r] \subseteq Task
    BY <1>1 DEF MediaTyped
  <2>2. \A r \in Session : t \notin pending[r] \cup active[r]
    BY <1>1, MediaConstants DEF OwnersOk
  <2> QED
    BY <1>1, <2>1, <2>2, MediaConstants DEF OwnersOk
<1>4. EventsOk'
  <2>1. \A u \in Elems(events) : u # t /\ u \in Task
    BY <1>1, ElemsTyped DEF EventsOk, MediaTyped
  <2> QED
    BY <1>1, <2>1 DEF EventsOk, MediaTyped
<1>5. BusyOk'
  <2>1. s \in SttSession \cup ImageSession => pending[s] = {}
    BY DEF BusyOk
  <2> QED
    BY <1>1, <2>1, MediaConstants DEF BusyOk, MediaTyped
<1>6. ASSUME NEW u \in Task PROVE TaskOk(u)'
  <2>1. Pends(u)' <=> Pends(u) \/ u = t
    BY <1>1 DEF Pends, MediaTyped
  <2>2. OnceOk(u)'
    BY <1>1, <2>1 DEF TaskOk, OnceOk, MediaTyped
  <2>3. OutcomeOk(u)'
    <3>1. CASE u = t
      <4>1. reply[t] = <<>>
        BY <1>1 DEF TaskOk, OnceOk
      <4> QED
        BY <3>1, <4>1 DEF OutcomeOk
    <3>2. CASE u # t
      BY <1>1, <3>2 DEF TaskOk, OutcomeOk, MediaTyped
    <3> QED
      BY <3>1, <3>2
  <2>4. EngineOk(u)'
    BY <1>1 DEF TaskOk, EngineOk, Attached, MediaTyped
  <2>5. BoxesOk(u)'
    BY <1>1 DEF TaskOk, BoxesOk, MediaTyped
  <2> QED
    BY <2>2, <2>3, <2>4, <2>5 DEF TaskOk
<1> QED
  BY <1>2, <1>3, <1>4, <1>5, <1>6

LEMMA RequestsKeep == ASSUME MediaInv, Request PROVE MediaInv'
<1>1. ASSUME NEW t \in Task, NEW s \in SttSession, RecognizeSpeech(s, t)
      PROVE  MediaInv'
  BY <1>1, RequestKeeps, MediaConstants DEF RecognizeSpeech
<1>2. ASSUME NEW t \in Task, NEW s \in ImageSession, RecognizeImage(s, t)
      PROVE  MediaInv'
  BY <1>2, RequestKeeps, MediaConstants DEF RecognizeImage
<1>3. ASSUME NEW t \in Task, NEW s \in OcrSession, NEW boxes \in BOOLEAN, RecognizeText(s, t, boxes)
      PROVE  MediaInv'
  <2>1. s \notin SttSession \cup ImageSession /\ s \in Session
    BY MediaConstants
  <2> QED
    BY <1>3, <2>1, RequestKeeps DEF RecognizeText
<1> QED
  BY <1>1, <1>2, <1>3 DEF Request

-----------------------------------------------------------------------------
(* The end of a session's work                                             *)

\* A silent end of a speech or an image session, and that of an OCR session.
Forgets(s) ==
    /\ s \in SttSession \cup ImageSession
    /\ silenced' = silenced \cup pending[s]
    /\ UNCHANGED <<reply, attached, engine>>

Apologises(s) ==
    /\ s \in OcrSession /\ UNCHANGED silenced
    /\ reply' = AnswerTerminated(s)
    /\ attached' = attached \ {s} /\ engine' = [engine EXCEPT ![s] = NoEngine]

LEMMA LeavingKeeps ==
    ASSUME MediaInv, NEW s \in Session, ForgetRequests(s),
           UNCHANGED <<owner, details, answer, events, process, mixed>>,
           \/ UNCHANGED <<alive, stage, active>>
           \/ UNCHANGED alive /\ CleanupTasks(s)
           \/ alive' = [alive EXCEPT ![s] = FALSE] /\ CleanupTasks(s),
           Forgets(s) \/ Apologises(s)
    PROVE  MediaInv'
<1> USE DEF MediaInv
<1>1. /\ \A r \in Session : pending'[r] = IF r = s THEN {} ELSE pending[r]
      /\ \A r \in Session : recognizing'[r] = IF r = s THEN FALSE ELSE recognizing[r]
      /\ \A r \in Session : active'[r] = active[r] \/ (r = s /\ active'[r] = {})
      /\ \A r \in Session : alive'[r] = alive[r] \/ (r = s /\ active'[r] = {} /\ ~alive'[r])
      /\ \A u \in Task : stage'[u] = stage[u] \/ (stage[u] = "waiting" /\ stage'[u] = "dropped")
  BY DEF MediaTyped, ForgetRequests, CleanupTasks, Dropped
<1>2. /\ \A u \in Task : u \in pending[s] /\ Apologises(s) =>
                             reply[u] = <<>> /\ reply'[u] = <<"terminated">>
      /\ \A u \in Task : u \notin pending[s] \/ Forgets(s) => reply'[u] = reply[u]
      /\ reply' \in [Task -> Seq(Replies)]
  <2>1. \A u \in pending[s] : u \in Task /\ reply[u] = <<>>
    <3>1. \A u \in pending[s] : u \in Task /\ Pends(u)
      BY DEF Pends, MediaTyped
    <3> QED
      BY <3>1 DEF TaskOk, OnceOk
  <2>2. CASE Forgets(s)
    BY <2>1, <2>2, MediaConstants DEF Forgets, Apologises, MediaTyped
  <2>3. CASE Apologises(s)
    <3>1. reply' = [u \in Task |-> IF u \in pending[s] THEN Append(reply[u], "terminated")
                                                      ELSE reply[u]]
      BY <2>3 DEF Apologises, AnswerTerminated, Said
    <3>2. Append(<<>>, "terminated") = <<"terminated">> /\ <<"terminated">> \in Seq(Replies)
      BY DEF Replies
    <3>3. reply \in [Task -> Seq(Replies)]
      BY DEF MediaTyped
    <3>4. ~Forgets(s)
      BY <2>3, MediaConstants DEF Forgets, Apologises
    <3> QED
      BY <2>1, <3>1, <3>2, <3>3, <3>4
  <2> QED
    BY <2>2, <2>3
<1>3. MediaTyped'
  <2>1. stage' \in [Task -> Stages] /\ alive' \in [Session -> BOOLEAN]
        /\ active' \in [Session -> SUBSET Task]
    BY DEF MediaTyped, CleanupTasks, Dropped, Stages
  <2>2. pending' \in [Session -> SUBSET Task] /\ recognizing' \in [Session -> BOOLEAN]
    BY DEF MediaTyped, ForgetRequests
  <2>3. attached' \subseteq OcrSession /\ engine' \in [OcrSession -> 0..NoEngine]
        /\ silenced' \subseteq Task
    BY MediaConstants DEF MediaTyped, Forgets, Apologises
  <2> QED
    BY <1>2, <2>1, <2>2, <2>3 DEF MediaTyped
<1>4. OwnersOk'
  BY <1>1 DEF OwnersOk, MediaTyped
<1>5. EventsOk'
  <2>1. Elems(events) \subseteq Task
    BY ElemsTyped DEF MediaTyped
  <2> QED
    BY <1>1, <2>1 DEF EventsOk
<1>6. BusyOk'
  <2> SUFFICES ASSUME NEW r \in SttSession \cup ImageSession
               PROVE  /\ recognizing'[r] <=> pending'[r] # {}
                      /\ \A t, u \in pending'[r] : t = u
    BY DEF BusyOk
  <2>1. r \in Session
    BY MediaConstants
  <2>2. CASE r = s
    BY <1>1, <2>1, <2>2
  <2>3. CASE r # s
    <3>1. recognizing'[r] = recognizing[r] /\ pending'[r] = pending[r]
      BY <1>1, <2>1, <2>3
    <3> QED
      BY <3>1 DEF BusyOk
  <2> QED
    BY <2>2, <2>3
<1>7. ASSUME NEW u \in Task PROVE TaskOk(u)'
  <2>1. /\ Pends(u)' <=> Pends(u) /\ u \notin pending[s]
        /\ u \in pending[s] => Pends(u)
    BY <1>1 DEF Pends, OwnersOk
  <2>2. stage'[u] = stage[u] \/ (stage[u] = "waiting" /\ stage'[u] = "dropped")
    BY <1>1
  <2>3. silenced' = IF Forgets(s) THEN silenced \cup pending[s] ELSE silenced
    BY MediaConstants DEF Forgets, Apologises
  <2>4. OnceOk(u)'
    <3>1. CASE u \in pending[s] /\ Apologises(s)
      <4>1. reply'[u] = <<"terminated">> /\ Len(<<"terminated">>) = 1 /\ ~Forgets(s)
        BY <1>2, <3>1, MediaConstants DEF Forgets, Apologises
      <4> QED
        BY <2>1, <2>2, <2>3, <3>1, <4>1 DEF TaskOk, OnceOk
    <3>2. CASE u \in pending[s] /\ Forgets(s)
      BY <1>2, <2>1, <2>2, <2>3, <3>2 DEF TaskOk, OnceOk
    <3>3. CASE u \notin pending[s]
      BY <1>2, <2>1, <2>2, <2>3, <3>3 DEF TaskOk, OnceOk
    <3> QED
      BY <3>1, <3>2, <3>3
  <2>5. OutcomeOk(u)'
    <3>1. CASE u \in pending[s] /\ Apologises(s)
      BY <1>2, <3>1 DEF OutcomeOk
    <3>2. CASE u \notin pending[s] \/ Forgets(s)
      BY <1>2, <2>2, <3>2 DEF TaskOk, OutcomeOk
    <3> QED
      BY <3>1, <3>2
  <2>6. EngineOk(u)'
    <3>1. SUFFICES ASSUME Attached(u)', stage'[u] \in {"begun", "extracted"}
                   PROVE  /\ engine'[owner[u]] # NoEngine
                          /\ stage'[u] = "extracted" => engine'[owner[u]] = u \/ u \in mixed
      BY DEF EngineOk
    <3>2. stage'[u] = stage[u] /\ owner[u] \in OcrSession
      BY <2>2, <3>1 DEF OwnersOk
    <3>3. owner[u] \in attached /\ alive[owner[u]]
      BY <1>1, <3>1, <3>2, MediaConstants DEF Attached, Forgets, Apologises
    <3>4. engine'[owner[u]] = engine[owner[u]]
      BY <3>1, <3>2 DEF Attached, Forgets, Apologises, MediaTyped
    <3> QED
      BY <3>1, <3>2, <3>3, <3>4 DEF TaskOk, EngineOk, Attached
  <2>7. BoxesOk(u)'
    BY <2>2 DEF TaskOk, BoxesOk
  <2> QED
    BY <2>4, <2>5, <2>6, <2>7 DEF TaskOk
<1> QED
  BY <1>3, <1>4, <1>5, <1>6, <1>7

LEMMA LeavingsKeep == ASSUME MediaInv, Leaving PROVE MediaInv'
<1>1. ASSUME NEW s \in SttSession \cup ImageSession, Terminate(s) \/ DestroyRecognition(s)
      PROVE  MediaInv'
  <2>1. s \in Session
    BY MediaConstants
  <2> QED
    BY <1>1, <2>1, LeavingKeeps DEF Terminate, DestroyRecognition, Forgets
<1>2. ASSUME NEW s \in OcrSession, TerminateOcr(s) \/ DestroyOcr(s)
      PROVE  MediaInv'
  <2>1. s \in Session
    BY MediaConstants
  <2> QED
    BY <1>2, <2>1, LeavingKeeps DEF TerminateOcr, DestroyOcr, CleanupOcr, Apologises, taskVars
<1> QED
  BY <1>1, <1>2 DEF Leaving

-----------------------------------------------------------------------------
(* Executors                                                               *)

LEMMA ExecutorKeeps ==
    ASSUME MediaInv, NEW t \in Task, NEW to \in {"begun", "extracted", "posted"},
           stage[t] \in {"waiting", "begun", "extracted"},
           owner[t] \in OcrSession \/ to = "posted",
           stage' = [stage EXCEPT ![t] = to],
           NEW r \in Answer, answer' = [answer EXCEPT ![t] = r],
           r.text \in {NoTask, t}, r.boxes \in {NoTask, t} \/ t \in mixed',
           to # "posted" => r.boxes = NoTask,
           events' = IF to = "posted" THEN Append(events, t) ELSE events,
           UNCHANGED <<alive, recognizing, pending, active, attached, owner, details, reply,
                       silenced>>,
           engine' \in [OcrSession -> 0..NoEngine],
           mixed \subseteq mixed', mixed' \subseteq Task, process' \in {"running", "crashed"},
           \A u \in Task : EngineOk(u)'
    PROVE  MediaInv'
<1> USE DEF MediaInv
<1>1. /\ \A u \in Task : stage'[u] = IF u = t THEN to ELSE stage[u]
      /\ \A u \in Task : answer'[u] = IF u = t THEN r ELSE answer[u]
  BY DEF MediaTyped
<1>2. MediaTyped'
  BY DEF MediaTyped, Stages
<1>3. OwnersOk'
  BY <1>1 DEF OwnersOk
<1>4. EventsOk'
  <2>1. Elems(events) \subseteq Task /\ t \notin Elems(events) /\ events \in Seq(Task)
    BY ElemsTyped DEF MediaTyped, EventsOk
  <2>2. CASE to = "posted"
    <3>1. Distinct(events') /\ Elems(events') = Elems(events) \cup {t}
      BY <2>1, <2>2, AppendElems DEF EventsOk
    <3> QED
      BY <1>1, <2>1, <2>2, <3>1 DEF EventsOk
  <2>3. CASE to # "posted"
    BY <1>1, <2>1, <2>3 DEF EventsOk
  <2> QED
    BY <2>2, <2>3
<1>5. BusyOk'
  BY DEF BusyOk
<1>6. ASSUME NEW u \in Task PROVE TaskOk(u)'
  <2>1. OnceOk(u)'
    BY <1>1 DEF TaskOk, OnceOk, Pends
  <2>2. OutcomeOk(u)'
    BY <1>1 DEF TaskOk, OutcomeOk
  <2>3. BoxesOk(u)'
    BY <1>1 DEF TaskOk, BoxesOk
  <2> QED
    BY <2>1, <2>2, <2>3 DEF TaskOk
<1> QED
  BY <1>2, <1>3, <1>4, <1>5, <1>6

\* Without a change to the engine, those that go on with it have it still.
LEMMA EngineStays ==
    ASSUME MediaInv, NEW t \in Task, stage' = [stage EXCEPT ![t] = "posted"],
           UNCHANGED <<alive, attached, engine, owner>>, mixed \subseteq mixed'
    PROVE  \A u \in Task : EngineOk(u)'
BY DEF MediaInv, MediaTyped, TaskOk, EngineOk, Attached

LEMMA PostKeeps ==
    ASSUME MediaInv, NEW t \in Task, stage[t] \in {"waiting", "begun", "extracted"},
           NEW r \in Answer, Post(t, r), r.text \in {NoTask, t}, r.boxes \in {NoTask, t} \/ t \in mixed,
           UNCHANGED <<alive, recognizing, pending, active, attached, engine, owner, details,
                       observed>>,
           process' \in {"running", "crashed"}
    PROVE  MediaInv'
<1>1. "posted" \in {"begun", "extracted", "posted"}
  OBVIOUS
<1>2. engine' \in [OcrSession -> 0..NoEngine] /\ mixed' = mixed /\ mixed \subseteq Task
  BY DEF MediaInv, MediaTyped, observed
<1>3. \A u \in Task : EngineOk(u)'
  BY <1>2, EngineStays DEF Post
<1> QED
  BY <1>1, <1>2, <1>3, ExecutorKeeps DEF Post, observed

LEMMA ExecutorsKeep ==
    ASSUME MediaInv, NEW t \in Task, Executor(t)
    PROVE  MediaInv'
<1> USE DEF MediaInv
<1>1. MediaTyped /\ process \in {"running", "crashed"} /\ answer[t] \in Answer /\ TaskOk(t)
  BY DEF MediaTyped
<1>2. ASSUME NEW found \in BOOLEAN, ExecuteSpeech(t, found) \/ ExecuteImage(t, found)
      PROVE  MediaInv'
  <2>1. /\ stage[t] = "waiting" /\ Post(t, Recognized(t, found))
        /\ UNCHANGED <<alive, recognizing, pending, active, attached, engine, owner, details,
                       process, observed>>
    BY <1>2 DEF ExecuteSpeech, ExecuteImage, ExecuteAlone
  <2>2. PICK r \in Answer : r = Recognized(t, found) /\ r.text \in {NoTask, t} /\ r.boxes = NoTask
    BY AnswerTyped DEF Recognized
  <2> QED
    BY <1>1, <2>1, <2>2, PostKeeps
<1>3. ASSUME NoInterface(t)
      PROVE  MediaInv'
  BY <1>1, <1>3, AnswerTyped, PostKeeps DEF NoInterface
<1>4. ASSUME NEW loads \in BOOLEAN, BeginRecognition(t, loads)
      PROVE  MediaInv'
  <2> DEFINE s == owner[t]
  <2>1. /\ stage[t] = "waiting" /\ s \in OcrSession /\ Attached(t)
        /\ UNCHANGED <<alive, recognizing, pending, active, attached, owner, details,
                       process, observed>>
    BY <1>4 DEF BeginRecognition
  <2>2. CASE engine[s] = NoEngine /\ ~loads
    <3>1. Post(t, [Failed EXCEPT !.ok = TRUE]) /\ UNCHANGED engine
      BY <1>4, <2>2 DEF BeginRecognition
    <3>2. PICK r \in Answer : /\ r = [Failed EXCEPT !.ok = TRUE]
                              /\ r.text = NoTask /\ r.boxes = NoTask
      <4>1. /\ [Failed EXCEPT !.ok = TRUE] \in Answer
            /\ [Failed EXCEPT !.ok = TRUE].text = Failed.text
            /\ [Failed EXCEPT !.ok = TRUE].boxes = Failed.boxes
        BY AnswerTyped DEF Answer
      <4> QED
        BY <4>1, AnswerTyped
    <3> QED
      BY <1>1, <2>1, <3>1, <3>2, PostKeeps
  <2>3. CASE ~(engine[s] = NoEngine /\ ~loads)
    <3>1. /\ engine' = [engine EXCEPT ![s] = IF engine[s] = NoEngine THEN NoTask ELSE engine[s]]
          /\ stage' = [stage EXCEPT ![t] = "begun"]
          /\ UNCHANGED <<answer, events>>
      BY <1>4, <2>3, <2>1 DEF BeginRecognition, MediaTyped
    <3>2. engine' \in [OcrSession -> 0..NoEngine]
      BY <1>1, <2>1, <3>1, MediaConstants DEF MediaTyped
    <3>3. ASSUME NEW u \in Task PROVE EngineOk(u)'
      <4>1. SUFFICES ASSUME Attached(u)', stage'[u] \in {"begun", "extracted"}
                     PROVE  /\ engine'[owner[u]] # NoEngine
                            /\ stage'[u] = "extracted" => engine'[owner[u]] = u \/ u \in mixed
        BY <2>1 DEF EngineOk, observed
      <4>2. Attached(u) /\ owner[u] \in OcrSession
        BY <1>1, <2>1, <4>1, <3>1 DEF Attached, OwnersOk, MediaTyped
      <4>3. stage'[u] = "extracted" => u # t /\ stage[u] = "extracted"
        BY <1>1, <3>1 DEF MediaTyped
      <4>4. CASE owner[u] = s
        <5>1. /\ engine'[owner[u]] # NoEngine
              /\ engine[owner[u]] # NoEngine => engine'[owner[u]] = engine[owner[u]]
          BY <1>1, <2>1, <3>1, <4>4, MediaConstants DEF MediaTyped
        <5> QED
          BY <4>2, <4>3, <5>1 DEF TaskOk, EngineOk
      <4>5. CASE owner[u] # s
        <5>1. engine'[owner[u]] = engine[owner[u]] /\ stage'[u] = stage[u]
          BY <1>1, <3>1, <4>2, <4>5 DEF MediaTyped
        <5> QED
          BY <4>1, <4>2, <5>1 DEF TaskOk, EngineOk
      <4> QED
        BY <4>4, <4>5
    <3>4. answer' = [answer EXCEPT ![t] = answer[t]]
      BY <1>1, <3>1 DEF MediaTyped
    <3>5. /\ answer[t].text \in {NoTask, t} /\ answer[t].boxes = NoTask
          /\ "begun" \in {"begun", "extracted", "posted"} /\ mixed' = mixed /\ mixed \subseteq Task
      BY <1>1, <2>1 DEF TaskOk, BoxesOk, MediaTyped, observed
    <3>6. events' = IF "begun" = "posted" THEN Append(events, t) ELSE events
      BY <3>1
    <3> QED
      BY <1>1, <2>1, <3>1, <3>2, <3>3, <3>4, <3>5, <3>6, ExecutorKeeps DEF observed
  <2> QED
    BY <2>2, <2>3
<1>5. ASSUME ExtractText(t)
      PROVE  MediaInv'
  <2> DEFINE s == owner[t]
  <2>1. /\ stage[t] = "begun" /\ Attached(t)
        /\ engine' = [engine EXCEPT ![s] = t]
        /\ answer' = [answer EXCEPT ![t] = Plain(engine'[s])]
        /\ stage' = [stage EXCEPT ![t] = "extracted"]
        /\ mixed' = mixed \cup Extracted(s)
        /\ UNCHANGED <<alive, recognizing, pending, active, attached, owner, details,
                       events, process, reply, silenced>>
    BY <1>5 DEF ExtractText, Analyze
  <2>2. s \in OcrSession /\ engine'[s] = t /\ engine' \in [OcrSession -> 0..NoEngine]
    BY <1>1, <2>1, MediaConstants DEF OwnersOk, MediaTyped
  <2>3. mixed \subseteq mixed' /\ mixed' \subseteq Task
    BY <1>1, <2>1 DEF MediaTyped, Extracted
  <2>4. ASSUME NEW u \in Task PROVE EngineOk(u)'
    <3>1. SUFFICES ASSUME Attached(u)', stage'[u] \in {"begun", "extracted"}
                   PROVE  /\ engine'[owner[u]] # NoEngine
                          /\ stage'[u] = "extracted" => engine'[owner[u]] = u \/ u \in mixed'
      BY <2>1 DEF EngineOk
    <3>2. CASE u = t
      BY <2>2, <3>2, MediaConstants
    <3>3. CASE u # t
      <4>1. stage'[u] = stage[u] /\ Attached(u) /\ owner[u] \in OcrSession
        BY <1>1, <2>1, <3>1, <3>3 DEF Attached, OwnersOk, MediaTyped
      <4>2. CASE owner[u] = s
        BY <2>1, <2>2, <3>1, <4>1, <4>2, MediaConstants DEF Extracted
      <4>3. CASE owner[u] # s
        <5>1. engine'[owner[u]] = engine[owner[u]]
          BY <1>1, <2>1, <4>1, <4>3 DEF MediaTyped
        <5> QED
          BY <2>3, <3>1, <4>1, <5>1 DEF TaskOk, EngineOk
      <4> QED
        BY <4>2, <4>3
    <3> QED
      BY <3>2, <3>3
  <2>5. PICK r \in Answer : r = Plain(t) /\ r.text = t /\ r.boxes = NoTask
    BY AnswerTyped
  <2>6. "extracted" \in {"begun", "extracted", "posted"}
        /\ events' = IF "extracted" = "posted" THEN Append(events, t) ELSE events
    BY <2>1
  <2> QED
    BY <1>1, <2>1, <2>2, <2>3, <2>4, <2>5, <2>6, ExecutorKeeps
<1>6. ASSUME FormatResult(t)
      PROVE  MediaInv'
  <2> DEFINE s == owner[t]
             boxes == IF t \in details THEN engine[s] ELSE NoTask
  <2>1. /\ stage[t] = "extracted" /\ Attached(t)
        /\ Post(t, [answer[t] EXCEPT !.boxes = boxes])
        /\ UNCHANGED <<alive, recognizing, pending, active, attached, engine, owner,
                       details, process, observed>>
    BY <1>6 DEF FormatResult
  <2>2. s \in OcrSession
    BY <2>1 DEF OwnersOk
  <2>3. /\ engine[s] \in 0..MaxTasks
        /\ engine[s] = t \/ t \in mixed
    BY <1>1, <2>1, <2>2, MediaConstants DEF TaskOk, EngineOk, MediaTyped
  <2>4. /\ [answer[t] EXCEPT !.boxes = boxes] \in Answer
        /\ [answer[t] EXCEPT !.boxes = boxes].text = answer[t].text
        /\ [answer[t] EXCEPT !.boxes = boxes].boxes = boxes
    <3>1. boxes \in 0..MaxTasks
      BY <2>3, MediaConstants
    <3> HIDE DEF boxes
    <3> QED
      BY <1>1, <3>1 DEF Answer
  <2>5. answer[t].text \in {NoTask, t} /\ (boxes \in {NoTask, t} \/ t \in mixed)
    BY <1>1, <2>3 DEF TaskOk, BoxesOk
  <2>6. PICK r \in Answer : r = [answer[t] EXCEPT !.boxes = boxes]
    BY <2>4
  <2> HIDE DEF boxes
  <2> QED
    BY <1>1, <2>1, <2>4, <2>5, <2>6, PostKeeps
<1>7. ASSUME UseFreed(t)
      PROVE  MediaInv'
  <2>1. /\ stage[t] \in {"waiting", "begun", "extracted"} /\ process' \in {"running", "crashed"}
        /\ \E ok \in BOOLEAN : Post(t, [answer[t] EXCEPT !.ok = ok])
        /\ UNCHANGED <<alive, recognizing, pending, active, attached, engine, owner, details,
                       observed>>
    BY <1>7 DEF UseFreed
  <2>2. PICK ok \in BOOLEAN : Post(t, [answer[t] EXCEPT !.ok = ok])
    BY <2>1
  <2>3. PICK r \in Answer : /\ r = [answer[t] EXCEPT !.ok = ok]
                            /\ r.text = answer[t].text /\ r.boxes = answer[t].boxes
    <3>1. /\ [answer[t] EXCEPT !.ok = ok] \in Answer
          /\ [answer[t] EXCEPT !.ok = ok].text = answer[t].text
          /\ [answer[t] EXCEPT !.ok = ok].boxes = answer[t].boxes
      BY <1>1 DEF Answer
    <3> QED
      BY <3>1
  <2>4. r.text \in {NoTask, t} /\ (r.boxes \in {NoTask, t} \/ t \in mixed) /\ Post(t, r)
    BY <1>1, <2>2, <2>3 DEF TaskOk, BoxesOk
  <2> QED
    BY <1>1, <2>1, <2>4, PostKeeps
<1> QED
  BY <1>2, <1>3, <1>4, <1>5, <1>6, <1>7 DEF Executor

-----------------------------------------------------------------------------
(* Results                                                                 *)

LEMMA DeliverKeeps == ASSUME MediaInv, Deliver PROVE MediaInv'
<1> USE DEF MediaInv
<1>1. PICK t \in Task :
        /\ t = Head(events) /\ stage[t] = "posted"
        /\ Tail(events) \in Seq(Task) /\ Distinct(Tail(events))
        /\ Elems(Tail(events)) \subseteq Elems(events) /\ t \notin Elems(Tail(events))
  <2>1. events \in Seq(Task) /\ events # <<>> /\ Distinct(events)
    BY DEF Deliver, MediaTyped, EventsOk
  <2>2. /\ Head(events) \in Task /\ Tail(events) \in Seq(Task)
        /\ Head(events) \in Elems(events)
        /\ Distinct(Tail(events)) /\ Elems(Tail(events)) = Elems(events) \ {Head(events)}
    BY <2>1, HeadTail
  <2> QED
    BY <2>2 DEF EventsOk
<1>2. /\ stage' = [stage EXCEPT ![t] = "over"]
      /\ recognizing' =
            [s \in Session |->
                IF ~alive[s] THEN recognizing[s]
                ELSE IF s \in OcrSession THEN HandleTextResult(s, t)
                ELSE HandleRecognitionResult(s, t)]
      /\ reply' = Said(Answered(t), IF answer[t].ok THEN "ok" ELSE "error")
      /\ pending' = [s \in Session |-> Erased(s, t)]
      /\ events' = Tail(events)
      /\ UNCHANGED <<alive, active, attached, engine, owner, details, answer, process,
                     silenced, mixed>>
  BY <1>1 DEF Deliver
<1>3. /\ \A u \in Task : stage'[u] = IF u = t THEN "over" ELSE stage[u]
      /\ \A s \in Session : pending'[s] = pending[s] \ {t}
  BY <1>2 DEF MediaTyped, Erased, OwnersOk
<1>4. Waits(t, Session) <=> Pends(t)
  BY DEF Waits, Pends, OwnersOk
<1> DEFINE what == IF answer[t].ok THEN "ok" ELSE "error"
<1>5. /\ Pends(t) => reply[t] = <<>> /\ reply'[t] = <<what>>
      /\ ~Pends(t) => reply'[t] = reply[t]
      /\ \A u \in Task : u # t => reply'[u] = reply[u]
      /\ reply' \in [Task -> Seq(Replies)]
  <2>1. Answered(t) = IF Pends(t) THEN {t} ELSE {}
    BY <1>4 DEF Answered
  <2>2. Pends(t) => reply[t] = <<>>
    BY DEF TaskOk, OnceOk
  <2>3. what \in Replies
    BY DEF Replies
  <2> HIDE DEF what
  <2>4. reply' = [u \in Task |-> IF u \in Answered(t) THEN Append(reply[u], what) ELSE reply[u]]
    BY <1>2 DEF Said, what
  <2>5. reply \in [Task -> Seq(Replies)]
    BY DEF MediaTyped
  <2>6. Append(<<>>, what) = <<what>>
    OBVIOUS
  <2>7. \A u \in Task : Append(reply[u], what) \in Seq(Replies)
    BY <2>3, <2>5
  <2>8. reply' \in [Task -> Seq(Replies)]
    BY <2>4, <2>5, <2>7
  <2>9. \A u \in Task : u \notin Answered(t) => reply'[u] = reply[u]
    BY <2>4
  <2>10. Pends(t) => reply'[t] = Append(reply[t], what)
    BY <2>1, <2>4
  <2> QED
    BY <2>1, <2>2, <2>6, <2>8, <2>9, <2>10
<1>6. MediaTyped'
  <2>1. recognizing' \in [Session -> BOOLEAN]
    <3>1. \A s \in Session : HandleTextResult(s, t) \in BOOLEAN
      BY DEF HandleTextResult, MediaTyped
    <3>2. \A s \in Session : HandleRecognitionResult(s, t) \in BOOLEAN
      BY DEF HandleRecognitionResult
    <3> QED
      BY <1>2, <3>1, <3>2 DEF MediaTyped
  <2>2. pending' \in [Session -> SUBSET Task]
    BY <1>2, <1>3 DEF MediaTyped
  <2> QED
    BY <1>1, <1>2, <1>5, <2>1, <2>2 DEF MediaTyped, Stages
<1>7. OwnersOk'
  <2>1. \A s \in Session : ~alive[s] => recognizing'[s] = recognizing[s]
    BY <1>2
  <2> QED
    BY <1>1, <1>2, <1>3, <2>1 DEF OwnersOk
<1>8. EventsOk'
  <2>1. Elems(events) \subseteq Task
    BY ElemsTyped DEF MediaTyped
  <2> QED
    BY <1>1, <1>2, <1>3, <2>1 DEF EventsOk
<1>9. BusyOk'
  <2> SUFFICES ASSUME NEW s \in SttSession \cup ImageSession
               PROVE  /\ recognizing'[s] <=> pending'[s] # {}
                      /\ \A u, v \in pending'[s] : u = v
    BY DEF BusyOk
  <2>1. s \in Session /\ s \notin OcrSession
    BY MediaConstants
  <2>2. recognizing'[s] <=> recognizing[s] /\ t \notin pending[s]
    BY <1>2, <2>1 DEF HandleRecognitionResult, FreedBy, OwnersOk
  <2> QED
    BY <1>3, <2>1, <2>2 DEF BusyOk
<1>10. ASSUME NEW u \in Task PROVE TaskOk(u)'
  <2>1. Pends(u)' <=> Pends(u) /\ u # t
    BY <1>3 DEF Pends
  <2>2. OnceOk(u)'
    <3>1. CASE u = t
      <4>1. Len(<<what>>) = 1
        OBVIOUS
      <4> HIDE DEF what
      <4> QED
        <5>1. stage[t] # "new" /\ stage'[t] # "new" /\ ~Pends(t)' /\ OnceOk(t) /\ silenced' = silenced
          BY <1>1, <1>2, <1>3, <2>1, <3>1 DEF TaskOk
        <5>2. CASE Pends(t)
          <6>1. reply'[t] = <<what>> /\ t \notin silenced
            BY <1>5, <5>1, <5>2 DEF OnceOk
          <6> QED
            BY <3>1, <4>1, <5>1, <6>1 DEF OnceOk
        <5>3. CASE ~Pends(t)
          <6>1. reply'[t] = reply[t]
            BY <1>5, <5>3
          <6> QED
            BY <3>1, <5>1, <5>3, <6>1 DEF OnceOk
        <5> QED
          BY <5>2, <5>3
    <3>2. CASE u # t
      BY <1>2, <1>3, <1>5, <2>1, <3>2 DEF TaskOk, OnceOk
    <3> QED
      BY <3>1, <3>2
  <2>3. OutcomeOk(u)'
    <3>1. CASE u = t /\ Pends(t)
      <4>1. reply'[u] = <<what>> /\ stage'[u] = "over" /\ answer' = answer
        BY <1>2, <1>3, <1>5, <3>1
      <4>2. what = "ok" <=> answer[u].ok
        BY <3>1
      <4> HIDE DEF what
      <4> QED
        BY <4>1, <4>2 DEF OutcomeOk
    <3>2. CASE u = t /\ ~Pends(t)
      <4> HIDE DEF what
      <4>1. reply'[u] = reply[u]
        BY <1>5, <3>2
      <4>2. answer' = answer /\ stage'[u] = "over"
        BY <1>2, <1>3, <3>2
      <4>3. OutcomeOk(u)
        BY DEF TaskOk
      <4> QED
        BY <4>1, <4>2, <4>3 DEF OutcomeOk
    <3>3. CASE u # t
      BY <1>2, <1>3, <1>5, <3>3 DEF TaskOk, OutcomeOk
    <3> QED
      BY <3>1, <3>2, <3>3
  <2>4. EngineOk(u)'
    BY <1>2, <1>3 DEF TaskOk, EngineOk, Attached
  <2>5. BoxesOk(u)'
    BY <1>1, <1>2, <1>3 DEF TaskOk, BoxesOk
  <2> QED
    BY <2>2, <2>3, <2>4, <2>5 DEF TaskOk
<1> QED
  BY <1>6, <1>7, <1>8, <1>9, <1>10

-----------------------------------------------------------------------------
(* What holds of every behaviour of the media sessions                     *)

LEMMA MediaInitHolds == ASSUME MediaInit PROVE MediaInv
<1> USE DEF MediaInit
<1>1. MediaTyped
  BY MediaConstants, AnswerTyped DEF MediaTyped, Stages
<1>2. OwnersOk /\ BusyOk
  BY MediaConstants DEF OwnersOk, BusyOk
<1>3. EventsOk
  BY EmptyElems DEF EventsOk
<1>4. ASSUME NEW t \in Task PROVE TaskOk(t)
  BY MediaConstants, AnswerTyped DEF TaskOk, OnceOk, OutcomeOk, EngineOk, BoxesOk, Pends
<1> QED
  BY <1>1, <1>2, <1>3, <1>4 DEF MediaInv

\* The inductive invariant of the media sessions: whose each request is, where
\* its result is, what its client was told, and what the engine holds for it.
THEOREM MediaInvariant == MediaSpec => []MediaInv
<1>1. MediaInv /\ [MediaNext]_mediaVars => MediaInv'
  <2> SUFFICES ASSUME MediaInv, [MediaNext]_mediaVars PROVE MediaInv'
    OBVIOUS
  <2>1. CASE UNCHANGED mediaVars
    BY <2>1 DEF mediaVars, taskVars, observed, MediaInv, MediaTyped, OwnersOk, EventsOk, BusyOk,
                TaskOk, OnceOk, OutcomeOk, EngineOk, BoxesOk, Attached, Pends
  <2>2. CASE MediaNext
    BY <2>2, RequestsKeep, LeavingsKeep, DeliverKeeps, ExecutorsKeep DEF MediaNext
  <2> QED
    BY <2>1, <2>2
<1> QED
  BY <1>1, MediaInitHolds, PTL DEF MediaSpec

\* A request has one answer, its own task's, or none when a speech or image
\* session was ended; such a session is busy with one request exactly while
\* that one waits, whoever else's results it hears.
THEOREM RequestsAreAnswered == MediaSpec => []RequestsAnswered
<1>1. ASSUME MediaInv PROVE RequestsAnswered
  <2> USE <1>1 DEF MediaInv
  <2>1. MediaTypeOK
    BY DEF MediaTyped, MediaTypeOK, OwnersOk, Stages
  <2>2. BusyWithOneRequest
    <3> SUFFICES ASSUME NEW s \in SttSession \cup ImageSession
                 PROVE  /\ recognizing[s] <=> pending[s] # {}
                        /\ Cardinality(pending[s]) <= 1
      BY DEF BusyWithOneRequest
    <3>1. pending[s] = {} \/ \E t \in pending[s] : pending[s] = {t}
      BY DEF BusyOk
    <3>2. Cardinality(pending[s]) = 0 \/ Cardinality(pending[s]) = 1
      BY <3>1, FS_EmptySet, FS_Singleton
    <3>3. recognizing[s] <=> pending[s] # {}
      BY DEF BusyOk
    <3> QED
      BY <3>2, <3>3
  <2>3. AnsweredOnce
    <3> SUFFICES ASSUME NEW t \in Task, stage[t] # "new"
                 PROVE  Len(reply[t]) + (IF Waits(t, Session) THEN 1 ELSE 0)
                                      + (IF t \in silenced THEN 1 ELSE 0) = 1
      BY DEF AnsweredOnce
    <3>1. Waits(t, Session) <=> Pends(t)
      BY DEF Waits, Pends, OwnersOk
    <3>2. Len(<<>>) = 0
      OBVIOUS
    <3>3. OnceOk(t)
      BY DEF TaskOk
    <3>4. CASE Pends(t)
      <4>1. reply[t] = <<>> /\ t \notin silenced
        BY <3>3, <3>4 DEF OnceOk
      <4> QED
        BY <3>1, <3>2, <3>4, <4>1
    <3>5. CASE ~Pends(t)
      <4>1. \/ Len(reply[t]) = 0 /\ t \in silenced
            \/ Len(reply[t]) = 1 /\ t \notin silenced
        BY <3>2, <3>3, <3>5 DEF OnceOk
      <4>2. ~Waits(t, Session)
        BY <3>1, <3>5
      <4>3. CASE Len(reply[t]) = 0 /\ t \in silenced
        BY <4>2, <4>3
      <4>4. CASE Len(reply[t]) = 1 /\ t \notin silenced
        BY <4>2, <4>4
      <4> QED
        BY <4>1, <4>3, <4>4
    <3> QED
      BY <3>4, <3>5
  <2>4. ReplyIsTheOutcome
    BY DEF ReplyIsTheOutcome, TaskOk, OutcomeOk
  <2> QED
    BY <2>1, <2>2, <2>3, <2>4 DEF RequestsAnswered
<1> QED
  BY <1>1, MediaInvariant, PTL

\* An OCR result has its own request's text, and its boxes, but for a request
\* that used the session's engine in between (dtkocr.cpp:269).
THEOREM BoxesAreOwn == MediaSpec => []BoxesAreTheTexts
<1>1. ASSUME MediaInv PROVE BoxesAreTheTexts
  BY <1>1 DEF MediaInv, BoxesAreTheTexts, TaskOk, BoxesOk
<1> QED
  BY <1>1, MediaInvariant, PTL

-----------------------------------------------------------------------------
(* Speech recognition: the audio of a stream                               *)

Streaming == [id : Stream \cup {NoStream}, isActive : BOOLEAN, currentFrameIndex : Nat,
              audioBuffer : 0..MaxSamples, result : SUBSET Stream]

SocketTyped ==
    /\ wire \in {"closed", "connecting", "connected"}
    /\ heard \in SUBSET Stream /\ served \in SUBSET Stream

\* Only an end that waits is told to quit or hangs.
LoopTyped ==
    /\ streams \in [Stream -> {"absent", "active", "ended"}]
    /\ waiting \in Stream \cup {NoStream} /\ quitting \in BOOLEAN
    /\ thread \in {"running", "hung"}
    /\ quitting \/ thread = "hung" => waiting # NoStream

ResultsTyped ==
    /\ companions \in [Stream -> SUBSET Stream]
    /\ returned \in [Stream -> SUBSET Stream]

FramesTyped ==
    /\ session \in Streaming
    /\ frames \in [Stream -> Seq(Frame)]
    /\ accepted \in [Stream -> 0..MaxSamples]

\* The frames of a stream: k whole ones, and then perhaps the last.
WholeFrame(i) == <<IF i = 1 THEN "first" ELSE "continue", FrameSize>>
Whole(k) == [i \in 1..k |-> WholeFrame(i)]
Ended(k, n) == Append(Whole(k), <<"last", n>>)
Framed(f) == \E k \in Nat : f = Whole(k) \/ \E n \in 0..MaxSamples : f = Ended(k, n)

FramesOk == \A s \in Stream : Framed(frames[s])

\* Nothing was sent or returned of a stream that is still to come.
Unstarted ==
    \A s \in Stream : streams[s] = "absent" =>
        /\ frames[s] = <<>> /\ accepted[s] = 0 /\ returned[s] = {}
        /\ s # session.id /\ s # waiting

\* The provider's stream is the one whose end waits, if one does, and has not
\* returned yet.
SessionOk ==
    /\ session.id # NoStream => /\ waiting \in {NoStream, session.id}
                                /\ returned[session.id] = {}
    /\ session.id = NoStream => session.result = {}

\* Of a stream that goes on, whole frames were sent and the rest is buffered.
Buffered(k, n) ==
    /\ frames[session.id] = Whole(k)
    /\ accepted[session.id] = k * FrameSize + n
BufferOk ==
    session.id # NoStream /\ waiting = NoStream =>
        Buffered(session.currentFrameIndex, session.audioBuffer)

\* Of a stream whose end waits everything was sent.
AllSent(s, k, n) == frames[s] = Ended(k, n) /\ accepted[s] = k * FrameSize + n
WaitingOk ==
    waiting # NoStream =>
        /\ \E k \in Nat, n \in 0..MaxSamples : AllSent(waiting, k, n)
        /\ session.audioBuffer = 0

\* What is heard on a connection was sent on it, and what was returned came with
\* a result of its stream.
HeardOk ==
    /\ wire = "connected" => heard \subseteq served
    /\ wire = "connecting" => heard = {}
    /\ session.id # NoStream => session.result \subseteq companions[session.id]
    /\ TextOfConnection

RecognitionInv ==
    /\ SocketTyped /\ LoopTyped /\ ResultsTyped /\ FramesTyped
    /\ FramesOk /\ Unstarted /\ SessionOk /\ BufferOk /\ WaitingOk /\ HeardOk

\* What the frames of a stream look like.
LEMMA WholeLen ==
    ASSUME NEW k \in Nat
    PROVE  /\ Whole(k) \in Seq({"first", "continue"} \X {FrameSize}) /\ Len(Whole(k)) = k
           /\ \A i \in 1..k : Whole(k)[i] = WholeFrame(i)
           /\ k = 0 => Whole(k) = <<>>
BY DEF Whole, WholeFrame

LEMMA WholeGrows ==
    ASSUME NEW k \in Nat, NEW q \in Nat, NEW new, new = [i \in 1..q |-> WholeFrame(k + i)]
    PROVE  Whole(k) \o new = Whole(k + q)
<1>1. new \in Seq({"first", "continue"} \X {FrameSize}) /\ Len(new) = q
  BY DEF WholeFrame
<1>2. Whole(k) \in Seq({"first", "continue"} \X {FrameSize}) /\ Len(Whole(k)) = k
  BY WholeLen
<1> DEFINE r == Whole(k) \o new
<1>3. /\ r \in Seq({"first", "continue"} \X {FrameSize}) /\ Len(r) = k + q
      /\ \A i \in 1..k : r[i] = Whole(k)[i]
      /\ \A i \in 1..q : r[k + i] = new[i]
  <2> DEFINE S == {"first", "continue"} \X {FrameSize}
  <2>1. new \in Seq(S) /\ Whole(k) \in Seq(S)
    BY <1>1, <1>2
  <2> HIDE DEF S
  <2>2. /\ r \in Seq(S) /\ Len(r) = Len(Whole(k)) + Len(new)
        /\ \A i \in 1..Len(Whole(k)) : r[i] = Whole(k)[i]
        /\ \A i \in 1..Len(new) : r[Len(Whole(k)) + i] = new[i]
    BY <2>1, Concatenated
  <2>3. Len(Whole(k)) = k /\ Len(new) = q
    BY <1>1, <1>2
  <2> QED
    BY <2>2, <2>3, Zenon DEF S
<1> HIDE DEF r
<1>4. \A i \in 1..(k + q) : r[i] = WholeFrame(i)
  <2> TAKE i \in 1..(k + q)
  <2>1. CASE i <= k
    <3>1. i \in 1..k
      BY <2>1
    <3> QED
      BY <1>3, <3>1, WholeLen
  <2>2. CASE i > k
    <3>1. i - k \in 1..q /\ k + (i - k) = i
      BY <2>2
    <3>2. r[k + (i - k)] = new[i - k]
      BY <1>3, <3>1
    <3>3. new[i - k] = WholeFrame(k + (i - k))
      BY <3>1
    <3> QED
      BY <3>1, <3>2, <3>3
  <2> QED
    BY <2>1, <2>2
<1>5. r = [i \in 1..(k + q) |-> WholeFrame(i)]
  BY <1>3, <1>4
<1> QED
  BY <1>5 DEF r, Whole

LEMMA EndedLen ==
    ASSUME NEW k \in Nat, NEW n \in 0..MaxSamples
    PROVE  /\ Len(Ended(k, n)) = k + 1
           /\ \A i \in 1..k : Ended(k, n)[i] = WholeFrame(i)
           /\ Ended(k, n)[k + 1] = <<"last", n>>
<1>1. Whole(k) \in Seq({"first", "continue"} \X {FrameSize}) /\ Len(Whole(k)) = k
  BY WholeLen
<1>2. Whole(k) \in Seq({"first", "continue", "last"} \X (Nat \cup {FrameSize}))
  BY <1>1
<1>3. <<"last", n>> \in {"first", "continue", "last"} \X (Nat \cup {FrameSize})
  OBVIOUS
<1> QED
  BY <1>1, <1>2, <1>3, WholeLen DEF Ended

LEMMA SamplesWhole ==
    ASSUME NEW s \in Stream, NEW k \in Nat, frames[s] = Whole(k)
    PROVE  Samples(s) = k * FrameSize
<1>1. CASE k = 0
  BY <1>1, WholeLen, RecognitionAssumption DEF Samples
<1>2. CASE k # 0
  <2>1. Samples(s) = (k - 1) * FrameSize + Whole(k)[k][2]
    BY <1>2, WholeLen DEF Samples
  <2>2. Whole(k)[k][2] = FrameSize
    BY <1>2, WholeLen DEF WholeFrame
  <2> QED
    BY <2>1, <2>2, RecognitionAssumption
<1> QED
  BY <1>1, <1>2

LEMMA SamplesEnded ==
    ASSUME NEW s \in Stream, NEW k \in Nat, NEW n \in 0..MaxSamples, frames[s] = Ended(k, n)
    PROVE  Samples(s) = k * FrameSize + n
<1>1. Len(frames[s]) = k + 1 /\ k + 1 # 0 /\ k + 1 - 1 = k
  BY EndedLen
<1>2. Samples(s) = k * FrameSize + Ended(k, n)[k + 1][2]
  BY <1>1 DEF Samples
<1> QED
  BY <1>2, EndedLen

\* processAudioBuffer sends whole frames and keeps the rest.
LEMMA Processed ==
    ASSUME SocketTyped, FramesTyped, NEW c \in Streaming, c.id # NoStream,
           frames[c.id] = Whole(c.currentFrameIndex), ProcessAudioBuffer(c)
    PROVE  \E k \in Nat, n \in 0..MaxSamples :
               /\ session' = [c EXCEPT !.audioBuffer = n, !.currentFrameIndex = k]
               /\ frames' = [frames EXCEPT ![c.id] = Whole(k)]
               /\ Whole(k) \in Seq(Frame)
               /\ c.currentFrameIndex * FrameSize + c.audioBuffer = k * FrameSize + n
               /\ served \subseteq served' /\ served' \subseteq Stream
<1> DEFINE m == c.currentFrameIndex
<1>1. /\ m \in Nat /\ c.audioBuffer \in 0..MaxSamples /\ c.audioBuffer \in Nat
      /\ c.id \in Stream /\ FrameSize \in Nat \ {0} /\ MaxSamples \in Nat
  BY RecognitionAssumption DEF Streaming
<1>2. PICK q \in Nat, r \in Nat : /\ c.audioBuffer \div FrameSize = q
                                /\ c.audioBuffer % FrameSize = r
                                /\ Parts(c.audioBuffer, FrameSize, q, r)
  BY <1>1, Divided
<1>3. r \in 0..MaxSamples /\ m + q \in Nat
  BY <1>1, <1>2 DEF Parts
<1>4. session' = [c EXCEPT !.audioBuffer = r, !.currentFrameIndex = m + q]
  BY <1>1, <1>2 DEF ProcessAudioBuffer, AfterFrames, Streaming
<1>5. WholeFrames(c) = [i \in 1..q |-> WholeFrame(m + i)]
  BY <1>2, Zenon DEF WholeFrames, WholeFrame
<1>6. Whole(m) \o WholeFrames(c) = Whole(m + q)
  BY <1>1, <1>5, WholeGrows
<1>7. frames' = [frames EXCEPT ![c.id] = Whole(m + q)]
  BY <1>6, Zenon DEF ProcessAudioBuffer, Sent
<1>8. Whole(m + q) \in Seq(Frame)
  <2>1. CASE q = 0
    BY <1>1, <2>1 DEF FramesTyped
  <2>2. CASE q # 0
    <3>1. FrameSize \in 0..MaxSamples
      BY <1>1, <1>2, <2>2 DEF Parts
    <3>2. \A i \in 1..(m + q) : WholeFrame(i) \in Frame
      BY <3>1 DEF WholeFrame, Frame
    <3> QED
      BY <1>3, <3>2 DEF Whole
  <2> QED
    BY <2>1, <2>2
<1>9. m * FrameSize + c.audioBuffer = (m + q) * FrameSize + r
  <2>1. c.audioBuffer = q * FrameSize + r
    BY <1>2 DEF Parts
  <2>2. (m + q) * FrameSize = m * FrameSize + q * FrameSize
    BY <1>1, <1>2
  <2>3. m * FrameSize \in Nat /\ q * FrameSize \in Nat
    BY <1>1, <1>2
  <2> HIDE DEF m
  <2> QED
    BY <1>2, <2>1, <2>2, <2>3
<1>10. served \subseteq served' /\ served' \subseteq Stream
  BY <1>1 DEF ProcessAudioBuffer, Sent, SocketTyped
<1> HIDE DEF m
<1> QED
  BY <1>3, <1>4, <1>7, <1>8, <1>9, <1>10 DEF m

Streams == <<frames, accepted, companions, returned, session, waiting>>

\* What is true of the streams is so as long as nothing of them changes.
LEMMA LeftInOrder ==
    ASSUME RecognitionInv, UNCHANGED Streams
    PROVE  ResultsTyped' /\ FramesTyped' /\ FramesOk' /\ SessionOk' /\ BufferOk' /\ WaitingOk'
BY DEF Streams, RecognitionInv, ResultsTyped, FramesTyped, FramesOk, SessionOk, BufferOk, WaitingOk,
    Buffered, AllSent, Framed

LEMMA OtherSpeechKeeps ==
    ASSUME RecognitionInv,
           \/ \E s \in Stream : EndUnknown(s)
           \/ TerminateRecognition \/ LockAgain \/ OnDisconnected \/ UNCHANGED speechVars
    PROVE  RecognitionInv'
<1>1. UNCHANGED Streams
  BY DEF EndUnknown, TerminateRecognition, LockAgain, OnDisconnected, speechVars, Streams
<1>2. SocketTyped' /\ HeardOk'
  BY DEF EndUnknown, TerminateRecognition, LockAgain, OnDisconnected, speechVars,
     RecognitionInv, SocketTyped, HeardOk, TextOfConnection
<1>3. LoopTyped' /\ \A s \in Stream : streams'[s] = "absent" => streams[s] = "absent"
  BY DEF EndUnknown, TerminateRecognition, LockAgain, OnDisconnected, speechVars,
     RecognitionInv, LoopTyped, Free
<1>4. Unstarted'
  BY <1>1, <1>3 DEF Streams, RecognitionInv, Unstarted
<1> QED
  BY <1>1, <1>2, <1>3, <1>4, LeftInOrder DEF RecognitionInv

LEMMA StartStreamKeeps ==
    ASSUME RecognitionInv, NEW s \in Stream, StartStream(s)
    PROVE  RecognitionInv'
<1>1. /\ waiting = NoStream /\ waiting' = NoStream /\ s # NoStream
      /\ UNCHANGED <<frames, accepted, companions, returned, quitting, thread>>
      /\ streams' = [streams EXCEPT ![s] = "active"] /\ streams[s] = "absent"
      /\ frames[s] = <<>> /\ accepted[s] = 0 /\ returned[s] = {}
  BY RecognitionAssumption DEF StartStream, Free, Stream, NoStream, RecognitionInv, Unstarted
<1>2. session' = Idle \/ session' = NewSession(s)
  BY DEF StartStream
<1>3. /\ session' \in Streaming /\ session'.result = {} /\ session'.id \in {s, NoStream}
      /\ session'.id # NoStream => session'.currentFrameIndex = 0 /\ session'.audioBuffer = 0
  <2>1. 0 \in 0..MaxSamples
    BY RecognitionAssumption
  <2>2. CASE session' = Idle
    BY <1>2, <2>1, <2>2 DEF Idle, Streaming
  <2>3. CASE session' = NewSession(s)
    <3>1. Idle \in Streaming /\ Idle.currentFrameIndex = 0 /\ Idle.audioBuffer = 0
          /\ Idle.result = {}
      BY <2>1 DEF Idle, Streaming
    <3> QED
      BY <2>3, <3>1 DEF NewSession, Streaming
  <2> QED
    BY <1>2, <2>2, <2>3
<1>4. FramesTyped' /\ ResultsTyped' /\ FramesOk'
  BY <1>1, <1>3 DEF RecognitionInv, FramesTyped, ResultsTyped, FramesOk, Framed
<1>5. LoopTyped'
  BY <1>1 DEF RecognitionInv, LoopTyped
<1>6. Unstarted' /\ SessionOk' /\ WaitingOk'
  BY <1>1, <1>3 DEF RecognitionInv, LoopTyped, Unstarted, SessionOk, WaitingOk, NoStream, Stream
<1>7. BufferOk'
  <2>1. Whole(0) = <<>> /\ 0 * FrameSize + 0 = 0
    BY WholeLen, RecognitionAssumption
  <2> QED
    BY <1>1, <1>3, <2>1 DEF BufferOk, Buffered
<1>8. SocketTyped' /\ HeardOk'
  BY <1>1, <1>3 DEF StartStream, SocketUnchanged, ConnectToServer, RecognitionInv, SocketTyped,
     HeardOk, TextOfConnection
<1> QED
  BY <1>4, <1>5, <1>6, <1>7, <1>8 DEF RecognitionInv

\* What the end of a stream returns came with a result of it.
LEMMA ReturnedTyped ==
    ASSUME RecognitionInv, NEW s \in Stream, NEW x, x \in {NoStream, s}, session.id = x,
           UNCHANGED <<frames, accepted, companions, wire, heard, served, thread>>,
           thread = "running", session' = Idle, waiting' = NoStream, quitting' = FALSE,
           waiting \in {NoStream, s}, streams' = [streams EXCEPT ![s] = "ended"],
           returned' = [returned EXCEPT ![s] = session.result]
    PROVE  RecognitionInv'
<1>1. session' \in Streaming /\ session'.id = NoStream /\ session'.result = {}
  BY RecognitionAssumption DEF Idle, Streaming
<1>2. session.result \subseteq companions[s] /\ session.result \subseteq Stream
  BY DEF RecognitionInv, HeardOk, SessionOk, FramesTyped, Streaming
<1>3. FramesTyped' /\ FramesOk' /\ SocketTyped'
  BY <1>1 DEF RecognitionInv, FramesTyped, FramesOk, Framed, SocketTyped
<1>4. LoopTyped' /\ ResultsTyped'
  BY <1>2 DEF RecognitionInv, LoopTyped, ResultsTyped
<1>5. Unstarted'
  BY <1>1 DEF RecognitionInv, LoopTyped, ResultsTyped, Unstarted, Stream, NoStream
<1>6. SessionOk' /\ BufferOk' /\ WaitingOk'
  BY <1>1 DEF SessionOk, BufferOk, WaitingOk
<1>7. HeardOk'
  BY <1>1, <1>2 DEF RecognitionInv, ResultsTyped, HeardOk, TextOfConnection
<1> QED
  BY <1>3, <1>4, <1>5, <1>6, <1>7 DEF RecognitionInv

LEMMA EndingKeeps ==
    ASSUME RecognitionInv, (\E s \in Stream : EndUnconnected(s)) \/ ReturnFromEnd
    PROVE  RecognitionInv'
<1>1. ASSUME NEW s \in Stream, EndUnconnected(s) PROVE RecognitionInv'
  <2>1. /\ session.id = s /\ thread = "running" /\ waiting = NoStream /\ quitting = FALSE
        /\ waiting' = NoStream /\ quitting' = FALSE
    BY <1>1 DEF EndUnconnected, Free, ThreadRuns, RecognitionInv, LoopTyped
  <2> QED
    BY <1>1, <2>1, ReturnedTyped DEF EndUnconnected
<1>2. CASE ReturnFromEnd
  <2>1. /\ waiting \in Stream /\ session.id \in {NoStream, waiting} /\ thread = "running"
        /\ waiting # NoStream
    BY <1>2 DEF ReturnFromEnd, ThreadRuns, RecognitionInv, LoopTyped, SessionOk, FramesTyped,
       Streaming
  <2> QED
    BY <1>2, <2>1, ReturnedTyped DEF ReturnFromEnd
<1> QED
  BY <1>1, <1>2

LEMMA EndStreamKeeps ==
    ASSUME RecognitionInv, NEW s \in Stream, EndStream(s)
    PROVE  RecognitionInv'
<1>1. /\ waiting = NoStream /\ waiting' = s /\ session.id = s /\ s # NoStream
      /\ UNCHANGED <<streams, accepted, companions, returned, quitting, thread, wire, heard>>
      /\ thread = "running" /\ quitting = FALSE /\ streams[s] = "active"
  BY RecognitionAssumption DEF EndStream, Free, ThreadRuns, Stream, NoStream, RecognitionInv,
     LoopTyped
<1>2. PICK k \in Nat, n \in 0..MaxSamples :
        /\ k = session.currentFrameIndex /\ n = session.audioBuffer
        /\ frames[s] = Whole(k) /\ accepted[s] = k * FrameSize + n
  BY <1>1 DEF RecognitionInv, FramesTyped, Streaming, BufferOk, Buffered
<1>3. /\ session' \in Streaming /\ session'.id = s /\ session'.result = session.result
      /\ session'.audioBuffer = 0
  <2>1. 0 \in 0..MaxSamples
    BY RecognitionAssumption
  <2>2. session \in Streaming
    BY DEF RecognitionInv, FramesTyped
  <2>3. session' = [session EXCEPT !.isActive = FALSE, !.audioBuffer = 0]
    BY DEF EndStream
  <2> QED
    BY <1>1, <2>1, <2>2, <2>3 DEF Streaming
<1>4. frames' = [frames EXCEPT ![s] = Ended(k, n)] /\ Ended(k, n) \in Seq(Frame)
  <2>1. frames[s] \in Seq(Frame) /\ <<"last", n>> \in Frame
    BY DEF RecognitionInv, FramesTyped, Frame
  <2>2. frames[s] \o <<<<"last", n>>>> = Append(frames[s], <<"last", n>>)
    BY <2>1
  <2>3. frames' = [frames EXCEPT ![s] = Append(frames[s], <<"last", n>>)]
    BY <1>2, <2>2, Zenon DEF EndStream, Sent, LastFrame
  <2> HIDE DEF Frame
  <2>4. Append(frames[s], <<"last", n>>) \in Seq(Frame)
    BY <2>1
  <2> QED
    BY <1>2, <2>3, <2>4, Zenon DEF Ended
<1>5. FramesTyped' /\ ResultsTyped' /\ LoopTyped'
  BY <1>1, <1>3, <1>4 DEF RecognitionInv, FramesTyped, ResultsTyped, LoopTyped
<1>6. FramesOk'
  <2>1. Framed(Ended(k, n))
    BY DEF Framed
  <2>2. \A r \in Stream : Framed(frames[r])
    BY DEF RecognitionInv, FramesOk
  <2> QED
    BY <1>4, <2>1, <2>2 DEF RecognitionInv, FramesTyped, FramesOk
<1>7. Unstarted' /\ SessionOk' /\ BufferOk'
  BY <1>1, <1>3, <1>4 DEF RecognitionInv, FramesTyped, Unstarted, SessionOk, BufferOk
<1>8. WaitingOk'
  <2>1. AllSent(s, k, n)'
    BY <1>1, <1>2, <1>4 DEF RecognitionInv, FramesTyped, AllSent
  <2> QED
    BY <1>1, <1>3, <2>1 DEF WaitingOk
<1>9. served \subseteq served' /\ served' \subseteq Stream
  BY DEF EndStream, Sent, RecognitionInv, SocketTyped
<1>10. SocketTyped' /\ HeardOk'
  BY <1>1, <1>3, <1>9 DEF RecognitionInv, SocketTyped, HeardOk, TextOfConnection
<1> QED
  BY <1>5, <1>6, <1>7, <1>8, <1>10 DEF RecognitionInv

\* Whatever the provider's buffer becomes, with as much accepted as was sent of
\* it and is buffered.
LEMMA BufferKeeps ==
    ASSUME RecognitionInv, NEW k \in Nat, NEW n \in 0..MaxSamples, NEW a \in 0..MaxSamples,
           NEW s \in Stream, s = session.id, waiting = NoStream,
           frames' = [frames EXCEPT ![s] = Whole(k)], Whole(k) \in Seq(Frame),
           accepted' = [accepted EXCEPT ![s] = a], a = k * FrameSize + n,
           session' \in Streaming, session'.id = s, session'.result = session.result,
           session'.currentFrameIndex = k, session'.audioBuffer = n,
           served \subseteq served', served' \subseteq Stream,
           wire' = wire \/ (wire = "connecting" /\ wire' = "connected"),
           UNCHANGED <<streams, heard, waiting, quitting, thread, companions, returned>>
    PROVE  RecognitionInv'
<1>1. FramesTyped' /\ ResultsTyped' /\ LoopTyped'
  BY DEF RecognitionInv, FramesTyped, ResultsTyped, LoopTyped
<1>2. FramesOk'
  <2>1. Framed(Whole(k))
    BY DEF Framed
  <2>2. \A r \in Stream : Framed(frames[r])
    BY DEF RecognitionInv, FramesOk
  <2> QED
    BY <2>1, <2>2 DEF RecognitionInv, FramesTyped, FramesOk
<1>3. Unstarted' /\ SessionOk' /\ WaitingOk'
  BY RecognitionAssumption
  DEF RecognitionInv, FramesTyped, Unstarted, SessionOk, WaitingOk, Stream, NoStream
<1>4. BufferOk'
  BY DEF RecognitionInv, FramesTyped, BufferOk, Buffered
<1>5. SocketTyped' /\ HeardOk'
  BY DEF RecognitionInv, SocketTyped, HeardOk, TextOfConnection
<1> QED
  BY <1>1, <1>2, <1>3, <1>4, <1>5 DEF RecognitionInv

LEMMA SendAudioKeeps ==
    ASSUME RecognitionInv, NEW s \in Stream, NEW m \in 1..MaxSamples, SendAudioData(s, m)
    PROVE  RecognitionInv'
<1>1. /\ waiting = NoStream /\ session.id = s /\ s # NoStream /\ session \in Streaming
      /\ accepted[s] \in 0..MaxSamples /\ accepted[s] + m <= MaxSamples
      /\ session.currentFrameIndex \in Nat /\ session.audioBuffer \in 0..MaxSamples
  BY RecognitionAssumption DEF SendAudioData, Free, Stream, NoStream, RecognitionInv, FramesTyped,
     Streaming
<1>2. /\ frames[s] = Whole(session.currentFrameIndex)
      /\ accepted[s] = session.currentFrameIndex * FrameSize + session.audioBuffer
  BY <1>1 DEF RecognitionInv, BufferOk, Buffered
<1> DEFINE k == session.currentFrameIndex
           b == session.audioBuffer + m
           c == [session EXCEPT !.audioBuffer = @ + m]
<1>3. /\ b \in 0..MaxSamples /\ accepted[s] + m \in 0..MaxSamples
      /\ accepted[s] + m = k * FrameSize + b
  <2>1. k * FrameSize \in Nat
    BY <1>1, RecognitionAssumption
  <2> HIDE DEF k
  <2> QED
    BY <1>1, <1>2, <2>1, RecognitionAssumption DEF k
<1>4. /\ c \in Streaming /\ c.id = s /\ c.currentFrameIndex = k /\ c.audioBuffer = b
      /\ c.result = session.result
  BY <1>1, <1>3 DEF Streaming
<1>5. /\ accepted' = [accepted EXCEPT ![s] = accepted[s] + m]
      /\ UNCHANGED <<streams, wire, heard, waiting, quitting, thread, companions, returned>>
  BY DEF SendAudioData
<1>6. CASE wire = "connected"
  <2>1. ProcessAudioBuffer(c)
    BY <1>6 DEF SendAudioData
  <2>2. PICK j \in Nat, n \in 0..MaxSamples :
            /\ session' = [c EXCEPT !.audioBuffer = n, !.currentFrameIndex = j]
            /\ frames' = [frames EXCEPT ![c.id] = Whole(j)]
            /\ Whole(j) \in Seq(Frame)
            /\ c.currentFrameIndex * FrameSize + c.audioBuffer = j * FrameSize + n
            /\ served \subseteq served' /\ served' \subseteq Stream
    <3> HIDE DEF c, k, b
    <3>1. frames[c.id] = Whole(c.currentFrameIndex) /\ c.id # NoStream
      BY <1>1, <1>2, <1>4 DEF k
    <3> QED
      BY <1>4, <2>1, <3>1, Processed DEF RecognitionInv
  <2> HIDE DEF c, b
  <2>3. /\ session' \in Streaming /\ session'.id = s /\ session'.result = session.result
        /\ session'.currentFrameIndex = j /\ session'.audioBuffer = n
    BY <1>4, <2>2 DEF Streaming
  <2>4. accepted[s] + m = j * FrameSize + n
    BY <1>3, <1>4, <2>2
  <2> QED
    BY <1>1, <1>3, <1>4, <1>5, <2>2, <2>3, <2>4, BufferKeeps
<1>7. CASE wire # "connected"
  <2>1. session' = c /\ UNCHANGED <<frames, served>>
    BY <1>7 DEF SendAudioData, NothingSent
  <2>2. /\ frames' = [frames EXCEPT ![s] = Whole(k)] /\ Whole(k) \in Seq(Frame)
        /\ served' \subseteq Stream
    BY <1>2, <2>1 DEF RecognitionInv, FramesTyped, SocketTyped
  <2> HIDE DEF c, b
  <2> QED
    BY <1>1, <1>3, <1>4, <1>5, <2>1, <2>2, BufferKeeps
<1> QED
  BY <1>6, <1>7

LEMMA OnConnectedKeeps ==
    ASSUME RecognitionInv, OnConnected
    PROVE  RecognitionInv'
<1>1. /\ wire = "connecting" /\ wire' = "connected" /\ session \in Streaming
      /\ UNCHANGED <<streams, heard, waiting, quitting, thread, accepted, companions, returned>>
  BY DEF OnConnected, RecognitionInv, FramesTyped
<1>2. CASE session.id # NoStream /\ session.audioBuffer > 0
  <2>1. ProcessAudioBuffer(session)
    BY <1>2 DEF OnConnected
  <2>2. waiting = NoStream /\ session.id \in Stream
    BY <1>1, <1>2 DEF RecognitionInv, WaitingOk, Streaming
  <2>3. /\ frames[session.id] = Whole(session.currentFrameIndex)
        /\ accepted[session.id] = session.currentFrameIndex * FrameSize + session.audioBuffer
    BY <1>2, <2>2 DEF RecognitionInv, BufferOk, Buffered
  <2>4. PICK j \in Nat, n \in 0..MaxSamples :
            /\ session' = [session EXCEPT !.audioBuffer = n, !.currentFrameIndex = j]
            /\ frames' = [frames EXCEPT ![session.id] = Whole(j)]
            /\ Whole(j) \in Seq(Frame)
            /\ session.currentFrameIndex * FrameSize + session.audioBuffer = j * FrameSize + n
            /\ served \subseteq served' /\ served' \subseteq Stream
    BY <1>1, <1>2, <2>1, <2>3, Processed DEF RecognitionInv
  <2>5. /\ session' \in Streaming /\ session'.id = session.id
        /\ session'.result = session.result
        /\ session'.currentFrameIndex = j /\ session'.audioBuffer = n
    BY <1>1, <2>4 DEF Streaming
  <2>6. /\ accepted[session.id] \in 0..MaxSamples
        /\ accepted' = [accepted EXCEPT ![session.id] = accepted[session.id]]
        /\ accepted[session.id] = j * FrameSize + n
    BY <1>1, <2>2, <2>3, <2>4 DEF RecognitionInv, FramesTyped
  <2> QED
    BY <1>1, <2>2, <2>4, <2>5, <2>6, BufferKeeps
<1>3. CASE ~(session.id # NoStream /\ session.audioBuffer > 0)
  <2>1. UNCHANGED <<session, frames, served>>
    BY <1>3, Zenon DEF OnConnected, NothingSent
  <2>2. UNCHANGED Streams
    BY <1>1, <2>1 DEF Streams
  <2>3. SocketTyped' /\ HeardOk' /\ LoopTyped' /\ Unstarted'
    BY <1>1, <2>1 DEF RecognitionInv, SocketTyped, HeardOk, TextOfConnection, LoopTyped, Unstarted
  <2> QED
    BY <2>2, <2>3, LeftInOrder DEF RecognitionInv
<1> QED
  BY <1>2, <1>3

LEMMA OnErrorKeeps ==
    ASSUME RecognitionInv, OnError
    PROVE  RecognitionInv'
<1>1. /\ session' = Idle /\ UNCHANGED <<streams, frames, waiting, thread, accepted, companions, returned>>
      /\ wire' = "closed" /\ heard' \subseteq Stream /\ served' \subseteq Stream
  BY DEF OnError, DisconnectFromServer, RecognitionInv, SocketTyped
<1>2. /\ session' \in Streaming /\ session'.id = NoStream /\ session'.result = {}
      /\ session'.audioBuffer = 0
  <2>1. 0 \in 0..MaxSamples
    BY RecognitionAssumption
  <2> QED
    BY <1>1, <2>1 DEF Idle, Streaming
<1>3. LoopTyped'
  BY <1>1 DEF OnError, QuitLoop, RecognitionInv, LoopTyped
<1>4. FramesTyped' /\ ResultsTyped' /\ SocketTyped' /\ FramesOk'
  BY <1>1, <1>2 DEF RecognitionInv, FramesTyped, ResultsTyped, SocketTyped, FramesOk, Framed
<1>5. Unstarted'
  BY <1>1, <1>2 DEF RecognitionInv, Unstarted, Stream, NoStream
<1>6. SessionOk' /\ BufferOk' /\ WaitingOk' /\ HeardOk'
  BY <1>1, <1>2 DEF RecognitionInv, SessionOk, BufferOk, WaitingOk, AllSent, HeardOk,
     TextOfConnection
<1> QED
  BY <1>3, <1>4, <1>5, <1>6 DEF RecognitionInv

LEMMA OnRecognitionKeeps ==
    ASSUME RecognitionInv, NEW s \in Stream, NEW final \in BOOLEAN, OnRecognition(s, final)
    PROVE  RecognitionInv'
<1>1. /\ UNCHANGED <<streams, wire, frames, served, waiting, thread, accepted, returned>>
      /\ wire = "connected" /\ heard' \subseteq served /\ served \subseteq Stream
  BY DEF OnRecognition, RecognitionInv, SocketTyped, HeardOk
<1>2. SocketTyped'
  BY <1>1 DEF RecognitionInv, SocketTyped
<1>3. LoopTyped'
  BY <1>1 DEF OnRecognition, QuitLoop, RecognitionInv, LoopTyped
<1>4. CASE final /\ session.id # NoStream
  <2>1. /\ session' = [session EXCEPT !.result = heard'] /\ session \in Streaming
        /\ companions' = [companions EXCEPT ![session.id] = served]
        /\ session.id \in Stream
    BY <1>4 DEF OnRecognition, RecognitionInv, FramesTyped, Streaming
  <2>2. /\ session' \in Streaming /\ session'.id = session.id /\ session'.result = heard'
        /\ session'.audioBuffer = session.audioBuffer
        /\ session'.currentFrameIndex = session.currentFrameIndex
    BY <1>1, <2>1 DEF Streaming
  <2>3. FramesTyped' /\ ResultsTyped' /\ FramesOk' /\ Unstarted'
    BY <1>1, <2>1, <2>2 DEF RecognitionInv, FramesTyped, ResultsTyped, FramesOk, Framed, Unstarted
  <2>4. SessionOk' /\ BufferOk' /\ WaitingOk'
    BY <1>1, <1>4, <2>2 DEF RecognitionInv, SessionOk, BufferOk, Buffered, WaitingOk, AllSent
  <2>5. HeardOk'
    BY <1>1, <1>4, <2>1, <2>2
    DEF RecognitionInv, ResultsTyped, SessionOk, HeardOk, TextOfConnection
  <2> QED
    BY <1>2, <1>3, <2>3, <2>4, <2>5 DEF RecognitionInv
<1>5. CASE ~(final /\ session.id # NoStream)
  <2>1. UNCHANGED <<session, companions>>
    BY <1>5 DEF OnRecognition
  <2>2. UNCHANGED Streams
    BY <1>1, <2>1 DEF Streams
  <2>3. Unstarted' /\ HeardOk'
    BY <1>1, <2>1 DEF RecognitionInv, Unstarted, HeardOk, TextOfConnection
  <2> QED
    BY <1>2, <1>3, <2>2, <2>3, LeftInOrder DEF RecognitionInv
<1> QED
  BY <1>4, <1>5

LEMMA FirstFrames ==
    ASSUME RecognitionInit
    PROVE  RecognitionInv
<1>1. session \in Streaming /\ session.id = NoStream /\ session.result = {}
  <2>1. 0 \in 0..MaxSamples
    BY RecognitionAssumption
  <2> QED
    BY <2>1 DEF RecognitionInit, Idle, Streaming
<1>2. FramesTyped /\ ResultsTyped /\ SocketTyped /\ LoopTyped
  <2>1. 0 \in 0..MaxSamples
    BY RecognitionAssumption
  <2>2. frames \in [Stream -> Seq(Frame)] /\ accepted \in [Stream -> 0..MaxSamples]
    BY <2>1 DEF RecognitionInit
  <2>3. FramesTyped
    BY <1>1, <2>2 DEF FramesTyped
  <2> QED
    BY <2>3 DEF RecognitionInit, ResultsTyped, SocketTyped, LoopTyped
<1>3. FramesOk
  <2>1. Framed(<<>>)
    BY WholeLen DEF Framed
  <2> QED
    BY <2>1 DEF RecognitionInit, FramesOk
<1>4. Unstarted /\ SessionOk /\ BufferOk /\ WaitingOk /\ HeardOk
  BY <1>1 DEF RecognitionInit, Unstarted, SessionOk, BufferOk, WaitingOk, HeardOk, TextOfConnection,
     Stream, NoStream
<1> QED
  BY <1>2, <1>3, <1>4 DEF RecognitionInv

LEMMA InOrder ==
    ASSUME RecognitionInv
    PROVE  FramesInOrder
<1> SUFFICES ASSUME NEW s \in Stream, NEW i \in 1..Len(frames[s])
             PROVE  /\ frames[s][i][1] = "first" => i = 1
                    /\ frames[s][i][1] = "last" => i = Len(frames[s])
                    /\ frames[s][i][1] = "continue" => i > 1
                    /\ frames[s][i][1] # "last" => frames[s][i][2] = FrameSize
  BY Zenon DEF FramesInOrder
<1>1. PICK k \in Nat : frames[s] = Whole(k) \/ \E n \in 0..MaxSamples : frames[s] = Ended(k, n)
  BY DEF RecognitionInv, FramesOk, Framed
<1>2. CASE frames[s] = Whole(k)
  BY <1>2, WholeLen DEF WholeFrame
<1>3. ASSUME NEW n \in 0..MaxSamples, frames[s] = Ended(k, n)
      PROVE  \/ frames[s][i] = WholeFrame(i)
             \/ i = Len(frames[s]) /\ frames[s][i] = <<"last", n>>
  <2>1. Len(frames[s]) = k + 1
    BY <1>3, EndedLen
  <2>2. i \in 1..k \/ i = k + 1
    BY <2>1
  <2>3. CASE i \in 1..k
    BY <1>3, <2>3, EndedLen
  <2>4. CASE i = k + 1
    BY <1>3, <2>1, <2>4, EndedLen
  <2> QED
    BY <2>2, <2>3, <2>4
<1>4. ASSUME NEW n \in 0..MaxSamples, frames[s] = Ended(k, n)
      PROVE  /\ frames[s][i][1] = "first" => i = 1
             /\ frames[s][i][1] = "last" => i = Len(frames[s])
             /\ frames[s][i][1] = "continue" => i > 1
             /\ frames[s][i][1] # "last" => frames[s][i][2] = FrameSize
  BY <1>3, <1>4 DEF WholeFrame
<1> QED
  BY <1>1, <1>2, <1>4

LEMMA NothingLost ==
    ASSUME RecognitionInv
    PROVE  AudioIsKept
<1>1. ASSUME session.id # NoStream, waiting = NoStream
      PROVE  Samples(session.id) + session.audioBuffer = accepted[session.id]
  <2>1. session.id \in Stream /\ session.currentFrameIndex \in Nat
    BY <1>1 DEF RecognitionInv, FramesTyped, Streaming
  <2>2. Buffered(session.currentFrameIndex, session.audioBuffer)
    BY <1>1 DEF RecognitionInv, BufferOk
  <2> QED
    BY <2>1, <2>2, SamplesWhole DEF Buffered
<1>2. ASSUME waiting # NoStream
      PROVE  /\ Samples(waiting) = accepted[waiting] /\ accepted[waiting] \in Nat
             /\ session.audioBuffer = 0
  <2>1. waiting \in Stream /\ accepted[waiting] \in Nat
    BY <1>2 DEF RecognitionInv, LoopTyped, FramesTyped
  <2>2. PICK k \in Nat, n \in 0..MaxSamples : AllSent(waiting, k, n)
    BY <1>2 DEF RecognitionInv, WaitingOk
  <2> QED
    BY <1>2, <2>1, <2>2, SamplesEnded DEF AllSent, RecognitionInv, WaitingOk
<1>3. session.id # NoStream /\ waiting # NoStream => session.id = waiting
  BY DEF RecognitionInv, SessionOk
<1> QED
  BY <1>1, <1>2, <1>3 DEF AudioIsKept

\* RecognitionInv is inductive: of the provider's stream whole frames were sent
\* and the rest is buffered, until its end sends the rest.
THEOREM RecognitionInvariant == RecognitionSpec => []RecognitionInv
<1>1. RecognitionInit => RecognitionInv
  BY FirstFrames
<1>2. RecognitionInv /\ [RecognitionNext]_speechVars => RecognitionInv'
  BY StartStreamKeeps, OtherSpeechKeeps, EndingKeeps, EndStreamKeeps, SendAudioKeeps,
     OnConnectedKeeps, OnErrorKeeps, OnRecognitionKeeps
  DEF RecognitionNext, RecognitionRequest, Server
<1> QED
  BY <1>1, <1>2, PTL DEF RecognitionSpec

\* The frames of a stream are in order and hold every sample that was accepted,
\* and the text of a stream was heard on a connection it had frames on
\* (xunfeispeechtotext.cpp, processAudioBuffer and endStreamRecognition).
THEOREM AudioAlwaysArrives == RecognitionSpec => []AudioArrives
<1>1. ASSUME RecognitionInv PROVE SpeechTypeOK
  <2>1. \A s \in Stream : \A i \in 1..Len(frames[s]) : frames[s][i] \in Frame
    BY <1>1 DEF RecognitionInv, FramesTyped
  <2> QED
    BY <1>1, <2>1 DEF RecognitionInv, SocketTyped, LoopTyped, FramesTyped, Streaming, SpeechTypeOK
<1>2. RecognitionInv => TextOfConnection
  BY DEF RecognitionInv, HeardOk
<1>3. RecognitionInv => AudioArrives
  BY <1>1, <1>2, InOrder, NothingLost DEF AudioArrives
<1> QED
  BY <1>3, RecognitionInvariant, PTL

-----------------------------------------------------------------------------
(* Speech synthesis: the texts of a session                                *)

\* Texts are started in order and the last one is the current one, which the
\* provider has a session of as long as the socket is in use.
TextsInOrder ==
    /\ \A t \in Text : texts[t] # "absent" => \A u \in Text : u < t => texts[u] # "absent"
    /\ \A t \in synthesisSessions : t <= current
    /\ link \in {"connecting", "connected"} => current \in synthesisSessions
    /\ link = "gone" => \A t \in Text : texts[t] = "ended"

TextsTyped ==
    /\ audioData \in [Text -> SUBSET Text]
    /\ said \in SUBSET Text /\ complete \in SUBSET said

SynthesisInv == TextsTyped /\ SynthesisTypeOK /\ TextsInOrder /\ CurrentIsSaid /\ AudioOfEarlier

LEMMA SynthesisStarts ==
    ASSUME SynthesisInit PROVE SynthesisInv
BY SynthesisAssumption DEF SynthesisInit, SynthesisInv, TextsTyped, SynthesisTypeOK, TextsInOrder,
    CurrentIsSaid, AudioOfEarlier, Text, NoText

\* A text that is sent is the current one, and no text after it has been sent.
LEMMA SpokenStaysOwn ==
    ASSUME SynthesisInv, link # "gone", NEW t \in Text,
           \A u \in synthesisSessions : u <= t,
           said' = said \cup {t}, UNCHANGED <<audioData, complete>>
    PROVE  AudioOfEarlier'
BY DEF SynthesisInv, TextsTyped, SynthesisTypeOK, AudioOfEarlier

LEMMA StartSynthesisKeeps ==
    ASSUME SynthesisInv, NEW t \in Text, StartSynthesis(t)
    PROVE  SynthesisInv'
<1>1. link # "gone" /\ \A u \in synthesisSessions : u <= t /\ u # t
  BY DEF StartSynthesis, SynthesisInv, TextsInOrder, SynthesisTypeOK, Text
<1>2. synthesisSessions' = {u \in Text : texts'[u] # "absent"} /\ link' # "gone"
  BY <1>1 DEF StartSynthesis, SynthesisInv, SynthesisTypeOK
<1>3. TextsInOrder'
  <2>1. \A u \in Text : texts'[u] # "absent" => \A v \in Text : v < u => texts'[v] # "absent"
    BY DEF StartSynthesis, SynthesisInv, SynthesisTypeOK, TextsInOrder
  <2>2. \A u \in synthesisSessions' : u <= t
    BY <1>1 DEF StartSynthesis, Text
  <2> QED
    BY <1>2, <2>1, <2>2 DEF StartSynthesis, TextsInOrder
<1>4. CASE MaySend
  <2>1. TextsTyped' /\ CurrentIsSaid'
    BY <1>4 DEF StartSynthesis, SynthesizeText, SynthesisInv, TextsTyped, CurrentIsSaid
  <2>2. AudioOfEarlier'
    BY <1>1, <1>4, SpokenStaysOwn DEF StartSynthesis, SynthesizeText
  <2>3. SynthesisTypeOK'
    BY <1>1, <1>2, <1>4
    DEF StartSynthesis, SynthesizeText, MaySend, SynthesisInv, TextsTyped, SynthesisTypeOK
  <2> QED
    BY <1>3, <2>1, <2>2, <2>3 DEF SynthesisInv
<1>5. CASE ~MaySend
  <2>1. TextsTyped' /\ CurrentIsSaid' /\ AudioOfEarlier'
    BY <1>5 DEF StartSynthesis, NothingAsked, MaySend, SynthesisInv, TextsTyped, CurrentIsSaid,
        AudioOfEarlier
  <2>2. SynthesisTypeOK'
    BY <1>1, <1>2, <1>5
    DEF StartSynthesis, NothingAsked, MaySend, SynthesisInv, TextsTyped, SynthesisTypeOK
  <2> QED
    BY <1>3, <2>1, <2>2 DEF SynthesisInv
<1> QED
  BY <1>4, <1>5

LEMMA ResultKeeps ==
    ASSUME SynthesisInv, NEW t \in Text, NEW last \in BOOLEAN, OnSynthesisResult(t, last)
    PROVE  SynthesisInv'
<1>1. /\ link = "connected" /\ t \in asked /\ t \in said
      /\ current \in said /\ current \in Text /\ current \in synthesisSessions
  BY DEF OnSynthesisResult, SynthesisInv, SynthesisTypeOK, TextsTyped, CurrentIsSaid, TextsInOrder
<1>2. \A u \in said : u \in Text /\ u <= current
  BY <1>1 DEF SynthesisInv, SynthesisTypeOK, TextsTyped, TextsInOrder
<1>3. audioHeard' \subseteq said /\ t \in audioHeard'
  BY <1>1 DEF OnSynthesisResult, SynthesisInv, SynthesisTypeOK
<1>4. PICK a : /\ audioData' = [audioData EXCEPT ![current] = a]
               /\ a = IF last THEN audioHeard' ELSE audioData[current] \cup {t}
  BY DEF OnSynthesisResult, Credited
<1>5. complete' = complete \/ (last /\ complete' = complete \cup {current})
  BY DEF OnSynthesisResult, Credited
<1>6. a \in SUBSET Text /\ \A u \in a : u <= current
  BY <1>1, <1>2, <1>3, <1>4 DEF SynthesisInv, TextsTyped, AudioOfEarlier
<1>7. current \in complete' /\ said \cap 1..current = {current} => a = {current}
  <2> SUFFICES ASSUME current \in complete', said \cap 1..current = {current}
               PROVE  a = {current}
    OBVIOUS
  <2>1. said = {current}
    <3>1. \A u \in said : u \in 1..current
      BY <1>1, <1>2, SynthesisAssumption DEF Text
    <3> QED
      BY <1>1, <3>1
  <2>2. CASE last
    BY <1>3, <1>4, <2>1, <2>2
  <2>3. CASE ~last
    BY <1>1, <1>4, <1>5, <2>1, <2>3 DEF SynthesisInv, AudioOfEarlier
  <2> QED
    BY <2>2, <2>3
<1>8. TextsTyped'
  BY <1>1, <1>4, <1>5, <1>6 DEF OnSynthesisResult, SynthesisInv, TextsTyped
<1>9. AudioOfEarlier'
  BY <1>1, <1>4, <1>5, <1>6, <1>7 DEF OnSynthesisResult, SynthesisInv, TextsTyped, AudioOfEarlier
<1>10. link' \in {"connected", "closed"} /\ (link' = "closed" => asked' = {}) /\ asked' \subseteq said
  BY <1>1 DEF OnSynthesisResult, SynthesisInv, SynthesisTypeOK
<1>11. SynthesisTypeOK'
  BY <1>1, <1>3, <1>5, <1>10 DEF OnSynthesisResult, SynthesisInv, SynthesisTypeOK
<1>12. TextsInOrder' /\ CurrentIsSaid'
  BY <1>1, <1>10 DEF OnSynthesisResult, SynthesisInv, TextsInOrder, CurrentIsSaid
<1> QED
  BY <1>8, <1>9, <1>11, <1>12 DEF SynthesisInv

LEMMA ConnectedKeeps ==
    ASSUME SynthesisInv, OnSynthesisConnected
    PROVE  SynthesisInv'
<1>1. current \in synthesisSessions /\ current \in Text /\ link = "connecting" /\ asked = {}
  BY DEF OnSynthesisConnected, SynthesisInv, TextsInOrder, SynthesisTypeOK
<1>2. SynthesizeText(current)
  BY <1>1 DEF OnSynthesisConnected, TextToSend
<1>3. AudioOfEarlier'
  BY <1>1, <1>2, SpokenStaysOwn
  DEF OnSynthesisConnected, SynthesizeText, SynthesisInv, TextsInOrder
<1>4. TextsTyped' /\ TextsInOrder' /\ CurrentIsSaid'
  BY <1>1, <1>2 DEF OnSynthesisConnected, SynthesizeText, SynthesisInv, TextsTyped, TextsInOrder,
      CurrentIsSaid
<1>5. SynthesisTypeOK'
  BY <1>1, <1>2 DEF OnSynthesisConnected, SynthesizeText, SynthesisInv, TextsTyped,
      SynthesisTypeOK
<1> QED
  BY <1>3, <1>4, <1>5 DEF SynthesisInv

\* Requests that leave what was sent and heard alone, and the end of the socket.
LEMMA QuietSynthesisKeeps ==
    ASSUME SynthesisInv,
           \/ \E t \in Text : EndSynthesis(t)
           \/ TerminateSynthesis \/ CleanupSynthesis \/ OnSynthesisClosed
           \/ UNCHANGED synthesisVars
    PROVE  SynthesisInv'
<1>1. ASSUME NEW t \in Text, EndSynthesis(t) PROVE SynthesisInv'
  BY <1>1 DEF EndSynthesis, SynthesisInv, TextsTyped, SynthesisTypeOK, TextsInOrder,
      CurrentIsSaid, AudioOfEarlier
<1>2. CASE TerminateSynthesis
  BY <1>2 DEF TerminateSynthesis, Forget, SynthesisInv, TextsTyped, SynthesisTypeOK,
      TextsInOrder, CurrentIsSaid, AudioOfEarlier
<1>3. CASE CleanupSynthesis
  BY <1>3 DEF CleanupSynthesis, SynthesisInv, TextsTyped, SynthesisTypeOK, TextsInOrder,
      CurrentIsSaid, AudioOfEarlier
<1>4. CASE OnSynthesisClosed
  BY <1>4 DEF OnSynthesisClosed, SynthesisInv, TextsTyped, SynthesisTypeOK, TextsInOrder,
      CurrentIsSaid, AudioOfEarlier
<1>5. CASE UNCHANGED synthesisVars
  BY <1>5 DEF synthesisVars, SynthesisInv, TextsTyped, SynthesisTypeOK, TextsInOrder,
      CurrentIsSaid, AudioOfEarlier
<1> QED
  BY <1>1, <1>2, <1>3, <1>4, <1>5

\* SynthesisInv is inductive: texts are sent in the order in which they are
\* started, and only the last one.
THEOREM SynthesisInvariant == SynthesisSpec => []SynthesisInv
<1>1. SynthesisInit => SynthesisInv
  BY SynthesisStarts
<1>2. SynthesisInv /\ [SynthesisNext]_synthesisVars => SynthesisInv'
  BY StartSynthesisKeeps, ResultKeeps, ConnectedKeeps, QuietSynthesisKeeps
  DEF SynthesisNext, SynthesisRequest, SynthesisServer
<1> QED
  BY <1>1, <1>2, PTL DEF SynthesisSpec

\* A text completed without an earlier one sent has its own audio and no other,
\* and no text has audio of a later one (xunfeitexttospeech.cpp, onSynthesisResult).
THEOREM TextsAreSpokenAlways == SynthesisSpec => []TextsAreSpoken
<1>1. SynthesisInv => TextsAreSpoken
  BY DEF SynthesisInv, TextsAreSpoken
<1> QED
  BY <1>1, SynthesisInvariant, PTL
=============================================================================
