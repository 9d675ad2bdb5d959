-------------------------- MODULE SessionLifecycle --------------------------
(***************************************************************************)
(* SessionManagerDBus (thread dbusWorker) and SessionManager (thread       *)
(* sessionWorker): sessions created and destroyed at the request of D-Bus  *)
(* clients, and the clean-up after a client that left the bus.             *)
(*                                                                         *)
(* Each thread takes its events in the order they were posted: inbox holds *)
(* what dbusWorker has to do (calls and NameOwnerChanged from the bus,     *)
(* sessionDestroyed signals from the other thread), work what              *)
(* SessionManager was asked to do. The lambda posted by CreateSession runs *)
(* on sessionWorker in two steps, createSession and then the insertion     *)
(* into dbusClientSessions under clientMutex: dbusWorker may run between.  *)
(***************************************************************************)
EXTENDS Naturals, Sequences, FiniteSets, SequencesExt

CONSTANTS
    Client,        \* unique bus names; a name is never given out twice
    MaxSessions,   \* bound: sessions created (ids are fresh UUIDs)
    MaxRequests,   \* bound: CreateSession and DestroySession calls made
    Nothing        \* no session is between createSession and its tracking

ASSUME LifecycleAssumption ==
    /\ MaxSessions \in Nat /\ MaxRequests \in Nat
    /\ Nothing \notin Client \X (1..MaxSessions)

VARIABLES
    connected,   \* the client is on the bus
    requests,    \* calls made so far
    inbox,       \* events of dbusWorker
    work,        \* events of sessionWorker
    made,        \* sessions created so far; ids are 1..made
    sessions,    \* SessionManager: sessions/activeSessions/clientSessions
    creating,    \* created but not yet in dbusClientSessions
    tracking,    \* SessionManagerDBus::dbusClientSessions
    known        \* session ids the client got in a reply

vars == <<connected, requests, inbox, work, made, sessions, creating, tracking, known>>

Id == 1..MaxSessions
Entry == Client \X Id
Message == [kind : {"create", "gone"}, client : Client]
             \cup [kind : {"destroy", "destroyed"}, id : Id]

Create(c) == [kind |-> "create", client |-> c]
Gone(c) == [kind |-> "gone", client |-> c]
Destroy(i) == [kind |-> "destroy", id |-> i]
Destroyed(i) == [kind |-> "destroyed", id |-> i]

Init ==
    /\ connected = [c \in Client |-> TRUE]
    /\ requests = 0
    /\ inbox = <<>>
    /\ work = <<>>
    /\ made = 0
    /\ sessions = {}
    /\ creating = Nothing
    /\ tracking = {}
    /\ known = [c \in Client |-> {}]

-----------------------------------------------------------------------------
(* The clients                                                             *)

Call(c, m) ==
    /\ connected[c]
    /\ requests < MaxRequests
    /\ requests' = requests + 1
    /\ inbox' = Append(inbox, m)
    /\ UNCHANGED <<connected, work, made, sessions, creating, tracking, known>>

CallCreate(c) == Call(c, Create(c))
CallDestroy(c) == \E i \in known[c] : Call(c, Destroy(i))

\* The client exits or crashes: the bus announces it after its last call.
Leave(c) ==
    /\ connected[c]
    /\ connected' = [connected EXCEPT ![c] = FALSE]
    /\ inbox' = Append(inbox, Gone(c))
    /\ UNCHANGED <<requests, work, made, sessions, creating, tracking, known>>

-----------------------------------------------------------------------------
(* dbusWorker                                                              *)

Take(kind) == inbox # <<>> /\ Head(inbox).kind = kind /\ inbox' = Tail(inbox)

ForwardUnlessTracked ==                                          \* mutant
    /\ Take("create") \/ Take("destroy")
    /\ work' = IF Head(inbox).kind = "destroy" /\ \E e \in tracking : e[2] = Head(inbox).id
               THEN work ELSE Append(work, Head(inbox))
    /\ UNCHANGED <<connected, requests, made, sessions, creating, tracking, known>>

\* CreateSession and DestroySession only pass the call on.
Forward ==
    /\ Take("create") \/ Take("destroy")
    /\ work' = Append(work, Head(inbox))
    /\ UNCHANGED <<connected, requests, made, sessions, creating, tracking, known>>

\* The destructions posted for the sessions of a client that left.
DestroyAll(ids) == SetToSeq({Destroy(i) : i \in ids})

\* onDBusOwnerChanged, cleanupClientSessions: the client's entries are taken
\* out, and a destruction is posted for each.
OwnerChanged ==
    LET c == Head(inbox).client
        ids == {i \in Id : <<c, i>> \in tracking}
    IN  /\ Take("gone")
        /\ tracking' = {e \in tracking : e[1] # c}
        /\ work' = work \o DestroyAll(ids)
        /\ UNCHANGED <<connected, requests, made, sessions, creating, known>>

\* onSessionDestroyed
SessionDestroyed ==
    /\ Take("destroyed")
    /\ tracking' = {e \in tracking : e[2] # Head(inbox).id}
    /\ UNCHANGED <<connected, requests, work, made, sessions, creating, known>>

-----------------------------------------------------------------------------
(* sessionWorker                                                           *)

\* sessionWorker takes its next event; the lambda of CreateSession runs to its
\* end first.
ReadyInBetween(kind) == work # <<>> /\ Head(work).kind = kind     \* mutant
Ready(kind) == creating = Nothing /\ work # <<>> /\ Head(work).kind = kind

\* generateSessionId: a fresh UUID.
FreshId == made + 1

\* createSession: an instance is made, initialised, registered on the bus and
\* stored.
CreateSession ==
    /\ Ready("create")
    /\ made < MaxSessions
    /\ work' = Tail(work)
    /\ made' = made + 1
    /\ sessions' = sessions \cup {<<Head(work).client, FreshId>>}
    /\ creating' = <<Head(work).client, FreshId>>
    /\ UNCHANGED <<connected, requests, inbox, tracking, known>>

\* createSession fails (unsupported type, initialize or registerObject says
\* no) and the client gets an error reply; nothing is kept.
CreateFails ==
    /\ Ready("create")
    /\ work' = Tail(work)
    /\ UNCHANGED <<connected, requests, inbox, made, sessions, creating, tracking, known>>

\* The rest of the lambda: the session is tracked and its id sent.
TrackSession ==
    /\ creating # Nothing
    /\ tracking' = tracking \cup {creating}
    /\ known' = [known EXCEPT ![creating[1]] = IF connected[creating[1]]
                                                THEN @ \cup {creating[2]} ELSE @]
    /\ creating' = Nothing
    /\ UNCHANGED <<connected, requests, inbox, work, made, sessions>>

\* destroySession: unregistered, cleaned up, forgotten, announced; an unknown
\* id only gets an error reply.
DestroySession ==
    LET gone == {e \in sessions : e[2] = Head(work).id}
    IN  /\ Ready("destroy")
        /\ work' = Tail(work)
        /\ sessions' = sessions \ gone
        /\ inbox' = IF gone # {} THEN Append(inbox, Destroyed(Head(work).id)) ELSE inbox
        /\ UNCHANGED <<connected, requests, made, creating, tracking, known>>

-----------------------------------------------------------------------------
Clients == \E c \in Client : CallCreate(c) \/ CallDestroy(c) \/ Leave(c)
BusThread == Forward \/ OwnerChanged \/ SessionDestroyed
SessionThread == CreateSession \/ CreateFails \/ TrackSession \/ DestroySession

Next == Clients \/ BusThread \/ SessionThread

Spec == Init /\ [][Next]_vars

\* Both event loops keep running; clients do as they like.
FairSpec == Spec /\ WF_vars(BusThread) /\ WF_vars(SessionThread)

-----------------------------------------------------------------------------
(* Properties                                                              *)

\* Every variable has its type, and an id names one session.
TypeOK ==
    /\ connected \in [Client -> BOOLEAN]
    /\ requests \in 0..MaxRequests
    /\ inbox \in Seq(Message)
    /\ work \in Seq(Message)
    /\ made \in 0..MaxSessions
    /\ sessions \subseteq Entry
    /\ creating \in Entry \cup {Nothing}
    /\ tracking \subseteq Entry
    /\ known \in [Client -> SUBSET Id]
    /\ \A e, f \in sessions \cup tracking : e[2] = f[2] => e = f

Posted(q, m) == \E i \in 1..Len(q) : q[i] = m

\* The two threads' books agree: a session SessionManager holds is tracked for
\* its client, or about to be, or its destruction is on the way.
HeldSessionsTracked ==
    \A e \in sessions :
       e \in tracking \/ e = creating \/ Posted(work, Destroy(e[2]))

\* And nothing is tracked that no longer exists, but for the notice under way.
TrackedSessionsHeld ==
    \A e \in tracking : e \in sessions \/ Posted(inbox, Destroyed(e[2]))

\* A session whose id reached its client is destroyed after the client left,
\* whatever calls and notices were still queued then.
KnownSessionsCleaned ==
    \A c \in Client, i \in Id :
       ~connected[c] /\ i \in known[c] ~> <<c, i>> \notin sessions

\* A DestroySession call a client makes for its own session takes effect.
DestroyTakesEffect ==
    \A i \in Id : Posted(inbox, Destroy(i)) ~> \A e \in sessions : e[2] # i

\* The two threads' books: ids are unique, and what one holds the other knows,
\* but for the messages that are still to arrive.
BooksAgree == TypeOK /\ HeldSessionsTracked /\ TrackedSessionsHeld
=============================================================================
