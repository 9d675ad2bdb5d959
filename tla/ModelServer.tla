---------------------------- MODULE ModelServer ----------------------------
(***************************************************************************)
(* The server of a local model. A ModelhubWrapper finds the running server *)
(* in deepin-modelhub's list or starts one and waits for it; the daemon's  *)
(* requests share one wrapper per model (ModelhubProvider), the deployer's *)
(* list has its own, with a button that starts and stops the model. The    *)
(* servers are processes of their own: they load, serve, end when idle and *)
(* may die at any time.                                                    *)
(***************************************************************************)
EXTENDS Naturals, FiniteSets

CONSTANTS
    Caller,     \* the daemon's threads that call ensureRunning
    Server,     \* the process ids of servers, 1..n
    Now,        \* seconds since the epoch
    MaxWaits,   \* bound: looks for the server while it loads (300)
    MaxCalls    \* bound: calls of ensureRunning

\* Of the constants; a module that extends this one assumes it.
ServerAssumption ==
    /\ Server = 1..Cardinality(Server) /\ IsFiniteSet(Server)
    /\ Now \in Nat /\ MaxWaits \in Nat \ {0} /\ MaxCalls \in Nat
    /\ "gui" \notin Caller /\ "free" \notin Caller

Wrapper == {"daemon", "deployer"}
AllCallers == Caller \cup {"gui"}
WrapperOf(c) == IF c = "gui" THEN "deployer" ELSE "daemon"

\* ModelhubProvider keeps its servers alive, the deployer does not.
KeepLive(w) == w = "daemon"
Idle == 180
NoServer == 0

VARIABLES
    servers,   \* of every process: "unused", "loading", "serving", "gone"
    host,      \* of every wrapper: the server it believes in, NoServer
    pid,       \* of every wrapper: the server it started last, NoServer
    started,   \* of every wrapper: bool started, as 0 or 1
    lock,      \* of every wrapper: the caller with the write lock, "free"
    phase,     \* of every caller: where its call is
    tries,     \* of every caller: looks so far
    result,    \* of every caller: what its last call returned
    served,    \* of every caller: some server was serving during its call
    givenUp,   \* servers whose starter gave up on them, or took another one
    calls,     \* calls so far
    button     \* the deployer's item: isLaunch, label, enabled, worked, torn

serverVars == <<servers, host, pid, started, lock, phase, tries, result, served, givenUp, calls,
                button>>

Serving == {s \in Server : servers[s] = "serving"}
Fresh == {s \in Server : servers[s] = "unused"}

\* modelStatus: the first entry of the list, in no particular order.
Listed == IF Serving = {} THEN {NoServer} ELSE Serving

\* "started" is a bool: the seconds since the epoch become 1.
TooSoon(w) == Now - started[w] < Idle * 1000

-----------------------------------------------------------------------------
(* ensureRunning.                                                          *)

Return(c, value) ==
    /\ phase' = [phase EXCEPT ![c] = "idle"]
    /\ result' = [result EXCEPT ![c] = value]

Enter(c) ==
    /\ phase[c] = "idle" /\ calls < MaxCalls
    /\ phase' = [phase EXCEPT ![c] = "check"]
    /\ served' = [served EXCEPT ![c] = Serving # {}]
    /\ result' = [result EXCEPT ![c] = FALSE]
    /\ calls' = calls + 1
    /\ UNCHANGED <<servers, host, pid, started, lock, tries, givenUp>>

Call(c) == Enter(c) /\ c \in Caller /\ UNCHANGED button

\* The QWriteLocker of ensureRunning (the mutants take it, or give it back,
\* not at all).
NoLock(w, c) == UNCHANGED lock
TakeWriteLock(w, c) == lock' = [lock EXCEPT ![w] = c]
GiveLock(w) == lock' = [lock EXCEPT ![w] = "free"]

\* health: the read lock waits for a writer, and is released before the
\* request is sent.
Check(c) ==
    LET w == WrapperOf(c)
    IN  /\ phase[c] = "check" /\ lock[w] = "free"
        /\ phase' = [phase EXCEPT ![c] = IF host[w] = NoServer THEN "lock" ELSE "probe"]
        /\ UNCHANGED <<servers, host, pid, started, lock, tries, result, served, givenUp,
                       calls, button>>

\* The request goes to the host the wrapper has by then (urlPath).
Believed(c) == host[WrapperOf(c)] # NoServer     \* mutant
Healthy(c) == LET w == WrapperOf(c) IN lock[w] = "free" /\ host[w] \in Serving
Ill(c) == LET w == WrapperOf(c) IN lock[w] = "free" /\ host[w] \notin Serving

Probe(c) ==
    /\ phase[c] = "probe" /\ Ill(c)
    /\ phase' = [phase EXCEPT ![c] = "lock"]
    /\ UNCHANGED <<servers, host, pid, started, lock, tries, result, served, givenUp, calls,
                   button>>

\* Under the write lock: a server in the list is taken, otherwise one is
\* started, unless the process cannot be created.
FindOrStart(c) ==
    LET w == WrapperOf(c)
    IN  /\ phase[c] = "lock" /\ lock[w] = "free"
        /\ \E found \in Listed :
            /\ host' = [host EXCEPT ![w] = found]
            /\ found = NoServer /\ ~TooSoon(w)
            /\ started' = [started EXCEPT ![w] = 1]
            /\ \E s \in Fresh :
                /\ s = CHOOSE x \in Fresh : \A y \in Fresh : x <= y
                /\ servers' = [servers EXCEPT ![s] = "loading"]
                /\ pid' = [pid EXCEPT ![w] = s]
            /\ TakeWriteLock(w, c)
            /\ phase' = [phase EXCEPT ![c] = "wait"]
            /\ tries' = [tries EXCEPT ![c] = 0]
        /\ UNCHANGED <<result, served, givenUp, calls, button>>

\* What ensureRunning knows when it returns: a probe that answered, a listed
\* server, or a start that failed, came too soon, or was not answered in time.
Succeeds(c) ==
    LET w == WrapperOf(c)
    IN  \/ phase[c] = "probe" /\ Healthy(c) /\ UNCHANGED <<host, lock, givenUp>>
        \/ /\ phase[c] = "lock" /\ lock[w] = "free"
           /\ \E found \in Serving : host' = [host EXCEPT ![w] = found]
           /\ UNCHANGED <<lock, givenUp>>
        \/ /\ phase[c] = "wait"
           /\ tries[c] < MaxWaits /\ servers[pid[w]] # "gone"
           /\ \E found \in Serving :
                /\ host' = [host EXCEPT ![w] = found]
                /\ givenUp' = givenUp \cup ({pid[w]} \ {found})
           /\ GiveLock(w)

Fails(c) ==
    LET w == WrapperOf(c)
    IN  \/ /\ phase[c] = "lock" /\ lock[w] = "free" /\ Serving = {}
           /\ host' = [host EXCEPT ![w] = NoServer]
           /\ \/ TooSoon(w) /\ UNCHANGED <<started, pid>>
              \/ ~TooSoon(w) /\ started' = [started EXCEPT ![w] = 1]
                             /\ pid' = [pid EXCEPT ![w] = NoServer]
           /\ UNCHANGED <<lock, givenUp>>
        \/ /\ phase[c] = "wait"
           /\ tries[c] = MaxWaits \/ servers[pid[w]] = "gone"
           /\ GiveLock(w)
           /\ givenUp' = givenUp \cup {pid[w]}
           /\ UNCHANGED <<host, started, pid>>

\* One look after 200 milliseconds: nothing is listed yet.
Look(c) ==
    LET w == WrapperOf(c)
    IN  /\ phase[c] = "wait" /\ tries[c] < MaxWaits
        /\ servers[pid[w]] # "gone" /\ Serving = {}
        /\ host' = [host EXCEPT ![w] = NoServer]
        /\ tries' = [tries EXCEPT ![c] = @ + 1]
        /\ UNCHANGED <<servers, pid, started, lock, phase, result, served, givenUp, calls, button>>

Running(c) ==
    /\ Succeeds(c) /\ Return(c, TRUE)
    /\ UNCHANGED <<servers, pid, started, tries, served, calls>>

NotRunning(c) ==
    /\ Fails(c) /\ Return(c, FALSE)
    /\ UNCHANGED <<servers, tries, served, calls>>

\* A thread of the daemon goes on with, or gives up, its request.
Answered(c) == c \in Caller /\ (Running(c) \/ NotRunning(c)) /\ UNCHANGED button

-----------------------------------------------------------------------------
(* The deployer's item: one thread, whose events run while a probe waits.  *)

Clickable == phase["gui"] \in {"idle", "probe"}

\* updateLaunchStatus: a disabled button keeps its text.
Shown(b, launched) ==
    [b EXCEPT !.isLaunch = launched,
              !.label = IF ~b.enabled THEN b.label ELSE IF launched THEN "Stop" ELSE "Launch"]

\* onLaunchModel, to start: the call of ensureRunning begins.
Launch ==
    /\ phase["gui"] = "idle" /\ button.enabled /\ ~button.isLaunch
    /\ Enter("gui")
    /\ button' = [button EXCEPT !.isLaunch = TRUE, !.label = "Launching"]

Launched ==
    \/ Running("gui") /\ button' = Shown(button, TRUE)
    \/ NotRunning("gui") /\ button' = Shown(button, FALSE)

\* stopModel takes an error message for success: a stop that worked leaves
\* the button as it was.
StopCommand(b, worked) ==
    IF worked THEN [b EXCEPT !.isLaunch = FALSE, !.worked = TRUE]
    ELSE [Shown([b EXCEPT !.isLaunch = FALSE], FALSE) EXCEPT !.worked = FALSE]

Stopped(worked) ==
    servers' = IF worked THEN [s \in Server |-> IF s \in Serving THEN "gone" ELSE servers[s]]
               ELSE servers

\* onLaunchModel, to stop.
Stop ==
    /\ Clickable /\ button.enabled /\ button.isLaunch
    /\ \E worked \in BOOLEAN :
        button' = StopCommand(button, worked) /\ Stopped(worked)
    /\ UNCHANGED <<host, pid, started, lock, phase, tries, result, served, givenUp, calls>>

\* onUninstall stops the model first, and disables the button.
Uninstall ==
    /\ Clickable /\ button.enabled
    /\ \E worked \in BOOLEAN :
        /\ IF button.isLaunch THEN Stopped(worked) ELSE UNCHANGED servers
        /\ LET b == IF button.isLaunch THEN StopCommand(button, worked) ELSE button
           IN  button' = [b EXCEPT !.enabled = FALSE, !.label = "Launch",
                                   !.torn = @ \/ phase["gui"] # "idle"]
    /\ UNCHANGED <<host, pid, started, lock, phase, tries, result, served, givenUp, calls>>

Install ==
    /\ Clickable /\ ~button.enabled
    /\ button' = [button EXCEPT !.enabled = TRUE]
    /\ UNCHANGED <<servers, host, pid, started, lock, phase, tries, result, served, givenUp, calls>>

EndsOwn(w, s) == ~KeepLive(w) /\ s = pid[w] /\ pid[w] # NoServer

\* The wrapper's destructor ends its own server, if that is the listed one;
\* the deployer then starts anew.
Destroy ==
    LET w == "deployer"
    IN  /\ phase["gui"] = "idle"
        /\ \E found \in Listed :
            servers' = IF EndsOwn(w, found)
                       THEN [servers EXCEPT ![found] = "gone"] ELSE servers
        /\ host' = [host EXCEPT ![w] = NoServer]
        /\ pid' = [pid EXCEPT ![w] = NoServer]
        /\ started' = [started EXCEPT ![w] = 0]
        /\ button' = [isLaunch |-> FALSE, label |-> "Launch", enabled |-> TRUE,
                      worked |-> FALSE, torn |-> FALSE]
        /\ UNCHANGED <<lock, phase, tries, result, served, givenUp, calls>>

-----------------------------------------------------------------------------
(* The servers.                                                            *)

Serve(s) ==
    /\ servers[s] = "loading"
    /\ servers' = [servers EXCEPT ![s] = "serving"]
    /\ served' = [c \in AllCallers |-> served[c] \/ phase[c] # "idle"]
    /\ UNCHANGED <<host, pid, started, lock, phase, tries, result, givenUp, calls, button>>

End(s) ==
    /\ servers[s] \in {"loading", "serving"}
    /\ servers' = [servers EXCEPT ![s] = "gone"]
    /\ UNCHANGED <<host, pid, started, lock, phase, tries, result, served, givenUp, calls, button>>

ServerInit ==
    /\ servers \in {[s \in Server |-> IF s = 1 THEN first ELSE "unused"] :
                        first \in {"unused", "serving"}}
    /\ host = [w \in Wrapper |-> NoServer]
    /\ pid = [w \in Wrapper |-> NoServer]
    /\ started = [w \in Wrapper |-> 0]
    /\ lock = [w \in Wrapper |-> "free"]
    /\ phase = [c \in AllCallers |-> "idle"]
    /\ tries = [c \in AllCallers |-> 0]
    /\ result = [c \in AllCallers |-> FALSE]
    /\ served = [c \in AllCallers |-> FALSE]
    /\ givenUp = {}
    /\ calls = 0
    /\ button = [isLaunch |-> servers[1] = "serving",
                 label |-> IF servers[1] = "serving" THEN "Stop" ELSE "Launch",
                 enabled |-> TRUE, worked |-> FALSE, torn |-> FALSE]

ServerNext ==
    \/ \E c \in AllCallers :
        Call(c) \/ Check(c) \/ Probe(c) \/ FindOrStart(c) \/ Look(c) \/ Answered(c)
    \/ Launch \/ Launched \/ Stop \/ Uninstall \/ Install \/ Destroy
    \/ \E s \in Server : Serve(s) \/ End(s)

\* A thread goes on with its call; the lock is not handed to a thread that
\* calls again before one that waits. Servers owe nothing.
GoOn(c) ==
    \/ Check(c) \/ Probe(c) \/ FindOrStart(c) \/ Look(c) \/ Answered(c)
    \/ c = "gui" /\ Launched
ServerFairness == \A c \in AllCallers : WF_serverVars(GoOn(c))

ServerSpec == ServerInit /\ [][ServerNext]_serverVars /\ ServerFairness

-----------------------------------------------------------------------------
\* Every variable has its type, and the write lock is held by a caller that
\* waits for a server.
ServerTypeOK ==
    /\ servers \in [Server -> {"unused", "loading", "serving", "gone"}]
    /\ host \in [Wrapper -> Server \cup {NoServer}] /\ pid \in [Wrapper -> Server \cup {NoServer}]
    /\ started \in [Wrapper -> 0..1]
    /\ lock \in [Wrapper -> AllCallers \cup {"free"}]
    /\ phase \in [AllCallers -> {"idle", "check", "probe", "lock", "wait"}]
    /\ tries \in [AllCallers -> 0..MaxWaits]
    /\ result \in [AllCallers -> BOOLEAN] /\ served \in [AllCallers -> BOOLEAN]
    /\ givenUp \subseteq Server /\ calls \in 0..MaxCalls
    /\ button.label \in {"Launch", "Launching", "Stop"}
    /\ \A c \in AllCallers : phase[c] = "wait" <=> lock[WrapperOf(c)] = c

\* A wrapper starts a second server while its first one lives only after the
\* caller that started the first gave up on it, or took a server of the other
\* wrapper for its own: threads that find no server start one, not one each
\* (modelhubwrapper.cpp:56).
OneStartAtATime ==
    [][\A w \in Wrapper :
        pid'[w] \in Server /\ pid'[w] # pid[w] /\ pid[w] # NoServer
        /\ servers[pid[w]] \in {"loading", "serving"} => pid[w] \in givenUp]_serverVars

\* ensureRunning returns true only when a server was serving while it ran,
\* though not necessarily when it returns (modelhubwrapper.cpp:50).
TrueMeansServed == \A c \in AllCallers : phase[c] = "idle" /\ result[c] => served[c]

\* A destructor ends no server but one its own wrapper started
\* (modelhubwrapper.cpp:34).
OthersAreSpared ==
    [][Destroy => \A s \in Server : servers'[s] # servers[s] => s = pid["deployer"]]_serverVars

\* The button of a launched model offers to stop it; a button that offers to
\* stop a model that is not launched is what a stop that worked leaves behind
\* (deployer modelhubwrapper.cpp:291). An uninstall while the launch's probe
\* waits breaks the first (localmodelitem.cpp:173).
ButtonTellsState ==
    button.enabled /\ phase["gui"] = "idle" =>
        /\ button.isLaunch => button.label = "Stop" \/ button.torn
        /\ button.label = "Stop" /\ ~button.isLaunch => button.worked

\* Every call returns, whatever the servers do: a waiting call waits for one
\* minute at most and those behind it for the lock.
CallsReturn == \A c \in AllCallers : phase[c] # "idle" ~> phase[c] = "idle"

\* A wrapper starts no server beside its own, and ends no other's.
ServersAreOwn == OneStartAtATime /\ OthersAreSpared

\* What callers and the user are told of a server was so: ensureRunning's answer
\* and the deployer's button.
CallersAreTold == ServerTypeOK /\ TrueMeansServed /\ ButtonTellsState
=============================================================================
