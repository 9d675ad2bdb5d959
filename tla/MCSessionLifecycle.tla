------------------------- MODULE MCSessionLifecycle -------------------------
(***************************************************************************)
(* Two parts of the daemon that follow what happens outside it, for TLC:   *)
(* the sessions of the clients on the bus, and the property index of the   *)
(* user's files. They share nothing, so each is explored while the other   *)
(* has nothing to do; their states add up instead of multiplying.          *)
(***************************************************************************)
EXTENDS SessionLifecycle, PropertyIndex

ASSUME PropertyAssumption

NoClients == requests = 0 /\ \A c \in Client : connected[c]
NoFiles == now = 1 /\ switches = 0 /\ crashes = 0

\* The sessions are explored once, beside one of the first file systems.
MCInit == Init /\ PropertyInit
MCNext ==
    \/ NoFiles /\ (\A f \in DOMAIN changed : changed[f] = 0) /\ Next /\ UNCHANGED propertyVars
    \/ NoClients /\ PropertyNext /\ UNCHANGED vars
MCSpec ==
    /\ MCInit /\ [][MCNext]_<<vars, propertyVars>>
    /\ WF_vars(BusThread) /\ WF_vars(SessionThread)
    /\ Fairness

\* A session whose client left or that is told to go goes, on both threads.
SessionsGoAway == KnownSessionsCleaned /\ DestroyTakesEffect

\* An update takes the place of what the index had, and completion is reported.
WalksAreDone == CompletionReported /\ UpdateReplaces
=============================================================================
