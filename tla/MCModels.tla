------------------------------ MODULE MCModels ------------------------------
(***************************************************************************)
(* What lies between a task and a model, for TLC: the throttle of a key,   *)
(* the server of a local model, and the requests themselves. They share no *)
(* data, so each is explored while the others have nothing to do; their    *)
(* states add up instead of multiplying.                                   *)
(***************************************************************************)
EXTENDS ThrottleHistory, ModelRequests, ModelServer

ASSUME RequestsAssumption /\ ServerAssumption

modelVars == <<throttleVars, serverVars, requestVars>>

NoResult == state = InitialThrottlingState(TRUE) /\ last = ""
NoCalls ==
    /\ calls = 0 /\ \A s \in Server : servers[s] = "unused"
    /\ button.enabled /\ ~button.isLaunch /\ ~button.worked
NoRequests == \A r \in Request : at[r] = "idle"

OthersIdle == NoCalls /\ NoRequests

\* The requests are explored once, beside the start without a server. Two of
\* them meet only at Ernie's token.
RequestsMeet ==
    \A r, q \in Request :
        r # q /\ "none" \notin {asked'[r].provider, asked'[q].provider} =>
            /\ {asked'[r].provider, asked'[q].provider} = {"ernie"}
            /\ {asked'[r].call, asked'[q].call} = {"function"}

MCInit == ThrottleInit /\ ServerInit /\ RequestsInit

MCNext ==
    \/ OthersIdle /\ ThrottleNext /\ UNCHANGED <<serverVars, requestVars>>
    \/ NoResult /\ NoRequests /\ ServerNext /\ UNCHANGED <<throttleVars, requestVars>>
    \/ /\ NoResult /\ NoCalls
       /\ RequestsNext /\ RequestsMeet /\ UNCHANGED <<throttleVars, serverVars>>

MCSpec ==
    /\ MCInit /\ [][MCNext]_modelVars
    /\ WF_throttleVars(OthersIdle /\ Wait) /\ SF_throttleVars(OthersIdle /\ Report("429"))
    /\ ServerFairness /\ RequestsFairness

\* While the key's results are what happens, RateLimitReachesMinimum holds: no
\* other results come and the concurrency falls to its minimum.
LimitedKeyReachesMinimum == []OthersIdle => RateLimitReachesMinimum

\* Every wait ends: a request's, a caller's of the server, and a limited key's
\* way to its minimum.
WaitsEnd == RequestsEnd /\ CallsReturn /\ LimitedKeyReachesMinimum
=============================================================================
