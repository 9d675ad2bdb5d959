-------------------------- MODULE ThrottleHistory --------------------------
(***************************************************************************)
(* The throttle of one cloud key over the life of the daemon: results are  *)
(* reported one after the other (adjustConcurrencyBasedOnResponse runs     *)
(* under taskMutex) and cooldowns elapse. Which result comes next is up to *)
(* the provider.                                                           *)
(***************************************************************************)
EXTENDS ResponsiveThrottle

VARIABLES
    state,   \* throttlingStates of the key
    last     \* the result reported in the last step, "" when time passed

throttleVars == <<state, last>>

ThrottleInit ==
    /\ state = InitialThrottlingState(TRUE)
    /\ last = ""

Report(outcome) ==
    /\ state' = AdjustConcurrency(state, outcome)
    /\ last' = outcome

Wait ==
    /\ state.cooling
    /\ state' = CooldownOver(state)
    /\ last' = ""

ThrottleNext == (\E outcome \in Outcome : Report(outcome)) \/ Wait

ThrottleSpec == ThrottleInit /\ [][ThrottleNext]_throttleVars

\* Clients keep sending requests and time passes; no particular result is
\* guaranteed.
ThrottleFairSpec == ThrottleSpec /\ WF_throttleVars(Wait) /\ SF_throttleVars(Report("429"))

-----------------------------------------------------------------------------
\* Every variable has its type; in particular a key always admits one task.
ThrottleTypeOK ==
    /\ state \in ThrottlingState
    /\ last \in Outcome \cup {""}

\* A key never recovers: no step raises the concurrency. From the initial 5
\* (any value below 10) ten percent rounds down to nothing, so no number of
\* successes gives back what one 429 took.
NeverRecovers == [][state'.conc <= state.conc]_throttleVars

\* A provider that answers nothing but 429 is soon asked one request at a
\* time: every drop is strict until the minimum, at every decrease rate.
RateLimitReachesMinimum ==
    <>[][last' \in {"429", ""}]_throttleVars => <>[](state.conc = MinConcurrency)
=============================================================================
