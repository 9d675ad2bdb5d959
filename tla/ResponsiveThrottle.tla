------------------------- MODULE ResponsiveThrottle -------------------------
(***************************************************************************)
(* The responsive throttling of TaskManager: the state kept per cloud      *)
(* service type (struct ResponsiveThrottlingState) and what one reported   *)
(* result does to it ("increase on success, decrease on failure").         *)
(*                                                                         *)
(* The state is a record:                                                  *)
(*   enabled  set by enableResponsiveThrottling                            *)
(*   conc     currentConcurrency                                           *)
(*   succ     consecutiveSuccesses, saturated at SuccessThreshold (the     *)
(*            code only compares it with the threshold)                    *)
(*   fail     consecutiveFailures, saturated at 3 (compared with 3)        *)
(*   rate     decreaseRate in tenths: 0.8 is 8                             *)
(*   cooling  lastAdjustment is valid and less than cooldownMs ago         *)
(* static_cast<int>(conc * 1.1) is (conc * 11) \div 10 and                 *)
(* static_cast<int>(conc * decreaseRate) is (conc * rate) \div 10: the     *)
(* double products round to these for every concurrency up to 100 and     *)
(* every decrease rate the code reaches (0.8, 0.7, 0.6, 0.5).              *)
(***************************************************************************)
EXTENDS Integers

CONSTANTS
    InitialConcurrency,   \* 5 in the code
    MinConcurrency,       \* 1
    MaxConcurrency,       \* 100
    SuccessThreshold      \* 10

ASSUME ThrottleAssumption ==
    /\ MinConcurrency \in Nat \ {0}
    /\ MaxConcurrency \in Nat
    /\ InitialConcurrency \in MinConcurrency..MaxConcurrency
    /\ SuccessThreshold \in Nat \ {0}

FailureThreshold == 3

ThrottlingState ==
    [enabled : BOOLEAN,
     conc    : MinConcurrency..MaxConcurrency,
     succ    : 0..SuccessThreshold,
     fail    : 0..FailureThreshold,
     rate    : 5..8,
     cooling : BOOLEAN]

InitialThrottlingState(on) ==
    [enabled |-> on, conc |-> InitialConcurrency, succ |-> 0, fail |-> 0,
     rate |-> 8, cooling |-> FALSE]

AtMost(limit, n) == IF n > limit THEN limit ELSE n
AtLeast(limit, n) == IF n < limit THEN limit ELSE n

RaisedUp(s) == AtMost(MaxConcurrency, (s.conc * 11 + 9) \div 10)  \* mutant
Raised(s) == AtMost(MaxConcurrency, (s.conc * 11) \div 10)
Lowered(s) == AtLeast(MinConcurrency, (s.conc * s.rate) \div 10)

\* A success: the failure streak ends, and a streak of SuccessThreshold
\* successes raises the concurrency when the rounded product is larger.
OnSuccess(s) ==
    LET t == [s EXCEPT !.fail = 0, !.succ = AtMost(SuccessThreshold, @ + 1)]
    IN  IF t.succ = SuccessThreshold /\ Raised(s) > s.conc
        THEN [t EXCEPT !.conc = Raised(s), !.succ = 0, !.cooling = TRUE]
        ELSE t

\* HTTP 429: the success streak ends and the concurrency drops, faster once
\* three such failures came in a row.
OnRateLimited(s) ==
    LET t == [s EXCEPT !.succ = 0, !.fail = AtMost(FailureThreshold, @ + 1)]
    IN  IF Lowered(s) < s.conc
        THEN [t EXCEPT !.conc = Lowered(s), !.cooling = TRUE,
                       !.rate = IF t.fail = FailureThreshold
                                THEN AtLeast(5, @ - 1) ELSE @]
        ELSE t

\* Any other error only ends the failure streak.
OnOtherError(s) == [s EXCEPT !.fail = 0]

Outcome == {"ok", "429", "error"}

\* adjustConcurrencyBasedOnResponse for a cloud key: nothing while disabled or
\* within the cooldown of the previous adjustment.
AdjustConcurrency(s, outcome) ==
    IF ~s.enabled \/ s.cooling THEN s
    ELSE CASE outcome = "ok"    -> OnSuccess(s)
           [] outcome = "429"   -> OnRateLimited(s)
           [] outcome = "error" -> OnOtherError(s)

\* cooldownMs after the last adjustment.
CooldownOver(s) == [s EXCEPT !.cooling = FALSE]
=============================================================================
