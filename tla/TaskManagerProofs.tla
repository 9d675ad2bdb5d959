------------------------- MODULE TaskManagerProofs -------------------------
(***************************************************************************)
(* The safety theorems of TaskManager, for any number of tasks, types,     *)
(* pools, threads, models and limits, and those of one key's throttle.     *)
(***************************************************************************)
EXTENDS TaskManagerInv, ThrottleHistory, FiniteSetTheorems, WellFoundedInduction, TLAPS

-----------------------------------------------------------------------------
(* What the operators of ResponsiveThrottle preserve and bound             *)

\* Each field of a throttling state may be set to any value of its range.
LEMMA FieldUpdates ==
    ASSUME NEW s \in ThrottlingState
    PROVE  /\ \A c \in MinConcurrency..MaxConcurrency : [s EXCEPT !.conc = c] \in ThrottlingState
           /\ \A n \in 0..SuccessThreshold : [s EXCEPT !.succ = n] \in ThrottlingState
           /\ \A n \in 0..3 : [s EXCEPT !.fail = n] \in ThrottlingState
           /\ \A r \in 5..8 : [s EXCEPT !.rate = r] \in ThrottlingState
           /\ [s EXCEPT !.succ = 0] \in ThrottlingState
           /\ [s EXCEPT !.fail = 0] \in ThrottlingState
           /\ [s EXCEPT !.cooling = TRUE] \in ThrottlingState
<1> USE DEF ThrottlingState, FailureThreshold
<1>1. \A c \in MinConcurrency..MaxConcurrency : [s EXCEPT !.conc = c] \in ThrottlingState
  OBVIOUS
<1>2. \A n \in 0..SuccessThreshold : [s EXCEPT !.succ = n] \in ThrottlingState
  OBVIOUS
<1>3. \A n \in 0..3 : [s EXCEPT !.fail = n] \in ThrottlingState
  OBVIOUS
<1>4. \A r \in 5..8 : [s EXCEPT !.rate = r] \in ThrottlingState
  OBVIOUS
<1>5. 0 \in 0..SuccessThreshold /\ 0 \in 0..3
  BY ThrottleAssumption DEF ThrottleAssumption
<1>6. [s EXCEPT !.cooling = TRUE] \in ThrottlingState
  OBVIOUS
<1> HIDE DEF ThrottlingState
<1> QED
  BY <1>1, <1>2, <1>3, <1>4, <1>5, <1>6

\* The state a key starts with is well formed.
LEMMA InitialTyped == \A on \in BOOLEAN : InitialThrottlingState(on) \in ThrottlingState
BY ThrottleAssumption
   DEF ThrottleAssumption, InitialThrottlingState, ThrottlingState, FailureThreshold

LEMMA FieldTypes ==
    ASSUME NEW s \in ThrottlingState
    PROVE  /\ s.conc \in MinConcurrency..MaxConcurrency
           /\ s.succ \in 0..SuccessThreshold
           /\ s.fail \in 0..3
           /\ s.rate \in 5..8
BY DEF ThrottlingState, FailureThreshold

\* A success leaves a well-formed throttling state.
LEMMA SuccessTyped ==
    ASSUME NEW s \in ThrottlingState
    PROVE  OnSuccess(s) \in ThrottlingState
<1> USE ThrottleAssumption, FieldUpdates, FieldTypes DEF ThrottleAssumption
<1> DEFINE t == [s EXCEPT !.fail = 0, !.succ = AtMost(SuccessThreshold, @ + 1)]
<1>1. t \in ThrottlingState /\ t.conc = s.conc
  <2> DEFINE n == AtMost(SuccessThreshold, s.succ + 1)
  <2>1. n \in 0..SuccessThreshold
    BY DEF AtMost
  <2>2. [s EXCEPT !.fail = 0] \in ThrottlingState
    OBVIOUS
  <2>3. t = [[s EXCEPT !.fail = 0] EXCEPT !.succ = n]
    BY Zenon
  <2> HIDE DEF n
  <2>4. t \in ThrottlingState
    BY <2>1, <2>2, <2>3
  <2> QED
    BY <2>4
<1> HIDE DEF t
<1>2. ASSUME Raised(s) > s.conc
      PROVE  [t EXCEPT !.conc = Raised(s), !.succ = 0, !.cooling = TRUE] \in ThrottlingState
  <2>1. Raised(s) \in MinConcurrency..MaxConcurrency
    <3>1. (s.conc * 11) \div 10 \in Int
      OBVIOUS
    <3> QED
      BY <1>2, <3>1 DEF Raised, AtMost
  <2>2. [t EXCEPT !.conc = Raised(s)] \in ThrottlingState
    BY <1>1, <2>1
  <2>3. [[t EXCEPT !.conc = Raised(s)] EXCEPT !.succ = 0] \in ThrottlingState
    BY <2>2
  <2>4. [[[t EXCEPT !.conc = Raised(s)] EXCEPT !.succ = 0] EXCEPT !.cooling = TRUE]
          \in ThrottlingState
    BY <2>3
  <2> QED
    BY <2>4, Zenon
<1> QED
  BY <1>1, <1>2 DEF OnSuccess, t

\* An HTTP 429 leaves a well-formed throttling state: never fewer than
\* MinConcurrency tasks, never a decrease rate below 0.5.
LEMMA RateLimitedTyped ==
    ASSUME NEW s \in ThrottlingState
    PROVE  OnRateLimited(s) \in ThrottlingState
<1> USE ThrottleAssumption, FieldUpdates, FieldTypes DEF ThrottleAssumption
<1> DEFINE t == [s EXCEPT !.succ = 0, !.fail = AtMost(FailureThreshold, @ + 1)]
<1> DEFINE r == IF t.fail = FailureThreshold THEN AtLeast(5, t.rate - 1) ELSE t.rate
<1>1. t \in ThrottlingState
  <2> DEFINE n == AtMost(FailureThreshold, s.fail + 1)
  <2>1. n \in 0..3
    BY DEF AtMost, FailureThreshold
  <2>2. [s EXCEPT !.succ = 0] \in ThrottlingState
    OBVIOUS
  <2>3. t = [[s EXCEPT !.succ = 0] EXCEPT !.fail = n]
    BY Zenon
  <2> HIDE DEF n
  <2> QED
    BY <2>1, <2>2, <2>3
<1> HIDE DEF t
<1>2. r \in 5..8
  BY <1>1 DEF AtLeast
<1> HIDE DEF r
<1>3. ASSUME Lowered(s) < s.conc
      PROVE  [t EXCEPT !.conc = Lowered(s), !.cooling = TRUE, !.rate = r] \in ThrottlingState
  <2>1. Lowered(s) \in MinConcurrency..MaxConcurrency
    <3>1. (s.conc * s.rate) \div 10 \in Int
      OBVIOUS
    <3> QED
      BY <1>3, <3>1 DEF Lowered, AtLeast
  <2>2. [t EXCEPT !.conc = Lowered(s)] \in ThrottlingState
    BY <1>1, <2>1
  <2>3. [[t EXCEPT !.conc = Lowered(s)] EXCEPT !.cooling = TRUE] \in ThrottlingState
    BY <2>2
  <2>4. [[[t EXCEPT !.conc = Lowered(s)] EXCEPT !.cooling = TRUE] EXCEPT !.rate = r]
          \in ThrottlingState
    BY <1>2, <2>3
  <2> QED
    BY <2>4
<1> QED
  BY <1>1, <1>3 DEF OnRateLimited, t, r

\* A reported result leaves a well-formed throttling state: the concurrency
\* stays between its minimum and maximum and the decrease rate between 0.5
\* and 0.8 (adjustConcurrencyBasedOnResponse).
LEMMA AdjustTyped ==
    ASSUME NEW s \in ThrottlingState, NEW how \in Outcome
    PROVE  AdjustConcurrency(s, how) \in ThrottlingState
<1>1. OnOtherError(s) \in ThrottlingState
  BY FieldUpdates DEF OnOtherError
<1> QED
  BY <1>1, SuccessTyped, RateLimitedTyped DEF AdjustConcurrency, Outcome

\* The end of a cooldown changes nothing else.
LEMMA CooldownTyped ==
    ASSUME NEW s \in ThrottlingState
    PROVE  CooldownOver(s) \in ThrottlingState /\ CooldownOver(s).conc = s.conc
BY DEF CooldownOver, ThrottlingState

\* Ten percent of a concurrency below ten rounds down to nothing.
LEMMA SmallNeverRaised ==
    ASSUME NEW s \in ThrottlingState, s.conc < 10
    PROVE  Raised(s) <= s.conc
<1> USE ThrottleAssumption DEF ThrottleAssumption
<1>1. s.conc \in 1..9
  BY DEF ThrottlingState
<1>2. (s.conc * 11) \div 10 <= s.conc
  BY <1>1
<1> QED
  BY <1>1, <1>2 DEF Raised, AtMost

\* So below ten no reported result raises the concurrency.
LEMMA SmallOnlyDrops ==
    ASSUME NEW s \in ThrottlingState, NEW how \in Outcome, s.conc < 10
    PROVE  AdjustConcurrency(s, how).conc <= s.conc
<1>1. OnSuccess(s).conc <= s.conc
  BY SmallNeverRaised DEF OnSuccess, ThrottlingState
<1>2. OnRateLimited(s).conc <= s.conc
  BY ThrottleAssumption
     DEF ThrottleAssumption, OnRateLimited, ThrottlingState, Lowered, AtLeast
<1>3. OnOtherError(s).conc <= s.conc
  BY ThrottleAssumption DEF ThrottleAssumption, OnOtherError, ThrottlingState
<1> QED
  BY <1>1, <1>2, <1>3, ThrottleAssumption
     DEF ThrottleAssumption, AdjustConcurrency, Outcome, ThrottlingState

-----------------------------------------------------------------------------
(* The posted updates                                                      *)

LEMMA AppendOther ==
    ASSUME NEW S, NEW ev \in Seq(S), NEW e \in S, ~IsUpdate(e)
    PROVE  /\ Updated(Append(ev, e)) = Updated(ev)
           /\ UpdatesOnce(ev) => UpdatesOnce(Append(ev, e))
<1> DEFINE r == Append(ev, e)
<1>1. r \in Seq(S) /\ Len(r) = Len(ev) + 1
  OBVIOUS
<1>2. \A i \in 1..Len(ev) : r[i] = ev[i]
  OBVIOUS
<1>3. r[Len(ev) + 1] = e
  OBVIOUS
<1>4. 1..Len(r) = (1..Len(ev)) \cup {Len(ev) + 1}
  BY <1>1
<1> HIDE DEF r
<1>5. Updated(r) = Updated(ev)
  BY <1>2, <1>3, <1>4 DEF Updated
<1>6. ASSUME UpdatesOnce(ev)
      PROVE  UpdatesOnce(r)
  BY <1>2, <1>3, <1>4, <1>6 DEF UpdatesOnce
<1> QED
  BY <1>5, <1>6 DEF r

LEMMA AppendUpdate ==
    ASSUME NEW S, NEW ev \in Seq(S), NEW e \in S, IsUpdate(e), e.task \notin Updated(ev)
    PROVE  /\ Updated(Append(ev, e)) = Updated(ev) \cup {e.task}
           /\ UpdatesOnce(ev) => UpdatesOnce(Append(ev, e))
<1> DEFINE r == Append(ev, e)
<1>1. r \in Seq(S) /\ Len(r) = Len(ev) + 1
  OBVIOUS
<1>2. \A i \in 1..Len(ev) : r[i] = ev[i]
  OBVIOUS
<1>3. r[Len(ev) + 1] = e
  OBVIOUS
<1>4. 1..Len(r) = (1..Len(ev)) \cup {Len(ev) + 1}
  BY <1>1
<1> HIDE DEF r
<1>5. Updated(r) = Updated(ev) \cup {e.task}
  BY <1>2, <1>3, <1>4 DEF Updated
<1>6. ASSUME UpdatesOnce(ev)
      PROVE  UpdatesOnce(r)
  BY <1>2, <1>3, <1>4, <1>6 DEF UpdatesOnce, Updated
<1> QED
  BY <1>5, <1>6 DEF r

\* Handling the head of the event queue takes its task, if it is an update,
\* out of the posted ones.
LEMMA HandleHead ==
    ASSUME NEW S, NEW ev \in Seq(S), ev # <<>>, UpdatesOnce(ev)
    PROVE  /\ UpdatesOnce(Tail(ev))
           /\ ~IsUpdate(Head(ev)) => Updated(Tail(ev)) = Updated(ev)
           /\ IsUpdate(Head(ev)) => /\ Head(ev).task \in Updated(ev)
                                    /\ Updated(Tail(ev)) = Updated(ev) \ {Head(ev).task}
<1> DEFINE r == Tail(ev)
<1>1. Head(ev) = ev[1] /\ 1 \in 1..Len(ev)
  OBVIOUS
<1>2. r \in Seq(S) /\ Len(r) = Len(ev) - 1
  OBVIOUS
<1>3. \A i \in 1..Len(r) : i + 1 \in 1..Len(ev) /\ i + 1 # 1 /\ r[i] = ev[i + 1]
  OBVIOUS
<1>4. \A j \in 1..Len(ev) : j = 1 \/ (j - 1 \in 1..Len(r) /\ r[j - 1] = ev[j])
  <2> TAKE j \in 1..Len(ev)
  <2>1. CASE j = 1
    BY <2>1
  <2>2. CASE j # 1
    <3>1. j - 1 \in 1..Len(r)
      BY <1>2, <2>2
    <3>2. r[j - 1] = ev[(j - 1) + 1]
      BY <1>3, <3>1
    <3> QED
      BY <3>1, <3>2
  <2> QED
    BY <2>1, <2>2
<1> HIDE DEF r
<1>5. UpdatesOnce(r)
  <2> SUFFICES ASSUME NEW i \in 1..Len(r), NEW j \in 1..Len(r),
                      IsUpdate(r[i]), IsUpdate(r[j]), r[i].task = r[j].task
               PROVE  i = j
    BY DEF UpdatesOnce
  <2>1. i + 1 = j + 1
    BY <1>3 DEF UpdatesOnce
  <2> QED
    BY <2>1
<1>6. Updated(r) \subseteq Updated(ev)
  BY <1>3 DEF Updated
<1>7. ASSUME ~IsUpdate(Head(ev))
      PROVE  Updated(ev) \subseteq Updated(r)
  BY <1>1, <1>4, <1>7 DEF Updated
<1>8. ASSUME IsUpdate(Head(ev))
      PROVE  Head(ev).task \in Updated(ev) /\ Updated(r) = Updated(ev) \ {Head(ev).task}
  <2>1. Head(ev).task \in Updated(ev)
    BY <1>1, <1>8 DEF Updated
  <2>2. \A i \in 1..Len(r) : IsUpdate(r[i]) => r[i].task # Head(ev).task
    BY <1>1, <1>3, <1>8 DEF UpdatesOnce
  <2>3. Updated(r) \subseteq Updated(ev) \ {Head(ev).task}
    BY <1>6, <2>2 DEF Updated
  <2>4. Updated(ev) \ {Head(ev).task} \subseteq Updated(r)
    BY <1>1, <1>4 DEF Updated
  <2> QED
    BY <2>1, <2>3, <2>4
<1> QED
  BY <1>5, <1>6, <1>7, <1>8 DEF r

-----------------------------------------------------------------------------
(* Types                                                                   *)

LEMMA Constants ==
    /\ \A t \in Task : TypeOf[t] \in Type
    /\ \A ty \in Type : PoolFor(ty) \in Pool
    /\ Results \subseteq Outcome
    /\ LimitChoices \subseteq Nat
    /\ Installable \subseteq Model
    /\ IsFiniteSet(Task)
BY TaskManagerAssumption DEF TaskManagerAssumption

LEMMA EventTypes ==
    /\ DispatchEvent \in Event
    /\ ~IsUpdate(DispatchEvent)
    /\ \A t \in Task, ok \in BOOLEAN :
          /\ UpdateEvent(t, ok) \in Event
          /\ IsUpdate(UpdateEvent(t, ok))
          /\ UpdateEvent(t, ok).task = t
BY DEF DispatchEvent, UpdateEvent, Event, IsUpdate

LEMMA DefaultLimitTyped == \A ty : DefaultLimit(ty) \in Nat
BY DEF DefaultLimit

LEMMA KeyTyped ==
    ASSUME TypeOK, NEW t \in Task
    PROVE  KeyOf(t) \in Key
BY Constants DEF KeyOf, Key, Deploy, TypeOK

LEMMA InitTyped == Init => TypeOK
<1> SUFFICES ASSUME Init
             PROVE  TypeOK
  OBVIOUS
<1>1. throttle \in [Type -> ThrottlingState]
  <2>1. \A ty \in Type : InitialThrottlingState(ty \in Throttled) \in ThrottlingState
    <3> TAKE ty \in Type
    <3>1. CASE ty \in Throttled
      <4>1. (ty \in Throttled) = TRUE
        BY <3>1
      <4> QED
        BY <4>1, InitialTyped, Zenon
    <3>2. CASE ty \notin Throttled
      <4>1. (ty \in Throttled) = FALSE
        BY <3>2
      <4> QED
        BY <4>1, InitialTyped, Zenon
    <3> QED
      BY <3>1, <3>2
  <2> QED
    BY <2>1, Zenon DEF Init
<1>2. limit \in [Type -> Nat]
  BY DefaultLimitTyped DEF Init
<1>3. /\ status \in [Task -> TaskStatus]
      /\ deploy \in [Task -> Deploy]
      /\ exec \in [Task -> ExecStage]
      /\ outcome \in [Task -> Outcome]
      /\ finished \in [Task -> Nat]
      /\ cancelNotes \in [Task -> Nat]
      /\ counter \in [Key -> Int]
  BY DEF Init, TaskStatus, Deploy, ExecStage, Outcome
<1>4. /\ queue \in [Type -> Seq(Task)]
      /\ poolQueue \in [Pool -> Seq(Task)]
      /\ events \in Seq(Event)
      /\ batch \in Seq(Task)
  BY DEF Init
<1>5. tm = "idle" /\ installed \subseteq Installable /\ cancelled \subseteq Task
        /\ running \subseteq Task /\ scan \subseteq Type
  BY DEF Init
<1> QED
  BY <1>1, <1>2, <1>3, <1>4, <1>5 DEF TypeOK

\* A non-empty set of service types has a least one.
LEMMA LeastType ==
    ASSUME NEW S, S \subseteq Nat, S # {}
    PROVE  \E least \in S : \A other \in S : least <= other
<1>1. PICK least \in S : \A other \in S : ~(<<other, least>> \in OpToRel(<, Nat))
  BY NatLessThanWellFounded, WFMin
<1>2. \A other \in S : ~(other < least)
  BY <1>1, Zenon DEF OpToRel
<1> QED
  BY <1>2

LEMMA CurrentTyped ==
    ASSUME TypeOK, scan # {}
    PROVE  /\ Current \in scan
           /\ Current \in Type
           /\ queue[Current] # <<>> => HeadTask \in Task
<1>1. scan \subseteq Type /\ scan \subseteq Nat /\ queue \in [Type -> Seq(Task)]
  BY TaskManagerAssumption DEF TaskManagerAssumption, TypeOK
<1>2. Current \in scan
  BY <1>1, LeastType DEF Current
<1> QED
  BY <1>1, <1>2 DEF HeadTask

\* Counting up or down at one place of a function.
LEMMA Counting ==
    ASSUME NEW S, NEW k
    PROVE  /\ \A c \in [S -> Int] : /\ [c EXCEPT ![k] = @ + 1] \in [S -> Int]
                                    /\ [c EXCEPT ![k] = @ - 1] \in [S -> Int]
           /\ \A c \in [S -> Nat] : [c EXCEPT ![k] = @ + 1] \in [S -> Nat]
<1>1. ASSUME NEW V, NEW c \in [S -> V], NEW n, k \in S => n \in V
      PROVE  [c EXCEPT ![k] = n] \in [S -> V]
  BY <1>1
<1>2. ASSUME NEW c \in [S -> Int]
      PROVE  /\ [c EXCEPT ![k] = @ + 1] \in [S -> Int]
             /\ [c EXCEPT ![k] = @ - 1] \in [S -> Int]
  <2>1. k \in S => c[k] + 1 \in Int /\ c[k] - 1 \in Int
    OBVIOUS
  <2> QED
    BY <1>1, <2>1, Zenon
<1>3. ASSUME NEW c \in [S -> Nat]
      PROVE  [c EXCEPT ![k] = @ + 1] \in [S -> Nat]
  <2>1. k \in S => c[k] + 1 \in Nat
    OBVIOUS
  <2> QED
    BY <1>1, <2>1, Zenon
<1> QED
  BY <1>2, <1>3

LEMMA StepTyped == TypeOK /\ [Next]_vars => TypeOK'
<1> SUFFICES ASSUME TypeOK, [Next]_vars
             PROVE  TypeOK'
  OBVIOUS
<1> USE DEF TypeOK, dispatchVars, poolVars, Triggered, Posted, Recorded
<1>1. ASSUME NEW t \in Task, AddTask(t)
      PROVE  TypeOK'
  <2>1. DetectModelDeployType(t) \in Deploy
    BY DEF DetectModelDeployType, Deploy
  <2>2. events' \in Seq(Event)
    BY <1>1, EventTypes, AppendElems DEF AddTask
  <2>3. queue' \in [Type -> Seq(Task)]
    BY <1>1, Constants, AppendElems DEF AddTask
  <2> QED
    BY <1>1, <2>1, <2>2, <2>3 DEF AddTask, TaskStatus
<1>2. ASSUME NEW t \in Task, CancelTask(t)
      PROVE  TypeOK'
  BY <1>2 DEF CancelTask, CancelTasks, TaskStatus
<1>3. ASSUME NEW ty \in Type, CancelTasksByType(ty)
      PROVE  TypeOK'
  <2>1. QueuedTasks(ty) \subseteq Task
    BY DEF QueuedTasks
  <2> QED
    BY <1>3, <2>1 DEF CancelTasksByType, TaskStatus
<1>4. ASSUME NEW ty \in Type, NEW n \in LimitChoices, SetLocalModelLimit(ty, n)
      PROVE  TypeOK'
  BY <1>4, Constants DEF SetLocalModelLimit
<1>5. ASSUME NEW ty \in Type, NEW on \in BOOLEAN, EnableResponsiveThrottling(ty, on)
      PROVE  TypeOK'
  <2>1. throttle' \in [Type -> ThrottlingState]
    BY <1>5 DEF EnableResponsiveThrottling, ThrottlingState
  <2> QED
    BY <1>5, <2>1 DEF EnableResponsiveThrottling
<1>6. CASE StartDispatch
  BY <1>6, HeadTail DEF StartDispatch
<1>7. CASE LeaveType
  BY <1>7 DEF LeaveType
<1>8. CASE DropCancelled
  <2>1. Current \in Type /\ HeadTask \in Task
    BY <1>8, CurrentTyped DEF DropCancelled
  <2>2. queue' \in [Type -> Seq(Task)]
    BY <1>8, <2>1, HeadTail DEF DropCancelled
  <2>3. cancelNotes' \in [Task -> Nat]
    BY <1>8, Counting DEF DropCancelled
  <2> QED
    BY <1>8, <2>1, <2>2, <2>3 DEF DropCancelled, TaskStatus
<1>9. CASE TakeTask
  <2>1. Current \in Type /\ HeadTask \in Task
    BY <1>9, CurrentTyped DEF TakeTask
  <2>2. queue' \in [Type -> Seq(Task)]
    BY <1>9, <2>1, HeadTail DEF TakeTask
  <2>3. batch' \in Seq(Task)
    BY <1>9, <2>1, AppendElems DEF TakeTask
  <2>4. counter' \in [Key -> Int]
    BY <1>9, Counting DEF TakeTask
  <2> QED
    BY <1>9, <2>1, <2>2, <2>3, <2>4 DEF TakeTask, TaskStatus
<1>10. CASE EndCollect
  BY <1>10 DEF EndCollect
<1>11. CASE SubmitTask
  <2>1. Head(batch) \in Task
    BY <1>11, HeadTail DEF SubmitTask
  <2>2. poolQueue' \in [Pool -> Seq(Task)]
    BY <1>11, <2>1, Constants, AppendElems DEF SubmitTask
  <2> QED
    BY <1>11, <2>1, <2>2 DEF SubmitTask, ExecStage
<1>12. CASE TrackTask
  BY <1>12, HeadTail DEF TrackTask
<1>13. CASE EndDispatch
  BY <1>13 DEF EndDispatch
<1>14. CASE UpdateTaskState
  <2>1. events' \in Seq(Event)
    BY <1>14, HeadTail DEF UpdateTaskState
  <2>2. counter' \in [Key -> Int] /\ finished' \in [Task -> Nat]
    BY <1>14, Counting DEF UpdateTaskState
  <2> QED
    BY <1>14, <2>1, <2>2 DEF UpdateTaskState, TaskStatus
<1>15. ASSUME NEW p \in Pool, StartRunnable(p)
       PROVE  TypeOK'
  BY <1>15, HeadTail DEF StartRunnable, ExecStage
<1>16. ASSUME NEW t \in Task, NEW r \in Results, ExecutorEnds(t, r)
       PROVE  TypeOK'
  <2>1. events' \in Seq(Event)
    BY <1>16, EventTypes, AppendElems DEF ExecutorEnds
  <2> QED
    BY <1>16, <2>1, Constants DEF ExecutorEnds, ExecStage
<1>17. ASSUME NEW t \in Task, ReportTaskResult(t)
       PROVE  TypeOK'
  <2>1. throttle' \in [Type -> ThrottlingState]
    BY <1>17, Constants, AdjustTyped DEF ReportTaskResult
  <2>2. outcome' \in [Task -> Outcome]
    BY <1>17 DEF ReportTaskResult, Outcome
  <2> QED
    BY <1>17, <2>1, <2>2 DEF ReportTaskResult, ExecStage
<1>18. ASSUME NEW ty \in Type, CooldownElapses(ty)
       PROVE  TypeOK'
  BY <1>18, CooldownTyped DEF CooldownElapses
<1>19. ASSUME NEW m \in Installable, ChangeInstalled(m)
       PROVE  TypeOK'
  BY <1>19 DEF ChangeInstalled
<1>20. CASE UNCHANGED vars
  BY <1>20 DEF vars
<1> QED
  BY <1>1, <1>2, <1>3, <1>4, <1>5, <1>6, <1>7, <1>8, <1>9, <1>10, <1>11, <1>12, <1>13,
     <1>14, <1>15, <1>16, <1>17, <1>18, <1>19, <1>20
     DEF Next, Calls, Dispatching, PoolThreads, Environment

-----------------------------------------------------------------------------
(* What a step may change                                                  *)

\* The variables the other parts of IInv are about.
coreVars == <<status, deploy, queue, cancelled, counter, running, tm, batch,
              events, poolQueue, exec, finished, cancelNotes>>

\* Changing a limit, the throttle, the installed models or the place of the
\* collecting loop changes none of them.
LEMMA StepCases ==
    ASSUME [Next]_vars
    PROVE  \/ \E t \in Task : AddTask(t) \/ CancelTask(t)
           \/ \E ty \in Type : CancelTasksByType(ty)
           \/ StartDispatch \/ DropCancelled \/ TakeTask \/ EndCollect
           \/ SubmitTask \/ TrackTask \/ EndDispatch \/ UpdateTaskState
           \/ \E p \in Pool : StartRunnable(p)
           \/ \E t \in Task : (\E r \in Results : ExecutorEnds(t, r)) \/ ReportTaskResult(t)
           \/ UNCHANGED coreVars
<1> USE DEF coreVars, dispatchVars, poolVars
<1>1. ASSUME NEW ty \in Type, NEW n \in LimitChoices, SetLocalModelLimit(ty, n)
      PROVE  UNCHANGED coreVars
  BY <1>1 DEF SetLocalModelLimit
<1>2. ASSUME NEW ty \in Type, NEW on \in BOOLEAN, EnableResponsiveThrottling(ty, on)
      PROVE  UNCHANGED coreVars
  BY <1>2 DEF EnableResponsiveThrottling
<1>3. CASE LeaveType
  BY <1>3 DEF LeaveType
<1>4. ASSUME NEW ty \in Type, CooldownElapses(ty)
      PROVE  UNCHANGED coreVars
  BY <1>4 DEF CooldownElapses
<1>5. ASSUME NEW m \in Installable, ChangeInstalled(m)
      PROVE  UNCHANGED coreVars
  BY <1>5 DEF ChangeInstalled
<1>6. CASE UNCHANGED vars
  BY <1>6 DEF vars
<1> HIDE DEF coreVars
<1> QED
  BY <1>1, <1>2, <1>3, <1>4, <1>5, <1>6
     DEF Next, Calls, Dispatching, PoolThreads, Environment

\* The head the collecting loop looks at.
LEMMA HeadFacts ==
    ASSUME IInv, scan # {}, queue[Current] # <<>>
    PROVE  /\ HeadTask \in Task
           /\ Current \in Type
           /\ TypeOf[HeadTask] = Current
           /\ Waiting(HeadTask)
           /\ Distinct(Tail(queue[Current]))
           /\ Elems(Tail(queue[Current])) = Elems(queue[Current]) \ {HeadTask}
<1>1. Current \in Type /\ HeadTask \in Task
  BY CurrentTyped DEF IInv
<1>2. queue[Current] \in Seq(Task) /\ Distinct(queue[Current])
  BY <1>1 DEF IInv, TypeOK, QueueInv
<1>3. HeadTask \in Elems(queue[Current])
  BY <1>2, HeadTail DEF HeadTask
<1> QED
  BY <1>1, <1>2, <1>3, HeadTail DEF HeadTask, IInv, QueueInv

\* The task of a posted update has its slot until the update is handled.
LEMMA UpdateFacts ==
    ASSUME IInv, events # <<>>, Head(events).kind = "update", NEW u, u = Head(events).task
    PROVE  /\ u \in Task
           /\ status[u] = "Running"
           /\ exec[u] \in {"posted", "done"}
           /\ UpdatesOnce(Tail(events))
           /\ Updated(Tail(events)) = Updated(events) \ {u}
<1>1. events \in Seq(Event) /\ UpdatesOnce(events)
  BY DEF IInv, TypeOK, EventInv
<1>2. IsUpdate(Head(events))
  BY DEF IsUpdate
<1>3. u \in Updated(events) /\ UpdatesOnce(Tail(events))
        /\ Updated(Tail(events)) = Updated(events) \ {u}
  BY <1>1, <1>2, HandleHead
<1> QED
  BY <1>3 DEF IInv, EventInv

\* The task at the head of tasksToExecute.
LEMMA BatchFacts ==
    ASSUME IInv, batch # <<>>
    PROVE  /\ Head(batch) \in Task
           /\ Head(batch) \in Elems(batch)
           /\ status[Head(batch)] = "Running"
           /\ Distinct(Tail(batch))
           /\ Elems(Tail(batch)) = Elems(batch) \ {Head(batch)}
<1>1. batch \in Seq(Task) /\ Distinct(batch)
  BY DEF IInv, TypeOK, BatchInv
<1> QED
  BY <1>1, HeadTail DEF IInv, BatchInv

-----------------------------------------------------------------------------
(* The waiting queues                                                      *)

LEMMA QueueStep == IInv /\ [Next]_vars => QueueInv'
<1> SUFFICES ASSUME IInv, [Next]_vars
             PROVE  QueueInv'
  OBVIOUS
<1>0. QueueInv /\ TypeOK
  BY DEF IInv
<1> USE DEF dispatchVars, poolVars, Idle, Triggered, Posted, Recorded, Waiting
<1>1. ASSUME NEW t \in Task, AddTask(t)
      PROVE  QueueInv'
  <2>1. TypeOf[t] \in Type /\ status[t] = "New" /\ queue[TypeOf[t]] \in Seq(Task)
    BY <1>0, <1>1, Constants DEF AddTask, TypeOK
  <2>2. \A ty \in Type : t \notin Elems(queue[ty])
    BY <1>0, <2>1 DEF QueueInv
  <2>3. /\ Elems(queue'[TypeOf[t]]) = Elems(queue[TypeOf[t]]) \cup {t}
        /\ Distinct(queue'[TypeOf[t]])
        /\ \A ty \in Type : ty # TypeOf[t] => queue'[ty] = queue[ty]
    BY <1>0, <1>1, <2>1, <2>2, AppendElems DEF AddTask, TypeOK, QueueInv
  <2>4. status'[t] = "Pending" /\ \A x \in Task : x # t => status'[x] = status[x]
    BY <1>0, <1>1 DEF AddTask, TypeOK
  <2>5. cancelled' = cancelled
    BY <1>1 DEF AddTask
  <2>6. \A ty \in Type : Elems(queue[ty]) \subseteq Task
    BY <1>0, ElemsTyped DEF TypeOK
  <2>7. \A ty \in Type : Distinct(queue'[ty])
    BY <1>0, <2>3 DEF QueueInv
  <2>8. \A x \in Task : status'[x] = "Pending" => x \in Elems(queue'[TypeOf[x]])
    <3> SUFFICES ASSUME NEW x \in Task, status'[x] = "Pending"
                 PROVE  x \in Elems(queue'[TypeOf[x]])
      OBVIOUS
    <3>1. CASE x = t
      BY <2>3, <3>1
    <3>2. CASE x # t
      <4>1. x \in Elems(queue[TypeOf[x]]) /\ TypeOf[x] \in Type
        BY <1>0, <2>4, <3>2, Constants DEF QueueInv
      <4> QED
        BY <2>3, <4>1
    <3> QED
      BY <3>1, <3>2
  <2>9. \A ty \in Type : \A x \in Elems(queue'[ty]) : TypeOf[x] = ty /\ Waiting(x)'
    <3> SUFFICES ASSUME NEW ty \in Type, NEW x \in Elems(queue'[ty])
                 PROVE  TypeOf[x] = ty /\ Waiting(x)'
      OBVIOUS
    <3>1. CASE x = t
      BY <2>2, <2>3, <2>4, <3>1
    <3>2. CASE x # t
      <4>1. x \in Elems(queue[ty]) /\ x \in Task
        BY <2>3, <2>6, <3>2
      <4> QED
        BY <1>0, <2>4, <2>5, <3>2, <4>1 DEF QueueInv
    <3> QED
      BY <3>1, <3>2
  <2> QED
    BY <2>7, <2>8, <2>9 DEF QueueInv
<1>2. ASSUME NEW t \in Task, CancelTask(t)
      PROVE  QueueInv'
  <2>1. queue' = queue
    BY <1>2 DEF CancelTask, CancelTasks
  <2>2. \A x \in Task : /\ status'[x] # status[x] =>
                             status[x] = "Pending" /\ status'[x] = "Cancelled" /\ x \in cancelled'
                        /\ x \in cancelled => x \in cancelled'
    BY <1>2 DEF CancelTask, CancelTasks
  <2> QED
    BY <1>0, <2>1, <2>2, ElemsTyped DEF QueueInv, TypeOK
<1>3. ASSUME NEW ty \in Type, CancelTasksByType(ty)
      PROVE  QueueInv'
  <2>1. queue' = [queue EXCEPT ![ty] = <<>>]
    BY <1>3 DEF CancelTasksByType
  <2>2. \A x \in Task : /\ x \in Elems(queue[ty]) => status'[x] = "Cancelled"
                        /\ x \notin Elems(queue[ty]) => status'[x] = status[x]
                        /\ x \in cancelled => x \in cancelled'
    BY <1>3 DEF CancelTasksByType, QueuedTasks, Elems
  <2>3. /\ Elems(queue'[ty]) = {} /\ Distinct(queue'[ty])
        /\ \A other \in Type : other # ty => queue'[other] = queue[other]
    BY <1>0, <2>1, EmptyElems DEF TypeOK
  <2>4. \A other \in Type : Elems(queue[other]) \subseteq Task
    BY <1>0, ElemsTyped DEF TypeOK
  <2> QED
    BY <1>0, <1>3, <2>2, <2>3, <2>4, Constants DEF QueueInv
<1>4. CASE DropCancelled
  <2>1. /\ HeadTask \in Task /\ Current \in Type /\ TypeOf[HeadTask] = Current
        /\ Distinct(Tail(queue[Current]))
        /\ Elems(Tail(queue[Current])) = Elems(queue[Current]) \ {HeadTask}
    BY <1>4, HeadFacts DEF DropCancelled
  <2>2. /\ Elems(queue'[Current]) = Elems(queue[Current]) \ {HeadTask}
        /\ Distinct(queue'[Current])
        /\ \A ty \in Type : ty # Current => queue'[ty] = queue[ty]
    BY <1>0, <1>4, <2>1 DEF DropCancelled, TypeOK
  <2>3. /\ status'[HeadTask] = "Cancelled"
        /\ \A x \in Task : x # HeadTask => status'[x] = status[x]
        /\ cancelled' = cancelled \ {HeadTask}
    BY <1>0, <1>4, <2>1 DEF DropCancelled, TypeOK
  <2>4. \A ty \in Type : Elems(queue[ty]) \subseteq Task
    BY <1>0, ElemsTyped DEF TypeOK
  <2> QED
    BY <1>0, <2>1, <2>2, <2>3, <2>4, Constants DEF QueueInv
<1>5. CASE TakeTask
  <2>1. /\ HeadTask \in Task /\ Current \in Type /\ TypeOf[HeadTask] = Current
        /\ Distinct(Tail(queue[Current]))
        /\ Elems(Tail(queue[Current])) = Elems(queue[Current]) \ {HeadTask}
    BY <1>5, HeadFacts DEF TakeTask
  <2>2. /\ Elems(queue'[Current]) = Elems(queue[Current]) \ {HeadTask}
        /\ Distinct(queue'[Current])
        /\ \A ty \in Type : ty # Current => queue'[ty] = queue[ty]
    BY <1>0, <1>5, <2>1 DEF TakeTask, TypeOK
  <2>3. /\ status'[HeadTask] = "Running"
        /\ \A x \in Task : x # HeadTask => status'[x] = status[x]
        /\ cancelled' = cancelled
    BY <1>0, <1>5, <2>1 DEF TakeTask, TypeOK
  <2>4. \A ty \in Type : Elems(queue[ty]) \subseteq Task
    BY <1>0, ElemsTyped DEF TypeOK
  <2> QED
    BY <1>0, <2>1, <2>2, <2>3, <2>4, Constants DEF QueueInv
<1>6. CASE UpdateTaskState
  <2>1. PICK u \in Task : status[u] = "Running" /\ u = Head(events).task
    BY <1>6, UpdateFacts DEF UpdateTaskState
  <2>2. /\ queue' = queue /\ cancelled' = cancelled
        /\ \A x \in Task : x # u => status'[x] = status[x]
        /\ status'[u] \in {"Completed", "Failed"}
    BY <1>0, <1>6, <2>1 DEF UpdateTaskState, TypeOK
  <2> QED
    BY <1>0, <2>1, <2>2, ElemsTyped DEF QueueInv, TypeOK
<1>7. ASSUME UNCHANGED <<queue, status, cancelled>>
      PROVE  QueueInv'
  BY <1>0, <1>7 DEF QueueInv
<1>8. ASSUME \/ StartDispatch \/ EndCollect \/ SubmitTask \/ TrackTask \/ EndDispatch
             \/ \E p \in Pool : StartRunnable(p)
             \/ \E t \in Task : (\E r \in Results : ExecutorEnds(t, r)) \/ ReportTaskResult(t)
             \/ UNCHANGED coreVars
      PROVE  UNCHANGED <<queue, status, cancelled>>
  BY <1>8 DEF StartDispatch, EndCollect, SubmitTask, TrackTask, EndDispatch, StartRunnable,
              ExecutorEnds, ReportTaskResult, coreVars
<1> QED
  BY <1>1, <1>2, <1>3, <1>4, <1>5, <1>6, <1>7, <1>8, StepCases

-----------------------------------------------------------------------------
(* The effect of the steps on the life of a task                           *)

Unstarted == {"New", "Pending", "Cancelled"}

\* Adding, cancelling and dropping tasks only concerns tasks that have not been
\* started, and posts no update.
LEMMA UnstartedSteps ==
    ASSUME IInv,
           \/ \E t \in Task : AddTask(t) \/ CancelTask(t)
           \/ \E ty \in Type : CancelTasksByType(ty)
           \/ DropCancelled
    PROVE  /\ \A x \in Task : \/ status'[x] = status[x]
                              \/ status[x] \in Unstarted /\ status'[x] \in Unstarted
           /\ \A x \in Task : status[x] \in Unstarted \/ deploy'[x] = deploy[x]
           /\ UpdatesOnce(events') /\ Updated(events') = Updated(events)
           /\ UNCHANGED <<counter, running, tm, batch, poolQueue, exec, finished>>
<1> USE DEF dispatchVars, poolVars, Idle, Triggered, Posted, Recorded, Unstarted
<1>0. TypeOK /\ UpdatesOnce(events)
  BY DEF IInv, EventInv
<1>1. ASSUME NEW t \in Task, AddTask(t)
      PROVE  /\ \A x \in Task : \/ status'[x] = status[x]
                                \/ status[x] \in Unstarted /\ status'[x] \in Unstarted
             /\ \A x \in Task : status[x] \in Unstarted \/ deploy'[x] = deploy[x]
             /\ UpdatesOnce(events') /\ Updated(events') = Updated(events)
             /\ UNCHANGED <<counter, running, tm, batch, poolQueue, exec, finished>>
  <2>1. UpdatesOnce(events') /\ Updated(events') = Updated(events)
    <3>1. events \in Seq(Event) /\ events' = Append(events, DispatchEvent)
      BY <1>0, <1>1 DEF AddTask, TypeOK
    <3> QED
      BY <1>0, <3>1, EventTypes, AppendOther
  <2> QED
    BY <1>0, <1>1, <2>1 DEF AddTask, TypeOK
<1>2. ASSUME NEW t \in Task, CancelTask(t)
      PROVE  /\ \A x \in Task : \/ status'[x] = status[x]
                                \/ status[x] \in Unstarted /\ status'[x] \in Unstarted
             /\ UNCHANGED <<counter, running, tm, batch, poolQueue, exec, finished, events, deploy>>
  BY <1>2 DEF CancelTask, CancelTasks
<1>3. ASSUME NEW ty \in Type, CancelTasksByType(ty)
      PROVE  /\ \A x \in Task : \/ status'[x] = status[x]
                                \/ status[x] \in Unstarted /\ status'[x] \in Unstarted
             /\ UNCHANGED <<counter, running, tm, batch, poolQueue, exec, finished, events, deploy>>
  <2>1. \A x \in QueuedTasks(ty) : status[x] \in Unstarted
    BY DEF IInv, QueueInv, QueuedTasks, Elems, Waiting
  <2> QED
    BY <1>3, <2>1 DEF CancelTasksByType
<1>4. ASSUME DropCancelled
      PROVE  /\ \A x \in Task : \/ status'[x] = status[x]
                                \/ status[x] \in Unstarted /\ status'[x] \in Unstarted
             /\ UNCHANGED <<counter, running, tm, batch, poolQueue, exec, finished, events, deploy>>
  <2>1. HeadTask \in Task /\ status[HeadTask] \in Unstarted
    BY <1>4, HeadFacts DEF DropCancelled, Waiting
  <2> QED
    BY <1>0, <1>4, <2>1 DEF DropCancelled, TypeOK
<1> QED
  BY <1>0, <1>1, <1>2, <1>3, <1>4

\* A task taken from its queue was Pending and its runnable is not created yet.
LEMMA TakeEffect ==
    ASSUME IInv, TakeTask
    PROVE  /\ HeadTask \in Task
           /\ status[HeadTask] = "Pending" /\ status'[HeadTask] = "Running"
           /\ exec[HeadTask] = "none"
           /\ HeadTask \notin Elems(batch)
           /\ Distinct(batch') /\ Elems(batch') = Elems(batch) \cup {HeadTask}
           /\ \A x \in Task : x # HeadTask => status'[x] = status[x]
<1>1. HeadTask \in Task /\ Waiting(HeadTask)
  BY HeadFacts DEF TakeTask
<1>2. status[HeadTask] = "Pending" /\ exec[HeadTask] = "none" /\ HeadTask \notin Elems(batch)
  BY <1>1 DEF TakeTask, Waiting, IInv, ExecInv, BatchInv
<1>3. Distinct(batch') /\ Elems(batch') = Elems(batch) \cup {HeadTask}
  BY <1>1, <1>2, AppendElems DEF TakeTask, IInv, TypeOK, BatchInv
<1>4. status'[HeadTask] = "Running" /\ \A x \in Task : x # HeadTask => status'[x] = status[x]
  BY <1>1 DEF TakeTask, IInv, TypeOK
<1> QED
  BY <1>1, <1>2, <1>3, <1>4

\* An update ends one Running task, and nobody else's.
LEMMA UpdateEffect ==
    ASSUME IInv, UpdateTaskState
    PROVE  \E u \in Task :
              /\ status[u] = "Running" /\ status'[u] \in {"Completed", "Failed"}
              /\ exec[u] \in {"posted", "done"}
              /\ u = Head(events).task
              /\ UpdatesOnce(events') /\ Updated(events') = Updated(events) \ {u}
              /\ \A x \in Task : x # u => status'[x] = status[x]
<1>1. PICK u \in Task : u = Head(events).task /\ status[u] = "Running"
                        /\ exec[u] \in {"posted", "done"}
                        /\ UpdatesOnce(Tail(events))
                        /\ Updated(Tail(events)) = Updated(events) \ {u}
  BY UpdateFacts DEF UpdateTaskState
<1>2. status'[u] \in {"Completed", "Failed"}
        /\ \A x \in Task : x # u => status'[x] = status[x]
  BY <1>1 DEF UpdateTaskState, IInv, TypeOK
<1>3. events' = Tail(events)
  BY DEF UpdateTaskState
<1> QED
  BY <1>1, <1>2, <1>3

\* A runnable advances; no status changes.
LEMMA RunnableSteps ==
    ASSUME IInv,
           \/ \E p \in Pool : StartRunnable(p)
           \/ \E t \in Task : (\E r \in Results : ExecutorEnds(t, r)) \/ ReportTaskResult(t)
    PROVE  /\ \A x \in Task : exec'[x] # exec[x] =>
                 \/ exec[x] = "queued" /\ exec'[x] = "executing"
                 \/ exec[x] = "executing" /\ exec'[x] = "posted"
                 \/ exec[x] = "posted" /\ exec'[x] = "done"
           /\ UNCHANGED <<status, deploy, counter, running, tm, batch, finished>>
<1> USE DEF dispatchVars, poolVars, Idle, Triggered, Posted, Recorded
<1>0. exec \in [Task -> ExecStage] /\ poolQueue \in [Pool -> Seq(Task)]
  BY DEF IInv, TypeOK
<1>1. ASSUME NEW p \in Pool, StartRunnable(p)
      PROVE  /\ \A x \in Task : exec'[x] # exec[x] =>
                   exec[x] = "queued" /\ exec'[x] = "executing"
             /\ UNCHANGED <<status, deploy, counter, running, tm, batch, finished>>
  <2>1. exec[Head(poolQueue[p])] = "queued"
    BY <1>0, <1>1, HeadTail DEF StartRunnable, IInv, PoolInv
  <2> QED
    BY <1>0, <1>1, <2>1 DEF StartRunnable
<1>2. ASSUME NEW t \in Task, NEW r \in Results, ExecutorEnds(t, r)
      PROVE  /\ \A x \in Task : exec'[x] # exec[x] =>
                   exec[x] = "executing" /\ exec'[x] = "posted"
             /\ UNCHANGED <<status, deploy, counter, running, tm, batch, finished>>
  BY <1>0, <1>2 DEF ExecutorEnds
<1>3. ASSUME NEW t \in Task, ReportTaskResult(t)
      PROVE  /\ \A x \in Task : exec'[x] # exec[x] =>
                   exec[x] = "posted" /\ exec'[x] = "done"
             /\ UNCHANGED <<status, deploy, counter, running, tm, batch, finished>>
  BY <1>0, <1>3 DEF ReportTaskResult
<1> QED
  BY <1>1, <1>2, <1>3

-----------------------------------------------------------------------------
(* tasksToExecute                                                          *)

LEMMA BatchStep == IInv /\ [Next]_vars => BatchInv'
<1> SUFFICES ASSUME IInv, [Next]_vars
             PROVE  BatchInv'
  OBVIOUS
<1>0. BatchInv /\ ExecInv /\ TypeOK /\ Elems(batch) \subseteq Task
  BY ElemsTyped DEF IInv, TypeOK
<1> USE DEF dispatchVars, poolVars, Idle, Triggered, Posted, Recorded
<1>1. ASSUME \/ \E t \in Task : AddTask(t) \/ CancelTask(t)
             \/ \E ty \in Type : CancelTasksByType(ty)
             \/ DropCancelled
      PROVE  BatchInv'
  <2>1. /\ \A x \in Task : \/ status'[x] = status[x]
                           \/ status[x] \in Unstarted /\ status'[x] \in Unstarted
        /\ UNCHANGED <<tm, batch, exec>>
    BY <1>1, UnstartedSteps
  <2> QED
    BY <1>0, <2>1 DEF BatchInv, Unstarted
<1>2. CASE StartDispatch
  <2>1. tm = "idle" /\ tm' = "collect" /\ UNCHANGED <<batch, status, exec>>
    BY <1>2 DEF StartDispatch
  <2> QED
    BY <1>0, <2>1 DEF BatchInv
<1>3. CASE TakeTask
  <2>1. UNCHANGED <<tm, exec>> /\ tm = "collect"
    BY <1>3 DEF TakeTask
  <2> QED
    BY <1>0, <1>3, <2>1, TakeEffect DEF BatchInv
<1>4. CASE EndCollect
  <2>1. tm = "collect" /\ tm' = "submit" /\ UNCHANGED <<batch, status, exec>>
    BY <1>4 DEF EndCollect
  <2> QED
    BY <1>0, <2>1 DEF BatchInv
<1>5. CASE SubmitTask
  <2>1. /\ tm = "submit" /\ tm' = "track" /\ UNCHANGED <<batch, status>>
        /\ Head(batch) \in Task
    BY <1>5, BatchFacts DEF SubmitTask
  <2>2. exec'[Head(batch)] = "queued" /\ \A x \in Task : x # Head(batch) => exec'[x] = exec[x]
    BY <1>0, <1>5, <2>1 DEF SubmitTask, TypeOK
  <2> QED
    BY <1>0, <2>1, <2>2 DEF BatchInv
<1>6. CASE TrackTask
  <2>1. /\ tm = "track" /\ tm' = "submit" /\ batch' = Tail(batch) /\ UNCHANGED <<exec, status>>
        /\ batch # <<>>
    BY <1>0, <1>6 DEF TrackTask, TypeOK
  <2>2. Distinct(batch') /\ Elems(batch') = Elems(batch) \ {Head(batch)}
    BY <2>1, BatchFacts
  <2> QED
    BY <1>0, <2>1, <2>2 DEF BatchInv
<1>7. CASE EndDispatch
  <2>1. tm = "submit" /\ tm' = "idle" /\ batch = <<>> /\ UNCHANGED <<batch, status, exec>>
    BY <1>7 DEF EndDispatch
  <2> QED
    BY <1>0, <2>1, EmptyElems DEF BatchInv
<1>8. CASE UpdateTaskState
  <2>1. tm = "idle" /\ UNCHANGED <<tm, batch, exec>>
    BY <1>8 DEF UpdateTaskState
  <2> QED
    BY <1>0, <1>8, <2>1, UpdateEffect DEF BatchInv
<1>9. ASSUME \/ \E p \in Pool : StartRunnable(p)
             \/ \E t \in Task : (\E r \in Results : ExecutorEnds(t, r)) \/ ReportTaskResult(t)
      PROVE  BatchInv'
  <2>1. /\ \A x \in Task : exec'[x] = "none" <=> exec[x] = "none"
        /\ UNCHANGED <<tm, batch, status>>
    BY <1>9, RunnableSteps
  <2>2. tm = "track" => Head(batch) \in Task
    BY <1>0, HeadTail DEF TypeOK
  <2> QED
    BY <1>0, <2>1, <2>2 DEF BatchInv
<1>10. CASE UNCHANGED coreVars
  BY <1>0, <1>10 DEF BatchInv, coreVars
<1> QED
  BY <1>1, <1>2, <1>3, <1>4, <1>5, <1>6, <1>7, <1>8, <1>9, <1>10, StepCases

-----------------------------------------------------------------------------
(* The pool queues                                                         *)

LEMMA PoolStep == IInv /\ [Next]_vars => PoolInv'
<1> SUFFICES ASSUME IInv, [Next]_vars
             PROVE  PoolInv'
  OBVIOUS
<1>0. /\ PoolInv /\ TypeOK /\ \A p \in Pool : Elems(poolQueue[p]) \subseteq Task
      /\ poolQueue \in [Pool -> Seq(Task)] /\ exec \in [Task -> ExecStage]
  BY ElemsTyped DEF IInv, TypeOK
<1> USE DEF dispatchVars, poolVars, Idle, Triggered, Posted, Recorded
<1>1. CASE SubmitTask
  <2> DEFINE h == Head(batch)
             q == PoolFor(TypeOf[h])
  <2>1. h \in Task /\ q \in Pool /\ exec[h] = "none"
    <3>1. h \in Task /\ h \in Elems(batch) /\ tm = "submit"
      BY <1>1, BatchFacts DEF SubmitTask
    <3> QED
      BY <3>1, Constants DEF IInv, BatchInv
  <2>2. /\ poolQueue' = [poolQueue EXCEPT ![q] = Append(@, h)]
        /\ exec' = [exec EXCEPT ![h] = "queued"]
    BY <1>1 DEF SubmitTask
  <2>3. q = PoolFor(TypeOf[h])
    OBVIOUS
  <2> HIDE DEF h, q
  <2>4. \A p \in Pool : h \notin Elems(poolQueue[p])
    BY <1>0, <2>1 DEF PoolInv
  <2>5. /\ Distinct(poolQueue'[q]) /\ Elems(poolQueue'[q]) = Elems(poolQueue[q]) \cup {h}
        /\ \A p \in Pool : p # q => poolQueue'[p] = poolQueue[p]
    BY <1>0, <2>1, <2>2, <2>4, AppendElems DEF PoolInv
  <2>6. exec'[h] = "queued" /\ \A x \in Task : x # h => exec'[x] = exec[x]
    BY <1>0, <2>1, <2>2
  <2> SUFFICES ASSUME NEW p \in Pool
               PROVE  /\ Distinct(poolQueue'[p])
                      /\ \A x \in Elems(poolQueue'[p]) :
                            exec'[x] = "queued" /\ PoolFor(TypeOf[x]) = p
    BY DEF PoolInv
  <2>7. CASE p = q
    BY <1>0, <2>3, <2>5, <2>6, <2>7 DEF PoolInv
  <2>8. CASE p # q
    BY <1>0, <2>4, <2>5, <2>6, <2>8 DEF PoolInv
  <2> QED
    BY <2>7, <2>8
<1>2. ASSUME NEW q \in Pool, StartRunnable(q)
      PROVE  PoolInv'
  <2> DEFINE h == Head(poolQueue[q])
  <2>1. /\ h \in Task /\ h \in Elems(poolQueue[q])
        /\ Distinct(Tail(poolQueue[q]))
        /\ Elems(Tail(poolQueue[q])) = Elems(poolQueue[q]) \ {h}
    BY <1>0, <1>2, HeadTail DEF StartRunnable, PoolInv
  <2>2. /\ poolQueue' = [poolQueue EXCEPT ![q] = Tail(@)]
        /\ exec' = [exec EXCEPT ![h] = "executing"]
    BY <1>2 DEF StartRunnable
  <2> HIDE DEF h
  <2>3. /\ poolQueue'[q] = Tail(poolQueue[q])
        /\ \A p \in Pool : p # q => poolQueue'[p] = poolQueue[p]
        /\ \A x \in Task : x # h => exec'[x] = exec[x]
    BY <1>0, <2>2
  <2>4. \A p \in Pool : p # q => h \notin Elems(poolQueue[p])
    BY <1>0, <2>1 DEF PoolInv
  <2> SUFFICES ASSUME NEW p \in Pool
               PROVE  /\ Distinct(poolQueue'[p])
                      /\ \A x \in Elems(poolQueue'[p]) :
                            exec'[x] = "queued" /\ PoolFor(TypeOf[x]) = p
    BY DEF PoolInv
  <2>5. CASE p = q
    BY <1>0, <2>1, <2>3, <2>5 DEF PoolInv
  <2>6. CASE p # q
    BY <1>0, <2>3, <2>4, <2>6 DEF PoolInv
  <2> QED
    BY <2>5, <2>6
<1>3. ASSUME NEW t \in Task, (\E r \in Results : ExecutorEnds(t, r)) \/ ReportTaskResult(t)
      PROVE  PoolInv'
  <2>1. /\ poolQueue' = poolQueue
        /\ exec[t] # "queued"
        /\ \A x \in Task : x # t => exec'[x] = exec[x]
    BY <1>0, <1>3 DEF ExecutorEnds, ReportTaskResult
  <2> QED
    BY <1>0, <2>1 DEF PoolInv
<1>4. ASSUME UNCHANGED <<poolQueue, exec>>
      PROVE  PoolInv'
  BY <1>0, <1>4 DEF PoolInv
<1>5. ASSUME \/ \E t \in Task : AddTask(t) \/ CancelTask(t)
             \/ \E ty \in Type : CancelTasksByType(ty)
             \/ StartDispatch \/ DropCancelled \/ TakeTask \/ EndCollect
             \/ TrackTask \/ EndDispatch \/ UpdateTaskState
             \/ UNCHANGED coreVars
      PROVE  UNCHANGED <<poolQueue, exec>>
  BY <1>5 DEF AddTask, CancelTask, CancelTasks, CancelTasksByType, StartDispatch, DropCancelled,
              TakeTask, EndCollect, TrackTask, EndDispatch, UpdateTaskState, coreVars
<1> QED
  BY <1>1, <1>2, <1>3, <1>4, <1>5, StepCases

-----------------------------------------------------------------------------
(* Runnables and the status of their tasks                                 *)

LEMMA ExecStep == IInv /\ [Next]_vars => ExecInv'
<1> SUFFICES ASSUME IInv, [Next]_vars
             PROVE  ExecInv'
  OBVIOUS
<1>0. /\ ExecInv /\ exec \in [Task -> ExecStage] /\ status \in [Task -> TaskStatus]
  BY DEF IInv, TypeOK
<1> USE DEF dispatchVars, poolVars, Idle, Triggered, Posted, Recorded
<1>1. ASSUME \/ \E t \in Task : AddTask(t) \/ CancelTask(t)
             \/ \E ty \in Type : CancelTasksByType(ty)
             \/ DropCancelled
      PROVE  ExecInv'
  <2>1. /\ \A x \in Task : \/ status'[x] = status[x]
                           \/ status[x] \in Unstarted /\ status'[x] \in Unstarted
        /\ exec' = exec
    BY <1>1, UnstartedSteps
  <2> QED
    BY <1>0, <2>1 DEF ExecInv, Unstarted
<1>2. CASE TakeTask
  <2>1. exec' = exec
    BY <1>2 DEF TakeTask
  <2> QED
    BY <1>0, <1>2, <2>1, TakeEffect DEF ExecInv
<1>3. CASE SubmitTask
  <2>1. /\ Head(batch) \in Task /\ status[Head(batch)] = "Running"
        /\ status' = status
        /\ exec' = [exec EXCEPT ![Head(batch)] = "queued"]
    BY <1>3, BatchFacts DEF SubmitTask
  <2> QED
    BY <1>0, <2>1 DEF ExecInv
<1>4. CASE UpdateTaskState
  <2>1. exec' = exec
    BY <1>4 DEF UpdateTaskState
  <2> QED
    BY <1>0, <1>4, <2>1, UpdateEffect DEF ExecInv
<1>5. ASSUME \/ \E p \in Pool : StartRunnable(p)
             \/ \E t \in Task : (\E r \in Results : ExecutorEnds(t, r)) \/ ReportTaskResult(t)
      PROVE  ExecInv'
  <2>1. /\ \A x \in Task : exec'[x] # exec[x] =>
              \/ exec[x] = "queued" /\ exec'[x] = "executing"
              \/ exec[x] = "executing" /\ exec'[x] = "posted"
              \/ exec[x] = "posted" /\ exec'[x] = "done"
        /\ status' = status
    BY <1>5, RunnableSteps
  <2> QED
    BY <1>0, <2>1 DEF ExecInv
<1>6. ASSUME UNCHANGED <<status, exec>>
      PROVE  ExecInv'
  BY <1>0, <1>6 DEF ExecInv
<1>7. ASSUME StartDispatch \/ EndCollect \/ TrackTask \/ EndDispatch \/ UNCHANGED coreVars
      PROVE  UNCHANGED <<status, exec>>
  BY <1>7 DEF StartDispatch, EndCollect, TrackTask, EndDispatch, coreVars
<1> QED
  BY <1>1, <1>2, <1>3, <1>4, <1>5, <1>6, <1>7, StepCases

-----------------------------------------------------------------------------
(* The posted updates                                                      *)

LEMMA EventStep == IInv /\ [Next]_vars => EventInv'
<1> SUFFICES ASSUME IInv, [Next]_vars
             PROVE  EventInv'
  OBVIOUS
<1>0. /\ EventInv /\ ExecInv /\ BatchInv
      /\ exec \in [Task -> ExecStage] /\ status \in [Task -> TaskStatus] /\ events \in Seq(Event)
  BY DEF IInv, TypeOK
<1> USE DEF dispatchVars, poolVars, Idle, Triggered, Posted, Recorded
<1>1. ASSUME \/ \E t \in Task : AddTask(t) \/ CancelTask(t)
             \/ \E ty \in Type : CancelTasksByType(ty)
             \/ DropCancelled
      PROVE  EventInv'
  <2>1. /\ \A x \in Task : \/ status'[x] = status[x]
                           \/ status[x] \in Unstarted /\ status'[x] \in Unstarted
        /\ exec' = exec
        /\ UpdatesOnce(events') /\ Updated(events') = Updated(events)
    BY <1>1, UnstartedSteps
  <2> QED
    BY <1>0, <2>1 DEF EventInv, Unstarted
<1>2. CASE StartDispatch
  <2>1. /\ UpdatesOnce(events') /\ Updated(events') = Updated(events)
    BY <1>0, <1>2, HandleHead DEF StartDispatch, IsUpdate, EventInv
  <2>2. UNCHANGED <<status, exec>>
    BY <1>2 DEF StartDispatch
  <2> QED
    BY <1>0, <2>1, <2>2 DEF EventInv
<1>3. CASE TakeTask
  <2>1. UNCHANGED <<exec, events>>
    BY <1>3 DEF TakeTask
  <2> QED
    BY <1>0, <1>3, <2>1, TakeEffect DEF EventInv
<1>4. CASE SubmitTask
  <2>1. /\ Head(batch) \in Task /\ exec[Head(batch)] = "none"
        /\ UNCHANGED <<events, status>>
        /\ exec' = [exec EXCEPT ![Head(batch)] = "queued"]
    BY <1>0, <1>4, BatchFacts DEF SubmitTask, BatchInv
  <2> QED
    BY <1>0, <2>1 DEF EventInv
<1>5. CASE UpdateTaskState
  <2>1. exec' = exec
    BY <1>5 DEF UpdateTaskState
  <2> QED
    BY <1>0, <1>5, <2>1, UpdateEffect DEF EventInv
<1>6. ASSUME NEW p \in Pool, StartRunnable(p)
      PROVE  EventInv'
  <2>1. /\ \A x \in Task : (exec'[x] \in {"posted", "done"}) <=> (exec[x] \in {"posted", "done"})
        /\ UNCHANGED <<events, status>>
    <3>1. exec[Head(poolQueue[p])] = "queued"
      BY <1>6, HeadTail DEF StartRunnable, IInv, TypeOK, PoolInv
    <3> QED
      BY <1>0, <1>6, <3>1 DEF StartRunnable
  <2> QED
    BY <1>0, <2>1 DEF EventInv
<1>7. ASSUME NEW t \in Task, NEW r \in Results, ExecutorEnds(t, r)
      PROVE  EventInv'
  <2> DEFINE e == UpdateEvent(t, r = "ok")
  <2>1. e \in Event /\ IsUpdate(e) /\ e.task = t
    BY EventTypes
  <2>2. t \notin Updated(events) /\ status[t] = "Running" /\ exec[t] = "executing"
    BY <1>0, <1>7 DEF ExecutorEnds, EventInv, ExecInv
  <2>3. events' = Append(events, e)
    BY <1>7 DEF ExecutorEnds
  <2> HIDE DEF e
  <2>4. UpdatesOnce(events') /\ Updated(events') = Updated(events) \cup {t}
    BY <1>0, <2>1, <2>2, <2>3, AppendUpdate DEF EventInv
  <2>5. exec'[t] = "posted" /\ \A x \in Task : x # t => exec'[x] = exec[x]
    BY <1>0, <1>7 DEF ExecutorEnds
  <2>6. status' = status
    BY <1>7 DEF ExecutorEnds
  <2> QED
    BY <1>0, <2>2, <2>4, <2>5, <2>6 DEF EventInv
<1>8. ASSUME NEW t \in Task, ReportTaskResult(t)
      PROVE  EventInv'
  <2>1. /\ UNCHANGED <<events, status>>
        /\ \A x \in Task : (exec'[x] \in {"posted", "done"}) <=> (exec[x] \in {"posted", "done"})
    BY <1>0, <1>8 DEF ReportTaskResult
  <2> QED
    BY <1>0, <2>1 DEF EventInv
<1>9. ASSUME UNCHANGED <<status, exec, events>>
      PROVE  EventInv'
  BY <1>0, <1>9 DEF EventInv
<1>10. ASSUME EndCollect \/ TrackTask \/ EndDispatch \/ UNCHANGED coreVars
       PROVE  UNCHANGED <<status, exec, events>>
  BY <1>10 DEF EndCollect, TrackTask, EndDispatch, coreVars
<1> QED
  BY <1>1, <1>2, <1>3, <1>4, <1>5, <1>6, <1>7, <1>8, <1>9, <1>10, StepCases

-----------------------------------------------------------------------------
(* runningTasks                                                            *)

LEMMA TrackStep == IInv /\ [Next]_vars => TrackInv'
<1> SUFFICES ASSUME IInv, [Next]_vars
             PROVE  TrackInv'
  OBVIOUS
<1>0. TrackInv /\ BatchInv /\ TypeOK /\ status \in [Task -> TaskStatus]
  BY DEF IInv, TypeOK
<1> USE DEF dispatchVars, poolVars, Idle, Triggered, Posted, Recorded, RunningTasks
<1>1. ASSUME \/ \E t \in Task : AddTask(t) \/ CancelTask(t)
             \/ \E ty \in Type : CancelTasksByType(ty)
             \/ DropCancelled
      PROVE  TrackInv'
  <2>1. /\ \A x \in Task : \/ status'[x] = status[x]
                           \/ status[x] \in Unstarted /\ status'[x] \in Unstarted
        /\ UNCHANGED <<running, batch>>
    BY <1>1, UnstartedSteps
  <2>2. RunningTasks' = RunningTasks
    BY <1>0, <2>1 DEF Unstarted
  <2> QED
    BY <1>0, <2>1, <2>2 DEF TrackInv
<1>2. CASE TakeTask
  <2>1. /\ Elems(batch') = Elems(batch) \cup {HeadTask}
        /\ RunningTasks' = RunningTasks \cup {HeadTask}
        /\ HeadTask \notin RunningTasks
    BY <1>0, <1>2, TakeEffect
  <2>2. running' = running
    BY <1>2 DEF TakeTask
  <2> QED
    BY <1>0, <2>1, <2>2 DEF TrackInv
<1>3. CASE TrackTask
  <2>1. /\ Head(batch) \in RunningTasks
        /\ Elems(batch') = Elems(batch) \ {Head(batch)}
    BY <1>0, <1>3, BatchFacts DEF TrackTask, TypeOK
  <2>2. running' = running \cup {Head(batch)} /\ status' = status
    BY <1>3 DEF TrackTask
  <2> QED
    BY <1>0, <2>1, <2>2 DEF TrackInv
<1>4. CASE UpdateTaskState
  <2>1. PICK u \in Task : /\ status[u] = "Running" /\ status'[u] \in {"Completed", "Failed"}
                          /\ u = Head(events).task
                          /\ \A x \in Task : x # u => status'[x] = status[x]
    BY <1>4, UpdateEffect
  <2>2. RunningTasks' = RunningTasks \ {u}
    BY <2>1
  <2>3. running' = running \ {u} /\ batch' = batch
    BY <1>4, <2>1 DEF UpdateTaskState
  <2> QED
    BY <1>0, <2>2, <2>3 DEF TrackInv
<1>5. ASSUME UNCHANGED <<status, running, batch>>
      PROVE  TrackInv'
  BY <1>0, <1>5 DEF TrackInv
<1>6. ASSUME \/ StartDispatch \/ EndCollect \/ SubmitTask \/ EndDispatch
             \/ \E p \in Pool : StartRunnable(p)
             \/ \E t \in Task : (\E r \in Results : ExecutorEnds(t, r)) \/ ReportTaskResult(t)
             \/ UNCHANGED coreVars
      PROVE  UNCHANGED <<status, running, batch>>
  BY <1>6 DEF StartDispatch, EndCollect, SubmitTask, EndDispatch, StartRunnable,
              ExecutorEnds, ReportTaskResult, coreVars
<1> QED
  BY <1>1, <1>2, <1>3, <1>4, <1>5, <1>6, StepCases

-----------------------------------------------------------------------------
(* The cancellations reported                                              *)

LEMMA NoteStep == IInv /\ [Next]_vars => NoteInv'
<1> SUFFICES ASSUME IInv, [Next]_vars
             PROVE  NoteInv'
  OBVIOUS
<1>0. /\ NoteInv /\ cancelNotes \in [Task -> Nat] /\ status \in [Task -> TaskStatus]
  BY DEF IInv, TypeOK
<1> USE DEF dispatchVars, poolVars, Idle, Triggered, Posted, Recorded
<1>1. ASSUME NEW t \in Task, AddTask(t)
      PROVE  NoteInv'
  <2>1. status[t] = "New" /\ status' = [status EXCEPT ![t] = "Pending"] /\ cancelNotes' = cancelNotes
    BY <1>1 DEF AddTask
  <2> QED
    BY <1>0, <2>1 DEF NoteInv
<1>2. ASSUME NEW t \in Task, CancelTask(t)
      PROVE  NoteInv'
  <2>1. \A x \in Task : \/ cancelNotes'[x] = cancelNotes[x] /\ status'[x] = status[x]
                        \/ status'[x] = "Cancelled"
    BY <1>2 DEF CancelTask, CancelTasks
  <2> QED
    BY <1>0, <2>1 DEF NoteInv
<1>3. ASSUME NEW ty \in Type, CancelTasksByType(ty)
      PROVE  NoteInv'
  <2>1. \A x \in Task : \/ cancelNotes'[x] = cancelNotes[x] /\ status'[x] = status[x]
                        \/ status'[x] = "Cancelled"
    BY <1>3 DEF CancelTasksByType
  <2> QED
    BY <1>0, <2>1 DEF NoteInv
<1>4. CASE DropCancelled
  <2>1. HeadTask \in Task
    BY <1>4, HeadFacts DEF DropCancelled
  <2>2. \A x \in Task : \/ cancelNotes'[x] = cancelNotes[x] /\ status'[x] = status[x]
                        \/ status'[x] = "Cancelled"
    BY <1>0, <1>4, <2>1 DEF DropCancelled
  <2> QED
    BY <1>0, <2>2 DEF NoteInv
<1>5. CASE TakeTask
  <2>1. cancelNotes' = cancelNotes
    BY <1>5 DEF TakeTask
  <2> QED
    BY <1>0, <1>5, <2>1, TakeEffect DEF NoteInv
<1>6. CASE UpdateTaskState
  <2>1. cancelNotes' = cancelNotes
    BY <1>6 DEF UpdateTaskState
  <2> QED
    BY <1>0, <1>6, <2>1, UpdateEffect DEF NoteInv
<1>7. ASSUME UNCHANGED <<status, cancelNotes>>
      PROVE  NoteInv'
  BY <1>0, <1>7 DEF NoteInv
<1>8. ASSUME \/ StartDispatch \/ EndCollect \/ SubmitTask \/ TrackTask \/ EndDispatch
             \/ \E p \in Pool : StartRunnable(p)
             \/ \E t \in Task : (\E r \in Results : ExecutorEnds(t, r)) \/ ReportTaskResult(t)
             \/ UNCHANGED coreVars
      PROVE  UNCHANGED <<status, cancelNotes>>
  BY <1>8 DEF StartDispatch, EndCollect, SubmitTask, TrackTask, EndDispatch, StartRunnable,
              ExecutorEnds, ReportTaskResult, coreVars
<1> QED
  BY <1>1, <1>2, <1>3, <1>4, <1>5, <1>6, <1>7, <1>8, StepCases

-----------------------------------------------------------------------------
(* What the sessions are told                                              *)

LEMMA FinishStep == IInv /\ [Next]_vars => FinishedExactlyOnce'
<1> SUFFICES ASSUME IInv, [Next]_vars
             PROVE  FinishedExactlyOnce'
  OBVIOUS
<1>0. FinishedExactlyOnce /\ finished \in [Task -> Nat] /\ status \in [Task -> TaskStatus]
  BY DEF IInv, TypeOK
<1> USE DEF dispatchVars, poolVars, Idle, Triggered, Posted, Recorded
<1>1. ASSUME \/ \E t \in Task : AddTask(t) \/ CancelTask(t)
             \/ \E ty \in Type : CancelTasksByType(ty)
             \/ DropCancelled
      PROVE  FinishedExactlyOnce'
  <2>1. /\ \A x \in Task : \/ status'[x] = status[x]
                           \/ status[x] \in Unstarted /\ status'[x] \in Unstarted
        /\ finished' = finished
    BY <1>1, UnstartedSteps
  <2> QED
    BY <1>0, <2>1 DEF FinishedExactlyOnce, Unstarted
<1>2. CASE TakeTask
  <2>1. finished' = finished
    BY <1>2 DEF TakeTask
  <2> QED
    BY <1>0, <1>2, <2>1, TakeEffect DEF FinishedExactlyOnce
<1>3. CASE UpdateTaskState
  <2>1. PICK u \in Task : /\ status[u] = "Running" /\ status'[u] \in {"Completed", "Failed"}
                          /\ u = Head(events).task
                          /\ \A x \in Task : x # u => status'[x] = status[x]
    BY <1>3, UpdateEffect
  <2>2. finished' = [finished EXCEPT ![u] = @ + 1] /\ finished[u] = 0
    BY <1>0, <1>3, <2>1 DEF UpdateTaskState, FinishedExactlyOnce
  <2>3. finished'[u] = 1 /\ \A x \in Task : x # u => finished'[x] = finished[x]
    BY <1>0, <2>2
  <2> QED
    BY <1>0, <2>1, <2>3 DEF FinishedExactlyOnce
<1>4. ASSUME UNCHANGED <<status, finished>>
      PROVE  FinishedExactlyOnce'
  BY <1>0, <1>4 DEF FinishedExactlyOnce
<1>5. ASSUME \/ StartDispatch \/ EndCollect \/ SubmitTask \/ TrackTask \/ EndDispatch
             \/ \E p \in Pool : StartRunnable(p)
             \/ \E t \in Task : (\E r \in Results : ExecutorEnds(t, r)) \/ ReportTaskResult(t)
             \/ UNCHANGED coreVars
      PROVE  UNCHANGED <<status, finished>>
  BY <1>5 DEF StartDispatch, EndCollect, SubmitTask, TrackTask, EndDispatch, StartRunnable,
              ExecutorEnds, ReportTaskResult, coreVars
<1> QED
  BY <1>1, <1>2, <1>3, <1>4, <1>5, StepCases

-----------------------------------------------------------------------------
(* The slots                                                               *)

LEMMA RunningFinite == \A k : IsFiniteSet(RunningOf(k)) /\ Cardinality(RunningOf(k)) \in Nat
<1> TAKE k
<1>1. RunningOf(k) \in SUBSET Task
  BY DEF RunningOf
<1> QED
  BY <1>1, Constants, FS_Subset, FS_CardinalityType

LEMMA SlotStep == IInv /\ [Next]_vars => SlotsMatchRunning'
<1> SUFFICES ASSUME IInv, [Next]_vars
             PROVE  SlotsMatchRunning'
  OBVIOUS
<1>0. /\ SlotsMatchRunning /\ TypeOK
      /\ status \in [Task -> TaskStatus] /\ counter \in [Key -> Int]
  BY DEF IInv, TypeOK
<1> USE DEF dispatchVars, poolVars, Idle, Triggered, Posted, Recorded
<1>1. ASSUME \/ \E t \in Task : AddTask(t) \/ CancelTask(t)
             \/ \E ty \in Type : CancelTasksByType(ty)
             \/ DropCancelled
      PROVE  SlotsMatchRunning'
  <2>1. /\ \A x \in Task : \/ status'[x] = status[x]
                           \/ status[x] \in Unstarted /\ status'[x] \in Unstarted
        /\ \A x \in Task : status[x] \in Unstarted \/ deploy'[x] = deploy[x]
        /\ counter' = counter
    BY <1>1, UnstartedSteps
  <2>2. \A x \in Task : /\ status'[x] = "Running" <=> status[x] = "Running"
                        /\ status[x] = "Running" => KeyOf(x)' = KeyOf(x)
    BY <2>1 DEF Unstarted, KeyOf
  <2>3. \A k \in Key : RunningOf(k)' = RunningOf(k)
    BY <2>2 DEF RunningOf
  <2> QED
    BY <1>0, <2>1, <2>3 DEF SlotsMatchRunning
<1>2. CASE TakeTask
  <2>1. PICK h \in Task : /\ h = HeadTask
                          /\ status[h] = "Pending" /\ status'[h] = "Running"
                          /\ \A x \in Task : x # h => status'[x] = status[x]
    BY <1>2, TakeEffect
  <2>0. PICK own \in Key : own = KeyOf(h)
    BY <1>0, KeyTyped
  <2>2. counter' = [counter EXCEPT ![own] = @ + 1] /\ deploy' = deploy
    BY <1>2, <2>0, <2>1 DEF TakeTask
  <2>3. \A x \in Task : KeyOf(x)' = KeyOf(x)
    BY <2>2 DEF KeyOf
  <2>4. h \notin RunningOf(own) /\ RunningOf(own)' = RunningOf(own) \cup {h}
    BY <2>0, <2>1, <2>3 DEF RunningOf
  <2>5. \A k \in Key : k # own => RunningOf(k)' = RunningOf(k)
    BY <2>0, <2>1, <2>3 DEF RunningOf
  <2>6. Cardinality(RunningOf(own)') = Cardinality(RunningOf(own)) + 1
    BY <2>4, RunningFinite, FS_AddElement
  <2>7. counter'[own] = counter[own] + 1 /\ \A k \in Key : k # own => counter'[k] = counter[k]
    BY <1>0, <2>2
  <2> SUFFICES ASSUME NEW k \in Key
               PROVE  counter'[k] = Cardinality(RunningOf(k)')
    BY DEF SlotsMatchRunning
  <2>8. CASE k = own
    BY <1>0, <2>6, <2>7, <2>8 DEF SlotsMatchRunning
  <2>9. CASE k # own
    BY <1>0, <2>5, <2>7, <2>9 DEF SlotsMatchRunning
  <2> QED
    BY <2>8, <2>9
<1>3. CASE UpdateTaskState
  <2>1. PICK u \in Task : /\ status[u] = "Running" /\ status'[u] \in {"Completed", "Failed"}
                          /\ u = Head(events).task
                          /\ \A x \in Task : x # u => status'[x] = status[x]
    BY <1>3, UpdateEffect
  <2>0. PICK own \in Key : own = KeyOf(u)
    BY <1>0, KeyTyped
  <2>2. counter' = [counter EXCEPT ![own] = @ - 1] /\ deploy' = deploy
    BY <1>3, <2>0, <2>1 DEF UpdateTaskState
  <2>3. \A x \in Task : KeyOf(x)' = KeyOf(x)
    BY <2>2 DEF KeyOf
  <2>4. u \in RunningOf(own) /\ RunningOf(own)' = RunningOf(own) \ {u}
    BY <2>0, <2>1, <2>3 DEF RunningOf
  <2>5. \A k \in Key : k # own => RunningOf(k)' = RunningOf(k)
    BY <2>0, <2>1, <2>3 DEF RunningOf
  <2>6. Cardinality(RunningOf(own)') = Cardinality(RunningOf(own)) - 1
    BY <2>4, RunningFinite, FS_RemoveElement
  <2>7. counter'[own] = counter[own] - 1 /\ \A k \in Key : k # own => counter'[k] = counter[k]
    BY <1>0, <2>2
  <2> SUFFICES ASSUME NEW k \in Key
               PROVE  counter'[k] = Cardinality(RunningOf(k)')
    BY DEF SlotsMatchRunning
  <2>8. CASE k = own
    BY <1>0, <2>6, <2>7, <2>8 DEF SlotsMatchRunning
  <2>9. CASE k # own
    BY <1>0, <2>5, <2>7, <2>9 DEF SlotsMatchRunning
  <2> QED
    BY <2>8, <2>9
<1>4. ASSUME UNCHANGED <<status, deploy, counter>>
      PROVE  SlotsMatchRunning'
  BY <1>0, <1>4 DEF SlotsMatchRunning, RunningOf, KeyOf
<1>5. ASSUME \/ StartDispatch \/ EndCollect \/ SubmitTask \/ TrackTask \/ EndDispatch
             \/ \E p \in Pool : StartRunnable(p)
             \/ \E t \in Task : (\E r \in Results : ExecutorEnds(t, r)) \/ ReportTaskResult(t)
             \/ UNCHANGED coreVars
      PROVE  UNCHANGED <<status, deploy, counter>>
  BY <1>5 DEF StartDispatch, EndCollect, SubmitTask, TrackTask, EndDispatch, StartRunnable,
              ExecutorEnds, ReportTaskResult, coreVars
<1> QED
  BY <1>1, <1>2, <1>3, <1>4, <1>5, StepCases

-----------------------------------------------------------------------------
(* The inductive invariant                                                 *)

LEMMA InitInv == Init => IInv
<1> SUFFICES ASSUME Init
             PROVE  IInv
  OBVIOUS
<1>1. TypeOK
  BY InitTyped
<1>2. /\ \A ty \in Type : queue[ty] = <<>>
      /\ \A p \in Pool : poolQueue[p] = <<>>
      /\ events = <<>> /\ batch = <<>> /\ running = {} /\ tm = "idle"
      /\ \A t \in Task : status[t] = "New" /\ exec[t] = "none" /\ finished[t] = 0 /\ cancelNotes[t] = 0
      /\ \A k \in Key : counter[k] = 0
  BY DEF Init
<1>3. QueueInv /\ BatchInv /\ PoolInv /\ ExecInv
  BY <1>2, EmptyElems DEF QueueInv, BatchInv, PoolInv, ExecInv
<1>4. EventInv
  BY <1>2 DEF EventInv, UpdatesOnce, Updated
<1>5. TrackInv /\ NoteInv
  BY <1>2 DEF TrackInv, RunningTasks, NoteInv
<1>6. SlotsMatchRunning
  <2>1. \A k \in Key : RunningOf(k) = {}
    BY <1>2 DEF RunningOf
  <2> QED
    BY <1>2, <2>1, FS_EmptySet DEF SlotsMatchRunning
<1>7. FinishedExactlyOnce
  BY <1>2 DEF FinishedExactlyOnce
<1> QED
  BY <1>1, <1>3, <1>4, <1>5, <1>6, <1>7 DEF IInv

\* IInv is an invariant of TaskManager.
THEOREM Invariance == Spec => []IInv
<1>1. IInv /\ [Next]_vars => IInv'
  <2>1. IInv => TypeOK
    BY DEF IInv
  <2> QED
    BY <2>1, StepTyped, QueueStep, BatchStep, PoolStep, ExecStep, EventStep, TrackStep,
       NoteStep, SlotStep, FinishStep DEF IInv
<1> QED
  BY InitInv, <1>1, PTL DEF Spec

\* Every variable always has its type.
THEOREM TypeCorrect == Spec => []TypeOK
<1>1. IInv => TypeOK
  BY DEF IInv
<1> QED
  BY Invariance, <1>1, PTL

\* A concurrency slot is neither leaked nor given back twice: the counter of a
\* key is the number of its Running tasks.
THEOREM SlotsAreExact == Spec => []SlotsMatchRunning
<1>1. IInv => SlotsMatchRunning
  BY DEF IInv
<1> QED
  BY Invariance, <1>1, PTL

\* The waiting queues hold every Pending task, once and under its own type.
THEOREM QueuesAreExact == Spec => []QueuesHoldPending
<1>1. IInv => QueuesHoldPending
  BY DEF IInv, QueueInv, QueuesHoldPending, QueuedTasks, Distinct, Elems
<1> QED
  BY Invariance, <1>1, PTL

\* A task reported Cancelled stays so and never reaches a pool thread.
THEOREM CancelledStaysOut == Spec => []CancelledNeverExecutes
<1>1. IInv => CancelledNeverExecutes
  BY DEF IInv, NoteInv, ExecInv, FinishedExactlyOnce, CancelledNeverExecutes
<1> QED
  BY Invariance, <1>1, PTL

\* The sessions hear of each task once, when it is over.
THEOREM ToldOnce == Spec => []FinishedExactlyOnce
<1>1. IInv => FinishedExactlyOnce
  BY DEF IInv
<1> QED
  BY Invariance, <1>1, PTL

\* Between two events runningTasks names exactly the Running tasks.
THEOREM TrackingIsExact == Spec => []TrackedWhenIdle
<1>1. IInv => TrackedWhenIdle
  BY DEF IInv, BatchInv, TrackInv, RunningTasks, TrackedWhenIdle
<1> QED
  BY Invariance, <1>1, PTL

\* Every task is always where its status says.
THEOREM TasksInPlace == Spec => []TasksAreInPlace
<1>1. TypeOK /\ QueuesHoldPending /\ TrackedWhenIdle => TasksAreInPlace
  BY DEF TasksAreInPlace
<1> QED
  BY TypeCorrect, QueuesAreExact, TrackingIsExact, <1>1, PTL

-----------------------------------------------------------------------------
(* The limits                                                              *)

LEMMA LimitTyped ==
    ASSUME TypeOK, NEW k \in Key
    PROVE  LimitOf(k) \in Nat
BY ThrottleAssumption, FieldTypes DEF ThrottleAssumption, TypeOK, LimitOf, Key

\* What is in flight is Running, so the counter bounds it.
LEMMA FlightsAreCounted ==
    ASSUME IInv, NEW k \in Key
    PROVE  /\ InFlight(k) \subseteq RunningOf(k)
           /\ Cardinality(InFlight(k)) \in Nat
           /\ Cardinality(InFlight(k)) <= counter[k]
<1>1. InFlight(k) \subseteq RunningOf(k)
  BY DEF IInv, BatchInv, ExecInv, InFlight, RunningOf, Elems
<1>2. InFlight(k) \in SUBSET RunningOf(k)
  BY <1>1
<1>3. Cardinality(InFlight(k)) <= Cardinality(RunningOf(k)) /\ Cardinality(InFlight(k)) \in Nat
  BY <1>2, RunningFinite, FS_Subset, FS_CardinalityType
<1> QED
  BY <1>1, <1>3 DEF IInv, SlotsMatchRunning

\* A task under its limit: CanDispatch compares the counter of the key.
LEMMA DispatchUnderLimit ==
    ASSUME TypeOK, NEW t \in Task, CanDispatch(t), Limited(KeyOf(t))
    PROVE  counter[KeyOf(t)] < LimitOf(KeyOf(t))
<1>1. KeyOf(t)[1] = TypeOf[t] /\ KeyOf(t)[2] = deploy[t] /\ deploy[t] \in Deploy
  BY DEF KeyOf, TypeOK
<1>2. CASE deploy[t] = "Cloud"
  BY <1>1, <1>2 DEF CanDispatch, Limited, LimitOf
<1>3. CASE deploy[t] = "Local"
  BY <1>1, <1>3 DEF CanDispatch, LimitOf
<1> QED
  BY <1>1, <1>2, <1>3 DEF Deploy

\* Whenever a task of a limited key is started, fewer executors of that key
\* than the limit are in flight.
THEOREM LimitsAreKept == Spec => StartsUnderLimit
<1>1. IInv /\ [Next]_vars =>
         \A t \in Task :
            status[t] = "Pending" /\ status'[t] = "Running" /\ Limited(KeyOf(t))
               => Cardinality(InFlight(KeyOf(t))) < LimitOf(KeyOf(t))
  <2> SUFFICES ASSUME IInv, [Next]_vars, NEW t \in Task,
                      status[t] = "Pending", status'[t] = "Running", Limited(KeyOf(t))
               PROVE  Cardinality(InFlight(KeyOf(t))) < LimitOf(KeyOf(t))
    OBVIOUS
  <2>1. TakeTask /\ t = HeadTask
    <3>1. CASE TakeTask
      BY <3>1, TakeEffect
    <3>2. CASE UpdateTaskState
      BY <3>2, UpdateEffect
    <3>3. ASSUME \/ \E x \in Task : AddTask(x) \/ CancelTask(x)
                 \/ \E ty \in Type : CancelTasksByType(ty)
                 \/ DropCancelled
          PROVE  FALSE
      BY <3>3, UnstartedSteps DEF Unstarted
    <3>4. ASSUME \/ StartDispatch \/ EndCollect \/ SubmitTask \/ TrackTask \/ EndDispatch
                 \/ \E p \in Pool : StartRunnable(p)
                 \/ \E x \in Task : (\E r \in Results : ExecutorEnds(x, r)) \/ ReportTaskResult(x)
                 \/ UNCHANGED coreVars
          PROVE  status' = status
      BY <3>4 DEF StartDispatch, EndCollect, SubmitTask, TrackTask, EndDispatch, StartRunnable,
                  ExecutorEnds, ReportTaskResult, coreVars
    <3> QED
      BY <3>1, <3>2, <3>3, <3>4, StepCases
  <2>2. TypeOK /\ CanDispatch(t) /\ KeyOf(t) \in Key
    BY <2>1, KeyTyped DEF TakeTask, IInv
  <2>3. counter[KeyOf(t)] < LimitOf(KeyOf(t))
    BY <2>2, DispatchUnderLimit
  <2>4. counter[KeyOf(t)] \in Int /\ LimitOf(KeyOf(t)) \in Nat
    BY <2>2, LimitTyped DEF TypeOK
  <2> QED
    BY <2>2, <2>3, <2>4, FlightsAreCounted
<1>2. (\A t \in Task :
          status[t] = "Pending" /\ status'[t] = "Running" /\ Limited(KeyOf(t))
             => Cardinality(InFlight(KeyOf(t))) < LimitOf(KeyOf(t)))
      => [\A t \in Task :
          status[t] = "Pending" /\ status'[t] = "Running" /\ Limited(KeyOf(t))
             => Cardinality(InFlight(KeyOf(t))) < LimitOf(KeyOf(t))]_vars
  OBVIOUS
<1> QED
  BY Invariance, <1>1, <1>2, PTL DEF Spec, StartsUnderLimit

-----------------------------------------------------------------------------
(* TaskManager implements TaskScheduling                                   *)

LEMMA StageValues ==
    ASSUME TypeOK, NEW t \in Task
    PROVE  /\ Stages[t] = StageOf(status[t])
           /\ Keys[t] = KeyOf(t)
           /\ Stages[t] = "new" <=> status[t] = "New"
           /\ Stages[t] = "waiting" <=> status[t] = "Pending"
           /\ Stages[t] = "busy" <=> status[t] = "Running"
           /\ Stages[t] = "dropped" <=> status[t] = "Cancelled"
           /\ Stages[t] = "over" <=> status[t] \in {"Completed", "Failed"}
<1>1. status[t] \in TaskStatus
  BY DEF TypeOK
<1> QED
  BY <1>1 DEF Stages, Keys, StageOf, TaskStatus

LEMMA CapsTyped ==
    ASSUME TypeOK
    PROVE  Caps \in [Key -> Nat]
<1>1. Cardinality(Task) \in Nat
  BY Constants, FS_CardinalityType
<1>2. \A k \in Key : LimitOf(k) \in Nat
  BY LimitTyped
<1> QED
  BY <1>1, <1>2 DEF Caps

CapsOK == Caps \in [Key -> Nat]

LEMMA CapsTypedNext == TypeOK' => Caps' \in [Key -> Nat]
<1>1. TypeOK => CapsOK
  BY CapsTyped DEF CapsOK
<1>2. TypeOK' => CapsOK'
  BY <1>1, PTL
<1> QED
  BY <1>2 DEF CapsOK

\* The instance has a Cardinality of its own, defined the same.
LEMMA SameCardinality == \A S : Scheduling!Cardinality(S) = Cardinality(S)
BY Zenon DEF Cardinality, Scheduling!Cardinality

LEMMA BusyIsRunning ==
    ASSUME TypeOK, NEW k
    PROVE  Scheduling!Busy(k) = RunningOf(k)
BY StageValues DEF Scheduling!Busy, RunningOf

\* As long as one task is not busy there is a cap left on an unlimited key.
LEMMA RoomWhenUnlimited ==
    ASSUME NEW t \in Task, status[t] # "Running", NEW k
    PROVE  Cardinality(RunningOf(k)) < Cardinality(Task)
<1>1. RunningOf(k) \in SUBSET Task /\ RunningOf(k) # Task
  BY DEF RunningOf
<1>2. /\ Cardinality(RunningOf(k)) <= Cardinality(Task)
      /\ Cardinality(Task) = Cardinality(RunningOf(k)) => Task = RunningOf(k)
  BY <1>1, Constants, FS_Subset
<1>3. Cardinality(Task) \in Nat /\ Cardinality(RunningOf(k)) \in Nat
  BY Constants, FS_CardinalityType, RunningFinite
<1> QED
  BY <1>1, <1>2, <1>3

LEMMA SubmitMaps ==
    ASSUME IInv, TypeOK', NEW t \in Task, AddTask(t)
    PROVE  Scheduling!Submit(t)
<1>0. TypeOK
  BY DEF IInv
<1>1. /\ status[t] = "New"
      /\ status' = [status EXCEPT ![t] = "Pending"]
      /\ deploy' = [deploy EXCEPT ![t] = DetectModelDeployType(t)]
      /\ UNCHANGED <<limit, throttle>>
  BY DEF AddTask
<1>2. Stages[t] = "new"
  BY <1>0, <1>1, StageValues
<1>3. Stages' = [Stages EXCEPT ![t] = "waiting"]
  BY <1>0, <1>1 DEF Stages, StageOf, TypeOK
<1>4. KeyOf(t)' \in Key
  BY Constants DEF KeyOf, Key, TypeOK
<1>5. Keys' = [Keys EXCEPT ![t] = KeyOf(t)']
  BY <1>0, <1>1 DEF Keys, KeyOf, TypeOK
<1>6. Caps' = Caps
  BY <1>1 DEF Caps, Limited, LimitOf
<1> QED
  BY <1>2, <1>3, <1>4, <1>5, <1>6 DEF Scheduling!Submit

LEMMA DropMaps ==
    ASSUME IInv, TypeOK',
           \/ \E t \in Task : CancelTask(t)
           \/ \E ty \in Type : CancelTasksByType(ty)
           \/ DropCancelled
    PROVE  \E S \in SUBSET Task : Scheduling!Drop(S)
<1>0. TypeOK
  BY DEF IInv
<1> DEFINE S == {x \in Task : status[x] = "Pending" /\ status'[x] = "Cancelled"}
<1> USE DEF dispatchVars, poolVars, Idle, Triggered, Posted, Recorded
<1>1. /\ \A x \in Task : \/ status'[x] = status[x]
                         \/ status[x] \in {"Pending", "Cancelled"} /\ status'[x] = "Cancelled"
      /\ UNCHANGED <<deploy, limit, throttle>>
  <2>1. ASSUME NEW t \in Task, CancelTask(t)
        PROVE  <1>1!:
    BY <2>1 DEF CancelTask, CancelTasks
  <2>2. ASSUME NEW ty \in Type, CancelTasksByType(ty)
        PROVE  <1>1!:
    <3>1. \A x \in QueuedTasks(ty) : status[x] \in {"Pending", "Cancelled"}
      BY <2>2 DEF IInv, QueueInv, QueuedTasks, Elems, Waiting
    <3> QED
      BY <2>2, <3>1 DEF CancelTasksByType
  <2>3. CASE DropCancelled
    <3>1. HeadTask \in Task /\ status[HeadTask] \in {"Pending", "Cancelled"}
      BY <2>3, HeadFacts DEF DropCancelled, Waiting
    <3> QED
      BY <1>0, <2>3, <3>1 DEF DropCancelled, TypeOK
  <2> QED
    BY <2>1, <2>2, <2>3
<1>2. \A x \in S : Stages[x] = "waiting"
  BY <1>0, StageValues
<1>3. Stages' = [x \in Task |-> IF x \in S THEN "dropped" ELSE Stages[x]]
  BY <1>1 DEF Stages, StageOf
<1>4. Keys' = Keys /\ Caps' = Caps
  BY <1>1 DEF Keys, KeyOf, Caps, Limited, LimitOf
<1> HIDE DEF S
<1>5. Scheduling!Drop(S)
  BY <1>2, <1>3, <1>4 DEF Scheduling!Drop
<1>6. S \in SUBSET Task
  BY DEF S
<1> QED
  BY <1>5, <1>6

LEMMA StartMaps ==
    ASSUME IInv, TypeOK', TakeTask
    PROVE  \E t \in Task : Scheduling!Start(t)
<1>0. TypeOK
  BY DEF IInv
<1>1. PICK t \in Task : /\ t = HeadTask
                        /\ status[t] = "Pending" /\ status'[t] = "Running"
                        /\ \A x \in Task : x # t => status'[x] = status[x]
  BY TakeEffect
<1>2. UNCHANGED <<deploy, limit, throttle>> /\ CanDispatch(t)
  BY <1>1 DEF TakeTask
<1>3. KeyOf(t) \in Key /\ counter[KeyOf(t)] = Cardinality(RunningOf(KeyOf(t)))
  BY <1>0, KeyTyped DEF IInv, SlotsMatchRunning
<1>4. Cardinality(RunningOf(KeyOf(t))) < Caps[KeyOf(t)]
  <2>1. CASE Limited(KeyOf(t))
    BY <1>0, <1>2, <1>3, <2>1, DispatchUnderLimit DEF Caps
  <2>2. CASE ~Limited(KeyOf(t))
    BY <1>1, <1>3, <2>2, RoomWhenUnlimited DEF Caps
  <2> QED
    BY <2>1, <2>2
<1>5. Stages[t] = "waiting" /\ Keys[t] = KeyOf(t)
  BY <1>0, <1>1, StageValues
<1>6. Stages' = [Stages EXCEPT ![t] = "busy"]
  BY <1>1 DEF Stages, StageOf
<1>7. Keys' = Keys /\ Caps' = Caps
  BY <1>2 DEF Keys, KeyOf, Caps, Limited, LimitOf
<1>8. Scheduling!Busy(Keys[t]) = RunningOf(KeyOf(t))
  BY <1>0, <1>5, BusyIsRunning
<1>9. Scheduling!Cardinality(Scheduling!Busy(Keys[t])) < Caps[Keys[t]]
  BY <1>4, <1>5, <1>8, SameCardinality
<1>10. Scheduling!Start(t)
  BY <1>5, <1>6, <1>7, <1>9 DEF Scheduling!Start
<1> QED
  BY <1>10

LEMMA FinishMaps ==
    ASSUME IInv, TypeOK', UpdateTaskState
    PROVE  \E t \in Task : Scheduling!Finish(t)
<1>0. TypeOK
  BY DEF IInv
<1>1. PICK t \in Task : /\ status[t] = "Running" /\ status'[t] \in {"Completed", "Failed"}
                        /\ \A x \in Task : x # t => status'[x] = status[x]
  BY UpdateEffect
<1>2. UNCHANGED <<deploy, limit, throttle>>
  BY DEF UpdateTaskState
<1>3. Stages[t] = "busy"
  BY <1>0, <1>1, StageValues
<1>4. Stages' = [Stages EXCEPT ![t] = "over"]
  BY <1>1 DEF Stages, StageOf
<1>5. Keys' = Keys /\ Caps' = Caps
  BY <1>2 DEF Keys, KeyOf, Caps, Limited, LimitOf
<1> QED
  BY <1>3, <1>4, <1>5 DEF Scheduling!Finish

\* Any other step is a change of the caps, or none.
LEMMA OtherMaps ==
    ASSUME TypeOK', UNCHANGED <<status, deploy>>
    PROVE  Scheduling!ChangeCaps
<1>1. Caps' \in [Key -> Nat]
  BY CapsTypedNext
<1>2. Stages' = Stages /\ Keys' = Keys
  BY DEF Stages, Keys, KeyOf
<1> QED
  BY <1>1, <1>2 DEF Scheduling!ChangeCaps, Scheduling!taskVars

\* TaskManager implements TaskScheduling, for any queues, pools and limits.
THEOREM SchedulingIsImplemented == Spec => ImplementsScheduling
<1>1. Init => Scheduling!Init
  <2> SUFFICES ASSUME Init
               PROVE  Scheduling!Init
    OBVIOUS
  <2>1. TypeOK
    BY InitTyped
  <2>2. Stages = [t \in Task |-> "new"]
    BY DEF Init, Stages, StageOf
  <2>3. Keys \in [Task -> Key]
    BY <2>1, KeyTyped DEF Keys
  <2> QED
    BY <2>1, <2>2, <2>3, CapsTyped DEF Scheduling!Init
<1>2. IInv /\ IInv' /\ [Next]_vars => [Scheduling!Next]_(Scheduling!vars)
  <2> SUFFICES ASSUME IInv, IInv', [Next]_vars
               PROVE  Scheduling!Next
    OBVIOUS
  <2>0. TypeOK'
    BY DEF IInv
  <2>1. ASSUME NEW t \in Task, AddTask(t)
        PROVE  Scheduling!Next
    BY <2>0, <2>1, SubmitMaps DEF Scheduling!Next
  <2>2. ASSUME \/ \E t \in Task : CancelTask(t)
               \/ \E ty \in Type : CancelTasksByType(ty)
               \/ DropCancelled
        PROVE  Scheduling!Next
    BY <2>0, <2>2, DropMaps DEF Scheduling!Next
  <2>3. CASE TakeTask
    BY <2>0, <2>3, StartMaps DEF Scheduling!Next
  <2>4. CASE UpdateTaskState
    BY <2>0, <2>4, FinishMaps DEF Scheduling!Next
  <2>5. ASSUME \/ StartDispatch \/ EndCollect \/ SubmitTask \/ TrackTask \/ EndDispatch
               \/ \E p \in Pool : StartRunnable(p)
               \/ \E t \in Task : (\E r \in Results : ExecutorEnds(t, r)) \/ ReportTaskResult(t)
               \/ UNCHANGED coreVars
        PROVE  Scheduling!Next
    <3>1. UNCHANGED <<status, deploy>>
      BY <2>5 DEF StartDispatch, EndCollect, SubmitTask, TrackTask, EndDispatch, StartRunnable,
                  ExecutorEnds, ReportTaskResult, coreVars
    <3> QED
      BY <2>0, <3>1, OtherMaps DEF Scheduling!Next
  <2> QED
    BY <2>1, <2>2, <2>3, <2>4, <2>5, StepCases
<1> QED
  BY Invariance, <1>1, <1>2, PTL DEF Spec, ImplementsScheduling, Scheduling!Spec

-----------------------------------------------------------------------------
(* The throttle of one cloud key.                                          *)

\* The throttling state stays well formed for ever; in particular the key
\* always admits at least MinConcurrency >= 1 tasks.
THEOREM ThrottleTyped == ThrottleSpec => []ThrottleTypeOK
<1>1. ThrottleInit => ThrottleTypeOK
  <2> SUFFICES ASSUME ThrottleInit
               PROVE  ThrottleTypeOK
    OBVIOUS
  <2>1. state \in ThrottlingState
    BY InitialTyped DEF ThrottleInit
  <2> QED
    BY <2>1 DEF ThrottleInit, ThrottleTypeOK
<1>2. ThrottleTypeOK /\ [ThrottleNext]_throttleVars => ThrottleTypeOK'
  BY AdjustTyped, CooldownTyped DEF ThrottleTypeOK, ThrottleNext, Report, Wait, throttleVars
<1> QED
  BY <1>1, <1>2, PTL DEF ThrottleSpec

BelowTen == state.conc < 10

\* A key that starts below ten never recovers a concurrency it lost, whatever
\* the minimum, the maximum and the success threshold are.
THEOREM ThrottleNeverRecovers ==
    ASSUME InitialConcurrency < 10
    PROVE  ThrottleSpec => NeverRecovers
<1>1. ThrottleInit => BelowTen
  <2>1. InitialThrottlingState(TRUE).conc = InitialConcurrency
    BY DEF InitialThrottlingState
  <2>2. ThrottleInit => state = InitialThrottlingState(TRUE)
    BY DEF ThrottleInit
  <2> QED
    BY <2>1, <2>2 DEF BelowTen
<1>2. ThrottleTypeOK /\ BelowTen /\ [ThrottleNext]_throttleVars => state'.conc <= state.conc
  <2> SUFFICES ASSUME ThrottleTypeOK, BelowTen, [ThrottleNext]_throttleVars
               PROVE  state'.conc <= state.conc
    OBVIOUS
  <2>0. state \in ThrottlingState /\ state.conc < 10
    BY DEF ThrottleTypeOK, BelowTen
  <2>1. state.conc \in Int
    BY <2>0, FieldTypes, ThrottleAssumption DEF ThrottleAssumption
  <2>2. ASSUME NEW how \in Outcome, Report(how)
        PROVE  state'.conc <= state.conc
    <3>1. state' = AdjustConcurrency(state, how)
      BY <2>2 DEF Report
    <3> QED
      BY <2>0, <3>1, SmallOnlyDrops
  <2>3. CASE Wait
    <3>1. state'.conc = state.conc
      BY <2>0, <2>3, CooldownTyped DEF Wait
    <3> QED
      BY <2>1, <3>1
  <2>4. CASE UNCHANGED throttleVars
    <3>1. state' = state
      BY <2>4 DEF throttleVars
    <3> QED
      BY <2>1, <3>1
  <2> QED
    BY <2>2, <2>3, <2>4 DEF ThrottleNext
<1>3. ThrottleTypeOK /\ ThrottleTypeOK' /\ BelowTen /\ state'.conc <= state.conc => BelowTen'
  <2> SUFFICES ASSUME ThrottleTypeOK, ThrottleTypeOK', BelowTen, state'.conc <= state.conc
               PROVE  state'.conc < 10
    BY DEF BelowTen
  <2>1. state \in ThrottlingState /\ state' \in ThrottlingState
    BY DEF ThrottleTypeOK
  <2>2. state.conc \in Int /\ state'.conc \in Int
    BY <2>1, FieldTypes, ThrottleAssumption DEF ThrottleAssumption
  <2> QED
    BY <2>2 DEF BelowTen
<1>4. ThrottleSpec => []BelowTen
  BY ThrottleTyped, <1>1, <1>2, <1>3, PTL DEF ThrottleSpec
<1>5. (state'.conc <= state.conc) => [state'.conc <= state.conc]_throttleVars
  OBVIOUS
<1> QED
  BY ThrottleTyped, <1>2, <1>4, <1>5, PTL DEF ThrottleSpec, NeverRecovers
=============================================================================
